----------------------------- MODULE ModelFiles -----------------------------
(* The files local models run from. A model the owner picked, and its one server *)
(* (llm_package/native_model.py); the resumed, verified download of a pinned     *)
(* model (model_download.py); the shared runtime directory with its completion   *)
(* record (runtime_native_install.py). The three have no state in common.        *)
EXTENDS Naturals

CONSTANTS Models,      \* contents of model files, numbered from 1
          Installers,  \* callers of runtime_native_install.download
          Size,        \* the pinned size of a download, in chunks
          MaxActive,   \* bound: requests at once
          MaxTrouble   \* bound: restarts, exits of the server, broken answers

VARIABLES native,   \* NativeModel in memory
          disk,     \* settings.json: installed, and the model its metadata is of
          model,    \* the content of models/model.gguf, 0 for none
          worker,   \* its one thread
          process,  \* the model the server has loaded, 0 for no server, Dead
          fetch,    \* a download: stage, offset, whether this session's bytes are right
          part,     \* the .part file: length, and whether its bytes are right
          final,    \* the downloaded file: "none", "right", "wrong"
          install,  \* install[k]: stage of an installer
          marker,   \* the completion record
          files,    \* the extracted runtime: "none", "torn", "whole"
          overlapped, \* history: two installers were at work at once
          trouble

nativeVars == <<native, disk, model, worker, process>>
fetchVars == <<fetch, part, final>>
runtimeVars == <<install, marker, files, overlapped>>
modelFilesVars == <<nativeVars, fetchVars, runtimeVars, trouble>>

Dead == 99
NoWorker == [action |-> "none", stage |-> "idle", model |-> 0]
NoPart == [length |-> 0, right |-> TRUE]
Fault == trouble < MaxTrouble /\ trouble' = trouble + 1

Init ==
    /\ native = [installed |-> FALSE, model |-> 0, state |-> "not_installed", active |-> 0,
                 cancel |-> FALSE, closed |-> FALSE, uploading |-> FALSE]
    /\ disk = [installed |-> FALSE, model |-> 0] /\ model = 0 /\ worker = NoWorker /\ process = 0
    /\ fetch = [stage |-> "idle", right |-> TRUE] /\ part = NoPart /\ final = "none"
    /\ install = [k \in Installers |-> "idle"] /\ marker = FALSE /\ files = "none" /\ overlapped = FALSE
    /\ trouble = 0

-----------------------------------------------------------------------------
(* NativeModel.action and the upload that ends in it.                            *)
Rest(config) == IF config.installed THEN "stopped" ELSE "not_installed"
Free == worker.stage = "idle"
Launch(action, m) ==
    /\ worker' = [action |-> action, model |-> m,
                  stage |-> IF action \in {"stop", "uninstall"} THEN "drain" ELSE "validate"]
    /\ native' = [native EXCEPT !.cancel = FALSE, !.uploading = FALSE, !.state =
                     CASE action = "start" -> "starting" [] action = "import" -> "installing" [] OTHER -> "stopping"]
Act(action, m) ==
    /\ ~ native.closed /\ Free /\ ~ native.uploading
    /\ CASE action = "import" -> ~ native.installed
         [] action = "start" -> native.installed /\ native.state # "running"
         [] action = "stop" -> process # 0
         [] OTHER -> TRUE
    /\ Launch(action, m) /\ UNCHANGED <<disk, model, process>>
CancelAction ==
    /\ ~ native.closed /\ (native.state = "installing" \/ native.uploading)
    /\ native' = [native EXCEPT !.cancel = TRUE]
    /\ UNCHANGED <<disk, model, worker, process>>
BeginUpload ==
    /\ ~ native.closed /\ ~ native.uploading /\ Free /\ ~ native.installed
    /\ native' = [native EXCEPT !.uploading = TRUE, !.cancel = FALSE]
    /\ UNCHANGED <<disk, model, worker, process>>
EndUpload(m) ==
    /\ native.uploading
    /\ \/ ~ native.cancel /\ ~ native.closed /\ Launch("import", m)
       \/ native' = [native EXCEPT !.uploading = FALSE] /\ UNCHANGED worker
    /\ UNCHANGED <<disk, model, process>>
Preferences ==
    /\ disk' = [installed |-> native.installed, model |-> native.model] /\ disk' # disk
    /\ UNCHANGED <<native, model, worker, process>>

(* _run: stop and uninstall.                                                     *)
Then(stage) == worker' = [worker EXCEPT !.stage = stage]
DrainedOrNot == TRUE   \* mutant
Drained == native.active = 0 \/ native.closed
Kill ==
    /\ worker.stage = "drain" /\ Drained /\ process' = 0
    /\ IF worker.action = "uninstall" THEN Then("unlink") /\ UNCHANGED native
       ELSE worker' = NoWorker /\ native' = [native EXCEPT !.state = Rest(native)]
    /\ UNCHANGED <<disk, model>>
Unlink ==
    /\ worker.stage = "unlink" /\ Then("forget") /\ model' = 0 /\ UNCHANGED <<native, disk, process>>
Forget ==
    /\ worker.stage = "forget" /\ worker' = NoWorker
    /\ native' = [native EXCEPT !.installed = FALSE, !.model = 0, !.state = "not_installed"]
    /\ disk' = [installed |-> FALSE, model |-> 0] /\ UNCHANGED <<model, process>>

(* _run: import and start; _report raises once the action is cancelled.          *)
Goes == ~ native.cancel /\ ~ native.closed
Validated == worker.action = "import" \/ model = native.model
Validate ==
    /\ worker.stage = "validate" /\ Goes /\ Validated
    /\ Then(IF worker.action = "import" THEN "copy" ELSE "save") /\ UNCHANGED <<native, disk, model, process>>
Copy ==
    /\ worker.stage = "copy" /\ Goes /\ Then("save") /\ model' = worker.model /\ UNCHANGED <<native, disk, process>>
Save ==
    /\ worker.stage = "save" /\ Then("engine")
    /\ LET m == IF worker.action = "import" THEN worker.model ELSE native.model IN
         native' = [native EXCEPT !.installed = TRUE, !.model = m] /\ disk' = [installed |-> TRUE, model |-> m]
    /\ UNCHANGED <<model, process>>
Spawn ==
    /\ worker.stage = "engine" /\ Goes /\ Then("spawned") /\ process' = model /\ UNCHANGED <<native, disk, model>>
SpawnChecked == IF Goes THEN Then("health") /\ UNCHANGED process ELSE Then("failed") /\ process' = 0
Spawned == worker.stage = "spawned" /\ SpawnChecked /\ UNCHANGED <<native, disk, model>>
SelfTest ==
    /\ worker.stage = "health" /\ Goes /\ process # Dead /\ Then("ready") /\ UNCHANGED <<native, disk, model, process>>
Ready ==
    /\ worker.stage = "ready" /\ worker' = NoWorker /\ native' = [native EXCEPT !.state = "running"]
    /\ UNCHANGED <<disk, model, process>>
WorkerFails ==
    /\ worker.stage \in {"validate", "copy", "save", "engine", "health", "failed"}
    /\ worker' = NoWorker /\ process' = 0
    /\ native' = [native EXCEPT !.state = IF Goes THEN "error" ELSE Rest(native)]
    /\ UNCHANGED <<disk, model>>

(* ManagedAdapter.request, the server's exit, and the end of the node.           *)
Serving == native.state = "running" /\ process \notin {0, Dead}
Admit ==
    /\ Serving /\ native.active < MaxActive /\ native' = [native EXCEPT !.active = @ + 1]
    /\ UNCHANGED <<disk, model, worker, process>>
Answer ==
    /\ native.active > 0 /\ native' = [native EXCEPT !.active = @ - 1] /\ UNCHANGED <<disk, model, worker, process>>
Noticed ==
    /\ native.state = "running" /\ process = Dead /\ native' = [native EXCEPT !.state = "error"]
    /\ UNCHANGED <<disk, model, worker, process>>
Close ==
    /\ ~ native.closed /\ native' = [native EXCEPT !.closed = TRUE, !.cancel = TRUE] /\ process' = 0
    /\ UNCHANGED <<disk, model, worker>>
Exits == process \notin {0, Dead} /\ Fault /\ process' = Dead /\ UNCHANGED <<native, disk, model, worker>>
Restart ==   \* the supervisor of the server ends it with the node
    /\ Fault /\ process' = 0 /\ worker' = NoWorker
    /\ LET found == [installed |-> disk.installed /\ disk.model # 0 /\ model # 0] IN
         native' = [installed |-> found.installed, model |-> disk.model, state |-> Rest(found), active |-> 0,
                    cancel |-> FALSE, closed |-> FALSE, uploading |-> FALSE]
    /\ UNCHANGED <<disk, model>>

NativeNext ==
    /\ \/ /\ UNCHANGED trouble
          /\ \/ \E m \in Models : Act("import", m) \/ EndUpload(m)
             \/ \E action \in {"start", "stop", "uninstall"} : Act(action, 0)
             \/ CancelAction \/ BeginUpload \/ Preferences \/ Kill \/ Unlink \/ Forget
             \/ Validate \/ Copy \/ Save \/ Spawn \/ Spawned \/ SelfTest \/ Ready \/ WorkerFails
             \/ Admit \/ Answer \/ Noticed \/ Close
       \/ Exits \/ Restart
    /\ UNCHANGED <<fetchVars, runtimeVars>>

-----------------------------------------------------------------------------
(* model_download.download; a server may send wrong bytes, too many or too few.  *)
Request ==
    /\ fetch.stage = "idle" /\ final = "none" /\ fetch' = [stage |-> "asked", right |-> TRUE]
    /\ UNCHANGED <<part, final, trouble>>
Resumed ==   \* 206 at the offset
    /\ fetch.stage = "asked" /\ fetch' = [fetch EXCEPT !.stage = "reading"] /\ UNCHANGED <<part, final, trouble>>
FromStart == \* 200, or 206 at zero
    /\ fetch.stage = "asked" /\ fetch' = [fetch EXCEPT !.stage = "reading"] /\ part' = NoPart /\ UNCHANGED <<final, trouble>>
Refused ==   \* 416
    /\ fetch.stage = "asked" /\ part.length > 0
    /\ fetch' = [fetch EXCEPT !.stage = IF part.length < Size THEN "idle" ELSE "verify"]
    /\ UNCHANGED <<part, final, trouble>>
Chunk(right) ==
    /\ fetch.stage = "reading" /\ IF right THEN UNCHANGED trouble ELSE Fault
    /\ IF part.length < Size
       THEN /\ part' = [length |-> part.length + 1, right |-> part.right /\ right]
            /\ fetch' = [fetch EXCEPT !.right = @ /\ right]
       ELSE ~ right /\ part' = NoPart /\ fetch' = [fetch EXCEPT !.stage = "idle"]   \* larger than pinned
    /\ UNCHANGED final
Complete ==
    /\ fetch.stage = "reading" /\ part.length = Size /\ fetch' = [fetch EXCEPT !.stage = "verify"]
    /\ UNCHANGED <<part, final, trouble>>
FetchStops ==   \* cancelled, a network error, a short answer, the node
    /\ fetch.stage # "idle" /\ fetch' = [fetch EXCEPT !.stage = "idle"] /\ UNCHANGED <<part, final, trouble>>
SessionMatches == fetch.right   \* mutant
Matches == part.right
Verify ==
    /\ fetch.stage = "verify" /\ fetch' = [fetch EXCEPT !.stage = "idle"] /\ part' = NoPart
    /\ final' = IF Matches THEN IF part.right THEN "right" ELSE "wrong" ELSE final
    /\ UNCHANGED trouble
FetchNext ==
    /\ \/ Request \/ Resumed \/ FromStart \/ Refused \/ Complete \/ FetchStops \/ Verify
       \/ \E right \in BOOLEAN : Chunk(right)
    /\ UNCHANGED <<nativeVars, runtimeVars>>

-----------------------------------------------------------------------------
(* runtime_native_install.download: a setup's, or the update action's.           *)
Step(k, from, to) == install[k] = from /\ install' = [install EXCEPT ![k] = to]
Extracting == {k \in Installers : install[k] = "extracting"}
FetchArchive(k) ==
    /\ Step(k, "idle", "fetched") /\ (marker => k = "update")
    /\ overlapped' = (overlapped \/ \E j \in Installers : install[j] # "idle")
    /\ UNCHANGED <<marker, files, trouble>>
MarkerKept(k) == Step(k, "fetched", "unmarked") /\ UNCHANGED <<marker, files, overlapped, trouble>>   \* mutant
Unmark(k) == Step(k, "fetched", "unmarked") /\ marker' = FALSE /\ UNCHANGED <<files, overlapped, trouble>>
Extract(k) ==
    /\ Step(k, "unmarked", "extracting") /\ files' = "torn" /\ UNCHANGED <<marker, overlapped, trouble>>
Extracted(k) ==
    /\ Step(k, "extracting", "extracted") /\ files' = IF Extracting = {k} THEN "whole" ELSE "torn"
    /\ UNCHANGED <<marker, overlapped, trouble>>
Mark(k) == Step(k, "extracted", "idle") /\ marker' = TRUE /\ UNCHANGED <<files, overlapped, trouble>>
InstallFails(k) ==   \* an error, a cancelled setup, or the end of the process
    /\ install[k] # "idle" /\ Step(k, install[k], "idle") /\ Fault /\ UNCHANGED <<marker, files, overlapped>>
RuntimeNext ==
    /\ \E k \in Installers :
         FetchArchive(k) \/ Unmark(k) \/ Extract(k) \/ Extracted(k) \/ Mark(k) \/ InstallFails(k)
    /\ UNCHANGED <<nativeVars, fetchVars>>

Next == NativeNext \/ FetchNext \/ RuntimeNext

-----------------------------------------------------------------------------
(* A server that takes requests has loaded the model the settings describe, and   *)
(* after close no server is left behind by a worker that was starting one.       *)
ServesWhatItNames ==
    /\ Serving => process = model /\ process = native.model /\ native.installed
    /\ native.closed /\ Free => process = 0
(* Stopping and uninstalling end a server only after its requests, unless the     *)
(* node itself ends.                                                             *)
NoRequestIsCut ==
    worker.stage = "drain" /\ native.active > 0 /\ process \notin {0, Dead} =>
        process' = process \/ native'.closed \/ trouble' # trouble
(* What is in place under its final name is the pinned content, whatever earlier *)
(* sessions had left in the partial file.                                        *)
FinalIsRight == final # "wrong"
(* "A repair must not leave an older completion marker authorizing a partly       *)
(* overwritten extraction if the process exits or I/O fails."                    *)
MarkerMeansWhole == marker => files = "whole"

\* A completion marker means a whole file, unless two installers overlapped.
MarkedWhole == MarkerMeansWhole \/ overlapped

\* What holds of the model files in every state (native_model.py, model_download.py).
FilesInv == ServesWhatItNames /\ FinalIsRight /\ MarkedWhole
=============================================================================
