----------------------------- MODULE ModelSetup -----------------------------
(* Setting up the local model of a node (llm_package/routes.py, lifecycle.py,    *)
(* setup_recovery.py, runtime_native.py): the configuration is two files, the    *)
(* settings that name a manifest and the manifest; a setup job replaces both     *)
(* under a journal from which a failed, cancelled or interrupted job is undone.  *)
(* Package "p" runs its own server on one port, package "q" is an external API.  *)
(* What a step downloads or extracts is ModelFiles; here it succeeds or fails.   *)
EXTENDS Naturals

CONSTANTS MaxSetups,   \* bound: setups begun
          MaxTrouble   \* bound: stops of the node and writes that fail

VARIABLES manifest,   \* manifest[x]: the saved manifest of package x
          settings,   \* provider-settings.json
          journal,    \* setup-recovery.json; a committed record counts as none
          job,        \* the state in the setup job file
          setup,      \* the holder of setup_operation_lock
          cancelled,  \* its cancel event
          server,     \* the llama-server on the port
          pidfile,    \* the key in package p's pidfile, 0 for no file
          manager,    \* the ProviderService in memory
          publish,    \* a publish request and the settings it has read
          good,       \* history: configurations that were completed
          lost,       \* history: a server was left before it was recorded
          stale,      \* history: a publish wrote settings that were out of date
          trouble

setupVars == <<manifest, settings, journal, job, setup, cancelled, server, pidfile, manager, publish,
               good, lost, stale, trouble>>

Active == {"running", "cancelling"}
NoManifest == [id |-> 0, profile |-> "none", key |-> 0]
NoServer == [profile |-> "none", key |-> 0]
NoJournal == [state |-> "none", path |-> "none", manifest |-> NoManifest, settings |-> [manifest |-> "none", publish |-> FALSE]]
NoManager == [path |-> "none", manifest |-> NoManifest, accepting |-> FALSE]
NoSetup == [stage |-> "idle", at |-> 1, async |-> FALSE, path |-> "none", profile |-> "none", key |-> 0,
            captured |-> FALSE, found |-> FALSE, id |-> 1]
At(path) == IF path = "none" THEN NoManifest ELSE manifest[path]
Config == [path |-> settings.manifest, manifest |-> At(settings.manifest)]
Saved == [id |-> setup.id, profile |-> setup.profile, key |-> setup.key]

\* Before: nothing configured, or an installed package whose server runs.
Init ==
    /\ \E old \in BOOLEAN :
         /\ manifest = [x \in {"p", "q"} |->
                           IF old /\ x = "p" THEN [id |-> 1, profile |-> "small", key |-> 1] ELSE NoManifest]
         /\ settings = [manifest |-> IF old THEN "p" ELSE "none", publish |-> old]
         /\ server = IF old THEN [profile |-> "small", key |-> 1] ELSE NoServer
         /\ pidfile = IF old THEN 1 ELSE 0
    /\ journal = NoJournal /\ job = "idle" /\ setup = NoSetup /\ cancelled = FALSE /\ manager = NoManager
    /\ publish = [stage |-> "idle", settings |-> settings]
    /\ good = {Config} /\ lost = FALSE /\ stale = FALSE /\ trouble = 0

runtimeVars == <<server, pidfile>>
fileVars == <<manifest, settings, journal>>
historyVars == <<good, lost, stale>>
Goto(stage) == setup' = [setup EXCEPT !.stage = stage, !.at = 1]
Ends == setup' = [NoSetup EXCEPT !.id = setup.id] /\ cancelled' = FALSE
Fault == trouble < MaxTrouble /\ trouble' = trouble + 1

-----------------------------------------------------------------------------
(* local_llm_setup and local_llm_setup_async; connecting an API has no server.   *)
Begin(async, path, profile) ==
    /\ setup.stage = "idle" /\ setup.id <= MaxSetups
    /\ IF async THEN job \notin Active ELSE journal.state # "pending"
    /\ (path = "q") = (profile = "api")
    /\ setup' = [NoSetup EXCEPT !.stage = IF async THEN "restoring" ELSE "configure", !.async = async,
                                !.path = path, !.profile = profile, !.id = setup.id + 1]
    /\ job' = IF async THEN "running" ELSE job
    /\ UNCHANGED <<fileVars, cancelled, runtimeVars, manager, publish, historyVars, trouble>>

Cancel ==
    /\ setup.async /\ job = "running" /\ cancelled' = TRUE /\ job' = "cancelling"
    /\ UNCHANGED <<fileVars, setup, runtimeVars, manager, publish, historyVars, trouble>>

\* SetupRecovery.capture.
Capture ==
    /\ setup.stage = "capture"
    /\ journal' = [state |-> "pending", path |-> settings.manifest, manifest |-> At(settings.manifest), settings |-> settings]
    /\ setup' = [setup EXCEPT !.stage = "configure", !.captured = TRUE]
    /\ UNCHANGED <<manifest, settings, job, cancelled, runtimeVars, manager, publish, historyVars, trouble>>

\* The except clause: undo what a captured job did, else report the failure.
Failed ==
    \/ setup.async /\ setup.captured /\ Goto("undoing") /\ UNCHANGED <<job, cancelled>>
    \/ setup.async /\ ~ setup.captured /\ Ends /\ job' = IF cancelled THEN "cancelled" ELSE "failed"
    \/ ~ setup.async /\ Ends /\ UNCHANGED job

Prepare ==   \* hardware, download, backend.prepare
    /\ setup.stage = "configure" /\ ~ cancelled
    /\ Goto(IF setup.path = "p" THEN "spawn" ELSE "health")
    /\ UNCHANGED <<fileVars, job, cancelled, runtimeVars, manager, publish, historyVars, trouble>>

\* runtime_native.start for a manifest without a key.
Recorded == pidfile # 0 /\ server # NoServer
Spawn ==
    /\ setup.stage = "spawn" /\ ~ cancelled
    /\ \/ /\ Recorded /\ setup' = [setup EXCEPT !.stage = "health", !.key = pidfile]
          /\ UNCHANGED <<server, pidfile>>
       \/ /\ server = NoServer /\ setup' = [setup EXCEPT !.stage = "record", !.key = setup.id]
          /\ server' = [profile |-> setup.profile, key |-> setup.id] /\ pidfile' = 0
    /\ UNCHANGED <<fileVars, job, cancelled, manager, publish, historyVars, trouble>>
RecordPid ==
    /\ setup.stage = "record" /\ Goto("health") /\ pidfile' = setup.key
    /\ UNCHANGED <<fileVars, job, cancelled, server, manager, publish, historyVars, trouble>>

\* wait_healthy and self_test: the server knows the model and takes the key.
Healthy(profile, key) == server = [profile |-> profile, key |-> key]
Tested ==
    /\ setup.stage = "health" /\ ~ cancelled /\ Goto("save")
    /\ setup.path = "p" => Healthy(setup.profile, setup.key)
    /\ UNCHANGED <<fileVars, job, cancelled, runtimeVars, manager, publish, historyVars, trouble>>
SaveManifest ==
    /\ setup.stage = "save" /\ Goto("saved") /\ manifest' = [manifest EXCEPT ![setup.path] = Saved]
    /\ good' = IF setup.async THEN good ELSE good \cup {[path |-> setup.path, manifest |-> Saved]}
    /\ UNCHANGED <<settings, journal, job, cancelled, runtimeVars, manager, publish, lost, stale, trouble>>

\* activate_configuration, then SetupRecovery.commit and the job's result.
Activate ==
    /\ setup.stage = "saved" /\ ~ cancelled
    /\ settings' = [manifest |-> setup.path, publish |-> FALSE]
    /\ manager' = [path |-> setup.path, manifest |-> At(setup.path), accepting |-> FALSE]
    /\ IF setup.async THEN Goto("commit") /\ UNCHANGED cancelled ELSE Ends
    /\ UNCHANGED <<manifest, journal, job, runtimeVars, publish, historyVars, trouble>>
Uncommitted == journal   \* mutant
Committed == NoJournal
Commit ==
    /\ setup.stage = "commit" /\ Goto("report") /\ journal' = Committed
    /\ good' = good \cup {[path |-> setup.path, manifest |-> Saved]}
    /\ UNCHANGED <<manifest, settings, job, cancelled, runtimeVars, manager, publish, lost, stale, trouble>>
Report ==
    /\ setup.stage = "report" /\ Ends /\ job' = "succeeded"
    /\ UNCHANGED <<fileVars, runtimeVars, manager, publish, historyVars, trouble>>

\* Anything that raises; from the health check on, the server is stopped first.
StepFails ==
    /\ \/ setup.stage \in {"configure", "spawn"} /\ UNCHANGED <<runtimeVars, trouble>>
       \/ setup.stage = "saved" /\ cancelled /\ UNCHANGED <<runtimeVars, trouble>>
       \/ /\ setup.stage = "health" /\ UNCHANGED trouble
          /\ IF setup.path = "p" /\ Recorded THEN server' = NoServer /\ pidfile' = 0 ELSE UNCHANGED runtimeVars
       \/ setup.stage \in {"capture", "record", "saved", "commit", "report"} /\ Fault /\ UNCHANGED runtimeVars
    /\ Failed /\ lost' = (lost \/ setup.stage = "record")
    /\ UNCHANGED <<fileVars, manager, publish, good, stale>>

-----------------------------------------------------------------------------
(* SetupRecovery.restore: before a job, after a failed one, when the node        *)
(* starts; then the job's or the start's next step.                              *)
Restoring == setup.stage \in {"restoring", "undoing", "booting"}
Interrupted == IF job \in Active \/ setup.found THEN "failed" ELSE job
Verdict == IF cancelled THEN "cancelled" ELSE "failed"
AfterRestore(restored) ==
    CASE setup.stage = "restoring" -> Goto("capture") /\ UNCHANGED <<job, cancelled>>
      [] setup.stage = "undoing" /\ restored -> Goto("resume") /\ UNCHANGED <<job, cancelled>>
      [] setup.stage = "undoing" /\ ~ restored -> Ends /\ job' = Verdict
      [] OTHER -> Ends /\ job' = Interrupted
RestoreAbsent ==
    /\ Restoring /\ journal.state # "pending" /\ AfterRestore(FALSE)
    /\ UNCHANGED <<fileVars, runtimeVars, manager, publish, historyVars, trouble>>
RestoreManifest ==
    /\ Restoring /\ journal.state = "pending" /\ setup.at = 1
    /\ setup' = [setup EXCEPT !.at = 2, !.found = TRUE]
    /\ manifest' = IF journal.path = "none" THEN manifest ELSE [manifest EXCEPT ![journal.path] = journal.manifest]
    /\ UNCHANGED <<settings, journal, job, cancelled, runtimeVars, manager, publish, historyVars, trouble>>
RestoreSettings ==
    /\ Restoring /\ setup.at = 2 /\ setup' = [setup EXCEPT !.at = 3] /\ settings' = journal.settings
    /\ UNCHANGED <<manifest, journal, job, cancelled, runtimeVars, manager, publish, historyVars, trouble>>
RestoreCommits ==
    /\ Restoring /\ setup.at = 3 /\ journal' = NoJournal /\ AfterRestore(journal.manifest # NoManifest)
    /\ UNCHANGED <<manifest, settings, runtimeVars, manager, publish, historyVars, trouble>>
RestoreFails ==   \* the snapshot stays for the next attempt
    /\ Restoring /\ journal.state = "pending" /\ Fault /\ Ends /\ job' = "failed"
    /\ UNCHANGED <<fileVars, runtimeVars, manager, publish, historyVars>>

\* start(path): a live recorded server is kept, else one is spawned with the saved key.
Started(m) ==
    IF Recorded \/ server # NoServer THEN UNCHANGED runtimeVars
    ELSE server' = [profile |-> m.profile, key |-> m.key] /\ pidfile' = m.key
Resume ==
    /\ setup.stage = "resume" /\ Ends
    /\ LET m == At(settings.manifest) IN
         /\ IF settings.manifest = "p" THEN Started(m) ELSE UNCHANGED runtimeVars
         /\ IF settings.manifest = "p" => server' = [profile |-> m.profile, key |-> m.key]
            THEN /\ manager' = [path |-> settings.manifest, manifest |-> m, accepting |-> settings.publish] /\ job' = Verdict
            ELSE UNCHANGED manager /\ job' = "failed"
    /\ UNCHANGED <<fileVars, publish, historyVars, trouble>>

\* The node stops; only a clean stop ends the servers it has recorded.
Stop(clean) ==
    /\ Fault
    /\ setup' = [NoSetup EXCEPT !.stage = "booting", !.id = setup.id] /\ cancelled' = FALSE
    /\ IF clean /\ Recorded THEN server' = NoServer /\ pidfile' = 0 ELSE UNCHANGED runtimeVars
    /\ lost' = (lost \/ setup.stage = "record")
    /\ manager' = NoManager /\ publish' = [publish EXCEPT !.stage = "idle"]
    /\ UNCHANGED <<fileVars, job, good, stale>>

-----------------------------------------------------------------------------
(* The owner's other calls do not take the setup lock.                           *)
Up == setup.stage # "booting"
PublishReads ==   \* local_llm_publish, without a manifest in its body
    /\ Up /\ publish.stage = "idle" /\ settings.manifest # "none"
    /\ publish' = [stage |-> "read", settings |-> settings]
    /\ UNCHANGED <<fileVars, job, setup, cancelled, runtimeVars, manager, historyVars, trouble>>
Writes(on) ==
    /\ settings' = [publish.settings EXCEPT !.publish = on]
    /\ stale' = (stale \/ publish.settings.manifest # settings.manifest)
PublishWrites ==
    /\ publish.stage = "read" /\ Writes(TRUE) /\ publish' = [publish EXCEPT !.stage = "probing"]
    /\ LET path == publish.settings.manifest IN
         manager' = IF manager.path = path THEN [manager EXCEPT !.accepting = TRUE]
                    ELSE [path |-> path, manifest |-> At(path), accepting |-> TRUE]
    /\ UNCHANGED <<manifest, journal, job, setup, cancelled, runtimeVars, good, lost, trouble>>
PublishEnds ==
    /\ publish.stage = "probing" /\ publish' = [publish EXCEPT !.stage = "idle"]
    /\ \/ UNCHANGED <<settings, manager, stale>>
       \/ Writes(FALSE) /\ manager' = [manager EXCEPT !.accepting = FALSE]
    /\ UNCHANGED <<manifest, journal, job, setup, cancelled, runtimeVars, good, lost, trouble>>
Pause ==
    /\ Up /\ settings.publish /\ settings' = [settings EXCEPT !.publish = FALSE]
    /\ manager' = IF journal.state = "pending" \/ setup.stage # "idle" THEN manager ELSE [manager EXCEPT !.accepting = FALSE]
    /\ UNCHANGED <<manifest, journal, job, setup, cancelled, runtimeVars, publish, historyVars, trouble>>
\* service/actions start, stop, restart
Service(action) ==
    /\ Up /\ settings.manifest = "p" /\ settings' = [settings EXCEPT !.publish = FALSE]
    /\ IF action = "start" THEN Started(At("p"))
       ELSE IF Recorded THEN server' = NoServer /\ pidfile' = 0 ELSE UNCHANGED runtimeVars
    /\ manager' = IF action = "stop" THEN NoManager ELSE [manager EXCEPT !.accepting = FALSE]
    /\ UNCHANGED <<manifest, journal, job, setup, cancelled, publish, historyVars, trouble>>

Next ==
    \/ \E async \in BOOLEAN, path \in {"p", "q"}, profile \in {"small", "large", "api"} : Begin(async, path, profile)
    \/ Cancel \/ Capture \/ Prepare \/ Spawn \/ RecordPid \/ Tested \/ SaveManifest \/ Activate \/ Commit \/ Report
    \/ StepFails \/ RestoreAbsent \/ RestoreManifest \/ RestoreSettings \/ RestoreCommits \/ RestoreFails \/ Resume
    \/ PublishReads \/ PublishWrites \/ PublishEnds \/ Pause
    \/ \E action \in {"start", "stop"} : Service(action)
    \/ \E clean \in BOOLEAN : Stop(clean)

-----------------------------------------------------------------------------
(* Between two setups the configuration is one that a setup completed: never the *)
(* settings of one with the manifest of another, nor one that failed.            *)
ConfigurationIsWhole == setup.stage = "idle" /\ journal.state # "pending" /\ ~ stale => Config \in good
(* What a job can be undone to is such a configuration, and a job that reported  *)
(* success is not undone.                                                        *)
BaselineIsWhole ==
    journal.state = "pending" /\ ~ stale =>
        /\ [path |-> journal.path, manifest |-> journal.manifest] \in good
        /\ job # "succeeded"
(* The key of a running server is in a file, or the setup that spawned it has it. *)
KeyIsKnown == server # NoServer => server.key \in {pidfile, manifest["p"].key} \/ setup.stage = "record" \/ lost

\* What a node finds after any stop of a setup (setup_recovery.py, lifecycle.py).
SetupSound == ConfigurationIsWhole /\ BaselineIsWhole /\ KeyIsKnown

(* "An incomplete or unrecovered configuration is not a service": no orders are  *)
(* taken with a manifest whose setup has not been completed.                     *)
OnlyWholeIsServed == manager.accepting => [path |-> manager.path, manifest |-> manager.manifest] \in good
=============================================================================
