---------------------------- MODULE OfflineReading ----------------------------
(* An article kept for offline reading (offline_reading/service.py, store.py,      *)
(* fetch.py, cleanup.py): the owner asks for a copy, updates, cancels, retries and *)
(* clears it; a worker downloads text and images into a bundle, checkpointing as   *)
(* it goes, and commits it as the current copy; files nothing refers to are        *)
(* collected.  The node may restart, or install the feature again while the old    *)
(* worker's thread still runs.                                                     *)
EXTENDS Naturals, FiniteSets

CONSTANTS Images, Workers, NoBundle,
          MaxJobs,       \* bound: download jobs
          MaxTokens      \* bound: claims of a job by a worker

VARIABLES row,        \* the item's record
          jobs,       \* job identifiers given out
          tokens,     \* claims given out
          bundles,    \* bundles[j]: the file of job j
          worker,     \* worker[w]: the download thread of one installation
          service,    \* the installation in force
          sweep,      \* a collection of orphan files is due
          plan        \* the receipt of a clearing: the files still to unlink

offlineVars == <<row, jobs, tokens, bundles, worker, service, sweep, plan>>

Active == {"queued", "downloading", "verifying", "cancel_requested"}
Jobs == 1 .. MaxJobs
Idle == [stage |-> "idle", job |-> 0, token |-> 0, copy |-> NoBundle, left |-> {}, image |-> {}]
Fresh == [g \in Images |-> "pending"]

Init ==
    /\ row = [state |-> "none", job |-> 0, token |-> 0, current |-> 0, partial |-> FALSE]
    /\ jobs = 0 /\ tokens = 0 /\ bundles = [j \in Jobs |-> NoBundle]
    /\ worker = [w \in Workers |-> Idle] /\ service \in Workers /\ sweep = FALSE /\ plan = {}

----------------------------------------------------------------------------
(* The owner.                                                                    *)

fileVars == <<bundles, worker, service, plan>>

\* request: an active download, or a copy that is not to be updated, is returned.
Request(update) ==
    /\ row.state \notin Active /\ (row.current # 0 => update) /\ jobs < MaxJobs
    /\ jobs' = jobs + 1 /\ sweep' = TRUE
    /\ row' = [row EXCEPT !.state = "queued", !.job = jobs + 1, !.token = 0]
    /\ UNCHANGED <<tokens, fileVars>>
Retry ==
    /\ row.job # 0 /\ row.state \notin Active
    /\ row' = [row EXCEPT !.state = "queued", !.token = 0]
    /\ UNCHANGED <<jobs, tokens, sweep, fileVars>>
Cancel ==
    /\ row.state \in Active \ {"cancel_requested"}
    /\ row' = [row EXCEPT !.state = IF @ = "queued" THEN "cancelled" ELSE "cancel_requested"]
    /\ UNCHANGED <<jobs, tokens, sweep, fileVars>>
\* clear: the record forgets its copies and the receipt lists their files in one write.
Clear ==
    /\ row.state \notin {"none", "cleared"} /\ plan = {}
    /\ plan' = {j \in {row.current, row.job} \ {0} : bundles[j] # NoBundle}
    /\ row' = [row EXCEPT !.state = "cleared", !.job = 0, !.token = 0, !.current = 0, !.partial = FALSE]
    /\ UNCHANGED <<jobs, tokens, bundles, worker, service, sweep>>
Unlink(j) ==
    /\ j \in plan /\ plan' = plan \ {j} /\ bundles' = [bundles EXCEPT ![j] = NoBundle]
    /\ UNCHANGED <<row, jobs, tokens, worker, service, sweep>>
\* gc
Retained == {row.current, row.job} \cup plan
Collect ==
    /\ sweep /\ sweep' = FALSE
    /\ bundles' = [j \in Jobs |-> IF j \in Retained THEN bundles[j] ELSE NoBundle]
    /\ UNCHANGED <<row, jobs, tokens, worker, service, plan>>

----------------------------------------------------------------------------
(* The worker.                                                                   *)

ownerVars == <<jobs, service, plan>>
At(w, stage) == worker[w].stage = stage

\* check: the claim is still the row's, and nobody asked to cancel.
CheckJob(w) == row.job = worker[w].job     \* mutant: the claim's token is ignored
Check(w) ==
    row.job = worker[w].job /\ row.token = worker[w].token /\ row.state # "cancel_requested"

Claim(w) ==
    /\ service = w /\ At(w, "idle") /\ row.state = "queued" /\ tokens < MaxTokens
    /\ tokens' = tokens + 1
    /\ row' = [row EXCEPT !.state = "downloading", !.token = tokens + 1]
    /\ worker' = [worker EXCEPT ![w] = [Idle EXCEPT !.stage = "prepare", !.job = row.job,
                                                    !.token = tokens + 1]]
    /\ UNCHANGED <<ownerVars, bundles, sweep>>
\* A readable checkpoint is resumed; otherwise the source is read again.
Loaded(w, copy) ==
    worker' = [worker EXCEPT ![w].stage = "images", ![w].copy = copy,
                             ![w].left = {g \in Images : copy[g] # "verified"}]
Resume(w) ==
    /\ At(w, "prepare") /\ Check(w) /\ bundles[worker[w].job] # NoBundle
    /\ Loaded(w, bundles[worker[w].job])
    /\ UNCHANGED <<ownerVars, row, tokens, bundles, sweep>>
Prepare(w) ==
    /\ At(w, "prepare") /\ Check(w) /\ bundles[worker[w].job] = NoBundle
    /\ bundles' = [bundles EXCEPT ![worker[w].job] = Fresh] /\ Loaded(w, Fresh)
    /\ UNCHANGED <<ownerVars, row, tokens, sweep>>
\* fetch_resource: a child process fetches the image while the worker keeps checking.
StartFetch(w, g) ==
    /\ At(w, "images") /\ g \in worker[w].left /\ Check(w)
    /\ worker' = [worker EXCEPT ![w].stage = "fetching", ![w].image = {g}]
    /\ UNCHANGED <<ownerVars, row, tokens, bundles, sweep>>
\* The image arrived, or its fetch failed or ran out of time; either is checkpointed.
Fetched(w, outcome) ==
    /\ At(w, "fetching") /\ Check(w)
    /\ LET copy == [g \in Images |-> IF g \in worker[w].image THEN outcome ELSE worker[w].copy[g]]
       IN  /\ worker' = [worker EXCEPT ![w].stage = "images", ![w].copy = copy, ![w].image = {},
                                       ![w].left = @ \ worker[w].image]
           /\ bundles' = [bundles EXCEPT ![worker[w].job] = copy]
    /\ UNCHANGED <<ownerVars, row, tokens, sweep>>
Verify(w) ==
    /\ At(w, "images") /\ worker[w].left = {} /\ Check(w)
    /\ row' = [row EXCEPT !.state = "verifying"]
    /\ worker' = [worker EXCEPT ![w].stage = "reread"]
    /\ UNCHANGED <<ownerVars, tokens, bundles, sweep>>
\* The bundle is read again from disk: what it holds decides whether it is partial.
Reread(w) ==
    /\ At(w, "reread") /\ bundles[worker[w].job] # NoBundle
    /\ worker' = [worker EXCEPT ![w].stage = "commit", ![w].copy = bundles[worker[w].job]]
    /\ UNCHANGED <<ownerVars, row, tokens, bundles, sweep>>
Partial(copy) == \E g \in Images : copy[g] # "verified"
Commit(w) ==
    /\ At(w, "commit") /\ Check(w)
    /\ LET partial == Partial(worker[w].copy)
       IN  row' = [state |-> IF partial THEN "partial" ELSE "ready", job |-> 0, token |-> 0,
                   current |-> worker[w].job, partial |-> partial]
    /\ worker' = [worker EXCEPT ![w] = Idle] /\ sweep' = TRUE
    /\ UNCHANGED <<ownerVars, tokens, bundles>>
\* Any failure, the superseded claim's too: the row is only touched by its claimant.
Fail(w) ==
    /\ ~ At(w, "idle")
    /\ row' = IF row.job = worker[w].job /\ row.token = worker[w].token
              THEN [row EXCEPT !.state = IF @ = "cancel_requested" THEN "cancelled" ELSE "failed"]
              ELSE row
    /\ worker' = [worker EXCEPT ![w] = Idle]
    /\ UNCHANGED <<ownerVars, tokens, bundles, sweep>>

----------------------------------------------------------------------------
(* recover, at every installation of the feature.                                *)

Recovered ==
    CASE row.state \in {"downloading", "verifying"} -> [row EXCEPT !.state = "queued", !.token = 0]
      [] row.state = "cancel_requested" -> [row EXCEPT !.state = "cancelled", !.token = 0]
      [] OTHER -> row
Restart ==
    /\ row' = Recovered /\ worker' = [w \in Workers |-> Idle] /\ sweep' = FALSE
    /\ UNCHANGED <<jobs, tokens, bundles, service, plan>>
Reinstall(w) ==
    /\ w # service /\ At(w, "idle") /\ row' = Recovered /\ service' = w
    /\ UNCHANGED <<jobs, tokens, bundles, worker, sweep, plan>>

Next ==
    \/ Retry \/ Cancel \/ Clear \/ Collect \/ Restart
    \/ \E update \in BOOLEAN : Request(update)
    \/ \E j \in Jobs : Unlink(j)
    \/ \E w \in Workers :
          \/ Claim(w) \/ Resume(w) \/ Prepare(w) \/ Verify(w) \/ Reread(w) \/ Commit(w)
          \/ Fail(w) \/ Reinstall(w)
          \/ \E g \in Images : StartFetch(w, g)
          \/ \E outcome \in {"verified", "missing"} : Fetched(w, outcome)

----------------------------------------------------------------------------
(* The copy the reader opens is on disk and is what the record says of it, whatever *)
(* older worker still runs, whatever the collector removes and wherever the node    *)
(* stops; a copy gives way only to a newer one or to the owner's clearing; a claim   *)
(* cancelled or overtaken commits nothing and cannot mark the newer one.            *)
CopyIsWhole ==
    row.current # 0 =>
        bundles[row.current] # NoBundle /\ (row.partial <=> Partial(bundles[row.current]))

\* The copy that is shown is replaced only by the verified copy of a later job (store.check, checkpoint).
CopiesAdvance ==
    /\ row'.current # row.current => row'.current > row.current \/ row'.state = "cleared"
    /\ row'.current > row.current => row.state = "verifying"
    /\ row.state = "queued" => row'.state # "failed"
==============================================================================
