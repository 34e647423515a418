---------------------------- MODULE NodeUpdates ----------------------------
(* The node's own updates (services/updater.py, update_state.py, release.py and  *)
(* their wiring in peer_http.py): a release is checked, downloaded, installed    *)
(* over the running version and tried; a build that keeps crashing before it     *)
(* has served for a grace period is rolled back. The poll worker and the user    *)
(* may apply updates at the same time, and the process may die at any step.      *)
(* Signatures and wheel contents are left out.                                   *)
EXTENDS Naturals

CONSTANTS
    Versions,       \* 1..n; the node is first installed at version 1
    Broken,         \* versions that fail the preflight
    Crashing,       \* versions that start and die within the grace period
    Jobs,           \* "poll", the background worker, and "user", the route
    MaxAttempts,    \* max_attempts
    MaxTrouble      \* bound: failing downloads, installs and copies, deaths in a rollback

VARIABLES
    latest,      \* the release the registry offers, 0 if none
    installed,   \* the version pip has installed
    wheels,      \* versions kept as installed-<version>.whl
    state,       \* update-state.json
    node,        \* the process: phase, version, grace timer, _latest_manifest
    job,         \* the update each job is applying
    trial,       \* times the build on trial was started to serve
    served,      \* versions that served through the grace period
    exposed,     \* an install was cut off, could not be undone, or was confirmed by the old version
    trouble

updateVars == <<latest, installed, wheels, state, node, job, trial, served, exposed, trouble>>

NoPending == [pending |-> 0, confirmed |-> TRUE, attempts |-> 0, previous |-> 0, quarantined |-> {}]
Down == [phase |-> "down", version |-> 0, grace |-> FALSE, manifest |-> 0]
IdleJob == [at |-> "idle", version |-> 0, previous |-> 0]
Idle == [j \in Jobs |-> IdleJob]

Init ==
    /\ latest = 0 /\ installed = 1
    /\ wheels \in {{}, {1}}
    /\ state = NoPending
    /\ node = Down /\ job = Idle
    /\ trial = 0 /\ served = {1} /\ exposed = FALSE /\ trouble = 0

Fails == trouble < MaxTrouble /\ trouble' = trouble + 1
Works == UNCHANGED trouble
OnTrial == state.pending # 0 /\ ~state.confirmed

\* POST /api/v1/releases on the registry.
Release ==
    /\ latest' \in {v \in Versions : v > latest}
    /\ UNCHANGED <<installed, wheels, state, node, job, trial, served, exposed, trouble>>

-----------------------------------------------------------------------------
(* Starting: Updater.on_startup.                                               *)

\* A fault: the attempts are counted from the start of the process.
CountedAgain == 1
Counted == state.attempts + 1

Start ==
    /\ node.phase = "down"
    /\ node' = [Down EXCEPT !.phase = IF OnTrial /\ Counted > MaxAttempts THEN "failing" ELSE "serving",
                            !.version = installed, !.grace = TRUE]
    /\ state' = IF OnTrial THEN [state EXCEPT !.attempts = Counted] ELSE state
    /\ trial' = IF OnTrial /\ Counted <= MaxAttempts THEN trial + 1 ELSE trial
    /\ UNCHANGED <<latest, installed, wheels, job, served, exposed, trouble>>

\* Too many starts: the previous wheel is installed again, if there is one and pip can.
RollBack ==
    /\ node.phase = "failing"
    /\ \/ /\ state.previous # 0
          /\ \/ /\ Works /\ installed' = state.previous /\ node' = [node EXCEPT !.phase = "rolled"]
                /\ exposed' = (exposed \/ state.previous \notin served)    \* itself replaced while on trial
             \/ Fails /\ node' = [node EXCEPT !.phase = "stuck"] /\ exposed' = TRUE /\ UNCHANGED installed
       \/ /\ state.previous = 0
          /\ node' = [node EXCEPT !.phase = "rolled"] /\ exposed' = TRUE
          /\ UNCHANGED <<installed, trouble>>
    /\ UNCHANGED <<latest, wheels, state, job, trial, served>>

\* The trial is over regardless; the process starts again only after a rollback.
EndTrial ==
    /\ node.phase \in {"rolled", "stuck"}
    /\ state' = [state EXCEPT !.quarantined = @ \cup {state.pending}, !.pending = 0, !.confirmed = TRUE, !.attempts = 0]
    /\ trial' = 0
    /\ node' = IF node.phase = "rolled" THEN Down ELSE [node EXCEPT !.phase = "serving"]
    /\ UNCHANGED <<latest, installed, wheels, job, served, exposed, trouble>>

\* _confirm_after_grace and mark_serving.
Confirm ==
    /\ node.phase = "serving" /\ node.grace /\ node.version \notin Crashing
    /\ node' = [node EXCEPT !.grace = FALSE]
    /\ served' = served \cup {node.version}
    /\ state' = IF OnTrial THEN [state EXCEPT !.confirmed = TRUE, !.previous = 0, !.attempts = 0] ELSE state
    /\ trial' = IF OnTrial THEN 0 ELSE trial
    /\ exposed' = (exposed \/ (OnTrial /\ state.pending # node.version))    \* the old version's timer
    /\ UNCHANGED <<latest, installed, wheels, job, trouble>>

\* The process dies; an install that was not finished is not on trial when it starts again.
Unfinished == \E j \in Jobs : job[j].at \in {"installed", "checked"}
Die ==
    /\ \/ node.phase = "serving" /\ Works
       \/ node.phase \in {"failing", "rolled", "stuck"} /\ Fails
    /\ node' = Down /\ job' = Idle
    /\ exposed' = (exposed \/ Unfinished)
    /\ UNCHANGED <<latest, installed, wheels, state, trial, served>>

-----------------------------------------------------------------------------
(* Updating: Updater.check and Updater.apply.                                  *)

Offered == latest > node.version /\ latest \notin state.quarantined

Goes(j, at) == job' = [job EXCEPT ![j].at = at]
Ends(j) == job' = [job EXCEPT ![j] = IdleJob]
Quarantine(v) == state' = [state EXCEPT !.quarantined = @ \cup {v}]

\* The worker begins long after the grace period and applies what it found; the user applies
\* whatever manifest the process still holds.
Check(j) ==
    /\ node.phase = "serving" /\ job[j].at = "idle"
    /\ j = "poll" => ~node.grace
    /\ LET m == IF Offered THEN latest ELSE node.manifest IN
       /\ node' = [node EXCEPT !.manifest = m]
       /\ job' = IF m # 0 /\ (j = "poll" => Offered)
                 THEN [job EXCEPT ![j] = [at |-> "found", version |-> m, previous |-> 0]] ELSE job
    /\ UNCHANGED <<latest, installed, wheels, state, trial, served, exposed, trouble>>

\* Download and hash; a wheel that is not the one announced puts the version in quarantine.
Fetch(j) ==
    /\ job[j].at = "found"
    /\ \/ Works /\ Goes(j, "fetched") /\ UNCHANGED state
       \/ Fails /\ Ends(j) /\ (Quarantine(job[j].version) \/ UNCHANGED state)
    /\ UNCHANGED <<latest, installed, wheels, node, trial, served, exposed>>

\* The kept wheel of the running version is remembered, then pip replaces the version.
Install(j) ==
    /\ job[j].at = "fetched"
    /\ \/ /\ Works /\ installed' = job[j].version
          /\ job' = [job EXCEPT ![j].at = "installed",
                                ![j].previous = IF node.version \in wheels THEN node.version ELSE 0]
       \/ Fails /\ Ends(j) /\ UNCHANGED installed
    /\ UNCHANGED <<latest, wheels, state, node, trial, served, exposed>>

Sound(j) == installed = job[j].version /\ job[j].version \notin Broken

\* A fault: a build that fails its preflight stays installed.
LeftInstalled(j) == installed
Restored(j) == IF job[j].previous # 0 THEN job[j].previous ELSE installed
\* The version restored is on trial itself, and another job already recorded the next trial.
TrialLost(j) == job[j].previous \notin served /\ \E k \in Jobs : job[k].at = "recorded"

Preflight(j) ==
    /\ job[j].at = "installed"
    /\ \/ Sound(j) /\ Works /\ Goes(j, "checked") /\ UNCHANGED <<installed, state, exposed>>
       \/ /\ ~Sound(j) /\ Works
          /\ installed' = Restored(j) /\ exposed' = (exposed \/ job[j].previous = 0 \/ TrialLost(j))
          /\ Quarantine(job[j].version) /\ Ends(j)
       \/ /\ ~Sound(j) /\ job[j].previous # 0 /\ Fails        \* pip cannot undo it
          /\ exposed' = TRUE /\ Ends(j) /\ UNCHANGED <<installed, state>>
    /\ UNCHANGED <<latest, wheels, node, trial, served>>

\* _record_installed, then the trial is written down.
Try(j) ==
    /\ job[j].at = "checked"
    /\ \/ Works /\ wheels' = wheels \cup {job[j].version}
       \/ Fails /\ UNCHANGED wheels
    /\ state' = [state EXCEPT !.pending = job[j].version, !.confirmed = FALSE, !.attempts = 0,
                              !.previous = job[j].previous]
    /\ trial' = 0
    /\ Goes(j, "recorded")
    /\ exposed' = (exposed \/ installed # job[j].version)     \* the other job changed it meanwhile
    /\ UNCHANGED <<latest, installed, node, served>>

\* os.execv: every thread of the process ends with it.
Reexec(j) ==
    /\ job[j].at = "recorded"
    /\ node' = Down /\ job' = Idle
    /\ exposed' = (exposed \/ Unfinished)
    /\ UNCHANGED <<latest, installed, wheels, state, trial, served, trouble>>

Apply(j) == Check(j) \/ Fetch(j) \/ Install(j) \/ Preflight(j) \/ Try(j) \/ Reexec(j)
Next == \/ Release \/ Start \/ RollBack \/ EndTrial \/ Confirm \/ Die
        \/ \E j \in Jobs : Apply(j)

Spec == Init /\ [][Next]_updateVars

-----------------------------------------------------------------------------
(* A build on trial is started at most MaxAttempts times before it is rolled    *)
(* back, however and whenever the process dies.                                 *)
TrialsBounded == trial <= MaxAttempts

(* A version that never served is installed only while it is being applied or   *)
(* tried, unless an install was cut off, could not be undone, met another one, or *)
(* was confirmed by the timer of the version it replaced, or a rollback went to  *)
(* a version that was replaced while it was on trial itself.                     *)
UnprovenIsTried ==
    \/ exposed \/ installed \in served
    \/ Unfinished
    \/ OnTrial /\ state.pending = installed

\* What the updater promises of a version on trial (updater.py, update_state.py).
UpdatesSound == TrialsBounded /\ UnprovenIsTried

(* "a build that boots then crashes within the window is NOT confirmed": only a *)
(* build that served through the grace period is confirmed (peer_http.py).      *)
ConfirmedServed == state.pending # 0 /\ state.confirmed => state.pending \in served
==============================================================================
