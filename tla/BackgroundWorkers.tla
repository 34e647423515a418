--------------------------- MODULE BackgroundWorkers ---------------------------
(* The registry that supervises one named background worker                      *)
(* (background_workers.py).  Each registration under the name is an incarnation  *)
(* of its specification; start, a replacing registration and a restart timer     *)
(* spawn an asyncio task for the incarnation.  A task that crashes is noticed    *)
(* by a done callback, which the event loop runs later: the registry may be      *)
(* stopped, started or given a replacement in between.  Delays are durations     *)
(* only and are not modelled.                                                    *)
EXTENDS Naturals, FiniteSets

CONSTANTS Tasks,      \* the tasks that may be created
          Timers,     \* the restart timers that may be created
          MaxGen      \* bound: registrations explored

VARIABLES
    gen,        \* the incarnation in _specs, 0 before the first registration
    started,    \* _started
    task,       \* every task: its incarnation and where it stands
    slot,       \* _tasks: the task registered under the name, or 0
    timer,      \* every restart timer: its incarnation and where it stands
    timerSlot,  \* _restart_timers: the timer registered under the name, or 0
    strayed     \* history: a pending timer lost the slot that stop() would cancel it by

workerVars == <<gen, started, task, slot, timer, timerSlot, strayed>>

Live == {t \in Tasks : task[t].at \in {"waiting", "invoking"}}
Unused(f) == {x \in DOMAIN f : f[x].at = "new"}
Cancelled(f, S) == [x \in DOMAIN f |-> IF x \in S /\ f[x].at # "new" /\ f[x].at # "crashed"
                                        THEN [f[x] EXCEPT !.at = "gone"] ELSE f[x]]

Init ==
    /\ gen = 0 /\ started = FALSE /\ slot = 0 /\ timerSlot = 0 /\ strayed = FALSE
    /\ task = [t \in Tasks |-> [gen |-> 0, at |-> "new"]]
    /\ timer = [t \in Timers |-> [gen |-> 0, at |-> "new"]]

\* _spawn: a new task for the incarnation takes the name's slot.
Spawn(f, g) ==
    \E t \in Unused(f) :
        /\ task' = [f EXCEPT ![t] = [gen |-> g, at |-> "waiting"]]
        /\ slot' = t

\* register, with replace=True when the name is taken: the old task and its timer
\* are cancelled and forgotten.  A task that crashed already cannot be cancelled.
Register ==
    /\ gen < MaxGen /\ gen' = gen + 1
    /\ timer' = Cancelled(timer, {timerSlot}) /\ timerSlot' = 0
    /\ LET f == Cancelled(task, {slot})
       IN  IF started THEN Spawn(f, gen + 1) ELSE task' = f /\ slot' = 0
    /\ UNCHANGED <<started, strayed>>

Start ==
    /\ ~ started /\ started' = TRUE
    /\ IF gen > 0 THEN Spawn(task, gen) ELSE UNCHANGED <<task, slot>>
    /\ UNCHANGED <<gen, timer, timerSlot, strayed>>

\* stop cancels the timer and the task that hold the name and waits for the loop,
\* which runs the callbacks that are due: they find the registry stopped.
Stop ==
    /\ started /\ started' = FALSE
    /\ timer' = Cancelled(timer, {timerSlot}) /\ timerSlot' = 0
    /\ task' = [t \in Tasks |-> IF t = slot \/ task[t].at = "crashed"
                                THEN [task[t] EXCEPT !.at = "gone"] ELSE task[t]]
    /\ slot' = 0
    /\ UNCHANGED <<gen, strayed>>

\* The loop runs callbacks in the order they became due: a task spawned after a
\* crash takes its first step after that crash's callback.
NoCallbackDue == \A t \in Tasks : task[t].at # "crashed"

\* The loop of _run: an invocation, its success or its failure, and a wait.
Invoke(t) ==
    /\ task[t].at = "waiting" /\ NoCallbackDue
    /\ task' = [task EXCEPT ![t].at = "invoking"]
    /\ UNCHANGED <<gen, started, slot, timer, timerSlot, strayed>>
Return(t) ==
    /\ task[t].at = "invoking" /\ task' = [task EXCEPT ![t].at = "waiting"]
    /\ UNCHANGED <<gen, started, slot, timer, timerSlot, strayed>>
Crash(t) ==
    /\ t \in Live /\ NoCallbackDue
    /\ task' = [task EXCEPT ![t].at = "crashed"]
    /\ UNCHANGED <<gen, started, slot, timer, timerSlot, strayed>>

Strays == strayed' = (strayed \/ \E r \in Timers : timer'[r].at = "asleep" /\ r # timerSlot')

\* The done callback of a crashed task schedules a restart of ITS incarnation.
OnTaskDone(t) ==
    /\ task[t].at = "crashed" /\ task' = [task EXCEPT ![t].at = "gone"]
    /\ \/ ~ started /\ UNCHANGED <<timer, timerSlot>>
       \/ /\ started
          /\ \E r \in Unused(timer) :
                /\ timer' = [timer EXCEPT ![r] = [gen |-> task[t].gen, at |-> "asleep"]]
                /\ timerSlot' = r
    /\ Strays
    /\ UNCHANGED <<gen, started, slot>>

AnyIncarnation(g) == TRUE   \* mutant: the timer restarts a replaced worker
Registered(g) == g = gen

\* The timer empties the name's timer slot, whoever is in it, and restarts the
\* worker unless the registry stopped or the worker was replaced.
RestartAfterDelay(r) ==
    /\ timer[r].at = "asleep"
    /\ timer' = [timer EXCEPT ![r].at = "gone"] /\ timerSlot' = 0
    /\ IF started /\ Registered(timer[r].gen) THEN Spawn(task, gen)
       ELSE UNCHANGED <<task, slot>>
    /\ Strays
    /\ UNCHANGED <<gen, started>>

Next ==
    \/ Register \/ Start \/ Stop
    \/ \E t \in Tasks : Invoke(t) \/ Return(t) \/ Crash(t) \/ OnTaskDone(t)
    \/ \E r \in Timers : RestartAfterDelay(r)

----------------------------------------------------------------------------
(* "Create exactly one supervised task for every registered worker" (start):     *)
(* no interleaving of crashes, callbacks, timers, replacements and restarts      *)
(* leaves two tasks that run the worker.                                         *)
OneLiveTask == Cardinality(Live) <= 1

(* Two tasks can only come from a timer that lost its slot: crashes, late        *)
(* callbacks, replacements and restarts are otherwise kept apart by the checks   *)
(* of _on_task_done and _restart_after_delay.                                    *)
OneTaskUnlessStrayed == OneLiveTask \/ strayed

==============================================================================
