------------------------------- MODULE DevicesProofs -------------------------------
(* What the devices of one owner and one node keep, for every value of the       *)
(* constants: the supervisor runs one task per worker, an update never leaves    *)
(* the node on a version it knows is bad, an erased item stays erased, a copy    *)
(* shown offline is whole, devices that exchange records and policies come to    *)
(* hold the same, and a device removed from the space is served no longer than   *)
(* a signed copy of its members is valid.  The components share no state, so     *)
(* each has an invariant of its own, which holds while the behaviour is of that  *)
(* component.                                                                    *)
EXTENDS MCDevices, Sequences, FiniteSetTheorems, TLAPS

----------------------------------------------------------------------------
(* The supervisor of the background workers.                               *)

Alive == {"waiting", "invoking"}
Places == Alive \cup {"new", "crashed", "gone"}
TaskRecords == [Tasks -> [gen : Nat, at : Places]]
TimerRecords == [Timers -> [gen : Nat, at : {"new", "asleep", "gone"}]]

SupervisorTypes ==
  /\ gen \in Nat /\ supervisedTask \in TaskRecords /\ timer \in TimerRecords
  /\ \A t \in Tasks : supervisedTask[t].gen <= gen

\* The slots hold what still runs, and a stopped registry runs nothing.
SlotsHold ==
  /\ \A t \in Tasks : supervisedTask[t].at \in Alive => t = slot /\ started
  /\ \A r \in Timers : timer[r].at = "asleep" => r = timerSlot /\ started
  /\ \A t \in Tasks : supervisedTask[t].at = "crashed" => started

\* A crash of the registered incarnation is that of the task in the slot, and a restart
\* of it waits only when no other task of the incarnation is left.
CrashIsOfSlot ==
  /\ \A t \in Tasks : supervisedTask[t].at = "crashed" /\ supervisedTask[t].gen = gen => t = slot
  /\ \A r \in Timers : timer[r].at = "asleep" /\ timer[r].gen = gen =>
       \A t \in Tasks : /\ supervisedTask[t].at \notin Alive
                        /\ supervisedTask[t].at = "crashed" => supervisedTask[t].gen # gen

\* Both hold until a restart timer loses its slot.
SupervisorInv == SupervisorTypes /\ (~ strayed => SlotsHold /\ CrashIsOfSlot)

LEMMA SupervisorStarts == ASSUME Supervisor!Init PROVE SupervisorInv
<1>1. /\ supervisedTask \in TaskRecords /\ timer \in TimerRecords
      /\ \A t \in Tasks : supervisedTask[t].at = "new" /\ supervisedTask[t].gen = 0
      /\ \A r \in Timers : timer[r].at = "new"
  BY DEF Supervisor!Init, TaskRecords, TimerRecords, Places, Alive
<1>2. gen = 0
  BY DEF Supervisor!Init
<1>3. SupervisorTypes
  BY <1>1, <1>2 DEF SupervisorTypes
<1>4. SlotsHold /\ CrashIsOfSlot
  BY <1>1 DEF SlotsHold, CrashIsOfSlot, Alive
<1> QED BY <1>3, <1>4 DEF SupervisorInv

\* What a spawn does to the tasks.
LEMMA SpawnTakesSlot ==
  ASSUME NEW f \in TaskRecords, NEW g \in Nat, Supervisor!Spawn(f, g)
  PROVE  /\ slot' \in Tasks /\ f[slot'].at = "new"
         /\ supervisedTask' \in TaskRecords
         /\ supervisedTask'[slot'].at = "waiting" /\ supervisedTask'[slot'].gen = g
         /\ \A t \in Tasks : t # slot' => supervisedTask'[t] = f[t]
BY DEF Supervisor!Spawn, Supervisor!Unused, TaskRecords, Places, Alive

\* One record that an action moves on.
LEMMA Moved ==
  ASSUME NEW K, NEW P, NEW x \in [gen : Nat, at : P], NEW p \in P
  PROVE  /\ [x EXCEPT !.at = p] \in [gen : Nat, at : P]
         /\ [x EXCEPT !.at = p].gen = x.gen /\ [x EXCEPT !.at = p].at = p
OBVIOUS

\* What a cancellation of the task or the timer in a slot does.
LEMMA CancelledTasks ==
  ASSUME NEW f \in TaskRecords, NEW s
  PROVE  /\ Supervisor!Cancelled(f, {s}) \in TaskRecords
         /\ \A t \in Tasks :
              /\ Supervisor!Cancelled(f, {s})[t].gen = f[t].gen
              /\ t = s /\ f[t].at \in Alive => Supervisor!Cancelled(f, {s})[t].at = "gone"
              /\ ~(t = s /\ f[t].at \in Alive) => Supervisor!Cancelled(f, {s})[t].at = f[t].at
<1> DEFINE R == [gen : Nat, at : Places]
<1>0. f \in [Tasks -> R] /\ "gone" \in Places
  BY DEF TaskRecords, Places
<1>1. \A t \in Tasks : /\ f[t] \in R /\ f[t].at \in Places
                       /\ [f[t] EXCEPT !.at = "gone"] \in R
                       /\ [f[t] EXCEPT !.at = "gone"].gen = f[t].gen /\ [f[t] EXCEPT !.at = "gone"].at = "gone"
  BY <1>0, Moved
<1>2. Supervisor!Cancelled(f, {s}) =
        [t \in Tasks |-> IF t \in {s} /\ f[t].at # "new" /\ f[t].at # "crashed"
                         THEN [f[t] EXCEPT !.at = "gone"] ELSE f[t]]
  BY <1>0 DEF Supervisor!Cancelled
<1> DEFINE c == Supervisor!Cancelled(f, {s})
           g(t) == [f[t] EXCEPT !.at = "gone"]
<1>3. \A t \in Tasks : c[t] = IF t = s /\ f[t].at # "new" /\ f[t].at # "crashed" THEN g(t) ELSE f[t]
  BY <1>2
<1>4. \A t \in Tasks : g(t) \in R /\ g(t).gen = f[t].gen /\ g(t).at = "gone" /\ f[t] \in R /\ f[t].at \in Places
  BY <1>1
<1> HIDE DEF g
<1>5. c \in [Tasks -> R]
  BY <1>2, <1>4 DEF g
<1> HIDE DEF c, R
<1>6. \A t \in Tasks : /\ c[t].gen = f[t].gen
                       /\ t = s /\ f[t].at \in Alive => c[t].at = "gone"
                       /\ ~(t = s /\ f[t].at \in Alive) => c[t].at = f[t].at
  BY <1>3, <1>4 DEF Places, Alive
<1> QED BY <1>5, <1>6 DEF c, R, TaskRecords

LEMMA CancelledTimers ==
  ASSUME NEW f \in TimerRecords, NEW s
  PROVE  /\ Supervisor!Cancelled(f, {s}) \in TimerRecords
         /\ \A r \in Timers :
              /\ Supervisor!Cancelled(f, {s})[r].gen = f[r].gen
              /\ Supervisor!Cancelled(f, {s})[r].at = "asleep" => f[r].at = "asleep" /\ r # s
<1> DEFINE P == {"new", "asleep", "gone"}
           R == [gen : Nat, at : P]
           c == Supervisor!Cancelled(f, {s})
           g(r) == [f[r] EXCEPT !.at = "gone"]
<1>0. f \in [Timers -> R] /\ "gone" \in P
  BY DEF TimerRecords
<1>1. \A r \in Timers : f[r] \in R /\ f[r].at \in P /\ g(r) \in R /\ g(r).gen = f[r].gen /\ g(r).at = "gone"
  <2> HIDE DEF P
  <2> QED BY <1>0, Moved
<1>2. c = [r \in Timers |-> IF r \in {s} /\ f[r].at # "new" /\ f[r].at # "crashed" THEN g(r) ELSE f[r]]
  BY <1>0 DEF Supervisor!Cancelled
<1> HIDE DEF g, c, R
<1>3. c \in [Timers -> R]
  BY <1>1, <1>2
<1>4. \A r \in Timers : c[r].gen = f[r].gen /\ (c[r].at = "asleep" => f[r].at = "asleep" /\ r # s)
  BY <1>1, <1>2
<1> QED BY <1>3, <1>4 DEF c, R, TimerRecords

\* The registrations, starts and stops of the registry.
LEMMA RegistryKeepsOne ==
  ASSUME SupervisorInv, Supervisor!Register \/ Supervisor!Start \/ Supervisor!Stop
  PROVE  SupervisorInv'
<1>0. /\ gen \in Nat /\ supervisedTask \in TaskRecords /\ timer \in TimerRecords
      /\ \A t \in Tasks : supervisedTask[t].gen <= gen
      /\ \A t \in Tasks : supervisedTask[t].gen \in Nat /\ supervisedTask[t].at \in Places
  BY DEF SupervisorInv, SupervisorTypes, TaskRecords
<1>1. CASE Supervisor!Register
  <2> DEFINE f == Supervisor!Cancelled(supervisedTask, {slot})
  <2>1. /\ gen' = gen + 1 /\ timer' = Supervisor!Cancelled(timer, {timerSlot}) /\ timerSlot' = 0
        /\ UNCHANGED <<started, strayed>>
        /\ IF started THEN Supervisor!Spawn(f, gen + 1) ELSE supervisedTask' = f /\ slot' = 0
    BY <1>1 DEF Supervisor!Register
  <2>2. /\ timer' \in TimerRecords
        /\ \A r \in Timers : /\ timer'[r].gen = timer[r].gen
                             /\ timer'[r].at = "asleep" => timer[r].at = "asleep" /\ r # timerSlot
    <3>1. \A s : /\ Supervisor!Cancelled(timer, {s}) \in TimerRecords
                 /\ \A r \in Timers :
                      /\ Supervisor!Cancelled(timer, {s})[r].gen = timer[r].gen
                      /\ Supervisor!Cancelled(timer, {s})[r].at = "asleep" => timer[r].at = "asleep" /\ r # s
      BY <1>0, CancelledTimers
    <3> QED BY ONLY <2>1, <3>1
  <2>3. /\ f \in TaskRecords
        /\ \A t \in Tasks :
             /\ f[t].gen = supervisedTask[t].gen
             /\ t = slot /\ supervisedTask[t].at \in Alive => f[t].at = "gone"
             /\ ~(t = slot /\ supervisedTask[t].at \in Alive) => f[t].at = supervisedTask[t].at
    <3>1. supervisedTask \in TaskRecords
      BY <1>0
    <3> QED BY ONLY <3>1, CancelledTasks
  <2> HIDE DEF f
  <2>4. CASE started
    <3>1. Supervisor!Spawn(f, gen + 1) /\ gen + 1 \in Nat
      BY <1>0, <2>1, <2>4
    <3>2. /\ slot' \in Tasks /\ f[slot'].at = "new"
          /\ supervisedTask' \in TaskRecords
          /\ supervisedTask'[slot'].at = "waiting" /\ supervisedTask'[slot'].gen = gen + 1
          /\ \A t \in Tasks : t # slot' => supervisedTask'[t] = f[t]
      BY <3>1, <2>3, SpawnTakesSlot
    <3>3. SupervisorTypes'
      BY <1>0, <2>1, <2>2, <2>3, <3>2 DEF SupervisorTypes
    <3>4. ASSUME SlotsHold, CrashIsOfSlot PROVE SlotsHold' /\ CrashIsOfSlot'
      <4>1. \A r \in Timers : timer'[r].at # "asleep"
        <5>1. \A r \in Timers : timer[r].at = "asleep" => r = timerSlot
          BY <3>4 DEF SlotsHold
        <5> QED BY ONLY <2>2, <5>1
      <4>2. \A t \in Tasks : t # slot' => f[t].gen < gen + 1 /\ f[t].at \notin Alive
        BY <1>0, <2>3, <3>4 DEF SlotsHold, Alive
      <4>3. started'
        BY <2>1, <2>4
      <4>4. SlotsHold'
        BY <3>2, <4>1, <4>2, <4>3 DEF SlotsHold, Alive
      <4>5. CrashIsOfSlot'
        <5>1. \A t \in Tasks : supervisedTask'[t].at = "crashed" /\ supervisedTask'[t].gen = gen' => t = slot'
          <6>1. \A t \in Tasks : t # slot' => supervisedTask'[t].gen # gen + 1
            BY <1>0, <3>2, <2>3
          <6> QED BY ONLY <2>1, <6>1
        <5> QED BY <4>1, <5>1 DEF CrashIsOfSlot
      <4> QED BY <4>4, <4>5
    <3> QED BY <2>1, <3>3, <3>4 DEF SupervisorInv
  <2>5. CASE ~started
    <3>1. supervisedTask' = f
      BY <2>1, <2>5
    <3>3. SupervisorTypes'
      BY <1>0, <2>1, <2>2, <2>3, <3>1 DEF SupervisorTypes
    <3>4. ASSUME SlotsHold, CrashIsOfSlot PROVE SlotsHold' /\ CrashIsOfSlot'
      <4>1. \A r \in Timers : timer'[r].at # "asleep"
        <5>1. \A r \in Timers : timer[r].at = "asleep" => r = timerSlot
          BY <3>4 DEF SlotsHold
        <5> QED BY ONLY <2>2, <5>1
      <4>2. \A t \in Tasks : f[t].at \notin Alive /\ f[t].at # "crashed"
        BY <2>3, <2>5, <3>4 DEF SlotsHold, Alive
      <4> QED BY <3>1, <4>1, <4>2 DEF SlotsHold, CrashIsOfSlot
    <3> QED BY <2>1, <3>3, <3>4 DEF SupervisorInv
  <2> QED BY <2>4, <2>5
<1>2. CASE Supervisor!Start
  <2>1. ~started /\ started' /\ UNCHANGED <<gen, timer, timerSlot, strayed>>
    BY <1>2 DEF Supervisor!Start
  <2>2. CASE gen > 0
    <3>1. Supervisor!Spawn(supervisedTask, gen)
      BY <1>2, <2>2 DEF Supervisor!Start
    <3>2. /\ slot' \in Tasks /\ supervisedTask[slot'].at = "new"
          /\ supervisedTask' \in TaskRecords
          /\ supervisedTask'[slot'].at = "waiting" /\ supervisedTask'[slot'].gen = gen
          /\ \A t \in Tasks : t # slot' => supervisedTask'[t] = supervisedTask[t]
      BY <1>0, <3>1, SpawnTakesSlot
    <3>3. SupervisorTypes'
      BY <1>0, <2>1, <3>2 DEF SupervisorTypes
    <3>4. ASSUME SlotsHold, CrashIsOfSlot PROVE SlotsHold' /\ CrashIsOfSlot'
      <4>1. \A r \in Timers : timer'[r].at # "asleep"
        BY <2>1, <3>4 DEF SlotsHold
      <4>2. \A t \in Tasks : t # slot' => supervisedTask'[t].at \notin Alive /\ supervisedTask'[t].at # "crashed"
        BY <2>1, <3>2, <3>4 DEF SlotsHold
      <4> QED BY <2>1, <3>2, <4>1, <4>2 DEF SlotsHold, CrashIsOfSlot
    <3> QED BY <2>1, <3>3, <3>4 DEF SupervisorInv
  <2>3. CASE ~(gen > 0)
    <3>1. UNCHANGED <<supervisedTask, slot>>
      BY <1>2, <2>3 DEF Supervisor!Start
    <3>2. SupervisorTypes'
      BY <1>0, <2>1, <3>1 DEF SupervisorTypes
    <3>3. ASSUME SlotsHold, CrashIsOfSlot PROVE SlotsHold' /\ CrashIsOfSlot'
      BY <2>1, <3>1, <3>3 DEF SlotsHold, CrashIsOfSlot
    <3> QED BY <2>1, <3>2, <3>3 DEF SupervisorInv
  <2> QED BY <2>2, <2>3
<1>3. CASE Supervisor!Stop
  <2>1. UNCHANGED <<gen, strayed>> /\ timer' = Supervisor!Cancelled(timer, {timerSlot})
    BY <1>3 DEF Supervisor!Stop
  <2>2. /\ timer' \in TimerRecords
        /\ \A r \in Timers : timer'[r].at = "asleep" => timer[r].at = "asleep" /\ r # timerSlot
    <3>1. \A s : /\ Supervisor!Cancelled(timer, {s}) \in TimerRecords
                 /\ \A r \in Timers :
                      Supervisor!Cancelled(timer, {s})[r].at = "asleep" => timer[r].at = "asleep" /\ r # s
      BY <1>0, CancelledTimers
    <3> QED BY ONLY <2>1, <3>1
  <2>3. /\ supervisedTask' \in TaskRecords
        /\ \A t \in Tasks : /\ supervisedTask'[t].gen = supervisedTask[t].gen
                            /\ t = slot \/ supervisedTask[t].at = "crashed" => supervisedTask'[t].at = "gone"
                            /\ ~(t = slot \/ supervisedTask[t].at = "crashed") => supervisedTask'[t] = supervisedTask[t]
    <3> DEFINE R == [gen : Nat, at : Places]
               g(t) == [supervisedTask[t] EXCEPT !.at = "gone"]
    <3>1. \A t \in Tasks : /\ supervisedTask[t] \in R
                           /\ g(t) \in R /\ g(t).gen = supervisedTask[t].gen /\ g(t).at = "gone"
      <4>1. "gone" \in Places
        BY DEF Places
      <4> QED BY <1>0, <4>1, Moved DEF TaskRecords
    <3> HIDE DEF g, R
    <3>2. supervisedTask' = [t \in Tasks |-> IF t = slot \/ supervisedTask[t].at = "crashed"
                                             THEN g(t) ELSE supervisedTask[t]]
      BY <1>3 DEF Supervisor!Stop, g
    <3>3. supervisedTask' \in [Tasks -> R]
      BY <3>1, <3>2
    <3> QED BY <3>1, <3>2, <3>3 DEF R, TaskRecords
  <2>4. SupervisorTypes'
    BY <1>0, <2>1, <2>2, <2>3 DEF SupervisorTypes
  <2>5. ASSUME SlotsHold, CrashIsOfSlot PROVE SlotsHold' /\ CrashIsOfSlot'
    <3>1. \A r \in Timers : timer'[r].at # "asleep"
      BY <2>2, <2>5 DEF SlotsHold
    <3>2. \A t \in Tasks : supervisedTask'[t].at \notin Alive /\ supervisedTask'[t].at # "crashed"
      BY <2>3, <2>5 DEF SlotsHold, Alive
    <3> QED BY <3>1, <3>2 DEF SlotsHold, CrashIsOfSlot
  <2> QED BY <2>1, <2>4, <2>5 DEF SupervisorInv
<1> QED BY <1>1, <1>2, <1>3

\* One task that moves to another place.
LEMMA TaskMoves ==
  ASSUME NEW t \in Tasks, NEW p \in Places, supervisedTask \in TaskRecords,
         supervisedTask' = [supervisedTask EXCEPT ![t].at = p]
  PROVE  /\ supervisedTask' \in TaskRecords
         /\ supervisedTask'[t].at = p
         /\ \A u \in Tasks : /\ supervisedTask'[u].gen = supervisedTask[u].gen
                             /\ u # t => supervisedTask'[u].at = supervisedTask[u].at
<1> DEFINE R == [gen : Nat, at : Places]
           x == [supervisedTask[t] EXCEPT !.at = p]
<1>1. supervisedTask \in [Tasks -> R] /\ supervisedTask[t] \in R
  BY DEF TaskRecords
<1>2. x \in R /\ x.gen = supervisedTask[t].gen /\ x.at = p
  BY <1>1, Moved
<1>3. supervisedTask' = [supervisedTask EXCEPT ![t] = x]
  OBVIOUS
<1> HIDE DEF x, R
<1>4. /\ supervisedTask' \in [Tasks -> R] /\ supervisedTask'[t] = x
      /\ \A u \in Tasks : u # t => supervisedTask'[u] = supervisedTask[u]
  BY <1>1, <1>2, <1>3
<1> QED BY <1>2, <1>4 DEF R, TaskRecords

\* The tasks and their callbacks.
LEMMA TasksKeepOne ==
  ASSUME SupervisorInv,
         NEW t \in Tasks, \/ Supervisor!Invoke(t) \/ Supervisor!Return(t)
                          \/ Supervisor!Crash(t) \/ Supervisor!OnTaskDone(t)
  PROVE  SupervisorInv'
<1>0. /\ gen \in Nat /\ supervisedTask \in TaskRecords /\ timer \in TimerRecords
      /\ \A u \in Tasks : supervisedTask[u].gen <= gen
      /\ \A u \in Tasks : supervisedTask[u].gen \in Nat /\ supervisedTask[u].at \in Places
  BY DEF SupervisorInv, SupervisorTypes, TaskRecords
<1>1. CASE Supervisor!Invoke(t) \/ Supervisor!Return(t)
  <2>1. PICK p \in Alive : supervisedTask' = [supervisedTask EXCEPT ![t].at = p]
    BY <1>1 DEF Supervisor!Invoke, Supervisor!Return, Alive
  <2>2. supervisedTask[t].at \in Alive /\ UNCHANGED <<gen, started, slot, timer, timerSlot, strayed>>
    BY <1>1 DEF Supervisor!Invoke, Supervisor!Return, Alive
  <2>3. /\ supervisedTask' \in TaskRecords
        /\ supervisedTask'[t].at \in Alive
        /\ \A u \in Tasks : /\ supervisedTask'[u].gen = supervisedTask[u].gen
                            /\ u # t => supervisedTask'[u].at = supervisedTask[u].at
    BY <1>0, <2>1, TaskMoves DEF Places
  <2>4. SupervisorTypes'
    BY <1>0, <2>2, <2>3 DEF SupervisorTypes
  <2>5. ASSUME SlotsHold, CrashIsOfSlot PROVE SlotsHold' /\ CrashIsOfSlot'
    <3>1. SlotsHold'
      BY <2>2, <2>3, <2>5 DEF SlotsHold, Alive
    <3>2. CrashIsOfSlot'
      BY <2>2, <2>3, <2>5 DEF CrashIsOfSlot, Alive
    <3> QED BY <3>1, <3>2
  <2> QED BY <2>2, <2>4, <2>5 DEF SupervisorInv
<1>2. CASE Supervisor!Crash(t)
  <2>1. supervisedTask' = [supervisedTask EXCEPT ![t].at = "crashed"]
    BY <1>2 DEF Supervisor!Crash
  <2>2. supervisedTask[t].at \in Alive /\ UNCHANGED <<gen, started, slot, timer, timerSlot, strayed>>
    BY <1>2 DEF Supervisor!Crash, Supervisor!Live, Alive
  <2>3. /\ supervisedTask' \in TaskRecords
        /\ supervisedTask'[t].at = "crashed"
        /\ \A u \in Tasks : /\ supervisedTask'[u].gen = supervisedTask[u].gen
                            /\ u # t => supervisedTask'[u].at = supervisedTask[u].at
    BY <1>0, <2>1, TaskMoves DEF Places
  <2>4. SupervisorTypes'
    BY <1>0, <2>2, <2>3 DEF SupervisorTypes
  <2>5. ASSUME SlotsHold, CrashIsOfSlot PROVE SlotsHold' /\ CrashIsOfSlot'
    <3>1. SlotsHold'
      BY <2>2, <2>3, <2>5 DEF SlotsHold, Alive
    <3>2. CrashIsOfSlot'
      BY <2>2, <2>3, <2>5 DEF SlotsHold, CrashIsOfSlot, Alive
    <3> QED BY <3>1, <3>2
  <2> QED BY <2>2, <2>4, <2>5 DEF SupervisorInv
<1>3. CASE Supervisor!OnTaskDone(t)
  <2>1. /\ supervisedTask[t].at = "crashed" /\ supervisedTask' = [supervisedTask EXCEPT ![t].at = "gone"]
        /\ UNCHANGED <<gen, started, slot>>
        /\ strayed' = (strayed \/ \E r \in Timers : timer'[r].at = "asleep" /\ r # timerSlot')
    BY <1>3 DEF Supervisor!OnTaskDone, Supervisor!Strays
  <2>2. /\ supervisedTask' \in TaskRecords
        /\ supervisedTask'[t].at = "gone"
        /\ \A u \in Tasks : /\ supervisedTask'[u].gen = supervisedTask[u].gen
                            /\ u # t => supervisedTask'[u].at = supervisedTask[u].at
    BY <1>0, <2>1, TaskMoves DEF Places
  <2>3. CASE ~started /\ UNCHANGED <<timer, timerSlot>>
    <3>1. SupervisorTypes'
      BY <1>0, <2>1, <2>2, <2>3 DEF SupervisorTypes
    <3>2. ASSUME SlotsHold, CrashIsOfSlot PROVE SlotsHold' /\ CrashIsOfSlot'
      BY <2>1, <2>3, <3>2 DEF SlotsHold
    <3>3. ~strayed' => ~strayed
      BY <2>1
    <3> QED BY <3>1, <3>2, <3>3 DEF SupervisorInv
  <2>4. CASE started /\ \E r \in Supervisor!Unused(timer) :
                /\ timer' = [timer EXCEPT ![r] = [gen |-> supervisedTask[t].gen, at |-> "asleep"]]
                /\ timerSlot' = r
    <3>1. PICK r \in Timers : /\ timer' = [timer EXCEPT ![r] = [gen |-> supervisedTask[t].gen, at |-> "asleep"]]
                              /\ timerSlot' = r
      BY <1>0, <2>4 DEF Supervisor!Unused, TimerRecords
    <3>2. /\ timer' \in TimerRecords
          /\ timer'[r].at = "asleep" /\ timer'[r].gen = supervisedTask[t].gen
      BY <1>0, <3>1 DEF TimerRecords
    <3>3. SupervisorTypes'
      BY <1>0, <2>1, <2>2, <3>2 DEF SupervisorTypes
    <3>4. ASSUME ~strayed' PROVE ~strayed /\ \A q \in Timers : timer'[q].at = "asleep" => q = r
      BY <2>1, <3>1, <3>4
    <3>5. ASSUME SlotsHold, CrashIsOfSlot, \A q \in Timers : timer'[q].at = "asleep" => q = r
          PROVE  SlotsHold' /\ CrashIsOfSlot'
      <4>1. SlotsHold'
        BY <2>1, <2>2, <2>4, <3>1, <3>5 DEF SlotsHold, Alive
      <4>2. ASSUME timer'[r].gen = gen', NEW u \in Tasks
            PROVE  /\ supervisedTask'[u].at \notin Alive
                   /\ supervisedTask'[u].at = "crashed" => supervisedTask'[u].gen # gen'
        <5>1. supervisedTask[t].gen = gen /\ t = slot
          BY <2>1, <3>2, <4>2, <3>5 DEF CrashIsOfSlot
        <5> QED BY <2>1, <2>2, <5>1, <3>5 DEF SlotsHold, CrashIsOfSlot, Alive
      <4>3. \A u \in Tasks : supervisedTask'[u].at = "crashed" /\ supervisedTask'[u].gen = gen' => u = slot'
        BY <2>1, <2>2, <3>5 DEF CrashIsOfSlot
      <4> QED BY <3>5, <4>1, <4>2, <4>3 DEF CrashIsOfSlot
    <3> QED BY <3>3, <3>4, <3>5 DEF SupervisorInv
  <2> QED BY <1>3, <2>3, <2>4 DEF Supervisor!OnTaskDone
<1> QED BY <1>1, <1>2, <1>3

\* The restart timers.
LEMMA TimersKeepOne ==
  ASSUME SupervisorInv, NEW r \in Timers, Supervisor!RestartAfterDelay(r)
  PROVE  SupervisorInv'
<1>0. /\ gen \in Nat /\ supervisedTask \in TaskRecords /\ timer \in TimerRecords
      /\ \A u \in Tasks : supervisedTask[u].gen <= gen
  BY DEF SupervisorInv, SupervisorTypes
<1>1. /\ timer[r].at = "asleep" /\ timer' = [timer EXCEPT ![r].at = "gone"]
      /\ UNCHANGED <<gen, started>>
      /\ strayed' = (strayed \/ \E q \in Timers : timer'[q].at = "asleep" /\ q # timerSlot')
  BY DEF Supervisor!RestartAfterDelay, Supervisor!Strays
<1>2. /\ timer' \in TimerRecords /\ timer'[r].at = "gone"
      /\ \A q \in Timers : q # r => timer'[q] = timer[q]
  BY <1>0, <1>1 DEF TimerRecords
<1>3. ~strayed' => ~strayed
  BY <1>1
<1>4. ASSUME SlotsHold PROVE \A q \in Timers : timer'[q].at # "asleep"
  BY <1>1, <1>2, <1>4 DEF SlotsHold
<1>5. CASE started /\ timer[r].gen = gen
  <2>1. Supervisor!Spawn(supervisedTask, gen)
    BY <1>5 DEF Supervisor!RestartAfterDelay, Supervisor!Registered
  <2>2. /\ slot' \in Tasks /\ supervisedTask[slot'].at = "new"
        /\ supervisedTask' \in TaskRecords
        /\ supervisedTask'[slot'].at = "waiting" /\ supervisedTask'[slot'].gen = gen
        /\ \A t \in Tasks : t # slot' => supervisedTask'[t] = supervisedTask[t]
    BY <1>0, <2>1, SpawnTakesSlot
  <2>3. SupervisorTypes'
    BY <1>0, <1>1, <1>2, <2>2 DEF SupervisorTypes
  <2>4. ASSUME SlotsHold, CrashIsOfSlot PROVE SlotsHold' /\ CrashIsOfSlot'
    <3>1. \A u \in Tasks : /\ supervisedTask[u].at \notin Alive
                           /\ supervisedTask[u].at = "crashed" => supervisedTask[u].gen # gen
      BY <1>1, <1>5, <2>4 DEF CrashIsOfSlot
    <3>2. SlotsHold'
      BY <1>1, <1>4, <1>5, <2>2, <2>4, <3>1 DEF SlotsHold, Alive
    <3>3. CrashIsOfSlot'
      BY <1>1, <1>4, <2>2, <2>4, <3>1 DEF CrashIsOfSlot
    <3> QED BY <3>2, <3>3
  <2> QED BY <1>3, <2>3, <2>4 DEF SupervisorInv
<1>6. CASE ~(started /\ timer[r].gen = gen)
  <2>1. UNCHANGED <<supervisedTask, slot>>
    BY <1>6 DEF Supervisor!RestartAfterDelay, Supervisor!Registered
  <2>2. SupervisorTypes'
    BY <1>0, <1>1, <1>2, <2>1 DEF SupervisorTypes
  <2>3. ASSUME SlotsHold, CrashIsOfSlot PROVE SlotsHold' /\ CrashIsOfSlot'
    BY <1>1, <1>4, <2>1, <2>3 DEF SlotsHold, CrashIsOfSlot
  <2> QED BY <1>3, <2>2, <2>3 DEF SupervisorInv
<1> QED BY <1>5, <1>6

LEMMA OneAtMost == ASSUME SupervisorInv PROVE Supervisor!OneTaskUnlessStrayed
<1>1. CASE strayed
  BY <1>1 DEF Supervisor!OneTaskUnlessStrayed
<1>2. CASE ~strayed
  <2>1. Supervisor!Live \subseteq {slot}
    BY <1>2 DEF SupervisorInv, SlotsHold, Supervisor!Live, Alive
  <2>2. Supervisor!Live = {} \/ Supervisor!Live = {slot}
    BY <2>1
  <2>3. Cardinality({slot}) = 1 /\ Cardinality({}) = 0
    BY FS_Singleton, FS_EmptySet
  <2>4. Cardinality(Supervisor!Live) <= 1
    BY <2>2, <2>3
  <2>5. Supervisor!OneLiveTask
    BY <2>4 DEF Supervisor!OneLiveTask, Supervisor!Cardinality, Cardinality
  <2> QED BY <2>5 DEF Supervisor!OneTaskUnlessStrayed
<1> QED BY <1>1, <1>2

(* "Create exactly one supervised task for every registered worker": without a *)
(* restart timer that lost its slot there is at most one, for any number of    *)
(* registrations, stops, crashes, callbacks and restarts                       *)
(* (background_workers.py).                                                    *)
THEOREM OneTaskPerWorker == Spec => []OneTaskUnlessStrayed
<1> DEFINE Inv == component = "supervisor" => SupervisorInv
<1>1. Init => Inv
  BY SupervisorStarts DEF Init
<1>2. Inv /\ [Next]_vars => Inv'
  <2> SUFFICES ASSUME Inv, [Next]_vars PROVE Inv'
    OBVIOUS
  <2>1. CASE UNCHANGED <<component, supervisorState>>
    BY <2>1 DEF supervisorState, SupervisorInv, SupervisorTypes, SlotsHold, CrashIsOfSlot
  <2>2. CASE SupervisorStep
    <3>1. component = "supervisor" /\ Supervisor!Next
      BY <2>2 DEF SupervisorStep
    <3> QED BY <3>1, RegistryKeepsOne, TasksKeepOne, TimersKeepOne DEF Supervisor!Next
  <2> QED BY <2>1, <2>2 DEF Next, ErasureStep, SyncStep, PairingStep, OfflineStep, SpaceStep, OldSpaceStep,
                            UpdateStep, vars
<1>3. Inv => OneTaskUnlessStrayed
  BY OneAtMost DEF OneTaskUnlessStrayed
<1> QED BY <1>1, <1>2, <1>3, PTL DEF Spec

----------------------------------------------------------------------------
(* The updates of a node.                                                  *)

Numbers == Versions \cup {0, 1}
UpdateStates == [pending : Numbers, confirmed : BOOLEAN, attempts : Nat, previous : Numbers,
                 quarantined : SUBSET Numbers]
NodeRecords == [phase : {"down", "serving", "failing", "rolled", "stuck"}, version : Numbers,
                grace : BOOLEAN, manifest : Numbers]
JobRecords == [Updaters -> [at : {"idle", "found", "fetched", "installed", "checked", "recorded"},
                        version : Numbers, previous : Numbers]]
UpdateTypes ==
  /\ latest \in Numbers /\ installed \in Numbers /\ trial \in Nat
  /\ state \in UpdateStates /\ node \in NodeRecords /\ updateJob \in JobRecords

\* The build on trial was started at most as often as the state file counts.
TrialsCounted == trial <= state.attempts /\ trial <= MaxAttempts

\* Only a serving process applies updates, and its poll worker only after the grace period;
\* a job that replaced the version remembers the one the process runs, if any.
JobsAreOfNode ==
  /\ node.phase # "serving" => \A j \in Updaters : updateJob[j].at = "idle"
  /\ \A j \in Updaters : updateJob[j].at \in {"installed", "checked", "recorded"} =>
       updateJob[j].previous \in {0, node.version}
  /\ \A j \in Updaters : updateJob[j].at # "idle" => updateJob[j].version # 0

\* A process past its grace period has served; within it, the version runs is on trial
\* until another trial is recorded, and so is what a rollback left.
RunningIsTried ==
  /\ node.phase \in {"failing", "rolled", "stuck"} => node.grace = TRUE
  /\ node.phase = "serving" /\ node.grace = FALSE => node.version \in served
  /\ node.phase = "serving" /\ node.grace = TRUE /\ (\A j \in Updaters : updateJob[j].at # "recorded") =>
       exposed \/ node.version \in served \/ (Update!OnTrial /\ state.pending = node.version)
  /\ node.phase = "stuck" => exposed
  /\ node.phase = "rolled" => exposed \/ installed \in served

UpdateInv == UpdateTypes /\ TrialsCounted /\ JobsAreOfNode /\ RunningIsTried /\ Update!UnprovenIsTried

LEMMA UpdateStarts == ASSUME Update!Init PROVE UpdateInv
<1>1. UpdateTypes
  BY DEF Update!Init, Update!NoPending, Update!Down, Update!Idle, Update!IdleJob, UpdateTypes, Numbers,
         UpdateStates, NodeRecords, JobRecords
<1>2. TrialsCounted
  BY AttemptsAssumption DEF Update!Init, Update!NoPending, TrialsCounted
<1>3. node.phase = "down" /\ (\A j \in Updaters : updateJob[j].at = "idle") /\ installed = 1 /\ 1 \in served
  BY DEF Update!Init, Update!Down, Update!Idle, Update!IdleJob
<1> QED BY <1>1, <1>2, <1>3 DEF UpdateInv, JobsAreOfNode, RunningIsTried, Update!UnprovenIsTried

\* The records that the actions change.
LEMMA PhaseChanges ==
  ASSUME NEW n \in NodeRecords, NEW p \in {"down", "serving", "failing", "rolled", "stuck"}
  PROVE  /\ [n EXCEPT !.phase = p] \in NodeRecords
         /\ [n EXCEPT !.phase = p].phase = p /\ [n EXCEPT !.phase = p].version = n.version
         /\ [n EXCEPT !.phase = p].grace = n.grace
BY DEF NodeRecords

LEMMA NodeChanges ==
  ASSUME NEW n \in NodeRecords, NEW m \in Numbers
  PROVE  /\ /\ [n EXCEPT !.grace = FALSE] \in NodeRecords /\ [n EXCEPT !.grace = FALSE].grace = FALSE
            /\ [n EXCEPT !.grace = FALSE].phase = n.phase /\ [n EXCEPT !.grace = FALSE].version = n.version
         /\ /\ [n EXCEPT !.manifest = m] \in NodeRecords /\ [n EXCEPT !.manifest = m].phase = n.phase
            /\ [n EXCEPT !.manifest = m].version = n.version /\ [n EXCEPT !.manifest = m].grace = n.grace
BY DEF NodeRecords

LEMMA QuarantineChanges ==
  ASSUME NEW s \in UpdateStates, NEW v \in Numbers
  PROVE  /\ [s EXCEPT !.quarantined = @ \cup {v}] \in UpdateStates
         /\ [s EXCEPT !.quarantined = @ \cup {v}].pending = s.pending
         /\ [s EXCEPT !.quarantined = @ \cup {v}].confirmed = s.confirmed
         /\ [s EXCEPT !.quarantined = @ \cup {v}].attempts = s.attempts
BY DEF UpdateStates

LEMMA StateChanges ==
  ASSUME NEW s \in UpdateStates, NEW a \in Nat, NEW v \in Numbers, NEW p \in Numbers
  PROVE  /\ [s EXCEPT !.attempts = a] \in UpdateStates /\ [s EXCEPT !.attempts = a].attempts = a
         /\ [s EXCEPT !.attempts = a].pending = s.pending
         /\ [s EXCEPT !.attempts = a].confirmed = s.confirmed
         /\ [s EXCEPT !.confirmed = TRUE, !.previous = 0, !.attempts = 0] \in UpdateStates
         /\ [s EXCEPT !.quarantined = @ \cup {v}, !.pending = 0, !.confirmed = TRUE, !.attempts = 0] \in UpdateStates
         /\ [s EXCEPT !.pending = v, !.confirmed = FALSE, !.attempts = 0, !.previous = p] \in UpdateStates
BY DEF UpdateStates, Numbers

LEMMA JobChanges ==
  ASSUME NEW j \in Updaters, NEW r, updateJob \in JobRecords, updateJob' = [updateJob EXCEPT ![j] = r],
         r \in [at : {"idle", "found", "fetched", "installed", "checked", "recorded"},
                version : Numbers, previous : Numbers]
  PROVE  /\ updateJob' \in JobRecords /\ updateJob'[j] = r
         /\ \A k \in Updaters : k # j => updateJob'[k] = updateJob[k]
BY DEF JobRecords

\* A job that goes on, keeps its version.
LEMMA JobGoes ==
  ASSUME NEW j \in Updaters, updateJob \in JobRecords,
         NEW a \in {"idle", "found", "fetched", "installed", "checked", "recorded"},
         updateJob' = [updateJob EXCEPT ![j].at = a]
  PROVE  /\ updateJob' \in JobRecords /\ updateJob'[j].at = a
         /\ updateJob'[j].version = updateJob[j].version /\ updateJob'[j].previous = updateJob[j].previous
         /\ \A k \in Updaters : k # j => updateJob'[k] = updateJob[k]
<1> DEFINE R == [at : {"idle", "found", "fetched", "installed", "checked", "recorded"},
                 version : Numbers, previous : Numbers]
           r == [updateJob[j] EXCEPT !.at = a]
<1>1. updateJob[j] \in R
  BY DEF JobRecords
<1>2. r \in R /\ r.at = a /\ r.version = updateJob[j].version /\ r.previous = updateJob[j].previous
  BY <1>1
<1>3. updateJob' = [updateJob EXCEPT ![j] = r]
  OBVIOUS
<1> HIDE DEF r
<1> QED BY <1>2, <1>3, JobChanges

\* What a death of the process leaves, and its replacement by the updated one.
LEMMA UpdateStops ==
  ASSUME UpdateInv, node' = Update!Down, updateJob' = Update!Idle, exposed' = (exposed \/ Update!Unfinished),
         UNCHANGED <<latest, installed, wheels, state, trial, served>>
  PROVE  UpdateInv'
<1>1. /\ node' \in NodeRecords /\ node'.phase = "down"
      /\ updateJob' \in JobRecords /\ \A j \in Updaters : updateJob'[j].at = "idle"
  BY DEF Update!Down, Update!Idle, Update!IdleJob, NodeRecords, JobRecords, Numbers
<1>2. UpdateTypes'
  BY <1>1 DEF UpdateInv, UpdateTypes
<1>3. TrialsCounted'
  BY DEF UpdateInv, TrialsCounted
<1>4. JobsAreOfNode' /\ RunningIsTried'
  BY <1>1 DEF JobsAreOfNode, RunningIsTried
<1>5. Update!UnprovenIsTried'
  BY DEF UpdateInv, Update!UnprovenIsTried, Update!OnTrial
<1> QED BY <1>2, <1>3, <1>4, <1>5 DEF UpdateInv

\* The release, the starts of the process and its deaths.
LEMMA ProcessKeepsUpdates ==
  ASSUME UpdateInv, Update!Release \/ Update!Start \/ Update!RollBack \/ Update!EndTrial
                    \/ Update!Confirm \/ Update!Die
  PROVE  UpdateInv'
<1>0. /\ UpdateTypes /\ TrialsCounted /\ JobsAreOfNode /\ RunningIsTried /\ Update!UnprovenIsTried
      /\ MaxAttempts \in Nat
  BY AttemptsAssumption DEF UpdateInv
<1>t. /\ latest \in Numbers /\ installed \in Numbers /\ trial \in Nat
      /\ state \in UpdateStates /\ node \in NodeRecords /\ updateJob \in JobRecords
      /\ state.attempts \in Nat /\ state.pending \in Numbers /\ state.previous \in Numbers
      /\ state.confirmed \in BOOLEAN /\ node.grace \in BOOLEAN /\ node.version \in Numbers
      /\ node.phase \in {"down", "serving", "failing", "rolled", "stuck"}
  BY <1>0 DEF UpdateTypes, UpdateStates, NodeRecords
<1>1. CASE Update!Release
  <2>1. latest' \in Numbers
    BY <1>1 DEF Update!Release, Numbers
  <2>2. UNCHANGED <<installed, wheels, state, node, updateJob, trial, served, exposed, trouble>>
    BY <1>1 DEF Update!Release
  <2> QED BY <1>0, <2>1, <2>2 DEF UpdateInv, UpdateTypes, TrialsCounted, JobsAreOfNode, RunningIsTried,
                                  Update!UnprovenIsTried, Update!Unfinished, Update!OnTrial
<1>2. CASE Update!Start
  <2>1. /\ node.phase = "down" /\ UNCHANGED <<latest, installed, wheels, updateJob, served, exposed, trouble>>
        /\ node' = [Update!Down EXCEPT !.phase = IF Update!OnTrial /\ Update!Counted > MaxAttempts
                                                 THEN "failing" ELSE "serving",
                                       !.version = installed, !.grace = TRUE]
        /\ state' = IF Update!OnTrial THEN [state EXCEPT !.attempts = Update!Counted] ELSE state
        /\ trial' = IF Update!OnTrial /\ Update!Counted <= MaxAttempts THEN trial + 1 ELSE trial
    BY <1>2 DEF Update!Start
  <2>2. /\ node' \in NodeRecords /\ node'.version = installed
        /\ node'.phase \in {"failing", "serving"} /\ node'.grace = TRUE
    BY <1>t, <2>1 DEF Update!Down, NodeRecords, Numbers
  <2>3. /\ state' \in UpdateStates /\ state'.pending = state.pending /\ state'.confirmed = state.confirmed
        /\ state'.attempts = IF Update!OnTrial THEN state.attempts + 1 ELSE state.attempts
    <3>1. Update!Counted \in Nat /\ Update!Counted = state.attempts + 1
      BY <1>t DEF Update!Counted
    <3>2. CASE Update!OnTrial
      <4>1. state' = [state EXCEPT !.attempts = state.attempts + 1] /\ state.attempts + 1 \in Nat
        BY <2>1, <3>1, <3>2
      <4>2. 0 \in Numbers
        BY DEF Numbers
      <4>3. /\ state' \in UpdateStates /\ state'.attempts = state.attempts + 1
            /\ state'.pending = state.pending /\ state'.confirmed = state.confirmed
        BY <1>t, <4>1, <4>2, StateChanges
      <4> QED BY <3>2, <4>3
    <3>3. CASE ~Update!OnTrial
      <4>1. state' = state
        BY <2>1, <3>3
      <4> QED BY <1>t, <3>3, <4>1
    <3> QED BY <3>2, <3>3
  <2>4. UpdateTypes'
    BY <1>t, <2>1, <2>2, <2>3 DEF UpdateTypes
  <2>5. TrialsCounted'
    BY <1>0, <1>t, <2>1, <2>3 DEF TrialsCounted, Update!Counted
  <2>6. \A j \in Updaters : updateJob'[j].at = "idle"
    BY <1>0, <2>1 DEF JobsAreOfNode
  <2>7. JobsAreOfNode'
    BY <2>6 DEF JobsAreOfNode
  <2>8. Update!OnTrial' = Update!OnTrial
    BY <2>3 DEF Update!OnTrial
  <2>9. exposed \/ installed \in served \/ (Update!OnTrial /\ state.pending = installed)
    BY <1>0, <2>1 DEF JobsAreOfNode, Update!UnprovenIsTried, Update!Unfinished
  <2>10. exposed' \/ installed' \in served' \/ (Update!OnTrial' /\ state'.pending = installed')
    BY <2>1, <2>3, <2>8, <2>9
  <2>11. RunningIsTried'
    BY <2>1, <2>2, <2>10 DEF RunningIsTried
  <2>12. Update!UnprovenIsTried'
    BY <2>10 DEF Update!UnprovenIsTried
  <2> QED BY <2>4, <2>5, <2>7, <2>11, <2>12 DEF UpdateInv
<1>3. CASE Update!RollBack
  <2>1. node.phase = "failing" /\ UNCHANGED <<latest, wheels, state, updateJob, trial, served>>
    BY <1>3 DEF Update!RollBack
  <2>2. PICK p \in {"rolled", "stuck"} : node' = [node EXCEPT !.phase = p]
    BY <1>3 DEF Update!RollBack
  <2>3. /\ node' \in NodeRecords /\ node'.phase = p /\ node'.grace = node.grace
    <3>1. p \in {"down", "serving", "failing", "rolled", "stuck"}
      OBVIOUS
    <3>2. /\ [node EXCEPT !.phase = p] \in NodeRecords /\ [node EXCEPT !.phase = p].phase = p
          /\ [node EXCEPT !.phase = p].grace = node.grace
      BY <1>t, <3>1, PhaseChanges
    <3> QED BY ONLY <2>2, <3>2
  <2>4. installed' \in Numbers /\ (exposed' \/ (node'.phase = "rolled" /\ installed' \in served'))
    <3>1. CASE node' = [node EXCEPT !.phase = "rolled"] /\ state.previous # 0
               /\ installed' = state.previous /\ exposed' = (exposed \/ state.previous \notin served)
      <4>1. node'.phase = "rolled"
        BY <1>t, <3>1, PhaseChanges
      <4> QED BY <1>t, <2>1, <3>1, <4>1
    <3>2. CASE exposed' = TRUE /\ UNCHANGED installed
      BY <1>t, <3>2
    <3> QED BY <1>3, <3>1, <3>2 DEF Update!RollBack
  <2>5. \A j \in Updaters : updateJob'[j].at = "idle"
    BY <1>0, <2>1 DEF JobsAreOfNode
  <2>6. UpdateTypes'
    BY <1>t, <2>1, <2>3, <2>4 DEF UpdateTypes
  <2>7. TrialsCounted'
    BY <1>0, <2>1 DEF TrialsCounted
  <2>8. JobsAreOfNode'
    BY <2>5 DEF JobsAreOfNode
  <2>9. RunningIsTried'
    BY <1>0, <2>1, <2>3, <2>4 DEF RunningIsTried
  <2>10. Update!UnprovenIsTried'
    BY <2>4 DEF Update!UnprovenIsTried
  <2> QED BY <2>6, <2>7, <2>8, <2>9, <2>10 DEF UpdateInv
<1>4. CASE Update!EndTrial
  <2>1. /\ node.phase \in {"rolled", "stuck"}
        /\ UNCHANGED <<latest, installed, wheels, updateJob, served, exposed, trouble>> /\ trial' = 0
        /\ state' = [state EXCEPT !.quarantined = @ \cup {state.pending}, !.pending = 0,
                                  !.confirmed = TRUE, !.attempts = 0]
        /\ node' = IF node.phase = "rolled" THEN Update!Down ELSE [node EXCEPT !.phase = "serving"]
    BY <1>4 DEF Update!EndTrial
  <2>2. state' \in UpdateStates /\ state'.attempts = 0
    <3>1. state' \in UpdateStates
      BY <1>t, <2>1, StateChanges
    <3>2. state'.attempts = 0
      BY <1>t, <2>1 DEF UpdateStates
    <3> QED BY <3>1, <3>2
  <2>3. /\ node' \in NodeRecords
        /\ node.phase = "rolled" => node'.phase = "down"
        /\ node.phase # "rolled" => node'.phase = "serving" /\ node'.grace = TRUE
    <3>1. Update!Down \in NodeRecords /\ Update!Down.phase = "down"
      BY DEF Update!Down, NodeRecords, Numbers
    <3>2. node.grace = TRUE
      BY <1>0, <2>1 DEF RunningIsTried
    <3> QED BY <1>t, <2>1, <3>1, <3>2, PhaseChanges
  <2>4. UpdateTypes'
    BY <1>t, <2>1, <2>2, <2>3 DEF UpdateTypes
  <2>5. TrialsCounted'
    BY <1>0, <2>1, <2>2 DEF TrialsCounted
  <2>6. \A j \in Updaters : updateJob'[j].at = "idle"
    BY <1>0, <2>1 DEF JobsAreOfNode
  <2>7. JobsAreOfNode'
    BY <2>6 DEF JobsAreOfNode
  <2>8. exposed' \/ (node'.phase = "down" /\ installed' \in served')
    BY <1>0, <2>1, <2>3 DEF RunningIsTried
  <2>9. RunningIsTried'
    BY <2>1, <2>3, <2>8 DEF RunningIsTried
  <2>10. Update!UnprovenIsTried'
    BY <2>8 DEF Update!UnprovenIsTried
  <2> QED BY <2>4, <2>5, <2>7, <2>9, <2>10 DEF UpdateInv
<1>5. CASE Update!Confirm
  <2>1. /\ node.phase = "serving" /\ node.grace = TRUE
        /\ node' = [node EXCEPT !.grace = FALSE] /\ served' = served \cup {node.version}
        /\ state' = IF Update!OnTrial THEN [state EXCEPT !.confirmed = TRUE, !.previous = 0, !.attempts = 0]
                    ELSE state
        /\ trial' = IF Update!OnTrial THEN 0 ELSE trial
        /\ exposed' = (exposed \/ (Update!OnTrial /\ state.pending # node.version))
        /\ UNCHANGED <<latest, installed, wheels, updateJob, trouble>>
    BY <1>t, <1>5 DEF Update!Confirm
  <2>2. /\ node' \in NodeRecords /\ node'.phase = "serving" /\ node'.grace = FALSE
        /\ node'.version = node.version
    <3>1. 0 \in Numbers
      BY DEF Numbers
    <3> QED BY <1>t, <2>1, <3>1, NodeChanges
  <2>3. CASE Update!OnTrial
    <3>1. state' = [state EXCEPT !.confirmed = TRUE, !.previous = 0, !.attempts = 0] /\ trial' = 0
          /\ (exposed' \/ (state.pending = node.version))
          /\ (exposed => exposed')
      BY <2>1, <2>3
    <3>2. state' \in UpdateStates /\ state'.attempts = 0
      <4>1. state' \in UpdateStates
        BY <1>t, <3>1, StateChanges
      <4>2. state'.attempts = 0
        BY <1>t, <3>1 DEF UpdateStates
      <4> QED BY <4>1, <4>2
    <3>3. UpdateTypes'
      BY <1>t, <2>1, <2>2, <3>1, <3>2 DEF UpdateTypes
    <3>4. TrialsCounted'
      BY <1>0, <3>1, <3>2 DEF TrialsCounted
    <3>5. JobsAreOfNode'
      BY <1>0, <2>1, <2>2 DEF JobsAreOfNode
    <3>6. RunningIsTried'
      BY <2>1, <2>2 DEF RunningIsTried
    <3>7. exposed' \/ installed' \in served' \/ Update!Unfinished'
      BY <1>0, <2>1, <3>1 DEF Update!UnprovenIsTried, Update!Unfinished
    <3> QED BY <3>3, <3>4, <3>5, <3>6, <3>7 DEF UpdateInv, Update!UnprovenIsTried
  <2>4. CASE ~Update!OnTrial
    <3>1. state' = state /\ trial' = trial /\ (exposed => exposed')
      BY <2>1, <2>4
    <3>3. UpdateTypes'
      BY <1>t, <2>1, <2>2, <3>1 DEF UpdateTypes
    <3>4. TrialsCounted'
      BY <1>0, <3>1 DEF TrialsCounted
    <3>5. JobsAreOfNode'
      BY <1>0, <2>1, <2>2 DEF JobsAreOfNode
    <3>6. RunningIsTried'
      BY <2>1, <2>2 DEF RunningIsTried
    <3>7. exposed' \/ installed' \in served' \/ Update!Unfinished'
      BY <1>0, <2>1, <2>4, <3>1 DEF Update!UnprovenIsTried, Update!Unfinished
    <3> QED BY <3>3, <3>4, <3>5, <3>6, <3>7 DEF UpdateInv, Update!UnprovenIsTried
  <2> QED BY <2>3, <2>4
<1>6. CASE Update!Die
  <2>1. /\ node' = Update!Down /\ updateJob' = Update!Idle /\ exposed' = (exposed \/ Update!Unfinished)
        /\ UNCHANGED <<latest, installed, wheels, state, trial, served>>
    BY <1>6 DEF Update!Die
  <2> QED BY <2>1, UpdateStops
<1> QED BY <1>1, <1>2, <1>3, <1>4, <1>5, <1>6

\* The steps of an update.
LEMMA JobsKeepUpdates ==
  ASSUME UpdateInv, NEW j \in Updaters, Update!Apply(j)
  PROVE  UpdateInv'
<1>0. /\ UpdateTypes /\ TrialsCounted /\ JobsAreOfNode /\ RunningIsTried /\ Update!UnprovenIsTried
      /\ MaxAttempts \in Nat
  BY AttemptsAssumption DEF UpdateInv
<1>t. /\ latest \in Numbers /\ installed \in Numbers /\ trial \in Nat
      /\ state \in UpdateStates /\ node \in NodeRecords /\ updateJob \in JobRecords
      /\ state.attempts \in Nat /\ state.pending \in Numbers
      /\ node.grace \in BOOLEAN /\ node.version \in Numbers /\ node.manifest \in Numbers
      /\ updateJob[j].version \in Numbers /\ updateJob[j].previous \in Numbers /\ 0 \in Numbers
  BY <1>0 DEF UpdateTypes, UpdateStates, NodeRecords, JobRecords, Numbers
<1>1. CASE Update!Check(j)
  <2>1. /\ node.phase = "serving" /\ updateJob[j].at = "idle"
        /\ UNCHANGED <<latest, installed, wheels, state, trial, served, exposed, trouble>>
    BY <1>1 DEF Update!Check
  <2>2. PICK m \in Numbers : /\ node' = [node EXCEPT !.manifest = m]
                             /\ \/ updateJob' = updateJob
                                \/ /\ m # 0
                                   /\ updateJob' = [updateJob EXCEPT ![j] = [at |-> "found", version |-> m, previous |-> 0]]
    BY <1>1, <1>t DEF Update!Check
  <2>3. /\ node' \in NodeRecords /\ node'.phase = node.phase /\ node'.version = node.version
        /\ node'.grace = node.grace
    BY <1>t, <2>2, NodeChanges
  <2>4. /\ updateJob' \in JobRecords /\ updateJob'[j].at \in {"idle", "found"}
        /\ updateJob'[j].at # "idle" => updateJob'[j].version # 0
        /\ \A k \in Updaters : k # j => updateJob'[k] = updateJob[k]
    <3>1. CASE updateJob' = updateJob
      BY <1>t, <2>1, <3>1
    <3>2. CASE m # 0 /\ updateJob' = [updateJob EXCEPT ![j] = [at |-> "found", version |-> m, previous |-> 0]]
      <4> DEFINE q == [at |-> "found", version |-> m, previous |-> 0]
      <4>1. /\ q \in [at : {"idle", "found", "fetched", "installed", "checked", "recorded"},
                      version : Numbers, previous : Numbers]
            /\ q.at = "found" /\ q.version = m
        BY <1>t
      <4> HIDE DEF q
      <4>2. updateJob' = [updateJob EXCEPT ![j] = q]
        BY <3>2 DEF q
      <4> QED BY <1>t, <3>2, <4>1, <4>2, JobChanges
    <3> QED BY <2>2, <3>1, <3>2
  <2>5. UpdateTypes'
    BY <1>t, <2>1, <2>3, <2>4 DEF UpdateTypes
  <2>6. TrialsCounted'
    BY <1>0, <2>1 DEF TrialsCounted
  <2>7. JobsAreOfNode'
    BY <1>0, <2>1, <2>3, <2>4 DEF JobsAreOfNode
  <2>8. (\A k \in Updaters : updateJob'[k].at # "recorded") => \A k \in Updaters : updateJob[k].at # "recorded"
    BY <2>1, <2>4
  <2>9. RunningIsTried'
    <3>1. Update!OnTrial' = Update!OnTrial
      BY <2>1 DEF Update!OnTrial
    <3> QED BY <1>0, <2>1, <2>3, <2>8, <3>1 DEF RunningIsTried
  <2>10. Update!UnprovenIsTried'
    <3>1. Update!OnTrial' = Update!OnTrial
      BY <2>1 DEF Update!OnTrial
    <3>2. Update!Unfinished => Update!Unfinished'
      BY <2>1, <2>4 DEF Update!Unfinished
    <3> QED BY <1>0, <2>1, <3>1, <3>2 DEF Update!UnprovenIsTried
  <2> QED BY <2>5, <2>6, <2>7, <2>9, <2>10 DEF UpdateInv
<1>q. LET q == [state EXCEPT !.quarantined = @ \cup {updateJob[j].version}]
      IN  /\ q \in UpdateStates /\ q.pending = state.pending /\ q.confirmed = state.confirmed
          /\ q.attempts = state.attempts
  <2> DEFINE v == updateJob[j].version
  <2>1. v \in Numbers /\ state \in UpdateStates
    BY <1>t
  <2> HIDE DEF v
  <2>2. LET q == [state EXCEPT !.quarantined = @ \cup {v}]
        IN  /\ q \in UpdateStates /\ q.pending = state.pending /\ q.confirmed = state.confirmed
            /\ q.attempts = state.attempts
    BY <2>1, QuarantineChanges
  <2> QED BY <2>2 DEF v
<1>s. updateJob[j].at # "idle" => node.phase = "serving"
  BY <1>0 DEF JobsAreOfNode
<1>2. ASSUME UNCHANGED <<latest, installed, node, trial, served, exposed>>,
             state' = state \/ state' = [state EXCEPT !.quarantined = @ \cup {updateJob[j].version}],
             updateJob' \in JobRecords, updateJob[j].at \in {"found", "fetched"},
             updateJob'[j].at \in {"idle", "fetched"},
             updateJob'[j].at # "idle" => updateJob'[j].version = updateJob[j].version,
             \A k \in Updaters : k # j => updateJob'[k] = updateJob[k]
      PROVE  UpdateInv'
  <2>1. /\ state' \in UpdateStates /\ state'.pending = state.pending /\ state'.confirmed = state.confirmed
        /\ state'.attempts = state.attempts
    BY <1>2, <1>t, <1>q
  <2>2. UpdateTypes'
    BY <1>t, <1>2, <2>1 DEF UpdateTypes
  <2>3. TrialsCounted'
    BY <1>0, <1>2, <2>1 DEF TrialsCounted
  <2>4. JobsAreOfNode'
    BY <1>0, <1>s, <1>2 DEF JobsAreOfNode
  <2>5. Update!OnTrial' = Update!OnTrial
    BY <2>1 DEF Update!OnTrial
  <2>6. (\A k \in Updaters : updateJob'[k].at # "recorded") => \A k \in Updaters : updateJob[k].at # "recorded"
    BY <1>2
  <2>7. RunningIsTried'
    BY <1>0, <1>2, <2>1, <2>5, <2>6 DEF RunningIsTried
  <2>8. Update!Unfinished => Update!Unfinished'
    BY <1>2 DEF Update!Unfinished
  <2>9. Update!UnprovenIsTried'
    BY <1>0, <1>2, <2>1, <2>5, <2>8 DEF Update!UnprovenIsTried
  <2> QED BY <2>2, <2>3, <2>4, <2>7, <2>9 DEF UpdateInv
<1>i. Update!IdleJob \in [at : {"idle", "found", "fetched", "installed", "checked", "recorded"},
                          version : Numbers, previous : Numbers] /\ Update!IdleJob.at = "idle"
  BY <1>t DEF Update!IdleJob
<1>e. Update!Ends(j) => /\ updateJob' \in JobRecords /\ updateJob'[j].at = "idle"
                        /\ \A k \in Updaters : k # j => updateJob'[k] = updateJob[k]
  BY <1>t, <1>i, JobChanges DEF Update!Ends
<1>g. \A a \in {"idle", "found", "fetched", "installed", "checked", "recorded"} : Update!Goes(j, a) =>
        /\ updateJob' \in JobRecords /\ updateJob'[j].at = a
        /\ updateJob'[j].version = updateJob[j].version /\ updateJob'[j].previous = updateJob[j].previous
        /\ \A k \in Updaters : k # j => updateJob'[k] = updateJob[k]
  BY <1>t, JobGoes DEF Update!Goes
<1>3. CASE Update!Fetch(j)
  <2>1. /\ updateJob[j].at = "found" /\ UNCHANGED <<latest, installed, node, trial, served, exposed>>
        /\ state' = state \/ state' = [state EXCEPT !.quarantined = @ \cup {updateJob[j].version}]
        /\ Update!Goes(j, "fetched") \/ Update!Ends(j)
    BY <1>3 DEF Update!Fetch, Update!Quarantine
  <2> QED BY <1>2, <1>e, <1>g, <2>1
<1>4. CASE Update!Install(j)
  <2>1. /\ updateJob[j].at = "fetched" /\ UNCHANGED <<latest, wheels, state, node, trial, served, exposed>>
        /\ \/ /\ installed' = updateJob[j].version
              /\ updateJob' = [updateJob EXCEPT ![j].at = "installed",
                                 ![j].previous = IF node.version \in wheels THEN node.version ELSE 0]
           \/ Update!Ends(j) /\ UNCHANGED installed
    BY <1>4 DEF Update!Install
  <2>2. CASE Update!Ends(j) /\ UNCHANGED installed
    BY <1>2, <1>e, <2>1, <2>2
  <2>3. CASE /\ installed' = updateJob[j].version
             /\ updateJob' = [updateJob EXCEPT ![j].at = "installed",
                                ![j].previous = IF node.version \in wheels THEN node.version ELSE 0]
    <3> DEFINE p == IF node.version \in wheels THEN node.version ELSE 0
               r == [updateJob[j] EXCEPT !.at = "installed", !.previous = p]
    <3>1. p \in Numbers /\ p \in {0, node.version}
      BY <1>t
    <3>2. updateJob' = [updateJob EXCEPT ![j] = r]
      BY <2>3
    <3>3. /\ updateJob' \in JobRecords /\ updateJob'[j].at = "installed"
          /\ updateJob'[j].version = updateJob[j].version
          /\ updateJob'[j].previous \in {0, node.version}
          /\ \A k \in Updaters : k # j => updateJob'[k] = updateJob[k]
      <4> HIDE DEF p
      <4>1. /\ r \in [at : {"idle", "found", "fetched", "installed", "checked", "recorded"},
                      version : Numbers, previous : Numbers]
            /\ r.at = "installed" /\ r.previous = p /\ r.version = updateJob[j].version
        BY <1>t, <3>1 DEF JobRecords
      <4> HIDE DEF r
      <4> QED BY <1>t, <3>1, <3>2, <4>1, JobChanges
    <3>4. UpdateTypes'
      BY <1>t, <2>1, <2>3, <3>3 DEF UpdateTypes
    <3>5. TrialsCounted'
      BY <1>0, <2>1 DEF TrialsCounted
    <3>6. JobsAreOfNode'
      BY <1>0, <1>s, <2>1, <3>3 DEF JobsAreOfNode
    <3>7. Update!OnTrial' = Update!OnTrial
      BY <2>1 DEF Update!OnTrial
    <3>8. (\A k \in Updaters : updateJob'[k].at # "recorded") => \A k \in Updaters : updateJob[k].at # "recorded"
      BY <2>1, <3>3
    <3>9. RunningIsTried'
      BY <1>0, <1>s, <2>1, <3>7, <3>8 DEF RunningIsTried
    <3>10. Update!UnprovenIsTried'
      BY <3>3 DEF Update!UnprovenIsTried, Update!Unfinished
    <3> QED BY <3>4, <3>5, <3>6, <3>9, <3>10 DEF UpdateInv
  <2> QED BY <2>1, <2>2, <2>3
<1>5. CASE Update!Preflight(j)
  <2>1. updateJob[j].at = "installed" /\ node.phase = "serving" /\ UNCHANGED <<latest, wheels, node, trial, served>>
    BY <1>5, <1>s DEF Update!Preflight
  <2>2. CASE Update!Goes(j, "checked") /\ UNCHANGED <<installed, state, exposed>>
    <3>1. /\ updateJob' \in JobRecords /\ updateJob'[j].at = "checked"
          /\ updateJob'[j].version = updateJob[j].version /\ updateJob'[j].previous = updateJob[j].previous
          /\ \A k \in Updaters : k # j => updateJob'[k] = updateJob[k]
      BY <1>g, <2>2
    <3>4. UpdateTypes'
      BY <1>t, <2>1, <2>2, <3>1 DEF UpdateTypes
    <3>5. TrialsCounted'
      BY <1>0, <2>1, <2>2 DEF TrialsCounted
    <3>6. JobsAreOfNode'
      BY <1>0, <2>1, <3>1 DEF JobsAreOfNode
    <3>7. Update!OnTrial' = Update!OnTrial
      BY <2>2 DEF Update!OnTrial
    <3>8. (\A k \in Updaters : updateJob'[k].at # "recorded") => \A k \in Updaters : updateJob[k].at # "recorded"
      BY <2>1, <3>1
    <3>9. RunningIsTried'
      BY <1>0, <2>1, <2>2, <3>7, <3>8 DEF RunningIsTried
    <3>10. Update!UnprovenIsTried'
      BY <3>1 DEF Update!UnprovenIsTried, Update!Unfinished
    <3> QED BY <3>4, <3>5, <3>6, <3>9, <3>10 DEF UpdateInv
  <2>3. CASE /\ Update!Ends(j) /\ installed' \in {installed, updateJob[j].previous} /\ installed' \in Numbers
             /\ state' = state \/ state' = [state EXCEPT !.quarantined = @ \cup {updateJob[j].version}]
             /\ (exposed => exposed')
             /\ \/ exposed'
                \/ /\ updateJob[j].previous # 0 /\ installed' = updateJob[j].previous
                   /\ ~Update!TrialLost(j)
    <3>1. /\ updateJob' \in JobRecords /\ updateJob'[j].at = "idle"
          /\ \A k \in Updaters : k # j => updateJob'[k] = updateJob[k]
      BY <1>e, <2>3
    <3>2. /\ state' \in UpdateStates /\ state'.pending = state.pending /\ state'.confirmed = state.confirmed
          /\ state'.attempts = state.attempts
      BY <1>t, <1>q, <2>3
    <3>4. UpdateTypes'
      BY <1>t, <2>1, <2>3, <3>1, <3>2 DEF UpdateTypes
    <3>5. TrialsCounted'
      BY <1>0, <2>1, <3>2 DEF TrialsCounted
    <3>6. JobsAreOfNode'
      BY <1>0, <2>1, <3>1 DEF JobsAreOfNode
    <3>7. Update!OnTrial' = Update!OnTrial
      BY <3>2 DEF Update!OnTrial
    <3>8. (\A k \in Updaters : updateJob'[k].at # "recorded") => \A k \in Updaters : updateJob[k].at # "recorded"
      BY <2>1, <3>1
    <3>9. RunningIsTried'
      BY <1>0, <2>1, <2>3, <3>2, <3>7, <3>8 DEF RunningIsTried
    <3>10. Update!UnprovenIsTried'
      <4>1. CASE exposed'
        BY <4>1 DEF Update!UnprovenIsTried
      <4>2. CASE ~exposed'
        <5>1. /\ installed' = node.version /\ ~exposed
              /\ node.version \in served \/ \A k \in Updaters : updateJob[k].at # "recorded"
          BY <1>0, <2>1, <2>3, <4>2 DEF JobsAreOfNode, Update!TrialLost
        <5>2. node.version \in served \/ (Update!OnTrial /\ state.pending = node.version)
          BY <1>0, <1>t, <2>1, <5>1 DEF RunningIsTried
        <5> QED BY <2>1, <3>2, <3>7, <5>1, <5>2 DEF Update!UnprovenIsTried
      <4> QED BY <4>1, <4>2
    <3> QED BY <3>4, <3>5, <3>6, <3>9, <3>10 DEF UpdateInv
  <2>4. CASE /\ installed' = Update!Restored(j)
             /\ exposed' = (exposed \/ updateJob[j].previous = 0 \/ Update!TrialLost(j))
             /\ Update!Quarantine(updateJob[j].version) /\ Update!Ends(j)
    <3>1. installed' = IF updateJob[j].previous # 0 THEN updateJob[j].previous ELSE installed
      BY <2>4 DEF Update!Restored
    <3>2. installed' \in {installed, updateJob[j].previous} /\ installed' \in Numbers
          /\ (updateJob[j].previous # 0 => installed' = updateJob[j].previous)
      BY <1>t, <3>1
    <3>3. /\ (exposed => exposed')
          /\ exposed' \/ (updateJob[j].previous # 0 /\ ~Update!TrialLost(j))
      <4> HIDE DEF Update!TrialLost
      <4> QED BY <2>4
    <3> QED BY <2>3, <2>4, <3>2, <3>3 DEF Update!Quarantine
  <2>5. CASE exposed' = TRUE /\ Update!Ends(j) /\ UNCHANGED <<installed, state>>
    BY <1>t, <2>3, <2>5
  <2> QED BY <1>5, <2>2, <2>4, <2>5 DEF Update!Preflight
<1>6. CASE Update!Try(j)
  <2>1. /\ updateJob[j].at = "checked" /\ Update!Goes(j, "recorded") /\ trial' = 0
        /\ state' = [state EXCEPT !.pending = updateJob[j].version, !.confirmed = FALSE, !.attempts = 0,
                                  !.previous = updateJob[j].previous]
        /\ exposed' = (exposed \/ installed # updateJob[j].version)
        /\ UNCHANGED <<latest, installed, node, served>>
    BY <1>6 DEF Update!Try
  <2>2. state' \in UpdateStates /\ state'.attempts = 0 /\ state'.pending = updateJob[j].version
        /\ state'.confirmed = FALSE
    <3>1. state' \in UpdateStates
      BY <1>t, <2>1, StateChanges
    <3> QED BY <1>t, <2>1, <3>1 DEF UpdateStates
  <2>3. /\ updateJob' \in JobRecords /\ updateJob'[j].at = "recorded"
        /\ updateJob'[j].version = updateJob[j].version /\ updateJob'[j].previous = updateJob[j].previous
        /\ \A k \in Updaters : k # j => updateJob'[k] = updateJob[k]
    BY <1>g, <2>1
  <2>4. UpdateTypes'
    BY <1>t, <2>1, <2>2, <2>3 DEF UpdateTypes
  <2>5. TrialsCounted'
    BY <1>0, <2>1, <2>2 DEF TrialsCounted
  <2>6. JobsAreOfNode'
    BY <1>0, <1>s, <2>1, <2>3 DEF JobsAreOfNode
  <2>7. RunningIsTried'
    BY <1>0, <1>s, <2>1, <2>3 DEF RunningIsTried
  <2>8. Update!UnprovenIsTried'
    <3>1. exposed' \/ installed' = state'.pending
      BY <2>1, <2>2
    <3>2. state'.pending # 0
      BY <1>0, <2>1, <2>2 DEF JobsAreOfNode
    <3> QED BY <2>2, <3>1, <3>2 DEF Update!UnprovenIsTried, Update!OnTrial
  <2> QED BY <2>4, <2>5, <2>6, <2>7, <2>8 DEF UpdateInv
<1>7. CASE Update!Reexec(j)
  <2>1. /\ node' = Update!Down /\ updateJob' = Update!Idle /\ exposed' = (exposed \/ Update!Unfinished)
        /\ UNCHANGED <<latest, installed, wheels, state, trial, served>>
    BY <1>7 DEF Update!Reexec
  <2> QED BY <2>1, UpdateStops
<1> QED BY <1>1, <1>3, <1>4, <1>5, <1>6, <1>7 DEF Update!Apply

(* A new version is started at most the allowed number of times before it is   *)
(* rolled back, and a version that never served is installed only while it is  *)
(* being applied or tried, for any versions, broken or crashing, any number of *)
(* jobs that apply updates at once, and deaths at any step (updater.py,        *)
(* update_state.py).                                                           *)
THEOREM UpdatesAreSound == Spec => []UpdatesSound
<1> DEFINE Inv == component = "update" => UpdateInv
<1>1. Init => Inv
  BY UpdateStarts DEF Init
<1>2. Inv /\ [Next]_vars => Inv'
  <2> SUFFICES ASSUME Inv, [Next]_vars PROVE Inv'
    OBVIOUS
  <2>1. CASE UNCHANGED <<component, updateState>>
    BY <2>1 DEF updateState, UpdateInv, UpdateTypes, TrialsCounted, JobsAreOfNode, RunningIsTried,
                Update!UnprovenIsTried, Update!Unfinished, Update!OnTrial
  <2>2. CASE UpdateStep
    <3>1. component = "update" /\ Update!Next
      BY <2>2 DEF UpdateStep
    <3> QED BY <3>1, ProcessKeepsUpdates, JobsKeepUpdates DEF Update!Next
  <2> QED BY <2>1, <2>2 DEF Next, ErasureStep, SyncStep, PairingStep, OfflineStep, SpaceStep, OldSpaceStep,
                            SupervisorStep, vars
<1>3. Inv => UpdatesSound
  BY DEF UpdatesSound, Update!UpdatesSound, Update!TrialsBounded, UpdateInv, TrialsCounted
<1> QED BY <1>1, <1>2, <1>3, PTL DEF Spec

----------------------------------------------------------------------------
(* The erasure of a category.                                              *)

Categories == {"conversations", "reading", "documents", "friend_feed", "friend_cards", "offline"}
Plans == [items : SUBSET Items, version : Nat, sequence : Nat]
Cleanups == [plan : Plans, done : Nat, cancelled : BOOLEAN, committed : BOOLEAN]
Requests == [state : {"none", "awaiting_owner", "approved", "partial", "rejected", "confirmed"},
             epoch : Nat, token : Plans \cup {NoReview}]

ErasureTypes ==
  /\ category \in Categories /\ version \in Nat /\ sequence \in Nat /\ epoch \in Nat
  /\ source \in SUBSET Items /\ replica \in SUBSET Items /\ files \in SUBSET Items
  /\ job \in Cleanups \cup {NoJob} /\ incoming \in Requests

Length == IF category \in Erase!Journalled THEN 4 ELSE 2
FilesStep == IF category \in Erase!Journalled THEN 2 ELSE 1

\* What exists is kept, or was erased, and never both.
CopiesHold ==
  /\ source \cap barrier = {} /\ source \cup replica \cup files \cup derived \subseteq created
  /\ created \subseteq source \cup barrier /\ barrier \subseteq approved
  /\ category \notin Erase!Journalled => replica = {} /\ derived = {}

\* The cleanup is the last one begun, was approved, and bars its records once it is committed;
\* until then, and when it is abandoned, it barred none of them.
CleanupHolds == job # NoJob =>
  /\ job.plan.items \subseteq approved /\ job.plan.sequence = sequence /\ job.done <= Length
  /\ job.done > 0 => job.committed = TRUE
  /\ job.committed = TRUE => job.cancelled = FALSE /\ job.plan.items \subseteq barrier
  /\ job.committed = FALSE => job.plan.items \cap barrier = {}

Underway == job # NoJob /\ job.committed = TRUE

\* The barred records that some copy still holds are those of the cleanup under way, in the
\* copies it has not come to.
LeftToErase ==
  /\ ~ Underway => (replica \cup files) \cap barrier = {}
  /\ Underway => (replica \cup files) \cap barrier \subseteq job.plan.items
  /\ Underway /\ job.done >= 2 => replica \cap barrier = {}
  /\ Underway /\ job.done > FilesStep => files \cap barrier = {}
  /\ Underway /\ job.done >= 4 => derived \cap barrier = {}

\* A confirmation is of an approved review whose cleanup is complete, or followed by another.
AnswersHold ==
  /\ reply # NoReview /\ reply.state = "confirmed" => incoming.state = "confirmed"
  /\ request = "confirmed" => incoming.state = "confirmed"
  /\ approver = "executing" => incoming.token # NoReview /\ incoming.state \notin {"none", "awaiting_owner"}
  /\ incoming.state = "confirmed" =>
       /\ incoming.token # NoReview /\ sequence >= incoming.token.sequence
       /\ sequence = incoming.token.sequence => Erase!Complete(job)

ErasureInv == ErasureTypes /\ CopiesHold /\ CleanupHolds /\ LeftToErase /\ AnswersHold

\* The order of the steps.
LEMMA StepsInOrder ==
  ASSUME category \in Categories
  PROVE  /\ Len(Erase!Phases[category]) = Length
         /\ \A d \in Nat : d < Length =>
              /\ Erase!Phases[category][d + 1] = "source" => d = 0
              /\ Erase!Phases[category][d + 1] = "replica" => d = 1 /\ Length = 4
              /\ Erase!Phases[category][d + 1] = "files" => d = FilesStep
              /\ Erase!Phases[category][d + 1] = "derived" => d = 3 /\ Length = 4
<1>1. CASE category \in Erase!Journalled
  <2>1. Erase!Phases[category] = <<"source", "replica", "files", "derived">>
    BY <1>1 DEF Erase!Journalled, Erase!Phases
  <2>2. Length = 4 /\ FilesStep = 2
    BY <1>1 DEF Length, FilesStep
  <2> QED BY <2>1, <2>2
<1>2. CASE category \notin Erase!Journalled
  <2>1. Erase!Phases[category] = <<"source", "files">>
    BY <1>2 DEF Erase!Journalled, Erase!Phases, Categories
  <2>2. Length = 2 /\ FilesStep = 1
    BY <1>2 DEF Length, FilesStep
  <2> QED BY <2>1, <2>2
<1> QED BY <1>1, <1>2

LEMMA ErasureStarts == ASSUME Erase!Init PROVE ErasureInv
<1>1. ErasureTypes
  BY DEF Erase!Init, ErasureTypes, Requests, Categories, Erase!Phases
<1>2. CopiesHold
  BY DEF Erase!Init, CopiesHold
<1>3. job = NoJob /\ replica = {} /\ files = {} /\ reply = NoReview /\ request = "none" /\ approver = "idle"
      /\ incoming.state = "none"
  BY DEF Erase!Init
<1> QED BY <1>1, <1>2, <1>3 DEF ErasureInv, CleanupHolds, LeftToErase, AnswersHold, Underway

\* The journal records an action changes.
LEMMA CleanupChanges ==
  ASSUME NEW c \in Cleanups
  PROVE  /\ c.done \in Nat /\ c.plan \in Plans /\ c.cancelled \in BOOLEAN /\ c.committed \in BOOLEAN
         /\ LET d == [c EXCEPT !.done = @ + 1, !.committed = TRUE]
            IN  d \in Cleanups /\ d.plan = c.plan /\ d.done = c.done + 1 /\ d.committed = TRUE
                /\ d.cancelled = c.cancelled
         /\ LET d == [c EXCEPT !.committed = TRUE]
            IN  d \in Cleanups /\ d.plan = c.plan /\ d.done = c.done /\ d.committed = TRUE
                /\ d.cancelled = c.cancelled
         /\ LET d == [c EXCEPT !.cancelled = TRUE]
            IN  d \in Cleanups /\ d.plan = c.plan /\ d.done = c.done /\ d.cancelled = TRUE
                /\ d.committed = c.committed
<1>1. c.done \in Nat /\ c.plan \in Plans /\ c.cancelled \in BOOLEAN /\ c.committed \in BOOLEAN
  BY DEF Cleanups
<1>2. LET d == [c EXCEPT !.done = @ + 1, !.committed = TRUE]
      IN  d \in Cleanups /\ d.plan = c.plan /\ d.done = c.done + 1 /\ d.committed = TRUE
          /\ d.cancelled = c.cancelled
  <2> DEFINE m == c.done + 1
  <2>1. m \in Nat
    BY <1>1
  <2>2. [c EXCEPT !.done = @ + 1, !.committed = TRUE] = [c EXCEPT !.done = m, !.committed = TRUE]
    OBVIOUS
  <2> HIDE DEF m
  <2>3. LET d == [c EXCEPT !.done = m, !.committed = TRUE]
        IN  d \in Cleanups /\ d.plan = c.plan /\ d.done = m /\ d.committed = TRUE
            /\ d.cancelled = c.cancelled
    BY <2>1 DEF Cleanups
  <2> QED BY <2>2, <2>3 DEF m
<1>3. LET d == [c EXCEPT !.committed = TRUE]
      IN  d \in Cleanups /\ d.plan = c.plan /\ d.done = c.done /\ d.committed = TRUE
          /\ d.cancelled = c.cancelled
  BY DEF Cleanups
<1>4. LET d == [c EXCEPT !.cancelled = TRUE]
      IN  d \in Cleanups /\ d.plan = c.plan /\ d.done = c.done /\ d.cancelled = TRUE
          /\ d.committed = c.committed
  BY DEF Cleanups
<1> QED BY <1>1, <1>2, <1>3, <1>4

LEMMA ApprovalChanges ==
  ASSUME NEW c \in Cleanups, NEW n \in Nat
  PROVE  LET d == [c EXCEPT !.plan.version = n]
         IN  d \in Cleanups /\ d.plan.items = c.plan.items /\ d.plan.sequence = c.plan.sequence
             /\ d.done = c.done /\ d.cancelled = c.cancelled /\ d.committed = c.committed
<1> DEFINE p == [c.plan EXCEPT !.version = n]
<1>1. p \in Plans /\ p.items = c.plan.items /\ p.sequence = c.plan.sequence
  BY DEF Plans, Cleanups
<1>2. [c EXCEPT !.plan.version = n] = [c EXCEPT !.plan = p]
  OBVIOUS
<1> HIDE DEF p
<1>3. LET d == [c EXCEPT !.plan = p]
      IN  d \in Cleanups /\ d.plan = p /\ d.done = c.done /\ d.cancelled = c.cancelled
          /\ d.committed = c.committed
  BY <1>1 DEF Cleanups
<1> QED BY <1>1, <1>2, <1>3

\* What the cleanup's predicates say of a journal record.
LEMMA CleanupEnds ==
  ASSUME ErasureInv
  PROVE  /\ job # NoJob => /\ job \in Cleanups /\ job.done \in Nat /\ job.plan \in Plans
                           /\ job.cancelled \in BOOLEAN /\ job.committed \in BOOLEAN
         /\ Erase!Complete(job) <=> job # NoJob /\ job.cancelled = FALSE /\ job.done = Length
         /\ Erase!Ended(job) <=> (job # NoJob => job.cancelled = TRUE \/ job.done = Length)
         /\ Erase!Ended(job) => (replica \cup files) \cap barrier = {}
<1>1. job # NoJob => /\ job \in Cleanups /\ job.done \in Nat /\ job.plan \in Plans
                     /\ job.cancelled \in BOOLEAN /\ job.committed \in BOOLEAN
  BY DEF ErasureInv, ErasureTypes, Cleanups
<1>2. Len(Erase!Phases[category]) = Length
  BY StepsInOrder DEF ErasureInv, ErasureTypes
<1>3. Erase!Complete(job) <=> job # NoJob /\ job.cancelled = FALSE /\ job.done = Length
  BY <1>1, <1>2 DEF Erase!Complete
<1>4. Erase!Ended(job) <=> (job # NoJob => job.cancelled = TRUE \/ job.done = Length)
  BY <1>1, <1>2 DEF Erase!Ended
<1>5. ASSUME Erase!Ended(job), Underway PROVE (replica \cup files) \cap barrier = {}
  <2>1. job # NoJob /\ job.committed = TRUE /\ job.cancelled = FALSE
    BY <1>5 DEF Underway, ErasureInv, CleanupHolds
  <2>2. job.done = Length
    BY <1>4, <1>5, <2>1
  <2>3. job.done >= 2 /\ job.done > FilesStep
    BY <2>2 DEF Length, FilesStep
  <2> QED BY <1>5, <2>3 DEF ErasureInv, LeftToErase
<1>6. ASSUME Erase!Ended(job), ~Underway PROVE (replica \cup files) \cap barrier = {}
  BY <1>6 DEF ErasureInv, LeftToErase
<1> QED BY <1>1, <1>3, <1>4, <1>5, <1>6

\* The owner's ordinary use changes no cleanup.
LEMMA UseKeepsErasure ==
  ASSUME ErasureInv,
         Erase!LeaveCopy \/ \E i \in Items : Erase!Create(i) \/ Erase!ReceiveStale(i)
  PROVE  ErasureInv'
<1>0. ErasureTypes /\ CopiesHold /\ CleanupHolds /\ LeftToErase /\ AnswersHold
  BY DEF ErasureInv
<1>1. /\ UNCHANGED <<category, barrier, sequence, approved, review, job>>
      /\ UNCHANGED <<incoming, request, reply, epoch, approver>>
  BY DEF Erase!LeaveCopy, Erase!Create, Erase!ReceiveStale, Erase!deviceVars
<1> DEFINE Copied ==
           /\ version' \in Nat /\ source' \in SUBSET Items /\ replica' \in SUBSET Items /\ files' \in SUBSET Items
           /\ source' \cap barrier = {} /\ source' \cup replica' \cup files' \cup derived' \subseteq created'
           /\ created' \subseteq source' \cup barrier
           /\ category \notin Erase!Journalled => replica' = {} /\ derived' = {}
           /\ replica' \cap barrier \subseteq replica /\ files' \cap barrier \subseteq files
           /\ derived' \cap barrier \subseteq derived
<1>2. Copied
  <2>1. CASE Erase!LeaveCopy
    BY <1>0, <2>1 DEF Erase!LeaveCopy, ErasureTypes, CopiesHold
  <2>2. ASSUME NEW i \in Items, Erase!Create(i) PROVE Copied
    BY <1>0, <2>2 DEF Erase!Create, ErasureTypes, CopiesHold
  <2>3. ASSUME NEW i \in Items, Erase!ReceiveStale(i) PROVE Copied
    BY <1>0, <2>3 DEF Erase!ReceiveStale, ErasureTypes, CopiesHold
  <2> QED BY <2>1, <2>2, <2>3
<1>3. ErasureTypes'
  BY <1>0, <1>1, <1>2 DEF ErasureTypes
<1>4. CopiesHold'
  BY <1>0, <1>1, <1>2 DEF CopiesHold
<1>5. Length' = Length /\ FilesStep' = FilesStep /\ Underway' = Underway
  BY <1>1 DEF Length, FilesStep, Underway, Erase!Journalled
<1>6. CleanupHolds'
  BY <1>0, <1>1, <1>5 DEF CleanupHolds
<1>7. LeftToErase'
  BY <1>0, <1>1, <1>2, <1>5 DEF LeftToErase
<1>8. AnswersHold'
  <2>1. Erase!Complete(job)' = Erase!Complete(job)
    BY <1>1 DEF Erase!Complete, Erase!Phases
  <2> QED BY <1>0, <1>1, <2>1 DEF AnswersHold
<1> QED BY <1>3, <1>4, <1>6, <1>7, <1>8 DEF ErasureInv

\* A confirmation outlives what changes no answer, as long as a completed cleanup stays or the
\* next one has a new number.
LEMMA AnswersStay ==
  ASSUME ErasureInv, UNCHANGED <<incoming, request, reply, approver>>, sequence' \in Nat,
         sequence' > sequence \/ (sequence' = sequence /\ (Erase!Complete(job) => Erase!Complete(job)'))
  PROVE  AnswersHold'
<1>1. AnswersHold /\ sequence \in Nat /\ incoming \in Requests
  BY DEF ErasureInv, ErasureTypes
<1>2. incoming.token # NoReview => incoming.token.sequence \in Nat
  BY <1>1 DEF Requests, Plans
<1>3. ASSUME incoming.state = "confirmed"
      PROVE  /\ incoming.token # NoReview /\ sequence' >= incoming.token.sequence
             /\ sequence' = incoming.token.sequence => Erase!Complete(job)'
  BY <1>1, <1>2, <1>3 DEF AnswersHold
<1> QED BY <1>1, <1>3 DEF AnswersHold

\* The plan that a review shows.
LEMMA PlanIsReviewed ==
  ASSUME ErasureTypes
  PROVE  /\ Erase!Plan \in Plans /\ Erase!Plan.items = source \cup replica \cup files
         /\ Erase!Plan.sequence = sequence + 1
         /\ \A n \in {0, 1} : /\ Erase!NewJob(n) \in Cleanups /\ Erase!NewJob(n).plan = Erase!Plan
                              /\ Erase!NewJob(n).done = n /\ Erase!NewJob(n).cancelled = FALSE
         /\ Erase!NewJob(0).committed = FALSE /\ Erase!NewJob(1).committed = TRUE
<1>1. /\ Erase!Plan \in Plans /\ Erase!Plan.items = source \cup replica \cup files
      /\ Erase!Plan.sequence = sequence + 1
  BY DEF ErasureTypes, Erase!Plan, Plans
<1>2. \A n \in {0, 1} : /\ Erase!NewJob(n) \in Cleanups /\ Erase!NewJob(n).plan = Erase!Plan
                        /\ Erase!NewJob(n).done = n /\ Erase!NewJob(n).cancelled = FALSE
  BY <1>1 DEF Erase!NewJob, Cleanups
<1>3. Erase!NewJob(0).committed = (0 > 0) /\ Erase!NewJob(1).committed = (1 > 0)
  BY DEF Erase!NewJob
<1>4. (0 > 0) = FALSE /\ (1 > 0) = TRUE
  OBVIOUS
<1> QED BY <1>1, <1>2, <1>3, <1>4

\* A cleanup that begins, with the source or before it.
LEMMA BeginKeepsErasure ==
  ASSUME ErasureInv, NEW token, Erase!Begin(token), UNCHANGED Erase!deviceVars
  PROVE  ErasureInv'
<1>0. ErasureTypes /\ CopiesHold /\ CleanupHolds /\ LeftToErase /\ AnswersHold
  BY DEF ErasureInv
<1>1. /\ Erase!Ended(job) /\ token = Erase!Plan /\ sequence' = sequence + 1
      /\ approved' = approved \cup token.items /\ UNCHANGED <<category, review>>
      /\ UNCHANGED <<incoming, request, reply, epoch, approver>>
      /\ \/ category \in Erase!Journalled /\ job' = Erase!NewJob(0)
            /\ UNCHANGED <<source, replica, files, derived, version, barrier, created>>
         \/ category \notin Erase!Journalled /\ job' = Erase!NewJob(1)
            /\ source' = {} /\ barrier' = barrier \cup source \cup replica
            /\ UNCHANGED <<replica, files, derived, version, created>>
  BY DEF Erase!Begin, Erase!AskBegin, Erase!ReadingBegin, Erase!LibraryBegin, Erase!FeedBegin, Erase!CardsBegin,
         Erase!OfflineClear, Erase!CommitPlan, Erase!Reviewed, Erase!Numbered, Erase!EraseSource,
         Erase!Journalled, Erase!deviceVars, Erase!copyVars
<1>2. (replica \cup files) \cap barrier = {}
  BY <1>1, CleanupEnds
<1>3. /\ Erase!Plan.items = source \cup replica \cup files /\ Erase!Plan.sequence = sequence + 1
      /\ job' \in Cleanups /\ job'.plan = Erase!Plan /\ job'.cancelled = FALSE
      /\ category \in Erase!Journalled => job'.done = 0 /\ job'.committed = FALSE
      /\ category \notin Erase!Journalled => job'.done = 1 /\ job'.committed = TRUE
  <2>1. /\ Erase!Plan.items = source \cup replica \cup files /\ Erase!Plan.sequence = sequence + 1
        /\ \A n \in {0, 1} : /\ Erase!NewJob(n) \in Cleanups /\ Erase!NewJob(n).plan = Erase!Plan
                             /\ Erase!NewJob(n).done = n /\ Erase!NewJob(n).cancelled = FALSE
        /\ Erase!NewJob(0).committed = FALSE /\ Erase!NewJob(1).committed = TRUE
    BY <1>0, PlanIsReviewed
  <2>2. CASE category \in Erase!Journalled
    BY <1>1, <2>1, <2>2
  <2>3. CASE category \notin Erase!Journalled
    BY <1>1, <2>1, <2>3
  <2> QED BY <2>2, <2>3
<1>4. job' # NoJob
  BY <1>3, NoJobAssumption DEF Cleanups, Plans
<1>5. Length' = Length /\ FilesStep' = FilesStep /\ (category \notin Erase!Journalled => FilesStep = 1)
      /\ Length \in {2, 4}
  BY <1>1 DEF Length, FilesStep, Erase!Journalled
<1>6. ErasureTypes'
  BY <1>0, <1>1, <1>3 DEF ErasureTypes
<1>7. AnswersHold'
  <2>1. sequence \in Nat
    BY <1>0 DEF ErasureTypes
  <2> QED BY <1>1, <2>1, AnswersStay
<1>8. CASE category \in Erase!Journalled
  <2>1. /\ UNCHANGED <<category, source, replica, files, derived, version, barrier, created>>
        /\ job'.done = 0 /\ job'.committed = FALSE
    BY <1>1, <1>3, <1>8
  <2>2. CopiesHold'
    BY <1>0, <1>1, <2>1 DEF CopiesHold, Erase!Journalled
  <2>3. CleanupHolds'
    BY <1>0, <1>1, <1>2, <1>3, <1>5, <2>1 DEF CleanupHolds, CopiesHold
  <2>4. LeftToErase'
    BY <1>2, <2>1 DEF LeftToErase, Underway
  <2> QED BY <1>6, <1>7, <2>2, <2>3, <2>4 DEF ErasureInv
<1>9. CASE category \notin Erase!Journalled
  <2>1. /\ source' = {} /\ barrier' = barrier \cup source \cup replica
        /\ UNCHANGED <<category, replica, files, derived, version, created>>
        /\ job'.done = 1 /\ job'.committed = TRUE
    BY <1>1, <1>3, <1>9
  <2>2. CopiesHold'
    BY <1>0, <1>1, <1>3, <2>1 DEF CopiesHold, Erase!Journalled
  <2>3. CleanupHolds'
    BY <1>0, <1>1, <1>3, <1>5, <2>1 DEF CleanupHolds, CopiesHold
  <2>4. LeftToErase'
    BY <1>2, <1>3, <1>4, <1>5, <1>9, <2>1 DEF LeftToErase, Underway
  <2> QED BY <1>6, <1>7, <2>2, <2>3, <2>4 DEF ErasureInv
<1> QED BY <1>8, <1>9

\* The steps of the cleanup, each resumed after a stop.
LEMMA StepsKeepErasure ==
  ASSUME ErasureInv,
         Erase!AskStepSource \/ Erase!ReadingStepSource \/ Erase!AskStepReplica \/ Erase!ReadingStepReplica
           \/ Erase!StepFiles \/ Erase!ApproveFiles \/ Erase!StepDerived \/ Erase!CancelUncommitted
  PROVE  ErasureInv'
<1>0. ErasureTypes /\ CopiesHold /\ CleanupHolds /\ LeftToErase /\ AnswersHold
  BY DEF ErasureInv
<1>1. /\ ~ Erase!Ended(job) /\ UNCHANGED <<category, sequence, approved, review>>
      /\ UNCHANGED <<incoming, request, reply, epoch, approver>>
  BY DEF Erase!AskStepSource, Erase!ReadingStepSource, Erase!AskStepReplica, Erase!ReadingStepReplica,
         Erase!StepFiles, Erase!AskStepBackups, Erase!ReadingStepBackups, Erase!LibraryResume, Erase!FeedResume,
         Erase!OfflineFinish, Erase!CardsRewrite, Erase!FilesGo, Erase!ApproveFiles, Erase!AskApproveBackups,
         Erase!ReadingApproveBackups, Erase!LibraryApproveFiles, Erase!FeedApproveBackups,
         Erase!OfflineApproveRemaining, Erase!CardsApprove, Erase!ApproveLeft, Erase!StepDerived,
         Erase!CancelUncommitted, Erase!Pending, Erase!Kept, Erase!deviceVars
<1>2. /\ job # NoJob /\ job \in Cleanups /\ job.done \in Nat /\ job.cancelled = FALSE /\ job.done < Length
      /\ job.committed \in BOOLEAN /\ job.plan \in Plans
  <2>1. job # NoJob /\ ~ (job.cancelled = TRUE \/ job.done = Length)
    BY <1>1, CleanupEnds
  <2>2. job \in Cleanups /\ job.done \in Nat /\ job.cancelled \in BOOLEAN /\ job.committed \in BOOLEAN
        /\ job.plan \in Plans
    BY <2>1, CleanupEnds
  <2>3. job.done <= Length
    BY <1>0, <2>1 DEF CleanupHolds
  <2> QED BY <2>1, <2>2, <2>3 DEF Length
<1>3. Length' = Length /\ FilesStep' = FilesStep /\ Length \in {2, 4} /\ (Length = 4 <=> FilesStep = 2)
      /\ (Length = 2 <=> FilesStep = 1) /\ (Length = 4 <=> category \in Erase!Journalled)
  BY <1>1 DEF Length, FilesStep, Erase!Journalled
<1>4. AnswersHold'
  <2>1. ~ Erase!Complete(job)
    <3>1. job.done # Length
      BY <1>2, <1>3
    <3>2. Erase!Complete(job) => job.done = Length
      BY CleanupEnds
    <3> QED BY <3>1, <3>2
  <2>2. sequence' = sequence /\ sequence' \in Nat
    BY <1>0, <1>1 DEF ErasureTypes
  <2> QED BY <1>1, <2>1, <2>2, AnswersStay
<1>5. Erase!NextPhase = Erase!Phases[category][job.done + 1]
  BY DEF Erase!NextPhase
<1>6. /\ Erase!NextPhase = "source" => job.done = 0
      /\ Erase!NextPhase = "replica" => job.done = 1 /\ Length = 4
      /\ Erase!NextPhase = "files" => job.done = FilesStep
      /\ Erase!NextPhase = "derived" => job.done = 3 /\ Length = 4
  BY <1>0, <1>2, <1>5, StepsInOrder DEF ErasureTypes
<1>7. Erase!Done => /\ job' \in Cleanups /\ job' # NoJob /\ job'.plan = job.plan /\ job'.done = job.done + 1
                    /\ job'.committed = TRUE /\ job'.cancelled = FALSE
  <2>1. LET d == [job EXCEPT !.done = @ + 1, !.committed = TRUE]
        IN  d \in Cleanups /\ d.plan = job.plan /\ d.done = job.done + 1 /\ d.committed = TRUE
            /\ d.cancelled = job.cancelled
    BY <1>2, CleanupChanges
  <2>2. NoJob \notin Cleanups
    BY NoJobAssumption DEF Cleanups, Plans
  <2> QED BY <1>2, <2>1, <2>2 DEF Erase!Done
<1>8. /\ job.plan.items \subseteq approved /\ job.plan.sequence = sequence
      /\ job.done > 0 => job.committed = TRUE
      /\ job.committed = TRUE => job.plan.items \subseteq barrier
      /\ job.committed = FALSE => job.plan.items \cap barrier = {}
  BY <1>0, <1>2 DEF CleanupHolds
\* The step that commits the cleanup.
<1>9. ASSUME source \cup replica \cup files = job.plan.items, Erase!EraseSource,
             job' \in Cleanups, job' # NoJob, job'.plan = job.plan, job'.done \in {0, 1},
             job'.committed = TRUE, job'.cancelled = FALSE, job.committed = FALSE, category \in Erase!Journalled
      PROVE  ErasureInv'
  <2>1. /\ source' = {} /\ barrier' = barrier \cup source \cup replica
        /\ UNCHANGED <<replica, files, derived, version, created>>
    BY <1>9 DEF Erase!EraseSource
  <2>2. ErasureTypes'
    BY <1>0, <1>1, <1>9, <2>1 DEF ErasureTypes
  <2>3. CopiesHold'
    BY <1>0, <1>1, <1>8, <1>9, <2>1 DEF CopiesHold, Erase!Journalled
  <2>4. CleanupHolds'
    BY <1>0, <1>1, <1>3, <1>8, <1>9, <2>1 DEF CleanupHolds, CopiesHold
  <2>5. (replica \cup files) \cap barrier = {}
    BY <1>0, <1>9 DEF LeftToErase, Underway
  <2>6. LeftToErase'
    <3>1. ~ (job'.done >= 2) /\ ~ (job'.done > FilesStep') /\ ~ (job'.done >= 4)
      BY <1>3, <1>9
    <3> QED BY <1>9, <2>1, <2>5, <3>1 DEF LeftToErase, Underway
  <2> QED BY <1>4, <2>2, <2>3, <2>4, <2>6 DEF ErasureInv
\* The steps after it.
<1>10. ASSUME job.committed = TRUE, job' \in Cleanups, job' # NoJob, job'.plan.items = job.plan.items,
              job'.plan.sequence = job.plan.sequence, job'.done \in {job.done, job.done + 1},
              job'.committed = TRUE, job'.cancelled = FALSE, UNCHANGED <<source, version, barrier, created>>,
              replica' \subseteq replica, files' \subseteq files, derived' \subseteq derived \cup source,
              category \notin Erase!Journalled => derived' = derived,
              job.done = 1 /\ job'.done = 2 /\ Length = 4 => replica' \cap barrier = {},
              job.done = FilesStep /\ job'.done = FilesStep + 1 => files' \cap barrier = {},
              job'.done = 4 => job.done = 3 /\ derived' \cap barrier = {}
       PROVE  ErasureInv'
  <2>1. ErasureTypes'
    BY <1>0, <1>1, <1>10 DEF ErasureTypes
  <2>2. CopiesHold'
    BY <1>0, <1>1, <1>10 DEF CopiesHold, Erase!Journalled
  <2>3. CleanupHolds'
    BY <1>1, <1>2, <1>3, <1>8, <1>10 DEF CleanupHolds
  <2>4. LeftToErase'
    <3>1. (replica \cup files) \cap barrier \subseteq job.plan.items
      BY <1>0, <1>2, <1>10 DEF LeftToErase, Underway
    <3>2. job'.done >= 2 => replica' \cap barrier = {}
      BY <1>0, <1>2, <1>3, <1>10 DEF LeftToErase, Underway, CopiesHold
    <3>3. job'.done > FilesStep => files' \cap barrier = {}
      BY <1>0, <1>2, <1>3, <1>10 DEF LeftToErase, Underway
    <3>4. job'.done >= 4 => derived' \cap barrier = {}
      BY <1>2, <1>3, <1>10
    <3> QED BY <1>3, <1>10, <3>1, <3>2, <3>3, <3>4 DEF LeftToErase, Underway
  <2> QED BY <1>4, <2>1, <2>2, <2>3, <2>4 DEF ErasureInv
<1>11. CASE Erase!AskStepSource \/ Erase!ReadingStepSource
  <2>1. /\ Erase!NextPhase = "source" /\ category \in Erase!Journalled
        /\ \/ job.committed = TRUE /\ Erase!Done /\ UNCHANGED Erase!copyVars
           \/ /\ job.committed = FALSE /\ Erase!SourceUnchanged /\ Erase!EraseSource
              /\ Erase!Done \/ job' = [job EXCEPT !.committed = TRUE]
    BY <1>2, <1>11 DEF Erase!AskStepSource, Erase!ReadingStepSource, Erase!Pending, Erase!Journalled
  <2>2. job.done = 0 /\ Length = 4 /\ FilesStep = 2
    BY <1>3, <1>6, <2>1
  <2>3. CASE job.committed = TRUE /\ Erase!Done /\ UNCHANGED Erase!copyVars
    <3>1. /\ job' \in Cleanups /\ job' # NoJob /\ job'.plan = job.plan /\ job'.done = 1
          /\ job'.committed = TRUE /\ job'.cancelled = FALSE
      BY <1>7, <2>2, <2>3
    <3>2. UNCHANGED <<source, replica, files, derived, version, barrier, created>>
      BY <2>3 DEF Erase!copyVars
    <3>3. /\ job'.plan.items = job.plan.items /\ job'.plan.sequence = job.plan.sequence
          /\ job'.done \in {job.done, job.done + 1} /\ job.done # 1 /\ job.done # FilesStep /\ job'.done # 4
      BY <2>2, <3>1
    <3> QED BY <1>10, <2>1, <2>3, <3>1, <3>2, <3>3
  <2>4. CASE /\ job.committed = FALSE /\ Erase!SourceUnchanged /\ Erase!EraseSource
             /\ Erase!Done \/ job' = [job EXCEPT !.committed = TRUE]
    <3>1. /\ job' \in Cleanups /\ job' # NoJob /\ job'.plan = job.plan /\ job'.done \in {0, 1}
          /\ job'.committed = TRUE /\ job'.cancelled = FALSE
      <4>1. LET d == [job EXCEPT !.committed = TRUE]
            IN  d \in Cleanups /\ d.plan = job.plan /\ d.done = job.done /\ d.committed = TRUE
                /\ d.cancelled = job.cancelled
        BY <1>2, CleanupChanges
      <4>2. NoJob \notin Cleanups
        BY NoJobAssumption DEF Cleanups, Plans
      <4>3. CASE Erase!Done
        BY <1>7, <2>2, <4>3
      <4>4. CASE job' = [job EXCEPT !.committed = TRUE]
        BY <1>2, <2>2, <4>1, <4>2, <4>4
      <4> QED BY <2>4, <4>3, <4>4
    <3> QED BY <1>9, <2>1, <2>4, <3>1 DEF Erase!SourceUnchanged
  <2> QED BY <2>1, <2>3, <2>4
<1>12. CASE Erase!AskStepReplica \/ Erase!ReadingStepReplica
  <2>1. /\ Erase!NextPhase = "replica" /\ Erase!Done /\ UNCHANGED <<source, files, derived, version, created>>
        /\ \/ replica' = replica \ job.plan.items /\ barrier' = barrier \cup job.plan.items
           \/ replica' = replica \ barrier /\ UNCHANGED barrier
    BY <1>12 DEF Erase!AskStepReplica, Erase!ReadingStepReplica, Erase!Pending
  <2>2. job.done = 1 /\ Length = 4 /\ FilesStep = 2 /\ job.committed = TRUE
    BY <1>3, <1>6, <1>8, <2>1
  <2>3. UNCHANGED barrier
    BY <1>8, <2>1, <2>2
  <2>4. (replica \cup files) \cap barrier \subseteq job.plan.items
    BY <1>0, <1>2, <2>2 DEF LeftToErase, Underway
  <2>5. replica' \subseteq replica /\ replica' \cap barrier = {}
    BY <2>1, <2>4
  <2>6. /\ job' \in Cleanups /\ job' # NoJob /\ job'.plan = job.plan /\ job'.done = 2
        /\ job'.committed = TRUE /\ job'.cancelled = FALSE
    BY <1>7, <2>1, <2>2
  <2>7. /\ job'.plan.items = job.plan.items /\ job'.plan.sequence = job.plan.sequence
        /\ job'.done \in {job.done, job.done + 1} /\ job.done # FilesStep /\ job'.done # 4
    BY <2>2, <2>6
  <2>8. UNCHANGED version /\ files' \subseteq files /\ derived' \subseteq derived \cup source
    BY <2>1
  <2> QED BY <1>10, <2>1, <2>2, <2>3, <2>5, <2>6, <2>7, <2>8
<1>13. CASE Erase!StepFiles
  <2>1. /\ Erase!NextPhase = "files" /\ UNCHANGED <<source, replica, derived, version, barrier, created>>
        /\ \/ files' = {} /\ Erase!Done
           \/ UNCHANGED job /\ files' \subseteq files
    BY <1>13 DEF Erase!StepFiles, Erase!AskStepBackups, Erase!ReadingStepBackups, Erase!LibraryResume,
         Erase!FeedResume, Erase!OfflineFinish, Erase!CardsRewrite, Erase!FilesGo, Erase!Pending
  <2>2. job.done = FilesStep /\ FilesStep \in {1, 2} /\ job.committed = TRUE /\ (Length = 4 => FilesStep = 2)
    BY <1>3, <1>6, <1>8, <2>1
  <2>3. CASE files' = {} /\ Erase!Done
    <3>1. files' \subseteq files /\ files' \cap barrier = {} /\ job.done + 1 # 4
      BY <2>2, <2>3
    <3> QED BY <1>7, <1>10, <2>1, <2>2, <2>3, <3>1
  <2>4. CASE UNCHANGED job /\ files' \subseteq files
    <3>1. job.done # FilesStep + 1 /\ job.done # 4 /\ ~(job.done = 1 /\ job.done = 2)
      BY <2>2
    <3> QED BY <1>2, <1>10, <2>1, <2>2, <2>4, <3>1
  <2> QED BY <2>1, <2>3, <2>4
<1>14. CASE Erase!ApproveFiles
  <2>1. /\ Erase!NextPhase = "files" /\ job' = [job EXCEPT !.plan.version = version]
        /\ UNCHANGED Erase!copyVars
    BY <1>14 DEF Erase!ApproveFiles, Erase!AskApproveBackups, Erase!ReadingApproveBackups,
         Erase!LibraryApproveFiles, Erase!FeedApproveBackups, Erase!OfflineApproveRemaining, Erase!CardsApprove,
         Erase!ApproveLeft, Erase!Pending
  <2>2. job.done = FilesStep /\ FilesStep \in {1, 2} /\ job.committed = TRUE
    BY <1>3, <1>6, <1>8, <2>1
  <2>3. /\ job' \in Cleanups /\ job'.plan.items = job.plan.items /\ job'.plan.sequence = job.plan.sequence
        /\ job'.done = job.done /\ job'.cancelled = job.cancelled /\ job'.committed = job.committed
    <3>1. version \in Nat
      BY <1>0 DEF ErasureTypes
    <3>2. LET d == [job EXCEPT !.plan.version = version]
          IN  d \in Cleanups /\ d.plan.items = job.plan.items /\ d.plan.sequence = job.plan.sequence
              /\ d.done = job.done /\ d.cancelled = job.cancelled /\ d.committed = job.committed
      BY <1>2, <3>1, ApprovalChanges
    <3> QED BY <2>1, <3>2
  <2>4. job' # NoJob
    BY <2>3, NoJobAssumption DEF Cleanups, Plans
  <2>5. job.done # FilesStep + 1 /\ job.done # 4 /\ ~(job.done = 1 /\ job.done = 2)
    BY <2>2
  <2> QED BY <1>2, <1>10, <2>1, <2>2, <2>3, <2>4, <2>5 DEF Erase!copyVars
<1>15. CASE Erase!StepDerived
  <2>1. /\ Erase!NextPhase = "derived" /\ derived' = source /\ Erase!Done
        /\ UNCHANGED <<source, replica, files, version, barrier, created>>
    BY <1>15 DEF Erase!StepDerived, Erase!Pending
  <2>2. job.done = 3 /\ Length = 4 /\ FilesStep = 2 /\ job.committed = TRUE /\ category \in Erase!Journalled
    BY <1>3, <1>6, <1>8, <2>1
  <2>3. derived' \cap barrier = {}
    BY <1>0, <2>1 DEF CopiesHold
  <2>4. /\ job' \in Cleanups /\ job' # NoJob /\ job'.plan = job.plan /\ job'.done = 4
        /\ job'.committed = TRUE /\ job'.cancelled = FALSE
    BY <1>7, <2>1, <2>2
  <2>5. /\ job'.plan.items = job.plan.items /\ job'.plan.sequence = job.plan.sequence
        /\ job'.done \in {job.done, job.done + 1} /\ job.done # FilesStep /\ job.done # 1
    BY <2>2, <2>4
  <2>6. replica' \subseteq replica /\ files' \subseteq files /\ derived' \subseteq derived \cup source
    BY <2>1
  <2> QED BY <1>10, <2>1, <2>2, <2>3, <2>4, <2>5, <2>6
<1>16. CASE Erase!CancelUncommitted
  <2>1. /\ job.committed = FALSE /\ job.done = 0 /\ job' = [job EXCEPT !.cancelled = TRUE]
        /\ UNCHANGED Erase!copyVars
    BY <1>2, <1>16 DEF Erase!CancelUncommitted
  <2>2. /\ job' \in Cleanups /\ job'.plan = job.plan /\ job'.done = 0 /\ job'.cancelled = TRUE
        /\ job'.committed = FALSE
    <3>1. LET d == [job EXCEPT !.cancelled = TRUE]
          IN  d \in Cleanups /\ d.plan = job.plan /\ d.done = job.done /\ d.cancelled = TRUE
              /\ d.committed = job.committed
      BY <1>2, CleanupChanges
    <3> QED BY <2>1, <3>1
  <2>3. UNCHANGED <<source, replica, files, derived, version, barrier, created>>
    BY <2>1 DEF Erase!copyVars
  <2>4. ErasureTypes'
    BY <1>0, <1>1, <2>2, <2>3 DEF ErasureTypes
  <2>5. CopiesHold'
    BY <1>0, <1>1, <2>3 DEF CopiesHold, Erase!Journalled
  <2>6. CleanupHolds'
    BY <1>1, <1>3, <1>8, <2>1, <2>2, <2>3 DEF CleanupHolds
  <2>7. LeftToErase'
    <3>1. (replica \cup files) \cap barrier = {}
      BY <1>0, <2>1 DEF LeftToErase, Underway
    <3> QED BY <2>2, <2>3, <3>1 DEF LeftToErase, Underway
  <2> QED BY <1>4, <2>4, <2>5, <2>6, <2>7 DEF ErasureInv
<1> QED BY <1>11, <1>12, <1>13, <1>14, <1>15, <1>16

\* The request of the other device: only an execution reaches the copies.
LEMMA DeviceKeepsErasure ==
  ASSUME ErasureInv,
         Erase!BeginRequest \/ Erase!Receive \/ Erase!Exchange \/ Erase!ExchangeLost \/ Erase!ChangePolicy
           \/ Erase!PreviewRequest \/ Erase!Decide \/ Erase!Finish \/ Erase!Reject
  PROVE  ErasureInv'
<1>0. ErasureTypes /\ CopiesHold /\ CleanupHolds /\ LeftToErase /\ AnswersHold
  BY DEF ErasureInv
<1>1. UNCHANGED <<category, source, replica, files, derived, version, barrier, created, sequence, approved,
                  review, job>>
  BY DEF Erase!BeginRequest, Erase!Receive, Erase!Exchange, Erase!ExchangeLost, Erase!ChangePolicy,
         Erase!PreviewRequest, Erase!Decide, Erase!Finish, Erase!Reject, Erase!LocalVars, Erase!copyVars
<1>2. CopiesHold' /\ CleanupHolds' /\ LeftToErase'
  BY <1>0, <1>1 DEF CopiesHold, CleanupHolds, LeftToErase, Underway, Length, FilesStep, Erase!Journalled
<1>3. Erase!Complete(job)' = Erase!Complete(job)
  BY <1>1 DEF Erase!Complete, Erase!Phases
<1> DEFINE Words == {"none", "awaiting_owner", "approved", "partial", "rejected", "confirmed"}
<1>t. /\ incoming \in Requests /\ epoch \in Nat /\ sequence \in Nat
      /\ incoming.state \in Words /\ incoming.token \in Plans \cup {NoReview}
  BY <1>0 DEF ErasureTypes, Requests
\* What an answer of the owner or of the service changes in the record of the request.
<1>m. \A w \in Words : LET d == [incoming EXCEPT !.state = w]
                       IN  d \in Requests /\ d.state = w /\ d.token = incoming.token
  BY <1>t DEF Requests
<1>4. ASSUME incoming' \in Requests, epoch' \in Nat PROVE ErasureTypes'
  BY <1>0, <1>1, <1>4 DEF ErasureTypes
<1>5. ASSUME UNCHANGED incoming, UNCHANGED approver, epoch' \in Nat,
             reply' # NoReview /\ reply'.state = "confirmed" => incoming.state = "confirmed",
             request' = "confirmed" => incoming.state = "confirmed"
      PROVE  ErasureInv'
  <2>1. AnswersHold'
    BY <1>0, <1>1, <1>3, <1>5 DEF AnswersHold
  <2>2. ErasureTypes'
    BY <1>t, <1>4, <1>5
  <2> QED BY <1>2, <2>1, <2>2 DEF ErasureInv
<1>6. CASE Erase!BeginRequest
  BY <1>0, <1>5, <1>6, <1>t DEF Erase!BeginRequest, AnswersHold
<1>7. CASE Erase!Receive
  <2>1. CASE incoming.state # "none"
    <3>1. UNCHANGED <<incoming, request, epoch, approver>> /\ reply'.state = incoming.state
      BY <1>7, <2>1 DEF Erase!Receive
    <3> QED BY <1>0, <1>5, <1>t, <3>1 DEF AnswersHold
  <2>2. CASE incoming.state = "none"
    <3>1. /\ incoming' = [state |-> "awaiting_owner", epoch |-> epoch, token |-> NoReview]
          /\ UNCHANGED <<request, epoch, approver>> /\ reply' = [state |-> "awaiting_owner", epoch |-> epoch]
      BY <1>7, <2>2 DEF Erase!Receive
    <3>2. incoming' \in Requests /\ incoming'.state = "awaiting_owner" /\ reply'.state = "awaiting_owner"
      BY <1>t, <3>1 DEF Requests
    <3>3. AnswersHold'
      BY <1>0, <2>2, <3>1, <3>2 DEF AnswersHold
    <3> QED BY <1>2, <1>4, <1>t, <3>1, <3>2, <3>3 DEF ErasureInv
  <2> QED BY <2>1, <2>2
<1>8. CASE Erase!Exchange \/ Erase!ExchangeLost
  <2>1. /\ UNCHANGED <<incoming, epoch, approver>> /\ reply # NoReview /\ reply' = NoReview
        /\ request' \in {request, reply.state, "policy_changed", "unconfirmed"}
    BY <1>8 DEF Erase!Exchange, Erase!ExchangeLost
  <2>2. request' = "confirmed" => incoming.state = "confirmed"
    BY <1>0, <2>1 DEF AnswersHold
  <2> QED BY <1>5, <1>t, <2>1, <2>2
<1>9. CASE Erase!ChangePolicy
  <2>1. UNCHANGED <<incoming, request, reply, approver>> /\ epoch' \in Nat
    BY <1>9, <1>t DEF Erase!ChangePolicy
  <2> QED BY <1>0, <1>5, <2>1 DEF AnswersHold
\* The steps that change the record of the request, and leave the answers.
<1>10. ASSUME UNCHANGED <<request, reply, epoch>>, incoming' \in Requests,
              incoming.state = "confirmed" => incoming'.state = "confirmed",
              approver' = "executing" =>
                incoming'.token # NoReview /\ incoming'.state \notin {"none", "awaiting_owner"},
              incoming'.state = "confirmed" =>
                /\ incoming'.token = incoming.token
                /\ \/ incoming.state = "confirmed"
                   \/ incoming.token # NoReview /\ sequence = incoming.token.sequence /\ Erase!Complete(job)
       PROVE  ErasureInv'
  <2>1. ASSUME incoming'.state = "confirmed"
        PROVE  /\ incoming'.token # NoReview /\ sequence' >= incoming'.token.sequence
               /\ sequence' = incoming'.token.sequence => Erase!Complete(job)'
    BY <1>0, <1>1, <1>3, <1>t, <1>10, <2>1 DEF AnswersHold
  <2>2. AnswersHold'
    BY <1>0, <1>10, <2>1 DEF AnswersHold
  <2> QED BY <1>2, <1>4, <1>t, <1>10, <2>2 DEF ErasureInv
<1>11. CASE Erase!PreviewRequest
  <2>1. /\ incoming.state = "awaiting_owner" /\ incoming' = [incoming EXCEPT !.token = Erase!Plan]
        /\ UNCHANGED <<request, reply, epoch, approver>>
    BY <1>11 DEF Erase!PreviewRequest
  <2>2. Erase!Plan \in Plans
    BY <1>0, PlanIsReviewed
  <2>3. incoming' \in Requests /\ incoming'.state = "awaiting_owner"
    BY <1>t, <2>1, <2>2 DEF Requests
  <2>4. approver # "executing"
    BY <1>0, <2>1 DEF AnswersHold
  <2> QED BY <1>10, <2>1, <2>3, <2>4
<1>12. CASE Erase!Decide
  <2>1. /\ incoming.state # "confirmed" /\ incoming.token # NoReview
        /\ incoming' = [incoming EXCEPT !.state = "approved"]
        /\ UNCHANGED <<request, reply, epoch>>
    BY <1>12 DEF Erase!Decide
  <2>2. incoming' \in Requests /\ incoming'.state = "approved" /\ incoming'.token = incoming.token
    BY <1>m, <2>1
  <2> QED BY <1>10, <2>1, <2>2
<1>13. CASE Erase!Reject
  <2>1. /\ incoming.state # "confirmed" /\ incoming' = [incoming EXCEPT !.state = "rejected"]
        /\ UNCHANGED <<request, reply, epoch, approver>>
    BY <1>13 DEF Erase!Reject
  <2>2. incoming' \in Requests /\ incoming'.state = "rejected" /\ incoming'.token = incoming.token
    BY <1>m, <2>1
  <2>3. approver' = "executing" => incoming'.token # NoReview
    BY <1>0, <2>1, <2>2 DEF AnswersHold
  <2> QED BY <1>10, <2>1, <2>2, <2>3
<1>14. CASE Erase!Finish
  <2>1. approver = "executing" /\ approver' = "idle" /\ UNCHANGED <<request, reply, epoch>>
    BY <1>14 DEF Erase!Finish
  <2>2. incoming.token # NoReview
    BY <1>0, <2>1 DEF AnswersHold
  <2>3. CASE UNCHANGED incoming
    BY <1>10, <1>t, <2>1, <2>3
  <2>4. CASE incoming.state # "confirmed" /\ incoming' = [incoming EXCEPT !.state = "partial"]
    <3>1. incoming' \in Requests /\ incoming'.state = "partial"
      BY <1>m, <2>4
    <3> QED BY <1>10, <2>1, <2>4, <3>1
  <2>5. CASE Erase!Executed /\ incoming' = [incoming EXCEPT !.state = "confirmed"]
    <3>1. incoming' \in Requests /\ incoming'.state = "confirmed" /\ incoming'.token = incoming.token
      BY <1>m, <2>5
    <3>2. job # NoJob /\ job.plan.sequence = incoming.token.sequence /\ Erase!Complete(job)
      BY <2>5 DEF Erase!Executed, Erase!Ours
    <3>3. sequence = incoming.token.sequence
      BY <1>0, <3>2 DEF CleanupHolds
    <3> QED BY <1>10, <2>1, <2>2, <3>1, <3>2, <3>3
  <2> QED BY <1>14, <2>3, <2>4, <2>5 DEF Erase!Finish, Erase!Final
<1> QED BY <1>6, <1>7, <1>8, <1>9, <1>11, <1>12, <1>13, <1>14

\* What the invariant says of the properties.
LEMMA ErasedAndConfirmed ==
  ASSUME ErasureInv PROVE Erase!ErasureSound /\ Erase!ConfirmedIsErased
<1>0. ErasureTypes /\ CopiesHold /\ CleanupHolds /\ LeftToErase /\ AnswersHold
  BY DEF ErasureInv
<1>1. ASSUME Erase!Complete(job)
      PROVE  job.plan.items \cap (source \cup replica \cup files \cup derived) = {}
  <2>1. job # NoJob /\ job.done = Length /\ job.done \in Nat /\ job.committed \in BOOLEAN /\ Erase!Ended(job)
    BY <1>1, CleanupEnds
  <2>2. job.committed = TRUE /\ job.plan.items \subseteq barrier
    BY <1>0, <2>1 DEF CleanupHolds, Length
  <2>3. (replica \cup files) \cap barrier = {} /\ source \cap barrier = {}
    BY <1>0, <2>1, CleanupEnds DEF CopiesHold
  <2>4. derived \cap barrier = {}
    <3>1. CASE category \in Erase!Journalled
      BY <1>0, <2>1, <2>2, <3>1 DEF LeftToErase, Underway, Length
    <3>2. CASE category \notin Erase!Journalled
      BY <1>0, <3>2 DEF CopiesHold
    <3> QED BY <3>1, <3>2
  <2> QED BY <2>2, <2>3, <2>4
<1>2. ASSUME job # NoJob, job.cancelled PROVE job.plan.items \cap barrier = {}
  <2>1. job.committed = FALSE
    BY <1>0, <1>2, CleanupEnds DEF CleanupHolds
  <2> QED BY <1>0, <1>2, <2>1 DEF CleanupHolds
<1>3. Erase!ErasureSound
  BY <1>0, <1>1, <1>2 DEF Erase!ErasureSound, Erase!CompleteIsErased, Erase!OnlyReviewedErased, CopiesHold
<1>4. Erase!ConfirmedIsErased
  BY <1>0 DEF Erase!ConfirmedIsErased, AnswersHold
<1> QED BY <1>3, <1>4

(* Only what the owner reviewed is erased, a complete cleanup is erased        *)
(* everywhere, and the other device is told "confirmed" only for an approved   *)
(* and complete one, for any records, categories, stops, resumptions, lost     *)
(* answers and changes of policy (device_erasure/service.py, adapters.py).     *)
THEOREM ErasureIsSound == Spec => []ErasureSound
<1> DEFINE Inv == component = "erasure" => ErasureInv
<1>1. Init => Inv
  BY ErasureStarts DEF Init
<1>2. Inv /\ [Next]_vars => Inv'
  <2> SUFFICES ASSUME Inv, [Next]_vars PROVE Inv'
    OBVIOUS
  <2>1. CASE UNCHANGED <<component, erasureState>>
    <3>1. ErasureInv => ErasureInv'
      BY <2>1 DEF erasureState, ErasureInv, ErasureTypes, CopiesHold, CleanupHolds, LeftToErase, AnswersHold,
                  Underway, Length, FilesStep, Erase!Journalled, Erase!Complete, Erase!Phases
    <3> QED BY <2>1, <3>1
  <2>2. CASE ErasureStep
    <3>1. component = "erasure" /\ component' = component /\ Erase!Next
      BY <2>2 DEF ErasureStep
    <3>2. CASE Erase!Preview
      <4>1. UNCHANGED <<category, source, replica, files, derived, version, barrier, created, sequence,
                        approved, job, incoming, request, reply, epoch, approver>>
        BY <3>2 DEF Erase!Preview, Erase!AskPreview, Erase!ReadingPreview, Erase!LibraryPreview,
                    Erase!FeedPreview, Erase!CardsPreview, Erase!OfflinePreview, Erase!Show, Erase!copyVars,
                    Erase!deviceVars
      <4> QED BY <3>1, <4>1 DEF ErasureInv, ErasureTypes, CopiesHold, CleanupHolds, LeftToErase, AnswersHold,
                  Underway, Length, FilesStep, Erase!Journalled, Erase!Complete, Erase!Phases
    <3>3. CASE Erase!LocalBegin \/ Erase!Execute
      BY <3>1, <3>3, BeginKeepsErasure DEF Erase!LocalBegin, Erase!Execute
    <3> QED BY <3>1, <3>2, <3>3, UseKeepsErasure, StepsKeepErasure, DeviceKeepsErasure
            DEF Erase!Next, Erase!Cleanup, Erase!Device
  <2> QED BY <2>1, <2>2 DEF Next, SyncStep, PairingStep, OfflineStep, SpaceStep, OldSpaceStep,
                            SupervisorStep, UpdateStep, vars
<1>3. Inv => ErasureSound
  BY ErasedAndConfirmed DEF ErasureSound
<1> QED BY <1>1, <1>2, <1>3, PTL DEF Spec

----------------------------------------------------------------------------
(* The copy kept for offline reading.                                      *)

Copies == [Images -> {"pending", "verified", "missing"}]
Downloads == 1 .. MaxDownloads
OfflineRows == [state : {"none", "queued", "downloading", "verifying", "cancel_requested", "cancelled", "failed",
                         "partial", "ready", "cleared"},
                job : 0 .. MaxDownloads, token : Nat, current : 0 .. MaxDownloads, partial : BOOLEAN]
Downloader == [stage : {"idle", "prepare", "images", "fetching", "reread", "commit"}, job : 0 .. MaxDownloads,
               token : Nat, copy : Copies \cup {NoBundle}, left : SUBSET Images, image : SUBSET Images]

OfflineTypes ==
  /\ jobs \in Nat /\ tokens \in Nat
  /\ offlineRow \in OfflineRows /\ offlineRow.job <= jobs /\ offlineRow.current <= jobs
  /\ bundles \in [Downloads -> Copies \cup {NoBundle}]
  /\ worker \in [Downloaders -> Downloader]
  /\ plan \subseteq Downloads /\ \A j \in plan : j <= jobs

Works(w) == worker[w].stage # "idle"
Holds(w) == Works(w) /\ offlineRow.job = worker[w].job /\ offlineRow.token = worker[w].token

\* No two workers have the same claim, and what they hold was given out.
ClaimsDiffer ==
  /\ \A w \in Downloaders : Works(w) => worker[w].job # 0 /\ worker[w].token \in 1 .. tokens
  /\ \A w \in Downloaders : worker[w].stage \in {"images", "fetching"} => worker[w].copy \in Copies
  /\ \A v, w \in Downloaders : Works(v) /\ Works(w) /\ worker[v].token = worker[w].token => v = w

\* A download that waits has no claimant, and the record of one that has shows how far it is.
ClaimShows ==
  /\ offlineRow.state = "queued" => offlineRow.token = 0
  /\ offlineRow.state \in Offline!Active => offlineRow.job # 0
  /\ \A w \in Downloaders : Holds(w) =>
       /\ offlineRow.state \in {"downloading", "verifying", "cancel_requested"}
       /\ worker[w].stage \in {"reread", "commit"} => offlineRow.state \in {"verifying", "cancel_requested"}
       /\ worker[w].stage = "commit" => /\ bundles[worker[w].job] # NoBundle
                                        /\ worker[w].copy = bundles[worker[w].job]

\* The download under way is newer than the copy that is shown, and neither is to be unlinked.
CopyStays ==
  /\ offlineRow.job # 0 => offlineRow.job > offlineRow.current
  /\ offlineRow.job \notin plan /\ offlineRow.current \notin plan
  /\ Offline!CopyIsWhole

OfflineInv == OfflineTypes /\ ClaimsDiffer /\ ClaimShows /\ CopyStays

LEMMA OfflineStarts == ASSUME Offline!Init PROVE OfflineInv
<1>1. /\ offlineRow = [state |-> "none", job |-> 0, token |-> 0, current |-> 0, partial |-> FALSE]
      /\ jobs = 0 /\ tokens = 0 /\ bundles = [j \in Downloads |-> NoBundle]
      /\ worker = [w \in Downloaders |-> Offline!Idle] /\ plan = {}
  BY DEF Offline!Init, Offline!Jobs, Downloads
<1>2. Offline!Idle \in Downloader /\ Offline!Idle.stage = "idle"
  BY DownloadsAssumption DEF Offline!Idle, Downloader
<1>3. offlineRow \in OfflineRows
  BY <1>1, DownloadsAssumption DEF OfflineRows
<1>4. OfflineTypes
  BY <1>1, <1>2, <1>3 DEF OfflineTypes
<1>5. ClaimsDiffer /\ ClaimShows
  BY <1>1, <1>2 DEF ClaimsDiffer, ClaimShows, Works, Holds, Offline!Active
<1>6. CopyStays
  BY <1>1 DEF CopyStays, Offline!CopyIsWhole
<1> QED BY <1>4, <1>5, <1>6 DEF OfflineInv

\* What the owner, the collector and a start of the node do.
LEMMA OwnerKeepsCopy ==
  ASSUME OfflineInv,
         \/ Offline!Retry \/ Offline!Cancel \/ Offline!Clear \/ Offline!Collect \/ Offline!Restart
         \/ \E update \in BOOLEAN : Offline!Request(update)
         \/ \E j \in Offline!Jobs : Offline!Unlink(j)
         \/ \E w \in Downloaders : Offline!Reinstall(w)
  PROVE  OfflineInv' /\ Offline!CopiesAdvance
<1>0. /\ OfflineTypes /\ ClaimsDiffer /\ ClaimShows /\ CopyStays
      /\ jobs \in Nat /\ tokens \in Nat /\ offlineRow \in OfflineRows
      /\ bundles \in [Downloads -> Copies \cup {NoBundle}] /\ worker \in [Downloaders -> Downloader]
  BY DEF OfflineInv, OfflineTypes
<1>1. CASE Offline!Request(TRUE) \/ Offline!Request(FALSE)
  <2>1. /\ offlineRow.state \notin Offline!Active /\ jobs < MaxDownloads /\ jobs' = jobs + 1
        /\ offlineRow' = [offlineRow EXCEPT !.state = "queued", !.job = jobs + 1, !.token = 0]
        /\ UNCHANGED <<tokens, bundles, worker, plan>>
    BY <1>1 DEF Offline!Request, Offline!fileVars
  <2>2. /\ offlineRow' \in OfflineRows /\ offlineRow'.job = jobs + 1 /\ offlineRow'.token = 0
        /\ offlineRow'.state = "queued" /\ offlineRow'.current = offlineRow.current
        /\ offlineRow'.partial = offlineRow.partial
    <3>1. offlineRow' = [state |-> "queued", job |-> jobs + 1, token |-> 0, current |-> offlineRow.current,
                         partial |-> offlineRow.partial]
      BY <1>0, <2>1 DEF OfflineRows
    <3>2. jobs + 1 \in 0 .. MaxDownloads
      BY <1>0, <2>1, DownloadsAssumption
    <3> QED BY <1>0, <3>1, <3>2 DEF OfflineRows
  <2>3. OfflineTypes' /\ ClaimsDiffer'
    BY <1>0, <2>1, <2>2, DownloadsAssumption DEF OfflineTypes, ClaimsDiffer, Works, OfflineRows, Downloads
  <2>4. ClaimShows'
    BY <1>0, <2>1, <2>2 DEF ClaimShows, ClaimsDiffer, Works, Holds, Offline!Active
  <2>5. CopyStays'
    BY <1>0, <2>1, <2>2 DEF CopyStays, Offline!CopyIsWhole, OfflineTypes, OfflineRows, Offline!Partial
  <2>6. Offline!CopiesAdvance
    BY <1>0, <2>2 DEF Offline!CopiesAdvance, OfflineRows
  <2> QED BY <2>3, <2>4, <2>5, <2>6 DEF OfflineInv
<1>2. CASE Offline!Retry
  <2>1. /\ offlineRow.job # 0 /\ offlineRow' = [offlineRow EXCEPT !.state = "queued", !.token = 0]
        /\ UNCHANGED <<jobs, tokens, bundles, worker, plan>>
    BY <1>2 DEF Offline!Retry, Offline!fileVars
  <2>2. /\ offlineRow' \in OfflineRows /\ offlineRow'.token = 0 /\ offlineRow'.state = "queued"
        /\ offlineRow'.job = offlineRow.job /\ offlineRow'.current = offlineRow.current
        /\ offlineRow'.partial = offlineRow.partial
    BY <1>0, <2>1 DEF OfflineRows
  <2>3. OfflineTypes' /\ ClaimsDiffer'
    BY <1>0, <2>1, <2>2 DEF OfflineTypes, ClaimsDiffer, Works
  <2>4. ClaimShows'
    BY <1>0, <2>1, <2>2 DEF ClaimShows, ClaimsDiffer, Works, Holds, Offline!Active
  <2>5. CopyStays'
    BY <1>0, <2>1, <2>2 DEF CopyStays, Offline!CopyIsWhole, Offline!Partial
  <2>6. Offline!CopiesAdvance
    BY <1>0, <2>2 DEF Offline!CopiesAdvance, OfflineRows
  <2> QED BY <2>3, <2>4, <2>5, <2>6 DEF OfflineInv
<1>3. CASE Offline!Cancel
  <2>1. /\ offlineRow.state \in Offline!Active /\ UNCHANGED <<jobs, tokens, bundles, worker, plan>>
        /\ offlineRow' = [offlineRow EXCEPT !.state = IF @ = "queued" THEN "cancelled" ELSE "cancel_requested"]
    BY <1>3 DEF Offline!Cancel, Offline!fileVars
  <2>2. /\ offlineRow' \in OfflineRows /\ offlineRow'.token = offlineRow.token
        /\ offlineRow'.state = (IF offlineRow.state = "queued" THEN "cancelled" ELSE "cancel_requested")
        /\ offlineRow'.job = offlineRow.job /\ offlineRow'.current = offlineRow.current
        /\ offlineRow'.partial = offlineRow.partial
    BY <1>0, <2>1 DEF OfflineRows
  <2>3. OfflineTypes' /\ ClaimsDiffer'
    BY <1>0, <2>1, <2>2 DEF OfflineTypes, ClaimsDiffer, Works
  <2>4. ClaimShows'
    BY <1>0, <2>1, <2>2 DEF ClaimShows, ClaimsDiffer, Works, Holds, Offline!Active
  <2>5. CopyStays'
    BY <1>0, <2>1, <2>2 DEF CopyStays, Offline!CopyIsWhole, Offline!Partial
  <2>6. Offline!CopiesAdvance
    BY <1>0, <2>2 DEF Offline!CopiesAdvance, OfflineRows
  <2> QED BY <2>3, <2>4, <2>5, <2>6 DEF OfflineInv
<1>4. CASE Offline!Clear
  <2>1. /\ plan' = {j \in {offlineRow.current, offlineRow.job} \ {0} : bundles[j] # NoBundle}
        /\ offlineRow' = [offlineRow EXCEPT !.state = "cleared", !.job = 0, !.token = 0, !.current = 0,
                                            !.partial = FALSE]
        /\ UNCHANGED <<jobs, tokens, bundles, worker>>
    BY <1>4 DEF Offline!Clear
  <2>2. /\ offlineRow' \in OfflineRows /\ offlineRow'.token = 0 /\ offlineRow'.state = "cleared"
        /\ offlineRow'.job = 0 /\ offlineRow'.current = 0
    <3>1. offlineRow' = [state |-> "cleared", job |-> 0, token |-> 0, current |-> 0, partial |-> FALSE]
      BY <1>0, <2>1 DEF OfflineRows
    <3> QED BY <3>1, DownloadsAssumption DEF OfflineRows
  <2>3. plan' \subseteq Downloads /\ \A j \in plan' : j <= jobs
    BY <1>0, <2>1, DownloadsAssumption DEF OfflineTypes, OfflineRows, Downloads
  <2>4. OfflineTypes' /\ ClaimsDiffer'
    BY <1>0, <2>1, <2>2, <2>3 DEF OfflineTypes, ClaimsDiffer, Works
  <2>5. ClaimShows'
    BY <1>0, <2>1, <2>2 DEF ClaimShows, ClaimsDiffer, Works, Holds, Offline!Active
  <2>6. CopyStays'
    BY <2>2, <2>3 DEF CopyStays, Offline!CopyIsWhole, Downloads
  <2>7. Offline!CopiesAdvance
    BY <1>0, <2>2 DEF Offline!CopiesAdvance, OfflineRows
  <2> QED BY <2>4, <2>5, <2>6, <2>7 DEF OfflineInv
<1>5. ASSUME NEW gone \in SUBSET Downloads, gone \cap {offlineRow.current, offlineRow.job} = {},
             bundles' = [j \in Downloads |-> IF j \in gone THEN NoBundle ELSE bundles[j]],
             plan' \subseteq plan, UNCHANGED <<jobs, tokens, offlineRow, worker>>
      PROVE  OfflineInv' /\ Offline!CopiesAdvance
  <2>1. OfflineTypes' /\ ClaimsDiffer'
    BY <1>0, <1>5 DEF OfflineTypes, ClaimsDiffer, Works
  <2>2. \A j \in {offlineRow.current, offlineRow.job} \ {0} : j \in Downloads /\ bundles'[j] = bundles[j]
    BY <1>0, <1>5, DownloadsAssumption DEF OfflineRows, Downloads
  <2>3. ClaimShows'
    BY <1>0, <1>5, <2>2 DEF ClaimShows, ClaimsDiffer, Works, Holds, Offline!Active
  <2>4. CopyStays'
    BY <1>0, <1>5, <2>2 DEF CopyStays, Offline!CopyIsWhole, Offline!Partial
  <2>5. Offline!CopiesAdvance
    BY <1>0, <1>5 DEF Offline!CopiesAdvance, OfflineRows
  <2> QED BY <2>1, <2>3, <2>4, <2>5 DEF OfflineInv
<1>6. CASE Offline!Collect
  <2> DEFINE gone == Downloads \ Offline!Retained
  <2>1. /\ bundles' = [j \in Downloads |-> IF j \in gone THEN NoBundle ELSE bundles[j]]
        /\ UNCHANGED <<jobs, tokens, offlineRow, worker, plan>>
    BY <1>6 DEF Offline!Collect, Offline!Jobs, Downloads
  <2>2. gone \in SUBSET Downloads /\ gone \cap {offlineRow.current, offlineRow.job} = {}
    BY DEF Offline!Retained
  <2> HIDE DEF gone
  <2> QED BY <1>5, <2>1, <2>2
<1>7. ASSUME NEW j \in Offline!Jobs, Offline!Unlink(j) PROVE OfflineInv' /\ Offline!CopiesAdvance
  <2>1. /\ j \in plan /\ plan' = plan \ {j} /\ bundles' = [bundles EXCEPT ![j] = NoBundle]
        /\ UNCHANGED <<jobs, tokens, offlineRow, worker>>
    BY <1>7 DEF Offline!Unlink
  <2>2. bundles' = [i \in Downloads |-> IF i \in {j} THEN NoBundle ELSE bundles[i]]
    BY <1>0, <2>1
  <2>3. {j} \in SUBSET Downloads /\ {j} \cap {offlineRow.current, offlineRow.job} = {}
    BY <1>0, <2>1 DEF OfflineTypes, CopyStays
  <2> QED BY <1>5, <2>1, <2>2, <2>3
<1>8. /\ Offline!Recovered \in OfflineRows
      /\ Offline!Recovered.job = offlineRow.job /\ Offline!Recovered.current = offlineRow.current
      /\ Offline!Recovered.partial = offlineRow.partial
      /\ Offline!Recovered.state \in Offline!Active => offlineRow.state \in Offline!Active
      /\ Offline!Recovered.state = "queued" => Offline!Recovered.token = 0
      /\ Offline!Recovered.state # "failed" \/ offlineRow.state = "failed"
      /\ offlineRow.state \in {"downloading", "verifying", "cancel_requested"} => Offline!Recovered.token = 0
      /\ offlineRow.state \notin {"downloading", "verifying", "cancel_requested"} =>
           Offline!Recovered.token = offlineRow.token
  BY <1>0 DEF Offline!Recovered, OfflineRows, Offline!Active, ClaimShows
<1>9. CASE Offline!Restart \/ \E w \in Downloaders : Offline!Reinstall(w)
  <2>1. /\ offlineRow' = Offline!Recovered /\ UNCHANGED <<jobs, tokens, bundles, plan>>
        /\ worker' = [w \in Downloaders |-> Offline!Idle] \/ worker' = worker
    BY <1>9 DEF Offline!Restart, Offline!Reinstall
  <2>2. Offline!Idle \in Downloader /\ Offline!Idle.stage = "idle"
    BY DownloadsAssumption DEF Offline!Idle, Downloader
  <2>3. worker' \in [Downloaders -> Downloader]
    BY <1>0, <2>1, <2>2
  <2>4. OfflineTypes' /\ ClaimsDiffer'
    BY <1>0, <1>8, <2>1, <2>2, <2>3 DEF OfflineTypes, ClaimsDiffer, Works
  <2>5. ClaimShows'
    BY <1>0, <1>8, <2>1, <2>2 DEF ClaimShows, ClaimsDiffer, Works, Holds
  <2>6. CopyStays'
    BY <1>0, <1>8, <2>1 DEF CopyStays, Offline!CopyIsWhole, Offline!Partial
  <2>7. Offline!CopiesAdvance
    BY <1>0, <1>8, <2>1 DEF Offline!CopiesAdvance, OfflineRows
  <2> QED BY <2>4, <2>5, <2>6, <2>7 DEF OfflineInv
<1> QED BY <1>1, <1>2, <1>3, <1>4, <1>6, <1>7, <1>9

\* What a worker leaves alone.
LEMMA WorkerMoves ==
  ASSUME NEW w \in Downloaders, NEW r \in Downloader, worker \in [Downloaders -> Downloader],
         worker' = [worker EXCEPT ![w] = r]
  PROVE  /\ worker' \in [Downloaders -> Downloader] /\ worker'[w] = r
         /\ \A v \in Downloaders : v # w => worker'[v] = worker[v]
OBVIOUS

\* A step of a worker that holds its claim and goes on with it; only its own bundle changes.
LEMMA ClaimGoesOn ==
  ASSUME OfflineInv, NEW w \in Downloaders, Holds(w), NEW r \in Downloader,
         worker' = [worker EXCEPT ![w] = r],
         r.stage # "idle", r.job = worker[w].job, r.token = worker[w].token,
         r.stage \in {"images", "fetching"} => r.copy \in Copies,
         NEW b \in Copies \cup {NoBundle}, bundles' = [bundles EXCEPT ![worker[w].job] = b],
         r.stage = "commit" => b # NoBundle /\ r.copy = b,
         NEW s \in {"downloading", "verifying", "cancel_requested"},
         offlineRow' = [offlineRow EXCEPT !.state = s],
         r.stage \in {"reread", "commit"} => s \in {"verifying", "cancel_requested"},
         UNCHANGED <<jobs, tokens, plan>>
  PROVE  OfflineInv' /\ Offline!CopiesAdvance
<1>0. /\ OfflineTypes /\ ClaimsDiffer /\ ClaimShows /\ CopyStays
      /\ jobs \in Nat /\ tokens \in Nat /\ offlineRow \in OfflineRows
      /\ bundles \in [Downloads -> Copies \cup {NoBundle}] /\ worker \in [Downloaders -> Downloader]
  BY DEF OfflineInv, OfflineTypes
<1>1. /\ worker' \in [Downloaders -> Downloader] /\ worker'[w] = r
      /\ \A v \in Downloaders : v # w => worker'[v] = worker[v]
  BY <1>0, WorkerMoves
<1>2. /\ offlineRow' \in OfflineRows /\ offlineRow'.state = s /\ offlineRow'.token = offlineRow.token
      /\ offlineRow'.job = offlineRow.job /\ offlineRow'.current = offlineRow.current
      /\ offlineRow'.partial = offlineRow.partial
  BY <1>0 DEF OfflineRows
<1>3. /\ worker[w].job \in Downloads /\ worker[w].job = offlineRow.job /\ offlineRow.job > offlineRow.current
      /\ offlineRow.token = worker[w].token /\ worker[w].token # 0
  BY <1>0, DownloadsAssumption DEF Holds, ClaimsDiffer, CopyStays, Downloader, Downloads
<1>4. /\ bundles' \in [Downloads -> Copies \cup {NoBundle}] /\ bundles'[offlineRow.job] = b
      /\ \A j \in Downloads : j # offlineRow.job => bundles'[j] = bundles[j]
  BY <1>0, <1>3
<1>5. \A v \in Downloaders : v # w => ~ Holds(v)
  BY <1>0 DEF Holds, ClaimsDiffer
<1>6. OfflineTypes' /\ ClaimsDiffer'
  <2>1. OfflineTypes'
    BY <1>0, <1>1, <1>2, <1>4 DEF OfflineTypes
  <2>2. ClaimsDiffer'
    BY <1>0, <1>1 DEF ClaimsDiffer, Works, Holds
  <2> QED BY <2>1, <2>2
<1>7. ClaimShows'
  <2>1. \A v \in Downloaders : v # w => ~ Holds(v)'
    BY <1>1, <1>2, <1>5 DEF Holds, Works
  <2>2. /\ worker'[w].stage \in {"reread", "commit"} => offlineRow'.state \in {"verifying", "cancel_requested"}
        /\ worker'[w].stage = "commit" => /\ bundles'[worker'[w].job] # NoBundle
                                          /\ worker'[w].copy = bundles'[worker'[w].job]
    BY <1>1, <1>2, <1>3, <1>4
  <2>3. offlineRow'.state # "queued" /\ offlineRow'.job # 0
    BY <1>2, <1>3, DownloadsAssumption DEF Downloads
  <2> QED BY <1>2, <2>1, <2>2, <2>3 DEF ClaimShows
<1>8. CopyStays'
  <2>1. offlineRow.current # 0 => offlineRow.current \in Downloads
    BY <1>0, DownloadsAssumption DEF OfflineRows, Downloads
  <2>2. offlineRow.current # offlineRow.job
    BY <1>0, <1>3 DEF OfflineRows
  <2> QED BY <1>0, <1>2, <1>4, <2>1, <2>2 DEF CopyStays, Offline!CopyIsWhole, Offline!Partial
<1>9. Offline!CopiesAdvance
  BY <1>0, <1>2 DEF Offline!CopiesAdvance, OfflineRows
<1> QED BY <1>6, <1>7, <1>8, <1>9 DEF OfflineInv

\* A step of a worker that touches nothing but what it has in hand.
LEMMA WorkerAlone ==
  ASSUME OfflineInv, NEW w \in Downloaders, ~ Holds(w), NEW r \in Downloader,
         worker' = [worker EXCEPT ![w] = r],
         r.stage # "idle" => /\ Works(w) /\ r.job = worker[w].job /\ r.token = worker[w].token
                             /\ r.stage \notin {"images", "fetching"},
         UNCHANGED <<jobs, tokens, bundles, plan, offlineRow>>
  PROVE  OfflineInv' /\ Offline!CopiesAdvance
<1>0. /\ OfflineTypes /\ ClaimsDiffer /\ ClaimShows /\ CopyStays
      /\ offlineRow \in OfflineRows /\ worker \in [Downloaders -> Downloader]
  BY DEF OfflineInv, OfflineTypes
<1>1. /\ worker' \in [Downloaders -> Downloader] /\ worker'[w] = r
      /\ \A v \in Downloaders : v # w => worker'[v] = worker[v]
  BY <1>0, WorkerMoves
<1>2. OfflineTypes' /\ ClaimsDiffer'
  BY <1>0, <1>1 DEF OfflineTypes, ClaimsDiffer, Works
<1>3. ClaimShows'
  <2>1. ~ Holds(w)'
    BY <1>1 DEF Holds, Works
  <2>2. \A v \in Downloaders : Holds(v)' => v # w /\ Holds(v)
    BY <1>1, <2>1 DEF Holds, Works
  <2> QED BY <1>0, <1>1, <2>2 DEF ClaimShows
<1>4. CopyStays' /\ Offline!CopiesAdvance
  BY <1>0 DEF CopyStays, Offline!CopyIsWhole, Offline!Partial, Offline!CopiesAdvance, OfflineRows
<1> QED BY <1>2, <1>3, <1>4 DEF OfflineInv

\* What a worker does.
LEMMA WorkerKeepsCopy ==
  ASSUME OfflineInv, NEW w \in Downloaders,
         \/ Offline!Claim(w) \/ Offline!Resume(w) \/ Offline!Prepare(w) \/ Offline!Verify(w)
         \/ Offline!Reread(w) \/ Offline!Commit(w) \/ Offline!Fail(w)
         \/ \E g \in Images : Offline!StartFetch(w, g)
         \/ \E outcome \in {"verified", "missing"} : Offline!Fetched(w, outcome)
  PROVE  OfflineInv' /\ Offline!CopiesAdvance
<1>0. /\ OfflineTypes /\ ClaimsDiffer /\ ClaimShows /\ CopyStays
      /\ jobs \in Nat /\ tokens \in Nat /\ offlineRow \in OfflineRows
      /\ bundles \in [Downloads -> Copies \cup {NoBundle}] /\ worker \in [Downloaders -> Downloader]
      /\ worker[w] \in Downloader
  BY DEF OfflineInv, OfflineTypes
<1>1. Offline!Idle \in Downloader /\ Offline!Idle.stage = "idle"
  BY DownloadsAssumption DEF Offline!Idle, Downloader
<1>2. Works(w) => worker[w].job \in Downloads
  BY <1>0, DownloadsAssumption DEF ClaimsDiffer, Downloader, Downloads
<1>3. \A j \in Downloads : bundles = [bundles EXCEPT ![j] = bundles[j]] /\ bundles[j] \in Copies \cup {NoBundle}
  BY <1>0
<1>4. offlineRow = [offlineRow EXCEPT !.state = offlineRow.state]
  BY <1>0 DEF OfflineRows
<1>5. Works(w) /\ Offline!Check(w) => Holds(w) /\ offlineRow.state \in {"downloading", "verifying"}
  BY <1>0 DEF Offline!Check, Holds, ClaimShows
<1>6. CASE Offline!Resume(w) \/ Offline!Prepare(w)
  <2>1. /\ worker[w].stage = "prepare" /\ Offline!Check(w) /\ UNCHANGED <<jobs, tokens, plan, offlineRow>>
    BY <1>6 DEF Offline!Resume, Offline!Prepare, Offline!At, Offline!ownerVars
  <2>2. Holds(w) /\ worker[w].job \in Downloads /\ offlineRow.state \in {"downloading", "verifying"}
    BY <1>2, <1>5, <2>1 DEF Works
  <2>3. Offline!Fresh \in Copies
    BY DEF Offline!Fresh, Copies
  <2>4. \E c \in Copies : /\ Offline!Loaded(w, c) /\ bundles' = [bundles EXCEPT ![worker[w].job] = c]
    <3>1. CASE Offline!Resume(w)
      BY <1>3, <2>2, <3>1 DEF Offline!Resume
    <3>2. CASE Offline!Prepare(w)
      BY <2>3, <3>2 DEF Offline!Prepare
    <3> QED BY <1>6, <3>1, <3>2
  <2>5. PICK c \in Copies : /\ Offline!Loaded(w, c) /\ bundles' = [bundles EXCEPT ![worker[w].job] = c]
    BY <2>4
  <2> DEFINE r == [worker[w] EXCEPT !.stage = "images", !.copy = c, !.left = {g \in Images : c[g] # "verified"}]
  <2>6. worker' = [worker EXCEPT ![w] = r]
    BY <1>0, <2>5 DEF Offline!Loaded
  <2>7. r \in Downloader /\ r.stage = "images" /\ r.copy = c /\ r.job = worker[w].job /\ r.token = worker[w].token
    BY <1>0 DEF Downloader
  <2> HIDE DEF r
  <2> QED BY <1>4, <2>1, <2>2, <2>5, <2>6, <2>7, ClaimGoesOn
<1>7. ASSUME NEW g \in Images, Offline!StartFetch(w, g) PROVE OfflineInv' /\ Offline!CopiesAdvance
  <2>1. /\ worker[w].stage = "images" /\ Offline!Check(w) /\ UNCHANGED <<jobs, tokens, plan, offlineRow, bundles>>
        /\ worker' = [worker EXCEPT ![w].stage = "fetching", ![w].image = {g}]
    BY <1>7 DEF Offline!StartFetch, Offline!At, Offline!ownerVars
  <2>2. /\ Holds(w) /\ worker[w].job \in Downloads /\ offlineRow.state \in {"downloading", "verifying"}
        /\ worker[w].copy \in Copies
    BY <1>0, <1>2, <1>5, <2>1 DEF Works, ClaimsDiffer
  <2> DEFINE r == [worker[w] EXCEPT !.stage = "fetching", !.image = {g}]
  <2>3. worker' = [worker EXCEPT ![w] = r]
    BY <1>0, <2>1
  <2>4. /\ r \in Downloader /\ r.stage = "fetching" /\ r.copy = worker[w].copy
        /\ r.job = worker[w].job /\ r.token = worker[w].token
    BY <1>0 DEF Downloader
  <2> HIDE DEF r
  <2> QED BY <1>3, <1>4, <2>1, <2>2, <2>3, <2>4, ClaimGoesOn
<1>8. ASSUME NEW outcome \in {"verified", "missing"}, Offline!Fetched(w, outcome)
      PROVE  OfflineInv' /\ Offline!CopiesAdvance
  <2> DEFINE c == [g \in Images |-> IF g \in worker[w].image THEN outcome ELSE worker[w].copy[g]]
  <2>1. /\ worker[w].stage = "fetching" /\ Offline!Check(w) /\ UNCHANGED <<jobs, tokens, plan, offlineRow>>
        /\ worker' = [worker EXCEPT ![w].stage = "images", ![w].copy = c, ![w].image = {},
                                    ![w].left = @ \ worker[w].image]
        /\ bundles' = [bundles EXCEPT ![worker[w].job] = c]
    BY <1>8 DEF Offline!Fetched, Offline!At, Offline!ownerVars
  <2>2. /\ Holds(w) /\ worker[w].job \in Downloads /\ offlineRow.state \in {"downloading", "verifying"}
        /\ worker[w].copy \in Copies
    BY <1>0, <1>2, <1>5, <2>1 DEF Works, ClaimsDiffer
  <2>3. c \in Copies
    BY <2>2 DEF Copies
  <2> HIDE DEF c
  <2> DEFINE r == [worker[w] EXCEPT !.stage = "images", !.copy = c, !.image = {},
                                    !.left = worker[w].left \ worker[w].image]
  <2>4. worker' = [worker EXCEPT ![w] = r]
    BY <1>0, <2>1
  <2>5. /\ r \in Downloader /\ r.stage = "images" /\ r.copy = c
        /\ r.job = worker[w].job /\ r.token = worker[w].token
    BY <1>0, <2>3 DEF Downloader
  <2> HIDE DEF r
  <2> QED BY <1>4, <2>1, <2>2, <2>3, <2>4, <2>5, ClaimGoesOn
<1>9. CASE Offline!Verify(w)
  <2>1. /\ worker[w].stage = "images" /\ Offline!Check(w) /\ UNCHANGED <<jobs, tokens, plan, bundles>>
        /\ offlineRow' = [offlineRow EXCEPT !.state = "verifying"]
        /\ worker' = [worker EXCEPT ![w].stage = "reread"]
    BY <1>9 DEF Offline!Verify, Offline!At, Offline!ownerVars
  <2>2. Holds(w) /\ worker[w].job \in Downloads
    BY <1>2, <1>5, <2>1 DEF Works
  <2> DEFINE r == [worker[w] EXCEPT !.stage = "reread"]
  <2>3. worker' = [worker EXCEPT ![w] = r]
    BY <1>0, <2>1
  <2>4. r \in Downloader /\ r.stage = "reread" /\ r.job = worker[w].job /\ r.token = worker[w].token
    BY <1>0 DEF Downloader
  <2> HIDE DEF r
  <2> QED BY <1>3, <2>1, <2>2, <2>3, <2>4, ClaimGoesOn
<1>10. CASE Offline!Reread(w)
  <2>1. /\ worker[w].stage = "reread" /\ bundles[worker[w].job] # NoBundle
        /\ worker' = [worker EXCEPT ![w].stage = "commit", ![w].copy = bundles[worker[w].job]]
        /\ UNCHANGED <<jobs, tokens, plan, bundles, offlineRow>>
    BY <1>10 DEF Offline!Reread, Offline!At, Offline!ownerVars
  <2>2. worker[w].job \in Downloads
    BY <1>2, <2>1 DEF Works
  <2> DEFINE r == [worker[w] EXCEPT !.stage = "commit", !.copy = bundles[worker[w].job]]
  <2>3. worker' = [worker EXCEPT ![w] = r]
    BY <1>0, <2>1
  <2>4. /\ r \in Downloader /\ r.stage = "commit" /\ r.copy = bundles[worker[w].job]
        /\ r.job = worker[w].job /\ r.token = worker[w].token
    BY <1>0, <1>3, <2>2 DEF Downloader
  <2> HIDE DEF r
  <2>5. CASE Holds(w)
    <3>1. offlineRow.state \in {"verifying", "cancel_requested"}
      BY <1>0, <2>1, <2>5 DEF ClaimShows
    <3> QED BY <1>3, <1>4, <2>1, <2>2, <2>3, <2>4, <2>5, <3>1, ClaimGoesOn
  <2>6. CASE ~ Holds(w)
    BY <2>1, <2>3, <2>4, <2>6, WorkerAlone DEF Works
  <2> QED BY <2>5, <2>6
<1>11. CASE Offline!Claim(w)
  <2>1. /\ worker[w].stage = "idle" /\ offlineRow.state = "queued" /\ tokens' = tokens + 1
        /\ offlineRow' = [offlineRow EXCEPT !.state = "downloading", !.token = tokens + 1]
        /\ worker' = [worker EXCEPT ![w] = [Offline!Idle EXCEPT !.stage = "prepare", !.job = offlineRow.job,
                                                                !.token = tokens + 1]]
        /\ UNCHANGED <<jobs, plan, bundles>>
    BY <1>11 DEF Offline!Claim, Offline!At, Offline!ownerVars
  <2> DEFINE r == [Offline!Idle EXCEPT !.stage = "prepare", !.job = offlineRow.job, !.token = tokens + 1]
  <2>2. r \in Downloader /\ r.stage = "prepare" /\ r.job = offlineRow.job /\ r.token = tokens + 1
    <3>1. offlineRow.job \in 0 .. MaxDownloads /\ tokens + 1 \in Nat
      BY <1>0 DEF OfflineRows
    <3> QED BY <1>1, <3>1 DEF Downloader
  <2>3. worker' = [worker EXCEPT ![w] = r]
    BY <2>1
  <2> HIDE DEF r
  <2>4. /\ worker' \in [Downloaders -> Downloader] /\ worker'[w] = r
        /\ \A v \in Downloaders : v # w => worker'[v] = worker[v]
    BY <1>0, <2>2, <2>3, WorkerMoves
  <2>5. /\ offlineRow' \in OfflineRows /\ offlineRow'.state = "downloading" /\ offlineRow'.token = tokens + 1
        /\ offlineRow'.job = offlineRow.job /\ offlineRow'.current = offlineRow.current
        /\ offlineRow'.partial = offlineRow.partial /\ offlineRow.job # 0
    <3>1. offlineRow' = [state |-> "downloading", job |-> offlineRow.job, token |-> tokens + 1,
                         current |-> offlineRow.current, partial |-> offlineRow.partial]
      BY <1>0, <2>1 DEF OfflineRows
    <3>2. offlineRow.job # 0
      BY <1>0, <2>1 DEF ClaimShows, Offline!Active
    <3> QED BY <1>0, <3>1, <3>2 DEF OfflineRows
  <2>6. OfflineTypes'
    BY <1>0, <2>1, <2>4, <2>5 DEF OfflineTypes
  <2>7. ClaimsDiffer'
    <3>1. \A v \in Downloaders : Works(v)' => worker'[v].job # 0 /\ worker'[v].token \in 1 .. tokens'
      BY <1>0, <2>1, <2>2, <2>4, <2>5 DEF ClaimsDiffer, Works
    <3>2. \A v \in Downloaders : Works(v) => worker[v].token # tokens + 1
      BY <1>0 DEF ClaimsDiffer
    <3>3. \A u, v \in Downloaders : Works(u)' /\ Works(v)' /\ worker'[u].token = worker'[v].token => u = v
      BY <1>0, <2>2, <2>4, <3>2 DEF ClaimsDiffer, Works
    <3> QED BY <1>0, <2>2, <2>4, <3>1, <3>3 DEF ClaimsDiffer
  <2>8. ClaimShows'
    <3>1. \A v \in Downloaders : Holds(v)' => v = w
      BY <1>0, <2>2, <2>4, <2>5 DEF ClaimsDiffer, Holds, Works
    <3> QED BY <2>2, <2>4, <2>5, <3>1 DEF ClaimShows
  <2>9. CopyStays' /\ Offline!CopiesAdvance
    BY <1>0, <2>1, <2>5 DEF CopyStays, Offline!CopyIsWhole, Offline!Partial, Offline!CopiesAdvance, OfflineRows
  <2> QED BY <2>6, <2>7, <2>8, <2>9 DEF OfflineInv
<1>12. CASE Offline!Commit(w)
  <2> DEFINE p == Offline!Partial(worker[w].copy)
  <2>1. /\ worker[w].stage = "commit" /\ Offline!Check(w) /\ UNCHANGED <<jobs, tokens, plan, bundles>>
        /\ offlineRow' = [state |-> IF p THEN "partial" ELSE "ready", job |-> 0, token |-> 0,
                          current |-> worker[w].job, partial |-> p]
        /\ worker' = [worker EXCEPT ![w] = Offline!Idle]
    BY <1>12 DEF Offline!Commit, Offline!At, Offline!ownerVars
  <2>2. /\ Holds(w) /\ worker[w].job \in Downloads /\ worker[w].job = offlineRow.job
        /\ bundles[worker[w].job] # NoBundle /\ worker[w].copy = bundles[worker[w].job]
        /\ offlineRow.state = "verifying" /\ offlineRow.job > offlineRow.current
    BY <1>0, <1>2, <1>5, <2>1, DownloadsAssumption DEF Works, Holds, ClaimShows, CopyStays, Downloads
  <2>3. p \in BOOLEAN
    BY DEF Offline!Partial
  <2>4. (p <=> Offline!Partial(bundles[worker[w].job]))
    BY <2>2
  <2> HIDE DEF p
  <2>5. /\ worker' \in [Downloaders -> Downloader] /\ worker'[w] = Offline!Idle
        /\ \A v \in Downloaders : v # w => worker'[v] = worker[v]
    BY <1>0, <1>1, <2>1, WorkerMoves
  <2>6. /\ offlineRow' \in OfflineRows /\ offlineRow'.state \in {"partial", "ready"} /\ offlineRow'.token = 0
        /\ offlineRow'.job = 0 /\ offlineRow'.current = offlineRow.job /\ (offlineRow'.partial <=> p)
    BY <1>0, <2>1, <2>2, <2>3, DownloadsAssumption DEF OfflineRows, Downloads
  <2>7. OfflineTypes' /\ ClaimsDiffer'
    BY <1>0, <1>1, <2>1, <2>5, <2>6 DEF OfflineTypes, ClaimsDiffer, Works
  <2>8. ClaimShows'
    BY <1>0, <1>1, <2>1, <2>5, <2>6 DEF ClaimShows, ClaimsDiffer, Works, Holds, Offline!Active
  <2>9. CopyStays'
    <3>1. 0 \notin plan
      BY <1>0 DEF OfflineTypes, Downloads
    <3>2. bundles'[offlineRow'.current] # NoBundle /\ (offlineRow'.partial <=> Offline!Partial(bundles[offlineRow'.current]))
      BY <2>1, <2>2, <2>4, <2>6
    <3> QED BY <1>0, <2>1, <2>2, <2>6, <3>1, <3>2 DEF CopyStays, Offline!CopyIsWhole, Offline!Partial
  <2>10. Offline!CopiesAdvance
    BY <1>0, <2>2, <2>6 DEF Offline!CopiesAdvance, OfflineRows
  <2> QED BY <2>7, <2>8, <2>9, <2>10 DEF OfflineInv
<1>13. CASE Offline!Fail(w)
  <2>1. /\ Works(w) /\ worker' = [worker EXCEPT ![w] = Offline!Idle] /\ UNCHANGED <<jobs, tokens, plan, bundles>>
        /\ offlineRow' = IF Holds(w)
                         THEN [offlineRow EXCEPT !.state = IF @ = "cancel_requested" THEN "cancelled" ELSE "failed"]
                         ELSE offlineRow
    BY <1>13 DEF Offline!Fail, Offline!At, Offline!ownerVars, Works, Holds
  <2>2. CASE ~ Holds(w)
    BY <1>1, <2>1, <2>2, WorkerAlone
  <2>3. CASE Holds(w)
    <3>1. /\ worker' \in [Downloaders -> Downloader] /\ worker'[w] = Offline!Idle
          /\ \A v \in Downloaders : v # w => worker'[v] = worker[v]
      BY <1>0, <1>1, <2>1, WorkerMoves
    <3>2. /\ offlineRow' \in OfflineRows /\ offlineRow'.state \in {"cancelled", "failed"}
          /\ offlineRow'.token = offlineRow.token /\ offlineRow'.job = offlineRow.job
          /\ offlineRow'.current = offlineRow.current /\ offlineRow'.partial = offlineRow.partial
      BY <1>0, <2>1, <2>3 DEF OfflineRows
    <3>3. OfflineTypes' /\ ClaimsDiffer'
      BY <1>0, <1>1, <2>1, <3>1, <3>2 DEF OfflineTypes, ClaimsDiffer, Works
    <3>4. ClaimShows'
      <4>1. \A v \in Downloaders : ~ Holds(v)'
        BY <1>0, <1>1, <2>3, <3>1, <3>2 DEF ClaimsDiffer, Holds, Works
      <4> QED BY <3>2, <4>1 DEF ClaimShows, Offline!Active
    <3>5. CopyStays'
      BY <1>0, <2>1, <3>2 DEF CopyStays, Offline!CopyIsWhole, Offline!Partial
    <3>6. offlineRow.state # "queued"
      BY <1>0, <2>3 DEF ClaimShows
    <3>7. Offline!CopiesAdvance
      BY <1>0, <3>2, <3>6 DEF Offline!CopiesAdvance, OfflineRows
    <3> QED BY <3>3, <3>4, <3>5, <3>7 DEF OfflineInv
  <2> QED BY <2>2, <2>3
<1> QED BY <1>6, <1>7, <1>8, <1>9, <1>10, <1>11, <1>12, <1>13

(* The copy shown offline is on disk and what the record says of it, gives way *)
(* only to the verified copy of a later download or to the owner's clearing,   *)
(* and a cancelled or overtaken claim commits nothing, for any number of       *)
(* images, downloads, installations, restarts and collections                  *)
(* (offline_reading/service.py, store.py, fetch.py, cleanup.py).               *)
THEOREM OfflineCopyIsWhole == Spec => OfflineSound
<1> DEFINE Inv == component = "offline" => OfflineInv
<1>1. Init => Inv
  BY OfflineStarts DEF Init
<1>2. Inv /\ [Next]_vars => Inv' /\ [component = "offline" => Offline!CopyIsWhole' /\ Offline!CopiesAdvance]_offlineState
  <2> SUFFICES ASSUME Inv, [Next]_vars
               PROVE  Inv' /\ [component = "offline" => Offline!CopyIsWhole' /\ Offline!CopiesAdvance]_offlineState
    OBVIOUS
  <2>1. CASE UNCHANGED <<component, offlineState>>
    <3>1. OfflineInv => OfflineInv'
      BY <2>1 DEF offlineState, OfflineInv, OfflineTypes, ClaimsDiffer, ClaimShows, CopyStays, Works, Holds,
                  Offline!CopyIsWhole, Offline!Partial
    <3> QED BY <2>1, <3>1
  <2>2. CASE OfflineStep
    <3>1. component = "offline" /\ component' = component /\ Offline!Next
      BY <2>2 DEF OfflineStep
    <3>2. OfflineInv' /\ Offline!CopiesAdvance
      BY <3>1, OwnerKeepsCopy, WorkerKeepsCopy DEF Offline!Next
    <3> QED BY <3>1, <3>2 DEF OfflineInv, CopyStays
  <2> QED BY <2>1, <2>2 DEF Next, ErasureStep, SyncStep, PairingStep, SpaceStep, OldSpaceStep, SupervisorStep,
                            UpdateStep, vars
<1> QED BY <1>1, <1>2, PTL DEF Spec, OfflineSound

----------------------------------------------------------------------------
(* The records that devices keep in step.                                  *)

SyncHeads == [actor : Actors, counter : Nat, value : Values \cup {Deleted}]
SyncRecord == [clock : [Actors -> Nat], heads : SUBSET SyncHeads, erased : BOOLEAN]
Wires == [from : Actors, to : Actors, record : SyncRecord]
Writes == [dot : Actors \X Nat, clock : [Actors -> Nat]]

SyncTypes ==
  /\ record \in [Actors -> SyncRecord] /\ projected \in [Actors -> SyncRecord]
  /\ wires \subseteq Wires /\ replies \subseteq Wires /\ context \subseteq Writes
  /\ receipt \in [Actors -> [Actors -> SyncRecord \cup {NoReceipt}]]

\* The snapshots that may still be merged or written on.
Held == {record[d] : d \in Actors} \cup {projected[d] : d \in Actors} \cup {w.record : w \in wires}

\* A snapshot knows the writes its clock covers.
Has(r, c) == r.clock[c.dot[1]] >= c.dot[2]
Behind(r, s) == \A a \in Actors : r.clock[a] <= s.clock[a]

\* The values of a snapshot are those of the writes it has that no write it has observed.
Exact(r, C) ==
  ~ r.erased => \A c \in C : Has(r, c) =>
    (c.dot \in Sync!Dots(r) <=> ~ \E b \in C : Has(r, b) /\ Sync!Overwrote(b, c.dot))

\* A snapshot that has a write has what the write observed, and its values are of writes it has.
Causal(r, C) ==
  /\ \A c \in C : Has(r, c) => \A a \in Actors : c.clock[a] <= r.clock[a]
  /\ \A h \in r.heads : h.counter <= r.clock[h.actor] /\ \E c \in C : c.dot = Sync!Dot(h)
  /\ r.erased => r.heads = {}

\* An erasure is a write, and whoever has it is erased.
ErasureSpreads(r) ==
  r.erased => /\ scope = "conversations"
              /\ \E c \in context : Has(r, c) /\ \A s \in Held : Has(s, c) => s.erased

\* Nobody has more of a device's writes than the device, which goes on from its last one.
OwnFirst ==
  /\ \A r \in Held, a \in Actors : r.clock[a] <= record[a].clock[a]
  /\ \A a \in Actors : projected[a].clock[a] = record[a].clock[a]
  /\ \A c \in context : Has(record[c.dot[1]], c)

SyncInv ==
  /\ SyncTypes
  /\ \A r \in Held : Exact(r, context) /\ Causal(r, context) /\ ErasureSpreads(r)
  /\ \A r, s \in Held : ~ Sync!DotConflict(r, s)
  /\ OwnFirst
  /\ \A w \in replies : Behind(w.record, record[w.to])
  /\ \A d, e \in Actors : receipt[d][e] # NoReceipt => Behind(receipt[d][e], record[e])

LEMMA SyncStarts == ASSUME Sync!Init PROVE SyncInv
<1>1. Sync!Empty \in SyncRecord /\ Sync!Empty.heads = {} /\ Sync!Empty.erased = FALSE
      /\ \A a \in Actors : Sync!Empty.clock[a] = 0
  BY DEF Sync!Empty, SyncRecord
<1>2. /\ \A d \in Actors : record[d] = Sync!Empty /\ projected[d] = Sync!Empty
      /\ record = [a \in Actors |-> Sync!Empty] /\ projected = [a \in Actors |-> Sync!Empty]
      /\ wires = {} /\ replies = {} /\ context = {}
      /\ receipt = [d \in Actors |-> [e \in Actors |-> NoReceipt]]
  BY DEF Sync!Init
<1>3. SyncTypes
  BY <1>1, <1>2 DEF SyncTypes
<1>4. \A r \in Held : r = Sync!Empty
  BY <1>2 DEF Held
<1>5. \A r \in Held : Exact(r, context) /\ Causal(r, context) /\ ErasureSpreads(r)
  BY <1>1, <1>2, <1>4 DEF Exact, Causal, ErasureSpreads
<1>6. \A r, s \in Held : ~ Sync!DotConflict(r, s)
  BY <1>1, <1>4 DEF Sync!DotConflict
<1>7. OwnFirst
  BY <1>1, <1>2, <1>4 DEF OwnFirst
<1> QED BY <1>2, <1>3, <1>5, <1>6, <1>7 DEF SyncInv

\* A merge.
LEMMA MergedIs ==
  ASSUME NEW l \in SyncRecord, NEW r \in SyncRecord
  PROVE  LET m == Sync!Merged(l, r) IN
         /\ m \in SyncRecord
         /\ \A a \in Actors : m.clock[a] = IF l.clock[a] > r.clock[a] THEN l.clock[a] ELSE r.clock[a]
         /\ (m.erased <=> l.erased \/ r.erased) /\ (m.erased => m.heads = {})
         /\ ~ m.erased => m.heads = {h \in l.heads : Sync!Keeps(h, r)} \cup {h \in r.heads : Sync!Keeps(h, l)}
<1> DEFINE c == [a \in Actors |-> Sync!Larger(l.clock[a], r.clock[a])]
           e == l.erased \/ r.erased
           hs == IF e THEN {} ELSE {h \in l.heads : Sync!Keeps(h, r)} \cup {h \in r.heads : Sync!Keeps(h, l)}
<1>1. Sync!Merged(l, r) = [clock |-> c, erased |-> e, heads |-> hs]
  BY DEF Sync!Merged
<1>2. l.clock \in [Actors -> Nat] /\ r.clock \in [Actors -> Nat] /\ l.heads \subseteq SyncHeads /\ r.heads \subseteq SyncHeads
  BY DEF SyncRecord
<1>3. c \in [Actors -> Nat] /\ \A a \in Actors : c[a] = IF l.clock[a] > r.clock[a] THEN l.clock[a] ELSE r.clock[a]
  BY <1>2 DEF Sync!Larger
<1>4. hs \subseteq SyncHeads /\ e \in BOOLEAN
  BY <1>2
<1>5. /\ e => hs = {}
      /\ ~ e => hs = {h \in l.heads : Sync!Keeps(h, r)} \cup {h \in r.heads : Sync!Keeps(h, l)}
  OBVIOUS
<1>6. (e <=> l.erased \/ r.erased)
  OBVIOUS
<1> HIDE DEF c, e, hs
<1>7. Sync!Merged(l, r) \in SyncRecord
  BY <1>1, <1>3, <1>4 DEF SyncRecord
<1> QED BY <1>1, <1>3, <1>5, <1>6, <1>7

\* The merge of two snapshots says of its writes what they say.
LEMMA MergeIsExact ==
  ASSUME NEW C \in SUBSET Writes, NEW l \in SyncRecord, NEW r \in SyncRecord,
         Exact(l, C), Exact(r, C), Causal(l, C), Causal(r, C), ~ Sync!DotConflict(l, r)
  PROVE  Exact(Sync!Merged(l, r), C) /\ Causal(Sync!Merged(l, r), C)
<1> DEFINE m == Sync!Merged(l, r)
<1>1. /\ m \in SyncRecord
      /\ \A a \in Actors : m.clock[a] = IF l.clock[a] > r.clock[a] THEN l.clock[a] ELSE r.clock[a]
      /\ (m.erased <=> l.erased \/ r.erased) /\ (m.erased => m.heads = {})
      /\ ~ m.erased => m.heads = {h \in l.heads : Sync!Keeps(h, r)} \cup {h \in r.heads : Sync!Keeps(h, l)}
  BY MergedIs
<1> HIDE DEF m
<1>2. \A a \in Actors : /\ m.clock[a] \in Nat /\ l.clock[a] \in Nat /\ r.clock[a] \in Nat
                        /\ l.clock[a] <= m.clock[a] /\ r.clock[a] <= m.clock[a]
                        /\ m.clock[a] = l.clock[a] \/ m.clock[a] = r.clock[a]
  BY <1>1 DEF SyncRecord
<1>3. \A c \in C : c.dot[1] \in Actors /\ c.dot[2] \in Nat /\ \A a \in Actors : c.clock[a] \in Nat
  BY DEF Writes
<1>4. \A c \in C : Has(m, c) <=> Has(l, c) \/ Has(r, c)
  BY <1>2, <1>3 DEF Has
<1>5. \A h \in l.heads \cup r.heads : h.actor \in Actors /\ h.counter \in Nat
  BY DEF SyncRecord, SyncHeads
<1>6. m.heads \subseteq l.heads \cup r.heads
  BY <1>1
<1>7. Causal(m, C)
  <2>1. ASSUME NEW c \in C, Has(m, c), NEW a \in Actors PROVE c.clock[a] <= m.clock[a]
    <3>1. c.clock[a] <= l.clock[a] \/ c.clock[a] <= r.clock[a]
      BY <1>4, <2>1 DEF Causal
    <3> QED BY <1>2, <1>3, <3>1
  <2>2. ASSUME NEW h \in m.heads PROVE h.counter <= m.clock[h.actor] /\ \E c \in C : c.dot = Sync!Dot(h)
    <3>1. h \in l.heads \cup r.heads
      BY <1>6
    <3>2. h.counter <= l.clock[h.actor] \/ h.counter <= r.clock[h.actor]
      BY <3>1 DEF Causal
    <3>3. \E c \in C : c.dot = Sync!Dot(h)
      BY <3>1 DEF Causal
    <3> QED BY <1>2, <1>5, <3>1, <3>2, <3>3
  <2> QED BY <1>1, <2>1, <2>2 DEF Causal
<1>8. ASSUME ~ m.erased, NEW c \in C, Has(m, c)
      PROVE  c.dot \in Sync!Dots(m) <=> ~ \E b \in C : Has(m, b) /\ Sync!Overwrote(b, c.dot)
  <2>0. /\ ~ l.erased /\ ~ r.erased
        /\ m.heads = {h \in l.heads : Sync!Keeps(h, r)} \cup {h \in r.heads : Sync!Keeps(h, l)}
    BY <1>1, <1>8
  \* One side of each half; the other is alike.
  <2>1. ASSUME NEW x \in {l, r}, NEW y \in {l, r}, {x, y} = {l, r}, NEW h \in x.heads, Sync!Keeps(h, y), Sync!Dot(h) = c.dot,
               NEW b \in C, Has(m, b), Sync!Overwrote(b, c.dot)
        PROVE  FALSE
    <3>1. Exact(x, C) /\ Exact(y, C) /\ Causal(x, C) /\ Causal(y, C) /\ ~ x.erased /\ ~ y.erased
      BY <2>0
    <3>2. h.counter <= x.clock[h.actor] /\ h.actor = c.dot[1] /\ h.counter = c.dot[2]
      BY <2>1, <3>1 DEF Causal, Sync!Dot
    <3>3. Has(x, c) /\ c.dot \in Sync!Dots(x)
      BY <1>2, <1>3, <2>1, <3>2 DEF Has, Sync!Dots
    <3>4. ~ Has(x, b)
      BY <2>1, <3>1, <3>3 DEF Exact
    <3>5. Has(y, b)
      BY <1>4, <2>1, <3>4
    <3>6. Has(y, c)
      <4>1. b.clock[c.dot[1]] >= c.dot[2]
        BY <2>1 DEF Sync!Overwrote
      <4>2. b.clock[c.dot[1]] <= y.clock[c.dot[1]]
        BY <1>3, <3>1, <3>5 DEF Causal
      <4> QED BY <1>2, <1>3, <4>1, <4>2 DEF Has
    <3>7. c.dot \notin Sync!Dots(y)
      BY <2>1, <3>1, <3>5, <3>6 DEF Exact
    <3>8. h \notin y.heads
      BY <2>1, <3>7 DEF Sync!Dots
    <3>9. y.clock[h.actor] < h.counter
      BY <2>1, <3>8 DEF Sync!Keeps, Sync!Unseen
    <3> QED BY <1>2, <1>3, <3>2, <3>6, <3>9 DEF Has
  <2>2. ASSUME NEW x \in {l, r}, NEW y \in {l, r}, {x, y} = {l, r}, Has(x, c),
               ~ \E b \in C : Has(m, b) /\ Sync!Overwrote(b, c.dot)
        PROVE  \E h \in x.heads : Sync!Keeps(h, y) /\ Sync!Dot(h) = c.dot
    <3>1. Exact(x, C) /\ Exact(y, C) /\ ~ x.erased /\ ~ y.erased /\ Causal(x, C)
      BY <2>0
    <3>2. ~ \E b \in C : (Has(x, b) \/ Has(y, b)) /\ Sync!Overwrote(b, c.dot)
      BY <1>4, <2>2
    <3>3. PICK h \in x.heads : Sync!Dot(h) = c.dot
      BY <2>2, <3>1, <3>2 DEF Exact, Sync!Dots
    <3>4. CASE Has(y, c)
      <4>1. PICK g \in y.heads : Sync!Dot(g) = c.dot
        BY <3>1, <3>2, <3>4 DEF Exact, Sync!Dots
      <4>2. h = g
        BY <2>2, <3>3, <4>1 DEF Sync!DotConflict
      <4> QED BY <3>3, <4>1, <4>2 DEF Sync!Keeps
    <3>5. CASE ~ Has(y, c)
      <4>1. h.actor = c.dot[1] /\ h.counter = c.dot[2]
        BY <3>3 DEF Sync!Dot
      <4>2. y.clock[h.actor] < h.counter
        BY <1>2, <1>3, <3>5, <4>1 DEF Has
      <4> QED BY <3>3, <4>2 DEF Sync!Keeps, Sync!Unseen
    <3> QED BY <3>4, <3>5
  <2>3. c.dot \in Sync!Dots(m) <=>
          \/ \E h \in l.heads : Sync!Keeps(h, r) /\ Sync!Dot(h) = c.dot
          \/ \E h \in r.heads : Sync!Keeps(h, l) /\ Sync!Dot(h) = c.dot
    BY <2>0 DEF Sync!Dots
  <2>4. {l, r} = {l, r} /\ {r, l} = {l, r} /\ l \in {l, r} /\ r \in {l, r}
    OBVIOUS
  <2>5. ASSUME c.dot \in Sync!Dots(m), NEW b \in C, Has(m, b), Sync!Overwrote(b, c.dot) PROVE FALSE
    BY <2>1, <2>3, <2>4, <2>5
  <2>6. ASSUME ~ \E b \in C : Has(m, b) /\ Sync!Overwrote(b, c.dot) PROVE c.dot \in Sync!Dots(m)
    BY <1>4, <1>8, <2>2, <2>3, <2>4, <2>6
  <2> QED BY <2>5, <2>6
<1> QED BY <1>7, <1>8 DEF Exact, m

\* What a write makes.
LEMMA WrittenIs ==
  ASSUME NEW base \in SyncRecord, NEW d \in Actors, NEW v \in Values \cup {Deleted}, NEW erase \in BOOLEAN
  PROVE  LET u == Sync!Written(base, d, v, erase) IN
         /\ u \in SyncRecord /\ u.erased = erase
         /\ u.clock[d] = base.clock[d] + 1 /\ \A a \in Actors : a # d => u.clock[a] = base.clock[a]
         /\ \A h \in u.heads : ~ erase /\ h.actor = d /\ h.counter = base.clock[d] + 1
         /\ \A h, g \in u.heads : h = g
         /\ ~ erase => \E h \in u.heads : TRUE
<1> DEFINE n == base.clock[d] + 1
           c == [base.clock EXCEPT ![d] = n]
           hs == IF erase THEN {} ELSE {[actor |-> d, counter |-> n, value |-> v]}
<1>1. Sync!Written(base, d, v, erase) = [clock |-> c, heads |-> hs, erased |-> erase]
  BY DEF Sync!Written
<1>2. n \in Nat /\ c \in [Actors -> Nat] /\ c[d] = n /\ \A a \in Actors : a # d => c[a] = base.clock[a]
  BY DEF SyncRecord
<1>3. /\ hs \subseteq SyncHeads /\ \A h \in hs : ~ erase /\ h.actor = d /\ h.counter = n
      /\ \A h, g \in hs : h = g
      /\ ~ erase => \E h \in hs : TRUE
  <2>1. CASE erase
    BY <2>1
  <2>2. CASE ~ erase
    <3>1. [actor |-> d, counter |-> n, value |-> v] \in SyncHeads
      BY <1>2 DEF SyncHeads
    <3>2. hs = {[actor |-> d, counter |-> n, value |-> v]}
      BY <2>2
    <3> QED BY <2>2, <3>1, <3>2
  <2> QED BY <2>1, <2>2
<1> HIDE DEF c, hs
<1> QED BY <1>1, <1>2, <1>3 DEF SyncRecord

\* A local write.
LEMMA WriteKeepsSync ==
  ASSUME SyncInv, NEW d \in Actors, NEW base \in {record[d], projected[d]},
         NEW v \in Values \cup {Deleted}, NEW erase \in BOOLEAN, Sync!Store(d, base, v, erase),
         ~ erase => ~ base.erased, erase => scope = "conversations"
  PROVE  SyncInv'
<1> DEFINE u == Sync!Written(base, d, v, erase)
           m == Sync!Merged(record[d], u)
           n == Sync!Observed(base, d)
           k == record[d].clock[d]
<1>0. /\ SyncTypes /\ OwnFirst
      /\ \A r \in Held : Exact(r, context) /\ Causal(r, context) /\ ErasureSpreads(r)
      /\ \A r, s \in Held : ~ Sync!DotConflict(r, s)
      /\ record \in [Actors -> SyncRecord] /\ projected \in [Actors -> SyncRecord]
      /\ context \in SUBSET Writes
  BY DEF SyncInv, SyncTypes
<1>1. /\ record' = [record EXCEPT ![d] = m]
      /\ projected' = [projected EXCEPT ![d] = m] \/ projected' = [projected EXCEPT ![d] = u]
      /\ context' = context \cup {n} /\ UNCHANGED <<scope, wires, replies, receipt>>
  BY DEF Sync!Store
<1>2. base \in SyncRecord /\ record[d] \in SyncRecord /\ base \in Held /\ record[d] \in Held
  BY <1>0 DEF Held
<1>3. k \in Nat /\ base.clock[d] = k /\ \A a \in Actors : base.clock[a] \in Nat
  BY <1>0, <1>2 DEF OwnFirst, SyncRecord
<1>4. /\ u \in SyncRecord /\ u.erased = erase
      /\ u.clock[d] = k + 1 /\ \A a \in Actors : a # d => u.clock[a] = base.clock[a]
      /\ \A h \in u.heads : ~ erase /\ h.actor = d /\ h.counter = k + 1
      /\ \A h, g \in u.heads : h = g
      /\ ~ erase => \E h \in u.heads : TRUE
  BY <1>2, <1>3, WrittenIs
<1>5. n.dot = <<d, k + 1>> /\ n.clock = base.clock /\ n \in Writes /\ n.dot[1] = d /\ n.dot[2] = k + 1
  BY <1>2, <1>3 DEF Sync!Observed, Writes, SyncRecord
<1> HIDE DEF u, n
<1>6. /\ m \in SyncRecord
      /\ \A a \in Actors : m.clock[a] = IF record[d].clock[a] > u.clock[a] THEN record[d].clock[a] ELSE u.clock[a]
      /\ (m.erased <=> record[d].erased \/ u.erased)
      /\ m.heads \subseteq record[d].heads \cup u.heads
  BY <1>2, <1>4, MergedIs
<1> HIDE DEF m, k
<1>7. /\ record' \in [Actors -> SyncRecord] /\ projected' \in [Actors -> SyncRecord] /\ context' \in SUBSET Writes
      /\ record'[d] = m /\ \A a \in Actors : a # d => record'[a] = record[a]
      /\ projected'[d] \in {m, u} /\ \A a \in Actors : a # d => projected'[a] = projected[a]
  BY <1>0, <1>1, <1>4, <1>5, <1>6
<1>8. \A r \in Held : r \in SyncRecord
  BY <1>0 DEF Held, SyncTypes, Wires
<1>9. Held' \subseteq Held \cup {u, m}
  BY <1>1, <1>7 DEF Held
<1>10. \A r \in Held : r.clock[d] <= k /\ r.clock[d] \in Nat
  BY <1>0, <1>8 DEF OwnFirst, SyncRecord, k
<1>11. \A c \in context : /\ c.dot[1] \in Actors /\ c.dot[2] \in Nat /\ c.dot = <<c.dot[1], c.dot[2]>>
                          /\ \A a \in Actors : c.clock[a] \in Nat
  BY <1>0 DEF Writes
<1>12. \A r \in Held : ~ Has(r, n)
  BY <1>3, <1>5, <1>10 DEF Has
<1>13. \A c \in context : /\ c.dot[1] = d => c.dot[2] <= k
                          /\ c.clock[d] <= k
  <2> SUFFICES ASSUME NEW c \in context PROVE (c.dot[1] = d => c.dot[2] <= k) /\ c.clock[d] <= k
    OBVIOUS
  <2>1. Has(record[c.dot[1]], c) /\ record[c.dot[1]] \in Held
    BY <1>0, <1>11 DEF OwnFirst, Held
  <2>2. c.clock[d] <= record[c.dot[1]].clock[d]
    BY <1>0, <2>1 DEF Causal
  <2>3. c.clock[d] <= k
    BY <1>3, <1>10, <1>11, <2>1, <2>2
  <2> QED BY <1>3, <1>11, <2>1, <2>3 DEF Has, k
<1>14. \A r \in Held : Exact(r, context') /\ Causal(r, context')
  BY <1>0, <1>1, <1>12 DEF Exact, Causal
<1>15. \A c \in context : Has(u, c) => Has(base, c)
  BY <1>2, <1>3, <1>4, <1>11, <1>13 DEF Has
<1>16. Has(u, n)
  BY <1>3, <1>4, <1>5 DEF Has
<1>17. Causal(u, context')
  <2>1. ASSUME NEW c \in context', Has(u, c), NEW a \in Actors PROVE c.clock[a] <= u.clock[a]
    <3>1. c.clock[a] \in Nat /\ c.clock[a] <= base.clock[a]
      BY <1>0, <1>1, <1>2, <1>3, <1>5, <1>11, <1>15, <2>1 DEF Causal
    <3> QED BY <1>3, <1>4, <3>1
  <2>2. \A h \in u.heads : h.counter <= u.clock[h.actor] /\ n.dot = Sync!Dot(h)
    BY <1>3, <1>4, <1>5 DEF Sync!Dot
  <2> QED BY <1>1, <1>4, <2>1, <2>2 DEF Causal
<1>18. Exact(u, context')
  <2> SUFFICES ASSUME ~ erase, NEW c \in context', Has(u, c)
               PROVE  c.dot \in Sync!Dots(u) <=> ~ \E b \in context' : Has(u, b) /\ Sync!Overwrote(b, c.dot)
    BY <1>4 DEF Exact
  <2>1. Sync!Dots(u) = {n.dot}
    BY <1>4, <1>5 DEF Sync!Dots, Sync!Dot
  <2>2. CASE c = n
    <3>1. \A b \in context' : ~ Sync!Overwrote(b, n.dot)
      BY <1>1, <1>3, <1>5, <1>11, <1>13 DEF Sync!Overwrote
    <3> QED BY <2>1, <2>2, <3>1
  <2>3. CASE c \in context
    <3>1. c.dot # n.dot
      BY <1>3, <1>5, <1>13, <2>3
    <3>2. Sync!Overwrote(n, c.dot)
      BY <1>5, <1>15, <2>3 DEF Sync!Overwrote, Has
    <3> QED BY <1>1, <1>16, <2>1, <3>1, <3>2
  <2> QED BY <1>1, <2>2, <2>3
<1>19. \A r \in Held : \A h \in r.heads, g \in u.heads : Sync!Dot(h) # Sync!Dot(g)
  <2> SUFFICES ASSUME NEW r \in Held, NEW h \in r.heads, NEW g \in u.heads, Sync!Dot(h) = Sync!Dot(g) PROVE FALSE
    OBVIOUS
  <2>1. h.actor = d /\ h.counter = k + 1
    BY <1>4 DEF Sync!Dot
  <2>2. h.counter <= r.clock[h.actor]
    BY <1>0 DEF Causal
  <2> QED BY <1>3, <1>10, <2>1, <2>2
<1>20. ~ Sync!DotConflict(record[d], u)
  BY <1>2, <1>19 DEF Sync!DotConflict
<1>21. Exact(m, context') /\ Causal(m, context')
  BY <1>2, <1>4, <1>7, <1>14, <1>17, <1>18, <1>20, MergeIsExact DEF m
<1>22. \A r, s \in Held' : ~ Sync!DotConflict(r, s)
  <2>1. \A r \in Held' : \A h \in r.heads : h \in u.heads \/ \E q \in Held : h \in q.heads
    BY <1>2, <1>6, <1>9
  <2>2. ASSUME NEW h, NEW g, h \in u.heads \/ \E q \in Held : h \in q.heads,
               g \in u.heads \/ \E q \in Held : g \in q.heads, Sync!Dot(h) = Sync!Dot(g)
        PROVE  h = g
    BY <1>0, <1>4, <1>19, <2>2 DEF Sync!DotConflict
  <2> QED BY <2>1, <2>2 DEF Sync!DotConflict
<1>23. \A c \in context : Has(m, c) => Has(record[d], c) \/ Has(u, c)
  BY <1>2, <1>4, <1>6, <1>11 DEF Has, SyncRecord
<1>24. \A r \in Held' : r.erased => /\ scope' = "conversations"
                                    /\ \E c \in context' : Has(r, c) /\ \A s \in Held' : Has(s, c) => s.erased
  <2>1. ASSUME NEW c \in context, \A s \in Held : Has(s, c) => s.erased PROVE \A s \in Held' : Has(s, c) => s.erased
    <3>1. Has(u, c) => u.erased
      BY <1>2, <1>4, <1>15, <2>1
    <3>2. Has(m, c) => m.erased
      BY <1>2, <1>6, <1>23, <2>1, <3>1
    <3> QED BY <1>9, <2>1, <3>1, <3>2
  <2>2. \A s \in Held' : erase /\ Has(s, n) => s.erased
    BY <1>4, <1>6, <1>9, <1>12
  <2>3. \A c \in context : Has(record[d], c) => Has(m, c)
    BY <1>2, <1>4, <1>6, <1>11 DEF Has, SyncRecord
  <2>4. Has(m, n)
    BY <1>2, <1>3, <1>4, <1>5, <1>6 DEF Has, SyncRecord, k
  <2>5. ASSUME NEW r \in Held, r.erased
        PROVE  scope' = "conversations" /\ \E c \in context : Has(r, c) /\ \A s \in Held' : Has(s, c) => s.erased
    BY <1>0, <1>1, <2>1, <2>5 DEF ErasureSpreads
  <2> QED BY <1>1, <1>2, <1>4, <1>6, <1>9, <1>16, <2>2, <2>3, <2>4, <2>5
<1>25. \A a \in Actors : /\ record[a].clock \in [Actors -> Nat] /\ record'[a].clock \in [Actors -> Nat]
                         /\ \A b \in Actors : record[a].clock[b] <= record'[a].clock[b]
  <2> SUFFICES ASSUME NEW a \in Actors
               PROVE  /\ record[a].clock \in [Actors -> Nat] /\ record'[a].clock \in [Actors -> Nat]
                      /\ \A b \in Actors : record[a].clock[b] <= record'[a].clock[b]
    OBVIOUS
  <2>1. record[a].clock \in [Actors -> Nat] /\ record'[a].clock \in [Actors -> Nat]
    BY <1>0, <1>7 DEF SyncRecord
  <2>2. u.clock \in [Actors -> Nat]
    BY <1>4 DEF SyncRecord
  <2>3. CASE a = d
    BY <1>6, <1>7, <2>1, <2>2, <2>3
  <2>4. CASE a # d
    BY <1>7, <2>1, <2>4
  <2> QED BY <2>1, <2>3, <2>4
<1>26. OwnFirst'
  <2>1. m.clock[d] = k + 1
    BY <1>3, <1>4, <1>6 DEF k
  <2>2. ASSUME NEW r \in Held', NEW a \in Actors PROVE r.clock[a] <= record'[a].clock[a]
    <3>1. CASE a = d
      BY <1>3, <1>4, <1>7, <1>9, <1>10, <2>1, <3>1
    <3>2. CASE a # d
      <4>1. \A q \in Held : q.clock[a] <= record[a].clock[a] /\ record'[a] = record[a]
        BY <1>0, <1>7, <3>2 DEF OwnFirst
      <4> QED BY <1>2, <1>4, <1>6, <1>9, <3>2, <4>1
    <3> QED BY <3>1, <3>2
  <2>3. ASSUME NEW a \in Actors PROVE projected'[a].clock[a] = record'[a].clock[a]
    BY <1>0, <1>4, <1>7, <2>1 DEF OwnFirst
  <2>4. ASSUME NEW c \in context' PROVE Has(record'[c.dot[1]], c)
    <3>1. CASE c = n
      BY <1>3, <1>5, <1>7, <2>1, <3>1 DEF Has
    <3>2. CASE c \in context
      BY <1>0, <1>11, <1>25, <3>2 DEF OwnFirst, Has
    <3> QED BY <1>1, <3>1, <3>2
  <2> QED BY <2>2, <2>3, <2>4 DEF OwnFirst
<1>27. /\ \A w \in replies' : Behind(w.record, record'[w.to])
       /\ \A a, e \in Actors : receipt'[a][e] # NoReceipt => Behind(receipt'[a][e], record'[e])
  <2>1. ASSUME NEW r \in SyncRecord, NEW e \in Actors, Behind(r, record[e]) PROVE Behind(r, record'[e])
    BY <1>25, <2>1 DEF Behind, SyncRecord
  <2>2. \A w \in replies : w.record \in SyncRecord /\ w.to \in Actors /\ Behind(w.record, record[w.to])
    BY DEF SyncInv, SyncTypes, Wires
  <2>3. \A a, e \in Actors : receipt[a][e] # NoReceipt => receipt[a][e] \in SyncRecord /\ Behind(receipt[a][e], record[e])
    BY DEF SyncInv, SyncTypes
  <2> QED BY <1>1, <2>1, <2>2, <2>3
<1>28. SyncTypes'
  BY <1>0, <1>1, <1>7 DEF SyncTypes
<1>29. \A r \in Held' : Exact(r, context') /\ Causal(r, context')
  BY <1>9, <1>14, <1>17, <1>18, <1>21
<1> QED BY <1>22, <1>24, <1>26, <1>27, <1>28, <1>29 DEF SyncInv, ErasureSpreads

\* A step that keeps the writes and makes no snapshot but perhaps the merge of two.
LEMMA ExchangeKeepsSync ==
  ASSUME SyncInv, SyncTypes', NEW l \in Held, NEW r \in Held, Held' \subseteq Held \cup {Sync!Merged(l, r)},
         UNCHANGED <<scope, context>>,
         \A a, b \in Actors : record[a].clock[b] <= record'[a].clock[b],
         \A a \in Actors : projected'[a].clock[a] = record[a].clock[a],
         \A w \in replies' : Behind(w.record, record'[w.to]),
         \A d, e \in Actors : receipt'[d][e] # NoReceipt => Behind(receipt'[d][e], record'[e])
  PROVE  SyncInv'
<1> DEFINE m == Sync!Merged(l, r)
<1>0. /\ SyncTypes /\ OwnFirst
      /\ \A q \in Held : Exact(q, context) /\ Causal(q, context) /\ ErasureSpreads(q)
      /\ \A q, s \in Held : ~ Sync!DotConflict(q, s)
      /\ context \in SUBSET Writes /\ record \in [Actors -> SyncRecord] /\ record' \in [Actors -> SyncRecord]
  BY DEF SyncInv, SyncTypes
<1>1. \A q \in Held : q \in SyncRecord
  BY <1>0 DEF Held, SyncTypes, Wires
<1>2. /\ m \in SyncRecord
      /\ \A a \in Actors : m.clock[a] = IF l.clock[a] > r.clock[a] THEN l.clock[a] ELSE r.clock[a]
      /\ (m.erased <=> l.erased \/ r.erased)
      /\ m.heads \subseteq l.heads \cup r.heads
  BY <1>1, MergedIs
<1>3. Exact(m, context) /\ Causal(m, context)
  BY <1>0, <1>1, MergeIsExact
<1> HIDE DEF m
<1>4. Held' \subseteq Held \cup {m}
  BY DEF m
<1>5. \A q \in Held' : Exact(q, context') /\ Causal(q, context')
  BY <1>0, <1>3, <1>4
<1>6. \A q, s \in Held' : ~ Sync!DotConflict(q, s)
  <2>1. \A q \in Held' : \A h \in q.heads : \E s \in Held : h \in s.heads
    BY <1>2, <1>4
  <2>2. ASSUME NEW h, NEW g, \E q \in Held : h \in q.heads, \E q \in Held : g \in q.heads, Sync!Dot(h) = Sync!Dot(g)
        PROVE  h = g
    BY <1>0, <2>2 DEF Sync!DotConflict
  <2> QED BY <2>1, <2>2 DEF Sync!DotConflict
<1>7. \A c \in context : c.dot[1] \in Actors /\ c.dot[2] \in Nat
  BY <1>0 DEF Writes
<1>8. \A c \in context : Has(m, c) <=> Has(l, c) \/ Has(r, c)
  BY <1>1, <1>2, <1>7 DEF Has, SyncRecord
<1>9. \A q \in Held' : ErasureSpreads(q)'
  <2>1. ASSUME NEW c \in context, \A s \in Held : Has(s, c) => s.erased PROVE \A s \in Held' : Has(s, c) => s.erased
    BY <1>2, <1>4, <1>8, <2>1
  <2>2. ASSUME NEW q \in Held, q.erased
        PROVE  /\ scope = "conversations"
               /\ \E c \in context : Has(q, c) /\ \A s \in Held' : Has(s, c) => s.erased
    BY <1>0, <2>1, <2>2 DEF ErasureSpreads
  <2> QED BY <1>2, <1>4, <1>8, <2>2 DEF ErasureSpreads
<1>10. OwnFirst'
  <2>1. \A a, b \in Actors : record[a].clock[b] \in Nat /\ record'[a].clock[b] \in Nat
    BY <1>0 DEF SyncRecord
  <2>2. \A q \in Held', a \in Actors : q.clock[a] <= record[a].clock[a] /\ q.clock[a] \in Nat
    BY <1>0, <1>1, <1>2, <1>4 DEF OwnFirst, SyncRecord
  <2>3. \A a \in Actors : record'[a].clock[a] = record[a].clock[a]
    <3>1. \A a \in Actors : record'[a] \in Held'
      BY DEF Held
    <3>2. \A a \in Actors : record'[a].clock[a] <= record[a].clock[a]
      BY <2>2, <3>1
    <3> QED BY <2>1, <3>2
  <2>4. \A c \in context : Has(record'[c.dot[1]], c)
    BY <1>0, <1>7, <2>1 DEF OwnFirst, Has
  <2> QED BY <2>2, <2>3, <2>4 DEF OwnFirst
<1> QED BY <1>5, <1>6, <1>9, <1>10 DEF SyncInv

\* What snapshots and receipts do.
LEMMA WiresKeepSync ==
  ASSUME SyncInv,
         \/ \E d, e \in Actors : Sync!Send(d, e) \/ Sync!ForgetDevice(d, e)
         \/ \E w \in wires : Sync!Receive(w)
         \/ \E w \in replies : Sync!Acknowledge(w)
         \/ \E w \in wires \cup replies : Sync!Lose(w)
  PROVE  SyncInv'
<1>0. /\ SyncTypes /\ OwnFirst
      /\ record \in [Actors -> SyncRecord] /\ projected \in [Actors -> SyncRecord]
      /\ wires \subseteq Wires /\ replies \subseteq Wires
      /\ receipt \in [Actors -> [Actors -> SyncRecord \cup {NoReceipt}]]
      /\ \A w \in replies : Behind(w.record, record[w.to])
      /\ \A d, e \in Actors : receipt[d][e] # NoReceipt => Behind(receipt[d][e], record[e])
      /\ \A q, s \in Held : ~ Sync!DotConflict(q, s)
  BY DEF SyncInv, SyncTypes
<1>1. \A a, b \in Actors : record[a].clock[b] \in Nat
  BY <1>0 DEF SyncRecord
<1>2. \A a \in Actors : projected[a].clock[a] = record[a].clock[a] /\ record[a] \in Held /\ projected[a] \in Held
  BY <1>0 DEF OwnFirst, Held
<1>3. ASSUME NEW d \in Actors, NEW e \in Actors, Sync!Send(d, e) PROVE SyncInv'
  <2>1. /\ wires' = wires \cup {[from |-> d, to |-> e, record |-> record[d]]}
        /\ UNCHANGED <<scope, record, projected, replies, receipt, context>>
    BY <1>3 DEF Sync!Send
  <2>2. [from |-> d, to |-> e, record |-> record[d]] \in Wires
    BY <1>0 DEF Wires
  <2>3. SyncTypes'
    BY <1>0, <2>1, <2>2 DEF SyncTypes
  <2>4. Held' \subseteq Held \cup {Sync!Merged(record[d], record[d])}
    BY <2>1 DEF Held
  <2> QED BY <1>0, <1>1, <1>2, <2>1, <2>3, <2>4, ExchangeKeepsSync
<1>4. ASSUME NEW d \in Actors, NEW e \in Actors, Sync!ForgetDevice(d, e) PROVE SyncInv'
  <2>1. /\ receipt' = [receipt EXCEPT ![d][e] = NoReceipt]
        /\ UNCHANGED <<scope, record, projected, wires, replies, context>>
    BY <1>4 DEF Sync!ForgetDevice
  <2>2. /\ SyncTypes' /\ Held' = Held
        /\ \A a, b \in Actors : receipt'[a][b] # NoReceipt => receipt'[a][b] = receipt[a][b]
    BY <1>0, <2>1 DEF SyncTypes, Held
  <2> QED BY <1>0, <1>1, <1>2, <2>1, <2>2, ExchangeKeepsSync
<1>5. ASSUME NEW w \in wires \cup replies, Sync!Lose(w) PROVE SyncInv'
  <2>1. /\ wires' \subseteq wires /\ replies' \subseteq replies
        /\ UNCHANGED <<scope, record, projected, receipt, context>>
    BY <1>5 DEF Sync!Lose
  <2>2. SyncTypes' /\ Held' \subseteq Held
    BY <1>0, <2>1 DEF SyncTypes, Held
  <2>3. PICK a \in Actors : TRUE
    BY <1>0, <1>5 DEF Wires
  <2> QED BY <1>0, <1>1, <1>2, <2>1, <2>2, <2>3, ExchangeKeepsSync
<1>6. ASSUME NEW w \in replies, Sync!Acknowledge(w) PROVE SyncInv'
  <2>1. /\ receipt' = IF record[w.from] = w.record
                      THEN [receipt EXCEPT ![w.from][w.to] = record[w.from]] ELSE receipt
        /\ replies' \subseteq replies
        /\ UNCHANGED <<scope, record, projected, wires, context>>
    BY <1>6 DEF Sync!Acknowledge, Sync!Current
  <2>2. w.from \in Actors /\ w.to \in Actors /\ Behind(w.record, record[w.to])
    BY <1>0 DEF Wires
  <2>3. \A a, b \in Actors : \/ receipt'[a][b] = receipt[a][b]
                             \/ b = w.to /\ receipt'[a][b] = w.record
    BY <1>0, <2>1, <2>2
  <2>4. SyncTypes' /\ Held' \subseteq Held
    BY <1>0, <2>1, <2>2 DEF SyncTypes, Held
  <2>5. \A a, b \in Actors : receipt'[a][b] # NoReceipt => Behind(receipt'[a][b], record[b])
    BY <1>0, <2>2, <2>3
  <2>6. /\ \A v \in replies' : Behind(v.record, record'[v.to])
        /\ \A a, b \in Actors : receipt'[a][b] # NoReceipt => Behind(receipt'[a][b], record'[b])
        /\ \A a, b \in Actors : record[a].clock[b] <= record'[a].clock[b]
        /\ \A a \in Actors : projected'[a].clock[a] = record[a].clock[a]
    BY <1>0, <1>1, <1>2, <2>1, <2>5
  <2> QED BY <1>2, <2>1, <2>2, <2>4, <2>6, ExchangeKeepsSync
<1>7. ASSUME NEW w \in wires, Sync!Receive(w) PROVE SyncInv'
  <2> DEFINE d == w.to
             m == Sync!Merged(record[d], w.record)
  <2>0. d \in Actors /\ w.record \in SyncRecord /\ w \in Wires /\ w.record \in Held /\ record[d] \in Held
        /\ record[d] \in SyncRecord
    BY <1>0 DEF Wires, Held
  <2>1. ~ Sync!DotConflict(record[d], w.record)
    BY <1>0, <2>0
  <2>2. /\ record' = [record EXCEPT ![d] = m]
        /\ projected' = [projected EXCEPT ![d] = m] \/ projected' = projected
        /\ wires' \subseteq wires /\ replies' \subseteq replies \cup {w}
        /\ UNCHANGED <<scope, receipt, context>>
    <3>1. projected' = [projected EXCEPT ![d] = projected[d]] => projected' = projected
      BY <1>0
    <3> QED BY <1>7, <2>1, <3>1 DEF Sync!Receive, Sync!ProjectReading, Sync!ProjectConversation
  <2>3. /\ m \in SyncRecord
        /\ \A a \in Actors : m.clock[a] = IF record[d].clock[a] > w.record.clock[a]
                                          THEN record[d].clock[a] ELSE w.record.clock[a]
    BY <2>0, MergedIs
  <2>4. Held' \subseteq Held \cup {m}
    BY <1>0, <2>0, <2>2 DEF Held
  <2> HIDE DEF m, d
  <2>5. SyncTypes'
    BY <1>0, <2>0, <2>2, <2>3 DEF SyncTypes
  <2>6. w.record.clock \in [Actors -> Nat] /\ w.record.clock[d] <= record[d].clock[d]
    BY <1>0, <2>0 DEF OwnFirst, SyncRecord
  <2>7. /\ \A a, b \in Actors : record[a].clock[b] <= record'[a].clock[b] /\ record'[a].clock[b] \in Nat
        /\ \A a \in Actors : w.record.clock[a] <= record'[d].clock[a]
        /\ m.clock[d] = record[d].clock[d]
    <3>1. /\ record'[d] = m /\ \A a \in Actors : a # d => record'[a] = record[a]
          /\ \A a \in Actors : m.clock[a] \in Nat
      BY <1>0, <2>0, <2>2, <2>3 DEF SyncRecord
    <3>2. \A b \in Actors : record[d].clock[b] \in Nat /\ w.record.clock[b] \in Nat
      BY <1>1, <2>0 DEF SyncRecord
    <3>3. \A b \in Actors : record[d].clock[b] <= m.clock[b] /\ w.record.clock[b] <= m.clock[b]
      BY <2>3, <3>2
    <3>4. m.clock[d] = record[d].clock[d]
      BY <2>0, <2>3, <2>6, <3>2
    <3>5. ASSUME NEW a \in Actors, NEW b \in Actors
          PROVE  record[a].clock[b] <= record'[a].clock[b] /\ record'[a].clock[b] \in Nat
      <4>1. CASE a = d
        BY <3>1, <3>3, <4>1
      <4>2. CASE a # d
        BY <1>1, <3>1, <4>2
      <4> QED BY <4>1, <4>2
    <3> QED BY <3>1, <3>3, <3>4, <3>5
  <2>8. \A a \in Actors : projected'[a].clock[a] = record[a].clock[a]
    BY <1>0, <1>2, <2>0, <2>2, <2>7
  <2>9. ASSUME NEW r \in SyncRecord, NEW e \in Actors, Behind(r, record[e]) PROVE Behind(r, record'[e])
    BY <1>1, <2>7, <2>9 DEF Behind, SyncRecord
  <2>10. \A v \in replies : v.record \in SyncRecord /\ v.to \in Actors
    BY <1>0 DEF Wires
  <2>11. Behind(w.record, record'[w.to])
    BY <2>7 DEF Behind, d
  <2>12. \A v \in replies' : Behind(v.record, record'[v.to])
    BY <1>0, <2>2, <2>9, <2>10, <2>11
  <2>13. \A a, e \in Actors : receipt'[a][e] # NoReceipt => Behind(receipt'[a][e], record'[e])
    BY <1>0, <2>2, <2>9
  <2> QED BY <2>0, <2>2, <2>4, <2>5, <2>7, <2>8, <2>12, <2>13, ExchangeKeepsSync DEF m
<1> QED BY <1>3, <1>4, <1>5, <1>6, <1>7

\* What a device writes.
LEMMA WritesKeepSync ==
  ASSUME SyncInv, NEW d \in Actors, NEW v \in Values \cup {Deleted},
         \/ v \in Values /\ (Sync!CaptureReading(d, v) \/ Sync!ResolveReading(d, v))
         \/ Sync!CaptureConversation(d, v) \/ Sync!ClearReading(d) \/ Sync!EraseConversation(d)
  PROVE  SyncInv'
<1>1. record[d] \in Held /\ projected[d] \in Held
  BY DEF Held
<1>2. Sync!Base(d) = projected[d]
  <2>1. record[d].clock[d] \in Nat /\ projected[d].clock[d] = record[d].clock[d]
    BY DEF SyncInv, SyncTypes, OwnFirst, SyncRecord
  <2> QED BY <2>1 DEF Sync!Base
<1>3. scope # "conversations" => ~ record[d].erased /\ ~ projected[d].erased
  BY <1>1 DEF SyncInv, ErasureSpreads
<1>4. CASE v \in Values /\ Sync!CaptureReading(d, v)
  BY <1>2, <1>3, <1>4, WriteKeepsSync DEF Sync!CaptureReading
<1>5. CASE v \in Values /\ Sync!ResolveReading(d, v)
  BY <1>3, <1>5, WriteKeepsSync DEF Sync!ResolveReading
<1>6. CASE Sync!ClearReading(d)
  BY <1>3, <1>6, WriteKeepsSync DEF Sync!ClearReading
<1>7. CASE Sync!CaptureConversation(d, v)
  BY <1>2, <1>7, WriteKeepsSync DEF Sync!CaptureConversation
<1>8. CASE Sync!EraseConversation(d)
  BY <1>8, WriteKeepsSync DEF Sync!EraseConversation
<1> QED BY <1>4, <1>5, <1>6, <1>7, <1>8

\* What the invariant says of the devices.
LEMMA SyncIsSound == ASSUME SyncInv PROVE Sync!SyncSound
<1>0. /\ SyncTypes /\ OwnFirst
      /\ \A r \in Held : Exact(r, context) /\ Causal(r, context) /\ ErasureSpreads(r)
      /\ \A r, s \in Held : ~ Sync!DotConflict(r, s)
      /\ \A d \in Actors : record[d] \in Held /\ record[d] \in SyncRecord
      /\ \A w \in wires : w.to \in Actors /\ w.record \in Held
      /\ context \subseteq Writes
  BY DEF SyncInv, Held, SyncTypes, Wires
<1>1. Sync!Converged
  <2> SUFFICES ASSUME NEW d \in Actors, NEW e \in Actors, record[d].clock = record[e].clock PROVE record[d] = record[e]
    BY DEF Sync!Converged
  <2>1. ASSUME NEW x \in {d, e}, NEW y \in {d, e} PROVE record[x].erased => record[y].erased
    BY <1>0 DEF ErasureSpreads, Has
  <2>2. ASSUME NEW x \in {d, e}, NEW y \in {d, e}, ~ record[d].erased, ~ record[e].erased, NEW h \in record[x].heads
        PROVE  h \in record[y].heads
    <3>1. PICK c \in context : c.dot = Sync!Dot(h)
      BY <1>0 DEF Causal
    <3>2. Has(record[x], c) /\ Has(record[y], c)
      BY <1>0, <3>1 DEF Causal, Has, Sync!Dot
    <3>3. c.dot \in Sync!Dots(record[x])
      BY <3>1 DEF Sync!Dots
    <3>4. c.dot \in Sync!Dots(record[y])
      BY <1>0, <2>2, <3>2, <3>3 DEF Exact, Has
    <3>5. PICK g \in record[y].heads : Sync!Dot(g) = Sync!Dot(h)
      BY <3>1, <3>4 DEF Sync!Dots
    <3>6. g = h
      BY <1>0, <3>5 DEF Sync!DotConflict
    <3> QED BY <3>5, <3>6
  <2>3. record[d].erased = record[e].erased
    BY <1>0, <2>1 DEF SyncRecord
  <2>4. record[d].heads = record[e].heads
    <3>1. CASE record[d].erased
      BY <1>0, <2>3, <3>1 DEF Causal
    <3>2. CASE ~ record[d].erased
      BY <2>2, <2>3, <3>2
    <3> QED BY <3>1, <3>2
  <2> QED BY <1>0, <2>3, <2>4 DEF SyncRecord
<1>2. Sync!NoLostOrRevivedValue
  BY <1>0 DEF Sync!NoLostOrRevivedValue, Sync!Knows, Exact, Has
<1>3. Sync!ReceiptIsDelivery
  BY DEF SyncInv, Behind, Sync!ReceiptIsDelivery
<1>4. Sync!NoDotConflict
  BY <1>0 DEF Sync!NoDotConflict
<1> QED BY <1>1, <1>2, <1>3, <1>4 DEF Sync!SyncSound

----------------------------------------------------------------------------
(* The pairing of two devices.                                             *)

Policies == [revision : Nat, on : BOOLEAN]
PairRow == [status : {"none", "awaiting_owner", "awaiting_peer", "awaiting_inviter", "awaiting_ack", "active",
                      "rejected", "revoked", "gone"},
            approved : BOOLEAN, local : Policies, remote : Policies, removal : BOOLEAN]
PairAnswers == [kind : {"join"}, pair : Pairs, state : {"rejected", "expired", "offer", "pending"}]
               \cup [kind : {"confirm"}, pair : Pairs, state : {"rejected", "expired", "active"}]
Batches == [from : {"inviter", "joiner"}, pair : Pairs, sender : Nat, receiver : Nat, merged : BOOLEAN]

PairingTypes ==
  /\ row \in [{"inviter", "joiner"} -> [Pairs -> PairRow]]
  /\ answer \in [{"inviter", "joiner"} -> PairAnswers \cup {NoAnswer}]
  /\ invite \in [Pairs -> {"none", "open", "claimed", "cancelled"}]
  /\ batches \subseteq Batches
  /\ received \in [{"inviter", "joiner"} -> SUBSET Batches]
  /\ DOMAIN confirmed = {"inviter", "joiner"} /\ \A d \in {"inviter", "joiner"} : DOMAIN confirmed[d] = Pairs

\* The two sides i (the inviter) and j of pair p, with the invitations, the expired ones X, the requests W
\* and the answer a on its way to the joiner.
Over(r) == r.status \in {"revoked", "rejected", "gone"}
NeverActive(p, i, X) == Over(i) \/ (p \in X /\ i.status # "active")
JoinSent(p, W) == [kind |-> "join", pair |-> p] \in W
OfferTaken(p, W) == [kind |-> "confirm", pair |-> p] \in W
NotAhead(r, s) == /\ r.remote.revision <= s.local.revision
                  /\ r.remote.revision = s.local.revision => r.remote = s.local
Stood(i, inv) == i.status \in {"active", "revoked"} \/ inv = "cancelled"

\* How far one side is shows how far the other is.
InStep(p, i, j, X, W) ==
  /\ JoinSent(p, W) \/ i.status # "none" => j.status # "none"
  /\ i.status = "active" => OfferTaken(p, W)
  /\ OfferTaken(p, W) => \/ j.status \in {"awaiting_ack", "active", "revoked"}
                         \/ j.status \in {"rejected", "gone"} /\ NeverActive(p, i, X)

\* What was approved, and what each side believes of the other's policy.
ApprovalsHold(p, i, j, W) ==
  /\ i.status \in {"none", "awaiting_owner"} => ~ i.approved
  /\ i.status \in {"awaiting_peer", "active"} => i.approved
  /\ j.status \in {"awaiting_ack", "active"} => j.approved
  /\ j.approved => OfferTaken(p, W) /\ (i.approved \/ i.status = "gone")
  /\ OfferTaken(p, W) => j.approved \/ j.status = "gone"
  /\ i.approved /\ ~ OfferTaken(p, W) => i.local = Pairing!FirstPolicy /\ i.remote = Pairing!FirstPolicy
  /\ i.approved /\ j.approved => NotAhead(i, j) /\ NotAhead(j, i)

\* A removal that was delivered is final, and an active joiner has or had an active inviter.
EndsHold(p, i, j, inv, W) ==
  /\ j.status = "active" => Stood(i, inv)
  /\ i.status = "revoked" /\ ~ i.removal => Over(j)
  /\ j.status = "revoked" /\ ~ j.removal => Over(i) \/ ~ OfferTaken(p, W)

\* What an answer on its way still says truly.
AnswerHolds(p, i, inv, X, a) ==
  a # NoAnswer /\ a.pair = p =>
    /\ a.kind = "join" /\ a.state = "offer" => i.approved \/ i.status = "gone"
    /\ a.kind = "confirm" /\ a.state = "active" => Stood(i, inv)
    /\ a.kind = "confirm" /\ a.state # "active" => NeverActive(p, i, X)

PairHolds(p, i, j, inv, X, W, a) ==
  InStep(p, i, j, X, W) /\ ApprovalsHold(p, i, j, W) /\ EndsHold(p, i, j, inv, W) /\ AnswerHolds(p, i, inv, X, a)

\* What was merged.
TransfersHold ==
  /\ \A b \in batches : b.merged => b \in received[Pairing!Other(b.from)]
  /\ Pairing!DeliveredIsMerged

PairingInv ==
  /\ PairingTypes /\ TransfersHold
  /\ \A p \in Pairs : PairHolds(p, row["inviter"][p], row["joiner"][p], invite[p], expired, pairingWires, answer["joiner"])

LEMMA PairingStarts == ASSUME Pairing!Init PROVE PairingInv
<1>1. /\ invite = [p \in Pairs |-> "none"] /\ expired = {} /\ pairingWires = {} /\ batches = {}
      /\ row = [d \in {"inviter", "joiner"} |-> [p \in Pairs |-> Pairing!NoRow]]
      /\ answer = [d \in {"inviter", "joiner"} |-> NoAnswer]
      /\ received = [d \in {"inviter", "joiner"} |-> {}]
      /\ confirmed = [d \in {"inviter", "joiner"} |-> [p \in Pairs |-> NoAnswer]]
  BY DEF Pairing!Init, Pairing!Devices
<1>2. Pairing!NoRow \in PairRow /\ Pairing!NoRow.status = "none" /\ ~ Pairing!NoRow.approved
  BY DEF Pairing!NoRow, Pairing!NoPolicy, PairRow, Policies
<1>3. PairingTypes /\ TransfersHold
  BY <1>1, <1>2 DEF PairingTypes, TransfersHold, Pairing!DeliveredIsMerged, Pairing!Devices
<1>4. ASSUME NEW p \in Pairs
      PROVE  PairHolds(p, row["inviter"][p], row["joiner"][p], invite[p], expired, pairingWires, answer["joiner"])
  <2>1. row["inviter"][p] = Pairing!NoRow /\ row["joiner"][p] = Pairing!NoRow /\ answer["joiner"] = NoAnswer
    BY <1>1
  <2> QED BY <1>1, <1>2, <2>1 DEF PairHolds, InStep, ApprovalsHold, EndsHold, AnswerHolds, JoinSent, OfferTaken
<1> QED BY <1>3, <1>4 DEF PairingInv

\* A step of one pair.
PairStep(p) ==
  /\ row' \in [{"inviter", "joiner"} -> [Pairs -> PairRow]]
  /\ \A d \in {"inviter", "joiner"}, q \in Pairs : q # p => row'[d][q] = row[d][q]
  /\ answer' \in [{"inviter", "joiner"} -> PairAnswers \cup {NoAnswer}]
  /\ answer'["joiner"] = NoAnswer \/ answer'["joiner"] = answer["joiner"] \/ answer'["joiner"].pair = p
  /\ invite' \in [Pairs -> {"none", "open", "claimed", "cancelled"}]
  /\ \A q \in Pairs : q # p => invite'[q] = invite[q]
  /\ expired' \ {p} = expired \ {p}
  /\ \A w : w.pair # p => (w \in pairingWires' <=> w \in pairingWires)
  /\ UNCHANGED <<batches, received, confirmed>>

LEMMA PairAlone ==
  ASSUME PairingInv, NEW p \in Pairs, PairStep(p),
         PairHolds(p, row'["inviter"][p], row'["joiner"][p], invite'[p], expired', pairingWires', answer'["joiner"])
  PROVE  PairingInv'
<1>0. PairingTypes /\ TransfersHold
  BY DEF PairingInv
<1>1. PairingTypes' /\ TransfersHold'
  BY <1>0 DEF PairStep, PairingTypes, TransfersHold, Pairing!DeliveredIsMerged, Pairing!Devices
<1>2. ASSUME NEW q \in Pairs, q # p
      PROVE  PairHolds(q, row'["inviter"][q], row'["joiner"][q], invite'[q], expired', pairingWires', answer'["joiner"])
  <2>1. q \in expired' <=> q \in expired
    BY <1>2 DEF PairStep
  <2>2. (JoinSent(q, pairingWires') <=> JoinSent(q, pairingWires)) /\ (OfferTaken(q, pairingWires') <=> OfferTaken(q, pairingWires))
    BY <1>2 DEF PairStep, JoinSent, OfferTaken
  <2>3. PairHolds(q, row["inviter"][q], row["joiner"][q], invite[q], expired, pairingWires, answer["joiner"])
    BY DEF PairingInv
  <2>4. AnswerHolds(q, row["inviter"][q], invite[q], expired', answer'["joiner"])
    BY <1>2, <2>1, <2>3 DEF PairStep, PairHolds, AnswerHolds, NeverActive
  <2>5. row'["inviter"][q] = row["inviter"][q] /\ row'["joiner"][q] = row["joiner"][q] /\ invite'[q] = invite[q]
    BY <1>2 DEF PairStep
  <2> QED BY <1>2, <2>1, <2>2, <2>3, <2>4, <2>5 DEF PairHolds, InStep, ApprovalsHold, EndsHold, NeverActive
<1> QED BY <1>1, <1>2 DEF PairingInv

LEMMA RowChanges ==
  ASSUME NEW f \in [{"inviter", "joiner"} -> [Pairs -> PairRow]], NEW d \in {"inviter", "joiner"},
         NEW p \in Pairs, NEW r \in PairRow
  PROVE  LET g == [f EXCEPT ![d][p] = r] IN
         /\ g \in [{"inviter", "joiner"} -> [Pairs -> PairRow]] /\ g[d][p] = r
         /\ \A e \in {"inviter", "joiner"} : e # d => g[e][p] = f[e][p]
         /\ \A e \in {"inviter", "joiner"}, q \in Pairs : q # p => g[e][q] = f[e][q]
OBVIOUS

\* Invitations, and the approval of the inviter's owner.
LEMMA InviterKeepsPair ==
  ASSUME PairingInv, NEW p \in Pairs,
         \/ Pairing!CreateInvite(p) \/ Pairing!Expire(p) \/ Pairing!CancelInvite(p) \/ Pairing!StartJoin(p)
         \/ Pairing!Approve(p) \/ Pairing!ReceiveJoin(p)
  PROVE  PairingInv'
<1> DEFINE i == row["inviter"][p]
           j == row["joiner"][p]
<1>0. /\ row \in [{"inviter", "joiner"} -> [Pairs -> PairRow]] /\ i \in PairRow /\ j \in PairRow
      /\ answer \in [{"inviter", "joiner"} -> PairAnswers \cup {NoAnswer}]
      /\ invite \in [Pairs -> {"none", "open", "claimed", "cancelled"}]
      /\ PairHolds(p, i, j, invite[p], expired, pairingWires, answer["joiner"])
  BY DEF PairingInv, PairingTypes
<1>1. CASE Pairing!CreateInvite(p)
  <2>1. /\ invite[p] = "none" /\ invite' = [invite EXCEPT ![p] = "open"]
        /\ UNCHANGED <<expired, row, pairingWires, answer, batches, received, confirmed>>
    BY <1>1 DEF Pairing!CreateInvite, Pairing!transferVars
  <2>2. PairStep(p) /\ invite'[p] = "open"
    BY <1>0, <2>1 DEF PairStep
  <2> QED BY <1>0, <2>1, <2>2, PairAlone
          DEF PairHolds, InStep, ApprovalsHold, EndsHold, AnswerHolds, NeverActive, Stood
<1>2. CASE Pairing!Expire(p)
  <2>1. expired' = expired \cup {p} /\ UNCHANGED <<invite, row, pairingWires, answer, batches, received, confirmed>>
    BY <1>2 DEF Pairing!Expire, Pairing!transferVars
  <2>2. PairStep(p)
    BY <1>0, <2>1 DEF PairStep
  <2> QED BY <1>0, <2>1, <2>2, PairAlone
          DEF PairHolds, InStep, ApprovalsHold, EndsHold, AnswerHolds, NeverActive
<1>3. CASE Pairing!CancelInvite(p)
  <2>1. /\ i.status # "active" /\ invite' = [invite EXCEPT ![p] = "cancelled"]
        /\ IF i.status \in {"none", "gone"} THEN UNCHANGED row
           ELSE row' = [row EXCEPT !["inviter"][p] = [i EXCEPT !.status = "rejected"]]
        /\ UNCHANGED <<expired, pairingWires, answer, batches, received, confirmed>>
    BY <1>3 DEF Pairing!CancelInvite, Pairing!Status, Pairing!Move, Pairing!Set, Pairing!transferVars
  <2>2. invite' \in [Pairs -> {"none", "open", "claimed", "cancelled"}] /\ invite'[p] = "cancelled"
        /\ \A q \in Pairs : q # p => invite'[q] = invite[q]
    BY <1>0, <2>1
  <2>3. CASE UNCHANGED row
    <3>1. PairStep(p)
      BY <1>0, <2>1, <2>2, <2>3 DEF PairStep
    <3> QED BY <1>0, <2>1, <2>2, <2>3, <3>1, PairAlone
            DEF PairHolds, InStep, ApprovalsHold, EndsHold, AnswerHolds, NeverActive, Stood
  <2>4. CASE row' = [row EXCEPT !["inviter"][p] = [i EXCEPT !.status = "rejected"]] /\ i.status \notin {"none", "gone"}
    <3> DEFINE r == [i EXCEPT !.status = "rejected"]
    <3>1. r \in PairRow /\ r.status = "rejected" /\ r.approved = i.approved /\ r.local = i.local /\ r.remote = i.remote
      BY <1>0 DEF PairRow
    <3>2. row' = [row EXCEPT !["inviter"][p] = r]
      BY <2>4
    <3> HIDE DEF r
    <3>3. /\ row' \in [{"inviter", "joiner"} -> [Pairs -> PairRow]] /\ row'["inviter"][p] = r /\ row'["joiner"][p] = j
          /\ \A e \in {"inviter", "joiner"}, q \in Pairs : q # p => row'[e][q] = row[e][q]
      BY <1>0, <3>1, <3>2, RowChanges
    <3>4. PairStep(p)
      BY <1>0, <2>1, <2>2, <3>3 DEF PairStep
    <3>5. PairHolds(p, r, j, "cancelled", expired, pairingWires, answer["joiner"])
      BY <1>0, <2>1, <2>4, <3>1 DEF PairHolds, InStep, ApprovalsHold, EndsHold, AnswerHolds, NeverActive, Stood, Over, NotAhead
    <3> QED BY <2>1, <2>2, <3>3, <3>4, <3>5, PairAlone
  <2> QED BY <2>1, <2>3, <2>4
<1>4. CASE Pairing!StartJoin(p)
  <2> DEFINE r == [j EXCEPT !.status = "awaiting_inviter"]
  <2>1. /\ j.status = "none" /\ row' = [row EXCEPT !["joiner"][p] = r]
        /\ pairingWires' = pairingWires \cup {[kind |-> "join", pair |-> p]}
        /\ UNCHANGED <<invite, expired, answer, batches, received, confirmed>>
    BY <1>4 DEF Pairing!StartJoin, Pairing!Status, Pairing!Move, Pairing!Set, Pairing!transferVars
  <2>2. r \in PairRow /\ r.status = "awaiting_inviter" /\ r.approved = j.approved /\ r.local = j.local /\ r.remote = j.remote
    BY <1>0 DEF PairRow
  <2> HIDE DEF r
  <2>3. /\ row' \in [{"inviter", "joiner"} -> [Pairs -> PairRow]] /\ row'["joiner"][p] = r /\ row'["inviter"][p] = i
        /\ \A e \in {"inviter", "joiner"}, q \in Pairs : q # p => row'[e][q] = row[e][q]
    BY <1>0, <2>1, <2>2, RowChanges
  <2>4. PairStep(p)
    BY <1>0, <2>1, <2>3 DEF PairStep
  <2>5. (OfferTaken(p, pairingWires') <=> OfferTaken(p, pairingWires)) /\ ~ OfferTaken(p, pairingWires)
    BY <1>0, <2>1 DEF OfferTaken, PairHolds, InStep
  <2>6. PairHolds(p, i, r, invite[p], expired, pairingWires', answer["joiner"])
    BY <1>0, <2>1, <2>2, <2>5 DEF PairHolds, InStep, ApprovalsHold, EndsHold, Over, NotAhead
  <2> QED BY <2>1, <2>3, <2>4, <2>6, PairAlone
<1>5. CASE Pairing!Approve(p)
  <2> DEFINE r == [i EXCEPT !.status = "awaiting_peer", !.approved = TRUE, !.local = Pairing!FirstPolicy,
                            !.remote = Pairing!FirstPolicy]
  <2>1. /\ i.status = "awaiting_owner" /\ row' = [row EXCEPT !["inviter"][p] = r]
        /\ p \notin expired /\ UNCHANGED <<invite, expired, pairingWires, answer, batches, received, confirmed>>
    BY <1>5 DEF Pairing!Approve, Pairing!Status, Pairing!Set, Pairing!transferVars
  <2>2. Pairing!FirstPolicy \in Policies
    BY DEF Pairing!FirstPolicy, Policies
  <2>3. r \in PairRow /\ r.status = "awaiting_peer" /\ r.approved /\ r.local = Pairing!FirstPolicy /\ r.remote = Pairing!FirstPolicy
    BY <1>0, <2>2 DEF PairRow
  <2> HIDE DEF r
  <2>4. /\ row' \in [{"inviter", "joiner"} -> [Pairs -> PairRow]] /\ row'["inviter"][p] = r /\ row'["joiner"][p] = j
        /\ \A e \in {"inviter", "joiner"}, q \in Pairs : q # p => row'[e][q] = row[e][q]
    BY <1>0, <2>1, <2>3, RowChanges
  <2>5. PairStep(p)
    BY <1>0, <2>1, <2>4 DEF PairStep
  <2>6. ~ j.approved /\ ~ i.approved
    BY <1>0, <2>1 DEF PairHolds, ApprovalsHold
  <2>7. PairHolds(p, r, j, invite[p], expired, pairingWires, answer["joiner"])
    BY <1>0, <2>1, <2>3, <2>6 DEF PairHolds, InStep, ApprovalsHold, EndsHold, AnswerHolds, NeverActive, Stood, Over
  <2> QED BY <2>1, <2>4, <2>5, <2>7, PairAlone
<1>6. CASE Pairing!ReceiveJoin(p)
  <2>1. PICK s \in {"rejected", "expired", "offer", "pending"} :
          /\ s = "offer" => i.approved
          /\ \/ answer' = [answer EXCEPT !["joiner"] = [kind |-> "join", pair |-> p, state |-> s]]
             \/ answer' = answer
    BY <1>6 DEF Pairing!ReceiveJoin, Pairing!Answered
  <2>2. /\ JoinSent(p, pairingWires) /\ UNCHANGED <<expired, pairingWires, batches, received, confirmed>>
        /\ \/ UNCHANGED <<row, invite>>
           \/ /\ i.status = "none" /\ invite[p] # "cancelled"
              /\ row' = [row EXCEPT !["inviter"][p] = [i EXCEPT !.status = "awaiting_owner"]]
              /\ invite' = [invite EXCEPT ![p] = "claimed"]
    BY <1>6 DEF Pairing!ReceiveJoin, Pairing!Wire, Pairing!Move, Pairing!Set, Pairing!transferVars, JoinSent
  <2>3. /\ answer' \in [{"inviter", "joiner"} -> PairAnswers \cup {NoAnswer}]
        /\ \/ answer'["joiner"] = answer["joiner"]
           \/ /\ answer'["joiner"].pair = p /\ answer'["joiner"].kind = "join"
              /\ answer'["joiner"].state = "offer" => i.approved
    <3>1. [kind |-> "join", pair |-> p, state |-> s] \in PairAnswers
      BY DEF PairAnswers
    <3> QED BY <1>0, <2>1, <3>1
  <2>4. AnswerHolds(p, i, invite[p], expired, answer'["joiner"])
    BY <1>0, <2>3 DEF PairHolds, AnswerHolds
  <2>5. CASE UNCHANGED <<row, invite>>
    <3>1. PairStep(p)
      BY <1>0, <2>2, <2>3, <2>5 DEF PairStep
    <3> QED BY <1>0, <2>2, <2>4, <2>5, <3>1, PairAlone DEF PairHolds
  <2>6. CASE /\ i.status = "none" /\ invite[p] # "cancelled"
             /\ row' = [row EXCEPT !["inviter"][p] = [i EXCEPT !.status = "awaiting_owner"]]
             /\ invite' = [invite EXCEPT ![p] = "claimed"]
    <3> DEFINE r == [i EXCEPT !.status = "awaiting_owner"]
    <3>1. r \in PairRow /\ r.status = "awaiting_owner" /\ r.approved = i.approved /\ r.local = i.local /\ r.remote = i.remote
      BY <1>0 DEF PairRow
    <3>2. row' = [row EXCEPT !["inviter"][p] = r]
      BY <2>6
    <3> HIDE DEF r
    <3>3. /\ row' \in [{"inviter", "joiner"} -> [Pairs -> PairRow]] /\ row'["inviter"][p] = r /\ row'["joiner"][p] = j
          /\ \A e \in {"inviter", "joiner"}, q \in Pairs : q # p => row'[e][q] = row[e][q]
      BY <1>0, <3>1, <3>2, RowChanges
    <3>4. invite' \in [Pairs -> {"none", "open", "claimed", "cancelled"}] /\ invite'[p] = "claimed"
          /\ \A q \in Pairs : q # p => invite'[q] = invite[q]
      BY <1>0, <2>6
    <3>5. PairStep(p)
      BY <1>0, <2>2, <2>3, <3>3, <3>4 DEF PairStep
    <3>6. ~ i.approved
      BY <1>0, <2>6 DEF PairHolds, ApprovalsHold
    <3>7. PairHolds(p, r, j, "claimed", expired, pairingWires, answer'["joiner"])
      BY <1>0, <2>2, <2>4, <2>6, <3>1, <3>6 DEF PairHolds, InStep, ApprovalsHold, EndsHold, AnswerHolds, NeverActive, Stood, Over
    <3> QED BY <2>2, <3>3, <3>4, <3>5, <3>7, PairAlone
  <2> QED BY <2>2, <2>5, <2>6
<1> QED BY <1>1, <1>2, <1>3, <1>4, <1>5, <1>6

\* The offer and its confirmation.
LEMMA JoinerKeepsPair ==
  ASSUME PairingInv, NEW p \in Pairs,
         Pairing!AcceptOffer(p) \/ Pairing!ReceiveConfirm(p) \/ Pairing!Acknowledged(p)
  PROVE  PairingInv'
<1> DEFINE i == row["inviter"][p]
           j == row["joiner"][p]
           a == answer["joiner"]
<1>0. /\ row \in [{"inviter", "joiner"} -> [Pairs -> PairRow]] /\ i \in PairRow /\ j \in PairRow
      /\ answer \in [{"inviter", "joiner"} -> PairAnswers \cup {NoAnswer}]
      /\ invite \in [Pairs -> {"none", "open", "claimed", "cancelled"}]
      /\ PairHolds(p, i, j, invite[p], expired, pairingWires, a)
  BY DEF PairingInv, PairingTypes
<1>1. CASE Pairing!AcceptOffer(p)
  <2>1. /\ a # NoAnswer /\ a.kind = "join" /\ a.pair = p /\ answer' = [answer EXCEPT !["joiner"] = NoAnswer]
        /\ UNCHANGED <<invite, expired, batches, received, confirmed>>
    BY <1>1 DEF Pairing!AcceptOffer, Pairing!transferVars
  <2>2. a \in PairAnswers /\ answer'["joiner"] = NoAnswer
        /\ answer' \in [{"inviter", "joiner"} -> PairAnswers \cup {NoAnswer}]
    BY <1>0, <2>1
  <2>3. AnswerHolds(p, i, invite[p], expired, NoAnswer)
    BY DEF AnswerHolds
  <2>4. CASE UNCHANGED <<row, pairingWires>>
    <3>1. PairStep(p)
      BY <1>0, <2>1, <2>2, <2>4 DEF PairStep
    <3> QED BY <1>0, <2>1, <2>2, <2>3, <2>4, <3>1, PairAlone DEF PairHolds
  <2>5. CASE /\ j.status = "awaiting_inviter"
             /\ row' = [row EXCEPT !["joiner"][p] = [j EXCEPT !.status = "rejected"]] /\ UNCHANGED pairingWires
    <3> DEFINE r == [j EXCEPT !.status = "rejected"]
    <3>1. r \in PairRow /\ r.status = "rejected" /\ r.approved = j.approved /\ r.local = j.local /\ r.remote = j.remote
      BY <1>0 DEF PairRow
    <3>2. row' = [row EXCEPT !["joiner"][p] = r]
      BY <2>5
    <3> HIDE DEF r
    <3>3. /\ row' \in [{"inviter", "joiner"} -> [Pairs -> PairRow]] /\ row'["joiner"][p] = r /\ row'["inviter"][p] = i
          /\ \A e \in {"inviter", "joiner"}, q \in Pairs : q # p => row'[e][q] = row[e][q]
      BY <1>0, <3>1, <3>2, RowChanges
    <3>4. PairStep(p)
      BY <1>0, <2>1, <2>2, <2>5, <3>3 DEF PairStep
    <3>5. PairHolds(p, i, r, invite[p], expired, pairingWires, NoAnswer)
      BY <1>0, <2>3, <2>5, <3>1 DEF PairHolds, InStep, ApprovalsHold, EndsHold, NotAhead, Over
    <3> QED BY <2>1, <2>2, <2>5, <3>3, <3>4, <3>5, PairAlone
  <2>6. CASE /\ j.status = "awaiting_inviter" /\ a.state \notin {"pending", "expired", "rejected"}
             /\ row' = [row EXCEPT !["joiner"][p] = [j EXCEPT !.status = "awaiting_ack", !.approved = TRUE,
                                                     !.local = Pairing!FirstPolicy, !.remote = Pairing!FirstPolicy]]
             /\ pairingWires' = pairingWires \cup {[kind |-> "confirm", pair |-> p]}
    <3> DEFINE r == [j EXCEPT !.status = "awaiting_ack", !.approved = TRUE,
                              !.local = Pairing!FirstPolicy, !.remote = Pairing!FirstPolicy]
    <3>1. Pairing!FirstPolicy \in Policies
      BY DEF Pairing!FirstPolicy, Policies
    <3>2. r \in PairRow /\ r.status = "awaiting_ack" /\ r.approved /\ r.local = Pairing!FirstPolicy /\ r.remote = Pairing!FirstPolicy
      BY <1>0, <3>1 DEF PairRow
    <3>3. row' = [row EXCEPT !["joiner"][p] = r]
      BY <2>6
    <3> HIDE DEF r
    <3>4. /\ row' \in [{"inviter", "joiner"} -> [Pairs -> PairRow]] /\ row'["joiner"][p] = r /\ row'["inviter"][p] = i
          /\ \A e \in {"inviter", "joiner"}, q \in Pairs : q # p => row'[e][q] = row[e][q]
      BY <1>0, <3>2, <3>3, RowChanges
    <3>5. PairStep(p)
      BY <1>0, <2>1, <2>2, <2>6, <3>4 DEF PairStep
    <3>6. OfferTaken(p, pairingWires') /\ ~ OfferTaken(p, pairingWires)
          /\ (JoinSent(p, pairingWires') <=> JoinSent(p, pairingWires))
      BY <1>0, <2>6 DEF OfferTaken, JoinSent, PairHolds, InStep
    \* The only answer that is left is an offer.
    <3>7. a.state = "offer"
      BY <2>1, <2>2, <2>6 DEF PairAnswers
    <3>8. i.approved \/ i.status = "gone"
      BY <1>0, <2>1, <3>7 DEF PairHolds, AnswerHolds
    <3>9. i.approved => NotAhead(i, r) /\ NotAhead(r, i)
      BY <1>0, <3>1, <3>2, <3>6 DEF PairHolds, ApprovalsHold, NotAhead, Policies
    <3>10. PairHolds(p, i, r, invite[p], expired, pairingWires', NoAnswer)
      BY <1>0, <2>3, <2>6, <3>2, <3>6, <3>8, <3>9 DEF PairHolds, InStep, ApprovalsHold, EndsHold, Over
    <3> QED BY <2>1, <2>2, <3>4, <3>5, <3>10, PairAlone
  <2> QED BY <1>1, <2>4, <2>5, <2>6 DEF Pairing!AcceptOffer, Pairing!Move, Pairing!Set, Pairing!Wire
<1>2. CASE Pairing!ReceiveConfirm(p)
  <2> DEFINE s == i.status
             says == IF s \in {"revoked", "rejected"} THEN "rejected"
                     ELSE IF Pairing!ExpiredConfirm(p, s) THEN "expired" ELSE "active"
             r == [i EXCEPT !.status = "active"]
  <2>1. /\ OfferTaken(p, pairingWires) /\ s \in {"revoked", "rejected", "awaiting_peer", "active"}
        /\ IF says = "active" THEN row' = [row EXCEPT !["inviter"][p] = r] ELSE UNCHANGED row
        /\ answer' = [answer EXCEPT !["joiner"] = [kind |-> "confirm", pair |-> p, state |-> says]] \/ answer' = answer
        /\ UNCHANGED <<invite, expired, pairingWires, batches, received, confirmed>>
    BY <1>2 DEF Pairing!ReceiveConfirm, Pairing!Status, Pairing!Wire, Pairing!Move, Pairing!Set, Pairing!Answered,
                Pairing!transferVars, OfferTaken
  <2>2. /\ says \in {"rejected", "expired", "active"}
        /\ says = "active" => s \in {"awaiting_peer", "active"} /\ ~ (s # "active" /\ p \in expired)
        /\ says # "active" => NeverActive(p, i, expired)
    BY <2>1 DEF Pairing!ExpiredConfirm, NeverActive, Over
  <2>3. r \in PairRow /\ r.status = "active" /\ r.approved = i.approved /\ r.local = i.local /\ r.remote = i.remote
    BY <1>0 DEF PairRow
  <2> HIDE DEF says, r
  <2>4. /\ answer' \in [{"inviter", "joiner"} -> PairAnswers \cup {NoAnswer}]
        /\ \/ answer'["joiner"] = a
           \/ /\ answer'["joiner"].pair = p /\ answer'["joiner"].kind = "confirm" /\ answer'["joiner"].state = says
    <3>1. [kind |-> "confirm", pair |-> p, state |-> says] \in PairAnswers
      BY <2>2 DEF PairAnswers
    <3> QED BY <1>0, <2>1, <3>1
  <2>5. CASE says = "active"
    <3>1. /\ row' \in [{"inviter", "joiner"} -> [Pairs -> PairRow]] /\ row'["inviter"][p] = r /\ row'["joiner"][p] = j
          /\ \A e \in {"inviter", "joiner"}, q \in Pairs : q # p => row'[e][q] = row[e][q]
      BY <1>0, <2>1, <2>3, <2>5, RowChanges
    <3>2. PairStep(p)
      BY <1>0, <2>1, <2>4, <3>1 DEF PairStep
    <3>3. i.approved /\ ~ NeverActive(p, i, expired)
      BY <1>0, <2>2, <2>5 DEF PairHolds, ApprovalsHold, NeverActive, Over
    <3>4. j.status \in {"awaiting_ack", "active", "revoked"}
      BY <1>0, <2>1, <3>3 DEF PairHolds, InStep
    <3>5. InStep(p, r, j, expired, pairingWires) /\ ApprovalsHold(p, r, j, pairingWires)
      BY <1>0, <2>1, <2>2, <2>3, <2>5, <3>3, <3>4 DEF PairHolds, InStep, ApprovalsHold, NotAhead
    <3>6. EndsHold(p, r, j, invite[p], pairingWires)
      BY <1>0, <2>1, <2>2, <2>3, <2>5, <3>4 DEF PairHolds, EndsHold, Stood, Over
    <3>7. AnswerHolds(p, r, invite[p], expired, a)
      BY <1>0, <2>3, <3>3 DEF PairHolds, AnswerHolds, Stood
    <3>8. AnswerHolds(p, r, invite[p], expired, answer'["joiner"])
      BY <2>3, <2>4, <2>5, <3>7 DEF AnswerHolds, Stood
    <3> QED BY <2>1, <3>1, <3>2, <3>5, <3>6, <3>8, PairAlone DEF PairHolds
  <2>6. CASE says # "active"
    <3>1. PairStep(p)
      BY <1>0, <2>1, <2>4, <2>6 DEF PairStep
    <3>2. AnswerHolds(p, i, invite[p], expired, answer'["joiner"])
      BY <1>0, <2>2, <2>4, <2>6 DEF PairHolds, AnswerHolds
    <3> QED BY <1>0, <2>1, <2>6, <3>1, <3>2, PairAlone DEF PairHolds
  <2> QED BY <2>5, <2>6
<1>3. CASE Pairing!Acknowledged(p)
  <2> DEFINE s == IF a.state = "active" THEN "active" ELSE "rejected"
             r == [j EXCEPT !.status = s]
  <2>1. /\ a # NoAnswer /\ a.kind = "confirm" /\ a.pair = p /\ answer' = [answer EXCEPT !["joiner"] = NoAnswer]
        /\ \/ UNCHANGED row
           \/ j.status = "awaiting_ack" /\ row' = [row EXCEPT !["joiner"][p] = r]
        /\ UNCHANGED <<invite, expired, pairingWires, batches, received, confirmed>>
    BY <1>3 DEF Pairing!Acknowledged, Pairing!Status, Pairing!Move, Pairing!Set, Pairing!transferVars
  <2>2. answer'["joiner"] = NoAnswer /\ answer' \in [{"inviter", "joiner"} -> PairAnswers \cup {NoAnswer}]
    BY <1>0, <2>1
  <2>3. r \in PairRow /\ r.status = s /\ r.approved = j.approved /\ r.local = j.local /\ r.remote = j.remote
    BY <1>0 DEF PairRow
  <2>4. /\ s = "active" => Stood(i, invite[p])
        /\ s # "active" => s = "rejected" /\ NeverActive(p, i, expired)
    BY <1>0, <2>1 DEF PairHolds, AnswerHolds
  <2>5. AnswerHolds(p, i, invite[p], expired, NoAnswer)
    BY DEF AnswerHolds
  <2> HIDE DEF r, s
  <2>6. CASE UNCHANGED row
    <3>1. PairStep(p)
      BY <1>0, <2>1, <2>2, <2>6 DEF PairStep
    <3> QED BY <1>0, <2>1, <2>2, <2>5, <2>6, <3>1, PairAlone DEF PairHolds
  <2>7. CASE j.status = "awaiting_ack" /\ row' = [row EXCEPT !["joiner"][p] = r]
    <3>1. /\ row' \in [{"inviter", "joiner"} -> [Pairs -> PairRow]] /\ row'["joiner"][p] = r /\ row'["inviter"][p] = i
          /\ \A e \in {"inviter", "joiner"}, q \in Pairs : q # p => row'[e][q] = row[e][q]
      BY <1>0, <2>3, <2>7, RowChanges
    <3>2. PairStep(p)
      BY <1>0, <2>1, <2>2, <3>1 DEF PairStep
    <3>3. j.approved /\ OfferTaken(p, pairingWires)
      BY <1>0, <2>7 DEF PairHolds, ApprovalsHold
    <3>4. PairHolds(p, i, r, invite[p], expired, pairingWires, NoAnswer)
      BY <1>0, <2>3, <2>4, <2>5, <2>7, <3>3 DEF PairHolds, InStep, ApprovalsHold, EndsHold, NotAhead, Over
    <3> QED BY <2>1, <2>2, <3>1, <3>2, <3>4, PairAlone
  <2> QED BY <2>1, <2>6, <2>7
<1> QED BY <1>1, <1>2, <1>3

\* A change of one side's row, with the requests and answers as they are.
LEMMA RowKeepsPair ==
  ASSUME PairingInv, NEW p \in Pairs, NEW d \in {"inviter", "joiner"}, NEW r \in PairRow,
         row' = [row EXCEPT ![d][p] = r],
         UNCHANGED <<invite, expired, pairingWires, answer, batches, received, confirmed>>,
         PairHolds(p, IF d = "inviter" THEN r ELSE row["inviter"][p], IF d = "joiner" THEN r ELSE row["joiner"][p],
                   invite[p], expired, pairingWires, answer["joiner"])
  PROVE  PairingInv'
<1>0. /\ row \in [{"inviter", "joiner"} -> [Pairs -> PairRow]]
      /\ answer \in [{"inviter", "joiner"} -> PairAnswers \cup {NoAnswer}]
      /\ invite \in [Pairs -> {"none", "open", "claimed", "cancelled"}]
  BY DEF PairingInv, PairingTypes
<1>1. /\ row' \in [{"inviter", "joiner"} -> [Pairs -> PairRow]] /\ row'[d][p] = r
      /\ \A e \in {"inviter", "joiner"} : e # d => row'[e][p] = row[e][p]
      /\ \A e \in {"inviter", "joiner"}, q \in Pairs : q # p => row'[e][q] = row[e][q]
  BY <1>0, RowChanges
<1>2. PairStep(p)
  BY <1>0, <1>1 DEF PairStep
<1>3. /\ row'["inviter"][p] = IF d = "inviter" THEN r ELSE row["inviter"][p]
      /\ row'["joiner"][p] = IF d = "joiner" THEN r ELSE row["joiner"][p]
  BY <1>1
<1> QED BY <1>2, <1>3, PairAlone

\* Policies and removals.
LEMMA RowsKeepPair ==
  ASSUME PairingInv, NEW p \in Pairs, NEW d \in {"inviter", "joiner"},
         Pairing!Configure(d, p) \/ Pairing!Revoke(d, p) \/ Pairing!Compact(d, p)
  PROVE  PairingInv'
<1> DEFINE i == row["inviter"][p]
           j == row["joiner"][p]
           o == row[d][p]
<1>0. /\ row \in [{"inviter", "joiner"} -> [Pairs -> PairRow]] /\ i \in PairRow /\ j \in PairRow /\ o \in PairRow
      /\ PairHolds(p, i, j, invite[p], expired, pairingWires, answer["joiner"])
  BY DEF PairingInv, PairingTypes
<1>1. CASE Pairing!Configure(d, p)
  <2> DEFINE l == [revision |-> o.local.revision + 1, on |-> ~ o.local.on]
             r == [o EXCEPT !.local = l]
  <2>1. /\ o.status = "active" /\ row' = [row EXCEPT ![d][p] = r]
        /\ UNCHANGED <<invite, expired, pairingWires, answer, batches, received, confirmed>>
    BY <1>1 DEF Pairing!Configure, Pairing!Status, Pairing!Set, Pairing!transferVars
  <2>2. l \in Policies /\ l.revision > o.local.revision
    BY <1>0 DEF PairRow, Policies
  <2> HIDE DEF l
  <2>3. /\ r \in PairRow /\ r.status = "active" /\ r.approved = o.approved /\ r.local = l /\ r.remote = o.remote
        /\ r.removal = o.removal
    BY <1>0, <2>1, <2>2 DEF PairRow
  <2> HIDE DEF r
  <2>4. OfferTaken(p, pairingWires)
    BY <1>0, <2>1 DEF PairHolds, InStep, ApprovalsHold
  <2>5. ASSUME NEW x \in PairRow, NEW y \in PairRow, NEW z \in PairRow, x.remote = z.remote, y.local = l, NotAhead(z, o)
        PROVE  NotAhead(x, y)
    BY <1>0, <2>2, <2>5 DEF NotAhead, PairRow, Policies
  <2>6. CASE d = "inviter"
    <3>1. NotAhead(j, o) => NotAhead(j, r)
      BY <1>0, <2>3, <2>5
    <3>2. NotAhead(o, j) => NotAhead(r, j)
      BY <2>3 DEF NotAhead
    <3>3. PairHolds(p, r, j, invite[p], expired, pairingWires, answer["joiner"])
      BY <1>0, <2>1, <2>3, <2>4, <2>6, <3>1, <3>2
         DEF PairHolds, InStep, ApprovalsHold, EndsHold, AnswerHolds, NeverActive, Stood, Over
    <3> QED BY <2>1, <2>3, <2>6, <3>3, RowKeepsPair
  <2>7. CASE d = "joiner"
    <3>1. NotAhead(i, o) => NotAhead(i, r)
      BY <1>0, <2>3, <2>5
    <3>2. NotAhead(o, i) => NotAhead(r, i)
      BY <2>3 DEF NotAhead
    <3>3. PairHolds(p, i, r, invite[p], expired, pairingWires, answer["joiner"])
      BY <1>0, <2>1, <2>3, <2>4, <2>7, <3>1, <3>2 DEF PairHolds, InStep, ApprovalsHold, EndsHold, Over
    <3> QED BY <2>1, <2>3, <2>7, <3>3, RowKeepsPair
  <2> QED BY <2>6, <2>7
<1>2. CASE Pairing!Revoke(d, p)
  <2> DEFINE r == [o EXCEPT !.status = "revoked", !.removal = TRUE]
  <2>1. /\ o.status \notin {"none", "revoked", "gone"} /\ row' = [row EXCEPT ![d][p] = r]
        /\ UNCHANGED <<invite, expired, pairingWires, answer, batches, received, confirmed>>
    BY <1>2 DEF Pairing!Revoke, Pairing!Status, Pairing!Set, Pairing!transferVars
  <2>2. /\ r \in PairRow /\ r.status = "revoked" /\ r.approved = o.approved /\ r.local = o.local /\ r.remote = o.remote
        /\ r.removal
    BY <1>0 DEF PairRow
  <2> HIDE DEF r
  <2>3. CASE d = "inviter"
    <3>1. PairHolds(p, r, j, invite[p], expired, pairingWires, answer["joiner"])
      BY <1>0, <2>1, <2>2, <2>3
         DEF PairHolds, InStep, ApprovalsHold, EndsHold, AnswerHolds, NeverActive, Stood, Over, NotAhead
    <3> QED BY <2>1, <2>2, <2>3, <3>1, RowKeepsPair
  <2>4. CASE d = "joiner"
    <3>1. PairHolds(p, i, r, invite[p], expired, pairingWires, answer["joiner"])
      BY <1>0, <2>1, <2>2, <2>4 DEF PairHolds, InStep, ApprovalsHold, EndsHold, Over, NotAhead
    <3> QED BY <2>1, <2>2, <2>4, <3>1, RowKeepsPair
  <2> QED BY <2>3, <2>4
<1>3. CASE Pairing!Compact(d, p)
  <2> DEFINE r == [Pairing!NoRow EXCEPT !.status = "gone"]
  <2>1. /\ o.status = "rejected" /\ row' = [row EXCEPT ![d][p] = r] /\ (d = "inviter" => invite[p] = "cancelled")
        /\ UNCHANGED <<invite, expired, pairingWires, answer, batches, received, confirmed>>
    BY <1>3 DEF Pairing!Compact, Pairing!Status, Pairing!Set, Pairing!transferVars
  <2>2. r \in PairRow /\ r.status = "gone" /\ ~ r.approved
    BY DEF PairRow, Policies, Pairing!NoRow, Pairing!NoPolicy
  <2> HIDE DEF r
  <2>3. CASE d = "inviter"
    <3>1. PairHolds(p, r, j, invite[p], expired, pairingWires, answer["joiner"])
      BY <1>0, <2>1, <2>2, <2>3
         DEF PairHolds, InStep, ApprovalsHold, EndsHold, AnswerHolds, NeverActive, Stood, Over, NotAhead
    <3> QED BY <2>1, <2>2, <2>3, <3>1, RowKeepsPair
  <2>4. CASE d = "joiner"
    <3>1. PairHolds(p, i, r, invite[p], expired, pairingWires, answer["joiner"])
      BY <1>0, <2>1, <2>2, <2>4 DEF PairHolds, InStep, ApprovalsHold, EndsHold, Over, NotAhead
    <3> QED BY <2>1, <2>2, <2>4, <3>1, RowKeepsPair
  <2> QED BY <2>3, <2>4
<1> QED BY <1>1, <1>2, <1>3

\* A newer policy is taken, and an older one changes nothing.
LEMMA PolicyIsTaken ==
  ASSUME NEW r \in PairRow, NEW s \in PairRow, NotAhead(r, s)
  PROVE  LET t == [r EXCEPT !.remote = Pairing!Newer(r.remote, s.local)] IN
         /\ t \in PairRow /\ t.status = r.status /\ t.approved = r.approved /\ t.local = r.local /\ t.removal = r.removal
         /\ t.remote = s.local
<1>1. Pairing!Newer(r.remote, s.local) = s.local
  BY DEF Pairing!Newer, NotAhead, PairRow, Policies
<1> QED BY <1>1 DEF PairRow

\* The exchange of policies and the delivery of a removal.
LEMMA CallsKeepPair ==
  ASSUME PairingInv, NEW p \in Pairs, NEW d \in {"inviter", "joiner"},
         Pairing!ExchangePolicy(d, p) \/ Pairing!RetryRemoval(d, p)
  PROVE  PairingInv'
<1> DEFINE i == row["inviter"][p]
           j == row["joiner"][p]
           e == Pairing!Other(d)
<1>0. /\ row \in [{"inviter", "joiner"} -> [Pairs -> PairRow]] /\ i \in PairRow /\ j \in PairRow
      /\ answer \in [{"inviter", "joiner"} -> PairAnswers \cup {NoAnswer}]
      /\ invite \in [Pairs -> {"none", "open", "claimed", "cancelled"}]
      /\ PairHolds(p, i, j, invite[p], expired, pairingWires, answer["joiner"])
  BY DEF PairingInv, PairingTypes
<1>1. e \in {"inviter", "joiner"} /\ e # d /\ (d = "inviter" <=> e = "joiner")
  BY DEF Pairing!Other
<1>2. CASE Pairing!ExchangePolicy(d, p)
  <2>1. /\ i.status = "active" /\ j.status = "active"
        /\ UNCHANGED <<invite, expired, pairingWires, answer, batches, received, confirmed>>
        /\ \/ row' = [row EXCEPT ![e][p].remote = Pairing!Newer(row[e][p].remote, row[d][p].local)]
           \/ row' = [row EXCEPT ![d][p].remote = Pairing!Newer(row[d][p].remote, row[e][p].local),
                                 ![e][p].remote = Pairing!Newer(row[e][p].remote, row[d][p].local)]
    BY <1>1, <1>2 DEF Pairing!ExchangePolicy, Pairing!Status, Pairing!TakesPolicy, Pairing!transferVars
  <2>2. i.approved /\ j.approved /\ OfferTaken(p, pairingWires) /\ NotAhead(i, j) /\ NotAhead(j, i)
    BY <1>0, <2>1 DEF PairHolds, InStep, ApprovalsHold
  <2> DEFINE t(r, s) == [r EXCEPT !.remote = Pairing!Newer(r.remote, s.local)]
  <2>3. /\ t(i, j) \in PairRow /\ t(i, j).status = i.status /\ t(i, j).approved = i.approved
        /\ t(i, j).local = i.local /\ t(i, j).removal = i.removal /\ t(i, j).remote = j.local
        /\ t(j, i) \in PairRow /\ t(j, i).status = j.status /\ t(j, i).approved = j.approved
        /\ t(j, i).local = j.local /\ t(j, i).removal = j.removal /\ t(j, i).remote = i.local
    <3>1. /\ t(i, j) \in PairRow /\ t(i, j).status = i.status /\ t(i, j).approved = i.approved
          /\ t(i, j).local = i.local /\ t(i, j).removal = i.removal /\ t(i, j).remote = j.local
      BY <1>0, <2>2, PolicyIsTaken
    <3>2. /\ t(j, i) \in PairRow /\ t(j, i).status = j.status /\ t(j, i).approved = j.approved
          /\ t(j, i).local = j.local /\ t(j, i).removal = j.removal /\ t(j, i).remote = i.local
      BY <1>0, <2>2, PolicyIsTaken
    <3> QED BY <3>1, <3>2
  <2>4. ASSUME NEW x \in {i, t(i, j)}, NEW y \in {j, t(j, i)}
        PROVE  PairHolds(p, x, y, invite[p], expired, pairingWires, answer["joiner"])
    <3> HIDE DEF t
    <3>1. /\ x.status = i.status /\ x.approved = i.approved /\ x.local = i.local /\ x.removal = i.removal
          /\ x.remote \in {i.remote, j.local}
          /\ y.status = j.status /\ y.approved = j.approved /\ y.local = j.local /\ y.removal = j.removal
          /\ y.remote \in {j.remote, i.local}
      BY <2>3
    <3>2. NotAhead(x, y) /\ NotAhead(y, x)
      BY <1>0, <2>2, <3>1 DEF NotAhead, PairRow, Policies
    <3>3. InStep(p, x, y, expired, pairingWires) /\ ApprovalsHold(p, x, y, pairingWires)
      BY <1>0, <2>1, <2>2, <3>1, <3>2 DEF PairHolds, InStep, ApprovalsHold, NeverActive, Over
    <3>4. EndsHold(p, x, y, invite[p], pairingWires) /\ AnswerHolds(p, x, invite[p], expired, answer["joiner"])
      BY <1>0, <2>1, <3>1 DEF PairHolds, EndsHold, AnswerHolds, NeverActive, Stood, Over
    <3> QED BY <3>3, <3>4 DEF PairHolds
  <2>5. /\ row' \in [{"inviter", "joiner"} -> [Pairs -> PairRow]]
        /\ row'["inviter"][p] \in {i, t(i, j)} /\ row'["joiner"][p] \in {j, t(j, i)}
        /\ \A c \in {"inviter", "joiner"}, q \in Pairs : q # p => row'[c][q] = row[c][q]
    <3>1. CASE d = "inviter"
      <4>1. \/ row' = [row EXCEPT !["joiner"][p] = t(j, i)]
            \/ row' = [[row EXCEPT !["inviter"][p] = t(i, j)] EXCEPT !["joiner"][p] = t(j, i)]
        BY <1>0, <1>1, <2>1, <3>1
      <4> HIDE DEF t
      <4> QED BY <1>0, <2>3, <4>1
    <3>2. CASE d = "joiner"
      <4>1. \/ row' = [row EXCEPT !["inviter"][p] = t(i, j)]
            \/ row' = [[row EXCEPT !["joiner"][p] = t(j, i)] EXCEPT !["inviter"][p] = t(i, j)]
        BY <1>0, <1>1, <2>1, <3>2
      <4> HIDE DEF t
      <4> QED BY <1>0, <2>3, <4>1
    <3> QED BY <3>1, <3>2
  <2> HIDE DEF t
  <2>6. PairStep(p)
    BY <1>0, <2>1, <2>5 DEF PairStep
  <2> QED BY <2>1, <2>4, <2>5, <2>6, PairAlone
<1>3. CASE Pairing!RetryRemoval(d, p)
  <2> DEFINE x == row[d][p]
             y == row[e][p]
             x2 == [x EXCEPT !.removal = FALSE]
             y2 == Pairing!Removed(y)
  <2>1. /\ x.status = "revoked" /\ x.removal
        /\ row' = [[row EXCEPT ![e][p] = y2] EXCEPT ![d][p] = x2] \/ row' = [row EXCEPT ![e][p] = y2]
        /\ UNCHANGED <<invite, expired, pairingWires, answer, batches, received, confirmed>>
    BY <1>0, <1>1, <1>3 DEF Pairing!RetryRemoval, Pairing!Status, Pairing!transferVars
  <2>2. x \in PairRow /\ y \in PairRow
    BY <1>0, <1>1
  <2>3. /\ x2 \in PairRow /\ x2.status = "revoked" /\ x2.approved = x.approved /\ x2.local = x.local /\ x2.remote = x.remote
    BY <2>1, <2>2 DEF PairRow
  <2>4. /\ y2 \in PairRow /\ y2.approved = y.approved /\ y2.local = y.local /\ y2.remote = y.remote
        /\ y2.removal = y.removal
        /\ y2.status = IF y.status \in {"none", "gone"} THEN y.status ELSE "revoked"
    BY <2>2 DEF PairRow, Pairing!Removed
  <2> HIDE DEF x2, y2
  <2>5. /\ row' \in [{"inviter", "joiner"} -> [Pairs -> PairRow]]
        /\ row'[e][p] = y2 /\ row'[d][p] \in {x, x2}
        /\ \A c \in {"inviter", "joiner"}, q \in Pairs : q # p => row'[c][q] = row[c][q]
    BY <1>0, <1>1, <2>1, <2>3, <2>4
  <2>6. PairStep(p)
    BY <1>0, <2>1, <2>5 DEF PairStep
  <2> HIDE DEF x, y
  <2>7. /\ row'[d][p].status = "revoked" /\ row'[d][p].approved = x.approved
        /\ row'[d][p].local = x.local /\ row'[d][p].remote = x.remote
    BY <2>1, <2>3, <2>5
  <2>8. CASE d = "inviter"
    <3>1. x = i /\ y = j /\ row'["joiner"][p] = y2
      BY <1>1, <2>5, <2>8 DEF x, y
    <3>2. y.status # "none"
      BY <1>0, <2>1, <3>1 DEF PairHolds, InStep
    <3>3. PairHolds(p, row'["inviter"][p], y2, invite[p], expired, pairingWires, answer["joiner"])
      BY <1>0, <2>1, <2>4, <2>7, <2>8, <3>1, <3>2
         DEF PairHolds, InStep, ApprovalsHold, EndsHold, AnswerHolds, NeverActive, Stood, Over, NotAhead
    <3> QED BY <2>1, <2>6, <3>1, <3>3, PairAlone
  <2>9. CASE d = "joiner"
    <3>1. x = j /\ y = i /\ row'["inviter"][p] = y2
      BY <1>1, <2>5, <2>9 DEF x, y
    <3>2. y.status = "none" => ~ OfferTaken(p, pairingWires)
      <4>1. y.status = "none" => ~ y.approved
        BY <1>0, <3>1 DEF PairHolds, ApprovalsHold
      <4> QED BY <1>0, <2>1, <3>1, <4>1 DEF PairHolds, InStep, ApprovalsHold
    <3>3. PairHolds(p, y2, row'["joiner"][p], invite[p], expired, pairingWires, answer["joiner"])
      BY <1>0, <2>1, <2>4, <2>7, <2>9, <3>1, <3>2
         DEF PairHolds, InStep, ApprovalsHold, EndsHold, AnswerHolds, NeverActive, Stood, Over, NotAhead
    <3> QED BY <2>1, <2>6, <3>1, <3>3, PairAlone
  <2> QED BY <2>8, <2>9
<1> QED BY <1>2, <1>3

\* The transfer of data.
LEMMA TransfersKeepPair ==
  ASSUME PairingInv,
         \/ \E p \in Pairs, d \in {"inviter", "joiner"} : Pairing!Send(d, p)
         \/ \E b \in batches : Pairing!Receive(b) \/ Pairing!Accept(b) \/ Pairing!Drop(b)
  PROVE  PairingInv'
<1>0. PairingTypes /\ TransfersHold
  BY DEF PairingInv
<1>1. UNCHANGED <<invite, expired, row, pairingWires, answer>>
  BY DEF Pairing!Send, Pairing!Receive, Pairing!Accept, Pairing!Drop
<1> SUFFICES PairingTypes' /\ TransfersHold'
  BY <1>1 DEF PairingInv
<1>2. \A d \in {"inviter", "joiner"} : Pairing!Other(d) \in {"inviter", "joiner"} /\ Pairing!Other(Pairing!Other(d)) = d
  BY DEF Pairing!Other
<1>3. ASSUME NEW p \in Pairs, NEW d \in {"inviter", "joiner"}, Pairing!Send(d, p)
      PROVE  PairingTypes' /\ TransfersHold'
  <2> DEFINE b == [from |-> d, pair |-> p, sender |-> row[d][p].local.revision,
                   receiver |-> row[d][p].remote.revision, merged |-> FALSE]
  <2>1. batches' = batches \cup {b} /\ UNCHANGED <<received, confirmed>>
    BY <1>3 DEF Pairing!Send
  <2>2. b \in Batches /\ ~ b.merged
    <3>1. row[d][p] \in PairRow
      BY <1>0 DEF PairingTypes
    <3> QED BY <3>1 DEF Batches, PairRow, Policies
  <2> HIDE DEF b
  <2>3. PairingTypes'
    BY <1>0, <1>1, <2>1, <2>2 DEF PairingTypes
  <2> QED BY <1>0, <2>1, <2>2, <2>3 DEF TransfersHold, Pairing!DeliveredIsMerged
<1>4. ASSUME NEW b \in batches, Pairing!Receive(b)
      PROVE  PairingTypes' /\ TransfersHold'
  <2> DEFINE d == Pairing!Other(b.from)
             c == [b EXCEPT !.merged = TRUE]
  <2>1. /\ received' = [received EXCEPT ![d] = @ \cup {c}] /\ UNCHANGED confirmed
        /\ batches' = (batches \ {b}) \cup {c}
    BY <1>4 DEF Pairing!Receive
  <2>2. b \in Batches /\ d \in {"inviter", "joiner"} /\ c \in Batches /\ c.from = b.from
    BY <1>0, <1>2 DEF PairingTypes, Batches
  <2> HIDE DEF c
  <2>3. /\ received' \in [{"inviter", "joiner"} -> SUBSET Batches] /\ c \in received'[d]
        /\ \A e \in {"inviter", "joiner"} : received[e] \subseteq received'[e]
    BY <1>0, <2>1, <2>2 DEF PairingTypes
  <2>4. PairingTypes'
    BY <1>0, <1>1, <2>1, <2>2, <2>3 DEF PairingTypes
  <2>5. ASSUME NEW x \in batches', x.merged
        PROVE  x \in received'[Pairing!Other(x.from)]
    <3>1. CASE x = c
      BY <2>2, <2>3, <3>1
    <3>2. CASE x \in batches
      <4>1. Pairing!Other(x.from) \in {"inviter", "joiner"}
        BY <1>0, <1>2, <3>2 DEF PairingTypes, Batches
      <4> QED BY <1>0, <2>3, <2>5, <3>2, <4>1 DEF TransfersHold
    <3> QED BY <2>1, <2>5, <3>1, <3>2
  <2>6. Pairing!DeliveredIsMerged'
    BY <1>0, <1>2, <2>1, <2>3 DEF TransfersHold, Pairing!DeliveredIsMerged, Pairing!Devices
  <2> QED BY <2>4, <2>5, <2>6 DEF TransfersHold
<1>5. ASSUME NEW b \in batches, Pairing!Accept(b)
      PROVE  PairingTypes' /\ TransfersHold'
  <2> DEFINE f == b.from
             p == b.pair
             v == Pairing!Epoch(f, p)
  <2>1. /\ b.merged /\ Pairing!Authorized(f, p, b.receiver, b.sender)
        /\ confirmed' = [confirmed EXCEPT ![f][p] = v]
        /\ batches' = batches \ {b} /\ UNCHANGED received
    BY <1>5 DEF Pairing!Accept
  <2>2. f \in {"inviter", "joiner"} /\ p \in Pairs /\ b \in Batches
    BY <1>0 DEF PairingTypes, Batches
  <2>3. v = <<b.sender, b.receiver>>
    BY <2>1 DEF Pairing!Authorized, Pairing!Epoch
  <2> HIDE DEF v
  <2>4. b \in received[Pairing!Other(f)]
    BY <1>0, <2>1 DEF TransfersHold
  <2>5. /\ DOMAIN confirmed' = {"inviter", "joiner"} /\ \A d \in {"inviter", "joiner"} : DOMAIN confirmed'[d] = Pairs
        /\ confirmed'[f][p] = v
        /\ \A d \in {"inviter", "joiner"}, q \in Pairs : d # f \/ q # p => confirmed'[d][q] = confirmed[d][q]
    BY <1>0, <2>1, <2>2 DEF PairingTypes
  <2>6. PairingTypes'
    BY <1>0, <1>1, <2>1, <2>5 DEF PairingTypes
  <2>7. Pairing!DeliveredIsMerged'
    <3> SUFFICES ASSUME NEW d \in {"inviter", "joiner"}, NEW q \in Pairs, confirmed'[d][q] # NoAnswer
                 PROVE  \E x \in received[Pairing!Other(d)] :
                          x.from = d /\ x.pair = q /\ <<x.sender, x.receiver>> = confirmed'[d][q]
      BY <2>1 DEF Pairing!DeliveredIsMerged, Pairing!Devices
    <3>1. CASE d = f /\ q = p
      BY <2>3, <2>4, <2>5, <3>1
    <3>2. CASE d # f \/ q # p
      BY <1>0, <2>5, <3>2 DEF TransfersHold, Pairing!DeliveredIsMerged, Pairing!Devices
    <3> QED BY <3>1, <3>2
  <2> QED BY <1>0, <2>1, <2>6, <2>7 DEF TransfersHold
<1>6. ASSUME NEW b \in batches, Pairing!Drop(b)
      PROVE  PairingTypes' /\ TransfersHold'
  BY <1>0, <1>1, <1>6 DEF Pairing!Drop, PairingTypes, TransfersHold, Pairing!DeliveredIsMerged
<1> QED BY <1>3, <1>4, <1>5, <1>6

\* The invariant gives what the devices promise of a pair.
LEMMA PairingIsSound == ASSUME PairingInv PROVE Pairing!PairingSound
<1>0. /\ row \in [{"inviter", "joiner"} -> [Pairs -> PairRow]] /\ TransfersHold
      /\ \A p \in Pairs : PairHolds(p, row["inviter"][p], row["joiner"][p], invite[p], expired, pairingWires, answer["joiner"])
  BY DEF PairingInv, PairingTypes
<1>1. Pairing!ApprovedByBoth
  <2> SUFFICES ASSUME NEW p \in Pairs
               PROVE  /\ row["joiner"][p].status = "active" => Stood(row["inviter"][p], invite[p])
                      /\ row["inviter"][p].status = "active" =>
                           row["inviter"][p].approved /\ row["joiner"][p].status \in {"awaiting_ack", "active", "revoked"}
    BY DEF Pairing!ApprovedByBoth, Pairing!Status, Stood
  <2> QED BY <1>0 DEF PairHolds, InStep, ApprovalsHold, EndsHold, NeverActive, Over
<1>2. Pairing!RemovalHolds
  <2> SUFFICES ASSUME NEW d \in {"inviter", "joiner"}, NEW p \in Pairs, row[d][p].status = "revoked", ~ row[d][p].removal
               PROVE  row[Pairing!Other(d)][p].status # "active"
    BY DEF Pairing!RemovalHolds, Pairing!Status, Pairing!Devices
  <2>1. CASE d = "inviter"
    BY <1>0, <2>1 DEF Pairing!Other, PairHolds, EndsHold, Over
  <2>2. CASE d = "joiner"
    BY <1>0, <2>2 DEF Pairing!Other, PairHolds, InStep, EndsHold, Over
  <2> QED BY <2>1, <2>2
<1>3. Pairing!PolicyNotAhead
  <2> SUFFICES ASSUME NEW d \in {"inviter", "joiner"}, NEW p \in Pairs, row[d][p].status = "active",
                      row[Pairing!Other(d)][p].status = "active"
               PROVE  NotAhead(row[d][p], row[Pairing!Other(d)][p])
    BY DEF Pairing!PolicyNotAhead, Pairing!Status, Pairing!Devices, NotAhead
  <2>1. NotAhead(row["inviter"][p], row["joiner"][p]) /\ NotAhead(row["joiner"][p], row["inviter"][p])
    BY <1>0 DEF Pairing!Other, PairHolds, ApprovalsHold
  <2> QED BY <2>1 DEF Pairing!Other
<1> QED BY <1>0, <1>1, <1>2, <1>3 DEF Pairing!PairingSound, TransfersHold

(* Devices that saw the same writes hold the same, in whatever order, how late *)
(* and how often snapshots came, no value is lost or revived, and a receipt    *)
(* means delivery (device_sync/records.py, store.py); a pair exists by the     *)
(* approval of both, a delivered removal holds, a batch counted as delivered   *)
(* was merged, and no side believes in a policy ahead of the other's           *)
(* (pairing.py, transfer.py): for any devices, values and pairs, and any       *)
(* number of writes, policies, messages, repetitions and losses.               *)
THEOREM DevicesStayInAgreement == Spec => []DevicesAgree
<1> DEFINE Inv == (component = "sync" => SyncInv) /\ (component = "pairing" => PairingInv)
<1>1. Init => Inv
  BY SyncStarts, PairingStarts DEF Init
<1>2. Inv /\ [Next]_vars => Inv'
  <2> SUFFICES ASSUME Inv, [Next]_vars
               PROVE  Inv'
    OBVIOUS
  <2>1. CASE SyncStep
    <3>1. component = "sync" /\ component' = component /\ Sync!Next
      BY <2>1 DEF SyncStep
    <3>2. SyncInv'
      BY <3>1, WritesKeepSync, WiresKeepSync DEF Sync!Next
    <3> QED BY <3>1, <3>2
  <2>2. CASE PairingStep
    <3>1. component = "pairing" /\ component' = component /\ Pairing!Next
      BY <2>2 DEF PairingStep
    <3>2. \/ \E b \in batches : Pairing!Receive(b) \/ Pairing!Accept(b) \/ Pairing!Drop(b)
          \/ \E p \in Pairs, d \in {"inviter", "joiner"} : Pairing!Send(d, p)
          \/ \E p \in Pairs :
               \/ Pairing!CreateInvite(p) \/ Pairing!Expire(p) \/ Pairing!CancelInvite(p) \/ Pairing!StartJoin(p)
               \/ Pairing!Approve(p) \/ Pairing!ReceiveJoin(p)
               \/ Pairing!AcceptOffer(p) \/ Pairing!ReceiveConfirm(p) \/ Pairing!Acknowledged(p)
               \/ \E d \in {"inviter", "joiner"} :
                    \/ Pairing!Configure(d, p) \/ Pairing!Revoke(d, p) \/ Pairing!Compact(d, p)
                    \/ Pairing!ExchangePolicy(d, p) \/ Pairing!RetryRemoval(d, p)
      BY <3>1 DEF Pairing!Next, Pairing!Devices
    <3>3. PairingInv'
      BY <3>1, <3>2, InviterKeepsPair, JoinerKeepsPair, RowsKeepPair, CallsKeepPair, TransfersKeepPair
    <3> QED BY <3>1, <3>3
  <2>3. CASE UNCHANGED <<component, syncState, pairingState>>
    <3>1. SyncInv => SyncInv'
      BY <2>3 DEF syncState, SyncInv, SyncTypes, Held, ErasureSpreads, OwnFirst
    <3>2. PairingInv => PairingInv'
      BY <2>3 DEF pairingState, PairingInv, PairingTypes, TransfersHold, Pairing!DeliveredIsMerged
    <3> QED BY <2>3, <3>1, <3>2
  <2>4. CASE component \notin {"sync", "pairing"} /\ component' = component
    BY <2>4
  <2> QED BY <2>1, <2>2, <2>3, <2>4 DEF Next, ErasureStep, OfflineStep, SpaceStep, OldSpaceStep, SupervisorStep,
                                        UpdateStep, vars
<1>3. Inv => DevicesAgree
  BY SyncIsSound, PairingIsSound DEF DevicesAgree
<1> QED BY <1>1, <1>2, <1>3, PTL DEF Spec

----------------------------------------------------------------------------
(* The personal space, of either instance s.                               *)

Roles == {"none", "device", "manager", "removed"}
Setting(s) == s.before \in [s.devices -> Roles] /\ s.providers \subseteq s.devices \cup {Coordinator} /\ s.requests \in Nat
Snapshots(s) == [rev : Nat, at : Nat, members : [s.devices -> Roles]]
Invitations(s) == [issuer : s.devices \cup {Coordinator}, expires : Nat, used : BOOLEAN, revoked : BOOLEAN]

\* A snapshot p that is about, at time c with the devices last active at f: what it says of a
\* device was so when it was signed.
Believed(s, p, c, f) ==
  /\ p \in Snapshots(s) /\ p.at <= c
  /\ \A d \in s.devices : p.members[d] \in {"device", "manager"} => p.at <= f[d]

\* An answer r, after n requests of which l are lost, is the one that was decided (v).
Told(r, n, l, v) == r.id \in 1..n /\ (r.id > l => v[r.id] = {r.ok})
ReplyHolds(s, r, c, f, n, l, v) == Told(r, n, l, v) /\ (r.ok => Believed(s, r.space, c, f))

\* A request q that may still arrive is not decided once more: its answer is kept in e until it is late.
RequestHolds(s, q, c, n, l, v, e) ==
  /\ q.id \in 1..n /\ q.from \in s.devices /\ q.do \in Space(s)!Actions /\ q.deadline \in Nat /\ q.deadline <= c + ReplyLife
  /\ q.id \in DOMAIN e => q.deadline <= e[q.id].expires
  /\ q.id > l /\ v[q.id] # {} => q.id \in DOMAIN e \/ q.deadline <= c

\* Invitations i of drawn tokens u, under the members p: an open one has its issuer, a used one stays used.
InvitesHold(s, i, p, u, j) ==
  /\ u \subseteq Tokens /\ DOMAIN i \subseteq u /\ i \in [DOMAIN i -> Invitations(s)]
  /\ \A t \in DOMAIN i : ~ i[t].revoked => Space(s)!Manages(p, i[t].issuer)
  /\ \A k \in j : k[1] \in u /\ (k[1] \in DOMAIN i => i[k[1]].used)
  /\ \A k, m \in j : k[1] = m[1] => k = m

CoordinatorHolds(s) ==
  /\ clock \in Nat /\ sent \in 0..s.requests /\ lost \in 0..sent
  /\ activeAt \in [s.devices -> Nat] /\ \A d \in s.devices : activeAt[d] <= clock
  /\ Believed(s, space, clock, activeAt)
  /\ InvitesHold(s, invites, space, issued, joined)
  /\ DOMAIN spaceReplies \subseteq 1..sent
  /\ \A i \in DOMAIN spaceReplies : /\ spaceReplies[i].expires \in Nat /\ spaceReplies[i].reply.id = i
                                    /\ ReplyHolds(s, spaceReplies[i].reply, clock, activeAt, sent, lost, verdict)
  /\ DOMAIN verdict = 1..s.requests
  /\ \A i \in 1..s.requests : /\ i > sent => verdict[i] = {}
                              /\ i > lost => \A x, y \in verdict[i] : x = y

DevicesHold(s) ==
  /\ DOMAIN held = s.devices /\ DOMAIN waiting = s.devices /\ DOMAIN reading = s.devices
  /\ backup # NoRecord => Believed(s, backup, clock, activeAt)
  /\ \A d \in s.devices :
       /\ held[d] # NoRecord => Believed(s, held[d], clock, activeAt)
       /\ waiting[d] # NoRequest => RequestHolds(s, waiting[d], clock, sent, lost, verdict, spaceReplies)
       /\ reading[d] # NoReply => ReplyHolds(s, reading[d], clock, activeAt, sent, lost, verdict)
  /\ \A q \in posted : RequestHolds(s, q, clock, sent, lost, verdict, spaceReplies)
  /\ \A r \in results : ReplyHolds(s, r, clock, activeAt, sent, lost, verdict)

SpaceInv(s) == CoordinatorHolds(s) /\ DevicesHold(s)

LEMMA SpaceStarts == ASSUME NEW s, Setting(s), Space(s)!Init PROVE SpaceInv(s)
<1>1. /\ clock = 0 /\ sent = 0 /\ lost = 0 /\ space = [rev |-> 1, at |-> 0, members |-> s.before]
      /\ invites = [t \in {} |-> {}] /\ spaceReplies = [i \in {} |-> {}] /\ backup = NoRecord
      /\ held = [d \in s.devices |-> IF s.before[d] = "none" THEN NoRecord ELSE space]
      /\ waiting = [d \in s.devices |-> NoRequest] /\ reading = [d \in s.devices |-> NoReply]
      /\ posted = {} /\ results = {} /\ issued = {} /\ joined = {} /\ activeAt = [d \in s.devices |-> 0]
      /\ verdict = [i \in 1..s.requests |-> {}]
  BY DEF Space!Init, Space!First
<1>2. Believed(s, space, clock, activeAt)
  BY <1>1 DEF Believed, Snapshots, Setting
<1>3. InvitesHold(s, invites, space, issued, joined)
  BY <1>1 DEF InvitesHold
<1>4. CoordinatorHolds(s)
  <2>1. \A i \in 1..s.requests : verdict[i] = {}
    BY <1>1
  <2>2. sent \in 0..s.requests /\ DOMAIN spaceReplies = {} /\ activeAt \in [s.devices -> Nat]
        /\ \A d \in s.devices : activeAt[d] = 0
    BY <1>1 DEF Setting
  <2> QED BY <1>1, <1>2, <1>3, <2>1, <2>2 DEF CoordinatorHolds
<1>5. DevicesHold(s)
  BY <1>1, <1>2 DEF DevicesHold
<1> QED BY <1>4, <1>5 DEF SpaceInv

\* A snapshot is believed as time passes and devices stay active.
LEMMA BelievedStays ==
  ASSUME NEW s, NEW c \in Nat, NEW d \in Nat, c <= d, NEW f \in [s.devices -> Nat], NEW g \in [s.devices -> Nat],
         \A x \in s.devices : f[x] <= g[x], NEW p, Believed(s, p, c, f)
  PROVE  Believed(s, p, d, g)
BY DEF Believed, Snapshots

\* A new snapshot.
LEMMA SignedIs ==
  ASSUME NEW s, NEW p \in Snapshots(s), clock \in Nat
  PROVE  LET q == Space(s)!Signed(p) IN q \in Snapshots(s) /\ q.at = clock /\ q.members = p.members
<1> DEFINE M == [s.devices -> Roles]
           N == Nat
           r == p.rev + 1
<1>1. Snapshots(s) = [rev : N, at : N, members : M] /\ clock \in N
  BY DEF Snapshots
<1>2. r \in N
  BY DEF Snapshots
<1>3. Space(s)!Signed(p) = [p EXCEPT !.rev = r, !.at = clock]
  BY DEF Space!Signed
<1> HIDE DEF M, N, r
<1> DEFINE q == [p EXCEPT !.rev = r, !.at = clock]
<1>4. p \in [rev : N, at : N, members : M] /\ clock \in N
  BY <1>1
<1>5. q \in [rev : N, at : N, members : M]
  BY <1>2, <1>4
<1>6. q.at = clock /\ q.members = p.members
  BY <1>4
<1> HIDE DEF q
<1> QED BY <1>1, <1>3, <1>5, <1>6 DEF q

LEMMA WithIs ==
  ASSUME NEW s, space \in Snapshots(s), clock \in Nat, NEW d \in s.devices, NEW role \in Roles
  PROVE  LET q == Space(s)!With(d, role) IN
         /\ q \in Snapshots(s) /\ q.at = clock /\ q.members[d] = role
         /\ \A x \in s.devices : x # d => q.members[x] = space.members[x]
<1> DEFINE p == [space EXCEPT !.members[d] = role]
<1>1. p \in Snapshots(s) /\ p.members[d] = role /\ \A x \in s.devices : x # d => p.members[x] = space.members[x]
  BY DEF Snapshots
<1>2. Space(s)!With(d, role) = Space(s)!Signed(p)
  BY DEF Space!With
<1> HIDE DEF p
<1> QED BY <1>1, <1>2, SignedIs

\* A decision: the members, the invitations and the token drawn after it.
Drawn(o) == issued \cup ({o.token} \ {NoToken})
Decided(s, o) ==
  /\ o.space \in Snapshots(s) /\ (o.space = space \/ o.space.at = clock)
  /\ InvitesHold(s, o.invites, o.space, Drawn(o), joined)

LEMMA StaysDecided ==
  ASSUME NEW s, CoordinatorHolds(s), NEW o, o.token = NoToken, o.invites = invites,
         o.space \in Snapshots(s), o.space = space \/ o.space.at = clock, o.space.members = space.members
  PROVE  Decided(s, o)
<1>1. Drawn(o) = issued
  BY DEF Drawn
<1>2. InvitesHold(s, invites, o.space, issued, joined)
  BY DEF CoordinatorHolds, InvitesHold, Space!Manages
<1> QED BY <1>1, <1>2 DEF Decided

LEMMA OutcomeIsDecided ==
  ASSUME NEW s, CoordinatorHolds(s), NEW p \in Snapshots(s), p = space \/ p.at = clock, p.members = space.members
  PROVE  Decided(s, Space(s)!Outcome(p, invites, NoToken))
<1> DEFINE o == Space(s)!Outcome(p, invites, NoToken)
<1>1. o.space = p /\ o.invites = invites /\ o.token = NoToken
  BY DEF Space!Outcome
<1> HIDE DEF o
<1>2. Decided(s, o)
  BY <1>1, StaysDecided
<1> QED BY <1>2 DEF o

LEMMA RefusedIsDecided ==
  ASSUME NEW s, CoordinatorHolds(s)
  PROVE  Decided(s, Space(s)!Refused) /\ ~ Space(s)!Refused.ok
<1>1. space \in Snapshots(s)
  BY DEF CoordinatorHolds, Believed
<1> DEFINE o == Space(s)!Refused
<1>2. o.ok = FALSE /\ o.space = space /\ o.invites = invites /\ o.token = NoToken
  BY DEF Space!Refused
<1> HIDE DEF o
<1>3. Decided(s, o)
  BY <1>1, <1>2, StaysDecided
<1> QED BY <1>2, <1>3 DEF o

LEMMA JoinIsDecided ==
  ASSUME NEW s, CoordinatorHolds(s), NEW d \in s.devices, NEW t \in Tokens
  PROVE  LET o == Space(s)!Join(d, t) IN
         /\ Decided(s, o)
         /\ o.ok => \A n \in Nat : InvitesHold(s, o.invites, o.space, Drawn(o), joined \cup {<<t, n>>})
<1> DEFINE o == Space(s)!Join(d, t)
           p == Space(s)!With(d, "device")
           i == [invites EXCEPT ![t].used = TRUE]
<1>0. /\ space \in Snapshots(s) /\ clock \in Nat /\ InvitesHold(s, invites, space, issued, joined)
  BY DEF CoordinatorHolds, Believed
<1>1. CASE Space(s)!Usable(t) /\ ~ Space(s)!Active(space, d) /\ o = Space(s)!Outcome(p, i, NoToken)
  <2>1. /\ p \in Snapshots(s) /\ p.at = clock /\ p.members[d] = "device"
        /\ \A x \in s.devices : x # d => p.members[x] = space.members[x]
    BY <1>0, WithIs DEF Roles
  <2>2. t \in DOMAIN invites /\ ~ invites[t].used /\ space.members[d] \notin {"device", "manager"}
    BY <1>1 DEF Space!Usable, Space!Active
  <2>3. o.ok = TRUE /\ o.space = p /\ o.invites = i /\ o.token = NoToken
    BY <1>1 DEF Space!Outcome
  <2> HIDE DEF o, p
  <2>4. /\ DOMAIN i = DOMAIN invites /\ i \in [DOMAIN i -> Invitations(s)] /\ i[t].used
        /\ \A u \in DOMAIN i : i[u].issuer = invites[u].issuer /\ i[u].revoked = invites[u].revoked
                               /\ (invites[u].used => i[u].used)
    BY <1>0, <2>2 DEF InvitesHold, Invitations
  <2> HIDE DEF i
  <2>5. \A u \in DOMAIN i : ~ i[u].revoked => Space(s)!Manages(p, i[u].issuer)
    BY <1>0, <2>1, <2>2, <2>4 DEF InvitesHold, Space!Manages
  <2>6. Drawn(o) = issued
    BY <2>3 DEF Drawn
  <2>7. InvitesHold(s, i, p, issued, joined)
    BY <1>0, <2>4, <2>5 DEF InvitesHold
  <2>8. ASSUME NEW n \in Nat
        PROVE  InvitesHold(s, i, p, issued, joined \cup {<<t, n>>})
    BY <1>0, <2>2, <2>4, <2>7 DEF InvitesHold
  <2>9. Decided(s, o)
    BY <2>1, <2>3, <2>6, <2>7 DEF Decided
  <2>10. \A n \in Nat : InvitesHold(s, o.invites, o.space, Drawn(o), joined \cup {<<t, n>>})
    BY <2>3, <2>6, <2>8
  <2> QED BY <2>9, <2>10 DEF o
<1>2. CASE o = Space(s)!Refused
  BY <1>2, RefusedIsDecided
<1> QED BY <1>1, <1>2 DEF Space!Join

LEMMA SyncIsDecided ==
  ASSUME NEW s, CoordinatorHolds(s), NEW d, NEW renamed
  PROVE  Decided(s, Space(s)!Sync(d, renamed))
<1>0. space \in Snapshots(s) /\ clock \in Nat
  BY DEF CoordinatorHolds, Believed
<1>1. Decided(s, Space(s)!Refused)
  BY RefusedIsDecided
<1>2. Decided(s, Space(s)!Outcome(space, invites, NoToken))
  BY <1>0, OutcomeIsDecided
<1>3. Decided(s, Space(s)!Outcome(Space(s)!Signed(space), invites, NoToken))
  BY <1>0, SignedIs, OutcomeIsDecided
<1> QED BY <1>1, <1>2, <1>3 DEF Space!Sync

LEMMA InviteIsDecided ==
  ASSUME NEW s, CoordinatorHolds(s), NEW n \in s.devices \cup {Coordinator}, NEW t \in Tokens \ issued
  PROVE  Decided(s, Space(s)!Invite(n, t))
<1> DEFINE i == Space(s)!Invited(t, n)
           k == Space(s)!Kept
<1>0. /\ space \in Snapshots(s) /\ clock \in Nat /\ InvitesHold(s, invites, space, issued, joined)
  BY DEF CoordinatorHolds, Believed
<1>1. /\ DOMAIN k \subseteq DOMAIN invites /\ \A u \in DOMAIN k : k[u] = invites[u]
  BY DEF Space!Kept
<1>2. /\ DOMAIN i = DOMAIN k \cup {t} /\ \A u \in DOMAIN k : u # t => i[u] = k[u]
      /\ i[t] = [issuer |-> n, expires |-> clock + InviteLife, used |-> FALSE, revoked |-> FALSE]
      /\ i = [u \in DOMAIN i |-> i[u]]
  BY DEF Space!Invited
<1> HIDE DEF i, k
<1>3. i[t] \in Invitations(s) /\ i[t].issuer = n
  BY <1>0, <1>2, SpaceAssumption DEF Invitations
<1>4. \A u \in DOMAIN i : u # t => u \in issued /\ i[u] = invites[u] /\ u \in DOMAIN invites
  BY <1>0, <1>1, <1>2 DEF InvitesHold
<1>5. CASE Space(s)!Manages(space, n) /\ Space(s)!Invite(n, t) = Space(s)!Outcome(space, i, t)
  <2> DEFINE o == Space(s)!Invite(n, t)
  <2>1. o.ok = TRUE /\ o.space = space /\ o.invites = i /\ o.token = t
    BY <1>5 DEF Space!Outcome
  <2> HIDE DEF o
  <2>2. Drawn(o) = issued \cup {t}
    BY <2>1, SpaceAssumption DEF Drawn
  <2>3. i \in [DOMAIN i -> Invitations(s)]
    <3>1. \A u \in DOMAIN i : i[u] \in Invitations(s)
      BY <1>0, <1>3, <1>4 DEF InvitesHold
    <3> QED BY <1>2, <3>1
  <2>4. InvitesHold(s, i, space, issued \cup {t}, joined)
    BY <1>0, <1>3, <1>4, <1>5, <2>3 DEF InvitesHold
  <2>5. Decided(s, o)
    BY <1>0, <2>1, <2>2, <2>4 DEF Decided
  <2> QED BY <2>5 DEF o
<1>6. CASE Space(s)!Invite(n, t) = Space(s)!Refused
  BY <1>6, RefusedIsDecided
<1> QED BY <1>5, <1>6 DEF Space!Invite, i

LEMMA CancelIsDecided ==
  ASSUME NEW s, CoordinatorHolds(s), NEW n, NEW t
  PROVE  Decided(s, Space(s)!CancelInvite(n, t))
<1> DEFINE i == [invites EXCEPT ![t].revoked = TRUE]
           o == Space(s)!CancelInvite(n, t)
<1>0. /\ space \in Snapshots(s) /\ InvitesHold(s, invites, space, issued, joined)
  BY DEF CoordinatorHolds, Believed
<1>1. CASE t \in DOMAIN invites /\ o = Space(s)!Outcome(space, i, NoToken)
  <2>1. o.ok = TRUE /\ o.space = space /\ o.invites = i /\ o.token = NoToken
    BY <1>1 DEF Space!Outcome
  <2>2. /\ DOMAIN i = DOMAIN invites /\ i \in [DOMAIN i -> Invitations(s)] /\ i[t].revoked
        /\ \A u \in DOMAIN i : u # t => i[u] = invites[u]
        /\ i[t].used = invites[t].used
    BY <1>0, <1>1 DEF InvitesHold, Invitations
  <2> HIDE DEF i, o
  <2>3. InvitesHold(s, i, space, issued, joined)
    BY <1>0, <2>2 DEF InvitesHold
  <2>4. Drawn(o) = issued
    BY <2>1 DEF Drawn
  <2>5. Decided(s, o)
    BY <1>0, <2>1, <2>3, <2>4 DEF Decided
  <2> QED BY <2>5 DEF o
<1>2. CASE o = Space(s)!Refused
  BY <1>2, RefusedIsDecided
<1> QED BY <1>1, <1>2 DEF Space!CancelInvite

\* A device loses its role, and its invitations, or becomes a manager.
LEMMA RoleIsDecided ==
  ASSUME NEW s, CoordinatorHolds(s), NEW d \in s.devices, NEW role \in {"removed", "device", "manager"}, NEW i,
         i = IF role = "manager" THEN invites ELSE Space(s)!RevokedOf(d)
  PROVE  Decided(s, Space(s)!Outcome(Space(s)!With(d, role), i, NoToken))
<1> DEFINE p == Space(s)!With(d, role)
           o == Space(s)!Outcome(p, i, NoToken)
<1>0. /\ space \in Snapshots(s) /\ clock \in Nat /\ InvitesHold(s, invites, space, issued, joined)
  BY DEF CoordinatorHolds, Believed
<1>1. /\ p \in Snapshots(s) /\ p.at = clock /\ p.members[d] = role
      /\ \A x \in s.devices : x # d => p.members[x] = space.members[x]
  BY <1>0, WithIs DEF Roles
<1>2. o.ok = TRUE /\ o.space = p /\ o.invites = i /\ o.token = NoToken
  BY DEF Space!Outcome
<1>3. /\ DOMAIN i = DOMAIN invites /\ i \in [DOMAIN i -> Invitations(s)]
      /\ \A u \in DOMAIN i : /\ i[u].issuer = invites[u].issuer /\ i[u].used = invites[u].used
                             /\ ~ i[u].revoked => ~ invites[u].revoked
                             /\ role # "manager" /\ i[u].issuer = d => i[u].revoked
  <2>1. CASE role = "manager"
    BY <1>0, <2>1 DEF InvitesHold
  <2>2. CASE role # "manager"
    <3>1. /\ DOMAIN i = DOMAIN invites /\ i = [u \in DOMAIN i |-> i[u]]
          /\ \A u \in DOMAIN i : i[u] = IF invites[u].issuer = d THEN [invites[u] EXCEPT !.revoked = TRUE] ELSE invites[u]
      BY <2>2 DEF Space!RevokedOf
    <3>2. ASSUME NEW u \in DOMAIN i
          PROVE  /\ i[u] \in Invitations(s) /\ i[u].issuer = invites[u].issuer /\ i[u].used = invites[u].used
                 /\ ~ i[u].revoked => ~ invites[u].revoked
                 /\ i[u].issuer = d => i[u].revoked
      <4>1. invites[u] \in Invitations(s)
        BY <1>0, <3>1 DEF InvitesHold
      <4>2. CASE invites[u].issuer = d
        <5>1. i[u] = [invites[u] EXCEPT !.revoked = TRUE]
          BY <3>1, <4>2
        <5> QED BY <4>1, <5>1 DEF Invitations
      <4>3. CASE invites[u].issuer # d
        BY <3>1, <4>1, <4>3
      <4> QED BY <4>2, <4>3
    <3> HIDE DEF p, o
    <3> QED BY <3>1, <3>2
  <2> QED BY <2>1, <2>2
<1> HIDE DEF p, o
<1>4. \A u \in DOMAIN i : ~ i[u].revoked => Space(s)!Manages(p, i[u].issuer)
  BY <1>0, <1>1, <1>3 DEF InvitesHold, Space!Manages
<1>5. InvitesHold(s, i, p, issued, joined)
  BY <1>0, <1>3, <1>4 DEF InvitesHold
<1>6. Drawn(o) = issued
  BY <1>2 DEF Drawn
<1>7. Decided(s, o)
  BY <1>1, <1>2, <1>5, <1>6 DEF Decided
<1> QED BY <1>7 DEF o, p

\* What the coordinator makes of any request.
LEMMA ApplyIsDecided ==
  ASSUME NEW s, CoordinatorHolds(s), NEW n \in s.devices \cup {Coordinator}, NEW a \in Space(s)!Actions,
         a.act \in {"join", "sync"} => n \in s.devices, NEW t \in Space(s)!Draws(a)
  PROVE  LET o == Space(s)!Apply(n, a, t) IN
         /\ Decided(s, o)
         /\ a.act = "join" /\ o.ok =>
              \A m \in Nat : InvitesHold(s, o.invites, o.space, Drawn(o), joined \cup {<<a.on, m>>})
<1> DEFINE o == Space(s)!Apply(n, a, t)
<1>1. CASE a.act = "join"
  <2>1. a.on \in Tokens /\ n \in s.devices /\ o = Space(s)!Join(n, a.on)
    BY <1>1 DEF Space!Actions, Space!Apply
  <2> QED BY <2>1, JoinIsDecided
<1>2. CASE a.act = "sync"
  <2>1. o = Space(s)!Sync(n, a.on)
    BY <1>2 DEF Space!Apply
  <2> QED BY <1>2, <2>1, SyncIsDecided
<1>3. CASE a.act = "invite"
  <2>1. o = Space(s)!Invite(n, t) /\ t \in Tokens \ issued
    BY <1>3 DEF Space!Apply, Space!Draws
  <2> QED BY <1>3, <2>1, InviteIsDecided
<1>4. CASE a.act = "cancel"
  <2>1. o = Space(s)!CancelInvite(n, a.on)
    BY <1>4 DEF Space!Apply
  <2> QED BY <1>4, <2>1, CancelIsDecided
<1>5. CASE a.act = "remove"
  <2>1. o = Space(s)!Remove(n, a.on) /\ a.on \in s.devices
    BY <1>5 DEF Space!Apply, Space!Actions
  <2>2. Decided(s, Space(s)!Outcome(Space(s)!With(a.on, "removed"), Space(s)!RevokedOf(a.on), NoToken))
    BY <2>1, RoleIsDecided
  <2> QED BY <1>5, <2>1, <2>2, RefusedIsDecided DEF Space!Remove
<1>6. CASE a.act \in {"device", "manager"}
  <2>1. o = Space(s)!Role(n, a.on, a.act) /\ a.on \in s.devices
    BY <1>6 DEF Space!Apply, Space!Actions
  <2> DEFINE i == IF a.act = "device" THEN Space(s)!RevokedOf(a.on) ELSE invites
  <2>2. Decided(s, Space(s)!Outcome(Space(s)!With(a.on, a.act), i, NoToken))
    <3>1. i = IF a.act = "manager" THEN invites ELSE Space(s)!RevokedOf(a.on)
      BY <1>6
    <3> HIDE DEF i
    <3> QED BY <1>6, <2>1, <3>1, RoleIsDecided
  <2> QED BY <1>6, <2>1, <2>2, RefusedIsDecided DEF Space!Role
<1> QED BY <1>1, <1>2, <1>3, <1>4, <1>5, <1>6 DEF Space!Actions

\* The decision is stored, and the devices it leaves active were active now.
LEMMA CommitHolds ==
  ASSUME NEW s, CoordinatorHolds(s), NEW o, Decided(s, o), Space(s)!Commit(o)
  PROVE  /\ space' = o.space /\ invites' = o.invites /\ issued' = Drawn(o)
         /\ activeAt' \in [s.devices -> Nat]
         /\ \A d \in s.devices : activeAt[d] <= activeAt'[d] /\ activeAt'[d] <= clock
         /\ Believed(s, space', clock, activeAt')
         /\ InvitesHold(s, invites', space', issued', joined)
<1>0. /\ clock \in Nat /\ activeAt \in [s.devices -> Nat] /\ \A d \in s.devices : activeAt[d] <= clock
      /\ Believed(s, space, clock, activeAt)
  BY DEF CoordinatorHolds
<1>1. /\ space' = o.space /\ invites' = o.invites /\ issued' = Drawn(o)
      /\ activeAt' = [d \in s.devices |-> IF Space(s)!Active(o.space, d) THEN clock ELSE activeAt[d]]
  BY DEF Space!Commit, Space!Seen, Drawn
<1>2. o.space \in Snapshots(s) /\ (o.space = space \/ o.space.at = clock) /\ InvitesHold(s, o.invites, o.space, Drawn(o), joined)
  BY DEF Decided
<1>3. o.space.at <= clock
  BY <1>0, <1>2 DEF Believed
<1>4. /\ activeAt' \in [s.devices -> Nat]
      /\ \A d \in s.devices : activeAt[d] <= activeAt'[d] /\ activeAt'[d] <= clock
  BY <1>0, <1>1
<1>5. Believed(s, o.space, clock, activeAt')
  BY <1>0, <1>1, <1>2, <1>3 DEF Believed, Space!Active
<1> QED BY <1>1, <1>2, <1>4, <1>5

\* What was true of a snapshot, an answer and a request stays true.
Stays(s) ==
  /\ clock \in Nat /\ clock' \in Nat /\ clock <= clock'
  /\ activeAt \in [s.devices -> Nat] /\ activeAt' \in [s.devices -> Nat]
  /\ \A d \in s.devices : activeAt[d] <= activeAt'[d]
  /\ sent \in Nat /\ sent' \in Nat /\ sent <= sent' /\ lost \in Nat /\ lost' \in Nat /\ lost <= lost'
  /\ \A i \in 1..sent : i > lost' /\ verdict[i] # {} => verdict'[i] = verdict[i]
  /\ \A i \in 1..sent : i \in DOMAIN spaceReplies' =>
       \/ i \in DOMAIN spaceReplies /\ spaceReplies'[i].expires = spaceReplies[i].expires
       \/ spaceReplies'[i].expires >= clock + ReplyLife
  /\ \A i \in 1..sent : i > lost' /\ verdict'[i] # {} =>
       \/ i \in DOMAIN spaceReplies'
       \/ i \notin DOMAIN spaceReplies /\ verdict[i] # {}
       \/ i \in DOMAIN spaceReplies /\ spaceReplies[i].expires <= clock'

LEMMA RepliesStay ==
  ASSUME NEW s, Stays(s), NEW r, ReplyHolds(s, r, clock, activeAt, sent, lost, verdict)
  PROVE  ReplyHolds(s, r, clock', activeAt', sent', lost', verdict')
<1>1. r.ok => Believed(s, r.space, clock', activeAt')
  BY BelievedStays DEF Stays, ReplyHolds
<1>2. Told(r, sent', lost', verdict')
  <2>1. r.id \in 1..sent /\ r.id \in 1..sent'
    BY DEF Stays, ReplyHolds, Told
  <2>2. r.id > lost' => r.id > lost
    BY <2>1 DEF Stays
  <2> QED BY <2>1, <2>2 DEF Stays, ReplyHolds, Told
<1> QED BY <1>1, <1>2 DEF ReplyHolds

LEMMA RequestsStay ==
  ASSUME NEW s, Stays(s), NEW q, RequestHolds(s, q, clock, sent, lost, verdict, spaceReplies),
         \A i \in DOMAIN spaceReplies : spaceReplies[i].expires \in Nat,
         \A i \in DOMAIN spaceReplies' : spaceReplies'[i].expires \in Nat
  PROVE  RequestHolds(s, q, clock', sent', lost', verdict', spaceReplies')
<1>0. /\ q.id \in 1..sent /\ q.id \in 1..sent' /\ q.from \in s.devices /\ q.do \in Space(s)!Actions /\ q.deadline \in Nat
      /\ clock \in Nat /\ clock' \in Nat /\ clock <= clock' /\ ReplyLife \in Nat /\ q.deadline <= clock + ReplyLife
      /\ lost \in Nat /\ lost' \in Nat /\ lost <= lost'
  BY SpaceAssumption DEF Stays, RequestHolds
<1>1. q.deadline <= clock' + ReplyLife
  BY <1>0
<1>2. q.id \in DOMAIN spaceReplies' => q.deadline <= spaceReplies'[q.id].expires
  BY <1>0 DEF Stays, RequestHolds
<1>3. ASSUME q.id > lost', verdict'[q.id] # {}, q.id \notin DOMAIN spaceReplies'
      PROVE  q.deadline <= clock'
  <2>1. q.id > lost
    BY <1>0, <1>3
  <2> QED BY <1>0, <1>3, <2>1 DEF Stays, RequestHolds
<1> QED BY <1>0, <1>1, <1>2, <1>3 DEF RequestHolds

\* The coordinator handles a request that may arrive.
LEMMA ProcessHolds ==
  ASSUME NEW s, Setting(s), CoordinatorHolds(s), NEW q, Space(s)!Process(q),
         RequestHolds(s, q, clock, sent, lost, verdict, spaceReplies), UNCHANGED <<clock, sent, lost>>
  PROVE  /\ CoordinatorHolds(s)' /\ Stays(s) /\ q.id \in DOMAIN spaceReplies'
         /\ ReplyHolds(s, spaceReplies'[q.id].reply, clock', activeAt', sent', lost', verdict')
<1>0. /\ clock \in Nat /\ sent \in 0..s.requests /\ s.requests \in Nat /\ lost \in Nat
      /\ activeAt \in [s.devices -> Nat] /\ \A d \in s.devices : activeAt[d] <= clock
      /\ DOMAIN spaceReplies \subseteq 1..sent
      /\ \A i \in DOMAIN spaceReplies : /\ spaceReplies[i].expires \in Nat /\ spaceReplies[i].reply.id = i
                                        /\ ReplyHolds(s, spaceReplies[i].reply, clock, activeAt, sent, lost, verdict)
      /\ DOMAIN verdict = 1..s.requests
      /\ \A i \in 1..s.requests : (i > sent => verdict[i] = {}) /\ (i > lost => \A x, y \in verdict[i] : x = y)
      /\ ReplyLife \in Nat
  BY SpaceAssumption DEF CoordinatorHolds, Setting
<1>1. CASE q.id \in DOMAIN spaceReplies /\ UNCHANGED <<space, invites, spaceReplies, issued, activeAt, joined, verdict, lost>>
  <2>1. CoordinatorHolds(s)'
    BY <1>1 DEF CoordinatorHolds
  <2>2. Stays(s)
    BY <1>0, <1>1 DEF Stays
  <2> QED BY <1>0, <1>1, <2>1, <2>2
<1>2. CASE q.id \notin DOMAIN spaceReplies /\ q.deadline > clock
  <2> DEFINE told(o) == [id |-> q.id, ok |-> o.ok, space |-> IF o.ok THEN o.space ELSE NoRecord]
             kept == {j \in DOMAIN spaceReplies : spaceReplies[j].expires > clock}
  <2>1. PICK t \in Space(s)!Draws(q.do) :
          LET o == Space(s)!Apply(q.from, q.do, t) IN
          /\ Space(s)!Commit(o)
          /\ joined' = IF q.do.act = "join" /\ o.ok THEN joined \cup {<<q.do.on, q.id>>} ELSE joined
          /\ verdict' = [verdict EXCEPT ![q.id] = @ \cup {o.ok}]
          /\ spaceReplies' = [i \in kept \cup {q.id} |->
                IF i = q.id THEN [reply |-> told(o), expires |-> clock + ReplyLife] ELSE spaceReplies[i]]
    BY <1>2 DEF Space!Process, Space!Cached
  <2> DEFINE o == Space(s)!Apply(q.from, q.do, t)
  <2>2. q.id \in 1..sent /\ q.id \in 1..s.requests /\ q.from \in s.devices /\ q.do \in Space(s)!Actions
    BY <1>0 DEF RequestHolds
  <2>3. /\ Decided(s, o)
        /\ q.do.act = "join" /\ o.ok =>
             \A m \in Nat : InvitesHold(s, o.invites, o.space, Drawn(o), joined \cup {<<q.do.on, m>>})
    BY <2>2, ApplyIsDecided
  <2> HIDE DEF o
  <2>4. /\ Space(s)!Commit(o)
        /\ joined' = IF q.do.act = "join" /\ o.ok THEN joined \cup {<<q.do.on, q.id>>} ELSE joined
        /\ verdict' = [verdict EXCEPT ![q.id] = @ \cup {o.ok}]
        /\ spaceReplies' = [i \in kept \cup {q.id} |->
              IF i = q.id THEN [reply |-> told(o), expires |-> clock + ReplyLife] ELSE spaceReplies[i]]
    BY <2>1 DEF o
  <2>5. /\ space' = o.space /\ invites' = o.invites /\ issued' = Drawn(o)
        /\ activeAt' \in [s.devices -> Nat]
        /\ \A d \in s.devices : activeAt[d] <= activeAt'[d] /\ activeAt'[d] <= clock
        /\ Believed(s, space', clock, activeAt')
        /\ InvitesHold(s, invites', space', issued', joined)
    BY <2>3, <2>4, CommitHolds
  <2>6. InvitesHold(s, invites', space', issued', joined')
    BY <2>2, <2>3, <2>4, <2>5
  <2>7. q.id > lost => verdict[q.id] = {}
    BY <1>2 , <1>0 DEF RequestHolds
  <2>8. /\ DOMAIN verdict' = 1..s.requests
        /\ verdict'[q.id] = verdict[q.id] \cup {o.ok} /\ \A i \in 1..s.requests : i # q.id => verdict'[i] = verdict[i]
    BY <1>0, <2>2, <2>4
  <2>9. /\ DOMAIN spaceReplies' = kept \cup {q.id}
        /\ spaceReplies'[q.id].reply = told(o) /\ spaceReplies'[q.id].expires = clock + ReplyLife
        /\ \A i \in kept : i # q.id => spaceReplies'[i] = spaceReplies[i]
    BY <2>4
  <2>10. Stays(s)
    <3>1. \A i \in 1..sent : i > lost' /\ verdict[i] # {} => verdict'[i] = verdict[i]
      BY <1>0, <2>7, <2>8
    <3>2. \A i \in 1..sent : i \in DOMAIN spaceReplies' =>
            \/ i \in DOMAIN spaceReplies /\ spaceReplies'[i].expires = spaceReplies[i].expires
            \/ spaceReplies'[i].expires >= clock + ReplyLife
      BY <1>0, <2>9
    <3>3. \A i \in 1..sent : i > lost' /\ verdict'[i] # {} =>
            \/ i \in DOMAIN spaceReplies'
            \/ i \notin DOMAIN spaceReplies /\ verdict[i] # {}
            \/ i \in DOMAIN spaceReplies /\ spaceReplies[i].expires <= clock'
      BY <1>0, <2>8, <2>9
    <3>4. /\ clock \in Nat /\ clock' = clock /\ sent \in Nat /\ sent' = sent /\ lost \in Nat /\ lost' = lost
          /\ activeAt \in [s.devices -> Nat] /\ activeAt' \in [s.devices -> Nat]
          /\ \A d \in s.devices : activeAt[d] <= activeAt'[d]
      BY <1>0, <2>5
    <3> QED BY <3>1, <3>2, <3>3, <3>4 DEF Stays
  <2>11. ReplyHolds(s, spaceReplies'[q.id].reply, clock', activeAt', sent', lost', verdict')
    <3>1. Told(told(o), sent, lost, verdict')
      BY <2>2, <2>7, <2>8 DEF Told
    <3>2. o.ok => told(o).space = space'
      BY <2>5
    <3> QED BY <2>5, <2>9, <3>1, <3>2 DEF ReplyHolds
  <2> HIDE DEF told
  <2>12. ASSUME NEW i \in DOMAIN spaceReplies'
         PROVE  /\ i \in 1..sent' /\ spaceReplies'[i].expires \in Nat /\ spaceReplies'[i].reply.id = i
                /\ ReplyHolds(s, spaceReplies'[i].reply, clock', activeAt', sent', lost', verdict')
    <3>1. CASE i = q.id
      BY <1>0, <2>2, <2>9, <2>11, <3>1 DEF told
    <3>2. CASE i # q.id
      <4>1. i \in DOMAIN spaceReplies /\ spaceReplies'[i] = spaceReplies[i]
        BY <2>9, <3>2
      <4> QED BY <1>0, <2>10, <4>1, RepliesStay
    <3> QED BY <3>1, <3>2
  <2>13. \A i \in 1..s.requests : (i > sent => verdict'[i] = {}) /\ (i > lost => \A x, y \in verdict'[i] : x = y)
    BY <1>0, <2>2, <2>7, <2>8
  <2>14. CoordinatorHolds(s)'
    BY <1>0, <2>5, <2>6, <2>8, <2>12, <2>13 DEF CoordinatorHolds
  <2> QED BY <2>9, <2>10, <2>11, <2>14
<1> QED BY <1>1, <1>2 DEF Space!Process, Space!Cached

\* The coordinator decides for itself.
LEMMA CommitKeepsCoordinator ==
  ASSUME NEW s, CoordinatorHolds(s), NEW o, Decided(s, o), Space(s)!Commit(o),
         UNCHANGED <<clock, sent, lost, spaceReplies, joined, verdict>>
  PROVE  CoordinatorHolds(s)' /\ Stays(s)
<1>1. /\ activeAt' \in [s.devices -> Nat]
      /\ \A d \in s.devices : activeAt[d] <= activeAt'[d] /\ activeAt'[d] <= clock
      /\ Believed(s, space', clock, activeAt')
      /\ InvitesHold(s, invites', space', issued', joined)
  BY CommitHolds
<1>2. Stays(s)
  BY <1>1 DEF Stays, CoordinatorHolds
<1>3. \A i \in DOMAIN spaceReplies' : ReplyHolds(s, spaceReplies'[i].reply, clock', activeAt', sent', lost', verdict')
  BY <1>2, RepliesStay DEF CoordinatorHolds
<1> QED BY <1>1, <1>2, <1>3 DEF CoordinatorHolds

\* Its members and answers stay as they are, while time passes, requests are made and verdicts are told.
LEMMA CoordinatorStays ==
  ASSUME NEW s, CoordinatorHolds(s), UNCHANGED <<space, invites, spaceReplies, issued, joined, lost>>,
         clock' \in Nat, clock <= clock', sent' \in 0..s.requests, sent <= sent',
         activeAt' \in [s.devices -> Nat], \A d \in s.devices : activeAt[d] <= activeAt'[d] /\ activeAt'[d] <= clock',
         DOMAIN verdict' = 1..s.requests,
         \A i \in 1..s.requests : i > sent \/ i > lost => verdict'[i] = verdict[i], Setting(s)
  PROVE  CoordinatorHolds(s)' /\ Stays(s)
<1>0. clock \in Nat /\ sent \in Nat /\ s.requests \in Nat /\ sent <= s.requests /\ lost \in Nat
  BY DEF CoordinatorHolds, Setting
<1>1. Stays(s)
  BY <1>0 DEF Stays, CoordinatorHolds
<1>2. \A i \in DOMAIN spaceReplies' : ReplyHolds(s, spaceReplies'[i].reply, clock', activeAt', sent', lost', verdict')
  BY <1>1, RepliesStay DEF CoordinatorHolds
<1>3. Believed(s, space', clock', activeAt')
  BY <1>0, BelievedStays DEF CoordinatorHolds
<1>4. \A i \in 1..s.requests : (i > sent' => verdict'[i] = {}) /\ (i > lost' => \A x, y \in verdict'[i] : x = y)
  BY <1>0 DEF CoordinatorHolds
<1>5. DOMAIN spaceReplies' \subseteq 1..sent'
  BY <1>0 DEF CoordinatorHolds
<1> QED BY <1>0, <1>1, <1>2, <1>3, <1>4, <1>5 DEF CoordinatorHolds

\* What the devices and the registry keep stays true; what is new has to be.
LEMMA DevicesStay ==
  ASSUME NEW s, SpaceInv(s), Stays(s), CoordinatorHolds(s)',
         backup' = backup \/ Believed(s, backup', clock', activeAt'),
         DOMAIN held' = s.devices, DOMAIN waiting' = s.devices, DOMAIN reading' = s.devices,
         \A d \in s.devices :
           /\ held'[d] \in {held[d], NoRecord} \/ Believed(s, held'[d], clock', activeAt')
           /\ waiting'[d] \in {waiting[d], NoRequest}
              \/ RequestHolds(s, waiting'[d], clock', sent', lost', verdict', spaceReplies')
           /\ reading'[d] \in {reading[d], NoReply} \/ ReplyHolds(s, reading'[d], clock', activeAt', sent', lost', verdict'),
         \A q \in posted' : q \in posted \/ RequestHolds(s, q, clock', sent', lost', verdict', spaceReplies'),
         \A r \in results' : r \in results \/ ReplyHolds(s, r, clock', activeAt', sent', lost', verdict')
  PROVE  SpaceInv(s)'
<1>0. /\ \A i \in DOMAIN spaceReplies : spaceReplies[i].expires \in Nat
      /\ \A i \in DOMAIN spaceReplies' : spaceReplies'[i].expires \in Nat
  BY DEF SpaceInv, CoordinatorHolds
<1>1. \A p : Believed(s, p, clock, activeAt) => Believed(s, p, clock', activeAt')
  BY BelievedStays DEF Stays
<1>2. \A q : RequestHolds(s, q, clock, sent, lost, verdict, spaceReplies) =>
               RequestHolds(s, q, clock', sent', lost', verdict', spaceReplies')
  BY <1>0, RequestsStay
<1>3. \A r : ReplyHolds(s, r, clock, activeAt, sent, lost, verdict) =>
               ReplyHolds(s, r, clock', activeAt', sent', lost', verdict')
  BY RepliesStay
<1>4. \A d \in s.devices :
        /\ held'[d] # NoRecord => Believed(s, held'[d], clock', activeAt')
        /\ waiting'[d] # NoRequest => RequestHolds(s, waiting'[d], clock', sent', lost', verdict', spaceReplies')
        /\ reading'[d] # NoReply => ReplyHolds(s, reading'[d], clock', activeAt', sent', lost', verdict')
  BY <1>1, <1>2, <1>3 DEF SpaceInv, DevicesHold
<1>5. /\ \A q \in posted' : RequestHolds(s, q, clock', sent', lost', verdict', spaceReplies')
      /\ \A r \in results' : ReplyHolds(s, r, clock', activeAt', sent', lost', verdict')
  BY <1>2, <1>3 DEF SpaceInv, DevicesHold
<1>6. backup' # NoRecord => Believed(s, backup', clock', activeAt')
  BY <1>1 DEF SpaceInv, DevicesHold
<1> QED BY <1>4, <1>5, <1>6 DEF SpaceInv, DevicesHold

\* The coordinator's own steps, its recovery, and time.
LEMMA CoordinatorKeepsSpace ==
  ASSUME NEW s, Setting(s), SpaceInv(s),
         Space(s)!ActLocally \/ Space(s)!Serve \/ Space(s)!Renew \/ Space(s)!Backup \/ Space(s)!Restore \/ Space(s)!Wait
  PROVE  SpaceInv(s)'
<1>0. /\ CoordinatorHolds(s) /\ DevicesHold(s)
      /\ clock \in Nat /\ sent \in 0..s.requests /\ s.requests \in Nat /\ lost \in Nat /\ space \in Snapshots(s)
      /\ activeAt \in [s.devices -> Nat] /\ \A d \in s.devices : activeAt[d] <= clock
      /\ DOMAIN verdict = 1..s.requests
      /\ DOMAIN held = s.devices /\ DOMAIN waiting = s.devices /\ DOMAIN reading = s.devices
  BY DEF SpaceInv, CoordinatorHolds, DevicesHold, Believed, Setting
<1>1. CASE Space(s)!ActLocally
  <2>0. PICK a \in Space(s)!Manager : \E t \in Space(s)!Draws(a) : Space(s)!Commit(Space(s)!Apply(Coordinator, a, t))
    BY <1>1 DEF Space!ActLocally
  <2>1. PICK t \in Space(s)!Draws(a) : Space(s)!Commit(Space(s)!Apply(Coordinator, a, t))
    BY <2>0
  <2>2. UNCHANGED <<clock, spaceReplies, backup, held, waiting, reading, posted, results, sent, joined, verdict, lost>>
    BY <1>1 DEF Space!ActLocally
  <2>3. a \in Space(s)!Actions /\ a.act \notin {"join", "sync"}
    BY DEF Space!Manager
  <2>4. Decided(s, Space(s)!Apply(Coordinator, a, t))
    BY <1>0, <2>3, ApplyIsDecided
  <2>5. CoordinatorHolds(s)' /\ Stays(s)
    BY <1>0, <2>1, <2>2, <2>4, CommitKeepsCoordinator
  <2> QED BY <1>0, <2>2, <2>5, DevicesStay
<1>2. CASE Space(s)!Serve
  <2>1. PICK q \in posted : Space(s)!Process(q) /\ results' = results \cup {spaceReplies'[q.id].reply}
    BY <1>2 DEF Space!Serve
  <2>2. UNCHANGED <<clock, backup, held, waiting, reading, posted, sent, lost>>
    BY <1>2 DEF Space!Serve
  <2>3. RequestHolds(s, q, clock, sent, lost, verdict, spaceReplies)
    BY <1>0 DEF DevicesHold
  <2>4. /\ CoordinatorHolds(s)' /\ Stays(s)
        /\ ReplyHolds(s, spaceReplies'[q.id].reply, clock', activeAt', sent', lost', verdict')
    BY <1>0, <2>1, <2>2, <2>3, ProcessHolds
  <2> QED BY <1>0, <2>1, <2>2, <2>4, DevicesStay
<1>3. CASE Space(s)!Renew
  <2> DEFINE o == Space(s)!Outcome(Space(s)!Signed(space), invites, NoToken)
  <2>1. /\ Space(s)!Commit(o)
        /\ UNCHANGED <<clock, spaceReplies, backup, held, waiting, reading, posted, results, sent, joined, verdict, lost>>
    BY <1>3 DEF Space!Renew
  <2>2. Decided(s, o)
    BY <1>0, SignedIs, OutcomeIsDecided
  <2> HIDE DEF o
  <2>3. CoordinatorHolds(s)' /\ Stays(s)
    BY <1>0, <2>1, <2>2, CommitKeepsCoordinator
  <2> QED BY <1>0, <2>1, <2>3, DevicesStay
<1>4. CASE Space(s)!Backup
  <2>1. backup' = space
        /\ UNCHANGED <<clock, space, invites, spaceReplies, held, waiting, reading, posted, results, sent, issued,
                       activeAt, joined, verdict, lost>>
    BY <1>4 DEF Space!Backup
  <2>2. CoordinatorHolds(s)' /\ Stays(s)
    BY <1>0, <2>1, CoordinatorStays
  <2>3. Believed(s, backup', clock', activeAt')
    BY <1>0, <2>1 DEF CoordinatorHolds
  <2> QED BY <1>0, <2>1, <2>2, <2>3, DevicesStay
<1>5. CASE Space(s)!Restore
  <2>1. /\ backup # NoRecord /\ space' = backup
        /\ activeAt' = [d \in s.devices |-> IF Space(s)!Active(backup, d) THEN clock ELSE activeAt[d]]
        /\ invites' = [t \in {} |-> {}] /\ spaceReplies' = [i \in {} |-> {}] /\ lost' = sent
        /\ UNCHANGED <<clock, held, waiting, reading, posted, results, sent, issued, joined, verdict, backup>>
    BY <1>5 DEF Space!Restore, Space!Seen
  <2>2. Believed(s, backup, clock, activeAt)
    BY <1>0, <2>1 DEF DevicesHold
  <2>3. /\ activeAt' \in [s.devices -> Nat]
        /\ \A d \in s.devices : activeAt[d] <= activeAt'[d] /\ activeAt'[d] <= clock
    BY <1>0, <2>1
  <2>4. Believed(s, space', clock', activeAt')
    BY <1>0, <2>1, <2>2, <2>3, BelievedStays
  <2>5. InvitesHold(s, invites', space', issued', joined')
    BY <1>0, <2>1 DEF CoordinatorHolds, InvitesHold
  <2>6. /\ \A i \in 1..s.requests : i > sent => verdict[i] = {}
    BY <1>0 DEF CoordinatorHolds
  <2>7. CoordinatorHolds(s)'
    BY <1>0, <2>1, <2>3, <2>4, <2>5, <2>6 DEF CoordinatorHolds
  <2>8. Stays(s)
    <3>1. lost <= sent
      BY <1>0 DEF CoordinatorHolds
    <3> QED BY <1>0, <2>1, <2>3, <3>1 DEF Stays
  <2> QED BY <1>0, <2>1, <2>7, <2>8, DevicesStay
<1>6. CASE Space(s)!Wait
  <2>1. /\ clock' = clock + 1
        /\ activeAt' = [d \in s.devices |-> IF Space(s)!Active(space, d) THEN clock + 1 ELSE activeAt[d]]
        /\ UNCHANGED <<space, invites, spaceReplies, backup, held, waiting, reading, posted, results, sent, issued,
                       joined, verdict, lost>>
    BY <1>6 DEF Space!Wait
  <2>2. /\ activeAt' \in [s.devices -> Nat] /\ clock' \in Nat /\ clock <= clock'
        /\ \A d \in s.devices : activeAt[d] <= activeAt'[d] /\ activeAt'[d] <= clock'
    BY <1>0, <2>1
  <2>3. CoordinatorHolds(s)' /\ Stays(s)
    BY <1>0, <2>1, <2>2, CoordinatorStays
  <2> QED BY <1>0, <2>1, <2>3, DevicesStay
<1> QED BY <1>1, <1>2, <1>3, <1>4, <1>5, <1>6

\* The steps of a device.
LEMMA DeviceKeepsSpace ==
  ASSUME NEW s, Setting(s), SpaceInv(s), NEW d \in s.devices, Space(s)!Device(d)
  PROVE  SpaceInv(s)'
<1>0. /\ CoordinatorHolds(s) /\ DevicesHold(s)
      /\ clock \in Nat /\ sent \in 0..s.requests /\ s.requests \in Nat /\ lost \in Nat
      /\ activeAt \in [s.devices -> Nat] /\ \A x \in s.devices : activeAt[x] <= clock
      /\ DOMAIN verdict = 1..s.requests /\ issued \subseteq Tokens
      /\ DOMAIN held = s.devices /\ DOMAIN waiting = s.devices /\ DOMAIN reading = s.devices
  BY DEF SpaceInv, CoordinatorHolds, DevicesHold, InvitesHold, Setting
<1>1. CASE Space(s)!Ask(d)
  <2>1. PICK a : /\ Space(s)!Queue(d, a)
                 /\ \/ a.act = "join" /\ a = [act |-> "join", on |-> a.on] /\ a.on \in issued
                    \/ a \in Space(s)!Manager
                    \/ a = [act |-> "sync", on |-> a.on] /\ a.on \in BOOLEAN
    <3>1. CASE \E t \in issued : Space(s)!Queue(d, [act |-> "join", on |-> t])
      BY <3>1
    <3>2. CASE \E b \in Space(s)!Manager : Space(s)!Queue(d, b)
      BY <3>2
    <3>3. CASE \E r \in BOOLEAN : Space(s)!Queue(d, [act |-> "sync", on |-> r])
      BY <3>3
    <3> QED BY <1>1, <3>1, <3>2, <3>3 DEF Space!Ask
  <2> DEFINE q == [id |-> sent + 1, from |-> d, do |-> a, deadline |-> clock + IF a.act = "join" THEN JoinLife ELSE ActLife]
  <2>2. /\ sent < s.requests /\ sent' = sent + 1 /\ waiting' = [waiting EXCEPT ![d] = q]
        /\ UNCHANGED <<clock, space, invites, spaceReplies, backup, held, reading, posted, results, issued, activeAt,
                       joined, verdict, lost>>
    BY <1>1, <2>1 DEF Space!Ask, Space!Queue
  <2>3. a \in Space(s)!Actions
    BY <1>0, <2>1 DEF Space!Actions, Space!Manager
  <2>4. CoordinatorHolds(s)' /\ Stays(s)
    BY <1>0, <2>2, CoordinatorStays
  <2>5. sent + 1 \notin DOMAIN spaceReplies /\ verdict[sent + 1] = {}
    BY <1>0, <2>2 DEF CoordinatorHolds
  <2>6. q.deadline \in Nat /\ q.deadline <= clock + ReplyLife
    BY <1>0, SpaceAssumption
  <2>7. RequestHolds(s, q, clock', sent', lost', verdict', spaceReplies')
    BY <1>0, <2>2, <2>3, <2>5, <2>6 DEF RequestHolds
  <2> QED BY <1>0, <2>2, <2>4, <2>7, DevicesStay
<1>2. CASE Space(s)!GiveUp(d)
  <2>1. /\ waiting' = [waiting EXCEPT ![d] = NoRequest]
        /\ UNCHANGED <<clock, space, invites, spaceReplies, backup, held, reading, posted, results, sent, issued,
                       activeAt, joined, verdict, lost>>
    BY <1>2 DEF Space!GiveUp
  <2>2. CoordinatorHolds(s)' /\ Stays(s)
    BY <1>0, <2>1, CoordinatorStays
  <2> QED BY <1>0, <2>1, <2>2, DevicesStay
<1>3. CASE Space(s)!DirectExchange(d)
  <2>1. /\ waiting[d] # NoRequest /\ Space(s)!Process(waiting[d])
        /\ UNCHANGED <<clock, backup, held, waiting, posted, results, sent, lost>>
        /\ \E got \in {spaceReplies'[waiting[d].id].reply, NoReply} : reading' = [reading EXCEPT ![d] = got]
    BY <1>3 DEF Space!DirectExchange, Space!Live
  <2>2. RequestHolds(s, waiting[d], clock, sent, lost, verdict, spaceReplies)
    BY <1>0, <2>1 DEF DevicesHold
  <2>3. /\ CoordinatorHolds(s)' /\ Stays(s)
        /\ ReplyHolds(s, spaceReplies'[waiting[d].id].reply, clock', activeAt', sent', lost', verdict')
    BY <1>0, <2>1, <2>2, ProcessHolds
  <2> QED BY <1>0, <2>1, <2>3, DevicesStay
<1>4. CASE Space(s)!Submit(d)
  <2>1. /\ waiting[d] # NoRequest /\ posted' = posted \cup {waiting[d]}
        /\ UNCHANGED <<clock, space, invites, spaceReplies, backup, held, waiting, results, sent, issued, activeAt,
                       joined, verdict, lost>>
        /\ \E got \in results \cup {NoReply} : reading' = [reading EXCEPT ![d] = got]
    BY <1>4 DEF Space!Submit, Space!Live
  <2>2. CoordinatorHolds(s)' /\ Stays(s)
    BY <1>0, <2>1, CoordinatorStays
  <2>3. RequestHolds(s, waiting[d], clock', sent', lost', verdict', spaceReplies')
    BY <1>0, <2>1 DEF DevicesHold
  <2>4. \A r \in results : ReplyHolds(s, r, clock', activeAt', sent', lost', verdict')
    BY <1>0, <2>1 DEF DevicesHold
  <2> QED BY <1>0, <2>1, <2>2, <2>3, <2>4, DevicesStay
<1>5. CASE Space(s)!Collect(d)
  <2> DEFINE r == reading[d]
  <2>1. /\ r # NoReply /\ reading' = [reading EXCEPT ![d] = NoReply]
        /\ UNCHANGED <<clock, space, invites, spaceReplies, backup, posted, results, sent, issued, activeAt, joined, lost>>
        /\ held' = held \/ (r.ok /\ held' = [held EXCEPT ![d] = r.space])
        /\ waiting' = waiting \/ waiting' = [waiting EXCEPT ![d] = NoRequest]
        /\ verdict' = verdict \/ verdict' = [verdict EXCEPT ![r.id] = @ \cup {r.ok}]
    BY <1>5 DEF Space!Collect
  <2>2. ReplyHolds(s, r, clock, activeAt, sent, lost, verdict)
    BY <1>0, <2>1 DEF DevicesHold
  <2>3. r.id \in 1..sent /\ r.id \in 1..s.requests /\ (r.id > lost => verdict[r.id] = {r.ok})
    BY <1>0, <2>2 DEF ReplyHolds, Told
  <2>4. r.ok => Believed(s, r.space, clock, activeAt)
    BY <2>2 DEF ReplyHolds
  <2> HIDE DEF r
  <2>5. /\ DOMAIN verdict' = 1..s.requests
        /\ \A i \in 1..s.requests : i > sent \/ i > lost => verdict'[i] = verdict[i]
    <3>1. CASE verdict' = verdict
      BY <1>0, <3>1
    <3>2. CASE verdict' = [verdict EXCEPT ![r.id] = @ \cup {r.ok}]
      <4>1. /\ DOMAIN verdict' = 1..s.requests /\ verdict'[r.id] = verdict[r.id] \cup {r.ok}
            /\ \A i \in 1..s.requests : i # r.id => verdict'[i] = verdict[i]
        BY <1>0, <2>3, <3>2
      <4>2. r.id > lost => verdict'[r.id] = verdict[r.id]
        BY <2>3, <4>1
      <4>3. ~ r.id > sent
        BY <1>0, <2>3
      <4> QED BY <4>1, <4>2, <4>3
    <3> QED BY <2>1, <3>1, <3>2
  <2>6. CoordinatorHolds(s)' /\ Stays(s)
    BY <1>0, <2>1, <2>5, CoordinatorStays
  <2>7. \A x \in s.devices : held'[x] = held[x] \/ Believed(s, held'[x], clock', activeAt')
    BY <1>0, <2>1, <2>4
  <2>8. DOMAIN held' = s.devices /\ DOMAIN waiting' = s.devices /\ DOMAIN reading' = s.devices
    BY <1>0, <2>1
  <2>9. \A x \in s.devices : waiting'[x] \in {waiting[x], NoRequest} /\ reading'[x] \in {reading[x], NoReply}
    BY <1>0, <2>1
  <2> QED BY <1>0, <2>1, <2>6, <2>7, <2>8, <2>9, DevicesStay
<1>6. CASE Space(s)!Leave(d)
  <2>1. /\ held' = [held EXCEPT ![d] = NoRecord] /\ waiting' = [waiting EXCEPT ![d] = NoRequest]
        /\ UNCHANGED <<clock, space, invites, spaceReplies, backup, reading, posted, results, sent, issued, activeAt,
                       joined, verdict, lost>>
    BY <1>6 DEF Space!Leave
  <2>2. CoordinatorHolds(s)' /\ Stays(s)
    BY <1>0, <2>1, CoordinatorStays
  <2> QED BY <1>0, <2>1, <2>2, DevicesStay
<1> QED BY <1>1, <1>2, <1>3, <1>4, <1>5, <1>6 DEF Space!Device

LEMMA PolicyKeepsSpace ==
  ASSUME NEW s, Setting(s), SpaceInv(s), NEW n, Space(s)!SetPolicy(n)
  PROVE  SpaceInv(s)'
BY DEF Space!SetPolicy, SpaceInv, CoordinatorHolds, DevicesHold

\* The invariant gives what members may rely on.
LEMMA SpaceIsSound ==
  ASSUME NEW s, Setting(s), SpaceInv(s)
  PROVE  Space(s)!SpaceSound
<1>0. /\ CoordinatorHolds(s) /\ DevicesHold(s) /\ InvitesHold(s, invites, space, issued, joined)
      /\ clock \in Nat /\ Lease \in Nat /\ activeAt \in [s.devices -> Nat]
      /\ Believed(s, space, clock, activeAt)
  BY SpaceAssumption DEF SpaceInv, CoordinatorHolds
<1>1. Space(s)!RemovalBounded
  <2> SUFFICES ASSUME NEW n \in s.providers, NEW peer \in s.devices \cup {Coordinator}, Space(s)!AllowsAi(n, peer),
                      NEW d \in {n, peer} \cap s.devices
               PROVE  activeAt[d] + Lease > clock
    BY DEF Space!RemovalBounded
  <2> DEFINE p == Space(s)!Copy(n)
  <2>1. p # NoRecord /\ p.at + Lease > clock /\ p.members[d] \in {"device", "manager"}
    BY DEF Space!AllowsAi, Space!Fresh, Space!Active
  <2>2. Believed(s, p, clock, activeAt)
    BY <1>0, <2>1 DEF Space!Copy, DevicesHold, Setting
  <2> HIDE DEF p
  <2>3. p.at \in Nat /\ p.at <= activeAt[d] /\ activeAt[d] \in Nat
    BY <1>0, <2>1, <2>2 DEF Believed, Snapshots
  <2> QED BY <1>0, <2>1, <2>3
<1>2. Space(s)!JoinsOnce
  BY <1>0 DEF InvitesHold, Space!JoinsOnce
<1>3. Space(s)!InvitesHaveIssuer
  BY <1>0 DEF InvitesHold, Space!InvitesHaveIssuer, Space!Usable
<1>4. Space(s)!ToldAsDecided
  <2>1. lost \in Nat /\ s.requests \in Nat
    BY <1>0 DEF CoordinatorHolds, Setting
  <2>2. \A i \in lost + 1..s.requests : \A told, again \in verdict[i] : told = again
    BY <1>0, <2>1 DEF CoordinatorHolds
  <2> QED BY <2>2 DEF Space!ToldAsDecided
<1> QED BY <1>1, <1>2, <1>3, <1>4 DEF Space!SpaceSound

(* A device that was removed is served no longer than a signed copy is valid,  *)
(* an invitation lets in one device once and only while its issuer manages,    *)
(* and a request is decided once and told as decided, unless the coordinator   *)
(* was replaced by its backup: for any devices, invitations, lives of requests *)
(* and replies, lost, late and repeated answers (personal_space.py).           *)
THEOREM SpaceStaysSound == Spec => []SpaceSound
<1> DEFINE Inv == (component = "space" => SpaceInv(New)) /\ (component = "oldSpace" => SpaceInv(Old))
<1>0. Setting(New) /\ Setting(Old)
  BY SpaceAssumption DEF Setting, New, Old, Roles
<1>1. Init => Inv
  BY <1>0, SpaceStarts DEF Init
<1>2. Inv /\ [Next]_vars => Inv'
  <2> SUFFICES ASSUME Inv, [Next]_vars
               PROVE  Inv'
    OBVIOUS
  <2>1. ASSUME NEW s, Setting(s), SpaceInv(s), Space(s)!Next
        PROVE  SpaceInv(s)'
    BY <2>1, SpaceAssumption, CoordinatorKeepsSpace, DeviceKeepsSpace, PolicyKeepsSpace DEF Space!Next
  <2>2. CASE SpaceStep
    BY <1>0, <2>1, <2>2 DEF SpaceStep
  <2>3. CASE OldSpaceStep
    BY <1>0, <2>1, <2>3 DEF OldSpaceStep
  <2>4. CASE UNCHANGED <<component, spaceState>>
    <3>1. ASSUME NEW s, SpaceInv(s)
          PROVE  SpaceInv(s)'
      BY <2>4, <3>1 DEF spaceState, SpaceInv, CoordinatorHolds, DevicesHold
    <3> QED BY <2>4, <3>1
  <2>5. CASE component \notin {"space", "oldSpace"} /\ component' = component
    BY <2>5
  <2> QED BY <2>2, <2>3, <2>4, <2>5 DEF Next, ErasureStep, SyncStep, PairingStep, OfflineStep, SupervisorStep, UpdateStep,
                                        vars
<1>3. Inv => SpaceSound
  BY <1>0, SpaceAssumption, SpaceIsSound DEF SpaceSound
<1> QED BY <1>1, <1>2, <1>3, PTL DEF Spec
====================================================================================
