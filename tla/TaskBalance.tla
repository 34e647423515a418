---------------------------- MODULE TaskBalance ----------------------------
(***************************************************************************)
(* The ledger-backed Task Balance of rynmesh/llm_package/task_balance.py:  *)
(* every transition appends a signed event to the credit ledger            *)
(* (rynmesh/credits.py, append) and then rewrites a snapshot file, the     *)
(* materialized view that the next call starts from.                       *)
(*                                                                         *)
(* A call runs under the lock of the ledger object, so one job is in       *)
(* progress at a time; what can happen between its steps is a crash or a   *)
(* failed write.  Events are assumed to carry increasing timestamps.       *)
(***************************************************************************)
EXTENDS Integers, Sequences, FiniteSets, Sums

CONSTANTS Tasks,         \* the task ids
          Amounts,       \* amounts that callers name
          OpeningGrant,  \* initial_dev_balance
          Legacy,        \* version 1 files that the node may find
          MaxEvents      \* bound: length of the event log

Views == [available : Nat, held : Nat, earned : Nat, earnings : SUBSET Tasks,
          holds : [Tasks -> [state : {"none", "held", "settled", "released"},
                             amount : Nat, charged : Nat, n : Nat]]]

\* The amount that view v holds for each task.
OnHold(v) == [t \in Tasks |-> IF v.holds[t].state = "held" THEN v.holds[t].amount ELSE 0]

ASSUME BalanceAssumption ==
  /\ IsFiniteSet(Tasks)
  /\ Amounts \subseteq Nat /\ OpeningGrant \in Nat /\ MaxEvents \in Nat
  /\ Legacy \subseteq [version : {"v1"}, view : Views, folded : {0}]
  /\ \A f \in Legacy : f.view.held = Total(OnHold(f.view), Tasks)

VARIABLES file,    \* the snapshot file: version, view, folded_events
          events,  \* the events of the category dev:task_balance
          truth,   \* what _replay() computes from them: the fold of Apply
          up,      \* the constructor has returned
          folded,  \* self._folded
          job,     \* the call in progress, or Nothing
          paid,    \* history: settled amounts reported to callers
          mishaps, \* history: a write failed ("write"), a start was cut short ("start")
          origin   \* history: the file the node was first started with

vars == <<file, events, truth, up, folded, job, paid, mishaps, origin>>

Unset  == -1
NoTask == "none"

NoHold == [state |-> "none", amount |-> 0, charged |-> 0, n |-> 0]
Fresh  == [available |-> 0, held |-> 0, earned |-> 0, earnings |-> {},
           holds |-> [t \in Tasks |-> NoHold]]
NoFile == [version |-> "none", view |-> Fresh, folded |-> 0]

Op(kind, t, a) == [kind |-> kind, task |-> t, amount |-> a, earned |-> 0]
Opening(a, e)  == [kind |-> "opening", task |-> NoTask, amount |-> a, earned |-> e]

\* No call is in progress.
Nothing == [todo |-> << >>, view |-> Fresh, op |-> Op("none", NoTask, 0)]

Init ==
  /\ file \in Legacy \cup {NoFile}
  /\ events = << >> /\ truth = Fresh /\ up = FALSE /\ folded = 0 /\ job = Nothing
  /\ paid = [t \in Tasks |-> Unset]
  /\ mishaps = {} /\ origin = file

----------------------------------------------------------------------------
HoldUncovered(h, a, available) ==
  h.state = "none" \/ (h.state = "released" /\ h.amount = a)

HoldSettled(h, a, available) == a <= available /\ h.state # "held"

\* The hold of a task, new or after a release, that the balance covers.
MayHold(h, a, available) ==
  /\ a <= available
  /\ h.state = "none" \/ (h.state = "released" /\ h.amount = a)

\* Transition e changes view v.
Valid(v, e) ==
  \/ e.kind = "opening"
  \/ e.kind = "hold"    /\ MayHold(v.holds[e.task], e.amount, v.available)
  \/ e.kind = "settle"  /\ v.holds[e.task].state = "held" /\ e.amount <= v.holds[e.task].amount
  \/ e.kind = "release" /\ v.holds[e.task].state = "held"
  \/ e.kind = "earning" /\ e.task \notin v.earnings

\* Transition e was made before: the call returns what it then returned.
Repeated(v, e) ==
  \/ /\ e.kind = "hold"
     /\ v.holds[e.task].state \in {"held", "settled"} /\ v.holds[e.task].amount = e.amount
  \/ e.kind = "settle"  /\ v.holds[e.task].state = "settled"
  \/ e.kind = "release" /\ v.holds[e.task].state \in {"settled", "released"}
  \/ e.kind = "earning" /\ e.task \in v.earnings

KeepRest(h, a) == 0

\* What a settlement returns to the available balance.
Refunded(h, a) == h.amount - a

\* The hold of task t becomes h, and the balances change by the given amounts.
Book(v, t, h, available, held) ==
  [v EXCEPT !.available = @ + available, !.held = @ + held,
            !.holds = [@ EXCEPT ![t] = h]]

\* The view after a valid transition.
Effect(v, e) ==
  LET h == v.holds[e.task] IN
  CASE e.kind = "opening" ->
         [v EXCEPT !.available = @ + e.amount, !.earned = e.earned]
    [] e.kind = "hold" ->
         Book(v, e.task, [state |-> "held", amount |-> e.amount, charged |-> 0, n |-> h.n + 1],
              -e.amount, e.amount)
    [] e.kind = "settle" ->
         Book(v, e.task, [h EXCEPT !.state = "settled", !.charged = e.amount],
              Refunded(h, e.amount), -h.amount)
    [] e.kind = "release" ->
         Book(v, e.task, [h EXCEPT !.state = "released"], h.amount, -h.amount)
    [] e.kind = "earning" ->
         [v EXCEPT !.earned = @ + e.amount, !.earnings = @ \cup {e.task}]

\* _replay() skips a transition that does not apply.
Apply(v, e) == IF Valid(v, e) THEN Effect(v, e) ELSE v

KeyOfTask(v, e) == [kind |-> e.kind, task |-> e.task, nth |-> 1]

\* The dedupe key of transition e of view v: it counts the holds of the task, so
\* that a task may be held and released again.
Key(v, e) ==
  [kind |-> e.kind, task |-> e.task,
   nth |-> CASE e.kind = "hold"    -> v.holds[e.task].n + 1
             [] e.kind = "release" -> v.holds[e.task].n
             [] OTHER              -> 1]

\* append(): an event with this key is on file.
Known(key) == \E i \in DOMAIN events : events[i].key = key

----------------------------------------------------------------------------
Idle == job = Nothing
Serving == up /\ Idle

\* hold(), settle(), release() and earn() read the snapshot.
Begin(op) ==
  /\ Serving
  /\ job' = [todo |-> <<op>>, view |-> file.view, op |-> op]
  /\ UNCHANGED <<file, events, truth, up, folded, paid, mishaps, origin>>

\* A transition of the job: the view changes and its event is appended.
Transition ==
  LET e == Head(job.todo)
      k == Key(job.view, e)
  IN  /\ job.todo # << >>
      /\ Valid(job.view, e)
      /\ job' = [job EXCEPT !.todo = Tail(@), !.view = Effect(@, e)]
      /\ IF Known(k)
         THEN UNCHANGED <<events, truth, folded>>
         ELSE /\ Len(events) < MaxEvents
              /\ events' = Append(events, [e |-> e, key |-> k])
              /\ truth'  = Apply(truth, e)
              /\ folded' = folded + 1
      /\ UNCHANGED <<file, up, paid, mishaps, origin>>

\* The call changes nothing and answers as before; it still writes the snapshot.
AnswerAgain ==
  /\ job.todo # << >>
  /\ Repeated(job.view, Head(job.todo))
  /\ job' = [job EXCEPT !.todo = Tail(@)]
  /\ UNCHANGED <<file, events, truth, up, folded, paid, mishaps, origin>>

\* The call raises TaskBalanceError.
Refuse ==
  /\ job.todo # << >>
  /\ ~Valid(job.view, Head(job.todo)) /\ ~Repeated(job.view, Head(job.todo))
  /\ job' = Nothing
  /\ UNCHANGED <<file, events, truth, up, folded, paid, mishaps, origin>>

\* _write(): the snapshot is replaced atomically and the call returns.
Save ==
  /\ ~Idle /\ job.todo = << >>
  /\ file' = [version |-> "v2", view |-> job.view, folded |-> folded]
  /\ paid' = IF job.op.kind = "settle"
             THEN [paid EXCEPT ![job.op.task] = job.view.holds[job.op.task].charged] ELSE paid
  /\ up' = TRUE
  /\ job' = Nothing
  /\ UNCHANGED <<events, truth, folded, mishaps, origin>>

\* A write fails and the call raises; a failing constructor ends the process.
WriteFails ==
  /\ ~Idle
  /\ job' = Nothing
  /\ mishaps' = mishaps \cup (IF up THEN {"write"} ELSE {"write", "start"})
  /\ UNCHANGED <<file, events, truth, up, folded, paid, origin>>

\* rebuild()
Rebuild ==
  /\ Serving
  /\ job' = [todo |-> << >>, view |-> truth, op |-> Opening(0, 0)]
  /\ folded' = Len(events)
  /\ UNCHANGED <<file, events, truth, up, paid, mishaps, origin>>

----------------------------------------------------------------------------
Crash ==
  /\ up \/ ~Idle
  /\ mishaps' = mishaps \cup (IF up THEN {} ELSE {"start"})
  /\ up' = FALSE /\ folded' = 0 /\ job' = Nothing
  /\ UNCHANGED <<file, events, truth, paid, origin>>

\* The snapshot file is lost while the node is down.
LoseFile ==
  /\ ~up /\ Idle /\ file.version = "v2"
  /\ file' = NoFile
  /\ UNCHANGED <<events, truth, up, folded, job, paid, mishaps, origin>>

\* _initialize_ledger_backed: the snapshot has folded every event.
SnapshotCurrent == file.folded = Len(events)

StartTrusting ==
  /\ ~up /\ Idle /\ file.version = "v2" /\ SnapshotCurrent
  /\ up' = TRUE /\ folded' = Len(events)
  /\ UNCHANGED <<file, events, truth, job, paid, mishaps, origin>>

StartReplaying ==
  /\ ~up /\ Idle
  /\ \/ file.version = "v2" /\ ~SnapshotCurrent
     \/ file.version # "v2" /\ events # << >>
  /\ job' = [todo |-> << >>, view |-> truth, op |-> Opening(0, 0)]
  /\ folded' = Len(events)
  /\ UNCHANGED <<file, events, truth, up, paid, mishaps, origin>>

NoHolds(v) == << >>

\* The tasks on hold, in the order of their ids: some fixed order.
OpenHolds(v) ==
  LET S == {t \in Tasks : v.holds[t].state = "held"}
  IN  CHOOSE s \in [1..Cardinality(S) -> S] : \A i, j \in DOMAIN s : s[i] = s[j] => i = j

\* _migrate_legacy: one opening event, then a hold for every open hold.
Migration(v) ==
  <<Opening(v.available + v.held, v.earned)>> \o
  [i \in DOMAIN OpenHolds(v) |-> Op("hold", OpenHolds(v)[i], v.holds[OpenHolds(v)[i]].amount)]

\* A new ledger: the opening grant, or the migration of a version 1 file.
StartFirst ==
  /\ ~up /\ Idle /\ file.version # "v2" /\ events = << >>
  /\ job' = [todo |-> IF file.version = "v1" THEN Migration(file.view)
                      ELSE <<Opening(OpeningGrant, 0)>>,
             view |-> Fresh, op |-> Opening(0, 0)]
  /\ folded' = 0
  /\ UNCHANGED <<file, events, truth, up, paid, mishaps, origin>>

Next ==
  \/ \E t \in Tasks, a \in Amounts, kind \in {"hold", "settle", "earning"} : Begin(Op(kind, t, a))
  \/ \E t \in Tasks : Begin(Op("release", t, 0))
  \/ Transition \/ AnswerAgain \/ Refuse \/ Save \/ WriteFails \/ Rebuild
  \/ Crash \/ LoseFile \/ StartTrusting \/ StartReplaying \/ StartFirst

Spec == Init /\ [][Next]_vars

----------------------------------------------------------------------------
\* Type invariant; no balance of a snapshot is negative.
TypeOK ==
  /\ file \in [version : {"none", "v1", "v2"}, view : Views, folded : Nat]
  /\ truth \in Views /\ up \in BOOLEAN /\ folded \in Nat
  /\ ~Idle => job.view \in Views
  /\ paid \in [Tasks -> Nat \cup {Unset}] /\ mishaps \subseteq {"write", "start"}

\* A snapshot whose folded_events equals the number of events, which is all the
\* constructor checks before it trusts the file, is the replay of those events:
\* "replays the ledger from scratch the moment they disagree, rather than
\* trusting the stale file" (docs/VERSIONED_RECORDS.md).
TrustedIsCurrent ==
  file.version = "v2" /\ file.folded = Len(events) => file.view = truth

\* So it is as long as no write has failed, whatever crashes, lost files, rebuilds,
\* migrations and repeated holds the log has seen.
CurrentUnlessFailed == "write" \notin mishaps => TrustedIsCurrent

\* What view v has charged each task, and the units the node was opened with.
Charged(v) == [t \in Tasks |-> v.holds[t].charged]
Endowment  == IF origin.version = "v1" THEN origin.view.available + origin.view.held
              ELSE OpeningGrant

\* The balance neither makes nor loses units: what is available, held and charged
\* is what the node was opened with, and exactly the open holds are held.
Conserved ==
  file.version = "v2" =>
    /\ file.view.held = Total(OnHold(file.view), Tasks)
    /\ file.view.available + file.view.held + Total(Charged(file.view), Tasks) = Endowment

\* As long as no write has failed, a settlement that was reported to the caller is
\* never lost, changed or made twice, whatever crashes, lost snapshots, rebuilds
\* and repeated calls follow.
SettledIsKept ==
  (Serving /\ "write" \notin mishaps) => \A t \in Tasks :
    paid[t] # Unset => /\ file.view.holds[t].state = "settled"
                       /\ file.view.holds[t].charged = paid[t]

\* An order that was on hold in a version 1 file is still known to the balance
\* after the migration ("Turn a v1 file into signed events + a v2 snapshot,
\* once"), so that it can be settled or released, unless the migrating start was
\* cut short.
MigrationKeepsHolds ==
  (Serving /\ origin.version = "v1" /\ "start" \notin mishaps) =>
    \A t \in Tasks : origin.view.holds[t].state = "held" => file.view.holds[t].n > 0

\* Units are neither made nor lost: by calls, by rebuilds of the snapshot, and by the
\* migration of a version 1 file, whose open holds are carried over (hold, settle,
\* release, _migrate of balance.py).
UnitsAreKept == Conserved /\ MigrationKeepsHolds
=============================================================================
