-------------------------------- MODULE AskRyn --------------------------------
(* Ask Ryn: the conversations a node keeps (ask_ryn/store.py) and the runs that  *)
(* answer questions in them (ask_ryn/runs.py).  Conversations and runs share one *)
(* encrypted file, rewritten under a file lock; a supervised worker dispatches   *)
(* each queued run to the consumer's order commands, polls the order and         *)
(* archives its result.  The worker releases the lock around every call to the   *)
(* order commands, so the owner's requests interleave with it, and the node may  *)
(* stop at any point.  A request made against an old revision is refused and     *)
(* changes nothing; revisions are not modelled further.                          *)
EXTENDS Naturals, FiniteSets

CONSTANTS Convs, Tasks,
          Free,        \* the worker between two iterations
          MaxActive,   \* the limit on runs that have not ended (64 in the code)
          MaxStops     \* bound: stops of the process explored

VARIABLES
    convs,      \* the conversations in the history
    deleted,    \* the tombstones
    migrated,   \* the migration receipts
    runs,       \* the run records, by task
    orders,     \* the consumer's orders, by task (LlmOrders has the detail)
    worker,     \* the worker's iteration: Free, or what it carries between calls
    submits,    \* history: how often an order was submitted for each task
    acked,      \* history: the orders whose retained result was released
    stops

askVars == <<convs, deleted, migrated, runs, orders, worker, submits, acked, stops>>

Terminal == {"succeeded", "failed", "cancelled", "timed_out", "interrupted"}
NoRun == [state |-> "none", conv |-> "none", cancel |-> FALSE, delivered |-> FALSE]
ListedRuns == {t \in Tasks : runs[t].state \in {"queued", "running"}}   \* mutant: a claimed run is not listed
ActiveRuns == {t \in Tasks : runs[t].state \notin Terminal \cup {"none"}}

Init ==
    /\ convs = {} /\ deleted = {} /\ migrated = {}
    /\ runs = [t \in Tasks |-> NoRun]
    /\ orders = [t \in Tasks |-> "none"]
    /\ worker = Free
    /\ submits = [t \in Tasks |-> 0] /\ acked = {} /\ stops = 0

----------------------------------------------------------------------------
(* The owner's requests.                                                        *)

SaveAnyway(c) ==   \* mutant: the tombstone is not consulted
    /\ convs' = convs \cup {c}
    /\ UNCHANGED <<deleted, migrated, runs, orders, worker, submits, acked, stops>>

\* A conversation is created or edited; a deleted one cannot be written again.
Save(c) ==
    /\ c \notin deleted
    /\ convs' = convs \cup {c}
    /\ UNCHANGED <<deleted, migrated, runs, orders, worker, submits, acked, stops>>

\* A browser imports a conversation it kept; a receipt or a tombstone makes it a no-op.
Migrate(c) ==
    /\ c \notin deleted /\ c \notin migrated
    /\ convs' = convs \cup {c} /\ migrated' = migrated \cup {c}
    /\ UNCHANGED <<deleted, runs, orders, worker, submits, acked, stops>>

\* Deleting a conversation ends its queued runs and asks its other runs to cancel.
Remove(c) ==
    /\ c \in convs
    /\ convs' = convs \ {c} /\ deleted' = deleted \cup {c}
    /\ runs' = [t \in Tasks |->
            IF runs[t].conv = c /\ t \in ActiveRuns
            THEN [runs[t] EXCEPT !.cancel = TRUE,
                                 !.state = IF @ = "queued" THEN "cancelled" ELSE @]
            ELSE runs[t]]
    /\ UNCHANGED <<migrated, orders, worker, submits, acked, stops>>

\* Another of the owner's devices deleted the conversation: the merge removes it
\* and leaves the runs to the worker.
ReceiveDelete(c) ==
    /\ c \in convs
    /\ convs' = convs \ {c} /\ deleted' = deleted \cup {c}
    /\ UNCHANGED <<migrated, runs, orders, worker, submits, acked, stops>>

\* The intent of a run and its two visible messages are one transaction.
Begin(t, c) ==
    /\ runs[t].state = "none"
    /\ c \in convs \ deleted
    /\ \A u \in ActiveRuns : runs[u].conv # c
    /\ Cardinality(ActiveRuns) < MaxActive
    /\ runs' = [runs EXCEPT ![t] = [NoRun EXCEPT !.state = "queued", !.conv = c]]
    /\ UNCHANGED <<convs, deleted, migrated, orders, worker, submits, acked, stops>>

Cancel(t) ==
    /\ t \in ActiveRuns
    /\ runs' = [runs EXCEPT ![t].cancel = TRUE]
    /\ UNCHANGED <<convs, deleted, migrated, orders, worker, submits, acked, stops>>

----------------------------------------------------------------------------
(* The worker's iteration, run_once.                                            *)

At(stage) == worker # Free /\ worker.stage = stage
Goto(stage) == worker' = [worker EXCEPT !.stage = stage]

\* The claim is durable before the order commands are called: a queued run
\* becomes dispatching, and a run whose conversation is gone is to be cancelled.
ClaimLate(r) == r.state   \* mutant: the claim is not written before the call
ClaimState(r) == IF r.state = "queued" THEN "dispatching" ELSE r.state
Claim(t) ==
    /\ worker = Free /\ t \in ActiveRuns
    /\ LET claimed == [runs[t] EXCEPT !.state = ClaimState(runs[t]),
                                      !.cancel = @ \/ runs[t].conv \notin convs]
       IN  /\ runs' = [runs EXCEPT ![t] = claimed]
           /\ worker' = [stage |-> "submit", task |-> t, dispatch |-> runs[t].state = "queued",
                         cancel |-> claimed.cancel, delivered |-> claimed.delivered]
    /\ UNCHANGED <<convs, deleted, migrated, orders, submits, acked, stops>>

\* _finish: the result and the answer's message are one transaction; a run that
\* has ended stays as it ended.
Ended(t, state) ==
    runs' = IF runs[t].state \in Terminal THEN runs ELSE [runs EXCEPT ![t].state = state]

\* A run that is to be cancelled before it was dispatched is never submitted.
CancelUnsent ==
    /\ At("submit") /\ worker.dispatch /\ worker.cancel
    /\ Ended(worker.task, "cancelled") /\ worker' = Free
    /\ UNCHANGED <<convs, deleted, migrated, orders, submits, acked, stops>>

\* The order is accepted; or the call fails and may or may not have created it:
\* 404 ends the run, any other failure leaves it to a later check.
Submit ==
    /\ At("submit") /\ worker.dispatch /\ ~ worker.cancel
    /\ submits' = [submits EXCEPT ![worker.task] = @ + 1]
    /\ \/ orders' = [orders EXCEPT ![worker.task] = "active"] /\ Goto("cancel") /\ UNCHANGED runs
       \/ /\ \/ UNCHANGED orders
             \/ orders' = [orders EXCEPT ![worker.task] = "active"]
          /\ worker' = Free /\ UNCHANGED runs
       \/ UNCHANGED orders /\ worker' = Free /\ Ended(worker.task, "interrupted")
    /\ UNCHANGED <<convs, deleted, migrated, acked, stops>>

NothingToSubmit ==
    /\ At("submit") /\ ~ worker.dispatch /\ Goto("cancel")
    /\ UNCHANGED <<convs, deleted, migrated, runs, orders, submits, acked, stops>>

\* A requested cancel is delivered once; a refused one is recorded and never
\* keeps the status from being checked.
DeliverCancel ==
    /\ At("cancel")
    /\ \/ UNCHANGED <<orders, runs>>     \* none is wanted, or it is refused
       \/ /\ worker.cancel /\ ~ worker.delivered /\ orders[worker.task] # "none"
          /\ orders' = [orders EXCEPT ![worker.task] = IF @ = "active" THEN "cancelled" ELSE @]
          /\ runs' = IF runs[worker.task].state \in Terminal THEN runs
                     ELSE [runs EXCEPT ![worker.task].delivered = TRUE]
    /\ Goto("check")
    /\ UNCHANGED <<convs, deleted, migrated, submits, acked, stops>>

\* The order's status: unknown ends the run as interrupted; a failed call leaves
\* it; an active order makes it running; an ended one is archived first.
Check ==
    /\ At("check")
    /\ LET t == worker.task
           o == orders[t]
       IN  \/ o = "none" /\ Ended(t, "interrupted") /\ worker' = Free
           \/ o = "active" /\ worker' = Free
              /\ runs' = IF runs[t].state \in Terminal THEN runs
                         ELSE [runs EXCEPT ![t].state = "running"]
           \/ o \in Terminal /\ Ended(t, o) /\ Goto("acknowledge")
    /\ UNCHANGED <<convs, deleted, migrated, orders, submits, acked, stops>>

CheckFails ==
    /\ At("check") /\ worker' = Free
    /\ UNCHANGED <<convs, deleted, migrated, runs, orders, submits, acked, stops>>

\* The retained result is released only after the history has it.
Acknowledge ==
    /\ At("acknowledge")
    /\ acked' = acked \cup {worker.task} /\ worker' = Free
    /\ UNCHANGED <<convs, deleted, migrated, runs, orders, submits, stops>>

\* External: the order ends at the provider.
OrderEnds(t) ==
    /\ orders[t] = "active"
    /\ \E s \in {"succeeded", "failed", "timed_out"} : orders' = [orders EXCEPT ![t] = s]
    /\ UNCHANGED <<convs, deleted, migrated, runs, worker, submits, acked, stops>>

\* The node stops and starts: the iteration is lost, the file is what it was.
Stop ==
    /\ stops < MaxStops /\ stops' = stops + 1 /\ worker' = Free
    /\ UNCHANGED <<convs, deleted, migrated, runs, orders, submits, acked>>

Next ==
    \/ \E c \in Convs : Save(c) \/ Migrate(c) \/ Remove(c) \/ ReceiveDelete(c)
    \/ \E t \in Tasks : Cancel(t) \/ Claim(t) \/ OrderEnds(t) \/ \E c \in Convs : Begin(t, c)
    \/ CancelUnsent \/ Submit \/ NothingToSubmit \/ DeliverCancel
    \/ Check \/ CheckFails \/ Acknowledge \/ Stop

Steps == CancelUnsent \/ Submit \/ NothingToSubmit \/ DeliverCancel \/ Check \/ Acknowledge

----------------------------------------------------------------------------
(* An order is submitted at most once for a task, whatever fails and wherever   *)
(* the node stops: the claim is durable before the call and a claimed run is    *)
(* only ever checked (runs.py, run_once).                                       *)
SubmittedOnce == \A t \in Tasks : submits[t] <= 1

(* A retained result is released only when the run's record has ended, and a     *)
(* run that ended successfully did so with the order's own result.               *)
ReleasedIsArchived ==
    /\ \A t \in acked : runs[t].state \in Terminal
    /\ \A t \in Tasks : runs[t].state = "succeeded" => orders[t] = "succeeded"

(* A deleted conversation never comes back: not by a save, an import or a late   *)
(* result.                                                                       *)
DeletedStaysDeleted == convs \cap deleted = {}

\* What the run service promises of every run at every step (ask_ryn/runs.py).
AskRunsSafe == SubmittedOnce /\ ReleasedIsArchived /\ DeletedStaysDeleted

(* Every run the node accepted ends, also when the node stopped between the      *)
(* claim and the call, or its conversation was deleted.                          *)
RunsEnd == \A t \in Tasks : runs[t].state = "queued" ~> runs[t].state \in Terminal
==============================================================================
