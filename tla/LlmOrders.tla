----------------------------- MODULE LlmOrders -----------------------------
(***************************************************************************)
(* One private LLM order between two nodes, after                          *)
(* rynmesh/llm_package/routes.py and task_protocol.py: the consumer's      *)
(* worker thread (execute_order), its cancel requests (local_llm_cancel),  *)
(* the recovery of a restarted consumer (_recover_consumer_orders), and on *)
(* the provider one request thread per route (ProviderService.handle),     *)
(* cancel_signed, settle_earning, recheck_permissions and                  *)
(* _recover_provider_orders.                                               *)
(*                                                                         *)
(* A step is one critical section of an order store or of the balance,     *)
(* whose hold, settle and release are those of TaskBalance for one task.   *)
(* The terminal states failed, timed_out and rejected are all "failed"     *)
(* here: no rule tells them apart.  Orders to the own node, which cost     *)
(* nothing, are left out.                                                  *)
(***************************************************************************)
EXTENDS Integers, FiniteSets

CONSTANTS Routes,      \* number of routes tried in turn: direct, p2p, relay
          MaxCrashes,  \* bound: crashes of the consumer's process
          MaxRestarts  \* bound: restarts of the provider's process

\* There is a route to try: direct, if nothing else (execute_order).
ASSUME RoutesAssumption == Routes \in Nat \ {0}

Route    == 1..Routes
Terminal == {"succeeded", "failed", "cancelled"}

VARIABLES
  order,       \* state of the consumer's record, "none" without one
  pending,     \* the record holds a settlement_pending checkpoint
  dispatched,  \* the record holds a settlement_dispatched checkpoint
  hold,        \* the hold of the task: none, held, settled or released
  up,          \* the consumer's routes are installed
  worker,      \* program counter of the background thread of the order
  route,       \* the route it tries
  answer,      \* the state in the answer it received
  canceller,   \* program counter of a cancel request
  early,       \* the task is in the consumer's pending_cancellations
  requests,    \* routes on which the signed request was sent
  replies,     \* replies[r]: the state in the reply on route r, or "none"
  cancelSent, settlementSent,   \* signed messages that were sent
  task,        \* state of the provider's record
  response,    \* the state in its stored encrypted_response, or "none"
  handler,     \* handler[r]: program counter of the thread that serves route r
  earlyCancel, \* the task is in the provider's _pending_cancellations
  cancelling,  \* cancel_signed has found no record and will store the cancellation
  earned,      \* the provider's balance holds the earning
  inferences,  \* history: how often the model was run
  crashes, restarts

record   == <<order, pending, dispatched>>
thread   == <<worker, route, answer>>
consumer == <<record, hold, up, thread, canceller, early, crashes>>
provider == <<task, response, handler, earlyCancel, cancelling, earned, inferences, restarts>>
network  == <<requests, replies, cancelSent, settlementSent>>
vars     == <<consumer, provider, network>>

Init ==
  /\ order = "none" /\ pending = FALSE /\ dispatched = FALSE /\ hold = "none"
  /\ up = TRUE /\ worker = "idle" /\ route = 1 /\ answer = "none"
  /\ canceller = "idle" /\ early = FALSE /\ crashes = 0
  /\ task = "none" /\ response = "none" /\ handler = [r \in Route |-> "idle"]
  /\ earlyCancel = FALSE /\ cancelling = FALSE /\ earned = FALSE
  /\ inferences = 0 /\ restarts = 0
  /\ requests = {} /\ replies = [r \in Route |-> "none"]
  /\ cancelSent = FALSE /\ settlementSent = FALSE

----------------------------------------------------------------------------
\* TaskOrderStore.transition: a terminal state is kept.
Moved(current, state) == IF current \in Terminal THEN current ELSE state

\* The same with allow_recovery.
Recovered(current) == IF current = "cancelled" THEN current ELSE "succeeded"

Open(state) == state \notin Terminal \cup {"none"}

\* TaskBalanceLedger.release of a hold that may be settled or released already.
Released(h) == IF h = "held" THEN "released" ELSE h

At(place) == up /\ worker = place
Goto(place) == worker' = place /\ UNCHANGED <<route, answer>>

----------------------------------------------------------------------------
\* submit_order starts the worker unless the task is known.
Submit ==
  /\ At("idle") /\ order = "none"
  /\ Goto("queued")
  /\ UNCHANGED <<record, hold, up, canceller, early, crashes, provider, network>>

\* execute_order refuses before it claims the task: unknown provider, price,
\* balance.
Refuse ==
  /\ At("queued")
  /\ Goto("done")
  /\ UNCHANGED <<record, hold, up, canceller, early, crashes, provider, network>>

Claim ==
  /\ At("queued")
  /\ order' = "created"
  /\ Goto("claimed")
  /\ UNCHANGED <<pending, dispatched, hold, up, canceller, early, crashes, provider, network>>

\* A cancellation that came before the record was created.
CheckEarly ==
  /\ At("claimed")
  /\ order' = IF early THEN Moved(order, "cancelled") ELSE order
  /\ Goto(IF early THEN "done" ELSE "holding")
  /\ early' = FALSE
  /\ UNCHANGED <<pending, dispatched, hold, up, canceller, crashes, provider, network>>

\* The balance may have been spent on other tasks since it was checked.
Hold ==
  /\ At("holding")
  /\ \/ hold' = "held" /\ Goto("held")
     \/ Goto("failing") /\ UNCHANGED hold
  /\ UNCHANGED <<record, up, canceller, early, crashes, provider, network>>

Accept ==
  /\ At("held")
  /\ order' = Moved(order, "accepted")
  /\ Goto("accepted")
  /\ UNCHANGED <<pending, dispatched, hold, up, canceller, early, crashes, provider, network>>

\* The request is sealed and the routes are entered, or sealing fails.
Run ==
  /\ At("accepted")
  /\ \/ order' = Moved(order, "running") /\ Goto("routing")
     \/ Goto("failing") /\ UNCHANGED order
  /\ UNCHANGED <<pending, dispatched, hold, up, canceller, early, crashes, provider, network>>

\* progress(), then the request goes out on the current route.
Send ==
  /\ At("routing")
  /\ IF order = "cancelled"
     THEN Goto("failing") /\ UNCHANGED requests
     ELSE Goto("waiting") /\ requests' = requests \cup {route}
  /\ UNCHANGED <<record, hold, up, canceller, early, crashes, provider,
                 replies, cancelSent, settlementSent>>

AnyRoute == TRUE
RoutesLeft == route < Routes

LastRouteHangs ==
  /\ At("routing") \/ At("waiting")
  /\ RoutesLeft
  /\ worker' = "routing" /\ route' = route + 1
  /\ UNCHANGED <<record, hold, up, answer, canceller, early, crashes, provider, network>>

\* The route cannot be used, breaks or times out: the next one is tried, unless
\* there is none or the transport is strict.
RouteFails ==
  /\ At("routing") \/ At("waiting")
  /\ \/ /\ RoutesLeft
        /\ worker' = "routing" /\ route' = route + 1 /\ UNCHANGED answer
     \/ Goto("failing")
  /\ UNCHANGED <<record, hold, up, canceller, early, crashes, provider, network>>

TakeReply ==
  /\ At("waiting") /\ replies[route] # "none"
  /\ worker' = "answered" /\ answer' = replies[route] /\ UNCHANGED route
  /\ UNCHANGED <<record, hold, up, canceller, early, crashes, provider, network>>

AnyAnswer == TRUE
Succeeded == answer = "succeeded"

\* A provider that refused or failed: the hold is released, then the record moves.
ReleaseRefused ==
  /\ At("answered") /\ ~Succeeded
  /\ hold' = Released(hold)
  /\ Goto("refused")
  /\ UNCHANGED <<record, up, canceller, early, crashes, provider, network>>

MarkRefused ==
  /\ At("refused")
  /\ order' = Moved(order, answer)
  /\ Goto("done")
  /\ UNCHANGED <<pending, dispatched, hold, up, canceller, early, crashes, provider, network>>

SettleLater == "dispatching"

\* The hold is settled before anything is promised to the provider.
AfterCheckpoint == "settling"

SkipCheckpoint ==
  /\ At("answered") /\ Succeeded
  /\ Goto(AfterCheckpoint)
  /\ UNCHANGED <<record, hold, up, canceller, early, crashes, provider, network>>

\* The amount is on disk, with the answer, before the hold is settled.
Checkpoint ==
  /\ At("answered") /\ Succeeded
  /\ pending' = TRUE
  /\ Goto(AfterCheckpoint)
  /\ UNCHANGED <<order, dispatched, hold, up, canceller, early, crashes, provider, network>>

\* A hold that a cancellation released cannot be settled.
Settle ==
  /\ At("settling")
  /\ IF hold = "released"
     THEN Goto("failing") /\ UNCHANGED hold
     ELSE Goto("settled") /\ hold' = "settled"
  /\ UNCHANGED <<record, up, canceller, early, crashes, provider, network>>

MarkSucceeded ==
  /\ At("settled")
  /\ order' = Recovered(order)
  /\ Goto("dispatching")
  /\ UNCHANGED <<pending, dispatched, hold, up, canceller, early, crashes, provider, network>>

\* dispatch_settlement: to the provider's endpoint or the registry, or to neither.
Dispatch ==
  /\ At("dispatching")
  /\ \/ Goto("dispatched") /\ settlementSent' = TRUE
     \/ Goto("done") /\ UNCHANGED settlementSent
  /\ UNCHANGED <<record, hold, up, canceller, early, crashes, provider,
                 requests, replies, cancelSent>>

MarkDispatched ==
  /\ At("dispatched")
  /\ dispatched' = TRUE
  /\ Goto("done")
  /\ UNCHANGED <<order, pending, hold, up, canceller, early, crashes, provider, network>>

\* The exception handler: releasing a hold that was never made raises, and the
\* record stays as it is.
FailRelease ==
  /\ At("failing")
  /\ hold' = Released(hold)
  /\ Goto(IF hold = "none" THEN "done" ELSE "failed")
  /\ UNCHANGED <<record, up, canceller, early, crashes, provider, network>>

FailMark ==
  /\ At("failed")
  /\ order' = Moved(order, "failed")
  /\ Goto("done")
  /\ UNCHANGED <<pending, dispatched, hold, up, canceller, early, crashes, provider, network>>

Work ==
  \/ Submit \/ Refuse \/ Claim \/ CheckEarly \/ Hold \/ Accept \/ Run \/ Send \/ RouteFails
  \/ TakeReply \/ ReleaseRefused \/ MarkRefused \/ Checkpoint \/ Settle \/ MarkSucceeded
  \/ Dispatch \/ MarkDispatched \/ FailRelease \/ FailMark

----------------------------------------------------------------------------
\* The task is in background_orders.
Listed == worker # "idle" /\ (worker # "done" \/ order = "none")

\* local_llm_cancel reads the record.
CancelRead ==
  /\ up /\ canceller = "idle"
  /\ \/ order = "none" /\ canceller' = "unstarted"
     \/ Open(order) /\ canceller' = "release"
  /\ UNCHANGED <<record, hold, up, thread, early, crashes, provider, network>>

\* No record was found: the cancellation waits for the worker.
CancelUnstarted ==
  /\ up /\ canceller = "unstarted"
  /\ early' = (early \/ Listed)
  /\ canceller' = "idle"
  /\ UNCHANGED <<record, hold, up, thread, crashes, provider, network>>

CancelRelease ==
  /\ up /\ canceller = "release"
  /\ hold' = Released(hold)
  /\ canceller' = "mark"
  /\ UNCHANGED <<record, up, thread, early, crashes, provider, network>>

CancelMark ==
  /\ up /\ canceller = "mark"
  /\ order' = Moved(order, "cancelled")
  /\ canceller' = "send"
  /\ UNCHANGED <<pending, dispatched, hold, up, thread, early, crashes, provider, network>>

\* The signed cancellation reaches neither endpoint nor registry, or is sent.
CancelSend ==
  /\ up /\ canceller = "send"
  /\ cancelSent' \in {cancelSent, TRUE}
  /\ canceller' = "idle"
  /\ UNCHANGED <<record, hold, up, thread, early, crashes, provider,
                 requests, replies, settlementSent>>

Cancel == CancelRead \/ CancelUnstarted \/ CancelRelease \/ CancelMark \/ CancelSend

----------------------------------------------------------------------------
\* The consumer's process ends; records, checkpoints and the hold are on disk.
Crash ==
  /\ up /\ crashes < MaxCrashes
  /\ up' = FALSE /\ crashes' = crashes + 1
  /\ worker' = "idle" /\ route' = 1 /\ answer' = "none"
  /\ canceller' = "idle" /\ early' = FALSE
  /\ UNCHANGED <<record, hold, provider, network>>

\* _recover_consumer_orders decides from what is on disk, so a crash between two
\* of its steps starts it again; it raises when a pending settlement has lost its
\* hold, and then none of these steps is possible.
RecoverSettle ==
  /\ ~up /\ Open(order) /\ pending
  /\ hold = "held" /\ hold' = "settled"
  /\ UNCHANGED <<record, up, thread, canceller, early, crashes, provider, network>>

RecoverSucceed ==
  /\ ~up /\ Open(order) /\ pending /\ hold = "settled"
  /\ order' = "succeeded"
  /\ UNCHANGED <<pending, dispatched, hold, up, thread, canceller, early, crashes,
                 provider, network>>

\* The settlement is sent again, and recorded as sent unless the process ends.
RecoverDispatch ==
  /\ ~up /\ order = "succeeded" /\ pending /\ ~dispatched
  /\ settlementSent' = TRUE
  /\ dispatched' \in BOOLEAN
  /\ UNCHANGED <<order, pending, hold, up, thread, canceller, early, crashes, provider,
                 requests, replies, cancelSent>>

RecoverFail ==
  /\ ~up /\ Open(order) /\ ~pending
  /\ order' = "failed"
  /\ UNCHANGED <<pending, dispatched, hold, up, thread, canceller, early, crashes,
                 provider, network>>

FailedOnly == order = "failed"

\* Holds are released for orders that had already ended, too.
MustRelease == order \in Terminal \ {"succeeded"}

RecoverRelease ==
  /\ ~up /\ MustRelease /\ hold = "held"
  /\ hold' = "released"
  /\ UNCHANGED <<record, up, thread, canceller, early, crashes, provider, network>>

\* The routes are installed once every record has been dealt with.
Start ==
  /\ ~up /\ ~Open(order) /\ ~(MustRelease /\ hold = "held")
  /\ up' = TRUE
  /\ UNCHANGED <<record, hold, thread, canceller, early, crashes, provider, network>>

Recover ==
  RecoverSettle \/ RecoverSucceed \/ RecoverDispatch \/ RecoverFail \/ RecoverRelease \/ Start

----------------------------------------------------------------------------
\* Route r is answered with the given state and its thread ends.
Reply(r, state) ==
  /\ handler' = [handler EXCEPT ![r] = "done"]
  /\ replies' = [replies EXCEPT ![r] = state]
  /\ UNCHANGED <<requests, cancelSent, settlementSent>>

HandlerTo(r, place) == handler' = [handler EXCEPT ![r] = place] /\ UNCHANGED network

\* The provider's record takes the state and, with it, the encrypted response.
Record(state) ==
  /\ task' = Moved(task, state)
  /\ response' = IF task \in Terminal THEN response ELSE state

Arrives(r) == r \in requests /\ handler[r] = "idle"

\* handle() refuses before it claims: no permission, paused, unhealthy, limits;
\* with a sealed reply or with an error.
Reject(r) ==
  /\ Arrives(r)
  /\ Reply(r, "failed") \/ HandlerTo(r, "done")
  /\ UNCHANGED <<consumer, task, response, earlyCancel, cancelling, earned, inferences, restarts>>

AlwaysNew == TRUE
NewTask == task = "none"

\* _claim_admitted_task, under the admission lock.
ClaimTask(r) ==
  /\ Arrives(r) /\ NewTask
  /\ task' = "created"
  /\ HandlerTo(r, "claimed")
  /\ UNCHANGED <<consumer, response, earlyCancel, cancelling, earned, inferences, restarts>>

\* A second request for the task waits for the outcome of the first.
Duplicate(r) ==
  /\ Arrives(r) /\ task # "none"
  /\ HandlerTo(r, "duplicate")
  /\ UNCHANGED <<consumer, task, response, earlyCancel, cancelling, earned, inferences, restarts>>

\* The stored response, or a failure when it was purged or lost.
AnswerDuplicate(r) ==
  /\ handler[r] = "duplicate"
  /\ \/ task \in Terminal /\ Reply(r, IF response = "none" THEN "failed" ELSE response)
     \/ HandlerTo(r, "done")   \* the wait timed out
  /\ UNCHANGED <<consumer, task, response, earlyCancel, cancelling, earned, inferences, restarts>>

\* The cancellation overtook the request: cancel(), then a sealed failure that the
\* record, already terminal, does not store.
TakeCancel(r) ==
  /\ handler[r] = "claimed" /\ earlyCancel
  /\ earlyCancel' = FALSE
  /\ task' = Moved(task, "cancelled")
  /\ Reply(r, "cancelled")
  /\ UNCHANGED <<consumer, response, cancelling, earned, inferences, restarts>>

NoSlot(r) ==
  /\ handler[r] = "claimed" /\ ~earlyCancel
  /\ Record("failed")
  /\ Reply(r, "failed")
  /\ UNCHANGED <<consumer, earlyCancel, cancelling, earned, inferences, restarts>>

\* A slot is taken, the record goes through accepted to running.
TakeSlot(r) ==
  /\ handler[r] = "claimed" /\ ~earlyCancel
  /\ task' = Moved(task, "running")
  /\ HandlerTo(r, "starting")
  /\ UNCHANGED <<consumer, response, earlyCancel, cancelling, earned, inferences, restarts>>

\* The checks before and after the model run.
StopIfCancelled(r) ==
  /\ handler[r] \in {"starting", "inferred"} /\ task = "cancelled"
  /\ Reply(r, "cancelled")
  /\ UNCHANGED <<consumer, task, response, earlyCancel, cancelling, earned, inferences, restarts>>

Infer(r) ==
  /\ handler[r] = "starting" /\ task # "cancelled"
  /\ inferences' = inferences + 1
  /\ HandlerTo(r, "inferring")
  /\ UNCHANGED <<consumer, task, response, earlyCancel, cancelling, earned, restarts>>

InferEnds(r) ==
  /\ handler[r] = "inferring"
  /\ HandlerTo(r, "inferred")
  /\ UNCHANGED <<consumer, task, response, earlyCancel, cancelling, earned, inferences, restarts>>

\* The model fails or times out, or its run is cancelled.
InferFails(r) ==
  /\ handler[r] = "inferring"
  /\ \E state \in {"failed", "cancelled"} :
       /\ Record(state)
       /\ Reply(r, IF task = "cancelled" THEN "cancelled" ELSE state)
  /\ UNCHANGED <<consumer, earlyCancel, cancelling, earned, inferences, restarts>>

\* The answer is priced and sealed.
Price(r) ==
  /\ handler[r] = "inferred" /\ task # "cancelled"
  /\ HandlerTo(r, "sealed")
  /\ UNCHANGED <<consumer, task, response, earlyCancel, cancelling, earned, inferences, restarts>>

\* The record moves if it still can; the answer is returned in any case.
Finish(r) ==
  /\ handler[r] = "sealed"
  /\ Record("succeeded")
  /\ Reply(r, "succeeded")
  /\ UNCHANGED <<consumer, earlyCancel, cancelling, earned, inferences, restarts>>

Handle(r) ==
  \/ Reject(r) \/ ClaimTask(r) \/ Duplicate(r) \/ AnswerDuplicate(r) \/ TakeCancel(r)
  \/ NoSlot(r) \/ TakeSlot(r) \/ StopIfCancelled(r) \/ Infer(r) \/ InferEnds(r)
  \/ InferFails(r) \/ Price(r) \/ Finish(r)

----------------------------------------------------------------------------
\* recheck_permissions: the consumer's permission was withdrawn while it is served.
Revoke ==
  /\ \E r \in Route : handler[r] \in {"starting", "inferring", "inferred", "sealed"}
  /\ task' = Moved(task, "cancelled")
  /\ UNCHANGED <<consumer, network, response, handler, earlyCancel, cancelling, earned,
                 inferences, restarts>>

\* cancel_signed with a record; the message may arrive again.
CancelArrives ==
  /\ cancelSent /\ Open(task)
  /\ task' = "cancelled"
  /\ UNCHANGED <<consumer, network, response, handler, earlyCancel, cancelling, earned,
                 inferences, restarts>>

\* cancel_signed before the request: the record is looked up, then the
\* cancellation is stored.
CancelFindsNothing ==
  /\ cancelSent /\ task = "none" /\ ~cancelling
  /\ cancelling' = TRUE
  /\ UNCHANGED <<consumer, network, task, response, handler, earlyCancel, earned,
                 inferences, restarts>>

CancelStored ==
  /\ cancelling
  /\ cancelling' = FALSE /\ earlyCancel' = TRUE
  /\ UNCHANGED <<consumer, network, task, response, handler, earned, inferences, restarts>>

\* settle_earning: the earning is recorded once and the response purged.
SettlementArrives ==
  /\ settlementSent /\ task = "succeeded"
  /\ earned' = TRUE /\ response' = "none"
  /\ UNCHANGED <<consumer, network, task, handler, earlyCancel, cancelling, inferences, restarts>>

\* The provider's process ends and starts again: threads, stored responses and
\* early cancellations are lost, open records fail.  A request that was being
\* served may be delivered again.
ProviderRestarts ==
  /\ restarts < MaxRestarts /\ restarts' = restarts + 1
  /\ handler' = [r \in Route |-> IF handler[r] = "done" THEN "done" ELSE "idle"]
  /\ task' = IF Open(task) THEN "failed" ELSE task
  /\ response' = "none" /\ earlyCancel' = FALSE /\ cancelling' = FALSE
  /\ UNCHANGED <<consumer, network, earned, inferences>>

Provide ==
  \/ \E r \in Route : Handle(r)
  \/ Revoke \/ CancelArrives \/ CancelFindsNothing \/ CancelStored
  \/ SettlementArrives \/ ProviderRestarts

Next == Work \/ Cancel \/ Crash \/ Recover \/ Provide

Spec == Init /\ [][Next]_vars

\* Threads run on, requests that wait for a reply time out (RouteFails), and a
\* node that was stopped is started again.  Nothing is assumed of the provider
\* or of the owner.
Fairness ==
  /\ WF_vars(~At("idle") /\ Work)
  /\ WF_vars(canceller # "idle" /\ Cancel)
  /\ WF_vars(Recover)

FairSpec == Spec /\ Fairness

----------------------------------------------------------------------------
States == {"none", "created", "accepted", "running"} \cup Terminal

\* Type invariant.
TypeOK ==
  /\ order \in States /\ task \in States /\ hold \in {"none", "held", "settled", "released"}
  /\ route \in Route /\ requests \subseteq Route
  /\ \A x \in {answer, response} \cup {replies[r] : r \in Route} : x \in Terminal \cup {"none"}

\* The consumer is charged only for an answer that the provider's model produced,
\* never for a refusal, a failure or a late duplicate.
ChargedForWork == hold = "settled" => inferences > 0 /\ \E r \in Route : replies[r] = "succeeded"

\* The provider earns only what the consumer was charged: "settles its hold
\* exactly once, then sends an idempotent body-free settlement acknowledgement"
\* (docs/LOCAL_LLM_SERVICE_MVP.md).
EarnedIsPaid == earned => hold = "settled"

\* The model is run at most once for the order, on whichever routes the request
\* arrives and whenever the provider restarts: "Duplicate requests and callbacks
\* return the stored ciphertext/record without re-running inference".
InferenceOnce == inferences <= 1

\* Credits are on hold only while a thread or the recovery will still decide about
\* them: no cancellation, failure or crash strands a hold ("Startup reconciliation
\* releases stranded Consumer holds").
HeldIsOwned == hold = "held" => ~up \/ worker \notin {"idle", "done"}

\* What the record says fits the charge: a success was paid, a failure was not,
\* and a cancelled order was paid only if its answer had arrived.
OutcomeMatchesCharge ==
  /\ order = "succeeded" => hold = "settled"
  /\ order = "failed" => hold # "settled"
  /\ order = "cancelled" /\ hold = "settled" => pending

(* The consumer pays for an answer of the model, the provider earns what was     *)
(* paid, the record says what happened, and no hold is stranded                  *)
(* (execute_order, local_llm_cancel, _recover_consumer_orders).                  *)
PaidForWork == ChargedForWork /\ EarnedIsPaid /\ OutcomeMatchesCharge /\ HeldIsOwned

\* A pending settlement has lost its hold: the start raises.
StartFails == ~up /\ Open(order) /\ pending /\ hold = "released"

\* A restarted node gets through the recovery of its orders, at whatever point it
\* was stopped: "Settlement checkpoints are crash-safe and idempotent"
\* (docs/LOCAL_LLM_DEVELOPMENT_STATUS.md).
RecoveryCompletes == ~StartFails

\* Every claimed order ends, whatever the provider, the routes and the owner do,
\* unless the start fails or the balance refused the hold, in which case the
\* record stays as created.
Ended ==
  \/ order \in Terminal
  \/ StartFails
  \/ worker = "done" /\ hold = "none"
EveryOrderEnds == order = "created" ~> Ended
=============================================================================
