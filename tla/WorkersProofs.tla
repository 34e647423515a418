------------------------------- MODULE WorkersProofs -------------------------------
(* What the loops a node runs beside its requests never do, for every value of    *)
(* the constants.                                                                *)
(*                                                                               *)
(* A paid LLM order, for any number of routes, crashes and restarts (routes.py,  *)
(* task_protocol.py): the model runs at most once, the consumer pays for an      *)
(* answer and nothing else, the provider earns what was paid, the record says    *)
(* what happened, and no hold is stranded.  The two nodes share only what was    *)
(* sent, so the invariant has two halves.  The provider's: at most one thread    *)
(* serves the task, and how often the model ran is told by its place.  The       *)
(* consumer's: where the worker is, or the process is down, decides what the     *)
(* hold may be.                                                                  *)
(*                                                                               *)
(* The runs of Ask Ryn, for any tasks and conversations (ask_runs): what the one *)
(* worker remembers of the run it is at ties its record to the order.            *)
EXTENDS MCWorkers, TLAPS

----------------------------------------------------------------------------
(* The provider.                                                           *)

\* The places of a thread that has claimed the task, before and after the model ran.
Before == {"claimed", "starting"}
After  == {"inferring", "inferred", "sealed"}
Places == {"idle", "done", "duplicate"} \cup Before \cup After
Outcomes == Terminal \cup {"none"}

ProviderTypes ==
  /\ task \in States /\ response \in Outcomes
  /\ handler \in [Route -> Places] /\ replies \in [Route -> Outcomes]
  /\ inferences \in {0, 1}

\* One thread at a time has claimed the task, and none before the record exists.
OneServes ==
  /\ \A r, s \in Route : handler[r] \in Before \cup After /\ handler[s] \in Before \cup After => r = s
  /\ task = "none" => \A r \in Route : handler[r] \notin Before \cup After

\* The model has not run before that thread starts it, and has run after.
RunsAreCounted ==
  /\ task = "none" => inferences = 0
  /\ \A r \in Route : handler[r] \in Before => inferences = 0
  /\ \A r \in Route : handler[r] \in After => inferences = 1
  /\ response = "succeeded" => inferences = 1
  /\ \A r \in Route : replies[r] = "succeeded" => inferences = 1

\* A route is answered once, by a thread that has ended.
RepliesAreFinal == \A r \in Route : replies[r] # "none" => handler[r] = "done"

ProviderInv == ProviderTypes /\ OneServes /\ RunsAreCounted /\ RepliesAreFinal

\* The provider has answered with a success on some route.
AnswerSent == \E r \in Route : replies[r] = "succeeded"

----------------------------------------------------------------------------
(* The consumer.                                                           *)

\* Where the worker is before it has made the hold, while it waits for an answer,
\* after it paid, and after it gave up.
Early  == {"queued", "claimed", "holding"}
Asking == {"held", "accepted", "routing", "waiting", "answered"}
Paid   == {"settled", "dispatching", "dispatched"}
GivenUp == {"refused", "failing", "failed"}
Steps  == {"idle", "done", "settling"} \cup Early \cup Asking \cup Paid \cup GivenUp

ConsumerTypes ==
  /\ order \in States /\ hold \in {"none", "held", "settled", "released"}
  /\ worker \in Steps /\ route \in Route /\ answer \in Outcomes
  /\ requests \subseteq Route
  /\ canceller \in {"idle", "unstarted", "release", "mark", "send"}

\* Without a record there is nothing to decide, and a claimed task is recorded.
RecordFirst ==
  /\ order = "none" => hold = "none" /\ worker \in {"idle", "done", "queued"}
                       /\ canceller \in {"idle", "unstarted"}
  /\ worker = "queued" => order = "none"
  /\ worker \in Early => hold = "none"

\* A settlement is prepared, made and announced in this order, for an answer that came.
PaidInOrder ==
  /\ answer = "succeeded" => AnswerSent
  /\ pending => AnswerSent
  /\ worker \in {"settling"} \cup Paid => pending
  /\ hold = "settled" => pending
  /\ worker \in Paid => hold = "settled"
  /\ settlementSent => hold = "settled"
  /\ earned => hold = "settled"

\* Who gave up has not paid, and has let the hold go when that is over.
GivenUpUnpaid ==
  /\ hold = "settled" => worker \in {"idle", "done"} \cup Paid
  /\ worker \in {"refused", "failed"} => hold # "held"
  /\ worker = "refused" => answer # "succeeded"
  /\ worker \in {"answered", "refused"} => answer # "none"

\* A process that is down has no threads.
DownIsStill == ~up => worker = "idle" /\ canceller = "idle"

\* A record says failed only when its worker has ended.
FailedIsOver == order = "failed" => worker \in {"idle", "done"}

ConsumerInv ==
  /\ ConsumerTypes /\ RecordFirst /\ PaidInOrder /\ GivenUpUnpaid /\ DownIsStill
  /\ FailedIsOver /\ HeldIsOwned /\ OutcomeMatchesCharge

OrderInv == ProviderInv /\ ConsumerInv

----------------------------------------------------------------------------
(* A route takes its reply once, so an answer that was sent stays sent.      *)
LEMMA RepliesStay ==
  ASSUME ProviderInv, NEW r \in Route, NEW state \in Terminal, handler[r] # "done", Reply(r, state)
  PROVE  /\ handler' = [handler EXCEPT ![r] = "done"]
         /\ replies' = [replies EXCEPT ![r] = state]
         /\ handler' \in [Route -> Places] /\ replies' \in [Route -> Outcomes]
         /\ RepliesAreFinal'
         /\ AnswerSent => AnswerSent'
<1> USE DEF ProviderInv, ProviderTypes, Reply
<1>1. handler' \in [Route -> Places] /\ replies' \in [Route -> Outcomes]
  BY DEF Places, Outcomes
<1>2. RepliesAreFinal'
  BY DEF RepliesAreFinal
<1>3. AnswerSent => AnswerSent'
  BY DEF RepliesAreFinal, AnswerSent
<1> QED BY <1>1, <1>2, <1>3

(* A thread that moves on without a reply leaves the replies alone.          *)
LEMMA ThreadMoves ==
  ASSUME ProviderInv, NEW r \in Route, NEW place \in Places, handler[r] # "done", HandlerTo(r, place)
  PROVE  /\ handler' = [handler EXCEPT ![r] = place]
         /\ replies' = replies
         /\ handler' \in [Route -> Places] /\ replies' \in [Route -> Outcomes]
         /\ RepliesAreFinal'
         /\ AnswerSent => AnswerSent'
<1> USE DEF ProviderInv, ProviderTypes, HandlerTo, network
<1>1. handler' \in [Route -> Places] /\ replies' = replies
  OBVIOUS
<1>2. RepliesAreFinal'
  BY DEF RepliesAreFinal
<1> QED BY <1>1, <1>2 DEF AnswerSent

----------------------------------------------------------------------------
(* The provider's steps keep its half.                                     *)

(* What a step of a thread may do to the record and to what was answered: it  *)
(* keeps the provider's half and never takes an answer back.                  *)
Served == ProviderInv' /\ (AnswerSent => AnswerSent')

(* handle() before the task is claimed, and the repetition of its answer.     *)
LEMMA RefusalsKeep ==
  ASSUME ProviderInv, NEW r \in Route, Reject(r) \/ Duplicate(r) \/ AnswerDuplicate(r)
  PROVE  Served
<1> USE DEF ProviderInv
<1>1. UNCHANGED <<task, response, inferences>> /\ handler[r] \in {"idle", "duplicate"}
  BY DEF Reject, Duplicate, AnswerDuplicate, Arrives
<1>2. CASE \E place \in {"done", "duplicate"} :
             HandlerTo(r, place) /\ (place = "duplicate" => task # "none")
  <2>1. PICK place \in {"done", "duplicate"} :
             HandlerTo(r, place) /\ (place = "duplicate" => task # "none")
    BY <1>2
  <2>2. place \in Places /\ handler[r] # "done"
    BY <1>1 DEF Places
  <2>3. /\ handler' = [handler EXCEPT ![r] = place] /\ replies' = replies
        /\ handler' \in [Route -> Places] /\ RepliesAreFinal' /\ (AnswerSent => AnswerSent')
    BY <2>1, <2>2, ThreadMoves
  <2>4. handler \in [Route -> Places] /\ ProviderTypes'
    BY <1>1, <2>3 DEF ProviderTypes
  <2>5. OneServes' /\ RunsAreCounted'
    BY <1>1, <2>3, <2>4 DEF OneServes, RunsAreCounted, Before, After
  <2> QED BY <2>3, <2>4, <2>5 DEF Served
<1>3. CASE \E state \in Terminal : Reply(r, state) /\ (state = "succeeded" => response = "succeeded")
  <2>1. PICK state \in Terminal : Reply(r, state) /\ (state = "succeeded" => response = "succeeded")
    BY <1>3
  <2>2. handler[r] # "done"
    BY <1>1
  <2>3. /\ handler' = [handler EXCEPT ![r] = "done"] /\ replies' = [replies EXCEPT ![r] = state]
        /\ handler' \in [Route -> Places] /\ replies' \in [Route -> Outcomes]
        /\ RepliesAreFinal' /\ (AnswerSent => AnswerSent')
    BY <2>1, <2>2, RepliesStay
  <2>4. handler \in [Route -> Places] /\ replies \in [Route -> Outcomes] /\ ProviderTypes'
    BY <1>1, <2>3 DEF ProviderTypes
  <2>5. OneServes' /\ RunsAreCounted'
    BY <1>1, <2>1, <2>3, <2>4 DEF OneServes, RunsAreCounted, Before, After
  <2> QED BY <2>3, <2>4, <2>5 DEF Served
<1>4. (\E place \in {"done", "duplicate"} : HandlerTo(r, place) /\ (place = "duplicate" => task # "none"))
      \/ (\E state \in Terminal : Reply(r, state) /\ (state = "succeeded" => response = "succeeded"))
  <2>1. response \in Terminal \cup {"none"}
    BY DEF ProviderTypes, Outcomes
  <2>2. CASE Reject(r)
    BY <2>2 DEF Reject, Terminal
  <2>3. CASE Duplicate(r)
    BY <2>3 DEF Duplicate
  <2>4. CASE AnswerDuplicate(r)
    <3>1. CASE HandlerTo(r, "done")
      BY <3>1
    <3>2. CASE Reply(r, IF response = "none" THEN "failed" ELSE response)
      BY <2>1, <3>2 DEF Terminal
    <3> QED BY <2>4, <3>1, <3>2 DEF AnswerDuplicate
  <2> QED BY <2>2, <2>3, <2>4
<1> QED BY <1>2, <1>3, <1>4

(* The thread that has claimed the task is the only one, so that its move is   *)
(* all that happens to the count of runs (_claim_admitted_task, handle).       *)
LEMMA ClaimKeeps == ASSUME ProviderInv, NEW r \in Route, ClaimTask(r) PROVE Served
<1> USE DEF ProviderInv
<1>1. /\ handler[r] = "idle" /\ HandlerTo(r, "claimed") /\ task = "none" /\ task' = "created"
      /\ UNCHANGED <<response, inferences>> /\ "claimed" \in Places
  BY DEF ClaimTask, Arrives, NewTask, Places, Before
<1>2. /\ handler' = [handler EXCEPT ![r] = "claimed"] /\ replies' = replies
      /\ handler' \in [Route -> Places] /\ RepliesAreFinal' /\ (AnswerSent => AnswerSent')
  BY <1>1, ThreadMoves
<1>3. handler \in [Route -> Places] /\ ProviderTypes'
  BY <1>1, <1>2 DEF ProviderTypes, States
<1>4. OneServes' /\ RunsAreCounted'
  BY <1>1, <1>2, <1>3 DEF OneServes, RunsAreCounted, Before, After
<1> QED BY <1>2, <1>3, <1>4 DEF Served

(* A thread that has claimed the task goes on: to the model, with the model,   *)
(* and to the sealed answer.                                                   *)
LEMMA ServingKeeps ==
  ASSUME ProviderInv, NEW r \in Route, TakeSlot(r) \/ Infer(r) \/ InferEnds(r) \/ Price(r)
  PROVE  Served
<1> USE DEF ProviderInv
<1>1. PICK place \in {"starting"} \cup After :
         /\ HandlerTo(r, place) /\ handler[r] \in Before \cup After
         /\ place = "starting" => handler[r] \in Before /\ inferences' = inferences
         /\ place \in After => inferences' = 1
  BY DEF TakeSlot, Infer, InferEnds, Price, Before, After, RunsAreCounted
<1>2. /\ response' = response /\ task # "none" /\ task' # "none" /\ task' \in States
      /\ inferences' \in {0, 1} /\ (inferences = 1 => inferences' = 1)
  BY <1>1 DEF TakeSlot, Infer, InferEnds, Price, Moved, ProviderTypes, States, Terminal, OneServes,
              Before, After, RunsAreCounted
<1>3. place \in Places /\ handler[r] # "done"
  BY <1>1 DEF Places, Before, After
<1>4. /\ handler' = [handler EXCEPT ![r] = place] /\ replies' = replies
      /\ handler' \in [Route -> Places] /\ RepliesAreFinal' /\ (AnswerSent => AnswerSent')
  BY <1>1, <1>3, ThreadMoves
<1>5. handler \in [Route -> Places] /\ ProviderTypes'
  BY <1>2, <1>4 DEF ProviderTypes
<1>6. OneServes'
  BY <1>1, <1>2, <1>4, <1>5 DEF OneServes
<1>7. RunsAreCounted'
  BY <1>1, <1>2, <1>4, <1>5 DEF RunsAreCounted, OneServes, Before, After
<1> QED BY <1>4, <1>5, <1>6, <1>7 DEF Served

(* The thread ends with a reply; a success only after the model ran.           *)
LEMMA EndingKeeps ==
  ASSUME ProviderInv, NEW r \in Route,
         TakeCancel(r) \/ NoSlot(r) \/ StopIfCancelled(r) \/ InferFails(r) \/ Finish(r)
  PROVE  Served
<1> USE DEF ProviderInv
<1>1. PICK state \in Terminal :
         /\ Reply(r, state) /\ handler[r] \in Before \cup After
         /\ state = "succeeded" => handler[r] = "sealed"
         /\ response' # response => response' = state \/ response' # "succeeded"
  BY DEF TakeCancel, NoSlot, StopIfCancelled, InferFails, Finish, Record, Terminal, Before, After
<1>2. /\ task # "none" /\ task' # "none" /\ task' \in States /\ response' \in Outcomes
      /\ inferences' = inferences
      /\ (state = "succeeded" => inferences = 1)
  BY <1>1 DEF TakeCancel, NoSlot, StopIfCancelled, InferFails, Finish, Record, Moved, ProviderTypes,
              States, Outcomes, Terminal, OneServes, After, RunsAreCounted
<1>3. handler[r] # "done"
  BY <1>1 DEF Before, After
<1>4. /\ handler' = [handler EXCEPT ![r] = "done"] /\ replies' = [replies EXCEPT ![r] = state]
      /\ handler' \in [Route -> Places] /\ replies' \in [Route -> Outcomes]
      /\ RepliesAreFinal' /\ (AnswerSent => AnswerSent')
  BY <1>1, <1>3, RepliesStay
<1>5. handler \in [Route -> Places] /\ replies \in [Route -> Outcomes] /\ ProviderTypes'
  BY <1>2, <1>4 DEF ProviderTypes
<1>6. OneServes'
  BY <1>2, <1>4, <1>5 DEF OneServes, Before, After
<1>7. RunsAreCounted'
  BY <1>1, <1>2, <1>4, <1>5 DEF RunsAreCounted, Before, After
<1> QED BY <1>4, <1>5, <1>6, <1>7 DEF Served

(* Cancellations, the settlement and a restart of the provider.                *)
LEMMA RecordStepsKeep ==
  ASSUME ProviderInv,
         Revoke \/ CancelArrives \/ CancelFindsNothing \/ CancelStored \/ SettlementArrives
         \/ ProviderRestarts
  PROVE  Served
<1> USE DEF ProviderInv
<1>1. /\ replies' = replies /\ inferences' = inferences
      /\ response' \in {response, "none"} /\ task' \in States /\ (task' = "none" => task = "none")
  BY DEF Revoke, CancelArrives, CancelFindsNothing, CancelStored, SettlementArrives, ProviderRestarts,
         network, Moved, Open, States, Terminal, ProviderTypes, OneServes, Before, After
<1>2. CASE handler' = handler
  BY <1>1, <1>2 DEF Served, AnswerSent, ProviderTypes, OneServes, RunsAreCounted, RepliesAreFinal, Outcomes
<1>3. CASE ProviderRestarts
  <2>1. handler' = [r \in Route |-> IF handler[r] = "done" THEN "done" ELSE "idle"]
    BY <1>3 DEF ProviderRestarts
  <2>2. ProviderTypes'
    BY <1>1, <2>1 DEF ProviderTypes, Places, Outcomes
  <2>3. OneServes' /\ RunsAreCounted' /\ RepliesAreFinal'
    BY <1>1, <2>1 DEF OneServes, RunsAreCounted, RepliesAreFinal, Before, After
  <2> QED BY <1>1, <2>2, <2>3 DEF Served, AnswerSent
<1> QED BY <1>2, <1>3 DEF Revoke, CancelArrives, CancelFindsNothing, CancelStored, SettlementArrives

LEMMA ProvideKeeps == ASSUME ProviderInv, Provide PROVE Served
<1>1. CASE \E r \in Route : Handle(r)
  <2> PICK r \in Route : Handle(r)
    BY <1>1
  <2> QED BY RefusalsKeep, ClaimKeeps, ServingKeeps, EndingKeeps DEF Handle
<1>2. CASE Revoke \/ CancelArrives \/ CancelFindsNothing \/ CancelStored \/ SettlementArrives
           \/ ProviderRestarts
  BY <1>2, RecordStepsKeep
<1> QED BY <1>1, <1>2 DEF Provide

----------------------------------------------------------------------------
(* The consumer's steps keep its half.                                     *)

(* The steps of the worker (execute_order), one after another: what the hold  *)
(* may be is told by the place the worker leaves and the one it comes to.     *)
LEMMA WorkKeeps == ASSUME ProviderTypes, ConsumerInv, Work PROVE ConsumerInv'
<1> USE DEF ConsumerInv, ConsumerTypes, RecordFirst, PaidInOrder, GivenUpUnpaid, DownIsStill,
         FailedIsOver, HeldIsOwned, OutcomeMatchesCharge,
            States, Terminal, Steps, Early, Asking, Paid, GivenUp, At, Goto, record, thread, provider, network
<1>1. (AnswerSent' <=> AnswerSent) /\ earned' = earned /\ Route \subseteq Nat /\ replies \in [Route -> Outcomes]
  BY RoutesAssumption DEF Work, Submit, Refuse, Claim, CheckEarly, Hold, Accept, Run, Send, RouteFails, TakeReply,
         ReleaseRefused, MarkRefused, Checkpoint, Settle, MarkSucceeded, Dispatch, MarkDispatched,
         FailRelease, FailMark, AnswerSent, Route, ProviderTypes
<1>2. CASE Submit
  BY <1>2, <1>1 DEF Submit
<1>3. CASE Refuse
  BY <1>3, <1>1 DEF Refuse
<1>4. CASE Claim
  BY <1>4, <1>1 DEF Claim
<1>5. CASE CheckEarly
  BY <1>5, <1>1 DEF CheckEarly, Moved
<1>6. CASE Hold
  BY <1>6, <1>1 DEF Hold
<1>7. CASE Accept
  BY <1>7, <1>1 DEF Accept, Moved
<1>8. CASE Run
  BY <1>8, <1>1 DEF Run, Moved
<1>9. CASE Send
  <2>1. /\ worker = "routing" /\ worker' \in {"failing", "waiting"} /\ up' = up
        /\ UNCHANGED <<order, pending, hold, route, answer, canceller, settlementSent>>
    BY <1>9 DEF Send
  <2>2. requests' \subseteq Route
    BY <1>9 DEF Send
  <2> QED BY <1>1, <2>1, <2>2
<1>10. CASE RouteFails
  BY <1>10, <1>1, RoutesAssumption DEF RouteFails, RoutesLeft, Route
<1>11. CASE TakeReply
  BY <1>11, <1>1 DEF TakeReply, Outcomes, AnswerSent
<1>12. CASE ReleaseRefused
  BY <1>12, <1>1 DEF ReleaseRefused, Released, Succeeded
<1>13. CASE MarkRefused
  BY <1>13, <1>1 DEF MarkRefused, Moved, Outcomes
<1>14. CASE Checkpoint
  BY <1>14, <1>1 DEF Checkpoint, AfterCheckpoint, Succeeded
<1>15. CASE Settle
  BY <1>15, <1>1 DEF Settle
<1>16. CASE MarkSucceeded
  BY <1>16, <1>1 DEF MarkSucceeded, Recovered
<1>17. CASE Dispatch
  BY <1>17, <1>1 DEF Dispatch
<1>18. CASE MarkDispatched
  BY <1>18, <1>1 DEF MarkDispatched
<1>19. CASE FailRelease
  BY <1>19, <1>1 DEF FailRelease, Released
<1>20. CASE FailMark
  BY <1>20, <1>1 DEF FailMark, Moved
<1> QED BY <1>2, <1>3, <1>4, <1>5, <1>6, <1>7, <1>8, <1>9, <1>10, <1>11, <1>12, <1>13, <1>14, <1>15, <1>16, <1>17, <1>18, <1>19, <1>20 DEF Work

(* A cancel request (local_llm_cancel) releases what is still held and moves   *)
(* only a record that is there.                                                *)
LEMMA CancelKeeps == ASSUME ProviderTypes, ConsumerInv, Cancel PROVE ConsumerInv'
<1> USE DEF ConsumerInv, ConsumerTypes, RecordFirst, PaidInOrder, GivenUpUnpaid, DownIsStill,
            FailedIsOver, HeldIsOwned, OutcomeMatchesCharge,
            States, Terminal, Steps, Early, Asking, Paid, GivenUp, record, thread, provider, network
<1>1. (AnswerSent' <=> AnswerSent) /\ earned' = earned
  BY DEF Cancel, CancelRead, CancelUnstarted, CancelRelease, CancelMark, CancelSend, AnswerSent
<1>2. CASE CancelRead
  BY <1>1, <1>2 DEF CancelRead, Open
<1>3. CASE CancelUnstarted
  BY <1>1, <1>3 DEF CancelUnstarted
<1>4. CASE CancelRelease
  BY <1>1, <1>4 DEF CancelRelease, Released
<1>5. CASE CancelMark
  BY <1>1, <1>5 DEF CancelMark, Moved
<1>6. CASE CancelSend
  BY <1>1, <1>6 DEF CancelSend
<1> QED BY <1>2, <1>3, <1>4, <1>5, <1>6 DEF Cancel

(* A crash leaves what is on disk; the recovery (_recover_consumer_orders)     *)
(* settles what was prepared, ends what was open and releases what is left     *)
(* before the routes are installed.                                            *)
LEMMA RecoveryKeeps == ASSUME ProviderTypes, ConsumerInv, Crash \/ Recover PROVE ConsumerInv'
<1> USE DEF ConsumerInv, ConsumerTypes, RecordFirst, PaidInOrder, GivenUpUnpaid, DownIsStill,
            FailedIsOver, HeldIsOwned, OutcomeMatchesCharge,
            States, Terminal, Steps, Early, Asking, Paid, GivenUp, record, thread, provider, network
<1>1. (AnswerSent' <=> AnswerSent) /\ earned' = earned /\ 1 \in Route
  BY RoutesAssumption DEF Crash, Recover, RecoverSettle, RecoverSucceed, RecoverDispatch, RecoverFail, RecoverRelease,
         Start, AnswerSent, Route
<1>2. CASE Crash
  BY <1>1, <1>2 DEF Crash, Outcomes
<1>3. CASE RecoverSettle
  BY <1>1, <1>3 DEF RecoverSettle, Open
<1>4. CASE RecoverSucceed
  BY <1>1, <1>4 DEF RecoverSucceed, Open
<1>5. CASE RecoverDispatch
  BY <1>1, <1>5 DEF RecoverDispatch
<1>6. CASE RecoverFail
  BY <1>1, <1>6 DEF RecoverFail, Open
<1>7. CASE RecoverRelease
  BY <1>1, <1>7 DEF RecoverRelease, MustRelease
<1>8. CASE Start
  BY <1>1, <1>8 DEF Start, Open, MustRelease
<1> QED BY <1>2, <1>3, <1>4, <1>5, <1>6, <1>7, <1>8 DEF Recover

(* What the provider does leaves the consumer as it is; it earns only by a     *)
(* settlement that was sent (settle_earning).                                  *)
LEMMA ProviderLeavesConsumer ==
  ASSUME ConsumerInv, Provide, AnswerSent => AnswerSent' PROVE ConsumerInv'
<1>1. UNCHANGED <<consumer, requests, cancelSent, settlementSent>>
  <2>1. ASSUME NEW r \in Route, Handle(r) PROVE UNCHANGED <<consumer, requests, cancelSent, settlementSent>>
    BY <2>1 DEF Handle, Reject, ClaimTask, Duplicate, AnswerDuplicate, TakeCancel, NoSlot, TakeSlot,
           StopIfCancelled, Infer, InferEnds, InferFails, Price, Finish, Reply, HandlerTo, network
  <2> QED BY <2>1 DEF Provide, Revoke, CancelArrives, CancelFindsNothing, CancelStored, SettlementArrives,
                      ProviderRestarts, network
<1>2. earned' => earned \/ settlementSent
  <2>1. ASSUME NEW r \in Route, Handle(r) PROVE earned' = earned
    BY <2>1 DEF Handle, Reject, ClaimTask, Duplicate, AnswerDuplicate, TakeCancel, NoSlot, TakeSlot,
           StopIfCancelled, Infer, InferEnds, InferFails, Price, Finish
  <2> QED BY <2>1 DEF Provide, Revoke, CancelArrives, CancelFindsNothing, CancelStored, SettlementArrives,
                      ProviderRestarts
<1> QED BY <1>1, <1>2 DEF ConsumerInv, ConsumerTypes, RecordFirst, PaidInOrder, GivenUpUnpaid,
           DownIsStill, FailedIsOver, HeldIsOwned, OutcomeMatchesCharge, consumer, record, thread

(* What the consumer does leaves the provider as it is.                        *)
LEMMA ConsumerLeavesProvider ==
  ASSUME ProviderInv, Work \/ Cancel \/ Crash \/ Recover PROVE ProviderInv'
<1>1. UNCHANGED <<provider, replies>>
  BY DEF Work, Submit, Refuse, Claim, CheckEarly, Hold, Accept, Run, Send, RouteFails, TakeReply,
         ReleaseRefused, MarkRefused, Checkpoint, Settle, MarkSucceeded, Dispatch, MarkDispatched,
         FailRelease, FailMark, Cancel, CancelRead, CancelUnstarted, CancelRelease, CancelMark, CancelSend,
         Crash, Recover, RecoverSettle, RecoverSucceed, RecoverDispatch, RecoverFail, RecoverRelease,
         Start, network
<1> QED BY <1>1 DEF provider, ProviderInv, ProviderTypes, OneServes, RunsAreCounted, RepliesAreFinal

----------------------------------------------------------------------------
(* The order.                                                              *)

LEMMA OrderStarts == ASSUME Init PROVE OrderInv
<1>1. 1 \in Route
  BY RoutesAssumption DEF Route
<1>2. ProviderInv
  BY DEF Init, ProviderInv, ProviderTypes, OneServes, RunsAreCounted, RepliesAreFinal, States, Terminal,
         Outcomes, Places, Before, After
<1>3. ConsumerInv
  BY <1>1 DEF Init, ConsumerInv, ConsumerTypes, RecordFirst, PaidInOrder, GivenUpUnpaid, DownIsStill,
              FailedIsOver, HeldIsOwned, OutcomeMatchesCharge, States, Terminal, Steps, Early, Asking, Paid,
              GivenUp, Outcomes
<1> QED BY <1>2, <1>3 DEF OrderInv

LEMMA OrderSteps == ASSUME OrderInv, [Next]_vars PROVE OrderInv'
<1> USE DEF OrderInv
<1>1. ProviderTypes
  BY DEF ProviderInv
<1>2. CASE Work \/ Cancel \/ Crash \/ Recover
  BY <1>1, <1>2, WorkKeeps, CancelKeeps, RecoveryKeeps, ConsumerLeavesProvider
<1>3. CASE Provide
  BY <1>3, ProvideKeeps, ProviderLeavesConsumer DEF Served
<1>4. CASE UNCHANGED vars
  BY <1>4 DEF vars, consumer, record, thread, provider, network, ProviderInv, ProviderTypes, OneServes,
              RunsAreCounted, RepliesAreFinal, ConsumerInv, ConsumerTypes, RecordFirst, PaidInOrder,
              GivenUpUnpaid, DownIsStill, FailedIsOver, HeldIsOwned, OutcomeMatchesCharge, AnswerSent
<1> QED BY <1>2, <1>3, <1>4 DEF Next

LEMMA OrderIsInvariant == Spec => []OrderInv
<1>1. Init => OrderInv
  BY OrderStarts
<1>2. OrderInv /\ [Next]_vars => OrderInv'
  BY OrderSteps
<1> QED BY <1>1, <1>2, PTL DEF Spec

(* The model is run at most once for an order, on however many routes its      *)
(* request arrives and however often the provider restarts                     *)
(* (ProviderService.handle, _claim_admitted_task).                             *)
THEOREM ModelRunsOnce == Spec => []InferenceOnce
<1>1. OrderInv => InferenceOnce
  BY DEF OrderInv, ProviderInv, ProviderTypes, InferenceOnce
<1> QED BY <1>1, OrderIsInvariant, PTL

(* The consumer is charged only for an answer the provider's model produced,   *)
(* the provider earns only what the consumer was charged, the record says what *)
(* happened to the hold, and a hold is never left without a thread or a        *)
(* recovery that will decide about it, with any number of routes, crashes,     *)
(* cancellations and repeated messages (execute_order, local_llm_cancel,       *)
(* settle_earning, _recover_consumer_orders).                                  *)
THEOREM PaymentForWork == Spec => []PaidForWork
<1>1. OrderInv => ChargedForWork /\ EarnedIsPaid
  BY DEF OrderInv, ProviderInv, RunsAreCounted, ConsumerInv, PaidInOrder, AnswerSent, ChargedForWork,
         EarnedIsPaid
<1>2. OrderInv => OutcomeMatchesCharge /\ HeldIsOwned
  BY DEF OrderInv, ConsumerInv
<1>3. OrderInv => PaidForWork
  BY <1>1, <1>2 DEF PaidForWork
<1> QED BY <1>3, OrderIsInvariant, PTL

----------------------------------------------------------------------------
(* The runs of Ask Ryn.                                                    *)

RunStates == Ask!Terminal \cup {"none", "queued", "dispatching", "running"}
Runs == [state : RunStates, conv : Convs \cup {"none"}, cancel : BOOLEAN, delivered : BOOLEAN]
Iterations == [stage : {"submit", "cancel", "check", "acknowledge"}, task : Tasks,
               dispatch : BOOLEAN, cancel : BOOLEAN, delivered : BOOLEAN]

AskTypes ==
  /\ runs \in [Tasks -> Runs]
  /\ orders \in [Tasks -> Ask!Terminal \cup {"none", "active"}]
  /\ askWorker = Free \/ askWorker \in Iterations
  /\ submits \in [Tasks -> 0..1]
  /\ acked \subseteq Tasks

\* A run that was not claimed was not submitted, and what was not submitted is no order.
ClaimedFirst ==
  \A t \in Tasks :
    /\ runs[t].state \in {"none", "queued"} => submits[t] = 0
    /\ submits[t] = 0 => orders[t] = "none"

\* The worker's iteration is of a claimed run; one that is about to submit is the first to.
IterationIsOfClaimed ==
  askWorker # Free =>
    /\ runs[askWorker.task].state \notin {"none", "queued"}
    /\ askWorker.stage = "submit" /\ askWorker.dispatch => submits[askWorker.task] = 0
    /\ askWorker.stage = "acknowledge" => runs[askWorker.task].state \in Ask!Terminal

AskInv ==
  /\ AskTypes /\ ClaimedFirst /\ IterationIsOfClaimed
  /\ Ask!ReleasedIsArchived /\ Ask!DeletedStaysDeleted

LEMMA AskStarts == ASSUME Ask!Init PROVE AskInv
BY DEF Ask!Init, Ask!NoRun, AskInv, AskTypes, Runs, RunStates, ClaimedFirst, IterationIsOfClaimed,
       Ask!ReleasedIsArchived, Ask!DeletedStaysDeleted, Ask!Terminal

\* The owner's requests, and what another device deleted.
LEMMA RequestsKeepRuns ==
  ASSUME AskInv,
         \/ \E c \in Convs : Ask!Save(c) \/ Ask!Migrate(c) \/ Ask!Remove(c) \/ Ask!ReceiveDelete(c)
         \/ \E t \in Tasks : Ask!Cancel(t) \/ \E c \in Convs : Ask!Begin(t, c)
  PROVE  AskInv'
<1> USE DEF AskInv, AskTypes, Runs, RunStates, Iterations, ClaimedFirst, IterationIsOfClaimed,
       Ask!ReleasedIsArchived, Ask!DeletedStaysDeleted, Ask!Terminal
<1>1. ASSUME NEW c \in Convs, Ask!Save(c) \/ Ask!Migrate(c) \/ Ask!ReceiveDelete(c) PROVE AskInv'
  BY <1>1 DEF Ask!Save, Ask!Migrate, Ask!ReceiveDelete
<1>2. ASSUME NEW c \in Convs, Ask!Remove(c) PROVE AskInv'
  <2> DEFINE ended(r) == [r EXCEPT !.cancel = TRUE, !.state = IF @ = "queued" THEN "cancelled" ELSE @]
  <2>1. \A r \in Runs : /\ ended(r) \in Runs
                        /\ \/ ended(r).state = r.state
                           \/ r.state = "queued" /\ ended(r).state = "cancelled"
    OBVIOUS
  <2>2. runs' = [t \in Tasks |-> IF runs[t].conv = c /\ t \in Ask!ActiveRuns THEN ended(runs[t]) ELSE runs[t]]
    BY <1>2 DEF Ask!Remove
  <2> HIDE DEF ended
  <2>3. runs' \in [Tasks -> Runs]
    BY <2>1, <2>2 DEF Ask!ActiveRuns
  <2>4. \A t \in Tasks : \/ runs'[t].state = runs[t].state
                         \/ runs[t].state = "queued" /\ runs'[t].state = "cancelled"
    BY <2>1, <2>2 DEF Ask!ActiveRuns
  <2>5. UNCHANGED <<orders, askWorker, submits, acked>> /\ convs' = convs \ {c} /\ deleted' = deleted \cup {c}
    BY <1>2 DEF Ask!Remove
  <2> HIDE DEF Runs, RunStates
  <2> QED BY <2>3, <2>4, <2>5
<1>3. ASSUME NEW t \in Tasks, Ask!Cancel(t) PROVE AskInv'
  <2>1. [runs[t] EXCEPT !.cancel = TRUE] \in Runs /\ [runs[t] EXCEPT !.cancel = TRUE].state = runs[t].state
    <3>1. \A r \in Runs : [r EXCEPT !.cancel = TRUE] \in Runs /\ [r EXCEPT !.cancel = TRUE].state = r.state
      OBVIOUS
    <3>2. runs[t] \in Runs
      OBVIOUS
    <3> HIDE DEF Runs, RunStates
    <3> QED BY <3>1, <3>2
  <2>2. runs' = [runs EXCEPT ![t] = [runs[t] EXCEPT !.cancel = TRUE]]
    BY <1>3 DEF Ask!Cancel
  <2>3. runs' \in [Tasks -> Runs] /\ \A u \in Tasks : runs'[u].state = runs[u].state
    BY <2>1, <2>2
  <2> HIDE DEF Runs, RunStates
  <2> QED BY <1>3, <2>3 DEF Ask!Cancel
<1>4. ASSUME NEW t \in Tasks, NEW c \in Convs, Ask!Begin(t, c) PROVE AskInv'
  <2>1. [Ask!NoRun EXCEPT !.state = "queued", !.conv = c] \in Runs
    BY DEF Ask!NoRun
  <2>2. runs' \in [Tasks -> Runs] /\ runs'[t].state = "queued"
    BY <1>4, <2>1 DEF Ask!Begin, Ask!NoRun
  <2>3. runs[t].state = "none" /\ \A u \in Tasks : u # t => runs'[u] = runs[u]
    BY <1>4 DEF Ask!Begin
  <2>4. UNCHANGED <<convs, deleted, orders, askWorker, submits, acked>>
    BY <1>4 DEF Ask!Begin
  <2>5. askWorker # Free => askWorker.task \in Tasks /\ askWorker.task # t
    BY <2>3
  <2>6. t \notin acked
    BY <2>3
  <2> HIDE DEF Runs, RunStates, Iterations
  <2> QED BY <2>2, <2>3, <2>4, <2>5, <2>6
<1> QED BY <1>1, <1>2, <1>3, <1>4

LEMMA RunChanges ==
  ASSUME NEW r \in Runs
  PROVE  /\ [r EXCEPT !.cancel = TRUE] \in Runs /\ [r EXCEPT !.cancel = TRUE].state = r.state
         /\ [r EXCEPT !.delivered = TRUE] \in Runs /\ [r EXCEPT !.delivered = TRUE].state = r.state
         /\ \A s \in RunStates : [r EXCEPT !.state = s] \in Runs /\ [r EXCEPT !.state = s].state = s
         /\ \A s \in RunStates : /\ [r EXCEPT !.state = s, !.cancel = TRUE] \in Runs
                                 /\ [r EXCEPT !.state = s, !.cancel = TRUE].state = s
                                 /\ [r EXCEPT !.state = s, !.cancel = FALSE] \in Runs
                                 /\ [r EXCEPT !.state = s, !.cancel = FALSE].state = s
BY DEF Runs

\* The worker's iteration, the end of an order, and a stop of the node.
LEMMA IterationKeepsRuns ==
  ASSUME AskInv,
         \/ Ask!CancelUnsent \/ Ask!Submit \/ Ask!NothingToSubmit \/ Ask!DeliverCancel
         \/ Ask!Check \/ Ask!CheckFails \/ Ask!Acknowledge \/ Ask!Stop
         \/ \E t \in Tasks : Ask!Claim(t) \/ Ask!OrderEnds(t)
  PROVE  AskInv'
<1> USE DEF AskInv, AskTypes, Runs, RunStates, Iterations, ClaimedFirst, IterationIsOfClaimed,
       Ask!ReleasedIsArchived, Ask!DeletedStaysDeleted, Ask!Terminal
<1>1. ASSUME NEW t \in Tasks, Ask!Claim(t) PROVE AskInv'
  <2> DEFINE claimed == [runs[t] EXCEPT !.state = Ask!ClaimState(runs[t]),
                                        !.cancel = @ \/ runs[t].conv \notin convs]
  <2>1. claimed \in Runs /\ claimed.state = Ask!ClaimState(runs[t])
    <3>1. runs[t] \in Runs /\ Ask!ClaimState(runs[t]) \in RunStates
      BY DEF Ask!ClaimState
    <3>2. CASE runs[t].cancel \/ runs[t].conv \notin convs
      <4>1. claimed = [runs[t] EXCEPT !.state = Ask!ClaimState(runs[t]), !.cancel = TRUE]
        BY <3>2
      <4> HIDE DEF RunStates, claimed
      <4> QED BY <3>1, <4>1 DEF Runs
    <3>3. CASE ~(runs[t].cancel \/ runs[t].conv \notin convs)
      <4>1. claimed = [runs[t] EXCEPT !.state = Ask!ClaimState(runs[t]), !.cancel = FALSE]
        BY <3>3
      <4> HIDE DEF RunStates, claimed
      <4> QED BY <3>1, <4>1 DEF Runs
    <3> QED BY <3>2, <3>3
  <2>2. /\ runs' = [runs EXCEPT ![t] = claimed] /\ t \in Ask!ActiveRuns
        /\ askWorker' = [stage |-> "submit", task |-> t, dispatch |-> runs[t].state = "queued",
                         cancel |-> claimed.cancel, delivered |-> claimed.delivered]
        /\ UNCHANGED <<convs, deleted, orders, submits, acked>>
    BY <1>1 DEF Ask!Claim
  <2> HIDE DEF claimed
  <2>3. askWorker' \in Iterations /\ askWorker'.task = t /\ askWorker'.stage = "submit"
        /\ (askWorker'.dispatch => runs[t].state = "queued")
    BY <2>1, <2>2
  <2>4. runs' \in [Tasks -> Runs] /\ runs'[t].state \notin {"none", "queued"} \cup Ask!Terminal
        /\ \A u \in Tasks : u # t => runs'[u] = runs[u]
    BY <2>1, <2>2 DEF Ask!ClaimState, Ask!ActiveRuns
  <2> HIDE DEF Runs, RunStates, Iterations
  <2>5. t \notin acked
    BY <2>2 DEF Ask!ActiveRuns
  <2> QED BY <2>2, <2>3, <2>4, <2>5
<1>2. CASE Ask!CancelUnsent \/ Ask!NothingToSubmit
  BY <1>2 DEF Ask!CancelUnsent, Ask!NothingToSubmit, Ask!Ended, Ask!At, Ask!Goto
<1>3. CASE Ask!Submit
  BY <1>3 DEF Ask!Submit, Ask!Ended, Ask!At, Ask!Goto
<1>4. CASE Ask!DeliverCancel
  <2>1. askWorker \in Iterations /\ askWorker' \in Iterations /\ askWorker'.task = askWorker.task
        /\ askWorker'.stage = "check"
    BY <1>4 DEF Ask!DeliverCancel, Ask!At, Ask!Goto
  <2>2. runs' \in [Tasks -> Runs] /\ \A u \in Tasks : runs'[u].state = runs[u].state
    <3> DEFINE t == askWorker.task
    <3>1. t \in Tasks /\ runs[t] \in Runs
      BY <2>1
    <3>2. runs' = runs \/ runs' = [runs EXCEPT ![t] = [runs[t] EXCEPT !.delivered = TRUE]]
      BY <1>4 DEF Ask!DeliverCancel
    <3> DEFINE told == [runs[t] EXCEPT !.delivered = TRUE]
    <3>3. runs' = runs \/ runs' = [runs EXCEPT ![t] = told]
      BY <3>2
    <3>4. told \in Runs /\ told.state = runs[t].state
      <4> HIDE DEF Runs, RunStates
      <4> QED BY <3>1, RunChanges
    <3> HIDE DEF t, told, Runs, RunStates
    <3> QED BY <3>1, <3>3, <3>4
  <2>3. /\ orders' \in [Tasks -> Ask!Terminal \cup {"none", "active"}]
        /\ \A u \in Tasks : orders'[u] = orders[u] \/ orders[u] = "active"
    BY <1>4, <2>1 DEF Ask!DeliverCancel
  <2>4. UNCHANGED <<convs, deleted, submits, acked>>
    BY <1>4 DEF Ask!DeliverCancel
  <2>5. askWorker # Free /\ askWorker.task \in Tasks
    BY <1>4, <2>1 DEF Ask!DeliverCancel, Ask!At
  <2> HIDE DEF Runs, RunStates, Iterations
  <2> QED BY <2>1, <2>2, <2>3, <2>4, <2>5
<1>5. CASE Ask!Check
  <2> DEFINE t == askWorker.task
  <2>1. t \in Tasks /\ askWorker # Free /\ askWorker.stage = "check" /\ askWorker \in Iterations
    BY <1>5 DEF Ask!Check, Ask!At
  <2>2. /\ askWorker' = Free \/ /\ askWorker' \in Iterations /\ askWorker'.task = t
                                /\ askWorker'.stage = "acknowledge" /\ orders[t] \in Ask!Terminal
        /\ UNCHANGED <<convs, deleted, orders, submits, acked>>
    BY <1>5, <2>1 DEF Ask!Check, Ask!Goto
  <2>3. PICK s \in {"interrupted", "running", orders[t]} :
          /\ runs' = IF runs[t].state \in Ask!Terminal THEN runs ELSE [runs EXCEPT ![t].state = s]
          /\ s = "succeeded" => orders[t] = "succeeded"
          /\ s \in RunStates \ {"none", "queued"}
          /\ askWorker' # Free => s \in Ask!Terminal
    BY <1>5, <2>1 DEF Ask!Check, Ask!Ended, Ask!Goto
  <2> HIDE DEF t
  <2>4. runs' \in [Tasks -> Runs]
    <3> HIDE DEF Runs, RunStates
    <3> QED BY <2>1, <2>3, RunChanges
  <2>5. /\ runs'[t].state = IF runs[t].state \in Ask!Terminal THEN runs[t].state ELSE s
        /\ \A u \in Tasks : u # t => runs'[u] = runs[u]
    <3>1. runs \in [Tasks -> Runs] /\ s \in RunStates
      BY <2>3
    <3> HIDE DEF RunStates
    <3> QED BY ONLY <2>1, <2>3, <3>1 DEF Runs
  <2> HIDE DEF Runs, RunStates
  <2> QED BY <2>1, <2>2, <2>3, <2>4, <2>5 DEF t
<1>6. CASE Ask!CheckFails \/ Ask!Acknowledge
  BY <1>6 DEF Ask!CheckFails, Ask!Acknowledge, Ask!At, Ask!Goto
<1>7. ASSUME NEW t \in Tasks, Ask!OrderEnds(t) PROVE AskInv'
  BY <1>7 DEF Ask!OrderEnds
<1>8. CASE Ask!Stop
  BY <1>8 DEF Ask!Stop
<1> QED BY <1>1, <1>2, <1>3, <1>4, <1>5, <1>6, <1>7, <1>8

LEMMA AskSteps == ASSUME component = "ask" => AskInv, [MCNext]_allVars PROVE (component = "ask" => AskInv)'
<1>1. CASE UNCHANGED <<component, askState>>
  BY <1>1 DEF askState, AskInv, AskTypes, ClaimedFirst, IterationIsOfClaimed, Ask!ReleasedIsArchived,
              Ask!DeletedStaysDeleted
<1>2. CASE AskStep
  <2>1. component = "ask" /\ component' = "ask" /\ Ask!Next
    BY <1>2 DEF AskStep
  <2> QED BY <2>1, RequestsKeepRuns, IterationKeepsRuns DEF Ask!Next
<1> QED BY <1>1, <1>2 DEF MCNext, OrderStep, MailStep, allVars

(* An order is submitted at most once for a run, a result is released only     *)
(* when the history has it, a run succeeds only with its order's own result,   *)
(* and a deleted conversation stays deleted, for any number of conversations,  *)
(* runs, failed calls and stops of the node (ask_ryn/runs.py, run_once).       *)
THEOREM RunsAreSafe == MCSpec => []AskRunsSafe
<1>1. MCInit => (component = "ask" => AskInv)
  BY AskStarts DEF MCInit
<1>2. (component = "ask" => AskInv) /\ [MCNext]_allVars => (component = "ask" => AskInv)'
  BY AskSteps
<1>3. (component = "ask" => AskInv) => AskRunsSafe
  BY DEF AskInv, AskTypes, AskRunsSafe, Ask!AskRunsSafe, Ask!SubmittedOnce
<1> QED BY <1>1, <1>2, <1>3, PTL DEF MCSpec
==============================================================================
