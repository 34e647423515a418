---------------------------- MODULE TaskResults ----------------------------
(* What becomes of an LLM task's answer on both sides: on the consumer, the order   *)
(* record, the in-memory entry of the background order, the retention setting, the  *)
(* sweeps and the ask worker that archives the answer (llm_package/routes.py,       *)
(* task_protocol.py, privacy.py, ask_ryn/runs.py); on the provider, the loop over   *)
(* posted work orders, the threads serving ICE offers and the task record that      *)
(* answers a request delivered again. The exchange itself is in LlmOrders.          *)
EXTENDS Naturals, Sequences

CONSTANTS
    Sealed,          \* lifetime of a sealed answer or request (max(300 s, twice the timeout))
    Retention,       \* the retention a user may choose instead of 0
    EntryLife,       \* cutoff of an in-memory answer (24 h)
    Grace,           \* UNACKNOWLEDGED_SUCCESS_GRACE (7 days)
    ProviderKeep,    \* RYNMESH_LLM_PROVIDER_RETENTION_SECONDS
    MemoryLife,      \* how long the provider keeps an answer for a retry (60 s)
    Orders,          \* the posted work orders about one task
    Operation,       \* Operation[o]: "p2p", "relay", "cancel" or "settlement"
    MaxTime, MaxChanges, MaxTrouble

VARIABLES
    now,         \* the time
    retention,   \* result_retention_seconds of the consumer
    record,      \* the consumer's order: state, sealed answer, marks
    entry,       \* background_orders[task_id]: what it is and when it was recorded
    thread,      \* run_background_order: where it is and the retention it read
    worker,      \* the ask worker: the record it read, what it archived
    past,        \* what happened: the UI took the answer, the user cleared it, ...
    budget       \* changes of the setting and crashes left

consumerVars == <<now, retention, record, entry, thread, worker, past, budget>>

VARIABLES
    results,     \* the results published for each work order
    sessions,    \* p2p_sessions: the offers being served
    serving,     \* threads at work on each offer
    handler,     \* the call of ProviderService.handle for each order and the direct call
    loop,        \* relay_once: orders left of the poll, the one at hand, what it read of it
    task,        \* the provider's task record and when it was updated
    memory,      \* until when the provider holds the sealed answer in memory; 0: not held
    runs,        \* times the model was run for the task
    trouble      \* publications that may still fail, restarts left

providerVars == <<results, sessions, serving, handler, loop, task, memory, runs, trouble>>
resultVars == <<consumerVars, providerVars>>

Terminal == {"succeeded", "failed", "cancelled", "rejected"}
NoRecord == [state |-> "none", sealed |-> 0, expires |-> 0, at |-> 0, acked |-> FALSE, purged |-> FALSE]
NoEntry == [is |-> "none", at |-> 0]
Entry(what) == [is |-> what, at |-> now]
NoThread == [pc |-> "none", kind |-> "none", kept |-> 0, sealed |-> 0, ok |-> FALSE]
Handlers == Orders \cup {"direct"}
Final == {"completed", "failed"}

ConsumerInit ==
    /\ now = 0 /\ retention \in {0, Retention}
    /\ record = NoRecord /\ entry = NoEntry /\ thread = NoThread
    /\ worker = [pc |-> "check", saw |-> NoRecord, got |-> "nothing", archived |-> "nothing"]
    /\ past = {} /\ budget = MaxChanges

ProviderInit ==
    /\ results = [o \in Orders |-> <<>>] /\ sessions = {} /\ serving = [o \in Orders |-> 0]
    /\ handler = [h \in Handlers |-> "none"]
    /\ loop = [left |-> {}, at |-> "none", pc |-> "idle"]
    /\ task = [state |-> "none", at |-> 0] /\ memory = 0 /\ runs = 0 /\ trouble = MaxTrouble

Init == ConsumerInit /\ ProviderInit

-----------------------------------------------------------------------------
(* The order record *)

\* Slip: the sweep forgets that an answer may still be wanted.
AwaitingNever(r) == FALSE

\* A succeeded answer the ask worker has not acknowledged, within the grace.
AwaitingArchive(r) ==
    /\ r.state = "succeeded" /\ ~r.acked /\ r.sealed > 0
    /\ now < r.at + Grace

Purged(r) == IF r.sealed > 0 THEN [r EXCEPT !.sealed = 0, !.purged = TRUE] ELSE r

\* A terminal state stays; otherwise the new state and its answer are written.
Transition(r, state, sealed, expires) ==
    IF r.state \in Terminal \cup {"none"} THEN r   \* no record: an error, and nothing is written
    ELSE [r EXCEPT !.state = state, !.at = now,
                   !.sealed = IF sealed > 0 THEN sealed ELSE @, !.expires = expires]

\* Entries with a time of recording: an answer or another outcome that is held only
\* here, an error, and what an erasure leaves of them.
Recorded == {"answer", "outcome", "error", "bare"}
Ephemeral == {"answer", "outcome"}

\* Slip: one cutoff for every entry.
EntryExpiredSoon(e) == e.is \in Recorded /\ now > e.at

\* An entry's age decides: an unacknowledged answer waits longer than anything else.
EntryExpired(e) ==
    /\ e.is \in Recorded
    /\ now > e.at + (IF e.is = "answer" THEN EntryLife ELSE 0)

-----------------------------------------------------------------------------
(* The consumer's background order *)

\* submit_order: the task is queued in memory and a thread is started for it.
Submit(kind) ==
    /\ thread.pc = "none" /\ record.state = "none" /\ entry.is = "none" /\ past = {}
    /\ entry' = Entry("queued")
    /\ thread' = [thread EXCEPT !.pc = "claim", !.kind = kind]
    /\ UNCHANGED <<now, retention, record, worker, past, budget>>

\* The order is claimed and moved to running; or it is refused before a record exists,
\* or (on this node) rejected for want of a slot.
Claim ==
    /\ thread.pc = "claim"
    /\ \/ record' = [NoRecord EXCEPT !.state = "running"]
          /\ thread' = [thread EXCEPT !.pc = "run"] /\ UNCHANGED entry
       \/ entry' = Entry("error") /\ thread' = [thread EXCEPT !.pc = "finally"] /\ UNCHANGED record
       \/ thread.kind = "local" /\ record' = [NoRecord EXCEPT !.state = "rejected"]
          /\ thread' = [thread EXCEPT !.pc = "publish"] /\ UNCHANGED entry
    /\ UNCHANGED <<now, retention, worker, past, budget>>

\* An answer arrives, sealed by the provider for a while, or the exchange fails.
Answer ==
    /\ thread.pc = "run"
    /\ \/ thread' = [thread EXCEPT !.pc = "save", !.sealed = now + Sealed] /\ UNCHANGED <<record, entry>>
       \/ record' = Transition(record, "failed", 0, 0) /\ thread' = [thread EXCEPT !.pc = "finally"]
          /\ entry' = Entry("error")
    /\ UNCHANGED <<now, retention, worker, past, budget>>

\* A remote order: the retention is read and the answer checkpointed with it, the hold
\* is settled; a cancelled order has no hold left and ends in an error.
Checkpoint ==
    /\ thread.pc = "save" /\ thread.kind = "remote"
    /\ IF record.state \in Terminal \cup {"none"}
       THEN thread' = [thread EXCEPT !.pc = "finally"] /\ entry' = Entry("error") /\ UNCHANGED record
       ELSE /\ thread' = [thread EXCEPT !.pc = "succeed", !.kept = retention]
            /\ record' = IF retention = 0 THEN record
                         ELSE [record EXCEPT !.sealed = thread.sealed, !.expires = now + retention]
            /\ UNCHANGED entry
    /\ UNCHANGED <<now, retention, worker, past, budget>>

Succeed ==
    /\ thread.pc = "succeed"
    /\ record' = Transition(record, "succeeded", IF thread.kept = 0 THEN 0 ELSE thread.sealed,
                            IF thread.kept = 0 THEN 0 ELSE now + thread.kept)
    /\ thread' = [thread EXCEPT !.pc = "publish", !.ok = TRUE]
    /\ UNCHANGED <<now, retention, entry, worker, past, budget>>

\* An order to a model of this node seals its own answer for as long as it is retained.
Larger(a, b) == IF a > b THEN a ELSE b
LocalSucceed ==
    /\ thread.pc = "save" /\ thread.kind = "local"
    /\ IF record.state = "none"
       THEN thread' = [thread EXCEPT !.pc = "finally"] /\ entry' = Entry("error") /\ UNCHANGED record
       ELSE /\ record' = Transition(record, "succeeded",
                             IF retention = 0 THEN 0 ELSE now + Larger(retention, Sealed),
                             IF retention = 0 THEN 0 ELSE now + retention)
            /\ thread' = [thread EXCEPT !.pc = "publish", !.kept = retention, !.ok = record.state = "running"]
            /\ UNCHANGED entry
    /\ UNCHANGED <<now, retention, worker, past, budget>>

\* Back in the thread: an answer that is not retained is kept in memory.
Publish ==
    /\ thread.pc = "publish"
    /\ entry' = IF retention = 0 THEN Entry(IF thread.ok THEN "answer" ELSE "outcome") ELSE entry
    /\ thread' = [thread EXCEPT !.pc = "finally"]
    /\ UNCHANGED <<now, retention, record, worker, past, budget>>

\* The entry of a retained order is dropped: its record holds the answer.
Finally ==
    /\ thread.pc = "finally"
    /\ entry' = IF record.state # "none" /\ retention # 0 THEN NoEntry ELSE entry
    /\ thread' = [thread EXCEPT !.pc = "done"]
    /\ UNCHANGED <<now, retention, record, worker, past, budget>>

\* local_llm_cancel of a running order (its race with the exchange is in LlmOrders).
Cancel ==
    /\ record.state = "running" /\ thread.pc \in {"run", "save"}
    /\ record' = Transition(record, "cancelled", 0, 0)
    /\ UNCHANGED <<now, retention, entry, thread, worker, past, budget>>

-----------------------------------------------------------------------------
(* Sweeps and what the user does *)

\* GET /api/local/llm/orders drops the answers whose time is over.
PurgeExpired ==
    /\ record.expires > 0 /\ record.expires <= now /\ ~AwaitingArchive(record)
    /\ record' = Purged(record)
    /\ UNCHANGED <<now, retention, entry, thread, worker, past, budget>>

PruneEntries ==
    /\ EntryExpired(entry) /\ entry' = NoEntry
    /\ UNCHANGED <<now, retention, record, thread, worker, past, budget>>

\* PUT /api/local/llm/privacy: retention 0 purges what nobody waits for.
ChangeRetention ==
    /\ budget > 0 /\ budget' = budget - 1
    /\ retention' = IF retention = 0 THEN Retention ELSE 0
    /\ record' = IF retention' = 0 /\ ~AwaitingArchive(record) THEN Purged(record) ELSE record
    /\ past' = IF thread.pc \in {"succeed", "publish", "finally"} THEN past \cup {"changed"} ELSE past
    /\ UNCHANGED <<now, entry, thread, worker>>

\* DELETE /api/local/llm/orders removes every terminal record.
ClearOrders ==
    /\ record.state \in Terminal
    /\ record' = NoRecord /\ past' = past \cup {"cleared"}
    /\ UNCHANGED <<now, retention, entry, thread, worker, budget>>

\* erase_consumer_results, for the erasure of a conversation: refused while active.
EraseResults ==
    /\ record.state \in Terminal \cup {"none"} /\ entry.is # "queued" /\ thread.pc # "none"
    /\ record' = Purged(record)
    /\ entry' = IF entry.is = "none" THEN entry ELSE [entry EXCEPT !.is = "bare"]
    /\ past' = past \cup {"cleared"}
    /\ UNCHANGED <<now, retention, thread, worker, budget>>

-----------------------------------------------------------------------------
(* Reading the answer *)

\* What order_status answers from a record read before and the entry as it is now.
Status(r) ==
    IF r.state = "none"
    THEN CASE entry.is = "none" -> "unknown" [] entry.is = "queued" -> "running"
           [] entry.is = "answer" -> "answer" [] OTHER -> "failed"
    ELSE IF entry.is = "queued" /\ r.state = "succeeded" THEN "running"
    ELSE IF entry.is \in Ephemeral THEN IF entry.is = "answer" THEN "answer" ELSE "failed"
    ELSE IF r.sealed > 0 /\ r.state \in Terminal THEN IF now <= r.sealed THEN "answer" ELSE "unreadable"
    ELSE IF r.state = "succeeded" /\ ~r.acked /\ ~r.purged THEN "lost"
    ELSE IF r.state \in Terminal THEN IF entry.is = "queued" THEN "running" ELSE "failed"
    ELSE "running"

\* GET /api/local/llm/orders/{task_id} by the web page takes an answer held in memory.
ShowInPage ==
    /\ record.state # "none" /\ entry.is \in Ephemeral
    /\ entry' = NoEntry /\ past' = past \cup {"shown"}
    /\ UNCHANGED <<now, retention, record, thread, worker, budget>>

\* The ask worker's check reads the record, then looks at the entry.
WorkerReads ==
    /\ worker.pc = "check" /\ thread.pc # "none"
    /\ worker' = [worker EXCEPT !.pc = "look", !.saw = record]
    /\ UNCHANGED <<now, retention, record, entry, thread, past, budget>>

WorkerLooks ==
    /\ worker.pc = "look"
    /\ worker' = [worker EXCEPT !.got = Status(worker.saw), !.saw = NoRecord,
                                !.pc = IF Status(worker.saw) = "running" THEN "check" ELSE "archive"]
    /\ UNCHANGED <<now, retention, record, entry, thread, past, budget>>

\* _finish writes the history; only then is the result acknowledged.
Archive ==
    /\ worker.pc = "archive"
    /\ worker' = [worker EXCEPT !.archived = worker.got, !.pc = IF worker.got = "unknown" THEN "done" ELSE "ack"]
    /\ UNCHANGED <<now, retention, record, entry, thread, past, budget>>

Acknowledge ==
    /\ worker.pc = "ack" /\ worker' = [worker EXCEPT !.pc = "done"]
    /\ entry' = IF entry.is \in Ephemeral THEN NoEntry ELSE entry
    /\ record' = IF record.state = "none" THEN record ELSE [record EXCEPT !.acked = TRUE]
    /\ UNCHANGED <<now, retention, thread, past, budget>>

\* The node stops and starts again: memory is gone; an order whose answer was
\* checkpointed is completed, another unfinished one fails.
Restart ==
    /\ budget > 0 /\ budget' = budget - 1
    /\ entry' = NoEntry
    /\ thread' = [thread EXCEPT !.pc = IF @ = "none" THEN @ ELSE "done"]
    /\ record' = IF record.state # "running" THEN record
                 ELSE IF thread.pc = "succeed"
                      THEN Transition(record, "succeeded", 0, record.expires)
                      ELSE Transition(record, "failed", 0, 0)
    /\ worker' = [worker EXCEPT !.pc = IF @ \in {"ack", "done"} THEN "done" ELSE "check", !.got = "nothing", !.saw = NoRecord]
    /\ past' = past \cup {"restarted"}
    /\ UNCHANGED <<now, retention>>

Tick == now < MaxTime /\ now' = now + 1 /\ UNCHANGED <<retention, record, entry, thread, worker, past, budget>>

ConsumerStep ==
    \/ \E kind \in {"remote", "local"} : Submit(kind)
    \/ Claim \/ Answer \/ Checkpoint \/ Succeed \/ LocalSucceed \/ Publish \/ Finally \/ Cancel
    \/ PurgeExpired \/ PruneEntries \/ ChangeRetention \/ ClearOrders \/ EraseResults
    \/ ShowInPage \/ WorkerReads \/ WorkerLooks \/ Archive \/ Acknowledge \/ Restart \/ Tick

ResultNext == ConsumerStep /\ UNCHANGED providerVars

ResultSpec == Init /\ [][ResultNext]_resultVars

-----------------------------------------------------------------------------
(* The provider: posted work orders *)

HasFinal(o) == \E i \in DOMAIN results[o] : results[o][i] \in Final
Published(o, status) == [results EXCEPT ![o] = Append(@, status)]

\* Slip: the expiry of a request is not looked at.
OpensAlways == TRUE

\* open_task refuses a request whose envelope is over.
Opens == now <= Sealed

\* handle: a new task is claimed and the model run; a task on record is answered
\* from its record; a request that cannot be opened fails.
Handle(h) ==
    /\ handler[h] = "open"
    /\ IF ~Opens THEN handler' = [handler EXCEPT ![h] = "failed"] /\ UNCHANGED <<task, runs>>
       ELSE IF task.state = "none"
       THEN /\ task' = [state |-> "running", at |-> now] /\ runs' = runs + 1
            /\ handler' = [handler EXCEPT ![h] = "running"]
       ELSE handler' = [handler EXCEPT ![h] = "duplicate"] /\ UNCHANGED <<task, runs>>
    /\ UNCHANGED <<results, sessions, serving, loop, memory, trouble>>

\* The model ends: the sealed answer is held in memory only, never on disk.
ModelEnds(h) ==
    /\ handler[h] = "running" /\ handler' = [handler EXCEPT ![h] = "answered"]
    /\ IF task.state = "running"
       THEN /\ \E state \in {"succeeded", "failed"} : task' = [state |-> state, at |-> now]
            /\ memory' = now + MemoryLife
       ELSE UNCHANGED <<task, memory>>   \* cancelled meanwhile: the record stays
    /\ UNCHANGED <<results, sessions, serving, loop, runs, trouble>>

\* A duplicate waits for the task to end; it gets the held answer, or a sealed failure
\* once that is gone, or gives up.
AnswerDuplicate(h) ==
    /\ handler[h] = "duplicate"
    /\ \/ task.state \in Terminal /\ handler' = [handler EXCEPT ![h] = IF memory > now THEN "answered" ELSE "gone"]
       \/ task.state \notin Terminal /\ handler' = [handler EXCEPT ![h] = "failed"]
    /\ UNCHANGED <<results, sessions, serving, loop, task, memory, runs, trouble>>

\* POST /api/peer/llm/tasks: the consumer's direct call, with the same sealed request.
DirectCall ==
    /\ handler["direct"] \in {"none", "answered", "gone", "failed"} /\ trouble > 0
    /\ handler' = [handler EXCEPT !["direct"] = "open"]
    /\ trouble' = trouble - 1
    /\ UNCHANGED <<results, sessions, serving, loop, task, memory, runs>>

\* prune_terminal, whenever another task is admitted or the service is built again.
PruneTask ==
    /\ task.state \in Terminal /\ task.at + ProviderKeep <= now
    /\ task' = [state |-> "none", at |-> 0] /\ memory' = 0
    /\ UNCHANGED <<results, sessions, serving, handler, loop, runs, trouble>>

\* relay_once: poll the posted orders.
Poll ==
    /\ loop.pc = "idle"
    /\ loop' = [left |-> Orders, at |-> "none", pc |-> "next"]
    /\ UNCHANGED <<results, sessions, serving, handler, task, memory, runs, trouble>>

\* The results of the next order are read; one with a final result is passed over.
ReadPrior(o) ==
    /\ loop.pc = "next" /\ o \in loop.left
    /\ loop' = [left |-> loop.left \ {o}, at |-> o, pc |-> IF HasFinal(o) THEN "next" ELSE "act"]
    /\ UNCHANGED <<results, sessions, serving, handler, task, memory, runs, trouble>>

PollEnds ==
    /\ loop.pc = "next" /\ loop.left = {} /\ loop' = [loop EXCEPT !.pc = "idle"]
    /\ UNCHANGED <<results, sessions, serving, handler, task, memory, runs, trouble>>

\* Slip: the session is not entered.
EntersNot(o) == sessions

\* An offer not being served gets a thread.
Enters(o) == sessions \cup {o}

TakeOffer ==
    /\ loop.pc = "act" /\ Operation[loop.at] = "p2p"
    /\ IF loop.at \in sessions THEN UNCHANGED <<sessions, serving, handler>>
       ELSE /\ sessions' = Enters(loop.at) /\ serving' = [serving EXCEPT ![loop.at] = @ + 1]
            /\ handler' = [handler EXCEPT ![loop.at] = "exchange"]
    /\ loop' = [loop EXCEPT !.pc = "next"]
    /\ UNCHANGED <<results, task, memory, runs, trouble>>

\* _run_p2p_provider: the candidates are answered, then the request comes or does not.
ConnectOffer(o) ==
    /\ serving[o] > 0 /\ handler[o] = "exchange"
    /\ handler' = [handler EXCEPT ![o] = "open"] /\ results' = Published(o, "accepted")
    /\ Len(results[o]) < 4
    /\ UNCHANGED <<sessions, serving, loop, task, memory, runs, trouble>>

\* A publication either is stored or raises; the error branch publishes "failed" instead,
\* and the session ends either way.
EndOffer(o) ==
    /\ serving[o] > 0 /\ handler[o] \in {"exchange", "answered", "gone", "failed"}
    /\ \/ results' = Published(o, IF handler[o] \in {"answered", "gone"} THEN "completed" ELSE "failed") /\ UNCHANGED trouble
       \/ trouble > 0 /\ trouble' = trouble - 1 /\ results' \in {results, Published(o, "failed")}
    /\ serving' = [serving EXCEPT ![o] = @ - 1] /\ sessions' = sessions \ {o}
    /\ handler' = [handler EXCEPT ![o] = "none"]
    /\ UNCHANGED <<loop, task, memory, runs>>

\* A relayed request: its ciphertext is fetched and handled by the loop itself.
TakeRelayed ==
    /\ loop.pc = "act" /\ Operation[loop.at] = "relay"
    /\ \/ handler' = [handler EXCEPT ![loop.at] = "open"]
       \/ handler' = [handler EXCEPT ![loop.at] = "failed"]   \* no relay, or no ciphertext
    /\ loop' = [loop EXCEPT !.pc = "wait"]
    /\ UNCHANGED <<results, sessions, serving, task, memory, runs, trouble>>

\* The answer is uploaded and the result published; a failure of either publishes
\* "failed", and a failure of that ends the poll.
EndRelayed ==
    /\ loop.pc = "wait" /\ handler[loop.at] \in {"answered", "gone", "failed"}
    /\ handler' = [handler EXCEPT ![loop.at] = "none"]
    /\ \/ /\ results' = Published(loop.at, IF handler[loop.at] = "failed" THEN "failed" ELSE "completed")
          /\ loop' = [loop EXCEPT !.pc = "next"] /\ UNCHANGED trouble
       \/ /\ trouble > 0 /\ trouble' = trouble - 1
          /\ \/ results' = Published(loop.at, "failed") /\ loop' = [loop EXCEPT !.pc = "next"]
             \/ UNCHANGED results /\ loop' = [loop EXCEPT !.pc = "idle"]
    /\ UNCHANGED <<sessions, serving, task, memory, runs>>

\* A cancellation or a settlement: a settled task's answer is dropped (settle_earning).
TakeNotice ==
    /\ loop.pc = "act" /\ Operation[loop.at] \in {"cancel", "settlement"}
    /\ \E ok \in BOOLEAN :
         /\ results' = Published(loop.at, IF ok THEN "completed" ELSE "failed")
         /\ memory' = IF ok /\ Operation[loop.at] = "settlement" THEN 0 ELSE memory
         /\ task' = IF ok /\ Operation[loop.at] = "cancel" /\ task.state = "running"
                    THEN [state |-> "cancelled", at |-> now] ELSE task
    /\ loop' = [loop EXCEPT !.pc = "next"]
    /\ UNCHANGED <<sessions, serving, handler, runs, trouble>>

\* The node starts again: threads, sessions and held answers are gone and an unfinished
\* task has failed.
ProviderRestart ==
    /\ trouble > 0 /\ trouble' = trouble - 1
    /\ sessions' = {} /\ serving' = [o \in Orders |-> 0] /\ handler' = [h \in Handlers |-> "none"]
    /\ loop' = [left |-> {}, at |-> "none", pc |-> "idle"] /\ memory' = 0
    /\ task' = IF task.state = "running" THEN [state |-> "failed", at |-> now] ELSE task
    /\ UNCHANGED <<results, runs>>

ProviderStep ==
    \/ \E h \in Handlers : Handle(h) \/ ModelEnds(h) \/ AnswerDuplicate(h)
    \/ \E o \in Orders : ReadPrior(o) \/ ConnectOffer(o) \/ EndOffer(o)
    \/ DirectCall \/ PruneTask \/ Poll \/ PollEnds \/ TakeOffer \/ TakeRelayed \/ EndRelayed \/ TakeNotice
    \/ ProviderRestart

Waits == now < MaxTime /\ now' = now + 1 /\ UNCHANGED providerVars

WorkNext ==
    \/ ProviderStep /\ UNCHANGED consumerVars
    \/ Waits /\ UNCHANGED <<retention, record, entry, thread, worker, past, budget>>

-----------------------------------------------------------------------------
(* Properties *)

(* A succeeded answer that nobody took, cleared or acknowledged is still held by *)
(* the record or in memory, through purges, sweeps and changes of the retention  *)
(* setting that do not fall into the order's last steps                          *)
(* (task_protocol._awaiting_archive, routes._background_order_expired).          *)
AnswerHeld ==
    /\ record.state = "succeeded" /\ ~record.acked /\ thread.pc = "done" /\ past = {}
    /\ now < record.at + Grace /\ (thread.kept = 0 => now <= record.at + EntryLife)
    => record.sealed > 0 \/ entry.is = "answer"

(* The same task is run once, however often its request is delivered directly,   *)
(* by offer or by relay, and no offer is served by two threads at a time         *)
(* (ProviderService.handle, relay_once, _run_p2p_provider).                      *)
RunsOnce == runs <= 1 /\ \A o \in Orders : serving[o] <= 1

\* What both sides of a task promise of its answer (task_protocol.py, routes.py).
ResultsSound == AnswerHeld /\ RunsOnce

(* An answer kept for the ask worker can be read by it until it is acknowledged   *)
(* or the grace is over (task_protocol.py: "A paid, succeeded answer must survive *)
(* until the ask worker archives it and calls mark_acknowledged").                *)
AwaitedIsReadable == AwaitingArchive(record) => Status(record) # "unreadable"

=============================================================================
