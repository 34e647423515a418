----------------------------- MODULE ModelAnswer -----------------------------
(* How an answer gets out of a model, in the three processes it passes through.  *)
(* RuntimeNext: the GPU server (llm_runtime_server.py), one generation at a time *)
(* under a lock, a worker thread filling a queue the response reads.             *)
(* CallNext: the provider's call (adapters.py, cli_adapter.py, codex_session.py) *)
(* and a cancel from another thread. CodexNext: the event stream of the Codex    *)
(* process: a reader thread, a bounded queue, and what arrives before the reply  *)
(* that is being waited for.                                                     *)
EXTENDS FiniteSets, Naturals, Sequences

CONSTANTS Requests,    \* requests at the GPU server
          Pieces,      \* pieces of a whole answer
          Kinds,       \* adapters: "http", "claude", "codex"
          MaxCalls,    \* bound: calls with one task id
          Events,      \* events of one Codex turn, the last completes it
          QueueSize,   \* the reader's queue (256)
          PendingSize  \* events kept while a reply is awaited (256)

VARIABLES holder,      \* whose generation holds _generation_lock
          answer,      \* answer[r]: the request's reader and its worker thread
          call,        \* the adapter's call of one task
          cancelled,   \* the task id is in _cancelled
          cancel,      \* the cancelling thread: what it is about to close
          asked,       \* history: cancel() ran while the call did
          calls,
          codex        \* one turn over app-server

runtimeVars == <<holder, answer>>
callVars == <<call, cancelled, cancel, asked, calls>>
answerVars == <<runtimeVars, callVars, codex>>

Nobody == "nobody"
NoAnswer == [reader |-> "idle", worker |-> "none", queue |-> 0, read |-> 0, made |-> 0, ended |-> FALSE,
             outcome |-> "none", stopped |-> FALSE, late |-> FALSE, hurried |-> FALSE]
NoCall == [at |-> "idle", kind |-> "http", handle |-> "none", registered |-> FALSE, result |-> "none"]
NewTurn == [made |-> 0, replied |-> FALSE, process |-> "running", queue |-> <<>>, eof |-> FALSE,
            failure |-> FALSE, at |-> "calling", pending |-> <<>>, taken |-> <<>>]
Reply == 0

Init ==
    /\ holder = Nobody /\ answer = [r \in Requests |-> NoAnswer]
    /\ call = NoCall /\ cancelled = FALSE /\ cancel = "idle" /\ asked = FALSE /\ calls = 0
    /\ codex = NewTurn

-----------------------------------------------------------------------------
(* The GPU server. Admission: streaming or not, whoever finds the lock taken is  *)
(* told so.                                                                      *)
Set(r, value) == answer' = [answer EXCEPT ![r] = value]
Reader(r, stage) == answer[r].reader = stage
Admit(r) ==
    /\ Reader(r, "idle")
    /\ IF holder = Nobody
       THEN /\ holder' = r
            /\ \E stream \in BOOLEAN :
                Set(r, [NoAnswer EXCEPT !.reader = IF stream THEN "reading" ELSE "completing", !.worker = "running"])
       ELSE Set(r, [NoAnswer EXCEPT !.reader = "busy"]) /\ UNCHANGED holder
(* complete: the whole generation under the lock, in the request's own thread.   *)
CompleteEnds(r) ==
    /\ Reader(r, "completing") /\ holder' = Nobody
    /\ \E result \in {"answered", "failed"} :
        Set(r, [answer[r] EXCEPT !.reader = result, !.worker = "dead", !.made = Pieces, !.read = Pieces, !.outcome = "tokens"])

(* generate: the worker thread. It stops at the deadline or when the reader went *)
(* away; the streamer is ended inside generate, the outcome noted after it, and  *)
(* the lock released last.                                                       *)
Streams(r) == answer[r].reader # "completing"
Deadline(r) == answer[r].worker = "running" /\ Streams(r) /\ ~answer[r].late
               /\ Set(r, [answer[r] EXCEPT !.late = TRUE]) /\ UNCHANGED holder
Produce(r) ==
    /\ answer[r].worker = "running" /\ Streams(r) /\ answer[r].made < Pieces
    /\ Set(r, [answer[r] EXCEPT !.made = @ + 1, !.queue = @ + 1]) /\ UNCHANGED holder
Stopping(r) == answer[r].stopped \/ answer[r].late \/ answer[r].made = Pieces
EndStream(r) ==
    /\ answer[r].worker = "running" /\ Streams(r) /\ Stopping(r)
    /\ Set(r, [answer[r] EXCEPT !.ended = TRUE, !.worker = "ended"]) /\ UNCHANGED holder
NoteOutcome(r) ==
    /\ answer[r].worker = "ended"
    /\ Set(r, [answer[r] EXCEPT !.worker = "noted", !.outcome = IF answer[r].late THEN "error" ELSE "tokens"])
    /\ UNCHANGED holder
GenerateFails(r) ==
    /\ answer[r].worker = "running" /\ Streams(r)
    /\ Set(r, [answer[r] EXCEPT !.worker = "noted", !.outcome = "error", !.ended = TRUE]) /\ UNCHANGED holder
ReleaseLock(r) ==
    /\ answer[r].worker = "noted" /\ holder' = Nobody /\ Set(r, [answer[r] EXCEPT !.worker = "dead"])

(* stream_chat: the response's side of the queue.                                *)
Read(r) ==
    /\ Reader(r, "reading")
    /\ IF answer[r].queue > 0 THEN Set(r, [answer[r] EXCEPT !.queue = @ - 1, !.read = @ + 1])
       ELSE answer[r].ended /\ Set(r, [answer[r] EXCEPT !.reader = "joining"])
    /\ UNCHANGED holder
ReadTimesOut(r) ==
    /\ Reader(r, "reading") /\ answer[r].queue = 0 /\ ~answer[r].ended
    /\ Set(r, [answer[r] EXCEPT !.reader = "empty"]) /\ UNCHANGED holder
IsAlive(r) ==
    /\ Reader(r, "empty") /\ UNCHANGED holder
    /\ IF answer[r].worker = "dead"
       THEN Set(r, [answer[r] EXCEPT !.reader = "joining", !.hurried = @ \/ answer[r].queue > 0])
       ELSE Set(r, [answer[r] EXCEPT !.reader = "reading"])
FailsNever(outcome) == FALSE   \* mutant: the worker's error is not looked at
FailsOn(outcome) == outcome = "error"
Joined(r) ==
    /\ Reader(r, "joining") /\ UNCHANGED holder
    /\ \E finished \in {answer[r].worker = "dead", FALSE} :   \* or five seconds have passed
        Set(r, [answer[r] EXCEPT !.reader = IF FailsOn(answer[r].outcome) THEN "failed" ELSE "answered",
                                 !.stopped = TRUE, !.hurried = @ \/ (~finished /\ answer[r].outcome = "none")])
ClientGone(r) ==
    /\ Reader(r, "reading") /\ UNCHANGED holder
    /\ Set(r, [answer[r] EXCEPT !.reader = "gone", !.stopped = TRUE])
RuntimeNext ==
    /\ \E r \in Requests :
        \/ Admit(r) \/ CompleteEnds(r) \/ Deadline(r) \/ Produce(r) \/ EndStream(r) \/ NoteOutcome(r)
        \/ GenerateFails(r) \/ ReleaseLock(r) \/ Read(r) \/ ReadTimesOut(r) \/ IsAlive(r) \/ Joined(r)
        \/ ClientGone(r)
    /\ UNCHANGED <<callVars, codex>>

-----------------------------------------------------------------------------
(* One task id at an adapter. The handle is the HTTP response or the process.    *)
Process(kind) == kind \in {"claude", "codex"}
Moves(stage) == call' = [call EXCEPT !.at = stage]
CallAside == UNCHANGED <<cancelled, cancel, asked, calls>>
StartCall(kind) ==
    /\ call.at \in {"idle", "returned"} /\ calls < MaxCalls /\ calls' = calls + 1 /\ asked' = FALSE
    /\ call' = [NoCall EXCEPT !.kind = kind, !.at = IF cancelled THEN "returned" ELSE "open",
                              !.result = IF cancelled THEN "cancelled" ELSE "none"]
    /\ cancelled' = (cancelled /\ ~Process(kind))   \* only the command line adapters forget it here
    /\ UNCHANGED cancel
OpenFails == call.at = "open" /\ call' = [call EXCEPT !.at = "close", !.result = "failed"] /\ CallAside
Open == call.at = "open" /\ call' = [call EXCEPT !.at = "register", !.handle = "live"] /\ CallAside
Register ==
    /\ call.at = "register" /\ CallAside
    /\ IF Process(call.kind) /\ cancelled
       THEN call' = [call EXCEPT !.registered = TRUE, !.handle = "closed", !.at = "close", !.result = "cancelled"]
       ELSE call' = [call EXCEPT !.registered = TRUE, !.at = "work"]
(* The stream or the process ends; a closed handle ends it too. Codex may have   *)
(* its last events queued when its process dies.                                 *)
Whole == call.at = "work" /\ (call.handle = "live" \/ call.kind = "codex") /\ Moves("judge") /\ CallAside
Broken == call.at = "work" /\ call' = [call EXCEPT !.at = "close", !.result = "failed"] /\ CallAside
ToldNever == FALSE   \* mutant: no look at _cancelled once the output is complete
Told == cancelled /\ call.kind # "codex"
Judge ==
    /\ call.at = "judge" /\ call' = [call EXCEPT !.at = "close", !.result = IF Told THEN "cancelled" ELSE "answered"]
    /\ CallAside
Close ==
    /\ call.at = "close" /\ cancelled' = FALSE /\ UNCHANGED <<cancel, asked, calls>>
    /\ call' = [call EXCEPT !.at = "returned", !.handle = "none", !.registered = FALSE]
(* cancel, from another thread: noted under the lock, the handle closed after it.*)
Cancel ==
    /\ cancel = "idle" /\ cancelled' = TRUE /\ UNCHANGED <<call, calls>>
    /\ cancel' = (IF call.registered THEN "closing" ELSE "idle")
    /\ asked' = (asked \/ call.at \in {"open", "register", "work", "judge"})
CloseHandle ==
    /\ cancel = "closing" /\ cancel' = "idle" /\ UNCHANGED <<cancelled, asked, calls>>
    /\ call' = [call EXCEPT !.handle = IF @ = "live" THEN "closed" ELSE @]
CallNext ==
    /\ \/ \E kind \in Kinds : StartCall(kind)
       \/ OpenFails \/ Open \/ Register \/ Whole \/ Broken \/ Judge \/ Close \/ Cancel \/ CloseHandle
    /\ UNCHANGED <<runtimeVars, codex>>

-----------------------------------------------------------------------------
(* CodexRPC._read: a line into the queue; a queue full for a second is a failure *)
(* and ends the process; the end of the output is marked if there is room.       *)
Line(value) ==
    IF Len(codex.queue) < QueueSize THEN [codex EXCEPT !.queue = Append(@, value)]
    ELSE [codex EXCEPT !.failure = TRUE, !.process = "killed"]
Emit ==
    /\ codex.process = "running" /\ codex.made < Events
    /\ codex' = [Line(codex.made + 1) EXCEPT !.made = @ + 1]
Answer ==
    /\ codex.process = "running" /\ ~codex.replied
    /\ codex' = [Line(Reply) EXCEPT !.replied = TRUE]
ProcessEnds == codex.process = "running" /\ codex' = [codex EXCEPT !.process = "ended"]
MarkEnd ==
    /\ codex.process = "ended" /\ ~codex.eof
    /\ codex' = [codex EXCEPT !.process = "read", !.eof = Len(codex.queue) < QueueSize]
(* receive, call and the turn's loop: what came before the reply first.          *)
Waiting == codex.at \in {"calling", "turn"}
Head1 == Head(codex.queue)
Popped == [codex EXCEPT !.queue = Tail(@)]
Disconnected ==
    /\ Waiting /\ (codex.failure \/ (codex.queue = <<>> /\ codex.eof))
    /\ codex' = [codex EXCEPT !.at = "failed"]
TimesOut == Waiting /\ codex' = [codex EXCEPT !.at = "failed"]
AwaitReply ==
    /\ codex.at = "calling" /\ ~codex.failure /\ codex.queue # <<>>
    /\ codex' = IF Head1 = Reply THEN [Popped EXCEPT !.at = "turn"]
                ELSE IF Len(codex.pending) = PendingSize THEN [codex EXCEPT !.at = "failed"]
                ELSE [Popped EXCEPT !.pending = Append(@, Head1)]
FromQueueFirst == codex.pending # <<>> /\ codex.queue = <<>>   \* mutant
FromPending == codex.pending # <<>>
NextEvent ==
    /\ codex.at = "turn"
    /\ LET rest == IF FromPending THEN [codex EXCEPT !.pending = Tail(@)] ELSE Popped
           event == IF FromPending THEN Head(codex.pending) ELSE Head1 IN
       /\ FromPending \/ (codex.queue # <<>> /\ ~codex.failure)
       /\ codex' = [rest EXCEPT !.taken = Append(@, event), !.at = IF event = Events THEN "done" ELSE "turn"]
CodexNext ==
    /\ \/ Emit \/ Answer \/ ProcessEnds \/ MarkEnd
       \/ Disconnected \/ TimesOut \/ AwaitReply \/ NextEvent
    /\ UNCHANGED <<runtimeVars, callVars>>

Next == RuntimeNext \/ CallNext \/ CodexNext

-----------------------------------------------------------------------------
(* The lock is held exactly while one generation runs; an answer reported as     *)
(* finished has every piece and the worker's word for it, unless the reader      *)
(* stopped looking first (the worker died between a timed-out read and the look  *)
(* at it, or was not joined in five seconds); no answer comes out of a call that *)
(* was cancelled before its output was judged, and no process or response        *)
(* outlives its call; a Codex turn that completed took every event, in order.    *)
Working(r) == answer[r].worker \in {"running", "ended", "noted"}
OneGeneration == \A r \in Requests : Working(r) <=> holder = r
AnswerIsWhole == \A r \in Requests :
    answer[r].reader = "answered" => answer[r].hurried \/ (answer[r].read = Pieces /\ answer[r].outcome = "tokens")
CancelHolds == call.result = "answered" /\ call.kind # "codex" => ~asked
NothingOutlives == call.at \in {"idle", "returned"} => call.handle = "none" /\ ~call.registered
TurnInOrder ==
    /\ \A n \in DOMAIN codex.taken : codex.taken[n] = n
    /\ codex.at = "done" => Len(codex.taken) = Events

\* What the server, the adapters and the Codex session promise together.
AnswersAreWhole == OneGeneration /\ AnswerIsWhole /\ CancelHolds /\ NothingOutlives /\ TurnInOrder
=============================================================================
