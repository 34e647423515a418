-------------------------------- MODULE Streams --------------------------------
(* What is sent as a numbered stream, in two halves that share no state.          *)
(*                                                                                *)
(* Frames: one request stream and one response over two ICE/UDP legs              *)
(* (peer_transit.py; send_bytes and receive_bytes of llm_package/p2p.py).  Each   *)
(* leg repeats a message until it is acknowledged; datagrams are lost and arrive  *)
(* late.  An end remembers only its most recent message ids.  The transit peer    *)
(* forwards sealed frames in order; source and target number them end to end.     *)
(*                                                                                *)
(* Answers: a streamed answer from the provider's model to a browser (llm_package:*)
(* ProviderService.handle_stream, StreamSequenceVerifier, StreamEventBroker and   *)
(* the order's event route).  The provider's worker thread puts sealed deltas in  *)
(* a bounded queue that the HTTP response drains; the consumer verifies them and  *)
(* publishes them in a bounded ring in memory; browsers replay the ring from      *)
(* their own position, come late, and come back.                                  *)
EXTENDS Integers, Sequences, SequencesExt

CONSTANTS Frames,     \* the frames of the request, 1..n; the last one is final
          RecentIds,  \* _RECENT_MESSAGE_IDS of a connection
          NoFrame,
          Deltas,     \* how many deltas the model produces
          QueueSize,  \* the provider's queue
          RingSize,   \* max_events_per_task of the broker
          MaxEvicted  \* bound: times other tasks push this one out of the broker

VARIABLES source,   \* frames sealed so far, the one being sent, and the stage
          transit,  \* the direction served, the frame held, the expected sequences
          target,   \* what the sink got, and the stage
          queue,    \* queue[e]: datagrams that may still arrive at end e
          recent    \* recent[e]: the message ids end e remembers

VARIABLES worker,     \* the provider's thread: stage and next delta
          pipe,       \* the queue between worker and response
          response,   \* the response generator: "open", "closed"
          reading,    \* the consumer: deltas verified, terminal seen, stage
          broker,     \* the ring, the cumulative snapshot, and whether it knows the task
          reader,     \* the browser: its position, the text it shows, what it is being sent
          evicted

frameVars == <<source, transit, target, queue, recent>>
answerVars == <<worker, pipe, response, reading, broker, reader, evicted>>

\* The ends of the two legs; the transit peer has one on each.
Ends == {"source", "left", "right", "target"}
Peer == [source |-> "left", left |-> "source", right |-> "target", target |-> "right"]

Frame(d, n) == [direction |-> d, sequence |-> n, final |-> d = "response" \/ n = Len(Frames)]
Response == Frame("response", 1)

FramesInit ==
    /\ source = [next |-> 1, stage |-> "sending"]
    /\ transit = [direction |-> "request", held |-> NoFrame, stage |-> "relaying",
                  expected |-> [request |-> 1, response |-> 1]]
    /\ target = [sink |-> <<>>, stage |-> "receiving"]
    /\ queue = [e \in Ends |-> {}] /\ recent = [e \in Ends |-> <<>>]

\* The message an end is sending with send_bytes, and whether it is receiving.
Sending(e) ==
    CASE e = "source" -> IF source.stage = "sending" THEN Frame("request", source.next) ELSE NoFrame
      [] e = "right" -> IF transit.direction = "request" /\ transit.stage = "relaying" THEN transit.held ELSE NoFrame
      [] e = "left" -> IF transit.direction = "response" /\ transit.stage = "relaying" THEN transit.held ELSE NoFrame
      [] e = "target" -> IF target.stage = "answering" THEN Response ELSE NoFrame
Receiving(e) ==
    CASE e = "source" -> source.stage = "receiving"
      [] e = "left" -> transit.direction = "request" /\ transit.held = NoFrame /\ transit.stage = "relaying"
      [] e = "right" -> transit.direction = "response" /\ transit.held = NoFrame /\ transit.stage = "relaying"
      [] e = "target" -> target.stage = "receiving"

Data(f) == [kind |-> "data", frame |-> f]
Ack(f) == [kind |-> "ack", frame |-> f]

----------------------------------------------------------------------------
(* One leg.                                                                      *)

\* send_bytes: (re)transmit the fragments that are not acknowledged.
Transmit(e) ==
    /\ Sending(e) # NoFrame /\ Data(Sending(e)) \notin queue[Peer[e]]
    /\ queue' = [queue EXCEPT ![Peer[e]] = @ \cup {Data(Sending(e))}]
    /\ UNCHANGED <<source, transit, target, recent>>

\* send_bytes reads whatever arrives and drops what is not its acknowledgement.
DropOther(e) ==
    /\ Sending(e) # NoFrame
    /\ \E p \in queue[e] : p # Ack(Sending(e)) /\ queue' = [queue EXCEPT ![e] = @ \ {p}]
    /\ UNCHANGED <<source, transit, target, recent>>

\* receive_bytes acknowledges a message it delivered before and hides it.
ReAck(e) ==
    /\ Receiving(e)
    /\ \E p \in queue[e] :
          /\ p.kind = "data" /\ p.frame \in ToSet(recent[e])
          /\ queue' = [queue EXCEPT ![e] = @ \ {p}, ![Peer[e]] = @ \cup {Ack(p.frame)}]
    /\ UNCHANGED <<source, transit, target, recent>>

Lose(e) ==
    /\ \E p \in queue[e] : queue' = [queue EXCEPT ![e] = @ \ {p}]
    /\ UNCHANGED <<source, transit, target, recent>>

\* receive_bytes delivers a message: acknowledged, remembered, handed up.
Remembered(ids, f) == IF Len(ids) < RecentIds THEN Append(ids, f) ELSE Append(Tail(ids), f)
Delivered(e, f) ==
    /\ Receiving(e) /\ Data(f) \in queue[e] /\ f \notin ToSet(recent[e])
    /\ queue' = [queue EXCEPT ![e] = @ \ {Data(f)}, ![Peer[e]] = @ \cup {Ack(f)}]
    /\ recent' = [recent EXCEPT ![e] = Remembered(@, f)]

Acknowledged(e) ==
    /\ Sending(e) # NoFrame /\ Ack(Sending(e)) \in queue[e]
    /\ queue' = [queue EXCEPT ![e] = @ \ {Ack(Sending(e))}]
    /\ UNCHANGED recent

----------------------------------------------------------------------------
(* The three parties.                                                            *)

\* send_encrypted_stream: the next chunk is sealed when the last was acknowledged.
SourceSent ==
    /\ Acknowledged("source")
    /\ source' = IF source.next = Len(Frames) THEN [source EXCEPT !.stage = "receiving"]
                 ELSE [source EXCEPT !.next = @ + 1]
    /\ UNCHANGED <<transit, target>>

\* receive_encrypted_stream of the response; a mismatched frame is fatal.
SourceReceives(f) ==
    /\ Delivered("source", f)
    /\ source' = [source EXCEPT !.stage = IF f = Response THEN "done" ELSE "failed"]
    /\ UNCHANGED <<transit, target>>

\* relay_bidirectional_once: an old frame is dropped, a gap or a foreign frame is
\* fatal, the next one is held and forwarded.
TransitReceives(e, f) ==
    LET n == transit.expected[transit.direction]
    IN  /\ e \in {"left", "right"} /\ Delivered(e, f)
        /\ transit' = IF f.direction # transit.direction \/ f.sequence > n
                      THEN [transit EXCEPT !.stage = "failed"]
                      ELSE IF f.sequence < n THEN transit
                      ELSE [transit EXCEPT !.held = f, !.expected[transit.direction] = @ + 1]
        /\ UNCHANGED <<source, target>>
TransitForwarded(e) ==
    /\ e \in {"left", "right"} /\ Acknowledged(e)
    /\ transit' = IF ~ transit.held.final THEN [transit EXCEPT !.held = NoFrame]
                  ELSE IF transit.direction = "request"
                  THEN [transit EXCEPT !.held = NoFrame, !.direction = "response"]
                  ELSE [transit EXCEPT !.held = NoFrame, !.stage = "completed"]
    /\ UNCHANGED <<source, target>>

\* TransitCipher.open compares the sequence: a replay is skipped by the receive
\* loop, a gap is fatal.
OpensAny(f) == "next"       \* mutant: the sequence is not compared
Opens(f) ==
    IF f.direction # "request" \/ f.sequence > Len(target.sink) + 1 THEN "fatal"
    ELSE IF f.sequence <= Len(target.sink) THEN "replayed" ELSE "next"
TargetReceives(f) ==
    /\ Delivered("target", f)
    /\ target' = CASE Opens(f) = "fatal" -> [target EXCEPT !.stage = "failed"]
                   [] Opens(f) = "replayed" -> target
                   [] Opens(f) = "next" -> [sink |-> Append(target.sink, f.sequence),
                                            stage |-> IF f.final THEN "answering" ELSE "receiving"]
    /\ UNCHANGED <<source, transit>>
TargetAnswered ==
    /\ Acknowledged("target")
    /\ target' = [target EXCEPT !.stage = "completed"]
    /\ UNCHANGED <<source, transit>>

\* A deadline passes: that party closes its connections.
TimeOut ==
    /\ \/ source.stage \in {"sending", "receiving"} /\ source' = [source EXCEPT !.stage = "failed"]
          /\ UNCHANGED <<transit, target>>
       \/ transit.stage = "relaying" /\ transit' = [transit EXCEPT !.stage = "failed"]
          /\ UNCHANGED <<source, target>>
       \/ target.stage \in {"receiving", "answering"} /\ target' = [target EXCEPT !.stage = "failed"]
          /\ UNCHANGED <<source, transit>>
    /\ UNCHANGED <<queue, recent>>

AllFrames == {Frame("request", n) : n \in 1..Len(Frames)} \cup {Response}
FramesNext ==
    /\ UNCHANGED answerVars
    /\ \/ SourceSent \/ TargetAnswered \/ TimeOut
       \/ \E e \in Ends : Transmit(e) \/ DropOther(e) \/ ReAck(e) \/ Lose(e) \/ TransitForwarded(e)
       \/ \E f \in AllFrames : SourceReceives(f) \/ TargetReceives(f) \/ \E e \in Ends : TransitReceives(e, f)

----------------------------------------------------------------------------
(* The target's sink gets the frames of the source in order and once each,        *)
(* although legs repeat them and forget what they delivered; an answer means the  *)
(* sink got every frame, and a completed transit peer means the source got it.    *)
StreamIntact ==
    /\ IsPrefix(target.sink, Frames)
    /\ target.stage \in {"answering", "completed"} \/ source.stage = "done" => target.sink = Frames
    /\ transit.stage = "completed" => source.stage = "done"
    /\ transit.expected.request <= source.next + 1
----------------------------------------------------------------------------
(* Answers.                                                                      *)

Delta(n) == [event |-> "delta", sequence |-> n]
State(s) == [event |-> s, sequence |-> -1]
NoTask == [known |-> FALSE, events |-> <<>>, snapshot |-> -1]
Fresh == [cursor |-> -1, text |-> <<>>, stage |-> "watching", from |-> -1, events |-> <<>>]
Text(n) == [i \in 1..(n + 1) |-> i - 1]     \* the deltas 0..n, joined

AnswerInit ==
    /\ worker = [stage |-> "running", next |-> 0]
    /\ pipe = <<>> /\ response = "open" /\ evicted = 0
    /\ reading = [next |-> 0, terminal |-> FALSE, stage |-> "reading"]
    /\ broker = [known |-> TRUE, events |-> <<State("state")>>, snapshot |-> -1]
    /\ reader = Fresh

----------------------------------------------------------------------------
(* The provider.                                                                 *)

consumerVars == <<reading, broker, reader, evicted>>

\* on_delta, and publish while the queue has room; without a reader the worker's
\* own inference is stopped.
OnDelta ==
    /\ worker.stage = "running" /\ worker.next < Deltas
    /\ response = "open" /\ Len(pipe) < QueueSize
    /\ pipe' = Append(pipe, Delta(worker.next))
    /\ worker' = [worker EXCEPT !.next = @ + 1]
    /\ UNCHANGED <<response, consumerVars>>
Terminal ==
    /\ worker.stage = "running" /\ worker.next = Deltas
    /\ response = "open" /\ Len(pipe) < QueueSize
    /\ pipe' = Append(pipe, State("terminal"))
    /\ worker' = [worker EXCEPT !.stage = "finished"]
    /\ UNCHANGED <<response, consumerVars>>
WorkerFails ==
    /\ worker.stage = "running"
    /\ pipe' = IF response = "open" /\ Len(pipe) < QueueSize THEN Append(pipe, State("error")) ELSE pipe
    /\ worker' = [worker EXCEPT !.stage = "finished"]
    /\ UNCHANGED <<response, consumerVars>>

\* The response ends: the consumer went away, or the deadline passed.
Disconnect ==
    /\ response = "open" /\ response' = "closed"
    /\ reading' = IF reading.stage = "reading" /\ ~ reading.terminal THEN [reading EXCEPT !.stage = "failed"] ELSE reading
    /\ UNCHANGED <<worker, pipe, broker, reader, evicted>>

----------------------------------------------------------------------------
(* The consumer and its broker.                                                  *)

\* StreamEventBroker.publish: an unknown task takes a first delta or a state; a
\* later delta of a task that was pushed out is dropped, and is no error.
Ring(events, e) == IF Len(events) < RingSize THEN Append(events, e) ELSE Append(Tail(events), e)
Published(b, e) ==
    IF ~ b.known /\ e.event = "delta" /\ e.sequence # 0 THEN b
    ELSE [known |-> TRUE, events |-> Ring(b.events, e),
          snapshot |-> IF e.event = "delta" THEN e.sequence ELSE b.snapshot]
Contiguous(b, e) == b.known => e.sequence = b.snapshot + 1

\* _consume_direct_stream: StreamSequenceVerifier.accept_delta, then the broker.
AcceptDelta ==
    /\ reading.stage = "reading" /\ response = "open" /\ pipe # <<>> /\ Head(pipe).event = "delta"
    /\ pipe' = Tail(pipe)
    /\ IF reading.terminal \/ Head(pipe).sequence # reading.next \/ ~ Contiguous(broker, Head(pipe))
       THEN reading' = [reading EXCEPT !.stage = "failed"] /\ UNCHANGED broker
       ELSE /\ reading' = [reading EXCEPT !.next = @ + 1]
            /\ broker' = Published(broker, Head(pipe))
    /\ UNCHANGED <<worker, response, reader, evicted>>
AcceptTerminal ==
    /\ reading.stage = "reading" /\ response = "open" /\ pipe # <<>> /\ Head(pipe).event # "delta"
    /\ pipe' = Tail(pipe) /\ response' = "closed"
    /\ reading' = IF Head(pipe).event = "error" \/ reading.terminal THEN [reading EXCEPT !.stage = "failed"]
                  ELSE [reading EXCEPT !.terminal = TRUE]
    /\ UNCHANGED <<worker, broker, reader, evicted>>

\* The order ends; its last event only names the state.
OrderEnds ==
    /\ \/ reading.stage = "reading" /\ reading.terminal
       \/ reading.stage = "failed"
    /\ broker' = Published(broker, State(IF reading.stage = "failed" THEN "error" ELSE "complete"))
    /\ reading' = [reading EXCEPT !.stage = IF @ = "failed" THEN "failed_recorded" ELSE "succeeded"]
    /\ UNCHANGED <<worker, pipe, response, reader, evicted>>

\* Other tasks take the broker's places, or the entry's time is over (_prune).
Evict ==
    /\ broker.known /\ evicted < MaxEvicted /\ evicted' = evicted + 1
    /\ broker' = NoTask
    /\ UNCHANGED <<worker, pipe, response, reading, reader>>

----------------------------------------------------------------------------
(* The browser.                                                                  *)

GapNever(cursor) == FALSE      \* mutant: a reader behind the ring is not noticed
Gap(cursor) ==
    /\ broker.snapshot > cursor
    /\ \A e \in ToSet(broker.events) : e.event = "delta" => e.sequence # cursor + 1

\* replay: a copy of the ring, of which the deltas after a position are sent; to a
\* reader behind the ring first the cumulative text, and then no delta.
Replay ==
    /\ reader.stage = "watching" /\ reader.events = <<>> /\ broker.known
    /\ reader' = IF Gap(reader.cursor)
                 THEN [cursor |-> broker.snapshot, text |-> Text(broker.snapshot), stage |-> "watching",
                       from |-> broker.snapshot, events |-> broker.events]
                 ELSE [reader EXCEPT !.from = reader.cursor, !.events = broker.events]
    /\ UNCHANGED <<worker, pipe, response, reading, broker, evicted>>

\* One event of the copy is sent, or was before.
Yield ==
    /\ reader.events # <<>>
    /\ LET e == Head(reader.events)
       IN  reader' = CASE e.event = "delta" /\ e.sequence > reader.from ->
                            [reader EXCEPT !.cursor = e.sequence, !.text = Append(@, e.sequence), !.events = Tail(@)]
                       [] e.event \in {"complete", "error"} -> [reader EXCEPT !.stage = "ended", !.events = <<>>]
                       [] OTHER -> [reader EXCEPT !.events = Tail(@)]
    /\ UNCHANGED <<worker, pipe, response, reading, broker, evicted>>

\* The order's own status ends the stream when the ring does not.
StatusEnds ==
    /\ reader.stage = "watching" /\ reader.events = <<>>
    /\ reading.stage \in {"succeeded", "failed_recorded"}
    /\ reader' = [reader EXCEPT !.stage = "ended"]
    /\ UNCHANGED <<worker, pipe, response, reading, broker, evicted>>

\* A page is loaded anew, and starts without text.
Reload ==
    /\ reader' = Fresh
    /\ UNCHANGED <<worker, pipe, response, reading, broker, evicted>>

AnswerNext ==
    /\ UNCHANGED frameVars
    /\ \/ OnDelta \/ Terminal \/ WorkerFails \/ Disconnect \/ AcceptDelta \/ AcceptTerminal \/ OrderEnds
       \/ Evict \/ Replay \/ Yield \/ StatusEnds \/ Reload

----------------------------------------------------------------------------
(* What a browser shows is the beginning of the model's output, without a gap or  *)
(* a repetition, wherever it came in and whatever the ring had dropped.           *)
TextIsOutput == reader.text = Text(reader.cursor) /\ reader.cursor < worker.next

(* A full answer was verified delta by delta; losing the preview in the broker    *)
(* never fails the stream that is read: it fails only when the provider's worker  *)
(* failed or the connection ended.                                                *)
PreviewIsHarmless ==
    /\ reading.terminal => reading.next = Deltas
    /\ reading.stage = "failed" => response = "closed"

\* What readers of a streamed answer may rely on (stream_protocol.py, routes.py).
LlmStreamSound == TextIsOutput /\ PreviewIsHarmless

Init == FramesInit /\ AnswerInit
Next == FramesNext \/ AnswerNext
==============================================================================
