------------------------------ MODULE IceExchange ------------------------------
(* A request, a stream of events and the response over one ICE/UDP pair           *)
(* (llm_package/p2p.py, consumer_exchange and provider_exchange).  Both sides     *)
(* gather, signal through the registry and connect, each phase with its own       *)
(* deadline.  Then every message is repeated until its acknowledgement arrives;   *)
(* datagrams and acknowledgements are lost, and late ones arrive in any order.    *)
EXTENDS Naturals, Sequences

CONSTANT Events     \* how many stream events the provider emits before its response

VARIABLES consumer,   \* stage, message ids seen, and the events handed on in order
          provider,   \* stage and the message being sent
          inbox       \* inbox[e]: datagrams that may still arrive

exchangeVars == <<consumer, provider, inbox>>

Ends == {"consumer", "provider"}
Other(e) == IF e = "consumer" THEN "provider" ELSE "consumer"
Request == 0
Response == Events + 1
Messages == Request..Response
Data(m) == <<"data", m>>
Ack(m) == <<"ack", m>>

NextPhase(s) == CASE s = "gathering" -> "signaling" [] s = "signaling" -> "connecting" [] s = "connecting" -> "open"

Init ==
    /\ consumer = [stage |-> "gathering", seen |-> {}, got |-> <<>>]
    /\ provider = [stage |-> "gathering", message |-> 1]
    /\ inbox = [e \in Ends |-> {}]

InPhase(s) == s \in {"gathering", "signaling", "connecting"}
\* The offer must be out before the provider starts, its answer before the
\* consumer connects; _connection_phase bounds every phase.
ConsumerConnects ==
    /\ InPhase(consumer.stage)
    /\ consumer.stage = "signaling" => provider.stage \in {"connecting", "open"}
    /\ consumer.stage = "connecting" => provider.stage \in {"connecting", "open"}
    /\ consumer' = [consumer EXCEPT !.stage = IF NextPhase(@) = "open" THEN "requesting" ELSE NextPhase(@)]
    /\ UNCHANGED <<provider, inbox>>
ProviderConnects ==
    /\ InPhase(provider.stage)
    /\ provider.stage = "gathering" => consumer.stage = "signaling"
    /\ provider.stage = "connecting" => consumer.stage \in {"connecting", "requesting"}
    /\ provider' = [provider EXCEPT !.stage = NextPhase(@)]
    /\ UNCHANGED <<consumer, inbox>>

----------------------------------------------------------------------------
(* The consumer.                                                                 *)

Post(e, p) == inbox' = [inbox EXCEPT ![e] = @ \cup {p}]
TakeAndPost(e, p, q) == inbox' = [inbox EXCEPT ![e] = @ \ {p}, ![Other(e)] = @ \cup {q}]
Take(e, p) == inbox' = [inbox EXCEPT ![e] = @ \ {p}]

\* send_json of the request: sent until acknowledged, or until a message of the
\* provider shows that it arrived; that datagram is kept for receive_json.
SendRequest ==
    /\ consumer.stage = "requesting" /\ Data(Request) \notin inbox["provider"]
    /\ Post("provider", Data(Request)) /\ UNCHANGED <<consumer, provider>>
RequestAcknowledged ==
    /\ consumer.stage = "requesting"
    /\ \/ Ack(Request) \in inbox["consumer"] /\ Take("consumer", Ack(Request))
       \/ (\E m \in 1..Response : Data(m) \in inbox["consumer"]) /\ UNCHANGED inbox
    /\ consumer' = [consumer EXCEPT !.stage = "receiving"] /\ UNCHANGED provider

\* receive_json acknowledges whatever it assembles; a message seen before is not
\* handed on.
SeenNever(m) == FALSE     \* mutant: a repeated event is handed on again
Seen(m) == m \in consumer.seen
ConsumerReceives(m) ==
    /\ consumer.stage = "receiving" /\ Data(m) \in inbox["consumer"]
    /\ TakeAndPost("consumer", Data(m), Ack(m))
    /\ consumer' = IF Seen(m) THEN consumer
                   ELSE [stage |-> IF m = Response THEN "lingering" ELSE "receiving",
                         seen |-> consumer.seen \cup {m},
                         got |-> IF m = Response THEN consumer.got ELSE Append(consumer.got, m)]
    /\ UNCHANGED provider

\* After the response: for a short while its retransmissions are acknowledged.
Linger ==
    /\ consumer.stage = "lingering"
    /\ \/ Data(Response) \in inbox["consumer"] /\ TakeAndPost("consumer", Data(Response), Ack(Response))
          /\ UNCHANGED consumer
       \/ consumer' = [consumer EXCEPT !.stage = "done"] /\ UNCHANGED inbox
    /\ UNCHANGED provider

----------------------------------------------------------------------------
(* The provider: one request is read, and never a second one.                    *)

ProviderReceives ==
    /\ provider.stage = "open" /\ Data(Request) \in inbox["provider"]
    /\ TakeAndPost("provider", Data(Request), Ack(Request))
    /\ provider' = [provider EXCEPT !.stage = "working"] /\ UNCHANGED consumer

\* The handler emits its next event, or returns the response after the last one.
Emit ==
    /\ provider.stage = "working"
    /\ provider' = [provider EXCEPT !.stage = "sending"]
    /\ UNCHANGED <<consumer, inbox>>

\* send_json of event or response, which repeats the request's acknowledgement
\* when the request comes again.
SendMessage ==
    /\ provider.stage = "sending" /\ Data(provider.message) \notin inbox["consumer"]
    /\ Post("consumer", Data(provider.message)) /\ UNCHANGED <<consumer, provider>>
ReAckRequest ==
    /\ provider.stage = "sending" /\ Data(Request) \in inbox["provider"]
    /\ TakeAndPost("provider", Data(Request), Ack(Request)) /\ UNCHANGED <<consumer, provider>>
MessageAcknowledged ==
    /\ provider.stage = "sending" /\ Ack(provider.message) \in inbox["provider"]
    /\ Take("provider", Ack(provider.message))
    /\ provider' = IF provider.message = Response THEN [provider EXCEPT !.stage = "answered"]
                   ELSE [stage |-> "working", message |-> provider.message + 1]
    /\ UNCHANGED consumer

\* A datagram is lost, or read by a loop that does not want it.
Lose(e) == (\E p \in inbox[e] : Take(e, p)) /\ UNCHANGED <<consumer, provider>>

\* A deadline passes, or a handler raises: the connection is closed.
ConsumerFails ==
    /\ consumer.stage \notin {"lingering", "done", "failed"}
    /\ consumer' = [consumer EXCEPT !.stage = "failed"] /\ UNCHANGED <<provider, inbox>>
ProviderFails ==
    /\ provider.stage \notin {"answered", "failed"}
    /\ provider' = [provider EXCEPT !.stage = "failed"] /\ UNCHANGED <<consumer, inbox>>

Next ==
    \/ ConsumerConnects \/ ProviderConnects \/ SendRequest \/ RequestAcknowledged \/ Linger
    \/ ProviderReceives \/ Emit \/ SendMessage \/ ReAckRequest \/ MessageAcknowledged
    \/ ConsumerFails \/ ProviderFails
    \/ \E e \in Ends : Lose(e)
    \/ \E m \in 1..Response : ConsumerReceives(m)

Spec == Init /\ [][Next]_exchangeVars

----------------------------------------------------------------------------
(* Events reach the consumer in order, once each and without a gap; a consumer    *)
(* that returns a response got every event before it; a provider that records     *)
(* success was read by the consumer, so work is never settled for an answer that  *)
(* did not arrive.                                                                *)
ExchangeSound ==
    /\ consumer.got = [i \in 1..Len(consumer.got) |-> i]
    /\ consumer.stage \in {"lingering", "done"} => Len(consumer.got) = Events
    /\ provider.stage = "answered" => consumer.stage \in {"lingering", "done"}
==============================================================================
