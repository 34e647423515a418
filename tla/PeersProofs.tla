-------------------------------- MODULE PeersProofs --------------------------------
(* What peers exchange, for every value of the constants: routes do not flap,    *)
(* streams arrive whole and in order, the judge's and the witness's work for the *)
(* Exchange stays bounded, an accepted order stays listed and what is credited   *)
(* was checked, and what a transfer or a relay calls stored is whole.  The       *)
(* components share no state, so each has an invariant of its own, which holds   *)
(* while the behaviour is of that component.                                     *)
EXTENDS MCPeers, Integers, Sequences, FiniteSetTheorems, TLAPS

----------------------------------------------------------------------------
(* RouteManager never flaps, whatever its holds and probe counts are.  The        *)
(* manager keeps the time of its last change and of the start of its recovery;    *)
(* the theorem is about the updates themselves.  The invariant ties the two: what *)
(* the manager remembers of a run of good or bad updates is never more than what  *)
(* was reported.                                                                  *)

States == {"direct", "degraded", "peer_transit", "recovering"}

Routes == [state : States, changed : Nat, degraded : Nat, recovery : Nat, probes : Nat]

RouteTypes ==
    /\ route \in Routes
    /\ clock \in Nat /\ clock <= MaxTime
    /\ healthy \in [since : Nat, probes : Nat]
    /\ troubled \in Nat
    /\ switched \in [at : Nat, hard : BOOLEAN]

\* A run of good updates did not begin in the future, nor did a run of bad ones.
RunsArePast == healthy.since = Never \/ healthy.since <= clock

\* On the direct path the manager has counted no more trouble than there was.
TroubleIsCounted ==
    /\ route.state = "direct" => troubled = Never
    /\ route.state = "degraded" => troubled <= route.degraded /\ route.degraded <= clock

\* On the transit path it has been there at least as long as it believes.
StayIsCounted ==
    /\ route.state = "peer_transit" => switched.at <= route.changed /\ route.changed <= clock
    /\ route.state = "recovering" =>
           switched.at + TransitMinHold <= route.recovery /\ route.recovery <= clock

\* A recovery lasts no longer, and has no more probes, than the run of good updates.
RecoveryIsCounted ==
    route.state = "recovering" =>
        /\ healthy.since <= route.recovery
        /\ healthy.probes >= route.probes \/ healthy.probes >= RecoveryProbes

RouteInv == RouteTypes /\ RunsArePast /\ TroubleIsCounted /\ StayIsCounted /\ RecoveryIsCounted

-----------------------------------------------------------------------------
(* The manager starts on the direct path with nothing counted (RouteManager.__init__). *)
LEMMA RouteStarts == Init => RouteInv
BY HoldsAssumption DEF Init, RouteInv, RouteTypes, RunsArePast, TroubleIsCounted, StayIsCounted,
       RecoveryIsCounted, Routes, States, NoRun, Never

(* What one update makes of the manager, by the state it was in (RouteManager.update). *)
LEMMA MovesByState ==
    ASSUME RouteTypes, NEW m \in Metrics
    PROVE  /\ route.state = "direct" => Moved(route, m) = FromDirect(route, m)
           /\ route.state = "degraded" => Moved(route, m) = FromDegraded(route, m)
           /\ route.state = "peer_transit" => Moved(route, m) = FromTransit(route, m)
           /\ route.state = "recovering" => Moved(route, m) = FromRecovering(route, m)
BY DEF Moved

(* A change of state sets the state and the time of the change (RouteManager._change). *)
LEMMA ChangeSets ==
    ASSUME RouteTypes, NEW s \in States
    PROVE  /\ Change(route, s) \in Routes
           /\ Change(route, s).state = s /\ Change(route, s).changed = clock
           /\ Change(route, s).degraded = route.degraded /\ Change(route, s).probes = route.probes
BY DEF Change, RouteTypes, Routes

(* From direct: nothing, or trouble that starts now, with a hard failure at once *)
(* the transit path (RouteManager.update).                                       *)
LEMMA DirectFields ==
    ASSUME RouteTypes, NEW m \in Metrics, NEW r, r = FromDirect(route, m)
    PROVE  /\ r \in Routes
           /\ ~Degraded(m) => r = route
           /\ Degraded(m) => \/ r.state = "degraded" /\ r.degraded = clock
                             \/ r.state = "peer_transit" /\ r.changed = clock /\ m.hard
<1> DEFINE bad == [Change(route, "degraded") EXCEPT !.degraded = clock]
<1>1. bad \in Routes /\ bad.state = "degraded" /\ bad.degraded = clock
  BY ChangeSets DEF RouteTypes, Routes, States
<1>2. LET c == [bad EXCEPT !.state = "peer_transit", !.changed = clock]
      IN  c \in Routes /\ c.state = "peer_transit" /\ c.changed = clock
  BY <1>1 DEF RouteTypes, Routes, States
<1>3. r = IF ~Degraded(m) THEN route
          ELSE IF TransitBetter(m) /\ m.hard THEN [bad EXCEPT !.state = "peer_transit", !.changed = clock] ELSE bad
  BY DEF FromDirect, Change
<1> HIDE DEF bad
<1> QED BY <1>1, <1>2, <1>3 DEF RouteTypes

(* From degraded: direct after a good update; the transit path for a hard        *)
(* failure or after the hold (RouteManager.update).                              *)
LEMMA DegradedFields ==
    ASSUME RouteTypes, NEW m \in Metrics, NEW r, r = FromDegraded(route, m), Never \in Nat
    PROVE  /\ r \in Routes
           /\ ~Degraded(m) => r.state = "direct"
           /\ Degraded(m) => \/ r = route
                             \/ /\ r.state = "peer_transit" /\ r.changed = clock
                                /\ m.hard \/ clock - route.degraded >= DegradedHold
<1>1. CASE ~Degraded(m)
  BY <1>1, ChangeSets DEF FromDegraded, RouteTypes, Routes, States, Never
<1>2. CASE Degraded(m)
  BY <1>2, ChangeSets DEF FromDegraded, RouteTypes, Routes, States
<1> QED BY <1>1, <1>2

(* From the transit path: a recovery starts with the first good update after the *)
(* minimum stay (RouteManager.update).                                           *)
LEMMA TransitFields ==
    ASSUME RouteTypes, NEW m \in Metrics, NEW r, r = FromTransit(route, m)
    PROVE  /\ r \in Routes
           /\ \/ r = route
              \/ /\ r.state = "recovering" /\ r.recovery = clock /\ r.probes = 1
                 /\ ~Degraded(m) /\ clock - route.changed >= TransitMinHold
BY ChangeSets DEF FromTransit, RouteTypes, Routes, States

(* From a recovery: back to the transit path after a bad update, to direct when  *)
(* it lasted, or one more probe is counted (RouteManager.update).                *)
LEMMA RecoveringFields ==
    ASSUME RouteTypes, NEW m \in Metrics, NEW r, r = FromRecovering(route, m), Never \in Nat
    PROVE  /\ r \in Routes
           /\ Degraded(m) => r.state = "peer_transit" /\ r.changed = clock
           /\ ~Degraded(m) =>
                \/ /\ r.state = "direct"
                   /\ clock - route.recovery >= RecoveryHold /\ route.probes + 1 >= RecoveryProbes
                \/ /\ r.state = route.state /\ r.recovery = route.recovery
                   /\ r.probes = IF route.probes < RecoveryProbes THEN route.probes + 1 ELSE route.probes
<1>1. CASE Degraded(m)
  BY <1>1, ChangeSets DEF FromRecovering, RouteTypes, Routes, States
<1>2. CASE ~Degraded(m) /\ clock - route.recovery >= RecoveryHold /\ route.probes + 1 >= RecoveryProbes
  BY <1>2, ChangeSets DEF FromRecovering, RouteTypes, Routes, States
<1>3. CASE ~Degraded(m) /\ ~(clock - route.recovery >= RecoveryHold /\ route.probes + 1 >= RecoveryProbes)
  <2>1. r = [route EXCEPT !.probes = IF @ < RecoveryProbes THEN @ + 1 ELSE @]
    BY <1>3 DEF FromRecovering
  <2> QED BY <1>3, <2>1 DEF RouteTypes, Routes
<1> QED BY <1>1, <1>2, <1>3

(* The invariant survives every report, and a change of the path it causes is    *)
(* earned (RouteManager.update).                                                 *)
LEMMA UpdateCounts ==
    ASSUME RouteInv, NEW m \in Metrics, Update(m)
    PROVE  RouteInv' /\ BackIsEarned /\ AwayIsEarned
<1> USE HoldsAssumption DEF RouteInv, RouteTypes, Routes, RunsArePast, TroubleIsCounted, StayIsCounted,
            RecoveryIsCounted, States, Never, PathMode, BackIsEarned, AwayIsEarned
<1>1. m.hard \in BOOLEAN
  BY DEF Metrics
<1>2. route' = Moved(route, m) /\ clock' = clock
  BY DEF Update
<1>3. Degraded(m) => /\ healthy' = NoRun
                     /\ troubled' = IF troubled = Never THEN clock ELSE troubled
  BY DEF Update
<1>4. ~Degraded(m) => /\ healthy'.since = IF healthy.since = Never THEN clock ELSE healthy.since
                      /\ healthy'.probes = IF healthy.probes < RecoveryProbes
                                           THEN healthy.probes + 1 ELSE healthy.probes
                      /\ troubled' = Never
  BY DEF Update
<1>5. healthy' \in [since : Nat, probes : Nat] /\ troubled' \in Nat /\ RunsArePast'
  BY DEF Update, NoRun
<1>6. IF PathMode(route.state) = "direct" /\ PathMode(route'.state) = "peer_transit"
      THEN switched'.at = clock /\ (m.hard => switched'.hard) /\ switched' \in [at : Nat, hard : BOOLEAN]
      ELSE switched' = switched
  BY <1>1, <1>2 DEF Update
<1>7. CASE route.state = "direct"
  <2>1. route' = FromDirect(route, m)
    BY <1>2, <1>7, MovesByState
  <2>2. /\ route' \in Routes
        /\ ~Degraded(m) => route' = route
        /\ Degraded(m) => \/ route'.state = "degraded" /\ route'.degraded = clock
                          \/ route'.state = "peer_transit" /\ route'.changed = clock /\ m.hard
    BY <2>1, DirectFields
  <2>3. CASE ~Degraded(m)
    BY <1>2, <1>4, <1>5, <1>6, <1>7, <2>2, <2>3
  <2>4. CASE Degraded(m) /\ route'.state = "degraded" /\ route'.degraded = clock
    BY <1>2, <1>3, <1>5, <1>6, <1>7, <2>2, <2>4
  <2>5. CASE route'.state = "peer_transit" /\ route'.changed = clock /\ m.hard
    <3>1. switched'.at = clock /\ switched'.hard /\ switched' \in [at : Nat, hard : BOOLEAN]
      BY <1>6, <1>7, <2>5
    <3>2. RouteInv'
      BY <1>2, <1>5, <2>2, <2>5, <3>1
    <3> QED BY <1>7, <3>1, <3>2
  <2> QED BY <2>2, <2>3, <2>4, <2>5
<1>8. CASE route.state = "degraded"
  <2>1. route' = FromDegraded(route, m)
    BY <1>2, <1>8, MovesByState
  <2>2. /\ route' \in Routes
        /\ ~Degraded(m) => route'.state = "direct"
        /\ Degraded(m) => \/ route' = route
                          \/ /\ route'.state = "peer_transit" /\ route'.changed = clock
                             /\ m.hard \/ clock - route.degraded >= DegradedHold
    BY <2>1, DegradedFields
  <2>3. CASE ~Degraded(m)
    BY <1>2, <1>4, <1>5, <1>6, <1>8, <2>2, <2>3
  <2>4. CASE Degraded(m) /\ route' = route
    <3>1. switched' = switched
      BY <1>6, <1>8, <2>4
    <3>2. troubled' = troubled
      BY <1>3, <1>8, <2>4
    <3> QED BY <1>2, <1>5, <1>8, <2>2, <2>4, <3>1, <3>2
  <2>5. CASE /\ Degraded(m) /\ route'.state = "peer_transit" /\ route'.changed = clock
             /\ m.hard \/ clock - route.degraded >= DegradedHold
    <3>1. troubled' = troubled
      BY <1>3, <1>8, <2>5
    <3> QED BY <1>2, <1>5, <1>6, <1>8, <2>2, <2>5, <3>1
  <2> QED BY <2>2, <2>3, <2>4, <2>5
<1>9. CASE route.state = "peer_transit"
  <2>1. route' = FromTransit(route, m)
    BY <1>2, <1>9, MovesByState
  <2>2. route' \in Routes
    BY <2>1, TransitFields
  <2>3. CASE route' = route
    BY <1>2, <1>3, <1>4, <1>5, <1>6, <1>9, <2>3 DEF NoRun
  <2>4. CASE /\ route'.state = "recovering" /\ route'.recovery = clock /\ route'.probes = 1
             /\ ~Degraded(m) /\ clock - route.changed >= TransitMinHold
    <3>1. switched' = switched /\ StayIsCounted'
      BY <1>2, <1>6, <1>9, <2>4
    <3>2. RecoveryIsCounted'
      BY <1>2, <1>4, <2>4
    <3> QED BY <1>2, <1>5, <1>9, <2>2, <2>4, <3>1, <3>2
  <2> QED BY <2>1, <2>3, <2>4, TransitFields
<1>10. CASE route.state = "recovering"
  <2>1. route' = FromRecovering(route, m)
    BY <1>2, <1>10, MovesByState
  <2>2. /\ route' \in Routes /\ switched' = switched
        /\ Degraded(m) => route'.state = "peer_transit" /\ route'.changed = clock
        /\ ~Degraded(m) =>
             \/ /\ route'.state = "direct"
                /\ clock - route.recovery >= RecoveryHold /\ route.probes + 1 >= RecoveryProbes
             \/ /\ route'.state = "recovering" /\ route'.recovery = route.recovery
                /\ route'.probes = IF route.probes < RecoveryProbes THEN route.probes + 1 ELSE route.probes
    BY <1>6, <1>10, <2>1, RecoveringFields
  <2>3. CASE Degraded(m)
    BY <1>2, <1>5, <1>10, <2>2, <2>3
  <2>4. CASE ~Degraded(m) /\ route'.state = "direct"
    <3>1. healthy'.since <= route.recovery /\ healthy'.probes >= RecoveryProbes
      BY <1>4, <1>10, <2>2, <2>4
    <3> QED BY <1>2, <1>4, <1>5, <1>10, <2>2, <2>4, <3>1
  <2>5. CASE ~Degraded(m) /\ route'.state = "recovering"
    <3>1. RecoveryIsCounted'
      BY <1>2, <1>4, <1>10, <2>2, <2>5
    <3> QED BY <1>2, <1>5, <1>10, <2>2, <2>5, <3>1
  <2> QED BY <2>2, <2>3, <2>4, <2>5
<1> QED BY <1>7, <1>8, <1>9, <1>10

(* Time passing keeps the invariant: what is past stays past.                    *)
LEMMA TickCounts == ASSUME RouteInv, Tick PROVE RouteInv' /\ BackIsEarned /\ AwayIsEarned
BY HoldsAssumption DEF Tick, RouteInv, RouteTypes, RunsArePast, TroubleIsCounted, StayIsCounted,
       RecoveryIsCounted, Routes, States, Never, PathMode, BackIsEarned, AwayIsEarned

(* The path does not flap, for every choice of the holds and of the number of    *)
(* probes: it goes back to direct only after the recovery hold of good updates,  *)
(* at least recovery_probe_count of them, and the minimum stay; it leaves direct *)
(* only for a hard failure or after the degraded hold (RouteManager.update).     *)
THEOREM RouteDoesNotFlap == Spec => NoFlapping
<1>1. Init => RouteInv
  BY RouteStarts
<1>2. RouteInv /\ [Next]_routeVars => RouteInv' /\ [BackIsEarned /\ AwayIsEarned]_routeVars
  <2> SUFFICES ASSUME RouteInv, [Next]_routeVars
               PROVE  RouteInv' /\ [BackIsEarned /\ AwayIsEarned]_routeVars
    OBVIOUS
  <2>1. CASE Tick
    BY <2>1, TickCounts
  <2>2. CASE \E m \in Metrics : Update(m)
    <3> PICK m \in Metrics : Update(m)
      BY <2>2
    <3> QED BY UpdateCounts
  <2>3. CASE UNCHANGED routeVars
    BY <2>3 DEF routeVars, RouteInv, RouteTypes, RunsArePast, TroubleIsCounted, StayIsCounted,
                RecoveryIsCounted, Never
  <2> QED BY <2>1, <2>2, <2>3 DEF Next
<1> QED BY <1>1, <1>2, PTL DEF Spec, NoFlapping

(* A behaviour of the composition is, seen by the route manager, one of its own.  *)
LEMMA PeersKeepRoutes == MCSpec => Spec
<1>1. MCInit => Init
  BY DEF MCInit, routeOff
<1>2. [MCNext]_allVars => [Next]_routeVars
  BY DEF MCNext, allVars, routeState, routeVars, RouteStep, FriendsStep, CardsStep, ListStep, FeedStep,
         TransferStep, FramesStep, StreamStep, IceStep, OrdersStep, LettersStep, RelayStep, ContentStep,
         DirectoryStep, WorkStep
<1> QED BY <1>1, <1>2, PTL DEF MCSpec, Spec

(* The same in the composition the run checks.                                    *)
THEOREM RoutesOfPeersDoNotFlap == MCSpec => NoFlapping
BY RouteDoesNotFlap, PeersKeepRoutes

----------------------------------------------------------------------------
(* The same for any number of events.  Each side knows only what it sent or read: *)
(* the consumer the ids it has seen, the provider the message it repeats.  The    *)
(* invariant ties the two through what is on the way: the provider is at most one *)
(* message ahead of what the consumer handed on, a datagram is never of a later   *)
(* message, and an acknowledgement never of one that was not read.                *)

\* The consumer has the response.
Answered == consumer.stage \in {"lingering", "done"}

\* How many messages of the provider the consumer has read.
Read == IF Answered THEN Ice!Response ELSE Len(consumer.got)

\* The provider has begun to send its message, and may have been cut off since.
Sent == provider.stage \in {"sending", "answered", "failed"}

ConsumerStages == {"gathering", "signaling", "connecting", "requesting", "receiving",
                   "lingering", "done", "failed"}
ProviderStages == {"gathering", "signaling", "connecting", "open", "working", "sending",
                   "answered", "failed"}
ExchangeTypes ==
    /\ consumer \in [stage : ConsumerStages, seen : SUBSET (1..Ice!Response), got : Seq(Nat)]
    /\ provider \in [stage : ProviderStages, message : 1..Ice!Response]
    /\ iceInbox \in [Ice!Ends -> SUBSET ({"data", "ack"} \X Ice!Messages)]

\* What was handed on is 1, 2, ... and the ids seen are those of what was read.
ReadInOrder ==
    /\ Len(consumer.got) <= NumEvents
    /\ \A i \in 1..Len(consumer.got) : consumer.got[i] = i
    /\ Answered => Len(consumer.got) = NumEvents
    /\ consumer.seen = 1..Read

\* The provider sends the message after the last one read, or that one still.
OneAhead ==
    /\ provider.message - 1 <= Read /\ Read <= provider.message
    /\ ~ Sent => Read < provider.message
    /\ provider.stage = "answered" => Read = Ice!Response

\* What is on the way is no later than what was sent, and no more than was read.
OnTheWay ==
    /\ \A m \in Ice!Messages : Ice!Data(m) \in iceInbox["consumer"] =>
          m >= 1 /\ m <= provider.message /\ (~ Sent => m < provider.message)
    /\ \A m \in Ice!Messages : Ice!Ack(m) \in iceInbox["provider"] => m <= Read

ExchangeInv == ExchangeTypes /\ ReadInOrder /\ OneAhead /\ OnTheWay

(* Nothing was sent or read before the two sides are connected (new_connection).  *)
LEMMA ExchangeStarts == ASSUME NumEvents \in Nat, Ice!Init PROVE ExchangeInv
<1>1. 1 \in 1..Ice!Response /\ Ice!Response = NumEvents + 1
  BY DEF Ice!Response
<1>2. ExchangeTypes
  BY <1>1 DEF Ice!Init, ExchangeTypes, ConsumerStages, ProviderStages, Ice!Ends
<1>3. ReadInOrder /\ OneAhead /\ OnTheWay
  BY <1>1 DEF Ice!Init, ReadInOrder, OneAhead, OnTheWay, Read, Answered, Sent, Ice!Ends
<1> QED BY <1>2, <1>3 DEF ExchangeInv

(* A step that only moves a side from one phase to the next, or gives up: what    *)
(* was read and what is on the way stay as they are (_connection_phase).          *)
LEMMA PhasesKeep ==
  ASSUME NumEvents \in Nat, ExchangeInv,
         Ice!ConsumerConnects \/ Ice!ProviderConnects \/ Ice!ConsumerFails \/ Ice!ProviderFails \/ Ice!Emit
  PROVE  ExchangeInv'
<1> USE DEF ExchangeInv
<1>1. Ice!Response \in Nat /\ Ice!Response = NumEvents + 1
  BY DEF Ice!Response
<1>2. CASE Ice!ConsumerConnects \/ Ice!ConsumerFails
  <2>1. PICK s \in ConsumerStages \ {"lingering", "done"} : consumer' = [consumer EXCEPT !.stage = s]
    BY <1>2 DEF Ice!ConsumerConnects, Ice!ConsumerFails, Ice!InPhase, Ice!NextPhase, ConsumerStages
  <2>2. ~ Answered /\ UNCHANGED <<provider, iceInbox>>
    BY <1>2 DEF Ice!ConsumerConnects, Ice!ConsumerFails, Ice!InPhase, Answered
  <2>3. /\ consumer'.stage = s /\ consumer'.got = consumer.got /\ consumer'.seen = consumer.seen
        /\ ExchangeTypes'
    BY <2>1, <2>2 DEF ExchangeTypes
  <2>4. ~ Answered' /\ Read' = Read
    BY <2>2, <2>3 DEF Answered, Read
  <2> QED BY <2>2, <2>3, <2>4 DEF ReadInOrder, OneAhead, OnTheWay, Sent
<1>3. CASE Ice!ProviderConnects \/ Ice!ProviderFails \/ Ice!Emit
  <2>1. PICK s \in ProviderStages \ {"answered"} :
           provider' = [provider EXCEPT !.stage = s] /\ (Sent => s \in {"sending", "failed"})
    BY <1>3 DEF Ice!ProviderConnects, Ice!ProviderFails, Ice!Emit, Ice!InPhase, Ice!NextPhase, ProviderStages, Sent
  <2>2. UNCHANGED <<consumer, iceInbox>>
    BY <1>3 DEF Ice!ProviderConnects, Ice!ProviderFails, Ice!Emit
  <2>3. provider'.stage = s /\ provider'.message = provider.message /\ ExchangeTypes'
    BY <2>1, <2>2 DEF ExchangeTypes
  <2>4. Read' = Read /\ (Sent => Sent') /\ ReadInOrder'
    BY <2>1, <2>2, <2>3 DEF Answered, Read, Sent, ReadInOrder
  <2> QED BY <2>1, <2>2, <2>3, <2>4 DEF OneAhead, OnTheWay
<1> QED BY <1>2, <1>3

(* A step that leaves both sides as they are and posts or drops datagrams.        *)
LEMMA LegKeeps ==
  ASSUME NumEvents \in Nat, ExchangeInv,
         Ice!SendRequest \/ Ice!SendMessage \/ Ice!ReAckRequest \/ \E e \in Ice!Ends : Ice!Lose(e)
  PROVE  ExchangeInv'
<1> USE DEF ExchangeInv
<1>1. Ice!Response \in Nat /\ Ice!Response = NumEvents + 1 /\ provider.message \in 1..Ice!Response
  BY DEF Ice!Response, ExchangeTypes
<1>2. UNCHANGED <<consumer, provider>>
  BY DEF Ice!SendRequest, Ice!SendMessage, Ice!ReAckRequest, Ice!Lose
<1>3. /\ Read' = Read /\ (Sent' <=> Sent) /\ ReadInOrder' /\ OneAhead'
  BY <1>2 DEF Read, Answered, Sent, ReadInOrder, OneAhead
<1>4. iceInbox \in [Ice!Ends -> SUBSET ({"data", "ack"} \X Ice!Messages)] /\ Ice!Ends = {"consumer", "provider"}
  BY DEF ExchangeTypes, Ice!Ends
<1>5. /\ iceInbox' \in [Ice!Ends -> SUBSET ({"data", "ack"} \X Ice!Messages)]
      /\ \A m \in Ice!Messages : Ice!Data(m) \in iceInbox'["consumer"] =>
            Ice!Data(m) \in iceInbox["consumer"] \/ (m = provider.message /\ Sent)
      /\ \A m \in Ice!Messages : Ice!Ack(m) \in iceInbox'["provider"] => Ice!Ack(m) \in iceInbox["provider"]
  <2>1. CASE Ice!SendRequest
    BY <2>1, <1>1, <1>4 DEF Ice!SendRequest, Ice!Post, Ice!Data, Ice!Ack, Ice!Messages, Ice!Request
  <2>2. CASE Ice!SendMessage
    BY <2>2, <1>1, <1>4 DEF Ice!SendMessage, Ice!Post, Ice!Data, Ice!Ack, Ice!Messages, Ice!Request, Sent
  <2>3. CASE Ice!ReAckRequest
    BY <2>3, <1>1, <1>4 DEF Ice!ReAckRequest, Ice!TakeAndPost, Ice!Other, Ice!Data, Ice!Ack, Ice!Messages, Ice!Request
  <2>4. CASE \E e \in Ice!Ends : Ice!Lose(e)
    BY <2>4, <1>1, <1>4 DEF Ice!Lose, Ice!Take, Ice!Data, Ice!Ack
  <2> QED BY <2>1, <2>2, <2>3, <2>4
<1>6. OnTheWay'
  BY <1>1, <1>2, <1>3, <1>5 DEF OnTheWay
<1>7. ExchangeTypes'
  BY <1>2, <1>5 DEF ExchangeTypes
<1> QED BY <1>3, <1>6, <1>7

(* What a step on the inbox of one end does to the datagrams of both.             *)
LEMMA Taken ==
  ASSUME NumEvents \in Nat, ExchangeTypes, NEW e \in Ice!Ends, NEW p, NEW m \in Ice!Messages,
         Ice!Take(e, p) \/ Ice!TakeAndPost(e, p, Ice!Ack(m)) \/ UNCHANGED iceInbox
  PROVE  /\ iceInbox' \in [Ice!Ends -> SUBSET ({"data", "ack"} \X Ice!Messages)]
         /\ \A n \in Ice!Messages : Ice!Data(n) \in iceInbox'["consumer"] => Ice!Data(n) \in iceInbox["consumer"]
         /\ \A n \in Ice!Messages : Ice!Ack(n) \in iceInbox'["provider"] =>
               Ice!Ack(n) \in iceInbox["provider"] \/ (n = m /\ e = "consumer" /\ Ice!TakeAndPost(e, p, Ice!Ack(m)))
<1>1. iceInbox \in [Ice!Ends -> SUBSET ({"data", "ack"} \X Ice!Messages)] /\ Ice!Ends = {"consumer", "provider"}
  BY DEF ExchangeTypes, Ice!Ends
<1>2. CASE Ice!Take(e, p)
  BY <1>1, <1>2 DEF Ice!Take, Ice!Data, Ice!Ack
<1>3. CASE Ice!TakeAndPost(e, p, Ice!Ack(m))
  <2>1. CASE e = "consumer"
    BY <1>1, <1>3, <2>1 DEF Ice!TakeAndPost, Ice!Other, Ice!Data, Ice!Ack
  <2>2. CASE e = "provider"
    BY <1>1, <1>3, <2>2 DEF Ice!TakeAndPost, Ice!Other, Ice!Data, Ice!Ack
  <2> QED BY <1>1, <2>1, <2>2
<1> QED BY <1>1, <1>2, <1>3

(* The request reached the provider: nothing was read by the consumer.            *)
LEMMA RequestKeeps ==
  ASSUME NumEvents \in Nat, ExchangeInv, Ice!RequestAcknowledged \/ Ice!ProviderReceives
  PROVE  ExchangeInv'
<1> USE DEF ExchangeInv
<1>1. /\ Ice!Response \in Nat /\ Ice!Response = NumEvents + 1 /\ provider.message \in 1..Ice!Response
      /\ Ice!Request \in Ice!Messages /\ Ice!Request = 0
  BY DEF Ice!Response, ExchangeTypes, Ice!Messages, Ice!Request
<1>2. /\ iceInbox' \in [Ice!Ends -> SUBSET ({"data", "ack"} \X Ice!Messages)]
      /\ \A n \in Ice!Messages : Ice!Data(n) \in iceInbox'["consumer"] => Ice!Data(n) \in iceInbox["consumer"]
      /\ \A n \in Ice!Messages : Ice!Ack(n) \in iceInbox'["provider"] => Ice!Ack(n) \in iceInbox["provider"]
  <2>1. CASE Ice!RequestAcknowledged
    <3>1. Ice!Take("consumer", Ice!Ack(Ice!Request)) \/ UNCHANGED iceInbox
      BY <2>1 DEF Ice!RequestAcknowledged
    <3>2. CASE Ice!Take("consumer", Ice!Ack(Ice!Request))
      BY <3>2, <1>1 DEF ExchangeTypes, Ice!Take, Ice!Ends, Ice!Data, Ice!Ack
    <3> QED BY <3>1, <3>2 DEF ExchangeTypes
  <2>2. CASE Ice!ProviderReceives
    BY <2>2, <1>1, Taken DEF Ice!ProviderReceives, Ice!Ends
  <2> QED BY <2>1, <2>2
<1>3. CASE Ice!RequestAcknowledged
  <2>1. /\ consumer' = [consumer EXCEPT !.stage = "receiving"] /\ provider' = provider
        /\ consumer.stage = "requesting"
    BY <1>3 DEF Ice!RequestAcknowledged
  <2>2. /\ consumer'.stage = "receiving" /\ consumer'.got = consumer.got
        /\ consumer'.seen = consumer.seen /\ ExchangeTypes'
    BY <1>2, <2>1 DEF ExchangeTypes, ConsumerStages
  <2>3. ~ Answered /\ ~ Answered' /\ Read' = Read
    BY <2>1, <2>2 DEF Answered, Read
  <2> QED BY <1>2, <2>1, <2>2, <2>3 DEF ReadInOrder, OneAhead, OnTheWay, Sent
<1>4. CASE Ice!ProviderReceives
  <2>1. /\ provider' = [provider EXCEPT !.stage = "working"] /\ consumer' = consumer
        /\ provider.stage = "open"
    BY <1>4 DEF Ice!ProviderReceives
  <2>2. provider'.stage = "working" /\ provider'.message = provider.message /\ ExchangeTypes'
    BY <1>2, <2>1 DEF ExchangeTypes, ProviderStages
  <2>3. Read' = Read /\ ReadInOrder' /\ ~ Sent /\ ~ Sent'
    BY <2>1, <2>2 DEF Answered, Read, ReadInOrder, Sent
  <2> QED BY <1>2, <2>2, <2>3 DEF OneAhead, OnTheWay
<1> QED BY <1>3, <1>4

(* receive_json: a message that was not seen is the one after the last one read,  *)
(* and is handed on in its place; one that was seen is acknowledged again.        *)
LEMMA ReceiptKeeps ==
  ASSUME NumEvents \in Nat, ExchangeInv, NEW m \in 1..Ice!Response, Ice!ConsumerReceives(m)
  PROVE  ExchangeInv'
<1> USE DEF ExchangeInv
<1>1. /\ Ice!Response \in Nat /\ Ice!Response = NumEvents + 1 /\ provider.message \in 1..Ice!Response
      /\ m \in Ice!Messages /\ m \in Nat /\ Len(consumer.got) \in Nat
  BY DEF Ice!Response, ExchangeTypes, Ice!Messages, Ice!Request
<1>2. /\ consumer.stage = "receiving" /\ ~ Answered /\ Read = Len(consumer.got)
      /\ provider' = provider /\ m <= provider.message /\ (~ Sent => m < provider.message)
  BY <1>1 DEF Ice!ConsumerReceives, Answered, Read, OnTheWay
<1>3. /\ iceInbox' \in [Ice!Ends -> SUBSET ({"data", "ack"} \X Ice!Messages)]
      /\ \A n \in Ice!Messages : Ice!Data(n) \in iceInbox'["consumer"] => Ice!Data(n) \in iceInbox["consumer"]
      /\ \A n \in Ice!Messages : Ice!Ack(n) \in iceInbox'["provider"] => Ice!Ack(n) \in iceInbox["provider"] \/ n = m
  BY <1>1, Taken DEF Ice!ConsumerReceives, Ice!Ends
<1>4. CASE Ice!Seen(m)
  <2>1. consumer' = consumer /\ m <= Read
    BY <1>1, <1>2, <1>4 DEF Ice!ConsumerReceives, Ice!Seen, ReadInOrder
  <2>2. Read' = Read /\ ReadInOrder' /\ ExchangeTypes' /\ (Sent' <=> Sent)
    BY <1>2, <1>3, <2>1 DEF Read, Answered, ReadInOrder, ExchangeTypes, Sent
  <2> QED BY <1>1, <1>2, <1>3, <2>1, <2>2 DEF OneAhead, OnTheWay
<1>5. CASE ~ Ice!Seen(m)
  <2>1. m = Len(consumer.got) + 1 /\ m = provider.message /\ Sent
    BY <1>1, <1>2, <1>5 DEF Ice!Seen, ReadInOrder, OneAhead
  <2>2. consumer.seen \cup {m} = 1..m
    BY <1>1, <1>2, <2>1 DEF ReadInOrder
  <2>3. CASE m = Ice!Response
    <3>1. /\ consumer'.stage = "lingering" /\ consumer'.got = consumer.got
          /\ consumer'.seen = 1..m /\ ExchangeTypes'
      BY <1>2, <1>3, <1>5, <2>2, <2>3 DEF Ice!ConsumerReceives, ExchangeTypes, ConsumerStages
    <3>2. Read' = m /\ Answered'
      BY <2>3, <3>1 DEF Read, Answered
    <3>3. ReadInOrder'
      BY <1>1, <2>1, <2>3, <3>1, <3>2 DEF ReadInOrder
    <3> QED BY <1>1, <1>2, <1>3, <2>1, <2>3, <3>1, <3>2, <3>3 DEF OneAhead, OnTheWay, Sent
  <2>4. CASE m # Ice!Response
    <3>1. /\ consumer'.stage = "receiving" /\ consumer'.got = Append(consumer.got, m)
          /\ consumer'.seen = 1..m
      BY <1>2, <1>5, <2>2, <2>4 DEF Ice!ConsumerReceives
    <3>2. consumer.got \in Seq(Nat)
      BY DEF ExchangeTypes
    <3>3. /\ Append(consumer.got, m) \in Seq(Nat) /\ Len(Append(consumer.got, m)) = m
          /\ \A i \in 1..m : Append(consumer.got, m)[i] = i
      BY <1>1, <2>1, <3>2 DEF ReadInOrder
    <3>4. ExchangeTypes'
      BY <1>2, <1>3, <1>5, <2>2, <2>4, <3>3 DEF Ice!ConsumerReceives, ExchangeTypes, ConsumerStages
    <3>5. Read' = m /\ ~ Answered'
      BY <3>1, <3>3 DEF Read, Answered
    <3>6. ReadInOrder'
      BY <1>1, <2>4, <3>1, <3>3, <3>5 DEF ReadInOrder
    <3> QED BY <1>1, <1>2, <1>3, <2>1, <3>4, <3>5, <3>6 DEF OneAhead, OnTheWay, Sent
  <2> QED BY <2>3, <2>4
<1> QED BY <1>4, <1>5

(* After the response its repetitions are acknowledged, for it was read.          *)
LEMMA LingerKeeps == ASSUME NumEvents \in Nat, ExchangeInv, Ice!Linger PROVE ExchangeInv'
<1> USE DEF ExchangeInv
<1>1. /\ Ice!Response \in Nat /\ Ice!Response = NumEvents + 1 /\ provider.message \in 1..Ice!Response
      /\ Ice!Response \in Ice!Messages
  BY DEF Ice!Response, ExchangeTypes, Ice!Messages, Ice!Request
<1>2. /\ Answered /\ Read = Ice!Response /\ provider' = provider
      /\ consumer.stage = "lingering"
  BY DEF Ice!Linger, Answered, Read
<1>3. /\ consumer'.stage \in {"lingering", "done"} /\ consumer'.got = consumer.got
      /\ consumer'.seen = consumer.seen
      /\ consumer' \in [stage : ConsumerStages, seen : SUBSET (1..Ice!Response), got : Seq(Nat)]
  BY <1>2 DEF Ice!Linger, ExchangeTypes, ConsumerStages
<1>4. /\ iceInbox' \in [Ice!Ends -> SUBSET ({"data", "ack"} \X Ice!Messages)]
      /\ \A n \in Ice!Messages : Ice!Data(n) \in iceInbox'["consumer"] => Ice!Data(n) \in iceInbox["consumer"]
  BY <1>1, Taken DEF Ice!Linger, Ice!Ends
<1>5. Answered' /\ Read' = Ice!Response /\ ExchangeTypes' /\ ReadInOrder' /\ (Sent' <=> Sent)
  BY <1>2, <1>3, <1>4 DEF Answered, Read, ExchangeTypes, ReadInOrder, Sent
<1> QED BY <1>1, <1>2, <1>4, <1>5 DEF OneAhead, OnTheWay, Ice!Messages, Ice!Request

(* An acknowledged message was read, so the provider may go on to the next.       *)
LEMMA AcknowledgementKeeps == ASSUME NumEvents \in Nat, ExchangeInv, Ice!MessageAcknowledged PROVE ExchangeInv'
<1> USE DEF ExchangeInv
<1>1. /\ Ice!Response \in Nat /\ Ice!Response = NumEvents + 1 /\ provider.message \in 1..Ice!Response
      /\ provider.message \in Ice!Messages /\ Ice!Messages \subseteq Nat /\ Read \in Nat
  BY DEF Ice!Response, ExchangeTypes, Ice!Messages, Ice!Request, Read
<1>2. consumer' = consumer /\ Read = provider.message /\ Sent
  BY <1>1 DEF Ice!MessageAcknowledged, OnTheWay, OneAhead, Sent
<1>3. /\ iceInbox' \in [Ice!Ends -> SUBSET ({"data", "ack"} \X Ice!Messages)]
      /\ \A n \in Ice!Messages : Ice!Data(n) \in iceInbox'["consumer"] => Ice!Data(n) \in iceInbox["consumer"]
      /\ \A n \in Ice!Messages : Ice!Ack(n) \in iceInbox'["provider"] => Ice!Ack(n) \in iceInbox["provider"]
  BY <1>1 DEF Ice!MessageAcknowledged, ExchangeTypes, Ice!Take, Ice!Ends, Ice!Data, Ice!Ack
<1>4. Read' = Read /\ ReadInOrder'
  BY <1>2 DEF Read, Answered, ReadInOrder
<1>5. CASE provider.message = Ice!Response
  <2>1. provider'.stage = "answered" /\ provider'.message = provider.message /\ ExchangeTypes'
    BY <1>2, <1>3, <1>5 DEF Ice!MessageAcknowledged, ExchangeTypes, ProviderStages
  <2> QED BY <1>1, <1>2, <1>3, <1>4, <1>5, <2>1 DEF OneAhead, OnTheWay, Sent
<1>6. CASE provider.message # Ice!Response
  <2>1. provider'.stage = "working" /\ provider'.message = provider.message + 1 /\ ExchangeTypes'
    BY <1>1, <1>2, <1>3, <1>6 DEF Ice!MessageAcknowledged, ExchangeTypes, ProviderStages
  <2> QED BY <1>1, <1>2, <1>3, <1>4, <1>6, <2>1 DEF OneAhead, OnTheWay, Sent
<1> QED BY <1>5, <1>6

(* The invariant says what the two sides may rely on.                             *)
LEMMA ExchangePromises == ASSUME NumEvents \in Nat, ExchangeInv PROVE Ice!ExchangeSound
<1> USE DEF ExchangeInv
<1>1. consumer.got \in Seq(Nat) /\ Ice!Response = NumEvents + 1
  BY DEF ExchangeTypes, Ice!Response
<1>2. consumer.got = [i \in 1..Len(consumer.got) |-> i]
  <2> DEFINE g == consumer.got
  <2>1. g \in Seq(Nat) /\ \A i \in 1..Len(g) : g[i] = i
    BY <1>1 DEF ReadInOrder
  <2> HIDE DEF g
  <2>2. g = [i \in 1..Len(g) |-> i]
    BY ONLY <2>1
  <2> QED BY <2>2 DEF g
<1>3. provider.stage = "answered" => Answered
  BY <1>1 DEF OneAhead, ReadInOrder, Read
<1> QED BY <1>2, <1>3 DEF Ice!ExchangeSound, ReadInOrder, Answered

(* The steps of both sides and of what is on the way.                              *)
LEMMA ExchangeKeeps == ASSUME NumEvents \in Nat, ExchangeInv, Ice!Next PROVE ExchangeInv'
<1>1. CASE Ice!ConsumerConnects \/ Ice!ProviderConnects \/ Ice!ConsumerFails \/ Ice!ProviderFails \/ Ice!Emit
  BY <1>1, PhasesKeep
<1>2. CASE Ice!SendRequest \/ Ice!SendMessage \/ Ice!ReAckRequest \/ \E e \in Ice!Ends : Ice!Lose(e)
  BY <1>2, LegKeeps
<1>3. CASE Ice!RequestAcknowledged \/ Ice!ProviderReceives
  BY <1>3, RequestKeeps
<1>4. CASE \E m \in 1..Ice!Response : Ice!ConsumerReceives(m)
  BY <1>4, ReceiptKeeps
<1>5. CASE Ice!Linger
  BY <1>5, LingerKeeps
<1>6. CASE Ice!MessageAcknowledged
  BY <1>6, AcknowledgementKeeps
<1> QED BY <1>1, <1>2, <1>3, <1>4, <1>5, <1>6 DEF Ice!Next

-----------------------------------------------------------------------------
(* Frames of a stream over two legs, with ends that forget what they delivered.   *)

Count == Len(target.sink)
Requests(n) == {Stream!Frame("request", i) : i \in 1..n}
ArrivedAll == Count = NumFrames
SourceDone == streamsSource.stage = "done"
Relayed == transit.expected.request - 1    \* how many frames the transit peer took from the source

FrameTypes ==
    /\ streamsSource \in [next : 1..NumFrames, stage : {"sending", "receiving", "done", "failed"}]
    /\ transit \in [direction : {"request", "response"}, held : Stream!AllFrames \cup {NoFrame},
                    stage : {"relaying", "failed", "completed"},
                    expected : [request : 1..(NumFrames + 1), response : 1..2]]
    /\ target \in [sink : Seq(Nat), stage : {"receiving", "answering", "completed", "failed"}]
    /\ queue \in [Stream!Ends -> SUBSET [kind : {"data", "ack"}, frame : Stream!AllFrames]]
    /\ recent \in [Stream!Ends -> Seq(Stream!AllFrames)]

\* What may be on its way to an end, and what an end has delivered.
Coming(e, f) ==
    CASE e = "left" -> f \in Requests(streamsSource.next)
      [] e = "target" -> f \in Requests(Relayed)
      [] e = "right" -> f = Stream!Response /\ ArrivedAll
      [] e = "source" -> f = Stream!Response /\ ArrivedAll
Has(e, f) ==
    CASE e = "left" -> f \in Requests(Relayed)
      [] e = "target" -> f \in Requests(Count)
      [] e = "right" -> f = Stream!Response
      [] e = "source" -> f = Stream!Response /\ SourceDone

Remembers(e, f) == \E i \in 1..Len(recent[e]) : recent[e][i] = f

\* A packet is of a frame that was sent, or acknowledges one that was delivered;
\* what an end remembers it has delivered.
LegsAreHonest ==
    \A e \in Stream!Ends :
        /\ \A f : Stream!Data(f) \in queue[e] => Coming(e, f)
        /\ \A f : Stream!Ack(f) \in queue[e] => Has(Stream!Peer[e], f)
        /\ \A f : Remembers(e, f) => Has(e, f)

\* The transit peer is at most one frame behind the source, the target at most one
\* behind the transit peer, and neither is ahead.
OneBehind ==
    /\ streamsSource.next - 1 <= Relayed /\ Relayed <= streamsSource.next
    /\ streamsSource.stage \in {"receiving", "done"} => Relayed = NumFrames
    /\ SourceDone => ArrivedAll
    /\ transit.direction = "request" =>
         \/ transit.held = NoFrame /\ Count = Relayed
         \/ /\ transit.held = Stream!Frame("request", Relayed) /\ Relayed >= 1
            /\ Relayed - 1 <= Count /\ Count <= Relayed
    /\ transit.direction = "response" =>
         ArrivedAll /\ Relayed = NumFrames /\ transit.held \in {NoFrame, Stream!Response}
    /\ \A i \in 1..Count : target.sink[i] = i
    /\ target.stage \in {"answering", "completed"} => ArrivedAll
    /\ transit.stage = "completed" => SourceDone

FramesInv == FrameTypes /\ LegsAreHonest /\ OneBehind

(* What is known of frames and of the two kinds of packet. *)
LEMMA FrameFacts ==
  /\ NumFrames \in Nat /\ NumFrames >= 1
  /\ Stream!AllFrames = Requests(NumFrames) \cup {Stream!Response}
  /\ \A n \in Nat : /\ Stream!Frame("request", n).direction = "request"
                    /\ Stream!Frame("request", n).sequence = n
                    /\ Stream!Frame("request", n).final <=> n = NumFrames
  /\ Stream!Response.direction = "response" /\ Stream!Response.sequence = 1 /\ Stream!Response.final
  /\ NoFrame \notin Stream!AllFrames
<1>1. NumFrames \in Nat /\ NumFrames >= 1 /\ Len([n \in 1..NumFrames |-> n]) = NumFrames
  BY FramesAssumption 
<1>2. Stream!AllFrames = Requests(NumFrames) \cup {Stream!Response}
  BY <1>1 DEF Stream!AllFrames, Requests
<1>3. \A n \in Nat : /\ Stream!Frame("request", n).direction = "request"
                     /\ Stream!Frame("request", n).sequence = n
                     /\ Stream!Frame("request", n).final <=> n = NumFrames
  BY <1>1 DEF Stream!Frame
<1>4. Stream!Response.direction = "response" /\ Stream!Response.sequence = 1 /\ Stream!Response.final
  BY DEF Stream!Response, Stream!Frame
<1>5. NoFrame \notin Stream!AllFrames
  <2>1. \A d \in {"request", "response"}, n \in Nat :
           Stream!Frame(d, n) \in [direction : {"request", "response"}, sequence : Nat, final : BOOLEAN]
    BY DEF Stream!Frame
  <2> QED BY <2>1, <1>1, FramesAssumption DEF Stream!AllFrames, Stream!Response
<1> QED BY <1>1, <1>2, <1>3, <1>4, <1>5

LEMMA PacketFacts ==
  /\ \A f, g : Stream!Data(f) # Stream!Ack(g)
  /\ \A f, g : Stream!Data(f) = Stream!Data(g) => f = g
  /\ \A f, g : Stream!Ack(f) = Stream!Ack(g) => f = g
  /\ \A f \in Stream!AllFrames : Stream!Data(f) \in [kind : {"data", "ack"}, frame : Stream!AllFrames]
  /\ \A f \in Stream!AllFrames : Stream!Ack(f) \in [kind : {"data", "ack"}, frame : Stream!AllFrames]
  /\ \A p \in [kind : {"data", "ack"}, frame : Stream!AllFrames] :
        p.kind = "data" => p = Stream!Data(p.frame)
<1>1. \A f, g : Stream!Data(f).kind # Stream!Ack(g).kind
  BY DEF Stream!Data, Stream!Ack
<1>2. \A f : Stream!Data(f).frame = f /\ Stream!Ack(f).frame = f
  BY DEF Stream!Data, Stream!Ack
<1> QED BY <1>1, <1>2 DEF Stream!Data, Stream!Ack

LEMMA EndFacts ==
  /\ Stream!Ends = {"source", "left", "right", "target"}
  /\ Stream!Peer["source"] = "left" /\ Stream!Peer["left"] = "source"
  /\ Stream!Peer["right"] = "target" /\ Stream!Peer["target"] = "right"
  /\ \A e \in Stream!Ends : Stream!Peer[e] \in Stream!Ends /\ Stream!Peer[e] # e /\ Stream!Peer[Stream!Peer[e]] = e
BY DEF Stream!Ends, Stream!Peer

LEMMA RequestsGrow == \A n, m \in Nat : n <= m => Requests(n) \subseteq Requests(m)
BY DEF Requests

(* What was sent and delivered stays so as the stream goes on. *)
LEMMA HonestyLasts ==
  ASSUME LegsAreHonest, streamsSource.next \in Nat, Relayed \in Nat, Count \in Nat,
         streamsSource'.next \in Nat, Relayed' \in Nat, Count' \in Nat,
         streamsSource.next <= streamsSource'.next, Relayed <= Relayed', Count <= Count',
         ArrivedAll => ArrivedAll', SourceDone => SourceDone',
         \A e \in Stream!Ends : \A f : Stream!Data(f) \in queue'[e] =>
             Stream!Data(f) \in queue[e] \/ Coming(e, f)',
         \A e \in Stream!Ends : \A f : Stream!Ack(f) \in queue'[e] =>
             Stream!Ack(f) \in queue[e] \/ Has(Stream!Peer[e], f)',
         \A e \in Stream!Ends : \A f : Remembers(e, f)' => Remembers(e, f) \/ Has(e, f)'
  PROVE  LegsAreHonest'
<1>1. /\ Requests(streamsSource.next) \subseteq Requests(streamsSource'.next)
      /\ Requests(Relayed) \subseteq Requests(Relayed') /\ Requests(Count) \subseteq Requests(Count')
  BY RequestsGrow
<1>2. \A e \in Stream!Ends : \A f : Coming(e, f) => Coming(e, f)'
  BY <1>1, EndFacts DEF Coming, Requests
<1>3. \A e \in Stream!Ends : \A f : Has(e, f) => Has(e, f)'
  BY <1>1, EndFacts DEF Has, Requests
<1>4. \A e \in Stream!Ends : Stream!Peer[e] \in Stream!Ends
  BY EndFacts
<1>5. \A e \in Stream!Ends : \A f : Stream!Data(f) \in queue'[e] => Coming(e, f)'
  BY <1>2 DEF LegsAreHonest
<1>6. \A e \in Stream!Ends : \A f : Stream!Ack(f) \in queue'[e] => Has(Stream!Peer[e], f)'
  BY <1>3, <1>4 DEF LegsAreHonest
<1>7. \A e \in Stream!Ends : \A f : Remembers(e, f)' => Has(e, f)'
  BY <1>3 DEF LegsAreHonest
<1> QED BY <1>5, <1>6, <1>7 DEF LegsAreHonest

(* An end sends only what may come to the other end (send_bytes). *)
LEMMA SendingComes ==
  ASSUME FramesInv, NEW e \in Stream!Ends, Stream!Sending(e) # NoFrame
  PROVE  Stream!Sending(e) \in Stream!AllFrames /\ Coming(Stream!Peer[e], Stream!Sending(e))
<1>t. /\ streamsSource.next \in 1..NumFrames /\ Relayed \in 0..NumFrames /\ Relayed \in Nat
      /\ transit.direction \in {"request", "response"}
  BY FrameFacts DEF FramesInv, FrameTypes, Relayed
<1>1. CASE e = "source"
  <2>1. Stream!Sending(e) = Stream!Frame("request", streamsSource.next)
    BY <1>1 DEF Stream!Sending
  <2> QED BY <1>1, <1>t, <2>1, EndFacts, FrameFacts DEF Coming, Requests
<1>2. CASE e = "right"
  <2>1. Stream!Sending(e) = transit.held /\ transit.direction = "request"
    BY <1>2 DEF Stream!Sending
  <2>2. transit.held = Stream!Frame("request", Relayed) /\ Relayed >= 1
    BY <2>1 DEF FramesInv, OneBehind
  <2>3. Relayed \in 1..Relayed /\ Relayed \in 1..NumFrames
    BY <1>t, <2>2
  <2>4. transit.held \in Requests(Relayed) /\ transit.held \in Requests(NumFrames)
    BY <2>2, <2>3 DEF Requests
  <2> QED BY <1>2, <2>1, <2>4, EndFacts, FrameFacts DEF Coming
<1>3. CASE e = "left"
  <2>1. Stream!Sending(e) = transit.held /\ transit.direction = "response"
    BY <1>3 DEF Stream!Sending
  <2>2. transit.held = Stream!Response /\ ArrivedAll
    BY <2>1 DEF FramesInv, OneBehind
  <2> QED BY <1>3, <2>1, <2>2, EndFacts, FrameFacts DEF Coming
<1>4. CASE e = "target"
  <2>1. Stream!Sending(e) = Stream!Response /\ target.stage = "answering"
    BY <1>4 DEF Stream!Sending
  <2>2. ArrivedAll
    BY <2>1 DEF FramesInv, OneBehind
  <2> QED BY <1>4, <2>1, <2>2, EndFacts, FrameFacts DEF Coming
<1> QED BY <1>1, <1>2, <1>3, <1>4, EndFacts

Packets == [kind : {"data", "ack"}, frame : Stream!AllFrames]
Queues == [Stream!Ends -> SUBSET Packets]

(* A step of one leg changes queues alone: what is posted was sent or delivered     *)
(* (send_bytes and receive_bytes of p2p.py).                                      *)
LEMMA LegStepKeeps ==
  ASSUME FramesInv, UNCHANGED <<streamsSource, transit, target, recent>>, queue' \in Queues,
         \A e \in Stream!Ends : \A f : Stream!Data(f) \in queue'[e] =>
             Stream!Data(f) \in queue[e] \/ Coming(e, f),
         \A e \in Stream!Ends : \A f : Stream!Ack(f) \in queue'[e] =>
             Stream!Ack(f) \in queue[e] \/ Has(Stream!Peer[e], f)
  PROVE  FramesInv'
<1>1. FrameTypes'
  BY DEF FramesInv, FrameTypes, Queues, Packets
<1>2. OneBehind'
  BY DEF FramesInv, OneBehind, Relayed, Count, ArrivedAll, SourceDone
<1>3. LegsAreHonest'
  <2>1. LegsAreHonest
    BY DEF FramesInv
  <2>2. \A e, f : (Coming(e, f)' <=> Coming(e, f)) /\ (Has(e, f)' <=> Has(e, f)) /\ (Remembers(e, f)' <=> Remembers(e, f))
    BY DEF Coming, Has, Relayed, Count, ArrivedAll, SourceDone, Remembers
  <2> QED BY <2>1, <2>2 DEF LegsAreHonest
<1> QED BY <1>1, <1>2, <1>3 DEF FramesInv

LEMMA LegsKeep ==
  ASSUME FramesInv, NEW e \in Stream!Ends,
         Stream!Transmit(e) \/ Stream!DropOther(e) \/ Stream!ReAck(e) \/ Stream!Lose(e)
  PROVE  FramesInv'
<1> DEFINE d == Stream!Peer[e]
<1>t. queue \in Queues /\ d \in Stream!Ends /\ d # e /\ Stream!Peer[d] = e
  BY EndFacts DEF FramesInv, FrameTypes, Queues, Packets
<1> HIDE DEF d
<1>1. CASE Stream!Transmit(e)
  <2> DEFINE f == Stream!Sending(e)
  <2>1. /\ f # NoFrame /\ queue' = [queue EXCEPT ![d] = queue[d] \cup {Stream!Data(f)}]
        /\ UNCHANGED <<streamsSource, transit, target, recent>>
    BY <1>1 DEF Stream!Transmit, d
  <2>2. f \in Stream!AllFrames /\ Coming(d, f)
    BY <2>1, SendingComes DEF d
  <2> HIDE DEF f
  <2>3. Stream!Data(f) \in Packets
    BY <2>2, PacketFacts DEF Packets
  <2>4. queue' \in Queues
    BY <1>t, <2>1, <2>3 DEF Queues
  <2>5. \A x \in Stream!Ends : queue'[x] = IF x = d THEN queue[d] \cup {Stream!Data(f)} ELSE queue[x]
    BY <1>t, <2>1 DEF Queues
  <2> QED BY <2>1, <2>2, <2>4, <2>5, PacketFacts, LegStepKeeps
<1>2. CASE Stream!DropOther(e) \/ Stream!Lose(e)
  <2>1. PICK p \in queue[e] : queue' = [queue EXCEPT ![e] = queue[e] \ {p}]
    BY <1>2 DEF Stream!DropOther, Stream!Lose
  <2>2. UNCHANGED <<streamsSource, transit, target, recent>>
    BY <1>2 DEF Stream!DropOther, Stream!Lose
  <2>3. queue' \in Queues
    BY <1>t, <2>1 DEF Queues
  <2>4. \A x \in Stream!Ends : queue'[x] \subseteq queue[x]
    BY <1>t, <2>1 DEF Queues
  <2> QED BY <2>2, <2>3, <2>4, LegStepKeeps
<1>3. CASE Stream!ReAck(e)
  <2>1. PICK p \in queue[e] : /\ p.kind = "data" /\ p.frame \in Stream!ToSet(recent[e])
                              /\ queue' = [queue EXCEPT ![e] = queue[e] \ {p}, ![d] = queue[d] \cup {Stream!Ack(p.frame)}]
    <3>1. PICK p \in queue[e] : /\ p.kind = "data" /\ p.frame \in Stream!ToSet(recent[e])
                                /\ queue' = [queue EXCEPT ![e] = @ \ {p}, ![d] = @ \cup {Stream!Ack(p.frame)}]
      BY <1>3 DEF Stream!ReAck, d
    <3>2. [queue EXCEPT ![e] = @ \ {p}, ![d] = @ \cup {Stream!Ack(p.frame)}]
            = [queue EXCEPT ![e] = queue[e] \ {p}, ![d] = queue[d] \cup {Stream!Ack(p.frame)}]
      BY <1>t DEF Queues
    <3> QED BY <3>1, <3>2
  <2>2. UNCHANGED <<streamsSource, transit, target, recent>>
    BY <1>3 DEF Stream!ReAck
  <2>3. p \in Packets /\ p.frame \in Stream!AllFrames
    BY <1>t, <2>1 DEF Queues, Packets
  <2> DEFINE f == p.frame
  <2>4. recent[e] \in Seq(Stream!AllFrames)
    BY DEF FramesInv, FrameTypes
  <2>5. Remembers(e, f)
    BY <2>1, <2>4 DEF Stream!ToSet, Remembers
  <2>6. Has(Stream!Peer[d], f)
    BY <1>t, <2>5 DEF FramesInv, LegsAreHonest
  <2>7. Stream!Ack(f) \in Packets
    BY <2>3, PacketFacts DEF Packets
  <2> HIDE DEF f
  <2>8. queue' = [queue EXCEPT ![e] = queue[e] \ {p}, ![d] = queue[d] \cup {Stream!Ack(f)}]
    BY <2>1 DEF f
  <2>9. queue' \in Queues
    BY <1>t, <2>7, <2>8 DEF Queues
  <2>10. \A x \in Stream!Ends : queue'[x] \subseteq IF x = d THEN queue[d] \cup {Stream!Ack(f)} ELSE queue[x]
    BY <1>t, <2>8 DEF Queues
  <2> QED BY <2>2, <2>6, <2>9, <2>10, PacketFacts, LegStepKeeps
<1> QED BY <1>1, <1>2, <1>3

(* What delivering a message does to the queues (receive_bytes). *)
LEMMA DeliveredEffect ==
  ASSUME FramesInv, NEW e \in Stream!Ends, NEW f \in Stream!AllFrames, Stream!Delivered(e, f)
  PROVE  /\ Stream!Receiving(e) /\ Coming(e, f)
         /\ queue' \in Queues /\ recent' \in [Stream!Ends -> Seq(Stream!AllFrames)]
         /\ \A x \in Stream!Ends : \A g : Stream!Data(g) \in queue'[x] => Stream!Data(g) \in queue[x]
         /\ \A x \in Stream!Ends : \A g : Stream!Ack(g) \in queue'[x] =>
               Stream!Ack(g) \in queue[x] \/ (Stream!Peer[x] = e /\ g = f)
         /\ \A x \in Stream!Ends : \A g : Remembers(x, g)' => Remembers(x, g) \/ (x = e /\ g = f)
<1> DEFINE d == Stream!Peer[e]
<1>t. queue \in Queues /\ d \in Stream!Ends /\ d # e /\ Stream!Peer[d] = e
  BY EndFacts DEF FramesInv, FrameTypes, Queues, Packets
<1>r. recent \in [Stream!Ends -> Seq(Stream!AllFrames)]
  BY DEF FramesInv, FrameTypes
<1> HIDE DEF d
<1>1. /\ Stream!Receiving(e) /\ Stream!Data(f) \in queue[e]
      /\ recent' = [recent EXCEPT ![e] = Stream!Remembered(recent[e], f)]
      /\ queue' = [queue EXCEPT ![e] = @ \ {Stream!Data(f)}, ![d] = @ \cup {Stream!Ack(f)}]
  BY DEF Stream!Delivered, d
<1>2. Coming(e, f)
  BY <1>1 DEF FramesInv, LegsAreHonest
<1>3. Stream!Ack(f) \in Packets
  BY PacketFacts DEF Packets
<1>4. queue' \in Queues
  BY <1>t, <1>1, <1>3 DEF Queues
<1>5. \A x \in Stream!Ends : queue'[x] \subseteq IF x = d THEN queue[d] \cup {Stream!Ack(f)} ELSE queue[x]
  BY <1>t, <1>1 DEF Queues
<1>6. \A x \in Stream!Ends : \A g : Stream!Data(g) \in queue'[x] => Stream!Data(g) \in queue[x]
  BY <1>5, PacketFacts
<1>7. \A x \in Stream!Ends : \A g : Stream!Ack(g) \in queue'[x] =>
         Stream!Ack(g) \in queue[x] \/ (Stream!Peer[x] = e /\ g = f)
  BY <1>5, <1>t, PacketFacts
<1>8. /\ Stream!Remembered(recent[e], f) \in Seq(Stream!AllFrames)
      /\ \A i \in 1..Len(Stream!Remembered(recent[e], f)) :
            \/ Stream!Remembered(recent[e], f)[i] = f
            \/ \E j \in 1..Len(recent[e]) : recent[e][j] = Stream!Remembered(recent[e], f)[i]
  <2> DEFINE s == recent[e]
  <2>1. s \in Seq(Stream!AllFrames)
    BY <1>r
  <2> HIDE DEF s
  <2>2. CASE Len(s) < RecentIds
    <3>1. Stream!Remembered(s, f) = Append(s, f)
      BY <2>2 DEF Stream!Remembered
    <3> QED BY <2>1, <3>1 DEF s
  <2>3. CASE ~(Len(s) < RecentIds)
    <3>1. Stream!Remembered(s, f) = Append(Tail(s), f) /\ s # << >>
      BY <2>3, <2>1, FramesAssumption DEF Stream!Remembered
    <3>2. /\ Tail(s) \in Seq(Stream!AllFrames) /\ Len(Tail(s)) = Len(s) - 1 /\ Len(s) \in Nat /\ Len(s) >= 1
          /\ \A i \in 1..Len(Tail(s)) : Tail(s)[i] = s[i + 1] /\ i + 1 \in 1..Len(s)
      BY <2>1, <3>1
    <3> DEFINE t == Tail(s)
    <3>3. t \in Seq(Stream!AllFrames) /\ f \in Stream!AllFrames
      BY <3>2
    <3> HIDE DEF t
    <3>4. /\ Append(t, f) \in Seq(Stream!AllFrames)
          /\ \A i \in 1..Len(Append(t, f)) :
                Append(t, f)[i] = f \/ (i \in 1..Len(t) /\ Append(t, f)[i] = t[i])
      BY <3>3
    <3>5. /\ Append(Tail(s), f) \in Seq(Stream!AllFrames)
          /\ \A i \in 1..Len(Append(Tail(s), f)) :
                Append(Tail(s), f)[i] = f \/ (i \in 1..Len(Tail(s)) /\ Append(Tail(s), f)[i] = Tail(s)[i])
      BY <3>4 DEF t
    <3> QED BY <3>1, <3>2, <3>5 DEF s
  <2> QED BY <2>2, <2>3
<1>9. recent' \in [Stream!Ends -> Seq(Stream!AllFrames)]
  BY <1>r, <1>1, <1>8
<1>10. \A x \in Stream!Ends : recent'[x] = IF x = e THEN Stream!Remembered(recent[e], f) ELSE recent[x]
  BY <1>r, <1>1
<1>11. \A x \in Stream!Ends : \A g : Remembers(x, g)' => Remembers(x, g) \/ (x = e /\ g = f)
  BY <1>8, <1>10 DEF Remembers
<1> QED BY <1>1, <1>2, <1>4, <1>6, <1>7, <1>9, <1>11

(* What an acknowledgement says (send_bytes). *)
LEMMA AcknowledgedEffect ==
  ASSUME FramesInv, NEW e \in Stream!Ends, Stream!Acknowledged(e)
  PROVE  /\ Stream!Sending(e) # NoFrame /\ Has(Stream!Peer[e], Stream!Sending(e))
         /\ queue' \in Queues /\ recent' = recent
         /\ \A x \in Stream!Ends : queue'[x] \subseteq queue[x]
<1>1. queue \in Queues
  BY DEF FramesInv, FrameTypes, Queues, Packets
<1> QED BY <1>1 DEF Stream!Acknowledged, FramesInv, LegsAreHonest, Queues

\* The bounds that the steps of the parties need.
Bounds ==
    /\ streamsSource.next \in 1..NumFrames /\ Relayed \in 0..NumFrames /\ Count \in Nat
    /\ NumFrames \in Nat /\ NumFrames >= 1
LEMMA BoundsHold == FrameTypes => Bounds
BY FrameFacts DEF FrameTypes, Bounds, Relayed, Count

LEMMA WhichRequest ==
  ASSUME NEW n \in Nat, NEW f, f \in Requests(n)
  PROVE  \E i \in 1..n : f = Stream!Frame("request", i) /\ f.sequence = i /\ f.direction = "request"
BY FrameFacts DEF Requests

(* The source goes on to its next frame when the transit peer has the last one      *)
(* (send_encrypted_stream).                                                        *)
LEMMA SourceSentKeeps == ASSUME FramesInv, Stream!SourceSent PROVE FramesInv'
<1>b. Bounds
  BY BoundsHold DEF FramesInv
<1>1. /\ Stream!Acknowledged("source") /\ UNCHANGED <<transit, target>>
      /\ streamsSource' = IF streamsSource.next = NumFrames THEN [streamsSource EXCEPT !.stage = "receiving"]
                          ELSE [streamsSource EXCEPT !.next = streamsSource.next + 1]
  <2>1. Len([n \in 1..NumFrames |-> n]) = NumFrames
    BY FramesAssumption
  <2> QED BY <2>1 DEF Stream!SourceSent
<1>2. /\ Stream!Sending("source") # NoFrame /\ Has("left", Stream!Sending("source"))
      /\ queue' \in Queues /\ recent' = recent
      /\ \A x \in Stream!Ends : queue'[x] \subseteq queue[x]
  BY <1>1, AcknowledgedEffect, EndFacts
<1>3. streamsSource.stage = "sending" /\ Stream!Sending("source") = Stream!Frame("request", streamsSource.next)
  BY <1>2 DEF Stream!Sending
<1>4. PICK i \in 1..Relayed : /\ Stream!Sending("source") = Stream!Frame("request", i)
                              /\ Stream!Sending("source").sequence = i
  <2>1. Stream!Sending("source") \in Requests(Relayed) /\ Relayed \in Nat
    BY <1>2, <1>b DEF Has, Bounds
  <2> QED BY <2>1, WhichRequest
<1>5. Relayed = streamsSource.next
  <2>1. i = streamsSource.next
    BY <1>3, <1>4, <1>b, FrameFacts DEF Bounds
  <2> QED BY <2>1, <1>4, <1>b DEF Bounds, FramesInv, OneBehind
<1>6. /\ Relayed' = Relayed /\ Count' = Count /\ (ArrivedAll' <=> ArrivedAll) /\ ~SourceDone /\ ~SourceDone'
      /\ streamsSource'.next \in 1..NumFrames /\ streamsSource.next <= streamsSource'.next
      /\ streamsSource'.next - 1 <= Relayed /\ Relayed <= streamsSource'.next
      /\ streamsSource'.stage \in {"receiving", "done"} => Relayed = NumFrames
      /\ streamsSource' \in [next : 1..NumFrames, stage : {"sending", "receiving", "done", "failed"}]
  <2>1. streamsSource \in [next : 1..NumFrames, stage : {"sending", "receiving", "done", "failed"}]
    BY DEF FramesInv, FrameTypes
  <2> QED BY <2>1, <1>1, <1>3, <1>5, <1>b DEF Relayed, Count, ArrivedAll, SourceDone, Bounds
<1>7. FrameTypes'
  BY <1>1, <1>2, <1>6 DEF FramesInv, FrameTypes, Queues, Packets
<1>8. LegsAreHonest'
  <2>1. \A e, f : Remembers(e, f)' <=> Remembers(e, f)
    BY <1>2 DEF Remembers
  <2>2. LegsAreHonest
    BY DEF FramesInv
  <2> QED BY <1>2, <1>6, <1>b, <2>1, <2>2, HonestyLasts DEF Bounds
<1>9. OneBehind'
  BY <1>1, <1>6 DEF FramesInv, OneBehind
<1> QED BY <1>7, <1>8, <1>9 DEF FramesInv

(* The source has the response: the target got everything (receive_encrypted_stream). *)
LEMMA SourceReceivesKeeps ==
  ASSUME FramesInv, NEW f \in Stream!AllFrames, Stream!SourceReceives(f) PROVE FramesInv'
<1>b. Bounds
  BY BoundsHold DEF FramesInv
<1>1. /\ Stream!Delivered("source", f) /\ UNCHANGED <<transit, target>>
      /\ streamsSource' = [streamsSource EXCEPT !.stage = IF f = Stream!Response THEN "done" ELSE "failed"]
  BY DEF Stream!SourceReceives
<1>2. /\ Stream!Receiving("source") /\ Coming("source", f)
      /\ queue' \in Queues /\ recent' \in [Stream!Ends -> Seq(Stream!AllFrames)]
      /\ \A x \in Stream!Ends : \A g : Stream!Data(g) \in queue'[x] => Stream!Data(g) \in queue[x]
      /\ \A x \in Stream!Ends : \A g : Stream!Ack(g) \in queue'[x] =>
            Stream!Ack(g) \in queue[x] \/ (Stream!Peer[x] = "source" /\ g = f)
      /\ \A x \in Stream!Ends : \A g : Remembers(x, g)' => Remembers(x, g) \/ (x = "source" /\ g = f)
  BY <1>1, DeliveredEffect, EndFacts
<1>3. f = Stream!Response /\ ArrivedAll /\ streamsSource.stage = "receiving"
  BY <1>2 DEF Coming, Stream!Receiving
<1>4. /\ streamsSource'.next = streamsSource.next /\ streamsSource'.stage = "done"
      /\ streamsSource' \in [next : 1..NumFrames, stage : {"sending", "receiving", "done", "failed"}]
  BY <1>1, <1>3 DEF FramesInv, FrameTypes
<1>5. Relayed' = Relayed /\ Count' = Count /\ (ArrivedAll' <=> ArrivedAll) /\ SourceDone'
  BY <1>1, <1>4 DEF Relayed, Count, ArrivedAll, SourceDone
<1>6. Has("source", f)'
  BY <1>3, <1>5 DEF Has
<1>7. FrameTypes'
  BY <1>1, <1>2, <1>4 DEF FramesInv, FrameTypes, Queues, Packets
<1>8. LegsAreHonest'
  <2>1. LegsAreHonest
    BY DEF FramesInv
  <2> QED BY <1>2, <1>4, <1>5, <1>6, <1>b, <2>1, HonestyLasts DEF Bounds
<1>9. OneBehind'
  BY <1>1, <1>3, <1>4, <1>5 DEF FramesInv, OneBehind
<1> QED BY <1>7, <1>8, <1>9 DEF FramesInv

(* A deadline passes at one of the three parties. *)
LEMMA TimeOutKeeps == ASSUME FramesInv, Stream!TimeOut PROVE FramesInv'
<1>b. Bounds
  BY BoundsHold DEF FramesInv
<1>1. UNCHANGED <<queue, recent>>
  BY DEF Stream!TimeOut
<1>2. CASE /\ streamsSource.stage \in {"sending", "receiving"}
           /\ streamsSource' = [streamsSource EXCEPT !.stage = "failed"] /\ UNCHANGED <<transit, target>>
  <2>1. /\ streamsSource'.next = streamsSource.next /\ streamsSource'.stage = "failed"
        /\ streamsSource' \in [next : 1..NumFrames, stage : {"sending", "receiving", "done", "failed"}]
    BY <1>2 DEF FramesInv, FrameTypes
  <2>2. Relayed' = Relayed /\ Count' = Count /\ (ArrivedAll' <=> ArrivedAll) /\ ~SourceDone
    BY <1>2 DEF Relayed, Count, ArrivedAll, SourceDone
  <2>3. FrameTypes'
    BY <1>1, <1>2, <2>1 DEF FramesInv, FrameTypes
  <2>4. LegsAreHonest'
    <3>1. LegsAreHonest /\ \A e, f : Remembers(e, f)' <=> Remembers(e, f)
      BY <1>1 DEF FramesInv, Remembers
    <3> QED BY <1>1, <1>b, <2>1, <2>2, <3>1, HonestyLasts DEF Bounds
  <2>5. OneBehind'
    BY <1>2, <2>1, <2>2 DEF FramesInv, OneBehind, SourceDone
  <2> QED BY <2>3, <2>4, <2>5 DEF FramesInv
<1>3. CASE transit.stage = "relaying" /\ transit' = [transit EXCEPT !.stage = "failed"] /\ UNCHANGED <<streamsSource, target>>
  <2>1. /\ transit'.held = transit.held /\ transit'.direction = transit.direction /\ transit'.stage = "failed"
        /\ transit'.expected = transit.expected
    BY <1>3 DEF FramesInv, FrameTypes
  <2>2. Relayed' = Relayed /\ Count' = Count /\ (ArrivedAll' <=> ArrivedAll) /\ (SourceDone' <=> SourceDone)
    BY <1>3, <2>1 DEF Relayed, Count, ArrivedAll, SourceDone
  <2>3. FrameTypes'
    BY <1>1, <1>3 DEF FramesInv, FrameTypes
  <2>4. LegsAreHonest'
    <3>1. LegsAreHonest /\ \A e, f : Remembers(e, f)' <=> Remembers(e, f)
      BY <1>1 DEF FramesInv, Remembers
    <3> QED BY <1>1, <1>3, <1>b, <2>2, <3>1, HonestyLasts DEF Bounds
  <2>5. OneBehind'
    BY <1>3, <2>1, <2>2 DEF FramesInv, OneBehind
  <2> QED BY <2>3, <2>4, <2>5 DEF FramesInv
<1>4. CASE target.stage \in {"receiving", "answering"} /\ target' = [target EXCEPT !.stage = "failed"] /\ UNCHANGED <<streamsSource, transit>>
  <2>1. target'.sink = target.sink /\ target'.stage = "failed"
    BY <1>4 DEF FramesInv, FrameTypes
  <2>2. Relayed' = Relayed /\ Count' = Count /\ (ArrivedAll' <=> ArrivedAll) /\ (SourceDone' <=> SourceDone)
    BY <1>4, <2>1 DEF Relayed, Count, ArrivedAll, SourceDone
  <2>3. FrameTypes'
    BY <1>1, <1>4 DEF FramesInv, FrameTypes
  <2>4. LegsAreHonest'
    <3>1. LegsAreHonest /\ \A e, f : Remembers(e, f)' <=> Remembers(e, f)
      BY <1>1 DEF FramesInv, Remembers
    <3> QED BY <1>1, <1>4, <1>b, <2>2, <3>1, HonestyLasts DEF Bounds
  <2>5. OneBehind'
    BY <1>4, <2>1, <2>2 DEF FramesInv, OneBehind
  <2> QED BY <2>3, <2>4, <2>5 DEF FramesInv
<1> QED BY <1>2, <1>3, <1>4 DEF Stream!TimeOut

(* The transit peer takes the next frame, or drops one it had (relay_bidirectional_once). *)
LEMMA TransitReceivesKeeps ==
  ASSUME FramesInv, NEW e \in Stream!Ends, NEW f \in Stream!AllFrames, Stream!TransitReceives(e, f)
  PROVE  FramesInv'
<1>b. Bounds
  BY BoundsHold DEF FramesInv
<1> DEFINE n == transit.expected[transit.direction]
<1>1. /\ e \in {"left", "right"} /\ Stream!Delivered(e, f) /\ UNCHANGED <<streamsSource, target>>
      /\ transit' = IF f.direction # transit.direction \/ f.sequence > n
                    THEN [transit EXCEPT !.stage = "failed"]
                    ELSE IF f.sequence < n THEN transit
                    ELSE [transit EXCEPT !.held = f, !.expected[transit.direction] = @ + 1]
  BY DEF Stream!TransitReceives
<1>2. /\ Stream!Receiving(e) /\ Coming(e, f)
      /\ queue' \in Queues /\ recent' \in [Stream!Ends -> Seq(Stream!AllFrames)]
      /\ \A x \in Stream!Ends : \A g : Stream!Data(g) \in queue'[x] => Stream!Data(g) \in queue[x]
      /\ \A x \in Stream!Ends : \A g : Stream!Ack(g) \in queue'[x] =>
            Stream!Ack(g) \in queue[x] \/ (Stream!Peer[x] = e /\ g = f)
      /\ \A x \in Stream!Ends : \A g : Remembers(x, g)' => Remembers(x, g) \/ (x = e /\ g = f)
  BY <1>1, DeliveredEffect
<1>t. /\ transit \in [direction : {"request", "response"}, held : Stream!AllFrames \cup {NoFrame},
                      stage : {"relaying", "failed", "completed"},
                      expected : [request : 1..(NumFrames + 1), response : 1..2]]
      /\ transit.expected.request = Relayed + 1
  BY DEF FramesInv, FrameTypes, Relayed
<1>3. Count' = Count /\ (ArrivedAll' <=> ArrivedAll) /\ (SourceDone' <=> SourceDone)
  BY <1>1 DEF Count, ArrivedAll, SourceDone
<1>l. LegsAreHonest
  BY DEF FramesInv
<1>4. CASE e = "left"
  <2>1. transit.direction = "request" /\ transit.held = NoFrame /\ transit.stage = "relaying" /\ n = Relayed + 1
    BY <1>2, <1>4, <1>t DEF Stream!Receiving
  <2>2. PICK i \in 1..streamsSource.next : f = Stream!Frame("request", i) /\ f.sequence = i /\ f.direction = "request"
    <3>1. f \in Requests(streamsSource.next) /\ streamsSource.next \in Nat
      BY <1>2, <1>4, <1>b DEF Coming, Bounds
    <3> QED BY <3>1, WhichRequest
  <2>3. Count = Relayed /\ streamsSource.next - 1 <= Relayed
    <3>1. \A k \in 1..NumFrames : Stream!Frame("request", k) # NoFrame
      BY FrameFacts DEF Requests
    <3>2. Relayed >= 1 => Relayed \in 1..NumFrames
      BY <1>b DEF Bounds
    <3> QED BY <2>1, <3>1, <3>2 DEF FramesInv, OneBehind
  <2>4. i <= Relayed + 1 /\ i \in Nat /\ i >= 1
    BY <2>2, <2>3, <1>b DEF Bounds
  <2>5. CASE i <= Relayed
    <3>1. transit' = transit
      BY <1>1, <1>b, <2>1, <2>2, <2>4, <2>5 DEF Bounds
    <3>2. Relayed' = Relayed
      BY <3>1 DEF Relayed
    <3>3. Has("left", f)'
      BY <2>2, <2>4, <2>5, <3>2 DEF Has, Requests
    <3>4. LegsAreHonest'
      BY <1>1, <1>2, <1>3, <1>4, <1>b, <1>l, <3>2, <3>3, HonestyLasts DEF Bounds
    <3>5. OneBehind'
      BY <1>1, <1>3, <3>1, <3>2 DEF FramesInv, OneBehind
    <3>6. FrameTypes'
      BY <1>1, <1>2, <3>1 DEF FramesInv, FrameTypes, Queues, Packets
    <3> QED BY <3>4, <3>5, <3>6 DEF FramesInv
  <2>6. CASE i = Relayed + 1
    <3>1. transit' = [transit EXCEPT !.held = f, !.expected["request"] = Relayed + 2]
      <4>1. transit' = [transit EXCEPT !.held = f, !.expected[transit.direction] = @ + 1]
        BY <1>1, <1>b, <2>1, <2>2, <2>4, <2>6 DEF Bounds
      <4>2. transit.direction = "request" /\ transit.expected.request + 1 = Relayed + 2
        BY <2>1, <1>t, <1>b DEF Bounds
      <4> QED BY <4>1, <4>2, <1>t
    <3>2. Relayed + 2 \in 1..(NumFrames + 1) /\ Relayed + 1 <= streamsSource.next
      BY <2>2, <2>6, <1>b DEF Bounds
    <3>3. /\ transit' \in [direction : {"request", "response"}, held : Stream!AllFrames \cup {NoFrame},
                           stage : {"relaying", "failed", "completed"},
                           expected : [request : 1..(NumFrames + 1), response : 1..2]]
          /\ transit'.expected.request = Relayed + 2 /\ transit'.held = f
          /\ transit'.direction = "request" /\ transit'.stage = "relaying"
      BY <1>t, <2>1, <3>1, <3>2
    <3>4. Relayed' = Relayed + 1
      BY <3>3, <1>b DEF Relayed, Bounds
    <3>5. Has("left", f)'
      BY <2>2, <2>4, <2>6, <3>4 DEF Has, Requests
    <3>6. LegsAreHonest'
      <4>1. Relayed' \in Nat /\ Relayed <= Relayed'
        BY <3>4, <1>b DEF Bounds
      <4> QED BY <1>1, <1>2, <1>3, <1>4, <1>b, <1>l, <4>1, <3>5, HonestyLasts DEF Bounds
    <3>7. OneBehind'
      <4>1. /\ streamsSource'.next - 1 <= Relayed' /\ Relayed' <= streamsSource'.next
        BY <1>1, <2>3, <3>2, <3>4, <1>b DEF Bounds
      <4>2. streamsSource'.stage \in {"receiving", "done"} => Relayed' = NumFrames
        <5>1. ~(streamsSource.stage \in {"receiving", "done"})
          BY <3>2, <1>b DEF Bounds, FramesInv, OneBehind
        <5> QED BY <5>1, <1>1
      <4>3. /\ transit'.held = Stream!Frame("request", Relayed') /\ Relayed' >= 1
            /\ Relayed' - 1 <= Count' /\ Count' <= Relayed'
        BY <2>2, <2>3, <2>4, <2>6, <3>3, <3>4, <1>3, <1>b DEF Bounds
      <4> QED BY <1>1, <1>3, <3>3, <4>1, <4>2, <4>3 DEF FramesInv, OneBehind
    <3>8. FrameTypes'
      BY <1>1, <1>2, <3>3 DEF FramesInv, FrameTypes, Queues, Packets
    <3> QED BY <3>6, <3>7, <3>8 DEF FramesInv
  <2> QED BY <2>4, <2>5, <2>6, <1>b DEF Bounds
<1>5. CASE e = "right"
  <2>1. transit.direction = "response" /\ transit.held = NoFrame /\ transit.stage = "relaying"
        /\ n = transit.expected.response /\ f = Stream!Response /\ ArrivedAll
    BY <1>2, <1>5, <1>t DEF Stream!Receiving, Coming
  <2>2. f.direction = "response" /\ f.sequence = 1 /\ n \in 1..2
    BY <2>1, <1>t, FrameFacts
  <2>3. \/ transit' = transit
        \/ n = 1 /\ transit' = [transit EXCEPT !.held = f, !.expected[transit.direction] = @ + 1]
    BY <1>1, <2>1, <2>2
  <2>4. \/ transit' = transit
        \/ transit' = [transit EXCEPT !.held = f, !.expected["response"] = 2]
    <3>1. n = 1 => transit.expected.response + 1 = 2 /\ transit.direction = "response"
      BY <2>1
    <3> QED BY <2>3, <3>1, <1>t
  <2>5. /\ transit' \in [direction : {"request", "response"}, held : Stream!AllFrames \cup {NoFrame},
                         stage : {"relaying", "failed", "completed"},
                         expected : [request : 1..(NumFrames + 1), response : 1..2]]
        /\ transit'.expected.request = transit.expected.request /\ transit'.held \in {NoFrame, f}
        /\ transit'.direction = "response" /\ transit'.stage = "relaying"
    <3>1. CASE transit' = transit
      BY <1>t, <2>1, <3>1
    <3>2. CASE transit' = [transit EXCEPT !.held = f, !.expected["response"] = 2]
      <4> DEFINE ex == [transit.expected EXCEPT !["response"] = 2]
      <4>1. ex \in [request : 1..(NumFrames + 1), response : 1..2] /\ ex.request = transit.expected.request
        BY <1>t
      <4>2. transit' = [transit EXCEPT !.held = f, !.expected = ex]
        BY <1>t, <3>2
      <4> HIDE DEF ex
      <4> QED BY <1>t, <2>1, <4>1, <4>2
    <3> QED BY <2>4, <3>1, <3>2
  <2>6. Relayed' = Relayed
    BY <2>5 DEF Relayed
  <2>7. Has("right", f)'
    BY <2>1 DEF Has
  <2>8. LegsAreHonest'
    BY <1>1, <1>2, <1>3, <1>5, <1>b, <1>l, <2>6, <2>7, HonestyLasts DEF Bounds
  <2>9. OneBehind'
    BY <1>1, <1>3, <2>1, <2>5, <2>6 DEF FramesInv, OneBehind
  <2>10. FrameTypes'
    BY <1>1, <1>2, <2>5 DEF FramesInv, FrameTypes, Queues, Packets
  <2> QED BY <2>8, <2>9, <2>10 DEF FramesInv
<1> QED BY <1>1, <1>4, <1>5

(* The transit peer goes on when the frame it forwarded was acknowledged. *)
LEMMA TransitForwardedKeeps ==
  ASSUME FramesInv, NEW e \in Stream!Ends, Stream!TransitForwarded(e) PROVE FramesInv'
<1>b. Bounds
  BY BoundsHold DEF FramesInv
<1>1. /\ e \in {"left", "right"} /\ Stream!Acknowledged(e) /\ UNCHANGED <<streamsSource, target>>
      /\ transit' = IF ~ transit.held.final THEN [transit EXCEPT !.held = NoFrame]
                    ELSE IF transit.direction = "request"
                    THEN [transit EXCEPT !.held = NoFrame, !.direction = "response"]
                    ELSE [transit EXCEPT !.held = NoFrame, !.stage = "completed"]
  BY DEF Stream!TransitForwarded
<1>2. /\ Stream!Sending(e) # NoFrame /\ Has(Stream!Peer[e], Stream!Sending(e))
      /\ queue' \in Queues /\ recent' = recent
      /\ \A x \in Stream!Ends : queue'[x] \subseteq queue[x]
  BY <1>1, AcknowledgedEffect
<1>t. transit \in [direction : {"request", "response"}, held : Stream!AllFrames \cup {NoFrame},
                   stage : {"relaying", "failed", "completed"},
                   expected : [request : 1..(NumFrames + 1), response : 1..2]]
  BY DEF FramesInv, FrameTypes
<1>3. Count' = Count /\ (ArrivedAll' <=> ArrivedAll) /\ (SourceDone' <=> SourceDone)
  BY <1>1 DEF Count, ArrivedAll, SourceDone
<1>4. /\ transit' \in [direction : {"request", "response"}, held : Stream!AllFrames \cup {NoFrame},
                       stage : {"relaying", "failed", "completed"},
                       expected : [request : 1..(NumFrames + 1), response : 1..2]]
      /\ transit'.expected = transit.expected /\ transit'.held = NoFrame
  BY <1>1, <1>t
<1>5. Relayed' = Relayed
  BY <1>4 DEF Relayed
<1>6. LegsAreHonest'
  <2>1. LegsAreHonest /\ \A x, f : Remembers(x, f)' <=> Remembers(x, f)
    BY <1>2 DEF FramesInv, Remembers
  <2> QED BY <1>1, <1>2, <1>3, <1>b, <1>5, <2>1, HonestyLasts DEF Bounds
<1>7. FrameTypes'
  BY <1>1, <1>2, <1>4 DEF FramesInv, FrameTypes, Queues, Packets
<1>8. CASE e = "left"
  <2>1. Stream!Sending(e) = transit.held /\ transit.direction = "response" /\ transit.held # NoFrame
    BY <1>2, <1>8 DEF Stream!Sending
  <2>2. transit.held = Stream!Response /\ transit.held.final /\ ArrivedAll /\ Relayed = NumFrames
    BY <2>1, FrameFacts DEF FramesInv, OneBehind
  <2>3. SourceDone
    BY <1>2, <1>8, <2>1, EndFacts DEF Has
  <2>4. transit'.direction = "response" /\ transit'.stage = "completed"
    BY <1>1, <1>t, <2>1, <2>2
  <2>5. OneBehind'
    BY <1>1, <1>3, <1>4, <1>5, <2>2, <2>3, <2>4 DEF FramesInv, OneBehind
  <2> QED BY <1>6, <1>7, <2>5 DEF FramesInv
<1>9. CASE e = "right"
  <2>1. Stream!Sending(e) = transit.held /\ transit.direction = "request" /\ transit.held # NoFrame
        /\ transit.stage = "relaying"
    BY <1>2, <1>9 DEF Stream!Sending
  <2>2. /\ transit.held = Stream!Frame("request", Relayed) /\ Relayed >= 1 /\ Count <= Relayed
        /\ transit.held.sequence = Relayed /\ (transit.held.final <=> Relayed = NumFrames)
    BY <2>1, <1>b, FrameFacts DEF FramesInv, OneBehind, Bounds
  <2>3. PICK i \in 1..Count : transit.held.sequence = i
    <3>1. transit.held \in Requests(Count) /\ Count \in Nat
      BY <1>2, <1>9, <1>b, <2>1, EndFacts DEF Has, Bounds
    <3> QED BY <3>1, WhichRequest
  <2>4. Count = Relayed
    BY <2>2, <2>3, <1>b DEF Bounds
  <2>5. CASE ~ transit.held.final
    <3>1. transit'.direction = "request" /\ transit'.stage = transit.stage
      BY <1>1, <1>t, <2>1, <2>5
    <3>2. OneBehind'
      BY <1>1, <1>3, <1>4, <1>5, <2>1, <2>4, <3>1 DEF FramesInv, OneBehind
    <3> QED BY <1>6, <1>7, <3>2 DEF FramesInv
  <2>6. CASE transit.held.final
    <3>1. transit'.direction = "response" /\ transit'.stage = transit.stage
      BY <1>1, <1>t, <2>1, <2>6
    <3>2. Relayed = NumFrames /\ ArrivedAll
      BY <2>2, <2>4, <2>6 DEF ArrivedAll
    <3>3. OneBehind'
      BY <1>1, <1>3, <1>4, <1>5, <2>1, <3>1, <3>2 DEF FramesInv, OneBehind
    <3> QED BY <1>6, <1>7, <3>3 DEF FramesInv
  <2> QED BY <2>5, <2>6
<1> QED BY <1>1, <1>8, <1>9

(* The target's sink takes the next frame, or skips one it had (TransitCipher.open). *)
LEMMA TargetReceivesKeeps ==
  ASSUME FramesInv, NEW f \in Stream!AllFrames, Stream!TargetReceives(f) PROVE FramesInv'
<1>b. Bounds
  BY BoundsHold DEF FramesInv
<1>1. /\ Stream!Delivered("target", f) /\ UNCHANGED <<streamsSource, transit>>
      /\ target' = CASE Stream!Opens(f) = "fatal" -> [target EXCEPT !.stage = "failed"]
                     [] Stream!Opens(f) = "replayed" -> target
                     [] Stream!Opens(f) = "next" -> [sink |-> Append(target.sink, f.sequence),
                                                     stage |-> IF f.final THEN "answering" ELSE "receiving"]
  BY DEF Stream!TargetReceives
<1>2. /\ Stream!Receiving("target") /\ Coming("target", f)
      /\ queue' \in Queues /\ recent' \in [Stream!Ends -> Seq(Stream!AllFrames)]
      /\ \A x \in Stream!Ends : \A g : Stream!Data(g) \in queue'[x] => Stream!Data(g) \in queue[x]
      /\ \A x \in Stream!Ends : \A g : Stream!Ack(g) \in queue'[x] =>
            Stream!Ack(g) \in queue[x] \/ (Stream!Peer[x] = "target" /\ g = f)
      /\ \A x \in Stream!Ends : \A g : Remembers(x, g)' => Remembers(x, g) \/ (x = "target" /\ g = f)
  BY <1>1, DeliveredEffect, EndFacts
<1>t. target.sink \in Seq(Nat) /\ target.stage = "receiving" /\ Count = Len(target.sink)
  BY <1>2 DEF FramesInv, FrameTypes, Stream!Receiving, Count
<1>3. Relayed' = Relayed /\ (SourceDone' <=> SourceDone)
  BY <1>1 DEF Relayed, SourceDone
<1>l. LegsAreHonest
  BY DEF FramesInv
<1>4. PICK i \in 1..Relayed : /\ f = Stream!Frame("request", i) /\ f.sequence = i /\ f.direction = "request"
                              /\ (f.final <=> i = NumFrames)
  <2>1. f \in Requests(Relayed) /\ Relayed \in Nat
    BY <1>2, <1>b DEF Coming, Bounds
  <2> QED BY <2>1, WhichRequest, FrameFacts
<1>d. transit.direction \in {"request", "response"}
  BY DEF FramesInv, FrameTypes
<1>5. Relayed <= Count + 1
  BY <1>b, <1>d DEF FramesInv, OneBehind, Bounds, ArrivedAll
<1>6. i <= Count + 1 /\ i \in Nat /\ Count \in Nat /\ i >= 1
  BY <1>4, <1>5, <1>b DEF Bounds
<1>7. Stream!Opens(f) = IF i <= Count THEN "replayed" ELSE "next"
  BY <1>4, <1>6, <1>t DEF Stream!Opens
<1>8. CASE i <= Count
  <2>1. target' = target
    BY <1>1, <1>7, <1>8
  <2>2. Count' = Count /\ (ArrivedAll' <=> ArrivedAll)
    BY <2>1 DEF Count, ArrivedAll
  <2>3. Has("target", f)'
    BY <1>4, <1>6, <1>8, <2>2 DEF Has, Requests
  <2>4. LegsAreHonest'
    BY <1>1, <1>2, <1>3, <1>b, <1>l, <2>2, <2>3, HonestyLasts DEF Bounds
  <2>5. OneBehind'
    BY <1>1, <1>3, <2>1, <2>2 DEF FramesInv, OneBehind
  <2>6. FrameTypes'
    BY <1>1, <1>2, <2>1 DEF FramesInv, FrameTypes, Queues, Packets
  <2> QED BY <2>4, <2>5, <2>6 DEF FramesInv
<1>9. CASE i = Count + 1
  <2>1. /\ target' = [sink |-> Append(target.sink, i), stage |-> IF i = NumFrames THEN "answering" ELSE "receiving"]
    <3>1. ~(i <= Count) /\ Stream!Opens(f) = "next"
      BY <1>6, <1>7, <1>9
    <3>2. target' = [sink |-> Append(target.sink, f.sequence), stage |-> IF f.final THEN "answering" ELSE "receiving"]
      BY <1>1, <3>1
    <3> QED BY <1>4, <3>2
  <2>2. /\ Append(target.sink, i) \in Seq(Nat) /\ Len(Append(target.sink, i)) = Count + 1
        /\ \A k \in 1..(Count + 1) : Append(target.sink, i)[k] = IF k = Count + 1 THEN i ELSE target.sink[k]
    <3> DEFINE s == target.sink
    <3>1. s \in Seq(Nat) /\ Count = Len(s) /\ i \in Nat
      BY <1>t, <1>6
    <3> HIDE DEF s
    <3>2. /\ Append(s, i) \in Seq(Nat) /\ Len(Append(s, i)) = Count + 1
          /\ \A k \in 1..(Count + 1) : Append(s, i)[k] = IF k = Count + 1 THEN i ELSE s[k]
      BY <3>1
    <3> QED BY <3>2 DEF s
  <2>3. Count' = Count + 1 /\ target'.sink = Append(target.sink, i)
        /\ target'.stage = IF i = NumFrames THEN "answering" ELSE "receiving"
    BY <2>1, <2>2 DEF Count
  <2>4. ~ArrivedAll /\ (i = NumFrames => ArrivedAll')
    BY <1>4, <1>9, <1>b, <2>3 DEF ArrivedAll, Bounds
  <2>5. Has("target", f)'
    BY <1>4, <1>6, <1>9, <2>3 DEF Has, Requests
  <2>6. LegsAreHonest'
    <3>1. Count' \in Nat /\ Count <= Count'
      BY <1>6, <2>3
    <3> QED BY <1>1, <1>2, <1>3, <1>b, <1>l, <2>4, <2>5, <3>1, HonestyLasts DEF Bounds
  <2>7. OneBehind'
    <3>1. ~SourceDone /\ transit.direction = "request" /\ target'.stage # "completed"
      BY <2>3, <2>4, <1>d DEF FramesInv, OneBehind
    <3>2. /\ transit.held = Stream!Frame("request", Relayed) /\ Relayed >= 1
          /\ Relayed - 1 <= Count' /\ Count' <= Relayed
      BY <1>4, <1>6, <1>9, <1>b, <2>3, <3>1 DEF FramesInv, OneBehind, Bounds
    <3>3. \A k \in 1..Count' : target'.sink[k] = k
      BY <1>9, <2>2, <2>3, <1>6 DEF FramesInv, OneBehind
    <3>4. target'.stage \in {"answering", "completed"} => ArrivedAll'
      BY <2>3, <2>4
    <3> QED BY <1>1, <1>3, <3>1, <3>2, <3>3, <3>4 DEF FramesInv, OneBehind
  <2>8. FrameTypes'
    <3>1. target' \in [sink : Seq(Nat), stage : {"receiving", "answering", "completed", "failed"}]
      BY <2>1, <2>2
    <3> QED BY <1>1, <1>2, <3>1 DEF FramesInv, FrameTypes, Queues, Packets
  <2> QED BY <2>6, <2>7, <2>8 DEF FramesInv
<1> QED BY <1>6, <1>8, <1>9

LEMMA TargetAnsweredKeeps == ASSUME FramesInv, Stream!TargetAnswered PROVE FramesInv'
<1>b. Bounds
  BY BoundsHold DEF FramesInv
<1>1. /\ Stream!Acknowledged("target") /\ UNCHANGED <<streamsSource, transit>>
      /\ target' = [target EXCEPT !.stage = "completed"]
  BY DEF Stream!TargetAnswered
<1>2. /\ Stream!Sending("target") # NoFrame
      /\ queue' \in Queues /\ recent' = recent
      /\ \A x \in Stream!Ends : queue'[x] \subseteq queue[x]
  BY <1>1, AcknowledgedEffect, EndFacts
<1>3. target.stage = "answering" /\ ArrivedAll
  BY <1>2 DEF Stream!Sending, FramesInv, OneBehind
<1>4. target'.sink = target.sink /\ target'.stage = "completed"
      /\ target' \in [sink : Seq(Nat), stage : {"receiving", "answering", "completed", "failed"}]
  BY <1>1 DEF FramesInv, FrameTypes
<1>5. Relayed' = Relayed /\ Count' = Count /\ (ArrivedAll' <=> ArrivedAll) /\ (SourceDone' <=> SourceDone)
  BY <1>1, <1>4 DEF Relayed, Count, ArrivedAll, SourceDone
<1>6. LegsAreHonest'
  <2>1. LegsAreHonest /\ \A x, f : Remembers(x, f)' <=> Remembers(x, f)
    BY <1>2 DEF FramesInv, Remembers
  <2> QED BY <1>1, <1>2, <1>5, <1>b, <2>1, HonestyLasts DEF Bounds
<1>7. OneBehind'
  BY <1>1, <1>3, <1>4, <1>5 DEF FramesInv, OneBehind
<1>8. FrameTypes'
  BY <1>1, <1>2, <1>4 DEF FramesInv, FrameTypes, Queues, Packets
<1> QED BY <1>6, <1>7, <1>8 DEF FramesInv

LEMMA FramesStart == Stream!FramesInit => FramesInv
<1> SUFFICES ASSUME Stream!FramesInit PROVE FramesInv
  OBVIOUS
<1>1. FrameTypes
  BY FrameFacts DEF Stream!FramesInit, FrameTypes
<1>2. Relayed = 0 /\ Count = 0 /\ ~ArrivedAll /\ ~SourceDone /\ streamsSource.next = 1
      /\ streamsSource.stage = "sending"
  BY FrameFacts DEF Stream!FramesInit, Relayed, Count, ArrivedAll, SourceDone
<1>3. LegsAreHonest
  BY EndFacts DEF Stream!FramesInit, LegsAreHonest, Remembers
<1>4. OneBehind
  BY <1>2, FrameFacts DEF Stream!FramesInit, OneBehind
<1> QED BY <1>1, <1>3, <1>4 DEF FramesInv

LEMMA FramesKeep == ASSUME FramesInv, Stream!FramesNext PROVE FramesInv'
<1>1. CASE Stream!SourceSent \/ Stream!TargetAnswered \/ Stream!TimeOut
  BY <1>1, SourceSentKeeps, TargetAnsweredKeeps, TimeOutKeeps
<1>2. CASE \E e \in Stream!Ends : \/ Stream!Transmit(e) \/ Stream!DropOther(e) \/ Stream!ReAck(e)
                                  \/ Stream!Lose(e) \/ Stream!TransitForwarded(e)
  BY <1>2, LegsKeep, TransitForwardedKeeps
<1>3. CASE \E f \in Stream!AllFrames : \/ Stream!SourceReceives(f) \/ Stream!TargetReceives(f)
                                       \/ \E e \in Stream!Ends : Stream!TransitReceives(e, f)
  BY <1>3, SourceReceivesKeeps, TargetReceivesKeeps, TransitReceivesKeeps
<1> QED BY <1>1, <1>2, <1>3 DEF Stream!FramesNext

(* The invariant says what was promised of the stream. *)
LEMMA FramesPromise == ASSUME FramesInv PROVE Stream!StreamIntact
<1>b. Bounds
  BY BoundsHold DEF FramesInv
<1> DEFINE Frames == [n \in 1..NumFrames |-> n]
<1>1. Len(Frames) = NumFrames /\ Frames \in Seq(Nat)
  BY <1>b DEF Bounds
<1>2. target.sink \in Seq(Nat) /\ Len(target.sink) = Count
  BY DEF FramesInv, FrameTypes, Count
<1>d. transit.direction \in {"request", "response"}
  BY DEF FramesInv, FrameTypes
<1>3. Count <= NumFrames
  BY <1>b, <1>d DEF FramesInv, OneBehind, Bounds, ArrivedAll
<1>4. \A i \in 1..Count : target.sink[i] = i /\ i \in 1..NumFrames
  BY <1>3, <1>b DEF FramesInv, OneBehind, Bounds
<1>5. Stream!IsPrefix(target.sink, Frames)
  <2> DEFINE s == target.sink
             a == SubSeq(s, 1, Count)
             b == SubSeq(Frames, 1, Count)
  <2>1. s \in Seq(Nat) /\ Len(s) = Count /\ Count \in Nat /\ \A i \in 1..Count : s[i] = Frames[i]
    BY <1>2, <1>4, <1>b DEF Bounds
  <2>2. Frames \in Seq(Nat) /\ Len(Frames) = NumFrames /\ Count <= NumFrames /\ NumFrames \in Nat
    BY <1>1, <1>3, <1>b DEF Bounds
  <2> HIDE DEF s, Frames
  <2>3. a \in Seq(Nat) /\ Len(a) = Count /\ \A i \in 1..Count : a[i] = s[i]
    BY <2>1
  <2>4. b \in Seq(Nat) /\ Len(b) = Count /\ \A i \in 1..Count : b[i] = Frames[i]
    BY <2>1, <2>2
  <2> HIDE DEF a, b
  <2>5. a = b
    BY <2>1, <2>3, <2>4
  <2> QED BY <2>1, <2>2, <2>5 DEF Stream!IsPrefix, s, a, b
<1>6. ArrivedAll => target.sink = Frames
  <2>1. ASSUME ArrivedAll PROVE target.sink = Frames
    <3>1. \A i \in 1..NumFrames : target.sink[i] = Frames[i]
      BY <2>1, <1>4 DEF ArrivedAll
    <3> QED BY <2>1, <1>1, <1>2, <3>1 DEF ArrivedAll
  <2> QED BY <2>1
<1>7. transit.expected.request <= streamsSource.next + 1
  <2>1. transit.expected.request = Relayed + 1
    BY <1>b DEF Bounds, Relayed, FramesInv, FrameTypes
  <2> QED BY <2>1, <1>b DEF FramesInv, OneBehind, Bounds
<1> QED BY <1>5, <1>6, <1>7 DEF Stream!StreamIntact, FramesInv, OneBehind, SourceDone

-----------------------------------------------------------------------------
(* Deltas of a streamed answer through the provider's queue and the broker's ring.  *)

Notes == [event : {"delta", "terminal", "error", "state", "complete"}, sequence : Int]
IsDelta(e) == e.event = "delta"

AnswerTypes ==
    /\ worker \in [stage : {"running", "finished"}, next : 0..Deltas]
    /\ pipe \in Seq(Notes)
    /\ response \in {"open", "closed"}
    /\ reading \in [next : 0..Deltas, terminal : BOOLEAN, stage : {"reading", "failed", "failed_recorded", "succeeded"}]
    /\ broker \in [known : BOOLEAN, events : Seq(Notes), snapshot : Int]
    /\ reader \in [cursor : Int, text : Seq(Nat), stage : {"watching", "ended"}, from : Int, events : Seq(Notes)]

\* The queue holds the deltas after those read, then the end of the stream; while the
\* response is open nothing was taken out of order.
InPipe(i) ==
    \/ /\ IsDelta(pipe[i]) /\ pipe[i].sequence = reading.next + i - 1 /\ pipe[i].sequence < worker.next
    \/ /\ i = Len(pipe) /\ pipe[i].event \in {"terminal", "error"} /\ worker.stage = "finished"
       /\ pipe[i].event = "terminal" => reading.next + Len(pipe) - 1 = Deltas
PipeInOrder ==
    /\ reading.next <= worker.next
    /\ response = "open" =>
         /\ \A i \in 1..Len(pipe) : InPipe(i)
         /\ worker.stage = "running" => reading.next + Len(pipe) = worker.next
         /\ ~reading.terminal /\ reading.stage = "reading"
    /\ reading.terminal => reading.next = Deltas

\* Deltas of a ring, or of a copy of it, follow each other up to top; only the first
\* delta of all follows an event of another kind.
Orderly(s, top) ==
    /\ \A i \in 1..Len(s) : IsDelta(s[i]) => 0 <= s[i].sequence /\ s[i].sequence <= top
    /\ \A i \in 2..Len(s) : IsDelta(s[i]) =>
          s[i].sequence = IF IsDelta(s[i - 1]) THEN s[i - 1].sequence + 1 ELSE 0
    /\ \A i, j \in 1..Len(s) : i < j /\ IsDelta(s[i]) /\ IsDelta(s[j]) => s[i].sequence < s[j].sequence

\* The ring ends with the last delta published, and knows no more than was read.
RingInOrder ==
    /\ Orderly(broker.events, broker.snapshot)
    /\ -1 <= broker.snapshot /\ broker.snapshot < reading.next
    /\ ~broker.known => broker.events = << >> /\ broker.snapshot = -1
    /\ broker.known => broker.events # << >>
    /\ reading.stage = "reading" /\ broker.known =>
         LET last == broker.events[Len(broker.events)]
         IN  /\ broker.snapshot = reading.next - 1
             /\ broker.snapshot = IF IsDelta(last) THEN last.sequence ELSE -1

\* What a reader is still to be sent goes on where its text ends.
Sends(s, from, cursor) ==
    \A i \in 1..Len(s) : IsDelta(s[i]) =>
        /\ s[i].sequence <= from => cursor = from
        /\ s[i].sequence > from =>
             \/ s[i].sequence = cursor + 1
             \/ i > 1 /\ IsDelta(s[i - 1]) /\ s[i].sequence = s[i - 1].sequence + 1
ReaderInOrder ==
    /\ reader.text = Stream!Text(reader.cursor)
    /\ -1 <= reader.cursor /\ reader.from <= reader.cursor /\ reader.cursor < worker.next
    /\ Sends(reader.events, reader.from, reader.cursor)
    /\ \A i, j \in 1..Len(reader.events) :
          i < j /\ IsDelta(reader.events[i]) /\ IsDelta(reader.events[j]) =>
             reader.events[i].sequence < reader.events[j].sequence
    /\ \A i \in 1..Len(reader.events) : IsDelta(reader.events[i]) => reader.events[i].sequence < worker.next

AnswerInv == AnswerTypes /\ PipeInOrder /\ RingInOrder /\ ReaderInOrder

(* The first n + 1 deltas, joined. *)
LEMMA TextGrows ==
  /\ Stream!Text(-1) = << >>
  /\ \A n \in Int : n >= -1 =>
        /\ Stream!Text(n) \in Seq(Nat)
        /\ Append(Stream!Text(n), n + 1) = Stream!Text(n + 1)
<1>1. Stream!Text(-1) = << >>
  BY DEF Stream!Text
<1>2. ASSUME NEW n \in Int, n >= -1
      PROVE  Stream!Text(n) \in Seq(Nat) /\ Append(Stream!Text(n), n + 1) = Stream!Text(n + 1)
  <2> DEFINE m == n + 1
             s == [i \in 1..m |-> i - 1]
             r == [i \in 1..(m + 1) |-> i - 1]
  <2>1. m \in Nat
    BY <1>2
  <2> HIDE DEF m
  <2>2. s \in Seq(Nat) /\ Len(s) = m /\ r \in Seq(Nat) /\ Len(r) = m + 1
    BY <2>1
  <2>3. Append(s, m) \in Seq(Nat) /\ Len(Append(s, m)) = m + 1
    BY <2>1, <2>2
  <2>4. \A i \in 1..(m + 1) : Append(s, m)[i] = r[i]
    BY <2>1, <2>2
  <2>5. Append(s, m) = r
    BY <2>2, <2>3, <2>4
  <2>6. Stream!Text(n) = s /\ Stream!Text(n + 1) = r
    BY <1>2 DEF Stream!Text, m
  <2> QED BY <2>2, <2>5, <2>6 DEF m
<1> QED BY <1>1, <1>2

LEMMA NoteFacts ==
  /\ \A n \in Int : /\ Stream!Delta(n) \in Notes /\ IsDelta(Stream!Delta(n)) /\ Stream!Delta(n).sequence = n
                    /\ Stream!Delta(n).event = "delta"
  /\ \A s \in {"terminal", "error", "state", "complete"} :
        /\ Stream!State(s) \in Notes /\ ~IsDelta(Stream!State(s)) /\ Stream!State(s).event = s
BY DEF Stream!Delta, Stream!State, Notes, IsDelta

LEMMA AnswersStart == Stream!AnswerInit => AnswerInv
<1> SUFFICES ASSUME Stream!AnswerInit PROVE AnswerInv
  OBVIOUS
<1> USE AnswersAssumption
<1>1. AnswerTypes
  BY NoteFacts DEF Stream!AnswerInit, AnswerTypes, Stream!Fresh
<1>2. PipeInOrder
  BY DEF Stream!AnswerInit, PipeInOrder
<1>3. RingInOrder
  <2>1. broker.events = <<Stream!State("state")>> /\ broker.snapshot = -1 /\ broker.known /\ reading.next = 0
    BY DEF Stream!AnswerInit
  <2>2. Len(broker.events) = 1 /\ broker.events[1] = Stream!State("state")
    BY <2>1
  <2> QED BY <2>1, <2>2, NoteFacts DEF RingInOrder, Orderly
<1>4. ReaderInOrder
  <2>1. reader.text = << >> /\ reader.cursor = -1 /\ reader.from = -1 /\ reader.events = << >> /\ worker.next = 0
    BY DEF Stream!AnswerInit, Stream!Fresh
  <2> QED BY <2>1, TextGrows DEF ReaderInOrder, Sends
<1> QED BY <1>1, <1>2, <1>3, <1>4 DEF AnswerInv

(* A ring that lost its first event is still in order. *)
LEMMA TailIsOrderly ==
  ASSUME NEW s \in Seq(Notes), s # << >>, NEW top \in Int, Orderly(s, top)
  PROVE  /\ Tail(s) \in Seq(Notes) /\ Len(Tail(s)) = Len(s) - 1 /\ Len(s) >= 1
         /\ \A i \in 1..Len(Tail(s)) : Tail(s)[i] = s[i + 1]
         /\ Orderly(Tail(s), top)
<1> DEFINE r == Tail(s)
<1>1. r \in Seq(Notes) /\ Len(r) = Len(s) - 1 /\ Len(s) \in Nat /\ Len(s) >= 1
  OBVIOUS
<1>2. \A i \in 1..Len(r) : r[i] = s[i + 1]
  OBVIOUS
<1> HIDE DEF r
<1>3. ASSUME NEW i \in 1..Len(r), IsDelta(r[i]) PROVE 0 <= r[i].sequence /\ r[i].sequence <= top
  <2>1. i + 1 \in 1..Len(s) /\ r[i] = s[i + 1]
    BY <1>1, <1>2
  <2> QED BY <2>1, <1>3 DEF Orderly
<1>4. ASSUME NEW i \in 2..Len(r), IsDelta(r[i])
      PROVE  r[i].sequence = IF IsDelta(r[i - 1]) THEN r[i - 1].sequence + 1 ELSE 0
  <2>1. i + 1 \in 2..Len(s) /\ r[i] = s[i + 1] /\ r[i - 1] = s[i] /\ (i + 1) - 1 = i
    BY <1>1, <1>2
  <2> QED BY <2>1, <1>4 DEF Orderly
<1>5. ASSUME NEW i \in 1..Len(r), NEW j \in 1..Len(r), i < j, IsDelta(r[i]), IsDelta(r[j])
      PROVE  r[i].sequence < r[j].sequence
  <2>1. i + 1 \in 1..Len(s) /\ j + 1 \in 1..Len(s) /\ i + 1 < j + 1 /\ r[i] = s[i + 1] /\ r[j] = s[j + 1]
    BY <1>1, <1>2, <1>5
  <2> QED BY <2>1, <1>5 DEF Orderly
<1>6. Orderly(r, top)
  BY <1>3, <1>4, <1>5 DEF Orderly
<1> QED BY <1>1, <1>2, <1>6 DEF r

(* What may follow a ring that ends at top. *)
Follows(e, s, top, new) ==
    /\ top <= new
    /\ IsDelta(e) => /\ 0 <= e.sequence /\ e.sequence = new /\ top < new
                     /\ s # << >> => e.sequence = IF IsDelta(s[Len(s)]) THEN s[Len(s)].sequence + 1 ELSE 0

LEMMA AppendIsOrderly ==
  ASSUME NEW s \in Seq(Notes), NEW top \in Int, NEW new \in Int, NEW e \in Notes,
         Orderly(s, top), Follows(e, s, top, new)
  PROVE  /\ Append(s, e) \in Seq(Notes) /\ Append(s, e) # << >>
         /\ Append(s, e)[Len(Append(s, e))] = e
         /\ Orderly(Append(s, e), new)
<1> DEFINE r == Append(s, e)
<1>1. r \in Seq(Notes) /\ Len(r) = Len(s) + 1 /\ Len(s) \in Nat /\ r # << >>
  OBVIOUS
<1>2. r[Len(r)] = e /\ r[Len(s) + 1] = e /\ \A i \in 1..Len(s) : r[i] = s[i]
  OBVIOUS
<1>0. s = << >> <=> Len(s) = 0
  OBVIOUS
<1> HIDE DEF r
<1>n. \A i \in 1..Len(s) : s[i].sequence \in Int
  <2>1. \A i \in 1..Len(s) : s[i] \in Notes
    OBVIOUS
  <2> QED BY <2>1 DEF Notes
<1>e. e.sequence \in Int
  BY DEF Notes
<1>3. ASSUME NEW i \in 1..Len(r), IsDelta(r[i]) PROVE 0 <= r[i].sequence /\ r[i].sequence <= new
  <2>1. CASE i \in 1..Len(s)
    <3>1. 0 <= s[i].sequence /\ s[i].sequence <= top
      BY <1>2, <1>3, <2>1 DEF Orderly
    <3> QED BY <3>1, <1>2, <1>n, <2>1 DEF Follows
  <2>2. CASE i = Len(s) + 1
    BY <1>2, <1>3, <1>e, <2>2 DEF Follows
  <2> QED BY <2>1, <2>2, <1>1
<1>4. ASSUME NEW i \in 2..Len(r), IsDelta(r[i])
      PROVE  r[i].sequence = IF IsDelta(r[i - 1]) THEN r[i - 1].sequence + 1 ELSE 0
  <2>1. CASE i \in 2..Len(s)
    <3>1. r[i] = s[i] /\ r[i - 1] = s[i - 1]
      BY <1>1, <1>2, <2>1
    <3> QED BY <3>1, <2>1, <1>4 DEF Orderly
  <2>2. CASE i = Len(s) + 1
    <3>1. r[i] = e /\ r[i - 1] = s[Len(s)] /\ s # << >>
      BY <1>0, <1>1, <1>2, <2>2
    <3> QED BY <3>1, <1>4 DEF Follows
  <2> QED BY <2>1, <2>2, <1>1
<1>5. ASSUME NEW i \in 1..Len(r), NEW j \in 1..Len(r), i < j, IsDelta(r[i]), IsDelta(r[j])
      PROVE  r[i].sequence < r[j].sequence
  <2>1. i \in 1..Len(s) /\ r[i] = s[i]
    BY <1>1, <1>2, <1>5
  <2>2. CASE j \in 1..Len(s)
    BY <2>1, <2>2, <1>2, <1>5 DEF Orderly
  <2>3. CASE j = Len(s) + 1
    <3>1. s[i].sequence <= top
      BY <2>1, <1>5 DEF Orderly
    <3>2. e.sequence = new /\ top < new
      BY <2>3, <1>2, <1>5 DEF Follows
    <3> QED BY <3>1, <3>2, <2>1, <2>3, <1>2, <1>n
  <2> QED BY <2>2, <2>3, <1>1
<1>6. Orderly(r, new)
  BY <1>3, <1>4, <1>5 DEF Orderly
<1> QED BY <1>1, <1>2, <1>6 DEF r

LEMMA RingIsOrderly ==
  ASSUME NEW s \in Seq(Notes), NEW top \in Int, NEW new \in Int, NEW e \in Notes,
         Orderly(s, top), Follows(e, s, top, new)
  PROVE  /\ Stream!Ring(s, e) \in Seq(Notes) /\ Stream!Ring(s, e) # << >>
         /\ Stream!Ring(s, e)[Len(Stream!Ring(s, e))] = e
         /\ Orderly(Stream!Ring(s, e), new)
<1>1. CASE Len(s) < RingSize
  <2>1. Stream!Ring(s, e) = Append(s, e)
    BY <1>1 DEF Stream!Ring
  <2> QED BY <2>1, AppendIsOrderly
<1>2. CASE ~(Len(s) < RingSize)
  <2>0. s # << >>
    BY <1>2, AnswersAssumption
  <2> DEFINE r == Tail(s)
  <2>1. /\ r \in Seq(Notes) /\ Len(r) = Len(s) - 1 /\ Len(s) >= 1
        /\ \A i \in 1..Len(r) : r[i] = s[i + 1]
        /\ Orderly(r, top)
    BY <2>0, TailIsOrderly
  <2>2. Stream!Ring(s, e) = Append(r, e)
    BY <1>2 DEF Stream!Ring
  <2>l. Len(s) \in Nat
    OBVIOUS
  <2> HIDE DEF r
  <2>3. ASSUME r # << >> PROVE r[Len(r)] = s[Len(s)]
    <3>1. Len(r) \in 1..Len(r)
      BY <2>1, <2>3
    <3>2. r[Len(r)] = s[Len(r) + 1] /\ Len(r) + 1 = Len(s)
      BY <2>1, <3>1, <2>l
    <3> QED BY <3>2
  <2>4. Follows(e, r, top, new)
    BY <2>0, <2>3 DEF Follows
  <2> QED BY <2>1, <2>2, <2>4, AppendIsOrderly
<1> QED BY <1>1, <1>2

(* The provider's steps: a delta, the end, or an error joins the queue. *)
LEMMA PipeGrows ==
  ASSUME AnswerTypes, NEW e \in Notes
  PROVE  /\ Append(pipe, e) \in Seq(Notes) /\ Len(Append(pipe, e)) = Len(pipe) + 1 /\ Len(pipe) \in Nat
         /\ \A i \in 1..Len(pipe) : Append(pipe, e)[i] = pipe[i]
         /\ Append(pipe, e)[Len(pipe) + 1] = e
BY DEF AnswerTypes

LEMMA OnDeltaKeeps == ASSUME AnswerInv, Stream!OnDelta PROVE AnswerInv'
<1> USE AnswersAssumption
<1> DEFINE e == Stream!Delta(worker.next)
<1>1. /\ worker.stage = "running" /\ worker.next < Deltas /\ response = "open"
      /\ pipe' = Append(pipe, e) /\ worker' = [worker EXCEPT !.next = @ + 1]
      /\ UNCHANGED <<response, reading, broker, reader, evicted>>
  BY DEF Stream!OnDelta, Stream!consumerVars
<1>2. /\ AnswerTypes /\ PipeInOrder /\ RingInOrder /\ ReaderInOrder
  BY DEF AnswerInv
<1>3. worker.next \in 0..Deltas /\ worker' = [stage |-> "running", next |-> worker.next + 1]
  BY <1>1, <1>2 DEF AnswerTypes
<1>4. e \in Notes /\ IsDelta(e) /\ e.sequence = worker.next /\ e.event = "delta"
  BY <1>3, NoteFacts
<1> HIDE DEF e
<1>5. /\ pipe' \in Seq(Notes) /\ Len(pipe') = Len(pipe) + 1 /\ Len(pipe) \in Nat
      /\ \A i \in 1..Len(pipe) : pipe'[i] = pipe[i]
      /\ pipe'[Len(pipe) + 1] = e
  BY <1>1, <1>2, <1>4, PipeGrows
<1>6. AnswerTypes'
  <2>0. worker.next + 1 \in 0..Deltas
    BY <1>1, <1>3
  <2>1. worker' \in [stage : {"running", "finished"}, next : 0..Deltas]
    BY <1>3, <2>0
  <2> QED BY <2>1, <1>1, <1>2, <1>5 DEF AnswerTypes
<1>7. reading.next + Len(pipe) = worker.next /\ reading.next \in Nat /\ worker'.next = worker.next + 1
  BY <1>1, <1>2, <1>3 DEF PipeInOrder, AnswerTypes
<1>8. ASSUME NEW i \in 1..Len(pipe') PROVE InPipe(i)'
  <2>1. CASE i \in 1..Len(pipe)
    <3>1. InPipe(i) /\ pipe'[i] = pipe[i]
      BY <2>1, <1>1, <1>2, <1>5 DEF PipeInOrder
    <3>2. IsDelta(pipe[i]) /\ pipe[i].sequence = reading.next + i - 1 /\ pipe[i].sequence < worker.next
      BY <3>1, <1>1 DEF InPipe
    <3>3. IsDelta(pipe'[i]) /\ pipe'[i].sequence = reading'.next + i - 1 /\ pipe'[i].sequence < worker'.next
      BY <3>1, <3>2, <1>1, <1>7, <2>1, <1>5
    <3>4. IsDelta(pipe[i])'
      BY <3>3 DEF IsDelta
    <3> QED BY <3>3, <3>4 DEF InPipe
  <2>2. CASE i = Len(pipe) + 1
    <3>1. pipe'[i] = e /\ reading' = reading
      BY <2>2, <1>5, <1>1
    <3>2. IsDelta(pipe'[i]) /\ pipe'[i].sequence = reading'.next + i - 1 /\ pipe'[i].sequence < worker'.next
      BY <3>1, <1>4, <1>7, <1>5, <2>2
    <3>3. IsDelta(pipe[i])'
      BY <3>2 DEF IsDelta
    <3> QED BY <3>2, <3>3 DEF InPipe
  <2> QED BY <2>1, <2>2, <1>5
<1>9. PipeInOrder'
  BY <1>1, <1>2, <1>5, <1>7, <1>8 DEF PipeInOrder
<1>10. RingInOrder'
  BY <1>1, <1>2 DEF RingInOrder, Orderly
<1>11. ReaderInOrder'
  <2>1. \A i \in 1..Len(reader.events) : IsDelta(reader.events[i]) => reader.events[i].sequence < worker'.next
    <3>1. \A i \in 1..Len(reader.events) : reader.events[i].sequence \in Int
      <4>1. \A i \in 1..Len(reader.events) : reader.events[i] \in Notes
        BY <1>2 DEF AnswerTypes
      <4> QED BY <4>1 DEF Notes
    <3> QED BY <3>1, <1>2, <1>7, <1>3 DEF ReaderInOrder
  <2>2. reader.cursor < worker'.next /\ reader.cursor \in Int
    BY <1>2, <1>7, <1>3 DEF ReaderInOrder, AnswerTypes
  <2> QED BY <1>1, <1>2, <2>1, <2>2 DEF ReaderInOrder, Sends, Stream!Text, IsDelta
<1> QED BY <1>6, <1>9, <1>10, <1>11 DEF AnswerInv

(* Everything but the queue's place in order holds when only the provider moves on. *)
LEMMA ConsumerKeeps ==
  ASSUME AnswerInv, UNCHANGED <<reading, broker, reader, evicted>>, worker'.next = worker.next
  PROVE  RingInOrder' /\ ReaderInOrder'
<1>1. AnswerTypes /\ RingInOrder /\ ReaderInOrder
  BY DEF AnswerInv
<1>2. RingInOrder'
  BY <1>1 DEF RingInOrder, Orderly
<1>3. ReaderInOrder'
  BY <1>1 DEF ReaderInOrder, Sends, Stream!Text, IsDelta
<1> QED BY <1>2, <1>3

LEMMA EndKeeps ==
  ASSUME AnswerInv, NEW e \in Notes, e.event \in {"terminal", "error"},
         worker.stage = "running", worker' = [worker EXCEPT !.stage = "finished"],
         UNCHANGED <<response, reading, broker, reader, evicted>>,
         pipe' = Append(pipe, e),
         e.event = "terminal" => worker.next = Deltas
  PROVE  AnswerInv'
<1> USE AnswersAssumption
<1>1. AnswerTypes /\ PipeInOrder
  BY DEF AnswerInv
<1>0. worker \in [stage : {"running", "finished"}, next : 0..Deltas]
  BY <1>1 DEF AnswerTypes
<1>2. worker'.next = worker.next /\ worker'.stage = "finished" /\ worker.next \in Nat
      /\ worker' \in [stage : {"running", "finished"}, next : 0..Deltas]
  BY <1>0
<1>3. RingInOrder' /\ ReaderInOrder'
  BY <1>2, ConsumerKeeps
<1>4. /\ Append(pipe, e) \in Seq(Notes) /\ Len(Append(pipe, e)) = Len(pipe) + 1 /\ Len(pipe) \in Nat
      /\ \A i \in 1..Len(pipe) : Append(pipe, e)[i] = pipe[i]
      /\ Append(pipe, e)[Len(pipe) + 1] = e
  BY <1>1, PipeGrows
<1>5. AnswerTypes'
  BY <1>1, <1>2, <1>4 DEF AnswerTypes
<1>6. ASSUME response = "open", NEW i \in 1..Len(pipe') PROVE InPipe(i)'
  <2>0. pipe' = Append(pipe, e) /\ reading.next + Len(pipe) = worker.next /\ reading.next \in Nat
    BY <1>6, <1>1 DEF PipeInOrder, AnswerTypes
  <2>1. CASE i \in 1..Len(pipe)
    <3>1. InPipe(i) /\ pipe'[i] = pipe[i]
      BY <2>0, <2>1, <1>1, <1>4, <1>6 DEF PipeInOrder
    <3>2. IsDelta(pipe[i]) /\ pipe[i].sequence = reading.next + i - 1 /\ pipe[i].sequence < worker.next
      BY <3>1 DEF InPipe
    <3>3. IsDelta(pipe'[i]) /\ pipe'[i].sequence = reading'.next + i - 1 /\ pipe'[i].sequence < worker'.next
      BY <3>1, <3>2, <1>2
    <3>4. IsDelta(pipe[i])'
      BY <3>3 DEF IsDelta
    <3> QED BY <3>3, <3>4 DEF InPipe
  <2>2. CASE i = Len(pipe) + 1
    <3>1. pipe'[i] = e /\ i = Len(pipe')
      BY <2>0, <2>2, <1>4
    <3>2. e.event = "terminal" => reading.next + Len(pipe') - 1 = Deltas
      BY <2>0, <1>4
    <3> QED BY <3>1, <3>2, <1>2 DEF InPipe
  <2> QED BY <2>0, <2>1, <2>2, <1>4
<1>7. PipeInOrder'
  BY <1>1, <1>2, <1>6 DEF PipeInOrder
<1> QED BY <1>3, <1>5, <1>7 DEF AnswerInv

LEMMA TerminalKeeps == ASSUME AnswerInv, Stream!Terminal PROVE AnswerInv'
<1>1. Stream!State("terminal") \in Notes /\ Stream!State("terminal").event = "terminal"
  BY NoteFacts
<1> QED BY <1>1, EndKeeps DEF Stream!Terminal, Stream!consumerVars

LEMMA WorkerFailsKeeps == ASSUME AnswerInv, Stream!WorkerFails PROVE AnswerInv'
<1> USE AnswersAssumption
<1> DEFINE e == Stream!State("error")
<1>1. e \in Notes /\ e.event = "error"
  BY NoteFacts
<1>2. /\ worker.stage = "running" /\ worker' = [worker EXCEPT !.stage = "finished"]
      /\ UNCHANGED <<response, reading, broker, reader, evicted>>
      /\ pipe' = IF response = "open" /\ Len(pipe) < QueueSize THEN Append(pipe, e) ELSE pipe
  BY DEF Stream!WorkerFails, Stream!consumerVars
<1> HIDE DEF e
<1>3. CASE pipe' = Append(pipe, e)
  BY <1>1, <1>2, <1>3, EndKeeps
<1>4. CASE pipe' = pipe
  <2>1. AnswerTypes /\ PipeInOrder
    BY DEF AnswerInv
  <2>2. worker'.next = worker.next /\ worker'.stage = "finished"
        /\ worker' \in [stage : {"running", "finished"}, next : 0..Deltas]
    BY <2>1, <1>2 DEF AnswerTypes
  <2>3. RingInOrder' /\ ReaderInOrder'
    BY <2>2, <1>2, ConsumerKeeps
  <2>4. AnswerTypes'
    BY <2>1, <2>2, <1>2, <1>4 DEF AnswerTypes
  <2>5. PipeInOrder'
    BY <2>1, <2>2, <1>2, <1>4 DEF PipeInOrder, InPipe, IsDelta
  <2> QED BY <2>3, <2>4, <2>5 DEF AnswerInv
<1> QED BY <1>2, <1>3, <1>4

LEMMA DisconnectKeeps == ASSUME AnswerInv, Stream!Disconnect PROVE AnswerInv'
<1> USE AnswersAssumption
<1>1. /\ response = "open" /\ response' = "closed" /\ UNCHANGED <<worker, pipe, broker, reader, evicted>>
      /\ reading' = IF reading.stage = "reading" /\ ~reading.terminal THEN [reading EXCEPT !.stage = "failed"] ELSE reading
  BY DEF Stream!Disconnect
<1>2. AnswerTypes /\ PipeInOrder /\ RingInOrder /\ ReaderInOrder
  BY DEF AnswerInv
<1>3. reading' = [next |-> reading.next, terminal |-> FALSE, stage |-> "failed"] /\ reading.next \in 0..Deltas
  BY <1>1, <1>2 DEF PipeInOrder, AnswerTypes
<1>4. AnswerTypes'
  BY <1>1, <1>2, <1>3 DEF AnswerTypes
<1>5. PipeInOrder'
  BY <1>1, <1>2, <1>3 DEF PipeInOrder
<1>6. RingInOrder'
  BY <1>1, <1>2, <1>3 DEF RingInOrder, Orderly
<1>7. ReaderInOrder'
  BY <1>1, <1>2 DEF ReaderInOrder, Sends, Stream!Text, IsDelta
<1> QED BY <1>4, <1>5, <1>6, <1>7 DEF AnswerInv

(* The consumer's steps. *)
LEMMA AcceptDeltaKeeps == ASSUME AnswerInv, Stream!AcceptDelta PROVE AnswerInv'
<1> USE AnswersAssumption
<1> DEFINE e == Head(pipe)
<1>1. /\ reading.stage = "reading" /\ response = "open" /\ pipe # << >> /\ e.event = "delta" /\ pipe' = Tail(pipe)
      /\ IF reading.terminal \/ e.sequence # reading.next \/ ~Stream!Contiguous(broker, e)
         THEN reading' = [reading EXCEPT !.stage = "failed"] /\ UNCHANGED broker
         ELSE /\ reading' = [reading EXCEPT !.next = @ + 1]
              /\ broker' = Stream!Published(broker, e)
      /\ UNCHANGED <<worker, response, reader, evicted>>
  BY DEF Stream!AcceptDelta
<1>2. AnswerTypes /\ PipeInOrder /\ RingInOrder /\ ReaderInOrder
  BY DEF AnswerInv
<1>3. /\ pipe' \in Seq(Notes) /\ Len(pipe') = Len(pipe) - 1 /\ Len(pipe) \in Nat /\ Len(pipe) >= 1
      /\ \A i \in 1..Len(pipe') : pipe'[i] = pipe[i + 1]
      /\ e = pipe[1] /\ e \in Notes
  <2>1. pipe \in Seq(Notes)
    BY <1>2 DEF AnswerTypes
  <2> QED BY <1>1, <2>1
<1> HIDE DEF e
<1>4. IsDelta(e) /\ e.sequence = reading.next /\ e.sequence < worker.next /\ ~reading.terminal
      /\ reading.next \in Nat /\ worker.next \in Nat /\ worker.next <= Deltas
  <2>1. 1 \in 1..Len(pipe)
    BY <1>3
  <2>2. InPipe(1) /\ ~reading.terminal
    BY <1>1, <1>2, <2>1 DEF PipeInOrder
  <2>3. IsDelta(pipe[1]) /\ pipe[1].sequence = reading.next + 1 - 1 /\ pipe[1].sequence < worker.next
    BY <1>1, <1>3, <2>2 DEF InPipe
  <2>4. reading.next \in Nat /\ worker.next \in Nat /\ worker.next <= Deltas
    BY <1>2 DEF AnswerTypes
  <2> QED BY <2>2, <2>3, <2>4, <1>3
<1>5. Stream!Contiguous(broker, e)
  BY <1>1, <1>2, <1>4 DEF RingInOrder, Stream!Contiguous
<1>6. /\ reading' = [reading EXCEPT !.next = @ + 1]
      /\ broker' = Stream!Published(broker, e)
  BY <1>1, <1>4, <1>5
<1>7. reading' = [next |-> reading.next + 1, terminal |-> FALSE, stage |-> "reading"]
  <2>1. reading \in [next : 0..Deltas, terminal : BOOLEAN, stage : {"reading", "failed", "failed_recorded", "succeeded"}]
    BY <1>2 DEF AnswerTypes
  <2> QED BY <1>1, <1>4, <1>6, <2>1
<1>8. reading' \in [next : 0..Deltas, terminal : BOOLEAN, stage : {"reading", "failed", "failed_recorded", "succeeded"}]
  <2>1. reading.next + 1 \in 0..Deltas
    BY <1>4
  <2> QED BY <1>7, <2>1
<1>9. /\ broker \in [known : BOOLEAN, events : Seq(Notes), snapshot : Int]
      /\ broker.known \in BOOLEAN /\ broker.events \in Seq(Notes) /\ broker.snapshot \in Int
  BY <1>2 DEF AnswerTypes
<1>10. ASSUME ~broker.known /\ e.sequence # 0
       PROVE  broker' \in [known : BOOLEAN, events : Seq(Notes), snapshot : Int] /\ RingInOrder'
  <2>1. broker' = broker
    BY <1>1, <1>6, <1>10 DEF Stream!Published
  <2>2. RingInOrder'
    BY <2>1, <1>2, <1>4, <1>7, <1>9, <1>10 DEF RingInOrder, Orderly
  <2> QED BY <2>1, <2>2, <1>9
<1>11. ASSUME ~(~broker.known /\ e.sequence # 0)
       PROVE  broker' \in [known : BOOLEAN, events : Seq(Notes), snapshot : Int] /\ RingInOrder'
  <2> DEFINE r == Stream!Ring(broker.events, e)
  <2>1. broker' = [known |-> TRUE, events |-> r, snapshot |-> e.sequence]
    BY <1>1, <1>6, <1>11 DEF Stream!Published
  <2>2. broker.events # << >> => broker.known
    BY <1>2 DEF RingInOrder
  <2>3. Follows(e, broker.events, broker.snapshot, e.sequence)
    <3>1. broker.snapshot < reading.next /\ Orderly(broker.events, broker.snapshot)
      BY <1>2 DEF RingInOrder
    <3>2. ASSUME broker.events # << >>
          PROVE  e.sequence = IF IsDelta(broker.events[Len(broker.events)])
                              THEN broker.events[Len(broker.events)].sequence + 1 ELSE 0
      BY <1>1, <1>2, <1>4, <2>2, <3>2 DEF RingInOrder
    <3> QED BY <3>1, <3>2, <1>4, <1>9 DEF Follows
  <2>4. Orderly(broker.events, broker.snapshot)
    BY <1>2 DEF RingInOrder
  <2>5. r \in Seq(Notes) /\ r # << >> /\ r[Len(r)] = e /\ Orderly(r, e.sequence)
    BY <1>3, <1>4, <1>9, <2>3, <2>4, RingIsOrderly
  <2> HIDE DEF r
  <2>6. broker' \in [known : BOOLEAN, events : Seq(Notes), snapshot : Int]
    BY <2>1, <2>5, <1>4
  <2>7. Orderly(broker.events, broker.snapshot)'
    BY <2>1, <2>5 DEF Orderly, IsDelta
  <2>8. IsDelta(e) /\ broker'.events[Len(broker'.events)] = e
    BY <2>1, <2>5, <1>4
  <2>9. RingInOrder'
    <3>1. -1 <= broker'.snapshot /\ broker'.snapshot < reading'.next /\ broker'.known = TRUE
          /\ broker'.events # << >> /\ broker'.snapshot = reading'.next - 1 /\ broker'.snapshot = e.sequence
      BY <2>1, <2>5, <1>4, <1>7
    <3>2. IsDelta(broker.events[Len(broker.events)])'
      BY <2>8 DEF IsDelta
    <3> QED BY <3>1, <3>2, <2>7, <2>8 DEF RingInOrder
  <2> QED BY <2>6, <2>9
<1>12. AnswerTypes'
  BY <1>1, <1>2, <1>3, <1>8, <1>10, <1>11 DEF AnswerTypes
<1>13. ASSUME NEW i \in 1..Len(pipe') PROVE InPipe(i)'
  <2>1. InPipe(i + 1) /\ pipe'[i] = pipe[i + 1] /\ i + 1 \in 1..Len(pipe)
    BY <1>1, <1>2, <1>3 DEF PipeInOrder
  <2>2. CASE IsDelta(pipe[i + 1]) /\ pipe[i + 1].sequence = reading.next + (i + 1) - 1 /\ pipe[i + 1].sequence < worker.next
    <3>1. IsDelta(pipe'[i]) /\ pipe'[i].sequence = reading'.next + i - 1 /\ pipe'[i].sequence < worker'.next
      BY <2>1, <2>2, <1>1, <1>4, <1>7
    <3>2. IsDelta(pipe[i])'
      BY <3>1 DEF IsDelta
    <3> QED BY <3>1, <3>2 DEF InPipe
  <2>3. CASE /\ i + 1 = Len(pipe) /\ pipe[i + 1].event \in {"terminal", "error"} /\ worker.stage = "finished"
             /\ pipe[i + 1].event = "terminal" => reading.next + Len(pipe) - 1 = Deltas
    <3>0. i = Len(pipe') /\ reading'.next = reading.next + 1
          /\ (reading.next + Len(pipe) - 1 = Deltas => reading'.next + Len(pipe') - 1 = Deltas)
      <4>1. i + 1 = Len(pipe) /\ i \in Nat
        BY <2>3, <1>3
      <4>2. reading'.next = reading.next + 1
        BY <1>7
      <4>3. i = Len(pipe') /\ Len(pipe') = Len(pipe) - 1
        BY <4>1, <1>3
      <4> QED BY <4>2, <4>3, <1>3, <1>4
    <3>1. i = Len(pipe') /\ pipe'[i].event \in {"terminal", "error"} /\ worker'.stage = "finished"
          /\ (pipe'[i].event = "terminal" => reading'.next + Len(pipe') - 1 = Deltas)
      BY <2>1, <2>3, <3>0, <1>1
    <3> QED BY <3>1 DEF InPipe
  <2> QED BY <2>1, <2>2, <2>3 DEF InPipe
<1>14. PipeInOrder'
  <2>1. reading'.next <= worker'.next
    BY <1>1, <1>4, <1>7
  <2>2. worker.stage = "running" => reading'.next + Len(pipe') = worker.next
    BY <1>1, <1>2, <1>3, <1>4, <1>7 DEF PipeInOrder
  <2> QED BY <1>1, <1>7, <1>13, <2>1, <2>2 DEF PipeInOrder
<1>15. ReaderInOrder'
  BY <1>1, <1>2 DEF ReaderInOrder, Sends, Stream!Text, IsDelta
<1> QED BY <1>10, <1>11, <1>12, <1>14, <1>15 DEF AnswerInv

LEMMA AcceptTerminalKeeps == ASSUME AnswerInv, Stream!AcceptTerminal PROVE AnswerInv'
<1> USE AnswersAssumption
<1> DEFINE e == Head(pipe)
<1>1. /\ reading.stage = "reading" /\ response = "open" /\ pipe # << >> /\ e.event # "delta"
      /\ pipe' = Tail(pipe) /\ response' = "closed"
      /\ reading' = IF e.event = "error" \/ reading.terminal THEN [reading EXCEPT !.stage = "failed"]
                    ELSE [reading EXCEPT !.terminal = TRUE]
      /\ UNCHANGED <<worker, broker, reader, evicted>>
  BY DEF Stream!AcceptTerminal
<1>2. AnswerTypes /\ PipeInOrder /\ RingInOrder /\ ReaderInOrder
  BY DEF AnswerInv
<1>3. pipe' \in Seq(Notes) /\ e = pipe[1] /\ Len(pipe) >= 1 /\ Len(pipe) \in Nat
  <2>1. pipe \in Seq(Notes)
    BY <1>2 DEF AnswerTypes
  <2> QED BY <1>1, <2>1
<1> HIDE DEF e
<1>4. ~reading.terminal /\ (e.event # "error" => reading.next = Deltas)
  <2>1. InPipe(1) /\ ~reading.terminal
    BY <1>1, <1>2, <1>3 DEF PipeInOrder
  <2>2. 1 = Len(pipe) /\ (e.event # "error" => reading.next + Len(pipe) - 1 = Deltas)
    BY <2>1, <1>1, <1>3 DEF InPipe, IsDelta
  <2>3. reading.next \in Nat
    BY <1>2 DEF AnswerTypes
  <2>4. Len(pipe) = 1 => reading.next + Len(pipe) - 1 = reading.next
    BY <2>3
  <2> QED BY <2>1, <2>2, <2>4
<1>5. reading \in [next : 0..Deltas, terminal : BOOLEAN, stage : {"reading", "failed", "failed_recorded", "succeeded"}]
  BY <1>2 DEF AnswerTypes
<1>6. /\ reading' \in [next : 0..Deltas, terminal : BOOLEAN, stage : {"reading", "failed", "failed_recorded", "succeeded"}]
      /\ reading'.next = reading.next
      /\ reading'.terminal => reading.next = Deltas
      /\ reading'.stage = "reading" => reading.stage = "reading"
  BY <1>1, <1>4, <1>5
<1>7. AnswerTypes'
  BY <1>1, <1>2, <1>3, <1>6 DEF AnswerTypes
<1>8. PipeInOrder'
  BY <1>1, <1>2, <1>6 DEF PipeInOrder
<1>9. RingInOrder'
  BY <1>1, <1>2, <1>6 DEF RingInOrder, Orderly
<1>10. ReaderInOrder'
  BY <1>1, <1>2 DEF ReaderInOrder, Sends, Stream!Text, IsDelta
<1> QED BY <1>7, <1>8, <1>9, <1>10 DEF AnswerInv

LEMMA OrderEndsKeeps == ASSUME AnswerInv, Stream!OrderEnds PROVE AnswerInv'
<1> USE AnswersAssumption
<1> DEFINE e == Stream!State(IF reading.stage = "failed" THEN "error" ELSE "complete")
           r == Stream!Ring(broker.events, e)
<1>1. /\ (reading.stage = "reading" /\ reading.terminal) \/ reading.stage = "failed"
      /\ broker' = Stream!Published(broker, e)
      /\ reading' = [reading EXCEPT !.stage = IF @ = "failed" THEN "failed_recorded" ELSE "succeeded"]
      /\ UNCHANGED <<worker, pipe, response, reader, evicted>>
  BY DEF Stream!OrderEnds
<1>2. AnswerTypes /\ PipeInOrder /\ RingInOrder /\ ReaderInOrder
  BY DEF AnswerInv
<1>3. e \in Notes /\ ~IsDelta(e) /\ e.event # "delta"
  BY NoteFacts
<1>4. /\ broker.known \in BOOLEAN /\ broker.events \in Seq(Notes) /\ broker.snapshot \in Int
      /\ reading \in [next : 0..Deltas, terminal : BOOLEAN, stage : {"reading", "failed", "failed_recorded", "succeeded"}]
  BY <1>2 DEF AnswerTypes
<1>5. broker' = [known |-> TRUE, events |-> r, snapshot |-> broker.snapshot]
  BY <1>1, <1>3 DEF Stream!Published
<1>6. Orderly(broker.events, broker.snapshot) /\ Follows(e, broker.events, broker.snapshot, broker.snapshot)
  BY <1>2, <1>3, <1>4 DEF RingInOrder, Follows
<1>7. r \in Seq(Notes) /\ r # << >> /\ Orderly(r, broker.snapshot)
  BY <1>3, <1>4, <1>6, RingIsOrderly
<1> HIDE DEF r, e
<1>8. /\ reading' \in [next : 0..Deltas, terminal : BOOLEAN, stage : {"reading", "failed", "failed_recorded", "succeeded"}]
      /\ reading'.next = reading.next /\ reading'.terminal = reading.terminal
      /\ reading'.stage \in {"succeeded", "failed_recorded"}
  BY <1>1, <1>4
<1>9. AnswerTypes'
  <2>1. broker' \in [known : BOOLEAN, events : Seq(Notes), snapshot : Int]
    BY <1>4, <1>5, <1>7
  <2> QED BY <1>1, <1>2, <1>8, <2>1 DEF AnswerTypes
<1>10. PipeInOrder'
  <2>1. response # "open"
    BY <1>1, <1>2 DEF PipeInOrder
  <2> QED BY <2>1, <1>1, <1>2, <1>8 DEF PipeInOrder
<1>11. RingInOrder'
  <2>1. Orderly(broker.events, broker.snapshot)'
    BY <1>5, <1>7 DEF Orderly, IsDelta
  <2>2. broker'.known = TRUE /\ broker'.events # << >> /\ broker'.snapshot = broker.snapshot
    BY <1>5, <1>7
  <2> QED BY <2>1, <2>2, <1>2, <1>8 DEF RingInOrder
<1>12. ReaderInOrder'
  BY <1>1, <1>2 DEF ReaderInOrder, Sends, Stream!Text, IsDelta
<1> QED BY <1>9, <1>10, <1>11, <1>12 DEF AnswerInv

LEMMA EvictKeeps == ASSUME AnswerInv, Stream!Evict PROVE AnswerInv'
<1> USE AnswersAssumption
<1>1. broker' = Stream!NoTask /\ UNCHANGED <<worker, pipe, response, reading, reader>>
  BY DEF Stream!Evict
<1>2. AnswerTypes /\ PipeInOrder /\ RingInOrder /\ ReaderInOrder
  BY DEF AnswerInv
<1>3. broker'.known = FALSE /\ broker'.events = << >> /\ broker'.snapshot = -1
      /\ broker' \in [known : BOOLEAN, events : Seq(Notes), snapshot : Int] /\ reading.next \in Nat
  BY <1>1, <1>2 DEF Stream!NoTask, AnswerTypes
<1>4. AnswerTypes'
  BY <1>1, <1>2, <1>3 DEF AnswerTypes
<1>5. PipeInOrder'
  BY <1>1, <1>2 DEF PipeInOrder, InPipe, IsDelta
<1>6. RingInOrder'
  BY <1>1, <1>3 DEF RingInOrder, Orderly
<1>7. ReaderInOrder'
  BY <1>1, <1>2 DEF ReaderInOrder, Sends, Stream!Text, IsDelta
<1> QED BY <1>4, <1>5, <1>6, <1>7 DEF AnswerInv

(* The browser's steps. *)
LEMMA CopyIsOrderly ==
  ASSUME NEW s \in Seq(Notes), NEW top \in Int, Orderly(s, top), top < worker.next, worker.next \in Int
  PROVE  /\ \A i, j \in 1..Len(s) : i < j /\ IsDelta(s[i]) /\ IsDelta(s[j]) => s[i].sequence < s[j].sequence
         /\ \A i \in 1..Len(s) : IsDelta(s[i]) => s[i].sequence < worker.next
         /\ \A i \in 1..Len(s) : s[i] \in Notes /\ s[i].sequence \in Int
<1>1. \A i \in 1..Len(s) : s[i] \in Notes
  OBVIOUS
<1>2. \A i \in 1..Len(s) : s[i].sequence \in Int
  BY <1>1 DEF Notes
<1>3. \A i, j \in 1..Len(s) : i < j /\ IsDelta(s[i]) /\ IsDelta(s[j]) => s[i].sequence < s[j].sequence
  BY DEF Orderly
<1>4. \A i \in 1..Len(s) : IsDelta(s[i]) => s[i].sequence <= top
  BY DEF Orderly
<1>5. \A i \in 1..Len(s) : IsDelta(s[i]) => s[i].sequence < worker.next
  BY <1>2, <1>4
<1> QED BY <1>1, <1>2, <1>3, <1>5

LEMMA ReplayKeeps == ASSUME AnswerInv, Stream!Replay PROVE AnswerInv'
<1> USE AnswersAssumption
<1> DEFINE s == broker.events
           top == broker.snapshot
           at == reader.cursor
<1>1. /\ UNCHANGED <<worker, pipe, response, reading, broker, evicted>>
      /\ reader.stage = "watching"
      /\ reader' = IF Stream!Gap(at)
                   THEN [cursor |-> top, text |-> Stream!Text(top), stage |-> "watching", from |-> top, events |-> s]
                   ELSE [reader EXCEPT !.from = at, !.events = s]
  BY DEF Stream!Replay
<1>2. AnswerTypes /\ PipeInOrder /\ RingInOrder /\ ReaderInOrder
  BY DEF AnswerInv
<1>3. /\ s \in Seq(Notes) /\ top \in Int /\ at \in Int /\ worker.next \in Nat /\ reading.next \in Nat
      /\ reader \in [cursor : Int, text : Seq(Nat), stage : {"watching", "ended"}, from : Int, events : Seq(Notes)]
  BY <1>2 DEF AnswerTypes
<1>4. /\ Orderly(s, top) /\ -1 <= top /\ top < worker.next
      /\ -1 <= at /\ at < worker.next /\ reader.text = Stream!Text(at)
  BY <1>2, <1>3 DEF RingInOrder, ReaderInOrder, PipeInOrder
<1>g. Stream!Gap(at) <=> /\ top > at
                         /\ \A e \in Stream!ToSet(s) : e.event = "delta" => e.sequence # at + 1
  BY DEF Stream!Gap
<1> HIDE DEF s, top, at
<1>5. /\ \A i, j \in 1..Len(s) : i < j /\ IsDelta(s[i]) /\ IsDelta(s[j]) => s[i].sequence < s[j].sequence
      /\ \A i \in 1..Len(s) : IsDelta(s[i]) => s[i].sequence < worker.next
      /\ \A i \in 1..Len(s) : s[i] \in Notes /\ s[i].sequence \in Int
  BY <1>3, <1>4, CopyIsOrderly
<1>6. CASE Stream!Gap(at)
  <2>1. reader' = [cursor |-> top, text |-> Stream!Text(top), stage |-> "watching", from |-> top, events |-> s]
    BY <1>1, <1>6
  <2>2. Sends(s, top, top)
    BY <1>4, <1>5, <1>3 DEF Orderly, Sends
  <2>3. Stream!Text(top) \in Seq(Nat)
    BY <1>3, <1>4, TextGrows
  <2>4. reader' \in [cursor : Int, text : Seq(Nat), stage : {"watching", "ended"}, from : Int, events : Seq(Notes)]
    BY <2>1, <2>3, <1>3
  <2>5. /\ reader'.cursor = top /\ reader'.from = top /\ reader'.events = s /\ reader'.text = Stream!Text(top)
    BY <2>1
  <2>6. ReaderInOrder'
    <3>1. (reader.text = Stream!Text(reader.cursor))'
      BY <2>5 DEF Stream!Text
    <3>2. Sends(reader.events, reader.from, reader.cursor)'
      BY <2>2, <2>5 DEF Sends, IsDelta
    <3> QED BY <3>1, <3>2, <2>5, <1>1, <1>3, <1>4, <1>5 DEF ReaderInOrder, IsDelta
  <2> QED BY <2>4, <2>6, <1>1, <1>2 DEF AnswerInv, AnswerTypes, PipeInOrder, InPipe, RingInOrder, Orderly, IsDelta
<1>7. CASE ~Stream!Gap(at)
  <2>1. reader' = [reader EXCEPT !.from = at, !.events = s]
    BY <1>1, <1>7
  <2>2. reader' \in [cursor : Int, text : Seq(Nat), stage : {"watching", "ended"}, from : Int, events : Seq(Notes)]
    BY <2>1, <1>3
  <2>3. reader'.cursor = at /\ reader'.from = at /\ reader'.events = s /\ reader'.text = reader.text
    BY <2>1, <1>3 DEF at
  <2>4. ASSUME NEW i \in 1..Len(s), IsDelta(s[i]), s[i].sequence > at
        PROVE  \/ s[i].sequence = at + 1
               \/ i > 1 /\ IsDelta(s[i - 1]) /\ s[i].sequence = s[i - 1].sequence + 1
    <3>1. CASE i > 1 /\ IsDelta(s[i - 1])
      <4>1. i \in 2..Len(s)
        BY <3>1
      <4> QED BY <4>1, <3>1, <2>4, <1>4 DEF Orderly
    <3>2. CASE i > 1 /\ ~IsDelta(s[i - 1])
      <4>1. i \in 2..Len(s)
        BY <3>2
      <4>2. s[i].sequence = 0
        BY <4>1, <3>2, <2>4, <1>4 DEF Orderly
      <4> QED BY <4>2, <2>4, <1>3, <1>4
    <3>3. CASE i = 1
      <4>1. s[1].sequence <= top /\ top > at
        BY <3>3, <2>4, <1>3, <1>4, <1>5 DEF Orderly
      <4>2. PICK e \in Stream!ToSet(s) : e.event = "delta" /\ e.sequence = at + 1
        BY <4>1, <1>g, <1>7
      <4>3. PICK j \in 1..Len(s) : s[j] = e
        BY <4>2 DEF Stream!ToSet
      <4>4. CASE j = 1
        BY <4>2, <4>3, <4>4, <3>3
      <4>5. CASE j > 1
        <5>1. IsDelta(s[1]) /\ IsDelta(s[j]) /\ s[j].sequence = at + 1 /\ 1 \in 1..Len(s)
          BY <4>2, <4>3, <2>4, <3>3 DEF IsDelta
        <5>2. s[1].sequence < s[j].sequence
          BY <5>1, <4>5, <1>5
        <5> QED BY <5>1, <5>2, <2>4, <3>3, <1>3, <1>5
      <4> QED BY <4>3, <4>4, <4>5
    <3> QED BY <3>1, <3>2, <3>3
  <2>5. Sends(s, at, at)
    BY <2>4 DEF Sends
  <2>6. ReaderInOrder'
    <3>1. (reader.text = Stream!Text(reader.cursor))'
      BY <2>3, <1>4 DEF Stream!Text
    <3>2. Sends(reader.events, reader.from, reader.cursor)'
      BY <2>5, <2>3 DEF Sends, IsDelta
    <3> QED BY <3>1, <3>2, <2>3, <1>1, <1>3, <1>4, <1>5 DEF ReaderInOrder, IsDelta
  <2> QED BY <2>2, <2>6, <1>1, <1>2 DEF AnswerInv, AnswerTypes, PipeInOrder, InPipe, RingInOrder, Orderly, IsDelta
<1> QED BY <1>6, <1>7

(* Nothing but the reader moves. *)
LEMMA ReaderMoves ==
  ASSUME AnswerInv, UNCHANGED <<worker, pipe, response, reading, broker, evicted>>,
         (reader \in [cursor : Int, text : Seq(Nat), stage : {"watching", "ended"}, from : Int, events : Seq(Notes)])',
         ReaderInOrder'
  PROVE  AnswerInv'
BY DEF AnswerInv, AnswerTypes, PipeInOrder, InPipe, RingInOrder, Orderly, IsDelta

\* What is left to send once the head of what was sent is dealt with.
Ahead(s, from, cursor) ==
    /\ Sends(s, from, cursor)
    /\ \A i, j \in 1..Len(s) : i < j /\ IsDelta(s[i]) /\ IsDelta(s[j]) => s[i].sequence < s[j].sequence
    /\ \A i \in 1..Len(s) : IsDelta(s[i]) => s[i].sequence < worker.next

LEMMA SendsOn ==
  ASSUME NEW s \in Seq(Notes), s # << >>, NEW from \in Int, NEW cursor \in Int, Ahead(s, from, cursor)
  PROVE  /\ Tail(s) \in Seq(Notes) /\ Head(s) = s[1] /\ s[1] \in Notes
         /\ IsDelta(s[1]) /\ s[1].sequence > from =>
              s[1].sequence = cursor + 1 /\ cursor + 1 < worker.next /\ Ahead(Tail(s), from, cursor + 1)
         /\ ~(IsDelta(s[1]) /\ s[1].sequence > from) => Ahead(Tail(s), from, cursor)
<1> DEFINE r == Tail(s)
<1>1. /\ r \in Seq(Notes) /\ Len(r) = Len(s) - 1 /\ Len(s) \in Nat /\ Len(s) >= 1
      /\ \A i \in 1..Len(r) : r[i] = s[i + 1] /\ i + 1 \in 1..Len(s)
      /\ \A i \in 1..Len(s) : s[i] \in Notes
      /\ Head(s) = s[1]
  OBVIOUS
<1> HIDE DEF r
<1>2. \A i \in 1..Len(s) : s[i].sequence \in Int
  BY <1>1 DEF Notes
<1>3. 1 \in 1..Len(s)
  BY <1>1
<1>4. \A i, j \in 1..Len(r) : i < j /\ IsDelta(r[i]) /\ IsDelta(r[j]) => r[i].sequence < r[j].sequence
  <2> SUFFICES ASSUME NEW i \in 1..Len(r), NEW j \in 1..Len(r), i < j, IsDelta(r[i]), IsDelta(r[j])
               PROVE  r[i].sequence < r[j].sequence
    OBVIOUS
  <2>1. i + 1 \in 1..Len(s) /\ j + 1 \in 1..Len(s) /\ i + 1 < j + 1 /\ r[i] = s[i + 1] /\ r[j] = s[j + 1]
    BY <1>1
  <2> QED BY <2>1 DEF Ahead
<1>5. \A i \in 1..Len(r) : IsDelta(r[i]) => r[i].sequence < worker.next
  BY <1>1 DEF Ahead
<1>6. ASSUME IsDelta(s[1]), s[1].sequence > from
      PROVE  s[1].sequence = cursor + 1 /\ cursor + 1 < worker.next /\ Ahead(r, from, cursor + 1)
  <2>1. s[1].sequence = cursor + 1 /\ cursor + 1 < worker.next
    BY <1>3, <1>6 DEF Ahead, Sends
  <2>2. ASSUME NEW i \in 1..Len(r), IsDelta(r[i])
        PROVE  /\ r[i].sequence > from
               /\ \/ r[i].sequence = cursor + 1 + 1
                  \/ i > 1 /\ IsDelta(r[i - 1]) /\ r[i].sequence = r[i - 1].sequence + 1
    <3>1. r[i] = s[i + 1] /\ i + 1 \in 1..Len(s) /\ i + 1 > 1 /\ (i + 1) - 1 = i
      BY <1>1
    <3>2. s[1].sequence < s[i + 1].sequence
      BY <3>1, <2>2, <1>3, <1>6 DEF Ahead
    <3>3. s[i + 1].sequence > from /\ s[i + 1].sequence # cursor + 1
      BY <3>1, <3>2, <2>1, <1>2, <1>3, <1>6
    <3>4. IsDelta(s[i]) /\ s[i + 1].sequence = s[i].sequence + 1
      BY <3>1, <3>3, <2>2 DEF Ahead, Sends
    <3>5. CASE i = 1
      BY <3>1, <3>3, <3>4, <3>5, <2>1
    <3>6. CASE i > 1
      <4>1. i - 1 \in 1..Len(r) /\ r[i - 1] = s[i]
        BY <3>6, <1>1
      <4> QED BY <4>1, <3>1, <3>3, <3>4, <3>6
    <3> QED BY <3>5, <3>6
  <2>3. Sends(r, from, cursor + 1)
    <3>1. \A i \in 1..Len(r) : r[i].sequence \in Int
      BY <1>1, <1>2
    <3> QED BY <2>2, <3>1 DEF Sends
  <2> QED BY <2>1, <2>3, <1>4, <1>5 DEF Ahead
<1>7. ASSUME ~(IsDelta(s[1]) /\ s[1].sequence > from)
      PROVE  Ahead(r, from, cursor)
  <2>1. ASSUME NEW i \in 1..Len(r), IsDelta(r[i])
        PROVE  /\ r[i].sequence <= from => cursor = from
               /\ r[i].sequence > from =>
                    \/ r[i].sequence = cursor + 1
                    \/ i > 1 /\ IsDelta(r[i - 1]) /\ r[i].sequence = r[i - 1].sequence + 1
    <3>1. r[i] = s[i + 1] /\ i + 1 \in 1..Len(s) /\ i + 1 > 1 /\ (i + 1) - 1 = i
      BY <1>1
    <3>2. r[i].sequence <= from => cursor = from
      BY <3>1, <2>1 DEF Ahead, Sends
    <3>3. ASSUME r[i].sequence > from, r[i].sequence # cursor + 1
          PROVE  i > 1 /\ IsDelta(r[i - 1]) /\ r[i].sequence = r[i - 1].sequence + 1
      <4>1. IsDelta(s[i]) /\ s[i + 1].sequence = s[i].sequence + 1
        BY <3>1, <3>3, <2>1 DEF Ahead, Sends
      <4>2. CASE i = 1
        <5>1. s[1].sequence <= from /\ cursor = from
          BY <4>1, <4>2, <1>2, <1>3, <1>7 DEF Ahead, Sends
        <5>2. s[2].sequence = s[1].sequence + 1 /\ s[2].sequence > from
          BY <4>1, <4>2, <3>1, <3>3
        <5>3. s[1].sequence \in Int /\ s[2].sequence \in Int
          BY <4>2, <3>1, <1>2, <1>3
        <5>4. s[2].sequence = cursor + 1
          BY <5>1, <5>2, <5>3
        <5> QED BY <5>4, <4>2, <3>1, <3>3
      <4>3. CASE i > 1
        <5>1. i - 1 \in 1..Len(r) /\ r[i - 1] = s[i]
          BY <4>3, <1>1
        <5> QED BY <5>1, <4>1, <4>3, <3>1
      <4> QED BY <4>2, <4>3
    <3> QED BY <3>2, <3>3
  <2>2. Sends(r, from, cursor)
    BY <2>1 DEF Sends
  <2> QED BY <2>2, <1>4, <1>5 DEF Ahead
<1> QED BY <1>1, <1>3, <1>6, <1>7 DEF r

LEMMA YieldKeeps == ASSUME AnswerInv, Stream!Yield PROVE AnswerInv'
<1> DEFINE s == reader.events
           e == Head(s)
<1>1. /\ UNCHANGED <<worker, pipe, response, reading, broker, evicted>> /\ s # << >>
      /\ reader' = CASE e.event = "delta" /\ e.sequence > reader.from ->
                          [reader EXCEPT !.cursor = e.sequence, !.text = Append(@, e.sequence), !.events = Tail(@)]
                     [] e.event \in {"complete", "error"} -> [reader EXCEPT !.stage = "ended", !.events = << >>]
                     [] OTHER -> [reader EXCEPT !.events = Tail(@)]
  BY DEF Stream!Yield
<1>2. AnswerTypes /\ ReaderInOrder
  BY DEF AnswerInv
<1>3. /\ reader \in [cursor : Int, text : Seq(Nat), stage : {"watching", "ended"}, from : Int, events : Seq(Notes)]
      /\ s \in Seq(Notes) /\ reader.from \in Int /\ reader.cursor \in Int
  BY <1>2 DEF AnswerTypes
<1>4. /\ Ahead(s, reader.from, reader.cursor) /\ reader.text = Stream!Text(reader.cursor)
      /\ -1 <= reader.cursor /\ reader.from <= reader.cursor /\ reader.cursor < worker.next
  BY <1>2 DEF ReaderInOrder, Ahead
<1> DEFINE r == Tail(s)
<1>5. /\ r \in Seq(Notes) /\ e = s[1] /\ s[1] \in Notes
      /\ IsDelta(s[1]) /\ s[1].sequence > reader.from =>
           s[1].sequence = reader.cursor + 1 /\ reader.cursor + 1 < worker.next
           /\ Ahead(r, reader.from, reader.cursor + 1)
      /\ ~(IsDelta(s[1]) /\ s[1].sequence > reader.from) => Ahead(r, reader.from, reader.cursor)
  BY <1>1, <1>3, <1>4, SendsOn
<1>6. r = Tail(reader.events) /\ s = reader.events
  OBVIOUS
<1> HIDE DEF r, e, s
<1>7. CASE e.event = "delta" /\ e.sequence > reader.from
  <2>1. reader' = [reader EXCEPT !.cursor = e.sequence, !.text = Append(@, e.sequence), !.events = Tail(@)]
    BY <1>1, <1>7
  <2>2. e.sequence = reader.cursor + 1 /\ reader.cursor + 1 < worker.next /\ Ahead(r, reader.from, reader.cursor + 1)
    BY <1>5, <1>7 DEF IsDelta
  <2>3. /\ Append(reader.text, e.sequence) = Stream!Text(reader.cursor + 1)
        /\ Stream!Text(reader.cursor + 1) \in Seq(Nat)
    <3>1. Append(Stream!Text(reader.cursor), reader.cursor + 1) = Stream!Text(reader.cursor + 1)
      BY <1>3, <1>4, TextGrows
    <3>2. reader.cursor + 1 \in Int /\ reader.cursor + 1 >= -1
      BY <1>3, <1>4
    <3>3. Stream!Text(reader.cursor + 1) \in Seq(Nat)
      BY <3>2, TextGrows
    <3> QED BY <3>1, <3>3, <2>2, <1>4
  <2> DEFINE n == e.sequence
             x == Append(reader.text, n)
  <2> HIDE DEF n, x
  <2>4. reader' = [reader EXCEPT !.cursor = n, !.text = x, !.events = r]
    BY <2>1, <1>6 DEF n, x
  <2>5. n \in Int /\ x \in Seq(Nat) /\ n = reader.cursor + 1 /\ x = Stream!Text(n)
    BY <2>2, <2>3, <1>3 DEF n, x
  <2>6. reader' \in [cursor : Int, text : Seq(Nat), stage : {"watching", "ended"}, from : Int, events : Seq(Notes)]
    BY <2>4, <2>5, <1>3, <1>5
  <2>7. reader'.cursor = n /\ reader'.text = x /\ reader'.events = r /\ reader'.from = reader.from
    BY <2>4, <1>3
  <2>8. ReaderInOrder'
    <3>1. (reader.text = Stream!Text(reader.cursor))'
      BY <2>7, <2>5 DEF Stream!Text
    <3>2. Ahead(reader.events, reader.from, reader.cursor)'
      BY <2>2, <2>5, <2>7, <1>1 DEF Ahead, Sends, IsDelta
    <3>3. -1 <= n /\ reader.from <= n /\ n < worker.next
      BY <2>2, <2>5, <1>3, <1>4
    <3> QED BY <3>1, <3>2, <3>3, <2>7, <1>1 DEF ReaderInOrder, Ahead
  <2> QED BY <2>6, <2>8, <1>1, ReaderMoves
<1>8. CASE ~(e.event = "delta" /\ e.sequence > reader.from) /\ e.event \in {"complete", "error"}
  <2> DEFINE x == << >>
  <2>0. x \in Seq(Notes)
    OBVIOUS
  <2>n. x = << >>
    OBVIOUS
  <2> HIDE DEF x
  <2>1. reader' = [reader EXCEPT !.stage = "ended", !.events = x]
    BY <1>1, <1>8, <2>n
  <2>2. reader' \in [cursor : Int, text : Seq(Nat), stage : {"watching", "ended"}, from : Int, events : Seq(Notes)]
    BY <2>0, <2>1, <1>3
  <2>3. reader'.cursor = reader.cursor /\ reader'.text = reader.text /\ reader'.events = << >> /\ reader'.from = reader.from
    BY <2>1, <2>n, <1>3
  <2>4. ReaderInOrder'
    BY <2>3, <1>1, <1>4 DEF ReaderInOrder, Sends, Stream!Text, IsDelta
  <2> QED BY <2>2, <2>4, <1>1, ReaderMoves
<1>9. CASE ~(e.event = "delta" /\ e.sequence > reader.from) /\ e.event \notin {"complete", "error"}
  <2>1. reader' = [reader EXCEPT !.events = r]
    BY <1>1, <1>6, <1>9
  <2>2. reader' \in [cursor : Int, text : Seq(Nat), stage : {"watching", "ended"}, from : Int, events : Seq(Notes)]
    BY <2>1, <1>3, <1>5
  <2>3. reader'.cursor = reader.cursor /\ reader'.text = reader.text /\ reader'.events = r /\ reader'.from = reader.from
    BY <2>1, <1>3
  <2>4. Ahead(r, reader.from, reader.cursor)
    BY <1>5, <1>9 DEF IsDelta
  <2>5. Ahead(reader.events, reader.from, reader.cursor)'
    BY <2>3, <2>4, <1>1 DEF Ahead, Sends, IsDelta
  <2>6. ReaderInOrder'
    BY <2>3, <2>5, <1>1, <1>4 DEF ReaderInOrder, Ahead, Stream!Text
  <2> QED BY <2>2, <2>6, <1>1, ReaderMoves
<1> QED BY <1>7, <1>8, <1>9

LEMMA StatusEndsKeeps == ASSUME AnswerInv, Stream!StatusEnds PROVE AnswerInv'
<1>1. UNCHANGED <<worker, pipe, response, reading, broker, evicted>> /\ reader' = [reader EXCEPT !.stage = "ended"]
  BY DEF Stream!StatusEnds
<1>2. /\ reader \in [cursor : Int, text : Seq(Nat), stage : {"watching", "ended"}, from : Int, events : Seq(Notes)]
      /\ ReaderInOrder
  BY DEF AnswerInv, AnswerTypes
<1>3. reader' \in [cursor : Int, text : Seq(Nat), stage : {"watching", "ended"}, from : Int, events : Seq(Notes)]
  BY <1>1, <1>2
<1>4. reader'.cursor = reader.cursor /\ reader'.text = reader.text /\ reader'.events = reader.events /\ reader'.from = reader.from
  BY <1>1, <1>2
<1>5. ReaderInOrder'
  BY <1>1, <1>2, <1>4 DEF ReaderInOrder, Sends, Stream!Text, IsDelta
<1> QED BY <1>1, <1>3, <1>5, ReaderMoves

LEMMA ReloadKeeps == ASSUME AnswerInv, Stream!Reload PROVE AnswerInv'
<1>1. UNCHANGED <<worker, pipe, response, reading, broker, evicted>> /\ reader' = Stream!Fresh
  BY DEF Stream!Reload
<1>2. /\ reader'.cursor = -1 /\ reader'.text = << >> /\ reader'.events = << >> /\ reader'.from = -1
      /\ reader' \in [cursor : Int, text : Seq(Nat), stage : {"watching", "ended"}, from : Int, events : Seq(Notes)]
  BY <1>1 DEF Stream!Fresh
<1>3. worker.next \in Nat
  BY AnswersAssumption DEF AnswerInv, AnswerTypes
<1>4. ReaderInOrder'
  <2>1. (reader.text = Stream!Text(reader.cursor))'
    BY <1>2 DEF Stream!Text
  <2> QED BY <1>1, <1>2, <1>3, <2>1 DEF ReaderInOrder, Sends, IsDelta
<1> QED BY <1>1, <1>2, <1>4, ReaderMoves

LEMMA AnswersKeep == ASSUME AnswerInv, Stream!AnswerNext PROVE AnswerInv'
BY OnDeltaKeeps, TerminalKeeps, WorkerFailsKeeps, DisconnectKeeps, AcceptDeltaKeeps, AcceptTerminalKeeps,
   OrderEndsKeeps, EvictKeeps, ReplayKeeps, YieldKeeps, StatusEndsKeeps, ReloadKeeps DEF Stream!AnswerNext

LEMMA AnswersStay == ASSUME AnswerInv, UNCHANGED Stream!answerVars PROVE AnswerInv'
BY DEF AnswerInv, AnswerTypes, PipeInOrder, InPipe, RingInOrder, Orderly, ReaderInOrder, Sends, IsDelta,
       Stream!Text, Stream!answerVars

LEMMA AnswersPromise == ASSUME AnswerInv PROVE Stream!LlmStreamSound
<1>1. Stream!TextIsOutput
  BY DEF AnswerInv, ReaderInOrder, Stream!TextIsOutput
<1>2. response \in {"open", "closed"}
  BY DEF AnswerInv, AnswerTypes
<1>3. Stream!PreviewIsHarmless
  BY <1>2 DEF AnswerInv, PipeInOrder, Stream!PreviewIsHarmless
<1> QED BY <1>1, <1>3 DEF Stream!LlmStreamSound

-----------------------------------------------------------------------------
(* All that is sent as a numbered stream.                                      *)

LEMMA FramesStay == ASSUME FramesInv, UNCHANGED Stream!frameVars PROVE FramesInv'
<1>1. FrameTypes'
  BY DEF FramesInv, FrameTypes, Stream!frameVars
<1>2. /\ Relayed' = Relayed /\ Count' = Count /\ (ArrivedAll <=> ArrivedAll') /\ (SourceDone <=> SourceDone')
      /\ \A e \in Stream!Ends : \A f : Coming(e, f) => Coming(e, f)'
      /\ \A e \in Stream!Ends : \A f : Has(e, f) => Has(e, f)'
      /\ \A e \in Stream!Ends : \A f : Remembers(e, f)' => Remembers(e, f)
  BY DEF Relayed, Count, ArrivedAll, SourceDone, Coming, Has, Remembers, Stream!frameVars
<1>3. \A e \in Stream!Ends : Stream!Peer[e] \in Stream!Ends
  BY EndFacts
<1>4. LegsAreHonest'
  BY <1>2, <1>3 DEF FramesInv, LegsAreHonest, Stream!frameVars
<1>5. OneBehind'
  BY <1>2 DEF FramesInv, OneBehind, Stream!frameVars
<1> QED BY <1>1, <1>4, <1>5 DEF FramesInv

LEMMA ExchangeStays == ASSUME ExchangeInv, UNCHANGED iceState PROVE ExchangeInv'
BY DEF ExchangeInv, ExchangeTypes, ReadInOrder, OneAhead, OnTheWay, Answered, Read, Sent, iceState

(* Frames, ICE events and answer deltas arrive in order, once each and without a gap,   *)
(* and an end that was reported was reached by the other side: for any number of frames, *)
(* events and deltas, and any size of what an end remembers, of the queue and of the     *)
(* ring (peer_transit_service.py, p2p.py, llm_package/streaming.py).                     *)
THEOREM StreamsAreIntact == MCSpec => []StreamsIntact
<1> DEFINE I == /\ component = "frames" => FramesInv
                /\ component = "ice" => ExchangeInv
                /\ component = "stream" => AnswerInv
<1>1. MCInit => I
  BY FramesStart, ExchangeStarts, AnswersStart, EventsAssumption DEF MCInit, Stream!Init
<1>2. I /\ [MCNext]_allVars => I'
  <2> SUFFICES ASSUME I, [MCNext]_allVars PROVE I'
    OBVIOUS
  <2>1. CASE FramesStep
    BY <2>1, FramesKeep DEF FramesStep
  <2>2. CASE IceStep
    BY <2>2, ExchangeKeeps, EventsAssumption DEF IceStep
  <2>3. CASE StreamStep
    BY <2>3, AnswersKeep DEF StreamStep
  <2>4. CASE UNCHANGED <<component, streamsState, iceState>>
    <3>1. component' = component
      BY <2>4
    <3>2. UNCHANGED Stream!frameVars /\ UNCHANGED Stream!answerVars
      BY <2>4 DEF streamsState, Stream!frameVars, Stream!answerVars
    <3>3. UNCHANGED iceState
      BY <2>4
    <3>4. ExchangeInv => ExchangeInv'
      BY <3>3, ExchangeStays
    <3> QED BY <3>1, <3>2, <3>4, FramesStay, AnswersStay
  <2>5. component \notin {"frames", "ice", "stream"} => component' = component
    BY DEF MCNext, allVars, RouteStep, FriendsStep, CardsStep, ListStep, FeedStep, TransferStep, FramesStep,
           StreamStep, IceStep, OrdersStep, LettersStep, RelayStep, ContentStep, DirectoryStep, WorkStep
  <2>6. FramesStep \/ IceStep \/ StreamStep \/ UNCHANGED <<component, streamsState, iceState>>
        \/ component \notin {"frames", "ice", "stream"}
    BY DEF MCNext, allVars, RouteStep, FriendsStep, CardsStep, ListStep, FeedStep, TransferStep,
           OrdersStep, LettersStep, RelayStep, ContentStep, DirectoryStep, WorkStep
  <2> QED BY <2>1, <2>2, <2>3, <2>4, <2>5, <2>6
<1>3. I => StreamsIntact
  BY FramesPromise, ExchangePromises, AnswersPromise, EventsAssumption DEF StreamsIntact
<1> QED BY <1>1, <1>2, <1>3, PTL DEF MCSpec

-----------------------------------------------------------------------------
(* Exchange work.                                                              *)

Phases == {"future", "open", "over"}
Places == {"idle", "generate", "store", "challenge"}
Doings == [at : Places, item : Cases \cup Providers \cup {"none"}, job : Jobs \cup {"none"}, share : Shares \cup {-1}]
Receipts == [p : Providers, job : Jobs, at : Nat]
Known == Cases \cup Providers

WorkTypes ==
    /\ phase \in [Cases -> Phases] /\ rewarded \subseteq Providers /\ workClock \in Nat
    /\ ruling \in [Cases -> Shares \cup {-1}] /\ receipt \in [Providers -> Jobs \cup {"none"}]
    /\ cachedAt \in [Providers -> Nat]
    /\ attempts \in [Known -> 0..AttemptLimit] /\ triedAt \in [Known -> Nat]
    /\ judging \in Threads \cup {"none"} /\ witness \in Threads \cup {"none"}
    /\ task \in [Threads -> Doings]
    /\ sentRulings \subseteq Cases \X Shares /\ sentReceipts \subseteq Receipts
    /\ generated \in [Cases -> Nat] /\ probes \in [Providers -> Seq(Nat)]

\* A thread that is running a model, storing a ruling or waiting for a provider
\* holds the lock for it, and the lock is held by nobody else.
Judges(t) == task[t].at \in {"generate", "store"}
LocksHeld ==
    \A t \in Threads :
        /\ Judges(t) <=> judging = t
        /\ task[t].at = "challenge" <=> witness = t
        /\ Judges(t) => task[t].item \in Cases
        /\ task[t].at = "store" => task[t].share \in Shares
        /\ task[t].at = "challenge" => task[t].item \in Providers /\ task[t].job \in Jobs

\* What was sent for an open case is what is stored for it; while a thread works
\* on a case, nothing was sent for it; a case of the future is untouched.
RulingsIn(rul, ph) ==
    /\ \A r \in sentRulings : /\ ph[r[1]] # "future"
                              /\ ph[r[1]] = "open" => rul[r[1]] = r[2]
    /\ \A t \in Threads : Judges(t) =>
          /\ ph[task[t].item] # "future" /\ (ph[task[t].item] = "open" => rul[task[t].item] = -1)
          /\ \A r \in sentRulings : r[1] # task[t].item
    /\ \A r, s \in sentRulings : r[1] = s[1] => r = s
RulingsStored == RulingsIn(ruling, phase)

\* A run of the model is one attempt: those begun and those ended together.
Running(c) == IF \E t \in Threads : task[t].at = "generate" /\ task[t].item = c THEN 1 ELSE 0
RunsIn(att, ph) ==
    \A c \in Cases :
        /\ generated[c] + Running(c) <= AttemptLimit
        /\ ph[c] = "future" => generated[c] + Running(c) = 0
        /\ ph[c] = "open" => generated[c] + Running(c) <= att[c]
RunsCounted == RunsIn(attempts, phase)

\* A receipt that is not too old is cached, until its provider has its reward; while
\* a thread waits for a provider, every receipt for it is too old.
Old(r) == workClock - r.at > Expiry
ReceiptsIn(rec, rw) ==
    /\ \A r \in sentReceipts :
          r.at <= workClock /\ (Old(r) \/ r.p \in rw \/ (rec[r.p] = r.job /\ cachedAt[r.p] = r.at))
    /\ \A t \in Threads : task[t].at = "challenge" =>
          rec[task[t].item] = "none" /\ \A r \in sentReceipts : r.p = task[t].item => Old(r)
    /\ \A x, y \in sentReceipts : x.p = y.p /\ x.job # y.job /\ x.at <= y.at => y.at - x.at > Expiry
ReceiptsCached == ReceiptsIn(receipt, rewarded)

\* The probes of a provider since its row began are counted; what is a full row
\* further back is at least Expiry older than the row, or older than Expiry now.
ProbesOf(p, a, rw) ==
    LET s == probes[p]
        b == Len(s) - a
    IN  /\ b >= 0
        /\ \A n \in 1..Len(s) : s[n] <= workClock
        /\ a > 0 => /\ \A n \in 1..b : s[n] <= triedAt[p]
                    /\ \A n \in 1..(b - AttemptLimit) : s[n] + Expiry < triedAt[p]
                    /\ triedAt[p] <= workClock
        /\ a = 0 => p \in rw \/ \A n \in 1..(Len(s) - AttemptLimit) : s[n] + Expiry < workClock
        /\ \A n \in 1..(Len(s) - 2 * AttemptLimit) : s[n + 2 * AttemptLimit] - s[n] > Expiry
ProbesIn(att, rw) == \A p \in Providers : ProbesOf(p, att[p], rw)
ProbesCounted == ProbesIn(attempts, rewarded)

WorkInv == WorkTypes /\ LocksHeld /\ RulingsStored /\ RunsCounted /\ ReceiptsCached /\ ProbesCounted

(* A node begins without rulings, receipts and attempts (ExchangeService, fresh tables). *)
LEMMA WorkStarts == Work!Init => WorkInv
<1> SUFFICES ASSUME Work!Init PROVE WorkInv
  OBVIOUS
<1> USE WorkAssumption DEF Work!Init, Work!NoTask, Work!None, Work!NoRuling
<1>1. WorkTypes
  BY DEF WorkTypes, Phases, Doings, Places, Known
<1>2. LocksHeld
  BY DEF LocksHeld, Judges
<1>3. RulingsStored
  BY DEF RulingsStored, RulingsIn, Judges
<1>4. RunsCounted
  BY DEF RunsCounted, RunsIn, Running, Known
<1>5. ReceiptsCached
  BY DEF ReceiptsCached, ReceiptsIn
<1>6. ProbesCounted
  BY DEF ProbesCounted, ProbesIn, ProbesOf, Known
<1> QED BY <1>1, <1>2, <1>3, <1>4, <1>5, <1>6 DEF WorkInv

(* What prune_work leaves of the tables (exchange/ledger.py). *)
LEMMA PrunedFields ==
  ASSUME NEW ph, NEW rw, NEW now, now = Work!Pruned(ph, rw)
  PROVE  /\ now.ruling = [c \in Cases |-> IF ph[c] = "open" THEN ruling[c] ELSE -1]
         /\ now.receipt = [p \in Providers |-> IF p \in rw \/ cachedAt[p] < workClock - Expiry
                                               THEN "none" ELSE receipt[p]]
         /\ now.attempts = [x \in Known |->
                IF \/ x \in Cases /\ ph[x] # "open"
                   \/ x \in Providers /\ (x \in rw \/ triedAt[x] < workClock - Expiry)
                THEN 0 ELSE attempts[x]]
BY DEF Work!Pruned, Work!Stale, Work!None, Work!NoRuling, Known

(* A pruning at a commit, or before a request, keeps what has to be remembered (prune_work). *)
LEMMA PrunedKeeps ==
  ASSUME WorkInv, NEW ph \in [Cases -> Phases], NEW rw \in SUBSET Providers, NEW now, now = Work!Pruned(ph, rw),
         rewarded \subseteq rw,
         \A c \in Cases : \/ ph[c] = phase[c]
                          \/ phase[c] = "future" /\ ph[c] = "open"
                          \/ phase[c] = "open" /\ ph[c] = "over"
  PROVE  /\ now.ruling \in [Cases -> Shares \cup {-1}] /\ now.receipt \in [Providers -> Jobs \cup {"none"}]
         /\ now.attempts \in [Known -> 0..AttemptLimit]
         /\ RulingsIn(now.ruling, ph) /\ RunsIn(now.attempts, ph)
         /\ ReceiptsIn(now.receipt, rw) /\ ProbesIn(now.attempts, rw)
<1> DEFINE R == now.ruling
           C == now.receipt
           A == now.attempts
<1>f. /\ R = [c \in Cases |-> IF ph[c] = "open" THEN ruling[c] ELSE -1]
      /\ C = [p \in Providers |-> IF p \in rw \/ cachedAt[p] < workClock - Expiry THEN "none" ELSE receipt[p]]
      /\ A = [x \in Known |->
                IF \/ x \in Cases /\ ph[x] # "open"
                   \/ x \in Providers /\ (x \in rw \/ triedAt[x] < workClock - Expiry)
                THEN 0 ELSE attempts[x]]
  BY PrunedFields
<1> HIDE DEF R, C, A
<1>t. WorkTypes /\ LocksHeld
  BY DEF WorkInv
<1>1. R \in [Cases -> Shares \cup {-1}] /\ C \in [Providers -> Jobs \cup {"none"}] /\ A \in [Known -> 0..AttemptLimit]
  BY <1>f, <1>t, WorkAssumption DEF WorkTypes
<1>2. RulingsIn(R, ph)
  <2>1. \A r \in sentRulings : r[1] \in Cases
    BY <1>t DEF WorkTypes
  <2>2. \A t \in Threads : Judges(t) => task[t].item \in Cases
    BY <1>t DEF LocksHeld
  <2> QED BY <1>f, <1>t, <2>1, <2>2 DEF WorkInv, RulingsStored, RulingsIn, WorkTypes, Phases
<1>3. RunsIn(A, ph)
  <2> SUFFICES ASSUME NEW c \in Cases
               PROVE  /\ generated[c] + Running(c) <= AttemptLimit
                      /\ ph[c] = "future" => generated[c] + Running(c) = 0
                      /\ ph[c] = "open" => generated[c] + Running(c) <= A[c]
    BY DEF RunsIn
  <2>1. ph[c] = "open" => A[c] = attempts[c]
    BY <1>f, WorkAssumption DEF Known
  <2>2. Running(c) \in Nat /\ generated[c] \in Nat /\ attempts[c] \in Nat
    BY <1>t, WorkAssumption DEF Running, WorkTypes, Known
  <2>3. /\ generated[c] + Running(c) <= AttemptLimit
        /\ phase[c] = "future" => generated[c] + Running(c) = 0
        /\ phase[c] = "open" => generated[c] + Running(c) <= attempts[c]
    BY DEF WorkInv, RunsCounted, RunsIn
  <2> QED BY <2>1, <2>2, <2>3
<1>4. ReceiptsIn(C, rw)
  <2>1. \A r \in sentReceipts : r.p \in Providers /\ r.job \in Jobs /\ r.at \in Nat
    BY <1>t DEF WorkTypes, Receipts
  <2>2. \A t \in Threads : task[t].at = "challenge" => task[t].item \in Providers
    BY <1>t DEF LocksHeld
  <2>3. ASSUME NEW r \in sentReceipts
        PROVE  r.at <= workClock /\ (Old(r) \/ r.p \in rw \/ (C[r.p] = r.job /\ cachedAt[r.p] = r.at))
    <3>1. r.at <= workClock /\ (Old(r) \/ r.p \in rewarded \/ (receipt[r.p] = r.job /\ cachedAt[r.p] = r.at))
      BY DEF WorkInv, ReceiptsCached, ReceiptsIn
    <3>2. workClock \in Nat /\ r.p \in Providers /\ r.at \in Nat
      BY <1>t, <2>1 DEF WorkTypes
    <3> QED BY <1>f, <3>1, <3>2, WorkAssumption DEF Old
  <2>4. ASSUME NEW t \in Threads, task[t].at = "challenge"
        PROVE  C[task[t].item] = "none" /\ \A r \in sentReceipts : r.p = task[t].item => Old(r)
    BY <1>f, <2>2, <2>4 DEF WorkInv, ReceiptsCached, ReceiptsIn
  <2>5. \A x, y \in sentReceipts : x.p = y.p /\ x.job # y.job /\ x.at <= y.at => y.at - x.at > Expiry
    BY DEF WorkInv, ReceiptsCached, ReceiptsIn
  <2> QED BY <2>3, <2>4, <2>5 DEF ReceiptsIn
<1>5. ProbesIn(A, rw)
  <2> SUFFICES ASSUME NEW p \in Providers PROVE ProbesOf(p, A[p], rw)
    BY DEF ProbesIn
  <2>1. ProbesOf(p, attempts[p], rewarded)
    BY DEF WorkInv, ProbesCounted, ProbesIn
  <2>2. /\ probes[p] \in Seq(Nat) /\ triedAt[p] \in Nat /\ workClock \in Nat /\ attempts[p] \in 0..AttemptLimit
        /\ Len(probes[p]) \in Nat
    BY <1>t DEF WorkTypes, Known
  <2>3. A[p] = attempts[p] \/ (A[p] = 0 /\ (p \in rw \/ triedAt[p] < workClock - Expiry))
    BY <1>f, WorkAssumption DEF Known
  <2>4. CASE A[p] = attempts[p]
    BY <2>1, <2>4 DEF ProbesOf
  <2>5. CASE A[p] = 0 /\ attempts[p] > 0 /\ (p \in rw \/ triedAt[p] < workClock - Expiry)
    <3> DEFINE s == probes[p]
    <3>1. /\ Len(s) - attempts[p] >= 0
          /\ \A n \in 1..Len(s) : s[n] <= workClock
          /\ \A n \in 1..(Len(s) - attempts[p]) : s[n] <= triedAt[p]
          /\ \A n \in 1..(Len(s) - 2 * AttemptLimit) : s[n + 2 * AttemptLimit] - s[n] > Expiry
      BY <2>1, <2>5 DEF ProbesOf
    <3>2. p \in rw \/ \A n \in 1..(Len(s) - AttemptLimit) : s[n] + Expiry < workClock
      <4>1. ASSUME p \notin rw, NEW n \in 1..(Len(s) - AttemptLimit) PROVE s[n] + Expiry < workClock
        <5>1. n \in 1..(Len(s) - attempts[p]) /\ n \in 1..Len(s)
          BY <2>2, WorkAssumption
        <5>2. s[n] \in Nat /\ s[n] <= triedAt[p]
          BY <5>1, <3>1, <2>2
        <5>3. triedAt[p] < workClock - Expiry
          BY <2>5, <4>1
        <5>4. triedAt[p] \in Nat /\ workClock \in Nat
          BY <2>2
        <5> HIDE DEF s
        <5> QED BY ONLY <5>2, <5>3, <5>4, WorkAssumption
      <4> QED BY <4>1
    <3> QED BY <2>5, <2>2, <3>1, <3>2 DEF ProbesOf
  <2> QED BY <2>2, <2>3, <2>4, <2>5
<1> QED BY <1>1, <1>2, <1>3, <1>4, <1>5 DEF R, C, A

(* A commit of a block, and sync: nothing but the pruning (Ledger.commit). *)
LEMMA CommitKeeps ==
  ASSUME WorkInv, Work!Committed, phase' \in [Cases -> Phases], rewarded' \in SUBSET Providers,
         rewarded \subseteq rewarded',
         \A c \in Cases : \/ phase'[c] = phase[c]
                          \/ phase[c] = "future" /\ phase'[c] = "open"
                          \/ phase[c] = "open" /\ phase'[c] = "over"
  PROVE  WorkInv'
<1> DEFINE now == Work!Pruned(phase', rewarded')
<1>1. /\ now.ruling \in [Cases -> Shares \cup {-1}] /\ now.receipt \in [Providers -> Jobs \cup {"none"}]
      /\ now.attempts \in [Known -> 0..AttemptLimit]
      /\ RulingsIn(now.ruling, phase') /\ RunsIn(now.attempts, phase')
      /\ ReceiptsIn(now.receipt, rewarded') /\ ProbesIn(now.attempts, rewarded')
  BY PrunedKeeps
<1>2. /\ ruling' = now.ruling /\ receipt' = now.receipt /\ attempts' = now.attempts
      /\ UNCHANGED <<cachedAt, triedAt, workClock, judging, witness, task, sentRulings, sentReceipts, generated, probes>>
  BY DEF Work!Committed, Work!history
<1> HIDE DEF now
<1>3. WorkTypes'
  BY <1>1, <1>2 DEF WorkInv, WorkTypes
<1>4. LocksHeld'
  BY <1>2 DEF WorkInv, LocksHeld, Judges
<1>5. RulingsStored'
  BY <1>1, <1>2 DEF RulingsStored, RulingsIn, Judges
<1>6. RunsCounted'
  BY <1>1, <1>2 DEF RunsCounted, RunsIn, Running
<1>7. ReceiptsCached'
  BY <1>1, <1>2 DEF ReceiptsCached, ReceiptsIn, Old
<1>8. ProbesCounted'
  BY <1>1, <1>2 DEF ProbesCounted, ProbesIn, ProbesOf
<1> QED BY <1>3, <1>4, <1>5, <1>6, <1>7, <1>8 DEF WorkInv

(* The commits: a case opens or closes, a provider has its reward, sync. *)
LEMMA CommitsKeep ==
  ASSUME WorkInv, \/ \E c \in Cases : Work!CaseOpens(c) \/ Work!CaseCloses(c)
                  \/ \E p \in Providers : Work!Rewarded(p)
                  \/ Work!Sync
  PROVE  WorkInv'
<1>t. phase \in [Cases -> Phases] /\ rewarded \in SUBSET Providers
  BY DEF WorkInv, WorkTypes
<1>1. ASSUME NEW c \in Cases, Work!CaseOpens(c) PROVE WorkInv'
  <2>1. phase[c] = "future" /\ phase' = [phase EXCEPT ![c] = "open"] /\ rewarded' = rewarded /\ Work!Committed
    BY <1>1 DEF Work!CaseOpens
  <2>2. phase' \in [Cases -> Phases]
    BY <1>t, <2>1 DEF Phases
  <2>3. \A d \in Cases : phase'[d] = phase[d] \/ (phase[d] = "future" /\ phase'[d] = "open")
    BY <1>t, <2>1
  <2> QED BY <1>t, <2>1, <2>2, <2>3, CommitKeeps
<1>2. ASSUME NEW c \in Cases, Work!CaseCloses(c) PROVE WorkInv'
  <2>1. phase[c] = "open" /\ phase' = [phase EXCEPT ![c] = "over"] /\ rewarded' = rewarded /\ Work!Committed
    BY <1>2 DEF Work!CaseCloses
  <2>2. phase' \in [Cases -> Phases]
    BY <1>t, <2>1 DEF Phases
  <2>3. \A d \in Cases : phase'[d] = phase[d] \/ (phase[d] = "open" /\ phase'[d] = "over")
    BY <1>t, <2>1
  <2> QED BY <1>t, <2>1, <2>2, <2>3, CommitKeeps
<1>3. ASSUME NEW p \in Providers, Work!Rewarded(p) PROVE WorkInv'
  <2>1. phase' = phase /\ rewarded' = rewarded \cup {p} /\ Work!Committed
    BY <1>3 DEF Work!Rewarded
  <2> QED BY <1>t, <2>1, CommitKeeps
<1>4. CASE Work!Sync
  <2>1. phase' = phase /\ rewarded' = rewarded /\ Work!Committed
    BY <1>4 DEF Work!Sync
  <2> QED BY <1>t, <2>1, CommitKeeps
<1> QED BY <1>1, <1>2, <1>3, <1>4

(* The clock goes on: what was old stays old. *)
LEMMA TickKeeps == ASSUME WorkInv, Work!Tick PROVE WorkInv'
<1>1. /\ workClock' = workClock + 1
      /\ UNCHANGED <<phase, rewarded, ruling, receipt, cachedAt, attempts, triedAt, judging, witness, task,
                     sentRulings, sentReceipts, generated, probes>>
  BY DEF Work!Tick, Work!tables, Work!history
<1>t. WorkTypes
  BY DEF WorkInv
<1>2. workClock \in Nat /\ workClock' \in Nat /\ workClock < workClock'
  BY <1>t, <1>1 DEF WorkTypes
<1>3. WorkTypes'
  BY <1>t, <1>1, <1>2 DEF WorkTypes
<1>4. LocksHeld' /\ RulingsStored' /\ RunsCounted'
  BY <1>1 DEF WorkInv, LocksHeld, Judges, RulingsStored, RulingsIn, RunsCounted, RunsIn, Running
<1>5. ReceiptsCached'
  <2>1. \A r \in sentReceipts : r.at \in Nat
    BY <1>t DEF WorkTypes, Receipts
  <2>2. \A r \in sentReceipts : (Old(r) => Old(r)') /\ (r.at <= workClock => r.at <= workClock')
    BY <1>1, <1>2, <2>1, WorkAssumption DEF Old
  <2> QED BY <1>1, <2>2 DEF WorkInv, ReceiptsCached, ReceiptsIn
<1>6. ProbesCounted'
  <2> SUFFICES ASSUME NEW p \in Providers PROVE ProbesOf(p, attempts[p], rewarded)'
    BY <1>1 DEF ProbesCounted, ProbesIn
  <2>1. ProbesOf(p, attempts[p], rewarded)
    BY DEF WorkInv, ProbesCounted, ProbesIn
  <2>2. probes[p] \in Seq(Nat) /\ triedAt[p] \in Nat /\ attempts[p] \in 0..AttemptLimit /\ Len(probes[p]) \in Nat
    BY <1>t DEF WorkTypes, Known
  <2>3. \A n \in 1..Len(probes[p]) : probes[p][n] \in Nat
    BY <2>2
  <2>4. \A n \in 1..(Len(probes[p]) - AttemptLimit) : n \in 1..Len(probes[p])
    BY <2>2, WorkAssumption
  <2>5. UNCHANGED <<probes, triedAt, attempts, rewarded>> /\ probes[p]' = probes[p]
    BY <1>1
  <2>6. \A n \in 1..Len(probes[p]) : probes[p][n] <= workClock'
    BY <1>2, <2>1, <2>3 DEF ProbesOf
  <2>7. triedAt[p] <= workClock => triedAt[p] <= workClock'
    BY <1>2, <2>2
  <2>8. \A n \in 1..(Len(probes[p]) - AttemptLimit) :
           probes[p][n] + Expiry < workClock => probes[p][n] + Expiry < workClock'
    BY <1>2, <2>3, <2>4, WorkAssumption
  <2> QED BY <2>1, <2>5, <2>6, <2>7, <2>8 DEF ProbesOf
<1> QED BY <1>3, <1>4, <1>5, <1>6 DEF WorkInv

(* A restart: the threads and their locks are gone, the tables stay. *)
LEMMA CrashKeeps == ASSUME WorkInv, Work!Crash PROVE WorkInv'
<1>1. /\ task' = [t \in Threads |-> Work!NoTask] /\ judging' = "none" /\ witness' = "none"
      /\ UNCHANGED <<phase, rewarded, workClock, ruling, receipt, cachedAt, attempts, triedAt,
                     sentRulings, sentReceipts, generated, probes>>
  BY DEF Work!Crash, Work!None, Work!tables, Work!history
<1>2. \A t \in Threads : task'[t].at = "idle"
  BY <1>1 DEF Work!NoTask
<1>t. WorkTypes
  BY DEF WorkInv
<1>3. WorkTypes'
  <2>1. Work!NoTask \in Doings
    BY DEF Work!NoTask, Work!None, Work!NoRuling, Doings, Places
  <2> QED BY <1>t, <1>1, <2>1 DEF WorkTypes
<1>4. LocksHeld'
  BY <1>1, <1>2, WorkAssumption DEF LocksHeld, Judges
<1>5. RulingsStored'
  BY <1>1, <1>2 DEF WorkInv, RulingsStored, RulingsIn, Judges
<1>6. RunsCounted'
  <2> SUFFICES ASSUME NEW c \in Cases
               PROVE  /\ (generated[c] + Running(c) <= AttemptLimit)'
                      /\ (phase[c] = "future" => generated[c] + Running(c) = 0)'
                      /\ (phase[c] = "open" => generated[c] + Running(c) <= attempts[c])'
    BY DEF RunsCounted, RunsIn
  <2>1. Running(c)' = 0 /\ Running(c) \in {0, 1}
    BY <1>2 DEF Running
  <2>2. generated[c] \in Nat /\ attempts[c] \in Nat
    BY <1>t, WorkAssumption DEF WorkTypes, Known
  <2>3. /\ generated[c] + Running(c) <= AttemptLimit
        /\ phase[c] = "future" => generated[c] + Running(c) = 0
        /\ phase[c] = "open" => generated[c] + Running(c) <= attempts[c]
    BY DEF WorkInv, RunsCounted, RunsIn
  <2> QED BY <1>1, <2>1, <2>2, <2>3, WorkAssumption
<1>7. ReceiptsCached'
  BY <1>1, <1>2 DEF WorkInv, ReceiptsCached, ReceiptsIn, Old
<1>8. ProbesCounted'
  BY <1>1 DEF WorkInv, ProbesCounted, ProbesIn, ProbesOf
<1> QED BY <1>3, <1>4, <1>5, <1>6, <1>7, <1>8 DEF WorkInv
(* A judge returns the ruling it has stored: it is the one sent before (_judge). *)
LEMMA StoredRulingKeeps ==
  ASSUME WorkInv, NEW t \in Threads, NEW c \in Cases, NEW now, now = Work!Pruned(phase, rewarded),
         phase[c] = "open", now.ruling[c] # -1,
         ruling' = now.ruling, receipt' = now.receipt, attempts' = now.attempts,
         sentRulings' = sentRulings \cup {<<c, now.ruling[c]>>},
         UNCHANGED <<phase, rewarded, workClock, cachedAt, triedAt, judging, witness, task,
                     sentReceipts, generated, probes>>
  PROVE  WorkInv'
<1>t. WorkTypes /\ LocksHeld
  BY DEF WorkInv
<1>1. /\ now.ruling \in [Cases -> Shares \cup {-1}] /\ now.receipt \in [Providers -> Jobs \cup {"none"}]
      /\ now.attempts \in [Known -> 0..AttemptLimit]
      /\ RulingsIn(now.ruling, phase) /\ RunsIn(now.attempts, phase)
      /\ ReceiptsIn(now.receipt, rewarded) /\ ProbesIn(now.attempts, rewarded)
  <2>1. phase \in [Cases -> Phases] /\ rewarded \in SUBSET Providers
    BY <1>t DEF WorkTypes
  <2> QED BY <2>1, PrunedKeeps
<1>2. now.ruling[c] \in Shares
  BY <1>1
<1>3. WorkTypes'
  BY <1>t, <1>1, <1>2 DEF WorkTypes
<1>4. LocksHeld'
  BY <1>t DEF LocksHeld, Judges
<1>5. RulingsStored'
  <2>1. \A r \in sentRulings : r \in Cases \X Shares
    BY <1>t DEF WorkTypes
  <2>2. \A r \in sentRulings : r = <<r[1], r[2]>>
    BY <2>1
  <2>3. \A u \in Threads : Judges(u) => task[u].item # c
    BY <1>1 DEF RulingsIn
  <2>4. \A r \in sentRulings : r[1] = c => r = <<c, now.ruling[c]>>
    BY <1>1, <2>2 DEF RulingsIn
  <2> QED BY <1>1, <2>3, <2>4 DEF RulingsStored, RulingsIn, Judges
<1>6. RunsCounted'
  BY <1>1 DEF RunsCounted, RunsIn, Running
<1>7. ReceiptsCached'
  BY <1>1 DEF ReceiptsCached, ReceiptsIn, Old
<1>8. ProbesCounted'
  BY <1>1 DEF ProbesCounted, ProbesIn, ProbesOf
<1> QED BY <1>3, <1>4, <1>5, <1>6, <1>7, <1>8 DEF WorkInv

(* A judge spends an attempt and runs its model: nothing was sent for the case (_judge). *)
LEMMA ModelRunKeeps ==
  ASSUME WorkInv, NEW t \in Threads, NEW c \in Cases, NEW now, now = Work!Pruned(phase, rewarded),
         task[t] = Work!NoTask, judging = "none", phase[c] = "open", now.ruling[c] = -1,
         now.attempts[c] < AttemptLimit,
         ruling' = now.ruling, receipt' = now.receipt,
         attempts' = [now.attempts EXCEPT ![c] = @ + 1],
         triedAt' = [triedAt EXCEPT ![c] = IF now.attempts[c] = 0 THEN workClock ELSE @],
         judging' = t,
         task' = [task EXCEPT ![t] = [at |-> "generate", item |-> c, job |-> "none", share |-> -1]],
         UNCHANGED <<phase, rewarded, workClock, cachedAt, witness, sentRulings,
                     sentReceipts, generated, probes>>
  PROVE  WorkInv'
<1>t. WorkTypes /\ LocksHeld
  BY DEF WorkInv
<1> DEFINE A == now.attempts
<1>1. /\ now.ruling \in [Cases -> Shares \cup {-1}] /\ now.receipt \in [Providers -> Jobs \cup {"none"}]
      /\ A \in [Known -> 0..AttemptLimit]
      /\ RulingsIn(now.ruling, phase) /\ RunsIn(A, phase)
      /\ ReceiptsIn(now.receipt, rewarded) /\ ProbesIn(A, rewarded)
  <2>1. phase \in [Cases -> Phases] /\ rewarded \in SUBSET Providers
    BY <1>t DEF WorkTypes
  <2> QED BY <2>1, PrunedKeeps
<1>2. /\ attempts' = [A EXCEPT ![c] = A[c] + 1] /\ A[c] < AttemptLimit /\ A[c] \in Nat /\ c \in Known
      /\ attempts' \in [Known -> 0..AttemptLimit]
  <2>1. c \in Known /\ A[c] \in 0..AttemptLimit
    BY <1>1 DEF Known
  <2>2. A[c] + 1 \in 0..AttemptLimit
    BY <2>1, WorkAssumption
  <2>3. attempts' = [A EXCEPT ![c] = A[c] + 1]
    OBVIOUS
  <2>4. A[c] < AttemptLimit /\ A \in [Known -> 0..AttemptLimit]
    BY <1>1
  <2> HIDE DEF A
  <2>5. A[c] \in Nat
    BY <2>1
  <2>6. attempts' \in [Known -> 0..AttemptLimit]
    BY ONLY <2>1, <2>2, <2>3, <2>4
  <2> QED BY ONLY <2>1, <2>3, <2>4, <2>5, <2>6
<1>e. A[c] < AttemptLimit
  OBVIOUS
<1> HIDE DEF A
<1>3. /\ task'[t] = [at |-> "generate", item |-> c, job |-> "none", share |-> -1]
      /\ \A u \in Threads \ {t} : task'[u] = task[u]
  BY <1>t DEF WorkTypes
<1>4. \A u \in Threads : ~Judges(u)
  BY <1>t, WorkAssumption DEF LocksHeld
<1>5. task[t].at = "idle"
  BY DEF Work!NoTask
<1>6. \A u \in Threads : Judges(u)' <=> u = t
  BY <1>3, <1>4 DEF Judges
<1>7. WorkTypes'
  <2>1. task'[t] \in Doings
    BY <1>3 DEF Doings, Places
  <2>2. task' \in [Threads -> Doings]
    BY <1>t, <2>1, <1>3 DEF WorkTypes
  <2>3. triedAt' \in [Known -> Nat]
    BY <1>t DEF WorkTypes
  <2> QED BY <1>t, <1>1, <1>2, <2>2, <2>3 DEF WorkTypes
<1>8. LocksHeld'
  <2> SUFFICES ASSUME NEW u \in Threads
               PROVE  /\ (Judges(u) <=> judging = u)'
                      /\ (task[u].at = "challenge" <=> witness = u)'
                      /\ (Judges(u) => task[u].item \in Cases)'
                      /\ (task[u].at = "store" => task[u].share \in Shares)'
                      /\ (task[u].at = "challenge" => task[u].item \in Providers /\ task[u].job \in Jobs)'
    BY DEF LocksHeld
  <2>1. CASE u = t
    BY <2>1, <1>3, <1>5, <1>6, <1>t DEF LocksHeld
  <2>2. CASE u # t
    BY <2>2, <1>3, <1>6, <1>t DEF LocksHeld, Judges
  <2> QED BY <2>1, <2>2
<1>9. RulingsStored'
  <2>1. \A r \in sentRulings : r[2] \in Shares
    BY <1>t DEF WorkTypes
  <2>2. \A r \in sentRulings : r[1] # c
    BY <1>1, <2>1, WorkAssumption DEF RulingsIn
  <2> QED BY <1>1, <1>3, <1>6, <2>2 DEF RulingsStored, RulingsIn
<1>10. RunsCounted'
  <2> SUFFICES ASSUME NEW d \in Cases
               PROVE  /\ (generated[d] + Running(d) <= AttemptLimit)'
                      /\ (phase[d] = "future" => generated[d] + Running(d) = 0)'
                      /\ (phase[d] = "open" => generated[d] + Running(d) <= attempts[d])'
    BY DEF RunsCounted, RunsIn
  <2>1. Running(d) = 0
    BY <1>4 DEF Running, Judges
  <2>2. Running(d)' = IF d = c THEN 1 ELSE 0
    BY <1>3, <1>6 DEF Running, Judges
  <2>3. generated[d] \in Nat /\ A[d] \in Nat /\ attempts'[d] = IF d = c THEN A[c] + 1 ELSE A[d]
    BY <1>t, <1>1, <1>2, WorkAssumption DEF WorkTypes, Known
  <2>4. /\ generated[d] + Running(d) <= AttemptLimit
        /\ phase[d] = "future" => generated[d] + Running(d) = 0
        /\ phase[d] = "open" => generated[d] + Running(d) <= A[d]
    BY <1>1 DEF RunsIn
  <2>5. generated'[d] = generated[d] /\ phase'[d] = phase[d]
    OBVIOUS
  <2>6. phase[c] = "open"
    OBVIOUS
  <2> QED BY ONLY <2>1, <2>2, <2>3, <2>4, <2>5, <2>6, <1>2, <1>e, WorkAssumption
<1>11. ReceiptsCached'
  <2>1. \A u \in Threads : task'[u].at = "challenge" => task'[u] = task[u]
    BY <1>3
  <2> QED BY <1>1, <2>1 DEF ReceiptsCached, ReceiptsIn, Old
<1>12. ProbesCounted'
  <2> SUFFICES ASSUME NEW p \in Providers PROVE ProbesOf(p, attempts[p], rewarded)'
    BY DEF ProbesCounted, ProbesIn
  <2>1. p \in Known /\ p # c
    BY WorkAssumption DEF Known
  <2>2. attempts'[p] = A[p] /\ triedAt'[p] = triedAt[p]
    BY <1>t, <1>1, <1>2, <2>1 DEF WorkTypes
  <2> QED BY <1>1, <2>2 DEF ProbesIn, ProbesOf
<1> QED BY <1>7, <1>8, <1>9, <1>10, <1>11, <1>12 DEF WorkInv

(* A request to judge. *)
LEMMA JudgeKeeps ==
  ASSUME WorkInv, NEW t \in Threads, NEW c \in Cases, Work!JudgeRequest(t, c)
  PROVE  WorkInv'
<1> DEFINE now == Work!Pruned(phase, rewarded)
<1>1. /\ task[t] = Work!NoTask /\ judging = "none" /\ phase[c] = "open"
      /\ ruling' = now.ruling /\ receipt' = now.receipt
      /\ UNCHANGED <<phase, rewarded, workClock, cachedAt, witness, sentReceipts, generated, probes>>
  BY DEF Work!JudgeRequest, Work!Free, Work!None
<1>2. CASE /\ now.ruling[c] # -1 /\ sentRulings' = sentRulings \cup {<<c, now.ruling[c]>>}
           /\ attempts' = now.attempts /\ UNCHANGED <<triedAt, judging, task>>
  <2> HIDE DEF now
  <2>1. now = Work!Pruned(phase, rewarded)
    BY DEF now
  <2> QED BY <1>1, <1>2, <2>1, StoredRulingKeeps
<1>3. CASE /\ now.ruling[c] = -1 /\ Work!Attempt(c, now.attempts) /\ judging' = t
           /\ Work!Do(t, "generate", c, "none", -1) /\ UNCHANGED sentRulings
  <2>1. /\ now.attempts[c] < AttemptLimit /\ attempts' = [now.attempts EXCEPT ![c] = @ + 1]
        /\ triedAt' = [triedAt EXCEPT ![c] = IF now.attempts[c] = 0 THEN workClock ELSE @]
    BY <1>3 DEF Work!Attempt, Work!AttemptLeft
  <2>2. task' = [task EXCEPT ![t] = [at |-> "generate", item |-> c, job |-> "none", share |-> -1]]
    BY <1>3 DEF Work!Do
  <2> HIDE DEF now
  <2>3. now = Work!Pruned(phase, rewarded)
    BY DEF now
  <2> QED BY <1>1, <1>3, <2>1, <2>2, <2>3, ModelRunKeeps
<1> QED BY <1>2, <1>3 DEF Work!JudgeRequest, Work!NoRuling, Work!None
(* The model has answered (_judge, after the attempt). *)
LEMMA GenerateKeeps ==
  ASSUME WorkInv, NEW t \in Threads, Work!Generate(t)
  PROVE  WorkInv'
<1> DEFINE c == task[t].item
<1>t. WorkTypes /\ LocksHeld
  BY DEF WorkInv
<1>1. /\ task[t].at = "generate" /\ generated' = [generated EXCEPT ![c] = @ + 1]
      /\ UNCHANGED <<phase, rewarded, workClock, ruling, receipt, cachedAt, attempts, triedAt, witness,
                     sentRulings, sentReceipts, probes>>
  BY DEF Work!Generate, Work!tables
<1>2. c \in Cases /\ judging = t /\ task[t] \in Doings
  BY <1>t, <1>1 DEF LocksHeld, Judges, WorkTypes
<1>3. PICK d : /\ d \in Doings /\ task' = [task EXCEPT ![t] = d]
               /\ \/ d.at = "store" /\ d.item = c /\ d.share \in Shares /\ judging' = judging
                  \/ d.at = "idle" /\ judging' = "none"
  <2>1. CASE \E s \in Shares : Work!Do(t, "store", c, Work!None, s) /\ UNCHANGED judging
    <3>1. PICK s \in Shares : Work!Do(t, "store", c, Work!None, s) /\ UNCHANGED judging
      BY <2>1
    <3> DEFINE e == [at |-> "store", item |-> c, job |-> "none", share |-> s]
    <3>2. /\ e \in Doings /\ task' = [task EXCEPT ![t] = e]
          /\ e.at = "store" /\ e.item = c /\ e.share \in Shares
      BY <1>2, <3>1 DEF Doings, Places, Work!Do, Work!None
    <3> HIDE DEF e
    <3> QED BY <3>1, <3>2
  <2>2. CASE Work!Done(t) /\ judging' = Work!None
    <3>1. Work!NoTask \in Doings /\ Work!NoTask.at = "idle"
      BY DEF Work!NoTask, Work!None, Work!NoRuling, Doings, Places
    <3> QED BY <2>2, <3>1 DEF Work!Done, Work!None
  <2> QED BY <2>1, <2>2 DEF Work!Generate
<1>4. task'[t] = d /\ \A u \in Threads \ {t} : task'[u] = task[u]
  BY <1>t, <1>3 DEF WorkTypes
<1>5. \A u \in Threads \ {t} : ~Judges(u) /\ ~Judges(u)'
  BY <1>t, <1>2, <1>4 DEF LocksHeld, Judges
<1> HIDE DEF c
<1>6. WorkTypes'
  <2>1. task' \in [Threads -> Doings]
    BY <1>t, <1>3, <1>4 DEF WorkTypes
  <2>2. generated' \in [Cases -> Nat]
    BY <1>t, <1>1, <1>2 DEF WorkTypes
  <2>3. judging' \in Threads \cup {"none"}
    BY <1>t, <1>3 DEF WorkTypes
  <2> QED BY <1>t, <1>1, <2>1, <2>2, <2>3 DEF WorkTypes
<1>7. LocksHeld'
  <2> SUFFICES ASSUME NEW u \in Threads
               PROVE  /\ (Judges(u) <=> judging = u)'
                      /\ (task[u].at = "challenge" <=> witness = u)'
                      /\ (Judges(u) => task[u].item \in Cases)'
                      /\ (task[u].at = "store" => task[u].share \in Shares)'
                      /\ (task[u].at = "challenge" => task[u].item \in Providers /\ task[u].job \in Jobs)'
    BY DEF LocksHeld
  <2>1. CASE u = t
    BY <2>1, <1>t, <1>1, <1>2, <1>3, <1>4, WorkAssumption DEF LocksHeld, Judges
  <2>2. CASE u # t
    BY <2>2, <1>t, <1>1, <1>2, <1>3, <1>4, <1>5, WorkAssumption DEF LocksHeld, Judges
  <2> QED BY <2>1, <2>2
<1>8. RulingsStored'
  <2>1. \A u \in Threads : Judges(u)' => u = t /\ task'[u].item = c /\ Judges(t)
    BY <1>1, <1>3, <1>4, <1>5 DEF Judges
  <2> QED BY <1>1, <2>1 DEF WorkInv, RulingsStored, RulingsIn, c
<1>9. RunsCounted'
  <2> SUFFICES ASSUME NEW x \in Cases
               PROVE  /\ (generated[x] + Running(x) <= AttemptLimit)'
                      /\ (phase[x] = "future" => generated[x] + Running(x) = 0)'
                      /\ (phase[x] = "open" => generated[x] + Running(x) <= attempts[x])'
    BY DEF RunsCounted, RunsIn
  <2>1. Running(x) = (IF x = c THEN 1 ELSE 0) /\ Running(x)' = 0
    <3>1. task[t].at = "generate" /\ task[t].item = c /\ task'[t].at # "generate"
      BY <1>1, <1>3, <1>4 DEF c
    <3>2. \A u \in Threads \ {t} : task[u].at # "generate" /\ task'[u].at # "generate"
      BY <1>5 DEF Judges
    <3> QED BY <3>1, <3>2 DEF Running
  <2>2. generated[x] \in Nat /\ generated'[x] = generated[x] + (IF x = c THEN 1 ELSE 0)
    BY <1>t, <1>1 DEF WorkTypes
  <2>3. /\ generated[x] + Running(x) <= AttemptLimit
        /\ phase[x] = "future" => generated[x] + Running(x) = 0
        /\ phase[x] = "open" => generated[x] + Running(x) <= attempts[x]
    BY DEF WorkInv, RunsCounted, RunsIn
  <2>4. phase'[x] = phase[x] /\ attempts'[x] = attempts[x]
    BY <1>1
  <2>5. generated'[x] + Running(x)' = generated[x] + Running(x)
    BY <2>1, <2>2
  <2> QED BY <2>3, <2>4, <2>5
<1>10. ReceiptsCached'
  <2>1. \A u \in Threads : task'[u].at = "challenge" => task'[u] = task[u]
    BY <1>3, <1>4
  <2> QED BY <1>1, <2>1 DEF WorkInv, ReceiptsCached, ReceiptsIn, Old
<1>11. ProbesCounted'
  BY <1>1 DEF WorkInv, ProbesCounted, ProbesIn, ProbesOf
<1> QED BY <1>6, <1>7, <1>8, <1>9, <1>10, <1>11 DEF WorkInv

(* A ruling is stored before it is sent (cache_work). *)
LEMMA StoreKeeps ==
  ASSUME WorkInv, NEW t \in Threads, Work!StoreRuling(t)
  PROVE  WorkInv'
<1> DEFINE c == task[t].item
           sh == task[t].share
<1>t. WorkTypes /\ LocksHeld
  BY DEF WorkInv
<1>1. /\ task[t].at = "store" /\ judging' = "none" /\ task' = [task EXCEPT ![t] = Work!NoTask]
      /\ ruling' = [ruling EXCEPT ![c] = IF ruling[c] = -1 THEN sh ELSE ruling[c]]
      /\ sentRulings' = sentRulings \cup {<<c, sh>>}
      /\ UNCHANGED <<phase, rewarded, workClock, receipt, cachedAt, attempts, triedAt, witness,
                     sentReceipts, generated, probes>>
  BY DEF Work!StoreRuling, Work!Done, Work!None, Work!NoRuling
<1>2. c \in Cases /\ sh \in Shares /\ judging = t /\ Judges(t)
  BY <1>t, <1>1 DEF LocksHeld, Judges
<1>3. /\ Work!NoTask \in Doings /\ task'[t] = Work!NoTask /\ task'[t].at = "idle"
      /\ \A u \in Threads \ {t} : task'[u] = task[u]
  <2>1. Work!NoTask \in Doings /\ Work!NoTask.at = "idle"
    BY DEF Work!NoTask, Work!None, Work!NoRuling, Doings, Places
  <2> QED BY <1>t, <1>1, <2>1 DEF WorkTypes
<1>4. \A u \in Threads : ~Judges(u)'
  BY <1>t, <1>2, <1>3 DEF LocksHeld, Judges
<1>5. WorkTypes'
  <2>1. task' \in [Threads -> Doings]
    BY <1>t, <1>1, <1>3 DEF WorkTypes
  <2>2. ruling' \in [Cases -> Shares \cup {-1}]
    BY <1>t, <1>1, <1>2 DEF WorkTypes
  <2>3. sentRulings' \subseteq Cases \X Shares
    BY <1>t, <1>1, <1>2 DEF WorkTypes
  <2> QED BY <1>t, <1>1, <2>1, <2>2, <2>3 DEF WorkTypes
<1>6. LocksHeld'
  <2> SUFFICES ASSUME NEW u \in Threads
               PROVE  /\ (Judges(u) <=> judging = u)'
                      /\ (task[u].at = "challenge" <=> witness = u)'
                      /\ (Judges(u) => task[u].item \in Cases)'
                      /\ (task[u].at = "store" => task[u].share \in Shares)'
                      /\ (task[u].at = "challenge" => task[u].item \in Providers /\ task[u].job \in Jobs)'
    BY DEF LocksHeld
  <2>1. CASE u = t
    BY <2>1, <1>t, <1>1, <1>2, <1>3, <1>4, WorkAssumption DEF LocksHeld, Judges
  <2>2. CASE u # t
    BY <2>2, <1>t, <1>1, <1>2, <1>3, <1>4, WorkAssumption DEF LocksHeld, Judges
  <2> QED BY <2>1, <2>2
<1>7. RulingsStored'
  <2>1. /\ phase[c] # "future" /\ (phase[c] = "open" => ruling[c] = -1)
        /\ \A r \in sentRulings : r[1] # c
    BY <1>2 DEF WorkInv, RulingsStored, RulingsIn
  <2> HIDE DEF c, sh
  <2>2. \A r \in sentRulings : r[1] \in Cases
    BY <1>t DEF WorkTypes
  <2>3. phase[c] = "open" => ruling'[c] = sh
    BY <1>t, <1>1, <1>2, <2>1 DEF WorkTypes
  <2>4. \A x \in Cases : x # c => ruling'[x] = ruling[x]
    BY <1>t, <1>1 DEF WorkTypes
  <2>5. \A r \in sentRulings : /\ phase[r[1]] # "future"
                               /\ phase[r[1]] = "open" => ruling[r[1]] = r[2]
    BY DEF WorkInv, RulingsStored, RulingsIn
  <2>6. \A r, s \in sentRulings : r[1] = s[1] => r = s
    BY DEF WorkInv, RulingsStored, RulingsIn
  <2> QED BY <1>1, <1>4, <2>1, <2>2, <2>3, <2>4, <2>5, <2>6 DEF RulingsStored, RulingsIn
<1>8. RunsCounted'
  <2>1. \A u \in Threads : task[u].at # "generate" /\ task'[u].at # "generate"
    BY <1>t, <1>1, <1>2, <1>3 DEF LocksHeld, Judges
  <2>2. \A x \in Cases : Running(x) = 0 /\ Running(x)' = 0
    BY <2>1 DEF Running
  <2> QED BY <1>1, <2>2 DEF WorkInv, RunsCounted, RunsIn
<1>9. ReceiptsCached'
  <2>1. \A u \in Threads : task'[u].at = "challenge" => task'[u] = task[u]
    BY <1>3
  <2> QED BY <1>1, <2>1 DEF WorkInv, ReceiptsCached, ReceiptsIn, Old
<1>10. ProbesCounted'
  BY <1>1 DEF WorkInv, ProbesCounted, ProbesIn, ProbesOf
<1> QED BY <1>5, <1>6, <1>7, <1>8, <1>9, <1>10 DEF WorkInv
(* A further probe of a provider is one more attempt of its row, or begins a row. *)
LEMMA OneMoreProbe ==
  ASSUME NEW s \in Seq(Nat), NEW now \in Nat, NEW a \in Nat, NEW tried \in Nat, a < AttemptLimit,
         Len(s) - a >= 0,
         \A n \in 1..Len(s) : s[n] <= now,
         a > 0 => /\ \A n \in 1..(Len(s) - a) : s[n] <= tried
                  /\ \A n \in 1..(Len(s) - a - AttemptLimit) : s[n] + Expiry < tried
                  /\ tried <= now,
         a = 0 => \A n \in 1..(Len(s) - AttemptLimit) : s[n] + Expiry < now,
         \A n \in 1..(Len(s) - 2 * AttemptLimit) : s[n + 2 * AttemptLimit] - s[n] > Expiry,
         NEW r, r = Append(s, now), NEW began, began = IF a = 0 THEN now ELSE tried
  PROVE  /\ r \in Seq(Nat) /\ Len(r) - (a + 1) >= 0
         /\ \A n \in 1..Len(r) : r[n] <= now
         /\ \A n \in 1..(Len(r) - (a + 1)) : r[n] <= began
         /\ \A n \in 1..(Len(r) - (a + 1) - AttemptLimit) : r[n] + Expiry < began
         /\ began <= now
         /\ \A n \in 1..(Len(r) - 2 * AttemptLimit) : r[n + 2 * AttemptLimit] - r[n] > Expiry
<1> DEFINE L == Len(s)
<1>a. AttemptLimit \in Nat /\ Expiry \in Nat
  BY WorkAssumption
<1>1. /\ r \in Seq(Nat) /\ L \in Nat /\ Len(r) = L + 1 /\ r[L + 1] = now
      /\ \A n \in 1..L : r[n] = s[n] /\ s[n] \in Nat
  OBVIOUS
<1> HIDE DEF L
<1>2. \A n \in 1..Len(r) : r[n] <= now
  <2> SUFFICES ASSUME NEW n \in 1..Len(r) PROVE r[n] <= now
    OBVIOUS
  <2>1. n \in 1..L \/ n = L + 1
    BY <1>1
  <2> QED BY <1>1, <2>1 DEF L
<1>3. \A n \in 1..(Len(r) - (a + 1)) : n \in 1..L /\ n \in 1..(Len(s) - a)
  BY <1>1 DEF L
<1>4. \A n \in 1..(Len(r) - (a + 1)) : r[n] <= began
  BY <1>1, <1>3 DEF L
<1>5. \A n \in 1..(Len(r) - (a + 1) - AttemptLimit) : r[n] + Expiry < began
  <2> SUFFICES ASSUME NEW n \in 1..(Len(r) - (a + 1) - AttemptLimit) PROVE r[n] + Expiry < began
    OBVIOUS
  <2>1. n \in 1..L /\ n \in 1..(Len(s) - a - AttemptLimit) /\ n \in 1..(Len(s) - AttemptLimit)
    BY <1>1, <1>a DEF L
  <2>2. r[n] = s[n]
    BY <1>1, <2>1
  <2> QED BY <2>1, <2>2
<1>6. ASSUME NEW n \in 1..(Len(r) - 2 * AttemptLimit) PROVE r[n + 2 * AttemptLimit] - r[n] > Expiry
  <2> DEFINE m == n + 2 * AttemptLimit
  <2>1. n \in 1..L /\ m \in 1..(L + 1) /\ n \in Nat
    BY <1>1, <1>a
  <2>2. r[n] = s[n] /\ s[n] \in Nat
    BY <1>1, <2>1
  <2>3. CASE m # L + 1
    <3>0. L \in Nat /\ m \in 1..(L + 1) /\ m # L + 1 /\ m = n + 2 * AttemptLimit /\ n \in 1..L
      BY <1>1, <2>1, <2>3
    <3> HIDE DEF m
    <3>4. m \in 1..L /\ n \in 1..(L - 2 * AttemptLimit)
      BY ONLY <3>0, <1>a
    <3>1. m \in 1..L /\ n \in 1..(Len(s) - 2 * AttemptLimit)
      BY <3>4 DEF L
    <3>2. r[m] = s[m] /\ s[m] - s[n] > Expiry
      BY <1>1, <3>0, <3>1
    <3> QED BY <2>2, <3>2 DEF m
  <2>4. CASE m = L + 1
    <3>1. r[m] = now
      BY <1>1, <2>4
    <3>2. n \in 1..(Len(s) - AttemptLimit) /\ n \in 1..(Len(s) - a - AttemptLimit)
      BY <1>1, <1>a, <2>1, <2>4 DEF L
    <3>3. s[n] + Expiry < now
      <4>1. CASE a = 0
        BY <4>1, <3>2
      <4>2. CASE a > 0
        <5>1. s[n] + Expiry < tried /\ tried <= now
          BY <4>2, <3>2
        <5> QED BY ONLY <5>1, <2>2, <1>a, now \in Nat, tried \in Nat
      <4> QED BY <4>1, <4>2
    <3> HIDE DEF m
    <3> QED BY ONLY <3>1, <3>3, <2>2, <1>a, now \in Nat DEF m
  <2> QED BY <2>3, <2>4
<1>7. Len(r) - (a + 1) >= 0
  BY <1>1 DEF L
<1>8. began <= now
  OBVIOUS
<1> QED BY <1>1, <1>2, <1>4, <1>5, <1>6, <1>7, <1>8
(* A witness spends an attempt and challenges the provider: no receipt that is not too
   old is around (_work_receipt). *)
LEMMA WorkRequestKeeps ==
  ASSUME WorkInv, NEW t \in Threads, NEW p \in Providers, NEW j \in Jobs, Work!WorkRequest(t, p, j)
  PROVE  WorkInv'
<1> DEFINE now == Work!Pruned(phase, rewarded)
           A == now.attempts
           d == [at |-> "challenge", item |-> p, job |-> j, share |-> -1]
<1>t. WorkTypes /\ LocksHeld
  BY DEF WorkInv
<1>1. /\ now.ruling \in [Cases -> Shares \cup {-1}] /\ now.receipt \in [Providers -> Jobs \cup {"none"}]
      /\ A \in [Known -> 0..AttemptLimit]
      /\ RulingsIn(now.ruling, phase) /\ RunsIn(A, phase)
      /\ ReceiptsIn(now.receipt, rewarded) /\ ProbesIn(A, rewarded)
  <2>1. phase \in [Cases -> Phases] /\ rewarded \in SUBSET Providers
    BY <1>t DEF WorkTypes
  <2> QED BY <2>1, PrunedKeeps
<1>2. /\ task[t] = Work!NoTask /\ witness = "none" /\ p \notin rewarded /\ now.receipt[p] = "none"
      /\ A[p] < AttemptLimit /\ attempts' = [A EXCEPT ![p] = A[p] + 1]
      /\ triedAt' = [triedAt EXCEPT ![p] = IF A[p] = 0 THEN workClock ELSE triedAt[p]]
      /\ ruling' = now.ruling /\ receipt' = now.receipt /\ witness' = t
      /\ task' = [task EXCEPT ![t] = d]
      /\ probes' = [probes EXCEPT ![p] = Append(probes[p], workClock)]
      /\ UNCHANGED <<phase, rewarded, workClock, cachedAt, judging, sentRulings, sentReceipts, generated>>
  BY DEF Work!WorkRequest, Work!Free, Work!None, Work!Attempt, Work!AttemptLeft, Work!Do, Work!NoRuling
<1>3. /\ d \in Doings /\ d.at = "challenge" /\ d.item = p /\ d.job = j
  BY DEF Doings, Places
<1> HIDE DEF now, A, d
<1>4. p \in Known /\ A[p] \in Nat
  BY <1>1 DEF Known
<1>5. attempts' \in [Known -> 0..AttemptLimit]
  <2>1. A[p] + 1 \in 0..AttemptLimit
    BY <1>2, <1>4, WorkAssumption
  <2> QED BY <1>1, <1>2, <1>4, <2>1
<1>6. task'[t] = d /\ \A u \in Threads \ {t} : task'[u] = task[u]
  BY <1>t, <1>2 DEF WorkTypes
<1>7. task[t].at = "idle"
  BY <1>2 DEF Work!NoTask
<1>8. \A u \in Threads : Judges(u)' <=> Judges(u)
  BY <1>3, <1>6, <1>7 DEF Judges
<1>9. \A u \in Threads : task[u].at # "challenge"
  BY <1>t, <1>2, WorkAssumption DEF LocksHeld
<1>10. WorkTypes'
  <2>1. task' \in [Threads -> Doings]
    BY <1>t, <1>2, <1>3 DEF WorkTypes
  <2>2. triedAt' \in [Known -> Nat]
    BY <1>t, <1>2 DEF WorkTypes
  <2>3. Append(probes[p], workClock) \in Seq(Nat)
    BY <1>t DEF WorkTypes
  <2>4. probes' \in [Providers -> Seq(Nat)]
    BY <1>t, <1>2, <2>3 DEF WorkTypes
  <2> QED BY <1>t, <1>1, <1>2, <1>5, <2>1, <2>2, <2>4 DEF WorkTypes
<1>11. LocksHeld'
  <2> SUFFICES ASSUME NEW u \in Threads
               PROVE  /\ (Judges(u) <=> judging = u)'
                      /\ (task[u].at = "challenge" <=> witness = u)'
                      /\ (Judges(u) => task[u].item \in Cases)'
                      /\ (task[u].at = "store" => task[u].share \in Shares)'
                      /\ (task[u].at = "challenge" => task[u].item \in Providers /\ task[u].job \in Jobs)'
    BY DEF LocksHeld
  <2>1. CASE u = t
    BY <2>1, <1>t, <1>2, <1>3, <1>6, <1>7, <1>8 DEF LocksHeld, Judges
  <2>2. CASE u # t
    BY <2>2, <1>t, <1>2, <1>6, <1>8, <1>9 DEF LocksHeld
  <2> QED BY <2>1, <2>2
<1>12. RulingsStored'
  <2>1. \A u \in Threads : Judges(u)' => Judges(u) /\ task'[u] = task[u]
    BY <1>6, <1>7, <1>8 DEF Judges
  <2> QED BY <1>1, <1>2, <2>1 DEF RulingsStored, RulingsIn
<1>13. RunsCounted'
  <2> SUFFICES ASSUME NEW x \in Cases
               PROVE  /\ (generated[x] + Running(x) <= AttemptLimit)'
                      /\ (phase[x] = "future" => generated[x] + Running(x) = 0)'
                      /\ (phase[x] = "open" => generated[x] + Running(x) <= attempts[x])'
    BY DEF RunsCounted, RunsIn
  <2>1. \A u \in Threads : /\ task'[u].at = "generate" <=> task[u].at = "generate"
                           /\ task[u].at = "generate" => task'[u] = task[u]
    BY <1>3, <1>6, <1>7
  <2>2. Running(x)' = Running(x)
    BY <2>1 DEF Running
  <2>3. x \in Known /\ x # p
    BY WorkAssumption DEF Known
  <2>4. attempts'[x] = A[x]
    BY <1>1, <1>2, <2>3
  <2> QED BY <1>1, <1>2, <2>2, <2>4 DEF RunsIn
<1>14. ReceiptsCached'
  <2>1. \A r \in sentReceipts : r.job # "none"
    BY <1>t, WorkAssumption DEF WorkTypes, Receipts
  <2>2. \A r \in sentReceipts : r.p = p => Old(r)
    BY <1>1, <1>2, <2>1 DEF ReceiptsIn
  <2>3. \A u \in Threads : task'[u].at = "challenge" => u = t
    BY <1>6, <1>9
  <2>4. \A r \in sentReceipts : Old(r)' = Old(r)
    BY <1>2 DEF Old
  <2> QED BY <1>1, <1>2, <1>3, <1>6, <2>2, <2>3, <2>4 DEF ReceiptsCached, ReceiptsIn
<1>15. ProbesCounted'
  <2> SUFFICES ASSUME NEW q \in Providers PROVE ProbesOf(q, attempts[q], rewarded)'
    BY DEF ProbesCounted, ProbesIn
  <2>1. ProbesOf(q, A[q], rewarded)
    BY <1>1 DEF ProbesIn
  <2>2. q \in Known
    BY DEF Known
  <2>3. CASE q # p
    <3>1. attempts'[q] = A[q] /\ triedAt'[q] = triedAt[q] /\ probes'[q] = probes[q]
      BY <1>t, <1>1, <1>2, <2>2, <2>3 DEF WorkTypes
    <3> QED BY <1>2, <2>1, <3>1 DEF ProbesOf
  <2>4. CASE q = p
    <3> DEFINE s == probes[p]
               r == Append(probes[p], workClock)
               began == IF A[p] = 0 THEN workClock ELSE triedAt[p]
    <3>1. attempts'[p] = A[p] + 1 /\ triedAt'[p] = began /\ probes'[p] = r /\ workClock' = workClock
      BY <1>t, <1>1, <1>2, <1>4 DEF WorkTypes
    <3>2. s \in Seq(Nat) /\ workClock \in Nat /\ triedAt[p] \in Nat
      BY <1>t, <1>4 DEF WorkTypes
    <3>3. /\ Len(s) - A[p] >= 0
          /\ \A n \in 1..Len(s) : s[n] <= workClock
          /\ A[p] > 0 => /\ \A n \in 1..(Len(s) - A[p]) : s[n] <= triedAt[p]
                         /\ \A n \in 1..(Len(s) - A[p] - AttemptLimit) : s[n] + Expiry < triedAt[p]
                         /\ triedAt[p] <= workClock
          /\ A[p] = 0 => \A n \in 1..(Len(s) - AttemptLimit) : s[n] + Expiry < workClock
          /\ \A n \in 1..(Len(s) - 2 * AttemptLimit) : s[n + 2 * AttemptLimit] - s[n] > Expiry
      BY <1>2, <2>1, <2>4 DEF ProbesOf
    <3>4. r = Append(s, workClock) /\ began = IF A[p] = 0 THEN workClock ELSE triedAt[p]
      OBVIOUS
    <3> HIDE DEF s, r, began
    <3>5. /\ r \in Seq(Nat) /\ Len(r) - (A[p] + 1) >= 0
          /\ \A n \in 1..Len(r) : r[n] <= workClock
          /\ \A n \in 1..(Len(r) - (A[p] + 1)) : r[n] <= began
          /\ \A n \in 1..(Len(r) - (A[p] + 1) - AttemptLimit) : r[n] + Expiry < began
          /\ began <= workClock
          /\ \A n \in 1..(Len(r) - 2 * AttemptLimit) : r[n + 2 * AttemptLimit] - r[n] > Expiry
      BY <1>2, <1>4, <3>2, <3>3, <3>4, OneMoreProbe
    <3>6. A[p] + 1 # 0
      BY <1>4
    <3> QED BY <2>4, <3>1, <3>5, <3>6 DEF ProbesOf
  <2> QED BY <2>3, <2>4
<1> QED BY <1>10, <1>11, <1>12, <1>13, <1>14, <1>15 DEF WorkInv
(* The provider answers the challenge, or does not (_work_receipt). *)
LEMMA ChallengeKeeps ==
  ASSUME WorkInv, NEW t \in Threads, Work!Challenge(t)
  PROVE  WorkInv'
<1> DEFINE p == task[t].item
           j == task[t].job
           new == [p |-> p, job |-> j, at |-> workClock]
<1>t. WorkTypes /\ LocksHeld
  BY DEF WorkInv
<1>1. /\ task[t].at = "challenge" /\ witness' = "none" /\ task' = [task EXCEPT ![t] = Work!NoTask]
      /\ UNCHANGED <<phase, rewarded, workClock, ruling, attempts, triedAt, judging, sentRulings, generated, probes>>
  BY DEF Work!Challenge, Work!Done, Work!None
<1>2. p \in Providers /\ j \in Jobs /\ witness = t /\ workClock \in Nat
  BY <1>t, <1>1 DEF LocksHeld, WorkTypes
<1>3. receipt[p] = "none" /\ \A r \in sentReceipts : r.p = p => Old(r)
  BY <1>1 DEF WorkInv, ReceiptsCached, ReceiptsIn
<1>4. \/ /\ receipt' = [receipt EXCEPT ![p] = j] /\ cachedAt' = [cachedAt EXCEPT ![p] = workClock]
         /\ sentReceipts' = sentReceipts \cup {new}
      \/ UNCHANGED <<receipt, cachedAt, sentReceipts>>
  BY <1>3 DEF Work!Challenge, Work!None
<1>n. new \in Receipts /\ new.p = p /\ new.job = j /\ new.at = workClock
  BY <1>2 DEF Receipts
<1> HIDE DEF p, j, new
<1>5. /\ Work!NoTask \in Doings /\ task'[t] = Work!NoTask /\ task'[t].at = "idle"
      /\ \A u \in Threads \ {t} : task'[u] = task[u]
  <2>1. Work!NoTask \in Doings /\ Work!NoTask.at = "idle"
    BY DEF Work!NoTask, Work!None, Work!NoRuling, Doings, Places
  <2> QED BY <1>t, <1>1, <2>1 DEF WorkTypes
<1>6. \A u \in Threads : (Judges(u)' <=> Judges(u)) /\ (Judges(u) => task'[u] = task[u])
  BY <1>1, <1>5 DEF Judges
<1>7. \A u \in Threads : task'[u].at # "challenge"
  BY <1>t, <1>2, <1>5 DEF LocksHeld
<1>8. WorkTypes'
  <2>1. task' \in [Threads -> Doings]
    BY <1>t, <1>1, <1>5 DEF WorkTypes
  <2>2. receipt' \in [Providers -> Jobs \cup {"none"}] /\ cachedAt' \in [Providers -> Nat]
        /\ sentReceipts' \subseteq Receipts
    BY <1>t, <1>2, <1>4, <1>n DEF WorkTypes
  <2> QED BY <1>t, <1>1, <2>1, <2>2 DEF WorkTypes
<1>9. LocksHeld'
  <2> SUFFICES ASSUME NEW u \in Threads
               PROVE  /\ (Judges(u) <=> judging = u)'
                      /\ (task[u].at = "challenge" <=> witness = u)'
                      /\ (Judges(u) => task[u].item \in Cases)'
                      /\ (task[u].at = "store" => task[u].share \in Shares)'
                      /\ (task[u].at = "challenge" => task[u].item \in Providers /\ task[u].job \in Jobs)'
    BY DEF LocksHeld
  <2>1. CASE u = t
    BY <2>1, <1>t, <1>1, <1>5, <1>6, <1>7, WorkAssumption DEF LocksHeld
  <2>2. CASE u # t
    BY <2>2, <1>t, <1>1, <1>5, <1>6, <1>7, WorkAssumption DEF LocksHeld
  <2> QED BY <2>1, <2>2
<1>10. RulingsStored'
  BY <1>1, <1>6 DEF WorkInv, RulingsStored, RulingsIn
<1>11. RunsCounted'
  <2>1. \A u \in Threads : /\ task'[u].at = "generate" <=> task[u].at = "generate"
                           /\ task[u].at = "generate" => task'[u] = task[u]
    BY <1>1, <1>5
  <2>2. \A x \in Cases : Running(x)' = Running(x)
    BY <2>1 DEF Running
  <2> QED BY <1>1, <2>2 DEF WorkInv, RunsCounted, RunsIn
<1>12. ReceiptsCached'
  <2>1. \A r \in sentReceipts : r.at \in Nat /\ r.p \in Providers
    BY <1>t DEF WorkTypes, Receipts
  <2>2. \A r \in sentReceipts : /\ r.at <= workClock
                                /\ (Old(r) \/ r.p \in rewarded \/ (receipt[r.p] = r.job /\ cachedAt[r.p] = r.at))
    BY DEF WorkInv, ReceiptsCached, ReceiptsIn
  <2>3. \A r : Old(r)' <=> Old(r)
    BY <1>1 DEF Old
  <2>4. \A x, y \in sentReceipts : x.p = y.p /\ x.job # y.job /\ x.at <= y.at => y.at - x.at > Expiry
    BY DEF WorkInv, ReceiptsCached, ReceiptsIn
  <2>5. CASE UNCHANGED <<receipt, cachedAt, sentReceipts>>
    BY <1>1, <1>7, <2>2, <2>3, <2>4, <2>5 DEF ReceiptsCached, ReceiptsIn
  <2>6. CASE /\ receipt' = [receipt EXCEPT ![p] = j] /\ cachedAt' = [cachedAt EXCEPT ![p] = workClock]
             /\ sentReceipts' = sentReceipts \cup {new}
    <3>1. receipt'[p] = j /\ cachedAt'[p] = workClock
      BY <1>t, <1>2, <2>6 DEF WorkTypes
    <3>2. \A q \in Providers : q # p => receipt'[q] = receipt[q] /\ cachedAt'[q] = cachedAt[q]
      BY <1>t, <2>6 DEF WorkTypes
    <3>3. \A r \in sentReceipts' : /\ r.at <= workClock
                                   /\ (Old(r) \/ r.p \in rewarded \/ (receipt'[r.p] = r.job /\ cachedAt'[r.p] = r.at))
      <4> SUFFICES ASSUME NEW r \in sentReceipts'
                   PROVE  /\ r.at <= workClock
                          /\ (Old(r) \/ r.p \in rewarded \/ (receipt'[r.p] = r.job /\ cachedAt'[r.p] = r.at))
        OBVIOUS
      <4>1. CASE r = new
        BY <4>1, <1>2, <1>n, <3>1
      <4>2. CASE r \in sentReceipts /\ r.p = p
        BY <4>2, <1>3, <2>2
      <4>3. CASE r \in sentReceipts /\ r.p # p
        BY <4>3, <2>1, <2>2, <3>2
      <4> QED BY <4>1, <4>2, <4>3, <2>6
    <3>4. \A r \in sentReceipts : r.p = p => workClock - r.at > Expiry
      BY <1>3 DEF Old
    <3>5. \A x, y \in sentReceipts' : x.p = y.p /\ x.job # y.job /\ x.at <= y.at => y.at - x.at > Expiry
      <4> SUFFICES ASSUME NEW x \in sentReceipts', NEW y \in sentReceipts', x.p = y.p, x.job # y.job, x.at <= y.at
                   PROVE  y.at - x.at > Expiry
        OBVIOUS
      <4>1. CASE x \in sentReceipts /\ y \in sentReceipts
        BY <4>1, <2>4
      <4>2. CASE x \in sentReceipts /\ y = new
        BY <4>2, <1>n, <3>4
      <4>3. CASE x = new /\ y \in sentReceipts
        <5>1. y.p = p /\ workClock <= y.at /\ y.at \in Nat
          BY <4>3, <1>n, <2>1
        <5>2. workClock - y.at > Expiry
          BY <4>3, <5>1, <3>4
        <5> QED BY ONLY <5>1, <5>2, <1>2, WorkAssumption
      <4> QED BY <4>1, <4>2, <4>3, <2>6
    <3> QED BY <1>1, <1>7, <2>3, <3>3, <3>5 DEF ReceiptsCached, ReceiptsIn
  <2> QED BY <1>4, <2>5, <2>6
<1>13. ProbesCounted'
  BY <1>1 DEF WorkInv, ProbesCounted, ProbesIn, ProbesOf
<1> QED BY <1>8, <1>9, <1>10, <1>11, <1>12, <1>13 DEF WorkInv

(* Every step of the judge's and the witness's work. *)
LEMMA WorkKeeps == WorkInv /\ Work!Next => WorkInv'
<1> SUFFICES ASSUME WorkInv, Work!Next PROVE WorkInv'
  OBVIOUS
<1>1. CASE \/ \E c \in Cases : Work!CaseOpens(c) \/ Work!CaseCloses(c)
           \/ \E p \in Providers : Work!Rewarded(p)
           \/ Work!Sync
  BY <1>1, CommitsKeep
<1>2. CASE Work!Tick
  BY <1>2, TickKeeps
<1>3. CASE Work!Crash
  BY <1>3, CrashKeeps
<1>4. CASE \E t \in Threads :
             \/ \E c \in Cases : Work!JudgeRequest(t, c)
             \/ Work!Generate(t) \/ Work!StoreRuling(t) \/ Work!Challenge(t)
             \/ \E p \in Providers, j \in Jobs : Work!WorkRequest(t, p, j)
  BY <1>4, JudgeKeeps, GenerateKeeps, StoreKeeps, ChallengeKeeps, WorkRequestKeeps
<1> QED BY <1>1, <1>2, <1>3, <1>4 DEF Work!Next

(* What the invariant says of the four promises. *)
LEMMA WorkPromises ==
  ASSUME WorkInv
  PROVE  Work!OneRulingPerCase /\ Work!OneJobAtATime /\ Work!BoundedModelRuns /\ Work!BoundedProbing
<1>1. Work!OneRulingPerCase
  BY DEF WorkInv, RulingsStored, RulingsIn, Work!OneRulingPerCase
<1>2. Work!OneJobAtATime
  BY DEF WorkInv, ReceiptsCached, ReceiptsIn, Work!OneJobAtATime
<1>3. Work!BoundedModelRuns
  <2> SUFFICES ASSUME NEW c \in Cases PROVE generated[c] <= AttemptLimit
    BY DEF Work!BoundedModelRuns
  <2>1. generated[c] \in Nat /\ Running(c) \in {0, 1}
    BY DEF WorkInv, WorkTypes, Running
  <2>2. generated[c] + Running(c) <= AttemptLimit
    BY DEF WorkInv, RunsCounted, RunsIn
  <2> QED BY <2>1, <2>2, WorkAssumption
<1>4. Work!BoundedProbing
  BY DEF WorkInv, ProbesCounted, ProbesIn, ProbesOf, Work!BoundedProbing
<1> QED BY <1>1, <1>2, <1>3, <1>4

(* A judge answers a case with one ruling, a witness signs for one job of a provider at *)
(* a time, model runs and probes stay bounded: for any number of threads, cases,         *)
(* providers and jobs, any limit of attempts and any expiry (exchange/service.py).       *)
THEOREM WorkIsBounded == MCSpec => []WorkBounded
<1> DEFINE I == component = "work" => WorkInv
<1>1. MCInit => I
  BY WorkStarts DEF MCInit
<1>2. I /\ [MCNext]_allVars => I'
  <2> SUFFICES ASSUME I, [MCNext]_allVars, component' = "work" PROVE WorkInv'
    OBVIOUS
  <2>1. CASE WorkStep
    BY <2>1, WorkKeeps DEF WorkStep
  <2>2. CASE UNCHANGED <<component, workState>>
    <3>1. component = "work"
      BY <2>2
    <3>2. UNCHANGED workState
      BY <2>2
    <3> QED BY <3>1, <3>2 DEF workState, WorkInv, WorkTypes, LocksHeld, Judges, RulingsStored, RulingsIn,
          RunsCounted, RunsIn, Running, ReceiptsCached, ReceiptsIn, Old, ProbesCounted, ProbesIn, ProbesOf
  <2>3. WorkStep \/ UNCHANGED <<component, workState>>
    BY DEF MCNext, allVars, RouteStep, FriendsStep, CardsStep, ListStep, FeedStep, TransferStep, FramesStep,
           StreamStep, IceStep, OrdersStep, LettersStep, RelayStep, ContentStep, DirectoryStep
  <2> QED BY <2>1, <2>2, <2>3
<1>3. I => WorkBounded
  BY WorkPromises DEF WorkBounded
<1> QED BY <1>1, <1>2, <1>3, PTL DEF MCSpec

-----------------------------------------------------------------------------
(* The registry's work orders, and the letter.                                 *)

BoardFiles == [file : {"none", "partial", "whole"}, marker : BOOLEAN, result : BOOLEAN, ready : BOOLEAN]
HandlerStages == {"new", "create", "write", "status", "mark", "done", "refused", "dead"}
BoardTypes ==
    /\ board \in [Board!Mirrors -> BoardFiles]
    /\ handler \in [Tries -> [stage : HandlerStages, mirror : 0..NumMirrors, fresh : BOOLEAN, open : BOOLEAN]]
    /\ client \in [at : 0..NumMirrors, try : SUBSET Tries]
    /\ acked \subseteq Board!Mirrors
    /\ result \in [stage : {"idle", "written"}, mirror : 0..NumMirrors]
    /\ listing \in [stage : {"idle", "order"}, mirror : 0..NumMirrors]
    /\ deposit \in [at : 0..NumMirrors, count : Nat]
    /\ expired \in BOOLEAN /\ excused \in BOOLEAN

\* An order that need not be in the index any more; both stay so.
Settled(r) == expired \/ board[r].result = TRUE
Indexed(r) == board[r].file = "whole" /\ (Settled(r) \/ board[r].marker = TRUE \/ r \in unread)

\* What a handler knows of the files where it is: a file it has written or found is
\* whole, an order it found settled still is, and what it acknowledges is indexed.
Works(t) ==
    LET r == handler[t].mirror
    IN  /\ handler[t].stage # "new" => r \in Board!Mirrors
        /\ handler[t].stage \in {"status", "mark", "done"} => board[r].file = "whole"
        /\ handler[t].stage = "mark" => handler[t].open = TRUE \/ Settled(r)
        /\ handler[t].stage = "done" => Indexed(r)
HandlersKnow == \A t \in Tries : Works(t)

\* The requester waits for a handler of the registry it is at.
Waits ==
    \A t \in client.try : client.at # 0 /\ handler[t].stage # "new" /\ handler[t].mirror = client.at

\* What is about to lose its marker has a result.
ResultFirst == result.stage = "written" => result.mirror \in Board!Mirrors /\ board[result.mirror].result = TRUE
ListedWhere == listing.stage = "order" => listing.mirror \in Board!Mirrors

\* Without an excuse the letter is at the first registry, or nowhere.
FirstOnly == ~excused => boardCopies \subseteq {1} /\ deposit.at \in {0, 1}

BoardInv ==
    /\ BoardTypes /\ HandlersKnow /\ Waits /\ ResultFirst /\ ListedWhere /\ FirstOnly
    /\ \A r \in acked : Indexed(r)

LEMMA BoardStarts == ASSUME Board!BoardInit PROVE BoardInv
<1> USE MirrorsAssumption
<1>1. \A f \in {"none", "whole"} : [file |-> f, marker |-> FALSE, result |-> FALSE, ready |-> FALSE] \in BoardFiles
  BY DEF BoardFiles
<1>2. BoardTypes
  <2>1. board \in [Board!Mirrors -> BoardFiles]
    BY <1>1 DEF Board!BoardInit
  <2>2. handler \in [Tries -> [stage : HandlerStages, mirror : 0..NumMirrors, fresh : BOOLEAN, open : BOOLEAN]]
    BY DEF Board!BoardInit, Board!NoHandler, HandlerStages
  <2>3. client \in [at : 0..NumMirrors, try : SUBSET Tries]
    BY DEF Board!BoardInit, Board!NoWalk
  <2>4. /\ acked \subseteq Board!Mirrors /\ result \in [stage : {"idle", "written"}, mirror : 0..NumMirrors]
        /\ listing \in [stage : {"idle", "order"}, mirror : 0..NumMirrors]
        /\ deposit \in [at : 0..NumMirrors, count : Nat] /\ expired \in BOOLEAN /\ excused \in BOOLEAN
    <3>1. /\ acked = {} /\ result = [stage |-> "idle", mirror |-> 0] /\ listing = [stage |-> "idle", mirror |-> 0]
          /\ deposit = [at |-> 0, count |-> 0] /\ expired = FALSE /\ excused = FALSE
      BY DEF Board!BoardInit
    <3>2. 0 \in 0..NumMirrors /\ 0 \in Nat
      OBVIOUS
    <3>3. result \in [stage : {"idle", "written"}, mirror : 0..NumMirrors]
      BY <3>1, <3>2
    <3>4. listing \in [stage : {"idle", "order"}, mirror : 0..NumMirrors]
      BY <3>1, <3>2
    <3>5. deposit \in [at : 0..NumMirrors, count : Nat]
      BY <3>1, <3>2
    <3> QED BY <3>1, <3>3, <3>4, <3>5
  <2> QED BY <2>1, <2>2, <2>3, <2>4 DEF BoardTypes
<1>3. HandlersKnow /\ Waits /\ ResultFirst /\ ListedWhere /\ FirstOnly /\ acked = {}
  BY DEF Board!BoardInit, HandlersKnow, Works, Waits, ResultFirst, ListedWhere, FirstOnly,
         Board!NoHandler, Board!NoWalk
<1> QED BY <1>2, <1>3 DEF BoardInv

(* What a registry knows is not forgotten while files, results and the clock only grow. *)
Grows(r) ==
    /\ board[r].file = "whole" => board'[r].file = "whole"
    /\ board[r].result = TRUE => board'[r].result = TRUE
    /\ Settled(r) => Settled(r)'
    /\ Indexed(r) => Indexed(r)'

LEMMA BoardFacts ==
  ASSUME BoardInv
  PROVE  /\ \A r \in Board!Mirrors : board[r] \in BoardFiles
         /\ board \in [Board!Mirrors -> BoardFiles]
         /\ \A t \in Tries : handler[t] \in [stage : HandlerStages, mirror : 0..NumMirrors, fresh : BOOLEAN, open : BOOLEAN]
         /\ handler \in [Tries -> [stage : HandlerStages, mirror : 0..NumMirrors, fresh : BOOLEAN, open : BOOLEAN]]
         /\ Board!Mirrors = 1..NumMirrors /\ NumMirrors \in Nat /\ NumMirrors >= 1
         /\ BoardTypes /\ HandlersKnow /\ Waits /\ ResultFirst /\ ListedWhere /\ FirstOnly
         /\ \A t \in Tries : Works(t)
BY MirrorsAssumption DEF BoardInv, BoardTypes, HandlersKnow, Board!Mirrors

(* A step that leaves the handlers alone. *)
LEMMA HandlersWatch ==
  ASSUME BoardInv, \A r \in Board!Mirrors : Grows(r), UNCHANGED handler
  PROVE  HandlersKnow'
<1> SUFFICES ASSUME NEW t \in Tries PROVE Works(t)'
  BY DEF HandlersKnow
<1>1. Works(t) /\ (handler[t].stage # "new" => handler[t].mirror \in Board!Mirrors)
  BY BoardFacts DEF Works
<1> DEFINE r == handler[t].mirror
<1>2. handler'[t] = handler[t]
  OBVIOUS
<1>3. handler[t].stage # "new" => r \in Board!Mirrors /\ Grows(r)
  BY <1>1
<1>4. handler[t].stage = "mark" => handler[t].open = TRUE \/ Settled(r)'
  BY <1>1, <1>3 DEF Works, Grows
<1>5. handler[t].stage = "done" => Indexed(r)'
  BY <1>1, <1>3 DEF Works, Grows
<1>6. handler[t].stage \in {"status", "mark", "done"} => board'[r].file = "whole"
  BY <1>1, <1>3 DEF Works, Grows
<1> QED BY <1>1, <1>2, <1>4, <1>5, <1>6 DEF Works, Settled, Indexed

(* A step of one handler, which may write the files of its registry. *)
LEMMA HandlerWorks ==
  ASSUME BoardInv, NEW t \in Tries, \A r \in Board!Mirrors : Grows(r),
         \A s \in Tries \ {t} : handler'[s] = handler[s], Works(t)'
  PROVE  HandlersKnow'
<1> SUFFICES ASSUME NEW s \in Tries, s # t PROVE Works(s)'
  BY DEF HandlersKnow
<1>1. Works(s) /\ (handler[s].stage # "new" => handler[s].mirror \in Board!Mirrors)
  BY BoardFacts DEF Works
<1> DEFINE r == handler[s].mirror
<1>2. handler'[s] = handler[s]
  OBVIOUS
<1>3. handler[s].stage # "new" => r \in Board!Mirrors /\ Grows(r)
  BY <1>1
<1>4. handler[s].stage = "mark" => handler[s].open = TRUE \/ Settled(r)'
  BY <1>1, <1>3 DEF Works, Grows
<1>5. handler[s].stage = "done" => Indexed(r)'
  BY <1>1, <1>3 DEF Works, Grows
<1>6. handler[s].stage \in {"status", "mark", "done"} => board'[r].file = "whole"
  BY <1>1, <1>3 DEF Works, Grows
<1> QED BY <1>1, <1>2, <1>4, <1>5, <1>6 DEF Works, Settled, Indexed

(* One registry's record of the order is written; the other registries are as they were. *)
LEMMA BoardGrows ==
  ASSUME BoardInv, NEW q \in Board!Mirrors, NEW b \in BoardFiles,
         board' = [board EXCEPT ![q] = b], expired \in BOOLEAN,
         board[q].file = "whole" => b.file = "whole",
         board[q].result = TRUE => b.result = TRUE,
         expired = TRUE => expired' = TRUE,
         \A r \in Board!Mirrors \ {q} : r \in unread => r \in unread',
         board[q].file = "whole" /\ (board[q].marker = TRUE \/ q \in unread) =>
            b.marker = TRUE \/ q \in unread' \/ expired = TRUE \/ b.result = TRUE
  PROVE  /\ board' \in [Board!Mirrors -> BoardFiles] /\ board'[q] = b
         /\ \A r \in Board!Mirrors : Grows(r)
<1>1. /\ board' \in [Board!Mirrors -> BoardFiles] /\ board'[q] = b
      /\ \A r \in Board!Mirrors \ {q} : board'[r] = board[r]
  BY BoardFacts
<1>2. ASSUME NEW r \in Board!Mirrors \ {q} PROVE Grows(r)
  BY <1>1 DEF Grows, Settled, Indexed
<1>3. Grows(q)
  BY <1>1 DEF Grows, Settled, Indexed
<1> QED BY <1>1, <1>2, <1>3

(* The steps of the requester. *)
LEMMA CallKeeps ==
  ASSUME BoardInv, NEW r \in Board!Mirrors, NEW t \in Tries, Board!Call(r, t),
         UNCHANGED <<acked, Board!serverVars>>
  PROVE  BoardInv'
<1> USE MirrorsAssumption
<1> DEFINE R == [stage : HandlerStages, mirror : 0..NumMirrors, fresh : BOOLEAN, open : BOOLEAN]
           n == Board!NoHandler
           h == [n EXCEPT !.stage = "create", !.mirror = r]
<1>1. /\ handler[t].stage = "new" /\ client' = [at |-> r, try |-> {t}]
      /\ handler' = [handler EXCEPT ![t] = h]
      /\ UNCHANGED <<board, result, listing, unread, expired, boardCopies, deposit, excused, acked>>
  BY DEF Board!Call, Board!serverVars, Board!peerVars, Board!mailVars
<1>n. n \in R
  BY BoardFacts DEF HandlerStages, Board!NoHandler
<1>r. r \in 0..NumMirrors
  BY BoardFacts
<1> HIDE DEF n
<1>2. h \in R
  BY <1>n, <1>r DEF HandlerStages
<1>h. h.stage = "create" /\ h.mirror = r
  BY <1>n
<1> HIDE DEF h
<1>3. /\ handler' \in [Tries -> [stage : HandlerStages, mirror : 0..NumMirrors, fresh : BOOLEAN, open : BOOLEAN]]
      /\ handler'[t] = h /\ \A s \in Tries \ {t} : handler'[s] = handler[s]
  BY <1>1, <1>2, BoardFacts
<1>4. \A q \in Board!Mirrors : Grows(q)
  BY <1>1 DEF Grows, Settled, Indexed
<1>5. Works(t)'
  BY <1>3, <1>h DEF Works
<1>6. HandlersKnow'
  BY <1>3, <1>4, <1>5, HandlerWorks
<1>7. client' \in [at : 0..NumMirrors, try : SUBSET Tries]
  BY <1>1, BoardFacts
<1>8. BoardTypes'
  BY <1>1, <1>3, <1>7, BoardFacts DEF BoardTypes
<1>9. Waits'
  BY <1>1, <1>3, <1>h, BoardFacts DEF Waits
<1>10. ResultFirst' /\ ListedWhere' /\ FirstOnly' /\ \A q \in acked' : Indexed(q)'
  BY <1>1, <1>4, BoardFacts DEF BoardInv, ResultFirst, ListedWhere, FirstOnly, Grows, BoardTypes
<1> QED BY <1>6, <1>8, <1>9, <1>10 DEF BoardInv

LEMMA RequesterKeeps ==
  ASSUME BoardInv,
         \/ Board!AllFailed \/ Board!Acknowledged
         \/ \E t \in Tries : Board!Submit(t) \/ Board!TryNext(t)
  PROVE  BoardInv'
<1> USE MirrorsAssumption
<1>t. client \in [at : 0..NumMirrors, try : SUBSET Tries]
  BY BoardFacts DEF BoardTypes
<1>1. CASE \E t \in Tries : Board!Submit(t) \/ Board!TryNext(t)
  <2> PICK t \in Tries : Board!Submit(t) \/ Board!TryNext(t)
    BY <1>1
  <2>1. CASE Board!Submit(t)
    <3>1. 1 \in Board!Mirrors
      BY BoardFacts
    <3> QED BY <2>1, <3>1, CallKeeps DEF Board!Submit
  <2>2. CASE Board!TryNext(t)
    <3>1. client.at + 1 \in Board!Mirrors
      BY <2>2, BoardFacts DEF Board!TryNext
    <3> QED BY <2>2, <3>1, CallKeeps DEF Board!TryNext
  <2> QED BY <2>1, <2>2
<1>2. ASSUME client' = [at |-> 0, try |-> {}], UNCHANGED <<handler, Board!serverVars>>,
             acked' \subseteq Board!Mirrors, \A r \in acked' : Indexed(r)
      PROVE  BoardInv'
  <2>1. UNCHANGED <<handler, board, result, listing, unread, expired, boardCopies, deposit, excused>>
    BY <1>2 DEF Board!serverVars, Board!peerVars, Board!mailVars
  <2>2. client' \in [at : 0..NumMirrors, try : SUBSET Tries]
    BY <1>2
  <2>3. BoardTypes'
    BY <2>1, <2>2, <1>2, BoardFacts DEF BoardTypes
  <2>4. \A q \in Board!Mirrors : Grows(q)
    BY <2>1 DEF Grows, Settled, Indexed
  <2>5. HandlersKnow'
    BY <2>1, <2>4, HandlersWatch
  <2>6. Waits' /\ ResultFirst' /\ ListedWhere' /\ FirstOnly'
    BY <1>2, <2>1, BoardFacts DEF Waits, ResultFirst, ListedWhere, FirstOnly
  <2>7. \A q \in acked' : Indexed(q)'
    BY <1>2, <2>4 DEF Grows
  <2> QED BY <2>3, <2>5, <2>6, <2>7 DEF BoardInv
<1>3. acked \subseteq Board!Mirrors /\ \A r \in acked : Indexed(r)
  BY DEF BoardInv, BoardTypes
<1>4. CASE Board!AllFailed
  BY <1>2, <1>3, <1>4 DEF Board!AllFailed, Board!NoWalk
<1>5. CASE Board!Acknowledged
  <2>1. PICK t \in client.try : handler[t].stage = "done"
    BY <1>5 DEF Board!Acknowledged
  <2>2. t \in Tries /\ handler[t].mirror = client.at /\ client.at \in Board!Mirrors
    BY <1>t, <2>1, BoardFacts DEF Waits, Works
  <2>3. Indexed(client.at)
    BY <2>1, <2>2, BoardFacts DEF Works
  <2>4. acked' = acked \cup {client.at}
    BY <1>5 DEF Board!Acknowledged
  <2> QED BY <1>2, <1>3, <1>5, <2>2, <2>3, <2>4 DEF Board!Acknowledged, Board!NoWalk
<1> QED BY <1>1, <1>4, <1>5

(* The steps of the handlers. *)
LEMMA HandlerStep ==
  ASSUME BoardInv, NEW t \in Tries, NEW h \in [stage : HandlerStages, mirror : 0..NumMirrors, fresh : BOOLEAN, open : BOOLEAN],
         handler' = [handler EXCEPT ![t] = h], h.mirror = handler[t].mirror,
         handler[t].stage # "new", h.stage # "new",
         board' \in [Board!Mirrors -> BoardFiles], \A r \in Board!Mirrors : Grows(r),
         UNCHANGED Board!handlerVars, Works(t)'
  PROVE  BoardInv'
<1>1. UNCHANGED <<client, acked, result, listing, expired, boardCopies, deposit, excused>>
  BY DEF Board!handlerVars, Board!peerVars, Board!mailVars
<1>2. /\ handler' \in [Tries -> [stage : HandlerStages, mirror : 0..NumMirrors, fresh : BOOLEAN, open : BOOLEAN]]
      /\ handler'[t] = h /\ \A s \in Tries \ {t} : handler'[s] = handler[s]
  BY BoardFacts
<1>3. HandlersKnow'
  BY <1>2, HandlerWorks
<1>4. BoardTypes'
  BY <1>1, <1>2, BoardFacts DEF BoardTypes
<1>5. Waits'
  <2>1. client \in [at : 0..NumMirrors, try : SUBSET Tries]
    BY BoardFacts DEF BoardTypes
  <2> QED BY <1>1, <1>2, <2>1, BoardFacts DEF Waits
<1>6. ResultFirst'
  <2> SUFFICES ASSUME result.stage = "written"
               PROVE  result.mirror \in Board!Mirrors /\ board'[result.mirror].result = TRUE
    BY <1>1 DEF ResultFirst
  <2>1. result.mirror \in Board!Mirrors /\ board[result.mirror].result = TRUE
    BY BoardFacts DEF ResultFirst
  <2> QED BY <2>1 DEF Grows
<1>7. ListedWhere' /\ FirstOnly'
  BY <1>1, BoardFacts DEF ListedWhere, FirstOnly
<1>8. \A q \in acked' : Indexed(q)'
  BY <1>1 DEF BoardInv, BoardTypes, Grows
<1> QED BY <1>3, <1>4, <1>5, <1>6, <1>7, <1>8 DEF BoardInv

LEMMA HandlersKeep ==
  ASSUME BoardInv, NEW t \in Tries,
         \/ Board!Create(t) \/ Board!Write(t) \/ Board!Existing(t) \/ Board!Conflict(t)
         \/ Board!ReadStatus(t) \/ Board!Mark(t)
  PROVE  BoardInv'
<1> DEFINE q == handler[t].mirror
<1>0. /\ handler[t] \in [stage : HandlerStages, mirror : 0..NumMirrors, fresh : BOOLEAN, open : BOOLEAN]
      /\ Works(t) /\ (handler[t].stage # "new" => q \in Board!Mirrors /\ board[q] \in BoardFiles)
      /\ expired \in BOOLEAN
  BY BoardFacts DEF Works, BoardTypes
<1>1. CASE Board!Create(t)
  <2> DEFINE b == [board[q] EXCEPT !.file = "partial"]
             h == [handler[t] EXCEPT !.stage = "write", !.fresh = TRUE]
  <2>1. /\ handler[t].stage = "create" /\ board[q].file = "none"
        /\ board' = [board EXCEPT ![q] = b] /\ handler' = [handler EXCEPT ![t] = h]
        /\ UNCHANGED <<unread, Board!handlerVars>>
    BY <1>1, <1>0, BoardFacts DEF Board!Create, Board!FileOf
  <2>2. /\ b \in BoardFiles /\ b.marker = board[q].marker /\ b.result = board[q].result
        /\ h \in [stage : HandlerStages, mirror : 0..NumMirrors, fresh : BOOLEAN, open : BOOLEAN]
        /\ h.stage = "write" /\ h.mirror = q
    BY <2>1, <1>0 DEF BoardFiles, HandlerStages
  <2> HIDE DEF b, h
  <2>3. board' \in [Board!Mirrors -> BoardFiles] /\ \A r \in Board!Mirrors : Grows(r)
    BY <2>1, <2>2, <1>0, BoardGrows DEF Board!handlerVars
  <2>4. handler'[t] = h
    BY <2>1, BoardFacts
  <2>5. Works(t)'
    BY <2>4, <2>2, <2>1, <1>0 DEF Works
  <2> QED BY <2>1, <2>2, <2>3, <2>5, HandlerStep
<1>2. CASE Board!Write(t)
  <2> DEFINE b == [board[q] EXCEPT !.file = "whole"]
             h == [handler[t] EXCEPT !.stage = "status"]
  <2>1. /\ handler[t].stage = "write"
        /\ board' = [board EXCEPT ![q] = b] /\ handler' = [handler EXCEPT ![t] = h]
        /\ UNCHANGED <<unread, Board!handlerVars>>
    BY <1>2, <1>0, BoardFacts DEF Board!Write, Board!Stage
  <2>2. /\ b \in BoardFiles /\ b.marker = board[q].marker /\ b.result = board[q].result /\ b.file = "whole"
        /\ h \in [stage : HandlerStages, mirror : 0..NumMirrors, fresh : BOOLEAN, open : BOOLEAN]
        /\ h.stage = "status" /\ h.mirror = q
    BY <2>1, <1>0 DEF BoardFiles, HandlerStages
  <2> HIDE DEF b, h
  <2>3. board' \in [Board!Mirrors -> BoardFiles] /\ board'[q] = b /\ \A r \in Board!Mirrors : Grows(r)
    BY <2>1, <2>2, <1>0, BoardGrows DEF Board!handlerVars
  <2>4. handler'[t] = h
    BY <2>1, BoardFacts
  <2>5. Works(t)'
    BY <2>4, <2>2, <2>3, <2>1, <1>0 DEF Works
  <2> QED BY <2>1, <2>2, <2>3, <2>5, HandlerStep
<1>3. CASE Board!Existing(t) \/ Board!Conflict(t)
  <2> DEFINE s == IF board[q].file = "whole" THEN "status" ELSE "refused"
             h == [handler[t] EXCEPT !.stage = s]
  <2>1. /\ handler[t].stage = "create"
        /\ board' = board /\ handler' = [handler EXCEPT ![t] = h]
        /\ UNCHANGED <<unread, Board!handlerVars>>
    BY <1>3, <1>0, BoardFacts DEF Board!Existing, Board!Conflict, Board!Stage, Board!FileOf
  <2>2. /\ h \in [stage : HandlerStages, mirror : 0..NumMirrors, fresh : BOOLEAN, open : BOOLEAN]
        /\ h.stage = s /\ h.mirror = q
    BY <2>1, <1>0 DEF HandlerStages
  <2>3. s \in {"status", "refused"} /\ (s = "status" => board[q].file = "whole")
    OBVIOUS
  <2> HIDE DEF s, h
  <2>4. board' \in [Board!Mirrors -> BoardFiles] /\ \A r \in Board!Mirrors : Grows(r)
    BY <2>1, BoardFacts DEF Board!handlerVars, Grows, Settled, Indexed
  <2>5. handler'[t] = h
    BY <2>1, BoardFacts
  <2>6. Works(t)'
    BY <2>5, <2>3, <2>2, <2>1, <1>0 DEF Works
  <2> QED BY <2>1, <2>2, <2>3, <2>4, <2>6, HandlerStep
<1>4. CASE Board!ReadStatus(t)
  <2> DEFINE o == ~expired /\ ~board[q].result
             h == [handler[t] EXCEPT !.stage = "mark", !.open = o]
  <2>1. /\ handler[t].stage = "status"
        /\ board' = board /\ handler' = [handler EXCEPT ![t] = h]
        /\ UNCHANGED <<unread, Board!handlerVars>>
    BY <1>4, <1>0, BoardFacts DEF Board!ReadStatus
  <2>3. o \in BOOLEAN /\ (o = TRUE \/ Settled(q))
    BY <2>1, <1>0 DEF Settled, BoardFiles
  <2> HIDE DEF o
  <2>2. /\ h \in [stage : HandlerStages, mirror : 0..NumMirrors, fresh : BOOLEAN, open : BOOLEAN]
        /\ h.stage = "mark" /\ h.mirror = q /\ h.open = o
    BY <2>1, <2>3, <1>0 DEF HandlerStages
  <2> HIDE DEF h
  <2>4. board' \in [Board!Mirrors -> BoardFiles] /\ \A r \in Board!Mirrors : Grows(r)
    BY <2>1, BoardFacts DEF Board!handlerVars, Grows, Settled, Indexed
  <2>5. handler'[t] = h
    BY <2>1, BoardFacts
  <2>6. o = TRUE \/ expired' \/ board'[q].result = TRUE
    BY <2>1, <2>3 DEF Settled, Board!handlerVars
  <2>8. board'[q].file = "whole" /\ q \in Board!Mirrors
    BY <2>1, <1>0 DEF Works
  <2>7. Works(t)'
    BY <2>5, <2>2, <2>6, <2>8 DEF Works, Settled
  <2> QED BY <2>1, <2>2, <2>4, <2>7, HandlerStep
<1>5. CASE Board!Mark(t)
  <2> DEFINE b == [board[q] EXCEPT !.marker = handler[t].open]
             h == [handler[t] EXCEPT !.stage = "done"]
  <2>1. /\ handler[t].stage = "mark" /\ unread' = unread \ {q}
        /\ board' = [board EXCEPT ![q] = b] /\ handler' = [handler EXCEPT ![t] = h]
        /\ UNCHANGED Board!handlerVars
    BY <1>5, <1>0, BoardFacts DEF Board!Mark, Board!Stage, Board!Marked
  <2>2. /\ b \in BoardFiles /\ b.marker = handler[t].open /\ b.result = board[q].result /\ b.file = board[q].file
        /\ h \in [stage : HandlerStages, mirror : 0..NumMirrors, fresh : BOOLEAN, open : BOOLEAN]
        /\ h.stage = "done" /\ h.mirror = q
    BY <2>1, <1>0 DEF BoardFiles, HandlerStages
  <2>3. /\ board[q].file = "whole"
        /\ b.marker = TRUE \/ expired = TRUE \/ b.result = TRUE
    BY <2>1, <2>2, <1>0 DEF Works, Settled
  <2> HIDE DEF b, h
  <2>4. board' \in [Board!Mirrors -> BoardFiles] /\ board'[q] = b /\ \A r \in Board!Mirrors : Grows(r)
    BY <2>1, <2>2, <2>3, <1>0, BoardGrows DEF Board!handlerVars
  <2>5. handler'[t] = h
    BY <2>1, BoardFacts
  <2>6. Works(t)'
    BY <2>5, <2>4, <2>3, <2>2, <2>1, <1>0 DEF Works, Indexed, Settled, Board!handlerVars
  <2> QED BY <2>1, <2>2, <2>4, <2>6, HandlerStep
<1> QED BY <1>1, <1>2, <1>3, <1>4, <1>5

(* The steps of results, listings, migration, the clock and restarts. *)
LEMMA RegistryKeeps ==
  ASSUME BoardInv,
         \/ Board!Unmark \/ Board!Judge \/ Board!ReadFails \/ Board!Expire
         \/ \E r \in Board!Mirrors : Board!PublishResult(r) \/ Board!Migrate(r) \/ Board!Glob(r) \/ Board!StopRegistry(r)
  PROVE  BoardInv'
<1> USE MirrorsAssumption
<1>t. /\ result \in [stage : {"idle", "written"}, mirror : 0..NumMirrors]
      /\ listing \in [stage : {"idle", "order"}, mirror : 0..NumMirrors]
      /\ client \in [at : 0..NumMirrors, try : SUBSET Tries]
      /\ expired \in BOOLEAN /\ acked \subseteq Board!Mirrors
      /\ result.stage = "written" => result.mirror \in Board!Mirrors /\ board[result.mirror].result = TRUE
      /\ listing.stage = "order" => listing.mirror \in Board!Mirrors
  BY BoardFacts DEF BoardTypes, ResultFirst, ListedWhere
<1>i. [stage |-> "idle", mirror |-> 0] \in [stage : {"idle", "written"}, mirror : 0..NumMirrors]
      /\ [stage |-> "idle", mirror |-> 0] \in [stage : {"idle", "order"}, mirror : 0..NumMirrors]
  OBVIOUS
<1>1. ASSUME UNCHANGED <<client, acked, boardCopies, deposit, excused>>,
             board' \in [Board!Mirrors -> BoardFiles], \A r \in Board!Mirrors : Grows(r),
             handler' \in [Tries -> [stage : HandlerStages, mirror : 0..NumMirrors, fresh : BOOLEAN, open : BOOLEAN]],
             HandlersKnow', \A t \in Tries : handler'[t].mirror = handler[t].mirror
                                             /\ (handler'[t].stage = "new" <=> handler[t].stage = "new"),
             result' \in [stage : {"idle", "written"}, mirror : 0..NumMirrors],
             listing' \in [stage : {"idle", "order"}, mirror : 0..NumMirrors],
             expired' \in BOOLEAN, ResultFirst', ListedWhere'
      PROVE  BoardInv'
  <2>1. BoardTypes'
    BY <1>1, BoardFacts DEF BoardTypes
  <2>2. Waits' /\ FirstOnly'
    BY <1>1, <1>t, BoardFacts DEF Waits, FirstOnly
  <2>3. \A q \in acked' : Indexed(q)'
    BY <1>1, <1>t DEF BoardInv, Grows
  <2> QED BY <1>1, <2>1, <2>2, <2>3 DEF BoardInv
\* A registry's record is written, by a step that no handler takes part in.
<1>2. ASSUME NEW q \in Board!Mirrors, NEW b \in BoardFiles, board' = [board EXCEPT ![q] = b],
             UNCHANGED <<client, acked, boardCopies, deposit, excused, handler, expired>>,
             b.file = board[q].file, board[q].result = TRUE => b.result = TRUE,
             \A r \in Board!Mirrors \ {q} : r \in unread => r \in unread',
             board[q].file = "whole" /\ (board[q].marker = TRUE \/ q \in unread) =>
                b.marker = TRUE \/ q \in unread' \/ expired = TRUE \/ b.result = TRUE,
             result' \in [stage : {"idle", "written"}, mirror : 0..NumMirrors],
             listing' \in [stage : {"idle", "order"}, mirror : 0..NumMirrors],
             ListedWhere',
             result'.stage = "written" => result' = result \/ (result'.mirror = q /\ b.result = TRUE)
      PROVE  BoardInv'
  <2>1. board' \in [Board!Mirrors -> BoardFiles] /\ board'[q] = b /\ \A r \in Board!Mirrors : Grows(r)
    BY <1>2, <1>t, BoardGrows
  <2>2. HandlersKnow'
    BY <1>2, <2>1, HandlersWatch
  <2>3. ResultFirst'
    <3> SUFFICES ASSUME result'.stage = "written"
                 PROVE  result'.mirror \in Board!Mirrors /\ board'[result'.mirror].result = TRUE
      BY DEF ResultFirst
    <3>1. CASE result' = result
      BY <3>1, <2>1, <1>t DEF Grows
    <3>2. CASE result'.mirror = q /\ b.result = TRUE
      BY <3>2, <2>1
    <3> QED BY <3>1, <3>2, <1>2
  <2> QED BY <1>1, <1>2, <1>t, <2>1, <2>2, <2>3, BoardFacts
<1>3. CASE Board!Unmark
  <2> DEFINE q == result.mirror
             b == [board[q] EXCEPT !.marker = FALSE]
  <2>1. q \in Board!Mirrors /\ board[q] \in BoardFiles /\ board[q].result = TRUE
    BY <1>3, <1>t, BoardFacts DEF Board!Unmark
  <2>2. /\ board' = [board EXCEPT ![q] = b] /\ result' = [stage |-> "idle", mirror |-> 0]
        /\ UNCHANGED <<handler, client, acked, listing, unread, expired, boardCopies, deposit, excused>>
    BY <1>3, <2>1, BoardFacts DEF Board!Unmark, Board!peerVars, Board!mailVars
  <2>3. b \in BoardFiles /\ b.file = board[q].file /\ b.result = TRUE
    BY <2>1 DEF BoardFiles
  <2>4. ListedWhere'
    BY <2>2, BoardFacts DEF ListedWhere
  <2> HIDE DEF q, b
  <2> QED BY <1>2, <1>t, <1>i, <2>1, <2>2, <2>3, <2>4
<1>4. CASE Board!Judge
  <2> DEFINE q == listing.mirror
             m == board[q].marker /\ ~Board!Discarded
             b == [board[q] EXCEPT !.marker = m]
  <2>1. q \in Board!Mirrors /\ board[q] \in BoardFiles
    BY <1>4, <1>t, BoardFacts DEF Board!Judge
  <2>2. /\ board' = [board EXCEPT ![q] = b] /\ listing' = [stage |-> "idle", mirror |-> 0]
        /\ UNCHANGED <<handler, client, acked, result, unread, expired, boardCopies, deposit, excused>>
    BY <1>4, <2>1, BoardFacts DEF Board!Judge, Board!peerVars, Board!mailVars
  <2>m. /\ m \in BOOLEAN
        /\ board[q].file = "whole" /\ board[q].marker = TRUE => m = TRUE \/ expired = TRUE \/ board[q].result = TRUE
    BY <2>1, <1>t DEF Board!Discarded, BoardFiles
  <2> HIDE DEF m
  <2>3. b \in BoardFiles /\ b.file = board[q].file /\ b.result = board[q].result /\ b.marker = m
    BY <2>1, <2>m DEF BoardFiles
  <2>4. ListedWhere'
    BY <2>2 DEF ListedWhere
  <2> HIDE DEF q, b
  <2> QED BY <1>2, <1>t, <1>i, <2>1, <2>2, <2>3, <2>4, <2>m
<1>5. CASE Board!ReadFails
  <2> DEFINE q == listing.mirror
             b == [board[q] EXCEPT !.marker = FALSE]
  <2>1. q \in Board!Mirrors /\ board[q] \in BoardFiles
    BY <1>5, <1>t, BoardFacts DEF Board!ReadFails
  <2>2. /\ board' = [board EXCEPT ![q] = b] /\ listing' = [stage |-> "idle", mirror |-> 0]
        /\ unread' = unread \cup {q}
        /\ UNCHANGED <<handler, client, acked, result, expired, boardCopies, deposit, excused>>
    BY <1>5, <2>1, BoardFacts DEF Board!ReadFails, Board!peerVars, Board!mailVars
  <2>3. b \in BoardFiles /\ b.file = board[q].file /\ b.result = board[q].result
    BY <2>1 DEF BoardFiles
  <2>4. ListedWhere'
    BY <2>2 DEF ListedWhere
  <2> HIDE DEF q, b
  <2> QED BY <1>2, <1>t, <1>i, <2>1, <2>2, <2>3, <2>4
<1>6. CASE Board!Expire
  <2>1. /\ expired' = TRUE
        /\ UNCHANGED <<board, handler, client, acked, result, listing, unread, boardCopies, deposit, excused>>
    BY <1>6 DEF Board!Expire, Board!peerVars, Board!mailVars
  <2>2. \A r \in Board!Mirrors : Grows(r)
    BY <2>1 DEF Grows, Settled, Indexed
  <2>3. HandlersKnow' /\ ResultFirst' /\ ListedWhere'
    BY <2>1, <2>2, HandlersWatch, BoardFacts DEF ResultFirst, ListedWhere
  <2> QED BY <1>1, <1>t, <2>1, <2>2, <2>3, BoardFacts
<1>7. ASSUME NEW q \in Board!Mirrors, Board!PublishResult(q) PROVE BoardInv'
  <2> DEFINE b == [board[q] EXCEPT !.result = TRUE]
  <2>2. /\ board' = [board EXCEPT ![q] = b] /\ result' = [stage |-> "written", mirror |-> q]
        /\ UNCHANGED <<handler, client, acked, listing, unread, expired, boardCopies, deposit, excused>>
    BY <1>7, BoardFacts DEF Board!PublishResult, Board!peerVars, Board!mailVars
  <2>3. b \in BoardFiles /\ b.file = board[q].file /\ b.result = TRUE /\ b.marker = board[q].marker
    BY BoardFacts DEF BoardFiles
  <2>4. ListedWhere' /\ result' \in [stage : {"idle", "written"}, mirror : 0..NumMirrors] /\ result'.mirror = q
    BY <2>2, BoardFacts DEF ListedWhere
  <2> HIDE DEF b
  <2> QED BY <1>2, <1>t, <2>2, <2>3, <2>4
<1>8. ASSUME NEW q \in Board!Mirrors, Board!Migrate(q) PROVE BoardInv'
  <2> DEFINE m == board[q].marker \/ (board[q].file = "whole" /\ ~expired /\ ~board[q].result)
             b == [board[q] EXCEPT !.ready = TRUE, !.marker = m]
  <2>2. /\ board' = [board EXCEPT ![q] = b]
        /\ UNCHANGED <<handler, client, acked, result, listing, unread, expired, boardCopies, deposit, excused>>
    BY <1>8, BoardFacts DEF Board!Migrate, Board!peerVars, Board!mailVars
  <2>m. m \in BOOLEAN /\ (board[q].marker = TRUE => m = TRUE)
    BY BoardFacts DEF BoardFiles
  <2> HIDE DEF m
  <2>3. b \in BoardFiles /\ b.file = board[q].file /\ b.result = board[q].result /\ b.marker = m
    BY <2>m, BoardFacts DEF BoardFiles
  <2>4. ListedWhere'
    BY <2>2, BoardFacts DEF ListedWhere
  <2> HIDE DEF b
  <2> QED BY <1>2, <1>t, <2>2, <2>3, <2>4, <2>m
<1>9. ASSUME NEW q \in Board!Mirrors, Board!Glob(q) PROVE BoardInv'
  <2>1. /\ listing' = [stage |-> "order", mirror |-> q]
        /\ UNCHANGED <<board, handler, client, acked, result, unread, expired, boardCopies, deposit, excused>>
    BY <1>9 DEF Board!Glob, Board!peerVars, Board!mailVars
  <2>2. \A r \in Board!Mirrors : Grows(r)
    BY <2>1 DEF Grows, Settled, Indexed
  <2>3. HandlersKnow' /\ ResultFirst' /\ ListedWhere'
    BY <2>1, <2>2, HandlersWatch, BoardFacts DEF ResultFirst, ListedWhere
  <2>4. listing' \in [stage : {"idle", "order"}, mirror : 0..NumMirrors]
    BY <2>1, BoardFacts
  <2> QED BY <1>1, <1>t, <2>1, <2>2, <2>3, <2>4, BoardFacts
<1>10. ASSUME NEW q \in Board!Mirrors, Board!StopRegistry(q) PROVE BoardInv'
  <2> DEFINE dead(t) == [handler[t] EXCEPT !.stage = "dead"]
  <2>1. /\ handler' = [t \in Tries |-> IF handler[t].mirror = q /\ handler[t].stage \notin {"done", "refused"}
                                       THEN dead(t) ELSE handler[t]]
        /\ result' = IF result.mirror = q THEN [stage |-> "idle", mirror |-> 0] ELSE result
        /\ listing' = IF listing.mirror = q THEN [stage |-> "idle", mirror |-> 0] ELSE listing
        /\ UNCHANGED <<board, client, acked, unread, expired, boardCopies, deposit, excused>>
    BY <1>10 DEF Board!StopRegistry, Board!peerVars, Board!mailVars
  <2>2. \A r \in Board!Mirrors : Grows(r)
    BY <2>1 DEF Grows, Settled, Indexed
  <2>3. \A t \in Tries : /\ dead(t) \in [stage : HandlerStages, mirror : 0..NumMirrors, fresh : BOOLEAN, open : BOOLEAN]
                         /\ dead(t).stage = "dead" /\ dead(t).mirror = handler[t].mirror
    BY BoardFacts DEF HandlerStages
  <2> HIDE DEF dead
  <2>4. /\ handler' \in [Tries -> [stage : HandlerStages, mirror : 0..NumMirrors, fresh : BOOLEAN, open : BOOLEAN]]
        /\ \A t \in Tries : handler'[t] = dead(t) \/ handler'[t] = handler[t]
    BY <2>1, <2>3, BoardFacts
  <2>5. \A t \in Tries : handler'[t].mirror = handler[t].mirror
    BY <2>3, <2>4
  <2>6. HandlersKnow'
    <3> SUFFICES ASSUME NEW t \in Tries PROVE Works(t)'
      BY DEF HandlersKnow
    <3>1. CASE handler'[t] = dead(t)
      <4>1. handler[t].stage # "new" \/ handler[t].mirror = q \/ handler'[t] = handler[t]
        BY <2>1
      <4>2. handler[t].stage # "new" => handler[t].mirror \in Board!Mirrors
        BY BoardFacts DEF Works
      <4>3. handler'[t].stage = "dead" /\ handler'[t].mirror \in Board!Mirrors
        BY <3>1, <4>1, <4>2, <2>3, <2>5
      <4> QED BY <4>3 DEF Works
    <3>2. CASE handler'[t] = handler[t]
      BY <3>2, <2>1, BoardFacts DEF Works, Settled, Indexed
    <3> QED BY <3>1, <3>2, <2>4
  <2>7. \A t \in client.try : handler[t].stage # "new" /\ handler'[t].stage # "new" /\ handler'[t].mirror = client.at
    BY <1>t, <2>3, <2>4, <2>5, BoardFacts DEF Waits
  <2>8. Waits'
    BY <2>1, <2>7, BoardFacts DEF Waits
  <2>9. ResultFirst' /\ ListedWhere'
    BY <2>1, BoardFacts DEF ResultFirst, ListedWhere
  <2>10. /\ result' \in [stage : {"idle", "written"}, mirror : 0..NumMirrors]
         /\ listing' \in [stage : {"idle", "order"}, mirror : 0..NumMirrors]
    BY <2>1, <1>t, <1>i
  <2>11. BoardTypes' /\ FirstOnly'
    BY <2>1, <2>4, <2>10, BoardFacts DEF BoardTypes, FirstOnly
  <2>12. \A r \in acked' : Indexed(r)'
    BY <2>1, <2>2, <1>t DEF BoardInv, Grows
  <2> QED BY <2>6, <2>8, <2>9, <2>11, <2>12 DEF BoardInv
<1> QED BY <1>3, <1>4, <1>5, <1>6, <1>7, <1>8, <1>9, <1>10

(* The letter does not touch the order, nor does a provider's record. *)
LEMMA OrderStays ==
  ASSUME BoardInv, UNCHANGED <<board, handler, client, acked, result, listing, unread, expired>>,
         deposit' \in [at : 0..NumMirrors, count : Nat], excused' \in BOOLEAN, FirstOnly'
  PROVE  BoardInv'
<1>1. BoardTypes'
  BY BoardFacts DEF BoardTypes
<1>2. HandlersKnow'
  BY BoardFacts DEF HandlersKnow, Works, Settled, Indexed
<1>3. Waits' /\ ResultFirst' /\ ListedWhere'
  BY BoardFacts DEF Waits, ResultFirst, ListedWhere
<1>4. \A r \in acked' : Indexed(r)'
  BY DEF BoardInv, Indexed, Settled
<1> QED BY <1>1, <1>2, <1>3, <1>4 DEF BoardInv

LEMMA LettersKeep == ASSUME BoardInv, Board!LetterNext PROVE BoardInv'
<1> USE MirrorsAssumption
<1>t. /\ deposit \in [at : 0..NumMirrors, count : Nat] /\ excused \in BOOLEAN
      /\ (~excused => boardCopies \subseteq {1} /\ deposit.at \in {0, 1})
  BY BoardFacts DEF BoardTypes, FirstOnly
<1>n. NumMirrors \in Nat /\ NumMirrors >= 1 /\ Board!Mirrors = 1..NumMirrors
  BY BoardFacts
<1>1. CASE Board!Deposit
  <2>1. /\ deposit' = [at |-> 1, count |-> deposit.count + 1]
        /\ UNCHANGED <<board, handler, client, acked, result, listing, unread, expired, boardCopies, excused>>
    BY <1>1 DEF Board!Deposit, Board!orderVars
  <2>2. deposit' \in [at : 0..NumMirrors, count : Nat] /\ deposit'.at = 1
    BY <2>1, <1>t, <1>n
  <2>3. FirstOnly'
    BY <2>1, <2>2, <1>t DEF FirstOnly
  <2> QED BY <2>1, <2>2, <2>3, <1>t, OrderStays
<1>2. CASE Board!Verdict
  <2> DEFINE verdict == IF deposit.at \in boardCopies THEN "refused" ELSE "stored"
  <2>1. Board!Ends(verdict) = TRUE
    BY DEF Board!Ends
  <2>2. /\ deposit' = [deposit EXCEPT !.at = 0] /\ deposit.at \in Board!Mirrors
        /\ boardCopies' = boardCopies \cup {deposit.at}
        /\ UNCHANGED <<board, handler, client, acked, result, listing, unread, expired, excused>>
    BY <1>2, <2>1 DEF Board!Verdict, Board!orderVars
  <2>3. deposit' \in [at : 0..NumMirrors, count : Nat] /\ deposit'.at = 0
    BY <2>2, <1>t, <1>n
  <2>4. FirstOnly'
    BY <2>2, <2>3, <1>t, <1>n DEF FirstOnly
  <2> QED BY <2>2, <2>3, <2>4, <1>t, OrderStays
<1>3. ASSUME NEW kept \in BOOLEAN, Board!NoVerdict(kept) PROVE BoardInv'
  <2>1. /\ deposit' = [deposit EXCEPT !.at = (deposit.at + 1) % (NumMirrors + 1)] /\ excused' = TRUE
        /\ UNCHANGED <<board, handler, client, acked, result, listing, unread, expired>>
    BY <1>3 DEF Board!NoVerdict, Board!orderVars
  <2>2. (deposit.at + 1) % (NumMirrors + 1) \in 0..NumMirrors
    BY <1>t, <1>n
  <2>3. deposit' \in [at : 0..NumMirrors, count : Nat]
    BY <2>1, <2>2, <1>t
  <2>4. FirstOnly'
    BY <2>1 DEF FirstOnly
  <2> QED BY <2>1, <2>3, <2>4, OrderStays
<1>4. ASSUME NEW r \in Board!Mirrors, Board!RegisterPeer(r) \/ Board!Age(r) PROVE BoardInv'
  <2>1. UNCHANGED <<board, handler, client, acked, result, listing, unread, expired, boardCopies, deposit, excused>>
    BY <1>4 DEF Board!RegisterPeer, Board!Age, Board!orderVars, Board!mailVars
  <2>2. FirstOnly'
    BY <2>1, <1>t DEF FirstOnly
  <2> QED BY <2>1, <2>2, <1>t, OrderStays
<1> QED BY <1>1, <1>2, <1>3, <1>4 DEF Board!LetterNext

LEMMA BoardKeeps == ASSUME BoardInv, Board!BoardNext PROVE BoardInv'
<1>1. CASE Board!AllFailed \/ Board!Acknowledged \/ \E t \in Tries : Board!Submit(t) \/ Board!TryNext(t)
  BY <1>1, RequesterKeeps
<1>2. CASE \E t \in Tries : Board!Create(t) \/ Board!Write(t) \/ Board!Existing(t) \/ Board!Conflict(t)
                            \/ Board!ReadStatus(t) \/ Board!Mark(t)
  BY <1>2, HandlersKeep
<1>3. CASE \/ Board!Unmark \/ Board!Judge \/ Board!ReadFails \/ Board!Expire
           \/ \E r \in Board!Mirrors : Board!PublishResult(r) \/ Board!Migrate(r) \/ Board!Glob(r) \/ Board!StopRegistry(r)
  BY <1>3, RegistryKeeps
<1>4. CASE Board!LetterNext
  BY <1>4, LettersKeep
<1> QED BY <1>1, <1>2, <1>3, <1>4 DEF Board!BoardNext, Board!OrderNext

(* The order and the letter, as the registry and its mirrors promise them. *)
LEMMA BoardPromises == ASSUME BoardInv PROVE Board!BoardSound
<1>1. Board!AcceptedIsListed
  BY BoardFacts DEF BoardInv, Indexed, Settled, Board!AcceptedIsListed, BoardTypes
<1>2. Board!OneCopyPerVerdict
  <2>1. IsFiniteSet({1}) /\ Cardinality({1}) = 1
    BY FS_Singleton
  <2>2. ~excused => boardCopies \subseteq {1}
    BY BoardFacts DEF FirstOnly
  <2>3. ~excused => Cardinality(boardCopies) <= 1
    BY <2>1, <2>2, FS_Subset
  <2>4. ~excused => IsFiniteSet(boardCopies)
    BY <2>1, <2>2, FS_Subset
  <2>5. ~excused => Cardinality(boardCopies) \in Nat
    BY <2>4, FS_CardinalityType
  <2>6. Cardinality(boardCopies) > 1 => excused
    BY <2>3, <2>5
  <2> QED BY <2>6 DEF Board!OneCopyPerVerdict, Board!Cardinality, Cardinality
<1> QED BY <1>1, <1>2 DEF Board!BoardSound

-----------------------------------------------------------------------------
(* Deliveries and their credits.                                               *)

OfFull == {"save", "open", "stream", "check"}
OfPreview == {"preview", "keep", "write"}
Walks == [stage : {"idle", "manifest", "credit", "receipt"} \cup OfFull \cup OfPreview,
          kind : Content!Kinds, from : Homes \cup {0}, manifest : Homes \cup {0}]
Copiers == [stage : {"idle", "copy", "credit"}, kind : Content!Kinds, from : Homes \cup {0}, manifest : Homes \cup {0}]
Media == {"none", "torn", "right", "wrong"}
Disks == [manifest : Homes \cup {0}, preview : Homes \cup {0}, own : Media, fetched : Media]
Shelves == [announced : BOOLEAN, media : Media]
ContentTypes ==
    /\ disk \in [Homes -> Disks] /\ bus \in [Homes -> Shelves]
    /\ contentFetch \in [Homes -> Walks] /\ copier \in [Homes -> Copiers]
    /\ credits \in [Homes -> [Content!Events -> {0, 1}]]
    /\ raced \in BOOLEAN

\* The attestation a fetch of n leads to.
Delivery(n, w) == <<w.kind, n, w.from>>

\* A fetch is credited for what it checked, and posts what it recorded.
Checked(n, w, ver, cr) ==
    /\ w.stage # "idle" => w.from \in Homes
    /\ w.stage \in OfFull => w.kind = "full"
    /\ w.stage \in OfPreview => w.kind = "preview"
    /\ w.stage \in {"keep", "write", "credit", "receipt"} => Delivery(n, w) \in ver
    /\ w.stage = "receipt" => cr[n][Delivery(n, w)] > 0
FetchesChecked == \A n \in Homes : Checked(n, contentFetch[n], verified, credits)

\* A file that is being copied is whole, and a copy was of a whole file, unless it was
\* rewritten under the copier.
CopyChecked(n, w, ver, rc, bs) ==
    /\ w.stage # "idle" => w.from \in Homes
    /\ w.stage = "copy" => rc = TRUE \/ bs[w.from].media = "right"
    /\ w.stage = "credit" => rc = TRUE \/ <<"full", n, w.from>> \in ver
CopiesChecked == \A n \in Homes : CopyChecked(n, copier[n], verified, raced, bus)

ContentInv == ContentTypes /\ FetchesChecked /\ CopiesChecked /\ Content!CreditIsEarned

LEMMA ContentStarts == ASSUME Content!Init PROVE ContentInv
<1>e. Content!Idle \in Walks /\ Content!Idle \in Copiers /\ Content!Idle.stage = "idle"
  BY DEF Content!Idle, Content!None, Content!Kinds, Walks, Copiers
<1>1. disk \in [Homes -> Disks]
  BY DEF Content!Init, Content!None, Disks, Media
<1>2. bus \in [Homes -> Shelves]
  BY DEF Content!Init, Shelves, Media
<1>3. /\ contentFetch \in [Homes -> Walks] /\ copier \in [Homes -> Copiers]
      /\ \A n \in Homes : contentFetch[n].stage = "idle" /\ copier[n].stage = "idle"
  BY <1>e DEF Content!Init
<1>4. credits \in [Homes -> [Content!Events -> {0, 1}]] /\ raced = FALSE
  BY DEF Content!Init
<1>5. ContentTypes
  BY <1>1, <1>2, <1>3, <1>4 DEF ContentTypes
<1>6. FetchesChecked /\ CopiesChecked
  BY <1>3 DEF FetchesChecked, Checked, CopiesChecked, CopyChecked, OfFull, OfPreview
<1>7. Content!CreditIsEarned
  <2> SUFFICES ASSUME NEW n \in Homes, NEW c \in Homes, NEW p \in Homes, NEW k \in Content!Kinds
               PROVE  credits[n][<<k, c, p>>] <= 1 /\ ~(credits[n][<<k, c, p>>] > 0)
    BY DEF Content!CreditIsEarned
  <2> DEFINE e == <<k, c, p>>
  <2>1. e \in Content!Events
    BY DEF Content!Events
  <2>2. credits[n][e] = 0
    BY <2>1 DEF Content!Init
  <2> QED BY <2>2
<1> QED BY <1>5, <1>6, <1>7 DEF ContentInv

LEMMA ContentFacts ==
  ASSUME ContentInv
  PROVE  /\ ContentTypes /\ FetchesChecked /\ CopiesChecked /\ Content!CreditIsEarned
         /\ \A n \in Homes : contentFetch[n] \in Walks /\ copier[n] \in Copiers /\ disk[n] \in Disks /\ bus[n] \in Shelves
         /\ \A n \in Homes : Checked(n, contentFetch[n], verified, credits)
         /\ \A n \in Homes : CopyChecked(n, copier[n], verified, raced, bus)
BY DEF ContentInv, ContentTypes, FetchesChecked, CopiesChecked

(* Nothing that was checked or recorded is forgotten. *)
CreditsGrow == \A n \in Homes : \A e \in Content!Events : credits[n][e] > 0 => credits'[n][e] > 0
HistoryGrows == verified \subseteq verified' /\ (raced = TRUE => raced' = TRUE)

LEMMA DeliveryIsEvent ==
  ASSUME NEW n \in Homes, NEW w \in Walks, w.from \in Homes
  PROVE  /\ Delivery(n, w) = <<w.kind, n, w.from>> /\ w.kind \in Content!Kinds
         /\ Delivery(n, w) \in Content!Events
BY DEF Delivery, Walks, Content!Events

LEMMA WalkStays ==
  ASSUME NEW n \in Homes, NEW w \in Walks, Checked(n, w, verified, credits), CreditsGrow, HistoryGrows
  PROVE  Checked(n, w, verified', credits')
<1>1. w.stage # "idle" => w.from \in Homes
  BY DEF Checked
<1>2. w.stage = "receipt" => credits'[n][Delivery(n, w)] > 0
  BY <1>1, DeliveryIsEvent DEF Checked, CreditsGrow
<1> QED BY <1>1, <1>2 DEF Checked, HistoryGrows

LEMMA FetchStays ==
  ASSUME ContentInv, UNCHANGED contentFetch, CreditsGrow, HistoryGrows
  PROVE  contentFetch' \in [Homes -> Walks] /\ FetchesChecked'
<1>1. \A n \in Homes : Checked(n, contentFetch[n], verified', credits')
  BY ContentFacts, WalkStays
<1> QED BY <1>1, ContentFacts DEF FetchesChecked, ContentTypes

LEMMA FetchMoves ==
  ASSUME ContentInv, NEW n \in Homes, NEW v \in Walks, contentFetch' = [contentFetch EXCEPT ![n] = v],
         Checked(n, v, verified', credits'), CreditsGrow, HistoryGrows
  PROVE  contentFetch' \in [Homes -> Walks] /\ FetchesChecked'
<1>1. contentFetch \in [Homes -> Walks]
  BY ContentFacts DEF ContentTypes
<1>2. /\ contentFetch' \in [Homes -> Walks] /\ contentFetch'[n] = v
      /\ \A m \in Homes \ {n} : contentFetch'[m] = contentFetch[m]
  BY <1>1
<1>3. \A m \in Homes \ {n} : Checked(m, contentFetch[m], verified', credits')
  BY ContentFacts, WalkStays
<1>4. \A m \in Homes : Checked(m, contentFetch'[m], verified', credits')
  BY <1>2, <1>3
<1> QED BY <1>2, <1>4 DEF FetchesChecked

LEMMA CopiersStay ==
  ASSUME ContentInv, UNCHANGED copier, HistoryGrows,
         \A c \in Homes : copier[c].stage = "copy" /\ bus[copier[c].from].media = "right" =>
            raced' = TRUE \/ bus'[copier[c].from].media = "right"
  PROVE  copier' \in [Homes -> Copiers] /\ CopiesChecked'
<1>1. \A n \in Homes : CopyChecked(n, copier[n], verified', raced', bus')
  BY ContentFacts DEF CopyChecked, HistoryGrows
<1> QED BY <1>1, ContentFacts DEF CopiesChecked, ContentTypes

LEMMA CopierMoves ==
  ASSUME ContentInv, NEW n \in Homes, NEW v \in Copiers, copier' = [copier EXCEPT ![n] = v],
         UNCHANGED bus, HistoryGrows, CopyChecked(n, v, verified', raced', bus')
  PROVE  copier' \in [Homes -> Copiers] /\ CopiesChecked'
<1>1. copier \in [Homes -> Copiers]
  BY ContentFacts DEF ContentTypes
<1>2. /\ copier' \in [Homes -> Copiers] /\ copier'[n] = v
      /\ \A m \in Homes \ {n} : copier'[m] = copier[m]
  BY <1>1
<1>3. \A m \in Homes \ {n} : CopyChecked(m, copier[m], verified', raced', bus')
  BY ContentFacts DEF CopyChecked, HistoryGrows
<1>4. \A m \in Homes : CopyChecked(m, copier'[m], verified', raced', bus')
  BY <1>2, <1>3
<1> QED BY <1>2, <1>4 DEF CopiesChecked

LEMMA CreditsStay ==
  ASSUME ContentInv, UNCHANGED credits, HistoryGrows, raced' \in BOOLEAN
  PROVE  credits' \in [Homes -> [Content!Events -> {0, 1}]] /\ CreditsGrow /\ Content!CreditIsEarned'
<1>1. raced \in BOOLEAN /\ credits \in [Homes -> [Content!Events -> {0, 1}]]
  BY ContentFacts DEF ContentTypes
<1>2. Content!CreditIsEarned'
  BY <1>1, ContentFacts DEF Content!CreditIsEarned, HistoryGrows
<1> QED BY <1>1, <1>2 DEF CreditsGrow

(* FileCreditLedger.append: an attestation of n's own delivery, or one that its consumer *)
(* has, of bytes that were checked.                                                      *)
LEMMA AppendKeeps ==
  ASSUME ContentInv, NEW n \in Homes, NEW e \in Content!Events, Content!Append(n, e),
         UNCHANGED <<verified, raced>>,
         \A k \in Content!Kinds, c, p \in Homes : e = <<k, c, p>> =>
            /\ n \in {c, p} /\ (n = c \/ credits[c][e] > 0)
            /\ e \in verified \/ raced = TRUE
  PROVE  /\ credits' \in [Homes -> [Content!Events -> {0, 1}]] /\ CreditsGrow /\ HistoryGrows
         /\ credits'[n][e] > 0 /\ Content!CreditIsEarned'
<1>1. raced \in BOOLEAN /\ credits \in [Homes -> [Content!Events -> {0, 1}]]
  BY ContentFacts DEF ContentTypes
<1>2. HistoryGrows
  BY DEF HistoryGrows
<1>3. CASE credits[n][e] > 0
  <2>1. UNCHANGED credits
    BY <1>3 DEF Content!Append, Content!FindByDedupe
  <2> QED BY <2>1, <1>1, <1>2, <1>3, CreditsStay
<1>4. CASE ~(credits[n][e] > 0)
  <2>1. credits' = [credits EXCEPT ![n][e] = credits[n][e] + 1]
    BY <1>4 DEF Content!Append, Content!FindByDedupe
  <2>2. credits[n] \in [Content!Events -> {0, 1}] /\ credits[n][e] \in {0, 1}
    BY <1>1
  <2>3. credits[n][e] + 1 = 1
    BY <1>4, <2>2
  <2> DEFINE row == [credits[n] EXCEPT ![e] = 1]
  <2>4. credits' = [credits EXCEPT ![n] = row]
    BY <2>1, <2>3
  <2>5. row \in [Content!Events -> {0, 1}] /\ row[e] = 1 /\ \A f \in Content!Events \ {e} : row[f] = credits[n][f]
    BY <2>2
  <2> HIDE DEF row
  <2>6. /\ credits' \in [Homes -> [Content!Events -> {0, 1}]]
        /\ credits'[n] = row /\ \A m \in Homes \ {n} : credits'[m] = credits[m]
    BY <2>4, <2>5, <1>1
  <2>7. credits'[n][e] > 0 /\ \A m \in Homes, f \in Content!Events : m # n \/ f # e => credits'[m][f] = credits[m][f]
    BY <2>5, <2>6
  <2>8. CreditsGrow
    BY <2>7 DEF CreditsGrow
  <2>9. Content!CreditIsEarned'
    <3> SUFFICES ASSUME NEW m \in Homes, NEW c \in Homes, NEW p \in Homes, NEW k \in Content!Kinds
                 PROVE  /\ credits'[m][<<k, c, p>>] <= 1
                        /\ credits'[m][<<k, c, p>>] > 0 =>
                             /\ m \in {c, p} /\ credits'[c][<<k, c, p>>] > 0
                             /\ <<k, c, p>> \in verified' \/ raced'
      BY DEF Content!CreditIsEarned
    <3> DEFINE f == <<k, c, p>>
    <3>1. f \in Content!Events
      BY DEF Content!Events
    <3>2. credits'[m][f] \in {0, 1}
      BY <2>6, <3>1
    <3>3. CASE m = n /\ f = e
      <4>1. n \in {c, p} /\ (n = c \/ credits[c][f] > 0) /\ (f \in verified \/ raced = TRUE)
        BY <3>3
      <4>2. credits'[c][f] > 0
        BY <4>1, <3>1, <3>3, <2>7, <2>8 DEF CreditsGrow
      <4> QED BY <4>1, <4>2, <3>2, <3>3
    <3>4. CASE m # n \/ f # e
      <4>1. credits'[m][f] = credits[m][f]
        BY <3>1, <3>4, <2>7
      <4>2. credits[m][f] > 0 => m \in {c, p} /\ credits[c][f] > 0 /\ (f \in verified \/ raced)
        BY ContentFacts DEF Content!CreditIsEarned
      <4>3. credits[m][f] > 0 => credits'[c][f] > 0
        BY <4>2, <3>1, <2>8 DEF CreditsGrow
      <4> QED BY <4>1, <4>2, <4>3, <3>2
    <3> QED BY <3>3, <3>4
  <2> QED BY <2>6, <2>7, <2>8, <2>9, <1>2
<1> QED BY <1>3, <1>4

(* A disk and a shelf after one write. *)
LEMMA DiskWrites ==
  ASSUME ContentInv, NEW n \in Homes
  PROVE  /\ \A x \in Homes \cup {0} : [disk EXCEPT ![n].manifest = x] \in [Homes -> Disks]
         /\ \A x \in Homes \cup {0} : [disk EXCEPT ![n].preview = x] \in [Homes -> Disks]
         /\ \A x \in Media : [disk EXCEPT ![n].own = x] \in [Homes -> Disks]
         /\ \A x \in Media : [disk EXCEPT ![n].fetched = x] \in [Homes -> Disks]
         /\ \A x \in Media : [bus EXCEPT ![n].media = x] \in [Homes -> Shelves]
         /\ [bus EXCEPT ![n].announced = TRUE] \in [Homes -> Shelves]
<1>1. disk \in [Homes -> Disks] /\ bus \in [Homes -> Shelves] /\ disk[n] \in Disks /\ bus[n] \in Shelves
  BY ContentFacts DEF ContentTypes
<1>2. /\ \A x \in Homes \cup {0} : [disk[n] EXCEPT !.manifest = x] \in Disks
      /\ \A x \in Homes \cup {0} : [disk[n] EXCEPT !.preview = x] \in Disks
      /\ \A x \in Media : [disk[n] EXCEPT !.own = x] \in Disks
      /\ \A x \in Media : [disk[n] EXCEPT !.fetched = x] \in Disks
      /\ \A x \in Media : [bus[n] EXCEPT !.media = x] \in Shelves
      /\ [bus[n] EXCEPT !.announced = TRUE] \in Shelves
  BY <1>1 DEF Disks, Shelves
<1> QED BY <1>1, <1>2

LEMMA QuietKeeps ==
  ASSUME ContentInv, disk' \in [Homes -> Disks], bus' \in [Homes -> Shelves], raced' \in BOOLEAN,
         UNCHANGED <<contentFetch, copier, credits, verified>>, raced = TRUE => raced' = TRUE,
         \A c \in Homes : copier[c].stage = "copy" /\ bus[copier[c].from].media = "right" =>
            raced' = TRUE \/ bus'[copier[c].from].media = "right"
  PROVE  ContentInv'
<1>1. HistoryGrows
  BY DEF HistoryGrows
<1>2. credits' \in [Homes -> [Content!Events -> {0, 1}]] /\ CreditsGrow /\ Content!CreditIsEarned'
  BY <1>1, CreditsStay
<1>3. contentFetch' \in [Homes -> Walks] /\ FetchesChecked'
  BY <1>1, <1>2, FetchStays
<1>4. copier' \in [Homes -> Copiers] /\ CopiesChecked'
  BY <1>1, CopiersStay
<1> QED BY <1>2, <1>3, <1>4 DEF ContentInv, ContentTypes

LEMMA FetchKeeps ==
  ASSUME ContentInv, NEW n \in Homes, NEW v \in Walks, contentFetch' = [contentFetch EXCEPT ![n] = v],
         disk' \in [Homes -> Disks], UNCHANGED <<bus, copier, credits, raced>>,
         verified \subseteq verified', Checked(n, v, verified', credits)
  PROVE  ContentInv'
<1>0. raced' \in BOOLEAN /\ bus' \in [Homes -> Shelves]
  BY ContentFacts DEF ContentTypes
<1>1. HistoryGrows
  BY DEF HistoryGrows
<1>2. credits' \in [Homes -> [Content!Events -> {0, 1}]] /\ CreditsGrow /\ Content!CreditIsEarned'
  BY <1>0, <1>1, CreditsStay
<1>3. contentFetch' \in [Homes -> Walks] /\ FetchesChecked'
  BY <1>1, <1>2, FetchMoves
<1>4. copier' \in [Homes -> Copiers] /\ CopiesChecked'
  BY <1>1, CopiersStay
<1> QED BY <1>0, <1>2, <1>3, <1>4 DEF ContentInv, ContentTypes

LEMMA CopierKeeps ==
  ASSUME ContentInv, NEW n \in Homes, NEW v \in Copiers, copier' = [copier EXCEPT ![n] = v],
         disk' \in [Homes -> Disks], UNCHANGED <<bus, contentFetch, credits, raced>>,
         verified \subseteq verified', CopyChecked(n, v, verified', raced, bus)
  PROVE  ContentInv'
<1>0. raced' \in BOOLEAN /\ bus' \in [Homes -> Shelves]
  BY ContentFacts DEF ContentTypes
<1>1. HistoryGrows
  BY DEF HistoryGrows
<1>2. credits' \in [Homes -> [Content!Events -> {0, 1}]] /\ CreditsGrow /\ Content!CreditIsEarned'
  BY <1>0, <1>1, CreditsStay
<1>3. contentFetch' \in [Homes -> Walks] /\ FetchesChecked'
  BY <1>1, <1>2, FetchStays
<1>4. copier' \in [Homes -> Copiers] /\ CopiesChecked'
  BY <1>1, CopierMoves
<1> QED BY <1>0, <1>2, <1>3, <1>4 DEF ContentInv, ContentTypes

(* publish_content: only a rewritten file disturbs a copier, and that is raced. *)
LEMMA PublishKeeps ==
  ASSUME ContentInv, NEW n \in Homes, Content!PublishNext(n)
  PROVE  ContentInv'
<1>t. /\ disk \in [Homes -> Disks] /\ bus \in [Homes -> Shelves] /\ raced \in BOOLEAN
      /\ contentFetch \in [Homes -> Walks] /\ copier \in [Homes -> Copiers]
  BY ContentFacts DEF ContentTypes
<1>1. CASE Content!Prepare(n) \/ Content!Blocked(n)
  BY <1>1, <1>t, QuietKeeps DEF Content!Prepare, Content!Blocked, Content!Others
<1>2. CASE Content!OpenLocal(n)
  <2>1. disk' = [disk EXCEPT ![n].preview = n, ![n].own = "torn"] /\ UNCHANGED <<bus, credits, raced, contentFetch, copier, verified>>
    BY <1>2 DEF Content!OpenLocal, Content!Others
  <2>2. disk' \in [Homes -> Disks]
    <3> DEFINE b == [[disk[n] EXCEPT !.preview = n] EXCEPT !.own = "torn"]
    <3>1. [disk[n] EXCEPT !.preview = n] \in Disks
      BY <1>t DEF Disks
    <3>2. b \in Disks
      BY <3>1 DEF Disks, Media
    <3>3. disk' = [disk EXCEPT ![n] = b]
      BY <2>1, <1>t
    <3> QED BY <3>2, <3>3, <1>t
  <2> QED BY <2>1, <2>2, <1>t, QuietKeeps
<1>3. CASE Content!CopyLocal(n)
  <2>1. disk' = [disk EXCEPT ![n].own = "right"] /\ UNCHANGED <<bus, credits, raced, contentFetch, copier, verified>>
    BY <1>3 DEF Content!CopyLocal, Content!Others
  <2>2. disk' \in [Homes -> Disks]
    BY <2>1, DiskWrites DEF Media
  <2> QED BY <2>1, <2>2, <1>t, QuietKeeps
<1>4. CASE Content!SaveManifest(n)
  <2>1. disk' = [disk EXCEPT ![n].manifest = n] /\ UNCHANGED <<bus, credits, raced, contentFetch, copier, verified>>
    BY <1>4 DEF Content!SaveManifest, Content!Others
  <2>2. disk' \in [Homes -> Disks]
    BY <2>1, DiskWrites
  <2> QED BY <2>1, <2>2, <1>t, QuietKeeps
<1>5. CASE Content!OpenBus(n)
  <2>1. /\ bus' = [bus EXCEPT ![n].media = "torn"] /\ UNCHANGED <<disk, credits, contentFetch, copier, verified>>
        /\ raced' = (raced \/ \E c \in Homes : copier[c].from = n /\ copier[c].stage = "copy")
    BY <1>5 DEF Content!OpenBus, Content!Others
  <2>2. bus' \in [Homes -> Shelves]
    BY <2>1, DiskWrites DEF Media
  <2>3. \A p \in Homes \ {n} : bus'[p] = bus[p]
    BY <2>1, <1>t
  <2>4. \A c \in Homes : copier[c].stage = "copy" => copier[c].from \in Homes
    BY ContentFacts DEF CopyChecked
  <2>5. raced' \in BOOLEAN
    BY <2>1
  <2>6. raced = TRUE => raced' = TRUE
    BY <2>1
  <2>7. \A c \in Homes : copier[c].stage = "copy" /\ copier[c].from = n => raced' = TRUE
    BY <2>1
  <2>8. \A c \in Homes : copier[c].stage = "copy" /\ bus[copier[c].from].media = "right" =>
            raced' = TRUE \/ bus'[copier[c].from].media = "right"
    BY <2>3, <2>4, <2>7
  <2> QED BY <2>1, <2>2, <2>5, <2>6, <2>8, <1>t, QuietKeeps
<1>6. CASE Content!FillBus(n)
  <2>1. bus' = [bus EXCEPT ![n].media = "right"] /\ UNCHANGED <<disk, credits, raced, contentFetch, copier, verified>>
    BY <1>6 DEF Content!FillBus, Content!Others
  <2>2. bus' \in [Homes -> Shelves] /\ \A p \in Homes : bus[p].media = "right" => bus'[p].media = "right"
    <3>1. bus' \in [Homes -> Shelves]
      BY <2>1, DiskWrites DEF Media
    <3>2. \A p \in Homes \ {n} : bus'[p] = bus[p]
      BY <2>1, <1>t
    <3>3. bus'[n].media = "right"
      BY <2>1, <1>t DEF Shelves
    <3> QED BY <3>1, <3>2, <3>3
  <2>3. \A c \in Homes : copier[c].stage = "copy" => copier[c].from \in Homes
    BY ContentFacts DEF CopyChecked
  <2> QED BY <2>1, <2>2, <2>3, <1>t, QuietKeeps
<1>7. CASE Content!Announce(n)
  <2>1. bus' = [bus EXCEPT ![n].announced = TRUE] /\ UNCHANGED <<disk, credits, raced, contentFetch, copier, verified>>
    BY <1>7 DEF Content!Announce, Content!Others
  <2>2. bus' \in [Homes -> Shelves] /\ \A p \in Homes : bus'[p].media = bus[p].media
    BY <2>1, <1>t, DiskWrites DEF Shelves
  <2>3. \A c \in Homes : copier[c].stage = "copy" => copier[c].from \in Homes
    BY ContentFacts DEF CopyChecked
  <2> QED BY <2>1, <2>2, <2>3, <1>t, QuietKeeps
<1>8. CASE Content!CreditPublished(n)
  <2> DEFINE e == <<"published", n, n>>
  <2>1. Content!Append(n, e) /\ UNCHANGED <<disk, bus, raced, contentFetch, copier, verified>>
    BY <1>8 DEF Content!CreditPublished, Content!Others
  <2>2. e \in Content!Events /\ \A k \in Content!Kinds, c, p \in Homes : e # <<k, c, p>>
    BY DEF Content!Events, Content!Kinds
  <2> HIDE DEF e
  <2>3. /\ credits' \in [Homes -> [Content!Events -> {0, 1}]] /\ CreditsGrow /\ HistoryGrows
        /\ Content!CreditIsEarned'
    <3>1. \A k \in Content!Kinds, c, p \in Homes : e = <<k, c, p>> =>
            /\ n \in {c, p} /\ (n = c \/ credits[c][e] > 0)
            /\ e \in verified \/ raced = TRUE
      BY <2>2
    <3> HIDE <2>2
    <3>2. e \in Content!Events
      BY <2>2
    <3> QED BY <2>1, <3>1, <3>2, AppendKeeps
  <2>4. contentFetch' \in [Homes -> Walks] /\ FetchesChecked' /\ copier' \in [Homes -> Copiers] /\ CopiesChecked'
    BY <2>1, <2>3, FetchStays, CopiersStay
  <2> QED BY <2>1, <2>3, <2>4, <1>t DEF ContentInv, ContentTypes
<1> QED BY <1>1, <1>2, <1>3, <1>4, <1>5, <1>6, <1>7, <1>8 DEF Content!PublishNext

(* A fetch that goes on to another stage; what it was about stays. *)
LEMMA WalkGoes ==
  ASSUME ContentInv, NEW n \in Homes, NEW s \in {"idle", "manifest", "credit", "receipt"} \cup OfFull \cup OfPreview
  PROVE  LET v == [contentFetch[n] EXCEPT !.stage = s]
         IN  /\ v \in Walks /\ v.stage = s /\ v.kind = contentFetch[n].kind /\ v.from = contentFetch[n].from
             /\ Delivery(n, v) = Delivery(n, contentFetch[n])
<1>1. contentFetch[n] \in Walks
  BY ContentFacts
<1> QED BY <1>1 DEF Walks, Delivery

(* fetch_peer_content_preview and fetch_peer_content_full up to the credit. *)
LEMMA FetchingKeeps ==
  ASSUME ContentInv, NEW n \in Homes,
         \/ \E p \in Homes, kind \in Content!Kinds : Content!FetchStart(n, p, kind)
         \/ Content!GetManifest(n) \/ Content!KeepManifest(n) \/ Content!GetPreview(n) \/ Content!KeepPreview(n)
         \/ Content!OpenMedia(n) \/ Content!CheckMedia(n) \/ Content!TimesOut(n)
         \/ \E bytes \in {"right", "wrong"} : Content!Streamed(n, bytes)
  PROVE  ContentInv'
<1> DEFINE w == contentFetch[n]
           goes(s) == [w EXCEPT !.stage = s]
<1>t. /\ disk \in [Homes -> Disks] /\ bus \in [Homes -> Shelves] /\ raced \in BOOLEAN
      /\ contentFetch \in [Homes -> Walks] /\ copier \in [Homes -> Copiers]
  BY ContentFacts DEF ContentTypes
<1>w. w \in Walks /\ Checked(n, w, verified, credits)
  BY ContentFacts
<1>g. \A s \in {"idle", "manifest", "credit", "receipt"} \cup OfFull \cup OfPreview :
        /\ goes(s) \in Walks /\ goes(s).stage = s /\ goes(s).kind = w.kind /\ goes(s).from = w.from
        /\ Delivery(n, goes(s)) = Delivery(n, w)
  BY WalkGoes
<1>i. Content!Idle \in Walks /\ Content!Idle.stage = "idle" /\ Checked(n, Content!Idle, verified, credits)
      /\ Content!Idle.from = 0 /\ Content!Idle.manifest = 0
  BY DEF Content!Idle, Content!None, Content!Kinds, Walks, Checked, OfFull, OfPreview
<1>o. Content!Outside => UNCHANGED <<bus, copier, raced>>
  BY DEF Content!Outside
<1>d. Content!Drops(n) /\ Content!Outside /\ UNCHANGED <<credits, verified>> /\ disk' \in [Homes -> Disks] => ContentInv'
  BY <1>i, <1>o, FetchKeeps DEF Content!Drops
<1>s. ASSUME NEW s \in {"idle", "manifest", "credit", "receipt"} \cup OfFull \cup OfPreview,
             contentFetch' = [contentFetch EXCEPT ![n].stage = s]
      PROVE  contentFetch' = [contentFetch EXCEPT ![n] = goes(s)]
  BY <1>s
<1> HIDE DEF w
<1> HIDE DEF goes
<1>1. CASE \E p \in Homes, kind \in Content!Kinds : Content!FetchStart(n, p, kind)
  <2> PICK p \in Homes, kind \in Content!Kinds : Content!FetchStart(n, p, kind)
    BY <1>1
  <2> DEFINE v == [Content!Idle EXCEPT !.stage = "manifest", !.kind = kind, !.from = p]
  <2>1. contentFetch' = [contentFetch EXCEPT ![n] = v] /\ UNCHANGED <<disk, bus, copier, raced, credits, verified>>
    BY <1>o DEF Content!FetchStart
  <2>2. v \in Walks /\ v.stage = "manifest" /\ v.from = p
    <3> DEFINE a == [Content!Idle EXCEPT !.stage = "manifest"]
               b == [a EXCEPT !.kind = kind]
    <3>1. a \in Walks /\ a.stage = "manifest"
      BY <1>i DEF Walks
    <3> HIDE DEF a
    <3>2. b \in Walks /\ b.stage = "manifest"
      BY <3>1 DEF Walks
    <3> HIDE DEF b
    <3>3. [b EXCEPT !.from = p] \in Walks /\ [b EXCEPT !.from = p].stage = "manifest" /\ [b EXCEPT !.from = p].from = p
      BY <3>2 DEF Walks
    <3>4. v = [b EXCEPT !.from = p]
      BY <1>i DEF a, b, Walks
    <3> QED BY <3>3, <3>4
  <2> HIDE DEF v
  <2>3. Checked(n, v, verified, credits)
    BY <2>2 DEF Checked, OfFull, OfPreview
  <2>4. disk' \in [Homes -> Disks]
    BY <2>1, <1>t
  <2> QED BY <2>1, <2>2, <2>3, <2>4, FetchKeeps
<1>2. CASE Content!GetManifest(n)
  <2> DEFINE x == disk[w.from].manifest
             s == IF w.kind = "full" THEN "save" ELSE "preview"
             v == [goes(s) EXCEPT !.manifest = x]
  <2>1. /\ contentFetch' = [contentFetch EXCEPT ![n].manifest = x, ![n].stage = s]
        /\ w.stage = "manifest" /\ UNCHANGED <<disk, bus, copier, raced, credits, verified>>
    BY <1>2, <1>o DEF Content!GetManifest, w
  <2>2. w.from \in Homes /\ x \in Homes \cup {0}
    BY <2>1, <1>w, <1>t DEF Checked, Disks
  <2>3. s \in {"save", "preview"} /\ (s = "save" => w.kind = "full") /\ (s = "preview" => w.kind = "preview")
    BY <1>w DEF Walks, Content!Kinds
  <2> HIDE DEF x, s
  <2>4. goes(s) \in Walks /\ goes(s).stage = s /\ goes(s).kind = w.kind /\ goes(s).from = w.from
    BY <1>g, <2>3 DEF OfFull, OfPreview
  <2>5. v \in Walks /\ v.stage = s /\ v.kind = w.kind /\ v.from = w.from
    BY <2>2, <2>4 DEF Walks
  <2>6. contentFetch' = [contentFetch EXCEPT ![n] = v]
    BY <2>1, <1>t DEF goes, w, Walks
  <2> HIDE DEF v
  <2>7. Checked(n, v, verified, credits)
    BY <2>2, <2>3, <2>5 DEF Checked, OfFull, OfPreview
  <2>8. disk' \in [Homes -> Disks]
    BY <2>1, <1>t
  <2> QED BY <2>1, <2>5, <2>6, <2>7, <2>8, FetchKeeps
<1>3. CASE Content!KeepManifest(n)
  <2> DEFINE s == IF w.stage = "save" THEN "open" ELSE "write"
  <2>1. /\ disk' = [disk EXCEPT ![n].manifest = w.manifest] /\ w.stage \in {"save", "keep"}
        /\ contentFetch' = [contentFetch EXCEPT ![n].stage = s] /\ UNCHANGED <<bus, copier, raced, credits, verified>>
    BY <1>3, <1>o DEF Content!KeepManifest, Content!Goto, w
  <2>2. s \in {"open", "write"} /\ (s = "open" <=> w.stage = "save")
    OBVIOUS
  <2> HIDE DEF s
  <2>3. contentFetch' = [contentFetch EXCEPT ![n] = goes(s)]
    BY <2>1, <2>2, <1>s DEF OfFull, OfPreview
  <2>4. /\ goes(s) \in Walks /\ goes(s).stage = s /\ goes(s).kind = w.kind /\ goes(s).from = w.from
        /\ Delivery(n, goes(s)) = Delivery(n, w)
    BY <1>g, <2>2 DEF OfFull, OfPreview
  <2>5. Checked(n, goes(s), verified, credits)
    BY <2>1, <2>2, <2>4, <1>w DEF Checked, OfFull, OfPreview
  <2>6. disk' \in [Homes -> Disks]
    BY <2>1, <1>w, DiskWrites DEF Walks
  <2> QED BY <2>1, <2>3, <2>4, <2>5, <2>6, FetchKeeps
<1>4. CASE Content!GetPreview(n)
  <2>1. /\ w.stage = "preview" /\ Content!Outside /\ UNCHANGED <<disk, credits>>
        /\ \/ Content!Goto(n, "keep") /\ Content!Verifies(n)
           \/ Content!Drops(n) /\ UNCHANGED verified
    BY <1>4 DEF Content!GetPreview, w
  <2>2. disk' \in [Homes -> Disks]
    BY <2>1, <1>t
  <2>3. CASE Content!Goto(n, "keep") /\ Content!Verifies(n)
    <3>1. /\ contentFetch' = [contentFetch EXCEPT ![n] = goes("keep")]
          /\ verified' = verified \cup {Delivery(n, w)}
      BY <2>3, <1>s DEF Content!Goto, Content!Verifies, Delivery, w, OfPreview
    <3>2. /\ goes("keep") \in Walks /\ goes("keep").stage = "keep" /\ goes("keep").kind = w.kind
          /\ goes("keep").from = w.from /\ Delivery(n, goes("keep")) = Delivery(n, w)
      BY <1>g DEF OfFull, OfPreview
    <3>3. Checked(n, goes("keep"), verified', credits)
      BY <2>1, <3>1, <3>2, <1>w DEF Checked, OfFull, OfPreview
    <3>4. verified \subseteq verified'
      BY <3>1
    <3> QED BY <2>1, <2>2, <3>1, <3>2, <3>3, <3>4, <1>o, FetchKeeps
  <2>4. CASE Content!Drops(n) /\ UNCHANGED verified
    BY <2>1, <2>2, <2>4, <1>d
  <2> QED BY <2>1, <2>3, <2>4
<1>5. CASE Content!KeepPreview(n)
  <2>1. /\ w.stage = "write" /\ disk' = [disk EXCEPT ![n].preview = w.manifest]
        /\ contentFetch' = [contentFetch EXCEPT ![n] = goes("credit")] /\ UNCHANGED <<bus, copier, raced, credits, verified>>
    BY <1>5, <1>o, <1>s DEF Content!KeepPreview, Content!Goto, w
  <2>2. /\ goes("credit") \in Walks /\ goes("credit").stage = "credit" /\ goes("credit").kind = w.kind
        /\ goes("credit").from = w.from /\ Delivery(n, goes("credit")) = Delivery(n, w)
    BY <1>g
  <2>3. Checked(n, goes("credit"), verified, credits)
    BY <2>1, <2>2, <1>w DEF Checked, OfFull, OfPreview
  <2>4. disk' \in [Homes -> Disks]
    BY <2>1, <1>w, DiskWrites DEF Walks
  <2> QED BY <2>1, <2>2, <2>3, <2>4, FetchKeeps
<1>6. CASE Content!OpenMedia(n) \/ \E bytes \in {"right", "wrong"} : Content!Streamed(n, bytes)
  <2>1. PICK s \in {"stream", "check"}, b \in Media :
          /\ w.stage \in {"open", "stream"} /\ disk' = [disk EXCEPT ![n].fetched = b]
          /\ contentFetch' = [contentFetch EXCEPT ![n].stage = s] /\ UNCHANGED <<bus, copier, raced, credits, verified>>
    BY <1>6, <1>o DEF Content!OpenMedia, Content!Streamed, Content!Goto, Media, w
  <2>2. contentFetch' = [contentFetch EXCEPT ![n] = goes(s)]
    BY <2>1, <1>s DEF OfFull
  <2>3. goes(s) \in Walks /\ goes(s).stage = s /\ goes(s).kind = w.kind /\ goes(s).from = w.from
    BY <1>g DEF OfFull
  <2>4. Checked(n, goes(s), verified, credits)
    BY <2>1, <2>3, <1>w DEF Checked, OfFull, OfPreview
  <2>5. disk' \in [Homes -> Disks]
    BY <2>1, DiskWrites
  <2> QED BY <2>1, <2>2, <2>3, <2>4, <2>5, FetchKeeps
<1>7. CASE Content!CheckMedia(n)
  <2>1. CASE Content!HashMatches(n)
    <3>1. /\ w.stage = "check" /\ contentFetch' = [contentFetch EXCEPT ![n] = goes("credit")]
          /\ UNCHANGED <<disk, bus, copier, raced, credits>> /\ verified' = verified \cup {<<"full", n, w.from>>}
      BY <1>7, <2>1, <1>o, <1>s DEF Content!CheckMedia, Content!HashMatches, Content!Goto, w
    <3>2. w.from \in Homes /\ w.kind = "full"
      BY <3>1, <1>w DEF Checked, OfFull
    <3>3. /\ goes("credit") \in Walks /\ goes("credit").stage = "credit" /\ goes("credit").kind = w.kind
          /\ goes("credit").from = w.from /\ Delivery(n, goes("credit")) = <<"full", n, w.from>>
      BY <1>g, <3>2 DEF Delivery
    <3>4. Checked(n, goes("credit"), verified', credits)
      BY <3>1, <3>2, <3>3 DEF Checked, OfFull, OfPreview
    <3>5. disk' \in [Homes -> Disks] /\ verified \subseteq verified'
      BY <3>1, <1>t
    <3> QED BY <3>1, <3>3, <3>4, <3>5, FetchKeeps
  <2>2. CASE ~Content!HashMatches(n)
    <3>1. Content!Drops(n) /\ Content!Outside /\ disk' = [disk EXCEPT ![n].fetched = "none"] /\ UNCHANGED <<credits, verified>>
      BY <1>7, <2>2 DEF Content!CheckMedia
    <3>2. disk' \in [Homes -> Disks]
      BY <3>1, DiskWrites DEF Media
    <3> QED BY <3>1, <3>2, <1>d
  <2> QED BY <2>1, <2>2
<1>8. CASE Content!TimesOut(n)
  <2>1. Content!Drops(n) /\ Content!Outside /\ UNCHANGED <<credits, verified>>
        /\ (disk' = disk \/ disk' = [disk EXCEPT ![n].fetched = "none"])
    BY <1>8 DEF Content!TimesOut
  <2>2. "none" \in Media /\ [disk EXCEPT ![n].fetched = "none"] \in [Homes -> Disks]
    BY DiskWrites DEF Media
  <2>3. disk' \in [Homes -> Disks]
    BY <2>1, <2>2, <1>t
  <2> QED BY <2>1, <2>3, <1>d
<1> QED BY <1>1, <1>2, <1>3, <1>4, <1>5, <1>6, <1>7, <1>8

(* The consumer's attestation is recorded and posted, each once. *)
LEMMA CreditingKeeps ==
  ASSUME ContentInv, NEW n \in Homes, Content!CreditServed(n) \/ Content!PostReceipt(n)
  PROVE  ContentInv'
<1> DEFINE w == contentFetch[n]
           e == Delivery(n, w)
           r == [w EXCEPT !.stage = "receipt"]
<1>t. /\ disk \in [Homes -> Disks] /\ bus \in [Homes -> Shelves] /\ raced \in BOOLEAN
      /\ contentFetch \in [Homes -> Walks] /\ copier \in [Homes -> Copiers]
  BY ContentFacts DEF ContentTypes
<1>w. w \in Walks /\ Checked(n, w, verified, credits)
  BY ContentFacts
<1>1. /\ w.stage \in {"credit", "receipt"} /\ UNCHANGED <<disk, bus, copier, raced, verified>>
      /\ e = <<w.kind, n, w.from>>
  BY DEF Content!CreditServed, Content!PostReceipt, Content!Outside, Delivery
<1>2. w.from \in Homes /\ w.kind \in Content!Kinds /\ e \in Content!Events /\ e \in verified
  BY <1>1, <1>w, DeliveryIsEvent DEF Checked, Walks
<1>3. w.stage = "receipt" => credits[n][e] > 0
  BY <1>w DEF Checked
<1>4. \E m \in {n, w.from} : Content!Append(m, e) /\ (m = n \/ w.stage = "receipt")
      /\ (w.stage = "credit" => m = n)
  BY <1>1 DEF Content!CreditServed, Content!PostReceipt, Delivery
<1> PICK m \in {n, w.from} : Content!Append(m, e) /\ (m = n \/ w.stage = "receipt") /\ (w.stage = "credit" => m = n)
  BY <1>4
<1>5. \A k \in Content!Kinds, c, p \in Homes : e = <<k, c, p>> =>
        /\ m \in {c, p} /\ (m = c \/ credits[c][e] > 0)
        /\ e \in verified \/ raced = TRUE
  <2> SUFFICES ASSUME NEW k \in Content!Kinds, NEW c \in Homes, NEW p \in Homes, e = <<k, c, p>>
               PROVE  m \in {c, p} /\ (m = c \/ credits[c][e] > 0) /\ e \in verified
    OBVIOUS
  <2>1. c = n /\ p = w.from
    BY <1>1
  <2> QED BY <2>1, <1>2, <1>3
<1>6. m \in Homes
  BY <1>2
<1>7. contentFetch' = [contentFetch EXCEPT ![n] = Content!Idle]
      \/ (w.stage = "credit" /\ contentFetch' = [contentFetch EXCEPT ![n] = r])
  BY DEF Content!CreditServed, Content!PostReceipt, Content!Drops, Content!Goto
<1>8. r \in Walks /\ r.stage = "receipt" /\ r.from = w.from /\ Delivery(n, r) = e
  BY <1>w DEF Walks, Delivery
<1> HIDE DEF e, r, w
<1>9. /\ credits' \in [Homes -> [Content!Events -> {0, 1}]] /\ CreditsGrow /\ HistoryGrows
      /\ credits'[m][e] > 0 /\ Content!CreditIsEarned'
  BY <1>1, <1>2, <1>5, <1>6, AppendKeeps
<1>10. contentFetch' \in [Homes -> Walks] /\ FetchesChecked'
  <2>1. CASE contentFetch' = [contentFetch EXCEPT ![n] = Content!Idle]
    <3>1. Content!Idle \in Walks /\ Checked(n, Content!Idle, verified', credits')
      BY DEF Content!Idle, Content!None, Content!Kinds, Walks, Checked, OfFull, OfPreview
    <3> QED BY <2>1, <3>1, <1>9, FetchMoves
  <2>2. CASE w.stage = "credit" /\ contentFetch' = [contentFetch EXCEPT ![n] = r]
    <3>1. Checked(n, r, verified', credits')
      BY <2>2, <1>1, <1>2, <1>8, <1>9 DEF Checked, OfFull, OfPreview
    <3> QED BY <2>2, <3>1, <1>8, <1>9, FetchMoves
  <2> QED BY <2>1, <2>2, <1>7
<1>11. copier' \in [Homes -> Copiers] /\ CopiesChecked'
  BY <1>1, <1>9, CopiersStay
<1> QED BY <1>1, <1>9, <1>10, <1>11, <1>t DEF ContentInv, ContentTypes

(* fetch_full on an announcement, and a stop of the node. *)
LEMMA CopyingKeeps ==
  ASSUME ContentInv, NEW n \in Homes,
         \/ Content!CopyShared(n) \/ Content!CreditShared(n) \/ Content!Crash(n)
         \/ \E p \in Homes : Content!FindRecord(n, p)
  PROVE  ContentInv'
<1> DEFINE w == copier[n]
<1>t. /\ disk \in [Homes -> Disks] /\ bus \in [Homes -> Shelves] /\ raced \in BOOLEAN
      /\ contentFetch \in [Homes -> Walks] /\ copier \in [Homes -> Copiers]
  BY ContentFacts DEF ContentTypes
<1>w. w \in Copiers /\ CopyChecked(n, w, verified, raced, bus)
  BY ContentFacts
<1>i. /\ Content!Idle \in Walks /\ Content!Idle \in Copiers /\ Content!Idle.stage = "idle"
      /\ \A ver, cr : Checked(n, Content!Idle, ver, cr)
      /\ \A ver, rc, bs : CopyChecked(n, Content!Idle, ver, rc, bs)
  BY DEF Content!Idle, Content!None, Content!Kinds, Walks, Copiers, Checked, CopyChecked, OfFull, OfPreview
<1>1. CASE \E p \in Homes : Content!FindRecord(n, p)
  <2> PICK p \in Homes : Content!FindRecord(n, p)
    BY <1>1
  <2> DEFINE v == [Content!Idle EXCEPT !.stage = "copy", !.from = p]
  <2>1. /\ copier' = [copier EXCEPT ![n] = v] /\ bus[p].media = "right"
        /\ UNCHANGED <<disk, bus, contentFetch, credits, raced, verified>>
    BY DEF Content!FindRecord, Content!Around
  <2>2. v \in Copiers /\ v.stage = "copy" /\ v.from = p
    BY DEF Content!Idle, Content!None, Content!Kinds, Copiers
  <2> HIDE DEF v
  <2>3. CopyChecked(n, v, verified', raced, bus)
    BY <2>1, <2>2 DEF CopyChecked
  <2> QED BY <2>1, <2>2, <2>3, <1>t, CopierKeeps
<1>2. CASE Content!CopyShared(n)
  <2> DEFINE v == [w EXCEPT !.stage = "credit"]
             x == bus[w.from].media
  <2>1. /\ w.stage = "copy" /\ copier' = [copier EXCEPT ![n] = v] /\ disk' = [disk EXCEPT ![n].own = x]
        /\ verified' = IF x = "right" THEN verified \cup {<<"full", n, w.from>>} ELSE verified
        /\ UNCHANGED <<bus, contentFetch, credits, raced>>
    BY <1>2 DEF Content!CopyShared, Content!Around
  <2>2. v \in Copiers /\ v.stage = "credit" /\ v.from = w.from
    BY <1>w DEF Copiers
  <2>3. w.from \in Homes /\ (raced = TRUE \/ x = "right") /\ x \in Media
    BY <2>1, <1>w, <1>t DEF CopyChecked, Shelves
  <2> HIDE DEF v, x, w
  <2>4. CopyChecked(n, v, verified', raced, bus)
    BY <2>1, <2>2, <2>3 DEF CopyChecked
  <2>5. disk' \in [Homes -> Disks] /\ verified \subseteq verified'
    BY <2>1, <2>3, DiskWrites
  <2> QED BY <2>1, <2>2, <2>4, <2>5, CopierKeeps
<1>3. CASE Content!CreditShared(n)
  <2> DEFINE e == <<"full", n, w.from>>
  <2>1. /\ w.stage = "credit" /\ copier' = [copier EXCEPT ![n] = Content!Idle] /\ Content!Append(n, e)
        /\ UNCHANGED <<disk, bus, contentFetch, raced, verified>>
    BY <1>3 DEF Content!CreditShared, Content!Around
  <2>2. w.from \in Homes /\ (raced = TRUE \/ e \in verified)
    BY <2>1, <1>w DEF CopyChecked
  <2>3. e \in Content!Events
    BY <2>2 DEF Content!Events, Content!Kinds
  <2>4. \A k \in Content!Kinds, c, p \in Homes : e = <<k, c, p>> =>
          /\ n \in {c, p} /\ (n = c \/ credits[c][e] > 0)
          /\ e \in verified \/ raced = TRUE
    BY <2>2
  <2> HIDE DEF e, w
  <2>5. /\ credits' \in [Homes -> [Content!Events -> {0, 1}]] /\ CreditsGrow /\ HistoryGrows
        /\ Content!CreditIsEarned'
    BY <2>1, <2>3, <2>4, AppendKeeps
  <2>6. contentFetch' \in [Homes -> Walks] /\ FetchesChecked'
    BY <2>1, <2>5, FetchStays
  <2>7. copier' \in [Homes -> Copiers] /\ CopiesChecked'
    BY <2>1, <2>5, <1>i, CopierMoves
  <2> QED BY <2>1, <2>5, <2>6, <2>7, <1>t DEF ContentInv, ContentTypes
<1>4. CASE Content!Crash(n)
  <2>1. /\ contentFetch' = [contentFetch EXCEPT ![n] = Content!Idle]
        /\ copier' = [copier EXCEPT ![n] = Content!Idle]
        /\ (disk' = disk \/ disk' = [disk EXCEPT ![n].own = "torn"])
        /\ UNCHANGED <<bus, credits, verified, raced>>
    BY <1>4 DEF Content!Crash
  <2>2. "torn" \in Media /\ [disk EXCEPT ![n].own = "torn"] \in [Homes -> Disks]
    BY DiskWrites DEF Media
  <2>3. disk' \in [Homes -> Disks] /\ raced' \in BOOLEAN /\ bus' \in [Homes -> Shelves] /\ HistoryGrows
    BY <2>1, <2>2, <1>t DEF HistoryGrows
  <2>4. credits' \in [Homes -> [Content!Events -> {0, 1}]] /\ CreditsGrow /\ Content!CreditIsEarned'
    BY <2>1, <2>3, CreditsStay
  <2>5. contentFetch' \in [Homes -> Walks] /\ FetchesChecked'
    BY <2>1, <2>3, <2>4, <1>i, FetchMoves
  <2>6. copier' \in [Homes -> Copiers] /\ CopiesChecked'
    BY <2>1, <2>3, <1>i, CopierMoves
  <2> QED BY <2>3, <2>4, <2>5, <2>6 DEF ContentInv, ContentTypes
<1> QED BY <1>1, <1>2, <1>3, <1>4

LEMMA ContentKeeps == ASSUME ContentInv, Content!ContentNext PROVE ContentInv'
<1> PICK n \in Homes :
      \/ Content!PublishNext(n) \/ Content!FetchNext(n) \/ Content!CopyShared(n) \/ Content!CreditShared(n)
      \/ Content!Crash(n) \/ \E p \in Homes : Content!FindRecord(n, p)
  BY DEF Content!ContentNext
<1>1. CASE Content!PublishNext(n)
  BY <1>1, PublishKeeps
<1>2. CASE Content!FetchNext(n)
  <2>1. CASE Content!CreditServed(n) \/ Content!PostReceipt(n)
    BY <2>1, CreditingKeeps
  <2>2. CASE ~(Content!CreditServed(n) \/ Content!PostReceipt(n))
    BY <1>2, <2>2, FetchingKeeps DEF Content!FetchNext
  <2> QED BY <2>1, <2>2
<1>3. CASE Content!CopyShared(n) \/ Content!CreditShared(n) \/ Content!Crash(n) \/ \E p \in Homes : Content!FindRecord(n, p)
  BY <1>3, CopyingKeeps
<1> QED BY <1>1, <1>2, <1>3

-----------------------------------------------------------------------------
(* The capacity record of a node.                                              *)

\* A publication carries what its services advertise; without an overlap nothing else is
\* on its way, and the record or that publication has everything.
Publishes(s) == publication[s] # {}
DirectoryInv ==
    /\ DOMAIN publication = Services /\ publication = [s \in Services |-> publication[s]]
    /\ overlapped \in BOOLEAN /\ advertised \subseteq merged
    /\ \A s \in Services : Publishes(s) => s \in publication[s] /\ publication[s] \subseteq merged
    /\ overlapped = FALSE =>
         /\ \A s \in Services : Publishes(s) =>
              advertised \subseteq publication[s] /\ \A t \in Services : Publishes(t) => s = t
         /\ (\A s \in Services : ~ Publishes(s)) => advertised \subseteq capacity

LEMMA DirectoryStarts == ASSUME Content!Init PROVE DirectoryInv
BY DEF Content!Init, Content!Silent, DirectoryInv, Publishes

LEMMA DirectoryKeeps == ASSUME DirectoryInv, Content!DirectoryNext PROVE DirectoryInv'
<1>1. CASE Content!NodeRestarts
  <2>1. /\ merged' = {} /\ advertised' = {} /\ overlapped' = FALSE
        /\ publication' = [s \in Services |-> {}]
    BY <1>1 DEF Content!NodeRestarts, Content!Silent
  <2>2. /\ DOMAIN publication' = Services /\ publication' = [s \in Services |-> publication'[s]]
        /\ \A s \in Services : publication'[s] = {}
    BY <2>1
  <2> QED BY <2>1, <2>2 DEF DirectoryInv, Publishes
<1>2. ASSUME NEW s \in Services, Content!Advertise(s) PROVE DirectoryInv'
  <2>1. /\ publication[s] = {} /\ merged' = merged \cup {s}
        /\ publication' = [publication EXCEPT ![s] = merged'] /\ UNCHANGED <<capacity, advertised>>
        /\ overlapped' = \E t \in Services : Publishes(t)
    BY <1>2 DEF Content!Advertise, Content!Merged, Content!Silent, Publishes
  <2>2. /\ publication'[s] = merged' /\ DOMAIN publication' = Services
        /\ publication' = [t \in Services |-> publication'[t]]
        /\ \A t \in Services \ {s} : publication'[t] = publication[t]
    BY <2>1 DEF DirectoryInv
  <2>3. overlapped' \in BOOLEAN /\ (overlapped' = FALSE => \A t \in Services : ~Publishes(t))
    BY <2>1
  <2>4. \A t \in Services : publication'[t] # {} => t \in publication'[t] /\ publication'[t] \subseteq merged'
    BY <2>1, <2>2 DEF DirectoryInv, Publishes
  <2>5. overlapped' = FALSE => \A t \in Services : publication'[t] # {} => t = s
    BY <2>2, <2>3 DEF Publishes
  <2> QED BY <2>1, <2>2, <2>3, <2>4, <2>5 DEF DirectoryInv, Publishes
<1>3. ASSUME NEW s \in Services, Content!Published(s) PROVE DirectoryInv'
  <2>1. /\ Publishes(s) /\ capacity' = publication[s] /\ advertised' = advertised \cup {s}
        /\ publication' = [publication EXCEPT ![s] = {}] /\ UNCHANGED <<merged, overlapped>>
    BY <1>3 DEF Content!Published, Content!Silent, Publishes
  <2>2. /\ publication'[s] = {} /\ DOMAIN publication' = Services
        /\ publication' = [t \in Services |-> publication'[t]]
        /\ \A t \in Services \ {s} : publication'[t] = publication[t]
    BY <2>1 DEF DirectoryInv
  <2>3. overlapped = FALSE => advertised' \subseteq capacity' /\ \A t \in Services : publication'[t] = {}
    BY <2>1, <2>2 DEF DirectoryInv, Publishes
  <2>4. advertised' \subseteq merged'
    BY <2>1 DEF DirectoryInv
  <2> QED BY <2>1, <2>2, <2>3, <2>4 DEF DirectoryInv, Publishes
<1> QED BY <1>1, <1>2, <1>3 DEF Content!DirectoryNext

(* What the run says of the board and of content follows from the invariants. *)
RegistryInv ==
    /\ component \in {"orders", "letters"} => BoardInv
    /\ component = "content" => ContentInv
    /\ component = "directory" => DirectoryInv

LEMMA RegistryStarts == MCInit => RegistryInv
BY BoardStarts, ContentStarts, DirectoryStarts DEF MCInit, RegistryInv

LEMMA RegistryStill ==
  ASSUME RegistryInv, UNCHANGED <<component, boardState, contentState>>
  PROVE  RegistryInv'
<1>1. component' = component
  OBVIOUS
<1>2. ASSUME BoardInv PROVE BoardInv'
  BY <1>2 DEF BoardInv, BoardTypes, HandlersKnow, Works, Waits, ResultFirst, ListedWhere, FirstOnly, Settled,
              Indexed, boardState
<1>3. ASSUME ContentInv PROVE ContentInv'
  BY <1>3 DEF ContentInv, ContentTypes, FetchesChecked, CopiesChecked, Content!CreditIsEarned, contentState
<1>4. ASSUME DirectoryInv PROVE DirectoryInv'
  BY <1>4 DEF DirectoryInv, Publishes, contentState
<1> QED BY <1>1, <1>2, <1>3, <1>4 DEF RegistryInv

(* Work orders, letters, credits and capacity records: RegistrySound holds for every *)
(* chain of registries and every set of nodes and services.                          *)
THEOREM RegistryIsSound == MCSpec => []RegistrySound
<1>1. RegistryInv /\ [MCNext]_allVars => RegistryInv'
  <2> SUFFICES ASSUME RegistryInv, [MCNext]_allVars PROVE RegistryInv'
    OBVIOUS
  <2>1. CASE OrdersStep
    BY <2>1, BoardKeeps DEF OrdersStep, RegistryInv, Board!BoardNext
  <2>2. CASE LettersStep
    BY <2>2, BoardKeeps DEF LettersStep, RegistryInv, Board!BoardNext
  <2>3. CASE ContentStep
    BY <2>3, ContentKeeps DEF ContentStep, RegistryInv
  <2>4. CASE DirectoryStep
    BY <2>4, DirectoryKeeps DEF DirectoryStep, RegistryInv
  <2>5. CASE \/ RouteStep \/ FriendsStep \/ CardsStep \/ ListStep \/ FeedStep \/ TransferStep \/ FramesStep
             \/ StreamStep \/ IceStep \/ RelayStep \/ WorkStep \/ UNCHANGED allVars
    <3>1. UNCHANGED <<component, boardState, contentState>>
      BY <2>5 DEF RouteStep, FriendsStep, CardsStep, ListStep, FeedStep, TransferStep, FramesStep, StreamStep,
                  IceStep, RelayStep, WorkStep, allVars
    <3> QED BY <3>1, RegistryStill
  <2> QED BY <2>1, <2>2, <2>3, <2>4, <2>5 DEF MCNext
<1>2. RegistryInv => RegistrySound
  <2>1. ASSUME DirectoryInv PROVE Content!NothingIsWiped
    BY <2>1 DEF DirectoryInv, Publishes, Content!NothingIsWiped, Content!Silent
  <2> QED BY <2>1, BoardPromises DEF RegistryInv, RegistrySound, ContentInv
<1> QED BY <1>1, <1>2, RegistryStarts, PTL DEF MCSpec

-----------------------------------------------------------------------------
(* The relay's blobs.                                                          *)

Pieces == Seq(Nat)
BlobKeys == [kind : {"bytes", "manifest"}, parts : Pieces, of : Pieces]
Uploads == [at : {"idle", "whole", "chunks", "done", "failed"}, expected : Pieces, chunks : Pieces,
            key : BlobKeys \cup {Nothing}, edited : BOOLEAN]
Downloads == [at : {"idle", "raw", "parts", "done", "failed"}, key : BlobKeys \cup {Nothing},
              done : Nat, told : BlobKeys \cup {Nothing}]
RelayTypes ==
    /\ file \in [Uploaders -> Pieces]
    /\ upload \in [Uploaders -> Uploads]
    /\ download \in [Downloaders -> Downloads]
    /\ dest \in [Downloaders -> BlobKeys \cup {Nothing}]

\* A blob that is one piece, and whether the relay has it with its metadata.
Piece(c) == Board!Bytes(<<c>>)
Has2(k, bs, ms) == k \in bs /\ k \in ms

\* Chunks that were sent are kept, with their metadata; unless the file was edited they
\* are its beginning.
ChunksAreKept(f, up, bs, ms) ==
    up.at = "chunks" =>
      /\ \A i \in 1..Len(up.chunks) : Has2(Piece(up.chunks[i]), bs, ms)
      /\ up.edited = FALSE =>
           /\ f = up.expected /\ Len(up.chunks) <= Len(up.expected)
           /\ \A i \in 1..Len(up.chunks) : up.chunks[i] = up.expected[i]

\* What an uploader was told is there is, and makes what it hashed.
DoneIsKept(up, bs, ms) ==
    up.at = "done" =>
      /\ up.key \in BlobKeys /\ Has2(up.key, bs, ms)
      /\ up.key.kind = "bytes" => up.key.parts = up.expected
      /\ up.key.kind = "manifest" =>
           /\ up.key.of = up.expected
           /\ up.edited = TRUE \/ (/\ up.key.parts = up.key.of
                                   /\ \A i \in 1..Len(up.key.parts) : Has2(Piece(up.key.parts[i]), bs, ms))

UploadsKept == \A u \in Uploaders :
    ChunksAreKept(file[u], upload[u], blobs, DOMAIN metas) /\ DoneIsKept(upload[u], blobs, DOMAIN metas)

\* A download that is under way is of a blob some uploader was told of; one that is done
\* left what it reports.
DownloadsKept == \A d \in Downloaders :
    /\ download[d].at \in {"raw", "parts"} => download[d].key \in BlobKeys
    /\ download[d].at = "done" => dest[d] = download[d].told

RelayInv == RelayTypes /\ UploadsKept /\ DownloadsKept /\ Board!MetaHasBlob

LEMMA RelayFacts ==
  ASSUME RelayInv
  PROVE  /\ RelayTypes /\ UploadsKept /\ DownloadsKept /\ DOMAIN metas \subseteq blobs
         /\ file \in [Uploaders -> Pieces] /\ upload \in [Uploaders -> Uploads]
         /\ download \in [Downloaders -> Downloads] /\ dest \in [Downloaders -> BlobKeys \cup {Nothing}]
         /\ \A u \in Uploaders : /\ file[u] \in Pieces /\ upload[u] \in Uploads
                                 /\ ChunksAreKept(file[u], upload[u], blobs, DOMAIN metas)
                                 /\ DoneIsKept(upload[u], blobs, DOMAIN metas)
BY DEF RelayInv, RelayTypes, UploadsKept, Board!MetaHasBlob

LEMMA KeysOfBytes ==
  /\ \A s \in Pieces : /\ Board!Bytes(s) \in BlobKeys /\ Board!Bytes(s).kind = "bytes" /\ Board!Bytes(s).parts = s
                       /\ Board!Bytes(s) = [kind |-> "bytes", parts |-> s, of |-> <<>>]
  /\ \A s, t \in Pieces : /\ Board!Manifest(s, t) \in BlobKeys /\ Board!Manifest(s, t).kind = "manifest"
                          /\ Board!Manifest(s, t).parts = s /\ Board!Manifest(s, t).of = t
<1> DEFINE none == <<>>
<1>1. none \in Pieces
  BY DEF Pieces
<1> HIDE DEF none
<1>2. /\ \A s \in Pieces : /\ [kind |-> "bytes", parts |-> s, of |-> none] \in BlobKeys
                           /\ [kind |-> "bytes", parts |-> s, of |-> none].kind = "bytes"
                           /\ [kind |-> "bytes", parts |-> s, of |-> none].parts = s
      /\ \A s, t \in Pieces : /\ [kind |-> "manifest", parts |-> s, of |-> t] \in BlobKeys
                              /\ [kind |-> "manifest", parts |-> s, of |-> t].kind = "manifest"
                              /\ [kind |-> "manifest", parts |-> s, of |-> t].parts = s
                              /\ [kind |-> "manifest", parts |-> s, of |-> t].of = t
  BY <1>1 DEF BlobKeys
<1> QED BY <1>2 DEF none, Board!Bytes, Board!Manifest

LEMMA RelayStarts == ASSUME Board!RelayInit PROVE RelayInv
<1> DEFINE none == <<>>
           up == [at |-> "idle", expected |-> none, chunks |-> none, key |-> Nothing, edited |-> FALSE]
           down == [at |-> "idle", key |-> Nothing, done |-> 0, told |-> Nothing]
<1>1. none \in Pieces
  BY DEF Pieces
<1>2. upload = [u \in Uploaders |-> up] /\ download = [d \in Downloaders |-> down]
  BY DEF Board!RelayInit
<1> HIDE DEF none
<1>3. up \in Uploads /\ up.at = "idle" /\ down \in Downloads /\ down.at = "idle"
  BY <1>1 DEF Uploads, Downloads
<1> HIDE DEF up, down
<1>4. RelayTypes
  BY <1>2, <1>3, FilesAssumption DEF RelayTypes, Board!RelayInit, Pieces
<1>5. UploadsKept /\ DownloadsKept
  BY <1>2, <1>3 DEF UploadsKept, ChunksAreKept, DoneIsKept, DownloadsKept
<1>6. Board!MetaHasBlob
  <2>1. metas = [k \in {} |-> {}]
    BY DEF Board!RelayInit
  <2>2. DOMAIN metas = {}
    BY <2>1
  <2> QED BY <2>2 DEF Board!MetaHasBlob
<1> QED BY <1>4, <1>5, <1>6 DEF RelayInv

(* Blobs and metadata are never removed. *)
RelayGrows == blobs \subseteq blobs' /\ DOMAIN metas \subseteq DOMAIN metas' /\ DOMAIN metas' \subseteq blobs'

LEMMA UploadMoves ==
  ASSUME RelayInv, RelayGrows, NEW u \in Uploaders, NEW w \in Uploads, upload' = [upload EXCEPT ![u] = w],
         NEW f \in Pieces, file' = [file EXCEPT ![u] = f], UNCHANGED <<download, dest>>,
         ChunksAreKept(f, w, blobs', DOMAIN metas'), DoneIsKept(w, blobs', DOMAIN metas')
  PROVE  RelayInv'
<1>1. /\ upload' \in [Uploaders -> Uploads] /\ upload'[u] = w
      /\ \A v \in Uploaders \ {u} : upload'[v] = upload[v]
  BY RelayFacts
<1>2. /\ file' \in [Uploaders -> Pieces] /\ file'[u] = f
      /\ \A v \in Uploaders \ {u} : file'[v] = file[v]
  BY RelayFacts
<1>3. \A v \in Uploaders \ {u} : /\ ChunksAreKept(file[v], upload[v], blobs', DOMAIN metas')
                                 /\ DoneIsKept(upload[v], blobs', DOMAIN metas')
  BY RelayFacts DEF ChunksAreKept, DoneIsKept, Has2, RelayGrows
<1>4. UploadsKept'
  <2>1. \A v \in Uploaders : /\ ChunksAreKept(file'[v], upload'[v], blobs', DOMAIN metas')
                             /\ DoneIsKept(upload'[v], blobs', DOMAIN metas')
    BY <1>1, <1>2, <1>3
  <2> QED BY <2>1 DEF UploadsKept
<1>5. RelayTypes' /\ DownloadsKept'
  BY <1>1, <1>2, RelayFacts DEF RelayTypes, DownloadsKept
<1> QED BY <1>4, <1>5 DEF RelayInv, RelayGrows, Board!MetaHasBlob

(* A request stores the blob and its metadata, or a part of it, or nothing; the uploader *)
(* goes on only when both are stored.                                                    *)
LEMMA PostStores ==
  ASSUME RelayInv, NEW u \in Uploaders, NEW k \in BlobKeys, NEW e \in BlobKeys, NEW then \in Uploads,
         Board!Post(u, k, e, then)
  PROVE  /\ RelayGrows
         /\ \/ upload' = [upload EXCEPT ![u] = then] /\ Has2(k, blobs', DOMAIN metas') /\ k = e
            \/ upload' = [upload EXCEPT ![u] = [upload[u] EXCEPT !.at = "failed"]]
<1>1. DOMAIN Board!WithMeta(k) = DOMAIN metas \cup {k}
  BY DEF Board!WithMeta
<1>2. Board!Stored(k) => RelayGrows /\ Has2(k, blobs', DOMAIN metas')
  BY <1>1, RelayFacts DEF Board!Stored, Board!CommittedMeta, RelayGrows, Has2
<1>3. UNCHANGED metas /\ (blobs' = blobs \/ blobs' = blobs \cup {k}) => RelayGrows
  BY RelayFacts DEF RelayGrows
<1> QED BY <1>2, <1>3 DEF Board!Post, Board!Accepts

(* A failed upload promises nothing. *)
LEMMA UploadFails ==
  ASSUME RelayInv, RelayGrows, NEW u \in Uploaders, UNCHANGED <<file, download, dest>>,
         upload' = [upload EXCEPT ![u] = [upload[u] EXCEPT !.at = "failed"]]
  PROVE  RelayInv'
<1> DEFINE w == [upload[u] EXCEPT !.at = "failed"]
<1>1. w \in Uploads /\ w.at = "failed"
  BY RelayFacts DEF Uploads
<1> HIDE DEF w
<1>2. ChunksAreKept(file[u], w, blobs', DOMAIN metas') /\ DoneIsKept(w, blobs', DOMAIN metas')
  BY <1>1 DEF ChunksAreKept, DoneIsKept
<1>3. file' = [file EXCEPT ![u] = file[u]]
  BY RelayFacts
<1>4. upload' = [upload EXCEPT ![u] = w]
  BY DEF w
<1> QED BY <1>1, <1>2, <1>3, <1>4, RelayFacts, UploadMoves

LEMMA UploadKeeps == ASSUME RelayInv, NEW u \in Uploaders, Board!Upload(u) PROVE RelayInv'
<1> DEFINE up == upload[u]
           f == file[u]
<1>t. /\ up \in Uploads /\ f \in Pieces /\ ChunksAreKept(f, up, blobs, DOMAIN metas) /\ DoneIsKept(up, blobs, DOMAIN metas)
      /\ up.expected \in Pieces /\ up.chunks \in Pieces
      /\ file \in [Uploaders -> Pieces] /\ upload \in [Uploaders -> Uploads]
  BY RelayFacts DEF Uploads
<1>s. file' = file => file' = [file EXCEPT ![u] = f]
  BY <1>t
<1>n. Len(f) \in Nat /\ Len(up.chunks) \in Nat /\ Len(up.expected) \in Nat
  BY <1>t DEF Pieces
<1>1. CASE Board!Edit(u)
  <2> DEFINE e == (up.edited \/ up.at \in {"whole", "chunks"})
             w == [up EXCEPT !.edited = e]
  <2>1. /\ file' = [file EXCEPT ![u] = Edited[u]] /\ upload' = [upload EXCEPT ![u] = w]
        /\ UNCHANGED <<blobs, metas, download, dest>>
    BY <1>1 DEF Board!Edit
  <2>2. e \in BOOLEAN /\ (up.at = "chunks" => e = TRUE) /\ (up.edited = TRUE => e = TRUE)
    BY <1>t DEF Uploads
  <2>3. RelayGrows
    BY <2>1, RelayFacts DEF RelayGrows
  <2> HIDE DEF e
  <2>4. /\ w \in Uploads /\ w.at = up.at /\ w.edited = e /\ w.key = up.key /\ w.expected = up.expected
        /\ w.chunks = up.chunks
    BY <2>2, <1>t DEF Uploads
  <2> HIDE DEF w, up
  <2>5. ChunksAreKept(Edited[u], w, blobs', DOMAIN metas') /\ DoneIsKept(w, blobs', DOMAIN metas')
    BY <2>1, <2>2, <2>4, <1>t DEF ChunksAreKept, DoneIsKept
  <2>6. Edited[u] \in Pieces
    BY FilesAssumption DEF Pieces
  <2> QED BY <2>1, <2>3, <2>4, <2>5, <2>6, UploadMoves
<1>2. CASE Board!StartUpload(u)
  <2> DEFINE none == <<>>
             a == IF Len(f) > DirectLimit THEN "chunks" ELSE "whole"
             w == [at |-> a, expected |-> f, chunks |-> none, key |-> Nothing, edited |-> FALSE]
  <2>1. upload' = [upload EXCEPT ![u] = w] /\ UNCHANGED <<blobs, metas, file, download, dest>>
    BY <1>2 DEF Board!StartUpload
  <2>2. none \in Pieces /\ Len(none) = 0
    BY DEF Pieces
  <2>3. a \in {"chunks", "whole"}
    OBVIOUS
  <2> HIDE DEF none, a, f
  <2>4. w \in Uploads /\ w.at = a /\ w.chunks = none /\ w.expected = f /\ w.edited = FALSE
    BY <2>2, <2>3, <1>t DEF Uploads
  <2>5. RelayGrows
    BY <2>1, RelayFacts DEF RelayGrows
  <2> HIDE DEF w
  <2>6. ChunksAreKept(f, w, blobs', DOMAIN metas') /\ DoneIsKept(w, blobs', DOMAIN metas')
    BY <2>2, <2>3, <2>4, <1>n DEF ChunksAreKept, DoneIsKept
  <2>7. file' = [file EXCEPT ![u] = f]
    BY <2>1, <1>s
  <2> QED BY <2>1, <2>4, <2>5, <2>6, <2>7, <1>t, UploadMoves
<1>3. ASSUME NEW k \in BlobKeys, NEW e \in BlobKeys, NEW w \in Uploads, Board!Post(u, k, e, w),
             UNCHANGED <<file, download, dest>>,
             RelayGrows /\ Has2(k, blobs', DOMAIN metas') /\ k = e =>
                ChunksAreKept(f, w, blobs', DOMAIN metas') /\ DoneIsKept(w, blobs', DOMAIN metas')
      PROVE  RelayInv'
  <2>1. CASE upload' = [upload EXCEPT ![u] = w] /\ Has2(k, blobs', DOMAIN metas') /\ k = e
    <3>1. RelayGrows
      BY <1>3, PostStores
    <3>2. ChunksAreKept(f, w, blobs', DOMAIN metas') /\ DoneIsKept(w, blobs', DOMAIN metas')
      BY <3>1, <2>1, <1>3
    <3>3. file' = [file EXCEPT ![u] = f]
      BY <1>3, <1>s
    <3> HIDE DEF f
    <3> QED BY <3>1, <3>2, <3>3, <2>1, <1>3, <1>t, UploadMoves
  <2>2. CASE upload' = [upload EXCEPT ![u] = [upload[u] EXCEPT !.at = "failed"]]
    BY <2>2, <1>3, PostStores, UploadFails
  <2> QED BY <2>1, <2>2, <1>3, PostStores
<1>d. ASSUME NEW k \in BlobKeys
      PROVE  /\ Board!Finished(u, k) \in Uploads /\ Board!Finished(u, k).at = "done" /\ Board!Finished(u, k).key = k
             /\ Board!Finished(u, k).expected = up.expected /\ Board!Finished(u, k).edited = up.edited
  BY <1>t DEF Board!Finished, Uploads
<1>4. CASE Board!SendWhole(u) \/ Board!Assemble(u)
  <2> PICK s \in {f, up.chunks} :
        /\ Board!Post(u, Board!Bytes(s), Board!Bytes(up.expected), Board!Finished(u, Board!Bytes(s)))
        /\ UNCHANGED <<file, download, dest>>
    BY <1>4 DEF Board!SendWhole, Board!Assemble
  <2> DEFINE k == Board!Bytes(s)
             w == Board!Finished(u, k)
  <2>1. k \in BlobKeys /\ k.kind = "bytes" /\ k.parts = s /\ Board!Bytes(up.expected) \in BlobKeys
        /\ Board!Bytes(up.expected).parts = up.expected
    BY <1>t, KeysOfBytes
  <2>2. w \in Uploads /\ w.at = "done" /\ w.key = k /\ w.expected = up.expected
    BY <2>1, <1>d
  <2>p. Board!Post(u, k, Board!Bytes(up.expected), w) /\ UNCHANGED <<file, download, dest>>
    OBVIOUS
  <2> HIDE DEF w, k, up, f
  <2>3. Has2(k, blobs', DOMAIN metas') /\ k = Board!Bytes(up.expected) =>
          ChunksAreKept(f, w, blobs', DOMAIN metas') /\ DoneIsKept(w, blobs', DOMAIN metas')
    BY <2>1, <2>2 DEF ChunksAreKept, DoneIsKept
  <2> QED BY <2>p, <2>1, <2>2, <2>3, <1>3
<1>5. CASE Board!SendChunk(u)
  <2> DEFINE n == Len(up.chunks)
             c == f[n + 1]
             one1 == <<c>>
             k == Board!Bytes(one1)
             cs == Append(up.chunks, c)
             w == [up EXCEPT !.chunks = cs]
  <2>1. /\ up.at = "chunks" /\ n < Len(f) /\ Board!Post(u, k, k, w) /\ UNCHANGED <<file, download, dest>>
    BY <1>5 DEF Board!SendChunk, Board!Sent
  <2>2. n \in Nat /\ c \in Nat
    BY <2>1, <1>t, <1>n DEF Pieces
  <2>3. one1 \in Pieces
    BY <2>2 DEF Pieces
  <2>4. k \in BlobKeys
    BY <2>3, KeysOfBytes
  <2>5. /\ cs \in Pieces /\ Len(cs) = n + 1 /\ cs[n + 1] = c /\ \A i \in 1..n : cs[i] = up.chunks[i]
    BY <2>2, <1>t, <1>n DEF Pieces
  <2> HIDE DEF cs
  <2>6. w \in Uploads /\ w.at = "chunks" /\ w.chunks = cs /\ w.expected = up.expected /\ w.edited = up.edited
    BY <2>1, <2>5, <1>t DEF Uploads
  <2>7. ASSUME RelayGrows, Has2(k, blobs', DOMAIN metas')
        PROVE  ChunksAreKept(f, w, blobs', DOMAIN metas') /\ DoneIsKept(w, blobs', DOMAIN metas')
    <3>1. Piece(c) = k
      BY DEF Piece
    <3>i. \A i \in 1..Len(cs) : i = n + 1 \/ i \in 1..n
      BY <2>2, <2>5
    <3>2. \A i \in 1..n : Has2(Piece(up.chunks[i]), blobs', DOMAIN metas')
      BY <2>1, <2>7, <1>t DEF ChunksAreKept, Has2, RelayGrows
    <3> HIDE DEF w, k, up, f, n, c
    <3>3. \A i \in 1..Len(cs) : Has2(Piece(cs[i]), blobs', DOMAIN metas')
      BY <2>5, <2>7, <3>1, <3>i, <3>2
    <3>4. ASSUME up.edited = FALSE
          PROVE  f = up.expected /\ Len(cs) <= Len(up.expected) /\ \A i \in 1..Len(cs) : cs[i] = up.expected[i]
      <4>1. f = up.expected /\ \A i \in 1..n : up.chunks[i] = up.expected[i]
        BY <3>4, <2>1, <1>t DEF ChunksAreKept, n
      <4>2. c = up.expected[n + 1]
        BY <4>1 DEF c
      <4>3. Len(cs) <= Len(up.expected)
        BY <4>1, <2>1, <2>2, <2>5, <1>n
      <4> QED BY <4>1, <4>2, <4>3, <2>5, <3>i
    <3> QED BY <3>3, <3>4, <2>6 DEF ChunksAreKept, DoneIsKept
  <2> HIDE DEF w, k, f, up
  <2> QED BY <2>1, <2>4, <2>6, <2>7, <1>3
<1>6. CASE Board!SendManifest(u)
  <2> DEFINE k == Board!Manifest(up.chunks, up.expected)
             w == Board!Finished(u, k)
  <2>1. up.at = "chunks" /\ Len(up.chunks) >= Len(f) /\ Board!Post(u, k, k, w) /\ UNCHANGED <<file, download, dest>>
    BY <1>6 DEF Board!SendManifest, Board!AllSent, Board!Sent
  <2>2. k \in BlobKeys /\ k.kind = "manifest" /\ k.parts = up.chunks /\ k.of = up.expected
    BY <1>t, KeysOfBytes
  <2>3. w \in Uploads /\ w.at = "done" /\ w.key = k /\ w.expected = up.expected /\ w.edited = up.edited
    BY <2>2, <1>d
  <2>4. up.edited = FALSE => up.chunks = up.expected
    <3> SUFFICES ASSUME up.edited = FALSE PROVE up.chunks = up.expected
      OBVIOUS
    <3> DEFINE a == up.chunks
               b == up.expected
    <3>1. a \in Pieces /\ b \in Pieces /\ Len(a) \in Nat /\ Len(b) \in Nat
      BY <1>t, <1>n
    <3>2. Len(a) = Len(b) /\ \A i \in 1..Len(a) : a[i] = b[i]
      BY <2>1, <1>t, <1>n DEF ChunksAreKept
    <3> HIDE DEF a, b
    <3>3. a = b
      BY <3>1, <3>2 DEF Pieces
    <3> QED BY <3>3 DEF a, b
  <2>5. up.edited \in BOOLEAN
    BY <1>t DEF Uploads
  <2>6. ASSUME RelayGrows, Has2(k, blobs', DOMAIN metas')
        PROVE  ChunksAreKept(f, w, blobs', DOMAIN metas') /\ DoneIsKept(w, blobs', DOMAIN metas')
    <3>1. \A i \in 1..Len(up.chunks) : Has2(Piece(up.chunks[i]), blobs', DOMAIN metas')
      BY <2>1, <2>6, <1>t DEF ChunksAreKept, Has2, RelayGrows
    <3> HIDE DEF w, k, up, f
    <3> QED BY <3>1, <2>2, <2>3, <2>4, <2>5, <2>6 DEF ChunksAreKept, DoneIsKept
  <2> HIDE DEF w, k, f, up
  <2> QED BY <2>1, <2>2, <2>3, <2>6, <1>3
<1> QED BY <1>1, <1>2, <1>4, <1>5, <1>6 DEF Board!Upload

(* One download moves: the relay and the uploads are as they were. *)
LEMMA DownloadMoves ==
  ASSUME RelayInv, NEW d \in Downloaders, NEW w \in Downloads, download' = [download EXCEPT ![d] = w],
         NEW c \in BlobKeys \cup {Nothing}, dest' = [dest EXCEPT ![d] = c],
         UNCHANGED <<blobs, metas, file, upload>>,
         w.at \in {"raw", "parts"} => w.key \in BlobKeys, w.at = "done" => c = w.told
  PROVE  RelayInv'
<1>1. /\ download' \in [Downloaders -> Downloads] /\ download'[d] = w
      /\ \A v \in Downloaders \ {d} : download'[v] = download[v]
  BY RelayFacts
<1>2. /\ dest' \in [Downloaders -> BlobKeys \cup {Nothing}] /\ dest'[d] = c
      /\ \A v \in Downloaders \ {d} : dest'[v] = dest[v]
  BY RelayFacts
<1>3. DownloadsKept'
  BY <1>1, <1>2, RelayFacts DEF DownloadsKept
<1>4. RelayTypes' /\ UploadsKept' /\ Board!MetaHasBlob'
  BY <1>1, <1>2 DEF RelayInv, RelayTypes, UploadsKept, Board!MetaHasBlob
<1> QED BY <1>3, <1>4 DEF RelayInv

LEMMA DownloadKeeps == ASSUME RelayInv, NEW d \in Downloaders, Board!Download(d) PROVE RelayInv'
<1> DEFINE down == download[d]
           k == down.key
           failed == [down EXCEPT !.at = "failed"]
<1>t. /\ down \in Downloads /\ (down.at \in {"raw", "parts"} => k \in BlobKeys)
      /\ dest \in [Downloaders -> BlobKeys \cup {Nothing}] /\ dest[d] \in BlobKeys \cup {Nothing}
      /\ download \in [Downloaders -> Downloads]
  BY RelayFacts DEF DownloadsKept
<1>f. failed \in Downloads /\ failed.at = "failed"
  BY <1>t DEF Downloads
<1>s. dest' = dest => dest' = [dest EXCEPT ![d] = dest[d]]
  BY <1>t
<1>1. ASSUME NEW c \in BlobKeys \cup {Nothing}, dest' = [dest EXCEPT ![d] = c],
             download' = [download EXCEPT ![d] = failed], UNCHANGED <<blobs, metas, file, upload>>
      PROVE  RelayInv'
  <2> HIDE DEF failed
  <2> QED BY <1>1, <1>f, DownloadMoves
<1>2. CASE Board!StartDownload(d)
  <2>1. PICK u \in Uploaders, way \in {"raw", "parts"} :
          /\ upload[u].at = "done"
          /\ download' = [download EXCEPT ![d] = [at |-> way, key |-> upload[u].key, done |-> 0, told |-> Nothing]]
          /\ UNCHANGED <<blobs, metas, file, upload, dest>>
    BY <1>2 DEF Board!StartDownload, Board!Way
  <2>2. upload[u].key \in BlobKeys
    BY <2>1, RelayFacts DEF DoneIsKept
  <2> DEFINE w == [at |-> way, key |-> upload[u].key, done |-> 0, told |-> Nothing]
  <2>3. w \in Downloads /\ w.at = way /\ w.key = upload[u].key
    BY <2>2 DEF Downloads
  <2>4. download' = [download EXCEPT ![d] = w]
    BY <2>1
  <2>5. /\ dest' = [dest EXCEPT ![d] = dest[d]] /\ UNCHANGED <<blobs, metas, file, upload>>
        /\ w.at # "done" /\ w.key \in BlobKeys
    BY <2>1, <2>2, <2>3, <1>s
  <2> HIDE DEF w, down
  <2> QED BY <2>3, <2>4, <2>5, <1>t, DownloadMoves
<1>3. CASE Board!DownloadFails(d)
  <2>1. PICK c \in {Nothing, Board!Torn} :
          /\ download' = [download EXCEPT ![d] = failed] /\ dest' = [dest EXCEPT ![d] = c]
          /\ UNCHANGED <<blobs, metas, file, upload>>
    BY <1>3 DEF Board!DownloadFails
  <2> DEFINE none == <<>>
  <2>2. none \in Pieces
    BY DEF Pieces
  <2> HIDE DEF none
  <2>3. Board!Bytes(none) \in BlobKeys
    BY <2>2, KeysOfBytes
  <2>4. Board!Torn \in BlobKeys
    BY <2>3 DEF Board!Torn, none
  <2> QED BY <2>1, <2>4, <1>1
<1>4. CASE Board!FetchRaw(d)
  <2>t. k \in BlobKeys /\ UNCHANGED <<blobs, metas, file, upload>>
    BY <1>4, <1>t DEF Board!FetchRaw
  <2>1. CASE Board!Whole(k)
    <3> DEFINE w0 == [down EXCEPT !.at = "done"]
               w == [w0 EXCEPT !.told = k]
    <3>1. download' = [download EXCEPT ![d] = w] /\ dest' = [dest EXCEPT ![d] = k]
      BY <1>4, <2>1, <1>t DEF Board!FetchRaw
    <3>2. w0 \in Downloads /\ w0.at = "done"
      BY <1>t DEF Downloads
    <3> HIDE DEF w0, k
    <3>3. w \in Downloads /\ w.at = "done" /\ w.told = k
      BY <3>2, <2>t DEF Downloads
    <3> HIDE DEF w
    <3> QED BY <3>1, <3>3, <2>t, DownloadMoves
  <2>2. CASE ~Board!Whole(k)
    BY <2>2, <2>t, <1>4, <1>1 DEF Board!FetchRaw
  <2> QED BY <2>1, <2>2
<1>5. CASE Board!FetchPart(d)
  <2> DEFINE b == Board!Bytes(<<k.parts[down.done + 1]>>)
  <2>t. k \in BlobKeys /\ UNCHANGED <<blobs, metas, file, upload>>
    BY <1>5, <1>t DEF Board!FetchPart
  <2>1. CASE Board!Whole(b)
    <3> DEFINE w == [down EXCEPT !.done = @ + 1]
    <3>1. download' = [download EXCEPT ![d] = w] /\ dest' = dest
      BY <1>5, <2>1 DEF Board!FetchPart
    <3>2. w \in Downloads /\ w.at = down.at /\ w.key = k /\ w.told = down.told
      BY <1>t DEF Downloads
    <3>3. down.at = "parts"
      BY <1>5 DEF Board!FetchPart
    <3> HIDE DEF w, k, down
    <3> QED BY <3>1, <3>2, <3>3, <2>t, <1>t, <1>s, DownloadMoves
  <2>2. CASE ~Board!Whole(b)
    BY <2>2, <2>t, <1>5, <1>1 DEF Board!FetchPart
  <2> QED BY <2>1, <2>2
<1>6. CASE Board!JoinParts(d)
  <2>t. /\ k \in BlobKeys /\ k.parts \in Pieces /\ UNCHANGED <<blobs, metas, file, upload>>
        /\ Board!Bytes(k.parts) \in BlobKeys
    BY <1>6, <1>t, KeysOfBytes DEF Board!JoinParts, BlobKeys
  <2>1. CASE Board!Joined(k)
    <3> DEFINE b == Board!Bytes(k.parts)
               w0 == [down EXCEPT !.at = "done"]
               w == [w0 EXCEPT !.told = b]
    <3>0. k.parts = k.of
      BY <2>1 DEF Board!Joined
    <3>1. download' = [download EXCEPT ![d] = w] /\ dest' = [dest EXCEPT ![d] = b]
      BY <1>6, <2>1, <3>0, <1>t DEF Board!JoinParts
    <3>2. w0 \in Downloads /\ w0.at = "done" /\ b \in BlobKeys
      BY <1>t, <2>t DEF Downloads
    <3> HIDE DEF w0, b
    <3>3. w \in Downloads /\ w.at = "done" /\ w.told = b
      BY <3>2 DEF Downloads
    <3> HIDE DEF w
    <3> QED BY <3>1, <3>2, <3>3, <2>t, DownloadMoves
  <2>2. CASE ~Board!Joined(k)
    BY <2>2, <2>t, <1>6, <1>1 DEF Board!JoinParts
  <2> QED BY <2>1, <2>2
<1> QED BY <1>2, <1>3, <1>4, <1>5, <1>6 DEF Board!Download

LEMMA RelayKeeps == ASSUME RelayInv, Board!RelayNext PROVE RelayInv'
BY UploadKeeps, DownloadKeeps DEF Board!RelayNext

LEMMA RelayPromises == ASSUME RelayInv PROVE Board!RelaySound
<1>1. Board!ToldIsThere /\ Board!MetaHasBlob
  BY DEF RelayInv, DownloadsKept, Board!ToldIsThere
<1>2. ASSUME NEW u \in Uploaders, upload[u].at = "done"
      PROVE  /\ Board!Yields(upload[u].key) = upload[u].expected
             /\ Board!Whole(upload[u].key)
             /\ Board!Fetchable(upload[u].key) \/ (upload[u].edited /\ upload[u].key.kind = "manifest")
  <2> DEFINE up == upload[u]
             k == up.key
  <2>1. up \in Uploads /\ DoneIsKept(up, blobs, DOMAIN metas) /\ up.at = "done"
    BY <1>2, RelayFacts
  <2>2. k \in BlobKeys /\ k.kind \in {"bytes", "manifest"} /\ up.edited \in BOOLEAN
    BY <2>1 DEF DoneIsKept, Uploads, BlobKeys
  <2> HIDE DEF up
  <2>3. Board!Yields(k) = up.expected /\ Board!Whole(k)
    BY <2>1, <2>2 DEF DoneIsKept, Has2, Board!Yields, Board!Whole
  <2>4. Board!Fetchable(k) \/ (up.edited /\ k.kind = "manifest")
    BY <2>1, <2>2, <2>3 DEF DoneIsKept, Has2, Piece, Board!Fetchable, Board!Whole
  <2> QED BY <2>3, <2>4 DEF up
<1> QED BY <1>1, <1>2 DEF Board!ToldIsStored, Board!RelaySound

-----------------------------------------------------------------------------
(* Transfers in segments.                                                      *)

FileEnd == NumSegments
SessionStages == {"none", "pending", "accepted", "loaded", "written", "renamed", "finished", "receipted"}
Holding == {"loaded", "written", "renamed", "finished", "receipted"}
Writing == {"loaded", "written", "renamed"}
Sources == [transfer : Transfer!Transfers, segment : 1..FileEnd, attempt : 0..MaxAttempts,
            stage : {"idle", "waiting", "done", "failed"}, told : SUBSET {"receipt", "relay", "target"}]
Attempts == [relay : {"none", "pending", "accepted", "running", "forwarded"},
             target : SessionStages, duplicate : BOOLEAN]
PartFiles == [exists : BOOLEAN, length : Nat, torn : BOOLEAN]
Records == [exists : BOOLEAN, offset : 0..FileEnd, complete : BOOLEAN, segments : SUBSET (1..FileEnd)]
TransferTypes ==
    /\ source \in Sources
    /\ session \in [Transfer!Keys -> Attempts]
    /\ claims \in SUBSET Transfer!Transfers
    /\ part \in [Transfer!Transfers -> PartFiles]
    /\ checkpoint \in [Transfer!Transfers -> Records]
    /\ stored \in [Transfer!Transfers -> {0, FileEnd}]

\* A segment that was verified: the record reaches that far, or the whole file is there.
Reached(c, s, n) == s = FileEnd \/ (c.exists = TRUE /\ c.offset >= n)

\* A record knows only segments before its end, and is complete only when the file is
\* stored; the partial file holds what the record says until then.
RecordIsKept(c, p, s) ==
    /\ c.exists = FALSE => c.segments = {}
    /\ c.exists = TRUE =>
         /\ c.offset >= 1
         /\ \A n \in c.segments : n <= c.offset
         /\ c.offset = FileEnd => c.complete = TRUE
         /\ c.complete = TRUE => s = FileEnd /\ c.offset = FileEnd
         /\ c.complete = FALSE /\ s = 0 => p.exists = TRUE /\ p.length >= c.offset
    /\ s = FileEnd => p.exists = FALSE

\* The files are as a session at segment n left them.
FilesAreHeld(x, n, c, p, s) ==
    /\ x.target \in Writing /\ x.duplicate = FALSE =>
         /\ c.exists = TRUE => c.offset = n - 1 /\ c.complete = FALSE
         /\ c.exists = FALSE => n = 1
         /\ x.target = "loaded" => s = 0 /\ p.exists = TRUE /\ p.length = n - 1
         /\ x.target = "written" => s = 0 /\ p.exists = TRUE /\ p.length = n
         /\ x.target = "renamed" => s = FileEnd /\ n = FileEnd
    /\ x.target \in Holding /\ x.duplicate = TRUE => x.target # "renamed" /\ Reached(c, s, n)
    /\ x.target \in {"finished", "receipted"} => Reached(c, s, n)

RecordsAreKept == \A t \in Transfer!Transfers : RecordIsKept(checkpoint[t], part[t], stored[t])

\* A session that holds a transfer's claim is alone.
Holds(k) == session[k].target \in Holding
HoldersAreAlone ==
    /\ \A k \in Transfer!Keys : Holds(k) => k[1] \in claims
    /\ \A k, l \in Transfer!Keys : Holds(k) /\ Holds(l) /\ k[1] = l[1] => k = l
SessionsHold == \A k \in Transfer!Keys :
    FilesAreHeld(session[k], k[2], checkpoint[k[1]], part[k[1]], stored[k[1]])

\* What the source was told, and what it has behind it, was verified.
KnowsOf(x, c, s) ==
    /\ "target" \in x.told => Reached(c, s, x.segment)
    /\ x.segment > 1 => Reached(c, s, x.segment - 1)
    /\ x.stage = "done" => s = FileEnd
SourceKnows == KnowsOf(source, checkpoint[source.transfer], stored[source.transfer])

TransferInv == TransferTypes /\ RecordsAreKept /\ HoldersAreAlone /\ SessionsHold /\ SourceKnows

LEMMA KeysAre ==
  /\ FileEnd \in Nat /\ FileEnd >= 1 /\ Transfer!Last = FileEnd
  /\ \A k \in Transfer!Keys : /\ k[1] \in Transfer!Transfers /\ k[2] \in 1..FileEnd
                              /\ k[2] \in Nat /\ k[2] >= 1 /\ k[2] <= FileEnd
<1>1. NumSegments \in Nat /\ NumSegments >= 1 /\ MaxAttempts \in Nat
  BY SegmentsAssumption
<1>2. Cardinality(1..NumSegments) = NumSegments
  BY <1>1, FS_Interval
<1>3. Transfer!Last = NumSegments
  BY <1>2 DEF Transfer!Last, Transfer!Cardinality, Cardinality
<1>4. ASSUME NEW k \in Transfer!Keys PROVE k[1] \in Transfer!Transfers /\ k[2] \in 1..FileEnd
  <2>1. PICK t \in Transfer!Transfers, n \in 1..NumSegments, a \in 0..MaxAttempts : k = <<t, n, a>>
    BY DEF Transfer!Keys
  <2> QED BY <2>1 DEF FileEnd
<1> QED BY <1>1, <1>3, <1>4 DEF FileEnd

LEMMA TransferFacts ==
  ASSUME TransferInv
  PROVE  /\ TransferTypes
         /\ source \in Sources /\ session \in [Transfer!Keys -> Attempts] /\ claims \in SUBSET Transfer!Transfers
         /\ part \in [Transfer!Transfers -> PartFiles] /\ checkpoint \in [Transfer!Transfers -> Records]
         /\ stored \in [Transfer!Transfers -> {0, FileEnd}]
         /\ \A t \in Transfer!Transfers :
              /\ part[t] \in PartFiles /\ checkpoint[t] \in Records /\ stored[t] \in {0, FileEnd}
              /\ RecordIsKept(checkpoint[t], part[t], stored[t])
         /\ \A k \in Transfer!Keys :
              /\ session[k] \in Attempts /\ session[k].target \in SessionStages /\ session[k].duplicate \in BOOLEAN
              /\ FilesAreHeld(session[k], k[2], checkpoint[k[1]], part[k[1]], stored[k[1]])
BY DEF TransferInv, TransferTypes, RecordsAreKept, SessionsHold, Attempts

\* f with c for what it had at x.
With(f, x, c) == [f EXCEPT ![x] = c]

\* No other session may hold the transfer of k.
Alone(k) == session[k].target \in Holding \/ k[1] \notin claims

\* It has the claim while it holds the transfer, and only then changes anything of it.
Claims(k, w, held, c, p, s) ==
    /\ held \in SUBSET Transfer!Transfers /\ claims \ {k[1]} \subseteq held
    /\ w.target \in Holding => k[1] \in held
    /\ \/ Alone(k)
       \/ /\ w.target \notin Holding /\ held = claims
          /\ c = checkpoint[k[1]] /\ p = part[k[1]] /\ s = stored[k[1]]

(* One session moves and only its transfer's files change, and they only while no other *)
(* session holds them.                                                                  *)
LEMMA SessionMoves ==
  ASSUME TransferInv, NEW k \in Transfer!Keys,
         NEW w \in Attempts, session' = With(session, k, w),
         NEW c \in Records, checkpoint' = With(checkpoint, k[1], c),
         NEW p \in PartFiles, part' = With(part, k[1], p),
         NEW s \in {0, FileEnd}, stored' = With(stored, k[1], s),
         Claims(k, w, claims', c, p, s), RecordIsKept(c, p, s), FilesAreHeld(w, k[2], c, p, s),
         source' \in Sources, SourceKnows'
  PROVE  TransferInv'
<1> DEFINE t == k[1]
<1>0. t \in Transfer!Transfers
  BY KeysAre
<1>1. /\ session' \in [Transfer!Keys -> Attempts] /\ session'[k] = w
      /\ \A l \in Transfer!Keys \ {k} : session'[l] = session[l]
  BY TransferFacts DEF With
<1>2. /\ checkpoint' \in [Transfer!Transfers -> Records] /\ checkpoint'[t] = c
      /\ part' \in [Transfer!Transfers -> PartFiles] /\ part'[t] = p
      /\ stored' \in [Transfer!Transfers -> {0, FileEnd}] /\ stored'[t] = s
      /\ \A v \in Transfer!Transfers \ {t} :
            checkpoint'[v] = checkpoint[v] /\ part'[v] = part[v] /\ stored'[v] = stored[v]
  BY <1>0, TransferFacts DEF With
<1>3. TransferTypes'
  BY <1>1, <1>2 DEF TransferTypes, Claims
<1>4. RecordsAreKept'
  <2>1. \A v \in Transfer!Transfers : RecordIsKept(checkpoint'[v], part'[v], stored'[v])
    BY <1>2, TransferFacts
  <2> QED BY <2>1 DEF RecordsAreKept
<1>5. Alone(k) => \A l \in Transfer!Keys \ {k} : l[1] = t => session[l].target \notin Holding
  BY DEF TransferInv, HoldersAreAlone, Holds, Alone
<1>6. HoldersAreAlone'
  <2>1. \A l \in Transfer!Keys : session'[l].target \in Holding => l[1] \in claims'
    BY <1>1, <1>5 DEF TransferInv, HoldersAreAlone, Holds, Claims
  <2>2. \A l, m \in Transfer!Keys :
           session'[l].target \in Holding /\ session'[m].target \in Holding /\ l[1] = m[1] => l = m
    BY <1>1, <1>5 DEF TransferInv, HoldersAreAlone, Holds, Claims
  <2> QED BY <2>1, <2>2 DEF HoldersAreAlone, Holds
<1>7. SessionsHold'
  <2>1. ASSUME NEW l \in Transfer!Keys
        PROVE  FilesAreHeld(session'[l], l[2], checkpoint'[l[1]], part'[l[1]], stored'[l[1]])
    <3>1. CASE l = k
      BY <3>1, <1>1, <1>2
    <3>2. CASE l # k /\ (l[1] # t \/ (c = checkpoint[t] /\ p = part[t] /\ s = stored[t]))
      <4>1. /\ session'[l] = session[l] /\ checkpoint'[l[1]] = checkpoint[l[1]] /\ part'[l[1]] = part[l[1]]
            /\ stored'[l[1]] = stored[l[1]]
        BY <3>2, <1>1, <1>2, KeysAre
      <4> QED BY <4>1, TransferFacts
    <3>3. CASE l # k /\ l[1] = t /\ Alone(k)
      <4>1. session'[l].target \notin Holding
        BY <3>3, <1>1, <1>5
      <4> QED BY <4>1 DEF FilesAreHeld, Holding, Writing
    <3> QED BY <3>1, <3>2, <3>3 DEF Claims
  <2> QED BY <2>1 DEF SessionsHold
<1> QED BY <1>3, <1>4, <1>6, <1>7 DEF TransferInv

LEMMA TransferStarts == ASSUME Transfer!Init PROVE TransferInv
<1> DEFINE rec == [exists |-> FALSE, offset |-> 0, complete |-> FALSE, segments |-> {}]
           file0 == [exists |-> FALSE, length |-> 0, torn |-> FALSE]
           idle == [relay |-> "none", target |-> "none", duplicate |-> FALSE]
<1>1. /\ rec \in Records /\ rec.exists = FALSE /\ rec.segments = {}
      /\ file0 \in PartFiles /\ file0.exists = FALSE
      /\ idle \in Attempts /\ idle.target = "none"
  BY KeysAre DEF Records, PartFiles, Attempts, SessionStages
<1>2. /\ checkpoint = [t \in Transfer!Transfers |-> rec] /\ part = [t \in Transfer!Transfers |-> file0]
      /\ session = [k \in Transfer!Keys |-> idle]
  BY DEF Transfer!Init, Transfer!NoCheckpoint, Transfer!NoPart, Transfer!NoSession
<1>3. PICK t \in Transfer!Transfers : source = [transfer |-> t, segment |-> 1, attempt |-> 0, stage |-> "idle", told |-> {}]
  BY DEF Transfer!Init, Transfer!Sending
<1>4. stored = [v \in Transfer!Transfers |-> 0] /\ claims = {}
  BY DEF Transfer!Init
<1> HIDE DEF rec, file0, idle
<1>5. source \in Sources /\ source.told = {} /\ source.segment = 1 /\ source.stage = "idle"
  BY <1>3, KeysAre, SegmentsAssumption DEF Sources
<1>6. TransferTypes
  BY <1>1, <1>2, <1>4, <1>5 DEF TransferTypes
<1>7. RecordsAreKept
  BY <1>1, <1>2, <1>4, KeysAre DEF RecordsAreKept, RecordIsKept
<1>8. HoldersAreAlone /\ SessionsHold
  BY <1>1, <1>2, KeysAre DEF HoldersAreAlone, Holds, SessionsHold, FilesAreHeld, Holding, Writing
<1>9. SourceKnows
  BY <1>5 DEF SourceKnows, KnowsOf
<1> QED BY <1>6, <1>7, <1>8, <1>9 DEF TransferInv

\* Files of a transfer in which what was verified still is.
Keeps(c0, s0, c, s) ==
    /\ s0 = FileEnd => s = FileEnd
    /\ \A n \in Nat : Reached(c0, s0, n) => Reached(c, s, n)
\* The source learns nothing, or what the session reached.
Learns(k, c, s, x) ==
    \/ x = source
    \/ \E what \in {"receipt", "relay", "target"} :
          /\ Transfer!Awaited(k) /\ x = [source EXCEPT !.told = @ \cup {what}]
          /\ what = "target" => Reached(c, s, k[2])

(* What was verified stays verified, so what the source knows stays true. *)
LEMMA SourceStays ==
  ASSUME TransferInv, NEW k \in Transfer!Keys,
         NEW c \in Records, checkpoint' = With(checkpoint, k[1], c),
         NEW s \in {0, FileEnd}, stored' = With(stored, k[1], s),
         Keeps(checkpoint[k[1]], stored[k[1]], c, s), Learns(k, c, s, source')
  PROVE  source' \in Sources /\ SourceKnows'
<1> DEFINE t == k[1]
           v == source.transfer
<1>0. t \in Transfer!Transfers /\ k[2] \in Nat
  BY KeysAre
<1>1. /\ source \in Sources /\ v \in Transfer!Transfers /\ source.segment \in Nat /\ source.segment - 1 \in Int
      /\ source.told \in SUBSET {"receipt", "relay", "target"}
  BY TransferFacts DEF Sources
<1>2. /\ checkpoint'[t] = c /\ stored'[t] = s
      /\ \A u \in Transfer!Transfers \ {t} : checkpoint'[u] = checkpoint[u] /\ stored'[u] = stored[u]
  BY <1>0, TransferFacts DEF With
<1>3. \A n \in Nat : Reached(checkpoint[v], stored[v], n) => Reached(checkpoint'[v], stored'[v], n)
  BY <1>1, <1>2 DEF Keeps
<1>4. stored[v] = FileEnd => stored'[v] = FileEnd
  BY <1>1, <1>2 DEF Keeps
<1>5. KnowsOf(source, checkpoint'[v], stored'[v])
  <2>1. KnowsOf(source, checkpoint[v], stored[v])
    BY DEF TransferInv, SourceKnows
  <2>2. source.segment > 1 => source.segment - 1 \in Nat
    BY <1>1
  <2> HIDE DEF v, t
  <2> QED BY <2>1, <2>2, <1>1, <1>3, <1>4 DEF KnowsOf
<1>6. CASE source' = source
  BY <1>6, <1>5, <1>1 DEF SourceKnows
<1>7. CASE source' # source
  <2>1. PICK what \in {"receipt", "relay", "target"} :
          /\ Transfer!Awaited(k) /\ source' = [source EXCEPT !.told = @ \cup {what}]
          /\ what = "target" => Reached(c, s, k[2])
    BY <1>7 DEF Learns
  <2>3. k = <<source.transfer, source.segment, source.attempt>>
    BY <2>1 DEF Transfer!Awaited
  <2>4. t = v /\ k[2] = source.segment
    BY <2>3
  <2>5. /\ source' \in Sources /\ source'.transfer = v /\ source'.segment = source.segment
        /\ source'.stage = source.stage /\ source'.told = source.told \cup {what}
    BY <2>1, <1>1 DEF Sources
  <2>6. what = "target" => Reached(checkpoint'[v], stored'[v], source.segment)
    BY <2>1, <2>4, <1>2
  <2> HIDE DEF v, t
  <2>7. KnowsOf(source', checkpoint'[v], stored'[v])
    BY <2>5, <2>6, <1>5 DEF KnowsOf
  <2> QED BY <2>5, <2>7 DEF SourceKnows
<1> QED BY <1>6, <1>7

(* A step that leaves the files of every transfer alone. *)
LEMMA SessionRests ==
  ASSUME TransferInv, NEW k \in Transfer!Keys, NEW w \in Attempts, session' = With(session, k, w),
         UNCHANGED <<claims, part, checkpoint, stored>>,
         \/ w.target \notin Holding
         \/ w.target = session[k].target /\ w.duplicate = session[k].duplicate,
         \/ source' = source
         \/ \E what \in {"receipt", "relay"} : Transfer!Tells(k, what)
  PROVE  TransferInv'
<1> DEFINE t == k[1]
           c == checkpoint[t]
           p == part[t]
           s == stored[t]
<1>0. t \in Transfer!Transfers
  BY KeysAre
<1>1. /\ c \in Records /\ p \in PartFiles /\ s \in {0, FileEnd} /\ RecordIsKept(c, p, s)
      /\ FilesAreHeld(session[k], k[2], c, p, s)
  BY <1>0, TransferFacts
<1>2. /\ checkpoint' = With(checkpoint, k[1], c) /\ part' = With(part, k[1], p)
      /\ stored' = With(stored, k[1], s)
  BY <1>0, TransferFacts DEF With
<1>3. source' \in Sources /\ SourceKnows'
  <2>1. Learns(k, c, s, source')
    BY DEF Learns, Transfer!Tells
  <2>2. Keeps(checkpoint[k[1]], stored[k[1]], c, s)
    BY DEF Keeps
  <2> HIDE DEF c, p, s
  <2> QED BY <2>1, <2>2, <1>1, <1>2, SourceStays
<1>4. FilesAreHeld(w, k[2], c, p, s)
  BY <1>1 DEF FilesAreHeld, Holding, Writing
<1>5. Claims(k, w, claims', c, p, s)
  BY TransferFacts DEF Claims, Alone, TransferInv, HoldersAreAlone, Holds
<1> HIDE DEF c, p, s
<1> QED BY <1>1, <1>2, <1>3, <1>4, <1>5, SessionMoves

(* The two together: what a session's step has to keep. *)
LEMMA SessionActs ==
  ASSUME TransferInv, NEW k \in Transfer!Keys,
         NEW w \in Attempts, session' = With(session, k, w),
         NEW c \in Records, checkpoint' = With(checkpoint, k[1], c),
         NEW p \in PartFiles, part' = With(part, k[1], p),
         NEW s \in {0, FileEnd}, stored' = With(stored, k[1], s),
         Claims(k, w, claims', c, p, s), RecordIsKept(c, p, s), FilesAreHeld(w, k[2], c, p, s),
         Keeps(checkpoint[k[1]], stored[k[1]], c, s), Learns(k, c, s, source')
  PROVE  TransferInv'
<1>1. source' \in Sources /\ SourceKnows'
  BY SourceStays
<1> QED BY <1>1, SessionMoves

\* The session with its target at another stage.
At(k, stage) == [session[k] EXCEPT !.target = stage]

LEMMA SessionFacts ==
  ASSUME TransferInv, NEW k \in Transfer!Keys
  PROVE  /\ k[1] \in Transfer!Transfers /\ k[2] \in 1..FileEnd /\ k[2] \in Nat /\ k[2] >= 1 /\ k[2] <= FileEnd
         /\ FileEnd \in Nat /\ FileEnd >= 1 /\ Transfer!Last = FileEnd
         /\ checkpoint[k[1]] \in Records /\ part[k[1]] \in PartFiles /\ stored[k[1]] \in {0, FileEnd}
         /\ RecordIsKept(checkpoint[k[1]], part[k[1]], stored[k[1]])
         /\ session[k] \in Attempts /\ session[k].duplicate \in BOOLEAN /\ session[k].target \in SessionStages
         /\ FilesAreHeld(session[k], k[2], checkpoint[k[1]], part[k[1]], stored[k[1]])
         /\ With(checkpoint, k[1], checkpoint[k[1]]) = checkpoint /\ With(part, k[1], part[k[1]]) = part
         /\ With(stored, k[1], stored[k[1]]) = stored
         /\ claims \in SUBSET Transfer!Transfers
         /\ session[k].target \in Holding => k[1] \in claims
         /\ \A stage \in SessionStages : /\ At(k, stage) \in Attempts /\ At(k, stage).target = stage
                                         /\ At(k, stage).duplicate = session[k].duplicate
<1>1. k[1] \in Transfer!Transfers
  BY KeysAre
<1>2. With(checkpoint, k[1], checkpoint[k[1]]) = checkpoint
  BY <1>1, TransferFacts DEF With
<1>3. With(part, k[1], part[k[1]]) = part
  BY <1>1, TransferFacts DEF With
<1>4. With(stored, k[1], stored[k[1]]) = stored
  BY <1>1, TransferFacts DEF With
<1>5. \A stage \in SessionStages : /\ At(k, stage) \in Attempts /\ At(k, stage).target = stage
                                   /\ At(k, stage).duplicate = session[k].duplicate
  BY TransferFacts DEF At, Attempts
<1>6. session[k].target \in Holding => k[1] \in claims
  BY DEF TransferInv, HoldersAreAlone, Holds
<1> QED BY <1>1, <1>2, <1>3, <1>4, <1>5, <1>6, KeysAre, TransferFacts

(* A session that reads and writes no file. *)
LEMMA QuietSteps ==
  ASSUME TransferInv, NEW k \in Transfer!Keys,
         Transfer!ServeTransit(k) \/ Transfer!Accept(k)
  PROVE  TransferInv'
<1> DEFINE x == session[k]
<1>t. x \in Attempts /\ \A stage \in SessionStages : At(k, stage) \in Attempts /\ At(k, stage).target = stage
  BY SessionFacts
<1>1. CASE Transfer!Accept(k)
  <2>1. session' = With(session, k, At(k, "accepted")) /\ UNCHANGED <<source, claims, part, checkpoint, stored>>
    BY <1>1 DEF Transfer!Accept, Transfer!Target, Transfer!diskVars, With, At
  <2>2. "accepted" \in SessionStages /\ "accepted" \notin Holding
    BY DEF SessionStages, Holding
  <2> QED BY <2>1, <2>2, <1>t, SessionRests
<1>2. CASE Transfer!ServeTransit(k)
  <2>1. UNCHANGED <<claims, part, checkpoint, stored>>
    BY <1>2 DEF Transfer!ServeTransit, Transfer!diskVars
  <2>2. source' = source \/ Transfer!Tells(k, "relay")
    BY <1>2 DEF Transfer!ServeTransit
  <2>3. PICK r \in {"none", "accepted", "running"} :
          \/ session' = [session EXCEPT ![k] = [[x EXCEPT !.relay = r] EXCEPT !.target = "pending"]]
          \/ session' = [session EXCEPT ![k] = [x EXCEPT !.relay = r]]
    BY <1>2, <1>t, TransferFacts DEF Transfer!ServeTransit, Attempts
  <2> DEFINE y == [x EXCEPT !.relay = r]
             z == [y EXCEPT !.target = "pending"]
  <2>4. y \in Attempts /\ y.target = x.target /\ y.duplicate = x.duplicate
    BY <1>t DEF Attempts
  <2>5. session' = With(session, k, z) \/ session' = With(session, k, y)
    BY <2>3 DEF With
  <2> HIDE DEF y
  <2>6. z \in Attempts /\ z.target = "pending" /\ "pending" \notin Holding
    BY <2>4 DEF Attempts, SessionStages, Holding
  <2> HIDE DEF z, x
  <2> QED BY <2>1, <2>2, <2>4, <2>5, <2>6, SessionRests DEF x
<1> QED BY <1>1, <1>2

(* A session is let in only when its segment follows what the record and the partial file *)
(* hold, or was verified before.                                                          *)
LEMMA LoadKeeps ==
  ASSUME TransferInv, NEW k \in Transfer!Keys, Transfer!LoadManifest(k) PROVE TransferInv'
<1> DEFINE c == checkpoint[k[1]]
           p == part[k[1]]
           s == stored[k[1]]
           n == k[2]
           r == Transfer!Record(k)
           dup == Transfer!Duplicate(k)
           refused == Transfer!Conflict(k) \/ (~dup /\ (r.offset # n - 1 \/ Transfer!PartMissing(k)))
<1>t. /\ n \in Nat /\ n >= 1 /\ n <= FileEnd /\ FileEnd \in Nat /\ FileEnd >= 1 /\ Transfer!Last = FileEnd
      /\ c \in Records /\ p \in PartFiles /\ s \in {0, FileEnd} /\ RecordIsKept(c, p, s)
      /\ With(checkpoint, k[1], c) = checkpoint /\ With(part, k[1], p) = part /\ With(stored, k[1], s) = stored
      /\ claims \in SUBSET Transfer!Transfers /\ k[1] \in Transfer!Transfers
  BY SessionFacts
<1>c. /\ c.exists \in BOOLEAN /\ c.complete \in BOOLEAN /\ c.offset \in 0..FileEnd /\ c.segments \in SUBSET (1..FileEnd)
      /\ p.exists \in BOOLEAN /\ p.length \in Nat
  BY <1>t DEF Records, PartFiles
<1>u. UNCHANGED <<source, checkpoint, stored>>
  BY DEF Transfer!LoadManifest
<1>1. CASE UNCHANGED <<claims, part>> /\ session' = [session EXCEPT ![k].target = "none"]
  <2>1. session' = With(session, k, At(k, "none"))
    BY <1>1 DEF With, At
  <2>2. At(k, "none") \in Attempts /\ At(k, "none").target \notin Holding
    BY SessionFacts DEF SessionStages, Holding
  <2> QED BY <1>1, <1>u, <2>1, <2>2, SessionRests
<1>2. CASE k[1] \notin claims /\ ~refused
  <2> DEFINE w == [At(k, "loaded") EXCEPT !.duplicate = dup]
             q == [exists |-> TRUE, length |-> r.offset, torn |-> FALSE]
             p2 == IF dup THEN p ELSE q
  <2>1. /\ claims' = claims \cup {k[1]}
        /\ session' = [session EXCEPT ![k].target = "loaded", ![k].duplicate = dup]
        /\ part' = IF dup THEN part ELSE [part EXCEPT ![k[1]] = q]
    BY <1>2 DEF Transfer!LoadManifest, Transfer!Transfer, Transfer!Segment
  <2>2. session' = With(session, k, w)
    BY <2>1, TransferFacts DEF With, At
  <2>3. part' = With(part, k[1], p2)
    BY <2>1, <1>t DEF With
  <2>r. /\ c.exists = TRUE => r = c
        /\ c.exists = FALSE /\ s = FileEnd => r.offset = FileEnd /\ r.complete = TRUE /\ r.segments = {}
        /\ c.exists = FALSE /\ s # FileEnd => r.offset = 0 /\ r.complete = FALSE /\ r.segments = {}
    BY <1>t DEF Transfer!Record, Transfer!NoCheckpoint, Transfer!Transfer
  <2>d. dup \in BOOLEAN /\ (dup <=> IF r.offset # n - 1 THEN n \in r.segments \/ (r.complete /\ n = FileEnd) ELSE r.complete)
    BY <2>r, <1>t, <1>c DEF Transfer!Duplicate, Transfer!Segment
  <2>m. ~dup => r.offset = n - 1 /\ (IF p.exists THEN p.length >= r.offset ELSE r.offset = 0)
    <3>1. Transfer!PartMissing(k) <=> IF p.exists THEN p.length < r.offset ELSE r.offset > 0
      BY DEF Transfer!PartMissing, Transfer!Transfer
    <3>2. r.offset \in 0..FileEnd
      BY <2>r, <1>t, <1>c
    <3> QED BY <1>2, <1>c, <1>t, <3>1, <3>2
  <2> HIDE DEF r, dup
  <2>4. w \in Attempts /\ w.target = "loaded" /\ w.duplicate = dup
    BY <2>d, SessionFacts DEF Attempts, SessionStages
  <2> HIDE DEF c, p, s, n, w
  <2>5. dup = TRUE => Reached(c, s, n)
    BY <2>r, <2>d, <1>t, <1>c DEF RecordIsKept, Reached
  <2>6. dup = FALSE => /\ s = 0 /\ r.offset = n - 1
                       /\ c.exists = TRUE => c.offset = n - 1 /\ c.complete = FALSE
                       /\ c.exists = FALSE => n = 1
    BY <2>r, <2>d, <2>m, <1>t, <1>c DEF RecordIsKept
  <2>7. dup = FALSE => q \in PartFiles /\ q.exists = TRUE /\ q.length = n - 1
    BY <2>6, <1>t DEF PartFiles
  <2> HIDE DEF q
  <2>8. p2 \in PartFiles /\ RecordIsKept(c, p2, s) /\ FilesAreHeld(w, n, c, p2, s)
    BY <2>4, <2>5, <2>6, <2>7, <2>d, <1>t, <1>c DEF RecordIsKept, FilesAreHeld, Holding, Writing
  <2> HIDE DEF p2
  <2>9. Claims(k, w, claims', c, p2, s)
    BY <1>2, <1>t, <2>1 DEF Claims, Alone
  <2>10. Keeps(checkpoint[k[1]], stored[k[1]], c, s) /\ Learns(k, c, s, source')
    BY <1>u DEF Keeps, Learns, c, s
  <2>11. checkpoint' = With(checkpoint, k[1], c) /\ stored' = With(stored, k[1], s)
    BY <1>u, <1>t
  <2> QED BY <2>2, <2>3, <2>4, <2>8, <2>9, <2>10, <2>11, <1>t, SessionActs DEF n
<1>3. \/ UNCHANGED <<claims, part>> /\ session' = [session EXCEPT ![k].target = "none"]
      \/ k[1] \notin claims /\ ~refused
  BY DEF Transfer!LoadManifest, Transfer!Target, Transfer!Transfer, Transfer!Segment
<1> QED BY <1>1, <1>2, <1>3

\* What is known of the session k, its segment n and the files c, p and s of its transfer.
SessionFiles(k, x, n, c, p, s) ==
    /\ n \in Nat /\ n >= 1 /\ n <= FileEnd /\ n \in 1..FileEnd
    /\ FileEnd \in Nat /\ FileEnd >= 1 /\ Transfer!Last = FileEnd
    /\ c \in Records /\ c.exists \in BOOLEAN /\ c.complete \in BOOLEAN /\ c.offset \in Int
    /\ c.offset <= FileEnd /\ c.segments \in SUBSET (1..FileEnd)
    /\ p \in PartFiles /\ p.exists \in BOOLEAN /\ p.length \in Nat /\ s \in {0, FileEnd}
    /\ x.duplicate \in BOOLEAN
    /\ RecordIsKept(c, p, s) /\ FilesAreHeld(x, n, c, p, s)
    /\ With(checkpoint, k[1], c) = checkpoint /\ With(part, k[1], p) = part /\ With(stored, k[1], s) = stored

LEMMA SessionHas ==
  ASSUME TransferInv, NEW k \in Transfer!Keys
  PROVE  SessionFiles(k, session[k], k[2], checkpoint[k[1]], part[k[1]], stored[k[1]])
<1> DEFINE c == checkpoint[k[1]]
           p == part[k[1]]
<1>1. c \in Records /\ p \in PartFiles
  BY SessionFacts
<1>2. /\ c.exists \in BOOLEAN /\ c.complete \in BOOLEAN /\ c.offset \in 0..FileEnd /\ c.segments \in SUBSET (1..FileEnd)
      /\ p.exists \in BOOLEAN /\ p.length \in Nat
  BY <1>1 DEF Records, PartFiles
<1>3. c.offset \in Int /\ c.offset <= FileEnd
  BY <1>2, KeysAre
<1> QED BY <1>2, <1>3, SessionFacts DEF SessionFiles

(* What a session that holds the transfer writes is what it says it has written. *)
LEMMA WriteKeeps ==
  ASSUME TransferInv, NEW k \in Transfer!Keys, Transfer!Write(k) \/ Transfer!Rename(k) \/ Transfer!Finish(k)
  PROVE  TransferInv'
<1> DEFINE x == session[k]
           n == k[2]
           c == checkpoint[k[1]]
           p == part[k[1]]
           s == stored[k[1]]
<1>t. SessionFiles(k, x, n, c, p, s)
  BY SessionHas
<1>w. \A stage \in SessionStages : /\ At(k, stage) \in Attempts /\ At(k, stage).target = stage
                                   /\ At(k, stage).duplicate = x.duplicate
  BY SessionFacts
<1>h. x.target \in Holding => k[1] \in claims /\ claims \in SUBSET Transfer!Transfers
  BY SessionFacts
<1>u. UNCHANGED <<source, claims>>
  BY DEF Transfer!Write, Transfer!Rename, Transfer!Finish
<1>k. /\ x = session[k] /\ n = k[2] /\ c = checkpoint[k[1]] /\ p = part[k[1]] /\ s = stored[k[1]]
  OBVIOUS
<1>l. \A d, e : Learns(k, d, e, source')
  BY <1>u DEF Learns
<1>q. \A w, d, q, e : x.target \in Holding => Claims(k, w, claims', d, q, e)
  BY <1>h, <1>u DEF Claims, Alone
<1>a. ASSUME Transfer!Write(k) PROVE TransferInv'
  <2> DEFINE w == At(k, "written")
             q == IF x.duplicate THEN p ELSE [p EXCEPT !.length = @ + 1]
  <2>1. x.target = "loaded" /\ UNCHANGED <<checkpoint, stored>> /\ session' = With(session, k, w)
    BY <1>a DEF Transfer!Write, Transfer!Target, With, At
  <2>2. part' = With(part, k[1], q)
    <3>1. part' = IF x.duplicate THEN part ELSE [part EXCEPT ![k[1]].length = @ + 1]
      BY <1>a DEF Transfer!Write, Transfer!Transfer
    <3> QED BY <3>1, <1>t DEF With, SessionFiles
  <2>3. w \in Attempts /\ w.target = "written" /\ w.duplicate = x.duplicate
    BY <1>w DEF SessionStages
  <2>4. x.duplicate = FALSE => q \in PartFiles /\ q.exists = p.exists /\ q.length = p.length + 1
    BY <1>t DEF SessionFiles, PartFiles
  <2>5. x.duplicate = TRUE => q = p
    OBVIOUS
  <2> HIDE DEF w, q, x, n, c, p, s
  <2>6. q \in PartFiles
    BY <2>4, <2>5, <1>t DEF SessionFiles
  <2>7. RecordIsKept(c, q, s) /\ FilesAreHeld(w, n, c, q, s)
    BY <2>1, <2>3, <2>4, <2>5, <1>t DEF SessionFiles, RecordIsKept, FilesAreHeld, Holding, Writing
  <2>8. Claims(k, w, claims', c, q, s)
    BY <2>1, <1>q DEF Holding
  <2>9. Keeps(c, s, c, s) /\ c \in Records /\ s \in {0, FileEnd}
    BY <1>t DEF Keeps, SessionFiles
  <2>10. checkpoint' = With(checkpoint, k[1], c) /\ stored' = With(stored, k[1], s)
    BY <2>1, <1>t DEF SessionFiles
  <2> QED BY <1>k, <1>l, <2>1, <2>2, <2>3, <2>6, <2>7, <2>8, <2>9, <2>10, SessionActs
<1>b. ASSUME Transfer!Rename(k) PROVE TransferInv'
  <2> DEFINE w == At(k, "renamed")
             q == [exists |-> FALSE, length |-> 0, torn |-> FALSE]
             e == p.length
  <2>1. /\ x.target = "written" /\ n = FileEnd /\ x.duplicate = FALSE /\ s = 0
        /\ checkpoint' = checkpoint /\ session' = With(session, k, w)
    BY <1>b, <1>t DEF Transfer!Rename, Transfer!Target, Transfer!Segment, Transfer!Transfer, With, At, SessionFiles
  <2>2. part' = With(part, k[1], q) /\ stored' = With(stored, k[1], e)
    BY <1>b DEF Transfer!Rename, Transfer!Transfer, Transfer!NoPart, With
  <2>3. w \in Attempts /\ w.target = "renamed" /\ w.duplicate = x.duplicate
    BY <1>w DEF SessionStages
  <2>4. q \in PartFiles /\ q.exists = FALSE
    BY DEF PartFiles
  <2> HIDE DEF w, q, x, n, c, p, s
  <2>5. e = FileEnd
    BY <2>1, <1>t DEF SessionFiles, FilesAreHeld, Writing
  <2> HIDE DEF e
  <2>7. RecordIsKept(c, q, e) /\ FilesAreHeld(w, n, c, q, e)
    BY <2>1, <2>3, <2>4, <2>5, <1>t DEF SessionFiles, RecordIsKept, FilesAreHeld, Holding, Writing
  <2>8. Claims(k, w, claims', c, q, e)
    BY <2>1, <1>q DEF Holding
  <2>9. Keeps(c, s, c, e) /\ c \in Records /\ e \in {0, FileEnd}
    BY <1>t, <2>5 DEF Keeps, SessionFiles, Reached
  <2>10. checkpoint' = With(checkpoint, k[1], c)
    BY <2>1, <1>t DEF SessionFiles
  <2> QED BY <1>k, <1>l, <2>1, <2>2, <2>3, <2>4, <2>7, <2>8, <2>9, <2>10, SessionActs
<1>c. ASSUME Transfer!Finish(k) PROVE TransferInv'
  <2> DEFINE w == At(k, "finished")
             whole == n = FileEnd
             segs == c.segments \cup {n}
             new == [exists |-> TRUE, offset |-> n, complete |-> whole, segments |-> segs]
             d == IF x.duplicate THEN c ELSE new
  <2>1. /\ \/ x.target = "renamed"
           \/ x.target = "written" /\ (x.duplicate = TRUE \/ n # FileEnd)
        /\ UNCHANGED <<part, stored>> /\ session' = With(session, k, w)
    BY <1>c, <1>t DEF Transfer!Finish, Transfer!Target, Transfer!Segment, With, At, SessionFiles
  <2>2. checkpoint' = With(checkpoint, k[1], d)
    <3>1. checkpoint' = IF x.duplicate THEN checkpoint ELSE
            [checkpoint EXCEPT ![k[1]] = [exists |-> TRUE, offset |-> n, complete |-> n = FileEnd,
                                          segments |-> c.segments \cup {n}]]
      BY <1>c, <1>t, TransferFacts, SessionFacts DEF Transfer!Finish, Transfer!Transfer, Transfer!Segment, SessionFiles
    <3> QED BY <3>1, <1>t DEF With, SessionFiles
  <2>3. w \in Attempts /\ w.target = "finished" /\ w.duplicate = x.duplicate
    BY <1>w DEF SessionStages
  <2>4. /\ new \in Records /\ new.exists = TRUE /\ new.offset = n /\ new.segments = c.segments \cup {n}
        /\ (new.complete = TRUE <=> n = FileEnd) /\ new.complete \in BOOLEAN
    <3>1. whole \in BOOLEAN /\ (whole = TRUE <=> n = FileEnd) /\ segs \in SUBSET (1..FileEnd) /\ n \in 0..FileEnd
      BY <1>t DEF SessionFiles
    <3>2. segs = c.segments \cup {n}
      OBVIOUS
    <3> HIDE DEF whole, segs
    <3>3. /\ new \in Records /\ new.exists = TRUE /\ new.offset = n /\ new.segments = segs /\ new.complete = whole
      BY <3>1 DEF Records
    <3> QED BY <3>1, <3>2, <3>3
  <2>5. /\ x.duplicate = TRUE => d = c
        /\ x.duplicate = FALSE => d = new
    OBVIOUS
  <2> HIDE DEF w, new, d, x, n, c, p, s
  <2>6. d \in Records
    BY <2>4, <2>5, <1>t DEF SessionFiles
  <2>f. x.duplicate = FALSE =>
          /\ c.exists = TRUE => c.offset = n - 1 /\ c.complete = FALSE
          /\ c.exists = FALSE => n = 1 /\ c.segments = {}
          /\ n # FileEnd => s = 0 /\ p.exists = TRUE /\ p.length = n
          /\ n = FileEnd => s = FileEnd
          /\ \A m \in c.segments : m <= n
    BY <2>1, <1>t DEF SessionFiles, FilesAreHeld, RecordIsKept, Writing
  <2>7. RecordIsKept(d, p, s) /\ FilesAreHeld(w, n, d, p, s)
    <3>1. CASE x.duplicate = TRUE
      BY <3>1, <2>1, <2>3, <2>5, <1>t DEF SessionFiles, FilesAreHeld, Holding, Writing
    <3>2. CASE x.duplicate = FALSE
      <4>1. RecordIsKept(new, p, s)
        BY <3>2, <2>f, <2>4, <1>t DEF SessionFiles, RecordIsKept
      <4>2. Reached(new, s, n)
        BY <2>4, <1>t DEF Reached, SessionFiles
      <4> QED BY <4>1, <4>2, <3>2, <2>3, <2>5 DEF FilesAreHeld, Holding, Writing
    <3> QED BY <3>1, <3>2, <1>t DEF SessionFiles
  <2>8. Claims(k, w, claims', d, p, s)
    BY <2>1, <1>q DEF Holding
  <2>9. Keeps(c, s, d, s) /\ p \in PartFiles /\ s \in {0, FileEnd}
    BY <1>t, <2>f, <2>4, <2>5 DEF Keeps, SessionFiles, Reached
  <2>10. part' = With(part, k[1], p) /\ stored' = With(stored, k[1], s)
    BY <2>1, <1>t DEF SessionFiles
  <2> QED BY <1>k, <1>l, <2>1, <2>2, <2>3, <2>6, <2>7, <2>8, <2>9, <2>10, SessionActs
<1> QED BY <1>a, <1>b, <1>c

LEMMA SessionEnds ==
  ASSUME TransferInv, NEW k \in Transfer!Keys,
         Transfer!SendReceipt(k) \/ Transfer!Completed(k) \/ Transfer!Abort(k)
  PROVE  TransferInv'
<1> DEFINE x == session[k]
           n == k[2]
           c == checkpoint[k[1]]
           p == part[k[1]]
           s == stored[k[1]]
           none == [exists |-> FALSE, offset |-> 0, complete |-> FALSE, segments |-> {}]
           empty == [exists |-> FALSE, length |-> 0, torn |-> FALSE]
<1>t. SessionFiles(k, x, n, c, p, s)
  BY SessionHas
<1>w. \A stage \in SessionStages : /\ At(k, stage) \in Attempts /\ At(k, stage).target = stage
                                   /\ At(k, stage).duplicate = x.duplicate
  BY SessionFacts
<1>h. /\ x.target \in Holding => k[1] \in claims
      /\ claims \in SUBSET Transfer!Transfers /\ x \in Attempts /\ x.target \in SessionStages
  BY SessionFacts
<1>k. /\ x = session[k] /\ n = k[2] /\ c = checkpoint[k[1]] /\ p = part[k[1]] /\ s = stored[k[1]]
  OBVIOUS
<1>n. none \in Records /\ none.exists = FALSE /\ none.segments = {} /\ empty \in PartFiles /\ empty.exists = FALSE
  BY <1>t DEF SessionFiles, Records, PartFiles
<1>a. ASSUME Transfer!SendReceipt(k) PROVE TransferInv'
  <2>1. x.target = "finished" /\ UNCHANGED <<claims, part, checkpoint, stored>>
    BY <1>a DEF Transfer!SendReceipt, Transfer!diskVars
  <2>2. source' = source \/ Transfer!Tells(k, "receipt")
    BY <1>a DEF Transfer!SendReceipt
  <2>3. \/ session' = [session EXCEPT ![k].target = "receipted"]
        \/ session' = [session EXCEPT ![k].target = "receipted", ![k].relay = "forwarded"]
    BY <1>a DEF Transfer!SendReceipt, Transfer!Target
  <2> DEFINE y == At(k, "receipted")
             z == [y EXCEPT !.relay = "forwarded"]
  <2>4. session' = With(session, k, y) \/ session' = With(session, k, z)
    BY <2>3, TransferFacts DEF With, At
  <2>5. y \in Attempts /\ y.target = "receipted" /\ y.duplicate = x.duplicate
    BY <1>w DEF SessionStages
  <2> HIDE DEF y
  <2>6. z \in Attempts /\ z.target = "receipted" /\ z.duplicate = x.duplicate
    BY <2>5 DEF Attempts
  <2> PICK w \in {y, z} : session' = With(session, k, w)
    BY <2>4
  <2>7. w \in Attempts /\ w.target = "receipted" /\ w.duplicate = x.duplicate
    BY <2>5, <2>6
  <2> HIDE DEF x, n, c, p, s, z
  <2>8. RecordIsKept(c, p, s) /\ FilesAreHeld(w, n, c, p, s)
    BY <2>1, <2>7, <1>t DEF SessionFiles, FilesAreHeld, Holding, Writing
  <2>9. Claims(k, w, claims', c, p, s)
    BY <2>1, <1>h, <1>k DEF Claims, Alone, Holding
  <2>10. /\ Keeps(c, s, c, s) /\ c \in Records /\ p \in PartFiles /\ s \in {0, FileEnd}
         /\ With(checkpoint, k[1], c) = checkpoint /\ With(part, k[1], p) = part /\ With(stored, k[1], s) = stored
    BY <1>t DEF Keeps, SessionFiles
  <2>11. Learns(k, c, s, source')
    BY <2>2 DEF Learns, Transfer!Tells
  <2>12. session' = With(session, k, w)
    OBVIOUS
  <2> QED BY <1>k, <2>1, <2>7, <2>8, <2>9, <2>10, <2>11, <2>12, SessionActs
<1>b. ASSUME Transfer!Completed(k) PROVE TransferInv'
  <2> DEFINE w == At(k, "none")
             d == IF n = FileEnd THEN none ELSE c
  <2>1. /\ x.target = "receipted" /\ claims' = claims \ {k[1]} /\ UNCHANGED <<part, stored>>
        /\ Transfer!Tells(k, "target") /\ session' = With(session, k, w)
    BY <1>b DEF Transfer!Completed, Transfer!Target, Transfer!Transfer, With, At
  <2>2. checkpoint' = With(checkpoint, k[1], d)
    <3>1. checkpoint' = IF n = FileEnd THEN With(checkpoint, k[1], none) ELSE checkpoint
      BY <1>b, <1>t DEF Transfer!Completed, Transfer!ForgetsRecord, Transfer!Segment, Transfer!Transfer,
                        Transfer!NoCheckpoint, With, SessionFiles
    <3> QED BY <3>1, <1>t DEF SessionFiles
  <2>3. w \in Attempts /\ w.target = "none"
    BY <1>w DEF SessionStages
  <2>4. Reached(c, s, n)
    BY <2>1, <1>t DEF SessionFiles, FilesAreHeld
  <2>5. d = none \/ d = c
    OBVIOUS
  <2>6. n = FileEnd \/ d = c
    OBVIOUS
  <2> HIDE DEF w, d, x, n, c, p, s, none, empty
  <2>7. n = FileEnd => s = FileEnd
    BY <2>4, <1>t DEF SessionFiles, Reached, RecordIsKept
  <2>8. d \in Records /\ RecordIsKept(d, p, s) /\ FilesAreHeld(w, n, d, p, s)
    BY <2>3, <2>5, <1>n, <1>t DEF SessionFiles, RecordIsKept, FilesAreHeld, Holding, Writing
  <2>9. Claims(k, w, claims', d, p, s)
    BY <2>1, <2>3, <1>h, <1>k DEF Claims, Alone, Holding
  <2>10. Keeps(c, s, d, s) /\ Reached(d, s, n)
    BY <2>4, <2>6, <2>7, <1>t DEF Keeps, SessionFiles, Reached
  <2>11. Learns(k, d, s, source')
    BY <2>1, <2>10, <1>k DEF Learns, Transfer!Tells
  <2>12. part' = With(part, k[1], p) /\ stored' = With(stored, k[1], s) /\ p \in PartFiles /\ s \in {0, FileEnd}
    BY <2>1, <1>t DEF SessionFiles
  <2> QED BY <1>k, <2>1, <2>2, <2>3, <2>8, <2>9, <2>10, <2>11, <2>12, SessionActs
<1>c. ASSUME Transfer!Abort(k) PROVE TransferInv'
  <2> DEFINE w == At(k, "none")
             owns == x.target \in Writing /\ ~x.duplicate
             cut0 == [p EXCEPT !.length = n - 1]
             cut == [cut0 EXCEPT !.torn = FALSE]
             q == IF ~owns \/ ~p.exists THEN p ELSE IF n - 1 = 0 THEN empty ELSE cut
             d == IF owns /\ n - 1 = 0 THEN none ELSE c
  <2>1. /\ x.target \notin {"none", "pending"} /\ UNCHANGED <<source, stored>> /\ session' = With(session, k, w)
        /\ claims' = IF x.target = "accepted" THEN claims ELSE claims \ {k[1]}
    BY <1>c DEF Transfer!Abort, Transfer!Serving, Transfer!Target, Transfer!Transfer, With, At
  <2>2. checkpoint' = With(checkpoint, k[1], d)
    <3>1. checkpoint' = IF owns /\ n - 1 = 0 THEN With(checkpoint, k[1], none) ELSE checkpoint
      BY <1>c DEF Transfer!Abort, Transfer!Transfer, Transfer!Segment, Transfer!NoCheckpoint, With, Writing
    <3> QED BY <3>1, <1>t DEF SessionFiles
  <2>3. part' = With(part, k[1], q)
    <3>1. part' = IF ~owns \/ ~p.exists THEN part
                  ELSE [part EXCEPT ![k[1]] = IF n - 1 = 0 THEN empty ELSE [@ EXCEPT !.length = n - 1, !.torn = FALSE]]
      BY <1>c DEF Transfer!Abort, Transfer!Transfer, Transfer!Segment, Transfer!NoPart, Writing
    <3> QED BY <3>1, <1>t DEF With, SessionFiles
  <2>4. w \in Attempts /\ w.target = "none"
    BY <1>w DEF SessionStages
  <2>5. n - 1 \in Nat
    BY <1>t DEF SessionFiles
  <2>6. cut0 \in PartFiles /\ cut0.exists = p.exists /\ cut0.length = n - 1
    BY <2>5, <1>t DEF SessionFiles, PartFiles
  <2> HIDE DEF cut0
  <2>7. cut \in PartFiles /\ cut.exists = p.exists /\ cut.length = n - 1
    BY <2>6 DEF PartFiles
  <2> HIDE DEF cut
  <2>8. /\ d = c \/ (d = none /\ x.target \in Writing /\ x.duplicate = FALSE /\ n = 1)
        /\ \/ q = p
           \/ x.target \in Writing /\ x.duplicate = FALSE /\ p.exists = TRUE /\ n = 1 /\ q = empty /\ d = none
           \/ x.target \in Writing /\ x.duplicate = FALSE /\ p.exists = TRUE /\ n # 1 /\ q = cut
    BY <1>t DEF SessionFiles
  <2> HIDE DEF w, d, q, x, n, c, p, s, none, empty
  <2>9. x.target \in Writing /\ x.duplicate = FALSE =>
          /\ c.exists = TRUE => c.offset = n - 1 /\ c.complete = FALSE /\ n # 1
          /\ s = 0 \/ (s = FileEnd /\ p.exists = FALSE)
    BY <1>t DEF SessionFiles, FilesAreHeld, RecordIsKept, Writing
  <2>10. d \in Records /\ q \in PartFiles
    BY <2>7, <2>8, <1>n, <1>t DEF SessionFiles
  <2>11. RecordIsKept(d, q, s)
    BY <2>7, <2>8, <2>9, <1>n, <1>t DEF SessionFiles, RecordIsKept
  <2>12. FilesAreHeld(w, n, d, q, s)
    BY <2>4 DEF FilesAreHeld, Holding, Writing
  <2>13. Keeps(c, s, d, s)
    BY <2>8, <2>9, <1>t DEF Keeps, Reached, SessionFiles
  <2>14. Learns(k, d, s, source')
    BY <2>1 DEF Learns
  <2>15. Claims(k, w, claims', d, q, s)
    <3>1. CASE x.target = "accepted"
      <4>1. d = c /\ q = p
        BY <3>1, <2>8 DEF Writing
      <4> QED BY <3>1, <4>1, <2>1, <2>4, <1>h, <1>k DEF Claims, Holding
    <3>2. CASE x.target # "accepted"
      <4>1. x.target \in Holding
        BY <3>2, <2>1, <1>h DEF SessionStages, Holding
      <4> QED BY <4>1, <3>2, <2>1, <2>4, <1>h, <1>k DEF Claims, Alone, Holding
    <3> QED BY <3>1, <3>2
  <2>16. stored' = With(stored, k[1], s) /\ s \in {0, FileEnd}
    BY <2>1, <1>t DEF SessionFiles
  <2> QED BY <1>k, <2>1, <2>2, <2>3, <2>4, <2>10, <2>11, <2>12, <2>13, <2>14, <2>15, <2>16, SessionActs
<1> QED BY <1>a, <1>b, <1>c

(* The source goes on to the next segment, tries again or turns to the transit peer. *)
LEMMA SourceMoves ==
  ASSUME TransferInv, UNCHANGED <<session, claims, part, checkpoint, stored>>, source' \in Sources,
         \/ source'.told = {} /\ source'.segment = 1 /\ source'.stage # "done"
         \/ /\ source'.transfer = source.transfer
            /\ source'.told = {} \/ (source'.told = source.told /\ source'.segment = source.segment)
            /\ \/ source'.segment = source.segment
               \/ "target" \in source.told /\ source'.segment = source.segment + 1
            /\ \/ source'.stage # "done"
               \/ "target" \in source.told /\ source.segment = FileEnd
  PROVE  TransferInv'
<1> DEFINE v == source.transfer
           c == checkpoint[v]
           s == stored[v]
<1>1. /\ v \in Transfer!Transfers /\ source.segment \in 1..FileEnd /\ source.segment \in Int /\ FileEnd \in Nat
      /\ source.told \in SUBSET {"receipt", "relay", "target"}
  BY TransferFacts, KeysAre DEF Sources
<1>2. KnowsOf(source, c, s) /\ c \in Records /\ RecordIsKept(c, part[v], s)
  BY <1>1, TransferFacts DEF TransferInv, SourceKnows
<1>3. c.offset \in Int /\ c.offset <= FileEnd
  BY <1>1, <1>2 DEF Records
<1>4. SourceKnows'
  <2>1. CASE source'.told = {} /\ source'.segment = 1 /\ source'.stage # "done"
    BY <2>1 DEF SourceKnows, KnowsOf
  <2>2. CASE source'.transfer = v /\ ~(source'.told = {} /\ source'.segment = 1 /\ source'.stage # "done")
    <3> HIDE DEF c, s, v
    <3>1. "target" \in source.told /\ source.segment = FileEnd => s = FileEnd
      BY <1>2, <1>1, <1>3 DEF KnowsOf, Reached, RecordIsKept
    <3>2. "target" \in source'.told => Reached(c, s, source'.segment)
      BY <2>2, <1>2 DEF KnowsOf, v
    <3>3. source'.segment > 1 => Reached(c, s, source'.segment - 1)
      <4>1. source'.segment = source.segment =>
              (source'.segment > 1 => Reached(c, s, source'.segment - 1))
        BY <1>2 DEF KnowsOf
      <4>2. source'.segment = source.segment + 1 => source'.segment - 1 = source.segment
        BY <1>1
      <4> QED BY <4>1, <4>2, <2>2, <1>2 DEF KnowsOf, v
    <3>4. source'.stage = "done" => s = FileEnd
      BY <2>2, <3>1 DEF v
    <3>5. KnowsOf(source', c, s)
      BY <3>2, <3>3, <3>4 DEF KnowsOf
    <3> QED BY <3>5, <2>2 DEF SourceKnows, c, s
  <2> QED BY <2>1, <2>2
<1>5. TransferTypes' /\ RecordsAreKept' /\ HoldersAreAlone' /\ SessionsHold'
  BY DEF TransferInv, TransferTypes, RecordsAreKept, HoldersAreAlone, Holds, SessionsHold
<1> QED BY <1>4, <1>5 DEF TransferInv

LEMMA SourceKeeps ==
  ASSUME TransferInv, Transfer!SendSegment \/ Transfer!SegmentDone \/ Transfer!AttemptFails PROVE TransferInv'
<1> DEFINE v == source.transfer
           n == source.segment
           a == source.attempt
<1>t. /\ v \in Transfer!Transfers /\ n \in 1..FileEnd /\ n \in Nat /\ FileEnd \in Nat /\ a \in 0..MaxAttempts
      /\ source \in Sources /\ MaxAttempts \in Nat /\ Transfer!Last = FileEnd /\ n <= FileEnd /\ FileEnd >= 1
      /\ "transit" \in Transfer!Transfers
  BY TransferFacts, KeysAre, SegmentsAssumption DEF Sources, Transfer!Transfers
<1>1. CASE Transfer!SendSegment
  <2> DEFINE k == <<v, n, a>>
             toTarget == [Transfer!NoSession EXCEPT !.target = "pending"]
             toRelay == [Transfer!NoSession EXCEPT !.relay = "pending"]
             w == IF v = "direct" THEN toTarget ELSE toRelay
             moved == [source EXCEPT !.stage = "waiting"]
  <2>1. k \in Transfer!Keys
    BY <1>t DEF Transfer!Keys, FileEnd
  <2>2. /\ session' = With(session, k, w) /\ source' = moved
        /\ UNCHANGED <<claims, part, checkpoint, stored>> /\ source.stage = "idle"
    BY <1>1 DEF Transfer!SendSegment, Transfer!diskVars, With
  <2>3. w \in Attempts /\ w.target \in {"none", "pending"}
    <3>1. Transfer!NoSession \in Attempts /\ Transfer!NoSession.target = "none"
      BY DEF Transfer!NoSession, Attempts, SessionStages
    <3>2. toTarget \in Attempts /\ toTarget.target = "pending" /\ toRelay \in Attempts /\ toRelay.target = "none"
      BY <3>1 DEF Attempts, SessionStages
    <3> HIDE DEF toTarget, toRelay
    <3> QED BY <3>2
  <2>4. /\ moved \in Sources /\ moved.told = source.told /\ moved.transfer = v /\ moved.segment = n
        /\ moved.stage = "waiting"
    BY <1>t DEF Sources
  <2> HIDE DEF k, w, moved
  <2> DEFINE c == checkpoint[k[1]]
             p == part[k[1]]
             s == stored[k[1]]
  <2>5. SessionFiles(k, session[k], k[2], c, p, s)
    BY <2>1, SessionHas
  <2>6. source' \in Sources /\ SourceKnows'
    BY <2>2, <2>4 DEF TransferInv, SourceKnows, KnowsOf
  <2> HIDE DEF c, p, s
  <2>7. FilesAreHeld(w, k[2], c, p, s)
    BY <2>3 DEF FilesAreHeld, Holding, Writing
  <2>8. Claims(k, w, claims', c, p, s)
    BY <2>1, <2>2, <2>3, SessionFacts DEF Claims, Holding, c, p, s
  <2>9. /\ checkpoint' = With(checkpoint, k[1], c) /\ part' = With(part, k[1], p) /\ stored' = With(stored, k[1], s)
        /\ c \in Records /\ p \in PartFiles /\ s \in {0, FileEnd} /\ RecordIsKept(c, p, s)
    BY <2>2, <2>5 DEF SessionFiles
  <2> QED BY <2>1, <2>2, <2>3, <2>6, <2>7, <2>8, <2>9, SessionMoves
<1>2. CASE Transfer!SegmentDone
  <2>1. /\ "target" \in source.told /\ UNCHANGED <<session, claims, part, checkpoint, stored>>
    BY <1>2 DEF Transfer!SegmentDone, Transfer!Confirmations, Transfer!diskVars
  <2>2. CASE n = FileEnd
    <3> DEFINE moved == [source EXCEPT !.stage = "done"]
    <3>1. source' = moved
      BY <1>2, <2>2, <1>t DEF Transfer!SegmentDone
    <3>2. moved \in Sources /\ moved.told = source.told /\ moved.transfer = v /\ moved.segment = n
      BY <1>t DEF Sources
    <3> HIDE DEF moved
    <3> QED BY <2>1, <2>2, <3>1, <3>2, SourceMoves
  <2>3. CASE n # FileEnd
    <3> DEFINE moved == [transfer |-> v, segment |-> n + 1, attempt |-> 0, stage |-> "idle", told |-> {}]
    <3>1. source' = moved
      BY <1>2, <2>3, <1>t DEF Transfer!SegmentDone, Transfer!Sending
    <3>2. /\ moved \in Sources /\ moved.told = {} /\ moved.transfer = v /\ moved.segment = n + 1
          /\ moved.stage = "idle"
      BY <1>t, <2>3 DEF Sources
    <3> HIDE DEF moved
    <3> QED BY <2>1, <3>1, <3>2, SourceMoves
  <2> QED BY <2>2, <2>3
<1>3. CASE Transfer!AttemptFails
  <2>u. UNCHANGED <<session, claims, part, checkpoint, stored>> /\ source.stage = "waiting"
    BY <1>3 DEF Transfer!AttemptFails, Transfer!diskVars
  <2>1. CASE a < MaxAttempts /\ source' = Transfer!Sending(v, n, a + 1)
    <3> DEFINE moved == [transfer |-> v, segment |-> n, attempt |-> a + 1, stage |-> "idle", told |-> {}]
    <3>1. source' = moved
      BY <2>1 DEF Transfer!Sending
    <3>2. /\ moved \in Sources /\ moved.told = {} /\ moved.transfer = v /\ moved.segment = n
          /\ moved.stage = "idle"
      BY <1>t, <2>1 DEF Sources
    <3> HIDE DEF moved
    <3> QED BY <2>u, <3>1, <3>2, SourceMoves
  <2>2. CASE source' = Transfer!Sending("transit", 1, 0)
    <3> DEFINE moved == [transfer |-> "transit", segment |-> 1, attempt |-> 0, stage |-> "idle", told |-> {}]
    <3>1. source' = moved
      BY <2>2 DEF Transfer!Sending
    <3>2. moved \in Sources /\ moved.told = {} /\ moved.segment = 1 /\ moved.stage = "idle"
      BY <1>t DEF Sources
    <3> HIDE DEF moved
    <3> QED BY <2>u, <3>1, <3>2, SourceMoves
  <2>3. CASE source' = [source EXCEPT !.stage = "failed"]
    <3> DEFINE moved == [source EXCEPT !.stage = "failed"]
    <3>1. source' = moved
      BY <2>3
    <3>2. /\ moved \in Sources /\ moved.told = source.told /\ moved.transfer = v /\ moved.segment = n
          /\ moved.stage = "failed"
      BY <1>t DEF Sources
    <3> HIDE DEF moved
    <3> QED BY <2>u, <3>1, <3>2, SourceMoves
  <2> QED BY <1>3, <2>1, <2>2, <2>3 DEF Transfer!AttemptFails
<1> QED BY <1>1, <1>2, <1>3

(* A stop of the target's process ends its sessions and leaves the files as they are. *)
LEMMA TargetStops == ASSUME TransferInv, Transfer!Crash PROVE TransferInv'
<1>u. UNCHANGED <<source, checkpoint, stored>> /\ claims' = {}
  BY DEF Transfer!Crash
<1>1. ASSUME NEW k \in Transfer!Keys
      PROVE  session'[k] \in Attempts /\ session'[k].target \in {"none", "pending"}
  <2> DEFINE w == [session[k] EXCEPT !.target = "none"]
  <2>1. session'[k] = IF session[k].target \notin {"none", "pending"} THEN w ELSE session[k]
    BY <1>1 DEF Transfer!Crash, Transfer!Serving
  <2>2. w \in Attempts /\ w.target = "none"
    BY TransferFacts DEF Attempts, SessionStages
  <2>3. session[k] \in Attempts
    BY TransferFacts
  <2> HIDE DEF w
  <2> QED BY <2>1, <2>2, <2>3
<1>2. ASSUME NEW t \in Transfer!Transfers
      PROVE  part'[t] \in PartFiles /\ part'[t].exists = part[t].exists /\ part'[t].length = part[t].length
  <2> DEFINE q == [part[t] EXCEPT !.torn = TRUE]
  <2>1. part'[t] = q \/ part'[t] = part[t]
    BY DEF Transfer!Crash
  <2>2. q \in PartFiles /\ q.exists = part[t].exists /\ q.length = part[t].length /\ part[t] \in PartFiles
    BY TransferFacts DEF PartFiles
  <2> HIDE DEF q
  <2> QED BY <2>1, <2>2
<1>3. DOMAIN session' = Transfer!Keys /\ DOMAIN part' = Transfer!Transfers
      /\ session' = [k \in Transfer!Keys |-> session'[k]] /\ part' = [t \in Transfer!Transfers |-> part'[t]]
  BY DEF Transfer!Crash
<1>4. session' \in [Transfer!Keys -> Attempts] /\ part' \in [Transfer!Transfers -> PartFiles]
  BY <1>1, <1>2, <1>3
<1>5. TransferTypes'
  BY <1>u, <1>4, TransferFacts DEF TransferTypes
<1>6. RecordsAreKept'
  <2>1. \A t \in Transfer!Transfers : RecordIsKept(checkpoint'[t], part'[t], stored'[t])
    BY <1>u, <1>2, TransferFacts DEF RecordIsKept
  <2> QED BY <2>1 DEF RecordsAreKept
<1>7. HoldersAreAlone' /\ SessionsHold'
  BY <1>1 DEF HoldersAreAlone, Holds, SessionsHold, FilesAreHeld, Holding, Writing
<1>8. SourceKnows'
  BY <1>u DEF TransferInv, SourceKnows
<1> QED BY <1>5, <1>6, <1>7, <1>8 DEF TransferInv

LEMMA TransferKeeps == ASSUME TransferInv, Transfer!Next PROVE TransferInv'
BY SourceKeeps, TargetStops, QuietSteps, LoadKeeps, WriteKeeps, SessionEnds DEF Transfer!Next

LEMMA TransferPromises == ASSUME TransferInv PROVE Transfer!TransferSound
<1>t. /\ source \in Sources /\ source.transfer \in Transfer!Transfers /\ source.segment \in Nat
      /\ FileEnd \in Nat /\ FileEnd >= 1 /\ Transfer!Last = FileEnd
  BY TransferFacts, KeysAre DEF Sources
<1>1. Transfer!StoredIsWhole
  BY <1>t, TransferFacts DEF Transfer!StoredIsWhole, TransferInv, SourceKnows, KnowsOf
<1>2. Transfer!Resumable
  <2>1. ASSUME NEW t \in Transfer!Transfers, checkpoint[t].exists /\ ~checkpoint[t].complete
        PROVE  (part[t].exists /\ part[t].length >= checkpoint[t].offset) \/ stored[t] = Transfer!Last
    <3>1. checkpoint[t] \in Records /\ RecordIsKept(checkpoint[t], part[t], stored[t]) /\ stored[t] \in {0, FileEnd}
      BY TransferFacts
    <3>2. checkpoint[t].exists \in BOOLEAN /\ checkpoint[t].complete \in BOOLEAN
      BY <3>1 DEF Records
    <3> QED BY <3>1, <3>2, <2>1, <1>t DEF RecordIsKept
  <2>2. source.segment > 1 => \/ stored[source.transfer] = Transfer!Last
                              \/ /\ checkpoint[source.transfer].exists
                                 /\ checkpoint[source.transfer].offset >= source.segment - 1
    BY <1>t DEF TransferInv, SourceKnows, KnowsOf, Reached
  <2> QED BY <2>1, <2>2 DEF Transfer!Resumable
<1>3. Transfer!OneWriter
  <2>1. ASSUME NEW k \in Transfer!Serving, NEW l \in Transfer!Serving, k # l, k[1] = l[1],
               session[k].target # "accepted", session[l].target # "accepted"
        PROVE  FALSE
    <3>1. /\ k \in Transfer!Keys /\ l \in Transfer!Keys
          /\ session[k].target \notin {"none", "pending"} /\ session[l].target \notin {"none", "pending"}
      BY DEF Transfer!Serving
    <3>2. session[k].target \in SessionStages /\ session[l].target \in SessionStages
      BY <3>1, TransferFacts
    <3>3. Holds(k) /\ Holds(l)
      BY <3>1, <3>2, <2>1 DEF Holds, Holding, SessionStages
    <3> QED BY <3>1, <3>3, <2>1 DEF TransferInv, HoldersAreAlone
  <2> QED BY <2>1 DEF Transfer!OneWriter, Transfer!Transfer
<1> QED BY <1>1, <1>2, <1>3 DEF Transfer!TransferSound

-----------------------------------------------------------------------------
(* What was moved, through segments and through the relay.                     *)

MovedInv ==
    /\ component = "transfer" => TransferInv
    /\ component = "relay" => RelayInv

LEMMA MovedStarts == MCInit => MovedInv
BY TransferStarts, RelayStarts DEF MCInit, MovedInv

LEMMA MovedStill ==
  ASSUME MovedInv, UNCHANGED <<component, transferState, relayState>>
  PROVE  MovedInv'
<1>1. component' = component
  OBVIOUS
<1>2. ASSUME TransferInv PROVE TransferInv'
  BY <1>2 DEF TransferInv, TransferTypes, RecordsAreKept, HoldersAreAlone, Holds, SessionsHold, SourceKnows,
              transferState
<1>3. ASSUME RelayInv PROVE RelayInv'
  BY <1>3 DEF RelayInv, RelayTypes, UploadsKept, DownloadsKept, Board!MetaHasBlob, relayState
<1> QED BY <1>1, <1>2, <1>3 DEF MovedInv

(* Segmented transfers and relayed blobs: MovedWhole holds for every number of segments, *)
(* attempts, concurrent sessions and crashes, and for all files and relays.              *)
THEOREM WhatMovedIsWhole == MCSpec => []MovedWhole
<1>1. MovedInv /\ [MCNext]_allVars => MovedInv'
  <2> SUFFICES ASSUME MovedInv, [MCNext]_allVars PROVE MovedInv'
    OBVIOUS
  <2>1. CASE TransferStep
    BY <2>1, TransferKeeps DEF TransferStep, MovedInv
  <2>2. CASE RelayStep
    BY <2>2, RelayKeeps DEF RelayStep, MovedInv
  <2>3. CASE \/ RouteStep \/ FriendsStep \/ CardsStep \/ ListStep \/ FeedStep \/ FramesStep \/ StreamStep
             \/ IceStep \/ OrdersStep \/ LettersStep \/ ContentStep \/ DirectoryStep \/ WorkStep
             \/ UNCHANGED allVars
    <3>1. UNCHANGED <<component, transferState, relayState>>
      BY <2>3 DEF RouteStep, FriendsStep, CardsStep, ListStep, FeedStep, FramesStep, StreamStep, IceStep,
                  OrdersStep, LettersStep, ContentStep, DirectoryStep, WorkStep, allVars
    <3> QED BY <3>1, MovedStill
  <2> QED BY <2>1, <2>2, <2>3 DEF MCNext
<1>2. MovedInv => MovedWhole
  BY TransferPromises, RelayPromises DEF MovedInv, MovedWhole
<1> QED BY <1>1, <1>2, MovedStarts, PTL DEF MCSpec
==============================================================================
