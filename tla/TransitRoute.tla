----------------------------- MODULE TransitRoute -----------------------------
(* The path a request takes (peer_transit.py, RouteManager): direct, or through   *)
(* an ordinary peer.  Every update reports the two paths' metrics; the manager    *)
(* moves only after a hold time, so that one bad or one good probe changes        *)
(* nothing.  send_file_adaptive updates it before a transfer and, with a hard     *)
(* failure, after a direct transfer failed.                                       *)
EXTENDS Naturals

CONSTANTS DegradedHold,    \* degraded_hold_s
          TransitMinHold,  \* transit_min_hold_s
          RecoveryHold,    \* recovery_hold_s
          RecoveryProbes,  \* recovery_probe_count
          MaxTime          \* bound: the clock

\* Durations in units of the clock, and a count (RoutePolicy).
ASSUME HoldsAssumption ==
    /\ DegradedHold \in Nat /\ TransitMinHold \in Nat /\ RecoveryHold \in Nat
    /\ RecoveryProbes \in Nat /\ MaxTime \in Nat

VARIABLES route,      \* the manager's state
          clock,
          healthy,    \* history: since when, and for how many updates, direct was not degraded
          troubled,   \* history: since when direct has been degraded without a break
          switched    \* history: when the path last became peer transit, and why

routeVars == <<route, clock, healthy, troubled, switched>>

Never == MaxTime + 1
NoRun == [since |-> Never, probes |-> 0]

Init ==
    /\ route = [state |-> "direct", changed |-> 0, degraded |-> Never, recovery |-> Never, probes |-> 0]
    /\ clock = 0 /\ healthy = NoRun /\ troubled = Never
    /\ switched = [at |-> 0, hard |-> FALSE]

PathMode(s) == IF s \in {"peer_transit", "recovering"} THEN "peer_transit" ELSE "direct"

\* What the metrics amount to: the direct path is unreachable, has failed
\* hard_failure_count times, or is over a threshold; the transit path scores
\* better by the improvement ratio, and always does when direct is unreachable.
Metrics == {m \in [reachable : BOOLEAN, hard : BOOLEAN, poor : BOOLEAN, transit : BOOLEAN, scores : BOOLEAN] :
                m.scores => m.transit}
Degraded(m) == ~ m.reachable \/ m.hard \/ m.poor
TransitBetter(m) == m.transit /\ (~ m.reachable \/ m.scores)

Change(r, s) == [r EXCEPT !.state = s, !.changed = clock]

FromDirect(r, m) ==
    LET bad == [Change(r, "degraded") EXCEPT !.degraded = clock]
    IN  IF ~ Degraded(m) THEN r
        ELSE IF TransitBetter(m) /\ m.hard THEN Change(bad, "peer_transit") ELSE bad

FromDegraded(r, m) ==
    IF ~ Degraded(m) THEN [Change(r, "direct") EXCEPT !.degraded = Never]
    ELSE IF TransitBetter(m) /\ (m.hard \/ clock - r.degraded >= DegradedHold)
    THEN Change(r, "peer_transit") ELSE r

FromTransit(r, m) ==
    IF ~ Degraded(m) /\ clock - r.changed >= TransitMinHold
    THEN [Change(r, "recovering") EXCEPT !.recovery = clock, !.probes = 1] ELSE r

\* mutant: a failed probe during the recovery does not start it over
KeepsRecovering(r, m) ==
    IF Degraded(m) THEN r
    ELSE IF clock - r.recovery >= RecoveryHold /\ r.probes + 1 >= RecoveryProbes
    THEN [Change(r, "direct") EXCEPT !.degraded = Never, !.recovery = Never, !.probes = 0]
    ELSE [r EXCEPT !.probes = IF @ < RecoveryProbes THEN @ + 1 ELSE @]
FromRecovering(r, m) ==
    IF Degraded(m) THEN [Change(r, "peer_transit") EXCEPT !.recovery = Never, !.probes = 0]
    ELSE IF clock - r.recovery >= RecoveryHold /\ r.probes + 1 >= RecoveryProbes
    THEN [Change(r, "direct") EXCEPT !.degraded = Never, !.recovery = Never, !.probes = 0]
    ELSE [r EXCEPT !.probes = IF @ < RecoveryProbes THEN @ + 1 ELSE @]

Moved(r, m) ==
    CASE r.state = "direct" -> FromDirect(r, m)
      [] r.state = "degraded" -> FromDegraded(r, m)
      [] r.state = "peer_transit" -> FromTransit(r, m)
      [] r.state = "recovering" -> FromRecovering(r, m)

Update(m) ==
    LET next == Moved(route, m)
    IN  /\ route' = next
        /\ healthy' = IF Degraded(m) THEN NoRun
                      ELSE [since |-> IF healthy.since = Never THEN clock ELSE healthy.since,
                            probes |-> IF healthy.probes < RecoveryProbes THEN healthy.probes + 1 ELSE healthy.probes]
        /\ troubled' = IF ~ Degraded(m) THEN Never ELSE IF troubled = Never THEN clock ELSE troubled
        /\ switched' = IF PathMode(route.state) = "direct" /\ PathMode(next.state) = "peer_transit"
                       THEN [at |-> clock, hard |-> m.hard] ELSE switched
        /\ UNCHANGED clock

Tick ==
    /\ clock < MaxTime /\ clock' = clock + 1
    /\ UNCHANGED <<route, healthy, troubled, switched>>

Next == Tick \/ \E m \in Metrics : Update(m)

Spec == Init /\ [][Next]_routeVars

----------------------------------------------------------------------------
(* The path does not flap: it goes back to direct only when every update for the  *)
(* whole recovery hold, and at least recovery_probe_count of them, found direct   *)
(* good, and after the minimum time on the transit path; it leaves direct only    *)
(* for a hard failure or after the degraded hold without one good update.         *)
BackIsEarned ==
    PathMode(route.state) = "peer_transit" /\ PathMode(route.state)' = "direct" =>
        /\ clock - healthy'.since >= RecoveryHold /\ healthy'.probes >= RecoveryProbes
        /\ clock - switched.at >= TransitMinHold + RecoveryHold

\* The direct path is left only after it was bad for the whole hold, or failed (RouteManager.update).
AwayIsEarned ==
    PathMode(route.state) = "direct" /\ PathMode(route.state)' = "peer_transit" =>
        switched'.hard \/ clock - troubled' >= DegradedHold

(* Every change of the path is earned, in both directions (RouteManager.update).  *)
NoFlapping == [][BackIsEarned /\ AwayIsEarned]_routeVars
==============================================================================
