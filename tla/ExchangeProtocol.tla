-------------------------- MODULE ExchangeProtocol -------------------------
(***************************************************************************)
(* The transition rules of rynmesh/exchange/protocol.py: apply(), one      *)
(* action per command, over the one log that ExchangeLedger provides.      *)
(*                                                                         *)
(* Every command carries the hash of the order it was signed against       *)
(* (reviewed_order), so a command that is applied was signed for exactly   *)
(* the state it is applied to; signing and applying are one step here.     *)
(* Operation ids, nonces and the monotonic time are the subject of         *)
(* ExchangeRules; here a command is any the rules accept, at any timestamp *)
(* t not before the last one.                                              *)
(*                                                                         *)
(* apply() ends with two assertions on the books, and unhold(), earn() and *)
(* close() hold others (exchange_supply_invariant,                         *)
(* exchange_balance_invariant, exchange_capacity).  They are not guards    *)
(* here: the invariants SupplyConserved and EscrowBacked say that no       *)
(* command ever trips them.                                                *)
(***************************************************************************)
EXTENDS Integers, Sequences, FiniteSets, Sums

CONSTANTS
  Traders,             \* owners of accounts
  Devices,             \* device keys an owner may authorize
  Judges,              \* config["judges"]: a sequence of accounts
  Fee,                 \* Fee[j]: the fee of judge j
  Validators, Quorum,  \* witnesses of registry work, quorum(config)
  Jobs,                \* registry assignments
  Prices,              \* prices that proposals name
  Shares,              \* share_bps values that judges sign
  WorkReward, IssuanceLimit,
  DeliveryWindow, ReviewWindow, CaseWindow, AppealWindow,
  OrderReserve,        \* ORDER_OPERATION_RESERVE
  MaxRevisions,        \* delivery revisions, 3
  MaxOpenOrders, MaxOperations, MaxAccountAdmissions, MaxDevices,
  MaxListings, MaxProposals,  \* bounds of the instance
  MaxAdmissionTime,    \* bound: timestamps of commands that open something
  MaxTime,             \* bound: timestamps of order commands
  Diligent             \* the trader of the liveness property

JudgeSet == {Judges[i] : i \in DOMAIN Judges}
Accounts == Traders \cup JudgeSet
Kinds    == {"offer", "request"}
Unset    == -1
Nobody   == "nobody"

ASSUME PeopleAssumption ==
  /\ IsFiniteSet(Traders) /\ Judges \in Seq(JudgeSet) /\ Fee \in [JudgeSet -> Nat]
  /\ Nobody \notin Accounts

ASSUME ProtocolAssumption ==
  /\ Prices \subseteq Nat /\ Shares \subseteq 0..10000
  /\ WorkReward \in Nat \ {0} /\ IssuanceLimit \in Nat /\ Quorum \in Nat
  /\ DeliveryWindow \in Nat \ {0} /\ ReviewWindow \in Nat \ {0}
  /\ CaseWindow \in Nat \ {0} /\ AppealWindow \in Nat \ {0}
  /\ MaxRevisions \in Nat /\ OrderReserve \in Nat /\ MaxOpenOrders \in Nat
  /\ MaxOperations \in Nat /\ MaxAccountAdmissions \in Nat /\ MaxDevices \in Nat
  /\ MaxListings \in Nat /\ MaxProposals \in Nat
  /\ MaxAdmissionTime \in Nat /\ MaxTime \in Nat
  /\ OrderReserve >= MaxRevisions + 13   \* 24 and 3 in the code

VARIABLES accounts,   \* accounts[p]: balances, profile, devices, admissions
          listings,   \* listings, proposals and orders, numbered in log order
          proposals,
          orders,
          issued,     \* credits issued
          rewards,    \* rewards[j]: who was rewarded for job j
          ops,        \* number of operations applied
          time        \* timestamp of the last one

vars == <<accounts, listings, proposals, orders, issued, rewards, ops, time>>

Terminal == {"accepted", "refunded", "resolved"}
Open(o)  == orders[o].status \notin Terminal
OpenOrders == {o \in DOMAIN orders : Open(o)}
Parties(o) == {orders[o].buyer, orders[o].provider}

Init ==
  /\ accounts  = [p \in Accounts |-> [available |-> 0, held |-> 0, earned |-> 0,
                                      profile |-> FALSE, devices |-> {}, admissions |-> 0]]
  /\ listings  = << >>
  /\ proposals = << >>
  /\ orders    = << >>
  /\ issued    = 0
  /\ rewards   = [j \in Jobs |-> Nobody]
  /\ ops       = 0
  /\ time      = 0

----------------------------------------------------------------------------
\* judge_panel(): three judges of the first six that are not parties.  Eligible
\* are the places of Judges that count, Rank is the rank of place i among them.
Eligible(b, p) == {i \in DOMAIN Judges : Judges[i] \notin {b, p}}
Rank(b, p, i)  == Cardinality({k \in Eligible(b, p) : k <= i})
PanelAvailable(b, p) == Cardinality(Eligible(b, p)) >= 6
Panel(b, p, r) ==
  {Judges[i] : i \in {k \in Eligible(b, p) : Rank(b, p, k) \in (3 * r + 1)..(3 * r + 3)}}

\* fees(): what the round r costs, and its halves; the buyer bears the odd unit.
RoundFee(b, p, r)    == Total(Fee, Panel(b, p, r))
HalfFee(b, p, r)     == RoundFee(b, p, r) \div 2
BuyerFee(b, p, r)    == (RoundFee(b, p, r) + 1) \div 2
ProviderFee(b, p, r) == RoundFee(b, p, r) \div 2
FirstRound(b, p)      == BuyerFee(b, p, 0)
BuyerReserve(b, p)    == BuyerFee(b, p, 0) + BuyerFee(b, p, 1)
ProviderReserve(b, p) == ProviderFee(b, p, 0) + ProviderFee(b, p, 1)

\* deadline(): the window that is running.
Deadline(r) == CASE r.status = "working"      -> r.deliveryUntil
                 [] r.status = "delivered"    -> r.reviewUntil
                 [] r.status = "disputed"     -> r.caseUntil
                 [] r.status = "ruling_ready" -> r.appealUntil

\* Lifecycle operations that open orders may still use.
Reserved == Total([o \in OpenOrders |-> orders[o].remaining], OpenOrders)

NoReserve(p, needed) ==
  /\ ops + needed <= MaxOperations
  /\ accounts[p].admissions < MaxAccountAdmissions

\* The admission check of every command that is not an order action.
Admissible(p, needed) ==
  /\ ops + Reserved + needed <= MaxOperations
  /\ accounts[p].admissions < MaxAccountAdmissions

Admitted(p) == [accounts EXCEPT ![p].admissions = @ + 1]

\* The trailing assignments of apply().
Applied(t) == ops' = ops + 1 /\ time' = t

----------------------------------------------------------------------------
Profile(p, t) ==
  /\ Admissible(p, 1)
  /\ accounts' = [Admitted(p) EXCEPT ![p].profile = TRUE]
  /\ Applied(t)
  /\ UNCHANGED <<listings, proposals, orders, issued, rewards>>

\* Only the owner's own key signs this command.
Device(p, d, allowed, t) ==
  /\ Admissible(p, 1)
  /\ allowed => Cardinality(accounts[p].devices) < MaxDevices
  /\ accounts' = [Admitted(p) EXCEPT ![p].devices = IF allowed THEN @ \cup {d} ELSE @ \ {d}]
  /\ Applied(t)
  /\ UNCHANGED <<listings, proposals, orders, issued, rewards>>

Transfer(p, q, v, t) ==
  /\ Admissible(p, 1)
  /\ q # p /\ accounts[q].profile
  /\ v > 0 /\ accounts[p].available >= v
  /\ accounts' = [Admitted(p) EXCEPT ![p].available = @ - v,
                                     ![q].available = @ + v, ![q].earned = @ + v]
  /\ Applied(t)
  /\ UNCHANGED <<listings, proposals, orders, issued, rewards>>

Listing(p, kind, t) ==
  /\ Admissible(p, 1)
  /\ accounts[p].profile
  /\ Len(listings) < MaxListings
  /\ listings' = Append(listings, [owner |-> p, kind |-> kind, active |-> TRUE])
  /\ accounts' = Admitted(p)
  /\ Applied(t)
  /\ UNCHANGED <<proposals, orders, issued, rewards>>

Withdraw(p, l, t) ==
  /\ Admissible(p, 1)
  /\ listings[l].owner = p /\ listings[l].active
  /\ listings' = [listings EXCEPT ![l].active = FALSE]
  /\ accounts' = Admitted(p)
  /\ Applied(t)
  /\ UNCHANGED <<proposals, orders, issued, rewards>>

Propose(p, l, price, t) ==
  LET owner    == listings[l].owner
      buyer    == IF listings[l].kind = "request" THEN owner ELSE p
      provider == IF listings[l].kind = "request" THEN p ELSE owner
  IN  /\ Admissible(p, 1)
      /\ listings[l].active
      /\ accounts[p].profile /\ owner # p
      /\ Judges # << >> => PanelAvailable(buyer, provider)
      /\ Len(proposals) < MaxProposals
      /\ proposals' = Append(proposals,
                        [listing |-> l, buyer |-> buyer, provider |-> provider,
                         by |-> p, price |-> price, status |-> "offered"])
      /\ accounts' = Admitted(p)
      /\ Applied(t)
      /\ UNCHANGED <<listings, orders, issued, rewards>>

\* An order opened at time t on proposal x.
NewOrder(x, t) ==
  [buyer |-> x.buyer, provider |-> x.provider, price |-> x.price,
   buyerReserve |-> BuyerReserve(x.buyer, x.provider),
   providerReserve |-> ProviderReserve(x.buyer, x.provider),
   status |-> "working", round |-> Unset, ruling |-> Unset, paid |-> Unset,
   evidence |-> {}, refunds |-> {}, waivers |-> {},
   deliveryUntil |-> t + DeliveryWindow, reviewUntil |-> Unset,
   caseUntil |-> Unset, appealUntil |-> Unset,
   remaining |-> OrderReserve, revisions |-> 0,
   closedBy |-> Nobody, closedAt |-> Unset, closedFrom |-> "none"]   \* history

Overdraw(p, v) == TRUE

\* hold(): the balance that is moved is there.
CanHold(p, v) == accounts[p].available >= v

\* The limit of 100 open orders of either party is implied by MaxOpenOrders.
Agree(p, x, t) ==
  LET offer == proposals[x]
      order == NewOrder(offer, t)
      bond  == order.price + order.buyerReserve
  IN  /\ Admissible(p, 1 + OrderReserve)
      /\ offer.status = "offered"
      /\ p \in {offer.buyer, offer.provider} /\ p # offer.by
      /\ listings[offer.listing].active
      /\ Cardinality(OpenOrders) < MaxOpenOrders
      /\ CanHold(offer.buyer, bond) /\ CanHold(offer.provider, order.providerReserve)
      /\ proposals' = [proposals EXCEPT ![x].status = "accepted"]
      /\ orders' = Append(orders, order)
      /\ accounts' = [Admitted(p) EXCEPT
                        ![offer.buyer].available = @ - bond,
                        ![offer.buyer].held = @ + bond,
                        ![offer.provider].available = @ - order.providerReserve,
                        ![offer.provider].held = @ + order.providerReserve]
      /\ Applied(t)
      /\ UNCHANGED <<listings, issued, rewards>>

\* The receipts of a quorum of validators other than p are attached.
Reward(p, j, t) ==
  /\ Admissible(p, 1)
  /\ rewards[j] = Nobody
  /\ \A i \in Jobs : rewards[i] # p
  /\ Cardinality(Validators \ {p}) >= Quorum
  /\ issued + WorkReward <= IssuanceLimit
  /\ accounts' = [Admitted(p) EXCEPT ![p].available = @ + WorkReward,
                                     ![p].earned = @ + WorkReward]
  /\ issued' = issued + WorkReward
  /\ rewards' = [rewards EXCEPT ![j] = p]
  /\ Applied(t)
  /\ UNCHANGED <<listings, proposals, orders>>

----------------------------------------------------------------------------
\* What every order action requires, and the operation it uses up.
OrderAction(p, o) ==
  /\ p \in Parties(o)
  /\ Open(o)
  /\ orders[o].remaining > 0

ChargedTwice(o) == [orders[o] EXCEPT !.remaining = @ - 2]
Charged(o) == [orders[o] EXCEPT !.remaining = @ - 1]

\* The order becomes r; balances stay.
Becomes(o, r, t) ==
  /\ orders' = [orders EXCEPT ![o] = r]
  /\ Applied(t)
  /\ UNCHANGED <<accounts, listings, proposals, issued, rewards>>

ReleasePaid(r, paid) ==
  [accounts EXCEPT ![r.buyer].held = @ - paid,
                   ![r.provider].available = @ + paid,
                   ![r.provider].earned = @ + paid]

\* The books after both bonds of r are released and its provider is paid.
Release(r, paid) ==
  [accounts EXCEPT ![r.buyer].held = @ - (r.price + r.buyerReserve),
                   ![r.buyer].available = @ + r.price + r.buyerReserve - paid,
                   ![r.provider].held = @ - r.providerReserve,
                   ![r.provider].available = @ + r.providerReserve + paid,
                   ![r.provider].earned = @ + paid]

\* close() of order o, now r, by a command of p.
Close(p, o, r, paid, status, t) ==
  /\ paid \in 0..r.price
  /\ orders' = [orders EXCEPT ![o] =
                  [r EXCEPT !.status = status, !.paid = paid, !.remaining = 0,
                            !.buyerReserve = 0, !.providerReserve = 0,
                            !.closedBy = p, !.closedAt = t, !.closedFrom = r.status]]
  /\ accounts' = Release(r, paid)
  /\ Applied(t)
  /\ UNCHANGED <<listings, proposals, issued, rewards>>

Deliver(p, o, t) ==
  LET r     == Charged(o)
      until == IF r.status = "working" THEN t + ReviewWindow ELSE r.reviewUntil
  IN  /\ OrderAction(p, o)
      /\ p = r.provider /\ r.status \in {"working", "delivered"}
      /\ t < r.deliveryUntil
      /\ r.revisions < MaxRevisions
      /\ t < until
      /\ Becomes(o, [r EXCEPT !.status = "delivered", !.revisions = @ + 1,
                              !.reviewUntil = until], t)

Accept(p, o, t) ==
  LET r == Charged(o)
  IN  /\ OrderAction(p, o)
      /\ p = r.buyer /\ r.status = "delivered"
      /\ Close(p, o, r, r.price, "accepted", t)

\* A refund needs both parties; the consent of one outlives later deliveries.
Refund(p, o, t) ==
  LET r == [Charged(o) EXCEPT !.refunds = @ \cup {p}]
  IN  /\ OrderAction(p, o)
      /\ p \notin orders[o].refunds
      /\ IF Cardinality(r.refunds) = 2
         THEN Close(p, o, r, 0, "refunded", t)
         ELSE Becomes(o, r, t)

\* A new case: round n, no evidence, no waivers.
OpenCase(r, n, t) ==
  [r EXCEPT !.status = "disputed", !.round = n, !.evidence = {}, !.waivers = {},
            !.caseUntil = t + CaseWindow]

Dispute(p, o, t) ==
  LET r == Charged(o)
  IN  /\ OrderAction(p, o)
      /\ r.status \in {"working", "delivered"}
      /\ t < Deadline(r)
      /\ PanelAvailable(r.buyer, r.provider)
      /\ Becomes(o, OpenCase(r, 0, t), t)

Evidence(p, o, t) ==
  LET r == Charged(o)
  IN  /\ OrderAction(p, o)
      /\ r.status = "disputed"
      /\ t < r.caseUntil
      /\ p \notin r.evidence
      /\ Becomes(o, [r EXCEPT !.evidence = @ \cup {p}], t)

Median(share) ==
  CHOOSE m \in {share[j] : j \in DOMAIN share} :
    /\ Cardinality({j \in DOMAIN share : share[j] < m}) <= 1
    /\ Cardinality({j \in DOMAIN share : share[j] > m}) <= 1

Agreeing(share) ==
  \A i, j \in DOMAIN share : share[i] - share[j] <= 1000

\* The books after the panel was paid its fees out of the reserves of r.
PayPanel(r) ==
  [a \in Accounts |->
     CASE a = r.buyer ->
            [accounts[a] EXCEPT !.held = @ - BuyerFee(r.buyer, r.provider, r.round)]
       [] a = r.provider ->
            [accounts[a] EXCEPT !.held = @ - ProviderFee(r.buyer, r.provider, r.round)]
       [] a \in Panel(r.buyer, r.provider, r.round) ->
            [accounts[a] EXCEPT !.available = @ + Fee[a], !.earned = @ + Fee[a]]
       [] OTHER -> accounts[a]]

\* A ruling of the whole panel: share[j] is what judge j signed.
Rule(p, o, t) ==
  LET r        == Charged(o)
      buyer    == BuyerFee(r.buyer, r.provider, r.round)
      provider == ProviderFee(r.buyer, r.provider, r.round)
  IN  /\ OrderAction(p, o)
      /\ r.status = "disputed"
      /\ r.evidence = {r.buyer, r.provider}
      /\ t < r.caseUntil
      /\ r.buyerReserve >= buyer /\ r.providerReserve >= provider
      /\ \E share \in [Panel(r.buyer, r.provider, r.round) -> Shares] :
           /\ Agreeing(share)
           /\ orders' = [orders EXCEPT ![o] =
                [r EXCEPT !.status = "ruling_ready", !.ruling = Median(share),
                          !.waivers = {}, !.appealUntil = t + AppealWindow,
                          !.buyerReserve = @ - buyer, !.providerReserve = @ - provider]]
      /\ accounts' = PayPanel(r)
      /\ Applied(t)
      /\ UNCHANGED <<listings, proposals, issued, rewards>>

AnyParty(p, r) == TRUE
HasNotWaived(p, r) == p \notin r.waivers

Appeal(p, o, t) ==
  LET r == Charged(o)
  IN  /\ OrderAction(p, o)
      /\ r.status = "ruling_ready" /\ r.round = 0
      /\ HasNotWaived(p, r)
      /\ t < r.appealUntil
      /\ Becomes(o, OpenCase(r, 1, t), t)

Waive(p, o, t) ==
  LET r == Charged(o)
  IN  /\ OrderAction(p, o)
      /\ r.status = "ruling_ready"
      /\ p \notin r.waivers
      /\ Becomes(o, [r EXCEPT !.waivers = @ \cup {p}], t)

OneWaiver(r) == r.waivers # {}
BothWaived(r) == Cardinality(r.waivers) = 2

Finalize(p, o, t) ==
  LET r == Charged(o)
  IN  /\ OrderAction(p, o)
      /\ r.status = "ruling_ready"
      /\ t >= r.appealUntil \/ BothWaived(r)
      /\ Close(p, o, r, (r.price * r.ruling) \div 10000, "resolved", t)

ForgetRuling(r) ==
  IF r.status = "ruling_ready" THEN r.ruling
  ELSE IF r.revisions > 0 THEN 5000 ELSE 0

\* The share a disputed order pays when its window has run out.
TimeoutShare(r) ==
  IF r.status = "ruling_ready" \/ r.round = 1 THEN r.ruling
  ELSE IF r.revisions > 0 THEN 5000 ELSE 0

UndisputedOnly(r, t) == r.status \in {"working", "delivered"} /\ t >= Deadline(r)
WindowOver(r, t) == t >= Deadline(r)

Timeout(p, o, t) ==
  LET r == Charged(o)
  IN  /\ OrderAction(p, o)
      /\ WindowOver(r, t)
      /\ \/ r.status = "working"   /\ Close(p, o, r, 0, "refunded", t)
         \/ r.status = "delivered" /\ Close(p, o, r, r.price, "accepted", t)
         \/ /\ r.status \in {"disputed", "ruling_ready"}
            /\ Close(p, o, r, (r.price * TimeoutShare(r)) \div 10000, "resolved", t)

----------------------------------------------------------------------------
AdmissionStep ==
  \E t \in time..MaxAdmissionTime, p \in Traders :
    \/ Profile(p, t)
    \/ \E d \in Devices, allowed \in BOOLEAN : Device(p, d, allowed, t)
    \/ \E q \in Accounts, v \in Prices : Transfer(p, q, v, t)
    \/ \E kind \in Kinds : Listing(p, kind, t)
    \/ \E l \in DOMAIN listings : Withdraw(p, l, t)
    \/ \E l \in DOMAIN listings, price \in Prices : Propose(p, l, price, t)
    \/ \E x \in DOMAIN proposals : Agree(p, x, t)
    \/ \E j \in Jobs : Reward(p, j, t)

OrderStep ==
  \E t \in time..MaxTime, o \in DOMAIN orders : \E p \in Parties(o) :
    \/ Deliver(p, o, t)
    \/ Accept(p, o, t)
    \/ Refund(p, o, t)
    \/ Dispute(p, o, t)
    \/ Evidence(p, o, t)
    \/ Rule(p, o, t)
    \/ Appeal(p, o, t)
    \/ Waive(p, o, t)
    \/ Finalize(p, o, t)
    \/ Timeout(p, o, t)

Next == AdmissionStep \/ OrderStep

Spec == Init /\ [][Next]_vars

----------------------------------------------------------------------------
\* Type invariant; the balances of every account stay non-negative, which is
\* the trailing "exchange_balance_invariant" assertion of apply().
TypeOK ==
  /\ accounts \in [Accounts -> [available : Nat, held : Nat, earned : Nat, profile : BOOLEAN,
                                devices : SUBSET Devices, admissions : 0..MaxAccountAdmissions]]
  /\ listings \in Seq([owner : Traders, kind : Kinds, active : BOOLEAN])
  /\ proposals \in Seq([listing : DOMAIN listings, buyer : Accounts, provider : Accounts,
                        by : Traders, price : Prices, status : {"offered", "accepted"}])
  /\ \A o \in DOMAIN orders :
       /\ Parties(o) \subseteq Accounts /\ orders[o].buyer # orders[o].provider
       /\ orders[o].price \in Nat
       /\ orders[o].evidence \cup orders[o].refunds \cup orders[o].waivers \subseteq Parties(o)
  /\ issued \in 0..IssuanceLimit /\ ops \in 0..MaxOperations /\ time \in Nat
  /\ rewards \in [Jobs -> Traders \cup {Nobody}]

\* The credits on all accounts are the credits issued: the
\* "exchange_supply_invariant" assertion of apply() is never tripped, through
\* every split of judge fees and every settlement.
SupplyConserved ==
  Total([p \in Accounts |-> accounts[p].available + accounts[p].held], Accounts) = issued

\* What is held on account p for the open order o.
Bond(p, o) ==
  CASE p = orders[o].buyer    -> orders[o].price + orders[o].buyerReserve
    [] p = orders[o].provider -> orders[o].providerReserve
    [] OTHER                  -> 0

\* Credits are held exactly for the open orders of their owner: nothing is
\* stranded when an order closes, nothing is released twice, and the unhold()
\* of a settlement is always covered.
EscrowBacked ==
  \A p \in Accounts :
    accounts[p].held = Total([o \in OpenOrders |-> Bond(p, o)], OpenOrders)

\* A dispute in progress can always pay its panel: the reserves taken by agree
\* cover both rounds, and rule never fails for lack of them.
FeesReserved ==
  \A o \in OpenOrders :
    LET r == orders[o] IN
    r.status = "disputed" =>
      /\ r.buyerReserve    >= BuyerFee(r.buyer, r.provider, r.round)
      /\ r.providerReserve >= ProviderFee(r.buyer, r.provider, r.round)

\* The books balance at every height: no credit is made or lost by fees and
\* settlements, exactly the bonds of open orders are held, and an open dispute can
\* pay its next panel (execute, Order.hold, Order.settle, the assertions of apply).
BooksBalance == SupplyConserved /\ EscrowBacked /\ FeesReserved

\* No sequence of order commands uses up the lifecycle reserve of an open order
\* ("exchange_order_capacity"): a settling command is always left.
LifecycleBudget == \A o \in OpenOrders : orders[o].remaining > 0

\* The operations promised to open orders always fit in the log: admissions,
\* however many, never crowd out a settlement ("exchange_admission_exhausted"
\* is met by new commands only).
CapacityReserved == ops + Reserved <= MaxOperations

\* Whatever admissions and commands of other orders fill the log, an open order can
\* still be settled: a command is left of its own reserve, and room for all the
\* reserves is left in the log (admission checks of execute and agree).
RoomToSettle == LifecycleBudget /\ CapacityReserved

\* Every closed order was settled as the covenant says: a delivery is paid in
\* full, an undelivered order or a joint refund pays nothing, a dispute pays the
\* ruled share; without any ruling an equal split, or nothing if undelivered;
\* an unresolved appeal keeps the first ruling.
SettlementFollowsRules ==
  \A o \in DOMAIN orders :
    LET r     == orders[o]
        share == IF r.ruling # Unset THEN r.ruling ELSE IF r.revisions > 0 THEN 5000 ELSE 0
    IN  /\ r.status = "accepted" => r.revisions > 0 /\ r.paid = r.price /\ r.round = Unset
        /\ r.status = "refunded" =>
             r.paid = 0 /\ (r.refunds = Parties(o) \/ (r.revisions = 0 /\ r.round = Unset))
        /\ r.status = "resolved" =>
             r.round # Unset /\ r.paid = (r.price * share) \div 10000

\* An order closes before its running window ends only with the consent of the
\* party the window protects: the buyer accepts, both ask for the refund, or
\* both waive the appeal of the ruling in force.
EarlyCloseNeedsConsent ==
  \A o \in DOMAIN orders \ OpenOrders :
    LET r == orders[o] IN
    \/ r.refunds = Parties(o)
    \/ r.closedAt >= Deadline([r EXCEPT !.status = r.closedFrom])
    \/ r.closedFrom = "delivered" /\ r.closedBy = r.buyer
    \/ r.closedFrom = "ruling_ready" /\ r.waivers = Parties(o)

\* Once both parties waived their appeal, the ruling in force is the one that
\* settles the order, or they refund it together; it is never reopened.
WaiversBind ==
  \A o \in DOMAIN orders :
    (orders[o].status = "ruling_ready" /\ orders[o].waivers = Parties(o)) =>
      /\ orders'[o].status \in {"ruling_ready", "resolved", "refunded"}
      /\ orders'[o].ruling = orders[o].ruling
      /\ orders'[o].waivers = orders[o].waivers

\* An order closes by the covenant and in no other way: with the share its state
\* gives, early only by consent, and never against two waivers (settle, timeout,
\* finalize, waive of rules.py).
ClosedByRules ==
  [][SettlementFollowsRules' /\ EarlyCloseNeedsConsent' /\ WaiversBind]_vars

----------------------------------------------------------------------------
\* The trader Diligent keeps settling what is due; the other parties, who may
\* refuse to cooperate, are not assumed to do anything.
DiligentTimeout(o) ==
  o \in DOMAIN orders /\ \E t \in time..MaxTime : Timeout(Diligent, o, t)

FairSpec == Spec /\ \A o \in 1..MaxProposals : WF_vars(DiligentTimeout(o))

\* Every order of a trader who keeps timing out expired windows is closed in
\* the end, whatever the counterparty and the judges do or fail to do.
OrdersSettle ==
  \A o \in 1..MaxProposals :
    (o \in DOMAIN orders /\ Diligent \in Parties(o)) ~> (o \in DOMAIN orders /\ ~Open(o))
=============================================================================
