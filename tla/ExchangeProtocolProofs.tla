----------------------- MODULE ExchangeProtocolProofs ----------------------
(***************************************************************************)
(* The books of the exchange balance, every open order can be settled, and *)
(* orders close only as the covenant says, for any traders, judges, fees,  *)
(* prices and windows.                                                     *)
(*                                                                         *)
(* Most of the invariant speaks of one order at a time (OrderOK): the      *)
(* stage it is in fixes its round, its ruling and what is left of its      *)
(* reserves, and bounds the operations it has used.  The rest relates the  *)
(* orders to the accounts and to the log: what is held is what open orders *)
(* bond, what exists is what was issued, and what is promised fits.        *)
(***************************************************************************)
EXTENDS ExchangeProtocol

Stages == {"working", "delivered", "disputed", "ruling_ready", "accepted", "refunded", "resolved"}

Closers      == Accounts \cup {Nobody}
ClosedStages == Stages \cup {"none"}

AccountType == [available : Nat, held : Nat, earned : Nat, profile : BOOLEAN,
                devices : SUBSET Devices, admissions : 0..MaxAccountAdmissions]

ListingType == [owner : Traders, kind : Kinds, active : BOOLEAN]

Answers == {"offered", "accepted"}

ProposalType == [listing : Nat, buyer : Accounts, provider : Accounts, by : Traders,
                 price : Prices, status : Answers]

OrderType ==
  [buyer : Accounts, provider : Accounts, price : Nat, buyerReserve : Nat, providerReserve : Nat,
   status : Stages, round : {Unset, 0, 1}, ruling : Int, paid : Int,
   evidence : SUBSET Accounts, refunds : SUBSET Accounts, waivers : SUBSET Accounts,
   deliveryUntil : Int, reviewUntil : Int, caseUntil : Int, appealUntil : Int,
   remaining : Int, revisions : Nat,
   closedBy : Closers, closedAt : Int, closedFrom : ClosedStages]

Both(r) == {r.buyer, r.provider}

\* The operations that an open order in the stage of r can have used.
Spent(r) ==
  r.revisions + Cardinality(r.refunds) +
    (CASE r.status \in {"working", "delivered"}         -> 0
       [] r.status = "disputed"     /\ r.round = 0 -> 1 + Cardinality(r.evidence)
       [] r.status = "ruling_ready" /\ r.round = 0 -> 4 + Cardinality(r.waivers)
       [] r.status = "disputed"     /\ r.round = 1 -> 6 + Cardinality(r.evidence)
       [] OTHER                                    -> 9 + Cardinality(r.waivers))

\* What an open order still reserves for fees: the rounds that are not yet paid.
ReservesLeft(r) ==
  LET first  == r.round = Unset \/ (r.status = "disputed" /\ r.round = 0)
      second == (r.status = "ruling_ready" /\ r.round = 0) \/ (r.status = "disputed" /\ r.round = 1)
  IN  /\ r.buyerReserve =
           (IF first THEN BuyerFee(r.buyer, r.provider, 0) ELSE 0)
             + (IF first \/ second THEN BuyerFee(r.buyer, r.provider, 1) ELSE 0)
      /\ r.providerReserve =
           (IF first THEN ProviderFee(r.buyer, r.provider, 0) ELSE 0)
             + (IF first \/ second THEN ProviderFee(r.buyer, r.provider, 1) ELSE 0)

\* The stage of an open order fixes its round, and whether it was delivered or ruled.
StageOK(r) ==
  /\ r.status = "working"   => r.round = Unset /\ r.revisions = 0
  /\ r.status = "delivered" => r.round = Unset /\ r.revisions > 0
  /\ r.round = Unset => r.status \in {"working", "delivered"}
  /\ r.round # Unset => PanelAvailable(r.buyer, r.provider)
  /\ r.ruling # Unset <=> r.status = "ruling_ready" \/ r.round = 1

\* How a closed order was paid, and why it could close when it did.
PaidByRules(r) ==
  LET share == IF r.ruling # Unset THEN r.ruling ELSE IF r.revisions > 0 THEN 5000 ELSE 0
  IN  /\ r.status = "accepted" => r.revisions > 0 /\ r.paid = r.price /\ r.round = Unset
      /\ r.status = "refunded" =>
           r.paid = 0 /\ (r.refunds = Both(r) \/ (r.revisions = 0 /\ r.round = Unset))
      /\ r.status = "resolved" => r.round # Unset /\ r.paid = (r.price * share) \div 10000

ClosedInTime(r) ==
  \/ r.refunds = Both(r)
  \/ r.closedAt >= Deadline([r EXCEPT !.status = r.closedFrom])
  \/ r.closedFrom = "delivered" /\ r.closedBy = r.buyer
  \/ r.closedFrom = "ruling_ready" /\ r.waivers = Both(r)

Running(r) == r.status \notin Terminal

OrderOK(r) ==
  /\ r \in OrderType /\ r.buyer # r.provider
  /\ r.evidence \subseteq Both(r) /\ r.refunds \subseteq Both(r) /\ r.waivers \subseteq Both(r)
  /\ Running(r) =>
       /\ StageOK(r) /\ ReservesLeft(r)
       /\ r.refunds # Both(r) /\ r.revisions <= MaxRevisions
       /\ r.remaining >= OrderReserve - Spent(r)
  /\ ~Running(r) => PaidByRules(r) /\ ClosedInTime(r)

\* Offers stand between two accounts, on a listing that exists.
OffersOK ==
  /\ listings \in Seq(ListingType)
  /\ proposals \in Seq(ProposalType)
  /\ \A x \in DOMAIN proposals :
       /\ proposals[x].listing \in DOMAIN listings
       /\ proposals[x].buyer # proposals[x].provider

BooksTyped ==
  /\ accounts \in [Accounts -> AccountType]
  /\ issued \in 0..IssuanceLimit /\ ops \in Nat /\ time \in Nat
  /\ rewards \in [Jobs -> Traders \cup {Nobody}]

OrdersOK == orders \in Seq(OrderType) /\ \A o \in DOMAIN orders : OrderOK(orders[o])

ProtocolInv ==
  BooksTyped /\ OffersOK /\ OrdersOK /\ CapacityReserved /\ EscrowBacked /\ SupplyConserved
----------------------------------------------------------------------------
\* The constants of the exchange have their types.
LEMMA Constants ==
  /\ Prices \subseteq Nat /\ Shares \subseteq Int /\ Unset \notin Shares
  /\ WorkReward \in Nat /\ IssuanceLimit \in Nat /\ OrderReserve \in Nat /\ MaxRevisions \in Nat
  /\ MaxOperations \in Nat /\ MaxAccountAdmissions \in Nat /\ OrderReserve >= MaxRevisions + 13
  /\ MaxTime \in Nat /\ MaxAdmissionTime \in Nat
  /\ DeliveryWindow \in Nat /\ ReviewWindow \in Nat /\ CaseWindow \in Nat /\ AppealWindow \in Nat
<1>1. \A s \in Shares : s \in Int /\ 0 <= s
  BY ProtocolAssumption
<1>2. Shares \subseteq Int /\ Unset \notin Shares
  BY <1>1 DEF Unset
<1> QED BY <1>2, ProtocolAssumption

\* There are finitely many accounts and judges.
LEMMA FiniteAccounts == IsFiniteSet(Accounts) /\ IsFiniteSet(JudgeSet) /\ JudgeSet \subseteq Accounts
<1>1. Judges \in Seq(JudgeSet) /\ IsFiniteSet(Traders)
  BY PeopleAssumption
<1>2. PICK n \in Nat : DOMAIN Judges = 1..n
  <2>1. Len(Judges) \in Nat /\ DOMAIN Judges = 1..Len(Judges)
    BY <1>1
  <2> QED BY <2>1
<1>3. IsFiniteSet(DOMAIN Judges)
  <2>1. 1 \in Int /\ n \in Int
    OBVIOUS
  <2> QED BY <1>2, <2>1, FS_Interval
<1>4. [i \in DOMAIN Judges |-> Judges[i]] \in Surjection(DOMAIN Judges, JudgeSet)
  BY DEF JudgeSet, Surjection
<1>5. IsFiniteSet(JudgeSet)
  BY <1>3, <1>4, FS_Surjection
<1> QED BY <1>1, <1>5, FS_Union DEF Accounts

\* A panel is made of judges that are not parties, and its fee splits exactly.
LEMMA PanelFees ==
  ASSUME NEW b, NEW p, NEW r
  PROVE  /\ Panel(b, p, r) \subseteq JudgeSet \ {b, p}
         /\ Amounting(Fee, Panel(b, p, r))
         /\ RoundFee(b, p, r) \in Nat /\ BuyerFee(b, p, r) \in Nat /\ ProviderFee(b, p, r) \in Nat
         /\ BuyerFee(b, p, r) + ProviderFee(b, p, r) = RoundFee(b, p, r)
<1>1. Panel(b, p, r) \subseteq JudgeSet \ {b, p}
  BY DEF Panel, Eligible, JudgeSet
<1>2. IsFiniteSet(Panel(b, p, r))
  BY <1>1, FiniteAccounts, FS_Subset
<1>3. \A j \in Panel(b, p, r) : Fee[j] \in Nat
  BY <1>1, PeopleAssumption
<1>4. Amounting(Fee, Panel(b, p, r))
  BY <1>2, <1>3 DEF Amounting
<1>5. RoundFee(b, p, r) \in Nat
  BY <1>4, TotalType DEF RoundFee
<1>6. \A n \in Nat : (n + 1) \div 2 \in Nat /\ n \div 2 \in Nat /\ (n + 1) \div 2 + n \div 2 = n
  OBVIOUS
<1> QED BY <1>1, <1>4, <1>5, <1>6 DEF BuyerFee, ProviderFee

\* A set of at most three.
Trio(P) == \E x, y, z : P = {x, y, z}

\* Every rank up to the number of eligible judges is taken, so a round of three has
\* (at most) three judges.
LEMMA RoundOfThree ==
  ASSUME NEW b, NEW p, NEW r \in {0, 1}, PanelAvailable(b, p)
  PROVE  Trio(Panel(b, p, r))
<1> DEFINE E == Eligible(b, p)
           upto == [i \in E |-> {k \in E : k <= i}]
           rank == [i \in E |-> Cardinality(upto[i])]
           n == Cardinality(E)
<1>1. IsFiniteSet(E) /\ n \in Nat /\ E \subseteq Nat
  <2>1. Judges \in Seq(JudgeSet)
    BY PeopleAssumption
  <2>2. PICK m \in Nat : DOMAIN Judges = 1..m
    <3>1. Len(Judges) \in Nat /\ DOMAIN Judges = 1..Len(Judges)
      BY <2>1
    <3> QED BY <3>1
  <2>3. 1 \in Int /\ m \in Int
    OBVIOUS
  <2>4. IsFiniteSet(1..m)
    BY <2>3, FS_Interval
  <2>5. E \subseteq 1..m
    BY <2>2 DEF Eligible
  <2> QED BY <2>4, <2>5, FS_Subset, FS_CardinalityType
<1>2. n >= 6
  BY DEF PanelAvailable
<1> HIDE DEF E
<1>3. ASSUME NEW i \in E
      PROVE  /\ IsFiniteSet(upto[i]) /\ rank[i] = Cardinality(upto[i]) /\ rank[i] \in 1..n
  <2>1. upto[i] \in SUBSET E /\ i \in upto[i]
    BY <1>1
  <2> HIDE DEF upto
  <2>2. IsFiniteSet(upto[i]) /\ Cardinality(upto[i]) <= n
    BY <1>1, <2>1, FS_Subset
  <2>3. Cardinality(upto[i]) \in Nat /\ Cardinality(upto[i]) # 0
    BY <2>1, <2>2, FS_CardinalityType, FS_EmptySet
  <2> QED BY <1>1, <2>2, <2>3
<1>4. ASSUME NEW i \in E, NEW j \in E, i < j PROVE rank[i] # rank[j]
  <2>0. i \in Nat /\ j \in Nat /\ \A k \in E : k \in Nat
    BY <1>1
  <2>a. j <= j /\ ~(j <= i) /\ \A k \in E : k <= i => k <= j
    BY <1>4, <2>0
  <2>1. upto[i] \in SUBSET upto[j] /\ j \in upto[j] /\ j \notin upto[i]
    BY <2>a
  <2> HIDE DEF upto
  <2>2. Cardinality(upto[j]) # Cardinality(upto[i])
    BY <1>3, <2>1, FS_Subset
  <2> QED BY <1>3, <2>2
<1> HIDE DEF rank, upto
<1>5. rank \in Injection(E, 1..n)
  <2>1. rank = [i \in E |-> rank[i]]
    BY DEF rank
  <2>2. rank \in [E -> 1..n]
    BY <1>3, <2>1
  <2>3. \A i, j \in E : rank[i] = rank[j] => i = j
    <3> SUFFICES ASSUME NEW i \in E, NEW j \in E, rank[i] = rank[j] PROVE i = j
      OBVIOUS
    <3>1. i \in Nat /\ j \in Nat
      BY <1>1
    <3>2. ~(i < j) /\ ~(j < i)
      BY <1>4
    <3> QED BY <3>1, <3>2
  <2> QED BY <2>2, <2>3 DEF Injection, IsInjective
<1>6. IsFiniteSet(1..n) /\ Cardinality(1..n) = n
  <2>1. 1 \in Int /\ n \in Int
    BY <1>1
  <2>2. IsFiniteSet(1..n) /\ Cardinality(1..n) = IF 1 > n THEN 0 ELSE n - 1 + 1
    BY <2>1, FS_Interval
  <2> QED BY <1>1, <2>2
<1>7. rank \in Surjection(E, 1..n)
  BY <1>5, <1>6, FS_Injection
<1>8. \A k \in 1..n : \E i \in E : rank[i] = k
  BY <1>7 DEF Surjection
<1>9. {3 * r + 1, 3 * r + 2, 3 * r + 3} \subseteq 1..n
  BY <1>1, <1>2
<1>10. PICK x \in E, y \in E, z \in E :
         rank[x] = 3 * r + 1 /\ rank[y] = 3 * r + 2 /\ rank[z] = 3 * r + 3
  BY <1>8, <1>9
<1>11. \A i \in E : rank[i] \in (3 * r + 1)..(3 * r + 3) <=> i \in {x, y, z}
  <2>1. \A i \in E : rank[i] \in (3 * r + 1)..(3 * r + 3)
                      <=> rank[i] \in {3 * r + 1, 3 * r + 2, 3 * r + 3}
    BY <1>3
  <2> QED BY <1>5, <1>10, <2>1 DEF Injection, IsInjective
<1>12. \A i \in E : rank[i] = Rank(b, p, i)
  BY DEF rank, upto, Rank, E
<1>13. {k \in E : Rank(b, p, k) \in (3 * r + 1)..(3 * r + 3)} = {x, y, z}
  BY <1>10, <1>11, <1>12
<1>14. Panel(b, p, r) = {Judges[x], Judges[y], Judges[z]}
  BY <1>13 DEF Panel, E
<1> QED BY <1>14 DEF Trio

\* At most one judge signed less than m, and at most one signed more.
Middle(share, m) ==
  /\ Cardinality({j \in DOMAIN share : share[j] < m}) <= 1
  /\ Cardinality({j \in DOMAIN share : share[j] > m}) <= 1

\* Among three, a share that lies between two others is the median.
LEMMA Between ==
  ASSUME NEW P, NEW x, NEW y, NEW z, P = {x, y, z}, NEW share \in [P -> Shares],
         share[x] <= share[y], share[y] <= share[z]
  PROVE  Middle(share, share[y])
<1>1. \A j \in P : share[j] \in Int
  BY Constants
<1>2. {j \in DOMAIN share : share[j] < share[y]} \in SUBSET {x}
  BY <1>1
<1>3. {j \in DOMAIN share : share[j] > share[y]} \in SUBSET {z}
  BY <1>1
<1>4. \A u : IsFiniteSet({u}) /\ Cardinality({u}) = 1
  BY FS_Singleton
<1>5. ASSUME NEW u, NEW T \in SUBSET {u} PROVE Cardinality(T) <= 1
  <2>1. IsFiniteSet({u}) /\ Cardinality({u}) = 1
    BY <1>4
  <2>2. Cardinality(T) <= Cardinality({u})
    BY <2>1, FS_Subset
  <2> QED BY <2>1, <2>2
<1> QED BY <1>2, <1>3, <1>5 DEF Middle

\* A panel of three has a median, which is a share that some judge signed.
LEMMA MedianType ==
  ASSUME NEW P, Trio(P), NEW share \in [P -> Shares]
  PROVE  Median(share) \in Shares
<1>1. PICK x, y, z : P = {x, y, z}
  BY DEF Trio
<1>2. share[x] \in Int /\ share[y] \in Int /\ share[z] \in Int
  BY <1>1, Constants
<1>3. /\ {x, y, z} = {x, z, y} /\ {x, y, z} = {y, x, z} /\ {x, y, z} = {y, z, x}
      /\ {x, y, z} = {z, x, y} /\ {x, y, z} = {z, y, x}
  OBVIOUS
<1>4. ASSUME NEW u, NEW v, NEW w, P = {u, v, w}, share[u] <= share[v], share[v] <= share[w]
      PROVE  Middle(share, share[v])
  BY <1>4, Between
<1>5. \/ Middle(share, share[x]) \/ Middle(share, share[y]) \/ Middle(share, share[z])
  <2>1. CASE share[x] <= share[y] /\ share[y] <= share[z]
    BY <1>1, <1>4, <2>1
  <2>2. CASE share[x] <= share[z] /\ share[z] <= share[y]
    BY <1>1, <1>3, <1>4, <2>2
  <2>3. CASE share[y] <= share[x] /\ share[x] <= share[z]
    BY <1>1, <1>3, <1>4, <2>3
  <2>4. CASE share[y] <= share[z] /\ share[z] <= share[x]
    BY <1>1, <1>3, <1>4, <2>4
  <2>5. CASE share[z] <= share[x] /\ share[x] <= share[y]
    BY <1>1, <1>3, <1>4, <2>5
  <2>6. CASE share[z] <= share[y] /\ share[y] <= share[x]
    BY <1>1, <1>3, <1>4, <2>6
  <2> QED BY <1>2, <2>1, <2>2, <2>3, <2>4, <2>5, <2>6
<1>6. \E m \in {share[j] : j \in DOMAIN share} : Middle(share, m)
  BY <1>1, <1>5
<1>7. Median(share) \in {share[j] : j \in DOMAIN share}
  BY <1>6 DEF Median, Middle
<1> QED BY <1>7

\* Sets of parties: none, one or both.
LEMMA PartyCount ==
  ASSUME NEW b, NEW p, b # p, NEW S \in SUBSET {b, p}
  PROVE  /\ Cardinality(S) \in 0..2
         /\ Cardinality(S) = 2 <=> S = {b, p}
         /\ IsFiniteSet(S)
<1>1. /\ IsFiniteSet({}) /\ Cardinality({}) = 0
      /\ IsFiniteSet({b}) /\ Cardinality({b}) = 1
      /\ IsFiniteSet({p}) /\ Cardinality({p}) = 1
  BY FS_EmptySet, FS_Singleton
<1>2. IsFiniteSet({b, p}) /\ Cardinality({b, p}) = 2
  <2>1. {b} \cup {p} = {b, p} /\ p \notin {b}
    OBVIOUS
  <2>2. IsFiniteSet({b} \cup {p}) /\ Cardinality({b} \cup {p}) = Cardinality({b}) + 1
    BY <1>1, <2>1, FS_AddElement
  <2>3. Cardinality({b}) + 1 = 2
    BY <1>1
  <2>4. IsFiniteSet({b, p}) /\ Cardinality({b, p}) = Cardinality({b}) + 1
    BY <2>1, <2>2
  <2> QED BY <2>3, <2>4
<1>3. S \in {{}, {b}, {p}, {b, p}}
  OBVIOUS
<1>4. Cardinality(S) \in 0..2 /\ (Cardinality(S) = 2 <=> S = {b, p}) /\ IsFiniteSet(S)
  <2>1. CASE S = {}
    BY <1>1, <2>1
  <2>2. CASE S = {b}
    BY <1>1, <2>2
  <2>3. CASE S = {p}
    BY <1>1, <2>3
  <2>4. CASE S = {b, p}
    BY <1>2, <2>4
  <2> QED BY <1>3, <2>1, <2>2, <2>3, <2>4
<1> QED BY <1>4
----------------------------------------------------------------------------
\* One operation of order r is used up.
Use1(r) == [r EXCEPT !.remaining = @ - 1]

\* Order r became n by an order action that moves no credits.
Advanced(r, n) ==
  /\ OrderOK(n) /\ Running(n)
  /\ n.buyer = r.buyer /\ n.provider = r.provider /\ n.price = r.price
  /\ n.buyerReserve = r.buyerReserve /\ n.providerReserve = r.providerReserve
  /\ n.remaining = r.remaining - 1

\* The parties that have asked for a refund, given evidence or waived: none, one or
\* both, and one more when another joins them.
LEMMA OrderCounts ==
  ASSUME NEW r, OrderOK(r), NEW S \in SUBSET Both(r)
  PROVE  Cardinality(S) \in 0..2 /\ (Cardinality(S) = 2 <=> S = Both(r))
<1>1. PICK b, p : b = r.buyer /\ p = r.provider
  OBVIOUS
<1>2. b # p /\ Both(r) = {b, p}
  BY <1>1 DEF OrderOK, Both
<1>3. S \in SUBSET {b, p}
  BY <1>2
<1>4. Cardinality(S) \in 0..2 /\ (Cardinality(S) = 2 <=> S = {b, p})
  BY <1>2, <1>3, PartyCount
<1> QED BY <1>2, <1>4

LEMMA Joining ==
  ASSUME NEW r, OrderOK(r), NEW S \in SUBSET Both(r), NEW q \in Both(r), q \notin S
  PROVE  /\ Cardinality(S \cup {q}) = Cardinality(S) + 1
         /\ S \cup {q} \in SUBSET Accounts /\ S \cup {q} \in SUBSET Both(r)
<1>1. PICK b \in Accounts, p \in Accounts : b = r.buyer /\ p = r.provider
  BY DEF OrderOK, OrderType
<1>2. b # p /\ Both(r) = {b, p}
  BY <1>1 DEF OrderOK, Both
<1>3. S \in SUBSET {b, p} /\ q \in {b, p}
  BY <1>2
<1>a. IsFiniteSet(S)
  BY <1>2, <1>3, PartyCount
<1>4. Cardinality(S \cup {q}) = Cardinality(S) + 1
  BY <1>a, FS_AddElement
<1> QED BY <1>2, <1>3, <1>4

LEMMA PartySets ==
  ASSUME NEW r, OrderOK(r)
  PROVE  /\ r.evidence \in SUBSET Both(r) /\ r.refunds \in SUBSET Both(r)
         /\ r.waivers \in SUBSET Both(r)
BY DEF OrderOK

\* The counts are what Spent adds up.
LEMMA SpentType ==
  ASSUME NEW r, OrderOK(r), Running(r)
  PROVE  /\ Spent(r) \in Int /\ r.remaining \in Int /\ r.revisions \in Nat
         /\ Cardinality(r.refunds) \in 0..1
         /\ Cardinality(r.evidence) \in 0..2 /\ Cardinality(r.waivers) \in 0..2
         /\ Spent(r) <= MaxRevisions + 12
<1>1. r \in OrderType /\ r.remaining \in Int /\ r.revisions \in Nat /\ r.revisions <= MaxRevisions
      /\ r.round \in {Unset, 0, 1} /\ StageOK(r) /\ r.status \in Stages \ Terminal
  BY DEF OrderOK, OrderType, Running
<1>2. /\ Cardinality(r.refunds) \in 0..1 /\ Cardinality(r.evidence) \in 0..2
      /\ Cardinality(r.waivers) \in 0..2
  <2>1. r.refunds # Both(r)
    BY DEF OrderOK
  <2>2. Cardinality(r.refunds) \in 0..2 /\ Cardinality(r.refunds) # 2
    BY <2>1, PartySets, OrderCounts
  <2>3. Cardinality(r.evidence) \in 0..2 /\ Cardinality(r.waivers) \in 0..2
    BY PartySets, OrderCounts
  <2> QED BY <2>2, <2>3
<1>3. PICK c \in 0..11 : Spent(r) = r.revisions + Cardinality(r.refunds) + c
  BY <1>1, <1>2 DEF Spent, StageOK, Stages, Terminal
<1> QED BY <1>1, <1>2, <1>3, Constants

\* A delivery, the first one or a revision.
LEMMA DeliverOK ==
  ASSUME NEW r, OrderOK(r), Running(r), NEW until \in Int,
         r.status \in {"working", "delivered"}, r.revisions < MaxRevisions
  PROVE  Advanced(r, [Use1(r) EXCEPT !.status = "delivered", !.revisions = @ + 1,
                                     !.reviewUntil = until])
<1> DEFINE n == [Use1(r) EXCEPT !.status = "delivered", !.revisions = @ + 1, !.reviewUntil = until]
<1>1. r \in OrderType /\ r.remaining \in Int /\ r.revisions \in Nat
  BY DEF OrderOK, OrderType
<1>2. PICK m \in Int, v \in Nat : m = r.remaining - 1 /\ v = r.revisions + 1
  BY <1>1
<1>3. n = [r EXCEPT !.remaining = m, !.status = "delivered", !.revisions = v, !.reviewUntil = until]
  BY <1>1, <1>2 DEF Use1, OrderType
<1>4. /\ n \in OrderType /\ n.remaining = m /\ n.status = "delivered" /\ n.revisions = v
      /\ n.buyer = r.buyer /\ n.provider = r.provider /\ n.price = r.price
      /\ n.buyerReserve = r.buyerReserve /\ n.providerReserve = r.providerReserve
      /\ n.round = r.round /\ n.ruling = r.ruling /\ n.evidence = r.evidence
      /\ n.refunds = r.refunds /\ n.waivers = r.waivers
  BY <1>1, <1>3 DEF OrderType, Stages
<1> HIDE DEF n
<1>5. Running(n) /\ StageOK(n) /\ ReservesLeft(n)
  BY <1>1, <1>2, <1>4 DEF OrderOK, Running, Terminal, StageOK, ReservesLeft
<1>6. Spent(n) = Spent(r) + 1 /\ Spent(r) \in Int
  BY <1>1, <1>2, <1>4, SpentType DEF Spent
<1>7. OrderOK(n)
  BY <1>1, <1>2, <1>4, <1>5, <1>6, Constants DEF OrderOK, Both
<1> QED BY <1>2, <1>4, <1>5, <1>7 DEF Advanced, n

\* The consent of the first party to a refund.
LEMMA RefundOK ==
  ASSUME NEW r, OrderOK(r), Running(r), NEW p \in Both(r), p \notin r.refunds,
         Cardinality(r.refunds \cup {p}) # 2
  PROVE  Advanced(r, [Use1(r) EXCEPT !.refunds = @ \cup {p}])
<1> DEFINE n == [Use1(r) EXCEPT !.refunds = @ \cup {p}]
<1>1. r \in OrderType /\ r.remaining \in Int
  BY DEF OrderOK, OrderType
<1>a. /\ r.refunds \cup {p} \in SUBSET Accounts /\ r.refunds \cup {p} \in SUBSET Both(r)
      /\ Cardinality(r.refunds \cup {p}) = Cardinality(r.refunds) + 1
  BY PartySets, Joining
<1>b. PICK S \in SUBSET Accounts : S = r.refunds \cup {p}
  BY <1>a
<1>2. PICK m \in Int : m = r.remaining - 1
  BY <1>1
<1>3. n = [r EXCEPT !.remaining = m, !.refunds = S]
  BY <1>1, <1>b, <1>2 DEF Use1, OrderType
<1>4. /\ n \in OrderType /\ n.remaining = m /\ n.refunds = S
      /\ n.buyer = r.buyer /\ n.provider = r.provider /\ n.price = r.price
      /\ n.buyerReserve = r.buyerReserve /\ n.providerReserve = r.providerReserve
      /\ n.round = r.round /\ n.ruling = r.ruling /\ n.evidence = r.evidence
      /\ n.status = r.status /\ n.waivers = r.waivers /\ n.revisions = r.revisions
  BY <1>1, <1>3 DEF OrderType
<1> HIDE DEF n
<1>5. Running(n) /\ StageOK(n) /\ ReservesLeft(n)
  BY <1>4 DEF OrderOK, Running, StageOK, ReservesLeft
<1>6. Spent(n) = Spent(r) + 1 /\ Spent(r) \in Int
  <2>1. Cardinality(S) = Cardinality(r.refunds) + 1
    BY <1>a, <1>b
  <2> QED BY <1>1, <1>4, <2>1, SpentType DEF Spent
<1>7. S \subseteq Both(n) /\ S # Both(n)
  <2>1. Cardinality(S) # 2
    BY <1>b
  <2>2. S \subseteq Both(r) /\ S # Both(r)
    BY <1>a, <1>b, <2>1, OrderCounts
  <2> QED BY <1>4, <2>2 DEF Both
<1>8. OrderOK(n)
  BY <1>1, <1>2, <1>4, <1>5, <1>6, <1>7, Constants DEF OrderOK, Both
<1> QED BY <1>2, <1>4, <1>5, <1>8 DEF Advanced, n

\* A case: the first after a dispute, the second after an appeal.
LEMMA CaseOK ==
  ASSUME NEW r, OrderOK(r), Running(r), NEW t \in Int, NEW k \in {0, 1},
         PanelAvailable(r.buyer, r.provider),
         k = 0 => r.status \in {"working", "delivered"},
         k = 1 => r.status = "ruling_ready" /\ r.round = 0 /\ r.waivers # Both(r)
  PROVE  Advanced(r, OpenCase(Use1(r), k, t))
<1> DEFINE n == OpenCase(Use1(r), k, t)
<1>1. r \in OrderType /\ r.remaining \in Int /\ r.revisions \in Nat
  BY DEF OrderOK, OrderType
<1>2. PICK m \in Int, c \in Int : m = r.remaining - 1 /\ c = t + CaseWindow
  BY <1>1, Constants
<1>3. n = [r EXCEPT !.remaining = m, !.status = "disputed", !.round = k, !.evidence = {},
                    !.waivers = {}, !.caseUntil = c]
  BY <1>1, <1>2 DEF Use1, OrderType, OpenCase
<1>b. {} \in SUBSET Accounts /\ "disputed" \in Stages /\ k \in {Unset, 0, 1}
  BY DEF Stages
<1>4. /\ n \in OrderType /\ n.remaining = m /\ n.status = "disputed" /\ n.revisions = r.revisions
      /\ n.buyer = r.buyer /\ n.provider = r.provider /\ n.price = r.price
      /\ n.buyerReserve = r.buyerReserve /\ n.providerReserve = r.providerReserve
      /\ n.round = k /\ n.ruling = r.ruling /\ n.evidence = {}
      /\ n.refunds = r.refunds /\ n.waivers = {}
  <2>1. PICK e \in SUBSET Accounts : e = {}
    BY <1>b
  <2>2. PICK d \in Stages : d = "disputed"
    BY <1>b
  <2>3. n = [r EXCEPT !.remaining = m, !.status = d, !.round = k, !.evidence = e,
                      !.waivers = e, !.caseUntil = c]
    BY <1>3, <2>1, <2>2
  <2> HIDE DEF n
  <2>4. n \in OrderType
    BY <1>1, <1>b, <2>3 DEF OrderType
  <2> QED BY <1>1, <2>1, <2>2, <2>3, <2>4 DEF OrderType
<1> HIDE DEF n
<1>5. Running(n) /\ StageOK(n) /\ ReservesLeft(n)
  BY <1>1, <1>4 DEF OrderOK, Running, Terminal, StageOK, ReservesLeft, Unset
<1>6. Spent(n) >= Spent(r) + 1 /\ Spent(r) \in Int /\ Spent(n) \in Int
  <2>1. Cardinality({}) = 0
    BY FS_EmptySet
  <2>2. k = 1 => Cardinality(r.waivers) \in 0..1
    <3>1. Cardinality(r.waivers) \in 0..2 /\ (Cardinality(r.waivers) = 2 <=> r.waivers = Both(r))
      BY PartySets, OrderCounts
    <3> QED BY <3>1
  <2> QED BY <1>1, <1>4, <2>1, <2>2, SpentType DEF Spent
<1>7. OrderOK(n)
  BY <1>1, <1>2, <1>4, <1>5, <1>6, Constants DEF OrderOK, Both
<1> QED BY <1>2, <1>4, <1>5, <1>7 DEF Advanced, n

\* The evidence of one more party.
LEMMA EvidenceOK ==
  ASSUME NEW r, OrderOK(r), Running(r), NEW p \in Both(r), p \notin r.evidence,
         r.status = "disputed"
  PROVE  Advanced(r, [Use1(r) EXCEPT !.evidence = @ \cup {p}])
<1> DEFINE n == [Use1(r) EXCEPT !.evidence = @ \cup {p}]
<1>1. r \in OrderType /\ r.remaining \in Int /\ r.round \in {Unset, 0, 1}
  BY DEF OrderOK, OrderType
<1>a. /\ r.evidence \cup {p} \in SUBSET Accounts /\ r.evidence \cup {p} \in SUBSET Both(r)
      /\ Cardinality(r.evidence \cup {p}) = Cardinality(r.evidence) + 1
  BY PartySets, Joining
<1>b. PICK S \in SUBSET Accounts : S = r.evidence \cup {p}
  BY <1>a
<1>2. PICK m \in Int : m = r.remaining - 1
  BY <1>1
<1>3. n = [r EXCEPT !.remaining = m, !.evidence = S]
  BY <1>1, <1>b, <1>2 DEF Use1, OrderType
<1>4. /\ n \in OrderType /\ n.remaining = m /\ n.evidence = S
      /\ n.buyer = r.buyer /\ n.provider = r.provider /\ n.price = r.price
      /\ n.buyerReserve = r.buyerReserve /\ n.providerReserve = r.providerReserve
      /\ n.round = r.round /\ n.ruling = r.ruling /\ n.refunds = r.refunds
      /\ n.status = r.status /\ n.waivers = r.waivers /\ n.revisions = r.revisions
  BY <1>1, <1>3 DEF OrderType
<1> HIDE DEF n
<1>5. Running(n) /\ StageOK(n) /\ ReservesLeft(n)
  BY <1>4 DEF OrderOK, Running, StageOK, ReservesLeft
<1>6. Spent(n) = Spent(r) + 1 /\ Spent(r) \in Int
  <2>1. Cardinality(S) = Cardinality(r.evidence) + 1
    BY <1>a, <1>b
  <2>2. r.round \in {0, 1}
    BY <1>1 DEF OrderOK, StageOK
  <2> QED BY <1>1, <1>4, <2>1, <2>2, SpentType DEF Spent
<1>7. S \subseteq Both(n)
  BY <1>a, <1>b, <1>4 DEF Both
<1>8. OrderOK(n)
  BY <1>1, <1>2, <1>4, <1>5, <1>6, <1>7, Constants DEF OrderOK, Both
<1> QED BY <1>2, <1>4, <1>5, <1>8 DEF Advanced, n

\* One more party waives its appeal.
LEMMA WaiveOK ==
  ASSUME NEW r, OrderOK(r), Running(r), NEW p \in Both(r), p \notin r.waivers,
         r.status = "ruling_ready"
  PROVE  Advanced(r, [Use1(r) EXCEPT !.waivers = @ \cup {p}])
<1> DEFINE n == [Use1(r) EXCEPT !.waivers = @ \cup {p}]
<1>1. r \in OrderType /\ r.remaining \in Int /\ r.round \in {Unset, 0, 1}
  BY DEF OrderOK, OrderType
<1>a. /\ r.waivers \cup {p} \in SUBSET Accounts /\ r.waivers \cup {p} \in SUBSET Both(r)
      /\ Cardinality(r.waivers \cup {p}) = Cardinality(r.waivers) + 1
  BY PartySets, Joining
<1>b. PICK S \in SUBSET Accounts : S = r.waivers \cup {p}
  BY <1>a
<1>2. PICK m \in Int : m = r.remaining - 1
  BY <1>1
<1>3. n = [r EXCEPT !.remaining = m, !.waivers = S]
  BY <1>1, <1>b, <1>2 DEF Use1, OrderType
<1>4. /\ n \in OrderType /\ n.remaining = m /\ n.waivers = S
      /\ n.buyer = r.buyer /\ n.provider = r.provider /\ n.price = r.price
      /\ n.buyerReserve = r.buyerReserve /\ n.providerReserve = r.providerReserve
      /\ n.round = r.round /\ n.ruling = r.ruling /\ n.refunds = r.refunds
      /\ n.status = r.status /\ n.evidence = r.evidence /\ n.revisions = r.revisions
  BY <1>1, <1>3 DEF OrderType
<1> HIDE DEF n
<1>5. Running(n) /\ StageOK(n) /\ ReservesLeft(n)
  BY <1>4 DEF OrderOK, Running, StageOK, ReservesLeft
<1>6. Spent(n) = Spent(r) + 1 /\ Spent(r) \in Int
  <2>1. Cardinality(S) = Cardinality(r.waivers) + 1
    BY <1>a, <1>b
  <2>2. r.round \in {0, 1}
    BY <1>1 DEF OrderOK, StageOK
  <2> QED BY <1>1, <1>4, <2>1, <2>2, SpentType DEF Spent
<1>7. S \subseteq Both(n)
  BY <1>a, <1>b, <1>4 DEF Both
<1>8. OrderOK(n)
  BY <1>1, <1>2, <1>4, <1>5, <1>6, <1>7, Constants DEF OrderOK, Both
<1> QED BY <1>2, <1>4, <1>5, <1>8 DEF Advanced, n

\* Order r after a ruling for this share.
Ruled(r, share, t) ==
  LET buyer    == BuyerFee(r.buyer, r.provider, r.round)
      provider == ProviderFee(r.buyer, r.provider, r.round)
  IN  [Use1(r) EXCEPT !.status = "ruling_ready", !.ruling = share, !.waivers = {},
                      !.appealUntil = t + AppealWindow,
                      !.buyerReserve = @ - buyer, !.providerReserve = @ - provider]

\* A ruling pays the round out of the reserves.
LEMMA RulingOK ==
  ASSUME NEW r, OrderOK(r), Running(r), NEW t \in Int, NEW share \in Shares,
         r.status = "disputed", r.evidence = Both(r)
  PROVE  LET buyer    == BuyerFee(r.buyer, r.provider, r.round)
             provider == ProviderFee(r.buyer, r.provider, r.round)
             n == Ruled(r, share, t)
         IN  /\ OrderOK(n) /\ Running(n)
             /\ n.buyer = r.buyer /\ n.provider = r.provider /\ n.price = r.price
             /\ n.buyerReserve = r.buyerReserve - buyer
             /\ n.providerReserve = r.providerReserve - provider
             /\ n.remaining = r.remaining - 1
<1> DEFINE buyer    == BuyerFee(r.buyer, r.provider, r.round)
           provider == ProviderFee(r.buyer, r.provider, r.round)
           n == Ruled(r, share, t)
<1>1. /\ r \in OrderType /\ r.remaining \in Int /\ r.revisions \in Nat /\ r.round \in {0, 1}
      /\ r.buyerReserve \in Nat /\ r.providerReserve \in Nat
      /\ PanelAvailable(r.buyer, r.provider)
  <2>1. r \in OrderType /\ r.remaining \in Int /\ r.revisions \in Nat /\ r.round \in {Unset, 0, 1}
        /\ r.buyerReserve \in Nat /\ r.providerReserve \in Nat
    BY DEF OrderOK, OrderType
  <2> QED BY <2>1 DEF OrderOK, StageOK
<1>2. /\ \A k \in {0, 1} : BuyerFee(r.buyer, r.provider, k) \in Nat
                         /\ ProviderFee(r.buyer, r.provider, k) \in Nat
  BY PanelFees
<1>3. /\ r.buyerReserve - buyer = IF r.round = 0 THEN BuyerFee(r.buyer, r.provider, 1) ELSE 0
      /\ r.providerReserve - provider = IF r.round = 0 THEN ProviderFee(r.buyer, r.provider, 1) ELSE 0
  <2>1. ReservesLeft(r)
    BY DEF OrderOK
  <2>2. CASE r.round = 0
    BY <1>2, <2>1, <2>2 DEF ReservesLeft, Unset
  <2>3. CASE r.round = 1
    BY <1>2, <2>1, <2>3 DEF ReservesLeft, Unset
  <2> QED BY <1>1, <2>2, <2>3
<1>4. PICK x \in Nat, y \in Nat : x = r.buyerReserve - buyer /\ y = r.providerReserve - provider
  BY <1>1, <1>2, <1>3
<1>5. PICK m \in Int, c \in Int : m = r.remaining - 1 /\ c = t + AppealWindow
  BY <1>1, Constants
<1>6. PICK e \in SUBSET Accounts, d \in Stages, s \in Int :
        e = {} /\ d = "ruling_ready" /\ s = share
  BY Constants DEF Stages
<1>7. n = [r EXCEPT !.remaining = m, !.status = d, !.ruling = s, !.waivers = e,
                    !.appealUntil = c, !.buyerReserve = x, !.providerReserve = y]
  BY <1>1, <1>4, <1>5, <1>6 DEF Ruled, Use1, OrderType
<1> HIDE DEF n, buyer, provider
<1>8. n \in OrderType
  BY <1>1, <1>7 DEF OrderType
<1>9. /\ n.remaining = m /\ n.status = "ruling_ready" /\ n.revisions = r.revisions
      /\ n.buyer = r.buyer /\ n.provider = r.provider /\ n.price = r.price
      /\ n.buyerReserve = x /\ n.providerReserve = y
      /\ n.round = r.round /\ n.ruling = share /\ n.evidence = r.evidence
      /\ n.refunds = r.refunds /\ n.waivers = {}
  BY <1>1, <1>6, <1>7 DEF OrderType
<1>10. Running(n) /\ StageOK(n)
  BY <1>1, <1>9, Constants DEF Running, Terminal, StageOK, Unset
<1>11. ReservesLeft(n)
  BY <1>1, <1>2, <1>3, <1>4, <1>9 DEF ReservesLeft, Unset
<1>12. Spent(n) = Spent(r) + 1 /\ Spent(r) \in Int
  <2>1. Cardinality({}) = 0
    BY FS_EmptySet
  <2>2. Cardinality(r.evidence) = 2
    BY PartySets, OrderCounts
  <2>3. PICK g \in Int : g = Cardinality(r.refunds)
    BY SpentType
  <2>4. CASE r.round = 0
    BY <1>1, <1>9, <2>1, <2>2, <2>3, <2>4 DEF Spent
  <2>5. CASE r.round = 1
    BY <1>1, <1>9, <2>1, <2>2, <2>3, <2>5 DEF Spent
  <2> QED BY <1>1, <2>4, <2>5
<1>13. OrderOK(n)
  BY <1>1, <1>5, <1>8, <1>9, <1>10, <1>11, <1>12, Constants DEF OrderOK, Both
<1> QED BY <1>4, <1>5, <1>9, <1>10, <1>13 DEF n, buyer, provider

\* What close() makes of order r, by a command of p at time t.
Closed(r, p, paid, status, t) ==
  [r EXCEPT !.status = status, !.paid = paid, !.remaining = 0, !.buyerReserve = 0,
            !.providerReserve = 0, !.closedBy = p, !.closedAt = t, !.closedFrom = r.status]

\* A closed order keeps what its settlement is judged by.
LEMMA ClosedType ==
  ASSUME NEW r \in OrderType, NEW p \in Accounts, NEW paid \in Int, NEW status \in Terminal,
         NEW t \in Int
  PROVE  LET n == Closed(r, p, paid, status, t)
         IN  /\ n \in OrderType /\ n.status = status /\ n.paid = paid /\ ~Running(n)
             /\ n.buyer = r.buyer /\ n.provider = r.provider /\ n.price = r.price
             /\ n.round = r.round /\ n.ruling = r.ruling /\ n.revisions = r.revisions
             /\ n.evidence = r.evidence /\ n.refunds = r.refunds /\ n.waivers = r.waivers
             /\ n.closedBy = p /\ n.closedAt = t /\ n.closedFrom = r.status
             /\ r.status \in Stages \ Terminal =>
                  Deadline([n EXCEPT !.status = n.closedFrom]) = Deadline(r)
<1> DEFINE n == Closed(r, p, paid, status, t)
           w == [n EXCEPT !.status = n.closedFrom]
<1>0. r.status \in Stages /\ Terminal \subseteq Stages
  BY DEF OrderType, Stages, Terminal
<1>1. PICK f \in ClosedStages, d \in Stages, q \in Closers :
        f = r.status /\ d = status /\ q = p
  BY <1>0 DEF ClosedStages, Closers
<1>a. PICK z \in Nat, i \in Int : z = 0 /\ i = 0
  OBVIOUS
<1>2. n = [r EXCEPT !.status = d, !.paid = paid, !.remaining = i, !.buyerReserve = z,
                    !.providerReserve = z, !.closedBy = q, !.closedAt = t, !.closedFrom = f]
  BY <1>1, <1>a DEF Closed
<1> HIDE DEF n
<1>3. n \in OrderType
  BY <1>2 DEF OrderType
<1>4. /\ n.status = status /\ n.paid = paid
      /\ n.buyer = r.buyer /\ n.provider = r.provider /\ n.price = r.price
      /\ n.round = r.round /\ n.ruling = r.ruling /\ n.revisions = r.revisions
      /\ n.evidence = r.evidence /\ n.refunds = r.refunds /\ n.waivers = r.waivers
      /\ n.closedBy = p /\ n.closedAt = t /\ n.closedFrom = r.status
  BY <1>1, <1>2 DEF OrderType
<1>5. /\ n.deliveryUntil = r.deliveryUntil /\ n.reviewUntil = r.reviewUntil
      /\ n.caseUntil = r.caseUntil /\ n.appealUntil = r.appealUntil
  BY <1>2 DEF OrderType
<1>6. /\ w.status = r.status
      /\ w.deliveryUntil = n.deliveryUntil /\ w.reviewUntil = n.reviewUntil
      /\ w.caseUntil = n.caseUntil /\ w.appealUntil = n.appealUntil
  BY <1>3, <1>4 DEF OrderType
<1> HIDE DEF w
<1>7. r.status \in Stages \ Terminal => Deadline(w) = Deadline(r)
  BY <1>5, <1>6 DEF Deadline, Stages, Terminal
<1> QED BY <1>3, <1>4, <1>7 DEF Running, n, w

\* Using up an operation changes nothing else of an order.
LEMMA Use1Type ==
  ASSUME NEW r \in OrderType
  PROVE  LET u == Use1(r)
         IN  /\ u \in OrderType /\ u.status = r.status /\ u.remaining = r.remaining - 1
             /\ u.buyer = r.buyer /\ u.provider = r.provider /\ u.price = r.price
             /\ u.buyerReserve = r.buyerReserve /\ u.providerReserve = r.providerReserve
             /\ u.round = r.round /\ u.ruling = r.ruling /\ u.revisions = r.revisions
             /\ u.evidence = r.evidence /\ u.refunds = r.refunds /\ u.waivers = r.waivers
             /\ u.deliveryUntil = r.deliveryUntil /\ u.reviewUntil = r.reviewUntil
             /\ u.caseUntil = r.caseUntil /\ u.appealUntil = r.appealUntil
<1>1. PICK m \in Int : m = r.remaining - 1
  BY DEF OrderType
<1>2. Use1(r) = [r EXCEPT !.remaining = m]
  BY <1>1 DEF Use1
<1> QED BY <1>1, <1>2 DEF OrderType

\* The ways in which one party may close order u.
MayClose(u, p, paid, status, t) ==
  \/ /\ status = "accepted" /\ u.status = "delivered" /\ paid = u.price
     /\ p = u.buyer \/ t >= Deadline(u)
  \/ status = "refunded" /\ u.status = "working" /\ paid = 0 /\ t >= Deadline(u)
  \/ /\ status = "resolved" /\ u.status = "ruling_ready"
     /\ paid = (u.price * u.ruling) \div 10000
     /\ t >= u.appealUntil \/ u.waivers = Both(u)
  \/ /\ status = "resolved" /\ u.status \in {"disputed", "ruling_ready"} /\ t >= Deadline(u)
     /\ paid = (u.price * TimeoutShare(u)) \div 10000

\* An order that one party closes is closed by the rules.
LEMMA CloseOK ==
  ASSUME NEW r, OrderOK(r), Running(r), NEW p \in Accounts, NEW paid \in Int, NEW status,
         NEW t \in Int, MayClose(Use1(r), p, paid, status, t)
  PROVE  LET n == Closed(Use1(r), p, paid, status, t)
         IN  OrderOK(n) /\ ~Running(n) /\ n.buyer = r.buyer /\ n.provider = r.provider
<1> DEFINE u == Use1(r)
           n == Closed(u, p, paid, status, t)
<1>1. r \in OrderType /\ StageOK(r)
  BY DEF OrderOK
<1>2. /\ u \in OrderType /\ u.status = r.status
      /\ u.buyer = r.buyer /\ u.provider = r.provider /\ u.price = r.price
      /\ u.round = r.round /\ u.ruling = r.ruling /\ u.revisions = r.revisions
      /\ u.evidence = r.evidence /\ u.refunds = r.refunds /\ u.waivers = r.waivers
  BY <1>1, Use1Type
<1>3. status \in Terminal /\ r.status \in Stages \ Terminal
  BY <1>1 DEF MayClose, Terminal, Running, OrderType
<1> HIDE DEF u
<1>4. /\ n \in OrderType /\ n.status = status /\ n.paid = paid /\ ~Running(n)
      /\ n.buyer = r.buyer /\ n.provider = r.provider /\ n.price = r.price
      /\ n.round = r.round /\ n.ruling = r.ruling /\ n.revisions = r.revisions
      /\ n.evidence = r.evidence /\ n.refunds = r.refunds /\ n.waivers = r.waivers
      /\ n.closedBy = p /\ n.closedAt = t /\ n.closedFrom = r.status
      /\ Deadline([n EXCEPT !.status = n.closedFrom]) = Deadline(u)
  BY <1>2, <1>3, ClosedType
<1> HIDE DEF n
<1>5. MayClose(u, p, paid, status, t)
  BY DEF u
<1>6. u.status = "ruling_ready" => Deadline(u) = u.appealUntil
  BY DEF Deadline
<1>7. PaidByRules(n)
  BY <1>1, <1>2, <1>4, <1>5 DEF PaidByRules, MayClose, StageOK, TimeoutShare, Both
<1>8. ClosedInTime(n)
  BY <1>2, <1>4, <1>5, <1>6 DEF ClosedInTime, MayClose, Both
<1>9. OrderOK(n)
  BY <1>4, <1>7, <1>8 DEF OrderOK, Both
<1> QED BY <1>4, <1>9 DEF n, u

LEMMA RefundedType ==
  ASSUME NEW u \in OrderType, NEW p \in Accounts, NEW t \in Int
  PROVE  LET n == Closed(u, p, 0, "refunded", t)
         IN  /\ n \in OrderType /\ n.status = "refunded" /\ n.paid = 0 /\ ~Running(n)
             /\ n.buyer = u.buyer /\ n.provider = u.provider
             /\ n.evidence = u.evidence /\ n.refunds = u.refunds /\ n.waivers = u.waivers
<1>1. PICK z \in Int : z = 0
  OBVIOUS
<1>2. PICK d \in Terminal : d = "refunded"
  BY DEF Terminal
<1> DEFINE n == Closed(u, p, z, d, t)
<1>3. /\ n \in OrderType /\ n.status = d /\ n.paid = z /\ ~Running(n)
      /\ n.buyer = u.buyer /\ n.provider = u.provider
      /\ n.evidence = u.evidence /\ n.refunds = u.refunds /\ n.waivers = u.waivers
      /\ u.status \in Stages \ Terminal =>
           Deadline([n EXCEPT !.status = n.closedFrom]) = Deadline(u)
  BY <1>1, <1>2, ClosedType
<1> QED BY <1>1, <1>2, <1>3

\* An order that both parties refund is closed by the rules.
LEMMA RefundCloses ==
  ASSUME NEW r, OrderOK(r), Running(r), NEW p \in Both(r), NEW t \in Int, p \notin r.refunds,
         Cardinality(r.refunds \cup {p}) = 2
  PROVE  LET u == [Use1(r) EXCEPT !.refunds = @ \cup {p}]
             n == Closed(u, p, 0, "refunded", t)
         IN  /\ OrderOK(n) /\ ~Running(n) /\ n.buyer = r.buyer /\ n.provider = r.provider
             /\ u.buyer = r.buyer /\ u.provider = r.provider /\ u.price = r.price
             /\ u.buyerReserve = r.buyerReserve /\ u.providerReserve = r.providerReserve
<1> DEFINE u == [Use1(r) EXCEPT !.refunds = @ \cup {p}]
           n == Closed(u, p, 0, "refunded", t)
<1>1. r \in OrderType /\ StageOK(r) /\ p \in Accounts
  BY DEF OrderOK, OrderType, Both
<1>a. r.refunds \in SUBSET Both(r)
  BY PartySets
<1>b. r.refunds \cup {p} \in SUBSET Both(r) /\ r.refunds \cup {p} \in SUBSET Accounts
  BY <1>a, Joining
<1>2. r.refunds \cup {p} = Both(r) /\ r.refunds \cup {p} \in SUBSET Accounts
  BY <1>b, OrderCounts
<1>3. PICK m \in Int, S \in SUBSET Accounts : m = r.remaining - 1 /\ S = r.refunds \cup {p}
  BY <1>1, <1>2 DEF OrderType
<1>4. u = [r EXCEPT !.remaining = m, !.refunds = S]
  BY <1>1, <1>3 DEF Use1, OrderType
<1>5. /\ u \in OrderType /\ u.status = r.status
      /\ u.buyer = r.buyer /\ u.provider = r.provider /\ u.price = r.price
      /\ u.buyerReserve = r.buyerReserve /\ u.providerReserve = r.providerReserve
      /\ u.evidence = r.evidence /\ u.refunds = S /\ u.waivers = r.waivers
  BY <1>1, <1>4 DEF OrderType
<1>6. r.status \in Stages \ Terminal /\ "refunded" \in Terminal
  BY <1>1 DEF Terminal, Running, OrderType
<1> HIDE DEF u
<1>7. /\ n \in OrderType /\ n.status = "refunded" /\ n.paid = 0 /\ ~Running(n)
      /\ n.buyer = r.buyer /\ n.provider = r.provider
      /\ n.evidence = r.evidence /\ n.refunds = S /\ n.waivers = r.waivers
  BY <1>1, <1>5, RefundedType
<1> HIDE DEF n
<1>8. PaidByRules(n) /\ ClosedInTime(n)
  BY <1>2, <1>3, <1>7 DEF PaidByRules, ClosedInTime, Both
<1>9. OrderOK(n)
  BY <1>2, <1>3, <1>7, <1>8 DEF OrderOK, Both
<1> QED BY <1>5, <1>7, <1>9 DEF n, u

\* An order that was just agreed.
LEMMA NewOrderOK ==
  ASSUME NEW x, x.buyer \in Accounts, x.provider \in Accounts, x.buyer # x.provider,
         x.price \in Nat, NEW t \in Int
  PROVE  /\ OrderOK(NewOrder(x, t)) /\ Running(NewOrder(x, t))
         /\ NewOrder(x, t).buyer = x.buyer /\ NewOrder(x, t).provider = x.provider
         /\ NewOrder(x, t).price = x.price /\ NewOrder(x, t).remaining = OrderReserve
<1> DEFINE n == NewOrder(x, t)
<1>a. \A k \in {0, 1} : /\ BuyerFee(x.buyer, x.provider, k) \in Nat
                         /\ ProviderFee(x.buyer, x.provider, k) \in Nat
  BY PanelFees
<1>b. BuyerReserve(x.buyer, x.provider) \in Nat /\ ProviderReserve(x.buyer, x.provider) \in Nat
  BY <1>a DEF BuyerReserve, ProviderReserve
<1>c. PICK b \in Nat : b = BuyerReserve(x.buyer, x.provider)
  BY <1>b
<1>d. PICK p \in Nat : p = ProviderReserve(x.buyer, x.provider)
  BY <1>b
<1>e. PICK d \in Int : d = t + DeliveryWindow
  BY Constants
<1>f. PICK m \in Int : m = OrderReserve
  BY Constants
<1>1. /\ d = t + DeliveryWindow /\ m = OrderReserve
      /\ b = BuyerReserve(x.buyer, x.provider) /\ p = ProviderReserve(x.buyer, x.provider)
  BY <1>c, <1>d, <1>e, <1>f
<1>g. PICK e \in SUBSET Accounts : e = {}
  OBVIOUS
<1>h. PICK u \in Int : u = Unset
  BY DEF Unset
<1>i. PICK c \in Closers : c = Nobody
  BY DEF Closers
<1>j. PICK w \in Stages : w = "working"
  BY DEF Stages
<1>k. PICK f \in ClosedStages : f = "none"
  BY DEF ClosedStages
<1>l. PICK h \in {Unset, 0, 1} : h = Unset
  OBVIOUS
<1>2. e = {} /\ u = Unset /\ c = Nobody /\ w = "working" /\ f = "none" /\ h = Unset
  BY <1>g, <1>h, <1>i, <1>j, <1>k, <1>l
<1>3. n = [buyer |-> x.buyer, provider |-> x.provider, price |-> x.price,
           buyerReserve |-> b, providerReserve |-> p,
           status |-> w, round |-> h, ruling |-> u, paid |-> u,
           evidence |-> e, refunds |-> e, waivers |-> e,
           deliveryUntil |-> d, reviewUntil |-> u, caseUntil |-> u, appealUntil |-> u,
           remaining |-> m, revisions |-> 0,
           closedBy |-> c, closedAt |-> u, closedFrom |-> f]
  BY <1>1, <1>2 DEF NewOrder
<1> HIDE DEF n
<1>4. n \in OrderType
  BY <1>3 DEF OrderType
<1>5. /\ n.buyer = x.buyer /\ n.provider = x.provider /\ n.price = x.price
      /\ n.buyerReserve = b /\ n.providerReserve = p /\ n.status = "working" /\ n.round = Unset
      /\ n.ruling = Unset /\ n.evidence = {} /\ n.refunds = {} /\ n.waivers = {}
      /\ n.remaining = m /\ n.revisions = 0
  BY <1>2, <1>3
<1>6. Running(n) /\ StageOK(n)
  BY <1>5 DEF Running, Terminal, StageOK, Unset
<1>7. ReservesLeft(n)
  BY <1>1, <1>5, PanelFees DEF ReservesLeft, BuyerReserve, ProviderReserve
<1>8. Spent(n) = 0
  BY <1>5, FS_EmptySet DEF Spent
<1>9. OrderOK(n)
  BY <1>1, <1>4, <1>5, <1>6, <1>7, <1>8, Constants DEF OrderOK, Both
<1> QED BY <1>1, <1>5, <1>6, <1>9 DEF n

\* An open order always has an operation left.
LEMMA BudgetLeft ==
  ASSUME NEW r, OrderOK(r), Running(r)
  PROVE  r.remaining \in Nat /\ r.remaining > 0
<1>1. r.remaining >= OrderReserve - Spent(r)
  BY DEF OrderOK
<1> QED BY <1>1, SpentType, Constants
----------------------------------------------------------------------------
\* What order r still reserves of the log, and what it holds on the account of p.
LeftOf(r) == IF Running(r) THEN r.remaining ELSE 0

BondOf(p, r) ==
  IF ~Running(r)        THEN 0
  ELSE IF p = r.buyer    THEN r.price + r.buyerReserve
  ELSE IF p = r.provider THEN r.providerReserve
  ELSE 0

Promised(os)  == [o \in DOMAIN os |-> LeftOf(os[o])]
Bonded(p, os) == [o \in DOMAIN os |-> BondOf(p, os[o])]

Good(os) == os \in Seq(OrderType) /\ \A o \in DOMAIN os : OrderOK(os[o])

LEMMA WeightType ==
  ASSUME NEW r, OrderOK(r)
  PROVE  LeftOf(r) \in Nat /\ \A p : BondOf(p, r) \in Nat
<1>1. r.price \in Nat /\ r.buyerReserve \in Nat /\ r.providerReserve \in Nat
  BY DEF OrderOK, OrderType
<1>2. LeftOf(r) \in Nat
  BY BudgetLeft DEF LeftOf
<1>3. \A p : BondOf(p, r) \in Nat
  BY <1>1 DEF BondOf
<1> QED BY <1>2, <1>3

LEMMA Weights ==
  ASSUME NEW os, Good(os)
  PROVE  /\ IsFiniteSet(DOMAIN os)
         /\ Amounting(Promised(os), DOMAIN os)
         /\ \A p : Amounting(Bonded(p, os), DOMAIN os)
<1>1. IsFiniteSet(DOMAIN os)
  <2>1. os \in Seq(OrderType)
    BY DEF Good
  <2>2. Len(os) \in Nat /\ DOMAIN os = 1..Len(os)
    BY <2>1
  <2>3. 1 \in Int /\ Len(os) \in Int
    BY <2>2
  <2> QED BY <2>2, <2>3, FS_Interval
<1>2. \A o \in DOMAIN os : LeftOf(os[o]) \in Nat /\ \A p : BondOf(p, os[o]) \in Nat
  BY WeightType DEF Good
<1> QED BY <1>1, <1>2 DEF Amounting, Promised, Bonded

\* The orders ns are os with n in place of order o, or with n added.
Swaps(os, o, n, ns) == ns = [os EXCEPT ![o] = n]
Adds(os, n, ns)     == ns = Append(os, n)

\* One order is replaced.
LEMMA Replaced ==
  ASSUME NEW os, Good(os), NEW o \in DOMAIN os, NEW n, OrderOK(n),
         NEW ns, Swaps(os, o, n, ns)
  PROVE  /\ Good(ns) /\ DOMAIN ns = DOMAIN os
         /\ Total(Promised(ns), DOMAIN ns)
              = Total(Promised(os), DOMAIN os) - LeftOf(os[o]) + LeftOf(n)
         /\ \A p : Total(Bonded(p, ns), DOMAIN ns)
                    = Total(Bonded(p, os), DOMAIN os) - BondOf(p, os[o]) + BondOf(p, n)
<1>0. os \in Seq(OrderType) /\ n \in OrderType
  BY DEF Good, OrderOK
<1>1. /\ ns \in Seq(OrderType) /\ DOMAIN ns = DOMAIN os /\ ns[o] = n
      /\ \A i \in DOMAIN os \ {o} : ns[i] = os[i]
  BY <1>0 DEF Swaps
<1>2. \A i \in DOMAIN ns : OrderOK(ns[i])
  BY <1>1 DEF Good
<1>3. Good(ns)
  BY <1>1, <1>2 DEF Good
<1>4. Total(Promised(ns), DOMAIN ns) = Total(Promised(os), DOMAIN os) - LeftOf(os[o]) + LeftOf(n)
  <2>1. Amounting(Promised(os), DOMAIN os) /\ Amounting(Promised(ns), DOMAIN os)
    BY <1>1, <1>3, Weights
  <2>2. /\ Promised(os)[o] = LeftOf(os[o]) /\ Promised(ns)[o] = LeftOf(n)
        /\ \A i \in DOMAIN os \ {o} : Promised(os)[i] = Promised(ns)[i]
    BY <1>1 DEF Promised
  <2>3. Total(Promised(ns), DOMAIN os) = Total(Promised(os), DOMAIN os) - Promised(os)[o] + Promised(ns)[o]
    BY <2>1, <2>2, TotalChange
  <2> QED BY <1>1, <2>2, <2>3
<1>5. ASSUME NEW p
      PROVE  Total(Bonded(p, ns), DOMAIN ns)
               = Total(Bonded(p, os), DOMAIN os) - BondOf(p, os[o]) + BondOf(p, n)
  <2>1. Amounting(Bonded(p, os), DOMAIN os) /\ Amounting(Bonded(p, ns), DOMAIN os)
    BY <1>1, <1>3, Weights
  <2>2. /\ Bonded(p, os)[o] = BondOf(p, os[o]) /\ Bonded(p, ns)[o] = BondOf(p, n)
        /\ \A i \in DOMAIN os \ {o} : Bonded(p, os)[i] = Bonded(p, ns)[i]
    BY <1>1 DEF Bonded
  <2>3. Total(Bonded(p, ns), DOMAIN os) = Total(Bonded(p, os), DOMAIN os) - Bonded(p, os)[o] + Bonded(p, ns)[o]
    BY <2>1, <2>2, TotalChange
  <2> QED BY <1>1, <2>2, <2>3
<1> QED BY <1>1, <1>3, <1>4, <1>5

\* One order is added.
LEMMA Extended ==
  ASSUME NEW os, Good(os), NEW n, OrderOK(n), NEW ns, Adds(os, n, ns)
  PROVE  /\ Good(ns) /\ \A o \in DOMAIN os : o \in DOMAIN ns /\ ns[o] = os[o]
         /\ Total(Promised(ns), DOMAIN ns) = Total(Promised(os), DOMAIN os) + LeftOf(n)
         /\ \A p : Total(Bonded(p, ns), DOMAIN ns) = Total(Bonded(p, os), DOMAIN os) + BondOf(p, n)
<1> DEFINE x == Len(os) + 1
<1>0. os \in Seq(OrderType) /\ n \in OrderType
  BY DEF Good, OrderOK
<1>a. Len(os) \in Nat /\ DOMAIN os = 1..Len(os)
  BY <1>0
<1>b. /\ ns \in Seq(OrderType) /\ Len(ns) = Len(os) + 1 /\ ns[x] = n
      /\ \A i \in 1..Len(os) : ns[i] = os[i]
  BY <1>0 DEF Adds
<1>1. /\ ns \in Seq(OrderType) /\ DOMAIN ns = DOMAIN os \cup {x} /\ ns[x] = n /\ x \notin DOMAIN os
      /\ \A i \in DOMAIN os : ns[i] = os[i]
  <2>1. 1..(Len(os) + 1) = 1..Len(os) \cup {Len(os) + 1}
    BY <1>a
  <2>2. DOMAIN ns = 1..(Len(os) + 1)
    BY <1>b
  <2> QED BY <1>a, <1>b, <2>1, <2>2
<1> HIDE DEF x
<1>2. \A i \in DOMAIN ns : OrderOK(ns[i])
  BY <1>1 DEF Good
<1>3. Good(ns)
  BY <1>1, <1>2 DEF Good
<1>4. Total(Promised(ns), DOMAIN ns) = Total(Promised(os), DOMAIN os) + LeftOf(n)
  <2>1. \A i \in DOMAIN os : Promised(os)[i] = Promised(ns)[i]
    BY <1>1 DEF Promised
  <2>2. Promised(ns)[x] = LeftOf(n) /\ LeftOf(n) \in Nat
    BY <1>1, WeightType DEF Promised
  <2>3. Amounting(Promised(ns), DOMAIN os)
    BY <2>1, Weights DEF Amounting
  <2>4. Total(Promised(ns), DOMAIN os \cup {x}) = Total(Promised(ns), DOMAIN os) + Promised(ns)[x]
    BY <1>1, <2>2, <2>3, TotalAdd
  <2>5. Total(Promised(ns), DOMAIN os) = Total(Promised(os), DOMAIN os)
    BY <2>1, TotalSame
  <2> QED BY <1>1, <2>2, <2>4, <2>5
<1>5. ASSUME NEW p
      PROVE  Total(Bonded(p, ns), DOMAIN ns) = Total(Bonded(p, os), DOMAIN os) + BondOf(p, n)
  <2>1. \A i \in DOMAIN os : Bonded(p, os)[i] = Bonded(p, ns)[i]
    BY <1>1 DEF Bonded
  <2>2. Bonded(p, ns)[x] = BondOf(p, n) /\ BondOf(p, n) \in Nat
    BY <1>1, WeightType DEF Bonded
  <2>3. Amounting(Bonded(p, ns), DOMAIN os)
    BY <2>1, Weights DEF Amounting
  <2>4. Total(Bonded(p, ns), DOMAIN os \cup {x}) = Total(Bonded(p, ns), DOMAIN os) + Bonded(p, ns)[x]
    BY <1>1, <2>2, <2>3, TotalAdd
  <2>5. Total(Bonded(p, ns), DOMAIN os) = Total(Bonded(p, os), DOMAIN os)
    BY <2>1, TotalSame
  <2> QED BY <1>1, <2>2, <2>4, <2>5
<1> QED BY <1>1, <1>3, <1>4, <1>5

\* The open orders of os; what is summed over them is summed over all orders.
OpenIn(os) == {o \in DOMAIN os : Running(os[o])}

BondIn(p, r) ==
  CASE p = r.buyer    -> r.price + r.buyerReserve
    [] p = r.provider -> r.providerReserve
    [] OTHER          -> 0

LEMMA OverAll ==
  ASSUME NEW os, Good(os)
  PROVE  /\ Total([o \in OpenIn(os) |-> os[o].remaining], OpenIn(os))
              = Total(Promised(os), DOMAIN os)
         /\ \A p : Total([o \in OpenIn(os) |-> BondIn(p, os[o])], OpenIn(os))
                    = Total(Bonded(p, os), DOMAIN os)
<1>1. /\ OpenIn(os) \subseteq DOMAIN os
      /\ \A o \in DOMAIN os : o \in OpenIn(os) <=> Running(os[o])
  BY DEF OpenIn
<1>2. Total([o \in OpenIn(os) |-> os[o].remaining], OpenIn(os)) = Total(Promised(os), DOMAIN os)
  <2> DEFINE f == [o \in OpenIn(os) |-> os[o].remaining]
  <2>1. \A o \in OpenIn(os) : f[o] = Promised(os)[o]
    BY <1>1 DEF Promised, LeftOf
  <2>2. \A o \in DOMAIN os \ OpenIn(os) : Promised(os)[o] = 0
    BY <1>1 DEF Promised, LeftOf
  <2> HIDE DEF f
  <2>3. Total(f, OpenIn(os)) = Total(Promised(os), DOMAIN os)
    BY <1>1, <2>1, <2>2, TotalSupport
  <2> QED BY <2>3 DEF f
<1>3. ASSUME NEW p
      PROVE  Total([o \in OpenIn(os) |-> BondIn(p, os[o])], OpenIn(os))
               = Total(Bonded(p, os), DOMAIN os)
  <2> DEFINE f == [o \in OpenIn(os) |-> BondIn(p, os[o])]
  <2>1. ASSUME NEW o \in OpenIn(os) PROVE f[o] = Bonded(p, os)[o]
    <3>1. f[o] = BondIn(p, os[o]) /\ Bonded(p, os)[o] = BondOf(p, os[o])
      BY <1>1 DEF Bonded
    <3>2. Running(os[o]) /\ os[o].buyer # os[o].provider
      BY <1>1 DEF Good, OrderOK
    <3>3. BondIn(p, os[o]) = BondOf(p, os[o])
      BY <3>2 DEF BondIn, BondOf
    <3> QED BY <3>1, <3>3
  <2>2. \A o \in DOMAIN os \ OpenIn(os) : Bonded(p, os)[o] = 0
    BY <1>1 DEF Bonded, BondOf
  <2> HIDE DEF f
  <2>3. Total(f, OpenIn(os)) = Total(Bonded(p, os), DOMAIN os)
    BY <1>1, <2>1, <2>2, TotalSupport
  <2> QED BY <2>3 DEF f
<1> QED BY <1>2, <1>3

\* The invariant in terms of these sums, before and after a step.
LEMMA InSums ==
  ASSUME OrdersOK
  PROVE  /\ Reserved = Total(Promised(orders), DOMAIN orders)
         /\ EscrowBacked <=>
              \A p \in Accounts : accounts[p].held = Total(Bonded(p, orders), DOMAIN orders)
<1>1. Good(orders)
  BY DEF Good, OrdersOK
<1>2. OpenOrders = OpenIn(orders)
  BY DEF OpenOrders, Open, OpenIn, Running
<1>3. Reserved = Total([o \in OpenIn(orders) |-> orders[o].remaining], OpenIn(orders))
  BY <1>2 DEF Reserved
<1>4. \A p : [o \in OpenOrders |-> Bond(p, o)] = [o \in OpenIn(orders) |-> BondIn(p, orders[o])]
  BY <1>2 DEF Bond, BondIn
<1>5. /\ Total([o \in OpenIn(orders) |-> orders[o].remaining], OpenIn(orders))
           = Total(Promised(orders), DOMAIN orders)
      /\ \A p : Total([o \in OpenIn(orders) |-> BondIn(p, orders[o])], OpenIn(orders))
                 = Total(Bonded(p, orders), DOMAIN orders)
  BY <1>1, OverAll
<1>6. \A p : Total([o \in OpenOrders |-> Bond(p, o)], OpenOrders)
              = Total(Bonded(p, orders), DOMAIN orders)
  BY <1>2, <1>4, <1>5
<1>7. EscrowBacked <=>
        \A p \in Accounts :
          accounts[p].held = Total([o \in OpenOrders |-> Bond(p, o)], OpenOrders)
  BY DEF EscrowBacked
<1> QED BY <1>3, <1>5, <1>6, <1>7

LEMMA InSumsNext ==
  ASSUME OrdersOK'
  PROVE  /\ Reserved' = Total(Promised(orders'), DOMAIN orders')
         /\ EscrowBacked' <=>
              \A p \in Accounts : accounts'[p].held = Total(Bonded(p, orders'), DOMAIN orders')
<1>1. Good(orders')
  BY DEF Good, OrdersOK
<1>2. OpenOrders' = OpenIn(orders')
  BY DEF OpenOrders, Open, OpenIn, Running
<1>3. Reserved' = Total([o \in OpenIn(orders') |-> orders'[o].remaining], OpenIn(orders'))
  BY <1>2 DEF Reserved
<1>4. \A p : [o \in OpenOrders' |-> Bond(p, o)'] = [o \in OpenIn(orders') |-> BondIn(p, orders'[o])]
  BY <1>2 DEF Bond, BondIn
<1>5. /\ Total([o \in OpenIn(orders') |-> orders'[o].remaining], OpenIn(orders'))
           = Total(Promised(orders'), DOMAIN orders')
      /\ \A p : Total([o \in OpenIn(orders') |-> BondIn(p, orders'[o])], OpenIn(orders'))
                 = Total(Bonded(p, orders'), DOMAIN orders')
  BY <1>1, OverAll
<1>6. \A p : Total([o \in OpenOrders' |-> Bond(p, o)'], OpenOrders')
              = Total(Bonded(p, orders'), DOMAIN orders')
  BY <1>2, <1>4, <1>5
<1>7. EscrowBacked' <=>
        \A p \in Accounts :
          accounts'[p].held = Total([o \in OpenOrders' |-> Bond(p, o)'], OpenOrders')
  BY DEF EscrowBacked
<1> QED BY <1>3, <1>5, <1>6, <1>7
----------------------------------------------------------------------------
\* The credits of every account, available or held.
Wealth(accs) == [p \in Accounts |-> accs[p].available + accs[p].held]

LEMMA WealthType ==
  ASSUME NEW accs \in [Accounts -> AccountType]
  PROVE  /\ Amounting(Wealth(accs), Accounts)
         /\ \A a \in Accounts : /\ accs[a].available \in Nat /\ accs[a].held \in Nat
                                /\ accs[a].earned \in Nat /\ accs[a].admissions \in Nat
                                /\ Wealth(accs)[a] = accs[a].available + accs[a].held
<1>1. \A a \in Accounts : accs[a] \in AccountType
  OBVIOUS
<1>2. \A a \in Accounts : /\ accs[a].available \in Nat /\ accs[a].held \in Nat
                          /\ accs[a].earned \in Nat /\ accs[a].admissions \in Nat
  BY <1>1, Constants DEF AccountType
<1> QED BY <1>2, FiniteAccounts DEF Wealth, Amounting

LEMMA WealthSame ==
  ASSUME NEW accs, NEW new,
         \A a \in Accounts : new[a].available + new[a].held = accs[a].available + accs[a].held
  PROVE  Total(Wealth(new), Accounts) = Total(Wealth(accs), Accounts)
<1>1. \A a \in Accounts : Wealth(new)[a] = Wealth(accs)[a]
  BY DEF Wealth
<1> QED BY <1>1, TotalSame

\* Credits that move between two accounts.
LEMMA WealthMoved ==
  ASSUME NEW accs \in [Accounts -> AccountType], NEW new \in [Accounts -> AccountType],
         NEW b \in Accounts, NEW p \in Accounts, b # p,
         \A a \in Accounts \ {b, p} : new[a] = accs[a]
  PROVE  Total(Wealth(new), Accounts)
           = Total(Wealth(accs), Accounts)
               - (accs[b].available + accs[b].held) - (accs[p].available + accs[p].held)
               + (new[b].available + new[b].held) + (new[p].available + new[p].held)
<1> DEFINE mid == [a \in Accounts |-> IF a = b THEN Wealth(new)[a] ELSE Wealth(accs)[a]]
<1>1. /\ Amounting(Wealth(accs), Accounts) /\ Amounting(Wealth(new), Accounts)
      /\ \A a \in Accounts : /\ Wealth(accs)[a] = accs[a].available + accs[a].held
                             /\ Wealth(new)[a] = new[a].available + new[a].held
                             /\ Wealth(accs)[a] \in Nat /\ Wealth(new)[a] \in Nat
  BY WealthType DEF Amounting
<1>2. /\ Amounting(mid, Accounts) /\ mid[b] = Wealth(new)[b] /\ mid[p] = Wealth(accs)[p]
      /\ \A a \in Accounts \ {b} : Wealth(accs)[a] = mid[a]
  BY <1>1 DEF Amounting
<1>3. \A a \in Accounts \ {p} : mid[a] = Wealth(new)[a]
  <2>1. \A a \in Accounts \ {b, p} : Wealth(new)[a] = Wealth(accs)[a]
    BY DEF Wealth
  <2> QED BY <2>1
<1> HIDE DEF mid
<1>4. Total(mid, Accounts) = Total(Wealth(accs), Accounts) - Wealth(accs)[b] + mid[b]
  <2>1. Amounting(Wealth(accs), Accounts) /\ Amounting(mid, Accounts)
    BY <1>1, <1>2
  <2>2. \A a \in Accounts \ {b} : Wealth(accs)[a] = mid[a]
    BY <1>2
  <2> QED BY <2>1, <2>2, TotalChange
<1>5. Total(Wealth(new), Accounts) = Total(mid, Accounts) - mid[p] + Wealth(new)[p]
  <2>1. Amounting(Wealth(new), Accounts) /\ Amounting(mid, Accounts)
    BY <1>1, <1>2
  <2> QED BY <1>3, <2>1, TotalChange
<1>6. Total(Wealth(accs), Accounts) \in Nat
  BY <1>1, TotalType
<1>7. PICK A \in Nat, B \in Nat, C \in Nat, D \in Nat :
        A = Wealth(accs)[b] /\ B = Wealth(accs)[p] /\ C = Wealth(new)[b] /\ D = Wealth(new)[p]
  BY <1>1
<1>8. Total(Wealth(new), Accounts) = Total(Wealth(accs), Accounts) - A - B + C + D
  BY <1>2, <1>4, <1>5, <1>6, <1>7
<1> QED BY <1>1, <1>7, <1>8
----------------------------------------------------------------------------
\* An order action that moves no credits.
LEMMA AdvanceStep ==
  ASSUME ProtocolInv, NEW o \in DOMAIN orders, Running(orders[o]), NEW n, Advanced(orders[o], n),
         NEW t \in Nat, Becomes(o, n, t)
  PROVE  ProtocolInv'
<1> DEFINE r == orders[o]
<1>1. /\ orders' = [orders EXCEPT ![o] = n] /\ ops' = ops + 1 /\ time' = t /\ accounts' = accounts
      /\ listings' = listings /\ proposals' = proposals /\ issued' = issued /\ rewards' = rewards
  BY DEF Becomes, Applied
<1>2. Good(orders) /\ OrdersOK /\ OrderOK(r)
  BY DEF ProtocolInv, OrdersOK, Good
<1>3. /\ OrderOK(n) /\ Running(n) /\ n.buyer = r.buyer /\ n.provider = r.provider
      /\ n.price = r.price /\ n.buyerReserve = r.buyerReserve
      /\ n.providerReserve = r.providerReserve /\ n.remaining = r.remaining - 1
  BY DEF Advanced
<1> HIDE DEF r
<1>4. LeftOf(n) = LeftOf(r) - 1 /\ LeftOf(r) \in Nat /\ \A p : BondOf(p, n) = BondOf(p, r)
  BY <1>2, <1>3, WeightType DEF LeftOf, BondOf, r
<1>5. /\ Good(orders')
      /\ Total(Promised(orders'), DOMAIN orders')
           = Total(Promised(orders), DOMAIN orders) - LeftOf(r) + LeftOf(n)
      /\ \A p : Total(Bonded(p, orders'), DOMAIN orders')
                 = Total(Bonded(p, orders), DOMAIN orders) - BondOf(p, r) + BondOf(p, n)
  <2>1. /\ Good(orders')
        /\ Total(Promised(orders'), DOMAIN orders')
             = Total(Promised(orders), DOMAIN orders) - LeftOf(orders[o]) + LeftOf(n)
        /\ \A p : Total(Bonded(p, orders'), DOMAIN orders')
                   = Total(Bonded(p, orders), DOMAIN orders) - BondOf(p, orders[o]) + BondOf(p, n)
    <3>1. Swaps(orders, o, n, orders')
      BY <1>1 DEF Swaps
    <3> QED BY <1>2, <1>3, <3>1, Replaced
  <2> QED BY <2>1 DEF r
<1>6. OrdersOK'
  BY <1>5 DEF OrdersOK, Good
<1>7. CapacityReserved'
  <2>1. ops + Reserved <= MaxOperations /\ ops \in Nat
    BY DEF ProtocolInv, CapacityReserved, BooksTyped
  <2>2. Total(Promised(orders), DOMAIN orders) \in Nat
    BY <1>2, Weights, TotalType
  <2>3. Reserved' = Reserved - 1 /\ Reserved \in Nat
    BY <1>2, <1>4, <1>5, <1>6, <2>2, InSums, InSumsNext
  <2>4. ops' + Reserved' <= MaxOperations
    BY <1>1, <2>1, <2>3, Constants
  <2> QED BY <2>4 DEF CapacityReserved
<1>8. EscrowBacked'
  <2>1. \A p : Total(Bonded(p, orders'), DOMAIN orders') = Total(Bonded(p, orders), DOMAIN orders)
    <3>1. \A p : BondOf(p, r) \in Nat /\ Total(Bonded(p, orders), DOMAIN orders) \in Nat
      BY <1>2, Weights, WeightType, TotalType
    <3> QED BY <1>4, <1>5, <3>1
  <2>2. \A p \in Accounts : accounts[p].held = Total(Bonded(p, orders), DOMAIN orders)
    BY <1>2, InSums DEF ProtocolInv
  <2> QED BY <1>1, <1>6, <2>1, <2>2, InSumsNext
<1>9. SupplyConserved'
  BY <1>1 DEF ProtocolInv, SupplyConserved
<1>10. BooksTyped' /\ OffersOK'
  BY <1>1 DEF ProtocolInv, BooksTyped, OffersOK
<1> QED BY <1>6, <1>7, <1>8, <1>9, <1>10 DEF ProtocolInv

\* The bonds of u are released, and its provider is paid.
LEMMA ReleaseBooks ==
  ASSUME accounts \in [Accounts -> AccountType], NEW u, NEW b \in Accounts, NEW p \in Accounts,
         b # p, u.buyer = b, u.provider = p, u.price \in Nat, u.buyerReserve \in Nat,
         u.providerReserve \in Nat, NEW paid \in Nat, paid <= u.price,
         accounts[b].held >= u.price + u.buyerReserve, accounts[p].held >= u.providerReserve
  PROVE  LET new == Release(u, paid)
         IN  /\ new \in [Accounts -> AccountType]
             /\ new[b].held = accounts[b].held - (u.price + u.buyerReserve)
             /\ new[p].held = accounts[p].held - u.providerReserve
             /\ \A a \in Accounts \ {b, p} : new[a] = accounts[a]
             /\ Total(Wealth(new), Accounts) = Total(Wealth(accounts), Accounts)
<1> DEFINE new == Release(u, paid)
<1>1. /\ accounts[b] \in AccountType /\ accounts[p] \in AccountType
      /\ accounts[b].available \in Nat /\ accounts[b].held \in Nat /\ accounts[b].earned \in Nat
      /\ accounts[p].available \in Nat /\ accounts[p].held \in Nat /\ accounts[p].earned \in Nat
  BY WealthType
<1>2. PICK x \in Nat : x = accounts[b].available + u.price + u.buyerReserve - paid
  BY <1>1
<1>3. PICK y \in Nat : y = accounts[b].held - (u.price + u.buyerReserve)
  BY <1>1
<1>4. PICK v \in Nat : v = accounts[p].available + u.providerReserve + paid
  BY <1>1
<1>5. PICK w \in Nat : w = accounts[p].held - u.providerReserve
  BY <1>1
<1>6. PICK z \in Nat : z = accounts[p].earned + paid
  BY <1>1
<1>8. new = [accounts EXCEPT ![b].held = y, ![b].available = x,
                             ![p].held = w, ![p].available = v, ![p].earned = z]
  BY <1>1, <1>2, <1>3, <1>4, <1>5, <1>6 DEF Release, AccountType
<1> HIDE DEF new
<1>9. /\ DOMAIN new = Accounts
      /\ new[b] = [accounts[b] EXCEPT !.held = y, !.available = x]
      /\ new[p] = [accounts[p] EXCEPT !.held = w, !.available = v, !.earned = z]
      /\ \A a \in Accounts \ {b, p} : new[a] = accounts[a]
  BY <1>8
<1>10. PICK B \in AccountType, P \in AccountType : B = accounts[b] /\ P = accounts[p]
  BY <1>1
<1>11. /\ new[b] \in AccountType /\ new[b].available = x /\ new[b].held = y
       /\ new[p] \in AccountType /\ new[p].available = v /\ new[p].held = w
  <2>1. new[b] = [B EXCEPT !.held = y, !.available = x]
    BY <1>9, <1>10
  <2>2. new[p] = [P EXCEPT !.held = w, !.available = v, !.earned = z]
    BY <1>9, <1>10
  <2>3. new[b] \in AccountType /\ new[b].available = x /\ new[b].held = y
    BY <1>10, <2>1 DEF AccountType
  <2>4. new[p] \in AccountType /\ new[p].available = v /\ new[p].held = w
    BY <1>10, <2>2 DEF AccountType
  <2> QED BY <2>3, <2>4
<1>12. new \in [Accounts -> AccountType]
  <2>1. \A a \in Accounts : new[a] \in AccountType
    BY <1>9, <1>11
  <2>2. new = [a \in Accounts |-> new[a]]
    BY <1>8
  <2> QED BY <2>1, <2>2
<1>13. Total(Wealth(new), Accounts) = Total(Wealth(accounts), Accounts)
  <2>1. Total(Wealth(new), Accounts)
           = Total(Wealth(accounts), Accounts)
               - (accounts[b].available + accounts[b].held)
               - (accounts[p].available + accounts[p].held)
               + (new[b].available + new[b].held) + (new[p].available + new[p].held)
    <3>1. \A a \in Accounts \ {b, p} : new[a] = accounts[a]
      BY <1>9
    <3> QED BY <1>12, <3>1, WealthMoved
  <2>2. Total(Wealth(accounts), Accounts) \in Nat
    BY WealthType, TotalType
  <2> QED BY <1>1, <1>2, <1>3, <1>4, <1>5, <1>11, <2>1, <2>2
<1> QED BY <1>3, <1>5, <1>9, <1>11, <1>12, <1>13 DEF new

\* What is held covers the bonds of every open order.
LEMMA BondCovered ==
  ASSUME ProtocolInv, NEW o \in DOMAIN orders, NEW p \in Accounts
  PROVE  /\ Good(orders) /\ OrdersOK /\ OrderOK(orders[o])
         /\ accounts[p].held = Total(Bonded(p, orders), DOMAIN orders)
         /\ BondOf(p, orders[o]) <= accounts[p].held
<1>1. Good(orders) /\ OrdersOK /\ OrderOK(orders[o])
  BY DEF ProtocolInv, OrdersOK, Good
<1>2. accounts[p].held = Total(Bonded(p, orders), DOMAIN orders)
  BY <1>1, InSums DEF ProtocolInv
<1>3. Amounting(Bonded(p, orders), DOMAIN orders)
  BY <1>1, Weights
<1>4. Bonded(p, orders)[o] <= Total(Bonded(p, orders), DOMAIN orders)
  BY <1>3, TotalRemove
<1>5. Bonded(p, orders)[o] = BondOf(p, orders[o])
  BY DEF Bonded
<1> QED BY <1>1, <1>2, <1>4, <1>5

\* Order o, now u, closes as n.
LEMMA CloseStep ==
  ASSUME ProtocolInv, NEW o \in DOMAIN orders, Running(orders[o]), NEW u, NEW n,
         OrderOK(n), ~Running(n), NEW t \in Nat, NEW paid \in Nat, paid <= u.price,
         u.buyer = orders[o].buyer, u.provider = orders[o].provider, u.price = orders[o].price,
         u.buyerReserve = orders[o].buyerReserve, u.providerReserve = orders[o].providerReserve,
         Swaps(orders, o, n, orders'), accounts' = Release(u, paid), Applied(t),
         UNCHANGED <<listings, proposals, issued, rewards>>
  PROVE  ProtocolInv'
<1>2. Good(orders) /\ OrdersOK /\ OrderOK(orders[o])
  BY DEF ProtocolInv, OrdersOK, Good
<1>3. PICK b \in Accounts, p \in Accounts : b = u.buyer /\ p = u.provider
  BY <1>2 DEF OrderOK, OrderType
<1>4. /\ b # p /\ u.price \in Nat /\ u.buyerReserve \in Nat /\ u.providerReserve \in Nat
  BY <1>2, <1>3 DEF OrderOK, OrderType
<1>5. /\ BondOf(b, orders[o]) = u.price + u.buyerReserve
      /\ BondOf(p, orders[o]) = u.providerReserve
      /\ \A a : a \notin {b, p} => BondOf(a, orders[o]) = 0
      /\ \A a : BondOf(a, n) = 0
  BY <1>3, <1>4 DEF BondOf
<1>6. /\ LeftOf(n) = 0 /\ LeftOf(orders[o]) \in Nat /\ LeftOf(orders[o]) >= 1
  BY <1>2, BudgetLeft DEF LeftOf
<1>a. accounts \in [Accounts -> AccountType] /\ ops \in Nat
  BY DEF ProtocolInv, BooksTyped
<1>7. /\ accounts[b].held >= u.price + u.buyerReserve /\ accounts[p].held >= u.providerReserve
  <2>1. BondOf(b, orders[o]) <= accounts[b].held /\ BondOf(p, orders[o]) <= accounts[p].held
    BY BondCovered
  <2> QED BY <1>4, <1>5, <1>a, <2>1, WealthType
<1>8. /\ accounts' \in [Accounts -> AccountType]
      /\ accounts'[b].held = accounts[b].held - (u.price + u.buyerReserve)
      /\ accounts'[p].held = accounts[p].held - u.providerReserve
      /\ \A a \in Accounts \ {b, p} : accounts'[a] = accounts[a]
      /\ Total(Wealth(accounts'), Accounts) = Total(Wealth(accounts), Accounts)
  BY <1>3, <1>4, <1>7, <1>a, ReleaseBooks
<1>9. /\ Good(orders')
      /\ Total(Promised(orders'), DOMAIN orders')
           = Total(Promised(orders), DOMAIN orders) - LeftOf(orders[o]) + LeftOf(n)
      /\ \A a : Total(Bonded(a, orders'), DOMAIN orders')
                 = Total(Bonded(a, orders), DOMAIN orders) - BondOf(a, orders[o]) + BondOf(a, n)
  BY <1>2, Replaced
<1>10. OrdersOK'
  BY <1>9 DEF OrdersOK, Good
<1>11. CapacityReserved'
  <2>1. ops + Reserved <= MaxOperations
    BY DEF ProtocolInv, CapacityReserved
  <2>2. Total(Promised(orders), DOMAIN orders) \in Nat
    BY <1>2, Weights, TotalType
  <2>3. /\ Reserved = Total(Promised(orders), DOMAIN orders)
        /\ Reserved' = Total(Promised(orders'), DOMAIN orders')
    BY <1>2, <1>10, InSums, InSumsNext
  <2>4. Reserved' = Reserved - LeftOf(orders[o]) + 0 /\ Reserved \in Nat
    BY <1>6, <1>9, <2>2, <2>3
  <2>5. ops' = ops + 1
    BY DEF Applied
  <2>6. ops' + Reserved' <= MaxOperations
    BY <1>6, <1>a, <2>1, <2>4, <2>5, Constants
  <2> QED BY <2>6 DEF CapacityReserved
<1>12. EscrowBacked'
  <2> SUFFICES ASSUME NEW a \in Accounts
               PROVE  accounts'[a].held = Total(Bonded(a, orders'), DOMAIN orders')
    BY <1>10, InSumsNext
  <2>1. accounts[a].held = Total(Bonded(a, orders), DOMAIN orders) /\ accounts[a].held \in Nat
    BY <1>a, BondCovered, WealthType
  <2>2. Total(Bonded(a, orders'), DOMAIN orders') = accounts[a].held - BondOf(a, orders[o]) + 0
    BY <1>5, <1>9, <2>1
  <2>3. CASE a = b
    BY <1>4, <1>5, <1>8, <2>1, <2>2, <2>3
  <2>4. CASE a = p
    BY <1>4, <1>5, <1>8, <2>1, <2>2, <2>4
  <2>5. CASE a \notin {b, p}
    BY <1>5, <1>8, <2>1, <2>2, <2>5
  <2> QED BY <2>3, <2>4, <2>5
<1>13. SupplyConserved'
  <2>1. Total(Wealth(accounts), Accounts) = issued
    BY DEF ProtocolInv, SupplyConserved, Wealth
  <2>2. Total(Wealth(accounts'), Accounts) = issued'
    BY <1>8, <2>1
  <2> QED BY <2>2 DEF SupplyConserved, Wealth
<1>14. BooksTyped'
  BY <1>8, <1>a DEF ProtocolInv, BooksTyped, Applied
<1>15. OffersOK'
  BY DEF ProtocolInv, OffersOK
<1> QED BY <1>10, <1>11, <1>12, <1>13, <1>14, <1>15 DEF ProtocolInv

\* The panel of a round is paid by the two parties.
LEMMA PanelPaid ==
  ASSUME accounts \in [Accounts -> AccountType], NEW u, NEW b \in Accounts, NEW p \in Accounts,
         NEW k, b # p, u.buyer = b, u.provider = p, u.round = k,
         accounts[b].held >= BuyerFee(b, p, k), accounts[p].held >= ProviderFee(b, p, k)
  PROVE  LET new == PayPanel(u)
         IN  /\ new \in [Accounts -> AccountType]
             /\ new[b].held = accounts[b].held - BuyerFee(b, p, k)
             /\ new[p].held = accounts[p].held - ProviderFee(b, p, k)
             /\ \A a \in Accounts \ {b, p} : new[a].held = accounts[a].held
             /\ Total(Wealth(new), Accounts) = Total(Wealth(accounts), Accounts)
<1> DEFINE new  == PayPanel(u)
           P    == Panel(b, p, k)
           gain == [a \in Accounts |-> IF a \in P THEN Fee[a] ELSE 0]
<1>1. PICK c \in Nat, d \in Nat : c = BuyerFee(b, p, k) /\ d = ProviderFee(b, p, k)
  BY PanelFees
<1>2. /\ P \subseteq Accounts \ {b, p} /\ c + d = Total(Fee, P)
      /\ \A a \in P : Fee[a] \in Nat
  <2>1. Amounting(Fee, P) /\ P \subseteq JudgeSet \ {b, p} /\ c + d = RoundFee(b, p, k)
    BY <1>1, PanelFees
  <2> QED BY <2>1, FiniteAccounts DEF Amounting, RoundFee
<1>3. \A a \in Accounts : /\ accounts[a] \in AccountType /\ accounts[a].available \in Nat
                          /\ accounts[a].held \in Nat /\ accounts[a].earned \in Nat
  BY WealthType
<1>4. new = [a \in Accounts |->
               CASE a = b -> [accounts[a] EXCEPT !.held = @ - c]
                 [] a = p -> [accounts[a] EXCEPT !.held = @ - d]
                 [] a \in P -> [accounts[a] EXCEPT !.available = @ + Fee[a], !.earned = @ + Fee[a]]
                 [] OTHER -> accounts[a]]
  BY <1>1 DEF PayPanel
<1> HIDE DEF new, P
<1>5. /\ new = [a \in Accounts |-> new[a]]
      /\ new[b] = [accounts[b] EXCEPT !.held = @ - c]
      /\ new[p] = [accounts[p] EXCEPT !.held = @ - d]
      /\ \A a \in P : new[a] = [accounts[a] EXCEPT !.available = @ + Fee[a], !.earned = @ + Fee[a]]
      /\ \A a \in Accounts \ ({b, p} \cup P) : new[a] = accounts[a]
  BY <1>2, <1>4
<1>6. /\ new[b] \in AccountType /\ new[b].held = accounts[b].held - c
      /\ new[b].available = accounts[b].available
  <2>1. PICK B \in AccountType, h \in Nat : B = accounts[b] /\ h = accounts[b].held - c
    BY <1>1, <1>3
  <2>2. new[b] = [B EXCEPT !.held = h]
    BY <1>5, <2>1
  <2> QED BY <2>1, <2>2 DEF AccountType
<1>7. /\ new[p] \in AccountType /\ new[p].held = accounts[p].held - d
      /\ new[p].available = accounts[p].available
  <2>1. PICK B \in AccountType, h \in Nat : B = accounts[p] /\ h = accounts[p].held - d
    BY <1>1, <1>3
  <2>2. new[p] = [B EXCEPT !.held = h]
    BY <1>5, <2>1
  <2> QED BY <2>1, <2>2 DEF AccountType
<1>8. ASSUME NEW a \in P
      PROVE  /\ new[a] \in AccountType /\ new[a].held = accounts[a].held
             /\ new[a].available = accounts[a].available + Fee[a]
  <2>1. a \in Accounts
    BY <1>2
  <2>2. PICK B \in AccountType, h \in Nat, e \in Nat :
          B = accounts[a] /\ h = accounts[a].available + Fee[a] /\ e = accounts[a].earned + Fee[a]
    BY <1>2, <1>3, <2>1
  <2>3. new[a] = [B EXCEPT !.available = h, !.earned = e]
    BY <1>5, <2>2
  <2> QED BY <2>2, <2>3 DEF AccountType
<1>9. new \in [Accounts -> AccountType]
  <2>1. \A a \in Accounts : new[a] \in AccountType
    BY <1>3, <1>5, <1>6, <1>7, <1>8
  <2> QED BY <1>5, <2>1
<1>10. \A a \in Accounts \ {b, p} : new[a].held = accounts[a].held
  BY <1>5, <1>8
<1> DEFINE charge == [a \in Accounts |-> IF a = b THEN c ELSE IF a = p THEN d ELSE 0]
           sum    == [a \in Accounts |-> Wealth(accounts)[a] + gain[a]]
<1>11. Amounting(gain, Accounts) /\ Amounting(charge, Accounts)
  BY <1>2, FiniteAccounts DEF Amounting
<1>12. Total(gain, Accounts) = c + d
  <2>1. \A a \in P : Fee[a] = gain[a]
    BY <1>2
  <2>2. \A a \in Accounts \ P : gain[a] = 0 /\ P \subseteq Accounts
    BY <1>2
  <2>3. P \subseteq Accounts
    BY <1>2
  <2> HIDE DEF gain
  <2>4. Total(Fee, P) = Total(gain, Accounts)
    BY <2>1, <2>2, <2>3, TotalSupport
  <2> QED BY <1>2, <2>4
<1>13. Total(charge, Accounts) = c + d
  <2>1. charge[b] = c /\ charge[p] = d /\ \A a \in Accounts \ {b, p} : charge[a] = 0
    OBVIOUS
  <2> HIDE DEF charge
  <2>2. Amounting(charge, {}) /\ Total(charge, {}) = 0
    BY TotalEmpty, FS_EmptySet DEF Amounting
  <2>3. Amounting(charge, {} \cup {b}) /\ Total(charge, {} \cup {b}) = 0 + c
    <3>1. b \notin {} /\ charge[b] \in Nat
      BY <2>1
    <3> QED BY <2>1, <2>2, <3>1, TotalAdd
  <2>4. {} \cup {b} = {b}
    OBVIOUS
  <2>5. Amounting(charge, {b}) /\ Total(charge, {b}) = c
    BY <2>3, <2>4
  <2>6. Total(charge, {b} \cup {p}) = c + d
    <3>1. p \notin {b} /\ charge[p] \in Nat
      BY <2>1
    <3> QED BY <2>1, <2>5, <3>1, TotalAdd
  <2>7. {b} \cup {p} = {b, p} /\ {b, p} \subseteq Accounts
    OBVIOUS
  <2>8. Total(charge, {b, p}) = Total(charge, Accounts)
    <3>1. \A a \in {b, p} : charge[a] = charge[a]
      OBVIOUS
    <3> QED BY <2>1, <2>7, <3>1, TotalSupport
  <2> QED BY <2>6, <2>7, <2>8
<1>14. \A a \in Accounts : /\ sum[a] = Wealth(accounts)[a] + gain[a]
                           /\ sum[a] = Wealth(new)[a] + charge[a]
  <2> SUFFICES ASSUME NEW a \in Accounts PROVE sum[a] = Wealth(new)[a] + charge[a]
    OBVIOUS
  <2>1. /\ Wealth(new)[a] = new[a].available + new[a].held
        /\ Wealth(accounts)[a] = accounts[a].available + accounts[a].held
    BY DEF Wealth
  <2>2. accounts[a].available \in Nat /\ accounts[a].held \in Nat
    BY <1>3
  <2>3. CASE a = b
    BY <1>2, <1>6, <2>1, <2>2, <2>3
  <2>4. CASE a = p
    BY <1>2, <1>7, <2>1, <2>2, <2>4
  <2>5. CASE a \in P
    BY <1>2, <1>8, <2>1, <2>2, <2>5
  <2>6. CASE a \notin {b, p} \cup P
    BY <1>5, <2>1, <2>2, <2>6
  <2> QED BY <2>3, <2>4, <2>5, <2>6
<1>15. Amounting(Wealth(accounts), Accounts) /\ Amounting(Wealth(new), Accounts)
  BY <1>9, WealthType
<1> HIDE DEF gain, charge, sum
<1>16. /\ Total(sum, Accounts) = Total(Wealth(accounts), Accounts) + (c + d)
       /\ Total(sum, Accounts) = Total(Wealth(new), Accounts) + (c + d)
  <2>1. Total(sum, Accounts) = Total(Wealth(accounts), Accounts) + Total(gain, Accounts)
    BY <1>11, <1>14, <1>15, TotalPlus
  <2>2. Total(sum, Accounts) = Total(Wealth(new), Accounts) + Total(charge, Accounts)
    BY <1>11, <1>14, <1>15, TotalPlus
  <2> QED BY <1>12, <1>13, <2>1, <2>2
<1>17. Total(Wealth(accounts), Accounts) \in Nat /\ Total(Wealth(new), Accounts) \in Nat
  BY <1>15, TotalType
<1>18. Total(Wealth(new), Accounts) = Total(Wealth(accounts), Accounts)
  BY <1>16, <1>17
<1> QED BY <1>1, <1>6, <1>7, <1>9, <1>10, <1>18 DEF new

\* A command of party q on the open order o uses up one of its operations.
LEMMA Acting ==
  ASSUME ProtocolInv, NEW o \in DOMAIN orders, NEW q, OrderAction(q, o)
  PROVE  /\ OrderOK(orders[o]) /\ orders[o] \in OrderType /\ Running(orders[o])
         /\ q \in Both(orders[o]) /\ q \in Accounts
         /\ Charged(o) = Use1(orders[o]) /\ Parties(o) = Both(orders[o])
<1>1. OrderOK(orders[o]) /\ orders[o] \in OrderType
  BY DEF ProtocolInv, OrdersOK, OrderOK
<1>2. orders[o].buyer \in Accounts /\ orders[o].provider \in Accounts
  BY <1>1 DEF OrderType
<1> QED BY <1>1, <1>2 DEF OrderAction, Open, Running, Parties, Both, Charged, Use1

\* A ruling.
LEMMA RuleStep ==
  ASSUME ProtocolInv, NEW o \in DOMAIN orders, NEW q, NEW t \in Nat, Rule(q, o, t)
  PROVE  ProtocolInv'
<1> DEFINE r == orders[o]
           u == Use1(r)
<1>1. /\ OrderOK(r) /\ r \in OrderType /\ Running(r) /\ Charged(o) = u
  BY Acting DEF Rule
<1>2. /\ u.status = r.status /\ u.buyer = r.buyer /\ u.provider = r.provider /\ u.price = r.price
      /\ u.round = r.round /\ u.evidence = r.evidence
  BY <1>1, Use1Type
<1>3. PICK b \in Accounts, p \in Accounts : b = r.buyer /\ p = r.provider
  BY <1>1 DEF OrderType
<1>a. b # p
  BY <1>1, <1>3 DEF OrderOK
<1>4. /\ r.status = "disputed" /\ r.evidence = Both(r)
      /\ accounts' = PayPanel(u) /\ Applied(t) /\ UNCHANGED <<listings, proposals, issued, rewards>>
  BY <1>1, <1>2 DEF Rule, Both
<1>b. r.round \in {0, 1} /\ PanelAvailable(r.buyer, r.provider)
  BY <1>1, <1>4 DEF OrderOK, StageOK, OrderType
<1>5. PICK c \in Nat, d \in Nat : c = BuyerFee(b, p, r.round) /\ d = ProviderFee(b, p, r.round)
  BY PanelFees
<1>6. PICK share \in [Panel(b, p, r.round) -> Shares] :
        Swaps(orders, o, [u EXCEPT !.status = "ruling_ready", !.ruling = Median(share),
                                   !.waivers = {}, !.appealUntil = t + AppealWindow,
                                   !.buyerReserve = @ - c, !.providerReserve = @ - d], orders')
  BY <1>1, <1>2, <1>3, <1>5 DEF Rule, Swaps
<1> DEFINE n == [u EXCEPT !.status = "ruling_ready", !.ruling = Median(share),
                          !.waivers = {}, !.appealUntil = t + AppealWindow,
                          !.buyerReserve = @ - c, !.providerReserve = @ - d]
<1>7. PICK m \in Shares : m = Median(share)
  <2>1. PICK k \in {0, 1} : k = r.round
    BY <1>b
  <2>2. PanelAvailable(b, p)
    BY <1>b, <1>3
  <2>3. Trio(Panel(b, p, k))
    BY <2>2, RoundOfThree
  <2>4. Trio(Panel(b, p, r.round))
    BY <2>1, <2>3
  <2> QED BY <2>4, MedianType
<1>8. /\ OrderOK(n) /\ Running(n)
      /\ n.buyer = r.buyer /\ n.provider = r.provider /\ n.price = r.price
      /\ n.buyerReserve = r.buyerReserve - c
      /\ n.providerReserve = r.providerReserve - d
      /\ n.remaining = r.remaining - 1
  <2>1. t \in Int
    OBVIOUS
  <2>2. n = Ruled(r, m, t)
    BY <1>3, <1>5, <1>7 DEF Ruled
  <2> HIDE DEF n
  <2>3. /\ OrderOK(n) /\ Running(n)
        /\ n.buyer = r.buyer /\ n.provider = r.provider /\ n.price = r.price
        /\ n.buyerReserve = r.buyerReserve - BuyerFee(r.buyer, r.provider, r.round)
        /\ n.providerReserve = r.providerReserve - ProviderFee(r.buyer, r.provider, r.round)
        /\ n.remaining = r.remaining - 1
    BY <1>1, <1>4, <1>7, <2>1, <2>2, RulingOK
  <2> QED BY <1>3, <1>5, <2>3
<1>9. Swaps(orders, o, n, orders')
  BY <1>6
<1>10. /\ Good(orders) /\ OrdersOK /\ accounts \in [Accounts -> AccountType] /\ ops \in Nat
       /\ r.price \in Nat /\ r.buyerReserve \in Nat /\ r.providerReserve \in Nat
       /\ n.buyerReserve \in Nat /\ n.providerReserve \in Nat
  BY <1>1, <1>8 DEF ProtocolInv, OrdersOK, Good, BooksTyped, OrderOK, OrderType
<1> HIDE DEF n, u
<1>11. /\ BondOf(b, r) = r.price + r.buyerReserve /\ BondOf(b, n) = BondOf(b, r) - c
       /\ BondOf(p, r) = r.providerReserve /\ BondOf(p, n) = BondOf(p, r) - d
       /\ \A a : a \notin {b, p} => BondOf(a, n) = 0 /\ BondOf(a, r) = 0
  BY <1>1, <1>3, <1>a, <1>8, <1>10 DEF BondOf
<1>12. accounts[b].held >= c /\ accounts[p].held >= d
  <2>1. BondOf(b, orders[o]) <= accounts[b].held /\ BondOf(p, orders[o]) <= accounts[p].held
    BY BondCovered
  <2>2. accounts[b].held \in Nat /\ accounts[p].held \in Nat
    BY <1>10, WealthType
  <2> QED BY <1>8, <1>10, <1>11, <2>1, <2>2
<1>13. /\ accounts' \in [Accounts -> AccountType]
       /\ accounts'[b].held = accounts[b].held - c
       /\ accounts'[p].held = accounts[p].held - d
       /\ \A a \in Accounts \ {b, p} : accounts'[a].held = accounts[a].held
       /\ Total(Wealth(accounts'), Accounts) = Total(Wealth(accounts), Accounts)
  BY <1>2, <1>3, <1>4, <1>5, <1>a, <1>10, <1>12, PanelPaid
<1>14. /\ Good(orders')
       /\ Total(Promised(orders'), DOMAIN orders')
            = Total(Promised(orders), DOMAIN orders) - LeftOf(orders[o]) + LeftOf(n)
       /\ \A a : Total(Bonded(a, orders'), DOMAIN orders')
                  = Total(Bonded(a, orders), DOMAIN orders) - BondOf(a, orders[o]) + BondOf(a, n)
  BY <1>8, <1>9, <1>10, Replaced
<1>15. OrdersOK'
  BY <1>14 DEF OrdersOK, Good
<1>16. CapacityReserved'
  <2>1. ops + Reserved <= MaxOperations
    BY DEF ProtocolInv, CapacityReserved
  <2>2. Total(Promised(orders), DOMAIN orders) \in Nat
    BY <1>10, Weights, TotalType
  <2>3. /\ Reserved = Total(Promised(orders), DOMAIN orders)
        /\ Reserved' = Total(Promised(orders'), DOMAIN orders')
    BY <1>10, <1>15, InSums, InSumsNext
  <2>4. LeftOf(orders[o]) = r.remaining /\ LeftOf(n) = r.remaining - 1 /\ r.remaining \in Nat
    BY <1>1, <1>8, BudgetLeft DEF LeftOf
  <2>5. Reserved' = Reserved - 1 /\ Reserved \in Nat
    BY <1>14, <2>2, <2>3, <2>4
  <2>6. ops' = ops + 1
    BY <1>4 DEF Applied
  <2>7. ops' + Reserved' <= MaxOperations
    BY <1>10, <2>1, <2>5, <2>6, Constants
  <2> QED BY <2>7 DEF CapacityReserved
<1>17. EscrowBacked'
  <2> SUFFICES ASSUME NEW a \in Accounts
               PROVE  accounts'[a].held = Total(Bonded(a, orders'), DOMAIN orders')
    BY <1>15, InSumsNext
  <2>1. accounts[a].held = Total(Bonded(a, orders), DOMAIN orders) /\ accounts[a].held \in Nat
    BY <1>10, BondCovered, WealthType
  <2>2. Total(Bonded(a, orders'), DOMAIN orders') = accounts[a].held - BondOf(a, r) + BondOf(a, n)
    BY <1>14, <2>1
  <2>3. CASE a = b
    BY <1>10, <1>11, <1>13, <2>1, <2>2, <2>3
  <2>4. CASE a = p
    BY <1>10, <1>11, <1>13, <2>1, <2>2, <2>4
  <2>5. CASE a \notin {b, p}
    BY <1>11, <1>13, <2>1, <2>2, <2>5
  <2> QED BY <2>3, <2>4, <2>5
<1>18. SupplyConserved'
  <2>1. Total(Wealth(accounts), Accounts) = issued
    BY DEF ProtocolInv, SupplyConserved, Wealth
  <2>2. Total(Wealth(accounts'), Accounts) = issued'
    BY <1>4, <1>13, <2>1
  <2> QED BY <2>2 DEF SupplyConserved, Wealth
<1>19. BooksTyped'
  BY <1>4, <1>10, <1>13 DEF ProtocolInv, BooksTyped, Applied
<1>20. OffersOK'
  BY <1>4 DEF ProtocolInv, OffersOK
<1> QED BY <1>15, <1>16, <1>17, <1>18, <1>19, <1>20 DEF ProtocolInv

\* One party closes its order.
LEMMA ClosingStep ==
  ASSUME ProtocolInv, NEW o \in DOMAIN orders, NEW q, OrderAction(q, o), NEW paid, NEW status,
         NEW t \in Nat, Close(q, o, Charged(o), paid, status, t),
         MayClose(Use1(orders[o]), q, paid, status, t)
  PROVE  ProtocolInv'
<1> DEFINE r == orders[o]
           u == Use1(r)
           n == Closed(u, q, paid, status, t)
<1>1. OrderOK(r) /\ r \in OrderType /\ Running(r) /\ q \in Accounts /\ Charged(o) = u
  BY Acting
<1>2. /\ u.price = r.price /\ r.price \in Nat /\ u.buyer = r.buyer /\ u.provider = r.provider
      /\ u.buyerReserve = r.buyerReserve /\ u.providerReserve = r.providerReserve
  BY <1>1, Use1Type DEF OrderType
<1>3. /\ Swaps(orders, o, n, orders') /\ accounts' = Release(u, paid) /\ Applied(t)
      /\ UNCHANGED <<listings, proposals, issued, rewards>> /\ paid \in 0..u.price
  BY <1>1 DEF Close, Closed, Swaps
<1>4. paid \in Nat /\ paid <= u.price /\ paid \in Int /\ t \in Int
  BY <1>2, <1>3
<1>5. OrderOK(n) /\ ~Running(n)
  BY <1>1, <1>4, CloseOK
<1> HIDE DEF n, u
<1> QED BY <1>1, <1>2, <1>3, <1>4, <1>5, CloseStep

\* Whatever a party does to an order, it acts on an open order of its own.
LEMMA OrderActions ==
  ASSUME NEW o, NEW q, NEW t,
         \/ Deliver(q, o, t) \/ Accept(q, o, t)  \/ Refund(q, o, t) \/ Dispute(q, o, t)
         \/ Evidence(q, o, t) \/ Rule(q, o, t) \/ Appeal(q, o, t) \/ Waive(q, o, t)
         \/ Finalize(q, o, t) \/ Timeout(q, o, t)
  PROVE  OrderAction(q, o)
<1>1. /\ Deliver(q, o, t) => OrderAction(q, o)
      /\ Dispute(q, o, t) => OrderAction(q, o)
      /\ Evidence(q, o, t) => OrderAction(q, o)
  BY DEF Deliver, Dispute, Evidence
<1>2. /\ Accept(q, o, t) => OrderAction(q, o)
      /\ Refund(q, o, t) => OrderAction(q, o)
      /\ Finalize(q, o, t) => OrderAction(q, o)
  BY DEF Accept, Refund, Finalize
<1>3. /\ Appeal(q, o, t) => OrderAction(q, o)
      /\ Waive(q, o, t) => OrderAction(q, o)
      /\ Timeout(q, o, t) => OrderAction(q, o)
  BY DEF Appeal, Waive, Timeout
<1>4. Rule(q, o, t) => OrderAction(q, o)
  BY DEF Rule
<1> QED BY <1>1, <1>2, <1>3, <1>4

\* Every order action keeps the invariant.
LEMMA OrderStepInv ==
  ASSUME ProtocolInv, NEW o \in DOMAIN orders, NEW q, NEW t \in Nat,
         \/ Deliver(q, o, t) \/ Accept(q, o, t)  \/ Refund(q, o, t) \/ Dispute(q, o, t)
         \/ Evidence(q, o, t) \/ Rule(q, o, t) \/ Appeal(q, o, t) \/ Waive(q, o, t)
         \/ Finalize(q, o, t) \/ Timeout(q, o, t)
  PROVE  ProtocolInv'
<1> DEFINE r == orders[o]
           u == Use1(r)
<1>1. OrderAction(q, o)
  BY OrderActions
<1>2. /\ OrderOK(r) /\ r \in OrderType /\ Running(r) /\ q \in Both(r) /\ q \in Accounts
      /\ Charged(o) = u
  BY <1>1, Acting
<1>3. /\ u.status = r.status /\ u.buyer = r.buyer /\ u.provider = r.provider /\ u.price = r.price
      /\ u.buyerReserve = r.buyerReserve /\ u.providerReserve = r.providerReserve
      /\ u.round = r.round /\ u.revisions = r.revisions
      /\ u.evidence = r.evidence /\ u.refunds = r.refunds /\ u.waivers = r.waivers
      /\ u.reviewUntil = r.reviewUntil
  BY <1>2, Use1Type
<1>4. t \in Int
  OBVIOUS
<1>5. CASE Deliver(q, o, t)
  <2>1. PICK until \in Int : until = IF u.status = "working" THEN t + ReviewWindow ELSE u.reviewUntil
    BY <1>2, <1>3, Constants DEF OrderType
  <2> DEFINE n == [u EXCEPT !.status = "delivered", !.revisions = @ + 1, !.reviewUntil = until]
  <2>2. Becomes(o, n, t) /\ r.status \in {"working", "delivered"} /\ r.revisions < MaxRevisions
    BY <1>2, <1>3, <1>5, <2>1 DEF Deliver
  <2>3. Advanced(r, n)
    BY <1>2, <2>2, DeliverOK
  <2> HIDE DEF n
  <2> QED BY <1>2, <2>2, <2>3, AdvanceStep
<1>6. CASE Accept(q, o, t)
  <2>1. Close(q, o, Charged(o), u.price, "accepted", t) /\ q = u.buyer /\ u.status = "delivered"
    BY <1>2, <1>6 DEF Accept
  <2>2. MayClose(u, q, u.price, "accepted", t)
    BY <2>1 DEF MayClose
  <2> QED BY <1>1, <2>1, <2>2, ClosingStep
<1>7. CASE Refund(q, o, t)
  <2> DEFINE n == [u EXCEPT !.refunds = @ \cup {q}]
  <2>1. /\ q \notin r.refunds
        /\ IF Cardinality(n.refunds) = 2 THEN Close(q, o, n, 0, "refunded", t) ELSE Becomes(o, n, t)
    BY <1>2, <1>7 DEF Refund
  <2>2. n.refunds = r.refunds \cup {q}
    <3>1. u \in OrderType
      BY <1>2, Use1Type
    <3> QED BY <1>3, <3>1 DEF OrderType
  <2>3. CASE Cardinality(n.refunds) = 2
    <3> DEFINE x == Closed(n, q, 0, "refunded", t)
    <3>1. /\ OrderOK(x) /\ ~Running(x)
          /\ n.buyer = r.buyer /\ n.provider = r.provider /\ n.price = r.price
          /\ n.buyerReserve = r.buyerReserve /\ n.providerReserve = r.providerReserve
      BY <1>2, <1>4, <2>1, <2>2, <2>3, RefundCloses
    <3>2. /\ Swaps(orders, o, x, orders') /\ accounts' = Release(n, 0) /\ Applied(t)
          /\ UNCHANGED <<listings, proposals, issued, rewards>>
      BY <2>1, <2>3 DEF Close, Closed, Swaps
    <3>3. PICK z \in Nat : z = 0
      OBVIOUS
    <3>4. z <= n.price /\ accounts' = Release(n, z)
      BY <1>2, <3>1, <3>2, <3>3 DEF OrderType
    <3> HIDE DEF n, x
    <3> QED BY <1>2, <3>1, <3>2, <3>3, <3>4, CloseStep
  <2>4. CASE Cardinality(n.refunds) # 2
    <3>1. Advanced(r, n)
      BY <1>2, <2>1, <2>2, <2>4, RefundOK
    <3>2. Becomes(o, n, t)
      BY <2>1, <2>4
    <3> HIDE DEF n
    <3> QED BY <1>2, <3>1, <3>2, AdvanceStep
  <2> QED BY <2>3, <2>4
<1>8. CASE Dispute(q, o, t)
  <2> DEFINE n == OpenCase(u, 0, t)
  <2>1. /\ Becomes(o, n, t) /\ r.status \in {"working", "delivered"}
        /\ PanelAvailable(r.buyer, r.provider)
    BY <1>2, <1>3, <1>8 DEF Dispute
  <2>2. PICK k \in {0, 1} : k = 0
    OBVIOUS
  <2>3. Advanced(r, OpenCase(u, k, t))
    BY <1>2, <1>4, <2>1, <2>2, CaseOK
  <2>4. Advanced(r, n)
    BY <2>2, <2>3
  <2> HIDE DEF n
  <2> QED BY <1>2, <2>1, <2>4, AdvanceStep
<1>9. CASE Evidence(q, o, t)
  <2> DEFINE n == [u EXCEPT !.evidence = @ \cup {q}]
  <2>1. Becomes(o, n, t) /\ r.status = "disputed" /\ q \notin r.evidence
    BY <1>2, <1>3, <1>9 DEF Evidence
  <2>2. Advanced(r, n)
    BY <1>2, <2>1, EvidenceOK
  <2> HIDE DEF n
  <2> QED BY <1>2, <2>1, <2>2, AdvanceStep
<1>10. CASE Rule(q, o, t)
  BY <1>10, RuleStep
<1>11. CASE Appeal(q, o, t)
  <2> DEFINE n == OpenCase(u, 1, t)
  <2>1. Becomes(o, n, t) /\ r.status = "ruling_ready" /\ r.round = 0 /\ q \notin r.waivers
    BY <1>2, <1>3, <1>11 DEF Appeal, HasNotWaived
  <2>2. r.waivers # Both(r) /\ PanelAvailable(r.buyer, r.provider)
    BY <1>2, <2>1 DEF OrderOK, StageOK, Unset
  <2>3. PICK k \in {0, 1} : k = 1
    OBVIOUS
  <2>4. Advanced(r, OpenCase(u, k, t))
    BY <1>2, <1>4, <2>1, <2>2, <2>3, CaseOK
  <2>5. Advanced(r, n)
    BY <2>3, <2>4
  <2> HIDE DEF n
  <2> QED BY <1>2, <2>1, <2>5, AdvanceStep
<1>12. CASE Waive(q, o, t)
  <2> DEFINE n == [u EXCEPT !.waivers = @ \cup {q}]
  <2>1. Becomes(o, n, t) /\ r.status = "ruling_ready" /\ q \notin r.waivers
    BY <1>2, <1>3, <1>12 DEF Waive
  <2>2. Advanced(r, n)
    BY <1>2, <2>1, WaiveOK
  <2> HIDE DEF n
  <2> QED BY <1>2, <2>1, <2>2, AdvanceStep
<1>13. CASE Finalize(q, o, t)
  <2>1. /\ Close(q, o, Charged(o), (u.price * u.ruling) \div 10000, "resolved", t)
        /\ u.status = "ruling_ready" /\ (t >= u.appealUntil \/ BothWaived(u))
    BY <1>2, <1>13 DEF Finalize
  <2>2. BothWaived(u) => u.waivers = Both(u)
    <3>1. r.waivers \in SUBSET Both(r)
      BY <1>2, PartySets
    <3>2. Cardinality(r.waivers) = 2 <=> r.waivers = Both(r)
      BY <1>2, <3>1, OrderCounts
    <3> QED BY <1>3, <3>2 DEF BothWaived, Both
  <2>3. MayClose(u, q, (u.price * u.ruling) \div 10000, "resolved", t)
    BY <2>1, <2>2 DEF MayClose
  <2> QED BY <1>1, <2>1, <2>3, ClosingStep
<1>14. CASE Timeout(q, o, t)
  <2>1. /\ t >= Deadline(u)
        /\ \/ u.status = "working"   /\ Close(q, o, Charged(o), 0, "refunded", t)
           \/ u.status = "delivered" /\ Close(q, o, Charged(o), u.price, "accepted", t)
           \/ /\ u.status \in {"disputed", "ruling_ready"}
              /\ Close(q, o, Charged(o), (u.price * TimeoutShare(u)) \div 10000, "resolved", t)
    BY <1>2, <1>14 DEF Timeout, WindowOver
  <2>2. /\ u.status = "working" => MayClose(u, q, 0, "refunded", t)
        /\ u.status = "delivered" => MayClose(u, q, u.price, "accepted", t)
        /\ u.status \in {"disputed", "ruling_ready"}
             => MayClose(u, q, (u.price * TimeoutShare(u)) \div 10000, "resolved", t)
    BY <2>1 DEF MayClose
  <2> HIDE DEF u
  <2>3. MayClose(u, q, 0, "refunded", t) /\ Close(q, o, Charged(o), 0, "refunded", t) => ProtocolInv'
    BY <1>1, ClosingStep DEF u
  <2>4. MayClose(u, q, u.price, "accepted", t) /\ Close(q, o, Charged(o), u.price, "accepted", t)
          => ProtocolInv'
    BY <1>1, ClosingStep DEF u
  <2>5. (/\ MayClose(u, q, (u.price * TimeoutShare(u)) \div 10000, "resolved", t)
         /\ Close(q, o, Charged(o), (u.price * TimeoutShare(u)) \div 10000, "resolved", t))
          => ProtocolInv'
    BY <1>1, ClosingStep DEF u
  <2> QED BY <2>1, <2>2, <2>3, <2>4, <2>5
<1> QED BY <1>5, <1>6, <1>7, <1>8, <1>9, <1>10, <1>11, <1>12, <1>13, <1>14
----------------------------------------------------------------------------
\* Balances are the same on all accounts.
SameBalances(old, new) ==
  \A a \in Accounts : /\ new[a].available = old[a].available /\ new[a].held = old[a].held
                      /\ new[a].earned = old[a].earned

\* One account of accs is set to v.
LEMMA OneAccount ==
  ASSUME NEW accs \in [Accounts -> AccountType], NEW p \in Accounts, NEW v \in AccountType,
         NEW new, new = [accs EXCEPT ![p] = v]
  PROVE  /\ new \in [Accounts -> AccountType] /\ new[p] = v
         /\ \A a \in Accounts \ {p} : new[a] = accs[a]
OBVIOUS

\* An admission counts against the account that makes it, and moves no credits.
LEMMA AdmittedBooks ==
  ASSUME accounts \in [Accounts -> AccountType], NEW p \in Accounts,
         accounts[p].admissions < MaxAccountAdmissions
  PROVE  Admitted(p) \in [Accounts -> AccountType] /\ SameBalances(accounts, Admitted(p))
<1> DEFINE new == Admitted(p)
<1>1. PICK B \in AccountType : B = accounts[p]
  OBVIOUS
<1>2. PICK m \in 0..MaxAccountAdmissions : m = B.admissions + 1
  BY <1>1, Constants DEF AccountType
<1>3. PICK v \in AccountType : v = [B EXCEPT !.admissions = m]
  BY <1>1, <1>2 DEF AccountType
<1>4. v.available = B.available /\ v.held = B.held /\ v.earned = B.earned
  BY <1>1, <1>3 DEF AccountType
<1>5. new = [accounts EXCEPT ![p] = v]
  BY <1>1, <1>2, <1>3 DEF Admitted
<1> HIDE DEF new
<1>6. /\ new \in [Accounts -> AccountType] /\ new[p] = v
      /\ \A a \in Accounts \ {p} : new[a] = accounts[a]
  BY <1>3, <1>5, OneAccount
<1>7. SameBalances(accounts, new)
  BY <1>1, <1>4, <1>6 DEF SameBalances
<1> QED BY <1>6, <1>7 DEF new

\* One account becomes richer.
LEMMA WealthAdded ==
  ASSUME NEW accs \in [Accounts -> AccountType], NEW new \in [Accounts -> AccountType],
         NEW p \in Accounts, \A a \in Accounts \ {p} : new[a] = accs[a]
  PROVE  Total(Wealth(new), Accounts)
           = Total(Wealth(accs), Accounts) - (accs[p].available + accs[p].held)
               + (new[p].available + new[p].held)
<1>1. Amounting(Wealth(accs), Accounts) /\ Amounting(Wealth(new), Accounts)
  BY WealthType
<1>2. \A a \in Accounts \ {p} : Wealth(accs)[a] = Wealth(new)[a]
  BY DEF Wealth
<1>3. Total(Wealth(new), Accounts)
        = Total(Wealth(accs), Accounts) - Wealth(accs)[p] + Wealth(new)[p]
  BY <1>1, <1>2, TotalChange
<1> QED BY <1>3 DEF Wealth

\* A command that is admitted and leaves the orders and what is held alone.
LEMMA AdmissionKeeps ==
  ASSUME ProtocolInv, NEW q \in Accounts, Admissible(q, 1),
         accounts' \in [Accounts -> AccountType],
         \A a \in Accounts : accounts'[a].held = accounts[a].held,
         Total(Wealth(accounts'), Accounts) = issued', issued' \in 0..IssuanceLimit,
         rewards' \in [Jobs -> Traders \cup {Nobody}], orders' = orders, NEW t \in Nat, Applied(t),
         OffersOK'
  PROVE  ProtocolInv'
<1>1. OrdersOK' /\ OrdersOK
  BY DEF ProtocolInv, OrdersOK
<1>2. ops' = ops + 1 /\ time' = t /\ ops \in Nat
  BY DEF Applied, ProtocolInv, BooksTyped
<1>3. CapacityReserved'
  <2>1. Reserved' = Reserved
    BY <1>1, InSums, InSumsNext
  <2>2. Reserved \in Nat
    <3>1. Good(orders)
      BY <1>1 DEF Good, OrdersOK
    <3> QED BY <1>1, <3>1, InSums, Weights, TotalType
  <2>3. ops + Reserved + 1 <= MaxOperations
    BY DEF Admissible
  <2>4. ops' + Reserved' <= MaxOperations
    BY <1>2, <2>1, <2>2, <2>3, Constants
  <2> QED BY <2>4 DEF CapacityReserved
<1>4. EscrowBacked'
  <2>1. \A a \in Accounts : accounts[a].held = Total(Bonded(a, orders), DOMAIN orders)
    BY <1>1, InSums DEF ProtocolInv
  <2> QED BY <1>1, <2>1, InSumsNext
<1>5. SupplyConserved'
  BY DEF SupplyConserved, Wealth
<1>6. BooksTyped'
  BY <1>2 DEF BooksTyped
<1> QED BY <1>1, <1>3, <1>4, <1>5, <1>6 DEF ProtocolInv

\* What every admission can count on.
LEMMA Admitting ==
  ASSUME ProtocolInv, NEW p \in Traders, NEW k, Admissible(p, k)
  PROVE  /\ p \in Accounts /\ accounts \in [Accounts -> AccountType]
         /\ Admitted(p) \in [Accounts -> AccountType] /\ SameBalances(accounts, Admitted(p))
         /\ Total(Wealth(Admitted(p)), Accounts) = issued /\ issued \in 0..IssuanceLimit
         /\ rewards \in [Jobs -> Traders \cup {Nobody}] /\ OffersOK
<1>1. p \in Accounts
  BY DEF Accounts
<1>2. accounts \in [Accounts -> AccountType] /\ issued \in 0..IssuanceLimit /\ OffersOK
      /\ rewards \in [Jobs -> Traders \cup {Nobody}]
  BY DEF ProtocolInv, BooksTyped
<1>3. Admitted(p) \in [Accounts -> AccountType] /\ SameBalances(accounts, Admitted(p))
  BY <1>1, <1>2, AdmittedBooks DEF Admissible
<1>4. Total(Wealth(Admitted(p)), Accounts) = Total(Wealth(accounts), Accounts)
  BY <1>3, WealthSame DEF SameBalances
<1>5. Total(Wealth(accounts), Accounts) = issued
  BY DEF ProtocolInv, SupplyConserved, Wealth
<1> QED BY <1>1, <1>2, <1>3, <1>4, <1>5

\* Commands that touch one account only, and no balance.
LEMMA ProfileStep ==
  ASSUME ProtocolInv, NEW p \in Traders, NEW t \in Nat, Profile(p, t)
  PROVE  ProtocolInv'
<1> DEFINE adm == Admitted(p)
<1>1. /\ Admissible(p, 1) /\ accounts' = [adm EXCEPT ![p].profile = TRUE] /\ Applied(t)
      /\ UNCHANGED <<listings, proposals, orders, issued, rewards>>
  BY DEF Profile
<1>2. /\ p \in Accounts /\ adm \in [Accounts -> AccountType] /\ SameBalances(accounts, adm)
      /\ Total(Wealth(adm), Accounts) = issued /\ issued \in 0..IssuanceLimit
      /\ rewards \in [Jobs -> Traders \cup {Nobody}] /\ OffersOK
  BY <1>1, Admitting
<1> HIDE DEF adm
<1>3. PICK B \in AccountType : B = adm[p]
  BY <1>2
<1>4. PICK v \in AccountType : v = [B EXCEPT !.profile = TRUE]
  BY <1>3 DEF AccountType
<1>5. v.available = B.available /\ v.held = B.held /\ v.earned = B.earned
  BY <1>3, <1>4 DEF AccountType
<1>6. accounts' = [adm EXCEPT ![p] = v]
  BY <1>1, <1>3, <1>4
<1>7. /\ accounts' \in [Accounts -> AccountType] /\ accounts'[p] = v
      /\ \A a \in Accounts \ {p} : accounts'[a] = adm[a]
  BY <1>2, <1>4, <1>6, OneAccount
<1>8. SameBalances(adm, accounts')
  BY <1>3, <1>5, <1>7 DEF SameBalances
<1>9. Total(Wealth(accounts'), Accounts) = Total(Wealth(adm), Accounts)
  BY <1>8, WealthSame DEF SameBalances
<1>10. \A a \in Accounts : accounts'[a].held = accounts[a].held
  BY <1>2, <1>8 DEF SameBalances
<1>11. OffersOK'
  BY <1>1, <1>2 DEF OffersOK
<1> QED BY <1>1, <1>2, <1>7, <1>9, <1>10, <1>11, AdmissionKeeps

LEMMA DeviceStep ==
  ASSUME ProtocolInv, NEW p \in Traders, NEW d \in Devices, NEW allowed \in BOOLEAN, NEW t \in Nat,
         Device(p, d, allowed, t)
  PROVE  ProtocolInv'
<1> DEFINE adm == Admitted(p)
<1>1. /\ Admissible(p, 1)
      /\ accounts' = [adm EXCEPT ![p].devices = IF allowed THEN @ \cup {d} ELSE @ \ {d}]
      /\ Applied(t) /\ UNCHANGED <<listings, proposals, orders, issued, rewards>>
  BY DEF Device
<1>2. /\ p \in Accounts /\ adm \in [Accounts -> AccountType] /\ SameBalances(accounts, adm)
      /\ Total(Wealth(adm), Accounts) = issued /\ issued \in 0..IssuanceLimit
      /\ rewards \in [Jobs -> Traders \cup {Nobody}] /\ OffersOK
  BY <1>1, Admitting
<1> HIDE DEF adm
<1>3. PICK B \in AccountType : B = adm[p]
  BY <1>2
<1>a. PICK D \in SUBSET Devices : D = IF allowed THEN B.devices \cup {d} ELSE B.devices \ {d}
  <2>1. B.devices \in SUBSET Devices
    BY <1>3 DEF AccountType
  <2> QED BY <2>1
<1>4. PICK v \in AccountType : v = [B EXCEPT !.devices = D]
  BY <1>3, <1>a DEF AccountType
<1>5. v.available = B.available /\ v.held = B.held /\ v.earned = B.earned
  BY <1>3, <1>4 DEF AccountType
<1>6. accounts' = [adm EXCEPT ![p] = v]
  BY <1>1, <1>3, <1>a, <1>4
<1>7. /\ accounts' \in [Accounts -> AccountType] /\ accounts'[p] = v
      /\ \A a \in Accounts \ {p} : accounts'[a] = adm[a]
  BY <1>2, <1>4, <1>6, OneAccount
<1>8. SameBalances(adm, accounts')
  BY <1>3, <1>5, <1>7 DEF SameBalances
<1>9. Total(Wealth(accounts'), Accounts) = Total(Wealth(adm), Accounts)
  BY <1>8, WealthSame DEF SameBalances
<1>10. \A a \in Accounts : accounts'[a].held = accounts[a].held
  BY <1>2, <1>8 DEF SameBalances
<1>11. OffersOK'
  BY <1>1, <1>2 DEF OffersOK
<1> QED BY <1>1, <1>2, <1>7, <1>9, <1>10, <1>11, AdmissionKeeps

\* Credits go from one owner to another.
LEMMA TransferStep ==
  ASSUME ProtocolInv, NEW p \in Traders, NEW q \in Accounts, NEW v \in Prices, NEW t \in Nat,
         Transfer(p, q, v, t)
  PROVE  ProtocolInv'
<1> DEFINE adm == Admitted(p)
<1>1. /\ Admissible(p, 1) /\ q # p /\ accounts[p].available >= v
      /\ accounts' = [adm EXCEPT ![p].available = @ - v,
                                  ![q].available = @ + v, ![q].earned = @ + v]
      /\ Applied(t) /\ UNCHANGED <<listings, proposals, orders, issued, rewards>>
  BY DEF Transfer
<1>2. /\ p \in Accounts /\ adm \in [Accounts -> AccountType] /\ SameBalances(accounts, adm)
      /\ Total(Wealth(adm), Accounts) = issued /\ issued \in 0..IssuanceLimit
      /\ rewards \in [Jobs -> Traders \cup {Nobody}] /\ OffersOK
  BY <1>1, Admitting
<1>a. v \in Nat
  BY Constants
<1> HIDE DEF adm
<1>3. PICK B \in AccountType, C \in AccountType : B = adm[p] /\ C = adm[q]
  BY <1>2
<1>4. /\ B.available \in Nat /\ B.held \in Nat /\ C.available \in Nat /\ C.held \in Nat
      /\ C.earned \in Nat /\ B.available >= v
  BY <1>1, <1>2, <1>3 DEF AccountType, SameBalances
<1>5. PICK x \in Nat, y \in Nat, z \in Nat :
        x = B.available - v /\ y = C.available + v /\ z = C.earned + v
  BY <1>4, <1>a
<1>6. PICK P \in AccountType : P = [B EXCEPT !.available = x]
  BY <1>3, <1>5 DEF AccountType
<1>7. PICK Q \in AccountType : Q = [C EXCEPT !.available = y, !.earned = z]
  BY <1>3, <1>5 DEF AccountType
<1>8. P.available = x /\ P.held = B.held /\ Q.available = y /\ Q.held = C.held
  BY <1>3, <1>6, <1>7 DEF AccountType
<1>9. accounts' = [adm EXCEPT ![p] = P, ![q] = Q]
  BY <1>1, <1>2, <1>3, <1>5, <1>6, <1>7
<1>10. /\ accounts' \in [Accounts -> AccountType] /\ accounts'[p] = P /\ accounts'[q] = Q
       /\ \A a \in Accounts \ {p, q} : accounts'[a] = adm[a]
  <2>1. q # p /\ p \in Accounts /\ adm \in [Accounts -> AccountType]
    BY <1>1, <1>2
  <2> QED BY <1>6, <1>7, <1>9, <2>1
<1>11. Total(Wealth(accounts'), Accounts) = Total(Wealth(adm), Accounts)
  <2>1. Total(Wealth(accounts'), Accounts)
           = Total(Wealth(adm), Accounts)
               - (adm[p].available + adm[p].held) - (adm[q].available + adm[q].held)
               + (accounts'[p].available + accounts'[p].held)
               + (accounts'[q].available + accounts'[q].held)
    <3>1. accounts' \in [Accounts -> AccountType] /\ p # q
          /\ \A a \in Accounts \ {p, q} : accounts'[a] = adm[a]
      BY <1>1, <1>10
    <3>2. p \in Accounts /\ adm \in [Accounts -> AccountType]
      BY <1>2
    <3> QED BY <3>1, <3>2, WealthMoved
  <2>2. issued \in Int
    BY <1>2, Constants
  <2> QED BY <1>2, <1>3, <1>4, <1>5, <1>8, <1>10, <1>a, <2>1, <2>2
<1>12. \A a \in Accounts : accounts'[a].held = accounts[a].held
  <2>1. \A a \in Accounts : accounts'[a].held = adm[a].held
    BY <1>3, <1>8, <1>10
  <2> QED BY <1>2, <2>1 DEF SameBalances
<1>13. OffersOK'
  BY <1>1, <1>2 DEF OffersOK
<1> QED BY <1>1, <1>2, <1>10, <1>11, <1>12, <1>13, AdmissionKeeps

\* Credits are issued for registry work.
LEMMA RewardStep ==
  ASSUME ProtocolInv, NEW p \in Traders, NEW j \in Jobs, NEW t \in Nat, Reward(p, j, t)
  PROVE  ProtocolInv'
<1> DEFINE adm == Admitted(p)
<1>1. /\ Admissible(p, 1) /\ issued + WorkReward <= IssuanceLimit
      /\ accounts' = [adm EXCEPT ![p].available = @ + WorkReward, ![p].earned = @ + WorkReward]
      /\ issued' = issued + WorkReward /\ rewards' = [rewards EXCEPT ![j] = p]
      /\ Applied(t) /\ UNCHANGED <<listings, proposals, orders>>
  BY DEF Reward
<1>2. /\ p \in Accounts /\ adm \in [Accounts -> AccountType] /\ SameBalances(accounts, adm)
      /\ Total(Wealth(adm), Accounts) = issued /\ issued \in 0..IssuanceLimit
      /\ rewards \in [Jobs -> Traders \cup {Nobody}] /\ OffersOK
  BY <1>1, Admitting
<1> HIDE DEF adm
<1>3. PICK B \in AccountType : B = adm[p]
  BY <1>2
<1>4. B.available \in Nat /\ B.held \in Nat /\ B.earned \in Nat
  BY <1>3 DEF AccountType
<1>5. PICK x \in Nat, z \in Nat : x = B.available + WorkReward /\ z = B.earned + WorkReward
  BY <1>4, Constants
<1>6. PICK v \in AccountType : v = [B EXCEPT !.available = x, !.earned = z]
  BY <1>3, <1>5 DEF AccountType
<1>7. v.available = x /\ v.held = B.held
  BY <1>3, <1>6 DEF AccountType
<1>8. accounts' = [adm EXCEPT ![p] = v]
  BY <1>1, <1>2, <1>3, <1>5, <1>6
<1>9. /\ accounts' \in [Accounts -> AccountType] /\ accounts'[p] = v
      /\ \A a \in Accounts \ {p} : accounts'[a] = adm[a]
  BY <1>2, <1>6, <1>8, OneAccount
<1>10. Total(Wealth(accounts'), Accounts) = issued'
  <2>1. Total(Wealth(accounts'), Accounts)
           = Total(Wealth(adm), Accounts) - (adm[p].available + adm[p].held)
               + (accounts'[p].available + accounts'[p].held)
    <3>1. accounts' \in [Accounts -> AccountType] /\ \A a \in Accounts \ {p} : accounts'[a] = adm[a]
      BY <1>9
    <3>2. p \in Accounts /\ adm \in [Accounts -> AccountType]
      BY <1>2
    <3> QED BY <3>1, <3>2, WealthAdded
  <2>2. issued \in Int
    BY <1>2, Constants
  <2> QED BY <1>1, <1>2, <1>3, <1>4, <1>5, <1>7, <1>9, <2>1, <2>2, Constants
<1>11. issued' \in 0..IssuanceLimit /\ rewards' \in [Jobs -> Traders \cup {Nobody}]
  BY <1>1, <1>2, Constants
<1>12. \A a \in Accounts : accounts'[a].held = accounts[a].held
  <2>1. \A a \in Accounts : accounts'[a].held = adm[a].held
    BY <1>3, <1>7, <1>9
  <2> QED BY <1>2, <2>1 DEF SameBalances
<1>13. OffersOK'
  BY <1>1, <1>2 DEF OffersOK
<1> QED BY <1>1, <1>2, <1>9, <1>10, <1>11, <1>12, <1>13, AdmissionKeeps

\* Listings and proposals: the offers change, the books do not.
LEMMA OfferingKeeps ==
  ASSUME ProtocolInv, NEW p \in Traders, Admissible(p, 1), accounts' = Admitted(p),
         NEW t \in Nat, Applied(t), UNCHANGED <<orders, issued, rewards>>, OffersOK'
  PROVE  ProtocolInv'
<1>1. /\ p \in Accounts /\ Admitted(p) \in [Accounts -> AccountType]
      /\ SameBalances(accounts, Admitted(p))
      /\ Total(Wealth(Admitted(p)), Accounts) = issued /\ issued \in 0..IssuanceLimit
      /\ rewards \in [Jobs -> Traders \cup {Nobody}]
  BY Admitting
<1>2. \A a \in Accounts : accounts'[a].held = accounts[a].held
  BY <1>1 DEF SameBalances
<1> QED BY <1>1, <1>2, AdmissionKeeps

LEMMA ListingStep ==
  ASSUME ProtocolInv, NEW p \in Traders, NEW kind \in Kinds, NEW t \in Nat, Listing(p, kind, t)
  PROVE  ProtocolInv'
<1>1. /\ Admissible(p, 1) /\ accounts' = Admitted(p) /\ Applied(t)
      /\ UNCHANGED <<proposals, orders, issued, rewards>>
      /\ listings' = Append(listings, [owner |-> p, kind |-> kind, active |-> TRUE])
  BY DEF Listing
<1>2. PICK l \in ListingType : l = [owner |-> p, kind |-> kind, active |-> TRUE]
  BY DEF ListingType
<1>3. OffersOK
  BY DEF ProtocolInv
<1>4. listings' \in Seq(ListingType) /\ \A i \in DOMAIN listings : i \in DOMAIN listings'
  <2>1. listings \in Seq(ListingType) /\ listings' = Append(listings, l)
    BY <1>1, <1>2, <1>3 DEF OffersOK
  <2> QED BY <1>2, <2>1
<1>5. OffersOK'
  BY <1>1, <1>3, <1>4 DEF OffersOK
<1> QED BY <1>1, <1>5, OfferingKeeps

LEMMA WithdrawStep ==
  ASSUME ProtocolInv, NEW p \in Traders, NEW l \in DOMAIN listings, NEW t \in Nat, Withdraw(p, l, t)
  PROVE  ProtocolInv'
<1>1. /\ Admissible(p, 1) /\ accounts' = Admitted(p) /\ Applied(t)
      /\ UNCHANGED <<proposals, orders, issued, rewards>>
      /\ listings' = [listings EXCEPT ![l].active = FALSE]
  BY DEF Withdraw
<1>2. OffersOK /\ listings \in Seq(ListingType)
  BY DEF ProtocolInv, OffersOK
<1>3. PICK a \in ListingType : a = listings[l]
  BY <1>2
<1>4. PICK v \in ListingType : v = [a EXCEPT !.active = FALSE]
  BY <1>3 DEF ListingType
<1>5. listings' = [listings EXCEPT ![l] = v]
  BY <1>1, <1>3, <1>4
<1>6. listings' \in Seq(ListingType) /\ DOMAIN listings' = DOMAIN listings
  BY <1>2, <1>4, <1>5
<1>7. OffersOK'
  BY <1>1, <1>2, <1>6 DEF OffersOK
<1> QED BY <1>1, <1>7, OfferingKeeps

LEMMA ProposeStep ==
  ASSUME ProtocolInv, NEW p \in Traders, NEW l \in DOMAIN listings, NEW price \in Prices,
         NEW t \in Nat, Propose(p, l, price, t)
  PROVE  ProtocolInv'
<1> DEFINE owner    == listings[l].owner
           buyer    == IF listings[l].kind = "request" THEN owner ELSE p
           provider == IF listings[l].kind = "request" THEN p ELSE owner
           x == [listing |-> l, buyer |-> buyer, provider |-> provider,
                 by |-> p, price |-> price, status |-> "offered"]
<1>1. /\ Admissible(p, 1) /\ accounts' = Admitted(p) /\ Applied(t) /\ owner # p
      /\ UNCHANGED <<listings, orders, issued, rewards>> /\ proposals' = Append(proposals, x)
  BY DEF Propose
<1>2. OffersOK /\ listings \in Seq(ListingType) /\ proposals \in Seq(ProposalType)
  BY DEF ProtocolInv, OffersOK
<1>3. listings[l] \in ListingType /\ l \in Nat
  BY <1>2
<1>4. owner \in Traders
  BY <1>3 DEF ListingType
<1>5. buyer \in Accounts /\ provider \in Accounts /\ buyer # provider
  BY <1>1, <1>4 DEF Accounts
<1> HIDE DEF buyer, provider
<1>6. x \in ProposalType /\ x.listing = l /\ x.buyer = buyer /\ x.provider = provider
  <2>1. PICK w \in Answers : w = "offered"
    BY DEF Answers
  <2>2. x = [listing |-> l, buyer |-> buyer, provider |-> provider, by |-> p, price |-> price,
             status |-> w]
    BY <2>1
  <2> HIDE DEF x
  <2> QED BY <1>3, <1>5, <2>1, <2>2 DEF ProposalType
<1> HIDE DEF x
<1>7. /\ proposals' \in Seq(ProposalType) /\ Len(proposals) \in Nat
      /\ DOMAIN proposals = 1..Len(proposals) /\ DOMAIN proposals' = 1..(Len(proposals) + 1)
      /\ proposals'[Len(proposals) + 1] = x
      /\ \A i \in DOMAIN proposals : proposals'[i] = proposals[i]
  BY <1>1, <1>2, <1>6
<1>8. \A i \in DOMAIN proposals' : i \in DOMAIN proposals \/ proposals'[i] = x
  BY <1>7
<1>9. ASSUME NEW i \in DOMAIN proposals'
      PROVE  /\ proposals'[i].listing \in DOMAIN listings
             /\ proposals'[i].buyer # proposals'[i].provider
  <2>1. CASE i \in DOMAIN proposals
    BY <1>2, <1>7, <2>1 DEF OffersOK
  <2>2. CASE proposals'[i] = x
    BY <1>5, <1>6, <2>2
  <2> QED BY <1>8, <2>1, <2>2
<1>10. OffersOK'
  BY <1>1, <1>2, <1>7, <1>9 DEF OffersOK
<1> QED BY <1>1, <1>10, OfferingKeeps

\* An offer is accepted: both bonds are held, and an order opens.
LEMMA AgreeStep ==
  ASSUME ProtocolInv, NEW p \in Traders, NEW x \in DOMAIN proposals, NEW t \in Nat, Agree(p, x, t)
  PROVE  ProtocolInv'
<1> DEFINE adm == Admitted(p)
           f == proposals[x]
           n == NewOrder(f, t)
           bond == n.price + n.buyerReserve
<1>1. /\ Admissible(p, 1 + OrderReserve)
      /\ accounts[f.buyer].available >= bond
      /\ accounts[f.provider].available >= n.providerReserve
      /\ proposals' = [proposals EXCEPT ![x].status = "accepted"] /\ orders' = Append(orders, n)
      /\ accounts' = [adm EXCEPT ![f.buyer].available = @ - bond,
                                 ![f.buyer].held = @ + bond,
                                 ![f.provider].available = @ - n.providerReserve,
                                 ![f.provider].held = @ + n.providerReserve]
      /\ Applied(t) /\ UNCHANGED <<listings, issued, rewards>>
  BY DEF Agree, CanHold
<1>2. /\ adm \in [Accounts -> AccountType] /\ SameBalances(accounts, adm)
      /\ Total(Wealth(adm), Accounts) = issued /\ issued \in 0..IssuanceLimit
      /\ rewards \in [Jobs -> Traders \cup {Nobody}] /\ OffersOK
      /\ accounts \in [Accounts -> AccountType]
  BY <1>1, Admitting
<1>3. listings \in Seq(ListingType) /\ proposals \in Seq(ProposalType) /\ f \in ProposalType
  BY <1>2 DEF OffersOK
<1>4. PICK b \in Accounts, w \in Accounts : b = f.buyer /\ w = f.provider
  BY <1>3 DEF ProposalType
<1>5. b # w /\ f.price \in Nat
  <2>1. f.price \in Prices
    BY <1>3 DEF ProposalType
  <2> QED BY <1>2, <1>4, <2>1, Constants DEF OffersOK
<1>6. /\ OrderOK(n) /\ Running(n) /\ n.buyer = b /\ n.provider = w /\ n.remaining = OrderReserve
  <2>1. t \in Int /\ f.buyer \in Accounts /\ f.provider \in Accounts /\ f.buyer # f.provider
    BY <1>4, <1>5
  <2> HIDE DEF f
  <2> QED BY <1>4, <1>5, <2>1, NewOrderOK
<1> HIDE DEF adm, n, f
<1>7. /\ n.price \in Nat /\ n.buyerReserve \in Nat /\ n.providerReserve \in Nat
  BY <1>6 DEF OrderOK, OrderType
<1>8. PICK c \in Nat, d \in Nat : c = bond /\ d = n.providerReserve
  BY <1>7
<1>9. PICK B \in AccountType, W \in AccountType : B = adm[b] /\ W = adm[w]
  BY <1>2
<1>10. /\ B.available \in Nat /\ B.held \in Nat /\ W.available \in Nat /\ W.held \in Nat
       /\ B.available >= c /\ W.available >= d
       /\ B.held = accounts[b].held /\ W.held = accounts[w].held
  BY <1>1, <1>2, <1>4, <1>8, <1>9 DEF AccountType, SameBalances
<1>11. PICK i \in Nat, j \in Nat, k \in Nat, m \in Nat :
         i = B.available - c /\ j = B.held + c /\ k = W.available - d /\ m = W.held + d
  BY <1>10
<1>12. PICK P \in AccountType : P = [B EXCEPT !.available = i, !.held = j]
  BY <1>9, <1>11 DEF AccountType
<1>13. PICK Q \in AccountType : Q = [W EXCEPT !.available = k, !.held = m]
  BY <1>9, <1>11 DEF AccountType
<1>14. P.available = i /\ P.held = j /\ Q.available = k /\ Q.held = m
  BY <1>9, <1>12, <1>13 DEF AccountType
<1>15. accounts' = [adm EXCEPT ![b] = P, ![w] = Q]
  BY <1>1, <1>2, <1>4, <1>8, <1>9, <1>11, <1>12, <1>13, <1>5 DEF AccountType
<1>16. /\ accounts' \in [Accounts -> AccountType] /\ accounts'[b] = P /\ accounts'[w] = Q
       /\ \A a \in Accounts \ {b, w} : accounts'[a] = adm[a]
  <2>1. adm \in [Accounts -> AccountType]
    BY <1>2
  <2> QED BY <1>5, <1>12, <1>13, <1>15, <2>1
<1>17. Total(Wealth(accounts'), Accounts) = issued
  <2>1. \A a \in Accounts : accounts'[a].available + accounts'[a].held = adm[a].available + adm[a].held
    <3> SUFFICES ASSUME NEW a \in Accounts
                 PROVE  accounts'[a].available + accounts'[a].held = adm[a].available + adm[a].held
      OBVIOUS
    <3>0. /\ P.available + P.held = B.available + B.held
          /\ Q.available + Q.held = W.available + W.held
      BY <1>8, <1>10, <1>11, <1>14
    <3>1. CASE a = b
      BY <1>9, <1>16, <3>0, <3>1
    <3>2. CASE a = w
      BY <1>9, <1>16, <3>0, <3>2
    <3>3. CASE a \notin {b, w}
      BY <1>16, <3>3
    <3> QED BY <3>1, <3>2, <3>3
  <2> QED BY <1>2, <2>1, WealthSame
<1>18. Adds(orders, n, orders') /\ Good(orders) /\ OrdersOK
  BY <1>1 DEF Adds, ProtocolInv, OrdersOK, Good
<1>19. /\ Good(orders')
       /\ Total(Promised(orders'), DOMAIN orders') = Total(Promised(orders), DOMAIN orders) + LeftOf(n)
       /\ \A a : Total(Bonded(a, orders'), DOMAIN orders')
                  = Total(Bonded(a, orders), DOMAIN orders) + BondOf(a, n)
  BY <1>6, <1>18, Extended
<1>20. OrdersOK'
  BY <1>19 DEF OrdersOK, Good
<1>21. CapacityReserved'
  <2>1. /\ Reserved = Total(Promised(orders), DOMAIN orders)
        /\ Reserved' = Total(Promised(orders'), DOMAIN orders')
    BY <1>18, <1>20, InSums, InSumsNext
  <2>2. Reserved \in Nat
    BY <1>18, <2>1, Weights, TotalType
  <2>3. LeftOf(n) = OrderReserve
    BY <1>6 DEF LeftOf
  <2>4. ops + Reserved + (1 + OrderReserve) <= MaxOperations /\ ops' = ops + 1 /\ ops \in Nat
    BY <1>1 DEF Admissible, Applied, ProtocolInv, BooksTyped
  <2>5. ops' + Reserved' <= MaxOperations
    BY <1>19, <2>1, <2>2, <2>3, <2>4, Constants
  <2> QED BY <2>5 DEF CapacityReserved
<1>22. EscrowBacked'
  <2> SUFFICES ASSUME NEW a \in Accounts
               PROVE  accounts'[a].held = Total(Bonded(a, orders'), DOMAIN orders')
    BY <1>20, InSumsNext
  <2>1. accounts[a].held = Total(Bonded(a, orders), DOMAIN orders) /\ accounts[a].held \in Nat
    <3>1. accounts[a].held = Total(Bonded(a, orders), DOMAIN orders)
      BY <1>18, InSums DEF ProtocolInv
    <3> QED BY <1>2, <3>1, WealthType
  <2>2. /\ BondOf(b, n) = c /\ BondOf(w, n) = d /\ \A e : e \notin {b, w} => BondOf(e, n) = 0
    BY <1>5, <1>6, <1>8 DEF BondOf
  <2>3. Total(Bonded(a, orders'), DOMAIN orders') = accounts[a].held + BondOf(a, n)
    BY <1>19, <2>1
  <2>4. CASE a = b
    BY <1>8, <1>10, <1>11, <1>14, <1>16, <2>1, <2>2, <2>3, <2>4
  <2>5. CASE a = w
    BY <1>8, <1>10, <1>11, <1>14, <1>16, <2>1, <2>2, <2>3, <2>5
  <2>6. CASE a \notin {b, w}
    <3>1. accounts'[a].held = accounts[a].held
      BY <1>2, <1>16, <2>6 DEF SameBalances
    <3> QED BY <2>1, <2>2, <2>3, <2>6, <3>1
  <2> QED BY <2>4, <2>5, <2>6
<1>23. SupplyConserved'
  <2>1. Total(Wealth(accounts'), Accounts) = issued'
    BY <1>1, <1>17
  <2> QED BY <2>1 DEF SupplyConserved, Wealth
<1>24. BooksTyped'
  <2>1. /\ accounts' \in [Accounts -> AccountType] /\ issued' \in 0..IssuanceLimit
        /\ rewards' \in [Jobs -> Traders \cup {Nobody}]
    BY <1>1, <1>2, <1>16
  <2>2. ops' \in Nat /\ time' \in Nat
    BY <1>1 DEF ProtocolInv, BooksTyped, Applied
  <2> QED BY <2>1, <2>2 DEF BooksTyped
<1>25. OffersOK'
  <2>1. PICK a \in Answers : a = "accepted"
    BY DEF Answers
  <2>2. PICK v \in ProposalType : v = [f EXCEPT !.status = a]
    BY <1>3, <2>1 DEF ProposalType
  <2>3. v.listing = f.listing /\ v.buyer = f.buyer /\ v.provider = f.provider
    BY <1>3, <2>2 DEF ProposalType
  <2>4. proposals' = [proposals EXCEPT ![x] = v]
    BY <1>1, <2>1, <2>2 DEF f
  <2>5. /\ proposals' \in Seq(ProposalType) /\ DOMAIN proposals' = DOMAIN proposals
        /\ proposals'[x] = v /\ \A h \in DOMAIN proposals \ {x} : proposals'[h] = proposals[h]
    BY <1>3, <2>2, <2>4
  <2>6. \A e \in DOMAIN proposals' : /\ proposals'[e].listing \in DOMAIN listings
                                     /\ proposals'[e].buyer # proposals'[e].provider
    <3> SUFFICES ASSUME NEW e \in DOMAIN proposals'
                 PROVE  /\ proposals'[e].listing \in DOMAIN listings
                        /\ proposals'[e].buyer # proposals'[e].provider
      OBVIOUS
    <3>1. CASE e = x
      BY <1>2, <2>3, <2>5, <3>1 DEF OffersOK, f
    <3>2. CASE e # x
      BY <1>2, <2>5, <3>2 DEF OffersOK
    <3> QED BY <3>1, <3>2
  <2> QED BY <1>1, <1>3, <2>5, <2>6 DEF OffersOK
<1> QED BY <1>20, <1>21, <1>22, <1>23, <1>24, <1>25 DEF ProtocolInv
----------------------------------------------------------------------------
\* Order n keeps the waived ruling of order r.
Keeps(r, n) ==
  /\ n.status \in {"ruling_ready", "resolved", "refunded"}
  /\ n.ruling = r.ruling /\ n.waivers = r.waivers

\* What closes or refunds an order whose appeal was waived keeps its ruling.
LEMMA ClosedKeeps ==
  ASSUME NEW r \in OrderType, NEW u \in OrderType, u.ruling = r.ruling, u.waivers = r.waivers,
         NEW q, NEW paid, NEW t, NEW status \in {"resolved", "refunded"}
  PROVE  Keeps(r, Closed(u, q, paid, status, t))
<1> DEFINE n == Closed(u, q, paid, status, t)
<1>1. n.status = status /\ n.ruling = u.ruling /\ n.waivers = u.waivers
  BY DEF Closed, OrderType
<1> HIDE DEF n
<1>2. Keeps(r, n)
  BY <1>1 DEF Keeps
<1> QED BY <1>2 DEF n

LEMMA OrderStepKeeps ==
  ASSUME ProtocolInv, NEW o \in DOMAIN orders, NEW q, NEW t \in Nat,
         orders[o].status = "ruling_ready", orders[o].waivers = Parties(o),
         \/ Deliver(q, o, t) \/ Accept(q, o, t)  \/ Refund(q, o, t) \/ Dispute(q, o, t)
         \/ Evidence(q, o, t) \/ Rule(q, o, t) \/ Appeal(q, o, t) \/ Waive(q, o, t)
         \/ Finalize(q, o, t) \/ Timeout(q, o, t)
  PROVE  \E n : Swaps(orders, o, n, orders') /\ Keeps(orders[o], n)
<1> DEFINE r == orders[o]
           u == Use1(r)
<1>1. OrderAction(q, o)
  BY OrderActions
<1>2. /\ r \in OrderType /\ q \in Both(r) /\ Charged(o) = u /\ Parties(o) = Both(r)
  BY <1>1, Acting
<1>3. /\ u \in OrderType /\ u.status = r.status /\ u.ruling = r.ruling /\ u.waivers = r.waivers
      /\ u.refunds = r.refunds
  BY <1>2, Use1Type
<1>4. u.status = "ruling_ready" /\ q \in u.waivers
  BY <1>2, <1>3
<1> HIDE DEF u
<1>5. ASSUME NEW v \in OrderType, v.ruling = r.ruling, v.waivers = r.waivers, NEW paid,
             NEW status \in {"resolved", "refunded"}, Close(q, o, v, paid, status, t)
      PROVE  \E n : Swaps(orders, o, n, orders') /\ Keeps(r, n)
  <2>1. Swaps(orders, o, Closed(v, q, paid, status, t), orders')
    BY <1>5 DEF Close, Closed, Swaps
  <2>2. Keeps(r, Closed(v, q, paid, status, t))
    BY <1>2, <1>5, ClosedKeeps
  <2> QED BY <2>1, <2>2
<1>6. ~Deliver(q, o, t) /\ ~Accept(q, o, t) /\ ~Dispute(q, o, t) /\ ~Evidence(q, o, t)
  BY <1>2, <1>4 DEF Deliver, Accept, Dispute, Evidence
<1>7. ~Rule(q, o, t) /\ ~Appeal(q, o, t) /\ ~Waive(q, o, t)
  BY <1>2, <1>4 DEF Rule, Appeal, Waive, HasNotWaived
<1>8. CASE Refund(q, o, t)
  <2> DEFINE n == [u EXCEPT !.refunds = @ \cup {q}]
  <2>1. IF Cardinality(n.refunds) = 2 THEN Close(q, o, n, 0, "refunded", t) ELSE Becomes(o, n, t)
    BY <1>2, <1>8 DEF Refund
  <2>2. n \in OrderType /\ n.status = u.status /\ n.ruling = u.ruling /\ n.waivers = u.waivers
    <3>1. q \in Accounts /\ u.refunds \in SUBSET Accounts
      BY <1>1, <1>3, Acting DEF OrderType
    <3>2. PICK S \in SUBSET Accounts : S = u.refunds \cup {q}
      BY <3>1
    <3>3. n = [u EXCEPT !.refunds = S]
      BY <3>2
    <3> HIDE DEF n
    <3> QED BY <1>3, <3>2, <3>3 DEF OrderType
  <2> HIDE DEF n
  <2>3. CASE Cardinality(n.refunds) = 2
    <3>1. Close(q, o, n, 0, "refunded", t) /\ "refunded" \in {"resolved", "refunded"}
      BY <2>1, <2>3
    <3> QED BY <1>3, <1>5, <2>2, <3>1
  <2>4. CASE Cardinality(n.refunds) # 2
    <3>1. Swaps(orders, o, n, orders')
      BY <2>1, <2>4 DEF Becomes, Swaps
    <3>2. Keeps(r, n)
      BY <1>3, <1>4, <2>2 DEF Keeps
    <3> QED BY <3>1, <3>2
  <2> QED BY <2>3, <2>4
<1>9. CASE Finalize(q, o, t)
  <2>1. Close(q, o, u, (u.price * u.ruling) \div 10000, "resolved", t)
    BY <1>2, <1>9 DEF Finalize
  <2>2. "resolved" \in {"resolved", "refunded"}
    OBVIOUS
  <2> QED BY <1>3, <1>5, <2>1, <2>2
<1>10. CASE Timeout(q, o, t)
  <2>1. Close(q, o, u, (u.price * TimeoutShare(u)) \div 10000, "resolved", t)
    BY <1>2, <1>4, <1>10 DEF Timeout
  <2>2. "resolved" \in {"resolved", "refunded"}
    OBVIOUS
  <2> QED BY <1>3, <1>5, <2>1, <2>2
<1> QED BY <1>6, <1>7, <1>8, <1>9, <1>10

\* An order action replaces one order.
LEMMA OrderStepSwaps ==
  ASSUME NEW o, NEW q, NEW t,
         \/ Deliver(q, o, t) \/ Accept(q, o, t)  \/ Refund(q, o, t) \/ Dispute(q, o, t)
         \/ Evidence(q, o, t) \/ Rule(q, o, t) \/ Appeal(q, o, t) \/ Waive(q, o, t)
         \/ Finalize(q, o, t) \/ Timeout(q, o, t)
  PROVE  \E n : Swaps(orders, o, n, orders')
<1>1. ASSUME NEW r, Becomes(o, r, t) PROVE \E n : Swaps(orders, o, n, orders')
  BY <1>1 DEF Becomes, Swaps
<1>2. ASSUME NEW r, NEW paid, NEW status, Close(q, o, r, paid, status, t)
      PROVE  \E n : Swaps(orders, o, n, orders')
  BY <1>2 DEF Close, Swaps
<1>3. CASE Deliver(q, o, t)
  BY <1>1, <1>3 DEF Deliver
<1>4. CASE Accept(q, o, t)
  BY <1>2, <1>4 DEF Accept
<1>5. CASE Refund(q, o, t)
  BY <1>1, <1>2, <1>5 DEF Refund
<1>6. CASE Dispute(q, o, t)
  BY <1>1, <1>6 DEF Dispute
<1>7. CASE Evidence(q, o, t)
  BY <1>1, <1>7 DEF Evidence
<1>8. CASE Rule(q, o, t)
  BY <1>8 DEF Rule, Swaps
<1>9. CASE Appeal(q, o, t)
  BY <1>1, <1>9 DEF Appeal
<1>10. CASE Waive(q, o, t)
  BY <1>1, <1>10 DEF Waive
<1>11. CASE Finalize(q, o, t)
  BY <1>2, <1>11 DEF Finalize
<1>12. CASE Timeout(q, o, t)
  BY <1>2, <1>12 DEF Timeout
<1> QED BY <1>3, <1>4, <1>5, <1>6, <1>7, <1>8, <1>9, <1>10, <1>11, <1>12

\* An admission leaves the orders that exist alone.
LEMMA AdmissionAppends ==
  ASSUME ProtocolInv, AdmissionStep, NEW o \in DOMAIN orders
  PROVE  orders'[o] = orders[o]
<1>1. PICK t \in time..MaxAdmissionTime, p \in Traders :
        \/ Profile(p, t)
        \/ \E d \in Devices, allowed \in BOOLEAN : Device(p, d, allowed, t)
        \/ \E q \in Accounts, v \in Prices : Transfer(p, q, v, t)
        \/ \E kind \in Kinds : Listing(p, kind, t)
        \/ \E l \in DOMAIN listings : Withdraw(p, l, t)
        \/ \E l \in DOMAIN listings, price \in Prices : Propose(p, l, price, t)
        \/ \E x \in DOMAIN proposals : Agree(p, x, t)
        \/ \E j \in Jobs : Reward(p, j, t)
  BY DEF AdmissionStep
<1>2. CASE Profile(p, t)
  BY <1>2 DEF Profile
<1>3. CASE \E d \in Devices, allowed \in BOOLEAN : Device(p, d, allowed, t)
  BY <1>3 DEF Device
<1>4. CASE \E q \in Accounts, v \in Prices : Transfer(p, q, v, t)
  BY <1>4 DEF Transfer
<1>5. CASE \E kind \in Kinds : Listing(p, kind, t)
  BY <1>5 DEF Listing
<1>6. CASE \E l \in DOMAIN listings : Withdraw(p, l, t)
  BY <1>6 DEF Withdraw
<1>7. CASE \E l \in DOMAIN listings, price \in Prices : Propose(p, l, price, t)
  BY <1>7 DEF Propose
<1>8. CASE \E x \in DOMAIN proposals : Agree(p, x, t)
  <2>1. orders \in Seq(OrderType)
    BY DEF ProtocolInv, OrdersOK
  <2>2. PICK x : Agree(p, x, t)
    BY <1>8
  <2>3. PICK n : orders' = Append(orders, n)
    BY <2>2 DEF Agree
  <2> QED BY <2>1, <2>3
<1>9. CASE \E j \in Jobs : Reward(p, j, t)
  BY <1>9 DEF Reward
<1> QED BY <1>1, <1>2, <1>3, <1>4, <1>5, <1>6, <1>7, <1>8, <1>9

\* Two waivers bind, whatever step is taken.
LEMMA NextBinds == ProtocolInv /\ [Next]_vars => WaiversBind
<1> SUFFICES ASSUME ProtocolInv, [Next]_vars, NEW i \in DOMAIN orders,
                    orders[i].status = "ruling_ready", orders[i].waivers = Parties(i)
             PROVE  Keeps(orders[i], orders'[i])
  BY DEF WaiversBind, Keeps
<1>0. orders'[i] = orders[i] => Keeps(orders[i], orders'[i])
  BY DEF Keeps
<1>1. CASE UNCHANGED vars
  BY <1>0, <1>1 DEF vars
<1>2. CASE AdmissionStep
  BY <1>0, <1>2, AdmissionAppends
<1>3. CASE OrderStep
  <2>1. PICK t \in time..MaxTime, o \in DOMAIN orders : \E p \in Parties(o) :
          \/ Deliver(p, o, t) \/ Accept(p, o, t)  \/ Refund(p, o, t) \/ Dispute(p, o, t)
          \/ Evidence(p, o, t) \/ Rule(p, o, t) \/ Appeal(p, o, t) \/ Waive(p, o, t)
          \/ Finalize(p, o, t) \/ Timeout(p, o, t)
    BY <1>3 DEF OrderStep
  <2>2. PICK q :
          \/ Deliver(q, o, t) \/ Accept(q, o, t)  \/ Refund(q, o, t) \/ Dispute(q, o, t)
          \/ Evidence(q, o, t) \/ Rule(q, o, t) \/ Appeal(q, o, t) \/ Waive(q, o, t)
          \/ Finalize(q, o, t) \/ Timeout(q, o, t)
    BY <2>1
  <2>3. t \in Nat
    BY <2>1, Constants DEF ProtocolInv, BooksTyped
  <2>4. CASE i = o
    <3>1. \E n : Swaps(orders, o, n, orders') /\ Keeps(orders[o], n)
      BY <2>2, <2>3, <2>4, OrderStepKeeps
    <3>2. PICK n : orders' = [orders EXCEPT ![o] = n] /\ Keeps(orders[o], n)
      BY <3>1 DEF Swaps
    <3>3. orders'[o] = n
      BY <2>1, <3>2
    <3> QED BY <2>4, <3>2, <3>3
  <2>5. CASE i # o
    <3>1. \E n : Swaps(orders, o, n, orders')
      BY <2>2, OrderStepSwaps
    <3>2. PICK n : orders' = [orders EXCEPT ![o] = n]
      BY <3>1 DEF Swaps
    <3>3. orders'[i] = orders[i]
      BY <2>5, <3>2
    <3> QED BY <1>0, <3>3
  <2> QED BY <2>4, <2>5
<1> QED BY <1>1, <1>2, <1>3 DEF Next

LEMMA InitInv == Init => ProtocolInv
<1> SUFFICES ASSUME Init PROVE ProtocolInv
  OBVIOUS
<1>1. orders = << >> /\ listings = << >> /\ proposals = << >> /\ issued = 0 /\ ops = 0 /\ time = 0
  BY DEF Init
<1>a. DOMAIN << >> = {} /\ \A T : << >> \in Seq(T)
  OBVIOUS
<1>2. OrdersOK /\ OffersOK
  BY <1>1, <1>a DEF OrdersOK, OffersOK
<1>3. accounts \in [Accounts -> AccountType]
  <2>a. PICK d \in SUBSET Devices : d = {}
    OBVIOUS
  <2>b. PICK m \in 0..MaxAccountAdmissions : m = 0
    BY Constants
  <2>c. PICK z \in Nat : z = 0
    OBVIOUS
  <2>1. d = {} /\ m = 0 /\ z = 0
    BY <2>a, <2>b, <2>c
  <2>2. PICK v \in AccountType : v = [available |-> z, held |-> z, earned |-> z, profile |-> FALSE,
                                      devices |-> d, admissions |-> m]
    BY <2>1 DEF AccountType
  <2>3. accounts = [p \in Accounts |-> v]
    BY <2>1, <2>2 DEF Init
  <2> QED BY <2>2, <2>3
<1>4. \A p \in Accounts : accounts[p].available = 0 /\ accounts[p].held = 0
  BY DEF Init
<1>5. BooksTyped
  <2>1. rewards \in [Jobs -> Traders \cup {Nobody}]
    BY DEF Init
  <2> QED BY <1>1, <1>3, <2>1, Constants DEF BooksTyped
<1>6. CapacityReserved
  <2>1. Reserved = 0
    BY <1>1, <1>a, <1>2, InSums, TotalEmpty
  <2> QED BY <1>1, <2>1, Constants DEF CapacityReserved
<1>7. EscrowBacked
  BY <1>1, <1>a, <1>2, <1>4, InSums, TotalEmpty
<1>8. SupplyConserved
  <2>1. \A p \in Accounts : Wealth(accounts)[p] = 0
    BY <1>4 DEF Wealth
  <2>2. Total(Wealth(accounts), Accounts) = 0
    BY <2>1, TotalZero
  <2> QED BY <1>1, <2>2 DEF SupplyConserved, Wealth
<1> QED BY <1>2, <1>5, <1>6, <1>7, <1>8 DEF ProtocolInv

LEMMA NextInv == ProtocolInv /\ [Next]_vars => ProtocolInv'
<1> SUFFICES ASSUME ProtocolInv, [Next]_vars PROVE ProtocolInv'
  OBVIOUS
<1>0. time \in Nat
  BY DEF ProtocolInv, BooksTyped
<1>1. CASE UNCHANGED vars
  <2>1. /\ accounts' = accounts /\ listings' = listings /\ proposals' = proposals
        /\ orders' = orders /\ issued' = issued /\ rewards' = rewards /\ ops' = ops /\ time' = time
    BY <1>1 DEF vars
  <2>2. BooksTyped' /\ OffersOK' /\ OrdersOK'
    BY <2>1 DEF ProtocolInv, BooksTyped, OffersOK, OrdersOK
  <2>3. Reserved' = Reserved /\ (EscrowBacked' <=> EscrowBacked)
    <3>1. OrdersOK
      BY DEF ProtocolInv
    <3> QED BY <2>1, <2>2, <3>1, InSums, InSumsNext
  <2>4. CapacityReserved' /\ EscrowBacked'
    BY <2>1, <2>3 DEF ProtocolInv, CapacityReserved
  <2>5. SupplyConserved'
    BY <2>1 DEF ProtocolInv, SupplyConserved
  <2> QED BY <2>2, <2>4, <2>5 DEF ProtocolInv
<1>2. CASE AdmissionStep
  <2>1. PICK t \in time..MaxAdmissionTime, p \in Traders :
          \/ Profile(p, t)
          \/ \E d \in Devices, allowed \in BOOLEAN : Device(p, d, allowed, t)
          \/ \E q \in Accounts, v \in Prices : Transfer(p, q, v, t)
          \/ \E kind \in Kinds : Listing(p, kind, t)
          \/ \E l \in DOMAIN listings : Withdraw(p, l, t)
          \/ \E l \in DOMAIN listings, price \in Prices : Propose(p, l, price, t)
          \/ \E x \in DOMAIN proposals : Agree(p, x, t)
          \/ \E j \in Jobs : Reward(p, j, t)
    BY <1>2 DEF AdmissionStep
  <2>2. t \in Nat
    BY <1>0, <2>1, Constants
  <2>3. CASE Profile(p, t)
    BY <2>2, <2>3, ProfileStep
  <2>4. CASE \E d \in Devices, allowed \in BOOLEAN : Device(p, d, allowed, t)
    BY <2>2, <2>4, DeviceStep
  <2>5. CASE \E q \in Accounts, v \in Prices : Transfer(p, q, v, t)
    BY <2>2, <2>5, TransferStep
  <2>6. CASE \E kind \in Kinds : Listing(p, kind, t)
    BY <2>2, <2>6, ListingStep
  <2>7. CASE \E l \in DOMAIN listings : Withdraw(p, l, t)
    BY <2>2, <2>7, WithdrawStep
  <2>8. CASE \E l \in DOMAIN listings, price \in Prices : Propose(p, l, price, t)
    BY <2>2, <2>8, ProposeStep
  <2>9. CASE \E x \in DOMAIN proposals : Agree(p, x, t)
    BY <2>2, <2>9, AgreeStep
  <2>10. CASE \E j \in Jobs : Reward(p, j, t)
    BY <2>2, <2>10, RewardStep
  <2> QED BY <2>1, <2>3, <2>4, <2>5, <2>6, <2>7, <2>8, <2>9, <2>10
<1>3. CASE OrderStep
  <2>1. PICK t \in time..MaxTime, o \in DOMAIN orders : \E p \in Parties(o) :
          \/ Deliver(p, o, t) \/ Accept(p, o, t)  \/ Refund(p, o, t) \/ Dispute(p, o, t)
          \/ Evidence(p, o, t) \/ Rule(p, o, t) \/ Appeal(p, o, t) \/ Waive(p, o, t)
          \/ Finalize(p, o, t) \/ Timeout(p, o, t)
    BY <1>3 DEF OrderStep
  <2>2. t \in Nat
    BY <1>0, <2>1, Constants
  <2> QED BY <2>1, <2>2, OrderStepInv
<1> QED BY <1>1, <1>2, <1>3 DEF Next
----------------------------------------------------------------------------
\* The invariant holds in every reachable state.
LEMMA ProtocolInvariant == Spec => []ProtocolInv
BY InitInv, NextInv, PTL DEF Spec

\* Every variable of the exchange keeps its type through every command of
\* protocol.py: no balance is ever negative, and the three sets of parties of an
\* order hold its own two parties only.
THEOREM ProtocolTypeCorrect == Spec => []TypeOK
<1>1. ProtocolInv => TypeOK
  <2> SUFFICES ASSUME ProtocolInv PROVE TypeOK
    OBVIOUS
  <2>1. /\ accounts \in [Accounts -> AccountType] /\ issued \in 0..IssuanceLimit /\ time \in Nat
        /\ rewards \in [Jobs -> Traders \cup {Nobody}] /\ listings \in Seq(ListingType)
    BY DEF ProtocolInv, BooksTyped, OffersOK
  <2>2. ops \in 0..MaxOperations
    <3>1. OrdersOK /\ Good(orders) /\ ops \in Nat /\ ops + Reserved <= MaxOperations
      BY DEF ProtocolInv, OrdersOK, Good, CapacityReserved, BooksTyped
    <3>2. Reserved \in Nat
      BY <3>1, InSums, Weights, TotalType
    <3> QED BY <3>1, <3>2, Constants
  <2>3. proposals \in Seq([listing : DOMAIN listings, buyer : Accounts, provider : Accounts,
                           by : Traders, price : Prices, status : Answers])
    <3> DEFINE T == [listing : DOMAIN listings, buyer : Accounts, provider : Accounts,
                     by : Traders, price : Prices, status : Answers]
    <3>1. proposals \in Seq(ProposalType)
      BY DEF ProtocolInv, OffersOK
    <3>2. ASSUME NEW x \in DOMAIN proposals PROVE proposals[x] \in T
      <4>1. proposals[x] \in ProposalType /\ proposals[x].listing \in DOMAIN listings
        BY <3>1 DEF ProtocolInv, OffersOK
      <4> QED BY <4>1 DEF ProposalType
    <3> HIDE DEF T
    <3>3. Len(proposals) \in Nat /\ DOMAIN proposals = 1..Len(proposals)
          /\ proposals = [x \in 1..Len(proposals) |-> proposals[x]]
      BY <3>1
    <3>4. proposals \in Seq(T)
      BY <3>2, <3>3
    <3> QED BY <3>4 DEF T
  <2>4. ASSUME NEW o \in DOMAIN orders
        PROVE  /\ Parties(o) \subseteq Accounts /\ orders[o].buyer # orders[o].provider
               /\ orders[o].price \in Nat
               /\ orders[o].evidence \cup orders[o].refunds \cup orders[o].waivers \subseteq Parties(o)
    <3>1. OrderOK(orders[o]) /\ orders[o] \in OrderType
      BY DEF ProtocolInv, OrdersOK, OrderOK
    <3>2. orders[o].buyer \in Accounts /\ orders[o].provider \in Accounts /\ orders[o].price \in Nat
      BY <3>1 DEF OrderType
    <3> QED BY <3>1, <3>2 DEF OrderOK, Parties, Both
  <2> QED BY <2>1, <2>2, <2>3, <2>4 DEF TypeOK, AccountType, ListingType, Answers
<1> QED BY <1>1, ProtocolInvariant, PTL

\* An open order always has a command left of its reserve, and the log room for
\* the reserves of all of them: "exchange_order_capacity" and
\* "exchange_admission_exhausted" never stand in the way of a settlement.
THEOREM SettlementAlwaysFits == Spec => []RoomToSettle
<1>1. ProtocolInv => RoomToSettle
  <2> SUFFICES ASSUME ProtocolInv PROVE RoomToSettle
    OBVIOUS
  <2>1. ASSUME NEW o \in OpenOrders PROVE orders[o].remaining > 0
    <3>1. OrderOK(orders[o]) /\ Running(orders[o])
      BY DEF ProtocolInv, OrdersOK, OpenOrders, Open, Running
    <3> QED BY <3>1, BudgetLeft
  <2> QED BY <2>1 DEF RoomToSettle, LifecycleBudget, ProtocolInv
<1> QED BY <1>1, ProtocolInvariant, PTL

\* No credit is made or lost, exactly the bonds of open orders are held, and a
\* dispute can pay its panel: the assertions at the end of apply() never trip.
THEOREM BooksStayBalanced == Spec => []BooksBalance
<1>1. ProtocolInv => BooksBalance
  <2> SUFFICES ASSUME ProtocolInv PROVE BooksBalance
    OBVIOUS
  <2>1. ASSUME NEW o \in OpenOrders, orders[o].status = "disputed"
        PROVE  LET r == orders[o] IN
               /\ r.buyerReserve    >= BuyerFee(r.buyer, r.provider, r.round)
               /\ r.providerReserve >= ProviderFee(r.buyer, r.provider, r.round)
    <3> DEFINE r == orders[o]
    <3>1. OrderOK(r) /\ Running(r)
      BY DEF ProtocolInv, OrdersOK, OpenOrders, Open, Running
    <3>2. StageOK(r) /\ ReservesLeft(r) /\ r.round \in {Unset, 0, 1}
      BY <3>1 DEF OrderOK, OrderType
    <3> HIDE DEF r
    <3>3. r.status = "disputed"
      BY <2>1 DEF r
    <3>4. r.round \in {0, 1}
      BY <3>2, <3>3 DEF StageOK
    <3>5. \A k \in {0, 1} : /\ BuyerFee(r.buyer, r.provider, k) \in Nat
                            /\ ProviderFee(r.buyer, r.provider, k) \in Nat
      BY PanelFees
    <3>6. CASE r.round = 0
      BY <3>2, <3>3, <3>5, <3>6 DEF ReservesLeft, Unset, r
    <3>7. CASE r.round = 1
      BY <3>2, <3>3, <3>5, <3>7 DEF ReservesLeft, Unset, r
    <3> QED BY <3>4, <3>6, <3>7
  <2> QED BY <2>1 DEF BooksBalance, FeesReserved, ProtocolInv
<1> QED BY <1>1, ProtocolInvariant, PTL

\* An order closes by the covenant and in no other way: with the share its state
\* gives, before its window ends only with the consent that close() asks for, and
\* never against two waivers.
THEOREM OrdersCloseByRules == Spec => ClosedByRules
<1>1. ProtocolInv => SettlementFollowsRules
  <2> SUFFICES ASSUME ProtocolInv PROVE SettlementFollowsRules
    OBVIOUS
  <2>1. ASSUME NEW o \in DOMAIN orders PROVE PaidByRules(orders[o])
    <3>1. OrderOK(orders[o])
      BY DEF ProtocolInv, OrdersOK
    <3>2. CASE Running(orders[o])
      BY <3>2 DEF Running, Terminal, PaidByRules
    <3> QED BY <3>1, <3>2 DEF OrderOK
  <2> QED BY <2>1 DEF SettlementFollowsRules, PaidByRules, Parties, Both
<1>2. ProtocolInv => EarlyCloseNeedsConsent
  <2> SUFFICES ASSUME ProtocolInv PROVE EarlyCloseNeedsConsent
    OBVIOUS
  <2>1. ASSUME NEW o \in DOMAIN orders \ OpenOrders PROVE ClosedInTime(orders[o])
    <3>1. OrderOK(orders[o]) /\ ~Running(orders[o])
      BY DEF ProtocolInv, OrdersOK, OpenOrders, Open, Running
    <3> QED BY <3>1 DEF OrderOK
  <2> QED BY <2>1 DEF EarlyCloseNeedsConsent, ClosedInTime, Parties, Both
<1> QED BY <1>1, <1>2, ProtocolInvariant, NextBinds, PTL DEF Spec, ClosedByRules
=============================================================================
