------------------------- MODULE TaskBalanceProofs -------------------------
(***************************************************************************)
(* Until a write fails, the snapshot of the Task Balance may be trusted    *)
(* whenever its counter agrees with the event log, through every crash,    *)
(* lost file, rebuild and migration, for any tasks, amounts and bounds.    *)
(*                                                                         *)
(* The heart of the argument is that the dedupe keys of the events never   *)
(* swallow a transition the view has made: a key on file is used up in the *)
(* replayed view (Used), and the key of a valid transition is not.         *)
(*                                                                         *)
(* Whatever writes fail, no unit is made or lost: every transition moves   *)
(* units between what is available, on hold and charged, and a view is     *)
(* only ever the result of transitions (UnitsInv).                         *)
(***************************************************************************)
EXTENDS TaskBalance, FiniteSetTheorems, TLAPS

Holds == [state : {"none", "held", "settled", "released"}, amount : Int, charged : Int, n : Nat]

\* What the argument needs to know of a view: its type, without the signs.
AnyView == [available : Int, held : Int, earned : Int, earnings : SUBSET Tasks,
            holds : [Tasks -> Holds]]

\* A transition that some caller may ask for.
IsOp(e) ==
  /\ e.amount \in Int /\ e.earned \in Int
  /\ \/ e.kind \in {"hold", "settle", "release", "earning"} /\ e.task \in Tasks
     \/ e.kind = "opening"

\* Key k has been spent by a transition that view v has made.
Used(v, k) ==
  \/ k.kind = "hold" /\ k.task \in Tasks /\ k.nth \in Nat /\ k.nth <= v.holds[k.task].n
  \/ /\ k.kind = "release" /\ k.task \in Tasks /\ k.nth \in Nat
     /\ k.nth <= v.holds[k.task].n
     /\ k.nth = v.holds[k.task].n => v.holds[k.task].state # "held"
  \/ k.kind = "settle" /\ k.task \in Tasks /\ v.holds[k.task].state = "settled"
  \/ k.kind = "earning" /\ k.task \in v.earnings
  \/ k.kind = "opening"

\* What booking a hold changes of a view.
LEMMA BookType ==
  ASSUME NEW v \in AnyView, NEW t \in Tasks, NEW h \in Holds, NEW a \in Int, NEW d \in Int
  PROVE  /\ Book(v, t, h, a, d) \in AnyView
         /\ Book(v, t, h, a, d).holds = [v.holds EXCEPT ![t] = h]
         /\ Book(v, t, h, a, d).earnings = v.earnings
<1>1. PICK x \in Int, y \in Int : x = v.available + a /\ y = v.held + d
  BY DEF AnyView
<1>2. PICK f \in [Tasks -> Holds] : f = [v.holds EXCEPT ![t] = h]
  BY DEF AnyView
<1>3. Book(v, t, h, a, d) = [v EXCEPT !.available = x, !.held = y, !.holds = f]
  BY <1>1, <1>2 DEF Book
<1>4. /\ [v EXCEPT !.available = x, !.held = y, !.holds = f] \in AnyView
      /\ [v EXCEPT !.available = x, !.held = y, !.holds = f].holds = f
      /\ [v EXCEPT !.available = x, !.held = y, !.holds = f].earnings = v.earnings
  BY DEF AnyView
<1> QED BY <1>2, <1>3, <1>4

\* A transition keeps the type of a view, and changes at most the hold of its
\* own task.
LEMMA EffectType ==
  ASSUME NEW v \in AnyView, NEW e, IsOp(e), Valid(v, e)
  PROVE  /\ Effect(v, e) \in AnyView
         /\ v.earnings \subseteq Effect(v, e).earnings
         /\ e.kind = "earning" => e.task \in Effect(v, e).earnings
         /\ e.kind \in {"opening", "earning"} => Effect(v, e).holds = v.holds
         /\ e.kind \in {"hold", "settle", "release"} =>
              \E h \in Holds :
                /\ Effect(v, e).holds = [v.holds EXCEPT ![e.task] = h]
                /\ h.n = IF e.kind = "hold" THEN v.holds[e.task].n + 1 ELSE v.holds[e.task].n
                /\ h.state = CASE e.kind = "hold" -> "held" [] e.kind = "settle" -> "settled"
                               [] OTHER -> "released"
<1>1. CASE e.kind = "opening"
  <2>1. PICK x \in Int, y \in Int : x = v.available + e.amount /\ y = e.earned
    BY DEF AnyView, IsOp
  <2>2. Effect(v, e) = [v EXCEPT !.available = x, !.earned = y]
    BY <1>1, <2>1 DEF Effect
  <2>3. /\ [v EXCEPT !.available = x, !.earned = y] \in AnyView
        /\ [v EXCEPT !.available = x, !.earned = y].holds = v.holds
        /\ [v EXCEPT !.available = x, !.earned = y].earnings = v.earnings
    BY DEF AnyView
  <2> QED BY <1>1, <2>2, <2>3
<1>2. CASE e.kind = "hold"
  <2>0. PICK g \in Holds : g = v.holds[e.task] /\ e.task \in Tasks
    BY <1>2 DEF AnyView, IsOp
  <2>a. PICK m \in Nat : m = g.n + 1
    BY DEF Holds
  <2>b. PICK a \in Int : a = e.amount
    BY DEF IsOp
  <2>c. [state |-> "held", amount |-> a, charged |-> 0, n |-> m] \in Holds
    BY DEF Holds
  <2>1. PICK h \in Holds : h = [state |-> "held", amount |-> e.amount, charged |-> 0,
                                n |-> v.holds[e.task].n + 1]
    BY <2>0, <2>a, <2>b, <2>c
  <2>2. h.n = v.holds[e.task].n + 1 /\ h.state = "held"
    BY <2>1
  <2>3. PICK x \in Int, y \in Int : x = -e.amount /\ y = e.amount
    BY DEF IsOp
  <2>4. Effect(v, e) = Book(v, e.task, h, x, y) /\ e.task \in Tasks
    BY <1>2, <2>1, <2>3 DEF Effect, IsOp
  <2>5. /\ Book(v, e.task, h, x, y) \in AnyView
        /\ Book(v, e.task, h, x, y).holds = [v.holds EXCEPT ![e.task] = h]
        /\ Book(v, e.task, h, x, y).earnings = v.earnings
    BY <2>4, BookType
  <2> QED BY <1>2, <2>2, <2>4, <2>5
<1>3. CASE e.kind = "settle"
  <2>1. PICK g \in Holds : g = v.holds[e.task] /\ e.task \in Tasks
    BY <1>3 DEF AnyView, IsOp
  <2>2. PICK h \in Holds : h = [g EXCEPT !.state = "settled", !.charged = e.amount]
    BY DEF Holds, IsOp
  <2>3. h.n = g.n /\ h.state = "settled"
    BY <2>2 DEF Holds
  <2>4. PICK x \in Int, y \in Int : x = Refunded(g, e.amount) /\ y = -g.amount
    BY DEF Holds, IsOp, Refunded
  <2>5. Effect(v, e) = Book(v, e.task, h, x, y)
    BY <1>3, <2>1, <2>2, <2>4 DEF Effect
  <2>6. /\ Book(v, e.task, h, x, y) \in AnyView
        /\ Book(v, e.task, h, x, y).holds = [v.holds EXCEPT ![e.task] = h]
        /\ Book(v, e.task, h, x, y).earnings = v.earnings
    BY <2>1, BookType
  <2> QED BY <1>3, <2>1, <2>3, <2>5, <2>6
<1>4. CASE e.kind = "release"
  <2>1. PICK g \in Holds : g = v.holds[e.task] /\ e.task \in Tasks
    BY <1>4 DEF AnyView, IsOp
  <2>2. PICK h \in Holds : h = [g EXCEPT !.state = "released"]
    BY DEF Holds
  <2>3. h.n = g.n /\ h.state = "released"
    BY <2>2 DEF Holds
  <2>4. PICK x \in Int, y \in Int : x = g.amount /\ y = -g.amount
    BY DEF Holds
  <2>5. Effect(v, e) = Book(v, e.task, h, x, y)
    BY <1>4, <2>1, <2>2, <2>4 DEF Effect
  <2>6. /\ Book(v, e.task, h, x, y) \in AnyView
        /\ Book(v, e.task, h, x, y).holds = [v.holds EXCEPT ![e.task] = h]
        /\ Book(v, e.task, h, x, y).earnings = v.earnings
    BY <2>1, BookType
  <2> QED BY <1>4, <2>1, <2>3, <2>5, <2>6
<1>5. CASE e.kind = "earning"
  <2>1. PICK x \in Int : x = v.earned + e.amount
    BY DEF AnyView, IsOp
  <2>a. v.earnings \in SUBSET Tasks /\ e.task \in Tasks
    BY <1>5 DEF AnyView, IsOp
  <2>b. PICK S \in SUBSET Tasks : S = v.earnings \cup {e.task}
    BY <2>a
  <2>2. Effect(v, e) = [v EXCEPT !.earned = x, !.earnings = S]
    BY <1>5, <2>1, <2>b DEF Effect
  <2>3. /\ [v EXCEPT !.earned = x, !.earnings = S] \in AnyView
        /\ [v EXCEPT !.earned = x, !.earnings = S].holds = v.holds
        /\ [v EXCEPT !.earned = x, !.earnings = S].earnings = S
    BY DEF AnyView
  <2> QED BY <1>5, <2>b, <2>2, <2>3
<1> QED BY <1>1, <1>2, <1>3, <1>4, <1>5 DEF IsOp

\* The holds of the other tasks stay as they are; the hold of its own task is
\* the next one of the task, or the same one settled or released.
LEMMA EffectOnHold ==
  ASSUME NEW v \in AnyView, NEW e, NEW t \in Tasks, IsOp(e), Valid(v, e)
  PROVE  LET g == v.holds[t]
             h == Effect(v, e).holds[t]
         IN  /\ g.n \in Nat /\ h.n \in Nat
             /\ \/ h = g /\ (e.task # t \/ e.kind \in {"opening", "earning"})
                \/ e.task = t /\ e.kind = "hold" /\ h.n = g.n + 1 /\ h.state = "held"
                   /\ g.state # "held" /\ g.state # "settled"
                \/ e.task = t /\ e.kind = "settle" /\ h.n = g.n /\ h.state = "settled"
                   /\ g.state = "held"
                \/ e.task = t /\ e.kind = "release" /\ h.n = g.n /\ h.state = "released"
                   /\ g.state = "held"
<1>1. v.holds \in [Tasks -> Holds] /\ v.holds[t].n \in Nat
  BY DEF AnyView, Holds
<1>2. CASE e.kind \in {"opening", "earning"}
  BY <1>1, <1>2, EffectType
<1>3. CASE e.kind \in {"hold", "settle", "release"}
  <2>1. PICK h \in Holds :
          /\ Effect(v, e).holds = [v.holds EXCEPT ![e.task] = h]
          /\ h.n = IF e.kind = "hold" THEN v.holds[e.task].n + 1 ELSE v.holds[e.task].n
          /\ h.state = CASE e.kind = "hold" -> "held" [] e.kind = "settle" -> "settled"
                         [] OTHER -> "released"
    BY <1>3, EffectType
  <2>2. e.task \in Tasks /\ h.n \in Nat
    BY <1>3 DEF IsOp, Holds
  <2>3. CASE e.task # t
    <3>1. Effect(v, e).holds[t] = v.holds[t]
      BY <1>1, <2>1, <2>2, <2>3
    <3> QED BY <1>1, <2>3, <3>1
  <2>4. CASE e.task = t
    <3>1. Effect(v, e).holds[t] = h
      BY <1>1, <2>1, <2>2, <2>4
    <3>2. CASE e.kind = "hold"
      <4>1. v.holds[t].state # "held" /\ v.holds[t].state # "settled"
        BY <2>4, <3>2 DEF Valid, MayHold
      <4> QED BY <1>1, <2>1, <2>2, <2>4, <3>1, <3>2, <4>1
    <3>3. CASE e.kind = "settle"
      <4>1. v.holds[t].state = "held"
        BY <2>4, <3>3 DEF Valid
      <4> QED BY <1>1, <2>1, <2>2, <2>4, <3>1, <3>3, <4>1
    <3>4. CASE e.kind = "release"
      <4>1. v.holds[t].state = "held"
        BY <2>4, <3>4 DEF Valid
      <4> QED BY <1>1, <2>1, <2>2, <2>4, <3>1, <3>4, <4>1
    <3> QED BY <1>3, <3>2, <3>3, <3>4
  <2> QED BY <2>3, <2>4
<1> QED BY <1>2, <1>3 DEF IsOp

\* The key of a transition that is still to be made has not been spent.
LEMMA FreshKey ==
  ASSUME NEW v \in AnyView, NEW e, IsOp(e), Valid(v, e), e.kind # "opening"
  PROVE  ~Used(v, Key(v, e))
BY DEF AnyView, Holds, IsOp, Valid, MayHold, Used, Key

\* A transition spends its own key ...
LEMMA KeySpent ==
  ASSUME NEW v \in AnyView, NEW e, IsOp(e), Valid(v, e)
  PROVE  Used(Effect(v, e), Key(v, e))
<1>1. CASE e.kind \in {"opening", "earning"}
  BY <1>1, EffectType DEF Used, Key, IsOp
<1>2. CASE e.kind \in {"hold", "settle", "release"}
  <2>1. e.task \in Tasks
    BY <1>2 DEF IsOp
  <2> QED BY <1>2, <2>1, EffectOnHold DEF Used, Key
<1> QED BY <1>1, <1>2 DEF IsOp

\* ... and gives none back.
LEMMA KeysStaySpent ==
  ASSUME NEW v \in AnyView, NEW e, NEW k, IsOp(e), Valid(v, e), Used(v, k)
  PROVE  Used(Effect(v, e), k)
<1>1. CASE k.kind \in {"opening", "earning"}
  BY <1>1, EffectType DEF Used
<1>2. CASE k.kind \in {"hold", "settle", "release"}
  <2>1. k.task \in Tasks
    BY <1>2 DEF Used
  <2> QED BY <1>2, <2>1, EffectOnHold DEF Used
<1> QED BY <1>1, <1>2 DEF Used

\* A settled hold is final.
LEMMA SettledIsFinal ==
  ASSUME NEW v \in AnyView, NEW e, NEW t \in Tasks, IsOp(e), Valid(v, e),
         v.holds[t].state = "settled"
  PROVE  Effect(v, e).holds[t] = v.holds[t]
BY EffectOnHold
----------------------------------------------------------------------------
Ops ==
  [kind : {"hold", "settle", "release", "earning"}, task : Tasks, amount : Int, earned : Int]
    \cup [kind : {"opening"}, task : {NoTask}, amount : Int, earned : Int]

Keys == [kind : {"hold", "settle", "release", "earning", "opening"}, task : Tasks \cup {NoTask},
         nth : Nat]

Jobs == [todo : Seq(Ops), view : AnyView, op : Ops \cup {Op("none", NoTask, 0)}]

Types ==
  /\ truth \in AnyView /\ events \in Seq([e : Ops, key : Keys]) /\ folded \in Nat
  /\ file.version \in {"none", "v1", "v2"} /\ file.folded \in Nat
  /\ file.version = "v1" => file \in Legacy
  /\ job \in Jobs /\ up \in BOOLEAN /\ paid \in [Tasks -> Int]

\* The replay starts from an empty view, and the keys on file are spent.
KeysSpent ==
  /\ events = << >> => truth = Fresh
  /\ \A i \in DOMAIN events : Used(truth, events[i].key)

\* A call in progress has folded every event into its view; only the first
\* event of the log is an opening.
JobCurrent ==
  ~Idle =>
    /\ job.view = truth /\ folded = Len(events) /\ job.op.kind # "none"
    /\ \A i \in DOMAIN job.todo : job.todo[i].kind = "opening" => i = 1 /\ events = << >>
    /\ up => Len(job.todo) <= 1
    /\ job.op.kind = "settle" =>
         \/ job.todo = <<job.op>>
         \/ job.todo = << >> /\ truth.holds[job.op.task].state = "settled"

\* No snapshot has folded an event that is not in the log, and the one that the
\* next call reads is current.
FileCurrent ==
  /\ file.version = "v2" => file.folded <= Len(events)
  /\ TrustedIsCurrent
  /\ up /\ (Idle \/ job.todo # << >>) =>
       file.version = "v2" /\ file.folded = Len(events) /\ folded = Len(events)

PaidIsSettled ==
  \A t \in Tasks : paid[t] # Unset =>
    truth.holds[t].state = "settled" /\ truth.holds[t].charged = paid[t]

BalanceInv == Types /\ KeysSpent /\ JobCurrent /\ FileCurrent /\ PaidIsSettled

\* Every call or migration step asks for a transition in the sense of IsOp.
LEMMA OpsAreOps == \A e \in Ops : IsOp(e)
BY DEF Ops, IsOp

\* The empty view and the idle job have their types.
LEMMA FreshType == Fresh \in AnyView /\ Nothing \in Jobs
<1>1. NoHold \in Holds
  BY DEF NoHold, Holds
<1>2. PICK f \in [Tasks -> Holds] : f = [t \in Tasks |-> NoHold]
  BY <1>1
<1>3. [available |-> 0, held |-> 0, earned |-> 0, earnings |-> {}, holds |-> f] \in AnyView
  BY DEF AnyView
<1>4. Fresh \in AnyView
  BY <1>2, <1>3 DEF Fresh
<1> QED BY <1>4 DEF Nothing, Jobs

\* A node that starts with no file, or with a version 1 file, satisfies the
\* invariant.
LEMMA BalanceInit == Init => BalanceInv
<1> SUFFICES ASSUME Init PROVE BalanceInv
  OBVIOUS
<1>1. file.version \in {"none", "v1"} /\ file.folded = 0 /\ (file.version = "v1" => file \in Legacy)
  BY BalanceAssumption DEF Init, NoFile
<1>2. Types
  <2>1. paid \in [Tasks -> Int]
    BY DEF Init, Unset
  <2>2. events \in Seq([e : Ops, key : Keys])
    BY DEF Init
  <2>3. truth \in AnyView /\ job \in Jobs
    BY FreshType DEF Init
  <2>4. folded \in Nat /\ up \in BOOLEAN
    BY DEF Init
  <2> QED BY <1>1, <2>1, <2>2, <2>3, <2>4 DEF Types
<1> QED BY <1>1, <1>2 DEF Init, BalanceInv, KeysSpent, JobCurrent, FileCurrent, PaidIsSettled,
                          Idle, TrustedIsCurrent

\* The migration of a version 1 file: an opening, and then one hold for every task
\* on hold.
LEMMA MigrationType ==
  ASSUME NEW v \in Views
  PROVE  LET M == Migration(v)
             S == {t \in Tasks : v.holds[t].state = "held"}
         IN  /\ M \in Seq(Ops) /\ 1 \in DOMAIN M
             /\ M[1] = Opening(v.available + v.held, v.earned)
             /\ \A i \in DOMAIN M : i # 1 =>
                  M[i].kind = "hold" /\ \E t \in S : M[i] = Op("hold", t, v.holds[t].amount)
             /\ \A i, j \in DOMAIN M : i # 1 /\ j # 1 /\ M[i].task = M[j].task => i = j
             /\ \A t \in S : \E i \in DOMAIN M : i # 1 /\ M[i] = Op("hold", t, v.holds[t].amount)
<1> DEFINE S == {t \in Tasks : v.holds[t].state = "held"}
           s == OpenHolds(v)
           n == Cardinality(S)
           M == Migration(v)
           f == [i \in DOMAIN s |-> Op("hold", s[i], v.holds[s[i]].amount)]
           o == Opening(v.available + v.held, v.earned)
<1>1. IsFiniteSet(S) /\ n \in Nat
  BY BalanceAssumption, FS_Subset, FS_CardinalityType
<1>2. \E g \in [1..n -> S] : \A i, j \in DOMAIN g : g[i] = g[j] => i = j
  <2>1. \E g : g \in Bijection(1..n, S)
    BY <1>1, FS_CardinalityType DEF ExistsBijection
  <2> QED BY <2>1 DEF Bijection, Injection, IsInjective
<1>3. s \in [1..n -> S] /\ \A i, j \in DOMAIN s : s[i] = s[j] => i = j
  BY <1>2 DEF OpenHolds
<1> HIDE DEF s
<1>4. \A t \in S : \E i \in 1..n : s[i] = t
  <2>1. s \in Injection(1..n, S)
    BY <1>3 DEF Injection, IsInjective
  <2>2. IsFiniteSet(1..n) /\ Cardinality(1..n) = n
    <3>1. 1 \in Int /\ n \in Int
      BY <1>1
    <3>2. IsFiniteSet(1..n) /\ Cardinality(1..n) = IF 1 > n THEN 0 ELSE n - 1 + 1
      BY <3>1, FS_Interval
    <3> QED BY <1>1, <3>2
  <2>3. s \in Surjection(1..n, S)
    BY <1>1, <2>1, <2>2, FS_Injection
  <2> QED BY <2>3 DEF Surjection
<1>5. ASSUME NEW t \in S
      PROVE  /\ Op("hold", t, v.holds[t].amount) \in Ops
             /\ Op("hold", t, v.holds[t].amount).kind = "hold"
             /\ Op("hold", t, v.holds[t].amount).task = t
  <2>1. t \in Tasks /\ v.holds[t].amount \in Int
    BY DEF Views
  <2> QED BY <2>1 DEF Op, Ops
<1>6. DOMAIN f = 1..n /\ \A i \in 1..n : f[i] = Op("hold", s[i], v.holds[s[i]].amount)
  BY <1>3
<1>7. \A i \in 1..n : /\ s[i] \in S /\ f[i] \in Ops /\ f[i].kind = "hold" /\ f[i].task = s[i]
                     /\ f[i] = Op("hold", s[i], v.holds[s[i]].amount)
  BY <1>3, <1>5, <1>6
<1> HIDE DEF S, n
<1>8. f \in Seq(Ops) /\ Len(f) = n
  <2>1. f = [i \in 1..n |-> f[i]]
    BY <1>6
  <2> HIDE DEF f
  <2>2. f \in [1..n -> Ops]
    BY <1>7, <2>1
  <2> QED BY <1>1, <1>6, <2>2
<1>9. o \in Ops
  BY DEF Opening, Ops, Views
<1>10. M = <<o>> \o f
  BY DEF Migration, s
<1> HIDE DEF f, o, M
<1>11. <<o>> \in Seq(Ops) /\ Len(<<o>>) = 1
  BY <1>9
<1>12. /\ M \in Seq(Ops) /\ DOMAIN M = 1..(n + 1) /\ M[1] = o
       /\ \A i \in 2..(n + 1) : M[i] = f[i - 1]
  BY <1>1, <1>8, <1>10, <1>11
<1>13. 1 \in DOMAIN M
  BY <1>1, <1>12
<1>14. ASSUME NEW i \in DOMAIN M, i # 1
       PROVE  /\ i - 1 \in 1..n /\ M[i] = f[i - 1] /\ M[i].kind = "hold" /\ M[i].task = s[i - 1]
              /\ \E t \in S : M[i] = Op("hold", t, v.holds[t].amount)
  <2>1. i \in 2..(n + 1) /\ i - 1 \in 1..n
    BY <1>1, <1>12, <1>14
  <2>2. M[i] = f[i - 1]
    BY <1>12, <2>1
  <2> QED BY <1>7, <2>1, <2>2
<1>15. ASSUME NEW i \in DOMAIN M, NEW j \in DOMAIN M, i # 1, j # 1, M[i].task = M[j].task
       PROVE  i = j
  <2>1. i - 1 \in 1..n /\ j - 1 \in 1..n /\ s[i - 1] = s[j - 1]
    BY <1>14, <1>15
  <2>2. i - 1 = j - 1
    BY <1>3, <2>1
  <2>3. i \in Int /\ j \in Int
    BY <1>12
  <2> QED BY <2>2, <2>3
<1>16. ASSUME NEW t \in S
       PROVE  \E i \in DOMAIN M : i # 1 /\ M[i] = Op("hold", t, v.holds[t].amount)
  <2>1. PICK i \in 1..n : s[i] = t
    BY <1>4
  <2>2. i + 1 \in DOMAIN M /\ i + 1 # 1 /\ i + 1 \in 2..(n + 1) /\ (i + 1) - 1 = i
    BY <1>1, <1>12
  <2>3. M[i + 1] = f[i]
    BY <1>12, <2>2
  <2> QED BY <1>7, <2>1, <2>2, <2>3
<1> QED BY <1>12, <1>13, <1>14, <1>15, <1>16 DEF M, S, o
----------------------------------------------------------------------------
\* A transition of the job in progress: no key on file swallows its event.
LEMMA TransitionStep ==
  ASSUME BalanceInv, Transition
  PROVE  BalanceInv'
<1> DEFINE e == Head(job.todo)
           k == Key(job.view, e)
           v == Effect(truth, e)
<1>1. job \in Jobs /\ job.todo \in Seq(Ops) /\ job.todo # << >> /\ e \in Ops /\ IsOp(e)
  <2>1. job \in Jobs /\ job.todo \in Seq(Ops) /\ job.todo # << >>
    BY DEF BalanceInv, Types, Jobs, Transition
  <2> QED BY <2>1, OpsAreOps
<1>2. ~Idle
  BY <1>1 DEF Idle, Nothing
<1>3. job.view = truth /\ truth \in AnyView /\ Valid(truth, e) /\ folded = Len(events)
      /\ events \in Seq([e : Ops, key : Keys])
  BY <1>2 DEF BalanceInv, JobCurrent, Types, Transition
<1>4. v \in AnyView /\ \A t \in Tasks : v.holds[t].n \in Nat
  BY <1>1, <1>3, EffectType, EffectOnHold
<1>5. ~Known(k)
  <2>1. CASE e.kind = "opening"
    <3>1. events = << >>
      BY <1>1, <1>2, <2>1 DEF BalanceInv, JobCurrent
    <3> QED BY <3>1 DEF Known
  <2>2. CASE e.kind # "opening"
    BY <1>1, <1>3, <2>2, FreshKey DEF BalanceInv, KeysSpent, Known
  <2> QED BY <2>1, <2>2
<1>6. k \in Keys
  <2>1. e.kind \in {"hold", "settle", "release", "earning", "opening"}
        /\ e.task \in Tasks \cup {NoTask}
    BY <1>1 DEF Ops
  <2>2. PICK m \in Nat : m = CASE e.kind = "hold" -> truth.holds[e.task].n + 1
                               [] e.kind = "release" -> truth.holds[e.task].n
                               [] OTHER -> 1
    <3>1. \A t \in Tasks : truth.holds[t].n \in Nat
      BY <1>3 DEF AnyView, Holds
    <3>2. e.kind \in {"hold", "release"} => e.task \in Tasks
      BY <1>1 DEF IsOp
    <3> QED BY <3>1, <3>2
  <2> QED BY <1>3, <2>1, <2>2 DEF Key, Keys
<1>7. /\ job' = [job EXCEPT !.todo = Tail(job.todo), !.view = v]
      /\ events' = Append(events, [e |-> e, key |-> k])
      /\ truth' = v /\ folded' = folded + 1
      /\ UNCHANGED <<file, up, paid>>
  BY <1>3, <1>5 DEF Transition, Apply
<1> HIDE DEF v, k
<1>8. /\ job'.todo = Tail(job.todo) /\ job'.view = v /\ job'.op = job.op /\ job' \in Jobs
  <2>1. Tail(job.todo) \in Seq(Ops)
    BY <1>1
  <2> QED BY <1>1, <1>4, <1>7, <2>1 DEF Jobs
<1>9. /\ events' \in Seq([e : Ops, key : Keys])
      /\ Len(events') = Len(events) + 1
      /\ \A i \in DOMAIN events' : \/ i \in DOMAIN events /\ events'[i] = events[i]
                                   \/ events'[i].key = k
  <2>1. [e |-> e, key |-> k] \in [e : Ops, key : Keys]
    BY <1>1, <1>6
  <2> QED BY <1>3, <1>7, <2>1
<1>10. Types'
  BY <1>3, <1>4, <1>7, <1>8, <1>9 DEF BalanceInv, Types
<1>11. KeysSpent'
  <2> SUFFICES ASSUME NEW i \in DOMAIN events' PROVE Used(v, events'[i].key)
    <3>1. events' # << >>
      BY <1>3, <1>9
    <3> QED BY <1>7, <3>1 DEF KeysSpent
  <2>1. CASE events'[i].key = k
    BY <1>1, <1>3, <2>1, KeySpent DEF k, v
  <2>2. CASE i \in DOMAIN events /\ events'[i] = events[i]
    BY <1>1, <1>3, <2>2, KeysStaySpent DEF BalanceInv, KeysSpent, v
  <2> QED BY <1>9, <2>1, <2>2
<1>12. JobCurrent'
  <2>1. job'.view = truth' /\ folded' = Len(events') /\ job'.op.kind # "none"
    BY <1>2, <1>3, <1>7, <1>8, <1>9 DEF BalanceInv, JobCurrent
  <2>2. ASSUME NEW i \in DOMAIN job'.todo PROVE job'.todo[i].kind # "opening"
    <3>1. i \in Nat /\ i + 1 \in DOMAIN job.todo /\ i + 1 # 1 /\ job'.todo[i] = job.todo[i + 1]
      BY <1>1, <1>8
    <3> QED BY <1>2, <3>1 DEF BalanceInv, JobCurrent
  <2>3. up' => Len(job'.todo) <= 1
    BY <1>1, <1>2, <1>7, <1>8 DEF BalanceInv, JobCurrent
  <2>4. ASSUME job'.op.kind = "settle"
        PROVE  job'.todo = << >> /\ truth'.holds[job'.op.task].state = "settled"
    <3>1. job.todo = <<job.op>>
      BY <1>1, <1>2, <1>8, <2>4 DEF BalanceInv, JobCurrent
    <3>2. e = job.op /\ e.kind = "settle" /\ Tail(job.todo) = << >> /\ e.task \in Tasks
      BY <1>1, <1>8, <2>4, <3>1 DEF IsOp
    <3>3. v.holds[e.task].state = "settled"
      BY <1>1, <1>3, <3>2, EffectOnHold DEF v
    <3>4. truth' = v /\ job'.op = e /\ job'.todo = << >>
      BY <1>7, <1>8, <3>2
    <3> HIDE DEF e
    <3> QED BY <3>3, <3>4
  <2> QED BY <2>1, <2>2, <2>3, <2>4 DEF JobCurrent
<1>13. FileCurrent'
  <2>1. file.version = "v2" => file.folded \in Nat /\ file.folded <= Len(events)
    BY DEF BalanceInv, FileCurrent, Types
  <2>2. Len(events) \in Nat
    BY <1>3
  <2>3. up' => job'.todo = << >>
    BY <1>1, <1>2, <1>7, <1>8 DEF BalanceInv, JobCurrent
  <2>4. ~Idle'
    BY <1>2, <1>8 DEF BalanceInv, JobCurrent, Idle, Nothing, Op
  <2> QED BY <1>7, <1>9, <2>1, <2>2, <2>3, <2>4 DEF FileCurrent, TrustedIsCurrent
<1>14. PaidIsSettled'
  BY <1>1, <1>3, <1>7, SettledIsFinal DEF BalanceInv, PaidIsSettled, v
<1> QED BY <1>10, <1>11, <1>12, <1>13, <1>14 DEF BalanceInv
\* Every step but a failing write keeps the invariant.
LEMMA BalanceStep ==
  ASSUME BalanceInv, [Next]_vars, ~WriteFails
  PROVE  BalanceInv'
<1> USE DEF BalanceInv
<1>0. /\ Len(events) \in Nat /\ folded \in Nat /\ file.folded \in Nat /\ job \in Jobs
      /\ truth \in AnyView /\ up \in BOOLEAN
  BY DEF Types
<1>1. ASSUME NEW op \in Ops, op.kind # "opening", Begin(op) PROVE BalanceInv'
  <2>1. /\ up /\ Idle /\ file.view = truth /\ file.version = "v2"
        /\ file.folded = Len(events) /\ folded = Len(events)
    BY <1>1 DEF Begin, Serving, FileCurrent, TrustedIsCurrent
  <2>2. /\ job' = [todo |-> <<op>>, view |-> truth, op |-> op]
        /\ UNCHANGED <<file, events, truth, up, folded, paid>>
    BY <1>1, <2>1 DEF Begin
  <2>3. /\ job' \in Jobs /\ job'.todo = <<op>> /\ job'.view = truth /\ job'.op = op
        /\ DOMAIN job'.todo = {1} /\ job'.todo[1] = op /\ Len(job'.todo) = 1
    <3>1. <<op>> \in Seq(Ops)
      OBVIOUS
    <3>2. PICK s \in Seq(Ops) : s = <<op>>
      BY <3>1
    <3>3. [todo |-> s, view |-> truth, op |-> op] \in Jobs
      BY <1>0 DEF Jobs
    <3> QED BY <2>2, <3>2, <3>3
  <2>4. op.kind # "none"
    BY DEF Ops
  <2>5. Types' /\ KeysSpent' /\ PaidIsSettled'
    BY <2>2, <2>3 DEF Types, KeysSpent, PaidIsSettled
  <2>6. JobCurrent'
    BY <1>0, <1>1, <2>1, <2>2, <2>3, <2>4 DEF JobCurrent
  <2>7. FileCurrent'
    BY <2>1, <2>2, <1>0 DEF FileCurrent, TrustedIsCurrent
  <2> QED BY <2>5, <2>6, <2>7
<1>2. CASE Transition
  BY <1>2, TransitionStep
<1>3. CASE AnswerAgain
  <2> DEFINE e == Head(job.todo)
  <2>1. /\ job.todo \in Seq(Ops) /\ job.todo # << >> /\ Repeated(job.view, e)
        /\ job' = [job EXCEPT !.todo = Tail(job.todo)]
        /\ UNCHANGED <<file, events, truth, up, folded, paid>>
    BY <1>0, <1>3 DEF AnswerAgain, Jobs
  <2>2. ~Idle
    BY <2>1 DEF Idle, Nothing
  <2>3. Tail(job.todo) \in Seq(Ops)
    BY <2>1
  <2>4. job' \in Jobs /\ job'.todo = Tail(job.todo) /\ job'.view = job.view /\ job'.op = job.op
    BY <1>0, <2>1, <2>3 DEF Jobs
  <2>5. Types' /\ KeysSpent' /\ PaidIsSettled'
    BY <2>1, <2>4 DEF Types, KeysSpent, PaidIsSettled
  <2>6. ASSUME NEW i \in DOMAIN job'.todo PROVE job'.todo[i].kind # "opening"
    <3>1. i \in Nat /\ i + 1 \in DOMAIN job.todo /\ i + 1 # 1 /\ job'.todo[i] = job.todo[i + 1]
      BY <2>1, <2>4
    <3> QED BY <2>2, <3>1 DEF JobCurrent
  <2>7. up' => Len(job'.todo) <= 1 /\ job'.todo = << >>
    BY <2>1, <2>2, <2>4 DEF JobCurrent
  <2>8. ASSUME job'.op.kind = "settle"
        PROVE  job'.todo = << >> /\ truth'.holds[job'.op.task].state = "settled"
    <3>1. job.todo = <<job.op>>
      BY <2>1, <2>2, <2>4, <2>8 DEF JobCurrent
    <3>2. e = job.op /\ e.kind = "settle" /\ Tail(job.todo) = << >>
      BY <2>4, <2>8, <3>1
    <3>3. truth.holds[e.task].state = "settled"
      BY <2>1, <2>2, <3>2 DEF JobCurrent, Repeated
    <3>4. truth' = truth /\ job'.op = e
      BY <2>1, <2>4, <3>2
    <3> HIDE DEF e
    <3> QED BY <2>4, <3>2, <3>3, <3>4
  <2>9. JobCurrent'
    BY <2>1, <2>2, <2>4, <2>6, <2>7, <2>8 DEF JobCurrent
  <2>10. ~Idle'
    BY <2>2, <2>4 DEF JobCurrent, Idle, Nothing, Op
  <2>11. FileCurrent'
    BY <2>1, <2>7, <2>10 DEF FileCurrent, TrustedIsCurrent
  <2> QED BY <2>5, <2>9, <2>11
<1>4. CASE Refuse
  <2>1. /\ job.todo # << >> /\ job' = Nothing
        /\ UNCHANGED <<file, events, truth, up, folded, paid>>
    BY <1>4 DEF Refuse
  <2>2. Types' /\ KeysSpent' /\ PaidIsSettled' /\ JobCurrent'
    BY <2>1, FreshType DEF Types, KeysSpent, PaidIsSettled, JobCurrent, Idle
  <2>3. FileCurrent'
    BY <2>1 DEF FileCurrent, TrustedIsCurrent
  <2> QED BY <2>2, <2>3
<1>5. CASE Save
  <2>1. /\ ~Idle /\ job.todo = << >> /\ job' = Nothing /\ up' = TRUE
        /\ file' = [version |-> "v2", view |-> truth, folded |-> Len(events)]
        /\ UNCHANGED <<events, truth, folded>> /\ folded = Len(events)
    BY <1>5 DEF Save, JobCurrent
  <2>2. file'.version = "v2" /\ file'.view = truth /\ file'.folded = Len(events)
    BY <2>1
  <2>3. /\ paid' \in [Tasks -> Int] /\ PaidIsSettled'
    <3>1. CASE job.op.kind # "settle"
      <4>1. paid' = paid
        BY <1>5, <3>1 DEF Save
      <4> QED BY <2>1, <4>1 DEF Types, PaidIsSettled
    <3>2. CASE job.op.kind = "settle"
      <4>1. job.op \in Ops /\ job.op.task \in Tasks
        BY <1>0, <3>2 DEF Jobs, Ops, Op
      <4>2. truth.holds[job.op.task].state = "settled"
        BY <2>1, <3>2 DEF JobCurrent
      <4>3. PICK c \in Int : c = truth.holds[job.op.task].charged
        BY <1>0, <4>1 DEF AnyView, Holds
      <4>4. paid' = [paid EXCEPT ![job.op.task] = c]
        BY <1>5, <2>1, <3>2, <4>3 DEF Save, JobCurrent
      <4>5. paid \in [Tasks -> Int]
        BY DEF Types
      <4>6. ASSUME NEW t \in Tasks, paid'[t] # Unset
            PROVE  truth.holds[t].state = "settled" /\ truth.holds[t].charged = paid'[t]
        <5>1. CASE t = job.op.task
          BY <4>1, <4>2, <4>3, <4>4, <4>5, <5>1
        <5>2. CASE t # job.op.task
          BY <4>1, <4>4, <4>5, <4>6, <5>2 DEF PaidIsSettled
        <5> QED BY <5>1, <5>2
      <4> QED BY <2>1, <4>4, <4>5, <4>6 DEF PaidIsSettled
    <3> QED BY <3>1, <3>2
  <2>4. Types'
    BY <1>0, <2>1, <2>2, <2>3, FreshType DEF Types
  <2>5. KeysSpent' /\ JobCurrent' /\ FileCurrent'
    BY <1>0, <2>1, <2>2 DEF KeysSpent, JobCurrent, FileCurrent, TrustedIsCurrent, Idle
  <2> QED BY <2>3, <2>4, <2>5
<1>6. CASE Rebuild \/ StartReplaying
  <2>1. /\ job' = [todo |-> << >>, view |-> truth, op |-> Opening(0, 0)]
        /\ folded' = Len(events) /\ UNCHANGED <<file, events, truth, up, paid>>
    BY <1>6 DEF Rebuild, StartReplaying
  <2>2. Opening(0, 0) \in Ops /\ Opening(0, 0).kind = "opening"
    BY DEF Opening, Ops
  <2>3. /\ job' \in Jobs /\ job'.todo = << >> /\ job'.view = truth /\ job'.op.kind = "opening"
    <3>0. << >> \in Seq(Ops)
      OBVIOUS
    <3>1. PICK s \in Seq(Ops) : s = << >>
      BY <3>0
    <3>2. PICK o \in Ops : o = Opening(0, 0)
      BY <2>2
    <3>3. [todo |-> s, view |-> truth, op |-> o] \in Jobs
      BY <1>0 DEF Jobs
    <3> QED BY <2>1, <2>2, <3>1, <3>2, <3>3
  <2>4. ~Idle'
    BY <2>3 DEF Idle, Nothing, Op
  <2>5. Types' /\ KeysSpent' /\ PaidIsSettled'
    BY <1>0, <2>1, <2>3 DEF Types, KeysSpent, PaidIsSettled
  <2>6. JobCurrent'
    BY <1>0, <2>1, <2>3 DEF JobCurrent
  <2>7. FileCurrent'
    BY <2>1, <2>3, <2>4 DEF FileCurrent, TrustedIsCurrent
  <2> QED BY <2>5, <2>6, <2>7
<1>7. CASE Crash
  <2>1. /\ up' = FALSE /\ folded' = 0 /\ job' = Nothing
        /\ UNCHANGED <<file, events, truth, paid>>
    BY <1>7 DEF Crash
  <2> QED BY <2>1, FreshType DEF Types, KeysSpent, PaidIsSettled, JobCurrent, Idle, FileCurrent,
                                 TrustedIsCurrent
<1>8. CASE LoseFile
  <2>1. /\ ~up /\ file' = NoFile /\ UNCHANGED <<events, truth, up, folded, job, paid>>
    BY <1>8 DEF LoseFile
  <2>2. file'.version = "none" /\ file'.folded = 0
    BY <2>1 DEF NoFile
  <2> QED BY <2>1, <2>2 DEF Types, KeysSpent, PaidIsSettled, JobCurrent, Idle, FileCurrent,
                            TrustedIsCurrent
<1>9. CASE StartTrusting
  <2>1. /\ up' = TRUE /\ Idle /\ file.version = "v2" /\ file.folded = Len(events)
        /\ folded' = Len(events) /\ UNCHANGED <<file, events, truth, job, paid>>
    BY <1>9 DEF StartTrusting, SnapshotCurrent
  <2>2. Types' /\ KeysSpent' /\ PaidIsSettled'
    BY <1>0, <2>1 DEF Types, KeysSpent, PaidIsSettled
  <2>3. JobCurrent' /\ FileCurrent'
    BY <1>0, <2>1 DEF JobCurrent, FileCurrent, TrustedIsCurrent, Idle
  <2> QED BY <2>2, <2>3
<1>10. CASE StartFirst
  <2>1. /\ ~up /\ Idle /\ file.version # "v2" /\ events = << >> /\ folded' = 0
        /\ UNCHANGED <<file, events, truth, up, paid>>
    BY <1>10 DEF StartFirst
  <2>2. PICK s \in Seq(Ops) :
          /\ job' = [todo |-> s, view |-> Fresh, op |-> Opening(0, 0)]
          /\ \A i \in DOMAIN s : s[i].kind = "opening" => i = 1
    <3>1. CASE file.version = "v1"
      <4>1. file.view \in Views
        BY <3>1, BalanceAssumption DEF Types
      <4> QED BY <1>10, <3>1, <4>1, MigrationType DEF StartFirst
    <3>2. CASE file.version # "v1"
      <4>1. Opening(OpeningGrant, 0) \in Ops
        BY BalanceAssumption DEF Opening, Ops
      <4>2. <<Opening(OpeningGrant, 0)>> \in Seq(Ops)
        BY <4>1
      <4>3. job' = [todo |-> <<Opening(OpeningGrant, 0)>>, view |-> Fresh, op |-> Opening(0, 0)]
        BY <1>10, <3>2 DEF StartFirst
      <4>4. \A i \in DOMAIN <<Opening(OpeningGrant, 0)>> : i = 1
        OBVIOUS
      <4> QED BY <4>2, <4>3, <4>4
    <3> QED BY <3>1, <3>2
  <2>a. Opening(0, 0) \in Ops /\ Opening(0, 0).kind = "opening"
    BY DEF Opening, Ops
  <2>3. PICK o \in Ops : o = Opening(0, 0) /\ o.kind = "opening"
    BY <2>a
  <2>4. [todo |-> s, view |-> Fresh, op |-> o] \in Jobs
    BY FreshType DEF Jobs
  <2>5. /\ job' \in Jobs /\ job'.todo = s /\ job'.view = Fresh /\ job'.op.kind = "opening"
    BY <2>2, <2>3, <2>4
  <2>6. truth = Fresh /\ Len(events) = 0
    BY <2>1 DEF KeysSpent
  <2>7. Types' /\ KeysSpent' /\ PaidIsSettled'
    BY <1>0, <2>1, <2>5 DEF Types, KeysSpent, PaidIsSettled
  <2>8. JobCurrent'
    BY <2>1, <2>2, <2>5, <2>6 DEF JobCurrent
  <2>9. FileCurrent'
    BY <2>1 DEF FileCurrent, TrustedIsCurrent
  <2> QED BY <2>7, <2>8, <2>9
<1>11. CASE UNCHANGED vars
  BY <1>11 DEF vars, Types, KeysSpent, PaidIsSettled, JobCurrent, Idle, FileCurrent,
               TrustedIsCurrent
<1>12. ASSUME NEW t \in Tasks, NEW a \in Amounts, NEW kind \in {"hold", "settle", "earning"}
       PROVE  Op(kind, t, a) \in Ops /\ Op(kind, t, a).kind # "opening"
  BY BalanceAssumption DEF Op, Ops
<1>13. ASSUME NEW t \in Tasks
       PROVE  Op("release", t, 0) \in Ops /\ Op("release", t, 0).kind # "opening"
  BY DEF Op, Ops
<1> QED BY <1>1, <1>2, <1>3, <1>4, <1>5, <1>6, <1>7, <1>8, <1>9, <1>10, <1>11, <1>12, <1>13
        DEF Next

\* The history of mishaps only grows, and tells of every failed write.
LEMMA MishapsGrow ==
  ASSUME [Next]_vars
  PROVE  mishaps \subseteq mishaps' /\ (WriteFails => "write" \in mishaps')
BY DEF Next, vars, Begin, Transition, AnswerAgain, Refuse, Save, WriteFails, Rebuild, Crash,
       LoseFile, StartTrusting, StartReplaying, StartFirst

NoFailure == "write" \notin mishaps

\* The inductive invariant of the Task Balance holds until a write fails.
LEMMA BalanceInvariant == Spec => [](NoFailure => BalanceInv)
<1>1. Init => (NoFailure => BalanceInv)
  BY BalanceInit
<1>2. (NoFailure => BalanceInv) /\ [Next]_vars => (NoFailure => BalanceInv)'
  BY BalanceStep, MishapsGrow DEF NoFailure
<1> QED BY <1>1, <1>2, PTL DEF Spec

----------------------------------------------------------------------------
\* Until a write fails, a snapshot that the constructor would trust is the replay
\* of the events, after any sequence of calls, crashes, lost files, rebuilds and
\* migrations: no transition of a view is swallowed by the dedupe key of an
\* earlier one.
THEOREM SnapshotsAreCurrent == Spec => []CurrentUnlessFailed
<1>1. (NoFailure => BalanceInv) => CurrentUnlessFailed
  BY DEF NoFailure, CurrentUnlessFailed, BalanceInv, FileCurrent
<1> QED BY <1>1, BalanceInvariant, PTL

\* Until a write fails, a settlement that was reported to its caller stays
\* settled for that amount.
THEOREM SettlementsAreKept == Spec => []SettledIsKept
<1>1. (NoFailure => BalanceInv) => SettledIsKept
  BY DEF NoFailure, BalanceInv, FileCurrent, TrustedIsCurrent, PaidIsSettled, SettledIsKept,
         Serving
<1> QED BY <1>1, BalanceInvariant, PTL

----------------------------------------------------------------------------
\* Units: what a view holds and charges, counted over the tasks.
NatHolds == [state : {"none", "held", "settled", "released"}, amount : Nat, charged : Nat, n : Nat]

\* What the hold h of a task keeps from the available balance.
Held(h) == IF h.state = "held" THEN h.amount ELSE 0

\* View v accounts for all the units it was opened with, and charges only settled
\* holds.
Balanced(v, units) ==
  /\ v \in Views
  /\ v.held = Total(OnHold(v), Tasks)
  /\ v.available + v.held + Total(Charged(v), Tasks) = units
  /\ \A t \in Tasks : v.holds[t].state # "settled" => v.holds[t].charged = 0

\* The amounts of a view are natural numbers, one per task.
LEMMA ViewAmounts ==
  ASSUME NEW v \in Views
  PROVE  /\ Amounting(OnHold(v), Tasks) /\ Amounting(Charged(v), Tasks)
         /\ \A t \in Tasks : /\ OnHold(v)[t] = Held(v.holds[t])
                             /\ Charged(v)[t] = v.holds[t].charged
                             /\ v.holds[t] \in NatHolds
                             /\ Held(v.holds[t]) \in Nat /\ v.holds[t].charged \in Nat
<1>1. \A t \in Tasks : v.holds[t] \in NatHolds
  BY DEF Views, NatHolds
<1>2. \A h \in NatHolds : Held(h) \in Nat /\ h.charged \in Nat
  BY DEF NatHolds, Held
<1>3. \A t \in Tasks : OnHold(v)[t] = Held(v.holds[t]) /\ Charged(v)[t] = v.holds[t].charged
  BY DEF OnHold, Charged, Held
<1> QED BY <1>1, <1>2, <1>3, BalanceAssumption DEF Amounting

\* Booking a hold whose amounts add up keeps the units of a view.
LEMMA BookBalances ==
  ASSUME NEW v, NEW units \in Nat, Balanced(v, units), NEW t \in Tasks, NEW h \in NatHolds,
         NEW a \in Int, NEW d \in Int, v.available + a \in Nat,
         h.state # "settled" => h.charged = 0,
         d = Held(h) - Held(v.holds[t]),
         a + d + h.charged = v.holds[t].charged
  PROVE  Balanced(Book(v, t, h, a, d), units)
<1> DEFINE w == Book(v, t, h, a, d)
<1>1. /\ v \in Views /\ v.available \in Nat /\ v.held \in Nat
      /\ v.holds \in [Tasks -> NatHolds]
  BY DEF Balanced, Views, NatHolds
<1>2. /\ Held(v.holds[t]) \in Nat /\ Held(h) \in Nat /\ v.holds[t].charged \in Nat
      /\ h.charged \in Nat
  BY <1>1, ViewAmounts DEF NatHolds, Held
<1>3. Held(v.holds[t]) <= v.held
  <2>1. Amounting(OnHold(v), Tasks) /\ OnHold(v)[t] = Held(v.holds[t])
    BY <1>1, ViewAmounts
  <2>2. OnHold(v)[t] <= Total(OnHold(v), Tasks)
    BY <2>1, TotalRemove
  <2> QED BY <2>1, <2>2 DEF Balanced
<1>4. PICK x \in Nat, y \in Nat : x = v.available + a /\ y = v.held + d
  BY <1>1, <1>2, <1>3
<1>5. PICK f \in [Tasks -> NatHolds] : f = [v.holds EXCEPT ![t] = h]
  BY <1>1
<1>6. w = [v EXCEPT !.available = x, !.held = y, !.holds = f]
  BY <1>4, <1>5 DEF Book
<1>7. w \in Views /\ w.available = x /\ w.held = y /\ w.holds = f
  BY <1>1, <1>6 DEF Views, NatHolds
<1> HIDE DEF w
<1>8. f[t] = h /\ \A u \in Tasks \ {t} : f[u] = v.holds[u]
  BY <1>1, <1>5
<1>9. Total(OnHold(w), Tasks) = Total(OnHold(v), Tasks) - Held(v.holds[t]) + Held(h)
  <2>1. \A u \in Tasks \ {t} : OnHold(v)[u] = OnHold(w)[u]
    BY <1>1, <1>7, <1>8, ViewAmounts
  <2>2. OnHold(v)[t] = Held(v.holds[t]) /\ OnHold(w)[t] = Held(h)
    BY <1>1, <1>7, <1>8, ViewAmounts
  <2>3. Amounting(OnHold(v), Tasks) /\ Amounting(OnHold(w), Tasks)
    BY <1>1, <1>7, ViewAmounts
  <2>4. Total(OnHold(w), Tasks) = Total(OnHold(v), Tasks) - OnHold(v)[t] + OnHold(w)[t]
    BY <2>1, <2>3, TotalChange
  <2> QED BY <2>2, <2>4
<1>10. Total(Charged(w), Tasks) = Total(Charged(v), Tasks) - v.holds[t].charged + h.charged
  <2>1. \A u \in Tasks \ {t} : Charged(v)[u] = Charged(w)[u]
    BY <1>1, <1>7, <1>8, ViewAmounts
  <2>2. Charged(v)[t] = v.holds[t].charged /\ Charged(w)[t] = h.charged
    BY <1>1, <1>7, <1>8, ViewAmounts
  <2>3. Amounting(Charged(v), Tasks) /\ Amounting(Charged(w), Tasks)
    BY <1>1, <1>7, ViewAmounts
  <2>4. Total(Charged(w), Tasks) = Total(Charged(v), Tasks) - Charged(v)[t] + Charged(w)[t]
    BY <2>1, <2>3, TotalChange
  <2> QED BY <2>2, <2>4
<1>11. PICK H \in Nat, C \in Nat : H = Total(OnHold(v), Tasks) /\ C = Total(Charged(v), Tasks)
  BY <1>1, ViewAmounts, TotalType
<1>12. y = H - Held(v.holds[t]) + Held(h)
  BY <1>1, <1>2, <1>4, <1>11 DEF Balanced
<1>13. x + y + (C - v.holds[t].charged + h.charged) = units
  <2>1. v.available + v.held + C = units
    BY <1>11 DEF Balanced
  <2> QED BY <1>1, <1>2, <1>4, <2>1
<1>14. \A u \in Tasks : w.holds[u].state # "settled" => w.holds[u].charged = 0
  BY <1>7, <1>8 DEF Balanced
<1> QED BY <1>7, <1>9, <1>10, <1>11, <1>12, <1>13, <1>14 DEF Balanced, w

\* The transitions that callers and the migration ask for, after the opening.
NatOps == [kind : {"hold", "settle", "release", "earning"}, task : Tasks, amount : Nat,
           earned : {0}]

\* A transition makes no units and loses none ...
LEMMA EffectBalances ==
  ASSUME NEW v, NEW units \in Nat, NEW e \in NatOps, Balanced(v, units), Valid(v, e)
  PROVE  Balanced(Effect(v, e), units)
<1>1. e.task \in Tasks /\ e.amount \in Nat
  BY DEF NatOps
<1>2. PICK g \in NatHolds : g = v.holds[e.task]
  BY <1>1, ViewAmounts DEF Balanced
<1>3. /\ g.amount \in Nat /\ g.charged \in Nat /\ g.n \in Nat
      /\ g.state # "settled" => g.charged = 0
  BY <1>1, <1>2 DEF Balanced, NatHolds
<1>a. v.available \in Nat
  BY DEF Balanced, Views
<1>4. CASE e.kind = "hold"
  <2>1. e.amount <= v.available /\ g.state \in {"none", "released"}
    BY <1>2, <1>4 DEF Valid, MayHold
  <2>2. PICK m \in Nat, c \in Nat : m = g.n + 1 /\ c = e.amount
    BY <1>1, <1>3
  <2>3. PICK h \in NatHolds : h = [state |-> "held", amount |-> c, charged |-> 0, n |-> m]
    BY DEF NatHolds
  <2>4. h.state = "held" /\ h.amount = c /\ h.charged = 0
    BY <2>3
  <2>5. PICK x \in Int : x = -e.amount
    BY <1>1
  <2>6. Effect(v, e) = Book(v, e.task, h, x, c)
    BY <1>2, <1>4, <2>2, <2>3, <2>5 DEF Effect
  <2>a. Held(h) = c /\ Held(g) = 0 /\ h.charged = 0 /\ g.charged = 0
    BY <1>3, <2>1, <2>4 DEF Held
  <2>b. v.available + x \in Nat /\ x + c = 0
    BY <1>a, <1>1, <2>1, <2>2, <2>5
  <2>7. /\ v.available + x \in Nat /\ c = Held(h) - Held(g) /\ x + c + h.charged = g.charged
    BY <2>a, <2>b
  <2> QED BY <1>1, <1>2, <2>4, <2>6, <2>7, BookBalances
<1>5. CASE e.kind = "settle"
  <2>1. g.state = "held" /\ e.amount <= g.amount
    BY <1>2, <1>5 DEF Valid
  <2>2. PICK c \in Nat : c = e.amount
    BY <1>1
  <2>3. PICK h \in NatHolds : h = [g EXCEPT !.state = "settled", !.charged = c]
    BY DEF NatHolds
  <2>4. h.state = "settled" /\ h.charged = c
    BY <2>3 DEF NatHolds
  <2>5. PICK x \in Int, y \in Int : x = g.amount - e.amount /\ y = -g.amount
    BY <1>1, <1>3
  <2>6. Effect(v, e) = Book(v, e.task, h, x, y)
    BY <1>2, <1>5, <2>2, <2>3, <2>5 DEF Effect, Refunded
  <2>7. v.available + x \in Nat /\ y = Held(h) - Held(g) /\ x + y + h.charged = g.charged
    BY <1>a, <1>1, <1>3, <2>1, <2>2, <2>4, <2>5 DEF Held
  <2> QED BY <1>1, <1>2, <2>4, <2>6, <2>7, BookBalances
<1>6. CASE e.kind = "release"
  <2>1. g.state = "held"
    BY <1>2, <1>6 DEF Valid
  <2>2. PICK h \in NatHolds : h = [g EXCEPT !.state = "released"]
    BY DEF NatHolds
  <2>3. h.state = "released" /\ h.charged = g.charged
    BY <2>2 DEF NatHolds
  <2>4. PICK x \in Int, y \in Int : x = g.amount /\ y = -g.amount
    BY <1>3
  <2>5. Effect(v, e) = Book(v, e.task, h, x, y)
    BY <1>2, <1>6, <2>2, <2>4 DEF Effect
  <2>6. v.available + x \in Nat /\ y = Held(h) - Held(g) /\ x + y + h.charged = g.charged
    BY <1>a, <1>3, <2>1, <2>3, <2>4 DEF Held
  <2> QED BY <1>1, <1>2, <1>3, <2>1, <2>3, <2>5, <2>6, BookBalances
<1>7. CASE e.kind = "earning"
  <2>0. v.earned \in Nat /\ v.earnings \cup {e.task} \in SUBSET Tasks
    BY <1>1 DEF Balanced, Views
  <2>a. PICK x \in Nat : x = v.earned + e.amount
    BY <1>1, <2>0
  <2>1. PICK S \in SUBSET Tasks : S = v.earnings \cup {e.task}
    BY <2>0
  <2>2. Effect(v, e) = [v EXCEPT !.earned = x, !.earnings = S]
    BY <1>7, <2>a, <2>1 DEF Effect
  <2>3. /\ Effect(v, e) \in Views /\ Effect(v, e).available = v.available
        /\ Effect(v, e).held = v.held /\ Effect(v, e).holds = v.holds
    BY <2>2 DEF Balanced, Views
  <2>4. OnHold(Effect(v, e)) = OnHold(v) /\ Charged(Effect(v, e)) = Charged(v)
    BY <2>3 DEF OnHold, Charged
  <2> QED BY <2>3, <2>4 DEF Balanced
<1> QED BY <1>4, <1>5, <1>6, <1>7 DEF NatOps

\* ... and the opening event makes exactly the units that the node starts with.
LEMMA OpeningBalances ==
  ASSUME NEW a \in Nat, NEW n \in Nat
  PROVE  /\ Balanced(Effect(Fresh, Opening(a, n)), a)
         /\ Effect(Fresh, Opening(a, n)).holds = [t \in Tasks |-> NoHold]
<1> DEFINE w == Effect(Fresh, Opening(a, n))
<1>1. NoHold \in NatHolds /\ NoHold.state = "none" /\ NoHold.charged = 0
  BY DEF NoHold, NatHolds
<1>2. PICK f \in [Tasks -> NatHolds] : f = [t \in Tasks |-> NoHold]
  BY <1>1
<1>a. Fresh = [available |-> 0, held |-> 0, earned |-> 0, earnings |-> {}, holds |-> f]
  BY <1>2 DEF Fresh
<1>b. /\ Opening(a, n).kind = "opening" /\ Opening(a, n).amount = a /\ Opening(a, n).earned = n
      /\ Fresh.available + a = a
  BY <1>a DEF Opening
<1>c. w = [Fresh EXCEPT !.available = a, !.earned = n]
  BY <1>b DEF Effect
<1>3. w = [available |-> a, held |-> 0, earned |-> n, earnings |-> {}, holds |-> f]
  BY <1>a, <1>c
<1>4. w \in Views /\ w.available = a /\ w.held = 0 /\ w.holds = f
  BY <1>3 DEF Views, NatHolds
<1> HIDE DEF w
<1>5. \A t \in Tasks : OnHold(w)[t] = 0 /\ Charged(w)[t] = 0
  BY <1>1, <1>2, <1>4 DEF OnHold, Charged
<1>6. Total(OnHold(w), Tasks) = 0 /\ Total(Charged(w), Tasks) = 0
  BY <1>5, TotalZero
<1>7. Balanced(w, a)
  BY <1>1, <1>2, <1>4, <1>6 DEF Balanced
<1> QED BY <1>2, <1>4, <1>7 DEF w
----------------------------------------------------------------------------
\* The first start of the node is about to append the opening event.
FirstStart ==
  /\ events = << >> /\ job.view = Fresh /\ job.todo # << >>
  /\ job.todo[1] \in [kind : {"opening"}, task : {NoTask}, amount : {Endowment}, earned : Nat]
  /\ \A i \in DOMAIN job.todo : i # 1 => job.todo[i] \in NatOps

\* Any other call starts from a view that accounts for every unit.
LaterCall ==
  /\ events # << >> /\ Balanced(job.view, Endowment)
  /\ \A i \in DOMAIN job.todo : job.todo[i] \in NatOps

\* Whatever has failed, the replay of the log, the snapshot and the view of the
\* call in progress account for every unit; the log is empty only before the
\* opening event of the first start.
UnitsInv ==
  /\ job \in Jobs /\ events \in Seq([e : Ops, key : Keys])
  /\ origin \in Legacy \cup {NoFile}
  /\ file.version = "v1" => file = origin
  /\ events = << >> => truth = Fresh /\ file = origin
  /\ events # << >> => Balanced(truth, Endowment)
  /\ file.version = "v2" => events # << >> /\ Balanced(file.view, Endowment)
  /\ up => file.version = "v2"
  /\ ~Idle => FirstStart \/ LaterCall

\* The tasks that the version 1 file has on hold, and a view that knows them all.
OriginHeld == {t \in Tasks : origin.view.holds[t].state = "held"}
Carried(v) == \A t \in OriginHeld : v.holds[t].n > 0

\* The migration in progress has still to hold what it has not yet held, each task
\* once, and holds no more than the version 1 file did.
Migrating ==
  /\ \A i \in DOMAIN job.todo : job.todo[i].kind \in {"opening", "hold"}
  /\ \A i, j \in DOMAIN job.todo :
       job.todo[i].kind = "hold" /\ job.todo[j].kind = "hold" /\ job.todo[i].task = job.todo[j].task
         => i = j
  /\ \A i \in DOMAIN job.todo : job.todo[i].kind = "hold" =>
       /\ job.todo[i].task \in OriginHeld
       /\ job.todo[i].amount = origin.view.holds[job.todo[i].task].amount
       /\ job.view.holds[job.todo[i].task] = NoHold
  /\ \A t \in OriginHeld :
       \/ \E i \in DOMAIN job.todo : job.todo[i].kind = "hold" /\ job.todo[i].task = t
       \/ job.view.holds[t].n > 0
  /\ \A t \in Tasks : /\ Held(job.view.holds[t]) <= Held(origin.view.holds[t])
                      /\ job.view.holds[t].charged = 0

\* Unless a start was cut short, the version 1 file is either still to be migrated,
\* or being migrated without a failure, or all its holds are known.
MigrationInv ==
  origin.version = "v1" /\ "start" \notin mishaps =>
    /\ file.version = "v1" =>
         /\ NoFailure
         /\ Idle => events = << >>
         /\ ~Idle => Migrating
    /\ file.version # "v1" =>
         /\ Carried(truth)
         /\ file.version = "v2" => Carried(file.view)
         /\ ~Idle => Carried(job.view)

\* The units that the node was opened with are a natural number.
LEMMA EndowmentType == origin \in Legacy \cup {NoFile} => Endowment \in Nat
<1>1. ASSUME origin \in Legacy PROVE origin.view.available \in Nat /\ origin.view.held \in Nat
  BY <1>1, BalanceAssumption DEF Views
<1>2. NoFile.version = "none"
  BY DEF NoFile
<1> QED BY <1>1, <1>2, BalanceAssumption DEF Endowment

\* A dedupe key has its type.
LEMMA KeyType ==
  ASSUME NEW v \in AnyView, NEW e \in Ops
  PROVE  Key(v, e) \in Keys
<1>1. e.kind \in {"hold", "settle", "release", "earning", "opening"}
      /\ e.task \in Tasks \cup {NoTask} /\ (e.kind \in {"hold", "release"} => e.task \in Tasks)
  BY DEF Ops
<1>2. \A t \in Tasks : v.holds[t].n \in Nat
  BY DEF AnyView, Holds
<1>3. PICK m \in Nat : m = CASE e.kind = "hold" -> v.holds[e.task].n + 1
                             [] e.kind = "release" -> v.holds[e.task].n
                             [] OTHER -> 1
  BY <1>1, <1>2
<1> QED BY <1>1, <1>3 DEF Key, Keys

LEMMA ViewsAreViews == Views \subseteq AnyView /\ NatOps \subseteq Ops
BY DEF Views, AnyView, Holds, NatOps, Ops

\* The first state: an empty log, and no call.
LEMMA UnitsInit == Init => UnitsInv
<1> SUFFICES ASSUME Init PROVE UnitsInv
  OBVIOUS
<1>1. file.version \in {"none", "v1"}
  BY BalanceAssumption DEF Init, NoFile
<1>2. events \in Seq([e : Ops, key : Keys]) /\ events = << >>
  BY DEF Init
<1> QED BY <1>1, <1>2, FreshType DEF Init, UnitsInv, Idle

\* The event of a transition keeps the units of the replayed log, and of the view.
LEMMA UnitsTransition ==
  ASSUME UnitsInv, Transition
  PROVE  UnitsInv'
<1> DEFINE e == Head(job.todo)
           k == Key(job.view, e)
           v == Effect(job.view, e)
<1>1. /\ job \in Jobs /\ job.todo \in Seq(Ops) /\ job.todo # << >> /\ job.view \in AnyView
      /\ e \in Ops /\ e = job.todo[1] /\ 1 \in DOMAIN job.todo
      /\ events \in Seq([e : Ops, key : Keys])
  <2>1. job \in Jobs /\ job.todo \in Seq(Ops) /\ job.todo # << >> /\ job.view \in AnyView
    BY DEF UnitsInv, Jobs, Transition
  <2> QED BY <2>1 DEF UnitsInv
<1>2. ~Idle /\ (FirstStart \/ LaterCall)
  BY <1>1 DEF UnitsInv, Idle, Nothing
<1>3. Valid(job.view, e) /\ UNCHANGED <<file, up, origin>>
  BY DEF Transition
<1>4. k \in Keys /\ v \in AnyView
  BY <1>1, <1>3, KeyType, EffectType, OpsAreOps
<1>5. job' = [job EXCEPT !.todo = Tail(job.todo), !.view = v]
  BY DEF Transition
<1>6. job'.todo = Tail(job.todo) /\ job'.view = v /\ job'.op = job.op /\ job' \in Jobs
  <2>1. Tail(job.todo) \in Seq(Ops)
    BY <1>1
  <2> HIDE DEF v
  <2> QED BY <1>1, <1>4, <1>5, <2>1 DEF Jobs
<1>7. Endowment \in Nat /\ Endowment' = Endowment
  BY <1>3, EndowmentType DEF UnitsInv, Endowment
<1>8. \A i \in DOMAIN job'.todo : job'.todo[i] \in NatOps
  <2> SUFFICES ASSUME NEW i \in DOMAIN job'.todo PROVE job'.todo[i] \in NatOps
    OBVIOUS
  <2>1. i + 1 \in DOMAIN job.todo /\ i + 1 # 1 /\ job'.todo[i] = job.todo[i + 1]
    BY <1>1, <1>6
  <2> QED BY <1>2, <2>1 DEF FirstStart, LaterCall
<1>9. /\ \/ events' = events /\ truth' = truth /\ events # << >>
         \/ events' = Append(events, [e |-> e, key |-> k]) /\ truth' = Apply(truth, e)
      /\ events' \in Seq([e : Ops, key : Keys]) /\ events' # << >>
  <2>1. CASE Known(k)
    <3>1. events # << >>
      BY <2>1 DEF Known
    <3> QED BY <1>1, <2>1, <3>1 DEF Transition
  <2>2. CASE ~Known(k)
    <3>1. events' = Append(events, [e |-> e, key |-> k]) /\ truth' = Apply(truth, e)
      BY <2>2 DEF Transition
    <3> HIDE DEF e, k
    <3>2. [e |-> e, key |-> k] \in [e : Ops, key : Keys]
      BY <1>1, <1>4
    <3> QED BY <1>1, <3>1, <3>2
  <2> QED BY <2>1, <2>2
<1>10. Balanced(v, Endowment) /\ Balanced(truth', Endowment)
  <2>1. CASE FirstStart
    <3>1. /\ e = Opening(e.amount, e.earned) /\ e.amount = Endowment /\ e.earned \in Nat
          /\ job.view = Fresh /\ truth = Fresh /\ events = << >>
      BY <1>1, <2>1 DEF FirstStart, UnitsInv, Opening
    <3>2. Balanced(v, Endowment)
      BY <1>7, <3>1, OpeningBalances
    <3>3. truth' = v
      BY <1>3, <1>9, <3>1 DEF Apply
    <3> QED BY <3>2, <3>3
  <2>2. CASE LaterCall
    <3>1. Balanced(job.view, Endowment) /\ Balanced(truth, Endowment) /\ e \in NatOps
      BY <1>1, <2>2 DEF LaterCall, UnitsInv
    <3>2. Balanced(v, Endowment)
      BY <1>3, <1>7, <3>1, EffectBalances
    <3>3. Balanced(Apply(truth, e), Endowment)
      BY <1>7, <3>1, EffectBalances DEF Apply
    <3> QED BY <1>9, <3>1, <3>2, <3>3
  <2> QED BY <1>2, <2>1, <2>2
<1> HIDE DEF v
<1>11. LaterCall'
  BY <1>6, <1>7, <1>8, <1>9, <1>10 DEF LaterCall
<1>12. file'.version = "v2" => Balanced(file'.view, Endowment')
  BY <1>3, <1>7 DEF UnitsInv
<1> QED BY <1>3, <1>6, <1>7, <1>9, <1>10, <1>11, <1>12 DEF UnitsInv

\* Every step keeps the units of the log, of the snapshot and of the call.
LEMMA UnitsStep ==
  ASSUME UnitsInv, [Next]_vars
  PROVE  UnitsInv'
<1>0. /\ job \in Jobs /\ events \in Seq([e : Ops, key : Keys])
      /\ origin' = origin /\ Endowment \in Nat /\ Endowment' = Endowment
  <2>1. origin' = origin
    BY DEF Next, vars, Begin, Transition, AnswerAgain, Refuse, Save, WriteFails, Rebuild, Crash,
           LoseFile, StartTrusting, StartReplaying, StartFirst
  <2> QED BY <2>1, EndowmentType DEF UnitsInv, Endowment
<1>1. ASSUME NEW op \in NatOps, Begin(op) PROVE UnitsInv'
  <2>1. /\ up /\ file.version = "v2" /\ job' = [todo |-> <<op>>, view |-> file.view, op |-> op]
        /\ UNCHANGED <<file, events, truth, up, origin>>
    BY <1>1 DEF Begin, Serving, UnitsInv
  <2>2. Balanced(file.view, Endowment) /\ events # << >> /\ file.view \in AnyView /\ op \in Ops
    BY <2>1, ViewsAreViews DEF UnitsInv, Balanced
  <2>3. /\ job' \in Jobs /\ job'.todo = <<op>> /\ job'.view = file.view
        /\ \A i \in DOMAIN job'.todo : job'.todo[i] = op
    <3>1. <<op>> \in Seq(Ops) /\ \A i \in DOMAIN <<op>> : <<op>>[i] = op
      BY <2>2
    <3>2. PICK s \in Seq(Ops) : s = <<op>>
      BY <3>1
    <3>3. [todo |-> s, view |-> file.view, op |-> op] \in Jobs
      BY <2>2 DEF Jobs
    <3> QED BY <2>1, <3>1, <3>2, <3>3
  <2>4. LaterCall'
    BY <1>0, <2>1, <2>2, <2>3 DEF LaterCall
  <2> QED BY <1>0, <2>1, <2>3, <2>4 DEF UnitsInv
<1>2. CASE Transition
  BY <1>2, UnitsTransition
<1>3. CASE AnswerAgain
  <2>1. /\ job.todo \in Seq(Ops) /\ job.todo # << >> /\ Repeated(job.view, Head(job.todo))
        /\ job' = [job EXCEPT !.todo = Tail(job.todo)]
        /\ UNCHANGED <<file, events, truth, up, origin>>
    BY <1>0, <1>3 DEF AnswerAgain, Jobs
  <2>2. ~Idle /\ (FirstStart \/ LaterCall)
    BY <2>1 DEF UnitsInv, Idle, Nothing
  <2>3. Head(job.todo) = job.todo[1] /\ Tail(job.todo) \in Seq(Ops)
    BY <2>1
  <2>4. LaterCall
    BY <2>1, <2>2, <2>3 DEF FirstStart, Repeated
  <2>5. job' \in Jobs /\ job'.todo = Tail(job.todo) /\ job'.view = job.view
    BY <1>0, <2>1, <2>3 DEF Jobs
  <2>6. ASSUME NEW i \in DOMAIN job'.todo PROVE job'.todo[i] \in NatOps
    <3>1. i + 1 \in DOMAIN job.todo /\ job'.todo[i] = job.todo[i + 1]
      BY <2>1, <2>5
    <3> QED BY <2>4, <3>1 DEF LaterCall
  <2>7. LaterCall'
    BY <1>0, <2>1, <2>4, <2>5, <2>6 DEF LaterCall
  <2> QED BY <1>0, <2>1, <2>5, <2>7 DEF UnitsInv
<1>4. CASE Refuse \/ WriteFails
  <2>1. job' = Nothing /\ UNCHANGED <<file, events, truth, up, origin>>
    BY <1>4 DEF Refuse, WriteFails
  <2> QED BY <1>0, <2>1, FreshType DEF UnitsInv, Idle
<1>5. CASE Save
  <2>1. /\ ~Idle /\ job.todo = << >> /\ job' = Nothing
        /\ file' = [version |-> "v2", view |-> job.view, folded |-> folded]
        /\ UNCHANGED <<events, truth>>
    BY <1>5 DEF Save
  <2>2. LaterCall
    BY <2>1 DEF UnitsInv, FirstStart
  <2>3. file'.version = "v2" /\ file'.view = job.view
    BY <2>1
  <2>4. Balanced(file'.view, Endowment') /\ events' # << >>
    BY <1>0, <2>1, <2>2, <2>3 DEF LaterCall
  <2>5. Idle'
    BY <2>1 DEF Idle
  <2>6. job' \in Jobs
    BY <2>1, FreshType
  <2> QED BY <1>0, <2>1, <2>3, <2>4, <2>5, <2>6 DEF UnitsInv
<1>6. CASE Rebuild \/ StartReplaying
  <2>1. /\ job' = [todo |-> << >>, view |-> truth, op |-> Opening(0, 0)]
        /\ UNCHANGED <<file, events, truth, up, origin>> /\ events # << >>
    BY <1>6 DEF Rebuild, StartReplaying, Serving, UnitsInv
  <2>2. Balanced(truth, Endowment) /\ truth \in AnyView
    BY <2>1, ViewsAreViews DEF UnitsInv, Balanced
  <2>3. Opening(0, 0) \in Ops
    BY DEF Opening, Ops
  <2>4. job' \in Jobs /\ job'.todo = << >> /\ job'.view = truth
    <3>0. << >> \in Seq(Ops)
      OBVIOUS
    <3>1. PICK s \in Seq(Ops) : s = << >>
      BY <3>0
    <3>2. PICK o \in Ops : o = Opening(0, 0)
      BY <2>3
    <3>3. [todo |-> s, view |-> truth, op |-> o] \in Jobs
      BY <2>2 DEF Jobs
    <3> QED BY <2>1, <3>1, <3>2, <3>3
  <2>5. LaterCall'
    BY <1>0, <2>1, <2>2, <2>4 DEF LaterCall
  <2> QED BY <1>0, <2>1, <2>4, <2>5 DEF UnitsInv
<1>7. CASE Crash
  <2>1. up' = FALSE /\ job' = Nothing /\ UNCHANGED <<file, events, truth>>
    BY <1>7 DEF Crash
  <2> QED BY <1>0, <2>1, FreshType DEF UnitsInv, Idle
<1>8. CASE LoseFile
  <2>1. /\ ~up /\ Idle /\ file.version = "v2" /\ file' = NoFile
        /\ UNCHANGED <<events, truth, up, job>>
    BY <1>8 DEF LoseFile
  <2>2. file'.version = "none"
    BY <2>1 DEF NoFile
  <2> QED BY <1>0, <2>1, <2>2 DEF UnitsInv, Idle
<1>9. CASE StartTrusting
  <2>1. up' = TRUE /\ Idle /\ file.version = "v2" /\ UNCHANGED <<file, events, truth, job>>
    BY <1>9 DEF StartTrusting
  <2> QED BY <1>0, <2>1 DEF UnitsInv, Idle
<1>10. CASE StartFirst
  <2>1. /\ ~up /\ file.version # "v2" /\ events = << >> /\ UNCHANGED <<file, events, truth, up>>
        /\ file = origin /\ truth = Fresh
    BY <1>10 DEF StartFirst, UnitsInv
  <2>2. PICK s \in Seq(Ops) :
          /\ job' = [todo |-> s, view |-> Fresh, op |-> Opening(0, 0)]
          /\ s # << >>
          /\ s[1] \in [kind : {"opening"}, task : {NoTask}, amount : {Endowment}, earned : Nat]
          /\ \A i \in DOMAIN s : i # 1 => s[i] \in NatOps
    <3>1. CASE file.version = "v1"
      <4> DEFINE M == Migration(file.view)
      <4>1. file.view \in Views /\ Endowment = file.view.available + file.view.held
            /\ file.view.earned \in Nat /\ origin \in Legacy
        <5>1. origin \in Legacy
          BY <2>1, <3>1 DEF UnitsInv, NoFile
        <5>2. file.view \in Views
          BY <2>1, <5>1, BalanceAssumption
        <5> QED BY <2>1, <3>1, <5>1, <5>2 DEF Endowment, Views
      <4>2. job' = [todo |-> M, view |-> Fresh, op |-> Opening(0, 0)]
        BY <1>10, <3>1 DEF StartFirst
      <4>3. M \in Seq(Ops) /\ M # << >> /\ M[1] = Opening(Endowment, file.view.earned)
        BY <4>1, MigrationType
      <4>4. ASSUME NEW i \in DOMAIN M, i # 1 PROVE M[i] \in NatOps
        <5>1. PICK t \in Tasks : M[i] = Op("hold", t, file.view.holds[t].amount)
          BY <4>1, <4>4, MigrationType
        <5>2. file.view.holds[t].amount \in Nat
          BY <4>1 DEF Views
        <5> QED BY <5>1, <5>2 DEF Op, NatOps
      <4>5. M[1] \in [kind : {"opening"}, task : {NoTask}, amount : {Endowment}, earned : Nat]
        BY <4>1, <4>3 DEF Opening
      <4> HIDE DEF M
      <4> QED BY <4>2, <4>3, <4>4, <4>5
    <3>2. CASE file.version # "v1"
      <4>1. Endowment = OpeningGrant /\ OpeningGrant \in Nat
        BY <2>1, <3>2, BalanceAssumption DEF Endowment
      <4>2. Opening(OpeningGrant, 0) \in Ops
            /\ Opening(OpeningGrant, 0) \in
                 [kind : {"opening"}, task : {NoTask}, amount : {Endowment}, earned : Nat]
        BY <4>1 DEF Opening, Ops
      <4>3. job' = [todo |-> <<Opening(OpeningGrant, 0)>>, view |-> Fresh, op |-> Opening(0, 0)]
        BY <1>10, <3>2 DEF StartFirst
      <4>4. /\ <<Opening(OpeningGrant, 0)>> \in Seq(Ops) /\ <<Opening(OpeningGrant, 0)>> # << >>
            /\ <<Opening(OpeningGrant, 0)>>[1] = Opening(OpeningGrant, 0)
            /\ \A i \in DOMAIN <<Opening(OpeningGrant, 0)>> : i = 1
        BY <4>2
      <4> QED BY <4>2, <4>3, <4>4
    <3> QED BY <3>1, <3>2
  <2>3. Opening(0, 0) \in Ops
    BY DEF Opening, Ops
  <2>4. PICK o \in Ops : o = Opening(0, 0)
    BY <2>3
  <2>5. [todo |-> s, view |-> Fresh, op |-> o] \in Jobs
    BY FreshType DEF Jobs
  <2>6. job' \in Jobs /\ job'.todo = s /\ job'.view = Fresh
    BY <2>2, <2>4, <2>5
  <2>7. FirstStart'
    BY <1>0, <2>1, <2>2, <2>6 DEF FirstStart
  <2> QED BY <1>0, <2>1, <2>6, <2>7 DEF UnitsInv
<1>11. CASE UNCHANGED vars
  BY <1>0, <1>11 DEF vars, UnitsInv, Idle, FirstStart, LaterCall
<1>12. ASSUME NEW t \in Tasks, NEW a \in Amounts, NEW kind \in {"hold", "settle", "earning"}
       PROVE  Op(kind, t, a) \in NatOps
  BY BalanceAssumption DEF Op, NatOps
<1>13. ASSUME NEW t \in Tasks PROVE Op("release", t, 0) \in NatOps
  BY DEF Op, NatOps
<1> QED BY <1>1, <1>2, <1>3, <1>4, <1>5, <1>6, <1>7, <1>8, <1>9, <1>10, <1>11, <1>12, <1>13
        DEF Next
----------------------------------------------------------------------------
\* No transition forgets a hold that was made.
LEMMA HoldsStayKnown ==
  ASSUME NEW v \in AnyView, NEW e \in Ops, Valid(v, e), Carried(v)
  PROVE  Carried(Effect(v, e))
<1>1. IsOp(e) /\ OriginHeld \subseteq Tasks
  BY OpsAreOps DEF OriginHeld
<1>2. \A t \in Tasks : Effect(v, e).holds[t].n >= v.holds[t].n /\ v.holds[t].n \in Nat
                     /\ Effect(v, e).holds[t].n \in Nat
  BY <1>1, EffectOnHold
<1> QED BY <1>1, <1>2 DEF Carried

\* A hold of the migration is covered by what the version 1 file had.
LEMMA MigrationCovered ==
  ASSUME UnitsInv, origin.version = "v1", LaterCall, Migrating, job.todo # << >>
  PROVE  /\ job.todo[1] \in NatOps /\ job.todo[1].kind = "hold"
         /\ Valid(job.view, job.todo[1])
<1> DEFINE e == job.todo[1]
           v == job.view
           o == origin.view
<1>1. job.todo \in Seq(Ops) /\ 1 \in DOMAIN job.todo
  <2>1. job.todo \in Seq(Ops)
    BY DEF UnitsInv, Jobs
  <2> QED BY <2>1
<1>2. e \in NatOps /\ e.kind = "hold" /\ e.amount \in Nat
  BY <1>1 DEF LaterCall, Migrating, NatOps
<1>3. /\ e.task \in Tasks /\ o.holds[e.task].state = "held" /\ e.amount = o.holds[e.task].amount
      /\ v.holds[e.task] = NoHold
  BY <1>1, <1>2 DEF Migrating, OriginHeld
<1>4. origin \in Legacy /\ o \in Views /\ o.held = Total(OnHold(o), Tasks)
      /\ Endowment = o.available + o.held /\ o.available \in Nat
  <2>1. origin \in Legacy
    BY DEF UnitsInv, NoFile
  <2> QED BY <2>1, BalanceAssumption DEF Endowment, Views
<1>5. Balanced(v, Endowment) /\ v \in Views /\ v.available \in Nat /\ v.held \in Nat
  BY DEF LaterCall, Balanced, Views
<1> HIDE DEF v, o, e
<1>6. Total(Charged(v), Tasks) = 0
  <2>1. \A t \in Tasks : Charged(v)[t] = 0
    BY DEF Migrating, Charged, v
  <2> QED BY <2>1, TotalZero
<1>7. Total(OnHold(v), Tasks) + e.amount <= Total(OnHold(o), Tasks)
  <2>1. Amounting(OnHold(v), Tasks) /\ Amounting(OnHold(o), Tasks)
    BY <1>4, <1>5, ViewAmounts
  <2>2. \A t \in Tasks : OnHold(v)[t] = Held(v.holds[t]) /\ OnHold(o)[t] = Held(o.holds[t])
    BY <1>4, <1>5, ViewAmounts
  <2>3. \A t \in Tasks : Held(v.holds[t]) <= Held(o.holds[t])
    BY DEF Migrating, v, o
  <2>4. Held(v.holds[e.task]) = 0 /\ Held(o.holds[e.task]) = e.amount
    BY <1>3 DEF Held, NoHold
  <2>5. \A t \in Tasks : OnHold(v)[t] <= OnHold(o)[t]
    BY <2>2, <2>3
  <2>6. OnHold(v)[e.task] = 0 /\ OnHold(o)[e.task] = e.amount
    BY <1>3, <2>2, <2>4
  <2>7. Total(OnHold(v), Tasks) + OnHold(o)[e.task] <= Total(OnHold(o), Tasks)
    BY <1>3, <2>1, <2>5, <2>6, TotalRoom
  <2> QED BY <2>6, <2>7
<1>8. e.amount <= v.available
  <2>1. PICK a \in Nat, b \in Nat : a = v.held /\ b = o.held
    BY <1>4, <1>5 DEF Views
  <2>2. a + e.amount <= b /\ v.available + a + 0 = o.available + b
    BY <1>4, <1>5, <1>6, <1>7, <2>1 DEF Balanced
  <2> QED BY <1>2, <1>4, <1>5, <2>2
<1>9. Valid(v, e)
  BY <1>2, <1>3, <1>8 DEF Valid, MayHold, NoHold
<1> QED BY <1>2, <1>9 DEF v, e

\* One transition of the migration: the opening, or the hold of one more task.
LEMMA MigrationAdvances ==
  ASSUME UnitsInv, BalanceInv, origin.version = "v1", Transition, Migrating
  PROVE  Migrating'
<1> DEFINE e == Head(job.todo)
           v == job.view
           w == Effect(v, e)
<1>1. /\ job \in Jobs /\ job.todo \in Seq(Ops) /\ job.todo # << >> /\ v \in AnyView
      /\ e \in Ops /\ e = job.todo[1] /\ 1 \in DOMAIN job.todo
  <2>1. job \in Jobs /\ job.todo \in Seq(Ops) /\ job.todo # << >> /\ job.view \in AnyView
    BY DEF UnitsInv, Jobs, Transition
  <2> QED BY <2>1
<1>2. ~Idle /\ (FirstStart \/ LaterCall)
  BY <1>1 DEF UnitsInv, Idle, Nothing
<1>3. Valid(v, e) /\ origin' = origin /\ IsOp(e)
  BY <1>1, OpsAreOps DEF Transition
<1>4. job'.todo = Tail(job.todo) /\ job'.view = w /\ OriginHeld' = OriginHeld
  <2>1. job' = [job EXCEPT !.todo = Tail(job.todo), !.view = w]
    BY DEF Transition
  <2> HIDE DEF w
  <2> QED BY <1>1, <1>3, <2>1 DEF Jobs, OriginHeld
<1>5. ASSUME NEW i \in DOMAIN job'.todo
      PROVE  i + 1 \in DOMAIN job.todo /\ i + 1 # 1 /\ job'.todo[i] = job.todo[i + 1] /\ i \in Nat
  BY <1>1, <1>4
<1>6. ASSUME NEW i \in DOMAIN job.todo, i # 1
      PROVE  i - 1 \in DOMAIN job'.todo /\ job'.todo[i - 1] = job.todo[i]
  BY <1>1, <1>4, <1>6
<1>7. \A t \in Tasks : v.holds[t] \in Holds /\ v.holds[t].n \in Nat
  BY <1>1 DEF AnyView, Holds
<1>8. \/ /\ e.kind = "opening" /\ \A t \in Tasks : w.holds[t] = v.holds[t]
      \/ /\ e.kind = "hold" /\ e.task \in OriginHeld /\ e.task \in Tasks
         /\ e.amount = origin.view.holds[e.task].amount
         /\ w.holds[e.task] = [state |-> "held", amount |-> e.amount, charged |-> 0,
                               n |-> v.holds[e.task].n + 1]
         /\ \A t \in Tasks : t # e.task => w.holds[t] = v.holds[t]
  <2>1. CASE e.kind = "opening"
    BY <1>1, <1>3, <2>1, EffectType
  <2>2. CASE e.kind = "hold"
    <3>1. e.task \in OriginHeld /\ e.task \in Tasks
          /\ e.amount = origin.view.holds[e.task].amount
      BY <1>1, <2>2 DEF Migrating, OriginHeld
    <3>2. v.holds \in [Tasks -> Holds]
      BY <1>1 DEF AnyView
    <3>3. w.holds = [v.holds EXCEPT ![e.task] = [state |-> "held", amount |-> e.amount,
                                                charged |-> 0, n |-> v.holds[e.task].n + 1]]
      <4>1. PICK h : h = [state |-> "held", amount |-> e.amount, charged |-> 0,
                          n |-> v.holds[e.task].n + 1]
        OBVIOUS
      <4>2. w = [v EXCEPT !.available = @ + (-e.amount), !.held = @ + e.amount,
                          !.holds = [@ EXCEPT ![e.task] = h]]
        BY <2>2, <4>1 DEF Effect, Book
      <4> QED BY <1>1, <4>1, <4>2 DEF AnyView
    <3> QED BY <2>2, <3>1, <3>2, <3>3
  <2> QED BY <1>1, <2>1, <2>2 DEF Migrating
<1> HIDE DEF w, v, e
<1>9. \A i \in DOMAIN job'.todo : job'.todo[i].kind \in {"opening", "hold"}
  BY <1>5 DEF Migrating
<1>10. ASSUME NEW i \in DOMAIN job'.todo, NEW j \in DOMAIN job'.todo,
              job'.todo[i].kind = "hold", job'.todo[j].kind = "hold",
              job'.todo[i].task = job'.todo[j].task
       PROVE  i = j
  <2>1. i + 1 = j + 1
    BY <1>5, <1>10 DEF Migrating
  <2> QED BY <1>5, <2>1
<1>11. ASSUME NEW i \in DOMAIN job'.todo, job'.todo[i].kind = "hold"
       PROVE  /\ job'.todo[i].task \in OriginHeld
              /\ job'.todo[i].amount = origin.view.holds[job'.todo[i].task].amount
              /\ w.holds[job'.todo[i].task] = NoHold
  <2>1. /\ job'.todo[i].task \in OriginHeld /\ job'.todo[i].task \in Tasks
        /\ job'.todo[i].amount = origin.view.holds[job'.todo[i].task].amount
        /\ v.holds[job'.todo[i].task] = NoHold
    BY <1>5, <1>11 DEF Migrating, OriginHeld, v
  <2>2. e.kind = "hold" => job'.todo[i].task # e.task
    BY <1>1, <1>5, <1>11 DEF Migrating
  <2> QED BY <1>8, <2>1, <2>2
<1>12. ASSUME NEW t \in OriginHeld
       PROVE  \/ \E i \in DOMAIN job'.todo : job'.todo[i].kind = "hold" /\ job'.todo[i].task = t
              \/ w.holds[t].n > 0
  <2>1. t \in Tasks
    BY DEF OriginHeld
  <2>2. CASE v.holds[t].n > 0
    BY <1>7, <1>8, <2>1, <2>2
  <2>3. ASSUME NEW i \in DOMAIN job.todo, job.todo[i].kind = "hold", job.todo[i].task = t
        PROVE  \/ \E j \in DOMAIN job'.todo : job'.todo[j].kind = "hold" /\ job'.todo[j].task = t
               \/ w.holds[t].n > 0
    <3>1. CASE i = 1
      BY <1>1, <1>7, <1>8, <2>3, <3>1
    <3>2. CASE i # 1
      BY <1>6, <2>3, <3>2
    <3> QED BY <3>1, <3>2
  <2> QED BY <2>2, <2>3 DEF Migrating, v
<1>13. ASSUME NEW t \in Tasks
       PROVE  Held(w.holds[t]) <= Held(origin.view.holds[t]) /\ w.holds[t].charged = 0
  <2>1. Held(v.holds[t]) <= Held(origin.view.holds[t]) /\ v.holds[t].charged = 0
    BY DEF Migrating, v
  <2>2. CASE w.holds[t] = v.holds[t]
    BY <2>1, <2>2
  <2>3. CASE w.holds[t] # v.holds[t]
    <3>1. /\ t = e.task /\ t \in OriginHeld /\ e.amount = origin.view.holds[t].amount
          /\ w.holds[t] = [state |-> "held", amount |-> e.amount, charged |-> 0,
                           n |-> v.holds[t].n + 1]
      BY <1>8, <2>3
    <3>2. Held(w.holds[t]) = e.amount /\ Held(origin.view.holds[t]) = e.amount
          /\ w.holds[t].charged = 0
      BY <3>1 DEF Held, OriginHeld
    <3>3. e.amount \in Int
      BY <1>3 DEF IsOp
    <3> QED BY <3>2, <3>3
  <2> QED BY <2>2, <2>3
<1> QED BY <1>3, <1>4, <1>9, <1>10, <1>11, <1>12, <1>13 DEF Migrating

\* The first start with a version 1 file sets out to hold everything it had on hold.
LEMMA MigrationStarts ==
  ASSUME UnitsInv, origin.version = "v1", StartFirst
  PROVE  file.version = "v1" /\ Migrating'
<1> DEFINE o == origin.view
           M == Migration(o)
<1>1. file = origin /\ origin' = origin /\ origin \in Legacy /\ o \in Views
  <2>1. file = origin /\ origin' = origin /\ origin \in Legacy
    BY DEF UnitsInv, StartFirst, NoFile
  <2> QED BY <2>1, BalanceAssumption
<1>2. job' = [todo |-> M, view |-> Fresh, op |-> Opening(0, 0)]
  BY <1>1 DEF StartFirst
<1>3. job'.todo = M /\ job'.view = Fresh /\ OriginHeld' = OriginHeld
  BY <1>1, <1>2 DEF OriginHeld
<1>4. \A t \in Tasks : Fresh.holds[t] = NoHold
  BY DEF Fresh
<1>5. /\ M[1] = Opening(o.available + o.held, o.earned)
      /\ \A i \in DOMAIN M : i # 1 =>
           M[i].kind = "hold" /\ \E t \in OriginHeld : M[i] = Op("hold", t, o.holds[t].amount)
      /\ \A i, j \in DOMAIN M : i # 1 /\ j # 1 /\ M[i].task = M[j].task => i = j
      /\ \A t \in OriginHeld : \E i \in DOMAIN M : i # 1 /\ M[i] = Op("hold", t, o.holds[t].amount)
  BY <1>1, MigrationType DEF OriginHeld
<1>6. M[1].kind = "opening" /\ \A i \in DOMAIN M : M[i].kind = "hold" => i # 1
  BY <1>5 DEF Opening
<1> HIDE DEF M, o
<1>7. \A t, a : Op("hold", t, a).kind = "hold" /\ Op("hold", t, a).task = t
               /\ Op("hold", t, a).amount = a
  BY DEF Op
<1>8. \A i \in DOMAIN M : M[i].kind \in {"opening", "hold"}
  BY <1>5, <1>6
<1>9. ASSUME NEW i \in DOMAIN M, M[i].kind = "hold"
      PROVE  M[i].task \in OriginHeld /\ M[i].amount = o.holds[M[i].task].amount
  BY <1>5, <1>6, <1>7, <1>9
<1>10. \A t \in OriginHeld : \E i \in DOMAIN M : M[i].kind = "hold" /\ M[i].task = t
  BY <1>5, <1>7
<1>11. ASSUME NEW t \in Tasks
       PROVE  Held(NoHold) <= Held(o.holds[t]) /\ NoHold.charged = 0
  <2>1. Held(o.holds[t]) \in Nat /\ Held(NoHold) = 0
    BY <1>1, ViewAmounts DEF Held, NoHold, o
  <2> QED BY <2>1 DEF NoHold
<1>12. \A t \in OriginHeld : t \in Tasks
  BY DEF OriginHeld
<1>13. \A i, j \in DOMAIN M : M[i].kind = "hold" /\ M[j].kind = "hold" /\ M[i].task = M[j].task
         => i = j
  BY <1>5, <1>6
<1> QED BY <1>1, <1>3, <1>4, <1>8, <1>9, <1>10, <1>11, <1>12, <1>13 DEF Migrating, o

\* Every step keeps the version 1 holds on their way into the ledger.
LEMMA MigrationStep ==
  ASSUME UnitsInv, NoFailure => BalanceInv, MigrationInv, [Next]_vars
  PROVE  MigrationInv'
<1>0. origin' = origin /\ mishaps \subseteq mishaps' /\ OriginHeld' = OriginHeld
  <2>1. origin' = origin
    BY DEF Next, vars, Begin, Transition, AnswerAgain, Refuse, Save, WriteFails, Rebuild, Crash,
           LoseFile, StartTrusting, StartReplaying, StartFirst
  <2> QED BY <2>1, MishapsGrow DEF OriginHeld
<1> SUFFICES ASSUME origin.version = "v1", "start" \notin mishaps'
             PROVE  MigrationInv'
  BY <1>0 DEF MigrationInv
<1>1. /\ file.version = "v1" =>
           NoFailure /\ BalanceInv /\ (Idle => events = << >>) /\ (~Idle => Migrating)
      /\ file.version # "v1" =>
           /\ Carried(truth)
           /\ file.version = "v2" => Carried(file.view)
           /\ ~Idle => Carried(job.view)
  BY <1>0 DEF MigrationInv
<1>3. job \in Jobs /\ (up => file.version = "v2")
  BY DEF UnitsInv
<1>4. ASSUME NEW op, Begin(op) PROVE MigrationInv'
  <2>1. /\ file.version = "v2" /\ job' = [todo |-> <<op>>, view |-> file.view, op |-> op]
        /\ UNCHANGED <<file, truth>>
    BY <1>3, <1>4 DEF Begin, Serving
  <2>2. job'.view = file.view
    BY <2>1
  <2> QED BY <1>0, <1>1, <2>1, <2>2 DEF MigrationInv, Carried
<1>5. CASE Transition
  <2> DEFINE e == Head(job.todo)
  <2>1. /\ job.todo # << >> /\ Valid(job.view, e) /\ UNCHANGED <<file, mishaps>>
        /\ job' = [job EXCEPT !.todo = Tail(job.todo), !.view = Effect(job.view, e)]
        /\ truth' = truth \/ truth' = Apply(truth, e)
    BY <1>5 DEF Transition
  <2>2. /\ ~Idle /\ e \in Ops /\ job.view \in AnyView /\ job'.view = Effect(job.view, e)
        /\ job'.op = job.op
    <3>1. job.todo \in Seq(Ops)
      BY <1>3 DEF Jobs
    <3> QED BY <1>3, <2>1, <3>1 DEF Idle, Nothing, Jobs
  <2>3. CASE file.version = "v1"
    <3>1. Migrating' /\ NoFailure'
      BY <1>1, <1>5, <2>1, <2>2, <2>3, MigrationAdvances DEF NoFailure
    <3>2. ~Idle'
      BY <1>1, <2>2, <2>3 DEF BalanceInv, JobCurrent, Idle, Nothing, Op
    <3> QED BY <2>1, <2>3, <3>1, <3>2 DEF MigrationInv
  <2>4. CASE file.version # "v1"
    <3>1. Carried(Effect(job.view, e))
      BY <1>1, <2>1, <2>2, <2>4, HoldsStayKnown
    <3>2. truth \in AnyView
      BY FreshType, ViewsAreViews DEF UnitsInv, Balanced
    <3>3. Carried(Apply(truth, e))
      BY <1>1, <2>2, <2>4, <3>2, HoldsStayKnown DEF Apply
    <3>4. \A t \in OriginHeld : truth'.holds[t].n > 0 /\ job'.view.holds[t].n > 0
      BY <1>1, <2>1, <2>2, <2>4, <3>1, <3>3 DEF Carried
    <3> QED BY <1>0, <1>1, <2>1, <2>4, <3>4 DEF MigrationInv, Carried
  <2> QED BY <2>3, <2>4
<1>6. CASE AnswerAgain \/ Refuse
  <2>1. /\ job.todo # << >>
        /\ ~Valid(job.view, Head(job.todo)) \/ Repeated(job.view, Head(job.todo))
        /\ UNCHANGED <<file, truth, mishaps>>
        /\ job' = Nothing \/ job' = [job EXCEPT !.todo = Tail(job.todo)]
    BY <1>6 DEF AnswerAgain, Refuse
  <2>2. ~Idle /\ job.todo \in Seq(Ops) /\ Head(job.todo) = job.todo[1] /\ 1 \in DOMAIN job.todo
    <3>1. job.todo \in Seq(Ops)
      BY <1>3 DEF Jobs
    <3> QED BY <2>1, <3>1 DEF Idle, Nothing
  <2>3. file.version # "v1"
    <3> SUFFICES ASSUME file.version = "v1" PROVE FALSE
      OBVIOUS
    <3>1. Migrating /\ (FirstStart \/ LaterCall)
      BY <1>1, <2>2 DEF UnitsInv
    <3>2. CASE FirstStart
      BY <2>1, <2>2, <3>2 DEF FirstStart, Valid, Repeated
    <3>3. CASE LaterCall
      <4>1. job.todo[1].kind = "hold" /\ Valid(job.view, job.todo[1])
        BY <2>1, <3>1, <3>3, MigrationCovered
      <4>2. job.view.holds[job.todo[1].task] = NoHold
        BY <2>2, <3>1, <4>1 DEF Migrating
      <4> QED BY <2>1, <2>2, <4>1, <4>2 DEF Repeated, NoHold
    <3> QED BY <3>1, <3>2, <3>3
  <2>4. ~Idle' => job'.view = job.view
    BY <1>3, <2>1 DEF Idle, Jobs
  <2> QED BY <1>0, <1>1, <2>1, <2>2, <2>3, <2>4 DEF MigrationInv, Carried
<1>7. CASE Save
  <2>1. /\ ~Idle /\ job.todo = << >> /\ job' = Nothing /\ UNCHANGED truth
        /\ file' = [version |-> "v2", view |-> job.view, folded |-> folded]
    BY <1>7 DEF Save
  <2>2. file'.version = "v2" /\ file'.view = job.view /\ Idle'
    BY <2>1 DEF Idle
  <2>3. Carried(job.view) /\ Carried(truth)
    <3>1. CASE file.version = "v1"
      <4>1. job.view = truth
        BY <1>1, <2>1, <3>1 DEF BalanceInv, JobCurrent
      <4>2. Carried(job.view)
        BY <1>1, <2>1, <3>1 DEF Migrating, Carried
      <4> QED BY <4>1, <4>2
    <3>2. CASE file.version # "v1"
      BY <1>1, <2>1, <3>2
    <3> QED BY <3>1, <3>2
  <2> QED BY <1>0, <2>1, <2>2, <2>3 DEF MigrationInv, Carried
<1>8. CASE WriteFails \/ Crash
  <2>1. up /\ job' = Nothing /\ UNCHANGED <<file, truth>>
    BY <1>8 DEF WriteFails, Crash
  <2> QED BY <1>0, <1>1, <1>3, <2>1 DEF MigrationInv, Carried, Idle
<1>9. CASE Rebuild \/ StartReplaying
  <2>1. /\ job' = [todo |-> << >>, view |-> truth, op |-> Opening(0, 0)]
        /\ UNCHANGED <<file, truth>> /\ file.version # "v1"
    BY <1>1, <1>3, <1>9 DEF Rebuild, StartReplaying, Serving
  <2>2. job'.view = truth
    BY <2>1
  <2> QED BY <1>0, <1>1, <2>1, <2>2 DEF MigrationInv, Carried
<1>10. CASE LoseFile
  <2>1. file.version = "v2" /\ file' = NoFile /\ UNCHANGED <<truth, job>> /\ Idle
    BY <1>10 DEF LoseFile
  <2>2. file'.version = "none" /\ Idle'
    BY <2>1 DEF NoFile, Idle
  <2> QED BY <1>0, <1>1, <2>1, <2>2 DEF MigrationInv, Carried
<1>11. CASE StartTrusting
  <2>1. file.version = "v2" /\ UNCHANGED <<file, truth, job>> /\ Idle
    BY <1>11 DEF StartTrusting
  <2> QED BY <1>0, <1>1, <2>1 DEF MigrationInv, Carried, Idle
<1>12. CASE StartFirst
  <2>1. file.version = "v1" /\ Migrating'
    BY <1>12, MigrationStarts
  <2>2. /\ UNCHANGED <<file, mishaps, events>> /\ events = << >>
    BY <1>12 DEF StartFirst
  <2> QED BY <1>1, <2>1, <2>2 DEF MigrationInv, NoFailure
<1>13. CASE UNCHANGED vars
  BY <1>13 DEF vars, MigrationInv, NoFailure, Idle, Migrating, Carried, OriginHeld
<1> QED BY <1>4, <1>5, <1>6, <1>7, <1>8, <1>9, <1>10, <1>11, <1>12, <1>13 DEF Next

\* No unit of the balance is made or lost, by calls that are repeated or refused, by
\* failed writes, crashes, lost files or rebuilds; and unless the migrating start
\* was cut short, no hold of the version 1 file is forgotten.
THEOREM UnitsStay == Spec => []UnitsAreKept
<1> DEFINE Inv == UnitsInv /\ (NoFailure => BalanceInv) /\ MigrationInv
<1>1. Init => Inv
  <2>1. Init => MigrationInv
    BY BalanceAssumption DEF Init, MigrationInv, NoFailure, Idle
  <2> QED BY <2>1, UnitsInit, BalanceInit
<1>2. Inv /\ [Next]_vars => Inv'
  <2>1. (NoFailure => BalanceInv) /\ [Next]_vars => (NoFailure => BalanceInv)'
    BY BalanceStep, MishapsGrow DEF NoFailure
  <2> QED BY <2>1, UnitsStep, MigrationStep
<1>3. Inv => UnitsAreKept
  BY DEF UnitsInv, MigrationInv, UnitsAreKept, Conserved, Balanced, MigrationKeepsHolds, Serving,
         Carried, OriginHeld
<1> QED BY <1>1, <1>2, <1>3, PTL DEF Spec
=============================================================================
