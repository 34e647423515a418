-------------------------------- MODULE Sums --------------------------------
(***************************************************************************)
(* Sums of amounts, counted unit by unit: the sum of f over S is the       *)
(* number of units that f gives to the members of S.  Written this way,    *)
(* what a change of one amount does to a sum follows from facts about      *)
(* finite sets, without induction.                                         *)
(***************************************************************************)
EXTENDS Integers, FiniteSets, FiniteSetTheorems, TLAPS

\* The units of the members of S: f[x] of them for x.
Units(f, S) == UNION {{x} \X (1..f[x]) : x \in S}

Total(f, S) == Cardinality(Units(f, S))

\* f gives a natural amount to every member of the finite set S.
Amounting(f, S) == IsFiniteSet(S) /\ \A x \in S : f[x] \in Nat

\* The units of one member are as many as its amount.
LEMMA OneMember ==
  ASSUME NEW x, NEW n \in Nat
  PROVE  IsFiniteSet({x} \X (1..n)) /\ Cardinality({x} \X (1..n)) = n
<1>1. IsFiniteSet(1..n) /\ Cardinality(1..n) = n
  <2>1. 1 \in Int /\ n \in Int
    OBVIOUS
  <2>2. IsFiniteSet(1..n) /\ Cardinality(1..n) = IF 1 > n THEN 0 ELSE n - 1 + 1
    BY <2>1, FS_Interval
  <2> QED BY <2>2
<1>2. IsFiniteSet({x}) /\ Cardinality({x}) = 1
  BY FS_Singleton
<1>3. IsFiniteSet({x} \X (1..n)) /\ Cardinality({x} \X (1..n)) = 1 * n
  BY <1>1, <1>2, FS_Product
<1> QED BY <1>3

\* The units of finitely many natural amounts are finite in number.
LEMMA TotalType ==
  ASSUME NEW f, NEW S, Amounting(f, S)
  PROVE  IsFiniteSet(Units(f, S)) /\ Total(f, S) \in Nat
<1> DEFINE Parts == {{x} \X (1..f[x]) : x \in S}
           part == [x \in S |-> {x} \X (1..f[x])]
<1>1. part \in Surjection(S, Parts)
  BY DEF Surjection
<1>2. IsFiniteSet(Parts)
  BY <1>1, FS_Surjection DEF Amounting
<1>3. ASSUME NEW P \in Parts PROVE IsFiniteSet(P)
  <2>1. PICK x \in S : P = {x} \X (1..f[x])
    OBVIOUS
  <2>2. f[x] \in Nat
    BY DEF Amounting
  <2> QED BY <2>1, <2>2, OneMember
<1>4. IsFiniteSet(UNION Parts)
  BY <1>2, <1>3, FS_UNION
<1> QED BY <1>4, FS_CardinalityType DEF Units, Total

\* Nothing to add up.
LEMMA TotalEmpty == \A f : Total(f, {}) = 0
<1>1. \A f : Units(f, {}) = {}
  BY DEF Units
<1> QED BY <1>1, FS_EmptySet DEF Total

\* Equal amounts have equal sums.
LEMMA TotalSame ==
  ASSUME NEW f, NEW g, NEW S, \A x \in S : f[x] = g[x]
  PROVE  Total(f, S) = Total(g, S)
<1>1. Units(f, S) = Units(g, S)
  BY DEF Units
<1> QED BY <1>1 DEF Total

\* Members that amount to nothing may be left out.
LEMMA TotalSupport ==
  ASSUME NEW f, NEW g, NEW S, NEW T, S \subseteq T,
         \A x \in S : f[x] = g[x], \A x \in T \ S : g[x] = 0
  PROVE  Total(f, S) = Total(g, T)
<1>1. \A x \in T \ S : 1..g[x] = {}
  OBVIOUS
<1>2. Units(f, S) = Units(g, T)
  BY <1>1 DEF Units
<1> QED BY <1>2 DEF Total

\* Amounts of nothing add up to nothing.
LEMMA TotalZero ==
  ASSUME NEW f, NEW S, \A x \in S : f[x] = 0
  PROVE  Total(f, S) = 0
<1>1. \A u : u \notin Units(f, S)
  BY DEF Units
<1>2. Units(f, S) = {}
  BY <1>1
<1> QED BY <1>2, FS_EmptySet DEF Total

\* One more member adds its amount.
LEMMA TotalAdd ==
  ASSUME NEW f, NEW S, NEW x, x \notin S, Amounting(f, S), f[x] \in Nat
  PROVE  Amounting(f, S \cup {x}) /\ Total(f, S \cup {x}) = Total(f, S) + f[x]
<1> DEFINE P == {x} \X (1..f[x])
<1>1. Units(f, S \cup {x}) = Units(f, S) \cup P
  BY DEF Units
<1>2. Units(f, S) \cap P = {}
  BY DEF Units
<1>3. IsFiniteSet(P) /\ Cardinality(P) = f[x]
  BY OneMember
<1>4. IsFiniteSet(Units(f, S)) /\ Cardinality(Units(f, S)) \in Nat
  BY TotalType DEF Total
<1> HIDE DEF P
<1>5. Cardinality(Units(f, S) \cup P) = Cardinality(Units(f, S)) + Cardinality(P) - 0
  BY <1>2, <1>3, <1>4, FS_Union, FS_EmptySet
<1>6. Amounting(f, S \cup {x})
  BY FS_AddElement DEF Amounting
<1>7. ASSUME NEW c \in Nat, NEW d \in Nat PROVE c + d - 0 = c + d
  OBVIOUS
<1>8. Cardinality(Units(f, S)) + Cardinality(P) - 0 = Cardinality(Units(f, S)) + f[x]
  BY <1>3, <1>4, <1>7
<1>9. Cardinality(Units(f, S \cup {x})) = Cardinality(Units(f, S)) + f[x]
  BY <1>1, <1>5, <1>8
<1> QED BY <1>6, <1>9 DEF Total

\* Taking a member out takes its amount out.
LEMMA TotalRemove ==
  ASSUME NEW f, NEW S, NEW x \in S, Amounting(f, S)
  PROVE  /\ Amounting(f, S \ {x}) /\ Total(f, S \ {x}) \in Nat
         /\ Total(f, S) = Total(f, S \ {x}) + f[x]
         /\ f[x] <= Total(f, S)
<1>1. Amounting(f, S \ {x})
  BY FS_RemoveElement DEF Amounting
<1>2. S = (S \ {x}) \cup {x} /\ x \notin S \ {x} /\ f[x] \in Nat
  BY DEF Amounting
<1>3. Total(f, (S \ {x}) \cup {x}) = Total(f, S \ {x}) + f[x]
  BY <1>1, <1>2, TotalAdd
<1>4. Total(f, S \ {x}) \in Nat
  BY <1>1, TotalType
<1>5. Total(f, (S \ {x}) \cup {x}) = Total(f, S)
  BY <1>2
<1>6. Total(f, S) = Total(f, S \ {x}) + f[x]
  BY <1>3, <1>5
<1>7. f[x] <= Total(f, S)
  BY <1>2, <1>4, <1>6
<1> QED BY <1>1, <1>4, <1>6, <1>7

\* A change of one amount changes the sum by the difference.
LEMMA TotalChange ==
  ASSUME NEW f, NEW g, NEW S, NEW x \in S, Amounting(f, S), Amounting(g, S),
         \A y \in S \ {x} : f[y] = g[y]
  PROVE  Total(g, S) = Total(f, S) - f[x] + g[x]
<1>1. /\ Total(f, S \ {x}) \in Nat /\ Total(f, S) = Total(f, S \ {x}) + f[x]
      /\ Total(g, S) = Total(g, S \ {x}) + g[x]
  BY TotalRemove
<1>2. Total(f, S \ {x}) = Total(g, S \ {x})
  BY TotalSame
<1>3. f[x] \in Nat /\ g[x] \in Nat
  BY DEF Amounting
<1> QED BY <1>1, <1>2, <1>3

\* Smaller amounts have a smaller sum.
LEMMA TotalLeq ==
  ASSUME NEW f, NEW g, NEW S, Amounting(f, S), Amounting(g, S), \A x \in S : f[x] <= g[x]
  PROVE  Total(f, S) <= Total(g, S)
<1>1. \A x \in S : 1..f[x] \subseteq 1..g[x]
  BY DEF Amounting
<1>2. Units(f, S) \in SUBSET Units(g, S)
  BY <1>1 DEF Units
<1> QED BY <1>2, TotalType, FS_Subset DEF Total

\* What is missing from one amount is missing from the sum.
LEMMA TotalRoom ==
  ASSUME NEW f, NEW g, NEW S, NEW x \in S, Amounting(f, S), Amounting(g, S),
         \A y \in S : f[y] <= g[y], f[x] = 0
  PROVE  Total(f, S) + g[x] <= Total(g, S)
<1> DEFINE h == [y \in S |-> IF y = x THEN g[x] ELSE f[y]]
<1>1. h[x] = g[x] /\ \A y \in S \ {x} : f[y] = h[y]
  OBVIOUS
<1>2. \A y \in S : h[y] \in Nat /\ h[y] <= g[y]
  BY DEF Amounting
<1> HIDE DEF h
<1>3. Amounting(h, S)
  BY <1>2 DEF Amounting
<1>4. Total(h, S) = Total(f, S) - f[x] + h[x]
  BY <1>1, <1>3, TotalChange
<1>5. Total(h, S) <= Total(g, S)
  BY <1>2, <1>3, TotalLeq
<1>6. Total(f, S) \in Nat /\ g[x] \in Nat
  BY TotalType DEF Amounting
<1>7. Total(h, S) = Total(f, S) + g[x]
  BY <1>1, <1>4, <1>6
<1> QED BY <1>5, <1>7

\* The sum of sums: if h is f and g added up, so are their totals.
LEMMA TotalPlus ==
  ASSUME NEW f, NEW g, NEW h, NEW S, Amounting(f, S), Amounting(g, S),
         \A x \in S : h[x] = f[x] + g[x]
  PROVE  Amounting(h, S) /\ Total(h, S) = Total(f, S) + Total(g, S)
<1> DEFINE F == Units(f, S)
           G == Units(g, S)
           H == Units(h, S)
           shift == [u \in G |-> <<u[1], u[2] + f[u[1]]>>]
<1>1. Amounting(h, S)
  BY DEF Amounting
<1>2. IsFiniteSet(F) /\ IsFiniteSet(G) /\ IsFiniteSet(H)
  BY <1>1, TotalType
<1>3. /\ \A x, i : <<x, i>> \in F <=> x \in S /\ i \in 1..f[x]
      /\ \A x, i : <<x, i>> \in G <=> x \in S /\ i \in 1..g[x]
      /\ \A x, i : <<x, i>> \in H <=> x \in S /\ i \in 1..h[x]
      /\ \A u \in F \cup G \cup H : u = <<u[1], u[2]>>
  BY DEF Units
<1>4. \A x \in S : f[x] \in Nat /\ g[x] \in Nat /\ h[x] = f[x] + g[x]
  BY DEF Amounting
<1> HIDE DEF F, G, H
<1>5. F \in SUBSET H
  <2> SUFFICES ASSUME NEW u \in F PROVE u \in H
    OBVIOUS
  <2>1. u = <<u[1], u[2]>> /\ u[1] \in S /\ u[2] \in 1..f[u[1]]
    BY <1>3
  <2>2. u[2] \in 1..h[u[1]]
    BY <1>4, <2>1
  <2> QED BY <1>3, <2>1, <2>2
<1>6. shift \in Bijection(G, H \ F)
  <2>1. ASSUME NEW u \in G
        PROVE  /\ u[1] \in S /\ u[2] \in Nat /\ f[u[1]] \in Nat /\ shift[u] \in H \ F
               /\ shift[u] = <<u[1], u[2] + f[u[1]]>> /\ u = <<u[1], u[2]>>
    <3>1. u = <<u[1], u[2]>> /\ u[1] \in S /\ u[2] \in 1..g[u[1]]
      BY <1>3
    <3>2. u[2] + f[u[1]] \in 1..h[u[1]] /\ u[2] + f[u[1]] \notin 1..f[u[1]]
      BY <1>4, <3>1
    <3>3. shift[u] = <<u[1], u[2] + f[u[1]]>>
      OBVIOUS
    <3>4. <<u[1], u[2] + f[u[1]]>> \in H /\ <<u[1], u[2] + f[u[1]]>> \notin F
      BY <1>3, <3>1, <3>2
    <3> QED BY <1>4, <3>1, <3>3, <3>4
  <2>2. ASSUME NEW u \in G, NEW w \in G, shift[u] = shift[w] PROVE u = w
    <3>a. <<u[1], u[2] + f[u[1]]>> = <<w[1], w[2] + f[w[1]]>>
      BY <2>1, <2>2
    <3>1. u[1] = w[1] /\ u[2] + f[u[1]] = w[2] + f[w[1]]
      BY ONLY <3>a
    <3>b. PICK i \in Nat, j \in Nat, k \in Nat : i = u[2] /\ j = w[2] /\ k = f[u[1]]
      BY <2>1
    <3>c. i + k = j + k
      BY <3>1, <3>b
    <3>2. u[2] = w[2]
      BY <3>b, <3>c
    <3> QED BY <2>1, <3>1, <3>2
  <2>3. ASSUME NEW w \in H \ F PROVE \E u \in G : shift[u] = w
    <3>1. w = <<w[1], w[2]>> /\ w[1] \in S /\ w[2] \in 1..h[w[1]] /\ w[2] \notin 1..f[w[1]]
      BY <1>3
    <3>2. w[2] - f[w[1]] \in 1..g[w[1]] /\ (w[2] - f[w[1]]) + f[w[1]] = w[2]
      BY <1>4, <3>1
    <3>3. <<w[1], w[2] - f[w[1]]>> \in G
      BY <1>3, <3>1, <3>2
    <3>4. shift[<<w[1], w[2] - f[w[1]]>>] = <<w[1], (w[2] - f[w[1]]) + f[w[1]]>>
      BY <3>3
    <3> QED BY <3>1, <3>2, <3>3, <3>4
  <2>4. shift \in [G -> H \ F]
    BY <2>1
  <2> HIDE DEF shift
  <2> QED BY <2>2, <2>3, <2>4 DEF Bijection, Injection, IsInjective, Surjection
<1>7. Cardinality(H \ F) = Cardinality(G)
  BY <1>2, <1>6, FS_Bijection DEF ExistsBijection
<1>8. Cardinality(H \ F) = Cardinality(H) - Cardinality(H \cap F) /\ H \cap F = F
  BY <1>2, <1>5, FS_Difference
<1>9. Cardinality(F) \in Nat /\ Cardinality(G) \in Nat /\ Cardinality(H) \in Nat
  BY <1>2, FS_CardinalityType
<1>10. Cardinality(H) = Cardinality(F) + Cardinality(G)
  BY <1>7, <1>8, <1>9
<1> QED BY <1>1, <1>10 DEF Total, F, G, H
=============================================================================
