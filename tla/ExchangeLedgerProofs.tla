----------------------- MODULE ExchangeLedgerProofs ------------------------
(***************************************************************************)
(* Theorems about ExchangeLedger, for every roster, every set of commands  *)
(* and every set of fewer than one third faulty validators.                *)
(***************************************************************************)
EXTENDS ExchangeLedger, FiniteSetTheorems, FunctionTheorems, TLAPS

\* The validators of the manifest are as many as its list is long.
LEMMA RosterCardinality ==
  IsFiniteSet(Validators) /\ Cardinality(Validators) = Len(Roster)
<1>1. Roster \in [1..Len(Roster) -> Validators] /\ Len(Roster) \in Nat
  BY RosterAssumption
<1>2. Roster \in Bijection(1..Len(Roster), Validators)
  BY <1>1, RosterAssumption DEF Bijection, Injection, Surjection, IsInjective, Validators
<1>3. ExistsBijection(1..Len(Roster), Validators)
  BY <1>2 DEF ExistsBijection
<1>4. IsFiniteSet(1..Len(Roster)) /\ Cardinality(1..Len(Roster)) = Len(Roster)
  <2>1. Len(Roster) \in Int /\ ~(1 > Len(Roster)) /\ Len(Roster) - 1 + 1 = Len(Roster)
    BY <1>1, RosterAssumption
  <2>2. /\ IsFiniteSet(1..Len(Roster))
        /\ Cardinality(1..Len(Roster))
             = IF 1 > Len(Roster) THEN 0 ELSE Len(Roster) - 1 + 1
    BY <2>1, 1 \in Int, FS_Interval
  <2> QED BY <2>1, <2>2
<1> QED BY <1>3, <1>4, FS_Bijection

\* Two quorums share a validator that follows the rules.
LEMMA QuorumIntersection ==
  ASSUME NEW P \in SUBSET Validators, NEW Q \in SUBSET Validators,
         Cardinality(P) >= Quorum, Cardinality(Q) >= Quorum
  PROVE  \E v \in P \cap Q : v \notin Byzantine
<1> DEFINE N == Len(Roster)
<1>1. N \in Nat /\ N > 0
  BY RosterAssumption
<1>2. IsFiniteSet(P) /\ IsFiniteSet(Q) /\ IsFiniteSet(Byzantine)
  BY RosterCardinality, ByzantineAssumption, FS_Subset
<1>3. /\ Cardinality(P) \in Nat /\ Cardinality(Q) \in Nat /\ Cardinality(Byzantine) \in Nat
      /\ IsFiniteSet(P \cap Q) /\ Cardinality(P \cap Q) \in Nat
  BY <1>2, FS_CardinalityType, FS_Intersection
<1>4. Cardinality(P \cup Q) = Cardinality(P) + Cardinality(Q) - Cardinality(P \cap Q)
  BY <1>2, FS_Union
<1>5. Cardinality(P \cup Q) <= N
  BY RosterCardinality, FS_Subset, P \cup Q \in SUBSET Validators
<1>6. 3 * Quorum >= 2 * N + 1 /\ Quorum \in Nat
  BY <1>1 DEF Quorum
<1>7. 3 * Cardinality(P \cap Q) > N
  <2> HIDE DEF N
  <2> QED BY <1>1, <1>3, <1>4, <1>5, <1>6 DEF Quorum
<1>8. Cardinality(P \cap Q) > Cardinality(Byzantine)
  BY <1>1, <1>3, <1>7, ByzantineAssumption
<1>9. ASSUME P \cap Q \subseteq Byzantine PROVE FALSE
  BY <1>2, <1>3, <1>8, <1>9, FS_Subset
<1> QED BY <1>9

----------------------------------------------------------------------------
\* What appending an entry does to a history and to its prefixes.
LEMMA AppendPrefix ==
  ASSUME NEW s \in Seq(Entry), NEW e \in Entry
  PROVE  /\ Append(s, e) \in Seq(Entry)
         /\ Len(Append(s, e)) = Len(s) + 1
         /\ Append(s, e) # << >>
         /\ Append(s, e)[Len(s) + 1] = e
         /\ \A i \in 1..Len(s) : Append(s, e)[i] = s[i]
         /\ \A h \in 0..Len(s) : Prefix(Append(s, e), h) = Prefix(s, h)
         /\ Prefix(Append(s, e), Len(s) + 1) = Append(s, e)
         /\ Prefix(s, Len(s)) = s
BY DEF Prefix

\* A prefix of a history is a history of the given length.
LEMMA PrefixType ==
  ASSUME NEW s \in Seq(Entry), NEW h \in 0..Len(s)
  PROVE  Prefix(s, h) \in Seq(Entry) /\ Len(Prefix(s, h)) = h
BY DEF Prefix

\* The time of a history is a timestamp.
LEMMA TimeIsNat ==
  ASSUME NEW s \in Seq(Entry)
  PROVE  TimeAfter(s) \in Nat
<1>1. CASE s = << >>
  BY <1>1 DEF TimeAfter
<1>2. CASE s # << >>
  <2>1. s[Len(s)] \in Entry
    BY <1>2
  <2> QED BY <1>2, <2>1 DEF TimeAfter, Entry
<1> QED BY <1>1, <1>2

\* Every entry a validator can be shown is a well-formed log entry.
LEMMA ProposableIsEntry == Proposable \subseteq Entry
BY ClockAssumption DEF Proposable, Entry, Timestamps

LEMMA HeightIsNat == MaxOperations \in Nat /\ Heights \subseteq Nat \ {0}
BY MaxOperationsAssumption DEF Heights

----------------------------------------------------------------------------
\* No step breaks the type invariant.
LEMMA TypeStep == TypeOK /\ [Next]_vars => TypeOK'
<1> SUFFICES ASSUME TypeOK, [Next]_vars PROVE TypeOK'
  OBVIOUS
<1> USE HeightIsNat
<1>1. ASSUME NEW n \in Honest, NEW c \in Commands, LeaderPropose(n, c) PROVE TypeOK'
  <2> DEFINE t == TimeAfter(chain[n])
             e == [ts |-> IF clock[n] > t THEN clock[n] ELSE t, cmd |-> c]
             h == Len(chain[n]) + 1
  <2>1. t \in Nat
    BY TimeIsNat DEF TypeOK
  <2>2. e \in Entry
    BY <2>1 DEF TypeOK, Entry
  <2>3. chain[n] \in Seq(Entry) /\ Len(chain[n]) < MaxOperations /\ h \in Heights
    BY <1>1 DEF LeaderPropose, Applies, TypeOK, Heights
  <2>4. Append(chain[n], e) \in Seq(Entry) /\ Len(Append(chain[n], e)) = h
    BY <2>2, <2>3, AppendPrefix
  <2>5. proposed' = [proposed EXCEPT ![n][h] = Append(chain[n], e)]
        /\ UNCHANGED <<chain, lock, clock, castAt>>
    BY <1>1 DEF LeaderPropose
  <2> HIDE DEF t, e, h
  <2> QED BY <2>3, <2>4, <2>5 DEF TypeOK
<1>2. ASSUME NEW n \in Honest, NEW e \in Proposable, Vote(n, e) PROVE TypeOK'
  <2> DEFINE p == Append(chain[n], e)
  <2>1. e \in Entry /\ chain[n] \in Seq(Entry)
    BY ProposableIsEntry DEF TypeOK
  <2>2. p \in Seq(Entry) /\ Len(p) \in Heights
    BY <1>2, <2>1, AppendPrefix DEF Vote, Applies, Heights
  <2>3. /\ lock' = [lock EXCEPT ![n][Len(p)] = p]
        /\ castAt' = [castAt EXCEPT ![n][Len(p)] = clock[n]]
        /\ UNCHANGED <<chain, proposed, clock>>
    BY <1>2 DEF Vote
  <2> HIDE DEF p
  <2> QED BY <2>2, <2>3 DEF TypeOK
<1>3. ASSUME NEW n \in Honest, NEW e \in Proposable, Commit(n, e) PROVE TypeOK'
  <2>1. e \in Entry /\ chain[n] \in Seq(Entry) /\ Len(chain[n]) < MaxOperations
    BY <1>3, ProposableIsEntry DEF TypeOK, Commit, Applies
  <2>2. Append(chain[n], e) \in Seq(Entry) /\ Len(Append(chain[n], e)) <= MaxOperations
    BY <2>1, AppendPrefix
  <2>3. chain' = [chain EXCEPT ![n] = Append(chain[n], e)]
        /\ UNCHANGED <<lock, proposed, clock, castAt>>
    BY <1>3 DEF Commit
  <2> QED BY <2>2, <2>3 DEF TypeOK
<1>4. ASSUME NEW n \in Honest, Tick(n) PROVE TypeOK'
  BY <1>4 DEF Tick, TypeOK
<1>5. CASE UNCHANGED vars
  BY <1>5 DEF vars, TypeOK
<1> QED BY <1>1, <1>2, <1>3, <1>4, <1>5 DEF Next

\* Type correctness: each table holds, under a height, only proposals for
\* that height, through every vote, proposal and commit.
THEOREM TypeCorrect == Spec => []TypeOK
<1>1. Init => TypeOK
  BY HeightIsNat DEF Init, TypeOK
<1> QED BY <1>1, TypeStep, PTL DEF Spec

----------------------------------------------------------------------------
\* A vote that an honest validator has stored is its only vote for the height
\* and was cast inside the deadlines of its command and close to its timestamp.
VotesTimely ==
  \A v \in Validators \ Byzantine, h \in Heights :
    lock[v][h] # << >> =>
      /\ lock[v][h][h].cmd.opens <= castAt[v][h]
      /\ castAt[v][h] < lock[v][h][h].cmd.closes
      /\ lock[v][h][h].ts - castAt[v][h] <= ClockSkew
      /\ castAt[v][h] - lock[v][h][h].ts <= ClockSkew

\* The inductive invariant: the tables are well-formed, every stored block can
\* be replayed, every stored vote was timely.
LedgerInv == TypeOK /\ ReplaySucceeds /\ VotesTimely

\* No step removes a vote or a proposal that is stored.
LEMMA RowsAreKept ==
  ASSUME TypeOK, [Next]_vars,
         NEW n \in Honest, NEW h \in Heights
  PROVE  /\ lock[n][h] # << >> => lock'[n][h] = lock[n][h] /\ castAt'[n][h] = castAt[n][h]
         /\ proposed[n][h] # << >> => proposed'[n][h] = proposed[n][h]
<1>1. ASSUME NEW m \in Honest, NEW c \in Commands, LeaderPropose(m, c)
      PROVE  /\ UNCHANGED <<lock, castAt>>
             /\ proposed[n][h] # << >> => proposed'[n][h] = proposed[n][h]
  BY <1>1 DEF LeaderPropose, Unproposed, TypeOK
<1>2. ASSUME NEW m \in Honest, NEW e \in Proposable, Vote(m, e)
      PROVE  /\ lock[n][h] # << >> =>
                   lock'[n][h] = lock[n][h] /\ castAt'[n][h] = castAt[n][h]
             /\ UNCHANGED proposed
  BY <1>2 DEF Vote, Unlocked, TypeOK
<1>3. ASSUME NEW m \in Honest, NEW e \in Proposable, Commit(m, e)
      PROVE  UNCHANGED <<lock, proposed, castAt>>
  BY <1>3 DEF Commit
<1>4. ASSUME NEW m \in Honest, Tick(m) PROVE UNCHANGED <<lock, proposed, castAt>>
  BY <1>4 DEF Tick
<1>5. CASE UNCHANGED vars
  BY <1>5 DEF vars
<1> QED BY <1>1, <1>2, <1>3, <1>4, <1>5 DEF Next

\* What has been signed and certified stays so.
LEMMA CertificatesAreKept ==
  ASSUME TypeOK, [Next]_vars,
         NEW p \in Seq(Entry), p # << >>, Len(p) \in Heights
  PROVE  (Signed(p) => Signed(p)') /\ (Certified(p) => Certified(p)')
<1>1. Voters(p) \subseteq Voters(p)'
  BY RowsAreKept DEF Voters, Honest
<1>2. Voters(p)' \in SUBSET Validators
  BY DEF Voters
<1>3. IsFiniteSet(Voters(p)')
  BY <1>2, RosterCardinality, FS_Subset
<1>4. /\ Cardinality(Voters(p)) <= Cardinality(Voters(p)')
      /\ Cardinality(Voters(p)) \in Nat /\ Cardinality(Voters(p)') \in Nat
  BY <1>1, <1>3, FS_Subset, FS_CardinalityType
<1>5. Quorum \in Nat
  BY RosterAssumption DEF Quorum
<1>6. Certified(p) => Certified(p)'
  BY <1>4, <1>5 DEF Certified
<1>7. Signed(p) => Signed(p)'
  BY RowsAreKept DEF Signed
<1> QED BY <1>6, <1>7

----------------------------------------------------------------------------
\* The node-local half of ReplaySucceeds, for one history.
Replays(p) ==
  \A h \in 1..Len(p) :
    /\ Signed(Prefix(p, h))
    /\ Certified(Prefix(p, h))
    /\ Applies(Prefix(p, h - 1), p[h])

\* A history that can be replayed can still be replayed after any step.
LEMMA ReplayIsKept ==
  ASSUME TypeOK, [Next]_vars,
         NEW p \in Seq(Entry), Len(p) <= MaxOperations, Replays(p)
  PROVE  Replays(p)'
<1> SUFFICES ASSUME NEW h \in 1..Len(p)
             PROVE  Signed(Prefix(p, h))' /\ Certified(Prefix(p, h))'
  BY DEF Replays, Applies, NonceIsNext
<1>1. Prefix(p, h) \in Seq(Entry) /\ Len(Prefix(p, h)) = h
  BY PrefixType
<1>2. h \in Heights /\ Prefix(p, h) # << >>
  BY <1>1, HeightIsNat DEF Heights
<1>3. Signed(Prefix(p, h)) /\ Certified(Prefix(p, h))
  BY DEF Replays
<1>4. \A q \in Seq(Entry) : q # << >> /\ Len(q) \in Heights =>
        (Signed(q) => Signed(q)') /\ (Certified(q) => Certified(q)')
  BY CertificatesAreKept
<1> QED BY <1>1, <1>2, <1>3, <1>4

\* LedgerInv is inductive.
LEMMA LedgerInvInductive == LedgerInv /\ [Next]_vars => LedgerInv'
<1> SUFFICES ASSUME LedgerInv, [Next]_vars, TypeOK' PROVE ReplaySucceeds' /\ VotesTimely'
  BY TypeStep DEF LedgerInv
<1> USE DEF LedgerInv
<1>1. ReplaySucceeds'
  <2> SUFFICES ASSUME NEW n \in Honest PROVE Replays(chain[n])'
    BY DEF ReplaySucceeds, Replays
  <2>1. chain[n] \in Seq(Entry) /\ Len(chain[n]) <= MaxOperations /\ Replays(chain[n])
    BY DEF TypeOK, ReplaySucceeds, Replays
  <2>2. CASE chain'[n] = chain[n]
    <3> DEFINE p == chain[n]
    <3>1. \A q \in Seq(Entry) : Len(q) <= MaxOperations /\ Replays(q) => Replays(q)'
      BY ReplayIsKept
    <3> QED BY <2>1, <2>2, <3>1 DEF Replays
  <2>3. CASE chain'[n] # chain[n]
    <3>1. PICK e \in Proposable : Commit(n, e)
      BY <2>3 DEF Next, LeaderPropose, Vote, Commit, Tick, vars, TypeOK
    <3> DEFINE s == chain[n]
               p == Append(s, e)
    <3>2. e \in Entry
      BY ProposableIsEntry
    <3>3. chain'[n] = p /\ Signed(p) /\ Certified(p) /\ Applies(s, e)
      BY <3>1 DEF Commit, TypeOK
    <3>4. /\ p \in Seq(Entry) /\ Len(p) = Len(s) + 1 /\ Prefix(p, Len(s) + 1) = p
          /\ p[Len(s) + 1] = e /\ Prefix(p, Len(s)) = s
          /\ \A i \in 1..Len(s) : p[i] = s[i]
          /\ \A h \in 0..Len(s) : Prefix(p, h) = Prefix(s, h)
      BY <2>1, <3>2, AppendPrefix
    <3>5. Len(s) \in Nat
      BY <2>1
    <3>6. Len(p) <= MaxOperations
      BY <3>3, <3>4, <3>5, HeightIsNat DEF Applies
    <3>7. Replays(p)
      <4> SUFFICES ASSUME NEW h \in 1..Len(p)
                   PROVE  /\ Signed(Prefix(p, h)) /\ Certified(Prefix(p, h))
                          /\ Applies(Prefix(p, h - 1), p[h])
        BY DEF Replays
      <4>1. CASE h = Len(s) + 1
        <5>1. h - 1 = Len(s)
          BY <4>1, <3>5
        <5>2. Prefix(p, h) = p /\ Prefix(p, h - 1) = s /\ p[h] = e
          BY <4>1, <5>1, <3>4
        <5> QED BY <5>2, <3>3
      <4>2. CASE h \in 1..Len(s)
        BY <4>2, <2>1, <3>4, <3>5 DEF Replays
      <4> QED BY <3>4, <3>5, <4>1, <4>2
    <3>8. \A q \in Seq(Entry) : Len(q) <= MaxOperations /\ Replays(q) => Replays(q)'
      BY ReplayIsKept
    <3> QED BY <3>3, <3>4, <3>6, <3>7, <3>8 DEF Replays
  <2> QED BY <2>2, <2>3
<1>2. VotesTimely'
  <2> SUFFICES ASSUME NEW v \in Validators \ Byzantine, NEW h \in Heights,
                      lock'[v][h] # << >>
               PROVE  /\ lock'[v][h][h].cmd.opens <= castAt'[v][h]
                      /\ castAt'[v][h] < lock'[v][h][h].cmd.closes
                      /\ lock'[v][h][h].ts - castAt'[v][h] <= ClockSkew
                      /\ castAt'[v][h] - lock'[v][h][h].ts <= ClockSkew
    BY DEF VotesTimely
  <2>1. v \in Honest
    BY DEF Honest
  <2>2. CASE lock[v][h] # << >>
    BY <2>1, <2>2, RowsAreKept DEF VotesTimely
  <2>3. CASE lock[v][h] = << >>
    <3>1. PICK e \in Proposable : Vote(v, e) /\ h = Len(Append(chain[v], e))
      <4>1. lock' # lock
        BY <2>3
      <4>2. PICK n \in Honest, e \in Proposable : Vote(n, e)
        BY <4>1 DEF Next, LeaderPropose, Commit, Tick, vars
      <4>3. lock' = [lock EXCEPT ![n][Len(Append(chain[n], e))] = Append(chain[n], e)]
        BY <4>2 DEF Vote
      <4>4. n = v /\ h = Len(Append(chain[n], e))
        BY <4>3, <2>1, <2>3 DEF TypeOK
      <4> QED BY <4>2, <4>4
    <3>2. e \in Entry /\ chain[v] \in Seq(Entry)
      BY <2>1, ProposableIsEntry DEF TypeOK
    <3>3. Append(chain[v], e)[h] = e
      BY <3>1, <3>2, AppendPrefix
    <3>4. lock'[v][h] = Append(chain[v], e) /\ castAt'[v][h] = clock[v]
      BY <2>1, <3>1 DEF Vote, TypeOK
    <3> QED BY <3>1, <3>3, <3>4 DEF Vote, VoteDeadlines
  <2> QED BY <2>2, <2>3
<1> QED BY <1>1, <1>2

\* Every reachable state satisfies LedgerInv.
LEMMA LedgerInvHolds == Spec => []LedgerInv
<1>1. Init => LedgerInv
  BY HeightIsNat DEF Init, LedgerInv, TypeOK, ReplaySucceeds, VotesTimely, Honest
<1> QED BY <1>1, LedgerInvInductive, PTL DEF Spec

\* The replay of Ledger.__init__ accepts every stored block, for every roster
\* and every behaviour of fewer than a third faulty validators.
THEOREM RestartReplays == Spec => []ReplaySucceeds
BY LedgerInvHolds, PTL DEF LedgerInv

\* Two certificates for one height certify the same history.
LEMMA OneCertificate ==
  ASSUME TypeOK, NEW p \in Seq(Entry), NEW q \in Seq(Entry),
         Len(p) = Len(q), Certified(p), Certified(q)
  PROVE  p = q
<1>1. Voters(p) \in SUBSET Validators /\ Voters(q) \in SUBSET Validators
  BY DEF Voters
<1>2. PICK v \in Voters(p) \cap Voters(q) : v \notin Byzantine
  BY <1>1, QuorumIntersection DEF Certified
<1> QED BY <1>2 DEF Voters

\* Quorum intersection makes the blocks tables of any two nodes that follow
\* the rules prefixes of one another.
THEOREM NodesAgree == Spec => []Agreement
<1>1. LedgerInv => Agreement
  <2> SUFFICES ASSUME LedgerInv, NEW n \in Honest, NEW m \in Honest,
                      Len(chain[n]) <= Len(chain[m])
               PROVE  chain[n] = Prefix(chain[m], Len(chain[n]))
    BY DEF Agreement
  <2> DEFINE h == Len(chain[n])
  <2>1. chain[n] \in Seq(Entry) /\ chain[m] \in Seq(Entry) /\ h \in Nat
    BY DEF LedgerInv, TypeOK
  <2>2. chain[n] = Prefix(chain[n], h)
    BY <2>1 DEF Prefix
  <2>3. Prefix(chain[m], h) \in Seq(Entry) /\ Len(Prefix(chain[m], h)) = h
    BY <2>1, PrefixType
  <2>4. CASE h = 0
    BY <2>1, <2>3, <2>4
  <2>5. CASE h > 0
    <3>1. Certified(Prefix(chain[n], h)) /\ Certified(Prefix(chain[m], h))
      BY <2>1, <2>5 DEF LedgerInv, ReplaySucceeds
    <3> QED BY <2>1, <2>2, <2>3, <3>1, OneCertificate DEF LedgerInv
  <2> QED BY <2>1, <2>4, <2>5
<1> QED BY <1>1, LedgerInvHolds, PTL

\* Each block was approved inside its deadlines by the clock of a validator
\* that follows the rules.
THEOREM ApprovalsAreTimely == Spec => []TimelyApproval
<1>1. LedgerInv => TimelyApproval
  <2> SUFFICES ASSUME LedgerInv, NEW n \in Honest, NEW h \in 1..Len(chain[n])
               PROVE  \E v \in Validators \ Byzantine :
                        /\ lock[v][h] = Prefix(chain[n], h)
                        /\ chain[n][h].cmd.opens <= castAt[v][h]
                        /\ castAt[v][h] < chain[n][h].cmd.closes
                        /\ chain[n][h].ts - castAt[v][h] <= ClockSkew
                        /\ castAt[v][h] - chain[n][h].ts <= ClockSkew
    BY DEF TimelyApproval
  <2> DEFINE p == Prefix(chain[n], h)
  <2>1. chain[n] \in Seq(Entry) /\ Len(chain[n]) <= MaxOperations
    BY DEF LedgerInv, TypeOK
  <2>2. p \in Seq(Entry) /\ Len(p) = h /\ h \in Heights
    BY <2>1, PrefixType, HeightIsNat DEF Heights
  <2>3. p[h] = chain[n][h] /\ p # << >>
    BY <2>1, <2>2 DEF Prefix
  <2>4. Certified(p) /\ Voters(p) \in SUBSET Validators
    BY DEF LedgerInv, ReplaySucceeds, Voters
  <2>5. PICK v \in Voters(p) : v \notin Byzantine
    BY <2>4, QuorumIntersection DEF Certified
  <2>6. v \in Validators \ Byzantine /\ lock[v][h] = p
    BY <2>2, <2>5 DEF Voters
  <2> HIDE DEF p
  <2>7. /\ p[h].cmd.opens <= castAt[v][h]
        /\ castAt[v][h] < p[h].cmd.closes
        /\ p[h].ts - castAt[v][h] <= ClockSkew
        /\ castAt[v][h] - p[h].ts <= ClockSkew
    BY <2>2, <2>3, <2>6 DEF LedgerInv, VotesTimely
  <2> QED BY <2>3, <2>6, <2>7 DEF p
<1> QED BY <1>1, LedgerInvHolds, PTL

\* No step erases or replaces a stored block, vote or proposal.
THEOREM LocksStay == Spec => LocksAreDurable
<1>1. TypeOK /\ [Next]_vars =>
        [\A n \in Honest :
           /\ Len(chain[n]) <= Len(chain'[n])
           /\ Prefix(chain'[n], Len(chain[n])) = chain[n]
           /\ \A h \in Heights :
                /\ lock[n][h] # << >> => lock'[n][h] = lock[n][h]
                /\ proposed[n][h] # << >> => proposed'[n][h] = proposed[n][h]]_vars
  <2> SUFFICES ASSUME TypeOK, [Next]_vars, NEW n \in Honest
               PROVE  /\ Len(chain[n]) <= Len(chain'[n])
                      /\ Prefix(chain'[n], Len(chain[n])) = chain[n]
    BY RowsAreKept
  <2>1. chain[n] \in Seq(Entry) /\ Len(chain[n]) \in Nat
    BY DEF TypeOK
  <2>2. CASE chain'[n] = chain[n]
    BY <2>1, <2>2 DEF Prefix
  <2>3. CASE chain'[n] # chain[n]
    <3>1. PICK e \in Proposable : Commit(n, e)
      BY <2>3 DEF Next, LeaderPropose, Vote, Commit, Tick, vars, TypeOK
    <3>2. e \in Entry
      BY ProposableIsEntry
    <3>3. chain'[n] = Append(chain[n], e)
      BY <3>1 DEF Commit, TypeOK
    <3> QED BY <2>1, <3>2, <3>3, AppendPrefix
  <2> QED BY <2>2, <2>3
<1> QED BY <1>1, TypeCorrect, PTL DEF Spec, LocksAreDurable

----------------------------------------------------------------------------
\* In a history that replays, the commands of one account carry increasing
\* nonces: accounts[a]["nonce"] counts the account's earlier commands.
LEMMA NonceGrows ==
  ASSUME NEW p \in Seq(Entry),
         \A h \in 1..Len(p) : Applies(Prefix(p, h - 1), p[h]),
         NEW i \in 1..Len(p), NEW j \in 1..Len(p), i < j,
         p[i].cmd.actor = p[j].cmd.actor
  PROVE  p[i].cmd.nonce < p[j].cmd.nonce
<1> DEFINE a == p[i].cmd.actor
           Spent(h) == {k \in 1..h : p[k].cmd.actor = a}
<1>1. \A h \in 0..Len(p) : NonceAfter(Prefix(p, h), a) = Cardinality(Spent(h))
  <2> SUFFICES ASSUME NEW h \in 0..Len(p)
               PROVE  NonceAfter(Prefix(p, h), a) = Cardinality(Spent(h))
    OBVIOUS
  <2>1. DOMAIN Prefix(p, h) = 1..h /\ \A k \in 1..h : Prefix(p, h)[k] = p[k]
    BY DEF Prefix
  <2>2. {k \in DOMAIN Prefix(p, h) : Prefix(p, h)[k].cmd.actor = a} = Spent(h)
    BY <2>1
  <2> QED BY <2>2 DEF NonceAfter
<1>2. p[i].cmd.nonce = Cardinality(Spent(i - 1)) + 1
  <2>1. i - 1 \in 0..Len(p) /\ Applies(Prefix(p, i - 1), p[i])
    OBVIOUS
  <2> QED BY <1>1, <2>1 DEF Applies, NonceIsNext
<1>3. p[j].cmd.nonce = Cardinality(Spent(j - 1)) + 1
  <2>1. j - 1 \in 0..Len(p) /\ Applies(Prefix(p, j - 1), p[j])
    OBVIOUS
  <2>2. p[j].cmd.nonce = NonceAfter(Prefix(p, j - 1), a) + 1
    BY <2>1 DEF Applies, NonceIsNext
  <2> QED BY <1>1, <2>1, <2>2
<1>4. IsFiniteSet(Spent(i - 1)) /\ IsFiniteSet(Spent(j - 1))
  <2>1. IsFiniteSet(1..(i - 1)) /\ IsFiniteSet(1..(j - 1))
    BY FS_Interval
  <2>2. Spent(i - 1) \in SUBSET (1..(i - 1)) /\ Spent(j - 1) \in SUBSET (1..(j - 1))
    OBVIOUS
  <2> QED BY <2>1, <2>2, FS_Subset
<1>5. i \notin Spent(i - 1) /\ Spent(i - 1) \cup {i} \in SUBSET Spent(j - 1)
  OBVIOUS
<1> HIDE DEF Spent
<1>6. Cardinality(Spent(i - 1) \cup {i}) = Cardinality(Spent(i - 1)) + 1
  BY <1>4, <1>5, FS_AddElement
<1>7. Cardinality(Spent(i - 1) \cup {i}) <= Cardinality(Spent(j - 1))
  BY <1>4, <1>5, FS_Subset
<1>8. Cardinality(Spent(i - 1)) \in Nat /\ Cardinality(Spent(j - 1)) \in Nat
  BY <1>4, FS_CardinalityType
<1> QED BY <1>2, <1>3, <1>6, <1>7, <1>8

\* Blocks of two nodes at one height are the same block.
LEMMA SameBlock ==
  ASSUME TypeOK, Agreement, NEW n \in Honest, NEW m \in Honest,
         NEW i \in 1..Len(chain[n]), i <= Len(chain[m])
  PROVE  chain[n][i] = chain[m][i]
<1>1. chain[n] \in Seq(Entry) /\ chain[m] \in Seq(Entry)
  BY DEF TypeOK
<1>2. Len(chain[n]) \in Nat /\ Len(chain[m]) \in Nat
  BY <1>1
<1>3. CASE Len(chain[n]) <= Len(chain[m])
  <2>1. chain[n] = Prefix(chain[m], Len(chain[n]))
    BY <1>3 DEF Agreement
  <2> QED BY <1>1, <1>3, <2>1 DEF Prefix
<1>4. CASE Len(chain[m]) <= Len(chain[n])
  <2>1. chain[m] = Prefix(chain[n], Len(chain[m]))
    BY <1>4 DEF Agreement
  <2>2. i \in 1..Len(chain[m])
    BY <1>2
  <2> QED BY <1>1, <1>4, <2>1, <2>2 DEF Prefix
<1> QED BY <1>2, <1>3, <1>4

\* No account spends a nonce twice, in the blocks of one node or of two.
THEOREM NoncesSpentOnce == Spec => []NoDoubleSpend
<1>1. LedgerInv /\ Agreement => NoDoubleSpend
  <2> SUFFICES ASSUME LedgerInv, Agreement, NEW n \in Honest, NEW m \in Honest,
                      NEW i \in 1..Len(chain[n]), NEW j \in 1..Len(chain[m]),
                      chain[n][i].cmd.actor = chain[m][j].cmd.actor,
                      chain[n][i].cmd.nonce = chain[m][j].cmd.nonce
               PROVE  i = j /\ chain[n][i].cmd = chain[m][j].cmd
    BY DEF NoDoubleSpend
  <2>1. /\ chain[n] \in Seq(Entry) /\ chain[m] \in Seq(Entry)
        /\ Len(chain[n]) \in Nat /\ Len(chain[m]) \in Nat
    BY DEF LedgerInv, TypeOK
  <2>2. \A k \in Honest, x, y \in 1..MaxOperations :
          /\ x < y /\ x <= Len(chain[k]) /\ y <= Len(chain[k])
          /\ chain[k][x].cmd.actor = chain[k][y].cmd.actor
          => chain[k][x].cmd.nonce < chain[k][y].cmd.nonce
    <3> SUFFICES ASSUME NEW k \in Honest, NEW x \in 1..MaxOperations,
                        NEW y \in 1..MaxOperations,
                        x < y, x <= Len(chain[k]), y <= Len(chain[k]),
                        chain[k][x].cmd.actor = chain[k][y].cmd.actor
                 PROVE  chain[k][x].cmd.nonce < chain[k][y].cmd.nonce
      OBVIOUS
    <3>1. chain[k] \in Seq(Entry)
      BY DEF LedgerInv, TypeOK
    <3>2. \A h \in 1..Len(chain[k]) : Applies(Prefix(chain[k], h - 1), chain[k][h])
      BY DEF LedgerInv, ReplaySucceeds
    <3>3. x \in 1..Len(chain[k]) /\ y \in 1..Len(chain[k])
      BY <3>1
    <3> QED BY <3>1, <3>2, <3>3, NonceGrows
  <2>3. i \in 1..MaxOperations /\ j \in 1..MaxOperations
    BY <2>1, HeightIsNat DEF LedgerInv, TypeOK
  <2>4. chain[n][i].cmd.nonce \in Nat /\ chain[m][j].cmd.nonce \in Nat
    <3>1. chain[n][i] \in Entry /\ chain[m][j] \in Entry
      BY <2>1
    <3> QED BY <3>1, CommandsAssumption DEF Entry
  <2>5. CASE Len(chain[n]) <= Len(chain[m])
    <3>1. i <= Len(chain[m])
      BY <2>1, <2>5
    <3>2. chain[n][i] = chain[m][i]
      BY <3>1, SameBlock DEF LedgerInv
    <3>3. ~(i < j) /\ ~(j < i)
      BY <2>1, <2>2, <2>3, <2>4, <3>1, <3>2
    <3> QED BY <3>2, <3>3
  <2>6. CASE Len(chain[m]) <= Len(chain[n])
    <3>1. j <= Len(chain[n])
      BY <2>1, <2>6
    <3>2. chain[m][j] = chain[n][j]
      BY <3>1, SameBlock DEF LedgerInv
    <3>3. ~(i < j) /\ ~(j < i)
      BY <2>1, <2>2, <2>3, <2>4, <3>1, <3>2
    <3> QED BY <3>2, <3>3
  <2> QED BY <2>1, <2>5, <2>6
<1> QED BY <1>1, LedgerInvHolds, NodesAgree, PTL

----------------------------------------------------------------------------
\* Node n has stored as many blocks as any other.
IsLongest(n) == \A m \in Honest : Len(chain[m]) <= Len(chain[n])

\* Some node that follows the rules has the longest log.
HasLongest == \E n \in Honest : IsLongest(n)

\* At least one validator follows the rules.
LEMMA SomeoneIsHonest == \E v \in Validators : v \in Honest
<1>1. IsFiniteSet(Byzantine) /\ Cardinality(Byzantine) \in Nat
  BY RosterCardinality, ByzantineAssumption, FS_Subset, FS_CardinalityType
<1>2. Byzantine # Validators
  BY <1>1, RosterCardinality, RosterAssumption, ByzantineAssumption
<1> QED BY <1>2, ByzantineAssumption DEF Honest

\* The refinement mapping picks the log of one of the longest.
LEMMA CommittedIsLongest ==
  ASSUME HasLongest
  PROVE  \E n \in Honest : IsLongest(n) /\ CommittedLog = chain[n]
BY DEF HasLongest, IsLongest, CommittedLog

\* All the longest logs are the same log.
LEMMA LongestAgree ==
  ASSUME TypeOK, Agreement, NEW n \in Honest, NEW m \in Honest,
         IsLongest(n), IsLongest(m)
  PROVE  chain[n] = chain[m]
<1>1. chain[n] \in Seq(Entry) /\ chain[m] \in Seq(Entry)
  BY DEF TypeOK
<1>2. Len(chain[n]) = Len(chain[m])
  BY <1>1 DEF IsLongest
<1>3. chain[n] = Prefix(chain[m], Len(chain[n]))
  BY <1>1, <1>2 DEF Agreement
<1> QED BY <1>1, <1>2, <1>3 DEF Prefix

\* A step changes no log, or appends one applicable entry to one of them.
LEMMA OneAppend ==
  ASSUME TypeOK, [Next]_vars
  PROVE  \/ UNCHANGED chain
         \/ \E n \in Honest, e \in Entry :
              /\ Applies(chain[n], e)
              /\ chain' = [chain EXCEPT ![n] = Append(chain[n], e)]
<1>1. CASE \E n \in Honest : \E e \in Proposable : Commit(n, e)
  BY <1>1, ProposableIsEntry DEF Commit
<1>2. CASE ~ \E n \in Honest : \E e \in Proposable : Commit(n, e)
  BY <1>2 DEF Next, LeaderPropose, Vote, Tick, vars
<1> QED BY <1>1, <1>2

\* Some log stays the longest, and the longest log grows only by one
\* applicable entry: a step of the ledger is a step of the log or a stutter.
LEMMA LogStep ==
  ASSUME TypeOK, TypeOK', Agreement, Agreement', HasLongest, [Next]_vars
  PROVE  /\ HasLongest'
         /\ \/ CommittedLog' = CommittedLog
            \/ \E e \in Entry : Applies(CommittedLog, e)
                                /\ CommittedLog' = Append(CommittedLog, e)
<1>1. PICK k \in Honest : IsLongest(k) /\ CommittedLog = chain[k]
  BY CommittedIsLongest
<1>2. CASE UNCHANGED chain
  BY <1>1, <1>2 DEF HasLongest, IsLongest, CommittedLog
<1>3. ASSUME NEW n \in Honest, NEW e \in Entry, Applies(chain[n], e),
             chain' = [chain EXCEPT ![n] = Append(chain[n], e)]
      PROVE  /\ HasLongest'
             /\ \/ CommittedLog' = CommittedLog
                \/ \E d \in Entry : Applies(CommittedLog, d)
                                    /\ CommittedLog' = Append(CommittedLog, d)
  <2>1. /\ \A m \in Honest : chain[m] \in Seq(Entry) /\ Len(chain[m]) \in Nat
        /\ \A m \in Honest : chain'[m] = IF m = n THEN Append(chain[n], e) ELSE chain[m]
        /\ Len(Append(chain[n], e)) = Len(chain[n]) + 1
    BY <1>3, AppendPrefix DEF TypeOK
  <2>2. CASE Len(chain[n]) = Len(chain[k])
    <3>1. IsLongest(n)
      BY <1>1, <2>2 DEF IsLongest
    <3>2. IsLongest(n)'
      <4> SUFFICES ASSUME NEW m \in Honest PROVE Len(chain'[m]) <= Len(chain'[n])
        BY DEF IsLongest
      <4>1. Len(chain[m]) <= Len(chain[n])
        BY <3>1 DEF IsLongest
      <4>2. Len(chain'[n]) = Len(chain[n]) + 1
        BY <2>1
      <4>3. CASE m = n
        BY <2>1, <4>2, <4>3
      <4>4. CASE m # n
        <5>1. chain'[m] = chain[m]
          BY <2>1, <4>4
        <5> QED BY <2>1, <4>1, <4>2, <5>1
      <4> QED BY <4>3, <4>4
    <3>3. HasLongest'
      BY <3>2 DEF HasLongest
    <3>4. \E j \in Honest : IsLongest(j)' /\ CommittedLog' = chain'[j]
      BY <3>3 DEF HasLongest, IsLongest, CommittedLog
    <3>5. PICK j \in Honest : IsLongest(j)' /\ CommittedLog' = chain'[j]
      BY <3>4
    <3>6. chain'[j] = chain'[n]
      <4>1. chain'[n] \in Seq(Entry) /\ chain'[j] \in Seq(Entry)
        BY DEF TypeOK
      <4>2. Len(chain'[n]) = Len(chain'[j])
        BY <3>2, <3>5, <4>1 DEF IsLongest
      <4>3. chain'[n] = Prefix(chain'[j], Len(chain'[n]))
        BY <4>1, <4>2 DEF Agreement, Prefix
      <4> QED BY <4>1, <4>2, <4>3 DEF Prefix
    <3>7. chain[n] = chain[k]
      BY <1>1, <3>1, LongestAgree
    <3> QED BY <1>1, <1>3, <2>1, <3>3, <3>5, <3>6, <3>7
  <2>3. CASE Len(chain[n]) # Len(chain[k])
    <3>1. n # k /\ Len(chain[n]) < Len(chain[k])
      BY <1>1, <2>1, <2>3 DEF IsLongest
    <3>2. IsLongest(k)' /\ chain'[k] = chain[k]
      <4>1. chain'[k] = chain[k]
        BY <2>1, <3>1
      <4> SUFFICES ASSUME NEW m \in Honest PROVE Len(chain'[m]) <= Len(chain'[k])
        BY <4>1 DEF IsLongest
      <4>2. Len(chain[m]) <= Len(chain[k])
        BY <1>1 DEF IsLongest
      <4>3. CASE m = n
        <5>1. Len(chain'[m]) = Len(chain[n]) + 1
          BY <2>1, <4>3
        <5>2. Len(chain[n]) \in Nat /\ Len(chain[k]) \in Nat
          BY <2>1
        <5> QED BY <3>1, <4>1, <5>1, <5>2
      <4>4. CASE m # n
        <5>1. chain'[m] = chain[m]
          BY <2>1, <4>4
        <5> QED BY <4>1, <4>2, <5>1
      <4> QED BY <4>3, <4>4
    <3>3. HasLongest'
      BY <3>2 DEF HasLongest
    <3>4. \E j \in Honest : IsLongest(j)' /\ CommittedLog' = chain'[j]
      BY <3>3 DEF HasLongest, IsLongest, CommittedLog
    <3>5. PICK j \in Honest : IsLongest(j)' /\ CommittedLog' = chain'[j]
      BY <3>4
    <3>6. chain'[j] = chain'[k]
      <4>1. chain'[k] \in Seq(Entry) /\ chain'[j] \in Seq(Entry)
        BY DEF TypeOK
      <4>2. Len(chain'[k]) = Len(chain'[j])
        BY <3>2, <3>5, <4>1 DEF IsLongest
      <4>3. chain'[k] = Prefix(chain'[j], Len(chain'[k]))
        BY <4>1, <4>2 DEF Agreement, Prefix
      <4> QED BY <4>1, <4>2, <4>3 DEF Prefix
    <3> QED BY <1>1, <3>2, <3>3, <3>5, <3>6
  <2> QED BY <2>2, <2>3
<1> QED BY <1>2, <1>3, OneAppend

\* Seen through the longest blocks table, the ledger with its lost messages,
\* restarts and faulty validators is the single log of ExchangeLog.
THEOREM LedgerImplementsLog == Spec => ImplementsLog
<1>1. Init => HasLongest /\ Log!Init
  <2> SUFFICES ASSUME Init PROVE HasLongest /\ Log!Init
    OBVIOUS
  <2>1. PICK v \in Honest : TRUE
    BY SomeoneIsHonest
  <2>2. HasLongest
    BY <2>1 DEF Init, HasLongest, IsLongest
  <2> QED BY <2>2, CommittedIsLongest DEF Init, Log!Init
<1>2. /\ TypeOK /\ TypeOK' /\ Agreement /\ Agreement' /\ HasLongest
      /\ [Next]_vars
      => HasLongest' /\ [Log!Next]_CommittedLog
  <2> SUFFICES ASSUME TypeOK, TypeOK', Agreement, Agreement', HasLongest, [Next]_vars
               PROVE  HasLongest' /\ [Log!Next]_CommittedLog
    OBVIOUS
  <2>1. PICK k \in Honest : IsLongest(k) /\ CommittedLog = chain[k]
    BY CommittedIsLongest
  <2>2. CommittedLog \in Seq(Entry)
    BY <2>1 DEF TypeOK
  <2>3. ASSUME NEW e \in Entry, Applies(CommittedLog, e),
               CommittedLog' = Append(CommittedLog, e)
        PROVE  Log!Next
    <3>1. /\ Len(CommittedLog') = Len(CommittedLog) + 1
          /\ CommittedLog'[Len(CommittedLog')] = e
      BY <2>2, <2>3, AppendPrefix
    <3>2. Log!Applies(CommittedLog, e) /\ e \in Log!Entry
      <4>1. \A S : Log!Cardinality(S) = Cardinality(S)
        BY DEF Log!Cardinality, Cardinality
      <4> QED BY <2>3, <4>1
              DEF Log!Entry, Entry, Log!Applies, Applies, Log!Operations, Operations,
                  Log!NonceIsNext, NonceIsNext, Log!NonceAfter, NonceAfter,
                  Log!ContextAfter, ContextAfter, Log!TimeAfter, TimeAfter
    <3> QED BY <2>3, <3>1, <3>2 DEF Log!Next
  <2> QED BY <2>3, LogStep
<1> QED BY <1>1, <1>2, TypeCorrect, NodesAgree, PTL DEF Spec, ImplementsLog, Log!Spec
=============================================================================
