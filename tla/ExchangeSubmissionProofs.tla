---------------------- MODULE ExchangeSubmissionProofs ----------------------
(***************************************************************************)
(* Theorems about ExchangeSubmission, for every set of own and foreign     *)
(* commands, accounts, orders and operation ids and any number of crashes. *)
(***************************************************************************)
EXTENDS ExchangeSubmission, FiniteSetTheorems, TLAPS

\* History s is a beginning of history t.
IsPrefixOf(s, t) == Len(s) <= Len(t) /\ \A k \in 1..Len(s) : s[k] = t[k]

\* Nonces and order contexts are natural numbers no larger than the history,
\* and they only grow with it.
LEMMA CountsGrow ==
  ASSUME NEW s \in Seq(Entry), NEW t \in Seq(Entry), IsPrefixOf(s, t), NEW a
  PROVE  /\ NonceAfter(s, a) \in 0..Len(s) /\ NonceAfter(t, a) \in 0..Len(t)
         /\ ContextAfter(s, a) \in 0..Len(s) /\ ContextAfter(t, a) \in 0..Len(t)
         /\ NonceAfter(s, a) <= NonceAfter(t, a)
         /\ ContextAfter(s, a) <= ContextAfter(t, a)
<1> DEFINE A(h) == {i \in DOMAIN h : h[i].cmd.actor = a}
           O(h) == {i \in DOMAIN h : h[i].cmd.order = a}
<1>1. \A h \in Seq(Entry) :
        /\ IsFiniteSet(A(h)) /\ Cardinality(A(h)) \in 0..Len(h)
        /\ IsFiniteSet(O(h)) /\ Cardinality(O(h)) \in 0..Len(h)
  <2> SUFFICES ASSUME NEW h \in Seq(Entry)
               PROVE  /\ IsFiniteSet(A(h)) /\ Cardinality(A(h)) \in 0..Len(h)
                      /\ IsFiniteSet(O(h)) /\ Cardinality(O(h)) \in 0..Len(h)
    OBVIOUS
  <2>1. DOMAIN h = 1..Len(h) /\ Len(h) \in Nat
    OBVIOUS
  <2>2. IsFiniteSet(1..Len(h)) /\ Cardinality(1..Len(h)) = Len(h)
    <3>1. 1 \in Int /\ Len(h) \in Int
      BY <2>1
    <3>2. /\ IsFiniteSet(1..Len(h))
          /\ Cardinality(1..Len(h)) = IF 1 > Len(h) THEN 0 ELSE Len(h) - 1 + 1
      BY <3>1, FS_Interval
    <3> QED BY <2>1, <3>2
  <2>3. A(h) \in SUBSET (1..Len(h)) /\ O(h) \in SUBSET (1..Len(h))
    BY <2>1
  <2> HIDE DEF A, O
  <2>4. /\ IsFiniteSet(A(h)) /\ Cardinality(A(h)) <= Len(h)
        /\ IsFiniteSet(O(h)) /\ Cardinality(O(h)) <= Len(h)
    BY <2>2, <2>3, FS_Subset
  <2>5. Cardinality(A(h)) \in Nat /\ Cardinality(O(h)) \in Nat
    BY <2>4, FS_CardinalityType
  <2> QED BY <2>1, <2>4, <2>5
<1>2. A(s) \in SUBSET A(t) /\ O(s) \in SUBSET O(t)
  BY DEF IsPrefixOf
<1>3. /\ NonceAfter(s, a) = Cardinality(A(s)) /\ NonceAfter(t, a) = Cardinality(A(t))
      /\ ContextAfter(s, a) = Cardinality(O(s)) /\ ContextAfter(t, a) = Cardinality(O(t))
  BY DEF NonceAfter, ContextAfter
<1> HIDE DEF A, O
<1>4. Cardinality(A(s)) <= Cardinality(A(t)) /\ Cardinality(O(s)) <= Cardinality(O(t))
  BY <1>1, <1>2, FS_Subset
<1> QED BY <1>1, <1>3, <1>4

\* Command c can no longer be the next entry of history h, nor of a longer one:
\* its nonce is spent or its order has moved past the context it was signed for.
Late(h, c) ==
  \/ c.nonce <= NonceAfter(h, c.actor)
  \/ c.order # NoOrder /\ c.reviewed < ContextAfter(h, c.order)

\* Command c was signed against a context that its order had at h or before.
Reviewed(h, c) == c.order # NoOrder => c.reviewed <= ContextAfter(h, c.order)

\* Both facts about a command stay true as the history grows.
LEMMA LateStays ==
  ASSUME NEW s \in Seq(Entry), NEW t \in Seq(Entry), IsPrefixOf(s, t),
         NEW c \in OwnCommands
  PROVE  (Late(s, c) => Late(t, c)) /\ (Reviewed(s, c) => Reviewed(t, c))
<1>1. c.nonce \in Int /\ c.reviewed \in Int
  BY MaxOperationsAssumption DEF OwnCommands
<1>2. /\ NonceAfter(s, c.actor) \in Int /\ NonceAfter(t, c.actor) \in Int
      /\ NonceAfter(s, c.actor) <= NonceAfter(t, c.actor)
      /\ ContextAfter(s, c.order) \in Int /\ ContextAfter(t, c.order) \in Int
      /\ ContextAfter(s, c.order) <= ContextAfter(t, c.order)
  BY CountsGrow
<1> QED BY <1>1, <1>2 DEF Late, Reviewed

\* A late command is refused by every history that extends the one it is late in.
LEMMA LateIsRefused ==
  ASSUME NEW s \in Seq(Entry), NEW t \in Seq(Entry), IsPrefixOf(s, t),
         NEW c \in OwnCommands, Late(s, c), NEW x
  PROVE  ~ Applies(t, [ts |-> x, cmd |-> c])
<1>1. c.nonce \in Int /\ c.reviewed \in Int
  BY MaxOperationsAssumption DEF OwnCommands
<1>2. Late(t, c)
  BY LateStays
<1>3. NonceAfter(t, c.actor) \in Int /\ ContextAfter(t, c.order) \in Int
  BY CountsGrow
<1>4. ASSUME Applies(t, [ts |-> x, cmd |-> c])
      PROVE  /\ c.nonce = NonceAfter(t, c.actor) + 1
             /\ c.order # NoOrder => c.reviewed = ContextAfter(t, c.order)
  BY <1>4 DEF Applies, NonceIsNext
<1> QED BY <1>1, <1>2, <1>3, <1>4 DEF Late

\* A signed command is not the absent one.
LEMMA CommandsAreReal == \A c \in OwnCommands : c # NoCommand
<1> SUFFICES ASSUME NEW c \in OwnCommands, c = NoCommand PROVE FALSE
  OBVIOUS
<1>1. "actor" \in DOMAIN c
  BY DEF OwnCommands
<1>2. DOMAIN NoCommand = {"id"}
  BY DEF NoCommand
<1> QED BY <1>1, <1>2

----------------------------------------------------------------------------
\* The intents table has a row for every operation id.
RowsTyped == saved \in [Ids -> OwnCommands \cup {NoCommand}]

\* Every row holds a command of its own id that was signed against a context
\* its order has had; a superseded row holds a late one.
RowsSound ==
  \A i \in Ids : intent[i] # "none" =>
    /\ saved[i] \in OwnCommands /\ saved[i].id = i
    /\ Reviewed(View, saved[i])
    /\ intent[i] = "superseded" => Late(View, saved[i])

\* What the request that holds submission_lock knows at each of its steps.
RequestSound ==
  /\ pc \in {"check", "persist", "propose", "certify", "decide", "mark"} =>
       op \in Ids /\ tries > 0
  /\ pc = "check" => (prior = "none" <=> intent[op] = "none")
  /\ pc = "persist" => /\ intent[op] = "none" /\ NothingPending
                       /\ draft \in OwnCommands /\ draft.id = op /\ draft.actor = acting
                       /\ Reviewed(View, draft)
  /\ pc \in {"propose", "certify", "decide", "mark"} =>
       intent[op] # "none" /\ draft = saved[op]
  /\ pc = "mark" => Late(View, draft)

\* Only commands that were sent, or foreign ones, are in the log.
LogSound ==
  /\ submitted \subseteq OwnCommands
  /\ \A k \in 1..Len(log) : log[k].cmd.id \in Ids => log[k].cmd \in submitted

\* The inductive invariant.
SubmissionInv == TypeOK /\ RowsTyped /\ RowsSound /\ RequestSound /\ LogSound /\ RecordsAreTrue

\* The first h entries of a history.
LEMMA FirstEntries ==
  ASSUME NEW s \in Seq(Entry), NEW h \in 0..Len(s)
  PROVE  /\ SubSeq(s, 1, h) \in Seq(Entry) /\ Len(SubSeq(s, 1, h)) = h
         /\ \A k \in 1..h : SubSeq(s, 1, h)[k] = s[k]
OBVIOUS

\* The learnt history is a beginning of the log; it and the log only grow.
LEMMA ViewIsPrefix ==
  ASSUME TypeOK
  PROVE  View \in Seq(Entry) /\ Len(View) = height /\ IsPrefixOf(View, log)
         /\ \A k \in 1..height : View[k] = log[k]
BY DEF TypeOK, View, IsPrefixOf

\* A node's own commands are commands, with natural nonces and contexts.
LEMMA OwnCommandsType ==
  \A c \in OwnCommands : c \in Commands /\ c.nonce \in Nat /\ c.reviewed \in Nat
BY OwnCommandsAssumption, MaxOperationsAssumption DEF OwnCommands

\* The command that CheckNew signs is one of the node's own commands, signed
\* against the context of its order.
LEMMA SignedType ==
  ASSUME TypeOK, op \in Ids, NEW o \in OwnOrders, NEW x \in Closes, NEW c,
         c = [id |-> op, actor |-> acting, nonce |-> NonceAfter(View, acting) + 1,
              order |-> o, reviewed |-> IF o = NoOrder THEN 0 ELSE ContextAfter(View, o),
              opens |-> 0, closes |-> x],
         Applies(View, [ts |-> now, cmd |-> c])
  PROVE  c \in OwnCommands /\ c.id = op /\ c.actor = acting /\ Reviewed(View, c)
<1>1. View \in Seq(Entry) /\ Len(View) \in Nat /\ IsPrefixOf(View, View)
  BY ViewIsPrefix DEF IsPrefixOf
<1>2. Len(View) < MaxOperations
  BY DEF Applies
<1>3. NonceAfter(View, acting) \in 0..Len(View) /\ ContextAfter(View, o) \in 0..Len(View)
  BY <1>1, CountsGrow
<1>4. NonceAfter(View, acting) + 1 \in 1..MaxOperations
  BY <1>1, <1>2, <1>3, MaxOperationsAssumption
<1>5. (IF o = NoOrder THEN 0 ELSE ContextAfter(View, o)) \in 0..MaxOperations
  BY <1>1, <1>2, <1>3, MaxOperationsAssumption
<1>6. acting \in Actors
  BY DEF TypeOK
<1>7. c \in OwnCommands
  BY <1>4, <1>5, <1>6 DEF OwnCommands
<1>8. c.order = o /\ (o # NoOrder => c.reviewed = ContextAfter(View, o))
  OBVIOUS
<1> QED BY <1>1, <1>3, <1>7, <1>8 DEF Reviewed

\* No step breaks the type invariant.
LEMMA TypeStep == SubmissionInv /\ [Next]_vars => TypeOK'
<1> SUFFICES ASSUME SubmissionInv, [Next]_vars PROVE TypeOK'
  OBVIOUS
<1> USE DEF SubmissionInv
<1> USE SubmissionAssumption
<1>1. ASSUME NEW c \in submitted \cup Others, Certify(c) PROVE TypeOK'
  <2>1. c \in Commands
    BY OwnCommandsType, SubmissionAssumption DEF LogSound
  <2>2. now \in Nat
    BY DEF TypeOK
  <2>3. [ts |-> now, cmd |-> c] \in Entry
    BY <2>1, <2>2 DEF Entry
  <2>4. log' \in Seq(Entry) /\ Len(log') = Len(log) + 1
    BY <1>1, <2>3 DEF Certify, TypeOK
  <2>5. height \in 0..Len(log')
    BY <2>4 DEF TypeOK
  <2> QED BY <1>1, <2>4, <2>5 DEF Certify, TypeOK, durable, request
<1>2. CASE Learn
  <2>1. height' \in 0..Len(log)
    BY <1>2 DEF Learn, TypeOK
  <2>2. /\ intent' \in [Ids -> {"none", "pending", "committed", "superseded"}]
        /\ \A i \in Ids : intent'[i] = "none" <=> intent[i] = "none"
    BY <1>2 DEF Learn, Recorded, TypeOK
  <2> QED BY <1>2, <2>1, <2>2 DEF Learn, TypeOK, world, request
<1>3. CASE Tick
  BY <1>3 DEF Tick, TypeOK, durable, request
<1>4. CASE Crash
  BY <1>4 DEF Crash, Idle, TypeOK, world, durable
<1>5. ASSUME NEW i \in Ids, Begin(i) PROVE TypeOK'
  BY <1>5 DEF Begin, TypeOK, world, durable
<1>6. CASE CheckPrior
  BY <1>6 DEF CheckPrior, At, Idle, RequestSound, TypeOK, world, durable
<1>7. CASE CheckNew
  BY <1>7 DEF CheckNew, At, Idle, AfterSigning, RequestSound, TypeOK, world, durable
<1>8. CASE Persist
  <2>1. op \in Ids /\ draft \in OwnCommands /\ tries > 0
    BY <1>8 DEF Persist, At, RequestSound
  <2>2. \A i \in Ids : intent'[i] = IF i = op THEN "pending" ELSE intent[i]
    BY <1>8, <2>1 DEF Persist, TypeOK
  <2>3. intent' \in [Ids -> {"none", "pending", "committed", "superseded"}]
    BY <1>8, <2>1 DEF Persist, TypeOK
  <2>4. \A i \in Ids : saved'[i] = IF i = op THEN draft ELSE saved[i]
    BY <1>8, <2>1 DEF Persist, RowsTyped
  <2>5. \A i \in Ids : intent'[i] = "none" <=> saved'[i] = NoCommand
    BY <2>1, <2>2, <2>4, CommandsAreReal DEF TypeOK
  <2> QED BY <1>8, <2>1, <2>3, <2>5 DEF Persist, Goto, TypeOK, world
<1>9. CASE Propose \/ ProposeOther \/ ProposeFails \/ OrderChanged \/ Certified
  BY <1>9 DEF Propose, ProposeOther, ProposeFails, OrderChanged, Certified, TriesLeft, Goto, Idle, At,
              TypeOK, world, durable
<1>10. CASE BeginResume \/ ResumeCertified \/ ReadPending \/ Decide
  BY <1>10 DEF BeginResume, ResumeCertified, ReadPending, Decide, Goto, Idle, At, TypeOK,
               world, durable
<1>11. CASE Mark
  <2>1. op \in Ids /\ intent[op] # "none"
    BY <1>11 DEF Mark, At, RequestSound
  <2> QED BY <1>11, <2>1 DEF Mark, Idle, TypeOK, world
<1>12. ASSUME NEW a \in Actors, ActFor(a) PROVE TypeOK'
  BY <1>12 DEF ActFor, TypeOK, world, request
<1>13. CASE UNCHANGED vars
  BY <1>13 DEF vars, TypeOK, world, durable, request
<1> QED BY <1>1, <1>2, <1>3, <1>4, <1>5, <1>6, <1>7, <1>8, <1>9, <1>10, <1>11, <1>12, <1>13
        DEF Next

----------------------------------------------------------------------------
\* The learnt history and the log only grow.
LEMMA HistoriesGrow ==
  ASSUME SubmissionInv, [Next]_vars, TypeOK'
  PROVE  IsPrefixOf(View, View') /\ IsPrefixOf(log, log') /\ View' \in Seq(Entry)
<1>1. /\ View \in Seq(Entry) /\ Len(View) = height
      /\ \A k \in 1..height : View[k] = log[k]
  BY ViewIsPrefix DEF SubmissionInv
<1>2. /\ View' \in Seq(Entry) /\ Len(View') = height'
      /\ \A k \in 1..height' : View'[k] = log'[k]
  <2>1. log' \in Seq(Entry) /\ height' \in 0..Len(log') /\ View' = SubSeq(log', 1, height')
    BY DEF TypeOK, View
  <2> QED BY <2>1, FirstEntries
<1>3. IsPrefixOf(log, log') /\ height' >= height
  <2>1. CASE \E c \in submitted \cup Others : Certify(c)
    BY <2>1 DEF Certify, SubmissionInv, TypeOK, IsPrefixOf
  <2>2. CASE Learn
    BY <2>2 DEF Learn, SubmissionInv, TypeOK, IsPrefixOf, world
  <2>3. CASE UNCHANGED <<log, height>>
    BY <2>3 DEF SubmissionInv, TypeOK, IsPrefixOf
  <2>4. \/ \E c \in submitted \cup Others : Certify(c)
        \/ Learn
        \/ UNCHANGED <<log, height>>
    BY DEF Next, Tick, Crash, Begin, CheckPrior, CheckNew, Persist, Propose, ProposeOther,
           ProposeFails, OrderChanged, Certified, BeginResume, ResumeCertified, ReadPending,
           Decide, Mark, ActFor, vars, world
  <2> QED BY <2>1, <2>2, <2>3, <2>4
<1>4. height \in Nat /\ height' \in Nat /\ height <= Len(log) /\ Len(log) \in Nat
  BY DEF SubmissionInv, TypeOK
<1>5. \A k \in 1..height : View[k] = View'[k]
  BY <1>1, <1>2, <1>3, <1>4 DEF IsPrefixOf
<1> QED BY <1>1, <1>2, <1>3, <1>4, <1>5 DEF IsPrefixOf

\* What was late or reviewed in the learnt history stays so.
LEMMA CommandFactsStay ==
  ASSUME SubmissionInv, [Next]_vars, TypeOK'
  PROVE  \A c \in OwnCommands : /\ Late(View, c) => Late(View', c)
                                /\ Reviewed(View, c) => Reviewed(View', c)
BY HistoriesGrow, ViewIsPrefix, LateStays DEF SubmissionInv

\* An entry of the log that carries one of this node's operation ids carries
\* the command that is saved under it.
LEMMA OwnEntryIsSaved ==
  ASSUME SubmissionInv, NEW k \in 1..Len(log), log[k].cmd.id \in Ids
  PROVE  intent[log[k].cmd.id] # "none" /\ saved[log[k].cmd.id] = log[k].cmd
BY DEF SubmissionInv, LogSound, RecordsAreTrue, SentIsSaved

\* No row is removed or rewritten; only Persist writes one.
LEMMA RowsAreKept ==
  ASSUME SubmissionInv, [Next]_vars, NEW i \in Ids, intent[i] # "none"
  PROVE  intent'[i] # "none" /\ saved'[i] = saved[i]
<1>1. CASE Learn
  BY <1>1 DEF Learn, Recorded, SubmissionInv, TypeOK
<1>2. CASE Persist
  <2>1. op \in Ids /\ intent[op] = "none"
    BY <1>2 DEF Persist, At, SubmissionInv, RequestSound
  <2>2. intent' = [intent EXCEPT ![op] = "pending"] /\ saved' = [saved EXCEPT ![op] = draft]
    BY <1>2 DEF Persist
  <2> QED BY <2>1, <2>2 DEF SubmissionInv, TypeOK, RowsTyped
<1>3. CASE Mark
  BY <1>3 DEF Mark, SubmissionInv, TypeOK
<1>4. CASE UNCHANGED <<intent, saved>>
  BY <1>4
<1> QED BY <1>1, <1>2, <1>3, <1>4
        DEF Next, Certify, Tick, Crash, Begin, CheckPrior, CheckNew, Propose, ProposeOther,
            ProposeFails, OrderChanged, Certified, BeginResume, ResumeCertified, ReadPending,
            Decide, ActFor, vars, durable

----------------------------------------------------------------------------
\* The invariant is kept by the steps that leave the tables and the log alone.
LEMMA TablesFrame ==
  ASSUME SubmissionInv, UNCHANGED <<log, height, submitted, intent, saved, acting>>
  PROVE  RowsTyped' /\ RowsSound' /\ LogSound' /\ RecordsAreTrue'
<1>1. View' = View
  BY DEF View
<1>2. RowsTyped' /\ LogSound' /\ RecordsAreTrue'
  BY DEF SubmissionInv, RowsTyped, LogSound, RecordsAreTrue, SentIsSaved, CommittedIsApplied,
         OneInFlight
<1>3. RowsSound'
  BY <1>1 DEF SubmissionInv, RowsSound
<1> QED BY <1>2, <1>3

\* The steps of the request that only move it.
LEMMA RequestSteps ==
  ASSUME SubmissionInv, TypeOK',
         \/ Crash \/ (\E i \in Ids : Begin(i)) \/ CheckPrior \/ CheckNew
         \/ ProposeOther \/ ProposeFails \/ OrderChanged \/ Certified
         \/ BeginResume \/ ResumeCertified \/ ReadPending \/ Decide
  PROVE  SubmissionInv'
<1>1. UNCHANGED <<log, height, submitted, intent, saved, acting>>
  BY DEF Crash, Begin, CheckPrior, CheckNew, ProposeOther, ProposeFails, OrderChanged, Certified,
         BeginResume, ResumeCertified, ReadPending, Decide, world, durable
<1>2. View' = View
  BY <1>1 DEF View
<1>3. RowsTyped' /\ RowsSound' /\ LogSound' /\ RecordsAreTrue'
  BY <1>1, TablesFrame
<1> SUFFICES RequestSound'
  BY <1>3 DEF SubmissionInv
<1> USE DEF SubmissionInv
<1>4. CASE pc' = "idle"
  BY <1>4 DEF RequestSound
<1>5. CASE \E i \in Ids : Begin(i)
  BY <1>1, <1>5, SubmissionAssumption DEF Begin, RequestSound
<1>6. CASE CheckPrior /\ pc' # "idle"
  BY <1>1, <1>6 DEF CheckPrior, At, Idle, Original, RequestSound
<1>7. CASE CheckNew /\ pc' # "idle"
  <2>1. /\ pc = "check" /\ NothingPending /\ prior = "none" /\ pc' = "persist"
        /\ UNCHANGED <<op, tries>>
    BY <1>7 DEF CheckNew, At, Idle, AfterSigning
  <2>2. PICK o \in OwnOrders, x \in Closes :
          LET c == [id |-> op, actor |-> acting, nonce |-> NonceAfter(View, acting) + 1,
                    order |-> o,
                    reviewed |-> IF o = NoOrder THEN 0 ELSE ContextAfter(View, o),
                    opens |-> 0, closes |-> x]
          IN  Applies(View, [ts |-> now, cmd |-> c]) /\ draft' = c
    BY <1>7 DEF CheckNew, At, Idle
  <2>3. op \in Ids /\ intent[op] = "none" /\ tries > 0
    BY <2>1 DEF RequestSound
  <2>4. draft' \in OwnCommands /\ draft'.id = op /\ draft'.actor = acting /\ Reviewed(View, draft')
    BY <2>2, <2>3, SignedType
  <2>5. NothingPending'
    BY <1>1, <2>1 DEF NothingPending
  <2>6. Reviewed(View', draft')
    BY <1>2, <2>4
  <2> QED BY <1>1, <2>1, <2>3, <2>4, <2>5, <2>6 DEF RequestSound
<1>8. CASE (ProposeOther \/ Certified) /\ pc' # "idle"
  BY <1>1, <1>2, <1>8
     DEF ProposeOther, Certified, TriesLeft, At, Goto, Idle, RequestSound, TypeOK
<1>9. CASE OrderChanged
  <2>1. /\ pc = "propose" /\ pc' = "mark" /\ UNCHANGED <<op, draft, tries>>
        /\ draft.order # NoOrder /\ draft.reviewed # ContextAfter(View, draft.order)
    BY <1>9 DEF OrderChanged, At, Goto
  <2>2. op \in Ids /\ tries > 0 /\ intent[op] # "none" /\ draft = saved[op]
    BY <2>1 DEF RequestSound
  <2>3. draft \in OwnCommands /\ Reviewed(View, draft)
    BY <2>2 DEF RowsSound
  <2>4. ContextAfter(View, draft.order) \in Nat /\ draft.reviewed \in Nat
    <3>1. View \in Seq(Entry) /\ IsPrefixOf(View, View)
      BY ViewIsPrefix DEF IsPrefixOf
    <3>2. ContextAfter(View, draft.order) \in 0..Len(View)
      BY <3>1, CountsGrow
    <3> QED BY <2>3, <3>1, <3>2, OwnCommandsType
  <2>5. Late(View, draft)
    BY <2>1, <2>3, <2>4 DEF Late, Reviewed
  <2>6. Late(View', draft')
    BY <1>2, <2>1, <2>5
  <2> QED BY <1>1, <2>1, <2>2, <2>6 DEF RequestSound
<1>10. CASE BeginResume
  BY <1>10 DEF BeginResume, RequestSound
<1>11. CASE ReadPending
  BY <1>1, <1>11 DEF ReadPending, RequestSound
<1>12. CASE Decide
  <2>1. /\ pc = "decide" /\ pc' \in {"mark", "propose"} /\ UNCHANGED <<op, draft, tries>>
        /\ pc' = "mark" => Overtaken(draft)
    BY <1>12 DEF Decide, At, Goto
  <2>2. op \in Ids /\ tries > 0 /\ intent[op] # "none" /\ draft = saved[op]
    BY <2>1 DEF RequestSound
  <2>3. draft \in OwnCommands /\ Reviewed(View, draft)
    BY <2>2 DEF RowsSound
  <2>4. ContextAfter(View, draft.order) \in Nat /\ draft.reviewed \in Nat
    <3>1. View \in Seq(Entry) /\ IsPrefixOf(View, View)
      BY ViewIsPrefix DEF IsPrefixOf
    <3>2. ContextAfter(View, draft.order) \in 0..Len(View)
      BY <3>1, CountsGrow
    <3> QED BY <2>3, <3>1, <3>2, OwnCommandsType
  <2>5. Overtaken(draft) => Late(View, draft)
    BY <2>3, <2>4 DEF Late, Reviewed, Overtaken
  <2>6. pc' = "mark" => Late(View', draft')
    BY <1>2, <2>1, <2>5
  <2> QED BY <1>1, <2>1, <2>2, <2>6 DEF RequestSound
<1>13. (Crash \/ ProposeFails \/ ResumeCertified) => pc' = "idle"
  BY DEF Crash, ProposeFails, ResumeCertified, Idle
<1> QED BY <1>4, <1>5, <1>6, <1>7, <1>8, <1>9, <1>10, <1>11, <1>12, <1>13

\* What the request knows stays true when the node commits a block or the log
\* grows: the steps that do not hold submission_lock.
LEMMA RequestFrame ==
  ASSUME SubmissionInv, [Next]_vars, TypeOK', UNCHANGED request, acting' = acting,
         \A i \in Ids : intent'[i] = "none" <=> intent[i] = "none",
         \A i \in Ids : intent'[i] = "pending" => intent[i] = "pending",
         saved' = saved
  PROVE  RequestSound'
<1> USE DEF SubmissionInv
<1>1. \A c \in OwnCommands : /\ Late(View, c) => Late(View', c)
                             /\ Reviewed(View, c) => Reviewed(View', c)
  BY CommandFactsStay
<1>2. UNCHANGED <<pc, op, prior, draft, tries>>
  BY DEF request
<1>3. NothingPending => NothingPending'
  BY DEF NothingPending
<1>4. pc = "persist" => Reviewed(View', draft')
  BY <1>1, <1>2 DEF RequestSound
<1>5. pc = "mark" => Late(View', draft')
  BY <1>1, <1>2 DEF RequestSound, RowsSound
<1> QED BY <1>2, <1>3, <1>4, <1>5 DEF RequestSound

\* A validator's certificate: the log grows.
LEMMA CertifyKeeps ==
  ASSUME SubmissionInv, [Next]_vars, TypeOK', NEW c \in submitted \cup Others, Certify(c)
  PROVE  SubmissionInv'
<1> USE DEF SubmissionInv
<1>1. /\ log' = Append(log, [ts |-> now, cmd |-> c])
      /\ UNCHANGED <<submitted, height, intent, saved, acting>> /\ UNCHANGED request
  BY DEF Certify, durable
<1>2. log \in Seq(Entry) /\ Len(log) \in Nat /\ height \in 0..Len(log)
  BY DEF TypeOK
<1>3. /\ \A k \in 1..Len(log) : log'[k] = log[k]
      /\ log'[Len(log) + 1].cmd = c /\ Len(log') = Len(log) + 1
  <2>1. [ts |-> now, cmd |-> c].cmd = c
    OBVIOUS
  <2>2. PICK e : e = [ts |-> now, cmd |-> c]
    OBVIOUS
  <2>3. log' = Append(log, e) /\ e.cmd = c
    BY <1>1, <2>1, <2>2
  <2>4. \A k \in 1..Len(log) : log'[k] = log[k]
    BY <1>2, <2>3
  <2>5. log'[Len(log) + 1] = e /\ Len(log') = Len(log) + 1
    BY <1>2, <2>3
  <2> QED BY <2>3, <2>4, <2>5
<1>4. LogSound'
  <2>1. submitted' \subseteq OwnCommands
    BY <1>1 DEF LogSound
  <2>2. ASSUME NEW k \in 1..Len(log'), log'[k].cmd.id \in Ids PROVE log'[k].cmd \in submitted'
    <3>1. CASE k \in 1..Len(log)
      BY <1>1, <1>3, <2>2, <3>1 DEF LogSound
    <3>2. CASE k = Len(log) + 1
      BY <1>1, <1>3, <2>2, <3>2, SubmissionAssumption
    <3> QED BY <1>2, <1>3, <3>1, <3>2
  <2> QED BY <2>1, <2>2 DEF LogSound
<1>5. RecordsAreTrue'
  <2>1. SentIsSaved' /\ OneInFlight'
    BY <1>1 DEF RecordsAreTrue, SentIsSaved, OneInFlight
  <2>2. CommittedIsApplied'
    BY <1>1, <1>2, <1>3 DEF RecordsAreTrue, CommittedIsApplied
  <2> QED BY <2>1, <2>2 DEF RecordsAreTrue
<1>6. RowsTyped' /\ RowsSound'
  <2>1. \A d \in OwnCommands : /\ Late(View, d) => Late(View', d)
                               /\ Reviewed(View, d) => Reviewed(View', d)
    BY CommandFactsStay
  <2> QED BY <1>1, <2>1 DEF RowsTyped, RowsSound
<1>7. RequestSound'
  BY <1>1, RequestFrame
<1> QED BY <1>4, <1>5, <1>6, <1>7

\* Ledger.commit by any thread: the row of the block's operation is committed.
LEMMA LearnKeeps ==
  ASSUME SubmissionInv, [Next]_vars, TypeOK', Learn
  PROVE  SubmissionInv'
<1> USE DEF SubmissionInv
<1> DEFINE e == log[height + 1]
<1>1. /\ height < Len(log) /\ height' = height + 1 /\ height \in Nat /\ Len(log) \in Nat
      /\ UNCHANGED <<log, submitted, saved, acting>> /\ UNCHANGED request
  BY DEF Learn, TypeOK, world
<1>2. \A i \in Ids : intent'[i] = IF i = e.cmd.id /\ intent[i] # "none"
                                  THEN "committed" ELSE intent[i]
  BY DEF Learn, Recorded
<1>3. e.cmd.id \in Ids => saved[e.cmd.id] = e.cmd
  BY <1>1, OwnEntryIsSaved
<1>4. LogSound' /\ RowsTyped'
  BY <1>1 DEF LogSound, RowsTyped
<1>5. SentIsSaved' /\ OneInFlight'
  <2>1. \A c \in submitted : c.id \in Ids
    BY DEF LogSound, OwnCommands
  <2>2. SentIsSaved'
    BY <1>1, <1>2, <2>1 DEF RecordsAreTrue, SentIsSaved
  <2>3. OneInFlight'
    BY <1>1, <1>2 DEF RecordsAreTrue, OneInFlight
  <2> QED BY <2>2, <2>3
<1>6. CommittedIsApplied'
  <2> SUFFICES ASSUME NEW i \in Ids, intent'[i] = "committed"
               PROVE  \E k \in 1..height' : log'[k].cmd = saved'[i]
    BY DEF CommittedIsApplied
  <2>1. CASE intent[i] = "committed"
    BY <1>1, <2>1 DEF RecordsAreTrue, CommittedIsApplied
  <2>2. CASE intent[i] # "committed"
    <3>1. i = e.cmd.id
      BY <1>2, <2>2
    <3>2. height + 1 \in 1..height' /\ log'[height + 1].cmd = saved'[i]
      BY <1>1, <1>3, <3>1
    <3> QED BY <3>2
  <2> QED BY <2>1, <2>2
<1>7. RowsSound'
  <2>1. \A d \in OwnCommands : /\ Late(View, d) => Late(View', d)
                               /\ Reviewed(View, d) => Reviewed(View', d)
    BY CommandFactsStay
  <2> HIDE DEF e
  <2> QED BY <1>1, <1>2, <2>1 DEF RowsSound
<1>8. RequestSound'
  <2> HIDE DEF e
  <2> QED BY <1>1, <1>2, RequestFrame
<1> QED BY <1>4, <1>5, <1>6, <1>7, <1>8 DEF RecordsAreTrue

\* The row is written before anything is sent.
LEMMA PersistKeeps ==
  ASSUME SubmissionInv, TypeOK', Persist
  PROVE  SubmissionInv'
<1> USE DEF SubmissionInv
<1>1. /\ pc = "persist" /\ pc' = "propose"
      /\ intent' = [intent EXCEPT ![op] = "pending"] /\ saved' = [saved EXCEPT ![op] = draft]
      /\ UNCHANGED <<log, submitted, height, acting, op, prior, draft, tries>>
  BY DEF Persist, At, Goto, world
<1>2. /\ op \in Ids /\ tries > 0 /\ intent[op] = "none" /\ NothingPending
      /\ draft \in OwnCommands /\ draft.id = op /\ draft.actor = acting
      /\ Reviewed(View, draft)
  BY <1>1 DEF RequestSound
<1>3. View' = View
  BY <1>1 DEF View
<1>4. /\ \A i \in Ids : intent'[i] = IF i = op THEN "pending" ELSE intent[i]
      /\ \A i \in Ids : saved'[i] = IF i = op THEN draft ELSE saved[i]
  BY <1>1 DEF TypeOK, RowsTyped
<1>5. RowsTyped' /\ LogSound'
  BY <1>1, <1>2 DEF RowsTyped, LogSound
<1>6. RowsSound'
  BY <1>2, <1>3, <1>4 DEF RowsSound
<1>7. SentIsSaved'
  <2>1. \A c \in submitted : c.id \in Ids /\ c.id # op
    BY <1>2 DEF LogSound, OwnCommands, RecordsAreTrue, SentIsSaved
  <2> QED BY <1>1, <1>4, <2>1 DEF RecordsAreTrue, SentIsSaved
<1>8. CommittedIsApplied'
  BY <1>1, <1>4 DEF RecordsAreTrue, CommittedIsApplied
<1>9. OneInFlight'
  BY <1>1, <1>2, <1>4 DEF NothingPending, OneInFlight
<1>10. RequestSound'
  BY <1>1, <1>2, <1>4 DEF RequestSound
<1> QED BY <1>5, <1>6, <1>7, <1>8, <1>9, <1>10 DEF RecordsAreTrue

\* The saved command reaches a validator.
LEMMA ProposeKeeps ==
  ASSUME SubmissionInv, TypeOK', Propose
  PROVE  SubmissionInv'
<1> USE DEF SubmissionInv
<1>1. /\ pc = "propose" /\ pc' = "certify" /\ submitted' = submitted \cup {draft}
      /\ UNCHANGED <<log, height, intent, saved, acting, op, prior, draft, tries>>
  BY DEF Propose, At, Goto, durable
<1>2. op \in Ids /\ tries > 0 /\ intent[op] # "none" /\ draft = saved[op]
  BY <1>1 DEF RequestSound
<1>3. draft \in OwnCommands /\ draft.id = op
  BY <1>2 DEF RowsSound
<1>4. View' = View
  BY <1>1 DEF View
<1>5. RowsTyped' /\ RowsSound' /\ LogSound'
  BY <1>1, <1>3, <1>4 DEF RowsTyped, RowsSound, LogSound
<1>6. RecordsAreTrue'
  BY <1>1, <1>2, <1>3 DEF RecordsAreTrue, SentIsSaved, CommittedIsApplied, OneInFlight
<1>7. RequestSound'
  BY <1>1, <1>2 DEF RequestSound
<1> QED BY <1>5, <1>6, <1>7

\* resume() or action() gives the operation up.
LEMMA MarkKeeps ==
  ASSUME SubmissionInv, TypeOK', Mark
  PROVE  SubmissionInv'
<1> USE DEF SubmissionInv
<1>1. /\ pc = "mark" /\ pc' = "idle" /\ intent' = [intent EXCEPT ![op] = "superseded"]
      /\ UNCHANGED <<log, submitted, height, saved, acting>>
  BY DEF Mark, At, Idle, world
<1>2. op \in Ids /\ intent[op] # "none" /\ draft = saved[op] /\ Late(View, draft)
  BY <1>1 DEF RequestSound
<1>3. View' = View
  BY <1>1 DEF View
<1>4. \A i \in Ids : intent'[i] = IF i = op THEN "superseded" ELSE intent[i]
  BY <1>1 DEF TypeOK
<1>5. RowsTyped' /\ LogSound'
  BY <1>1 DEF RowsTyped, LogSound
<1>6. RowsSound'
  BY <1>1, <1>2, <1>3, <1>4 DEF RowsSound
<1>7. SentIsSaved'
  <2>1. \A c \in submitted : c.id \in Ids
    BY DEF LogSound, OwnCommands
  <2> QED BY <1>1, <1>4, <2>1 DEF RecordsAreTrue, SentIsSaved
<1>8. CommittedIsApplied' /\ OneInFlight'
  BY <1>1, <1>4 DEF RecordsAreTrue, CommittedIsApplied, OneInFlight
<1>9. RequestSound'
  BY <1>1 DEF RequestSound
<1> QED BY <1>5, <1>6, <1>7, <1>8, <1>9 DEF RecordsAreTrue

\* options() switches the account only when nothing is in flight.
LEMMA ActForKeeps ==
  ASSUME SubmissionInv, TypeOK', NEW a \in Actors, ActFor(a)
  PROVE  SubmissionInv'
<1> USE DEF SubmissionInv
<1>1. /\ pc = "idle" /\ acting' = a /\ (a # acting => NothingPending)
      /\ UNCHANGED <<log, submitted, height, intent, saved, pc>>
  BY DEF ActFor, At, world, request
<1>2. View' = View
  BY <1>1 DEF View
<1>3. RowsTyped' /\ RowsSound' /\ LogSound' /\ RequestSound'
  BY <1>1, <1>2 DEF RowsTyped, RowsSound, LogSound, RequestSound
<1>4. RecordsAreTrue'
  BY <1>1 DEF RecordsAreTrue, SentIsSaved, CommittedIsApplied, OneInFlight, NothingPending
<1> QED BY <1>3, <1>4

\* The clock, or no step at all.
LEMMA StutterKeeps ==
  ASSUME SubmissionInv, TypeOK', Tick \/ UNCHANGED vars
  PROVE  SubmissionInv'
<1>1. UNCHANGED <<log, height, submitted, intent, saved, acting>> /\ UNCHANGED request
  BY DEF Tick, vars, world, durable
<1>2. View' = View
  BY <1>1 DEF View
<1>3. RowsTyped' /\ RowsSound' /\ LogSound' /\ RecordsAreTrue'
  BY <1>1, TablesFrame
<1>4. RequestSound'
  BY <1>1, <1>2 DEF SubmissionInv, RequestSound, NothingPending, request
<1> QED BY <1>3, <1>4 DEF SubmissionInv

\* SubmissionInv is inductive.
LEMMA SubmissionInvInductive == SubmissionInv /\ [Next]_vars => SubmissionInv'
<1> SUFFICES ASSUME SubmissionInv, [Next]_vars PROVE SubmissionInv'
  OBVIOUS
<1>1. TypeOK'
  BY TypeStep
<1> QED BY <1>1, CertifyKeeps, LearnKeeps, StutterKeeps, RequestSteps, PersistKeeps,
           ProposeKeeps, MarkKeeps, ActForKeeps DEF Next

\* Every reachable state satisfies SubmissionInv.
LEMMA SubmissionInvHolds == Spec => []SubmissionInv
<1>1. Init => SubmissionInv
  <2> SUFFICES ASSUME Init PROVE SubmissionInv
    OBVIOUS
  <2>1. TypeOK
    BY SubmissionAssumption DEF Init, TypeOK
  <2> QED BY <2>1 DEF Init, SubmissionInv, RowsTyped, RowsSound, RequestSound, LogSound,
                      RecordsAreTrue, SentIsSaved, CommittedIsApplied, OneInFlight
<1> QED BY <1>1, SubmissionInvInductive, PTL DEF Spec

\* Type correctness of the intents table and of the request.
THEOREM SubmissionTypeCorrect == Spec => []TypeOK
BY SubmissionInvHolds, PTL DEF SubmissionInv

\* At every step of every thread and after any crash: nothing unsaved was sent,
\* a committed row was executed exactly as saved, one operation is in flight.
THEOREM RecordsStayTrue == Spec => []RecordsAreTrue
BY SubmissionInvHolds, PTL DEF SubmissionInv

\* An operation that is superseded and was not applied by then never is.
THEOREM RetirementIsFinal == Spec => RetiredForGood
<1>1. SubmissionInv /\ [Next]_vars =>
        [\A i \in Ids :
           (intent[i] = "superseded" /\ i \notin Operations(log))
             => i \notin Operations(log')]_vars
  <2> SUFFICES ASSUME SubmissionInv, [Next]_vars, NEW i \in Ids,
                      intent[i] = "superseded", i \notin Operations(log)
               PROVE  i \notin Operations(log')
    OBVIOUS
  <2>1. CASE log' = log
    BY <2>1
  <2>2. ASSUME NEW c \in submitted \cup Others, Certify(c) PROVE i \notin Operations(log')
    <3>1. /\ log \in Seq(Entry) /\ Applies(log, [ts |-> now, cmd |-> c])
          /\ log' = Append(log, [ts |-> now, cmd |-> c])
      BY <2>2 DEF Certify, SubmissionInv, TypeOK
    <3>2. c.id # i
      <4> SUFFICES ASSUME c.id = i PROVE FALSE
        OBVIOUS
      <4>1. c \in submitted
        BY SubmissionAssumption
      <4>2. c = saved[i] /\ c \in OwnCommands /\ Late(View, c)
        BY <4>1 DEF SubmissionInv, RecordsAreTrue, SentIsSaved, RowsSound
      <4>3. View \in Seq(Entry) /\ IsPrefixOf(View, log)
        BY ViewIsPrefix DEF SubmissionInv
      <4> QED BY <3>1, <4>2, <4>3, LateIsRefused
    <3>3. PICK e : e = [ts |-> now, cmd |-> c]
      OBVIOUS
    <3>4. log' = Append(log, e) /\ e.cmd.id # i
      BY <3>1, <3>2, <3>3
    <3> HIDE <3>3
    <3>5. \A k \in DOMAIN log' : log'[k] = e \/ \E j \in DOMAIN log : log'[k] = log[j]
      BY <3>1, <3>4
    <3> QED BY <3>4, <3>5 DEF Operations
  <2>3. log' = log \/ \E c \in submitted \cup Others : Certify(c)
    BY DEF Next, Learn, Tick, Crash, Begin, CheckPrior, CheckNew, Persist, Propose, ProposeOther,
           ProposeFails, OrderChanged, Certified, BeginResume, ResumeCertified, ReadPending,
           Decide, Mark, ActFor, vars, world
  <2> QED BY <2>1, <2>2, <2>3
<1> QED BY <1>1, SubmissionInvHolds, PTL DEF Spec, RetiredForGood
=============================================================================
