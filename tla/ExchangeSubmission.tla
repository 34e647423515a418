------------------------ MODULE ExchangeSubmission -------------------------
(***************************************************************************)
(* How one node submits its owner's operations: Exchange.action, resume,   *)
(* options, proposal and _certify of rynmesh/exchange/service.py, over the *)
(* intents table of rynmesh/exchange/ledger.py.                            *)
(*                                                                         *)
(* Every HTTP request runs in a thread of its own.  action, resume and     *)
(* options hold submission_lock, so one of them runs at a time: pc is its  *)
(* program counter.  The peer routes and "refresh" do not take that lock:  *)
(* they commit blocks (Learn) between any two of its steps.                *)
(*                                                                         *)
(* The log is the single log of ExchangeLog; the node has learnt a prefix  *)
(* of it.  Validators certify any command that reached one of them and     *)
(* applies, whoever carries the certificate (Certify).                     *)
(***************************************************************************)
EXTENDS ExchangeRules

CONSTANTS Ids,          \* operation ids the owner uses on this node
          Actors,       \* accounts this node may act for
          OwnOrders,    \* orders the owner acts on, or NoOrder
          Closes,       \* deadlines of the owner's commands
          Others,       \* commands of other devices and counterparties
          Tries,        \* attempts of one action() call, 3
          MaxClock, MaxCrashes   \* bounds

ASSUME SubmissionAssumption ==
  /\ Others \subseteq Commands /\ \A c \in Others : c.id \notin Ids
  /\ Tries \in Nat \ {0} /\ Closes \subseteq Nat
  /\ MaxClock \in Nat /\ MaxCrashes \in Nat

\* What action() may sign here: prepare() checks the reviewed order, and no
\* nonce or order context exceeds the length of the log.
OwnCommands ==
  [id : Ids, actor : Actors, nonce : 1..MaxOperations, order : OwnOrders,
   reviewed : 0..MaxOperations, opens : {0}, closes : Closes]

ASSUME OwnCommandsAssumption == OwnCommands \subseteq Commands

NoCommand == [id |-> "none"]

VARIABLES log,        \* the certified log
          height,     \* how much of it this node has committed
          submitted,  \* own commands that reached a validator
          now,        \* the clock
          intent,     \* intents.status by operation id, "none" without a row
          saved,      \* intents.command by operation id
          acting,     \* settings.acting_for
          pc, mode,   \* the request that holds submission_lock, and its place
          op, prior,  \* its operation id and the status it read at its start
          draft,      \* the signed command it carries
          tries,      \* its remaining attempts
          crashes

durable == <<intent, saved, acting>>
request == <<pc, mode, op, prior, draft, tries>>
world   == <<log, submitted, now>>
vars    == <<world, height, durable, request, crashes>>

View == SubSeq(log, 1, height)

Init ==
  /\ log = << >> /\ height = 0 /\ submitted = {} /\ now = 0 /\ crashes = 0
  /\ intent = [i \in Ids |-> "none"]
  /\ saved  = [i \in Ids |-> NoCommand]
  /\ acting \in Actors
  /\ pc = "idle" /\ mode = "none" /\ op = "none" /\ prior = "none"
  /\ draft = NoCommand /\ tries = 0

\* The request returns or raises; its lock is released.
Idle ==
  /\ pc' = "idle" /\ mode' = "none" /\ op' = "none" /\ prior' = "none"
  /\ draft' = NoCommand /\ tries' = 0

At(place) == pc = place
Goto(place) == pc' = place /\ UNCHANGED <<mode, op, prior, draft, tries>>

AlwaysFree == TRUE

\* not self.ledger.intents()
NothingPending == \A i \in Ids : intent[i] # "pending"

----------------------------------------------------------------------------
\* Validators certify a command (ExchangeLedger).
Certify(c) ==
  /\ Applies(log, [ts |-> now, cmd |-> c])
  /\ log' = Append(log, [ts |-> now, cmd |-> c])
  /\ UNCHANGED <<submitted, now, height, durable, request, crashes>>

RecordedByNonce(e) ==
  [i \in Ids |-> IF intent[i] # "none" /\ saved[i].actor = e.cmd.actor
                    /\ saved[i].nonce = e.cmd.nonce THEN "committed" ELSE intent[i]]

\* The intents table after block e is stored: the row of its operation id.
Recorded(e) ==
  [i \in Ids |-> IF i = e.cmd.id /\ intent[i] # "none" THEN "committed" ELSE intent[i]]

\* Ledger.commit of the next block, by sync(), _certify() or a peer's request.
Learn ==
  /\ height < Len(log)
  /\ height' = height + 1
  /\ intent' = Recorded(log[height + 1])
  /\ UNCHANGED <<world, saved, acting, request, crashes>>

Tick ==
  /\ now < MaxClock /\ now' = now + 1
  /\ UNCHANGED <<log, submitted, height, durable, request, crashes>>

\* The process stops and restarts: rows survive, the request does not.
Crash ==
  /\ crashes < MaxCrashes /\ ~At("idle")
  /\ crashes' = crashes + 1
  /\ Idle
  /\ UNCHANGED <<world, height, durable>>

----------------------------------------------------------------------------
\* action(): reads the saved intent, then synchronises.
Begin(i) ==
  /\ At("idle")
  /\ pc' = "check" /\ mode' = "action" /\ op' = i /\ prior' = intent[i] /\ tries' = Tries
  /\ UNCHANGED <<world, height, durable, draft, crashes>>

ReSigned(i) == [saved[i] EXCEPT !.nonce = NonceAfter(View, acting) + 1]

\* json.loads(prior[1]): the exact signed original.
Original(i) == saved[i]

\* action() for an operation that has a row.
CheckPrior ==
  /\ At("check") /\ prior # "none"
  /\ IF prior = "superseded" \/ saved[op].actor # acting \/ op \in Operations(View)
     THEN Idle
     ELSE pc' = "propose" /\ draft' = Original(op) /\ UNCHANGED <<mode, op, prior, tries>>
  /\ UNCHANGED <<world, height, durable, crashes>>

SendFirst == "propose"

\* The row is written before anything is sent.
AfterSigning == "persist"

\* action() for a new operation: prepare, sign against the learnt state, apply.
CheckNew ==
  /\ At("check") /\ prior = "none"
  /\ UNCHANGED <<world, height, durable, crashes>>
  /\ \/ Idle   \* another intent is pending, or prepare() or apply() refuses
     \/ /\ NothingPending
        /\ \E o \in OwnOrders, x \in Closes :
             LET c == [id |-> op, actor |-> acting, nonce |-> NonceAfter(View, acting) + 1,
                       order |-> o,
                       reviewed |-> IF o = NoOrder THEN 0 ELSE ContextAfter(View, o),
                       opens |-> 0, closes |-> x]
             IN  /\ Applies(View, [ts |-> now, cmd |-> c])
                 /\ draft' = c
        /\ pc' = AfterSigning
        /\ UNCHANGED <<mode, op, prior, tries>>

Persist ==
  /\ At("persist")
  /\ intent' = [intent EXCEPT ![op] = "pending"]
  /\ saved'  = [saved EXCEPT ![op] = draft]
  /\ Goto("propose")
  /\ UNCHANGED <<world, height, acting, crashes>>

\* proposal(): the leader of the next height stores the command.
Propose ==
  /\ At("propose")
  /\ Applies(log, [ts |-> now, cmd |-> draft])
  /\ submitted' = submitted \cup {draft}
  /\ Goto("certify")
  /\ UNCHANGED <<log, now, height, durable, crashes>>

\* proposal(): the leader answers with the proposal it already had.
ProposeOther ==
  /\ At("propose")
  /\ Goto("certify")
  /\ UNCHANGED <<world, height, durable, crashes>>

\* proposal(): the leader cannot be reached, or refuses for another reason.
ProposeFails ==
  /\ At("propose")
  /\ Idle
  /\ UNCHANGED <<world, height, durable, crashes>>

\* proposal() when this node leads: apply() raises exchange_order_changed, and
\* after another sync() the operation is not found in the state.
OrderChanged ==
  /\ At("propose") /\ mode = "action"
  /\ op \notin Operations(View)
  /\ NonceIsNext(View, draft)
  /\ draft.order # NoOrder /\ draft.reviewed # ContextAfter(View, draft.order)
  /\ Goto("mark")
  /\ UNCHANGED <<world, height, durable, crashes>>

AnyTries == mode = "action"
TriesLeft == mode = "action" /\ tries > 1

\* _certify() has ended: the operation is in the state, or the height was lost
\* to another command and action() tries again, or the request gives up.
Certified ==
  /\ At("certify")
  /\ UNCHANGED <<world, height, durable, crashes>>
  /\ \/ Idle
     \/ /\ op \notin Operations(View)
        /\ TriesLeft
        /\ pc' = "propose" /\ tries' = tries - 1
        /\ UNCHANGED <<mode, op, prior, draft>>

----------------------------------------------------------------------------
\* resume(): synchronises and tries the proposals that validators still hold.
BeginResume ==
  /\ At("idle")
  /\ pc' = "pending" /\ mode' = "resume"
  /\ UNCHANGED <<world, height, durable, op, prior, draft, tries, crashes>>

\* A proposal of someone was certified: resume() is done.
ResumeCertified ==
  /\ At("pending")
  /\ Idle
  /\ UNCHANGED <<world, height, durable, crashes>>

\* resume(): pending = self.ledger.intents()
ReadPending ==
  /\ At("pending")
  /\ \E i \in Ids :
       /\ intent[i] = "pending"
       /\ pc' = "decide" /\ op' = i /\ draft' = saved[i] /\ tries' = 1
  /\ UNCHANGED <<world, height, durable, mode, prior, crashes>>

NextNonceTaken(c) == c.nonce <= NonceAfter(View, c.actor) + 1

NonceSpent(c) == c.nonce <= NonceAfter(View, c.actor)

\* The nonce was spent or the reviewed order changed.
Overtaken(c) ==
  \/ c.nonce <= NonceAfter(View, c.actor)
  \/ c.order # NoOrder /\ c.reviewed # ContextAfter(View, c.order)

\* resume(): compares the saved command with the state as it is now.
Decide ==
  /\ At("decide")
  /\ Goto(IF Overtaken(draft) THEN "mark" ELSE "propose")
  /\ UNCHANGED <<world, height, durable, crashes>>

\* UPDATE intents SET status='superseded' WHERE id=?
Mark ==
  /\ At("mark")
  /\ intent' = [intent EXCEPT ![op] = "superseded"]
  /\ Idle
  /\ UNCHANGED <<world, height, saved, acting, crashes>>

\* options(): switch the account this node acts for.
ActFor(a) ==
  /\ At("idle")
  /\ a # acting => NothingPending
  /\ acting' = a
  /\ UNCHANGED <<world, height, intent, saved, request, crashes>>

----------------------------------------------------------------------------
Next ==
  \/ \E c \in submitted \cup Others : Certify(c)
  \/ Learn \/ Tick \/ Crash
  \/ \E i \in Ids : Begin(i)
  \/ CheckPrior \/ CheckNew \/ Persist
  \/ Propose \/ ProposeOther \/ ProposeFails \/ OrderChanged \/ Certified
  \/ BeginResume \/ ResumeCertified \/ ReadPending \/ Decide \/ Mark
  \/ \E a \in Actors : ActFor(a)

Spec == Init /\ [][Next]_vars

\* Requests end, blocks spread, validators certify what they hold; the owner
\* keeps pressing "Resume saved operations", and resume() gets to the saved
\* intent and to a reachable leader again and again.
Fairness ==
  /\ WF_vars(CheckPrior \/ CheckNew \/ Persist \/ Decide \/ Mark \/ Certified)
  /\ SF_vars(Learn)   \* every resume() starts with sync()
  /\ \A i \in Ids : WF_vars(\E c \in submitted : c.id = i /\ Certify(c))
  /\ SF_vars(BeginResume) /\ SF_vars(ReadPending) /\ SF_vars(Propose)
  /\ WF_vars(ProposeFails)

FairSpec == Spec /\ Fairness

----------------------------------------------------------------------------
\* Type invariant.
TypeOK ==
  /\ log \in Seq(Entry) /\ height \in 0..Len(log) /\ now \in 0..MaxClock
  /\ intent \in [Ids -> {"none", "pending", "committed", "superseded"}]
  /\ acting \in Actors
  /\ pc \in {"idle", "check", "persist", "propose", "certify", "pending", "decide", "mark"}
  /\ tries \in 0..Tries
  /\ pc \in {"propose", "certify", "decide", "mark"} => tries > 0
  /\ \A i \in Ids : intent[i] = "none" <=> saved[i] = NoCommand

\* A superseded operation was not applied and never will be: "This saved
\* operation was not applied" (webapp, exchange_operation_superseded) and "A
\* superseded intent did not execute" (docs/EXCHANGE_ALPHA.md).
SupersededNotApplied ==
  \A i \in Ids : intent[i] = "superseded" => i \notin Operations(log)

\* An operation that is superseded and not applied never will be: resume() does
\* not retire a command that a validator may still have certified, so the owner
\* may submit it again under a new operation id.
RetiredForGood ==
  [][\A i \in Ids :
       (intent[i] = "superseded" /\ i \notin Operations(log)) => i \notin Operations(log')]_vars

\* Whatever is sent to a validator is the command saved under its operation id:
\* a crash after sending finds the original, and no retry or resume signs the
\* operation again with another nonce or context.
SentIsSaved ==
  \A c \in submitted : intent[c.id] # "none" /\ saved[c.id] = c

\* A committed intent was executed, with exactly the saved command.
CommittedIsApplied ==
  \A i \in Ids :
    intent[i] = "committed" => \E k \in 1..height : log[k].cmd = saved[i]

\* The node never has two operations in flight, and the one it has belongs to
\* the account it acts for: no two saved operations compete for one nonce.
OneInFlight ==
  \A i, j \in Ids :
    intent[i] = "pending" => /\ saved[i].actor = acting
                             /\ intent[j] = "pending" => i = j

\* What the node believes of its operations is true at every step of any of its
\* threads and after any crash: nothing unsaved was ever sent, what it calls committed
\* was executed as saved, and one operation is in flight (submit, resume, _record).
RecordsAreTrue == SentIsSaved /\ CommittedIsApplied /\ OneInFlight

\* A saved operation is committed or superseded in the end: the owner who
\* follows "Resume the saved operation before submitting another mutation from
\* this node" (webapp, exchange_pending_required) can submit again.
PendingResolves ==
  \A i \in Ids : intent[i] = "pending" ~> intent[i] \in {"committed", "superseded"}
=============================================================================
