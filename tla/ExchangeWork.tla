---------------------------- MODULE ExchangeWork ---------------------------
(***************************************************************************)
(* The work a node does for others: model rulings of a judge (Exchange     *)
(* judge, _judge) and registry receipts of a witness (work_receipt,        *)
(* _work_receipt) of rynmesh/exchange/service.py, with the tables work,    *)
(* work_clock and attempts and the functions attempt, cache_work and       *)
(* prune_work of rynmesh/exchange/ledger.py.                               *)
(*                                                                         *)
(* Requests run in threads.  A judge request that finds judge_lock taken   *)
(* is refused, a witness request waits for work_lock.  Blocks are          *)
(* committed by other threads in between (CaseCloses, Rewarded), and each  *)
(* commit prunes the tables.                                               *)
(***************************************************************************)
EXTENDS Integers, Sequences, FiniteSets

CONSTANTS Threads,     \* threads that serve peer requests
          Cases,       \* case payloads this node is on the panel of
          Shares,      \* what the model may answer
          Providers,   \* nodes that ask for a registry receipt
          Jobs,        \* job ids they name
          AttemptLimit,\* 3
          Expiry,      \* 600 seconds
          MaxClock     \* bound of the clock

None     == "none"
NoRuling == -1

VARIABLES phase,      \* phase[c]: "future", "open" (disputed, both statements in) or "over"
          rewarded,   \* providers that have their reward, as known here
          clock,
          ruling,     \* work rows "case:...": the stored share or NoRuling
          receipt,    \* work rows "work:...": the job the receipt is for, or None
          cachedAt,   \* work_clock
          attempts,   \* attempts.count of a case or a provider
          triedAt,    \* attempts.created
          judging,    \* the thread that holds judge_lock, or None
          witness,    \* the thread that holds work_lock, or None
          task,       \* what each thread is doing
          sentRulings, sentReceipts, generated, probes   \* history variables

tables  == <<ruling, receipt, cachedAt, attempts, triedAt>>
history == <<sentRulings, sentReceipts, generated, probes>>
vars    == <<phase, rewarded, clock, tables, judging, witness, task, history>>

NoTask == [at |-> "idle", item |-> None, job |-> None, share |-> NoRuling]

Init ==
  /\ phase = [c \in Cases |-> "future"] /\ rewarded = {} /\ clock = 0
  /\ ruling   = [c \in Cases |-> NoRuling]
  /\ receipt  = [p \in Providers |-> None]
  /\ cachedAt = [p \in Providers |-> 0]
  /\ attempts = [x \in Cases \cup Providers |-> 0]
  /\ triedAt  = [x \in Cases \cup Providers |-> 0]
  /\ judging = None /\ witness = None
  /\ task = [t \in Threads |-> NoTask]
  /\ sentRulings = {} /\ sentReceipts = {}
  /\ generated = [c \in Cases |-> 0]
  /\ probes = [p \in Providers |-> << >>]

Do(t, place, x, j, s) ==
  task' = [task EXCEPT ![t] = [at |-> place, item |-> x, job |-> j, share |-> s]]
Done(t) == task' = [task EXCEPT ![t] = NoTask]

----------------------------------------------------------------------------
\* A receipt older than Expiry.
Stale(p) == cachedAt[p] < clock - Expiry

\* prune_work(): what it keeps of the tables when the node knows the cases in
\* phases ph and the rewards rw.
Pruned(ph, rw) ==
  [ruling   |-> [c \in Cases |-> IF ph[c] = "open" THEN ruling[c] ELSE NoRuling],
   receipt  |-> [p \in Providers |-> IF p \in rw \/ Stale(p) THEN None ELSE receipt[p]],
   attempts |-> [x \in Cases \cup Providers |->
                   IF \/ x \in Cases /\ ph[x] # "open"
                      \/ x \in Providers /\ (x \in rw \/ triedAt[x] < clock - Expiry)
                   THEN 0 ELSE attempts[x]]]

\* Ledger.commit prunes against the state it has just computed.
Committed ==
  LET now == Pruned(phase', rewarded')
  IN  /\ ruling' = now.ruling /\ receipt' = now.receipt /\ attempts' = now.attempts
      /\ UNCHANGED <<cachedAt, triedAt, clock, judging, witness, task, history>>

\* A commit opens a case: the second statement is in the log.
CaseOpens(c) ==
  /\ phase[c] = "future"
  /\ phase' = [phase EXCEPT ![c] = "open"] /\ UNCHANGED rewarded
  /\ Committed

\* A commit ends a case: ruled, timed out or refunded.
CaseCloses(c) ==
  /\ phase[c] = "open"
  /\ phase' = [phase EXCEPT ![c] = "over"] /\ UNCHANGED rewarded
  /\ Committed

\* A commit rewards a provider.
Rewarded(p) ==
  /\ p \notin rewarded
  /\ rewarded' = rewarded \cup {p} /\ UNCHANGED phase
  /\ Committed

\* sync(), and a witness request that is refused or answered from the cache,
\* change nothing but what prune_work() removes.
Sync == UNCHANGED <<phase, rewarded>> /\ Committed

Tick ==
  /\ clock < MaxClock /\ clock' = clock + 1
  /\ UNCHANGED <<phase, rewarded, tables, judging, witness, task, history>>

\* A restart ends the requests and their locks.
Crash ==
  /\ \E t \in Threads : task[t] # NoTask
  /\ task' = [t \in Threads |-> NoTask]
  /\ judging' = None /\ witness' = None
  /\ UNCHANGED <<phase, rewarded, clock, tables, history>>

----------------------------------------------------------------------------
NoLock(holder) == TRUE

\* The lock is not held.
Free(holder) == holder = None

Unlimited(n) == TRUE

\* attempt(): fewer than AttemptLimit are on record.
AttemptLeft(n) == n < AttemptLimit

\* attempt(): the row of x in the table is counted up, or created now.
Attempt(x, table) ==
  /\ AttemptLeft(table[x])
  /\ attempts' = [table EXCEPT ![x] = @ + 1]
  /\ triedAt' = [triedAt EXCEPT ![x] = IF table[x] = 0 THEN clock ELSE @]

\* _judge up to the model: it prunes, then returns the stored ruling of the case
\* or spends an attempt.
JudgeRequest(t, c) ==
  LET now == Pruned(phase, rewarded)
  IN  /\ task[t] = NoTask
      /\ Free(judging)
      /\ phase[c] = "open"
      /\ ruling' = now.ruling /\ receipt' = now.receipt
      /\ \/ /\ now.ruling[c] # NoRuling
            /\ sentRulings' = sentRulings \cup {<<c, now.ruling[c]>>}
            /\ attempts' = now.attempts
            /\ UNCHANGED <<triedAt, judging, task>>
         \/ /\ now.ruling[c] = NoRuling
            /\ Attempt(c, now.attempts)
            /\ judging' = t
            /\ Do(t, "generate", c, None, NoRuling)
            /\ UNCHANGED sentRulings
      /\ UNCHANGED <<phase, rewarded, clock, cachedAt, witness,
                     sentReceipts, generated, probes>>

\* The model answers with a share, or not usably (exchange_model_uncertain).
Generate(t) ==
  LET c == task[t].item
  IN  /\ task[t].at = "generate"
      /\ generated' = [generated EXCEPT ![c] = @ + 1]
      /\ \/ \E s \in Shares : Do(t, "store", c, None, s) /\ UNCHANGED judging
         \/ Done(t) /\ judging' = None
      /\ UNCHANGED <<phase, rewarded, clock, tables, witness,
                     sentRulings, sentReceipts, probes>>

\* INSERT OR IGNORE of the signed ruling, which is then returned.
StoreRuling(t) ==
  LET c == task[t].item
  IN  /\ task[t].at = "store"
      /\ ruling' = [ruling EXCEPT ![c] = IF @ = NoRuling THEN task[t].share ELSE @]
      /\ sentRulings' = sentRulings \cup {<<c, task[t].share>>}
      /\ judging' = None
      /\ Done(t)
      /\ UNCHANGED <<phase, rewarded, clock, receipt, cachedAt, attempts, triedAt, witness,
                     sentReceipts, generated, probes>>

\* _work_receipt up to the challenge: it prunes, then returns the cached receipt
\* of the same job, refuses another job, or spends an attempt.
WorkRequest(t, p, j) ==
  LET now == Pruned(phase, rewarded)
  IN  /\ task[t] = NoTask
      /\ Free(witness)
      /\ p \notin rewarded
      /\ now.receipt[p] = None
      /\ Attempt(p, now.attempts)
      /\ ruling' = now.ruling /\ receipt' = now.receipt
      /\ witness' = t
      /\ Do(t, "challenge", p, j, NoRuling)
      /\ probes' = [probes EXCEPT ![p] = Append(@, clock)]
      /\ UNCHANGED <<phase, rewarded, clock, cachedAt, judging,
                     sentRulings, sentReceipts, generated>>

\* The provider answers the challenge and the receipt is cached and returned,
\* or it does not answer.
Challenge(t) ==
  LET p == task[t].item
  IN  /\ task[t].at = "challenge"
      /\ witness' = None
      /\ Done(t)
      /\ \/ /\ receipt' = [receipt EXCEPT ![p] = IF @ = None THEN task[t].job ELSE @]
            /\ cachedAt' = [cachedAt EXCEPT ![p] = IF receipt[p] = None THEN clock ELSE @]
            /\ sentReceipts' = sentReceipts \cup {[p |-> p, job |-> task[t].job, at |-> clock]}
         \/ UNCHANGED <<receipt, cachedAt, sentReceipts>>
      /\ UNCHANGED <<phase, rewarded, clock, ruling, attempts, triedAt, judging,
                     sentRulings, generated, probes>>

Next ==
  \/ \E c \in Cases : CaseOpens(c) \/ CaseCloses(c)
  \/ \E p \in Providers : Rewarded(p)
  \/ Sync \/ Tick \/ Crash
  \/ \E t \in Threads :
       \/ \E c \in Cases : JudgeRequest(t, c)
       \/ Generate(t) \/ StoreRuling(t) \/ Challenge(t)
       \/ \E p \in Providers, j \in Jobs : WorkRequest(t, p, j)

Spec == Init /\ [][Next]_vars

----------------------------------------------------------------------------
\* A judge never answers one case with two different rulings, whatever the
\* order of requests, restarts and commits: parties cannot shop for a share.
OneRulingPerCase ==
  \A x, y \in sentRulings : x[1] = y[1] => x = y

\* The model is run at most AttemptLimit times for one case, across restarts and
\* across the pruning that other commits trigger.
BoundedModelRuns == \A c \in Cases : generated[c] <= AttemptLimit

\* A witness signs receipts for two different jobs of one provider only when
\* more than Expiry lies between them.
OneJobAtATime ==
  \A x, y \in sentReceipts :
    (x.p = y.p /\ x.job # y.job /\ x.at <= y.at) => y.at - x.at > Expiry

\* A provider is probed at most AttemptLimit times from one reset of its row to
\* the next, so never more than twice that often in any span of Expiry.
BoundedProbing ==
  \A p \in Providers : \A n \in 1..(Len(probes[p]) - 2 * AttemptLimit) :
    probes[p][n + 2 * AttemptLimit] - probes[p][n] > Expiry
=============================================================================
