-------------------------- MODULE ExchangeLedger ---------------------------
(***************************************************************************)
(* The fixed-roster approval log: rynmesh/exchange/ledger.py (Ledger.vote, *)
(* Ledger._verify, Ledger.commit, the replay of Ledger.__init__) and the   *)
(* proposer of rynmesh/exchange/service.py (leader_propose).               *)
(*                                                                         *)
(* A proposal names its parent by hash, so it is identified by its whole   *)
(* history: a proposal for height h is the sequence of the h entries up to *)
(* and including its own.  << >> stands for an absent database row.        *)
(*                                                                         *)
(* Messages.  Signed proposals and votes are never retracted, and any node *)
(* may ask for them again or never hear of them: loss, delay, duplication  *)
(* and reordering are all covered by letting a step use whatever has been  *)
(* signed so far (Signed, Voters).  Byzantine validators sign everything.  *)
(*                                                                         *)
(* Crashes.  Every variable but the clock is a SQLite row written in the   *)
(* transaction of its action, and the in-memory state, height and head are *)
(* functions of the blocks table; a crash loses nothing of it, provided    *)
(* the replay of the stored certificates succeeds (ReplaySucceeds).        *)
(***************************************************************************)
EXTENDS ExchangeRules

CONSTANTS Roster,      \* config["validators"], in proposer order
          Observers,   \* nodes that are not validators (owners, judges)
          Byzantine,   \* validators that violate the rules
          ClockSkew,   \* CLOCK_SKEW
          MaxClock     \* bound on the local clocks

Validators == {Roster[i] : i \in DOMAIN Roster}
Honest     == (Validators \cup Observers) \ Byzantine
Heights    == 1..MaxOperations

ASSUME RosterAssumption ==
  /\ Roster \in Seq(Validators)
  /\ Len(Roster) > 0
  /\ \A i, j \in DOMAIN Roster : Roster[i] = Roster[j] => i = j
ASSUME ObserversAssumption == Observers \cap Validators = {}
ASSUME ClockAssumption == ClockSkew \in Nat /\ MaxClock \in Nat
\* The documented fault bound: fewer than one third of the roster.
ASSUME ByzantineAssumption ==
  /\ Byzantine \subseteq Validators
  /\ 3 * Cardinality(Byzantine) < Len(Roster)

VARIABLES chain,      \* chain[n]: the blocks table of node n
          lock,       \* lock[n][h]: the votes table, the proposal n voted for
          proposed,   \* proposed[n][h]: the proposals table of a leader
          clock,      \* clock[n]: the local clock of node n
          castAt      \* castAt[n][h]: history variable, n's clock when it voted

vars == <<chain, lock, proposed, clock, castAt>>

TwoThirds == (Len(Roster) * 2) \div 3

\* quorum(config): more than two thirds of the roster.
Quorum == (Len(Roster) * 2) \div 3 + 1

\* The proposer of height h.
Leader(h) == Roster[((h - 1) % Len(Roster)) + 1]

\* p carries a valid proposer signature.
Signed(p) == \/ Leader(Len(p)) \in Byzantine
             \/ Leader(Len(p)) \in Honest /\ proposed[Leader(Len(p))][Len(p)] = p

\* The validators whose approval of p can be shown.
Voters(p) == {v \in Validators : v \in Byzantine \/ lock[v][Len(p)] = p}

Certified(p) == Cardinality(Voters(p)) >= Quorum

Init ==
  /\ chain    = [n \in Honest |-> << >>]
  /\ lock     = [n \in Honest |-> [h \in Heights |-> << >>]]
  /\ proposed = [n \in Honest |-> [h \in Heights |-> << >>]]
  /\ clock    = [n \in Honest |-> 0]
  /\ castAt   = [n \in Honest |-> [h \in Heights |-> 0]]

AnyRow(n, h) == TRUE

\* votes has no row for height h.
Unlocked(n, h) == lock[n][h] = << >>

\* proposals has no row for height h.
Unproposed(n, h) == proposed[n][h] = << >>

ProposeParent(n, c) ==
  LET h == Len(chain[n]) + 1
  IN  /\ Leader(h) = n
      /\ Unproposed(n, h)
      /\ Applies(chain[n], [ts |-> clock[n], cmd |-> c])
      /\ proposed' = [proposed EXCEPT ![n][h] = chain[n]]
      /\ UNCHANGED <<chain, lock, clock, castAt>>

\* leader_propose: the leader of the next height answers a command with the
\* proposal it stored for that height, and stores one if there is none.  Its
\* preceding sync() is a series of Commit steps of the same node.
LeaderPropose(n, c) ==
  LET h == Len(chain[n]) + 1
      t == TimeAfter(chain[n])
      e == [ts |-> IF clock[n] > t THEN clock[n] ELSE t, cmd |-> c]
  IN  /\ Applies(chain[n], e)
      /\ Leader(h) = n
      /\ Unproposed(n, h)
      /\ proposed' = [proposed EXCEPT ![n][h] = Append(chain[n], e)]
      /\ UNCHANGED <<chain, lock, clock, castAt>>

\* Ledger.vote: a first vote, stored before it is returned.  A height that has
\* a vote keeps it; asking again returns it (no change) or fails.
Vote(n, e) ==
  LET p == Append(chain[n], e)
  IN  /\ n \in Validators
      /\ Applies(chain[n], e)
      /\ Signed(p)
      /\ Unlocked(n, Len(p))
      /\ e.ts - clock[n] <= ClockSkew
      /\ clock[n] - e.ts <= ClockSkew
      /\ VoteDeadlines(e, clock[n])
      /\ lock'   = [lock   EXCEPT ![n][Len(p)] = p]
      /\ castAt' = [castAt EXCEPT ![n][Len(p)] = clock[n]]
      /\ UNCHANGED <<chain, proposed, clock>>

\* Ledger.commit of a new height: the certificate is verified (_verify) without
\* a clock, and the block stored.
Commit(n, e) ==
  LET p == Append(chain[n], e)
  IN  /\ Applies(chain[n], e)
      /\ Signed(p)
      /\ Certified(p)
      /\ chain' = [chain EXCEPT ![n] = p]
      /\ UNCHANGED <<lock, proposed, clock, castAt>>

Tick(n) ==
  /\ clock[n] < MaxClock
  /\ clock' = [clock EXCEPT ![n] = @ + 1]
  /\ UNCHANGED <<chain, lock, proposed, castAt>>

\* A timestamp further ahead than any clock can reach is never voted for.
Timestamps == 0..(MaxClock + ClockSkew)
Proposable == [ts : Timestamps, cmd : Commands]

Next == \E n \in Honest :
          \/ \E c \in Commands : LeaderPropose(n, c)
          \/ \E e \in Proposable : Vote(n, e)
          \/ \E e \in Proposable : Commit(n, e)
          \/ Tick(n)

Spec == Init /\ [][Next]_vars

----------------------------------------------------------------------------
\* The owners keep pressing "Resume saved operations": resume() gathers the
\* pending proposals of every validator, asks every validator for its vote,
\* commits and offers the certificate to everyone.  Clocks run.
Fairness == \A n \in Honest :
              /\ WF_vars(\E e \in Proposable : Vote(n, e))
              /\ WF_vars(\E e \in Proposable : Commit(n, e))
              /\ WF_vars(Tick(n))

FairSpec == Spec /\ Fairness

----------------------------------------------------------------------------
\* Type invariant of the database tables: the height under which a block, vote
\* or proposal is stored is the height it is for.
TypeOK ==
  /\ chain    \in [Honest -> Seq(Entry)]
  /\ lock     \in [Honest -> [Heights -> Seq(Entry)]]
  /\ proposed \in [Honest -> [Heights -> Seq(Entry)]]
  /\ clock    \in [Honest -> Nat]
  /\ castAt   \in [Honest -> [Heights -> Nat]]
  /\ \A n \in Honest : Len(chain[n]) <= MaxOperations
  /\ \A n \in Honest, h \in Heights : Len(lock[n][h]) \in {0, h}
  /\ \A n \in Honest, h \in Heights : Len(proposed[n][h]) \in {0, h}

\* The first h entries of p.
Prefix(p, h) == SubSeq(p, 1, h)

\* No two nodes that follow the rules ever hold different blocks at the same
\* height, whatever up to a third of the validators sign, whichever messages
\* are lost and whichever node is restarted: the "exchange_fork" refusal of
\* Ledger.commit is never met.
Agreement ==
  \A n, m \in Honest :
    Len(chain[n]) <= Len(chain[m]) => chain[n] = Prefix(chain[m], Len(chain[n]))

\* Ledger.__init__ replays every stored certificate through _verify and raises
\* "exchange_log_corrupt" or a rule's error if one no longer passes.  It never
\* does, whatever was signed and proposed after the block was stored.
ReplaySucceeds ==
  \A n \in Honest : \A h \in 1..Len(chain[n]) :
    /\ Signed(Prefix(chain[n], h))
    /\ Certified(Prefix(chain[n], h))
    /\ Applies(Prefix(chain[n], h - 1), chain[n][h])

\* A certified block was approved, inside the action's deadlines and within
\* ClockSkew of its timestamp, by the clock of a validator that follows the
\* rules: no quorum with faulty members reopens an expired window or settles
\* before a deadline (vote_deadlines and the freshness check of Ledger.vote).
TimelyApproval ==
  \A n \in Honest : \A h \in 1..Len(chain[n]) :
    \E v \in Validators \ Byzantine :
      /\ lock[v][h] = Prefix(chain[n], h)
      /\ chain[n][h].cmd.opens <= castAt[v][h]
      /\ castAt[v][h] < chain[n][h].cmd.closes
      /\ chain[n][h].ts - castAt[v][h] <= ClockSkew
      /\ castAt[v][h] - chain[n][h].ts <= ClockSkew

\* Two devices of one account, or a retry under a new operation id, cannot
\* both spend the account's next nonce anywhere in the network.
NoDoubleSpend ==
  \A n, m \in Honest : \A i \in 1..Len(chain[n]), j \in 1..Len(chain[m]) :
    LET c == chain[n][i].cmd
        d == chain[m][j].cmd
    IN  (c.actor = d.actor /\ c.nonce = d.nonce) => i = j /\ c = d

\* Durable locks: no step of a node erases or replaces its block, its vote or
\* its proposal for a height.
LocksAreDurable ==
  [][\A n \in Honest :
       /\ Len(chain[n]) <= Len(chain'[n])
       /\ Prefix(chain'[n], Len(chain[n])) = chain[n]
       /\ \A h \in Heights :
            /\ lock[n][h] # << >> => lock'[n][h] = lock[n][h]
            /\ proposed[n][h] # << >> => proposed'[n][h] = proposed[n][h]]_vars

\* The longest blocks table: what has been certified and stored by anyone.
CommittedLog ==
  chain[CHOOSE n \in Honest : \A m \in Honest : Len(chain[m]) <= Len(chain[n])]

Log == INSTANCE ExchangeLog WITH log <- CommittedLog

\* The replicated ledger implements the single log of ExchangeLog.
ImplementsLog == Log!Spec

\* While proposals are fresh and validators follow the rules, a proposal that a
\* leader stored is committed by every node once owners resume it: the vote
\* lock does not block the height it protects.
ProposalCommits ==
  \A h \in Heights :
    (Leader(h) \in Honest /\ proposed[Leader(h)][h] # << >>)
      ~> (\A n \in Honest : Len(chain[n]) >= h)
=============================================================================
