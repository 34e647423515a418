--------------------------- MODULE ExchangeRules ---------------------------
(***************************************************************************)
(* The part of the transition rules of rynmesh/exchange/protocol.py that   *)
(* decides whether a signed command may be the next entry of the shared    *)
(* log: operation identity, account nonce, reviewed order context, time    *)
(* and deadlines.  What the command then does to balances and orders is    *)
(* the subject of ExchangeProtocol.                                        *)
(*                                                                         *)
(* A command is a record                                                   *)
(*   id       operation id chosen by its owner                             *)
(*   actor    the account whose nonce it consumes                          *)
(*   nonce    the nonce it was signed with                                 *)
(*   order    the order it acts on, or NoOrder                             *)
(*   reviewed the order context it was signed against: the number of       *)
(*            order commands applied before it (order_commitment hashes    *)
(*            the order with its decreasing remaining_ops, so a context    *)
(*            never recurs)                                                *)
(*   opens    first time at which the action is allowed (deadline of a     *)
(*            timeout or finalize, 0 for the others)                       *)
(*   closes   first time at which it is no longer allowed                  *)
(* The two bounds belong to the command because the reviewed order context *)
(* fixes every deadline of the order.                                      *)
(***************************************************************************)
EXTENDS Integers, Sequences, FiniteSets

CONSTANTS Commands,       \* the signed commands that may ever be submitted
          NoOrder,        \* the order of a command that acts on none
          MaxOperations   \* MAX_OPERATIONS: the length of the longest log

ASSUME MaxOperationsAssumption == MaxOperations \in Nat \ {0}

ASSUME CommandsAssumption ==
  \A c \in Commands :
    /\ c.nonce \in Nat /\ c.reviewed \in Nat
    /\ c.opens \in Nat /\ c.closes \in Nat

\* A log entry: a command and the timestamp its proposer gave it.
Entry == [ts : Nat, cmd : Commands]

\* state["operations"] after the entries of history h.
Operations(h) == {h[i].cmd.id : i \in DOMAIN h}

\* accounts[a]["nonce"] after h: one increment per applied command of a.
NonceAfter(h, a) == Cardinality({i \in DOMAIN h : h[i].cmd.actor = a})

\* How often order o has been acted on in h.
ContextAfter(h, o) == Cardinality({i \in DOMAIN h : h[i].cmd.order = o})

\* state["time"] after h.
TimeAfter(h) == IF h = << >> THEN 0 ELSE h[Len(h)].ts

NonceReused(h, c) == c.nonce <= NonceAfter(h, c.actor) + 1

\* The command spends the account's next nonce.
NonceIsNext(h, c) == c.nonce = NonceAfter(h, c.actor) + 1

\* apply() accepts entry e on top of history h.
Applies(h, e) ==
  /\ Len(h) < MaxOperations
  /\ e.cmd.id \notin Operations(h)
  /\ NonceIsNext(h, e.cmd)
  /\ e.ts >= TimeAfter(h)
  /\ e.cmd.order # NoOrder => e.cmd.reviewed = ContextAfter(h, e.cmd.order)
  /\ e.cmd.opens <= e.ts
  /\ e.ts < e.cmd.closes

TimestampTrusted(e, now) == TRUE

\* vote_deadlines(): the same deadlines against the voter's own clock.
VoteDeadlines(e, now) == e.cmd.opens <= now /\ now < e.cmd.closes
=============================================================================
