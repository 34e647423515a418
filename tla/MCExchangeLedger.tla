-------------------------- MODULE MCExchangeLedger -------------------------
(* Small instances of ExchangeLedger. *)
EXTENDS ExchangeLedger

CONSTANTS v1, v2, v3, v4, owner

MCRoster == <<v1, v2, v3, v4>>

Cmd(id, actor, nonce, order, reviewed, opens, closes) ==
  [id |-> id, actor |-> actor, nonce |-> nonce, order |-> order,
   reviewed |-> reviewed, opens |-> opens, closes |-> closes]

Forever == 100

\* Two devices of one account spend the same nonce.
Spends == {Cmd("pay1", "alice", 1, NoOrder, 0, 0, Forever),
           Cmd("pay2", "alice", 1, NoOrder, 0, 0, Forever)}

\* The two parties of an order against its review deadline 1: the buyer's
\* dispute must come before it, the provider's timeout not before it.
Dispute == Cmd("dispute", "buyer", 1, "order", 0, 0, 1)
Timeout == Cmd("timeout", "provider", 1, "order", 0, 1, Forever)

ByzantineCommands == Spends \cup {Dispute, Timeout}
LiveCommands      == {Cmd("pay1", "alice", 1, NoOrder, 0, 0, Forever),
                      Cmd("pay2", "bob", 1, NoOrder, 0, 0, Forever)}
=============================================================================
