------------------------ MODULE MCExchangeSubmission -----------------------
(* Small instances of ExchangeSubmission. *)
EXTENDS ExchangeSubmission

Forever == 9

Cmd(id, actor, nonce, order, reviewed) ==
  [id |-> id, actor |-> actor, nonce |-> nonce, order |-> order,
   reviewed |-> reviewed, opens |-> 0, closes |-> Forever]

\* Another device of the account spends its first nonce.
OtherDevice == Cmd("phone", "alice", 1, NoOrder, 0)

\* The counterparty acts on the order first.
Counterparty == Cmd("deliver", "bob", 1, "order", 0)

MCOthers == {OtherDevice, Counterparty}

MCCommands == OwnCommands \cup MCOthers
=============================================================================
