---------------------------- MODULE ExchangeLog ----------------------------
(***************************************************************************)
(* What the exchange ledger promises its users: one log, extended one      *)
(* applicable command at a time and never rewritten.  ExchangeLedger       *)
(* implements it with a fixed roster of voting validators.                 *)
(***************************************************************************)
EXTENDS ExchangeRules

VARIABLE log

Init == log = << >>

\* One more entry, applicable on top of the log it extends.
Next == /\ Len(log') = Len(log) + 1
        /\ LET e == log'[Len(log')]
           IN  e \in Entry /\ Applies(log, e) /\ log' = Append(log, e)

Spec == Init /\ [][Next]_log
=============================================================================
