--------------------------- MODULE MCTaskBalance ---------------------------
(* Small instances of TaskBalance. *)
EXTENDS TaskBalance

MCTasks == {"a", "b"}

\* A version 1 file with an open hold, a settled hold and an earning.
MCLegacy ==
  {[version |-> "v1", folded |-> 0,
    view |-> [available |-> 1, held |-> 1, earned |-> 1, earnings |-> {"b"},
              holds |-> [t \in Tasks |->
                [state |-> IF t = "a" THEN "held" ELSE "settled", amount |-> 1,
                 charged |-> IF t = "a" THEN 0 ELSE 1, n |-> 1]]]]}
=============================================================================
