------------------------- MODULE MCExchangeProtocol ------------------------
(* Small instances of ExchangeProtocol. *)
EXTENDS ExchangeProtocol, TLC

CONSTANTS ann, bob, w1, w2, j1, j2, j3, j4, j5, j6

\* ann is a judge herself: a panel of an order of hers takes the next judge.
\* The first round costs an odd sum, the second a different one.
SevenJudges == <<j1, ann, j2, j3, j4, j5, j6>>
MCFee       == [j \in JudgeSet |-> CASE j = j1 -> 1 [] j = j4 -> 2 [] OTHER -> 0]

\* No arbitration at all.
NoJudges    == << >>
NoFee       == [j \in {} |-> 0]

\* Neither the rules nor the invariants tell traders or jobs apart.
Symmetric == Permutations(Traders) \cup Permutations(Jobs)
=============================================================================
