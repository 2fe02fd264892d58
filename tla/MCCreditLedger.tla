--------------------------- MODULE MCCreditLedger ---------------------------
(* Small instances of CreditLedger: calls are interchangeable, and so are  *)
(* accounts.                                                               *)
EXTENDS CreditLedger, TLC

Deltas    == {-1, 3}
Estimates == {1, 2}
Costs     == {0, 2}

Symmetry == Permutations(Call) \cup Permutations(Account)
=============================================================================
