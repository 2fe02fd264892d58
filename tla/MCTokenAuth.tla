---------------------------- MODULE MCTokenAuth ----------------------------
(* Small instances of TokenAuth: tokens, accounts and requests are         *)
(* interchangeable.                                                        *)
EXTENDS TokenAuth, TLC

Symmetry == Permutations(Token) \cup Permutations(Account) \cup Permutations(Request)
=============================================================================
