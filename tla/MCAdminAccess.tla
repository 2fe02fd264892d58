--------------------------- MODULE MCAdminAccess ---------------------------
(* Small instances of AdminAccess: the tokens of sessions, and calls, are  *)
(* interchangeable.  Three refresh tokens are what it takes for two calls  *)
(* to go on from one.                                                      *)
EXTENDS AdminAccess, TLC

Symmetry == Permutations(Access) \cup Permutations(Refresh) \cup Permutations(Call)

(* Sessions and services share no table and no call, and each property is  *)
(* about one of them: the states of one are looked at with the other as it *)
(* begins.                                                                 *)
OneSideAtATime == SessionInit \/ Services!ServiceInit
=============================================================================
