-------------------------- MODULE MCTunController --------------------------
(* Small instances of TunController: calls and tasks are interchangeable.  *)
EXTENDS TunController, TLC

Symmetry == Permutations(Call) \cup Permutations(Task)
=============================================================================
