------------------------------- MODULE MCAccount -------------------------------
(* Instances of Account for TLC: accounts and slots are interchangeable. *)
EXTENDS Account, TLC
Symmetry == Permutations(Accounts) \cup Permutations(Slots)
=============================================================================
