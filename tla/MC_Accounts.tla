---------------------------- MODULE MC_Accounts ----------------------------
(* A small instance of Accounts for TLC. *)
EXTENDS AccountsRefinement, TLC

\* Nothing tells two of these apart.
Symmetry == Permutations(Conn) \cup Permutations(Name) \cup Permutations(Password)
=============================================================================
