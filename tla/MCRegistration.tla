---------------------------- MODULE MCRegistration ----------------------------
(* Small instances of Registration for TLC. *)
EXTENDS Registration, TLC

\* Dispatchers are alike, and Piazza gives out ids in any order.  Safety only.
Symmetry == Permutations(Dispatchers) \cup Permutations(Services)

=============================================================================
