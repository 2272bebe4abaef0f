---------------------------- MODULE MCDispatcher ----------------------------
(* Small instances of Dispatcher for TLC. *)
EXTENDS Dispatcher, TLC

\* Dispatchers are interchangeable, and so are jobs: Piazza hands them out in
\* any order and each body is chosen freely.  Safety runs only.
Symmetry == Permutations(Dispatchers) \cup Permutations(Jobs)

=============================================================================
