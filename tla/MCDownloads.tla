------------------------------ MODULE MCDownloads ------------------------------
(* Small instances of Downloads for TLC. *)
EXTENDS Downloads

MCNumbers == {-1, 1}

=============================================================================
