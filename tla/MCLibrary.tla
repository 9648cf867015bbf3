----------------------------- MODULE MCLibrary -----------------------------
(* Small instances of Library for TLC. *)
EXTENDS Library, TLC

LibrarySymmetry == Permutations(Requests)

=============================================================================
