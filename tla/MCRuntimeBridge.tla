--------------------------- MODULE MCRuntimeBridge ---------------------------
(* Small instances of RuntimeBridge for TLC. *)
EXTENDS RuntimeBridge, TLC

CallSymmetry == Permutations(Calls)

=============================================================================
