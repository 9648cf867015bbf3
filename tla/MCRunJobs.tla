----------------------------- MODULE MCRunJobs -----------------------------
(* Small instances of RunJobs for TLC. *)
EXTENDS RunJobs, TLC

RunSymmetry == Permutations(Runs)

=============================================================================
