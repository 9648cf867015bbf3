---------------------------- MODULE MCRecordings ----------------------------
EXTENDS Recordings, TLC

RecordingSymmetry == Permutations(Recordings)

=============================================================================
