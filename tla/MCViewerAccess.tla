--------------------------- MODULE MCViewerAccess ---------------------------
(* A small instance of ViewerAccess for TLC. *)
EXTENDS ViewerAccess

=============================================================================
