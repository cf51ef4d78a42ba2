--------------------------- MODULE MCViewerSession ---------------------------
(* A small instance of ViewerSession for TLC. *)
EXTENDS ViewerSession
=============================================================================
