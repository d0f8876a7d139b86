--------------------------- MODULE MCFsChangeLog ---------------------------
(* The change log and its writer on their own, for TLC. *)
EXTENDS FsChangeLog
=============================================================================
