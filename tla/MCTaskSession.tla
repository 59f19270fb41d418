---------------------------- MODULE MCTaskSession ----------------------------
(* A task session on small instances.                                         *)
EXTENDS TaskSession
=============================================================================
