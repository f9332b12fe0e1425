---------------------------- MODULE MCTaskRunner ----------------------------
(* Small instance of TaskRunner for TLC. *)
EXTENDS TaskRunner

CONSTANTS a, b, c

MCOp == {a, b, c}
=============================================================================
