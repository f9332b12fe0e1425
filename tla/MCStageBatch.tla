---------------------------- MODULE MCStageBatch ----------------------------
(***************************************************************************)
(* One batch of two pages.                                                 *)
(***************************************************************************)
EXTENDS StageBatch
=============================================================================
