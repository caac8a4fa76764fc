---------------------------- MODULE MCFidiExecute ----------------------------
(* Small instances of FidiExecute. *)
EXTENDS FidiExecute
=============================================================================
