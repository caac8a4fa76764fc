---------------------------- MODULE MCFidiParser ----------------------------
(* Small instances of FidiParser. *)
EXTENDS FidiParser

MCNumbers == {0, 2}
=============================================================================
