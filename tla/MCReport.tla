------------------------------- MODULE MCReport -------------------------------
(* Two handles, so that one is made while the other has just been destroyed. *)
EXTENDS Report
=============================================================================
