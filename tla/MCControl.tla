------------------------------ MODULE MCControl ------------------------------
(* The Ready screen and the two whose "End Batch" buttons differ.  A tick    *)
(* is half the PIN's lock-out and the whole of the link's timeout, a counter *)
(* of milliseconds has eight values.                                          *)
EXTENDS Control

MCScreens == {1, 4, 5}
=============================================================================
