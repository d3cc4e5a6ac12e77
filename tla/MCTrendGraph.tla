---------------------------- MODULE MCTrendGraph ----------------------------
(***************************************************************************)
(* Small instances of TrendGraph; the .cfg files give the bounds.          *)
(***************************************************************************)
EXTENDS TrendGraph
=============================================================================
