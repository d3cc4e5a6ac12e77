---------------------------- MODULE MCDryerFiles ----------------------------
(***************************************************************************)
(* The dryer's files for TLC.  A block is two units and the ring holds two *)
(* blocks and one unit more, so that it fills up, refuses a block, and     *)
(* wraps at odd offsets.  The files: one of a whole block that grows by a  *)
(* short one; and one of whole blocks that the ring cannot hold, over the  *)
(* limit when it is listed and fetched when it is not.  Gone is a name     *)
(* without a file.                                                         *)
(***************************************************************************)
EXTENDS DryerFiles

CONSTANTS Short, Big, Gone, Csv, Log

MCFiles == [f \in {Short, Big} |-> IF f = Short THEN 2 ELSE 6]
MCGrown == [f \in {Short, Big} |-> IF f = Short THEN 3 ELSE 6]

(* Two listings, one with more names than are kept.                        *)
MCListing == [p \in {Csv, Log} |-> IF p = Csv THEN <<Big, Short>> ELSE <<Short>>]
=============================================================================
