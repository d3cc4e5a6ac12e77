---------------------------- MODULE MCCaptureLog ----------------------------
(***************************************************************************)
(* Two kinds of frame suffice to begin, extend and end a run; they are     *)
(* interchangeable.  The old log is of a size the partition has room for.  *)
(***************************************************************************)
EXTENDS CaptureLog, TLC

CONSTANTS Idle, Busy

ASSUME MCOldLogFits == OldLogFits

MCBodies == {Idle, Busy}
MCSymmetry == Permutations(MCBodies)
=============================================================================
