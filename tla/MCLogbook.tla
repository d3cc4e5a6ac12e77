------------------------------ MODULE MCLogbook ------------------------------
(***************************************************************************)
(* What the dryer may show: a full run with its preparation, the odd frame *)
(* in final dry and an excursion to another screen; and two short ones,    *)
(* for the power cuts, that freeze and then complete, or are ended.        *)
(***************************************************************************)
EXTENDS Logbook

MCFull ==
  [s \in ScreenKinds \ {"start"} |->
     CASE s = "idle"   -> {"prep"}
       [] s = "prep"   -> {"freeze", "idle"}
       [] s = "freeze" -> {"dry", "idle"}
       [] s = "dry"    -> {"final", "other"}
       [] s = "final"  -> {"alt", "complete"}
       [] s = "alt"    -> {"final"}
       [] s = "other"  -> {"dry", "idle"}
       [] OTHER        -> {"idle"}]

MCCompleted ==
  [s \in {"idle", "freeze", "complete"} |->
     CASE s = "idle"   -> {"freeze"}
       [] s = "freeze" -> {"complete"}
       [] OTHER        -> {"idle"}]

MCEnded == [s \in {"idle", "freeze"} |-> IF s = "idle" THEN {"freeze"} ELSE {"idle"}]

(* A run that is extended once it is complete, and another after it.        *)
MCExtended ==
  [s \in {"idle", "dry", "complete"} |->
     CASE s = "idle" -> {"dry"}
       [] s = "dry"  -> {"complete"}
       [] OTHER      -> {"dry", "idle"}]

Program(follows, counts, cuts) == [follows |-> follows, counts |-> counts, cuts |-> cuts]

MCCut       == <<Program(MCCompleted, 1, 1), Program(MCEnded, 1, 1)>>
MCPrograms  == <<Program(MCFull, 2, 0)>> \o MCCut
MCMore      == <<Program(MCExtended, 1, 0)>>

ASSUME MCOrderly == Orderly(MCPrograms) /\ Orderly(MCCut)
=============================================================================
