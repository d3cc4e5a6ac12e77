---------------------------- MODULE BatchTracker ----------------------------
(***************************************************************************)
(* The batch tracker of components/hr_protocol/hr_batchlog.c: from the     *)
(* screen and the elapsed counter in each STAT frame it decides where one  *)
(* run ends and the next begins, and how long each phase took.  The        *)
(* operators take the tracker, t, and return the next one.                 *)
(*                                                                         *)
(* A record is the run it was begun in (which the code does not know: it   *)
(* stands for the start date and the name), its outcome, its duration and  *)
(* the time spent in each phase, and how often drying was extended (which  *)
(* the caller fills in).  Temperatures, vacuum and the pull-down   *)
(* time ride along in the code and decide nothing.                         *)
(***************************************************************************)
EXTENDS Integers

CONSTANTS
  StepMax       \* PHASE_STEP_MAX_S

ASSUME TrackerAssumption == StepMax \in Nat

Timed   == {"freeze", "dry", "final"}            \* phases with a total
PreRun  == {"prep", "start"}                     \* phase_is_prerun
Running == PreRun \cup Timed                     \* phase_is_running
ScreenKinds == Running \cup {"idle", "complete", "alt", "other"}

(* The one frame of type 44 in final dry is final dry.                     *)
Fold(screen) == IF screen = "alt" THEN "final" ELSE screen

NoRecord == [run |-> 0, outcome |-> "running", dur |-> 0,
             spent |-> [p \in Timed |-> 0], extra |-> 0]

Reset == [active |-> FALSE, cur |-> NoRecord, lastPhase |-> "none",
          lastElapsed |-> 0, haveLast |-> FALSE, startElapsed |-> 0]

BeginRecord(t, run, elapsed) ==
  [t EXCEPT !.active = TRUE, !.startElapsed = elapsed,
            !.cur = [NoRecord EXCEPT !.run = run]]

FinishRecord(t, why) == [t EXCEPT !.active = FALSE, !.cur.outcome = why]

(* The counter went backwards under an open record: the preparation's own  *)
(* countdown gave way to the batch clock, or another run has begun.        *)
WentBack(t, elapsed) == t.active /\ t.haveLast /\ elapsed < t.lastElapsed

Rebases(t, phase) == t.lastPhase \in PreRun /\ phase \in Running

(* A sample's share of the phase it continues *)
Credit(t, phase, elapsed) ==
  LET step == elapsed - t.lastElapsed
  IN  IF /\ t.haveLast /\ phase = t.lastPhase /\ phase \in Timed
         /\ step > 0 /\ step <= StepMax
      THEN [t.cur.spent EXCEPT ![phase] = @ + step]
      ELSE t.cur.spent

SlipMeasure(t, phase, elapsed) ==
  IF ~t.active THEN t
  ELSE [t EXCEPT !.cur.dur = IF elapsed > t.startElapsed
                             THEN elapsed - t.startElapsed ELSE 0,
                 !.cur.spent = IF t.haveLast /\ phase \in Timed
                               THEN [@ EXCEPT ![phase] = elapsed]
                               ELSE @]
Measure(t, phase, elapsed) ==
  IF ~t.active THEN t
  ELSE [t EXCEPT !.cur.dur = IF elapsed > t.startElapsed
                             THEN elapsed - t.startElapsed ELSE 0,
                 !.cur.spent = Credit(t, phase, elapsed)]

(* How a frame on this screen ends an open record, if it does *)
Ending(t, phase) ==
  CASE phase = "complete"                                -> "complete"
    [] phase = "idle" /\ Fold(t.lastPhase) \in Running -> "endedEarly"
    [] OTHER                                             -> "none"

(* hr_batch_observe: the next tracker and whether a record was finished,   *)
(* which is then its cur.  run is the run the dryer is really on.          *)
Observe(t, screen, elapsed, run) ==
  LET phase == Fold(screen)
      back  == WentBack(t, elapsed)
      lost  == back /\ ~Rebases(t, phase)
      t1 == IF lost THEN FinishRecord(t, "interrupted")
            ELSE IF back THEN [t EXCEPT !.startElapsed = elapsed]
            ELSE t
      begins == ~t1.active /\ phase \in Running /\ ~lost
      t2 == IF begins THEN BeginRecord(t1, run, elapsed) ELSE t1
      t3 == Measure(t2, phase, elapsed)
      ends == t3.active /\ Ending(t3, phase) # "none"
      t4 == IF ends THEN FinishRecord(t3, Ending(t3, phase)) ELSE t3
  IN  [tracker  |-> [t4 EXCEPT !.lastPhase = phase, !.lastElapsed = elapsed,
                               !.haveLast = TRUE],
       finished |-> lost \/ ends]

(* hr_batch_resume: carry on with a checkpointed record.                   *)
ResumeRecord(t, rec, start, last, phase) ==
  [active |-> TRUE, cur |-> [rec EXCEPT !.outcome = "running"],
   lastPhase |-> phase, lastElapsed |-> last, haveLast |-> TRUE,
   startElapsed |-> start]
=============================================================================
