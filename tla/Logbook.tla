------------------------------- MODULE Logbook -------------------------------
(***************************************************************************)
(* The batch logbook: main/main.c around the tracker of BatchTracker and   *)
(* the store of main/hr_batchstore.c.                                      *)
(*   - The dryer (external) runs batches and reports its screen and its    *)
(*     elapsed counter, whether or not the adapter is powered.             *)
(*   - The USB receive task (on_inbound) notes each report for the main    *)
(*     loop, then feeds the tracker and parks a finished record.  The two  *)
(*     are separate critical sections.                                     *)
(*   - The main loop, once the store is ready, loads the record a power    *)
(*     cut left open, decides to resume or to close it when the dryer has  *)
(*     been heard, writes parked records, and checkpoints the open one.    *)
(*   - The power may be cut between any two writes; the checkpoint in NVS  *)
(*     (three keys) and the logbook survive.                               *)
(* History: the runs through which the power was not always on, what       *)
(* became of each run in truth, and the runs whose record is still owed to *)
(* the logbook because the adapter has begun it and not given it up.       *)
(***************************************************************************)
EXTENDS BatchTracker, Sequences, FiniteSets

CONSTANTS
  ResumeMaxGap,   \* RESUME_MAX_GAP_S
  ResumeBack,     \* RESUME_BACK_S
  Programs,       \* what dryers there are: for each screen those that may
                  \* follow it; and bounds: how far its counter gets, and the
                  \* runs power cuts bear on
  MaxRun,         \* bound: the runs the dryer makes
  MaxLog,         \* bound: with as many records, the power is not cut again
  Wiping,         \* whether the logbook may be cleared from the web UI
  Glitches        \* whether the dryer's counter may read too high in a frame

MainAt == {"top", "decide", "resume", "close1", "close2", "close3", "take",
           "write", "clear1", "clear2", "clear3", "save1", "save2", "save3"}

ASSUME LogbookAssumption ==
  /\ ResumeMaxGap \in Nat /\ ResumeBack \in Nat
  /\ MaxRun \in Nat /\ MaxLog \in Nat
  /\ \A p \in DOMAIN Programs :
       LET follows == Programs[p].follows
       IN  /\ "idle" \in DOMAIN follows
           /\ Programs[p].counts \in Nat /\ Programs[p].cuts \in Nat
           /\ \A s \in DOMAIN follows : s \in ScreenKinds /\ follows[s] \subseteq DOMAIN follows
  /\ Glitches \in BOOLEAN /\ Wiping \in BOOLEAN

VARIABLES
  dryer,        \* the dryer: what it does (a program), and its run, screen
                \* and elapsed counter
  truth,        \* history: what became of each run, and how far it got
  dark,         \* history: runs the power was cut in, or before they had
                \* their record, or before their checkpoint was erased
  owed,         \* history: runs with a record begun and not given up since
  saved,        \* history: those of them the flash has been given
  powered,      \* the adapter has power
  usb,          \* the frame on_inbound has yet to give to the tracker
  t,            \* s_batch
  parked,       \* s_batch_done, if s_batch_done_pending
  last,         \* s_last_running, s_last_type, s_last_batch_elapsed; and the
                \* count of s_dry in hr_http.c, whose last_screen is the type
  ready,        \* hr_batchstore_ready()
  open,         \* s_open_rec, s_open_start, s_open_last, if s_open_pending
  checked,      \* s_batch_boot_checked
  pc,           \* the main loop's place
  loc,          \* the main loop's copy of what it is writing
  nvs,          \* the keys open, open_start and open_last
  log           \* the logbook's records, oldest first

ram  == <<usb, t, parked, last, ready, open, checked, pc, loc>>
disk == <<nvs, log>>
real == <<dryer, truth, dark, powered>>
account == <<owed, saved>>
logbookVars == <<dryer, truth, dark, owed, saved, powered, usb, t, parked, last, ready, open,
          checked, pc, loc, nvs, log>>

None    == [rec |-> NoRecord, start |-> 0, last |-> -1]    \* nothing there
NoFrame == [screen |-> "none", elapsed |-> -1, run |-> 0]
Silent  == [running |-> FALSE, type |-> "none", elapsed |-> -1, extensions |-> 0]

Runs == 1..MaxRun

RamInit ==
  /\ usb = NoFrame /\ t = Reset /\ parked = NoRecord /\ last = Silent
  /\ ready = FALSE /\ open = None /\ checked = FALSE
  /\ pc = "top" /\ loc = None

LogbookInit ==
  /\ dryer \in [program : DOMAIN Programs, run : {0}, screen : {"idle"}, elapsed : {0}]
  /\ truth = [r \in Runs |-> [fate |-> "none", reach |-> 0, extensions |-> 0]]
  /\ dark = {} /\ owed = {} /\ saved = {} /\ powered = TRUE
  /\ RamInit
  /\ nvs = None /\ log = <<>>

----------------------------------------------------------------------------
(* The dryer                                                               *)

Does(d) == Programs[d.program]

(* What it may show next: a screen that follows, or the same one a while   *)
(* later, however many reports in between were lost.  The counter starts   *)
(* at zero with a run, starts again when the preparation gives way to      *)
(* freezing, and moves on with every later phase.                          *)
After(d) ==
  LET on(s) == [d EXCEPT !.screen = s, !.elapsed = @ + 1]
      moved(s) ==
        CASE d.screen = "idle" -> [d EXCEPT !.run = @ + 1, !.screen = s, !.elapsed = 0]
          [] s = "freeze" /\ d.screen \in PreRun ->
               [d EXCEPT !.screen = s, !.elapsed = 0]
          [] s \in {"dry", "final"} /\ d.screen \in Timed \cup {"complete"} -> on(s)
          [] OTHER -> [d EXCEPT !.screen = s]
      next == {moved(s) : s \in Does(d).follows[d.screen]}
                \cup (IF d.screen \in Running
                      THEN {[d EXCEPT !.elapsed = e] :
                              e \in d.elapsed + 1 .. Does(d).counts}
                      ELSE {})
  IN  {e \in next : e.run <= MaxRun /\ e.elapsed <= Does(d).counts}

Fate(d, e) ==
  CASE e.screen = "complete" -> "complete"
    [] e.screen = "idle" /\ d.screen \in Running -> "endedEarly"
    [] e.screen = "idle" /\ d.screen = "other"   -> "strayed"
    [] OTHER -> "none"

(* hr_dry_observe: "More Dry Time" takes a finished batch back to drying *)
Extends(from, to) == from = "complete" /\ to \in {"dry", "final"}
Extended(n, from, to) == IF Extends(from, to) THEN n + 1 ELSE n

DryerMoves(e) ==
  /\ dryer' = e
  /\ truth' = IF e.run = 0 THEN truth
              ELSE [truth EXCEPT
                      ![e.run].fate = IF Fate(dryer, e) = "none" THEN @
                                      ELSE Fate(dryer, e),
                      ![e.run].reach = IF @ < e.elapsed THEN e.elapsed
                                       ELSE @,
                      ![e.run].extensions = Extended(@, dryer.screen, e.screen)]
  /\ dark' = IF powered THEN dark ELSE dark \cup {e.run}

(* Nobody listens.                                                         *)
Unheard ==
  /\ ~powered
  /\ \E e \in After(dryer) : DryerMoves(e)
  /\ UNCHANGED <<account, powered, ram, disk>>

----------------------------------------------------------------------------
(* The account of what is owed                                             *)

Givenup(runs) == owed' = owed \ runs /\ saved' = saved \ runs
Delivered(r)  == owed' = owed /\ saved' = saved \cup ({r} \cap owed)
Under(tracker) == IF tracker.active THEN {tracker.cur.run} ELSE {}

----------------------------------------------------------------------------
(* The USB receive task                                                    *)

(* A report, on a change or repeated: the first critical section.          *)
Hear ==
  /\ powered /\ usb = NoFrame
  /\ \E e \in {dryer} \cup After(dryer) :
       /\ DryerMoves(e)
       /\ \E shown \in {e.elapsed} \cup
                       (IF Glitches /\ e.screen \in Running
                        THEN {e.elapsed + 1} ELSE {}) :
            /\ usb' = [screen |-> e.screen, elapsed |-> shown, run |-> e.run]
            /\ last' = [running |-> Fold(e.screen) \in Running,
                        type |-> e.screen, elapsed |-> shown,
                        extensions |-> Extended(last.extensions, last.type, e.screen)]
  /\ UNCHANGED <<account, powered, t, parked, ready, open, checked, pc, loc, disk>>

(* The second: the tracker sees the frame.  A record that is finished is   *)
(* parked for the main loop, unless the one before still is.               *)
Track ==
  /\ usb # NoFrame
  /\ LET o == Observe(t, usb.screen, usb.elapsed, usb.run)
     IN  /\ t' = o.tracker
         /\ parked' = IF o.finished /\ parked = NoRecord
                      THEN [o.tracker.cur EXCEPT !.extra = last.extensions]
                      ELSE parked
         /\ LET dropped == IF o.finished /\ parked # NoRecord THEN Under(t) ELSE {}
            IN  /\ owed' = (owed \ dropped) \cup Under(o.tracker)
                /\ saved' = saved \ dropped
  /\ usb' = NoFrame
  /\ UNCHANGED <<real, last, ready, open, checked, pc, loc, disk>>

----------------------------------------------------------------------------
(* The main loop                                                           *)

Goto(from, to) == powered /\ pc = from /\ pc' = to

(* The store comes up once the capture partition is mounted.               *)
StoreReady ==
  /\ powered /\ pc = "top" /\ ~ready
  /\ ready' = TRUE
  /\ UNCHANGED <<real, account, usb, t, parked, last, open, checked, pc, loc, disk>>

(* A pass over the logbook; the first loads what a power cut left open.    *)
SlipPass ==
  /\ Goto("top", "decide")
  /\ ready
  /\ checked' = TRUE
  /\ open' = IF ~checked /\ nvs.rec # NoRecord THEN nvs ELSE open
  /\ nvs' = IF checked THEN nvs ELSE None
  /\ UNCHANGED <<real, account, usb, t, parked, last, ready, loc, log>>
Pass ==
  /\ Goto("top", "decide")
  /\ ready
  /\ checked' = TRUE
  /\ open' = IF ~checked /\ nvs.rec # NoRecord THEN nvs ELSE open
  /\ UNCHANGED <<real, account, usb, t, parked, last, ready, loc, disk>>

Undecided == open # None /\ last.elapsed >= 0

(* Still on the run the checkpoint is of?  Judged on an unlocked look at   *)
(* what on_inbound noted last.                                             *)
SameRun ==
  LET gap == last.elapsed - open.last
  IN  /\ last.running /\ open.last >= 0
      /\ gap <= ResumeMaxGap /\ gap >= -ResumeBack

DecideNothing ==
  /\ Goto("decide", "take")
  /\ ~Undecided
  /\ UNCHANGED <<real, account, usb, t, parked, last, ready, open, checked, loc, disk>>

DecideResume ==
  /\ Goto("decide", "resume")
  /\ Undecided /\ SameRun
  /\ loc' = [open EXCEPT !.last = last.elapsed]
  /\ UNCHANGED <<real, account, usb, t, parked, last, ready, open, checked, disk>>

Resume ==
  /\ Goto("resume", "take")
  /\ t' = ResumeRecord(t, loc.rec, loc.start, loc.last, last.type)
  /\ open' = None /\ loc' = None
  /\ LET replaced == Under(t) \ {loc.rec.run}
         exposed  == IF parked = NoRecord THEN {} ELSE {loc.rec.run}
     IN  /\ owed' = (owed \ replaced) \cup {loc.rec.run}
         /\ saved' = saved \ (replaced \cup exposed)
  /\ UNCHANGED <<real, usb, parked, last, ready, checked, disk>>

(* hr_batchstore_append: refused while the store is not ready or the       *)
(* partition is being closed, and the caller does not ask.                 *)
Append2Log(rec) ==
  \/ log' = log /\ Givenup({rec.run})
  \/ ready /\ log' = Append(log, rec) /\ Delivered(rec.run)

DecideClose ==
  /\ Goto("decide", "close1")
  /\ Undecided /\ ~SameRun
  /\ Append2Log([open.rec EXCEPT !.outcome = "interrupted"])
  /\ UNCHANGED <<real, usb, t, parked, last, ready, open, checked, loc, nvs>>

(* hr_batchstore_clear_open: three keys, one after the other.              *)
Erase(step1, step2, step3, to) ==
  /\ \/ Goto(step1, step2) /\ nvs' = [nvs EXCEPT !.rec = NoRecord]
     \/ Goto(step2, step3) /\ nvs' = [nvs EXCEPT !.start = 0]
     \/ Goto(step3, to)    /\ nvs' = [nvs EXCEPT !.last = -1]
  /\ UNCHANGED <<real, account, usb, t, parked, last, ready, checked, log>>

CloseClear ==
  /\ Erase("close1", "close2", "close3", "take")
  /\ open' = IF pc = "close3" THEN None ELSE open
  /\ loc' = loc

(* The critical section that takes a parked record, or else, once a        *)
(* minute, a copy of the open one.  When the first frame after a power cut *)
(* comes between the decision above and this look, the run left open is    *)
(* undecided yet and about to lose its checkpoint to the record taken      *)
(* here: nothing keeps it from another cut, nor the new one's checkpoint   *)
(* from the closing of the old.                                            *)
TakeParked ==
  /\ Goto("take", "write")
  /\ parked # NoRecord
  /\ loc' = [None EXCEPT !.rec = parked] /\ parked' = NoRecord
  /\ Givenup({open.rec.run})
  /\ UNCHANGED <<real, usb, t, last, ready, open, checked, disk>>

TakeCheckpoint ==
  /\ Goto("take", "save1")
  /\ parked = NoRecord /\ t.active
  /\ loc' = [rec |-> t.cur, start |-> t.startElapsed, last |-> t.lastElapsed]
  /\ IF open = None THEN UNCHANGED account
     ELSE owed' = owed \ {open.rec.run} /\ saved' = saved \ {open.rec.run, t.cur.run}
  /\ UNCHANGED <<real, usb, t, parked, last, ready, open, checked, disk>>

TakeNothing ==
  /\ Goto("take", "top")
  /\ parked = NoRecord
  /\ loc' = None
  /\ UNCHANGED <<real, account, usb, t, parked, last, ready, open, checked, disk>>

Write ==
  /\ Goto("write", "clear1")
  /\ Append2Log(loc.rec)
  /\ UNCHANGED <<real, usb, t, parked, last, ready, open, checked, loc, nvs>>

Clear ==
  /\ Erase("clear1", "clear2", "clear3", "top")
  /\ open' = open
  /\ loc' = IF pc = "clear3" THEN None ELSE loc

(* hr_batchstore_save_open, key by key.                                    *)
Save ==
  /\ \/ Goto("save1", "save2") /\ nvs' = [nvs EXCEPT !.rec = loc.rec]
     \/ Goto("save2", "save3") /\ nvs' = [nvs EXCEPT !.start = loc.start]
     \/ Goto("save3", "top")   /\ nvs' = [nvs EXCEPT !.last = loc.last]
  /\ IF pc = "save1" /\ open = None THEN Delivered(loc.rec.run) ELSE UNCHANGED account
  /\ loc' = IF pc = "save3" THEN None ELSE loc
  /\ UNCHANGED <<real, usb, t, parked, last, ready, open, checked, log>>

MainLoop ==
  \/ StoreReady \/ Pass
  \/ DecideNothing \/ DecideResume \/ Resume \/ DecideClose \/ CloseClear
  \/ TakeParked \/ TakeCheckpoint \/ TakeNothing
  \/ Write \/ Clear \/ Save

----------------------------------------------------------------------------
(* The web UI: the logbook is cleared, or the partition formatted; after   *)
(* the format the store is opened anew, which may fail.                    *)
Wipe ==
  /\ Wiping /\ powered
  /\ log' = <<>> /\ ready' \in BOOLEAN
  /\ Givenup({log[i].run : i \in DOMAIN log})
  /\ UNCHANGED <<real, usb, t, parked, last, open, checked, pc, loc, nvs>>

----------------------------------------------------------------------------
(* The power                                                               *)

(* Where the logbook speaks of a run                                       *)
Of(r) == {i \in DOMAIN log : log[i].run = r}

PowerCut ==
  /\ powered /\ Does(dryer).cuts > 0 /\ Len(log) < MaxLog
  /\ powered' = FALSE
  /\ dark' = dark \cup {r \in 1..dryer.run :
                         r \in {dryer.run, nvs.rec.run} \/ Of(r) = {}}
  /\ Cardinality(dark') <= Does(dryer).cuts
  /\ owed' = saved /\ saved' = saved
  /\ usb' = NoFrame /\ t' = Reset /\ parked' = NoRecord /\ last' = Silent
  /\ ready' = FALSE /\ open' = None /\ checked' = FALSE
  /\ pc' = "top" /\ loc' = None
  /\ UNCHANGED <<dryer, truth, disk>>

PowerOn == ~powered /\ powered' = TRUE /\ UNCHANGED <<dryer, truth, dark, account, ram, disk>>

LogbookNext == Unheard \/ Hear \/ Track \/ MainLoop \/ Wipe \/ PowerCut \/ PowerOn

LogbookSpec == LogbookInit /\ [][LogbookNext]_logbookVars

(* The tasks run, the partition gets mounted, and the dryer reports.       *)
FairSpec ==
  /\ LogbookSpec
  /\ WF_logbookVars(Hear) /\ WF_logbookVars(Track) /\ WF_logbookVars(MainLoop)

----------------------------------------------------------------------------
(* A dryer that begins a run with its preparation or with freezing, strays *)
(* to another screen only once it dries, ends a run it has strayed in only *)
(* from there, and never extends one it has called complete: what the      *)
(* proofs take the dryer to be.  One that extends a finished run is not.   *)
Orderly(programs) ==
  \A p \in DOMAIN programs : \A s \in DOMAIN programs[p].follows :
    LET next == programs[p].follows[s]
    IN  /\ next \cap PreRun # {} => s \in PreRun \cup {"idle"}
        /\ next \cap {"dry", "final"} # {} => s \in Timed \cup {"alt", "other"}
        /\ next \cap {"alt", "other"} # {} => s \in {"dry", "final", "alt", "other"}
        /\ s = "complete" => next \subseteq {"idle"}
        /\ s = "alt" => "idle" \notin next

----------------------------------------------------------------------------
(* Properties                                                              *)

Outcomes == {"running", "complete", "endedEarly", "interrupted"}
Records  == [run : 0..MaxRun, outcome : Outcomes, dur : Nat,
             spent : [Timed -> Nat], extra : Nat]
Saved    == [rec : Records, start : Nat, last : Nat \cup {-1}]

(* The type of the state; what is parked or written has an ending.         *)
LogbookTypeOK ==
  /\ dryer \in [program : DOMAIN Programs, run : 0..MaxRun, screen : ScreenKinds, elapsed : Nat]
  /\ dark \subseteq Runs /\ owed \subseteq Runs /\ powered \in BOOLEAN /\ ready \in BOOLEAN
  /\ checked \in BOOLEAN
  /\ usb = NoFrame \/ usb.screen \in ScreenKinds
  /\ t.cur \in Records /\ t.active \in BOOLEAN
  /\ open \in Saved /\ loc \in Saved /\ nvs \in Saved
  /\ pc \in MainAt
  /\ parked \in Records /\ (parked # NoRecord => parked.outcome # "running")
  /\ \A i \in DOMAIN log : log[i] \in Records /\ log[i].outcome # "running"

(* What the record of a run should say                                     *)
Told(r) == IF truth[r].fate = "strayed" THEN "interrupted" ELSE truth[r].fate

(* A run through which the adapter had power has at most one record, and   *)
(* it says what the dryer did: finished, ended early, or (off to another   *)
(* screen and then idle) interrupted.                                      *)
WholeRunsRecordedOnce ==
  \A r \in Runs \ dark :
    /\ \A i, j \in Of(r) : i = j
    /\ \A i \in Of(r) : log[i].outcome = Told(r)

(* A record the adapter has begun is not lost: until flash has been given  *)
(* the record or its checkpoint it is the tracker's, parked, or in the     *)
(* main loop's hand; and from then on it is in the logbook or in NVS at    *)
(* every moment, so that the power may be cut at any of them.  The code    *)
(* gives up a record in these ways only: its write is refused; it is       *)
(* finished while another is parked; the logbook is cleared; the power is  *)
(* cut before its first checkpoint; another is resumed over it; or, after  *)
(* a power cut, records are taken before the run left open is decided.     *)
RecordsAreKept ==
  /\ saved \subseteq owed
  /\ \A r \in owed \ saved : \/ r \in Under(t)
                             \/ parked # NoRecord /\ r = parked.run
                             \/ pc = "write" /\ r = loc.rec.run
  /\ \A r \in saved : Of(r) # {} \/ nvs.rec.run = r

SumPhases(rec) == rec.spent["freeze"] + rec.spent["dry"] + rec.spent["final"]

(* The time credited to the phases of such a run was really counted by the *)
(* dryer: no gap, jump or repeated frame is turned into phase time.        *)
PhaseTimeIsReal ==
  \A i \in DOMAIN log :
    log[i].run \notin dark =>
      SumPhases(log[i]) <= truth[log[i].run].reach

(* Between passes, once the boot check is decided, NVS holds a checkpoint  *)
(* only while a record is open or its ending waits to be written: a run    *)
(* that has been dealt with is not left open for the next boot to find.    *)
CheckpointHasOwner ==
  (pc = "top" /\ checked /\ open = None /\ nvs.rec # NoRecord) =>
    t.active \/ parked # NoRecord

(* Cut the power where you like: no record is lost but in the ways above,  *)
(* a run the cuts do not bear on has at most one, and a true one, and no   *)
(* checkpoint is left in flash that nothing will erase.                    *)
RunsAreAccountedFor ==
  LogbookTypeOK /\ RecordsAreKept /\ WholeRunsRecordedOnce /\ CheckpointHasOwner

(* "One physical run interrupted by power loss is ONE record."             *)
(* (test_hr_batchlog.c)                                                    *)
OneRecordPerRun == \A r \in Runs : Cardinality(Of(r)) <= 1

(* "one record per freeze-drying run" (hr_batchlog.h): a run the adapter    *)
(* has power through has its record once it is over.                       *)
EveryRunHasItsRecord ==
  \A r \in Runs \ dark :
    truth[r].fate # "none" /\ usb = NoFrame =>
      Of(r) # {} \/ r \in {parked.run} \cup Under(t) \/ (pc = "write" /\ r = loc.rec.run)

(* "A new run is not mistaken for this: it restarts the counter near zero, *)
(* tens of thousands of seconds below where we left off."  (main.c)        *)
ResumesTheSameRun == pc = "resume" => loc.rec.run = dryer.run

(* "drying added during the run"  (hr_batchlog.h, extra_dry_s)             *)
ExtraIsOfThisRun ==
  \A i \in DOMAIN log : log[i].extra <= truth[log[i].run].extensions

(* A parked record is taken by the main loop, and a run left open by a     *)
(* power cut is decided about, unless the power goes again.                *)
ParkedIsTaken == parked # NoRecord ~> parked = NoRecord
OpenIsDecided == open # None ~> open = None
=============================================================================
