----------------------------- MODULE TrendGraph -----------------------------
(***************************************************************************)
(* The graph of the current run: main/main.c around the series of Trend,   *)
(* and its file, trend.bin, in main/hr_capture.c.                          *)
(*   - The dryer (external) runs batches; its elapsed counter goes on with *)
(*     a run and is held while it is idle, powered adapter or not.         *)
(*   - The USB receive task (on_inbound) adds each reading to the series,  *)
(*     and empties it when a run begins.  The file it may not touch: it    *)
(*     leaves a note, s_trend_file_stale.                                  *)
(*   - The main loop, a pass at a time, closes old buckets, removes a      *)
(*     stale file, decides once per boot whether the file continues, and   *)
(*     rewrites the file when the series has grown.                        *)
(*   - The power may be cut at any point; the file survives, with what was *)
(*     written of it.                                                      *)
(* A pass of the main loop (four a second) takes no time on the clock of   *)
(* the model, whose unit is about the time between two reports.            *)
(***************************************************************************)
EXTENDS Trend, SequencesExt

CONSTANTS
  MaxClock,     \* bound: how long it is looked at
  MaxRuns,      \* bound: the runs the dryer makes
  MaxCuts       \* bound: power cuts

ASSUME GraphAssumption ==
  MaxClock \in Nat /\ MaxRuns \in Nat /\ MaxCuts \in Nat

VARIABLES
  clock,        \* true time; now_ms() differs from it by a constant
  dryer,        \* whether it runs, its counter, when the run began, how many
  cuts,         \* history: power cuts so far
  powered,      \* the adapter has power
  series,       \* s_trend
  seen,         \* s_last_running and s_last_batch_elapsed; at is history: when
  stale,        \* s_trend_file_stale
  persisted,    \* s_trend_persisted
  resumed,      \* s_resume_done
  ready,        \* hr_capture_ready()
  pc, loc,      \* the main loop: its place and its local copies
  file,         \* trend.bin: its points and the counter stored with them;
                \* whole and silence are history: whether it was written to
                \* its end, and how old the counter was by then
  clean,        \* history: the run was heard to begin after the resume
  atCut,        \* history: the points of the file when the power was cut
  twice         \* history: silences stored with a file that was restored

ram   == <<series, seen, stale, persisted, resumed, ready, pc, loc>>
world == <<clock, dryer, cuts, powered>>
past  == <<clean, atCut, twice>>
graphVars == <<clock, dryer, cuts, powered, series, seen, stale, persisted,
              resumed, ready, pc, loc, file, clean, atCut, twice>>

NoFile == [pts |-> <<>>, elapsed |-> 0, whole |-> TRUE, silence |-> 0]
NoLoc  == [elapsed |-> 0, have |-> 0, n |-> 0, silence |-> 0]
Unseen == [running |-> FALSE, elapsed |-> -1, at |-> 0]

RamInit ==
  /\ series = Empty /\ seen = Unseen
  /\ stale = FALSE /\ persisted = 0 /\ resumed = FALSE /\ ready = FALSE
  /\ pc = "top" /\ loc = NoLoc

GraphInit ==
  /\ clock = 0 /\ cuts = 0 /\ powered = TRUE
  /\ dryer = [on |-> FALSE, elapsed |-> 0, began |-> 0, runs |-> 0]
  /\ RamInit
  /\ file = NoFile /\ clean = FALSE /\ atCut = <<>> /\ twice = 0

----------------------------------------------------------------------------
(* Time and the dryer                                                      *)

TimeGoesOn ==
  /\ clock < MaxClock
  /\ pc = "top"
  /\ clock' = clock + 1
  /\ dryer' = IF dryer.on THEN [dryer EXCEPT !.elapsed = @ + 1] ELSE dryer
  /\ UNCHANGED <<cuts, powered, ram, file, past>>

(* A run ends, one begins, or one follows another with no idle report,     *)
(* not in the very beginning of it.                                        *)
After(d) ==
  (IF d.on THEN {[d EXCEPT !.on = FALSE]} ELSE {})
    \cup (IF d.runs < MaxRuns /\ (d.on => d.elapsed > 0)
          THEN {[on |-> TRUE, elapsed |-> 0, began |-> clock,
                 runs |-> d.runs + 1]}
          ELSE {})

Unheard ==
  /\ ~powered
  /\ dryer' \in After(dryer)
  /\ clean' = FALSE
  /\ UNCHANGED <<clock, cuts, powered, ram, file, atCut, twice>>

----------------------------------------------------------------------------
(* The USB receive task: a report, on a change or repeated                 *)

(* A run begins: the phase starts to run, or the counter went back.        *)
SlipBegins(d) == d.on /\ ~seen.running
Begins(d) ==
  d.on /\ (~seen.running \/ (seen.elapsed >= 0 /\ d.elapsed < seen.elapsed))

Hear ==
  /\ powered
  /\ \E d \in {dryer} \cup After(dryer) :
       /\ seen.running /\ d.on /\ d # dryer => seen.elapsed > 0
       /\ dryer' = d
       /\ IF Begins(d)
          THEN series' = Add(Empty, clock) /\ persisted' = 0 /\ stale' = TRUE
          ELSE series' = Add(series, clock) /\ UNCHANGED <<persisted, stale>>
       /\ clean' = IF d.runs # dryer.runs
                   THEN resumed /\ pc # "restore" ELSE clean
       /\ seen' = [running |-> d.on, elapsed |-> d.elapsed, at |-> clock]
  /\ UNCHANGED <<clock, cuts, powered, resumed, ready, pc, loc, file, atCut, twice>>

----------------------------------------------------------------------------
(* The main loop                                                           *)

Goto(from, to) == powered /\ pc = from /\ pc' = to

Mounted ==
  /\ powered /\ ~ready
  /\ ready' = TRUE
  /\ UNCHANGED <<world, series, seen, stale, persisted, resumed, pc, loc, file,
                 past>>

(* Under s_hist_lock: old buckets are closed and the note is taken.        *)
Sweep ==
  /\ Goto("top", IF stale THEN "remove" ELSE "resume")
  /\ series' = Tick(series, clock)
  /\ stale' = FALSE
  /\ UNCHANGED <<world, seen, persisted, resumed, ready, loc, file, past>>

(* hr_capture_trend_reset does nothing before the mount.                   *)
SlipRemoveFile ==
  /\ Goto("remove", "resume")
  /\ UNCHANGED <<world, series, seen, stale, persisted, resumed, ready, loc,
                 file, past>>
RemoveFile ==
  /\ Goto("remove", "resume")
  /\ file' = IF ready THEN NoFile ELSE file
  /\ UNCHANGED <<world, series, seen, stale, persisted, resumed, ready, loc,
                 past>>

MayResume == ~resumed /\ ready /\ seen.elapsed >= 0

ResumeNot ==
  /\ Goto("resume", "persist")
  /\ ~MayResume
  /\ UNCHANGED <<world, series, seen, stale, persisted, resumed, ready, loc,
                 file, past>>

Resume ==
  /\ Goto("resume", "restore")
  /\ MayResume
  /\ resumed' = TRUE
  /\ loc' = [loc EXCEPT !.elapsed = seen.elapsed]
  /\ UNCHANGED <<world, series, seen, stale, persisted, ready, file, past>>

(* Under s_hist_lock: the file's points, then gaps for the time the dryer  *)
(* has counted since; or, if its counter is lower, a new series.           *)
SlipContinued ==
  [Restored(file.pts, (loc.elapsed - file.elapsed) \div Bucket)
     EXCEPT !.pts = series.pts \o @]
Continued == Restored(file.pts, (loc.elapsed - file.elapsed) \div Bucket)

Restore ==
  /\ Goto("restore", "persist")
  /\ IF file.pts # <<>> /\ loc.elapsed >= file.elapsed
     THEN /\ series' = Continued
          /\ persisted' = Len(Continued.pts)
          /\ stale' = stale /\ twice' = twice + file.silence
     ELSE /\ series' = Empty /\ persisted' = 0 /\ stale' = TRUE
          /\ twice' = twice
  /\ UNCHANGED <<world, seen, resumed, ready, loc, file, clean, atCut>>

Due == resumed /\ Len(series.pts) > persisted

(* Nothing new, or the last try is less than five seconds ago              *)
PersistNot ==
  /\ Goto("persist", "top")
  /\ UNCHANGED <<world, series, seen, stale, persisted, resumed, ready, loc,
                 file, past>>

Persist ==
  /\ Goto("persist", "save")
  /\ Due
  /\ loc' = [NoLoc EXCEPT !.have = Len(series.pts), !.elapsed = seen.elapsed,
                          !.silence = clock - seen.at]
  /\ UNCHANGED <<world, series, seen, stale, persisted, resumed, ready, file,
                 past>>

(* hr_capture_trend_save, under s_lock but not s_hist_lock: the file is    *)
(* truncated, and rewritten with the points as they are by now.            *)
SaveNot ==
  /\ Goto("save", "top")                      \* nothing left, or no lock
  /\ UNCHANGED <<world, series, seen, stale, persisted, resumed, ready, loc,
                 file, past>>

SaveOpen ==
  /\ Goto("save", "write")
  /\ series.pts # <<>>
  /\ file' = [pts |-> <<>>, elapsed |-> loc.elapsed, whole |-> FALSE,
              silence |-> loc.silence]
  /\ loc' = [loc EXCEPT !.n = Len(series.pts)]
  /\ UNCHANGED <<world, series, seen, stale, persisted, resumed, ready, past>>

Written == Len(file.pts)

SavePoint ==
  /\ Goto("write", "write")
  /\ Written < loc.n /\ Written < Len(series.pts)
  /\ file' = [file EXCEPT !.pts = Append(@, series.pts[Written + 1])]
  /\ UNCHANGED <<world, series, seen, stale, persisted, resumed, ready, loc,
                 past>>

(* The series was emptied under the save: it fails.                        *)
SaveFails ==
  /\ Goto("write", "top")
  /\ Written < loc.n /\ Written >= Len(series.pts)
  /\ UNCHANGED <<world, series, seen, stale, persisted, resumed, ready, loc,
                 file, past>>

SaveClose ==
  /\ Goto("write", "saved")
  /\ Written = loc.n
  /\ file' = [file EXCEPT !.whole = TRUE]
  /\ UNCHANGED <<world, series, seen, stale, persisted, resumed, ready, loc,
                 past>>

Saved ==
  /\ Goto("saved", "top")
  /\ persisted' = loc.have
  /\ UNCHANGED <<world, series, seen, stale, resumed, ready, loc, file, past>>

Main == \/ Sweep \/ RemoveFile \/ ResumeNot \/ Resume \/ Restore
        \/ PersistNot \/ Persist \/ SaveNot \/ SaveOpen \/ SavePoint
        \/ SaveFails \/ SaveClose \/ Saved

----------------------------------------------------------------------------
(* The power                                                               *)

Cut ==
  /\ powered /\ cuts < MaxCuts
  /\ powered' = FALSE /\ cuts' = cuts + 1
  /\ atCut' = file.pts /\ clean' = FALSE
  /\ series' = Empty /\ seen' = Unseen
  /\ stale' = FALSE /\ persisted' = 0 /\ resumed' = FALSE /\ ready' = FALSE
  /\ pc' = "top" /\ loc' = NoLoc
  /\ UNCHANGED <<clock, dryer, file, twice>>

Boot ==
  /\ ~powered /\ powered' = TRUE
  /\ UNCHANGED <<clock, dryer, cuts, ram, file, past>>

GraphNext == \/ TimeGoesOn \/ Unheard \/ Hear \/ Mounted \/ Main \/ Cut \/ Boot

GraphSpec == GraphInit /\ [][GraphNext]_graphVars

----------------------------------------------------------------------------
(* Properties                                                              *)

Points == {Gap} \cup 0..MaxClock

(* The type of the state; neither series outgrows the window.              *)
GraphTypeOK ==
  /\ clock \in 0..MaxClock /\ cuts \in 0..MaxCuts /\ powered \in BOOLEAN
  /\ series.pts \in Seq(Points) /\ Len(series.pts) <= Capacity
  /\ series.open = Never \/ series.open \in 0..clock
  /\ seen.running \in BOOLEAN /\ seen.elapsed \in -1..MaxClock
  /\ stale \in BOOLEAN /\ resumed \in BOOLEAN /\ ready \in BOOLEAN
  /\ persisted \in 0..Capacity
  /\ pc \in {"top", "remove", "resume", "restore", "persist", "save",
             "write", "saved"}
  /\ file.pts \in Seq(Points) /\ Len(file.pts) <= Capacity

Real(pts) == {i \in DOMAIN pts : pts[i] # Gap}

(* The series reads in order of time, whatever was restored into it: what  *)
(* was gathered before the resume is not mixed with what came before the   *)
(* power cut.                                                              *)
SeriesInOrder ==
  \A i, j \in Real(series.pts) : i < j => series.pts[i] < series.pts[j]

(* Points are never further apart in the series than in time, through late *)
(* ticks, silences and outages; but for a silence that was in the file as  *)
(* gaps, and that the counter stored with it, being of before, adds again. *)
NotStretched ==
  \A i, j \in Real(series.pts) :
    i < j => (j - i) * Bucket <= series.pts[j] - series.pts[i] + twice

(* The series is a plot: its points are in order and as far apart as they  *)
(* were measured, through late ticks, silences and outages.                *)
SeriesSound == GraphTypeOK /\ SeriesInOrder /\ NotStretched

(* The graph of a run that was heard to begin holds no earlier reading, of *)
(* another run or of the idle time before.                                 *)
GraphIsOneRun ==
  seen.running /\ clean =>
    \A i \in Real(series.pts) : series.pts[i] >= dryer.began

(* Between passes, unless it is about to be removed, the file holds the    *)
(* beginning of the series and nothing of a former one, although it is     *)
(* written without the lock of the series.                                 *)
FileFollowsGraph ==
  pc = "top" /\ resumed /\ ~stale /\ Len(series.pts) < Capacity =>
    IsPrefix(file.pts, series.pts)

----------------------------------------------------------------------------
(* Claims of the documentation that the code does not keep                 *)

(* "Close elapsed graph buckets even while frames are absent, so a gap     *)
(* shows as a gap instead of compressing the time axis."  (main.c)         *)
TrueGrid ==
  \A i, j \in Real(series.pts) :
    i < j => series.pts[j] - series.pts[i] <= (j - i + 1) * Bucket

(* "so the difference against the last persisted point IS the outage"      *)
(* (main.c): the outage is in the series once.                             *)
OutageCountedOnce ==
  \A i, j \in Real(series.pts) :
    i < j => (j - i) * Bucket <= series.pts[j] - series.pts[i]

(* "Persisted to flash [...] so a power cut or a reflash no longer loses   *)
(* the run": what is stored of the run that is still going on is there     *)
(* when the resume is decided.  (main.c)                                   *)
StoredRunIsThere ==
  pc = "restore" /\ atCut # <<>> /\ atCut[1] >= dryer.began
    => file.pts = atCut

(* "one run's curve is never fitted across another's"  (hr_trend.h)        *)
RestoredIsThisRun ==
  seen.running /\ pc = "persist" =>
    \A i \in Real(series.pts) : series.pts[i] >= dryer.began

(* "A rewrite is self-consistent by construction."  (hr_capture.c)         *)
StoredIsWhole == pc = "restore" => file.whole

AllSaved == pc = "persist" /\ resumed /\ ~Due /\ ~stale => file.pts = series.pts

(* "Graph points already written to flash, so the loop only persists new   *)
(* ones."  (main.c)  With the window full, and with room in it.            *)
FullGraphSaved == Len(series.pts) = Capacity => AllSaved
NewGraphSaved  == Len(series.pts) < Capacity => AllSaved
=============================================================================
