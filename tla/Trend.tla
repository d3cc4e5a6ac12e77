------------------------------- MODULE Trend -------------------------------
(***************************************************************************)
(* The graph series of components/hr_protocol/hr_trend.c: readings arrive  *)
(* whenever the dryer reports, and are put in buckets of a fixed width.    *)
(* The operators take the series, tr, and return the next one.             *)
(*                                                                         *)
(* A point is the time its bucket was opened by a reading, or Gap when no  *)
(* reading fell in it: the median and the smoothed temperature, which ride *)
(* along in the code, do not decide when a bucket opens or closes.  A      *)
(* bucket that is open holds a reading: one that is opened for a gap is    *)
(* closed in the same call.                                                *)
(***************************************************************************)
EXTENDS Integers, Sequences

CONSTANTS
  Bucket,       \* HR_TREND_BUCKET_MS, in units of the clock
  Capacity      \* HR_TREND_CAPACITY

ASSUME TrendAssumption == Bucket \in Nat \ {0} /\ Capacity \in Nat \ {0}

Gap   == -1                            \* HR_TREND_NO_TEMP
Never == -1                            \* no have_bucket

Empty == [pts |-> <<>>, open |-> Never]                    \* hr_trend_reset

(* The series holds Capacity points; the oldest make room.                 *)
Window(pts) ==
  IF Len(pts) <= Capacity THEN pts
  ELSE SubSeq(pts, Len(pts) - Capacity + 1, Len(pts))

Gaps(n) == [i \in 1..n |-> Gap]

(* hr_trend_tick: the open bucket, once its time is over, and every whole  *)
(* bucket's width the clock is past it.                                    *)
Tick(tr, now) ==
  IF tr.open = Never \/ now - tr.open < Bucket THEN tr
  ELSE [pts  |-> Window(tr.pts \o <<tr.open>>
                          \o Gaps((now - tr.open) \div Bucket - 1)),
        open |-> Never]

(* hr_trend_add: a reading opens a bucket if none is open.                 *)
Add(tr, now) ==
  LET t == Tick(tr, now)
  IN  IF t.open = Never THEN [t EXCEPT !.open = now] ELSE t

(* hr_trend_restore_point and hr_trend_restore_gap: what is too much is    *)
(* left out at the young end.                                              *)
Restored(pts, gaps) ==
  LET all == pts \o Gaps(gaps)
  IN  [pts  |-> IF Len(all) <= Capacity THEN all
                ELSE SubSeq(all, 1, Capacity),
       open |-> Never]
=============================================================================
