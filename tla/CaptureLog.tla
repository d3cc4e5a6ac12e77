----------------------------- MODULE CaptureLog -----------------------------
(***************************************************************************)
(* The capture log of main/hr_capture.c: every frame off the dryer, in a   *)
(* ring of segment files.                                                  *)
(*   - The USB task stamps a frame and queues it, or drops it (append).    *)
(*   - The writer task takes one at a time under s_lock: it rotates to the *)
(*     next segment when the active one is full, collapses a run of equal  *)
(*     frames into one summary line, and writes.                           *)
(*   - The HTTP task downloads the segments oldest first, with the files   *)
(*     changing under it, or clears or formats the log.                    *)
(*   - A mount makes the set of files fit the partition.                   *)
(* The power may be cut between any two writes: the files and the index of *)
(* the active segment in NVS survive.                                      *)
(*                                                                         *)
(* A stamp is the number of the frame.  A line is a frame, or a summary of *)
(* count frames stamped first to last.                                     *)
(***************************************************************************)
EXTENDS Integers, Sequences, FiniteSets, SequencesExt

CONSTANTS
  Bodies,        \* what a frame may say
  Segments,      \* CAP_SEGMENTS
  QueueLen,      \* WRITE_Q_LEN
  Total,         \* s_total, the partition's capacity
  Reserve,       \* RESERVE_BYTES
  SegMin,        \* SEG_MIN_BYTES
  SegStep,       \* SEG_STEP_BYTES
  FrameNeed,     \* write_line_now's estimate of a frame's line
  SummarySize,   \* the size of a summary line; a frame's is 1
  Legacy,        \* the sizes a log of the old single-file kind may have
  Browsing,      \* whether the log is downloaded
  Wiping,        \* whether it is cleared, or the partition formatted
  MaxFrames      \* bound: frames the dryer sends

Budget == Total - Reserve
SegMax == Budget \div Segments          \* s_seg_max before any lowering
Seg    == 0..(Segments - 1)

ASSUME CaptureLogAssumption ==
  /\ Segments \in Nat \ {0, 1} /\ QueueLen \in Nat \ {0}
  /\ Reserve \in Nat /\ Total \in Nat /\ Total > Reserve
  /\ SegMin \in Nat \ {0} /\ SegStep \in Nat \ {0} /\ SegMin <= SegMax
  /\ FrameNeed \in Nat \ {0} /\ SummarySize \in Nat \ {0}
  /\ Legacy \subseteq Nat /\ MaxFrames \in Nat
  /\ Browsing \in BOOLEAN /\ Wiping \in BOOLEAN
  /\ Reserve >= Segments * SummarySize /\ SegStep <= SegMin

(* What a mount cannot make room for: a log of the old kind, renamed to    *)
(* the active segment, is dropped only when the rotation comes back to it. *)
OldLogFits ==
  \A k \in Legacy : k + (Segments - 1) * (SegMin + SummarySize) <= Total

VARIABLES
  files,     \* the segments on flash; an empty one is absent
  legacy,    \* frames.log, from before the rotation
  nvsSeg,    \* the key seg
  s_ready,   \* s_ready
  seg,       \* s_seg
  used,      \* s_seg_used
  max,       \* s_seg_max
  run,       \* s_run_body, s_run_count, s_run_first_ms, s_run_last_ms
  queue,     \* s_q
  writer,    \* the writer task: its place and the frame in its hands
  rd,        \* the download: its place, cap_reader_t, and what it has sent
  sent,      \* history: the body of every frame, Dropped if it was dropped
  lost       \* history: stamps of frames rotated out, cleared or cut off

flash   == <<files, legacy, nvsSeg>>
state   == <<s_ready, seg, used, max>>
history == <<sent, lost>>
logVars == <<files, legacy, nvsSeg, s_ready, seg, used, max, run, queue, writer,
          rd, sent, lost>>

Nobody  == "nobody"                             \* an empty s_run_body
Dropped == "dropped"
ASSUME BodiesAssumption == Nobody \notin Bodies /\ Dropped \notin Bodies

NoRun   == [body |-> Nobody, count |-> 0, first |-> 0, last |-> 0]
Resting == [at |-> "idle", n |-> 0]
NoRead  == [at |-> "idle", age |-> 0, cur |-> 0, pos |-> 0, gone |-> FALSE,
            got |-> <<>>]

FrameLine(n) == [body |-> sent[n], count |-> 0, first |-> n, last |-> n]
OldLine(n)   == [body |-> Nobody, count |-> 0, first |-> n, last |-> n]

LineSize(line) == IF line.count = 0 THEN 1 ELSE SummarySize
FileSize(f) ==
  Len(f) + (SummarySize - 1) * Cardinality({k \in DOMAIN f : f[k].count > 0})
SegSize == [i \in Seg |-> FileSize(files[i])]                    \* seg_size

(* The units of the partition that segments of these sizes take            *)
Space(sz) == UNION {{i} \X (1..sz[i]) : i \in Seg}
Sum(sz) == Cardinality(Space(sz))

(* seg_at: the segments in age order; 0 is the oldest                      *)
SegAt(age) == (seg + 1 + age) % Segments
Next1(i)   == (i + 1) % Segments

(* The log as it would be read, oldest first                               *)
InAge(active) ==
  FlattenSeq([k \in 1..Segments |-> files[(active + k) % Segments]])
Content == InAge(seg)

(* The stamps of the frames a line or a pending run stands for             *)
Covers(line) ==
  IF line.first < 1 THEN {}
  ELSE {n \in line.first..line.last : sent[n] = line.body /\ n \notin lost}
CoversAll(lines) == UNION {Covers(lines[i]) : i \in DOMAIN lines}
Stored  == UNION {CoversAll(files[i]) : i \in Seg}
Pending == IF run.count = 0 THEN {} ELSE Covers(run)
InHand  == IF writer.n = 0 THEN {} ELSE {writer.n}

LogInit ==
  /\ files = [i \in Seg |-> <<>>]
  /\ \E k \in Legacy : legacy = [i \in 1..k |-> OldLine(i - k)]
  /\ nvsSeg = 0 /\ s_ready = FALSE /\ seg = 0 /\ used = 0 /\ max = 0
  /\ run = NoRun /\ queue = <<>> /\ writer = Resting /\ rd = NoRead
  /\ sent = <<>> /\ lost = {}

----------------------------------------------------------------------------
(* The USB task: hr_capture_append                                         *)

Arrive(b) ==
  /\ Len(sent) < MaxFrames
  /\ IF Len(queue) < QueueLen
     THEN /\ sent' = Append(sent, b)
          /\ queue' = Append(queue, Len(sent) + 1)
     ELSE /\ sent' = Append(sent, Dropped)
          /\ queue' = queue
  /\ UNCHANGED <<flash, state, run, writer, rd, lost>>

----------------------------------------------------------------------------
(* The writer task: write_line_now                                         *)

At(place) == writer.at = place
GoOn(place) == writer' = [writer EXCEPT !.at = place]
Locked == writer.at \in {"rotate", "switch", "write"}

Take ==
  /\ At("idle") /\ queue # <<>>
  /\ writer' = [at |-> "lock", n |-> Head(queue)]
  /\ queue' = Tail(queue)
  /\ UNCHANGED <<flash, state, run, rd, history>>

(* Not mounted, or no lock in 200 ms: the frame is gone.                   *)
GiveUp ==
  /\ At("lock")
  /\ writer' = Resting
  /\ lost' = lost \cup InHand
  /\ UNCHANGED <<flash, state, run, queue, rd, sent>>

MustRotate == used + FrameNeed > max

Lock ==
  /\ At("lock") /\ s_ready
  /\ GoOn(IF MustRotate THEN "rotate" ELSE "write")
  /\ UNCHANGED <<flash, state, run, queue, rd, history>>

(* The oldest segment goes first, then the index moves on to it.           *)
Oldest == Next1(seg)

SlipRemoveOldest ==
  /\ At("rotate") /\ GoOn("switch")
  /\ UNCHANGED <<flash, state, run, queue, rd, history>>
RemoveOldest ==
  /\ At("rotate")
  /\ files' = [files EXCEPT ![Oldest] = <<>>]
  /\ lost' = lost \cup CoversAll(files[Oldest])
  /\ rd' = IF rd.at = "in" /\ rd.cur = Oldest THEN [rd EXCEPT !.gone = TRUE]
           ELSE rd
  /\ GoOn("switch")
  /\ UNCHANGED <<legacy, nvsSeg, state, run, queue, sent>>

SlipSwitch ==
  /\ At("switch")
  /\ seg' = Next1(seg) /\ used' = 0
  /\ GoOn("write")
  /\ UNCHANGED <<flash, s_ready, max, run, queue, rd, history>>
Switch ==
  /\ At("switch")
  /\ seg' = Next1(seg) /\ nvsSeg' = Next1(seg) /\ used' = 0
  /\ GoOn("write")
  /\ UNCHANGED <<files, legacy, s_ready, max, run, queue, rd, history>>

Emit(line) ==
  /\ files' = [files EXCEPT ![seg] = Append(@, line)]
  /\ used' = used + LineSize(line)

Same == sent[writer.n] = run.body

(* Same frame as last time: the run is extended, and written out when it   *)
(* has gone on for RUN_MAX_MS.                                             *)
Grown == [run EXCEPT !.count = @ + 1, !.last = writer.n]

Extend ==
  /\ At("write") /\ run.count > 0 /\ Same
  /\ \/ run' = Grown /\ UNCHANGED <<files, used>>
     \/ /\ Emit(Grown)
        /\ run' = [NoRun EXCEPT !.body = run.body]
  /\ writer' = Resting
  /\ UNCHANGED <<legacy, nvsSeg, s_ready, seg, max, queue, rd, history>>

BeginRun ==
  /\ At("write") /\ run.count = 0 /\ Same
  /\ run' = [run EXCEPT !.count = 1, !.first = writer.n, !.last = writer.n]
  /\ writer' = Resting
  /\ UNCHANGED <<flash, state, queue, rd, history>>

(* Another frame: first the pending summary, then the frame.               *)
Flush ==
  /\ At("write") /\ run.count > 0 /\ ~Same
  /\ Emit(run)
  /\ run' = [NoRun EXCEPT !.body = run.body]
  /\ UNCHANGED <<legacy, nvsSeg, s_ready, seg, max, queue, writer, rd, history>>

Write ==
  /\ At("write") /\ run.count = 0 /\ ~Same
  /\ Emit(FrameLine(writer.n))
  /\ run' = [NoRun EXCEPT !.body = sent[writer.n]]
  /\ writer' = Resting
  /\ UNCHANGED <<legacy, nvsSeg, s_ready, seg, max, queue, rd, history>>

Writer == \/ Take \/ GiveUp \/ Lock \/ RemoveOldest \/ Switch
          \/ Extend \/ BeginRun \/ Flush \/ Write

----------------------------------------------------------------------------
(* The HTTP task: a download, hr_capture_open, _read and _close            *)

Open ==
  /\ Browsing /\ rd.at = "idle" /\ s_ready
  /\ \/ UNCHANGED <<files, used, run>>        \* nothing to flush, or no lock
     \/ /\ ~Locked /\ run.count > 0
        /\ Emit(run)
        /\ run' = [NoRun EXCEPT !.body = run.body]
  /\ rd' = [NoRead EXCEPT !.at = "between"]
  /\ UNCHANGED <<legacy, nvsSeg, s_ready, seg, max, queue, writer, history>>

SlipReadSegment == rd.age
ReadSegment == SegAt(rd.age)

OpenSegment ==
  /\ rd.at = "between" /\ rd.age < Segments
  /\ rd' = IF files[ReadSegment] = <<>> THEN [rd EXCEPT !.age = @ + 1]
           ELSE [rd EXCEPT !.age = @ + 1, !.at = "in", !.cur = ReadSegment,
                           !.pos = 0, !.gone = FALSE]
  /\ UNCHANGED <<flash, state, run, queue, writer, history>>

ReadLine ==
  /\ rd.at = "in" /\ ~rd.gone /\ rd.pos < Len(files[rd.cur])
  /\ rd' = [rd EXCEPT !.pos = @ + 1,
                      !.got = Append(@, files[rd.cur][rd.pos + 1])]
  /\ UNCHANGED <<flash, state, run, queue, writer, history>>

EndOfSegment ==
  /\ rd.at = "in" /\ (rd.gone \/ rd.pos >= Len(files[rd.cur]))
  /\ rd' = [rd EXCEPT !.at = "between", !.cur = 0, !.pos = 0, !.gone = FALSE]
  /\ UNCHANGED <<flash, state, run, queue, writer, history>>

(* At the end, or when the browser goes away.                              *)
CloseDownload ==
  /\ rd.at # "idle"
  /\ rd' = NoRead
  /\ UNCHANGED <<flash, state, run, queue, writer, history>>

Download == \/ Open \/ OpenSegment \/ ReadLine \/ EndOfSegment
            \/ CloseDownload

(* hr_capture_clear                                                        *)
Clear ==
  /\ Wiping /\ rd.at = "idle" /\ s_ready /\ ~Locked
  /\ files' = [i \in Seg |-> <<>>] /\ legacy' = <<>>
  /\ seg' = 0 /\ nvsSeg' = 0 /\ used' = 0 /\ run' = NoRun
  /\ lost' = lost \cup Pending \cup Stored
  /\ UNCHANGED <<s_ready, max, queue, writer, rd, sent>>

(* hr_capture_format: the run in RAM and the index in NVS stay.            *)
Format ==
  /\ Wiping /\ rd.at = "idle" /\ s_ready /\ ~Locked
  /\ files' = [i \in Seg |-> <<>>] /\ legacy' = <<>>
  /\ s_ready' = FALSE
  /\ lost' = lost \cup Stored
  /\ UNCHANGED <<nvsSeg, seg, used, max, run, queue, writer, rd, sent>>

----------------------------------------------------------------------------
(* hr_capture_mount_now: at boot, or after a format                        *)

(* projected_set: every segment grows to the ceiling, or is past it        *)
Projected(sz, ceiling) ==
  Sum([i \in Seg |-> IF sz[i] > ceiling THEN sz[i] ELSE ceiling])
Fits(sz, ceiling) == Projected(sz, ceiling) <= Budget

(* The ceiling gives way first, in steps, down to its floor ...            *)
Lowered(k) == IF k * SegStep < SegMax THEN SegMax - k * SegStep ELSE 0
Ceiling(sz) ==
  LET enough(k) == Lowered(k) <= SegMin \/ Fits(sz, Lowered(k))
  IN  Lowered(CHOOSE k \in 0..SegMax : enough(k) /\ \A j \in 0..(k - 1) : ~enough(j))

(* ... then segments that are not active go, the biggest first, and as few *)
(* as there must.  The sizes that are left:                                *)
Kept(sz, active, ceiling) ==
  LET others == {i \in Seg \ {active} : sz[i] > 0}
      sooner(i, j) == sz[j] < sz[i] \/ (sz[j] = sz[i] /\ i < j)
      inTurn(d) == \A j \in d, i \in others : sooner(i, j) => i \in d
      without(d) == [i \in Seg |-> IF i \in d THEN 0 ELSE sz[i]]
      enough(d) == inTurn(d) /\ (Fits(without(d), ceiling) \/ d = others)
  IN  without(CHOOSE d \in SUBSET others :
                enough(d) /\ \A e \in SUBSET others : enough(e) => d \subseteq e)

MountLog ==
  /\ ~s_ready
  /\ rd.at = "idle"
  /\ LET start == IF legacy # <<>> /\ files[0] = <<>>
                  THEN [files EXCEPT ![0] = legacy] ELSE files
         sz == [i \in Seg |-> FileSize(start[i])]
         kept == Kept(sz, nvsSeg, Ceiling(sz))
         gone == {i \in Seg : sz[i] > 0 /\ kept[i] = 0}
     IN  /\ files' = [i \in Seg |-> IF i \in gone THEN <<>> ELSE start[i]]
         /\ lost' = lost \cup UNION {CoversAll(start[i]) : i \in gone}
         /\ seg' = nvsSeg
         /\ used' = sz[nvsSeg]
         /\ max' = Ceiling(sz)
  /\ legacy' = <<>> /\ s_ready' = TRUE
  /\ UNCHANGED <<nvsSeg, run, queue, writer, rd, sent>>

----------------------------------------------------------------------------
(* A restart, with the pending run written out, or a power cut             *)

Down ==
  /\ \/ UNCHANGED files
     \/ /\ s_ready /\ ~Locked /\ rd.at = "idle" /\ run.count > 0
        /\ files' = [files EXCEPT ![seg] = Append(@, run)]
  /\ lost' = lost \cup ToSet(queue) \cup InHand
                  \cup (IF files' = files THEN Pending ELSE {})
  /\ s_ready' = FALSE /\ seg' = 0 /\ used' = 0 /\ max' = 0
  /\ run' = NoRun /\ queue' = <<>> /\ writer' = Resting /\ rd' = NoRead
  /\ UNCHANGED <<legacy, nvsSeg, sent>>

LogNext == \/ \E b \in Bodies : Arrive(b)
        \/ Writer \/ Download \/ Clear \/ Format \/ MountLog \/ Down

LogSpec == LogInit /\ [][LogNext]_logVars

(* The writer task runs.                                                   *)
LogFairSpec == LogSpec /\ WF_logVars(Writer)

----------------------------------------------------------------------------
(* Properties                                                              *)

Line == [body : Bodies \cup {Nobody}, count : Nat, first : Int, last : Int]

(* The type of the state.                                                  *)
LogTypeOK ==
  /\ \A i \in Seg : files[i] \in Seq(Line)
  /\ legacy \in Seq(Line) /\ nvsSeg \in Seg
  /\ s_ready \in BOOLEAN /\ seg \in Seg /\ used \in Nat
  /\ max \in 0..SegMax
  /\ run \in Line
  /\ Len(queue) <= QueueLen
  /\ writer.at \in {"idle", "lock", "rotate", "switch", "write"}
  /\ rd.at \in {"idle", "between", "in"} /\ rd.age \in 0..Segments
  /\ sent \in Seq(Bodies \cup {Dropped})
  /\ lost \subseteq DOMAIN sent

(* Where the frame stamped n is                                            *)
Places(n) ==
     (UNION {{<<"file", i, k>> : k \in {m \in DOMAIN files[i] : n \in Covers(files[i][m])}}
                : i \in Seg})
  \cup {<<"run", 0, m>> : m \in Pending \cap {n}}
  \cup {<<"hand", 0, m>> : m \in InHand \cap {n}}
  \cup {<<"queue", 0, k>> : k \in {m \in DOMAIN queue : queue[m] = n}}

(* Every frame that was queued is in exactly one place: in a line of the   *)
(* log, in the pending run, in the writer's hands or in the queue, unless  *)
(* it went with an old segment, a clear, a missed lock or the power.       *)
FramesAccounted ==
  \A n \in DOMAIN sent :
    sent[n] = Dropped \/ n \in lost \/ \E p \in Places(n) : Places(n) = {p}

(* A summary says how many equal frames it stands for, and counts right.   *)
SummariesExact ==
  \A i \in Seg : \A k \in DOMAIN files[i] :
    LET line == files[i][k]
    IN  line.count > 0 => line.count = Cardinality(Covers(line))

Before(f, g) == \A i \in DOMAIN f, j \in DOMAIN g : f[i].last < g[j].first
Ordered(lines) ==
  \A i, j \in DOMAIN lines : i < j => lines[i].last < lines[j].first

(* Read in age order the log is in order of time, whatever was rotated,    *)
(* lost to a power cut, or dropped to make room: the index of the active   *)
(* segment is never behind the files once the log is mounted.              *)
LogInOrder ==
  s_ready => \A a \in 0..(Segments - 1) :
               /\ Ordered(files[SegAt(a)])
               /\ \A b \in (a + 1)..(Segments - 1) :
                    Before(files[SegAt(a)], files[SegAt(b)])

(* A download, with segments rotated under it, sends no line twice and     *)
(* none out of order.                                                      *)
DownloadInOrder == Ordered(rd.got)

(* The files never fill the partition: "SPIFFS starts refusing writes and  *)
(* emit() has no way to report it".                                        *)
NeverFull == Sum(SegSize) + FileSize(legacy) <= Total

(* The log as a reader finds it: every frame in it or on its way, in order *)
(* of time, each summary right, and with room for what is written next.    *)
LogSound == LogTypeOK /\ FramesAccounted /\ LogInOrder /\ SummariesExact /\ NeverFull

OnlyOldestGone ==
  \E k \in 0..Len(Content) :
    LET kept  == SubSeq(Content, k + 1, Len(Content))
        added == SubSeq(Content', Len(kept) + 1, Len(Content'))
    IN  IsPrefix(kept, Content') /\ ToSet(added) \cap ToSet(Content) = {}

(* While the log is mounted it changes only at its ends: lines are added   *)
(* at the young one and only whole lines at the old one go.                *)
GrowsAtTheEnd == [][s_ready /\ s_ready' => OnlyOldestGone]_logVars

----------------------------------------------------------------------------
(* Claims of the documentation that the code does not keep                 *)

(* "does recorded data have to go, oldest first" (hr_capture.c): what a    *)
(* mount drops to make the log fit is its oldest part.                     *)
MountDropsOldest ==
  [][~s_ready /\ s_ready' /\ legacy = <<>>
       => \E k \in 0..Len(InAge(nvsSeg)) :
            SubSeq(InAge(nvsSeg), k + 1, Len(InAge(nvsSeg))) = Content']_logVars

(* "A download spans every segment, oldest first, so it reads as one       *)
(* continuous log" (hr_capture.c): no frame is missing inside a download   *)
(* that is still in the log.                                               *)
DownloadContinuous ==
  \A k \in DOMAIN rd.got \ {1} :
    \A i \in DOMAIN Content :
      ~(rd.got[k - 1].last < Content[i].first
          /\ Content[i].last < rd.got[k].first)
=============================================================================
