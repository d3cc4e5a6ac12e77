----------------------------- MODULE BatchStore -----------------------------
(***************************************************************************)
(* main/hr_batchstore.c: the logbook on flash.  Two files take turns: when *)
(* the active one is full the other is removed and becomes the active one. *)
(* Which is active is kept in RAM (s_active) and in NVS ("seg").           *)
(*   - The main loop opens the store and appends records.                  *)
(*   - The web server's task streams the logbook, clears it, and opens the *)
(*     store anew after a format of the partition.                         *)
(* Nothing keeps the two apart: s_active is read and written by both.  The *)
(* power may be cut anywhere; an append it cuts may leave part of a line.  *)
(* A file is a sequence of pieces, one append each; a piece that was cut   *)
(* has no end of line.  An empty file is as an absent one.                 *)
(* An append refused by the gate or by an unready store changes nothing    *)
(* here: Logbook models that its record is lost.                           *)
(***************************************************************************)
EXTENDS Integers, Sequences, SequencesExt

CONSTANTS
  SegMax,       \* SEG_MAX, in records
  FilesFail,    \* whether fopen may fail
  Wiping,       \* whether the logbook is cleared and the partition formatted
  Overlap,      \* bound: appends that meet one clear or one reopening
  MaxRec,       \* bound: appends that reach the flash
  MaxCuts       \* bound: power cuts

ASSUME BatchStoreAssumption ==
  /\ SegMax \in Nat \ {0} /\ Overlap \in Nat
  /\ MaxRec \in Nat /\ MaxCuts \in Nat
  /\ FilesFail \in BOOLEAN /\ Wiping \in BOOLEAN

Segs  == {0, 1}
NoKey == -1

VARIABLES
  file,       \* the two files
  nvs,        \* the key "seg"
  mounted,    \* the capture partition is there
  ready,      \* s_ready
  active,     \* s_active
  main,       \* the main loop: where it is in a call, the value of s_active it
              \* works with, and whether its open file is still there
  web,        \* the same of the web server; its reader's stage and position;
              \* the appends the call met
  got,        \* what the reader has sent
  cuts,       \* bound
  done        \* history: the pieces on flash since the logbook was empty, those
              \* the rotation removed included

ram  == <<ready, active, main, web, got>>
vars == <<file, nvs, mounted, ram, cuts, done>>

MainIdle == [at |-> "top", seg |-> 0, live |-> TRUE]
WebIdle  == [at |-> "idle", seg |-> 0, live |-> TRUE, stage |-> 0, pos |-> 0, met |-> 0]

Other(s) == 1 - s

(* load_active: without the key s_active keeps the value it has.           *)
Loaded == IF nvs = NoKey THEN active ELSE nvs

Init ==
  /\ file = [s \in Segs |-> <<>>] /\ nvs = NoKey /\ mounted = TRUE
  /\ ready = FALSE /\ active = 0 /\ main = MainIdle /\ web = WebIdle
  /\ got = <<>> /\ cuts = 0 /\ done = <<>>

Main(from, to) == main.at = from /\ main' = [main EXCEPT !.at = to]
Web(from, to)  == web.at = from /\ web' = [web EXCEPT !.at = to]

(* An open descriptor of a file that is removed reads and writes nothing.  *)
Cut(open, s) == IF open.seg = s THEN [open EXCEPT !.live = FALSE] ELSE open

Sizes == Len(file[0]) + Len(file[1])

----------------------------------------------------------------------------
(* hr_batchstore_init, by either task: load_active outside the gate, then  *)
(* the active file is opened for appending, which shows that it can be.    *)
InitLoad == active' = Loaded

InitOpen ==
  /\ ready' \in IF mounted THEN IF FilesFail THEN BOOLEAN ELSE {TRUE}
                ELSE {FALSE}
  /\ UNCHANGED <<file, nvs, mounted, active, got, cuts, done>>

MainInit ==
  /\ Main("top", "init") /\ mounted /\ ~ready
  /\ InitLoad
  /\ UNCHANGED <<file, nvs, mounted, ready, web, got, cuts, done>>
MainInitOpen == Main("init", "top") /\ InitOpen /\ UNCHANGED web

----------------------------------------------------------------------------
(* hr_batchstore_append, on the main loop, inside the gate                 *)

(* A rotation comes before the write that would not fit.                   *)
Full == Len(file[active]) + 1 > SegMax

(* No more appends than these meet one call of the web server that writes: *)
(* runs take hours, such a call less than a second.                        *)
Busy == web.at \notin {"idle", "reading"}

AppendBegin ==
  /\ Main("top", IF Full THEN "rotate" ELSE "open")
  /\ ready /\ mounted
  /\ IF Busy THEN web.met < Overlap /\ web' = [web EXCEPT !.met = @ + 1]
     ELSE UNCHANGED web
  /\ UNCHANGED <<file, nvs, mounted, ready, active, got, cuts, done>>

(* What is expected of the logbook while it is being cleared: what is left *)
(* of it, which is in the one file that has not been removed.              *)
Remains(f) == LET left == f[0] \o f[1] IN [k \in DOMAIN left |-> left[k].id]

SlipRotateRemove ==
  /\ main.at = "rotate"
  /\ main' = [main EXCEPT !.at = "switch", !.seg = Other(active)]
  /\ UNCHANGED <<file, nvs, mounted, ready, active, web, got, cuts, done>>
RotateRemove ==
  /\ main.at = "rotate"
  /\ main' = [main EXCEPT !.at = "switch", !.seg = Other(active)]
  /\ file' = [file EXCEPT ![Other(active)] = <<>>]
  /\ web' = Cut(web, Other(active))
  /\ done' = IF web.at = "remove1" THEN Remains(file') ELSE done
  /\ UNCHANGED <<nvs, mounted, ready, active, got, cuts>>

RotateSwitch ==
  /\ Main("switch", "read")
  /\ active' = main.seg
  /\ UNCHANGED <<file, nvs, mounted, ready, web, got, cuts, done>>

(* save_active: s_active is read when the key is about to be written.      *)
RotateSave ==
  /\ \/ main.at = "read" /\ main' = [main EXCEPT !.at = "save", !.seg = active]
        /\ UNCHANGED nvs
     \/ Main("save", "open") /\ nvs' = main.seg
  /\ UNCHANGED <<file, mounted, ready, active, web, got, cuts, done>>

AppendOpen ==
  /\ main.at = "open"
  /\ main' = [at |-> "write", seg |-> active, live |-> TRUE]
  /\ UNCHANGED <<file, nvs, mounted, ready, active, web, got, cuts, done>>

AppendFails ==
  /\ FilesFail /\ Main("open", "top")
  /\ UNCHANGED <<file, nvs, mounted, ready, active, web, got, cuts, done>>

NextId == IF done = <<>> THEN 1 ELSE Last(done) + 1

(* What the flash is left with of a write: all of the line, or some.       *)
Put(whole) ==
  /\ NextId <= MaxRec
  /\ file' = [file EXCEPT ![main.seg] = Append(@, [id |-> NextId, whole |-> whole])]
  /\ done' = Append(done, NextId)

AppendWrite ==
  /\ Main("write", "top")
  /\ IF main.live THEN Put(TRUE) ELSE UNCHANGED <<file, done>>
  /\ UNCHANGED <<nvs, mounted, ready, active, web, got, cuts>>

----------------------------------------------------------------------------
(* The reader, on the web server's task, inside the gate from its opening  *)
(* to its closing: the segment that is not active first.                   *)

(* open_stage, with the s_active of this moment                            *)
SlipOpenStage(stage) ==
  LET seg(st) == IF st = 1 THEN Other(active) ELSE active
      st == IF stage = 0 /\ file[seg(0)] = <<>> THEN 1 ELSE stage
  IN  IF st = 1 /\ file[seg(1)] = <<>> THEN WebIdle
      ELSE [at |-> "reading", seg |-> seg(st), live |-> TRUE, stage |-> st, pos |-> 0, met |-> 0]
OpenStage(stage) ==
  LET seg(st) == IF st = 0 THEN Other(active) ELSE active
      st == IF stage = 0 /\ file[seg(0)] = <<>> THEN 1 ELSE stage
  IN  IF st = 1 /\ file[seg(1)] = <<>> THEN WebIdle
      ELSE [at |-> "reading", seg |-> seg(st), live |-> TRUE, stage |-> st, pos |-> 0, met |-> 0]

Download ==
  /\ web.at = "idle" /\ ready /\ mounted
  /\ web' = OpenStage(0) /\ got' = <<>>
  /\ UNCHANGED <<file, nvs, mounted, ready, active, main, cuts, done>>

More == web.live /\ web.pos < Len(file[web.seg])

Read ==
  /\ web.at = "reading" /\ More
  /\ web' = [web EXCEPT !.pos = @ + 1]
  /\ got' = Append(got, file[web.seg][web.pos + 1])
  /\ UNCHANGED <<file, nvs, mounted, ready, active, main, cuts, done>>

ReadNext ==
  /\ web.at = "reading" /\ ~More
  /\ web' = IF web.stage = 0 THEN OpenStage(1) ELSE WebIdle
  /\ UNCHANGED <<file, nvs, mounted, ready, active, main, got, cuts, done>>

(* The browser goes away.                                                  *)
ReadStops ==
  /\ web.at = "reading" /\ web' = WebIdle
  /\ UNCHANGED <<file, nvs, mounted, ready, active, main, got, cuts, done>>

----------------------------------------------------------------------------
(* hr_batchstore_clear, on the web server's task: the files inside the     *)
(* gate, s_active and its key after it.                                    *)

ClearBegin ==
  /\ Wiping /\ web.at = "idle" /\ ready /\ mounted
  /\ web' = [WebIdle EXCEPT !.at = "remove0",
                            !.met = IF main.at \in {"top", "init"} THEN 0 ELSE 1]
  /\ got' = <<>>
  /\ UNCHANGED <<file, nvs, mounted, ready, active, main, cuts, done>>

ClearRemove(s, from, to) ==
  /\ Web(from, to)
  /\ file' = [file EXCEPT ![s] = <<>>]
  /\ main' = IF main.at = "write" THEN Cut(main, s) ELSE main
  /\ done' = Remains(file')
  /\ UNCHANGED <<nvs, mounted, ready, active, got, cuts>>

ClearActive ==
  /\ Web("active", "read")
  /\ active' = 0
  /\ UNCHANGED <<file, nvs, mounted, ready, main, got, cuts, done>>

ClearSave ==
  /\ \/ web.at = "read" /\ web' = [web EXCEPT !.at = "save", !.seg = active]
        /\ UNCHANGED nvs
     \/ web.at = "save" /\ web' = WebIdle /\ nvs' = web.seg
  /\ UNCHANGED <<file, mounted, ready, active, main, got, cuts, done>>

Clear ==
  \/ ClearBegin
  \/ ClearRemove(0, "remove0", "remove1") \/ ClearRemove(1, "remove1", "active")
  \/ ClearActive \/ ClearSave

(* The partition is formatted: with the gate closed and nobody inside it   *)
(* (CaptureFs), so no append is under way.  It is mounted again or not; if *)
(* it is, the store is opened anew on this task.                           *)
Format ==
  /\ Wiping /\ mounted
  /\ main.at \in {"top", "init"}
  /\ file' = [s \in Segs |-> <<>>] /\ done' = <<>>
  /\ \/ mounted' = TRUE /\ Web("idle", "load")
     \/ mounted' = FALSE /\ Web("idle", "idle")
  /\ got' = <<>>
  /\ UNCHANGED <<nvs, ready, active, main, cuts>>

Reinit ==
  \/ /\ Web("load", "init") /\ InitLoad
     /\ UNCHANGED <<file, nvs, mounted, ready, main, got, cuts, done>>
  \/ web.at = "init" /\ web' = WebIdle /\ InitOpen /\ UNCHANGED main

----------------------------------------------------------------------------
(* A cut leaves the files and the key, and a line that was being written   *)
(* whole, in part, or not at all.                                          *)
PowerCut ==
  /\ cuts < MaxCuts /\ cuts' = cuts + 1
  /\ \/ UNCHANGED <<file, done>>
     \/ main.at = "write" /\ main.live /\ Put(FALSE)
  /\ ready' = FALSE /\ active' = 0 /\ main' = MainIdle /\ web' = WebIdle
  /\ got' = <<>> /\ mounted' = TRUE
  /\ UNCHANGED nvs

MainLoop ==
  \/ MainInit \/ MainInitOpen
  \/ AppendBegin \/ RotateRemove \/ RotateSwitch \/ RotateSave
  \/ AppendOpen \/ AppendFails \/ AppendWrite

WebServer ==
  \/ Download \/ Read \/ ReadNext \/ ReadStops
  \/ Clear \/ Format \/ Reinit

Next == MainLoop \/ WebServer \/ PowerCut

Spec == Init /\ [][Next]_vars

----------------------------------------------------------------------------
(* Properties                                                              *)

Pieces == [id : 1..MaxRec, whole : BOOLEAN]

(* The logbook when s is the active segment: the other one is older.       *)
LogOf(s) == file[Other(s)] \o file[s]
Ids(q)   == [k \in DOMAIN q |-> q[k].id]

AfterRestart == IF nvs = NoKey THEN 0 ELSE nvs

(* The segment a reader would take for the active one, now and after a     *)
(* restart.                                                                *)
Views == {AfterRestart} \cup IF ready THEN {active} ELSE {}

(* The type of the state.                                                  *)
TypeOK ==
  /\ file \in [Segs -> Seq(Pieces)] /\ nvs \in Segs \cup {NoKey}
  /\ mounted \in BOOLEAN /\ ready \in BOOLEAN /\ active \in Segs
  /\ main.at \in {"top", "init", "rotate", "switch", "read", "save", "open", "write"}
  /\ web.at \in {"idle", "reading", "remove0", "remove1", "active", "read",
                 "save", "load", "init"}
  /\ main.seg \in Segs /\ web.seg \in Segs /\ web.stage \in {0, 1}
  /\ web.met \in 0..Overlap /\ got \in Seq(Pieces) /\ cuts \in 0..MaxCuts

(* Whatever a rotation, a clear from the other task and a power cut do to  *)
(* s_active, to its key and to the files, and in whatever order: the       *)
(* logbook is the end of what was written, oldest first, with nothing      *)
(* missing in it - as read now, and as read after a restart.               *)
OldestFirst ==
  \A s \in Views : IsSuffix(Ids(LogOf(s)), done)

(* "The older half is gone": never more than that.  The newest records, as *)
(* many as a segment holds, are always there.                              *)
NewestHalfKept ==
  Sizes >= IF Len(done) < SegMax THEN Len(done) ELSE SegMax

(* No segment outgrows what the partition reserves for it, whichever task  *)
(* moves s_active between the check of the size and the write.             *)
Reserved == \A s \in Segs : Len(file[s]) <= SegMax

(* The logbook as anybody finds it.                                        *)
LogbookSound == TypeOK /\ OldestFirst /\ NewestHalfKept /\ Reserved

(* What a download sends is in order, and no record is in it twice, though *)
(* the main loop rotates the files under the reader.                       *)
DownloadOldestFirst ==
  \A k \in DOMAIN got \ {1} : got[k - 1].id < got[k].id

(* "GET /api/batches.csv - both segments, streamed, oldest first"          *)
(* (hr_http.c): what is sent is a stretch of the logbook without a hole.   *)
DownloadWithoutHole ==
  \A k \in DOMAIN got \ {1} : got[k].id = got[k - 1].id + 1

(* A line that decodes: whole, and at the beginning of a line              *)
Decodes(q, k) == q[k].whole /\ (k = 1 \/ q[k - 1].whole)

(* A write torn by a power cut "loses everything rather than one record.   *)
(* That is the same reasoning that makes the append itself append-only"    *)
(* (hr_batchstore.c): an append that is cut costs its own record, and every *)
(* whole line can be read.                                                 *)
TornCostsOne ==
  \A k \in DOMAIN LogOf(AfterRestart) :
    LogOf(AfterRestart)[k].whole => Decodes(LogOf(AfterRestart), k)
=============================================================================
