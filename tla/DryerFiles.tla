----------------------------- MODULE DryerFiles -----------------------------
(***************************************************************************)
(* Reading the dryer's own files, main/hr_dryerfiles.c, around the         *)
(* transfer state machine of HrFiles.  Three tasks meet under one lock,    *)
(* so each handler is one step:                                            *)
(*   - the web server lists, reads, cancels, switches off, and takes what  *)
(*     has arrived for the browser;                                        *)
(*   - the USB receive task hands over each answer;                        *)
(*   - the main loop ticks: timeouts, the link rule, the idle browser.     *)
(* Between the USB task and the web server lies a ring of bytes, allocated *)
(* for one read and freed once it has been drained or abandoned.           *)
(*                                                                         *)
(* The link to the dryer carries the requests in order (net).  The dryer   *)
(* answers the oldest one; an answer may come late, arrive corrupt, or not *)
(* come at all.  Meanwhile the dryer appends to its files, a row a minute   *)
(* to that of the batch it runs: a size learned from a listing may be out  *)
(* of date, and a late answer is of the file as it was some time ago.      *)
(***************************************************************************)
EXTENDS HrFiles, FiniteSets

CONSTANTS
  FileSize,     \* the dryer's files: a function from names to sizes
  Grown,        \* bound: the size each of them may grow to
  Unknown,      \* names the dryer has no file of
  Matches,      \* for each pattern, the names the dryer lists, in order
  RingCap,      \* HR_DF_RING_CAP
  TakeCap,      \* the bytes one GET takes at most, s_scratch.df.bytes
  ListMax,      \* HR_DF_LIST_MAX
  IdleMs,       \* HR_DF_IDLE_MS
  NetBound      \* bound: requests the dryer may have outstanding

ASSUME DryerFilesAssumption ==
  /\ RingCap \in Nat /\ RingCap >= BlockSize
  /\ TakeCap \in Nat \ {0} /\ ListMax \in Nat /\ IdleMs \in Nat
  /\ NetBound \in Nat \ {0}
  /\ FileSize \in [DOMAIN FileSize -> Nat] /\ Grown \in [DOMAIN FileSize -> Nat]
  /\ \A p \in DOMAIN Matches : Matches[p] \in Seq(DOMAIN FileSize)
  /\ NoName \notin DOMAIN FileSize \cup Unknown
  \* a transfer's argument says whether it is a pattern or a name
  /\ DOMAIN Matches \cap (DOMAIN FileSize \cup Unknown \cup {NoName}) = {}

VARIABLES
  fs,           \* s_fs
  enabled,      \* s_enabled
  linkUp,       \* s_link_up, as the main loop last told
  running,      \* s_running, likewise
  ring,         \* s_ring: buf, head, len, ended
  idle,         \* the time since a byte was last asked for, s_ring.last_take_ms
  list,         \* s_list[0 .. s_nlist - 1]
  listValid,    \* s_list_valid
  net,          \* requests on their way to the dryer, answers on their way back
  size,         \* the dryer's files as they are by now
  taken,        \* history: what the browser took of the current read
  mixed,        \* history: a request for another listing was still on its way
                \* when the latest listing began
  promised      \* history: what the current read has to bring to be whole

vars == <<fs, enabled, linkUp, running, ring, idle, list, listValid, net,
          size, taken, mixed, promised>>

Names    == DOMAIN FileSize \cup Unknown
Patterns == DOMAIN Matches

(* A byte is the file it belongs to and its place there.                   *)
Junk  == <<NoName, 0>>
Fresh == [k \in 0..(RingCap - 1) |-> Junk]     \* what malloc returns
NoBuf == <<>>                                  \* NULL

Init ==
  /\ fs = Init0
  /\ enabled \in BOOLEAN /\ linkUp = FALSE /\ running = FALSE
  /\ ring = [buf |-> NoBuf, head |-> 0, len |-> 0, ended |-> FALSE]
  /\ idle = 0
  /\ list = <<>> /\ listValid = FALSE
  /\ net = <<>> /\ size = FileSize
  /\ taken = <<>> /\ mixed = FALSE /\ promised = 0

----------------------------------------------------------------------------
(* The ring                                                                *)

HasRoom(r, n) == r.buf # NoBuf /\ n <= RingCap - r.len

Put(r, b) ==
  LET at == (r.head + r.len) % RingCap
      place(k) == (k - at + RingCap) % RingCap
  IN  [r EXCEPT !.buf = [k \in DOMAIN @ |->
                           IF place(k) < b.n
                           THEN <<b.name, b.block * BlockSize + place(k)>>
                           ELSE @[k]],
                !.len = @ + b.n]

(* What one take copies out, and the ring it leaves *)
Grab(r)    == IF r.buf = NoBuf THEN 0
              ELSE IF r.len < TakeCap THEN r.len ELSE TakeCap
Bytes(r, n) == [i \in 1..n |-> r.buf[(r.head + i - 1) % RingCap]]
Drain(r, n) == IF n = 0 THEN r
               ELSE [r EXCEPT !.head = (@ + n) % RingCap, !.len = @ - n]

Freed(r) == [r EXCEPT !.buf = NoBuf]

(* cb_done: whatever ends a transfer marks the ring as ended.              *)
NoteEnd(r, before, after) ==
  [r EXCEPT !.ended = @ \/ (Busy(before) /\ ~Busy(after))]

----------------------------------------------------------------------------
(* A request on its way, and how large the file it asks about was when it  *)
(* was sent: the answer is of the file as it was then, or since.           *)
About(q) ==
  IF q.verb = "FILEREAD" THEN q.arg
  ELSE IF q.at < Len(Matches[q.arg]) THEN Matches[q.arg][q.at + 1] ELSE NoName

SizeNow(name) == IF name \in DOMAIN FileSize THEN size[name] ELSE 0

Sent(q) == [verb |-> q.verb, arg |-> q.arg, at |-> q.at,
            was |-> SizeNow(About(q))]

(* The tick at the end of every handler (hr_files_tick): the ways it can   *)
(* leave the transfer f and the requests on the wire.  A request that is   *)
(* due is sent, or the session refuses it.                                 *)
Outcomes(f, up, wire) ==
  LET x == Expire(f, up) IN
  IF ~Asks(x) THEN {[fs |-> x, net |-> wire]}
  ELSE {[fs |-> SendRequest(x, FALSE), net |-> wire]} \cup
       (IF Len(wire) < NetBound
        THEN {[fs |-> SendRequest(x, TRUE), net |-> Append(wire, Sent(Request(x)))]}
        ELSE {})

----------------------------------------------------------------------------
(* The web server                                                          *)

(* precheck(): may a transfer begin? *)
MayBegin(force) ==
  /\ enabled
  /\ ~Busy(fs) /\ ring.buf = NoBuf
  /\ linkUp
  /\ running => force

ListFiles(pattern, force) ==
  /\ MayBegin(force)
  /\ list' = <<>> /\ listValid' = FALSE
  /\ \E o \in Outcomes(Begin("listing", pattern, -1), linkUp, net) :
       /\ fs' = o.fs /\ net' = o.net
       /\ ring' = [ring EXCEPT !.ended = @ \/ ~Busy(o.fs)]
  /\ taken' = <<>>
  /\ mixed' = \E i \in DOMAIN net : net[i].verb = "FDFILES" /\ net[i].arg # pattern
  /\ promised' = 0
  /\ UNCHANGED <<enabled, linkUp, running, idle, size>>

(* The size the last listing gave for a name; the last entry of it counts. *)
SlipListed(name) == IF list = <<>> THEN -1 ELSE list[Len(list)].size
Listed(name) ==
  LET at == {i \in DOMAIN list : list[i].name = name}
  IN  IF at = {} THEN -1
      ELSE list[CHOOSE i \in at : \A j \in at : j <= i].size

(* What a read of a file has to bring to be whole: all that the file had   *)
(* when it was listed, or, if it is not in the list, when the read began;  *)
(* less if an answer to an earlier read of it is still on its way, which   *)
(* may be of the file as it was when that was asked for.                   *)
Promise(name) ==
  LET told  == {list[i].size : i \in {k \in DOMAIN list : list[k].name = name}}
      late  == {net[i].was : i \in {k \in DOMAIN net :
                              net[k].verb = "FILEREAD" /\ net[k].arg = name}}
      known == {SizeNow(name)} \cup told \cup late
  IN  CHOOSE n \in known : \A m \in known : n <= m

ReadFile(name, force) ==
  /\ MayBegin(force)
  /\ idle' = 0
  /\ \/ /\ Listed(name) > SizeMax
        /\ fs' = TooBig(fs)
        /\ ring' = [buf |-> NoBuf, head |-> 0, len |-> 0, ended |-> FALSE]
        /\ UNCHANGED <<net, taken, promised>>
     \/ /\ Listed(name) <= SizeMax
        /\ LET begun == Begin("reading", name, Listed(name))
           IN  \E o \in Outcomes(begun, linkUp, net) :
                 /\ fs' = o.fs /\ net' = o.net
                 /\ ring' = [buf |-> Fresh, head |-> 0, len |-> 0,
                             ended |-> ~Busy(o.fs)]
        /\ taken' = <<>>
        /\ promised' = Promise(name)
  /\ UNCHANGED <<enabled, linkUp, running, list, listValid, size, mixed>>

CancelTransfer ==
  /\ fs' = Cancel(fs)
  /\ ring' = [ring EXCEPT !.ended = TRUE]
  /\ UNCHANGED <<enabled, linkUp, running, idle, list, listValid, net,
                 size, taken, mixed, promised>>

(* The switch; off also gives up on a transfer.                            *)
SlipSetEnabled(on) ==
  /\ enabled' = on
  /\ UNCHANGED <<fs, ring, linkUp, running, idle, list, listValid, net,
                 size, taken, mixed, promised>>
SetEnabled(on) ==
  /\ enabled' = on
  /\ fs' = IF on THEN fs ELSE Cancel(fs)
  /\ ring' = NoteEnd(ring, fs, fs')
  /\ UNCHANGED <<linkUp, running, idle, list, listValid, net, size, taken,
                 mixed, promised>>

(* hr_dryerfiles_take: bytes for the browser, room for a paused transfer,  *)
(* and the end of the ring once nothing more is coming.                    *)
RoomForABlock(r)     == RingCap - r.len >= BlockSize

Spent(f, r)             == ~Busy(f) /\ r.len = 0

Take ==
  LET n == Grab(ring)
      r == Drain(ring, n)
      resumes == Busy(fs) /\ fs.paused /\ RoomForABlock(r)
  IN /\ idle' = 0
     /\ taken' = taken \o Bytes(ring, n)
     /\ \E o \in IF resumes THEN Outcomes(Resume(fs), linkUp, net)
                            ELSE {[fs |-> fs, net |-> net]} :
          LET e == NoteEnd(r, fs, o.fs)
          IN  /\ fs' = o.fs /\ net' = o.net
              /\ ring' = IF Spent(o.fs, e) THEN Freed(e) ELSE e
     /\ UNCHANGED <<enabled, linkUp, running, list, listValid, size, mixed, promised>>

----------------------------------------------------------------------------
(* The dryer and the USB receive task                                      *)

(* The dryer appends to one of its files.                                  *)
Grow(f) ==
  /\ size[f] < Grown[f]
  /\ size' = [size EXCEPT ![f] = @ + 1]
  /\ UNCHANGED <<fs, enabled, linkUp, running, ring, idle, list, listValid,
                 net, taken, mixed, promised>>

(* What the dryer answers: entry `at' of the names that match, and past    *)
(* the last of them the end; a block of a file it has, or of no file.  It  *)
(* has read the file, `had' long, at some time since it was asked.         *)
Had(q) == q.was .. SizeNow(About(q))

Entry(q, had) ==
  LET last == q.at >= Len(Matches[q.arg])
  IN  [index |-> q.at, last |-> last, name |-> About(q),
       size |-> IF last THEN 0 ELSE had]

BlockOf(q, had, sumOk) ==
  IF q.arg \notin DOMAIN FileSize
  THEN [name |-> NoName, block |-> q.at, n |-> 0, size |-> 0, sumOk |-> sumOk]
  ELSE LET left == had - q.at * BlockSize
       IN  [name |-> q.arg, block |-> q.at, size |-> had,
            n |-> IF left < 0 THEN 0
                  ELSE IF left < BlockSize THEN left ELSE BlockSize,
            sumOk |-> sumOk]

(* cb_entry: what is kept of a listing *)
Keep(e) ==
  IF e.last \/ Len(list) >= ListMax THEN list
  ELSE Append(list, [name |-> e.name, size |-> e.size])

(* hr_dryerfiles_on_frame with an FDFILELIST frame *)
EntryArrives ==
  /\ net # <<>> /\ Head(net).verb = "FDFILES"
  /\ \E had \in Had(Head(net)) :
       LET e == Entry(Head(net), had)
           f == OnEntry(fs, e)
       IN  /\ list' = IF TakesEntry(fs, e) THEN Keep(e) ELSE list
           /\ listValid' = (listValid \/ (TakesEntry(fs, e) /\ e.last))
           /\ \E o \in Outcomes(f, linkUp, Tail(net)) :
                /\ fs' = o.fs
                /\ net' = o.net
                /\ ring' = NoteEnd(ring, fs, o.fs)
  /\ UNCHANGED <<enabled, linkUp, running, idle, size, taken, mixed, promised>>

(* on_block with an FDFILEBLOCK frame, its checksum right or wrong: a      *)
(* block that is ours goes into the ring (cb_data) if it fits there.       *)
BlockArrives(sumOk) ==
  /\ net # <<>> /\ Head(net).verb = "FILEREAD"
  /\ \E had \in Had(Head(net)) :
       LET b == BlockOf(Head(net), had, sumOk)
           room == b.n = 0 \/ HasRoom(ring, b.n)
           r == IF TakesBlock(fs, b) /\ room THEN Put(ring, b) ELSE ring
       IN  \E o \in Outcomes(OnBlock(fs, b, room), linkUp, Tail(net)) :
             /\ fs' = o.fs
             /\ net' = o.net
             /\ ring' = NoteEnd(r, fs, o.fs)
  /\ UNCHANGED <<enabled, linkUp, running, idle, list, listValid, size,
                 taken, mixed, promised>>

(* A request or its answer is lost, or too damaged to be a frame at all.   *)
Lost ==
  /\ net # <<>>
  /\ net' = Tail(net)
  /\ UNCHANGED <<fs, enabled, linkUp, running, ring, idle, list, listValid,
                 size, taken, mixed, promised>>

----------------------------------------------------------------------------
(* The main loop                                                           *)

(* A browser that closed the tab: nobody has taken a byte for too long.    *)
SlipAbandoned(f, r) == r.buf # NoBuf /\ f.waiting /\ idle > IdleMs
Abandoned(f, r) == r.buf # NoBuf /\ Busy(f) /\ idle > IdleMs

Leftover(f, r) == r.buf # NoBuf /\ ~Busy(f) /\ r.ended /\ idle > IdleMs

MainTick(up, run) ==
  LET f == IF Abandoned(fs, ring) THEN Cancel(fs) ELSE fs
  IN /\ linkUp' = up
     /\ running' = run
     /\ \E o \in Outcomes(f, up, net) :
          LET e == NoteEnd(ring, fs, o.fs)
          IN  /\ fs' = o.fs /\ net' = o.net
              /\ ring' = IF Leftover(o.fs, e)
                         THEN [Freed(e) EXCEPT !.len = 0] ELSE e
     /\ UNCHANGED <<enabled, idle, list, listValid, size, taken, mixed, promised>>

(* Time passes; a clock stops where nothing tells later times apart.       *)
Time ==
  /\ fs' = IF fs.waiting THEN Older(fs) ELSE fs
  /\ idle' = IF ring.buf # NoBuf /\ idle <= IdleMs THEN idle + 1 ELSE idle
  /\ UNCHANGED <<enabled, linkUp, running, ring, list, listValid, net, size, taken,
                 mixed, promised>>

Next ==
  \/ \E p \in Patterns, force \in BOOLEAN : ListFiles(p, force)
  \/ \E f \in Names, force \in BOOLEAN : ReadFile(f, force)
  \/ CancelTransfer
  \/ \E on \in BOOLEAN : SetEnabled(on)
  \/ Take
  \/ EntryArrives
  \/ \E sumOk \in BOOLEAN : BlockArrives(sumOk)
  \/ Lost
  \/ \E f \in DOMAIN FileSize : Grow(f)
  \/ \E up, run \in BOOLEAN : MainTick(up, run)
  \/ Time

Spec == Init /\ [][Next]_vars

(* The main loop runs four times a second whatever the dryer and the       *)
(* browser do, and time passes.  Nothing is asked of those two.            *)
FairSpec == Spec /\ WF_vars(\E up, run \in BOOLEAN : MainTick(up, run))
                 /\ WF_vars(Time)

----------------------------------------------------------------------------
(* Properties                                                              *)

Transfers == [state : {"idle", "listing", "reading", "done", "failed"},
              err : {"ok", "timeout", "link", "checksum", "missing", "tooBig",
                     "send", "cancelled"},
              arg : Names \cup Patterns \cup {NoName},
              index : Nat, block : Nat, size : Nat \cup {-1}, received : Nat,
              waiting : BOOLEAN, paused : BOOLEAN, pending : BOOLEAN,
              retries : 0..(Retries + 1), age : 0..ReplyMs]

Requests == [verb : {"FDFILES"}, arg : Patterns, at : Nat, was : Nat]
              \cup [verb : {"FILEREAD"}, arg : Names, at : Nat, was : Nat]

(* The type of the state; the bytes in hand never exceed the ring.         *)
TypeOK ==
  /\ fs \in Transfers
  /\ enabled \in BOOLEAN /\ linkUp \in BOOLEAN /\ running \in BOOLEAN
  /\ ring.buf = NoBuf \/ DOMAIN ring.buf = 0..(RingCap - 1)
  /\ ring.head \in 0..(RingCap - 1) /\ ring.len \in 0..RingCap
  /\ ring.ended \in BOOLEAN
  /\ idle \in 0..(IdleMs + 1)
  /\ list \in Seq([name : DOMAIN FileSize, size : Nat]) /\ Len(list) <= ListMax
  /\ listValid \in BOOLEAN
  /\ net \in Seq(Requests) /\ Len(net) <= NetBound
  /\ size \in [DOMAIN FileSize -> Nat] /\ promised \in Nat
  /\ taken \in Seq(Names \X Nat)
  /\ mixed \in BOOLEAN

(* A read under way has its ring, not yet marked as ended: without one the *)
(* next block would find no room, the transfer would pause, and neither a  *)
(* take nor the idle rule could ever end it.                               *)
ReadHasRing == fs.state = "reading" => ring.buf # NoBuf /\ ~ring.ended

(* Every byte counted as received is in the browser's hands or in the ring.*)
BytesAccounted ==
  ring.buf # NoBuf => fs.received = Len(taken) + ring.len

(* A paused transfer waits for the browser only while the ring is really   *)
(* too full for a block: there is something to take, and taking resumes it.*)
PausedForRoom == fs.paused => ring.len > 0 /\ RingCap - ring.len < BlockSize

(* The transfer and its ring agree, though the USB task, the main loop and *)
(* the web server each change both: a read has its ring, every byte of it  *)
(* is in the ring or with the browser, and a pause has room to wait for.   *)
RingSound == TypeOK /\ ReadHasRing /\ BytesAccounted /\ PausedForRoom

(* A listing reported as whole is the dryer's listing for the pattern      *)
(* asked, in its order, cut at ListMax, each file with a size it has had - *)
(* unless a request of an earlier one, for another pattern, was still on   *)
(* its way when it began: an answer names its place in a listing, never    *)
(* the pattern.                                                            *)
WholeListing ==
  \E p \in Patterns :
    LET m == Matches[p]
        n == IF Len(m) < ListMax THEN Len(m) ELSE ListMax
    IN  /\ fs.arg \in Patterns => p = fs.arg
        /\ Len(list) = n
        /\ \A i \in 1..n : /\ list[i].name = m[i]
                           /\ list[i].size \in FileSize[m[i]] .. size[m[i]]
ListIsTheDryers == listValid => WholeListing \/ mixed

(* What the browser takes is the beginning of the file, in order, nothing  *)
(* missing or twice, although the file grows under the read; and a read is *)
(* done only with all of it that was promised: what the file had when it   *)
(* was listed, which is older than the read.                               *)
Fetch == INSTANCE FileFetch WITH
  Files   <- DOMAIN FileSize,
  NoFile  <- NoName,
  length  <- size,
  file    <- IF fs.arg \in Names THEN fs.arg ELSE NoName,
  fetched <- IF fs.arg \in Names THEN fs.received ELSE 0,
  given   <- taken,
  verdict <- IF fs.arg \notin Names THEN "none"
             ELSE CASE fs.state = "reading" -> "fetching"
                    [] fs.state = "done"    -> "whole"
                    [] OTHER                -> "failed"
FetchesTheFile == Fetch!Spec

(* The ring is given back with bytes still in it only when nobody has      *)
(* asked for any within IdleMs.                                            *)
RingFreedDrained ==
  [][ring.buf # NoBuf /\ ring'.buf = NoBuf
       => Len(taken') = fs'.received \/ idle > IdleMs]_vars

(* A step that puts a request on the wire: the request outstanding after   *)
(* it is brand new.                                                        *)
Asked == fs' # fs /\ fs'.waiting /\ fs'.age = 0

(* Nothing is asked of the dryer while the feature is switched off or the  *)
(* link is down, as the main loop last told, retries and resumed reads     *)
(* included.                                                               *)
AsksOnlyWhenAllowed == [][Asked => enabled' /\ linkUp']_vars

(* A transfer ends, with the file, or by a timeout, a refusal, the link or *)
(* the idle rule, whatever the dryer and the browser do; and its ring does *)
(* not stay allocated, which would refuse every later one as busy.         *)
TransferEnds ==
  (Busy(fs) \/ ring.buf # NoBuf) ~> (~Busy(fs) /\ ring.buf = NoBuf)

----------------------------------------------------------------------------
(* Claims of the documentation that the code does not keep                 *)

(* "Requests go out only while [...] the dryer is not running a batch -    *)
(* unless the caller says force."  Not asked of a transfer under way, forced*)
(* or not.  (hr_dryerfiles.h)                                              *)
QuietDuringBatch == [][Asked /\ Busy(fs) => ~running']_vars

(* "A short block is the end of the file; so is reaching the size."  A     *)
(* remembered size is not the file's: a read that reaches it is done       *)
(* without the rows that have been added since the listing.  (hr_files.c)  *)
DoneIsTheFile ==
  [][fs.state = "reading" /\ fs'.state = "done" => fs'.received = size[fs.arg]]_vars

(* "Ignores everything that is not an answer we are waiting for."  A file  *)
(* the dryer has is never reported as missing.  (hr_files.h)               *)
MissingOnlyIfMissing == fs.err = "missing" => fs.arg \in Unknown

(* "Ignores everything that is not an answer we are waiting for."  A       *)
(* listing is of the pattern that was asked for.  (hr_files.h)              *)
ListIsAsAsked == listValid => WholeListing

(* "Biggest file we will fetch."  (hr_files.h)                             *)
NothingTooBig == fs.received <= SizeMax
=============================================================================
