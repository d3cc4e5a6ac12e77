------------------------------ MODULE HrFiles ------------------------------
(***************************************************************************)
(* The transfer state machine of components/hr_protocol/hr_files.c: the    *)
(* client side of FDFILES (a listing, entry by entry) and FILEREAD (a      *)
(* file, block by block).  The C functions work on an hr_files_t they are  *)
(* given; the operators here take that record, fs, and return the next     *)
(* one.  What they call back into (the send, the sink, the done callback)  *)
(* is an argument or is told apart by the caller in DryerFiles.            *)
(*                                                                         *)
(* Data: a name or pattern is a value, a file is its length in units of    *)
(* which a block holds BlockSize.  The time since the outstanding request  *)
(* went out is fs.age, counted up to ReplyMs, past which nothing differs.  *)
(***************************************************************************)
EXTENDS Integers, Sequences

CONSTANTS
  BlockSize,    \* HR_FILE_BLOCK
  SizeMax,      \* HR_FILE_SIZE_MAX
  ReplyMs,      \* HR_FILES_REPLY_MS
  Retries,      \* HR_FILES_RETRIES
  NoName        \* the empty name

ASSUME FilesAssumption ==
  /\ BlockSize \in Nat \ {0} /\ SizeMax \in Nat
  /\ ReplyMs \in Nat \ {0} /\ Retries \in Nat

Init0 == [state |-> "idle", err |-> "ok", arg |-> NoName, index |-> 0,
          block |-> 0, size |-> -1, received |-> 0, waiting |-> FALSE,
          paused |-> FALSE, pending |-> FALSE, retries |-> 0, age |-> 0]

Busy(fs) == fs.state \in {"listing", "reading"}

Finish(fs, st, err) ==
  [fs EXCEPT !.state = st, !.err = err,
             !.waiting = FALSE, !.pending = FALSE, !.paused = FALSE]

(* A listing or a read begins; a read brings the size a listing gave, or -1 *)
Begin(st, arg, size) ==
  [Init0 EXCEPT !.state = st, !.arg = arg, !.size = size, !.pending = TRUE]

TooBig(fs) == [fs EXCEPT !.state = "failed", !.err = "tooBig"]

Cancel(fs) == IF Busy(fs) THEN Finish(fs, "failed", "cancelled") ELSE fs

Resume(fs) ==
  IF fs.paused
  THEN [fs EXCEPT !.paused = FALSE, !.pending = TRUE, !.age = 0]
  ELSE fs

----------------------------------------------------------------------------
(* Answers.  A listing entry is [index, name, size, last], a block frame is *)
(* [name, block, n, size, sumOk]; an empty name, no bytes and no size says  *)
(* that there is no such file.                                              *)

SlipTakesEntry(fs, e) == fs.state = "listing" /\ fs.waiting
TakesEntry(fs, e) ==
  fs.state = "listing" /\ fs.waiting /\ e.index = fs.index

OnEntry(fs, e) ==
  IF ~TakesEntry(fs, e) THEN fs
  ELSE LET got == [fs EXCEPT !.waiting = FALSE, !.retries = 0]
       IN  IF e.last
           THEN Finish(got, "done", "ok")
           ELSE [got EXCEPT !.index = @ + 1, !.pending = TRUE]

Missing(b) == b.name = NoName /\ b.n = 0 /\ b.size = 0

(* The block we are waiting for, by number and by name *)
IsOurs(fs, b) == b.block = fs.block /\ b.name = fs.arg

TakesBlock(fs, b) ==
  /\ fs.state = "reading" /\ fs.waiting
  /\ ~Missing(b) /\ IsOurs(fs, b) /\ b.sumOk

(* Another try for the same request, or the end of the transfer *)
Retry(fs, err) ==
  IF fs.retries + 1 > Retries
  THEN Finish([fs EXCEPT !.retries = @ + 1], "failed", err)
  ELSE [fs EXCEPT !.waiting = FALSE, !.pending = TRUE, !.retries = @ + 1]

(* The bytes counted before the consumer is asked *)
SlipAccept(fs, b, room) ==
  LET got == [fs EXCEPT !.waiting = FALSE, !.retries = 0,
                        !.size = IF @ < 0 THEN b.size ELSE @,
                        !.received = @ + b.n]
  IN  IF ~room THEN [got EXCEPT !.paused = TRUE, !.pending = FALSE]
      ELSE IF b.n < BlockSize \/ got.received >= got.size
      THEN Finish(got, "done", "ok")
      ELSE [got EXCEPT !.block = @ + 1, !.pending = TRUE]

(* A block accepted; room: the consumer took its bytes, or there are none *)
Accept(fs, b, room) ==
  LET got == [fs EXCEPT !.waiting = FALSE, !.retries = 0,
                        !.size = IF @ < 0 THEN b.size ELSE @]
      all == [got EXCEPT !.received = @ + b.n]
  IN  IF ~room THEN [got EXCEPT !.paused = TRUE, !.pending = FALSE]
      ELSE IF b.n < BlockSize \/ all.received >= all.size
      THEN Finish(all, "done", "ok")
      ELSE [all EXCEPT !.block = @ + 1, !.pending = TRUE]

OnBlock(fs, b, room) ==
  IF fs.state # "reading" \/ ~fs.waiting THEN fs
  ELSE IF Missing(b) THEN Finish(fs, "failed", "missing")
  ELSE IF ~IsOurs(fs, b) THEN fs
  ELSE IF ~b.sumOk THEN Retry(fs, "checksum")
  ELSE Accept(fs, b, room)

----------------------------------------------------------------------------
(* hr_files_tick: the link rule and the timeout, then whatever is due goes *)
(* out.  The send's answer is `sent'.                                      *)

Expire(fs, linkUp) ==
  IF ~Busy(fs) THEN fs
  ELSE IF ~linkUp THEN Finish(fs, "failed", "link")
  ELSE IF ~fs.paused /\ fs.waiting /\ fs.age >= ReplyMs
  THEN Retry(fs, "timeout")
  ELSE fs

Asks(fs) == Busy(fs) /\ ~fs.paused /\ fs.pending

Request(fs) ==
  [verb |-> IF fs.state = "listing" THEN "FDFILES" ELSE "FILEREAD",
   arg  |-> fs.arg,
   at   |-> IF fs.state = "listing" THEN fs.index ELSE fs.block]

SendRequest(fs, sent) ==
  IF sent
  THEN [fs EXCEPT !.pending = FALSE, !.waiting = TRUE, !.age = 0]
  ELSE Finish(fs, "failed", "send")

Older(fs) == IF fs.age < ReplyMs THEN [fs EXCEPT !.age = @ + 1] ELSE fs
=============================================================================
