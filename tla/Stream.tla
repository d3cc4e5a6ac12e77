------------------------------- MODULE Stream -------------------------------
(***************************************************************************)
(* What the dryer writes and what the adapter makes of it: the byte stream *)
(* (HrStream) fed by hr_session_rx, with the part of hr_session.c that     *)
(* decides whom a reassembled frame is for.  The dryer writes whole        *)
(* frames, each in one go; the cable may cut one short or put in bytes     *)
(* that are nobody's.  Only the bytes' order is visible to the code, and a *)
(* silence longer than HR_PARTIAL_STALE_MS, so the pieces a USB read       *)
(* brings are single bytes.                                                *)
(*                                                                         *)
(* clean is the dryer's truth, not the adapter's: nothing that was cut or  *)
(* disturbed is still owed an end.  An undisturbed frame that began clean  *)
(* must arrive, once, where it belongs, and nothing else with it.          *)
(***************************************************************************)
EXTENDS HrStream

CONSTANTS
  Frames,       \* [bytes, kind, says]: what the dryer may write and means by it
  MaxFaults     \* how many disturbances before the stream is clean again

ASSUME FramesAssumption ==
  /\ \A f \in Frames : f.bytes \in Seq(0 .. 255)
  /\ MaxFaults \in Nat

VARIABLES
  st,           \* the stream
  gap,          \* more than HR_PARTIAL_STALE_MS since the last byte
  frame, pos,   \* what the dryer is writing, and how far it has got
  got,          \* what has been handed on since the frame began
  clean,        \* no disturbed frame is still pending
  asked,        \* the byte before this frame was a line end (or there was none)
  whole,        \* this frame began clean and was not disturbed
  promised,     \* and it is of a kind the framer recognises where it stands
  encSent,      \* the dryer has used the encoded transport
  faults
streamVars == <<st, gap, frame, pos, got, clean, asked, whole, promised, encSent,
                faults>>

NoFrame == [bytes |-> <<>>, kind |-> "none", says |-> <<>>]

StreamInit ==
  /\ st = EmptyStream /\ gap = FALSE
  /\ frame = NoFrame /\ pos = 0 /\ got = <<>>
  /\ clean = TRUE /\ asked = TRUE /\ whole = TRUE /\ promised = TRUE
  /\ encSent = FALSE /\ faults = 0

----------------------------------------------------------------------------
(* hr_session.c: whom a frame is for *)

OnEnc(f) ==
  LET plain == EncDecode(f)
  IN  IF plain # NotDecoded /\ FrameParses(plain) THEN To("frame", plain)
      ELSE To("undecoded", f)

OnLong(f, encoded) ==
  LET plain == IF encoded THEN EncDecode(f) ELSE f
  IN  IF plain = NotDecoded THEN To("undecoded", f)
      ELSE IF Len(plain) > 1 /\ plain[1] = Verb THEN To("block", plain)
      ELSE IF FrameParses(plain) THEN To("frame", plain)
      ELSE To("undecoded", f)

Routed(d) ==
  CASE d.to = "enc"     -> OnEnc(d.bytes)
    [] d.to = "longEnc" -> OnLong(d.bytes, TRUE)
    [] d.to = "long"    -> OnLong(d.bytes, FALSE)
    [] d.to \in {"frame", "reject"} -> d

(* hr_session_rx: a stale partial frame is let go of before the byte is fed *)
Stale == gap /\ (st.buf # <<>> \/ st.longNeed > 0 \/ st.longSkip > 0)

Received(b) ==
  LET d == IF Stale THEN DiscardPartial(st) ELSE Same(st)
      r == Feed(d.st, b)
  IN  [st |-> r.st,
       out |-> [i \in 1 .. Len(d.out) + Len(r.out) |-> Routed((d.out \o r.out)[i])]]

(* A line end closes everything but the data of a block being counted *)
LineEndCloses ==
  Stale \/ (st.longSkip = 0 /\ ~(st.longNeed > 0 /\ ~st.longEnc))

Rx(b) ==
  LET r == Received(b)
  IN  /\ st' = r.st /\ gap' = FALSE
      /\ got' = got \o SelectSeq(r.out, LAMBDA d : d.to # "reject")
      /\ asked' = (b = CR /\ (Stale \/ ~Collecting(st)))

----------------------------------------------------------------------------
(* The dryer *)

Between == pos = Len(frame.bytes)

(* A line holding ")S" is promised only before the encoded transport began, *)
(* a plaintext block only where the framer asks about the line (asked), an  *)
(* encoded frame longer than either buffer never (its tail is debris), nor  *)
(* an encoded file block that fits the line buffer (see BlockArrives)       *)
Promise(f) ==
  /\ f.kind = "blockLine" => asked
  /\ f.kind = "looksEncoded" => ~encSent
  /\ f.kind \notin {"tooLong", "encBlock"}

Begin(f) ==
  /\ Between
  /\ frame' = f /\ pos' = 0 /\ got' = <<>>
  /\ whole' = clean /\ promised' = (clean /\ Promise(f))
  /\ clean' = (clean /\ f.kind # "tooLong")
  /\ encSent' = (encSent \/ f.kind \in {"enc", "encBlock", "tooLong"})
  /\ UNCHANGED <<st, gap, asked, faults>>

Write ==
  /\ ~Between
  /\ pos' = pos + 1
  /\ LET b == frame.bytes[pos + 1]
     IN  Rx(b) /\ clean' = (clean \/ (b = CR /\ LineEndCloses))
  /\ faults' = IF clean' THEN 0 ELSE faults
  /\ UNCHANGED <<frame, whole, promised, encSent>>

(* More than HR_PARTIAL_STALE_MS without a byte; the dryer writes a frame in *)
(* one go, so it happens between frames only                                 *)
Quiet ==
  /\ Between
  /\ gap' = TRUE /\ clean' = TRUE /\ faults' = 0
  /\ UNCHANGED <<st, frame, pos, got, asked, whole, promised, encSent>>

Fault ==
  /\ faults < MaxFaults
  /\ faults' = faults + 1 /\ clean' = FALSE
  /\ whole' = FALSE /\ promised' = FALSE

(* The rest of the frame is lost *)
Cut ==
  /\ ~Between /\ pos > 0 /\ Fault
  /\ frame' = NoFrame /\ pos' = 0 /\ got' = <<>>
  /\ UNCHANGED <<st, gap, asked, encSent>>

(* A byte that is nobody's *)
Stray(b) ==
  /\ b # CR /\ Fault /\ Rx(b)
  /\ UNCHANGED <<frame, pos, encSent>>

StreamNext ==
  \/ \E f \in Frames : Begin(f)
  \/ Write \/ Quiet \/ Cut
  \/ \E b \in {Letter, Noise} : Stray(b)

StreamSpec == StreamInit /\ [][StreamNext]_streamVars

----------------------------------------------------------------------------
(* The line buffer, the side buffer and the count being collected agree, and *)
(* neither buffer is ever filled past the room for its terminating zero.     *)
InsideBuffers ==
  /\ Len(st.buf) <= MaxFrame - 1 /\ st.encNeed <= EncMax
  /\ st.encNeed > 0 => Len(st.buf) < st.encNeed
  /\ st.longNeed > 0 => st.buf = <<>> /\ Holds(st.longNeed) /\ Len(st.long) < st.longNeed
  /\ st.longNeed = 0 => st.long = <<>>
  /\ st.longSkip > 0 => st.buf = <<>> /\ st.longNeed = 0
  /\ Cardinality({n \in {"enc", "long", "skip"} :
        \/ n = "enc" /\ st.encNeed > 0
        \/ n = "long" /\ st.longNeed > 0
        \/ n = "skip" /\ st.longSkip > 0}) <= 1

(* A frame the dryer wrote whole, with nothing disturbed still pending,      *)
(* reaches the one it is for, exactly once and unchanged, and none of its    *)
(* bytes reaches anyone else - whatever was cut, lost or put in before it.   *)
ArrivesOnce == (Between /\ promised) => got = frame.says

(* Before its last byte an undisturbed frame is not taken for another: no    *)
(* part of it is handed on early.                                            *)
NothingEarly == (~Between /\ promised) => got \in {<<>>, frame.says}

(* Delivered once, and not before it is there.                               *)
FramesArrive == ArrivesOnce /\ NothingEarly

(* A file block the dryer wrote whole after nothing disturbed reaches the    *)
(* one who asked for the file and none of its bytes are taken for a line     *)
(* (hr_session.c:275, hr_protocol.h: it "cannot inject anything").           *)
BlockArrives ==
  (Between /\ whole /\ frame.kind \in {"blockLine", "encBlock"}) => got = frame.says
=============================================================================
