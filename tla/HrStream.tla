------------------------------ MODULE HrStream ------------------------------
(***************************************************************************)
(* Frame reassembly: components/hr_protocol/hr_protocol.c, with the        *)
(* measure of a file block (hr_files.c) and the decoding of an encoded     *)
(* frame (hr_enc.c).  st is the part of hr_stream_t that decides where a   *)
(* byte goes; an operator takes it and returns the next one together with  *)
(* what was handed on: [st |-> next, out |-> sequence of deliveries].      *)
(*                                                                         *)
(* Data: a byte is a small number that says what the code can tell about   *)
(* it.  Digits are 0 .. Radix-1; the verb of a block frame is one byte; a  *)
(* block's header keeps its name and byte count, the other two numbers are *)
(* treated alike and left out; an encoded character stands for one byte of *)
(* plain text, the cipher being a bijection, after NonceLen of nonce.      *)
(***************************************************************************)
EXTENDS Integers, Sequences, SequencesExt

CONSTANTS
  MaxFrame,     \* HR_MAX_FRAME, the line buffer
  LongCap,      \* the side buffer lent to the stream, 0 when there is none
  Radix,        \* 64: the values of a length digit
  MaxVerb,      \* HR_MAX_VERB
  MaxFields,    \* HR_MAX_FIELDS
  NameMax,      \* HR_FILE_NAME_MAX
  FileBlock,    \* HR_FILE_BLOCK
  NonceLen,     \* the characters of the nonce in an encoded frame
  SumLen        \* the checksum digits after the data of a block

Hdr == 4        \* HR_ENC_HDR

ASSUME StreamAssumption ==
  /\ MaxFrame \in Nat /\ MaxFrame > Hdr + 1
  /\ LongCap = 0 \/ (LongCap \in Nat /\ LongCap >= MaxFrame)
  /\ Radix \in 2 .. 100
  /\ {MaxVerb, MaxFields, NameMax, FileBlock, NonceLen, SumLen} \subseteq Nat

Letter == 100   \* a printable character of no meaning to the framer
Comma  == 101
Open   == 102   \* the ) of an encoded header
Ess    == 103   \* and its S
Verb   == 104   \* FDFILEBLOCK,
Enter  == 105   \* the character that decodes to a carriage return
CR     == 110
Noise  == 111   \* outside 0x20 .. 0x7e and no line end

Printable(b) == b < CR
IsDigit(b) == b \in 0 .. Radix - 1
EncMax == MaxFrame - 1
Holds(n) == LongCap > 0 /\ n < LongCap   \* the side buffer takes n bytes

EmptyStream == [buf |-> <<>>, over |-> FALSE, encNeed |-> 0, encSeen |-> FALSE,
                long |-> <<>>, longNeed |-> 0, longSkip |-> 0,
                longEnc |-> FALSE, longNot |-> FALSE]

----------------------------------------------------------------------------
(* Recognising: a line that is a frame, an encoded header, a file block *)

VerbLen(line) ==
  LET commas == {i \in DOMAIN line : line[i] = Comma}
  IN  IF commas = {} THEN Len(line) ELSE (CHOOSE i \in commas : \A j \in commas : i <= j) - 1

Fields(line) == Cardinality({i \in DOMAIN line : line[i] = Comma})

FrameParses(line) ==
  /\ Len(line) \in 1 .. MaxFrame - 1
  /\ VerbLen(line) \in 1 .. MaxVerb - 1
  /\ Fields(line) <= MaxFields

(* The declared length, header included; -1 is no encoded header *)
EncDecodeLen(h) ==
  IF /\ h[1] = Open /\ h[2] = Ess /\ IsDigit(h[3]) /\ IsDigit(h[4])
     /\ h[3] * Radix + h[4] >= Hdr
  THEN h[3] * Radix + h[4]
  ELSE -1

(* Yes (the total length), 0 for cannot tell yet, -1 for no *)
BlockMeasure(line) ==
  LET nameLen == IF \E i \in 2 .. Len(line) : line[i] = Comma
                 THEN (CHOOSE i \in 2 .. Len(line) : line[i] = Comma
                         /\ \A j \in 2 .. i - 1 : line[j] # Comma) - 2
                 ELSE Len(line) - 1
      at == nameLen + 3        \* the byte count, after the comma
  IN  CASE line[1] # Verb                     -> -1
        [] line[1] = Verb /\ nameLen >= NameMax -> -1
        [] line[1] = Verb /\ nameLen < NameMax ->
             IF Len(line) < at THEN 0
             ELSE IF ~IsDigit(line[at]) \/ line[at] > FileBlock THEN -1
             ELSE at + line[at] + SumLen

NotDecoded == <<CR>>   \* no decoded line holds a carriage return

(* Up to the first carriage return, which a complete line has *)
EncDecode(frame) ==
  LET body == SubSeq(frame, Hdr + NonceLen + 1, Len(frame))
      ends == {i \in DOMAIN body : body[i] = Enter}
  IN  IF EncDecodeLen(frame) \in Hdr + NonceLen + 1 .. Len(frame) /\ ends # {}
      THEN SubSeq(body, 1, (CHOOSE i \in ends : \A j \in ends : i <= j) - 1)
      ELSE NotDecoded

----------------------------------------------------------------------------
(* Closing what is being collected *)

Same(st) == [st |-> st, out |-> <<>>]
To(sink, bytes) == [to |-> sink, bytes |-> bytes]

Reject(st, next) == [st |-> next, out |-> <<To("reject", st.buf)>>]

EncAbandon(st) ==
  [st |-> [st EXCEPT !.buf = <<>>, !.encNeed = 0, !.over = FALSE],
   out |-> IF st.buf = <<>> THEN <<>> ELSE <<To("reject", st.buf)>>]

EncDeliver(st) ==
  [st |-> [st EXCEPT !.buf = <<>>, !.encNeed = 0], out |-> <<To("enc", st.buf)>>]

LongAbandon(st) ==
  [st |-> [st EXCEPT !.long = <<>>, !.longNeed = 0],
   out |-> IF st.long = <<>> THEN <<>> ELSE <<To("reject", st.long)>>]

LongDeliver(st) ==
  [st |-> [st EXCEPT !.long = <<>>, !.longNeed = 0],
   out |-> <<To(IF st.longEnc THEN "longEnc" ELSE "long", st.long)>>]

(* Only what sits in the line buffer goes stale *)
SlipDiscardPartial(st) ==
  IF st.encNeed > 0 THEN EncAbandon(st)
  ELSE Reject(st, [st EXCEPT !.buf = <<>>, !.over = FALSE])

DiscardPartial(st) ==
  CASE st.longNeed > 0 ->
         LET a == LongAbandon(st)
         IN  [a EXCEPT !.st.buf = <<>>, !.st.over = FALSE]
    [] st.longNeed = 0 /\ st.longSkip > 0 -> Same([st EXCEPT !.longSkip = 0])
    [] st.longNeed = 0 /\ st.longSkip = 0 /\ st.buf = <<>> /\ ~st.over -> Same(st)
    [] st.longNeed = 0 /\ st.longSkip = 0 /\ (st.buf # <<>> \/ st.over) ->
         IF st.encNeed > 0 THEN EncAbandon(st)
         ELSE Reject(st, [st EXCEPT !.buf = <<>>, !.over = FALSE])

----------------------------------------------------------------------------
(* hr_stream_feed, one byte, by the state it meets *)

Collecting(st) == st.longSkip > 0 \/ st.longNeed > 0 \/ st.encNeed > 0

FeedSkip(st, b) == Same([st EXCEPT !.longSkip = @ - 1])

FeedLong(st, b) ==
  IF st.longEnc /\ ~Printable(b) THEN LongAbandon(st)
  ELSE LET next == [st EXCEPT !.long = Append(@, b)]
       IN  IF Len(next.long) = st.longNeed THEN LongDeliver(next) ELSE Same(next)

FeedEnc(st, b) ==
  IF ~Printable(b) THEN EncAbandon(st)
  ELSE LET next == [st EXCEPT !.buf = Append(@, b)]
       IN  IF Len(next.buf) = st.encNeed THEN EncDeliver(next) ELSE Same(next)

FeedNoise(st) ==
  IF st.buf # <<>> \/ st.over
  THEN Reject(st, [st EXCEPT !.buf = <<>>, !.over = FALSE, !.longNot = FALSE])
  ELSE Same(st)

FeedEnd(st) ==
  LET next == [st EXCEPT !.buf = <<>>, !.over = FALSE, !.longNot = FALSE]
  IN  IF st.over THEN Reject(st, next)
      ELSE IF st.buf = <<>> THEN Same(next)
      ELSE IF FrameParses(st.buf) THEN [st |-> next, out |-> <<To("frame", st.buf)>>]
      ELSE Reject(st, next)

HasHeader(st) == Len(st.buf) = Hdr /\ st.buf[1] = Open /\ st.buf[2] = Ess

(* A complete header: the side buffer, the line buffer, or neither *)
FeedHeader(st) ==
  LET need == EncDecodeLen(st.buf)
      seen == [st EXCEPT !.encSeen = TRUE, !.encNeed = need]
  IN  IF need > EncMax /\ Holds(need)
      THEN Same([st EXCEPT !.encSeen = TRUE, !.long = st.buf, !.longNeed = need,
                           !.longEnc = TRUE, !.buf = <<>>])
      ELSE IF need > EncMax THEN EncAbandon(seen)
      ELSE IF need = Hdr THEN EncDeliver(seen)
      ELSE IF need > Hdr THEN Same(seen)
      ELSE Same(st)

(* ")S" with bytes pending, on a machine that has sent encoded frames *)
Resync(st, b) ==
  IF /\ st.encSeen /\ b = Ess /\ Len(st.buf) >= 3 /\ ~st.over
     /\ st.buf[Len(st.buf) - 1] = Open
  THEN LET a == EncAbandon([st EXCEPT !.buf = SubSeq(@, 1, Len(@) - 2)])
       IN  [a EXCEPT !.st.buf = <<Open, Ess>>]
  ELSE Same(st)

AskMeasure(r) ==
  LET st == r.st
      total == BlockMeasure(st.buf)
  IN  IF st.longNot \/ st.over THEN r
      ELSE IF total < 0 THEN [r EXCEPT !.st.longNot = TRUE]
      ELSE IF total <= Len(st.buf) THEN r
      ELSE IF Holds(total)
      THEN [r EXCEPT !.st.long = st.buf, !.st.longNeed = total,
                     !.st.longEnc = FALSE, !.st.buf = <<>>]
      ELSE [out |-> Append(r.out, To("reject", st.buf)),
            st |-> [st EXCEPT !.longSkip = total - Len(st.buf), !.buf = <<>>]]

(* The room for the terminating zero is used up *)
SlipFeedPrintable(st, b) ==
  LET next == IF Len(st.buf) < MaxFrame THEN [st EXCEPT !.buf = Append(@, b)]
              ELSE [st EXCEPT !.over = TRUE]
  IN  IF HasHeader(next) THEN FeedHeader(next) ELSE AskMeasure(Resync(next, b))

FeedPrintable(st, b) ==
  LET next == IF Len(st.buf) < MaxFrame - 1 THEN [st EXCEPT !.buf = Append(@, b)]
              ELSE [st EXCEPT !.over = TRUE]
  IN  IF HasHeader(next) THEN FeedHeader(next) ELSE AskMeasure(Resync(next, b))

Feed(st, b) ==
  IF st.longSkip > 0 THEN FeedSkip(st, b)
  ELSE IF st.longNeed > 0 THEN FeedLong(st, b)
  ELSE IF st.encNeed > 0 THEN FeedEnc(st, b)
  ELSE IF b = CR THEN FeedEnd(st)
  ELSE IF ~Printable(b) THEN FeedNoise(st)
  ELSE FeedPrintable(st, b)
=============================================================================
