-------------------------- MODULE DryerFilesProofs --------------------------
(***************************************************************************)
(* Proofs about DryerFiles, for any files, any block and ring, any number  *)
(* of retries and of requests outstanding: the transfer and its ring agree,*)
(* a listing is the dryer's, nothing is asked when it must not be, and     *)
(* what the browser takes is the file it asked for (FileFetch).            *)
(***************************************************************************)
EXTENDS DryerFiles, SequenceTheorems, WellFoundedInduction, TLAPS

-----------------------------------------------------------------------------
(***************************************************************************)
(* The inductive invariant.  Its parts are about a transfer f, a ring r and*)
(* what the browser took, t, for a handler changes them one after another. *)
(***************************************************************************)

\* Only a transfer under way waits or is paused, and has a try left.
SoundTransfer(f) ==
  /\ f \in Transfers
  /\ f.state = "listing" => f.arg \in Patterns
  /\ f.state = "reading" => f.arg \in Names
  /\ f.waiting => Busy(f)
  /\ f.paused => f.state = "reading" /\ ~f.waiting
  /\ Busy(f) => f.retries <= Retries

\* What is received is whole blocks of a file, as long as it is read.
SoundRead(f) ==
  /\ f.arg \notin DOMAIN FileSize => f.received = 0
  /\ f.state = "reading" => f.received = f.block * BlockSize

Places == (Names \cup {NoName}) \X Nat
Rings == [buf : {NoBuf} \cup [0 .. RingCap - 1 -> Places], head : 0 .. RingCap - 1,
          len : 0 .. RingCap, ended : BOOLEAN]

\* The bytes in the ring are those after what was taken.
Holds(f, r, t) ==
  \A k \in 0 .. r.len - 1 : r.buf[(r.head + k) % RingCap] = <<f.arg, Len(t) + k>>

\* What was taken is the beginning of the file.
Beginning(f, t) ==
  /\ t \in Seq(Names \X Nat) /\ Len(t) <= f.received
  /\ \A i \in 1 .. Len(t) : t[i] = <<f.arg, i - 1>>

SoundRing(f, r, t) ==
  /\ r \in Rings
  /\ r.buf = NoBuf => r.len = 0
  /\ f.arg \notin Names => r.buf = NoBuf /\ t = <<>>
  /\ f.state = "reading" => r.buf # NoBuf /\ ~r.ended
  /\ r.buf # NoBuf => f.received = Len(t) + r.len /\ Holds(f, r, t)
  /\ f.paused => r.len > 0 /\ RingCap - r.len < BlockSize

\* The files have grown to z.
Lengths(z) ==
  /\ z \in [DOMAIN FileSize -> Nat]
  /\ \A f \in DOMAIN FileSize : FileSize[f] <= z[f]

\* A size in the list is one the file has had.
Sizes == \A i \in DOMAIN list :
           /\ FileSize[list[i].name] <= list[i].size
           /\ list[i].size <= size[list[i].name]

\* So is one a request was sent at.
Dated(wire) ==
  \A i \in DOMAIN wire :
    About(wire[i]) \in DOMAIN FileSize => FileSize[About(wire[i])] <= wire[i].was

\* A file grown to z brings the n bytes that were promised of it: it has them,
\* a size it is read up to reaches them, and so does any answer on its way.
Kept(f, wire, z, n) ==
  /\ f.arg \in DOMAIN FileSize => n <= z[f.arg] /\ f.received <= z[f.arg]
  /\ f.arg \in Names \ DOMAIN FileSize => n = 0
  /\ f.state = "reading" /\ f.size # -1 => n <= f.size
  /\ \A i \in DOMAIN wire :
       wire[i].verb = "FILEREAD" /\ wire[i].arg = f.arg => n <= wire[i].was

\* l names the files of pattern p up to the n-th, as far as they are kept.
FirstOf(p, n, l) ==
  /\ Len(l) = IF n < ListMax THEN n ELSE ListMax
  /\ \A i \in 1 .. Len(l) : l[i].name = Matches[p][i]

\* A listing that was not begun among requests for another.
SoundListing(f, l, wire) ==
  /\ f.index <= Len(Matches[f.arg]) /\ FirstOf(f.arg, f.index, l)
  /\ \A i \in DOMAIN wire : wire[i].verb = "FDFILES" => wire[i].arg = f.arg

OtherTypes ==
  /\ enabled \in BOOLEAN /\ linkUp \in BOOLEAN /\ running \in BOOLEAN
  /\ idle \in 0..(IdleMs + 1)
  /\ list \in Seq([name : DOMAIN FileSize, size : Nat]) /\ Len(list) <= ListMax
  /\ listValid \in BOOLEAN
  /\ net \in Seq(Requests) /\ Len(net) <= NetBound
  /\ Lengths(size) /\ mixed \in BOOLEAN

SoundFile(f, r, t) ==
  SoundTransfer(f) /\ SoundRead(f) /\ Beginning(f, t) /\ SoundRing(f, r, t)

FileIInv == SoundFile(fs, ring, taken) /\ (Busy(fs) => enabled)

\* The names in a listing reported as whole.
WholeNames ==
  \E p \in Patterns : /\ fs.arg \in Patterns => p = fs.arg
                     /\ FirstOf(p, Len(Matches[p]), list)

ListIInv ==
  /\ OtherTypes
  /\ fs.state = "listing" => ~listValid /\ (mixed \/ SoundListing(fs, list, net))
  /\ listValid => WholeNames \/ mixed

SizeIInv ==
  /\ Sizes /\ Dated(net)
  /\ promised \in Nat /\ Kept(fs, net, size, promised)

IInv == FileIInv /\ ListIInv /\ SizeIInv

-----------------------------------------------------------------------------
(***************************************************************************)
(* Arithmetic of the ring and of the blocks                                *)
(***************************************************************************)

\* The constants as the assumptions give them.
LEMMA Bounds ==
  /\ BlockSize \in Nat \ {0} /\ RingCap \in Nat \ {0} /\ RingCap >= BlockSize
  /\ TakeCap \in Nat \ {0} /\ ListMax \in Nat /\ IdleMs \in Nat /\ NetBound \in Nat \ {0}
  /\ ReplyMs \in Nat \ {0} /\ Retries \in Nat
BY FilesAssumption, DryerFilesAssumption

\* Where the k-th byte lies, seen from the place behind the len in the ring.
SeenFromBehind(R, head, len, k) ==
  /\ (head + k) % R \in 0 .. R - 1
  /\ (((head + k) % R) - ((head + len) % R) + R) % R =
       IF k < len THEN R - len + k ELSE k - len

\* It is so for all that fits.
LEMMA Behind ==
  ASSUME NEW R \in Nat \ {0}, NEW head \in 0 .. R - 1, NEW len \in 0 .. R,
         NEW n \in 0 .. R - len, NEW k \in 0 .. len + n - 1
  PROVE  SeenFromBehind(R, head, len, k)
<1>1. head + k \in 0 .. 2 * R - 1 /\ head + len \in 0 .. 2 * R - 1
  OBVIOUS
<1> DEFINE to == (head + k) % R
           at == (head + len) % R
<1>2. to \in 0 .. R - 1 /\ to = IF head + k < R THEN head + k ELSE head + k - R
  OBVIOUS
<1>3. at \in 0 .. R - 1 /\ at = IF head + len < R THEN head + len ELSE head + len - R
  OBVIOUS
<1> HIDE DEF to, at
<1>4. to - at + R \in 0 .. 2 * R - 1
  BY <1>2, <1>3
<1>5. (to - at + R) % R = IF to - at + R < R THEN to - at + R ELSE to - at + R - R
  BY <1>2, <1>3
<1>6. (to - at + R) % R = IF k < len THEN R - len + k ELSE k - len
  BY <1>2, <1>3, <1>5
<1>7. QED BY <1>2, <1>6 DEF to, at, SeenFromBehind

\* A place counted from another one lies in the ring.
LEMMA InRing ==
  ASSUME NEW R \in Nat \ {0}, NEW at \in 0 .. R - 1, NEW k \in 0 .. R - 1
  PROVE  (k - at + R) % R \in 0 .. R - 1
OBVIOUS

\* The place n behind another one lies in the ring.
LEMMA AheadInRing ==
  ASSUME NEW R \in Nat \ {0}, NEW head \in 0 .. R - 1, NEW n \in 0 .. R
  PROVE  (head + n) % R \in 0 .. R - 1
OBVIOUS

\* A place of the ring is itself.
LEMMA AtPlace ==
  ASSUME NEW R \in Nat \ {0}, NEW head \in 0 .. R - 1
  PROVE  head % R = head
OBVIOUS

\* Passing n places and then k is passing n + k.
LEMMA Onward ==
  ASSUME NEW R \in Nat \ {0}, NEW head \in 0 .. R - 1, NEW n \in 0 .. R,
         NEW k \in 0 .. R - n - 1
  PROVE  /\ (head + n) % R \in 0 .. R - 1
         /\ (((head + n) % R) + k) % R = (head + (n + k)) % R
<1> DEFINE at == (head + n) % R
<1>1. head + n \in 0 .. 2 * R - 1 /\ head + (n + k) \in 0 .. 2 * R - 1
  OBVIOUS
<1>2. at \in 0 .. R - 1 /\ at = IF head + n < R THEN head + n ELSE head + n - R
  OBVIOUS
<1>3. (head + (n + k)) % R = IF head + (n + k) < R THEN head + (n + k) ELSE head + (n + k) - R
  OBVIOUS
<1> HIDE DEF at
<1>4. at + k \in 0 .. 2 * R - 1
  BY <1>2
<1>5. (at + k) % R = IF at + k < R THEN at + k ELSE at + k - R
  BY <1>2
<1>6. (at + k) % R = (head + (n + k)) % R
  BY <1>2, <1>3, <1>5
<1>7. QED BY <1>2, <1>6 DEF at

\* The first byte of the block after b, in blocks of n.
LEMMA NextBlock ==
  ASSUME NEW b \in Nat, NEW n \in Nat
  PROVE  b * n \in Nat /\ (b + 1) * n = b * n + n
OBVIOUS

\* A new buffer has a cell for each place, and is not the missing one.
LEMMA Buffers == DOMAIN Fresh = 0 .. RingCap - 1 /\ Fresh # NoBuf
BY Bounds DEF Fresh, NoBuf

\* No name of a file is a pattern, and a pattern matches files.
LEMMA Arguments ==
  /\ NoName \notin Names
  /\ \A a : ~(a \in Patterns /\ a \in Names) /\ ~(a = NoName /\ a \in Patterns)
  /\ \A a \in DOMAIN FileSize : a \in Names /\ FileSize[a] \in Nat
  /\ \A p \in Patterns : Matches[p] \in Seq(DOMAIN FileSize)
BY DryerFilesAssumption DEF Names, Patterns

-----------------------------------------------------------------------------
(***************************************************************************)
(* The transfer state machine                                              *)
(***************************************************************************)

Same(f, g) ==
  /\ g.arg = f.arg /\ g.index = f.index /\ g.block = f.block
  /\ g.size = f.size /\ g.received = f.received

Errors == {"ok", "timeout", "link", "checksum", "missing", "tooBig", "send", "cancelled"}

\* A transfer that is finished is a transfer, of the same file.
LEMMA FinishKeeps ==
  ASSUME NEW f \in Transfers, NEW st \in {"done", "failed"}, NEW err \in Errors
  PROVE  LET g == Finish(f, st, err) IN
         /\ g \in Transfers /\ Same(f, g)
         /\ g.state = st /\ ~Busy(g) /\ ~g.waiting /\ ~g.paused
<1> DEFINE g == Finish(f, st, err)
<1>1. g \in Transfers /\ Same(f, g) /\ g.state = st
  <2>1. /\ DOMAIN g = DOMAIN f
        /\ g = [f EXCEPT !.state = st, !.err = err, !.waiting = FALSE,
                         !.pending = FALSE, !.paused = FALSE]
    BY DEF Finish
  <2>2. g \in Transfers
    BY <2>1 DEF Transfers, Errors
  <2>3. QED BY <2>1, <2>2 DEF Transfers, Same
<1>2. g.waiting = FALSE /\ g.paused = FALSE
  BY DEF Finish, Transfers
<1>3. QED BY <1>1, <1>2 DEF Busy

\* A failed transfer is sound whatever it was before.
LEMMA EndsSound ==
  ASSUME NEW f \in Transfers, SoundTransfer(f) \/ ~Busy(f), SoundRead(f),
         NEW st \in {"done", "failed"}, NEW err \in Errors
  PROVE  SoundTransfer(Finish(f, st, err)) /\ SoundRead(Finish(f, st, err))
<1> DEFINE g == Finish(f, st, err)
<1>1. /\ g \in Transfers /\ Same(f, g)
      /\ g.state = st /\ ~Busy(g) /\ ~g.waiting /\ ~g.paused
  BY FinishKeeps
<1>2. g.state # "listing" /\ g.state # "reading"
  BY <1>1
<1> HIDE DEF g
<1>3. SoundTransfer(g) /\ SoundRead(g)
  BY <1>1, <1>2 DEF SoundTransfer, SoundRead, Same
<1>4. QED BY <1>3 DEF g

\* A retry keeps a transfer sound, or fails it.
LEMMA RetryKeeps ==
  ASSUME NEW f, SoundTransfer(f), SoundRead(f), Busy(f), NEW err \in Errors
  PROVE  LET g == Retry(f, err) IN
         /\ SoundTransfer(g) /\ SoundRead(g) /\ Same(f, g)
         /\ ~g.waiting
         /\ \/ g.state = f.state /\ g.paused = f.paused
            \/ g.state = "failed" /\ ~g.paused
<1> DEFINE g == Retry(f, err)
<1>1. f \in Transfers /\ f.retries <= Retries /\ f.retries + 1 \in 0 .. Retries + 1
  BY Bounds DEF SoundTransfer, Transfers
<1>2. CASE f.retries + 1 > Retries
  <2> DEFINE h == [f EXCEPT !.retries = f.retries + 1]
  <2>1. h \in Transfers /\ Same(f, h)
    BY <1>1 DEF Transfers, Same
  <2>2. g = Finish(h, "failed", err)
    BY <1>2 DEF Retry
  <2> HIDE DEF h
  <2>3. /\ g \in Transfers /\ Same(h, g)
        /\ g.state = "failed" /\ ~Busy(g) /\ ~g.waiting /\ ~g.paused
    BY <2>1, <2>2, FinishKeeps DEF Errors
  <2>4. Same(f, g)
    BY <2>1, <2>3 DEF Same
  <2> HIDE DEF g
  <2>5. SoundTransfer(g) /\ SoundRead(g)
    BY <2>3, <2>4 DEF SoundTransfer, SoundRead, Same
  <2>6. QED BY <2>3, <2>4, <2>5 DEF g
<1>3. CASE ~(f.retries + 1 > Retries)
  <2>1. g = [f EXCEPT !.waiting = FALSE, !.pending = TRUE, !.retries = f.retries + 1]
    BY <1>3 DEF Retry
  <2>2. g.waiting = FALSE /\ g \in Transfers /\ Same(f, g) /\ g.state = f.state
        /\ g.paused = f.paused /\ g.retries = f.retries + 1
    BY <1>1, <2>1 DEF Transfers, Same
  <2>3. ~g.waiting
    BY <2>2
  <2> HIDE DEF g
  <2>4. SoundTransfer(g) /\ SoundRead(g)
    BY <1>1, <1>3, <2>2, <2>3, Bounds DEF SoundTransfer, SoundRead, Same, Busy
  <2>5. QED BY <2>2, <2>3, <2>4 DEF g
<1>4. QED BY <1>2, <1>3

\* A look at the timeouts keeps a transfer sound, or fails it.
LEMMA ExpireKeeps ==
  ASSUME NEW f, SoundTransfer(f), SoundRead(f), NEW up \in BOOLEAN
  PROVE  LET x == Expire(f, up) IN
         /\ SoundTransfer(x) /\ SoundRead(x) /\ Same(f, x)
         /\ x.waiting => up
         /\ \/ x.state = f.state /\ x.paused = f.paused
            \/ Busy(f) /\ x.state = "failed" /\ ~x.paused
         /\ ~Busy(f) => x = f
<1> DEFINE x == Expire(f, up)
<1>1. CASE ~Busy(f)
  BY <1>1 DEF Expire, Same, SoundTransfer
<1>2. CASE Busy(f) /\ ~up
  <2>1. x = Finish(f, "failed", "link")
    BY <1>2 DEF Expire
  <2>2. QED BY <1>2, <2>1, FinishKeeps, EndsSound DEF SoundTransfer, Errors
<1>3. CASE Busy(f) /\ up /\ ~f.paused /\ f.waiting /\ f.age >= ReplyMs
  <2>1. x = Retry(f, "timeout")
    BY <1>3 DEF Expire
  <2>2. /\ SoundTransfer(x) /\ SoundRead(x) /\ Same(f, x)
        /\ \/ x.state = f.state /\ x.paused = f.paused
           \/ x.state = "failed" /\ ~x.paused
    <3>1. "timeout" \in Errors
      BY DEF Errors
    <3> DEFINE y == Retry(f, "timeout")
    <3>2. Busy(f)
      BY <1>3
    <3>3. /\ SoundTransfer(y) /\ SoundRead(y) /\ Same(f, y)
          /\ \/ y.state = f.state /\ y.paused = f.paused
             \/ y.state = "failed" /\ ~y.paused
      BY <3>1, <3>2, RetryKeeps
    <3> HIDE DEF x, y
    <3>4. x = y
      BY <2>1 DEF y
    <3>5. QED BY <3>3, <3>4
  <2>3. QED BY <1>3, <2>2
<1>4. CASE Busy(f) /\ up /\ ~(~f.paused /\ f.waiting /\ f.age >= ReplyMs)
  <2>1. x = f
    BY <1>4 DEF Expire
  <2>2. QED BY <1>4, <2>1 DEF Same
<1>5. QED BY <1>1, <1>2, <1>3, <1>4

\* A request sent, or refused, keeps a transfer sound.
LEMMA SendKeeps ==
  ASSUME NEW f, SoundTransfer(f), SoundRead(f), Asks(f), NEW sent \in BOOLEAN
  PROVE  LET g == SendRequest(f, sent) IN
         /\ SoundTransfer(g) /\ SoundRead(g) /\ Same(f, g) /\ ~g.paused
         /\ g.state \in {f.state, "failed"}
<1> DEFINE g == SendRequest(f, sent)
<1>1. CASE sent
  <2>1. g = [f EXCEPT !.pending = FALSE, !.waiting = TRUE, !.age = 0]
    BY <1>1 DEF SendRequest
  <2>2. f \in Transfers /\ TRUE \in BOOLEAN /\ 0 \in 0 .. ReplyMs
    BY Bounds DEF SoundTransfer
  <2>3. g \in Transfers
    BY <2>1, <2>2 DEF Transfers
  <2>4. Same(f, g) /\ g.state = f.state /\ g.paused = f.paused /\ g.retries = f.retries
    BY <2>1, <2>2 DEF Transfers, Same
  <2> HIDE DEF g
  <2>5. SoundTransfer(g) /\ SoundRead(g)
    BY <2>3, <2>4 DEF SoundTransfer, SoundRead, Same, Busy, Asks
  <2>6. QED BY <2>4, <2>5 DEF g, Asks
<1>2. CASE ~sent
  <2>1. g = Finish(f, "failed", "send")
    BY <1>2 DEF SendRequest
  <2>2. QED BY <2>1, FinishKeeps, EndsSound DEF SoundTransfer, Errors
<1>3. QED BY <1>1, <1>2

\* A request sent for the transfer f, at the size the file has now.
Brings(f, q) == q.arg = f.arg /\ q.was = SizeNow(About(q))

(* What the tick at the end of a handler may make of a transfer: the same,  *)
(* with a request out or not, or a failed one.                             *)
LEMMA OutcomesKeep ==
  ASSUME Lengths(size), NEW f, SoundTransfer(f), SoundRead(f), NEW up \in BOOLEAN,
         NEW wire \in Seq(Requests), Len(wire) <= NetBound,
         NEW o \in Outcomes(f, up, wire)
  PROVE  /\ SoundTransfer(o.fs) /\ SoundRead(o.fs) /\ Same(f, o.fs)
         /\ o.fs.waiting => up
         /\ \/ o.fs.state = f.state /\ (o.fs.paused => f.paused)
            \/ Busy(f) /\ o.fs.state = "failed" /\ ~o.fs.paused
         /\ ~Busy(f) => o.fs = f
         /\ o.net \in Seq(Requests) /\ Len(o.net) <= NetBound
         /\ \A i \in DOMAIN o.net : \/ i \in DOMAIN wire /\ o.net[i] = wire[i]
                                    \/ Brings(f, o.net[i])
<1> DEFINE x == Expire(f, up)
<1>1. /\ SoundTransfer(x) /\ SoundRead(x) /\ Same(f, x)
      /\ x.waiting => up
      /\ \/ x.state = f.state /\ x.paused = f.paused
         \/ Busy(f) /\ x.state = "failed" /\ ~x.paused
      /\ ~Busy(f) => x = f
  BY ExpireKeeps
<1>2. CASE ~Asks(x)
  <2>1. o = [fs |-> x, net |-> wire]
    BY <1>2 DEF Outcomes
  <2>2. o.fs = x /\ o.net = wire
    BY <2>1
  <2> HIDE DEF x
  <2>3. QED BY <1>1, <2>2
<1>3. CASE Asks(x)
  <2>1. Busy(x) /\ Busy(f) /\ up /\ x.state = f.state /\ x.paused = f.paused
    <3>1. Busy(x)
      BY <1>3 DEF Asks
    <3>2. x.state = f.state /\ x.paused = f.paused /\ Busy(f)
      BY <1>1, <3>1 DEF Busy
    <3>3. up
      <4>1. CASE ~up
        <5>1. x = Finish(f, "failed", "link")
          BY <3>2, <4>1 DEF Expire
        <5>2. ~Busy(x)
          BY <5>1, FinishKeeps DEF SoundTransfer, Errors
        <5>3. QED BY <3>1, <5>2
      <4>2. QED BY <4>1
    <3>4. QED BY <3>1, <3>2, <3>3
  <2>2. PICK sent \in BOOLEAN :
          /\ o.fs = SendRequest(x, sent)
          /\ \/ o.net = wire
             \/ Len(wire) < NetBound /\ o.net = Append(wire, Sent(Request(x)))
    <3>1. CASE o = [fs |-> SendRequest(x, FALSE), net |-> wire]
      BY <3>1
    <3>2. CASE /\ Len(wire) < NetBound
               /\ o = [fs |-> SendRequest(x, TRUE), net |-> Append(wire, Sent(Request(x)))]
      BY <3>2
    <3>3. QED BY <1>3, <3>1, <3>2 DEF Outcomes
  <2>3. /\ SoundTransfer(o.fs) /\ SoundRead(o.fs) /\ Same(x, o.fs) /\ ~o.fs.paused
        /\ o.fs.state \in {x.state, "failed"}
    BY <1>1, <1>3, <2>2, SendKeeps
  <2>4. Sent(Request(x)) \in Requests /\ Brings(f, Sent(Request(x)))
    <3> DEFINE r == Request(x)
               w == SizeNow(About(r))
               q == Sent(r)
    <3>1. /\ r.arg = f.arg /\ r.at \in Nat
          /\ \/ r.verb = "FDFILES" /\ r.arg \in Patterns
             \/ r.verb = "FILEREAD" /\ r.arg \in Names
      BY <1>1, <2>1 DEF Request, SoundTransfer, Transfers, Busy, Same
    <3>2. w \in Nat
      BY DEF SizeNow, Lengths
    <3>3. About(q) = About(r)
      BY DEF Sent, About
    <3> HIDE DEF r, w
    <3>4. q = [verb |-> r.verb, arg |-> r.arg, at |-> r.at, was |-> w]
      BY DEF Sent, w
    <3>5. q \in Requests /\ q.arg = f.arg /\ q.was = w
      BY <3>1, <3>2, <3>4 DEF Requests
    <3>6. Brings(f, q)
      BY <3>3, <3>5 DEF Brings, w
    <3>7. QED BY <3>5, <3>6 DEF r
  <2>5. /\ o.net \in Seq(Requests) /\ Len(o.net) <= NetBound
        /\ \A i \in DOMAIN o.net : \/ i \in DOMAIN wire /\ o.net[i] = wire[i]
                                   \/ Brings(f, o.net[i])
    <3>1. CASE o.net = wire
      BY <3>1
    <3>2. CASE Len(wire) < NetBound /\ o.net = Append(wire, Sent(Request(x)))
      <4> DEFINE q == Sent(Request(x))
      <4>1. q \in Requests /\ Brings(f, q) /\ o.net = Append(wire, q) /\ Len(wire) < NetBound
        BY <2>4, <3>2
      <4> HIDE DEF q
      <4>2. /\ o.net \in Seq(Requests) /\ Len(o.net) = Len(wire) + 1
            /\ \A i \in 1 .. Len(wire) : o.net[i] = wire[i]
            /\ o.net[Len(wire) + 1] = q
        BY <4>1, AppendProperties
      <4>3. QED BY <4>1, <4>2, Bounds
    <3>3. QED BY <2>2, <3>1, <3>2
  <2>6. Same(f, o.fs)
    BY <1>1, <2>3 DEF Same
  <2> HIDE DEF x
  <2>7. QED BY <2>1, <2>3, <2>5, <2>6
<1>4. QED BY <1>2, <1>3

\* What a transfer begins with.
LEMMA BeginFields ==
  ASSUME NEW st \in {"listing", "reading"}, NEW arg \in Names \cup Patterns,
         NEW told \in Nat \cup {-1}
  PROVE  LET b == Begin(st, arg, told) IN
         /\ b \in Transfers /\ b.state = st /\ b.arg = arg /\ b.index = 0 /\ b.block = 0
         /\ b.size = told /\ b.received = 0 /\ b.retries = 0 /\ ~b.waiting /\ ~b.paused
<1> DEFINE b == Begin(st, arg, told)
<1>1. b = [Init0 EXCEPT !.state = st, !.arg = arg, !.size = told, !.pending = TRUE]
  BY DEF Begin
<1>2. /\ Init0 \in Transfers /\ Init0.index = 0 /\ Init0.block = 0
      /\ Init0.received = 0 /\ Init0.retries = 0
  BY Bounds DEF Transfers, Init0
<1>3. Init0.waiting = FALSE /\ Init0.paused = FALSE
  BY DEF Init0
<1>4. /\ b.state = st /\ b.arg = arg /\ b.size = told
      /\ b.index = 0 /\ b.block = 0 /\ b.received = 0 /\ b.retries = 0
      /\ b.waiting = Init0.waiting /\ b.paused = Init0.paused
  BY <1>1, <1>2 DEF Transfers
<1>5. b \in Transfers
  <2>1. TRUE \in BOOLEAN
    OBVIOUS
  <2>2. QED BY <1>1, <1>2, <2>1 DEF Transfers
<1> HIDE DEF b
<1>6. ~b.waiting /\ ~b.paused
  BY <1>3, <1>4
<1>7. QED BY <1>4, <1>5, <1>6 DEF b

-----------------------------------------------------------------------------
(***************************************************************************)
(* The ring                                                                *)
(***************************************************************************)

\* What is only marked as ended holds what it held.
LEMMA EndedRing ==
  ASSUME NEW r \in Rings, NEW e \in BOOLEAN
  PROVE  LET g == [r EXCEPT !.ended = e] IN
         /\ g \in Rings /\ g.ended = e
         /\ g.buf = r.buf /\ g.head = r.head /\ g.len = r.len
BY DEF Rings

\* A ring that is freed keeps its counters.
LEMMA FreedRing ==
  ASSUME NEW r \in Rings
  PROVE  LET g == Freed(r) IN
         /\ g \in Rings /\ g.buf = NoBuf
         /\ g.ended = r.ended /\ g.head = r.head /\ g.len = r.len
BY DEF Rings, Freed

(* The ring stays sound when the tick has made g of the transfer f, and the *)
(* ring is marked as ended only if g has ended.                            *)
LEMMA RingStays ==
  ASSUME NEW f, NEW g, NEW r, NEW t, NEW e \in BOOLEAN,
         SoundTransfer(g), g.arg = f.arg, g.received = f.received,
         g.state = "reading" => f.state = "reading", g.paused => f.paused,
         Beginning(f, t), SoundRing(f, r, t),
         e => r.ended \/ ~Busy(g)
  PROVE  Beginning(g, t) /\ SoundRing(g, [r EXCEPT !.ended = e], t)
<1> DEFINE r2 == [r EXCEPT !.ended = e]
<1>1. /\ r2 \in Rings /\ r2.ended = e
      /\ r2.buf = r.buf /\ r2.head = r.head /\ r2.len = r.len
  BY EndedRing DEF SoundRing
<1> HIDE DEF r2
<1>2. Beginning(g, t)
  BY DEF Beginning
<1>3. g.state = "reading" => ~r2.ended
  BY <1>1 DEF SoundRing, Busy
<1>4. Holds(f, r, t) => Holds(g, r2, t)
  BY <1>1 DEF Holds
<1>5. SoundRing(g, r2, t)
  BY <1>1, <1>3, <1>4 DEF SoundRing
<1>6. QED BY <1>2, <1>5 DEF r2

\* A new ring is sound for a file of which nothing came.
LEMMA EmptyRing ==
  ASSUME NEW f, NEW e \in BOOLEAN, SoundTransfer(f), f.state = "reading",
         f.received = 0, ~f.paused, ~e
  PROVE  /\ Beginning(f, <<>>)
         /\ SoundRing(f, [buf |-> Fresh, head |-> 0, len |-> 0, ended |-> e], <<>>)
<1> DEFINE r == [buf |-> Fresh, head |-> 0, len |-> 0, ended |-> e]
<1>1. Fresh \in [0 .. RingCap - 1 -> Places]
  BY DEF Fresh, Places, Junk
<1>2. /\ r \in Rings /\ r.buf = Fresh /\ r.len = 0 /\ r.ended = e
  BY <1>1, Bounds DEF Rings
<1>3. Len(<<>>) = 0 /\ <<>> \in Seq(Names \X Nat)
  OBVIOUS
<1> HIDE DEF r
<1>4. Beginning(f, <<>>)
  BY <1>3 DEF Beginning
<1>5. Holds(f, r, <<>>)
  BY <1>2 DEF Holds
<1>6. SoundRing(f, r, <<>>)
  BY <1>2, <1>3, <1>5, Buffers DEF SoundRing, SoundTransfer
<1>7. QED BY <1>4, <1>6 DEF r

\* With no buffer there is nothing to be sound about.
LEMMA NoRing ==
  ASSUME NEW f, NEW r \in Rings, NEW t, r.buf = NoBuf, r.len = 0, f.state # "reading", ~f.paused,
         f.arg \notin Names => t = <<>>
  PROVE  SoundRing(f, r, t)
BY DEF SoundRing

\* The k-th place of the ring as seen from behind what it holds.
PlaceOf(r, k) == (k - ((r.head + r.len) % RingCap) + RingCap) % RingCap

\* The ring with n bytes more of the file named name, from byte base on.
Filled(r, name, base, n) ==
  [r EXCEPT !.buf = [k \in 0 .. RingCap - 1 |->
                       IF PlaceOf(r, k) < n THEN <<name, base + PlaceOf(r, k)>> ELSE r.buf[k]],
            !.len = r.len + n]

\* The bytes of a block, put one by one, fill the places behind the ring's end.
LEMMA PutFills ==
  ASSUME NEW r \in Rings, NEW b, r.buf # NoBuf
  PROVE  Put(r, b) = Filled(r, b.name, b.block * BlockSize, b.n)
<1>1. DOMAIN r.buf = 0 .. RingCap - 1
  BY DEF Rings
<1>2. QED BY <1>1 DEF Put, Filled, PlaceOf

(* A block goes behind what the ring holds.                                *)
LEMMA FilledHolds ==
  ASSUME NEW f, NEW r \in Rings, NEW t \in Seq(Names \X Nat), NEW base \in Nat,
         NEW n \in 0 .. RingCap - r.len,
         r.buf # NoBuf, f.arg \in Names, base = Len(t) + r.len, Holds(f, r, t)
  PROVE  LET p == Filled(r, f.arg, base, n) IN
         /\ p \in Rings /\ p.buf # NoBuf
         /\ p.len = r.len + n /\ p.ended = r.ended
         /\ Holds(f, p, t)
<1> DEFINE place(k) == PlaceOf(r, k)
           buf == [k \in 0 .. RingCap - 1 |->
                     IF place(k) < n THEN <<f.arg, base + place(k)>> ELSE r.buf[k]]
           p == Filled(r, f.arg, base, n)
<1>1. /\ RingCap \in Nat \ {0} /\ r.head \in 0 .. RingCap - 1 /\ r.len \in 0 .. RingCap
      /\ r.buf \in [0 .. RingCap - 1 -> Places]
  BY Bounds DEF Rings
<1>2. p = [r EXCEPT !.buf = buf, !.len = r.len + n]
  BY DEF Filled
<1>3. \A k \in 0 .. RingCap - 1 : place(k) \in 0 .. RingCap - 1
  <2> DEFINE at == (r.head + r.len) % RingCap
  <2>1. at \in 0 .. RingCap - 1
    BY <1>1, AheadInRing
  <2> HIDE DEF at
  <2>2. \A k \in 0 .. RingCap - 1 : (k - at + RingCap) % RingCap \in 0 .. RingCap - 1
    BY <1>1, <2>1, InRing
  <2>3. QED BY <2>2 DEF PlaceOf, at
<1>4. \A k \in 0 .. r.len + n - 1 :
        /\ (r.head + k) % RingCap \in 0 .. RingCap - 1
        /\ place((r.head + k) % RingCap) =
             IF k < r.len THEN RingCap - r.len + k ELSE k - r.len
  <2> SUFFICES ASSUME NEW k \in 0 .. r.len + n - 1
               PROVE  /\ (r.head + k) % RingCap \in 0 .. RingCap - 1
                      /\ place((r.head + k) % RingCap) =
                           IF k < r.len THEN RingCap - r.len + k ELSE k - r.len
    OBVIOUS
  <2>1. SeenFromBehind(RingCap, r.head, r.len, k)
    <3>1. /\ RingCap \in Nat \ {0} /\ r.head \in 0 .. RingCap - 1 /\ r.len \in 0 .. RingCap
          /\ n \in 0 .. RingCap - r.len /\ k \in 0 .. r.len + n - 1
      BY <1>1
    <3>2. QED BY <3>1, Behind
  <2>2. QED BY <2>1 DEF PlaceOf, SeenFromBehind
<1> HIDE DEF place
<1>6. buf = [k \in 0 .. RingCap - 1 |->
               IF place(k) < n THEN <<f.arg, base + place(k)>> ELSE r.buf[k]]
  OBVIOUS
<1>7. buf \in [0 .. RingCap - 1 -> Places]
  <2>1. ASSUME NEW k \in 0 .. RingCap - 1
        PROVE  (IF place(k) < n THEN <<f.arg, base + place(k)>> ELSE r.buf[k]) \in Places
    <3>1. place(k) \in Nat
      <4>1. place(k) \in 0 .. RingCap - 1
        BY <1>3
      <4>2. 0 .. RingCap - 1 \subseteq Nat
        BY <1>1
      <4>3. QED BY <4>1, <4>2
    <3>2. base + place(k) \in Nat
      BY <3>1
    <3>3. <<f.arg, base + place(k)>> \in Places
      BY <3>2 DEF Places
    <3>4. r.buf[k] \in Places
      BY <1>1
    <3>5. QED BY <3>3, <3>4
  <2>2. QED BY <1>6, <2>1
<1> HIDE DEF buf
<1>8. buf # NoBuf
  <2>1. DOMAIN buf = 0 .. RingCap - 1
    BY <1>7
  <2>2. QED BY <1>1, <2>1 DEF NoBuf
<1>9. /\ p \in Rings /\ p.buf = buf /\ p.head = r.head
      /\ p.len = r.len + n /\ p.ended = r.ended
  <2>1. r.len + n \in 0 .. RingCap
    BY <1>1
  <2>2. QED BY <1>2, <1>7, <2>1 DEF Rings
<1> HIDE DEF p
<1>10. ASSUME NEW k \in 0 .. p.len - 1
       PROVE  p.buf[(p.head + k) % RingCap] = <<f.arg, Len(t) + k>>
  <2> DEFINE to == (r.head + k) % RingCap
  <2>1. k \in 0 .. r.len + n - 1
    BY <1>1, <1>9
  <2>2. /\ to \in 0 .. RingCap - 1
        /\ place(to) = IF k < r.len THEN RingCap - r.len + k ELSE k - r.len
    BY <1>4, <2>1
  <2> HIDE DEF to
  <2>3. buf[to] = IF place(to) < n THEN <<f.arg, base + place(to)>> ELSE r.buf[to]
    BY <1>6, <2>2
  <2>4. Len(t) \in Nat
    OBVIOUS
  <2>5. CASE k < r.len
    <3>1. ~(place(to) < n)
      BY <1>1, <2>1, <2>2, <2>5
    <3>2. k \in 0 .. r.len - 1
      BY <1>1, <2>1, <2>5
    <3>3. r.buf[to] = <<f.arg, Len(t) + k>>
      BY <3>2 DEF Holds, to
    <3>4. QED BY <1>9, <2>3, <3>1, <3>3 DEF to
  <2>6. CASE ~(k < r.len)
    <3>1. place(to) = k - r.len /\ place(to) < n
      BY <1>1, <2>1, <2>2, <2>6
    <3>2. base + place(to) = Len(t) + k
      BY <1>1, <2>1, <2>4, <3>1
    <3>3. QED BY <1>9, <2>3, <3>1, <3>2 DEF to
  <2>7. QED BY <2>5, <2>6
<1>11. Holds(f, p, t)
  BY <1>10 DEF Holds
<1>12. QED BY <1>8, <1>9, <1>11 DEF p

(* What is taken is what follows in the file, and so is the rest.          *)
LEMMA TakeHolds ==
  ASSUME NEW f, NEW r \in Rings, NEW t, NEW n \in 0 .. r.len,
         Beginning(f, t), r.buf # NoBuf, f.arg \in Names,
         f.received = Len(t) + r.len, Holds(f, r, t)
  PROVE  LET d == Drain(r, n)
             u == t \o Bytes(r, n)
         IN  /\ d \in Rings /\ d.buf = r.buf /\ d.len = r.len - n /\ d.ended = r.ended
             /\ Beginning(f, u) /\ Len(u) = Len(t) + n
             /\ Holds(f, d, u)
<1> DEFINE d == Drain(r, n)
           y == Bytes(r, n)
           u == t \o y
<1>1. /\ RingCap \in Nat \ {0} /\ r.head \in 0 .. RingCap - 1 /\ r.len \in 0 .. RingCap
      /\ t \in Seq(Names \X Nat) /\ Len(t) \in Nat /\ n \in Nat
  BY Bounds DEF Rings, Beginning
<1>2. \A i \in 1 .. n : r.buf[(r.head + i - 1) % RingCap] = <<f.arg, Len(t) + i - 1>>
  <2> SUFFICES ASSUME NEW i \in 1 .. n
               PROVE  r.buf[(r.head + i - 1) % RingCap] = <<f.arg, Len(t) + i - 1>>
    OBVIOUS
  <2>1. i - 1 \in 0 .. r.len - 1 /\ r.head + (i - 1) = r.head + i - 1
        /\ Len(t) + (i - 1) = Len(t) + i - 1
    BY <1>1
  <2>2. r.buf[(r.head + (i - 1)) % RingCap] = <<f.arg, Len(t) + (i - 1)>>
    BY <2>1 DEF Holds
  <2>3. QED BY <2>1, <2>2
<1>3. y = [i \in 1 .. n |-> <<f.arg, Len(t) + i - 1>>]
  BY <1>2 DEF Bytes
<1>4. y \in Seq(Names \X Nat) /\ Len(y) = n
  <2>1. \A i \in 1 .. n : Len(t) + i - 1 \in Nat
    BY <1>1
  <2>2. QED BY <1>1, <1>3, <2>1
<1> HIDE DEF y
<1>5. /\ u \in Seq(Names \X Nat) /\ Len(u) = Len(t) + n
      /\ \A i \in 1 .. Len(t) + n : u[i] = IF i <= Len(t) THEN t[i] ELSE y[i - Len(t)]
  BY <1>1, <1>4, ConcatProperties
<1>6. \A i \in 1 .. Len(u) : u[i] = <<f.arg, i - 1>>
  <2> SUFFICES ASSUME NEW i \in 1 .. Len(t) + n PROVE u[i] = <<f.arg, i - 1>>
    BY <1>5
  <2>1. CASE i <= Len(t)
    BY <1>1, <1>5, <2>1 DEF Beginning
  <2>2. CASE ~(i <= Len(t))
    <3>1. i - Len(t) \in 1 .. n /\ Len(t) + (i - Len(t)) - 1 = i - 1
      BY <1>1, <2>2
    <3>2. u[i] = y[i - Len(t)]
      BY <1>5, <2>2
    <3>3. y[i - Len(t)] = <<f.arg, Len(t) + (i - Len(t)) - 1>>
      BY <1>3, <3>1
    <3>4. QED BY <3>1, <3>2, <3>3
  <2>3. QED BY <2>1, <2>2
<1> HIDE DEF u
<1>7. Len(u) <= f.received
  BY <1>1, <1>5
<1>8. Beginning(f, u)
  BY <1>5, <1>6, <1>7 DEF Beginning
<1>9. (r.head + n) % RingCap \in 0 .. RingCap - 1
  <2>1. n \in 0 .. RingCap
    BY <1>1
  <2>2. QED BY <1>1, <2>1, AheadInRing
<1>10. /\ d \in Rings /\ d.buf = r.buf /\ d.len = r.len - n /\ d.ended = r.ended
       /\ d.head = (r.head + n) % RingCap
  <2>1. CASE n = 0
    <3>1. (r.head + n) % RingCap = r.head
      <4>1. r.head + n = r.head
        BY <1>1, <2>1
      <4>2. r.head % RingCap = r.head
        BY <1>1, AtPlace
      <4>3. QED BY <4>1, <4>2
    <3>2. QED BY <1>1, <2>1, <3>1 DEF Drain
  <2>2. CASE n # 0
    <3>1. d = [r EXCEPT !.head = (r.head + n) % RingCap, !.len = r.len - n]
      BY <2>2 DEF Drain
    <3>2. r.len - n \in 0 .. RingCap
      BY <1>1
    <3> DEFINE at == (r.head + n) % RingCap
    <3>3. at \in 0 .. RingCap - 1 /\ d = [r EXCEPT !.head = at, !.len = r.len - n]
      BY <1>9, <3>1
    <3> HIDE DEF at, d
    <3>4. /\ d \in Rings /\ d.buf = r.buf /\ d.len = r.len - n
          /\ d.ended = r.ended /\ d.head = at
      BY <3>2, <3>3 DEF Rings
    <3>5. QED BY <3>4 DEF at
  <2>3. QED BY <2>1, <2>2
<1> HIDE DEF d
<1>11. Holds(f, d, u)
  <2> SUFFICES ASSUME NEW k \in 0 .. d.len - 1
               PROVE  d.buf[(d.head + k) % RingCap] = <<f.arg, Len(u) + k>>
    BY DEF Holds
  <2>1. /\ n + k \in 0 .. r.len - 1 /\ Len(t) + (n + k) = Len(u) + k
        /\ n \in 0 .. RingCap /\ k \in 0 .. RingCap - n - 1
    <3>1. k \in 0 .. r.len - n - 1 /\ Len(u) = Len(t) + n
      BY <1>5, <1>10
    <3>2. RingCap \in Nat /\ r.len \in 0 .. RingCap /\ n \in 0 .. r.len /\ Len(t) \in Nat
      BY <1>1
    <3>3. QED BY <3>1, <3>2
  <2>2. (((r.head + n) % RingCap) + k) % RingCap = (r.head + (n + k)) % RingCap
    <3>1. /\ RingCap \in Nat \ {0} /\ r.head \in 0 .. RingCap - 1
          /\ n \in 0 .. RingCap /\ k \in 0 .. RingCap - n - 1
      BY <1>1, <2>1
    <3>2. QED BY <3>1, Onward
  <2>3. r.buf[(r.head + (n + k)) % RingCap] = <<f.arg, Len(t) + (n + k)>>
    BY <2>1 DEF Holds
  <2>4. QED BY <1>10, <2>1, <2>2, <2>3
<1>12. QED BY <1>5, <1>8, <1>10, <1>11 DEF d, u, y

-----------------------------------------------------------------------------
(***************************************************************************)
(* Answers                                                                 *)
(***************************************************************************)

\* What a file of had bytes has from the block asked for on.
Left(q, had) == had - q.at * BlockSize

\* A block answers its request: the place asked for, what is left at most.
LEMMA BlockFacts ==
  ASSUME NEW q \in Requests, q.verb = "FILEREAD", NEW had \in Nat, NEW sumOk \in BOOLEAN
  PROVE  LET b == BlockOf(q, had, sumOk) IN
         /\ b.block = q.at /\ q.at \in Nat /\ b.n \in 0 .. BlockSize /\ b.sumOk = sumOk
         /\ ~Missing(b) =>
              /\ q.arg \in DOMAIN FileSize /\ b.name = q.arg /\ b.size = had
              /\ b.n = IF Left(q, had) < 0 THEN 0
                       ELSE IF Left(q, had) < BlockSize THEN Left(q, had) ELSE BlockSize
<1> DEFINE b == BlockOf(q, had, sumOk)
<1>1. q.at \in Nat
  BY DEF Requests
<1>2. CASE q.arg \notin DOMAIN FileSize
  <2>1. b = [name |-> NoName, block |-> q.at, n |-> 0, size |-> 0, sumOk |-> sumOk]
    BY <1>2 DEF BlockOf
  <2>2. Missing(b)
    BY <2>1 DEF Missing
  <2>3. QED BY <1>1, <2>1, <2>2, Bounds
<1>3. CASE q.arg \in DOMAIN FileSize
  <2> DEFINE n == IF Left(q, had) < 0 THEN 0 ELSE IF Left(q, had) < BlockSize THEN Left(q, had) ELSE BlockSize
  <2>1. b = [name |-> q.arg, block |-> q.at, size |-> had, n |-> n, sumOk |-> sumOk]
    BY <1>3 DEF BlockOf, Left
  <2>2. Left(q, had) \in Int
    <3>1. q.at * BlockSize \in Nat
      BY <1>1, Bounds, NextBlock
    <3>2. QED BY <3>1 DEF Left
  <2>3. n \in 0 .. BlockSize
    BY <2>2, Bounds
  <2>4. /\ b.block = q.at /\ b.n = n /\ b.sumOk = sumOk /\ b.name = q.arg /\ b.size = had
    <3> HIDE DEF n
    <3>1. QED BY <2>1
  <2> HIDE DEF b
  <2>5. QED BY <1>1, <1>3, <2>3, <2>4 DEF b
<1>4. QED BY <1>2, <1>3

(* What an answer of a file had bytes long makes of the transfer f: either  *)
(* nothing, or its end, or bytes that were in it; and a read that is called *)
(* whole has all of those, or what it was told that there are.              *)
Answered(f, g, q, had) ==
  /\ g.arg = f.arg
  /\ \/ /\ g.received = f.received /\ g.size = f.size
        /\ g.state = f.state \/ (Busy(f) /\ g.state = "failed")
     \/ /\ f.state = "reading" /\ f.arg \in DOMAIN FileSize /\ q.arg = f.arg
        /\ f.received <= g.received /\ (g.received = f.received \/ g.received <= had)
        /\ g.size = IF f.size = -1 THEN had ELSE f.size
        /\ \/ g.state = "reading"
           \/ g.state = "done" /\ (had <= g.received \/ g.size <= g.received)

\* What there is of a block brings the bytes to the end of the file, or not past it.
LEMMA BlockBytes ==
  ASSUME NEW got \in Nat, NEW had \in Nat, NEW B \in Nat \ {0}, NEW n,
         n = IF had - got < 0 THEN 0 ELSE IF had - got < B THEN had - got ELSE B
  PROVE  /\ n \in 0 .. B /\ got + n \in Nat /\ got <= got + n
         /\ got + n = got \/ got + n <= had
         /\ n < B => had <= got + n
<1>1. CASE had - got < 0
  BY <1>1
<1>2. CASE ~(had - got < 0) /\ had - got < B
  BY <1>2
<1>3. CASE ~(had - got < 0) /\ ~(had - got < B)
  BY <1>3
<1>4. QED BY <1>1, <1>2, <1>3

(* A block that is taken brings the read on, or ends it; one there is no    *)
(* room for leaves it where it was.                                        *)
LEMMA AcceptKeeps ==
  ASSUME NEW f, SoundTransfer(f), SoundRead(f), NEW q \in Requests, q.verb = "FILEREAD",
         NEW had \in Nat, NEW sumOk \in BOOLEAN, NEW room \in BOOLEAN,
         TakesBlock(f, BlockOf(q, had, sumOk))
  PROVE  LET b == BlockOf(q, had, sumOk)
             g == Accept(f, b, room)
         IN  /\ SoundTransfer(g) /\ SoundRead(g) /\ Answered(f, g, q, had)
             /\ f.arg \in DOMAIN FileSize /\ g.arg = f.arg
             /\ room => g.received = f.received + b.n /\ ~g.paused
             /\ ~room => g.received = f.received /\ g.state = "reading"
             /\ g.state \in {"done", "reading"}
<1> DEFINE b == BlockOf(q, had, sumOk)
           g == Accept(f, b, room)
           F == IF f.size = -1 THEN had ELSE f.size
<1>1. /\ b.block = q.at /\ q.at \in Nat /\ b.n \in 0 .. BlockSize
      /\ q.arg \in DOMAIN FileSize /\ b.name = q.arg /\ b.size = had
      /\ b.n = IF Left(q, had) < 0 THEN 0
               ELSE IF Left(q, had) < BlockSize THEN Left(q, had) ELSE BlockSize
      /\ f.state = "reading" /\ f.waiting /\ q.at = f.block /\ q.arg = f.arg
  BY BlockFacts DEF TakesBlock, IsOurs
<1>2. /\ F \in Nat /\ BlockSize \in Nat \ {0} /\ 0 \in 0 .. Retries + 1 /\ 0 <= Retries
      /\ f.received \in Nat /\ f.block \in Nat /\ f \in Transfers
  BY <1>1, Bounds DEF SoundTransfer, Transfers
<1>3. Left(q, had) = had - f.received
  BY <1>1 DEF Left, SoundRead
<1>4. /\ b.n \in 0 .. BlockSize /\ f.received + b.n \in Nat /\ f.received <= f.received + b.n
      /\ f.received + b.n = f.received \/ f.received + b.n <= had
      /\ b.n < BlockSize => had <= f.received + b.n
  <2> DEFINE n == b.n
             R == f.received
             B == BlockSize
  <2>1. n = IF had - R < 0 THEN 0 ELSE IF had - R < B THEN had - R ELSE B
    BY <1>1, <1>3
  <2>2. R \in Nat /\ B \in Nat \ {0}
    BY <1>2
  <2> HIDE DEF n, R, B
  <2>3. /\ n \in 0 .. B /\ R + n \in Nat /\ R <= R + n
        /\ R + n = R \/ R + n <= had
        /\ n < B => had <= R + n
    BY <2>1, <2>2, BlockBytes
  <2>4. QED BY <2>3 DEF n, R, B
<1>5. (IF f.size < 0 THEN b.size ELSE f.size) = F /\ (f.size < 0 <=> f.size = -1)
  BY <1>1, <1>2 DEF Transfers
<1> DEFINE got == [f EXCEPT !.waiting = FALSE, !.retries = 0, !.size = F]
           all == [got EXCEPT !.received = f.received + b.n]
<1>a. F = IF f.size = -1 THEN had ELSE f.size
  OBVIOUS
<1> HIDE DEF F
<1>6. /\ got \in Transfers /\ got.arg = f.arg /\ got.state = f.state /\ got.block = f.block
      /\ got.received = f.received /\ got.size = F /\ got.retries = 0 /\ got.paused = f.paused
      /\ got.waiting = FALSE /\ got.index = f.index
  <2>1. FALSE \in BOOLEAN
    OBVIOUS
  <2>2. QED BY <1>2, <2>1 DEF Transfers
<1> HIDE DEF got
<1>7. /\ all \in Transfers /\ all.arg = f.arg /\ all.state = f.state /\ all.block = f.block
      /\ all.received = f.received + b.n /\ all.size = F /\ all.retries = 0
      /\ all.paused = f.paused /\ all.waiting = FALSE
  BY <1>4, <1>6 DEF Transfers
<1>8. g = IF ~room THEN [got EXCEPT !.paused = TRUE, !.pending = FALSE]
          ELSE IF b.n < BlockSize \/ all.received >= all.size
          THEN Finish(all, "done", "ok")
          ELSE [all EXCEPT !.block = f.block + 1, !.pending = TRUE]
  <2>1. got = [f EXCEPT !.waiting = FALSE, !.retries = 0,
                        !.size = IF f.size < 0 THEN b.size ELSE f.size]
    BY <1>5 DEF got
  <2>2. g = LET gt == [f EXCEPT !.waiting = FALSE, !.retries = 0,
                                !.size = IF f.size < 0 THEN b.size ELSE f.size]
                al == [gt EXCEPT !.received = @ + b.n]
            IN  IF ~room THEN [gt EXCEPT !.paused = TRUE, !.pending = FALSE]
                ELSE IF b.n < BlockSize \/ al.received >= al.size
                THEN Finish(al, "done", "ok")
                ELSE [al EXCEPT !.block = @ + 1, !.pending = TRUE]
    BY DEF Accept
  <2>3. [got EXCEPT !.received = @ + b.n] = all
    BY <1>6
  <2>4. g = LET al == [got EXCEPT !.received = @ + b.n]
            IN  IF ~room THEN [got EXCEPT !.paused = TRUE, !.pending = FALSE]
                ELSE IF b.n < BlockSize \/ al.received >= al.size
                THEN Finish(al, "done", "ok")
                ELSE [al EXCEPT !.block = @ + 1, !.pending = TRUE]
    BY <2>1, <2>2
  <2> HIDE DEF all
  <2>5. g = IF ~room THEN [got EXCEPT !.paused = TRUE, !.pending = FALSE]
            ELSE IF b.n < BlockSize \/ all.received >= all.size
            THEN Finish(all, "done", "ok")
            ELSE [all EXCEPT !.block = @ + 1, !.pending = TRUE]
    BY <2>3, <2>4
  <2>6. QED BY <1>7, <2>5
<1> HIDE DEF g, all
<1>9. CASE ~room
  <2>1. g = [got EXCEPT !.paused = TRUE, !.pending = FALSE]
    BY <1>8, <1>9
  <2>2. g \in Transfers
    <3>1. TRUE \in BOOLEAN /\ FALSE \in BOOLEAN
      OBVIOUS
    <3>2. QED BY <1>6, <2>1, <3>1 DEF Transfers
  <2>3. /\ g.arg = f.arg /\ g.state = f.state /\ g.block = f.block /\ g.received = f.received
        /\ g.size = F /\ g.retries = 0 /\ g.waiting = FALSE
    BY <1>6, <2>1 DEF Transfers
  <2>4. ~g.waiting
    BY <2>3
  <2>5. SoundTransfer(g) /\ SoundRead(g)
    BY <1>1, <1>2, <2>2, <2>3, <2>4 DEF SoundTransfer, SoundRead
  <2>6. Answered(f, g, q, had)
    BY <1>1, <1>2, <1>a, <2>3 DEF Answered
  <2>7. QED BY <1>1, <1>9, <2>3, <2>5, <2>6 DEF g
<1>10. CASE room /\ (b.n < BlockSize \/ all.received >= all.size)
  <2>1. g = Finish(all, "done", "ok")
    BY <1>8, <1>10
  <2>2. /\ g \in Transfers /\ Same(all, g)
        /\ g.state = "done" /\ ~Busy(g) /\ ~g.waiting /\ ~g.paused
    BY <1>7, <2>1, FinishKeeps DEF Errors
  <2>3. /\ g.received = f.received + b.n /\ g.arg = f.arg /\ g.size = F
        /\ had <= g.received \/ F <= g.received
    <3>1. g.received = f.received + b.n /\ g.arg = f.arg /\ g.size = F
      BY <1>7, <2>2 DEF Same
    <3>2. b.n < BlockSize \/ F <= f.received + b.n
      BY <1>2, <1>4, <1>7, <1>10
    <3>3. QED BY <1>4, <3>1, <3>2
  <2>4. SoundTransfer(g)
    BY <2>2 DEF SoundTransfer
  <2>5. SoundRead(g)
    BY <1>1, <2>2, <2>3 DEF SoundRead
  <2>6. Answered(f, g, q, had)
    BY <1>1, <1>4, <1>a, <2>2, <2>3 DEF Answered
  <2>7. QED BY <1>1, <1>10, <2>2, <2>3, <2>4, <2>5, <2>6 DEF g
<1>11. CASE room /\ ~(b.n < BlockSize \/ all.received >= all.size)
  <2>1. g = [all EXCEPT !.block = f.block + 1, !.pending = TRUE]
    BY <1>8, <1>11
  <2>2. g \in Transfers
    <3>1. TRUE \in BOOLEAN /\ f.block + 1 \in Nat
      BY <1>2
    <3>2. QED BY <1>7, <2>1, <3>1 DEF Transfers
  <2>3. /\ g.arg = f.arg /\ g.state = f.state /\ g.block = f.block + 1
        /\ g.received = f.received + b.n /\ g.size = F /\ g.retries = 0
        /\ g.waiting = FALSE /\ g.paused = f.paused
    BY <1>7, <2>1 DEF Transfers
  <2>4. b.n = BlockSize
    BY <1>1, <1>2, <1>4, <1>7, <1>11
  <2>5. f.received + BlockSize = (f.block + 1) * BlockSize
    BY <1>1, <1>2, NextBlock DEF SoundRead
  <2>6. ~g.waiting
    BY <2>3
  <2>7. SoundRead(g)
    BY <1>1, <1>2, <2>3, <2>4, <2>5 DEF SoundRead
  <2>8. ~f.paused
    BY <1>1 DEF SoundTransfer
  <2>9. SoundTransfer(g)
    BY <1>1, <1>2, <2>2, <2>3, <2>6 DEF SoundTransfer
  <2>10. Answered(f, g, q, had)
    BY <1>1, <1>4, <1>a, <2>3 DEF Answered
  <2>11. QED BY <1>1, <1>11, <2>3, <2>7, <2>8, <2>9, <2>10 DEF g
<1>12. QED BY <1>9, <1>10, <1>11

\* Any other answer leaves what has been received.
LEMMA OtherBlock ==
  ASSUME NEW f, SoundTransfer(f), SoundRead(f), NEW q \in Requests, q.verb = "FILEREAD",
         NEW had \in Nat, NEW sumOk \in BOOLEAN, NEW room \in BOOLEAN, ~TakesBlock(f, BlockOf(q, had, sumOk))
  PROVE  LET g == OnBlock(f, BlockOf(q, had, sumOk), room) IN
         /\ SoundTransfer(g) /\ SoundRead(g) /\ Same(f, g)
         /\ \/ g.state = f.state /\ g.paused = f.paused
            \/ Busy(f) /\ g.state = "failed" /\ ~g.paused
<1> DEFINE b == BlockOf(q, had, sumOk)
           g == OnBlock(f, b, room)
<1>1. CASE f.state # "reading" \/ ~f.waiting
  <2>1. g = f
    BY <1>1 DEF OnBlock
  <2>2. QED BY <2>1 DEF Same
<1>2. CASE f.state = "reading" /\ f.waiting /\ Missing(b)
  <2>1. g = Finish(f, "failed", "missing")
    BY <1>2 DEF OnBlock
  <2>2. QED BY <1>2, <2>1, FinishKeeps, EndsSound DEF SoundTransfer, Errors, Busy
<1>3. CASE f.state = "reading" /\ f.waiting /\ ~Missing(b) /\ ~IsOurs(f, b)
  <2>1. g = f
    BY <1>3 DEF OnBlock
  <2>2. QED BY <2>1 DEF Same
<1>4. CASE f.state = "reading" /\ f.waiting /\ ~Missing(b) /\ IsOurs(f, b) /\ ~b.sumOk
  <2> DEFINE y == Retry(f, "checksum")
  <2>1. g = y
    BY <1>4 DEF OnBlock
  <2>2. "checksum" \in Errors /\ Busy(f)
    BY <1>4 DEF Errors, Busy
  <2>3. /\ SoundTransfer(y) /\ SoundRead(y) /\ Same(f, y)
        /\ \/ y.state = f.state /\ y.paused = f.paused
           \/ y.state = "failed" /\ ~y.paused
    BY <2>2, RetryKeeps
  <2> HIDE DEF y, g
  <2>4. QED BY <2>1, <2>2, <2>3 DEF g
<1>5. QED BY <1>1, <1>2, <1>3, <1>4 DEF TakesBlock

\* A block that is taken is accepted.
LEMMA TakenBlock ==
  ASSUME NEW f, NEW b, NEW room, TakesBlock(f, b)
  PROVE  OnBlock(f, b, room) = Accept(f, b, room)
BY DEF TakesBlock, OnBlock

\* An entry keeps the transfer sound, and moves only a listing that waits for it.
LEMMA OnEntryKeeps ==
  ASSUME NEW f, SoundTransfer(f), SoundRead(f), NEW e
  PROVE  LET g == OnEntry(f, e) IN
         /\ SoundTransfer(g) /\ SoundRead(g)
         /\ g.arg = f.arg /\ g.received = f.received
         /\ ~TakesEntry(f, e) => g = f
         /\ TakesEntry(f, e) =>
              /\ f.state = "listing" /\ ~g.paused
              /\ \/ e.last /\ g.state = "done" /\ g.index = f.index
                 \/ ~e.last /\ g.state = "listing" /\ g.index = f.index + 1
<1> DEFINE g == OnEntry(f, e)
           got == [f EXCEPT !.waiting = FALSE, !.retries = 0]
<1>1. CASE ~TakesEntry(f, e)
  <2>1. g = f
    BY <1>1 DEF OnEntry
  <2>2. QED BY <1>1, <2>1
<1>2. CASE TakesEntry(f, e)
  <2>1. f.state = "listing" /\ f \in Transfers /\ f.index \in Nat /\ ~f.paused
    BY <1>2 DEF TakesEntry, SoundTransfer, Transfers
  <2>2. /\ got \in Transfers /\ Same(f, got) /\ got.state = f.state /\ got.retries = 0
        /\ got.paused = f.paused /\ got.waiting = FALSE
    <3>1. FALSE \in BOOLEAN /\ 0 \in 0 .. Retries + 1
      BY Bounds
    <3>2. QED BY <2>1, <3>1 DEF Transfers, Same
  <2>3. g = IF e.last THEN Finish(got, "done", "ok")
            ELSE [got EXCEPT !.index = @ + 1, !.pending = TRUE]
    BY <1>2 DEF OnEntry
  <2> HIDE DEF got, g
  <2>4. CASE e.last
    <3>1. g = Finish(got, "done", "ok")
      BY <2>3, <2>4
    <3>2. /\ g \in Transfers /\ Same(got, g)
          /\ g.state = "done" /\ ~Busy(g) /\ ~g.waiting /\ ~g.paused
      BY <2>2, <3>1, FinishKeeps DEF Errors
    <3>3. Same(f, g)
      BY <2>2, <3>2 DEF Same
    <3>4. SoundTransfer(g) /\ SoundRead(g)
      BY <3>2, <3>3 DEF SoundTransfer, SoundRead, Same
    <3>5. QED BY <1>2, <2>1, <2>4, <3>2, <3>3, <3>4 DEF g, Same
  <2>5. CASE ~e.last
    <3>1. g = [got EXCEPT !.index = f.index + 1, !.pending = TRUE]
      BY <2>2, <2>3, <2>5 DEF Same
    <3>2. g \in Transfers
      <4>1. TRUE \in BOOLEAN /\ f.index + 1 \in Nat
        BY <2>1
      <4>2. QED BY <2>2, <3>1, <4>1 DEF Transfers
    <3>3. /\ g.arg = f.arg /\ g.received = f.received /\ g.block = f.block /\ g.size = f.size
          /\ g.state = "listing" /\ g.index = f.index + 1 /\ g.retries = 0
          /\ g.paused = f.paused /\ g.waiting = FALSE
      BY <2>1, <2>2, <3>1 DEF Transfers, Same
    <3>4. ~g.waiting /\ ~g.paused
      BY <2>1, <3>3
    <3>5. SoundTransfer(g) /\ SoundRead(g)
      BY <2>1, <3>2, <3>3, <3>4, Bounds DEF SoundTransfer, SoundRead
    <3>6. QED BY <1>2, <2>1, <2>5, <3>3, <3>4, <3>5 DEF g
  <2>6. QED BY <2>4, <2>5
<1>3. QED BY <1>1, <1>2

-----------------------------------------------------------------------------
(***************************************************************************)
(* The transfer and its ring, whatever the handler                         *)
(***************************************************************************)

(* The tick at the end of a handler, and the end of a transfer it notes.    *)
LEMMA TickKeeps ==
  ASSUME Lengths(size), NEW f, NEW r, NEW t, SoundFile(f, r, t), NEW up \in BOOLEAN,
         NEW wire \in Seq(Requests), Len(wire) <= NetBound,
         NEW o \in Outcomes(f, up, wire)
  PROVE  /\ \A e \in BOOLEAN : (e => r.ended \/ ~Busy(o.fs))
              => SoundFile(o.fs, [r EXCEPT !.ended = e], t)
         /\ \A g : SoundFile(o.fs, NoteEnd(r, g, o.fs), t)
         /\ Busy(o.fs) => Busy(f)
<1>1. /\ SoundTransfer(o.fs) /\ SoundRead(o.fs) /\ Same(f, o.fs)
      /\ \/ o.fs.state = f.state /\ (o.fs.paused => f.paused)
         \/ Busy(f) /\ o.fs.state = "failed" /\ ~o.fs.paused
  BY OutcomesKeep DEF SoundFile
<1>2. /\ o.fs.arg = f.arg /\ o.fs.received = f.received
      /\ o.fs.state = "reading" => f.state = "reading"
      /\ o.fs.paused => f.paused
  BY <1>1 DEF Same
<1>3. ASSUME NEW e \in BOOLEAN, e => r.ended \/ ~Busy(o.fs)
      PROVE  SoundFile(o.fs, [r EXCEPT !.ended = e], t)
  <2>1. Beginning(o.fs, t) /\ SoundRing(o.fs, [r EXCEPT !.ended = e], t)
    BY <1>1, <1>2, <1>3, RingStays DEF SoundFile
  <2>2. QED BY <1>1, <2>1 DEF SoundFile
<1>4. ASSUME NEW g PROVE SoundFile(o.fs, NoteEnd(r, g, o.fs), t)
  <2> DEFINE e == r.ended \/ (Busy(g) /\ ~Busy(o.fs))
  <2>1. e \in BOOLEAN /\ (e => r.ended \/ ~Busy(o.fs))
    OBVIOUS
  <2>2. NoteEnd(r, g, o.fs) = [r EXCEPT !.ended = e]
    BY DEF NoteEnd
  <2> HIDE DEF e
  <2>3. QED BY <1>3, <2>1, <2>2
<1>5. Busy(o.fs) => Busy(f)
  BY <1>1 DEF Busy
<1>6. QED BY <1>3, <1>4, <1>5

\* A tick touches neither the argument nor the bytes received.
LEMMA TickFacts ==
  ASSUME Lengths(size), NEW f, SoundTransfer(f), SoundRead(f), NEW up \in BOOLEAN,
         NEW wire \in Seq(Requests), Len(wire) <= NetBound,
         NEW o \in Outcomes(f, up, wire)
  PROVE  /\ o.fs.arg = f.arg /\ o.fs.received = f.received
         /\ o.fs.state = f.state \/ (Busy(f) /\ o.fs.state = "failed")
         /\ o.fs.waiting => up
<1>1. /\ Same(f, o.fs)
      /\ o.fs.waiting => up
      /\ \/ o.fs.state = f.state
         \/ Busy(f) /\ o.fs.state = "failed"
  BY OutcomesKeep
<1>2. QED BY <1>1 DEF Same

\* A transfer of the same file, as far as the other, is as sound with the ring.
LEMMA FileStays ==
  ASSUME NEW f, NEW g, NEW r, NEW t, SoundFile(f, r, t), SoundTransfer(g), SoundRead(g),
         g.arg = f.arg, g.received = f.received,
         g.state = "reading" => f.state = "reading", g.paused => f.paused
  PROVE  SoundFile(g, r, t)
BY DEF SoundFile, Beginning, SoundRing, Holds

\* The mark that the transfer has ended keeps the ring sound.
LEMMA NoteKeeps ==
  ASSUME NEW f, NEW r, NEW t, NEW g, SoundFile(f, r, t)
  PROVE  SoundFile(f, NoteEnd(r, g, f), t)
<1> DEFINE e == r.ended \/ (Busy(g) /\ ~Busy(f))
<1>1. e \in BOOLEAN /\ (e => r.ended \/ ~Busy(f))
  OBVIOUS
<1>2. NoteEnd(r, g, f) = [r EXCEPT !.ended = e]
  BY DEF NoteEnd
<1> HIDE DEF e
<1>3. Beginning(f, t) /\ SoundRing(f, [r EXCEPT !.ended = e], t)
  BY <1>1, RingStays DEF SoundFile
<1>4. QED BY <1>2, <1>3 DEF SoundFile

\* Cancelling gives up on the ring with the transfer.
LEMMA CancelKeeps ==
  ASSUME NEW f, NEW r, NEW t, SoundFile(f, r, t)
  PROVE  SoundFile(Cancel(f), r, t) /\ ~Busy(Cancel(f))
<1> DEFINE g == Cancel(f)
<1>1. CASE ~Busy(f)
  BY <1>1 DEF Cancel
<1>2. CASE Busy(f)
  <2>1. g = Finish(f, "failed", "cancelled")
    BY <1>2 DEF Cancel
  <2>2. /\ g \in Transfers /\ Same(f, g)
        /\ g.state = "failed" /\ ~Busy(g) /\ ~g.waiting /\ ~g.paused
    BY <2>1, FinishKeeps DEF SoundFile, SoundTransfer, Errors
  <2> HIDE DEF g
  <2>3. SoundTransfer(g) /\ SoundRead(g)
    BY <2>2 DEF SoundFile, SoundTransfer, SoundRead, Same
  <2>4. SoundFile(g, r, t)
    BY <2>2, <2>3, FileStays DEF Same
  <2>5. QED BY <2>2, <2>4 DEF g
<1>3. QED BY <1>1, <1>2

\* Nobody needs the ring of a transfer that is over.
LEMMA FreeKeeps ==
  ASSUME NEW f, NEW r, NEW t, SoundFile(f, r, t), ~Busy(f),
         NEW g \in Rings, g.buf = NoBuf, g.len = 0
  PROVE  SoundFile(f, g, t)
<1>1. f.state # "reading" /\ ~f.paused
  BY DEF SoundFile, SoundTransfer, Busy
<1>2. f.arg \notin Names => t = <<>>
  BY DEF SoundFile, SoundRing
<1>3. SoundRing(f, g, t)
  BY <1>1, <1>2, NoRing
<1>4. QED BY <1>3 DEF SoundFile

\* The requests on the wire, and what is left when the first is answered.
LEMMA Wire ==
  ASSUME OtherTypes
  PROVE  /\ net \in Seq(Requests) /\ Len(net) <= NetBound /\ linkUp \in BOOLEAN
         /\ Lengths(size)
         /\ net # <<>> => /\ Head(net) \in Requests
                          /\ Tail(net) \in Seq(Requests) /\ Len(Tail(net)) <= NetBound
                          /\ Head(net) = net[1]
                          /\ \A i \in DOMAIN Tail(net) :
                               i + 1 \in DOMAIN net /\ Tail(net)[i] = net[i + 1]
<1>1. net \in Seq(Requests) /\ Len(net) <= NetBound /\ linkUp \in BOOLEAN /\ Lengths(size)
  BY DEF OtherTypes
<1>2. ASSUME net # <<>>
      PROVE  /\ Head(net) \in Requests
             /\ Tail(net) \in Seq(Requests) /\ Len(Tail(net)) <= NetBound
             /\ Head(net) = net[1]
             /\ \A i \in DOMAIN Tail(net) :
                  i + 1 \in DOMAIN net /\ Tail(net)[i] = net[i + 1]
  BY <1>1, <1>2, HeadTailProperties, Bounds
<1>3. QED BY <1>1, <1>2

-----------------------------------------------------------------------------
(***************************************************************************)
(* The handlers keep FileIInv.  What they do to the file that is read, and *)
(* that they ask nothing over a link that is down, is noted on the way.    *)
(***************************************************************************)

Polite == Asked => linkUp'

\* A step that leaves the file as it is; it may give up on it.
Still ==
  /\ fs'.arg = fs.arg /\ fs'.received = fs.received /\ taken' = taken
  /\ fs'.state = fs.state \/ (fs'.state = "failed" /\ fs' # fs)

\* A step that leaves a file nobody reads.
Begins(a) ==
  /\ ~Busy(fs) /\ fs'.arg = a /\ fs'.received = 0 /\ taken' = <<>>
  /\ a \in Names => fs'.state \in {"reading", "failed"}

\* A step by which bytes arrive; it is called the last with what was promised.
Arrives ==
  /\ fs.state = "reading" /\ fs.arg \in DOMAIN FileSize
  /\ fs'.arg = fs.arg /\ taken' = taken
  /\ fs.received <= fs'.received
  /\ \/ fs'.state \in {"reading", "failed"}
     \/ fs'.state = "done" /\ promised <= fs'.received

\* A step by which the browser takes bytes.
Gives ==
  /\ fs'.arg = fs.arg /\ fs'.received = fs.received
  /\ Len(taken) <= Len(taken') /\ (fs.arg \notin Names => taken' = taken)
  /\ fs'.state = fs.state \/ (Busy(fs) /\ fs'.state = "failed")

\* A listing that begins: the transfer and the ring.
LEMMA ListFilesFile ==
  ASSUME IInv, NEW p \in Patterns, NEW force \in BOOLEAN, ListFiles(p, force)
  PROVE  FileIInv' /\ Polite /\ Begins(p)
<1> DEFINE f == Begin("listing", p, -1)
<1>1. PICK o \in Outcomes(f, linkUp, net) :
        /\ fs' = o.fs
        /\ ring' = [ring EXCEPT !.ended = ring.ended \/ ~Busy(o.fs)]
  BY DEF ListFiles
<1>2. /\ enabled /\ ring.buf = NoBuf /\ taken' = <<>> /\ enabled' = enabled
      /\ ~Busy(fs) /\ linkUp' = linkUp
  BY DEF ListFiles, MayBegin
<1>3. /\ f \in Transfers /\ f.state = "listing" /\ f.arg = p /\ f.received = 0
      /\ f.retries = 0 /\ ~f.waiting /\ ~f.paused
  BY BeginFields
<1> HIDE DEF f
<1>4. p \notin Names /\ p \notin DOMAIN FileSize
  BY Arguments
<1>5. SoundTransfer(f) /\ SoundRead(f)
  BY <1>3, <1>4, Bounds DEF SoundTransfer, SoundRead
<1>6. ring \in Rings /\ ring.len = 0
  BY <1>2 DEF IInv, FileIInv, SoundFile, SoundRing
<1>7. SoundRing(f, ring, <<>>)
  BY <1>2, <1>3, <1>6, NoRing
<1>8. Beginning(f, <<>>)
  <2>1. <<>> \in Seq(Names \X Nat) /\ Len(<<>>) = 0
    OBVIOUS
  <2>2. QED BY <1>3, <2>1 DEF Beginning
<1>9. SoundFile(f, ring, <<>>)
  BY <1>5, <1>7, <1>8 DEF SoundFile
<1>10. SoundFile(o.fs, [ring EXCEPT !.ended = ring.ended \/ ~Busy(o.fs)], <<>>)
  <2> DEFINE e == ring.ended \/ ~Busy(o.fs)
  <2>1. e \in BOOLEAN /\ (e => ring.ended \/ ~Busy(o.fs))
    OBVIOUS
  <2> HIDE DEF e
  <2>2. SoundFile(o.fs, [ring EXCEPT !.ended = e], <<>>)
    BY <1>9, <2>1, TickKeeps, Wire DEF IInv, ListIInv
  <2>3. QED BY <2>2 DEF e
<1>11. o.fs.arg = p /\ o.fs.received = 0 /\ (o.fs.waiting => linkUp)
  BY <1>3, <1>5, TickFacts, Wire DEF IInv, ListIInv
<1>12. Polite /\ Begins(p)
  BY <1>1, <1>2, <1>4, <1>11 DEF Polite, Asked, Begins
<1>13. QED BY <1>1, <1>2, <1>10, <1>12 DEF FileIInv

\* A set of numbers has a least one: the capacity's first bytes.
LEMMA Least ==
  ASSUME NEW T \in SUBSET Nat, T # {}
  PROVE  \E n \in T : \A m \in T : n <= m
<1> DEFINE less == {ss \in Nat \X Nat : ss[1] < ss[2]}
<1>1. IsWellFoundedOn(less, Nat)
  BY NatLessThanWellFounded, Zenon DEF OpToRel
<1> HIDE DEF less
<1>2. PICK n \in T : \A m \in T : ~(<<m, n>> \in less)
  BY <1>1, WFMin
<1>3. \A m \in T : ~(m < n)
  BY <1>2 DEF less
<1>4. QED BY <1>3

\* What is listed is a file with its size.
LEMMA EntryIs ==
  ASSUME OtherTypes, NEW i \in DOMAIN list
  PROVE  list[i] \in [name : DOMAIN FileSize, size : Nat]
<1>1. list \in Seq([name : DOMAIN FileSize, size : Nat])
  BY DEF OtherTypes
<1>2. i \in 1 .. Len(list)
  BY <1>1
<1>3. QED BY <1>1, <1>2, ElementOfSeq

\* What a listing gave for a name is in one of its entries.
LEMMA ListedIs ==
  ASSUME OtherTypes, NEW name
  PROVE  \/ Listed(name) = -1
         \/ \E i \in DOMAIN list : /\ list[i].name = name /\ name \in DOMAIN FileSize
                                  /\ list[i].size \in Nat /\ Listed(name) = list[i].size
<1> DEFINE at == {i \in DOMAIN list : list[i].name = name}
<1>1. CASE at = {}
  BY <1>1 DEF Listed
<1>2. CASE at # {}
  <2>1. list \in Seq([name : DOMAIN FileSize, size : Nat])
    BY DEF OtherTypes
  <2>2. \E i \in at : \A j \in at : j <= i
    <3> DEFINE back == {n \in Nat : Len(list) - n \in at}
    <3>1. PICK i \in at : TRUE
      BY <1>2
    <3>2. Len(list) \in Nat /\ \A j \in at : j \in 1 .. Len(list)
      BY <2>1
    <3>3. Len(list) - i \in Nat /\ Len(list) - (Len(list) - i) = i
      BY <3>1, <3>2
    <3>4. back \in SUBSET Nat /\ back # {}
      BY <3>1, <3>3
    <3> HIDE DEF at
    <3>5. PICK n \in back : \A m \in back : n <= m
      BY <3>4, Least
    <3> DEFINE top == Len(list) - n
    <3>6. top \in at
      BY <3>5
    <3>7. ASSUME NEW j \in at PROVE j <= top
      <4>1. Len(list) - j \in Nat /\ Len(list) - (Len(list) - j) = j
        BY <3>2, <3>7
      <4>2. Len(list) - j \in back
        BY <3>7, <4>1
      <4>3. n <= Len(list) - j /\ n \in Nat /\ j \in Nat
        BY <3>2, <3>5, <3>7, <4>2
      <4>4. QED BY <3>2, <4>3
    <3>8. QED BY <3>6, <3>7
  <2> DEFINE i == CHOOSE i \in at : \A j \in at : j <= i
  <2>3. i \in at
    BY <2>2
  <2>4. Listed(name) = list[i].size
    BY <1>2 DEF Listed
  <2> HIDE DEF i
  <2>5. i \in DOMAIN list /\ list[i].name = name
    BY <2>3
  <2>6. list[i] \in [name : DOMAIN FileSize, size : Nat]
    BY <2>5, EntryIs
  <2>7. QED BY <2>4, <2>5, <2>6
<1>3. QED BY <1>1, <1>2

\* A read that begins, or is refused: the transfer and the ring.
LEMMA ReadFileFile ==
  ASSUME IInv, NEW name \in Names, NEW force \in BOOLEAN, ReadFile(name, force)
  PROVE  FileIInv' /\ Polite /\ (Still \/ Begins(name))
<1>1. /\ enabled /\ ~Busy(fs) /\ ring.buf = NoBuf /\ enabled' = enabled
      /\ linkUp' = linkUp
  BY DEF ReadFile, MayBegin
<1>2. SoundFile(fs, ring, taken)
  BY DEF IInv, FileIInv
<1>3. CASE /\ fs' = TooBig(fs) /\ taken' = taken
           /\ ring' = [buf |-> NoBuf, head |-> 0, len |-> 0, ended |-> FALSE]
  <2> DEFINE g == TooBig(fs)
             r2 == [buf |-> NoBuf, head |-> 0, len |-> 0, ended |-> FALSE]
  <2>1. fs \in Transfers /\ ~fs.waiting /\ ~fs.paused
    BY <1>1, <1>2 DEF SoundFile, SoundTransfer, Busy
  <2>2. /\ g \in Transfers /\ g.arg = fs.arg /\ g.received = fs.received /\ g.state = "failed"
        /\ g.waiting = fs.waiting /\ g.paused = fs.paused
    BY <2>1 DEF TooBig, Transfers
  <2> HIDE DEF g
  <2>3. ~Busy(g) /\ g.state # "reading" /\ g.state # "listing"
    BY <2>2 DEF Busy
  <2>4. SoundTransfer(g) /\ SoundRead(g)
    BY <1>2, <2>1, <2>2, <2>3 DEF SoundFile, SoundTransfer, SoundRead
  <2>5. SoundFile(g, ring, taken)
    BY <1>2, <2>1, <2>2, <2>3, <2>4, FileStays
  <2>6. r2 \in Rings /\ r2.buf = NoBuf /\ r2.len = 0
    <3>1. FALSE \in BOOLEAN /\ 0 \in 0 .. RingCap - 1 /\ 0 \in 0 .. RingCap
      BY Bounds
    <3>2. QED BY <3>1 DEF Rings
  <2> HIDE DEF r2
  <2>7. SoundFile(g, r2, taken)
    BY <2>3, <2>5, <2>6, FreeKeeps
  <2>8. Polite /\ Still
    <3>1. ~g.waiting
      BY <2>1, <2>2
    <3>2. fs' = g
      BY <1>3 DEF g
    <3>3. fs'.state = fs.state \/ (fs'.state = "failed" /\ fs' # fs)
      BY <2>2, <3>2
    <3>4. QED BY <1>3, <2>2, <3>1, <3>2, <3>3 DEF Polite, Asked, Still
  <2>9. QED BY <1>1, <1>3, <2>7, <2>8 DEF FileIInv, g, r2
<1>4. ASSUME NEW o \in Outcomes(Begin("reading", name, Listed(name)), linkUp, net),
             fs' = o.fs, taken' = <<>>,
             ring' = [buf |-> Fresh, head |-> 0, len |-> 0, ended |-> ~Busy(o.fs)]
      PROVE  FileIInv' /\ Polite /\ Begins(name)
  <2> DEFINE f == Begin("reading", name, Listed(name))
             r0 == [buf |-> Fresh, head |-> 0, len |-> 0, ended |-> FALSE]
             e == ~Busy(o.fs)
  <2>2. Listed(name) \in Nat \cup {-1}
    BY ListedIs DEF IInv, ListIInv
  <2>3. /\ f \in Transfers /\ f.state = "reading" /\ f.arg = name /\ f.block = 0
        /\ f.size = Listed(name) /\ f.received = 0 /\ f.retries = 0 /\ ~f.waiting /\ ~f.paused
    BY <2>2, BeginFields
  <2> HIDE DEF f
  <2>4. SoundTransfer(f) /\ SoundRead(f)
    <3>1. 0 * BlockSize = 0
      BY Bounds
    <3>2. QED BY <2>3, <3>1, Bounds, Arguments DEF SoundTransfer, SoundRead
  <2>5. SoundFile(f, r0, <<>>)
    <3> DEFINE no == FALSE
    <3>1. no \in BOOLEAN /\ ~no
      OBVIOUS
    <3> HIDE DEF no
    <3>2. /\ Beginning(f, <<>>)
          /\ SoundRing(f, [buf |-> Fresh, head |-> 0, len |-> 0, ended |-> no], <<>>)
      BY <2>3, <2>4, <3>1, EmptyRing
    <3>3. QED BY <2>4, <3>2 DEF SoundFile, no
  <2>6. e \in BOOLEAN /\ (e => r0.ended \/ ~Busy(o.fs))
    OBVIOUS
  <2>7. [r0 EXCEPT !.ended = e] = [buf |-> Fresh, head |-> 0, len |-> 0, ended |-> e]
    OBVIOUS
  <2> HIDE DEF r0, e
  <2>8. SoundFile(o.fs, [r0 EXCEPT !.ended = e], <<>>)
    BY <2>4, <2>5, <2>6, TickKeeps, Wire DEF IInv, ListIInv, f
  <2>9. /\ o.fs.arg = name /\ o.fs.received = 0 /\ (o.fs.waiting => linkUp)
        /\ o.fs.state \in {"reading", "failed"}
    BY <2>3, <2>4, TickFacts, Wire DEF IInv, ListIInv, f
  <2>10. Polite /\ Begins(name)
    BY <1>1, <1>4, <2>9 DEF Polite, Asked, Begins
  <2>11. QED BY <1>1, <1>4, <2>7, <2>8, <2>10 DEF FileIInv, e
<1>5. QED BY <1>3, <1>4 DEF ReadFile

\* A transfer given up: the transfer and the ring.
LEMMA GiveUpFile ==
  ASSUME IInv, CancelTransfer \/ \E on \in BOOLEAN : SetEnabled(on)
  PROVE  FileIInv' /\ Polite /\ Still
<1>1. /\ SoundFile(fs, ring, taken) /\ SoundFile(Cancel(fs), ring, taken)
      /\ ~Busy(Cancel(fs)) /\ ~Cancel(fs).waiting
      /\ Cancel(fs).arg = fs.arg /\ Cancel(fs).received = fs.received
      /\ Cancel(fs) = fs \/ Cancel(fs).state = "failed"
  <2>1. SoundFile(fs, ring, taken) /\ SoundFile(Cancel(fs), ring, taken) /\ ~Busy(Cancel(fs))
    BY CancelKeeps DEF IInv, FileIInv
  <2>2. ~Cancel(fs).waiting
    BY <2>1 DEF SoundFile, SoundTransfer
  <2>3. CASE ~Busy(fs)
    BY <2>1, <2>2, <2>3 DEF Cancel
  <2>4. CASE Busy(fs)
    BY <2>1, <2>2, <2>4, FinishKeeps DEF Cancel, SoundFile, SoundTransfer, Same, Errors
  <2>5. QED BY <2>3, <2>4
<1>2. (fs' = fs \/ fs' = Cancel(fs)) /\ taken' = taken
  BY DEF CancelTransfer, SetEnabled
<1>3. Polite /\ Still
  <2> DEFINE g == Cancel(fs)
  <2>1. /\ fs' = fs \/ fs' = g
        /\ ~g.waiting /\ g.arg = fs.arg /\ g.received = fs.received
        /\ g = fs \/ g.state = "failed"
    BY <1>2, <1>1
  <2> HIDE DEF g
  <2>2. QED BY <1>2, <2>1 DEF Polite, Asked, Still
<1>4. ASSUME CancelTransfer PROVE FileIInv'
  <2> DEFINE yes == TRUE
             g == Cancel(fs)
  <2>1. yes \in BOOLEAN
    OBVIOUS
  <2> HIDE DEF yes, g
  <2>2. SoundFile(g, ring, taken) /\ ~Busy(g)
    BY <1>1 DEF g
  <2>3. Beginning(g, taken) /\ SoundRing(g, [ring EXCEPT !.ended = yes], taken)
    BY <2>1, <2>2, RingStays DEF SoundFile
  <2>4. fs' = g /\ ring' = [ring EXCEPT !.ended = yes] /\ taken' = taken
    BY <1>4 DEF CancelTransfer, g, yes
  <2>5. SoundFile(fs', ring', taken')
    BY <2>2, <2>3, <2>4 DEF SoundFile
  <2>6. QED BY <2>2, <2>4, <2>5 DEF FileIInv
<1>5. ASSUME NEW on \in BOOLEAN, SetEnabled(on) PROVE FileIInv'
  <2>1. /\ enabled' = on /\ fs' = IF on THEN fs ELSE Cancel(fs)
        /\ ring' = NoteEnd(ring, fs, fs') /\ taken' = taken
    BY <1>5 DEF SetEnabled
  <2>2. SoundFile(fs', ring, taken) /\ (Busy(fs') => on)
    BY <1>1, <2>1
  <2>3. SoundFile(fs', ring', taken')
    <3> DEFINE g == fs'
    <3> HIDE DEF g
    <3>1. SoundFile(g, ring, taken)
      BY <2>2 DEF g
    <3>2. SoundFile(g, NoteEnd(ring, fs, g), taken)
      BY <3>1, NoteKeeps
    <3>3. QED BY <2>1, <3>2 DEF g
  <2>4. QED BY <2>1, <2>2, <2>3 DEF FileIInv
<1>6. QED BY <1>4, <1>5, <1>3

\* An entry that arrives: the transfer and the ring.
LEMMA EntryFile ==
  ASSUME IInv, EntryArrives
  PROVE  /\ FileIInv' /\ Polite
         /\ Still \/ (fs.arg \notin Names /\ fs'.arg = fs.arg /\ taken' = taken)
<1>0. PICK had \in Had(Head(net)) :
        \E o \in Outcomes(OnEntry(fs, Entry(Head(net), had)), linkUp, Tail(net)) :
          fs' = o.fs /\ ring' = NoteEnd(ring, fs, o.fs)
  BY DEF EntryArrives
<1> DEFINE e == Entry(Head(net), had)
           f == OnEntry(fs, e)
<1>1. PICK o \in Outcomes(f, linkUp, Tail(net)) :
        fs' = o.fs /\ ring' = NoteEnd(ring, fs, o.fs)
  BY <1>0
<1>2. net # <<>> /\ taken' = taken /\ enabled' = enabled /\ linkUp' = linkUp
  BY DEF EntryArrives
<1>3. SoundFile(fs, ring, taken) /\ (Busy(fs) => enabled)
  BY DEF IInv, FileIInv
<1> HIDE DEF e
<1>4. /\ SoundTransfer(f) /\ SoundRead(f) /\ f.arg = fs.arg /\ f.received = fs.received
      /\ ~TakesEntry(fs, e) => f = fs
      /\ TakesEntry(fs, e) => fs.state = "listing" /\ ~f.paused /\ f.state # "reading"
  BY <1>3, OnEntryKeeps DEF SoundFile
<1> HIDE DEF f
<1>5. SoundFile(f, ring, taken) /\ (Busy(f) => Busy(fs))
  BY <1>3, <1>4, FileStays DEF Busy
<1>6. /\ Tail(net) \in Seq(Requests) /\ Len(Tail(net)) <= NetBound
      /\ linkUp \in BOOLEAN /\ Lengths(size)
  BY <1>2, Wire DEF IInv, ListIInv
<1>7. SoundFile(o.fs, NoteEnd(ring, fs, o.fs), taken)
  BY <1>5, <1>6, TickKeeps
<1>8. /\ Busy(o.fs) => Busy(f)
      /\ o.fs.waiting => linkUp
      /\ o.fs.arg = f.arg /\ o.fs.received = f.received
      /\ o.fs.state = f.state \/ (Busy(f) /\ o.fs.state = "failed")
  <2>1. Busy(o.fs) => Busy(f)
    BY <1>5, <1>6, TickKeeps
  <2>2. /\ o.fs.arg = f.arg /\ o.fs.received = f.received
        /\ o.fs.state = f.state \/ (Busy(f) /\ o.fs.state = "failed")
        /\ o.fs.waiting => linkUp
    BY <1>4, <1>6, TickFacts
  <2>3. QED BY <2>1, <2>2
<1>9. Polite
  BY <1>1, <1>2, <1>8 DEF Polite, Asked
<1>10. CASE TakesEntry(fs, e)
  <2>1. fs.arg \notin Names
    BY <1>3, <1>4, <1>10, Arguments DEF SoundFile, SoundTransfer
  <2>2. QED BY <1>1, <1>2, <1>3, <1>4, <1>5, <1>7, <1>8, <1>9, <2>1 DEF FileIInv
<1>11. CASE ~TakesEntry(fs, e)
  <2>1. Still
    <3>1. f = fs
      BY <1>4, <1>11
    <3>2. fs'.state = fs.state \/ (fs'.state = "failed" /\ fs' # fs)
      BY <1>1, <1>8, <3>1
    <3>3. QED BY <1>1, <1>2, <1>8, <3>1, <3>2 DEF Still
  <2>2. QED BY <1>1, <1>2, <1>3, <1>5, <1>7, <1>8, <1>9, <2>1 DEF FileIInv
<1>12. QED BY <1>10, <1>11

(* What a block makes of the transfer and the ring, before the tick.       *)
LEMMA BlockKeeps ==
  ASSUME NEW f, NEW r, NEW t, SoundFile(f, r, t),
         NEW q \in Requests, q.verb = "FILEREAD", NEW had \in Nat, NEW sumOk \in BOOLEAN,
         NEW room \in BOOLEAN,
         room <=> BlockOf(q, had, sumOk).n = 0 \/ HasRoom(r, BlockOf(q, had, sumOk).n)
  PROVE  LET b == BlockOf(q, had, sumOk)
             g == OnBlock(f, b, room)
         IN  /\ SoundFile(g, IF TakesBlock(f, b) /\ room THEN Put(r, b) ELSE r, t)
             /\ Busy(g) => Busy(f)
             /\ Answered(f, g, q, had)
<1> DEFINE b == BlockOf(q, had, sumOk)
           g == OnBlock(f, b, room)
<1>1. CASE ~TakesBlock(f, b)
  <2>1. /\ SoundTransfer(g) /\ SoundRead(g) /\ Same(f, g)
        /\ \/ g.state = f.state /\ g.paused = f.paused
           \/ Busy(f) /\ g.state = "failed" /\ ~g.paused
    BY <1>1, OtherBlock DEF SoundFile
  <2> HIDE DEF g
  <2>2. g.state = "reading" => f.state = "reading"
    BY <2>1
  <2>3. SoundFile(g, r, t)
    BY <2>1, <2>2, FileStays DEF Same
  <2>4. Busy(g) => Busy(f)
    BY <2>1 DEF Busy
  <2>5. Answered(f, g, q, had)
    BY <2>1 DEF Same, Answered
  <2>6. QED BY <1>1, <2>3, <2>4, <2>5 DEF g
<1>2. CASE TakesBlock(f, b)
  <2>1. /\ SoundTransfer(g) /\ SoundRead(g) /\ Answered(f, g, q, had)
        /\ f.arg \in DOMAIN FileSize /\ g.arg = f.arg
        /\ room => g.received = f.received + b.n /\ ~g.paused
        /\ ~room => g.received = f.received /\ g.state = "reading"
        /\ g.state \in {"done", "reading"}
    <3> DEFINE h == Accept(f, b, room)
    <3>1. /\ SoundTransfer(h) /\ SoundRead(h) /\ Answered(f, h, q, had)
          /\ f.arg \in DOMAIN FileSize /\ h.arg = f.arg
          /\ room => h.received = f.received + b.n /\ ~h.paused
          /\ h.state \in {"done", "reading"}
          /\ ~room => h.received = f.received /\ h.state = "reading"
      BY <1>2, AcceptKeeps DEF SoundFile
    <3>2. g = h
      BY <1>2, TakenBlock
    <3> HIDE DEF g, h
    <3>3. QED BY <3>1, <3>2
  <2> HIDE DEF g
  <2>2. /\ f.state = "reading" /\ Busy(f) /\ f.arg \in Names
        /\ b.name = f.arg /\ b.block = f.block /\ b.n \in 0 .. BlockSize
    BY <1>2, <2>1, BlockFacts, Arguments DEF TakesBlock, IsOurs, Busy
  <2> HIDE DEF b
  <2>3. /\ r \in Rings /\ r.buf # NoBuf /\ ~r.ended /\ f.received = Len(t) + r.len
        /\ Holds(f, r, t) /\ t \in Seq(Names \X Nat) /\ r.len \in 0 .. RingCap
        /\ f.received = f.block * BlockSize /\ f.received \in Nat
    BY <2>2 DEF SoundFile, SoundRing, SoundRead, SoundTransfer, Transfers, Beginning, Rings
  <2>4. CASE room
    <3> DEFINE p == Put(r, b)
               base == f.block * BlockSize
    <3>1. b.n \in 0 .. RingCap - r.len
      <4>1. b.n = 0 \/ b.n <= RingCap - r.len
        BY <2>4 DEF HasRoom, b
      <4>2. QED BY <2>2, <2>3, <4>1, Bounds
    <3>2. p = Filled(r, f.arg, base, b.n)
      BY <2>2, <2>3, PutFills
    <3> HIDE DEF base, p
    <3>3. base \in Nat /\ base = Len(t) + r.len
      BY <2>3 DEF base
    <3>4. /\ p \in Rings /\ p.buf # NoBuf
          /\ p.len = r.len + b.n /\ p.ended = r.ended
          /\ Holds(f, p, t)
      BY <2>2, <2>3, <3>1, <3>2, <3>3, FilledHolds
    <3>5. g.received = Len(t) + p.len /\ Len(t) <= g.received /\ ~g.paused /\ ~p.ended
      BY <2>1, <2>2, <2>3, <2>4, <3>4
    <3>6. Beginning(g, t)
      BY <2>1, <3>5 DEF SoundFile, Beginning
    <3>7. Holds(g, p, t)
      BY <2>1, <3>4 DEF Holds
    <3>8. SoundRing(g, p, t)
      BY <2>1, <2>2, <3>4, <3>5, <3>7 DEF SoundRing
    <3>9. SoundFile(g, p, t)
      BY <2>1, <3>6, <3>8 DEF SoundFile
    <3>10. QED BY <1>2, <2>1, <2>2, <2>4, <3>9 DEF p, g, b
  <2>5. CASE ~room
    <3>1. b.n # 0 /\ ~(b.n <= RingCap - r.len)
      BY <2>3, <2>5 DEF HasRoom, b
    <3>2. r.len > 0 /\ RingCap - r.len < BlockSize
      BY <2>2, <2>3, <3>1, Bounds
    <3>3. Beginning(g, t)
      BY <2>1, <2>5 DEF SoundFile, Beginning
    <3>4. Holds(g, r, t)
      BY <2>1, <2>3 DEF Holds
    <3>5. SoundRing(g, r, t)
      BY <2>1, <2>2, <2>3, <2>5, <3>2, <3>4 DEF SoundRing
    <3>6. SoundFile(g, r, t)
      BY <2>1, <3>3, <3>5 DEF SoundFile
    <3>7. QED BY <2>1, <2>2, <2>5, <3>6 DEF g, b
  <2>6. QED BY <2>4, <2>5
<1>3. QED BY <1>1, <1>2

\* What the first answer on the wire may be of, and what is promised of it.
LEMMA HadFacts ==
  ASSUME IInv, net # <<>>, NEW had \in Had(Head(net))
  PROVE  LET q == Head(net) IN
         /\ had \in Nat
         /\ About(q) \in DOMAIN FileSize =>
              /\ FileSize[About(q)] <= had /\ had <= size[About(q)]
              /\ FileSize[About(q)] \in Nat /\ size[About(q)] \in Nat
         /\ q.verb = "FILEREAD" =>
              About(q) = q.arg /\ (q.arg = fs.arg => promised <= had)
<1> DEFINE q == Head(net)
           w == SizeNow(About(q))
<1>1. /\ q \in Requests /\ q = net[1] /\ 1 \in DOMAIN net /\ Lengths(size)
      /\ promised \in Nat
  <2>1. 1 \in DOMAIN net
    BY DEF IInv, ListIInv, OtherTypes
  <2>2. QED BY <2>1, Wire DEF IInv, ListIInv, SizeIInv
<1>2. q.was \in Nat
  BY <1>1 DEF Requests
<1>3. w \in Nat
  BY <1>1 DEF SizeNow, Lengths
<1>4. had \in q.was .. w
  BY DEF Had
<1>5. had \in Nat /\ q.was <= had /\ had <= w
  <2> HIDE DEF w, q
  <2>1. QED BY <1>2, <1>3, <1>4
<1>6. ASSUME About(q) \in DOMAIN FileSize
      PROVE  /\ FileSize[About(q)] <= had /\ had <= size[About(q)]
             /\ FileSize[About(q)] \in Nat /\ size[About(q)] \in Nat
  <2>1. FileSize[About(q)] <= q.was
    BY <1>1, <1>6 DEF IInv, SizeIInv, Dated
  <2>2. w = size[About(q)] /\ FileSize[About(q)] \in Nat
    BY <1>6, Arguments DEF SizeNow
  <2> HIDE DEF w, q
  <2>3. QED BY <1>2, <1>3, <1>5, <2>1, <2>2
<1>7. ASSUME q.verb = "FILEREAD"
      PROVE  About(q) = q.arg /\ (q.arg = fs.arg => promised <= had)
  <2>1. About(q) = q.arg
    BY <1>7 DEF About
  <2>2. q.arg = fs.arg => promised <= q.was
    BY <1>1, <1>7 DEF IInv, SizeIInv, Kept
  <2> HIDE DEF w, q
  <2>3. QED BY <1>1, <1>2, <1>5, <2>1, <2>2
<1>8. QED BY <1>5, <1>6, <1>7

\* A block that arrives: the transfer and the ring.
LEMMA BlockFile ==
  ASSUME IInv, NEW sumOk \in BOOLEAN, BlockArrives(sumOk)
  PROVE  FileIInv' /\ Polite /\ (Still \/ Arrives)
<1>0. PICK had \in Had(Head(net)) :
        LET b == BlockOf(Head(net), had, sumOk)
            room == b.n = 0 \/ HasRoom(ring, b.n)
            r == IF TakesBlock(fs, b) /\ room THEN Put(ring, b) ELSE ring
        IN  \E o \in Outcomes(OnBlock(fs, b, room), linkUp, Tail(net)) :
              fs' = o.fs /\ ring' = NoteEnd(r, fs, o.fs)
  BY DEF BlockArrives
<1> DEFINE q == Head(net)
           b == BlockOf(q, had, sumOk)
           room == b.n = 0 \/ HasRoom(ring, b.n)
           r == IF TakesBlock(fs, b) /\ room THEN Put(ring, b) ELSE ring
           f == OnBlock(fs, b, room)
<1>1. PICK o \in Outcomes(f, linkUp, Tail(net)) :
        fs' = o.fs /\ ring' = NoteEnd(r, fs, o.fs)
  BY <1>0
<1>2. /\ net # <<>> /\ q.verb = "FILEREAD" /\ taken' = taken /\ enabled' = enabled
      /\ linkUp' = linkUp
  BY DEF BlockArrives
<1>3. SoundFile(fs, ring, taken) /\ (Busy(fs) => enabled)
  BY DEF IInv, FileIInv
<1>4. /\ q \in Requests
      /\ Tail(net) \in Seq(Requests) /\ Len(Tail(net)) <= NetBound
      /\ linkUp \in BOOLEAN /\ Lengths(size)
  BY <1>2, Wire DEF IInv, ListIInv
<1>a. had \in Nat /\ (q.arg = fs.arg => promised <= had)
  BY <1>2, HadFacts
<1>5. /\ SoundFile(f, r, taken) /\ (Busy(f) => Busy(fs))
      /\ Answered(fs, f, q, had)
  <2>1. room \in BOOLEAN
    BY DEF HasRoom
  <2>2. room <=> b.n = 0 \/ HasRoom(ring, b.n)
    OBVIOUS
  <2> HIDE DEF room, q
  <2>3. QED BY <1>2, <1>3, <1>4, <1>a, <2>1, <2>2, BlockKeeps
<1> HIDE DEF f, r
<1>6. SoundFile(o.fs, NoteEnd(r, fs, o.fs), taken) /\ (Busy(o.fs) => Busy(f))
  BY <1>4, <1>5, TickKeeps
<1>7. /\ o.fs.arg = f.arg /\ o.fs.received = f.received
      /\ o.fs.state = f.state \/ (Busy(f) /\ o.fs.state = "failed")
      /\ o.fs.waiting => linkUp
  BY <1>4, <1>5, TickFacts DEF SoundFile
<1>8. Polite
  BY <1>1, <1>2, <1>7 DEF Polite, Asked
<1>9. Still \/ Arrives
  <2>0. f.arg = fs.arg
    BY <1>5 DEF Answered
  <2>1. CASE f.received = fs.received /\ (f.state = fs.state \/ (Busy(fs) /\ f.state = "failed"))
    <3>1. fs'.state = fs.state \/ (fs'.state = "failed" /\ fs' # fs)
      BY <1>1, <1>7, <2>1 DEF Busy
    <3>2. QED BY <1>1, <1>2, <1>7, <2>0, <2>1, <3>1 DEF Still
  <2>2. CASE ~(f.received = fs.received /\ (f.state = fs.state \/ (Busy(fs) /\ f.state = "failed")))
    <3>1. /\ fs.state = "reading" /\ fs.arg \in DOMAIN FileSize /\ q.arg = fs.arg
          /\ fs.received <= f.received
          /\ f.size = IF fs.size = -1 THEN had ELSE fs.size
          /\ \/ f.state = "reading"
             \/ f.state = "done" /\ (had <= f.received \/ f.size <= f.received)
      BY <1>5, <2>2 DEF Answered
    <3>2. /\ promised \in Nat /\ promised <= had /\ promised <= f.size
          /\ f.size \in Nat /\ f.received \in Nat
      <4>1. promised \in Nat /\ promised <= had
        BY <1>a, <3>1 DEF IInv, SizeIInv
      <4>2. fs.size # -1 => promised <= fs.size
        BY <3>1 DEF IInv, SizeIInv, Kept
      <4>3. f.received \in Nat /\ fs.size \in Nat \cup {-1}
        BY <1>3, <1>5 DEF SoundFile, SoundTransfer, Transfers
      <4>4. QED BY <1>a, <3>1, <4>1, <4>2, <4>3
    <3>3. f.state = "done" => promised <= f.received
      <4> DEFINE R == f.received
                 S == f.size
      <4>1. /\ promised \in Nat /\ promised <= had /\ promised <= S /\ had \in Nat
            /\ S \in Nat /\ R \in Nat
            /\ f.state = "done" => had <= R \/ S <= R
        BY <1>a, <3>1, <3>2
      <4> HIDE DEF R, S
      <4>2. f.state = "done" => promised <= R
        BY <4>1
      <4>3. QED BY <4>2 DEF R
    <3>4. fs'.state \in {"reading", "failed"} \/ (fs'.state = "done" /\ promised <= fs'.received)
      BY <1>1, <1>7, <3>1, <3>3 DEF Busy
    <3>5. QED BY <1>1, <1>2, <1>7, <2>0, <3>1, <3>4 DEF Arrives
  <2>3. QED BY <2>1, <2>2
<1>10. QED BY <1>1, <1>2, <1>3, <1>5, <1>6, <1>8, <1>9 DEF FileIInv

\* A transfer that goes on is sound, and no longer paused.
LEMMA ResumeKeeps ==
  ASSUME NEW f, SoundTransfer(f), SoundRead(f)
  PROVE  LET g == Resume(f) IN
         /\ SoundTransfer(g) /\ SoundRead(g) /\ Same(f, g) /\ g.state = f.state
         /\ ~g.paused
<1> DEFINE g == Resume(f)
<1>1. CASE ~f.paused
  BY <1>1 DEF Resume, Same
<1>2. CASE f.paused
  <2>1. g = [f EXCEPT !.paused = FALSE, !.pending = TRUE, !.age = 0]
    BY <1>2 DEF Resume
  <2>2. f \in Transfers /\ TRUE \in BOOLEAN /\ FALSE \in BOOLEAN /\ 0 \in 0 .. ReplyMs
    BY Bounds DEF SoundTransfer
  <2>3. g \in Transfers
    BY <2>1, <2>2 DEF Transfers
  <2>4. /\ Same(f, g) /\ g.state = f.state /\ g.waiting = f.waiting
        /\ g.retries = f.retries /\ g.paused = FALSE
    BY <2>1, <2>2 DEF Transfers, Same
  <2>5. ~g.paused
    BY <2>4
  <2> HIDE DEF g
  <2>6. SoundTransfer(g) /\ SoundRead(g)
    BY <2>3, <2>4, <2>5 DEF SoundTransfer, SoundRead, Same, Busy
  <2>7. QED BY <2>4, <2>5, <2>6 DEF g
<1>3. QED BY <1>1, <1>2

\* Of nothing taken there are no bytes.
LEMMA NoBytes == \A r : Bytes(r, 0) = <<>>
<1> TAKE r
<1> DEFINE y == Bytes(r, 0)
<1>1. y = [i \in 1 .. 0 |-> r.buf[(r.head + i - 1) % RingCap]]
  BY DEF Bytes
<1>2. QED BY <1>1

\* What a take leaves in the ring and gives to the browser.
LEMMA GrabFacts ==
  ASSUME NEW f, NEW r, NEW t, SoundFile(f, r, t)
  PROVE  LET n == Grab(r)
             d == Drain(r, n)
             u == t \o Bytes(r, n)
         IN  /\ n \in 0 .. r.len
             /\ d \in Rings /\ d.buf = r.buf /\ d.len = r.len - n /\ d.ended = r.ended
             /\ Beginning(f, u) /\ Len(u) = Len(t) + n
             /\ r.buf # NoBuf => Holds(f, d, u)
             /\ r.buf = NoBuf => n = 0 /\ u = t
<1> DEFINE n == Grab(r)
           d == Drain(r, n)
           u == t \o Bytes(r, n)
<1>1. /\ r \in Rings /\ r.len \in 0 .. RingCap /\ t \in Seq(Names \X Nat)
      /\ Beginning(f, t)
  BY DEF SoundFile, SoundRing, Rings, Beginning
<1>2. n \in 0 .. r.len
  BY <1>1, Bounds DEF Grab
<1>3. CASE r.buf = NoBuf
  <2>1. n = 0 /\ d = r
    BY <1>3 DEF Grab, Drain
  <2>2. u = t
    BY <1>1, <2>1, NoBytes
  <2>3. r.len - n = r.len /\ Len(t) + n = Len(t)
    BY <1>1, <2>1, Bounds
  <2> HIDE DEF n, d, u
  <2>4. /\ n \in 0 .. r.len
        /\ d \in Rings /\ d.buf = r.buf /\ d.len = r.len - n /\ d.ended = r.ended
        /\ Beginning(f, u) /\ Len(u) = Len(t) + n
        /\ r.buf # NoBuf => Holds(f, d, u)
        /\ r.buf = NoBuf => n = 0 /\ u = t
    BY <1>1, <1>2, <1>3, <2>1, <2>2, <2>3
  <2>5. QED BY <2>4 DEF n, d, u
<1>4. CASE r.buf # NoBuf
  <2>1. f.arg \in Names /\ f.received = Len(t) + r.len /\ Holds(f, r, t)
    BY <1>4 DEF SoundFile, SoundRing
  <2> HIDE DEF n
  <2>2. /\ d \in Rings /\ d.buf = r.buf /\ d.len = r.len - n /\ d.ended = r.ended
        /\ Beginning(f, u) /\ Len(u) = Len(t) + n
        /\ Holds(f, d, u)
    BY <1>1, <1>2, <1>4, <2>1, TakeHolds
  <2>3. QED BY <1>2, <1>4, <2>2 DEF n
<1>5. QED BY <1>3, <1>4

(* A paused transfer either finds room for a block now, or still has bytes  *)
(* to wait for.                                                            *)
LEMMA GrabKeeps ==
  ASSUME NEW f, NEW g, NEW r, NEW t, SoundFile(f, r, t),
         SoundTransfer(g), SoundRead(g), Same(f, g), g.state = f.state,
         g.paused => f.paused /\ ~RoomForABlock(Drain(r, Grab(r)))
  PROVE  SoundFile(g, Drain(r, Grab(r)), t \o Bytes(r, Grab(r)))
<1> DEFINE n == Grab(r)
           d == Drain(r, n)
           u == t \o Bytes(r, n)
<1>1. /\ n \in 0 .. r.len
      /\ d \in Rings /\ d.buf = r.buf /\ d.len = r.len - n /\ d.ended = r.ended
      /\ Beginning(f, u) /\ Len(u) = Len(t) + n
      /\ r.buf # NoBuf => Holds(f, d, u)
      /\ r.buf = NoBuf => n = 0 /\ u = t
  BY GrabFacts
<1>2. r.len \in Nat /\ Len(t) \in Nat /\ d.len \in 0 .. RingCap /\ d.len \in Nat
  BY <1>1, Bounds DEF SoundFile, SoundRing, Rings, Beginning
<1> HIDE DEF d, u
<1>3. Beginning(g, u)
  BY <1>1 DEF Beginning, Same
<1>4. d.buf # NoBuf => g.received = Len(u) + d.len /\ Holds(g, d, u)
  <2>1. SUFFICES ASSUME r.buf # NoBuf PROVE g.received = Len(u) + d.len /\ Holds(g, d, u)
    BY <1>1
  <2>2. f.received = Len(t) + r.len
    BY <2>1 DEF SoundFile, SoundRing
  <2>3. n \in Nat
    BY <1>1, <1>2
  <2> HIDE DEF n
  <2>4. f.received = Len(u) + d.len
    BY <1>1, <1>2, <2>2, <2>3
  <2>5. Holds(g, d, u)
    BY <1>1, <2>1 DEF Holds, Same
  <2>6. QED BY <2>4, <2>5 DEF Same
<1>5. g.paused => d.len > 0 /\ RingCap - d.len < BlockSize
  <2>1. ~RoomForABlock(d) => RingCap - d.len < BlockSize /\ d.len > 0
    BY <1>2, Bounds DEF RoomForABlock
  <2>2. QED BY <2>1 DEF d
<1>6. /\ d.buf = NoBuf => d.len = 0
      /\ g.arg \notin Names => d.buf = NoBuf /\ u = <<>>
      /\ g.state = "reading" => d.buf # NoBuf /\ ~d.ended
  BY <1>1, <1>2 DEF SoundFile, SoundRing, Same
<1>7. SoundRing(g, d, u)
  BY <1>1, <1>4, <1>5, <1>6 DEF SoundRing
<1>8. QED BY <1>3, <1>7 DEF SoundFile, d, u

\* Bytes taken by the web server: the transfer and the ring.
LEMMA TakeFile ==
  ASSUME IInv, Take
  PROVE  FileIInv' /\ Polite /\ Gives
<1> DEFINE n == Grab(ring)
           r == Drain(ring, n)
           resumes == Busy(fs) /\ fs.paused /\ RoomForABlock(r)
<1>1. SoundFile(fs, ring, taken) /\ (Busy(fs) => enabled)
  BY DEF IInv, FileIInv
<1>2. SoundTransfer(fs) /\ SoundRead(fs)
  BY <1>1 DEF SoundFile
<1>3. PICK o \in IF resumes THEN Outcomes(Resume(fs), linkUp, net)
                            ELSE {[fs |-> fs, net |-> net]} :
        LET e == NoteEnd(r, fs, o.fs)
        IN  /\ fs' = o.fs
            /\ ring' = IF Spent(o.fs, e) THEN Freed(e) ELSE e
  BY DEF Take
<1>4. taken' = taken \o Bytes(ring, n) /\ enabled' = enabled /\ linkUp' = linkUp
  BY DEF Take
<1>5. /\ SoundFile(o.fs, NoteEnd(r, fs, o.fs), taken') /\ (Busy(o.fs) => Busy(fs))
      /\ o.fs.arg = fs.arg /\ o.fs.received = fs.received
      /\ o.fs.state = fs.state \/ (Busy(fs) /\ o.fs.state = "failed")
      /\ o.fs = fs \/ (o.fs.waiting => linkUp)
  <2>1. CASE resumes
    <3> DEFINE g == Resume(fs)
    <3>1. SoundTransfer(g) /\ SoundRead(g) /\ Same(fs, g) /\ g.state = fs.state /\ ~g.paused
      BY <1>2, ResumeKeeps
    <3>2. o \in Outcomes(g, linkUp, net)
      BY <1>3, <2>1
    <3> HIDE DEF g
    <3>3. SoundFile(g, r, taken')
      BY <1>1, <1>4, <3>1, GrabKeeps
    <3> HIDE DEF r
    <3>4. SoundFile(o.fs, NoteEnd(r, fs, o.fs), taken')
      BY <3>2, <3>3, TickKeeps, Wire DEF IInv, ListIInv
    <3>5. /\ o.fs.arg = g.arg /\ o.fs.received = g.received
          /\ o.fs.state = g.state \/ (Busy(g) /\ o.fs.state = "failed")
          /\ o.fs.waiting => linkUp
      BY <3>1, <3>2, TickFacts, Wire DEF IInv, ListIInv
    <3>6. QED BY <2>1, <3>1, <3>4, <3>5 DEF Same
  <2>2. CASE ~resumes
    <3>1. o.fs = fs
      BY <1>3, <2>2
    <3>2. fs.paused => Busy(fs)
      BY <1>2 DEF SoundTransfer, Busy
    <3>3. SoundFile(fs, r, taken')
      BY <1>1, <1>2, <1>4, <2>2, <3>2, GrabKeeps DEF Same
    <3>4. QED BY <3>1, <3>3, NoteKeeps
  <2>3. QED BY <2>1, <2>2
<1> HIDE DEF r
<1> DEFINE e == NoteEnd(r, fs, o.fs)
<1>6. SoundFile(o.fs, e, taken') /\ ring' = IF Spent(o.fs, e) THEN Freed(e) ELSE e
  BY <1>3, <1>5
<1> HIDE DEF e
<1>7. SoundFile(o.fs, ring', taken')
  <2>1. CASE Spent(o.fs, e)
    <3> DEFINE g == Freed(e)
    <3>1. g \in Rings /\ g.buf = NoBuf /\ g.len = e.len
      BY <1>6, FreedRing DEF SoundFile, SoundRing
    <3>2. e.len = 0 /\ ~Busy(o.fs)
      BY <2>1 DEF Spent
    <3> HIDE DEF g
    <3>3. SoundFile(o.fs, g, taken')
      BY <1>6, <3>1, <3>2, FreeKeeps
    <3>4. QED BY <1>6, <2>1, <3>3 DEF g
  <2>2. CASE ~Spent(o.fs, e)
    BY <1>6, <2>2
  <2>3. QED BY <2>1, <2>2
<1>8. Polite
  BY <1>3, <1>4, <1>5 DEF Polite, Asked
<1>9. Gives
  <2>1. Len(taken) <= Len(taken') /\ (fs.arg \notin Names => taken' = taken)
    <3>1. /\ n \in 0 .. ring.len /\ Len(taken \o Bytes(ring, n)) = Len(taken) + n
          /\ ring.buf = NoBuf => taken \o Bytes(ring, n) = taken
      BY <1>1, GrabFacts
    <3>2. Len(taken) \in Nat /\ n \in Nat /\ (fs.arg \notin Names => ring.buf = NoBuf)
      BY <1>1, <3>1, Bounds DEF SoundFile, SoundRing, Rings, Beginning
    <3> HIDE DEF n
    <3>3. QED BY <1>4, <3>1, <3>2
  <2>2. QED BY <1>3, <1>5, <2>1 DEF Gives
<1>10. QED BY <1>1, <1>3, <1>4, <1>5, <1>7, <1>8, <1>9 DEF FileIInv

\* A pass of the main loop: the transfer and the ring.
LEMMA TickFile ==
  ASSUME IInv, NEW up \in BOOLEAN, NEW run \in BOOLEAN, MainTick(up, run)
  PROVE  FileIInv' /\ Polite /\ Still
<1> DEFINE f == IF Abandoned(fs, ring) THEN Cancel(fs) ELSE fs
<1>1. PICK o \in Outcomes(f, up, net) :
        LET e == NoteEnd(ring, fs, o.fs)
        IN  /\ fs' = o.fs
            /\ ring' = IF Leftover(o.fs, e) THEN [Freed(e) EXCEPT !.len = 0] ELSE e
  BY DEF MainTick
<1>2. taken' = taken /\ enabled' = enabled /\ linkUp' = up
  BY DEF MainTick
<1>3. SoundFile(fs, ring, taken) /\ (Busy(fs) => enabled)
  BY DEF IInv, FileIInv
<1>4. /\ SoundFile(f, ring, taken) /\ (Busy(f) => Busy(fs))
      /\ f.arg = fs.arg /\ f.received = fs.received
      /\ f = fs \/ (f.state = "failed" /\ Busy(fs))
  <2>1. SoundFile(f, ring, taken) /\ (Busy(f) => Busy(fs))
    BY <1>3, CancelKeeps
  <2>2. CASE Abandoned(fs, ring)
    <3>1. f = Finish(fs, "failed", "cancelled") /\ Busy(fs)
      BY <2>2 DEF Abandoned, Cancel
    <3>2. QED BY <1>3, <2>1, <3>1, FinishKeeps DEF SoundFile, SoundTransfer, Same, Errors
  <2>3. CASE ~Abandoned(fs, ring)
    BY <2>1, <2>3
  <2>4. QED BY <2>2, <2>3
<1> HIDE DEF f
<1>5. SoundFile(o.fs, NoteEnd(ring, fs, o.fs), taken) /\ (Busy(o.fs) => Busy(f))
  BY <1>4, TickKeeps, Wire DEF IInv, ListIInv
<1> DEFINE e == NoteEnd(ring, fs, o.fs)
<1>6. /\ SoundFile(o.fs, e, taken)
      /\ ring' = IF Leftover(o.fs, e) THEN [Freed(e) EXCEPT !.len = 0] ELSE e
  BY <1>1, <1>5
<1> HIDE DEF e
<1>7. SoundFile(o.fs, ring', taken)
  <2>1. CASE Leftover(o.fs, e)
    <3> DEFINE g == Freed(e)
               h == [g EXCEPT !.len = 0]
    <3>1. g \in Rings /\ g.buf = NoBuf
      BY <1>6, FreedRing DEF SoundFile, SoundRing
    <3>2. ~Busy(o.fs)
      BY <2>1 DEF Leftover
    <3> HIDE DEF g
    <3>3. h \in Rings /\ h.buf = NoBuf /\ h.len = 0
      <4>1. 0 \in 0 .. RingCap
        BY Bounds
      <4>2. QED BY <3>1, <4>1 DEF Rings
    <3> HIDE DEF h
    <3>4. SoundFile(o.fs, h, taken)
      BY <1>6, <3>2, <3>3, FreeKeeps
    <3>5. QED BY <1>6, <2>1, <3>4 DEF g, h
  <2>2. CASE ~Leftover(o.fs, e)
    BY <1>6, <2>2
  <2>3. QED BY <2>1, <2>2
<1>8. /\ o.fs.arg = f.arg /\ o.fs.received = f.received
      /\ o.fs.state = f.state \/ (Busy(f) /\ o.fs.state = "failed")
      /\ o.fs.waiting => up
  BY <1>4, TickFacts, Wire DEF IInv, ListIInv, SoundFile
<1>9. Polite
  BY <1>1, <1>2, <1>8 DEF Polite, Asked
<1>10. Still
  <2>1. fs'.state = fs.state \/ (fs'.state = "failed" /\ fs' # fs)
    BY <1>1, <1>4, <1>8 DEF Busy
  <2>2. QED BY <1>1, <1>2, <1>4, <1>8, <2>1 DEF Still
<1>11. QED BY <1>1, <1>2, <1>3, <1>4, <1>5, <1>7, <1>9, <1>10 DEF FileIInv

\* Time keeps a transfer sound.
LEMMA OlderKeeps ==
  ASSUME NEW f, SoundTransfer(f), SoundRead(f)
  PROVE  LET g == Older(f) IN
         /\ SoundTransfer(g) /\ SoundRead(g) /\ Same(f, g)
         /\ g.state = f.state /\ g.paused = f.paused /\ g.waiting = f.waiting
         /\ g # f => g.age # 0
<1> DEFINE g == Older(f)
<1>1. CASE ~(f.age < ReplyMs)
  BY <1>1 DEF Older, Same
<1>2. CASE f.age < ReplyMs
  <2>1. g = [f EXCEPT !.age = f.age + 1]
    BY <1>2 DEF Older
  <2>2. f \in Transfers /\ f.age + 1 \in 0 .. ReplyMs /\ f.age + 1 # 0
    BY <1>2, Bounds DEF SoundTransfer, Transfers
  <2>3. /\ g \in Transfers /\ Same(f, g) /\ g.state = f.state /\ g.paused = f.paused
        /\ g.waiting = f.waiting /\ g.retries = f.retries /\ g.age = f.age + 1
    BY <2>1, <2>2 DEF Transfers, Same
  <2> HIDE DEF g
  <2>4. SoundTransfer(g) /\ SoundRead(g)
    BY <2>3 DEF SoundTransfer, SoundRead, Same, Busy
  <2>5. QED BY <2>2, <2>3, <2>4 DEF g
<1>3. QED BY <1>1, <1>2

\* Time that goes on: the transfer and the ring.
LEMMA TimeFile ==
  ASSUME IInv, Time
  PROVE  FileIInv' /\ Polite /\ Still
<1>1. SoundFile(fs, ring, taken) /\ (Busy(fs) => enabled)
  BY DEF IInv, FileIInv
<1>2. /\ fs' = (IF fs.waiting THEN Older(fs) ELSE fs)
      /\ ring' = ring /\ taken' = taken /\ enabled' = enabled
  BY DEF Time
<1> DEFINE g == Older(fs)
<1>3. /\ SoundTransfer(g) /\ SoundRead(g) /\ Same(fs, g)
      /\ g.state = fs.state /\ g.paused = fs.paused
      /\ g # fs => g.age # 0
  BY <1>1, OlderKeeps DEF SoundFile
<1> HIDE DEF g
<1>4. SoundFile(g, ring, taken) /\ (Busy(g) <=> Busy(fs))
  BY <1>1, <1>3, FileStays DEF Same, Busy
<1>5. fs' = g \/ fs' = fs
  BY <1>2 DEF g
<1>6. Polite /\ Still
  BY <1>2, <1>3, <1>5 DEF Polite, Asked, Still, Same
<1>7. QED BY <1>1, <1>2, <1>4, <1>5, <1>6 DEF FileIInv

-----------------------------------------------------------------------------
(***************************************************************************)
(* The handlers keep ListIInv                                              *)
(***************************************************************************)

(* The tick at the end of a handler begins no listing, and adds no request  *)
(* but of the transfer under way.                                          *)
LEMMA ListingTicks ==
  ASSUME Lengths(size), NEW f, SoundTransfer(f), SoundRead(f), NEW up \in BOOLEAN,
         NEW wire \in Seq(Requests), Len(wire) <= NetBound,
         NEW o \in Outcomes(f, up, wire)
  PROVE  /\ o.net \in Seq(Requests) /\ Len(o.net) <= NetBound
         /\ o.fs.arg = f.arg
         /\ o.fs.state = "listing" => f.state = "listing"
         /\ \A l : SoundListing(f, l, wire) => SoundListing(o.fs, l, o.net)
<1>1. /\ Same(f, o.fs)
      /\ \/ o.fs.state = f.state
         \/ o.fs.state = "failed"
      /\ o.net \in Seq(Requests) /\ Len(o.net) <= NetBound
      /\ \A i \in DOMAIN o.net : \/ i \in DOMAIN wire /\ o.net[i] = wire[i]
                                 \/ o.net[i].arg = f.arg
  BY OutcomesKeep DEF Brings
<1>2. ASSUME NEW l, SoundListing(f, l, wire) PROVE SoundListing(o.fs, l, o.net)
  <2>1. ASSUME NEW i \in DOMAIN o.net, o.net[i].verb = "FDFILES"
        PROVE  o.net[i].arg = o.fs.arg
    BY <1>1, <1>2, <2>1 DEF SoundListing, Same
  <2>2. QED BY <1>1, <1>2, <2>1 DEF SoundListing, Same
<1>3. QED BY <1>1, <1>2 DEF Same

\* A listing is as sound when a request has left the wire.
LEMMA ListingTails ==
  ASSUME OtherTypes, net # <<>>, NEW f, NEW l, SoundListing(f, l, net)
  PROVE  SoundListing(f, l, Tail(net))
BY Wire DEF SoundListing

\* A listing is as sound for a transfer of the same place.
LEMMA ListingSame ==
  ASSUME NEW f, NEW g, Same(f, g), NEW l, NEW wire, SoundListing(f, l, wire)
  PROVE  SoundListing(g, l, wire)
BY DEF SoundListing, Same

\* A handler that has nothing to do with listings.
LEMMA ListStays ==
  ASSUME IInv, OtherTypes', UNCHANGED <<list, listValid, mixed>>,
         fs'.arg = fs.arg \/ fs'.arg \notin Patterns,
         fs'.state = "listing" =>
           /\ fs.state = "listing"
           /\ SoundListing(fs, list, net) => SoundListing(fs', list, net')
  PROVE  ListIInv'
<1>1. (fs.state = "listing" => ~listValid /\ (mixed \/ SoundListing(fs, list, net)))'
  BY DEF IInv, ListIInv, SoundListing
<1>2. (listValid => WholeNames \/ mixed)'
  BY DEF IInv, ListIInv, WholeNames
<1>3. QED BY <1>1, <1>2 DEF ListIInv

\* A listing that begins: the listing.
LEMMA ListFilesList ==
  ASSUME IInv, NEW p \in Patterns, NEW force \in BOOLEAN, ListFiles(p, force)
  PROVE  ListIInv'
<1> DEFINE f == Begin("listing", p, -1)
<1>1. PICK o \in Outcomes(f, linkUp, net) : fs' = o.fs /\ net' = o.net
  BY DEF ListFiles
<1>2. /\ list' = <<>> /\ listValid' = FALSE /\ size' = size
      /\ mixed' = (\E i \in DOMAIN net : net[i].verb = "FDFILES" /\ net[i].arg # p)
      /\ UNCHANGED <<enabled, linkUp, running, idle>>
  BY DEF ListFiles
<1>3. /\ f \in Transfers /\ f.state = "listing" /\ f.arg = p /\ f.index = 0 /\ f.received = 0
      /\ f.retries = 0 /\ ~f.waiting /\ ~f.paused
  BY BeginFields
<1> HIDE DEF f
<1>4. SoundTransfer(f) /\ SoundRead(f)
  BY <1>3, Arguments, Bounds DEF SoundTransfer, SoundRead
<1>5. ~mixed' => SoundListing(f, <<>>, net)
  <2>1. FirstOf(p, 0, <<>>)
    <3>1. (IF 0 < ListMax THEN 0 ELSE ListMax) = 0 /\ Len(<<>>) = 0
      BY Bounds
    <3>2. QED BY <3>1 DEF FirstOf
  <2>2. Len(Matches[p]) \in Nat
    BY Arguments
  <2>3. QED BY <1>2, <1>3, <2>1, <2>2 DEF SoundListing
<1>6. /\ o.net \in Seq(Requests) /\ Len(o.net) <= NetBound
      /\ SoundListing(f, <<>>, net) => SoundListing(o.fs, <<>>, o.net)
  BY <1>4, ListingTicks, Wire DEF IInv, ListIInv
<1>7. OtherTypes'
  <2>1. <<>> \in Seq([name : DOMAIN FileSize, size : Nat]) /\ Len(<<>>) = 0
    OBVIOUS
  <2>2. mixed' \in BOOLEAN /\ listValid' \in BOOLEAN
    BY <1>2
  <2>3. QED BY <1>1, <1>2, <1>6, <2>1, <2>2, Bounds DEF IInv, ListIInv, OtherTypes
<1>9. ~listValid'
  BY <1>2
<1>10. mixed' \/ SoundListing(fs', list', net')
  BY <1>1, <1>2, <1>5, <1>6
<1>11. (fs.state = "listing" => ~listValid /\ (mixed \/ SoundListing(fs, list, net)))'
  BY <1>9, <1>10
<1>12. QED BY <1>7, <1>9, <1>11 DEF ListIInv

\* A read that begins, or is refused: the listing.
LEMMA ReadFileList ==
  ASSUME IInv, NEW name \in Names, NEW force \in BOOLEAN, ReadFile(name, force)
  PROVE  ListIInv'
<1>1. /\ UNCHANGED <<enabled, linkUp, running, list, listValid, size, mixed>> /\ idle' = 0
  BY DEF ReadFile
<1>2. CASE fs' = TooBig(fs) /\ UNCHANGED <<net, taken, promised>>
  <2>1. fs'.arg = fs.arg /\ fs'.state = "failed"
    BY <1>2 DEF TooBig, IInv, FileIInv, SoundFile, SoundTransfer, Transfers
  <2>2. OtherTypes'
    BY <1>1, <1>2, Bounds DEF IInv, ListIInv, OtherTypes
  <2>3. QED BY <1>1, <2>1, <2>2, ListStays
<1>3. ASSUME NEW o \in Outcomes(Begin("reading", name, Listed(name)), linkUp, net),
             fs' = o.fs, net' = o.net
      PROVE  ListIInv'
  <2> DEFINE f == Begin("reading", name, Listed(name))
  <2>2. Listed(name) \in Nat \cup {-1}
    BY ListedIs DEF IInv, ListIInv
  <2>3. /\ f \in Transfers /\ f.state = "reading" /\ f.arg = name /\ f.block = 0
        /\ f.size = Listed(name) /\ f.received = 0 /\ f.retries = 0 /\ ~f.waiting /\ ~f.paused
    BY <2>2, BeginFields
  <2> HIDE DEF f
  <2>4. SoundTransfer(f) /\ SoundRead(f)
    <3>1. 0 * BlockSize = 0
      BY Bounds
    <3>2. QED BY <2>3, <3>1, Bounds, Arguments DEF SoundTransfer, SoundRead
  <2>5. o \in Outcomes(f, linkUp, net)
    BY DEF f
  <2>6. /\ o.net \in Seq(Requests) /\ Len(o.net) <= NetBound
        /\ o.fs.arg = name /\ o.fs.state # "listing"
    BY <2>3, <2>4, <2>5, ListingTicks, Wire DEF IInv, ListIInv
  <2>7. OtherTypes'
    BY <1>1, <1>3, <2>6, Bounds DEF IInv, ListIInv, OtherTypes
  <2>8. name \notin Patterns
    BY Arguments
  <2>9. QED BY <1>1, <1>3, <2>6, <2>7, <2>8, ListStays
<1>4. QED BY <1>2, <1>3 DEF ReadFile

\* A transfer that is cancelled lists nothing any more.
LEMMA CancelFacts ==
  ASSUME NEW f \in Transfers
  PROVE  Cancel(f).arg = f.arg /\ Cancel(f).state # "listing" /\ ~Busy(Cancel(f))
<1>1. CASE ~Busy(f)
  BY <1>1 DEF Cancel, Busy
<1>2. CASE Busy(f)
  BY <1>2, FinishKeeps DEF Cancel, Same, Errors
<1>3. QED BY <1>1, <1>2

\* A transfer given up: the listing.
LEMMA GiveUpList ==
  ASSUME IInv, CancelTransfer \/ \E on \in BOOLEAN : SetEnabled(on)
  PROVE  ListIInv'
<1>1. UNCHANGED <<linkUp, running, idle, list, listValid, net, size, mixed>>
  BY DEF CancelTransfer, SetEnabled
<1>2. enabled' \in BOOLEAN /\ (fs' = fs \/ fs' = Cancel(fs))
  BY DEF CancelTransfer, SetEnabled, IInv, ListIInv, OtherTypes
<1>3. OtherTypes'
  BY <1>1, <1>2 DEF IInv, ListIInv, OtherTypes
<1>4. fs \in Transfers
  BY DEF IInv, FileIInv, SoundFile, SoundTransfer
<1> DEFINE g == Cancel(fs)
<1>5. g.arg = fs.arg /\ g.state # "listing"
  BY <1>4, CancelFacts
<1> HIDE DEF g
<1>6. fs' = fs \/ fs' = g
  BY <1>2 DEF g
<1>7. fs'.arg = fs.arg
  BY <1>5, <1>6
<1>8. fs'.state = "listing" => fs' = fs
  BY <1>5, <1>6
<1>9. QED BY <1>1, <1>3, <1>7, <1>8, ListStays

\* Bytes taken by the web server: the listing.
LEMMA TakeList ==
  ASSUME IInv, Take
  PROVE  ListIInv'
<1>1. idle' = 0 /\ UNCHANGED <<enabled, linkUp, running, list, listValid, size, mixed>>
  BY DEF Take
<1>2. SoundTransfer(fs) /\ SoundRead(fs)
  BY DEF IInv, FileIInv, SoundFile
<1>3. \/ fs' = fs /\ net' = net
      \/ \E o \in Outcomes(Resume(fs), linkUp, net) : fs' = o.fs /\ net' = o.net
  BY DEF Take
<1>4. CASE fs' = fs /\ net' = net
  <2>1. OtherTypes'
    BY <1>1, <1>4, Bounds DEF IInv, ListIInv, OtherTypes
  <2>2. QED BY <1>1, <1>4, <2>1, ListStays
<1>5. ASSUME NEW o \in Outcomes(Resume(fs), linkUp, net), fs' = o.fs, net' = o.net
      PROVE  ListIInv'
  <2> DEFINE g == Resume(fs)
  <2>1. SoundTransfer(g) /\ SoundRead(g) /\ Same(fs, g) /\ g.state = fs.state
    BY <1>2, ResumeKeeps
  <2>2. o \in Outcomes(g, linkUp, net)
    OBVIOUS
  <2> HIDE DEF g
  <2>3. /\ o.net \in Seq(Requests) /\ Len(o.net) <= NetBound
        /\ o.fs.arg = g.arg
        /\ o.fs.state = "listing" => g.state = "listing"
        /\ \A l : SoundListing(g, l, net) => SoundListing(o.fs, l, o.net)
    BY <2>1, <2>2, ListingTicks, Wire DEF IInv, ListIInv
  <2>4. OtherTypes'
    BY <1>1, <1>5, <2>3, Bounds DEF IInv, ListIInv, OtherTypes
  <2>5. SoundListing(fs, list, net) => SoundListing(fs', list, net')
    BY <1>5, <2>1, <2>3, ListingSame
  <2>6. fs'.arg = fs.arg /\ (fs'.state = "listing" => fs.state = "listing")
    BY <1>5, <2>1, <2>3 DEF Same
  <2>7. QED BY <1>1, <2>4, <2>5, <2>6, ListStays
<1>6. QED BY <1>3, <1>4, <1>5

\* A block that arrives: the listing.
LEMMA BlockList ==
  ASSUME IInv, NEW sumOk \in BOOLEAN, BlockArrives(sumOk)
  PROVE  ListIInv'
<1>0. PICK had \in Had(Head(net)) :
        LET b == BlockOf(Head(net), had, sumOk)
            room == b.n = 0 \/ HasRoom(ring, b.n)
        IN  \E o \in Outcomes(OnBlock(fs, b, room), linkUp, Tail(net)) :
              fs' = o.fs /\ net' = o.net
  BY DEF BlockArrives
<1> DEFINE q == Head(net)
           b == BlockOf(q, had, sumOk)
           room == b.n = 0 \/ HasRoom(ring, b.n)
           f == OnBlock(fs, b, room)
<1>1. PICK o \in Outcomes(f, linkUp, Tail(net)) : fs' = o.fs /\ net' = o.net
  BY <1>0
<1>a. had \in Nat
  BY HadFacts DEF BlockArrives
<1>2. /\ net # <<>> /\ q.verb = "FILEREAD"
      /\ UNCHANGED <<enabled, linkUp, running, idle, list, listValid, size, mixed>>
  BY DEF BlockArrives
<1>3. SoundTransfer(fs) /\ SoundRead(fs)
  BY DEF IInv, FileIInv, SoundFile
<1>4. /\ q \in Requests
      /\ Tail(net) \in Seq(Requests) /\ Len(Tail(net)) <= NetBound
      /\ linkUp \in BOOLEAN /\ Lengths(size)
  BY <1>2, Wire DEF IInv, ListIInv
<1>5. /\ SoundTransfer(f) /\ SoundRead(f) /\ f.arg = fs.arg
      /\ f.state = "listing" => f = fs
  <2>1. room \in BOOLEAN
    BY DEF HasRoom
  <2> HIDE DEF room, q
  <2>2. CASE fs.state # "reading"
    <3>1. f = fs
      BY <2>2 DEF OnBlock
    <3>2. QED BY <1>3, <3>1
  <2>3. CASE fs.state = "reading" /\ TakesBlock(fs, b)
    <3> DEFINE h == Accept(fs, b, room)
    <3>1. /\ SoundTransfer(h) /\ SoundRead(h) /\ h.arg = fs.arg
          /\ h.state \in {"done", "reading"}
      BY <1>a, <1>2, <1>3, <1>4, <2>1, <2>3, AcceptKeeps
    <3>2. f = h
      BY <2>3, TakenBlock
    <3> HIDE DEF f, h
    <3>3. QED BY <3>1, <3>2
  <2>4. CASE fs.state = "reading" /\ ~TakesBlock(fs, b)
    <3>1. /\ SoundTransfer(f) /\ SoundRead(f) /\ Same(fs, f)
          /\ f.state \in {fs.state, "failed"}
      BY <1>a, <1>2, <1>3, <1>4, <2>1, <2>4, OtherBlock
    <3> HIDE DEF f
    <3>2. QED BY <2>4, <3>1 DEF Same
  <2>5. QED BY <2>2, <2>3, <2>4
<1> HIDE DEF f
<1>6. /\ o.net \in Seq(Requests) /\ Len(o.net) <= NetBound
      /\ o.fs.arg = f.arg
      /\ o.fs.state = "listing" => f.state = "listing"
      /\ \A l : SoundListing(f, l, Tail(net)) => SoundListing(o.fs, l, o.net)
  BY <1>4, <1>5, ListingTicks
<1>7. OtherTypes'
  BY <1>1, <1>2, <1>6 DEF IInv, ListIInv, OtherTypes
<1>8. SoundListing(fs, list, net) => SoundListing(fs, list, Tail(net))
  BY <1>2, ListingTails DEF IInv, ListIInv
<1>9. /\ fs'.arg = fs.arg
      /\ fs'.state = "listing" =>
           /\ fs.state = "listing"
           /\ SoundListing(fs, list, net) => SoundListing(fs', list, net')
  BY <1>1, <1>5, <1>6, <1>8
<1>10. QED BY <1>2, <1>7, <1>9, ListStays

\* A request that is lost: the listing.
LEMMA LostList ==
  ASSUME IInv, Lost
  PROVE  ListIInv'
<1>1. /\ net # <<>> /\ net' = Tail(net)
      /\ UNCHANGED <<fs, enabled, linkUp, running, idle, list, listValid, size, mixed>>
  BY DEF Lost
<1>2. Tail(net) \in Seq(Requests) /\ Len(Tail(net)) <= NetBound
  BY <1>1, Wire DEF IInv, ListIInv
<1>3. OtherTypes'
  BY <1>1, <1>2 DEF IInv, ListIInv, OtherTypes
<1>4. SoundListing(fs, list, net) => SoundListing(fs', list, net')
  BY <1>1, ListingTails DEF IInv, ListIInv
<1>5. QED BY <1>1, <1>3, <1>4, ListStays

\* A pass of the main loop: the listing.
LEMMA TickList ==
  ASSUME IInv, NEW up \in BOOLEAN, NEW run \in BOOLEAN, MainTick(up, run)
  PROVE  ListIInv'
<1> DEFINE f == IF Abandoned(fs, ring) THEN Cancel(fs) ELSE fs
<1>1. PICK o \in Outcomes(f, up, net) : fs' = o.fs /\ net' = o.net
  BY DEF MainTick
<1>2. /\ linkUp' = up /\ running' = run
      /\ UNCHANGED <<enabled, idle, list, listValid, size, mixed>>
  BY DEF MainTick
<1>3. SoundFile(fs, ring, taken)
  BY DEF IInv, FileIInv
<1>4. /\ SoundTransfer(f) /\ SoundRead(f) /\ f.arg = fs.arg
      /\ f.state = "listing" => f = fs
  <2> DEFINE g == Cancel(fs)
  <2>1. SoundTransfer(g) /\ SoundRead(g)
    BY <1>3, CancelKeeps DEF SoundFile
  <2>2. g.arg = fs.arg /\ g.state # "listing"
    BY <1>3, CancelFacts DEF SoundFile, SoundTransfer
  <2>3. f = g \/ f = fs
    OBVIOUS
  <2> HIDE DEF f, g
  <2>4. QED BY <1>3, <2>1, <2>2, <2>3 DEF SoundFile
<1> HIDE DEF f
<1>5. /\ o.net \in Seq(Requests) /\ Len(o.net) <= NetBound
      /\ o.fs.arg = f.arg
      /\ o.fs.state = "listing" => f.state = "listing"
      /\ \A l : SoundListing(f, l, net) => SoundListing(o.fs, l, o.net)
  BY <1>4, ListingTicks, Wire DEF IInv, ListIInv
<1>6. OtherTypes'
  BY <1>1, <1>2, <1>5 DEF IInv, ListIInv, OtherTypes
<1>7. /\ fs'.arg = fs.arg
      /\ fs'.state = "listing" =>
           /\ fs.state = "listing"
           /\ SoundListing(fs, list, net) => SoundListing(fs', list, net')
  BY <1>1, <1>4, <1>5
<1>8. QED BY <1>2, <1>6, <1>7, ListStays

\* Time that goes on: the listing.
LEMMA TimeList ==
  ASSUME IInv, Time
  PROVE  ListIInv'
<1> DEFINE g == Older(fs)
<1>1. /\ fs' = g \/ fs' = fs
      /\ idle' = IF ring.buf # NoBuf /\ idle <= IdleMs THEN idle + 1 ELSE idle
      /\ UNCHANGED <<enabled, linkUp, running, list, listValid, net, size, mixed>>
  BY DEF Time
<1>2. Same(fs, g) /\ g.state = fs.state
  BY OlderKeeps DEF IInv, FileIInv, SoundFile
<1>3. idle' \in 0 .. IdleMs + 1
  BY <1>1, Bounds DEF IInv, ListIInv, OtherTypes
<1>4. OtherTypes'
  BY <1>1, <1>3 DEF IInv, ListIInv, OtherTypes
<1> HIDE DEF g
<1>5. SoundListing(fs, list, net) => SoundListing(fs', list, net')
  BY <1>1, <1>2, ListingSame
<1>6. fs'.arg = fs.arg /\ fs'.state = fs.state
  BY <1>1, <1>2 DEF Same
<1>7. QED BY <1>1, <1>4, <1>5, <1>6, ListStays

\* One entry more of a listing, unless it is full.
LEMMA FirstOnes ==
  ASSUME NEW p \in Patterns, NEW n \in Nat, NEW x,
         NEW l \in Seq([name : DOMAIN FileSize, size : Nat]), FirstOf(p, n, l),
         x \in [name : DOMAIN FileSize, size : Nat], x.name = Matches[p][n + 1]
  PROVE  FirstOf(p, n + 1, IF Len(l) >= ListMax THEN l ELSE Append(l, x))
<1>1. Len(l) \in Nat /\ ListMax \in Nat /\ Len(l) = IF n < ListMax THEN n ELSE ListMax
  BY Bounds DEF FirstOf
<1>2. CASE Len(l) >= ListMax
  <2>1. Len(l) = IF n + 1 < ListMax THEN n + 1 ELSE ListMax
    BY <1>1, <1>2
  <2>2. QED BY <1>2, <2>1 DEF FirstOf
<1>3. CASE ~(Len(l) >= ListMax)
  <2> DEFINE k == Append(l, x)
             Entries == [name : DOMAIN FileSize, size : Nat]
  <2>1. Len(l) = n /\ n + 1 = IF n + 1 < ListMax THEN n + 1 ELSE ListMax
    BY <1>1, <1>3
  <2> HIDE DEF Entries
  <2>2. /\ Len(k) = n + 1 /\ k[n + 1] = x
        /\ \A i \in 1 .. n : k[i] = l[i]
    BY <2>1, AppendProperties DEF Entries
  <2>3. ASSUME NEW i \in 1 .. n + 1 PROVE k[i].name = Matches[p][i]
    <3>1. i \in 1 .. n \/ i = n + 1
      OBVIOUS
    <3>2. \A m \in 1 .. n : l[m].name = Matches[p][m]
      BY <2>1 DEF FirstOf
    <3> HIDE DEF k
    <3>3. QED BY <2>2, <3>1, <3>2
  <2> HIDE DEF k
  <2>4. FirstOf(p, n + 1, k)
    BY <2>1, <2>2, <2>3 DEF FirstOf
  <2>5. QED BY <1>3, <2>4 DEF k
<1>4. QED BY <1>2, <1>3

\* What the dryer's entry is.
LEMMA EntryFacts ==
  ASSUME NEW q \in Requests, q.verb = "FDFILES", NEW had \in Nat
  PROVE  LET m == Matches[q.arg]
             e == Entry(q, had)
         IN  /\ q.arg \in Patterns /\ q.at \in Nat /\ Len(m) \in Nat
             /\ e.index = q.at /\ (e.last <=> q.at >= Len(m))
             /\ ~e.last => /\ e.name = m[q.at + 1] /\ e.name \in DOMAIN FileSize
                           /\ e.name = About(q) /\ e.size = had
<1> DEFINE m == Matches[q.arg]
           e == Entry(q, had)
           last == q.at >= Len(m)
<1>1. q.arg \in Patterns /\ q.at \in Nat
  BY DEF Requests
<1>2. m \in Seq(DOMAIN FileSize) /\ Len(m) \in Nat
  BY <1>1, Arguments
<1>3. /\ e.index = q.at /\ e.last = last
      /\ e.name = About(q) /\ e.size = IF last THEN 0 ELSE had
  BY DEF Entry
<1>4. e.last <=> last
  BY <1>3
<1>5. ASSUME ~last
      PROVE  /\ e.name = m[q.at + 1] /\ e.name \in DOMAIN FileSize
             /\ e.name = About(q) /\ e.size = had
  <2>1. q.at + 1 \in 1 .. Len(m) /\ q.at < Len(m)
    BY <1>1, <1>2, <1>5
  <2>2. m[q.at + 1] \in DOMAIN FileSize
    BY <1>2, <2>1, ElementOfSeq
  <2>3. About(q) = m[q.at + 1]
    BY <2>1 DEF About
  <2> HIDE DEF last, m, e
  <2>4. QED BY <1>3, <1>5, <2>2, <2>3
<1> HIDE DEF e
<1>6. QED BY <1>1, <1>2, <1>3, <1>4, <1>5 DEF e

\* What is kept of an entry are files of the dryer.
LEMMA KeepFacts ==
  ASSUME OtherTypes, NEW q \in Requests, q.verb = "FDFILES", NEW had \in Nat
  PROVE  LET e == Entry(q, had)
             k == Keep(e)
         IN  /\ k \in Seq([name : DOMAIN FileSize, size : Nat]) /\ Len(k) <= ListMax
             /\ \A i \in DOMAIN k :
                  \/ i \in DOMAIN list /\ k[i] = list[i]
                  \/ ~e.last /\ k[i].name = About(q) /\ k[i].size = had
<1> DEFINE e == Entry(q, had)
           x == [name |-> e.name, size |-> e.size]
           k == Keep(e)
           Entries == [name : DOMAIN FileSize, size : Nat]
<1>1. list \in Seq(Entries) /\ Len(list) <= ListMax /\ Len(list) \in Nat
  BY DEF OtherTypes
<1>2. ~e.last => e.name \in DOMAIN FileSize /\ e.name = About(q) /\ e.size = had
  BY EntryFacts
<1>3. CASE e.last \/ Len(list) >= ListMax
  <2>1. k = list
    BY <1>3 DEF Keep
  <2> HIDE DEF e, k, Entries
  <2>2. QED BY <1>1, <2>1 DEF e, k, Entries
<1>4. CASE ~(e.last \/ Len(list) >= ListMax)
  <2>1. k = Append(list, x)
    BY <1>4 DEF Keep
  <2>2. x \in Entries /\ x.name = About(q) /\ x.size = had /\ ~e.last
    BY <1>2, <1>4
  <2> HIDE DEF e, k, Entries, x
  <2>3. /\ k \in Seq(Entries) /\ Len(k) = Len(list) + 1
        /\ \A i \in 1 .. Len(list) : k[i] = list[i]
        /\ k[Len(list) + 1] = x
    BY <1>1, <2>1, <2>2, AppendProperties
  <2>4. Len(k) <= ListMax
    BY <1>1, <1>4, <2>3, Bounds
  <2>5. ASSUME NEW i \in DOMAIN k
        PROVE  \/ i \in DOMAIN list /\ k[i] = list[i]
               \/ ~e.last /\ k[i].name = About(q) /\ k[i].size = had
    <3>1. i \in 1 .. Len(list) \/ i = Len(list) + 1
      BY <1>1, <2>3
    <3>2. CASE i \in 1 .. Len(list)
      BY <1>1, <2>3, <3>2
    <3>3. CASE i = Len(list) + 1
      BY <2>2, <2>3, <3>3
    <3>4. QED BY <3>1, <3>2, <3>3
  <2>6. QED BY <2>3, <2>4, <2>5 DEF e, k, Entries
<1>5. QED BY <1>3, <1>4

\* An entry that arrives: the listing.
LEMMA EntryList ==
  ASSUME IInv, EntryArrives
  PROVE  ListIInv'
<1>0. PICK had \in Had(Head(net)) :
        LET e == Entry(Head(net), had)
        IN  /\ list' = IF TakesEntry(fs, e) THEN Keep(e) ELSE list
            /\ listValid' = (listValid \/ (TakesEntry(fs, e) /\ e.last))
            /\ \E o \in Outcomes(OnEntry(fs, e), linkUp, Tail(net)) :
                 fs' = o.fs /\ net' = o.net
  BY DEF EntryArrives
<1> DEFINE q == Head(net)
           e == Entry(q, had)
           f == OnEntry(fs, e)
<1>1. PICK o \in Outcomes(f, linkUp, Tail(net)) : fs' = o.fs /\ net' = o.net
  BY <1>0
<1>2. /\ net # <<>> /\ q.verb = "FDFILES"
      /\ list' = IF TakesEntry(fs, e) THEN Keep(e) ELSE list
      /\ listValid' = (listValid \/ (TakesEntry(fs, e) /\ e.last))
      /\ UNCHANGED <<enabled, linkUp, running, idle, size, mixed>>
  BY <1>0 DEF EntryArrives
<1>a. had \in Nat
  BY <1>2, HadFacts
<1>3. SoundTransfer(fs) /\ SoundRead(fs) /\ OtherTypes
      /\ (fs.state = "listing" => ~listValid /\ (mixed \/ SoundListing(fs, list, net)))
  BY DEF IInv, FileIInv, SoundFile, ListIInv
<1>4. /\ q \in Requests /\ q = net[1]
      /\ Tail(net) \in Seq(Requests) /\ Len(Tail(net)) <= NetBound
      /\ linkUp \in BOOLEAN /\ Lengths(size)
  BY <1>2, <1>3, Wire
<1>5. /\ q.arg \in Patterns /\ q.at \in Nat /\ Len(Matches[q.arg]) \in Nat
      /\ e.index = q.at /\ (e.last <=> q.at >= Len(Matches[q.arg]))
      /\ ~e.last => /\ e.name = Matches[q.arg][q.at + 1] /\ e.name \in DOMAIN FileSize
                    /\ e.size = had
  BY <1>a, <1>2, <1>4, EntryFacts
<1>6. Keep(e) \in Seq([name : DOMAIN FileSize, size : Nat]) /\ Len(Keep(e)) <= ListMax
  BY <1>a, <1>2, <1>3, <1>4, KeepFacts
<1> HIDE DEF e
<1>7. /\ SoundTransfer(f) /\ SoundRead(f) /\ f.arg = fs.arg
      /\ ~TakesEntry(fs, e) => f = fs
      /\ TakesEntry(fs, e) =>
           /\ fs.state = "listing"
           /\ \/ e.last /\ f.state = "done" /\ f.index = fs.index
              \/ ~e.last /\ f.state = "listing" /\ f.index = fs.index + 1
  BY <1>3, OnEntryKeeps
<1> HIDE DEF f, q
<1>8. /\ o.net \in Seq(Requests) /\ Len(o.net) <= NetBound
      /\ o.fs.arg = f.arg
      /\ o.fs.state = "listing" => f.state = "listing"
      /\ \A l : SoundListing(f, l, Tail(net)) => SoundListing(o.fs, l, o.net)
  BY <1>4, <1>7, ListingTicks
<1>9. OtherTypes'
  <2>1. list' \in Seq([name : DOMAIN FileSize, size : Nat]) /\ Len(list') <= ListMax
    BY <1>2, <1>3, <1>6 DEF OtherTypes
  <2>2. listValid' \in BOOLEAN
    BY <1>2
  <2>3. QED BY <1>1, <1>2, <1>3, <1>8, <2>1, <2>2 DEF OtherTypes
<1>10. CASE ~TakesEntry(fs, e)
  <2>1. f = fs /\ list' = list /\ (listValid' <=> listValid)
    BY <1>2, <1>7, <1>10
  <2>2. listValid' = listValid
    BY <2>1, <1>9, <1>3 DEF OtherTypes
  <2>3. SoundListing(fs, list, net) => SoundListing(fs, list, Tail(net))
    BY <1>2, <1>3, ListingTails
  <2>4. SoundListing(fs, list, net) => SoundListing(fs', list, net')
    BY <1>1, <1>8, <2>1, <2>3
  <2>5. fs'.arg = fs.arg /\ (fs'.state = "listing" => fs.state = "listing")
    BY <1>1, <1>8, <2>1
  <2>6. QED BY <1>2, <1>9, <2>1, <2>2, <2>4, <2>5, ListStays
<1>11. CASE TakesEntry(fs, e)
  <2> DEFINE p == fs.arg
             n == fs.index
  <2>1. /\ list' = Keep(e) /\ (listValid' <=> e.last) /\ fs.state = "listing"
        /\ q.at = n /\ ~listValid /\ (mixed \/ SoundListing(fs, list, net))
        /\ mixed' = mixed /\ fs'.arg = p
    BY <1>1, <1>2, <1>3, <1>5, <1>7, <1>8, <1>11 DEF TakesEntry
  <2>3. ASSUME ~mixed
        PROVE  /\ p \in Patterns /\ n \in Nat /\ n <= Len(Matches[p]) /\ q.arg = p
               /\ FirstOf(p, n, list)
               /\ SoundListing(fs, list, Tail(net))
    <3>1. SoundListing(fs, list, net)
      BY <2>1, <2>3
    <3>2. 1 \in DOMAIN net
      BY <1>2, <1>3 DEF OtherTypes
    <3>3. q.arg = p
      BY <1>2, <1>4, <3>1, <3>2 DEF SoundListing
    <3>4. SoundListing(fs, list, Tail(net))
      BY <1>2, <1>3, <3>1, ListingTails
    <3>5. QED BY <1>5, <2>1, <3>1, <3>3, <3>4 DEF SoundListing
  <2>4. CASE e.last
    <3>1. ~(fs'.state = "listing") /\ listValid' /\ list' = list
      BY <1>1, <1>7, <1>8, <1>11, <2>1, <2>4 DEF Keep
    <3>2. ASSUME ~mixed PROVE WholeNames'
      <4>1. n = Len(Matches[p]) /\ p \in Patterns /\ FirstOf(p, n, list)
        BY <1>5, <2>1, <2>3, <2>4, <3>2
      <4>2. FirstOf(p, Len(Matches[p]), list') /\ fs'.arg = p
        BY <2>1, <3>1, <4>1
      <4>3. QED BY <4>1, <4>2 DEF WholeNames
    <3>3. QED BY <1>9, <2>1, <3>1, <3>2 DEF ListIInv
  <2>5. CASE ~e.last
    <3>1. ~listValid'
      BY <2>1, <2>5
    <3>2. ASSUME ~mixed PROVE SoundListing(fs', list', net')
      <4>1. n < Len(Matches[p]) /\ n \in Nat /\ n + 1 <= Len(Matches[p])
        BY <1>5, <2>1, <2>3, <2>5, <3>2
      <4>2. FirstOf(p, n + 1, list')
        <5> DEFINE x == [name |-> e.name, size |-> e.size]
        <5>1. Keep(e) = IF Len(list) >= ListMax THEN list ELSE Append(list, x)
          BY <2>5 DEF Keep
        <5>2. x \in [name : DOMAIN FileSize, size : Nat] /\ x.name = Matches[p][n + 1]
          BY <1>a, <1>5, <2>1, <2>3, <2>5, <3>2
        <5>3. p \in Patterns /\ n \in Nat /\ FirstOf(p, n, list)
          BY <2>3, <3>2
        <5>4. list \in Seq([name : DOMAIN FileSize, size : Nat])
          BY <1>3 DEF OtherTypes
        <5> HIDE DEF p, n, x
        <5>5. FirstOf(p, n + 1, IF Len(list) >= ListMax THEN list ELSE Append(list, x))
          BY <5>2, <5>3, <5>4, FirstOnes
        <5>6. QED BY <2>1, <5>1, <5>5
      <4>3. f.arg = p /\ f.index = n + 1
        BY <1>7, <1>11, <2>5
      <4>4. SoundListing(f, list', Tail(net))
        BY <2>3, <3>2, <4>1, <4>2, <4>3 DEF SoundListing
      <4>5. QED BY <1>1, <1>8, <4>4
    <3>3. (fs.state = "listing" => ~listValid /\ (mixed \/ SoundListing(fs, list, net)))'
      BY <2>1, <3>1, <3>2
    <3>4. QED BY <1>9, <3>1, <3>3 DEF ListIInv
  <2>6. QED BY <2>4, <2>5
<1>12. QED BY <1>10, <1>11

-----------------------------------------------------------------------------
(***************************************************************************)
(* The handlers keep SizeIInv: what a read was promised                    *)
(***************************************************************************)

\* A promise is kept as well by a transfer of the same file, as far as the other.
LEMMA KeptSame ==
  ASSUME NEW f, NEW g, NEW wire, NEW z, NEW n, Kept(f, wire, z, n),
         g.arg = f.arg, g.received = f.received,
         g.state = "reading" => f.state = "reading" /\ g.size = f.size
  PROVE  Kept(g, wire, z, n)
BY DEF Kept

\* And when a request has left the wire.
LEMMA KeptTail ==
  ASSUME OtherTypes, net # <<>>, NEW f, NEW n, Kept(f, net, size, n), Dated(net)
  PROVE  Kept(f, Tail(net), size, n) /\ Dated(Tail(net))
<1>1. \A i \in DOMAIN Tail(net) : i + 1 \in DOMAIN net /\ Tail(net)[i] = net[i + 1]
  BY Wire
<1> DEFINE w == Tail(net)
<1> HIDE DEF w
<1>2. \A i \in DOMAIN w : i + 1 \in DOMAIN net /\ w[i] = net[i + 1]
  BY <1>1 DEF w
<1>3. Kept(f, w, size, n)
  BY <1>2 DEF Kept
<1>4. Dated(w)
  BY <1>2 DEF Dated
<1>5. QED BY <1>3, <1>4 DEF w

\* And after the tick: a request it sends is answered with the file as it is now.
LEMMA KeptTicks ==
  ASSUME Lengths(size), NEW f, SoundTransfer(f), SoundRead(f), NEW up \in BOOLEAN,
         NEW wire \in Seq(Requests), Len(wire) <= NetBound,
         NEW o \in Outcomes(f, up, wire),
         NEW n \in Nat, Kept(f, wire, size, n), Dated(wire)
  PROVE  Kept(o.fs, o.net, size, n) /\ Dated(o.net)
<1>1. /\ Same(f, o.fs) /\ (o.fs.state = "reading" => f.state = "reading")
      /\ o.net \in Seq(Requests)
      /\ \A i \in DOMAIN o.net : \/ i \in DOMAIN wire /\ o.net[i] = wire[i]
                                 \/ Brings(f, o.net[i])
  BY OutcomesKeep
<1>2. Kept(o.fs, wire, size, n)
  BY <1>1, KeptSame DEF Same
<1> DEFINE w == o.net
           g == o.fs
<1>3. /\ w \in Seq(Requests) /\ g.arg = f.arg /\ Kept(g, wire, size, n)
      /\ \A i \in DOMAIN w : \/ i \in DOMAIN wire /\ w[i] = wire[i]
                             \/ Brings(f, w[i])
  BY <1>1, <1>2 DEF Same
<1> HIDE DEF w, g
<1>4. ASSUME NEW i \in DOMAIN w, w[i].verb = "FILEREAD", w[i].arg = g.arg
      PROVE  n <= w[i].was
  <2>1. CASE i \in DOMAIN wire /\ w[i] = wire[i]
    BY <1>3, <1>4, <2>1 DEF Kept
  <2>2. CASE Brings(f, w[i])
    <3>1. w[i] \in Requests
      BY <1>3, ElementOfSeq
    <3>2. w[i].arg \in Names
      BY <1>4, <3>1 DEF Requests
    <3>3. w[i].was = SizeNow(g.arg)
      BY <1>3, <1>4, <2>2 DEF Brings, About
    <3>4. CASE g.arg \in DOMAIN FileSize
      <4>1. w[i].was = size[g.arg]
        BY <3>3, <3>4 DEF SizeNow
      <4>2. QED BY <1>3, <3>4, <4>1 DEF Kept
    <3>5. CASE g.arg \notin DOMAIN FileSize
      <4>1. w[i].was = 0 /\ n = 0
        BY <1>3, <1>4, <3>2, <3>3, <3>5 DEF SizeNow, Kept
      <4>2. QED BY <4>1
    <3>6. QED BY <3>4, <3>5
  <2>3. QED BY <1>3, <2>1, <2>2
<1>5. Kept(g, w, size, n)
  BY <1>3, <1>4 DEF Kept
<1>6. ASSUME NEW i \in DOMAIN w, About(w[i]) \in DOMAIN FileSize
      PROVE  FileSize[About(w[i])] <= w[i].was
  <2>1. CASE i \in DOMAIN wire /\ w[i] = wire[i]
    BY <1>6, <2>1 DEF Dated
  <2>2. CASE Brings(f, w[i])
    <3>1. w[i].was = size[About(w[i])]
      BY <1>6, <2>2 DEF Brings, SizeNow
    <3>2. QED BY <1>6, <3>1 DEF Lengths
  <2>3. QED BY <1>3, <2>1, <2>2
<1>7. Dated(w)
  BY <1>6 DEF Dated
<1>8. QED BY <1>5, <1>7 DEF w, g

\* A handler that lists nothing and promises nothing new.
LEMMA SizeStays ==
  ASSUME IInv, UNCHANGED <<list, size, promised>>,
         Kept(fs', net', size, promised), Dated(net')
  PROVE  SizeIInv'
<1>1. Sizes'
  BY DEF IInv, SizeIInv, Sizes
<1>2. QED BY <1>1 DEF IInv, SizeIInv

\* What the invariant says of the sizes.
LEMMA SizeFacts ==
  ASSUME IInv
  PROVE  /\ Lengths(size) /\ promised \in Nat /\ Kept(fs, net, size, promised) /\ Dated(net)
         /\ SoundTransfer(fs) /\ SoundRead(fs) /\ OtherTypes
BY DEF IInv, SizeIInv, ListIInv, OtherTypes, FileIInv, SoundFile

\* What is promised of a file is no more than any size it is known by.
LEMMA PromiseIs ==
  ASSUME OtherTypes, NEW name
  PROVE  /\ Promise(name) \in Nat /\ Promise(name) <= SizeNow(name)
         /\ \A i \in DOMAIN list : list[i].name = name => Promise(name) <= list[i].size
         /\ \A i \in DOMAIN net : net[i].verb = "FILEREAD" /\ net[i].arg = name
                                    => Promise(name) <= net[i].was
<1> DEFINE told  == {list[i].size : i \in {k \in DOMAIN list : list[k].name = name}}
           late  == {net[i].was : i \in {k \in DOMAIN net :
                                   net[k].verb = "FILEREAD" /\ net[k].arg = name}}
           known == {SizeNow(name)} \cup told \cup late
<1>1. SizeNow(name) \in Nat
  BY DEF SizeNow, OtherTypes, Lengths
<1>2. told \subseteq Nat
  <2>2. ASSUME NEW i \in DOMAIN list PROVE list[i].size \in Nat
    <3>1. list[i] \in [name : DOMAIN FileSize, size : Nat]
      BY EntryIs
    <3>2. QED BY <3>1
  <2>3. QED BY <2>2
<1>3. late \subseteq Nat
  <2>1. net \in Seq(Requests)
    BY DEF OtherTypes
  <2>2. ASSUME NEW i \in DOMAIN net PROVE net[i].was \in Nat
    <3>1. net[i] \in Requests
      BY <2>1, ElementOfSeq
    <3>2. QED BY <3>1 DEF Requests
  <2>3. QED BY <2>2
<1>4. known \in SUBSET Nat /\ known # {} /\ SizeNow(name) \in known
  BY <1>1, <1>2, <1>3
<1>5. /\ \A i \in DOMAIN list : list[i].name = name => list[i].size \in known
      /\ \A i \in DOMAIN net : net[i].verb = "FILEREAD" /\ net[i].arg = name
                                 => net[i].was \in known
  OBVIOUS
<1>6. Promise(name) = CHOOSE n \in known : \A m \in known : n <= m
  BY DEF Promise
<1> HIDE DEF known
<1>7. \E n \in known : \A m \in known : n <= m
  BY <1>4, Least
<1>8. Promise(name) \in known /\ \A m \in known : Promise(name) <= m
  BY <1>6, <1>7
<1>9. QED BY <1>4, <1>5, <1>8

\* A listing that begins: nothing is promised.
LEMMA ListFilesSize ==
  ASSUME IInv, NEW p \in Patterns, NEW force \in BOOLEAN, ListFiles(p, force)
  PROVE  SizeIInv'
<1> DEFINE f == Begin("listing", p, -1)
<1>1. PICK o \in Outcomes(f, linkUp, net) : fs' = o.fs /\ net' = o.net
  BY DEF ListFiles
<1>2. list' = <<>> /\ size' = size /\ promised' = 0
  BY DEF ListFiles
<1>3. /\ f \in Transfers /\ f.state = "listing" /\ f.arg = p /\ f.received = 0
      /\ f.retries = 0 /\ ~f.waiting /\ ~f.paused
  BY BeginFields
<1> HIDE DEF f
<1>4. p \notin Names /\ p \notin DOMAIN FileSize
  BY Arguments
<1>5. SoundTransfer(f) /\ SoundRead(f)
  BY <1>3, <1>4, Bounds DEF SoundTransfer, SoundRead
<1>6. Kept(f, net, size, 0)
  <2>1. ASSUME NEW i \in DOMAIN net PROVE ~(net[i].verb = "FILEREAD" /\ net[i].arg = p)
    <3>1. net[i] \in Requests
      BY SizeFacts, ElementOfSeq DEF OtherTypes
    <3>2. QED BY <1>4, <3>1 DEF Requests
  <2>2. QED BY <1>3, <1>4, <2>1 DEF Kept
<1>7. Kept(o.fs, o.net, size, 0) /\ Dated(o.net)
  BY <1>5, <1>6, KeptTicks, SizeFacts, Wire
<1>8. Sizes'
  BY <1>2 DEF Sizes
<1>9. QED BY <1>1, <1>2, <1>7, <1>8 DEF SizeIInv

\* A read that begins: what the file has is promised, as far as it is known.
LEMMA ReadFileSize ==
  ASSUME IInv, NEW name \in Names, NEW force \in BOOLEAN, ReadFile(name, force)
  PROVE  SizeIInv'
<1>1. list' = list /\ size' = size
  BY DEF ReadFile
<1>2. CASE fs' = TooBig(fs) /\ UNCHANGED <<net, taken, promised>>
  <2>1. /\ fs'.arg = fs.arg /\ fs'.received = fs.received /\ fs'.state = "failed"
    BY <1>2, SizeFacts DEF TooBig, SoundTransfer, Transfers
  <2>2. Kept(fs', net', size, promised)
    BY <1>2, <2>1, KeptSame, SizeFacts
  <2>3. QED BY <1>1, <1>2, <2>2, SizeFacts, SizeStays
<1>3. ASSUME NEW o \in Outcomes(Begin("reading", name, Listed(name)), linkUp, net),
             fs' = o.fs, net' = o.net, promised' = Promise(name)
      PROVE  SizeIInv'
  <2> DEFINE f == Begin("reading", name, Listed(name))
             n == Promise(name)
  <2>1. \/ Listed(name) = -1
        \/ \E i \in DOMAIN list : /\ list[i].name = name /\ name \in DOMAIN FileSize
                                  /\ list[i].size \in Nat /\ Listed(name) = list[i].size
    BY ListedIs, SizeFacts
  <2>2. Listed(name) \in Nat \cup {-1}
    BY <2>1
  <2>3. /\ f \in Transfers /\ f.state = "reading" /\ f.arg = name /\ f.block = 0
        /\ f.size = Listed(name) /\ f.received = 0 /\ f.retries = 0 /\ ~f.waiting /\ ~f.paused
    BY <2>2, BeginFields
  <2>4. o \in Outcomes(f, linkUp, net)
    OBVIOUS
  <2> HIDE DEF f
  <2>5. SoundTransfer(f) /\ SoundRead(f)
    <3>1. 0 * BlockSize = 0
      BY Bounds
    <3>2. QED BY <2>3, <3>1, Bounds, Arguments DEF SoundTransfer, SoundRead
  <2>6. /\ n \in Nat /\ n <= SizeNow(name)
        /\ \A i \in DOMAIN list : list[i].name = name => n <= list[i].size
        /\ \A i \in DOMAIN net : net[i].verb = "FILEREAD" /\ net[i].arg = name
                                   => n <= net[i].was
    BY SizeFacts, PromiseIs
  <2> HIDE DEF n
  <2>7. f.size # -1 => n <= f.size
    BY <2>1, <2>3, <2>6
  <2>8. name \in DOMAIN FileSize => n <= size[name] /\ 0 <= size[name]
    BY <2>6, SizeFacts DEF SizeNow, Lengths
  <2>9. name \notin DOMAIN FileSize => n = 0
    BY <2>6 DEF SizeNow
  <2>10. Kept(f, net, size, n)
    BY <2>3, <2>6, <2>7, <2>8, <2>9 DEF Kept
  <2>11. Kept(o.fs, o.net, size, n) /\ Dated(o.net)
    BY <2>4, <2>5, <2>6, <2>10, KeptTicks, SizeFacts, Wire
  <2>12. Sizes'
    BY <1>1 DEF IInv, SizeIInv, Sizes
  <2>13. QED BY <1>1, <1>3, <2>6, <2>11, <2>12 DEF SizeIInv, n
<1>4. QED BY <1>2, <1>3 DEF ReadFile

\* A transfer given up.
LEMMA GiveUpSize ==
  ASSUME IInv, CancelTransfer \/ \E on \in BOOLEAN : SetEnabled(on)
  PROVE  SizeIInv'
<1>1. UNCHANGED <<list, size, promised, net>> /\ (fs' = fs \/ fs' = Cancel(fs))
  BY DEF CancelTransfer, SetEnabled
<1>2. Kept(Cancel(fs), net, size, promised)
  <2>1. CASE ~Busy(fs)
    BY <2>1, SizeFacts DEF Cancel
  <2>2. CASE Busy(fs)
    <3> DEFINE g == Finish(fs, "failed", "cancelled")
    <3>1. Same(fs, g) /\ g.state = "failed"
      BY SizeFacts, FinishKeeps DEF SoundTransfer, Errors
    <3>2. Cancel(fs) = g
      BY <2>2 DEF Cancel
    <3> HIDE DEF g
    <3>3. Kept(g, net, size, promised)
      BY <3>1, KeptSame, SizeFacts DEF Same
    <3>4. QED BY <3>2, <3>3
  <2>3. QED BY <2>1, <2>2
<1>3. Kept(fs', net', size, promised) /\ Dated(net')
  BY <1>1, <1>2, SizeFacts
<1>4. QED BY <1>1, <1>3, SizeStays

\* Bytes taken by the web server.
LEMMA TakeSize ==
  ASSUME IInv, Take
  PROVE  SizeIInv'
<1>1. UNCHANGED <<list, size, promised>>
  BY DEF Take
<1>2. CASE fs' = fs /\ net' = net
  BY <1>1, <1>2, SizeFacts, SizeStays
<1>3. ASSUME NEW o \in Outcomes(Resume(fs), linkUp, net), fs' = o.fs, net' = o.net
      PROVE  SizeIInv'
  <2> DEFINE g == Resume(fs)
  <2>1. SoundTransfer(g) /\ SoundRead(g) /\ Same(fs, g) /\ g.state = fs.state
    BY SizeFacts, ResumeKeeps
  <2>2. o \in Outcomes(g, linkUp, net)
    OBVIOUS
  <2> HIDE DEF g
  <2>3. Kept(g, net, size, promised)
    BY <2>1, KeptSame, SizeFacts DEF Same
  <2>4. Kept(o.fs, o.net, size, promised) /\ Dated(o.net)
    BY <2>1, <2>2, <2>3, KeptTicks, SizeFacts, Wire
  <2>5. QED BY <1>1, <1>3, <2>4, SizeStays
<1>4. QED BY <1>2, <1>3 DEF Take

\* An entry that arrives is of a file as it has been since it was asked about.
LEMMA EntrySize ==
  ASSUME IInv, EntryArrives
  PROVE  SizeIInv'
<1>0. PICK had \in Had(Head(net)) :
        LET e == Entry(Head(net), had)
        IN  /\ list' = IF TakesEntry(fs, e) THEN Keep(e) ELSE list
            /\ \E o \in Outcomes(OnEntry(fs, e), linkUp, Tail(net)) :
                 fs' = o.fs /\ net' = o.net
  BY DEF EntryArrives
<1> DEFINE q == Head(net)
           e == Entry(q, had)
           f == OnEntry(fs, e)
<1>1. PICK o \in Outcomes(f, linkUp, Tail(net)) : fs' = o.fs /\ net' = o.net
  BY <1>0
<1>2. /\ net # <<>> /\ q.verb = "FDFILES" /\ size' = size /\ promised' = promised
  BY DEF EntryArrives
<1>3. list' = IF TakesEntry(fs, e) THEN Keep(e) ELSE list
  BY <1>0
<1>4. /\ q \in Requests /\ Tail(net) \in Seq(Requests) /\ Len(Tail(net)) <= NetBound
      /\ linkUp \in BOOLEAN /\ Lengths(size)
  BY <1>2, SizeFacts, Wire
<1>5. /\ had \in Nat
      /\ About(q) \in DOMAIN FileSize =>
           FileSize[About(q)] <= had /\ had <= size[About(q)]
  BY <1>2, HadFacts
<1>6. /\ \A i \in DOMAIN Keep(e) :
           \/ i \in DOMAIN list /\ Keep(e)[i] = list[i]
           \/ ~e.last /\ Keep(e)[i].name = About(q) /\ Keep(e)[i].size = had
      /\ ~e.last => About(q) \in DOMAIN FileSize
  <2>1. ~e.last => e.name \in DOMAIN FileSize /\ e.name = About(q)
    BY <1>2, <1>4, <1>5, EntryFacts
  <2>2. \A i \in DOMAIN Keep(e) :
           \/ i \in DOMAIN list /\ Keep(e)[i] = list[i]
           \/ ~e.last /\ Keep(e)[i].name = About(q) /\ Keep(e)[i].size = had
    BY <1>2, <1>4, <1>5, SizeFacts, KeepFacts
  <2>3. QED BY <2>1, <2>2
<1> HIDE DEF e
<1>7. /\ SoundTransfer(f) /\ SoundRead(f) /\ f.arg = fs.arg /\ f.received = fs.received
      /\ ~TakesEntry(fs, e) => f = fs
      /\ TakesEntry(fs, e) => f.state # "reading"
  BY SizeFacts, OnEntryKeeps
<1> HIDE DEF f, q
<1>8. Kept(f, net, size, promised)
  <2>1. f.state = "reading" => f = fs
    BY <1>7
  <2>2. QED BY <1>7, <2>1, KeptSame, SizeFacts
<1>9. Kept(f, Tail(net), size, promised) /\ Dated(Tail(net))
  BY <1>2, <1>8, KeptTail, SizeFacts
<1>10. Kept(o.fs, o.net, size, promised) /\ Dated(o.net)
  BY <1>4, <1>7, <1>9, KeptTicks, SizeFacts
<1>11. Sizes'
  <2>1. Sizes
    BY DEF IInv, SizeIInv
  <2> DEFINE k == Keep(e)
  <2>2. ASSUME NEW i \in DOMAIN k
        PROVE  FileSize[k[i].name] <= k[i].size /\ k[i].size <= size[k[i].name]
    <3>1. CASE i \in DOMAIN list /\ k[i] = list[i]
      BY <2>1, <3>1 DEF Sizes
    <3>2. CASE ~e.last /\ k[i].name = About(q) /\ k[i].size = had
      BY <1>5, <1>6, <3>2
    <3>3. QED BY <1>6, <3>1, <3>2
  <2> HIDE DEF k
  <2>3. list' = k \/ list' = list
    BY <1>3 DEF k
  <2>4. QED BY <1>2, <2>1, <2>2, <2>3 DEF Sizes
<1>12. QED BY <1>1, <1>2, <1>10, <1>11, SizeFacts DEF SizeIInv

\* A block that arrives is of the file as it has been since it was asked for.
LEMMA BlockSizes ==
  ASSUME IInv, NEW sumOk \in BOOLEAN, BlockArrives(sumOk)
  PROVE  SizeIInv'
<1>0. PICK had \in Had(Head(net)) :
        LET b == BlockOf(Head(net), had, sumOk)
            room == b.n = 0 \/ HasRoom(ring, b.n)
        IN  \E o \in Outcomes(OnBlock(fs, b, room), linkUp, Tail(net)) :
              fs' = o.fs /\ net' = o.net
  BY DEF BlockArrives
<1> DEFINE q == Head(net)
           b == BlockOf(q, had, sumOk)
           room == b.n = 0 \/ HasRoom(ring, b.n)
           f == OnBlock(fs, b, room)
<1>1. PICK o \in Outcomes(f, linkUp, Tail(net)) : fs' = o.fs /\ net' = o.net
  BY <1>0
<1>2. net # <<>> /\ q.verb = "FILEREAD" /\ UNCHANGED <<list, size, promised>>
  BY DEF BlockArrives
<1>3. SoundFile(fs, ring, taken) /\ promised \in Nat
  BY SizeFacts DEF IInv, FileIInv
<1>4. /\ q \in Requests /\ Tail(net) \in Seq(Requests) /\ Len(Tail(net)) <= NetBound
      /\ linkUp \in BOOLEAN /\ Lengths(size)
  BY <1>2, SizeFacts, Wire
<1>5. /\ had \in Nat /\ (q.arg = fs.arg => promised <= had)
      /\ q.arg \in DOMAIN FileSize => had <= size[q.arg]
  BY <1>2, HadFacts
<1>6. SoundTransfer(f) /\ SoundRead(f) /\ Answered(fs, f, q, had)
  <2> DEFINE r == IF TakesBlock(fs, b) /\ room THEN Put(ring, b) ELSE ring
  <2>1. room \in BOOLEAN
    BY DEF HasRoom
  <2>2. room <=> b.n = 0 \/ HasRoom(ring, b.n)
    OBVIOUS
  <2> HIDE DEF room, q
  <2>3. SoundFile(f, r, taken) /\ Answered(fs, f, q, had)
    BY <1>2, <1>3, <1>4, <1>5, <2>1, <2>2, BlockKeeps
  <2> HIDE DEF f, r
  <2>4. QED BY <2>3 DEF SoundFile
<1> HIDE DEF f, q
<1>7. Kept(f, net, size, promised)
  <2>1. f.arg = fs.arg
    BY <1>6 DEF Answered
  <2>2. CASE /\ f.received = fs.received /\ f.size = fs.size
             /\ f.state = fs.state \/ (Busy(fs) /\ f.state = "failed")
    BY <2>1, <2>2, KeptSame, SizeFacts
  <2>3. CASE /\ fs.state = "reading" /\ fs.arg \in DOMAIN FileSize /\ q.arg = fs.arg
             /\ f.received = fs.received \/ f.received <= had
             /\ f.size = IF fs.size = -1 THEN had ELSE fs.size
    <3>1. had <= size[fs.arg] /\ promised <= had
      BY <1>5, <2>3
    <3>2. fs.received <= size[fs.arg] /\ promised <= size[fs.arg]
          /\ (fs.size # -1 => promised <= fs.size)
      BY <2>3, SizeFacts DEF Kept
    <3>3. size[fs.arg] \in Nat /\ f.received \in Nat
      BY <1>4, <1>6, <2>3 DEF Lengths, SoundTransfer, Transfers
    <3>4. f.received <= size[fs.arg]
      BY <1>5, <2>3, <3>1, <3>2, <3>3
    <3>5. promised <= f.size
      BY <2>3, <3>1, <3>2
    <3>6. QED BY <2>1, <2>3, <3>2, <3>4, <3>5, SizeFacts DEF Kept
  <2>4. QED BY <1>6, <2>2, <2>3 DEF Answered
<1>8. Kept(f, Tail(net), size, promised) /\ Dated(Tail(net))
  BY <1>2, <1>7, KeptTail, SizeFacts
<1>9. Kept(o.fs, o.net, size, promised) /\ Dated(o.net)
  BY <1>3, <1>4, <1>6, <1>8, KeptTicks
<1>10. QED BY <1>1, <1>2, <1>9, SizeStays

\* A request that is lost.
LEMMA LostSize ==
  ASSUME IInv, Lost
  PROVE  SizeIInv'
<1>1. net # <<>> /\ net' = Tail(net) /\ fs' = fs /\ UNCHANGED <<list, size, promised>>
  BY DEF Lost
<1>2. Kept(fs', net', size, promised) /\ Dated(net')
  BY <1>1, KeptTail, SizeFacts
<1>3. QED BY <1>1, <1>2, SizeStays

\* A pass of the main loop.
LEMMA TickSize ==
  ASSUME IInv, NEW up \in BOOLEAN, NEW run \in BOOLEAN, MainTick(up, run)
  PROVE  SizeIInv'
<1> DEFINE f == IF Abandoned(fs, ring) THEN Cancel(fs) ELSE fs
<1>1. PICK o \in Outcomes(f, up, net) : fs' = o.fs /\ net' = o.net
  BY DEF MainTick
<1>2. UNCHANGED <<list, size, promised>>
  BY DEF MainTick
<1>3. SoundTransfer(f) /\ SoundRead(f) /\ Kept(f, net, size, promised)
  <2>1. CASE Abandoned(fs, ring)
    <3> DEFINE g == Finish(fs, "failed", "cancelled")
    <3>1. Same(fs, g) /\ g.state = "failed"
      BY SizeFacts, FinishKeeps DEF SoundTransfer, Errors
    <3>2. SoundTransfer(g) /\ SoundRead(g)
      BY SizeFacts, EndsSound DEF SoundTransfer, Errors
    <3>3. f = g
      BY <2>1 DEF Abandoned, Cancel
    <3> HIDE DEF f, g
    <3>4. Kept(g, net, size, promised)
      BY <3>1, KeptSame, SizeFacts DEF Same
    <3>5. QED BY <3>2, <3>3, <3>4
  <2>2. CASE ~Abandoned(fs, ring)
    BY <2>2, SizeFacts
  <2>3. QED BY <2>1, <2>2
<1> HIDE DEF f
<1>4. Kept(o.fs, o.net, size, promised) /\ Dated(o.net)
  BY <1>3, KeptTicks, SizeFacts, Wire
<1>5. QED BY <1>1, <1>2, <1>4, SizeStays

\* Time that goes on.
LEMMA TimeSize ==
  ASSUME IInv, Time
  PROVE  SizeIInv'
<1> DEFINE g == Older(fs)
<1>1. (fs' = g \/ fs' = fs) /\ net' = net /\ UNCHANGED <<list, size, promised>>
  BY DEF Time
<1>2. Same(fs, g) /\ g.state = fs.state
  BY SizeFacts, OlderKeeps
<1> HIDE DEF g
<1>3. Kept(g, net, size, promised)
  BY <1>2, KeptSame, SizeFacts DEF Same
<1>4. Kept(fs', net', size, promised) /\ Dated(net')
  BY <1>1, <1>3, SizeFacts
<1>5. QED BY <1>1, <1>4, SizeStays

\* A file that grows keeps all that was promised of it, and listed.
LEMMA Grows ==
  ASSUME IInv, NEW f \in DOMAIN FileSize, Grow(f)
  PROVE  IInv' /\ Polite
<1>1. /\ size' = [size EXCEPT ![f] = size[f] + 1]
      /\ UNCHANGED <<fs, enabled, linkUp, running, ring, idle, list, listValid,
                     net, taken, mixed, promised>>
  BY DEF Grow
<1>2. size \in [DOMAIN FileSize -> Nat] /\ \A g \in DOMAIN FileSize : FileSize[g] <= size[g]
  BY SizeFacts DEF Lengths
<1>3. /\ size' \in [DOMAIN FileSize -> Nat]
      /\ \A g \in DOMAIN FileSize : size[g] <= size'[g] /\ size'[g] \in Nat /\ size[g] \in Nat
  BY <1>1, <1>2
<1>4. Lengths(size')
  <2>1. \A g \in DOMAIN FileSize : FileSize[g] \in Nat
    BY Arguments
  <2>2. \A g \in DOMAIN FileSize : FileSize[g] <= size'[g]
    BY <1>2, <1>3, <2>1
  <2>3. QED BY <1>3, <2>2 DEF Lengths
<1>5. FileIInv'
  BY <1>1 DEF IInv, FileIInv
<1>6. ListIInv'
  <2>1. OtherTypes'
    BY <1>1, <1>4 DEF IInv, ListIInv, OtherTypes
  <2>2. SoundListing(fs, list, net) => SoundListing(fs', list', net')
    BY <1>1
  <2>3. QED BY <1>1, <2>1, <2>2, ListStays
<1>7. SizeIInv'
  <2>1. ASSUME NEW i \in DOMAIN list
        PROVE  FileSize[list[i].name] <= list[i].size /\ list[i].size <= size'[list[i].name]
    <3>1. list[i] \in [name : DOMAIN FileSize, size : Nat]
      BY SizeFacts, EntryIs
    <3>2. FileSize[list[i].name] <= list[i].size /\ list[i].size <= size[list[i].name]
      BY DEF IInv, SizeIInv, Sizes
    <3> DEFINE g == list[i].name
               z == list[i].size
    <3>3. g \in DOMAIN FileSize /\ z \in Nat /\ FileSize[g] <= z /\ z <= size[g]
      BY <3>1, <3>2
    <3> HIDE DEF g, z
    <3>4. z <= size'[g]
      BY <1>3, <3>3
    <3>5. QED BY <3>3, <3>4 DEF g, z
  <2>2. Sizes'
    BY <1>1, <2>1 DEF Sizes
  <2>3. Kept(fs, net, size', promised)
    <3> DEFINE n == promised
               R == fs.received
    <3>1. n \in Nat /\ R \in Nat /\ Kept(fs, net, size, n)
      BY SizeFacts DEF SoundTransfer, Transfers
    <3>2. fs.arg \in DOMAIN FileSize => n <= size[fs.arg] /\ R <= size[fs.arg]
      BY <3>1 DEF Kept
    <3> HIDE DEF n, R
    <3>3. fs.arg \in DOMAIN FileSize => n <= size'[fs.arg] /\ R <= size'[fs.arg]
      BY <1>3, <3>1, <3>2
    <3>4. QED BY <3>1, <3>3 DEF Kept, n, R
  <2>4. QED BY <1>1, <2>2, <2>3, SizeFacts DEF SizeIInv
<1>8. Polite
  BY <1>1 DEF Polite, Asked
<1>9. QED BY <1>5, <1>6, <1>7, <1>8 DEF IInv

-----------------------------------------------------------------------------
(***************************************************************************)
(* The invariant                                                           *)
(***************************************************************************)

\* The initial states satisfy the inductive invariant.
LEMMA Initial == Init => IInv
<1> SUFFICES ASSUME Init PROVE IInv
  OBVIOUS
<1>1. /\ fs = Init0 /\ ring = [buf |-> NoBuf, head |-> 0, len |-> 0, ended |-> FALSE]
      /\ taken = <<>> /\ list = <<>> /\ net = <<>> /\ listValid = FALSE /\ mixed = FALSE
      /\ enabled \in BOOLEAN /\ linkUp = FALSE /\ running = FALSE /\ idle = 0
      /\ size = FileSize /\ promised = 0
  BY DEF Init
<1>2. fs \in Transfers
  BY <1>1, Bounds DEF Init0, Transfers
<1>3. /\ fs.state = "idle" /\ fs.arg = NoName /\ fs.received = 0
      /\ fs.waiting = FALSE /\ fs.paused = FALSE /\ fs.retries = 0
  BY <1>1 DEF Init0
<1>4. ~fs.waiting /\ ~fs.paused /\ ~Busy(fs)
  BY <1>3 DEF Busy
<1>5. SoundTransfer(fs)
  BY <1>2, <1>3, <1>4 DEF SoundTransfer
<1>6. fs.arg \notin Names /\ fs.arg \notin DOMAIN FileSize
  BY <1>3, Arguments DEF Names
<1>7. SoundRead(fs)
  BY <1>3, <1>6 DEF SoundRead
<1>8. taken \in Seq(Names \X Nat) /\ Len(taken) = 0 /\ Beginning(fs, taken)
  <2>1. <<>> \in Seq(Names \X Nat) /\ Len(<<>>) = 0
    OBVIOUS
  <2>2. QED BY <1>1, <1>3, <2>1 DEF Beginning
<1>9. ring \in Rings /\ ring.buf = NoBuf /\ ring.len = 0
  <2>1. FALSE \in BOOLEAN /\ 0 \in 0 .. RingCap - 1 /\ 0 \in 0 .. RingCap
    BY Bounds
  <2>2. QED BY <1>1, <2>1 DEF Rings
<1>10. SoundRing(fs, ring, taken)
  BY <1>1, <1>3, <1>4, <1>9, NoRing
<1>11. FileIInv
  BY <1>4, <1>5, <1>7, <1>8, <1>10 DEF FileIInv, SoundFile
<1>12. OtherTypes
  <2>1. /\ <<>> \in Seq([name : DOMAIN FileSize, size : Nat]) /\ <<>> \in Seq(Requests)
        /\ Len(<<>>) = 0
    OBVIOUS
  <2>2. 0 \in 0 .. IdleMs + 1 /\ 0 <= ListMax /\ 0 <= NetBound
    BY Bounds
  <2>3. Lengths(size)
    <3>1. FileSize \in [DOMAIN FileSize -> Nat]
      BY DryerFilesAssumption
    <3>2. \A f \in DOMAIN FileSize : FileSize[f] <= FileSize[f]
      BY Arguments
    <3>3. QED BY <1>1, <3>1, <3>2 DEF Lengths
  <2>4. QED BY <1>1, <2>1, <2>2, <2>3 DEF OtherTypes
<1>13. Sizes /\ Dated(net) /\ ~listValid /\ fs.state # "listing"
  BY <1>1, <1>3 DEF Sizes, Dated
<1>14. Kept(fs, net, size, promised)
  BY <1>1, <1>3, <1>6 DEF Kept
<1>15. SizeIInv
  BY <1>1, <1>13, <1>14 DEF SizeIInv
<1>16. QED BY <1>11, <1>12, <1>13, <1>15 DEF IInv, ListIInv

\* A step that changes nothing keeps the invariant.
LEMMA Stutters == IInv /\ UNCHANGED vars => IInv'
<1> SUFFICES ASSUME IInv, UNCHANGED vars PROVE IInv'
  OBVIOUS
<1>1. OtherTypes'
  BY DEF IInv, ListIInv, OtherTypes, vars
<1>2. SoundListing(fs, list, net) => SoundListing(fs', list', net')
  BY DEF vars
<1>3. ListIInv'
  BY <1>1, <1>2, ListStays DEF vars
<1>4. FileIInv'
  BY DEF IInv, FileIInv, vars
<1>5. SizeIInv'
  BY SizeFacts, SizeStays DEF vars
<1>6. QED BY <1>3, <1>4, <1>5 DEF IInv

\* Every step keeps the inductive invariant: one case per action.
LEMMA Inductive == IInv /\ [Next]_vars => IInv'
<1> SUFFICES ASSUME IInv, [Next]_vars PROVE IInv'
  OBVIOUS
<1>1. ASSUME NEW p \in Patterns, NEW force \in BOOLEAN, ListFiles(p, force) PROVE IInv'
  BY <1>1, ListFilesFile, ListFilesList, ListFilesSize DEF IInv
<1>2. ASSUME NEW f \in Names, NEW force \in BOOLEAN, ReadFile(f, force) PROVE IInv'
  BY <1>2, ReadFileFile, ReadFileList, ReadFileSize DEF IInv
<1>3. CASE CancelTransfer \/ \E on \in BOOLEAN : SetEnabled(on)
  BY <1>3, GiveUpFile, GiveUpList, GiveUpSize DEF IInv
<1>4. CASE Take
  BY <1>4, TakeFile, TakeList, TakeSize DEF IInv
<1>5. CASE EntryArrives
  BY <1>5, EntryFile, EntryList, EntrySize DEF IInv
<1>6. ASSUME NEW sumOk \in BOOLEAN, BlockArrives(sumOk) PROVE IInv'
  BY <1>6, BlockFile, BlockList, BlockSizes DEF IInv
<1>7. CASE Lost
  <2>1. FileIInv'
    BY <1>7 DEF IInv, FileIInv, Lost
  <2>2. QED BY <1>7, <2>1, LostList, LostSize DEF IInv
<1>8. ASSUME NEW up \in BOOLEAN, NEW run \in BOOLEAN, MainTick(up, run) PROVE IInv'
  BY <1>8, TickFile, TickList, TickSize DEF IInv
<1>9. CASE Time
  BY <1>9, TimeFile, TimeList, TimeSize DEF IInv
<1>10. ASSUME NEW f \in DOMAIN FileSize, Grow(f) PROVE IInv'
  BY <1>10, Grows
<1>11. CASE UNCHANGED vars
  BY <1>11, Stutters
<1>12. QED
  BY <1>1, <1>2, <1>3, <1>4, <1>5, <1>6, <1>7, <1>8, <1>9, <1>10, <1>11 DEF Next

(* The inductive invariant holds of every state.                           *)
THEOREM InductiveInvariant == Spec => []IInv
BY Initial, Inductive, PTL DEF Spec

(* The transfer and its ring agree in every state, whichever of the three   *)
(* tasks moved last (hr_dryerfiles.c, cb_data, cb_done, take).             *)
THEOREM RingAlwaysSound == Spec => []RingSound
<1>1. IInv => RingSound
  <2> SUFFICES ASSUME IInv PROVE RingSound
    OBVIOUS
  <2>1. TypeOK
    <3>1. ring.buf = NoBuf \/ DOMAIN ring.buf = 0 .. RingCap - 1
      BY DEF IInv, FileIInv, SoundFile, SoundRing, Rings
    <3>2. /\ ring.head \in 0 .. RingCap - 1 /\ ring.len \in 0 .. RingCap
          /\ ring.ended \in BOOLEAN
      BY DEF IInv, FileIInv, SoundFile, SoundRing, Rings
    <3>3. fs \in Transfers /\ taken \in Seq(Names \X Nat)
      BY DEF IInv, FileIInv, SoundFile, SoundTransfer, Beginning
    <3>4. QED BY <3>1, <3>2, <3>3, SizeFacts DEF TypeOK, IInv, ListIInv, OtherTypes, Lengths
  <2>2. ReadHasRing /\ BytesAccounted /\ PausedForRoom
    BY DEF IInv, FileIInv, SoundFile, SoundRing, ReadHasRing, BytesAccounted, PausedForRoom
  <2>3. QED BY <2>1, <2>2 DEF RingSound
<1>2. QED BY <1>1, InductiveInvariant, PTL

(* A listing reported as whole is the dryer's, in its order and cut only at  *)
(* the length of the table, however many answers were late or lost         *)
(* (hr_dryerfiles.c, cb_entry, cb_done; hr_files.c, on_entry).             *)
THEOREM ListingsAreTheDryers == Spec => []ListIsTheDryers
<1>1. IInv => ListIsTheDryers
  <2> SUFFICES ASSUME IInv, listValid, ~mixed PROVE WholeListing
    BY DEF ListIsTheDryers
  <2>1. PICK p \in Patterns : /\ fs.arg \in Patterns => p = fs.arg
                             /\ FirstOf(p, Len(Matches[p]), list)
    BY DEF IInv, ListIInv, WholeNames
  <2> DEFINE m == Matches[p]
             n == IF Len(m) < ListMax THEN Len(m) ELSE ListMax
  <2>2. Len(list) = n /\ \A i \in 1 .. n : list[i].name = m[i]
    BY <2>1 DEF FirstOf
  <2>3. ASSUME NEW i \in 1 .. n PROVE list[i].size \in FileSize[m[i]] .. size[m[i]]
    <3>1. i \in DOMAIN list /\ list[i].name = m[i]
      BY <2>2, SizeFacts DEF OtherTypes
    <3>2. list[i] \in [name : DOMAIN FileSize, size : Nat]
      BY <3>1, SizeFacts, EntryIs
    <3>3. FileSize[m[i]] <= list[i].size /\ list[i].size <= size[m[i]]
      BY <3>1 DEF IInv, SizeIInv, Sizes
    <3>4. FileSize[m[i]] \in Nat /\ size[m[i]] \in Nat
      BY <3>1, <3>2, SizeFacts, Arguments DEF Lengths
    <3>5. QED BY <3>2, <3>3, <3>4
  <2>4. QED BY <2>1, <2>2, <2>3 DEF WholeListing
<1>2. QED BY <1>1, InductiveInvariant, PTL

LEMMA PoliteSteps == IInv /\ [Next]_vars => Polite
<1> SUFFICES ASSUME IInv, [Next]_vars PROVE Polite
  OBVIOUS
<1>1. CASE UNCHANGED vars \/ Lost
  BY <1>1 DEF Polite, Asked, Lost, vars
<1>2. CASE Next /\ ~Lost
  BY <1>2, ListFilesFile, ReadFileFile, GiveUpFile, TakeFile, EntryFile, BlockFile,
     TickFile, TimeFile, Grows DEF Next
<1>3. QED BY <1>1, <1>2

(* Nothing is asked of the dryer while the feature is off or the link is    *)
(* down, a retry, a resumed read and the next block of a file included     *)
(* (hr_dryerfiles.c, precheck, hr_dryerfiles_set_enabled; hr_files_tick).  *)
THEOREM AsksOnlyWhenItMay == Spec => AsksOnlyWhenAllowed
<1>1. IInv /\ IInv' /\ [Next]_vars => [Asked => enabled' /\ linkUp']_vars
  <2> SUFFICES ASSUME IInv, IInv', [Next]_vars, Asked PROVE enabled' /\ linkUp'
    OBVIOUS
  <2>1. linkUp'
    BY PoliteSteps DEF Polite
  <2>2. fs'.waiting
    BY DEF Asked
  <2>3. Busy(fs')
    BY <2>2 DEF IInv, FileIInv, SoundFile, SoundTransfer
  <2>4. QED BY <2>1, <2>3 DEF IInv, FileIInv
<1>2. QED BY <1>1, InductiveInvariant, PTL DEF Spec, AsksOnlyWhenAllowed

-----------------------------------------------------------------------------
(***************************************************************************)
(* What the browser is given: every step is a step of FileFetch.           *)
(***************************************************************************)

\* The initial states are initial states of FileFetch.
LEMMA FetchInitial == Init => Fetch!Init
<1> SUFFICES ASSUME Init PROVE Fetch!Init
  OBVIOUS
<1>1. fs.arg = NoName /\ taken = <<>>
  BY DEF Init, Init0
<1>2. fs.arg \notin Names
  BY <1>1, Arguments
<1>3. size \in [DOMAIN FileSize -> Nat] /\ promised = 0
  BY DryerFilesAssumption DEF Init
<1>4. QED BY <1>1, <1>2, <1>3 DEF Fetch!Init

\* Only a file that grows, and a transfer that begins, change what FileFetch sees of them.
LEMMA Unchanging ==
  ASSUME CancelTransfer \/ (\E on \in BOOLEAN : SetEnabled(on)) \/ Take \/ EntryArrives
           \/ (\E sumOk \in BOOLEAN : BlockArrives(sumOk)) \/ Lost
           \/ (\E up, run \in BOOLEAN : MainTick(up, run)) \/ Time
  PROVE  size' = size /\ promised' = promised
BY DEF CancelTransfer, SetEnabled, Take, EntryArrives, BlockArrives, Lost, MainTick, Time

\* A read that promises anything begins.
LEMMA ReadBegins ==
  ASSUME IInv, NEW name \in Names, NEW force \in BOOLEAN, ReadFile(name, force),
         ~Begins(name)
  PROVE  promised' = promised
<1>1. CASE UNCHANGED <<net, taken, promised>>
  BY <1>1
<1>2. ASSUME NEW o \in Outcomes(Begin("reading", name, Listed(name)), linkUp, net),
             fs' = o.fs, taken' = <<>>
      PROVE  Begins(name)
  <2> DEFINE f == Begin("reading", name, Listed(name))
  <2>1. Listed(name) \in Nat \cup {-1}
    BY ListedIs, SizeFacts
  <2>2. /\ f \in Transfers /\ f.state = "reading" /\ f.arg = name /\ f.block = 0
        /\ f.received = 0 /\ f.retries = 0 /\ ~f.waiting /\ ~f.paused
    BY <2>1, BeginFields
  <2>3. o \in Outcomes(f, linkUp, net)
    OBVIOUS
  <2> HIDE DEF f
  <2>4. SoundTransfer(f) /\ SoundRead(f)
    <3>1. 0 * BlockSize = 0
      BY Bounds
    <3>2. QED BY <2>2, <3>1, Bounds, Arguments DEF SoundTransfer, SoundRead
  <2>5. o.fs.arg = name /\ o.fs.received = 0 /\ o.fs.state \in {"reading", "failed"}
    BY <2>2, <2>3, <2>4, TickFacts, SizeFacts, Wire
  <2>6. ~Busy(fs)
    BY DEF ReadFile, MayBegin
  <2>7. QED BY <1>2, <2>5, <2>6 DEF Begins
<1>3. QED BY <1>1, <1>2 DEF ReadFile

LEMMA FetchSteps == IInv /\ IInv' /\ [Next]_vars => [Fetch!Next]_Fetch!vars
<1> SUFFICES ASSUME IInv, IInv', [Next]_vars PROVE [Fetch!Next]_Fetch!vars
  OBVIOUS
<1>1. CASE Still /\ size' = size /\ promised' = promised
  <2>1. CASE fs.arg \notin Names
    BY <1>1, <2>1 DEF Still, Fetch!vars
  <2>2. CASE fs.arg \in Names /\ fs'.state = fs.state
    BY <1>1, <2>2 DEF Still, Fetch!vars
  <2>3. CASE fs.arg \in Names /\ fs'.state = "failed"
    BY <1>1, <2>3 DEF Still, Fetch!Next, Fetch!Fail
  <2>4. QED BY <1>1, <2>1, <2>2, <2>3 DEF Still
<1>2. ASSUME NEW p \in Patterns, Begins(p), size' = size, promised' = 0 PROVE Fetch!Next
  <2>1. p \notin Names
    BY Arguments
  <2>2. QED BY <1>2, <2>1 DEF Begins, Busy, Fetch!Next, Fetch!Leave
<1>3. ASSUME NEW name \in Names, Begins(name), size' = size PROVE Fetch!Next
  <2>1. name # NoName
    BY Arguments
  <2>2. promised' \in 0 .. Fetch!LengthOf(name)
    <3>1. promised' \in Nat /\ Kept(fs', net', size', promised') /\ fs'.arg = name
      BY <1>3 DEF IInv, SizeIInv, Begins
    <3>2. IF name \in DOMAIN FileSize THEN promised' <= size[name] ELSE promised' = 0
      BY <1>3, <3>1 DEF Kept
    <3>3. name \in DOMAIN FileSize => size[name] \in Nat
      BY SizeFacts DEF Lengths
    <3>4. QED BY <3>1, <3>2, <3>3 DEF Fetch!LengthOf
  <2>3. QED BY <1>3, <2>1, <2>2 DEF Begins, Busy, Fetch!Next, Fetch!Start
<1>4. CASE Arrives /\ size' = size /\ promised' = promised
  <2>1. fs.arg \in Names
    BY <1>4, Arguments DEF Arrives
  <2>2. fs'.received \in fs.received .. size[fs.arg]
    <3>1. fs'.received <= size[fs.arg] /\ fs.received <= fs'.received
      BY <1>4 DEF Arrives, IInv, SizeIInv, Kept
    <3>2. fs'.received \in Nat /\ fs.received \in Nat
      BY DEF IInv, FileIInv, SoundFile, SoundTransfer, Transfers
    <3>3. size[fs.arg] \in Nat
      BY <1>4, SizeFacts DEF Arrives, Lengths
    <3>4. QED BY <3>1, <3>2, <3>3
  <2>3. fs'.state = "done" => fs'.received >= promised
    <3>1. fs'.received \in Nat /\ promised \in Nat
      BY SizeFacts DEF IInv, FileIInv, SoundFile, SoundTransfer, Transfers
    <3>2. QED BY <1>4, <3>1 DEF Arrives
  <2>4. QED BY <1>4, <2>1, <2>2, <2>3 DEF Arrives, Fetch!Next, Fetch!Arrive
<1>5. CASE Gives /\ size' = size /\ promised' = promised
  <2>1. CASE fs.arg \notin Names
    BY <1>5, <2>1 DEF Gives, Fetch!vars
  <2>2. CASE fs.arg \in Names
    <3> DEFINE n == Len(taken')
               c == Fetch!Content(fs.arg)
    <3>1. /\ taken' \in Seq(Names \X Nat) /\ n <= fs.received
          /\ \A i \in 1 .. n : taken'[i] = <<fs.arg, i - 1>>
      BY <1>5 DEF IInv, FileIInv, SoundFile, Beginning, Gives
    <3>2. n \in Nat /\ Len(taken) \in Nat /\ fs.received \in Nat
      BY <3>1 DEF IInv, FileIInv, SoundFile, Beginning, SoundTransfer, Transfers
    <3>3. n \in Len(taken) .. fs.received
      BY <1>5, <3>1, <3>2 DEF Gives
    <3>4. PICK F \in Nat : /\ c = [i \in 1 .. F |-> <<fs.arg, i - 1>>]
                           /\ fs.received <= F
      <4>1. CASE fs.arg \in DOMAIN FileSize
        <5>1. size[fs.arg] \in Nat /\ fs.received <= size[fs.arg]
          BY <4>1, SizeFacts DEF Kept, Lengths
        <5>2. QED BY <4>1, <5>1 DEF Fetch!Content, Fetch!LengthOf
      <4>2. CASE fs.arg \notin DOMAIN FileSize
        <5>1. fs.received = 0
          BY <4>2 DEF IInv, FileIInv, SoundFile, SoundRead
        <5>2. QED BY <4>2, <5>1 DEF Fetch!Content, Fetch!LengthOf
      <4>3. QED BY <4>1, <4>2
    <3>5. taken' = SubSeq(c, 1, n)
      <4>1. c \in Seq({<<fs.arg, i>> : i \in Int}) /\ Len(c) = F
        BY <3>4
      <4>2. SubSeq(c, 1, n) = [i \in 1 .. n |-> c[i]]
        BY <3>1, <3>2, <3>4, <4>1
      <4>3. \A i \in 1 .. n : c[i] = <<fs.arg, i - 1>>
        BY <3>1, <3>2, <3>4
      <4>4. taken' = [i \in 1 .. n |-> taken'[i]]
        BY <3>1
      <4> HIDE DEF c
      <4>5. QED BY <3>1, <4>2, <4>3, <4>4
    <3>6. QED BY <1>5, <2>2, <3>3, <3>5 DEF Gives, Busy, Fetch!Next, Fetch!Give
  <2>3. QED BY <2>1, <2>2
<1>6. CASE /\ fs.arg \notin Names /\ fs'.arg = fs.arg /\ taken' = taken
           /\ size' = size /\ promised' = promised
  BY <1>6 DEF Fetch!vars
<1>7. CASE UNCHANGED vars \/ Lost
  BY <1>7 DEF Lost, vars, Fetch!vars
<1>8. ASSUME NEW p \in Patterns, NEW force \in BOOLEAN, ListFiles(p, force) PROVE Fetch!Next
  <2>1. size' = size /\ promised' = 0
    BY <1>8 DEF ListFiles
  <2>2. QED BY <1>2, <1>8, <2>1, ListFilesFile
<1>9. ASSUME NEW name \in Names, NEW force \in BOOLEAN, ReadFile(name, force)
      PROVE  [Fetch!Next]_Fetch!vars
  <2>1. size' = size
    BY <1>9 DEF ReadFile
  <2>2. CASE Begins(name)
    BY <1>3, <2>1, <2>2
  <2>3. CASE ~Begins(name)
    <3>1. promised' = promised
      BY <1>9, <2>3, ReadBegins
    <3>2. QED BY <1>1, <1>9, <2>1, <2>3, <3>1, ReadFileFile
  <2>4. QED BY <2>2, <2>3
<1>10. CASE CancelTransfer \/ \E on \in BOOLEAN : SetEnabled(on)
  BY <1>1, <1>10, Unchanging, GiveUpFile
<1>11. CASE Take
  BY <1>5, <1>11, Unchanging, TakeFile
<1>12. CASE EntryArrives
  BY <1>1, <1>6, <1>12, Unchanging, EntryFile
<1>13. ASSUME NEW sumOk \in BOOLEAN, BlockArrives(sumOk) PROVE [Fetch!Next]_Fetch!vars
  BY <1>1, <1>4, <1>13, Unchanging, BlockFile
<1>14. ASSUME NEW up \in BOOLEAN, NEW run \in BOOLEAN, MainTick(up, run)
       PROVE  [Fetch!Next]_Fetch!vars
  BY <1>1, <1>14, Unchanging, TickFile
<1>15. CASE Time
  BY <1>1, <1>15, Unchanging, TimeFile
<1>16. ASSUME NEW f \in DOMAIN FileSize, Grow(f) PROVE Fetch!Next
  BY <1>16 DEF Grow, Fetch!Next, Fetch!Grow
<1>17. QED
  BY <1>7, <1>8, <1>9, <1>10, <1>11, <1>12, <1>13, <1>14, <1>15, <1>16 DEF Next

(* What the browser takes is the beginning of the file it asked for, in     *)
(* order, nothing missing or twice, whatever the dryer appends meanwhile;  *)
(* and a read is done only with all that was promised of the file, which is *)
(* no more than it had when it was listed                                  *)
(* (hr_files.c, on_block; hr_dryerfiles.c, cb_data, hr_dryerfiles_take).    *)
THEOREM BrowserGetsTheFile == Spec => FetchesTheFile
<1>1. Init => Fetch!Init
  BY FetchInitial
<1>2. IInv /\ IInv' /\ [Next]_vars => [Fetch!Next]_Fetch!vars
  BY FetchSteps
<1>3. QED BY <1>1, <1>2, InductiveInvariant, PTL DEF Spec, FetchesTheFile, Fetch!Spec
=============================================================================
