-------------------------- MODULE BatchStoreProofs --------------------------
(***************************************************************************)
(* Proofs about BatchStore for files of any size and any number of records *)
(* and power cuts: the logbook is the end of what was written, now and     *)
(* after a restart, the newest half of it stays, and a download is in      *)
(* order.                                                                  *)
(* Assumed is what the code leaves to time: no more than one append meets  *)
(* one clear or one reopening of the store.  With two of them it fails.    *)
(***************************************************************************)
EXTENDS BatchStore, SequenceTheorems, TLAPS

-----------------------------------------------------------------------------
(***************************************************************************)
(* The inductive invariant.                                                *)
(***************************************************************************)

MainStates == [at : {"top", "init", "rotate", "switch", "read", "save", "open", "write"},
               seg : Segs, live : BOOLEAN]
WebStates  == [at : {"idle", "reading", "remove0", "remove1", "active", "read",
                     "save", "load", "init"},
               seg : Segs, live : BOOLEAN, stage : {0, 1}, pos : Nat, met : {0, 1}]

\* The types, that of the history included.
Types ==
  /\ file \in [Segs -> Seq(Pieces)] /\ nvs \in Segs \cup {NoKey}
  /\ mounted \in BOOLEAN /\ ready \in BOOLEAN /\ active \in Segs
  /\ main \in MainStates /\ web \in WebStates
  /\ got \in Seq(Pieces) /\ cuts \in 0..MaxCuts /\ done \in Seq(1..MaxRec)

Empty(s)  == file[s] = <<>>
AllEmpty  == Empty(0) /\ Empty(1)
OneEmpty  == Empty(0) \/ Empty(1)

\* Between the beginning and the end of an append
Appending == main.at \notin {"top", "init"}

\* The web server's call, once a clear or a format has removed both files
Emptied   == {"active", "read", "save", "load", "init"}
Clearing  == {"remove0", "remove1", "active", "read", "save"}

\* The records are numbered without a hole.
Numbered == \A i \in 1..Len(done) : done[i] = NextId - 1 - Len(done) + i

\* The pieces of q are numbered without a hole, and the last one is number n.
Ends(q, n) == \A k \in 1..Len(q) : q[k].id = n - Len(q) + k

\* The logbook, with s as the active segment, is the end of what was written.
Fits(s) == Ends(file[s], NextId - 1) /\ Ends(file[Other(s)], NextId - 1 - Len(file[s]))

\* No more is there than was written, and no less than the newest half.
Half == Sizes <= Len(done) /\ (Sizes = Len(done) \/ Sizes >= SegMax)

\* s_active and its key name the same file; or the key names an empty one; or
\* they are about to agree again.
Settled ==
  \/ AfterRestart = active
  \/ Empty(AfterRestart)
  \/ main.at \in {"read", "save"} /\ Empty(active)
  \/ web.at \in {"read", "save"} /\ OneEmpty

\* Without a key, the second file is the active one only while a rotation is
\* about to say so.
FirstKey == nvs = NoKey /\ active = 1 => main.at \in {"read", "save"}

\* What each step of an append relies on
SoundAppend ==
  /\ main.at = "rotate" =>
       \/ Len(file[active]) = SegMax
       \/ web.at = "remove1" /\ active = 0
       \/ AllEmpty
  /\ main.at = "switch" => Empty(main.seg) /\ (main.seg = Other(active) \/ AllEmpty)
  /\ main.at \in {"read", "save"} => Empty(active)
  /\ main.at = "save" => main.seg = active \/ AllEmpty
  /\ main.at = "open" => Len(file[active]) < SegMax
  /\ main.at = "write" /\ main.live =>
       /\ Len(file[main.seg]) < SegMax
       /\ AfterRestart = main.seg \/ Empty(AfterRestart)
       /\ main.seg = active \/ AfterRestart = active \/ web.at \in {"read", "save"}

\* What the web server's call relies on: an append that meets it is the only
\* one, so that it has written nothing yet.
SoundCall ==
  /\ web.at \in {"idle", "reading"} => web.met = 0
  /\ Busy /\ Appending => web.met = 1
  /\ web.at \in Clearing /\ (main.at = "init" \/ ~ready) => web.met = 0
  /\ web.at = "remove1" => Empty(0) \/ (web.met = 1 /\ ~Appending)
  /\ web.at \in Emptied => OneEmpty
  /\ web.at \in Emptied /\ (web.met = 0 \/ Appending) => AllEmpty
  /\ web.at = "save" => web.seg = active \/ Empty(web.seg)
  /\ web.at = "save" /\ main.at = "write" /\ main.live => web.seg = active \/ main.seg = active

\* Nothing in sent is newer than, or as new as, what stands in q after the
\* first n pieces.
Before(sent, q, n) ==
  \A k \in 1..Len(sent) : \A j \in 1..Len(q) : j > n => sent[k].id < q[j].id

\* What a download has sent is older than what it is going to send.
SoundReader ==
  web.at = "reading" =>
    /\ \A k \in 1..Len(got) : got[k].id < NextId
    /\ web.live => Before(got, file[web.seg], web.pos)
    /\ web.stage = 0 /\ web.live =>
         /\ web.seg = Other(active) /\ ~Empty(web.seg)
         /\ Before(got, file[active], 0)
    /\ web.stage = 0 /\ ~web.live => Before(got, file[0], 0) /\ Before(got, file[1], 0)

\* After a power cut s_active means nothing before it is loaded.
InUse == ready \/ main.at # "top" \/ web.at # "idle"

SoundLog     == Numbered /\ Fits(AfterRestart) /\ Half /\ Reserved
SoundControl == (InUse => Settled) /\ FirstKey /\ SoundAppend /\ SoundCall

IInv == Types /\ SoundLog /\ SoundControl /\ SoundReader /\ DownloadOldestFirst

-----------------------------------------------------------------------------
(***************************************************************************)
(* The two files, and what follows from the invariant at once.             *)
(***************************************************************************)

\* There are two segments, each the other of the other.
LEMMA TwoSegs ==
  /\ Segs = {0, 1} /\ Other(0) = 1 /\ Other(1) = 0
  /\ \A s \in Segs : Other(s) \in Segs /\ Other(s) # s /\ Other(Other(s)) = s
BY DEF Segs, Other

\* What the types say of the two files and of the numbers.
LEMMA Typed ==
  ASSUME Types
  PROVE  /\ \A s \in Segs : file[s] \in Seq(Pieces) /\ Len(file[s]) \in Nat
         /\ \A s \in Segs : Empty(s) <=> Len(file[s]) = 0
         /\ AfterRestart \in Segs /\ Loaded \in Segs
         /\ NextId \in Nat /\ Len(done) \in Nat
<1>1. \A s \in Segs : file[s] \in Seq(Pieces) /\ Len(file[s]) \in Nat
  BY DEF Types
<1>2. \A s \in Segs : Empty(s) <=> Len(file[s]) = 0
  BY <1>1, EmptySeq DEF Empty
<1>3. AfterRestart \in Segs /\ Loaded \in Segs
  BY DEF Types, AfterRestart, Loaded, Segs
<1>4. done \in Seq(1..MaxRec) /\ Len(done) \in Nat
  BY DEF Types
<1>5. NextId \in Nat
  <2>1. CASE done = <<>>
    BY <2>1 DEF NextId
  <2>2. CASE done # <<>>
    <3>1. Len(done) \in 1..Len(done)
      BY <1>4, <2>2, EmptySeq
    <3>2. done[Len(done)] \in 1..MaxRec
      BY <1>4, <3>1, ElementOfSeq
    <3>3. QED
      BY <2>2, <3>2, BatchStoreAssumption DEF NextId, Last
  <2>3. QED
    BY <2>1, <2>2
<1>6. QED
  BY <1>1, <1>2, <1>3, <1>4, <1>5

\* The sizes of the two files add up in either order.
LEMMA SizeOf ==
  ASSUME NEW f \in [Segs -> Seq(Pieces)], NEW s \in Segs
  PROVE  Len(f[0]) + Len(f[1]) = Len(f[s]) + Len(f[Other(s)])
<1>1. Len(f[0]) \in Nat /\ Len(f[1]) \in Nat
  BY DEF Segs
<1>2. s = 0 \/ s = 1
  BY DEF Segs
<1>3. \A m, n \in Nat : m + n = n + m
  OBVIOUS
<1>4. QED
  BY <1>1, <1>2, <1>3, TwoSegs

\* With one file empty, it does not matter which is taken for the older one.
LEMMA EitherFits ==
  ASSUME Types, OneEmpty, NEW s \in Segs, Fits(s)
  PROVE  Fits(0) /\ Fits(1)
<1>1. PICK r \in Segs : Empty(r)
  BY TwoSegs DEF OneEmpty
<1>2. Len(file[r]) = 0 /\ NextId \in Nat /\ Other(r) \in Segs /\ Other(Other(r)) = r
  BY <1>1, Typed, TwoSegs
<1>3. \A n : Ends(file[r], n)
  BY <1>2 DEF Ends
<1>4. NextId - 1 - Len(file[r]) = NextId - 1
  BY <1>2
<1>5. Fits(r) <=> Ends(file[Other(r)], NextId - 1)
  BY <1>3, <1>4 DEF Fits
<1>6. Fits(Other(r)) <=> Ends(file[Other(r)], NextId - 1)
  BY <1>2, <1>3 DEF Fits
<1>7. {r, Other(r)} = {0, 1} /\ s \in {r, Other(r)}
  BY TwoSegs
<1>8. QED
  BY <1>5, <1>6, <1>7

\* The file a reader takes for the active one
LEMMA ActiveFits ==
  ASSUME IInv, InUse
  PROVE  Fits(active)
<1> USE DEF IInv, SoundControl, SoundLog
<1>1. active \in Segs /\ AfterRestart \in Segs
  BY Typed DEF Types
<1>2. AfterRestart = active \/ OneEmpty
  BY <1>1, TwoSegs DEF Settled, OneEmpty
<1>3. QED
  BY <1>1, <1>2, EitherFits, TwoSegs

\* What does not touch the files or the key
LEMMA SameLog ==
  ASSUME SoundLog, UNCHANGED <<file, nvs, done>>
  PROVE  SoundLog'
BY DEF SoundLog, Numbered, Fits, Ends, Half, Reserved, NextId, AfterRestart, Sizes

\* An empty file of the two, and a key that may name either
LEMMA KeyMoves ==
  ASSUME Types, SoundLog, OneEmpty, nvs' \in Segs, UNCHANGED <<file, done>>
  PROVE  SoundLog'
<1>1. Fits(0) /\ Fits(1)
  BY EitherFits, Typed DEF SoundLog
<1>2. AfterRestart' \in Segs
  BY DEF AfterRestart, Segs, NoKey
<1>3. Fits(AfterRestart)'
  <2> DEFINE a == AfterRestart'
  <2>1. Fits(a)
    BY <1>1, <1>2, TwoSegs
  <2>2. QED
    BY <2>1 DEF Fits, NextId
<1>4. QED
  BY <1>3 DEF SoundLog, Numbered, Half, Reserved, NextId, Sizes

-----------------------------------------------------------------------------
(***************************************************************************)
(* The main loop                                                           *)
(***************************************************************************)

\* Everybody stands still, or moves without touching what a reader looks at.
LEMMA SameReader ==
  ASSUME SoundReader, DownloadOldestFirst, UNCHANGED <<file, done, got>>,
         web.at = "reading" =>
           /\ UNCHANGED <<web.live, web.seg, web.pos, web.stage>>
           /\ web.stage = 0 /\ web.live => UNCHANGED active,
         web'.at = "reading" => web.at = "reading"
  PROVE  SoundReader' /\ DownloadOldestFirst'
BY DEF SoundReader, DownloadOldestFirst, Before, Empty, NextId

LEMMA MainInitInv ==
  ASSUME IInv, Overlap = 1, MainInit
  PROVE  IInv'
<1> USE DEF IInv
<1>1. /\ main.at = "top" /\ ~ready /\ active' = Loaded
      /\ main' = [main EXCEPT !.at = "init"]
      /\ UNCHANGED <<file, nvs, ready, mounted, web, got, cuts, done>>
  BY DEF MainInit, Main, InitLoad
<1>2. Types'
  <2>1. main' \in MainStates
    BY <1>1 DEF Types, MainStates
  <2>2. QED
    BY <1>1, <2>1, Typed DEF Types
<1>3. main'.at = "init"
  BY <1>1 DEF Types, MainStates
<1>4. SoundLog'
  BY <1>1, SameLog
<1>5. active' = AfterRestart
  <2>1. nvs = NoKey => active = 0
    BY <1>1 DEF SoundControl, FirstKey, Types, Segs
  <2>2. QED
    BY <1>1, <2>1 DEF Loaded, AfterRestart
<1>6. SoundControl'
  <2>1. Settled'
    BY <1>1, <1>5 DEF Settled, AfterRestart
  <2>2. FirstKey'
    BY <1>1, <1>5 DEF FirstKey, AfterRestart
  <2>3. SoundAppend'
    BY <1>3 DEF SoundAppend
  <2>4. SoundCall'
    <3> USE <1>1, <1>3 DEF SoundControl, SoundCall, Appending, Busy, OneEmpty, AllEmpty, Empty
    <3>1. web.at = "save" => AllEmpty
      BY DEF Clearing, Emptied
    <3>2. web.at = "save" => Empty(web.seg)
      BY <3>1 DEF Types, WebStates, Segs
    <3>3. QED
      BY <3>2
  <2>5. QED
    BY <2>1, <2>2, <2>3, <2>4 DEF SoundControl
<1>7. web.at = "reading" /\ web.stage = 0 /\ web.live => active' = active
  <2>1. SUFFICES ASSUME web.at = "reading", web.stage = 0, web.live PROVE active' = active
    OBVIOUS
  <2>2. web.seg = Other(active) /\ ~Empty(web.seg)
    BY <2>1 DEF SoundReader
  <2>3. AfterRestart = active \/ Empty(AfterRestart)
    BY <1>1, <2>1 DEF SoundControl, InUse, Settled
  <2>4. AfterRestart \in {active, Other(active)}
    BY Typed, TwoSegs DEF Types
  <2>5. QED
    BY <1>5, <2>2, <2>3, <2>4
<1>8. SoundReader' /\ DownloadOldestFirst'
  BY <1>1, <1>7, SameReader
<1>9. QED
  BY <1>2, <1>4, <1>6, <1>8

LEMMA MainInitOpenInv ==
  ASSUME IInv, Overlap = 1, MainInitOpen
  PROVE  IInv'
<1> USE DEF IInv
<1>1. /\ main.at = "init" /\ main' = [main EXCEPT !.at = "top"]
      /\ ready' \in BOOLEAN
      /\ UNCHANGED <<file, nvs, mounted, active, got, cuts, done, web>>
  BY DEF MainInitOpen, Main, InitOpen
<1>2. Types'
  <2>1. main' \in MainStates
    BY <1>1 DEF Types, MainStates
  <2>2. QED
    BY <1>1, <2>1 DEF Types
<1>3. main'.at = "top"
  BY <1>1 DEF Types, MainStates
<1>4. SoundLog'
  BY <1>1, SameLog
<1>5. SoundControl'
  <2>1. Settled'
    BY <1>1 DEF SoundControl, InUse, Settled, AfterRestart, OneEmpty, Empty
  <2>2. FirstKey'
    BY <1>1, <1>3 DEF SoundControl, FirstKey
  <2>3. SoundAppend'
    BY <1>3 DEF SoundAppend
  <2>4. SoundCall'
    BY <1>1, <1>3 DEF SoundControl, SoundCall, Appending, Busy, OneEmpty, AllEmpty, Empty
  <2>5. QED
    BY <2>1, <2>2, <2>3, <2>4 DEF SoundControl
<1>6. SoundReader' /\ DownloadOldestFirst'
  BY <1>1, SameReader
<1>7. QED
  BY <1>2, <1>4, <1>5, <1>6

LEMMA AppendBeginInv ==
  ASSUME IInv, Overlap = 1, AppendBegin
  PROVE  IInv'
<1> USE DEF IInv
<1> DEFINE to == IF Full THEN "rotate" ELSE "open"
<1>1. /\ main.at = "top" /\ main' = [main EXCEPT !.at = to] /\ ready
      /\ IF Busy THEN web.met < Overlap /\ web' = [web EXCEPT !.met = @ + 1] ELSE web' = web
      /\ UNCHANGED <<file, nvs, mounted, ready, active, got, cuts, done>>
  BY DEF AppendBegin, Main
<1>2. to \in {"rotate", "open"} /\ main'.at = to
  BY <1>1 DEF Types, MainStates
<1>3. web.met \in {0, 1} /\ web \in WebStates
  BY DEF Types, WebStates
<1>4. web' \in WebStates /\ web'.at = web.at /\ web'.seg = web.seg /\ web'.live = web.live
      /\ web'.stage = web.stage /\ web'.pos = web.pos
      /\ web'.met = (IF Busy THEN 1 ELSE web.met) /\ (Busy => web.met = 0)
  <2>1. CASE Busy
    <3>1. web.met = 0 /\ web' = [web EXCEPT !.met = 1]
      BY <1>1, <1>3, <2>1
    <3>2. QED
      BY <1>3, <2>1, <3>1 DEF WebStates
  <2>2. CASE ~Busy
    BY <1>1, <1>3, <2>2
  <2>3. QED
    BY <2>1, <2>2
<1>5. Types'
  <2>1. main' \in MainStates
    BY <1>1, <1>2 DEF Types, MainStates
  <2>2. QED
    BY <1>1, <1>4, <2>1 DEF Types
<1>6. SoundLog'
  BY <1>1, SameLog
<1>7. SoundControl'
  <2>1. Settled'
    BY <1>1, <1>4 DEF SoundControl, InUse, Settled, AfterRestart, OneEmpty, Empty
  <2>2. FirstKey'
    BY <1>1 DEF SoundControl, FirstKey
  <2>3. SoundAppend'
    <3>1. Len(file[active]) \in Nat /\ Len(file[active]) <= SegMax /\ SegMax \in Nat
      BY Typed, BatchStoreAssumption DEF SoundLog, Reserved, Types
    <3>2. to = "rotate" => Len(file[active]) = SegMax
      BY <3>1 DEF Full
    <3>3. to = "open" => Len(file[active]) < SegMax
      BY <3>1 DEF Full
    <3>4. QED
      BY <1>1, <1>2, <3>2, <3>3 DEF SoundAppend
  <2>4. SoundCall'
    <3>1. web.at = "remove1" => Empty(0)
      BY <1>1, <1>4 DEF SoundControl, SoundCall, Busy
    <3>2. web.at \in Emptied => AllEmpty
      BY <1>1, <1>4 DEF SoundControl, SoundCall, Busy, Emptied
    <3> HIDE DEF to
    <3>3. QED
      BY <1>1, <1>2, <1>4, <3>1, <3>2 DEF SoundControl, SoundCall, Appending, Busy, OneEmpty, AllEmpty, Empty, Emptied
  <2>5. QED
    BY <2>1, <2>2, <2>3, <2>4 DEF SoundControl
<1>8. SoundReader' /\ DownloadOldestFirst'
  BY <1>1, <1>4, SameReader
<1>9. QED
  BY <1>5, <1>6, <1>7, <1>8

\* While a file is empty, what remains of a cleared logbook is the other one.
LEMMA Remainder ==
  ASSUME file' \in [Segs -> Seq(Pieces)], NEW r \in Segs, file'[Other(r)] = <<>>,
         done' = Remains(file'), NEW n \in Int, Ends(file'[r], n)
  PROVE  /\ done' \in Seq(1..MaxRec) /\ Numbered'
         /\ Fits(0)' /\ Fits(1)'
         /\ Len(done)' = Len(file'[0]) + Len(file'[1])
<1> DEFINE q == file'[r]
<1>1. q \in Seq(Pieces) /\ Len(q) \in Nat
  BY DEF Segs
<1>2. file'[0] \o file'[1] = q
  <2>1. r = 0 \/ r = 1
    BY DEF Segs
  <2>2. CASE r = 0
    BY <1>1, <2>2, TwoSegs, ConcatEmptySeq
  <2>3. CASE r = 1
    BY <1>1, <2>3, TwoSegs, ConcatEmptySeq
  <2>4. QED
    BY <2>1, <2>2, <2>3
<1>3. done' = [k \in 1..Len(q) |-> q[k].id]
  <2>1. Remains(file') = [k \in DOMAIN q |-> q[k].id]
    BY <1>2, Zenon DEF Remains
  <2>2. DOMAIN q = 1..Len(q)
    BY <1>1
  <2>3. QED
    BY <2>1, <2>2
<1>4. \A k \in 1..Len(q) : q[k].id \in 1..MaxRec
  <2>1. SUFFICES ASSUME NEW k \in 1..Len(q) PROVE q[k].id \in 1..MaxRec
    OBVIOUS
  <2>2. q[k] \in Pieces
    BY <1>1, ElementOfSeq
  <2>3. QED
    BY <2>2 DEF Pieces
<1>5. done' \in Seq(1..MaxRec) /\ Len(done)' = Len(q)
  BY <1>1, <1>3, <1>4
<1>6. q # <<>> => Len(q) \in 1..Len(q)
  BY <1>1, EmptySeq
<1>7. q # <<>> => NextId' = n + 1
  <2>1. SUFFICES ASSUME q # <<>> PROVE NextId' = n + 1
    OBVIOUS
  <2>2. done'[Len(q)] = q[Len(q)].id /\ q[Len(q)].id = n
    BY <1>1, <1>3, <1>6, <2>1 DEF Ends
  <2>3. done' # <<>>
    BY <1>5, <2>1, <1>1, EmptySeq
  <2>4. QED
    BY <1>5, <2>2, <2>3 DEF NextId, Last
<1>8. Ends(q, NextId' - 1)
  <2>1. CASE q # <<>>
    BY <1>7, <2>1
  <2>2. CASE q = <<>>
    BY <2>2 DEF Ends
  <2>3. QED
    BY <2>1, <2>2
<1>9. Numbered'
  BY <1>1, <1>3, <1>5, <1>8 DEF Numbered, Ends
<1>10. Other(r) \in Segs /\ Other(Other(r)) = r /\ {r, Other(r)} = {0, 1}
  BY TwoSegs
<1>11. Fits(r)'
  <2>1. Ends(file'[Other(r)], NextId' - 1 - Len(file'[r]))
    BY DEF Ends
  <2>2. QED
    BY <1>8, <2>1 DEF Fits
<1>12. Fits(Other(r))'
  <2>1. NextId' \in Int /\ NextId' - 1 - Len(file'[Other(r)]) = NextId' - 1
    BY <1>5, <1>7, EmptySeq DEF NextId
  <2>2. Ends(file'[Other(r)], NextId' - 1)
    BY DEF Ends
  <2>3. QED
    BY <1>8, <1>10, <2>1, <2>2 DEF Fits
<1>13. Len(q) = Len(file'[0]) + Len(file'[1])
  <2>1. Len(file'[Other(r)]) = 0
    OBVIOUS
  <2>2. r = 0 \/ r = 1
    BY DEF Segs
  <2>3. QED
    BY <1>1, <2>1, <2>2, TwoSegs
<1>14. QED
  BY <1>5, <1>9, <1>10, <1>11, <1>12, <1>13

LEMMA RotateRemoveInv ==
  ASSUME IInv, Overlap = 1, RotateRemove
  PROVE  IInv'
<1> USE DEF IInv
<1> DEFINE o == Other(active)
<1>1. /\ main.at = "rotate" /\ main' = [main EXCEPT !.at = "switch", !.seg = o]
      /\ file' = [file EXCEPT ![o] = <<>>]
      /\ web' = Cut(web, o)
      /\ done' = IF web.at = "remove1" THEN Remains(file') ELSE done
      /\ UNCHANGED <<nvs, mounted, ready, active, got, cuts>>
  BY DEF RotateRemove
<1>2. o \in Segs /\ active \in Segs /\ o # active /\ Other(o) = active /\ {o, active} = {0, 1}
  BY TwoSegs DEF Types
<1>3. /\ file' \in [Segs -> Seq(Pieces)]
      /\ file'[o] = <<>> /\ file'[active] = file[active]
  BY <1>1, <1>2 DEF Types
<1>4. main' \in MainStates /\ main'.at = "switch" /\ main'.seg = o
  BY <1>1, <1>2 DEF Types, MainStates
<1>5. /\ web' \in WebStates /\ web'.at = web.at /\ web'.stage = web.stage
      /\ web'.seg = web.seg /\ web'.pos = web.pos /\ web'.met = web.met
      /\ web'.live <=> web.live /\ web.seg # o
  <2>1. web \in WebStates
    BY DEF Types
  <2>2. CASE web.seg = o
    <3>1. web' = [web EXCEPT !.live = FALSE]
      BY <1>1, <2>2 DEF Cut
    <3>2. QED
      BY <2>1, <2>2, <3>1 DEF WebStates
  <2>3. CASE web.seg # o
    <3>1. web' = web
      BY <1>1, <2>3 DEF Cut
    <3>2. QED
      BY <2>1, <2>3, <3>1
  <2>4. QED
    BY <2>2, <2>3
<1>6. AfterRestart' = AfterRestart /\ AfterRestart \in {o, active}
  <2>1. AfterRestart \in Segs
    BY Typed
  <2>2. QED
    BY <1>1, <1>2, <2>1, TwoSegs DEF AfterRestart
<1>7. Fits(active)
  BY <1>1, ActiveFits DEF InUse
<1>8. Len(file[active]) \in Nat /\ Len(file[o]) \in Nat /\ Sizes = Len(file[active]) + Len(file[o])
      /\ (Empty(o) <=> Len(file[o]) = 0) /\ (Empty(active) <=> Len(file[active]) = 0)
      /\ SegMax \in Nat /\ Len(done) \in Nat /\ NextId \in Nat
  <2>1. Sizes = Len(file[active]) + Len(file[o])
    BY <1>2, SizeOf DEF Sizes, Types
  <2>2. QED
    BY <1>2, <2>1, Typed, BatchStoreAssumption
<1>9. Sizes' = Len(file[active]) /\ (Empty(active)' <=> Empty(active)) /\ Empty(o)'
  <2>1. Len(file'[o]) = 0
    BY <1>3
  <2>2. Sizes' = Len(file'[active]) + Len(file'[o])
    BY <1>2, <1>3, SizeOf DEF Sizes
  <2>3. Sizes' = Len(file[active])
    BY <1>3, <1>8, <2>1, <2>2
  <2>4. active' = active /\ o' = o
    BY <1>1 DEF Other
  <2>5. QED
    BY <1>3, <2>3, <2>4 DEF Empty
<1>10. Reserved'
  <2>1. Len(file'[o]) <= SegMax /\ Len(file'[active]) <= SegMax
    BY <1>2, <1>3, <1>8 DEF SoundLog, Reserved
  <2>2. QED
    BY <1>2, <2>1, TwoSegs DEF Reserved
<1>11. CASE web.at = "remove1"
  <2>1. done' = Remains(file')
    BY <1>1, <1>11
  <2>2. Ends(file'[active], NextId - 1) /\ NextId - 1 \in Int
    BY <1>3, <1>7, <1>8 DEF Fits
  <2>3. /\ done' \in Seq(1..MaxRec) /\ Numbered' /\ Fits(0)' /\ Fits(1)'
        /\ Len(done)' = Len(file'[0]) + Len(file'[1])
    BY <1>2, <1>3, <2>1, <2>2, Remainder
  <2>4. Types'
    BY <1>1, <1>3, <1>4, <1>5, <2>3 DEF Types
  <2>5. Fits(AfterRestart)'
    <3>1. AfterRestart' \in {0, 1}
      BY <1>2, <1>6
    <3>2. CASE AfterRestart' = 0
      BY <2>3, <3>2 DEF Fits
    <3>3. CASE AfterRestart' = 1
      BY <2>3, <3>3 DEF Fits
    <3>4. QED
      BY <3>1, <3>2, <3>3
  <2>6. Half'
    BY <2>3 DEF Half, Sizes
  <2>7. SoundLog'
    BY <2>3, <2>5, <2>6, <1>10 DEF SoundLog
  <2>8. SoundControl'
    <3>1. Settled'
      BY <1>1, <1>6, <1>9, <1>11, <1>5 DEF Settled, SoundControl, InUse, Empty
    <3>2. FirstKey'
      BY <1>1 DEF SoundControl, FirstKey
    <3>3. SoundAppend'
      BY <1>1, <1>4, <1>9 DEF SoundAppend
    <3>4. SoundCall'
      BY <1>1, <1>2, <1>3, <1>4, <1>5, <1>9, <1>11
      DEF SoundControl, SoundCall, Appending, Busy, Emptied, Empty
    <3>5. QED
      BY <3>1, <3>2, <3>3, <3>4 DEF SoundControl
  <2>9. SoundReader' /\ DownloadOldestFirst'
    BY <1>1, <1>5, <1>11 DEF SoundReader, DownloadOldestFirst
  <2>10. QED
    BY <2>4, <2>7, <2>8, <2>9
<1>12. CASE web.at # "remove1"
  <2>1. done' = done /\ NextId' = NextId
    BY <1>1, <1>12 DEF NextId
  <2>2. Types'
    BY <1>1, <1>3, <1>4, <1>5, <2>1 DEF Types
  <2>3. Len(file[active]) = SegMax \/ AllEmpty
    BY <1>1, <1>12 DEF SoundControl, SoundAppend
  <2>4. Half'
    <3>1. AllEmpty => Len(file[active]) = 0 /\ Len(file[o]) = 0
      BY <1>2, <1>8 DEF AllEmpty
    <3>2. CASE AllEmpty
      <4>1. Len(file[active]) = 0 /\ Len(file[o]) = 0
        BY <3>1, <3>2
      <4>2. Sizes = 0 + 0 /\ Sizes' = 0
        BY <1>8, <1>9, <4>1, Zenon
      <4>3. QED
        BY <1>1, <2>1, <4>2 DEF Half, SoundLog
    <3>3. CASE Len(file[active]) = SegMax
      BY <1>8, <1>9, <2>1, <3>3 DEF Half, SoundLog
    <3>4. QED
      BY <2>3, <3>2, <3>3
  <2>5. Ends(file'[active], NextId' - 1) /\ Ends(file'[active], NextId' - 1 - 0)
    BY <1>3, <1>7, <1>8, <2>1 DEF Fits
  <2>6. Fits(AfterRestart)'
    <3>1. \A n : Ends(file'[o], n)
      BY <1>3 DEF Ends
    <3>2. CASE AfterRestart' = active
      BY <1>2, <2>5, <3>1, <3>2 DEF Fits
    <3>3. CASE AfterRestart' = o
      <4>1. Len(file'[o]) = 0
        BY <1>3
      <4>2. QED
        BY <1>2, <2>5, <3>1, <3>3, <4>1 DEF Fits
    <3>4. QED
      BY <1>6, <3>2, <3>3
  <2>7. SoundLog'
    BY <1>10, <2>1, <2>4, <2>6 DEF SoundLog, Numbered
  <2>8. SoundControl'
    <3>1. Settled'
      BY <1>1, <1>6, <1>9, <1>5, <1>2 DEF Settled, SoundControl, InUse, Empty, OneEmpty
    <3>2. FirstKey'
      BY <1>1 DEF SoundControl, FirstKey
    <3>3. SoundAppend'
      BY <1>1, <1>4, <1>9 DEF SoundAppend
    <3>4. SoundCall'
      <4>1. web.at \in Emptied => AllEmpty /\ AllEmpty'
        BY <1>1, <1>2, <1>9 DEF SoundControl, SoundCall, Appending, AllEmpty
      <4>2. web.seg \in Segs
        BY DEF Types, WebStates
      <4>3. QED
        BY <1>1, <1>2, <1>3, <1>4, <1>5, <1>9, <1>12, <4>1, <4>2
        DEF SoundControl, SoundCall, Appending, Busy, Empty, Emptied, AllEmpty, OneEmpty
    <3>5. QED
      BY <3>1, <3>2, <3>3, <3>4 DEF SoundControl
  <2>9. DownloadOldestFirst'
    BY <1>1 DEF DownloadOldestFirst
  <2>10. SoundReader'
    <3>1. SUFFICES ASSUME web.at = "reading" PROVE SoundReader'
      BY <1>5 DEF SoundReader
    <3>2. \A k \in 1..Len(got) : got'[k].id < NextId'
      BY <1>1, <2>1, <3>1 DEF SoundReader
    <3>3. \A n : Before(got', <<>>, n)
      BY DEF Before
    <3>4. web'.live => Before(got', file'[web.seg], web.pos) /\ web.seg = active
      <4>1. web.seg \in Segs
        BY DEF Types, WebStates
      <4>2. web'.live => web.live /\ web.seg = active
        BY <1>2, <1>5, <4>1, TwoSegs
      <4>3. web.live => Before(got, file[web.seg], web.pos)
        BY <3>1 DEF SoundReader
      <4>4. QED
        BY <1>1, <1>3, <1>5, <4>2, <4>3 DEF Before
    <3>5. ~(web'.stage = 0 /\ web'.live)
      BY <1>1, <1>2, <1>5, <3>1, <3>4 DEF SoundReader
    <3>6. web.stage = 0 => Before(got, file[active], 0)
      BY <1>2, <3>1 DEF SoundReader
    <3>7. web.stage = 0 => Before(got', file'[active], 0) /\ Before(got', file'[o], 0)
      BY <1>1, <1>3, <3>6 DEF Before
    <3>8. QED
      BY <1>1, <1>2, <1>5, <3>2, <3>4, <3>5, <3>7 DEF SoundReader
  <2>11. QED
    BY <2>2, <2>7, <2>8, <2>9, <2>10
<1>13. QED
  BY <1>11, <1>12

\* Two empty files are those of either name.
LEMMA NothingThere ==
  ASSUME AllEmpty, NEW s \in Segs
  PROVE  Empty(s)
BY TwoSegs DEF AllEmpty

LEMMA RotateSwitchInv ==
  ASSUME IInv, Overlap = 1, RotateSwitch
  PROVE  IInv'
<1> USE DEF IInv
<1>1. /\ main.at = "switch" /\ main' = [main EXCEPT !.at = "read"]
      /\ active' = main.seg
      /\ UNCHANGED <<file, nvs, mounted, ready, web, got, cuts, done>>
  BY DEF RotateSwitch, Main
<1>2. main.seg \in Segs /\ main' \in MainStates /\ main'.at = "read" /\ active \in Segs
  BY <1>1 DEF Types, MainStates
<1>3. Types'
  BY <1>1, <1>2 DEF Types
<1>4. SoundLog'
  BY <1>1, SameLog
<1>5. Empty(main.seg) /\ (main.seg = Other(active) \/ AllEmpty)
  BY <1>1 DEF SoundControl, SoundAppend
<1>6. Empty(active)'
  BY <1>1, <1>5 DEF Empty
<1>7. SoundControl'
  <2>1. Settled' /\ FirstKey' /\ SoundAppend'
    BY <1>2, <1>6 DEF Settled, FirstKey, SoundAppend
  <2>2. SoundCall'
    <3>1. web.at = "save" => Empty(web.seg)
      <4>1. web.at = "save" => AllEmpty /\ web.seg \in Segs
        BY <1>1 DEF SoundControl, SoundCall, Emptied, Appending, Types, WebStates
      <4>2. QED
        BY <4>1, NothingThere
    <3>2. QED
      BY <1>1, <1>2, <3>1 DEF SoundControl, SoundCall, Appending, Busy, OneEmpty, AllEmpty, Empty
  <2>3. QED
    BY <2>1, <2>2 DEF SoundControl
<1>8. SoundReader' /\ DownloadOldestFirst'
  <2>1. ~(web.at = "reading" /\ web.stage = 0 /\ web.live)
    <3>1. SUFFICES ASSUME web.at = "reading", web.stage = 0, web.live PROVE FALSE
      OBVIOUS
    <3>2. web.seg = Other(active) /\ ~Empty(web.seg)
      BY <3>1 DEF SoundReader
    <3>3. Empty(Other(active))
      BY <1>2, <1>5, NothingThere, TwoSegs
    <3>4. QED
      BY <3>2, <3>3
  <2>2. QED
    BY <1>1, <2>1, SameReader
<1>9. QED
  BY <1>3, <1>4, <1>7, <1>8

LEMMA RotateSaveInv ==
  ASSUME IInv, Overlap = 1, RotateSave
  PROVE  IInv'
<1> USE DEF IInv
<1>1. UNCHANGED <<file, mounted, ready, active, web, got, cuts, done>>
  BY DEF RotateSave
<1>2. SoundReader' /\ DownloadOldestFirst'
  BY <1>1, SameReader
<1>3. Empty(active) /\ active \in Segs /\ (Empty(active)' <=> Empty(active))
      /\ (AllEmpty' <=> AllEmpty) /\ (OneEmpty' <=> OneEmpty)
  <2>1. main.at \in {"read", "save"}
    BY DEF RotateSave, Main
  <2>2. QED
    BY <1>1, <2>1 DEF SoundControl, SoundAppend, Types, Empty, AllEmpty, OneEmpty
<1>4. web.at \in Emptied => AllEmpty
  BY DEF RotateSave, Main, SoundControl, SoundCall, Appending
<1>5. CASE main.at = "read" /\ main' = [main EXCEPT !.at = "save", !.seg = active] /\ UNCHANGED nvs
  <2>1. main' \in MainStates /\ main'.at = "save" /\ main'.seg = active
    BY <1>3, <1>5 DEF Types, MainStates
  <2>2. Types'
    BY <1>1, <1>5, <2>1 DEF Types
  <2>3. SoundLog'
    BY <1>1, <1>5, SameLog
  <2>4. Settled' /\ FirstKey' /\ SoundAppend'
    BY <1>1, <1>3, <2>1 DEF Settled, FirstKey, SoundAppend
  <2>5. SoundCall'
    BY <1>1, <1>3, <1>5, <2>1 DEF SoundControl, SoundCall, Appending, Busy, Empty
  <2>6. QED
    BY <1>2, <2>2, <2>3, <2>4, <2>5 DEF SoundControl
<1>6. CASE main.at = "save" /\ main' = [main EXCEPT !.at = "open"] /\ nvs' = main.seg
  <2>1. main' \in MainStates /\ main'.at = "open" /\ main.seg \in Segs
    BY <1>6 DEF Types, MainStates
  <2>2. Types'
    BY <1>1, <1>6, <2>1 DEF Types
  <2>3. SoundLog'
    <3>1. OneEmpty
      BY <1>3, TwoSegs DEF OneEmpty
    <3>2. QED
      BY <1>1, <1>6, <2>1, <3>1, KeyMoves
  <2>4. AfterRestart' = main.seg
    BY <1>6, <2>1 DEF AfterRestart, Segs, NoKey
  <2>5. main.seg = active \/ AllEmpty
    BY <1>6 DEF SoundControl, SoundAppend
  <2>6. Settled'
    <3>1. AllEmpty => Empty(main.seg)
      BY <2>1, NothingThere
    <3>2. QED
      BY <1>1, <2>4, <2>5, <3>1 DEF Settled, Empty
  <2>7. FirstKey'
    BY <1>6, <2>1 DEF FirstKey, Segs, NoKey
  <2>8. SoundAppend'
    <3>1. Len(file[active]) < SegMax
      BY <1>3, Typed, BatchStoreAssumption
    <3>2. QED
      BY <1>1, <2>1, <3>1 DEF SoundAppend
  <2>9. SoundCall'
    BY <1>1, <1>3, <1>6, <2>1 DEF SoundControl, SoundCall, Appending, Busy, Empty
  <2>10. QED
    BY <1>2, <2>2, <2>3, <2>6, <2>7, <2>8, <2>9 DEF SoundControl
<1>7. QED
  BY <1>5, <1>6 DEF RotateSave, Main

LEMMA AppendOpenInv ==
  ASSUME IInv, Overlap = 1, AppendOpen
  PROVE  IInv'
<1> USE DEF IInv
<1>1. /\ main.at = "open" /\ main' = [at |-> "write", seg |-> active, live |-> TRUE]
      /\ UNCHANGED <<file, nvs, mounted, ready, active, web, got, cuts, done>>
  BY DEF AppendOpen
<1>2. main' \in MainStates /\ main'.at = "write" /\ main'.seg = active /\ active \in Segs
  <2>1. active \in Segs /\ TRUE \in BOOLEAN
    BY DEF Types
  <2>2. QED
    BY <1>1, <2>1 DEF MainStates
<1>3. Types'
  BY <1>1, <1>2 DEF Types
<1>4. SoundLog'
  BY <1>1, SameLog
<1>5. AfterRestart = active \/ Empty(AfterRestart)
  <2>1. web.at \in {"read", "save"} => AllEmpty
    BY <1>1 DEF SoundControl, SoundCall, Emptied, Appending
  <2>2. AllEmpty => Empty(AfterRestart)
    BY Typed, NothingThere
  <2>3. QED
    BY <1>1, <2>1, <2>2 DEF SoundControl, InUse, Settled
<1>6. SoundControl'
  <2>1. AfterRestart' = AfterRestart /\ (Empty(AfterRestart)' <=> Empty(AfterRestart))
    BY <1>1 DEF AfterRestart, Empty
  <2>2. Settled' /\ FirstKey'
    BY <1>1, <1>2, <1>5, <2>1 DEF Settled, SoundControl, FirstKey
  <2>3. SoundAppend'
    BY <1>1, <1>2, <1>5, <2>1 DEF SoundControl, SoundAppend
  <2>4. SoundCall'
    BY <1>1, <1>2 DEF SoundControl, SoundCall, Appending, Busy, OneEmpty, AllEmpty, Empty
  <2>5. QED
    BY <2>2, <2>3, <2>4 DEF SoundControl
<1>7. SoundReader' /\ DownloadOldestFirst'
  BY <1>1, SameReader
<1>8. QED
  BY <1>3, <1>4, <1>6, <1>7

LEMMA AppendFailsInv ==
  ASSUME IInv, Overlap = 1, AppendFails
  PROVE  IInv'
<1> USE DEF IInv
<1>1. /\ main.at = "open" /\ main' = [main EXCEPT !.at = "top"]
      /\ UNCHANGED <<file, nvs, mounted, ready, active, web, got, cuts, done>>
  BY DEF AppendFails, Main
<1>2. main' \in MainStates /\ main'.at = "top"
  BY <1>1 DEF Types, MainStates
<1>3. Types'
  BY <1>1, <1>2 DEF Types
<1>4. SoundLog'
  BY <1>1, SameLog
<1>5. SoundControl'
  <2>1. InUse' => Settled'
    BY <1>1, <1>2 DEF SoundControl, InUse, Settled, AfterRestart, OneEmpty, Empty
  <2>2. FirstKey' /\ SoundAppend'
    BY <1>1, <1>2 DEF SoundControl, FirstKey, SoundAppend
  <2>3. SoundCall'
    BY <1>1, <1>2 DEF SoundControl, SoundCall, Appending, Busy, OneEmpty, AllEmpty, Empty, Clearing, Emptied
  <2>4. QED
    BY <2>1, <2>2, <2>3 DEF SoundControl
<1>6. SoundReader' /\ DownloadOldestFirst'
  BY <1>1, SameReader
<1>7. QED
  BY <1>3, <1>4, <1>5, <1>6

\* One piece more at the end, the others in their places.
LEMMA Appended ==
  ASSUME NEW S, NEW q \in Seq(S), NEW p \in S
  PROVE  /\ Append(q, p) \in Seq(S) /\ Append(q, p) # <<>>
         /\ Len(q) \in Nat /\ Len(Append(q, p)) = Len(q) + 1
         /\ Append(q, p)[Len(q) + 1] = p
         /\ \A i \in 1..Len(q) : Append(q, p)[i] = q[i]
<1>1. /\ Append(q, p) \in Seq(S) /\ Len(q) \in Nat /\ Len(Append(q, p)) = Len(q) + 1
      /\ Append(q, p)[Len(q) + 1] = p
      /\ \A i \in 1..Len(q) : Append(q, p)[i] = q[i]
  OBVIOUS
<1>2. Append(q, p) # <<>>
  BY <1>1, EmptySeq
<1>3. QED
  BY <1>1, <1>2

\* A log that ends with record n ends with n + 1 after it is written.
LEMMA EndsAppend ==
  ASSUME NEW q \in Seq(Pieces), NEW n \in Int, Ends(q, n), NEW p \in Pieces, p.id = n + 1
  PROVE  Ends(Append(q, p), n + 1)
<1>1. Len(q) \in Nat /\ Len(Append(q, p)) = Len(q) + 1
  OBVIOUS
<1>2. SUFFICES ASSUME NEW k \in 1..(Len(q) + 1)
               PROVE  Append(q, p)[k].id = n + 1 - (Len(q) + 1) + k
  BY <1>1 DEF Ends
<1>3. CASE k = Len(q) + 1
  <2>1. Append(q, p)[k] = p
    BY <1>3
  <2>2. QED
    BY <1>1, <1>3, <2>1
<1>4. CASE k \in 1..Len(q)
  <2>1. Append(q, p)[k] = q[k] /\ q[k].id = n - Len(q) + k
    BY <1>4 DEF Ends
  <2>2. QED
    BY <1>1, <1>4, <2>1
<1>5. QED
  BY <1>1, <1>3, <1>4

\* A line, or the beginning of one, at the end of the file that is open
LEMMA Written ==
  ASSUME IInv, main.at = "write", main.live, NEW w \in BOOLEAN, Put(w), UNCHANGED nvs
  PROVE  LET p == [id |-> NextId, whole |-> w]
         IN  /\ p \in Pieces
             /\ file' = [file EXCEPT ![main.seg] = Append(file[main.seg], p)]
             /\ file' \in [Segs -> Seq(Pieces)] /\ done' \in Seq(1..MaxRec)
             /\ NextId' = NextId + 1
             /\ SoundLog'
<1> USE DEF IInv
<1> DEFINE p == [id |-> NextId, whole |-> w]
           m == main.seg
           e == Other(m)
<1>1. /\ NextId <= MaxRec /\ done' = Append(done, NextId)
      /\ file' = [file EXCEPT ![m] = Append(file[m], p)]
  BY DEF Put
<1>2. m \in Segs /\ e \in Segs /\ e # m /\ Other(e) = m /\ {m, e} = {0, 1}
  BY TwoSegs DEF Types, MainStates
<1>3. NextId \in Nat /\ NextId >= 1 /\ NextId \in 1..MaxRec
  <2>1. done = <<>> => NextId = 1
    BY DEF NextId
  <2>2. done # <<>> => Len(done) \in 1..Len(done)
    BY EmptySeq DEF Types
  <2>3. done # <<>> => done[Len(done)] \in 1..MaxRec
    BY <2>2, ElementOfSeq DEF Types
  <2>4. done # <<>> => NextId = done[Len(done)] + 1
    BY DEF NextId, Last
  <2>5. NextId \in Nat /\ NextId >= 1
    BY <2>1, <2>3, <2>4, Typed, BatchStoreAssumption
  <2>6. QED
    BY <1>1, <2>5, BatchStoreAssumption
<1>4. p \in Pieces
  BY <1>3 DEF Pieces
<1>5. /\ file' \in [Segs -> Seq(Pieces)]
      /\ file'[m] = Append(file[m], p) /\ file'[e] = file[e]
      /\ file[m] \in Seq(Pieces) /\ file[e] \in Seq(Pieces)
      /\ Len(file'[m]) = Len(file[m]) + 1 /\ Len(file'[e]) = Len(file[e])
      /\ Len(file[m]) \in Nat /\ Len(file[e]) \in Nat
  <2>1. file \in [Segs -> Seq(Pieces)]
    BY DEF Types
  <2>2. file[m] \in Seq(Pieces) /\ file[e] \in Seq(Pieces)
    BY <1>2, <2>1
  <2>3. Append(file[m], p) \in Seq(Pieces) /\ Len(Append(file[m], p)) = Len(file[m]) + 1
    BY <1>4, <2>2
  <2>4. QED
    BY <1>1, <1>2, <2>1, <2>2, <2>3
<1>6. /\ done' \in Seq(1..MaxRec) /\ done' # <<>> /\ Len(done') = Len(done) + 1
      /\ done'[Len(done')] = NextId /\ Len(done) \in Nat
      /\ \A i \in 1..Len(done) : done'[i] = done[i]
  <2>1. done \in Seq(1..MaxRec)
    BY DEF Types
  <2>2. QED
    BY <1>1, <1>3, <2>1, Appended
<1>7. NextId' = NextId + 1
  BY <1>6 DEF NextId, Last
<1>8. Numbered'
  <2>1. SUFFICES ASSUME NEW i \in 1..Len(done')
                 PROVE  done'[i] = NextId' - 1 - Len(done') + i
    BY DEF Numbered
  <2>2. NextId' - 1 - Len(done') + i = NextId - 1 - Len(done) + i
    BY <1>3, <1>6, <1>7
  <2>3. CASE i = Len(done) + 1
    BY <1>3, <1>6, <2>2, <2>3
  <2>4. CASE i \in 1..Len(done)
    BY <1>6, <2>2, <2>4 DEF SoundLog, Numbered
  <2>5. QED
    BY <1>6, <2>3, <2>4
<1>9. Fits(m)
  <2>1. CASE AfterRestart = m
    BY <2>1 DEF SoundLog
  <2>2. CASE Empty(AfterRestart)
    <3>1. OneEmpty /\ AfterRestart \in Segs
      BY <2>2, Typed, TwoSegs DEF OneEmpty
    <3>2. Fits(0) /\ Fits(1)
      BY <3>1, EitherFits DEF SoundLog
    <3>3. QED
      BY <1>2, <3>2
  <2>3. QED
    BY <2>1, <2>2 DEF SoundControl, SoundAppend
<1>10. Ends(file'[m], NextId' - 1) /\ Ends(file'[e], NextId' - 1 - Len(file'[m]))
  <2>1. Ends(file[m], NextId - 1) /\ Ends(file[e], NextId - 1 - Len(file[m]))
    BY <1>9 DEF Fits
  <2>2. p.id = NextId - 1 + 1 /\ NextId - 1 \in Int
    BY <1>3
  <2>3. Ends(Append(file[m], p), NextId - 1 + 1)
    BY <1>4, <1>5, <2>1, <2>2, EndsAppend
  <2>4. NextId - 1 + 1 = NextId' - 1 /\ NextId' - 1 - Len(file'[m]) = NextId - 1 - Len(file[m])
    <3>1. \A i, j \in Nat : i - 1 + 1 = i + 1 - 1 /\ i + 1 - 1 - (j + 1) = i - 1 - j
      OBVIOUS
    <3>2. QED
      BY <1>3, <1>5, <1>7, <3>1
  <2>5. QED
    BY <1>5, <2>1, <2>3, <2>4
<1>11. Fits(AfterRestart)'
  <2>1. AfterRestart' = AfterRestart /\ AfterRestart \in {m, e}
    <3>1. AfterRestart \in Segs
      BY Typed
    <3>2. QED
      BY <1>2, <3>1, TwoSegs DEF AfterRestart
  <2>2. CASE AfterRestart = m
    BY <1>10, <2>1, <2>2 DEF Fits
  <2>3. CASE AfterRestart = e
    <3>1. file[e] = <<>>
      BY <1>2, <2>3 DEF SoundControl, SoundAppend, Empty
    <3>2. Len(file'[e]) = 0 /\ NextId' - 1 - Len(file'[e]) = NextId' - 1
      BY <1>3, <1>5, <1>7, <3>1
    <3>3. Ends(file'[e], NextId' - 1)
      BY <3>2 DEF Ends
    <3>4. QED
      BY <1>2, <1>10, <2>1, <2>3, <3>2, <3>3 DEF Fits
  <2>4. QED
    BY <2>1, <2>2, <2>3
<1>12. Half' /\ Reserved'
  <2>1. Sizes = Len(file[m]) + Len(file[e])
    BY <1>2, SizeOf DEF Sizes, Types
  <2>2. Sizes' = Len(file'[m]) + Len(file'[e])
    BY <1>2, <1>5, SizeOf DEF Sizes
  <2>3. Sizes \in Nat /\ Sizes' = Sizes + 1
    <3>1. \A i, j \in Nat : i + j \in Nat /\ i + 1 + j = i + j + 1
      OBVIOUS
    <3>2. Sizes' = Len(file[m]) + 1 + Len(file[e])
      BY <1>5, <2>2, Zenon
    <3>3. QED
      BY <1>5, <2>1, <3>1, <3>2
  <2>4. Half'
    BY <1>6, <2>3, BatchStoreAssumption DEF SoundLog, Half
  <2>5. Len(file[m]) < SegMax /\ Len(file[e]) <= SegMax
    BY <1>2 DEF SoundControl, SoundAppend, SoundLog, Reserved
  <2>6. Len(file'[m]) <= SegMax /\ Len(file'[e]) <= SegMax
    BY <1>5, <2>5, BatchStoreAssumption
  <2>7. QED
    BY <1>2, <2>4, <2>6, TwoSegs DEF Reserved
<1>13. QED
  BY <1>1, <1>4, <1>5, <1>6, <1>7, <1>8, <1>11, <1>12 DEF SoundLog

LEMMA AppendWriteInv ==
  ASSUME IInv, Overlap = 1, AppendWrite
  PROVE  IInv'
<1> USE DEF IInv
<1>1. /\ main.at = "write" /\ main' = [main EXCEPT !.at = "top"]
      /\ IF main.live THEN Put(TRUE) ELSE UNCHANGED <<file, done>>
      /\ UNCHANGED <<nvs, mounted, ready, active, web, got, cuts>>
  BY DEF AppendWrite, Main
<1>2. main' \in MainStates /\ main'.at = "top" /\ main.seg \in Segs
  BY <1>1 DEF Types, MainStates
<1>3. AfterRestart' = AfterRestart /\ AfterRestart \in Segs /\ active \in Segs /\ web.seg \in Segs
  BY <1>1, Typed DEF AfterRestart, Types, WebStates
<1>4. CASE ~main.live
  <2>1. UNCHANGED <<file, done>>
    BY <1>1, <1>4
  <2>2. Types' /\ SoundLog'
    BY <1>1, <1>2, <2>1, SameLog DEF Types
  <2>3. InUse' => Settled'
    BY <1>1, <1>2, <2>1 DEF SoundControl, InUse, Settled, AfterRestart, OneEmpty, Empty
  <2>4. FirstKey' /\ SoundAppend'
    BY <1>1, <1>2 DEF SoundControl, FirstKey, SoundAppend
  <2>5. SoundCall'
    BY <1>1, <1>2, <2>1 DEF SoundControl, SoundCall, Appending, Busy, OneEmpty, AllEmpty, Empty, Clearing, Emptied
  <2>6. SoundReader' /\ DownloadOldestFirst'
    BY <1>1, <2>1, SameReader
  <2>7. QED
    BY <2>2, <2>3, <2>4, <2>5, <2>6 DEF SoundControl
<1>5. CASE main.live
  <2> DEFINE p == [id |-> NextId, whole |-> TRUE]
             m == main.seg
             e == Other(m)
  <2>1. /\ p \in Pieces
        /\ file' = [file EXCEPT ![m] = Append(file[m], p)]
        /\ file' \in [Segs -> Seq(Pieces)] /\ done' \in Seq(1..MaxRec)
        /\ NextId' = NextId + 1 /\ SoundLog'
    <3>1. TRUE \in BOOLEAN /\ Put(TRUE)
      BY <1>1, <1>5
    <3>2. QED
      BY <1>1, <1>5, <3>1, Written
  <2>2. Types'
    BY <1>1, <1>2, <2>1 DEF Types
  <2>3. e \in Segs /\ {m, e} = {0, 1} /\ m # e /\ m \in Segs
    BY <1>2, TwoSegs
  <2>4. file'[e] = file[e] /\ file'[m] = Append(file[m], p) /\ file[m] \in Seq(Pieces)
    BY <2>1, <2>3 DEF Types
  <2>5. \A s \in Segs : s # m /\ Empty(s) => file'[s] = <<>>
    BY <2>1 DEF Types, Empty
  <2>6. web.at \in Emptied => AllEmpty
    BY <1>1 DEF SoundControl, SoundCall, Appending
  <2>7. web.at \in Emptied => file'[e] = <<>>
    BY <2>3, <2>5, <2>6, NothingThere
  <2>8. OneEmpty' <=> file'[m] = <<>> \/ file'[e] = <<>>
    BY <2>3 DEF OneEmpty, Empty
  <2>9. InUse' => Settled'
    <3>1. CASE web.at \in {"read", "save"}
      BY <1>1, <2>7, <2>8, <3>1 DEF Settled, Emptied
    <3>2. CASE web.at \notin {"read", "save"} /\ AfterRestart # active
      <4>1. Empty(AfterRestart) /\ AfterRestart # m
        BY <1>1, <1>5, <3>2 DEF SoundControl, SoundAppend, Settled, InUse
      <4>2. QED
        BY <1>3, <2>5, <4>1 DEF Settled, Empty
    <3>3. CASE AfterRestart = active
      BY <1>1, <1>3, <3>3 DEF Settled
    <3>4. QED
      BY <3>1, <3>2, <3>3
  <2>10. FirstKey' /\ SoundAppend'
    BY <1>1, <1>2 DEF SoundControl, FirstKey, SoundAppend
  <2>11. SoundCall'
    <3>1. web.at \notin {"idle", "reading"} => web.met = 1
      BY <1>1 DEF SoundControl, SoundCall, Appending, Busy
    <3>2. web.at \in {"idle", "reading"} => web.met = 0
      BY DEF SoundControl, SoundCall
    <3>3. web.at \in Clearing => ready
      BY <1>1, <3>1 DEF SoundControl, SoundCall, Clearing
    <3>4. web.at = "save" => web.seg = active \/ file'[web.seg] = <<>>
      <4>1. SUFFICES ASSUME web.at = "save", web.seg # active PROVE file'[web.seg] = <<>>
        OBVIOUS
      <4>2. Empty(web.seg) /\ m = active
        BY <1>1, <1>5, <4>1 DEF SoundControl, SoundCall
      <4>3. QED
        BY <1>3, <2>5, <4>1, <4>2
    <3>5. QED
      BY <1>1, <1>2, <2>7, <2>8, <3>1, <3>2, <3>3, <3>4
      DEF SoundCall, Appending, Busy, Empty, Clearing, Emptied
  <2>12. SoundReader'
    <3>1. SUFFICES ASSUME web.at = "reading" PROVE SoundReader'
      BY <1>1 DEF SoundReader
    <3>2. \A k \in 1..Len(got) : got[k].id < NextId /\ got[k].id \in Nat
      <4>1. \A k \in 1..Len(got) : got[k] \in Pieces
        BY ElementOfSeq DEF Types
      <4>2. QED
        BY <3>1, <4>1 DEF SoundReader, Pieces
    <3>3. NextId \in Nat
      BY Typed
    <3>4. ASSUME NEW s \in Segs, NEW n \in Nat, Before(got, file[s], n)
          PROVE  Before(got', file'[s], n)
      <4>1. CASE s = m
        <5>1. SUFFICES ASSUME NEW k \in 1..Len(got), NEW j \in 1..Len(file'[s]), j > n
                       PROVE  got[k].id < file'[s][j].id
          BY <1>1 DEF Before
        <5>2. Len(file[m]) \in Nat /\ Len(file'[m]) = Len(file[m]) + 1
          BY <2>1, <2>4
        <5>3. CASE j = Len(file[m]) + 1
          <6>1. file'[s][j] = p
            BY <2>1, <2>4, <4>1, <5>3
          <6>2. QED
            BY <3>2, <6>1
        <5>4. CASE j # Len(file[m]) + 1
          <6>1. j \in 1..Len(file[m]) /\ file'[s][j] = file[s][j]
            BY <2>1, <2>4, <4>1, <5>2, <5>4
          <6>2. QED
            BY <3>4, <4>1, <5>1, <6>1 DEF Before
        <5>5. QED
          BY <5>3, <5>4
      <4>2. CASE s # m
        BY <1>1, <2>1, <3>4, <4>2 DEF Before, Types
      <4>3. QED
        BY <4>1, <4>2
    <3>5. web.pos \in Nat /\ 0 \in Nat /\ 0 \in Segs /\ 1 \in Segs
      BY DEF Types, WebStates, Segs
    <3>6. \A s \in Segs : ~Empty(s) => ~Empty(s)'
      <4>1. Append(file[m], p) # <<>>
        BY <2>1, <2>4, Appended
      <4>2. QED
        BY <1>1, <2>1, <2>4, <4>1 DEF Empty, Types
    <3>7. \A k \in 1..Len(got)' : got'[k].id < NextId'
      BY <1>1, <2>1, <3>2, <3>3
    <3>8. web.live => Before(got', file'[web.seg], web.pos)
      BY <1>3, <3>1, <3>4, <3>5 DEF SoundReader
    <3>9. web.stage = 0 /\ web.live => web.seg = Other(active) /\ (~Empty(web.seg))' /\ Before(got', file'[active], 0)
      BY <1>1, <1>3, <3>1, <3>4, <3>5, <3>6 DEF SoundReader, Empty
    <3>10. web.stage = 0 /\ ~web.live => Before(got', file'[0], 0) /\ Before(got', file'[1], 0)
      BY <3>1, <3>4, <3>5 DEF SoundReader
    <3>11. QED
      BY <1>1, <3>7, <3>8, <3>9, <3>10 DEF SoundReader
  <2>13. DownloadOldestFirst'
    BY <1>1 DEF DownloadOldestFirst
  <2>14. QED
    BY <2>1, <2>2, <2>9, <2>10, <2>11, <2>12, <2>13 DEF SoundControl
<1>6. QED
  BY <1>4, <1>5

-----------------------------------------------------------------------------
(***************************************************************************)
(* The web server: the reader                                              *)
(***************************************************************************)

\* The reader moves and the others stand still.
LEMMA ReaderMoves ==
  ASSUME IInv, UNCHANGED <<file, nvs, mounted, ready, active, main, cuts, done>>,
         InUse, web.at \in {"idle", "reading"}, web' \in WebStates,
         web'.at \in {"idle", "reading"}, web'.met = 0, got' \in Seq(Pieces)
  PROVE  Types' /\ SoundLog' /\ SoundControl'
<1> USE DEF IInv
<1>1. Types'
  BY DEF Types
<1>2. SoundLog'
  BY SameLog
<1>3. Settled'
  BY DEF SoundControl, Settled, AfterRestart, Empty
<1>4. FirstKey' /\ SoundAppend'
  BY DEF SoundControl, FirstKey, SoundAppend, AllEmpty, AfterRestart, Empty
<1>5. SoundCall'
  BY DEF SoundCall, Busy, Emptied, Clearing
<1>6. QED
  BY <1>1, <1>2, <1>3, <1>4, <1>5 DEF SoundControl

\* What the reader finds when it opens one of the files
LEMMA OpenStageIs ==
  ASSUME Types, NEW st \in {0, 1}
  PROVE  \/ OpenStage(st) = WebIdle
         \/ /\ st = 0 /\ ~Empty(Other(active))
            /\ OpenStage(st) = [at |-> "reading", seg |-> Other(active), live |-> TRUE,
                                stage |-> 0, pos |-> 0, met |-> 0]
         \/ OpenStage(st) = [at |-> "reading", seg |-> active, live |-> TRUE,
                             stage |-> 1, pos |-> 0, met |-> 0]
<1>1. CASE st = 0 /\ ~Empty(Other(active))
  BY <1>1 DEF OpenStage, Empty
<1>2. CASE st = 1 \/ Empty(Other(active))
  BY <1>2 DEF OpenStage, Empty
<1>3. QED
  BY <1>1, <1>2

\* The web server at rest is in one of its states.
LEMMA WebIdleTyped == WebIdle \in WebStates /\ WebIdle.at = "idle" /\ WebIdle.met = 0
<1>1. TRUE \in BOOLEAN /\ 0 \in Nat
  OBVIOUS
<1>2. QED
  BY <1>1 DEF WebIdle, WebStates, Segs

\* A download that is opened, or finds nothing, is in one of its states.
LEMMA OpenStageTyped ==
  ASSUME Types, NEW st \in {0, 1}
  PROVE  /\ OpenStage(st) \in WebStates /\ OpenStage(st).at \in {"idle", "reading"}
         /\ OpenStage(st).met = 0
<1>1. TRUE \in BOOLEAN /\ 0 \in Nat /\ active \in Segs /\ Other(active) \in Segs
  BY TwoSegs DEF Types
<1>2. CASE OpenStage(st) = WebIdle
  BY <1>2, WebIdleTyped
<1>3. CASE OpenStage(st) # WebIdle
  <2>1. PICK s \in Segs, g \in {0, 1} :
          OpenStage(st) = [at |-> "reading", seg |-> s, live |-> TRUE,
                           stage |-> g, pos |-> 0, met |-> 0]
    BY <1>1, <1>3, OpenStageIs
  <2>2. QED
    BY <1>1, <2>1 DEF WebStates
<1>4. QED
  BY <1>2, <1>3

\* A log that ends with record n holds the last ones up to n, in order.
LEMMA EndsOrder ==
  ASSUME NEW q \in Seq(Pieces), NEW n \in Int, Ends(q, n)
  PROVE  \A k \in 1..Len(q) :
           /\ n - Len(q) < q[k].id /\ q[k].id <= n
           /\ \A j \in 1..Len(q) : k < j => q[k].id < q[j].id
<1> DEFINE l == Len(q)
<1>1. l \in Nat /\ \A k \in 1..l : q[k].id = n - l + k
  BY DEF Ends
<1> HIDE DEF l
<1>2. \A k \in 1..l : n - l < q[k].id /\ q[k].id <= n
  BY <1>1
<1>3. \A k, j \in 1..l : k < j => q[k].id < q[j].id
  BY <1>1
<1>4. QED
  BY <1>2, <1>3 DEF l

\* The pieces of a file are in the order of their numbers; and all of them are
\* older than what comes next.
LEMMA InOrder ==
  ASSUME IInv, InUse
  PROVE  /\ \A s \in Segs : \A k \in 1..Len(file[s]) :
              /\ file[s][k].id \in Nat /\ file[s][k].id < NextId
              /\ \A j \in 1..Len(file[s]) : k < j => file[s][k].id < file[s][j].id
         /\ \A k \in 1..Len(file[Other(active)]) : \A j \in 1..Len(file[active]) :
              file[Other(active)][k].id < file[active][j].id
<1> DEFINE o == Other(active)
           a == active
<1>1. a \in Segs /\ o \in Segs /\ Segs = {a, o}
  BY TwoSegs DEF IInv, Types
<1>2. Len(file[a]) \in Nat /\ Len(file[o]) \in Nat /\ NextId \in Nat
  BY <1>1, Typed DEF IInv
<1>3. \A s \in Segs : \A k \in 1..Len(file[s]) : file[s][k].id \in Nat
  <2>1. SUFFICES ASSUME NEW s \in Segs, NEW k \in 1..Len(file[s]) PROVE file[s][k].id \in Nat
    OBVIOUS
  <2>2. file[s][k] \in Pieces
    BY ElementOfSeq DEF IInv, Types
  <2>3. QED
    BY <2>2 DEF Pieces
<1>4. Ends(file[a], NextId - 1) /\ Ends(file[o], NextId - 1 - Len(file[a]))
  BY ActiveFits DEF Fits
<1> DEFINE n == NextId - 1
           l == Len(file[a])
           qa == file[a]
           qo == file[o]
<1>5. n \in Int /\ n - l \in Int /\ n - l <= n /\ n < NextId /\ qa \in Seq(Pieces) /\ qo \in Seq(Pieces)
      /\ Ends(qa, n) /\ Ends(qo, n - l) /\ l = Len(qa)
  <2>1. \A x, y \in Nat : x - 1 \in Int /\ x - 1 - y \in Int /\ x - 1 - y <= x - 1 /\ x - 1 < x
    OBVIOUS
  <2>2. qa \in Seq(Pieces) /\ qo \in Seq(Pieces)
    BY <1>1, Typed DEF IInv
  <2>3. QED
    BY <1>2, <1>4, <2>1, <2>2
<1> HIDE DEF n, l, qa, qo
<1>6. \A k \in 1..Len(qa) :
        /\ n - l < qa[k].id /\ qa[k].id <= n
        /\ \A j \in 1..Len(qa) : k < j => qa[k].id < qa[j].id
  BY <1>5, EndsOrder
<1>7. \A k \in 1..Len(qo) :
        /\ qo[k].id <= n - l
        /\ \A j \in 1..Len(qo) : k < j => qo[k].id < qo[j].id
  BY <1>5, EndsOrder
<1>8. \A k \in 1..Len(qa) : qa[k].id \in Nat /\ qa[k].id < NextId
  BY <1>1, <1>2, <1>3, <1>5, <1>6 DEF qa
<1>9. \A k \in 1..Len(qo) : qo[k].id \in Nat /\ qo[k].id < NextId
  BY <1>1, <1>2, <1>3, <1>5, <1>7 DEF qo
<1>10. \A k \in 1..Len(qo) : \A j \in 1..Len(qa) : qo[k].id < qa[j].id
  BY <1>5, <1>6, <1>7, <1>8, <1>9
<1>11. QED
  BY <1>1, <1>6, <1>7, <1>8, <1>9, <1>10 DEF o, a, qa, qo

LEMMA DownloadInv ==
  ASSUME IInv, Download
  PROVE  IInv'
<1> USE DEF IInv
<1>1. /\ web.at = "idle" /\ ready /\ web' = OpenStage(0) /\ got' = <<>>
      /\ UNCHANGED <<file, nvs, mounted, ready, active, main, cuts, done>>
  BY DEF Download
<1>2. /\ web' \in WebStates /\ web'.at \in {"idle", "reading"} /\ web'.met = 0
      /\ got' \in Seq(Pieces) /\ Len(got') = 0
  BY <1>1, OpenStageTyped
<1>3. Types' /\ SoundLog' /\ SoundControl'
  BY <1>1, <1>2, ReaderMoves DEF InUse
<1>4. DownloadOldestFirst'
  BY <1>2 DEF DownloadOldestFirst
<1>5. SoundReader'
  <2>1. 1..Len(got') = {}
    BY <1>2
  <2>2. \A q, n : Before(got', q, n)
    BY <2>1 DEF Before
  <2>3. web'.at = "reading" /\ web'.stage = 0 => web'.seg = Other(active) /\ ~Empty(web'.seg)
    BY <1>1, OpenStageIs DEF WebIdle
  <2>4. QED
    BY <1>1, <2>1, <2>2, <2>3 DEF SoundReader, Empty
<1>6. QED
  BY <1>3, <1>4, <1>5

LEMMA ReadInv ==
  ASSUME IInv, Read
  PROVE  IInv'
<1> USE DEF IInv
<1> DEFINE s == web.seg
           n == web.pos + 1
           p == file[s][n]
<1>1. /\ web.at = "reading" /\ web.live /\ web.pos < Len(file[s])
      /\ web' = [web EXCEPT !.pos = n] /\ got' = Append(got, p)
      /\ UNCHANGED <<file, nvs, mounted, ready, active, main, cuts, done>>
  BY DEF Read, More
<1>2. s \in Segs /\ web.pos \in Nat /\ active \in Segs
  BY DEF Types, WebStates
<1>3. file[s] \in Seq(Pieces) /\ n \in 1..Len(file[s]) /\ p \in Pieces /\ InUse
  <2>1. file[s] \in Seq(Pieces) /\ Len(file[s]) \in Nat
    BY <1>2 DEF Types
  <2>2. n \in 1..Len(file[s])
    BY <1>1, <1>2, <2>1
  <2>3. QED
    BY <1>1, <2>1, <2>2, ElementOfSeq DEF InUse
<1>4. /\ got' \in Seq(Pieces) /\ Len(got) \in Nat /\ Len(got') = Len(got) + 1
      /\ got'[Len(got) + 1] = p /\ \A k \in 1..Len(got) : got'[k] = got[k]
  <2>1. got \in Seq(Pieces)
    BY DEF Types
  <2>2. QED
    BY <1>1, <1>3, <2>1, Appended
<1>5. /\ web' \in WebStates /\ web'.at = "reading" /\ web'.met = 0 /\ web'.pos = n
      /\ web'.seg = s /\ web'.stage = web.stage /\ web'.live = web.live
  <2>1. web.met = 0
    BY <1>1 DEF SoundControl, SoundCall
  <2>2. web \in WebStates /\ n \in Nat
    BY <1>2 DEF Types
  <2>3. QED
    BY <1>1, <2>1, <2>2 DEF WebStates
<1>6. Types' /\ SoundLog' /\ SoundControl'
  BY <1>1, <1>3, <1>4, <1>5, ReaderMoves
<1>7. /\ p.id < NextId
      /\ \A j \in 1..Len(file[s]) : n < j => p.id < file[s][j].id
      /\ web.stage = 0 => \A j \in 1..Len(file[active]) : p.id < file[active][j].id
  <2>1. web.stage = 0 => s = Other(active)
    BY <1>1 DEF SoundReader
  <2>2. QED
    BY <1>2, <1>3, <2>1, InOrder
<1>8. \A k \in 1..Len(got) : got[k].id < p.id
  <2>1. n > web.pos
    BY <1>2
  <2>2. QED
    BY <1>1, <1>3, <2>1 DEF SoundReader, Before
<1>9. DownloadOldestFirst'
  <2>1. SUFFICES ASSUME NEW k \in 1..Len(got'), k # 1 PROVE got'[k - 1].id < got'[k].id
    BY <1>4 DEF DownloadOldestFirst
  <2>2. CASE k = Len(got) + 1
    BY <1>4, <1>8, <2>1, <2>2
  <2>3. CASE k \in 1..Len(got)
    <3>1. k \in DOMAIN got \ {1} /\ k - 1 \in 1..Len(got)
      BY <1>4, <2>1, <2>3
    <3>2. QED
      BY <1>4, <2>3, <3>1 DEF DownloadOldestFirst
  <2>4. QED
    BY <1>4, <2>2, <2>3
<1>10. ASSUME NEW q, NEW m \in Nat, NEW l \in Nat, l >= m, Before(got, q, m),
              \A j \in 1..Len(q) : j > l => p.id < q[j].id
       PROVE  Before(got', q, l)
  <2>1. SUFFICES ASSUME NEW k \in 1..Len(got'), NEW j \in 1..Len(q), j > l
                 PROVE  got'[k].id < q[j].id
    BY DEF Before
  <2>2. CASE k = Len(got) + 1
    BY <1>4, <1>10, <2>1, <2>2
  <2>3. CASE k \in 1..Len(got)
    <3>1. j > m
      BY <1>10, <2>1
    <3>2. QED
      BY <1>4, <1>10, <2>3, <3>1 DEF Before
  <2>4. QED
    BY <1>4, <2>2, <2>3
<1>11. SoundReader'
  <2>1. \A k \in 1..Len(got') : got'[k].id < NextId
    <3>1. SUFFICES ASSUME NEW k \in 1..Len(got') PROVE got'[k].id < NextId
      OBVIOUS
    <3>2. k = Len(got) + 1 \/ k \in 1..Len(got)
      BY <1>4
    <3>3. QED
      BY <1>1, <1>4, <1>7, <3>2 DEF SoundReader
  <2>2. Before(got', file[s], n)
    <3>1. Before(got, file[s], web.pos) /\ n \in Nat /\ n >= web.pos
      BY <1>1, <1>2 DEF SoundReader
    <3>2. \A j \in 1..Len(file[s]) : j > n => p.id < file[s][j].id
      BY <1>2, <1>7
    <3>3. QED
      BY <1>2, <1>10, <3>1, <3>2
  <2>3. web.stage = 0 => Before(got', file[active], 0) /\ s = Other(active) /\ ~Empty(s)
    <3>1. SUFFICES ASSUME web.stage = 0
                   PROVE  Before(got', file[active], 0) /\ s = Other(active) /\ ~Empty(s)
      OBVIOUS
    <3>2. Before(got, file[active], 0) /\ s = Other(active) /\ ~Empty(s)
      BY <1>1, <3>1 DEF SoundReader
    <3>3. QED
      BY <1>7, <1>10, <3>1, <3>2
  <2>4. NextId' = NextId
    BY <1>1 DEF NextId
  <2>5. QED
    BY <1>1, <1>5, <2>1, <2>2, <2>3, <2>4 DEF SoundReader, Empty
<1>12. QED
  BY <1>6, <1>9, <1>11

LEMMA ReadNextInv ==
  ASSUME IInv, ReadNext
  PROVE  IInv'
<1> USE DEF IInv
<1>1. /\ web.at = "reading"
      /\ web' = IF web.stage = 0 THEN OpenStage(1) ELSE WebIdle
      /\ UNCHANGED <<file, nvs, mounted, ready, active, main, got, cuts, done>>
  BY DEF ReadNext
<1>2. web' \in WebStates /\ web'.at \in {"idle", "reading"} /\ web'.met = 0
  BY <1>1, OpenStageTyped, WebIdleTyped
<1>3. Types' /\ SoundLog' /\ SoundControl'
  <2>1. got' \in Seq(Pieces)
    BY <1>1 DEF Types
  <2>2. QED
    BY <1>1, <1>2, <2>1, ReaderMoves DEF InUse
<1>4. DownloadOldestFirst'
  BY <1>1 DEF DownloadOldestFirst
<1>5. SoundReader'
  <2>1. SUFFICES ASSUME web'.at = "reading" PROVE SoundReader'
    BY DEF SoundReader
  <2>2. /\ web.stage = 0
        /\ web' = [at |-> "reading", seg |-> active, live |-> TRUE, stage |-> 1, pos |-> 0, met |-> 0]
    <3>1. web.stage = 0 /\ web' = OpenStage(1) /\ web' # WebIdle
      BY <1>1, <2>1, WebIdleTyped
    <3>2. 1 \in {0, 1} /\ 1 # 0
      OBVIOUS
    <3>3. QED
      BY <3>1, <3>2, OpenStageIs
  <2>3. \A k \in 1..Len(got) : got[k].id < NextId
    BY <1>1 DEF SoundReader
  <2>4. Before(got, file[active], 0)
    <3>1. active = 0 \/ active = 1
      BY DEF Types, Segs
    <3>2. QED
      BY <1>1, <2>2, <3>1 DEF SoundReader
  <2>5. NextId' = NextId
    BY <1>1 DEF NextId
  <2>6. QED
    BY <1>1, <2>2, <2>3, <2>4, <2>5 DEF SoundReader
<1>6. QED
  BY <1>3, <1>4, <1>5

LEMMA ReadStopsInv ==
  ASSUME IInv, ReadStops
  PROVE  IInv'
<1> USE DEF IInv
<1>1. /\ web.at = "reading" /\ web' = WebIdle
      /\ UNCHANGED <<file, nvs, mounted, ready, active, main, got, cuts, done>>
  BY DEF ReadStops
<1>2. Types' /\ SoundLog' /\ SoundControl'
  <2>1. got' \in Seq(Pieces)
    BY <1>1 DEF Types
  <2>2. QED
    BY <1>1, <2>1, WebIdleTyped, ReaderMoves DEF InUse
<1>3. SoundReader' /\ DownloadOldestFirst'
  BY <1>1, WebIdleTyped DEF SoundReader, DownloadOldestFirst
<1>4. QED
  BY <1>2, <1>3

-----------------------------------------------------------------------------
(***************************************************************************)
(* The web server: clearing, formatting and opening anew                   *)
(***************************************************************************)

LEMMA ClearBeginInv ==
  ASSUME IInv, Overlap = 1, ClearBegin
  PROVE  IInv'
<1> USE DEF IInv
<1> DEFINE c == IF main.at \in {"top", "init"} THEN 0 ELSE 1
<1>1. /\ web.at = "idle" /\ ready /\ got' = <<>>
      /\ web' = [WebIdle EXCEPT !.at = "remove0", !.met = c]
      /\ UNCHANGED <<file, nvs, mounted, ready, active, main, cuts, done>>
  BY DEF ClearBegin
<1>2. c \in {0, 1} /\ (c = 1 <=> Appending)
  BY DEF Appending
<1> HIDE DEF c
<1>3. web' \in WebStates /\ web'.at = "remove0" /\ web'.met = c
  <2>1. web' = [at |-> "remove0", seg |-> 0, live |-> TRUE, stage |-> 0, pos |-> 0, met |-> c]
    BY <1>1 DEF WebIdle
  <2>2. TRUE \in BOOLEAN /\ 0 \in Nat /\ 0 \in Segs
    BY DEF Segs
  <2>3. QED
    BY <1>2, <2>1, <2>2 DEF WebStates
<1>4. Types'
  BY <1>1, <1>3, EmptySeq DEF Types
<1>5. SoundLog'
  BY <1>1, SameLog
<1>6. SoundControl'
  <2>1. Settled'
    BY <1>1, <1>3 DEF SoundControl, InUse, Settled, AfterRestart, Empty
  <2>2. FirstKey' /\ SoundAppend'
    BY <1>1, <1>3 DEF SoundControl, FirstKey, SoundAppend, AllEmpty, AfterRestart, Empty
  <2>3. SoundCall'
    BY <1>1, <1>2, <1>3 DEF SoundCall, Appending, Busy, Emptied, Clearing
  <2>4. QED
    BY <2>1, <2>2, <2>3 DEF SoundControl
<1>7. SoundReader' /\ DownloadOldestFirst'
  BY <1>1, <1>3 DEF SoundReader, DownloadOldestFirst
<1>8. QED
  BY <1>4, <1>5, <1>6, <1>7

\* What both removals of a clear have in common
LEMMA ClearedFile ==
  ASSUME IInv, NEW s \in Segs, NEW from, NEW to, ClearRemove(s, from, to), web.at = from,
         from \in {"remove0", "remove1"}, to \in {"remove1", "active"}
  PROVE  /\ web' \in WebStates /\ web'.at = to /\ web'.seg = web.seg /\ web'.met = web.met
         /\ main' \in MainStates /\ main'.at = main.at /\ main'.seg = main.seg
         /\ main.at = "write" /\ main'.live => main.live /\ main.seg # s
         /\ file' \in [Segs -> Seq(Pieces)] /\ file'[s] = <<>> /\ file'[Other(s)] = file[Other(s)]
         /\ AfterRestart' = AfterRestart
         /\ Types' /\ SoundLog' /\ SoundReader' /\ DownloadOldestFirst'
<1> USE DEF IInv
<1> DEFINE r == Other(s)
<1>1. /\ web' = [web EXCEPT !.at = to] /\ file' = [file EXCEPT ![s] = <<>>]
      /\ main' = (IF main.at = "write" THEN Cut(main, s) ELSE main) /\ done' = Remains(file')
      /\ UNCHANGED <<nvs, mounted, ready, active, got, cuts>>
  BY DEF ClearRemove, Web
<1>2. r \in Segs /\ Other(r) = s /\ {r, s} = {0, 1} /\ r # s
  BY TwoSegs
<1>3. web' \in WebStates /\ web'.at = to /\ web'.seg = web.seg /\ web'.met = web.met
  BY <1>1 DEF Types, WebStates
<1>4. /\ main' \in MainStates /\ main'.at = main.at /\ main'.seg = main.seg
      /\ main.at = "write" /\ main'.live => main.live /\ main.seg # s
  <2>1. main \in MainStates
    BY DEF Types
  <2>2. CASE main.at = "write" /\ main.seg = s
    <3>1. main' = [main EXCEPT !.live = FALSE] /\ FALSE \in BOOLEAN
      BY <1>1, <2>2 DEF Cut
    <3>2. main'.live = FALSE
      BY <2>1, <3>1 DEF MainStates
    <3>3. ~main'.live
      BY <3>2
    <3>4. QED
      BY <2>1, <3>1, <3>3 DEF MainStates
  <2>3. CASE ~(main.at = "write" /\ main.seg = s)
    <3>1. main' = main
      BY <1>1, <2>3 DEF Cut
    <3>2. QED
      BY <2>1, <2>3, <3>1
  <2>4. QED
    BY <2>2, <2>3
<1>5. file' \in [Segs -> Seq(Pieces)] /\ file'[s] = <<>> /\ file'[r] = file[r]
  BY <1>1, <1>2, EmptySeq DEF Types
<1>6. PICK n \in Int : Ends(file[r], n)
  <2>1. NextId - 1 \in Int /\ NextId - 1 - Len(file[s]) \in Int
    <3>1. NextId \in Nat /\ Len(file[s]) \in Nat
      BY Typed
    <3>2. \A i, j \in Nat : i - 1 \in Int /\ i - 1 - j \in Int
      OBVIOUS
    <3>3. QED
      BY <3>1, <3>2
  <2>2. AfterRestart \in {r, s}
    BY <1>2, Typed, TwoSegs
  <2>3. CASE AfterRestart = r
    BY <2>1, <2>3 DEF SoundLog, Fits
  <2>4. CASE AfterRestart = s
    BY <2>1, <2>4 DEF SoundLog, Fits
  <2>5. QED
    BY <2>2, <2>3, <2>4
<1>7. /\ done' \in Seq(1..MaxRec) /\ Numbered' /\ Fits(0)' /\ Fits(1)'
      /\ Len(done)' = Len(file'[0]) + Len(file'[1])
  <2>1. Ends(file'[r], n)
    BY <1>5, <1>6
  <2>2. QED
    BY <1>1, <1>2, <1>5, <2>1, Remainder
<1>8. Types'
  BY <1>1, <1>3, <1>4, <1>5, <1>7 DEF Types
<1>9. AfterRestart' = AfterRestart /\ AfterRestart \in {0, 1}
  BY <1>1, Typed, TwoSegs DEF AfterRestart
<1>10. Fits(AfterRestart)'
  <2>1. CASE AfterRestart = 0
    BY <1>7, <1>9, <2>1 DEF Fits
  <2>2. CASE AfterRestart = 1
    BY <1>7, <1>9, <2>2 DEF Fits
  <2>3. QED
    BY <1>9, <2>1, <2>2
<1>11. Half'
  BY <1>7 DEF Half, Sizes
<1>12. Reserved'
  <2>1. Len(file'[s]) <= SegMax /\ Len(file'[r]) <= SegMax
    BY <1>2, <1>5, BatchStoreAssumption DEF SoundLog, Reserved
  <2>2. QED
    BY <1>2, <2>1, TwoSegs DEF Reserved
<1>13. SoundReader' /\ DownloadOldestFirst'
  BY <1>1, <1>3 DEF SoundReader, DownloadOldestFirst
<1>14. QED
  BY <1>3, <1>4, <1>5, <1>7, <1>8, <1>9, <1>10, <1>11, <1>12, <1>13 DEF SoundLog

LEMMA FirstRemovedInv ==
  ASSUME IInv, Overlap = 1, ClearRemove(0, "remove0", "remove1")
  PROVE  IInv'
<1> USE DEF IInv
<1>1. /\ web.at = "remove0" /\ UNCHANGED <<nvs, ready, active, mounted>>
      /\ web'.at = "remove1" /\ web'.seg = web.seg /\ web'.met = web.met
      /\ main'.at = main.at /\ main'.seg = main.seg
      /\ main.at = "write" /\ main'.live => main.live /\ main.seg # 0
      /\ file' \in [Segs -> Seq(Pieces)] /\ file'[0] = <<>> /\ file'[1] = file[1]
      /\ AfterRestart' = AfterRestart
      /\ Types' /\ SoundLog' /\ SoundReader' /\ DownloadOldestFirst'
  <2>1. web.at = "remove0" /\ UNCHANGED <<nvs, ready, active, mounted>> /\ 0 \in Segs
    BY DEF ClearRemove, Web, Segs
  <2>2. QED
    BY <2>1, ClearedFile, TwoSegs
<1>2. \A s \in Segs : Empty(s) => file'[s] = <<>>
  BY <1>1 DEF Empty, Segs
<1>3. AfterRestart \in Segs /\ active \in Segs /\ main.seg \in Segs
  BY Typed DEF Types, MainStates
<1>4. Settled'
  BY <1>1, <1>2, <1>3 DEF SoundControl, InUse, Settled, Empty
<1>5. FirstKey'
  BY <1>1 DEF SoundControl, FirstKey
<1>6. AllEmpty => AllEmpty'
  BY <1>1 DEF AllEmpty, Empty
<1>7. SoundAppend'
  <2>1. main.at = "rotate" => \/ active = 0 \/ AllEmpty' \/ Len(file'[active]) = SegMax
    BY <1>1, <1>3, <1>6 DEF SoundControl, SoundAppend, Segs
  <2>2. main.at = "open" => Len(file'[active]) < SegMax
    BY <1>1, <1>3, BatchStoreAssumption DEF SoundControl, SoundAppend, Segs
  <2>3. main'.at = "write" /\ main'.live =>
          /\ Len(file'[main.seg]) < SegMax
          /\ AfterRestart = main.seg \/ file'[AfterRestart] = <<>>
          /\ main.seg = active \/ AfterRestart = active
    BY <1>1, <1>2, <1>3 DEF SoundControl, SoundAppend, Segs
  <2>4. QED
    BY <1>1, <1>2, <1>3, <1>6, <2>1, <2>2, <2>3 DEF SoundControl, SoundAppend, Empty
<1>8. SoundCall'
  BY <1>1 DEF SoundControl, SoundCall, Appending, Busy, Empty, Emptied, Clearing
<1>9. QED
  BY <1>1, <1>4, <1>5, <1>7, <1>8 DEF SoundControl

LEMMA SecondRemovedInv ==
  ASSUME IInv, Overlap = 1, ClearRemove(1, "remove1", "active")
  PROVE  IInv'
<1> USE DEF IInv
<1>1. /\ web.at = "remove1" /\ UNCHANGED <<nvs, ready, active, mounted>>
      /\ web'.at = "active" /\ web'.seg = web.seg /\ web'.met = web.met
      /\ main'.at = main.at /\ main'.seg = main.seg
      /\ main.at = "write" /\ main'.live => main.live /\ main.seg # 1
      /\ file' \in [Segs -> Seq(Pieces)] /\ file'[1] = <<>> /\ file'[0] = file[0]
      /\ AfterRestart' = AfterRestart
      /\ Types' /\ SoundLog' /\ SoundReader' /\ DownloadOldestFirst'
  <2>1. web.at = "remove1" /\ UNCHANGED <<nvs, ready, active, mounted>> /\ 1 \in Segs
    BY DEF ClearRemove, Web, Segs
  <2>2. QED
    BY <2>1, ClearedFile, TwoSegs
<1>2. \A s \in Segs : Empty(s) => file'[s] = <<>>
  BY <1>1 DEF Empty, Segs
<1>3. AfterRestart \in Segs /\ active \in Segs /\ main.seg \in Segs
  BY Typed DEF Types, MainStates
<1>4. Settled'
  BY <1>1, <1>2, <1>3 DEF SoundControl, InUse, Settled, Empty
<1>5. FirstKey'
  BY <1>1 DEF SoundControl, FirstKey
<1>6. web.met = 0 \/ Appending => AllEmpty'
  BY <1>1 DEF SoundControl, SoundCall, AllEmpty, Empty
<1>7. SoundAppend'
  <2>1. Appending => \A s \in Segs : file'[s] = <<>> /\ Len(file'[s]) = 0
    BY <1>1, <1>6 DEF AllEmpty, Empty, Segs
  <2>2. main'.at = "write" /\ main'.live => main.seg = active \/ AfterRestart = active
    BY <1>1 DEF SoundControl, SoundAppend
  <2>3. main.at = "switch" => main.seg = Other(active) \/ AllEmpty'
    BY <1>6 DEF Appending
  <2>4. QED
    BY <1>1, <1>3, <1>6, <2>1, <2>2, BatchStoreAssumption DEF SoundAppend, Appending, Empty
<1>8. SoundCall'
  <2>1. OneEmpty'
    BY <1>1 DEF OneEmpty, Empty
  <2>2. QED
    BY <1>1, <1>6, <2>1 DEF SoundControl, SoundCall, Appending, Busy, Emptied, Clearing
<1>9. QED
  BY <1>1, <1>4, <1>5, <1>7, <1>8 DEF SoundControl

LEMMA ClearActiveInv ==
  ASSUME IInv, Overlap = 1, ClearActive
  PROVE  IInv'
<1> USE DEF IInv
<1>1. /\ web.at = "active" /\ web' = [web EXCEPT !.at = "read"] /\ active' = 0
      /\ UNCHANGED <<file, nvs, mounted, ready, main, got, cuts, done>>
  BY DEF ClearActive, Web
<1>2. web' \in WebStates /\ web'.at = "read" /\ web'.seg = web.seg /\ web'.met = web.met
  BY <1>1 DEF Types, WebStates
<1>3. Types'
  BY <1>1, <1>2 DEF Types, Segs
<1>4. SoundLog'
  BY <1>1, SameLog
<1>5. OneEmpty /\ OneEmpty' /\ (AllEmpty' <=> AllEmpty) /\ (Appending => AllEmpty)
      /\ (web.met = 0 => AllEmpty)
  BY <1>1 DEF SoundControl, SoundCall, Emptied, OneEmpty, AllEmpty, Empty
<1>6. Settled' /\ FirstKey'
  BY <1>1, <1>2, <1>5 DEF Settled, FirstKey
<1>7. SoundAppend'
  <2>1. Appending => \A s \in Segs : file'[s] = <<>> /\ Len(file'[s]) = 0
    BY <1>1, <1>5 DEF AllEmpty, Empty, Segs
  <2>2. AfterRestart' = AfterRestart /\ AfterRestart \in Segs /\ main.seg \in Segs /\ 0 \in Segs
    BY <1>1, Typed DEF AfterRestart, Types, MainStates, Segs
  <2>3. QED
    BY <1>1, <1>2, <1>5, <2>1, <2>2, BatchStoreAssumption DEF SoundAppend, Appending, Empty
<1>8. SoundCall'
  BY <1>1, <1>2, <1>5 DEF SoundControl, SoundCall, Appending, Busy, Emptied, Clearing
<1>9. SoundReader' /\ DownloadOldestFirst'
  BY <1>1, <1>2 DEF SoundReader, DownloadOldestFirst
<1>10. QED
  BY <1>3, <1>4, <1>6, <1>7, <1>8, <1>9 DEF SoundControl

LEMMA ClearSaveInv ==
  ASSUME IInv, Overlap = 1, ClearSave
  PROVE  IInv'
<1> USE DEF IInv
<1>1. UNCHANGED <<file, mounted, ready, active, main, got, cuts, done>>
  BY DEF ClearSave
<1>2. web.at \in {"read", "save"}
  BY DEF ClearSave
<1>3. OneEmpty /\ OneEmpty' /\ (AllEmpty' <=> AllEmpty) /\ (Appending => AllEmpty)
      /\ (web.met = 0 => AllEmpty) /\ (Appending' <=> Appending)
  BY <1>1, <1>2 DEF SoundControl, SoundCall, Emptied, OneEmpty, AllEmpty, Empty, Appending
<1>4. active \in Segs /\ main.seg \in Segs /\ web.seg \in Segs /\ web.met \in {0, 1}
  BY DEF Types, MainStates, WebStates
<1>5. CASE web.at = "read" /\ web' = [web EXCEPT !.at = "save", !.seg = active] /\ UNCHANGED nvs
  <2>1. web' \in WebStates /\ web'.at = "save" /\ web'.seg = active /\ web'.met = web.met
    BY <1>4, <1>5 DEF Types, WebStates
  <2>2. Types'
    BY <1>1, <1>5, <2>1 DEF Types
  <2>3. SoundLog'
    BY <1>1, <1>5, SameLog
  <2>4. Settled' /\ FirstKey'
    BY <1>1, <1>3, <1>5, <2>1 DEF Settled, SoundControl, FirstKey
  <2>5. SoundAppend'
    BY <1>1, <1>3, <1>5, <2>1 DEF SoundControl, SoundAppend, AfterRestart, Empty
  <2>6. SoundCall'
    BY <1>1, <1>3, <1>5, <2>1 DEF SoundControl, SoundCall, Busy, Emptied, Clearing
  <2>7. SoundReader' /\ DownloadOldestFirst'
    BY <1>1, <2>1 DEF SoundReader, DownloadOldestFirst
  <2>8. QED
    BY <2>2, <2>3, <2>4, <2>5, <2>6, <2>7 DEF SoundControl
<1>6. CASE web.at = "save" /\ web' = WebIdle /\ nvs' = web.seg
  <2>1. web' \in WebStates /\ web'.at = "idle" /\ web'.met = 0
    BY <1>6, WebIdleTyped
  <2>2. Types'
    BY <1>1, <1>4, <1>6, <2>1 DEF Types
  <2>3. SoundLog'
    BY <1>1, <1>3, <1>4, <1>6, KeyMoves
  <2>4. AfterRestart' = web.seg
    BY <1>4, <1>6 DEF AfterRestart, Segs, NoKey
  <2>5. Settled'
    BY <1>1, <1>6, <2>4 DEF SoundControl, SoundCall, Settled, Empty
  <2>6. FirstKey'
    BY <1>4, <1>6 DEF FirstKey, Segs, NoKey
  <2>7. SoundAppend'
    <3>1. Appending => \A s \in Segs : file'[s] = <<>> /\ Len(file'[s]) = 0
      BY <1>1, <1>3 DEF AllEmpty, Empty, Segs
    <3>2. main.at = "write" /\ main.live => main.seg = active \/ web.seg = active
      BY <1>6 DEF SoundControl, SoundCall
    <3>3. QED
      BY <1>1, <1>3, <1>4, <2>4, <3>1, <3>2, BatchStoreAssumption DEF SoundAppend, Appending, Empty
  <2>8. SoundCall'
    BY <2>1 DEF SoundCall, Busy, Emptied, Clearing
  <2>9. SoundReader' /\ DownloadOldestFirst'
    BY <1>1, <2>1 DEF SoundReader, DownloadOldestFirst
  <2>10. QED
    BY <2>2, <2>3, <2>5, <2>6, <2>7, <2>8, <2>9 DEF SoundControl
<1>7. QED
  BY <1>5, <1>6 DEF ClearSave

\* An empty logbook is sound whatever the key says.
LEMMA NoLog ==
  ASSUME file' = [s \in Segs |-> <<>>], done' = <<>>
  PROVE  /\ file' \in [Segs -> Seq(Pieces)] /\ done' \in Seq(1..MaxRec)
         /\ \A s \in Segs : file'[s] = <<>>
         /\ AllEmpty' /\ OneEmpty'
         /\ nvs' \in Segs \cup {NoKey} => SoundLog' /\ Empty(AfterRestart)'
<1>1. /\ file' \in [Segs -> Seq(Pieces)] /\ done' \in Seq(1..MaxRec)
      /\ \A s \in Segs : file'[s] = <<>>
  BY EmptySeq
<1>2. file'[0] = <<>> /\ file'[1] = <<>>
  BY <1>1 DEF Segs
<1>3. AllEmpty' /\ OneEmpty'
  BY <1>2 DEF AllEmpty, OneEmpty, Empty
<1>4. ASSUME nvs' \in Segs \cup {NoKey} PROVE SoundLog' /\ Empty(AfterRestart)'
  <2>1. AfterRestart' \in {0, 1}
    BY <1>4 DEF AfterRestart, Segs
  <2>2. Empty(AfterRestart)'
    BY <1>2, <2>1 DEF Empty
  <2>3. Fits(AfterRestart)'
    BY <1>2, <2>1, TwoSegs DEF Fits, Ends
  <2>4. Len(done') = 0 /\ Len(file'[0]) = 0 /\ Len(file'[1]) = 0
    BY <1>2
  <2>5. Half'
    <3>1. Sizes' = 0 + 0
      BY <2>4, Zenon DEF Sizes
    <3>2. QED
      BY <2>4, <3>1 DEF Half
  <2>6. Reserved' /\ Numbered'
    BY <1>2, <2>4, BatchStoreAssumption DEF Reserved, Numbered, Segs
  <2>7. QED
    BY <2>2, <2>3, <2>5, <2>6 DEF SoundLog
<1>5. QED
  BY <1>1, <1>3, <1>4

LEMMA FormatInv ==
  ASSUME IInv, Overlap = 1, Format
  PROVE  IInv'
<1> USE DEF IInv
<1>1. /\ main.at \in {"top", "init"} /\ web.at = "idle"
      /\ file' = [s \in Segs |-> <<>>] /\ done' = <<>> /\ got' = <<>>
      /\ mounted' \in BOOLEAN
      /\ web' = [web EXCEPT !.at = "load"] \/ web' = [web EXCEPT !.at = "idle"]
      /\ UNCHANGED <<nvs, ready, active, main, cuts>>
  BY DEF Format, Web
<1>2. web' \in WebStates /\ web'.at \in {"load", "idle"} /\ web'.met = 0
  <2>1. web.met = 0
    BY <1>1 DEF SoundControl, SoundCall
  <2>2. QED
    BY <1>1, <2>1 DEF Types, WebStates
<1>3. /\ file' \in [Segs -> Seq(Pieces)] /\ done' \in Seq(1..MaxRec)
      /\ AllEmpty' /\ OneEmpty' /\ SoundLog' /\ Empty(AfterRestart)'
  BY <1>1, NoLog DEF Types
<1>4. Types'
  BY <1>1, <1>2, <1>3, EmptySeq DEF Types
<1>5. SoundControl'
  BY <1>1, <1>2, <1>3
  DEF SoundControl, Settled, FirstKey, SoundAppend, SoundCall, Appending, Busy, Clearing, Emptied
<1>6. SoundReader' /\ DownloadOldestFirst'
  BY <1>1, <1>2 DEF SoundReader, DownloadOldestFirst
<1>7. QED
  BY <1>3, <1>4, <1>5, <1>6

LEMMA ReinitInv ==
  ASSUME IInv, Overlap = 1, Reinit
  PROVE  IInv'
<1> USE DEF IInv
<1>1. CASE web.at = "load"
  <2>1. /\ web' = [web EXCEPT !.at = "init"] /\ active' = Loaded
        /\ UNCHANGED <<file, nvs, mounted, ready, main, got, cuts, done>>
    BY <1>1 DEF Reinit, Web, InitLoad
  <2>2. web' \in WebStates /\ web'.at = "init" /\ web'.met = web.met /\ web'.seg = web.seg
    BY <2>1 DEF Types, WebStates
  <2>3. Types'
    BY <2>1, <2>2, Typed DEF Types
  <2>4. SoundLog'
    BY <2>1, SameLog
  <2>5. OneEmpty /\ OneEmpty' /\ (AllEmpty' <=> AllEmpty) /\ (Appending => AllEmpty)
        /\ (web.met = 0 => AllEmpty)
    BY <1>1, <2>1 DEF SoundControl, SoundCall, Emptied, OneEmpty, AllEmpty, Empty
  <2>6. AfterRestart' = AfterRestart /\ AfterRestart \in Segs /\ active' \in Segs /\ main.seg \in Segs
    BY <2>1, Typed DEF AfterRestart, Types, MainStates
  <2>7. \/ active' = AfterRestart
        \/ nvs = NoKey /\ active = 1 /\ active' = active /\ main.at \in {"read", "save"}
    <3>1. CASE nvs = NoKey
      BY <2>1, <3>1 DEF SoundControl, FirstKey, Loaded, AfterRestart, Types, Segs
    <3>2. CASE nvs # NoKey
      BY <2>1, <3>2 DEF Loaded, AfterRestart
    <3>3. QED
      BY <3>1, <3>2
  <2>8. Appending => \A s \in Segs : file'[s] = <<>> /\ Len(file'[s]) = 0
    BY <2>1, <2>5 DEF AllEmpty, Empty, Segs
  <2>9. Settled'
    BY <2>1, <2>6, <2>7, <2>8 DEF Settled, Appending, Empty
  <2>10. FirstKey'
    BY <2>1, <2>7 DEF FirstKey, AfterRestart
  <2>11. SoundAppend'
    BY <2>1, <2>2, <2>5, <2>6, <2>7, <2>8, BatchStoreAssumption DEF SoundAppend, Appending, Empty
  <2>12. SoundCall'
    BY <1>1, <2>1, <2>2, <2>5 DEF SoundControl, SoundCall, Appending, Busy, Emptied, Clearing
  <2>13. SoundReader' /\ DownloadOldestFirst'
    BY <2>1, <2>2 DEF SoundReader, DownloadOldestFirst
  <2>14. QED
    BY <2>3, <2>4, <2>9, <2>10, <2>11, <2>12, <2>13 DEF SoundControl
<1>2. CASE web.at = "init"
  <2>1. /\ web' = WebIdle /\ ready' \in BOOLEAN
        /\ UNCHANGED <<file, nvs, mounted, active, main, got, cuts, done>>
    BY <1>2 DEF Reinit, Web, InitOpen
  <2>2. web' \in WebStates /\ web'.at = "idle" /\ web'.met = 0
    BY <2>1, WebIdleTyped
  <2>3. Types'
    BY <2>1, <2>2 DEF Types
  <2>4. SoundLog'
    BY <2>1, SameLog
  <2>5. Settled'
    BY <1>2, <2>1 DEF SoundControl, InUse, Settled, AfterRestart, Empty
  <2>6. FirstKey' /\ SoundAppend'
    BY <1>2, <2>1 DEF SoundControl, FirstKey, SoundAppend, AllEmpty, AfterRestart, Empty
  <2>7. SoundCall'
    BY <2>2 DEF SoundCall, Busy, Emptied, Clearing
  <2>8. SoundReader' /\ DownloadOldestFirst'
    BY <2>1, <2>2 DEF SoundReader, DownloadOldestFirst
  <2>9. QED
    BY <2>3, <2>4, <2>5, <2>6, <2>7, <2>8 DEF SoundControl
<1>3. QED
  BY <1>1, <1>2 DEF Reinit, Web

LEMMA PowerCutInv ==
  ASSUME IInv, PowerCut
  PROVE  IInv'
<1> USE DEF IInv
<1>1. /\ cuts < MaxCuts /\ cuts' = cuts + 1
      /\ UNCHANGED <<file, done>> \/ (main.at = "write" /\ main.live /\ Put(FALSE))
      /\ ready' = FALSE /\ active' = 0 /\ main' = MainIdle /\ web' = WebIdle
      /\ got' = <<>> /\ mounted' = TRUE /\ nvs' = nvs
  BY DEF PowerCut
<1>2. SoundLog' /\ file' \in [Segs -> Seq(Pieces)] /\ done' \in Seq(1..MaxRec)
  <2>1. CASE UNCHANGED <<file, done>>
    BY <1>1, <2>1, SameLog DEF Types
  <2>2. CASE main.at = "write" /\ main.live /\ Put(FALSE)
    <3>1. FALSE \in BOOLEAN
      OBVIOUS
    <3>2. QED
      BY <1>1, <2>2, <3>1, Written
  <2>3. QED
    BY <1>1, <2>1, <2>2
<1>3. main' \in MainStates /\ main'.at = "top"
  <2>1. TRUE \in BOOLEAN
    OBVIOUS
  <2>2. QED
    BY <1>1, <2>1 DEF MainIdle, MainStates, Segs
<1>4. web' \in WebStates /\ web'.at = "idle" /\ web'.met = 0
  BY <1>1, WebIdleTyped
<1>5. Types'
  <2>1. ready' \in BOOLEAN /\ mounted' \in BOOLEAN /\ got' \in Seq(Pieces) /\ active' \in Segs
    BY <1>1, EmptySeq DEF Segs
  <2>2. cuts' \in 0..MaxCuts
    BY <1>1, BatchStoreAssumption DEF Types
  <2>3. QED
    BY <1>1, <1>2, <1>3, <1>4, <2>1, <2>2 DEF Types
<1>6. SoundControl'
  <2>1. ~ready'
    BY <1>1
  <2>2. ~InUse'
    BY <1>3, <1>4, <2>1 DEF InUse
  <2>3. QED
    BY <1>1, <1>3, <1>4, <2>2
    DEF SoundControl, FirstKey, SoundAppend, SoundCall, Busy, Appending, Clearing, Emptied
<1>7. SoundReader' /\ DownloadOldestFirst'
  BY <1>1, <1>4 DEF SoundReader, DownloadOldestFirst
<1>8. QED
  BY <1>2, <1>5, <1>6, <1>7

-----------------------------------------------------------------------------
(***************************************************************************)
(* The theorems                                                            *)
(***************************************************************************)

\* The initial states satisfy the inductive invariant.
LEMMA Initial == Init => IInv
<1>1. SUFFICES ASSUME Init PROVE IInv
  OBVIOUS
<1> USE <1>1 DEF Init
<1>2. main \in MainStates /\ main.at = "top"
  <2>1. TRUE \in BOOLEAN
    OBVIOUS
  <2>2. QED
    BY <2>1 DEF MainIdle, MainStates, Segs
<1>3. web \in WebStates /\ web.at = "idle" /\ web.met = 0
  BY WebIdleTyped
<1>4. /\ file \in [Segs -> Seq(Pieces)] /\ done \in Seq(1..MaxRec) /\ got \in Seq(Pieces)
      /\ file[0] = <<>> /\ file[1] = <<>>
  BY EmptySeq DEF Segs
<1>5. Types
  <2>1. ready \in BOOLEAN /\ mounted \in BOOLEAN /\ active \in Segs /\ nvs \in Segs \cup {NoKey}
    BY DEF Segs
  <2>2. cuts \in 0..MaxCuts
    BY BatchStoreAssumption
  <2>3. QED
    BY <1>2, <1>3, <1>4, <2>1, <2>2 DEF Types
<1>6. SoundLog
  <2>1. AfterRestart = 0
    BY DEF AfterRestart
  <2>2. Fits(AfterRestart)
    BY <1>4, <2>1, TwoSegs DEF Fits, Ends
  <2>3. Len(done) = 0 /\ Len(file[0]) = 0 /\ Len(file[1]) = 0
    BY <1>4
  <2>4. Half
    <3>1. Sizes = 0 + 0
      BY <2>3, Zenon DEF Sizes
    <3>2. QED
      BY <2>3, <3>1 DEF Half
  <2>5. Reserved /\ Numbered
    BY <1>4, <2>3, BatchStoreAssumption DEF Reserved, Numbered, Segs
  <2>6. QED
    BY <2>2, <2>4, <2>5 DEF SoundLog
<1>7. SoundControl
  <2>1. ~ready
    OBVIOUS
  <2>2. ~InUse
    BY <1>2, <1>3, <2>1 DEF InUse
  <2>3. QED
    BY <1>2, <1>3, <2>2
    DEF SoundControl, FirstKey, SoundAppend, SoundCall, Busy, Appending, Clearing, Emptied
<1>8. SoundReader /\ DownloadOldestFirst
  BY <1>3 DEF SoundReader, DownloadOldestFirst
<1>9. QED
  BY <1>5, <1>6, <1>7, <1>8 DEF IInv

\* Every step keeps the inductive invariant: one case per action.
LEMMA Inductive == Overlap = 1 /\ IInv /\ [Next]_vars => IInv'
<1>1. SUFFICES ASSUME Overlap = 1, IInv, [Next]_vars PROVE IInv'
  OBVIOUS
<1>2. CASE MainLoop
  BY <1>1, <1>2, MainInitInv, MainInitOpenInv, AppendBeginInv, RotateRemoveInv, RotateSwitchInv,
     RotateSaveInv, AppendOpenInv, AppendFailsInv, AppendWriteInv
  DEF MainLoop
<1>3. CASE WebServer
  BY <1>1, <1>3, DownloadInv, ReadInv, ReadNextInv, ReadStopsInv, ClearBeginInv,
     FirstRemovedInv, SecondRemovedInv, ClearActiveInv, ClearSaveInv, FormatInv, ReinitInv
  DEF WebServer, Clear
<1>4. CASE PowerCut
  BY <1>1, <1>4, PowerCutInv
<1>5. CASE UNCHANGED vars
  <2>1. UNCHANGED <<file, nvs, mounted, ready, active, main, web, got, cuts, done>>
    BY <1>5 DEF vars, ram
  <2>2. Types' /\ SoundLog'
    BY <1>1, <2>1, SameLog DEF IInv, Types
  <2>3. SoundControl'
    BY <1>1, <2>1 DEF IInv, SoundControl, InUse, Settled, FirstKey, SoundAppend, SoundCall,
                      AfterRestart, OneEmpty, AllEmpty, Empty, Appending, Busy
  <2>4. SoundReader' /\ DownloadOldestFirst'
    BY <1>1, <2>1, SameReader DEF IInv
  <2>5. QED
    BY <2>2, <2>3, <2>4 DEF IInv
<1>6. QED
  BY <1>1, <1>2, <1>3, <1>4, <1>5 DEF Next

\* At every moment of every behaviour in which no more than one append meets a
\* clear or a reopening, the files, s_active, its key, the append and the call
\* of the web server fit together.
THEOREM InductiveInvariant ==
  ASSUME Overlap = 1
  PROVE  Spec => []IInv
<1>1. IInv /\ [Next]_vars => IInv'
  BY Inductive
<1>2. QED
  BY <1>1, Initial, PTL DEF Spec

\* A sequence that agrees with the end of another is a suffix of it.
LEMMA EndOf ==
  ASSUME NEW x \in Seq(Int), NEW y \in Seq(Int), Len(x) <= Len(y),
         \A k \in 1..Len(x) : x[k] = y[Len(y) - Len(x) + k]
  PROVE  IsSuffix(x, y)
<1> DEFINE m == Len(x)
           n == Len(y)
           rx == [i \in 1..m |-> x[m - i + 1]]
           ry == [i \in 1..n |-> y[n - i + 1]]
<1>1. m \in Nat /\ n \in Nat /\ m <= n
  OBVIOUS
<1>2. Reverse(x) = rx /\ Reverse(y) = ry
  BY DEF Reverse
<1>3. \A i \in 1..m : m - i + 1 \in 1..m /\ n - m + (m - i + 1) = n - i + 1 /\ i \in 1..n
                      /\ n - i + 1 \in 1..n
  BY <1>1
<1>4. \A i \in 1..m : rx[i] = ry[i]
  BY <1>1, <1>3
<1>5. rx \in Seq(Int) /\ ry \in Seq(Int) /\ Len(rx) = m /\ Len(ry) = n
  <2>1. \A i \in 1..m : x[m - i + 1] \in Int
    BY <1>3, ElementOfSeq
  <2>2. \A i \in 1..n : n - i + 1 \in 1..n
    BY <1>1
  <2>3. \A i \in 1..n : y[n - i + 1] \in Int
    BY <2>2, ElementOfSeq
  <2>4. QED
    BY <1>1, <2>1, <2>3
<1> HIDE DEF rx, ry
<1>6. SubSeq(rx, 1, m) = SubSeq(ry, 1, m)
  BY <1>1, <1>4, <1>5
<1>7. QED
  BY <1>1, <1>2, <1>5, <1>6 DEF IsSuffix, IsPrefix

\* A log that fits what is known holds the last records that were written.
LEMMA FitsIsTheEnd ==
  ASSUME Types, Numbered, Half, NEW s \in Segs, Fits(s)
  PROVE  IsSuffix(Ids(LogOf(s)), done)
<1> DEFINE old == file[Other(s)]
           new == file[s]
           q   == LogOf(s)
           a   == Len(old)
           b   == Len(new)
           n   == NextId
<1>1. old \in Seq(Pieces) /\ new \in Seq(Pieces) /\ a \in Nat /\ b \in Nat /\ n \in Nat
  BY Typed, TwoSegs
<1>2. q = old \o new
  BY DEF LogOf
<1>3. /\ \A k \in 1..b : new[k].id = n - 1 - b + k
      /\ \A k \in 1..a : old[k].id = n - 1 - b - a + k
  BY DEF Fits, Ends
<1>4. Sizes = b + a
  BY SizeOf DEF Sizes, Types
<1> HIDE DEF old, new, q, a, b, n
<1>5. /\ q \in Seq(Pieces) /\ Len(q) = a + b
      /\ \A k \in 1..a : q[k] = old[k]
      /\ \A k \in 1..(a + b) : k > a => q[k] = new[k - a]
  BY <1>1, <1>2 DEF a, b
<1>6. \A k \in 1..(a + b) : q[k].id = n - 1 - (a + b) + k
  <2>1. SUFFICES ASSUME NEW k \in 1..(a + b) PROVE q[k].id = n - 1 - (a + b) + k
    OBVIOUS
  <2>2. CASE k \in 1..a
    <3>1. q[k].id = n - 1 - b - a + k
      BY <1>3, <1>5, <2>2
    <3>2. QED
      BY <1>1, <2>2, <3>1
  <2>3. CASE k > a
    <3>1. k - a \in 1..b
      BY <1>1, <2>3
    <3>2. q[k].id = n - 1 - b + (k - a)
      BY <1>3, <1>5, <2>3, <3>1
    <3>3. QED
      BY <1>1, <2>3, <3>2
  <2>4. QED
    BY <1>1, <2>2, <2>3
<1> DEFINE x == Ids(q)
           l == Len(done)
<1>7. /\ x \in Seq(Int) /\ Len(x) = a + b
      /\ \A k \in 1..(a + b) : x[k] = n - 1 - (a + b) + k
  <2>1. x = [k \in 1..(a + b) |-> q[k].id]
    BY <1>1, <1>5 DEF Ids
  <2>2. \A k \in 1..(a + b) : q[k].id \in Int
    BY <1>1, <1>6
  <2>3. \A k \in 1..(a + b) : x[k] = q[k].id
    BY <2>1
  <2>4. a + b \in Nat
    BY <1>1
  <2> HIDE DEF x
  <2>5. x \in Seq(Int) /\ Len(x) = a + b
    BY <2>1, <2>2, <2>4
  <2>6. QED
    BY <1>6, <2>3, <2>5
<1>8. l \in Nat /\ done \in Seq(Int) /\ a + b <= l
  <2>1. done \in Seq(1..MaxRec) /\ Sizes <= Len(done)
    BY DEF Types, Half
  <2>2. done \in Seq(Int) /\ l \in Nat
    <3>1. \A i \in 1..Len(done) : done[i] \in 1..MaxRec
      BY <2>1, ElementOfSeq
    <3>2. \A i \in 1..Len(done) : done[i] \in Int
      BY <3>1, BatchStoreAssumption
    <3>3. QED
      BY <2>1, <3>2
  <2>3. b + a = a + b
    BY <1>1
  <2>4. QED
    BY <1>4, <2>1, <2>2, <2>3
<1>9. \A i \in 1..l : done[i] = n - 1 - l + i
  BY DEF Numbered, n
<1> HIDE DEF x, l
<1>10. \A k \in 1..Len(x) : x[k] = done[l - Len(x) + k]
  <2>1. SUFFICES ASSUME NEW k \in 1..(a + b) PROVE x[k] = done[l - (a + b) + k]
    BY <1>7
  <2>2. l - (a + b) + k \in 1..l
    BY <1>1, <1>8
  <2>3. done[l - (a + b) + k] = n - 1 - l + (l - (a + b) + k)
    BY <1>9, <2>2
  <2>4. QED
    BY <1>1, <1>7, <1>8, <2>3
<1>11. IsSuffix(x, done)
  BY <1>7, <1>8, <1>10, EndOf DEF l
<1>12. QED
  BY <1>11 DEF x, q

\* The logbook is sound: what is read of it, now and after a restart, is the end
\* of what was written, oldest first and without a hole; the newest half of it
\* is there; and neither file outgrows its room (hr_batchstore.c).
THEOREM LogbookAlwaysSound ==
  ASSUME Overlap = 1
  PROVE  Spec => []LogbookSound
<1>1. IInv => LogbookSound
  <2>1. SUFFICES ASSUME IInv PROVE LogbookSound
    OBVIOUS
  <2> USE <2>1 DEF IInv, SoundLog
  <2>2. TypeOK
    BY DEF Types, MainStates, WebStates, TypeOK
  <2>3. OldestFirst
    <3>1. SUFFICES ASSUME NEW s \in Views PROVE IsSuffix(Ids(LogOf(s)), done)
      BY DEF OldestFirst
    <3>2. s \in Segs /\ Fits(s)
      <4>1. CASE s = AfterRestart
        BY <4>1, Typed
      <4>2. CASE ready /\ s = active
        BY <4>2, ActiveFits DEF InUse, Types
      <4>3. QED
        BY <4>1, <4>2 DEF Views
    <3>3. QED
      BY <3>2, FitsIsTheEnd
  <2>4. NewestHalfKept
    <3>1. Sizes \in Nat
      <4>1. Len(file[0]) \in Nat /\ Len(file[1]) \in Nat
        BY Typed DEF Segs
      <4>2. \A m, n \in Nat : m + n \in Nat
        OBVIOUS
      <4>3. QED
        BY <4>1, <4>2 DEF Sizes
    <3>2. Len(done) \in Nat
      BY Typed
    <3>3. QED
      BY <3>1, <3>2, BatchStoreAssumption DEF NewestHalfKept, Half
  <2>5. QED
    BY <2>2, <2>3, <2>4 DEF LogbookSound
<1>2. QED
  BY <1>1, InductiveInvariant, PTL

\* What a download sends is in the order in which it was written, and nothing is
\* in it twice, though the main loop rotates the files meanwhile
\* (hr_batchstore_read).
THEOREM DownloadsAreInOrder ==
  ASSUME Overlap = 1
  PROVE  Spec => []DownloadOldestFirst
<1>1. IInv => DownloadOldestFirst
  BY DEF IInv
<1>2. QED
  BY <1>1, InductiveInvariant, PTL

=============================================================================
