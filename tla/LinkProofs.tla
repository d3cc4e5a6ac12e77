----------------------------- MODULE LinkProofs -----------------------------
(***************************************************************************)
(* Proofs about Link for any handshake that has a UNIQUE in it, any queue  *)
(* and any time limits: each USB session is introduced to in the variant   *)
(* in force, an owner's choice stands, and only a sender that was past its *)
(* checks leaves a frame of an old session behind.                         *)
(***************************************************************************)
EXTENDS Link, Stream, SequenceTheorems, FiniteSetTheorems, WellFoundedInduction, TLAPS

-----------------------------------------------------------------------------
(***************************************************************************)
(* The inductive invariant.                                                *)
(***************************************************************************)

PortSound ==
  /\ mounted \in BOOLEAN /\ newMount \in BOOLEAN /\ queued \in 0 .. FifoCap
  /\ txLock \in Senders \cup {NoSender}
  /\ at \in [Senders -> {"out", "lock", "queue", "flush"}]
  /\ fresh \in [Senders -> BOOLEAN]
  /\ \A s \in Senders : (at[s] \in {"queue", "flush"}) <=> txLock = s

\* What the loop may say.
Verbs ==
  {"STATE"} \cup {Hello[i] : i \in DOMAIN Hello} \cup {Reask[i] : i \in DOMAIN Reask}

\* The loop has a frame in hand only while it sends, and sends only with the
\* introduction begun.
LoopSound ==
  /\ link \in {"up", "down"} /\ step \in {0, Len(Hello)}
  /\ todo \in Seq(Verbs)
  /\ mpc = "send" <=> todo # <<>>
  /\ mpc = "send" => step = Len(Hello)
  /\ at[MainLoop] # "out" => mpc = "send"

\* What the loop has in hand was asked for in this session, unless a new one
\* is still to be noticed.
InHandIsFresh ==
  (at[MainLoop] # "out" /\ mounted /\ ~newMount) => fresh[MainLoop]

Variant == IF tag THEN "tag" ELSE "plain"

\* The UNIQUE of the introduction is still to be queued.
ToCome ==
  \E i \in DOMAIN todo : todo[i] = "UNIQUE" /\ (i = 1 => at[MainLoop] # "flush")

\* What Introduced says of the end of a pass, for the whole of it.
ToldOrToCome ==
  (step = Len(Hello) /\ mounted /\ ~newMount /\ ~refused) => told = Variant \/ ToCome

\* Once the owner has chosen, the automatic rule is not asked any more; a choice
\* that is not late came when it was not at work.
ChoiceIsFirst ==
  /\ choice \in {"none", "on", "off"} /\ nvs \in {"none", "on", "off"}
  /\ on \in BOOLEAN
  /\ choice # "none" => explicit
  /\ choice # "none" /\ ~late => ~autoReq /\ upc # "ask" /\ mpc # "autoSet"

IInv ==
  /\ PortSound /\ LoopSound /\ InHandIsFresh /\ ToldOrToCome
  /\ ChoiceIsFirst /\ ChoiceStands

-----------------------------------------------------------------------------
\* Two senders at most are never three.
LEMMA PairIsNoTriple ==
  ASSUME NEW a, NEW b
  PROVE  Cardinality({a, b}) # 3
<1>1. IsFiniteSet({a}) /\ Cardinality({a}) = 1
  BY FS_Singleton
<1>2. {a, b} = {a} \cup {b}
  OBVIOUS
<1>3. Cardinality({a, b}) = 1 \/ Cardinality({a, b}) = 2
  BY <1>1, <1>2, FS_AddElement
<1>4. QED BY <1>3

\* Three tasks, and none is another.
LEMMA ThreeSenders ==
  /\ UsbTask \in Senders /\ MainLoop \in Senders /\ Web \in Senders
  /\ UsbTask # MainLoop /\ Web # MainLoop
<1>1. Senders = {UsbTask, MainLoop, Web} /\ Cardinality(Senders) = 3
  BY LinkAssumption
<1>2. Cardinality({MainLoop, Web}) # 3 /\ Cardinality({UsbTask, MainLoop}) # 3
  BY PairIsNoTriple
<1>3. UsbTask = MainLoop => Senders = {MainLoop, Web}
  BY <1>1
<1>4. Web = MainLoop => Senders = {UsbTask, MainLoop}
  BY <1>1
<1>5. QED BY <1>1, <1>2, <1>3, <1>4

(***************************************************************************)
(* hr_usb_tx and the bus                                                   *)
(***************************************************************************)

\* Any step of any sender.
Tx(s) ==
  TxEnter(s) \/ TxNobody(s) \/ TxLock(s) \/ TxBusy(s) \/ TxQueue(s) \/ TxNoRoom(s) \/ TxDone(s)

LEMMA TxStep ==
  ASSUME PortSound, NEW s \in Senders, Tx(s)
  PROVE  /\ PortSound'
         /\ mounted' = mounted /\ newMount' = newMount
         /\ \A r \in Senders : r # s => at'[r] = at[r] /\ fresh'[r] = fresh[r]
<1> USE PortAssumption DEF PortSound
<1>1. CASE TxEnter(s)
  BY <1>1 DEF TxEnter, Out
<1>2. CASE TxNobody(s)
  BY <1>2 DEF TxNobody, portVars
<1>3. CASE TxLock(s)
  BY <1>3 DEF TxLock
<1>4. CASE TxBusy(s)
  BY <1>4 DEF TxBusy, Leave
<1>5. CASE TxQueue(s)
  BY <1>5 DEF TxQueue, HasRoom
<1>6. CASE TxNoRoom(s)
  BY <1>6 DEF TxNoRoom, Leave
<1>7. CASE TxDone(s)
  BY <1>7 DEF TxDone, Leave
<1>8. QED BY <1>1, <1>2, <1>3, <1>4, <1>5, <1>6, <1>7 DEF Tx

\* Where the sender itself gets to.
LEMMA TxGoes ==
  ASSUME PortSound, NEW s \in Senders
  PROVE  /\ TxEnter(s) => mounted /\ at'[s] = "lock" /\ fresh'[s]
         /\ TxLock(s) => at[s] = "lock" /\ at'[s] = "queue" /\ fresh'[s] = fresh[s]
         /\ TxQueue(s) => at[s] = "queue" /\ at'[s] = "flush" /\ fresh'[s] = fresh[s]
         /\ TxNobody(s) => at[s] = "out" /\ at'[s] = "out" /\ ~mounted
         /\ TxBusy(s) \/ TxNoRoom(s) => at[s] # "out" /\ at'[s] = "out"
         /\ TxDone(s) => at[s] = "flush" /\ at'[s] = "out"
<1> USE DEF PortSound
<1>1. TxEnter(s) => mounted /\ at'[s] = "lock" /\ fresh'[s]
  <2>1. TxEnter(s) => fresh' = [fresh EXCEPT ![s] = TRUE]
    BY DEF TxEnter
  <2>2. TxEnter(s) => fresh'[s]
    BY <2>1
  <2>3. QED BY <2>2 DEF TxEnter
<1>2. TxLock(s) => at[s] = "lock" /\ at'[s] = "queue" /\ fresh'[s] = fresh[s]
  BY DEF TxLock
<1>3. TxQueue(s) => at[s] = "queue" /\ at'[s] = "flush" /\ fresh'[s] = fresh[s]
  BY DEF TxQueue
<1>4. TxNobody(s) => at[s] = "out" /\ at'[s] = "out" /\ ~mounted
  BY DEF TxNobody, Out, portVars
<1>5. TxBusy(s) \/ TxNoRoom(s) => at[s] # "out" /\ at'[s] = "out"
  BY DEF TxBusy, TxNoRoom, Leave
<1>6. TxDone(s) => at[s] = "flush" /\ at'[s] = "out"
  BY DEF TxDone, Leave
<1>7. QED BY <1>1, <1>2, <1>3, <1>4, <1>5, <1>6

\* The bus keeps the port sound, and unmounts nothing behind a hello.
LEMMA BusKeepsPort ==
  ASSUME PortSound, Mount \/ Umount \/ HostReads
  PROVE  /\ PortSound' /\ at' = at
         /\ mounted' /\ ~newMount' => mounted /\ ~newMount /\ fresh' = fresh
<1> USE PortAssumption DEF PortSound
<1>1. CASE Mount
  BY <1>1 DEF Mount
<1>2. CASE Umount
  <2>1. mounted' = FALSE /\ fresh' = [s \in Senders |-> FALSE] /\ queued' = 0
        /\ UNCHANGED <<newMount, txLock, at>>
    BY <1>2 DEF Umount
  <2>2. fresh' \in [Senders -> BOOLEAN] /\ mounted' \in BOOLEAN /\ ~mounted'
    BY <2>1
  <2>3. QED BY <2>1, <2>2
<1>3. CASE HostReads
  BY <1>3 DEF HostReads
<1>4. QED BY <1>1, <1>2, <1>3

-----------------------------------------------------------------------------
(***************************************************************************)
(* The TinyUSB task and the web server                                     *)
(***************************************************************************)

\* Another sender's step leaves the main loop's frame and session alone.
LEMMA OtherSenderStep ==
  ASSUME IInv, NEW s \in Senders, s # MainLoop, Tx(s),
         UNCHANGED <<sesVars, compatVars, autoReq, mainVars, ghosts>>,
         upc' = upc \/ upc' = "idle"
  PROVE  IInv'
<1>1. /\ PortSound' /\ mounted' = mounted /\ newMount' = newMount
      /\ at'[MainLoop] = at[MainLoop] /\ fresh'[MainLoop] = fresh[MainLoop]
  BY TxStep, ThreeSenders DEF IInv
<1>2. LoopSound' /\ InHandIsFresh'
  BY <1>1 DEF IInv, LoopSound, InHandIsFresh, sesVars, mainVars
<1>3. ToldOrToCome'
  BY <1>1 DEF IInv, ToldOrToCome, ToCome, Variant, mainVars, ghosts
<1>4. ChoiceIsFirst' /\ ChoiceStands'
  BY DEF IInv, ChoiceIsFirst, ChoiceStands, compatVars, mainVars, ghosts
<1>5. QED BY <1>1, <1>2, <1>3, <1>4 DEF IInv

\* The USB task's own sends keep the invariant.
LEMMA UsbStepKeeps == IInv /\ (Reply \/ UsbTx) => IInv'
BY OtherSenderStep, ThreeSenders DEF Reply, UsbTx, Tx

\* The web server's sends keep the invariant.
LEMMA WebSends == IInv /\ (Command \/ WebTx) => IInv'
BY OtherSenderStep, ThreeSenders DEF Command, WebTx, Tx

\* A step that leaves the port, the loop's place and what was told alone.
LEMMA QuietStep ==
  ASSUME IInv, UNCHANGED <<portVars, mainVars, told, refused>>,
         link' \in {"up", "down"}, ChoiceIsFirst', ChoiceStands'
  PROVE  IInv'
<1>1. PortSound' /\ LoopSound' /\ InHandIsFresh'
  BY DEF IInv, PortSound, LoopSound, InHandIsFresh, portVars, mainVars
<1>2. ToldOrToCome'
  BY DEF IInv, ToldOrToCome, ToCome, Variant, portVars, mainVars
<1>3. QED BY <1>1, <1>2 DEF IInv

LEMMA RxFrameStep ==
  ASSUME IInv, NEW k \in Kinds, RxFrame(k)
  PROVE  IInv'
<1>1. /\ link' = "up" /\ UNCHANGED <<portVars, compatVars, autoReq, mainVars, hpc, ghosts>>
      /\ upc' = "ask" => Looks
  BY DEF RxFrame
<1>2. ChoiceIsFirst' /\ ChoiceStands'
  BY <1>1 DEF IInv, ChoiceIsFirst, ChoiceStands, Looks, compatVars, mainVars, ghosts
<1>3. QED BY <1>1, <1>2, QuietStep DEF ghosts

LEMMA AskForSwitchStep == IInv /\ AskForSwitch => IInv'
<1> SUFFICES ASSUME IInv, AskForSwitch PROVE IInv'
  OBVIOUS
<1>1. ChoiceIsFirst' /\ ChoiceStands'
  BY DEF AskForSwitch, IInv, ChoiceIsFirst, ChoiceStands, compatVars, mainVars, ghosts
<1>2. QED
  BY <1>1, QuietStep DEF AskForSwitch, ghosts, sesVars, IInv, LoopSound

LEMMA PostStep ==
  ASSUME IInv, NEW v \in BOOLEAN, Post(v)
  PROVE  IInv'
<1>1. /\ on' = v /\ changed' = TRUE /\ explicit' = TRUE
      /\ choice' = (IF v THEN "on" ELSE "off")
      /\ late' = (autoReq \/ upc = "ask" \/ mpc = "autoSet")
      /\ UNCHANGED <<portVars, sesVars, nvs, autoReq, upc, mainVars, told, refused>>
  BY DEF Post, SetRam
<1>2. ChoiceIsFirst'
  BY <1>1 DEF IInv, ChoiceIsFirst, mainVars
<1>3. ChoiceStands'
  BY <1>1 DEF ChoiceStands
<1>4. QED BY <1>1, <1>2, <1>3, QuietStep DEF IInv, LoopSound, sesVars

LEMMA PostStoreStep == IInv /\ PostStore => IInv'
<1> SUFFICES ASSUME IInv, PostStore PROVE IInv'
  OBVIOUS
<1>1. nvs' \in {"none", "on", "off"}
  BY DEF PostStore, SetNvs, IInv, ChoiceIsFirst
<1>2. ChoiceIsFirst' /\ ChoiceStands'
  BY <1>1 DEF PostStore, IInv, ChoiceIsFirst, ChoiceStands, mainVars, ghosts
<1>3. QED BY <1>2, QuietStep DEF PostStore, IInv, LoopSound, sesVars, ghosts

LEMMA BusStep == IInv /\ Bus => IInv'
<1> SUFFICES ASSUME IInv, Bus PROVE IInv'
  OBVIOUS
<1>1. /\ PortSound' /\ at' = at
      /\ mounted' /\ ~newMount' => mounted /\ ~newMount /\ fresh' = fresh
  BY BusKeepsPort DEF Bus, IInv
<1>2. /\ UNCHANGED <<sesVars, compatVars, autoReq, upc, mainVars, hpc, refused, choice, late>>
      /\ mounted' => told' = told
  BY DEF Bus, Umount
<1>3. LoopSound' /\ InHandIsFresh'
  BY <1>1, <1>2 DEF IInv, LoopSound, InHandIsFresh, mainVars, sesVars
<1>4. ToldOrToCome'
  BY <1>1, <1>2 DEF IInv, ToldOrToCome, ToCome, Variant, mainVars
<1>5. ChoiceIsFirst' /\ ChoiceStands'
  BY <1>2 DEF IInv, ChoiceIsFirst, ChoiceStands, compatVars, mainVars
<1>6. QED BY <1>1, <1>3, <1>4, <1>5 DEF IInv

-----------------------------------------------------------------------------
(***************************************************************************)
(* The main loop                                                           *)
(***************************************************************************)

\* A step of the loop between two sendings that leaves the port alone and does
\* not begin an introduction.
LEMMA LoopStep ==
  ASSUME IInv, mpc # "send", mpc' # "send",
         UNCHANGED <<mounted, queued, txLock, at, fresh, todo, told, refused, tag>>,
         newMount' \in BOOLEAN, link' \in {"up", "down"}, step' \in {0, Len(Hello)},
         step' = Len(Hello) => (mounted => (newMount' <=> newMount)) /\ step = step',
         ChoiceIsFirst', ChoiceStands'
  PROVE  IInv'
<1>1. PortSound'
  BY DEF IInv, PortSound
<1>2. LoopSound' /\ InHandIsFresh'
  BY DEF IInv, LoopSound, InHandIsFresh
<1>3. todo = <<>> /\ DOMAIN todo = {}
  BY DEF IInv, LoopSound
<1>4. ToldOrToCome'
  BY <1>3 DEF IInv, ToldOrToCome, ToCome, Variant
<1>5. QED BY <1>1, <1>2, <1>4 DEF IInv

\* A hello has something to say.
LEMMA HelloIsLong ==
  /\ Hello \in Seq(Verbs) /\ Reask \in Seq(Verbs)
  /\ Len(Hello) \in Nat /\ Len(Hello) > 0 /\ Hello # <<>>
<1>1. ASSUME NEW s \in Seq(STRING), \A i \in DOMAIN s : s[i] \in Verbs
      PROVE  s \in Seq(Verbs)
  <2>1. s \in [1 .. Len(s) -> Verbs] /\ Len(s) \in Nat
    BY <1>1, LenProperties
  <2>2. QED BY <2>1, SeqDef
<1>2. Hello \in Seq(Verbs) /\ Reask \in Seq(Verbs)
  BY <1>1, LinkAssumption DEF Verbs
<1>3. QED BY <1>2, LinkAssumption, LenProperties

LEMMA PassSteps == IInv /\ (ReadClock \/ Tick \/ SeeMounts) => IInv'
<1> SUFFICES ASSUME IInv, ReadClock \/ Tick \/ SeeMounts PROVE IInv'
  OBVIOUS
<1>1. /\ mpc \in {"read", "tick", "mounts"} /\ mpc' \in {"tick", "mounts", "auto"}
      /\ UNCHANGED <<mounted, queued, stale, txLock, at, fresh, tag, compatVars, autoReq, upc,
                     hpc, ghosts, todo>>
      /\ link' \in {"up", "down"}
  BY DEF ReadClock, Tick, SeeMounts, portVars, PortButNewMount, sesVars, IInv, LoopSound
<1>2. /\ newMount' \in BOOLEAN /\ step' \in {0, Len(Hello)}
      /\ step' = Len(Hello) => (newMount' <=> newMount) /\ step = step'
  <2>1. CASE ReadClock \/ Tick
    BY <2>1 DEF ReadClock, Tick, portVars, IInv, PortSound, LoopSound
  <2>2. CASE SeeMounts
    <3>1. newMount' = FALSE /\ step' = IF newMount THEN 0 ELSE step
      BY <2>2 DEF SeeMounts
    <3>2. newMount => step' # Len(Hello)
      BY <3>1, HelloIsLong
    <3>3. QED BY <3>1, <3>2 DEF IInv, LoopSound
  <2>3. QED BY <2>1, <2>2
<1>3. ChoiceIsFirst' /\ ChoiceStands'
  BY <1>1 DEF IInv, ChoiceIsFirst, ChoiceStands, compatVars, ghosts
<1>4. QED BY <1>1, <1>2, <1>3, LoopStep DEF ghosts

LEMMA AutoSteps == IInv /\ (AutoTake \/ AutoSet \/ AutoStore) => IInv'
<1> SUFFICES ASSUME IInv, AutoTake \/ AutoSet \/ AutoStore PROVE IInv'
  OBVIOUS
<1>1. /\ mpc # "send" /\ mpc' # "send"
      /\ UNCHANGED <<portVars, sesVars, tag, upc, hpc, ghosts, ageT, up, step, todo>>
  BY DEF AutoTake, AutoSet, AutoStore
<1>2. ChoiceIsFirst' /\ ChoiceStands'
  <2>1. CASE AutoTake
    BY <2>1 DEF AutoTake, IInv, ChoiceIsFirst, ChoiceStands, compatVars, ghosts
  <2>2. CASE AutoSet
    BY <2>2 DEF AutoSet, SetRam, IInv, ChoiceIsFirst, ChoiceStands, ghosts
  <2>3. CASE AutoStore
    <3>1. nvs' \in {"none", "on", "off"}
      BY <2>3 DEF AutoStore, SetNvs, IInv, ChoiceIsFirst
    <3>2. QED
      BY <2>3, <3>1 DEF AutoStore, IInv, ChoiceIsFirst, ChoiceStands, ghosts
  <2>4. QED BY <2>1, <2>2, <2>3
<1>3. QED BY <1>1, <1>2, LoopStep DEF IInv, PortSound, LoopSound, portVars, sesVars, ghosts

\* The introduction begins with its UNIQUE to come; a heartbeat begins with the
\* change taken up, so with the variant that was told still in force.
LEMMA GreetStep == IInv /\ Greet => IInv'
<1> SUFFICES ASSUME IInv, Greet PROVE IInv'
  OBVIOUS
<1> DEFINE now == IF StartsOver THEN 0 ELSE step
<1>1. /\ mpc = "changed" /\ changed' = FALSE /\ tag' = IF changed THEN on ELSE tag
      /\ UNCHANGED <<portVars, sesVars, on, explicit, nvs, autoReq, upc, hpc, told, choice,
                     late, ageT>>
  BY DEF Greet
<1>2. todo = <<>> /\ at[MainLoop] = "out"
  BY <1>1 DEF IInv, LoopSound
<1>3. PortSound' /\ InHandIsFresh'
  BY <1>1, <1>2 DEF IInv, PortSound, InHandIsFresh, portVars
<1>4. mpc' \in {"read", "send"}
  BY DEF Greet
<1>5. ChoiceIsFirst' /\ ChoiceStands'
  BY <1>1, <1>4 DEF IInv, ChoiceIsFirst, ChoiceStands
<1>6. CASE ~up /\ step' = 0 /\ mpc' = "read" /\ UNCHANGED <<todo, refused>>
  <2>1. LoopSound'
    BY <1>1, <1>2, <1>6 DEF IInv, LoopSound, portVars, sesVars
  <2>2. ToldOrToCome'
    BY <1>6, HelloIsLong DEF ToldOrToCome
  <2>3. QED BY <1>3, <1>5, <2>1, <2>2 DEF IInv
<1>7. CASE step' = Len(Hello) /\ todo' = Hello /\ mpc' = "send" /\ refused' = FALSE
  <2>1. LoopSound'
    BY <1>1, <1>2, <1>7, HelloIsLong, LinkAssumption DEF IInv, LoopSound, portVars, sesVars
  <2>2. at'[MainLoop] = "out"
    BY <1>1, <1>2 DEF portVars
  <2>3. ToCome'
    BY <1>7, <2>2, LinkAssumption DEF ToCome
  <2>4. ToldOrToCome'
    BY <2>3 DEF ToldOrToCome
  <2>5. QED BY <1>3, <1>5, <2>1, <2>4 DEF IInv
<1>8. CASE /\ now = Len(Hello) /\ UNCHANGED <<step, refused>>
           /\ \/ todo' \in Heartbeats /\ mpc' = "send"
              \/ mpc' = "read" /\ UNCHANGED todo
  <2>1. ~changed /\ step = Len(Hello) /\ tag' = tag
    BY <1>1, <1>8, HelloIsLong DEF StartsOver
  <2>2. \A q \in Heartbeats : q \in Seq(Verbs) /\ q # <<>>
    <3>1. <<"STATE">> \in Seq(Verbs) /\ Len(<<"STATE">>) = 1
      BY DEF Verbs
    <3>2. \A q \in {<<>>, Reask} : q \in Seq(Verbs) /\ Len(q) \in Nat
      <4>1. <<>> \in Seq(Verbs) /\ Reask \in Seq(Verbs)
        BY HelloIsLong
      <4>2. QED BY <4>1, LenProperties
    <3>3. ASSUME NEW q \in {<<>>, Reask}
          PROVE  <<"STATE">> \o q \in Seq(Verbs) /\ <<"STATE">> \o q # <<>>
      <4>1. q \in Seq(Verbs) /\ Len(q) \in Nat
        BY <3>2, <3>3
      <4>2. <<"STATE">> \o q \in Seq(Verbs) /\ Len(<<"STATE">> \o q) = 1 + Len(q)
        BY <3>1, <4>1, ConcatProperties
      <4>3. Len(<<"STATE">> \o q) # 0
        BY <4>1, <4>2
      <4>4. QED BY <4>2, <4>3
    <3>4. QED BY <3>3 DEF Heartbeats
  <2>3. todo' \in Seq(Verbs) /\ (mpc' = "send" <=> todo' # <<>>)
    <3>1. CASE todo' \in Heartbeats /\ mpc' = "send"
      BY <2>2, <3>1
    <3>2. CASE mpc' = "read" /\ UNCHANGED todo
      BY <1>2, <3>2
    <3>3. QED BY <1>8, <3>1, <3>2
  <2>4. LoopSound'
    BY <1>1, <1>2, <1>8, <2>1, <2>3 DEF IInv, LoopSound, portVars, sesVars
  <2>5. step = Len(Hello) /\ mounted /\ ~newMount /\ ~refused => told = Variant
    BY <1>2 DEF IInv, ToldOrToCome, ToCome
  <2>6. ToldOrToCome'
    BY <1>1, <1>8, <2>1, <2>5 DEF ToldOrToCome, Variant, portVars
  <2>7. QED BY <1>3, <1>5, <2>4, <2>6 DEF IInv
<1>9. \/ ~up /\ step' = 0 /\ mpc' = "read" /\ UNCHANGED <<todo, refused>>
      \/ step' = Len(Hello) /\ todo' = Hello /\ mpc' = "send" /\ refused' = FALSE
      \/ /\ now = Len(Hello) /\ UNCHANGED <<step, refused>>
         /\ \/ todo' \in Heartbeats /\ mpc' = "send"
            \/ mpc' = "read" /\ UNCHANGED todo
  BY DEF Greet
<1>10. QED BY <1>6, <1>7, <1>8, <1>9

\* The loop's frame on its way; the port's part.
LEMMA LoopSends ==
  ASSUME IInv, Tx(MainLoop), mpc = "send", mpc' \in {"send", "read"},
         mpc' = "send" <=> todo' # <<>>, todo' \in Seq(Verbs),
         at'[MainLoop] # "out" => mpc' = "send",
         UNCHANGED <<sesVars, tag, compatVars, autoReq, upc, hpc, choice, late, ageT, up, step>>,
         ToldOrToCome'
  PROVE  IInv'
<1>1. PortSound' /\ mounted' = mounted /\ newMount' = newMount
  BY TxStep, ThreeSenders DEF IInv
<1>2. LoopSound'
  BY DEF IInv, LoopSound, sesVars
<1>3. InHandIsFresh'
  BY <1>1, TxGoes, ThreeSenders DEF IInv, InHandIsFresh, Tx
<1>4. ChoiceIsFirst' /\ ChoiceStands'
  BY DEF IInv, ChoiceIsFirst, ChoiceStands, compatVars
<1>5. QED BY <1>1, <1>2, <1>3, <1>4 DEF IInv

\* The frame at the head is dealt with: the ones behind it move up.
LEMMA DealtGoes ==
  ASSUME IInv, mpc = "send", Dealt
  PROVE  /\ todo' \in Seq(Verbs) /\ mpc' \in {"send", "read"}
         /\ mpc' = "send" <=> todo' # <<>>
         /\ \A i \in DOMAIN todo : i # 1 => i - 1 \in DOMAIN todo' /\ todo'[i - 1] = todo[i]
<1>1. todo \in Seq(Verbs) /\ todo # <<>> /\ Len(todo) \in Nat
  BY LenProperties DEF IInv, LoopSound
<1>2. /\ Tail(todo) \in Seq(Verbs) /\ Len(Tail(todo)) = Len(todo) - 1
      /\ \A i \in 1 .. Len(Tail(todo)) : Tail(todo)[i] = todo[i + 1]
  BY <1>1, HeadTailProperties
<1>3. todo' = Tail(todo) /\ mpc' = IF Len(todo) = 1 THEN "read" ELSE "send"
  BY DEF Dealt
<1>4. todo' # <<>> <=> Len(todo) # 1
  <2>1. todo' \in Seq(Verbs) /\ Len(todo') = Len(todo) - 1
    BY <1>2, <1>3
  <2>2. todo' # <<>> <=> Len(todo') # 0
    BY <2>1, EmptySeq
  <2>3. QED BY <1>1, <2>1, <2>2
<1>5. ASSUME NEW i \in DOMAIN todo, i # 1
      PROVE  i - 1 \in DOMAIN todo' /\ todo'[i - 1] = todo[i]
  <2>1. i \in 1 .. Len(todo) /\ i - 1 \in 1 .. Len(Tail(todo)) /\ (i - 1) + 1 = i
    BY <1>1, <1>2, <1>5, LenProperties
  <2>2. QED BY <1>2, <1>3, <2>1, LenProperties
<1>6. QED BY <1>2, <1>3, <1>4, <1>5

LEMMA SendNextStep == IInv /\ SendNext => IInv'
<1> SUFFICES ASSUME IInv, SendNext PROVE IInv'
  OBVIOUS
<1>1. /\ mpc = "send"
      /\ UNCHANGED <<sesVars, tag, compatVars, autoReq, upc, hpc, told, choice, late,
                     ageT, up, step>>
  BY DEF SendNext
<1>2. CASE TxEnter(MainLoop) /\ UNCHANGED <<todo, mpc, refused>>
  <2>1. /\ mounted' = mounted /\ newMount' = newMount /\ at'[MainLoop] # "flush"
        /\ at[MainLoop] = "out"
    BY <1>2, TxGoes, TxStep, ThreeSenders DEF IInv, Tx, TxEnter, Out
  <2>2. ToldOrToCome'
    BY <1>1, <1>2, <2>1 DEF IInv, ToldOrToCome, ToCome, Variant
  <2>3. QED BY <1>1, <1>2, <2>2, LoopSends DEF Tx, IInv, LoopSound
<1>3. CASE TxNobody(MainLoop) /\ Dealt /\ refused' = TRUE
  <2>1. /\ todo' \in Seq(Verbs) /\ mpc' \in {"send", "read"} /\ (mpc' = "send" <=> todo' # <<>>)
    BY <1>1, <1>3, DealtGoes
  <2>2. at'[MainLoop] = "out"
    BY <1>3, TxGoes, ThreeSenders DEF IInv
  <2>3. ToldOrToCome'
    BY <1>3 DEF ToldOrToCome
  <2>4. QED BY <1>1, <1>3, <2>1, <2>2, <2>3, LoopSends DEF Tx
<1>4. QED BY <1>2, <1>3 DEF SendNext

LEMMA MainTxStep == IInv /\ MainTx => IInv'
<1> SUFFICES ASSUME IInv, MainTx PROVE IInv'
  OBVIOUS
<1>1. UNCHANGED <<sesVars, tag, compatVars, autoReq, upc, hpc, choice, late, ageT, up, step>>
  BY DEF MainTx
<1>2. /\ PortSound /\ MainLoop \in Senders
      /\ at[MainLoop] # "out" => mpc = "send" /\ todo \in Seq(Verbs) /\ todo # <<>>
  BY ThreeSenders DEF IInv, LoopSound
<1>3. CASE TxLock(MainLoop) /\ UNCHANGED <<todo, mpc, refused, told>>
  <2>1. /\ mounted' = mounted /\ newMount' = newMount /\ at'[MainLoop] # "flush"
        /\ mpc = "send"
    BY <1>2, <1>3, TxGoes, TxStep DEF Tx
  <2>2. ToldOrToCome'
    BY <1>1, <1>3, <2>1 DEF IInv, ToldOrToCome, ToCome, Variant
  <2>3. QED BY <1>1, <1>2, <1>3, <2>1, <2>2, LoopSends DEF Tx, IInv, LoopSound
<1>4. CASE /\ TxQueue(MainLoop) /\ UNCHANGED <<todo, mpc, refused>>
           /\ told' = IF Head(todo) = "UNIQUE" /\ fresh[MainLoop] THEN Variant ELSE told
  <2>1. /\ mounted' = mounted /\ newMount' = newMount /\ at[MainLoop] = "queue"
        /\ mpc = "send"
    BY <1>2, <1>4, TxGoes, TxStep DEF Tx
  <2>2. ToldOrToCome'
    <3> SUFFICES ASSUME step = Len(Hello), mounted, ~newMount, ~refused
                 PROVE  told' = Variant \/ ToCome'
      BY <1>1, <1>4, <2>1 DEF ToldOrToCome, Variant
    <3>1. fresh[MainLoop]
      BY <2>1 DEF IInv, InHandIsFresh
    <3>2. told = Variant \/ ToCome
      BY DEF IInv, ToldOrToCome
    <3>3. CASE told = Variant
      BY <1>4, <3>3
    <3>4. CASE ToCome
      <4>1. PICK i \in DOMAIN todo : todo[i] = "UNIQUE"
        BY <3>4 DEF ToCome
      <4>2. CASE i = 1
        BY <1>2, <1>4, <2>1, <3>1, <4>1, <4>2, HeadTailProperties
      <4>3. CASE i # 1
        BY <1>4, <4>1, <4>3 DEF ToCome
      <4>4. QED BY <4>2, <4>3
    <3>5. QED BY <3>2, <3>3, <3>4
  <2>3. QED BY <1>1, <1>2, <1>4, <2>1, <2>2, LoopSends DEF Tx, IInv, LoopSound
<1>5. CASE TxDone(MainLoop) /\ Dealt /\ UNCHANGED <<refused, told>>
  <2>1. /\ mounted' = mounted /\ newMount' = newMount
        /\ at[MainLoop] = "flush" /\ at'[MainLoop] = "out" /\ mpc = "send"
    BY <1>2, <1>5, TxGoes, TxStep DEF Tx
  <2>2. /\ todo' \in Seq(Verbs) /\ mpc' \in {"send", "read"} /\ (mpc' = "send" <=> todo' # <<>>)
        /\ \A i \in DOMAIN todo : i # 1 => i - 1 \in DOMAIN todo' /\ todo'[i - 1] = todo[i]
    BY <1>5, <2>1, DealtGoes
  <2>3. ToCome => ToCome'
    BY <2>1, <2>2 DEF ToCome
  <2>4. ToldOrToCome'
    BY <1>1, <1>5, <2>1, <2>3 DEF IInv, ToldOrToCome, Variant
  <2>5. QED BY <1>1, <1>5, <2>1, <2>2, <2>4, LoopSends DEF Tx
<1>6. CASE (TxBusy(MainLoop) \/ TxNoRoom(MainLoop)) /\ Dealt /\ refused' = TRUE
  <2>1. at[MainLoop] # "out" /\ at'[MainLoop] = "out" /\ mpc = "send"
    BY <1>2, <1>6, TxGoes
  <2>2. /\ todo' \in Seq(Verbs) /\ mpc' \in {"send", "read"} /\ (mpc' = "send" <=> todo' # <<>>)
    BY <1>6, <2>1, DealtGoes
  <2>3. ToldOrToCome'
    BY <1>6 DEF ToldOrToCome
  <2>4. QED BY <1>1, <1>6, <2>1, <2>2, <2>3, LoopSends DEF Tx
<1>7. QED BY <1>3, <1>4, <1>5, <1>6 DEF MainTx, Variant

LEMMA ClockStep == IInv /\ Clock => IInv'
<1> SUFFICES ASSUME IInv, Clock PROVE IInv'
  OBVIOUS
<1>1. UNCHANGED <<portVars, link, tag, compatVars, autoReq, upc, hpc, ghosts, mpc, up, step, todo>>
  BY DEF Clock
<1>2. PortSound' /\ LoopSound' /\ InHandIsFresh'
  BY <1>1 DEF IInv, PortSound, LoopSound, InHandIsFresh, portVars
<1>3. ToldOrToCome' /\ ChoiceIsFirst' /\ ChoiceStands'
  BY <1>1 DEF IInv, ToldOrToCome, ToCome, Variant, ChoiceIsFirst, ChoiceStands, portVars,
              compatVars, ghosts
<1>4. QED BY <1>2, <1>3 DEF IInv

LEMMA RestartStep == IInv /\ Restart => IInv'
<1> SUFFICES ASSUME IInv, Restart PROVE IInv'
  OBVIOUS
<1>1. /\ at' = [s \in Senders |-> "out"] /\ fresh' = [s \in Senders |-> FALSE]
      /\ mounted' = FALSE /\ newMount' = FALSE /\ queued' = 0 /\ txLock' = NoSender
  BY DEF Restart, PortReset
<1>2. mounted' \in BOOLEAN /\ newMount' \in BOOLEAN /\ ~mounted' /\ fresh' \in [Senders -> BOOLEAN]
  BY <1>1
<1>3. PortSound'
  BY <1>1, <1>2, PortAssumption DEF PortSound
<1>4. LoopSound' /\ InHandIsFresh' /\ ToldOrToCome'
  BY <1>1, <1>2, ThreeSenders DEF Restart, LoopSound, InHandIsFresh, ToldOrToCome
<1>5. nvs' \in {"none", "on", "off"} /\ choice' = nvs'
  BY DEF Restart, Boot, IInv, ChoiceIsFirst
<1>6. on' \in BOOLEAN /\ (on' <=> nvs' = "on") /\ (explicit' <=> nvs' # "none")
  BY DEF Restart, Boot
<1>7. ChoiceIsFirst'
  BY <1>5, <1>6 DEF Restart, ChoiceIsFirst
<1>8. ChoiceStands'
  BY <1>5, <1>6 DEF Restart, ChoiceStands
<1>9. QED BY <1>3, <1>4, <1>7, <1>8 DEF IInv

-----------------------------------------------------------------------------
(***************************************************************************)
(* The theorems                                                            *)
(***************************************************************************)

\* The initial states satisfy the inductive invariant.
LEMMA Initial == Init => IInv
<1> SUFFICES ASSUME Init PROVE IInv
  OBVIOUS
<1>1. /\ at = [s \in Senders |-> "out"] /\ fresh = [s \in Senders |-> FALSE]
      /\ mounted = FALSE /\ newMount = FALSE /\ queued = 0 /\ txLock = NoSender
  BY DEF Init, PortInit
<1>2. mounted \in BOOLEAN /\ newMount \in BOOLEAN /\ ~mounted /\ fresh \in [Senders -> BOOLEAN]
  BY <1>1
<1>3. PortSound
  BY <1>1, <1>2, PortAssumption DEF PortSound
<1>4. LoopSound /\ InHandIsFresh /\ ToldOrToCome
  BY <1>1, <1>2, ThreeSenders DEF Init, LoopSound, InHandIsFresh, ToldOrToCome
<1>5. nvs \in {"none", "on", "off"} /\ choice = nvs
  BY DEF Init, Boot
<1>6. on \in BOOLEAN /\ (on <=> nvs = "on") /\ (explicit <=> nvs # "none")
  BY DEF Init, Boot
<1>7. ChoiceIsFirst /\ ChoiceStands
  BY <1>5, <1>6 DEF Init, ChoiceIsFirst, ChoiceStands
<1>8. QED BY <1>3, <1>4, <1>7 DEF IInv

\* Every step keeps the inductive invariant: one case per action.
LEMMA Inductive == IInv /\ [Next]_vars => IInv'
<1> SUFFICES ASSUME IInv, [Next]_vars PROVE IInv'
  OBVIOUS
<1>1. CASE MainStep
  BY <1>1, PassSteps, AutoSteps, GreetStep, SendNextStep, MainTxStep DEF MainStep
<1>2. CASE UsbStep \/ WebStep \/ Bus \/ Command
  BY <1>2, AskForSwitchStep, UsbStepKeeps, PostStoreStep, WebSends, BusStep DEF UsbStep, WebStep
<1>3. CASE Clock \/ Restart
  BY <1>3, ClockStep, RestartStep
<1>4. CASE \E k \in Kinds : RxFrame(k)
  BY <1>4, RxFrameStep
<1>5. CASE \E v \in BOOLEAN : Post(v)
  BY <1>5, PostStep
<1>6. CASE UNCHANGED vars
  <2>1. ChoiceIsFirst' /\ ChoiceStands'
    BY <1>6 DEF vars, IInv, ChoiceIsFirst, ChoiceStands, compatVars, mainVars, ghosts
  <2>2. QED BY <1>6, <2>1, QuietStep DEF vars, ghosts, sesVars, IInv, LoopSound
<1>7. QED BY <1>1, <1>2, <1>3, <1>4, <1>5, <1>6 DEF Next

\* The invariant holds however the three tasks, the host and the power take
\* their turns.
THEOREM InductiveInvariant == Spec => []IInv
BY Initial, Inductive, PTL DEF Spec

\* At the end of a pass of the main loop the dryer of this USB session has been
\* told the variant in force, or a frame of the introduction was refused
\* (main.c's handshake).
THEOREM EverySessionIsIntroduced == Spec => []IntroductionSound
<1>1. IInv => IntroductionSound
  <2> SUFFICES ASSUME IInv PROVE IntroductionSound
    OBVIOUS
  <2>1. TypeOK
    BY HelloIsLong DEF IInv, TypeOK, PortSound, LoopSound
  <2>2. mpc = "read" => ~ToCome
    BY DEF IInv, LoopSound, ToCome
  <2>3. Introduced
    BY <2>2 DEF IInv, ToldOrToCome, Introduced, Variant
  <2>4. QED BY <2>1, <2>3 DEF IntroductionSound
<1>2. QED BY <1>1, InductiveInvariant, PTL

\* The switch is what the owner last said, unless the automatic rule was at
\* work already when they did (hr_compat_set_644170).
THEOREM ChoiceAlwaysStands == Spec => []ChoiceStands
BY InductiveInvariant, PTL DEF IInv

\* A frame of an old session gets into the queue only from a sender that looked
\* at s_mounted in that session (hr_usb_tx).
THEOREM LateSendersOnly == Spec => OnlyALateSenderLeavesAFrame
<1> DEFINE A == (stale' /\ ~stale) =>
                  \E s \in Senders : at[s] = "queue" /\ at'[s] = "flush" /\ ~fresh[s]
<1>1. IInv /\ [Next]_vars => A
  <2> SUFFICES ASSUME IInv, [Next]_vars, stale', ~stale
               PROVE  \E s \in Senders : at[s] = "queue" /\ at'[s] = "flush" /\ ~fresh[s]
    OBVIOUS
  <2>1. \E s \in Senders : TxQueue(s)
    <3>1. CASE MainStep
      BY <3>1, ThreeSenders DEF MainStep, ReadClock, Tick, SeeMounts, AutoTake, AutoSet, AutoStore, Greet,
        SendNext, MainTx, TxEnter, TxNobody, TxLock, TxBusy, TxNoRoom, TxDone, portVars,
        PortButNewMount
    <3>2. CASE UsbStep \/ WebStep \/ Command
      BY <3>2, ThreeSenders DEF UsbStep, WebStep, AskForSwitch, Reply, UsbTx, PostStore, WebTx, Command,
        TxEnter, TxNobody, TxLock, TxBusy, TxNoRoom, TxDone, portVars
    <3>3. CASE Bus \/ Clock \/ Restart
      BY <3>3 DEF Bus, Mount, Umount, HostReads, Clock, Restart, PortReset, portVars
    <3>4. CASE \/ \E k \in Kinds : RxFrame(k)
               \/ \E v \in BOOLEAN : Post(v)
      BY <3>4 DEF RxFrame, Post, portVars
    <3>5. CASE UNCHANGED vars
      BY <3>5 DEF vars, portVars
    <3>6. QED BY <3>1, <3>2, <3>3, <3>4, <3>5 DEF Next
  <2>2. PICK s \in Senders : TxQueue(s)
    BY <2>1
  <2>3. at[s] = "queue" /\ at'[s] = "flush"
    BY <2>2, TxGoes DEF IInv
  <2>4. ~fresh[s]
    BY <2>2 DEF TxQueue
  <2>5. QED BY <2>3, <2>4
<1>2. []IInv /\ [][Next]_vars => [][A]_vars
  BY <1>1, PTL
<1>3. QED BY <1>2, InductiveInvariant, PTL DEF Spec, OnlyALateSenderLeavesAFrame

-----------------------------------------------------------------------------
(***************************************************************************)
(* Proofs about Stream, for any frames, any sizes of the two buffers and   *)
(* any disturbances: the framer collects one thing at a time, of which it  *)
(* has less than was declared, and never writes past either buffer.  The   *)
(* invariant is of the stream alone (Sound): each thing a byte may meet    *)
(* (skipping, a counted frame, a line, an end, a header, a block's first   *)
(* line) takes a sound stream to a sound one.                              *)
(***************************************************************************)

Streams ==
  [buf : Seq(Nat), over : BOOLEAN, encNeed : Nat, encSeen : BOOLEAN, long : Seq(Nat),
   longNeed : Nat, longSkip : Nat, longEnc : BOOLEAN, longNot : BOOLEAN]

\* One thing is collected at a time, and what there is of it is less than all.
Sound(s) ==
  /\ s \in Streams
  /\ Len(s.buf) <= MaxFrame - 1 /\ s.encNeed <= EncMax
  /\ s.encNeed > 0 => Len(s.buf) < s.encNeed /\ s.longNeed = 0 /\ s.longSkip = 0
  /\ s.longNeed > 0 => /\ s.buf = <<>> /\ Holds(s.longNeed) /\ Len(s.long) < s.longNeed
                       /\ s.longSkip = 0
  /\ s.longNeed = 0 => s.long = <<>>
  /\ s.longSkip > 0 => s.buf = <<>>

\* Of a stream that collects a line, or nothing.
Free(s) == Sound(s) /\ s.encNeed = 0 /\ s.longNeed = 0 /\ s.longSkip = 0

LEMMA StreamFields ==
  ASSUME NEW s \in Streams
  PROVE  /\ s.buf \in Seq(Nat) /\ Len(s.buf) \in Nat /\ s.over \in BOOLEAN
         /\ s.encNeed \in Nat /\ s.encSeen \in BOOLEAN
         /\ s.long \in Seq(Nat) /\ Len(s.long) \in Nat
         /\ s.longNeed \in Nat /\ s.longSkip \in Nat
         /\ s.longEnc \in BOOLEAN /\ s.longNot \in BOOLEAN
BY LenProperties DEF Streams

LEMMA BufferSizes ==
  MaxFrame \in Nat /\ MaxFrame > 5 /\ EncMax \in Nat /\ EncMax = MaxFrame - 1 /\ EncMax >= 5
BY StreamAssumption DEF EncMax, Hdr

LEMMA NoBytes == <<>> \in Seq(Nat) /\ Len(<<>>) = 0
OBVIOUS

LEMMA ByteAppended ==
  ASSUME NEW s \in Seq(Nat), NEW b \in Nat
  PROVE  Append(s, b) \in Seq(Nat) /\ Len(Append(s, b)) = Len(s) + 1 /\ Len(s) \in Nat
BY AppendProperties, LenProperties

\* What is left of a stream that drops its line.
LEMMA LineDropped ==
  ASSUME NEW s, Sound(s), s.longNeed = 0,
         NEW n, n \in Streams, n.buf = <<>>, n.encNeed = 0,
         n.long = s.long, n.longNeed = s.longNeed, n.longSkip = s.longSkip
  PROVE  Sound(n)
BY NoBytes, BufferSizes DEF Sound

LEMMA Abandoned ==
  ASSUME NEW s \in Streams, s.longNeed = 0, s.long = <<>>, s.longSkip = 0
  PROVE  Free(EncAbandon(s).st) /\ Free(EncDeliver(s).st)
<1> DEFINE a == [s EXCEPT !.buf = <<>>, !.encNeed = 0, !.over = FALSE]
           d == [s EXCEPT !.buf = <<>>, !.encNeed = 0]
<1>1. EncAbandon(s).st = a /\ EncDeliver(s).st = d
  BY DEF EncAbandon, EncDeliver
<1>2. /\ a \in Streams /\ a.buf = <<>> /\ a.encNeed = 0 /\ a.longNeed = 0 /\ a.long = <<>>
      /\ a.longSkip = 0
  BY NoBytes DEF Streams
<1>3. /\ d \in Streams /\ d.buf = <<>> /\ d.encNeed = 0 /\ d.longNeed = 0 /\ d.long = <<>>
      /\ d.longSkip = 0
  BY NoBytes DEF Streams
<1> HIDE DEF a, d
<1> QED BY <1>1, <1>2, <1>3, NoBytes, BufferSizes DEF Sound, Free

LEMMA LongDone ==
  ASSUME NEW s \in Streams, s.buf = <<>>, s.encNeed = 0, s.longSkip = 0
  PROVE  Free(LongAbandon(s).st) /\ Free(LongDeliver(s).st)
<1> DEFINE a == [s EXCEPT !.long = <<>>, !.longNeed = 0]
<1>1. LongAbandon(s).st = a /\ LongDeliver(s).st = a
  BY DEF LongAbandon, LongDeliver
<1>2. /\ a \in Streams /\ a.buf = <<>> /\ a.encNeed = 0 /\ a.longNeed = 0 /\ a.long = <<>>
      /\ a.longSkip = 0
  BY NoBytes DEF Streams
<1> HIDE DEF a
<1> QED BY <1>1, <1>2, NoBytes, BufferSizes DEF Sound, Free

LEMMA DiscardSound ==
  ASSUME NEW s, Sound(s)
  PROVE  Sound(DiscardPartial(s).st)
<1>1. s \in Streams /\ s.longNeed \in Nat /\ s.longSkip \in Nat /\ s.encNeed \in Nat
  BY StreamFields DEF Sound
<1>2. CASE s.longNeed > 0
  <2> DEFINE a == LongAbandon(s)
             n == [a EXCEPT !.st.buf = <<>>, !.st.over = FALSE]
             m == [a.st EXCEPT !.buf = <<>>, !.over = FALSE]
  <2>1. DiscardPartial(s) = n
    BY <1>2, <1>1 DEF DiscardPartial
  <2>2. n.st = m
    BY DEF LongAbandon
  <2>3. Free(a.st)
    BY <1>1, <1>2, LongDone DEF Sound
  <2> DEFINE r == a.st
  <2>4. m = [r EXCEPT !.buf = <<>>, !.over = FALSE]
    OBVIOUS
  <2> HIDE DEF a, n, r
  <2>5. /\ m \in Streams /\ m.buf = <<>> /\ m.encNeed = 0 /\ m.long = r.long
        /\ m.longNeed = r.longNeed /\ m.longSkip = r.longSkip
    BY <2>3, <2>4, NoBytes DEF Free, Sound, Streams, r
  <2> HIDE DEF m
  <2>6. Sound(m)
    BY <2>3, <2>5, LineDropped DEF Free, r
  <2> QED BY <2>1, <2>2, <2>6
<1>3. CASE s.longNeed = 0 /\ s.longSkip > 0
  <2> DEFINE n == [s EXCEPT !.longSkip = 0]
  <2>1. DiscardPartial(s).st = n
    BY <1>3 DEF DiscardPartial, Same
  <2>2. /\ n \in Streams /\ n.buf = s.buf /\ n.encNeed = s.encNeed /\ n.long = s.long
        /\ n.longNeed = s.longNeed /\ n.longSkip = 0
    BY <1>1 DEF Streams
  <2> HIDE DEF n
  <2> QED BY <2>1, <2>2, <1>1 DEF Sound
<1>4. CASE s.longNeed = 0 /\ s.longSkip = 0 /\ s.buf = <<>> /\ ~s.over
  BY <1>4 DEF DiscardPartial, Same
<1>5. CASE s.longNeed = 0 /\ s.longSkip = 0 /\ (s.buf # <<>> \/ s.over) /\ s.encNeed > 0
  <2>1. DiscardPartial(s) = EncAbandon(s)
    BY <1>5 DEF DiscardPartial
  <2> QED BY <2>1, <1>1, <1>5, Abandoned DEF Sound, Free
<1>6. CASE s.longNeed = 0 /\ s.longSkip = 0 /\ (s.buf # <<>> \/ s.over) /\ ~(s.encNeed > 0)
  <2> DEFINE n == [s EXCEPT !.buf = <<>>, !.over = FALSE]
  <2>1. DiscardPartial(s).st = n
    BY <1>6 DEF DiscardPartial, Reject
  <2>2. /\ n \in Streams /\ n.buf = <<>> /\ n.encNeed = s.encNeed /\ n.long = s.long
        /\ n.longNeed = s.longNeed /\ n.longSkip = s.longSkip
    BY <1>1, NoBytes DEF Streams
  <2>3. s.encNeed = 0
    BY <1>1, <1>6
  <2> HIDE DEF n
  <2> QED BY <2>1, <2>2, <2>3, <1>6, LineDropped
<1> QED BY <1>1, <1>2, <1>3, <1>4, <1>5, <1>6

\* hr_stream_feed, by the state the byte meets.
LEMMA FeedSkipSound ==
  ASSUME NEW s, Sound(s), s.longSkip > 0, NEW b \in Nat
  PROVE  Sound(FeedSkip(s, b).st)
<1> DEFINE n == [s EXCEPT !.longSkip = s.longSkip - 1]
<1>1. s \in Streams /\ s.longSkip - 1 \in Nat /\ s.longSkip \in Nat
      /\ s.longNeed \in Nat /\ s.encNeed \in Nat
  BY StreamFields DEF Sound
<1>2. FeedSkip(s, b).st = n
  BY DEF FeedSkip, Same
<1>3. /\ n \in Streams /\ n.buf = s.buf /\ n.encNeed = s.encNeed /\ n.long = s.long
      /\ n.longNeed = s.longNeed
  BY <1>1 DEF Streams
<1>4. s.buf = <<>> /\ s.encNeed = 0 /\ s.longNeed = 0
  BY <1>1 DEF Sound
<1> HIDE DEF n
<1> QED BY <1>1, <1>2, <1>3, <1>4 DEF Sound

LEMMA FeedLongSound ==
  ASSUME NEW s, Sound(s), s.longNeed > 0, NEW b \in Nat
  PROVE  Sound(FeedLong(s, b).st)
<1>1. /\ s \in Streams /\ s.longNeed \in Nat /\ s.encNeed \in Nat /\ s.long \in Seq(Nat)
      /\ Len(s.long) \in Nat /\ s.buf = <<>> /\ Len(s.long) < s.longNeed /\ s.longSkip = 0
      /\ s.encNeed = 0 /\ Holds(s.longNeed)
  BY StreamFields DEF Sound
<1>2. CASE s.longEnc /\ ~Printable(b)
  BY <1>1, <1>2, LongDone DEF FeedLong, Free
<1>3. CASE ~(s.longEnc /\ ~Printable(b))
  <2> DEFINE w == Append(s.long, b)
             n == [s EXCEPT !.long = w]
  <2>1. w \in Seq(Nat) /\ Len(w) = Len(s.long) + 1
    BY <1>1, ByteAppended
  <2>2. FeedLong(s, b) = IF Len(n.long) = s.longNeed THEN LongDeliver(n) ELSE Same(n)
    BY <1>3 DEF FeedLong
  <2> HIDE DEF w
  <2>3. /\ n \in Streams /\ n.buf = <<>> /\ n.encNeed = 0 /\ n.long = w
        /\ n.longNeed = s.longNeed /\ n.longSkip = 0
    BY <1>1, <2>1 DEF Streams
  <2> HIDE DEF n
  <2>4. CASE Len(w) = s.longNeed
    BY <2>2, <2>3, <2>4, LongDone DEF Free
  <2>5. CASE Len(w) # s.longNeed
    <3>1. Len(w) < s.longNeed
      BY <2>5, <2>1, <1>1
    <3>2. FeedLong(s, b).st = n
      BY <2>2, <2>3, <2>5 DEF Same
    <3> QED BY <3>1, <3>2, <2>3, <1>1, NoBytes, BufferSizes DEF Sound
  <2> QED BY <2>4, <2>5
<1> QED BY <1>2, <1>3

LEMMA FeedEncSound ==
  ASSUME NEW s, Sound(s), s.encNeed > 0, NEW b \in Nat
  PROVE  Sound(FeedEnc(s, b).st)
<1>1. /\ s \in Streams /\ s.encNeed \in Nat /\ s.buf \in Seq(Nat) /\ Len(s.buf) \in Nat
      /\ Len(s.buf) < s.encNeed /\ s.longNeed = 0 /\ s.longSkip = 0 /\ s.long = <<>>
      /\ s.encNeed <= EncMax
  BY StreamFields DEF Sound
<1>2. CASE ~Printable(b)
  BY <1>1, <1>2, Abandoned DEF FeedEnc, Free
<1>3. CASE Printable(b)
  <2> DEFINE w == Append(s.buf, b)
             n == [s EXCEPT !.buf = w]
  <2>1. w \in Seq(Nat) /\ Len(w) = Len(s.buf) + 1
    BY <1>1, ByteAppended
  <2>2. FeedEnc(s, b) = IF Len(n.buf) = s.encNeed THEN EncDeliver(n) ELSE Same(n)
    BY <1>3 DEF FeedEnc
  <2> HIDE DEF w
  <2>3. /\ n \in Streams /\ n.buf = w /\ n.encNeed = s.encNeed /\ n.long = <<>>
        /\ n.longNeed = 0 /\ n.longSkip = 0
    BY <1>1, <2>1 DEF Streams
  <2> HIDE DEF n
  <2>4. CASE Len(w) = s.encNeed
    BY <2>2, <2>3, <2>4, Abandoned DEF Free
  <2>5. CASE Len(w) # s.encNeed
    <3>1. Len(w) < s.encNeed /\ Len(w) <= MaxFrame - 1
      <4> DEFINE l == Len(w)
                 c == s.encNeed
                 k == Len(s.buf)
      <4>1. k \in Nat /\ c \in Nat /\ l = k + 1 /\ k < c /\ l # c /\ c <= EncMax
        BY <1>1, <2>1, <2>5
      <4> HIDE DEF l, c, k
      <4>2. l < c /\ l <= MaxFrame - 1
        BY <4>1, BufferSizes
      <4> QED BY <4>2 DEF l, c
    <3>2. FeedEnc(s, b).st = n
      BY <2>2, <2>3, <2>5 DEF Same
    <3> QED BY <3>1, <3>2, <2>3, <1>1 DEF Sound
  <2> QED BY <2>4, <2>5
<1> QED BY <1>2, <1>3

LEMMA FeedEndSound ==
  ASSUME NEW s, Free(s)
  PROVE  Sound(FeedEnd(s).st)
<1> DEFINE n == [s EXCEPT !.buf = <<>>, !.over = FALSE, !.longNot = FALSE]
<1>1. FeedEnd(s).st = n
  BY DEF FeedEnd, Reject, Same
<1>2. /\ n \in Streams /\ n.buf = <<>> /\ n.encNeed = s.encNeed /\ n.long = s.long
      /\ n.longNeed = s.longNeed /\ n.longSkip = s.longSkip
  BY NoBytes DEF Streams, Sound, Free
<1> HIDE DEF n
<1> QED BY <1>1, <1>2, LineDropped DEF Free

LEMMA FeedNoiseSound ==
  ASSUME NEW s, Free(s)
  PROVE  Sound(FeedNoise(s).st)
<1> DEFINE n == [s EXCEPT !.buf = <<>>, !.over = FALSE, !.longNot = FALSE]
<1>1. FeedNoise(s).st = n \/ FeedNoise(s).st = s
  BY DEF FeedNoise, Reject, Same
<1>2. /\ n \in Streams /\ n.buf = <<>> /\ n.encNeed = s.encNeed /\ n.long = s.long
      /\ n.longNeed = s.longNeed /\ n.longSkip = s.longSkip
  BY NoBytes DEF Streams, Sound, Free
<1> HIDE DEF n
<1> QED BY <1>1, <1>2, LineDropped DEF Free

LEMMA EncDecodeLenIsInt ==
  ASSUME NEW h
  PROVE  EncDecodeLen(h) \in Int
<1>1. CASE IsDigit(h[3]) /\ IsDigit(h[4])
  <2>1. h[3] \in Int /\ h[4] \in Int /\ Radix \in Int
    BY <1>1, StreamAssumption DEF IsDigit
  <2>2. h[3] * Radix \in Int
    BY <2>1
  <2>3. h[3] * Radix + h[4] \in Int
    BY <2>1, <2>2
  <2> QED BY <2>3 DEF EncDecodeLen
<1>2. CASE ~(IsDigit(h[3]) /\ IsDigit(h[4]))
  BY <1>2 DEF EncDecodeLen
<1> QED BY <1>1, <1>2

LEMMA FeedHeaderSound ==
  ASSUME NEW s, Free(s), HasHeader(s)
  PROVE  Sound(FeedHeader(s).st)
<1> DEFINE need == EncDecodeLen(s.buf)
           seen == [s EXCEPT !.encSeen = TRUE, !.encNeed = need]
           longer == [s EXCEPT !.encSeen = TRUE, !.long = s.buf, !.longNeed = need,
                           !.longEnc = TRUE, !.buf = <<>>]
<1>1. /\ s \in Streams /\ s.buf \in Seq(Nat) /\ s.longNeed = 0 /\ s.longSkip = 0
      /\ s.long = <<>> /\ s.encNeed = 0 /\ Len(s.buf) = Hdr /\ Hdr = 4
  BY StreamFields DEF Free, Sound, HasHeader, Hdr
<1>2. need \in Int
  BY EncDecodeLenIsInt
<1>3. FeedHeader(s) = IF need > EncMax /\ Holds(need) THEN Same(longer)
                      ELSE IF need > EncMax THEN EncAbandon(seen)
                      ELSE IF need = Hdr THEN EncDeliver(seen)
                      ELSE IF need > Hdr THEN Same(seen)
                      ELSE Same(s)
  BY DEF FeedHeader
<1> HIDE DEF need
<1>4. need \in Nat =>
        /\ seen \in Streams /\ seen.buf = s.buf /\ seen.encNeed = need /\ seen.long = <<>>
        /\ seen.longNeed = 0 /\ seen.longSkip = 0
  BY <1>1 DEF Streams
<1>5. need \in Nat =>
        /\ longer \in Streams /\ longer.buf = <<>> /\ longer.encNeed = 0 /\ longer.long = s.buf
        /\ longer.longNeed = need /\ longer.longSkip = 0
  BY <1>1, NoBytes DEF Streams
<1> HIDE DEF seen, longer
<1>6. CASE need > EncMax /\ Holds(need)
  <2>1. need \in Nat /\ Len(s.buf) < need
    BY <1>1, <1>2, <1>6, BufferSizes
  <2>2. FeedHeader(s).st = longer
    BY <1>3, <1>6 DEF Same
  <2>3. Sound(longer)
    <3>1. longer \in Streams /\ Len(longer.buf) <= MaxFrame - 1 /\ longer.encNeed <= EncMax
      BY <2>1, <1>5, NoBytes, BufferSizes
    <3>2. longer.longNeed = need /\ longer.long = s.buf
      BY <2>1, <1>5
    <3>3. Holds(longer.longNeed) /\ Len(longer.long) < longer.longNeed
      BY <2>1, <3>2, <1>6
    <3>4. longer.longNeed # 0
      BY <2>1, <3>2, <1>1
    <3> QED BY <3>1, <3>3, <3>4, <2>1, <1>5 DEF Sound
  <2> QED BY <2>2, <2>3
<1>7. CASE need > EncMax /\ ~Holds(need)
  <2>1. need \in Nat
    BY <1>2, <1>7, BufferSizes
  <2> QED BY <2>1, <1>3, <1>4, <1>7, Abandoned DEF Free
<1>8. CASE ~(need > EncMax) /\ need = Hdr
  BY <1>1, <1>3, <1>4, <1>8, Abandoned DEF Free
<1>9. CASE ~(need > EncMax) /\ need # Hdr /\ need > Hdr
  <2>1. need \in Nat /\ Len(s.buf) < need /\ need <= EncMax /\ Len(s.buf) <= MaxFrame - 1
    BY <1>1, <1>2, <1>9, BufferSizes
  <2>2. FeedHeader(s).st = seen
    BY <1>3, <1>9 DEF Same
  <2>3. Sound(seen)
    BY <2>1, <1>4 DEF Sound
  <2> QED BY <2>2, <2>3
<1>10. CASE ~(need > EncMax) /\ need # Hdr /\ ~(need > Hdr)
  BY <1>3, <1>10 DEF Same, Free
<1> QED BY <1>6, <1>7, <1>8, <1>9, <1>10

LEMMA ResyncSound ==
  ASSUME NEW s, Free(s), NEW b \in Nat
  PROVE  Free(Resync(s, b).st)
<1> DEFINE cut == [s EXCEPT !.buf = SubSeq(@, 1, Len(@) - 2)]
           a == EncAbandon(cut)
           n == [a EXCEPT !.st.buf = <<Open, Ess>>]
           m == [a.st EXCEPT !.buf = <<Open, Ess>>]
<1>1. /\ s \in Streams /\ s.buf \in Seq(Nat) /\ s.longNeed = 0 /\ s.longSkip = 0
      /\ s.long = <<>> /\ s.encNeed = 0
  BY StreamFields DEF Free, Sound
<1>2. CASE Resync(s, b) = Same(s)
  BY <1>2 DEF Same
<1>3. CASE Resync(s, b) = n /\ Len(s.buf) >= 3
  <2>1. n.st = m
    BY DEF EncAbandon
  <2>2. SubSeq(s.buf, 1, Len(s.buf) - 2) \in Seq(Nat)
    <3> DEFINE q == s.buf
    <3>1. q \in Seq(Nat) /\ Len(q) \in Nat /\ Len(q) >= 3
      BY <1>1, <1>3, StreamFields
    <3> HIDE DEF q
    <3>2. SubSeq(q, 1, Len(q) - 2) \in Seq(Nat)
      BY <3>1, SubSeqProperties
    <3> QED BY <3>2 DEF q
  <2>3. cut \in Streams /\ cut.longNeed = 0 /\ cut.longSkip = 0 /\ cut.long = <<>>
    BY <1>1, <2>2 DEF Streams
  <2> HIDE DEF cut
  <2>4. Free(a.st)
    BY <2>3, Abandoned
  <2> DEFINE r == a.st
             w == <<Open, Ess>>
  <2>5. w \in Seq(Nat) /\ Len(w) = 2
    BY DEF Open, Ess
  <2>6. m = [r EXCEPT !.buf = w]
    OBVIOUS
  <2> HIDE DEF a, n, r, w
  <2>7. /\ m \in Streams /\ m.buf = w /\ m.encNeed = 0 /\ m.long = r.long
        /\ m.longNeed = 0 /\ m.longSkip = 0
    BY <2>4, <2>5, <2>6 DEF Free, Sound, Streams, r
  <2> HIDE DEF m
  <2>8. r.long = <<>>
    BY <2>4 DEF Free, Sound, r
  <2>9. Len(m.buf) <= MaxFrame - 1 /\ m.encNeed <= EncMax
    <3>1. Len(m.buf) = 2 /\ m.encNeed = 0
      BY <2>5, <2>7
    <3> QED BY <3>1, BufferSizes
  <2>10. Free(m)
    BY <2>7, <2>8, <2>9 DEF Free, Sound
  <2>11. Resync(s, b).st = m
    BY <2>1, <1>3
  <2> QED BY <2>10, <2>11
<1>4. Resync(s, b) = Same(s) \/ (Resync(s, b) = n /\ Len(s.buf) >= 3)
  BY DEF Resync
<1> QED BY <1>2, <1>3, <1>4

LEMMA ResyncIsResult ==
  ASSUME NEW s, NEW b
  PROVE  \E o : Resync(s, b) = [st |-> Resync(s, b).st, out |-> o]
<1> DEFINE cut == [s EXCEPT !.buf = SubSeq(@, 1, Len(@) - 2)]
           a == EncAbandon(cut)
           n == [a EXCEPT !.st.buf = <<Open, Ess>>]
<1>1. CASE Resync(s, b) = Same(s)
  BY <1>1 DEF Same
<1>2. CASE Resync(s, b) = n
  <2>1. n = [st |-> n.st, out |-> a.out]
    <3> HIDE DEF cut
    <3> QED BY DEF EncAbandon
  <2> HIDE DEF n
  <2> QED BY <2>1, <1>2
<1>3. Resync(s, b) = Same(s) \/ Resync(s, b) = n
  BY DEF Resync
<1> QED BY <1>1, <1>2, <1>3

\* A set of numbers has a least one: the first comma of a line.
LEMMA LeastOf ==
  ASSUME NEW T \in SUBSET Nat, T # {}
  PROVE  \E n \in T : \A m \in T : n <= m
<1> DEFINE less == {ss \in Nat \X Nat : ss[1] < ss[2]}
<1>1. IsWellFoundedOn(less, Nat)
  BY NatLessThanWellFounded, Zenon DEF OpToRel
<1> HIDE DEF less
<1>2. PICK n \in T : \A m \in T : ~(<<m, n>> \in less)
  BY <1>1, WFMin
<1>3. \A m \in T : ~(m < n)
  BY <1>2 DEF less
<1> QED BY <1>3

LEMMA BlockMeasureIsInt ==
  ASSUME NEW line \in Seq(Nat)
  PROVE  BlockMeasure(line) \in Int
<1> DEFINE first(i) == line[i] = Comma /\ \A j \in 2 .. i - 1 : line[j] # Comma
           commas == {i \in 2 .. Len(line) : line[i] = Comma}
           place == CHOOSE i \in 2 .. Len(line) : first(i)
           nameLen == IF \E i \in 2 .. Len(line) : line[i] = Comma
                      THEN place - 2 ELSE Len(line) - 1
           digit == nameLen + 3
<1>1. Len(line) \in Nat /\ NameMax \in Nat /\ SumLen \in Nat /\ Radix \in Nat
  BY LenProperties, StreamAssumption
<1>2. (\E i \in 2 .. Len(line) : line[i] = Comma) => place \in 2 .. Len(line)
  <2> HAVE \E i \in 2 .. Len(line) : line[i] = Comma
  <2>1. commas \in SUBSET Nat /\ commas # {}
    BY <1>1
  <2>2. PICK n \in commas : \A m \in commas : n <= m
    BY <2>1, LeastOf, Zenon
  <2>3. n \in 2 .. Len(line) /\ line[n] = Comma
    OBVIOUS
  <2>4. \A j \in 2 .. n - 1 : j \in 2 .. Len(line) /\ ~(n <= j)
    BY <2>3, <1>1
  <2>5. \A j \in 2 .. n - 1 : line[j] # Comma
    BY <2>2, <2>4
  <2>6. \E i \in 2 .. Len(line) : first(i)
    BY <2>3, <2>5
  <2> QED BY <2>6, Zenon
<1>3. nameLen \in Int
  <2> HIDE DEF place
  <2> QED BY <1>1, <1>2
<1>4. BlockMeasure(line) =
        CASE line[1] # Verb                     -> -1
          [] line[1] = Verb /\ nameLen >= NameMax -> -1
          [] line[1] = Verb /\ nameLen < NameMax ->
             IF Len(line) < digit THEN 0
             ELSE IF ~IsDigit(line[digit]) \/ line[digit] > FileBlock THEN -1
             ELSE digit + line[digit] + SumLen
  BY Zenon DEF BlockMeasure
<1> DEFINE d == line[digit]
<1>5. IsDigit(d) => d \in Int
  BY <1>1 DEF IsDigit
<1>6. digit \in Int
  BY <1>3
<1> HIDE DEF nameLen, digit, d
<1>7. IsDigit(d) => digit + d + SumLen \in Int
  BY <1>1, <1>5, <1>6
<1>8. BlockMeasure(line) = -1 \/ BlockMeasure(line) = 0
      \/ (IsDigit(d) /\ BlockMeasure(line) = digit + d + SumLen)
  <2>1. nameLen >= NameMax \/ nameLen < NameMax
    BY <1>1, <1>3
  <2>2. BlockMeasure(line) =
        CASE line[1] # Verb                     -> -1
          [] line[1] = Verb /\ nameLen >= NameMax -> -1
          [] line[1] = Verb /\ nameLen < NameMax ->
             IF Len(line) < digit THEN 0
             ELSE IF ~IsDigit(d) \/ d > FileBlock THEN -1
             ELSE digit + d + SumLen
    BY <1>4, Zenon DEF d
  <2> QED BY <2>1, <2>2, <1>1, <1>3
<1> QED BY <1>7, <1>8

LEMMA AskMeasureSound ==
  ASSUME NEW q, NEW o, Free(q)
  PROVE  Sound(AskMeasure([st |-> q, out |-> o]).st)
<1> DEFINE r == [st |-> q, out |-> o]
           total == BlockMeasure(q.buf)
           not == [q EXCEPT !.longNot = TRUE]
           held == [q EXCEPT !.long = q.buf, !.longNeed = total, !.longEnc = FALSE,
                             !.buf = <<>>]
           skip == [q EXCEPT !.longSkip = total - Len(q.buf), !.buf = <<>>]
<1>1. /\ q \in Streams /\ q.buf \in Seq(Nat) /\ Len(q.buf) \in Nat /\ q.longNeed = 0
      /\ q.longSkip = 0 /\ q.long = <<>> /\ q.encNeed = 0
  BY StreamFields DEF Free, Sound
<1>2. total \in Int
  BY <1>1, BlockMeasureIsInt
<1>3. AskMeasure(r).st = IF q.longNot \/ q.over THEN q
                         ELSE IF total < 0 THEN not
                         ELSE IF total <= Len(q.buf) THEN q
                         ELSE IF Holds(total) THEN held
                         ELSE skip
  BY DEF AskMeasure
<1> HIDE DEF total
<1>4. /\ not \in Streams /\ not.buf = q.buf /\ not.encNeed = 0 /\ not.long = <<>>
      /\ not.longNeed = 0 /\ not.longSkip = 0
  BY <1>1 DEF Streams
<1>5. total \in Nat =>
        /\ held \in Streams /\ held.buf = <<>> /\ held.encNeed = 0 /\ held.long = q.buf
        /\ held.longNeed = total /\ held.longSkip = 0
  BY <1>1, NoBytes DEF Streams
<1>6. total - Len(q.buf) \in Nat =>
        /\ skip \in Streams /\ skip.buf = <<>> /\ skip.encNeed = 0 /\ skip.long = <<>>
        /\ skip.longNeed = 0 /\ skip.longSkip = total - Len(q.buf)
  BY <1>1, NoBytes DEF Streams
<1> HIDE DEF not, held, skip
<1>7. Sound(q)
  BY DEF Free
<1>8. Sound(not)
  BY <1>4, <1>7, <1>1 DEF Sound
<1>9. total > Len(q.buf) /\ Holds(total) => Sound(held)
  <2> HAVE total > Len(q.buf) /\ Holds(total)
  <2>1. total \in Nat /\ Len(q.buf) < total
    BY <1>1, <1>2
  <2>2. Holds(held.longNeed) /\ Len(held.long) < held.longNeed
    BY <2>1, <1>5
  <2>3. Len(held.buf) <= MaxFrame - 1 /\ held.encNeed <= EncMax
    BY <2>1, <1>5, NoBytes, BufferSizes
  <2>4. held.longNeed # 0
    BY <2>1, <1>5, <1>1
  <2> QED BY <2>1, <2>2, <2>3, <2>4, <1>5 DEF Sound
<1>10. total > Len(q.buf) => Sound(skip)
  <2> HAVE total > Len(q.buf)
  <2>1. total - Len(q.buf) \in Nat
    BY <1>1, <1>2
  <2>2. Len(skip.buf) <= MaxFrame - 1 /\ skip.encNeed <= EncMax
    BY <2>1, <1>6, NoBytes, BufferSizes
  <2> QED BY <2>1, <2>2, <1>6 DEF Sound
<1>11. total <= Len(q.buf) \/ total > Len(q.buf)
  BY <1>1, <1>2
<1> QED BY <1>3, <1>7, <1>8, <1>9, <1>10, <1>11

LEMMA FeedPrintableSound ==
  ASSUME NEW s, Free(s), NEW b \in Nat
  PROVE  Sound(FeedPrintable(s, b).st)
<1> DEFINE w == Append(s.buf, b)
           longer == [s EXCEPT !.buf = w]
           over == [s EXCEPT !.over = TRUE]
           next == IF Len(s.buf) < MaxFrame - 1 THEN longer ELSE over
<1>1. /\ s \in Streams /\ s.buf \in Seq(Nat) /\ Len(s.buf) \in Nat /\ s.longNeed = 0
      /\ s.longSkip = 0 /\ s.long = <<>> /\ s.encNeed = 0 /\ Len(s.buf) <= MaxFrame - 1
  BY StreamFields DEF Free, Sound
<1>2. w \in Seq(Nat) /\ Len(w) = Len(s.buf) + 1
  BY <1>1, ByteAppended
<1>3. FeedPrintable(s, b) = IF HasHeader(next) THEN FeedHeader(next)
                            ELSE AskMeasure(Resync(next, b))
  BY DEF FeedPrintable
<1> HIDE DEF w
<1>4. /\ longer \in Streams /\ longer.buf = w /\ longer.encNeed = 0 /\ longer.long = <<>>
      /\ longer.longNeed = 0 /\ longer.longSkip = 0
  BY <1>1, <1>2 DEF Streams
<1>5. /\ over \in Streams /\ over.buf = s.buf /\ over.encNeed = 0 /\ over.long = <<>>
      /\ over.longNeed = 0 /\ over.longSkip = 0
  BY <1>1 DEF Streams
<1> HIDE DEF longer, over
<1>6. Len(s.buf) < MaxFrame - 1 => Free(longer)
  <2> HAVE Len(s.buf) < MaxFrame - 1
  <2>1. Len(w) <= MaxFrame - 1
    BY <1>1, <1>2, BufferSizes
  <2> QED BY <2>1, <1>4, BufferSizes DEF Free, Sound
<1>7. Free(over)
  BY <1>1, <1>5, BufferSizes DEF Free, Sound
<1>8. Free(next)
  BY <1>6, <1>7
<1> HIDE DEF next
<1>9. CASE HasHeader(next)
  BY <1>3, <1>8, <1>9, FeedHeaderSound
<1>10. CASE ~HasHeader(next)
  <2>1. Free(Resync(next, b).st)
    BY <1>8, ResyncSound
  <2>2. PICK o : Resync(next, b) = [st |-> Resync(next, b).st, out |-> o]
    BY ResyncIsResult
  <2> DEFINE q == Resync(next, b).st
  <2>3. AskMeasure(Resync(next, b)) = AskMeasure([st |-> q, out |-> o])
    BY <2>2
  <2>4. Free(q)
    BY <2>1
  <2> HIDE DEF q
  <2> QED BY <2>3, <2>4, <1>3, <1>10, AskMeasureSound
<1> QED BY <1>9, <1>10

LEMMA FeedSound ==
  ASSUME NEW s, Sound(s), NEW b \in Nat
  PROVE  Sound(Feed(s, b).st)
<1>1. s.longSkip \in Nat /\ s.longNeed \in Nat /\ s.encNeed \in Nat
  BY StreamFields DEF Sound
<1>2. CASE s.longSkip > 0
  BY <1>2, FeedSkipSound DEF Feed
<1>3. CASE ~(s.longSkip > 0) /\ s.longNeed > 0
  BY <1>3, FeedLongSound DEF Feed
<1>4. CASE ~(s.longSkip > 0) /\ ~(s.longNeed > 0) /\ s.encNeed > 0
  BY <1>4, FeedEncSound DEF Feed
<1>5. CASE ~(s.longSkip > 0) /\ ~(s.longNeed > 0) /\ ~(s.encNeed > 0)
  <2>1. Free(s)
    BY <1>1, <1>5 DEF Free
  <2>2. Sound(FeedEnd(s).st) /\ Sound(FeedNoise(s).st) /\ Sound(FeedPrintable(s, b).st)
    BY <2>1, FeedEndSound, FeedNoiseSound, FeedPrintableSound
  <2>3. Feed(s, b) \in {FeedEnd(s), FeedNoise(s), FeedPrintable(s, b)}
    BY <1>5, Zenon DEF Feed
  <2> QED BY <2>2, <2>3
<1> QED BY <1>2, <1>3, <1>4, <1>5

-----------------------------------------------------------------------------
(* The inductive invariant: a sound stream, and a dryer inside its frame. *)
StreamIInv ==
  /\ Sound(st)
  /\ frame \in Frames \cup {NoFrame}
  /\ pos \in 0 .. Len(frame.bytes)

LEMMA ReceivedSound ==
  ASSUME Sound(st), NEW b \in Nat
  PROVE  Sound(Received(b).st)
<1> DEFINE d == IF Stale THEN DiscardPartial(st) ELSE Same(st)
<1>1. Sound(d.st)
  BY DiscardSound DEF Same
<1>2. Received(b).st = Feed(d.st, b).st
  BY Zenon DEF Received
<1> DEFINE q == d.st
<1>3. Sound(q)
  BY <1>1
<1> HIDE DEF d, q
<1> QED BY <1>2, <1>3, FeedSound DEF q

LEMMA FrameBytes ==
  ASSUME NEW f \in Frames \cup {NoFrame}
  PROVE  /\ Len(f.bytes) \in Nat
         /\ \A i \in 1 .. Len(f.bytes) : f.bytes[i] \in Nat
<1>1. CASE f = NoFrame
  BY <1>1 DEF NoFrame
<1>2. CASE f \in Frames
  <2>1. f.bytes \in Seq(0 .. 255)
    BY <1>2, FramesAssumption
  <2>2. Len(f.bytes) \in Nat
    BY <2>1, LenProperties
  <2>3. \A i \in 1 .. Len(f.bytes) : f.bytes[i] \in 0 .. 255
    BY <2>1, <2>2, ElementOfSeq
  <2>4. \A i \in 1 .. Len(f.bytes) : f.bytes[i] \in Nat
    <3> TAKE i \in 1 .. Len(f.bytes)
    <3> DEFINE b == f.bytes[i]
    <3>1. b \in 0 .. 255
      BY <2>3
    <3> HIDE DEF b
    <3>2. b \in Nat
      BY <3>1
    <3> QED BY <3>2 DEF b
  <2> QED BY <2>2, <2>4
<1> QED BY <1>1, <1>2

LEMMA StreamStarts ==
  ASSUME StreamInit
  PROVE  StreamIInv
<1>1. EmptyStream \in Streams
  BY NoBytes DEF EmptyStream, Streams
<1>2. Sound(EmptyStream)
  BY <1>1, NoBytes, BufferSizes DEF Sound, EmptyStream
<1>3. Len(NoFrame.bytes) = 0
  BY DEF NoFrame
<1> QED BY <1>2, <1>3 DEF StreamInit, StreamIInv

LEMMA StreamStep ==
  ASSUME StreamIInv, [StreamNext]_streamVars
  PROVE  StreamIInv'
<1>1. CASE UNCHANGED streamVars
  BY <1>1 DEF streamVars, StreamIInv, Sound
<1>2. CASE \E f \in Frames : Begin(f)
  <2>1. PICK f \in Frames : Begin(f)
    BY <1>2
  <2>2. st' = st /\ frame' = f /\ pos' = 0
    BY <2>1 DEF Begin
  <2>3. Len(f.bytes) \in Nat
    BY FrameBytes
  <2> QED BY <2>2, <2>3 DEF StreamIInv, Sound
<1>3. CASE Write
  <2>1. pos' = pos + 1 /\ frame' = frame /\ pos # Len(frame.bytes)
    BY <1>3 DEF Write, Between
  <2>2. Len(frame.bytes) \in Nat
    BY FrameBytes DEF StreamIInv
  <2>3. pos' \in 1 .. Len(frame.bytes)
    BY <2>1, <2>2 DEF StreamIInv
  <2> DEFINE b == frame.bytes[pos + 1]
  <2>4. b \in Nat
    BY <2>1, <2>3, FrameBytes DEF StreamIInv
  <2>5. st' = Received(b).st
    BY <1>3 DEF Write, Rx
  <2> HIDE DEF b
  <2>6. Sound(Received(b).st)
    BY <2>4, ReceivedSound DEF StreamIInv
  <2>7. Sound(st')
    BY <2>5, <2>6
  <2>8. pos' \in 0 .. Len(frame'.bytes)
    BY <2>1, <2>2, <2>3
  <2> QED BY <2>1, <2>7, <2>8 DEF StreamIInv, Sound
<1>4. CASE Quiet
  BY <1>4 DEF Quiet, StreamIInv, Sound
<1>5. CASE Cut
  <2>1. st' = st /\ frame' = NoFrame /\ pos' = 0
    BY <1>5 DEF Cut
  <2>2. Len(NoFrame.bytes) = 0
    BY DEF NoFrame
  <2> QED BY <2>1, <2>2 DEF StreamIInv, Sound
<1>6. CASE \E b \in {Letter, Noise} : Stray(b)
  <2>1. PICK b \in {Letter, Noise} : Stray(b)
    BY <1>6
  <2>2. b \in Nat
    BY DEF Letter, Noise
  <2>3. st' = Received(b).st /\ frame' = frame /\ pos' = pos
    BY <2>1 DEF Stray, Rx
  <2>4. Sound(Received(b).st)
    BY <2>2, ReceivedSound DEF StreamIInv
  <2>5. Sound(st')
    BY <2>3, <2>4
  <2> QED BY <2>3, <2>5 DEF StreamIInv, Sound
<1> QED BY <1>1, <1>2, <1>3, <1>4, <1>5, <1>6 DEF StreamNext

LEMMA SoundIsInside ==
  ASSUME Sound(st)
  PROVE  InsideBuffers
<1> DEFINE busy == {n \in {"enc", "long", "skip"} :
                    \/ n = "enc" /\ st.encNeed > 0
                    \/ n = "long" /\ st.longNeed > 0
                    \/ n = "skip" /\ st.longSkip > 0}
<1>1. st.encNeed \in Nat /\ st.longNeed \in Nat /\ st.longSkip \in Nat
  BY StreamFields DEF Sound
<1>2. \A m, n \in busy : m = n
  BY <1>1 DEF Sound
<1>3. busy = {} \/ \E n : busy = {n}
  BY <1>2
<1>4. Cardinality(busy) <= 1
  <2> HIDE DEF busy
  <2>1. busy = {} => Cardinality(busy) = 0
    BY FS_EmptySet
  <2>2. ASSUME NEW n, busy = {n} PROVE Cardinality(busy) = 1
    BY <2>2, FS_Singleton
  <2> QED BY <1>3, <2>1, <2>2
<1>5. st.longSkip > 0 => st.buf = <<>> /\ st.longNeed = 0
  BY <1>1 DEF Sound
<1> QED BY <1>4, <1>5 DEF InsideBuffers, Sound

\* For any frames, faults and pauses: neither buffer is filled past its end,
\* what is collected is less than what was declared, and it is one thing.
THEOREM BuffersNeverOverrun == StreamSpec => []InsideBuffers
<1>1. StreamInit => StreamIInv
  BY StreamStarts
<1>2. StreamIInv /\ [StreamNext]_streamVars => StreamIInv'
  BY StreamStep
<1>3. StreamIInv => InsideBuffers
  BY SoundIsInside DEF StreamIInv
<1> QED BY <1>1, <1>2, <1>3, PTL DEF StreamSpec
=============================================================================
