---------------------------- MODULE ControlProofs ----------------------------
(***************************************************************************)
(* Proofs about Control for any screens, time limits, number of tries and  *)
(* width of the clock: what is sent was allowed, is timely and carries a   *)
(* counter of its own, and PINs cannot be tried faster than the lock-out   *)
(* lets them be.  Then about Logbook: for any dryers and any cuts of the   *)
(* power, a record that was begun is kept until it is given up; for orderly *)
(* dryers a whole run is recorded once, as it was, with the time it took.  *)
(***************************************************************************)
EXTENDS Control, Logbook, SequenceTheorems, FiniteSetTheorems, TLAPS

-----------------------------------------------------------------------------
(***************************************************************************)
(* The inductive invariant.                                                *)
(***************************************************************************)

Numbered == {"click", "recipe"}

Jobs == [at : {"seq", "send"}, what : Numbered \cup {"reboot", "read", "write"},
         screens : SUBSET Screens, seq : 0 .. MaxSeq, waited : 0 .. Stall]

DryerTypes ==
  /\ tel \in Screens \cup {NoScreen} /\ age \in 0 .. AgeMax
  /\ old \in BOOLEAN /\ link \in {"up", "down"} /\ mounted \in BOOLEAN

FlashTypes ==
  /\ switch \in BOOLEAN /\ pinSet \in BOOLEAN
  /\ seq \in 0 .. MaxSeq /\ slot \in {"none", "recipe"}

PinTypes ==
  /\ fails \in 0 .. Tries - 1 /\ lock \in {NoLock} \cup 0 .. 2 * Half - 1
  /\ guesses \in Seq(Nat) /\ over \in BOOLEAN

JobTypes == job \in Jobs \cup {Idle} /\ since \in 0 .. AgeMax /\ used \in 0 .. MaxSeq

MqSound == mq \in {"idle", "read", "write"} /\ overtaken \in BOOLEAN /\ BrokerObeys

\* Flash is never behind what went out, and only a press or a recipe, past its
\* write, has a number.
FlashIsAhead ==
  /\ used <= seq
  /\ job.at = "seq" => job.what \in Numbered
  /\ job.at = "send" /\ job.what \notin Numbered => job.seq = 0

\* With no lock, s_pin_fails counts the wrong PINs since the last lock or the
\* last right one, so every recent one is among them.
FailsCount == lock = NoLock => Len(guesses) <= fails

\* Under a lock nothing is compared: the newest guess is as old as the lock, so
\* there is none left when the difference changes its sign.
LockCovers ==
  lock # NoLock /\ guesses # <<>> =>
    /\ 2 * Half - Lock <= lock
    /\ \A i \in DOMAIN guesses : lock + Lock - 2 * Half <= guesses[i]

PinSound == PinTypes /\ FailsCount /\ LockCovers /\ GuessesThrottled

JobSound == JobTypes /\ CounterIsFresh /\ FlashIsAhead /\ CommandIsTimely /\ HandlersObey

IInv == DryerTypes /\ FlashTypes /\ PinSound /\ JobSound /\ MqSound

-----------------------------------------------------------------------------
(***************************************************************************)
(* The PIN                                                                 *)
(***************************************************************************)

\* The lock is set to the difference of one lock-out before its end.
LEMMA LockIsSet == Wrapped(-Lock) = 2 * Half - Lock /\ 2 * Half - Lock \in Half .. 2 * Half - 1
<1>1. /\ Half \in Nat /\ Lock \in Nat /\ 0 < Lock /\ Lock <= Half
  BY ControlAssumption
<1>2. (-Lock) % (2 * Half) = -Lock + 2 * Half
  BY <1>1
<1>3. QED BY <1>1, <1>2 DEF Wrapped

\* A tick wraps at most once.
LEMMA LockTicks ==
  ASSUME NEW l \in 0 .. 2 * Half - 1
  PROVE  /\ Wrapped(l + 1) \in 0 .. 2 * Half - 1
         /\ l + 1 < 2 * Half => Wrapped(l + 1) = l + 1
<1>1. Half \in Nat /\ 0 < 2 * Half
  BY ControlAssumption
<1>2. Wrapped(l + 1) \in 0 .. 2 * Half - 1
  BY <1>1 DEF Wrapped
<1>3. ASSUME l + 1 < 2 * Half PROVE Wrapped(l + 1) = l + 1
  BY <1>1, <1>3 DEF Wrapped
<1>4. QED BY <1>2, <1>3

\* A lock that still counts answers every request; one that is over forgets
\* the count, and by then every guess it was set for is a lock-out's time ago.
LEMMA NothingUnderLock ==
  ASSUME PinSound, lock # NoLock, ~Locked
  PROVE  guesses = <<>>
<1>1. /\ lock \in 0 .. 2 * Half - 1 /\ ~(lock >= Half)
  BY DEF PinSound, PinTypes, Locked, Negative
<1>2. Half \in Nat /\ Lock \in Nat /\ Lock <= Half
  BY ControlAssumption
<1>3. ~(2 * Half - Lock <= lock)
  BY <1>1, <1>2
<1>4. QED BY <1>3 DEF PinSound, LockCovers

\* Whatever PIN a request brings.
LEMMA GuardStep ==
  ASSUME PinSound, pinSet \in BOOLEAN, NEW p \in Pins, PinGuard(PinCheck(p))
  PROVE  PinSound'
<1> DEFINE f == IF lock # NoLock THEN 0 ELSE fails
           r == PinCheck(p)
<1>1. /\ Tries \in Nat /\ Tries >= 1 /\ Half \in Nat /\ Lock \in Nat /\ 1 <= Lock /\ Lock <= Half
      /\ 0 \in 0 .. Tries - 1 /\ NoLock = -1
  BY ControlAssumption DEF NoLock
<1>2. /\ fails \in 0 .. Tries - 1 /\ lock \in {NoLock} \cup 0 .. 2 * Half - 1
      /\ guesses \in Seq(Nat) /\ over \in BOOLEAN
      /\ Len(guesses) \in Nat /\ Len(guesses) <= Tries
  BY LenProperties DEF PinSound, PinTypes, GuessesThrottled
<1>3. /\ fails' = r.fails /\ lock' = r.lock
      /\ guesses' = CASE r.guessed -> Append(guesses, 0)
                      [] r.ok /\ pinSet -> <<>>
                      [] OTHER -> guesses
      /\ over' = ((over /\ r.lock = lock) \/ r.lock = NoLock)
  BY DEF PinGuard
<1>4. over' \in BOOLEAN
  BY <1>3
<1>5. f \in 0 .. Tries - 1
  BY <1>1, <1>2
<1>6. ~Locked => Len(guesses) <= f
  <2>1. CASE lock = NoLock
    BY <2>1 DEF PinSound, FailsCount
  <2>2. CASE lock # NoLock /\ ~Locked
    BY <1>1, <2>2, NothingUnderLock
  <2>3. QED BY <2>1, <2>2
\* Nothing is compared
<1>7. CASE ~pinSet \/ Locked
  <2>1. CASE ~pinSet
    <3>1. r = [ok |-> TRUE, fails |-> fails, lock |-> lock, guessed |-> FALSE]
      BY <2>1 DEF PinCheck
    <3>2. fails' = fails /\ lock' = lock /\ guesses' = guesses
      BY <1>3, <2>1, <3>1
    <3>3. QED
      BY <1>2, <1>4, <3>2
      DEF PinSound, PinTypes, FailsCount, LockCovers, GuessesThrottled
  <2>2. CASE pinSet /\ Locked
    <3>1. r = [ok |-> FALSE, fails |-> fails, lock |-> lock, guessed |-> FALSE]
      BY <2>2 DEF PinCheck
    <3>2. fails' = fails /\ lock' = lock /\ guesses' = guesses
      BY <1>3, <3>1
    <3>3. QED
      BY <1>2, <1>4, <3>2
      DEF PinSound, PinTypes, FailsCount, LockCovers, GuessesThrottled
  <2>3. QED BY <1>7, <2>1, <2>2
\* No lock is set: nothing is compared, the right one is, or a wrong one
<1>8. CASE pinSet /\ ~Locked /\ ~(p = "wrong" /\ f + 1 >= Tries)
  <2>1. /\ lock' = NoLock
        /\ \/ p = "none" /\ fails' = f /\ guesses' = guesses
           \/ p = "right" /\ fails' = 0 /\ guesses' = <<>>
           \/ p = "wrong" /\ f + 1 < Tries /\ fails' = f + 1 /\ guesses' = Append(guesses, 0)
    <3>1. CASE p = "none"
      <4>1. r = [ok |-> FALSE, fails |-> f, lock |-> NoLock, guessed |-> FALSE]
        BY <1>8, <3>1 DEF PinCheck
      <4>2. QED BY <1>3, <3>1, <4>1
    <3>2. CASE p = "right"
      <4>1. r = [ok |-> TRUE, fails |-> 0, lock |-> NoLock, guessed |-> FALSE]
        BY <1>8, <3>2 DEF PinCheck
      <4>2. QED BY <1>3, <1>8, <3>2, <4>1
    <3>3. CASE p = "wrong"
      <4>1. f + 1 < Tries
        BY <1>1, <1>5, <1>8, <3>3
      <4>2. r = [ok |-> FALSE, fails |-> f + 1, lock |-> NoLock, guessed |-> TRUE]
        BY <1>8, <3>3, <4>1 DEF PinCheck
      <4>3. QED BY <1>3, <3>3, <4>1, <4>2
    <3>4. QED BY <3>1, <3>2, <3>3 DEF Pins
  <2>2. /\ fails' \in 0 .. Tries - 1 /\ guesses' \in Seq(Nat)
        /\ Len(guesses') \in Nat /\ Len(guesses') <= fails'
    <3>1. /\ Append(guesses, 0) \in Seq(Nat)
          /\ Len(Append(guesses, 0)) = Len(guesses) + 1
      BY <1>2, AppendProperties
    <3>2. CASE fails' = f /\ guesses' = guesses
      BY <1>2, <1>5, <1>6, <1>8, <3>2
    <3>3. CASE fails' = 0 /\ guesses' = <<>>
      BY <1>1, <3>3
    <3>4. CASE f + 1 < Tries /\ fails' = f + 1 /\ guesses' = Append(guesses, 0)
      <4>1. fails' \in 0 .. Tries - 1
        BY <1>1, <1>5, <3>4
      <4>2. QED BY <1>2, <1>5, <1>6, <1>8, <3>1, <3>4, <4>1
    <3>5. QED BY <2>1, <3>2, <3>3, <3>4
  <2>3. Len(guesses') <= Tries
    BY <1>1, <2>2
  <2>4. QED
    BY <1>4, <2>1, <2>2, <2>3
    DEF PinSound, PinTypes, FailsCount, LockCovers, GuessesThrottled
\* The wrong one that reaches the limit is counted, and sets the lock
<1>9. CASE pinSet /\ ~Locked /\ p = "wrong" /\ f + 1 >= Tries
  <2>1. r = [ok |-> FALSE, fails |-> 0, lock |-> Wrapped(-Lock), guessed |-> TRUE]
    BY <1>9 DEF PinCheck
  <2>2. fails' = 0 /\ lock' = 2 * Half - Lock /\ guesses' = Append(guesses, 0)
    BY <1>3, <2>1, LockIsSet
  <2>3. /\ guesses' \in Seq(Nat) /\ Len(guesses') = Len(guesses) + 1
        /\ Len(guesses') <= Tries
    BY <1>1, <1>2, <1>5, <1>6, <1>9, <2>2, AppendProperties
  <2>4. lock' # NoLock /\ lock' \in 0 .. 2 * Half - 1
    BY <1>1, <2>2
  <2>5. \A i \in DOMAIN guesses' : lock' + Lock - 2 * Half <= guesses'[i]
    <3>1. \A i \in DOMAIN guesses' : guesses'[i] \in Nat
      BY <2>3, ElementOfSeq, LenProperties
    <3>2. lock' + Lock - 2 * Half = 0
      BY <1>1, <2>2
    <3>3. QED BY <3>1, <3>2
  <2>6. QED
    BY <1>1, <1>4, <2>2, <2>3, <2>4, <2>5
    DEF PinSound, PinTypes, FailsCount, LockCovers, GuessesThrottled
<1>10. QED BY <1>7, <1>8, <1>9

-----------------------------------------------------------------------------
(***************************************************************************)
(* The handlers                                                            *)
(***************************************************************************)

\* A screen to go by is the one reported last, within the link's timeout.
LEMMA LiveIsRecent ==
  ASSUME DryerTypes, Live # NoScreen
  PROVE  Live \in Screens /\ age <= Timeout
BY DEF Live, DryerTypes

\* A job that the checks let through.
LEMMA BeginStep ==
  ASSUME IInv, Free, PinSound',
         NEW what \in Numbered \cup {"reboot", "read", "write"},
         NEW screens \in SUBSET Screens, NEW counted \in BOOLEAN,
         counted <=> what \in Numbered,
         screens # {} => age <= Timeout,
         what # "read" => switch,
         Begin(what, screens, counted)
  PROVE  IInv'
<1>1. ControlAssumption /\ 0 \in 0 .. MaxSeq /\ 0 \in 0 .. Stall /\ Timeout \in Nat
  BY ControlAssumption
<1>2. /\ job' = [at |-> IF counted THEN "seq" ELSE "send", what |-> what,
                 screens |-> screens, seq |-> 0, waited |-> 0]
      /\ since' = IF screens = {} THEN 0 ELSE age
      /\ UNCHANGED <<telVars, flashVars, used, mqVars>>
  BY DEF Begin
<1>3. job' \in Jobs /\ job' # Idle
  <2>1. job' \in Jobs
    BY <1>1, <1>2 DEF Jobs
  <2>2. QED BY <2>1 DEF Jobs, Idle
<1>4. since' \in 0 .. AgeMax /\ used' \in 0 .. MaxSeq
  BY <1>1, <1>2 DEF IInv, DryerTypes, JobSound, JobTypes, AgeMax, ControlAssumption
<1>5. CounterIsFresh' /\ FlashIsAhead'
  BY <1>2 DEF CounterIsFresh, FlashIsAhead, flashVars, IInv, JobSound
<1>6. CommandIsTimely'
  BY <1>1, <1>2 DEF CommandIsTimely, IInv, DryerTypes
<1>7. HandlersObey'
  BY <1>2 DEF HandlersObey, flashVars
<1>8. DryerTypes' /\ FlashTypes' /\ MqSound'
  BY <1>2 DEF IInv, DryerTypes, FlashTypes, MqSound, BrokerObeys, mqVars, telVars, flashVars
<1>9. QED
  BY <1>3, <1>4, <1>5, <1>6, <1>7, <1>8 DEF IInv, JobSound, JobTypes

\* A request that ends with its checks.
LEMMA RefusedStep ==
  ASSUME IInv, PinSound', Refused
  PROVE  IInv'
BY DEF Refused, IInv, DryerTypes, FlashTypes, JobSound, JobTypes, MqSound, BrokerObeys, mqVars,
       telVars, flashVars, jobVars, CounterIsFresh, FlashIsAhead, CommandIsTimely,
       HandlersObey

\* A guarded write of a setting, by a handler that answers when it is done.
LEMMA SettingStep ==
  ASSUME IInv, Free, PinSound', FlashTypes', MqSound', seq' = seq,
         UNCHANGED <<telVars, jobVars>>
  PROVE  IInv'
<1>1. job' = Idle
  BY DEF Free, jobVars
<1>2. CounterIsFresh' /\ FlashIsAhead' /\ CommandIsTimely' /\ HandlersObey'
  BY <1>1 DEF CounterIsFresh, FlashIsAhead, CommandIsTimely, HandlersObey, Idle,
              IInv, JobSound, jobVars
<1>3. QED
  BY <1>2 DEF IInv, DryerTypes, JobSound, JobTypes, telVars, jobVars

LEMMA PressStep ==
  ASSUME IInv, NEW p \in Pins, NEW a \in Buttons, NEW s \in Screens,
         NEW c \in BOOLEAN, Press(p, a, s, c)
  PROVE  IInv'
<1>1. PinSound'
  BY GuardStep DEF Press, IInv, FlashTypes
<1>2. CASE /\ Checked(a, s, Live, c)
           /\ Begin("click", {a[1]}, TRUE)
  <2>1. {a[1]} \in SUBSET Screens /\ age <= Timeout
    BY <1>2, LiveIsRecent DEF Checked, IInv
  <2>2. QED BY <1>1, <1>2, <2>1, BeginStep DEF Press, Numbered
<1>3. CASE Refused
  BY <1>1, <1>3, RefusedStep
<1>4. QED BY <1>2, <1>3 DEF Press

LEMMA RecipeStep ==
  ASSUME IInv, NEW p \in Pins, NEW given \in BOOLEAN, NEW start \in BOOLEAN,
         NEW c \in BOOLEAN, Recipe(p, given, start, c)
  PROVE  IInv'
<1>1. PinSound'
  BY GuardStep DEF Recipe, IInv, FlashTypes
<1>2. CASE /\ Live # NoScreen
           /\ Begin("recipe", IF start THEN StartScreens ELSE Screens, TRUE)
  <2>1. age <= Timeout
    BY <1>2, LiveIsRecent DEF IInv
  <2>2. (IF start THEN StartScreens ELSE Screens) \in SUBSET Screens
    BY DEF StartScreens
  <2>3. Free /\ switch
    BY DEF Recipe
  <2>4. QED BY <1>1, <1>2, <2>1, <2>2, <2>3, BeginStep DEF Numbered
<1>3. CASE Refused
  BY <1>1, <1>3, RefusedStep
<1>4. QED BY <1>2, <1>3 DEF Recipe

LEMMA DryerRebootStep ==
  ASSUME IInv, NEW p \in Pins, NEW c \in BOOLEAN, DryerReboot(p, c)
  PROVE  IInv'
<1>1. PinSound'
  BY GuardStep DEF DryerReboot, IInv, FlashTypes
<1>2. CASE Begin("reboot", {}, FALSE)
  BY <1>1, <1>2, BeginStep DEF DryerReboot, Numbered
<1>3. CASE Refused
  BY <1>1, <1>3, RefusedStep
<1>4. QED BY <1>2, <1>3 DEF DryerReboot

LEMMA CmdStep ==
  ASSUME IInv, NEW p \in Pins, NEW v \in Verbs, NEW args \in BOOLEAN, Cmd(p, v, args)
  PROVE  IInv'
<1>1. PinSound'
  BY GuardStep DEF Cmd, IInv, FlashTypes
<1>2. CASE /\ Class[v] = "safe" \/ (Class[v] = "config" /\ switch)
           /\ Begin(IF Class[v] = "safe" THEN "read" ELSE "write", {}, FALSE)
  BY <1>1, <1>2, BeginStep DEF Cmd, Numbered
<1>3. CASE Refused
  BY <1>1, <1>3, RefusedStep
<1>4. QED BY <1>2, <1>3 DEF Cmd

LEMMA ControlEnableStep ==
  ASSUME IInv, NEW p \in Pins, NEW on \in BOOLEAN, ControlEnable(p, on)
  PROVE  IInv'
<1>1. PinSound'
  BY GuardStep DEF ControlEnable, IInv, FlashTypes
<1>2. switch' \in BOOLEAN
  BY DEF ControlEnable, Stored, IInv, FlashTypes
<1>3. FlashTypes'
  BY <1>2 DEF ControlEnable, IInv, FlashTypes
<1>4. MqSound'
  BY <1>2 DEF ControlEnable, IInv, FlashTypes, MqSound, BrokerObeys
<1>5. QED BY <1>1, <1>3, <1>4, SettingStep DEF ControlEnable

LEMMA PinChangeStep ==
  ASSUME IInv, NEW p \in Pins, NEW new \in {"none", "digits", "malformed"}, PinChange(p, new)
  PROVE  IInv'
<1>1. PinSound'
  BY GuardStep DEF PinChange, IInv, FlashTypes
<1>2. pinSet' \in BOOLEAN
  BY DEF PinChange, Stored, IInv, FlashTypes
<1>3. FlashTypes'
  BY <1>2 DEF PinChange, IInv, FlashTypes
<1>4. MqSound'
  BY DEF PinChange, IInv, MqSound, BrokerObeys, mqVars
<1>5. QED BY <1>1, <1>3, <1>4, SettingStep DEF PinChange

LEMMA PinVerifyStep ==
  ASSUME IInv, NEW p \in Pins, PinVerify(p)
  PROVE  IInv'
<1>1. PinSound'
  BY GuardStep DEF PinVerify, IInv, FlashTypes
<1>2. QED BY <1>1, RefusedStep DEF PinVerify

LEMMA RecipeStoreStep ==
  ASSUME IInv, NEW p \in Pins, NEW r \in {"recipe", "none"}, NEW valid \in BOOLEAN,
         RecipeStore(p, r, valid)
  PROVE  IInv'
<1>1. PinSound'
  BY GuardStep DEF RecipeStore, IInv, FlashTypes
<1>2. slot' \in {"none", "recipe"}
  BY DEF RecipeStore, Stored, IInv, FlashTypes
<1>3. FlashTypes'
  BY <1>2 DEF RecipeStore, IInv, FlashTypes
<1>4. MqSound'
  BY DEF RecipeStore, IInv, MqSound, BrokerObeys, mqVars
<1>5. QED BY <1>1, <1>3, <1>4, SettingStep DEF RecipeStore

LEMMA HandlerStep == IInv /\ Handler => IInv'
BY PressStep, RecipeStep, DryerRebootStep, CmdStep, ControlEnableStep, PinChangeStep,
   PinVerifyStep, RecipeStoreStep
DEF Handler, RecipeSend, RecipeApply, RecipeSave, RecipeDelete

-----------------------------------------------------------------------------
(***************************************************************************)
(* A job's way to the wire, MQTT, the dryer, the clock and the power       *)
(***************************************************************************)

LEMMA TakeSeqStep == IInv /\ TakeSeq => IInv'
<1> SUFFICES ASSUME IInv, TakeSeq PROVE IInv'
  OBVIOUS
<1>1. /\ job.at = "seq" /\ seq < MaxSeq
      /\ UNCHANGED <<telVars, pinVars, switch, pinSet, slot, used, mqVars>>
  BY DEF TakeSeq
<1>2. /\ MaxSeq \in Nat /\ seq \in 0 .. MaxSeq /\ used \in 0 .. MaxSeq /\ used <= seq
      /\ since \in 0 .. AgeMax /\ 0 \in 0 .. AgeMax
  BY ControlAssumption DEF IInv, FlashTypes, JobSound, JobTypes, FlashIsAhead, AgeMax
<1>3. job \in Jobs /\ job # Idle /\ job.what \in Numbered
  BY <1>1 DEF IInv, JobSound, JobTypes, FlashIsAhead, Idle
<1>4. DryerTypes' /\ PinSound' /\ MqSound'
  BY <1>1 DEF IInv, DryerTypes, PinSound, PinTypes, FailsCount, LockCovers,
              GuessesThrottled, MqSound, BrokerObeys, mqVars, telVars, pinVars
<1>5. CASE seq' = seq + 1 /\ job' = [job EXCEPT !.at = "send", !.seq = seq + 1] /\ UNCHANGED since
  <2>1. seq' \in 0 .. MaxSeq
    BY <1>1, <1>2, <1>5
  <2>2. /\ job' \in Jobs /\ job'.at = "send" /\ job'.seq = seq + 1 /\ job'.what = job.what
        /\ job'.screens = job.screens /\ job'.waited = job.waited
    <3>1. seq + 1 \in 0 .. MaxSeq
      BY <1>1, <1>2
    <3>2. job' = [job EXCEPT !.at = "send", !.seq = seq + 1]
      BY <1>5
    <3>3. QED BY <1>3, <3>1, <3>2 DEF Jobs
  <2>3. CounterIsFresh' /\ FlashIsAhead'
    BY <1>1, <1>2, <1>3, <1>5, <2>2 DEF CounterIsFresh, FlashIsAhead
  <2>4. CommandIsTimely' /\ HandlersObey'
    BY <1>1, <1>3, <1>5, <2>2 DEF IInv, JobSound, CommandIsTimely, HandlersObey
  <2>5. QED
    BY <1>1, <1>2, <1>4, <1>5, <2>1, <2>2, <2>3, <2>4
    DEF IInv, FlashTypes, JobSound, JobTypes
<1>6. CASE seq' \in {seq, seq + 1} /\ job' = Idle /\ since' = 0
  <2>1. seq' \in 0 .. MaxSeq /\ used <= seq'
    BY <1>1, <1>2, <1>6
  <2>2. CounterIsFresh' /\ FlashIsAhead' /\ CommandIsTimely' /\ HandlersObey'
    BY <1>1, <1>6, <2>1 DEF CounterIsFresh, FlashIsAhead, CommandIsTimely, HandlersObey, Idle
  <2>3. QED
    BY <1>1, <1>2, <1>4, <1>6, <2>1, <2>2 DEF IInv, FlashTypes, JobSound, JobTypes
<1>7. QED BY <1>5, <1>6 DEF TakeSeq

LEMMA SendFrameStep == IInv /\ SendFrame => IInv'
<1> SUFFICES ASSUME IInv, SendFrame PROVE IInv'
  OBVIOUS
<1>1. /\ job.at = "send" /\ job' = Idle /\ since' = 0
      /\ \/ used' = job.seq /\ job.seq # 0
         \/ used' = used
      /\ UNCHANGED <<telVars, pinVars, flashVars, mqVars>>
  BY DEF SendFrame
<1>2. /\ MaxSeq \in Nat /\ seq \in 0 .. MaxSeq /\ used \in 0 .. MaxSeq /\ used <= seq
      /\ 0 \in 0 .. AgeMax
  BY ControlAssumption DEF IInv, FlashTypes, JobSound, JobTypes, FlashIsAhead, AgeMax
<1>3. used' \in 0 .. MaxSeq /\ used' <= seq
  <2>1. CASE used' = job.seq /\ job.seq # 0
    <3>1. job.what \in Numbered /\ job.seq \in Nat
      BY <1>1, <2>1 DEF IInv, JobSound, JobTypes, FlashIsAhead, Jobs, Idle
    <3>2. QED
      BY <1>1, <1>2, <2>1, <3>1 DEF Numbered, IInv, JobSound, CounterIsFresh
  <2>2. QED BY <1>1, <1>2, <2>1
<1>4. CounterIsFresh' /\ FlashIsAhead' /\ CommandIsTimely' /\ HandlersObey'
  BY <1>1, <1>3 DEF CounterIsFresh, FlashIsAhead, CommandIsTimely, HandlersObey, Idle, flashVars
<1>5. DryerTypes' /\ FlashTypes' /\ PinSound' /\ MqSound'
  BY <1>1 DEF IInv, DryerTypes, FlashTypes, PinSound, PinTypes, FailsCount, LockCovers,
              GuessesThrottled, MqSound, BrokerObeys, mqVars, telVars, flashVars, pinVars
<1>6. QED BY <1>1, <1>2, <1>3, <1>4, <1>5 DEF IInv, JobSound, JobTypes

\* A step that concerns neither the PIN nor the flash nor the job.
LEMMA OutsideStep ==
  ASSUME IInv, DryerTypes', MqSound', UNCHANGED <<pinVars, flashVars, jobVars>>
  PROVE  IInv'
BY DEF IInv, FlashTypes, PinSound, PinTypes, FailsCount, LockCovers, GuessesThrottled,
       JobSound, JobTypes, CounterIsFresh, FlashIsAhead, CommandIsTimely, HandlersObey,
       pinVars, flashVars, jobVars

LEMMA MqttStep ==
  ASSUME IInv, MqttSend \/ \E v \in Verbs : MqttMessage(v)
  PROVE  IInv'
<1>1. MqSound' /\ UNCHANGED <<telVars, pinVars, flashVars, jobVars>>
  BY DEF MqttSend, MqttMessage, MqttTakes, Sendable, IInv, MqSound, BrokerObeys, flashVars
<1>2. DryerTypes'
  BY <1>1 DEF IInv, DryerTypes, telVars
<1>3. QED BY <1>1, <1>2, OutsideStep

LEMMA BusStep == IInv /\ (OtherFrame \/ LinkLost \/ Mounts) => IInv'
<1> SUFFICES ASSUME IInv, OtherFrame \/ LinkLost \/ Mounts PROVE IInv'
  OBVIOUS
<1>1. UNCHANGED <<tel, age, pinVars, flashVars, jobVars, mqVars>>
  BY DEF OtherFrame, LinkLost, Mounts
<1>2. /\ link' \in {"up", "down"} /\ mounted' \in BOOLEAN /\ old' \in BOOLEAN
  BY DEF OtherFrame, LinkLost, Mounts, IInv, DryerTypes
<1>3. DryerTypes' /\ MqSound'
  BY <1>1, <1>2 DEF IInv, DryerTypes, MqSound, BrokerObeys, mqVars, flashVars
<1>4. QED BY <1>1, <1>3, OutsideStep

LEMMA StatStep ==
  ASSUME IInv, NEW s \in Screens, Stat(s)
  PROVE  IInv'
<1>1. /\ UNCHANGED <<pinVars, flashVars, job, used, mqVars>>
      /\ since' = since \/ since' = 0
  BY DEF Stat
<1>2. Timeout \in Nat /\ Stall \in Nat /\ 0 \in 0 .. AgeMax
  BY ControlAssumption DEF AgeMax
<1>3. DryerTypes'
  <2>1. old' \in BOOLEAN /\ mounted' \in BOOLEAN
    BY DEF Stat, IInv, DryerTypes
  <2>2. QED BY <1>2, <2>1 DEF Stat, DryerTypes
<1>4. CommandIsTimely'
  <2>1. CASE since' = since
    BY <1>1, <2>1 DEF IInv, JobSound, CommandIsTimely
  <2>2. CASE since' = 0
    BY <1>1, <1>2, <2>2 DEF IInv, JobSound, JobTypes, Jobs, CommandIsTimely
  <2>3. QED BY <1>1, <2>1, <2>2
<1>5. CounterIsFresh' /\ FlashIsAhead' /\ HandlersObey'
  BY <1>1 DEF IInv, JobSound, CounterIsFresh, FlashIsAhead, HandlersObey, flashVars
<1>6. PinSound' /\ FlashTypes' /\ MqSound'
  BY <1>1 DEF IInv, FlashTypes, PinSound, PinTypes, FailsCount, LockCovers,
              GuessesThrottled, MqSound, BrokerObeys, mqVars, flashVars, pinVars
<1>7. QED
  BY <1>1, <1>2, <1>3, <1>4, <1>5, <1>6 DEF IInv, JobSound, JobTypes

\* What is left of the guesses a tick later: some of them, a tick older, and
\* none if they all are a lock-out's time ago.
LEMMA RecentGuesses ==
  ASSUME PinTypes
  PROVE  /\ Recent \in Seq(Nat) /\ Len(Recent) <= Len(guesses)
         /\ \A i \in DOMAIN Recent : \E j \in DOMAIN guesses : Recent[i] = guesses[j] + 1
         /\ (\A j \in DOMAIN guesses : guesses[j] + 1 >= Lock) => Recent = <<>>
<1> DEFINE Young == {i \in DOMAIN guesses : guesses[i] + 1 < Lock}
           n == Cardinality(Young)
<1>1. /\ guesses \in Seq(Nat) /\ Len(guesses) \in Nat /\ DOMAIN guesses = 1 .. Len(guesses)
      /\ \A j \in DOMAIN guesses : guesses[j] \in Nat
  BY LenProperties, ElementOfSeq DEF PinTypes
<1>2. IsFiniteSet(1 .. Len(guesses)) /\ Cardinality(1 .. Len(guesses)) = Len(guesses)
  <2>1. /\ IsFiniteSet(1 .. Len(guesses))
        /\ Cardinality(1 .. Len(guesses)) =
             IF 1 > Len(guesses) THEN 0 ELSE Len(guesses) - 1 + 1
    BY <1>1, FS_Interval
  <2>2. QED BY <1>1, <2>1
<1>3. n \in Nat /\ n <= Len(guesses)
  <2>1. Young \subseteq 1 .. Len(guesses)
    BY <1>1
  <2>2. QED BY <1>2, <2>1, FS_Subset, FS_CardinalityType
<1>4. Recent = [i \in 1 .. n |-> guesses[Len(guesses) - n + i] + 1]
  BY DEF Recent
<1> HIDE DEF n
<1>5. ASSUME NEW i \in 1 .. n
      PROVE  Len(guesses) - n + i \in DOMAIN guesses
  BY <1>1, <1>3
<1>6. Recent \in Seq(Nat) /\ Len(Recent) = n
  <2>1. \A i \in 1 .. n : guesses[Len(guesses) - n + i] + 1 \in Nat
    BY <1>1, <1>5
  <2>2. QED BY <1>3, <1>4, <2>1, IsASeq
<1>7. ASSUME \A j \in DOMAIN guesses : guesses[j] + 1 >= Lock
      PROVE  Recent = <<>>
  <2>1. Young = {}
    BY <1>1, <1>7, ControlAssumption
  <2>2. n = 0
    BY <2>1, FS_EmptySet DEF n
  <2>3. QED BY <1>6, <2>2, EmptySeq
<1>8. QED BY <1>1, <1>3, <1>4, <1>5, <1>6, <1>7

LEMMA TickStep == IInv /\ Tick => IInv'
<1> SUFFICES ASSUME IInv, Tick PROVE IInv'
  OBVIOUS
<1>1. /\ Timeout \in Nat /\ Stall \in Nat /\ 0 \in 0 .. AgeMax
      /\ AgeMax = Timeout + Stall + 1
  BY ControlAssumption DEF AgeMax
<1>2. /\ UNCHANGED <<tel, old, link, mounted, flashVars, fails, used, mqVars>>
      /\ job # Idle => job.waited < Stall
      /\ job' = IF job = Idle THEN Idle ELSE [job EXCEPT !.waited = job.waited + 1]
      /\ age' = IF tel = NoScreen THEN 0 ELSE Older(age, AgeMax)
      /\ since' = IF job = Idle \/ job.screens = {} THEN 0 ELSE Older(since, AgeMax)
      /\ guesses' = Recent
      /\ lock' = IF lock = NoLock THEN NoLock ELSE Wrapped(lock + 1)
      /\ over' = (over \/ lock' = 0)
  BY DEF Tick
<1>3. ASSUME NEW a \in 0 .. AgeMax PROVE Older(a, AgeMax) \in 0 .. AgeMax
  BY <1>1 DEF Older
<1>4. age' \in 0 .. AgeMax /\ since' \in 0 .. AgeMax
  BY <1>1, <1>2, <1>3 DEF IInv, DryerTypes, JobSound, JobTypes
<1>5. DryerTypes' /\ FlashTypes' /\ MqSound'
  BY <1>2, <1>4 DEF IInv, DryerTypes, FlashTypes, MqSound, BrokerObeys, mqVars, flashVars
<1>6. PinSound'
  <2>1. /\ Recent \in Seq(Nat) /\ Len(Recent) <= Len(guesses)
        /\ \A i \in DOMAIN Recent : \E j \in DOMAIN guesses : Recent[i] = guesses[j] + 1
        /\ (\A j \in DOMAIN guesses : guesses[j] + 1 >= Lock) => Recent = <<>>
    BY RecentGuesses DEF IInv, PinSound
  <2>2. /\ Half \in Nat /\ Lock \in Nat /\ 1 <= Lock /\ Lock <= Half /\ Tries \in Nat
        /\ guesses \in Seq(Nat) /\ Len(guesses) \in Nat /\ Len(Recent) \in Nat
        /\ \A j \in DOMAIN guesses : guesses[j] \in Nat
    BY <2>1, ControlAssumption, LenProperties, ElementOfSeq DEF IInv, PinSound, PinTypes
  <2>3. /\ lock \in {NoLock} \cup 0 .. 2 * Half - 1
        /\ lock # NoLock => lock \in 0 .. 2 * Half - 1
    BY DEF IInv, PinSound, PinTypes
  <2>4. PinTypes'
    <3>1. lock' \in {NoLock} \cup 0 .. 2 * Half - 1
      BY <1>2, <2>3, LockTicks
    <3>2. over' \in BOOLEAN
      BY <1>2
    <3>3. QED BY <1>2, <2>1, <3>1, <3>2 DEF IInv, PinSound, PinTypes
  <2>5. GuessesThrottled'
    BY <1>2, <2>1, <2>2 DEF IInv, PinSound, GuessesThrottled
  <2>6. FailsCount'
    <3>1. lock' = NoLock => lock = NoLock
      <4>1. \A l \in 0 .. 2 * Half - 1 : Wrapped(l + 1) # -1
        BY LockTicks, <2>2
      <4>2. QED BY <1>2, <2>3, <4>1 DEF NoLock
    <3>2. fails \in Int
      BY <2>2 DEF IInv, PinSound, PinTypes
    <3>3. QED BY <1>2, <2>1, <2>2, <3>1, <3>2 DEF IInv, PinSound, FailsCount
  <2>7. LockCovers'
    <3> SUFFICES ASSUME lock # NoLock, Recent # <<>>
                 PROVE  /\ 2 * Half - Lock <= lock'
                        /\ \A i \in DOMAIN Recent : lock' + Lock - 2 * Half <= Recent[i]
      BY <1>2 DEF LockCovers
    <3>1. PICK j \in DOMAIN guesses : ~(guesses[j] + 1 >= Lock)
      BY <2>1
    <3>2. guesses # <<>>
      BY <3>1
    <3>3. /\ 2 * Half - Lock <= lock
          /\ \A i \in DOMAIN guesses : lock + Lock - 2 * Half <= guesses[i]
      BY <3>2 DEF IInv, PinSound, LockCovers
    <3>4. lock + 1 < 2 * Half
      BY <2>2, <2>3, <3>1, <3>3
    <3>5. lock' = lock + 1
      BY <1>2, <2>3, <3>4, LockTicks
    <3>6. \A i \in DOMAIN guesses : lock' + Lock - 2 * Half <= guesses[i] + 1
      BY <2>2, <2>3, <3>3, <3>5
    <3>7. ASSUME NEW i \in DOMAIN Recent
          PROVE  lock' + Lock - 2 * Half <= Recent[i]
      <4>1. PICK k \in DOMAIN guesses : Recent[i] = guesses[k] + 1
        BY <2>1
      <4>2. QED BY <3>6, <4>1
    <3>8. 2 * Half - Lock <= lock'
      BY <2>2, <2>3, <3>3, <3>5
    <3>9. QED BY <3>7, <3>8
  <2>8. QED BY <2>4, <2>5, <2>6, <2>7 DEF PinSound
<1>7. JobSound'
  <2>1. CASE job = Idle
    <3>1. job' = Idle
      BY <1>2, <2>1
    <3>2. JobTypes'
      BY <1>2, <1>4, <3>1 DEF IInv, JobSound, JobTypes
    <3>3. QED
      BY <1>2, <3>1, <3>2 DEF IInv, JobSound, CounterIsFresh, FlashIsAhead,
         CommandIsTimely, HandlersObey, Idle, flashVars
  <2>2. CASE job # Idle
    <3>1. job \in Jobs /\ job.waited < Stall /\ job.waited \in Nat
      BY <1>2, <2>2 DEF IInv, JobSound, JobTypes, Jobs
    <3>2. /\ job' \in Jobs
          /\ job'.at = job.at /\ job'.what = job.what /\ job'.seq = job.seq
          /\ job'.screens = job.screens /\ job'.waited = job.waited + 1
      BY <1>1, <1>2, <2>2, <3>1 DEF Jobs
    <3>3. JobTypes'
      BY <1>2, <1>4, <3>2 DEF IInv, JobSound, JobTypes
    <3>4. CounterIsFresh' /\ FlashIsAhead' /\ HandlersObey'
      BY <1>2, <2>2, <3>2
      DEF IInv, JobSound, CounterIsFresh, FlashIsAhead, HandlersObey, flashVars
    <3>5. CommandIsTimely'
      <4> SUFFICES ASSUME job.screens # {} PROVE since' <= Timeout + job'.waited
        BY <3>2 DEF CommandIsTimely
      <4>1. since <= Timeout + job.waited /\ since \in Nat
        BY <2>2 DEF IInv, JobSound, JobTypes, CommandIsTimely
      <4>2. since' = Older(since, AgeMax)
        BY <1>2, <2>2
      <4>3. QED BY <1>1, <3>1, <3>2, <4>1, <4>2 DEF Older
    <3>6. QED BY <3>3, <3>4, <3>5 DEF JobSound
  <2>3. QED BY <2>1, <2>2
<1>8. QED BY <1>5, <1>6, <1>7 DEF IInv

\* Nothing is at work and nobody has tried a PIN.
LEMMA FreshBoot ==
  ASSUME tel = NoScreen, age = 0, old = TRUE, link = "down", mounted = FALSE,
         fails = 0, lock = NoLock, guesses = <<>>, over = TRUE,
         job = Idle, since = 0, mq = "idle", overtaken = FALSE,
         FlashTypes, used \in 0 .. MaxSeq, used <= seq
  PROVE  IInv
<1>1. /\ Timeout \in Nat /\ Stall \in Nat /\ 0 \in 0 .. AgeMax /\ 0 \in 0 .. Tries - 1
      /\ Tries \in Nat
  BY ControlAssumption DEF AgeMax
<1>2. DryerTypes
  BY <1>1 DEF DryerTypes
<1>3. PinTypes
  BY <1>1 DEF PinTypes
<1>4. FailsCount /\ LockCovers /\ GuessesThrottled
  <2>1. Len(guesses) = 0
    OBVIOUS
  <2>2. QED BY <1>1, <2>1 DEF FailsCount, LockCovers, GuessesThrottled
<1>5. JobSound
  BY <1>1 DEF JobSound, JobTypes, CounterIsFresh, FlashIsAhead, CommandIsTimely,
              HandlersObey, Idle
<1>6. QED BY <1>2, <1>3, <1>4, <1>5 DEF IInv, PinSound, MqSound, BrokerObeys, mqVars

LEMMA RestartStep == IInv /\ Restart => IInv'
<1> SUFFICES ASSUME IInv, Restart PROVE IInv'
  OBVIOUS
<1>1. FlashTypes' /\ used' \in 0 .. MaxSeq /\ used' <= seq'
  BY DEF IInv, FlashTypes, JobSound, JobTypes, FlashIsAhead, Restart, flashVars
<1>2. Timeout \in Nat /\ Stall \in Nat /\ 0 \in 0 .. AgeMax /\ 0 \in 0 .. Tries - 1 /\ Tries \in Nat
  BY ControlAssumption DEF AgeMax
<1>3. DryerTypes'
  BY <1>2 DEF DryerTypes, Restart
<1>4. PinTypes'
  BY <1>2 DEF PinTypes, Restart
<1>5. FailsCount' /\ LockCovers' /\ GuessesThrottled'
  <2>1. Len(guesses') = 0
    BY DEF Restart
  <2>2. QED BY <1>2, <2>1 DEF FailsCount, LockCovers, GuessesThrottled, Restart
<1>6. JobSound'
  BY <1>1, <1>2 DEF JobSound, JobTypes, CounterIsFresh, FlashIsAhead, CommandIsTimely,
              HandlersObey, Idle, Restart
<1>7. QED BY <1>1, <1>3, <1>4, <1>5, <1>6 DEF IInv, PinSound, MqSound, BrokerObeys, mqVars, Restart

-----------------------------------------------------------------------------
(***************************************************************************)
(* The theorems                                                            *)
(***************************************************************************)

\* The invariant holds in whatever order requests, the dryer, the link, MQTT,
\* the clock and restarts take their turns.
THEOREM InductiveInvariant == Spec => []IInv
<1>1. Init => IInv
  <2> SUFFICES ASSUME Init PROVE IInv
    OBVIOUS
  <2>1. FlashTypes /\ used \in 0 .. MaxSeq /\ used <= seq
    BY ControlAssumption DEF Init, FlashTypes
  <2>2. QED BY <2>1, FreshBoot DEF Init
<1>2. IInv /\ [Next]_vars => IInv'
  <2> SUFFICES ASSUME IInv, [Next]_vars PROVE IInv'
    OBVIOUS
  <2>1. CASE Handler
    BY <2>1, HandlerStep
  <2>2. CASE TakeSeq \/ SendFrame
    BY <2>2, TakeSeqStep, SendFrameStep
  <2>3. CASE MqttSend \/ \E v \in Verbs : MqttMessage(v)
    BY <2>3, MqttStep
  <2>4. CASE \E s \in Screens : Stat(s)
    BY <2>4, StatStep
  <2>5. CASE OtherFrame \/ LinkLost \/ Mounts
    BY <2>5, BusStep
  <2>6. CASE Tick
    BY <2>6, TickStep
  <2>7. CASE Restart
    BY <2>7, RestartStep
  <2>8. CASE UNCHANGED vars
    <3>1. DryerTypes' /\ MqSound'
      BY <2>8 DEF vars, telVars, IInv, DryerTypes, MqSound, BrokerObeys, mqVars, flashVars
    <3>2. QED BY <2>8, <3>1, OutsideStep DEF vars
  <2>9. QED BY <2>1, <2>2, <2>3, <2>4, <2>5, <2>6, <2>7, <2>8 DEF Next
<1>3. QED BY <1>1, <1>2, PTL DEF Spec

\* The number on a frame about to go out is above every number that went out
\* before, and flash holds it already (ctrl_next_seq), across any restarts.
THEOREM CounterNeverRepeats == Spec => []CounterSound
<1>1. IInv => CounterSound
  <2> SUFFICES ASSUME IInv PROVE CounterSound
    OBVIOUS
  <2>1. job # Idle => job \in Jobs
    BY DEF IInv, JobSound, JobTypes
  <2>2. TypeOK
    BY <2>1 DEF TypeOK, IInv, DryerTypes, FlashTypes, PinSound, PinTypes, MqSound, BrokerObeys, mqVars, Jobs
  <2>3. QED BY <2>2 DEF CounterSound, IInv, JobSound
<1>2. QED BY <1>1, InductiveInvariant, PTL

\* A press or a recipe goes out for a screen reported at most the link's time
\* limit before its checks (live_screen).
THEOREM CommandsAreTimely == Spec => []CommandIsTimely
BY InductiveInvariant, PTL DEF IInv, JobSound

\* With the switch off no handler is on its way to change the machine (the guards
\* of hr_http.c), and the MQTT task with one command at most, which had passed
\* its check when the switch went off (handle_cmd).
THEOREM SwitchAlwaysHolds == Spec => []SwitchHolds
<1>1. IInv => SwitchHolds
  BY DEF IInv, JobSound, MqSound, BrokerObeys, mqVars, SwitchHolds
<1>2. QED BY <1>1, InductiveInvariant, PTL

\* At most PIN_TRIES wrong PINs are compared within a lock-out's time, however
\* the requests are timed (pin_check).
THEOREM GuessesAreThrottled == Spec => []GuessesThrottled
BY InductiveInvariant, PTL DEF IInv, PinSound

-----------------------------------------------------------------------------
(***************************************************************************)
(* The logbook, for any dryer that is orderly and whose counter reads      *)
(* right, any length of the log and any power cuts.                        *)
(*                                                                         *)
(* The inductive invariant.  A record is dark when the power was not on    *)
(* through its run: of those nothing is said, but that what is resumed or  *)
(* closed after a cut is one of them.  Of the others, the open one is in   *)
(* step with the dryer, and the ended ones are right and one of a kind.    *)
(***************************************************************************)

Fates == {"none", "complete", "endedEarly", "strayed"}
Frames == [screen : ScreenKinds, elapsed : Nat, run : 0 .. MaxRun]

DryerKinds ==
  [program : DOMAIN Programs, run : 0 .. MaxRun, screen : ScreenKinds, elapsed : Nat]

DryerIs ==
  /\ dryer \in DryerKinds /\ dryer.screen \in DOMAIN Does(dryer).follows
  /\ truth \in [Runs -> [fate : Fates, reach : Nat, extensions : Nat]]
  /\ dark \subseteq Runs /\ powered \in BOOLEAN
  /\ dryer.screen # "idle" => dryer.run >= 1

\* A run's counter has been as far as it is, stands above zero once drying has
\* begun, and a screen of completion is the run's fate.
Counted ==
  /\ dryer.run >= 1 => dryer.elapsed <= truth[dryer.run].reach
  /\ dryer.screen \in {"dry", "final", "alt", "other"} => dryer.elapsed >= 1
  /\ dryer.screen = "complete" => truth[dryer.run].fate = "complete"

Trackers ==
  [active : BOOLEAN, cur : Records, lastPhase : ScreenKinds \cup {"none"},
   lastElapsed : Nat, haveLast : BOOLEAN, startElapsed : Nat]
Notes ==
  [running : BOOLEAN, type : ScreenKinds \cup {"none"}, elapsed : Nat \cup {-1},
   extensions : Nat]

\* A record that is written has an ending and is of a run.
Ended(rec) == rec \in Records /\ rec.outcome # "running" /\ rec.run >= 1

RamIs ==
  /\ usb = NoFrame \/ usb \in Frames
  /\ t \in Trackers /\ last \in Notes
  /\ ready \in BOOLEAN /\ checked \in BOOLEAN
  /\ parked = NoRecord \/ Ended(parked)
  /\ open \in Saved /\ loc \in Saved /\ nvs \in Saved /\ pc \in MainAt
  /\ log \in Seq(Records) /\ \A i \in DOMAIN log : Ended(log[i])

\* Without power there is nothing in memory; a pending frame is what the dryer
\* shows now.
Memory ==
  /\ ~powered => /\ usb = NoFrame /\ t = Reset /\ parked = NoRecord /\ open = None
                 /\ ~checked /\ pc = "top"
  /\ usb # NoFrame =>
       usb = [screen |-> dryer.screen, elapsed |-> dryer.elapsed, run |-> dryer.run]

Dark(rec) == rec.run \in dark
OfRun(rec) == rec.run \in 1 .. dryer.run

\* What the power cut left open, and is resumed or closed, is of a run the cut
\* bears on.
LeftOpen ==
  /\ open # None => open.rec # NoRecord /\ Dark(open.rec) /\ OfRun(open.rec)
  /\ ~checked /\ nvs.rec # NoRecord => Dark(nvs.rec)
  /\ nvs.rec # NoRecord => OfRun(nvs.rec)
  /\ t.active => t.haveLast /\ OfRun(t.cur)

Places ==
  /\ pc # "top" => checked
  /\ pc = "resume" => open # None /\ Dark(loc.rec) /\ OfRun(loc.rec) /\ loc.last >= 0
  /\ pc \in {"close1", "close2", "close3"} => open # None
  /\ pc \in {"close2", "close3", "clear2", "clear3"} => nvs.rec = NoRecord
  /\ pc = "write" => Ended(loc.rec)
  /\ pc = "save1" => OfRun(loc.rec) /\ (t.active \/ parked # NoRecord)

Owner ==
  checked /\ open = None /\ nvs.rec # NoRecord /\ pc \notin {"write", "clear1"} =>
    t.active \/ parked # NoRecord

\* The tracker has seen all of the run but the frame that is pending.
SeenAll ==
  /\ t.cur.run = dryer.run
  /\ t.lastPhase = Fold(dryer.screen) /\ t.lastElapsed = dryer.elapsed
  /\ dryer.screen # "complete"
  /\ dryer.screen = "idle" => truth[dryer.run].fate = "strayed" /\ dryer.elapsed >= 1

SeenAllButOne ==
  /\ t.cur.run = dryer.run /\ t.lastPhase # "alt"
  /\ dryer.elapsed < t.lastElapsed => t.lastPhase \in PreRun /\ dryer.screen = "freeze"
  /\ dryer.screen \in PreRun => t.lastPhase \in PreRun
  /\ dryer.screen = "idle" =>
       IF t.lastPhase \in Running THEN truth[dryer.run].fate = "endedEarly"
       ELSE truth[dryer.run].fate = "strayed" /\ dryer.elapsed >= 1

\* A run that strayed is closed by the first frame of the next.
NextIsPending ==
  /\ t.cur.run = dryer.run - 1 /\ truth[t.cur.run].fate = "strayed"
  /\ dryer.elapsed = 0 /\ t.lastElapsed >= 1 /\ t.lastPhase = "idle"

InStep ==
  t.active /\ ~Dark(t.cur) =>
    /\ SumPhases(t.cur) <= t.lastElapsed
    /\ t.lastElapsed <= truth[t.cur.run].reach
    /\ t.lastPhase \in PreRun => SumPhases(t.cur) = 0
    /\ IF usb = NoFrame THEN SeenAll ELSE SeenAllButOne \/ NextIsPending

\* A record is right when its run is over, it says so, its time is counted, and
\* the tracker has no other one of the run.
Over(r) == r < dryer.run \/ dryer.screen \in {"complete", "idle"}
Right(rec) ==
  /\ OfRun(rec)
  /\ ~Dark(rec) =>
       /\ Over(rec.run) /\ rec.outcome = Told(rec.run)
       /\ SumPhases(rec) <= truth[rec.run].reach
       /\ ~(t.active /\ t.cur.run = rec.run)

AllRight ==
  /\ \A i \in DOMAIN log : Right(log[i])
  /\ parked # NoRecord => Right(parked)
  /\ pc = "write" => Right(loc.rec)

\* There is one record of a run at most.
Apart ==
  /\ \A i, j \in DOMAIN log : i # j /\ ~Dark(log[i]) => log[i].run # log[j].run
  /\ parked # NoRecord /\ ~Dark(parked) =>
       /\ \A i \in DOMAIN log : log[i].run # parked.run
       /\ pc = "write" => loc.rec.run # parked.run
  /\ pc = "write" /\ ~Dark(loc.rec) => \A i \in DOMAIN log : log[i].run # loc.rec.run

LogbookIInv ==
  /\ DryerIs /\ Counted /\ RamIs /\ Memory /\ LeftOpen /\ Places /\ Owner
  /\ InStep /\ AllRight /\ Apart

-----------------------------------------------------------------------------
\* What an orderly dryer does next is one of these.

SameDryer(d, e) == e.program = d.program /\ e.run = d.run

Begins(d, e) ==
  /\ d.screen = "idle" /\ e.program = d.program /\ e.run = d.run + 1 /\ e.elapsed = 0
  /\ e.screen \in PreRun \cup {"freeze", "idle", "complete"}

Freezes(d, e) ==
  /\ SameDryer(d, e)
  /\ d.screen \in PreRun /\ e.screen = "freeze" /\ e.elapsed = 0

GoesOn(d, e) ==
  /\ SameDryer(d, e)
  /\ d.screen # "idle" /\ e.elapsed >= d.elapsed
  /\ e.screen \in PreRun => d.screen \in PreRun
  /\ e.screen = "idle" => d.screen \in Running \cup {"complete", "other"}
  /\ e.screen \in {"dry", "final", "alt", "other"} =>
       e.elapsed >= 1 \/ d.screen \in {"dry", "final", "alt", "other"}
  /\ d.screen = "complete" => e.screen = "idle"

LEMMA DryerDoesOneOfThese ==
  ASSUME Orderly(Programs), DryerIs, NEW e \in After(dryer)
  PROVE  /\ e \in DryerKinds /\ e.screen \in DOMAIN Does(e).follows
         /\ Begins(dryer, e) \/ Freezes(dryer, e) \/ GoesOn(dryer, e)
<1> DEFINE d == dryer
           follows == Programs[d.program].follows
           moved(s) ==
             CASE d.screen = "idle" -> [d EXCEPT !.run = @ + 1, !.screen = s, !.elapsed = 0]
               [] s = "freeze" /\ d.screen \in PreRun ->
                    [d EXCEPT !.screen = s, !.elapsed = 0]
               [] s \in {"dry", "final"} /\ d.screen \in Timed \cup {"complete"} ->
                    [d EXCEPT !.screen = s, !.elapsed = @ + 1]
               [] OTHER -> [d EXCEPT !.screen = s]
<1>1. d \in DryerKinds /\ d.screen \in DOMAIN follows /\ d.program \in DOMAIN Programs
  BY DEF DryerIs, DryerKinds, Does
<1>2. /\ d.program \in DOMAIN Programs /\ d.run \in Nat /\ d.screen \in ScreenKinds
      /\ d.elapsed \in Nat /\ d.run \in 0 .. MaxRun
  BY <1>1, LogbookAssumption DEF DryerKinds
<1>3. \A s \in DOMAIN follows : s \in ScreenKinds /\ follows[s] \subseteq DOMAIN follows
  BY <1>1, LogbookAssumption
<1>4. Programs[d.program].counts \in Nat
  BY <1>1, LogbookAssumption
<1>5. e.run <= MaxRun
  BY DEF After
<1>6. CASE \E s \in follows[d.screen] : e = moved(s)
  <2>1. PICK s \in follows[d.screen] : e = moved(s)
    BY <1>6
  <2>2. s \in DOMAIN follows /\ s \in ScreenKinds
    BY <1>1, <1>3, <2>1
  <2>3. LET next == follows[d.screen]
        IN  /\ next \cap PreRun # {} => d.screen \in PreRun \cup {"idle"}
            /\ next \cap {"dry", "final"} # {} => d.screen \in Timed \cup {"alt", "other"}
            /\ next \cap {"alt", "other"} # {} => d.screen \in {"dry", "final", "alt", "other"}
            /\ d.screen = "complete" => next \subseteq {"idle"}
            /\ d.screen = "alt" => "idle" \notin next
    BY <1>1 DEF Orderly
  <2>4. /\ s \in PreRun => d.screen \in PreRun \cup {"idle"}
        /\ s \in {"dry", "final"} => d.screen \in Timed \cup {"alt", "other"}
        /\ s \in {"alt", "other"} => d.screen \in {"dry", "final", "alt", "other"}
        /\ d.screen = "complete" => s = "idle"
        /\ d.screen = "alt" => s # "idle"
    BY <2>1, <2>3
  <2> HIDE DEF d
  <2> HIDE DEF follows
  <2>5. CASE d.screen = "idle"
    <3>1. e = [d EXCEPT !.run = @ + 1, !.screen = s, !.elapsed = 0]
      BY <2>1, <2>5 DEF PreRun, Timed
    <3>2. /\ e.program = d.program /\ e.run = d.run + 1 /\ e.screen = s /\ e.elapsed = 0
          /\ e = [program |-> d.program, run |-> d.run + 1, screen |-> s, elapsed |-> 0]
      BY <3>1, <1>1 DEF DryerKinds
    <3>3. Begins(d, e)
      BY <3>2, <2>4, <2>5, <2>2 DEF Begins, ScreenKinds, Running, PreRun, Timed
    <3>4. e \in DryerKinds
      BY <3>2, <2>2, <1>2, <1>5, LogbookAssumption DEF DryerKinds
    <3>5. e.screen \in DOMAIN Does(e).follows
      BY <3>2, <2>2 DEF Does, follows
    <3> QED BY <3>3, <3>4, <3>5 DEF d
  <2>6. CASE d.screen # "idle" /\ s = "freeze" /\ d.screen \in PreRun
    <3>1. e = [d EXCEPT !.screen = s, !.elapsed = 0]
      BY <2>1, <2>6
    <3>2. /\ e.program = d.program /\ e.run = d.run /\ e.screen = s /\ e.elapsed = 0
          /\ e = [program |-> d.program, run |-> d.run, screen |-> s, elapsed |-> 0]
      BY <3>1, <1>1 DEF DryerKinds
    <3>3. Freezes(d, e)
      BY <3>2, <2>6 DEF Freezes, SameDryer
    <3>4. e \in DryerKinds
      BY <3>2, <2>2, <1>2 DEF DryerKinds
    <3>5. e.screen \in DOMAIN Does(e).follows
      BY <3>2, <2>2 DEF Does, follows
    <3> QED BY <3>3, <3>4, <3>5 DEF d
  <2>7. CASE /\ d.screen # "idle" /\ ~(s = "freeze" /\ d.screen \in PreRun)
             /\ s \in {"dry", "final"} /\ d.screen \in Timed \cup {"complete"}
    <3>1. e = [d EXCEPT !.screen = s, !.elapsed = @ + 1]
      BY <2>1, <2>7
    <3>2. /\ e.program = d.program /\ e.run = d.run /\ e.screen = s /\ e.elapsed = d.elapsed + 1
          /\ e = [program |-> d.program, run |-> d.run, screen |-> s, elapsed |-> d.elapsed + 1]
      BY <3>1, <1>1 DEF DryerKinds
    <3>3. e.elapsed >= 1 /\ e.elapsed >= d.elapsed /\ e.elapsed \in Nat
      BY <3>2, <1>2
    <3>4. GoesOn(d, e)
      BY <3>2, <3>3, <2>7, <2>4 DEF GoesOn, SameDryer, PreRun, Running, Timed
    <3>5. e \in DryerKinds
      BY <3>2, <3>3, <2>2, <1>2 DEF DryerKinds
    <3>6. e.screen \in DOMAIN Does(e).follows
      BY <3>2, <2>2 DEF Does, follows
    <3> QED BY <3>4, <3>5, <3>6 DEF d
  <2>8. CASE /\ d.screen # "idle" /\ ~(s = "freeze" /\ d.screen \in PreRun)
             /\ ~(s \in {"dry", "final"} /\ d.screen \in Timed \cup {"complete"})
    <3>1. e = [d EXCEPT !.screen = s]
      BY <2>1, <2>8
    <3>2. /\ e.program = d.program /\ e.run = d.run /\ e.screen = s /\ e.elapsed = d.elapsed
          /\ e = [program |-> d.program, run |-> d.run, screen |-> s, elapsed |-> d.elapsed]
      BY <3>1, <1>1 DEF DryerKinds
    <3>3. e.elapsed >= d.elapsed
      BY <3>2, <1>2
    <3>4. s \in {"dry", "final", "alt", "other"} => d.screen \in {"dry", "final", "alt", "other"}
      BY <2>4, <2>8 DEF Timed
    <3>5. s = "idle" => d.screen \in Running \cup {"complete", "other"}
      BY <2>4, <2>8, <1>2 DEF ScreenKinds
    <3>6. GoesOn(d, e)
      BY <3>2, <3>3, <3>4, <3>5, <2>8, <2>4 DEF GoesOn, SameDryer
    <3>7. e \in DryerKinds
      BY <3>2, <2>2, <1>2 DEF DryerKinds
    <3>8. e.screen \in DOMAIN Does(e).follows
      BY <3>2, <2>2 DEF Does, follows
    <3> QED BY <3>6, <3>7, <3>8 DEF d
  <2> QED BY <2>5, <2>6, <2>7, <2>8
<1>7. CASE d.screen \in Running /\ \E n \in d.elapsed + 1 .. Programs[d.program].counts :
             e = [d EXCEPT !.elapsed = n]
  <2>1. PICK n \in d.elapsed + 1 .. Programs[d.program].counts : e = [d EXCEPT !.elapsed = n]
    BY <1>7
  <2> HIDE DEF d
  <2> HIDE DEF follows
  <2>2. n \in Nat /\ n >= d.elapsed /\ n >= 1
    BY <1>2, <1>4, <2>1
  <2>3. /\ e.program = d.program /\ e.run = d.run /\ e.screen = d.screen /\ e.elapsed = n
        /\ e = [program |-> d.program, run |-> d.run, screen |-> d.screen, elapsed |-> n]
    BY <2>1, <1>1 DEF DryerKinds
  <2>4. e \in DryerKinds
    BY <2>2, <2>3, <1>2 DEF DryerKinds
  <2>5. GoesOn(d, e)
    BY <2>2, <2>3, <1>7 DEF GoesOn, SameDryer, Running, PreRun, Timed
  <2>6. e.screen \in DOMAIN Does(e).follows
    BY <2>3, <1>1 DEF Does, follows
  <2> QED BY <2>4, <2>5, <2>6 DEF d
<1>8. \/ \E s \in follows[d.screen] : e = moved(s)
      \/ d.screen \in Running /\ \E n \in d.elapsed + 1 .. Programs[d.program].counts :
             e = [d EXCEPT !.elapsed = n]
  BY Zenon DEF After, Does
<1> QED BY <1>6, <1>7, <1>8

Truths == [Runs -> [fate : Fates, reach : Nat, extensions : Nat]]

\* What becomes of the runs when the dryer moves.
LEMMA OnlyItsRunIsTold ==
  ASSUME DryerIs, NEW e \in DryerKinds, DryerMoves(e), e.run # 0
  PROVE  /\ truth' \in Truths /\ e.run \in Runs
         /\ \A r \in Runs : r # e.run => truth'[r] = truth[r]
         /\ truth'[e.run].fate = IF Fate(dryer, e) = "none" THEN truth[e.run].fate
                                 ELSE Fate(dryer, e)
         /\ truth'[e.run].reach = IF truth[e.run].reach < e.elapsed THEN e.elapsed
                                  ELSE truth[e.run].reach
<1> DEFINE k == e.run
           f == IF Fate(dryer, e) = "none" THEN truth[k].fate ELSE Fate(dryer, e)
           h == IF truth[k].reach < e.elapsed THEN e.elapsed ELSE truth[k].reach
           x == Extended(truth[k].extensions, dryer.screen, e.screen)
           n == [fate |-> f, reach |-> h, extensions |-> x]
<1>1. k \in Runs /\ k \in Nat /\ e.elapsed \in Nat
  BY LogbookAssumption DEF DryerKinds, Runs
<1>2. truth \in Truths
  BY DEF DryerIs, Truths
<1>3. truth[k] \in [fate : Fates, reach : Nat, extensions : Nat]
  BY <1>1, <1>2 DEF Truths
<1>4. /\ truth[k].fate \in Fates /\ truth[k].reach \in Nat /\ truth[k].extensions \in Nat
      /\ truth[k] = [fate |-> truth[k].fate, reach |-> truth[k].reach,
                     extensions |-> truth[k].extensions]
  BY <1>3
<1>5. Fate(dryer, e) \in Fates
  BY DEF Fate, Fates
<1>6. Extended(truth[k].extensions, dryer.screen, e.screen) \in Nat
  BY <1>4 DEF Extended
<1>7. n \in [fate : Fates, reach : Nat, extensions : Nat]
  BY <1>1, <1>4, <1>5, <1>6
<1>8. truth' = [truth EXCEPT ![k] = n]
  <2>1. truth' = [truth EXCEPT ![k].fate = f, ![k].reach = h, ![k].extensions = x]
    <3>1. k # 0
      OBVIOUS
    <3> HIDE DEF k
    <3> QED BY <3>1, <1>1, <1>2, Zenon DEF DryerMoves, k
  <2> HIDE DEF k, f, h, x
  <2>2. truth[k] = [fate |-> truth[k].fate, reach |-> truth[k].reach,
                     extensions |-> truth[k].extensions]
    BY <1>4
  <2>3. [truth[k] EXCEPT !.fate = f, !.reach = h, !.extensions = x] = n
    <3> DEFINE o == truth[k]
               m == [o EXCEPT !.fate = f, !.reach = h, !.extensions = x]
    <3>1. o \in [fate : Fates, reach : Nat, extensions : Nat]
      BY <1>3
    <3>2. f \in Fates /\ h \in Nat /\ x \in Nat
      BY <1>1, <1>4, <1>5, <1>6 DEF f, h, x
    <3> HIDE DEF o
    <3>3. m \in [fate : Fates, reach : Nat, extensions : Nat]
      BY <3>1, <3>2
    <3>4. m.fate = f /\ m.reach = h /\ m.extensions = x
      BY <3>1
    <3> HIDE DEF m
    <3>5. m = [fate |-> f, reach |-> h, extensions |-> x]
      BY <3>3, <3>4
    <3> QED BY <3>5 DEF n, m, o
  <2>4. truth' = [truth EXCEPT ![k] = [truth[k] EXCEPT !.fate = f, !.reach = h, !.extensions = x]]
    BY <2>1, <1>1, <1>2 DEF Truths
  <2> QED BY <2>3, <2>4
<1> HIDE DEF k
<1>9. /\ truth' \in Truths /\ \A r \in Runs : r # k => truth'[r] = truth[r]
      /\ truth'[k] = n
  <2> HIDE DEF n
  <2> QED BY <1>1, <1>2, <1>7, <1>8 DEF Truths
<1> QED BY <1>1, <1>9 DEF k

LEMMA MovedOn ==
  ASSUME Orderly(Programs), DryerIs, NEW e, DryerMoves(e),
         (e = dryer /\ powered) \/ e \in After(dryer)
  PROVE  /\ e \in DryerKinds /\ e.screen \in DOMAIN Does(e).follows
         /\ e = dryer \/ Begins(dryer, e) \/ Freezes(dryer, e) \/ GoesOn(dryer, e)
         /\ dryer \in DryerKinds /\ dryer.run \in Nat /\ dryer.elapsed \in Nat
         /\ e.run \in Nat /\ e.elapsed \in Nat /\ e.run <= MaxRun /\ MaxRun \in Nat
         /\ e.run >= dryer.run /\ dryer' = e
         /\ e.screen # "idle" => e.run >= 1
         /\ dryer.screen # "idle" => dryer.run >= 1
         /\ e \in After(dryer) => e.run >= 1
<1>1. dryer \in DryerKinds /\ (dryer.screen # "idle" => dryer.run >= 1) /\ dryer' = e
  BY DEF DryerIs, DryerMoves
<1>2. dryer.run \in Nat /\ dryer.elapsed \in Nat /\ MaxRun \in Nat
  BY <1>1, LogbookAssumption DEF DryerKinds
<1>3. /\ e \in DryerKinds /\ e.screen \in DOMAIN Does(e).follows
      /\ e = dryer \/ Begins(dryer, e) \/ Freezes(dryer, e) \/ GoesOn(dryer, e)
      /\ e \in After(dryer) => Begins(dryer, e) \/ Freezes(dryer, e) \/ GoesOn(dryer, e)
  BY DryerDoesOneOfThese DEF DryerIs
<1>4. e.run \in Nat /\ e.elapsed \in Nat /\ e.run <= MaxRun
  BY <1>3, LogbookAssumption DEF DryerKinds
<1>5. \/ e = dryer
      \/ dryer.screen = "idle" /\ e.run = dryer.run + 1
      \/ dryer.screen # "idle" /\ e.run = dryer.run
  BY <1>3 DEF Begins, Freezes, GoesOn, SameDryer, PreRun
<1>6. e \in After(dryer) => e.run >= 1
  <2>1. e \in After(dryer) =>
          e.run = dryer.run + 1 \/ (dryer.screen # "idle" /\ e.run = dryer.run)
    BY <1>3 DEF Begins, Freezes, GoesOn, SameDryer, PreRun
  <2> QED BY <2>1, <1>1, <1>2
<1> QED BY <1>1, <1>2, <1>3, <1>4, <1>5, <1>6

LEMMA DryerMoveKept ==
  ASSUME Orderly(Programs), DryerIs, Counted, NEW e, DryerMoves(e), powered' = powered,
         (e = dryer /\ powered) \/ e \in After(dryer)
  PROVE  DryerIs' /\ Counted'
<1>1. DryerIs'
  <2>1. truth' \in Truths
    <3>1. CASE e.run = 0
      BY <3>1, MovedOn DEF DryerMoves, DryerIs, Truths
    <3>2. CASE e.run # 0
      BY <3>2, MovedOn, OnlyItsRunIsTold
    <3> QED BY <3>1, <3>2
  <2>2. dark' \subseteq Runs
    <3>1. powered \/ e.run >= 1
      BY MovedOn
    <3>2. e.run >= 1 => e.run \in Runs
      BY MovedOn DEF Runs
    <3> QED BY <3>1, <3>2 DEF DryerMoves, DryerIs
  <2> QED BY <2>1, <2>2, MovedOn DEF DryerIs, Truths, Does
<1>2. e.run >= 1 => e.elapsed <= truth'[e.run].reach
  <2> SUFFICES ASSUME e.run >= 1 PROVE e.elapsed <= truth'[e.run].reach
    OBVIOUS
  <2>1. /\ e.run \in Runs
        /\ truth'[e.run].reach = IF truth[e.run].reach < e.elapsed THEN e.elapsed
                                 ELSE truth[e.run].reach
    BY MovedOn, OnlyItsRunIsTold
  <2>2. truth[e.run].reach \in Nat
    BY <2>1 DEF DryerIs
  <2> QED BY <2>1, <2>2, MovedOn
<1>3. e.screen \in {"dry", "final", "alt", "other"} => e.elapsed >= 1
  BY MovedOn DEF Counted, Begins, Freezes, GoesOn, PreRun
<1>4. e.screen = "complete" => truth'[e.run].fate = "complete"
  <2> SUFFICES ASSUME e.screen = "complete" PROVE truth'[e.run].fate = "complete"
    OBVIOUS
  <2>1. e.run # 0
    BY MovedOn
  <2>2. truth'[e.run].fate = IF Fate(dryer, e) = "none" THEN truth[e.run].fate
                                 ELSE Fate(dryer, e)
    BY <2>1, MovedOn, OnlyItsRunIsTold
  <2> QED BY <2>2 DEF Fate
<1> QED BY <1>1, <1>2, <1>3, <1>4, MovedOn DEF Counted

\* A run that is over stays what it was; and no run gets shorter.
LEMMA OverIsOver ==
  ASSUME Orderly(Programs), DryerIs, Counted, NEW e, DryerMoves(e),
         (e = dryer /\ powered) \/ e \in After(dryer),
         NEW r \in 1 .. dryer.run
  PROVE  /\ r \in 1 .. dryer'.run /\ r \in Runs
         /\ truth[r].reach \in Nat /\ truth'[r].reach \in Nat
         /\ truth'[r].reach >= truth[r].reach
         /\ Over(r) => Over(r)' /\ truth'[r].fate = truth[r].fate
<1>1. r \in Runs /\ r \in Nat /\ r >= 1 /\ r <= e.run /\ dryer' = e /\ e.run # 0
  BY MovedOn DEF Runs
<1>2. truth[r].reach \in Nat
  BY <1>1 DEF DryerIs
<1>3. /\ truth' \in Truths
      /\ \A n \in Runs : n # e.run => truth'[n] = truth[n]
      /\ truth'[e.run].fate = IF Fate(dryer, e) = "none" THEN truth[e.run].fate
                              ELSE Fate(dryer, e)
      /\ truth'[e.run].reach = IF truth[e.run].reach < e.elapsed THEN e.elapsed
                               ELSE truth[e.run].reach
  BY <1>1, MovedOn, OnlyItsRunIsTold
<1>4. truth'[r].reach \in Nat
  BY <1>1, <1>3 DEF Truths
<1>5. truth'[r].reach >= truth[r].reach
  BY <1>1, <1>2, <1>3, MovedOn
<1>6. ASSUME Over(r) PROVE Over(r)' /\ truth'[r].fate = truth[r].fate
  <2>1. CASE r < dryer.run
    <3>1. r < e.run /\ r # e.run
      BY <2>1, <1>1, MovedOn
    <3> QED BY <3>1, <1>1, <1>3 DEF Over
  <2>2. CASE r = dryer.run /\ dryer.screen = "complete"
    <3>1. e.run = r /\ e.screen \in {"complete", "idle"}
      BY <2>2, MovedOn DEF Begins, Freezes, GoesOn, SameDryer, PreRun
    <3>2. Fate(dryer, e) \in {"none", "complete"}
      BY <3>1, <2>2 DEF Fate, Running, PreRun, Timed
    <3>3. truth[r].fate = "complete"
      BY <2>2 DEF Counted
    <3> QED BY <3>1, <3>2, <3>3, <1>1, <1>3 DEF Over
  <2>3. CASE r = dryer.run /\ dryer.screen = "idle"
    <3>1. e = dryer \/ e.run = dryer.run + 1
      BY <2>3, MovedOn DEF Begins, Freezes, GoesOn, PreRun
    <3>2. CASE e = dryer
      <4>1. Fate(dryer, e) = "none"
        BY <3>2, <2>3 DEF Fate, Running, PreRun, Timed
      <4> QED BY <4>1, <3>2, <2>3, <1>1, <1>3 DEF Over
    <3>3. CASE e.run = dryer.run + 1
      <4>1. r < e.run /\ r # e.run
        BY <3>3, <2>3, <1>1
      <4> QED BY <4>1, <1>1, <1>3 DEF Over
    <3> QED BY <3>1, <3>2, <3>3
  <2>4. dryer.run \in Nat
    BY MovedOn
  <2> QED BY <1>6, <1>1, <2>1, <2>2, <2>3, <2>4 DEF Over
<1> QED BY <1>1, <1>2, <1>4, <1>5, <1>6, MovedOn

-----------------------------------------------------------------------------
\* What the tracker makes of a frame.

Total(spent) == spent["freeze"] + spent["dry"] + spent["final"]
Spent == [Timed -> Nat]

LEMMA Credited ==
  ASSUME NEW c \in Trackers, NEW phase \in ScreenKinds, NEW elapsed \in Nat
  PROVE  /\ Credit(c, phase, elapsed) \in Spent
         /\ Total(c.cur.spent) \in Nat /\ Total(Credit(c, phase, elapsed)) \in Nat
         /\ \/ Credit(c, phase, elapsed) = c.cur.spent
            \/ /\ phase \in Timed /\ elapsed > c.lastElapsed
               /\ Total(Credit(c, phase, elapsed)) =
                    Total(c.cur.spent) + (elapsed - c.lastElapsed)
<1> DEFINE s == c.cur.spent
           step == elapsed - c.lastElapsed
           one == Credit(c, phase, elapsed)
<1>1. s \in Spent /\ c.lastElapsed \in Nat /\ c.cur \in Records
  BY DEF Trackers, Records, Spent
<1>2. s["freeze"] \in Nat /\ s["dry"] \in Nat /\ s["final"] \in Nat /\ Total(s) \in Nat
  <2> HIDE DEF s
  <2>1. s["freeze"] \in Nat /\ s["dry"] \in Nat /\ s["final"] \in Nat
    BY <1>1 DEF Spent, Timed
  <2> QED BY <2>1 DEF Total
<1>3. CASE one = s
  BY <1>1, <1>2, <1>3
<1>4. CASE one # s
  <2>1. /\ phase \in Timed /\ step > 0 /\ one = [s EXCEPT ![phase] = @ + step]
    BY <1>4 DEF Credit
  <2>2. step \in Nat /\ elapsed > c.lastElapsed
    BY <1>1, <2>1
  <2> HIDE DEF s, one
  <2>3. s[phase] \in Nat
    BY <1>1, <2>1 DEF Spent
  <2> HIDE DEF step
  <2>4. one = [s EXCEPT ![phase] = s[phase] + step] /\ s[phase] + step \in Nat
    BY <2>1, <2>2, <2>3
  <2>5. one \in Spent
    BY <1>1, <2>1, <2>4 DEF Spent
  <2>6. /\ one[phase] = s[phase] + step
        /\ \A p \in Timed : p # phase => one[p] = s[p]
    BY <1>1, <2>1, <2>4 DEF Spent
  <2>7. Total(one) = Total(s) + step
    <3>1. CASE phase = "freeze"
      BY <3>1, <1>2, <2>2, <2>6 DEF Total, Timed
    <3>2. CASE phase = "dry"
      BY <3>2, <1>2, <2>2, <2>6 DEF Total, Timed
    <3>3. CASE phase = "final"
      BY <3>3, <1>2, <2>2, <2>6 DEF Total, Timed
    <3> QED BY <2>1, <3>1, <3>2, <3>3 DEF Timed
  <2>8. Total(one) \in Nat
    BY <1>2, <2>2, <2>7
  <2> QED BY <1>2, <2>1, <2>2, <2>5, <2>7, <2>8 DEF step, s, one
<1> QED BY <1>3, <1>4

LEMMA TrackerFields ==
  ASSUME NEW c \in Trackers
  PROVE  /\ c.active \in BOOLEAN /\ c.cur \in Records
         /\ c.lastPhase \in ScreenKinds \cup {"none"} /\ c.lastElapsed \in Nat
         /\ c.haveLast \in BOOLEAN /\ c.startElapsed \in Nat
         /\ c.cur.run \in 0 .. MaxRun /\ c.cur.outcome \in Outcomes /\ c.cur.dur \in Nat
         /\ c.cur.spent \in Spent /\ c.cur.extra \in Nat
         /\ c = [active |-> c.active, cur |-> c.cur, lastPhase |-> c.lastPhase,
                 lastElapsed |-> c.lastElapsed, haveLast |-> c.haveLast,
                 startElapsed |-> c.startElapsed]
<1>1. /\ c.active \in BOOLEAN /\ c.cur \in Records
      /\ c.lastPhase \in ScreenKinds \cup {"none"} /\ c.lastElapsed \in Nat
      /\ c.haveLast \in BOOLEAN /\ c.startElapsed \in Nat
      /\ c = [active |-> c.active, cur |-> c.cur, lastPhase |-> c.lastPhase,
                 lastElapsed |-> c.lastElapsed, haveLast |-> c.haveLast,
                 startElapsed |-> c.startElapsed]
  BY DEF Trackers
<1>2. /\ c.cur.run \in 0 .. MaxRun /\ c.cur.outcome \in Outcomes /\ c.cur.dur \in Nat
      /\ c.cur.spent \in Spent /\ c.cur.extra \in Nat
  <2> DEFINE r == c.cur
  <2>1. r \in Records
    BY <1>1
  <2> HIDE DEF r
  <2>2. /\ r.run \in 0 .. MaxRun /\ r.outcome \in Outcomes /\ r.dur \in Nat
        /\ r.spent \in Spent /\ r.extra \in Nat
    BY <2>1 DEF Records, Spent
  <2> QED BY <2>2 DEF r
<1> QED BY <1>1, <1>2

\* The steps of hr_batch_observe, one at a time.
Lost(c, phase, elapsed) == WentBack(c, elapsed) /\ ~Rebases(c, phase)

LEMMA Finishing ==
  ASSUME NEW c \in Trackers, NEW why \in Outcomes
  PROVE  LET f == FinishRecord(c, why)
         IN  /\ f \in Trackers /\ ~f.active
             /\ f.cur.run = c.cur.run /\ f.cur.outcome = why /\ f.cur.spent = c.cur.spent
             /\ f.lastPhase = c.lastPhase /\ f.lastElapsed = c.lastElapsed
             /\ f.haveLast = c.haveLast
<1> DEFINE f == FinishRecord(c, why)
           r == [c.cur EXCEPT !.outcome = why]
<1>1. r \in Records /\ r.run = c.cur.run /\ r.outcome = why /\ r.spent = c.cur.spent
  <2> DEFINE q == c.cur
  <2>1. q \in Records
    BY TrackerFields
  <2> HIDE DEF q
  <2>2. /\ [q EXCEPT !.outcome = why] \in Records
        /\ [q EXCEPT !.outcome = why].run = q.run
        /\ [q EXCEPT !.outcome = why].outcome = why
        /\ [q EXCEPT !.outcome = why].spent = q.spent
    BY <2>1 DEF Records
  <2> QED BY <2>2 DEF q
<1>2. f = [c EXCEPT !.active = FALSE, !.cur = r]
  BY DEF FinishRecord, Trackers
<1> HIDE DEF r
<1>3. /\ f \in Trackers /\ f.active = FALSE /\ f.cur = r
      /\ f.lastPhase = c.lastPhase /\ f.lastElapsed = c.lastElapsed
      /\ f.haveLast = c.haveLast
  <2> HIDE DEF f
  <2> QED BY <1>1, <1>2 DEF Trackers
<1> QED BY <1>1, <1>3

LEMMA Beginning ==
  ASSUME NEW c \in Trackers, NEW run \in 0 .. MaxRun, NEW elapsed \in Nat
  PROVE  LET b == BeginRecord(c, run, elapsed)
         IN  /\ b \in Trackers /\ b.active
             /\ b.cur.run = run /\ Total(b.cur.spent) = 0
             /\ b.lastPhase = c.lastPhase /\ b.lastElapsed = c.lastElapsed
             /\ b.haveLast = c.haveLast
<1> DEFINE b == BeginRecord(c, run, elapsed)
           r == [NoRecord EXCEPT !.run = run]
<1>1. r \in Records /\ r.run = run /\ Total(r.spent) = 0
  BY DEF NoRecord, Records, Outcomes, Total, Timed
<1>2. b = [c EXCEPT !.active = TRUE, !.startElapsed = elapsed, !.cur = r]
  BY DEF BeginRecord
<1> HIDE DEF r
<1>3. /\ b \in Trackers /\ b.active = TRUE /\ b.cur = r
      /\ b.lastPhase = c.lastPhase /\ b.lastElapsed = c.lastElapsed
      /\ b.haveLast = c.haveLast
  <2> HIDE DEF b
  <2> QED BY <1>1, <1>2 DEF Trackers
<1> QED BY <1>1, <1>3

LEMMA Measuring ==
  ASSUME NEW c \in Trackers, NEW phase \in ScreenKinds, NEW elapsed \in Nat
  PROVE  LET m == Measure(c, phase, elapsed)
         IN  /\ m \in Trackers /\ m.active = c.active
             /\ m.cur.run = c.cur.run
             /\ c.active => m.cur.spent = Credit(c, phase, elapsed)
             /\ m.lastPhase = c.lastPhase /\ m.lastElapsed = c.lastElapsed
             /\ m.haveLast = c.haveLast
<1>1. CASE ~c.active
  BY <1>1 DEF Measure
<1>2. CASE c.active
  <2> DEFINE m == Measure(c, phase, elapsed)
             n == IF elapsed > c.startElapsed THEN elapsed - c.startElapsed ELSE 0
             s == Credit(c, phase, elapsed)
             r == [c.cur EXCEPT !.dur = n, !.spent = s]
  <2>1. n \in Nat /\ s \in Spent
    BY TrackerFields, Credited
  <2>2. m = [c EXCEPT !.cur.dur = n, !.cur.spent = s]
    BY <1>2 DEF Measure
  <2> HIDE DEF n, s
  <2>3. r \in Records /\ r.run = c.cur.run /\ r.spent = s
    <3> DEFINE q == c.cur
    <3>1. q \in Records
      BY TrackerFields
    <3> HIDE DEF q
    <3>2. /\ [q EXCEPT !.dur = n, !.spent = s] \in Records
          /\ [q EXCEPT !.dur = n, !.spent = s].run = q.run
          /\ [q EXCEPT !.dur = n, !.spent = s].spent = s
      BY <3>1, <2>1 DEF Records, Spent
    <3> QED BY <3>2 DEF q, r
  <2>4. m = [c EXCEPT !.cur = r]
    <3> HIDE DEF m
    <3> QED BY <2>2 DEF r, Trackers
  <2> HIDE DEF r
  <2>5. /\ m \in Trackers /\ m.active = c.active /\ m.cur = r
        /\ m.lastPhase = c.lastPhase /\ m.lastElapsed = c.lastElapsed
        /\ m.haveLast = c.haveLast
    <3> HIDE DEF m
    <3> QED BY <2>3, <2>4 DEF Trackers
  <2> QED BY <2>3, <2>5 DEF s
<1> QED BY <1>1, <1>2 DEF Trackers

LEMMA Folding ==
  ASSUME NEW screen \in ScreenKinds
  PROVE  /\ Fold(screen) \in ScreenKinds /\ Fold(screen) # "alt"
         /\ screen # "alt" => Fold(screen) = screen
         /\ screen = "alt" => Fold(screen) = "final"
BY DEF Fold, ScreenKinds, Running, Timed

LEMMA Watched ==
  ASSUME NEW c \in Trackers, NEW screen \in ScreenKinds, NEW elapsed \in Nat,
         NEW run \in 0 .. MaxRun
  PROVE  LET o     == Observe(c, screen, elapsed, run)
             u     == o.tracker
             phase == Fold(screen)
         IN  /\ u \in Trackers /\ u.haveLast
             /\ u.lastPhase = phase /\ u.lastElapsed = elapsed
             /\ o.finished <=> c.active /\ ~u.active
             /\ c.active => u.cur.run = c.cur.run
             /\ Lost(c, phase, elapsed) =>
                  ~u.active /\ u.cur.outcome = "interrupted" /\ u.cur.spent = c.cur.spent
             /\ c.active /\ ~Lost(c, phase, elapsed) =>
                  /\ u.cur.spent = Credit(c, phase, elapsed)
                  /\ u.active <=> Ending(c, phase) = "none"
                  /\ ~u.active => u.cur.outcome = Ending(c, phase)
             /\ ~c.active /\ u.active =>
                  /\ phase \in Running /\ u.cur.run = run
                  /\ Total(u.cur.spent) \in Nat /\ Total(u.cur.spent) <= elapsed
                  /\ phase \in PreRun => Total(u.cur.spent) = 0
<1> DEFINE o     == Observe(c, screen, elapsed, run)
           u     == o.tracker
           phase == Fold(screen)
           lost  == Lost(c, phase, elapsed)
           t1 == IF lost THEN FinishRecord(c, "interrupted")
                 ELSE IF WentBack(c, elapsed) THEN [c EXCEPT !.startElapsed = elapsed]
                 ELSE c
           begins == ~t1.active /\ phase \in Running /\ ~lost
           t2 == IF begins THEN BeginRecord(t1, run, elapsed) ELSE t1
           t3 == Measure(t2, phase, elapsed)
           ends == t3.active /\ Ending(t3, phase) # "none"
           t4 == IF ends THEN FinishRecord(t3, Ending(t3, phase)) ELSE t3
<1>1. o = [tracker  |-> [t4 EXCEPT !.lastPhase = phase, !.lastElapsed = elapsed,
                                   !.haveLast = TRUE],
           finished |-> lost \/ ends]
  BY Zenon DEF Observe, Lost
<1>2. phase \in ScreenKinds
  BY Folding
<1> HIDE DEF phase
<1>3. /\ t1 \in Trackers /\ t1.cur.run = c.cur.run
      /\ t1.lastPhase = c.lastPhase /\ t1.lastElapsed = c.lastElapsed
      /\ t1.haveLast = c.haveLast
      /\ lost => ~t1.active /\ t1.cur.outcome = "interrupted" /\ t1.cur.spent = c.cur.spent
      /\ ~lost => t1.active = c.active /\ t1.cur = c.cur
  <2>1. CASE lost
    BY <2>1, Finishing DEF Outcomes
  <2>2. CASE ~lost /\ WentBack(c, elapsed)
    BY <2>2 DEF Trackers
  <2>3. CASE ~lost /\ ~WentBack(c, elapsed)
    BY <2>3 DEF Trackers
  <2> QED BY <2>1, <2>2, <2>3
<1>4. lost => c.active
  BY DEF Lost, WentBack
<1> HIDE DEF lost, t1
<1>5. /\ t2 \in Trackers
      /\ t2.lastPhase = c.lastPhase /\ t2.lastElapsed = c.lastElapsed
      /\ t2.haveLast = c.haveLast
      /\ begins => t2.active /\ t2.cur.run = run /\ Total(t2.cur.spent) = 0
      /\ ~begins => t2 = t1
  <2>1. CASE begins
    BY <2>1, <1>3, Beginning
  <2>2. CASE ~begins
    BY <2>2, <1>3
  <2> QED BY <2>1, <2>2
<1>6. begins <=> ~c.active /\ phase \in Running
  BY <1>3, <1>4
<1> HIDE DEF begins, t2
<1>7. /\ t3 \in Trackers /\ t3.active = t2.active
      /\ t3.cur.run = t2.cur.run
      /\ t2.active => t3.cur.spent = Credit(t2, phase, elapsed)
      /\ t3.lastPhase = c.lastPhase
      /\ ~t2.active => t3 = t2
  <2> HIDE DEF t3
  <2>1. t3 = Measure(t2, phase, elapsed)
    BY DEF t3
  <2>2. ~t2.active => t3 = t2
    BY <2>1 DEF Measure
  <2>3. LET m == Measure(t2, phase, elapsed)
        IN  /\ m \in Trackers /\ m.active = t2.active
            /\ m.cur.run = t2.cur.run
            /\ t2.active => m.cur.spent = Credit(t2, phase, elapsed)
            /\ m.lastPhase = t2.lastPhase
    BY <1>2, <1>5, Measuring
  <2> QED BY <2>1, <2>2, <2>3, <1>5
<1>8. Ending(t3, phase) = Ending(c, phase)
  BY <1>7 DEF Ending
<1>9. Ending(t3, phase) \in Outcomes \cup {"none"}
  BY DEF Ending, Outcomes
<1> HIDE DEF t3
<1>10. /\ t4 \in Trackers /\ t4.cur.run = t3.cur.run /\ t4.cur.spent = t3.cur.spent
       /\ ends => ~t4.active /\ t4.cur.outcome = Ending(c, phase)
       /\ ~ends => t4 = t3
  <2>1. CASE ends
    BY <2>1, <1>7, <1>8, <1>9, Finishing
  <2>2. CASE ~ends
    BY <2>2, <1>7
  <2> QED BY <2>1, <2>2
<1>11. ends <=> t2.active /\ Ending(c, phase) # "none"
  BY <1>7, <1>8
<1> HIDE DEF ends, t4
<1>12. /\ u \in Trackers /\ u.haveLast
       /\ u.lastPhase = phase /\ u.lastElapsed = elapsed
       /\ u.active = t4.active /\ u.cur = t4.cur
       /\ o.finished <=> lost \/ ends
  <2>1. u = [t4 EXCEPT !.lastPhase = phase, !.lastElapsed = elapsed, !.haveLast = TRUE]
    BY <1>1
  <2>2. o.finished <=> lost \/ ends
    <3> DEFINE w == lost \/ ends
               v == [t4 EXCEPT !.lastPhase = phase, !.lastElapsed = elapsed, !.haveLast = TRUE]
    <3>1. o = [tracker |-> v, finished |-> w]
      BY <1>1, Zenon
    <3> HIDE DEF o, v, w
    <3>2. o.finished = w
      BY <3>1
    <3> QED BY <3>2, Zenon DEF w
  <2> HIDE DEF u
  <2> QED BY <1>2, <1>10, <2>1, <2>2 DEF Trackers
<1> HIDE DEF o, u
<1>13. CASE lost
  <2>1. ~t1.active /\ t2 = t1 /\ t3 = t2 /\ t4 = t3
    BY <1>13, <1>3, <1>4, <1>5, <1>6, <1>7, <1>10, <1>11
  <2> QED BY <2>1, <1>12, <1>13, <1>3, <1>4 DEF lost, u, o, phase
<1>14. CASE ~lost /\ c.active
  <2>1. t1.active /\ t2 = t1 /\ t2.cur = c.cur
    BY <1>14, <1>3, <1>5, <1>6
  <2>2. t3.active /\ t3.cur.run = c.cur.run
    BY <2>1, <1>7
  <2>3. Credit(t2, phase, elapsed) = Credit(c, phase, elapsed)
    BY <2>1, <1>5 DEF Credit
  <2>4. u.cur.run = c.cur.run /\ u.cur.spent = Credit(c, phase, elapsed)
    BY <2>1, <2>2, <2>3, <1>7, <1>10, <1>12
  <2>5. /\ u.active <=> Ending(c, phase) = "none"
        /\ ~u.active => u.cur.outcome = Ending(c, phase)
        /\ o.finished <=> ~u.active
    BY <2>1, <2>2, <1>14, <1>10, <1>11, <1>12
  <2> QED BY <2>4, <2>5, <1>12, <1>14 DEF lost, u, o, phase
<1>15. CASE ~lost /\ ~c.active
  <2>1. CASE phase \in Running
    <3>1. begins /\ t2.active /\ t2.cur.run = run /\ Total(t2.cur.spent) = 0
      BY <2>1, <1>15, <1>5, <1>6
    <3>2. Ending(c, phase) = "none"
      BY <2>1 DEF Ending, Running, PreRun, Timed
    <3>3. ~ends /\ t4 = t3 /\ u.active /\ ~o.finished
      BY <3>1, <3>2, <1>7, <1>10, <1>11, <1>12, <1>15
    <3>4. u.cur.run = run /\ u.cur.spent = Credit(t2, phase, elapsed)
      BY <3>1, <3>3, <1>7, <1>12
    <3>5. /\ Total(u.cur.spent) \in Nat
          /\ \/ Credit(t2, phase, elapsed) = t2.cur.spent
             \/ /\ phase \in Timed /\ elapsed > t2.lastElapsed
                /\ Total(u.cur.spent) = Total(t2.cur.spent) + (elapsed - t2.lastElapsed)
      BY <3>4, <1>2, <1>5, Credited
    <3>6. t2.lastElapsed \in Nat
      BY <1>5, TrackerFields
    <3>7. Total(u.cur.spent) <= elapsed
      BY <3>1, <3>4, <3>5, <3>6
    <3>8. phase \in PreRun => Total(u.cur.spent) = 0
      BY <3>1, <3>4, <3>5 DEF PreRun, Timed
    <3> QED BY <3>3, <3>4, <3>5, <3>7, <3>8, <2>1, <1>12, <1>15 DEF lost, u, o, phase
  <2>2. CASE phase \notin Running
    <3>1. ~t1.active /\ t2 = t1 /\ t3 = t2 /\ t4 = t3 /\ ~ends
      BY <2>2, <1>15, <1>3, <1>5, <1>6, <1>7, <1>10, <1>11
    <3> QED BY <3>1, <1>12, <1>15 DEF lost, u, o, phase
  <2> QED BY <2>1, <2>2
<1> QED BY <1>13, <1>14, <1>15

-----------------------------------------------------------------------------
\* What Right will say of a record after a step.
NextRight(rec) ==
  /\ rec.run \in 1 .. dryer'.run
  /\ rec.run \notin dark' =>
       /\ rec.run < dryer'.run \/ dryer'.screen \in {"complete", "idle"}
       /\ rec.outcome = IF truth'[rec.run].fate = "strayed" THEN "interrupted"
                        ELSE truth'[rec.run].fate
       /\ SumPhases(rec) <= truth'[rec.run].reach
       /\ ~(t'.active /\ t'.cur.run = rec.run)

LEMMA AllNextRight ==
  ASSUME \A i \in DOMAIN log' : NextRight(log'[i]),
         parked' # NoRecord => NextRight(parked'),
         pc' = "write" => NextRight(loc'.rec)
  PROVE  AllRight'
BY DEF AllRight, Right, NextRight, OfRun, Dark, Over, Told, SumPhases

-----------------------------------------------------------------------------
\* The second critical section of on_inbound.

LEMMA Frame ==
  ASSUME LogbookIInv, usb # NoFrame
  PROVE  /\ powered /\ t \in Trackers
         /\ usb.screen = dryer.screen /\ usb.elapsed = dryer.elapsed /\ usb.run = dryer.run
         /\ dryer.screen \in ScreenKinds /\ dryer.elapsed \in Nat
         /\ dryer.run \in 0 .. MaxRun /\ dryer.run \in Nat /\ MaxRun \in Nat
BY LogbookAssumption DEF LogbookIInv, DryerIs, DryerKinds, Memory, RamIs

\* The tracker of a whole run, at a frame: the first of the next run, which
\* closes the one that strayed, or one that continues it.
LEMMA OneMoreFrame ==
  ASSUME LogbookIInv, usb # NoFrame, t.active, ~Dark(t.cur),
         NEW phase, phase = Fold(dryer.screen)
  PROVE  /\ t.cur.run \in Runs /\ Total(t.cur.spent) \in Nat
         /\ Total(t.cur.spent) <= truth[t.cur.run].reach
         /\ \/ NextIsPending /\ Lost(t, phase, dryer.elapsed)
            \/ /\ SeenAllButOne /\ ~Lost(t, phase, dryer.elapsed)
               /\ Total(Credit(t, phase, dryer.elapsed)) <= dryer.elapsed
               /\ phase \in PreRun => Total(Credit(t, phase, dryer.elapsed)) = 0
<1> DEFINE w == Credit(t, phase, dryer.elapsed)
<1>1. /\ t \in Trackers /\ phase \in ScreenKinds /\ dryer.elapsed \in Nat
      /\ phase # "alt" /\ (dryer.screen # "alt" => phase = dryer.screen)
      /\ (dryer.screen = "alt" => phase = "final")
  BY Frame, Folding
<1>2. /\ t.lastElapsed \in Nat /\ t.haveLast
      /\ t.cur.run \in 1 .. dryer.run
  BY <1>1, TrackerFields DEF LogbookIInv, LeftOpen, OfRun
<1>3. t.cur.run \in Runs /\ t.cur.run \in Nat
  BY <1>2, Frame DEF Runs
<1>4. truth[t.cur.run].reach \in Nat
  BY <1>3 DEF LogbookIInv, DryerIs
<1>5. /\ Total(t.cur.spent) <= t.lastElapsed
      /\ t.lastElapsed <= truth[t.cur.run].reach
      /\ t.lastPhase \in PreRun => Total(t.cur.spent) = 0
      /\ SeenAllButOne \/ NextIsPending
  BY DEF LogbookIInv, InStep, SumPhases, Total
<1>6. /\ Total(t.cur.spent) \in Nat /\ Total(w) \in Nat
      /\ \/ w = t.cur.spent
         \/ /\ phase \in Timed /\ dryer.elapsed > t.lastElapsed
            /\ Total(w) = Total(t.cur.spent) + (dryer.elapsed - t.lastElapsed)
  BY <1>1, Credited
<1>7. Total(t.cur.spent) <= truth[t.cur.run].reach
  BY <1>2, <1>4, <1>5, <1>6
<1>8. CASE NextIsPending
  <2>1. WentBack(t, dryer.elapsed)
    BY <1>8, <1>2 DEF NextIsPending, WentBack
  <2>2. ~Rebases(t, phase)
    BY <1>8 DEF NextIsPending, Rebases, PreRun
  <2> QED BY <2>1, <2>2, <1>3, <1>6, <1>7, <1>8 DEF Lost
<1>9. CASE SeenAllButOne
  <2>1. ~Lost(t, phase, dryer.elapsed)
    <3>1. WentBack(t, dryer.elapsed) => t.lastPhase \in PreRun /\ dryer.screen = "freeze"
      BY <1>9 DEF WentBack, SeenAllButOne
    <3> QED BY <3>1, <1>1 DEF Lost, Rebases, Running, Timed
  <2>2. phase \in PreRun => t.lastPhase \in PreRun
    <3>1. phase \in PreRun => dryer.screen = phase
      BY <1>1 DEF PreRun
    <3> QED BY <3>1, <1>9 DEF SeenAllButOne
  <2>3. phase \in PreRun => phase \notin Timed
    BY DEF PreRun, Timed
  <2>4. phase \in PreRun => Total(w) = 0
    BY <2>2, <2>3, <1>5, <1>6
  <2>5. Total(w) <= dryer.elapsed
    <3>1. CASE w = t.cur.spent /\ dryer.elapsed < t.lastElapsed
      <4>1. Total(w) = 0
        BY <3>1, <1>5, <1>9 DEF SeenAllButOne
      <4> QED BY <4>1, <1>1
    <3>2. CASE w = t.cur.spent /\ dryer.elapsed >= t.lastElapsed
      BY <3>2, <1>1, <1>2, <1>5, <1>6
    <3>3. CASE w # t.cur.spent
      <4> HIDE DEF w
      <4> QED BY <3>3, <1>1, <1>2, <1>5, <1>6
    <3> QED BY <3>1, <3>2, <3>3, <1>1, <1>2
  <2> QED BY <2>1, <2>4, <2>5, <1>3, <1>6, <1>7, <1>9
<1> QED BY <1>5, <1>8, <1>9

\* What a frame finishes is over, and the record says so.
LEMMA FinishedRight ==
  ASSUME LogbookIInv, usb # NoFrame, NEW o,
         o = Observe(t, usb.screen, usb.elapsed, usb.run), o.finished
  PROVE  /\ t.active /\ o.tracker.cur \in Records /\ ~o.tracker.active
         /\ o.tracker.cur.run = t.cur.run /\ OfRun(t.cur)
         /\ o.tracker.cur.outcome # "running"
         /\ ~Dark(t.cur) =>
              /\ Over(t.cur.run) /\ o.tracker.cur.outcome = Told(t.cur.run)
              /\ Total(o.tracker.cur.spent) <= truth[t.cur.run].reach
<1> DEFINE phase == Fold(dryer.screen)
           elapsed == dryer.elapsed
           u == o.tracker
<1>1. /\ t \in Trackers /\ dryer.screen \in ScreenKinds /\ elapsed \in Nat
      /\ dryer.run \in 0 .. MaxRun
      /\ o = Observe(t, dryer.screen, elapsed, dryer.run)
  BY Frame
<1>2. /\ phase \in ScreenKinds /\ phase # "alt" /\ (dryer.screen # "alt" => phase = dryer.screen)
      /\ (dryer.screen = "alt" => phase = "final")
  BY <1>1, Folding
<1>3. /\ u \in Trackers
      /\ t.active /\ ~u.active
      /\ u.cur.run = t.cur.run
      /\ Lost(t, phase, elapsed) =>
                  u.cur.outcome = "interrupted" /\ u.cur.spent = t.cur.spent
      /\ ~Lost(t, phase, elapsed) =>
                  /\ u.cur.spent = Credit(t, phase, elapsed)
                  /\ Ending(t, phase) # "none"
                  /\ u.cur.outcome = Ending(t, phase)
  BY <1>1, Watched
<1>4. u.cur \in Records
  BY <1>3, TrackerFields
<1>5. OfRun(t.cur)
  BY <1>3 DEF LogbookIInv, LeftOpen
<1>6. u.cur.outcome # "running"
  BY <1>3 DEF Ending
<1>7. ASSUME ~Dark(t.cur)
      PROVE  /\ Over(t.cur.run) /\ u.cur.outcome = Told(t.cur.run)
             /\ Total(u.cur.spent) <= truth[t.cur.run].reach
  <2>1. CASE NextIsPending /\ Lost(t, phase, elapsed)
    <3>1. Over(t.cur.run)
      <4>1. t.cur.run = dryer.run - 1
        BY <2>1 DEF NextIsPending
      <4> QED BY <4>1, Frame DEF Over
    <3>2. Told(t.cur.run) = "interrupted"
      BY <2>1 DEF NextIsPending, Told
    <3>3. Total(t.cur.spent) <= truth[t.cur.run].reach
      BY <1>3, <1>7, OneMoreFrame
    <3> QED BY <3>1, <3>2, <3>3, <2>1, <1>3
  <2>2. CASE SeenAllButOne /\ ~Lost(t, phase, elapsed)
    <3>1. Total(u.cur.spent) <= elapsed
      <4>1. Total(Credit(t, phase, elapsed)) <= elapsed
        BY <2>2, <1>3, <1>7, OneMoreFrame
      <4> QED BY <4>1, <2>2, <1>3
    <3>2. t.cur.run = dryer.run
      BY <2>2 DEF SeenAllButOne
    <3>3. elapsed <= truth[dryer.run].reach /\ truth[dryer.run].reach \in Nat
      <4>1. dryer.run >= 1 /\ dryer.run \in Runs
        BY <3>2, <1>5, Frame DEF OfRun, Runs
      <4> QED BY <4>1 DEF LogbookIInv, Counted, DryerIs
    <3>4. Total(u.cur.spent) <= truth[t.cur.run].reach
      <4>1. Total(u.cur.spent) \in Nat
        BY <1>1, <1>2, <1>3, <2>2, Credited
      <4> QED BY <4>1, <3>1, <3>2, <3>3, <1>1
    <3>5. Ending(t, phase) # "none"
      BY <2>2, <1>3
    <3>6. CASE phase = "complete"
      <4>1. dryer.screen = "complete"
        BY <3>6, <1>2
      <4>2. truth[dryer.run].fate = "complete"
        BY <4>1 DEF LogbookIInv, Counted
      <4>3. Ending(t, phase) = "complete"
        BY <3>6 DEF Ending
      <4> QED BY <4>1, <4>2, <4>3, <3>2, <3>4, <2>2, <1>3 DEF Over, Told
    <3>7. CASE phase # "complete"
      <4>1. phase = "idle" /\ Fold(t.lastPhase) \in Running /\ Ending(t, phase) = "endedEarly"
        BY <3>5, <3>7 DEF Ending
      <4>2. dryer.screen = "idle"
        BY <4>1, <1>2
      <4>3. t.lastPhase \in Running
        BY <4>1, <2>2 DEF SeenAllButOne, Fold
      <4>4. truth[dryer.run].fate = "endedEarly"
        BY <4>2, <4>3, <2>2 DEF SeenAllButOne
      <4> QED BY <4>1, <4>2, <4>4, <3>2, <3>4, <2>2, <1>3 DEF Over, Told
    <3> QED BY <3>6, <3>7
  <2> QED BY <1>3, <1>7, <2>1, <2>2, OneMoreFrame
<1> QED BY <1>3, <1>4, <1>5, <1>6, <1>7

\* A tracker that goes on is still in step.
LEMMA StillInStep ==
  ASSUME LogbookIInv, usb # NoFrame, NEW o,
         o = Observe(t, usb.screen, usb.elapsed, usb.run), o.tracker.active,
         ~Dark(o.tracker.cur)
  PROVE  LET u == o.tracker
         IN  /\ Total(u.cur.spent) <= u.lastElapsed
             /\ u.lastElapsed <= truth[u.cur.run].reach
             /\ u.lastPhase \in PreRun => Total(u.cur.spent) = 0
             /\ u.cur.run = dryer.run
             /\ u.lastPhase = Fold(dryer.screen) /\ u.lastElapsed = dryer.elapsed
             /\ dryer.screen # "complete"
             /\ dryer.screen = "idle" =>
                  truth[dryer.run].fate = "strayed" /\ dryer.elapsed >= 1
<1> DEFINE phase == Fold(dryer.screen)
           elapsed == dryer.elapsed
           u == o.tracker
<1>1. /\ t \in Trackers /\ dryer.screen \in ScreenKinds /\ elapsed \in Nat
      /\ dryer.run \in 0 .. MaxRun
      /\ o = Observe(t, dryer.screen, elapsed, dryer.run)
  BY Frame
<1>2. /\ phase \in ScreenKinds /\ phase # "alt" /\ (dryer.screen # "alt" => phase = dryer.screen)
      /\ (dryer.screen = "alt" => phase = "final")
  BY <1>1, Folding
<1>3. /\ u \in Trackers /\ u.lastPhase = phase /\ u.lastElapsed = elapsed
      /\ t.active => u.cur.run = t.cur.run
      /\ ~Lost(t, phase, elapsed)
      /\ t.active => u.cur.spent = Credit(t, phase, elapsed) /\ Ending(t, phase) = "none"
      /\ ~t.active =>
                  /\ phase \in Running /\ u.cur.run = dryer.run
                  /\ Total(u.cur.spent) \in Nat /\ Total(u.cur.spent) <= elapsed
                  /\ phase \in PreRun => Total(u.cur.spent) = 0
  BY <1>1, Watched
<1>4. dryer.run >= 1 => elapsed <= truth[dryer.run].reach
  BY DEF LogbookIInv, Counted
<1>5. CASE ~t.active
  <2>1. dryer.screen # "idle" /\ dryer.screen # "complete"
    BY <1>2, <1>3, <1>5 DEF Running, PreRun, Timed
  <2>2. dryer.run >= 1
    BY <2>1 DEF LogbookIInv, DryerIs
  <2> QED BY <2>1, <2>2, <1>3, <1>4, <1>5
<1>6. CASE t.active
  <2>1. ~Dark(t.cur)
    BY <1>3, <1>6 DEF Dark
  <2>2. /\ SeenAllButOne
        /\ Total(Credit(t, phase, elapsed)) <= elapsed
        /\ phase \in PreRun => Total(Credit(t, phase, elapsed)) = 0
    BY <2>1, <1>3, <1>6, OneMoreFrame
  <2>3. t.cur.run = dryer.run /\ dryer.run >= 1
    BY <2>2, <1>6, Frame DEF SeenAllButOne, LogbookIInv, LeftOpen, OfRun
  <2>4. phase # "complete"
    BY <1>3, <1>6 DEF Ending
  <2>5. ASSUME dryer.screen = "idle"
        PROVE  truth[dryer.run].fate = "strayed" /\ dryer.elapsed >= 1
    <3>1. phase = "idle" /\ Fold(t.lastPhase) \notin Running
      BY <2>5, <1>2, <1>3, <1>6 DEF Ending
    <3>2. t.lastPhase \notin Running
      <4>1. t.lastPhase # "alt"
        BY <2>2 DEF SeenAllButOne
      <4> QED BY <3>1, <4>1 DEF Fold
    <3> QED BY <2>2, <2>5, <3>2 DEF SeenAllButOne
  <2>6. dryer.screen # "complete"
    BY <2>4, <1>2
  <2> QED BY <2>2, <2>3, <2>5, <2>6, <1>3, <1>4, <1>6
<1> QED BY <1>5, <1>6

LEMMA TrackStep ==
  ASSUME LogbookIInv, Track
  PROVE  LogbookIInv'
<1> DEFINE o == Observe(t, usb.screen, usb.elapsed, usb.run)
           u == o.tracker
           p == [u.cur EXCEPT !.extra = last.extensions]
           phase == Fold(dryer.screen)
<1>1. /\ usb # NoFrame /\ usb' = NoFrame
      /\ t' = u
      /\ parked' = IF o.finished /\ parked = NoRecord THEN p ELSE parked
      /\ UNCHANGED <<real, last, ready, open, checked, pc, loc, disk>>
  BY DEF Track
<1>2. /\ powered /\ t \in Trackers /\ dryer.screen \in ScreenKinds /\ dryer.elapsed \in Nat
      /\ dryer.run \in 0 .. MaxRun /\ dryer.run \in Nat /\ MaxRun \in Nat
      /\ o = Observe(t, dryer.screen, dryer.elapsed, dryer.run)
  BY <1>1, Frame
<1>3. /\ u \in Trackers /\ u.haveLast
      /\ o.finished <=> t.active /\ ~u.active
      /\ t.active => u.cur.run = t.cur.run
      /\ ~t.active /\ u.active => phase \in Running /\ u.cur.run = dryer.run
  BY <1>2, Watched
<1>4. o.finished =>
        /\ t.active /\ u.cur \in Records /\ ~u.active
        /\ u.cur.run = t.cur.run /\ OfRun(t.cur)
        /\ u.cur.outcome # "running"
        /\ ~Dark(t.cur) =>
              /\ Over(t.cur.run) /\ u.cur.outcome = Told(t.cur.run)
              /\ Total(u.cur.spent) <= truth[t.cur.run].reach
  BY <1>1, FinishedRight
<1>5. u.active /\ ~Dark(u.cur) =>
             /\ Total(u.cur.spent) <= u.lastElapsed
             /\ u.lastElapsed <= truth[u.cur.run].reach
             /\ u.lastPhase \in PreRun => Total(u.cur.spent) = 0
             /\ u.cur.run = dryer.run
             /\ u.lastPhase = Fold(dryer.screen) /\ u.lastElapsed = dryer.elapsed
             /\ dryer.screen # "complete"
             /\ dryer.screen = "idle" =>
                  truth[dryer.run].fate = "strayed" /\ dryer.elapsed >= 1
  BY <1>1, StillInStep
<1>6. last.extensions \in Nat
  BY DEF LogbookIInv, RamIs, Notes
<1> HIDE DEF o, u
<1>7. o.finished =>
        /\ Ended(p) /\ p # NoRecord /\ p.run = t.cur.run
        /\ p.outcome = u.cur.outcome /\ p.spent = u.cur.spent
  <2> SUFFICES ASSUME o.finished
               PROVE  /\ Ended(p) /\ p # NoRecord /\ p.run = t.cur.run
                      /\ p.outcome = u.cur.outcome /\ p.spent = u.cur.spent
    OBVIOUS
  <2> DEFINE q == u.cur
             x == last.extensions
  <2>1. q \in Records /\ q.outcome # "running" /\ q.run = t.cur.run /\ q.run >= 1
    BY <1>4 DEF OfRun
  <2> HIDE DEF q, x
  <2>2. /\ p = [q EXCEPT !.extra = x]
        /\ p \in Records /\ p.run = q.run /\ p.outcome = q.outcome /\ p.spent = q.spent
    BY <2>1, <1>6 DEF Records, q, x
  <2>3. p # NoRecord
    BY <2>1, <2>2 DEF NoRecord
  <2> QED BY <2>1, <2>2, <2>3 DEF Ended, q
<1> HIDE DEF p
<1>8. DryerIs' /\ Counted'
  BY <1>1 DEF LogbookIInv, DryerIs, Counted, Does, real
<1>9. RamIs'
  <2>1. parked' = NoRecord \/ Ended(parked')
    BY <1>1, <1>7 DEF LogbookIInv, RamIs
  <2>2. t' \in Trackers
    BY <1>1, <1>3
  <2> QED BY <2>1, <2>2, <1>1 DEF LogbookIInv, RamIs, Ended, disk
<1>10. Memory'
  BY <1>1, <1>2 DEF Memory, real
<1>11. u.active => OfRun(u.cur)
  <2>1. CASE t.active
    BY <2>1, <1>3 DEF LogbookIInv, LeftOpen, OfRun
  <2>2. CASE ~t.active /\ u.active
    <3>1. dryer.screen # "idle"
      BY <2>2, <1>3 DEF Fold, Running, PreRun, Timed
    <3>2. dryer.run >= 1
      BY <3>1 DEF LogbookIInv, DryerIs
    <3> QED BY <3>2, <2>2, <1>2, <1>3 DEF OfRun
  <2> QED BY <2>1, <2>2
<1>12. LeftOpen'
  BY <1>1, <1>3, <1>11 DEF LogbookIInv, LeftOpen, OfRun, Dark, real, disk
<1>13. (t.active \/ parked # NoRecord) => (t.active \/ parked # NoRecord)'
  BY <1>1, <1>3, <1>7
<1>14. Places'
  BY <1>1, <1>13 DEF LogbookIInv, Places, OfRun, Dark, Ended, real, disk
<1>15. Owner'
  BY <1>1, <1>13 DEF LogbookIInv, Owner, disk
<1>16. InStep'
  BY <1>1, <1>5 DEF InStep, SeenAll, SumPhases, Total, Dark, real
<1>17. ASSUME NEW rec, Right(rec)
       PROVE  ~Dark(rec) => ~(u.active /\ u.cur.run = rec.run)
  <2>1. CASE t.active
    BY <2>1, <1>3, <1>17 DEF Right
  <2>2. CASE ~t.active /\ u.active /\ ~Dark(rec)
    <3>1. dryer.screen # "idle" /\ dryer.screen # "complete"
      BY <2>2, <1>3 DEF Fold, Running, PreRun, Timed
    <3>2. rec.run < dryer.run
      BY <2>2, <3>1, <1>17 DEF Right, Over
    <3> QED BY <3>2, <2>2, <1>2, <1>3, <1>17 DEF Right, OfRun
  <2> QED BY <2>1, <2>2
<1>18. ASSUME NEW rec, Right(rec) PROVE NextRight(rec)
  BY <1>17, <1>18, <1>1 DEF Right, NextRight, OfRun, Dark, Over, Told, real
<1>19. o.finished => NextRight(p)
  BY <1>1, <1>4, <1>7 DEF NextRight, OfRun, Dark, Over, Told, SumPhases, Total, real
<1>20. AllRight'
  <2>1. \A i \in DOMAIN log' : NextRight(log'[i])
    BY <1>1, <1>18 DEF LogbookIInv, AllRight, disk
  <2>2. pc' = "write" => NextRight(loc'.rec)
    BY <1>1, <1>18 DEF LogbookIInv, AllRight
  <2>3. parked' # NoRecord => NextRight(parked')
    <3>1. CASE o.finished /\ parked = NoRecord
      <4>1. parked' = p
        BY <3>1, <1>1
      <4> QED BY <4>1, <3>1, <1>19
    <3>2. CASE ~(o.finished /\ parked = NoRecord)
      <4>1. parked' = parked
        BY <3>2, <1>1
      <4> QED BY <4>1, <1>18 DEF LogbookIInv, AllRight
    <3> QED BY <3>1, <3>2
  <2> QED BY <2>1, <2>2, <2>3, AllNextRight
<1>21. Apart'
  <2>1. CASE o.finished /\ parked = NoRecord
    <3>1. parked' = p /\ p.run = t.cur.run /\ t.active
      BY <2>1, <1>1, <1>4, <1>7
    <3>2. ASSUME ~Dark(p), NEW i \in DOMAIN log PROVE log[i].run # p.run
      <4>1. Right(log[i])
        BY DEF LogbookIInv, AllRight
      <4> QED BY <4>1, <3>1, <3>2 DEF Right, Dark
    <3>3. ASSUME ~Dark(p), pc = "write" PROVE loc.rec.run # p.run
      <4>1. Right(loc.rec)
        BY <3>3 DEF LogbookIInv, AllRight
      <4> QED BY <4>1, <3>1, <3>3 DEF Right, Dark
    <3> QED BY <3>1, <3>2, <3>3, <1>1 DEF LogbookIInv, Apart, Dark, disk, real
  <2>2. CASE ~(o.finished /\ parked = NoRecord)
    BY <2>2, <1>1 DEF LogbookIInv, Apart, Dark, disk, real
  <2> QED BY <2>1, <2>2
<1> QED BY <1>8, <1>9, <1>10, <1>12, <1>14, <1>15, <1>16, <1>20, <1>21 DEF LogbookIInv

-----------------------------------------------------------------------------
\* The dryer moves: heard, the first critical section of on_inbound, or not.

LEMMA SumsAreNumbers ==
  ASSUME NEW rec \in Records
  PROVE  SumPhases(rec) \in Nat
<1>1. rec.spent \in [Timed -> Nat]
  BY DEF Records
<1> DEFINE s == rec.spent
<1> HIDE DEF s
<1>2. s["freeze"] \in Nat /\ s["dry"] \in Nat /\ s["final"] \in Nat
  BY <1>1 DEF Timed, s
<1> QED BY <1>2 DEF SumPhases, s

LEMMA RightMovesOn ==
  ASSUME Orderly(Programs), DryerIs, Counted, NEW e, DryerMoves(e),
         (e = dryer /\ powered) \/ e \in After(dryer), t' = t,
         NEW rec \in Records, Right(rec)
  PROVE  NextRight(rec)
<1>1. rec.run \in 1 .. dryer.run
  BY DEF Right, OfRun
<1>2. dark \subseteq dark'
  BY DEF DryerMoves
<1> DEFINE r == rec.run
<1> HIDE DEF r
<1>3. /\ r \in 1 .. dryer'.run
      /\ truth[r].reach \in Nat /\ truth'[r].reach \in Nat
      /\ truth'[r].reach >= truth[r].reach
      /\ Over(r) => Over(r)' /\ truth'[r].fate = truth[r].fate
  BY <1>1, OverIsOver DEF r
<1>4. Over(r) => r < dryer'.run \/ dryer'.screen \in {"complete", "idle"}
  BY <1>3 DEF Over
<1>5. SumPhases(rec) \in Nat
  BY SumsAreNumbers
<1>6. ASSUME r \notin dark'
      PROVE  /\ r < dryer'.run \/ dryer'.screen \in {"complete", "idle"}
             /\ rec.outcome = IF truth'[r].fate = "strayed" THEN "interrupted"
                              ELSE truth'[r].fate
             /\ ~(t'.active /\ t'.cur.run = r)
             /\ SumPhases(rec) <= truth'[r].reach
  <2>1. /\ Over(r) /\ rec.outcome = Told(r)
        /\ SumPhases(rec) <= truth[r].reach
        /\ ~(t.active /\ t.cur.run = r)
    BY <1>2, <1>6 DEF Right, Dark, r
  <2>2. SumPhases(rec) <= truth'[r].reach
    BY <2>1, <1>3, <1>5
  <2> QED BY <2>1, <2>2, <1>3, <1>4 DEF Told
<1> QED BY <1>3, <1>6 DEF NextRight, r

\* What the move does to all but the tracker that is in step.
LEMMA MoveKeeps ==
  ASSUME Orderly(Programs), LogbookIInv, NEW e, DryerMoves(e), powered' = powered,
         (e = dryer /\ powered) \/ e \in After(dryer),
         UNCHANGED <<t, parked, ready, open, checked, pc, loc, disk>>,
         last' \in Notes
  PROVE  /\ DryerIs' /\ Counted' /\ LeftOpen' /\ Places' /\ Owner' /\ AllRight' /\ Apart'
         /\ usb' = NoFrame \/ usb' \in Frames => RamIs'
<1>1. DryerIs' /\ Counted' /\ DryerIs /\ Counted
  BY DryerMoveKept DEF LogbookIInv
<1>2. dark \subseteq dark' /\ dryer' = e
  BY DEF DryerMoves
<1>3. 1 .. dryer.run \subseteq 1 .. dryer'.run
  BY <1>1, MovedOn
<1>4. \A rec : OfRun(rec) => rec.run \in 1 .. dryer'.run
  BY <1>3 DEF OfRun
<1>5. LeftOpen'
  BY <1>2, <1>4 DEF LogbookIInv, LeftOpen, OfRun, Dark, disk
<1>6. Places'
  BY <1>2, <1>4 DEF LogbookIInv, Places, OfRun, Dark, Ended, disk
<1>7. Owner'
  BY DEF LogbookIInv, Owner, disk
<1>8. AllRight'
  <2>1. \A i \in DOMAIN log : NextRight(log[i])
    <3> TAKE i \in DOMAIN log
    <3>1. log[i] \in Records /\ Right(log[i])
      BY DEF LogbookIInv, RamIs, Ended, AllRight
    <3> QED BY <3>1, <1>1, RightMovesOn
  <2>2. parked # NoRecord => NextRight(parked)
    <3> SUFFICES ASSUME parked # NoRecord PROVE NextRight(parked)
      OBVIOUS
    <3>1. parked \in Records /\ Right(parked)
      BY DEF LogbookIInv, RamIs, Ended, AllRight
    <3> QED BY <3>1, <1>1, RightMovesOn
  <2>3. pc = "write" => NextRight(loc.rec)
    <3> SUFFICES ASSUME pc = "write" PROVE NextRight(loc.rec)
      OBVIOUS
    <3>1. loc.rec \in Records /\ Right(loc.rec)
      BY DEF LogbookIInv, Places, Ended, AllRight
    <3> QED BY <3>1, <1>1, RightMovesOn
  <2> QED BY <2>1, <2>2, <2>3, AllNextRight DEF disk
<1>9. Apart'
  BY <1>2 DEF LogbookIInv, Apart, Dark, disk
<1>10. usb' = NoFrame \/ usb' \in Frames => RamIs'
  BY DEF LogbookIInv, RamIs, Ended, disk
<1> QED BY <1>1, <1>5, <1>6, <1>7, <1>8, <1>9, <1>10

LEMMA UnheardStep ==
  ASSUME Orderly(Programs), LogbookIInv, Unheard
  PROVE  LogbookIInv'
<1>1. PICK e \in After(dryer) : DryerMoves(e)
  BY DEF Unheard
<1>2. /\ ~powered /\ powered' = powered
      /\ UNCHANGED <<usb, t, parked, last, ready, open, checked, pc, loc, disk>>
  BY DEF Unheard, ram
<1>3. last' \in Notes /\ (usb' = NoFrame \/ usb' \in Frames)
  BY <1>2 DEF LogbookIInv, RamIs
<1>4. /\ DryerIs' /\ Counted' /\ LeftOpen' /\ Places' /\ Owner' /\ AllRight' /\ Apart'
      /\ RamIs'
  BY <1>1, <1>2, <1>3, MoveKeeps
<1>5. usb = NoFrame /\ ~t.active
  BY <1>2 DEF LogbookIInv, Memory, Reset
<1>6. Memory' /\ InStep'
  BY <1>2, <1>5 DEF LogbookIInv, Memory, InStep
<1> QED BY <1>4, <1>6 DEF LogbookIInv

LEMMA HearStep ==
  ASSUME Orderly(Programs), ~Glitches, LogbookIInv, Hear
  PROVE  LogbookIInv'
<1>1. PICK e \in {dryer} \cup After(dryer) :
        /\ DryerMoves(e)
        /\ usb' = [screen |-> e.screen, elapsed |-> e.elapsed, run |-> e.run]
        /\ last' = [running |-> Fold(e.screen) \in Running,
                    type |-> e.screen, elapsed |-> e.elapsed,
                    extensions |-> Extended(last.extensions, last.type, e.screen)]
  BY DEF Hear
<1>2. /\ powered /\ powered' = powered /\ usb = NoFrame
      /\ UNCHANGED <<t, parked, ready, open, checked, pc, loc, disk>>
  BY DEF Hear
<1>3. (e = dryer /\ powered) \/ e \in After(dryer)
  BY <1>1, <1>2
<1>4. /\ e \in DryerKinds
      /\ e = dryer \/ Begins(dryer, e) \/ Freezes(dryer, e) \/ GoesOn(dryer, e)
      /\ dryer \in DryerKinds /\ dryer.run \in Nat /\ dryer.elapsed \in Nat
      /\ e.run \in Nat /\ e.elapsed \in Nat /\ e.run <= MaxRun /\ MaxRun \in Nat
      /\ e.run >= dryer.run /\ dryer' = e
      /\ e.screen # "idle" => e.run >= 1
      /\ dryer.screen # "idle" => dryer.run >= 1
  BY <1>1, <1>3, MovedOn DEF LogbookIInv
<1>5. e.screen \in ScreenKinds /\ dryer.screen \in ScreenKinds
  BY <1>4 DEF DryerKinds
<1>6. last' \in Notes
  <2>1. last.extensions \in Nat
    BY DEF LogbookIInv, RamIs, Notes
  <2>2. Extended(last.extensions, last.type, e.screen) \in Nat
    BY <2>1 DEF Extended
  <2>3. (Fold(e.screen) \in Running) \in BOOLEAN
    OBVIOUS
  <2> QED BY <1>1, <1>4, <1>5, <2>2, <2>3 DEF Notes
<1>7. usb' \in Frames /\ usb' # NoFrame
  <2>1. usb'.screen # "none"
    BY <1>1, <1>5 DEF ScreenKinds, Running, PreRun, Timed
  <2> QED BY <2>1, <1>1, <1>4, <1>5 DEF Frames, NoFrame
<1>8. /\ DryerIs' /\ Counted' /\ LeftOpen' /\ Places' /\ Owner' /\ AllRight' /\ Apart'
      /\ RamIs'
  BY <1>1, <1>2, <1>3, <1>6, <1>7, MoveKeeps
<1>9. Memory'
  BY <1>1, <1>2, <1>4 DEF Memory
<1>10. InStep'
  <2> SUFFICES ASSUME t.active, ~Dark(t.cur)
               PROVE  /\ SumPhases(t.cur) <= t.lastElapsed
                      /\ t.lastElapsed <= truth'[t.cur.run].reach
                      /\ t.lastPhase \in PreRun => SumPhases(t.cur) = 0
                      /\ SeenAllButOne' \/ NextIsPending'
    <3>1. t' = t /\ dark' = dark
      BY <1>1, <1>2 DEF DryerMoves
    <3> QED BY <3>1, <1>7 DEF InStep, Dark
  <2>1. /\ SumPhases(t.cur) <= t.lastElapsed
        /\ t.lastElapsed <= truth[t.cur.run].reach
        /\ t.lastPhase \in PreRun => SumPhases(t.cur) = 0
        /\ t.cur.run = dryer.run
        /\ t.lastPhase = Fold(dryer.screen) /\ t.lastElapsed = dryer.elapsed
        /\ dryer.screen # "complete"
        /\ dryer.screen = "idle" => truth[dryer.run].fate = "strayed" /\ dryer.elapsed >= 1
    BY <1>2 DEF LogbookIInv, InStep, SeenAll
  <2>2. t.cur.run \in 1 .. dryer.run
    BY DEF LogbookIInv, LeftOpen, OfRun
  <2>3. /\ truth[t.cur.run].reach \in Nat /\ truth'[t.cur.run].reach \in Nat
        /\ truth'[t.cur.run].reach >= truth[t.cur.run].reach
        /\ Over(t.cur.run) => truth'[t.cur.run].fate = truth[t.cur.run].fate
    <3> DEFINE r == t.cur.run
    <3> HIDE DEF r
    <3>1. r \in 1 .. dryer.run
      BY <2>2 DEF r
    <3>2. /\ truth[r].reach \in Nat /\ truth'[r].reach \in Nat
          /\ truth'[r].reach >= truth[r].reach
          /\ Over(r) => truth'[r].fate = truth[r].fate
      BY <3>1, <1>1, <1>3, OverIsOver DEF LogbookIInv
    <3> QED BY <3>2 DEF r
  <2>4. t.lastElapsed <= truth'[t.cur.run].reach
    BY <2>1, <2>3, <1>4
  <2>5. /\ t.lastPhase # "alt" /\ (dryer.screen # "alt" => t.lastPhase = dryer.screen)
        /\ (dryer.screen = "alt" => t.lastPhase = "final")
    BY <2>1, <1>5, Folding
  <2>6. dryer.screen = "idle" => truth'[dryer.run].fate = "strayed" /\ Over(dryer.run)
    BY <2>1, <2>3 DEF Over
  <2> SUFFICES SeenAllButOne' \/ NextIsPending'
    BY <2>1, <2>4
  <2>7. CASE e = dryer
    BY <2>7, <2>1, <2>5, <2>6, <1>2, <1>4
       DEF SeenAllButOne, PreRun, Running, Timed
  <2>8. CASE Begins(dryer, e)
    BY <2>8, <2>1, <2>5, <2>6, <1>2, <1>4 DEF NextIsPending, Begins
  <2>9. CASE Freezes(dryer, e)
    <3>1. t.lastPhase \in PreRun
      BY <2>9, <2>5 DEF Freezes, PreRun
    <3> QED BY <3>1, <2>9, <2>1, <2>5, <1>2, <1>4 DEF SeenAllButOne, Freezes, SameDryer, PreRun
  <2>10. CASE GoesOn(dryer, e)
    <3>1. e.run = dryer.run /\ dryer.screen # "idle" /\ e.elapsed >= t.lastElapsed
      BY <2>10, <2>1 DEF GoesOn, SameDryer
    <3>2. e.screen \in PreRun => t.lastPhase \in PreRun
      BY <2>10, <2>5 DEF GoesOn, PreRun
    <3>3. ASSUME e.screen = "idle"
          PROVE  IF t.lastPhase \in Running THEN truth'[e.run].fate = "endedEarly"
                 ELSE truth'[e.run].fate = "strayed" /\ e.elapsed >= 1
      <4>1. dryer.screen \in Running \cup {"other"}
        BY <2>10, <2>1, <3>3 DEF GoesOn
      <4>2. t.lastPhase = dryer.screen
        BY <4>1, <2>5 DEF Running, PreRun, Timed
      <4>3. truth'[e.run].fate = IF Fate(dryer, e) = "none" THEN truth[e.run].fate
                                 ELSE Fate(dryer, e)
        <5>1. e.run # 0
          BY <3>1, <1>4
        <5> QED BY <5>1, <1>1, <1>4, OnlyItsRunIsTold DEF LogbookIInv
      <4>4. CASE dryer.screen \in Running
        BY <4>2, <4>3, <4>4, <3>3 DEF Fate, Running, PreRun, Timed
      <4>5. CASE dryer.screen = "other"
        <5>1. Fate(dryer, e) = "strayed" /\ t.lastPhase \notin Running
          BY <4>2, <4>5, <3>3 DEF Fate, Running, PreRun, Timed
        <5>2. dryer.elapsed >= 1 /\ e.elapsed >= dryer.elapsed
          BY <4>5, <2>10 DEF LogbookIInv, Counted, GoesOn
        <5>3. e.elapsed >= 1
          BY <5>2, <1>4
        <5> QED BY <5>1, <5>3, <4>3
      <4> QED BY <4>1, <4>4, <4>5
    <3>4. ~(e.elapsed < t.lastElapsed)
      BY <3>1, <2>1, <1>4
    <3> QED BY <3>1, <3>2, <3>3, <3>4, <2>1, <2>5, <1>2, <1>4 DEF SeenAllButOne
  <2> QED BY <2>7, <2>8, <2>9, <2>10, <1>4
<1> QED BY <1>8, <1>9, <1>10 DEF LogbookIInv

-----------------------------------------------------------------------------
\* The main loop.

LEMMA Powered ==
  ASSUME LogbookIInv, MainLoop
  PROVE  powered
BY DEF MainLoop, StoreReady, Pass, DecideNothing, DecideResume, Resume, DecideClose, CloseClear,
       TakeParked, TakeCheckpoint, TakeNothing, Write, Clear, Save, Erase, Goto

\* It leaves the dryer and the pending frame alone.
LEMMA MainLoopKeeps ==
  ASSUME LogbookIInv, powered, UNCHANGED <<real, usb>>
  PROVE  /\ DryerIs' /\ Counted' /\ Memory'
         /\ t' = t => InStep' /\ \A rec : Right(rec) => NextRight(rec)
<1>1. DryerIs' /\ Counted' /\ Memory'
  BY DEF LogbookIInv, DryerIs, Counted, Memory, Does, real
<1>2. ASSUME t' = t PROVE InStep' /\ \A rec : Right(rec) => NextRight(rec)
  <2>1. InStep'
    BY <1>2 DEF LogbookIInv, InStep, SeenAll, SeenAllButOne, NextIsPending, Dark, real
  <2>2. ASSUME NEW rec, Right(rec) PROVE NextRight(rec)
    BY <1>2, <2>2 DEF Right, NextRight, OfRun, Dark, Over, Told, real
  <2> QED BY <2>1, <2>2
<1> QED BY <1>1, <1>2

LEMMA NothingSaved ==
  /\ None \in Saved /\ None.rec = NoRecord /\ None.last = -1
  /\ NoRecord \in Records /\ NoRecord.run = 0
<1>1. NoRecord \in Records /\ NoRecord.run = 0
  BY LogbookAssumption DEF NoRecord, Records, Outcomes, Timed
<1> QED BY <1>1 DEF None, Saved

LEMMA SavedFields ==
  ASSUME NEW s \in Saved
  PROVE  /\ s.rec \in Records /\ s.start \in Nat /\ s.last \in Nat \cup {-1}
         /\ \A r \in Records : [s EXCEPT !.rec = r] \in Saved /\ [s EXCEPT !.rec = r].rec = r
         /\ \A n \in Nat : [s EXCEPT !.start = n] \in Saved /\ [s EXCEPT !.start = n].rec = s.rec
         /\ \A n \in Nat \cup {-1} :
              /\ [s EXCEPT !.last = n] \in Saved
              /\ [s EXCEPT !.last = n].rec = s.rec /\ [s EXCEPT !.last = n].last = n
BY DEF Saved

LEMMA StoreReadyStep ==
  ASSUME LogbookIInv, StoreReady
  PROVE  LogbookIInv'
<1>1. /\ powered /\ ready' = TRUE /\ pc = "top" /\ pc' = pc
      /\ UNCHANGED <<real, usb, t, parked, last, open, checked, loc, disk>>
  BY DEF StoreReady
<1>2. DryerIs' /\ Counted' /\ Memory' /\ InStep' /\ \A rec : Right(rec) => NextRight(rec)
  BY <1>1, MainLoopKeeps
<1>3. RamIs'
  BY <1>1 DEF LogbookIInv, RamIs, Ended, disk
<1>4. LeftOpen' /\ Places' /\ Owner' /\ Apart'
  BY <1>1 DEF LogbookIInv, LeftOpen, Places, Owner, Apart, OfRun, Dark, Ended, disk, real
<1>5. AllRight'
  BY <1>1, <1>2, AllNextRight DEF LogbookIInv, AllRight, disk
<1> QED BY <1>2, <1>3, <1>4, <1>5 DEF LogbookIInv

LEMMA PassStep ==
  ASSUME LogbookIInv, Pass
  PROVE  LogbookIInv'
<1>1. /\ powered /\ pc = "top" /\ pc' = "decide" /\ checked' = TRUE
      /\ open' = IF ~checked /\ nvs.rec # NoRecord THEN nvs ELSE open
      /\ UNCHANGED <<real, usb, t, parked, last, ready, loc, disk>>
  BY DEF Pass, Goto
<1>2. DryerIs' /\ Counted' /\ Memory' /\ InStep' /\ \A rec : Right(rec) => NextRight(rec)
  BY <1>1, MainLoopKeeps
<1>3. RamIs'
  BY <1>1 DEF LogbookIInv, RamIs, MainAt, Ended, disk
<1>4. LeftOpen' /\ Places' /\ Apart'
  BY <1>1 DEF LogbookIInv, LeftOpen, Places, Apart, OfRun, Dark, disk, real
<1>5. Owner'
  BY <1>1, NothingSaved DEF LogbookIInv, Owner, disk
<1>6. AllRight'
  BY <1>1, <1>2, AllNextRight DEF LogbookIInv, AllRight, disk
<1> QED BY <1>2, <1>3, <1>4, <1>5, <1>6 DEF LogbookIInv

LEMMA DecideNothingStep ==
  ASSUME LogbookIInv, DecideNothing
  PROVE  LogbookIInv'
<1>1. /\ powered /\ pc = "decide" /\ pc' = "take"
      /\ UNCHANGED <<real, usb, t, parked, last, ready, open, checked, loc, disk>>
  BY DEF DecideNothing, Goto
<1>2. DryerIs' /\ Counted' /\ Memory' /\ InStep' /\ \A rec : Right(rec) => NextRight(rec)
  BY <1>1, MainLoopKeeps
<1>3. RamIs'
  BY <1>1 DEF LogbookIInv, RamIs, MainAt, Ended, disk
<1>4. LeftOpen' /\ Places' /\ Owner' /\ Apart'
  BY <1>1 DEF LogbookIInv, LeftOpen, Places, Owner, Apart, OfRun, Dark, disk, real
<1>5. AllRight'
  BY <1>1, <1>2, AllNextRight DEF LogbookIInv, AllRight, disk
<1> QED BY <1>2, <1>3, <1>4, <1>5 DEF LogbookIInv

LEMMA DecideResumeStep ==
  ASSUME LogbookIInv, DecideResume
  PROVE  LogbookIInv'
<1>1. /\ powered /\ pc = "decide" /\ pc' = "resume" /\ Undecided
      /\ loc' = [open EXCEPT !.last = last.elapsed]
      /\ UNCHANGED <<real, usb, t, parked, last, ready, open, checked, disk>>
  BY DEF DecideResume, Goto
<1>2. DryerIs' /\ Counted' /\ Memory' /\ InStep' /\ \A rec : Right(rec) => NextRight(rec)
  BY <1>1, MainLoopKeeps
<1>3. open # None /\ open \in Saved /\ last.elapsed >= 0 /\ last.elapsed \in Nat \cup {-1}
  BY <1>1 DEF LogbookIInv, RamIs, Notes, Undecided
<1>4. loc' \in Saved /\ loc'.rec = open.rec /\ loc'.last >= 0
  BY <1>1, <1>3, SavedFields
<1>5. RamIs'
  BY <1>1, <1>4 DEF LogbookIInv, RamIs, MainAt, Ended, disk
<1>6. Places'
  BY <1>1, <1>3, <1>4 DEF LogbookIInv, Places, LeftOpen, OfRun, Dark, disk, real
<1>7. LeftOpen' /\ Owner' /\ Apart'
  BY <1>1 DEF LogbookIInv, LeftOpen, Owner, Apart, OfRun, Dark, disk, real
<1>8. AllRight'
  BY <1>1, <1>2, AllNextRight DEF LogbookIInv, AllRight, disk
<1> QED BY <1>2, <1>5, <1>6, <1>7, <1>8 DEF LogbookIInv

LEMMA ResumeStep ==
  ASSUME LogbookIInv, Resume
  PROVE  LogbookIInv'
<1>1. /\ powered /\ pc = "resume" /\ pc' = "take"
      /\ t' = ResumeRecord(t, loc.rec, loc.start, loc.last, last.type)
      /\ open' = None /\ loc' = None
      /\ UNCHANGED <<real, usb, parked, last, ready, checked, disk>>
  BY DEF Resume, Goto
<1>2. DryerIs' /\ Counted' /\ Memory'
  BY <1>1, MainLoopKeeps
<1>3. Dark(loc.rec) /\ OfRun(loc.rec) /\ loc.last >= 0
  BY <1>1 DEF LogbookIInv, Places
<1>4. loc.rec \in Records /\ loc.start \in Nat /\ loc.last \in Nat
  <2>1. loc \in Saved
    BY DEF LogbookIInv, RamIs
  <2>2. loc.last \in Nat \cup {-1}
    BY <2>1, SavedFields
  <2> QED BY <2>1, <2>2, <1>3, SavedFields
<1>5. last.type \in ScreenKinds \cup {"none"}
  BY DEF LogbookIInv, RamIs, Notes
<1>6. /\ t' \in Trackers /\ t'.active /\ t'.haveLast /\ t'.cur.run = loc.rec.run
  <2> DEFINE q == loc.rec
             r == [q EXCEPT !.outcome = "running"]
  <2>1. q \in Records
    BY <1>4
  <2>2. t' = [active |-> TRUE, cur |-> r, lastPhase |-> last.type, lastElapsed |-> loc.last,
              haveLast |-> TRUE, startElapsed |-> loc.start]
    BY <1>1 DEF ResumeRecord
  <2> HIDE DEF q
  <2>3. r \in Records /\ r.run = q.run
    BY <2>1 DEF Records, Outcomes
  <2> HIDE DEF r
  <2> QED BY <2>2, <2>3, <1>4, <1>5 DEF Trackers, q
<1>7. ASSUME NEW rec, Right(rec) PROVE NextRight(rec)
  BY <1>1, <1>3, <1>6, <1>7 DEF Right, NextRight, OfRun, Dark, Over, Told, real
<1>8. RamIs'
  BY <1>1, <1>6, NothingSaved DEF LogbookIInv, RamIs, MainAt, Ended, disk
<1>9. LeftOpen' /\ Places' /\ Owner' /\ Apart'
  BY <1>1, <1>3, <1>6 DEF LogbookIInv, LeftOpen, Places, Owner, Apart, OfRun, Dark, disk, real
<1>10. InStep'
  BY <1>1, <1>3, <1>6 DEF InStep, Dark, real
<1>11. AllRight'
  BY <1>1, <1>7, AllNextRight DEF LogbookIInv, AllRight, disk
<1> QED BY <1>2, <1>8, <1>9, <1>10, <1>11 DEF LogbookIInv

LEMMA Appended ==
  ASSUME NEW s \in Seq(Records), NEW r \in Records
  PROVE  /\ Append(s, r) \in Seq(Records)
         /\ DOMAIN Append(s, r) = DOMAIN s \cup {Len(s) + 1}
         /\ \A i \in DOMAIN s : Append(s, r)[i] = s[i]
         /\ Append(s, r)[Len(s) + 1] = r
<1>1. /\ DOMAIN s = 1 .. Len(s) /\ Len(s) \in Nat
      /\ Append(s, r) \in Seq(Records) /\ Len(Append(s, r)) = Len(s) + 1
      /\ \A i \in 1 .. Len(s) : Append(s, r)[i] = s[i]
      /\ Append(s, r)[Len(s) + 1] = r
  BY AppendProperties, LenProperties
<1>2. DOMAIN Append(s, r) = 1 .. Len(s) + 1
  BY <1>1, LenProperties
<1> QED BY <1>1, <1>2

\* A record that is appended, or refused, is of no run that has its record.
LEMMA LogGrows ==
  ASSUME LogbookIInv, NEW r, Ended(r), Append2Log(r),
         \A i \in DOMAIN log : ~Dark(log[i]) \/ ~Dark(r) => log[i].run # r.run
  PROVE  /\ log' \in Seq(Records)
         /\ \A i \in DOMAIN log' : /\ Ended(log'[i])
                                   /\ log'[i] = r \/ \E k \in DOMAIN log : log'[i] = log[k]
         /\ \A i, j \in DOMAIN log' :
              i # j /\ ~Dark(log'[i]) => log'[i].run # log'[j].run
<1>1. /\ log \in Seq(Records) /\ r \in Records
      /\ \A i \in DOMAIN log : Ended(log[i])
      /\ \A i, j \in DOMAIN log : i # j /\ ~Dark(log[i]) => log[i].run # log[j].run
  BY DEF LogbookIInv, RamIs, Apart, Ended
<1>2. CASE log' = log
  BY <1>1, <1>2
<1>3. CASE log' = Append(log, r)
  <2> DEFINE n == Len(log) + 1
             w == Append(log, r)
  <2>1. /\ w \in Seq(Records) /\ DOMAIN w = DOMAIN log \cup {n}
        /\ \A i \in DOMAIN log : w[i] = log[i]
        /\ w[n] = r
    BY <1>1, Appended
  <2> HIDE DEF n, w
  <2>2. \A i \in DOMAIN w : Ended(w[i]) /\ (w[i] = r \/ \E k \in DOMAIN log : w[i] = log[k])
    BY <2>1, <1>1
  <2>3. \A i, j \in DOMAIN w : i # j /\ ~Dark(w[i]) => w[i].run # w[j].run
    <3> SUFFICES ASSUME NEW i \in DOMAIN w, NEW j \in DOMAIN w, i # j, ~Dark(w[i])
                 PROVE  w[i].run # w[j].run
      OBVIOUS
    <3>1. CASE i \in DOMAIN log /\ j \in DOMAIN log
      BY <3>1, <2>1, <1>1
    <3>2. CASE i = n /\ j \in DOMAIN log
      BY <3>2, <2>1
    <3>3. CASE j = n /\ i \in DOMAIN log
      BY <3>3, <2>1
    <3> QED BY <3>1, <3>2, <3>3, <2>1
  <2> QED BY <2>1, <2>2, <2>3, <1>3 DEF w
<1> QED BY <1>2, <1>3 DEF Append2Log

LEMMA DecideCloseStep ==
  ASSUME LogbookIInv, DecideClose
  PROVE  LogbookIInv'
<1> DEFINE r == [open.rec EXCEPT !.outcome = "interrupted"]
<1>1. /\ powered /\ pc = "decide" /\ pc' = "close1" /\ open # None
      /\ Append2Log(r)
      /\ UNCHANGED <<real, usb, t, parked, last, ready, open, checked, loc, nvs>>
  BY DEF DecideClose, Goto, Undecided
<1>2. DryerIs' /\ Counted' /\ Memory' /\ InStep' /\ \A rec : Right(rec) => NextRight(rec)
  BY <1>1, MainLoopKeeps
<1>3. open \in Saved /\ Dark(open.rec) /\ OfRun(open.rec)
  BY <1>1 DEF LogbookIInv, RamIs, LeftOpen
<1>4. Ended(r) /\ r.run = open.rec.run
  <2> DEFINE q == open.rec
  <2>1. q \in Records /\ q.run >= 1
    BY <1>3, SavedFields DEF OfRun
  <2> HIDE DEF q
  <2>2. /\ [q EXCEPT !.outcome = "interrupted"] \in Records
        /\ [q EXCEPT !.outcome = "interrupted"].run = q.run
        /\ [q EXCEPT !.outcome = "interrupted"].outcome = "interrupted"
    BY <2>1 DEF Records, Outcomes
  <2> QED BY <2>1, <2>2 DEF Ended, q
<1> HIDE DEF r
<1>5. Dark(r) /\ OfRun(r)
  BY <1>3, <1>4 DEF Dark, OfRun
<1>6. \A rec : ~Dark(rec) => rec.run # r.run
  BY <1>5 DEF Dark
<1>7. /\ log' \in Seq(Records)
      /\ \A i \in DOMAIN log' : /\ Ended(log'[i])
                                /\ log'[i] = r \/ \E k \in DOMAIN log : log'[i] = log[k]
      /\ \A i, j \in DOMAIN log' :
              i # j /\ ~Dark(log'[i]) => log'[i].run # log'[j].run
  BY <1>1, <1>4, <1>5, <1>6, LogGrows
<1>8. NextRight(r)
  BY <1>1, <1>5 DEF NextRight, Dark, OfRun, real
<1>9. AllRight'
  <2>1. \A i \in DOMAIN log' : NextRight(log'[i])
    BY <1>2, <1>7, <1>8 DEF LogbookIInv, AllRight
  <2> QED BY <2>1, <1>1, <1>2, AllNextRight DEF LogbookIInv, AllRight
<1>10. RamIs'
  BY <1>1, <1>7 DEF LogbookIInv, RamIs, MainAt, Ended
<1>11. LeftOpen' /\ Places' /\ Owner'
  BY <1>1 DEF LogbookIInv, LeftOpen, Places, Owner, OfRun, Dark, real
<1>12. Apart'
  <2>1. ASSUME parked # NoRecord, ~Dark(parked), NEW i \in DOMAIN log'
        PROVE  log'[i].run # parked.run
    BY <2>1, <1>6, <1>7 DEF LogbookIInv, Apart
  <2> QED BY <2>1, <1>1, <1>7 DEF Apart, Dark, real
<1> QED BY <1>2, <1>9, <1>10, <1>11, <1>12 DEF LogbookIInv

LEMMA WriteStep ==
  ASSUME LogbookIInv, Write
  PROVE  LogbookIInv'
<1> DEFINE r == loc.rec
<1>1. /\ powered /\ pc = "write" /\ pc' = "clear1"
      /\ Append2Log(r)
      /\ UNCHANGED <<real, usb, t, parked, last, ready, open, checked, loc, nvs>>
  BY DEF Write, Goto
<1>2. DryerIs' /\ Counted' /\ Memory' /\ InStep' /\ \A rec : Right(rec) => NextRight(rec)
  BY <1>1, MainLoopKeeps
<1>3. Ended(r) /\ Right(r)
  BY <1>1 DEF LogbookIInv, Places, AllRight
<1>4. /\ ~Dark(r) => \A i \in DOMAIN log : log[i].run # r.run
      /\ parked # NoRecord /\ ~Dark(parked) => r.run # parked.run
      /\ parked # NoRecord /\ ~Dark(parked) => \A i \in DOMAIN log : log[i].run # parked.run
  BY <1>1 DEF LogbookIInv, Apart
<1> HIDE DEF r
<1>5. \A i \in DOMAIN log : ~Dark(log[i]) \/ ~Dark(r) => log[i].run # r.run
  BY <1>4 DEF Dark
<1>6. /\ log' \in Seq(Records)
      /\ \A i \in DOMAIN log' : /\ Ended(log'[i])
                                /\ log'[i] = r \/ \E k \in DOMAIN log : log'[i] = log[k]
      /\ \A i, j \in DOMAIN log' :
              i # j /\ ~Dark(log'[i]) => log'[i].run # log'[j].run
  BY <1>1, <1>3, <1>5, LogGrows
<1>7. AllRight'
  <2>1. \A i \in DOMAIN log' : NextRight(log'[i])
    BY <1>2, <1>3, <1>6 DEF LogbookIInv, AllRight
  <2> QED BY <2>1, <1>1, <1>2, AllNextRight DEF LogbookIInv, AllRight
<1>8. RamIs'
  BY <1>1, <1>6 DEF LogbookIInv, RamIs, MainAt, Ended
<1>9. LeftOpen' /\ Places' /\ Owner'
  BY <1>1 DEF LogbookIInv, LeftOpen, Places, Owner, OfRun, Dark, real
<1>10. Apart'
  <2>1. ASSUME parked # NoRecord, ~Dark(parked), NEW i \in DOMAIN log'
        PROVE  log'[i].run # parked.run
    BY <2>1, <1>4, <1>6
  <2> QED BY <2>1, <1>1, <1>6 DEF Apart, Dark, real
<1> QED BY <1>2, <1>7, <1>8, <1>9, <1>10 DEF LogbookIInv

\* The three keys are erased.
LEMMA Erasing ==
  ASSUME LogbookIInv, nvs' = [nvs EXCEPT !.rec = NoRecord] \/ nvs' = [nvs EXCEPT !.start = 0]
                      \/ nvs' = [nvs EXCEPT !.last = -1]
  PROVE  /\ nvs' \in Saved
         /\ nvs'.rec = nvs.rec \/ nvs'.rec = NoRecord
         /\ nvs' = [nvs EXCEPT !.rec = NoRecord] => nvs'.rec = NoRecord
<1>1. nvs \in Saved /\ NoRecord \in Records
  BY NothingSaved DEF LogbookIInv, RamIs
<1>2. [nvs EXCEPT !.rec = NoRecord] \in Saved /\ [nvs EXCEPT !.rec = NoRecord].rec = NoRecord
  BY <1>1, SavedFields
<1>3. [nvs EXCEPT !.start = 0] \in Saved /\ [nvs EXCEPT !.start = 0].rec = nvs.rec
  BY <1>1, SavedFields
<1>4. [nvs EXCEPT !.last = -1] \in Saved /\ [nvs EXCEPT !.last = -1].rec = nvs.rec
  BY <1>1, SavedFields
<1> QED BY <1>2, <1>3, <1>4

LEMMA CloseClearStep ==
  ASSUME LogbookIInv, CloseClear
  PROVE  LogbookIInv'
<1>1. /\ powered /\ UNCHANGED <<real, usb, t, parked, last, ready, checked, log>>
      /\ loc' = loc
      /\ \/ pc = "close1" /\ pc' = "close2" /\ nvs' = [nvs EXCEPT !.rec = NoRecord]
         \/ pc = "close2" /\ pc' = "close3" /\ nvs' = [nvs EXCEPT !.start = 0]
         \/ pc = "close3" /\ pc' = "take" /\ nvs' = [nvs EXCEPT !.last = -1]
      /\ open' = IF pc = "close3" THEN None ELSE open
  BY DEF CloseClear, Erase, Goto
<1>2. DryerIs' /\ Counted' /\ Memory' /\ InStep' /\ \A rec : Right(rec) => NextRight(rec)
  BY <1>1, MainLoopKeeps
<1>3. /\ nvs' \in Saved
      /\ pc = "close1" => nvs'.rec = NoRecord
      /\ nvs'.rec = nvs.rec \/ nvs'.rec = NoRecord
  BY <1>1, Erasing
<1>4. nvs'.rec = NoRecord
  BY <1>1, <1>3 DEF LogbookIInv, Places
<1>5. RamIs'
  BY <1>1, <1>3, NothingSaved DEF LogbookIInv, RamIs, MainAt, Ended
<1>6. LeftOpen' /\ Owner' /\ Apart'
  BY <1>1, <1>4 DEF LogbookIInv, LeftOpen, Owner, Apart, OfRun, Dark, real
<1>7. Places'
  BY <1>1, <1>4 DEF LogbookIInv, Places, OfRun, Dark, real
<1>8. AllRight'
  BY <1>1, <1>2, AllNextRight DEF LogbookIInv, AllRight
<1> QED BY <1>2, <1>5, <1>6, <1>7, <1>8 DEF LogbookIInv

LEMMA ClearStep ==
  ASSUME LogbookIInv, Clear
  PROVE  LogbookIInv'
<1>1. /\ powered /\ UNCHANGED <<real, usb, t, parked, last, ready, checked, log>>
      /\ open' = open
      /\ \/ pc = "clear1" /\ pc' = "clear2" /\ nvs' = [nvs EXCEPT !.rec = NoRecord]
         \/ pc = "clear2" /\ pc' = "clear3" /\ nvs' = [nvs EXCEPT !.start = 0]
         \/ pc = "clear3" /\ pc' = "top" /\ nvs' = [nvs EXCEPT !.last = -1]
      /\ loc' = IF pc = "clear3" THEN None ELSE loc
  BY DEF Clear, Erase, Goto
<1>2. DryerIs' /\ Counted' /\ Memory' /\ InStep' /\ \A rec : Right(rec) => NextRight(rec)
  BY <1>1, MainLoopKeeps
<1>3. /\ nvs' \in Saved
      /\ pc = "clear1" => nvs'.rec = NoRecord
      /\ nvs'.rec = nvs.rec \/ nvs'.rec = NoRecord
  BY <1>1, Erasing
<1>4. nvs'.rec = NoRecord
  BY <1>1, <1>3 DEF LogbookIInv, Places
<1>5. RamIs'
  BY <1>1, <1>3, NothingSaved DEF LogbookIInv, RamIs, MainAt, Ended
<1>6. LeftOpen' /\ Owner' /\ Apart'
  BY <1>1, <1>4 DEF LogbookIInv, LeftOpen, Owner, Apart, OfRun, Dark, real
<1>7. Places'
  BY <1>1, <1>4 DEF LogbookIInv, Places, OfRun, Dark, real
<1>8. AllRight'
  BY <1>1, <1>2, AllNextRight DEF LogbookIInv, AllRight
<1> QED BY <1>2, <1>5, <1>6, <1>7, <1>8 DEF LogbookIInv

LEMMA TakeParkedStep ==
  ASSUME LogbookIInv, TakeParked
  PROVE  LogbookIInv'
<1>1. /\ powered /\ pc = "take" /\ pc' = "write" /\ parked # NoRecord
      /\ loc' = [None EXCEPT !.rec = parked] /\ parked' = NoRecord
      /\ UNCHANGED <<real, usb, t, last, ready, open, checked, disk>>
  BY DEF TakeParked, Goto
<1>2. DryerIs' /\ Counted' /\ Memory'
      /\ InStep' /\ \A rec : Right(rec) => NextRight(rec)
  BY <1>1, MainLoopKeeps
<1>3. Ended(parked) /\ parked \in Records
  BY <1>1 DEF LogbookIInv, RamIs, Ended
<1>4. loc' \in Saved /\ loc'.rec = parked
  BY <1>1, <1>3, NothingSaved, SavedFields
<1>5. RamIs'
  BY <1>1, <1>4 DEF LogbookIInv, RamIs, MainAt, Ended, disk
<1>6. LeftOpen' /\ Owner'
  BY <1>1 DEF LogbookIInv, LeftOpen, Owner, OfRun, Dark, disk, real
<1>7. Places'
  BY <1>1, <1>3, <1>4 DEF LogbookIInv, Places, Ended, OfRun, Dark, disk, real
<1>8. Apart'
  BY <1>1, <1>4 DEF LogbookIInv, Apart, Dark, disk, real
<1>9. AllRight'
  BY <1>1, <1>2, <1>4, AllNextRight DEF LogbookIInv, AllRight, disk
<1> QED BY <1>2, <1>5, <1>6, <1>7, <1>8, <1>9 DEF LogbookIInv

LEMMA TakeCheckpointStep ==
  ASSUME LogbookIInv, TakeCheckpoint
  PROVE  LogbookIInv'
<1>1. /\ powered /\ pc = "take" /\ pc' = "save1" /\ t.active
      /\ loc' = [rec |-> t.cur, start |-> t.startElapsed, last |-> t.lastElapsed]
      /\ UNCHANGED <<real, usb, t, parked, last, ready, open, checked, disk>>
  BY DEF TakeCheckpoint, Goto
<1>2. DryerIs' /\ Counted' /\ Memory'
      /\ InStep' /\ \A rec : Right(rec) => NextRight(rec)
  BY <1>1, MainLoopKeeps
<1>3. t \in Trackers
  BY DEF LogbookIInv, RamIs
<1>4. loc' \in Saved /\ loc'.rec = t.cur
  BY <1>1, <1>3, TrackerFields DEF Saved
<1>5. RamIs'
  BY <1>1, <1>4 DEF LogbookIInv, RamIs, MainAt, Ended, disk
<1>6. LeftOpen' /\ Owner' /\ Apart'
  BY <1>1 DEF LogbookIInv, LeftOpen, Owner, Apart, OfRun, Dark, disk, real
<1>7. Places'
  BY <1>1, <1>4 DEF LogbookIInv, Places, LeftOpen, OfRun, Dark, disk, real
<1>8. AllRight'
  BY <1>1, <1>2, AllNextRight DEF LogbookIInv, AllRight, disk
<1> QED BY <1>2, <1>5, <1>6, <1>7, <1>8 DEF LogbookIInv

LEMMA TakeNothingStep ==
  ASSUME LogbookIInv, TakeNothing
  PROVE  LogbookIInv'
<1>1. /\ powered /\ pc = "take" /\ pc' = "top" /\ loc' = None
      /\ UNCHANGED <<real, usb, t, parked, last, ready, open, checked, disk>>
  BY DEF TakeNothing, Goto
<1>2. DryerIs' /\ Counted' /\ Memory'
      /\ InStep' /\ \A rec : Right(rec) => NextRight(rec)
  BY <1>1, MainLoopKeeps
<1>3. RamIs'
  BY <1>1, NothingSaved DEF LogbookIInv, RamIs, MainAt, Ended, disk
<1>4. LeftOpen' /\ Owner' /\ Apart' /\ Places'
  BY <1>1 DEF LogbookIInv, LeftOpen, Owner, Apart, Places, OfRun, Dark, disk, real
<1>5. AllRight'
  BY <1>1, <1>2, AllNextRight DEF LogbookIInv, AllRight, disk
<1> QED BY <1>2, <1>3, <1>4, <1>5 DEF LogbookIInv

LEMMA SaveStep ==
  ASSUME LogbookIInv, Save
  PROVE  LogbookIInv'
<1>1. /\ powered
      /\ \/ pc = "save1" /\ pc' = "save2" /\ nvs' = [nvs EXCEPT !.rec = loc.rec]
         \/ pc = "save2" /\ pc' = "save3" /\ nvs' = [nvs EXCEPT !.start = loc.start]
         \/ pc = "save3" /\ pc' = "top" /\ nvs' = [nvs EXCEPT !.last = loc.last]
      /\ loc' = IF pc = "save3" THEN None ELSE loc
      /\ UNCHANGED <<real, usb, t, parked, last, ready, open, checked, log>>
  BY DEF Save, Goto
<1>2. DryerIs' /\ Counted' /\ Memory'
      /\ InStep' /\ \A rec : Right(rec) => NextRight(rec)
  BY <1>1, MainLoopKeeps
<1>3. nvs \in Saved /\ loc \in Saved
  BY DEF LogbookIInv, RamIs
<1>4. loc.rec \in Records /\ loc.start \in Nat /\ loc.last \in Nat \cup {-1}
  BY <1>3, SavedFields
<1>5. /\ nvs' \in Saved
      /\ pc = "save1" => nvs'.rec = loc.rec
      /\ pc # "save1" => nvs'.rec = nvs.rec
  <2>1. /\ [nvs EXCEPT !.rec = loc.rec] \in Saved
        /\ [nvs EXCEPT !.rec = loc.rec].rec = loc.rec
    BY <1>3, <1>4, SavedFields
  <2>2. /\ [nvs EXCEPT !.start = loc.start] \in Saved
        /\ [nvs EXCEPT !.start = loc.start].rec = nvs.rec
    BY <1>3, <1>4, SavedFields
  <2>3. /\ [nvs EXCEPT !.last = loc.last] \in Saved
        /\ [nvs EXCEPT !.last = loc.last].rec = nvs.rec
    BY <1>3, <1>4, SavedFields
  <2> QED BY <2>1, <2>2, <2>3, <1>1
<1>6. pc = "save1" => OfRun(loc.rec) /\ (t.active \/ parked # NoRecord)
  BY DEF LogbookIInv, Places
<1>7. checked
  BY <1>1 DEF LogbookIInv, Places
<1>8. RamIs'
  BY <1>1, <1>5, NothingSaved DEF LogbookIInv, RamIs, MainAt, Ended
<1>9. LeftOpen'
  BY <1>1, <1>5, <1>6, <1>7 DEF LogbookIInv, LeftOpen, OfRun, Dark, real
<1>10. Owner' /\ Apart'
  BY <1>1, <1>5, <1>6 DEF LogbookIInv, Owner, Apart, Dark, real
<1>11. Places'
  BY <1>1, <1>7 DEF LogbookIInv, Places
<1>12. AllRight'
  BY <1>1, <1>2, AllNextRight DEF LogbookIInv, AllRight
<1> QED BY <1>2, <1>8, <1>9, <1>10, <1>11, <1>12 DEF LogbookIInv

-----------------------------------------------------------------------------
\* The web UI, and the power.

LEMMA WipeStep ==
  ASSUME LogbookIInv, Wipe
  PROVE  LogbookIInv'
<1>1. /\ powered /\ log' = <<>> /\ ready' \in BOOLEAN
      /\ UNCHANGED <<real, usb, t, parked, last, open, checked, pc, loc, nvs>>
  BY DEF Wipe
<1>2. DryerIs' /\ Counted' /\ Memory'
      /\ InStep' /\ \A rec : Right(rec) => NextRight(rec)
  BY <1>1, MainLoopKeeps
<1>3. log' \in Seq(Records) /\ DOMAIN log' = {}
  BY <1>1
<1>4. RamIs'
  BY <1>1, <1>3 DEF LogbookIInv, RamIs, Ended
<1>5. LeftOpen' /\ Places' /\ Owner' /\ Apart'
  BY <1>1, <1>3 DEF LogbookIInv, LeftOpen, Places, Owner, Apart, OfRun, Dark, Ended, real
<1>6. AllRight'
  BY <1>1, <1>2, <1>3, AllNextRight DEF LogbookIInv, AllRight
<1> QED BY <1>2, <1>4, <1>5, <1>6 DEF LogbookIInv

LEMMA NothingInMemory ==
  /\ Reset \in Trackers /\ ~Reset.active
  /\ Silent \in Notes
<1>1. NoRecord \in Records
  BY NothingSaved
<1>2. Reset \in Trackers /\ ~Reset.active
  BY <1>1 DEF Reset, Trackers
<1> QED BY <1>2 DEF Silent, Notes

LEMMA PowerCutStep ==
  ASSUME LogbookIInv, PowerCut
  PROVE  LogbookIInv'
<1>1. /\ powered' = FALSE
      /\ dark' = dark \cup {r \in 1..dryer.run :
                              r \in {dryer.run, nvs.rec.run} \/ Of(r) = {}}
      /\ usb' = NoFrame /\ t' = Reset /\ parked' = NoRecord /\ last' = Silent
      /\ ready' = FALSE /\ open' = None /\ checked' = FALSE
      /\ pc' = "top" /\ loc' = None
      /\ UNCHANGED <<dryer, truth, disk>>
  BY DEF PowerCut
<1>2. dark \subseteq dark'
  BY <1>1
<1>3. dark' \subseteq Runs
  <2>1. dryer.run \in 0 .. MaxRun /\ MaxRun \in Nat
    BY LogbookAssumption DEF LogbookIInv, DryerIs, DryerKinds
  <2>2. 1 .. dryer.run \subseteq Runs
    BY <2>1 DEF Runs
  <2> QED BY <1>1, <2>2 DEF LogbookIInv, DryerIs
<1>4. DryerIs' /\ Counted'
  BY <1>1, <1>3 DEF LogbookIInv, DryerIs, Counted, Does
<1>5. RamIs'
  BY <1>1, NothingInMemory, NothingSaved DEF LogbookIInv, RamIs, MainAt, Ended, disk
<1>6. Memory' /\ Places' /\ Owner' /\ InStep'
  BY <1>1, NothingInMemory DEF Memory, Places, Owner, InStep
<1>7. LeftOpen'
  <2>1. nvs.rec # NoRecord => nvs.rec.run \in 1 .. dryer.run
    BY DEF LogbookIInv, LeftOpen, OfRun
  <2>2. nvs.rec # NoRecord => nvs.rec.run \in dark'
    BY <2>1, <1>1
  <2> QED BY <2>1, <2>2, <1>1, NothingInMemory DEF LeftOpen, Dark, OfRun, disk
<1>8. AllRight'
  <2>1. ASSUME NEW rec, Right(rec) PROVE NextRight(rec)
    BY <2>1, <1>1, <1>2, NothingInMemory DEF Right, NextRight, OfRun, Dark, Over, Told
  <2>2. \A i \in DOMAIN log' : NextRight(log'[i])
    BY <2>1, <1>1 DEF LogbookIInv, AllRight, disk
  <2> QED BY <2>2, <1>1, AllNextRight
<1>9. Apart'
  BY <1>1, <1>2 DEF LogbookIInv, Apart, Dark, disk
<1> QED BY <1>4, <1>5, <1>6, <1>7, <1>8, <1>9 DEF LogbookIInv

LEMMA PowerOnStep ==
  ASSUME LogbookIInv, PowerOn
  PROVE  LogbookIInv'
<1>1. ~powered /\ powered' = TRUE /\ UNCHANGED <<dryer, truth, dark, ram, disk>>
  BY DEF PowerOn
<1>2. DryerIs' /\ Counted' /\ Memory'
  BY <1>1 DEF LogbookIInv, DryerIs, Counted, Memory, Does, ram
<1>3. RamIs'
  BY <1>1 DEF LogbookIInv, RamIs, Ended, ram, disk
<1>4. LeftOpen' /\ Places' /\ Owner' /\ Apart'
  BY <1>1 DEF LogbookIInv, LeftOpen, Places, Owner, Apart, OfRun, Dark, Ended, ram, disk
<1>5. InStep'
  BY <1>1 DEF LogbookIInv, InStep, SeenAll, SeenAllButOne, NextIsPending, Dark, ram
<1>6. AllRight'
  <2>1. ASSUME NEW rec, Right(rec) PROVE NextRight(rec)
    BY <2>1, <1>1 DEF Right, NextRight, OfRun, Dark, Over, Told, ram
  <2> QED BY <2>1, <1>1, AllNextRight DEF LogbookIInv, AllRight, ram, disk
<1> QED BY <1>2, <1>3, <1>4, <1>5, <1>6 DEF LogbookIInv

-----------------------------------------------------------------------------
LEMMA LogbookInitIInv ==
  ASSUME LogbookInit
  PROVE  LogbookIInv
<1>1. /\ dryer \in [program : DOMAIN Programs, run : {0}, screen : {"idle"}, elapsed : {0}]
      /\ truth = [r \in Runs |-> [fate |-> "none", reach |-> 0, extensions |-> 0]]
      /\ dark = {} /\ powered = TRUE
      /\ usb = NoFrame /\ t = Reset /\ parked = NoRecord /\ last = Silent
      /\ ready = FALSE /\ open = None /\ checked = FALSE
      /\ pc = "top" /\ loc = None
      /\ nvs = None /\ log = <<>>
  BY DEF LogbookInit, RamInit
<1>2. /\ dryer.program \in DOMAIN Programs /\ dryer.run = 0 /\ dryer.screen = "idle"
      /\ dryer.elapsed = 0 /\ dryer \in DryerKinds
  BY <1>1, LogbookAssumption DEF DryerKinds, ScreenKinds
<1>3. "idle" \in DOMAIN Programs[dryer.program].follows
  BY <1>2, LogbookAssumption
<1>4. DryerIs
  BY <1>1, <1>2, <1>3 DEF DryerIs, Does, Fates
<1>5. Counted
  BY <1>2 DEF Counted
<1>6. RamIs
  <2>1. log \in Seq(Records) /\ \A i \in DOMAIN log : Ended(log[i])
    BY <1>1
  <2>2. nvs \in Saved /\ open \in Saved /\ loc \in Saved /\ t \in Trackers /\ last \in Notes
    BY <1>1, NothingInMemory, NothingSaved
  <2> QED BY <2>1, <2>2, <1>1 DEF RamIs, MainAt
<1>7. Memory /\ LeftOpen /\ Places /\ Owner /\ InStep /\ AllRight /\ Apart
  BY <1>1, NothingInMemory, NothingSaved
     DEF Memory, LeftOpen, Places, Owner, InStep, AllRight, Apart
<1> QED BY <1>4, <1>5, <1>6, <1>7 DEF LogbookIInv

LEMMA LogbookStep ==
  ASSUME Orderly(Programs), ~Glitches, LogbookIInv, [LogbookNext]_logbookVars
  PROVE  LogbookIInv'
<1>1. CASE Unheard
  BY <1>1, UnheardStep
<1>2. CASE Hear
  BY <1>2, HearStep
<1>3. CASE Track
  BY <1>3, TrackStep
<1>4. CASE MainLoop
  BY <1>4, StoreReadyStep, PassStep, DecideNothingStep, DecideResumeStep, ResumeStep,
     DecideCloseStep, CloseClearStep, TakeParkedStep, TakeCheckpointStep, TakeNothingStep,
     WriteStep, ClearStep, SaveStep DEF MainLoop
<1>5. CASE Wipe
  BY <1>5, WipeStep
<1>6. CASE PowerCut
  BY <1>6, PowerCutStep
<1>7. CASE PowerOn
  BY <1>7, PowerOnStep
<1>8. CASE UNCHANGED logbookVars
  <2>1. UNCHANGED <<dryer, truth, dark, powered, usb, t, parked, last, ready, open, checked,
                    pc, loc, nvs, log>>
    BY <1>8 DEF logbookVars
  <2>2. DryerIs' /\ Counted' /\ Memory'
    BY <2>1 DEF LogbookIInv, DryerIs, Counted, Memory, Does
  <2>3. RamIs'
    BY <2>1 DEF LogbookIInv, RamIs, Ended
  <2>4. LeftOpen' /\ Places' /\ Owner' /\ Apart'
    BY <2>1 DEF LogbookIInv, LeftOpen, Places, Owner, Apart, OfRun, Dark, Ended
  <2>5. InStep'
    BY <2>1 DEF LogbookIInv, InStep, SeenAll, SeenAllButOne, NextIsPending, Dark
  <2>6. AllRight'
    <3>1. ASSUME NEW rec, Right(rec) PROVE NextRight(rec)
      BY <3>1, <2>1 DEF Right, NextRight, OfRun, Dark, Over, Told
    <3> QED BY <3>1, <2>1, AllNextRight DEF LogbookIInv, AllRight
  <2> QED BY <2>2, <2>3, <2>4, <2>5, <2>6 DEF LogbookIInv
<1> QED BY <1>1, <1>2, <1>3, <1>4, <1>5, <1>6, <1>7, <1>8 DEF LogbookNext

(* The logbook's invariant, for any orderly dryers whose counter reads     *)
(* right, and wherever the power is cut: the tracker of a run the adapter  *)
(* has power through has seen all of it, and what it wrote of a run is the *)
(* truth.                                                                  *)
THEOREM LogbookInductiveInvariant ==
  ASSUME Orderly(Programs), ~Glitches
  PROVE  LogbookSpec => []LogbookIInv
BY LogbookInitIInv, LogbookStep, PTL DEF LogbookSpec

-----------------------------------------------------------------------------
(***************************************************************************)
(* What becomes of the records, for any dryers, orderly or not, whose      *)
(* counter may read too high, and any power cuts.                          *)
(*                                                                         *)
(* A record the flash has been given is in the logbook, or it is the one   *)
(* NVS has a checkpoint of.  What the main loop is about to put in its     *)
(* place, or to erase it for, is that same record: the one left open, the  *)
(* one in its hand, the one parked or the tracker's, in this order.        *)
(***************************************************************************)

Shown(screen, run) == screen # "idle" => run >= 1

Remembered ==
  /\ dryer \in DryerKinds /\ dryer.screen \in DOMAIN Does(dryer).follows
  /\ Shown(dryer.screen, dryer.run)
  /\ usb = NoFrame \/ (usb \in Frames /\ Shown(usb.screen, usb.run))
  /\ t \in Trackers /\ (t.active => t.cur.run >= 1) /\ last \in Notes
  /\ parked \in Records /\ open \in Saved /\ loc \in Saved /\ nvs \in Saved
  /\ log \in Seq(Records)
  /\ pc # "top" => checked
  /\ pc = "resume" => loc.last >= 0 /\ loc.rec = open.rec /\ open # None
  /\ pc \in {"close1", "close2", "close3"} => open # None
  /\ open # None => open.rec.run >= 1
  /\ nvs.rec # NoRecord => nvs.rec.run >= 1
  /\ pc = "save1" => loc.rec.run >= 1

InLog(r) == \E i \in DOMAIN log : log[i].run = r

Holding(r) ==
  \/ r \in Under(t)
  \/ parked # NoRecord /\ r = parked.run
  \/ pc = "write" /\ r = loc.rec.run

Upcoming(r) == IF parked # NoRecord THEN r = parked.run ELSE r \in Under(t)

InLine(r) ==
  /\ pc \notin {"close1", "close2", "close3", "clear1", "clear2", "clear3"}
  /\ pc = "write" => r = loc.rec.run
  /\ pc # "write" /\ open # None =>
       pc \notin {"save1", "save2", "save3"} /\ r = open.rec.run
  /\ pc # "write" /\ open = None => Upcoming(r)

Account ==
  /\ owed \subseteq Runs /\ saved \subseteq owed
  /\ \A r \in owed : r \notin saved => Holding(r)
  /\ \A r \in saved : InLog(r) \/ nvs.rec.run = r
  /\ checked => \A r \in saved : InLog(r) \/ InLine(r)
  /\ pc = "save1" => Upcoming(loc.rec.run)

KeptIInv == Remembered /\ Account

LEMMA InLogIs == \A r : Of(r) # {} <=> InLog(r)
BY DEF Of, InLog

LEMMA UnderIs == \A r : r \in Under(t) <=> t.active /\ t.cur.run = r
BY DEF Under

\* A run is not forgotten when the log is added to.
LEMMA LogKeeps ==
  ASSUME log \in Seq(Records), NEW rec \in Records, log' = Append(log, rec)
  PROVE  /\ log' \in Seq(Records)
         /\ \A r : InLog(r)' <=> InLog(r) \/ r = rec.run
<1> DEFINE w == Append(log, rec)
           n == Len(log) + 1
<1>1. /\ w \in Seq(Records) /\ DOMAIN w = DOMAIN log \cup {n}
      /\ \A i \in DOMAIN log : w[i] = log[i]
      /\ w[n] = rec
  BY Appended
<1> HIDE DEF w, n
<1>2. log' = w
  BY DEF w
<1>3. \A r : (\E i \in DOMAIN w : w[i].run = r) <=> (\E i \in DOMAIN log : log[i].run = r) \/ r = rec.run
  BY <1>1
<1> QED BY <1>1, <1>2, <1>3 DEF InLog

LEMMA AfterIs ==
  ASSUME Remembered, NEW e \in After(dryer)
  PROVE  /\ e \in DryerKinds /\ e.screen \in DOMAIN Does(e).follows
         /\ Shown(e.screen, e.run)
<1> DEFINE d == dryer
           follows == Programs[d.program].follows
           moved(s) ==
             CASE d.screen = "idle" -> [d EXCEPT !.run = @ + 1, !.screen = s, !.elapsed = 0]
               [] s = "freeze" /\ d.screen \in PreRun ->
                    [d EXCEPT !.screen = s, !.elapsed = 0]
               [] s \in {"dry", "final"} /\ d.screen \in Timed \cup {"complete"} ->
                    [d EXCEPT !.screen = s, !.elapsed = @ + 1]
               [] OTHER -> [d EXCEPT !.screen = s]
<1>1. d \in DryerKinds /\ d.screen \in DOMAIN follows /\ Shown(d.screen, d.run)
  BY DEF Remembered, Does
<1>2. /\ d.program \in DOMAIN Programs /\ d.run \in Nat /\ d.screen \in ScreenKinds
      /\ d.elapsed \in Nat /\ d.run \in 0 .. MaxRun /\ MaxRun \in Nat
  BY <1>1, LogbookAssumption DEF DryerKinds
<1>3. \A s \in DOMAIN follows : s \in ScreenKinds /\ follows[s] \subseteq DOMAIN follows
  BY <1>2, LogbookAssumption
<1>4. Programs[d.program].counts \in Nat
  BY <1>2, LogbookAssumption
<1>5. e.run <= MaxRun
  BY DEF After
<1>6. /\ e.screen \in DOMAIN follows /\ e.elapsed \in Nat /\ e.run \in Nat
      /\ e = [program |-> d.program, run |-> e.run, screen |-> e.screen, elapsed |-> e.elapsed]
      /\ Shown(e.screen, e.run)
  <2>1. CASE \E s \in follows[d.screen] : e = moved(s)
    <3>1. PICK s \in follows[d.screen] : e = moved(s)
      BY <2>1
    <3>2. s \in DOMAIN follows
      BY <1>1, <1>3
    <3> HIDE DEF d
    <3> HIDE DEF follows
    <3>3. \/ d.screen = "idle" /\ e = [d EXCEPT !.run = @ + 1, !.screen = s, !.elapsed = 0]
          \/ d.screen # "idle" /\ e = [d EXCEPT !.screen = s, !.elapsed = 0]
          \/ d.screen # "idle" /\ e = [d EXCEPT !.screen = s, !.elapsed = @ + 1]
          \/ d.screen # "idle" /\ e = [d EXCEPT !.screen = s]
      <4>1. CASE d.screen = "idle"
        BY <4>1, <3>1 DEF PreRun, Timed
      <4>2. CASE d.screen # "idle" /\ s = "freeze" /\ d.screen \in PreRun
        BY <4>2, <3>1
      <4>3. CASE /\ d.screen # "idle" /\ ~(s = "freeze" /\ d.screen \in PreRun)
                 /\ s \in {"dry", "final"} /\ d.screen \in Timed \cup {"complete"}
        BY <4>3, <3>1
      <4>4. CASE /\ d.screen # "idle" /\ ~(s = "freeze" /\ d.screen \in PreRun)
                 /\ ~(s \in {"dry", "final"} /\ d.screen \in Timed \cup {"complete"})
        BY <4>4, <3>1
      <4> QED BY <4>1, <4>2, <4>3, <4>4
    <3>4. CASE d.screen = "idle" /\ e = [d EXCEPT !.run = @ + 1, !.screen = s, !.elapsed = 0]
      <4>1. /\ e.run = d.run + 1 /\ e.screen = s /\ e.elapsed = 0
            /\ e = [program |-> d.program, run |-> d.run + 1, screen |-> s, elapsed |-> 0]
        BY <3>4, <1>1 DEF DryerKinds
      <4> QED BY <4>1, <3>2, <1>2 DEF Shown
    <3>5. CASE d.screen # "idle" /\ e = [d EXCEPT !.screen = s, !.elapsed = 0]
      BY <3>5, <3>2, <1>1, <1>2 DEF DryerKinds, Shown
    <3>6. CASE d.screen # "idle" /\ e = [d EXCEPT !.screen = s, !.elapsed = @ + 1]
      <4>1. /\ e.run = d.run /\ e.screen = s /\ e.elapsed = d.elapsed + 1
            /\ e = [program |-> d.program, run |-> d.run, screen |-> s, elapsed |-> d.elapsed + 1]
        BY <3>6, <1>1 DEF DryerKinds
      <4> QED BY <4>1, <3>6, <3>2, <1>1, <1>2 DEF Shown
    <3>7. CASE d.screen # "idle" /\ e = [d EXCEPT !.screen = s]
      BY <3>7, <3>2, <1>1, <1>2 DEF DryerKinds, Shown
    <3> QED BY <3>3, <3>4, <3>5, <3>6, <3>7
  <2>2. CASE d.screen \in Running /\ \E n \in d.elapsed + 1 .. Programs[d.program].counts :
               e = [d EXCEPT !.elapsed = n]
    <3>1. PICK n \in d.elapsed + 1 .. Programs[d.program].counts : e = [d EXCEPT !.elapsed = n]
      BY <2>2
    <3>2. n \in Nat
      BY <3>1, <1>2, <1>4
    <3> HIDE DEF d
    <3> HIDE DEF follows
    <3> QED BY <3>1, <3>2, <1>1, <1>2 DEF DryerKinds, Shown
  <2>3. \/ \E s \in follows[d.screen] : e = moved(s)
        \/ d.screen \in Running /\ \E n \in d.elapsed + 1 .. Programs[d.program].counts :
               e = [d EXCEPT !.elapsed = n]
    BY Zenon DEF After, Does
  <2> QED BY <2>1, <2>2, <2>3
<1>7. e.program = d.program /\ e.screen \in ScreenKinds /\ e.run \in 0 .. MaxRun
  BY <1>2, <1>3, <1>5, <1>6
<1>8. e \in DryerKinds
  BY <1>2, <1>6, <1>7 DEF DryerKinds
<1> QED BY <1>6, <1>7, <1>8 DEF Does

\* What a step does that leaves the records where they are.
LEMMA RecordsStay ==
  ASSUME KeptIInv, UNCHANGED <<t, parked, open, checked, pc, loc, nvs, log, owed, saved>>
  PROVE  Account'
BY DEF KeptIInv, Account, Holding, InLine, Upcoming, InLog, Under

LEMMA UnheardKeeps ==
  ASSUME KeptIInv, Unheard
  PROVE  KeptIInv'
<1>1. PICK e \in After(dryer) : DryerMoves(e)
  BY DEF Unheard
<1>2. /\ dryer' = e
      /\ UNCHANGED <<usb, t, parked, last, ready, open, checked, pc, loc, nvs, log, owed, saved>>
  BY <1>1 DEF Unheard, DryerMoves, account, ram, disk
<1>3. e \in DryerKinds /\ e.screen \in DOMAIN Does(e).follows /\ Shown(e.screen, e.run)
  BY <1>1, AfterIs DEF KeptIInv
<1>4. Remembered'
  BY <1>2, <1>3 DEF KeptIInv, Remembered, Does
<1> QED BY <1>2, <1>4, RecordsStay DEF KeptIInv

LEMMA HearKeeps ==
  ASSUME KeptIInv, Hear
  PROVE  KeptIInv'
<1>1. PICK e \in {dryer} \cup After(dryer) :
        /\ DryerMoves(e)
        /\ \E shown \in {e.elapsed} \cup
                       (IF Glitches /\ e.screen \in Running THEN {e.elapsed + 1} ELSE {}) :
            /\ usb' = [screen |-> e.screen, elapsed |-> shown, run |-> e.run]
            /\ last' = [running |-> Fold(e.screen) \in Running,
                        type |-> e.screen, elapsed |-> shown,
                        extensions |-> Extended(last.extensions, last.type, e.screen)]
  BY DEF Hear
<1>2. PICK shown \in {e.elapsed} \cup {e.elapsed + 1} :
            /\ usb' = [screen |-> e.screen, elapsed |-> shown, run |-> e.run]
            /\ last' = [running |-> Fold(e.screen) \in Running,
                        type |-> e.screen, elapsed |-> shown,
                        extensions |-> Extended(last.extensions, last.type, e.screen)]
  BY <1>1
<1>3. /\ dryer' = e
      /\ UNCHANGED <<t, parked, ready, open, checked, pc, loc, nvs, log, owed, saved>>
  BY <1>1 DEF Hear, DryerMoves, account, disk
<1>4. e \in DryerKinds /\ e.screen \in DOMAIN Does(e).follows /\ Shown(e.screen, e.run)
  BY <1>1, AfterIs DEF KeptIInv, Remembered
<1>5. e.screen \in ScreenKinds /\ e.elapsed \in Nat /\ e.run \in 0 .. MaxRun /\ shown \in Nat
  BY <1>2, <1>4 DEF DryerKinds
<1>6. last' \in Notes
  <2>1. last.extensions \in Nat
    BY DEF KeptIInv, Remembered, Notes
  <2>2. Extended(last.extensions, last.type, e.screen) \in Nat
    BY <2>1 DEF Extended
  <2>3. (Fold(e.screen) \in Running) \in BOOLEAN
    OBVIOUS
  <2> QED BY <1>2, <1>5, <2>2, <2>3 DEF Notes
<1>7. usb' \in Frames /\ Shown(usb'.screen, usb'.run)
  BY <1>2, <1>4, <1>5 DEF Frames
<1>8. Remembered'
  BY <1>3, <1>4, <1>6, <1>7 DEF KeptIInv, Remembered, Does, Shown
<1> QED BY <1>3, <1>8, RecordsStay DEF KeptIInv

LEMMA TrackKeeps ==
  ASSUME KeptIInv, Track
  PROVE  KeptIInv'
<1> DEFINE o == Observe(t, usb.screen, usb.elapsed, usb.run)
           u == o.tracker
           p == [u.cur EXCEPT !.extra = last.extensions]
           dropped == IF o.finished /\ parked # NoRecord THEN Under(t) ELSE {}
<1>1. /\ usb # NoFrame /\ usb' = NoFrame
      /\ t' = u
      /\ parked' = IF o.finished /\ parked = NoRecord THEN p ELSE parked
      /\ owed' = (owed \ dropped) \cup Under(u) /\ saved' = saved \ dropped
      /\ UNCHANGED <<dryer, last, ready, open, checked, pc, loc, nvs, log>>
  BY DEF Track, real, disk
<1>2. /\ usb \in Frames /\ Shown(usb.screen, usb.run) /\ t \in Trackers
      /\ usb.screen \in ScreenKinds /\ usb.elapsed \in Nat /\ usb.run \in 0 .. MaxRun
  BY <1>1 DEF KeptIInv, Remembered, Frames
<1>3. /\ u \in Trackers
      /\ o.finished <=> t.active /\ ~u.active
      /\ t.active => u.cur.run = t.cur.run
      /\ Lost(t, Fold(usb.screen), usb.elapsed) => u.cur.outcome = "interrupted"
      /\ t.active /\ ~u.active /\ ~Lost(t, Fold(usb.screen), usb.elapsed) =>
           /\ Ending(t, Fold(usb.screen)) # "none"
           /\ u.cur.outcome = Ending(t, Fold(usb.screen))
      /\ ~t.active /\ u.active => Fold(usb.screen) \in Running /\ u.cur.run = usb.run
  BY <1>2, Watched
<1>4. u.active => u.cur.run >= 1
  <2>1. CASE t.active
    BY <2>1, <1>3 DEF KeptIInv, Remembered
  <2>2. CASE ~t.active /\ u.active
    <3>1. usb.screen # "idle"
      BY <2>2, <1>3 DEF Fold, Running, PreRun, Timed
    <3> QED BY <3>1, <2>2, <1>2, <1>3 DEF Shown
  <2> QED BY <2>1, <2>2
<1>5. u.cur \in Records /\ u.cur.run \in 0 .. MaxRun /\ u.active \in BOOLEAN
  BY <1>3, TrackerFields
<1>6. last.extensions \in Nat
  BY DEF KeptIInv, Remembered, Notes
<1>7. o.finished => u.cur.outcome # "running"
  BY <1>3 DEF Ending
<1> HIDE DEF o, u
<1>8. p \in Records /\ p.run = u.cur.run /\ (o.finished => p # NoRecord)
  <2> DEFINE q == u.cur
             x == last.extensions
  <2>1. q \in Records /\ x \in Nat /\ (o.finished => q.outcome # "running")
    BY <1>5, <1>6, <1>7
  <2> HIDE DEF q, x
  <2>2. /\ p = [q EXCEPT !.extra = x]
        /\ p \in Records /\ p.run = q.run /\ p.outcome = q.outcome
    BY <2>1 DEF Records, q, x
  <2> QED BY <2>1, <2>2 DEF NoRecord, q
<1> HIDE DEF p, dropped
<1>9. Remembered'
  BY <1>1, <1>3, <1>4, <1>8 DEF KeptIInv, Remembered, Shown
<1>10. \A r : (r \in Under(t) <=> t.active /\ t.cur.run = r)
            /\ (r \in Under(u) <=> u.active /\ u.cur.run = r)
  BY DEF Under
<1>11. \A r : r \in dropped <=> o.finished /\ parked # NoRecord /\ t.cur.run = r
  BY <1>3, <1>10 DEF dropped
<1>12. owed' \subseteq Runs /\ saved' \subseteq owed'
  <2>1. \A r \in Under(u) : r \in Runs
    BY <1>4, <1>5, <1>10, LogbookAssumption DEF Runs
  <2> QED BY <2>1, <1>1 DEF KeptIInv, Account
<1>13. ASSUME NEW r, Holding(r), r \notin dropped PROVE Holding(r)'
  BY <1>1, <1>3, <1>8, <1>10, <1>11, <1>13, UnderIs DEF Holding
<1>14. ASSUME NEW r, Upcoming(r), r \notin dropped PROVE Upcoming(r)'
  BY <1>1, <1>3, <1>8, <1>10, <1>11, <1>14, UnderIs DEF Upcoming
<1>15. \A r \in owed' : r \notin saved' => Holding(r)'
  <2>1. \A r \in Under(u) : Holding(r)'
    BY <1>1 DEF Holding
  <2> QED BY <2>1, <1>1, <1>13 DEF KeptIInv, Account
<1>16. \A r \in saved' : InLog(r)' \/ nvs'.rec.run = r
  BY <1>1 DEF KeptIInv, Account, InLog
<1>17. ASSUME NEW r, InLine(r), r \notin dropped PROVE InLine(r)'
  BY <1>1, <1>14, <1>17 DEF InLine
<1>18. checked' => \A r \in saved' : InLog(r)' \/ InLine(r)'
  BY <1>1, <1>17 DEF KeptIInv, Account, InLog
<1>19. pc' = "save1" => Upcoming(loc.rec.run)'
  <2> SUFFICES ASSUME pc = "save1", Upcoming(loc.rec.run) PROVE Upcoming(loc.rec.run)'
    BY <1>1 DEF KeptIInv, Account
  <2>1. CASE parked # NoRecord
    BY <2>1, <1>1 DEF Upcoming
  <2>2. CASE parked = NoRecord
    <3>1. loc.rec.run \notin dropped
      BY <2>2, <1>11
    <3>2. \A r : Upcoming(r) /\ r \notin dropped => Upcoming(r)'
      BY <1>14
    <3> QED BY <3>1, <2>2, <1>1, <1>3, <1>8, <1>10, UnderIs DEF Upcoming
  <2> QED BY <2>1, <2>2
<1> QED BY <1>9, <1>12, <1>15, <1>16, <1>18, <1>19, <1>1 DEF KeptIInv, Account

\* A step of the main loop leaves the dryer and the reports alone.
LEMMA StillRemembered ==
  ASSUME KeptIInv, UNCHANGED <<dryer, usb, last>>
  PROVE  /\ dryer' \in DryerKinds /\ dryer'.screen \in DOMAIN Does(dryer)'.follows
         /\ Shown(dryer'.screen, dryer'.run)
         /\ usb' = NoFrame \/ (usb' \in Frames /\ Shown(usb'.screen, usb'.run))
         /\ last' \in Notes
BY DEF KeptIInv, Remembered, Does

LEMMA LoopGoesOn ==
  ASSUME KeptIInv, StoreReady \/ DecideNothing \/ TakeNothing
  PROVE  KeptIInv'
<1>1. /\ UNCHANGED <<dryer, usb, t, parked, last, open, checked, nvs, log, owed, saved>>
      /\ \/ pc' = pc /\ loc' = loc
         \/ pc = "decide" /\ pc' = "take" /\ loc' = loc
         \/ pc = "take" /\ pc' = "top" /\ loc' = None
  BY DEF StoreReady, DecideNothing, TakeNothing, Goto, real, account, disk
<1>2. Remembered'
  BY <1>1, StillRemembered, NothingSaved DEF KeptIInv, Remembered
<1>3. \A r : (InLog(r)' <=> InLog(r)) /\ (Holding(r) => Holding(r)') /\ (InLine(r) => InLine(r)')
             /\ (Upcoming(r)' <=> Upcoming(r))
  BY <1>1 DEF InLog, Holding, InLine, Upcoming, Under
<1> QED BY <1>1, <1>2, <1>3 DEF KeptIInv, Account

LEMMA PassKeeps ==
  ASSUME KeptIInv, Pass
  PROVE  KeptIInv'
<1>1. /\ pc = "top" /\ pc' = "decide" /\ checked' = TRUE
      /\ open' = IF ~checked /\ nvs.rec # NoRecord THEN nvs ELSE open
      /\ UNCHANGED <<dryer, usb, t, parked, last, loc, nvs, log, owed, saved>>
  BY DEF Pass, Goto, real, account, disk
<1>2. nvs.rec # NoRecord => nvs # None
  BY NothingSaved
<1>3. Remembered'
  BY <1>1, StillRemembered DEF KeptIInv, Remembered
<1>4. \A r : (InLog(r)' <=> InLog(r)) /\ (Holding(r) => Holding(r)')
  BY <1>1 DEF InLog, Holding, Under
<1>5. \A r \in saved : r >= 1 /\ (InLog(r) \/ nvs.rec.run = r)
  <2>1. \A r \in Runs : r >= 1
    BY LogbookAssumption DEF Runs
  <2> QED BY <2>1 DEF KeptIInv, Account
<1>6. ASSUME NEW r \in saved PROVE InLog(r) \/ InLine(r)'
  <2>1. CASE ~checked /\ nvs.rec # NoRecord
    BY <2>1, <1>1, <1>2, <1>5 DEF InLine
  <2>2. CASE ~checked /\ nvs.rec = NoRecord
    BY <2>2, <1>5, NothingSaved
  <2>3. CASE checked
    BY <2>3, <1>1 DEF KeptIInv, Account, InLine, Upcoming, Under
  <2> QED BY <2>1, <2>2, <2>3
<1> QED BY <1>1, <1>3, <1>4, <1>6 DEF KeptIInv, Account

LEMMA DecideResumeKeeps ==
  ASSUME KeptIInv, DecideResume
  PROVE  KeptIInv'
<1>1. /\ pc = "decide" /\ pc' = "resume" /\ open # None /\ last.elapsed >= 0
      /\ loc' = [open EXCEPT !.last = last.elapsed]
      /\ UNCHANGED <<dryer, usb, t, parked, last, open, checked, nvs, log, owed, saved>>
  BY DEF DecideResume, Undecided, Goto, real, account, disk
<1>2. open \in Saved /\ last.elapsed \in Nat \cup {-1}
  BY DEF KeptIInv, Remembered, Notes
<1>3. loc' \in Saved /\ loc'.rec = open.rec /\ loc'.last >= 0
  BY <1>1, <1>2, SavedFields
<1>4. Remembered'
  BY <1>1, <1>3, StillRemembered DEF KeptIInv, Remembered
<1>5. \A r : (InLog(r)' <=> InLog(r)) /\ (Holding(r) => Holding(r)') /\ (InLine(r) => InLine(r)')
  BY <1>1 DEF InLog, Holding, InLine, Upcoming, Under
<1> QED BY <1>1, <1>4, <1>5 DEF KeptIInv, Account

LEMMA ResumeKeeps ==
  ASSUME KeptIInv, Resume
  PROVE  KeptIInv'
<1> DEFINE n == loc.rec.run
           replaced == Under(t) \ {n}
           exposed == IF parked = NoRecord THEN {} ELSE {n}
<1>1. /\ pc = "resume" /\ pc' = "take"
      /\ t' = ResumeRecord(t, loc.rec, loc.start, loc.last, last.type)
      /\ open' = None /\ loc' = None
      /\ owed' = (owed \ replaced) \cup {n} /\ saved' = saved \ (replaced \cup exposed)
      /\ UNCHANGED <<dryer, usb, parked, last, checked, nvs, log>>
  BY DEF Resume, Goto, real, disk
<1>2. loc.rec = open.rec /\ open # None /\ n >= 1 /\ loc.last >= 0 /\ loc \in Saved
  BY <1>1 DEF KeptIInv, Remembered
<1>3. loc.rec \in Records /\ loc.start \in Nat /\ loc.last \in Nat /\ n \in 0 .. MaxRun
  <2>1. loc.rec \in Records /\ loc.start \in Nat /\ loc.last \in Nat \cup {-1}
    BY <1>2, SavedFields
  <2> QED BY <2>1, <1>2 DEF Records
<1>4. last.type \in ScreenKinds \cup {"none"}
  BY DEF KeptIInv, Remembered, Notes
<1>5. /\ t' \in Trackers /\ t'.active /\ t'.cur.run = n
  <2> DEFINE q == loc.rec
             r == [q EXCEPT !.outcome = "running"]
  <2>1. q \in Records
    BY <1>3
  <2>2. t' = [active |-> TRUE, cur |-> r, lastPhase |-> last.type, lastElapsed |-> loc.last,
              haveLast |-> TRUE, startElapsed |-> loc.start]
    BY <1>1 DEF ResumeRecord
  <2> HIDE DEF q
  <2>3. r \in Records /\ r.run = q.run
    BY <2>1 DEF Records, Outcomes
  <2> HIDE DEF r
  <2> QED BY <2>2, <2>3, <1>3, <1>4 DEF Trackers, q
<1>6. Remembered'
  BY <1>1, <1>2, <1>5, NothingSaved, StillRemembered DEF KeptIInv, Remembered
<1>7. \A r : (r \in Under(t) <=> t.active /\ t.cur.run = r) /\ (r \in Under(t)' <=> r = n)
  BY <1>5 DEF Under
<1>8. owed' \subseteq Runs /\ saved' \subseteq owed'
  <2>1. n \in Runs
    BY <1>2, <1>3, LogbookAssumption DEF Runs
  <2> QED BY <2>1, <1>1 DEF KeptIInv, Account
<1>9. \A r \in saved : InLog(r) \/ r = n
  BY <1>1, <1>2 DEF KeptIInv, Account, InLine, Remembered
<1>10. \A r \in owed' : r \notin saved' => Holding(r)'
  <2> SUFFICES ASSUME NEW r \in owed', r \notin saved', r # n PROVE Holding(r)'
    BY <1>7 DEF Holding
  <2>1. r \in owed /\ r \notin replaced /\ r \notin saved
    BY <1>1
  <2>2. Holding(r) /\ r \notin Under(t)
    BY <2>1 DEF KeptIInv, Account
  <2> QED BY <2>2, <1>1 DEF Holding
<1>11. \A r \in saved' : InLog(r)' \/ InLine(r)'
  <2> SUFFICES ASSUME NEW r \in saved', ~InLog(r) PROVE InLine(r)'
    BY <1>1 DEF InLog
  <2>1. r = n /\ parked = NoRecord
    BY <1>1, <1>9
  <2> QED BY <2>1, <1>1, <1>7 DEF InLine, Upcoming
<1>12. \A r \in saved' : InLog(r)' \/ nvs'.rec.run = r
  BY <1>1 DEF KeptIInv, Account, InLog
<1> QED BY <1>1, <1>6, <1>8, <1>10, <1>11, <1>12 DEF KeptIInv, Account

LEMMA DecideCloseKeeps ==
  ASSUME KeptIInv, DecideClose
  PROVE  KeptIInv'
<1> DEFINE rec == [open.rec EXCEPT !.outcome = "interrupted"]
           n == open.rec.run
<1>1. /\ pc = "decide" /\ pc' = "close1" /\ open # None
      /\ \/ log' = log /\ Givenup({rec.run})
         \/ log' = Append(log, rec) /\ Delivered(rec.run)
      /\ UNCHANGED <<dryer, usb, t, parked, last, open, checked, loc, nvs>>
  BY DEF DecideClose, Append2Log, Undecided, Goto, real
<1>2. rec \in Records /\ rec.run = n
  <2> DEFINE q == open.rec
  <2>1. q \in Records
    BY SavedFields DEF KeptIInv, Remembered
  <2> HIDE DEF q
  <2>2. /\ [q EXCEPT !.outcome = "interrupted"] \in Records
        /\ [q EXCEPT !.outcome = "interrupted"].run = q.run
    BY <2>1 DEF Records, Outcomes
  <2> QED BY <2>2 DEF q
<1> HIDE DEF rec
<1>3. log \in Seq(Records) /\ \A r \in saved : InLog(r) \/ r = n
  BY <1>1 DEF KeptIInv, Account, InLine, Remembered
<1>4. /\ log' \in Seq(Records)
      /\ owed' \subseteq owed /\ saved' \subseteq owed'
      /\ \A r : r \in owed' /\ r \notin saved' => r \in owed /\ r \notin saved
      /\ \A r \in saved' : InLog(r)'
  <2>1. CASE log' = log /\ Givenup({rec.run})
    BY <2>1, <1>2, <1>3 DEF Givenup, InLog, KeptIInv, Account
  <2>2. CASE log' = Append(log, rec) /\ Delivered(rec.run)
    <3>1. \A r : InLog(r)' <=> InLog(r) \/ r = rec.run
      BY <2>2, <1>2, <1>3, LogKeeps
    <3>2. log' \in Seq(Records)
      BY <2>2, <1>2, <1>3, LogKeeps
    <3> QED BY <3>1, <3>2, <2>2, <1>2, <1>3 DEF Delivered, KeptIInv, Account
  <2> QED BY <2>1, <2>2, <1>1
<1>5. Remembered'
  BY <1>1, <1>4, StillRemembered DEF KeptIInv, Remembered
<1>6. \A r : Holding(r) => Holding(r)'
  BY <1>1 DEF Holding, Under
<1> QED BY <1>1, <1>4, <1>5, <1>6 DEF KeptIInv, Account

LEMMA WriteKeeps ==
  ASSUME KeptIInv, Write
  PROVE  KeptIInv'
<1> DEFINE rec == loc.rec
<1>1. /\ pc = "write" /\ pc' = "clear1"
      /\ \/ log' = log /\ Givenup({rec.run})
         \/ log' = Append(log, rec) /\ Delivered(rec.run)
      /\ UNCHANGED <<dryer, usb, t, parked, last, open, checked, loc, nvs>>
  BY DEF Write, Append2Log, Goto, real
<1>2. rec \in Records
  BY SavedFields DEF KeptIInv, Remembered
<1>3. log \in Seq(Records) /\ \A r \in saved : InLog(r) \/ r = rec.run
  BY <1>1 DEF KeptIInv, Account, InLine, Remembered
<1>4. \A r : Holding(r) => r = rec.run \/ Holding(r)'
  BY <1>1 DEF Holding, Under
<1> HIDE DEF rec
<1>5. /\ log' \in Seq(Records)
      /\ owed' \subseteq owed /\ saved' \subseteq owed'
      /\ \A r : r \in owed' /\ r \notin saved' => r \in owed /\ r \notin saved /\ r # rec.run
      /\ \A r \in saved' : InLog(r)'
  <2>1. CASE log' = log /\ Givenup({rec.run})
    BY <2>1, <1>2, <1>3 DEF Givenup, InLog, KeptIInv, Account
  <2>2. CASE log' = Append(log, rec) /\ Delivered(rec.run)
    <3>1. \A r : InLog(r)' <=> InLog(r) \/ r = rec.run
      BY <2>2, <1>2, <1>3, LogKeeps
    <3>2. log' \in Seq(Records)
      BY <2>2, <1>2, <1>3, LogKeeps
    <3> QED BY <3>1, <3>2, <2>2, <1>2, <1>3 DEF Delivered, KeptIInv, Account
  <2> QED BY <2>1, <2>2, <1>1
<1>6. Remembered'
  BY <1>1, <1>5, StillRemembered DEF KeptIInv, Remembered
<1> QED BY <1>1, <1>4, <1>5, <1>6 DEF KeptIInv, Account

\* Every run flash was given is in the logbook by now.
LEMMA ClearKeeps ==
  ASSUME KeptIInv, CloseClear \/ Clear
  PROVE  KeptIInv'
<1>1. /\ UNCHANGED <<dryer, usb, t, parked, last, checked, log, owed, saved>>
      /\ \/ nvs' = [nvs EXCEPT !.rec = NoRecord]
         \/ nvs' = [nvs EXCEPT !.start = 0]
         \/ nvs' = [nvs EXCEPT !.last = -1]
      /\ pc \in {"close1", "close2", "close3", "clear1", "clear2", "clear3"}
      /\ \/ pc' \in {"close2", "close3"} /\ open' = open /\ open # None
         \/ pc' \in {"clear2", "clear3"} /\ open' = open
         \/ pc' = "take" /\ open' = None
         \/ pc' = "top" /\ open' = open
      /\ loc' = loc \/ loc' = None
  BY DEF CloseClear, Clear, Erase, Goto, real, account, KeptIInv, Remembered
<1>2. nvs \in Saved
  BY DEF KeptIInv, Remembered
<1>3. nvs' \in Saved /\ (nvs'.rec = nvs.rec \/ nvs'.rec = NoRecord)
  <2>1. NoRecord \in Records
    BY NothingSaved
  <2>2. [nvs EXCEPT !.rec = NoRecord] \in Saved /\ [nvs EXCEPT !.rec = NoRecord].rec = NoRecord
    BY <1>2, <2>1, SavedFields
  <2>3. [nvs EXCEPT !.start = 0] \in Saved /\ [nvs EXCEPT !.start = 0].rec = nvs.rec
    BY <1>2, SavedFields
  <2>4. [nvs EXCEPT !.last = -1] \in Saved /\ [nvs EXCEPT !.last = -1].rec = nvs.rec
    BY <1>2, SavedFields
  <2> QED BY <2>2, <2>3, <2>4, <1>1
<1>4. Remembered'
  BY <1>1, <1>3, StillRemembered, NothingSaved DEF KeptIInv, Remembered
<1>5. \A r : (InLog(r)' <=> InLog(r)) /\ (Holding(r) => Holding(r)')
  BY <1>1 DEF InLog, Holding, Under
<1>6. \A r \in saved : InLog(r)
  BY <1>1 DEF KeptIInv, Remembered, Account, InLine
<1> QED BY <1>1, <1>4, <1>5, <1>6 DEF KeptIInv, Account

LEMMA TakeParkedKeeps ==
  ASSUME KeptIInv, TakeParked
  PROVE  KeptIInv'
<1>1. /\ pc = "take" /\ pc' = "write" /\ parked # NoRecord /\ parked' = NoRecord
      /\ loc' = [None EXCEPT !.rec = parked]
      /\ owed' = owed \ {open.rec.run} /\ saved' = saved \ {open.rec.run}
      /\ UNCHANGED <<dryer, usb, t, last, open, checked, nvs, log>>
  BY DEF TakeParked, Givenup, Goto, real, disk
<1>2. parked \in Records
  BY DEF KeptIInv, Remembered
<1>3. loc' \in Saved /\ loc'.rec = parked
  BY <1>1, <1>2, NothingSaved, SavedFields
<1>4. Remembered'
  BY <1>1, <1>3, NothingSaved, StillRemembered DEF KeptIInv, Remembered
<1>5. \A r : InLog(r)' <=> InLog(r)
  BY <1>1 DEF InLog
<1>6. \A r : Holding(r) => Holding(r)'
  BY <1>1, <1>3 DEF Holding, Under
<1>7. \A r \in saved' : InLog(r)' \/ InLine(r)'
  <2> SUFFICES ASSUME NEW r \in saved', ~InLog(r) PROVE InLine(r)'
    BY <1>5
  <2>1. InLine(r) /\ r # open.rec.run
    BY <1>1 DEF KeptIInv, Remembered, Account
  <2>2. open = None /\ r = parked.run
    BY <2>1, <1>1 DEF InLine, Upcoming
  <2> QED BY <2>2, <1>1, <1>3 DEF InLine
<1> QED BY <1>1, <1>4, <1>5, <1>6, <1>7 DEF KeptIInv, Account

LEMMA TakeCheckpointKeeps ==
  ASSUME KeptIInv, TakeCheckpoint
  PROVE  KeptIInv'
<1>1. /\ pc = "take" /\ pc' = "save1" /\ parked = NoRecord /\ t.active
      /\ loc' = [rec |-> t.cur, start |-> t.startElapsed, last |-> t.lastElapsed]
      /\ IF open = None THEN owed' = owed /\ saved' = saved
         ELSE owed' = owed \ {open.rec.run} /\ saved' = saved \ {open.rec.run, t.cur.run}
      /\ UNCHANGED <<dryer, usb, t, parked, last, open, checked, nvs, log>>
  BY DEF TakeCheckpoint, Goto, real, account, disk
<1>2. t \in Trackers /\ t.cur.run >= 1
  BY <1>1 DEF KeptIInv, Remembered
<1>3. loc' \in Saved /\ loc'.rec = t.cur
  BY <1>1, <1>2, TrackerFields DEF Saved
<1>4. Remembered'
  BY <1>1, <1>2, <1>3, StillRemembered DEF KeptIInv, Remembered
<1>5. \A r : InLog(r)' <=> InLog(r)
  BY <1>1 DEF InLog
<1>6. \A r : (Holding(r) => Holding(r)') /\ (r \in Under(t) <=> r = t.cur.run)
  BY <1>1 DEF Holding, Under
<1>7. Upcoming(loc.rec.run)'
  BY <1>1, <1>3 DEF Upcoming, Under
<1>8. \A r \in saved' : InLog(r)' \/ InLine(r)'
  <2> SUFFICES ASSUME NEW r \in saved', ~InLog(r) PROVE InLine(r)'
    BY <1>5
  <2>1. InLine(r) /\ r \in saved
    BY <1>1 DEF KeptIInv, Remembered, Account
  <2>2. open = None
    BY <2>1, <1>1 DEF InLine
  <2> QED BY <2>1, <2>2, <1>1 DEF InLine, Upcoming, Under
<1>9. \A r \in owed' : r \notin saved' => Holding(r)'
  <2> SUFFICES ASSUME NEW r \in owed', r \notin saved' PROVE Holding(r)'
    OBVIOUS
  <2>1. r \in owed /\ (r \notin saved \/ r = t.cur.run)
    BY <1>1
  <2>2. r = t.cur.run => Holding(r)
    BY <1>6 DEF Holding
  <2> QED BY <2>1, <2>2, <1>6 DEF KeptIInv, Account
<1>10. owed' \subseteq Runs /\ saved' \subseteq owed' /\ saved' \subseteq saved
  BY <1>1 DEF KeptIInv, Account
<1>11. \A r \in saved' : InLog(r)' \/ nvs'.rec.run = r
  BY <1>1, <1>5, <1>10 DEF KeptIInv, Account
<1> QED BY <1>4, <1>7, <1>8, <1>9, <1>10, <1>11 DEF KeptIInv, Account

LEMMA SaveKeeps ==
  ASSUME KeptIInv, Save
  PROVE  KeptIInv'
<1>1. /\ \/ pc = "save1" /\ pc' = "save2" /\ nvs' = [nvs EXCEPT !.rec = loc.rec] /\ loc' = loc
         \/ pc = "save2" /\ pc' = "save3" /\ nvs' = [nvs EXCEPT !.start = loc.start] /\ loc' = loc
         \/ pc = "save3" /\ pc' = "top" /\ nvs' = [nvs EXCEPT !.last = loc.last] /\ loc' = None
      /\ IF pc = "save1" /\ open = None THEN Delivered(loc.rec.run)
         ELSE owed' = owed /\ saved' = saved
      /\ UNCHANGED <<dryer, usb, t, parked, last, open, checked, log>>
  BY DEF Save, Goto, real, account
<1>2. nvs \in Saved /\ loc \in Saved
  BY DEF KeptIInv, Remembered
<1>3. loc.rec \in Records /\ loc.start \in Nat /\ loc.last \in Nat \cup {-1}
  BY <1>2, SavedFields
<1>4. /\ nvs' \in Saved
      /\ pc = "save1" => nvs'.rec = loc.rec
      /\ pc # "save1" => nvs'.rec = nvs.rec
  <2>1. /\ [nvs EXCEPT !.rec = loc.rec] \in Saved
        /\ [nvs EXCEPT !.rec = loc.rec].rec = loc.rec
    BY <1>2, <1>3, SavedFields
  <2>2. /\ [nvs EXCEPT !.start = loc.start] \in Saved
        /\ [nvs EXCEPT !.start = loc.start].rec = nvs.rec
    BY <1>2, <1>3, SavedFields
  <2>3. /\ [nvs EXCEPT !.last = loc.last] \in Saved
        /\ [nvs EXCEPT !.last = loc.last].rec = nvs.rec
    BY <1>2, <1>3, SavedFields
  <2> QED BY <2>1, <2>2, <2>3, <1>1
<1>5. Remembered'
  BY <1>1, <1>4, NothingSaved, StillRemembered DEF KeptIInv, Remembered
<1>6. \A r : (InLog(r)' <=> InLog(r)) /\ (Holding(r) => Holding(r)') /\ (Upcoming(r)' <=> Upcoming(r))
  BY <1>1 DEF InLog, Holding, Upcoming, Under
<1>7. \A r \in saved : InLog(r) \/ (open = None /\ Upcoming(r))
  BY <1>1 DEF KeptIInv, Remembered, Account, InLine
<1>8. \A r : open = None /\ Upcoming(r) => InLine(r)'
  BY <1>1, <1>6 DEF InLine
<1>9. pc = "save1" => Upcoming(loc.rec.run)
  BY DEF KeptIInv, Account
<1>10. \A r : pc = "save1" /\ Upcoming(r) => r = loc.rec.run
  BY <1>9 DEF Upcoming, Under
<1>11. /\ owed' = owed /\ saved \subseteq saved' /\ saved' \subseteq owed
       /\ \A r \in saved' : r \in saved \/ (pc = "save1" /\ open = None /\ r = loc.rec.run)
  BY <1>1 DEF KeptIInv, Account, Delivered
<1>12. \A r \in saved' : InLog(r)' \/ InLine(r)'
  BY <1>6, <1>7, <1>8, <1>9, <1>11
<1>13. \A r \in saved' : InLog(r)' \/ nvs'.rec.run = r
  <2> SUFFICES ASSUME NEW r \in saved', ~InLog(r) PROVE nvs'.rec.run = r
    BY <1>6
  <2>1. CASE pc = "save1"
    BY <2>1, <1>4, <1>7, <1>10, <1>11
  <2>2. CASE pc # "save1"
    BY <2>2, <1>4, <1>11 DEF KeptIInv, Account
  <2> QED BY <2>1, <2>2
<1>14. pc' # "save1"
  BY <1>1
<1> QED BY <1>5, <1>6, <1>11, <1>12, <1>13, <1>14 DEF KeptIInv, Account

LEMMA WipeKeeps ==
  ASSUME KeptIInv, Wipe
  PROVE  KeptIInv'
<1> DEFINE gone == {log[i].run : i \in DOMAIN log}
<1>1. /\ log' = <<>> /\ owed' = owed \ gone /\ saved' = saved \ gone
      /\ UNCHANGED <<dryer, usb, t, parked, last, open, checked, pc, loc, nvs>>
  BY DEF Wipe, Givenup, real
<1>2. \A r : r \in gone <=> InLog(r)
  BY DEF InLog
<1> HIDE DEF gone
<1>3. Remembered'
  <2>1. log' \in Seq(Records)
    BY <1>1
  <2> QED BY <2>1, <1>1, StillRemembered DEF KeptIInv, Remembered
<1>4. \A r : (Holding(r) => Holding(r)') /\ (InLine(r) => InLine(r)') /\ (Upcoming(r)' <=> Upcoming(r))
  BY <1>1 DEF Holding, InLine, Upcoming, Under
<1> QED BY <1>1, <1>2, <1>3, <1>4 DEF KeptIInv, Account

LEMMA PowerKeeps ==
  ASSUME KeptIInv, PowerCut \/ PowerOn
  PROVE  KeptIInv'
<1>1. CASE PowerOn
  <2>1. UNCHANGED <<dryer, usb, t, parked, last, open, checked, pc, loc, nvs, log, owed, saved>>
    BY <1>1 DEF PowerOn, account, ram, disk
  <2>2. Remembered'
    BY <2>1, StillRemembered DEF KeptIInv, Remembered
  <2> QED BY <2>1, <2>2, RecordsStay DEF KeptIInv
<1>2. CASE PowerCut
  <2>1. /\ owed' = saved /\ saved' = saved
        /\ usb' = NoFrame /\ t' = Reset /\ parked' = NoRecord /\ last' = Silent
        /\ open' = None /\ checked' = FALSE /\ pc' = "top" /\ loc' = None
        /\ UNCHANGED <<dryer, nvs, log>>
    BY <1>2 DEF PowerCut, disk
  <2>2. Remembered'
    BY <2>1, NothingInMemory, NothingSaved DEF KeptIInv, Remembered, Does
  <2>3. \A r : InLog(r)' <=> InLog(r)
    BY <2>1 DEF InLog
  <2> QED BY <2>1, <2>2, <2>3 DEF KeptIInv, Account
<1> QED BY <1>1, <1>2

LEMMA KeptInit ==
  ASSUME LogbookInit
  PROVE  KeptIInv
<1>1. /\ dryer \in [program : DOMAIN Programs, run : {0}, screen : {"idle"}, elapsed : {0}]
      /\ owed = {} /\ saved = {}
      /\ usb = NoFrame /\ t = Reset /\ parked = NoRecord /\ last = Silent
      /\ open = None /\ checked = FALSE
      /\ pc = "top" /\ loc = None
      /\ nvs = None /\ log = <<>>
  BY DEF LogbookInit, RamInit
<1>2. /\ dryer.program \in DOMAIN Programs /\ dryer.screen = "idle" /\ dryer \in DryerKinds
  BY <1>1, LogbookAssumption DEF DryerKinds, ScreenKinds
<1>3. "idle" \in DOMAIN Programs[dryer.program].follows
  BY <1>2, LogbookAssumption
<1>4. log \in Seq(Records)
  BY <1>1
<1>5. Remembered
  BY <1>1, <1>2, <1>3, <1>4, NothingInMemory, NothingSaved DEF Remembered, Does, Shown
<1> QED BY <1>1, <1>5 DEF KeptIInv, Account

LEMMA KeptStep ==
  ASSUME KeptIInv, [LogbookNext]_logbookVars
  PROVE  KeptIInv'
<1>1. CASE UNCHANGED logbookVars
  <2>1. UNCHANGED <<dryer, usb, t, parked, last, open, checked, pc, loc, nvs, log, owed, saved>>
    BY <1>1 DEF logbookVars
  <2>2. Remembered'
    BY <2>1, StillRemembered DEF KeptIInv, Remembered
  <2> QED BY <2>1, <2>2, RecordsStay DEF KeptIInv
<1>2. CASE MainLoop
  BY <1>2, LoopGoesOn, PassKeeps, DecideResumeKeeps, ResumeKeeps, DecideCloseKeeps, ClearKeeps,
     TakeParkedKeeps, TakeCheckpointKeeps, WriteKeeps, SaveKeeps DEF MainLoop
<1> QED BY <1>1, <1>2, UnheardKeeps, HearKeeps, TrackKeeps, WipeKeeps, PowerKeeps DEF LogbookNext

(* Whatever the dryer shows and wherever the power is cut, a record that   *)
(* was begun is at hand, or flash has it or its checkpoint, unless it was  *)
(* given up in one of the ways the module names.  (on_inbound, the main    *)
(* loop of main.c, hr_batchstore.c)                                        *)
THEOREM BegunIsKept == LogbookSpec => []RecordsAreKept
<1>1. KeptIInv => RecordsAreKept
  <2> SUFFICES ASSUME KeptIInv PROVE RecordsAreKept
    OBVIOUS
  <2>1. /\ saved \subseteq owed
        /\ \A r \in owed : r \notin saved => Holding(r)
        /\ \A r \in saved : InLog(r) \/ nvs.rec.run = r
    BY DEF KeptIInv, Account
  <2> QED BY <2>1, InLogIs DEF RecordsAreKept, Holding
<1> QED BY <1>1, KeptInit, KeptStep, PTL DEF LogbookSpec

(* Cut the power where you like: no record is lost but in those ways; a run *)
(* the cuts do not bear on has at most one record in the logbook, and a    *)
(* true one; and no checkpoint is left in flash that nothing will erase.   *)
(* The dryers are orderly ones whose counter reads right.  (on_inbound and *)
(* the main loop of main.c)                                                *)
THEOREM CutsAreAccountedFor ==
  ASSUME Orderly(Programs), ~Glitches
  PROVE  LogbookSpec => []RunsAreAccountedFor
<1>1. ASSUME LogbookIInv, KeptIInv PROVE LogbookTypeOK
  <2>1. dryer \in DryerKinds /\ t \in Trackers
    BY <1>1 DEF LogbookIInv, DryerIs, RamIs
  <2>2. t.cur \in Records /\ t.active \in BOOLEAN
    BY <2>1, TrackerFields
  <2>3. usb = NoFrame \/ usb.screen \in ScreenKinds
    BY <1>1 DEF LogbookIInv, RamIs, Frames
  <2>4. parked \in Records /\ (parked # NoRecord => parked.outcome # "running")
    BY <1>1, NothingSaved DEF LogbookIInv, RamIs, Ended
  <2>5. owed \subseteq Runs
    BY <1>1 DEF KeptIInv, Account
  <2> QED BY <1>1, <2>1, <2>2, <2>3, <2>4, <2>5
      DEF LogbookIInv, LogbookTypeOK, DryerIs, DryerKinds, RamIs, Ended
<1>2. ASSUME LogbookIInv PROVE WholeRunsRecordedOnce
  <2> SUFFICES ASSUME NEW r \in Runs \ dark
               PROVE  /\ \A i, j \in Of(r) : i = j
                      /\ \A i \in Of(r) : log[i].outcome = Told(r)
    BY DEF WholeRunsRecordedOnce
  <2>1. \A i, j \in Of(r) : i = j
    BY <1>2 DEF LogbookIInv, Apart, Of, Dark
  <2>2. \A i \in Of(r) : log[i].outcome = Told(r)
    BY <1>2 DEF LogbookIInv, AllRight, Right, Of, Dark
  <2> QED BY <2>1, <2>2
<1>3. ASSUME LogbookIInv PROVE CheckpointHasOwner
  BY <1>3 DEF LogbookIInv, Owner, CheckpointHasOwner
<1>4. LogbookIInv /\ KeptIInv /\ RecordsAreKept => RunsAreAccountedFor
  BY <1>1, <1>2, <1>3 DEF RunsAreAccountedFor
<1>5. LogbookSpec => []KeptIInv
  BY KeptInit, KeptStep, PTL DEF LogbookSpec
<1> QED BY <1>4, <1>5, LogbookInductiveInvariant, BegunIsKept, PTL

(* Time credited to the phases of a run the adapter has power through was   *)
(* counted by the dryer: no gap, jump back or repeated frame becomes phase  *)
(* time.  (hr_batch_observe)                                                *)
THEOREM PhasesTakeRealTime ==
  ASSUME Orderly(Programs), ~Glitches
  PROVE  LogbookSpec => []PhaseTimeIsReal
<1>1. LogbookIInv => PhaseTimeIsReal
  BY DEF LogbookIInv, AllRight, Right, Dark, PhaseTimeIsReal
<1> QED BY <1>1, LogbookInductiveInvariant, PTL
=============================================================================
