------------------------------- MODULE Control -------------------------------
(***************************************************************************)
(* Who may make the dryer do something: the control routes of hr_http.c,   *)
(* the table of hr_control.c, the classes of hr_session.c, the command     *)
(* topic of hr_mqtt.c.  The web server has one worker, so its handlers     *)
(* follow one another; the TinyUSB task (what the dryer reports), the main *)
(* loop (the link times out), the MQTT task and the power do not wait.     *)
(*                                                                         *)
(* A handler that sends a press or a recipe is three steps: its checks,    *)
(* the counter's write to flash, the frame.  Time passes between them.     *)
(*                                                                         *)
(* Time is kept as ages.  One tick stands for half the PIN's lock-out; the *)
(* lock itself is the 32-bit difference now - s_pin_locked_until, which    *)
(* wraps at 2 * Half here.  (The sum that happens to be 0, read as "no     *)
(* lock", is left out.)                                                    *)
(***************************************************************************)
EXTENDS Integers, Sequences, FiniteSets

CONSTANTS
  Screens,      \* the screens the dryer may report
  Timeout,      \* HR_LINK_TIMEOUT_MS, in ticks
  Tries, Lock,  \* PIN_TRIES; PIN_LOCK_MS, in ticks
  Half,         \* half the values of a millisecond counter, 2^31
  Stall,        \* bound: ticks between a handler's checks and its frame
  MaxSeq        \* bound: presses and recipes numbered

ASSUME ControlAssumption ==
  /\ Screens \subseteq Nat /\ 1 \in Screens
  /\ Timeout \in Nat /\ Stall \in Nat /\ MaxSeq \in Nat
  /\ Tries \in Nat \ {0} /\ Half \in Nat /\ Lock \in 1 .. Half

VARIABLES
  tel, age,         \* s_tel.type (NoScreen before the first STAT), its age
  old,              \* history: that STAT is of an earlier USB session
  link, mounted,    \* the session's link; hr_usb_mounted()
  switch, pinSet, seq, slot,   \* flash: hrctl "on", hrpin "pin", hrctl "seq", hrrcp
  fails, lock,      \* s_pin_fails; now - s_pin_locked_until, or NoLock
  guesses, over,    \* history: ages of the wrong PINs compared since the last
                    \* right one, younger than Lock; the last lock has ended
  job,              \* the handler at work, past its checks
  since,            \* history: age of the last STAT that suited the job
  used,             \* history: the highest counter sent
  mq,               \* the MQTT task
  overtaken         \* history: the switch went off under the write it holds
telVars == <<tel, age, old, link, mounted>>
pinVars == <<fails, lock, guesses, over>>
flashVars == <<switch, pinSet, seq, slot>>
jobVars == <<job, since, used>>
mqVars == <<mq, overtaken>>
vars == <<telVars, pinVars, flashVars, jobVars, mqVars>>

NoScreen == -1
NoLock == -1
Idle == [at |-> "idle"]

----------------------------------------------------------------------------
(* hr_control.c: the buttons, <<screen, button>>, by severity               *)
Confirm == {<<1, 8>>, <<1, 9>>, <<1, 10>>, <<2, 1>>, <<7, 1>>, <<7, 3>>, <<7, 5>>}
Destructive == {<<17, 3>>, <<17, 4>>, <<4, 3>>, <<4, 4>>, <<2, 2>>, <<5, 1>>, <<6, 1>>}
Benign == {<<7, 2>>, <<43, 18>>, <<31, 26>>}
Actions == Confirm \cup Destructive \cup Benign

(* hr_control_check, the action looked up already *)
Checked(a, believed, live, confirmed) ==
  /\ live # NoScreen
  /\ believed = live /\ a[1] = live
  /\ a \in Benign \/ confirmed

(* hr_cmd_classify: reads, recoverable writes, and the writes only a recipe  *)
(* frame may carry; everything else is in no class                          *)
Class == [STATUS |-> "safe", FDFILES |-> "safe", SETDATE |-> "config", SETBNAME |-> "config",
          SENDCANDY |-> "config", CLICK |-> "unknown", REBOOT |-> "unknown"]
Verbs == DOMAIN Class
IsRecipeVerb(v) == v \in {"SENDCANDY"}

(* hr_session_send_safe without arguments, hr_session_send_config with       *)
Sendable(v, args) ==
  IF args THEN Class[v] # "unknown" /\ ~IsRecipeVerb(v) ELSE Class[v] = "safe"

----------------------------------------------------------------------------
(* live_screen *)
SlipLive == IF tel # NoScreen /\ link = "up" /\ mounted THEN tel ELSE NoScreen
Live == IF tel # NoScreen /\ link = "up" /\ mounted /\ age <= Timeout THEN tel ELSE NoScreen

RecipeStartAllowed(live) == live \in {1, 31, 43}
StartScreens == {s \in Screens : RecipeStartAllowed(s)}

----------------------------------------------------------------------------
(* pin_check *)

Wrapped(n) == n % (2 * Half)
Negative(n) == n >= Half                   \* as a signed difference
Locked == lock # NoLock /\ Negative(lock)

(* The wrong PIN that reaches the limit is answered, and counted from 0 *)
SlipPinCheck(p) ==
  LET f == IF lock # NoLock THEN 0 ELSE fails
  IN  CASE ~pinSet      -> [ok |-> TRUE, fails |-> fails, lock |-> lock, guessed |-> FALSE]
        [] pinSet /\ Locked
                        -> [ok |-> FALSE, fails |-> fails, lock |-> lock, guessed |-> FALSE]
        [] OTHER        -> [ok |-> p = "right", lock |-> NoLock, guessed |-> p = "wrong",
                            fails |-> IF p = "wrong" THEN (f + 1) % Tries ELSE 0]

PinCheck(p) ==
  LET f == IF lock # NoLock THEN 0 ELSE fails     \* the lock is over: afresh
  IN  CASE ~pinSet -> [ok |-> TRUE, fails |-> fails, lock |-> lock, guessed |-> FALSE]
        [] pinSet /\ Locked ->
             [ok |-> FALSE, fails |-> fails, lock |-> lock, guessed |-> FALSE]
        [] pinSet /\ ~Locked /\ p = "none" ->
             [ok |-> FALSE, fails |-> f, lock |-> NoLock, guessed |-> FALSE]
        [] pinSet /\ ~Locked /\ p = "right" ->
             [ok |-> TRUE, fails |-> 0, lock |-> NoLock, guessed |-> FALSE]
        [] pinSet /\ ~Locked /\ p = "wrong" /\ f + 1 < Tries ->
             [ok |-> FALSE, fails |-> f + 1, lock |-> NoLock, guessed |-> TRUE]
        [] pinSet /\ ~Locked /\ p = "wrong" /\ f + 1 >= Tries ->
             [ok |-> FALSE, fails |-> 0, lock |-> Wrapped(-Lock), guessed |-> TRUE]

Pins == {"none", "right", "wrong"}

(* pin_guard: what the check leaves behind; the request goes on if r.ok *)
PinGuard(r) ==
  /\ fails' = r.fails /\ lock' = r.lock
  /\ guesses' = CASE r.guessed -> Append(guesses, 0)
                  [] r.ok /\ pinSet -> <<>>
                  [] OTHER -> guesses
  /\ over' = ((over /\ r.lock = lock) \/ r.lock = NoLock)

----------------------------------------------------------------------------
Free == job = Idle
Refused == UNCHANGED <<telVars, flashVars, jobVars, mqVars>>

(* The checks of a handler that sends, and the job they let through          *)
Begin(what, screens, counted) ==
  /\ job' = [at |-> IF counted THEN "seq" ELSE "send", what |-> what,
             screens |-> screens, seq |-> 0, waited |-> 0]
  /\ since' = IF screens = {} THEN 0 ELSE age
  /\ UNCHANGED <<telVars, flashVars, used, mqVars>>

Press(p, a, believed, confirmed) ==
  /\ Free /\ switch
  /\ LET r == PinCheck(p)
     IN  /\ PinGuard(r)
         /\ \/ /\ r.ok /\ a \in Actions /\ Checked(a, believed, Live, confirmed)
               /\ Begin("click", {a[1]}, TRUE)
            \/ /\ ~(r.ok /\ a \in Actions /\ Checked(a, believed, Live, confirmed))
               /\ Refused

(* h_recipe_send and h_recipe_apply: from a slot, or given with the request *)
Recipe(p, given, start, confirmed) ==
  LET passes == /\ start => confirmed /\ RecipeStartAllowed(Live)
                /\ Live # NoScreen
                /\ (IF given THEN TRUE ELSE slot = "recipe")
  IN  /\ Free /\ switch
      /\ LET r == PinCheck(p)
         IN  /\ PinGuard(r)
             /\ \/ /\ r.ok /\ passes
                   /\ Begin("recipe", IF start THEN StartScreens ELSE Screens, TRUE)
                \/ (given \/ ~(r.ok /\ passes)) /\ Refused   \* (given and invalid)

(* ... the slot sent; the page's own recipe sent, which nothing keeps *)
RecipeSend(p, start, confirmed) == Recipe(p, FALSE, start, confirmed)
RecipeApply(p, start, confirmed) == Recipe(p, TRUE, start, confirmed)

(* The route that once skipped the switch *)
DryerReboot(p, confirmed) ==
  /\ Free /\ switch
  /\ LET r == PinCheck(p)
     IN  /\ PinGuard(r)
         /\ \/ r.ok /\ confirmed /\ Begin("reboot", {}, FALSE)
            \/ ~(r.ok /\ confirmed) /\ Refused

(* h_cmd.  With the switch off nothing but a read goes on to be sent        *)
Cmd(p, v, args) ==
  LET passes == Class[v] = "safe" \/ (Class[v] = "config" /\ switch)
  IN  /\ Free
      /\ LET r == PinCheck(p)
         IN  /\ PinGuard(r)
             /\ \/ /\ r.ok /\ passes /\ Sendable(v, args)
                   /\ Begin(IF Class[v] = "safe" THEN "read" ELSE "write", {}, FALSE)
                \/ ~(r.ok /\ passes /\ Sendable(v, args)) /\ Refused

(* A write that fails leaves either value: it may have reached flash        *)
Stored(old_, new, ok) == IF ok THEN {new} ELSE {old_, new}

(* h_control_enable, h_pin_set, h_recipe_save, h_recipe_delete, pin/verify:  *)
(* a guarded write, done when the handler answers                           *)
ControlEnable(p, on) ==
  /\ Free
  /\ LET r == PinCheck(p)
     IN  /\ PinGuard(r)
         /\ IF r.ok THEN \E ok \in BOOLEAN : switch' \in Stored(switch, on, ok)
                    ELSE UNCHANGED switch
  /\ overtaken' = (~switch' /\ mq = "write" /\ (switch \/ overtaken))
  /\ UNCHANGED <<telVars, pinSet, seq, slot, jobVars, mq>>

(* A new PIN that is neither empty nor 4 to 8 digits is refused *)
PinChange(p, new) ==
  /\ Free
  /\ LET r == PinCheck(p)
     IN  /\ PinGuard(r)
         /\ IF r.ok /\ new # "malformed"
              THEN \E ok \in BOOLEAN : pinSet' \in Stored(pinSet, new = "digits", ok)
              ELSE UNCHANGED pinSet
  /\ UNCHANGED <<telVars, switch, seq, slot, jobVars, mqVars>>

PinVerify(p) == Free /\ PinGuard(PinCheck(p)) /\ Refused

RecipeStore(p, r2, valid) ==
  /\ Free
  /\ LET r == PinCheck(p)
     IN  /\ PinGuard(r)
         /\ IF r.ok /\ valid THEN \E ok \in BOOLEAN : slot' \in Stored(slot, r2, ok)
                             ELSE UNCHANGED slot
  /\ UNCHANGED <<telVars, switch, pinSet, seq, jobVars, mqVars>>

RecipeSave(p, valid) == RecipeStore(p, "recipe", valid)
RecipeDelete(p) == RecipeStore(p, "none", TRUE)

----------------------------------------------------------------------------
(* ctrl_next_seq: the value is stored before it is used, or it is not used  *)
SlipTakeSeq ==
  /\ job.at = "seq" /\ seq < MaxSeq
  /\ seq' \in {seq, seq + 1}
  /\ job' = [job EXCEPT !.at = "send", !.seq = seq + 1]
  /\ UNCHANGED <<telVars, pinVars, switch, pinSet, slot, since, used, mqVars>>

TakeSeq ==
  /\ job.at = "seq" /\ seq < MaxSeq
  /\ \/ seq' = seq + 1 /\ job' = [job EXCEPT !.at = "send", !.seq = seq + 1] /\ UNCHANGED since
     \/ seq' \in {seq, seq + 1} /\ job' = Idle /\ since' = 0
  /\ UNCHANGED <<telVars, pinVars, switch, pinSet, slot, used, mqVars>>

(* hr_session_send, hr_session_send_raw: the transport may refuse *)
SendFrame ==
  /\ job.at = "send" /\ job' = Idle /\ since' = 0
  /\ \/ mounted /\ job.seq # 0 /\ used' = job.seq
     \/ UNCHANGED used
  /\ UNCHANGED <<telVars, pinVars, flashVars, mqVars>>

(* The MQTT task: handle_cmd looks at the class and at the switch, then      *)
(* sends; it has no PIN, waits for no handler and does not look again.  (The *)
(* batch name's own topic is SETBNAME.)                                      *)
MqttTakes(v) ==
  mq' = IF Sendable(v, TRUE) THEN (IF Class[v] = "safe" THEN "read" ELSE "write") ELSE "idle"

(* The topic that once had no gate of its own *)
SlipMqttMessage(v) ==
  /\ mq = "idle" /\ MqttTakes(v)
  /\ UNCHANGED <<telVars, pinVars, flashVars, jobVars, overtaken>>

MqttMessage(v) ==
  /\ mq = "idle" /\ (Class[v] = "safe" \/ switch) /\ MqttTakes(v)
  /\ UNCHANGED <<telVars, pinVars, flashVars, jobVars, overtaken>>

MqttSend ==
  /\ mq # "idle" /\ mq' = "idle" /\ overtaken' = FALSE
  /\ UNCHANGED <<telVars, pinVars, flashVars, jobVars>>

----------------------------------------------------------------------------
(* The dryer, the bus, the clock and the power *)

Stat(s) ==
  /\ mounted
  /\ tel' = s /\ age' = 0 /\ old' = FALSE /\ link' = "up"
  /\ since' = IF job # Idle /\ s \in job.screens THEN 0 ELSE since
  /\ UNCHANGED <<mounted, pinVars, flashVars, job, used, mqVars>>

(* Any other frame keeps the link up and brings no screen *)
OtherFrame ==
  /\ mounted /\ link' = "up"
  /\ UNCHANGED <<tel, age, old, mounted, pinVars, flashVars, jobVars, mqVars>>

LinkLost ==
  /\ link = "up" /\ age > Timeout /\ link' = "down"
  /\ UNCHANGED <<tel, age, old, mounted, pinVars, flashVars, jobVars, mqVars>>

Mounts ==
  /\ mounted' = ~mounted /\ old' = (old \/ ~mounted' \/ tel = NoScreen)
  /\ UNCHANGED <<tel, age, link, pinVars, flashVars, jobVars, mqVars>>

AgeMax == Timeout + Stall + 1
Older(a, most) == IF a < most THEN a + 1 ELSE most

(* A tick later the oldest guesses, which come first, are a lock-out's time  *)
(* ago and no longer counted                                                *)
Recent ==
  LET young == Cardinality({i \in DOMAIN guesses : guesses[i] + 1 < Lock})
  IN  [i \in 1 .. young |-> guesses[Len(guesses) - young + i] + 1]

Tick ==
  /\ job # Idle => job.waited < Stall
  /\ job' = IF job = Idle THEN Idle ELSE [job EXCEPT !.waited = @ + 1]
  /\ age' = IF tel = NoScreen THEN 0 ELSE Older(age, AgeMax)
  /\ since' = IF job = Idle \/ job.screens = {} THEN 0 ELSE Older(since, AgeMax)
  /\ lock' = IF lock = NoLock THEN NoLock ELSE Wrapped(lock + 1)
  /\ over' = (over \/ lock' = 0)
  /\ guesses' = Recent
  /\ UNCHANGED <<tel, old, link, mounted, flashVars, fails, used, mqVars>>

Restart ==
  /\ tel' = NoScreen /\ age' = 0 /\ old' = TRUE /\ link' = "down" /\ mounted' = FALSE
  /\ fails' = 0 /\ lock' = NoLock /\ guesses' = <<>> /\ over' = TRUE
  /\ job' = Idle /\ since' = 0 /\ mq' = "idle" /\ overtaken' = FALSE
  /\ UNCHANGED <<flashVars, used>>

----------------------------------------------------------------------------
Init ==
  /\ tel = NoScreen /\ age = 0 /\ old = TRUE /\ link = "down" /\ mounted = FALSE
  /\ fails = 0 /\ lock = NoLock /\ guesses = <<>> /\ over = TRUE
  /\ switch \in BOOLEAN /\ pinSet \in BOOLEAN /\ seq = 0 /\ slot \in {"none", "recipe"}
  /\ job = Idle /\ since = 0 /\ used = 0 /\ mq = "idle" /\ overtaken = FALSE

(* What a page may ask for: a button of a screen it shows, or of none *)
Buttons == {a \in Actions : a[1] \in Screens} \cup {<<0, 0>>}

Handler ==
  \E p \in Pins :
    \/ \E a \in Buttons, s \in Screens, c \in BOOLEAN : Press(p, a, s, c)
    \/ \E s, c \in BOOLEAN : RecipeSend(p, s, c) \/ RecipeApply(p, s, c)
    \/ \E c \in BOOLEAN : DryerReboot(p, c)
    \/ \E v \in Verbs, args \in BOOLEAN : Cmd(p, v, args)
    \/ \E on \in BOOLEAN : ControlEnable(p, on)
    \/ \E new \in {"none", "digits", "malformed"} : PinChange(p, new)
    \/ PinVerify(p)
    \/ \E valid \in BOOLEAN : RecipeSave(p, valid)
    \/ RecipeDelete(p)

Next ==
  \/ Handler \/ TakeSeq \/ SendFrame
  \/ \E v \in Verbs : MqttMessage(v)
  \/ MqttSend
  \/ \E s \in Screens : Stat(s)
  \/ OtherFrame \/ LinkLost \/ Mounts \/ Tick \/ Restart

Spec == Init /\ [][Next]_vars

----------------------------------------------------------------------------
TypeOK ==
  /\ tel \in Screens \cup {NoScreen} /\ age \in 0 .. AgeMax
  /\ link \in {"up", "down"} /\ mq \in {"idle", "read", "write"}
  /\ seq \in 0 .. MaxSeq /\ slot \in {"none", "recipe"}
  /\ fails \in 0 .. Tries - 1 /\ lock \in {NoLock} \cup 0 .. 2 * Half - 1
  /\ job # Idle => /\ job.at \in {"seq", "send"} /\ job.seq \in 0 .. MaxSeq
                   /\ job.screens \subseteq Screens /\ job.waited \in 0 .. Stall

(* The dryer takes a repeated counter for a retry and ignores it: the number *)
(* on a frame about to go out is above every number that went out before,    *)
(* and flash already holds it, so that no restart will hand it out again.    *)
CounterIsFresh ==
  (job.at = "send" /\ job.what \in {"click", "recipe"}) => used < job.seq /\ job.seq <= seq

(* The counter on the wire, in flash and in the job at hand fit together.   *)
CounterSound == TypeOK /\ CounterIsFresh

(* A press, or a recipe, is sent for a screen the dryer reported at most     *)
(* HR_LINK_TIMEOUT_MS before the checks, however long flash then took: never *)
(* for a screen last seen before a silence.                                  *)
CommandIsTimely ==
  (job # Idle /\ job.screens # {}) => since <= Timeout + job.waited

(* While the switch is off no handler of the web server is on its way to     *)
(* change the machine, and the broker's side is with one command at most: the *)
(* one that had passed its check when the switch went off.                   *)
HandlersObey == (job # Idle /\ job.what # "read") => switch
BrokerObeys == mq = "write" => switch \/ overtaken
SwitchHolds == HandlersObey /\ BrokerObeys

(* However the requests are timed, no more than PIN_TRIES wrong PINs are     *)
(* compared within one lock-out's time.                                      *)
GuessesThrottled == Len(guesses) <= Tries

(* "wait a minute" (pin_guard): a lock that has ended stays ended.           *)
LockEnds == over => ~Locked

(* "after the dryer rebooted ... a CLICK was still built against the screen  *)
(* last seen" is what live_screen says it prevents.                          *)
NothingFromBeforeTheReboot ==
  [][(job.at = "idle" /\ job'.at # "idle" /\ job'.screens # {}) => ~old]_vars

(* Not kept: "they follow the same 'control enabled' switch as the web UI"   *)
(* (handle_cmd).  A handler cannot be overtaken by the switch, the MQTT task *)
(* can: between its check and its frame the page may turn the switch off.    *)
SwitchStopsTheBroker == mq = "write" => switch
=============================================================================
