-------------------------------- MODULE Link --------------------------------
(***************************************************************************)
(* The conversation with the dryer: hr_session.c over hr_usb.c (UsbPort),  *)
(* the handshake of main.c's loop and the firmware switch of hr_compat.c.  *)
(* Three tasks meet here: the TinyUSB task hands over what the dryer sent, *)
(* the main loop lets the link time out, says hello and keeps the          *)
(* heartbeat, the web server stores the owner's choice and sends commands. *)
(*                                                                         *)
(* Time is kept as ages: ageRx since the last frame, ageT since the main   *)
(* loop read its clock.  Both stop at a bound past which nothing differs.  *)
(***************************************************************************)
EXTENDS UsbPort, Sequences

CONSTANTS
  MainLoop, Web,      \* the other two senders
  Hello,              \* the verbs of the handshake, in order
  Reask,              \* FDNAME, REQCFG, STATUS: asked again until answered
  Timeout,            \* HR_LINK_TIMEOUT_MS
  LoopAge             \* bound: how long a pass of the loop is held up

ASSUME LinkAssumption ==
  /\ Senders = {UsbTask, MainLoop, Web} /\ Cardinality(Senders) = 3
  /\ Timeout \in Nat /\ LoopAge \in Nat
  /\ Hello \in Seq(STRING) /\ Reask \in Seq(STRING)
  /\ \E i \in DOMAIN Hello : Hello[i] = "UNIQUE"

VARIABLES
  link, ageRx,        \* session: link, last_rx_ms
  tag,                \* session: compat.unique_tag, and compat.reask with it
  on, changed, explicit, nvs,   \* hr_compat: s_on, s_changed, s_explicit, flash
  autoReq,            \* s_compat_auto_req
  upc,                \* the TinyUSB task, between two of its callbacks' steps
  mpc, ageT, up, step, todo,         \* the main loop
  hpc,                \* the web server's task
  told,               \* history: the variant of the UNIQUE queued in this session
  refused,            \* history: a frame of the last hello did not go out
  choice, late        \* history: the owner's last answer, and whether the
                      \* automatic rule was already at work when it came
sesVars == <<link, ageRx>>
compatVars == <<on, changed, explicit, nvs>>
mainVars == <<mpc, ageT, up, step, todo, tag>>
ghosts == <<told, refused, choice, late>>
vars == <<portVars, sesVars, compatVars, autoReq, upc, mainVars, hpc, ghosts>>

(* hr_session_init, hr_compat_init and app_main, given what flash holds *)
Boot(stored) ==
  [on |-> stored = "on", explicit |-> stored # "none", choice |-> stored]

Init ==
  /\ PortInit
  /\ link = "down" /\ ageRx = 0 /\ tag = FALSE
  /\ nvs \in {"none", "on", "off"}
  /\ on = Boot(nvs).on /\ explicit = Boot(nvs).explicit /\ changed = TRUE
  /\ autoReq = FALSE /\ upc = "idle" /\ hpc = "idle"
  /\ mpc = "read" /\ ageT = 0 /\ up = FALSE /\ step = 0
  /\ todo = <<>>
  /\ told = "no" /\ refused = FALSE /\ choice = Boot(nvs).choice /\ late = FALSE

----------------------------------------------------------------------------
(* The TinyUSB task.  A frame came whole out of the stream: on_frame, with  *)
(* main.c's on_inbound as its observer.                                     *)

UsbIdle == upc = "idle" /\ Out(UsbTask)

Kinds == {"REQINFO", "NEWUID", "other"}

(* The rule looks at the choice before it asks for the switch *)
SlipLooks == ~on
Looks == ~on /\ ~explicit

RxFrame(k) ==
  /\ UsbIdle /\ mounted
  /\ link' = "up" /\ ageRx' = 0
  /\ upc' = CASE k = "REQINFO"           -> "reply"
              [] k = "NEWUID" /\ Looks   -> "ask"
              [] OTHER                   -> "idle"
  /\ UNCHANGED <<portVars, compatVars, autoReq, mainVars, hpc, ghosts>>

AskForSwitch ==
  /\ upc = "ask"
  /\ autoReq' = TRUE /\ upc' = "idle"
  /\ UNCHANGED <<portVars, sesVars, compatVars, mainVars, hpc, ghosts>>

(* send_wifiinfo *)
Reply ==
  /\ upc = "reply" /\ upc' = "idle"
  /\ TxEnter(UsbTask) \/ TxNobody(UsbTask)
  /\ UNCHANGED <<sesVars, compatVars, autoReq, mainVars, hpc, ghosts>>

UsbTx ==
  /\ \/ TxLock(UsbTask) \/ TxBusy(UsbTask) \/ TxQueue(UsbTask)
     \/ TxNoRoom(UsbTask) \/ TxDone(UsbTask)
  /\ UNCHANGED <<sesVars, compatVars, autoReq, upc, mainVars, hpc, ghosts>>

Bus ==
  /\ \/ upc = "idle" /\ Mount /\ UNCHANGED told
     \/ upc = "idle" /\ Umount /\ told' = "no"
     \/ HostReads /\ UNCHANGED told
  /\ UNCHANGED <<sesVars, compatVars, autoReq, upc, mainVars, hpc, refused, choice, late>>

----------------------------------------------------------------------------
(* hr_compat_set_644170: three atomics, then flash, which may fail *)

SetRam(v) == on' = v /\ changed' = TRUE /\ explicit' = TRUE
SetNvs(v) == nvs' \in {nvs, IF v THEN "on" ELSE "off"}

(* h_compat_post: the owner's answer *)
Post(v) ==
  /\ hpc = "idle" /\ Out(Web)
  /\ SetRam(v) /\ choice' = (IF v THEN "on" ELSE "off")
  /\ late' = (autoReq \/ upc = "ask" \/ mpc = "autoSet")
  /\ hpc' = IF v THEN "storeOn" ELSE "storeOff"
  /\ UNCHANGED <<portVars, sesVars, nvs, autoReq, upc, mainVars, told, refused>>

PostStore ==
  /\ hpc \in {"storeOn", "storeOff"}
  /\ SetNvs(hpc = "storeOn") /\ hpc' = "idle"
  /\ UNCHANGED <<portVars, sesVars, on, changed, explicit, autoReq, upc, mainVars, ghosts>>

(* A command from the web page or the recipe form *)
Command ==
  /\ hpc = "idle"
  /\ TxEnter(Web) \/ TxNobody(Web)
  /\ UNCHANGED <<sesVars, compatVars, autoReq, upc, mainVars, hpc, ghosts>>

WebTx ==
  /\ \/ TxLock(Web) \/ TxBusy(Web) \/ TxQueue(Web) \/ TxNoRoom(Web) \/ TxDone(Web)
  /\ UNCHANGED <<sesVars, compatVars, autoReq, upc, mainVars, hpc, ghosts>>

----------------------------------------------------------------------------
(* The main loop, every 250 ms *)

ReadClock ==
  /\ mpc = "read" /\ mpc' = "tick" /\ ageT' = 0
  /\ UNCHANGED <<portVars, sesVars, tag, compatVars, autoReq, upc, hpc, ghosts,
                 up, step, todo>>

(* now_ms - last_rx_ms, unsigned: a frame later than the clock reading is an *)
(* age before zero, and so a very large one                                  *)
TimedOut == ageRx - ageT > Timeout \/ ageRx < ageT

Tick ==
  /\ mpc = "tick" /\ mpc' = "mounts" /\ ageT' = 0
  /\ link' = IF link = "up" /\ TimedOut THEN "down" ELSE link
  /\ ageRx' = IF link' = "up" THEN ageRx ELSE 0
  /\ UNCHANGED <<portVars, tag, compatVars, autoReq, upc, hpc, ghosts,
                 up, step, todo>>

PortButNewMount == <<mounted, queued, stale, txLock, at, fresh>>

(* A new enumeration is noticed only with the link going down *)
SlipSeeMounts ==
  /\ mpc = "mounts" /\ mpc' = "auto"
  /\ up' = (link = "up") /\ newMount' = FALSE
  /\ UNCHANGED <<PortButNewMount, sesVars, tag, compatVars, autoReq, upc, hpc, ghosts,
                 ageT, step, todo>>

(* Fresh CDC session: the dryer has forgotten us *)
SeeMounts ==
  /\ mpc = "mounts" /\ mpc' = "auto"
  /\ up' = (link = "up") /\ newMount' = FALSE
  /\ step' = IF newMount THEN 0 ELSE step
  /\ UNCHANGED <<PortButNewMount, sesVars, tag, compatVars, autoReq, upc, hpc, ghosts,
                 ageT, todo>>

AutoTake ==
  /\ mpc = "auto" /\ mpc' = IF autoReq THEN "autoSet" ELSE "changed"
  /\ autoReq' = FALSE
  /\ UNCHANGED <<portVars, sesVars, tag, compatVars, upc, hpc, ghosts,
                 ageT, up, step, todo>>

AutoSet ==
  /\ mpc = "autoSet" /\ mpc' = "autoStore" /\ SetRam(TRUE)
  /\ UNCHANGED <<portVars, sesVars, tag, nvs, autoReq, upc, hpc, ghosts,
                 ageT, up, step, todo>>

AutoStore ==
  /\ mpc = "autoStore" /\ mpc' = "changed" /\ SetNvs(TRUE)
  /\ UNCHANGED <<portVars, sesVars, tag, on, changed, explicit, autoReq, upc, hpc,
                 ghosts, ageT, up, step, todo>>

(* hr_session_heartbeat: what is asked again is what has no answer yet *)
Heartbeats == {<<"STATE">> \o q : q \in IF tag THEN {<<>>, Reask} ELSE {<<>>}}

StartsOver == changed

(* hr_compat_take_changed and hr_session_set_compat.  Then: nothing while the *)
(* link is down; the introduction, in one pass; 15 s after the last frame of  *)
(* it, or of a heartbeat, a heartbeat                                         *)
Greet ==
  LET now == IF StartsOver THEN 0 ELSE step
  IN  /\ mpc = "changed" /\ up' = FALSE
      /\ changed' = FALSE /\ tag' = IF changed THEN on ELSE tag
      /\ \/ ~up /\ step' = 0 /\ mpc' = "read" /\ UNCHANGED <<todo, refused>>
         \/ /\ up /\ now < Len(Hello)
            /\ step' = Len(Hello) /\ todo' = Hello /\ mpc' = "send" /\ refused' = FALSE
         \/ /\ up /\ now = Len(Hello)
            /\ todo' \in Heartbeats /\ mpc' = "send" /\ UNCHANGED <<step, refused>>
         \/ /\ up /\ now = Len(Hello)
            /\ mpc' = "read" /\ UNCHANGED <<step, todo, refused>>
  /\ UNCHANGED <<portVars, sesVars, on, explicit, nvs, autoReq, upc, hpc, told, choice,
                 late, ageT>>

(* The frame at the head of todo is dealt with *)
Dealt == todo' = Tail(todo) /\ mpc' = IF Len(todo) = 1 THEN "read" ELSE "send"

SendNext ==
  /\ mpc = "send" /\ Out(MainLoop)
  /\ \/ TxEnter(MainLoop) /\ UNCHANGED <<todo, mpc, refused>>
     \/ TxNobody(MainLoop) /\ Dealt /\ refused' = TRUE
  /\ UNCHANGED <<sesVars, tag, compatVars, autoReq, upc, hpc, told, choice, late,
                 ageT, up, step>>

MainTx ==
  /\ \/ TxLock(MainLoop) /\ UNCHANGED <<todo, mpc, refused, told>>
     \/ /\ TxQueue(MainLoop) /\ UNCHANGED <<todo, mpc, refused>>
        /\ told' = IF Head(todo) = "UNIQUE" /\ fresh[MainLoop]
                    THEN (IF tag THEN "tag" ELSE "plain") ELSE told
     \/ TxDone(MainLoop) /\ Dealt /\ UNCHANGED <<refused, told>>
     \/ (TxBusy(MainLoop) \/ TxNoRoom(MainLoop)) /\ Dealt /\ refused' = TRUE /\ UNCHANGED told
  /\ UNCHANGED <<sesVars, tag, compatVars, autoReq, upc, hpc, choice, late,
                 ageT, up, step>>

----------------------------------------------------------------------------
(* Time, and the power *)

Saturated(a, n) == IF a < n THEN a + 1 ELSE n

Clock ==
  /\ mpc = "tick" => ageT < LoopAge
  /\ ageRx' = IF link = "up" THEN Saturated(ageRx, Timeout + LoopAge + 1) ELSE 0
  /\ ageT' = IF mpc = "tick" THEN ageT + 1 ELSE ageT
  /\ UNCHANGED <<portVars, link, tag, compatVars, autoReq, upc, hpc, ghosts,
                 mpc, up, step, todo>>

Restart ==
  /\ PortReset
  /\ link' = "down" /\ ageRx' = 0 /\ tag' = FALSE
  /\ on' = Boot(nvs).on /\ explicit' = Boot(nvs).explicit /\ changed' = TRUE
  /\ autoReq' = FALSE /\ upc' = "idle" /\ hpc' = "idle"
  /\ mpc' = "read" /\ ageT' = 0 /\ up' = FALSE /\ step' = 0
  /\ todo' = <<>>
  /\ told' = "no" /\ refused' = FALSE /\ choice' = Boot(nvs).choice /\ late' = FALSE
  /\ UNCHANGED nvs

----------------------------------------------------------------------------
MainStep ==
  \/ ReadClock \/ Tick \/ SeeMounts \/ AutoTake \/ AutoSet \/ AutoStore
  \/ Greet \/ SendNext \/ MainTx

UsbStep == AskForSwitch \/ Reply \/ UsbTx
WebStep == PostStore \/ WebTx

Next ==
  \/ MainStep \/ UsbStep \/ WebStep \/ Bus \/ Clock \/ Restart
  \/ \E k \in Kinds : RxFrame(k)
  \/ \E v \in BOOLEAN : Post(v)
  \/ Command

Spec == Init /\ [][Next]_vars

(* FreeRTOS runs every ready task, and a mutex waiter gets its turn *)
FairSpec == Spec /\ WF_vars(MainStep) /\ WF_vars(UsbStep) /\ WF_vars(WebStep)

----------------------------------------------------------------------------
TypeOK ==
  /\ mounted \in BOOLEAN /\ newMount \in BOOLEAN /\ queued \in 0 .. FifoCap
  /\ txLock \in Senders \cup {NoSender}
  /\ at \in [Senders -> {"out", "lock", "queue", "flush"}]
  /\ \A s \in Senders : (at[s] \in {"queue", "flush"}) <=> txLock = s
  /\ link \in {"up", "down"} /\ step \in 0 .. Len(Hello)
  /\ mpc = "send" <=> todo # <<>>

(* Whenever a pass of the loop is over and the dryer is there, it has been   *)
(* introduced to in THIS session and with the variant in force - or a frame  *)
(* of the introduction did not go out, or the loop has yet to see a change.  *)
Introduced ==
  (mpc = "read" /\ step = Len(Hello) /\ mounted /\ ~newMount /\ ~refused)
    => told = (IF tag THEN "tag" ELSE "plain")

(* The loop's place in the introduction, the lock of the queue and the frame *)
(* it has in hand fit together, and so does what the dryer has been told.    *)
IntroductionSound == TypeOK /\ Introduced

(* A queue that was cleared when the host went away holds nothing of an      *)
(* earlier session, whoever was waiting for what: only a sender that had     *)
(* looked at s_mounted before and queued after can leave a frame behind.     *)
OnlyALateSenderLeavesAFrame ==
  [][(stale' /\ ~stale) =>
       \E s \in Senders : at[s] = "queue" /\ at'[s] = "flush" /\ ~fresh[s]]_vars

(* The switch is what the owner last said, unless the automatic rule was     *)
(* already at work when they said it; the flag handed to the session follows *)
(* it as soon as the change is taken up.                                     *)
ChoiceStands ==
  /\ (choice # "none" /\ ~late) => on = (choice = "on")
  /\ ~changed => tag = on

(* A deliberate "off" is not undone (main.c:237-241), auto-detection must    *)
(* not override it later (hr_compat.c).                                      *)
OffIsNotUndone == choice = "off" => ~on

(* The link is given up only after Timeout without a frame (hr_session.h).   *)
DownOnlyWhenSilent ==
  [][(link = "up" /\ link' = "down" /\ mpc' = "mounts") => ageRx > Timeout]_vars

(* A dryer that stays and keeps talking is introduced to: the loop never     *)
(* rests believing it has done so.                                           *)
HelloHappens ==
  (mounted /\ link = "up") ~> (~mounted \/ link = "down" \/ refused \/ told # "no")
=============================================================================
