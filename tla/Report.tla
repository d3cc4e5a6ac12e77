-------------------------------- MODULE Report --------------------------------
(***************************************************************************)
(* What is told of the dryer: each STAT frame goes from the TinyUSB task   *)
(* (main.c's on_inbound) to the phase tracker of hr_telemetry.c, to the    *)
(* web server's copy of it (hr_http_set_tracker) and to the queue of Mqtt. *)
(* The main loop lets a stale run expire and copies the tracker again.     *)
(* The tracker itself has no lock; the copy has.                           *)
(*                                                                         *)
(* The dryer's counter is only compared with the one the tracker kept, so  *)
(* a frame is its kind of screen and how its counter compares.  Time is    *)
(* kept as ages, which stop past the last bound that is looked at.         *)
(***************************************************************************)
EXTENDS Mqtt, Integers

CONSTANTS
  Stale,        \* HR_RUN_STALE_MS
  LoopAge       \* bound: the time from one pass of the loop to the next

ASSUME ReportAssumption == Stale \in Nat /\ LoopAge \in Nat

VARIABLES
  tr,           \* s_tracker: have, whether last_elapsed is one the dryer sent,
                \* running, and the age of last_change_ms
  shown,        \* the web server's copy of running
  upc,          \* the TinyUSB task
  mpc, ageT,    \* the main loop, and the age of its t
  moved,        \* history: age of the last report whose counter had gone
                \* forward, or back, since the one before
  guessed       \* history: the first counter came after a screen without one
teleVars == <<tr, shown, upc, mpc, ageT, moved, guessed>>
vars == <<mqttVars, teleVars>>

AgeMax == Stale + 2 * LoopAge + 1
Older(a) == IF a < AgeMax THEN a + 1 ELSE AgeMax

(* hr_phase_tracker_init *)
NewTracker == [have |-> FALSE, known |-> FALSE, running |-> FALSE, age |-> 0]

(* hr_telemetry_from_stat: the screens the tracker tells apart.  A frame too *)
(* short, or of another verb, yields nothing.                               *)
Kinds == {"prep", "purge", "batch"}
Compared == {"above", "equal", "below"}

(* Against a counter never set (-1) any counter is above *)
Comparison(t, cmp) == IF t.known THEN cmp ELSE "above"

Adopt(t) == [have |-> TRUE, known |-> TRUE, running |-> FALSE, age |-> 0]

(* The pump's purge counts for a run *)
SlipUpdated(t, kind, cmp) ==
  CASE kind = "prep" -> [t EXCEPT !.have = TRUE]
    [] kind = "purge" -> [t EXCEPT !.have = TRUE, !.known = TRUE, !.age = 0]
    [] OTHER -> [t EXCEPT !.have = TRUE, !.known = TRUE,
                   !.running = (t.have /\ (cmp = "above" \/ (t.running /\ t.age <= Stale))),
                   !.age = IF cmp = "equal" THEN t.age ELSE 0]

(* hr_phase_tracker_update *)
Updated(t, kind, cmp) ==
  CASE kind = "prep" -> [t EXCEPT !.have = TRUE]
    [] kind = "purge" -> Adopt(t)
    [] kind = "batch" /\ ~t.have -> Adopt(t)
    [] kind = "batch" /\ t.have /\ cmp = "above" ->
         [t EXCEPT !.known = TRUE, !.running = TRUE, !.age = 0]
    [] kind = "batch" /\ t.have /\ cmp = "below" -> [t EXCEPT !.age = 0]
    [] kind = "batch" /\ t.have /\ cmp = "equal" ->
         [t EXCEPT !.running = t.running /\ t.age <= Stale]

----------------------------------------------------------------------------
(* The TinyUSB task: on_inbound for a STAT *)

Stat(kind, cmp) ==
  /\ upc = "idle" /\ upc' = "copy"
  /\ tr' = Updated(tr, kind, Comparison(tr, cmp))
  /\ moved' = IF kind = "batch" /\ tr.known /\ cmp # "equal" THEN 0 ELSE moved
  /\ guessed' = IF kind = "purge" \/ (kind = "batch" /\ (cmp # "equal" \/ ~tr.known))
                  THEN kind = "batch" /\ tr.have /\ ~tr.known
                  ELSE guessed
  /\ UNCHANGED <<mqttVars, shown, mpc, ageT>>

(* hr_http_set_telemetry, hr_http_set_tracker, hr_mqtt_publish_telemetry *)
Tell ==
  /\ upc = "copy" /\ upc' = "idle" /\ shown' = tr.running
  /\ PublishTelemetry
  /\ UNCHANGED <<tr, mpc, ageT, moved, guessed>>

----------------------------------------------------------------------------
(* The main loop *)

ReadClock ==
  /\ mpc = "read" /\ mpc' = "tick" /\ ageT' = 0
  /\ UNCHANGED <<mqttVars, tr, shown, upc, moved, guessed>>

(* now_ms - last_change_ms, unsigned: a change later than t is far in the past *)
Expired == tr.age - ageT > Stale \/ tr.age < ageT

(* hr_phase_tracker_tick looks, then writes: the TinyUSB task may be between *)
TickLook ==
  /\ mpc = "tick"
  /\ mpc' = IF tr.have /\ tr.running /\ Expired THEN "clear" ELSE "copy"
  /\ UNCHANGED <<mqttVars, tr, shown, upc, ageT, moved, guessed>>

TickClear ==
  /\ mpc = "clear" /\ mpc' = "copy"
  /\ tr' = [tr EXCEPT !.running = FALSE]
  /\ UNCHANGED <<mqttVars, shown, upc, ageT, moved, guessed>>

CopyTracker ==
  /\ mpc = "copy" /\ mpc' = "read" /\ shown' = tr.running
  /\ UNCHANGED <<mqttVars, tr, upc, ageT, moved, guessed>>

Clock ==
  /\ ageT < LoopAge /\ ageT' = ageT + 1
  /\ tr' = [tr EXCEPT !.age = IF tr.running THEN Older(@) ELSE 0]
  /\ moved' = Older(moved)
  /\ UNCHANGED <<mqttVars, shown, upc, mpc, guessed>>

----------------------------------------------------------------------------
Init ==
  /\ MqttInit
  /\ tr = NewTracker /\ shown = FALSE /\ upc = "idle" /\ mpc = "read" /\ ageT = 0
  /\ moved = AgeMax /\ guessed = FALSE

Publisher ==
  /\ \/ PubTask \/ Configure \/ WebTask
     \/ \E c \in Clients : Connected(c) \/ Handler(c) \/ Disconnected(c)
  /\ UNCHANGED teleVars

Next ==
  \/ \E k \in Kinds, c \in Compared : Stat(k, c)
  \/ Tell
  \/ ReadClock \/ TickLook \/ TickClear \/ CopyTracker \/ Clock
  \/ Publisher

Spec == Init /\ [][Next]_vars
FairSpec == Spec /\ MqttFairness

----------------------------------------------------------------------------
TypeOK ==
  /\ MqttTypeOK
  /\ tr \in [have : BOOLEAN, known : BOOLEAN, running : BOOLEAN, age : 0 .. AgeMax]
  /\ tr.known => tr.have
  /\ shown \in BOOLEAN /\ upc \in {"idle", "copy"}
  /\ mpc \in {"read", "tick", "clear", "copy"} /\ ageT \in 0 .. LoopAge

(* "Running" is said only of a counter that has moved within HR_RUN_STALE_MS *)
(* (and two passes of the loop): the five minutes a pump's purge counts, and the *)
(* total of a run that is over, are never called a run - unless the first    *)
(* frame after a boot was one the counter is not read from.                 *)
RunningIsReal ==
  tr.running => moved <= Stale + 2 * LoopAge \/ guessed

(* Two tasks copy the tracker for the web page, and one of them changes it   *)
(* under the other's eyes: with both at rest the copy is right.             *)
CopyIsCurrent == (upc # "copy" /\ mpc # "copy") => shown = tr.running

(* What the page is told of a run is so: the tracker is right, and with both *)
(* tasks at rest the page has its word, though each writes the other's.     *)
ShownRunIsReal == TypeOK /\ RunningIsReal /\ CopyIsCurrent

(* "First frame: adopt the value but do NOT claim a run"                    *)
(* (hr_phase_tracker_update)                                               *)
FirstValueIsNoRun == [][(~tr.known /\ tr'.known) => ~tr'.running]_vars
=============================================================================
