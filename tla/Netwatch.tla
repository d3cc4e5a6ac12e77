------------------------------ MODULE Netwatch ------------------------------
(***************************************************************************)
(* hr_netwatch.c: what to do about a station that is associated but has no *)
(* address.  A watch is a record; "age" is the time since the episode      *)
(* began, or since the last rejoin once there was one (stage 2), the only  *)
(* one of the two clocks the code still looks at.  Its counters for        *)
(* /api/state, and "reported" with them, decide nothing and are left out;  *)
(* have_ip is the negation of an episode whenever it is read.              *)
(***************************************************************************)
EXTENDS Integers

CONSTANTS
  Grace, DhcpRestart, Reconnect, ReconnectMax,   \* hr_netwatch_cfg_t, in polls
  BackoffCap          \* bound: rejoins after which the delay grows no more

ASSUME NetwatchAssumption ==
  /\ Grace \in Nat /\ DhcpRestart \in Nat /\ Reconnect \in Nat
  /\ Grace < Reconnect /\ Reconnect <= ReconnectMax /\ DhcpRestart <= ReconnectMax
  /\ ReconnectMax \in Nat /\ BackoffCap \in Nat
  /\ Reconnect * 2 ^ BackoffCap >= ReconnectMax

(* An episode is of an association, and a stage of an episode *)
Watches ==
  {w \in [assoc : BOOLEAN, ep : BOOLEAN, stage : 0..2, age : 0..ReconnectMax,
          backoff : 0..BackoffCap] :
     (w.ep => w.assoc) /\ (~w.ep => w.stage = 0 /\ w.age = 0)}

NewWatch ==
  [assoc |-> FALSE, ep |-> FALSE, stage |-> 0, age |-> 0, backoff |-> 0]

BeginEpisode(w) == [w EXCEPT !.ep = TRUE, !.stage = 0, !.age = 0]
EndEpisode(w) == [w EXCEPT !.ep = FALSE, !.stage = 0, !.age = 0]

SlipOnAssoc(w) == BeginEpisode([w EXCEPT !.assoc = TRUE, !.backoff = 0])
OnAssoc(w) == BeginEpisode([w EXCEPT !.assoc = TRUE])
OnDisassoc(w) == EndEpisode([w EXCEPT !.assoc = FALSE])

(* hr_netwatch_reconnect_delay_ms, after n rejoins without an address *)
DelayAfter(n) ==
  IF Reconnect * 2 ^ n > ReconnectMax THEN ReconnectMax ELSE Reconnect * 2 ^ n

Grown(n) == IF n < BackoffCap THEN n + 1 ELSE n

(* The episode a tick without an address looks at *)
Episode(w) == IF w.ep THEN w ELSE BeginEpisode(w)

SlipRemedy(w, ip) ==
  IF ~w.assoc \/ ip THEN "none"
  ELSE LET e == Episode(w)
       IN  IF e.stage = 0 /\ e.age >= DhcpRestart THEN "dhcp" ELSE "none"

(* What a tick asks for *)
Remedy(w, ip) ==
  IF ~w.assoc \/ ip THEN "none"
  ELSE LET e == Episode(w)
       IN  CASE e.stage = 0 /\ e.age >= DhcpRestart -> "dhcp"
             [] e.stage > 0 /\ e.age >= DelayAfter(e.backoff) -> "rejoin"
             [] OTHER -> "none"

(* hr_netwatch_tick's watch afterwards *)
Ticked(w, ip) ==
  IF ~w.assoc THEN w
  ELSE IF ip THEN EndEpisode([w EXCEPT !.backoff = 0])
  ELSE LET e == Episode(w)
       IN  CASE Remedy(w, ip) = "dhcp" -> [e EXCEPT !.stage = 1]
             [] Remedy(w, ip) = "rejoin" ->
                  [e EXCEPT !.stage = 2, !.age = 0, !.backoff = Grown(@)]
             [] OTHER -> e

NoIp(w) == w.assoc /\ w.ep /\ (w.stage = 2 \/ w.age >= Grace)

(* Time passes by one poll *)
Aged(w) == IF w.ep /\ w.age < ReconnectMax THEN [w EXCEPT !.age = @ + 1] ELSE w
=============================================================================
