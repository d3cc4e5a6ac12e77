----------------------------- MODULE WifiProofs -----------------------------
(***************************************************************************)
(* Proofs about Wifi for any times of the watchdog, any window, any number *)
(* of retries, faults and requests: what the status says of the station,   *)
(* that an open setup network is timed, and that rejoins back off.         *)
(***************************************************************************)
EXTENDS Wifi, TLAPS

-----------------------------------------------------------------------------
(***************************************************************************)
(* The inductive invariant.                                                *)
(***************************************************************************)

\* Whether the station was associated when an event of the queue was sent, the
\* ones before it having been handled by then: "here" is what the event task has
\* heard so far.
Before(ev, here, i) == IF i = 1 THEN here ELSE ev[i - 1] # "disc"
AtTheEnd(ev, here) == IF ev = <<>> THEN here ELSE ev[Len(ev)] # "disc"

\* The events are a true account of the driver, from where the event task has
\* got to, to where the driver is.
Told(ev, here, joined) ==
  /\ \A i \in DOMAIN ev :
       /\ ev[i] = "assoc" => ~Before(ev, here, i)
       /\ ev[i] \in {"gotip", "lostip"} => Before(ev, here, i)
  /\ joined <=> AtTheEnd(ev, here)
Story == Told(events, watch.assoc, drv = "assoc")

NoDisc(ev) == \A i \in DOMAIN ev : ev[i] # "disc"
GotIpComes(ev) == \E i \in DOMAIN ev : ev[i] = "gotip"
GotIpStands(ev) ==
  \E j \in DOMAIN ev : ev[j] = "gotip" /\ \A i \in DOMAIN ev : i > j => ev[i] # "disc"

\* An address is one the event task will hear of, or has heard of and not
\* heard of its end.
Leased ==
  /\ ip => drv = "assoc" /\ hpc = "idle"
  /\ ip => GotIpStands(events) \/ (watch.assoc /\ epc = "idle" /\ NoDisc(events))

\* A station that is shown as joined is one the event task takes for joined.
ShownJoined == status \in {"CONNECTED", "NO_IP"} => watch.assoc \/ epc # "idle"

\* A poll leaves no station shown as connected that is past the grace.
ShownInTime == polled /\ status = "CONNECTED" => ~NoIp(watch)

\* There is a configuration to join with, and whoever has the station idle
\* goes on with it, unless the driver refuses.
Configured == (ssid => cfg) /\ (hpc = "drop" => ~ssid)
Moving ==
  ssid /\ drv = "idle" /\ ~retryArmed /\ ~refused =>
    events # <<>> \/ epc # "idle" \/ hpc \in {"config", "connect"}

\* The setup network is about to be shut, or its timer to be started.
Attended ==
  raced \/ epc = "open" \/ hpc = "open" \/ tpc = "mode" \/ GotIpComes(events)

WindowRaced == epc # "idle" /\ expired => raced
WindowRuns ==
  /\ ap /\ apLeft = Off => Attended
  /\ ap /\ (status = "CONNECTED" \/ ip) => Attended

\* The watchdog counts the rejoins that brought no address, and its clock
\* never runs ahead of the time since the last of them.
Counted == missed = watch.backoff /\ watch.age <= gap

\* While the chip is about to restart, events are dropped unheard.
IInv ==
  /\ TypeOK /\ ShownJoined /\ ShownInTime /\ Configured /\ WindowRaced /\ Counted
  /\ restarting \/ (Story /\ Leased /\ WindowRuns /\ Moving)

-----------------------------------------------------------------------------
(***************************************************************************)
(* The operators the model is built from.                                  *)
(***************************************************************************)

\* Every wait of the back-off is a number, the cap at most.
LEMMA DelayTyped ==
  ASSUME NEW n \in 0..BackoffCap
  PROVE  DelayAfter(n) \in Int /\ DelayAfter(n) <= ReconnectMax
<1>1. 2 ^ n \in Int
  BY NetwatchAssumption
<1>2. QED
  BY <1>1, NetwatchAssumption DEF DelayAfter

\* A record of the fields' types is a watch, if an episode is of an association.
LEMMA Made ==
  ASSUME NEW w, w \in [assoc : BOOLEAN, ep : BOOLEAN, stage : 0..2, age : 0..ReconnectMax,
                       backoff : 0..BackoffCap],
         w.ep => w.assoc, ~w.ep => w.stage = 0 /\ w.age = 0
  PROVE  w \in Watches
  BY DEF Watches

\* What the watchdog's operators make of a watch is a watch, of the same
\* association but for the two events.
LEMMA WatchOps ==
  ASSUME NEW w \in Watches
  PROVE  /\ OnAssoc(w) \in Watches /\ OnAssoc(w).assoc /\ OnAssoc(w).backoff = w.backoff
         /\ OnAssoc(w).age = 0
         /\ OnDisassoc(w) \in Watches /\ ~OnDisassoc(w).assoc
         /\ OnDisassoc(w).backoff = w.backoff /\ OnDisassoc(w).age = 0
         /\ Aged(w) \in Watches /\ Aged(w).assoc = w.assoc /\ Aged(w).backoff = w.backoff
         /\ Aged(w).age <= w.age + 1
         /\ \A d \in BOOLEAN : Ticked(w, d) \in Watches /\ Ticked(w, d).assoc = w.assoc
<1> DEFINE W == [assoc : BOOLEAN, ep : BOOLEAN, stage : 0..2, age : 0..ReconnectMax,
                 backoff : 0..BackoffCap]
<1>1. /\ w \in W /\ w.assoc \in BOOLEAN /\ w.ep \in BOOLEAN
      /\ w.ep => w.assoc
      /\ ~w.ep => w.stage = 0 /\ w.age = 0
      /\ w.age \in 0..ReconnectMax /\ w.backoff \in 0..BackoffCap
  BY DEF Watches
<1>2. ReconnectMax \in Nat /\ BackoffCap \in Nat /\ 0 \in 0..ReconnectMax
  BY NetwatchAssumption
<1>3. Grown(w.backoff) \in 0..BackoffCap
  BY <1>1, <1>2 DEF Grown
<1>4. ASSUME NEW v \in W, v.assoc
      PROVE  /\ BeginEpisode(v) \in Watches /\ BeginEpisode(v).assoc
             /\ BeginEpisode(v).backoff = v.backoff /\ BeginEpisode(v).age = 0
  <2> DEFINE a == [v EXCEPT !.ep = TRUE]
             b == [a EXCEPT !.stage = 0]
             c == [b EXCEPT !.age = 0]
  <2>1. a \in W /\ a.ep = TRUE /\ a.assoc = v.assoc /\ a.backoff = v.backoff
    OBVIOUS
  <2> HIDE DEF a
  <2>2. b \in W /\ b.ep = a.ep /\ b.assoc = a.assoc /\ b.backoff = a.backoff /\ b.stage = 0
    BY <2>1
  <2> HIDE DEF b
  <2>3. /\ c \in W /\ c.ep = b.ep /\ c.assoc = b.assoc /\ c.backoff = b.backoff
        /\ c.stage = 0 /\ c.age = 0
    BY <1>2, <2>2
  <2>4. BeginEpisode(v) = c
    BY DEF BeginEpisode, a, b, c
  <2> HIDE DEF c
  <2>5. c.ep = TRUE
    BY <2>1, <2>2, <2>3
  <2>6. c.ep
    BY <2>5
  <2>7. c \in Watches
    BY <1>4, <2>1, <2>2, <2>3, <2>6, Made
  <2>8. QED BY <1>4, <2>1, <2>2, <2>3, <2>4, <2>7
<1>5. ASSUME NEW v \in W
      PROVE  /\ EndEpisode(v) \in Watches /\ EndEpisode(v).assoc = v.assoc
             /\ EndEpisode(v).backoff = v.backoff /\ EndEpisode(v).age = 0
  <2> DEFINE a == [v EXCEPT !.ep = FALSE]
             b == [a EXCEPT !.stage = 0]
             c == [b EXCEPT !.age = 0]
  <2>1. a \in W /\ a.ep = FALSE /\ a.assoc = v.assoc /\ a.backoff = v.backoff
    OBVIOUS
  <2> HIDE DEF a
  <2>2. b \in W /\ b.ep = a.ep /\ b.assoc = a.assoc /\ b.backoff = a.backoff /\ b.stage = 0
    BY <2>1
  <2> HIDE DEF b
  <2>3. /\ c \in W /\ c.ep = b.ep /\ c.assoc = b.assoc /\ c.backoff = b.backoff
        /\ c.stage = 0 /\ c.age = 0
    BY <1>2, <2>2
  <2>4. EndEpisode(v) = c
    BY DEF EndEpisode, a, b, c
  <2> HIDE DEF c
  <2>5. c.ep = FALSE
    BY <2>1, <2>2, <2>3
  <2>6. ~c.ep
    BY <2>5
  <2>7. c \in Watches
    BY <2>3, <2>6, Made
  <2>8. QED BY <2>1, <2>2, <2>3, <2>4, <2>7
<1>6. /\ OnAssoc(w) \in Watches /\ OnAssoc(w).assoc /\ OnAssoc(w).backoff = w.backoff
      /\ OnAssoc(w).age = 0
  <2> DEFINE v == [w EXCEPT !.assoc = TRUE]
  <2>1. v \in W /\ v.assoc = TRUE /\ v.backoff = w.backoff
    BY <1>1
  <2>2. v.assoc
    BY <2>1
  <2> HIDE DEF v
  <2>3. QED BY <1>4, <2>1, <2>2 DEF OnAssoc, v
<1>7. /\ OnDisassoc(w) \in Watches /\ ~OnDisassoc(w).assoc
      /\ OnDisassoc(w).backoff = w.backoff /\ OnDisassoc(w).age = 0
  <2> DEFINE v == [w EXCEPT !.assoc = FALSE]
  <2>1. v \in W /\ v.assoc = FALSE /\ v.backoff = w.backoff
    BY <1>1
  <2>2. ~v.assoc
    BY <2>1
  <2> HIDE DEF v
  <2>3. QED BY <1>5, <2>1, <2>2 DEF OnDisassoc, v
<1>8. /\ Aged(w) \in Watches /\ Aged(w).assoc = w.assoc /\ Aged(w).backoff = w.backoff
      /\ Aged(w).age <= w.age + 1
  <2>1. CASE w.ep /\ w.age < ReconnectMax
    BY <1>1, <1>2, <2>1 DEF Aged, Watches
  <2>2. CASE ~(w.ep /\ w.age < ReconnectMax)
    BY <1>1, <1>2, <2>2 DEF Aged
  <2>3. QED BY <2>1, <2>2
<1>9. ASSUME NEW d \in BOOLEAN
      PROVE  Ticked(w, d) \in Watches /\ Ticked(w, d).assoc = w.assoc
  <2>1. CASE ~w.assoc
    BY <2>1 DEF Ticked
  <2>2. CASE w.assoc /\ d
    <3> DEFINE v == [w EXCEPT !.backoff = 0]
    <3>1. v \in W /\ v.assoc = w.assoc
      BY <1>1, <1>2
    <3> HIDE DEF v
    <3>2. Ticked(w, d) = EndEpisode(v)
      BY <2>2 DEF Ticked, v
    <3>3. QED BY <1>5, <3>1, <3>2
  <2>3. CASE w.assoc /\ ~d
    <3> DEFINE e == Episode(w)
    <3>1. e \in Watches /\ e.assoc /\ e.ep
      <4>1. CASE w.ep
        BY <1>1, <4>1 DEF Episode
      <4>2. CASE ~w.ep
        BY <1>1, <1>4, <2>3, <4>2 DEF Episode, BeginEpisode
      <4>3. QED BY <1>1, <4>1, <4>2
    <3>2. e.backoff = w.backoff
      BY <1>1, <1>4, <2>3 DEF Episode
    <3> HIDE DEF e
    <3>3. \/ Ticked(w, d) = [e EXCEPT !.stage = 1]
          \/ Ticked(w, d) = [e EXCEPT !.stage = 2, !.age = 0, !.backoff = Grown(w.backoff)]
          \/ Ticked(w, d) = e
      BY <2>3, <3>2 DEF Ticked, e
    <3>0. e \in W /\ 1 \in 0..2 /\ 2 \in 0..2
      BY <3>1 DEF Watches
    <3>4. [e EXCEPT !.stage = 1] \in Watches /\ [e EXCEPT !.stage = 1].assoc = e.assoc
      <4> DEFINE a == [e EXCEPT !.stage = 1]
      <4>1. /\ a \in W /\ a.assoc = e.assoc /\ a.ep = e.ep
        BY <3>0
      <4> HIDE DEF a
      <4>2. a \in Watches
        BY <3>1, <4>1, Made
      <4>3. QED BY <4>1, <4>2 DEF a
    <3>5. /\ [e EXCEPT !.stage = 2, !.age = 0, !.backoff = Grown(w.backoff)] \in Watches
          /\ [e EXCEPT !.stage = 2, !.age = 0, !.backoff = Grown(w.backoff)].assoc = e.assoc
      <4> DEFINE a == [e EXCEPT !.stage = 2]
                 b == [a EXCEPT !.age = 0]
                 c == [b EXCEPT !.backoff = Grown(w.backoff)]
      <4>1. a \in W /\ a.assoc = e.assoc /\ a.ep = e.ep
        BY <3>0
      <4> HIDE DEF a
      <4>2. b \in W /\ b.assoc = a.assoc /\ b.ep = a.ep
        BY <1>2, <4>1
      <4> HIDE DEF b
      <4>3. c \in W /\ c.assoc = b.assoc /\ c.ep = b.ep
        BY <1>3, <4>2
      <4>4. [e EXCEPT !.stage = 2, !.age = 0, !.backoff = Grown(w.backoff)] = c
        BY DEF a, b, c
      <4> HIDE DEF c
      <4>5. c \in Watches
        BY <3>1, <4>1, <4>2, <4>3, Made
      <4>6. QED BY <4>1, <4>2, <4>3, <4>4, <4>5
    <3>6. e.assoc = w.assoc
      BY <2>3, <3>1, <1>1 DEF e, Episode, BeginEpisode
    <3>7. QED BY <3>1, <3>3, <3>4, <3>5, <3>6
  <2>4. QED BY <1>1, <2>1, <2>2, <2>3
<1>10. QED BY <1>6, <1>7, <1>8, <1>9

\* A tick that finds an address forgets the rejoins; one that does not counts
\* the rejoin it asks for, after the wait it owes, and nothing else.
LEMMA TickOps ==
  ASSUME NEW w \in Watches, w.assoc
  PROVE  /\ Ticked(w, TRUE).backoff = 0 /\ ~NoIp(Ticked(w, TRUE)) /\ Ticked(w, TRUE).age = 0
         /\ Remedy(w, TRUE) = "none"
         /\ Ticked(w, FALSE).age <= w.age
         /\ Remedy(w, FALSE) = "rejoin" =>
              /\ Ticked(w, FALSE).backoff = Grown(w.backoff) /\ Ticked(w, FALSE).age = 0
              /\ NoIp(Ticked(w, FALSE)) /\ w.age >= DelayAfter(w.backoff)
         /\ Remedy(w, FALSE) # "rejoin" => Ticked(w, FALSE).backoff = w.backoff
<1>1. /\ w.ep \in BOOLEAN /\ w.stage \in 0..2
      /\ ~w.ep => w.stage = 0 /\ w.age = 0
      /\ w.age \in 0..ReconnectMax /\ w.backoff \in 0..BackoffCap
      /\ w = [assoc |-> w.assoc, ep |-> w.ep, stage |-> w.stage, age |-> w.age,
              backoff |-> w.backoff]
  BY DEF Watches
<1> DEFINE e == Episode(w)
<1>2. /\ e.assoc /\ e.ep /\ e.backoff = w.backoff /\ e.age = w.age /\ e.stage = w.stage
      /\ e \in [assoc : BOOLEAN, ep : BOOLEAN, stage : 0..2, age : 0..ReconnectMax,
                backoff : 0..BackoffCap]
  <2>1. CASE w.ep
    BY <1>1, <2>1 DEF Episode, Watches
  <2>2. CASE ~w.ep
    <3>1. e = [assoc |-> w.assoc, ep |-> TRUE, stage |-> 0, age |-> 0,
               backoff |-> w.backoff]
      BY <1>1, <2>2 DEF Episode, BeginEpisode
    <3>2. QED BY <1>1, <2>2, <3>1, NetwatchAssumption DEF Watches
  <2>3. QED BY <1>1, <2>1, <2>2
<1> DEFINE yes == Ticked(w, TRUE)
          no == Ticked(w, FALSE)
<1>3. /\ yes.backoff = 0 /\ ~NoIp(yes) /\ yes.age = 0
      /\ Remedy(w, TRUE) = "none"
  <2>1. yes = [assoc |-> w.assoc, ep |-> FALSE, stage |-> 0, age |-> 0, backoff |-> 0]
    BY <1>1 DEF Ticked, EndEpisode
  <2>2. Remedy(w, TRUE) = "none"
    BY DEF Remedy
  <2> HIDE DEF yes
  <2>3. yes.ep = FALSE
    BY <2>1
  <2>4. ~yes.ep
    BY <2>3
  <2>5. QED BY <2>1, <2>2, <2>4 DEF NoIp
<1>4. CASE Remedy(w, FALSE) = "rejoin"
  <2>1. e.stage > 0 /\ e.age >= DelayAfter(e.backoff)
    BY <1>4 DEF Remedy
  <2> HIDE DEF e
  <2>2. no = [e EXCEPT !.stage = 2, !.age = 0, !.backoff = Grown(@)]
    BY <1>4 DEF Ticked, e
  <2> HIDE DEF yes, no
  <2>3. /\ no.backoff = Grown(w.backoff) /\ no.age = 0
        /\ no.stage = 2 /\ no.ep = e.ep /\ no.assoc = e.assoc
    BY <1>2, <2>2
  <2>4. NoIp(no)
    BY <1>2, <2>3 DEF NoIp
  <2>5. no.age <= w.age
    BY <1>1, <2>3, NetwatchAssumption
  <2>6. w.age >= DelayAfter(w.backoff)
    BY <1>2, <2>1
  <2>7. QED BY <1>3, <1>4, <2>3, <2>4, <2>5, <2>6 DEF yes, no
<1>5. CASE Remedy(w, FALSE) # "rejoin"
  <2> HIDE DEF e
  <2>1. no = [e EXCEPT !.stage = 1] \/ no = e
    BY <1>5 DEF Ticked, e
  <2> HIDE DEF yes, no
  <2>2. no.backoff = w.backoff /\ no.age = w.age
    BY <1>2, <2>1
  <2>3. no.age <= w.age
    BY <1>1, <2>2, NetwatchAssumption
  <2>4. QED BY <1>3, <1>5, <2>2, <2>3 DEF yes, no
<1>6. QED BY <1>4, <1>5

\* An attempt to connect leaves a station that is under way as it is; an idle one
\* it sends on its way, if there is a configuration and the driver is willing.
LEMMA ConnectOutcome ==
  ASSUME TypeOK, Connect
  PROVE  /\ drv' \in {"idle", "joining", "assoc"} /\ faults' \in 0..MaxFaults
         /\ drv' = "assoc" <=> drv = "assoc"
         /\ drv # "idle" => drv' = drv
  BY WifiAssumption DEF Connect, TypeOK

\* ... and a caller that only logs a failure leaves the refusal on record.
LEMMA AttemptOutcome ==
  ASSUME TypeOK, Attempt
  PROVE  /\ drv' \in {"idle", "joining", "assoc"} /\ faults' \in 0..MaxFaults
         /\ drv' = "assoc" <=> drv = "assoc"
         /\ drv # "idle" => drv' = drv
         /\ refused' \in BOOLEAN /\ (drv' = "idle" => refused')
  BY ConnectOutcome DEF Attempt

Events == {"assoc", "disc", "gotip", "lostip"}

\* One more event that is true of the driver keeps the account true.
LEMMA AppendTold ==
  ASSUME NEW ev \in Seq(Events), NEW here \in BOOLEAN, NEW joined \in BOOLEAN,
         Told(ev, here, joined), NEW e \in Events, NEW now \in BOOLEAN,
         e = "assoc" => ~joined, e \in {"gotip", "lostip"} => joined,
         now <=> e # "disc"
  PROVE  Told(Append(ev, e), here, now)
<1> DEFINE w == Append(ev, e)
<1>1. /\ w \in Seq(Events) /\ Len(w) = Len(ev) + 1 /\ w[Len(w)] = e /\ w # <<>>
      /\ \A i \in DOMAIN ev : w[i] = ev[i]
      /\ DOMAIN w = 1..Len(ev) + 1 /\ DOMAIN ev = 1..Len(ev) /\ Len(ev) \in Nat
  OBVIOUS
<1> HIDE DEF w
<1>2. ASSUME NEW i \in DOMAIN ev PROVE Before(w, here, i) = Before(ev, here, i)
  BY <1>1 DEF Before
<1>3. Before(w, here, Len(ev) + 1) = AtTheEnd(ev, here)
  <2>1. CASE ev = <<>>
    BY <2>1 DEF Before, AtTheEnd
  <2>2. CASE ev # <<>>
    <3>1. Len(ev) # 0
      BY <2>2
    <3>2. Len(ev) \in DOMAIN ev /\ Len(ev) + 1 # 1 /\ Len(ev) + 1 - 1 = Len(ev)
      BY <1>1, <3>1
    <3>3. QED BY <1>1, <2>2, <3>2 DEF Before, AtTheEnd
  <2>3. QED BY <2>1, <2>2
<1>4. joined <=> Before(w, here, Len(ev) + 1)
  BY <1>3 DEF Told
<1>5. ASSUME NEW i \in DOMAIN w
      PROVE  /\ w[i] = "assoc" => ~Before(w, here, i)
             /\ w[i] \in {"gotip", "lostip"} => Before(w, here, i)
  <2>1. CASE i \in DOMAIN ev
    BY <1>1, <1>2, <2>1 DEF Told
  <2>2. CASE i = Len(ev) + 1
    BY <1>1, <1>4, <2>2
  <2>3. QED BY <1>1, <2>1, <2>2
<1>6. now <=> AtTheEnd(w, here)
  BY <1>1 DEF AtTheEnd
<1>7. QED BY <1>5, <1>6 DEF Told, w

\* The account stays true as the event task hears the first of it.
LEMMA TailTold ==
  ASSUME NEW ev \in Seq(Events), ev # <<>>, NEW here \in BOOLEAN, NEW joined \in BOOLEAN,
         Told(ev, here, joined), NEW hence \in BOOLEAN, hence <=> Head(ev) # "disc"
  PROVE  /\ Tail(ev) \in Seq(Events) /\ Told(Tail(ev), hence, joined)
         /\ Head(ev) \in Events /\ Head(ev) = ev[1]
         /\ Head(ev) \in {"gotip", "lostip"} => here
         /\ Head(ev) = "assoc" => ~here
         /\ ~joined => Tail(ev) # <<>> \/ Head(ev) = "disc"
         /\ joined /\ Head(ev) = "disc" => Tail(ev) # <<>>
<1> DEFINE t == Tail(ev)
<1>1. /\ t \in Seq(Events) /\ Len(t) = Len(ev) - 1 /\ Len(ev) \in Nat /\ Len(ev) > 0
      /\ DOMAIN t = 1..Len(t) /\ DOMAIN ev = 1..Len(ev)
      /\ \A i \in DOMAIN t : t[i] = ev[i + 1]
      /\ Head(ev) = ev[1] /\ Head(ev) \in Events
  OBVIOUS
<1> HIDE DEF t
<1>2. ASSUME NEW i \in DOMAIN t
      PROVE  i + 1 \in DOMAIN ev /\ (Before(t, hence, i) <=> Before(ev, here, i + 1))
  <2>1. i + 1 \in DOMAIN ev /\ i \in Nat /\ i + 1 # 1 /\ i + 1 - 1 = i
    BY <1>1
  <2>2. Before(ev, here, i + 1) <=> ev[i] # "disc"
    BY <2>1 DEF Before
  <2>3. CASE i = 1
    BY <1>1, <2>1, <2>2, <2>3 DEF Before
  <2>4. CASE i # 1
    <3>1. i - 1 \in DOMAIN t /\ i - 1 + 1 = i
      BY <1>1, <2>4
    <3>2. t[i - 1] = ev[i]
      BY <1>1, <3>1
    <3>3. QED BY <2>1, <2>2, <2>4, <3>2 DEF Before
  <2>5. QED BY <2>1, <2>3, <2>4
<1>3. \A i \in DOMAIN t :
        /\ t[i] = "assoc" => ~Before(t, hence, i)
        /\ t[i] \in {"gotip", "lostip"} => Before(t, hence, i)
  BY <1>1, <1>2 DEF Told
<1>4. joined <=> ev[Len(ev)] # "disc"
  BY DEF Told, AtTheEnd
<1>5. joined <=> AtTheEnd(t, hence)
  <2>1. CASE t = <<>>
    <3>1. Len(ev) = 1
      BY <1>1, <2>1
    <3>2. QED BY <1>1, <1>4, <2>1, <3>1 DEF AtTheEnd
  <2>2. CASE t # <<>>
    <3>1. Len(t) \in DOMAIN t /\ Len(t) + 1 = Len(ev)
      BY <1>1, <2>2
    <3>2. QED BY <1>1, <1>4, <2>2, <3>1 DEF AtTheEnd
  <2>3. QED BY <2>1, <2>2
<1>6. t = <<>> => (joined <=> Head(ev) # "disc")
  BY <1>5 DEF AtTheEnd
<1>7. /\ Head(ev) \in {"gotip", "lostip"} => here
      /\ Head(ev) = "assoc" => ~here
  <2>1. 1 \in DOMAIN ev /\ (Before(ev, here, 1) <=> here)
    BY <1>1 DEF Before
  <2>2. QED BY <1>1, <2>1 DEF Told
<1>8. Told(t, hence, joined)
  BY <1>3, <1>5 DEF Told
<1>9. QED BY <1>1, <1>6, <1>7, <1>8 DEF t

\* With nothing left to hear, the event task knows where the station is.
LEMMA EndOfStory ==
  ASSUME NEW ev \in Seq(Events), NEW here \in BOOLEAN, NEW joined \in BOOLEAN,
         Told(ev, here, joined), ev = <<>>
  PROVE  joined <=> here
  BY DEF Told, AtTheEnd

\* The account of an address stands as the first of the events is heard; once it
\* is the address itself that is heard, nothing behind it takes it back.
LEMMA GotIpTail ==
  ASSUME NEW ev \in Seq(Events), ev # <<>>
  PROVE  /\ GotIpComes(ev) /\ Head(ev) # "gotip" => GotIpComes(Tail(ev))
         /\ GotIpStands(ev) /\ Head(ev) # "gotip" => GotIpStands(Tail(ev))
         /\ GotIpStands(ev) /\ Head(ev) = "gotip" =>
              GotIpStands(Tail(ev)) \/ NoDisc(Tail(ev))
         /\ NoDisc(ev) => NoDisc(Tail(ev)) /\ Head(ev) # "disc"
         /\ GotIpStands(ev) => GotIpComes(ev)
<1> DEFINE t == Tail(ev)
<1>1. /\ t \in Seq(Events) /\ Len(t) = Len(ev) - 1 /\ Len(ev) \in Nat /\ Len(ev) > 0
      /\ DOMAIN t = 1..Len(t) /\ DOMAIN ev = 1..Len(ev)
      /\ \A i \in DOMAIN t : t[i] = ev[i + 1]
      /\ Head(ev) = ev[1]
  OBVIOUS
<1> HIDE DEF t
<1>2. /\ \A i \in DOMAIN t : i + 1 \in DOMAIN ev
      /\ \A i \in DOMAIN ev \ {1} : i - 1 \in DOMAIN t /\ t[i - 1] = ev[i]
      /\ 1 \in DOMAIN ev /\ DOMAIN ev \subseteq Int /\ DOMAIN t \subseteq Int
  BY <1>1
<1>3. GotIpComes(ev) /\ Head(ev) # "gotip" => GotIpComes(t)
  BY <1>1, <1>2 DEF GotIpComes
<1>4. ASSUME NEW j \in DOMAIN ev, \A i \in DOMAIN ev : i > j => ev[i] # "disc"
      PROVE  \A i \in DOMAIN t : i > j - 1 => t[i] # "disc"
  BY <1>1, <1>2, <1>4
<1>5. ASSUME GotIpStands(ev) PROVE (Head(ev) # "gotip" => GotIpStands(t))
                                    /\ (GotIpStands(t) \/ NoDisc(t))
  <2>1. PICK j \in DOMAIN ev : /\ ev[j] = "gotip"
                               /\ \A i \in DOMAIN ev : i > j => ev[i] # "disc"
    BY <1>5 DEF GotIpStands
  <2>2. \A i \in DOMAIN t : i > j - 1 => t[i] # "disc"
    BY <1>4, <2>1
  <2>3. CASE j = 1
    <3>1. \A i \in DOMAIN t : i > j - 1
      BY <1>1, <2>3
    <3>2. QED BY <1>1, <2>1, <2>2, <2>3, <3>1 DEF NoDisc
  <2>4. CASE j # 1
    <3>1. j - 1 \in DOMAIN t /\ t[j - 1] = "gotip"
      BY <1>2, <2>1, <2>4
    <3>2. QED BY <2>2, <3>1 DEF GotIpStands
  <2>5. QED BY <2>3, <2>4
<1>6. NoDisc(ev) => NoDisc(t) /\ Head(ev) # "disc"
  BY <1>1, <1>2 DEF NoDisc
<1>7. GotIpStands(ev) => GotIpComes(ev)
  BY DEF GotIpStands, GotIpComes
<1>8. QED BY <1>3, <1>5, <1>6, <1>7 DEF t

\* An address that is to be heard of still is after one more event.
LEMMA GotIpAppend ==
  ASSUME NEW ev \in Seq(Events), NEW e \in Events
  PROVE  /\ GotIpComes(ev) => GotIpComes(Append(ev, e))
         /\ e = "gotip" => GotIpStands(Append(ev, e)) /\ GotIpComes(Append(ev, e))
<1> DEFINE w == Append(ev, e)
<1>1. /\ w[Len(ev) + 1] = e /\ \A i \in DOMAIN ev : w[i] = ev[i]
      /\ DOMAIN w = 1..Len(ev) + 1 /\ DOMAIN ev = 1..Len(ev) /\ Len(ev) \in Nat
  OBVIOUS
<1> HIDE DEF w
<1>2. Len(ev) + 1 \in DOMAIN w /\ \A i \in DOMAIN w : ~(i > Len(ev) + 1)
  BY <1>1
<1>3. GotIpComes(ev) => GotIpComes(w)
  BY <1>1 DEF GotIpComes
<1>4. e = "gotip" => GotIpStands(w) /\ GotIpComes(w)
  BY <1>1, <1>2 DEF GotIpStands, GotIpComes
<1>5. QED BY <1>3, <1>4 DEF w

-----------------------------------------------------------------------------
(***************************************************************************)
(* The driver and the network keep the invariant.                          *)
(***************************************************************************)

\* What the driver does by itself touches nothing of what the code keeps: it has
\* to be accounted for by an event, and to leave no station idle without one.
LEMMA DriverKeeps ==
  ASSUME IInv, TypeOK',
         UNCHANGED <<cfg, setupVars, staVars, taskVars, bootVars, ghosts>>,
         ~restarting => /\ Story' /\ Leased'
                        /\ GotIpComes(events) => GotIpComes(events')
                        /\ ip' => ip \/ GotIpComes(events'),
         drv' = "idle" => events' # <<>> \/ (drv = "idle" /\ events' = events)
  PROVE  IInv'
<1>1. ShownJoined' /\ ShownInTime' /\ Configured' /\ WindowRaced' /\ Counted'
  BY DEF IInv, ShownJoined, ShownInTime, Configured, WindowRaced, Counted, setupVars,
         staVars, taskVars, bootVars, ghosts, waits
<1>2. restarting' = restarting
  BY DEF bootVars
<1>3. ASSUME ~restarting PROVE WindowRuns'
  BY <1>3 DEF IInv, WindowRuns, Attended, setupVars, staVars, taskVars, ghosts, waits
<1>4. ASSUME ~restarting PROVE Moving'
  BY <1>4 DEF IInv, Moving, setupVars, staVars, taskVars, ghosts, waits
<1>5. QED BY <1>1, <1>2, <1>3, <1>4 DEF IInv

LEMMA JoinOkStep == IInv /\ JoinOk => IInv'
<1> SUFFICES ASSUME IInv, JoinOk PROVE IInv'
  OBVIOUS
<1>1. /\ events \in Seq(Events) /\ "assoc" \in Events /\ watch.assoc \in BOOLEAN
      /\ events' = Append(events, "assoc") /\ drv = "joining" /\ drv' = "assoc"
      /\ UNCHANGED <<ip, watch, epc, hpc>>
  BY DEF IInv, TypeOK, JoinOk, Events, Watches, staVars, taskVars
<1>2. TypeOK'
  BY <1>1, WifiAssumption DEF IInv, TypeOK, JoinOk, Events, setupVars, staVars, taskVars, bootVars, ghosts, waits
<1>3. UNCHANGED <<cfg, setupVars, staVars, taskVars, bootVars, ghosts>>
  BY DEF JoinOk
<1>4. ASSUME ~restarting PROVE Story' /\ Leased' /\ ~ip'
  <2>1. ~ip' /\ Leased'
    BY <1>1, <1>4 DEF IInv, Leased
  <2>2. Told(events, watch.assoc, FALSE)
    BY <1>1, <1>4 DEF IInv, Story, Told
  <2>3. Told(events', watch.assoc, TRUE)
    BY <1>1, <2>2, AppendTold
  <2>4. QED BY <1>1, <2>1, <2>3 DEF Story, Told
<1>5. GotIpComes(events) => GotIpComes(events')
  BY <1>1, GotIpAppend
<1>6. QED BY <1>1, <1>2, <1>3, <1>4, <1>5, DriverKeeps

LEMMA JoinFailsStep == IInv /\ JoinFails => IInv'
<1> SUFFICES ASSUME IInv, JoinFails PROVE IInv'
  OBVIOUS
<1>1. /\ events \in Seq(Events) /\ "disc" \in Events /\ watch.assoc \in BOOLEAN
      /\ events' = Append(events, "disc") /\ drv = "joining" /\ drv' = "idle"
      /\ UNCHANGED <<ip, watch, epc, hpc>>
  BY DEF IInv, TypeOK, JoinFails, Events, Watches, staVars, taskVars
<1>2. TypeOK'
  BY <1>1, WifiAssumption DEF IInv, TypeOK, JoinFails, Events, setupVars, staVars, taskVars, bootVars, ghosts, waits
<1>3. UNCHANGED <<cfg, setupVars, staVars, taskVars, bootVars, ghosts>>
  BY DEF JoinFails
<1>4. ASSUME ~restarting PROVE Story' /\ Leased' /\ ~ip'
  <2>1. ~ip' /\ Leased'
    BY <1>1, <1>4 DEF IInv, Leased
  <2>2. Told(events, watch.assoc, FALSE)
    BY <1>1, <1>4 DEF IInv, Story, Told
  <2>3. Told(events', watch.assoc, FALSE)
    BY <1>1, <2>2, AppendTold
  <2>4. QED BY <1>1, <2>1, <2>3 DEF Story, Told
<1>5. (GotIpComes(events) => GotIpComes(events')) /\ events' # <<>>
  BY <1>1, GotIpAppend
<1>6. QED BY <1>1, <1>2, <1>3, <1>4, <1>5, DriverKeeps

LEMMA LeaseComesStep == IInv /\ LeaseComes => IInv'
<1> SUFFICES ASSUME IInv, LeaseComes PROVE IInv'
  OBVIOUS
<1>1. /\ events \in Seq(Events) /\ "gotip" \in Events /\ watch.assoc \in BOOLEAN
      /\ events' = Append(events, "gotip") /\ drv = "assoc" /\ hpc = "idle"
      /\ UNCHANGED <<drv, watch, epc, hpc>>
  BY DEF IInv, TypeOK, LeaseComes, Events, Watches, staVars, taskVars
<1>2. TypeOK'
  BY <1>1 DEF IInv, TypeOK, LeaseComes, Events, setupVars, staVars, taskVars, bootVars, ghosts, waits,
              bounds
<1>3. UNCHANGED <<cfg, setupVars, staVars, taskVars, bootVars, ghosts>>
  BY DEF LeaseComes
<1>4. GotIpStands(events') /\ GotIpComes(events')
  BY <1>1, GotIpAppend
<1>5. ASSUME ~restarting PROVE Story' /\ Leased'
  <2>1. Leased'
    BY <1>1, <1>4 DEF Leased
  <2>2. Told(events, watch.assoc, TRUE)
    BY <1>1, <1>5 DEF IInv, Story, Told
  <2>3. Told(events', watch.assoc, TRUE)
    BY <1>1, <2>2, AppendTold
  <2>4. QED BY <1>1, <2>1, <2>3 DEF Story, Told
<1>6. QED BY <1>1, <1>2, <1>3, <1>4, <1>5, DriverKeeps

LEMMA LeaseGoesStep == IInv /\ (LeaseGoes \/ RouterComes) => IInv'
<1> SUFFICES ASSUME IInv, LeaseGoes \/ RouterComes PROVE IInv'
  OBVIOUS
<1>1. TypeOK'
  <2>1. CASE LeaseGoes
    <3>1. ip' \in BOOLEAN
      BY <2>1 DEF LeaseGoes
    <3>2. faults' \in 0..MaxFaults /\ stuck' \in {"no", "dhcp", "assoc"}
      BY <2>1, WifiAssumption DEF IInv, TypeOK, LeaseGoes
    <3>3. UNCHANGED <<drv, cfg, events, router, setupVars, staVars, taskVars, bootVars, ghosts, asks>>
      BY <2>1 DEF LeaseGoes
    <3>4. QED BY <3>1, <3>2, <3>3 DEF IInv, TypeOK, setupVars, staVars, taskVars, bootVars, ghosts, waits
  <2>2. CASE RouterComes
    BY <2>2, WifiAssumption DEF IInv, TypeOK, RouterComes, setupVars, staVars, taskVars,
                                bootVars, ghosts, waits, bounds
  <2>3. QED BY <2>1, <2>2
<1>2. /\ UNCHANGED <<cfg, setupVars, staVars, taskVars, bootVars, ghosts>>
      /\ UNCHANGED <<drv, events, watch, epc, hpc>>
      /\ ~ip' \/ ip' = ip
  BY DEF LeaseGoes, RouterComes, staVars, taskVars
<1>3. ASSUME ~restarting PROVE Story' /\ Leased'
  BY <1>2, <1>3 DEF IInv, Story, Leased
<1>4. QED BY <1>1, <1>2, <1>3, DriverKeeps

LEMMA LostIpStep == IInv /\ LostIp => IInv'
<1> SUFFICES ASSUME IInv, LostIp PROVE IInv'
  OBVIOUS
<1>1. /\ events \in Seq(Events) /\ "lostip" \in Events /\ watch.assoc \in BOOLEAN
      /\ events = <<>> /\ events' = Append(events, "lostip") /\ drv = "assoc" /\ ~ip
      /\ UNCHANGED <<drv, ip, watch, epc, hpc>>
  BY DEF IInv, TypeOK, LostIp, Events, Watches, staVars, taskVars
<1>2. TypeOK'
  BY <1>1 DEF IInv, TypeOK, LostIp, Events, setupVars, staVars, taskVars, bootVars, ghosts, waits,
              bounds
<1>3. UNCHANGED <<cfg, setupVars, staVars, taskVars, bootVars, ghosts>>
  BY DEF LostIp
<1>4. ASSUME ~restarting PROVE Story' /\ Leased'
  <2>1. Leased'
    BY <1>1 DEF Leased
  <2>2. Told(events, watch.assoc, TRUE)
    BY <1>1, <1>4 DEF IInv, Story, Told
  <2>3. Told(events', watch.assoc, TRUE)
    BY <1>1, <2>2, AppendTold
  <2>4. QED BY <1>1, <2>1, <2>3 DEF Story, Told
<1>5. GotIpComes(events) => GotIpComes(events')
  BY <1>1, GotIpAppend
<1>6. QED BY <1>1, <1>2, <1>3, <1>4, <1>5, DriverKeeps

LEMMA RouterGoesStep == IInv /\ RouterGoes => IInv'
<1> SUFFICES ASSUME IInv, RouterGoes PROVE IInv'
  OBVIOUS
<1>1. /\ events \in Seq(Events) /\ "disc" \in Events /\ watch.assoc \in BOOLEAN
      /\ UNCHANGED <<watch, epc, hpc>>
      /\ UNCHANGED <<cfg, setupVars, staVars, taskVars, bootVars, ghosts>>
  BY DEF IInv, TypeOK, RouterGoes, Events, Watches, staVars, taskVars
<1>2. TypeOK'
  <2>0. events' = events \/ events' = Append(events, "disc")
    BY DEF RouterGoes
  <2>1. /\ router' \in BOOLEAN /\ faults' \in 0..MaxFaults
        /\ drv' \in {"idle", "joining", "assoc"} /\ stuck' \in {"no", "dhcp", "assoc"}
        /\ events' \in Seq(Events)
    <3>1. router' \in BOOLEAN
      BY DEF RouterGoes
    <3>2. faults' \in 0..MaxFaults
      BY WifiAssumption DEF IInv, TypeOK, RouterGoes
    <3>3. drv' \in {"idle", "joining", "assoc"} /\ stuck' \in {"no", "dhcp", "assoc"}
      BY DEF IInv, TypeOK, RouterGoes
    <3>4. QED BY <1>1, <2>0, <3>1, <3>2, <3>3
  <2>2. ip' \in BOOLEAN /\ UNCHANGED <<cfg, asks>>
    BY DEF RouterGoes, IInv, TypeOK
  <2>3. QED BY <1>1, <2>1, <2>2 DEF IInv, TypeOK, Events, setupVars, staVars, taskVars, bootVars,
                                    ghosts, waits
<1>3. CASE drv # "assoc"
  <2>1. UNCHANGED <<drv, ip, events>>
    BY <1>3 DEF RouterGoes
  <2>2. ~restarting => Story' /\ Leased'
    BY <1>1, <2>1 DEF IInv, Story, Leased
  <2>3. QED BY <1>1, <1>2, <2>1, <2>2, DriverKeeps
<1>4. CASE drv = "assoc"
  <2>1. events' = Append(events, "disc") /\ drv' = "idle" /\ ~ip'
    BY <1>4 DEF RouterGoes
  <2>2. (GotIpComes(events) => GotIpComes(events')) /\ events' # <<>>
    BY <1>1, <2>1, GotIpAppend
  <2>3. ASSUME ~restarting PROVE Story' /\ Leased'
    <3>1. Told(events, watch.assoc, TRUE)
      BY <1>4, <2>3 DEF IInv, Story, Told
    <3>2. Told(events', watch.assoc, FALSE)
      BY <1>1, <2>1, <3>1, AppendTold
    <3>3. QED BY <1>1, <2>1, <3>2 DEF Story, Told, Leased
  <2>4. QED BY <1>1, <1>2, <2>1, <2>2, <2>3, DriverKeeps
<1>5. QED BY <1>3, <1>4

-----------------------------------------------------------------------------
(***************************************************************************)
(* The timer task keeps the invariant.                                     *)
(***************************************************************************)

\* What a check of the watchdog does to the watch and to the status: the two
\* agree on whether the station has no address, and a rejoin is asked for only
\* after the wait that is owed.
LEMMA CheckOutcome ==
  ASSUME IInv, ~restarting, watch.assoc, NEW rest \in Seq(Events), NoipCheck(rest)
  PROVE  /\ watch' \in Watches /\ watch'.assoc /\ watch'.age <= gap' /\ missed' = watch'.backoff
         /\ missed' \in 0..BackoffCap /\ gap' \in 0..ReconnectMax
         /\ status' \in {"AP_SETUP", "CONNECTING", "CONNECTED", "NO_IP"}
         /\ status' = "CONNECTED" => ~NoIp(watch')
         /\ status' = "CONNECTED" => status = "CONNECTED" \/ ip
         /\ \/ /\ events' = rest /\ UNCHANGED <<drv, ip, rejoin>>
            \/ /\ ~ip /\ rejoin' = TRUE /\ Leave(rest)
         /\ stuck' \in {"no", "dhcp", "assoc"}
         /\ gap' = 0 /\ gap # 0 => gap >= DelayAfter(missed)
<1>1. /\ watch \in Watches /\ ip \in BOOLEAN /\ missed = watch.backoff /\ watch.age <= gap
      /\ gap \in 0..ReconnectMax /\ missed \in 0..BackoffCap /\ watch.age \in 0..ReconnectMax
      /\ status \in {"AP_SETUP", "CONNECTING", "CONNECTED", "NO_IP"}
      /\ stuck \in {"no", "dhcp", "assoc"}
      /\ ReconnectMax \in Nat /\ ReconnectMax > 0 /\ BackoffCap \in Nat
  BY NetwatchAssumption DEF IInv, TypeOK, Counted, Watches
<1>2. watch' = Ticked(watch, ip) /\ status' = NoipStatus
  BY DEF NoipCheck
<1>3. watch' \in Watches /\ watch'.assoc
  BY <1>1, <1>2, WatchOps
<1>4. watch'.age \in 0..ReconnectMax /\ watch'.backoff \in 0..BackoffCap
  BY <1>3 DEF Watches
<1>5. CASE ip
  <2>1. ip = TRUE
    BY <1>1, <1>5
  <2>2. watch' = Ticked(watch, TRUE) /\ Remedy(watch, ip) = Remedy(watch, TRUE)
    BY <1>2, <2>1
  <2>3. watch'.backoff = 0 /\ ~NoIp(watch') /\ watch'.age = 0 /\ Remedy(watch, ip) = "none"
    BY <1>1, <2>2, TickOps
  <2>4. /\ events' = rest /\ stuck' = (IF stuck = "none" THEN "no" ELSE stuck)
        /\ missed' = 0 /\ gap' = ReconnectMax /\ UNCHANGED <<drv, ip, rejoin>>
    BY <1>5, <2>3 DEF NoipCheck, Answered
  <2>5. status' \in {"AP_SETUP", "CONNECTING", "CONNECTED", "NO_IP"}
    BY <1>1, <1>2, <1>5 DEF NoipStatus
  <2>6. QED BY <1>1, <1>3, <1>4, <1>5, <2>3, <2>4, <2>5
<1>6. CASE ~ip
  <2>1. ip = FALSE
    BY <1>1, <1>6
  <2>2. watch' = Ticked(watch, FALSE) /\ Remedy(watch, ip) = Remedy(watch, FALSE)
    BY <1>2, <2>1
  <2>3. status' = IF NoIp(watch') /\ status \in {"CONNECTED", "CONNECTING"}
                  THEN "NO_IP" ELSE status
    BY <1>2, <1>6, <2>2 DEF NoipStatus
  <2>4. /\ status' \in {"AP_SETUP", "CONNECTING", "CONNECTED", "NO_IP"}
        /\ status' = "CONNECTED" => ~NoIp(watch')
        /\ status' = "CONNECTED" => status = "CONNECTED"
    BY <1>1, <2>3
  <2>5. CASE Remedy(watch, FALSE) = "rejoin"
    <3>1. /\ rejoin' = TRUE /\ Leave(rest) /\ missed' = Grown(missed) /\ gap' = 0
      BY <2>2, <2>5 DEF NoipCheck
    <3>2. watch'.backoff = Grown(watch.backoff) /\ watch'.age = 0
          /\ watch.age >= DelayAfter(watch.backoff)
      BY <1>1, <2>2, <2>5, TickOps
    <3>3. gap >= DelayAfter(missed)
      <4>1. DelayAfter(missed) \in Int
        BY <1>1, DelayTyped
      <4>2. QED BY <1>1, <3>2, <4>1
    <3>4. stuck' = "no"
      BY <3>1 DEF Leave
    <3>5. /\ missed' = watch'.backoff /\ watch'.age <= gap' /\ gap' \in 0..ReconnectMax
          /\ missed' \in 0..BackoffCap
      BY <1>1, <1>4, <3>1, <3>2
    <3>6. stuck' \in {"no", "dhcp", "assoc"}
      BY <3>4
    <3>7. QED BY <1>3, <1>6, <2>4, <3>1, <3>3, <3>5, <3>6
  <2>6. CASE Remedy(watch, FALSE) # "rejoin"
    <3>1. /\ events' = rest /\ UNCHANGED <<drv, ip, rejoin, missed, gap>>
          /\ stuck' \in {"no", stuck}
      BY <1>6, <2>2, <2>6 DEF NoipCheck
    <3>2. watch'.backoff = watch.backoff /\ watch'.age <= watch.age
      BY <1>1, <2>2, <2>6, TickOps
    <3>3. watch'.age <= gap'
      BY <1>1, <1>4, <3>1, <3>2
    <3>4. gap' # 0 \/ gap = 0
      BY <3>1
    <3>5. QED BY <1>1, <1>3, <1>4, <1>6, <2>4, <3>1, <3>2, <3>3, <3>4
  <2>7. QED BY <2>5, <2>6
<1>7. QED BY <1>5, <1>6

\* Leaving is told by an event, and takes the address.
LEMMA LeaveOutcome ==
  ASSUME NEW rest \in Seq(Events), NEW here \in BOOLEAN, Told(rest, here, drv = "assoc"),
         drv = "idle" => rest # <<>> \/ ~here, Leave(rest)
  PROVE  /\ drv' = "idle" /\ ip' = FALSE /\ stuck' = "no" /\ events' \in Seq(Events)
         /\ Told(events', here, drv' = "assoc")
         /\ here => events' # <<>>
         /\ rest # <<>> => events' # <<>>
         /\ drv # "idle" => events' # <<>>
         /\ GotIpComes(rest) => GotIpComes(events')
<1>1. drv' = "idle" /\ ip' = FALSE /\ stuck' = "no"
  BY DEF Leave
<1>2. CASE drv = "idle"
  <2>1. events' = rest
    BY <1>2 DEF Leave
  <2>2. Told(events', here, FALSE)
    BY <1>2, <2>1 DEF Told
  <2>3. Told(events', here, drv' = "assoc")
    BY <1>1, <2>2 DEF Told
  <2>4. QED BY <1>1, <1>2, <2>1, <2>3
<1>3. CASE drv # "idle"
  <2>1. events' = Append(rest, "disc") /\ "disc" \in Events
    BY <1>3 DEF Leave, Events
  <2>2. PICK j \in BOOLEAN : Told(rest, here, j)
    BY DEF Told
  <2>3. Told(events', here, FALSE)
    BY <2>1, <2>2, AppendTold
  <2>4. Told(events', here, drv' = "assoc")
    BY <1>1, <2>3 DEF Told
  <2>5. events' # <<>> /\ (GotIpComes(rest) => GotIpComes(events'))
    BY <2>1, GotIpAppend
  <2>6. QED BY <1>1, <2>1, <2>4, <2>5
<1>4. QED BY <1>2, <1>3

\* The check keeps the invariant, called by the poll or by an event that is
\* already out of the queue.
LEMMA CheckKeeps ==
  ASSUME IInv, ~restarting, NEW rest \in Seq(Events), NoipCheck(rest),
         Told(rest, watch.assoc, drv = "assoc"),
         GotIpComes(events) => GotIpComes(rest),
         GotIpStands(events) => GotIpStands(rest),
         NoDisc(events) => NoDisc(rest),
         drv = "idle" /\ events # <<>> => rest # <<>>,
         UNCHANGED <<cfg, router, setupVars, retries, ssid, retryArmed, epc, tpc, hpc, bootVars,
                     raced, refused, bounds>>,
         polled' \in BOOLEAN
  PROVE  IInv'
<1>1. /\ watch \in Watches /\ watch.assoc \in BOOLEAN /\ ip \in BOOLEAN
      /\ status \in {"AP_SETUP", "CONNECTING", "CONNECTED", "NO_IP"}
      /\ Seq(Events) = Seq({"assoc", "disc", "gotip", "lostip"})
  BY DEF IInv, TypeOK, Watches, Events
<1>2. CASE ~watch.assoc
  <2>1. events' = rest /\ UNCHANGED <<drv, ip, stuck, status, rejoin, watch, missed, gap>>
    BY <1>2 DEF NoipCheck
  <2>2. TypeOK'
    BY <1>1, <2>1 DEF IInv, TypeOK, setupVars, bootVars, bounds
  <2>3. ~NoIp(watch')
    BY <1>2, <2>1 DEF NoIp
  <2>4. ShownJoined' /\ ShownInTime' /\ Configured' /\ WindowRaced' /\ Counted'
    BY <2>1, <2>3 DEF IInv, ShownJoined, ShownInTime, Configured, WindowRaced, Counted, setupVars
  <2>5. Story' /\ Leased'
    BY <2>1 DEF IInv, Story, Leased
  <2>6. WindowRuns'
    BY <2>1 DEF IInv, WindowRuns, Attended, setupVars
  <2>7. Moving'
    BY <2>1 DEF IInv, Moving
  <2>8. QED BY <2>2, <2>4, <2>5, <2>6, <2>7 DEF IInv
<1>3. CASE watch.assoc
  <2>1. /\ watch' \in Watches /\ watch'.assoc /\ watch'.age <= gap' /\ missed' = watch'.backoff
        /\ missed' \in 0..BackoffCap /\ gap' \in 0..ReconnectMax
        /\ status' \in {"AP_SETUP", "CONNECTING", "CONNECTED", "NO_IP"}
        /\ status' = "CONNECTED" => ~NoIp(watch')
        /\ status' = "CONNECTED" => status = "CONNECTED" \/ ip
        /\ \/ /\ events' = rest /\ UNCHANGED <<drv, ip, rejoin>>
           \/ /\ ~ip /\ rejoin' = TRUE /\ Leave(rest)
        /\ stuck' \in {"no", "dhcp", "assoc"}
    BY <1>3, CheckOutcome
  <2>2. ShownJoined' /\ ShownInTime' /\ Configured' /\ WindowRaced' /\ Counted'
    BY <2>1 DEF IInv, ShownJoined, ShownInTime, Configured, WindowRaced, Counted, setupVars
  <2>3. CASE events' = rest /\ UNCHANGED <<drv, ip, rejoin>>
    <3>1. TypeOK'
      BY <1>1, <2>1, <2>3 DEF IInv, TypeOK, setupVars, bootVars, bounds
    <3>2. watch'.assoc = watch.assoc
      BY <1>1, <1>3, <2>1 DEF Watches
    <3>3. Story' /\ Leased'
      BY <2>1, <2>3, <3>2 DEF IInv, Story, Leased
    <3>4. WindowRuns'
      BY <2>1, <2>3 DEF IInv, WindowRuns, Attended, setupVars
    <3>5. Moving'
      BY <2>3 DEF IInv, Moving
    <3>6. QED BY <2>2, <3>1, <3>3, <3>4, <3>5 DEF IInv
  <2>4. CASE ~ip /\ rejoin' = TRUE /\ Leave(rest)
    <3>1. rest = <<>> => drv # "idle"
      BY <1>1, <1>3, EndOfStory
    <3>2. /\ drv' = "idle" /\ ip' = FALSE /\ stuck' = "no" /\ events' \in Seq(Events)
          /\ Told(events', watch.assoc, drv' = "assoc") /\ events' # <<>>
          /\ GotIpComes(rest) => GotIpComes(events')
      BY <1>1, <1>3, <2>4, <3>1, LeaveOutcome
    <3>3. ~ip'
      BY <3>2
    <3>4. watch'.assoc = watch.assoc
      BY <1>1, <1>3, <2>1 DEF Watches
    <3>5. TypeOK'
      <4>1. ip' \in BOOLEAN /\ rejoin' \in BOOLEAN
        BY <2>4, <3>2
      <4>2. QED BY <1>1, <2>1, <3>2, <4>1 DEF IInv, TypeOK, setupVars, bootVars, bounds
    <3>6. Story' /\ Leased'
      BY <3>2, <3>3, <3>4 DEF Story, Leased
    <3>7. WindowRuns'
      BY <2>1, <2>4, <3>2, <3>3 DEF IInv, WindowRuns, Attended, setupVars
    <3>8. Moving'
      BY <3>2 DEF Moving
    <3>9. QED BY <2>2, <3>5, <3>6, <3>7, <3>8 DEF IInv
  <2>5. QED BY <2>1, <2>3, <2>4
<1>4. QED BY <1>2, <1>3

LEMMA PollStep == IInv /\ Poll => IInv'
<1> SUFFICES ASSUME IInv, Poll PROVE IInv'
  OBVIOUS
<1>1. /\ ~restarting /\ NoipCheck(events)
      /\ UNCHANGED <<cfg, router, setupVars, retries, ssid, retryArmed, epc, tpc, hpc, bootVars,
                     raced, refused, bounds>>
  BY DEF Poll
<1>2. polled' \in BOOLEAN
  BY DEF Poll
<1>3. events \in Seq(Events) /\ Told(events, watch.assoc, drv = "assoc")
  BY <1>1 DEF IInv, TypeOK, Events, Story
<1>4. QED BY <1>1, <1>2, <1>3, CheckKeeps

LEMMA ClockStep == IInv /\ Clock => IInv'
<1> SUFFICES ASSUME IInv, Clock PROVE IInv'
  OBVIOUS
<1>1. /\ watch \in Watches /\ watch.age \in 0..ReconnectMax /\ gap \in 0..ReconnectMax
      /\ watch.age <= gap /\ apLeft \in Off..Window /\ ReconnectMax \in Nat /\ Window \in Nat
      /\ Off = -1
  BY NetwatchAssumption, WifiAssumption DEF IInv, TypeOK, Counted, Watches, Off
<1>2. /\ watch' = Aged(watch) /\ ~polled' /\ polled' \in BOOLEAN
      /\ apLeft' = (IF apLeft = Off THEN Off ELSE apLeft - 1) /\ apLeft # 0
      /\ gap' = (IF gap < ReconnectMax THEN gap + 1 ELSE gap)
  <2>1. polled' = FALSE
    BY DEF Clock
  <2>2. QED BY <2>1 DEF Clock
<1>3. /\ watch' \in Watches /\ watch'.assoc = watch.assoc /\ watch'.backoff = watch.backoff
      /\ watch'.age <= watch.age + 1
  BY <1>1, <1>2, WatchOps
<1>4. apLeft' \in Off..Window /\ (apLeft' = Off <=> apLeft = Off)
  BY <1>1, <1>2
<1>5. gap' \in 0..ReconnectMax /\ watch'.age <= gap'
  <2>1. watch'.age \in 0..ReconnectMax
    BY <1>3 DEF Watches
  <2>2. QED BY <1>1, <1>2, <1>3, <2>1
<1>6. UNCHANGED <<driverVars, ap, expired, status, retries, ssid, rejoin, retryArmed, epc, tpc, hpc,
                  bootVars, missed, raced, refused, bounds>>
  BY DEF Clock
<1>7. TypeOK'
  BY <1>2, <1>3, <1>4, <1>5, <1>6 DEF IInv, TypeOK, driverVars, bootVars, bounds
<1>8. ShownJoined' /\ ShownInTime' /\ Configured' /\ WindowRaced' /\ Counted'
  BY <1>2, <1>3, <1>5, <1>6 DEF IInv, ShownJoined, ShownInTime, Configured, WindowRaced, Counted,
                              driverVars
<1>9. ASSUME ~restarting PROVE Story' /\ Leased' /\ WindowRuns'
  BY <1>3, <1>4, <1>6, <1>9 DEF IInv, Story, Leased, WindowRuns, Attended, driverVars
<1>10. ASSUME ~restarting PROVE Moving'
  BY <1>6, <1>10 DEF IInv, Moving, driverVars
<1>11. QED BY <1>6, <1>7, <1>8, <1>9, <1>10 DEF IInv, bootVars

LEMMA WindowEndsStep == IInv /\ (WindowEnds \/ SetupCloses) => IInv'
<1> SUFFICES ASSUME IInv, WindowEnds \/ SetupCloses PROVE IInv'
  OBVIOUS
<1>1. /\ UNCHANGED <<driverVars, staVars, epc, hpc, polled, bootVars, waits, refused, bounds>>
      /\ watch.assoc \in BOOLEAN
  BY DEF WindowEnds, SetupCloses, IInv, TypeOK, Watches, ghosts, waits
<1>2. /\ apLeft' \in Off..Window /\ expired' \in BOOLEAN /\ raced' \in BOOLEAN /\ ap' \in BOOLEAN
      /\ tpc' \in {"idle", "mode"}
  <2>1. CASE WindowEnds
    <3>1. apLeft' \in Off..Window /\ ap' \in BOOLEAN
      BY <2>1, WifiAssumption DEF WindowEnds, IInv, TypeOK, Off
    <3>2. expired' \in BOOLEAN /\ tpc' \in {"idle", "mode"}
      BY <2>1 DEF WindowEnds, IInv, TypeOK
    <3>3. raced' \in BOOLEAN
      BY <2>1 DEF WindowEnds, IInv, TypeOK
    <3>4. QED BY <3>1, <3>2, <3>3
  <2>2. CASE SetupCloses
    BY <2>2 DEF SetupCloses, IInv, TypeOK, ghosts, waits
  <2>3. QED BY <2>1, <2>2
<1>3. TypeOK'
  BY <1>1, <1>2 DEF IInv, TypeOK, driverVars, staVars, bootVars, waits, bounds
<1>4. ShownJoined' /\ ShownInTime' /\ Configured' /\ Counted'
  BY <1>1 DEF IInv, ShownJoined, ShownInTime, Configured, Counted, driverVars, staVars, waits
<1>5. WindowRaced'
  BY <1>1 DEF IInv, WindowRaced, WindowEnds, SetupCloses, ghosts, waits
<1>6. ASSUME ~restarting PROVE Story' /\ Leased'
  BY <1>1, <1>6 DEF IInv, Story, Leased, driverVars, staVars
<1>7. ASSUME ~restarting PROVE WindowRuns'
  <2>1. CASE WindowEnds
    <3>1. CASE status = "CONNECTED"
      BY <1>1, <1>7, <2>1, <3>1 DEF WindowEnds, IInv, WindowRuns, Attended, driverVars, staVars
    <3>2. CASE status # "CONNECTED"
      BY <2>1, <3>2 DEF WindowEnds, WindowRuns, Attended
    <3>3. QED BY <3>1, <3>2
  <2>2. CASE SetupCloses
    <3>1. ap' = FALSE
      BY <2>2 DEF SetupCloses
    <3>2. QED BY <3>1 DEF WindowRuns
  <2>3. QED BY <2>1, <2>2
<1>8. ASSUME ~restarting PROVE Moving'
  BY <1>1, <1>8 DEF IInv, Moving, driverVars, staVars
<1>9. QED BY <1>1, <1>3, <1>4, <1>5, <1>6, <1>7, <1>8 DEF IInv, bootVars

LEMMA RetryStep == IInv /\ Retry => IInv'
<1> SUFFICES ASSUME IInv, Retry PROVE IInv'
  OBVIOUS
<1>1. /\ UNCHANGED <<cfg, ip, stuck, events, router, setupVars, status, retries, ssid, rejoin, watch,
                     taskVars, bootVars, waits, raced, asks>>
      /\ retryArmed' = FALSE /\ watch.assoc \in BOOLEAN /\ events \in Seq(Events)
  BY DEF Retry, IInv, TypeOK, Watches, Events
<1>2. \/ (status = "CONNECTED" \/ watch.assoc \/ ~ssid) /\ UNCHANGED <<drv, refused, faults>>
      \/ ~(status = "CONNECTED" \/ watch.assoc \/ ~ssid) /\ Attempt
  BY DEF Retry
<1>3. /\ drv' \in {"idle", "joining", "assoc"}
      /\ drv' = "assoc" <=> drv = "assoc"
      /\ drv # "idle" => drv' = drv
      /\ ~(status = "CONNECTED" \/ watch.assoc \/ ~ssid) /\ drv' = "idle" => refused'
      /\ refused' \in BOOLEAN /\ faults' \in 0..MaxFaults
  <2>1. TypeOK
    BY DEF IInv
  <2>2. CASE UNCHANGED <<drv, refused, faults>> /\ (status = "CONNECTED" \/ watch.assoc \/ ~ssid)
    BY <2>1, <2>2 DEF TypeOK
  <2>3. CASE Attempt
    BY <2>1, <2>3, AttemptOutcome
  <2>4. QED BY <1>2, <2>2, <2>3
<1>4. TypeOK'
  <2>1. retryArmed' \in BOOLEAN
    BY <1>1
  <2>2. QED BY <1>1, <1>3, <2>1 DEF IInv, TypeOK, setupVars, taskVars, bootVars, ghosts, waits, bounds
<1>5. ShownJoined' /\ ShownInTime' /\ Configured' /\ WindowRaced' /\ Counted'
  BY <1>1 DEF IInv, ShownJoined, ShownInTime, Configured, WindowRaced, Counted, setupVars,
              taskVars, ghosts, waits
<1>6. ASSUME ~restarting PROVE Story' /\ Leased'
  BY <1>1, <1>3, <1>6 DEF IInv, Story, Told, Leased, taskVars
<1>7. ASSUME ~restarting PROVE WindowRuns'
  BY <1>1, <1>7 DEF IInv, WindowRuns, Attended, setupVars, taskVars, ghosts, waits
<1>8. ASSUME ~restarting PROVE Moving'
  <2>1. CASE ~ssid
    BY <1>1, <2>1 DEF Moving
  <2>2. CASE ssid /\ ~(status = "CONNECTED" \/ watch.assoc)
    BY <1>1, <1>3, <2>2 DEF Moving
  <2>3. CASE status = "CONNECTED" \/ watch.assoc
    <3>1. watch.assoc \/ epc # "idle"
      BY <2>3 DEF IInv, ShownJoined
    <3>2. events = <<>> /\ watch.assoc => drv = "assoc"
      <4>1. Told(events, watch.assoc, drv = "assoc")
        BY <1>8 DEF IInv, Story
      <4>2. QED BY <1>1, <4>1 DEF Told, AtTheEnd
    <3>3. QED BY <1>1, <1>3, <3>1, <3>2 DEF Moving, taskVars
  <2>4. QED BY <2>1, <2>2, <2>3
<1>9. QED BY <1>1, <1>4, <1>5, <1>6, <1>7, <1>8 DEF IInv, bootVars

-----------------------------------------------------------------------------
(***************************************************************************)
(* The event task keeps the invariant.                                     *)
(***************************************************************************)

\* What the event task knows of the event it hears, and of the ones that remain.
LEMMA HeardOutcome ==
  ASSUME IInv, NEW e, Heard(e)
  PROVE  /\ ~restarting /\ epc = "idle" /\ watch \in Watches /\ watch.assoc \in BOOLEAN
         /\ events \in Seq(Events) /\ Tail(events) \in Seq(Events)
         /\ e \in {"gotip", "lostip"} => watch.assoc
         /\ e = "assoc" => ~watch.assoc
         /\ \A hence \in BOOLEAN :
              (hence <=> e # "disc") => Told(Tail(events), hence, drv = "assoc")
         /\ drv # "assoc" => Tail(events) # <<>> \/ e = "disc"
         /\ e # "gotip" /\ GotIpComes(events) => GotIpComes(Tail(events))
         /\ e # "gotip" /\ GotIpStands(events) => GotIpStands(Tail(events))
         /\ e = "gotip" /\ ip => GotIpStands(Tail(events)) \/ NoDisc(Tail(events))
         /\ NoDisc(events) => NoDisc(Tail(events))
         /\ e = "disc" /\ ip => GotIpStands(Tail(events)) /\ GotIpComes(Tail(events))
<1>1. /\ ~restarting /\ epc = "idle" /\ watch \in Watches /\ watch.assoc \in BOOLEAN
      /\ events \in Seq(Events) /\ events # <<>> /\ Head(events) = e
  BY DEF Heard, IInv, TypeOK, Watches, Events
<1>2. Story /\ Leased
  BY <1>1 DEF IInv
<1>3. PICK j \in BOOLEAN : /\ Told(events, watch.assoc, j)
                           /\ j <=> drv = "assoc"
  BY <1>2 DEF Story, Told
<1>4. PICK h \in BOOLEAN : h <=> Head(events) # "disc"
  OBVIOUS
<1>5. /\ Tail(events) \in Seq(Events) /\ Told(Tail(events), h, j)
      /\ Head(events) \in {"gotip", "lostip"} => watch.assoc
      /\ Head(events) = "assoc" => ~watch.assoc
      /\ ~j => Tail(events) # <<>> \/ Head(events) = "disc"
  BY <1>1, <1>3, <1>4, TailTold
<1>6. ASSUME NEW hence \in BOOLEAN, hence <=> e # "disc"
      PROVE  Told(Tail(events), hence, drv = "assoc")
  <2>1. hence = h
    BY <1>1, <1>4, <1>6
  <2>2. Told(Tail(events), hence, j)
    BY <1>5, <2>1
  <2>3. QED BY <1>3, <2>2 DEF Told
<1>7. /\ GotIpComes(events) /\ Head(events) # "gotip" => GotIpComes(Tail(events))
      /\ GotIpStands(events) /\ Head(events) # "gotip" => GotIpStands(Tail(events))
      /\ GotIpStands(events) /\ Head(events) = "gotip" =>
           GotIpStands(Tail(events)) \/ NoDisc(Tail(events))
      /\ NoDisc(events) => NoDisc(Tail(events)) /\ Head(events) # "disc"
      /\ GotIpStands(events) => GotIpComes(events)
  BY <1>1, GotIpTail
<1>8. ip => GotIpStands(events) \/ NoDisc(events)
  BY <1>2 DEF Leased
<1>9. QED BY <1>1, <1>3, <1>5, <1>6, <1>7, <1>8

LEMMA OnStaConnectedStep == IInv /\ OnStaConnected => IInv'
<1> SUFFICES ASSUME IInv, OnStaConnected PROVE IInv'
  OBVIOUS
<1>1. /\ Heard("assoc") /\ events' = Tail(events) /\ retryArmed' = FALSE
      /\ watch' = OnAssoc(watch)
      /\ UNCHANGED <<drv, cfg, ip, stuck, router, setupVars, status, retries, ssid, rejoin,
                     taskVars, bootVars, ghosts, bounds>>
  BY DEF OnStaConnected, Take
<1>2. /\ ~restarting /\ epc = "idle" /\ watch \in Watches /\ watch.assoc \in BOOLEAN
      /\ Tail(events) \in Seq(Events) /\ ~watch.assoc
      /\ \A hence \in BOOLEAN : hence => Told(Tail(events), hence, drv = "assoc")
      /\ drv # "assoc" => Tail(events) # <<>>
      /\ GotIpComes(events) => GotIpComes(Tail(events))
      /\ GotIpStands(events) => GotIpStands(Tail(events))
  BY <1>1, HeardOutcome
<1>3. /\ watch' \in Watches /\ watch'.assoc /\ watch'.backoff = watch.backoff /\ watch'.age = 0
      /\ watch'.assoc \in BOOLEAN
  <2>1. /\ watch' \in Watches /\ watch'.assoc /\ watch'.backoff = watch.backoff
        /\ watch'.age = 0
    BY <1>1, <1>2, WatchOps
  <2>2. QED BY <2>1 DEF Watches
<1>4. TypeOK'
  <2>1. retryArmed' \in BOOLEAN
    BY <1>1
  <2>2. QED BY <1>1, <1>2, <1>3, <2>1 DEF IInv, TypeOK, Events, setupVars, taskVars, bootVars,
                                        ghosts, waits, bounds
<1>5. status \notin {"CONNECTED", "NO_IP"}
  BY <1>2 DEF IInv, ShownJoined
<1>6. ShownJoined' /\ ShownInTime' /\ Configured' /\ WindowRaced'
  BY <1>1, <1>3, <1>5 DEF IInv, ShownJoined, ShownInTime, Configured, WindowRaced, setupVars,
                          taskVars, ghosts, waits
<1>7. Counted'
  BY <1>1, <1>3 DEF IInv, Counted, TypeOK, ghosts, waits
<1>8. Story'
  BY <1>1, <1>2, <1>3 DEF Story
<1>9. Leased'
  BY <1>1, <1>2 DEF IInv, Leased, taskVars
<1>10. WindowRuns'
  BY <1>1, <1>2 DEF IInv, WindowRuns, Attended, setupVars, taskVars, ghosts, waits
<1>11. Moving'
  BY <1>1, <1>2 DEF Moving
<1>12. QED BY <1>4, <1>6, <1>7, <1>8, <1>9, <1>10, <1>11 DEF IInv

\* Whatever ends an association or an attempt: the watchdog hears of it, and what
\* remains is a true account.
LEMMA LostOutcome ==
  ASSUME IInv, Take("disc"), watch' = OnDisassoc(watch)
  PROVE  /\ ~restarting /\ epc = "idle" /\ events' \in Seq(Events)
         /\ watch' \in Watches /\ ~watch'.assoc /\ watch'.assoc \in BOOLEAN
         /\ watch'.backoff = watch.backoff /\ watch'.age <= gap
         /\ ~NoIp(watch')
         /\ \A j \in BOOLEAN : (j <=> drv = "assoc") => Told(events', watch'.assoc, j)
         /\ ip => GotIpStands(events')
         /\ ip => GotIpComes(events')
         /\ GotIpComes(events) => GotIpComes(events')
<1>1. Heard("disc") /\ events' = Tail(events)
  BY DEF Take
<1>2. /\ ~restarting /\ epc = "idle" /\ watch \in Watches /\ watch.assoc \in BOOLEAN
      /\ Tail(events) \in Seq(Events)
      /\ \A hence \in BOOLEAN : ~hence => Told(Tail(events), hence, drv = "assoc")
      /\ GotIpComes(events) => GotIpComes(Tail(events))
      /\ ip => GotIpStands(Tail(events)) /\ GotIpComes(Tail(events))
  BY <1>1, HeardOutcome
<1>3. /\ watch' \in Watches /\ ~watch'.assoc /\ watch'.backoff = watch.backoff
      /\ watch'.age = 0
  BY <1>2, WatchOps
<1>4. watch'.assoc \in BOOLEAN /\ ~NoIp(watch') /\ watch'.age <= gap
  BY <1>3 DEF Watches, NoIp, IInv, TypeOK
<1>5. Told(events', watch'.assoc, drv = "assoc")
  BY <1>1, <1>2, <1>3, <1>4
<1>6. \A j \in BOOLEAN : (j <=> drv = "assoc") => Told(events', watch'.assoc, j)
  BY <1>5 DEF Told
<1>7. QED BY <1>1, <1>2, <1>3, <1>4, <1>6

\* ... and what the handler has to see to: a station that is no longer shown as
\* joined, and is not left idle.
LEMMA LostKeeps ==
  ASSUME IInv, Take("disc"), watch' = OnDisassoc(watch),
         drv' \in {"idle", "joining", "assoc"}, drv' = "assoc" <=> drv = "assoc",
         UNCHANGED <<cfg, ip, stuck, router, setupVars, ssid, tpc, hpc, polled, bootVars, waits,
                     raced, asks>>,
         refused' \in BOOLEAN, faults' \in 0..MaxFaults,
         epc' \in {"idle", "restore"}, epc' = "restore" => ~expired,
         status' \in {"AP_SETUP", "CONNECTING", "CONNECTED", "NO_IP"},
         status' \in {"CONNECTED", "NO_IP"} => epc' = "restore" /\ status' = status,
         ssid /\ drv' = "idle" /\ ~retryArmed' /\ ~refused' => epc' = "restore",
         retries' \in 0..RetryLimit, rejoin' \in BOOLEAN, retryArmed' \in BOOLEAN
  PROVE  IInv'
<1>1. /\ ~restarting /\ epc = "idle" /\ events' \in Seq(Events)
      /\ watch' \in Watches /\ ~watch'.assoc /\ watch'.assoc \in BOOLEAN
      /\ watch'.backoff = watch.backoff /\ watch'.age <= gap
      /\ ~NoIp(watch')
      /\ \A j \in BOOLEAN : (j <=> drv = "assoc") => Told(events', watch'.assoc, j)
      /\ ip => GotIpStands(events')
      /\ ip => GotIpComes(events')
      /\ GotIpComes(events) => GotIpComes(events')
  BY LostOutcome
<1>2. TypeOK'
  BY <1>1 DEF IInv, TypeOK, Events, setupVars, bootVars, ghosts, waits, bounds
<1>3. ShownJoined' /\ ShownInTime' /\ Configured' /\ WindowRaced' /\ Counted'
  BY <1>1 DEF IInv, ShownJoined, ShownInTime, Configured, WindowRaced, Counted, setupVars, ghosts, waits
<1>4. Story'
  <2>1. (drv' = "assoc") \in BOOLEAN
    OBVIOUS
  <2>2. Told(events', watch'.assoc, drv' = "assoc")
    BY <1>1, <2>1
  <2>3. QED BY <2>2 DEF Story
<1>5. Leased' /\ WindowRuns'
  BY <1>1 DEF IInv, Leased, WindowRuns, Attended, setupVars, ghosts, waits
<1>6. Moving'
  BY DEF Moving
<1>7. QED BY <1>2, <1>3, <1>4, <1>5, <1>6 DEF IInv

LEMMA OnLeftStep == IInv /\ OnLeft => IInv'
<1> SUFFICES ASSUME IInv, OnLeft PROVE IInv'
  OBVIOUS
<1>1. /\ Take("disc") /\ watch' = OnDisassoc(watch) /\ rejoin' = FALSE
      /\ status' = "CONNECTING" /\ Connect /\ refused' = FALSE
      /\ retryArmed' = IF drv' = "idle" THEN TRUE ELSE retryArmed
      /\ UNCHANGED <<cfg, ip, stuck, router, setupVars, retries, ssid, taskVars, bootVars, waits,
                     raced, asks>>
  BY DEF OnLeft
<1>2. /\ drv' \in {"idle", "joining", "assoc"} /\ (drv' = "assoc" <=> drv = "assoc")
      /\ faults' \in 0..MaxFaults
  <2>1. TypeOK
    BY DEF IInv
  <2>2. QED BY <1>1, <2>1, ConnectOutcome
<1>3. rejoin' \in BOOLEAN /\ refused' \in BOOLEAN
  BY <1>1
<1>4. retryArmed' \in BOOLEAN /\ (drv' = "idle" => retryArmed')
  BY <1>1 DEF IInv, TypeOK
<1>5. epc = "idle" /\ epc' = epc /\ retries' \in 0..RetryLimit
  BY <1>1 DEF Take, Heard, IInv, TypeOK, taskVars
<1>6. QED BY <1>1, <1>2, <1>3, <1>4, <1>5, LostKeeps DEF taskVars

LEMMA OnLinkLostStep == IInv /\ OnLinkLost => IInv'
<1> SUFFICES ASSUME IInv, OnLinkLost PROVE IInv'
  OBVIOUS
<1>1. /\ Take("disc") /\ watch' = OnDisassoc(watch) /\ status \in {"CONNECTED", "NO_IP"}
      /\ \/ expired /\ status' = "CONNECTING" /\ Attempt /\ epc' = epc
         \/ ~expired /\ epc' = "restore" /\ UNCHANGED <<status, drv, refused, faults>>
      /\ UNCHANGED <<cfg, ip, stuck, router, setupVars, retries, ssid, rejoin, retryArmed, tpc, hpc,
                     polled, bootVars, waits, raced, asks>>
  BY DEF OnLinkLost
<1>2. /\ TypeOK /\ epc = "idle" /\ retries' \in 0..RetryLimit /\ rejoin' \in BOOLEAN
      /\ retryArmed' \in BOOLEAN /\ drv \in {"idle", "joining", "assoc"}
      /\ refused \in BOOLEAN /\ faults \in 0..MaxFaults
      /\ status \in {"AP_SETUP", "CONNECTING", "CONNECTED", "NO_IP"}
  BY <1>1 DEF IInv, TypeOK, Take, Heard
<1>3. CASE expired /\ status' = "CONNECTING" /\ Attempt /\ epc' = epc
  <2>1. /\ drv' \in {"idle", "joining", "assoc"} /\ (drv' = "assoc" <=> drv = "assoc")
        /\ drv' = "idle" => refused'
        /\ refused' \in BOOLEAN /\ faults' \in 0..MaxFaults
    BY <1>2, <1>3, AttemptOutcome
  <2>2. QED BY <1>1, <1>2, <1>3, <2>1, LostKeeps
<1>4. CASE ~expired /\ epc' = "restore" /\ UNCHANGED <<status, drv, refused, faults>>
  BY <1>1, <1>2, <1>4, LostKeeps
<1>5. QED BY <1>1, <1>3, <1>4

LEMMA OnJoinFailedStep == IInv /\ OnJoinFailed => IInv'
<1> SUFFICES ASSUME IInv, OnJoinFailed PROVE IInv'
  OBVIOUS
<1>1. /\ Take("disc") /\ watch' = OnDisassoc(watch) /\ status \notin {"CONNECTED", "NO_IP"}
      /\ retries' = (IF retries < RetryLimit THEN retries + 1 ELSE retries)
      /\ \/ Attempt /\ status' = status /\ retryArmed' = retryArmed
         \/ /\ status' \in {"CONNECTING", "AP_SETUP"}
            /\ retryArmed' = TRUE /\ refused' = FALSE /\ UNCHANGED <<drv, faults>>
      /\ UNCHANGED <<cfg, ip, stuck, router, setupVars, ssid, rejoin, taskVars, bootVars, waits,
                     raced, asks>>
  BY DEF OnJoinFailed
<1>2. /\ TypeOK /\ epc = "idle" /\ epc' = epc /\ rejoin' \in BOOLEAN /\ retries \in 0..RetryLimit
      /\ retryArmed \in BOOLEAN /\ drv \in {"idle", "joining", "assoc"}
      /\ faults \in 0..MaxFaults
      /\ status \in {"AP_SETUP", "CONNECTING", "CONNECTED", "NO_IP"}
      /\ UNCHANGED <<tpc, hpc, polled>>
  BY <1>1 DEF IInv, TypeOK, Take, Heard, taskVars
<1>3. retries' \in 0..RetryLimit
  BY <1>1, <1>2, WifiAssumption
<1>4. CASE Attempt /\ status' = status /\ retryArmed' = retryArmed
  <2>1. /\ drv' \in {"idle", "joining", "assoc"} /\ (drv' = "assoc" <=> drv = "assoc")
        /\ drv' = "idle" => refused'
        /\ refused' \in BOOLEAN /\ faults' \in 0..MaxFaults
    BY <1>2, <1>4, AttemptOutcome
  <2>2. QED BY <1>1, <1>2, <1>3, <1>4, <2>1, LostKeeps
<1>5. CASE /\ status' \in {"CONNECTING", "AP_SETUP"}
           /\ retryArmed' = TRUE /\ refused' = FALSE /\ UNCHANGED <<drv, faults>>
  <2>1. retryArmed' /\ retryArmed' \in BOOLEAN /\ refused' \in BOOLEAN
    BY <1>5
  <2>2. QED BY <1>1, <1>2, <1>3, <1>5, <2>1, LostKeeps
<1>6. QED BY <1>1, <1>4, <1>5

\* The watch of a new boot is one of no association.
LEMMA NewWatchTyped ==
  /\ NewWatch \in Watches /\ ~NewWatch.assoc /\ NewWatch.age = 0 /\ NewWatch.backoff = 0
  /\ ~NoIp(NewWatch) /\ NewWatch.assoc \in BOOLEAN
<1>1. /\ NewWatch.assoc = FALSE /\ NewWatch.ep = FALSE /\ NewWatch.stage = 0
      /\ NewWatch.age = 0 /\ NewWatch.backoff = 0
  BY DEF NewWatch
<1>2. ~NewWatch.assoc /\ ~NewWatch.ep
  BY <1>1
<1>3. FALSE \in BOOLEAN /\ 0 \in 0..2 /\ 0 \in 0..ReconnectMax /\ 0 \in 0..BackoffCap
  BY NetwatchAssumption
<1>4. NewWatch \in [assoc : BOOLEAN, ep : BOOLEAN, stage : 0..2, age : 0..ReconnectMax,
                    backoff : 0..BackoffCap]
  BY <1>3 DEF NewWatch
<1>5. NewWatch \in Watches
  BY <1>1, <1>2, <1>4, Made
<1>6. QED BY <1>1, <1>2, <1>5 DEF NoIp, Watches

\* What a boot begins with, and the fault it may be.
LEMMA BootFields ==
  ASSUME NEW stored \in BOOLEAN, NEW room \in BOOLEAN, NEW how \in Starts(stored, room)
  PROVE  /\ Boot(how).apLeft = Window
         /\ Boot(how).ssid \in BOOLEAN
         /\ Boot(how).status \in {"CONNECTING", "AP_SETUP"}
         /\ Boot(how).drv \in {"joining", "idle"}
         /\ Boot(how).ssid /\ Boot(how).drv = "idle" => how = "idle"
         /\ Fault(how) \in 0..1 /\ (Fault(how) = 1 => room)
<1>1. how \in {"none", "joins", "idle", "unfit"}
  BY DEF Starts
<1>3. Fault(how) \in 0..1 /\ (Fault(how) = 1 => room)
  BY <1>1 DEF Fault, Starts
<1>4. Boot(how).apLeft = Window
  BY DEF Boot
<1>5. Boot(how).ssid = (how \in {"joins", "idle"})
  BY Zenon DEF Boot
<1>6. Boot(how).ssid \in BOOLEAN
  <2>1. (how \in {"joins", "idle"}) = TRUE \/ (how \in {"joins", "idle"}) = FALSE
    OBVIOUS
  <2>2. QED BY <1>5, <2>1
<1>7. Boot(how).status \in {"CONNECTING", "AP_SETUP"}
  <2>1. Boot(how).status = IF how \in {"joins", "idle"} THEN "CONNECTING" ELSE "AP_SETUP"
    BY DEF Boot
  <2>2. QED BY <2>1
<1>8. Boot(how).drv \in {"joining", "idle"} /\ (Boot(how).drv = "idle" => how # "joins")
  <2>1. Boot(how).drv = IF how = "joins" THEN "joining" ELSE "idle"
    BY DEF Boot
  <2>2. QED BY <2>1
<1>9. Boot(how).ssid /\ Boot(how).drv = "idle" => how = "idle"
  BY <1>5, <1>8
<1>10. QED BY <1>3, <1>4, <1>6, <1>7, <1>8, <1>9

\* The chip starts again from what is stored, whatever it was about.
LEMMA StartAgainStep == IInv /\ StartAgain => IInv'
<1> SUFFICES ASSUME IInv, StartAgain PROVE IInv'
  OBVIOUS
<1>0. PICK how \in Starts(nvs, faults < MaxFaults) :
        /\ drv' = Boot(how).drv /\ cfg' = Boot(how).ssid /\ ssid' = Boot(how).ssid
        /\ status' = Boot(how).status /\ apLeft' = Boot(how).apLeft
        /\ refused' = (how = "idle") /\ faults' = faults + Fault(how)
  BY DEF StartAgain
<1>1. /\ ip' = FALSE /\ stuck' = "no" /\ events' = <<>>
      /\ ap' = TRUE /\ expired' = FALSE /\ retries' = 0 /\ rejoin' = FALSE
      /\ watch' = NewWatch /\ retryArmed' = FALSE /\ restarting' = FALSE
      /\ epc' = "idle" /\ tpc' = "idle" /\ hpc' = "idle" /\ polled' = TRUE
      /\ missed' = 0 /\ gap' = ReconnectMax /\ raced' = FALSE
      /\ UNCHANGED <<nvs, router, asks>>
  BY DEF StartAgain
<1>2. nvs \in BOOLEAN /\ faults \in 0..MaxFaults
  BY DEF IInv, TypeOK
<1>3. /\ apLeft' = Window /\ ssid' \in BOOLEAN /\ cfg' = ssid' /\ refused' \in BOOLEAN
      /\ status' \in {"CONNECTING", "AP_SETUP"}
      /\ drv' \in {"joining", "idle"}
      /\ ssid' /\ drv' = "idle" => refused'
      /\ faults' \in 0..MaxFaults
  <2>1. (faults < MaxFaults) \in BOOLEAN
    OBVIOUS
  <2>2. /\ Boot(how).apLeft = Window /\ Boot(how).ssid \in BOOLEAN
        /\ Boot(how).status \in {"CONNECTING", "AP_SETUP"}
        /\ Boot(how).drv \in {"joining", "idle"}
        /\ Boot(how).ssid /\ Boot(how).drv = "idle" => how = "idle"
        /\ Fault(how) \in 0..1 /\ (Fault(how) = 1 => faults < MaxFaults)
    BY <1>2, <2>1, BootFields
  <2>3. faults' \in 0..MaxFaults
    BY <1>0, <1>2, <2>2, WifiAssumption
  <2>4. QED BY <1>0, <2>2, <2>3
<1>4. ~ip' /\ ~expired' /\ (ssid' => cfg')
  BY <1>1, <1>3
<1>5. TypeOK'
  <2>1. /\ ip' \in BOOLEAN /\ ap' \in BOOLEAN /\ expired' \in BOOLEAN /\ rejoin' \in BOOLEAN
        /\ retryArmed' \in BOOLEAN /\ restarting' \in BOOLEAN /\ polled' \in BOOLEAN
        /\ raced' \in BOOLEAN
    BY <1>1
  <2>2. apLeft' \in Off..Window /\ retries' \in 0..RetryLimit /\ missed' \in 0..BackoffCap
        /\ gap' \in 0..ReconnectMax
    BY <1>1, <1>3, WifiAssumption, NetwatchAssumption DEF Off
  <2>3. watch' \in Watches
    BY <1>1, NewWatchTyped
  <2>4. events' \in Seq({"assoc", "disc", "gotip", "lostip"})
    BY <1>1
  <2>5. QED BY <1>1, <1>2, <1>3, <2>1, <2>2, <2>3, <2>4 DEF IInv, TypeOK, bounds
<1>6. ShownJoined' /\ ShownInTime' /\ Configured' /\ WindowRaced'
  BY <1>1, <1>3, <1>4 DEF ShownJoined, ShownInTime, Configured, WindowRaced
<1>7. Counted'
  BY <1>1, NewWatchTyped, NetwatchAssumption DEF Counted
<1>8. Story'
  <2>1. drv' # "assoc" /\ ~watch'.assoc
    BY <1>1, <1>3, NewWatchTyped
  <2>2. Told(<<>>, watch'.assoc, drv' = "assoc")
    BY <2>1 DEF Told, AtTheEnd
  <2>3. QED BY <1>1, <2>2 DEF Story
<1>9. Leased'
  BY <1>4 DEF Leased
<1>10. WindowRuns'
  BY <1>3, <1>4, WifiAssumption DEF WindowRuns, Off
<1>11. Moving'
  BY <1>1, <1>3 DEF Moving
<1>12. QED BY <1>5, <1>6, <1>7, <1>8, <1>9, <1>10, <1>11 DEF IInv

LEMMA RestoreSetupStep == IInv /\ RestoreSetup => IInv'
<1> SUFFICES ASSUME IInv, RestoreSetup PROVE IInv'
  OBVIOUS
<1>1. /\ epc = "restore" /\ ap' = TRUE /\ epc' = "open"
      /\ UNCHANGED <<driverVars, expired, apLeft, staVars, tpc, hpc, polled, bootVars, ghosts,
                     bounds>>
  BY DEF RestoreSetup
<1>2. TypeOK'
  <2>1. ap' \in BOOLEAN
    BY <1>1
  <2>2. QED BY <1>1, <2>1 DEF IInv, TypeOK, driverVars, staVars, bootVars, ghosts, waits, bounds
<1>3. ShownJoined' /\ ShownInTime' /\ Configured' /\ WindowRaced' /\ Counted'
  BY <1>1 DEF IInv, ShownJoined, ShownInTime, Configured, WindowRaced, Counted, driverVars,
              staVars, ghosts, waits
<1>4. ASSUME ~restarting PROVE Story' /\ Leased'
  BY <1>1, <1>4 DEF IInv, Story, Leased, driverVars, staVars
<1>5. WindowRuns' /\ Moving'
  BY <1>1 DEF WindowRuns, Attended, Moving
<1>6. QED BY <1>1, <1>2, <1>3, <1>4, <1>5 DEF IInv, bootVars

LEMMA SetupRestoredStep == IInv /\ SetupRestored => IInv'
<1> SUFFICES ASSUME IInv, SetupRestored PROVE IInv'
  OBVIOUS
<1>1. CASE ~ap
  BY <1>1, StartAgainStep DEF SetupRestored
<1>2. CASE ap
  <2>1. /\ epc = "open" /\ apLeft' = Armed /\ status' = "CONNECTING" /\ Attempt
        /\ epc' = "idle"
        /\ UNCHANGED <<cfg, ip, stuck, events, router, ap, expired, retries, ssid, rejoin, watch,
                       retryArmed, tpc, hpc, polled, bootVars, waits, raced, asks>>
    BY <1>2 DEF SetupRestored
  <2>2. /\ TypeOK /\ (ssid => cfg) /\ (expired => raced) /\ apLeft \in Off..Window
    BY <2>1 DEF IInv, Configured, WindowRaced, TypeOK
  <2>3. /\ drv' \in {"idle", "joining", "assoc"} /\ (drv' = "assoc" <=> drv = "assoc")
        /\ drv' = "idle" => refused'
        /\ refused' \in BOOLEAN /\ faults' \in 0..MaxFaults
    BY <2>1, <2>2, AttemptOutcome
  <2>4. apLeft' \in Off..Window /\ (apLeft' = Off => raced)
    BY <2>1, <2>2, WifiAssumption DEF Armed, Off
  <2>5. TypeOK'
    BY <2>1, <2>3, <2>4 DEF IInv, TypeOK, bootVars, ghosts, waits, bounds
  <2>6. ShownJoined' /\ ShownInTime' /\ Configured' /\ WindowRaced' /\ Counted'
    BY <2>1 DEF IInv, ShownJoined, ShownInTime, Configured, WindowRaced, Counted, ghosts, waits
  <2>7. ASSUME ~restarting PROVE Story' /\ Leased' /\ WindowRuns'
    <3>1. ip => GotIpStands(events)
      BY <2>1, <2>7 DEF IInv, Leased
    <3>2. ip => GotIpComes(events)
      BY <3>1 DEF GotIpStands, GotIpComes
    <3>3. Story' /\ Leased'
      BY <2>1, <2>3, <2>7, <3>1 DEF IInv, Story, Told, Leased
    <3>4. WindowRuns'
      BY <2>1, <2>4, <3>2 DEF WindowRuns, Attended, ghosts, waits
    <3>5. QED BY <3>3, <3>4
  <2>8. Moving'
    BY <2>3 DEF Moving
  <2>9. QED BY <2>1, <2>5, <2>6, <2>7, <2>8 DEF IInv, bootVars
<1>3. QED BY <1>1, <1>2

LEMMA OnGotIpStep == IInv /\ OnGotIp => IInv'
<1> SUFFICES ASSUME IInv, OnGotIp PROVE IInv'
  OBVIOUS
<1>1. /\ Heard("gotip") /\ events' = Tail(events) /\ watch' = Ticked(watch, TRUE)
      /\ status' = "CONNECTED" /\ retries' = 0 /\ retryArmed' = FALSE
      /\ apLeft' = Off /\ ap' = FALSE /\ missed' = 0 /\ gap' = ReconnectMax /\ raced' = FALSE
      /\ UNCHANGED <<drv, cfg, ip, stuck, router, expired, ssid, rejoin, taskVars, bootVars, refused,
                     bounds>>
  BY DEF OnGotIp, Take, Answered
<1>2. /\ ~restarting /\ epc = "idle" /\ watch \in Watches /\ watch.assoc /\ watch.assoc \in BOOLEAN
      /\ Tail(events) \in Seq(Events)
      /\ \A hence \in BOOLEAN : hence => Told(Tail(events), hence, drv = "assoc")
      /\ drv # "assoc" => Tail(events) # <<>>
      /\ ip => GotIpStands(Tail(events)) \/ NoDisc(Tail(events))
  BY <1>1, HeardOutcome
<1>3. /\ watch' \in Watches /\ watch'.assoc = watch.assoc
  BY <1>1, <1>2, WatchOps
<1>4. /\ watch'.backoff = 0 /\ ~NoIp(watch') /\ watch'.age = 0
  BY <1>1, <1>2, TickOps
<1>5. TypeOK'
  <2>1. retryArmed' \in BOOLEAN /\ ap' \in BOOLEAN /\ raced' \in BOOLEAN
    BY <1>1
  <2>2. apLeft' \in Off..Window /\ retries' \in 0..RetryLimit /\ missed' \in 0..BackoffCap
        /\ gap' \in 0..ReconnectMax
    BY <1>1, WifiAssumption, NetwatchAssumption DEF Off
  <2>3. /\ UNCHANGED <<drv, cfg, ip, stuck, router, expired, ssid, rejoin, taskVars, bootVars, refused,
                     bounds>>
        /\ status' = "CONNECTED" /\ events' = Tail(events) /\ watch' \in Watches
    BY <1>1, <1>3
  <2>4. QED BY <1>2, <2>1, <2>2, <2>3 DEF IInv, TypeOK, Events, taskVars, bootVars, bounds
<1>6. ShownJoined' /\ ShownInTime' /\ Configured' /\ WindowRaced'
  BY <1>1, <1>2, <1>3, <1>4 DEF IInv, ShownJoined, ShownInTime, Configured, WindowRaced, taskVars
<1>7. Counted'
  <2>1. missed' = 0 /\ gap' = ReconnectMax
    BY <1>1
  <2>2. QED BY <1>4, <2>1, NetwatchAssumption DEF Counted
<1>8. Story' /\ Leased'
  BY <1>1, <1>2, <1>3 DEF IInv, Story, Leased, taskVars
<1>9. WindowRuns'
  <2>1. ~ap'
    BY <1>1
  <2>2. QED BY <2>1 DEF WindowRuns
<1>10. Moving'
  BY <1>1, <1>2 DEF Moving
<1>11. QED BY <1>5, <1>6, <1>7, <1>8, <1>9, <1>10 DEF IInv

LEMMA OnLostIpStep == IInv /\ OnLostIp => IInv'
<1> SUFFICES ASSUME IInv, OnLostIp PROVE IInv'
  OBVIOUS
<1>1. /\ Heard("lostip") /\ NoipCheck(Tail(events))
      /\ UNCHANGED <<cfg, router, setupVars, retries, ssid, retryArmed, taskVars, bootVars, raced,
                     refused, bounds>>
  BY DEF OnLostIp
<1>2. /\ ~restarting /\ epc = "idle" /\ watch.assoc /\ watch.assoc \in BOOLEAN
      /\ Tail(events) \in Seq(Events)
      /\ \A hence \in BOOLEAN : hence => Told(Tail(events), hence, drv = "assoc")
      /\ drv # "assoc" => Tail(events) # <<>>
      /\ GotIpComes(events) => GotIpComes(Tail(events))
      /\ GotIpStands(events) => GotIpStands(Tail(events))
      /\ NoDisc(events) => NoDisc(Tail(events))
  BY <1>1, HeardOutcome
<1>3. polled' \in BOOLEAN /\ UNCHANGED <<epc, tpc, hpc>>
  BY <1>1 DEF IInv, TypeOK, taskVars
<1>4. Told(Tail(events), watch.assoc, drv = "assoc")
  BY <1>2
<1>5. QED BY <1>1, <1>2, <1>3, <1>4, CheckKeeps

LEMMA OnNothingStep == IInv /\ OnNothing => IInv'
<1> SUFFICES ASSUME IInv, OnNothing PROVE IInv'
  OBVIOUS
<1>1. /\ restarting /\ events # <<>> /\ events' = Tail(events)
      /\ UNCHANGED <<drv, cfg, ip, stuck, router, setupVars, staVars, taskVars, bootVars, ghosts,
                     bounds>>
  BY DEF OnNothing
<1>2. TypeOK'
  BY <1>1 DEF IInv, TypeOK, setupVars, staVars, taskVars, bootVars, ghosts, waits, bounds
<1>3. ShownJoined' /\ ShownInTime' /\ Configured' /\ WindowRaced' /\ Counted'
  BY <1>1 DEF IInv, ShownJoined, ShownInTime, Configured, WindowRaced, Counted, setupVars,
              staVars, taskVars, ghosts, waits
<1>4. QED BY <1>1, <1>2, <1>3 DEF IInv, bootVars

-----------------------------------------------------------------------------
(***************************************************************************)
(* The web server and the restart keep the invariant.                      *)
(***************************************************************************)

\* Both of the owner's requests begin by leaving the network.
LEMMA AskKeeps ==
  ASSUME IInv, ~restarting, hpc = "idle", Leave(events), hpc' \in {"config", "drop"},
         ssid' \in BOOLEAN, hpc' = "config" => ssid' = ssid, hpc' = "drop" => ~ssid',
         nvs' \in BOOLEAN, retries' = 0, retryArmed' = FALSE, rejoin' = FALSE,
         asks < MaxAsks, asks' = asks + 1,
         UNCHANGED <<cfg, router, setupVars, status, watch, epc, tpc, polled, restarting, ghosts,
                     faults>>
  PROVE  IInv'
<1>1. events \in Seq(Events) /\ watch.assoc \in BOOLEAN /\ Told(events, watch.assoc, drv = "assoc")
  BY DEF IInv, TypeOK, Watches, Events, Story
<1>2. drv = "idle" => events # <<>> \/ ~watch.assoc
  BY <1>1 DEF Told, AtTheEnd
<1>3. /\ drv' = "idle" /\ ip' = FALSE /\ stuck' = "no" /\ events' \in Seq(Events)
      /\ Told(events', watch.assoc, drv' = "assoc")
      /\ GotIpComes(events) => GotIpComes(events')
  BY <1>1, <1>2, LeaveOutcome
<1>4. ~ip'
  BY <1>3
<1>5. TypeOK'
  <2>1. ip' \in BOOLEAN /\ retryArmed' \in BOOLEAN /\ rejoin' \in BOOLEAN
    BY <1>3
  <2>2. retries' \in 0..RetryLimit /\ asks' \in 0..MaxAsks
    BY WifiAssumption DEF IInv, TypeOK
  <2>3. QED BY <1>3, <2>1, <2>2 DEF IInv, TypeOK, Events, setupVars, ghosts, waits
<1>6. ShownJoined' /\ ShownInTime' /\ WindowRaced' /\ Counted'
  BY DEF IInv, ShownJoined, ShownInTime, WindowRaced, Counted, setupVars, ghosts, waits
<1>7. Configured'
  BY DEF IInv, Configured
<1>8. Story' /\ Leased'
  BY <1>3, <1>4 DEF Story, Leased
<1>9. WindowRuns'
  BY <1>3, <1>4 DEF IInv, WindowRuns, Attended, setupVars, ghosts, waits
<1>10. Moving'
  BY DEF Moving
<1>11. QED BY <1>5, <1>6, <1>7, <1>8, <1>9, <1>10 DEF IInv

LEMMA SetCredentialsStep == IInv /\ (SetCredentials \/ Forget) => IInv'
<1> SUFFICES ASSUME IInv, SetCredentials \/ Forget PROVE IInv'
  OBVIOUS
<1>1. ssid \in BOOLEAN /\ nvs \in BOOLEAN
  BY DEF IInv, TypeOK
<1>2. CASE SetCredentials
  <2>1. /\ hpc = "idle" /\ hpc' = "config" /\ ssid' = ssid /\ nvs' = nvs /\ ~restarting /\ Leave(events)
        /\ retries' = 0 /\ retryArmed' = FALSE /\ rejoin' = FALSE
        /\ asks < MaxAsks /\ asks' = asks + 1
        /\ UNCHANGED <<cfg, router, setupVars, status, watch, epc, tpc, polled, restarting, ghosts,
                       faults>>
    BY <1>2 DEF SetCredentials, bootVars
  <2>2. QED BY <1>1, <2>1, AskKeeps
<1>3. CASE Forget
  <2>1. /\ hpc = "idle" /\ hpc' = "drop" /\ ssid' = FALSE /\ nvs' = FALSE /\ ~restarting /\ Leave(events)
        /\ retries' = 0 /\ retryArmed' = FALSE /\ rejoin' = FALSE
        /\ asks < MaxAsks /\ asks' = asks + 1
        /\ UNCHANGED <<cfg, router, setupVars, status, watch, epc, tpc, polled, restarting, ghosts,
                       faults>>
    BY <1>3 DEF Forget
  <2>2. ~ssid' /\ ssid' \in BOOLEAN /\ nvs' \in BOOLEAN
    BY <2>1
  <2>3. QED BY <2>1, <2>2, AskKeeps
<1>4. QED BY <1>2, <1>3

LEMMA ConfigStep == IInv /\ (ConfigRefused \/ ConfigTaken) => IInv'
<1> SUFFICES ASSUME IInv, ConfigRefused \/ ConfigTaken PROVE IInv'
  OBVIOUS
<1>1. /\ hpc = "config" /\ hpc' \in {"idle", "connect"}
      /\ UNCHANGED <<drv, ip, stuck, events, router, setupVars, retries, rejoin, watch, retryArmed,
                     epc, tpc, polled, bootVars, waits, raced, asks>>
      /\ \/ UNCHANGED <<cfg, ssid, status>> /\ hpc' = "idle" /\ refused' = (drv = "idle")
         \/ /\ cfg' = TRUE /\ ssid' = TRUE /\ status' = "CONNECTING" /\ hpc' = "connect"
            /\ refused' = refused
      /\ faults' = faults \/ (faults < MaxFaults /\ faults' = faults + 1)
  BY DEF ConfigRefused, ConfigTaken, driverVars, staVars, ghosts, bounds
<1>2. /\ cfg' \in BOOLEAN /\ ssid' \in BOOLEAN /\ (ssid' => cfg')
      /\ status' \in {"AP_SETUP", "CONNECTING", "CONNECTED", "NO_IP"}
      /\ status' \in {"CONNECTED", "NO_IP"} => status' = status
  <2>1. CASE UNCHANGED <<cfg, ssid, status>>
    BY <2>1 DEF IInv, TypeOK, Configured
  <2>2. CASE cfg' = TRUE /\ ssid' = TRUE /\ status' = "CONNECTING"
    BY <2>2
  <2>3. QED BY <1>1, <2>1, <2>2
<1>3. TypeOK'
  <2>1. refused \in BOOLEAN /\ (drv = "idle") \in BOOLEAN
    BY DEF IInv, TypeOK
  <2>2. refused' \in BOOLEAN
    BY <1>1, <2>1, Zenon
  <2>3. faults \in 0..MaxFaults /\ MaxFaults \in Nat
    BY WifiAssumption DEF IInv, TypeOK
  <2>4. faults' \in 0..MaxFaults
    BY <1>1, <2>3
  <2>5. QED BY <1>1, <1>2, <2>2, <2>4 DEF IInv, TypeOK, setupVars, bootVars, waits
<1>4. ShownJoined' /\ ShownInTime' /\ Configured' /\ WindowRaced' /\ Counted'
  BY <1>1, <1>2 DEF IInv, ShownJoined, ShownInTime, Configured, WindowRaced, Counted, setupVars,
                    ghosts, waits
<1>5. ASSUME ~restarting PROVE Story' /\ Leased' /\ WindowRuns'
  BY <1>1, <1>2, <1>5 DEF IInv, Story, Leased, WindowRuns, Attended, setupVars, ghosts, waits
<1>6. Moving'
  BY <1>1 DEF Moving
<1>7. QED BY <1>1, <1>3, <1>4, <1>5, <1>6 DEF IInv, bootVars

LEMMA ConnectAndStoreStep == IInv /\ ConnectAndStore => IInv'
<1> SUFFICES ASSUME IInv, ConnectAndStore PROVE IInv'
  OBVIOUS
<1>1. /\ hpc = "connect" /\ hpc' = "idle" /\ nvs' \in {nvs, TRUE} /\ Attempt
      /\ UNCHANGED <<cfg, ip, stuck, events, router, setupVars, staVars, epc, tpc, polled,
                     restarting, waits, raced, asks>>
  BY DEF ConnectAndStore
<1>2. TypeOK
  BY DEF IInv
<1>3. /\ drv' \in {"idle", "joining", "assoc"} /\ (drv' = "assoc" <=> drv = "assoc")
      /\ drv' = "idle" => refused'
      /\ refused' \in BOOLEAN /\ faults' \in 0..MaxFaults
  BY <1>1, <1>2, AttemptOutcome
<1>4. TypeOK'
  <2>1. nvs' \in BOOLEAN
    BY <1>1, <1>2 DEF TypeOK
  <2>2. QED BY <1>1, <1>3, <2>1 DEF IInv, TypeOK, setupVars, staVars, ghosts, waits, bounds
<1>5. ShownJoined' /\ ShownInTime' /\ Configured' /\ WindowRaced' /\ Counted'
  BY <1>1 DEF IInv, ShownJoined, ShownInTime, Configured, WindowRaced, Counted, setupVars, staVars,
              ghosts, waits
<1>6. ASSUME ~restarting PROVE Story' /\ Leased' /\ WindowRuns'
  BY <1>1, <1>3, <1>6 DEF IInv, Story, Told, Leased, WindowRuns, Attended, setupVars, staVars,
                          ghosts, waits
<1>7. Moving'
  BY <1>3 DEF Moving
<1>8. QED BY <1>1, <1>4, <1>5, <1>6, <1>7 DEF IInv

LEMMA ForgetStep == IInv /\ (DropConfig \/ SetupMode) => IInv'
<1> SUFFICES ASSUME IInv, DropConfig \/ SetupMode PROVE IInv'
  OBVIOUS
<1>1. /\ UNCHANGED <<drv, ip, stuck, events, router, apLeft, staVars, epc, tpc, polled, bootVars,
                     ghosts, bounds>>
      /\ \/ /\ hpc = "drop" /\ hpc' = "mode" /\ cfg' = (cfg /\ drv = "joining")
            /\ expired' = FALSE /\ ap' = ap
         \/ hpc = "mode" /\ hpc' = "open" /\ ap' = TRUE /\ UNCHANGED <<cfg, expired>>
  BY DEF DropConfig, SetupMode, driverVars
<1>2. cfg' \in BOOLEAN /\ expired' \in BOOLEAN /\ ap' \in BOOLEAN /\ (expired' => expired)
  <2>1. CASE /\ hpc = "drop" /\ hpc' = "mode" /\ cfg' = (cfg /\ drv = "joining")
             /\ expired' = FALSE /\ ap' = ap
    BY <2>1 DEF IInv, TypeOK
  <2>2. CASE hpc = "mode" /\ hpc' = "open" /\ ap' = TRUE /\ UNCHANGED <<cfg, expired>>
    BY <2>2 DEF IInv, TypeOK
  <2>3. QED BY <1>1, <2>1, <2>2
<1>3. TypeOK'
  BY <1>1, <1>2 DEF IInv, TypeOK, staVars, bootVars, ghosts, waits, bounds
<1>4. ShownJoined' /\ ShownInTime' /\ Configured' /\ WindowRaced' /\ Counted'
  BY <1>1, <1>2 DEF IInv, ShownJoined, ShownInTime, Configured, WindowRaced, Counted, staVars, ghosts, waits
<1>5. ASSUME ~restarting PROVE Story' /\ Leased' /\ WindowRuns'
  BY <1>1, <1>5 DEF IInv, Story, Leased, WindowRuns, Attended, staVars, ghosts, waits
<1>6. ASSUME ~restarting PROVE Moving'
  BY <1>1, <1>6 DEF IInv, Moving, staVars, ghosts
<1>7. QED BY <1>1, <1>3, <1>4, <1>5, <1>6 DEF IInv, bootVars

LEMMA StartApModeStep == IInv /\ StartApMode => IInv'
<1> SUFFICES ASSUME IInv, StartApMode PROVE IInv'
  OBVIOUS
<1>1. CASE ~expired /\ ~ap
  BY <1>1, StartAgainStep DEF StartApMode
<1>2. CASE expired \/ ap
  <2>1. /\ hpc = "open" /\ hpc' = "idle"
        /\ status' = (IF expired THEN "CONNECTING" ELSE "AP_SETUP")
        /\ ap' = ~expired /\ apLeft' = Armed
        /\ UNCHANGED <<driverVars, expired, retries, ssid, rejoin, watch, retryArmed, epc, tpc,
                       polled, bootVars, ghosts, bounds>>
    BY <1>2 DEF StartApMode
  <2>2. apLeft' \in Off..Window /\ (apLeft' = Off => expired)
    BY <2>1, WifiAssumption DEF Armed, Off, IInv, TypeOK
  <2>3. ap' \in BOOLEAN /\ (ap' <=> ~expired)
    BY <2>1
  <2>4. TypeOK'
    BY <2>1, <2>2, <2>3 DEF IInv, TypeOK, driverVars, bootVars, ghosts, waits, bounds
  <2>5. ShownJoined' /\ ShownInTime' /\ Configured' /\ WindowRaced' /\ Counted'
    BY <2>1 DEF IInv, ShownJoined, ShownInTime, Configured, WindowRaced, Counted, driverVars, ghosts, waits
  <2>6. ASSUME ~restarting PROVE Story' /\ Leased' /\ ~ip
    BY <2>1, <2>6 DEF IInv, Story, Leased, driverVars
  <2>7. ASSUME ~restarting PROVE WindowRuns'
    BY <2>1, <2>2, <2>3, <2>6, <2>7 DEF WindowRuns, driverVars
  <2>8. ASSUME ~restarting PROVE Moving'
    BY <2>1, <2>8 DEF IInv, Moving, driverVars, ghosts
  <2>9. QED BY <2>1, <2>4, <2>5, <2>6, <2>7, <2>8 DEF IInv, bootVars
<1>3. QED BY <1>1, <1>2

LEMMA PrepareRestartStep == IInv /\ PrepareRestart => IInv'
<1> SUFFICES ASSUME IInv, PrepareRestart PROVE IInv'
  OBVIOUS
<1>1. /\ restarting' = TRUE /\ retryArmed' = FALSE /\ apLeft' = Off
      /\ asks < MaxAsks /\ asks' = asks + 1
      /\ UNCHANGED <<driverVars, ap, expired, status, retries, ssid, rejoin, watch, taskVars, nvs,
                     ghosts, faults>>
  BY DEF PrepareRestart
<1>2. restarting' /\ restarting' \in BOOLEAN /\ retryArmed' \in BOOLEAN
  BY <1>1
<1>3. apLeft' \in Off..Window /\ asks' \in 0..MaxAsks
  BY <1>1, WifiAssumption DEF Off, IInv, TypeOK
<1>4. TypeOK'
  BY <1>1, <1>2, <1>3 DEF IInv, TypeOK, driverVars, taskVars, ghosts, waits
<1>5. ShownJoined' /\ ShownInTime' /\ Configured' /\ WindowRaced' /\ Counted'
  BY <1>1 DEF IInv, ShownJoined, ShownInTime, Configured, WindowRaced, Counted, driverVars,
              taskVars, ghosts, waits
<1>6. QED BY <1>2, <1>4, <1>5 DEF IInv

-----------------------------------------------------------------------------
(***************************************************************************)
(* The theorems                                                            *)
(***************************************************************************)

\* The initial states satisfy the inductive invariant.
LEMMA Initial == Init => IInv
<1> SUFFICES ASSUME Init PROVE IInv
  OBVIOUS
<1>1. /\ nvs \in BOOLEAN /\ restarting = FALSE /\ router \in BOOLEAN
      /\ ip = FALSE /\ stuck = "no" /\ events = <<>>
      /\ ap = TRUE /\ expired = FALSE /\ retries = 0 /\ rejoin = FALSE
      /\ watch = NewWatch /\ retryArmed = FALSE
      /\ epc = "idle" /\ tpc = "idle" /\ hpc = "idle" /\ polled = TRUE
      /\ asks = 0 /\ missed = 0 /\ gap = ReconnectMax /\ raced = FALSE
  BY DEF Init
<1>2. /\ apLeft = Window /\ ssid \in BOOLEAN /\ cfg = ssid /\ refused \in BOOLEAN
      /\ status \in {"CONNECTING", "AP_SETUP"}
      /\ drv \in {"joining", "idle"}
      /\ ssid /\ drv = "idle" => refused
      /\ faults \in 0..MaxFaults
  <2>1. PICK how \in Starts(nvs, MaxFaults > 0) :
          /\ drv = Boot(how).drv /\ cfg = Boot(how).ssid /\ ssid = Boot(how).ssid
          /\ status = Boot(how).status /\ apLeft = Boot(how).apLeft
          /\ refused = (how = "idle") /\ faults = Fault(how)
    BY DEF Init
  <2>2. (MaxFaults > 0) \in BOOLEAN
    OBVIOUS
  <2>3. /\ Boot(how).apLeft = Window /\ Boot(how).ssid \in BOOLEAN
        /\ Boot(how).status \in {"CONNECTING", "AP_SETUP"}
        /\ Boot(how).drv \in {"joining", "idle"}
        /\ Boot(how).ssid /\ Boot(how).drv = "idle" => how = "idle"
        /\ Fault(how) \in 0..1 /\ (Fault(how) = 1 => MaxFaults > 0)
    BY <1>1, <2>2, BootFields
  <2>4. faults \in 0..MaxFaults
    BY <2>1, <2>3, WifiAssumption
  <2>5. QED BY <2>1, <2>3, <2>4
<1>3. ~ip /\ ~expired /\ (ssid => cfg)
  BY <1>1, <1>2
<1>4. TypeOK
  <2>1. /\ ip \in BOOLEAN /\ ap \in BOOLEAN /\ expired \in BOOLEAN /\ rejoin \in BOOLEAN
        /\ retryArmed \in BOOLEAN /\ restarting \in BOOLEAN /\ polled \in BOOLEAN
        /\ raced \in BOOLEAN
    BY <1>1
  <2>2. apLeft \in Off..Window /\ retries \in 0..RetryLimit /\ missed \in 0..BackoffCap
        /\ gap \in 0..ReconnectMax /\ asks \in 0..MaxAsks
    BY <1>1, <1>2, WifiAssumption, NetwatchAssumption DEF Off
  <2>3. watch \in Watches
    BY <1>1, NewWatchTyped
  <2>4. events \in Seq({"assoc", "disc", "gotip", "lostip"})
    BY <1>1
  <2>5. QED BY <1>1, <1>2, <2>1, <2>2, <2>3, <2>4 DEF TypeOK
<1>5. ShownJoined /\ ShownInTime /\ Configured /\ WindowRaced
  BY <1>1, <1>2, <1>3 DEF ShownJoined, ShownInTime, Configured, WindowRaced
<1>6. Counted
  BY <1>1, NewWatchTyped, NetwatchAssumption DEF Counted
<1>7. Story
  <2>1. drv # "assoc" /\ ~watch.assoc
    BY <1>1, <1>2, NewWatchTyped
  <2>2. Told(<<>>, watch.assoc, drv = "assoc")
    BY <2>1 DEF Told, AtTheEnd
  <2>3. QED BY <1>1, <2>2 DEF Story
<1>8. Leased
  BY <1>3 DEF Leased
<1>9. WindowRuns
  BY <1>2, <1>3, WifiAssumption DEF WindowRuns, Off
<1>10. Moving
  BY <1>1, <1>2 DEF Moving
<1>11. QED BY <1>4, <1>5, <1>6, <1>7, <1>8, <1>9, <1>10 DEF IInv

\* A step that changes nothing keeps the invariant.
LEMMA Stutters == IInv /\ UNCHANGED vars => IInv'
<1> SUFFICES ASSUME IInv, UNCHANGED vars PROVE IInv'
  OBVIOUS
<1> USE DEF vars, driverVars, setupVars, staVars, taskVars, bootVars, ghosts, waits, bounds
<1>1. TypeOK'
  BY DEF IInv, TypeOK
<1>2. ShownJoined' /\ ShownInTime' /\ Configured' /\ WindowRaced' /\ Counted'
  BY DEF IInv, ShownJoined, ShownInTime, Configured, WindowRaced, Counted
<1>3. ASSUME ~restarting PROVE Story' /\ Leased' /\ WindowRuns'
  BY <1>3 DEF IInv, Story, Leased, WindowRuns, Attended
<1>4. ASSUME ~restarting PROVE Moving'
  BY <1>4 DEF IInv, Moving
<1>5. QED BY <1>1, <1>2, <1>3, <1>4 DEF IInv

\* Every step keeps the inductive invariant: one case per action.
LEMMA Inductive == IInv /\ [Next]_vars => IInv'
<1> SUFFICES ASSUME IInv, [Next]_vars PROVE IInv'
  OBVIOUS
<1>1. CASE Driver
  BY <1>1, JoinOkStep, JoinFailsStep, LeaseComesStep, LeaseGoesStep, LostIpStep, RouterGoesStep
  DEF Driver
<1>2. CASE TimerTask
  BY <1>2, PollStep, ClockStep, WindowEndsStep, RetryStep DEF TimerTask
<1>3. CASE EventTask
  BY <1>3, OnStaConnectedStep, OnLeftStep, OnLinkLostStep, RestoreSetupStep, SetupRestoredStep,
     OnJoinFailedStep, OnGotIpStep, OnLostIpStep, OnNothingStep DEF EventTask
<1>4. CASE WebServer
  BY <1>4, SetCredentialsStep, ConfigStep, ConnectAndStoreStep, ForgetStep, StartApModeStep
  DEF WebServer
<1>5. CASE Reboot
  BY <1>5, PrepareRestartStep, StartAgainStep DEF Reboot, Restart
<1>6. CASE UNCHANGED vars
  BY <1>6, Stutters
<1>7. QED BY <1>1, <1>2, <1>3, <1>4, <1>5, <1>6 DEF Next

\* The invariant holds from the first boot on, whatever the driver, the network,
\* the three tasks and the restarts do.
THEOREM InductiveInvariant == Spec => []IInv
<1>1. QED BY Initial, Inductive, PTL DEF Spec

\* The states are of their types, and "connected" means associated, and holding
\* an address or within the grace: even where the driver refuses to connect or
\* to take what the owner typed (on_event, noip_check).
THEOREM ConnectedIsConnected == Spec => [](TypeOK /\ ConnectedMeansAddress)
<1>1. IInv => TypeOK /\ ConnectedMeansAddress
  <2> SUFFICES ASSUME IInv, Settled, polled, status = "CONNECTED"
               PROVE  drv = "assoc" /\ (ip \/ ~NoIp(watch))
    BY DEF IInv, ConnectedMeansAddress
  <2>1. watch.assoc /\ ~NoIp(watch)
    BY DEF IInv, ShownJoined, ShownInTime, Settled
  <2>2. Told(events, watch.assoc, drv = "assoc") /\ events = <<>>
    BY DEF IInv, Story, Settled
  <2>3. drv = "assoc"
    BY <2>1, <2>2 DEF Told, AtTheEnd
  <2>4. QED BY <2>1, <2>3
<1>2. QED BY <1>1, InductiveInvariant, PTL

\* The status agrees with the driver and the station is on its way - joined,
\* joining, or with the slow retry to come - or the driver refused the very last
\* call that was to send it there (sta_retry_cb, start_sta_connect, and the
\* disconnect cases of on_event).
THEOREM StatusIsSound == Spec => []StatusSound
<1>1. IInv => OnTheWay
  <2> SUFFICES ASSUME IInv PROVE OnTheWay
    OBVIOUS
  <2>1. restarting \/ Moving
    BY DEF IInv
  <2>2. QED BY <2>1 DEF Moving, OnTheWay, Settled
<1>2. IInv /\ TypeOK /\ ConnectedMeansAddress => StatusSound
  BY <1>1 DEF StatusSound
<1>3. QED BY <1>2, InductiveInvariant, ConnectedIsConnected, PTL

\* An open setup network is never left on the air for good: the timer that shuts
\* it runs, unless the window ended under a handler that had found it open
\* (arm_ap_timeout, ap_timeout_cb).
THEOREM SetupStaysTimed == Spec => []SetupIsTimed
<1>1. IInv => SetupIsTimed
  <2> SUFFICES ASSUME IInv, Settled, ap, apLeft = Off PROVE raced
    BY DEF SetupIsTimed
  <2>1. Attended /\ events = <<>> /\ epc = "idle" /\ tpc = "idle" /\ hpc = "idle"
    BY DEF IInv, WindowRuns, Settled
  <2>2. ~GotIpComes(events)
    BY <2>1 DEF GotIpComes
  <2>3. QED BY <2>1, <2>2 DEF Attended
<1>2. QED BY <1>1, InductiveInvariant, PTL

\* The n-th rejoin in a row waits for the delay doubled n times, or its cap,
\* although each of them restarts the watchdog's episode (hr_netwatch_tick).
THEOREM RejoinsDoBackOff == Spec => RejoinsBackOff
<1> DEFINE Waits == missed > 0 /\ gap' = 0 /\ gap # 0 => gap >= DelayAfter(missed)
<1>1. ASSUME IInv, NEW rest \in Seq(Events), ~restarting, NoipCheck(rest) PROVE Waits
  <2>1. CASE ~watch.assoc
    BY <1>1, <2>1 DEF NoipCheck
  <2>2. CASE watch.assoc
    BY <1>1, <2>2, CheckOutcome
  <2>3. QED BY <2>1, <2>2
<1>2. IInv /\ [Next]_vars => Waits
  <2> SUFFICES ASSUME IInv, [Next]_vars PROVE Waits
    OBVIOUS
  <2>1. events \in Seq(Events) /\ gap \in 0..ReconnectMax
    BY DEF IInv, TypeOK, Events
  <2>2. gap' = ReconnectMax => Waits
    BY NetwatchAssumption
  <2>3. gap' = gap => Waits
    OBVIOUS
  <2>4. CASE Poll
    BY <1>1, <2>1, <2>4 DEF Poll
  <2>5. CASE OnLostIp
    <3>1. ~restarting /\ Tail(events) \in Seq(Events) /\ NoipCheck(Tail(events))
      BY <2>1, <2>5 DEF OnLostIp, Heard
    <3>2. QED BY <1>1, <3>1
  <2>6. CASE Clock
    BY <2>1, <2>6, NetwatchAssumption DEF Clock
  <2>7. CASE OnGotIp
    BY <2>2, <2>7 DEF OnGotIp, Answered
  <2>8. CASE StartAgain
    BY <2>2, <2>8 DEF StartAgain
  <2>9. ASSUME ~(Poll \/ OnLostIp \/ Clock \/ OnGotIp \/ StartAgain) PROVE gap' = gap
    <3>1. CASE Driver
      BY <3>1 DEF Driver, JoinOk, JoinFails, LeaseComes, LeaseGoes, LostIp, RouterGoes, RouterComes,
                  ghosts, waits
    <3>2. CASE TimerTask
      BY <2>9, <3>2 DEF TimerTask, WindowEnds, SetupCloses, Retry, ghosts, waits
    <3>3. CASE EventTask
      BY <2>9, <3>3 DEF EventTask, OnStaConnected, OnLeft, OnLinkLost, RestoreSetup, SetupRestored,
                        OnJoinFailed, OnNothing, ghosts, waits
    <3>4. CASE WebServer
      BY <2>9, <3>4 DEF WebServer, SetCredentials, ConfigRefused, ConfigTaken, ConnectAndStore,
                        Forget, DropConfig, SetupMode, StartApMode, ghosts, waits
    <3>5. CASE Reboot \/ UNCHANGED vars
      BY <2>9, <3>5 DEF Reboot, Restart, PrepareRestart, vars, ghosts, waits
    <3>6. QED BY <3>1, <3>2, <3>3, <3>4, <3>5 DEF Next
  <2>10. QED BY <2>3, <2>4, <2>5, <2>6, <2>7, <2>8, <2>9
<1>3. IInv /\ [Next]_vars => [missed > 0 /\ gap' = 0 /\ gap # 0 => gap >= DelayAfter(missed)]_vars
  BY <1>2
<1>4. QED BY <1>3, InductiveInvariant, PTL DEF Spec, RejoinsBackOff
=============================================================================
