---------------------------- MODULE ReportProofs ----------------------------
(***************************************************************************)
(* Proofs about Mqtt, for any clients and any queue, and about Report with *)
(* it, for any time limits: a client is never called once it is destroyed, *)
(* the one in use listens for commands, and a run that is shown is one.    *)
(* Then about TrendGraph, for any window and any bucket: the graph is a    *)
(* plot, of one run, and what is stored of it is its beginning.            *)
(***************************************************************************)
EXTENDS Report, TrendGraph, SequenceTheorems, TLAPS

-----------------------------------------------------------------------------
(***************************************************************************)
(* The inductive invariant of Mqtt.  At any time there is one client at    *)
(* most: connect_now makes the next when it has destroyed the last.        *)
(***************************************************************************)

PubPcs == {"receive", "wait", "look", "publish", "release"}
WebPcs == {"idle", "detach", "detaching", "stop", "stopping", "init", "attach",
           "attaching", "start"}

PcTypes ==
  /\ ppc \in PubPcs /\ wpc \in WebPcs
  /\ pclient \in Clients \cup {Null} /\ wclient \in Clients \cup {Null}

\* s_client_lock is with whom its holder's place says.
LockHolder ==
  /\ clientLock = "pub" <=> ppc \in {"look", "publish", "release"}
  /\ clientLock = "web" <=> wpc \in {"detaching", "attaching"}

\* What s_client and connect_now's handle are at each of its places.
WebPlace ==
  /\ wpc \in {"stop", "stopping", "init", "attach", "attaching"} => sClient = Null
  /\ wpc \in {"stop", "stopping", "attach", "attaching", "start"} =>
       wclient # Null /\ life[wclient] # "none"
  /\ wpc \in {"attach", "attaching", "start"} => ~conn[wclient] /\ life[wclient] = "made"
  /\ wpc = "start" => sClient = wclient

OneClient ==
  /\ sClient # Null => life[sClient] # "none"
  /\ \A c \in Clients : life[c] # "none" =>
       \/ c = sClient
       \/ wpc \in {"stop", "stopping", "attach", "attaching"} /\ c = wclient

\* The publisher's handle is s_client while it has the lock; a handler's is its
\* own client, the only one there is.
Handles ==
  /\ pclient # Null => ppc = "publish"
  /\ ppc = "publish" => pclient = sClient /\ sClient # Null
  /\ \A c \in Clients : /\ hclient[c] \in {Null, c}
                        /\ hclient[c] # Null => calls[c] > 0
                        /\ calls[c] > 0 \/ conn[c] => life[c] # "none"

MqttIInv ==
  /\ MqttTypeOK /\ PcTypes
  /\ LockHolder /\ WebPlace /\ OneClient /\ Handles /\ SessionTakesCommands

-----------------------------------------------------------------------------
(***************************************************************************)
(* The inductive invariant of the tracker.                                 *)
(***************************************************************************)

\* A run's counter last changed no longer ago than a run may stand still, and
\* the time since the main loop looked: one pass more while it has not looked
\* again.
RunIsYoung ==
  tr.running =>
    /\ mpc \in {"copy", "read"} => tr.age <= Stale + ageT
    /\ mpc \in {"tick", "clear"} => tr.age <= Stale + LoopAge + ageT

\* The tracker's age is of a move, or the run was begun without one.
MovedWithRun == tr.running => moved <= tr.age \/ guessed

TrackerTypes == moved \in 0 .. AgeMax /\ guessed \in BOOLEAN

TeleTypes ==
  /\ tr \in [have : BOOLEAN, known : BOOLEAN, running : BOOLEAN, age : 0 .. AgeMax]
  /\ (tr.known => tr.have) /\ (tr.running => tr.have)
  /\ shown \in BOOLEAN /\ upc \in {"idle", "copy"}
  /\ mpc \in {"read", "tick", "clear", "copy"} /\ ageT \in 0 .. LoopAge

TeleIInv == TeleTypes /\ TrackerTypes /\ RunIsYoung /\ MovedWithRun /\ CopyIsCurrent

IInv == MqttIInv /\ TeleIInv

-----------------------------------------------------------------------------
(***************************************************************************)
(* The publisher                                                           *)
(***************************************************************************)

\* A step of the publisher's own task: only it moves, with the lock.
LEMMA PubTaskStep == MqttIInv /\ PubTask => MqttIInv'
<1> SUFFICES ASSUME MqttIInv, PubTask PROVE MqttIInv'
  OBVIOUS
<1>1. UNCHANGED <<libVars, sClient, sConnected, webVars, evVars>>
  BY DEF PubTask, Receive, TakeClient, GiveUp, LookAtClient, Publish, Release
<1>2. MqttTypeOK' /\ PcTypes'
  <2>1. /\ queued' \in 0 .. Depth /\ clientLock' \in {"free", "pub", "web"}
        /\ ppc' \in PubPcs /\ pclient' \in Clients \cup {Null}
    BY MqttAssumption DEF MqttIInv, MqttTypeOK, PcTypes, PubTask, Receive, TakeClient, GiveUp,
       LookAtClient, Publish, Release, PubPcs
  <2>2. QED BY <1>1, <2>1 DEF MqttIInv, MqttTypeOK, PcTypes, libVars, webVars, evVars
<1>3. LockHolder'
  BY <1>1 DEF MqttIInv, LockHolder, PubTask, Receive, TakeClient, GiveUp, LookAtClient, Publish,
              Release, webVars
<1>4. WebPlace' /\ OneClient' /\ SessionTakesCommands'
  BY <1>1 DEF MqttIInv, WebPlace, OneClient, SessionTakesCommands, libVars, webVars, evVars
<1>5. Handles'
  <2>1. /\ pclient' # Null => ppc' = "publish"
        /\ ppc' = "publish" => pclient' = sClient /\ sClient # Null
    BY DEF MqttIInv, Handles, PubTask, Receive, TakeClient, GiveUp, LookAtClient, Publish, Release
  <2>2. QED BY <1>1, <2>1 DEF MqttIInv, Handles, libVars, evVars
<1>6. QED BY <1>2, <1>3, <1>4, <1>5 DEF MqttIInv

\* A sample is queued, or the queue stays.
LEMMA QueueStep ==
  ASSUME MqttIInv, queued' \in 0 .. Depth,
         UNCHANGED <<libVars, sClient, sConnected, clientLock, pubVars, webVars, evVars>>
  PROVE  MqttIInv'
BY DEF MqttIInv, MqttTypeOK, PcTypes, LockHolder, WebPlace, OneClient, Handles,
       SessionTakesCommands, libVars, pubVars, webVars, evVars

LEMMA PublishTelemetryStep == MqttIInv /\ PublishTelemetry => MqttIInv'
<1> SUFFICES ASSUME MqttIInv, PublishTelemetry PROVE MqttIInv'
  OBVIOUS
<1>1. queued' \in 0 .. Depth
  BY MqttAssumption DEF PublishTelemetry, MqttIInv, MqttTypeOK
<1>2. QED BY <1>1, QueueStep DEF PublishTelemetry

-----------------------------------------------------------------------------
(***************************************************************************)
(* The change of broker                                                    *)
(***************************************************************************)

\* What every step of connect_now leaves alone.
LEMMA WebFrame ==
  ASSUME MqttIInv, WebTask \/ Configure
  PROVE  UNCHANGED <<queued, pubVars, evVars>>
BY DEF WebTask, Configure, LockClient, Detach, AskToStop, Destroy, Make, Attach, Start

\* Whoever takes the lock of the client keeps the invariant.
LEMMA TakesLock ==
  ASSUME MqttIInv,
         \/ Configure
         \/ LockClient("detach", "detaching")
         \/ LockClient("attach", "attaching")
  PROVE  MqttIInv'
<1>1. UNCHANGED <<libVars, sClient, sConnected, queued, pubVars, wclient, evVars>>
  BY DEF Configure, LockClient
<1>2. /\ clientLock' \in {"free", "pub", "web"} /\ wpc' \in WebPcs
  BY DEF MqttIInv, MqttTypeOK, Configure, LockClient, WebPcs
<1>3. MqttTypeOK' /\ PcTypes'
  BY <1>1, <1>2 DEF MqttIInv, MqttTypeOK, PcTypes, libVars, pubVars, evVars
<1>4. LockHolder'
  BY <1>1 DEF MqttIInv, LockHolder, Configure, LockClient, pubVars
<1>5. WebPlace' /\ OneClient'
  BY <1>1 DEF MqttIInv, WebPlace, OneClient, Configure, LockClient, libVars
<1>6. Handles' /\ SessionTakesCommands'
  BY <1>1 DEF MqttIInv, Handles, SessionTakesCommands, libVars, pubVars, evVars
<1>7. QED BY <1>3, <1>4, <1>5, <1>6 DEF MqttIInv

\* With the lock connect_now has, the publisher is at none of its handles.
LEMMA DetachStep == MqttIInv /\ Detach => MqttIInv'
<1> SUFFICES ASSUME MqttIInv, Detach PROVE MqttIInv'
  OBVIOUS
<1>1. /\ wpc = "detaching" /\ clientLock' = "free"
      /\ wclient' = sClient /\ sClient' = Null /\ sConnected' = FALSE
      /\ wpc' = IF sClient = Null THEN "init" ELSE "stop"
      /\ UNCHANGED <<libVars, queued, pubVars, evVars>>
  BY DEF Detach
<1>2. ppc \notin {"look", "publish", "release"}
  BY <1>1 DEF MqttIInv, LockHolder
<1>3. sConnected' \in BOOLEAN
  BY <1>1
<1>4. MqttTypeOK' /\ PcTypes'
  BY <1>1, <1>3 DEF MqttIInv, MqttTypeOK, PcTypes, WebPcs, libVars, pubVars, evVars
<1>5. LockHolder'
  BY <1>1, <1>2 DEF LockHolder, pubVars
<1>6. WebPlace' /\ OneClient'
  BY <1>1 DEF MqttIInv, WebPlace, OneClient, libVars
<1>7. Handles'
  BY <1>1, <1>2 DEF MqttIInv, Handles, libVars, pubVars, evVars
<1>8. SessionTakesCommands'
  BY <1>1, MqttAssumption DEF SessionTakesCommands
<1>9. QED BY <1>4, <1>5, <1>6, <1>7, <1>8 DEF MqttIInv

LEMMA AskToStopStep == MqttIInv /\ AskToStop => MqttIInv'
<1> SUFFICES ASSUME MqttIInv, AskToStop PROVE MqttIInv'
  OBVIOUS
<1>1. /\ wpc = "stop" /\ wpc' = "stopping"
      /\ life' = [life EXCEPT ![wclient] = "made"]
      /\ UNCHANGED <<conn, subscribed, sClient, sConnected, clientLock, queued, pubVars,
                     wclient, evVars>>
  BY DEF AskToStop
<1>2. wclient \in Clients /\ life[wclient] # "none" /\ sClient = Null
  BY <1>1 DEF MqttIInv, WebPlace, PcTypes
<1>3. /\ life' \in [Clients -> {"none", "made", "started"}]
      /\ \A c \in Clients : life'[c] = "none" <=> life[c] = "none"
  BY <1>1, <1>2 DEF MqttIInv, MqttTypeOK
<1>4. MqttTypeOK' /\ PcTypes' /\ LockHolder'
  BY <1>1, <1>3 DEF MqttIInv, MqttTypeOK, PcTypes, LockHolder, WebPcs, pubVars, evVars
<1>5. WebPlace' /\ OneClient' /\ Handles' /\ SessionTakesCommands'
  BY <1>1, <1>2, <1>3
  DEF MqttIInv, WebPlace, OneClient, Handles, SessionTakesCommands, pubVars, evVars
<1>6. QED BY <1>4, <1>5 DEF MqttIInv

\* The client is destroyed with its handler done, and no handle is of it.
LEMMA DestroyStep == MqttIInv /\ Destroy => MqttIInv'
<1> SUFFICES ASSUME MqttIInv, Destroy PROVE MqttIInv'
  OBVIOUS
<1>1. /\ wpc = "stopping" /\ calls[wclient] = 0
      /\ life' = [life EXCEPT ![wclient] = "none"]
      /\ conn' = [conn EXCEPT ![wclient] = FALSE]
      /\ subscribed' = [subscribed EXCEPT ![wclient] = FALSE]
      /\ wpc' = "init" /\ wclient' = Null
      /\ UNCHANGED <<sClient, sConnected, clientLock, queued, pubVars, evVars>>
  BY DEF Destroy
<1>2. wclient \in Clients /\ sClient = Null /\ \A c \in Clients : c # wclient => life[c] = "none"
  BY <1>1, MqttAssumption DEF MqttIInv, WebPlace, PcTypes, OneClient
<1>3. /\ life' \in [Clients -> {"none", "made", "started"}]
      /\ conn' \in [Clients -> BOOLEAN] /\ subscribed' \in [Clients -> BOOLEAN]
      /\ \A c \in Clients : life'[c] = "none"
      /\ ~conn'[wclient] /\ \A c \in Clients : c # wclient => conn'[c] = conn[c]
  BY <1>1, <1>2 DEF MqttIInv, MqttTypeOK
<1>4. MqttTypeOK' /\ PcTypes' /\ LockHolder'
  BY <1>1, <1>3 DEF MqttIInv, MqttTypeOK, PcTypes, LockHolder, WebPcs, pubVars, evVars
<1>5. WebPlace' /\ OneClient'
  BY <1>1, <1>2, <1>3 DEF WebPlace, OneClient
<1>6. Handles'
  <2>1. \A c \in Clients : calls[c] = 0 /\ ~conn'[c]
    <3>1. \A c \in Clients : calls[c] \in 0 .. Announcing
      BY DEF MqttIInv, MqttTypeOK
    <3>2. QED BY <1>1, <1>2, <1>3, <3>1 DEF MqttIInv, Handles, Announcing
  <2>2. QED BY <1>1, <1>2, <2>1 DEF MqttIInv, Handles, pubVars, evVars
<1>7. SessionTakesCommands'
  BY <1>1, <1>2, MqttAssumption DEF SessionTakesCommands
<1>8. QED BY <1>4, <1>5, <1>6, <1>7 DEF MqttIInv

\* A client is made when there is none.
LEMMA MakeStep == MqttIInv /\ Make => MqttIInv'
<1> SUFFICES ASSUME MqttIInv, Make PROVE MqttIInv'
  OBVIOUS
<1>1. /\ wpc = "init"
      /\ UNCHANGED <<conn, subscribed, sClient, sConnected, clientLock, queued, pubVars, evVars>>
  BY DEF Make
<1>2. sClient = Null /\ \A c \in Clients : life[c] = "none" /\ ~conn[c]
  BY <1>1, MqttAssumption DEF MqttIInv, WebPlace, OneClient, Handles
<1>3. CASE wpc' = "idle" /\ UNCHANGED <<life, wclient>>
  BY <1>1, <1>2, <1>3 DEF MqttIInv, MqttTypeOK, PcTypes, LockHolder, WebPlace, OneClient, Handles,
     SessionTakesCommands, WebPcs, pubVars, evVars
<1>4. ASSUME NEW c \in Clients, life' = [life EXCEPT ![c] = "made"], wclient' = c, wpc' = "attach"
      PROVE  MqttIInv'
  <2>1. /\ life' \in [Clients -> {"none", "made", "started"}] /\ life'[c] = "made"
        /\ \A d \in Clients : d # c => life'[d] = "none"
    BY <1>2, <1>4 DEF MqttIInv, MqttTypeOK
  <2>2. MqttTypeOK' /\ PcTypes' /\ LockHolder'
    BY <1>1, <1>4, <2>1 DEF MqttIInv, MqttTypeOK, PcTypes, LockHolder, WebPcs, pubVars, evVars
  <2>3. WebPlace' /\ OneClient'
    BY <1>1, <1>2, <1>4, <2>1, MqttAssumption DEF WebPlace, OneClient
  <2>4. Handles' /\ SessionTakesCommands'
    BY <1>1, <1>2, <2>1 DEF MqttIInv, Handles, SessionTakesCommands, pubVars, evVars
  <2>5. QED BY <2>2, <2>3, <2>4 DEF MqttIInv
<1>5. QED BY <1>3, <1>4 DEF Make

LEMMA AttachStep == MqttIInv /\ Attach => MqttIInv'
<1> SUFFICES ASSUME MqttIInv, Attach PROVE MqttIInv'
  OBVIOUS
<1>1. /\ wpc = "attaching" /\ clientLock' = "free"
      /\ sClient' = wclient /\ wpc' = "start"
      /\ UNCHANGED <<libVars, sConnected, queued, pubVars, wclient, evVars>>
  BY DEF Attach
<1>2. /\ wclient \in Clients /\ life[wclient] = "made" /\ ~conn[wclient]
      /\ ppc \notin {"look", "publish", "release"}
  BY <1>1 DEF MqttIInv, WebPlace, PcTypes, LockHolder
<1>3. MqttTypeOK' /\ PcTypes' /\ LockHolder'
  BY <1>1, <1>2 DEF MqttIInv, MqttTypeOK, PcTypes, LockHolder, WebPcs, libVars, pubVars, evVars
<1>4. WebPlace' /\ OneClient'
  <2>1. WebPlace'
    BY <1>1, <1>2, MqttAssumption DEF WebPlace, libVars
  <2>2. OneClient'
    BY <1>1, <1>2, MqttAssumption DEF MqttIInv, OneClient, WebPlace, libVars
  <2>3. QED BY <2>1, <2>2
<1>5. Handles' /\ SessionTakesCommands'
  BY <1>1, <1>2 DEF MqttIInv, Handles, SessionTakesCommands, libVars, pubVars, evVars
<1>6. QED BY <1>3, <1>4, <1>5 DEF MqttIInv

LEMMA StartStep == MqttIInv /\ Start => MqttIInv'
<1> SUFFICES ASSUME MqttIInv, Start PROVE MqttIInv'
  OBVIOUS
<1>1. /\ wpc = "start" /\ wpc' = "idle" /\ wclient' = Null
      /\ life' \in {life, [life EXCEPT ![wclient] = "started"]}
      /\ UNCHANGED <<conn, subscribed, sClient, sConnected, clientLock, queued, pubVars, evVars>>
  BY DEF Start
<1>2. wclient \in Clients /\ life[wclient] = "made" /\ sClient = wclient
  BY <1>1 DEF MqttIInv, WebPlace, PcTypes
<1>3. /\ life' \in [Clients -> {"none", "made", "started"}]
      /\ \A c \in Clients : life'[c] = "none" <=> life[c] = "none"
  BY <1>1, <1>2 DEF MqttIInv, MqttTypeOK
<1>4. MqttTypeOK' /\ PcTypes' /\ LockHolder'
  BY <1>1, <1>3 DEF MqttIInv, MqttTypeOK, PcTypes, LockHolder, WebPcs, pubVars, evVars
<1>5. WebPlace' /\ OneClient' /\ Handles' /\ SessionTakesCommands'
  BY <1>1, <1>2, <1>3
  DEF MqttIInv, WebPlace, OneClient, Handles, SessionTakesCommands, pubVars, evVars
<1>6. QED BY <1>4, <1>5 DEF MqttIInv

-----------------------------------------------------------------------------
(***************************************************************************)
(* The client's own task: on_mqtt                                          *)
(***************************************************************************)

LEMMA ConnectedStep ==
  ASSUME MqttIInv, NEW c \in Clients, Connected(c)
  PROVE  MqttIInv'
<1>1. /\ life[c] = "started" /\ calls[c] = 0
      /\ conn' = [conn EXCEPT ![c] = TRUE]
      /\ sConnected' = TRUE /\ calls' = [calls EXCEPT ![c] = Announcing]
      /\ UNCHANGED <<life, subscribed, sClient, clientLock, queued, pubVars, webVars, hclient>>
  BY DEF Connected
<1>2. /\ conn' \in [Clients -> BOOLEAN] /\ calls' \in [Clients -> 0 .. Announcing]
      /\ calls'[c] = Announcing
      /\ \A d \in Clients : d # c => conn'[d] = conn[d] /\ calls'[d] = calls[d]
  BY <1>1 DEF MqttIInv, MqttTypeOK, Announcing
<1>3. sConnected' \in BOOLEAN
  BY <1>1
<1>4. MqttTypeOK' /\ PcTypes' /\ LockHolder'
  BY <1>1, <1>2, <1>3 DEF MqttIInv, MqttTypeOK, PcTypes, LockHolder, pubVars, webVars
<1>5. WebPlace' /\ OneClient'
  <2>1. wpc \in {"attach", "attaching", "start"} => wclient # c
    BY <1>1 DEF MqttIInv, WebPlace
  <2>2. QED
    BY <1>1, <1>2, <2>1 DEF MqttIInv, WebPlace, OneClient, PcTypes, webVars
<1>6. Handles'
  BY <1>1, <1>2 DEF MqttIInv, Handles, Announcing, pubVars
<1>7. SessionTakesCommands'
  BY <1>1, <1>2 DEF MqttIInv, SessionTakesCommands, Announcing
<1>8. QED BY <1>4, <1>5, <1>6, <1>7 DEF MqttIInv

\* The handler of a client that is still there finds its own in s_client.
LEMMA ReadClientStep ==
  ASSUME MqttIInv, NEW c \in Clients, ReadClient(c)
  PROVE  MqttIInv'
<1>1. /\ calls[c] > 0 /\ sClient # Null
      /\ hclient' = [hclient EXCEPT ![c] = sClient]
      /\ UNCHANGED <<libVars, sClient, sConnected, clientLock, queued, pubVars, webVars, calls>>
  BY DEF ReadClient
<1>2. sClient = c
  BY <1>1 DEF MqttIInv, Handles, OneClient, WebPlace
<1>3. /\ hclient' \in [Clients -> Clients \cup {Null}] /\ hclient'[c] = c
      /\ \A d \in Clients : d # c => hclient'[d] = hclient[d]
  BY <1>1, <1>2 DEF MqttIInv, MqttTypeOK
<1>4. MqttTypeOK' /\ PcTypes' /\ LockHolder' /\ WebPlace' /\ OneClient' /\ SessionTakesCommands'
  BY <1>1, <1>3 DEF MqttIInv, MqttTypeOK, PcTypes, LockHolder, WebPlace, OneClient,
     SessionTakesCommands, libVars, pubVars, webVars
<1>5. Handles'
  BY <1>1, <1>3 DEF MqttIInv, Handles, libVars, pubVars
<1>6. QED BY <1>4, <1>5 DEF MqttIInv

LEMMA CallStep ==
  ASSUME MqttIInv, NEW c \in Clients, Call(c)
  PROVE  MqttIInv'
<1>1. /\ calls[c] > 0 /\ (hclient[c] # Null \/ sClient = Null)
      /\ subscribed' = IF calls[c] = 1 /\ hclient[c] = c
                         THEN [subscribed EXCEPT ![c] = TRUE] ELSE subscribed
      /\ calls' = [calls EXCEPT ![c] = calls[c] - 1]
      /\ hclient' = [hclient EXCEPT ![c] = Null]
      /\ UNCHANGED <<life, conn, sClient, sConnected, clientLock, queued, pubVars, webVars>>
  BY DEF Call
<1>2. calls[c] \in 0 .. Announcing
  BY DEF MqttIInv, MqttTypeOK
<1>3. /\ calls' \in [Clients -> 0 .. Announcing] /\ calls'[c] = calls[c] - 1
      /\ hclient' \in [Clients -> Clients \cup {Null}] /\ hclient'[c] = Null
      /\ \A d \in Clients : d # c => calls'[d] = calls[d] /\ hclient'[d] = hclient[d]
  BY <1>1, <1>2 DEF MqttIInv, MqttTypeOK, Announcing
<1>4. /\ subscribed' \in [Clients -> BOOLEAN]
      /\ \A d \in Clients : subscribed[d] => subscribed'[d]
      /\ calls[c] = 1 /\ hclient[c] = c => subscribed'[c]
  BY <1>1 DEF MqttIInv, MqttTypeOK
<1>5. MqttTypeOK' /\ PcTypes' /\ LockHolder' /\ WebPlace' /\ OneClient'
  BY <1>1, <1>3, <1>4 DEF MqttIInv, MqttTypeOK, PcTypes, LockHolder, WebPlace, OneClient,
     pubVars, webVars
<1>6. Handles'
  BY <1>1, <1>2, <1>3 DEF MqttIInv, Handles, Announcing, pubVars
<1>7. SessionTakesCommands'
  <2> SUFFICES ASSUME NEW d \in Clients, sClient = d, conn[d], calls'[d] = 0
               PROVE  subscribed'[d]
    BY <1>1 DEF SessionTakesCommands
  <2>1. CASE d = c
    <3>1. calls[c] = 1
      BY <1>2, <1>3, <2>1 DEF Announcing
    <3>2. hclient[c] = c
      BY <1>1, <2>1, MqttAssumption DEF MqttIInv, Handles
    <3>3. QED BY <1>4, <2>1, <3>1, <3>2
  <2>2. CASE d # c
    BY <1>3, <1>4, <2>2 DEF MqttIInv, SessionTakesCommands
  <2>3. QED BY <2>1, <2>2
<1>8. QED BY <1>5, <1>6, <1>7 DEF MqttIInv

LEMMA DisconnectedStep ==
  ASSUME MqttIInv, NEW c \in Clients, Disconnected(c)
  PROVE  MqttIInv'
<1>1. /\ conn' = [conn EXCEPT ![c] = FALSE] /\ subscribed' = [subscribed EXCEPT ![c] = FALSE]
      /\ sConnected' = FALSE
      /\ UNCHANGED <<life, sClient, clientLock, queued, pubVars, webVars, evVars>>
  BY DEF Disconnected
<1>2. /\ conn' \in [Clients -> BOOLEAN] /\ subscribed' \in [Clients -> BOOLEAN]
      /\ ~conn'[c]
      /\ \A d \in Clients : d # c => conn'[d] = conn[d] /\ subscribed'[d] = subscribed[d]
  BY <1>1 DEF MqttIInv, MqttTypeOK
<1>3. sConnected' \in BOOLEAN
  BY <1>1
<1>4. MqttTypeOK' /\ PcTypes' /\ LockHolder'
  BY <1>1, <1>2, <1>3 DEF MqttIInv, MqttTypeOK, PcTypes, LockHolder, pubVars, webVars, evVars
<1>5. WebPlace' /\ OneClient' /\ Handles' /\ SessionTakesCommands'
  BY <1>1, <1>2
  DEF MqttIInv, WebPlace, OneClient, Handles, SessionTakesCommands, PcTypes, pubVars, webVars, evVars
<1>6. QED BY <1>4, <1>5 DEF MqttIInv

\* The initial states satisfy the invariant of the clients.
LEMMA MqttInitial == MqttInit => MqttIInv
<1> SUFFICES ASSUME MqttInit PROVE MqttIInv
  OBVIOUS
<1>1. /\ life = [c \in Clients |-> "none"] /\ conn = [c \in Clients |-> FALSE]
      /\ subscribed = [c \in Clients |-> FALSE]
      /\ sClient = Null /\ sConnected = FALSE /\ clientLock = "free" /\ queued = 0
      /\ ppc = "receive" /\ pclient = Null /\ wpc = "idle" /\ wclient = Null
      /\ calls = [c \in Clients |-> 0] /\ hclient = [c \in Clients |-> Null]
  BY DEF MqttInit
<1>2. /\ conn \in [Clients -> BOOLEAN] /\ subscribed \in [Clients -> BOOLEAN]
      /\ sConnected \in BOOLEAN /\ \A c \in Clients : ~conn[c]
  BY <1>1
<1>3. MqttTypeOK /\ PcTypes
  BY <1>1, <1>2, MqttAssumption DEF MqttTypeOK, PcTypes, Announcing, PubPcs, WebPcs
<1>4. LockHolder /\ WebPlace /\ OneClient /\ Handles /\ SessionTakesCommands
  BY <1>1, <1>2 DEF LockHolder, WebPlace, OneClient, Handles, SessionTakesCommands
<1>5. QED BY <1>3, <1>4 DEF MqttIInv

\* Every step keeps the invariant of the clients.
LEMMA MqttInductive == MqttIInv /\ [MqttNext]_mqttVars => MqttIInv'
<1> SUFFICES ASSUME MqttIInv, [MqttNext]_mqttVars PROVE MqttIInv'
  OBVIOUS
<1>1. CASE PublishTelemetry \/ PubTask
  BY <1>1, PublishTelemetryStep, PubTaskStep
<1>2. CASE Configure \/ WebTask
  BY <1>2, TakesLock, DetachStep, AskToStopStep, DestroyStep, MakeStep, AttachStep, StartStep
  DEF WebTask
<1>3. CASE \E c \in Clients : Connected(c) \/ Handler(c) \/ Disconnected(c)
  BY <1>3, ConnectedStep, ReadClientStep, CallStep, DisconnectedStep DEF Handler
<1>4. CASE UNCHANGED mqttVars
  BY <1>4, QueueStep DEF mqttVars, MqttIInv, MqttTypeOK
<1>5. QED BY <1>1, <1>2, <1>3, <1>4 DEF MqttNext

\* The invariant of the clients is what ClientsSound asks for.
LEMMA MqttSafe == MqttIInv => ClientsSound
<1> SUFFICES ASSUME MqttIInv PROVE ClientsSound
  OBVIOUS
<1>1. pclient # Null => life[pclient] # "none"
  BY DEF MqttIInv, Handles, OneClient
<1>2. ASSUME NEW c \in Clients, hclient[c] # Null PROVE life[hclient[c]] # "none"
  BY <1>2 DEF MqttIInv, Handles
<1>3. QED BY <1>1, <1>2 DEF ClientsSound, LiveClientOnly, MqttIInv

-----------------------------------------------------------------------------
(***************************************************************************)
(* The tracker.  Updated never calls a value a run unless it had another   *)
(* before it, and only "equal" leaves the time of the change alone.        *)
(***************************************************************************)

Trackers ==
  [have : BOOLEAN, known : BOOLEAN, running : BOOLEAN, age : 0 .. AgeMax]

\* The ages are bounded by a number.
LEMMA AgeBound == AgeMax \in Nat /\ Stale \in Nat /\ LoopAge \in Nat
BY ReportAssumption DEF AgeMax

\* Time adds one to an age, up to the bound, and keeps their order.
LEMMA OlderStep ==
  ASSUME NEW a \in 0 .. AgeMax
  PROVE  /\ Older(a) \in 0 .. AgeMax /\ Older(a) <= a + 1
         /\ \A b \in 0 .. AgeMax : b <= a => Older(b) <= Older(a)
BY AgeBound DEF Older

\* A report makes a run of the tracker only of a batch that moved.
LEMMA UpdatedKeeps ==
  ASSUME NEW t \in Trackers, t.known => t.have, t.running => t.have,
         NEW kind \in Kinds, NEW cmp \in Compared
  PROVE  LET u == Updated(t, kind, cmp) IN
         /\ u \in Trackers
         /\ (u.known => u.have) /\ (u.running => u.have)
         /\ u.running => \/ kind = "batch" /\ cmp # "equal" /\ t.have /\ u.age = 0
                         \/ kind = "batch" /\ cmp = "equal" /\ t.running /\ u.age = t.age
                         \/ kind = "prep" /\ t.running /\ u.age = t.age
<1> DEFINE u == Updated(t, kind, cmp)
<1> USE AgeBound DEF Trackers
<1>1. CASE kind = "prep"
  BY <1>1 DEF Updated
<1>2. CASE kind = "purge" \/ (kind = "batch" /\ ~t.have)
  BY <1>2 DEF Updated, Adopt
<1>3. CASE kind = "batch" /\ t.have /\ cmp = "above"
  <2>1. u = [t EXCEPT !.known = TRUE, !.running = TRUE, !.age = 0]
    BY <1>3 DEF Updated
  <2>2. u = [have |-> t.have, known |-> TRUE, running |-> TRUE, age |-> 0]
    BY <2>1
  <2>3. u \in Trackers
    BY <2>2
  <2>4. u.have /\ u.age = 0
    BY <1>3, <2>1
  <2>5. QED BY <1>3, <2>3, <2>4
<1>4. CASE kind = "batch" /\ t.have /\ cmp = "below"
  BY <1>4 DEF Updated
<1>5. CASE kind = "batch" /\ t.have /\ cmp = "equal"
  BY <1>5 DEF Updated
<1>6. CASE kind = "batch" /\ t.have
  BY <1>3, <1>4, <1>5, <1>6 DEF Compared
<1>7. QED BY <1>1, <1>2, <1>6 DEF Kinds

\* What the Mqtt part keeps when only the tracker moves.
LEMMA MqttStays == MqttIInv /\ UNCHANGED mqttVars => MqttIInv'
BY MqttInductive

LEMMA StatStep ==
  ASSUME TeleIInv, NEW kind \in Kinds, NEW cmp \in Compared, Stat(kind, cmp)
  PROVE  TeleIInv'
<1> DEFINE c == Comparison(tr, cmp)
<1>1. /\ c \in Compared /\ (tr.known => c = cmp) /\ (~tr.known => c = "above")
  BY DEF Comparison, Compared
<1>2. /\ upc' = "copy" /\ tr' = Updated(tr, kind, c)
      /\ moved' = IF kind = "batch" /\ tr.known /\ cmp # "equal" THEN 0 ELSE moved
      /\ UNCHANGED <<shown, mpc, ageT>>
  BY DEF Stat
<1>3. guessed' = IF kind = "purge" \/ (kind = "batch" /\ (cmp # "equal" \/ ~tr.known))
                   THEN kind = "batch" /\ tr.have /\ ~tr.known
                   ELSE guessed
  BY DEF Stat
<1>4. tr \in Trackers /\ (tr.known => tr.have) /\ (tr.running => tr.have) /\ moved \in 0 .. AgeMax /\ guessed \in BOOLEAN
  BY DEF TeleIInv, TeleTypes, TrackerTypes, Trackers
<1>5. /\ tr' \in Trackers /\ (tr'.known => tr'.have) /\ (tr'.running => tr'.have)
      /\ tr'.running => \/ kind = "batch" /\ c # "equal" /\ tr.have /\ tr'.age = 0
                        \/ kind = "batch" /\ c = "equal" /\ tr.running /\ tr'.age = tr.age
                        \/ kind = "prep" /\ tr.running /\ tr'.age = tr.age
  BY <1>1, <1>2, <1>4, UpdatedKeeps
<1>6. guessed' \in BOOLEAN
  <2>1. CASE kind = "purge" \/ (kind = "batch" /\ (cmp # "equal" \/ ~tr.known))
    BY <1>3, <2>1
  <2>2. CASE ~(kind = "purge" \/ (kind = "batch" /\ (cmp # "equal" \/ ~tr.known)))
    BY <1>3, <1>4, <2>2
  <2>3. QED BY <2>1, <2>2
<1>7. TeleTypes' /\ TrackerTypes'
  BY <1>2, <1>4, <1>5, <1>6, AgeBound DEF TeleIInv, TeleTypes, TrackerTypes, Trackers
<1>8. RunIsYoung'
  BY <1>2, <1>5, AgeBound DEF TeleIInv, TeleTypes, RunIsYoung
<1>9. MovedWithRun'
  <2>1. CASE kind = "batch" /\ tr.have /\ ~tr.known
    <3>1. guessed'
      BY <1>3, <2>1
    <3>2. QED BY <3>1 DEF MovedWithRun
  <2>2. CASE kind = "batch" /\ tr.known /\ cmp # "equal"
    BY <1>1, <1>2, <1>5, <2>2, AgeBound DEF MovedWithRun, Trackers
  <2>3. CASE kind = "batch" /\ tr.known /\ cmp = "equal"
    BY <1>1, <1>2, <1>3, <1>5, <2>3 DEF TeleIInv, MovedWithRun
  <2>4. CASE kind = "prep"
    BY <1>2, <1>3, <1>5, <2>4 DEF TeleIInv, MovedWithRun
  <2>5. CASE kind = "purge" \/ (kind = "batch" /\ ~tr.have)
    BY <1>1, <1>4, <1>5, <2>5 DEF MovedWithRun
  <2>6. QED BY <2>1, <2>2, <2>3, <2>4, <2>5 DEF Kinds
<1>10. CopyIsCurrent'
  BY <1>2 DEF CopyIsCurrent
<1>11. QED BY <1>7, <1>8, <1>9, <1>10 DEF TeleIInv

LEMMA TellStep == TeleIInv /\ Tell => TeleIInv'
BY DEF TeleIInv, TeleTypes, TrackerTypes, RunIsYoung, MovedWithRun, CopyIsCurrent, Tell

-----------------------------------------------------------------------------
(***************************************************************************)
(* The main loop: it looks at least once in a pass.                        *)
(***************************************************************************)

LEMMA LoopStep == TeleIInv /\ (ReadClock \/ TickLook \/ CopyTracker) => TeleIInv'
<1> SUFFICES ASSUME TeleIInv, ReadClock \/ TickLook \/ CopyTracker PROVE TeleIInv'
  OBVIOUS
<1>1. CASE ReadClock
  BY <1>1, AgeBound
  DEF TeleIInv, TeleTypes, TrackerTypes, RunIsYoung, MovedWithRun, CopyIsCurrent, ReadClock
<1>2. CASE TickLook
  <2>1. /\ mpc = "tick" /\ mpc' \in {"clear", "copy"}
        /\ UNCHANGED <<tr, shown, upc, ageT, moved, guessed>>
        /\ mpc' = "copy" /\ tr.have /\ tr.running => ~Expired
    BY <1>2 DEF TickLook
  <2>2. TeleTypes' /\ TrackerTypes' /\ MovedWithRun' /\ CopyIsCurrent'
    BY <2>1 DEF TeleIInv, TeleTypes, TrackerTypes, MovedWithRun, CopyIsCurrent
  <2>3. RunIsYoung'
    BY <2>1, AgeBound DEF TeleIInv, TeleTypes, RunIsYoung, Expired
  <2>4. QED BY <2>2, <2>3 DEF TeleIInv
<1>3. CASE CopyTracker
  BY <1>3, AgeBound
  DEF TeleIInv, TeleTypes, TrackerTypes, RunIsYoung, MovedWithRun, CopyIsCurrent, CopyTracker
<1>4. QED BY <1>1, <1>2, <1>3

\* Even over a report that came since it looked, clearing only ends a run.
LEMMA ClearStep == TeleIInv /\ TickClear => TeleIInv'
<1> SUFFICES ASSUME TeleIInv, TickClear PROVE TeleIInv'
  OBVIOUS
<1>1. /\ mpc' = "copy" /\ tr' = [tr EXCEPT !.running = FALSE]
      /\ UNCHANGED <<shown, upc, ageT, moved, guessed>>
  BY DEF TickClear
<1>2. tr' \in Trackers /\ tr'.known = tr.known /\ tr'.have = tr.have /\ ~tr'.running
  BY <1>1 DEF TeleIInv, TeleTypes, Trackers
<1>3. QED BY <1>1, <1>2
  DEF TeleIInv, TeleTypes, TrackerTypes, Trackers, RunIsYoung, MovedWithRun, CopyIsCurrent

LEMMA ClockStep == TeleIInv /\ Clock => TeleIInv'
<1> SUFFICES ASSUME TeleIInv, Clock PROVE TeleIInv'
  OBVIOUS
<1>1. /\ ageT < LoopAge /\ ageT' = ageT + 1 /\ moved' = Older(moved)
      /\ tr' = [tr EXCEPT !.age = IF tr.running THEN Older(tr.age) ELSE 0]
      /\ UNCHANGED <<shown, upc, mpc, guessed>>
  BY DEF Clock
<1>2. tr \in Trackers /\ moved \in 0 .. AgeMax
  BY DEF TeleIInv, TeleTypes, TrackerTypes, Trackers
<1>3. /\ Older(tr.age) \in 0 .. AgeMax /\ Older(tr.age) <= tr.age + 1
      /\ moved' \in 0 .. AgeMax /\ (moved <= tr.age => moved' <= Older(tr.age))
  BY <1>1, <1>2, OlderStep DEF Trackers
<1>4. /\ tr' \in Trackers
      /\ tr'.known = tr.known /\ tr'.have = tr.have /\ tr'.running = tr.running
      /\ tr.running => tr'.age = Older(tr.age)
  BY <1>1, <1>2, <1>3, AgeBound DEF Trackers
<1>5. TeleTypes' /\ TrackerTypes'
  BY <1>1, <1>3, <1>4, AgeBound DEF TeleIInv, TeleTypes, TrackerTypes, Trackers
<1>6. RunIsYoung'
  BY <1>1, <1>2, <1>3, <1>4, AgeBound DEF TeleIInv, TeleTypes, RunIsYoung, Trackers
<1>7. MovedWithRun' /\ CopyIsCurrent'
  BY <1>1, <1>3, <1>4 DEF TeleIInv, MovedWithRun, CopyIsCurrent
<1>8. QED BY <1>5, <1>6, <1>7 DEF TeleIInv

\* A step of the clients keeps the invariant of the trackers.
LEMMA TeleStays == TeleIInv /\ UNCHANGED teleVars => TeleIInv'
BY DEF teleVars, TeleIInv, TeleTypes, TrackerTypes, RunIsYoung, MovedWithRun, CopyIsCurrent

-----------------------------------------------------------------------------
(***************************************************************************)
(* The theorems                                                            *)
(***************************************************************************)

\* The initial states satisfy the inductive invariant.
LEMMA Initial == Init => IInv
<1> SUFFICES ASSUME Init PROVE IInv
  OBVIOUS
<1>1. MqttIInv
  BY MqttInitial DEF Init
<1>2. /\ tr = NewTracker /\ shown = FALSE /\ upc = "idle" /\ mpc = "read" /\ ageT = 0
      /\ moved = AgeMax /\ guessed = FALSE
  BY DEF Init
<1>3. /\ tr \in Trackers /\ ~tr.known /\ ~tr.running
      /\ shown \in BOOLEAN /\ guessed \in BOOLEAN
  <2>1. tr.known = FALSE /\ tr.running = FALSE
    BY <1>2 DEF NewTracker
  <2>2. tr \in Trackers
    BY <1>2, AgeBound DEF Trackers, NewTracker
  <2>3. shown \in BOOLEAN /\ guessed \in BOOLEAN
    BY <1>2
  <2>4. QED BY <2>1, <2>2, <2>3
<1>4. shown = tr.running
  BY <1>2 DEF NewTracker
<1>5. TeleIInv
  BY <1>2, <1>3, <1>4, AgeBound
  DEF TeleIInv, TeleTypes, TrackerTypes, Trackers, RunIsYoung, MovedWithRun, CopyIsCurrent
<1>6. QED BY <1>1, <1>5 DEF IInv

\* Every step keeps the inductive invariant: one case per action.
LEMMA Inductive == IInv /\ [Next]_vars => IInv'
<1> SUFFICES ASSUME IInv, [Next]_vars PROVE IInv'
  OBVIOUS
<1>1. MqttIInv /\ TeleIInv
  BY DEF IInv
<1>2. MqttIInv'
  <2>1. CASE \E k \in Kinds, c \in Compared : Stat(k, c)
    BY <1>1, <2>1, MqttStays DEF Stat
  <2>2. CASE Tell
    BY <1>1, <2>2, PublishTelemetryStep DEF Tell
  <2>3. CASE ReadClock \/ TickLook \/ TickClear \/ CopyTracker \/ Clock
    BY <1>1, <2>3, MqttStays DEF ReadClock, TickLook, TickClear, CopyTracker, Clock
  <2>4. CASE Publisher
    BY <1>1, <2>4, MqttInductive DEF Publisher, MqttNext
  <2>5. CASE UNCHANGED vars
    BY <1>1, <2>5, MqttStays DEF vars
  <2>6. QED BY <2>1, <2>2, <2>3, <2>4, <2>5 DEF Next
<1>3. TeleIInv'
  <2>1. CASE Publisher \/ UNCHANGED vars
    BY <1>1, <2>1, TeleStays DEF Publisher, vars
  <2>2. QED BY <1>1, <2>1, StatStep, TellStep, LoopStep, ClearStep, ClockStep DEF Next
<1>4. QED BY <1>2, <1>3 DEF IInv

(* The invariant holds of every state of the publisher and the tracker.    *)
THEOREM InductiveInvariant == Spec => []IInv
BY Initial, Inductive, PTL DEF Spec

(* However hr_mqtt.c's three tasks come between each other in a change of   *)
(* broker, no client is called once it is destroyed, and the one in use     *)
(* listens for commands.                                                   *)
THEOREM ClientsStayUsable == Spec => []ClientsSound
BY InductiveInvariant, MqttSafe, PTL DEF IInv

(* The publisher by itself, with whatever calls hr_mqtt_publish_telemetry.  *)
THEOREM PublisherAlone == MqttSpec => []ClientsSound
BY MqttInitial, MqttInductive, MqttSafe, PTL DEF MqttSpec

\* The invariant of the trackers is what ShownRunIsReal asks for.
LEMMA TrackerSafe == IInv => ShownRunIsReal
<1> SUFFICES ASSUME IInv PROVE ShownRunIsReal
  OBVIOUS
<1>1. TypeOK /\ CopyIsCurrent
  BY DEF IInv, MqttIInv, TeleIInv, TeleTypes, TypeOK
<1>2. RunningIsReal
  BY AgeBound DEF IInv, TeleIInv, TeleTypes, TrackerTypes, RunIsYoung, MovedWithRun, RunningIsReal
<1>3. QED BY <1>1, <1>2 DEF ShownRunIsReal

(* A run the page shows has moved within HR_RUN_STALE_MS and two passes of  *)
(* the main loop, whatever the two tasks that change the tracker and its    *)
(* copy do to each other (on_inbound, hr_phase_tracker_tick).              *)
THEOREM RunsShownAreReal == Spec => []ShownRunIsReal
BY InductiveInvariant, TrackerSafe, PTL

-----------------------------------------------------------------------------
(***************************************************************************)
(* The inductive invariant of TrendGraph.  It keeps the place behind the   *)
(* last point in step with the clock, for the series and for its file, and *)
(* the dryer's counter in step with what was heard of it.                  *)
(***************************************************************************)

GraphPcs == {"top", "remove", "resume", "restore", "persist", "save", "write", "saved"}
Clocks   == 0 .. MaxClock
SeriesOf == [pts : Seq(Points), open : {Never} \cup Clocks]

GraphTypes ==
  /\ clock \in Clocks /\ cuts \in 0 .. MaxCuts /\ powered \in BOOLEAN
  /\ dryer \in [on : BOOLEAN, elapsed : 0 .. clock, began : 0 .. clock, runs : 0 .. MaxRuns]
  /\ series \in SeriesOf /\ Len(series.pts) <= Capacity
  /\ series.open # Never => series.open <= clock
  /\ seen \in [running : BOOLEAN, elapsed : -1 .. MaxClock, at : 0 .. clock]
  /\ stale \in BOOLEAN /\ resumed \in BOOLEAN /\ ready \in BOOLEAN
  /\ persisted \in 0 .. Capacity /\ pc \in GraphPcs
  /\ loc \in [elapsed : Clocks, have : 0 .. Capacity, n : 0 .. Capacity, silence : Clocks]
  /\ file \in [pts : Seq(Points), elapsed : Clocks, whole : BOOLEAN, silence : Clocks]
  /\ Len(file.pts) <= Capacity
  /\ clean \in BOOLEAN /\ twice \in Nat

Wide(n) == n * Bucket

\* The place behind the last point is for now, and every point is as far from
\* it, and from the others, as it is old, or further by slack at most.
Plot(pts, now, slack) ==
  /\ \A i \in Real(pts) :
       pts[i] < now /\ Wide(Len(pts) - i + 1) <= now - pts[i] + slack
  /\ \A i, j \in Real(pts) :
       i < j => pts[i] < pts[j] /\ Wide(j - i) <= pts[j] - pts[i] + slack

\* With the gaps for the time since the counter stood at elapsed as well.
Dated(pts, elapsed, slack) ==
  \A i \in Real(pts) :
    Wide(Len(pts) - i + 1) + elapsed <= clock - pts[i] + slack

Opened == IF series.open = Never THEN clock ELSE series.open

SeriesAt(s, now, slack) ==
  /\ s \in SeriesOf /\ Len(s.pts) <= Capacity
  /\ s.open # Never => s.open <= now
  /\ Plot(s.pts, IF s.open = Never THEN now ELSE s.open, slack)

SeriesPlot == Plot(series.pts, Opened, twice)
FilePlot ==
  /\ Plot(file.pts, clock, twice)
  /\ Dated(file.pts, dryer.elapsed - file.elapsed, file.silence + twice)
  /\ pc = "restore" => Dated(file.pts, loc.elapsed - file.elapsed, file.silence + twice)

\* The counter heard is of now, or older by the time since; so is the one a
\* save has with it.
Heard ==
  seen.elapsed >= 0 =>
    seen.elapsed <= dryer.elapsed /\ dryer.elapsed - seen.elapsed <= clock - seen.at
StoredCounter ==
  /\ pc = "save"  => dryer.elapsed - loc.elapsed <= loc.silence
  /\ pc = "write" => dryer.elapsed - file.elapsed <= file.silence

\* No bucket is overdue in the middle of a pass.
Swept == pc # "top" => series.open = Never \/ clock - series.open < Bucket

Extends(s, f) == Len(f) <= Len(s) /\ \A i \in 1 .. Len(f) : f[i] = s[i]

\* What is being written is of the series, or the series has been emptied.
Writing == pc = "write" => series.pts = <<>> \/ Extends(series.pts, file.pts)

Follows ==
  resumed /\ ~stale /\ pc \notin {"remove", "restore"} /\ Len(series.pts) < Capacity =>
    Extends(series.pts, file.pts)

From(s, b) == /\ s.open # Never => b <= s.open
              /\ \A i \in Real(s.pts) : b <= s.pts[i]
OfThisRun == clean => resumed /\ pc # "restore" /\ From(series, dryer.began)

\* A resume is after the mount and the first report, and nothing is done
\* without power.
Boots ==
  /\ resumed => ready /\ seen.elapsed >= 0
  /\ ~powered => series = Empty /\ seen = Unseen /\ pc = "top" /\ ~resumed /\ ~stale
  /\ pc \in {"restore", "save", "write", "saved"} => resumed

GraphIInv ==
  /\ GraphTypes /\ SeriesPlot /\ FilePlot /\ Heard /\ StoredCounter /\ Swept
  /\ Writing /\ Follows /\ OfThisRun /\ Boots

-----------------------------------------------------------------------------
(***************************************************************************)
(* The operators of Trend.                                                 *)
(***************************************************************************)

LEMMA Sizes ==
  Bucket \in Nat /\ Bucket > 0 /\ Capacity \in Nat /\ Capacity > 0 /\ MaxClock \in Nat
BY TrendAssumption, GraphAssumption

LEMMA WideInt ==
  ASSUME NEW a \in Int PROVE Wide(a) \in Int
BY Sizes DEF Wide

LEMMA WideSum ==
  ASSUME NEW a \in Int, NEW b \in Int PROVE Wide(a + b) = Wide(a) + Wide(b)
BY Sizes DEF Wide

LEMMA WideOne == Wide(0) = 0 /\ Wide(1) = Bucket
BY Sizes DEF Wide

LEMMA WideMore ==
  ASSUME NEW a \in Int, NEW b \in Int, a <= b PROVE Wide(a) <= Wide(b)
<1>1. b - a \in Nat /\ b = a + (b - a)
  OBVIOUS
<1>2. Wide(b - a) \in Nat
  BY <1>1, Sizes DEF Wide
<1>3. Wide(b) = Wide(a) + Wide(b - a)
  BY <1>1, WideSum
<1>4. QED BY <1>2, <1>3, WideInt

\* Whole widths in a time: no more than it.
LEMMA WholeWidths ==
  ASSUME NEW x \in Nat
  PROVE  /\ x \div Bucket \in Nat
         /\ Wide(x \div Bucket) <= x
         /\ x >= Bucket => x \div Bucket - 1 \in Nat
<1>1. Bucket \in Nat /\ Bucket > 0
  BY Sizes
<1> DEFINE q == x \div Bucket
<1>2. q \in Int /\ x = Bucket * q + (x % Bucket) /\ x % Bucket \in 0 .. (Bucket - 1)
  BY <1>1
<1>3. Wide(q) = Bucket * q /\ Wide(q) \in Int /\ q + 1 \in Int
  BY <1>1, <1>2 DEF Wide
<1> HIDE DEF q
<1>4. Wide(q) <= x /\ x < Wide(q) + Bucket /\ Wide(q + 1) = Wide(q) + Bucket
  <2>1. Wide(q + 1) = Wide(q) + Wide(1)
    BY <1>2, WideSum
  <2>2. x % Bucket \in Int /\ 0 <= x % Bucket /\ x % Bucket < Bucket /\ x = Wide(q) + (x % Bucket)
    BY <1>1, <1>2, <1>3
  <2>3. QED BY <1>1, <1>3, <2>1, <2>2, WideOne
<1>5. q >= 0
  <2>1. SUFFICES ASSUME q + 1 <= 0 PROVE FALSE
    BY <1>2
  <2>2. Wide(q + 1) <= Wide(0)
    BY <1>3, <2>1, WideMore
  <2>3. Wide(q + 1) <= 0
    BY <2>2, WideOne
  <2>4. QED BY <1>1, <1>3, <1>4, <2>3
<1>6. ASSUME x >= Bucket PROVE q >= 1
  <2>1. SUFFICES ASSUME q + 1 <= 1 PROVE FALSE
    BY <1>2
  <2>2. Wide(q + 1) <= Wide(1)
    BY <1>3, <2>1, WideMore
  <2>3. QED BY <1>1, <1>3, <1>4, <1>6, <2>2, WideOne
<1>7. QED BY <1>2, <1>4, <1>5, <1>6 DEF q

LEMMA GapsAre ==
  ASSUME NEW n \in Nat
  PROVE  /\ Gaps(n) \in Seq(Points) /\ Len(Gaps(n)) = n
         /\ \A i \in 1 .. n : Gaps(n)[i] = Gap
BY DEF Gaps, Points, Gap

LEMMA RealOf ==
  ASSUME NEW s \in Seq(Points), NEW i
  PROVE  /\ i \in Real(s) <=> i \in 1 .. Len(s) /\ s[i] # Gap
         /\ i \in Real(s) => s[i] \in Clocks
BY Sizes DEF Real, Points, Clocks, Gap

\* The window leaves the youngest points, as they are.
LEMMA WindowOf ==
  ASSUME NEW s \in Seq(Points)
  PROVE  /\ Window(s) \in Seq(Points) /\ Len(Window(s)) <= Capacity
         /\ Len(Window(s)) < Capacity => Window(s) = s
         /\ \E k \in Nat : /\ Len(s) = Len(Window(s)) + k
                           /\ \A i \in 1 .. Len(Window(s)) : Window(s)[i] = s[i + k]
<1>1. CASE Len(s) <= Capacity
  <2>1. Window(s) = s
    BY <1>1 DEF Window
  <2>2. Len(s) = Len(s) + 0 /\ \A i \in 1 .. Len(s) : s[i] = s[i + 0]
    OBVIOUS
  <2>3. QED BY <1>1, <2>1, <2>2
<1>2. CASE Len(s) > Capacity
  <2> DEFINE k == Len(s) - Capacity
  <2>0. k \in Nat
    BY <1>2, Sizes
  <2>1. /\ k \in Nat /\ Window(s) = SubSeq(s, k + 1, Len(s))
        /\ Len(s) - (k + 1) + 1 = Capacity /\ k + 1 <= Len(s)
    BY <1>2, Sizes DEF Window
  <2>2. \A i \in (k + 1) .. Len(s) : s[i] \in Points
    BY <2>1
  <2>3. /\ Window(s) \in Seq(Points) /\ Len(Window(s)) = Capacity
        /\ \A i \in 1 .. Capacity : Window(s)[i] = s[(k + 1) + i - 1]
    BY <2>1, <2>2, SubSeqProperties
  <2>4. \A i \in 1 .. Capacity : Window(s)[i] = s[i + k]
    BY <2>1, <2>3, Sizes
  <2>5. Len(s) = Len(Window(s)) + k
    BY <2>1, <2>3, Sizes
  <2> HIDE DEF k
  <2>6. \E m \in Nat : /\ Len(s) = Len(Window(s)) + m
                       /\ \A i \in 1 .. Len(Window(s)) : Window(s)[i] = s[i + m]
    <3> WITNESS k \in Nat
    <3> QED BY <2>3, <2>4, <2>5
  <2>7. QED BY <2>3, <2>6, Sizes
<1>3. QED BY <1>1, <1>2, Sizes

\* The beginning of a plot, and the end of one, is a plot.
LEMMA PartOfPlot ==
  ASSUME NEW s \in Seq(Points), NEW t \in Seq(Points), NEW k \in Nat,
         NEW now \in Int, NEW slack \in Int, Plot(s, now, slack),
         Len(t) + k <= Len(s), \A i \in 1 .. Len(t) : t[i] = s[i + k]
  PROVE  Plot(t, now, slack)
<1>1. ASSUME NEW i \in Real(t)
      PROVE  /\ i \in 1 .. Len(t) /\ t[i] \in Clocks /\ t[i] = s[i + k] /\ i + k \in Real(s)
             /\ i + k \in 1 .. Len(s)
  <2>1. i \in 1 .. Len(t) /\ t[i] # Gap /\ t[i] \in Clocks
    BY <1>1, RealOf
  <2>2. t[i] = s[i + k] /\ i + k \in 1 .. Len(s)
    BY <2>1
  <2>3. QED BY <2>1, <2>2, RealOf
<1>2. ASSUME NEW i \in Real(t)
      PROVE  t[i] < now /\ Wide(Len(t) - i + 1) <= now - t[i] + slack
  <2>1. t[i] < now /\ Wide(Len(s) - (i + k) + 1) <= now - t[i] + slack
    BY <1>1, <1>2 DEF Plot
  <2>2. Wide(Len(t) - i + 1) <= Wide(Len(s) - (i + k) + 1)
    <3>1. /\ Len(t) - i + 1 \in Int /\ Len(s) - (i + k) + 1 \in Int
          /\ Len(t) - i + 1 <= Len(s) - (i + k) + 1
      BY <1>1, <1>2
    <3>2. QED BY <3>1, WideMore
  <2>3. /\ Wide(Len(t) - i + 1) \in Int /\ Wide(Len(s) - (i + k) + 1) \in Int
        /\ t[i] \in Int
    <3>1. Len(t) - i + 1 \in Int /\ Len(s) - (i + k) + 1 \in Int
      BY <1>1, <1>2
    <3>2. t[i] \in Int
      BY <1>1, <1>2 DEF Clocks
    <3>3. QED BY <3>1, <3>2, WideInt
  <2> DEFINE v == Wide(Len(t) - i + 1)
             w == Wide(Len(s) - (i + k) + 1)
             q == t[i]
  <2>4. q < now /\ w <= now - q + slack /\ v <= w /\ v \in Int /\ w \in Int /\ q \in Int
    BY <2>1, <2>2, <2>3
  <2> HIDE DEF v, w, q
  <2>5. q < now /\ v <= now - q + slack
    BY <2>4
  <2>6. QED BY <2>5 DEF v, q
<1>3. ASSUME NEW i \in Real(t), NEW j \in Real(t), i < j
      PROVE  t[i] < t[j] /\ Wide(j - i) <= t[j] - t[i] + slack
  <2>1. i + k < j + k /\ (j + k) - (i + k) = j - i
    BY <1>1, <1>3
  <2>2. QED BY <1>1, <1>3, <2>1 DEF Plot
<1>4. QED BY <1>2, <1>3 DEF Plot

\* A later now, and a greater slack, leave a plot one.
LEMMA LaterPlot ==
  ASSUME NEW s \in Seq(Points), NEW now \in Int, NEW slack \in Int,
         NEW then \in Int, NEW more \in Int, now <= then, slack <= more,
         Plot(s, now, slack)
  PROVE  Plot(s, then, more)
<1>1. \A i \in Real(s) : i \in Int /\ s[i] \in Int
  BY RealOf, Sizes DEF Clocks
<1>2. \A i \in Real(s) : Wide(Len(s) - i + 1) \in Int
  BY <1>1, WideInt
<1>3. \A i, j \in Real(s) : Wide(j - i) \in Int
  BY <1>1, WideInt
<1>4. ASSUME NEW i \in Real(s)
      PROVE  s[i] < then /\ Wide(Len(s) - i + 1) <= then - s[i] + more
  <2>1. s[i] < now /\ Wide(Len(s) - i + 1) <= now - s[i] + slack
    BY <1>4 DEF Plot
  <2> DEFINE w == Wide(Len(s) - i + 1)
             q == s[i]
  <2>2. w \in Int /\ q \in Int /\ q < now /\ w <= now - q + slack
    BY <1>1, <1>2, <1>4, <2>1
  <2> HIDE DEF w, q
  <2>3. q < then /\ w <= then - q + more
    BY <2>2
  <2>4. QED BY <2>3 DEF w, q
<1>5. ASSUME NEW i \in Real(s), NEW j \in Real(s), i < j
      PROVE  s[i] < s[j] /\ Wide(j - i) <= s[j] - s[i] + more
  <2>1. s[i] < s[j] /\ Wide(j - i) <= s[j] - s[i] + slack
    BY <1>5 DEF Plot
  <2>2. s[i] \in Int /\ s[j] \in Int /\ Wide(j - i) \in Int
    BY <1>1, <1>3, <1>5
  <2>3. QED BY <2>1, <2>2
<1>6. QED BY <1>4, <1>5 DEF Plot

LEMMA NoPlot == \A now, slack : Plot(<<>>, now, slack)
BY DEF Plot, Real

\* Gaps no wider than a time carry a plot over it.
LEMMA GappedPlot ==
  ASSUME NEW s \in Seq(Points), NEW g \in Nat, NEW now \in Int, NEW slack \in Int,
         NEW then \in Int, NEW more \in Int, slack <= more, now <= then,
         Plot(s, now, slack),
         \A i \in Real(s) : Wide(Len(s) - i + 1) + Wide(g) <= then - s[i] + more
  PROVE  s \o Gaps(g) \in Seq(Points) /\ Plot(s \o Gaps(g), then, more)
<1> DEFINE all == s \o Gaps(g)
<1>1. /\ all \in Seq(Points) /\ Len(all) = Len(s) + g
      /\ \A i \in 1 .. Len(s) + g : all[i] = IF i <= Len(s) THEN s[i] ELSE Gaps(g)[i - Len(s)]
  <2>1. Gaps(g) \in Seq(Points) /\ Len(Gaps(g)) = g
    BY GapsAre
  <2>2. QED BY <2>1, ConcatProperties
<1>2. ASSUME NEW i \in Real(all)
      PROVE  i \in 1 .. Len(s) /\ i \in Real(s) /\ all[i] = s[i] /\ s[i] \in Int
  <2>1. i \in 1 .. Len(s) + g /\ all[i] # Gap
    BY <1>1, <1>2, RealOf
  <2>2. i <= Len(s)
    BY <1>1, <2>1, GapsAre
  <2>3. i \in 1 .. Len(s) /\ all[i] = s[i]
    BY <1>1, <2>1, <2>2
  <2>4. QED BY <2>1, <2>3, RealOf DEF Clocks
<1>3. ASSUME NEW i \in Real(all)
      PROVE  all[i] < then /\ Wide(Len(all) - i + 1) <= then - all[i] + more
  <2>1. all[i] = s[i] /\ i \in Int /\ s[i] \in Int /\ s[i] < now
    BY <1>2, <1>3 DEF Plot
  <2>2. /\ Len(all) - i + 1 = (Len(s) - i + 1) + g
        /\ Wide((Len(s) - i + 1) + g) = Wide(Len(s) - i + 1) + Wide(g)
    <3>1. Len(s) - i + 1 \in Int /\ Len(all) - i + 1 = (Len(s) - i + 1) + g
      BY <1>1, <2>1
    <3>2. QED BY <3>1, WideSum
  <2>3. Wide(Len(s) - i + 1) + Wide(g) <= then - s[i] + more
    BY <1>2, <1>3
  <2>4. Wide(Len(all) - i + 1) = Wide(Len(s) - i + 1) + Wide(g)
    BY <2>2
  <2>5. Wide(Len(all) - i + 1) <= then - s[i] + more
    BY <2>3, <2>4
  <2>6. s[i] < then
    BY <2>1
  <2>7. QED BY <2>1, <2>5, <2>6
<1>4. ASSUME NEW i \in Real(all), NEW j \in Real(all), i < j
      PROVE  all[i] < all[j] /\ Wide(j - i) <= all[j] - all[i] + more
  <2>1. s[i] < s[j] /\ Wide(j - i) <= s[j] - s[i] + slack
    BY <1>2, <1>4 DEF Plot
  <2>2. Wide(j - i) \in Int
    BY <1>2, <1>4, WideInt
  <2>3. all[i] = s[i] /\ all[j] = s[j] /\ s[i] \in Int /\ s[j] \in Int
    BY <1>2, <1>4
  <2>4. QED BY <2>1, <2>2, <2>3
<1>5. QED BY <1>1, <1>3, <1>4 DEF Plot

\* The open bucket, closed, is a point of the plot.
LEMMA ClosedPlot ==
  ASSUME NEW s \in Seq(Points), NEW open \in Clocks, NEW slack \in Nat,
         NEW over \in Int, over = open + Bucket,
         Plot(s, open, slack)
  PROVE  /\ s \o <<open>> \in Seq(Points) /\ Plot(s \o <<open>>, over, slack)
         /\ Len(s \o <<open>>) = Len(s) + 1
<1> DEFINE all == s \o <<open>>
<1>0. open \in Points /\ open # Gap /\ open \in Int
  BY Sizes DEF Points, Clocks, Gap
<1>1. /\ all \in Seq(Points) /\ Len(all) = Len(s) + 1
      /\ \A i \in 1 .. Len(s) : all[i] = s[i]
      /\ all[Len(s) + 1] = open
  BY <1>0
<1> HIDE DEF all
<1>2. ASSUME NEW i \in Real(all), i # Len(s) + 1
      PROVE  i \in 1 .. Len(s) /\ i \in Real(s) /\ all[i] = s[i] /\ s[i] \in Int
  <2>1. i \in 1 .. Len(s) + 1 /\ all[i] # Gap
    BY <1>1, <1>2, RealOf
  <2>2. i \in 1 .. Len(s)
    BY <1>2, <2>1
  <2>3. QED BY <1>1, <2>1, <2>2, RealOf DEF Clocks
<1>3. ASSUME NEW i \in Real(all)
      PROVE  all[i] < over
             /\ Wide(Len(all) - i + 1) <= over - all[i] + slack
  <2>1. CASE i = Len(s) + 1
    <3>1. Len(all) - i + 1 = 1 /\ Wide(1) = Bucket /\ all[i] = open
      BY <1>1, <2>1, WideOne
    <3>2. QED BY <3>1, <1>0, Sizes, WideOne
  <2>2. CASE i # Len(s) + 1
    <3>1. s[i] < open /\ Wide(Len(s) - i + 1) <= open - s[i] + slack
      BY <1>2, <1>3, <2>2 DEF Plot
    <3>2. /\ Len(all) - i + 1 = (Len(s) - i + 1) + 1
          /\ Wide((Len(s) - i + 1) + 1) = Wide(Len(s) - i + 1) + Wide(1)
          /\ Wide(1) = Bucket /\ Wide(Len(s) - i + 1) \in Int
      <4>1. Len(s) - i + 1 \in Int /\ Len(all) - i + 1 = (Len(s) - i + 1) + 1
        BY <1>1, <1>2, <1>3, <2>2
      <4>2. Wide((Len(s) - i + 1) + 1) = Wide(Len(s) - i + 1) + Wide(1)
        BY <4>1, WideSum
      <4>3. Wide(Len(s) - i + 1) \in Int
        BY <4>1, WideInt
      <4>4. QED BY <4>1, <4>2, <4>3, WideOne
    <3>3. all[i] = s[i] /\ s[i] \in Int
      BY <1>2, <1>3, <2>2
    <3>4. Wide(Len(all) - i + 1) = Wide(Len(s) - i + 1) + Bucket
      BY <3>2
    <3>5. Wide(Len(s) - i + 1) \in Int
      BY <3>2
    <3> DEFINE w == Wide(Len(s) - i + 1)
               q == s[i]
    <3>6. w \in Int /\ q \in Int /\ q < open /\ w <= open - q + slack
      BY <3>1, <3>3, <3>5
    <3> HIDE DEF w, q
    <3>7. q < over /\ w + Bucket <= over - q + slack
      BY <1>0, <3>6, Sizes
    <3>8. QED BY <3>3, <3>4, <3>7 DEF w, q
  <2>3. QED BY <2>1, <2>2
<1>4. ASSUME NEW i \in Real(all), NEW j \in Real(all), i < j
      PROVE  all[i] < all[j] /\ Wide(j - i) <= all[j] - all[i] + slack
  <2>0. i # Len(s) + 1
    <3>1. i \in 1 .. Len(s) + 1 /\ j \in 1 .. Len(s) + 1
      BY <1>1, <1>4, RealOf
    <3>2. QED BY <1>4, <3>1
  <2>1. CASE j = Len(s) + 1
    <3>1. s[i] < open /\ Wide(Len(s) - i + 1) <= open - s[i] + slack
      BY <1>2, <1>4, <2>0 DEF Plot
    <3>2. j - i = Len(s) - i + 1
      BY <1>2, <1>4, <2>0, <2>1
    <3>3. QED BY <1>1, <1>2, <1>4, <2>0, <2>1, <3>1, <3>2
  <2>2. CASE j # Len(s) + 1
    BY <1>2, <1>4, <2>0, <2>2 DEF Plot
  <2>3. QED BY <2>1, <2>2
<1>5. Plot(all, over, slack)
  BY <1>3, <1>4 DEF Plot
<1>6. QED BY <1>1, <1>5 DEF all

\* hr_trend_tick keeps a plot one, and all of it that there is room for.
LEMMA TickAt ==
  ASSUME NEW s, NEW now \in Clocks, NEW slack \in Nat, SeriesAt(s, now, slack),
         NEW t, t = Tick(s, now)
  PROVE  /\ SeriesAt(t, now, slack)
         /\ t.open = Never \/ now - t.open < Bucket
         /\ s.open = Never \/ now - s.open < Bucket => t = s
         /\ Len(t.pts) < Capacity => Extends(t.pts, s.pts)
         /\ \A b \in Int : From(s, b) => From(t, b)
<1>0. now \in Int /\ s.pts \in Seq(Points) /\ s.open \in {Never} \cup Clocks
  BY DEF Clocks, SeriesAt, SeriesOf
<1>1. CASE s.open = Never \/ now - s.open < Bucket
  BY <1>0, <1>1 DEF Tick, Extends
<1>2. CASE s.open # Never /\ ~(now - s.open < Bucket)
  <2> DEFINE x    == now - s.open
             g    == x \div Bucket - 1
             over == s.open + Bucket
             one  == s.pts \o <<s.open>>
             all  == one \o Gaps(g)
  <2>1. /\ s.open \in Clocks /\ s.open \in Int /\ s.open <= now /\ Plot(s.pts, s.open, slack)
        /\ x \in Nat /\ x >= Bucket /\ over \in Int /\ over <= now /\ s.open # Gap
        /\ s.open \in Points
    <3>1. s.open \in Clocks /\ s.open <= now /\ Plot(s.pts, s.open, slack)
      BY <1>0, <1>2 DEF SeriesAt
    <3>2. s.open \in Int /\ s.open >= 0 /\ s.open \in Points /\ s.open # Gap
      BY <3>1, Sizes DEF Clocks, Gap, Points
    <3>3. now - s.open >= Bucket
      BY <1>0, <1>2, <3>2, Sizes
    <3>4. QED BY <1>0, <3>1, <3>2, <3>3, Sizes
  <2>2. /\ g \in Nat /\ Wide(g) + Bucket <= x
    <3>1. x \div Bucket \in Nat /\ Wide(x \div Bucket) <= x /\ g \in Nat
      BY <2>1, WholeWidths
    <3>2. x \div Bucket = g + 1
      BY <3>1
    <3>3. Wide(g + 1) = Wide(g) + Wide(1)
      BY <3>1, WideSum
    <3>4. QED BY <3>1, <3>2, <3>3, WideOne
  <2>3. one \in Seq(Points) /\ Plot(one, over, slack) /\ Len(one) = Len(s.pts) + 1
    BY <1>0, <2>1, ClosedPlot
  <2>4. t = [pts |-> Window(all), open |-> Never]
    BY <1>2 DEF Tick
  <2>15. (\A i \in 1 .. Len(s.pts) : one[i] = s.pts[i]) /\ one[Len(s.pts) + 1] = s.open
    BY <1>0, <2>1
  <2>16. over - s.open = Bucket /\ now - over = x - Bucket /\ x \in Int
    BY <1>0, <2>1, Sizes
  <2> HIDE DEF x, g, over, one
  <2>5. Gaps(g) \in Seq(Points) /\ Len(Gaps(g)) = g /\ \A i \in 1 .. g : Gaps(g)[i] = Gap
    BY <2>2, GapsAre
  <2>6. /\ all \in Seq(Points) /\ Len(all) = Len(s.pts) + 1 + g
        /\ \A i \in 1 .. Len(s.pts) : all[i] = s.pts[i]
        /\ \A i \in 1 .. Len(all) : i > Len(s.pts) => all[i] \in {s.open, Gap}
    <3>1. /\ all \in Seq(Points) /\ Len(all) = Len(one) + g
          /\ \A i \in 1 .. Len(one) + g :
               all[i] = IF i <= Len(one) THEN one[i] ELSE Gaps(g)[i - Len(one)]
      <4>1. one \in Seq(Points) /\ Gaps(g) \in Seq(Points)
        BY <2>3, <2>5
      <4>2. /\ all \in Seq(Points) /\ Len(all) = Len(one) + Len(Gaps(g))
            /\ \A i \in 1 .. Len(one) + Len(Gaps(g)) :
                 all[i] = IF i <= Len(one) THEN one[i] ELSE Gaps(g)[i - Len(one)]
        BY <4>1, ConcatProperties
      <4>3. QED BY <2>5, <4>2
    <3>2. Len(s.pts) \in Nat
      BY <1>0
    <3>3. ASSUME NEW i \in 1 .. Len(s.pts) PROVE all[i] = s.pts[i]
      BY <2>2, <2>3, <2>15, <3>1, <3>2
    <3>4. ASSUME NEW i \in 1 .. Len(all), i > Len(s.pts) PROVE all[i] \in {s.open, Gap}
      <4>1. CASE i = Len(s.pts) + 1
        BY <2>2, <2>3, <2>15, <3>1, <3>2, <4>1
      <4>2. CASE i # Len(s.pts) + 1
        <5>1. i - Len(one) \in 1 .. g /\ ~(i <= Len(one)) /\ i \in 1 .. Len(one) + g
          BY <2>2, <2>3, <3>1, <3>2, <3>4, <4>2
        <5>2. QED BY <2>5, <3>1, <5>1
      <4>3. QED BY <4>1, <4>2
    <3>5. QED BY <2>3, <3>1, <3>3, <3>4
  <2>7. Plot(all, now, slack)
    <3>1. ASSUME NEW i \in Real(one)
          PROVE  Wide(Len(one) - i + 1) + Wide(g) <= now - one[i] + slack
      <4>1. i \in 1 .. Len(one) /\ one[i] \in Int
        BY <2>3, <3>1, RealOf DEF Clocks
      <4>2. Wide(Len(one) - i + 1) <= over - one[i] + slack
        BY <2>3, <3>1 DEF Plot
      <4>3. Len(one) - i + 1 \in Int
        BY <2>3, <4>1
      <4>4. Wide(Len(one) - i + 1) \in Int /\ Wide(g) \in Int
        BY <2>2, <4>3, WideInt
      <4> DEFINE w == Wide(Len(one) - i + 1)
                 q == one[i]
                 h == Wide(g)
      <4>5. w \in Int /\ q \in Int /\ h \in Int /\ w <= over - q + slack /\ h + Bucket <= x
        BY <2>2, <4>1, <4>2, <4>4
      <4> HIDE DEF w, q, h
      <4>6. over \in Int /\ x \in Int /\ now - over = x - Bucket
        BY <2>1, <2>16
      <4>7. w + h <= now - q + slack
        BY <1>0, <4>5, <4>6, Sizes
      <4>8. QED BY <4>7 DEF w, q, h
    <3>2. slack \in Int /\ slack <= slack
      OBVIOUS
    <3>3. QED BY <1>0, <2>1, <2>2, <2>3, <3>1, <3>2, GappedPlot
  <2> HIDE DEF all
  <2>8. /\ Window(all) \in Seq(Points) /\ Len(Window(all)) <= Capacity
        /\ Len(Window(all)) < Capacity => Window(all) = all
    BY <2>6, WindowOf
  <2>9. PICK k \in Nat : /\ Len(all) = Len(Window(all)) + k
                         /\ \A i \in 1 .. Len(Window(all)) : Window(all)[i] = all[i + k]
    BY <2>6, WindowOf
  <2>10. Plot(Window(all), now, slack)
    <3>1. Len(Window(all)) + k <= Len(all)
      BY <2>6, <2>8, <2>9
    <3>2. QED BY <1>0, <2>6, <2>7, <2>8, <2>9, <3>1, PartOfPlot
  <2>11. SeriesAt(t, now, slack)
    BY <2>4, <2>8, <2>10 DEF SeriesAt, SeriesOf
  <2>12. Len(t.pts) < Capacity => Extends(t.pts, s.pts)
    BY <1>0, <2>2, <2>4, <2>6, <2>8 DEF Extends
  <2>13. ASSUME NEW b \in Int, From(s, b) PROVE From(t, b)
    <3>1. ASSUME NEW i \in Real(Window(all)) PROVE b <= Window(all)[i]
      <4>1. /\ i \in 1 .. Len(Window(all)) /\ Window(all)[i] # Gap
        BY <2>8, <3>1, RealOf
      <4>2. /\ Window(all)[i] = all[i + k] /\ i + k \in 1 .. Len(all)
        BY <2>6, <2>8, <2>9, <4>1
      <4>3. CASE i + k <= Len(s.pts)
        <5>1. i + k \in Real(s.pts) /\ all[i + k] = s.pts[i + k]
          BY <1>0, <2>6, <4>1, <4>2, <4>3, RealOf
        <5>2. QED BY <2>13, <4>2, <5>1 DEF From
      <4>4. CASE i + k > Len(s.pts)
        BY <1>2, <2>6, <2>13, <4>1, <4>2, <4>4 DEF From
      <4>5. QED BY <1>0, <4>2, <4>3, <4>4
    <3>2. QED BY <2>4, <3>1 DEF From
  <2>14. QED BY <1>2, <2>4, <2>11, <2>12, <2>13
<1>3. QED BY <1>1, <1>2

\* hr_trend_add opens a bucket where none is open.
LEMMA AddAt ==
  ASSUME NEW s, NEW now \in Clocks, NEW slack \in Nat, SeriesAt(s, now, slack),
         NEW t, t = Add(s, now)
  PROVE  /\ SeriesAt(t, now, slack)
         /\ t.open # Never /\ now - t.open < Bucket
         /\ s.open = Never \/ now - s.open < Bucket => t.pts = s.pts
         /\ Len(t.pts) < Capacity => Extends(t.pts, s.pts)
         /\ \A b \in Int : From(s, b) /\ b <= now => From(t, b)
<1> DEFINE u == Tick(s, now)
<1>1. /\ SeriesAt(u, now, slack)
      /\ u.open = Never \/ now - u.open < Bucket
      /\ s.open = Never \/ now - s.open < Bucket => u = s
      /\ Len(u.pts) < Capacity => Extends(u.pts, s.pts)
      /\ \A b \in Int : From(s, b) => From(u, b)
  BY TickAt
<1>2. t = IF u.open = Never THEN [u EXCEPT !.open = now] ELSE u
  BY DEF Add
<1> HIDE DEF u
<1>3. u = [pts |-> u.pts, open |-> u.open] /\ u.pts \in Seq(Points)
  BY <1>1 DEF SeriesAt, SeriesOf
<1>4. t.pts = u.pts /\ t.open = IF u.open = Never THEN now ELSE u.open
  BY <1>2, <1>3
<1>5. now # Never /\ now \in Int
  BY Sizes DEF Clocks, Never
<1>6. SeriesAt(t, now, slack)
  <2>1. t \in SeriesOf
    BY <1>1, <1>2 DEF SeriesAt, SeriesOf
  <2>2. QED BY <1>1, <1>4, <1>5, <2>1 DEF SeriesAt
<1>7. \A b \in Int : From(s, b) /\ b <= now => From(t, b)
  BY <1>1, <1>4 DEF From
<1>8. QED BY <1>1, <1>4, <1>5, <1>6, <1>7, Sizes

\* The same of an emptied series.
LEMMA AddAnew ==
  ASSUME NEW now \in Clocks
  PROVE  Add(Empty, now) = [pts |-> <<>>, open |-> now]
BY DEF Add, Tick, Empty, Never

\* hr_trend_restore_point and hr_trend_restore_gap, when the gaps are no wider
\* than the time to fill.
LEMMA RestoredAt ==
  ASSUME NEW s \in Seq(Points), NEW g \in Nat, NEW now \in Clocks, NEW slack \in Nat,
         NEW more \in Nat, slack <= more, Plot(s, now, slack),
         \A i \in Real(s) : Wide(Len(s) - i + 1) + Wide(g) <= now - s[i] + more,
         NEW t, t = Restored(s, g)
  PROVE  /\ SeriesAt(t, now, more) /\ t.open = Never
         /\ Len(t.pts) < Capacity => Extends(t.pts, s)
<1> DEFINE all == s \o Gaps(g)
           cut == IF Len(all) <= Capacity THEN all ELSE SubSeq(all, 1, Capacity)
<1>0. now \in Int /\ slack \in Int /\ more \in Int /\ now <= now
  BY DEF Clocks
<1>1. all \in Seq(Points) /\ Plot(all, now, more)
  BY <1>0, GappedPlot
<1>2. Gaps(g) \in Seq(Points) /\ Len(Gaps(g)) = g
  BY GapsAre
<1>3. /\ Len(all) = Len(s) + g
      /\ \A i \in 1 .. Len(s) + g : all[i] = IF i <= Len(s) THEN s[i] ELSE Gaps(g)[i - Len(s)]
  BY <1>2, ConcatProperties
<1>4. t = [pts |-> cut, open |-> Never]
  BY DEF Restored
<1> HIDE DEF all
<1>5. /\ cut \in Seq(Points) /\ Len(cut) <= Capacity /\ Len(cut) <= Len(all)
      /\ \A i \in 1 .. Len(cut) : cut[i] = all[i + 0]
      /\ Len(cut) < Capacity => cut = all
  <2>1. CASE Len(all) <= Capacity
    BY <1>1, <2>1
  <2>2. CASE ~(Len(all) <= Capacity)
    <3>1. cut = SubSeq(all, 1, Capacity) /\ Capacity < Len(all) /\ 1 <= Capacity
          /\ 1 \in Int /\ Capacity \in Int
      BY <1>1, <2>2, Sizes
    <3>2. \A i \in 1 .. Capacity : all[i] \in Points
      BY <1>1, <3>1
    <3>3. /\ SubSeq(all, 1, Capacity) \in Seq(Points)
          /\ Len(SubSeq(all, 1, Capacity)) = Capacity - 1 + 1
          /\ \A i \in 1 .. Capacity - 1 + 1 : SubSeq(all, 1, Capacity)[i] = all[1 + i - 1]
      BY <3>1, <3>2, SubSeqProperties
    <3>4. QED BY <3>1, <3>3
  <2>3. QED BY <2>1, <2>2
<1> HIDE DEF cut
<1>6. Plot(cut, now, more)
  <2>1. 0 \in Nat /\ Len(cut) + 0 <= Len(all)
    BY <1>1, <1>5
  <2>2. QED BY <1>0, <1>1, <1>5, <2>1, PartOfPlot
<1>7. SeriesAt(t, now, more)
  BY <1>4, <1>5, <1>6 DEF SeriesAt, SeriesOf
<1>8. Len(t.pts) < Capacity => Extends(t.pts, s)
  BY <1>3, <1>4, <1>5 DEF Extends
<1>9. QED BY <1>4, <1>7, <1>8

-----------------------------------------------------------------------------
(***************************************************************************)
(* Every step keeps the inductive invariant.                               *)
(***************************************************************************)

LEMMA AfterIs ==
  ASSUME GraphTypes, NEW d \in After(dryer)
  PROVE  /\ d \in [on : BOOLEAN, elapsed : 0 .. clock, began : 0 .. clock, runs : 0 .. MaxRuns]
         /\ d.elapsed <= dryer.elapsed
         /\ d.runs # dryer.runs => d # dryer /\ d.on /\ d.elapsed = 0 /\ d.began = clock
         /\ d.runs = dryer.runs => d.began = dryer.began
<1>1. /\ dryer \in [on : BOOLEAN, elapsed : 0 .. clock, began : 0 .. clock, runs : 0 .. MaxRuns]
      /\ clock \in Nat /\ MaxRuns \in Nat
  BY GraphAssumption DEF GraphTypes, Clocks
<1>2. CASE d = [dryer EXCEPT !.on = FALSE]
  <2>1. /\ d.on = FALSE /\ d.elapsed = dryer.elapsed /\ d.began = dryer.began
        /\ d.runs = dryer.runs
    BY <1>1, <1>2
  <2>2. d \in [on : BOOLEAN, elapsed : 0 .. clock, began : 0 .. clock, runs : 0 .. MaxRuns]
    BY <1>1, <1>2
  <2>3. dryer.elapsed \in Int
    BY <1>1
  <2>4. QED BY <2>1, <2>2, <2>3
<1>3. CASE /\ dryer.runs < MaxRuns
           /\ d = [on |-> TRUE, elapsed |-> 0, began |-> clock, runs |-> dryer.runs + 1]
  <2>1. d.on = TRUE /\ d.elapsed = 0 /\ d.began = clock /\ d.runs = dryer.runs + 1
    BY <1>3
  <2>2. dryer.runs \in Nat /\ dryer.elapsed \in Nat /\ dryer.runs + 1 \in 0 .. MaxRuns
    BY <1>1, <1>3
  <2>3. 0 \in 0 .. clock /\ clock \in 0 .. clock
    BY <1>1
  <2>4. d \in [on : BOOLEAN, elapsed : 0 .. clock, began : 0 .. clock, runs : 0 .. MaxRuns]
    BY <1>3, <2>2, <2>3
  <2>5. d.runs # dryer.runs /\ d # dryer
    BY <2>1, <2>2
  <2>6. QED BY <2>1, <2>2, <2>4, <2>5
<1>4. QED BY <1>2, <1>3 DEF After

LEMMA GraphFacts ==
  ASSUME GraphIInv
  PROVE  /\ SeriesAt(series, clock, twice)
         /\ clock \in Clocks /\ clock \in Int /\ twice \in Nat
         /\ file.pts \in Seq(Points) /\ series.pts \in Seq(Points)
         /\ dryer.elapsed \in Int /\ dryer.began \in Int /\ file.elapsed \in Int
         /\ loc.elapsed \in Int /\ file.silence \in Int /\ loc.silence \in Int
         /\ seen.elapsed \in Int /\ seen.at \in Int
BY DEF GraphIInv, GraphTypes, SeriesAt, SeriesPlot, Opened, SeriesOf, Clocks

\* A plot of the series over the clock is what SeriesPlot asks for.
LEMMA AtIsPlot == SeriesAt(series, clock, twice) => SeriesPlot
BY DEF SeriesAt, SeriesPlot, Opened

\* Dated is weaker for a lower counter.
LEMMA LessDated ==
  ASSUME NEW s \in Seq(Points), NEW a \in Int, NEW b \in Int, NEW x \in Int, NEW y \in Int,
         clock \in Int, b - a <= y - x, Dated(s, a, x)
  PROVE  Dated(s, b, y)
<1>1. ASSUME NEW i \in Real(s)
      PROVE  Wide(Len(s) - i + 1) + b <= clock - s[i] + y
  <2>1. i \in Int /\ s[i] \in Int
    BY <1>1, RealOf DEF Clocks
  <2>2. Len(s) - i + 1 \in Int
    BY <2>1
  <2>3. Wide(Len(s) - i + 1) \in Int
    BY <2>2, WideInt
  <2>4. Wide(Len(s) - i + 1) + a <= clock - s[i] + x
    BY <1>1 DEF Dated
  <2> DEFINE w == Wide(Len(s) - i + 1)
             q == s[i]
  <2>5. w \in Int /\ q \in Int /\ w + a <= clock - q + x
    BY <2>1, <2>3, <2>4
  <2> HIDE DEF w, q
  <2>6. w + b <= clock - q + y
    BY <2>5
  <2>7. QED BY <2>6 DEF w, q
<1>2. QED BY <1>1 DEF Dated

LEMMA GraphInitial == GraphInit => GraphIInv
<1> SUFFICES ASSUME GraphInit PROVE GraphIInv
  OBVIOUS
<1>0. 0 \in Clocks /\ MaxRuns \in Nat /\ MaxCuts \in Nat /\ Capacity \in Nat /\ MaxClock \in Nat
  BY GraphAssumption, Sizes DEF Clocks
<1>1. GraphTypes
  <2>1. /\ clock \in Clocks /\ cuts \in 0 .. MaxCuts /\ powered \in BOOLEAN
        /\ dryer \in [on : BOOLEAN, elapsed : 0 .. clock, began : 0 .. clock, runs : 0 .. MaxRuns]
    BY <1>0 DEF GraphInit
  <2>2. series \in SeriesOf /\ Len(series.pts) <= Capacity /\ series.open = Never
    BY <1>0 DEF GraphInit, RamInit, SeriesOf, Empty
  <2>3. /\ seen \in [running : BOOLEAN, elapsed : -1 .. MaxClock, at : 0 .. clock]
        /\ stale \in BOOLEAN /\ resumed \in BOOLEAN /\ ready \in BOOLEAN
        /\ persisted \in 0 .. Capacity /\ pc \in GraphPcs
    <3>1. seen = Unseen /\ clock = 0 /\ persisted = 0 /\ pc = "top"
      BY DEF GraphInit, RamInit
    <3>2. -1 \in -1 .. MaxClock /\ 0 \in 0 .. 0 /\ 0 \in 0 .. Capacity
      BY <1>0
    <3>3. seen \in [running : BOOLEAN, elapsed : -1 .. MaxClock, at : 0 .. clock]
      BY <3>1, <3>2 DEF Unseen
    <3>4. QED BY <3>1, <3>2, <3>3 DEF GraphInit, RamInit, GraphPcs
  <2>4. loc \in [elapsed : Clocks, have : 0 .. Capacity, n : 0 .. Capacity, silence : Clocks]
    BY <1>0 DEF GraphInit, RamInit, NoLoc
  <2>5. /\ file \in [pts : Seq(Points), elapsed : Clocks, whole : BOOLEAN, silence : Clocks]
        /\ Len(file.pts) <= Capacity
    BY <1>0 DEF GraphInit, NoFile
  <2>6. clean \in BOOLEAN /\ twice \in Nat
    BY DEF GraphInit
  <2>7. QED BY <2>1, <2>2, <2>3, <2>4, <2>5, <2>6 DEF GraphTypes
<1>2. SeriesPlot /\ FilePlot
  BY NoPlot DEF GraphInit, RamInit, SeriesPlot, FilePlot, Empty, NoFile, Dated, Real
<1>3. Heard /\ StoredCounter /\ Swept /\ Writing /\ Follows /\ OfThisRun /\ Boots
  BY DEF GraphInit, RamInit, Heard, StoredCounter, Swept, Writing, Follows, OfThisRun, Boots,
         Unseen, Empty
<1>4. QED BY <1>1, <1>2, <1>3 DEF GraphIInv

LEMMA TimeStep == GraphIInv /\ TimeGoesOn => GraphIInv'
<1> SUFFICES ASSUME GraphIInv, TimeGoesOn PROVE GraphIInv'
  OBVIOUS
<1>1. GraphTypes /\ SeriesPlot /\ FilePlot /\ Heard /\ Writing /\ Follows /\ OfThisRun /\ Boots
  BY DEF GraphIInv
<1>2. /\ pc = "top" /\ clock' = clock + 1 /\ clock < MaxClock
      /\ dryer' = IF dryer.on THEN [dryer EXCEPT !.elapsed = @ + 1] ELSE dryer
      /\ series' = series /\ seen' = seen /\ stale' = stale /\ persisted' = persisted
      /\ resumed' = resumed /\ ready' = ready /\ pc' = pc /\ loc' = loc
      /\ cuts' = cuts /\ powered' = powered /\ file' = file /\ clean' = clean
      /\ atCut' = atCut /\ twice' = twice
  BY DEF TimeGoesOn, ram, past
<1>3. /\ clock \in Nat /\ MaxClock \in Nat /\ clock + 1 \in Clocks
      /\ dryer \in [on : BOOLEAN, elapsed : 0 .. clock, began : 0 .. clock, runs : 0 .. MaxRuns]
  <2>1. dryer \in [on : BOOLEAN, elapsed : 0 .. clock, began : 0 .. clock, runs : 0 .. MaxRuns]
    BY <1>1 DEF GraphTypes
  <2>2. MaxClock \in Nat /\ clock \in 0 .. MaxClock
    BY <1>1, Sizes DEF GraphTypes, Clocks
  <2>3. clock \in Nat /\ clock + 1 \in 0 .. MaxClock
    BY <1>2, <2>2
  <2>4. QED BY <2>1, <2>2, <2>3 DEF Clocks
<1>4. /\ dryer' \in [on : BOOLEAN, elapsed : 0 .. clock + 1, began : 0 .. clock + 1,
                     runs : 0 .. MaxRuns]
      /\ dryer'.began = dryer.began
      /\ dryer.elapsed <= dryer'.elapsed /\ dryer'.elapsed <= dryer.elapsed + 1
  BY <1>2, <1>3
<1>5. GraphTypes'
  <2>1. seen \in [running : BOOLEAN, elapsed : -1 .. MaxClock, at : 0 .. clock + 1]
    BY <1>1, <1>3 DEF GraphTypes
  <2>2. series.open # Never => series.open <= clock + 1
    <3>1. series.open \in {Never} \cup Clocks /\ (series.open # Never => series.open <= clock)
      BY <1>1 DEF GraphTypes, SeriesOf
    <3>2. QED BY <1>3, <3>1 DEF Clocks
  <2>3. QED BY <1>1, <1>2, <1>3, <1>4, <2>1, <2>2 DEF GraphTypes, SeriesOf, GraphPcs
<1>6. SeriesPlot'
  <2>1. series.open \in {Never} \cup Clocks
    BY <1>1 DEF GraphTypes, SeriesOf
  <2>2. series.open # Never => SeriesPlot'
    BY <1>1, <1>2 DEF SeriesPlot, Opened
  <2>3. series.open = Never => SeriesPlot'
    <3>1. SUFFICES ASSUME series.open = Never PROVE Plot(series.pts, clock + 1, twice)
      BY <1>2 DEF SeriesPlot, Opened
    <3>2. Plot(series.pts, clock, twice)
      BY <1>1, <3>1 DEF SeriesPlot, Opened
    <3>3. clock \in Int /\ clock + 1 \in Int /\ twice \in Int /\ clock <= clock + 1
      BY <1>3, GraphFacts
    <3>4. QED BY <3>2, <3>3, GraphFacts, LaterPlot
  <2>4. QED BY <2>2, <2>3
<1>7. FilePlot'
  <2>1. Plot(file.pts, clock + 1, twice)
    <3>1. Plot(file.pts, clock, twice) /\ file.pts \in Seq(Points)
      BY <1>1, GraphFacts DEF FilePlot
    <3>2. clock \in Int /\ clock + 1 \in Int /\ twice \in Int /\ clock <= clock + 1 /\ twice <= twice
      BY <1>3, GraphFacts
    <3>3. QED BY <3>1, <3>2, LaterPlot
  <2>2. ASSUME NEW i \in Real(file.pts)
        PROVE  Wide(Len(file.pts) - i + 1) + (dryer'.elapsed - file.elapsed)
                 <= (clock + 1) - file.pts[i] + (file.silence + twice)
    <3>1. Wide(Len(file.pts) - i + 1) + (dryer.elapsed - file.elapsed)
            <= clock - file.pts[i] + (file.silence + twice)
      BY <1>1, <2>2 DEF FilePlot, Dated
    <3>2. i \in Int /\ file.pts[i] \in Int
      BY <2>2, RealOf, GraphFacts DEF Clocks
    <3>3. Len(file.pts) - i + 1 \in Int
      BY <3>2, GraphFacts
    <3>4. Wide(Len(file.pts) - i + 1) \in Int
      BY <3>3, WideInt
    <3>5. /\ dryer.elapsed \in Int /\ clock \in Int /\ file.elapsed \in Int
          /\ file.silence \in Int /\ twice \in Int /\ dryer'.elapsed \in Int
      BY <1>4, GraphFacts
    <3> DEFINE w == Wide(Len(file.pts) - i + 1)
               q == file.pts[i]
    <3>6. w + (dryer.elapsed - file.elapsed) <= clock - q + (file.silence + twice)
      BY <3>1
    <3>7. w \in Int /\ q \in Int
      BY <3>2, <3>4
    <3> HIDE DEF w, q
    <3>8. w + (dryer'.elapsed - file.elapsed) <= (clock + 1) - q + (file.silence + twice)
      BY <1>4, <3>5, <3>6, <3>7
    <3>9. QED BY <3>8 DEF w, q
  <2>3. QED BY <1>2, <2>1, <2>2 DEF FilePlot, Dated
<1>8. Heard'
  <2>1. SUFFICES ASSUME seen.elapsed >= 0
                 PROVE  /\ seen.elapsed <= dryer'.elapsed
                        /\ dryer'.elapsed - seen.elapsed <= (clock + 1) - seen.at
    BY <1>2 DEF Heard
  <2>2. seen.elapsed <= dryer.elapsed /\ dryer.elapsed - seen.elapsed <= clock - seen.at
    BY <1>1, <2>1 DEF Heard
  <2>3. /\ dryer.elapsed \in Int /\ clock \in Int /\ seen.elapsed \in Int /\ seen.at \in Int
        /\ dryer'.elapsed \in Int
    BY <1>4, GraphFacts
  <2>4. QED BY <1>4, <2>2, <2>3
<1>9. StoredCounter' /\ Swept' /\ Writing' /\ Follows' /\ OfThisRun' /\ Boots'
  BY <1>1, <1>2, <1>4 DEF StoredCounter, Swept, Writing, Follows, OfThisRun, Boots
<1>10. QED BY <1>5, <1>6, <1>7, <1>8, <1>9 DEF GraphIInv

LEMMA UnheardStep == GraphIInv /\ Unheard => GraphIInv'
<1> SUFFICES ASSUME GraphIInv, Unheard PROVE GraphIInv'
  OBVIOUS
<1>1. GraphTypes /\ SeriesPlot /\ FilePlot /\ Heard /\ Writing /\ Follows /\ OfThisRun /\ Boots
  BY DEF GraphIInv
<1>2. /\ ~powered /\ dryer' \in After(dryer) /\ clean' = FALSE
      /\ series' = series /\ seen' = seen /\ stale' = stale /\ persisted' = persisted
      /\ resumed' = resumed /\ ready' = ready /\ pc' = pc /\ loc' = loc
      /\ clock' = clock /\ cuts' = cuts /\ powered' = powered /\ file' = file
      /\ atCut' = atCut /\ twice' = twice
  BY DEF Unheard, ram
<1>3. /\ dryer' \in [on : BOOLEAN, elapsed : 0 .. clock, began : 0 .. clock, runs : 0 .. MaxRuns]
      /\ dryer'.elapsed <= dryer.elapsed
  BY <1>1, <1>2, AfterIs
<1>4. GraphTypes'
  BY <1>1, <1>2, <1>3 DEF GraphTypes
<1>5. seen = Unseen /\ pc = "top" /\ ~resumed
  BY <1>1, <1>2 DEF Boots
<1>6. FilePlot'
  <2>1. dryer'.elapsed \in Int
    BY <1>3
  <2>2. /\ dryer'.elapsed - file.elapsed <= dryer.elapsed - file.elapsed
        /\ dryer'.elapsed - file.elapsed \in Int /\ dryer.elapsed - file.elapsed \in Int
        /\ file.silence + twice \in Int
    <3>1. dryer.elapsed \in Int /\ file.elapsed \in Int /\ file.silence \in Int /\ twice \in Int
      BY GraphFacts
    <3>2. QED BY <1>3, <2>1, <3>1
  <2>3. Dated(file.pts, dryer'.elapsed - file.elapsed, file.silence + twice)
    <3>1. Dated(file.pts, dryer.elapsed - file.elapsed, file.silence + twice)
      BY <1>1 DEF FilePlot
    <3>2. (dryer'.elapsed - file.elapsed) - (dryer.elapsed - file.elapsed)
            <= (file.silence + twice) - (file.silence + twice)
      BY <2>2
    <3>3. file.pts \in Seq(Points) /\ clock \in Int
      BY GraphFacts
    <3>4. QED BY <2>2, <3>1, <3>2, <3>3, LessDated
  <2>4. QED BY <1>1, <1>2, <1>5, <2>3 DEF FilePlot, Dated
<1>7. SeriesPlot' /\ Heard' /\ StoredCounter' /\ Swept' /\ Writing' /\ Follows' /\ OfThisRun'
        /\ Boots'
  BY <1>1, <1>2, <1>5
  DEF SeriesPlot, Opened, Heard, StoredCounter, Swept, Writing, Follows, OfThisRun, Boots, Unseen
<1>8. QED BY <1>4, <1>6, <1>7 DEF GraphIInv

\* What a report of d does to a plot of a run: one case for a run that begins.
LEMMA HearStep == GraphIInv /\ Hear => GraphIInv'
<1> SUFFICES ASSUME GraphIInv, Hear PROVE GraphIInv'
  OBVIOUS
<1>1. GraphTypes /\ SeriesPlot /\ FilePlot /\ Heard /\ StoredCounter /\ Swept /\ Writing
        /\ Follows /\ OfThisRun /\ Boots
  BY DEF GraphIInv
<1>2. PICK d \in {dryer} \cup After(dryer) :
        /\ seen.running /\ d.on /\ d # dryer => seen.elapsed > 0
        /\ dryer' = d
        /\ IF Begins(d)
           THEN series' = Add(Empty, clock) /\ persisted' = 0 /\ stale' = TRUE
           ELSE series' = Add(series, clock) /\ persisted' = persisted /\ stale' = stale
        /\ clean' = IF d.runs # dryer.runs THEN resumed /\ pc # "restore" ELSE clean
        /\ seen' = [running |-> d.on, elapsed |-> d.elapsed, at |-> clock]
  BY DEF Hear
<1>3. /\ powered /\ clock' = clock /\ cuts' = cuts /\ powered' = powered /\ resumed' = resumed
      /\ ready' = ready /\ pc' = pc /\ loc' = loc /\ file' = file /\ twice' = twice
  BY DEF Hear
<1>4. /\ SeriesAt(series, clock, twice)
      /\ clock \in Clocks /\ clock \in Int /\ twice \in Nat
      /\ file.pts \in Seq(Points) /\ series.pts \in Seq(Points)
      /\ dryer.elapsed \in Int /\ dryer.began \in Int /\ file.elapsed \in Int
      /\ loc.elapsed \in Int /\ file.silence \in Int /\ loc.silence \in Int
  BY GraphFacts
<1>5. /\ d \in [on : BOOLEAN, elapsed : 0 .. clock, began : 0 .. clock, runs : 0 .. MaxRuns]
      /\ d.elapsed <= dryer.elapsed
      /\ d.runs # dryer.runs => d # dryer /\ d.on /\ d.elapsed = 0 /\ d.began = clock
      /\ d.runs = dryer.runs => d.began = dryer.began
  <2>1. CASE d = dryer
    BY <1>1, <1>4, <2>1 DEF GraphTypes
  <2>2. CASE d \in After(dryer)
    BY <1>1, <2>2, AfterIs
  <2>3. QED BY <1>2, <2>1, <2>2
<1>6. d.elapsed \in Int /\ d.elapsed >= 0 /\ d.elapsed <= clock /\ d.began \in Int /\ d.began <= clock
      /\ d.on \in BOOLEAN
  BY <1>4, <1>5
<1>19. /\ d.elapsed \in Int /\ dryer.elapsed \in Int /\ file.elapsed \in Int /\ loc.elapsed \in Int
       /\ file.silence \in Int /\ loc.silence \in Int /\ twice \in Int
       /\ d.elapsed <= dryer.elapsed
  BY <1>4, <1>5, <1>6
<1>7. /\ SeriesAt(series', clock, twice)
      /\ series'.open # Never /\ clock - series'.open < Bucket
      /\ \/ Begins(d) /\ series'.pts = <<>> /\ series'.open = clock /\ stale' = TRUE
            /\ persisted' = 0
         \/ /\ ~Begins(d) /\ stale' = stale /\ persisted' = persisted
            /\ series.open = Never \/ clock - series.open < Bucket => series'.pts = series.pts
            /\ Len(series'.pts) < Capacity => Extends(series'.pts, series.pts)
            /\ \A b \in Int : From(series, b) /\ b <= clock => From(series', b)
  <2>1. CASE Begins(d)
    <3>1. series' = [pts |-> <<>>, open |-> clock] /\ stale' = TRUE /\ persisted' = 0
      BY <1>2, <1>4, <2>1, AddAnew
    <3>2. series' \in SeriesOf
      BY <1>4, <3>1 DEF SeriesOf
    <3>3. clock # Never /\ clock - clock < Bucket
      BY <1>4, Sizes DEF Clocks, Never
    <3>4. Plot(<<>>, clock, twice)
      BY NoPlot
    <3>5. QED BY <1>4, <2>1, <3>1, <3>2, <3>3, <3>4, Sizes DEF SeriesAt
  <2>2. CASE ~Begins(d)
    <3>1. series' = Add(series, clock) /\ stale' = stale /\ persisted' = persisted
      BY <1>2, <2>2
    <3>2. QED BY <1>4, <2>2, <3>1, AddAt
  <2>3. QED BY <2>1, <2>2
<1>8. GraphTypes'
  <2>1. series' \in SeriesOf /\ Len(series'.pts) <= Capacity
        /\ (series'.open # Never => series'.open <= clock)
    BY <1>7 DEF SeriesAt
  <2>2. seen' \in [running : BOOLEAN, elapsed : -1 .. MaxClock, at : 0 .. clock]
    <3>1. d.elapsed \in -1 .. MaxClock /\ clock \in 0 .. clock
      <4>1. clock \in Int /\ clock >= 0 /\ clock <= MaxClock
        BY <1>4, Sizes DEF Clocks
      <4>2. QED BY <1>6, <4>1, Sizes
    <3>2. QED BY <1>2, <1>6, <3>1
  <2>3. persisted' \in 0 .. Capacity /\ stale' \in BOOLEAN /\ clean' \in BOOLEAN
    <3>1. 0 \in 0 .. Capacity
      BY Sizes
    <3>2. QED BY <1>1, <1>2, <1>7, <3>1 DEF GraphTypes
  <2>4. QED BY <1>1, <1>2, <1>3, <1>5, <2>1, <2>2, <2>3 DEF GraphTypes
<1>9. SeriesPlot'
  BY <1>3, <1>7 DEF SeriesAt, SeriesPlot, Opened
<1>10. FilePlot'
  <2>1. Dated(file.pts, d.elapsed - file.elapsed, file.silence + twice)
    <3>1. Dated(file.pts, dryer.elapsed - file.elapsed, file.silence + twice)
      BY <1>1 DEF FilePlot
    <3>2. /\ d.elapsed - file.elapsed \in Int /\ dryer.elapsed - file.elapsed \in Int
          /\ file.silence + twice \in Int
          /\ (d.elapsed - file.elapsed) - (dryer.elapsed - file.elapsed)
               <= (file.silence + twice) - (file.silence + twice)
      BY <1>19
    <3>3. file.pts \in Seq(Points) /\ clock \in Int
      BY <1>4
    <3>4. QED BY <3>1, <3>2, <3>3, LessDated
  <2>2. QED BY <1>1, <1>2, <1>3, <2>1 DEF FilePlot, Dated
<1>11. Heard'
  BY <1>2, <1>3, <1>4, <1>6 DEF Heard
<1>12. StoredCounter'
  <2>1. /\ pc = "save"  => dryer.elapsed - loc.elapsed <= loc.silence
        /\ pc = "write" => dryer.elapsed - file.elapsed <= file.silence
    BY <1>1 DEF StoredCounter
  <2>2. /\ pc = "save"  => d.elapsed - loc.elapsed <= loc.silence
        /\ pc = "write" => d.elapsed - file.elapsed <= file.silence
    BY <1>19, <2>1
  <2>3. QED BY <1>2, <1>3, <2>2 DEF StoredCounter
<1>13. Swept'
  BY <1>3, <1>7 DEF Swept
<1>14. Writing'
  <2>1. SUFFICES ASSUME pc = "write" PROVE series'.pts = <<>> \/ Extends(series'.pts, file.pts)
    BY <1>3 DEF Writing
  <2>2. series.pts = <<>> \/ Extends(series.pts, file.pts)
    BY <1>1, <2>1 DEF Writing
  <2>3. series.open = Never \/ clock - series.open < Bucket
    BY <1>1, <2>1 DEF Swept
  <2>4. QED BY <1>7, <2>2, <2>3
<1>15. Follows'
  <2>1. SUFFICES ASSUME resumed, ~stale', pc \notin {"remove", "restore"}, Len(series'.pts) < Capacity
                 PROVE  Extends(series'.pts, file.pts)
    BY <1>3 DEF Follows
  <2>2. ~stale /\ Extends(series'.pts, series.pts)
    BY <1>7, <2>1
  <2>3. Len(series.pts) <= Len(series'.pts) /\ series'.pts \in Seq(Points)
    BY <1>7, <2>2 DEF Extends, SeriesAt, SeriesOf
  <2>4. Len(series.pts) < Capacity
    BY <1>4, <2>1, <2>3, Sizes
  <2>5. Extends(series.pts, file.pts)
    BY <1>1, <2>1, <2>2, <2>4 DEF Follows
  <2>6. QED BY <1>4, <2>2, <2>3, <2>5 DEF Extends
<1>16. OfThisRun'
  <2>1. SUFFICES ASSUME clean' PROVE resumed /\ pc # "restore" /\ From(series', d.began)
    BY <1>2, <1>3 DEF OfThisRun
  <2>2. CASE Begins(d)
    <3>1. From(series', d.began)
      BY <1>6, <1>7, <2>2 DEF From, Real
    <3>2. QED BY <1>1, <1>2, <2>1, <3>1 DEF OfThisRun
  <2>3. CASE ~Begins(d)
    <3>1. d.runs = dryer.runs
      <4>1. SUFFICES ASSUME d.runs # dryer.runs PROVE FALSE
        OBVIOUS
      <4>2. d.on /\ d # dryer /\ d.elapsed = 0
        BY <1>5, <4>1
      <4>3. seen.running /\ ~(seen.elapsed >= 0 /\ 0 < seen.elapsed)
        BY <2>3, <4>2 DEF Begins
      <4>4. QED BY <1>2, <4>2, <4>3, GraphFacts
    <3>2. clean /\ d.began = dryer.began
      BY <1>2, <1>5, <2>1, <3>1
    <3>3. resumed /\ pc # "restore" /\ From(series, d.began)
      BY <1>1, <3>2 DEF OfThisRun
    <3>4. From(series', d.began)
      BY <1>6, <1>7, <2>3, <3>3
    <3>5. QED BY <3>3, <3>4
  <2>4. QED BY <2>2, <2>3
<1>17. Boots'
  BY <1>1, <1>2, <1>3, <1>6 DEF Boots
<1>18. QED BY <1>8, <1>9, <1>10, <1>11, <1>12, <1>13, <1>14, <1>15, <1>16, <1>17 DEF GraphIInv

\* The power comes back; or the log is mounted.
LEMMA PowerStep == GraphIInv /\ (Boot \/ Mounted) => GraphIInv'
<1> SUFFICES ASSUME GraphIInv, Boot \/ Mounted PROVE GraphIInv'
  OBVIOUS
<1>1. GraphTypes /\ SeriesPlot /\ FilePlot /\ Heard /\ StoredCounter /\ Swept /\ Writing
        /\ Follows /\ OfThisRun /\ Boots
  BY DEF GraphIInv
<1>2. /\ clock' = clock /\ cuts' = cuts /\ dryer' = dryer /\ series' = series /\ seen' = seen
      /\ stale' = stale /\ persisted' = persisted /\ resumed' = resumed /\ pc' = pc /\ loc' = loc
      /\ file' = file /\ clean' = clean /\ twice' = twice
      /\ powered' = TRUE /\ (ready' = ready \/ ready' = TRUE)
  BY DEF Boot, Mounted, world, ram, past, GraphIInv, GraphTypes
<1>3. GraphTypes'
  BY <1>1, <1>2 DEF GraphTypes
<1>4. SeriesPlot' /\ FilePlot' /\ Heard' /\ StoredCounter' /\ Swept' /\ Writing' /\ Follows'
        /\ OfThisRun'
  BY <1>1, <1>2
  DEF SeriesPlot, Opened, FilePlot, Dated, Heard, StoredCounter, Swept, Writing, Follows, OfThisRun
<1>5. Boots'
  BY <1>1, <1>2 DEF Boots
<1>6. QED BY <1>3, <1>4, <1>5 DEF GraphIInv

\* The loop passes on, or notes what it has saved.
PassOn == \/ ResumeNot \/ PersistNot \/ SaveNot \/ SaveFails \/ Saved
LEMMA PassOnStep == GraphIInv /\ PassOn => GraphIInv'
<1> SUFFICES ASSUME GraphIInv, PassOn PROVE GraphIInv'
  OBVIOUS
<1>1. GraphTypes /\ SeriesPlot /\ FilePlot /\ Heard /\ StoredCounter /\ Swept /\ Writing
        /\ Follows /\ OfThisRun /\ Boots
  BY DEF GraphIInv
<1>2. /\ clock' = clock /\ cuts' = cuts /\ dryer' = dryer /\ series' = series /\ seen' = seen
      /\ stale' = stale /\ resumed' = resumed /\ loc' = loc /\ ready' = ready
      /\ file' = file /\ clean' = clean /\ twice' = twice /\ powered' = powered /\ powered
      /\ persisted' \in {persisted, loc.have}
  BY DEF PassOn, ResumeNot, PersistNot, SaveNot, SaveFails, Saved, Goto, world, past
<1>3. /\ pc' \in {"persist", "top"} /\ pc # "top"
      /\ pc \in {"resume", "persist", "save", "write", "saved"}
  BY DEF PassOn, ResumeNot, PersistNot, SaveNot, SaveFails, Saved, Goto
<1>4. GraphTypes'
  BY <1>1, <1>2, <1>3 DEF GraphTypes, GraphPcs
<1>5. SeriesPlot' /\ FilePlot' /\ Heard' /\ StoredCounter' /\ Swept' /\ Writing' /\ Follows'
        /\ OfThisRun'
  BY <1>1, <1>2, <1>3
  DEF SeriesPlot, Opened, FilePlot, Dated, Heard, StoredCounter, Swept, Writing, Follows, OfThisRun
<1>6. Boots'
  BY <1>1, <1>2, <1>3 DEF Boots
<1>7. QED BY <1>4, <1>5, <1>6 DEF GraphIInv

\* Old buckets are closed, and the note is taken.
LEMMA SweepStep == GraphIInv /\ Sweep => GraphIInv'
<1> SUFFICES ASSUME GraphIInv, Sweep PROVE GraphIInv'
  OBVIOUS
<1>1. GraphTypes /\ SeriesPlot /\ FilePlot /\ Heard /\ StoredCounter /\ Swept /\ Writing
        /\ Follows /\ OfThisRun /\ Boots
  BY DEF GraphIInv
<1>2. /\ clock' = clock /\ cuts' = cuts /\ dryer' = dryer /\ seen' = seen
      /\ resumed' = resumed /\ loc' = loc /\ ready' = ready /\ persisted' = persisted
      /\ file' = file /\ clean' = clean /\ twice' = twice /\ powered' = powered /\ powered
      /\ stale' = FALSE /\ pc = "top" /\ pc' = IF stale THEN "remove" ELSE "resume"
      /\ series' = Tick(series, clock)
  BY DEF Sweep, Goto, world, past
<1>3. /\ SeriesAt(series', clock, twice)
      /\ series'.open = Never \/ clock - series'.open < Bucket
      /\ Len(series'.pts) < Capacity => Extends(series'.pts, series.pts)
      /\ \A b \in Int : From(series, b) => From(series', b)
  BY <1>2, GraphFacts, TickAt
<1>4. GraphTypes'
  BY <1>1, <1>2, <1>3 DEF GraphTypes, GraphPcs, SeriesAt
<1>5. SeriesPlot'
  BY <1>2, <1>3 DEF SeriesAt, SeriesPlot, Opened
<1>6. FilePlot' /\ Heard' /\ StoredCounter' /\ Swept' /\ Writing' /\ Boots'
  BY <1>1, <1>2, <1>3 DEF FilePlot, Dated, Heard, StoredCounter, Swept, Writing, Boots
<1>7. Follows'
  <2>1. SUFFICES ASSUME resumed, ~stale, Len(series'.pts) < Capacity
                 PROVE  Extends(series'.pts, file.pts)
    BY <1>2 DEF Follows
  <2>2. Extends(series'.pts, series.pts) /\ series'.pts \in Seq(Points)
    BY <1>3, <2>1 DEF SeriesAt, SeriesOf
  <2>3. Len(series.pts) < Capacity
    BY <2>1, <2>2, Sizes, GraphFacts DEF Extends
  <2>4. Extends(series.pts, file.pts)
    BY <1>1, <1>2, <2>1, <2>3 DEF Follows
  <2>5. file.pts \in Seq(Points) /\ series.pts \in Seq(Points)
    BY GraphFacts
  <2>6. QED BY <2>2, <2>4, <2>5 DEF Extends
<1>8. OfThisRun'
  BY <1>1, <1>2, <1>3, GraphFacts DEF OfThisRun
<1>9. QED BY <1>4, <1>5, <1>6, <1>7, <1>8 DEF GraphIInv

\* The file of the run before is removed.
LEMMA RemoveStep == GraphIInv /\ RemoveFile => GraphIInv'
<1> SUFFICES ASSUME GraphIInv, RemoveFile PROVE GraphIInv'
  OBVIOUS
<1>1. GraphTypes /\ SeriesPlot /\ FilePlot /\ Heard /\ StoredCounter /\ Swept /\ Writing
        /\ Follows /\ OfThisRun /\ Boots
  BY DEF GraphIInv
<1>2. /\ clock' = clock /\ cuts' = cuts /\ dryer' = dryer /\ series' = series /\ seen' = seen
      /\ stale' = stale /\ resumed' = resumed /\ loc' = loc /\ ready' = ready
      /\ clean' = clean /\ twice' = twice /\ powered' = powered /\ powered
      /\ persisted' = persisted /\ pc = "remove" /\ pc' = "resume"
      /\ file' = IF ready THEN NoFile ELSE file
  BY DEF RemoveFile, Goto, world, past
<1>3. NoFile \in [pts : Seq(Points), elapsed : Clocks, whole : BOOLEAN, silence : Clocks]
        /\ Len(NoFile.pts) = 0 /\ NoFile.pts = <<>>
  BY Sizes DEF NoFile, Clocks
<1>4. GraphTypes'
  BY <1>1, <1>2, <1>3, Sizes DEF GraphTypes, GraphPcs
<1>5. FilePlot'
  <2>1. CASE ready
    BY <1>2, <1>3, <2>1, NoPlot DEF FilePlot, Dated, Real
  <2>2. CASE ~ready
    BY <1>1, <1>2, <2>2 DEF FilePlot, Dated
  <2>3. QED BY <2>1, <2>2
<1>6. SeriesPlot' /\ Heard' /\ StoredCounter' /\ Swept' /\ Writing' /\ OfThisRun' /\ Boots'
  BY <1>1, <1>2
  DEF SeriesPlot, Opened, Heard, StoredCounter, Swept, Writing, OfThisRun, Boots
<1>7. Follows'
  BY <1>1, <1>2, <1>3, GraphFacts DEF Follows, Boots, Extends
<1>8. QED BY <1>4, <1>5, <1>6, <1>7 DEF GraphIInv

\* The resume is decided upon with the counter last heard.
LEMMA ResumeStep == GraphIInv /\ Resume => GraphIInv'
<1> SUFFICES ASSUME GraphIInv, Resume PROVE GraphIInv'
  OBVIOUS
<1>1. GraphTypes /\ SeriesPlot /\ FilePlot /\ Heard /\ StoredCounter /\ Swept /\ Writing
        /\ Follows /\ OfThisRun /\ Boots
  BY DEF GraphIInv
<1>2. /\ clock' = clock /\ cuts' = cuts /\ dryer' = dryer /\ series' = series /\ seen' = seen
      /\ stale' = stale /\ ready' = ready /\ file' = file
      /\ clean' = clean /\ twice' = twice /\ powered' = powered /\ powered
      /\ persisted' = persisted /\ pc = "resume" /\ pc' = "restore"
      /\ ~resumed /\ ready /\ seen.elapsed >= 0 /\ resumed' = TRUE
      /\ loc' = [loc EXCEPT !.elapsed = seen.elapsed]
  BY DEF Resume, MayResume, Goto, world, past
<1>3. seen.elapsed \in Clocks
  BY <1>1, <1>2, Sizes DEF GraphTypes, Clocks
<1>4. /\ loc' \in [elapsed : Clocks, have : 0 .. Capacity, n : 0 .. Capacity, silence : Clocks]
      /\ loc'.elapsed = seen.elapsed
  BY <1>1, <1>2, <1>3 DEF GraphTypes
<1>5. GraphTypes'
  BY <1>1, <1>2, <1>4 DEF GraphTypes, GraphPcs
<1>6. FilePlot'
  <2>1. Dated(file.pts, dryer.elapsed - file.elapsed, file.silence + twice)
    BY <1>1 DEF FilePlot
  <2>2. seen.elapsed <= dryer.elapsed
    BY <1>1, <1>2 DEF Heard
  <2>3. /\ seen.elapsed \in Int /\ dryer.elapsed \in Int /\ file.elapsed \in Int
        /\ file.silence \in Int /\ twice \in Int /\ clock \in Int /\ file.pts \in Seq(Points)
    BY GraphFacts
  <2>4. /\ seen.elapsed - file.elapsed \in Int /\ dryer.elapsed - file.elapsed \in Int
        /\ file.silence + twice \in Int
        /\ (seen.elapsed - file.elapsed) - (dryer.elapsed - file.elapsed)
             <= (file.silence + twice) - (file.silence + twice)
    <3>1. /\ seen.elapsed \in Int /\ dryer.elapsed \in Int /\ file.elapsed \in Int
          /\ file.silence \in Int /\ twice \in Int
      BY <2>3
    <3>2. QED BY <2>2, <3>1
  <2>5. Dated(file.pts, seen.elapsed - file.elapsed, file.silence + twice)
    <3>1. file.pts \in Seq(Points) /\ clock \in Int
      BY <2>3
    <3>2. QED BY <2>1, <2>4, <3>1, LessDated
  <2>6. QED BY <1>1, <1>2, <1>4, <2>5 DEF FilePlot, Dated
<1>7. SeriesPlot' /\ Heard' /\ StoredCounter' /\ Swept' /\ Writing' /\ Follows' /\ OfThisRun'
        /\ Boots'
  BY <1>1, <1>2
  DEF SeriesPlot, Opened, Heard, StoredCounter, Swept, Writing, Follows, OfThisRun, Boots
<1>8. QED BY <1>5, <1>6, <1>7 DEF GraphIInv

\* The file's points and gaps for the time the dryer counted: the silence that
\* was stored with the file may be in the series twice by now.
LEMMA RestoreStep == GraphIInv /\ Restore => GraphIInv'
<1> SUFFICES ASSUME GraphIInv, Restore PROVE GraphIInv'
  OBVIOUS
<1>1. GraphTypes /\ SeriesPlot /\ FilePlot /\ Heard /\ StoredCounter /\ Swept /\ Writing
        /\ Follows /\ OfThisRun /\ Boots
  BY DEF GraphIInv
<1>2. /\ clock' = clock /\ cuts' = cuts /\ dryer' = dryer /\ seen' = seen /\ resumed' = resumed
      /\ ready' = ready /\ file' = file /\ loc' = loc
      /\ clean' = clean /\ powered' = powered /\ powered
      /\ pc = "restore" /\ pc' = "persist"
  BY DEF Restore, Goto, world
<1>3. /\ clock \in Clocks /\ clock \in Int /\ twice \in Nat /\ file.pts \in Seq(Points)
      /\ file.elapsed \in Int /\ loc.elapsed \in Int
  BY GraphFacts
<1>4. file.silence \in Nat
  BY <1>1 DEF GraphTypes, Clocks
<1>5. ~clean
  BY <1>1, <1>2 DEF OfThisRun
<1>6. Plot(file.pts, clock, twice) /\ Dated(file.pts, loc.elapsed - file.elapsed, file.silence + twice)
  BY <1>1, <1>2 DEF FilePlot
<1> DEFINE outage == loc.elapsed - file.elapsed
           g == outage \div Bucket
<1>7. /\ SeriesAt(series', clock, twice') /\ series'.open = Never
      /\ twice' \in Nat /\ twice <= twice' /\ persisted' \in 0 .. Capacity /\ stale' \in BOOLEAN
      /\ stale' \/ (Len(series'.pts) < Capacity => Extends(series'.pts, file.pts))
  <2>1. CASE file.pts # <<>> /\ loc.elapsed >= file.elapsed
    <3>1. /\ series' = Restored(file.pts, g) /\ persisted' = Len(series'.pts) /\ stale' = stale
          /\ twice' = twice + file.silence
      BY <2>1 DEF Restore, Continued
    <3>2. outage \in Nat /\ outage \in Int
      BY <1>3, <2>1
    <3>3. g \in Nat /\ Wide(g) <= outage
      BY <3>2, WholeWidths
    <3> DEFINE more == twice + file.silence
    <3>4. more \in Nat /\ twice <= more /\ more = file.silence + twice
      BY <1>3, <1>4
    <3> HIDE DEF g, outage, more
    <3>5. ASSUME NEW i \in Real(file.pts)
          PROVE  Wide(Len(file.pts) - i + 1) + Wide(g) <= clock - file.pts[i] + more
      <4>1. i \in Int /\ file.pts[i] \in Int
        BY <1>3, <3>5, RealOf DEF Clocks
      <4>2. Len(file.pts) - i + 1 \in Int
        BY <1>3, <4>1
      <4>3. Wide(Len(file.pts) - i + 1) \in Int /\ Wide(g) \in Int
        BY <3>3, <4>2, WideInt
      <4>4. Wide(Len(file.pts) - i + 1) + outage <= clock - file.pts[i] + more
        BY <1>6, <3>4, <3>5 DEF Dated, outage
      <4> DEFINE w == Wide(Len(file.pts) - i + 1)
                 q == file.pts[i]
      <4>5. /\ w \in Int /\ q \in Int /\ Wide(g) \in Int /\ outage \in Int /\ more \in Int
            /\ w + outage <= clock - q + more
        BY <3>2, <3>4, <4>1, <4>3, <4>4
      <4> HIDE DEF w, q
      <4>6. w + Wide(g) <= clock - q + more
        BY <1>3, <3>3, <4>5
      <4>7. QED BY <4>6 DEF w, q
    <3>6. /\ SeriesAt(series', clock, more) /\ series'.open = Never
          /\ Len(series'.pts) < Capacity => Extends(series'.pts, file.pts)
      BY <1>3, <1>6, <3>1, <3>3, <3>4, <3>5, RestoredAt
    <3>7. persisted' \in 0 .. Capacity
      BY <3>1, <3>6, Sizes DEF SeriesAt, SeriesOf
    <3>8. stale' \in BOOLEAN
      BY <1>1, <3>1 DEF GraphTypes
    <3>9. twice' = more
      BY <3>1 DEF more
    <3>10. QED BY <3>4, <3>6, <3>7, <3>8, <3>9
  <2>2. CASE ~(file.pts # <<>> /\ loc.elapsed >= file.elapsed)
    <3>1. series' = Empty /\ persisted' = 0 /\ stale' = TRUE /\ twice' = twice
      BY <2>2 DEF Restore
    <3>2. SeriesAt(Empty, clock, twice) /\ Empty.open = Never
      BY NoPlot, Sizes DEF SeriesAt, SeriesOf, Empty
    <3>3. QED BY <1>3, <3>1, <3>2, Sizes
  <2>3. QED BY <2>1, <2>2
<1>8. GraphTypes'
  BY <1>1, <1>2, <1>7 DEF GraphTypes, GraphPcs, SeriesAt
<1>9. SeriesPlot'
  BY <1>2, <1>7 DEF SeriesAt, SeriesPlot, Opened
<1>10. FilePlot'
  <2>1. twice \in Int /\ twice' \in Int /\ clock <= clock
    BY <1>3, <1>7
  <2>2. Plot(file.pts, clock, twice')
    BY <1>3, <1>6, <1>7, <2>1, LaterPlot
  <2>3. Dated(file.pts, dryer.elapsed - file.elapsed, file.silence + twice')
    <3>1. Dated(file.pts, dryer.elapsed - file.elapsed, file.silence + twice)
      BY <1>1 DEF FilePlot
    <3>2. dryer.elapsed - file.elapsed \in Int
      BY GraphFacts
    <3>3. /\ file.silence + twice \in Int /\ file.silence + twice' \in Int
          /\ (dryer.elapsed - file.elapsed) - (dryer.elapsed - file.elapsed)
               <= (file.silence + twice') - (file.silence + twice)
      BY <1>4, <1>7, <2>1, <3>2
    <3>4. QED BY <1>3, <3>1, <3>2, <3>3, LessDated
  <2>4. QED BY <1>2, <2>2, <2>3 DEF FilePlot, Dated
<1>11. Heard' /\ StoredCounter' /\ Writing' /\ Swept' /\ OfThisRun' /\ Boots'
  BY <1>1, <1>2, <1>5, <1>7 DEF Heard, StoredCounter, Writing, Swept, OfThisRun, Boots
<1>12. Follows'
  BY <1>2, <1>7 DEF Follows
<1>13. QED BY <1>8, <1>9, <1>10, <1>11, <1>12 DEF GraphIInv

\* The counter a save takes is as old as the last report.
LEMMA PersistStep == GraphIInv /\ Persist => GraphIInv'
<1> SUFFICES ASSUME GraphIInv, Persist PROVE GraphIInv'
  OBVIOUS
<1>1. GraphTypes /\ SeriesPlot /\ FilePlot /\ Heard /\ StoredCounter /\ Swept /\ Writing
        /\ Follows /\ OfThisRun /\ Boots
  BY DEF GraphIInv
<1>2. /\ clock' = clock /\ cuts' = cuts /\ dryer' = dryer /\ series' = series /\ seen' = seen
      /\ stale' = stale /\ ready' = ready /\ file' = file /\ resumed' = resumed
      /\ clean' = clean /\ twice' = twice /\ powered' = powered /\ powered
      /\ persisted' = persisted /\ pc = "persist" /\ pc' = "save" /\ resumed
      /\ loc' = [NoLoc EXCEPT !.have = Len(series.pts), !.elapsed = seen.elapsed,
                              !.silence = clock - seen.at]
  BY DEF Persist, Due, Goto, world, past
<1>3. seen.elapsed >= 0
  BY <1>1, <1>2 DEF Boots
<1>4. seen.elapsed \in Clocks /\ clock - seen.at \in Clocks /\ Len(series.pts) \in 0 .. Capacity
  <2>1. /\ seen.elapsed \in -1 .. MaxClock /\ seen.at \in 0 .. clock /\ clock \in 0 .. MaxClock
    BY <1>1 DEF GraphTypes, Clocks
  <2>2. Len(series.pts) \in 0 .. Capacity
    BY <1>1, Sizes DEF GraphTypes, SeriesOf
  <2>3. QED BY <1>3, <2>1, <2>2, Sizes DEF Clocks
<1>5. /\ loc' \in [elapsed : Clocks, have : 0 .. Capacity, n : 0 .. Capacity, silence : Clocks]
      /\ loc'.elapsed = seen.elapsed /\ loc'.silence = clock - seen.at
  <2>1. loc' = [elapsed |-> seen.elapsed, have |-> Len(series.pts), n |-> 0,
                silence |-> clock - seen.at]
    BY <1>2 DEF NoLoc
  <2>2. 0 \in 0 .. Capacity
    BY Sizes
  <2>3. QED BY <1>4, <2>1, <2>2
<1>6. GraphTypes'
  BY <1>1, <1>2, <1>5 DEF GraphTypes, GraphPcs
<1>7. StoredCounter'
  BY <1>1, <1>2, <1>3, <1>5 DEF StoredCounter, Heard
<1>8. SeriesPlot' /\ FilePlot' /\ Heard' /\ Swept' /\ Writing' /\ Follows' /\ OfThisRun' /\ Boots'
  BY <1>1, <1>2
  DEF SeriesPlot, Opened, FilePlot, Dated, Heard, Swept, Writing, Follows, OfThisRun, Boots
<1>9. QED BY <1>6, <1>7, <1>8 DEF GraphIInv

\* The file is truncated.
LEMMA SaveOpenStep == GraphIInv /\ SaveOpen => GraphIInv'
<1> SUFFICES ASSUME GraphIInv, SaveOpen PROVE GraphIInv'
  OBVIOUS
<1>1. GraphTypes /\ SeriesPlot /\ FilePlot /\ Heard /\ StoredCounter /\ Swept /\ Writing
        /\ Follows /\ OfThisRun /\ Boots
  BY DEF GraphIInv
<1>2. /\ clock' = clock /\ cuts' = cuts /\ dryer' = dryer /\ series' = series /\ seen' = seen
      /\ stale' = stale /\ ready' = ready /\ resumed' = resumed
      /\ clean' = clean /\ twice' = twice /\ powered' = powered /\ powered
      /\ persisted' = persisted /\ pc = "save" /\ pc' = "write"
      /\ file' = [pts |-> <<>>, elapsed |-> loc.elapsed, whole |-> FALSE, silence |-> loc.silence]
      /\ loc' = [loc EXCEPT !.n = Len(series.pts)]
  BY DEF SaveOpen, Goto, world, past
<1>3. Len(series.pts) \in 0 .. Capacity
  BY <1>1, Sizes DEF GraphTypes, SeriesOf
<1>4. loc' \in [elapsed : Clocks, have : 0 .. Capacity, n : 0 .. Capacity, silence : Clocks]
  BY <1>1, <1>2, <1>3 DEF GraphTypes
<1>5. /\ file' \in [pts : Seq(Points), elapsed : Clocks, whole : BOOLEAN, silence : Clocks]
      /\ file'.pts = <<>> /\ file'.elapsed = loc.elapsed /\ file'.silence = loc.silence
      /\ Len(file'.pts) <= Capacity
  BY <1>1, <1>2, Sizes DEF GraphTypes
<1>6. GraphTypes'
  BY <1>1, <1>2, <1>4, <1>5 DEF GraphTypes, GraphPcs
<1>7. FilePlot'
  BY <1>2, <1>5, NoPlot DEF FilePlot, Dated, Real
<1>8. StoredCounter'
  BY <1>1, <1>2, <1>5 DEF StoredCounter
<1>9. Writing' /\ Follows'
  BY <1>2, <1>3, <1>5 DEF Writing, Follows, Extends
<1>10. SeriesPlot' /\ Heard' /\ Swept' /\ OfThisRun' /\ Boots'
  BY <1>1, <1>2 DEF SeriesPlot, Opened, Heard, Swept, OfThisRun, Boots
<1>11. QED BY <1>6, <1>7, <1>8, <1>9, <1>10 DEF GraphIInv

\* The next point is one of the series.
LEMMA SavePointStep == GraphIInv /\ SavePoint => GraphIInv'
<1> SUFFICES ASSUME GraphIInv, SavePoint PROVE GraphIInv'
  OBVIOUS
<1>1. GraphTypes /\ SeriesPlot /\ FilePlot /\ Heard /\ StoredCounter /\ Swept /\ Writing
        /\ Follows /\ OfThisRun /\ Boots
  BY DEF GraphIInv
<1> DEFINE n == Len(file.pts)
           next == Append(file.pts, series.pts[n + 1])
<1>2. /\ clock' = clock /\ cuts' = cuts /\ dryer' = dryer /\ series' = series /\ seen' = seen
      /\ stale' = stale /\ ready' = ready /\ resumed' = resumed /\ loc' = loc
      /\ clean' = clean /\ twice' = twice /\ powered' = powered /\ powered
      /\ persisted' = persisted /\ pc = "write" /\ pc' = "write"
      /\ n < loc.n /\ n < Len(series.pts)
      /\ file' = [file EXCEPT !.pts = next]
  BY DEF SavePoint, Written, Goto, world, past
<1>3. /\ file \in [pts : Seq(Points), elapsed : Clocks, whole : BOOLEAN, silence : Clocks]
      /\ file.pts \in Seq(Points) /\ series.pts \in Seq(Points) /\ n \in Nat
      /\ Len(series.pts) <= Capacity /\ clock \in Int /\ twice \in Int /\ twice \in Nat
  <2>1. /\ file \in [pts : Seq(Points), elapsed : Clocks, whole : BOOLEAN, silence : Clocks]
        /\ Len(series.pts) <= Capacity
    BY <1>1 DEF GraphTypes
  <2>2. /\ file.pts \in Seq(Points) /\ series.pts \in Seq(Points) /\ clock \in Int
        /\ twice \in Int /\ twice \in Nat
    BY GraphFacts
  <2>3. QED BY <2>1, <2>2
<1>4. Extends(series.pts, file.pts)
  BY <1>1, <1>2, <1>3 DEF Writing, Extends
<1>5. /\ next \in Seq(Points) /\ Len(next) = n + 1
      /\ \A i \in 1 .. Len(next) : next[i] = series.pts[i + 0]
  <2>1. series.pts[n + 1] \in Points
    BY <1>2, <1>3
  <2>2. /\ next \in Seq(Points) /\ Len(next) = n + 1 /\ next[n + 1] = series.pts[n + 1]
        /\ \A i \in 1 .. n : next[i] = file.pts[i]
    BY <1>3, <2>1
  <2>3. \A i \in 1 .. n : file.pts[i] = series.pts[i]
    BY <1>4 DEF Extends
  <2>4. QED BY <1>3, <2>2, <2>3
<1> HIDE DEF next
<1>6. /\ file'.pts = next /\ file'.elapsed = file.elapsed /\ file'.silence = file.silence
      /\ file' \in [pts : Seq(Points), elapsed : Clocks, whole : BOOLEAN, silence : Clocks]
  BY <1>2, <1>3, <1>5
<1>7. Len(next) <= Len(series.pts) /\ Extends(series.pts, next)
  BY <1>2, <1>3, <1>5 DEF Extends
<1>8. GraphTypes'
  <2>1. Len(file'.pts) <= Capacity
    BY <1>3, <1>5, <1>6, <1>7, Sizes
  <2>2. QED BY <1>1, <1>2, <1>6, <2>1 DEF GraphTypes
<1>9. Plot(next, clock, twice)
  <2>1. Plot(series.pts, Opened, twice)
    BY <1>1 DEF SeriesPlot
  <2>2. Opened \in Int /\ Opened <= clock
    BY <1>1, GraphFacts DEF Opened, GraphTypes, SeriesOf, Clocks
  <2>3. Plot(series.pts, clock, twice)
    BY <1>3, <2>1, <2>2, LaterPlot
  <2>4. Len(next) + 0 <= Len(series.pts) /\ 0 \in Nat
    BY <1>3, <1>5, <1>7
  <2>5. QED BY <1>3, <1>5, <2>3, <2>4, PartOfPlot
<1>10. dryer.elapsed - file.elapsed <= file.silence /\ dryer.elapsed - file.elapsed \in Int
         /\ file.silence \in Int
  BY <1>1, <1>2, GraphFacts DEF StoredCounter
<1>11. Dated(next, dryer.elapsed - file.elapsed, file.silence + twice)
  <2>1. Dated(next, 0, twice)
    <3>1. ASSUME NEW i \in Real(next)
          PROVE  Wide(Len(next) - i + 1) + 0 <= clock - next[i] + twice
      <4>1. i \in 1 .. Len(next) /\ Len(next) - i + 1 \in Int
        BY <1>3, <1>5, <3>1, RealOf
      <4>2. Wide(Len(next) - i + 1) \in Int
        BY <4>1, WideInt
      <4>3. Wide(Len(next) - i + 1) <= clock - next[i] + twice
        BY <1>9, <3>1 DEF Plot
      <4>4. QED BY <4>2, <4>3
    <3>2. QED BY <3>1 DEF Dated
  <2>2. file.silence + twice \in Int /\ 0 \in Int
          /\ (dryer.elapsed - file.elapsed) - 0 <= (file.silence + twice) - twice
    BY <1>3, <1>10
  <2>3. QED BY <1>3, <1>5, <1>10, <2>1, <2>2, LessDated
<1>12. FilePlot'
  BY <1>2, <1>6, <1>9, <1>11 DEF FilePlot, Dated
<1>13. StoredCounter' /\ Writing' /\ Follows'
  BY <1>1, <1>2, <1>6, <1>7 DEF StoredCounter, Writing, Follows
<1>14. SeriesPlot' /\ Heard' /\ Swept' /\ OfThisRun' /\ Boots'
  BY <1>1, <1>2 DEF SeriesPlot, Opened, Heard, Swept, OfThisRun, Boots
<1>15. QED BY <1>8, <1>12, <1>13, <1>14 DEF GraphIInv

LEMMA SaveCloseStep == GraphIInv /\ SaveClose => GraphIInv'
<1> SUFFICES ASSUME GraphIInv, SaveClose PROVE GraphIInv'
  OBVIOUS
<1>1. GraphTypes /\ SeriesPlot /\ FilePlot /\ Heard /\ StoredCounter /\ Swept /\ Writing
        /\ Follows /\ OfThisRun /\ Boots
  BY DEF GraphIInv
<1>2. /\ clock' = clock /\ cuts' = cuts /\ dryer' = dryer /\ series' = series /\ seen' = seen
      /\ stale' = stale /\ ready' = ready /\ resumed' = resumed /\ loc' = loc
      /\ clean' = clean /\ twice' = twice /\ powered' = powered /\ powered
      /\ persisted' = persisted /\ pc = "write" /\ pc' = "saved"
      /\ file' = [file EXCEPT !.whole = TRUE]
  BY DEF SaveClose, Goto, world, past
<1>3. /\ file' \in [pts : Seq(Points), elapsed : Clocks, whole : BOOLEAN, silence : Clocks]
      /\ file'.pts = file.pts /\ file'.elapsed = file.elapsed /\ file'.silence = file.silence
  BY <1>1, <1>2 DEF GraphTypes
<1>4. GraphTypes'
  BY <1>1, <1>2, <1>3 DEF GraphTypes, GraphPcs
<1>5. FilePlot'
  BY <1>1, <1>2, <1>3 DEF FilePlot, Dated
<1>6. StoredCounter' /\ Writing' /\ Follows'
  BY <1>1, <1>2, <1>3 DEF StoredCounter, Writing, Follows
<1>7. SeriesPlot' /\ Heard' /\ Swept' /\ OfThisRun' /\ Boots'
  BY <1>1, <1>2 DEF SeriesPlot, Opened, Heard, Swept, OfThisRun, Boots
<1>8. QED BY <1>4, <1>5, <1>6, <1>7 DEF GraphIInv

\* The power is cut: all but the file is as at boot.
LEMMA CutStep == GraphIInv /\ Cut => GraphIInv'
<1> SUFFICES ASSUME GraphIInv, Cut PROVE GraphIInv'
  OBVIOUS
<1>1. GraphTypes /\ FilePlot
  BY DEF GraphIInv
<1>2. /\ clock' = clock /\ cuts < MaxCuts /\ cuts' = cuts + 1 /\ dryer' = dryer /\ file' = file
      /\ twice' = twice /\ powered' = FALSE /\ clean' = FALSE
      /\ series' = Empty /\ seen' = Unseen /\ stale' = FALSE /\ persisted' = 0
      /\ resumed' = FALSE /\ ready' = FALSE /\ pc' = "top" /\ loc' = NoLoc
  BY DEF Cut
<1>3. 0 \in Clocks /\ MaxCuts \in Nat
  BY GraphAssumption, Sizes DEF Clocks
<1>4. GraphTypes'
  <2>1. cuts' \in 0 .. MaxCuts
    BY <1>1, <1>2, <1>3 DEF GraphTypes
  <2>2. series' \in SeriesOf /\ Len(series'.pts) <= Capacity /\ series'.open = Never
    BY <1>2, Sizes DEF SeriesOf, Empty
  <2>3. seen' \in [running : BOOLEAN, elapsed : -1 .. MaxClock, at : 0 .. clock]
    <3>1. -1 \in -1 .. MaxClock /\ 0 \in 0 .. clock
      BY <1>1, Sizes DEF GraphTypes, Clocks
    <3>2. QED BY <1>2, <3>1 DEF Unseen
  <2>4. loc' \in [elapsed : Clocks, have : 0 .. Capacity, n : 0 .. Capacity, silence : Clocks]
    BY <1>2, <1>3, Sizes DEF NoLoc
  <2>5. persisted' \in 0 .. Capacity /\ pc' \in GraphPcs
    BY <1>2, Sizes DEF GraphPcs
  <2>6. QED BY <1>1, <1>2, <2>1, <2>2, <2>3, <2>4, <2>5 DEF GraphTypes
<1>5. SeriesPlot'
  BY <1>2, NoPlot DEF SeriesPlot, Empty
<1>6. FilePlot'
  BY <1>1, <1>2 DEF FilePlot, Dated
<1>7. Heard' /\ StoredCounter' /\ Swept' /\ Writing' /\ Follows' /\ OfThisRun' /\ Boots'
  BY <1>2 DEF Heard, StoredCounter, Swept, Writing, Follows, OfThisRun, Boots, Unseen
<1>8. QED BY <1>4, <1>5, <1>6, <1>7 DEF GraphIInv

LEMMA GraphStays == GraphIInv /\ UNCHANGED graphVars => GraphIInv'
<1> SUFFICES ASSUME GraphIInv, UNCHANGED graphVars PROVE GraphIInv'
  OBVIOUS
<1>1. GraphTypes' /\ SeriesPlot' /\ FilePlot'
  BY DEF graphVars, GraphIInv, GraphTypes, SeriesPlot, Opened, FilePlot, Dated
<1>2. Heard' /\ StoredCounter' /\ Swept' /\ Writing' /\ Follows' /\ OfThisRun' /\ Boots'
  BY DEF graphVars, GraphIInv, Heard, StoredCounter, Swept, Writing, Follows, OfThisRun, Boots
<1>3. QED BY <1>1, <1>2 DEF GraphIInv

\* Every step keeps the inductive invariant: one case per action.
LEMMA GraphInductive == GraphIInv /\ [GraphNext]_graphVars => GraphIInv'
<1> SUFFICES ASSUME GraphIInv, [GraphNext]_graphVars PROVE GraphIInv'
  OBVIOUS
<1>1. CASE TimeGoesOn
  BY <1>1, TimeStep
<1>2. CASE Unheard
  BY <1>2, UnheardStep
<1>3. CASE Hear
  BY <1>3, HearStep
<1>4. CASE Mounted \/ Boot
  BY <1>4, PowerStep
<1>5. CASE Main
  BY <1>5, SweepStep, RemoveStep, ResumeStep, RestoreStep, PersistStep, SaveOpenStep,
     SavePointStep, SaveCloseStep, PassOnStep DEF Main, PassOn
<1>6. CASE Cut
  BY <1>6, CutStep
<1>7. CASE UNCHANGED graphVars
  BY <1>7, GraphStays
<1>8. QED BY <1>1, <1>2, <1>3, <1>4, <1>5, <1>6, <1>7 DEF GraphNext

-----------------------------------------------------------------------------

\* The inductive invariant is what the properties ask for.
LEMMA GraphSafe == GraphIInv => SeriesSound /\ GraphIsOneRun /\ FileFollowsGraph
<1> SUFFICES ASSUME GraphIInv PROVE SeriesSound /\ GraphIsOneRun /\ FileFollowsGraph
  OBVIOUS
<1>1. GraphTypes /\ SeriesPlot /\ Follows /\ OfThisRun
  BY DEF GraphIInv
<1>2. /\ clock \in Int /\ twice \in Int /\ series.pts \in Seq(Points) /\ file.pts \in Seq(Points)
  BY GraphFacts
<1>3. GraphTypeOK
  <2>1. /\ clock \in 0 .. MaxClock /\ seen.running \in BOOLEAN /\ seen.elapsed \in -1 .. MaxClock
        /\ pc \in GraphPcs
    BY <1>1 DEF GraphTypes, Clocks
  <2>2. series.open = Never \/ series.open \in 0 .. clock
    BY <1>1, <1>2 DEF GraphTypes, SeriesOf, Clocks
  <2>3. QED BY <1>1, <1>2, <2>1, <2>2 DEF GraphTypeOK, GraphTypes, GraphPcs
<1>4. SeriesInOrder
  BY <1>1 DEF SeriesInOrder, SeriesPlot, Plot
<1>5. NotStretched
  BY <1>1 DEF NotStretched, SeriesPlot, Plot, Wide
<1>6. GraphIsOneRun
  <2>1. ASSUME clean, NEW i \in Real(series.pts) PROVE series.pts[i] >= dryer.began
    <3>1. dryer.began <= series.pts[i]
      BY <1>1, <2>1 DEF OfThisRun, From
    <3>2. series.pts[i] \in Int /\ dryer.began \in Int
      BY <1>2, <2>1, RealOf, GraphFacts DEF Clocks
    <3>3. QED BY <3>1, <3>2
  <2>2. QED BY <2>1 DEF GraphIsOneRun
<1>7. FileFollowsGraph
  <2>1. SUFFICES ASSUME pc = "top", resumed, ~stale, Len(series.pts) < Capacity
                 PROVE  IsPrefix(file.pts, series.pts)
    BY DEF FileFollowsGraph
  <2>2. Extends(series.pts, file.pts)
    BY <1>1, <2>1 DEF Follows
  <2> DEFINE n == Len(file.pts)
  <2>3. n \in Nat /\ n <= Len(series.pts) /\ \A i \in 1 .. n : file.pts[i] = series.pts[i]
    BY <1>2, <2>2 DEF Extends
  <2>4. SubSeq(file.pts, 1, n) = SubSeq(series.pts, 1, n)
    BY <1>2, <2>3
  <2>5. QED BY <2>3, <2>4 DEF IsPrefix
<1>8. QED BY <1>3, <1>4, <1>5, <1>6, <1>7 DEF SeriesSound

(* The invariant holds of every state of the graph and its file.           *)
THEOREM GraphInductiveInvariant == GraphSpec => []GraphIInv
BY GraphInitial, GraphInductive, PTL DEF GraphSpec

(* However late the ticks and however long the silences and the outages,   *)
(* the points of the graph are in order and stretched by no more than the  *)
(* silences that a file was stored in (hr_trend.c, main.c).                *)
THEOREM SeriesStaysSound == GraphSpec => []SeriesSound
BY GraphInductiveInvariant, GraphSafe, PTL

(* The graph of a run that was heard to begin after the resume holds no    *)
(* reading of before it (on_inbound).                                      *)
THEOREM GraphsAreOfOneRun == GraphSpec => []GraphIsOneRun
BY GraphInductiveInvariant, GraphSafe, PTL

(* Between passes the file holds the beginning of the series, although it  *)
(* is written without the lock of the series (hr_capture_trend_save).      *)
THEOREM FileAlwaysFollows == GraphSpec => []FileFollowsGraph
BY GraphInductiveInvariant, GraphSafe, PTL
=============================================================================
