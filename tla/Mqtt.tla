--------------------------------- MODULE Mqtt ---------------------------------
(***************************************************************************)
(* The MQTT publisher, hr_mqtt.c.  Three tasks share s_client: the         *)
(* publisher (pub_task), the one that changes the broker (connect_now, on  *)
(* the web server's worker or at boot), and the client library's own task, *)
(* one per client, which runs on_mqtt with the client's API lock held.     *)
(*                                                                         *)
(* The client library is external: a client is made, started, stopped and  *)
(* destroyed; stopping waits for the handler at work; a publish takes the  *)
(* client's API lock.  A client whose connection fails or is lost says so. *)
(***************************************************************************)
EXTENDS Naturals, FiniteSets

CONSTANTS
  Clients,      \* the handles the library may hand out
  Null,         \* no client
  Depth         \* PUB_QUEUE_DEPTH

ASSUME MqttAssumption ==
  /\ IsFiniteSet(Clients) /\ Null \notin Clients /\ Depth \in Nat \ {0}

VARIABLES
  life, conn,         \* the library: each client, and whether it has a session
  subscribed,         \* the broker: the session has the command topics
  sClient, sConnected,
  clientLock,         \* s_client_lock: "free", "pub" or "web"
  queued,             \* how many samples s_pub_queue holds
  ppc, pclient,       \* pub_task, and the handle it publishes on
  wpc, wclient,       \* connect_now, and the handle it works on
  calls, hclient      \* on_mqtt of each client: the calls it has yet to make
                      \* for a CONNECTED event, and the handle it has read
libVars == <<life, conn, subscribed>>
pubVars == <<ppc, pclient>>
webVars == <<wpc, wclient>>
evVars == <<calls, hclient>>
mqttVars == <<libVars, sClient, sConnected, clientLock, queued, pubVars, webVars, evVars>>

(* pub(avail), then the two subscribes *)
Announcing == 2

MqttInit ==
  /\ life = [c \in Clients |-> "none"] /\ conn = [c \in Clients |-> FALSE]
  /\ subscribed = [c \in Clients |-> FALSE]
  /\ sClient = Null /\ sConnected = FALSE /\ clientLock = "free" /\ queued = 0
  /\ ppc = "receive" /\ pclient = Null /\ wpc = "idle" /\ wclient = Null
  /\ calls = [c \in Clients |-> 0] /\ hclient = [c \in Clients |-> Null]

----------------------------------------------------------------------------
(* hr_mqtt_publish_telemetry, on the USB task: never waits.  A full queue   *)
(* drops the newest sample.                                                 *)
PublishTelemetry ==
  /\ queued' = IF sConnected /\ queued < Depth THEN queued + 1 ELSE queued
  /\ UNCHANGED <<libVars, sClient, sConnected, clientLock, pubVars, webVars, evVars>>

----------------------------------------------------------------------------
(* pub_task *)

Receive ==
  /\ ppc = "receive" /\ queued > 0
  /\ queued' = queued - 1 /\ ppc' = "wait"
  /\ UNCHANGED <<libVars, sClient, sConnected, clientLock, pclient, webVars, evVars>>

TakeClient ==
  /\ ppc = "wait" /\ clientLock = "free"
  /\ clientLock' = "pub" /\ ppc' = "look"
  /\ UNCHANGED <<libVars, sClient, sConnected, queued, pclient, webVars, evVars>>

(* Two seconds without the lock: the sample is stale *)
GiveUp ==
  /\ ppc = "wait" /\ clientLock # "free" /\ ppc' = "receive"
  /\ UNCHANGED <<libVars, sClient, sConnected, clientLock, queued, pclient, webVars, evVars>>

LookAtClient ==
  /\ ppc = "look"
  /\ IF sClient # Null /\ sConnected
       THEN ppc' = "publish" /\ pclient' = sClient
       ELSE ppc' = "release" /\ UNCHANGED pclient
  /\ UNCHANGED <<libVars, sClient, sConnected, clientLock, queued, webVars, evVars>>

(* esp_mqtt_client_publish: waits for the handler, and for the network      *)
Publish ==
  /\ ppc = "publish" /\ calls[pclient] = 0
  /\ ppc' = "release" /\ pclient' = Null
  /\ UNCHANGED <<libVars, sClient, sConnected, clientLock, queued, webVars, evVars>>

Release ==
  /\ ppc = "release" /\ ppc' = "receive" /\ clientLock' = "free"
  /\ UNCHANGED <<libVars, sClient, sConnected, queued, pclient, webVars, evVars>>

----------------------------------------------------------------------------
(* connect_now, for hr_mqtt_start or hr_mqtt_set_broker once it has stored  *)
(* the broker                                                               *)

Configure ==
  /\ wpc = "idle" /\ wpc' = "detach"
  /\ UNCHANGED <<libVars, sClient, sConnected, clientLock, queued, pubVars, wclient, evVars>>

LockClient(from, to) ==
  /\ wpc = from /\ clientLock = "free"
  /\ wpc' = to /\ clientLock' = "web"
  /\ UNCHANGED <<libVars, sClient, sConnected, queued, pubVars, wclient, evVars>>

(* The old client stays in the publisher's sight while it is stopped *)
SlipDetach ==
  /\ wpc = "detaching" /\ clientLock' = "free"
  /\ wclient' = sClient /\ sConnected' = FALSE
  /\ wpc' = IF sClient = Null THEN "init" ELSE "stop"
  /\ UNCHANGED <<libVars, sClient, queued, pubVars, evVars>>

Detach ==
  /\ wpc = "detaching" /\ clientLock' = "free"
  /\ wclient' = sClient /\ sClient' = Null /\ sConnected' = FALSE
  /\ wpc' = IF sClient = Null THEN "init" ELSE "stop"
  /\ UNCHANGED <<libVars, queued, pubVars, evVars>>

(* esp_mqtt_client_stop: asks, then waits for the handler *)
AskToStop ==
  /\ wpc = "stop" /\ wpc' = "stopping"
  /\ life' = [life EXCEPT ![wclient] = "made"]
  /\ UNCHANGED <<conn, subscribed, sClient, sConnected, clientLock, queued, pubVars,
                 wclient, evVars>>

Destroy ==
  /\ wpc = "stopping" /\ calls[wclient] = 0
  /\ life' = [life EXCEPT ![wclient] = "none"]
  /\ conn' = [conn EXCEPT ![wclient] = FALSE]
  /\ subscribed' = [subscribed EXCEPT ![wclient] = FALSE]
  /\ wpc' = "init" /\ wclient' = Null
  /\ UNCHANGED <<sClient, sConnected, clientLock, queued, pubVars, evVars>>

(* esp_mqtt_client_init, which may fail *)
Make ==
  /\ wpc = "init"
  /\ \/ wpc' = "idle" /\ UNCHANGED <<life, wclient>>
     \/ \E c \in Clients :
          /\ life[c] = "none" /\ life' = [life EXCEPT ![c] = "made"]
          /\ wclient' = c /\ wpc' = "attach"
  /\ UNCHANGED <<conn, subscribed, sClient, sConnected, clientLock, queued, pubVars, evVars>>

Attach ==
  /\ wpc = "attaching" /\ clientLock' = "free"
  /\ sClient' = wclient /\ wpc' = "start"
  /\ UNCHANGED <<libVars, sConnected, queued, pubVars, wclient, evVars>>

Start ==
  /\ wpc = "start" /\ wpc' = "idle" /\ wclient' = Null
  /\ life' \in {life, [life EXCEPT ![wclient] = "started"]}
  /\ UNCHANGED <<conn, subscribed, sClient, sConnected, clientLock, queued, pubVars, evVars>>

----------------------------------------------------------------------------
(* on_mqtt, on the task of client c.  It looks at s_client, not at the      *)
(* client whose event it is.                                                *)

Connected(c) ==
  /\ life[c] = "started" /\ ~conn[c] /\ calls[c] = 0
  /\ conn' = [conn EXCEPT ![c] = TRUE]
  /\ sConnected' = TRUE /\ calls' = [calls EXCEPT ![c] = Announcing]
  /\ UNCHANGED <<life, subscribed, sClient, clientLock, queued, pubVars, webVars, hclient>>

ReadClient(c) ==
  /\ calls[c] > 0 /\ hclient[c] = Null /\ sClient # Null
  /\ hclient' = [hclient EXCEPT ![c] = sClient]
  /\ UNCHANGED <<libVars, sClient, sConnected, clientLock, queued, pubVars, webVars, calls>>

(* pub, or a subscribe: with no client the library only says so *)
SlipCall(c) ==
  /\ calls[c] > 0 /\ (hclient[c] # Null \/ sClient = Null) /\ clientLock = "free"
  /\ subscribed' = IF calls[c] = 1 /\ hclient[c] = c
                     THEN [subscribed EXCEPT ![c] = TRUE] ELSE subscribed
  /\ calls' = [calls EXCEPT ![c] = @ - 1] /\ hclient' = [hclient EXCEPT ![c] = Null]
  /\ UNCHANGED <<life, conn, sClient, sConnected, clientLock, queued, pubVars, webVars>>

Call(c) ==
  /\ calls[c] > 0 /\ (hclient[c] # Null \/ sClient = Null)
  /\ subscribed' = IF calls[c] = 1 /\ hclient[c] = c
                     THEN [subscribed EXCEPT ![c] = TRUE] ELSE subscribed
  /\ calls' = [calls EXCEPT ![c] = @ - 1] /\ hclient' = [hclient EXCEPT ![c] = Null]
  /\ UNCHANGED <<life, conn, sClient, sConnected, clientLock, queued, pubVars, webVars>>

(* The connection is lost, or could not be made *)
SlipDisconnected(c) ==
  /\ life[c] = "started" /\ calls[c] = 0
  /\ conn' = [conn EXCEPT ![c] = FALSE] /\ subscribed' = [subscribed EXCEPT ![c] = FALSE]
  /\ UNCHANGED <<life, sConnected, sClient, clientLock, queued, pubVars, webVars, evVars>>

Disconnected(c) ==
  /\ life[c] = "started" /\ calls[c] = 0
  /\ conn' = [conn EXCEPT ![c] = FALSE] /\ subscribed' = [subscribed EXCEPT ![c] = FALSE]
  /\ sConnected' = FALSE
  /\ UNCHANGED <<life, sClient, clientLock, queued, pubVars, webVars, evVars>>

----------------------------------------------------------------------------
PubTask == Receive \/ TakeClient \/ GiveUp \/ LookAtClient \/ Publish \/ Release
WebTask ==
  \/ LockClient("detach", "detaching") \/ Detach \/ AskToStop \/ Destroy \/ Make
  \/ LockClient("attach", "attaching") \/ Attach \/ Start
Handler(c) == ReadClient(c) \/ Call(c)

MqttNext ==
  \/ PublishTelemetry \/ PubTask \/ Configure \/ WebTask
  \/ \E c \in Clients : Connected(c) \/ Handler(c) \/ Disconnected(c)

MqttSpec == MqttInit /\ [][MqttNext]_mqttVars

(* Mutexes hand over to who waits; the network calls return; an attempt to   *)
(* connect that does not succeed fails in the end.                          *)
MqttFairness ==
  /\ SF_mqttVars(Publish) /\ WF_mqttVars(Receive \/ TakeClient \/ GiveUp \/ LookAtClient)
  /\ WF_mqttVars(Release)
  /\ SF_mqttVars(LockClient("detach", "detaching"))
  /\ SF_mqttVars(LockClient("attach", "attaching"))
  /\ WF_mqttVars(Detach \/ AskToStop \/ Destroy \/ Make \/ Attach \/ Start)
  /\ \A c \in Clients : WF_mqttVars(Handler(c)) /\ WF_mqttVars(~conn[c] /\ Disconnected(c))

MqttFairSpec == MqttSpec /\ MqttFairness

----------------------------------------------------------------------------
MqttTypeOK ==
  /\ life \in [Clients -> {"none", "made", "started"}]
  /\ conn \in [Clients -> BOOLEAN] /\ subscribed \in [Clients -> BOOLEAN]
  /\ sClient \in Clients \cup {Null} /\ sConnected \in BOOLEAN /\ queued \in 0 .. Depth
  /\ clientLock \in {"free", "pub", "web"}
  /\ calls \in [Clients -> 0 .. Announcing] /\ hclient \in [Clients -> Clients \cup {Null}]

(* "The publisher only ever sees either a live client or NULL", and so does  *)
(* a handler of the old client while it is being stopped.                   *)
LiveClientOnly ==
  /\ pclient # Null => life[pclient] # "none"
  /\ \A c \in Clients : hclient[c] # Null => life[hclient[c]] # "none"

(* Once its handler is done, the session of the client in use has the        *)
(* command topics: however the change of broker is timed, the handler of a   *)
(* new client finds it in s_client.                                         *)
SessionTakesCommands ==
  \A c \in Clients :
    (sClient = c /\ conn[c] /\ calls[c] = 0) => subscribed[c]

(* Through any change of broker the clients stay usable: none is called once *)
(* it is destroyed, and the one in use listens for commands.                *)
ClientsSound == MqttTypeOK /\ LiveClientOnly /\ SessionTakesCommands

(* A change of broker ends: the worker that stops a client never waits for   *)
(* one that waits for it.                                                   *)
BrokerChangeEnds == (wpc = "detach") ~> (wpc = "idle")

(* A late CONNECTED event of the old client may leave "connected" set over a *)
(* new one; it does not last, unless the new one could not be started.      *)
StatusSettles ==
  (sClient # Null /\ sConnected /\ ~conn[sClient])
     ~> (~sConnected \/ sClient = Null \/ conn[sClient] \/ life[sClient] = "made")
=============================================================================
