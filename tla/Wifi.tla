-------------------------------- MODULE Wifi --------------------------------
(***************************************************************************)
(* hr_wifi.c: joining the owner's network, the setup access point and its  *)
(* window, and the no-IP watchdog (Netwatch).  Three tasks run it: the     *)
(* event task (on_event), the timer task (the poll, the retry and the end  *)
(* of the setup window) and the web server (new credentials, forget).  The *)
(* timer task goes before the event task, so a handler is cut where the    *)
(* code reads a flag it then acts on and where it waits for the driver.    *)
(*                                                                         *)
(* The driver, the router and its DHCP server are external: joins may      *)
(* fail, leases may be lost with the association standing, the DHCP client  *)
(* or the association may be what is stuck, and the driver may refuse to    *)
(* connect or to take a configuration.  One assumption on time is made: the *)
(* web server's few driver calls are over before a poll's two seconds are,  *)
(* and before a lease is.                                                   *)
(***************************************************************************)
EXTENDS Netwatch, Sequences

CONSTANTS
  RetryLimit,         \* STA_RETRY_LIMIT
  Window,             \* AP_OPEN_WINDOW_US, in polls
  MaxFaults,          \* bound: faults of the network, calls the driver refuses
  MaxAsks             \* bound: requests of the owner

ASSUME WifiAssumption ==
  /\ RetryLimit \in Nat \ {0} /\ Window \in Nat \ {0}
  /\ MaxFaults \in Nat /\ MaxAsks \in Nat

Off == -1           \* a timer that is not running

VARIABLES
  drv, cfg, ip, stuck, events, router,   \* external: driver, lease, network
  ap,                 \* external: the mode is APSTA, the setup AP is on the air
  status, retries, ssid, rejoin, watch,  \* s_status, s_sta_retries, s_ssid # "",
                                         \* s_noip_rejoin_pending, s_netwatch
  expired, apLeft, retryArmed,           \* s_ap_window_expired, the two timers
  restarting, nvs,    \* s_restarting; credentials are stored
  epc, tpc, hpc,      \* the event task, the timer task, the web server
  polled,             \* the poll of this unit of time has run
  faults, asks,       \* bounds
  missed, gap,        \* history: rejoins since the last address, and the time
                      \* since the last of them
  raced,              \* history: the window ended under a handler that had
                      \* found it open
  refused             \* history: the driver refused the last call that was to
                      \* send the station on its way, and no retry was armed

driverVars == <<drv, cfg, ip, stuck, events, router>>
setupVars == <<ap, expired, apLeft>>
staVars == <<status, retries, ssid, rejoin, watch, retryArmed>>
taskVars == <<epc, tpc, hpc, polled>>
bootVars == <<restarting, nvs>>
waits == <<missed, gap>>
ghosts == <<waits, raced, refused>>
bounds == <<faults, asks>>
vars == <<driverVars, setupVars, staVars, taskVars, bootVars, ghosts, bounds>>

----------------------------------------------------------------------------
(* The driver, as the code uses it *)

(* esp_wifi_connect(): no change when the station is on its way already,    *)
(* refused without a configuration, and otherwise an attempt that ends in   *)
(* an event - or that fails at once, with none.                             *)
Connect ==
  \/ /\ drv' = (IF drv = "idle" /\ cfg THEN "joining" ELSE drv)
     /\ UNCHANGED faults
  \/ /\ drv = "idle" /\ cfg /\ drv' = "idle"
     /\ faults < MaxFaults /\ faults' = faults + 1

(* ... by a caller that only logs the failure *)
Attempt == Connect /\ refused' = (drv' = "idle")

(* esp_wifi_disconnect() *)
Leave(rest) ==
  /\ drv' = "idle" /\ ip' = FALSE /\ stuck' = "no"
  /\ events' = IF drv = "idle" THEN rest ELSE Append(rest, "disc")

JoinOk ==
  /\ drv = "joining" /\ router
  /\ drv' = "assoc"
  /\ \/ stuck' = "no" /\ UNCHANGED faults
     \/ stuck' \in {"dhcp", "assoc"} /\ faults < MaxFaults /\ faults' = faults + 1
  /\ events' = Append(events, "assoc")
  /\ UNCHANGED <<cfg, ip, router, setupVars, staVars, taskVars, bootVars, ghosts, asks>>

JoinFails ==
  /\ drv = "joining"
  /\ \/ ~router /\ UNCHANGED faults
     \/ router /\ faults < MaxFaults /\ faults' = faults + 1
  /\ drv' = "idle" /\ events' = Append(events, "disc")
  /\ UNCHANGED <<cfg, ip, stuck, router, setupVars, staVars, taskVars, bootVars, ghosts, asks>>

LeaseComes ==
  /\ drv = "assoc" /\ ~ip /\ stuck = "no" /\ hpc = "idle"
  /\ ip' = TRUE /\ events' = Append(events, "gotip")
  /\ UNCHANGED <<drv, cfg, stuck, router, setupVars, staVars, taskVars, bootVars, ghosts, bounds>>

LeaseGoes ==
  /\ drv = "assoc" /\ ip /\ faults < MaxFaults
  /\ ip' = FALSE /\ stuck' \in {"no", "dhcp", "assoc"} /\ faults' = faults + 1
  /\ UNCHANGED <<drv, cfg, events, router, setupVars, staVars, taskVars, bootVars, ghosts, asks>>

(* IP_EVENT_STA_LOST_IP, long after the lease went *)
LostIp ==
  /\ drv = "assoc" /\ ~ip /\ events = <<>>
  /\ events' = <<"lostip">>
  /\ UNCHANGED <<drv, cfg, ip, stuck, router, setupVars, staVars, taskVars, bootVars, ghosts, bounds>>

RouterGoes ==
  /\ router /\ faults < MaxFaults
  /\ router' = FALSE /\ faults' = faults + 1
  /\ IF drv = "assoc"
     THEN /\ drv' = "idle" /\ ip' = FALSE /\ stuck' = "no"
          /\ events' = Append(events, "disc")
     ELSE UNCHANGED <<drv, ip, stuck, events>>
  /\ UNCHANGED <<cfg, setupVars, staVars, taskVars, bootVars, ghosts, asks>>

RouterComes ==
  /\ ~router /\ router' = TRUE
  /\ UNCHANGED <<drv, cfg, ip, stuck, events, setupVars, staVars, taskVars, bootVars, ghosts, bounds>>

----------------------------------------------------------------------------
(* hr_wifi_start(): the access point goes on the air at once, so its window *)
(* starts at once, and the stored network is joined if there is one: unless *)
(* the driver does not take it ("unfit"), or refuses to connect ("idle").   *)
Starts(stored, room) ==
  IF ~stored THEN {"none"} ELSE IF room THEN {"joins", "idle", "unfit"} ELSE {"joins"}

SlipBoot(how) ==
  [apLeft |-> IF how \in {"joins", "idle"} THEN Off ELSE Window,
   ssid |-> how \in {"joins", "idle"},
   status |-> IF how \in {"joins", "idle"} THEN "CONNECTING" ELSE "AP_SETUP",
   drv |-> IF how = "joins" THEN "joining" ELSE "idle"]
Boot(how) ==
  [apLeft |-> Window,
   ssid |-> how \in {"joins", "idle"},
   status |-> IF how \in {"joins", "idle"} THEN "CONNECTING" ELSE "AP_SETUP",
   drv |-> IF how = "joins" THEN "joining" ELSE "idle"]

Fault(how) == IF how \in {"idle", "unfit"} THEN 1 ELSE 0

Init ==
  /\ nvs \in BOOLEAN /\ restarting = FALSE /\ router \in BOOLEAN
  /\ \E how \in Starts(nvs, MaxFaults > 0) :
       /\ drv = Boot(how).drv /\ cfg = Boot(how).ssid /\ ssid = Boot(how).ssid
       /\ status = Boot(how).status /\ apLeft = Boot(how).apLeft
       /\ refused = (how = "idle") /\ faults = Fault(how)
  /\ ip = FALSE /\ stuck = "no" /\ events = <<>>
  /\ ap = TRUE /\ expired = FALSE /\ retries = 0 /\ rejoin = FALSE
  /\ watch = NewWatch /\ retryArmed = FALSE
  /\ epc = "idle" /\ tpc = "idle" /\ hpc = "idle" /\ polled = TRUE
  /\ asks = 0 /\ missed = 0 /\ gap = ReconnectMax /\ raced = FALSE

(* The chip starts again: after hr_reboot_request, or because configure_ap *)
(* found the access point's interface gone (ESP_ERROR_CHECK).              *)
StartAgain ==
  /\ \E how \in Starts(nvs, faults < MaxFaults) :
       /\ drv' = Boot(how).drv /\ cfg' = Boot(how).ssid /\ ssid' = Boot(how).ssid
       /\ status' = Boot(how).status /\ apLeft' = Boot(how).apLeft
       /\ refused' = (how = "idle") /\ faults' = faults + Fault(how)
  /\ ip' = FALSE /\ stuck' = "no" /\ events' = <<>>
  /\ ap' = TRUE /\ expired' = FALSE /\ retries' = 0 /\ rejoin' = FALSE
  /\ watch' = NewWatch /\ retryArmed' = FALSE /\ restarting' = FALSE
  /\ epc' = "idle" /\ tpc' = "idle" /\ hpc' = "idle" /\ polled' = TRUE
  /\ missed' = 0 /\ gap' = ReconnectMax /\ raced' = FALSE
  /\ UNCHANGED <<nvs, router, asks>>

(* arm_ap_timeout *)
Armed == IF expired THEN apLeft ELSE Window

----------------------------------------------------------------------------
(* The timer task *)

(* noip_check: by the poll, and by the lost-address event *)
SlipNoipStatus ==
  IF ip /\ status = "NO_IP" THEN "CONNECTED" ELSE status
NoipStatus ==
  IF ip THEN IF status = "NO_IP" THEN "CONNECTED" ELSE status
  ELSE IF NoIp(Ticked(watch, FALSE)) /\ status \in {"CONNECTED", "CONNECTING"}
  THEN "NO_IP" ELSE status

Answered == missed' = 0 /\ gap' = ReconnectMax

(* The events not yet handled are "rest" *)
NoipCheck(rest) ==
  IF restarting \/ ~watch.assoc
  THEN events' = rest /\ UNCHANGED <<drv, ip, stuck, status, rejoin, watch, missed, gap>>
  ELSE /\ watch' = Ticked(watch, ip)
       /\ status' = NoipStatus
       /\ IF Remedy(watch, ip) = "rejoin"
          THEN /\ rejoin' = TRUE /\ Leave(rest)
               /\ missed' = Grown(missed) /\ gap' = 0
          ELSE /\ events' = rest
               /\ stuck' = IF stuck = Remedy(watch, ip) THEN "no" ELSE stuck
               /\ IF ip THEN Answered ELSE UNCHANGED <<missed, gap>>
               /\ UNCHANGED <<drv, ip, rejoin>>

Poll ==
  /\ tpc = "idle" /\ ~polled /\ ~restarting
  /\ polled' = TRUE
  /\ NoipCheck(events)
  /\ UNCHANGED <<cfg, router, setupVars, retries, ssid, retryArmed, epc, tpc, hpc, bootVars, raced, refused, bounds>>

(* Time passes by one poll; a timer that is due fires first *)
Clock ==
  /\ polled /\ apLeft # 0 /\ tpc = "idle" /\ hpc = "idle" /\ ~restarting
  /\ polled' = FALSE
  /\ apLeft' = IF apLeft = Off THEN Off ELSE apLeft - 1
  /\ watch' = Aged(watch)
  /\ gap' = IF gap < ReconnectMax THEN gap + 1 ELSE gap
  /\ UNCHANGED <<driverVars, ap, expired, status, retries, ssid, rejoin, retryArmed, epc, tpc, hpc,
                 bootVars, missed, raced, refused, bounds>>

(* ap_timeout_cb: the window is over, unless the station is connected *)
WindowEnds ==
  /\ tpc = "idle" /\ apLeft = 0
  /\ apLeft' = Off
  /\ IF status = "CONNECTED"
     THEN UNCHANGED <<expired, tpc, raced>>
     ELSE /\ expired' = TRUE /\ tpc' = "mode"
          /\ raced' = (raced \/ epc # "idle" \/ hpc # "idle")
  /\ UNCHANGED <<driverVars, ap, staVars, epc, hpc, polled, bootVars, waits, refused, bounds>>

SetupCloses ==
  /\ tpc = "mode"
  /\ ap' = FALSE /\ tpc' = "idle"
  /\ UNCHANGED <<driverVars, expired, apLeft, staVars, epc, hpc, polled, bootVars, ghosts, bounds>>

(* sta_retry_cb *)
Retry ==
  /\ tpc = "idle" /\ retryArmed
  /\ retryArmed' = FALSE
  /\ IF status = "CONNECTED" \/ watch.assoc \/ ~ssid
     THEN UNCHANGED <<drv, refused, faults>>
     ELSE Attempt
  /\ UNCHANGED <<cfg, ip, stuck, events, router, setupVars, status, retries, ssid, rejoin, watch,
                 taskVars, bootVars, waits, raced, asks>>

----------------------------------------------------------------------------
(* The event task: on_event *)

Heard(e) == epc = "idle" /\ events # <<>> /\ Head(events) = e /\ ~restarting
Take(e) == Heard(e) /\ events' = Tail(events)

OnStaConnected ==
  /\ Take("assoc")
  /\ retryArmed' = FALSE /\ watch' = OnAssoc(watch)
  /\ UNCHANGED <<drv, cfg, ip, stuck, router, setupVars, status, retries, ssid, rejoin, taskVars,
                 bootVars, ghosts, bounds>>

(* The disconnect the watchdog asked for: rejoin at once, the setup AP shut *)
OnLeft ==
  /\ Take("disc") /\ rejoin
  /\ watch' = OnDisassoc(watch) /\ rejoin' = FALSE /\ status' = "CONNECTING"
  /\ Connect /\ refused' = FALSE
  /\ retryArmed' = IF drv' = "idle" THEN TRUE ELSE retryArmed
  /\ UNCHANGED <<cfg, ip, stuck, router, setupVars, retries, ssid, taskVars, bootVars, waits, raced, asks>>

(* A working link was lost: the setup AP comes back, in three steps, unless *)
(* its window is over.                                                      *)
OnLinkLost ==
  /\ Take("disc") /\ ~rejoin /\ status \in {"CONNECTED", "NO_IP"}
  /\ watch' = OnDisassoc(watch)
  /\ IF expired
     THEN status' = "CONNECTING" /\ Attempt /\ UNCHANGED epc
     ELSE epc' = "restore" /\ UNCHANGED <<status, drv, refused, faults>>
  /\ UNCHANGED <<cfg, ip, stuck, router, setupVars, retries, ssid, rejoin, retryArmed, tpc, hpc,
                 polled, bootVars, waits, raced, asks>>

RestoreSetup ==
  /\ epc = "restore"
  /\ ap' = TRUE /\ epc' = "open"
  /\ UNCHANGED <<driverVars, expired, apLeft, staVars, tpc, hpc, polled, bootVars, ghosts, bounds>>

SetupRestored ==
  /\ epc = "open"
  /\ IF ~ap THEN StartAgain
     ELSE /\ apLeft' = Armed
          /\ status' = "CONNECTING" /\ Attempt /\ epc' = "idle"
          /\ UNCHANGED <<cfg, ip, stuck, events, router, ap, expired, retries, ssid, rejoin, watch,
                         retryArmed, tpc, hpc, polled, bootVars, waits, raced, asks>>

(* A join failed: again at once, and slowly once the fast retries are spent *)
OnJoinFailed ==
  /\ Take("disc") /\ ~rejoin /\ status \notin {"CONNECTED", "NO_IP"}
  /\ watch' = OnDisassoc(watch)
  /\ retries' = IF retries < RetryLimit THEN retries + 1 ELSE retries
  /\ IF retries + 1 < RetryLimit
     THEN Attempt /\ UNCHANGED <<status, retryArmed>>
     ELSE /\ status' = IF expired THEN "CONNECTING" ELSE "AP_SETUP"
          /\ retryArmed' = TRUE /\ refused' = FALSE /\ UNCHANGED <<drv, faults>>
  /\ UNCHANGED <<cfg, ip, stuck, router, setupVars, ssid, rejoin, taskVars, bootVars, waits, raced, asks>>

OnGotIp ==
  /\ Take("gotip")
  /\ watch' = Ticked(watch, TRUE)
  /\ status' = "CONNECTED" /\ retries' = 0 /\ retryArmed' = FALSE
  /\ apLeft' = Off /\ ap' = FALSE
  /\ Answered /\ raced' = FALSE
  /\ UNCHANGED <<drv, cfg, ip, stuck, router, expired, ssid, rejoin, taskVars, bootVars, refused,
                 bounds>>

OnLostIp ==
  /\ Heard("lostip")              \* a rejoin adds an event of its own
  /\ NoipCheck(Tail(events))
  /\ UNCHANGED <<cfg, router, setupVars, retries, ssid, retryArmed, taskVars, bootVars, raced, refused, bounds>>

(* esp_restart() is stopping the driver: nothing of it is answered *)
OnNothing ==
  /\ restarting /\ epc = "idle" /\ events # <<>>
  /\ events' = Tail(events)
  /\ UNCHANGED <<drv, cfg, ip, stuck, router, setupVars, staVars, taskVars, bootVars, ghosts, bounds>>

----------------------------------------------------------------------------
(* The web server's task: hr_wifi_set_credentials, a driver call at a time *)

SetCredentials ==
  /\ hpc = "idle" /\ asks < MaxAsks /\ ~restarting
  /\ asks' = asks + 1
  /\ retries' = 0 /\ retryArmed' = FALSE /\ rejoin' = FALSE
  /\ Leave(events)
  /\ hpc' = "config"
  /\ UNCHANGED <<cfg, router, setupVars, status, ssid, watch, epc, tpc, polled, bootVars, ghosts, faults>>

(* start_sta_connect: the driver takes no configuration while it joins, and *)
(* may refuse what the owner typed; nothing is stored then                  *)
ConfigRefused ==
  /\ hpc = "config"
  /\ \/ drv = "joining" /\ UNCHANGED faults
     \/ faults < MaxFaults /\ faults' = faults + 1
  /\ hpc' = "idle" /\ refused' = (drv = "idle")
  /\ UNCHANGED <<driverVars, setupVars, staVars, epc, tpc, polled, bootVars, waits, raced, asks>>

ConfigTaken ==
  /\ hpc = "config" /\ drv # "joining"
  /\ cfg' = TRUE /\ ssid' = TRUE /\ status' = "CONNECTING" /\ hpc' = "connect"
  /\ UNCHANGED <<drv, ip, stuck, events, router, setupVars, retries, rejoin, watch, retryArmed, epc,
                 tpc, polled, bootVars, ghosts, bounds>>

ConnectAndStore ==
  /\ hpc = "connect"
  /\ Attempt
  /\ nvs' \in {nvs, TRUE} /\ hpc' = "idle"          \* flash may fail
  /\ UNCHANGED <<cfg, ip, stuck, events, router, setupVars, staVars, epc, tpc, polled, restarting,
                 waits, raced, asks>>

(* hr_wifi_forget, a driver call at a time *)
Forget ==
  /\ hpc = "idle" /\ asks < MaxAsks /\ ~restarting
  /\ asks' = asks + 1
  /\ nvs' = FALSE /\ retryArmed' = FALSE /\ retries' = 0 /\ ssid' = FALSE /\ rejoin' = FALSE
  /\ Leave(events)
  /\ hpc' = "drop"
  /\ UNCHANGED <<cfg, router, setupVars, status, watch, epc, tpc, polled, restarting, ghosts, faults>>

DropConfig ==
  /\ hpc = "drop"
  /\ cfg' = (cfg /\ drv = "joining")
  /\ expired' = FALSE /\ hpc' = "mode"
  /\ UNCHANGED <<drv, ip, stuck, events, router, ap, apLeft, staVars, epc, tpc, polled, bootVars,
                 ghosts, bounds>>

SetupMode ==
  /\ hpc = "mode"
  /\ ap' = TRUE /\ hpc' = "open"
  /\ UNCHANGED <<driverVars, expired, apLeft, staVars, epc, tpc, polled, bootVars, ghosts, bounds>>

(* start_ap_mode *)
StartApMode ==
  /\ hpc = "open"
  /\ IF ~expired /\ ~ap THEN StartAgain
     ELSE /\ hpc' = "idle"
          /\ status' = IF expired THEN "CONNECTING" ELSE "AP_SETUP"
          /\ ap' = ~expired
          /\ apLeft' = Armed
          /\ UNCHANGED <<driverVars, expired, retries, ssid, rejoin, watch, retryArmed, epc, tpc,
                         polled, bootVars, ghosts, bounds>>

(* hr_reboot's task: hr_wifi_prepare_restart, and the chip starts again *)
PrepareRestart ==
  /\ ~restarting /\ asks < MaxAsks
  /\ asks' = asks + 1
  /\ restarting' = TRUE /\ retryArmed' = FALSE /\ apLeft' = Off
  /\ UNCHANGED <<driverVars, ap, expired, status, retries, ssid, rejoin, watch, taskVars, nvs,
                 ghosts, faults>>

Restart == restarting /\ StartAgain

----------------------------------------------------------------------------
Driver == JoinOk \/ JoinFails \/ LeaseComes \/ LeaseGoes \/ LostIp \/ RouterGoes \/ RouterComes
TimerTask == Poll \/ Clock \/ WindowEnds \/ SetupCloses \/ Retry
EventTask ==
  \/ OnStaConnected \/ OnLeft \/ OnLinkLost \/ RestoreSetup \/ SetupRestored
  \/ OnJoinFailed \/ OnGotIp \/ OnLostIp \/ OnNothing
WebServer ==
  \/ SetCredentials \/ ConfigRefused \/ ConfigTaken \/ ConnectAndStore
  \/ Forget \/ DropConfig \/ SetupMode \/ StartApMode
Reboot == PrepareRestart \/ Restart

Next == Driver \/ TimerTask \/ EventTask \/ WebServer \/ Reboot

Spec == Init /\ [][Next]_vars

(* The tasks run, a join ends, a router that went away is switched on       *)
(* again, and a DHCP server that is asked time and again, by clients and    *)
(* associations that are not stuck, answers at last.                        *)
FairSpec ==
  /\ Spec
  /\ WF_vars(JoinOk \/ JoinFails) /\ SF_vars(LeaseComes) /\ WF_vars(RouterComes)
  /\ WF_vars(Poll) /\ WF_vars(Clock) /\ WF_vars(WindowEnds) /\ WF_vars(SetupCloses) /\ WF_vars(Retry)
  /\ WF_vars(EventTask)
  /\ WF_vars(ConfigRefused \/ ConfigTaken) /\ WF_vars(ConnectAndStore)
  /\ WF_vars(DropConfig) /\ WF_vars(SetupMode) /\ WF_vars(StartApMode) /\ WF_vars(Restart)

----------------------------------------------------------------------------
TypeOK ==
  /\ drv \in {"idle", "joining", "assoc"} /\ cfg \in BOOLEAN /\ ip \in BOOLEAN
  /\ stuck \in {"no", "dhcp", "assoc"} /\ router \in BOOLEAN
  /\ events \in Seq({"assoc", "disc", "gotip", "lostip"})
  /\ ap \in BOOLEAN /\ expired \in BOOLEAN /\ apLeft \in Off .. Window
  /\ status \in {"AP_SETUP", "CONNECTING", "CONNECTED", "NO_IP"}
  /\ retries \in 0 .. RetryLimit /\ ssid \in BOOLEAN /\ rejoin \in BOOLEAN
  /\ watch \in Watches /\ retryArmed \in BOOLEAN
  /\ restarting \in BOOLEAN /\ nvs \in BOOLEAN
  /\ epc \in {"idle", "restore", "open"} /\ tpc \in {"idle", "mode"}
  /\ hpc \in {"idle", "config", "connect", "drop", "mode", "open"}
  /\ polled \in BOOLEAN /\ faults \in 0 .. MaxFaults /\ asks \in 0 .. MaxAsks
  /\ missed \in 0 .. BackoffCap /\ gap \in 0 .. ReconnectMax /\ raced \in BOOLEAN
  /\ refused \in BOOLEAN

Settled == events = <<>> /\ epc = "idle" /\ tpc = "idle" /\ hpc = "idle" /\ ~restarting

(* An open setup network is never left on the air for good: whenever no     *)
(* handler is under way and the AP is up, the timer that shuts it is        *)
(* running, whichever of boot, lost links, rejoins and forgotten networks   *)
(* came before.  The exception is a window that ended between a handler's   *)
(* look at it and its switching the AP on (raced).                          *)
SetupIsTimed == Settled /\ ap => apLeft # Off \/ raced

(* A station with a network to join is on its way - joined, joining, or     *)
(* waiting for the slow retry - after any order of failed joins, lost links, *)
(* rejoins and new credentials; and where it is not, the very last call that *)
(* was to send it there was refused by the driver.                           *)
OnTheWay == Settled /\ ssid => drv # "idle" \/ retryArmed \/ refused

(* "Connected" is associated and holding an address: a station without one  *)
(* is reported so within the grace, whatever the order in which the lost    *)
(* lease, its events and the poll come.                                     *)
ConnectedMeansAddress ==
  Settled /\ polled /\ status = "CONNECTED" =>
    drv = "assoc" /\ (ip \/ ~NoIp(watch))

(* The status the web page and the poll act on agrees with the driver, and  *)
(* the station is left idle by a refusal only.                              *)
StatusSound == TypeOK /\ ConnectedMeansAddress /\ OnTheWay

(* A network that hands out no address is left and joined again ever more   *)
(* rarely: the n-th rejoin in a row comes no sooner after the one before    *)
(* than the delay doubled n times, or its cap - though each rejoin is a     *)
(* disconnect and an association that restart the watchdog's episode.       *)
RejoinsBackOff ==
  [][missed > 0 /\ gap' = 0 /\ gap # 0 => gap >= DelayAfter(missed)]_vars

(* Once the network has stopped failing, the station gets back to an        *)
(* address by itself, however far its retries and rejoins had gone, unless  *)
(* a refusal has left it idle.                                              *)
AddressComesBack == []<>(status = "CONNECTED" \/ ~ssid \/ refused)

(* Not kept: "Keep trying, slowly" (on_event).  A connect that fails at     *)
(* once, or new credentials the driver does not take, raise no event and    *)
(* arm no retry: the station stays idle, with a network to join.            *)
KeepsTrying == Settled /\ ssid => drv # "idle" \/ retryArmed

(* Claimed by hr_wifi_forget's comment, "Leave the network for real, drop   *)
(* the STA config so nothing reconnects to it": a forgotten network is not  *)
(* joined again.                                                            *)
NothingReconnects == Settled /\ ~ssid => drv # "assoc"
=============================================================================
