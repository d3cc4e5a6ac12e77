------------------------------ MODULE UsbPort -------------------------------
(***************************************************************************)
(* The way out to the dryer: main/hr_usb.c.  Any task may send a frame;    *)
(* hr_usb_tx looks at s_mounted, takes s_tx_lock, queues the frame whole   *)
(* or refuses it, pushes the queue and gives the lock back.  The host may  *)
(* drop the adapter and enumerate it again between any two of these steps, *)
(* except under the TinyUSB task, which runs the callbacks itself.         *)
(*                                                                         *)
(* What matters of a frame is whether it still belongs to the session it   *)
(* was asked for in: a later one that receives it executes what somebody   *)
(* wanted of an earlier screen.  s_mount_events is kept as whether it has  *)
(* changed since the main loop last looked (mounted since).                *)
(***************************************************************************)
EXTENDS Integers, FiniteSets

CONSTANTS
  Senders,      \* the tasks that send
  UsbTask,      \* the one tud_task() runs on
  NoSender,     \* nobody holds s_tx_lock
  FifoCap       \* how many frames CFG_TUD_CDC_TX_BUFSIZE holds

ASSUME PortAssumption ==
  UsbTask \in Senders /\ NoSender \notin Senders /\ FifoCap \in Nat \ {0}

VARIABLES
  mounted,      \* s_mounted
  newMount,     \* s_mount_events differs from what the main loop last saw
  queued,       \* frames in the TX FIFO
  stale,        \* one of them was asked for in an earlier session
  txLock,       \* holder of s_tx_lock
  at,           \* per sender: where in hr_usb_tx it is, "out" when not inside
  fresh         \* per sender: its frame was asked for in this session
portVars == <<mounted, newMount, queued, stale, txLock, at, fresh>>

PortInit ==
  /\ mounted = FALSE /\ newMount = FALSE
  /\ queued = 0 /\ stale = FALSE /\ txLock = NoSender
  /\ at = [s \in Senders |-> "out"]
  /\ fresh = [s \in Senders |-> FALSE]

(* The power was cut *)
PortReset ==
  /\ mounted' = FALSE /\ newMount' = FALSE
  /\ queued' = 0 /\ stale' = FALSE /\ txLock' = NoSender
  /\ at' = [s \in Senders |-> "out"]
  /\ fresh' = [s \in Senders |-> FALSE]

Out(s) == at[s] = "out"

(* The call returns *)
Leave(s) ==
  /\ at' = [at EXCEPT ![s] = "out"]
  /\ fresh' = [fresh EXCEPT ![s] = FALSE]

----------------------------------------------------------------------------
(* The bus: callbacks of the TinyUSB task, which is not inside hr_usb_tx *)

Mount ==
  /\ ~mounted /\ Out(UsbTask)
  /\ mounted' = TRUE /\ newMount' = TRUE
  /\ UNCHANGED <<queued, stale, txLock, at, fresh>>

(* The queue is left for whoever comes next *)
SlipUmount ==
  /\ mounted /\ Out(UsbTask)
  /\ mounted' = FALSE
  /\ stale' = (stale \/ queued > 0)
  /\ fresh' = [s \in Senders |-> FALSE]
  /\ UNCHANGED <<newMount, queued, txLock, at>>

Umount ==
  /\ mounted /\ Out(UsbTask)
  /\ mounted' = FALSE /\ queued' = 0 /\ stale' = FALSE
  /\ fresh' = [s \in Senders |-> FALSE]
  /\ UNCHANGED <<newMount, txLock, at>>

(* The host polls the IN endpoint and takes the oldest frame *)
HostReads ==
  /\ mounted /\ queued > 0
  /\ queued' = queued - 1
  /\ stale' = (stale /\ queued > 1)
  /\ UNCHANGED <<mounted, newMount, txLock, at, fresh>>

----------------------------------------------------------------------------
(* hr_usb_tx.  TxEnter is the look at s_mounted; the caller's frame is      *)
(* refused there, at the lock, or for want of room.                         *)

TxEnter(s) ==
  /\ Out(s) /\ mounted
  /\ at' = [at EXCEPT ![s] = "lock"]
  /\ fresh' = [fresh EXCEPT ![s] = TRUE]
  /\ UNCHANGED <<mounted, newMount, queued, stale, txLock>>

TxNobody(s) == Out(s) /\ ~mounted /\ UNCHANGED portVars

TxLock(s) ==
  /\ at[s] = "lock" /\ txLock = NoSender
  /\ txLock' = s
  /\ at' = [at EXCEPT ![s] = "queue"]
  /\ UNCHANGED <<mounted, newMount, queued, stale, fresh>>

(* TX_LOCK_MS of waiting for another sender *)
TxBusy(s) ==
  /\ at[s] = "lock" /\ txLock \notin {NoSender, s}
  /\ Leave(s)
  /\ UNCHANGED <<mounted, newMount, queued, stale, txLock>>

HasRoom == queued < FifoCap

TxQueue(s) ==
  /\ at[s] = "queue" /\ HasRoom
  /\ queued' = queued + 1
  /\ stale' = (stale \/ ~fresh[s])
  /\ at' = [at EXCEPT ![s] = "flush"]
  /\ UNCHANGED <<mounted, newMount, txLock, fresh>>

TxNoRoom(s) ==
  /\ at[s] = "queue" /\ ~HasRoom
  /\ Leave(s) /\ txLock' = NoSender
  /\ UNCHANGED <<mounted, newMount, queued, stale>>

(* The push: a kick on the TinyUSB task, 50 ms of waiting on any other *)
TxDone(s) ==
  /\ at[s] = "flush"
  /\ Leave(s) /\ txLock' = NoSender
  /\ UNCHANGED <<mounted, newMount, queued, stale>>
=============================================================================
