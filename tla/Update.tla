------------------------------- MODULE Update -------------------------------
(***************************************************************************)
(* Updates with a way back: h_ota of main/hr_http.c receives an image into *)
(* the slot that does not run, the bootloader starts it on trial, and the  *)
(* main loop (main/main.c) keeps it once the adapter is reachable, or      *)
(* marks it invalid at a time limit and asks for a restart                 *)
(* (main/hr_reboot.c).                                                     *)
(*                                                                         *)
(* External: the bootloader, as sdkconfig.defaults describes it, and the   *)
(* esp_ota_* calls.  Each slot has an entry in the OTA data with a state;  *)
(* "latest" is the slot whose entry was written last.  The bootloader      *)
(* takes the latest slot that is not refused, and whatever image is whole  *)
(* if that one is not.  No image is received while the running one is on   *)
(* trial, and none is marked invalid with no other to go back to; a slot    *)
(* without an entry may count as none.                                      *)
(* The power may be cut, or the image crash, at any time.                  *)
(***************************************************************************)
EXTENDS Integers

CONSTANTS
  TrialTime,     \* HR_OTA_CONFIRM_TIMEOUT_MS, in passes of the main loop
  Pieces,        \* bound: the pieces an upload comes in; the first is the head
  MaxStalls,     \* how many timeouts in a row an upload survives
  FlashFails,    \* whether the flash may refuse to be written
  MaxUploads     \* bound

ASSUME UpdateAssumption ==
  /\ TrialTime \in Nat \ {0} /\ Pieces \in Nat \ {0} /\ MaxStalls \in Nat
  /\ FlashFails \in BOOLEAN /\ MaxUploads \in Nat

Slots  == {0, 1}
NoSlot == 2
Other(s) == 1 - s

(* What is uploaded: an image that gets on the network or never does,      *)
(* another project's, one whose end is damaged, one too short for a header *)
Kinds == {"good", "deaf", "foreign", "damaged", "short"}

States == {"undefined", "new", "pending", "valid", "invalid", "aborted"}

VARIABLES
  slot,       \* what each slot holds: which image, its kind, whether it is all
              \* there; and the state in its entry
  latest,     \* the slot of the latest entry
  run,        \* the slot that runs; NoSlot if the bootloader found nothing
  trial,      \* ota_pending
  age,        \* passes since boot, while on trial
  reach,      \* adapter_reachable()
  up,         \* the upload: where, which image, pieces to come, stalls
  restart,    \* s_pending
  uploads,    \* bound
  rejected,   \* history: images that had their trial and were given up
  late        \* history: an upload began when the running image was marked
              \* invalid already, and the restart was still to come

vars == <<slot, latest, run, trial, age, reach, up, restart, uploads, rejected, late>>

NoUpload == [at |-> "idle", id |-> 0, kind |-> "good", left |-> 0, stalls |-> 0]

(* Flashed over USB once: no entry, no second image.                       *)
Init ==
  /\ slot = [s \in Slots |-> [id |-> 0, kind |-> "good", whole |-> s = 0,
                              state |-> "undefined"]]
  /\ latest = 0 /\ run = 0 /\ trial = FALSE /\ age = 0 /\ reach = FALSE
  /\ up = NoUpload /\ restart = FALSE /\ uploads = 0 /\ rejected = {}
  /\ late = FALSE

Running == run # NoSlot

----------------------------------------------------------------------------
(* External: the network, as the image that runs can use it                *)

Reach ==
  /\ Running
  /\ reach' = ~reach
  /\ reach' => slot[run].kind # "deaf"
  /\ UNCHANGED <<slot, latest, run, trial, age, up, restart, uploads, rejected, late>>

----------------------------------------------------------------------------
(* h_ota                                                                   *)

Target == Other(run)

(* esp_ota_begin: erases the slot that does not run.                       *)
SlipUploadBegin ==
  /\ Running /\ up.at = "idle" /\ uploads < MaxUploads
  /\ \E k \in Kinds :
       up' = [at |-> "receive", id |-> uploads + 1, kind |-> k, left |-> Pieces, stalls |-> 0]
  /\ uploads' = uploads + 1
  /\ slot' = [slot EXCEPT ![Target].whole = FALSE, ![Target].id = uploads + 1,
                          ![Target].kind = up'.kind]
  /\ late' = (late \/ slot[run].state = "invalid")
  /\ UNCHANGED <<latest, run, trial, age, reach, restart, rejected>>
UploadBegin ==
  /\ Running /\ up.at = "idle" /\ uploads < MaxUploads
  /\ slot[run].state # "pending"
  /\ \E k \in Kinds :
       up' = [at |-> "receive", id |-> uploads + 1, kind |-> k, left |-> Pieces, stalls |-> 0]
  /\ uploads' = uploads + 1
  /\ slot' = [slot EXCEPT ![Target].whole = FALSE, ![Target].id = uploads + 1,
                          ![Target].kind = up'.kind]
  /\ late' = (late \/ slot[run].state = "invalid")
  /\ UNCHANGED <<latest, run, trial, age, reach, restart, rejected>>

(* A piece: the head tells another project's image, before it is written.  *)
Receive ==
  /\ up.at = "receive" /\ up.left > 0
  /\ ~(up.kind = "foreign" /\ up.left = Pieces)
  /\ up' = [up EXCEPT !.left = @ - 1, !.stalls = 0]
  /\ UNCHANGED <<slot, latest, run, trial, age, reach, restart, uploads, rejected, late>>

Stall ==
  /\ up.at = "receive" /\ up.left > 0 /\ up.stalls < MaxStalls
  /\ up' = [up EXCEPT !.stalls = @ + 1]
  /\ UNCHANGED <<slot, latest, run, trial, age, reach, restart, uploads, rejected, late>>

(* Stalled, dropped, not written, another project's, too short: what was   *)
(* received is given up, and the boot choice stays.                        *)
Abort ==
  /\ up.at = "receive"
  /\ \/ up.left > 0
     \/ up.kind = "short"
  /\ up' = NoUpload
  /\ UNCHANGED <<slot, latest, run, trial, age, reach, restart, uploads, rejected, late>>

(* esp_ota_end: looks at the image as a whole                              *)
UploadEnd ==
  /\ up.at = "receive" /\ up.left = 0 /\ up.kind # "short"
  /\ IF up.kind = "damaged"
     THEN up' = NoUpload /\ UNCHANGED slot
     ELSE /\ up' = [up EXCEPT !.at = "choose"]
          /\ slot' = [slot EXCEPT ![Target].whole = TRUE]
  /\ UNCHANGED <<latest, run, trial, age, reach, restart, uploads, rejected, late>>

(* esp_ota_set_boot_partition, the reply, and the request to restart       *)
Choose ==
  /\ up.at = "choose"
  /\ \/ /\ slot' = [slot EXCEPT ![Target].state = "new"]
        /\ latest' = Target /\ restart' = TRUE
     \/ FlashFails /\ UNCHANGED <<slot, latest, restart>>
  /\ up' = NoUpload
  /\ UNCHANGED <<run, trial, age, reach, uploads, rejected, late>>

----------------------------------------------------------------------------
(* The main loop decides a trial: reachable comes first.                   *)

Confirm ==
  /\ Running /\ trial /\ reach
  /\ trial' = FALSE
  /\ \/ slot' = [slot EXCEPT ![run].state = "valid"]
     \/ FlashFails /\ UNCHANGED slot
  /\ UNCHANGED <<latest, run, age, reach, up, restart, uploads, rejected, late>>

Usable(s) == slot[s].whole /\ slot[s].state \notin {"invalid", "aborted"}

SlipRollBack ==
  /\ Running /\ trial /\ ~reach /\ age = TrialTime
  /\ trial' = FALSE
  /\ slot' = [slot EXCEPT ![run].state = "invalid"]
  /\ rejected' = rejected \cup {slot[run].id}
  /\ UNCHANGED <<latest, run, age, reach, up, restart, uploads, late>>
RollBack ==
  /\ Running /\ trial /\ ~reach /\ age = TrialTime
  /\ trial' = FALSE
  /\ \/ /\ Usable(Other(run))
        /\ slot' = [slot EXCEPT ![run].state = "invalid"]
        /\ rejected' = rejected \cup {slot[run].id}
        /\ restart' = TRUE
     \/ /\ FlashFails \/ ~Usable(Other(run)) \/ slot[Other(run)].state = "undefined"
        /\ UNCHANGED <<slot, rejected, restart>>
  /\ UNCHANGED <<latest, run, age, reach, up, uploads, late>>

Pass ==
  /\ Running /\ trial /\ ~reach /\ age < TrialTime
  /\ age' = age + 1
  /\ UNCHANGED <<slot, latest, run, trial, reach, up, restart, uploads, rejected, late>>

----------------------------------------------------------------------------
(* The bootloader                                                          *)

(* Every entry still on trial is given up; the latest that is not refused  *)
(* is taken, and goes on trial if it is new.                               *)
Abandoned ==
  [s \in Slots |-> IF slot[s].state = "pending" THEN "aborted" ELSE slot[s].state]

Taken(st) ==
  IF st[latest] \notin {"invalid", "aborted"} THEN latest ELSE Other(latest)

Loaded(s) == IF slot[s].whole THEN s ELSE IF slot[Other(s)].whole THEN Other(s) ELSE NoSlot

Boot ==
  LET st    == Abandoned
      taken == Taken(st)
      begun == IF st[taken] = "new" THEN [st EXCEPT ![taken] = "pending"] ELSE st
  IN  /\ run' = Loaded(taken)
      /\ slot' = [s \in Slots |-> [slot[s] EXCEPT !.state = begun[s]]]
      /\ rejected' = rejected \cup
           {slot[s].id : s \in {r \in Slots : slot[r].state = "pending" /\ slot[r].whole}}
      /\ trial' = (run' # NoSlot /\ begun[run'] = "pending")
      /\ age' = 0 /\ reach' = FALSE /\ up' = NoUpload /\ restart' = FALSE
      /\ UNCHANGED <<latest, uploads, late>>

(* hr_reboot's task, after the reply has had its time                      *)
Restart == Running /\ restart /\ Boot

PowerCut == Running /\ Boot

----------------------------------------------------------------------------
WebServer == UploadBegin \/ Receive \/ Stall \/ Abort \/ UploadEnd \/ Choose
MainLoop  == Confirm \/ RollBack \/ Pass

Next == Reach \/ WebServer \/ MainLoop \/ Restart \/ PowerCut

Spec == Init /\ [][Next]_vars

(* The main loop passes, and the task that restarts gets to run.           *)
FairSpec == Spec /\ WF_vars(MainLoop) /\ WF_vars(Restart)

----------------------------------------------------------------------------
(* Properties                                                              *)

(* The type of the state.                                                  *)
TypeOK ==
  /\ slot \in [Slots -> [id : 0..MaxUploads, kind : Kinds, whole : BOOLEAN, state : States]]
  /\ latest \in Slots /\ run \in Slots \cup {NoSlot}
  /\ trial \in BOOLEAN /\ age \in 0..TrialTime /\ reach \in BOOLEAN
  /\ up.at \in {"idle", "receive", "choose"} /\ up.left \in 0..Pieces
  /\ up.stalls \in 0..MaxStalls /\ restart \in BOOLEAN

Kept(s) == slot[s].whole /\ slot[s].state \in {"undefined", "valid"}

(* "The device won't be bricked by a bad upload" (README.md): whatever is  *)
(* uploaded, cut off, given up or refused, in whatever order with restarts *)
(* and power cuts, something runs, and it is all there.                    *)
NeverBricked == Running /\ slot[run].whole

(* While an image that was not kept runs, the one before it is still there *)
(* to go back to, and the bootloader will.  The exception is an upload      *)
(* that began in the moment between the mark on the image that is given up *)
(* and the restart: it erases what there was to go back to (late).         *)
WayBack ==
  trial => Kept(Other(run)) \/ late

(* An image that was given up does not run again by itself.                *)
RejectedStaysAway == trial => slot[run].id \notin rejected

(* There is always something good to run, and it is what runs.             *)
SlotsSound == TypeOK /\ NeverBricked /\ WayBack /\ RejectedStaysAway

(* A trial ends: the image is kept, or marked and left.                    *)
TrialEnds == trial ~> ~trial

(* An image that was marked as invalid does not stay in power.             *)
InvalidIsLeft ==
  (Running /\ slot[run].state = "invalid") ~> (slot[run].state # "invalid" \/ late)

(* A trial comes to its end and has its effect.                            *)
TrialIsDecided == TrialEnds /\ InvalidIsLeft
=============================================================================
