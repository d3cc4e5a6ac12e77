----------------------------- MODULE CaptureFs -----------------------------
(***************************************************************************)
(* Who may be in the capture filesystem when it is torn down.              *)
(*                                                                         *)
(* main/hr_capture.c mounts one SPIFFS partition.  Readers and the logbook *)
(* bracket their calls with the quiesce gate; the frame writer, the trend  *)
(* save and the clear hold s_lock; the mount itself runs on a task of its  *)
(* own (at boot) or on the HTTP task (after a format).  Two operations     *)
(* unregister the partition, which frees it with no reference count: the   *)
(* shutdown before a restart and the format.  Each shared access is a step *)
(* of its own and the tasks interleave freely.                             *)
(*                                                                         *)
(* An action marked "Slip" is not part of the system: it is a plausible    *)
(* error in the action below it, against which the properties are tried.   *)
(***************************************************************************)
EXTENDS QuiesceGate, FiniteSets

CONSTANTS
  Gated,              \* tasks that bracket their calls with the gate
  Locking,            \* tasks that take s_lock around their calls
  Httpd,              \* the HTTP server's one task: downloads, format
  Reboot,             \* the hr_reboot helper task
  MountTask,          \* cap_mount, the task that mounts at boot
  NoTask              \* s_lock is free

Task == Gated \cup Locking \cup {Reboot, MountTask}

ASSUME TaskAssumption ==
  /\ IsFiniteSet(Gated) /\ IsFiniteSet(Locking)
  /\ Httpd \in Gated /\ Httpd \in Locking
  /\ Reboot # MountTask
  /\ Reboot \notin Gated \cup Locking /\ MountTask \notin Gated \cup Locking
  /\ NoTask \notin Task

VARIABLES
  pc,       \* where each task is
  nest,     \* the tasks inside seg_size(), within a region of their own
  lock,     \* holder of s_lock
  ready,    \* s_ready
  mounted,  \* the partition is registered with the VFS
  crossed   \* history: a format has taken the partition while the boot mount
            \* of this boot was not over

vars == <<pc, nest, users, closing, lock, ready, mounted, crossed>>

GatePcs   == {"idle", "counted", "backing", "inside", "flushing"}
LockPcs   == {"want", "holding"}
FormatPcs == {"fmtWant", "fmtClose", "fmtDrain", "fmtDrain2",
              "refuseReopen", "refuseGive", "fmtUnready", "fmtUnmount",
              "fmtErase", "fmtGive", "fmtReopen", "failGive",
              "failReopen", "remount"}
MountPcs  == {"boot", "mounting", "done"}
RebootPcs == {"sdBegin", "sdClose", "sdLock", "sdDrain", "sdDrain2",
              "sdBusy", "sdDrained", "sdUnmount", "restart"}

\* The tasks in the middle of a call on the partition.
InFs == {t \in Task : pc[t] \in {"inside", "flushing", "holding", "mounting"}}

Init ==
  /\ pc = [t \in Task |-> IF t = MountTask THEN "boot" ELSE "idle"]
  /\ nest = {}
  /\ GateInit
  /\ lock = NoTask
  /\ ready = FALSE /\ mounted = FALSE /\ crossed = FALSE

Goto(t, from, to) == pc[t] = from /\ pc' = [pc EXCEPT ![t] = to]

-----------------------------------------------------------------------------
\* Gate users: hr_capture_open/read/close, trend_load, trend_bytes, seg_size
\* and every file operation of hr_batchstore.c.

EnterCount(t) == /\ Goto(t, "idle", "counted")
                 /\ CountIn
                 /\ UNCHANGED <<nest, lock, ready, mounted, crossed>>

EnterCheck(t) == /\ Goto(t, "counted", IF closing THEN "backing" ELSE "inside")
                 /\ UNCHANGED <<nest, gateVars, lock, ready, mounted, crossed>>

\* Slip: backs out of the gate without giving its count back.
EnterRefusedLeak(t) == /\ Goto(t, "backing", "idle")
                       /\ UNCHANGED <<nest, gateVars, lock, ready, mounted, crossed>>

EnterRefused(t) == /\ Goto(t, "backing", "idle")
                   /\ CountOut
                   /\ UNCHANGED <<nest, lock, ready, mounted, crossed>>

Leave(t) == /\ Goto(t, "inside", "idle")
            /\ CountOut
            /\ UNCHANGED <<nest, lock, ready, mounted, crossed>>

\* hr_capture_open flushes the pending run, under s_lock and inside the gate.
\* It gives up after 500 ms: the download then goes on without the flush.
FlushBegin == /\ Goto(Httpd, "inside", "flushing")
              /\ lock = NoTask /\ lock' = Httpd
              /\ UNCHANGED <<nest, gateVars, ready, mounted, crossed>>

FlushEnd == /\ Goto(Httpd, "flushing", "inside")
            /\ lock' = NoTask
            /\ UNCHANGED <<nest, gateVars, ready, mounted, crossed>>

-----------------------------------------------------------------------------
\* Lock users: write_line_now, trend_save, trend_reset, clear.

LockBegin(t) == /\ ready
                /\ Goto(t, "idle", "want")
                /\ UNCHANGED <<nest, gateVars, lock, ready, mounted, crossed>>

LockTake(t) == /\ Goto(t, "want", "holding")
               /\ lock = NoTask /\ lock' = t
               /\ UNCHANGED <<nest, gateVars, ready, mounted, crossed>>

\* The writer waits 200 ms and the trend save 2 s.
LockGiveUp(t) == /\ Goto(t, "want", "idle")
                 /\ UNCHANGED <<nest, gateVars, lock, ready, mounted, crossed>>

LockGive(t) == /\ t \notin nest
               /\ Goto(t, "holding", "idle")
               /\ lock' = NoTask
               /\ UNCHANGED <<nest, gateVars, ready, mounted, crossed>>

\* seg_size() counts itself in although its caller is already accounted for:
\* the writer while it rotates, and whoever mounts.
MayNest(t) == \/ pc[t] = "mounting"
              \/ pc[t] = "holding" /\ t \notin Gated

NestIn(t) == /\ MayNest(t) /\ t \notin nest
             /\ nest' = nest \cup {t}
             /\ CountIn
             /\ UNCHANGED <<pc, lock, ready, mounted, crossed>>

NestOut(t) == /\ t \in nest
              /\ nest' = nest \ {t}
              /\ CountOut
              /\ UNCHANGED <<pc, lock, ready, mounted, crossed>>

-----------------------------------------------------------------------------
\* hr_capture_mount_now: at boot, or at the end of a format.

MountPc(t) == IF t = MountTask THEN "boot" ELSE "remount"
MountEnd(t) == IF t = MountTask THEN "done" ELSE "idle"

\* From the register on, the task calls stat, rename and remove outside the
\* gate.
MountRegister(t) == /\ ~mounted
                    /\ Goto(t, MountPc(t), "mounting")
                    /\ mounted' = TRUE
                    /\ UNCHANGED <<nest, gateVars, lock, ready, crossed>>

MountFail(t) == /\ Goto(t, MountPc(t), MountEnd(t))
                /\ UNCHANGED <<nest, gateVars, lock, ready, mounted, crossed>>

MountReady(t) == /\ t \notin nest
                 /\ Goto(t, "mounting", MountEnd(t))
                 /\ ready' = TRUE
                 /\ UNCHANGED <<nest, gateVars, lock, mounted, crossed>>

-----------------------------------------------------------------------------
\* fs_drain: hr_quiesce_idle reads closing, then users.  Only a look that said
\* "not idle" goes on to compare the clock with the deadline.

SawClosing(t, from, to) == /\ closing
                           /\ Goto(t, from, to)
                           /\ UNCHANGED <<nest, gateVars, lock, ready, mounted, crossed>>

SawNobody(t, from, to) == /\ users = 0
                          /\ Goto(t, from, to)
                          /\ UNCHANGED <<nest, gateVars, lock, ready, mounted, crossed>>

SawUsers(t, from, to) == /\ users # 0
                         /\ Goto(t, from, to)
                         /\ UNCHANGED <<nest, gateVars, lock, ready, mounted, crossed>>

Deadline(t, look1, look2, to) ==
  /\ \/ Goto(t, look1, to) /\ ~closing
     \/ Goto(t, look2, to) /\ users # 0
  /\ UNCHANGED <<nest, gateVars, lock, ready, mounted, crossed>>

-----------------------------------------------------------------------------
\* hr_capture_format, on the HTTP task: asked for at any time, also while
\* cap_mount waits or is at work, which neither the handler nor this looks at.

FmtBegin == /\ Goto(Httpd, "idle", "fmtWant")
            /\ UNCHANGED <<nest, gateVars, lock, ready, mounted, crossed>>

FmtLock == /\ Goto(Httpd, "fmtWant", "fmtClose")
           /\ lock = NoTask /\ lock' = Httpd
           /\ UNCHANGED <<nest, gateVars, ready, mounted, crossed>>

\* 2 s without the lock: "format refused".
FmtNoLock == /\ Goto(Httpd, "fmtWant", "idle")
             /\ UNCHANGED <<nest, gateVars, lock, ready, mounted, crossed>>

FmtClose == /\ Goto(Httpd, "fmtClose", "fmtDrain")
            /\ Close
            /\ UNCHANGED <<nest, lock, ready, mounted, crossed>>

FmtDrain == \/ SawClosing(Httpd, "fmtDrain", "fmtDrain2")
            \/ SawNobody(Httpd, "fmtDrain2", "fmtUnready")
            \/ SawUsers(Httpd, "fmtDrain2", "fmtDrain")

\* Slip: at the deadline the format goes ahead.
FmtDeadlineIgnored == Deadline(Httpd, "fmtDrain", "fmtDrain2", "fmtUnready")

\* Slip: the deadline is not compared while a reader is inside.
FmtDeadlineUnused ==
  /\ ~closing
  /\ Goto(Httpd, "fmtDrain", "refuseReopen")
  /\ UNCHANGED <<nest, gateVars, lock, ready, mounted, crossed>>

FmtDeadline == Deadline(Httpd, "fmtDrain", "fmtDrain2", "refuseReopen")

\* Slip: the gate stays closed.
FmtReopenForgotten(from, to) ==
  /\ Goto(Httpd, from, to)
  /\ UNCHANGED <<nest, gateVars, lock, ready, mounted, crossed>>

FmtReopen(from, to) == /\ Goto(Httpd, from, to)
                       /\ Reopen
                       /\ UNCHANGED <<nest, lock, ready, mounted, crossed>>

FmtGive(from, to) == /\ Goto(Httpd, from, to)
                     /\ lock' = NoTask
                     /\ UNCHANGED <<nest, gateVars, ready, mounted, crossed>>

FmtRefuse == \/ FmtReopen("refuseReopen", "refuseGive")
             \/ FmtGive("refuseGive", "idle")

\* The boot mount is neither in the gate nor under the lock, so the drain has
\* not waited for it.
FmtUnready == /\ Goto(Httpd, "fmtUnready", "fmtUnmount")
              /\ ready' = FALSE
              /\ crossed' = (crossed \/ pc[MountTask] # "done")
              /\ UNCHANGED <<nest, gateVars, lock, mounted>>

FmtUnmount == /\ Goto(Httpd, "fmtUnmount", "fmtErase")
              /\ mounted' = FALSE
              /\ UNCHANGED <<nest, gateVars, lock, ready, crossed>>

\* Erasing the partition takes many seconds, a shutdown waits QUIESCE_MS for
\* the lock: one that began waiting before s_ready fell has given up by then.
\* A boot mount that ends meanwhile sets s_ready again, and a shutdown that
\* begins on that may still be waiting.
FmtErased == /\ ready \/ pc[Reboot] \notin {"sdClose", "sdLock"}
             /\ Goto(Httpd, "fmtErase", "fmtGive")
             /\ UNCHANGED <<nest, gateVars, lock, ready, mounted, crossed>>

FmtEraseFailed == /\ Goto(Httpd, "fmtErase", "failGive")
                  /\ UNCHANGED <<nest, gateVars, lock, ready, mounted, crossed>>

FmtFinish == \/ FmtGive("fmtGive", "fmtReopen")
             \/ FmtReopen("fmtReopen", "remount")
             \/ FmtGive("failGive", "failReopen")
             \/ FmtReopen("failReopen", "idle")

FmtStep == \/ FmtLock \/ FmtNoLock \/ FmtClose \/ FmtDrain \/ FmtDeadline
           \/ FmtRefuse \/ FmtUnready \/ FmtUnmount
           \/ FmtErased \/ FmtEraseFailed \/ FmtFinish

-----------------------------------------------------------------------------
\* hr_reboot_request and hr_capture_shutdown, on the helper task.

\* A second request finds s_pending set and is ignored.
RequestRestart == /\ Goto(Reboot, "idle", "sdBegin")
                  /\ UNCHANGED <<nest, gateVars, lock, ready, mounted, crossed>>

SdBegin == /\ Goto(Reboot, "sdBegin", IF ready THEN "sdClose" ELSE "restart")
           /\ UNCHANGED <<nest, gateVars, lock, ready, mounted, crossed>>

SdClose == /\ Goto(Reboot, "sdClose", "sdLock")
           /\ Close
           /\ UNCHANGED <<nest, lock, ready, mounted, crossed>>

\* locked is remembered as lock = Reboot: this task never gives it back.
SdLock == /\ Goto(Reboot, "sdLock", "sdDrain")
          /\ lock = NoTask /\ lock' = Reboot
          /\ UNCHANGED <<nest, gateVars, ready, mounted, crossed>>

\* Slip: waits for the lock without a bound.
SdNoLockForever == /\ lock = NoTask
                   /\ Goto(Reboot, "sdLock", "sdDrain")
                   /\ UNCHANGED <<nest, gateVars, lock, ready, mounted, crossed>>

SdNoLock == /\ Goto(Reboot, "sdLock", "sdDrain")
            /\ UNCHANGED <<nest, gateVars, lock, ready, mounted, crossed>>

SdDrain == \/ SawClosing(Reboot, "sdDrain", "sdDrain2")
           \/ SawNobody(Reboot, "sdDrain2", "sdDrained")
           \/ SawUsers(Reboot, "sdDrain2", "sdDrain")

SdDeadline == Deadline(Reboot, "sdDrain", "sdDrain2", "sdBusy")

\* Busy at the deadline, by the lock or by the gate: left mounted.
SdLeaveMounted == /\ \/ Goto(Reboot, "sdBusy", "restart")
                     \/ Goto(Reboot, "sdDrained", "restart") /\ lock # Reboot
                  /\ ready' = FALSE
                  /\ UNCHANGED <<nest, gateVars, lock, mounted, crossed>>

\* Slip, once in the code: "unmounting underneath it".
SdUnreadyAnyway == /\ \/ Goto(Reboot, "sdDrained", "sdUnmount")
                      \/ Goto(Reboot, "sdBusy", "sdUnmount")
                   /\ ready' = FALSE
                   /\ UNCHANGED <<nest, gateVars, lock, mounted, crossed>>

SdUnready == /\ Goto(Reboot, "sdDrained", "sdUnmount")
             /\ lock = Reboot
             /\ ready' = FALSE
             /\ UNCHANGED <<nest, gateVars, lock, mounted, crossed>>

\* flush_run() and the unregister.
SdUnmount == /\ Goto(Reboot, "sdUnmount", "restart")
             /\ mounted' = FALSE
             /\ UNCHANGED <<nest, gateVars, lock, ready, crossed>>

\* esp_restart(), then the next boot.
Restart == /\ pc[Reboot] = "restart"
           /\ pc' = [t \in Task |-> IF t = MountTask THEN "boot" ELSE "idle"]
           /\ nest' = {}
           /\ users' = 0 /\ closing' = FALSE
           /\ lock' = NoTask
           /\ ready' = FALSE /\ mounted' = FALSE /\ crossed' = FALSE

Shutdown == \/ SdBegin \/ SdClose \/ SdLock \/ SdNoLock \/ SdDrain
            \/ SdDeadline \/ SdLeaveMounted \/ SdUnready \/ SdUnmount
            \/ Restart

-----------------------------------------------------------------------------
GateUser(t) == EnterCount(t) \/ EnterCheck(t) \/ EnterRefused(t) \/ Leave(t)
LockUser(t) == LockBegin(t) \/ LockTake(t) \/ LockGiveUp(t) \/ LockGive(t)
Nest(t)     == NestIn(t) \/ NestOut(t)
Mount(t)    == MountRegister(t) \/ MountFail(t) \/ MountReady(t)

Next == \/ \E t \in Gated : GateUser(t)
        \/ \E t \in Locking : LockUser(t)
        \/ \E t \in Task : Nest(t)
        \/ \E t \in {Httpd, MountTask} : Mount(t)
        \/ FlushBegin \/ FlushEnd
        \/ FmtBegin
        \/ FmtStep
        \/ RequestRestart
        \/ Shutdown

\* The steps a started shutdown or format goes on with by itself.  Its waits
\* are bounded by a clock: a drain loop that keeps passing its deadline check
\* takes the deadline in the end, hence strong fairness; so does a mount, which
\* sizes its segments a bounded number of times.  Nothing is assumed of the
\* tasks that hold the lock or a slot of the gate.
Fairness == /\ WF_vars(Shutdown) /\ SF_vars(SdDeadline)
            /\ WF_vars(FmtStep) /\ SF_vars(FmtDeadline)
            /\ SF_vars(Mount(Httpd)) /\ WF_vars(NestOut(Httpd))

Spec == Init /\ [][Next]_vars

FairSpec == Spec /\ Fairness

-----------------------------------------------------------------------------
\* Where each task may be: only the HTTP task formats, only the helper task
\* shuts down, only they and cap_mount mount.
ControlOK ==
  /\ pc \in [Task -> GatePcs \cup LockPcs \cup FormatPcs \cup MountPcs
                   \cup RebootPcs]
  /\ \A t \in Task :
       \/ pc[t] = "idle" /\ t # MountTask
       \/ pc[t] \in GatePcs \ {"flushing"} /\ t \in Gated
       \/ pc[t] \in LockPcs /\ t \in Locking
       \/ pc[t] \in FormatPcs \cup {"mounting", "flushing"} /\ t = Httpd
       \/ pc[t] \in RebootPcs /\ t = Reboot
       \/ pc[t] \in MountPcs /\ t = MountTask
  /\ nest \subseteq Task
  /\ closing \in BOOLEAN
  /\ lock \in Task \cup {NoTask}
  /\ ready \in BOOLEAN /\ mounted \in BOOLEAN /\ crossed \in BOOLEAN

\* Every variable has its type, and the count of the gate never goes negative.
TypeOK == ControlOK /\ users \in Nat

\* The count of the gate is the number of brackets that are open: over every
\* enter, refusal, leave and nested seg_size, through formats that close and
\* reopen the gate around them (hr_quiesce.h: "the count is untouched").
Counted ==
  {t \in Task : pc[t] \in {"counted", "backing", "inside", "flushing"}}

GateCount == users = Cardinality(Counted) + Cardinality(nest)

\* The tasks whose code runs between a successful take and the give.
UnderLock == {t \in Task : pc[t] \in {"flushing", "holding", "fmtClose",
                "fmtDrain", "fmtDrain2", "refuseReopen", "refuseGive",
                "fmtUnready", "fmtUnmount", "fmtErase", "fmtGive",
                "failGive", "sdUnmount"}}

\* s_lock is what orders the writers, the format and the unmount: the code
\* between take and give never runs in two tasks, on any path through a
\* timed-out take.
LockExclusive == \A t \in UnderLock : lock = t

\* A gate that nobody is going to reopen is never left closed: it is closed
\* only from a format's close to its reopen, or for good once a restart is on
\* its way.
ClosedByCloser ==
  closing =>
             \/ pc[Httpd] \in {"fmtDrain", "fmtDrain2", "refuseReopen",
                   "fmtUnready", "fmtUnmount", "fmtErase", "fmtGive",
                   "fmtReopen", "failGive", "failReopen"}
             \/ pc[Reboot] \in RebootPcs \ {"sdBegin", "sdClose"}

\* Whoever finds s_ready set finds a mounted partition, although a shutdown, a
\* format and two mounts set and clear it from different tasks.  It is so until
\* a format takes the partition before the boot mount is over: then the mount
\* sets s_ready after the format has cleared it.
ReadyMeansMounted == ready /\ ~crossed => mounted

\* The gate, the lock and the mount flag agree with where the tasks are: what a
\* drain, a take of s_lock and a look at s_ready each rely on.
Guarded == TypeOK /\ GateCount /\ LockExclusive /\ ReadyMeansMounted

\* The partition is unregistered only while no task is in the middle of a call
\* on it, by a shutdown or by a format, a mount under way included, until a
\* format has crossed the boot mount (hr_quiesce.h: "torn down only once nobody
\* is inside it").
T == INSTANCE Teardown WITH up <- mounted, inside <- InFs, lost <- crossed

TornDownAlone == T!Spec

\* What a format keeps even when it crosses the boot mount, and whatever a
\* shutdown does meanwhile: when it unregisters the partition no task is between
\* its enter and its leave, or holds the lock (hr_capture.c: "refuse rather than
\* format under an open descriptor").
FormatFindsNobody ==
  pc[Httpd] = "fmtUnmount" =>
    \A t \in Task : pc[t] \notin {"inside", "flushing", "holding"}

\* A requested restart happens: no holder of the lock, no reader and no format
\* can hold it up (hr_capture.c: "The whole wait is bounded").
RestartHappens == pc[Reboot] = "sdBegin" ~> pc[Reboot] = "idle"

\* A format request is always answered: it frees the HTTP task, whoever is in
\* the filesystem and whether or not a shutdown has taken the lock for good.
FormatEnds == pc[Httpd] = "fmtWant" ~> pc[Httpd] = "idle"

-----------------------------------------------------------------------------
\* Claims that the code does not keep, by a format during the boot mount.

\* "torn down only once nobody is inside it" (hr_quiesce.h): the mount at work
\* is inside, and so may readers be that come in on the s_ready it sets.
NeverUnderAUser ==
  (pc[Httpd] = "fmtUnmount" \/ pc[Reboot] = "sdUnmount") /\ mounted => InFs = {}

\* s_ready says that the filesystem is there.
ReadyIsAlwaysMounted == ready => mounted
=============================================================================
