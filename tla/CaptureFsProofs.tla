-------------------------- MODULE CaptureFsProofs --------------------------
(***************************************************************************)
(* Proofs about CaptureFs for any set of tasks, and about CaptureLog.      *)
(***************************************************************************)
EXTENDS CaptureFs, CaptureLog, SequenceTheorems, FiniteSetTheorems,
        WellFoundedInduction, TLAPS

-----------------------------------------------------------------------------
(***************************************************************************)
(* The inductive invariant.  The safety properties are not inductive: each *)
(* part says what one phase of a teardown may rely on.                     *)
(***************************************************************************)

NestOk == \A t \in nest : MayNest(t)

\* Whoever holds the lock is between its take and its give, except the helper
\* task, which keeps it until the restart.
LockOwner ==
  \A t \in Task : lock = t =>
    \/ t \in UnderLock
    \/ t = Reboot /\ pc[t] \in {"sdDrain", "sdDrain2", "sdBusy",
                                "sdDrained", "sdUnmount", "restart"}

\* Until the boot mount is over nothing that needs s_ready has begun, and no
\* format has gone as far as to unregister the partition; one that does has
\* crossed it.
BootWindow ==
  pc[MountTask] # "done" /\ ~crossed =>
    /\ ~ready
    /\ lock # Reboot
    /\ pc[Httpd] \notin {"fmtUnmount", "fmtErase", "fmtGive", "fmtReopen",
                         "failGive", "failReopen", "remount", "mounting"}
    /\ pc[Reboot] \in {"idle", "sdBegin", "restart"}

\* From the end of the erase to the end of the remount no shutdown holds the
\* lock or can still come to hold it.
FormatWindow ==
  ~crossed /\ pc[Httpd] \in {"fmtGive", "fmtReopen", "remount", "mounting"} =>
    /\ ~ready
    /\ lock # Reboot
    /\ pc[Reboot] \notin {"sdClose", "sdLock", "sdUnmount"}

\* After the unregister of a format the partition stays away until the remount.
FormatDown ==
  ~crossed =>
    /\ pc[Httpd] \in {"fmtUnmount", "fmtErase"} => ~ready
    /\ pc[Httpd] \in {"fmtErase", "fmtGive", "fmtReopen", "failGive",
                      "failReopen", "remount"} => ~mounted /\ ~ready

NobodyInside == \A t \in Task : pc[t] \notin {"inside", "flushing"}

\* A format's drain: closed all along, and empty once users was seen to be 0.
FormatSealed ==
  /\ pc[Httpd] \in {"fmtDrain", "fmtDrain2", "fmtUnready", "fmtUnmount"}
       => closing
  /\ pc[Httpd] \in {"fmtUnready", "fmtUnmount"} => NobodyInside

\* A shutdown's drain, if there is anything to unmount and it has the lock: a
\* refused format that reopens the gate meanwhile holds the lock itself.
ShutdownSealed ==
  mounted /\ lock = Reboot /\ ~crossed =>
    /\ pc[Reboot] \in {"sdDrain2", "sdDrained", "sdUnmount"} => closing
    /\ pc[Reboot] \in {"sdDrained", "sdUnmount"} => NobodyInside

ShutdownUnready == pc[Reboot] = "sdUnmount" /\ ~crossed => ~ready

\* A task that has registered the partition and goes on to stat() it has it.
MountKeepsItsPartition ==
  ~crossed => \A t \in Task : pc[t] = "mounting" => mounted

Phases == /\ NestOk /\ LockExclusive /\ LockOwner
          /\ BootWindow /\ FormatWindow /\ FormatDown
          /\ FormatSealed /\ ShutdownSealed /\ ShutdownUnready
          /\ ReadyMeansMounted /\ ClosedByCloser /\ MountKeepsItsPartition

IInv == TypeOK /\ GateCount /\ Phases
-----------------------------------------------------------------------------
\* There are finitely many tasks, so any set of them can be counted.
LEMMA TasksFinite ==
  ASSUME NEW S, S \subseteq Task
  PROVE  IsFiniteSet(S) /\ Cardinality(S) \in Nat
<1>1. IsFiniteSet(Gated \cup Locking)
  BY FS_Union, TaskAssumption
<1>2. IsFiniteSet((Gated \cup Locking \cup {Reboot}) \cup {MountTask})
  BY <1>1, FS_AddElement
<1>3. IsFiniteSet(Task)
  <2>1. Task = (Gated \cup Locking \cup {Reboot}) \cup {MountTask}
    BY DEF Task
  <2>2. QED BY <1>2, <2>1
<1>4. QED BY <1>3, FS_Subset, FS_CardinalityType

\* The brackets counted, and those in a nested call, are finitely many.
LEMMA BracketsFinite ==
  ASSUME ControlOK
  PROVE  /\ IsFiniteSet(Counted) /\ Cardinality(Counted) \in Nat
         /\ IsFiniteSet(nest) /\ Cardinality(nest) \in Nat
<1>1. Counted \subseteq Task /\ nest \subseteq Task
  BY DEF Counted, ControlOK
<1>2. QED BY <1>1, TasksFinite

\* A drain that has seen the count at zero has seen the gate empty.
LEMMA ZeroMeansNobody ==
  ASSUME ControlOK, GateCount, users = 0
  PROVE  NobodyInside
<1>1. Cardinality(Counted) = 0
  BY BracketsFinite DEF GateCount
<1>2. Counted = {}
  BY <1>1, BracketsFinite, FS_EmptySet
<1>3. QED BY <1>2 DEF Counted, NobodyInside

-----------------------------------------------------------------------------
\* A step of a format or of a shutdown to another of its places keeps the types.
LEMMA Goes ==
  ASSUME ControlOK, NEW who, NEW from, NEW to,
         \/ who = Httpd /\ to \in FormatPcs \cup {"idle"}
         \/ who = Reboot /\ to \in RebootPcs,
         Goto(who, from, to),
         nest' = nest, closing' \in BOOLEAN, lock' \in Task \cup {NoTask},
         ready' \in BOOLEAN, mounted' \in BOOLEAN, crossed' \in BOOLEAN
  PROVE  ControlOK'
<1>1. who \in Task /\ who # MountTask
  BY TaskAssumption DEF Task
<1>2. pc' = [pc EXCEPT ![who] = to]
  BY DEF Goto
<1>3. /\ pc' \in [Task -> GatePcs \cup LockPcs \cup FormatPcs \cup MountPcs
                        \cup RebootPcs]
      /\ pc'[who] = to
      /\ \A t \in Task \ {who} : pc'[t] = pc[t]
  <2>1. to \in GatePcs \cup LockPcs \cup FormatPcs \cup MountPcs \cup RebootPcs
    BY DEF GatePcs
  <2>2. QED BY <1>1, <1>2, <2>1 DEF ControlOK
<1>4. ASSUME NEW t \in Task
      PROVE  \/ pc'[t] = "idle" /\ t # MountTask
             \/ pc'[t] \in GatePcs \ {"flushing"} /\ t \in Gated
             \/ pc'[t] \in LockPcs /\ t \in Locking
             \/ pc'[t] \in FormatPcs \cup {"mounting", "flushing"} /\ t = Httpd
             \/ pc'[t] \in RebootPcs /\ t = Reboot
             \/ pc'[t] \in MountPcs /\ t = MountTask
  <2>1. CASE t = who
    BY <1>1, <1>3, <2>1
  <2>2. CASE t # who
    BY <1>3, <2>2 DEF ControlOK
  <2>3. QED BY <2>1, <2>2
<1>5. QED BY <1>3, <1>4 DEF ControlOK

\* So for the format, in the web server's task.
LEMMA FormatGoes ==
  ASSUME ControlOK, NEW from, NEW to \in FormatPcs \cup {"idle"},
         Goto(Httpd, from, to),
         nest' = nest, closing' \in BOOLEAN, lock' \in Task \cup {NoTask},
         ready' \in BOOLEAN, mounted' \in BOOLEAN, crossed' \in BOOLEAN
  PROVE  ControlOK'
BY Goes

\* And for the shutdown.
LEMMA ShutdownGoes ==
  ASSUME ControlOK, NEW from, NEW to \in RebootPcs,
         Goto(Reboot, from, to),
         nest' = nest, closing' \in BOOLEAN, lock' \in Task \cup {NoTask},
         ready' \in BOOLEAN, mounted' \in BOOLEAN, crossed' \in BOOLEAN
  PROVE  ControlOK'
BY Goes

\* The steps of a format after its drain, and those of a shutdown, keep the types.
LEMMA FormatKeepsTypes ==
  ASSUME ControlOK,
         FmtRefuse \/ FmtUnready \/ FmtUnmount \/ FmtErased \/ FmtEraseFailed \/ FmtFinish
  PROVE  ControlOK'
<1>1. /\ closing \in BOOLEAN /\ lock \in Task \cup {NoTask}
      /\ ready \in BOOLEAN /\ mounted \in BOOLEAN /\ crossed \in BOOLEAN
  BY DEF ControlOK
<1>2. ASSUME NEW from, NEW to \in FormatPcs \cup {"idle"}, FmtReopen(from, to)
      PROVE  ControlOK'
  <2>1. /\ Goto(Httpd, from, to) /\ nest' = nest /\ closing' = FALSE
        /\ UNCHANGED <<lock, ready, mounted, crossed>>
    BY <1>2 DEF FmtReopen, Reopen
  <2>2. closing' \in BOOLEAN
    BY <2>1
  <2>3. QED BY <1>1, <2>1, <2>2, FormatGoes
<1>3. ASSUME NEW from, NEW to \in FormatPcs \cup {"idle"}, FmtGive(from, to)
      PROVE  ControlOK'
  <2>1. /\ Goto(Httpd, from, to) /\ nest' = nest /\ lock' = NoTask
        /\ UNCHANGED <<closing, ready, mounted, crossed>>
    BY <1>3 DEF FmtGive, gateVars
  <2>2. QED BY <1>1, <2>1, FormatGoes
<1>4. {"refuseGive", "idle", "fmtUnmount", "fmtErase", "fmtGive", "failGive", "fmtReopen",
       "remount", "failReopen"} \subseteq FormatPcs \cup {"idle"}
  BY DEF FormatPcs
<1>5. CASE FmtRefuse
  BY <1>2, <1>3, <1>4, <1>5 DEF FmtRefuse
<1>6. CASE FmtUnready
  <2>1. /\ Goto(Httpd, "fmtUnready", "fmtUnmount") /\ nest' = nest /\ ready' = FALSE
        /\ crossed' = (crossed \/ pc[MountTask] # "done")
        /\ UNCHANGED <<closing, lock, mounted>>
    BY <1>6 DEF FmtUnready, gateVars
  <2>2. ready' \in BOOLEAN /\ crossed' \in BOOLEAN
    BY <1>1, <2>1
  <2>3. QED BY <1>1, <1>4, <2>1, <2>2, FormatGoes
<1>7. CASE FmtUnmount
  <2>1. /\ Goto(Httpd, "fmtUnmount", "fmtErase") /\ nest' = nest /\ mounted' = FALSE
        /\ UNCHANGED <<closing, lock, ready, crossed>>
    BY <1>7 DEF FmtUnmount, gateVars
  <2>2. mounted' \in BOOLEAN
    BY <2>1
  <2>3. QED BY <1>1, <1>4, <2>1, <2>2, FormatGoes
<1>8. CASE FmtErased \/ FmtEraseFailed
  <2>1. /\ Goto(Httpd, "fmtErase", "fmtGive") \/ Goto(Httpd, "fmtErase", "failGive")
        /\ nest' = nest /\ UNCHANGED <<closing, lock, ready, mounted, crossed>>
    BY <1>8 DEF FmtErased, FmtEraseFailed, gateVars
  <2>2. QED BY <1>1, <1>4, <2>1, FormatGoes
<1>9. CASE FmtFinish
  BY <1>2, <1>3, <1>4, <1>9 DEF FmtFinish
<1>10. QED BY <1>5, <1>6, <1>7, <1>8, <1>9

LEMMA ShutdownKeepsTypes ==
  ASSUME ControlOK, SdLeaveMounted \/ SdUnready \/ SdUnmount
  PROVE  ControlOK'
<1>1. /\ closing \in BOOLEAN /\ lock \in Task \cup {NoTask}
      /\ ready \in BOOLEAN /\ mounted \in BOOLEAN /\ crossed \in BOOLEAN
  BY DEF ControlOK
<1>2. {"sdUnmount", "restart"} \subseteq RebootPcs
  BY DEF RebootPcs
<1>3. CASE SdLeaveMounted \/ SdUnready
  <2>1. /\ \/ Goto(Reboot, "sdBusy", "restart") \/ Goto(Reboot, "sdDrained", "restart")
           \/ Goto(Reboot, "sdDrained", "sdUnmount")
        /\ ready' = FALSE \/ ready' = ready
        /\ nest' = nest /\ UNCHANGED <<closing, lock, mounted, crossed>>
    BY <1>3 DEF SdLeaveMounted, SdUnready, gateVars
  <2>2. ready' \in BOOLEAN
    BY <1>1, <2>1
  <2>3. QED BY <1>1, <1>2, <2>1, <2>2, ShutdownGoes
<1>4. CASE SdUnmount
  <2>1. /\ Goto(Reboot, "sdUnmount", "restart") /\ mounted' = FALSE
        /\ nest' = nest /\ UNCHANGED <<closing, lock, ready, crossed>>
    BY <1>4 DEF SdUnmount, gateVars
  <2>2. mounted' \in BOOLEAN
    BY <2>1
  <2>3. QED BY <1>1, <1>2, <2>1, <2>2, ShutdownGoes
<1>5. QED BY <1>3, <1>4

\* Every step keeps the types; users is left to the count.
LEMMA ControlStep ==
  ASSUME ControlOK, Next
  PROVE  ControlOK'
<1> USE TaskAssumption
    DEF ControlOK, Task, Goto, gateVars,
        GatePcs, LockPcs, FormatPcs, MountPcs, RebootPcs
<1>1. ASSUME NEW t \in Gated, EnterCount(t) PROVE ControlOK'
  BY <1>1 DEF EnterCount, CountIn
<1>2. ASSUME NEW t \in Gated, EnterCheck(t) PROVE ControlOK'
  BY <1>2 DEF EnterCheck
<1>3. ASSUME NEW t \in Gated, EnterRefused(t) PROVE ControlOK'
  BY <1>3 DEF EnterRefused, CountOut
<1>4. ASSUME NEW t \in Gated, Leave(t) PROVE ControlOK'
  BY <1>4 DEF Leave, CountOut
<1>5. ASSUME NEW t \in Locking, LockBegin(t) PROVE ControlOK'
  BY <1>5 DEF LockBegin
<1>6. ASSUME NEW t \in Locking, LockTake(t) PROVE ControlOK'
  BY <1>6 DEF LockTake
<1>7. ASSUME NEW t \in Locking, LockGiveUp(t) PROVE ControlOK'
  BY <1>7 DEF LockGiveUp
<1>8. ASSUME NEW t \in Locking, LockGive(t) PROVE ControlOK'
  BY <1>8 DEF LockGive
<1>9. ASSUME NEW t \in Task, NestIn(t) PROVE ControlOK'
  BY <1>9 DEF NestIn, MayNest, CountIn
<1>10. ASSUME NEW t \in Task, NestOut(t) PROVE ControlOK'
  BY <1>10 DEF NestOut, CountOut
<1>11. ASSUME NEW t \in {Httpd, MountTask}, MountRegister(t) PROVE ControlOK'
  BY <1>11 DEF MountRegister, MountPc
<1>12. ASSUME NEW t \in {Httpd, MountTask}, MountFail(t) PROVE ControlOK'
  BY <1>12 DEF MountFail, MountPc, MountEnd
<1>13. ASSUME NEW t \in {Httpd, MountTask}, MountReady(t) PROVE ControlOK'
  BY <1>13 DEF MountReady, MountEnd
<1>14. ASSUME FlushBegin PROVE ControlOK'
  BY <1>14 DEF FlushBegin
<1>15. ASSUME FlushEnd PROVE ControlOK'
  BY <1>15 DEF FlushEnd
<1>16. ASSUME FmtBegin PROVE ControlOK'
  BY <1>16 DEF FmtBegin
<1>17. ASSUME FmtLock PROVE ControlOK'
  BY <1>17 DEF FmtLock
<1>18. ASSUME FmtNoLock PROVE ControlOK'
  BY <1>18 DEF FmtNoLock
<1>19. ASSUME FmtClose PROVE ControlOK'
  BY <1>19 DEF FmtClose, Close
<1>20. ASSUME FmtDrain PROVE ControlOK'
  BY <1>20 DEF FmtDrain, SawClosing, SawNobody, SawUsers
<1>21. ASSUME FmtDeadline PROVE ControlOK'
  BY <1>21 DEF FmtDeadline, Deadline
<1>22. ASSUME FmtRefuse \/ FmtUnready \/ FmtUnmount \/ FmtErased \/ FmtEraseFailed \/ FmtFinish
       PROVE  ControlOK'
  BY <1>22, FormatKeepsTypes
<1>23. ASSUME RequestRestart PROVE ControlOK'
  BY <1>23 DEF RequestRestart
<1>24. ASSUME SdBegin PROVE ControlOK'
  BY <1>24 DEF SdBegin
<1>25. ASSUME SdClose PROVE ControlOK'
  BY <1>25 DEF SdClose, Close
<1>26. ASSUME SdLock PROVE ControlOK'
  BY <1>26 DEF SdLock
<1>27. ASSUME SdNoLock PROVE ControlOK'
  BY <1>27 DEF SdNoLock
<1>28. ASSUME SdDrain PROVE ControlOK'
  BY <1>28 DEF SdDrain, SawClosing, SawNobody, SawUsers
<1>29. ASSUME SdDeadline PROVE ControlOK'
  BY <1>29 DEF SdDeadline, Deadline
<1>30. ASSUME SdLeaveMounted \/ SdUnready \/ SdUnmount PROVE ControlOK'
  BY <1>30, ShutdownKeepsTypes
<1>31. ASSUME Restart PROVE ControlOK'
  BY <1>31 DEF Restart
<1>32. QED BY <1>1, <1>2, <1>3, <1>4, <1>5, <1>6, <1>7, <1>8, <1>9, <1>10,
              <1>11, <1>12, <1>13, <1>14, <1>15, <1>16, <1>17, <1>18, <1>19,
              <1>20, <1>21, <1>22, <1>23, <1>24, <1>25, <1>26, <1>27, <1>28,
              <1>29, <1>30, <1>31
         DEF Next, GateUser, LockUser, Nest, Mount, FmtStep, Shutdown

-----------------------------------------------------------------------------
\* The count of the gate: most steps leave it and the open brackets alone; the
\* others open or close one bracket with one access.
LEMMA CountSame ==
  ASSUME ControlOK, Next
  PROVE  \/ Counted' = Counted /\ nest' = nest /\ users' = users
         \/ \E t \in Gated : EnterCount(t) \/ EnterRefused(t) \/ Leave(t)
         \/ \E t \in Task : Nest(t)
         \/ Restart
<1> DEFINE Alike == Counted' = Counted /\ nest' = nest /\ users' = users
<1> USE TaskAssumption DEF ControlOK, Task, Counted, Goto, gateVars
<1>1. ASSUME NEW t \in Gated, EnterCheck(t) PROVE Alike
  BY <1>1 DEF EnterCheck
<1>2. ASSUME NEW t \in Locking, LockBegin(t) PROVE Alike
  BY <1>2 DEF LockBegin
<1>3. ASSUME NEW t \in Locking, LockTake(t) PROVE Alike
  BY <1>3 DEF LockTake
<1>4. ASSUME NEW t \in Locking, LockGiveUp(t) PROVE Alike
  BY <1>4 DEF LockGiveUp
<1>5. ASSUME NEW t \in Locking, LockGive(t) PROVE Alike
  BY <1>5 DEF LockGive
<1>6. ASSUME NEW t \in {Httpd, MountTask}, MountRegister(t) PROVE Alike
  BY <1>6 DEF MountRegister, MountPc
<1>7. ASSUME NEW t \in {Httpd, MountTask}, MountFail(t) PROVE Alike
  BY <1>7 DEF MountFail, MountPc, MountEnd
<1>8. ASSUME NEW t \in {Httpd, MountTask}, MountReady(t) PROVE Alike
  BY <1>8 DEF MountReady, MountEnd
<1>9. ASSUME FlushBegin PROVE Alike
  BY <1>9 DEF FlushBegin
<1>10. ASSUME FlushEnd PROVE Alike
  BY <1>10 DEF FlushEnd
<1>11. ASSUME FmtBegin PROVE Alike
  BY <1>11 DEF FmtBegin
<1>12. ASSUME FmtLock PROVE Alike
  BY <1>12 DEF FmtLock
<1>13. ASSUME FmtNoLock PROVE Alike
  BY <1>13 DEF FmtNoLock
<1>14. ASSUME FmtClose PROVE Alike
  BY <1>14 DEF FmtClose, Close
<1>15. ASSUME FmtDrain PROVE Alike
  BY <1>15 DEF FmtDrain, SawClosing, SawNobody, SawUsers
<1>16. ASSUME FmtDeadline PROVE Alike
  BY <1>16 DEF FmtDeadline, Deadline
<1>17. ASSUME FmtRefuse PROVE Alike
  BY <1>17 DEF FmtRefuse, FmtReopen, FmtGive, Reopen
<1>18. ASSUME FmtUnready PROVE Alike
  BY <1>18 DEF FmtUnready
<1>19. ASSUME FmtUnmount PROVE Alike
  BY <1>19 DEF FmtUnmount
<1>20. ASSUME FmtErased PROVE Alike
  BY <1>20 DEF FmtErased
<1>21. ASSUME FmtEraseFailed PROVE Alike
  BY <1>21 DEF FmtEraseFailed
<1>22. ASSUME FmtFinish PROVE Alike
  BY <1>22 DEF FmtFinish, FmtReopen, FmtGive, Reopen
<1>23. ASSUME RequestRestart PROVE Alike
  BY <1>23 DEF RequestRestart
<1>24. ASSUME SdBegin PROVE Alike
  BY <1>24 DEF SdBegin
<1>25. ASSUME SdClose PROVE Alike
  BY <1>25 DEF SdClose, Close
<1>26. ASSUME SdLock PROVE Alike
  BY <1>26 DEF SdLock
<1>27. ASSUME SdNoLock PROVE Alike
  BY <1>27 DEF SdNoLock
<1>28. ASSUME SdDrain PROVE Alike
  BY <1>28 DEF SdDrain, SawClosing, SawNobody, SawUsers
<1>29. ASSUME SdDeadline PROVE Alike
  BY <1>29 DEF SdDeadline, Deadline
<1>30. ASSUME SdLeaveMounted PROVE Alike
  BY <1>30 DEF SdLeaveMounted
<1>31. ASSUME SdUnready PROVE Alike
  BY <1>31 DEF SdUnready
<1>32. ASSUME SdUnmount PROVE Alike
  BY <1>32 DEF SdUnmount
<1>33. QED BY <1>1, <1>2, <1>3, <1>4, <1>5, <1>6, <1>7, <1>8, <1>9, <1>10,
              <1>11, <1>12, <1>13, <1>14, <1>15, <1>16, <1>17, <1>18, <1>19,
              <1>20, <1>21, <1>22, <1>23, <1>24, <1>25, <1>26, <1>27, <1>28,
              <1>29, <1>30, <1>31, <1>32
         DEF Next, GateUser, LockUser, Nest, Mount, FmtStep, Shutdown

LEMMA CountStep ==
  ASSUME ControlOK, users \in Int, GateCount, Next
  PROVE  GateCount'
<1>1. CASE Counted' = Counted /\ nest' = nest /\ users' = users
  BY <1>1 DEF GateCount
<1>2. ASSUME NEW t \in Gated, EnterCount(t) PROVE GateCount'
  <2>1. Counted' = Counted \cup {t} /\ t \notin Counted
    BY <1>2 DEF EnterCount, Goto, Counted, ControlOK, Task
  <2>2. Cardinality(Counted') = Cardinality(Counted) + 1
    BY <2>1, BracketsFinite, FS_AddElement
  <2>3. nest' = nest /\ users' = users + 1
    BY <1>2 DEF EnterCount, CountIn
  <2>4. QED BY <2>2, <2>3, BracketsFinite DEF GateCount
<1>3. ASSUME NEW t \in Gated, EnterRefused(t) \/ Leave(t) PROVE GateCount'
  <2>1. Counted' = Counted \ {t} /\ t \in Counted
    BY <1>3 DEF EnterRefused, Leave, Goto, Counted, ControlOK, Task
  <2>2. Cardinality(Counted') = Cardinality(Counted) - 1
    BY <2>1, BracketsFinite, FS_RemoveElement
  <2>3. nest' = nest /\ users' = users - 1
    BY <1>3 DEF EnterRefused, Leave, CountOut
  <2>4. QED BY <2>2, <2>3, BracketsFinite DEF GateCount
<1>4. ASSUME NEW t \in Task, NestIn(t) PROVE GateCount'
  <2>1. nest' = nest \cup {t} /\ t \notin nest
    BY <1>4 DEF NestIn
  <2>2. Cardinality(nest') = Cardinality(nest) + 1
    BY <2>1, BracketsFinite, FS_AddElement
  <2>3. Counted' = Counted /\ users' = users + 1
    BY <1>4 DEF NestIn, CountIn, Counted
  <2>4. QED BY <2>2, <2>3, BracketsFinite DEF GateCount
<1>5. ASSUME NEW t \in Task, NestOut(t) PROVE GateCount'
  <2>1. nest' = nest \ {t} /\ t \in nest
    BY <1>5 DEF NestOut
  <2>2. Cardinality(nest') = Cardinality(nest) - 1
    BY <2>1, BracketsFinite, FS_RemoveElement
  <2>3. Counted' = Counted /\ users' = users - 1
    BY <1>5 DEF NestOut, CountOut, Counted
  <2>4. QED BY <2>2, <2>3, BracketsFinite DEF GateCount
<1>6. CASE Restart
  <2>1. Counted' = {}
    BY <1>6 DEF Restart, Counted
  <2>2. nest' = {} /\ users' = 0
    BY <1>6 DEF Restart
  <2>3. Cardinality({}) = 0
    BY FS_EmptySet
  <2>4. QED BY <2>1, <2>2, <2>3 DEF GateCount
<1>7. QED BY <1>1, <1>2, <1>3, <1>4, <1>5, <1>6, CountSame DEF Nest

-----------------------------------------------------------------------------
\* Every step keeps the phases of the teardowns apart.
LEMMA PhasesStep ==
  ASSUME ControlOK, GateCount, Phases, Next
  PROVE  Phases'
<1> USE TaskAssumption
    DEF ControlOK, Phases, NestOk, LockExclusive, LockOwner, BootWindow,
        FormatWindow, FormatDown, FormatSealed, ShutdownSealed,
        ShutdownUnready, ReadyMeansMounted, ClosedByCloser,
        MountKeepsItsPartition, UnderLock, NobodyInside, MayNest,
        Task, Goto, gateVars,
        GatePcs, LockPcs, FormatPcs, MountPcs, RebootPcs
<1>1. ASSUME NEW t \in Gated, EnterCount(t) PROVE Phases'
  BY <1>1 DEF EnterCount, CountIn
<1>2. ASSUME NEW t \in Gated, EnterCheck(t) PROVE Phases'
  BY <1>2 DEF EnterCheck
<1>3. ASSUME NEW t \in Gated, EnterRefused(t) PROVE Phases'
  BY <1>3 DEF EnterRefused, CountOut
<1>4. ASSUME NEW t \in Gated, Leave(t) PROVE Phases'
  BY <1>4 DEF Leave, CountOut
<1>5. ASSUME NEW t \in Locking, LockBegin(t) PROVE Phases'
  BY <1>5 DEF LockBegin
<1>6. ASSUME NEW t \in Locking, LockTake(t) PROVE Phases'
  BY <1>6 DEF LockTake
<1>7. ASSUME NEW t \in Locking, LockGiveUp(t) PROVE Phases'
  BY <1>7 DEF LockGiveUp
<1>8. ASSUME NEW t \in Locking, LockGive(t) PROVE Phases'
  BY <1>8 DEF LockGive
<1>9. ASSUME NEW t \in Task, NestIn(t) PROVE Phases'
  BY <1>9 DEF NestIn, MayNest, CountIn
<1>10. ASSUME NEW t \in Task, NestOut(t) PROVE Phases'
  BY <1>10 DEF NestOut, CountOut
<1>11. ASSUME NEW t \in {Httpd, MountTask}, MountRegister(t) PROVE Phases'
  BY <1>11 DEF MountRegister, MountPc
<1>12. ASSUME NEW t \in {Httpd, MountTask}, MountFail(t) PROVE Phases'
  BY <1>12 DEF MountFail, MountPc, MountEnd
<1>13. ASSUME NEW t \in {Httpd, MountTask}, MountReady(t) PROVE Phases'
  BY <1>13 DEF MountReady, MountEnd
<1>14. ASSUME FlushBegin PROVE Phases'
  BY <1>14 DEF FlushBegin
<1>15. ASSUME FlushEnd PROVE Phases'
  BY <1>15 DEF FlushEnd
<1>16. ASSUME FmtBegin PROVE Phases'
  BY <1>16 DEF FmtBegin
<1>17. ASSUME FmtLock PROVE Phases'
  BY <1>17 DEF FmtLock
<1>18. ASSUME FmtNoLock PROVE Phases'
  BY <1>18 DEF FmtNoLock
<1>19. ASSUME FmtClose PROVE Phases'
  BY <1>19 DEF FmtClose, Close
<1>20. ASSUME FmtDrain PROVE Phases'
  BY <1>20, ZeroMeansNobody
     DEF FmtDrain, SawClosing, SawNobody, SawUsers
<1>21. ASSUME FmtDeadline PROVE Phases'
  BY <1>21 DEF FmtDeadline, Deadline
<1>22. ASSUME FmtRefuse PROVE Phases'
  BY <1>22 DEF FmtRefuse, FmtReopen, FmtGive, Reopen
<1>23. ASSUME FmtUnready PROVE Phases'
  BY <1>23 DEF FmtUnready
<1>24. ASSUME FmtUnmount PROVE Phases'
  BY <1>24 DEF FmtUnmount
<1>25. ASSUME FmtErased PROVE Phases'
  BY <1>25 DEF FmtErased
<1>26. ASSUME FmtEraseFailed PROVE Phases'
  BY <1>26 DEF FmtEraseFailed
<1>27. ASSUME FmtFinish PROVE Phases'
  BY <1>27 DEF FmtFinish, FmtReopen, FmtGive, Reopen
<1>28. ASSUME RequestRestart PROVE Phases'
  BY <1>28 DEF RequestRestart
<1>29. ASSUME SdBegin PROVE Phases'
  BY <1>29 DEF SdBegin
<1>30. ASSUME SdClose PROVE Phases'
  BY <1>30 DEF SdClose, Close
<1>31. ASSUME SdLock PROVE Phases'
  BY <1>31 DEF SdLock
<1>32. ASSUME SdNoLock PROVE Phases'
  BY <1>32 DEF SdNoLock
<1>33. ASSUME SdDrain PROVE Phases'
  BY <1>33, ZeroMeansNobody
     DEF SdDrain, SawClosing, SawNobody, SawUsers
<1>34. ASSUME SdDeadline PROVE Phases'
  BY <1>34 DEF SdDeadline, Deadline
<1>35. ASSUME SdLeaveMounted PROVE Phases'
  BY <1>35 DEF SdLeaveMounted
<1>36. ASSUME SdUnready PROVE Phases'
  BY <1>36 DEF SdUnready
<1>37. ASSUME SdUnmount PROVE Phases'
  BY <1>37 DEF SdUnmount
<1>38. ASSUME Restart PROVE Phases'
  BY <1>38 DEF Restart
<1> HIDE DEF ControlOK, Phases, NestOk, LockExclusive, LockOwner, BootWindow,
        FormatWindow, FormatDown, FormatSealed, ShutdownSealed,
        ShutdownUnready, ReadyMeansMounted, ClosedByCloser,
        MountKeepsItsPartition, UnderLock, NobodyInside, MayNest, Task
<1>39. QED BY <1>1, <1>2, <1>3, <1>4, <1>5, <1>6, <1>7, <1>8, <1>9, <1>10,
              <1>11, <1>12, <1>13, <1>14, <1>15, <1>16, <1>17, <1>18, <1>19,
              <1>20, <1>21, <1>22, <1>23, <1>24, <1>25, <1>26, <1>27, <1>28,
              <1>29, <1>30, <1>31, <1>32, <1>33, <1>34, <1>35, <1>36, <1>37,
              <1>38
         DEF Next, GateUser, LockUser, Nest, Mount, FmtStep, Shutdown

-----------------------------------------------------------------------------
LEMMA InvInit ==
  ASSUME Init
  PROVE  IInv
<1> USE TaskAssumption DEF Init, GateInit, Task
<1>1. TypeOK
  BY DEF TypeOK, ControlOK, GatePcs, LockPcs, FormatPcs, MountPcs, RebootPcs
<1>2. GateCount
  <2>1. Counted = {}
    BY DEF Counted
  <2>2. QED BY <2>1, FS_EmptySet DEF GateCount
<1>3. Phases
  BY DEF Phases, NestOk, LockExclusive, LockOwner, BootWindow, FormatWindow,
         FormatDown, FormatSealed, ShutdownSealed, ShutdownUnready,
         ReadyMeansMounted, ClosedByCloser, MountKeepsItsPartition,
         UnderLock, FormatPcs, RebootPcs
<1>4. QED BY <1>1, <1>2, <1>3 DEF IInv

LEMMA InvStep ==
  ASSUME IInv, [Next]_vars
  PROVE  IInv'
<1>1. CASE Next
  <2>0. ControlOK /\ users \in Int /\ GateCount /\ Phases
    BY DEF IInv, TypeOK
  <2>1. ControlOK' /\ GateCount' /\ Phases'
    BY <1>1, <2>0, ControlStep, CountStep, PhasesStep
  <2>2. /\ Cardinality(Counted') \in Nat
        /\ Cardinality(nest') \in Nat
    <3>1. Counted' \subseteq Task /\ nest' \subseteq Task
      BY <2>1 DEF Counted, ControlOK
    <3>2. QED BY <3>1, TasksFinite
  <2>3. users' \in Nat
    BY <2>1, <2>2 DEF GateCount
  <2>4. QED BY <2>1, <2>3 DEF IInv, TypeOK
<1>2. CASE UNCHANGED vars
  <2>1. TypeOK' /\ GateCount'
    BY <1>2 DEF IInv, TypeOK, ControlOK, GateCount, Counted, vars
  <2>2. Phases'
    BY <1>2 DEF IInv, vars, Phases, NestOk, LockExclusive, LockOwner,
                BootWindow, FormatWindow, FormatDown, FormatSealed,
                ShutdownSealed, ShutdownUnready, ReadyMeansMounted,
                ClosedByCloser, MountKeepsItsPartition, RebootPcs, UnderLock,
                NobodyInside, MayNest
  <2>3. QED BY <2>1, <2>2 DEF IInv
<1>3. QED BY <1>1, <1>2

\* All of the above holds in every reachable state, for any set of tasks.
THEOREM InductiveInvariant ==
  Spec => []IInv
<1>1. Init => IInv
  BY InvInit
<1>2. IInv /\ [Next]_vars => IInv'
  BY InvStep
<1>3. QED BY <1>1, <1>2, PTL DEF Spec

\* Type correctness, for any set of tasks.
THEOREM TypeCorrect ==
  Spec => []TypeOK
<1>1. IInv => TypeOK
  BY DEF IInv
<1>2. QED BY <1>1, InductiveInvariant, PTL

\* The count of the gate is the number of open brackets, for any set of tasks.
THEOREM CountIsExact ==
  Spec => []GateCount
<1>1. IInv => GateCount
  BY DEF IInv
<1>2. QED BY <1>1, InductiveInvariant, PTL

\* s_lock excludes the writers, the format and the unmount from each other.
THEOREM LockIsExclusive ==
  Spec => []LockExclusive
<1>1. IInv => LockExclusive
  BY DEF IInv, Phases
<1>2. QED BY <1>1, InductiveInvariant, PTL

\* s_ready is never set on a partition that is not mounted, until a format
\* crosses the boot mount.
THEOREM ReadyIsMounted ==
  Spec => []ReadyMeansMounted
<1>1. IInv => ReadyMeansMounted
  BY DEF IInv, Phases
<1>2. QED BY <1>1, InductiveInvariant, PTL

\* What a drain, a take of s_lock and a look at s_ready rely on holds together,
\* for any set of tasks.
THEOREM GuardsAgree ==
  Spec => []Guarded
<1>1. QED BY TypeCorrect, CountIsExact, LockIsExclusive, ReadyIsMounted, PTL
         DEF Guarded

\* The gate is never left closed without a task that is going to open it.
THEOREM ClosedGateHasACloser ==
  Spec => []ClosedByCloser
<1>1. IInv => ClosedByCloser
  BY DEF IInv, Phases
<1>2. QED BY <1>1, InductiveInvariant, PTL

\* A format never unregisters the partition under a task that is inside the
\* gate or holds the lock, also when it crosses the boot mount.
THEOREM FormatIsAlone ==
  Spec => []FormatFindsNobody
<1>1. IInv => FormatFindsNobody
  <2> SUFFICES ASSUME IInv, pc[Httpd] = "fmtUnmount", NEW t \in Task
               PROVE  pc[t] \notin {"inside", "flushing", "holding"}
    BY DEF FormatFindsNobody
  <2>1. lock = Httpd /\ Httpd \in Task
    BY TaskAssumption DEF IInv, Phases, LockExclusive, UnderLock, Task
  <2>2. pc[t] # "holding"
    BY <2>1 DEF IInv, Phases, LockExclusive, UnderLock
  <2>3. pc[t] \notin {"inside", "flushing"}
    BY DEF IInv, Phases, FormatSealed, NobodyInside
  <2>4. QED BY <2>2, <2>3
<1>2. QED BY <1>1, InductiveInvariant, PTL

-----------------------------------------------------------------------------
\* The refinement.  Most steps change nothing the contract sees.
LEMMA Unseen ==
  ASSUME ControlOK, Next
  PROVE  \/ InFs' = InFs /\ mounted' = mounted /\ crossed' = crossed
         \/ \E t \in Gated : EnterCheck(t) \/ Leave(t)
         \/ \E t \in Locking : LockTake(t) \/ LockGive(t)
         \/ \E t \in {Httpd, MountTask} : MountRegister(t) \/ MountReady(t)
         \/ FmtUnready \/ FmtUnmount \/ SdUnmount \/ Restart
<1> DEFINE Alike ==
      InFs' = InFs /\ mounted' = mounted /\ crossed' = crossed
<1> USE TaskAssumption DEF ControlOK, Task, InFs, Goto, gateVars
<1>1. ASSUME NEW t \in Gated, EnterCount(t) PROVE Alike
  BY <1>1 DEF EnterCount, CountIn
<1>2. ASSUME NEW t \in Gated, EnterRefused(t) PROVE Alike
  BY <1>2 DEF EnterRefused, CountOut
<1>3. ASSUME NEW t \in Locking, LockBegin(t) PROVE Alike
  BY <1>3 DEF LockBegin
<1>4. ASSUME NEW t \in Locking, LockGiveUp(t) PROVE Alike
  BY <1>4 DEF LockGiveUp
<1>5. ASSUME NEW t \in Task, NestIn(t) PROVE Alike
  BY <1>5 DEF NestIn, MayNest, CountIn
<1>6. ASSUME NEW t \in Task, NestOut(t) PROVE Alike
  BY <1>6 DEF NestOut, CountOut
<1>7. ASSUME NEW t \in {Httpd, MountTask}, MountFail(t) PROVE Alike
  BY <1>7 DEF MountFail, MountPc, MountEnd
<1>8. ASSUME FlushBegin PROVE Alike
  BY <1>8 DEF FlushBegin
<1>9. ASSUME FlushEnd PROVE Alike
  BY <1>9 DEF FlushEnd
<1>10. ASSUME FmtBegin PROVE Alike
  BY <1>10 DEF FmtBegin
<1>11. ASSUME FmtLock PROVE Alike
  BY <1>11 DEF FmtLock
<1>12. ASSUME FmtNoLock PROVE Alike
  BY <1>12 DEF FmtNoLock
<1>13. ASSUME FmtClose PROVE Alike
  BY <1>13 DEF FmtClose, Close
<1>14. ASSUME FmtDrain PROVE Alike
  BY <1>14 DEF FmtDrain, SawClosing, SawNobody, SawUsers
<1>15. ASSUME FmtDeadline PROVE Alike
  BY <1>15 DEF FmtDeadline, Deadline
<1>16. ASSUME FmtRefuse PROVE Alike
  BY <1>16 DEF FmtRefuse, FmtReopen, FmtGive, Reopen
<1>17. ASSUME FmtErased PROVE Alike
  BY <1>17 DEF FmtErased
<1>18. ASSUME FmtEraseFailed PROVE Alike
  BY <1>18 DEF FmtEraseFailed
<1>19. ASSUME FmtFinish PROVE Alike
  BY <1>19 DEF FmtFinish, FmtReopen, FmtGive, Reopen
<1>20. ASSUME RequestRestart PROVE Alike
  BY <1>20 DEF RequestRestart
<1>21. ASSUME SdBegin PROVE Alike
  BY <1>21 DEF SdBegin
<1>22. ASSUME SdClose PROVE Alike
  BY <1>22 DEF SdClose, Close
<1>23. ASSUME SdLock PROVE Alike
  BY <1>23 DEF SdLock
<1>24. ASSUME SdNoLock PROVE Alike
  BY <1>24 DEF SdNoLock
<1>25. ASSUME SdDrain PROVE Alike
  BY <1>25 DEF SdDrain, SawClosing, SawNobody, SawUsers
<1>26. ASSUME SdDeadline PROVE Alike
  BY <1>26 DEF SdDeadline, Deadline
<1>27. ASSUME SdLeaveMounted PROVE Alike
  BY <1>27 DEF SdLeaveMounted
<1>28. ASSUME SdUnready PROVE Alike
  BY <1>28 DEF SdUnready
<1>29. QED BY <1>1, <1>2, <1>3, <1>4, <1>5, <1>6, <1>7, <1>8, <1>9, <1>10,
              <1>11, <1>12, <1>13, <1>14, <1>15, <1>16, <1>17, <1>18,
              <1>19, <1>20, <1>21, <1>22, <1>23, <1>24, <1>25, <1>26, <1>27,
              <1>28
         DEF Next, GateUser, LockUser, Nest, Mount, FmtStep, Shutdown

\* Whoever unregisters a mounted partition finds nobody in a call on it, until
\* a format has crossed the boot mount.
LEMMA AloneAtUnmount ==
  ASSUME ControlOK, Phases, ~crossed, FmtUnmount \/ (SdUnmount /\ mounted)
  PROVE  InFs = {}
<1> USE TaskAssumption DEF ControlOK, Phases, Goto, InFs, Task, NobodyInside
<1>1. CASE FmtUnmount
  <2>1. lock = Httpd /\ NobodyInside /\ pc[MountTask] = "done"
    BY <1>1 DEF FmtUnmount, LockExclusive, UnderLock, FormatSealed, BootWindow,
                FormatPcs
  <2>2. \A t \in Task : pc[t] # "holding"
    BY <1>1, <2>1 DEF FmtUnmount, LockExclusive, UnderLock
  <2>3. QED BY <1>1, <2>1, <2>2
               DEF FmtUnmount, GatePcs, LockPcs, FormatPcs, MountPcs, RebootPcs
<1>2. CASE SdUnmount /\ mounted
  <2>1. lock = Reboot
    BY <1>2 DEF SdUnmount, LockExclusive, UnderLock
  <2>2. NobodyInside /\ pc[MountTask] = "done" /\ pc[Httpd] # "mounting"
    BY <1>2, <2>1 DEF SdUnmount, ShutdownSealed, BootWindow, FormatWindow
  <2>3. \A t \in Task : pc[t] # "holding"
    BY <1>2, <2>1 DEF SdUnmount, LockExclusive, UnderLock
  <2>4. QED BY <1>2, <2>2, <2>3
               DEF SdUnmount, GatePcs, LockPcs, FormatPcs, MountPcs, RebootPcs
<1>3. QED BY <1>1, <1>2

LEMMA TeardownInit ==
  ASSUME Init
  PROVE  T!Init
BY TaskAssumption DEF Init, T!Init, InFs, Task

LEMMA TeardownStep ==
  ASSUME IInv, [Next]_vars
  PROVE  [T!Next]_T!vars
<1>1. ControlOK /\ Phases
  BY DEF IInv, TypeOK
<1>2. CASE UNCHANGED vars
  BY <1>2 DEF vars, T!vars, InFs
<1>3. CASE InFs' = InFs /\ mounted' = mounted /\ crossed' = crossed
  BY <1>3 DEF T!vars
<1>4. ASSUME NEW t \in Gated, EnterCheck(t) PROVE [T!Next]_T!vars
  <2>1. t \in Task /\ mounted' = mounted /\ crossed' = crossed
    BY <1>4 DEF Task, EnterCheck
  <2>2. InFs' = InFs \/ InFs' = InFs \cup {t}
    BY <1>1, <1>4, <2>1 DEF ControlOK, EnterCheck, Goto, InFs
  <2>3. QED BY <2>1, <2>2 DEF T!Next, T!Enter, T!vars
<1>5. ASSUME NEW t \in Locking, LockTake(t) PROVE T!Next
  <2>1. t \in Task /\ mounted' = mounted /\ crossed' = crossed
    BY <1>5 DEF Task, LockTake
  <2>2. InFs' = InFs \cup {t}
    BY <1>1, <1>5, <2>1 DEF ControlOK, LockTake, Goto, InFs
  <2>3. QED BY <2>1, <2>2 DEF T!Next, T!Enter
<1>6. ASSUME NEW t \in Task, Leave(t) \/ LockGive(t) PROVE T!Next
  <2>1. mounted' = mounted /\ crossed' = crossed
    BY <1>6 DEF Leave, LockGive
  <2>2. InFs' = InFs \ {t}
    BY <1>1, <1>6 DEF ControlOK, Leave, LockGive, Goto, InFs
  <2>3. QED BY <2>1, <2>2 DEF T!Next, T!Leave
<1>7. ASSUME NEW t \in {Httpd, MountTask}, MountReady(t) PROVE T!Next
  <2>1. t \in Task /\ mounted' = mounted /\ crossed' = crossed
    BY <1>7, TaskAssumption DEF Task, MountReady
  <2>2. InFs' = InFs \ {t}
    BY <1>1, <1>7, <2>1 DEF ControlOK, MountReady, MountEnd, Goto, InFs
  <2>3. QED BY <2>1, <2>2 DEF T!Next, T!Leave
<1>8. ASSUME NEW t \in {Httpd, MountTask}, MountRegister(t) PROVE T!Next
  <2>1. t \in Task
    BY TaskAssumption DEF Task
  <2>2. ~mounted /\ mounted' /\ crossed' = crossed
    BY <1>8 DEF MountRegister
  <2>3. InFs' = InFs \cup {t}
    BY <1>1, <1>8, <2>1 DEF ControlOK, MountRegister, Goto, InFs
  <2>4. QED BY <2>1, <2>2, <2>3 DEF T!Next, T!BringUp
<1>9. CASE FmtUnmount \/ SdUnmount
  <2>1. InFs' = InFs /\ mounted' = FALSE /\ crossed' = crossed
    BY <1>1, <1>9, TaskAssumption
       DEF ControlOK, FmtUnmount, SdUnmount, Goto, InFs, Task
  <2>2. CASE ~mounted
    BY <1>1, <2>1, <2>2 DEF T!vars, ControlOK
  <2>3. CASE mounted
    <3>1. InFs = {} \/ crossed
      BY <1>1, <1>9, <2>3, AloneAtUnmount
    <3>2. QED BY <2>1, <2>3, <3>1 DEF T!Next, T!TearDown
  <2>4. QED BY <2>2, <2>3
<1>10. CASE Restart
  <2>1. InFs' = {} /\ mounted' = FALSE /\ crossed' = FALSE
    BY <1>10 DEF Restart, InFs
  <2>2. QED BY <2>1 DEF T!Next, T!Restart
<1>11. CASE FmtUnready
  <2>1. InFs' = InFs /\ mounted' = mounted
    BY <1>1, <1>11, TaskAssumption DEF ControlOK, FmtUnready, Goto, InFs, Task
  <2>2. crossed' = crossed \/ crossed' = TRUE
    BY <1>1, <1>11 DEF ControlOK, FmtUnready
  <2>3. QED BY <2>1, <2>2 DEF T!Next, T!Lose, T!vars
<1>12. Gated \subseteq Task /\ Locking \subseteq Task
  BY DEF Task
<1>13. QED
  BY <1>1, <1>2, <1>3, <1>4, <1>5, <1>6, <1>7, <1>8, <1>9, <1>10, <1>11,
     <1>12, Unseen

\* The capture filesystem keeps the contract of Teardown, for any set of
\* tasks: it is unregistered only while nobody is in a call on it, a mount
\* included, until a format crosses the boot mount.
THEOREM ImplementsTeardown ==
  Spec => TornDownAlone
<1>1. Init => T!Init
  BY TeardownInit
<1>2. IInv /\ [Next]_vars => [T!Next]_T!vars
  BY TeardownStep
<1>3. QED BY <1>1, <1>2, InductiveInvariant, PTL
         DEF Spec, TornDownAlone, T!Spec

-----------------------------------------------------------------------------
(***************************************************************************)
(* Proofs about CaptureLog, for any number of segments, any sizes and any  *)
(* frames.  First the order (OrderIInv): the stamps rise from the oldest   *)
(* line on flash through the pending run and the frame in the writer's     *)
(* hands to the queue, each of them in one place, and what a download has  *)
(* sent is older than all it will read.  Then the room (RoomIInv): no file *)
(* is past its ceiling by a summary line or more, unless it was so when    *)
(* the log was mounted, and then the others fit beside it.                 *)
(***************************************************************************)

WriterPlaces == {"idle", "lock", "rotate", "switch", "write"}
Reads == [at : {"idle", "between", "in"}, age : 0..Segments, cur : Seg, pos : Nat,
          gone : BOOLEAN, got : Seq(Line)]

LogTypes ==
  /\ files \in [Seg -> Seq(Line)] /\ legacy \in Seq(Line) /\ nvsSeg \in Seg
  /\ s_ready \in BOOLEAN /\ seg \in Seg
  /\ run \in Line /\ queue \in Seq(Nat)
  /\ writer \in [at : WriterPlaces, n : Nat] /\ rd \in Reads
  /\ sent \in Seq(Bodies \cup {Dropped}) /\ lost \subseteq DOMAIN sent

\* What is mounted is what the index says, and only then is anything at work.
Mounted ==
  /\ s_ready => seg = nvsSeg /\ legacy = <<>>
  /\ Locked => s_ready
  /\ rd.at # "idle" => s_ready
  /\ rd.at = "idle" => rd.got = <<>>
  /\ legacy # <<>> => \A i \in Seg : files[i] = <<>>
  /\ ~s_ready /\ run.count > 0 => legacy = <<>> /\ \A i \in Seg : files[i] = <<>>
  /\ writer.at = "switch" => files[Oldest] = <<>>

\* A frame on its way is one that was queued, and it is later than those before it.
OnItsWay(n, s, l) == n \in 1..Len(s) /\ s[n] # Dropped /\ n \notin l
Flow ==
  /\ run.count > 0 => /\ run.first \in 1..run.last /\ run.body \in Bodies
                      /\ run.last <= Len(sent)
                      /\ \A u \in InHand \cup ToSet(queue) : run.last < u
  /\ writer.at = "idle" <=> writer.n = 0
  /\ writer.n > 0 => OnItsWay(writer.n, sent, lost) /\ \A j \in DOMAIN queue : writer.n < queue[j]
  /\ \A j \in DOMAIN queue : OnItsWay(queue[j], sent, lost)
  /\ \A i, j \in DOMAIN queue : i < j => queue[i] < queue[j]

\* The stamps of the lines still to be written.
ToCome == {u \in {run.first} : run.count > 0} \cup InHand \cup ToSet(queue)
            \cup {Len(sent) + 1}
AllBefore(f, u) == \A k \in DOMAIN f : f[k].last < u
PastOnly(F, got, coming) ==
  \A u \in coming : AllBefore(got, u) /\ \A i \in Seg : AllBefore(F[i], u)

\* How many rotations a segment has left: 0 for the oldest.
Rank(active, i) == IF i > active THEN i - active - 1 ELSE i - active - 1 + Segments
InOrder(F, active) ==
  /\ \A i \in Seg : Ordered(F[i])
  /\ \A i, j \in Seg : Rank(active, i) < Rank(active, j) => Before(F[i], F[j])

OldOnes == \A k \in DOMAIN legacy : legacy[k].first < 1 /\ legacy[k].last < 1
                                   /\ legacy[k].count = 0
\* A download has sent nothing that is not older than what it will send.
Reading(F, active, r) ==
  /\ r.pos <= Len(F[r.cur]) /\ F[r.cur] # <<>> /\ Rank(active, r.cur) < r.age
  /\ \A k \in DOMAIN r.got, y \in DOMAIN F[r.cur] :
       r.pos < y => r.got[k].last < F[r.cur][y].first
ReadInOrder(F, active, r) ==
  /\ Ordered(r.got)
  /\ \A i \in Seg : Rank(active, i) >= r.age => Before(r.got, F[i])
  /\ r.at = "in" /\ ~r.gone => Reading(F, active, r)

\* The frames a line stands for, of those sent (s) and lost (l).
CoverOf(x, s, l) ==
  {n \in x.first..x.last : x.first >= 1 /\ s[n] = x.body /\ n \notin l}

\* No frame is forgotten.
StoredIn(n, F, s, l) == \E i \in Seg : \E k \in DOMAIN F[i] : n \in CoverOf(F[i][k], s, l)
PendingIn(n, r, s, l) == r.count > 0 /\ n \in CoverOf(r, s, l)
NoneForgotten ==
  \A n \in DOMAIN sent :
    \/ sent[n] = Dropped \/ n \in lost
    \/ StoredIn(n, files, sent, lost) \/ PendingIn(n, run, sent, lost)
    \/ n = writer.n \/ \E j \in DOMAIN queue : queue[j] = n

\* A line of more than one frame says how many.
Exact(x, s, l) == x.count > 0 => x.count = Cardinality(CoverOf(x, s, l))
AllExact(F, r, s, l) ==
  Exact(r, s, l) /\ \A i \in Seg : \A k \in DOMAIN F[i] : Exact(F[i][k], s, l)

OrderIInv ==
  /\ LogTypes /\ Mounted /\ Flow /\ Ordered(legacy) /\ OldOnes
  /\ PastOnly(files, rd.got, ToCome)
  /\ InOrder(files, nvsSeg) /\ ReadInOrder(files, nvsSeg, rd)
  /\ NoneForgotten /\ AllExact(files, run, sent, lost)

\* Room: what is written after the last look at the ceiling passes it by less
\* than a summary line, and no segment is too big for the others at the floor.
SizeOf(F) == [i \in Seg |-> FileSize(F[i])]
BoundOf(F, m) ==
  [i \in Seg |-> IF FileSize(F[i]) > m + SummarySize THEN FileSize(F[i]) ELSE m + SummarySize]
HasRoom(F, m) == Sum(BoundOf(F, m)) <= Total
Leaves(size) == size + (Segments - 1) * (SegMin + SummarySize) <= Total
Wide(F) == \A i \in Seg : Leaves(FileSize(F[i]))
RoomIInv ==
  /\ used \in Nat /\ max \in 0..SegMax /\ Len(queue) <= QueueLen
  /\ s_ready => max > 0 /\ used = FileSize(files[seg]) /\ HasRoom(files, max)
  /\ s_ready /\ run.count > 0 => used < max
  /\ At("write") /\ run.count = 0 => used < max \/ (~Same /\ used < max + SummarySize)
  /\ Wide(files) /\ Leaves(FileSize(legacy))
  /\ Sum(SizeOf(files)) + FileSize(legacy) <= Total

-----------------------------------------------------------------------------
LEMMA SegFacts ==
  /\ Segments \in Nat /\ Segments >= 2 /\ Seg = 0..(Segments - 1)
  /\ \A i \in Seg : i \in Nat /\ i < Segments
BY CaptureLogAssumption DEF Seg

LEMMA NextIs ==
  ASSUME NEW i \in Seg
  PROVE  Next1(i) \in Seg /\ Next1(i) = IF i + 1 < Segments THEN i + 1 ELSE 0
<1>1. Segments \in Nat /\ Segments >= 2 /\ i \in Nat /\ i < Segments
  BY SegFacts
<1>2. CASE i + 1 < Segments
  <2>1. (i + 1) % Segments = i + 1
    BY <1>1, <1>2
  <2> QED BY <2>1, <1>1, <1>2 DEF Next1, Seg
<1>3. CASE ~(i + 1 < Segments)
  <2>1. i + 1 = Segments
    BY <1>1, <1>3
  <2>2. Segments % Segments = 0
    BY <1>1
  <2> QED BY <2>1, <2>2, <1>1 DEF Next1, Seg
<1> QED BY <1>2, <1>3

LEMMA SegAtIs ==
  ASSUME seg \in Seg, NEW a \in 0..(Segments - 1)
  PROVE  SegAt(a) \in Seg /\ Rank(seg, SegAt(a)) = a
<1> DEFINE s == seg + 1 + a
<1>1. Segments \in Nat /\ Segments >= 2 /\ seg \in Nat /\ seg < Segments /\ a \in Nat
      /\ a < Segments
  BY SegFacts
<1>2. s \in Nat /\ s < 2 * Segments
  BY <1>1
<1>3. CASE s < Segments
  <2>1. s % Segments = s
    BY <1>1, <1>2, <1>3
  <2> QED BY <2>1, <1>1, <1>3 DEF SegAt, Rank, Seg
<1>4. CASE ~(s < Segments)
  <2>1. s = (s - Segments) + Segments * 1 /\ s - Segments \in 0..(Segments - 1)
    BY <1>1, <1>2, <1>4
  <2>2. s % Segments = s - Segments
    BY <1>1, <2>1
  <2> QED BY <2>2, <2>1, <1>1, <1>4 DEF SegAt, Rank, Seg
<1> QED BY <1>3, <1>4

LEMMA Ranks ==
  ASSUME NEW c \in Seg
  PROVE  /\ \A i \in Seg : Rank(c, i) \in 0..(Segments - 1)
         /\ \A i \in Seg : Rank(c, i) = Segments - 1 <=> i = c
         /\ \A i \in Seg : Rank(c, i) = 0 <=> i = Next1(c)
         /\ \A i, j \in Seg : Rank(c, i) = Rank(c, j) => i = j
<1>1. Segments \in Nat /\ Segments >= 2 /\ c \in Nat /\ c < Segments
  BY SegFacts
<1>2. \A i \in Seg : i \in Nat /\ i < Segments
  BY SegFacts
<1>3. Next1(c) = IF c + 1 < Segments THEN c + 1 ELSE 0
  BY NextIs
<1> QED BY <1>1, <1>2, <1>3 DEF Rank

LEMMA RankTurns ==
  ASSUME NEW c \in Seg, NEW i \in Seg
  PROVE  Rank(Next1(c), i) = IF i = Next1(c) THEN Segments - 1 ELSE Rank(c, i) - 1
<1>1. Segments \in Nat /\ Segments >= 2 /\ c \in Nat /\ c < Segments
      /\ i \in Nat /\ i < Segments
  BY SegFacts
<1>2. Next1(c) = IF c + 1 < Segments THEN c + 1 ELSE 0
  BY NextIs
<1> QED BY <1>1, <1>2 DEF Rank

-----------------------------------------------------------------------------
(***************************************************************************)
(* Order.                                                                  *)
(***************************************************************************)
Files == [Seg -> Seq(Line)]

LEMMA LineFields ==
  ASSUME NEW x \in Line
  PROVE  x.first \in Int /\ x.last \in Int /\ x.count \in Nat /\ x.body \in Bodies \cup {Nobody}
BY DEF Line

LEMMA FileLine ==
  ASSUME NEW f \in Seq(Line), NEW k \in DOMAIN f
  PROVE  f[k] \in Line /\ f[k].first \in Int /\ f[k].last \in Int /\ k \in Nat /\ k \in 1..Len(f)
<1>1. f[k] \in Line /\ k \in 1..Len(f)
  BY ElementOfSeq, LenProperties
<1> DEFINE x == f[k]
<1>2. x \in Line
  BY <1>1
<1> HIDE DEF x
<1>3. x.first \in Int /\ x.last \in Int
  BY <1>2, LineFields
<1> QED BY <1>1, <1>3 DEF x

LEMMA LineAppended ==
  ASSUME NEW f \in Seq(Line), NEW x \in Line
  PROVE  /\ Append(f, x) \in Seq(Line) /\ Len(Append(f, x)) = Len(f) + 1 /\ Len(f) \in Nat
         /\ DOMAIN Append(f, x) = DOMAIN f \cup {Len(f) + 1} /\ Append(f, x)[Len(f) + 1] = x
         /\ \A k \in DOMAIN f : Append(f, x)[k] = f[k] /\ k \in Nat /\ k < Len(f) + 1
<1>1. DOMAIN f = 1..Len(f) /\ Len(f) \in Nat
  BY LenProperties
<1>2. DOMAIN Append(f, x) = 1..(Len(f) + 1)
  BY AppendProperties, LenProperties
<1>3. DOMAIN Append(f, x) = DOMAIN f \cup {Len(f) + 1}
  BY <1>1, <1>2
<1> QED BY <1>1, <1>3, AppendProperties

LEMMA NoLines ==
  /\ <<>> \in Seq(Line) /\ Ordered(<<>>) /\ DOMAIN <<>> = {} /\ Len(<<>>) = 0
  /\ \A f : Before(<<>>, f) /\ Before(f, <<>>)
  /\ \A u : AllBefore(<<>>, u)
BY DEF Ordered, Before, AllBefore

LEMMA OrderedAppend ==
  ASSUME NEW f \in Seq(Line), Ordered(f), NEW x \in Line, AllBefore(f, x.first)
  PROVE  Ordered(Append(f, x))
<1> DEFINE g == Append(f, x)
           l == Len(f) + 1
<1>1. /\ DOMAIN g = DOMAIN f \cup {l} /\ g[l] = x
      /\ \A k \in DOMAIN f : g[k] = f[k] /\ k \in Nat /\ k < l /\ l \in Nat
  BY LineAppended
<1> HIDE DEF g, l
<1> SUFFICES ASSUME NEW i \in DOMAIN g, NEW j \in DOMAIN g, i < j
             PROVE  g[i].last < g[j].first
  BY DEF Ordered, g
<1>2. CASE i \in DOMAIN f /\ j \in DOMAIN f
  BY <1>1, <1>2 DEF Ordered
<1>3. CASE i \in DOMAIN f /\ j = l
  BY <1>1, <1>3 DEF AllBefore
<1>4. CASE i = l /\ j \in DOMAIN f
  BY <1>1, <1>4
<1>5. CASE i = l /\ j = l
  <2>1. l \in Int
    BY LenProperties DEF l
  <2> QED BY <2>1, <1>5
<1> QED BY <1>1, <1>2, <1>3, <1>4, <1>5

LEMMA OrderAppend ==
  ASSUME NEW F \in Files, NEW c \in Seg, InOrder(F, c), NEW x \in Line,
         \A i \in Seg : AllBefore(F[i], x.first)
  PROVE  InOrder([F EXCEPT ![c] = Append(@, x)], c)
<1> DEFINE G == [F EXCEPT ![c] = Append(@, x)]
           f == F[c]
<1>1. f \in Seq(Line)
  BY DEF Files
<1>2. /\ \A i \in Seg : i # c => G[i] = F[i]
      /\ G[c] = Append(f, x)
  BY DEF Files
<1> HIDE DEF G
<1>3. Ordered(G[c])
  <2>1. Ordered(f) /\ AllBefore(f, x.first)
    BY DEF InOrder
  <2> HIDE DEF f
  <2>2. Ordered(Append(f, x))
    BY <2>1, <1>1, OrderedAppend
  <2> QED BY <2>2, <1>2
<1>4. \A i \in Seg : Ordered(G[i])
  BY <1>2, <1>3 DEF InOrder
<1>5. ASSUME NEW i \in Seg, NEW j \in Seg, Rank(c, i) < Rank(c, j)
      PROVE  Before(G[i], G[j])
  <2>1. i # c
    <3>1. Rank(c, j) \in 0..(Segments - 1) /\ (i = c => Rank(c, i) = Segments - 1)
      BY Ranks
    <3>2. Segments \in Nat
      BY SegFacts
    <3> QED BY <3>1, <3>2, <1>5
  <2>2. G[i] = F[i] /\ AllBefore(F[i], x.first) /\ Before(F[i], F[j])
    BY <1>2, <1>5, <2>1 DEF InOrder
  <2>3. CASE j # c
    BY <1>2, <2>2, <2>3
  <2>4. CASE j = c
    <3> DEFINE g == Append(f, x)
               l == Len(f) + 1
    <3>1. /\ DOMAIN g = DOMAIN f \cup {l} /\ g[l] = x
          /\ \A k \in DOMAIN f : g[k] = f[k]
      BY <1>1, LineAppended
    <3>2. Before(F[i], f)
      BY <2>2, <2>4
    <3> HIDE DEF g, f, l
    <3>3. Before(F[i], g)
      BY <2>2, <3>1, <3>2 DEF Before, AllBefore
    <3> QED BY <2>2, <3>3, <1>2, <2>4 DEF g
  <2> QED BY <2>3, <2>4
<1> QED BY <1>4, <1>5 DEF InOrder, G

LEMMA OrderCut ==
  ASSUME NEW F, NEW G, NEW c \in Seg, InOrder(F, c),
         \A i \in Seg : G[i] = F[i] \/ G[i] = <<>>
  PROVE  InOrder(G, c)
<1>1. \A i \in Seg : Ordered(G[i])
  BY NoLines DEF InOrder
<1>2. \A i, j \in Seg : Rank(c, i) < Rank(c, j) => Before(G[i], G[j])
  <2> SUFFICES ASSUME NEW i \in Seg, NEW j \in Seg, Rank(c, i) < Rank(c, j)
               PROVE  Before(G[i], G[j])
    OBVIOUS
  <2>1. Before(F[i], F[j])
    BY DEF InOrder
  <2>2. CASE G[i] = F[i] /\ G[j] = F[j]
    BY <2>1, <2>2
  <2>3. CASE G[i] = <<>> \/ G[j] = <<>>
    BY <2>3, NoLines
  <2> QED BY <2>2, <2>3
<1> QED BY <1>1, <1>2 DEF InOrder

LEMMA OrderTurn ==
  ASSUME NEW F, NEW c \in Seg, InOrder(F, c), F[Next1(c)] = <<>>
  PROVE  InOrder(F, Next1(c))
<1> DEFINE o == Next1(c)
<1>1. \A i \in Seg : Rank(c, i) \in 0..(Segments - 1) /\ Segments \in Nat
  BY Ranks, SegFacts
<1>2. \A i \in Seg : Rank(o, i) = IF i = o THEN Segments - 1 ELSE Rank(c, i) - 1
  BY RankTurns
<1> SUFFICES ASSUME NEW i \in Seg, NEW j \in Seg, Rank(o, i) < Rank(o, j)
             PROVE  Before(F[i], F[j])
  BY DEF InOrder
<1>3. CASE i = o \/ j = o
  BY <1>3, NoLines
<1>4. CASE i # o /\ j # o
  <2>1. Rank(c, i) < Rank(c, j)
    BY <1>1, <1>2, <1>4
  <2> QED BY <2>1 DEF InOrder
<1> QED BY <1>3, <1>4

-----------------------------------------------------------------------------
(***************************************************************************)
(* What is written and what has been read is past.                         *)
(***************************************************************************)
LEMMA PastLater ==
  ASSUME NEW F \in Files, NEW got \in Seq(Line), NEW W \in SUBSET Int,
         NEW U \in SUBSET Int, PastOnly(F, got, W), \A u \in U : \E v \in W : v <= u
  PROVE  PastOnly(F, got, U)
<1> SUFFICES ASSUME NEW u \in U
             PROVE  AllBefore(got, u) /\ \A i \in Seg : AllBefore(F[i], u)
  BY DEF PastOnly
<1>1. PICK v \in W : v <= u
  OBVIOUS
<1>2. AllBefore(got, v) /\ \A i \in Seg : AllBefore(F[i], v)
  BY DEF PastOnly
<1>3. ASSUME NEW f \in Seq(Line), AllBefore(f, v)
      PROVE  AllBefore(f, u)
  <2> SUFFICES ASSUME NEW k \in DOMAIN f
               PROVE  f[k].last < u
    BY DEF AllBefore
  <2>1. f[k].last \in Int /\ f[k].last < v
    BY <1>3, FileLine DEF AllBefore
  <2> QED BY <2>1, <1>1
<1>4. \A i \in Seg : F[i] \in Seq(Line)
  BY DEF Files
<1> QED BY <1>2, <1>3, <1>4

LEMMA PastCut ==
  ASSUME NEW F, NEW G, NEW got, NEW W, PastOnly(F, got, W),
         \A i \in Seg : G[i] = F[i] \/ G[i] = <<>>
  PROVE  PastOnly(G, got, W) /\ PastOnly(G, <<>>, W)
<1>1. \A u \in W : \A i \in Seg : AllBefore(G[i], u)
  BY NoLines DEF PastOnly
<1> QED BY <1>1, NoLines DEF PastOnly

LEMMA PastAppend ==
  ASSUME NEW F \in Files, NEW got, NEW W, PastOnly(F, got, W),
         NEW c \in Seg, NEW x \in Line, \A u \in W : x.last < u
  PROVE  PastOnly([F EXCEPT ![c] = Append(@, x)], got, W)
<1> DEFINE G == [F EXCEPT ![c] = Append(@, x)]
           f == F[c]
<1>1. f \in Seq(Line)
  BY DEF Files
<1>2. /\ \A i \in Seg : i # c => G[i] = F[i]
      /\ G[c] = Append(f, x)
  BY DEF Files
<1> HIDE DEF G
<1> SUFFICES ASSUME NEW u \in W, NEW i \in Seg
             PROVE  AllBefore(G[i], u)
  BY DEF PastOnly, G
<1>3. CASE i # c
  BY <1>2, <1>3 DEF PastOnly
<1>4. CASE i = c
  <2> DEFINE g == Append(f, x)
             l == Len(f) + 1
  <2>1. /\ DOMAIN g = DOMAIN f \cup {l} /\ g[l] = x
        /\ \A k \in DOMAIN f : g[k] = f[k]
    BY <1>1, LineAppended
  <2>2. AllBefore(f, u) /\ x.last < u
    BY DEF PastOnly
  <2> HIDE DEF g, f, l
  <2>3. AllBefore(g, u)
    BY <2>1, <2>2 DEF AllBefore
  <2> QED BY <2>3, <1>2, <1>4 DEF g
<1> QED BY <1>3, <1>4

LEMMA AppendedBefore ==
  ASSUME NEW f \in Seq(Line), NEW x \in Line, NEW u, AllBefore(f, u), x.last < u
  PROVE  AllBefore(Append(f, x), u)
<1> DEFINE g == Append(f, x)
           l == Len(f) + 1
<1>1. /\ DOMAIN g = DOMAIN f \cup {l} /\ g[l] = x
      /\ \A k \in DOMAIN f : g[k] = f[k]
  BY LineAppended
<1> HIDE DEF g, l
<1>2. AllBefore(g, u)
  BY <1>1 DEF AllBefore
<1> QED BY <1>2 DEF g

LEMMA PastRead ==
  ASSUME NEW F \in Files, NEW got \in Seq(Line), NEW W, PastOnly(F, got, W),
         NEW c \in Seg, NEW k \in DOMAIN F[c]
  PROVE  PastOnly(F, Append(got, F[c][k]), W)
<1> DEFINE x == F[c][k]
<1>1. x \in Line
  BY FileLine DEF Files
<1>2. \A u \in W : AllBefore(got, u) /\ x.last < u
  BY DEF PastOnly, AllBefore
<1> HIDE DEF x
<1>3. \A u \in W : AllBefore(Append(got, x), u)
  BY <1>1, <1>2, AppendedBefore
<1> QED BY <1>3 DEF PastOnly, x

-----------------------------------------------------------------------------
(***************************************************************************)
(* The download.                                                           *)
(***************************************************************************)
LEMMA ReadNothing ==
  ASSUME NEW F, NEW c, NEW r, r.got = <<>>, r.at # "in"
  PROVE  ReadInOrder(F, c, r)
BY NoLines DEF ReadInOrder

LEMMA ReadCut ==
  ASSUME NEW F, NEW G, NEW c, NEW r, NEW q, ReadInOrder(F, c, r),
         \A i \in Seg : G[i] = F[i] \/ G[i] = <<>>,
         q.got = r.got, q.age = r.age,
         q.at = "in" /\ ~q.gone => /\ r.at = "in" /\ ~r.gone /\ q.pos = r.pos
                                  /\ q.cur = r.cur /\ G[r.cur] = F[r.cur]
  PROVE  ReadInOrder(G, c, q)
<1>1. \A i \in Seg : Rank(c, i) >= q.age => Before(q.got, G[i])
  BY NoLines DEF ReadInOrder
<1>2. Ordered(q.got)
  BY DEF ReadInOrder
<1>3. q.at = "in" /\ ~q.gone => Reading(G, c, q)
  BY DEF ReadInOrder, Reading
<1> QED BY <1>1, <1>2, <1>3 DEF ReadInOrder

LEMMA ReadAppend ==
  ASSUME NEW F \in Files, NEW c \in Seg, NEW r \in Reads, ReadInOrder(F, c, r),
         NEW x \in Line, AllBefore(r.got, x.first)
  PROVE  ReadInOrder([F EXCEPT ![c] = Append(@, x)], c, r)
<1> DEFINE G == [F EXCEPT ![c] = Append(@, x)]
           f == F[c]
           g == Append(f, x)
           l == Len(f) + 1
<1>1. f \in Seq(Line)
  BY DEF Files
<1>2. /\ \A i \in Seg : i # c => G[i] = F[i]
      /\ G[c] = g
  BY DEF Files
<1>3. /\ DOMAIN g = DOMAIN f \cup {l} /\ g[l] = x /\ Len(g) = Len(f) + 1 /\ Len(f) \in Nat
      /\ \A k \in DOMAIN f : g[k] = f[k]
  BY <1>1, LineAppended
<1>4. r.pos \in Nat /\ r.cur \in Seg
  BY DEF Reads
<1> HIDE DEF G, g, l
<1>5. ASSUME NEW i \in Seg, Rank(c, i) >= r.age
      PROVE  Before(r.got, G[i])
  <2>1. Before(r.got, F[i])
    BY <1>5 DEF ReadInOrder
  <2>2. CASE i # c
    BY <1>2, <2>1, <2>2
  <2>3. CASE i = c
    <3>1. Before(r.got, f)
      BY <2>1, <2>3
    <3> HIDE DEF f
    <3>2. Before(r.got, g)
      BY <3>1, <1>3 DEF Before, AllBefore
    <3> QED BY <3>2, <1>2, <2>3
  <2> QED BY <2>2, <2>3
<1>6. ASSUME r.at = "in", ~r.gone
      PROVE  Reading(G, c, r)
  <2>1. Reading(F, c, r)
    BY <1>6 DEF ReadInOrder
  <2>2. CASE r.cur # c
    BY <1>2, <1>4, <2>1, <2>2 DEF Reading
  <2>3. CASE r.cur = c
    <3>1. /\ r.pos <= Len(f) /\ Rank(c, c) < r.age
          /\ \A k \in DOMAIN r.got, y \in DOMAIN f : r.pos < y => r.got[k].last < f[y].first
      BY <2>1, <2>3 DEF Reading
    <3> HIDE DEF f
    <3>2. r.pos <= Len(g)
      BY <3>1, <1>3, <1>4
    <3>3. g # <<>>
      BY <1>3, NoLines
    <3>4. \A k \in DOMAIN r.got, y \in DOMAIN g : r.pos < y => r.got[k].last < g[y].first
      BY <3>1, <1>3 DEF AllBefore
    <3> QED BY <3>1, <3>2, <3>3, <3>4, <1>2, <2>3 DEF Reading
  <2> QED BY <2>2, <2>3
<1> QED BY <1>5, <1>6 DEF ReadInOrder, G

LEMMA ReadTurn ==
  ASSUME NEW F, NEW c \in Seg, NEW r \in Reads, ReadInOrder(F, c, r), F[Next1(c)] = <<>>
  PROVE  ReadInOrder(F, Next1(c), r)
<1> DEFINE o == Next1(c)
<1>1. \A i \in Seg : Rank(c, i) \in 0..(Segments - 1) /\ Segments \in Nat
  BY Ranks, SegFacts
<1>2. \A i \in Seg : Rank(o, i) = IF i = o THEN Segments - 1 ELSE Rank(c, i) - 1
  BY RankTurns
<1>3. r.age \in Nat /\ r.cur \in Seg
  BY SegFacts DEF Reads
<1>4. ASSUME NEW i \in Seg, Rank(o, i) >= r.age
      PROVE  Before(r.got, F[i])
  <2>1. CASE i = o
    BY <2>1, NoLines
  <2>2. CASE i # o
    <3>1. Rank(c, i) >= r.age
      BY <1>1, <1>2, <1>3, <1>4, <2>2
    <3> QED BY <3>1 DEF ReadInOrder
  <2> QED BY <2>1, <2>2
<1>5. ASSUME r.at = "in", ~r.gone
      PROVE  Reading(F, o, r)
  <2>1. Reading(F, c, r)
    BY <1>5 DEF ReadInOrder
  <2>2. r.cur # o
    BY <2>1 DEF Reading
  <2>3. Rank(o, r.cur) < r.age
    <3>1. Rank(c, r.cur) < r.age
      BY <2>1 DEF Reading
    <3>2. Rank(o, r.cur) = Rank(c, r.cur) - 1
      BY <1>2, <1>3, <2>2
    <3> QED BY <3>1, <3>2, <1>1, <1>3
  <2> QED BY <2>1, <2>3 DEF Reading
<1> QED BY <1>4, <1>5 DEF ReadInOrder

LEMMA ReadOpened ==
  ASSUME NEW F \in Files, NEW c \in Seg, NEW r \in Reads, ReadInOrder(F, c, r),
         NEW i \in Seg, Rank(c, i) = r.age,
         NEW q, q.got = r.got, q.age = r.age + 1,
         q.at = "in" /\ ~q.gone => q.cur = i /\ q.pos = 0 /\ F[i] # <<>>
  PROVE  ReadInOrder(F, c, q)
<1>1. \A j \in Seg : Rank(c, j) \in Nat
  BY Ranks, SegFacts
<1>2. r.age \in Nat
  BY SegFacts DEF Reads
<1>3. \A j \in Seg : Rank(c, j) >= q.age => Before(q.got, F[j])
  BY <1>1, <1>2 DEF ReadInOrder
<1>4. ASSUME q.at = "in", ~q.gone
      PROVE  Reading(F, c, q)
  <2>1. q.cur = i /\ q.pos = 0 /\ F[i] # <<>> /\ Len(F[i]) \in Nat
    BY <1>4, LenProperties DEF Files
  <2>2. Before(r.got, F[i])
    BY <1>2 DEF ReadInOrder
  <2>3. Rank(c, i) < q.age
    BY <1>2
  <2> QED BY <2>1, <2>2, <2>3 DEF Reading, Before
<1> QED BY <1>3, <1>4 DEF ReadInOrder

LEMMA ReadOn ==
  ASSUME NEW F \in Files, NEW c \in Seg, NEW r \in Reads, ReadInOrder(F, c, r),
         InOrder(F, c), r.at = "in", ~r.gone, r.pos < Len(F[r.cur]),
         NEW q, q.got = Append(r.got, F[r.cur][r.pos + 1]), q.age = r.age,
         q.pos = r.pos + 1, q.cur = r.cur
  PROVE  ReadInOrder(F, c, q)
<1> DEFINE f == F[r.cur]
           l == r.pos + 1
           x == f[l]
           got == r.got
           new == Append(got, x)
           m == Len(got) + 1
<1>1. r.cur \in Seg /\ r.pos \in Nat /\ got \in Seq(Line) /\ r.age \in Nat
  BY SegFacts DEF Reads
<1>2. f \in Seq(Line) /\ Len(f) \in Nat /\ DOMAIN f = 1..Len(f)
  BY <1>1, LenProperties DEF Files
<1>3. l \in DOMAIN f
  BY <1>1, <1>2
<1>4. x \in Line
  BY <1>2, <1>3, FileLine
<1>5. Reading(F, c, r)
  BY DEF ReadInOrder
<1>6. AllBefore(got, x.first)
  BY <1>1, <1>3, <1>5 DEF Reading, AllBefore
<1>7. Ordered(got)
  BY DEF ReadInOrder
<1>8. Ordered(f)
  BY <1>1 DEF InOrder
<1>9. q.got = new
  OBVIOUS
<1>10. \A y \in DOMAIN f : q.pos < y => x.last < f[y].first
  <2> TAKE y \in DOMAIN f
  <2> HAVE q.pos < y
  <2>1. l < y
    OBVIOUS
  <2> HIDE DEF f, l
  <2>2. f[l].last < f[y].first
    BY <2>1, <1>3, <1>8 DEF Ordered
  <2> QED BY <2>2
<1>11. \A k \in DOMAIN got, y \in DOMAIN f : r.pos < y => got[k].last < f[y].first
  BY <1>5 DEF Reading
<1>12. \A j \in Seg : Rank(c, j) >= r.age => \A y \in DOMAIN F[j] : x.last < F[j][y].first
  <2> TAKE j \in Seg
  <2> HAVE Rank(c, j) >= r.age
  <2>1. Rank(c, r.cur) < Rank(c, j)
    <3>1. Rank(c, r.cur) < r.age /\ Rank(c, r.cur) \in Int /\ Rank(c, j) \in Int
      BY <1>1, <1>5, Ranks DEF Reading
    <3> QED BY <3>1, <1>1
  <2>2. Before(f, F[j])
    BY <2>1, <1>1 DEF InOrder
  <2> QED BY <2>2, <1>3 DEF Before
<1>13. \A j \in Seg : Rank(c, j) >= r.age => Before(got, F[j])
  BY DEF ReadInOrder
<1>14. /\ DOMAIN new = DOMAIN got \cup {m} /\ new[m] = x
       /\ \A k \in DOMAIN got : new[k] = got[k]
  <2> HIDE DEF x, got
  <2> QED BY <1>1, <1>4, LineAppended
<1>15. Ordered(new)
  <2> HIDE DEF x, got
  <2> QED BY <1>1, <1>4, <1>6, <1>7, OrderedAppend
<1>16. r.pos + 1 <= Len(f) /\ f # <<>> /\ Rank(c, r.cur) < r.age
  BY <1>1, <1>2, <1>5 DEF Reading
<1>17. \A y \in DOMAIN f : q.pos < y => y \in Int /\ r.pos < y
  BY <1>1, <1>2
<1> HIDE DEF f, x, got, new, m
<1>18. \A j \in Seg : Rank(c, j) >= q.age => Before(q.got, F[j])
  BY <1>9, <1>12, <1>13, <1>14 DEF Before
<1>19. \A k \in DOMAIN new, y \in DOMAIN f : q.pos < y => new[k].last < f[y].first
  BY <1>10, <1>11, <1>14, <1>17
<1>20. Reading(F, c, q)
  BY <1>9, <1>16, <1>19 DEF Reading, f
<1> QED BY <1>9, <1>15, <1>18, <1>20 DEF ReadInOrder

-----------------------------------------------------------------------------
(***************************************************************************)
(* What the lines stand for.                                               *)
(***************************************************************************)
LEMMA CoversIs ==
  ASSUME NEW x \in Line
  PROVE  Covers(x) = CoverOf(x, sent, lost)
<1>1. x.first \in Int
  BY LineFields
<1> QED BY <1>1 DEF Covers, CoverOf

LEMMA CoverLost ==
  ASSUME NEW x, NEW s, NEW l, NEW m, l \subseteq m, \A n \in CoverOf(x, s, l) : n \notin m
  PROVE  CoverOf(x, s, m) = CoverOf(x, s, l)
BY DEF CoverOf

LEMMA CoverGrown ==
  ASSUME NEW x \in Line, NEW W, NEW s \in Seq(W), NEW b \in W, NEW l, x.last <= Len(s)
  PROVE  CoverOf(x, Append(s, b), l) = CoverOf(x, s, l)
<1>1. x.first \in Int /\ x.last \in Int /\ Len(s) \in Nat
  BY LineFields, LenProperties
<1>2. \A n \in x.first..x.last : x.first >= 1 => n \in 1..Len(s)
  BY <1>1
<1>3. \A n \in 1..Len(s) : Append(s, b)[n] = s[n]
  BY AppendProperties
<1> QED BY <1>2, <1>3 DEF CoverOf

LEMMA CoverRange ==
  ASSUME NEW x \in Line, NEW s, NEW l, NEW n \in CoverOf(x, s, l)
  PROVE  n \in Nat /\ x.first >= 1 /\ x.first <= n /\ n <= x.last /\ s[n] = x.body /\ n \notin l
BY LineFields DEF CoverOf

LEMMA ExactLost ==
  ASSUME NEW F, NEW r, NEW s, NEW l, AllExact(F, r, s, l), NEW m, l \subseteq m,
         \A i \in Seg : \A k \in DOMAIN F[i] : \A n \in CoverOf(F[i][k], s, l) : n \notin m,
         r.count > 0 => \A n \in CoverOf(r, s, l) : n \notin m
  PROVE  AllExact(F, r, s, m)
<1>1. ASSUME NEW i \in Seg, NEW k \in DOMAIN F[i]
      PROVE  Exact(F[i][k], s, m)
  <2> DEFINE x == F[i][k]
  <2>1. Exact(x, s, l) /\ \A n \in CoverOf(x, s, l) : n \notin m
    BY DEF AllExact
  <2> HIDE DEF x
  <2>2. CoverOf(x, s, m) = CoverOf(x, s, l)
    BY <2>1, CoverLost
  <2>3. Exact(x, s, m)
    BY <2>1, <2>2 DEF Exact
  <2> QED BY <2>3 DEF x
<1>2. Exact(r, s, m)
  <2>1. CASE r.count > 0
    <3>1. CoverOf(r, s, m) = CoverOf(r, s, l)
      BY <2>1, CoverLost
    <3> QED BY <3>1 DEF Exact, AllExact
  <2>2. CASE ~(r.count > 0)
    BY <2>2 DEF Exact
  <2> QED BY <2>1, <2>2
<1> QED BY <1>1, <1>2 DEF AllExact

LEMMA ExactCut ==
  ASSUME NEW F, NEW G, NEW r, NEW q, NEW s, NEW l, AllExact(F, r, s, l), Exact(q, s, l),
         \A i \in Seg : G[i] = F[i] \/ G[i] = <<>>
  PROVE  AllExact(G, q, s, l)
<1> SUFFICES ASSUME NEW i \in Seg, NEW k \in DOMAIN G[i]
             PROVE  Exact(G[i][k], s, l)
  BY DEF AllExact
<1>1. G[i] = F[i]
  BY NoLines
<1> QED BY <1>1 DEF AllExact

LEMMA ExactAppend ==
  ASSUME NEW F \in Files, NEW r, NEW s, NEW l, AllExact(F, r, s, l), NEW q, Exact(q, s, l),
         NEW c \in Seg, NEW x \in Line, Exact(x, s, l)
  PROVE  AllExact([F EXCEPT ![c] = Append(@, x)], q, s, l)
<1> DEFINE G == [F EXCEPT ![c] = Append(@, x)]
           f == F[c]
           g == Append(f, x)
           o == Len(f) + 1
<1>1. f \in Seq(Line)
  BY DEF Files
<1>2. (\A j \in Seg : j # c => G[j] = F[j]) /\ G[c] = g
  BY DEF Files
<1>3. DOMAIN g = DOMAIN f \cup {o} /\ g[o] = x /\ \A k \in DOMAIN f : g[k] = f[k]
  BY <1>1, LineAppended
<1>4. \A k \in DOMAIN f : Exact(f[k], s, l)
  BY DEF AllExact
<1> HIDE DEF G, f, g, o
<1>5. \A k \in DOMAIN g : Exact(g[k], s, l)
  BY <1>3, <1>4
<1>6. \A i \in Seg : \A k \in DOMAIN G[i] : Exact(G[i][k], s, l)
  BY <1>2, <1>5 DEF AllExact
<1> QED BY <1>6 DEF AllExact, G

LEMMA StoredAppend ==
  ASSUME NEW F \in Files, NEW s, NEW l, NEW c \in Seg, NEW x \in Line, NEW n,
         StoredIn(n, F, s, l) \/ n \in CoverOf(x, s, l)
  PROVE  StoredIn(n, [F EXCEPT ![c] = Append(@, x)], s, l)
<1> DEFINE G == [F EXCEPT ![c] = Append(@, x)]
           f == F[c]
           g == Append(f, x)
           o == Len(f) + 1
<1>1. f \in Seq(Line)
  BY DEF Files
<1>2. (\A j \in Seg : j # c => G[j] = F[j]) /\ G[c] = g
  BY DEF Files
<1>3. DOMAIN g = DOMAIN f \cup {o} /\ g[o] = x /\ \A k \in DOMAIN f : g[k] = f[k]
  BY <1>1, LineAppended
<1> HIDE DEF G, g, o
<1>4. CASE n \in CoverOf(x, s, l)
  <2>1. o \in DOMAIN G[c] /\ G[c][o] = x
    BY <1>2, <1>3
  <2> QED BY <2>1, <1>4 DEF StoredIn, G
<1>5. CASE StoredIn(n, F, s, l)
  <2>1. PICK i \in Seg : \E k \in DOMAIN F[i] : n \in CoverOf(F[i][k], s, l)
    BY <1>5 DEF StoredIn
  <2>3. PICK k \in DOMAIN F[i] : n \in CoverOf(F[i][k], s, l)
    BY <2>1
  <2>2. k \in DOMAIN G[i] /\ G[i][k] = F[i][k]
    BY <1>2, <1>3
  <2> QED BY <2>2, <2>3 DEF StoredIn, G
<1> QED BY <1>4, <1>5

-----------------------------------------------------------------------------
(***************************************************************************)
(* The steps, and what each does to the order.                             *)
(***************************************************************************)
LEMMA ToComeIs ==
  ASSUME NEW u
  PROVE  u \in ToCome <=> \/ (run.count > 0 /\ u = run.first)
                         \/ (writer.n # 0 /\ u = writer.n)
                         \/ (\E j \in DOMAIN queue : u = queue[j])
                         \/ u = Len(sent) + 1
BY DEF ToCome, InHand, ToSet

LEMMA ToComeWillBe ==
  ASSUME NEW u
  PROVE  u \in ToCome' <=> \/ (run'.count > 0 /\ u = run'.first)
                          \/ (writer'.n # 0 /\ u = writer'.n)
                          \/ (\E j \in DOMAIN queue' : u = queue'[j])
                          \/ u = Len(sent') + 1
BY DEF ToCome, InHand, ToSet

LEMMA StateFacts ==
  ASSUME OrderIInv
  PROVE  /\ files \in Files /\ Len(sent) \in Nat /\ DOMAIN sent = 1..Len(sent)
         /\ run.first \in Int /\ run.last \in Int /\ run.count \in Nat
         /\ run.body \in Bodies \cup {Nobody}
         /\ writer.at \in WriterPlaces /\ writer.n \in Nat
         /\ writer = [at |-> writer.at, n |-> writer.n]
         /\ DOMAIN queue = 1..Len(queue) /\ Len(queue) \in Nat
         /\ \A j \in DOMAIN queue : queue[j] \in Nat
         /\ rd.at \in {"idle", "between", "in"} /\ rd.age \in 0..Segments /\ rd.cur \in Seg
         /\ rd.pos \in Nat /\ rd.gone \in BOOLEAN /\ rd.got \in Seq(Line)
         /\ ToCome \in SUBSET Int
<1>1. LogTypes
  BY DEF OrderIInv
<1>2. files \in Files /\ Len(sent) \in Nat /\ DOMAIN sent = 1..Len(sent)
  BY <1>1, LenProperties DEF LogTypes, Files
<1>3. run.first \in Int /\ run.last \in Int /\ run.count \in Nat
      /\ run.body \in Bodies \cup {Nobody}
  BY <1>1, LineFields DEF LogTypes
<1>4. writer.at \in WriterPlaces /\ writer.n \in Nat /\ writer = [at |-> writer.at, n |-> writer.n]
  BY <1>1 DEF LogTypes
<1>5. DOMAIN queue = 1..Len(queue) /\ Len(queue) \in Nat /\ \A j \in DOMAIN queue : queue[j] \in Nat
  BY <1>1, LenProperties, ElementOfSeq DEF LogTypes
<1>6. /\ rd.at \in {"idle", "between", "in"} /\ rd.age \in 0..Segments /\ rd.cur \in Seg
      /\ rd.pos \in Nat /\ rd.gone \in BOOLEAN /\ rd.got \in Seq(Line)
  BY <1>1 DEF LogTypes, Reads
<1>7. ToCome \in SUBSET Int
  <2> SUFFICES ASSUME NEW u \in ToCome PROVE u \in Int
    OBVIOUS
  <2> QED BY <1>2, <1>3, <1>4, <1>5, ToComeIs
<1> QED BY <1>1, <1>2, <1>3, <1>4, <1>5, <1>6, <1>7 DEF LogTypes, Files

\* A step of the download alone.
LEMMA ReaderOnly ==
  ASSUME OrderIInv, UNCHANGED <<flash, s_ready, seg, run, queue, writer, history>>,
         rd' \in Reads, rd'.at # "idle" => s_ready, rd'.at = "idle" => rd'.got = <<>>,
         PastOnly(files, rd'.got, ToCome), ReadInOrder(files, nvsSeg, rd')
  PROVE  OrderIInv'
<1>1. UNCHANGED <<files, legacy, nvsSeg, s_ready, seg, run, queue, writer, sent, lost>>
  BY DEF flash, history
<1>2. LogTypes'
  BY <1>1 DEF OrderIInv, LogTypes
<1>3. Mounted'
  BY <1>1 DEF OrderIInv, Mounted, Locked, Oldest
<1>4. Flow'
  BY <1>1 DEF OrderIInv, Flow, InHand, OnItsWay
<1>5. Ordered(legacy)' /\ OldOnes'
  BY <1>1 DEF OrderIInv, OldOnes, Ordered
<1>6. ToCome' = ToCome
  BY <1>1 DEF ToCome, InHand
<1>7. PastOnly(files, rd.got, ToCome)' /\ InOrder(files, nvsSeg)'
      /\ ReadInOrder(files, nvsSeg, rd)'
  <2>1. InOrder(files, nvsSeg)
    BY DEF OrderIInv
  <2> QED BY <1>1, <1>6, <2>1
<1>8. NoneForgotten'
  BY <1>1 DEF OrderIInv, NoneForgotten
<1>9. AllExact(files, run, sent, lost)'
  BY <1>1 DEF OrderIInv
<1> QED BY <1>2, <1>3, <1>4, <1>5, <1>7, <1>8, <1>9 DEF OrderIInv

LEMMA OpenSegmentKeeps ==
  ASSUME OrderIInv, OpenSegment
  PROVE  OrderIInv'
<1> DEFINE i == ReadSegment
           a == rd.age + 1
           q == [rd EXCEPT !.age = @ + 1, !.at = "in", !.cur = i, !.pos = 0, !.gone = FALSE]
           p == [rd EXCEPT !.age = @ + 1]
<1>1. /\ rd.at = "between" /\ rd.age < Segments /\ rd.age \in 0..Segments /\ rd \in Reads
      /\ files \in Files /\ nvsSeg \in Seg /\ s_ready /\ seg = nvsSeg /\ Segments \in Nat
  BY StateFacts, SegFacts DEF OpenSegment, OrderIInv, LogTypes, Mounted
<1>2. i \in Seg /\ Rank(nvsSeg, i) = rd.age
  <2>1. rd.age \in 0..(Segments - 1)
    BY <1>1
  <2> QED BY <2>1, <1>1, SegAtIs DEF ReadSegment
<1>3. a \in 0..Segments
  BY <1>1
<1>4. (rd' = p /\ files[i] = <<>>) \/ (rd' = q /\ files[i] # <<>>)
  BY DEF OpenSegment
<1> HIDE DEF i
<1>5. /\ p \in Reads /\ p.got = rd.got /\ p.age = a /\ p.at = "between"
      /\ q \in Reads /\ q.got = rd.got /\ q.age = a /\ q.at = "in" /\ q.cur = i /\ q.pos = 0
  BY <1>1, <1>2, <1>3 DEF Reads
<1> HIDE DEF p, q
<1>6. ReadInOrder(files, nvsSeg, rd')
  <2>1. ReadInOrder(files, nvsSeg, rd)
    BY DEF OrderIInv
  <2>2. rd'.got = rd.got /\ rd'.age = rd.age + 1
    BY <1>4, <1>5
  <2>3. rd'.at = "in" /\ ~rd'.gone => rd'.cur = i /\ rd'.pos = 0 /\ files[i] # <<>>
    BY <1>4, <1>5
  <2> QED BY <2>1, <2>2, <2>3, <1>1, <1>2, ReadOpened
<1>7. PastOnly(files, rd'.got, ToCome)
  BY <1>4, <1>5 DEF OrderIInv
<1>8. rd' \in Reads /\ rd'.at # "idle" /\ s_ready
  BY <1>1, <1>4, <1>5
<1>9. UNCHANGED <<flash, s_ready, seg, run, queue, writer, history>>
  BY DEF OpenSegment, state
<1> QED BY <1>6, <1>7, <1>8, <1>9, ReaderOnly

LEMMA ReadLineKeeps ==
  ASSUME OrderIInv, ReadLine
  PROVE  OrderIInv'
<1> DEFINE c == rd.cur
           l == rd.pos + 1
           x == files[c][l]
           g == Append(rd.got, x)
           q == [rd EXCEPT !.pos = @ + 1, !.got = g]
<1>1. /\ rd.at = "in" /\ ~rd.gone /\ rd.pos < Len(files[c]) /\ rd \in Reads /\ rd.pos \in Nat
      /\ files \in Files /\ nvsSeg \in Seg /\ s_ready /\ c \in Seg /\ rd.got \in Seq(Line)
  BY StateFacts DEF ReadLine, OrderIInv, LogTypes, Mounted
<1>2. files[c] \in Seq(Line) /\ Len(files[c]) \in Nat /\ DOMAIN files[c] = 1..Len(files[c])
  BY <1>1, LenProperties DEF Files
<1>3. l \in DOMAIN files[c]
  BY <1>1, <1>2
<1>4. x \in Line
  BY <1>2, <1>3, FileLine
<1>5. g \in Seq(Line)
  <2> HIDE DEF x
  <2> QED BY <1>1, <1>4, LineAppended
<1>6. rd' = q
  BY DEF ReadLine
<1>7. PastOnly(files, g, ToCome)
  BY <1>1, <1>3, PastRead DEF OrderIInv
<1> HIDE DEF g
<1>8. /\ q \in Reads /\ q.got = g /\ q.age = rd.age /\ q.at = "in" /\ q.cur = c /\ q.pos = rd.pos + 1
  <2>1. l \in Nat /\ q = [rd EXCEPT !.pos = l, !.got = g]
    BY <1>1
  <2> HIDE DEF l, q, x
  <2>2. q \in Reads /\ q.got = g /\ q.pos = l
    BY <1>1, <1>5, <2>1 DEF Reads
  <2>3. q.age = rd.age /\ q.at = rd.at /\ q.cur = rd.cur
    BY <2>1, <1>1 DEF Reads
  <2> QED BY <2>2, <2>3, <1>1 DEF l
<1> HIDE DEF q
<1>9. ReadInOrder(files, nvsSeg, q)
  <2>1. ReadInOrder(files, nvsSeg, rd) /\ InOrder(files, nvsSeg)
    BY DEF OrderIInv
  <2>2. q.got = Append(rd.got, files[rd.cur][rd.pos + 1])
    BY <1>8 DEF g
  <2> QED BY <2>1, <2>2, <1>1, <1>8, ReadOn
<1>10. UNCHANGED <<flash, s_ready, seg, run, queue, writer, history>>
  BY DEF ReadLine, state
<1> QED BY <1>1, <1>6, <1>7, <1>8, <1>9, <1>10, ReaderOnly

LEMMA EndOfSegmentKeeps ==
  ASSUME OrderIInv, EndOfSegment
  PROVE  OrderIInv'
<1> DEFINE q == [rd EXCEPT !.at = "between", !.cur = 0, !.pos = 0, !.gone = FALSE]
<1>1. rd.at = "in" /\ rd \in Reads /\ s_ready
  BY DEF EndOfSegment, OrderIInv, LogTypes, Mounted
<1>2. q \in Reads /\ q.got = rd.got /\ q.age = rd.age /\ q.at = "between"
  <2>1. 0 \in Seg
    BY SegFacts
  <2> QED BY <1>1, <2>1 DEF Reads
<1>3. rd' = q
  BY DEF EndOfSegment
<1> HIDE DEF q
<1>4. ReadInOrder(files, nvsSeg, q)
  BY <1>2 DEF OrderIInv, ReadInOrder
<1>5. PastOnly(files, q.got, ToCome)
  BY <1>2 DEF OrderIInv
<1>6. UNCHANGED <<flash, s_ready, seg, run, queue, writer, history>>
  BY DEF EndOfSegment, state
<1> QED BY <1>1, <1>2, <1>3, <1>4, <1>5, <1>6, ReaderOnly

LEMMA NoReadFacts ==
  NoRead \in Reads /\ NoRead.got = <<>> /\ NoRead.at = "idle"
<1>1. 0 \in Seg /\ 0 \in 0..Segments
  BY SegFacts
<1> QED BY <1>1, NoLines DEF NoRead, Reads

LEMMA CloseDownloadKeeps ==
  ASSUME OrderIInv, CloseDownload
  PROVE  OrderIInv'
<1>1. rd' = NoRead
  BY DEF CloseDownload
<1>2. ReadInOrder(files, nvsSeg, rd')
  BY <1>1, NoReadFacts, ReadNothing
<1>3. PastOnly(files, rd'.got, ToCome)
  BY <1>1, NoReadFacts, PastCut DEF OrderIInv
<1>4. UNCHANGED <<flash, s_ready, seg, run, queue, writer, history>>
  BY DEF CloseDownload, state
<1> QED BY <1>1, <1>2, <1>3, <1>4, NoReadFacts, ReaderOnly

\* The files and the download stay as they are.
LEMMA FilesStay ==
  ASSUME OrderIInv, UNCHANGED <<files, legacy, nvsSeg, rd>>,
         \A u \in ToCome' : u \in Int /\ \E v \in ToCome : v <= u
  PROVE  /\ Ordered(legacy)' /\ OldOnes' /\ PastOnly(files, rd.got, ToCome)'
         /\ InOrder(files, nvsSeg)' /\ ReadInOrder(files, nvsSeg, rd)'
<1>1. Ordered(legacy)' /\ OldOnes'
  BY DEF OrderIInv, OldOnes, Ordered
<1>2. InOrder(files, nvsSeg)' /\ ReadInOrder(files, nvsSeg, rd)'
  <2>1. InOrder(files, nvsSeg) /\ ReadInOrder(files, nvsSeg, rd)
    BY DEF OrderIInv
  <2> QED BY <2>1
<1>3. PastOnly(files, rd.got, ToCome')
  <2>1. ToCome' \in SUBSET Int
    OBVIOUS
  <2>2. PastOnly(files, rd.got, ToCome)
    BY DEF OrderIInv
  <2> QED BY <2>1, <2>2, StateFacts, PastLater
<1>4. PastOnly(files, rd.got, ToCome)'
  BY <1>3
<1> QED BY <1>1, <1>2, <1>4

LEMMA LinesPast ==
  ASSUME OrderIInv, NEW i \in Seg, NEW k \in DOMAIN files[i]
  PROVE  files[i][k] \in Line /\ files[i][k].last <= Len(sent)
<1>1. files[i] \in Seq(Line)
  BY DEF OrderIInv, LogTypes
<1>2. files[i][k] \in Line /\ files[i][k].last \in Int
  BY <1>1, FileLine
<1>3. Len(sent) + 1 \in ToCome /\ Len(sent) \in Nat
  BY ToComeIs, StateFacts
<1>4. files[i][k].last < Len(sent) + 1
  BY <1>3 DEF OrderIInv, PastOnly, AllBefore
<1> DEFINE x == files[i][k].last
<1>5. x \in Int /\ x < Len(sent) + 1
  BY <1>2, <1>4
<1> HIDE DEF x
<1>6. x <= Len(sent)
  BY <1>3, <1>5
<1> QED BY <1>2, <1>6 DEF x

LEMMA GrownCovers ==
  ASSUME OrderIInv, NEW b \in Bodies \cup {Dropped}
  PROVE  /\ \A i \in Seg : \A k \in DOMAIN files[i] :
              CoverOf(files[i][k], Append(sent, b), lost) = CoverOf(files[i][k], sent, lost)
         /\ run.count > 0 => CoverOf(run, Append(sent, b), lost) = CoverOf(run, sent, lost)
<1>1. sent \in Seq(Bodies \cup {Dropped}) /\ run \in Line
  BY DEF OrderIInv, LogTypes
<1>2. ASSUME NEW x \in Line, x.last <= Len(sent)
      PROVE  CoverOf(x, Append(sent, b), lost) = CoverOf(x, sent, lost)
  BY <1>1, <1>2, CoverGrown
<1>3. run.count > 0 => run.last <= Len(sent)
  BY DEF OrderIInv, Flow
<1> QED BY <1>1, <1>2, <1>3, LinesPast

LEMMA ArriveKeeps ==
  ASSUME OrderIInv, NEW b \in Bodies, Arrive(b)
  PROVE  OrderIInv'
<1> DEFINE N == Len(sent)
           y == IF Len(queue) < QueueLen THEN b ELSE Dropped
<1>1. /\ N \in Nat /\ sent \in Seq(Bodies \cup {Dropped}) /\ queue \in Seq(Nat)
      /\ DOMAIN queue = 1..Len(queue) /\ Len(queue) \in Nat
  BY StateFacts DEF OrderIInv, LogTypes
<1>2. /\ sent' = Append(sent, y) /\ y \in Bodies \cup {Dropped}
      /\ (queue' = Append(queue, N + 1) /\ y # Dropped) \/ (queue' = queue /\ y = Dropped)
  BY BodiesAssumption DEF Arrive
<1>3. UNCHANGED <<files, legacy, nvsSeg, s_ready, seg, run, writer, rd, lost>>
  BY DEF Arrive, flash, state
<1> HIDE DEF y
<1>4. /\ sent' \in Seq(Bodies \cup {Dropped}) /\ Len(sent') = N + 1
      /\ DOMAIN sent' = 1..(N + 1) /\ sent'[N + 1] = y
      /\ \A n \in 1..N : sent'[n] = sent[n]
  BY <1>1, <1>2, AppendProperties, LenProperties
<1>5. /\ queue' \in Seq(Nat)
      /\ \A j \in DOMAIN queue : j \in DOMAIN queue' /\ queue'[j] = queue[j]
      /\ \A j \in DOMAIN queue' : \/ j \in DOMAIN queue /\ queue'[j] = queue[j]
                                  \/ /\ j = Len(queue) + 1 /\ queue'[j] = N + 1 /\ y # Dropped
                                     /\ \A i \in DOMAIN queue : i < j
  <2>1. CASE queue' = queue
    BY <1>1, <2>1
  <2>2. CASE queue' = Append(queue, N + 1) /\ y # Dropped
    BY <1>1, <2>2, AppendProperties, LenProperties
  <2> QED BY <1>2, <2>1, <2>2
<1>6. LogTypes'
  <2>1. lost \subseteq DOMAIN sent'
    <3>1. lost \subseteq DOMAIN sent /\ DOMAIN sent = 1..N
      BY StateFacts DEF OrderIInv, LogTypes
    <3>2. 1..N \subseteq 1..(N + 1)
      BY <1>1
    <3> QED BY <3>1, <3>2, <1>4
  <2> QED BY <1>3, <1>4, <1>5, <2>1 DEF OrderIInv, LogTypes
<1>7. Mounted'
  BY <1>3 DEF OrderIInv, Mounted, Locked, Oldest
<1>8. Flow'
  <2>1. Flow
    BY DEF OrderIInv
  <2>2. \A n : OnItsWay(n, sent, lost) => OnItsWay(n, sent', lost) /\ n \in 1..N
    BY <1>1, <1>3, <1>4 DEF OnItsWay
  <2>3. y # Dropped => OnItsWay(N + 1, sent', lost)
    <3>1. N + 1 \notin lost
      BY <1>1, StateFacts DEF OrderIInv, LogTypes
    <3> QED BY <3>1, <1>1, <1>3, <1>4 DEF OnItsWay
  <2>4. \A j \in DOMAIN queue' : OnItsWay(queue'[j], sent', lost)
    BY <2>1, <2>2, <2>3, <1>5 DEF Flow
  <2>5. \A j \in DOMAIN queue : queue[j] \in 1..N
    BY <2>1, <2>2 DEF Flow
  <2>6. \A i, j \in DOMAIN queue' : i < j => queue'[i] < queue'[j]
    <3> TAKE i, j \in DOMAIN queue'
    <3> HAVE i < j
    <3>1. CASE i \in DOMAIN queue /\ j \in DOMAIN queue
      BY <3>1, <2>1, <1>5 DEF Flow
    <3>2. CASE i \in DOMAIN queue /\ j \notin DOMAIN queue
      BY <3>2, <2>5, <1>5, <1>1
    <3>3. CASE i \notin DOMAIN queue /\ j \in DOMAIN queue
      BY <3>3, <1>5, <1>1
    <3>4. CASE i \notin DOMAIN queue /\ j \notin DOMAIN queue
      BY <3>4, <1>5, <1>1
    <3> QED BY <3>1, <3>2, <3>3, <3>4
  <2>7. writer.n > 0 => writer.n \in 1..N /\ OnItsWay(writer.n, sent', lost)
                        /\ \A j \in DOMAIN queue' : writer.n < queue'[j]
    <3> HAVE writer.n > 0
    <3>1. writer.n \in 1..N /\ OnItsWay(writer.n, sent', lost) /\ \A j \in DOMAIN queue : writer.n < queue[j]
      BY <2>1, <2>2 DEF Flow
    <3>2. \A j \in DOMAIN queue' : writer.n < queue'[j]
      <4> TAKE j \in DOMAIN queue'
      <4>1. writer.n \in Nat /\ writer.n < N + 1
        BY <3>1, <1>1
      <4>2. queue'[j] = N + 1 \/ (j \in DOMAIN queue /\ queue'[j] = queue[j])
        BY <1>5
      <4> HIDE DEF N
      <4> QED BY <3>1, <4>1, <4>2
    <3> QED BY <3>1, <3>2
  <2>8. run.count > 0 => \A j \in DOMAIN queue' : run.last < queue'[j]
    <3> HAVE run.count > 0
    <3>1. run.last <= N /\ run.last \in Int /\ \A j \in DOMAIN queue : run.last < queue[j]
      BY <2>1, StateFacts DEF Flow, ToSet
    <3> TAKE j \in DOMAIN queue'
    <3>2. queue'[j] = N + 1 \/ (j \in DOMAIN queue /\ queue'[j] = queue[j])
      BY <1>5
    <3> HIDE DEF N
    <3> QED BY <3>1, <3>2, <1>1
  <2>9. run.count > 0 => run.last <= N + 1 /\ run.first \in 1..run.last /\ run.body \in Bodies
                         /\ \A u \in InHand : run.last < u
    BY <2>1, <1>1, StateFacts DEF Flow
  <2>10. writer.at = "idle" <=> writer.n = 0
    BY <2>1 DEF Flow
  <2>11. InHand' = InHand /\ ToSet(queue)' = {queue'[j] : j \in DOMAIN queue'}
    BY <1>3 DEF InHand, ToSet
  <2>12. run.count > 0 => \A u \in InHand' \cup ToSet(queue)' : run.last < u
    BY <2>8, <2>9, <2>11
  <2> QED BY <1>3, <1>4, <2>4, <2>6, <2>7, <2>9, <2>10, <2>12 DEF Flow
<1>9. \A u \in ToCome' : u \in Int /\ \E v \in ToCome : v <= u
  <2> TAKE u \in ToCome'
  <2>1. u \in ToCome \/ u = N + 1 \/ u = N + 2
    BY <1>1, <1>3, <1>4, <1>5, ToComeIs, ToComeWillBe
  <2>2. N + 1 \in ToCome
    BY ToComeIs
  <2> QED BY <2>1, <2>2, <1>1, StateFacts
<1>10. NoneForgotten'
  <2> SUFFICES ASSUME NEW n \in 1..(N + 1), y # Dropped \/ n # N + 1, n \notin lost,
                      n \in 1..N => sent[n] # Dropped
               PROVE  \/ StoredIn(n, files, sent', lost) \/ PendingIn(n, run, sent', lost)
                      \/ n = writer.n \/ \E j \in DOMAIN queue' : queue'[j] = n
    BY <1>3, <1>4 DEF NoneForgotten
  <2>1. CASE n = N + 1
    <3>1. queue' = Append(queue, N + 1)
      BY <1>2, <2>1
    <3>2. Len(queue) + 1 \in DOMAIN queue' /\ queue'[Len(queue) + 1] = N + 1
      BY <3>1, <1>1, AppendProperties
    <3> QED BY <3>2, <2>1
  <2>2. CASE n \in 1..N
    <3>1. \/ StoredIn(n, files, sent, lost) \/ PendingIn(n, run, sent, lost)
          \/ n = writer.n \/ \E j \in DOMAIN queue : queue[j] = n
      BY <2>2, StateFacts DEF OrderIInv, NoneForgotten
    <3>2. StoredIn(n, files, sent, lost) => StoredIn(n, files, sent', lost)
      BY <1>2, GrownCovers DEF StoredIn
    <3>3. PendingIn(n, run, sent, lost) => PendingIn(n, run, sent', lost)
      BY <1>2, GrownCovers DEF PendingIn
    <3> QED BY <3>1, <3>2, <3>3, <1>5
  <2> QED BY <1>1, <2>1, <2>2
<1>11. AllExact(files, run, sent', lost)
  BY <1>2, GrownCovers DEF OrderIInv, AllExact, Exact
<1>12. AllExact(files, run, sent, lost)'
  BY <1>3, <1>11
<1> QED BY <1>3, <1>6, <1>7, <1>8, <1>9, <1>10, <1>12, FilesStay DEF OrderIInv

\* A step of the writer that leaves the files, the run and the frames sent.
LEMMA WriterOnly ==
  ASSUME OrderIInv, UNCHANGED <<flash, s_ready, seg, run, rd, history>>,
         LogTypes', Locked' => s_ready, writer'.at # "switch", Flow',
         \A u \in ToCome' : u \in ToCome,
         \A n : n = writer.n \/ (\E j \in DOMAIN queue : queue[j] = n)
                => n = 0 \/ n = writer'.n \/ (\E j \in DOMAIN queue' : queue'[j] = n)
  PROVE  OrderIInv'
<1>1. UNCHANGED <<files, legacy, nvsSeg, s_ready, seg, run, rd, sent, lost>>
  BY DEF flash, history
<1>2. Mounted'
  BY <1>1 DEF OrderIInv, Mounted
<1>3. \A u \in ToCome' : u \in Int /\ \E v \in ToCome : v <= u
  <2> TAKE u \in ToCome'
  <2>1. u \in ToCome /\ u \in Int
    BY StateFacts
  <2>2. u <= u
    BY <2>1
  <2> QED BY <2>1, <2>2
<1>4. NoneForgotten'
  <2> SUFFICES ASSUME NEW n \in DOMAIN sent, sent[n] # Dropped, n \notin lost
               PROVE  \/ StoredIn(n, files, sent, lost) \/ PendingIn(n, run, sent, lost)
                      \/ n = writer'.n \/ \E j \in DOMAIN queue' : queue'[j] = n
    BY <1>1 DEF NoneForgotten
  <2>1. n # 0
    BY StateFacts
  <2> QED BY <2>1 DEF OrderIInv, NoneForgotten
<1>5. AllExact(files, run, sent, lost)'
  BY <1>1 DEF OrderIInv
<1> QED BY <1>1, <1>2, <1>3, <1>4, <1>5, FilesStay DEF OrderIInv

LEMMA TakeKeeps ==
  ASSUME OrderIInv, Take
  PROVE  OrderIInv'
<1>1. /\ writer.at = "idle" /\ queue # <<>> /\ writer' = [at |-> "lock", n |-> Head(queue)]
      /\ queue' = Tail(queue)
      /\ UNCHANGED <<files, legacy, nvsSeg, s_ready, seg, run, rd, sent, lost>>
  BY DEF Take, flash, state, history, At
<1>2. queue \in Seq(Nat) /\ Flow
  BY DEF OrderIInv, LogTypes
<1>3. /\ Head(queue) = queue[1] /\ 1 \in DOMAIN queue /\ queue' \in Seq(Nat)
      /\ Len(queue) \in Nat /\ Len(queue') = Len(queue) - 1
      /\ DOMAIN queue = 1..Len(queue) /\ DOMAIN queue' = 1..(Len(queue) - 1)
      /\ \A j \in DOMAIN queue' : queue'[j] = queue[j + 1] /\ j + 1 \in DOMAIN queue
  BY <1>1, <1>2, HeadTailProperties, LenProperties
<1> DEFINE h == queue[1]
<1>4. h \in Nat /\ OnItsWay(h, sent, lost)
  BY <1>2, <1>3, StateFacts DEF Flow
<1>5. writer'.at = "lock" /\ writer'.n = h /\ h # 0
  BY <1>1, <1>3, <1>4, StateFacts DEF OnItsWay
<1>6. LogTypes'
  BY <1>1, <1>3, <1>4 DEF OrderIInv, LogTypes, WriterPlaces
<1>7. \A j \in DOMAIN queue' : h < queue'[j]
  <2> TAKE j \in DOMAIN queue'
  <2>1. 1 < j + 1 /\ j + 1 \in DOMAIN queue /\ queue'[j] = queue[j + 1]
    BY <1>3
  <2>2. queue[1] < queue[j + 1]
    BY <2>1, <1>2, <1>3 DEF Flow
  <2> QED BY <2>1, <2>2
<1>8. Flow'
  <2>1. \A j \in DOMAIN queue' : OnItsWay(queue'[j], sent, lost)
    BY <1>2, <1>3 DEF Flow
  <2>2. \A i, j \in DOMAIN queue' : i < j => queue'[i] < queue'[j]
    <3> TAKE i, j \in DOMAIN queue'
    <3>1. i < j => i + 1 < j + 1
      BY <1>3
    <3> QED BY <3>1, <1>2, <1>3 DEF Flow
  <2>3. run.count > 0 => \A u \in InHand' \cup ToSet(queue)' : run.last < u
    <3> HAVE run.count > 0
    <3>1. \A j \in DOMAIN queue : run.last < queue[j]
      BY <1>2 DEF Flow, ToSet
    <3>2. \A u \in InHand' \cup ToSet(queue)' : \E j \in DOMAIN queue : u = queue[j]
      BY <1>3, <1>5 DEF InHand, ToSet
    <3> QED BY <3>1, <3>2
  <2> QED BY <2>1, <2>2, <2>3, <1>1, <1>2, <1>4, <1>5, <1>7 DEF Flow
<1>9. \A u \in ToCome' : u \in ToCome
  BY <1>1, <1>3, <1>5, ToComeIs, ToComeWillBe
<1>10. \A n : n = writer.n \/ (\E j \in DOMAIN queue : queue[j] = n)
                => n = 0 \/ n = writer'.n \/ (\E j \in DOMAIN queue' : queue'[j] = n)
  <2> TAKE n
  <2>1. writer.n = 0
    BY <1>1, <1>2 DEF Flow
  <2>2. ASSUME NEW j \in DOMAIN queue, j # 1
        PROVE  queue[j] = queue'[j - 1] /\ j - 1 \in DOMAIN queue'
    BY <1>3, <2>2
  <2> QED BY <2>1, <2>2, <1>5
<1>11. ~Locked'
  BY <1>5 DEF Locked
<1> QED BY <1>1, <1>5, <1>6, <1>8, <1>9, <1>10, <1>11, WriterOnly DEF flash, history

LEMMA LockKeeps ==
  ASSUME OrderIInv, Lock
  PROVE  OrderIInv'
<1> DEFINE p == IF MustRotate THEN "rotate" ELSE "write"
<1>1. /\ writer.at = "lock" /\ s_ready /\ writer' = [writer EXCEPT !.at = p]
      /\ UNCHANGED <<files, legacy, nvsSeg, s_ready, seg, run, queue, rd, sent, lost>>
  BY DEF Lock, GoOn, flash, state, history, At
<1>2. p \in {"rotate", "write"}
  OBVIOUS
<1> HIDE DEF p
<1>3. writer' \in [at : WriterPlaces, n : Nat] /\ writer'.at = p /\ writer'.n = writer.n
  BY <1>1, <1>2, StateFacts DEF OrderIInv, LogTypes, WriterPlaces
<1>4. LogTypes'
  BY <1>1, <1>3 DEF OrderIInv, LogTypes
<1>5. InHand' = InHand /\ ToCome' = ToCome
  BY <1>1, <1>3 DEF InHand, ToCome
<1>6. Flow'
  BY <1>1, <1>2, <1>3, <1>5 DEF OrderIInv, Flow
<1> QED BY <1>1, <1>2, <1>3, <1>4, <1>5, <1>6, WriterOnly DEF flash, history

\* Whatever is on its way is later than every line.
LEMMA CoversBelow ==
  ASSUME OrderIInv, NEW i \in Seg, NEW k \in DOMAIN files[i],
         NEW n \in CoverOf(files[i][k], sent, lost), NEW u \in ToCome
  PROVE  n < u
<1> DEFINE x == files[i][k]
<1>1. x \in Line
  BY LinesPast
<1>2. x.last < u
  BY DEF OrderIInv, PastOnly, AllBefore
<1>3. u \in Int
  BY StateFacts
<1>4. n \in CoverOf(x, sent, lost)
  OBVIOUS
<1> HIDE DEF x
<1>5. n \in Nat /\ n <= x.last /\ x.last \in Int
  BY <1>1, <1>4, CoverRange, LineFields
<1> QED BY <1>2, <1>3, <1>5

LEMMA StoredLost ==
  ASSUME NEW n, NEW F, NEW s, NEW l, NEW m, StoredIn(n, F, s, l), n \notin m
  PROVE  StoredIn(n, F, s, m)
BY DEF StoredIn, CoverOf

LEMMA PendingLost ==
  ASSUME NEW n, NEW r, NEW s, NEW l, NEW m, PendingIn(n, r, s, l), n \notin m
  PROVE  PendingIn(n, r, s, m)
BY DEF PendingIn, CoverOf

LEMMA PendingBelow ==
  ASSUME OrderIInv, run.count > 0, NEW n \in CoverOf(run, sent, lost),
         NEW u, (u = writer.n /\ u # 0) \/ (\E j \in DOMAIN queue : u = queue[j])
  PROVE  n < u
<1>1. run \in Line
  BY DEF OrderIInv, LogTypes
<1>2. n \in Nat /\ n <= run.last /\ run.last \in Int
  BY <1>1, CoverRange, LineFields
<1>3. run.last < u /\ u \in Int
  BY StateFacts DEF OrderIInv, Flow, InHand, ToSet
<1> QED BY <1>2, <1>3

LEMMA GiveUpKeeps ==
  ASSUME OrderIInv, GiveUp
  PROVE  OrderIInv'
<1> DEFINE w == writer.n
           m == lost \cup {w}
<1>1. /\ writer.at = "lock" /\ writer' = Resting /\ lost' = lost \cup InHand
      /\ UNCHANGED <<files, legacy, nvsSeg, s_ready, seg, run, queue, rd, sent>>
  BY DEF GiveUp, flash, state, At
<1>2. Flow /\ LogTypes
  BY DEF OrderIInv
<1>3. w \in Nat /\ w # 0 /\ w > 0 /\ InHand = {w} /\ lost' = m
  BY <1>1, <1>2, StateFacts DEF Flow, InHand
<1>4. OnItsWay(w, sent, lost) /\ \A j \in DOMAIN queue : w < queue[j]
  BY <1>2, <1>3 DEF Flow
<1>5. writer'.at = "idle" /\ writer'.n = 0 /\ writer' \in [at : WriterPlaces, n : Nat]
  BY <1>1 DEF Resting, WriterPlaces
<1>6. LogTypes'
  BY <1>1, <1>2, <1>3, <1>4, <1>5, StateFacts DEF LogTypes, OnItsWay
<1>7. Mounted'
  BY <1>1, <1>5 DEF OrderIInv, Mounted, Locked
<1>8. Flow'
  <2>1. \A j \in DOMAIN queue : OnItsWay(queue[j], sent, lost')
    BY <1>2, <1>3, <1>4, StateFacts DEF Flow, OnItsWay
  <2>2. InHand' = {}
    BY <1>5 DEF InHand
  <2>3. ToSet(queue)' = ToSet(queue)
    BY <1>1
  <2>4. run.count > 0 => \A u \in InHand' \cup ToSet(queue)' : run.last < u
    BY <1>2, <2>2, <2>3 DEF Flow
  <2>5. ~(writer'.n > 0)
    BY <1>5
  <2> QED BY <1>1, <1>2, <1>5, <2>1, <2>4, <2>5 DEF Flow
<1>9. \A u \in ToCome' : u \in Int /\ \E v \in ToCome : v <= u
  <2> TAKE u \in ToCome'
  <2>1. u \in ToCome /\ u \in Int
    BY <1>1, <1>5, ToComeIs, ToComeWillBe, StateFacts
  <2>2. u <= u
    BY <2>1
  <2> QED BY <2>1, <2>2
<1>10. NoneForgotten'
  <2> SUFFICES ASSUME NEW n \in DOMAIN sent, sent[n] # Dropped, n \notin m
               PROVE  \/ StoredIn(n, files, sent, m) \/ PendingIn(n, run, sent, m)
                      \/ \E j \in DOMAIN queue : queue[j] = n
    BY <1>1, <1>3 DEF NoneForgotten
  <2>1. \/ StoredIn(n, files, sent, lost) \/ PendingIn(n, run, sent, lost)
        \/ \E j \in DOMAIN queue : queue[j] = n
    BY DEF OrderIInv, NoneForgotten
  <2> HIDE DEF m
  <2> QED BY <2>1, StoredLost, PendingLost
<1>11. AllExact(files, run, sent, lost)'
  <2>1. ASSUME NEW i \in Seg, NEW k \in DOMAIN files[i], NEW n \in CoverOf(files[i][k], sent, lost)
        PROVE  n \notin m
    <3>1. n < w
      <4>1. w \in ToCome
        BY <1>3, ToComeIs
      <4> QED BY <4>1, CoversBelow
    <3>2. n \notin lost
      BY DEF CoverOf
    <3> QED BY <3>1, <3>2, <1>3
  <2>2. ASSUME run.count > 0, NEW n \in CoverOf(run, sent, lost)
        PROVE  n \notin m
    <3>1. n < w
      BY <2>2, <1>3, PendingBelow
    <3>2. n \notin lost
      BY DEF CoverOf
    <3> QED BY <3>1, <3>2, <1>3
  <2>3. AllExact(files, run, sent, lost)
    BY DEF OrderIInv
  <2> HIDE DEF m
  <2>4. lost \subseteq m
    BY DEF m
  <2>5. AllExact(files, run, sent, m)
    BY <2>1, <2>2, <2>3, <2>4, ExactLost
  <2> QED BY <2>5, <1>1, <1>3
<1> QED BY <1>1, <1>6, <1>7, <1>8, <1>9, <1>10, <1>11, FilesStay DEF OrderIInv

LEMMA SwitchKeeps ==
  ASSUME OrderIInv, Switch
  PROVE  OrderIInv'
<1>1. /\ writer.at = "switch" /\ writer' = [writer EXCEPT !.at = "write"]
      /\ seg' = Next1(seg) /\ nvsSeg' = Next1(seg)
      /\ UNCHANGED <<files, legacy, s_ready, run, queue, rd, sent, lost>>
  BY DEF Switch, GoOn, history, At
<1>2. /\ s_ready /\ seg = nvsSeg /\ legacy = <<>> /\ files[Next1(nvsSeg)] = <<>> /\ nvsSeg \in Seg
      /\ rd \in Reads
  BY <1>1 DEF OrderIInv, Mounted, Locked, Oldest, LogTypes
<1>3. writer' \in [at : WriterPlaces, n : Nat] /\ writer'.at = "write" /\ writer'.n = writer.n
  BY <1>1, StateFacts DEF OrderIInv, LogTypes, WriterPlaces
<1>4. LogTypes'
  BY <1>1, <1>2, <1>3, NextIs DEF OrderIInv, LogTypes
<1>5. Mounted'
  BY <1>1, <1>2, <1>3 DEF OrderIInv, Mounted
<1>6. InHand' = InHand /\ ToCome' = ToCome
  BY <1>1, <1>3 DEF InHand, ToCome
<1>7. Flow'
  BY <1>1, <1>3, <1>6 DEF OrderIInv, Flow
<1>8. Ordered(legacy)' /\ OldOnes'
  BY <1>1 DEF OrderIInv, OldOnes, Ordered
<1>9. PastOnly(files, rd.got, ToCome)'
  <2>1. PastOnly(files, rd.got, ToCome)
    BY DEF OrderIInv
  <2> QED BY <2>1, <1>1, <1>6
<1>10. InOrder(files, nvsSeg)' /\ ReadInOrder(files, nvsSeg, rd)'
  <2>1. InOrder(files, nvsSeg) /\ ReadInOrder(files, nvsSeg, rd)
    BY DEF OrderIInv
  <2>2. InOrder(files, Next1(nvsSeg)) /\ ReadInOrder(files, Next1(nvsSeg), rd)
    BY <2>1, <1>2, OrderTurn, ReadTurn
  <2> QED BY <2>2, <1>1, <1>2
<1>11. NoneForgotten'
  BY <1>1, <1>3 DEF OrderIInv, NoneForgotten
<1>12. AllExact(files, run, sent, lost)'
  BY <1>1 DEF OrderIInv
<1> QED BY <1>4, <1>5, <1>7, <1>8, <1>9, <1>10, <1>11, <1>12 DEF OrderIInv

\* The segments of D go.
CoveredIn(D) == UNION {CoversAll(files[i]) : i \in D}

LEMMA CoveredIs ==
  ASSUME OrderIInv, NEW D \in SUBSET Seg, NEW n
  PROVE  n \in CoveredIn(D) <=>
           \E i \in D : \E k \in DOMAIN files[i] : n \in CoverOf(files[i][k], sent, lost)
<1>1. \A i \in D : \A k \in DOMAIN files[i] :
        Covers(files[i][k]) = CoverOf(files[i][k], sent, lost)
  BY LinesPast, CoversIs
<1>2. n \in CoveredIn(D) <=> \E i \in D : n \in CoversAll(files[i])
  BY DEF CoveredIn
<1>3. \A i \in D : n \in CoversAll(files[i]) <=> \E k \in DOMAIN files[i] : n \in Covers(files[i][k])
  BY DEF CoversAll
<1> QED BY <1>1, <1>2, <1>3

LEMMA SegmentsGo ==
  ASSUME OrderIInv, NEW D \in SUBSET Seg, NEW G,
         \A i \in D : G[i] = <<>>, \A i \in Seg \ D : G[i] = files[i],
         NEW m, m = lost \cup CoveredIn(D)
  PROVE  /\ InOrder(G, nvsSeg) /\ PastOnly(G, rd.got, ToCome) /\ AllExact(G, run, sent, m)
         /\ \A n : StoredIn(n, files, sent, lost) => n \in m \/ StoredIn(n, G, sent, m)
         /\ \A n : PendingIn(n, run, sent, lost) => PendingIn(n, run, sent, m)
         /\ \A n : OnItsWay(n, sent, lost) /\ n \in ToCome => OnItsWay(n, sent, m)
         /\ m \subseteq DOMAIN sent
<1>1. \A i \in Seg : G[i] = files[i] \/ G[i] = <<>>
  OBVIOUS
<1>2. nvsSeg \in Seg /\ lost \subseteq DOMAIN sent
  BY DEF OrderIInv, LogTypes
<1>3. InOrder(G, nvsSeg) /\ PastOnly(G, rd.got, ToCome)
  BY <1>1, <1>2, OrderCut, PastCut DEF OrderIInv
<1>4. ASSUME NEW n \in CoveredIn(D), NEW u \in ToCome
      PROVE  n < u
  BY CoveredIs, CoversBelow
<1>5. ASSUME NEW i \in Seg \ D, NEW k \in DOMAIN files[i],
             NEW n \in CoverOf(files[i][k], sent, lost)
      PROVE  n \notin m
  <2>1. n \notin lost
    BY DEF CoverOf
  <2>2. ASSUME n \in CoveredIn(D)
        PROVE  FALSE
    <3>1. PICK j \in D : \E h \in DOMAIN files[j] : n \in CoverOf(files[j][h], sent, lost)
      BY <2>2, CoveredIs
    <3>2. PICK h \in DOMAIN files[j] : n \in CoverOf(files[j][h], sent, lost)
      BY <3>1
    <3> DEFINE x == files[i][k]
               y == files[j][h]
    <3>3. x \in Line /\ y \in Line
      BY LinesPast
    <3>4. x.last < y.first \/ y.last < x.first
      <4>1. Rank(nvsSeg, i) < Rank(nvsSeg, j) \/ Rank(nvsSeg, j) < Rank(nvsSeg, i)
        <5>1. Rank(nvsSeg, i) # Rank(nvsSeg, j)
          BY <1>2, Ranks
        <5>2. Rank(nvsSeg, i) \in Int /\ Rank(nvsSeg, j) \in Int
          BY <1>2, Ranks
        <5> QED BY <5>1, <5>2
      <4>2. Before(files[i], files[j]) \/ Before(files[j], files[i])
        BY <4>1 DEF OrderIInv, InOrder
      <4> QED BY <4>2 DEF Before
    <3>5. n \in CoverOf(x, sent, lost) /\ n \in CoverOf(y, sent, lost)
      BY <3>2
    <3> HIDE DEF x, y
    <3>6. n \in Nat /\ x.first <= n /\ n <= x.last /\ y.first <= n /\ n <= y.last
          /\ x.first \in Int /\ x.last \in Int /\ y.first \in Int /\ y.last \in Int
      BY <3>3, <3>5, CoverRange, LineFields
    <3> QED BY <3>4, <3>6
  <2> QED BY <2>1, <2>2
<1>6. \A n : StoredIn(n, files, sent, lost) => n \in m \/ StoredIn(n, G, sent, m)
  <2> SUFFICES ASSUME NEW n, StoredIn(n, files, sent, lost), n \notin m
               PROVE  StoredIn(n, G, sent, m)
    OBVIOUS
  <2>1. PICK i \in Seg : \E k \in DOMAIN files[i] : n \in CoverOf(files[i][k], sent, lost)
    BY DEF StoredIn
  <2>2. i \notin D
    BY <2>1, CoveredIs
  <2>3. StoredIn(n, G, sent, lost)
    BY <2>1, <2>2 DEF StoredIn
  <2> HIDE DEF StoredIn
  <2> QED BY <2>3, StoredLost
<1>7. ASSUME run.count > 0, NEW n \in CoverOf(run, sent, lost)
      PROVE  n \notin m
  <2>1. n \notin lost
    BY DEF CoverOf
  <2>2. run.first <= n /\ n \in Int /\ run.first \in Int
    <3>1. run \in Line
      BY DEF OrderIInv, LogTypes
    <3> QED BY <3>1, CoverRange, LineFields
  <2>3. run.first \in ToCome
    BY <1>7, ToComeIs
  <2>4. n \notin CoveredIn(D)
    BY <1>4, <2>2, <2>3
  <2> QED BY <2>1, <2>4
<1>8. \A n : PendingIn(n, run, sent, lost) => PendingIn(n, run, sent, m)
  BY <1>7, PendingLost DEF PendingIn
<1>9. AllExact(G, run, sent, m)
  <2>1. AllExact(files, run, sent, lost)
    BY DEF OrderIInv
  <2>2. AllExact(G, run, sent, lost)
    BY <2>1, <1>1, ExactCut DEF AllExact
  <2>3. lost \subseteq m
    OBVIOUS
  <2>4. \A i \in Seg : \A k \in DOMAIN G[i] : \A n \in CoverOf(G[i][k], sent, lost) : n \notin m
    <3> TAKE i \in Seg
    <3>1. CASE i \in D
      BY <3>1, NoLines
    <3>2. CASE i \notin D
      BY <3>2, <1>5
    <3> QED BY <3>1, <3>2
  <2> QED BY <2>2, <2>3, <2>4, <1>7, ExactLost
<1>10. \A n : OnItsWay(n, sent, lost) /\ n \in ToCome => OnItsWay(n, sent, m)
  <2> SUFFICES ASSUME NEW n, OnItsWay(n, sent, lost), n \in ToCome
               PROVE  OnItsWay(n, sent, m)
    OBVIOUS
  <2>1. n \notin CoveredIn(D)
    <3>1. n \in Int
      BY StateFacts
    <3> QED BY <3>1, <1>4
  <2> QED BY <2>1 DEF OnItsWay
<1>11. m \subseteq DOMAIN sent
  <2> SUFFICES ASSUME NEW n \in CoveredIn(D) PROVE n \in DOMAIN sent
    BY <1>2
  <2>1. PICK i \in D : \E k \in DOMAIN files[i] : n \in CoverOf(files[i][k], sent, lost)
    BY CoveredIs
  <2>2. PICK k \in DOMAIN files[i] : n \in CoverOf(files[i][k], sent, lost)
    BY <2>1
  <2> DEFINE x == files[i][k]
  <2>3. x \in Line /\ x.last <= Len(sent) /\ n \in CoverOf(x, sent, lost)
    BY <2>2, LinesPast
  <2> HIDE DEF x
  <2>4. n \in Nat /\ 1 <= x.first /\ x.first <= n /\ n <= x.last
        /\ x.first \in Int /\ x.last \in Int
    BY <2>3, CoverRange, LineFields
  <2> QED BY <2>3, <2>4, StateFacts
<1> QED BY <1>3, <1>6, <1>8, <1>9, <1>10, <1>11

LEMMA RemoveOldestKeeps ==
  ASSUME OrderIInv, RemoveOldest
  PROVE  OrderIInv'
<1> DEFINE o == Oldest
           m == lost \cup CoversAll(files[o])
           q == [rd EXCEPT !.gone = TRUE]
<1>1. /\ writer.at = "rotate" /\ writer' = [writer EXCEPT !.at = "switch"]
      /\ files' = [files EXCEPT ![o] = <<>>] /\ lost' = m
      /\ rd' = IF rd.at = "in" /\ rd.cur = o THEN q ELSE rd
      /\ UNCHANGED <<legacy, nvsSeg, s_ready, seg, run, queue, sent>>
  BY DEF RemoveOldest, GoOn, state, At
<1>2. /\ s_ready /\ seg = nvsSeg /\ legacy = <<>> /\ nvsSeg \in Seg /\ rd \in Reads
      /\ files \in [Seg -> Seq(Line)]
  BY <1>1 DEF OrderIInv, Mounted, Locked, LogTypes
<1>3. o \in Seg
  BY <1>2, NextIs DEF Oldest
<1>4. files'[o] = <<>> /\ (\A i \in Seg \ {o} : files'[i] = files[i])
      /\ files' \in [Seg -> Seq(Line)]
  BY <1>1, <1>2, <1>3, NoLines
<1>5. m = lost \cup CoveredIn({o})
  <2>1. CoveredIn({o}) = CoversAll(files[o])
    BY DEF CoveredIn
  <2> QED BY <2>1
<1>6. writer' \in [at : WriterPlaces, n : Nat] /\ writer'.at = "switch" /\ writer'.n = writer.n
  BY <1>1, StateFacts DEF OrderIInv, LogTypes, WriterPlaces
<1>7. InHand' = InHand /\ ToCome' = ToCome
  BY <1>1, <1>6 DEF InHand, ToCome
<1>8. q \in Reads /\ q.got = rd.got /\ q.age = rd.age /\ q.at = rd.at /\ q.gone
  BY <1>2 DEF Reads
<1> HIDE DEF o, m, q
<1>9. /\ InOrder(files', nvsSeg) /\ PastOnly(files', rd.got, ToCome) /\ AllExact(files', run, sent, m)
      /\ \A n : StoredIn(n, files, sent, lost) => n \in m \/ StoredIn(n, files', sent, m)
      /\ \A n : PendingIn(n, run, sent, lost) => PendingIn(n, run, sent, m)
      /\ \A n : OnItsWay(n, sent, lost) /\ n \in ToCome => OnItsWay(n, sent, m)
      /\ m \subseteq DOMAIN sent
  <2>1. {o} \in SUBSET Seg /\ \A i \in {o} : files'[i] = <<>>
    BY <1>3, <1>4
  <2> QED BY <2>1, <1>4, <1>5, SegmentsGo
<1>10. rd' \in Reads /\ rd'.got = rd.got /\ rd'.age = rd.age /\ rd'.at = rd.at
  BY <1>1, <1>2, <1>8
<1>11. LogTypes'
  BY <1>1, <1>4, <1>6, <1>9, <1>10 DEF OrderIInv, LogTypes
<1>12. Mounted'
  <2>1. files'[Oldest'] = <<>>
    BY <1>1, <1>4 DEF Oldest, o
  <2> QED BY <2>1, <1>1, <1>2, <1>6, <1>10 DEF OrderIInv, Mounted
<1>13. Flow'
  <2>1. Flow
    BY DEF OrderIInv
  <2>2. \A j \in DOMAIN queue : OnItsWay(queue[j], sent, m)
    BY <2>1, <1>9, ToComeIs DEF Flow
  <2>3. writer.n > 0 => OnItsWay(writer.n, sent, m)
    BY <2>1, <1>9, ToComeIs, StateFacts DEF Flow
  <2> QED BY <2>1, <2>2, <2>3, <1>1, <1>6, <1>7 DEF Flow
<1>14. Ordered(legacy)' /\ OldOnes'
  BY <1>1 DEF OrderIInv, OldOnes, Ordered
<1>15. PastOnly(files, rd.got, ToCome)' /\ InOrder(files, nvsSeg)'
  BY <1>1, <1>7, <1>9, <1>10
<1>16. ReadInOrder(files', nvsSeg, rd')
  <2>1. ReadInOrder(files, nvsSeg, rd)
    BY DEF OrderIInv
  <2>2. \A i \in Seg : files'[i] = files[i] \/ files'[i] = <<>>
    BY <1>4
  <2>3. rd'.at = "in" /\ ~rd'.gone => /\ rd.at = "in" /\ ~rd.gone /\ rd'.pos = rd.pos
                                  /\ rd'.cur = rd.cur /\ files'[rd.cur] = files[rd.cur]
    <3>1. rd.cur \in Seg
      BY StateFacts
    <3> QED BY <3>1, <1>1, <1>4, <1>8
  <2> QED BY <2>1, <2>2, <2>3, <1>10, ReadCut
<1>17. NoneForgotten'
  <2> SUFFICES ASSUME NEW n \in DOMAIN sent, sent[n] # Dropped, n \notin m
               PROVE  \/ StoredIn(n, files', sent, m) \/ PendingIn(n, run, sent, m)
                      \/ n = writer.n \/ \E j \in DOMAIN queue : queue[j] = n
    BY <1>1, <1>6 DEF NoneForgotten
  <2>1. n \notin lost
    BY DEF m
  <2> QED BY <2>1, <1>9 DEF OrderIInv, NoneForgotten
<1>18. AllExact(files, run, sent, lost)' /\ ReadInOrder(files, nvsSeg, rd)'
  BY <1>1, <1>9, <1>16
<1> QED BY <1>11, <1>12, <1>13, <1>14, <1>15, <1>17, <1>18 DEF OrderIInv

\* A line is written at the end of the active segment.
LEMMA Emitted ==
  ASSUME OrderIInv, NEW x \in Line, x.first \in ToCome, Exact(x, sent, lost),
         NEW r, Exact(r, sent, lost),
         NEW U \in SUBSET Int, \A u \in U : x.last < u /\ \E v \in ToCome : v <= u,
         NEW G, G = [files EXCEPT ![nvsSeg] = Append(@, x)]
  PROVE  /\ G \in Files /\ InOrder(G, nvsSeg) /\ ReadInOrder(G, nvsSeg, rd)
         /\ PastOnly(G, rd.got, U) /\ AllExact(G, r, sent, lost)
         /\ \A n : StoredIn(n, files, sent, lost) \/ n \in CoverOf(x, sent, lost)
                   => StoredIn(n, G, sent, lost)
<1>1. files \in Files /\ nvsSeg \in Seg /\ rd \in Reads /\ rd.got \in Seq(Line)
  BY StateFacts DEF OrderIInv, LogTypes
<1>2. PastOnly(files, rd.got, ToCome) /\ ToCome \in SUBSET Int
  BY StateFacts DEF OrderIInv
<1>3. (\A i \in Seg : AllBefore(files[i], x.first)) /\ AllBefore(rd.got, x.first)
  BY <1>2 DEF PastOnly
<1>4. G \in Files
  <2>1. files[nvsSeg] \in Seq(Line)
    BY <1>1 DEF Files
  <2>2. Append(files[nvsSeg], x) \in Seq(Line)
    BY <2>1, LineAppended
  <2> QED BY <2>2, <1>1 DEF Files
<1>5. InOrder(G, nvsSeg)
  BY <1>1, <1>3, OrderAppend DEF OrderIInv
<1>6. ReadInOrder(G, nvsSeg, rd)
  BY <1>1, <1>3, ReadAppend DEF OrderIInv
<1>7. PastOnly(G, rd.got, U)
  <2>1. PastOnly(files, rd.got, U)
    BY <1>1, <1>2, PastLater
  <2> QED BY <2>1, <1>1, PastAppend
<1>8. AllExact(G, r, sent, lost)
  <2>1. AllExact(files, run, sent, lost)
    BY DEF OrderIInv
  <2> QED BY <2>1, <1>1, ExactAppend
<1>9. \A n : StoredIn(n, files, sent, lost) \/ n \in CoverOf(x, sent, lost)
             => StoredIn(n, G, sent, lost)
  BY <1>1, StoredAppend
<1> QED BY <1>4, <1>5, <1>6, <1>7, <1>8, <1>9

\* The pending run, or the frame itself, goes into the file.
Ended(b) == [NoRun EXCEPT !.body = b]
LEMMA EndedIs ==
  ASSUME NEW b \in Bodies \cup {Nobody}
  PROVE  Ended(b) \in Line /\ Ended(b).count = 0 /\ \A s, l : Exact(Ended(b), s, l)
<1>1. Ended(b) \in Line /\ Ended(b).count = 0
  BY DEF Ended, NoRun, Line
<1> HIDE DEF Ended
<1> QED BY <1>1 DEF Exact

LEMMA EmitKeeps ==
  ASSUME OrderIInv, s_ready, NEW x \in Line, x.first \in ToCome, Exact(x, sent, lost),
         files' = [files EXCEPT ![seg] = Append(@, x)],
         NEW b \in Bodies \cup {Nobody}, run' = Ended(b),
         UNCHANGED <<legacy, nvsSeg, s_ready, seg, queue, history>>,
         writer' = Resting \/ (writer' = writer /\ writer.at # "switch"),
         rd' = rd \/ rd' = [NoRead EXCEPT !.at = "between"],
         \A u \in ToCome' : x.last < u,
         \A n : PendingIn(n, run, sent, lost) \/ n = writer.n
                => n = 0 \/ n = writer'.n \/ n \in CoverOf(x, sent, lost)
  PROVE  OrderIInv'
<1>1. UNCHANGED <<legacy, nvsSeg, s_ready, seg, queue, sent, lost>>
  BY DEF history
<1>2. /\ seg = nvsSeg /\ legacy = <<>> /\ nvsSeg \in Seg /\ rd \in Reads /\ queue \in Seq(Nat)
      /\ Flow
  BY DEF OrderIInv, Mounted, LogTypes
<1>3. run' \in Line /\ run'.count = 0 /\ Exact(run', sent, lost)
  BY EndedIs
<1>4. writer' \in [at : WriterPlaces, n : Nat] /\ (writer'.n # 0 => writer' = writer)
      /\ writer'.at # "switch" /\ (writer'.at = "idle" <=> writer'.n = 0)
  <2>1. CASE writer' = Resting
    BY <2>1 DEF Resting, WriterPlaces
  <2>2. CASE writer' = writer
    <3>1. writer.at = "idle" <=> writer.n = 0
      BY <1>2 DEF Flow
    <3>2. writer \in [at : WriterPlaces, n : Nat]
      BY DEF OrderIInv, LogTypes
    <3>3. writer.at # "switch"
      BY <2>2 DEF Resting
    <3> QED BY <2>2, <3>1, <3>2, <3>3
  <2> QED BY <2>1, <2>2
<1>5. \A u \in ToCome' : u \in ToCome /\ u \in Int
  <2> TAKE u \in ToCome'
  <2>1. u \in ToCome
    <3>1. \/ writer'.n # 0 /\ u = writer'.n
          \/ (\E j \in DOMAIN queue : u = queue[j])
          \/ u = Len(sent) + 1
      <4>1. ~(run'.count > 0)
        BY <1>3
      <4> QED BY <4>1, <1>1, ToComeWillBe
    <3> QED BY <3>1, <1>4, ToComeIs
  <2> QED BY <2>1, StateFacts
<1>6. \A u \in ToCome' : x.last < u /\ \E v \in ToCome : v <= u
  <2> TAKE u \in ToCome'
  <2>1. u <= u /\ u \in ToCome
    BY <1>5
  <2> QED BY <2>1
<1>7. /\ files' \in Files /\ InOrder(files', nvsSeg) /\ ReadInOrder(files', nvsSeg, rd)
      /\ PastOnly(files', rd.got, ToCome') /\ AllExact(files', run', sent, lost)
      /\ \A n : StoredIn(n, files, sent, lost) \/ n \in CoverOf(x, sent, lost)
                => StoredIn(n, files', sent, lost)
  <2>1. ToCome' \in SUBSET Int
    BY <1>5
  <2>2. files' = [files EXCEPT ![nvsSeg] = Append(@, x)]
    BY <1>2
  <2> HIDE DEF Files
  <2> QED BY <2>1, <2>2, <1>3, <1>6, Emitted
<1>8. /\ rd' \in Reads /\ (rd'.at = "idle" => rd'.got = <<>>)
      /\ ReadInOrder(files', nvsSeg, rd') /\ PastOnly(files', rd'.got, ToCome')
  <2>1. CASE rd' = rd
    BY <2>1, <1>2, <1>7 DEF OrderIInv, Mounted
  <2>2. CASE rd' = [NoRead EXCEPT !.at = "between"]
    <3>1. rd' \in Reads /\ rd'.at = "between" /\ rd'.got = <<>>
      BY <2>2, NoReadFacts DEF Reads, NoRead
    <3> QED BY <3>1, <1>7, ReadNothing, PastCut
  <2> QED BY <2>1, <2>2
<1>9. LogTypes'
  BY <1>1, <1>3, <1>4, <1>7, <1>8 DEF OrderIInv, LogTypes, Files
<1>10. Mounted'
  BY <1>1, <1>2, <1>4, <1>8 DEF OrderIInv, Mounted
<1>11. Flow'
  <2>1. ~(run'.count > 0)
    BY <1>3
  <2>2. writer'.n > 0 => writer' = writer
    BY <1>4
  <2> QED BY <2>1, <2>2, <1>1, <1>2, <1>4 DEF Flow
<1>12. Ordered(legacy)' /\ OldOnes'
  BY <1>1 DEF OrderIInv, OldOnes, Ordered
<1>13. NoneForgotten'
  <2> SUFFICES ASSUME NEW n \in DOMAIN sent, sent[n] # Dropped, n \notin lost
               PROVE  \/ StoredIn(n, files', sent, lost) \/ n = writer'.n
                      \/ \E j \in DOMAIN queue : queue[j] = n
    BY <1>1 DEF NoneForgotten
  <2>1. n # 0
    BY StateFacts
  <2> QED BY <2>1, <1>7 DEF OrderIInv, NoneForgotten
<1>14. /\ AllExact(files, run, sent, lost)' /\ ReadInOrder(files, nvsSeg, rd)'
       /\ InOrder(files, nvsSeg)' /\ PastOnly(files, rd.got, ToCome)'
  BY <1>1, <1>7, <1>8
<1> QED BY <1>9, <1>10, <1>11, <1>12, <1>13, <1>14 DEF OrderIInv

\* The run that is pending, when it is written.
LEMMA PendingRun ==
  ASSUME OrderIInv, run.count > 0
  PROVE  /\ run \in Line /\ run.first \in ToCome /\ Exact(run, sent, lost)
         /\ run.first >= 1 /\ run.first <= run.last /\ run.body \in Bodies
         /\ \A n : PendingIn(n, run, sent, lost) => n \in CoverOf(run, sent, lost)
         /\ writer.n # 0 => run.last < writer.n
         /\ \A j \in DOMAIN queue : run.last < queue[j]
         /\ run.last < Len(sent) + 1
<1>1. run \in Line /\ run.first \in ToCome /\ Exact(run, sent, lost)
  BY ToComeIs DEF OrderIInv, LogTypes, AllExact
<1>2. /\ run.first \in 1..run.last /\ run.body \in Bodies /\ run.last <= Len(sent)
      /\ \A u \in InHand \cup ToSet(queue) : run.last < u
  BY DEF OrderIInv, Flow
<1>3. run.first \in Int /\ run.last \in Int /\ Len(sent) \in Nat
  BY StateFacts
<1>4. (writer.n # 0 => run.last < writer.n) /\ \A j \in DOMAIN queue : run.last < queue[j]
  BY <1>2 DEF InHand, ToSet
<1> QED BY <1>1, <1>2, <1>3, <1>4 DEF PendingIn

LEMMA FlushKeeps ==
  ASSUME OrderIInv, Flush
  PROVE  OrderIInv'
<1>1. /\ writer.at = "write" /\ run.count > 0
      /\ files' = [files EXCEPT ![seg] = Append(@, run)] /\ run' = Ended(run.body)
      /\ UNCHANGED <<legacy, nvsSeg, s_ready, seg, queue, writer, rd, history>>
  BY DEF Flush, At, Emit, Ended
<1>2. UNCHANGED <<queue, writer, sent>>
  BY <1>1 DEF history
<1>3. s_ready
  BY <1>1 DEF OrderIInv, Mounted, Locked
<1>4. run.body \in Bodies \cup {Nobody}
  BY StateFacts
<1>5. \A u \in ToCome' : run.last < u
  <2>1. ~(run'.count > 0)
    BY <1>1, <1>4, EndedIs
  <2> QED BY <1>1, <1>2, <2>1, ToComeWillBe, PendingRun
<1> QED BY <1>1, <1>2, <1>3, <1>4, <1>5, PendingRun, EmitKeeps

LEMMA OpenKeeps ==
  ASSUME OrderIInv, Open
  PROVE  OrderIInv'
<1>1. /\ rd.at = "idle" /\ s_ready /\ rd' = [NoRead EXCEPT !.at = "between"]
      /\ UNCHANGED <<legacy, nvsSeg, s_ready, seg, queue, writer, history>>
  BY DEF Open
<1>2. CASE UNCHANGED <<files, used, run>>
  <2>1. rd' \in Reads /\ rd'.at = "between" /\ rd'.got = <<>>
    BY <1>1, NoReadFacts DEF Reads, NoRead
  <2>2. PastOnly(files, rd'.got, ToCome)
    BY <2>1, PastCut DEF OrderIInv
  <2>3. ReadInOrder(files, nvsSeg, rd')
    BY <2>1, ReadNothing
  <2>4. UNCHANGED <<flash, s_ready, seg, run, queue, writer, history>>
    BY <1>1, <1>2 DEF flash
  <2> QED BY <1>1, <2>1, <2>2, <2>3, <2>4, ReaderOnly
<1>3. CASE /\ ~Locked /\ run.count > 0 /\ Emit(run)
           /\ run' = [NoRun EXCEPT !.body = run.body]
  <2>1. files' = [files EXCEPT ![seg] = Append(@, run)] /\ run' = Ended(run.body)
        /\ run.count > 0 /\ writer.at # "switch"
    BY <1>3 DEF Emit, Ended, Locked
  <2>2. UNCHANGED <<queue, writer, sent>>
    BY <1>1 DEF history
  <2>3. run.body \in Bodies \cup {Nobody}
    BY StateFacts
  <2>4. \A u \in ToCome' : run.last < u
    <3>1. ~(run'.count > 0)
      BY <2>1, <2>3, EndedIs
    <3> QED BY <2>1, <2>2, <3>1, ToComeWillBe, PendingRun
  <2> QED BY <1>1, <2>1, <2>2, <2>3, <2>4, PendingRun, EmitKeeps
<1> QED BY <1>2, <1>3 DEF Open

\* The frame in the writer's hands.
LEMMA FrameInHand ==
  ASSUME OrderIInv, At("write")
  PROVE  /\ writer.n \in 1..Len(sent) /\ writer.n # 0 /\ writer.n \in Nat
         /\ sent[writer.n] \in Bodies /\ writer.n \notin lost /\ writer.n \in ToCome
         /\ (\A j \in DOMAIN queue : writer.n < queue[j]) /\ writer.n < Len(sent) + 1
         /\ s_ready
<1>1. writer.n # 0 /\ writer.n \in Nat /\ s_ready
  <2>1. s_ready
    BY DEF OrderIInv, Mounted, Locked, At
  <2>2. writer.n # 0
    BY DEF OrderIInv, Flow, At
  <2> QED BY <2>1, <2>2, StateFacts
<1>2. OnItsWay(writer.n, sent, lost) /\ \A j \in DOMAIN queue : writer.n < queue[j]
  BY <1>1 DEF OrderIInv, Flow
<1>3. writer.n \in 1..Len(sent) /\ sent[writer.n] # Dropped /\ writer.n \notin lost
  BY <1>2 DEF OnItsWay
<1>4. sent[writer.n] \in Bodies
  BY <1>3, ElementOfSeq DEF OrderIInv, LogTypes
<1>5. writer.n < Len(sent) + 1
  BY <1>3, StateFacts
<1> QED BY <1>1, <1>2, <1>3, <1>4, <1>5, ToComeIs

LEMMA WriteKeeps ==
  ASSUME OrderIInv, Write
  PROVE  OrderIInv'
<1> DEFINE w == writer.n
           x == FrameLine(w)
<1>1. /\ At("write") /\ ~(run.count > 0)
      /\ files' = [files EXCEPT ![seg] = Append(@, x)] /\ run' = Ended(sent[w])
      /\ writer' = Resting
      /\ UNCHANGED <<legacy, nvsSeg, s_ready, seg, queue, rd, history>>
  BY DEF Write, Emit, Ended
<1>2. UNCHANGED <<queue, sent>>
  BY <1>1 DEF history
<1>3. /\ w \in Nat /\ w # 0 /\ w >= 1 /\ s_ready /\ sent[w] \in Bodies /\ w \notin lost /\ w \in ToCome
      /\ \A j \in DOMAIN queue : w < queue[j]
      /\ w < Len(sent) + 1
  BY <1>1, FrameInHand
<1>4. /\ x \in Line /\ x.first = w /\ x.last = w /\ x.count = 0 /\ x.body = sent[w]
      /\ Exact(x, sent, lost)
  BY <1>3 DEF FrameLine, Line, Exact
<1> HIDE DEF x
<1>5. w \in CoverOf(x, sent, lost)
  BY <1>3, <1>4 DEF CoverOf
<1>6. \A u \in ToCome' : x.last < u
  <2>1. ~(run'.count > 0)
    BY <1>1, <1>3, EndedIs
  <2>2. writer'.n = 0
    BY <1>1 DEF Resting
  <2> QED BY <1>2, <1>3, <1>4, <2>1, <2>2, ToComeWillBe
<1>7. \A n : ~PendingIn(n, run, sent, lost)
  BY <1>1 DEF PendingIn
<1> QED BY <1>1, <1>3, <1>4, <1>5, <1>6, <1>7, EmitKeeps

\* The run with the frame in hand: it stands for one frame more.
LEMMA GrownIs ==
  ASSUME OrderIInv, At("write"), run.count > 0, Same
  PROVE  /\ Grown \in Line /\ Grown.count = run.count + 1 /\ Grown.first = run.first
         /\ Grown.last = writer.n /\ Grown.body = run.body
         /\ CoverOf(Grown, sent, lost) = CoverOf(run, sent, lost) \cup {writer.n}
         /\ Exact(Grown, sent, lost)
<1> DEFINE w == writer.n
           g == Grown
           A == CoverOf(run, sent, lost)
           B == CoverOf(g, sent, lost)
<1>1. /\ run \in Line /\ run.first \in ToCome /\ Exact(run, sent, lost)
      /\ run.first >= 1 /\ run.first <= run.last /\ run.body \in Bodies /\ run.last < w
      /\ run.first \in Int /\ run.last \in Int /\ run.count \in Nat
  BY PendingRun, FrameInHand, StateFacts
<1>2. /\ w \in 1..Len(sent) /\ w \in Nat /\ sent[w] = run.body /\ w \notin lost
      /\ \A j \in DOMAIN queue : w < queue[j] /\ queue[j] \in Nat
      /\ DOMAIN sent = 1..Len(sent) /\ Len(sent) \in Nat
  BY FrameInHand, StateFacts DEF Same
<1>3. /\ g \in Line /\ g.count = run.count + 1 /\ g.first = run.first
      /\ g.last = w /\ g.body = run.body
  <2> DEFINE c == run.count + 1
  <2>1. c \in Nat /\ g = [run EXCEPT !.count = c, !.last = w]
    BY <1>1 DEF Grown
  <2> HIDE DEF c, g
  <2>2. w \in Int
    BY <1>2
  <2> HIDE DEF w
  <2>3. g \in Line
    BY <2>1, <2>2, <1>1 DEF Line
  <2>4. g.count = c /\ g.last = w /\ g.first = run.first /\ g.body = run.body
    BY <2>1, <1>1 DEF Line
  <2> QED BY <2>3, <2>4 DEF c, g, w
<1> HIDE DEF g
<1>4. \A n \in B : n \in A \cup {w}
  <2> SUFFICES ASSUME NEW n \in B, n # w, n \notin A PROVE FALSE
    OBVIOUS
  <2>1. n \in Nat /\ run.first <= n /\ n < w /\ sent[n] = run.body /\ n \notin lost
    BY <1>2, <1>3, CoverRange
  <2>2. n \in DOMAIN sent /\ sent[n] # Dropped /\ n # 0
    BY <1>1, <1>2, <2>1, BodiesAssumption
  <2>3. StoredIn(n, files, sent, lost) \/ \E j \in DOMAIN queue : queue[j] = n
    BY <2>1, <2>2 DEF OrderIInv, NoneForgotten, PendingIn
  <2>4. CASE StoredIn(n, files, sent, lost)
    <3>1. n < run.first
      BY <2>4, <1>1, CoversBelow DEF StoredIn
    <3> QED BY <3>1, <2>1, <1>1
  <2>5. CASE \E j \in DOMAIN queue : queue[j] = n
    BY <2>5, <2>1, <1>2
  <2> QED BY <2>3, <2>4, <2>5
<1>5. \A n \in A : n \in B /\ n # w
  <2> TAKE n \in A
  <2>1. n \in Nat /\ run.first <= n /\ n <= run.last /\ sent[n] = run.body /\ n \notin lost
    BY <1>1, CoverRange
  <2>2. n \in run.first..w /\ n # w
    BY <2>1, <1>1, <1>2
  <2> QED BY <2>1, <2>2, <1>1, <1>3 DEF CoverOf
<1>6. w \in B
  BY <1>1, <1>2, <1>3 DEF CoverOf
<1>7. B = A \cup {w} /\ w \notin A
  BY <1>4, <1>5, <1>6
<1>8. IsFiniteSet(A)
  <2>1. A \subseteq run.first..run.last
    BY DEF CoverOf
  <2> QED BY <2>1, <1>1, FS_Interval, FS_Subset
<1>9. Cardinality(B) = Cardinality(A) + 1
  BY <1>7, <1>8, FS_AddElement
<1>10. run.count = Cardinality(A)
  BY <1>1 DEF Exact
<1> HIDE DEF A, B
<1>11. g.count = Cardinality(B)
  BY <1>3, <1>9, <1>10
<1>12. Exact(g, sent, lost)
  BY <1>11 DEF Exact, B
<1> QED BY <1>3, <1>7, <1>12 DEF A, B, g

LEMMA RunGoesOn ==
  ASSUME OrderIInv, At("write"), NEW g \in Line, g.count > 0, Exact(g, sent, lost),
         g.last = writer.n, g.first \in 1..writer.n, g.first \in ToCome, g.body \in Bodies,
         writer.n \in CoverOf(g, sent, lost),
         \A n : PendingIn(n, run, sent, lost) => n \in CoverOf(g, sent, lost),
         run' = g, writer' = Resting,
         UNCHANGED <<files, legacy, nvsSeg, s_ready, seg, queue, rd, history>>
  PROVE  OrderIInv'
<1>1. UNCHANGED <<files, legacy, nvsSeg, s_ready, seg, queue, rd, sent, lost>>
  BY DEF history
<1>2. writer' \in [at : WriterPlaces, n : Nat] /\ writer'.at = "idle" /\ writer'.n = 0
  BY DEF Resting, WriterPlaces
<1>3. Flow /\ LogTypes
  BY DEF OrderIInv
<1>4. LogTypes'
  BY <1>1, <1>2, <1>3 DEF LogTypes
<1>5. Mounted'
  <2>1. s_ready
    BY FrameInHand
  <2> QED BY <2>1, <1>1, <1>2 DEF OrderIInv, Mounted, Locked
<1>6. Flow'
  <2>1. \A u \in InHand' \cup ToSet(queue)' : g.last < u
    <3>1. InHand' = {} /\ ToSet(queue)' = ToSet(queue)
      BY <1>1, <1>2 DEF InHand
    <3>2. \A j \in DOMAIN queue : writer.n < queue[j]
      BY FrameInHand
    <3> QED BY <3>1, <3>2 DEF ToSet
  <2>2. g.last <= Len(sent) /\ g.first \in 1..g.last
    BY FrameInHand
  <2>3. ~(writer'.n > 0)
    BY <1>2
  <2> QED BY <2>1, <2>2, <2>3, <1>1, <1>2, <1>3 DEF Flow
<1>7. \A u \in ToCome' : u \in Int /\ \E v \in ToCome : v <= u
  <2> TAKE u \in ToCome'
  <2>1. u \in ToCome /\ u \in Int
    <3>1. u \in ToCome
      BY <1>1, <1>2, ToComeIs, ToComeWillBe
    <3> QED BY <3>1, StateFacts
  <2>2. u <= u
    BY <2>1
  <2> QED BY <2>1, <2>2
<1>8. NoneForgotten'
  <2> SUFFICES ASSUME NEW n \in DOMAIN sent, sent[n] # Dropped, n \notin lost
               PROVE  \/ StoredIn(n, files, sent, lost) \/ PendingIn(n, g, sent, lost)
                      \/ \E j \in DOMAIN queue : queue[j] = n
    BY <1>1 DEF NoneForgotten
  <2>1. \/ StoredIn(n, files, sent, lost) \/ PendingIn(n, run, sent, lost)
        \/ n = writer.n \/ \E j \in DOMAIN queue : queue[j] = n
    BY DEF OrderIInv, NoneForgotten
  <2> QED BY <2>1 DEF PendingIn
<1>9. AllExact(files, run, sent, lost)'
  <2>1. AllExact(files, g, sent, lost)
    <3>1. AllExact(files, run, sent, lost)
      BY DEF OrderIInv
    <3> QED BY <3>1 DEF AllExact
  <2> QED BY <2>1, <1>1
<1> QED BY <1>1, <1>4, <1>5, <1>6, <1>7, <1>8, <1>9, FilesStay DEF OrderIInv

LEMMA BeginRunKeeps ==
  ASSUME OrderIInv, BeginRun
  PROVE  OrderIInv'
<1> DEFINE w == writer.n
           g == [run EXCEPT !.count = 1, !.first = w, !.last = w]
<1>1. /\ At("write") /\ ~(run.count > 0) /\ Same /\ run' = g /\ writer' = Resting
      /\ UNCHANGED <<files, legacy, nvsSeg, s_ready, seg, queue, rd, history>>
  BY DEF BeginRun, flash, state
<1>2. /\ w \in Nat /\ w >= 1 /\ w \in Int /\ sent[w] = run.body /\ run.body \in Bodies
      /\ w \notin lost /\ w \in ToCome
  BY <1>1, FrameInHand DEF Same
<1>3. run \in Line
  BY DEF OrderIInv, LogTypes
<1> HIDE DEF w
<1>4. g \in Line /\ g.count = 1 /\ g.first = w /\ g.last = w /\ g.body = run.body
  BY <1>2, <1>3 DEF Line
<1> HIDE DEF g
<1>5. CoverOf(g, sent, lost) = {w}
  <2>1. \A n \in CoverOf(g, sent, lost) : n = w
    BY <1>2, <1>4, CoverRange
  <2>2. w \in CoverOf(g, sent, lost)
    BY <1>2, <1>4 DEF CoverOf
  <2> QED BY <2>1, <2>2
<1>6. Exact(g, sent, lost)
  BY <1>4, <1>5, FS_Singleton DEF Exact
<1>7. \A n : ~PendingIn(n, run, sent, lost)
  BY <1>1 DEF PendingIn
<1>8. g.count > 0 /\ g.first \in 1..w /\ w \in CoverOf(g, sent, lost)
  BY <1>2, <1>4, <1>5
<1> QED BY <1>1, <1>2, <1>4, <1>6, <1>7, <1>8, RunGoesOn DEF w

LEMMA ExtendKeeps ==
  ASSUME OrderIInv, Extend
  PROVE  OrderIInv'
<1> DEFINE w == writer.n
           g == Grown
<1>1. /\ At("write") /\ run.count > 0 /\ Same /\ writer' = Resting
      /\ UNCHANGED <<legacy, nvsSeg, s_ready, seg, queue, rd>>
      /\ UNCHANGED history
  BY DEF Extend
<1>2. /\ g \in Line /\ g.count = run.count + 1 /\ g.first = run.first
      /\ g.last = w /\ g.body = run.body /\ Exact(g, sent, lost)
      /\ CoverOf(g, sent, lost) = CoverOf(run, sent, lost) \cup {w}
  BY <1>1, GrownIs
<1>3. /\ run.first \in ToCome /\ run.first >= 1 /\ run.first <= run.last /\ run.body \in Bodies
      /\ run.last < w /\ w \in Nat /\ run.first \in Int /\ run.last \in Int /\ run.count \in Nat
      /\ (\A j \in DOMAIN queue : w < queue[j]) /\ w < Len(sent) + 1 /\ s_ready
      /\ \A n : PendingIn(n, run, sent, lost) => n \in CoverOf(run, sent, lost)
  BY <1>1, PendingRun, FrameInHand, StateFacts
<1>4. CASE run' = Grown /\ UNCHANGED <<files, used>>
  <2>1. g.count > 0 /\ g.first \in 1..w /\ w \in CoverOf(g, sent, lost)
        /\ \A n : PendingIn(n, run, sent, lost) => n \in CoverOf(g, sent, lost)
    BY <1>2, <1>3
  <2> HIDE DEF g
  <2>2. run' = g
    BY <1>4 DEF g
  <2> QED BY <1>1, <1>2, <1>3, <1>4, <2>1, <2>2, RunGoesOn
<1>5. CASE Emit(Grown) /\ run' = [NoRun EXCEPT !.body = run.body]
  <2>1. files' = [files EXCEPT ![seg] = Append(@, g)] /\ run' = Ended(run.body)
    BY <1>5 DEF Emit, Ended
  <2>2. UNCHANGED <<queue, sent>>
    BY <1>1 DEF history
  <2>3. \A u \in ToCome' : w < u
    <3>1. ~(run'.count > 0)
      BY <2>1, <1>3, EndedIs
    <3>2. writer'.n = 0
      BY <1>1 DEF Resting
    <3> QED BY <1>3, <2>2, <3>1, <3>2, ToComeWillBe
  <2>4. \A n : PendingIn(n, run, sent, lost) \/ n = writer.n => n \in CoverOf(g, sent, lost)
    BY <1>2, <1>3
  <2> HIDE DEF g
  <2> QED BY <1>1, <1>2, <1>3, <2>1, <2>3, <2>4, EmitKeeps
<1> QED BY <1>4, <1>5 DEF Extend

LEMMA StoredIsCovered == Stored = CoveredIn(Seg)
BY DEF Stored, CoveredIn

\* Every segment is removed, and the download is not at work.
LEMMA AllGone ==
  ASSUME OrderIInv, rd.at = "idle", files' = [i \in Seg |-> <<>>], legacy' = <<>>, rd' = rd,
         nvsSeg' \in Seg, seg' \in Seg, s_ready' => seg' = nvsSeg', s_ready' \in BOOLEAN,
         run' \in Line, UNCHANGED <<queue, writer, sent>>,
         NEW m, m = lost \cup CoveredIn(Seg), lost' = m \/ lost' = m \cup Pending,
         ~Locked, (run' = run /\ lost' = m) \/ (run' = NoRun /\ lost' = m \cup Pending)
  PROVE  OrderIInv'
<1>1. (\A i \in Seg : files'[i] = <<>>) /\ files' \in [Seg -> Seq(Line)]
  BY NoLines
<1>2. /\ AllExact(files', run, sent, m)
      /\ \A n : StoredIn(n, files, sent, lost) => n \in m \/ StoredIn(n, files', sent, m)
      /\ \A n : PendingIn(n, run, sent, lost) => PendingIn(n, run, sent, m)
      /\ \A n : OnItsWay(n, sent, lost) /\ n \in ToCome => OnItsWay(n, sent, m)
      /\ m \subseteq DOMAIN sent
  BY <1>1, SegmentsGo
<1>3. Flow /\ LogTypes
  BY DEF OrderIInv
<1>4. \A n \in Pending : run.count > 0 /\ n \in CoverOf(run, sent, lost)
  BY <1>3, CoversIs, StateFacts DEF Pending, LogTypes
<1>5. \A n \in Pending : n \in DOMAIN sent
  <2> TAKE n \in Pending
  <2>1. n \in Nat /\ 1 <= run.first /\ run.first <= n /\ n <= run.last /\ run.last <= Len(sent)
    BY <1>3, <1>4, CoverRange DEF LogTypes, Flow
  <2> QED BY <2>1, StateFacts
<1>6. \A u : (u = writer.n /\ u # 0) \/ (\E j \in DOMAIN queue : u = queue[j])
             => u \notin Pending /\ u \in ToCome
  <2> TAKE u
  <2> HAVE (u = writer.n /\ u # 0) \/ (\E j \in DOMAIN queue : u = queue[j])
  <2>1. u \in ToCome /\ u \in Int
    BY ToComeIs, StateFacts
  <2>2. \A n \in Pending : n < u
    BY <1>4, PendingBelow
  <2> QED BY <2>1, <2>2
<1>7. LogTypes'
  BY <1>1, <1>2, <1>3, <1>5, NoLines DEF LogTypes
<1>8. Mounted'
  <2>1. ~Locked'
    BY DEF Locked
  <2> QED BY <2>1, <1>1 DEF OrderIInv, Mounted, Locked
<1>9. \A n : OnItsWay(n, sent, lost) /\ n \in ToCome /\ n \notin Pending => OnItsWay(n, sent, lost')
  <2>1. \A n : OnItsWay(n, sent, m) /\ n \notin Pending => OnItsWay(n, sent, m \cup Pending)
    BY DEF OnItsWay
  <2> QED BY <2>1, <1>2
<1>10. Flow'
  <2>1. \A j \in DOMAIN queue : OnItsWay(queue[j], sent, lost')
    BY <1>3, <1>6, <1>9 DEF Flow
  <2>2. writer.n > 0 => OnItsWay(writer.n, sent, lost')
    BY <1>3, <1>6, <1>9, StateFacts DEF Flow
  <2>3. InHand' \cup ToSet(queue)' = InHand \cup ToSet(queue)
    BY DEF InHand, ToSet
  <2>4. run' = run \/ ~(run'.count > 0)
    BY DEF NoRun
  <2> QED BY <2>1, <2>2, <2>3, <2>4, <1>3 DEF Flow
<1>11. Ordered(legacy)' /\ OldOnes'
  BY NoLines DEF OldOnes, Ordered
<1>12. PastOnly(files', <<>>, ToCome')
  BY <1>1, NoLines DEF PastOnly
<1>13. InOrder(files', nvsSeg')
  BY <1>1, NoLines DEF InOrder
<1>14. rd'.got = <<>> /\ rd'.at = "idle"
  BY DEF OrderIInv, Mounted
<1>15. ReadInOrder(files', nvsSeg', rd')
  BY <1>14, ReadNothing
<1>16. NoneForgotten'
  <2> SUFFICES ASSUME NEW n \in DOMAIN sent, sent[n] # Dropped, n \notin lost'
               PROVE  \/ PendingIn(n, run', sent, lost')
                      \/ n = writer.n \/ \E j \in DOMAIN queue : queue[j] = n
    BY DEF NoneForgotten
  <2>1. n \notin lost /\ n \notin m
    OBVIOUS
  <2>2. ~StoredIn(n, files', sent, m)
    BY <1>1, NoLines DEF StoredIn
  <2>3. PendingIn(n, run, sent, lost) => PendingIn(n, run', sent, lost')
    <3>1. PendingIn(n, run, sent, lost) => n \in Pending
      BY <1>3, CoversIs DEF PendingIn, Pending, LogTypes
    <3>2. (run' = run /\ lost' = m) \/ n \notin Pending
      OBVIOUS
    <3> QED BY <3>1, <3>2, <1>2
  <2> QED BY <2>1, <2>2, <2>3, <1>2 DEF OrderIInv, NoneForgotten
<1>17. AllExact(files', run', sent, lost')
  <2>1. CASE run' = run /\ lost' = m
    BY <2>1, <1>2
  <2>2. CASE run' = NoRun
    <3>1. ~(run'.count > 0)
      BY <2>2 DEF NoRun
    <3> QED BY <3>1, <1>1, NoLines DEF AllExact, Exact
  <2> QED BY <2>1, <2>2
<1>18. PastOnly(files, rd.got, ToCome)' /\ InOrder(files, nvsSeg)'
       /\ ReadInOrder(files, nvsSeg, rd)' /\ AllExact(files, run, sent, lost)'
  BY <1>12, <1>13, <1>14, <1>15, <1>17
<1> QED BY <1>7, <1>8, <1>10, <1>11, <1>16, <1>18 DEF OrderIInv

LEMMA NoRunFacts == NoRun \in Line /\ NoRun.count = 0 /\ \A s, l : Exact(NoRun, s, l)
BY DEF NoRun, Line, Exact

LEMMA ClearKeeps ==
  ASSUME OrderIInv, Clear
  PROVE  OrderIInv'
<1>1. /\ rd.at = "idle" /\ ~Locked /\ files' = [i \in Seg |-> <<>>] /\ legacy' = <<>>
      /\ seg' = 0 /\ nvsSeg' = 0 /\ run' = NoRun
      /\ UNCHANGED <<s_ready, queue, writer, rd, sent>>
      /\ lost' = lost \cup Pending \cup Stored
  BY DEF Clear
<1>2. 0 \in Seg
  BY SegFacts
<1>3. s_ready \in BOOLEAN
  BY DEF OrderIInv, LogTypes
<1> DEFINE m == lost \cup CoveredIn(Seg)
<1>4. lost' = m \cup Pending
  BY <1>1, StoredIsCovered
<1>5. m = lost \cup CoveredIn(Seg)
  OBVIOUS
<1> HIDE DEF m
<1> QED BY <1>1, <1>2, <1>3, <1>4, <1>5, NoRunFacts, AllGone

LEMMA FormatKeeps ==
  ASSUME OrderIInv, Format
  PROVE  OrderIInv'
<1>1. /\ rd.at = "idle" /\ ~Locked /\ files' = [i \in Seg |-> <<>>] /\ legacy' = <<>>
      /\ s_ready' = FALSE /\ lost' = lost \cup CoveredIn(Seg)
      /\ UNCHANGED <<nvsSeg, seg, run, queue, writer, rd, sent>>
  BY StoredIsCovered DEF Format
<1>2. run \in Line /\ seg \in Seg /\ nvsSeg \in Seg
  BY DEF OrderIInv, LogTypes
<1> QED BY <1>1, <1>2, AllGone

\* A mount leaves a log in order, whichever of its segments have to go.
LEMMA MountKeeps ==
  ASSUME OrderIInv, MountLog
  PROVE  OrderIInv'
<1> DEFINE old == legacy # <<>> /\ files[0] = <<>>
           start == IF old THEN [files EXCEPT ![0] = legacy] ELSE files
           sz == [i \in Seg |-> FileSize(start[i])]
           kept == Kept(sz, nvsSeg, Ceiling(sz))
           gone == {i \in Seg : sz[i] > 0 /\ kept[i] = 0}
           m == lost \cup UNION {CoversAll(start[i]) : i \in gone}
<1>1. /\ ~s_ready /\ rd.at = "idle"
      /\ files' = [i \in Seg |-> IF i \in gone THEN <<>> ELSE start[i]] /\ lost' = m
      /\ seg' = nvsSeg /\ legacy' = <<>> /\ s_ready' = TRUE
      /\ UNCHANGED <<nvsSeg, run, queue, writer, rd, sent>>
  BY DEF MountLog
<1>2. gone \in SUBSET Seg
  OBVIOUS
<1> HIDE DEF gone
<1>3. /\ nvsSeg \in Seg /\ files \in [Seg -> Seq(Line)] /\ legacy \in Seq(Line) /\ 0 \in Seg
      /\ rd \in Reads /\ rd.got = <<>> /\ lost \subseteq DOMAIN sent
  <2>1. rd.got = <<>>
    BY <1>1 DEF OrderIInv, Mounted
  <2> QED BY <2>1, SegFacts DEF OrderIInv, LogTypes
<1>4. /\ files' \in [Seg -> Seq(Line)]
      /\ InOrder(files', nvsSeg) /\ PastOnly(files', rd.got, ToCome)
      /\ AllExact(files', run, sent, m)
      /\ \A n : StoredIn(n, files, sent, lost) => n \in m \/ StoredIn(n, files', sent, m)
      /\ \A n : PendingIn(n, run, sent, lost) => PendingIn(n, run, sent, m)
      /\ \A n : OnItsWay(n, sent, lost) /\ n \in ToCome => OnItsWay(n, sent, m)
      /\ m \subseteq DOMAIN sent
  <2>1. CASE legacy = <<>>
    <3>1. start = files
      BY <2>1
    <3>2. m = lost \cup CoveredIn(gone)
      BY <3>1 DEF CoveredIn
    <3>3. /\ \A i \in gone : files'[i] = <<>>
          /\ \A i \in Seg \ gone : files'[i] = files[i]
      BY <1>1, <1>2, <3>1
    <3>4. files' \in [Seg -> Seq(Line)]
      BY <1>1, <1>3, <3>1, NoLines
    <3> HIDE DEF m, start
    <3> QED BY <1>2, <3>2, <3>3, <3>4, SegmentsGo
  <2>2. CASE legacy # <<>>
    <3>1. \A i \in Seg : files[i] = <<>>
      BY <2>2 DEF OrderIInv, Mounted
    <3>2. start = [files EXCEPT ![0] = legacy]
      BY <2>2, <3>1, <1>3
    <3>3. start[0] = legacy /\ \A i \in Seg : i # 0 => start[i] = <<>>
      BY <3>1, <3>2, <1>3
    <3> HIDE DEF start
    <3>4. /\ \A i \in Seg : i # 0 => files'[i] = <<>>
          /\ files'[0] = <<>> \/ files'[0] = legacy
          /\ files' = [i \in Seg |-> files'[i]]
      BY <1>1, <1>3, <3>3
    <3>5. files' \in [Seg -> Seq(Line)]
      BY <3>4, <1>3, NoLines
    <3>6. \A i \in Seg : files'[i] = <<>> \/ files'[i] = legacy
      BY <3>4
    <3>7. /\ Ordered(legacy)
          /\ \A k \in DOMAIN legacy : /\ legacy[k].first < 1 /\ legacy[k].last < 1
                                      /\ legacy[k].count = 0
      BY DEF OrderIInv, OldOnes
    <3>8. m = lost
      <4>1. CoversAll(legacy) = {}
        BY <3>7 DEF CoversAll, Covers
      <4>2. CoversAll(<<>>) = {}
        BY NoLines DEF CoversAll
      <4>3. \A i \in gone : CoversAll(start[i]) = {}
        BY <4>1, <4>2, <3>3, <1>2
      <4> QED BY <4>3
    <3>9. InOrder(files', nvsSeg)
      <4>1. \A i \in Seg : Ordered(files'[i])
        BY <3>6, <3>7, NoLines
      <4>2. \A i, j \in Seg : Rank(nvsSeg, i) < Rank(nvsSeg, j) => Before(files'[i], files'[j])
        <5> TAKE i, j \in Seg
        <5> HAVE Rank(nvsSeg, i) < Rank(nvsSeg, j)
        <5>1. i # j
          <6>1. Rank(nvsSeg, i) \in Int
            BY <1>3, Ranks
          <6> QED BY <6>1
        <5>2. files'[i] = <<>> \/ files'[j] = <<>>
          BY <5>1, <3>4
        <5> QED BY <5>2, NoLines
      <4> QED BY <4>1, <4>2 DEF InOrder
    <3>10. PastOnly(files', rd.got, ToCome)
      <4>1. \A u \in ToCome : u \in Int /\ u >= 1
        <5> TAKE u \in ToCome
        <5>1. \/ (run.count > 0 /\ u = run.first) \/ (writer.n # 0 /\ u = writer.n)
              \/ (\E j \in DOMAIN queue : u = queue[j]) \/ u = Len(sent) + 1
          BY ToComeIs
        <5>2. run.count > 0 => run.first >= 1
          BY PendingRun
        <5>3. writer.n # 0 => writer.n >= 1
          BY StateFacts
        <5>4. \A j \in DOMAIN queue : queue[j] >= 1
          BY StateFacts DEF OrderIInv, Flow, OnItsWay
        <5> QED BY <5>1, <5>2, <5>3, <5>4, StateFacts
      <4>2. \A u \in ToCome : AllBefore(legacy, u)
        <5> TAKE u \in ToCome
        <5> SUFFICES ASSUME NEW k \in DOMAIN legacy PROVE legacy[k].last < u
          BY DEF AllBefore
        <5>1. legacy[k].last \in Int
          BY <1>3, FileLine
        <5> QED BY <5>1, <3>7, <4>1
      <4> QED BY <4>2, <3>6, <1>3, NoLines DEF PastOnly
    <3>11. AllExact(files', run, sent, m)
      <4>1. \A k \in DOMAIN legacy : Exact(legacy[k], sent, lost)
        BY <3>7 DEF Exact
      <4>2. Exact(run, sent, lost)
        BY DEF OrderIInv, AllExact
      <4> QED BY <4>1, <4>2, <3>6, <3>8, NoLines DEF AllExact
    <3>12. \A n : ~StoredIn(n, files, sent, lost)
      BY <3>1, NoLines DEF StoredIn
    <3> QED BY <3>5, <3>8, <3>9, <3>10, <3>11, <3>12, <1>3
  <2> QED BY <2>1, <2>2
<1> HIDE DEF m
<1>5. LogTypes'
  BY <1>1, <1>3, <1>4, NoLines DEF OrderIInv, LogTypes
<1>6. Mounted'
  <2>1. ~Locked
    BY <1>1 DEF OrderIInv, Mounted
  <2>2. writer'.at # "switch"
    BY <2>1, <1>1 DEF Locked
  <2> QED BY <2>2, <1>1, <1>3 DEF OrderIInv, Mounted
<1>7. Flow'
  <2>1. Flow
    BY DEF OrderIInv
  <2>2. \A j \in DOMAIN queue : OnItsWay(queue[j], sent, m)
    BY <2>1, <1>4, ToComeIs DEF Flow
  <2>3. writer.n > 0 => OnItsWay(writer.n, sent, m)
    BY <2>1, <1>4, ToComeIs, StateFacts DEF Flow
  <2>4. InHand' = InHand /\ ToSet(queue)' = ToSet(queue)
    BY <1>1 DEF InHand
  <2> QED BY <2>1, <2>2, <2>3, <2>4, <1>1 DEF Flow
<1>8. Ordered(legacy)' /\ OldOnes'
  BY <1>1, NoLines DEF OldOnes, Ordered
<1>9. ToCome' = ToCome
  BY <1>1 DEF ToCome, InHand
<1>10. PastOnly(files, rd.got, ToCome)' /\ InOrder(files, nvsSeg)' /\ AllExact(files, run, sent, lost)'
  BY <1>1, <1>4, <1>9
<1>11. ReadInOrder(files', nvsSeg, rd)
  BY <1>1, <1>3, ReadNothing
<1>12. ReadInOrder(files, nvsSeg, rd)'
  BY <1>11, <1>1
<1>13. NoneForgotten'
  <2> SUFFICES ASSUME NEW n \in DOMAIN sent, sent[n] # Dropped, n \notin m
               PROVE  \/ StoredIn(n, files', sent, m) \/ PendingIn(n, run, sent, m)
                      \/ n = writer.n \/ \E j \in DOMAIN queue : queue[j] = n
    BY <1>1 DEF NoneForgotten
  <2>1. n \notin lost
    BY DEF m
  <2> QED BY <2>1, <1>4 DEF OrderIInv, NoneForgotten
<1> QED BY <1>5, <1>6, <1>7, <1>8, <1>10, <1>12, <1>13 DEF OrderIInv

\* The queue, the frame in hand and, unless it was written out, the pending run
\* go with the power.
LEMMA DownKeeps ==
  ASSUME OrderIInv, Down
  PROVE  OrderIInv'
<1> DEFINE h == lost \cup ToSet(queue) \cup InHand
           m == h \cup (IF files' = files THEN Pending ELSE {})
           U == {Len(sent) + 1}
<1>1. /\ lost' = m /\ s_ready' = FALSE /\ seg' = 0 /\ run' = NoRun /\ queue' = <<>>
      /\ writer' = Resting /\ rd' = NoRead /\ UNCHANGED <<legacy, nvsSeg, sent>>
  BY DEF Down
<1>2. /\ nvsSeg \in Seg /\ files \in [Seg -> Seq(Line)] /\ 0 \in Seg /\ run \in Line
      /\ lost \subseteq DOMAIN sent /\ Flow
  BY SegFacts DEF OrderIInv, LogTypes
<1>3. \A n : n \in ToSet(queue) \cup InHand
             <=> (n = writer.n /\ n # 0) \/ (\E j \in DOMAIN queue : n = queue[j])
  BY DEF ToSet, InHand
<1>4. \A n \in ToSet(queue) \cup InHand : n \in ToCome /\ n \in DOMAIN sent
  <2> TAKE n \in ToSet(queue) \cup InHand
  <2>1. OnItsWay(n, sent, lost)
    <3>1. writer.n # 0 => OnItsWay(writer.n, sent, lost)
      BY <1>2, StateFacts DEF Flow
    <3> QED BY <3>1, <1>2, <1>3 DEF Flow
  <2>2. n \in DOMAIN sent
    BY <2>1, StateFacts DEF OnItsWay
  <2> QED BY <2>2, <1>3, ToComeIs
<1>5. \A n \in Pending : run.count > 0 /\ n \in CoverOf(run, sent, lost)
  BY <1>2, CoversIs, StateFacts DEF Pending
<1>6. \A n \in Pending : n \in DOMAIN sent /\ n \in Int /\ run.first <= n
  <2> TAKE n \in Pending
  <2>1. n \in Nat /\ 1 <= run.first /\ run.first <= n /\ n <= run.last /\ run.last <= Len(sent)
    BY <1>2, <1>5, CoverRange DEF Flow
  <2> QED BY <2>1, StateFacts
<1>7. U \in SUBSET Int /\ \A u \in U : \E v \in ToCome : v <= u
  <2>1. Len(sent) + 1 \in ToCome /\ Len(sent) + 1 \in Int /\ Len(sent) + 1 <= Len(sent) + 1
    BY StateFacts, ToComeIs
  <2> QED BY <2>1
<1> HIDE DEF U
<1>8. ToCome' = U
  <2>1. ToCome' = {Len(sent) + 1}
    <3>1. ~(run'.count > 0) /\ writer'.n = 0 /\ DOMAIN queue' = {} /\ Len(sent') = Len(sent)
      BY <1>1, NoLines, NoRunFacts DEF Resting
    <3>2. \A u : u \in ToCome' <=> u = Len(sent) + 1
      BY <3>1, ToComeWillBe
    <3> QED BY <3>2
  <2> QED BY <2>1 DEF U
<1>9. AllExact(files, run, sent, h)
  <2>1. ASSUME NEW i \in Seg, NEW k \in DOMAIN files[i], NEW n \in CoverOf(files[i][k], sent, lost)
        PROVE  n \notin h
    <3>1. n \notin lost
      BY DEF CoverOf
    <3>2. \A u \in ToSet(queue) \cup InHand : n < u
      BY <1>4, CoversBelow
    <3>3. n \notin ToSet(queue) \cup InHand
      <4>1. \A u \in ToSet(queue) \cup InHand : u \in Int
        BY <1>4, StateFacts
      <4> QED BY <3>2, <4>1
    <3> QED BY <3>1, <3>3
  <2>2. ASSUME run.count > 0, NEW n \in CoverOf(run, sent, lost)
        PROVE  n \notin h
    <3>1. n \notin lost
      BY DEF CoverOf
    <3>2. n \notin ToSet(queue) \cup InHand
      <4>1. \A u \in ToSet(queue) \cup InHand : n < u /\ u \in Int
        BY <2>2, <1>3, <1>4, PendingBelow, StateFacts
      <4> QED BY <4>1
    <3> QED BY <3>1, <3>2
  <2>3. AllExact(files, run, sent, lost)
    BY DEF OrderIInv
  <2>4. lost \subseteq h
    OBVIOUS
  <2> HIDE DEF h
  <2> QED BY <2>1, <2>2, <2>3, <2>4, ExactLost
<1>10. m \subseteq DOMAIN sent
  BY <1>2, <1>4, <1>6
<1>11. PastOnly(files, rd.got, U) /\ InOrder(files, nvsSeg)
  <2>1. PastOnly(files, rd.got, ToCome) /\ files \in Files /\ rd.got \in Seq(Line)
        /\ ToCome \in SUBSET Int
    BY StateFacts DEF OrderIInv
  <2>2. PastOnly(files, rd.got, U)
    BY <2>1, <1>7, PastLater
  <2> QED BY <2>2 DEF OrderIInv
<1>12. /\ files' \in [Seg -> Seq(Line)]
       /\ InOrder(files', nvsSeg) /\ PastOnly(files', <<>>, U)
       /\ AllExact(files', NoRun, sent, m)
       /\ \A n : n \notin m /\ (StoredIn(n, files, sent, lost) \/ PendingIn(n, run, sent, lost))
                 => StoredIn(n, files', sent, m)
       /\ legacy # <<>> => \A i \in Seg : files'[i] = <<>>
  <2>1. CASE files' = files
    <3>1. PastOnly(files, <<>>, U)
      BY <1>11, PastCut
    <3>2. AllExact(files, NoRun, sent, h)
      BY <1>9, NoRunFacts DEF AllExact
    <3>3. ASSUME NEW i \in Seg, NEW k \in DOMAIN files[i], NEW n \in CoverOf(files[i][k], sent, h)
          PROVE  n \notin m
      <4>1. n \notin h /\ n \in CoverOf(files[i][k], sent, lost)
        BY DEF CoverOf
      <4>2. n \notin Pending
        <5> SUFFICES ASSUME n \in Pending PROVE FALSE
          OBVIOUS
        <5>1. run.first \in ToCome /\ run.first \in Int
          BY <1>5, ToComeIs, StateFacts
        <5>2. n < run.first
          BY <4>1, <5>1, CoversBelow
        <5> QED BY <5>1, <5>2, <1>6
      <4> QED BY <4>1, <4>2
    <3>4. AllExact(files, NoRun, sent, m)
      <4>1. h \subseteq m /\ ~(NoRun.count > 0)
        BY NoRunFacts
      <4> HIDE DEF h, m
      <4> QED BY <4>1, <3>2, <3>3, ExactLost
    <3>5. \A n : PendingIn(n, run, sent, lost) => n \in m
      <4>1. \A n : PendingIn(n, run, sent, lost) => n \in Pending
        BY <1>2, CoversIs DEF PendingIn, Pending
      <4> QED BY <4>1, <2>1
    <3>6. \A n : n \notin m /\ StoredIn(n, files, sent, lost) => StoredIn(n, files, sent, m)
      <4> HIDE DEF m
      <4> QED BY StoredLost
    <3>7. legacy # <<>> => \A i \in Seg : files[i] = <<>>
      BY DEF OrderIInv, Mounted
    <3> HIDE DEF m
    <3> QED BY <2>1, <3>1, <3>4, <3>5, <3>6, <3>7, <1>2, <1>11
  <2>2. CASE files' # files
    <3>1. /\ s_ready /\ run.count > 0 /\ files' = [files EXCEPT ![seg] = Append(@, run)]
      BY <2>2 DEF Down
    <3>2. seg = nvsSeg /\ legacy = <<>>
      BY <3>1 DEF OrderIInv, Mounted
    <3>3. m = h
      BY <2>2
    <3>4. /\ run.first \in ToCome /\ Exact(run, sent, lost) /\ run.last < Len(sent) + 1
          /\ \A n : PendingIn(n, run, sent, lost) => n \in CoverOf(run, sent, lost)
      BY <3>1, PendingRun
    <3>5. \A u \in U : run.last < u /\ \E v \in ToCome : v <= u
      BY <3>4, <1>7 DEF U
    <3>6. /\ files' \in Files /\ InOrder(files', nvsSeg) /\ PastOnly(files', rd.got, U)
          /\ \A n : StoredIn(n, files, sent, lost) \/ n \in CoverOf(run, sent, lost)
                    => StoredIn(n, files', sent, lost)
      BY <3>1, <3>2, <3>4, <3>5, <1>2, <1>7, Emitted
    <3>7. PastOnly(files', <<>>, U)
      BY <3>6, PastCut
    <3>8. AllExact(files', NoRun, sent, h)
      <4>1. files \in Files /\ Exact(run, sent, h) /\ Exact(NoRun, sent, h)
        BY <1>9, NoRunFacts, StateFacts DEF AllExact
      <4> HIDE DEF h
      <4> QED BY <4>1, <3>1, <3>2, <1>2, <1>9, ExactAppend
    <3>9. \A n : n \notin m /\ StoredIn(n, files', sent, lost) => StoredIn(n, files', sent, m)
      <4> HIDE DEF m
      <4> QED BY StoredLost
    <3> HIDE DEF m, h
    <3> QED BY <3>2, <3>3, <3>4, <3>6, <3>7, <3>8, <3>9 DEF Files
  <2> QED BY <2>1, <2>2
<1>13. \A n : n \in m \/ ~(n \in ToSet(queue) \cup InHand)
  OBVIOUS
<1> HIDE DEF m, h
<1>14. writer' \in [at : WriterPlaces, n : Nat] /\ writer'.at = "idle" /\ writer'.n = 0
  BY <1>1 DEF Resting, WriterPlaces
<1>15. LogTypes'
  <2>1. run' \in Line /\ rd' \in Reads
    BY <1>1, NoReadFacts, NoRunFacts
  <2>4. queue' \in Seq(Nat)
    BY <1>1
  <2>5. s_ready' \in BOOLEAN /\ seg' \in Seg
    BY <1>1, <1>2
  <2>2. lost' \subseteq DOMAIN sent'
    BY <1>1, <1>10
  <2>3. legacy' \in Seq(Line) /\ nvsSeg' \in Seg /\ sent' \in Seq(Bodies \cup {Dropped})
    BY <1>1 DEF OrderIInv, LogTypes
  <2> QED BY <2>1, <2>2, <2>3, <2>4, <2>5, <1>12, <1>14 DEF LogTypes
<1>16. Mounted'
  <2>1. ~(run'.count > 0) /\ rd'.at = "idle" /\ rd'.got = <<>> /\ ~Locked'
    BY <1>1, <1>14, NoRunFacts, NoReadFacts DEF Locked
  <2> QED BY <2>1, <1>1, <1>12, <1>14 DEF Mounted
<1>17. Flow'
  <2>1. ~(run'.count > 0) /\ DOMAIN queue' = {} /\ ~(writer'.n > 0)
    BY <1>1, <1>14, NoRunFacts, NoLines
  <2> QED BY <2>1, <1>14 DEF Flow
<1>18. Ordered(legacy)' /\ OldOnes'
  BY <1>1 DEF OrderIInv, OldOnes, Ordered
<1>19. ReadInOrder(files', nvsSeg, NoRead)
  BY NoReadFacts, ReadNothing
<1>20. /\ PastOnly(files, rd.got, ToCome)' /\ InOrder(files, nvsSeg)'
       /\ ReadInOrder(files, nvsSeg, rd)' /\ AllExact(files, run, sent, lost)'
  BY <1>1, <1>8, <1>12, <1>19, NoReadFacts
<1>21. NoneForgotten'
  <2> SUFFICES ASSUME NEW n \in DOMAIN sent, sent[n] # Dropped, n \notin m
               PROVE  StoredIn(n, files', sent, m)
    BY <1>1 DEF NoneForgotten
  <2>1. n \notin lost /\ n # 0
    BY StateFacts DEF m, h
  <2>2. ~(n = writer.n) /\ ~(\E j \in DOMAIN queue : queue[j] = n)
    BY <2>1, <1>3, <1>13
  <2>3. StoredIn(n, files, sent, lost) \/ PendingIn(n, run, sent, lost)
    BY <2>1, <2>2 DEF OrderIInv, NoneForgotten
  <2> QED BY <2>3, <1>12
<1> QED BY <1>15, <1>16, <1>17, <1>18, <1>20, <1>21 DEF OrderIInv

LEMMA LogStarts ==
  ASSUME LogInit
  PROVE  OrderIInv
<1>1. /\ files = [i \in Seg |-> <<>>] /\ nvsSeg = 0 /\ s_ready = FALSE /\ seg = 0
      /\ run = NoRun /\ queue = <<>> /\ writer = Resting /\ rd = NoRead /\ sent = <<>> /\ lost = {}
  BY DEF LogInit
<1>2. PICK k \in Legacy : legacy = [i \in 1..k |-> OldLine(i - k)]
  BY DEF LogInit
<1>3. k \in Nat
  BY CaptureLogAssumption
<1>4. \A i \in 1..k : /\ OldLine(i - k) \in Line /\ OldLine(i - k).count = 0
                      /\ OldLine(i - k).first = i - k /\ OldLine(i - k).last = i - k
  BY <1>3 DEF OldLine, Line
<1> HIDE DEF OldLine
<1>5. legacy \in Seq(Line) /\ DOMAIN legacy = 1..k
  BY <1>2, <1>3, <1>4, IsASeq
<1>6. Ordered(legacy) /\ OldOnes
  <2>1. \A i \in 1..k : legacy[i].first = i - k /\ legacy[i].last = i - k /\ legacy[i].count = 0
    BY <1>2, <1>4
  <2> QED BY <2>1, <1>3, <1>5 DEF Ordered, OldOnes
<1>7. \A i \in Seg : files[i] = <<>>
  BY <1>1
<1>8. 0 \in Seg
  BY SegFacts
<1>9. writer \in [at : WriterPlaces, n : Nat] /\ writer.at = "idle" /\ writer.n = 0
  BY <1>1 DEF Resting, WriterPlaces
<1>10. DOMAIN queue = {} /\ DOMAIN sent = {} /\ ~(run.count > 0) /\ rd.got = <<>> /\ rd.at = "idle"
       /\ queue \in Seq(Nat) /\ sent \in Seq(Bodies \cup {Dropped})
  BY <1>1, NoRunFacts, NoReadFacts
<1>11. LogTypes
  BY <1>1, <1>5, <1>8, <1>9, <1>10, NoRunFacts, NoReadFacts, NoLines DEF LogTypes
<1>12. Mounted
  BY <1>1, <1>7, <1>9, <1>10 DEF Mounted, Locked
<1>13. Flow
  BY <1>9, <1>10 DEF Flow
<1>14. PastOnly(files, rd.got, ToCome) /\ InOrder(files, nvsSeg)
  BY <1>7, <1>10, NoLines DEF PastOnly, InOrder
<1>15. ReadInOrder(files, nvsSeg, rd)
  BY <1>10, ReadNothing
<1>16. NoneForgotten
  BY <1>10 DEF NoneForgotten
<1>17. AllExact(files, run, sent, lost)
  BY <1>1, <1>7, NoLines, NoRunFacts DEF AllExact
<1> QED BY <1>6, <1>11, <1>12, <1>13, <1>14, <1>15, <1>16, <1>17 DEF OrderIInv

LEMMA LogSteps ==
  ASSUME OrderIInv, [LogNext]_logVars
  PROVE  OrderIInv'
<1>1. ASSUME NEW b \in Bodies, Arrive(b) PROVE OrderIInv'
  BY <1>1, ArriveKeeps
<1>2. CASE Writer
  BY <1>2, TakeKeeps, GiveUpKeeps, LockKeeps, RemoveOldestKeeps, SwitchKeeps, ExtendKeeps,
     BeginRunKeeps, FlushKeeps, WriteKeeps DEF Writer
<1>3. CASE Download
  BY <1>3, OpenKeeps, OpenSegmentKeeps, ReadLineKeeps, EndOfSegmentKeeps, CloseDownloadKeeps
     DEF Download
<1>4. CASE UNCHANGED logVars
  <2>1. UNCHANGED <<files, legacy, nvsSeg, s_ready, seg, run, queue, writer, rd, sent, lost>>
    BY <1>4 DEF logVars
  <2>2. rd' \in Reads /\ (rd'.at # "idle" => s_ready) /\ (rd'.at = "idle" => rd'.got = <<>>)
    BY <2>1 DEF OrderIInv, LogTypes, Mounted
  <2>3. PastOnly(files, rd'.got, ToCome) /\ ReadInOrder(files, nvsSeg, rd')
    <3>1. PastOnly(files, rd.got, ToCome) /\ ReadInOrder(files, nvsSeg, rd)
      BY DEF OrderIInv
    <3> QED BY <3>1, <2>1
  <2> QED BY <2>1, <2>2, <2>3, ReaderOnly DEF flash, history
<1> QED BY <1>1, <1>2, <1>3, <1>4, ClearKeeps, FormatKeeps, MountKeeps, DownKeeps DEF LogNext

\* What is stored, pending, in hand and queued stays in order of time, whatever the
\* interleaving of the three tasks and wherever the power goes.
THEOREM LogOrderInvariant == LogSpec => []OrderIInv
<1>1. LogInit => OrderIInv
  BY LogStarts
<1>2. OrderIInv /\ [LogNext]_logVars => OrderIInv'
  BY LogSteps
<1> QED BY <1>1, <1>2, PTL DEF LogSpec

\* A download sends no line twice and none out of order.
THEOREM DownloadsInOrder == LogSpec => []DownloadInOrder
<1>1. OrderIInv => DownloadInOrder
  BY DEF OrderIInv, ReadInOrder, DownloadInOrder
<1> QED BY <1>1, LogOrderInvariant, PTL

-----------------------------------------------------------------------------
(***************************************************************************)
(* What the order says of the log as a reader finds it.                    *)
(***************************************************************************)
LEMMA OrderOfAges ==
  ASSUME OrderIInv
  PROVE  LogInOrder
<1> SUFFICES ASSUME s_ready, NEW a \in 0..(Segments - 1)
             PROVE  /\ Ordered(files[SegAt(a)])
                    /\ \A b \in (a + 1)..(Segments - 1) : Before(files[SegAt(a)], files[SegAt(b)])
  BY DEF LogInOrder
<1>1. seg = nvsSeg /\ seg \in Seg /\ InOrder(files, nvsSeg) /\ Segments \in Nat
  BY SegFacts DEF OrderIInv, Mounted, LogTypes
<1>2. SegAt(a) \in Seg /\ Rank(seg, SegAt(a)) = a
  BY <1>1, SegAtIs
<1>3. ASSUME NEW b \in (a + 1)..(Segments - 1)
      PROVE  Before(files[SegAt(a)], files[SegAt(b)])
  <2>1. b \in 0..(Segments - 1) /\ a < b
    BY <1>1
  <2>2. SegAt(b) \in Seg /\ Rank(seg, SegAt(b)) = b
    BY <1>1, <2>1, SegAtIs
  <2> QED BY <1>1, <1>2, <2>1, <2>2 DEF InOrder
<1> QED BY <1>1, <1>2, <1>3 DEF InOrder

LEMMA CountsRight ==
  ASSUME OrderIInv
  PROVE  SummariesExact
<1> SUFFICES ASSUME NEW i \in Seg, NEW k \in DOMAIN files[i], files[i][k].count > 0
             PROVE  files[i][k].count = Cardinality(Covers(files[i][k]))
  BY DEF SummariesExact
<1>1. Covers(files[i][k]) = CoverOf(files[i][k], sent, lost)
  BY LinesPast, CoversIs
<1>2. Exact(files[i][k], sent, lost)
  BY DEF OrderIInv, AllExact
<1> QED BY <1>1, <1>2 DEF Exact

LEMMA PlaceIs ==
  ASSUME OrderIInv, NEW n, NEW p
  PROVE  p \in Places(n) <=>
           \/ \E i \in Seg : \E k \in DOMAIN files[i] :
                p = <<"file", i, k>> /\ n \in CoverOf(files[i][k], sent, lost)
           \/ p = <<"run", 0, n>> /\ run.count > 0 /\ n \in CoverOf(run, sent, lost)
           \/ p = <<"hand", 0, n>> /\ n = writer.n /\ n # 0
           \/ \E k \in DOMAIN queue : p = <<"queue", 0, k>> /\ queue[k] = n
<1> DEFINE A == UNION {{<<"file", i, k>> : k \in {m \in DOMAIN files[i] : n \in Covers(files[i][m])}}
                         : i \in Seg}
           B == {<<"run", 0, m>> : m \in Pending \cap {n}}
           C == {<<"hand", 0, m>> : m \in InHand \cap {n}}
           D == {<<"queue", 0, k>> : k \in {m \in DOMAIN queue : queue[m] = n}}
<1>1. Places(n) = A \cup B \cup C \cup D
  BY DEF Places
<1>2. p \in A <=> \E i \in Seg : \E k \in DOMAIN files[i] :
                    p = <<"file", i, k>> /\ n \in CoverOf(files[i][k], sent, lost)
  <2>1. p \in A <=> \E i \in Seg :
                      p \in {<<"file", i, k>> : k \in {m \in DOMAIN files[i] : n \in Covers(files[i][m])}}
    BY Zenon
  <2>2. p \in A <=> \E i \in Seg : \E k \in DOMAIN files[i] :
                    p = <<"file", i, k>> /\ n \in Covers(files[i][k])
    BY <2>1
  <2>3. \A i \in Seg : \A k \in DOMAIN files[i] :
          Covers(files[i][k]) = CoverOf(files[i][k], sent, lost)
    BY LinesPast, CoversIs
  <2> HIDE DEF A
  <2> QED BY <2>2, <2>3
<1>3. p \in B <=> p = <<"run", 0, n>> /\ run.count > 0 /\ n \in CoverOf(run, sent, lost)
  <2>1. p \in B <=> p = <<"run", 0, n>> /\ n \in Pending
    OBVIOUS
  <2>2. n \in Pending <=> run.count > 0 /\ n \in CoverOf(run, sent, lost)
    BY CoversIs, StateFacts DEF Pending, OrderIInv, LogTypes
  <2> QED BY <2>1, <2>2
<1>4. p \in C <=> p = <<"hand", 0, n>> /\ n = writer.n /\ n # 0
  <2>1. p \in C <=> p = <<"hand", 0, n>> /\ n \in InHand
    OBVIOUS
  <2> QED BY <2>1 DEF InHand
<1>5. p \in D <=> \E k \in DOMAIN queue : p = <<"queue", 0, k>> /\ queue[k] = n
  OBVIOUS
<1> HIDE DEF A, B, C, D
<1> QED BY <1>1, <1>2, <1>3, <1>4, <1>5

LEMMA OneFileLine ==
  ASSUME OrderIInv, NEW i \in Seg, NEW k \in DOMAIN files[i],
         NEW j \in Seg, NEW l \in DOMAIN files[j],
         NEW n, n \in CoverOf(files[i][k], sent, lost), n \in CoverOf(files[j][l], sent, lost)
  PROVE  i = j /\ k = l
<1> DEFINE x == files[i][k]
           y == files[j][l]
<1>1. x \in Line /\ y \in Line
  BY LinesPast
<1>2. nvsSeg \in Seg /\ InOrder(files, nvsSeg) /\ files[i] \in Seq(Line) /\ files[j] \in Seq(Line)
  BY DEF OrderIInv, LogTypes
<1>3. i = j \/ Rank(nvsSeg, i) < Rank(nvsSeg, j) \/ Rank(nvsSeg, j) < Rank(nvsSeg, i)
  <2>1. Rank(nvsSeg, i) \in Int /\ Rank(nvsSeg, j) \in Int
    BY <1>2, Ranks
  <2>2. Rank(nvsSeg, i) = Rank(nvsSeg, j) => i = j
    BY <1>2, Ranks
  <2> QED BY <2>1, <2>2
<1>4. i # j => x.last < y.first \/ y.last < x.first
  BY <1>2, <1>3 DEF InOrder, Before
<1>5. i = j /\ k # l => x.last < y.first \/ y.last < x.first
  <2>1. i = j => k < l \/ l < k \/ k = l
    BY <1>2, FileLine
  <2> QED BY <2>1, <1>2 DEF InOrder, Ordered
<1>6. n \in CoverOf(x, sent, lost) /\ n \in CoverOf(y, sent, lost)
  OBVIOUS
<1> HIDE DEF x, y
<1>7. n \in Nat /\ x.first <= n /\ n <= x.last /\ y.first <= n /\ n <= y.last
      /\ x.first \in Int /\ x.last \in Int /\ y.first \in Int /\ y.last \in Int
  BY <1>1, <1>6, CoverRange, LineFields
<1> QED BY <1>4, <1>5, <1>7

LEMMA OnePlace ==
  ASSUME OrderIInv, NEW n \in Int, NEW p \in Places(n), NEW q \in Places(n)
  PROVE  p = q
<1> DEFINE File(r) == \E i \in Seg : \E k \in DOMAIN files[i] :
                        r = <<"file", i, k>> /\ n \in CoverOf(files[i][k], sent, lost)
           Run(r) == r = <<"run", 0, n>> /\ run.count > 0 /\ n \in CoverOf(run, sent, lost)
           Hand(r) == r = <<"hand", 0, n>> /\ n = writer.n /\ n # 0
           Queue(r) == \E k \in DOMAIN queue : r = <<"queue", 0, k>> /\ queue[k] = n
<1>1. (File(p) \/ Run(p) \/ Hand(p) \/ Queue(p)) /\ (File(q) \/ Run(q) \/ Hand(q) \/ Queue(q))
  BY PlaceIs
<1>2. ASSUME NEW r, NEW s, File(r), Run(s) \/ Hand(s) \/ Queue(s)
      PROVE  FALSE
  <2>1. \A u \in ToCome : n < u
    BY <1>2, CoversBelow
  <2>2. Run(s) => run.first \in ToCome /\ run.first <= n /\ run.first \in Int
    <3>1. run \in Line
      BY DEF OrderIInv, LogTypes
    <3> QED BY <3>1, ToComeIs, CoverRange, StateFacts
  <2>3. Hand(s) => n \in ToCome
    BY ToComeIs
  <2>4. Queue(s) => n \in ToCome
    BY ToComeIs
  <2> QED BY <1>2, <2>1, <2>2, <2>3, <2>4
<1>3. ASSUME NEW r, NEW s, Run(r), Hand(s) \/ Queue(s)
      PROVE  FALSE
  <2>1. n < n
    BY <1>3, PendingBelow
  <2> QED BY <2>1
<1>4. ASSUME NEW r, NEW s, Hand(r), Queue(s)
      PROVE  FALSE
  <2>1. writer.n > 0
    BY <1>4, StateFacts
  <2>2. Flow
    BY DEF OrderIInv
  <2>3. \A j \in DOMAIN queue : writer.n < queue[j]
    BY <2>1, <2>2 DEF Flow
  <2> QED BY <1>4, <2>3
<1>5. File(p) /\ File(q) => p = q
  BY OneFileLine
<1>6. Queue(p) /\ Queue(q) => p = q
  <2> SUFFICES ASSUME NEW k \in DOMAIN queue, NEW l \in DOMAIN queue, queue[k] = n, queue[l] = n
               PROVE  k = l
    OBVIOUS
  <2>1. k \in Int /\ l \in Int
    BY StateFacts
  <2>2. ~(k < l) /\ ~(l < k)
    BY DEF OrderIInv, Flow
  <2> QED BY <2>1, <2>2
<1>7. (Run(p) /\ Run(q) => p = q) /\ (Hand(p) /\ Hand(q) => p = q)
  OBVIOUS
<1> HIDE DEF File, Run, Hand, Queue
<1> QED BY <1>1, <1>2, <1>3, <1>4, <1>5, <1>6, <1>7

LEMMA EveryFrameOnce ==
  ASSUME OrderIInv
  PROVE  FramesAccounted
<1> SUFFICES ASSUME NEW n \in DOMAIN sent, sent[n] # Dropped, n \notin lost
             PROVE  \E p \in Places(n) : Places(n) = {p}
  BY DEF FramesAccounted
<1>1. n \in Int /\ n # 0
  BY StateFacts
<1>2. \/ StoredIn(n, files, sent, lost) \/ PendingIn(n, run, sent, lost)
      \/ n = writer.n \/ \E j \in DOMAIN queue : queue[j] = n
  BY DEF OrderIInv, NoneForgotten
<1>3. \E p : p \in Places(n)
  <2>1. CASE StoredIn(n, files, sent, lost)
    <3>1. PICK i \in Seg : \E k \in DOMAIN files[i] : n \in CoverOf(files[i][k], sent, lost)
      BY <2>1 DEF StoredIn
    <3>2. PICK k \in DOMAIN files[i] : n \in CoverOf(files[i][k], sent, lost)
      BY <3>1
    <3>3. <<"file", i, k>> \in Places(n)
      BY <3>2, PlaceIs
    <3> QED BY <3>3
  <2>2. CASE PendingIn(n, run, sent, lost)
    <3>1. <<"run", 0, n>> \in Places(n)
      BY <2>2, PlaceIs DEF PendingIn
    <3> QED BY <3>1
  <2>3. CASE n = writer.n
    <3>1. <<"hand", 0, n>> \in Places(n)
      BY <2>3, <1>1, PlaceIs
    <3> QED BY <3>1
  <2>4. CASE \E j \in DOMAIN queue : queue[j] = n
    <3>1. PICK j \in DOMAIN queue : queue[j] = n
      BY <2>4
    <3>2. <<"queue", 0, j>> \in Places(n)
      BY <3>1, PlaceIs
    <3> QED BY <3>2
  <2> QED BY <1>2, <2>1, <2>2, <2>3, <2>4
<1>4. PICK p : p \in Places(n)
  BY <1>3
<1>5. Places(n) = {p}
  BY <1>1, <1>4, OnePlace
<1> QED BY <1>4, <1>5

-----------------------------------------------------------------------------
(***************************************************************************)
(* Room.                                                                   *)
(***************************************************************************)
Sizes == [Seg -> Nat]

LEMMA RoomFacts ==
  /\ Segments \in Nat /\ Segments >= 2 /\ SummarySize \in Nat /\ SummarySize >= 1
  /\ SegMin \in Nat /\ SegMin >= 1 /\ SegMax \in Nat /\ SegMin <= SegMax /\ Budget \in Nat
  /\ Reserve \in Nat /\ Total = Budget + Reserve
  /\ Segments * SegMax <= Budget /\ Segments * SummarySize <= Reserve
  /\ SegStep \in Nat /\ SegStep >= 1 /\ SegStep <= SegMin
<1>1. /\ Segments \in Nat /\ Segments >= 2 /\ SummarySize \in Nat /\ SummarySize >= 1
      /\ SegMin \in Nat /\ SegMin >= 1 /\ SegMin <= SegMax
      /\ Reserve \in Nat /\ Total \in Nat /\ Total > Reserve /\ Segments * SummarySize <= Reserve
      /\ SegStep \in Nat /\ SegStep >= 1 /\ SegStep <= SegMin
  BY CaptureLogAssumption
<1>2. Budget \in Nat /\ Total = Budget + Reserve
  BY <1>1 DEF Budget
<1>3. SegMax \in Nat /\ Segments * SegMax <= Budget
  <2> HIDE DEF Budget
  <2>1. \A a \in Nat, b \in Nat : b >= 2 => a \div b \in Nat /\ b * (a \div b) <= a
    OBVIOUS
  <2> QED BY <2>1, <1>1, <1>2 DEF SegMax
<1> QED BY <1>1, <1>2, <1>3

\* Room for every segment at a ceiling.
LEMMA RoomForAll ==
  ASSUME NEW c \in Nat, c <= SegMax + SummarySize
  PROVE  Segments * c <= Total /\ Leaves(c)
<1>1. /\ Segments \in Nat /\ Segments >= 2 /\ SummarySize \in Nat
      /\ SegMin \in Nat /\ SegMax \in Nat /\ SegMin <= SegMax /\ Budget \in Nat
      /\ Reserve \in Nat /\ Total = Budget + Reserve
      /\ Segments * SegMax <= Budget /\ Segments * SummarySize <= Reserve
  BY RoomFacts
<1> DEFINE top == SegMax + SummarySize
           floor == SegMin + SummarySize
<1>2. Segments * top = Segments * SegMax + Segments * SummarySize
  BY <1>1
<1>3. top \in Nat /\ floor \in Nat /\ floor <= top /\ c <= top
  BY <1>1
<1> HIDE DEF top, floor
<1>4. \A s, a, b \in Nat : a <= b => s * a <= s * b
  OBVIOUS
<1>5. Segments * c <= Segments * top /\ (Segments - 1) * floor <= (Segments - 1) * top
      /\ (Segments - 1) * floor \in Int
  BY <1>1, <1>3, <1>4
<1>6. (Segments - 1) * top + top = Segments * top
  BY <1>1, <1>3
<1>7. Segments * top <= Total
  BY <1>1, <1>2
<1>8. Segments * c <= Total
  BY <1>1, <1>3, <1>5, <1>7
<1>9. c + (Segments - 1) * floor <= Total
  BY <1>1, <1>3, <1>5, <1>6, <1>7
<1> QED BY <1>8, <1>9 DEF Leaves, floor

LEMMA SpaceIs ==
  ASSUME NEW sz \in Sizes, NEW p
  PROVE  p \in Space(sz) <=> \E i \in Seg : \E k \in 1..sz[i] : p = <<i, k>>
BY DEF Space

LEMMA SpaceFinite ==
  ASSUME NEW sz \in Sizes
  PROVE  IsFiniteSet(Space(sz)) /\ Sum(sz) \in Nat
<1> DEFINE f == [i \in Seg |-> {i} \X (1..sz[i])]
           W == {{i} \X (1..sz[i]) : i \in Seg}
<1>1. f \in Surjection(Seg, W)
  BY DEF Surjection
<1>2. IsFiniteSet(Seg)
  BY SegFacts, FS_Interval
<1>3. IsFiniteSet(W)
  <2> HIDE DEF f, W
  <2> QED BY <1>1, <1>2, FS_Surjection
<1>4. \A i \in Seg : IsFiniteSet({i} \X (1..sz[i]))
  <2> TAKE i \in Seg
  <2>1. sz[i] \in Int
    BY DEF Sizes
  <2>3. IsFiniteSet({i})
    BY FS_Singleton
  <2>4. IsFiniteSet(1..sz[i])
    BY <2>1, FS_Interval
  <2>2. IsFiniteSet({i}) /\ IsFiniteSet(1..sz[i])
    BY <2>3, <2>4
  <2> QED BY <2>2, FS_Product
<1>5. \A t \in W : IsFiniteSet(t)
  BY <1>4
<1>6. IsFiniteSet(UNION W)
  <2> HIDE DEF W
  <2> QED BY <1>3, <1>5, FS_UNION
<1>7. Space(sz) = UNION W
  BY DEF Space
<1> QED BY <1>6, <1>7, FS_CardinalityType DEF Sum

LEMMA SumMonotone ==
  ASSUME NEW sz \in Sizes, NEW tz \in Sizes, \A i \in Seg : sz[i] <= tz[i]
  PROVE  Sum(sz) <= Sum(tz) /\ Sum(sz) \in Nat /\ Sum(tz) \in Nat
<1>1. \A p : p \in Space(sz) => p \in Space(tz)
  <2> SUFFICES ASSUME NEW i \in Seg, NEW k \in 1..sz[i] PROVE k \in 1..tz[i]
    BY SpaceIs
  <2>1. sz[i] \in Int /\ tz[i] \in Int
    BY DEF Sizes
  <2> QED BY <2>1
<1>2. Space(sz) \in SUBSET Space(tz)
  BY <1>1
<1> QED BY <1>2, SpaceFinite, FS_Subset DEF Sum

\* One segment may be big.
LEMMA SumOneBig ==
  ASSUME NEW sz \in Sizes, NEW j \in Seg, NEW b \in Nat, sz[j] <= b,
         NEW c \in Nat, \A i \in Seg \ {j} : sz[i] <= c
  PROVE  Sum(sz) <= b + (Segments - 1) * c
<1> DEFINE A == {j} \X (1..b)
           B == (Seg \ {j}) \X (1..c)
<1>1. IsFiniteSet(Seg) /\ Cardinality(Seg) = Segments
  <2>1. 0 \in Int /\ Segments - 1 \in Int /\ ~(0 > Segments - 1) /\ Segments \in Nat
    BY SegFacts
  <2>2. Cardinality(0..(Segments - 1)) = (Segments - 1) - 0 + 1 /\ IsFiniteSet(0..(Segments - 1))
    BY <2>1, FS_Interval
  <2> QED BY <2>1, <2>2 DEF Seg
<1>2. IsFiniteSet(Seg \ {j}) /\ Cardinality(Seg \ {j}) = Segments - 1
  BY <1>1, FS_RemoveElement
<1>3. \A n \in Nat : IsFiniteSet(1..n) /\ Cardinality(1..n) = n
  BY FS_Interval
<1>4. IsFiniteSet(A) /\ Cardinality(A) = b
  <2>1. IsFiniteSet({j}) /\ Cardinality({j}) = 1
    BY FS_Singleton
  <2>3. IsFiniteSet(1..b) /\ Cardinality(1..b) = b
    BY <1>3
  <2> DEFINE J == {j}  N == 1..b
  <2> HIDE DEF J, N
  <2>4. IsFiniteSet(J) /\ Cardinality(J) = 1 /\ IsFiniteSet(N) /\ Cardinality(N) = b
    BY <2>1, <2>3 DEF J, N
  <2>5. IsFiniteSet(J \X N) /\ Cardinality(J \X N) = 1 * b
    BY <2>4, FS_Product
  <2> QED BY <2>5 DEF J, N
<1>5. IsFiniteSet(B) /\ Cardinality(B) = (Segments - 1) * c
  <2>1. IsFiniteSet(1..c) /\ Cardinality(1..c) = c
    BY <1>3
  <2> DEFINE J == Seg \ {j}  N == 1..c
  <2> HIDE DEF J, N
  <2>2. IsFiniteSet(J) /\ Cardinality(J) = Segments - 1 /\ IsFiniteSet(N) /\ Cardinality(N) = c
    BY <1>2, <2>1 DEF J, N
  <2>3. IsFiniteSet(J \X N) /\ Cardinality(J \X N) = (Segments - 1) * c
    BY <2>2, FS_Product
  <2> QED BY <2>3 DEF J, N
<1>6. \A p : p \in Space(sz) => p \in A \cup B
  <2> SUFFICES ASSUME NEW i \in Seg, NEW k \in 1..sz[i] PROVE <<i, k>> \in A \cup B
    BY SpaceIs
  <2>1. sz[i] \in Int
    BY DEF Sizes
  <2> QED BY <2>1
<1> HIDE DEF A, B
<1>7. Space(sz) \in SUBSET (A \cup B)
  BY <1>6
<1>8. /\ IsFiniteSet(A \cup B) /\ Cardinality(A \cup B) = Cardinality(A) + Cardinality(B) - Cardinality(A \cap B)
      /\ Cardinality(A \cap B) \in Nat /\ Cardinality(A) \in Nat /\ Cardinality(B) \in Nat
  BY <1>4, <1>5, FS_Union, FS_Intersection, FS_CardinalityType
<1>9. Sum(sz) <= Cardinality(A \cup B) /\ Sum(sz) \in Nat
  BY <1>7, <1>8, FS_Subset, SpaceFinite DEF Sum
<1> DEFINE x == Cardinality(A) y == Cardinality(B) z == Cardinality(A \cap B) s == Sum(sz)
<1>10. s <= x + y - z /\ x \in Nat /\ y \in Nat /\ z \in Nat /\ s \in Nat
  BY <1>8, <1>9
<1> HIDE DEF x, y, z, s
<1>11. s <= x + y
  BY <1>10
<1> QED BY <1>11, <1>4, <1>5 DEF x, y, s

LEMMA SumLifted ==
  ASSUME NEW sz \in Sizes, NEW tz \in Sizes, NEW c \in Nat, \A i \in Seg : tz[i] <= sz[i] + c
  PROVE  Sum(tz) <= Sum(sz) + Segments * c
<1> DEFINE A == Space(sz)
           W == {p \in Space(tz) : p \notin A}
           B == Seg \X (1..c)
           g == [p \in W |-> <<p[1], p[2] - sz[p[1]]>>]
<1>1. IsFiniteSet(B) /\ Cardinality(B) = Segments * c
  <2>1. 0 \in Int /\ Segments - 1 \in Int /\ ~(0 > Segments - 1) /\ Segments \in Nat
    BY SegFacts
  <2>2. Cardinality(0..(Segments - 1)) = (Segments - 1) - 0 + 1 /\ IsFiniteSet(0..(Segments - 1))
    BY <2>1, FS_Interval
  <2>3. IsFiniteSet(Seg) /\ Cardinality(Seg) = Segments
    BY <2>1, <2>2 DEF Seg
  <2>4. IsFiniteSet(1..c) /\ Cardinality(1..c) = c
    BY FS_Interval
  <2> QED BY <2>3, <2>4, FS_Product
<1>2. \A p \in W : /\ p = <<p[1], p[2]>> /\ p[1] \in Seg /\ p[2] \in Int
                   /\ p[2] - sz[p[1]] \in 1..c /\ sz[p[1]] \in Int
  <2> TAKE p \in W
  <2>1. PICK i \in Seg : \E k \in 1..tz[i] : p = <<i, k>>
    BY SpaceIs
  <2>2. PICK k \in 1..tz[i] : p = <<i, k>>
    BY <2>1
  <2>3. k \notin 1..sz[i]
    BY <2>2, SpaceIs
  <2>4. sz[i] \in Nat /\ tz[i] \in Nat /\ tz[i] <= sz[i] + c
    BY DEF Sizes
  <2>5. k \in Int /\ k - sz[i] \in 1..c
    BY <2>3, <2>4
  <2> QED BY <2>2, <2>4, <2>5
<1>3. g \in [W -> B]
  BY <1>2
<1>4. \A p, q \in W : g[p] = g[q] => p = q
  <2> SUFFICES ASSUME NEW p \in W, NEW q \in W, g[p] = g[q] PROVE p = q
    OBVIOUS
  <2>1. p[1] = q[1] /\ p[2] - sz[p[1]] = q[2] - sz[q[1]]
    OBVIOUS
  <2>2. p[2] = q[2]
    BY <2>1, <1>2
  <2> QED BY <2>1, <2>2, <1>2
<1>5. g \in Injection(W, B)
  BY <1>3, <1>4 DEF Injection, IsInjective
<1> HIDE DEF g, B
<1>6. IsFiniteSet(W) /\ Cardinality(W) <= Cardinality(B)
  BY <1>1, <1>5, FS_Injection
<1>7. IsFiniteSet(A) /\ Sum(sz) = Cardinality(A)
  BY SpaceFinite DEF Sum
<1>8. Space(tz) \in SUBSET (A \cup W)
  OBVIOUS
<1> HIDE DEF A, W
<1>9. /\ IsFiniteSet(A \cup W) /\ Cardinality(A \cup W) = Cardinality(A) + Cardinality(W) - Cardinality(A \cap W)
      /\ Cardinality(A \cap W) \in Nat /\ Cardinality(A) \in Nat /\ Cardinality(W) \in Nat
  BY <1>6, <1>7, FS_Union, FS_Intersection, FS_CardinalityType
<1>10. Sum(tz) <= Cardinality(A \cup W) /\ Sum(tz) \in Nat
  BY <1>8, <1>9, FS_Subset, SpaceFinite DEF Sum
<1> DEFINE x == Cardinality(A) y == Cardinality(W) z == Cardinality(A \cap W) s == Sum(tz)
           v == Segments * c
<1>11. s <= x + y - z /\ x \in Nat /\ y \in Nat /\ z \in Nat /\ s \in Nat /\ y <= v /\ v \in Int
  BY <1>1, <1>6, <1>9, <1>10, SegFacts
<1> HIDE DEF x, y, z, s, v
<1>12. s <= x + v
  BY <1>11
<1> QED BY <1>12, <1>7 DEF x, s, v

\* The sizes of the files.
Summaries(f) == {k \in DOMAIN f : f[k].count > 0}

LEMMA FileSizeIs ==
  ASSUME NEW f \in Seq(Line)
  PROVE  /\ IsFiniteSet(Summaries(f)) /\ Cardinality(Summaries(f)) \in Nat
         /\ FileSize(f) = Len(f) + (SummarySize - 1) * Cardinality(Summaries(f))
         /\ FileSize(f) \in Nat
<1>1. Len(f) \in Nat /\ DOMAIN f = 1..Len(f)
  BY LenProperties
<1>2. IsFiniteSet(1..Len(f))
  BY <1>1, FS_Interval
<1>3. Summaries(f) \in SUBSET (1..Len(f))
  BY <1>1 DEF Summaries
<1>4. IsFiniteSet(Summaries(f)) /\ Cardinality(Summaries(f)) \in Nat
  BY <1>2, <1>3, FS_Subset, FS_CardinalityType
<1> DEFINE c == Cardinality(Summaries(f))
<1>5. FileSize(f) = Len(f) + (SummarySize - 1) * c
  BY DEF FileSize, Summaries
<1>6. c \in Nat /\ SummarySize \in Nat /\ SummarySize >= 1
  BY <1>4, RoomFacts
<1> HIDE DEF c
<1>7. (SummarySize - 1) * c \in Nat
  <2>1. \A a, b \in Nat : a * b \in Nat
    OBVIOUS
  <2>2. SummarySize - 1 \in Nat
    BY <1>6
  <2> QED BY <2>1, <2>2, <1>6
<1>8. FileSize(f) \in Nat
  BY <1>1, <1>5, <1>7
<1> QED BY <1>4, <1>5, <1>8 DEF c

LEMMA NoFileSize == FileSize(<<>>) = 0
<1>1. Summaries(<<>>) = {}
  BY NoLines DEF Summaries
<1>2. Cardinality({}) = 0
  BY FS_EmptySet
<1>3. <<>> \in Seq(Line) /\ Len(<<>>) = 0
  BY NoLines
<1>4. FileSize(<<>>) = 0 + (SummarySize - 1) * 0
  BY <1>1, <1>2, <1>3, FileSizeIs
<1> QED BY <1>4, RoomFacts

LEMMA LineSizes ==
  ASSUME NEW x \in Line
  PROVE  /\ LineSize(x) \in Nat /\ LineSize(x) <= SummarySize
         /\ x.count = 0 => LineSize(x) = 1
BY RoomFacts DEF LineSize

LEMMA FileSizeGrows ==
  ASSUME NEW f \in Seq(Line), NEW x \in Line
  PROVE  FileSize(Append(f, x)) = FileSize(f) + LineSize(x)
<1> DEFINE g == Append(f, x)
           l == Len(f) + 1
           a == Summaries(f)
           b == Summaries(g)
<1>1. /\ g \in Seq(Line) /\ Len(g) = l /\ Len(f) \in Nat
      /\ DOMAIN g = DOMAIN f \cup {l} /\ g[l] = x
      /\ \A k \in DOMAIN f : g[k] = f[k] /\ k \in Nat /\ k < l
  BY LineAppended
<1>2. l \notin DOMAIN f
  BY <1>1
<1> HIDE DEF g
<1>3. b = IF x.count > 0 THEN a \cup {l} ELSE a
  <2> HIDE DEF l
  <2> QED BY <1>1 DEF Summaries
<1>4. l \notin a
  BY <1>2 DEF Summaries
<1>5. IsFiniteSet(a) /\ Cardinality(a) \in Nat /\ x.count \in Nat
  BY FileSizeIs, LineFields
<1>6. /\ FileSize(f) = Len(f) + (SummarySize - 1) * Cardinality(a)
      /\ FileSize(g) = Len(g) + (SummarySize - 1) * Cardinality(b)
  BY <1>1, FileSizeIs
<1> HIDE DEF a, b
<1>7. CASE x.count > 0
  <2>1. Cardinality(b) = Cardinality(a) + 1
    BY <1>3, <1>4, <1>5, <1>7, FS_AddElement
  <2>2. LineSize(x) = SummarySize
    BY <1>7 DEF LineSize
  <2> DEFINE c == Cardinality(a)
  <2>3. c \in Nat /\ SummarySize \in Nat
    BY <1>5, RoomFacts
  <2>6. FileSize(g) = l + (SummarySize - 1) * (c + 1) /\ FileSize(f) = Len(f) + (SummarySize - 1) * c
    BY <2>1, <1>1, <1>6
  <2> HIDE DEF c
  <2>4. (SummarySize - 1) * (c + 1) = (SummarySize - 1) * c + (SummarySize - 1)
        /\ (SummarySize - 1) * c \in Int
    BY <2>3
  <2> DEFINE v == (SummarySize - 1) * c
  <2>7. /\ FileSize(g) = l + (v + (SummarySize - 1)) /\ FileSize(f) = Len(f) + v /\ v \in Int
    BY <2>4, <2>6
  <2> HIDE DEF v
  <2>5. FileSize(g) = FileSize(f) + LineSize(x)
    BY <2>2, <2>3, <2>7, <1>1
  <2> QED BY <2>5 DEF g
<1>8. CASE ~(x.count > 0)
  <2>1. Cardinality(b) = Cardinality(a) /\ LineSize(x) = 1
    BY <1>3, <1>5, <1>8 DEF LineSize
  <2> DEFINE c == (SummarySize - 1) * Cardinality(a)
  <2>2. c \in Int
    BY <1>5, RoomFacts
  <2>3. FileSize(g) = l + c /\ FileSize(f) = Len(f) + c
    BY <2>1, <1>1, <1>6
  <2> HIDE DEF c
  <2>4. FileSize(g) = FileSize(f) + LineSize(x)
    BY <2>1, <2>2, <2>3, <1>1
  <2> QED BY <2>4 DEF g
<1> QED BY <1>7, <1>8

LEMMA SizesTyped ==
  ASSUME NEW F \in Files
  PROVE  /\ SizeOf(F) \in Sizes /\ \A i \in Seg : FileSize(F[i]) \in Nat /\ SizeOf(F)[i] = FileSize(F[i])
         /\ \A m \in Nat :
              /\ BoundOf(F, m) \in Sizes
              /\ \A i \in Seg : BoundOf(F, m)[i] = IF FileSize(F[i]) > m + SummarySize
                                                   THEN FileSize(F[i]) ELSE m + SummarySize
<1>1. \A i \in Seg : FileSize(F[i]) \in Nat
  BY FileSizeIs DEF Files
<1>2. SummarySize \in Nat
  BY RoomFacts
<1> QED BY <1>1, <1>2 DEF SizeOf, BoundOf, Sizes

\* A set of files with nothing bigger than in another.
LEMMA RoomStays ==
  ASSUME NEW F \in Files, NEW G \in Files, \A i \in Seg : FileSize(G[i]) <= FileSize(F[i]),
         Wide(F)
  PROVE  /\ Sum(SizeOf(G)) <= Sum(SizeOf(F)) /\ Sum(SizeOf(G)) \in Nat /\ Sum(SizeOf(F)) \in Nat
         /\ Wide(G) /\ \A m \in Nat : HasRoom(F, m) => HasRoom(G, m)
<1>1. SummarySize \in Nat /\ Segments \in Nat /\ SegMin \in Nat /\ Total \in Int
  BY RoomFacts
<1>2. Sum(SizeOf(G)) <= Sum(SizeOf(F)) /\ Sum(SizeOf(G)) \in Nat /\ Sum(SizeOf(F)) \in Nat
  BY SizesTyped, SumMonotone
<1>3. Wide(G)
  <2> SUFFICES ASSUME NEW i \in Seg PROVE Leaves(FileSize(G[i]))
    BY DEF Wide
  <2> DEFINE a == FileSize(G[i]) b == FileSize(F[i]) c == (Segments - 1) * (SegMin + SummarySize)
  <2>1. a \in Nat /\ b \in Nat /\ a <= b /\ c \in Int /\ b + c <= Total
    BY <1>1, SizesTyped DEF Wide, Leaves
  <2> HIDE DEF a, b, c
  <2>2. a + c <= Total
    BY <1>1, <2>1
  <2> QED BY <2>2 DEF a, c, Leaves
<1>4. ASSUME NEW m \in Nat, HasRoom(F, m)
      PROVE  HasRoom(G, m)
  <2>1. BoundOf(F, m) \in Sizes /\ BoundOf(G, m) \in Sizes
    BY SizesTyped
  <2>2. \A i \in Seg : BoundOf(G, m)[i] <= BoundOf(F, m)[i]
    <3> TAKE i \in Seg
    <3> DEFINE a == FileSize(G[i]) b == FileSize(F[i]) c == m + SummarySize
    <3>1. a \in Nat /\ b \in Nat /\ a <= b /\ c \in Nat
      BY <1>1, SizesTyped
    <3>2. /\ BoundOf(G, m)[i] = IF a > c THEN a ELSE c
          /\ BoundOf(F, m)[i] = IF b > c THEN b ELSE c
      BY SizesTyped
    <3> HIDE DEF a, b, c
    <3> QED BY <3>1, <3>2
  <2>3. Sum(BoundOf(G, m)) <= Sum(BoundOf(F, m)) /\ Sum(BoundOf(G, m)) \in Nat
        /\ Sum(BoundOf(F, m)) \in Nat
    BY <2>1, <2>2, SumMonotone
  <2> QED BY <1>4, <2>3, <1>1 DEF HasRoom
<1> QED BY <1>2, <1>3, <1>4

\* Under the ceiling there is room for one line more.
LEMMA RoomForLine ==
  ASSUME NEW F \in Files, NEW m \in Nat, m <= SegMax, HasRoom(F, m), Wide(F),
         NEW c \in Seg, NEW x \in Line, FileSize(F[c]) + LineSize(x) <= m + SummarySize,
         NEW G, G = [F EXCEPT ![c] = Append(@, x)]
  PROVE  /\ G \in Files /\ FileSize(G[c]) = FileSize(F[c]) + LineSize(x)
         /\ HasRoom(G, m) /\ Wide(G) /\ Sum(SizeOf(G)) <= Total
<1>1. /\ SummarySize \in Nat /\ Segments \in Nat /\ SegMin \in Nat /\ Total \in Int /\ SegMax \in Nat
  BY RoomFacts
<1>2. F[c] \in Seq(Line) /\ Append(F[c], x) \in Seq(Line)
  <2>1. F[c] \in Seq(Line)
    BY DEF Files
  <2> QED BY <2>1, LineAppended
<1>3. G \in Files /\ G[c] = Append(F[c], x) /\ \A i \in Seg : i # c => G[i] = F[i]
  BY <1>2 DEF Files
<1>4. FileSize(G[c]) = FileSize(F[c]) + LineSize(x)
  BY <1>2, <1>3, FileSizeGrows
<1>5. FileSize(F[c]) \in Nat /\ LineSize(x) \in Nat /\ FileSize(G[c]) \in Nat
  BY <1>3, SizesTyped, LineSizes
<1>6. FileSize(G[c]) <= m + SummarySize
  BY <1>4
<1>7. Wide(G)
  <2>1. Leaves(FileSize(G[c]))
    <3>1. m + SummarySize <= SegMax + SummarySize
      BY <1>1
    <3>2. FileSize(G[c]) <= SegMax + SummarySize
      BY <1>1, <1>5, <1>6, <3>1
    <3> QED BY <1>5, <3>2, RoomForAll
  <2> QED BY <2>1, <1>3 DEF Wide
<1>8. \A i \in Seg : BoundOf(G, m)[i] = BoundOf(F, m)[i]
  <2> TAKE i \in Seg
  <2> DEFINE a == FileSize(G[i]) b == FileSize(F[i]) d == m + SummarySize
  <2>4. d \in Nat
    BY <1>1
  <2>5. a \in Nat /\ b \in Nat
    BY <1>3, SizesTyped
  <2>1. a \in Nat /\ b \in Nat /\ d \in Nat
    BY <2>4, <2>5
  <2>2. /\ BoundOf(G, m)[i] = IF a > d THEN a ELSE d
        /\ BoundOf(F, m)[i] = IF b > d THEN b ELSE d
    BY <1>3, SizesTyped
  <2>3. a = b \/ (a <= d /\ b <= d)
    <3>1. i # c => a = b
      BY <1>3
    <3>2. i = c => b <= a /\ a <= d
      BY <1>4, <1>5, <1>6
    <3> HIDE DEF a, b, d
    <3> QED BY <3>1, <3>2, <2>1
  <2> HIDE DEF a, b, d
  <2> QED BY <2>1, <2>2, <2>3
<1>9. HasRoom(G, m) /\ Sum(BoundOf(G, m)) \in Nat /\ BoundOf(G, m) \in Sizes
  <2>1. BoundOf(F, m) \in Sizes /\ BoundOf(G, m) \in Sizes
    BY <1>3, SizesTyped
  <2>3. \A p, q \in Sizes : (\A i \in Seg : p[i] = q[i]) => p = q
    BY DEF Sizes
  <2>2. BoundOf(G, m) = BoundOf(F, m)
    BY <2>1, <2>3, <1>8
  <2> QED BY <2>1, <2>2, SpaceFinite DEF HasRoom
<1>10. Sum(SizeOf(G)) <= Total
  <2>1. \A i \in Seg : SizeOf(G)[i] <= BoundOf(G, m)[i]
    <3> TAKE i \in Seg
    <3> DEFINE a == FileSize(G[i]) d == m + SummarySize
    <3>3. d \in Nat
      BY <1>1
    <3>1. a \in Nat /\ d \in Nat /\ SizeOf(G)[i] = a
      BY <1>3, <3>3, SizesTyped
    <3>2. BoundOf(G, m)[i] = IF a > d THEN a ELSE d
      BY <1>3, SizesTyped
    <3> HIDE DEF a, d
    <3> QED BY <3>1, <3>2
  <2>2. SizeOf(G) \in Sizes
    BY <1>3, SizesTyped
  <2>3. Sum(SizeOf(G)) <= Sum(BoundOf(G, m)) /\ Sum(SizeOf(G)) \in Nat
    BY <2>1, <2>2, <1>9, SumMonotone
  <2> QED BY <2>3, <1>1, <1>9 DEF HasRoom
<1> QED BY <1>3, <1>4, <1>7, <1>9, <1>10

LEMMA RoomNumbers ==
  ASSUME OrderIInv, RoomIInv
  PROVE  /\ used \in Nat /\ max \in Nat /\ max <= SegMax /\ SummarySize \in Nat /\ SummarySize >= 1
         /\ Len(queue) \in Nat /\ QueueLen \in Nat /\ Total \in Int
         /\ files \in Files /\ FileSize(legacy) \in Nat /\ Sum(SizeOf(files)) \in Nat
<1>1. files \in Files /\ Len(queue) \in Nat /\ legacy \in Seq(Line)
  BY StateFacts DEF OrderIInv, LogTypes
<1>2. Sum(SizeOf(files)) \in Nat
  BY <1>1, SizesTyped, SpaceFinite
<1>3. FileSize(legacy) \in Nat
  BY <1>1, FileSizeIs
<1> QED BY <1>1, <1>2, <1>3, RoomFacts, CaptureLogAssumption DEF RoomIInv

\* A step that writes nothing.
LEMMA RoomGoesOn ==
  ASSUME OrderIInv, RoomIInv, UNCHANGED <<files, legacy, s_ready, seg, used, max>>,
         Len(queue') <= QueueLen, s_ready /\ run'.count > 0 => used < max,
         writer'.at = "write" /\ run'.count = 0
           => used < max \/ (~Same' /\ used < max + SummarySize)
  PROVE  RoomIInv'
<1>1. HasRoom(files', max') = HasRoom(files, max)
  OBVIOUS
<1>2. Wide(files') = Wide(files) /\ Leaves(FileSize(legacy')) = Leaves(FileSize(legacy))
  OBVIOUS
<1>3. At("write")' = (writer'.at = "write")
  BY DEF At
<1> QED BY <1>1, <1>2, <1>3 DEF RoomIInv

LEMMA QuietRoom ==
  ASSUME OrderIInv, RoomIInv,
         Take \/ GiveUp \/ Lock \/ BeginRun \/ OpenSegment \/ ReadLine \/ EndOfSegment
           \/ CloseDownload \/ (\E b \in Bodies : Arrive(b)) \/ UNCHANGED logVars
  PROVE  RoomIInv'
<1>1. /\ used \in Nat /\ max \in Nat /\ Len(queue) \in Nat /\ Len(queue) <= QueueLen /\ QueueLen \in Nat
      /\ (s_ready /\ run.count > 0 => used < max)
      /\ (writer.at = "write" /\ run.count = 0 => used < max \/ (~Same /\ used < max + SummarySize))
  BY RoomNumbers DEF RoomIInv, At
<1>2. CASE Take
  <2>1. queue # <<>> /\ queue' = Tail(queue) /\ writer'.at = "lock"
        /\ UNCHANGED <<files, legacy, s_ready, seg, used, max, run>>
    BY <1>2 DEF Take, flash, state
  <2>2. Len(queue') = Len(queue) - 1
    BY <2>1, HeadTailProperties DEF OrderIInv, LogTypes
  <2>3. Len(queue') <= QueueLen
    BY <2>2, <1>1
  <2> QED BY <2>1, <2>3, <1>1, RoomGoesOn
<1>3. CASE GiveUp
  <2>1. UNCHANGED <<files, legacy, s_ready, seg, used, max, run, queue>> /\ writer'.at = "idle"
    BY <1>3 DEF GiveUp, flash, state, Resting
  <2> QED BY <2>1, <1>1, RoomGoesOn
<1>4. CASE Lock
  <2>1. /\ UNCHANGED <<files, legacy, s_ready, seg, used, max, run, queue, sent>>
        /\ writer' = [writer EXCEPT !.at = IF MustRotate THEN "rotate" ELSE "write"]
    BY <1>4 DEF Lock, GoOn, flash, state, history
  <2>2. writer'.at = "write" => ~(used + FrameNeed > max)
    BY <2>1, StateFacts DEF MustRotate, OrderIInv, LogTypes
  <2>3. writer'.at = "write" => used < max
    BY <2>2, <1>1, CaptureLogAssumption
  <2> QED BY <2>1, <2>3, <1>1, RoomGoesOn
<1>5. CASE BeginRun
  <2>1. /\ UNCHANGED <<files, legacy, s_ready, seg, used, max, queue>>
        /\ writer.at = "write" /\ run.count = 0 /\ Same /\ writer' = Resting
    BY <1>5 DEF BeginRun, flash, state, At
  <2>2. writer'.at # "write" /\ used < max
    BY <2>1, <1>1 DEF Resting
  <2> QED BY <2>1, <2>2, <1>1, RoomGoesOn
<1>6. CASE OpenSegment \/ ReadLine \/ EndOfSegment \/ CloseDownload \/ UNCHANGED logVars
  <2>1. UNCHANGED <<files, legacy, s_ready, seg, used, max, run, queue, writer, sent>>
    BY <1>6 DEF OpenSegment, ReadLine, EndOfSegment, CloseDownload, logVars, flash, state, history
  <2>2. Same' = Same
    BY <2>1 DEF Same
  <2> QED BY <2>1, <2>2, <1>1, RoomGoesOn
<1>7. ASSUME NEW b \in Bodies, Arrive(b)
      PROVE  RoomIInv'
  <2>1. /\ UNCHANGED <<files, legacy, s_ready, seg, used, max, run, writer>>
        /\ queue' = queue \/ (Len(queue) < QueueLen /\ queue' = Append(queue, Len(sent) + 1))
        /\ sent' = Append(sent, b) \/ sent' = Append(sent, Dropped)
    BY <1>7 DEF Arrive, flash, state
  <2>2. Len(queue') <= QueueLen
    <3>1. queue \in Seq(Nat)
      BY DEF OrderIInv, LogTypes
    <3>2. Len(Append(queue, Len(sent) + 1)) = Len(queue) + 1
      BY <3>1, StateFacts, AppendProperties
    <3> QED BY <3>2, <2>1, <1>1
  <2>3. writer.at = "write" => (Same' <=> Same)
    <3> HAVE writer.at = "write"
    <3>1. writer.n \in 1..Len(sent)
      BY FrameInHand DEF At
    <3>2. sent \in Seq(Bodies \cup {Dropped})
      BY DEF OrderIInv, LogTypes
    <3>3. sent'[writer.n] = sent[writer.n]
      BY <2>1, <3>1, <3>2, AppendProperties
    <3> QED BY <3>3, <2>1 DEF Same
  <2> QED BY <2>1, <2>2, <2>3, <1>1, RoomGoesOn
<1> QED BY <1>2, <1>3, <1>4, <1>5, <1>6, <1>7

\* A line is written under the ceiling.
LEMMA RoomEmit ==
  ASSUME OrderIInv, RoomIInv, s_ready, NEW x \in Line, Emit(x),
         used + LineSize(x) <= max + SummarySize,
         UNCHANGED <<legacy, s_ready, seg, max, queue>>, ~(run'.count > 0),
         writer'.at = "write" => ~Same' /\ used + LineSize(x) < max + SummarySize
  PROVE  RoomIInv'
<1>1. /\ files' = [files EXCEPT ![seg] = Append(@, x)] /\ used' = used + LineSize(x)
  BY DEF Emit
<1>2. /\ used = FileSize(files[seg]) /\ HasRoom(files, max) /\ Wide(files) /\ max \in 0..SegMax /\ max > 0
      /\ Len(queue) <= QueueLen /\ Leaves(FileSize(legacy))
  BY DEF RoomIInv
<1>3. seg \in Seg /\ legacy = <<>>
  BY DEF OrderIInv, LogTypes, Mounted
<1>4. /\ files \in Files /\ max \in Nat /\ max <= SegMax /\ used \in Nat /\ LineSize(x) \in Nat
      /\ Sum(SizeOf(files)) \in Nat /\ SummarySize \in Nat
  BY RoomNumbers, LineSizes
<1>5. /\ files' \in Files /\ FileSize(files'[seg]) = used'
      /\ HasRoom(files', max) /\ Wide(files') /\ Sum(SizeOf(files')) <= Total
  <2>1. FileSize(files[seg]) + LineSize(x) <= max + SummarySize
    BY <1>2
  <2> DEFINE G == files'
  <2>2. G = [files EXCEPT ![seg] = Append(@, x)]
    BY <1>1
  <2> HIDE DEF G
  <2>4. files \in Files /\ max \in Nat /\ max <= SegMax /\ HasRoom(files, max) /\ Wide(files)
        /\ seg \in Seg
    BY <1>2, <1>3, <1>4
  <2>3. /\ G \in Files /\ FileSize(G[seg]) = FileSize(files[seg]) + LineSize(x)
        /\ HasRoom(G, max) /\ Wide(G) /\ Sum(SizeOf(G)) <= Total
    <3>1. G \in Files /\ HasRoom(G, max) /\ Wide(G) /\ Sum(SizeOf(G)) <= Total
      BY <2>1, <2>2, <2>4, RoomForLine
    <3>2. files[seg] \in Seq(Line) /\ G[seg] = Append(files[seg], x)
      BY <2>2, <2>4 DEF Files
    <3>3. FileSize(G[seg]) = FileSize(files[seg]) + LineSize(x)
      BY <3>2, FileSizeGrows
    <3> QED BY <3>1, <3>3
  <2> QED BY <2>3, <1>1, <1>2 DEF G
<1>6. used' \in Nat
  BY <1>1, <1>4
<1>7. FileSize(legacy') = 0 /\ Leaves(FileSize(legacy'))
  BY <1>2, <1>3, NoFileSize
<1>8. Sum(SizeOf(files')) + FileSize(legacy') <= Total
  <2>1. Sum(SizeOf(files')) \in Nat
    BY <1>5, SizesTyped, SpaceFinite
  <2> QED BY <2>1, <1>5, <1>7
<1>9. HasRoom(files', max') /\ used' = FileSize(files'[seg'])
  BY <1>5
<1>10. SizeOf(files)' = SizeOf(files')
  OBVIOUS
<1>11. writer'.at = "write" => ~Same' /\ used' < max + SummarySize
  BY <1>1
<1> QED BY <1>2, <1>5, <1>6, <1>7, <1>8, <1>9, <1>11 DEF RoomIInv, At

LEMMA WritingRoom ==
  ASSUME OrderIInv, RoomIInv, Extend \/ Flush \/ Write \/ Open
  PROVE  RoomIInv'
<1>1. /\ used \in Nat /\ max \in Nat /\ SummarySize \in Nat /\ Len(queue) <= QueueLen
      /\ (s_ready /\ run.count > 0 => used < max)
      /\ (writer.at = "write" /\ run.count = 0 => used < max \/ (~Same /\ used < max + SummarySize))
      /\ run.count \in Nat
  BY RoomNumbers, StateFacts DEF RoomIInv, At
<1>2. ASSUME NEW x \in Line, s_ready, run.count > 0
      PROVE  used + LineSize(x) <= max + SummarySize /\ used + LineSize(x) < max + SummarySize
  BY <1>1, <1>2, LineSizes
<1>3. \A b \in Bodies \cup {Nobody} : ~([NoRun EXCEPT !.body = b].count > 0)
  BY DEF NoRun
<1>4. run.body \in Bodies \cup {Nobody}
  BY StateFacts
<1>5. writer.at = "write" => s_ready
  BY FrameInHand DEF At
<1>6. CASE Extend
  <2>1. /\ writer.at = "write" /\ run.count > 0 /\ Same /\ writer' = Resting
        /\ UNCHANGED <<legacy, s_ready, seg, max, queue>>
    BY <1>6 DEF Extend, At
  <2>2. writer'.at # "write"
    BY <2>1 DEF Resting
  <2>3. CASE UNCHANGED <<files, used>>
    <3>1. s_ready => used < max
      BY <2>1, <1>1
    <3> QED BY <2>1, <2>2, <2>3, <3>1, <1>1, RoomGoesOn
  <2>4. CASE Emit(Grown) /\ run' = [NoRun EXCEPT !.body = run.body]
    <3>1. Grown \in Line
      BY <2>1, GrownIs DEF At
    <3> DEFINE g == Grown
    <3>2. g \in Line /\ Emit(g)
      BY <3>1, <2>4
    <3> HIDE DEF g
    <3>3. used + LineSize(g) <= max + SummarySize
      BY <3>2, <2>1, <1>2, <1>5
    <3>4. ~(run'.count > 0)
      BY <2>4, <1>3, <1>4
    <3> QED BY <2>1, <2>2, <3>2, <3>3, <3>4, <1>5, RoomEmit
  <2> QED BY <1>6, <2>3, <2>4 DEF Extend
<1>7. CASE Flush
  <2>1. /\ writer.at = "write" /\ run.count > 0 /\ ~Same /\ Emit(run)
        /\ run' = [NoRun EXCEPT !.body = run.body]
        /\ UNCHANGED <<legacy, s_ready, seg, max, queue, writer>> /\ sent' = sent
    BY <1>7 DEF Flush, At, history
  <2>2. run \in Line /\ s_ready
    BY <2>1, <1>5 DEF OrderIInv, LogTypes
  <2>3. ~Same'
    <3>1. [NoRun EXCEPT !.body = run.body].body = run.body
      BY DEF NoRun
    <3>2. run'.body = run.body
      BY <3>1, <2>1
    <3> QED BY <2>1, <3>2 DEF Same
  <2>4. ~(run'.count > 0)
    BY <2>1, <1>3, <1>4
  <2>5. used + LineSize(run) <= max + SummarySize /\ used + LineSize(run) < max + SummarySize
    BY <2>1, <2>2, <1>2
  <2> QED BY <2>1, <2>2, <2>3, <2>4, <2>5, RoomEmit
<1>8. CASE Write
  <2> DEFINE x == FrameLine(writer.n)
  <2>1. /\ writer.at = "write" /\ run.count = 0 /\ ~Same /\ Emit(x)
        /\ run' = [NoRun EXCEPT !.body = sent[writer.n]] /\ writer' = Resting
        /\ UNCHANGED <<legacy, s_ready, seg, max, queue>>
    BY <1>8 DEF Write, At
  <2>2. sent[writer.n] \in Bodies /\ writer.n \in Nat
    BY <2>1, FrameInHand DEF At
  <2>3. x \in Line /\ x.count = 0
    BY <2>2 DEF FrameLine, Line
  <2> HIDE DEF x
  <2>4. LineSize(x) = 1
    BY <2>3, LineSizes
  <2>5. used + LineSize(x) <= max + SummarySize
    <3>1. used < max \/ used < max + SummarySize
      BY <1>1, <2>1
    <3> QED BY <3>1, <2>4, <1>1
  <2>6. ~(run'.count > 0)
    BY <2>1, <2>2, <1>3
  <2>7. writer'.at # "write"
    BY <2>1 DEF Resting
  <2> QED BY <2>1, <2>3, <2>5, <2>6, <2>7, <1>5, RoomEmit
<1>9. CASE Open
  <2>1. s_ready /\ UNCHANGED <<legacy, s_ready, seg, max, queue, writer>> /\ sent' = sent
    BY <1>9 DEF Open, history
  <2>2. CASE UNCHANGED <<files, used, run>>
    <3>1. Same' = Same
      BY <2>1, <2>2 DEF Same
    <3> QED BY <2>1, <2>2, <3>1, <1>1, RoomGoesOn
  <2>3. CASE /\ ~Locked /\ run.count > 0 /\ Emit(run) /\ run' = [NoRun EXCEPT !.body = run.body]
    <3>1. run \in Line
      BY DEF OrderIInv, LogTypes
    <3>2. ~(run'.count > 0)
      BY <2>3, <1>3, <1>4
    <3>3. writer'.at # "write"
      BY <2>1, <2>3 DEF Locked
    <3>4. used + LineSize(run) <= max + SummarySize
      BY <2>1, <2>3, <3>1, <1>2
    <3> QED BY <2>1, <2>3, <3>1, <3>2, <3>3, <3>4, RoomEmit
  <2> QED BY <1>9, <2>2, <2>3 DEF Open
<1> QED BY <1>6, <1>7, <1>8, <1>9

LEMMA RemoveOldestRoom ==
  ASSUME OrderIInv, RoomIInv, RemoveOldest
  PROVE  RoomIInv'
<1>1. /\ writer.at = "rotate" /\ writer' = [writer EXCEPT !.at = "switch"]
      /\ files' = [files EXCEPT ![Oldest] = <<>>]
      /\ UNCHANGED <<legacy, s_ready, seg, used, max, run, queue>>
  BY DEF RemoveOldest, GoOn, state, At
<1>2. s_ready /\ seg \in Seg /\ files \in Files /\ legacy = <<>>
  BY <1>1 DEF OrderIInv, LogTypes, Mounted, Locked, Files
<1>3. Oldest \in Seg /\ Oldest # seg
  <2>1. Oldest \in Seg /\ Oldest = IF seg + 1 < Segments THEN seg + 1 ELSE 0
    BY <1>2, NextIs DEF Oldest
  <2> QED BY <2>1, <1>2, SegFacts
<1>4. files' \in Files /\ files'[seg] = files[seg]
      /\ \A i \in Seg : files'[i] = files[i] \/ files'[i] = <<>>
  BY <1>1, <1>2, <1>3, NoLines DEF Files
<1>5. /\ used \in Nat /\ max \in 0..SegMax /\ max \in Nat /\ Len(queue) <= QueueLen /\ max > 0
      /\ used = FileSize(files[seg]) /\ HasRoom(files, max) /\ (run.count > 0 => used < max)
      /\ Wide(files) /\ Leaves(FileSize(legacy)) /\ Sum(SizeOf(files)) + FileSize(legacy) <= Total
  BY <1>2, RoomNumbers DEF RoomIInv
<1>6. \A i \in Seg : FileSize(files'[i]) <= FileSize(files[i])
  <2> TAKE i \in Seg
  <2>1. FileSize(files[i]) \in Nat
    BY <1>2, SizesTyped
  <2>2. CASE files'[i] = files[i]
    BY <2>1, <2>2
  <2>3. CASE files'[i] = <<>>
    BY <2>1, <2>3, NoFileSize
  <2> QED BY <2>2, <2>3, <1>4
<1>7. /\ Sum(SizeOf(files')) <= Sum(SizeOf(files)) /\ Sum(SizeOf(files')) \in Nat
      /\ Sum(SizeOf(files)) \in Nat /\ Wide(files') /\ HasRoom(files', max)
  <2> DEFINE G == files'
  <2>1. G \in Files /\ \A i \in Seg : FileSize(G[i]) <= FileSize(files[i])
    BY <1>4, <1>6
  <2> HIDE DEF G
  <2>2. Sum(SizeOf(G)) <= Sum(SizeOf(files)) /\ Sum(SizeOf(G)) \in Nat
        /\ Sum(SizeOf(files)) \in Nat /\ Wide(G) /\ HasRoom(G, max)
    BY <2>1, <1>2, <1>5, RoomStays
  <2> QED BY <2>2 DEF G
<1>8. Sum(SizeOf(files')) + FileSize(legacy) <= Total
  BY <1>5, <1>7, RoomNumbers
<1>9. writer'.at = "switch"
  BY <1>1, StateFacts DEF OrderIInv, LogTypes
<1>10. used = FileSize(files'[seg])
  BY <1>4, <1>5
<1> QED BY <1>1, <1>2, <1>5, <1>7, <1>8, <1>9, <1>10 DEF RoomIInv, At

LEMMA SwitchRoom ==
  ASSUME OrderIInv, RoomIInv, Switch
  PROVE  RoomIInv'
<1>1. /\ writer.at = "switch" /\ seg' = Next1(seg) /\ used' = 0
      /\ UNCHANGED <<files, legacy, s_ready, max, run, queue>>
  BY DEF Switch, At
<1>2. s_ready /\ files[seg'] = <<>>
  BY <1>1 DEF OrderIInv, Mounted, Locked, Oldest
<1>3. FileSize(files[seg']) = 0
  BY <1>2, NoFileSize
<1>4. max \in Nat /\ max > 0
  BY <1>2, RoomNumbers DEF RoomIInv
<1> QED BY <1>1, <1>2, <1>3, <1>4 DEF RoomIInv

\* Every segment is removed.
LEMMA EmptyRoom ==
  ASSUME OrderIInv, RoomIInv, files' = [i \in Seg |-> <<>>], legacy' = <<>>,
         ~Locked, UNCHANGED <<max, queue, writer>>, used' \in Nat,
         s_ready' => s_ready /\ used' = 0 /\ seg' \in Seg
  PROVE  RoomIInv'
<1>1. files' \in Files /\ (\A i \in Seg : files'[i] = <<>>) /\ files \in Files
  BY NoLines, RoomNumbers DEF Files
<1>2. /\ max \in 0..SegMax /\ max \in Nat /\ Len(queue) <= QueueLen
      /\ (s_ready => max > 0 /\ HasRoom(files, max)) /\ Wide(files)
      /\ Sum(SizeOf(files)) + FileSize(legacy) <= Total
  BY RoomNumbers DEF RoomIInv
<1>3. \A i \in Seg : FileSize(files'[i]) = 0 /\ FileSize(files'[i]) <= FileSize(files[i])
  <2> TAKE i \in Seg
  <2>1. FileSize(files[i]) \in Nat
    BY <1>1, SizesTyped
  <2> QED BY <2>1, <1>1, NoFileSize
<1>4. /\ Sum(SizeOf(files')) <= Sum(SizeOf(files)) /\ Sum(SizeOf(files')) \in Nat
      /\ Sum(SizeOf(files)) \in Nat /\ Wide(files') /\ (s_ready => HasRoom(files', max))
  <2> DEFINE G == files'
  <2>1. G \in Files /\ \A i \in Seg : FileSize(G[i]) <= FileSize(files[i])
    BY <1>1, <1>3
  <2> HIDE DEF G
  <2>2. Sum(SizeOf(G)) <= Sum(SizeOf(files)) /\ Sum(SizeOf(G)) \in Nat
        /\ Sum(SizeOf(files)) \in Nat /\ Wide(G) /\ (s_ready => HasRoom(G, max))
    BY <2>1, <1>1, <1>2, RoomStays
  <2> QED BY <2>2 DEF G
<1>5. FileSize(legacy') = 0
  BY NoFileSize
<1>6. Sum(SizeOf(files')) + FileSize(legacy') <= Total
  BY <1>2, <1>4, <1>5, RoomNumbers
<1>7. Leaves(FileSize(legacy'))
  <2>1. Leaves(0)
    BY RoomForAll, RoomFacts
  <2> QED BY <2>1, <1>5
<1>8. writer'.at # "write"
  BY DEF Locked
<1>9. s_ready' => /\ max > 0 /\ used' = FileSize(files'[seg']) /\ HasRoom(files', max) /\ used' < max
  BY <1>2, <1>3, <1>4
<1> QED BY <1>2, <1>4, <1>6, <1>7, <1>8, <1>9 DEF RoomIInv, At

LEMMA WipingRoom ==
  ASSUME OrderIInv, RoomIInv, Clear \/ Format
  PROVE  RoomIInv'
<1>1. used \in Nat /\ 0 \in Nat /\ 0 \in Seg
  BY RoomNumbers, SegFacts
<1>2. CASE Clear
  BY <1>1, <1>2, EmptyRoom DEF Clear
<1>3. CASE Format
  BY <1>1, <1>3, EmptyRoom DEF Format
<1> QED BY <1>2, <1>3

LEMMA DownRoom ==
  ASSUME OrderIInv, RoomIInv, Down
  PROVE  RoomIInv'
<1>1. /\ s_ready' = FALSE /\ used' = 0 /\ max' = 0 /\ run' = NoRun /\ queue' = <<>>
      /\ writer' = Resting /\ UNCHANGED legacy
  BY DEF Down
<1>2. writer'.at # "write" /\ Len(queue') = 0 /\ QueueLen \in Nat /\ SegMax \in Nat
  BY <1>1, NoLines, RoomNumbers, RoomFacts DEF Resting
<1>3. /\ Wide(files) /\ Leaves(FileSize(legacy)) /\ Sum(SizeOf(files)) + FileSize(legacy) <= Total
  BY DEF RoomIInv
<1>4. Wide(files') /\ Sum(SizeOf(files')) + FileSize(legacy) <= Total
  <2>1. CASE files' = files
    BY <1>3, <2>1
  <2>2. CASE files' # files
    <3>1. s_ready /\ run.count > 0 /\ files' = [files EXCEPT ![seg] = Append(@, run)]
      BY <2>2 DEF Down
    <3>2. /\ used < max /\ used = FileSize(files[seg]) /\ HasRoom(files, max)
      BY <3>1 DEF RoomIInv
    <3>3. seg \in Seg /\ run \in Line /\ legacy = <<>>
      BY <3>1 DEF OrderIInv, LogTypes, Mounted
    <3>4. /\ max \in Nat /\ max <= SegMax /\ used \in Nat /\ files \in Files /\ SummarySize \in Nat
          /\ LineSize(run) \in Nat /\ LineSize(run) <= SummarySize
      BY <3>3, RoomNumbers, LineSizes
    <3>5. FileSize(files[seg]) + LineSize(run) <= max + SummarySize
      BY <3>2, <3>4
    <3> DEFINE G == files'
    <3>6. G = [files EXCEPT ![seg] = Append(@, run)]
      BY <3>1
    <3> HIDE DEF G
    <3>7. G \in Files /\ Wide(G) /\ Sum(SizeOf(G)) <= Total
      BY <1>3, <3>2, <3>3, <3>4, <3>5, <3>6, RoomForLine
    <3>8. FileSize(legacy) = 0 /\ Sum(SizeOf(G)) \in Nat
      BY <3>3, <3>7, NoFileSize, SizesTyped, SpaceFinite
    <3>9. Sum(SizeOf(G)) + FileSize(legacy) <= Total
      BY <3>7, <3>8
    <3> QED BY <3>7, <3>9 DEF G
  <2> QED BY <2>1, <2>2
<1> QED BY <1>1, <1>2, <1>3, <1>4 DEF RoomIInv, At

-----------------------------------------------------------------------------
\* The mount: the ceiling gives way, then the files.
LEMMA LeastNumber ==
  ASSUME NEW W \in SUBSET Nat, W # {}
  PROVE  \E n \in W : \A m \in W : n <= m
<1> DEFINE less == {ss \in Nat \X Nat : ss[1] < ss[2]}
<1>1. IsWellFoundedOn(less, Nat)
  BY NatLessThanWellFounded, Zenon DEF OpToRel
<1> HIDE DEF less
<1>2. PICK n \in W : \A m \in W : ~(<<m, n>> \in less)
  BY <1>1, WFMin
<1>3. \A m \in W : ~(m < n)
  BY <1>2 DEF less
<1> QED BY <1>3

LEMMA CeilingIs ==
  ASSUME NEW sz \in Sizes
  PROVE  /\ Ceiling(sz) \in Nat /\ Ceiling(sz) > 0 /\ Ceiling(sz) <= SegMax
         /\ Ceiling(sz) <= SegMin \/ Fits(sz, Ceiling(sz))
<1> DEFINE enough(k) == Lowered(k) <= SegMin \/ Fits(sz, Lowered(k))
           W == {k \in 0..SegMax : enough(k)}
           first(k) == enough(k) /\ \A j \in 0..(k - 1) : ~enough(j)
           n == CHOOSE k \in 0..SegMax : first(k)
<1>1. /\ SegMax \in Nat /\ SegMin \in Nat /\ SegMin >= 1 /\ SegMin <= SegMax
      /\ SegStep \in Nat /\ SegStep >= 1 /\ SegStep <= SegMin
  BY RoomFacts
<1>2. \A k \in Nat : k * SegStep \in Nat /\ (k > 0 => (k - 1) * SegStep = k * SegStep - SegStep)
  BY <1>1
<1>3. Lowered(SegMax) = 0
  <2>1. \A a, b \in Nat : b >= 1 => a * b >= a
    OBVIOUS
  <2>2. SegMax * SegStep >= SegMax
    BY <1>1, <2>1
  <2>3. ~(SegMax * SegStep < SegMax)
    BY <2>2, <1>1, <1>2
  <2> QED BY <2>3 DEF Lowered
<1>4. SegMax \in W
  BY <1>1, <1>3
<1>5. PICK m \in W : \A j \in W : m <= j
  <2>1. W \in SUBSET Nat /\ W # {}
    BY <1>1, <1>4
  <2> HIDE DEF W
  <2> QED BY <2>1, LeastNumber
<1>6. first(m)
  <2> SUFFICES ASSUME NEW j \in 0..(m - 1) PROVE ~enough(j)
    BY <1>5
  <2>1. j \in 0..SegMax /\ ~(m <= j)
    BY <1>1, <1>5
  <2> QED BY <2>1, <1>5
<1>7. n \in 0..SegMax /\ first(n)
  <2>1. \E k \in 0..SegMax : first(k)
    BY <1>5, <1>6
  <2> HIDE DEF first
  <2> QED BY <2>1
<1>8. Ceiling(sz) = Lowered(n)
  BY DEF Ceiling
<1> HIDE DEF n
<1>9. Lowered(n) \in Nat /\ Lowered(n) > 0 /\ Lowered(n) <= SegMax
  <2>1. CASE n = 0
    <3>1. 0 * SegStep = 0
      BY <1>1
    <3>2. Lowered(0) = SegMax
      BY <3>1, <1>1 DEF Lowered
    <3> QED BY <2>1, <3>2, <1>1
  <2>2. CASE n # 0
    <3>1. n \in Nat /\ n > 0 /\ n - 1 \in 0..(n - 1)
      BY <1>7, <2>2
    <3>2. ~(Lowered(n - 1) <= SegMin)
      BY <1>7, <3>1
    <3> DEFINE a == n * SegStep
    <3>3. a \in Nat /\ (n - 1) * SegStep = a - SegStep
      BY <1>2, <3>1
    <3>4. Lowered(n - 1) = IF a - SegStep < SegMax THEN SegMax - (a - SegStep) ELSE 0
      BY <3>3 DEF Lowered
    <3>5. Lowered(n) = IF a < SegMax THEN SegMax - a ELSE 0
      BY DEF Lowered
    <3> HIDE DEF a
    <3> QED BY <3>2, <3>3, <3>4, <3>5, <1>1
  <2> QED BY <2>1, <2>2
<1>10. enough(n)
  BY <1>7
<1> QED BY <1>8, <1>9, <1>10

LEMMA KeptIs ==
  ASSUME NEW sz \in Sizes, NEW active \in Seg, NEW c \in Nat
  PROVE  /\ Kept(sz, active, c) \in Sizes /\ Kept(sz, active, c)[active] = sz[active]
         /\ \A i \in Seg : Kept(sz, active, c)[i] = sz[i] \/ Kept(sz, active, c)[i] = 0
         /\ \/ Fits(Kept(sz, active, c), c)
            \/ \A i \in Seg \ {active} : Kept(sz, active, c)[i] = 0
<1> DEFINE others == {i \in Seg \ {active} : sz[i] > 0}
           sooner(i, j) == sz[j] < sz[i] \/ (sz[j] = sz[i] /\ i < j)
           inTurn(d) == \A j \in d, i \in others : sooner(i, j) => i \in d
           without(d) == [i \in Seg |-> IF i \in d THEN 0 ELSE sz[i]]
           enough(d) == inTurn(d) /\ (Fits(without(d), c) \/ d = others)
           least(d) == enough(d) /\ \A e \in SUBSET others : enough(e) => d \subseteq e
           D == CHOOSE d \in SUBSET others : least(d)
           W == {Cardinality(d) : d \in {e \in SUBSET others : enough(e)}}
<1>1. \A i \in Seg : sz[i] \in Nat /\ i \in Nat
  BY SegFacts DEF Sizes
<1>2. IsFiniteSet(others)
  <2>1. IsFiniteSet(Seg) /\ others \in SUBSET Seg
    BY SegFacts, FS_Interval
  <2> HIDE DEF others
  <2> QED BY <2>1, FS_Subset
<1>3. \A d \in SUBSET others : IsFiniteSet(d) /\ Cardinality(d) \in Nat
  <2> HIDE DEF others
  <2> QED BY <1>2, FS_Subset, FS_CardinalityType
<1>4. enough(others)
  OBVIOUS
<1>5. \A d, e \in SUBSET others : inTurn(d) /\ inTurn(e) => d \subseteq e \/ e \subseteq d
  <2> SUFFICES ASSUME NEW d \in SUBSET others, NEW e \in SUBSET others, inTurn(d), inTurn(e),
                      NEW x \in d, x \notin e, NEW y \in e, y \notin d
               PROVE  FALSE
    OBVIOUS
  <2>1. sooner(x, y) \/ sooner(y, x)
    <3>1. x \in Nat /\ y \in Nat /\ x # y /\ sz[x] \in Nat /\ sz[y] \in Nat
      BY <1>1
    <3> QED BY <3>1
  <2>2. x \in others /\ y \in others
    OBVIOUS
  <2> HIDE DEF sooner, others
  <2> QED BY <2>1, <2>2
<1>6. PICK n \in W : \A m \in W : n <= m
  <2>1. W \in SUBSET Nat
    <3> HIDE DEF others, enough
    <3> QED BY <1>3
  <2>2. Cardinality(others) \in W
    <3> HIDE DEF enough
    <3> QED BY <1>4
  <2> HIDE DEF W
  <2> QED BY <2>1, <2>2, LeastNumber
<1>7. PICK d \in SUBSET others : enough(d) /\ Cardinality(d) = n
  <2> HIDE DEF others, enough
  <2> QED BY <1>6
<1>8. least(d)
  <2> SUFFICES ASSUME NEW e \in SUBSET others, enough(e) PROVE d \subseteq e
    BY <1>7
  <2>1. d \subseteq e \/ e \subseteq d
    <3>1. inTurn(d) /\ inTurn(e)
      BY <1>7
    <3> HIDE DEF inTurn, others
    <3> QED BY <3>1, <1>5
  <2>2. Cardinality(d) <= Cardinality(e)
    <3>1. Cardinality(e) \in W
      <4> HIDE DEF enough, others
      <4> QED OBVIOUS
    <3> QED BY <3>1, <1>6, <1>7
  <2>3. CASE e \subseteq d
    <3>1. IsFiniteSet(d) /\ Cardinality(d) \in Nat /\ Cardinality(e) \in Nat /\ e \in SUBSET d
      BY <1>3, <2>3
    <3> HIDE DEF others
    <3>2. Cardinality(e) <= Cardinality(d) /\ (Cardinality(d) = Cardinality(e) => d = e)
      BY <3>1, FS_Subset
    <3>3. Cardinality(d) = Cardinality(e)
      BY <3>1, <3>2, <2>2
    <3> QED BY <3>2, <3>3
  <2> QED BY <2>1, <2>3
<1>9. D \in SUBSET others /\ least(D)
  <2> HIDE DEF least, others
  <2> QED BY <1>8
<1>10. Kept(sz, active, c) = without(D)
  BY DEF Kept
<1>11. enough(D)
  BY <1>9
<1> HIDE DEF D
<1>12. without(D) \in Sizes /\ without(D)[active] = sz[active]
  <2>1. active \notin D
    BY <1>9
  <2> QED BY <2>1, <1>1 DEF Sizes
<1>13. \A i \in Seg : without(D)[i] = sz[i] \/ without(D)[i] = 0
  OBVIOUS
<1>14. D = others => \A i \in Seg \ {active} : without(D)[i] = 0
  <2> HAVE D = others
  <2> TAKE i \in Seg \ {active}
  <2>1. sz[i] \in Nat
    BY <1>1
  <2> QED BY <2>1
<1>15. Fits(without(D), c) \/ D = others
  BY <1>11
<1> HIDE DEF without, others
<1> QED BY <1>10, <1>12, <1>13, <1>14, <1>15

LEMMA MountRoom ==
  ASSUME OrderIInv, RoomIInv, MountLog
  PROVE  RoomIInv'
<1> DEFINE old == legacy # <<>> /\ files[0] = <<>>
           start == IF old THEN [files EXCEPT ![0] = legacy] ELSE files
           sz == [i \in Seg |-> FileSize(start[i])]
           c == Ceiling(sz)
           kept == Kept(sz, nvsSeg, c)
           gone == {i \in Seg : sz[i] > 0 /\ kept[i] = 0}
           G == files'
<1>1. /\ ~s_ready /\ files' = [i \in Seg |-> IF i \in gone THEN <<>> ELSE start[i]]
      /\ seg' = nvsSeg /\ used' = sz[nvsSeg] /\ max' = c /\ legacy' = <<>>
      /\ UNCHANGED <<run, queue, writer>>
  BY DEF MountLog
<1>2. /\ nvsSeg \in Seg /\ files \in [Seg -> Seq(Line)] /\ legacy \in Seq(Line) /\ 0 \in Seg
  BY SegFacts DEF OrderIInv, LogTypes
<1>3. /\ Len(queue) <= QueueLen /\ Wide(files) /\ Leaves(FileSize(legacy))
      /\ Sum(SizeOf(files)) + FileSize(legacy) <= Total
  BY DEF RoomIInv
<1>4. start \in Files /\ Wide(start)
  <2>1. CASE ~old
    BY <2>1, <1>2, <1>3 DEF Files
  <2>2. CASE old
    <3>1. start = [files EXCEPT ![0] = legacy]
      BY <2>2
    <3>2. start \in Files /\ start[0] = legacy /\ \A i \in Seg : i # 0 => start[i] = files[i]
      BY <3>1, <1>2 DEF Files
    <3> QED BY <3>2, <1>3 DEF Wide
  <2> QED BY <2>1, <2>2
<1> HIDE DEF start
<1>5. sz \in Sizes /\ sz = SizeOf(start) /\ \A i \in Seg : sz[i] = FileSize(start[i]) /\ sz[i] \in Nat
  BY <1>4, SizesTyped DEF SizeOf
<1> HIDE DEF sz
<1>6. c \in Nat /\ c > 0 /\ c <= SegMax /\ (c <= SegMin \/ Fits(sz, c))
  BY <1>5, CeilingIs
<1> HIDE DEF c
<1>7. /\ kept \in Sizes /\ kept[nvsSeg] = sz[nvsSeg]
      /\ \A i \in Seg : kept[i] = sz[i] \/ kept[i] = 0
      /\ Fits(kept, c) \/ \A i \in Seg \ {nvsSeg} : kept[i] = 0
  <2>1. nvsSeg \in Seg /\ sz \in Sizes /\ c \in Nat
    BY <1>2, <1>5, <1>6
  <2> QED BY <2>1, KeptIs
<1> HIDE DEF kept
<1>8. /\ G \in Files /\ \A i \in Seg : G[i] = IF i \in gone THEN <<>> ELSE start[i]
  BY <1>1, <1>4, NoLines DEF Files
<1>9. \A i \in Seg : FileSize(G[i]) = kept[i] /\ kept[i] <= sz[i] /\ kept[i] \in Nat /\ sz[i] \in Nat
  <2> TAKE i \in Seg
  <2>1. FileSize(G[i]) = IF i \in gone THEN 0 ELSE sz[i]
    BY <1>5, <1>8, NoFileSize
  <2>2. sz[i] \in Nat /\ (kept[i] = sz[i] \/ kept[i] = 0)
    BY <1>5, <1>7
  <2> QED BY <2>1, <2>2
<1> HIDE DEF gone
<1>10. /\ SummarySize \in Nat /\ Segments \in Nat /\ SegMin \in Nat /\ Total \in Int /\ SegMax \in Nat
       /\ Budget \in Nat /\ Reserve \in Nat /\ Total = Budget + Reserve
       /\ Segments * SummarySize <= Reserve /\ SegMin <= SegMax
  BY RoomFacts
<1>11. Wide(G)
  <2>1. \A i \in Seg : FileSize(G[i]) <= FileSize(start[i])
    BY <1>5, <1>9
  <2> HIDE DEF G
  <2> QED BY <2>1, <1>4, <1>8, RoomStays
<1>12. BoundOf(G, c) \in Sizes
       /\ \A i \in Seg : BoundOf(G, c)[i] = IF kept[i] > c + SummarySize THEN kept[i] ELSE c + SummarySize
  <2> HIDE DEF G
  <2> QED BY <1>6, <1>8, <1>9, SizesTyped
<1> HIDE DEF G
<1>13. \A tz \in Sizes : [i \in Seg |-> IF tz[i] > c THEN tz[i] ELSE c] \in Sizes
  BY <1>6 DEF Sizes
<1>14. ASSUME Fits(kept, c)
       PROVE  HasRoom(G, c)
  <2> DEFINE p == [i \in Seg |-> IF kept[i] > c THEN kept[i] ELSE c]
  <2>1. p \in Sizes /\ Sum(p) <= Budget
    BY <1>7, <1>13, <1>14 DEF Fits, Projected
  <2>2. \A i \in Seg : BoundOf(G, c)[i] <= p[i] + SummarySize
    <3> TAKE i \in Seg
    <3>1. kept[i] \in Nat /\ p[i] = IF kept[i] > c THEN kept[i] ELSE c
      BY <1>9
    <3>2. BoundOf(G, c)[i] = IF kept[i] > c + SummarySize THEN kept[i] ELSE c + SummarySize
      BY <1>12
    <3> HIDE DEF p
    <3> QED BY <3>1, <3>2, <1>6, <1>10
  <2> HIDE DEF p
  <2>3. Sum(BoundOf(G, c)) <= Sum(p) + Segments * SummarySize
    BY <2>1, <2>2, <1>10, <1>12, SumLifted
  <2>4. Sum(BoundOf(G, c)) \in Nat /\ Sum(p) \in Nat
    BY <2>1, <1>12, SpaceFinite
  <2> DEFINE a == Segments * SummarySize
  <2>5. a \in Int
    BY <1>10
  <2>6. Sum(BoundOf(G, c)) <= Total
    BY <2>1, <2>3, <2>4, <2>5, <1>10
  <2> QED BY <2>6 DEF HasRoom
<1>15. ASSUME c <= SegMin, \A i \in Seg \ {nvsSeg} : kept[i] = 0
       PROVE  HasRoom(G, c)
  <2> DEFINE d == c + SummarySize
             floor == SegMin + SummarySize
             b == BoundOf(G, c)[nvsSeg]
  <2>1. d \in Nat /\ floor \in Nat /\ d <= floor /\ b \in Nat /\ floor <= SegMax + SummarySize
    <3>1. b \in Nat
      BY <1>2, <1>12 DEF Sizes
    <3> QED BY <3>1, <1>6, <1>10, <1>15
  <2>2. \A i \in Seg \ {nvsSeg} : BoundOf(G, c)[i] <= floor
    <3> TAKE i \in Seg \ {nvsSeg}
    <3>1. kept[i] = 0
      BY <1>15
    <3>2. BoundOf(G, c)[i] = d
      BY <3>1, <2>1, <1>12
    <3> QED BY <2>1, <3>2
  <2>3. Sum(BoundOf(G, c)) <= b + (Segments - 1) * floor
    <3>1. b <= b
      BY <2>1
    <3> HIDE DEF b, floor
    <3>2. BoundOf(G, c)[nvsSeg] <= b
      BY <3>1 DEF b
    <3> QED BY <2>1, <2>2, <3>2, <1>2, <1>12, SumOneBig
  <2>4. b + (Segments - 1) * floor <= Total
    <3>1. b = kept[nvsSeg] \/ b = d
      BY <1>2, <1>12
    <3>2. Leaves(kept[nvsSeg])
      BY <1>2, <1>9, <1>11 DEF Wide
    <3>3. d <= SegMax + SummarySize
      BY <2>1, <1>10
    <3>4. Leaves(d)
      <4> HIDE DEF d
      <4> QED BY <2>1, <3>3, RoomForAll
    <3>5. Leaves(b)
      BY <3>1, <3>2, <3>4
    <3> HIDE DEF b
    <3> QED BY <3>5 DEF Leaves
  <2> DEFINE v == (Segments - 1) * floor
  <2>5. v \in Int /\ Sum(BoundOf(G, c)) \in Nat
    BY <2>1, <1>10, <1>12, SpaceFinite
  <2> HIDE DEF b, floor
  <2>6. Sum(BoundOf(G, c)) <= b + v /\ b + v <= Total
    BY <2>3, <2>4
  <2> HIDE DEF v
  <2>7. Sum(BoundOf(G, c)) <= Total
    BY <2>1, <2>5, <2>6, <1>10
  <2> QED BY <2>7 DEF HasRoom
<1>16. HasRoom(G, c)
  <2>1. CASE Fits(kept, c)
    BY <2>1, <1>14
  <2>2. CASE c <= SegMin
    BY <2>2, <1>7, <1>14, <1>15
  <2>3. CASE Fits(sz, c)
    <3> DEFINE p == [i \in Seg |-> IF kept[i] > c THEN kept[i] ELSE c]
               q == [i \in Seg |-> IF sz[i] > c THEN sz[i] ELSE c]
    <3>1. p \in Sizes /\ q \in Sizes /\ Sum(q) <= Budget
      BY <1>5, <1>7, <1>13, <2>3 DEF Fits, Projected
    <3>2. \A i \in Seg : p[i] <= q[i]
      BY <1>6, <1>9
    <3> HIDE DEF p, q
    <3>3. Sum(p) <= Sum(q) /\ Sum(p) \in Nat /\ Sum(q) \in Nat
      BY <3>1, <3>2, SumMonotone
    <3>4. Sum(p) <= Budget
      BY <3>1, <3>3, <1>10
    <3>5. Fits(kept, c)
      BY <3>4 DEF Fits, Projected, p
    <3> QED BY <3>5, <1>14
  <2> QED BY <1>6, <2>1, <2>2, <2>3
<1>17. Sum(SizeOf(G)) + FileSize(legacy') <= Total
  <2>1. Sum(SizeOf(G)) <= Sum(BoundOf(G, c)) /\ Sum(SizeOf(G)) \in Nat /\ Sum(BoundOf(G, c)) \in Nat
    <3>1. SizeOf(G) \in Sizes /\ \A i \in Seg : SizeOf(G)[i] = kept[i]
      BY <1>8, <1>9, SizesTyped
    <3>2. \A i \in Seg : SizeOf(G)[i] <= BoundOf(G, c)[i]
      BY <3>1, <1>6, <1>9, <1>10, <1>12
    <3> QED BY <3>1, <3>2, <1>12, SumMonotone
  <2>2. FileSize(legacy') = 0
    BY <1>1, NoFileSize
  <2> QED BY <2>1, <2>2, <1>10, <1>16 DEF HasRoom
<1>18. Leaves(FileSize(legacy'))
  <2>1. Leaves(0)
    BY RoomForAll, RoomFacts
  <2> QED BY <2>1, <1>1, NoFileSize
<1>19. writer'.at # "write"
  BY <1>1 DEF OrderIInv, Mounted, Locked
<1>20. used' = FileSize(G[seg']) /\ used' \in Nat
  BY <1>1, <1>2, <1>7, <1>9
<1>21. run'.count > 0 => used' < max'
  <2> HAVE run'.count > 0
  <2>1. run.count > 0
    BY <1>1
  <2>2. legacy = <<>> /\ \A i \in Seg : files[i] = <<>>
    BY <2>1, <1>1 DEF OrderIInv, Mounted
  <2>3. start = files
    BY <2>2 DEF start
  <2>4. sz[nvsSeg] = 0
    BY <2>2, <2>3, <1>2, <1>5, NoFileSize
  <2> QED BY <2>4, <1>1, <1>6
<1>22. max' \in 0..SegMax /\ max' > 0 /\ Len(queue') <= QueueLen
  BY <1>1, <1>3, <1>6, <1>10
<1>23. /\ used' = FileSize(files'[seg']) /\ HasRoom(files', max') /\ Wide(files')
       /\ Sum(SizeOf(files')) + FileSize(legacy') <= Total
  BY <1>1, <1>11, <1>16, <1>17, <1>20 DEF G
<1> QED BY <1>18, <1>19, <1>20, <1>21, <1>22, <1>23 DEF RoomIInv, At

-----------------------------------------------------------------------------
LEMMA RoomStarts ==
  ASSUME OldLogFits, LogInit
  PROVE  RoomIInv
<1>1. /\ files = [i \in Seg |-> <<>>] /\ s_ready = FALSE /\ used = 0 /\ max = 0
      /\ queue = <<>> /\ writer = Resting
  BY DEF LogInit
<1>2. PICK k \in Legacy : legacy = [i \in 1..k |-> OldLine(i - k)]
  BY DEF LogInit
<1>3. k \in Nat /\ Leaves(k)
  BY CaptureLogAssumption DEF OldLogFits, Leaves
<1>4. legacy \in Seq(Line) /\ Len(legacy) = k /\ DOMAIN legacy = 1..k
  <2>1. legacy \in Seq(Line)
    BY LogStarts DEF OrderIInv, LogTypes
  <2>2. DOMAIN legacy = 1..k
    BY <1>2
  <2>3. Len(legacy) \in Nat /\ DOMAIN legacy = 1..Len(legacy)
    BY <2>1, LenProperties
  <2> QED BY <2>1, <2>2, <2>3, <1>3
<1>5. FileSize(legacy) = k
  <2>1. \A i \in 1..k : legacy[i].count = 0
    BY <1>2 DEF OldLine
  <2>2. Summaries(legacy) = {}
    BY <2>1, <1>4 DEF Summaries
  <2>3. FileSize(legacy) = k + (SummarySize - 1) * 0
    BY <2>2, <1>4, FileSizeIs, FS_EmptySet
  <2> QED BY <2>3, <1>3, RoomFacts
<1>6. files \in Files /\ \A i \in Seg : files[i] = <<>> /\ FileSize(files[i]) = 0
  BY <1>1, NoLines, NoFileSize DEF Files
<1>7. Wide(files)
  <2>1. Leaves(0)
    BY RoomForAll, RoomFacts
  <2> QED BY <2>1, <1>6 DEF Wide
<1>8. Sum(SizeOf(files)) = 0
  <2>1. SizeOf(files) \in Sizes /\ \A i \in Seg : SizeOf(files)[i] = 0
    BY <1>6, SizesTyped
  <2>2. 0 \in Seg
    BY SegFacts
  <2> DEFINE s == SizeOf(files)
  <2>3. s \in Sizes /\ s[0] <= 0 /\ \A i \in Seg \ {0} : s[i] <= 0
    BY <2>1, <2>2
  <2> HIDE DEF s
  <2>4. Sum(s) <= 0 + (Segments - 1) * 0
    BY <2>2, <2>3, SumOneBig
  <2>5. Sum(s) \in Nat
    BY <2>3, SpaceFinite
  <2>6. Sum(s) = 0
    BY <2>4, <2>5, SegFacts
  <2> QED BY <2>6 DEF s
<1>9. k <= Total
  <2> DEFINE v == (Segments - 1) * (SegMin + SummarySize)
  <2>1. v \in Nat
    <3>1. \A a, b \in Nat : a * b \in Nat
      OBVIOUS
    <3> QED BY <3>1, RoomFacts
  <2>2. k + v <= Total
    BY <1>3 DEF Leaves
  <2> HIDE DEF v
  <2> QED BY <2>1, <2>2, <1>3, RoomFacts
<1>10. used \in Nat /\ max \in 0..SegMax /\ Len(queue) <= QueueLen /\ writer.at # "write"
  BY <1>1, NoLines, RoomFacts, CaptureLogAssumption DEF Resting
<1>11. Sum(SizeOf(files)) + FileSize(legacy) <= Total
  BY <1>3, <1>5, <1>8, <1>9
<1>12. Leaves(FileSize(legacy))
  BY <1>3, <1>5
<1> QED BY <1>1, <1>7, <1>10, <1>11, <1>12 DEF RoomIInv, At

LEMMA RoomSteps ==
  ASSUME OrderIInv, RoomIInv, [LogNext]_logVars
  PROVE  RoomIInv'
<1>1. ASSUME NEW b \in Bodies, Arrive(b) PROVE RoomIInv'
  BY <1>1, QuietRoom
<1>2. CASE Writer
  BY <1>2, QuietRoom, WritingRoom, RemoveOldestRoom, SwitchRoom DEF Writer
<1>3. CASE Download
  BY <1>3, QuietRoom, WritingRoom DEF Download
<1>4. CASE UNCHANGED logVars
  BY <1>4, QuietRoom
<1> QED BY <1>1, <1>2, <1>3, <1>4, WipingRoom, MountRoom, DownRoom DEF LogNext

\* Nothing that is written, and no mount, makes the files pass the partition's end.
THEOREM LogRoomInvariant ==
  ASSUME OldLogFits
  PROVE  LogSpec => []RoomIInv
<1>1. LogInit => RoomIInv
  BY RoomStarts
<1>2. OrderIInv /\ RoomIInv /\ [LogNext]_logVars => RoomIInv'
  BY RoomSteps
<1> QED BY <1>1, <1>2, LogOrderInvariant, PTL DEF LogSpec

LEMMA LogTyped ==
  ASSUME OrderIInv, RoomIInv
  PROVE  LogTypeOK
<1>1. LogTypes /\ used \in Nat /\ max \in 0..SegMax /\ Len(queue) <= QueueLen
  BY DEF OrderIInv, RoomIInv
<1>2. writer.at \in WriterPlaces
  BY <1>1 DEF LogTypes
<1>3. rd.at \in {"idle", "between", "in"} /\ rd.age \in 0..Segments
  BY <1>1 DEF LogTypes, Reads
<1>4. \A i \in Seg : files[i] \in Seq(Line)
  BY <1>1 DEF LogTypes
<1> QED BY <1>1, <1>2, <1>3, <1>4 DEF LogTypeOK, LogTypes, WriterPlaces

\* At every moment of the log's life every queued frame is in one place or lost for a
\* named reason, the log reads in order of time, each summary counts right, and the
\* partition has room for it.
THEOREM LogIsSound ==
  ASSUME OldLogFits
  PROVE  LogSpec => []LogSound
<1>1. OrderIInv /\ RoomIInv => LogSound
  <2> SUFFICES ASSUME OrderIInv, RoomIInv PROVE LogSound
    OBVIOUS
  <2>1. Sum(SegSize) + FileSize(legacy) <= Total
    BY DEF RoomIInv, SizeOf, SegSize
  <2> QED BY <2>1, LogTyped, EveryFrameOnce, OrderOfAges, CountsRight DEF LogSound, NeverFull
<1> QED BY <1>1, LogOrderInvariant, LogRoomInvariant, PTL
=============================================================================
