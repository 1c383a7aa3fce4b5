------------------------- MODULE ThreadControlProofs ------------------------
(***************************************************************************)
(* What ThreadControl promises of the Thread class, proved for any         *)
(* combinations of suspendOptions, any number of calls of the owner and of *)
(* spurious wakeups: how often one Notify() lets the worker through, and   *)
(* that a worker created to wait before InitThread() does.                 *)
(***************************************************************************)
EXTENDS ThreadControl, TLAPS

\* Where Continue() may go on to.
ThenInv == then \in {"idle", "active", "terminate"}

\* Every suspension was asked for by a call of its own.
SuspendInv == suspendCount <= calls

One(b) == IF b THEN 1 ELSE 0

\* What can still let the worker pass without another Notify(): isNotified, or a wait
\* that has just been ended, after which it is cleared; the event, set or just waited
\* for with success; and the SetEvent() that Notify() is about to call.
ByFlag == One(isNotified \/ wpc \in {"unlock", "clear"})
ByEvent == One(isSignalled \/ wpc = "awake")
ToSignal == One(opc = "signal")

PassInv == passes + ByFlag + ByEvent + ToSignal <= 2 * notifies + spurious

\* A worker created suspended stays where it was created until it is resumed.
ResumeInv ==
    "beforeInit" \in suspendOption =>
      /\ wpc = "created" => suspendCount > 0 \/ resumes > 0
      /\ wpc \notin {"none", "created"} => resumes > 0

\* The inductive invariant
ThreadInv == TypeOK /\ ThenInv /\ SuspendInv /\ PassInv /\ ResumeInv
-----------------------------------------------------------------------------
LEMMA ThreadInit == Init => ThreadInv
  <1> SUFFICES ASSUME Init PROVE ThreadInv
    OBVIOUS
  <1>1. TypeOK
    <2>1. /\ suspendCount \in 0 .. MaxCalls + 1 /\ calls \in 0 .. MaxCalls
          /\ notifies \in Nat /\ passes \in Nat /\ resumes \in Nat
          /\ spurious \in 0 .. MaxSpurious
      BY ThreadAssumption DEF Init
    <2>2. /\ suspendOption \in Options \cup {{}}
          /\ isSuspended \in BOOLEAN
          /\ isLocked \in BOOLEAN /\ isNotified \in BOOLEAN /\ isSignalled \in BOOLEAN
          /\ {cancelled, late, force} \subseteq BOOLEAN
      BY Zenon DEF Init
    <2>3. /\ hThread \in {"null", "open"} /\ at \in SyncPoints
          /\ wpc \in Terminal
          /\ {opc, then} \subseteq {"idle", "continue", "notify", "signal", "active",
                                    "terminate", "terminating", "closing", "destroyed",
                                    "ended"}
      BY DEF Init, SyncPoints, Terminal
    <2>4. QED
      BY <2>1, <2>2, <2>3 DEF TypeOK
  <1>2. ThenInv /\ SuspendInv /\ ResumeInv
    BY DEF Init, ThenInv, SuspendInv, ResumeInv
  <1>3. PassInv
    BY DEF Init, PassInv, One, ByFlag, ByEvent, ToSignal
  <1>4. QED
    BY <1>1, <1>2, <1>3 DEF ThreadInv

\* ResumeThread(), when it is called
LEMMA Resumption ==
    ASSUME TypeOK, NEW next, ContinueThen(next)
    PROVE  /\ suspendCount' \in 0 .. MaxCalls + 1
           /\ isSuspended' \in BOOLEAN
  <1>1. suspendCount \in 0 .. MaxCalls + 1 /\ isSuspended \in BOOLEAN
    BY DEF TypeOK
  <1>2. CASE isSuspended
    <2>1. suspendCount' = IF suspendCount > 0 THEN suspendCount - 1 ELSE 0
      BY <1>2 DEF ContinueThen
    <2>2. isSuspended' = FALSE
      BY <1>2 DEF ContinueThen
    <2>3. suspendCount' \in 0 .. MaxCalls + 1
      BY <1>1, <2>1, ThreadAssumption
    <2>4. QED
      BY <2>2, <2>3
  <1>3. CASE ~isSuspended
    <2>1. suspendCount' = suspendCount /\ isSuspended' = isSuspended
      BY <1>3 DEF ContinueThen, suspension
    <2>2. QED
      BY <1>1, <2>1
  <1>4. QED
    BY <1>2, <1>3

\* What the variables hold.
LEMMA TypeStep ==
    ASSUME TypeOK, ThenInv, SuspendInv, [Next]_vars
    PROVE  TypeOK'
  <1> USE ThreadAssumption
          DEF vars, lock, suspension, workerVars, ownerVars, history, ownerSide,
             workerSide, WorkerGoto, OwnerGoto, Call, ContinueThen, EnterStop, TypeOK,
             ThenInv, SuspendInv, SyncPoints, Terminal, Waiting, Methods
  <1>1. ASSUME EnterThread PROVE TypeOK'
    BY <1>1 DEF EnterThread
  <1>2. ASSUME AfterInit PROVE TypeOK'
    BY <1>2 DEF AfterInit
  <1>3. ASSUME BeforeCleanup PROVE TypeOK'
    BY <1>3 DEF BeforeCleanup
  <1>4. ASSUME Cleanup PROVE TypeOK'
    BY <1>4 DEF Cleanup
  <1>5. ASSUME Lock PROVE TypeOK'
    BY <1>5 DEF Lock
  <1>6. ASSUME TestEvent PROVE TypeOK'
    BY <1>6 DEF TestEvent
  <1>7. ASSUME Block PROVE TypeOK'
    BY <1>7 DEF Block
  <1>8. ASSUME Wake PROVE TypeOK'
    BY <1>8 DEF Wake
  <1>9. ASSUME WaitTimesOut PROVE TypeOK'
    BY <1>9 DEF WaitTimesOut
  <1>10. ASSUME TestNotified PROVE TypeOK'
    BY <1>10 DEF TestNotified
  <1>11. ASSUME Unlock PROVE TypeOK'
    BY <1>11 DEF Unlock
  <1>12. ASSUME ClearNotified PROVE TypeOK'
    <2>1. suspendOption' \in Options \cup {{}} /\ hThread' \in {"null", "open"}
      BY <1>12 DEF ClearNotified
    <2>2. suspendCount' \in 0 .. MaxCalls + 1 /\ isSuspended' \in BOOLEAN
      BY <1>12 DEF ClearNotified
    <2>3. isLocked' \in BOOLEAN /\ isNotified' \in BOOLEAN /\ isSignalled' \in BOOLEAN
      BY <1>12 DEF ClearNotified
    <2>4. /\ wpc' \in Terminal \cup Waiting
                     \cup {"created", "initialised", "lock", "running", "cleanup"}
          /\ at' \in SyncPoints
      BY <1>12 DEF ClearNotified
    <2>5. {cancelled', late', force'} \subseteq BOOLEAN
      BY <1>12 DEF ClearNotified
    <2>6. {opc', then'} \subseteq {"idle", "continue", "notify", "signal", "active",
                                    "terminate", "terminating", "closing", "destroyed",
                                    "ended"}
      BY <1>12 DEF ClearNotified
    <2>7. /\ calls' \in 0 .. MaxCalls /\ notifies' \in Nat /\ passes' \in Nat /\ resumes' \in Nat
          /\ spurious' \in 0 .. MaxSpurious
      BY <1>12 DEF ClearNotified
    <2>8. QED
      BY <2>1, <2>2, <2>3, <2>4, <2>5, <2>6, <2>7
  <1>13. ASSUME CancelledWaiting PROVE TypeOK'
    BY <1>13 DEF CancelledWaiting
  <1>14. ASSUME WakeSpuriously PROVE TypeOK'
    BY <1>14 DEF WakeSpuriously
  <1>15. ASSUME CancelledRunning PROVE TypeOK'
    BY <1>15 DEF CancelledRunning
  <1>16. ASSUME ContinueLocked PROVE TypeOK'
    BY <1>16 DEF ContinueLocked
  <1>17. ASSUME Notify PROVE TypeOK'
    BY <1>17 DEF Notify
  <1>18. ASSUME Signal PROVE TypeOK'
    BY <1>18 DEF Signal
  <1>19. ASSUME StillActive PROVE TypeOK'
    <2>1. suspendOption' \in Options \cup {{}} /\ hThread' \in {"null", "open"}
      BY <1>19 DEF StillActive
    <2>2. suspendCount' \in 0 .. MaxCalls + 1 /\ isSuspended' \in BOOLEAN
      <3>1. suspendCount \in 0 .. MaxCalls + 1 /\ isSuspended \in BOOLEAN
        OBVIOUS
      <3>2. \/ \E next : ContinueThen(next)
            \/ suspendCount' = suspendCount /\ isSuspended' = isSuspended
        BY <1>19, Zenon DEF StillActive
      <3>3. QED
        BY <3>1, <3>2, Resumption
    <2>3. isLocked' \in BOOLEAN /\ isNotified' \in BOOLEAN /\ isSignalled' \in BOOLEAN
      BY <1>19 DEF StillActive
    <2>4. /\ wpc' \in Terminal \cup Waiting
                     \cup {"created", "initialised", "lock", "running", "cleanup"}
          /\ at' \in SyncPoints
      BY <1>19 DEF StillActive
    <2>5. {cancelled', late', force'} \subseteq BOOLEAN
      BY <1>19 DEF StillActive
    <2>6. {opc', then'} \subseteq {"idle", "continue", "notify", "signal", "active",
                                    "terminate", "terminating", "closing", "destroyed",
                                    "ended"}
      BY <1>19 DEF StillActive
    <2>7. /\ calls' \in 0 .. MaxCalls /\ notifies' \in Nat /\ passes' \in Nat /\ resumes' \in Nat
          /\ spurious' \in 0 .. MaxSpurious
      BY <1>19 DEF StillActive
    <2>8. QED
      BY <2>1, <2>2, <2>3, <2>4, <2>5, <2>6, <2>7
  <1>20. ASSUME NotActive PROVE TypeOK'
    BY <1>20 DEF NotActive
  <1>21. ASSUME Terminate PROVE TypeOK'
    BY <1>21 DEF Terminate
  <1>22. ASSUME Terminated PROVE TypeOK'
    BY <1>22 DEF Terminated
  <1>23. ASSUME TerminateTimesOut PROVE TypeOK'
    BY <1>23 DEF TerminateTimesOut
  <1>24. ASSUME Close PROVE TypeOK'
    BY <1>24 DEF Close
  <1>25. ASSUME Start PROVE TypeOK'
    <2>1. suspendOption' \in Options \cup {{}} /\ hThread' \in {"null", "open"}
      BY <1>25 DEF Start
    <2>2. suspendCount' \in 0 .. MaxCalls + 1 /\ isSuspended' \in BOOLEAN
      BY <1>25 DEF Start
    <2>3. isLocked' \in BOOLEAN /\ isNotified' \in BOOLEAN /\ isSignalled' \in BOOLEAN
      BY <1>25 DEF Start
    <2>4. /\ wpc' \in Terminal \cup Waiting
                     \cup {"created", "initialised", "lock", "running", "cleanup"}
          /\ at' \in SyncPoints
      BY <1>25 DEF Start
    <2>5. {cancelled', late', force'} \subseteq BOOLEAN
      BY <1>25 DEF Start
    <2>6. {opc', then'} \subseteq {"idle", "continue", "notify", "signal", "active",
                                    "terminate", "terminating", "closing", "destroyed",
                                    "ended"}
      BY <1>25 DEF Start
    <2>7. /\ calls' \in 0 .. MaxCalls /\ notifies' \in Nat /\ passes' \in Nat /\ resumes' \in Nat
          /\ spurious' \in 0 .. MaxSpurious
      BY <1>25 DEF Start
    <2>8. QED
      BY <2>1, <2>2, <2>3, <2>4, <2>5, <2>6, <2>7
  <1>26. ASSUME StartWaiting PROVE TypeOK'
    BY <1>26 DEF StartWaiting
  <1>27. ASSUME Continue PROVE TypeOK'
    <2>1. suspendOption' \in Options \cup {{}} /\ hThread' \in {"null", "open"}
      BY <1>27 DEF Continue
    <2>2. suspendCount' \in 0 .. MaxCalls + 1 /\ isSuspended' \in BOOLEAN
      <3>1. suspendCount \in 0 .. MaxCalls + 1 /\ isSuspended \in BOOLEAN
        OBVIOUS
      <3>2. \/ \E next : ContinueThen(next)
            \/ suspendCount' = suspendCount /\ isSuspended' = isSuspended
        BY <1>27, Zenon DEF Continue
      <3>3. QED
        BY <3>1, <3>2, Resumption
    <2>3. isLocked' \in BOOLEAN /\ isNotified' \in BOOLEAN /\ isSignalled' \in BOOLEAN
      BY <1>27 DEF Continue
    <2>4. /\ wpc' \in Terminal \cup Waiting
                     \cup {"created", "initialised", "lock", "running", "cleanup"}
          /\ at' \in SyncPoints
      BY <1>27 DEF Continue
    <2>5. {cancelled', late', force'} \subseteq BOOLEAN
      BY <1>27 DEF Continue
    <2>6. {opc', then'} \subseteq {"idle", "continue", "notify", "signal", "active",
                                    "terminate", "terminating", "closing", "destroyed",
                                    "ended"}
      BY <1>27 DEF Continue
    <2>7. /\ calls' \in 0 .. MaxCalls /\ notifies' \in Nat /\ passes' \in Nat /\ resumes' \in Nat
          /\ spurious' \in 0 .. MaxSpurious
      BY <1>27 DEF Continue
    <2>8. QED
      BY <2>1, <2>2, <2>3, <2>4, <2>5, <2>6, <2>7
  <1>28. ASSUME Suspend PROVE TypeOK'
    BY <1>28 DEF Suspend
  <1>29. ASSUME Stop PROVE TypeOK'
    <2>1. suspendOption' \in Options \cup {{}} /\ hThread' \in {"null", "open"}
      BY <1>29 DEF Stop
    <2>2. suspendCount' \in 0 .. MaxCalls + 1 /\ isSuspended' \in BOOLEAN
      BY <1>29 DEF Stop
    <2>3. isLocked' \in BOOLEAN /\ isNotified' \in BOOLEAN /\ isSignalled' \in BOOLEAN
      BY <1>29 DEF Stop
    <2>4. /\ wpc' \in Terminal \cup Waiting
                     \cup {"created", "initialised", "lock", "running", "cleanup"}
          /\ at' \in SyncPoints
      BY <1>29 DEF Stop
    <2>5. {cancelled', late', force'} \subseteq BOOLEAN
      BY <1>29 DEF Stop
    <2>6. {opc', then'} \subseteq {"idle", "continue", "notify", "signal", "active",
                                    "terminate", "terminating", "closing", "destroyed",
                                    "ended"}
      BY <1>29 DEF Stop
    <2>7. /\ calls' \in 0 .. MaxCalls /\ notifies' \in Nat /\ passes' \in Nat /\ resumes' \in Nat
          /\ spurious' \in 0 .. MaxSpurious
      BY <1>29 DEF Stop
    <2>8. QED
      BY <2>1, <2>2, <2>3, <2>4, <2>5, <2>6, <2>7
  <1>30. ASSUME StopSuspended PROVE TypeOK'
    <2>1. suspendOption' \in Options \cup {{}} /\ hThread' \in {"null", "open"}
      BY <1>30 DEF StopSuspended
    <2>2. suspendCount' \in 0 .. MaxCalls + 1 /\ isSuspended' \in BOOLEAN
      <3>1. suspendCount \in 0 .. MaxCalls + 1 /\ isSuspended \in BOOLEAN
        OBVIOUS
      <3>2. \/ \E next : ContinueThen(next)
            \/ suspendCount' = suspendCount /\ isSuspended' = isSuspended
        BY <1>30, Zenon DEF StopSuspended
      <3>3. QED
        BY <3>1, <3>2, Resumption
    <2>3. isLocked' \in BOOLEAN /\ isNotified' \in BOOLEAN /\ isSignalled' \in BOOLEAN
      BY <1>30 DEF StopSuspended
    <2>4. /\ wpc' \in Terminal \cup Waiting
                     \cup {"created", "initialised", "lock", "running", "cleanup"}
          /\ at' \in SyncPoints
      BY <1>30 DEF StopSuspended
    <2>5. {cancelled', late', force'} \subseteq BOOLEAN
      BY <1>30 DEF StopSuspended
    <2>6. {opc', then'} \subseteq {"idle", "continue", "notify", "signal", "active",
                                    "terminate", "terminating", "closing", "destroyed",
                                    "ended"}
      BY <1>30 DEF StopSuspended
    <2>7. /\ calls' \in 0 .. MaxCalls /\ notifies' \in Nat /\ passes' \in Nat /\ resumes' \in Nat
          /\ spurious' \in 0 .. MaxSpurious
      BY <1>30 DEF StopSuspended
    <2>8. QED
      BY <2>1, <2>2, <2>3, <2>4, <2>5, <2>6, <2>7
  <1>31. ASSUME DestroyIdle PROVE TypeOK'
    BY <1>31 DEF DestroyIdle
  <1>32. ASSUME UNCHANGED vars PROVE TypeOK'
    BY <1>32
  <1> HIDE DEF vars, lock, suspension, workerVars, ownerVars, history, ownerSide,
             workerSide, WorkerGoto, OwnerGoto, Call, ContinueThen, EnterStop, TypeOK,
             ThenInv, SuspendInv, SyncPoints, Terminal, Waiting, Methods
  <1>33. QED
    BY <1>1, <1>2, <1>3, <1>4, <1>5, <1>6, <1>7, <1>8, <1>9, <1>10, <1>11, <1>12,
       <1>13, <1>14, <1>15, <1>16, <1>17, <1>18, <1>19, <1>20, <1>21, <1>22,
       <1>23, <1>24, <1>25, <1>26, <1>27, <1>28, <1>29, <1>30, <1>31, <1>32
       DEF Next, WorkerStep, OwnerStep, OwnerCalls, Destroyed

\* Continue() is called by the owner, by Stop() and by the destructor.
LEMMA ThenStep ==
    ASSUME ThenInv, [Next]_vars
    PROVE  ThenInv'
  <1> USE ThreadAssumption
          DEF vars, lock, suspension, workerVars, ownerVars, history, ownerSide,
             workerSide, WorkerGoto, OwnerGoto, Call, ContinueThen, EnterStop, ThenInv
  <1>1. ASSUME EnterThread PROVE ThenInv'
    BY <1>1 DEF EnterThread
  <1>2. ASSUME AfterInit PROVE ThenInv'
    BY <1>2 DEF AfterInit
  <1>3. ASSUME BeforeCleanup PROVE ThenInv'
    BY <1>3 DEF BeforeCleanup
  <1>4. ASSUME Cleanup PROVE ThenInv'
    BY <1>4 DEF Cleanup
  <1>5. ASSUME Lock PROVE ThenInv'
    BY <1>5 DEF Lock
  <1>6. ASSUME TestEvent PROVE ThenInv'
    BY <1>6 DEF TestEvent
  <1>7. ASSUME Block PROVE ThenInv'
    BY <1>7 DEF Block
  <1>8. ASSUME Wake PROVE ThenInv'
    BY <1>8 DEF Wake
  <1>9. ASSUME WaitTimesOut PROVE ThenInv'
    BY <1>9 DEF WaitTimesOut
  <1>10. ASSUME TestNotified PROVE ThenInv'
    BY <1>10 DEF TestNotified
  <1>11. ASSUME Unlock PROVE ThenInv'
    BY <1>11 DEF Unlock
  <1>12. ASSUME ClearNotified PROVE ThenInv'
    BY <1>12 DEF ClearNotified
  <1>13. ASSUME CancelledWaiting PROVE ThenInv'
    BY <1>13 DEF CancelledWaiting
  <1>14. ASSUME WakeSpuriously PROVE ThenInv'
    BY <1>14 DEF WakeSpuriously
  <1>15. ASSUME CancelledRunning PROVE ThenInv'
    BY <1>15 DEF CancelledRunning
  <1>16. ASSUME ContinueLocked PROVE ThenInv'
    BY <1>16 DEF ContinueLocked
  <1>17. ASSUME Notify PROVE ThenInv'
    BY <1>17 DEF Notify
  <1>18. ASSUME Signal PROVE ThenInv'
    BY <1>18 DEF Signal
  <1>19. ASSUME StillActive PROVE ThenInv'
    BY <1>19 DEF StillActive
  <1>20. ASSUME NotActive PROVE ThenInv'
    BY <1>20 DEF NotActive
  <1>21. ASSUME Terminate PROVE ThenInv'
    BY <1>21 DEF Terminate
  <1>22. ASSUME Terminated PROVE ThenInv'
    BY <1>22 DEF Terminated
  <1>23. ASSUME TerminateTimesOut PROVE ThenInv'
    BY <1>23 DEF TerminateTimesOut
  <1>24. ASSUME Close PROVE ThenInv'
    BY <1>24 DEF Close
  <1>25. ASSUME Start PROVE ThenInv'
    BY <1>25 DEF Start
  <1>26. ASSUME StartWaiting PROVE ThenInv'
    BY <1>26 DEF StartWaiting
  <1>27. ASSUME Continue PROVE ThenInv'
    BY <1>27 DEF Continue
  <1>28. ASSUME Suspend PROVE ThenInv'
    BY <1>28 DEF Suspend
  <1>29. ASSUME Stop PROVE ThenInv'
    BY <1>29 DEF Stop
  <1>30. ASSUME StopSuspended PROVE ThenInv'
    BY <1>30 DEF StopSuspended
  <1>31. ASSUME DestroyIdle PROVE ThenInv'
    BY <1>31 DEF DestroyIdle
  <1>32. ASSUME UNCHANGED vars PROVE ThenInv'
    BY <1>32
  <1> HIDE DEF vars, lock, suspension, workerVars, ownerVars, history, ownerSide,
             workerSide, WorkerGoto, OwnerGoto, Call, ContinueThen, EnterStop, ThenInv
  <1>33. QED
    BY <1>1, <1>2, <1>3, <1>4, <1>5, <1>6, <1>7, <1>8, <1>9, <1>10, <1>11, <1>12,
       <1>13, <1>14, <1>15, <1>16, <1>17, <1>18, <1>19, <1>20, <1>21, <1>22,
       <1>23, <1>24, <1>25, <1>26, <1>27, <1>28, <1>29, <1>30, <1>31, <1>32
       DEF Next, WorkerStep, OwnerStep, OwnerCalls, Destroyed

\* ResumeThread() takes from the count, Start() and Suspend() add one at most.
LEMMA SuspendStep ==
    ASSUME TypeOK, SuspendInv, [Next]_vars
    PROVE  SuspendInv'
  <1> USE ThreadAssumption
          DEF vars, lock, suspension, workerVars, ownerVars, history, ownerSide,
             workerSide, WorkerGoto, OwnerGoto, Call, ContinueThen, EnterStop, TypeOK,
             SuspendInv
  <1>1. ASSUME EnterThread PROVE SuspendInv'
    BY <1>1 DEF EnterThread
  <1>2. ASSUME AfterInit PROVE SuspendInv'
    BY <1>2 DEF AfterInit
  <1>3. ASSUME BeforeCleanup PROVE SuspendInv'
    BY <1>3 DEF BeforeCleanup
  <1>4. ASSUME Cleanup PROVE SuspendInv'
    BY <1>4 DEF Cleanup
  <1>5. ASSUME Lock PROVE SuspendInv'
    BY <1>5 DEF Lock
  <1>6. ASSUME TestEvent PROVE SuspendInv'
    BY <1>6 DEF TestEvent
  <1>7. ASSUME Block PROVE SuspendInv'
    BY <1>7 DEF Block
  <1>8. ASSUME Wake PROVE SuspendInv'
    BY <1>8 DEF Wake
  <1>9. ASSUME WaitTimesOut PROVE SuspendInv'
    BY <1>9 DEF WaitTimesOut
  <1>10. ASSUME TestNotified PROVE SuspendInv'
    BY <1>10 DEF TestNotified
  <1>11. ASSUME Unlock PROVE SuspendInv'
    BY <1>11 DEF Unlock
  <1>12. ASSUME ClearNotified PROVE SuspendInv'
    BY <1>12 DEF ClearNotified
  <1>13. ASSUME CancelledWaiting PROVE SuspendInv'
    BY <1>13 DEF CancelledWaiting
  <1>14. ASSUME WakeSpuriously PROVE SuspendInv'
    BY <1>14 DEF WakeSpuriously
  <1>15. ASSUME CancelledRunning PROVE SuspendInv'
    BY <1>15 DEF CancelledRunning
  <1>16. ASSUME ContinueLocked PROVE SuspendInv'
    BY <1>16 DEF ContinueLocked
  <1>17. ASSUME Notify PROVE SuspendInv'
    BY <1>17 DEF Notify
  <1>18. ASSUME Signal PROVE SuspendInv'
    BY <1>18 DEF Signal
  <1>19. ASSUME StillActive PROVE SuspendInv'
    BY <1>19 DEF StillActive
  <1>20. ASSUME NotActive PROVE SuspendInv'
    BY <1>20 DEF NotActive
  <1>21. ASSUME Terminate PROVE SuspendInv'
    BY <1>21 DEF Terminate
  <1>22. ASSUME Terminated PROVE SuspendInv'
    BY <1>22 DEF Terminated
  <1>23. ASSUME TerminateTimesOut PROVE SuspendInv'
    BY <1>23 DEF TerminateTimesOut
  <1>24. ASSUME Close PROVE SuspendInv'
    BY <1>24 DEF Close
  <1>25. ASSUME Start PROVE SuspendInv'
    BY <1>25 DEF Start
  <1>26. ASSUME StartWaiting PROVE SuspendInv'
    BY <1>26 DEF StartWaiting
  <1>27. ASSUME Continue PROVE SuspendInv'
    BY <1>27 DEF Continue
  <1>28. ASSUME Suspend PROVE SuspendInv'
    BY <1>28 DEF Suspend
  <1>29. ASSUME Stop PROVE SuspendInv'
    BY <1>29 DEF Stop
  <1>30. ASSUME StopSuspended PROVE SuspendInv'
    BY <1>30 DEF StopSuspended
  <1>31. ASSUME DestroyIdle PROVE SuspendInv'
    BY <1>31 DEF DestroyIdle
  <1>32. ASSUME UNCHANGED vars PROVE SuspendInv'
    BY <1>32
  <1> HIDE DEF vars, lock, suspension, workerVars, ownerVars, history, ownerSide,
             workerSide, WorkerGoto, OwnerGoto, Call, ContinueThen, EnterStop, TypeOK,
             SuspendInv
  <1>33. QED
    BY <1>1, <1>2, <1>3, <1>4, <1>5, <1>6, <1>7, <1>8, <1>9, <1>10, <1>11, <1>12,
       <1>13, <1>14, <1>15, <1>16, <1>17, <1>18, <1>19, <1>20, <1>21, <1>22,
       <1>23, <1>24, <1>25, <1>26, <1>27, <1>28, <1>29, <1>30, <1>31, <1>32
       DEF Next, WorkerStep, OwnerStep, OwnerCalls, Destroyed

\* Each pass uses up the flag or the event of a Notify(), or a spurious wakeup.
LEMMA PassStep ==
    ASSUME TypeOK, ThenInv, PassInv, [Next]_vars
    PROVE  PassInv'
  <1> USE ThreadAssumption
          DEF vars, lock, suspension, workerVars, ownerVars, history, ownerSide,
             workerSide, WorkerGoto, OwnerGoto, Call, ContinueThen, EnterStop, TypeOK,
             ThenInv, PassInv, One, ByFlag, ByEvent, ToSignal
  <1>1. ASSUME EnterThread PROVE PassInv'
    BY <1>1 DEF EnterThread
  <1>2. ASSUME AfterInit PROVE PassInv'
    BY <1>2 DEF AfterInit
  <1>3. ASSUME BeforeCleanup PROVE PassInv'
    BY <1>3 DEF BeforeCleanup
  <1>4. ASSUME Cleanup PROVE PassInv'
    BY <1>4 DEF Cleanup
  <1>5. ASSUME Lock PROVE PassInv'
    BY <1>5 DEF Lock
  <1>6. ASSUME TestEvent PROVE PassInv'
    BY <1>6 DEF TestEvent
  <1>7. ASSUME Block PROVE PassInv'
    BY <1>7 DEF Block
  <1>8. ASSUME Wake PROVE PassInv'
    BY <1>8 DEF Wake
  <1>9. ASSUME WaitTimesOut PROVE PassInv'
    BY <1>9 DEF WaitTimesOut
  <1>10. ASSUME TestNotified PROVE PassInv'
    BY <1>10 DEF TestNotified
  <1>11. ASSUME Unlock PROVE PassInv'
    BY <1>11 DEF Unlock
  <1>12. ASSUME ClearNotified PROVE PassInv'
    BY <1>12 DEF ClearNotified
  <1>13. ASSUME CancelledWaiting PROVE PassInv'
    BY <1>13 DEF CancelledWaiting
  <1>14. ASSUME WakeSpuriously PROVE PassInv'
    BY <1>14 DEF WakeSpuriously
  <1>15. ASSUME CancelledRunning PROVE PassInv'
    BY <1>15 DEF CancelledRunning
  <1>16. ASSUME ContinueLocked PROVE PassInv'
    BY <1>16 DEF ContinueLocked
  <1>17. ASSUME Notify PROVE PassInv'
    BY <1>17 DEF Notify
  <1>18. ASSUME Signal PROVE PassInv'
    BY <1>18 DEF Signal
  <1>19. ASSUME StillActive PROVE PassInv'
    BY <1>19 DEF StillActive
  <1>20. ASSUME NotActive PROVE PassInv'
    BY <1>20 DEF NotActive
  <1>21. ASSUME Terminate PROVE PassInv'
    BY <1>21 DEF Terminate
  <1>22. ASSUME Terminated PROVE PassInv'
    BY <1>22 DEF Terminated
  <1>23. ASSUME TerminateTimesOut PROVE PassInv'
    BY <1>23 DEF TerminateTimesOut
  <1>24. ASSUME Close PROVE PassInv'
    BY <1>24 DEF Close
  <1>25. ASSUME Start PROVE PassInv'
    BY <1>25 DEF Start
  <1>26. ASSUME StartWaiting PROVE PassInv'
    BY <1>26 DEF StartWaiting
  <1>27. ASSUME Continue PROVE PassInv'
    BY <1>27 DEF Continue
  <1>28. ASSUME Suspend PROVE PassInv'
    BY <1>28 DEF Suspend
  <1>29. ASSUME Stop PROVE PassInv'
    BY <1>29 DEF Stop
  <1>30. ASSUME StopSuspended PROVE PassInv'
    BY <1>30 DEF StopSuspended
  <1>31. ASSUME DestroyIdle PROVE PassInv'
    BY <1>31 DEF DestroyIdle
  <1>32. ASSUME UNCHANGED vars PROVE PassInv'
    BY <1>32
  <1> HIDE DEF vars, lock, suspension, workerVars, ownerVars, history, ownerSide,
             workerSide, WorkerGoto, OwnerGoto, Call, ContinueThen, EnterStop, TypeOK,
             ThenInv, PassInv, One, ByFlag, ByEvent, ToSignal
  <1>33. QED
    BY <1>1, <1>2, <1>3, <1>4, <1>5, <1>6, <1>7, <1>8, <1>9, <1>10, <1>11, <1>12,
       <1>13, <1>14, <1>15, <1>16, <1>17, <1>18, <1>19, <1>20, <1>21, <1>22,
       <1>23, <1>24, <1>25, <1>26, <1>27, <1>28, <1>29, <1>30, <1>31, <1>32
       DEF Next, WorkerStep, OwnerStep, OwnerCalls, Destroyed

\* The count of a worker that waits before InitThread() only falls when it is
\* resumed.
LEMMA ResumeStep ==
    ASSUME TypeOK, ResumeInv, [Next]_vars
    PROVE  ResumeInv'
  <1> USE ThreadAssumption
          DEF vars, lock, suspension, workerVars, ownerVars, history, ownerSide,
             workerSide, WorkerGoto, OwnerGoto, Call, ContinueThen, EnterStop, TypeOK,
             ResumeInv, Terminal, Methods
  <1>1. ASSUME EnterThread PROVE ResumeInv'
    BY <1>1 DEF EnterThread
  <1>2. ASSUME AfterInit PROVE ResumeInv'
    BY <1>2 DEF AfterInit
  <1>3. ASSUME BeforeCleanup PROVE ResumeInv'
    BY <1>3 DEF BeforeCleanup
  <1>4. ASSUME Cleanup PROVE ResumeInv'
    BY <1>4 DEF Cleanup
  <1>5. ASSUME Lock PROVE ResumeInv'
    BY <1>5 DEF Lock
  <1>6. ASSUME TestEvent PROVE ResumeInv'
    BY <1>6 DEF TestEvent
  <1>7. ASSUME Block PROVE ResumeInv'
    BY <1>7 DEF Block
  <1>8. ASSUME Wake PROVE ResumeInv'
    BY <1>8 DEF Wake
  <1>9. ASSUME WaitTimesOut PROVE ResumeInv'
    BY <1>9 DEF WaitTimesOut
  <1>10. ASSUME TestNotified PROVE ResumeInv'
    BY <1>10 DEF TestNotified
  <1>11. ASSUME Unlock PROVE ResumeInv'
    BY <1>11 DEF Unlock
  <1>12. ASSUME ClearNotified PROVE ResumeInv'
    BY <1>12 DEF ClearNotified
  <1>13. ASSUME CancelledWaiting PROVE ResumeInv'
    BY <1>13 DEF CancelledWaiting
  <1>14. ASSUME WakeSpuriously PROVE ResumeInv'
    BY <1>14 DEF WakeSpuriously
  <1>15. ASSUME CancelledRunning PROVE ResumeInv'
    BY <1>15 DEF CancelledRunning
  <1>16. ASSUME ContinueLocked PROVE ResumeInv'
    BY <1>16 DEF ContinueLocked
  <1>17. ASSUME Notify PROVE ResumeInv'
    BY <1>17 DEF Notify
  <1>18. ASSUME Signal PROVE ResumeInv'
    BY <1>18 DEF Signal
  <1>19. ASSUME StillActive PROVE ResumeInv'
    BY <1>19 DEF StillActive
  <1>20. ASSUME NotActive PROVE ResumeInv'
    BY <1>20 DEF NotActive
  <1>21. ASSUME Terminate PROVE ResumeInv'
    BY <1>21 DEF Terminate
  <1>22. ASSUME Terminated PROVE ResumeInv'
    BY <1>22 DEF Terminated
  <1>23. ASSUME TerminateTimesOut PROVE ResumeInv'
    BY <1>23 DEF TerminateTimesOut
  <1>24. ASSUME Close PROVE ResumeInv'
    BY <1>24 DEF Close
  <1>25. ASSUME Start PROVE ResumeInv'
    <2>1. ASSUME "beforeInit" \in suspendOption
          PROVE  isSuspended'
      BY <1>25, <2>1, Zenon DEF Start
    <2>2. ASSUME "beforeInit" \in suspendOption
          PROVE  suspendCount' = 1
      BY <1>25, <2>1, <2>2, Zenon DEF Start
    <2>3. suspendOption' = suspendOption /\ wpc' = "created"
      BY <1>25 DEF Start
    <2>4. QED
      BY <2>2, <2>3
  <1>26. ASSUME StartWaiting PROVE ResumeInv'
    BY <1>26 DEF StartWaiting
  <1>27. ASSUME Continue PROVE ResumeInv'
    BY <1>27 DEF Continue
  <1>28. ASSUME Suspend PROVE ResumeInv'
    BY <1>28 DEF Suspend
  <1>29. ASSUME Stop PROVE ResumeInv'
    BY <1>29 DEF Stop
  <1>30. ASSUME StopSuspended PROVE ResumeInv'
    BY <1>30 DEF StopSuspended
  <1>31. ASSUME DestroyIdle PROVE ResumeInv'
    BY <1>31 DEF DestroyIdle
  <1>32. ASSUME UNCHANGED vars PROVE ResumeInv'
    BY <1>32
  <1> HIDE DEF vars, lock, suspension, workerVars, ownerVars, history, ownerSide,
             workerSide, WorkerGoto, OwnerGoto, Call, ContinueThen, EnterStop, TypeOK,
             ResumeInv, Terminal, Methods
  <1>33. QED
    BY <1>1, <1>2, <1>3, <1>4, <1>5, <1>6, <1>7, <1>8, <1>9, <1>10, <1>11, <1>12,
       <1>13, <1>14, <1>15, <1>16, <1>17, <1>18, <1>19, <1>20, <1>21, <1>22,
       <1>23, <1>24, <1>25, <1>26, <1>27, <1>28, <1>29, <1>30, <1>31, <1>32
       DEF Next, WorkerStep, OwnerStep, OwnerCalls, Destroyed

LEMMA ThreadAlways == Spec => []ThreadInv
  <1>1. ThreadInv /\ [Next]_vars => ThreadInv'
    BY TypeStep, ThenStep, SuspendStep, PassStep, ResumeStep DEF ThreadInv
  <1>2. QED
    BY ThreadInit, <1>1, PTL DEF Spec

\* Whatever the owner calls and wherever the worker is, each variable holds what the
\* code expects of it; in particular, the suspend count never exceeds the calls made.
THEOREM TypeCorrect == Spec => []TypeOK
  <1>1. ThreadInv => TypeOK
    BY DEF ThreadInv
  <1>2. QED
    BY <1>1, ThreadAlways, PTL

\* One Notify() lets the worker through its synchronisation points at most twice, and
\* nothing else but a spurious wakeup does; a worker created to wait before InitThread()
\* runs nothing before it is resumed (Thread.hpp:373-411, Thread.cpp:175-184, 238-257).
THEOREM PassesAreNotified == Spec => []ReleasedByNotify
  <1>1. ThreadInv => ReleasedByNotify
    <2> SUFFICES ASSUME ThreadInv PROVE ReleasedByNotify
      OBVIOUS
    <2>1. /\ ByFlag \in {0, 1} /\ ByEvent \in {0, 1} /\ ToSignal \in {0, 1}
      BY DEF One, ByFlag, ByEvent, ToSignal
    <2>2. passes <= 2 * notifies + spurious
      BY <2>1 DEF ThreadInv, PassInv, TypeOK
    <2>3. QED
      BY <2>2 DEF ThreadInv, ResumeInv, ReleasedByNotify
  <1>2. QED
    BY <1>1, ThreadAlways, PTL
=============================================================================
