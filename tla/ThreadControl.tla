---------------------------- MODULE ThreadControl ---------------------------
(***************************************************************************)
(* The Thread class: one thread that owns a Thread object calls Start(),   *)
(* Continue(), Suspend(), Stop() and finally the destructor, while the     *)
(* worker goes through EntryPoint() and waits at the synchronisation       *)
(* points it was given, on the StartLocks of Thread.hpp and the auto-reset *)
(* event and the suspend count of msemul.                                  *)
(*                                                                         *)
(* Every step touches memory that the other thread reads or writes once.   *)
(***************************************************************************)
EXTENDS Integers

CONSTANTS
    Options,        \* the suspendOptions the object may be created with
    MaxCalls,       \* calls the owner makes before the destructor
    MaxSpurious     \* wakeups of pthread_cond_timedwait() without a signal

SyncPoints == {"beforeInit", "afterInit", "beforeCleanup"}

ASSUME ThreadAssumption ==
    Options \subseteq SUBSET SyncPoints /\ MaxCalls \in Nat /\ MaxSpurious \in Nat

VARIABLES
    suspendOption,
    hThread,            \* m_hThread: "null" or "open"
    suspendCount, isSuspended,
    isLocked, isNotified,   \* of startLock
    isSignalled,        \* its event
    wpc,                \* where the worker is
    at,                 \* the synchronisation point it is at, or has passed last
    cancelled,          \* pthread_cancel() has been called
    late,               \* TerminateThread() has given up
    opc,                \* where the owner is
    then,               \* where it goes on after Continue()
    force,              \* it is in Stop(true)
    calls,
    notifies, passes, spurious, resumes     \* histories: calls of Notify(), points
                        \* passed, wakeups without a signal, calls of ResumeThread()

lock == <<isLocked, isNotified, isSignalled>>
suspension == <<suspendCount, isSuspended>>
workerVars == <<wpc, at, passes, spurious>>
ownerVars == <<opc, then, force, calls>>
history == <<notifies, resumes>>
vars == <<suspendOption, hThread, suspension, lock, workerVars, cancelled, late,
          ownerVars, history>>

Terminal == {"none", "gone", "cancelled"}
Methods == {"initialised", "running", "cleanup"}    \* of the derived class
Waiting == {"test", "blocking", "blocked", "awake", "timedOut", "unlock", "clear"}

Init ==
    /\ suspendOption \in Options
    /\ hThread = "null" /\ suspendCount = 0 /\ isSuspended = FALSE
    /\ isLocked = FALSE /\ isNotified = FALSE /\ isSignalled = FALSE
    /\ wpc = "none" /\ at = "beforeInit"
    /\ cancelled = FALSE /\ late = FALSE
    /\ opc = "idle" /\ then = "idle" /\ force = FALSE /\ calls = 0
    /\ notifies = 0 /\ passes = 0 /\ spurious = 0 /\ resumes = 0
-----------------------------------------------------------------------------
(* The worker: EntryPoint() and StartLocks::Wait().  It does nothing while  *)
(* it is suspended, or the process has been ended.                          *)

WorkerGoto(from, to) ==
    suspendCount = 0 /\ opc # "ended" /\ wpc = from /\ wpc' = to

ownerSide == <<suspendOption, hThread, suspension, cancelled, late, ownerVars, history>>

\* Slips this code could contain: WaitForSingleObject(lockEvent, INFINITE), and
\* isNotified not reset when the wait is over
WaitsForever == FALSE

ClearNothing ==
    /\ WorkerGoto("clear", IF at = "afterInit" THEN "running" ELSE "cleanup")
    /\ passes' = passes + 1
    /\ UNCHANGED <<ownerSide, lock, at, spurious>>

\* The thread exists, and is no longer suspended.
EnterThread ==
    /\ WorkerGoto("created", "initialised")
    /\ UNCHANGED <<ownerSide, lock, at, passes, spurious>>

\* suspendOption is read: wait, or run on.
AfterInit ==
    /\ WorkerGoto("initialised", IF "afterInit" \in suspendOption THEN "lock" ELSE "running")
    /\ at' = "afterInit"
    /\ UNCHANGED <<ownerSide, lock, passes, spurious>>

\* Run() returns.
BeforeCleanup ==
    /\ WorkerGoto("running", IF "beforeCleanup" \in suspendOption THEN "lock" ELSE "cleanup")
    /\ at' = "beforeCleanup"
    /\ UNCHANGED <<ownerSide, lock, passes, spurious>>

\* CleanupThread(), and the thread exits.
Cleanup ==
    /\ WorkerGoto("cleanup", "gone")
    /\ UNCHANGED <<ownerSide, lock, at, passes, spurious>>

\* Wait(): if( !isLocked ) set it
Lock ==
    /\ ~isLocked
    /\ WorkerGoto("lock", "test")
    /\ isLocked' = TRUE
    /\ UNCHANGED <<ownerSide, isNotified, isSignalled, at, passes, spurious>>

\* WaitForSingleObject(lockEvent, 100) finds the event signalled, or takes the
\* event's mutex (which SetEvent() does not) and blocks.
TestEvent ==
    /\ WorkerGoto("test", IF isSignalled THEN "unlock" ELSE "blocking")
    /\ isSignalled' = FALSE
    /\ UNCHANGED <<ownerSide, isLocked, isNotified, at, passes, spurious>>

Block ==
    /\ WorkerGoto("blocking", "blocked")
    /\ UNCHANGED <<ownerSide, lock, at, passes, spurious>>

WakeSpuriously ==
    /\ spurious < MaxSpurious /\ ~cancelled
    /\ WorkerGoto("blocked", "awake")
    /\ spurious' = spurious + 1
    /\ UNCHANGED <<ownerSide, lock, at, passes>>

\* The wait was ended by a signal, or seems so: the event is reset.
Wake ==
    /\ WorkerGoto("awake", "unlock")
    /\ isSignalled' = FALSE
    /\ UNCHANGED <<ownerSide, isLocked, isNotified, at, passes, spurious>>

WaitTimesOut ==
    /\ ~cancelled
    /\ WorkerGoto("blocked", "timedOut")
    /\ UNCHANGED <<ownerSide, lock, at, passes, spurious>>

\* The loop goes on until isNotified.
TestNotified ==
    /\ WorkerGoto("timedOut", IF isNotified THEN "unlock" ELSE "test")
    /\ UNCHANGED <<ownerSide, lock, at, passes, spurious>>

Unlock ==
    /\ WorkerGoto("unlock", "clear")
    /\ isLocked' = FALSE
    /\ UNCHANGED <<ownerSide, isNotified, isSignalled, at, passes, spurious>>

ClearNotified ==
    /\ WorkerGoto("clear", IF at = "afterInit" THEN "running" ELSE "cleanup")
    /\ isNotified' = FALSE
    /\ passes' = passes + 1
    /\ UNCHANGED <<ownerSide, isLocked, isSignalled, at, spurious>>

\* The wait is a cancellation point; isLocked stays set.
CancelledWaiting ==
    /\ cancelled
    /\ WorkerGoto("blocked", "cancelled")
    /\ UNCHANGED <<ownerSide, lock, at, passes, spurious>>

\* So may be any of the derived class's methods.
CancelledRunning ==
    /\ cancelled
    /\ \E from \in Methods : WorkerGoto(from, "cancelled")
    /\ UNCHANGED <<ownerSide, lock, at, passes, spurious>>

WorkerStep ==
    \/ EnterThread \/ AfterInit \/ BeforeCleanup \/ Cleanup
    \/ Lock \/ TestEvent \/ Block \/ Wake \/ WaitTimesOut \/ TestNotified
    \/ Unlock \/ ClearNotified \/ CancelledWaiting
-----------------------------------------------------------------------------
(* The owner.  Only it reads and writes isSuspended and the count.          *)

OwnerGoto(from, to) == opc = from /\ opc' = to
Call(to) == OwnerGoto("idle", to) /\ calls < MaxCalls /\ calls' = calls + 1

workerSide == <<wpc, at, passes, spurious, isLocked>>

\* Slips this code could contain: a thread that runs before it is told to, a
\* resumption whether or not it is suspended, a destructor that does not release
\* the worker it waits for
StartRunning ==
    /\ Call("idle") /\ ~isLocked /\ hThread = "null"
    /\ wpc' = "created" /\ cancelled' = FALSE /\ at' = "beforeInit" /\ resumes' = 0
    /\ hThread' = "open"
    /\ isSuspended' = ("beforeInit" \in suspendOption) /\ suspendCount' = 0
    /\ UNCHANGED <<suspendOption, lock, passes, spurious, late, then, force, notifies>>

ResumeAnyway(next) ==
    /\ opc' = "continue" /\ then' = next
    /\ suspendCount' = suspendCount - 1
    /\ isSuspended' = FALSE /\ resumes' = resumes + 1

DestroyJoins ==
    /\ OwnerGoto("idle", IF suspendCount = 0 THEN "closing" ELSE "active")
    /\ hThread = "open"
    /\ force' = TRUE
    /\ UNCHANGED <<suspendOption, hThread, suspension, lock, workerVars, cancelled,
                   late, then, calls, history>>

\* Start() of an object without a thread: created suspended, and resumed once
\* everything about it is stored, unless it is to wait before InitThread().
Start ==
    /\ Call("idle") /\ ~isLocked /\ hThread = "null"
    /\ wpc' = "created" /\ cancelled' = FALSE /\ at' = "beforeInit" /\ resumes' = 0
    /\ hThread' = "open"
    /\ isSuspended' = ("beforeInit" \in suspendOption)
    /\ suspendCount' = IF isSuspended' THEN 1 ELSE 0
    /\ UNCHANGED <<suspendOption, lock, passes, spurious, late, then, force, notifies>>

\* Start() of a worker that is waiting.  Of one that has been started and is not
\* (yet) waiting, it throws and changes nothing.
StartWaiting ==
    /\ Call("notify") /\ isLocked /\ hThread = "open"
    /\ then' = "idle"
    /\ UNCHANGED <<suspendOption, hThread, suspension, lock, workerVars, cancelled,
                   late, force, history>>

ContinueThen(next) ==
    /\ opc' = "continue" /\ then' = next
    /\ IF isSuspended
       THEN /\ suspendCount' = IF suspendCount > 0 THEN suspendCount - 1 ELSE 0
            /\ isSuspended' = FALSE /\ resumes' = resumes + 1
       ELSE UNCHANGED <<suspension, resumes>>

\* Continue(): ResumeThread() if isSuspended ...
Continue ==
    /\ Call("continue") /\ hThread = "open"
    /\ ContinueThen("idle")
    /\ UNCHANGED <<suspendOption, hThread, lock, workerVars, cancelled, late, force,
                   notifies>>

\* ... and Notify() if IsLocked().
ContinueLocked ==
    /\ OwnerGoto("continue", IF isLocked THEN "notify" ELSE then)
    /\ UNCHANGED <<suspendOption, hThread, suspension, lock, workerVars, cancelled,
                   late, then, force, calls, history>>

\* Notify(): first isNotified, then the event.
Notify ==
    /\ OwnerGoto("notify", "signal")
    /\ isNotified' = TRUE /\ notifies' = notifies + 1
    /\ UNCHANGED <<suspendOption, hThread, suspension, isLocked, isSignalled,
                   workerVars, cancelled, late, then, force, calls, resumes>>

\* SetEvent(): isSignalled, and a signal to the worker if it is blocked
Signal ==
    /\ OwnerGoto("signal", then)
    /\ isSignalled' = TRUE
    /\ wpc' = IF wpc = "blocked" THEN "awake" ELSE wpc
    /\ UNCHANGED <<suspendOption, hThread, suspension, isLocked, isNotified, at, passes,
                   spurious, cancelled, late, then, force, calls, history>>

\* Suspend(): SuspendThread() returns the previous count, which is taken for success.
Suspend ==
    /\ Call("idle") /\ hThread = "open" /\ ~isSuspended /\ wpc \notin Terminal
    /\ suspendCount' = suspendCount + 1
    /\ isSuspended' = (suspendCount > 0)
    /\ UNCHANGED <<suspendOption, hThread, lock, workerVars, cancelled, late, then, force, history>>

\* Stop(): threadShouldExit is set, and a suspended worker is resumed first.  The
\* destructor calls Stop(true).
EnterStop ==
    /\ hThread = "open"
    /\ \/ Call("active") /\ force' = FALSE
       \/ OwnerGoto("idle", "active") /\ force' = TRUE /\ UNCHANGED calls

Stop ==
    /\ ~isSuspended /\ EnterStop
    /\ UNCHANGED <<suspendOption, hThread, suspension, lock, workerVars, cancelled,
                   late, then, history>>

StopSuspended ==
    /\ isSuspended /\ hThread = "open" /\ opc = "idle"
    /\ ContinueThen("active")
    /\ \/ calls < MaxCalls /\ calls' = calls + 1 /\ force' = FALSE
       \/ force' = TRUE /\ UNCHANGED calls
    /\ UNCHANGED <<suspendOption, hThread, lock, workerVars, cancelled, late, notifies>>

\* GetExitCodeThread() says STILL_ACTIVE.  A worker that IsWaiting() is let go, and
\* will wait no more.
StillActive ==
    /\ opc = "active"
    /\ IF isLocked \/ isSuspended
       THEN suspendOption' = {} /\ ContinueThen(IF force THEN "terminate" ELSE "idle")
       ELSE /\ opc' = IF force THEN "terminate" ELSE "idle"
            /\ UNCHANGED <<suspendOption, suspension, then, resumes>>
    /\ UNCHANGED <<hThread, lock, workerVars, cancelled, late, force, calls, notifies>>

\* pthread_kill(thread, 0) finds no such thread, as some systems do for one that has
\* exited and is not joined.
NotActive ==
    /\ OwnerGoto("active", "closing") /\ wpc \in Terminal
    /\ UNCHANGED <<suspendOption, hThread, suspension, lock, workerVars, cancelled,
                   late, then, force, calls, history>>

\* TerminateThread(): pthread_cancel(), and five waits of 1 s for the thread to exit
Terminate ==
    /\ OwnerGoto("terminate", "terminating")
    /\ cancelled' = TRUE
    /\ UNCHANGED <<suspendOption, hThread, suspension, lock, workerVars, late, then,
                   force, calls, history>>

Terminated ==
    /\ OwnerGoto("terminating", "closing") /\ wpc \in Terminal
    /\ UNCHANGED <<suspendOption, hThread, suspension, lock, workerVars, cancelled,
                   late, then, force, calls, history>>

\* Only the methods of the derived class take that long, or a suspended thread, as
\* one suspended once still is: isSuspended does not say so, and Stop() has not
\* resumed it.  The thread is sent SIGTERM: zfsctool catches it, for another request
\* to quit, and afsctool is ended by it.
TerminateTimesOut ==
    /\ OwnerGoto("terminating", "closing") \/ OwnerGoto("terminating", "ended")
    /\ wpc \in Methods \/ suspendCount > 0
    /\ wpc \notin Terminal
    /\ late' = TRUE
    /\ UNCHANGED <<suspendOption, hThread, suspension, lock, workerVars, cancelled,
                   then, force, calls, history>>

\* CloseHandle() joins the thread, unless a timed join has detached it.
Close ==
    /\ OwnerGoto("closing", IF force THEN "destroyed" ELSE "idle")
    /\ wpc \in Terminal \/ late
    /\ hThread' = "null"
    /\ UNCHANGED <<suspendOption, suspension, lock, workerVars, cancelled, late, then,
                   force, calls, history>>

\* The destructor of an object without a thread.
DestroyIdle ==
    /\ OwnerGoto("idle", "destroyed") /\ hThread = "null"
    /\ UNCHANGED <<suspendOption, hThread, suspension, lock, workerVars, cancelled,
                   late, then, force, calls, history>>

\* The steps of a call that has been made
OwnerStep ==
    \/ ContinueLocked \/ Notify \/ Signal \/ StillActive \/ NotActive
    \/ Terminate \/ Terminated \/ TerminateTimesOut \/ Close

OwnerCalls ==
    \/ Start \/ StartWaiting \/ Continue \/ Suspend
    \/ Stop \/ StopSuspended \/ DestroyIdle

Destroyed == opc \in {"destroyed", "ended"} /\ UNCHANGED vars

Next ==
    \/ WorkerStep \/ WakeSpuriously \/ CancelledRunning
    \/ OwnerStep \/ OwnerCalls
    \/ Destroyed

Spec == Init /\ [][Next]_vars

\* Both threads are scheduled, waits time out, and the methods of the derived
\* class return.  The owner need not make any call.
FairSpec == Spec /\ WF_vars(WorkerStep) /\ WF_vars(OwnerStep)
-----------------------------------------------------------------------------
TypeOK ==
    /\ suspendOption \in Options \cup {{}}
    /\ hThread \in {"null", "open"}
    /\ suspendCount \in 0 .. MaxCalls + 1 /\ isSuspended \in BOOLEAN
    /\ isLocked \in BOOLEAN /\ isNotified \in BOOLEAN /\ isSignalled \in BOOLEAN
    /\ wpc \in Terminal \cup Waiting
                \cup {"created", "initialised", "lock", "running", "cleanup"}
    /\ at \in SyncPoints
    /\ {cancelled, late, force} \subseteq BOOLEAN
    /\ {opc, then} \subseteq {"idle", "continue", "notify", "signal", "active",
                              "terminate", "terminating", "closing", "destroyed",
                              "ended"}
    /\ calls \in 0 .. MaxCalls
    /\ notifies \in Nat /\ passes \in Nat /\ resumes \in Nat
    /\ spurious \in 0 .. MaxSpurious

\* A worker waits at its synchronisation points until it is told to go on: one
\* Notify() lets it through at most twice (once by isNotified, if its wait timed out
\* before the event was set, and once by the event it has then left behind), and
\* one that is to wait before InitThread() runs only once resumed
\* (Thread.hpp:373-411, Thread.cpp:175-184, 238-257).
ReleasedByNotify ==
    /\ passes <= 2 * notifies + spurious
    /\ "beforeInit" \in suspendOption /\ wpc \notin {"none", "created"} => resumes > 0

\* A notified worker gets through, although SetEvent() can come between its test of
\* the event and its wait, unless Suspend() is called in between
\* (Thread.hpp:361-411, msemul.cpp:514-526, msemul.h:768-780).
NotifiedLeaves ==
    (isNotified /\ wpc \in Waiting) ~> (wpc \notin Waiting \/ suspendCount > 0)

\* The destructor returns wherever the worker is, at a synchronisation point as well,
\* cancelling it if need be (Thread.cpp:127-145, 315-354, msemul.h:457-486).  But for
\* one case: a worker that has not gone after five waits of a second, because it is
\* in its own methods or because it was suspended once, which Suspend() does not
\* record (Thread.cpp:276-285), is sent a SIGTERM, and that may end the whole process
\* (msemul.h:472-474).
DestructorReturns ==
    force ~> \/ opc = "destroyed"
             \/ opc = "ended" /\ (suspendCount > 0 \/ wpc \in Methods)
=============================================================================
