----------------------------- MODULE WorkerPool -----------------------------
(***************************************************************************)
(* The worker pool of ParallelProcess.cpp / ParallelProcess_p.hpp: the     *)
(* queue of files, the FileProcessor threads that empty it from the front  *)
(* or from the rear, and ParallelFileProcessor::run(), which starts them,  *)
(* waits on allDoneEvent, gives late workers a grace period after a quit   *)
(* request and then stops and deletes them one by one.                     *)
(*                                                                         *)
(* Every step is the longest stretch of code that touches shared memory    *)
(* once, or that runs under listLock or threadLock.                        *)
(***************************************************************************)
EXTENDS Integers, Sequences, FiniteSets

CONSTANTS
    NJobs,              \* nJobs when run() is called: the workers requested
    NReverse,           \* nReverse: how many of them attack the queue's rear
    NFiles              \* entries in the queue when run() is called

ASSUME PoolAssumption ==
    /\ NJobs \in Nat \ {0}
    /\ NReverse \in Nat
    /\ NFiles \in Nat

Workers == 0 .. NJobs - 1       \* positions in threadPool
Files == 1 .. NFiles            \* entries, in queue (that is, size) order
NoFile == 0
Nobody == NJobs                 \* owner of a free threadLock

VARIABLES
    itemList,           \* the deque of entries nobody has taken
    quitRequestedFlag,
    nJobs, nProcessing, nProcessed,
    allDoneEvent,       \* "null", "clear", "set", or "closed": deleted, not yet NULL
    threadLock,         \* the thread that is inside workerDone()
    wpc,                \* where each worker is
    held,               \* the entry each worker has copied out of the queue
    cleanedUp,
    stopped,            \* workers run() has called Stop(true) on
    late,               \* those that had not gone 5 s later
    mpc,                \* where run() is
    i,                  \* run()'s loop index
    waitResult,         \* of the last WaitForSingleObject(allDoneEvent)
    spurious,           \* it has reported an event nobody had set: a history
    processed           \* the entries compress() has returned from

counters == <<nJobs, nProcessing, nProcessed>>
workerVars == <<wpc, held, cleanedUp, processed>>
runVars == <<mpc, i, waitResult, spurious, stopped, late>>
vars == <<itemList, quitRequestedFlag, counters, allDoneEvent, threadLock,
          workerVars, runVars>>

\* Run() has been entered and has not set the exit code.
Running == {"idle", "fetch", "fetched", "compressing", "compressed"}
\* CleanupThread() has been entered by the worker itself.
Departed == {"signalling", "departing", "gone"}
\* The thread does not exist (any more), or not yet.
Terminal == {"created", "gone", "cancelled"}

isBackwards(w) == w >= NJobs - NReverse

Init ==
    /\ itemList = [k \in 1 .. NFiles |-> k]
    /\ quitRequestedFlag = FALSE
    /\ nJobs = NJobs /\ nProcessing = 0 /\ nProcessed = 0
    /\ allDoneEvent = "null"
    /\ threadLock = Nobody
    /\ wpc = [w \in Workers |-> "none"]
    /\ held = [w \in Workers |-> NoFile]
    /\ cleanedUp = [w \in Workers |-> FALSE]
    /\ stopped = {} /\ late = {}
    /\ mpc = "enter" /\ i = 0 /\ waitResult = "none" /\ spurious = FALSE
    /\ processed = {}

Goto(w, from, to) == wpc[w] = from /\ wpc' = [wpc EXCEPT ![w] = to]
-----------------------------------------------------------------------------
(* Slips this code could contain, each a variant of an action below; the    *)
(* properties are tried against them.  No specification uses them.          *)

\* getBack() without the pop_back()
GetBackKeepsEntry(w) ==
    /\ isBackwards(w) /\ itemList # <<>>
    /\ Goto(w, "fetch", "fetched")
    /\ held' = [held EXCEPT ![w] = itemList[Len(itemList)]]
    /\ UNCHANGED <<itemList, quitRequestedFlag, counters, allDoneEvent,
                   threadLock, cleanedUp, processed, runVars>>

\* "size() > 1" for "!empty()"
QueueAlmostEmpty(w) ==
    /\ Len(itemList) <= 1
    /\ Goto(w, "fetch", "ended")
    /\ UNCHANGED <<itemList, quitRequestedFlag, counters, allDoneEvent,
                   threadLock, held, cleanedUp, processed, runVars>>

\* the -- after compress() forgotten
EndFileStillProcessing(w) ==
    /\ Goto(w, "compressing", "compressed")
    /\ UNCHANGED <<itemList, quitRequestedFlag, counters, allDoneEvent,
                   threadLock, held, cleanedUp, processed, runVars>>

\* -- where ++ is meant
CountFileDown(w) ==
    /\ Goto(w, "compressed", "idle")
    /\ nProcessed' = nProcessed - 1
    /\ processed' = processed \cup {held[w]}
    /\ held' = [held EXCEPT ![w] = NoFile]
    /\ UNCHANGED <<itemList, quitRequestedFlag, nJobs, nProcessing,
                   allDoneEvent, threadLock, cleanedUp, runVars>>

\* no threadLock around "nJobs -= 1": the decrement of a volatile can be lost
WorkerDoneUnlocked(w) ==
    /\ ~cleanedUp[w]
    /\ Goto(w, "ended", "departing")
    /\ nJobs' \in {nJobs - 1, nJobs}
    /\ UNCHANGED <<itemList, quitRequestedFlag, nProcessing, nProcessed,
                   allDoneEvent, threadLock, held, cleanedUp, processed, runVars>>

\* the event set when one worker is left
WorkerDoneEarly(w) ==
    LET last == nJobs - 1 <= 1 /\ allDoneEvent # "null"
    IN  /\ ~cleanedUp[w] /\ threadLock = Nobody
        /\ Goto(w, "ended", IF last THEN "signalling" ELSE "departing")
        /\ nJobs' = nJobs - 1
        /\ threadLock' = IF last THEN w ELSE Nobody
        /\ UNCHANGED <<itemList, quitRequestedFlag, nProcessing, nProcessed,
                       allDoneEvent, held, cleanedUp, processed, runVars>>

RunGoto(from, to) == mpc = from /\ mpc' = to

\* the criterion a comment in run() warns against: stop when size() == 0
TestWaitLoopOnSize ==
    /\ RunGoto("wait", IF itemList # <<>> /\ ~quitRequestedFlag /\ waitResult # "object"
                       THEN "blocked" ELSE "drain")
    /\ UNCHANGED <<itemList, quitRequestedFlag, counters, allDoneEvent,
                   threadLock, workerVars, i, waitResult, spurious, stopped, late>>

\* the quit flag not looked at
TestWaitLoopNoQuit ==
    /\ RunGoto("wait", IF nJobs >= 1 /\ waitResult # "object" THEN "blocked" ELSE "drain")
    /\ UNCHANGED <<itemList, quitRequestedFlag, counters, allDoneEvent,
                   threadLock, workerVars, i, waitResult, spurious, stopped, late>>

\* a thread deleted without being joined
JoinWorkerDetached ==
    /\ RunGoto("join", "reap")
    /\ i' = i + 1
    /\ UNCHANGED <<itemList, quitRequestedFlag, counters, allDoneEvent,
                   threadLock, workerVars, waitResult, spurious, stopped, late>>
-----------------------------------------------------------------------------
(* A worker: FileProcessor::Run and CleanupThread.                         *)

\* while( !PP->quitRequested() && ...
CheckQuit(w) ==
    /\ Goto(w, "idle", IF quitRequestedFlag THEN "ended" ELSE "fetch")
    /\ UNCHANGED <<itemList, quitRequestedFlag, counters, allDoneEvent,
                   threadLock, held, cleanedUp, processed, runVars>>

\* getFront() under listLock
GetFront(w) ==
    /\ ~isBackwards(w) /\ itemList # <<>>
    /\ Goto(w, "fetch", "fetched")
    /\ held' = [held EXCEPT ![w] = Head(itemList)]
    /\ itemList' = Tail(itemList)
    /\ UNCHANGED <<quitRequestedFlag, counters, allDoneEvent, threadLock,
                   cleanedUp, processed, runVars>>

\* getBack() under listLock
GetBack(w) ==
    /\ isBackwards(w) /\ itemList # <<>>
    /\ Goto(w, "fetch", "fetched")
    /\ held' = [held EXCEPT ![w] = itemList[Len(itemList)]]
    /\ itemList' = SubSeq(itemList, 1, Len(itemList) - 1)
    /\ UNCHANGED <<quitRequestedFlag, counters, allDoneEvent, threadLock,
                   cleanedUp, processed, runVars>>

\* Neither finds an entry: Run() returns and the exit code is set.
QueueEmpty(w) ==
    /\ itemList = <<>>
    /\ Goto(w, "fetch", "ended")
    /\ UNCHANGED <<itemList, quitRequestedFlag, counters, allDoneEvent,
                   threadLock, held, cleanedUp, processed, runVars>>

\* ++nProcessing, and into entry.compress()
BeginFile(w) ==
    /\ Goto(w, "fetched", "compressing")
    /\ nProcessing' = nProcessing + 1
    /\ UNCHANGED <<itemList, quitRequestedFlag, nJobs, nProcessed,
                   allDoneEvent, threadLock, held, cleanedUp, processed, runVars>>

\* compress() returns, --nProcessing
EndFile(w) ==
    /\ Goto(w, "compressing", "compressed")
    /\ nProcessing' = nProcessing - 1
    /\ UNCHANGED <<itemList, quitRequestedFlag, nJobs, nProcessed,
                   allDoneEvent, threadLock, held, cleanedUp, processed, runVars>>

\* ++PP->nProcessed and the bookkeeping at the end of the loop body
CountFile(w) ==
    /\ Goto(w, "compressed", "idle")
    /\ nProcessed' = nProcessed + 1
    /\ processed' = processed \cup {held[w]}
    /\ held' = [held EXCEPT ![w] = NoFile]
    /\ UNCHANGED <<itemList, quitRequestedFlag, nJobs, nProcessing,
                   allDoneEvent, threadLock, cleanedUp, runVars>>

\* workerDone(): nJobs -= 1 and the two tests, with threadLock taken; the
\* lock is still held when there is an event to set.
WorkerDone(w) ==
    LET last == nJobs - 1 <= 0 /\ allDoneEvent # "null"
    IN  /\ ~cleanedUp[w] /\ threadLock = Nobody
        /\ Goto(w, "ended", IF last THEN "signalling" ELSE "departing")
        /\ nJobs' = nJobs - 1
        /\ threadLock' = IF last THEN w ELSE Nobody
        /\ UNCHANGED <<itemList, quitRequestedFlag, nProcessing, nProcessed,
                       allDoneEvent, held, cleanedUp, processed, runVars>>

\* SetEvent(allDoneEvent) and the release of threadLock.  On a handle run()
\* has deleted this is undefined; here it is lost.
SignalAllDone(w) ==
    /\ Goto(w, "signalling", "departing")
    /\ allDoneEvent' = IF allDoneEvent = "clear" THEN "set" ELSE allDoneEvent
    /\ threadLock' = Nobody
    /\ UNCHANGED <<itemList, quitRequestedFlag, counters, held, cleanedUp,
                   processed, runVars>>

\* cleanedUp = true, and the thread exits
MarkCleanedUp(w) ==
    /\ Goto(w, "departing", "gone")
    /\ cleanedUp' = [cleanedUp EXCEPT ![w] = TRUE]
    /\ UNCHANGED <<itemList, quitRequestedFlag, counters, allDoneEvent,
                   threadLock, held, processed, runVars>>

\* The destructor was there first: CleanupThread() finds nothing to do.
SkipCleanup(w) ==
    /\ cleanedUp[w]
    /\ Goto(w, "ended", "gone")
    /\ UNCHANGED <<itemList, quitRequestedFlag, counters, allDoneEvent,
                   threadLock, held, cleanedUp, processed, runVars>>

\* pthread_cancel takes effect at a cancellation point, all of which are in
\* compress(); nothing the worker owes is done: nProcessing stays up.
Cancelled(w) ==
    /\ w \in stopped
    /\ Goto(w, "compressing", "cancelled")
    /\ UNCHANGED <<itemList, quitRequestedFlag, counters, allDoneEvent,
                   threadLock, held, cleanedUp, processed, runVars>>

WorkerStep(w) ==
    \/ CheckQuit(w) \/ GetFront(w) \/ GetBack(w) \/ QueueEmpty(w)
    \/ BeginFile(w) \/ EndFile(w) \/ CountFile(w)
    \/ WorkerDone(w) \/ SignalAllDone(w) \/ MarkCleanedUp(w) \/ SkipCleanup(w)
-----------------------------------------------------------------------------
(* The thread in run().                                                    *)

\* CreateEvent and the loop that fills threadPool
CreateWorkers ==
    /\ mpc = "enter"
    /\ mpc' = "start" /\ i' = 0
    /\ allDoneEvent' = "clear"
    /\ wpc' = [w \in Workers |-> "created"]
    /\ UNCHANGED <<itemList, quitRequestedFlag, counters, threadLock, held,
                   cleanedUp, processed, waitResult, spurious, stopped, late>>

\* for( i = 0 ; i < nJobs ; ++i ) threadPool[i]->Start(), with nJobs as the
\* workers that have already finished left it
StartWorker ==
    /\ mpc = "start" /\ i < nJobs
    /\ wpc' = [wpc EXCEPT ![i] = "idle"]
    /\ i' = i + 1
    /\ UNCHANGED <<itemList, quitRequestedFlag, counters, allDoneEvent,
                   threadLock, held, cleanedUp, processed, mpc, waitResult, spurious, stopped, late>>

StartedAll ==
    /\ i >= nJobs
    /\ RunGoto("start", "wait")
    /\ UNCHANGED <<itemList, quitRequestedFlag, counters, allDoneEvent,
                   threadLock, workerVars, i, waitResult, spurious, stopped, late>>

\* while( nJobs >= 1 && !quitRequested() && waitResult != WAIT_OBJECT_0 )
TestWaitLoop ==
    /\ RunGoto("wait", IF nJobs >= 1 /\ ~quitRequestedFlag /\ waitResult # "object"
                       THEN "blocked" ELSE "drain")
    /\ UNCHANGED <<itemList, quitRequestedFlag, counters, allDoneEvent,
                   threadLock, workerVars, i, waitResult, spurious, stopped, late>>

\* if( (quitRequested() && !threadPool.empty()) || nProcessing > 0 )
TestDrain ==
    /\ RunGoto("drain", IF quitRequestedFlag \/ nProcessing > 0 THEN "grace" ELSE "close")
    /\ i' = 0
    /\ UNCHANGED <<itemList, quitRequestedFlag, counters, allDoneEvent,
                   threadLock, workerVars, waitResult, spurious, stopped, late>>

\* WaitForSingleObject finds or receives the auto-reset event, or
\* pthread_cond_timedwait wakes for no reason, which is taken for the same.
WaitReturnsObject ==
    /\ spurious' = (spurious \/ allDoneEvent # "set")
    /\ \/ RunGoto("blocked", "wait")
       \/ RunGoto("grace", "close")
    /\ allDoneEvent' = "clear"
    /\ waitResult' = "object"
    /\ UNCHANGED <<itemList, quitRequestedFlag, counters, threadLock,
                   workerVars, i, stopped, late>>

\* The 2000 ms of the main wait pass.  They may do so with the event set:
\* SetEvent can fall between the test of isSignalled and the wait.
WaitTimesOut ==
    /\ RunGoto("blocked", "wait")
    /\ waitResult' = "timeout"
    /\ UNCHANGED <<itemList, quitRequestedFlag, counters, allDoneEvent,
                   threadLock, workerVars, i, spurious, stopped, late>>

\* A grace period of nProcessing * 500 ms passes; there are up to nProcessing
\* more, nProcessing being read again each time.
GraceTimesOut ==
    /\ mpc = "grace"
    /\ waitResult' = "timeout"
    /\ IF i < nProcessing THEN i' = i + 1 /\ mpc' = "grace"
                          ELSE i' = i /\ mpc' = "close"
    /\ UNCHANGED <<itemList, quitRequestedFlag, counters, allDoneEvent,
                   threadLock, workerVars, spurious, stopped, late>>

\* CloseHandle(allDoneEvent) deletes the event ...
CloseEvent ==
    /\ RunGoto("close", "clear")
    /\ allDoneEvent' = "closed"
    /\ UNCHANGED <<itemList, quitRequestedFlag, counters, threadLock,
                   workerVars, i, waitResult, spurious, stopped, late>>

\* ... and only then does the pointer to it become NULL.
ForgetEvent ==
    /\ RunGoto("clear", "reap")
    /\ allDoneEvent' = "null"
    /\ i' = 0
    /\ UNCHANGED <<itemList, quitRequestedFlag, counters, threadLock,
                   workerVars, waitResult, spurious, stopped, late>>

\* The thread at the front of threadPool: GetExitCode() == STILL_ACTIVE?
\* Yes: pthread_cancel and wait for it to go.
StopWorker ==
    /\ i < NJobs /\ wpc[i] \in Running
    /\ RunGoto("reap", "stopping")
    /\ stopped' = stopped \cup {i}
    /\ UNCHANGED <<itemList, quitRequestedFlag, counters, allDoneEvent,
                   threadLock, workerVars, i, waitResult, spurious, late>>

WorkerStopped ==
    /\ mpc = "stopping" /\ wpc[i] \in Terminal
    /\ mpc' = "delete"
    /\ UNCHANGED <<itemList, quitRequestedFlag, counters, allDoneEvent,
                   threadLock, workerVars, i, waitResult, spurious, stopped, late>>

\* It has not gone after 5 waits of 1000 ms, which only compress() can outlast.
\* The first wait has detached the thread; it is sent SIGTERM, which zfsctool takes
\* for another request to quit (and which ends afsctool).
StopTimesOut ==
    /\ RunGoto("stopping", "delete") /\ wpc[i] = "compressing"
    /\ late' = late \cup {i}
    /\ quitRequestedFlag' = TRUE
    /\ UNCHANGED <<itemList, counters, allDoneEvent, threadLock, workerVars, i,
                   waitResult, spurious, stopped>>

\* No: straight on to the destructor.
WorkerInactive ==
    /\ i < NJobs /\ wpc[i] \notin Running
    /\ RunGoto("reap", "delete")
    /\ UNCHANGED <<itemList, quitRequestedFlag, counters, allDoneEvent,
                   threadLock, workerVars, i, waitResult, spurious, stopped, late>>

\* ~FileProcessor calls CleanupThread() too, "better be safe than sorry": a
\* worker that has not (yet) set cleanedUp is counted out here.
DestroyWorker ==
    /\ RunGoto("delete", "join")
    /\ cleanedUp[i] \/ threadLock = Nobody
    /\ nJobs' = IF cleanedUp[i] THEN nJobs ELSE nJobs - 1
    /\ cleanedUp' = [cleanedUp EXCEPT ![i] = TRUE]
    /\ UNCHANGED <<itemList, quitRequestedFlag, nProcessing, nProcessed,
                   allDoneEvent, threadLock, wpc, held, processed, i,
                   waitResult, spurious, stopped, late>>

\* ~Thread joins the thread, unless it is detached; threadPool.pop_front()
JoinWorker ==
    /\ mpc = "join" /\ (wpc[i] \in Terminal \/ i \in late)
    /\ mpc' = "reap"
    /\ i' = i + 1
    /\ UNCHANGED <<itemList, quitRequestedFlag, counters, allDoneEvent,
                   threadLock, workerVars, waitResult, spurious, stopped, late>>

ReturnProcessed ==
    /\ i = NJobs
    /\ RunGoto("reap", "returned")
    /\ UNCHANGED <<itemList, quitRequestedFlag, counters, allDoneEvent,
                   threadLock, workerVars, i, waitResult, spurious, stopped, late>>

RunStep ==
    \/ CreateWorkers \/ StartWorker \/ StartedAll \/ TestWaitLoop \/ TestDrain
    \/ WaitReturnsObject \/ WaitTimesOut \/ GraceTimesOut
    \/ CloseEvent \/ ForgetEvent \/ StopWorker \/ WorkerStopped
    \/ StopTimesOut \/ WorkerInactive \/ DestroyWorker \/ JoinWorker \/ ReturnProcessed

\* signal_handler() -> stopParallelProcessor(): sets a flag, takes no lock
RequestQuit ==
    /\ ~quitRequestedFlag /\ mpc # "returned"
    /\ quitRequestedFlag' = TRUE
    /\ UNCHANGED <<itemList, counters, allDoneEvent, threadLock, workerVars, runVars>>

Returned == mpc = "returned" /\ UNCHANGED vars

Next ==
    \/ \E w \in Workers : WorkerStep(w) \/ Cancelled(w)
    \/ RunStep
    \/ RequestQuit
    \/ Returned

Spec == Init /\ [][Next]_vars

\* The scheduler runs every thread, files are finite, waits time out.
Fairness == WF_vars(RunStep) /\ \A w \in Workers : WF_vars(WorkerStep(w))

FairSpec == Spec /\ Fairness
-----------------------------------------------------------------------------
TypeOK ==
    /\ itemList \in Seq(Files)
    /\ quitRequestedFlag \in BOOLEAN
    /\ nJobs \in Int /\ nProcessing \in Int /\ nProcessed \in Nat
    /\ allDoneEvent \in {"null", "clear", "set", "closed"}
    /\ threadLock \in Workers \cup {Nobody}
    /\ wpc \in [Workers -> Running \cup Departed \cup {"none", "created", "ended", "cancelled"}]
    /\ held \in [Workers -> Files \cup {NoFile}]
    /\ cleanedUp \in [Workers -> BOOLEAN]
    /\ stopped \subseteq Workers /\ late \subseteq Workers
    /\ mpc \in {"enter", "start", "wait", "blocked", "drain", "grace", "close",
                "clear", "reap", "stopping", "delete", "join", "returned"}
    /\ i \in Nat
    /\ waitResult \in {"none", "object", "timeout"} /\ spurious \in BOOLEAN
    /\ processed \subseteq Files

Queued == {itemList[k] : k \in 1 .. Len(itemList)}
Held == {held[w] : w \in Workers} \ {NoFile}

\* No interleaving of front and rear workers, quit requests and cancellations
\* loses an entry, hands it to two workers or processes it twice.
FilesConserved ==
    /\ \A j, k \in 1 .. Len(itemList) : itemList[j] = itemList[k] => j = k
    /\ \A v, w \in Workers : held[v] = held[w] /\ held[v] # NoFile => v = w
    /\ Queued \cap Held = {} /\ Queued \cap processed = {} /\ Held \cap processed = {}
    /\ Queued \cup Held \cup processed = Files

\* nProcessing, on which run() bases both the length and the number of its
\* grace periods, counts the files being rewritten (a cancelled worker's file
\* stays in it), and the value run() returns counts the finished ones.  Until
\* run() starts deleting threads, nJobs is the number of workers that have not
\* been through workerDone(), started or not.
CountersExact ==
    /\ nProcessing = Cardinality({w \in Workers : wpc[w] \in {"compressing", "cancelled"}})
    /\ nProcessed = Cardinality(processed)
    /\ mpc \notin {"reap", "stopping", "delete", "join", "returned"} =>
         nJobs = NJobs - Cardinality({w \in Workers : wpc[w] \in Departed})

\* "the event that signals that all work has been done": when it is set every
\* worker has left and the queue is empty, unless the user asked to quit.
EventTruthful ==
    allDoneEvent = "set" =>
        /\ \A w \in Workers : wpc[w] \in {"departing", "gone"}
        /\ quitRequestedFlag \/ processed = Files

\* The user has asked to quit, or a wakeup without a signal (which run() cannot
\* tell from the event) has ended its wait.
Interrupted == quitRequestedFlag \/ spurious

\* Only then does run() cancel a worker that may be in the middle of rewriting
\* a file (ParallelProcess.cpp:226-229, 254-263, 279-285).
OnlyQuitInterrupts == stopped # {} => Interrupted

\* The FileProcessor that run() has deleted is never touched again by a thread
\* that still executes its methods, but for one that would not go in 5 s
\* (ParallelProcess_p.hpp:272-274, Thread.cpp:127-135, msemul.h:457-486).
DeletedIsTerminated ==
    [][\A w \in Workers :
        (mpc \in {"reap", "stopping", "delete", "join", "returned"}
            /\ w < i /\ w \notin late)
            => wpc'[w] = wpc[w]]_vars

\* A quit request always ends run(), whatever the workers are doing.
QuitReturns == quitRequestedFlag ~> mpc = "returned"

\* If every requested worker was started, run() returns.
StartedReturns ==
    (\A w \in Workers : wpc[w] \notin {"none", "created"}) ~> mpc = "returned"

\* Every entry is processed in the end, unless run() is interrupted.
AllProcessed == <>(Interrupted \/ processed = Files)

\* run() returns.  (ParallelProcess_p.hpp: "After spawning the workers, run()
\* waits on allDoneEvent before exiting.")
RunReturns == <>(mpc = "returned")

Jobs == INSTANCE FileJobs WITH
    pending <- Queued, taken <- Held, finished <- processed,
    stopping <- Interrupted, returned <- (mpc = "returned")

\* The pool implements the abstract job specification, an interruption being the
\* request to stop.
RefinesFileJobs == Jobs!JobSpec
=============================================================================
