-------------------------- MODULE WorkerPoolProofs --------------------------
(***************************************************************************)
(* What WorkerPool promises of the parallel file processor, proved for any *)
(* number of workers, rear workers and files: each file is dealt with once *)
(* and by one worker, the counters and the event tell the truth, workers   *)
(* are deleted at rest, and the pool implements FileJobs.  The invariant   *)
(* is PoolInv; its parts are introduced one after the other, each with the *)
(* steps that keep it.                                                     *)
(***************************************************************************)
EXTENDS WorkerPool, SequenceTheorems, Counting, TLAPS

\* Where a worker is when it has an entry of the queue in its hands.
Busy == {"fetched", "compressing", "compressed", "cancelled"}

\* An entry is in a worker's hands exactly while it is dealt with, so that
\* taking the next one overwrites nothing.
HeldWhileBusy == \A w \in Workers : held[w] # NoFile <=> wpc[w] \in Busy

\* run() starts only workers that exist and have not been started, and deletes
\* only workers of the pool.
RunControl ==
    /\ nJobs <= NJobs
    /\ mpc = "enter" => \A w \in Workers : wpc[w] = "none"
    /\ mpc = "start" => \A w \in Workers : w >= i => wpc[w] = "created"
    /\ mpc \in {"stopping", "delete", "join"} => i \in Workers

ControlInv == TypeOK /\ HeldWhileBusy /\ RunControl

\* What a deque gives and keeps when its first entry is removed.
LEMMA TailFacts ==
    ASSUME NEW S, NEW s \in Seq(S), s # <<>>
    PROVE  /\ Head(s) \in S /\ Head(s) = s[1]
           /\ Tail(s) \in Seq(S) /\ Len(Tail(s)) = Len(s) - 1
           /\ Len(s) \in Nat /\ Len(s) > 0
           /\ \A k \in 1 .. Len(s) - 1 : Tail(s)[k] = s[k + 1]
  OBVIOUS

\* The same for its last entry.
LEMMA FrontFacts ==
    ASSUME NEW S, NEW s \in Seq(S), s # <<>>
    PROVE  /\ Len(s) \in Nat /\ Len(s) > 0 /\ s[Len(s)] \in S
           /\ SubSeq(s, 1, Len(s) - 1) \in Seq(S)
           /\ Len(SubSeq(s, 1, Len(s) - 1)) = Len(s) - 1
           /\ \A k \in 1 .. Len(s) - 1 : SubSeq(s, 1, Len(s) - 1)[k] = s[k]
  <1>1. Len(s) \in Nat /\ Len(s) > 0 /\ \A k \in 1 .. Len(s) : s[k] \in S
    OBVIOUS
  <1>2. /\ SubSeq(s, 1, Len(s) - 1) \in Seq(S)
        /\ Len(SubSeq(s, 1, Len(s) - 1)) =
               IF 1 <= Len(s) - 1 THEN Len(s) - 1 - 1 + 1 ELSE 0
        /\ \A k \in 1 .. Len(s) - 1 - 1 + 1 :
               SubSeq(s, 1, Len(s) - 1)[k] = s[1 + k - 1]
    <2>1. 1 \in Int /\ Len(s) - 1 \in Int /\ \A k \in 1 .. Len(s) - 1 : s[k] \in S
      BY <1>1
    <2>2. QED
      BY <2>1, SubSeqProperties
  <1>3. QED
    <2>1. Len(s) - 1 - 1 + 1 = Len(s) - 1 /\ (1 <= Len(s) - 1 \/ Len(s) - 1 = 0)
      <3>1. \A n \in Nat : n > 0 => n - 1 - 1 + 1 = n - 1 /\ (1 <= n - 1 \/ n - 1 = 0)
        OBVIOUS
      <3>2. QED
        BY <1>1, <3>1
    <2>2. \A k \in 1 .. Len(s) - 1 : 1 + k - 1 = k
      BY <1>1
    <2>3. Len(SubSeq(s, 1, Len(s) - 1)) = Len(s) - 1
      BY <1>1, <1>2, <2>1
    <2>4. QED
      BY <1>1, <1>2, <2>1, <2>2, <2>3

USE DEF Workers, Files, NoFile, Nobody, counters, workerVars, runVars
-----------------------------------------------------------------------------
\* The control part of the invariant holds in the initial state.
LEMMA ControlInit == Init => ControlInv
  <1> SUFFICES ASSUME Init PROVE ControlInv
    OBVIOUS
  <1>1. TypeOK
    <2>1. itemList \in Seq(Files)
      BY PoolAssumption, IsASeq DEF Init
    <2>2. /\ wpc \in [Workers -> Running \cup Departed \cup {"none", "created", "ended", "cancelled"}]
          /\ held \in [Workers -> Files \cup {NoFile}]
          /\ cleanedUp \in [Workers -> BOOLEAN]
      BY DEF Init
    <2>3. nJobs \in Int /\ nProcessing \in Int /\ nProcessed \in Nat /\ i \in Nat
      BY PoolAssumption DEF Init
    <2>4. stopped \subseteq Workers /\ late \subseteq Workers /\ processed \subseteq Files
      BY DEF Init
    <2>5. QED
      BY <2>1, <2>2, <2>3, <2>4 DEF Init, TypeOK
  <1>2. HeldWhileBusy /\ RunControl
    BY PoolAssumption DEF Init, HeldWhileBusy, RunControl, Busy
  <1>3. QED
    BY <1>1, <1>2 DEF ControlInv

\* Each step keeps every variable in its type; a finished entry is a file
\* because a worker that is in compress() has one.
LEMMA TypeStep ==
    ASSUME TypeOK, HeldWhileBusy, RunControl, [Next]_vars
    PROVE  TypeOK'
  <1> USE DEF TypeOK, Running, Departed
  <1>1. ASSUME NEW w \in Workers, WorkerStep(w) \/ Cancelled(w) PROVE TypeOK'
    <2>1. CASE CheckQuit(w)
      BY <2>1 DEF CheckQuit, Goto
    <2>2. CASE GetFront(w)
      <3>1. Head(itemList) \in Files /\ Tail(itemList) \in Seq(Files)
        BY <2>2, TailFacts DEF GetFront
      <3>2. QED
        BY <2>2, <3>1 DEF GetFront, Goto
    <2>3. CASE GetBack(w)
      <3>1. /\ itemList[Len(itemList)] \in Files
            /\ SubSeq(itemList, 1, Len(itemList) - 1) \in Seq(Files)
        BY <2>3, FrontFacts DEF GetBack
      <3>2. QED
        BY <2>3, <3>1 DEF GetBack, Goto
    <2>4. CASE QueueEmpty(w)
      BY <2>4 DEF QueueEmpty, Goto
    <2>5. CASE BeginFile(w)
      BY <2>5 DEF BeginFile, Goto
    <2>6. CASE EndFile(w)
      BY <2>6 DEF EndFile, Goto
    <2>7. CASE CountFile(w)
      <3>1. held[w] \in Files
        BY <2>7 DEF CountFile, Goto, HeldWhileBusy, Busy
      <3>2. processed' \subseteq Files
        BY <2>7, <3>1 DEF CountFile
      <3>3. nProcessed' \in Nat /\ held' \in [Workers -> Files \cup {NoFile}]
        BY <2>7 DEF CountFile
      <3>4. QED
        BY <2>7, <3>2, <3>3 DEF CountFile, Goto
    <2>8. CASE WorkerDone(w)
      BY <2>8 DEF WorkerDone, Goto
    <2>9. CASE SignalAllDone(w)
      BY <2>9 DEF SignalAllDone, Goto
    <2>10. CASE MarkCleanedUp(w)
      BY <2>10 DEF MarkCleanedUp, Goto
    <2>11. CASE SkipCleanup(w)
      BY <2>11 DEF SkipCleanup, Goto
    <2>12. CASE Cancelled(w)
      BY <2>12 DEF Cancelled, Goto
    <2>13. QED
      BY <1>1, <2>1, <2>2, <2>3, <2>4, <2>5, <2>6, <2>7, <2>8, <2>9, <2>10, <2>11, <2>12 DEF WorkerStep
  <1>2. CASE RunStep
    <2>1. CASE CreateWorkers
      BY <2>1 DEF CreateWorkers, RunGoto
    <2>2. CASE StartWorker
      <3>1. i \in Workers
        BY <2>2, PoolAssumption DEF StartWorker, RunGoto, RunControl
      <3>2. QED
        BY <2>2, <3>1 DEF StartWorker, RunGoto
    <2>3. CASE StartedAll
      BY <2>3 DEF StartedAll, RunGoto
    <2>4. CASE TestWaitLoop
      BY <2>4 DEF TestWaitLoop, RunGoto
    <2>5. CASE TestDrain
      BY <2>5 DEF TestDrain, RunGoto
    <2>6. CASE WaitReturnsObject
      BY <2>6 DEF WaitReturnsObject, RunGoto
    <2>7. CASE WaitTimesOut
      BY <2>7 DEF WaitTimesOut, RunGoto
    <2>8. CASE GraceTimesOut
      BY <2>8 DEF GraceTimesOut, RunGoto
    <2>9. CASE CloseEvent
      BY <2>9 DEF CloseEvent, RunGoto
    <2>10. CASE ForgetEvent
      BY <2>10 DEF ForgetEvent, RunGoto
    <2>11. CASE StopWorker
      <3>1. i \in Workers
        BY <2>11, PoolAssumption DEF StopWorker
      <3>2. stopped' \subseteq Workers
        BY <2>11, <3>1 DEF StopWorker
      <3>3. QED
        BY <2>11, <3>2 DEF StopWorker, RunGoto
    <2>12. CASE WorkerStopped
      BY <2>12 DEF WorkerStopped, RunGoto
    <2>13. CASE WorkerInactive
      BY <2>13 DEF WorkerInactive, RunGoto
    <2>14. CASE DestroyWorker
      <3>1. i \in Workers
        BY <2>14, PoolAssumption DEF DestroyWorker, RunGoto, RunControl
      <3>2. QED
        BY <2>14, <3>1 DEF DestroyWorker, RunGoto
    <2>15. CASE JoinWorker
      BY <2>15 DEF JoinWorker, RunGoto
    <2>16. CASE ReturnProcessed
      BY <2>16 DEF ReturnProcessed, RunGoto
    <2>17. CASE StopTimesOut
      <3>1. i \in Workers
        BY <2>17 DEF StopTimesOut, RunGoto, RunControl
      <3>2. QED
        BY <2>17, <3>1 DEF StopTimesOut, RunGoto
    <2>18. QED
      BY <1>2, <2>1, <2>2, <2>3, <2>4, <2>5, <2>6, <2>7, <2>8,
         <2>9, <2>10, <2>11, <2>12, <2>13, <2>14, <2>15, <2>16, <2>17 DEF RunStep
  <1>3. CASE RequestQuit
    BY <1>3 DEF RequestQuit
  <1>4. CASE UNCHANGED vars
    BY <1>4 DEF vars
  <1>5. QED
    BY <1>1, <1>2, <1>3, <1>4 DEF Next, Returned

\* A worker takes and drops its entry together with changing its place.
LEMMA HeldStep ==
    ASSUME TypeOK, HeldWhileBusy, RunControl, [Next]_vars
    PROVE  HeldWhileBusy'
  <1> USE DEF TypeOK, HeldWhileBusy, Busy
  <1>1. ASSUME NEW w \in Workers, WorkerStep(w) \/ Cancelled(w) PROVE HeldWhileBusy'
    <2>1. CASE CheckQuit(w)
      BY <2>1 DEF CheckQuit, Goto
    <2>2. CASE GetFront(w)
      <3>1. Head(itemList) \in Files /\ Tail(itemList) \in Seq(Files)
        BY <2>2, TailFacts DEF GetFront
      <3>2. QED
        BY <2>2, <3>1 DEF GetFront, Goto
    <2>3. CASE GetBack(w)
      <3>1. /\ itemList[Len(itemList)] \in Files
            /\ SubSeq(itemList, 1, Len(itemList) - 1) \in Seq(Files)
        BY <2>3, FrontFacts DEF GetBack
      <3>2. QED
        BY <2>3, <3>1 DEF GetBack, Goto
    <2>4. CASE QueueEmpty(w)
      BY <2>4 DEF QueueEmpty, Goto
    <2>5. CASE BeginFile(w)
      BY <2>5 DEF BeginFile, Goto
    <2>6. CASE EndFile(w)
      BY <2>6 DEF EndFile, Goto
    <2>7. CASE CountFile(w)
      BY <2>7 DEF CountFile, Goto
    <2>8. CASE WorkerDone(w)
      BY <2>8 DEF WorkerDone, Goto
    <2>9. CASE SignalAllDone(w)
      BY <2>9 DEF SignalAllDone, Goto
    <2>10. CASE MarkCleanedUp(w)
      BY <2>10 DEF MarkCleanedUp, Goto
    <2>11. CASE SkipCleanup(w)
      BY <2>11 DEF SkipCleanup, Goto
    <2>12. CASE Cancelled(w)
      BY <2>12 DEF Cancelled, Goto
    <2>13. QED
      BY <1>1, <2>1, <2>2, <2>3, <2>4, <2>5, <2>6, <2>7, <2>8, <2>9, <2>10, <2>11, <2>12 DEF WorkerStep
  <1>2. CASE RunStep
    <2>1. CASE CreateWorkers
      BY <2>1 DEF CreateWorkers, RunControl
    <2>2. CASE StartWorker
      <3>1. i \in Workers /\ wpc[i] = "created"
        BY <2>2, PoolAssumption DEF StartWorker, RunControl
      <3>2. QED
        BY <2>2, <3>1 DEF StartWorker
    <2>3. CASE StartedAll
      BY <2>3 DEF StartedAll, RunGoto
    <2>4. CASE TestWaitLoop
      BY <2>4 DEF TestWaitLoop, RunGoto
    <2>5. CASE TestDrain
      BY <2>5 DEF TestDrain, RunGoto
    <2>6. CASE WaitReturnsObject
      BY <2>6 DEF WaitReturnsObject, RunGoto
    <2>7. CASE WaitTimesOut
      BY <2>7 DEF WaitTimesOut, RunGoto
    <2>8. CASE GraceTimesOut
      BY <2>8 DEF GraceTimesOut, RunGoto
    <2>9. CASE CloseEvent
      BY <2>9 DEF CloseEvent, RunGoto
    <2>10. CASE ForgetEvent
      BY <2>10 DEF ForgetEvent, RunGoto
    <2>11. CASE StopWorker
      BY <2>11 DEF StopWorker, RunGoto
    <2>12. CASE WorkerStopped
      BY <2>12 DEF WorkerStopped, RunGoto
    <2>13. CASE WorkerInactive
      BY <2>13 DEF WorkerInactive, RunGoto
    <2>14. CASE DestroyWorker
      BY <2>14 DEF DestroyWorker, RunGoto
    <2>15. CASE JoinWorker
      BY <2>15 DEF JoinWorker, RunGoto
    <2>16. CASE ReturnProcessed
      BY <2>16 DEF ReturnProcessed, RunGoto
    <2>17. CASE StopTimesOut
      BY <2>17 DEF StopTimesOut, RunGoto
    <2>18. QED
      BY <1>2, <2>1, <2>2, <2>3, <2>4, <2>5, <2>6, <2>7, <2>8,
         <2>9, <2>10, <2>11, <2>12, <2>13, <2>14, <2>15, <2>16, <2>17 DEF RunStep
  <1>3. CASE RequestQuit
    BY <1>3 DEF RequestQuit
  <1>4. CASE UNCHANGED vars
    BY <1>4 DEF vars
  <1>5. QED
    BY <1>1, <1>2, <1>3, <1>4 DEF Next, Returned

\* No worker runs before run() has started it, nJobs only goes down, and the
\* thread run() stops, deletes and joins is one of the pool.
LEMMA RunControlStep ==
    ASSUME TypeOK, RunControl, [Next]_vars
    PROVE  RunControl'
  <1> USE DEF TypeOK, RunControl
  <1>1. ASSUME NEW w \in Workers, WorkerStep(w) \/ Cancelled(w) PROVE RunControl'
    <2>1. CASE CheckQuit(w)
      BY <2>1 DEF CheckQuit, Goto
    <2>2. CASE GetFront(w)
      BY <2>2 DEF GetFront, Goto
    <2>3. CASE GetBack(w)
      BY <2>3 DEF GetBack, Goto
    <2>4. CASE QueueEmpty(w)
      BY <2>4 DEF QueueEmpty, Goto
    <2>5. CASE BeginFile(w)
      BY <2>5 DEF BeginFile, Goto
    <2>6. CASE EndFile(w)
      BY <2>6 DEF EndFile, Goto
    <2>7. CASE CountFile(w)
      BY <2>7 DEF CountFile, Goto
    <2>8. CASE WorkerDone(w)
      BY <2>8 DEF WorkerDone, Goto
    <2>9. CASE SignalAllDone(w)
      BY <2>9 DEF SignalAllDone, Goto
    <2>10. CASE MarkCleanedUp(w)
      BY <2>10 DEF MarkCleanedUp, Goto
    <2>11. CASE SkipCleanup(w)
      BY <2>11 DEF SkipCleanup, Goto
    <2>12. CASE Cancelled(w)
      BY <2>12 DEF Cancelled, Goto
    <2>13. QED
      BY <1>1, <2>1, <2>2, <2>3, <2>4, <2>5, <2>6, <2>7, <2>8, <2>9, <2>10, <2>11, <2>12 DEF WorkerStep
  <1>2. CASE RunStep
    <2>1. CASE CreateWorkers
      BY <2>1, PoolAssumption DEF CreateWorkers, RunGoto
    <2>2. CASE StartWorker
      BY <2>2, PoolAssumption DEF StartWorker, RunGoto
    <2>3. CASE StartedAll
      BY <2>3 DEF StartedAll, RunGoto
    <2>4. CASE TestWaitLoop
      BY <2>4 DEF TestWaitLoop, RunGoto
    <2>5. CASE TestDrain
      BY <2>5 DEF TestDrain, RunGoto
    <2>6. CASE WaitReturnsObject
      BY <2>6 DEF WaitReturnsObject, RunGoto
    <2>7. CASE WaitTimesOut
      BY <2>7 DEF WaitTimesOut, RunGoto
    <2>8. CASE GraceTimesOut
      BY <2>8 DEF GraceTimesOut, RunGoto
    <2>9. CASE CloseEvent
      BY <2>9 DEF CloseEvent, RunGoto
    <2>10. CASE ForgetEvent
      BY <2>10 DEF ForgetEvent, RunGoto
    <2>11. CASE StopWorker
      BY <2>11, PoolAssumption DEF StopWorker, RunGoto
    <2>12. CASE WorkerStopped
      BY <2>12 DEF WorkerStopped, RunGoto
    <2>13. CASE WorkerInactive
      BY <2>13, PoolAssumption DEF WorkerInactive, RunGoto
    <2>14. CASE DestroyWorker
      BY <2>14 DEF DestroyWorker, RunGoto
    <2>15. CASE JoinWorker
      BY <2>15 DEF JoinWorker, RunGoto
    <2>16. CASE ReturnProcessed
      BY <2>16 DEF ReturnProcessed, RunGoto
    <2>17. CASE StopTimesOut
      BY <2>17 DEF StopTimesOut, RunGoto
    <2>18. QED
      BY <1>2, <2>1, <2>2, <2>3, <2>4, <2>5, <2>6, <2>7, <2>8,
         <2>9, <2>10, <2>11, <2>12, <2>13, <2>14, <2>15, <2>16, <2>17 DEF RunStep
  <1>3. CASE RequestQuit
    BY <1>3 DEF RequestQuit
  <1>4. CASE UNCHANGED vars
    BY <1>4 DEF vars
  <1>5. QED
    BY <1>1, <1>2, <1>3, <1>4 DEF Next, Returned

\* Every step, of a worker, of run() or of the signal handler, keeps the whole
\* control invariant.
LEMMA ControlNext == ControlInv /\ [Next]_vars => ControlInv'
  BY TypeStep, HeldStep, RunControlStep DEF ControlInv

\* Type correctness, with the facts about control it needs.
THEOREM TypeCorrect == Spec => []TypeOK
  <1>1. ControlInv => TypeOK
    BY DEF ControlInv
  <1>2. QED
    BY <1>1, ControlInit, ControlNext, PTL DEF Spec
-----------------------------------------------------------------------------
(* Conservation of the queue's entries.                                    *)

\* A step that leaves the queue, the workers' hands and the results alone.
SameFiles == UNCHANGED <<itemList, held, processed>>

\* A step that moves no entry cannot lose one.
LEMMA SameFilesConserve == FilesConserved /\ SameFiles => FilesConserved'
  <1> SUFFICES ASSUME FilesConserved, SameFiles PROVE FilesConserved'
    OBVIOUS
  <1>1. Queued' = Queued /\ Held' = Held
    BY DEF SameFiles, Queued, Held
  <1>2. QED
    BY <1>1 DEF FilesConserved, SameFiles

\* The steps that move no entry.
LEMMA OtherStepsSame ==
    ASSUME [Next]_vars, ~ \E w \in Workers : GetFront(w) \/ GetBack(w) \/ CountFile(w)
    PROVE  SameFiles
  <1> USE DEF SameFiles
  <1>1. ASSUME NEW w \in Workers, WorkerStep(w) \/ Cancelled(w) PROVE SameFiles
    BY <1>1 DEF WorkerStep, CheckQuit, QueueEmpty, BeginFile, EndFile, WorkerDone,
                SignalAllDone, MarkCleanedUp, SkipCleanup, Cancelled
  <1>2. CASE RunStep
    BY <1>2 DEF RunStep, CreateWorkers, StartWorker, StartedAll, TestWaitLoop,
                TestDrain, WaitReturnsObject, WaitTimesOut, GraceTimesOut, CloseEvent,
                ForgetEvent, StopWorker, WorkerStopped, StopTimesOut, WorkerInactive,
                DestroyWorker, JoinWorker, ReturnProcessed
  <1>3. CASE RequestQuit \/ UNCHANGED vars
    BY <1>3 DEF RequestQuit, vars
  <1>4. QED
    BY <1>1, <1>2, <1>3 DEF Next, Returned

\* An entry is moved from the queue into the hands of a worker that has none ...
TakesEntry(f) ==
    /\ f \in Queued /\ Queued' = Queued \ {f} /\ Held' = Held \cup {f}
    /\ processed' = processed
    /\ \A j, k \in 1 .. Len(itemList') : itemList'[j] = itemList'[k] => j = k
    /\ \A v, w \in Workers : held'[v] = held'[w] /\ held'[v] # NoFile => v = w

\* ... and from there to the finished ones.
FinishesEntry(f) ==
    /\ f \in Held /\ Held' = Held \ {f} /\ processed' = processed \cup {f}
    /\ itemList' = itemList
    /\ \A v, w \in Workers : held'[v] = held'[w] /\ held'[v] # NoFile => v = w

\* Neither move loses an entry or duplicates it.
LEMMA MovesConserve ==
    ASSUME FilesConserved, NEW f \in Files, TakesEntry(f) \/ FinishesEntry(f)
    PROVE  FilesConserved'
  <1>1. itemList' = itemList => Queued' = Queued
    BY DEF Queued
  <1>2. QED
    BY <1>1 DEF FilesConserved, TakesEntry, FinishesEntry

\* getFront() moves the first entry from the queue to one worker.
LEMMA GetFrontTakes ==
    ASSUME ControlInv, FilesConserved, NEW w \in Workers, GetFront(w)
    PROVE  \E f \in Files : TakesEntry(f)
  <1> DEFINE f == Head(itemList)
  <1>1. /\ f \in Files /\ f = itemList[1] /\ itemList' \in Seq(Files)
        /\ Len(itemList) \in Nat /\ Len(itemList) > 0
        /\ Len(itemList') = Len(itemList) - 1
        /\ \A k \in 1 .. Len(itemList) - 1 : itemList'[k] = itemList[k + 1]
    BY TailFacts DEF GetFront, ControlInv, TypeOK
  <1>2. \A j, k \in 1 .. Len(itemList) : itemList[j] = itemList[k] => j = k
    BY DEF FilesConserved
  <1>3. f \in Queued /\ Queued' = Queued \ {f}
    <2>1. f \in Queued
      BY <1>1 DEF Queued
    <2>2. ASSUME NEW g \in Queued' PROVE g \in Queued \ {f}
      <3>1. PICK k \in 1 .. Len(itemList) - 1 : g = itemList[k + 1]
        BY <1>1, <2>2 DEF Queued
      <3>2. k + 1 \in 1 .. Len(itemList) /\ 1 \in 1 .. Len(itemList) /\ k + 1 # 1
        BY <1>1
      <3>3. QED
        BY <1>1, <1>2, <3>1, <3>2 DEF Queued
    <2>3. ASSUME NEW g \in Queued \ {f} PROVE g \in Queued'
      <3>1. PICK k \in 1 .. Len(itemList) : g = itemList[k]
        BY <2>3 DEF Queued
      <3>2. k # 1
        BY <1>1, <2>3, <3>1
      <3>3. k - 1 \in 1 .. Len(itemList) - 1 /\ (k - 1) + 1 = k
        BY <1>1, <3>2
      <3>4. k - 1 \in 1 .. Len(itemList') /\ itemList'[k - 1] = g
        BY <1>1, <3>1, <3>3
      <3>5. QED
        BY <3>4 DEF Queued
    <2>4. QED
      BY <2>1, <2>2, <2>3
  <1>4. \A j, k \in 1 .. Len(itemList') : itemList'[j] = itemList'[k] => j = k
    <2>1. SUFFICES ASSUME NEW j \in 1 .. Len(itemList'), NEW k \in 1 .. Len(itemList'),
                          itemList'[j] = itemList'[k]
                   PROVE  j = k
      OBVIOUS
    <2>2. j + 1 \in 1 .. Len(itemList) /\ k + 1 \in 1 .. Len(itemList)
      BY <1>1
    <2>3. itemList[j + 1] = itemList[k + 1]
      BY <1>1, <2>1
    <2>4. j + 1 = k + 1
      BY <1>2, <2>2, <2>3
    <2>5. QED
      BY <1>1, <2>4
  <1>5. /\ held[w] = NoFile /\ held' = [held EXCEPT ![w] = f] /\ f # NoFile
        /\ held \in [Workers -> Files \cup {NoFile}]
    <2>1. held[w] = NoFile
      BY DEF GetFront, Goto, ControlInv, HeldWhileBusy, Busy
    <2>2. held' = [held EXCEPT ![w] = f] /\ held \in [Workers -> Files \cup {NoFile}]
      BY DEF GetFront, ControlInv, TypeOK
    <2>3. f # NoFile
      BY <1>1, PoolAssumption
    <2>4. QED
      BY <2>1, <2>2, <2>3
  <1>6. QED
    <2>1. f \notin Held
      BY <1>3 DEF FilesConserved
    <2>2. Held' = Held \cup {f}
      BY <1>5 DEF Held
    <2>3. \A u, v \in Workers : held'[u] = held'[v] /\ held'[u] # NoFile => u = v
      BY <1>5, <2>1 DEF FilesConserved, Held
    <2>4. processed' = processed
      BY DEF GetFront
    <2>5. QED
      BY <1>1, <1>3, <1>4, <2>2, <2>3, <2>4 DEF TakesEntry

\* getBack() moves the last entry from the queue to one worker.
LEMMA GetBackTakes ==
    ASSUME ControlInv, FilesConserved, NEW w \in Workers, GetBack(w)
    PROVE  \E f \in Files : TakesEntry(f)
  <1> DEFINE n == Len(itemList)
             f == itemList[n]
  <1>1. /\ f \in Files /\ itemList' \in Seq(Files)
        /\ n \in Nat /\ n > 0 /\ Len(itemList') = n - 1
        /\ \A k \in 1 .. n - 1 : itemList'[k] = itemList[k]
    BY FrontFacts DEF GetBack, ControlInv, TypeOK
  <1>2. \A j, k \in 1 .. n : itemList[j] = itemList[k] => j = k
    BY DEF FilesConserved
  <1>3. 1 .. n = (1 .. n - 1) \cup {n} /\ n \notin 1 .. n - 1
    BY <1>1
  <1> HIDE DEF n
  <1>4. f \in Queued /\ Queued' = Queued \ {f}
    <2>1. Queued = {itemList[k] : k \in 1 .. n}
      BY DEF Queued, n
    <2>2. Queued' = {itemList[k] : k \in 1 .. n - 1}
      BY <1>1 DEF Queued
    <2>3. QED
      BY <1>2, <1>3, <2>1, <2>2
  <1>5. \A j, k \in 1 .. Len(itemList') : itemList'[j] = itemList'[k] => j = k
    BY <1>1, <1>2, <1>3
  <1>6. /\ held[w] = NoFile /\ held' = [held EXCEPT ![w] = f] /\ f # NoFile
        /\ held \in [Workers -> Files \cup {NoFile}]
    <2>1. held[w] = NoFile
      BY DEF GetBack, Goto, ControlInv, HeldWhileBusy, Busy
    <2>2. held' = [held EXCEPT ![w] = f] /\ held \in [Workers -> Files \cup {NoFile}]
      BY DEF n, GetBack, ControlInv, TypeOK
    <2>3. f # NoFile
      BY <1>1, PoolAssumption
    <2>4. QED
      BY <2>1, <2>2, <2>3
  <1>7. QED
    <2>1. f \notin Held
      BY <1>4 DEF FilesConserved
    <2>2. Held' = Held \cup {f}
      BY <1>6 DEF Held
    <2>3. \A u, v \in Workers : held'[u] = held'[v] /\ held'[u] # NoFile => u = v
      BY <1>6, <2>1 DEF FilesConserved, Held
    <2>4. processed' = processed
      BY DEF GetBack
    <2>5. QED
      BY <1>1, <1>4, <1>5, <2>2, <2>3, <2>4 DEF TakesEntry

\* The end of Run()'s loop body moves the worker's entry to the finished ones.
LEMMA CountFileFinishes ==
    ASSUME ControlInv, FilesConserved, NEW w \in Workers, CountFile(w)
    PROVE  \E f \in Files : FinishesEntry(f)
  <1> DEFINE f == held[w]
  <1>1. /\ f # NoFile /\ held' = [held EXCEPT ![w] = NoFile]
        /\ processed' = processed \cup {f} /\ itemList' = itemList
        /\ held \in [Workers -> Files \cup {NoFile}]
    BY DEF CountFile, Goto, ControlInv, TypeOK, HeldWhileBusy, Busy
  <1>2. f \in Held /\ Held' = Held \ {f}
    BY <1>1 DEF Held, FilesConserved
  <1>3. \A u, v \in Workers : held'[u] = held'[v] /\ held'[u] # NoFile => u = v
    BY <1>1 DEF FilesConserved
  <1>4. f \in Files
    BY <1>1 DEF ControlInv, TypeOK
  <1>5. QED
    BY <1>1, <1>2, <1>3, <1>4 DEF FinishesEntry

\* Every step conserves the entries.
LEMMA FilesStep ==
    ASSUME ControlInv, FilesConserved, [Next]_vars
    PROVE  FilesConserved'
  <1>1. ASSUME NEW w \in Workers, GetFront(w) \/ GetBack(w) \/ CountFile(w)
        PROVE  \E f \in Files : TakesEntry(f) \/ FinishesEntry(f)
    BY <1>1, GetFrontTakes, GetBackTakes, CountFileFinishes
  <1>2. QED
    BY <1>1, MovesConserve, OtherStepsSame, SameFilesConserve

\* All entries are in the queue at first.
LEMMA FilesInit == Init => FilesConserved
  <1> SUFFICES ASSUME Init PROVE FilesConserved
    OBVIOUS
  <1>1. Len(itemList) = NFiles /\ Queued = Files /\ Held = {} /\ processed = {}
    BY PoolAssumption DEF Init, Queued, Held
  <1>2. QED
    BY <1>1, PoolAssumption DEF Init, FilesConserved

\* Whatever the interleaving, the number of workers, and how many of them work
\* backwards: no entry is lost, shared between workers or processed twice.
THEOREM ConservesFiles == Spec => []FilesConserved
  BY ControlInit, ControlNext, FilesInit, FilesStep, PTL DEF Spec
-----------------------------------------------------------------------------
(* What the workers and run() can rely on, each part kept by every step.    *)

\* run() is deleting its workers ...
Deleting == {"reap", "stopping", "delete", "join", "returned"}

\* ... or about to.
Winding == {"drain", "grace", "close", "clear"} \cup Deleting

\* Every worker has left Run() for good.
AllLeft == \A w \in Workers : wpc[w] \in Departed

\* There is an event only between its creation and its deletion.
EventOpen == mpc \in {"enter"} \cup Deleting => allDoneEvent = "null"

\* Until run() deletes threads, only a worker cleans up after itself.
OwnCleanup == mpc \notin Deleting => \A w \in Workers : cleanedUp[w] => wpc[w] = "gone"

\* A worker leaves Run() for one of two reasons.
LeftForReason ==
    \A w \in Workers : wpc[w] \in {"ended"} \cup Departed => quitRequestedFlag \/ itemList = <<>>

\* The worker that is to set the event is the last, and holds threadLock.
LastSignals ==
    \A w \in Workers : wpc[w] = "signalling" =>
        /\ threadLock = w
        /\ \A v \in Workers \ {w} : wpc[v] \in {"departing", "gone"}
        /\ quitRequestedFlag \/ processed = Files

\* run() goes on to delete its workers when they have left or when it is told to.
WaitOver == mpc \in Winding \/ waitResult = "object" => Interrupted \/ AllLeft

\* What has been deleted is at rest, or late.
Reaped ==
    /\ mpc \in Deleting => i <= NJobs /\ \A w \in Workers : w < i /\ w \notin late => wpc[w] \in Terminal
    /\ mpc = "returned" => i = NJobs
    /\ mpc \notin Deleting => late = {}

\* A late worker takes no more files.
LateEnd ==
    \A w \in late : /\ quitRequestedFlag
                    /\ wpc[w] \in {"compressing", "compressed", "idle", "ended", "cancelled"} \cup Departed

\* CreateEvent and CloseHandle are in run() alone, and it deletes no worker
\* between them.
LEMMA EventOpenStep ==
    ASSUME TypeOK, EventOpen, [Next]_vars
    PROVE  EventOpen'
  <1> USE DEF TypeOK, EventOpen, Deleting
  <1>1. ASSUME NEW w \in Workers, WorkerStep(w) \/ Cancelled(w) PROVE EventOpen'
    BY <1>1 DEF WorkerStep, CheckQuit, GetFront, GetBack, QueueEmpty, BeginFile, EndFile, CountFile,
                WorkerDone, SignalAllDone, MarkCleanedUp, SkipCleanup, Cancelled, Goto
  <1>2. CASE RunStep
    BY <1>2 DEF RunStep, CreateWorkers, StartWorker, StartedAll, TestWaitLoop,
                TestDrain, WaitReturnsObject, WaitTimesOut, GraceTimesOut, CloseEvent,
                ForgetEvent, StopWorker, WorkerStopped, StopTimesOut, WorkerInactive,
                DestroyWorker, JoinWorker, ReturnProcessed, RunGoto
  <1>3. CASE RequestQuit \/ UNCHANGED vars
    BY <1>3 DEF RequestQuit, vars
  <1>4. QED
    BY <1>1, <1>2, <1>3 DEF Next, Returned

\* cleanedUp is set by the worker as its last act, or by the destructor.
LEMMA OwnCleanupStep ==
    ASSUME ControlInv, OwnCleanup, [Next]_vars
    PROVE  OwnCleanup'
  <1> USE DEF ControlInv, TypeOK, RunControl, OwnCleanup, Deleting
  <1>1. ASSUME NEW w \in Workers, WorkerStep(w) \/ Cancelled(w) PROVE OwnCleanup'
    BY <1>1, PoolAssumption DEF WorkerStep, CheckQuit, GetFront, GetBack, QueueEmpty, BeginFile, EndFile, CountFile,
                WorkerDone, SignalAllDone, MarkCleanedUp, SkipCleanup, Cancelled, Goto
  <1>2. CASE RunStep
    BY <1>2, PoolAssumption DEF RunStep, CreateWorkers, StartWorker, StartedAll, TestWaitLoop,
                TestDrain, WaitReturnsObject, WaitTimesOut, GraceTimesOut, CloseEvent,
                ForgetEvent, StopWorker, WorkerStopped, StopTimesOut, WorkerInactive,
                DestroyWorker, JoinWorker, ReturnProcessed, RunGoto
  <1>3. CASE RequestQuit \/ UNCHANGED vars
    BY <1>3 DEF RequestQuit, vars
  <1>4. QED
    BY <1>1, <1>2, <1>3 DEF Next, Returned

\* The flag is never taken back and the queue is never refilled.
LEMMA LeftForReasonStep ==
    ASSUME ControlInv, LeftForReason, [Next]_vars
    PROVE  LeftForReason'
  <1> USE DEF ControlInv, TypeOK, RunControl, LeftForReason, Departed
  <1>1. ASSUME NEW w \in Workers, WorkerStep(w) \/ Cancelled(w) PROVE LeftForReason'
    BY <1>1, PoolAssumption DEF WorkerStep, CheckQuit, GetFront, GetBack, QueueEmpty, BeginFile, EndFile, CountFile,
                WorkerDone, SignalAllDone, MarkCleanedUp, SkipCleanup, Cancelled, Goto
  <1>2. CASE RunStep
    BY <1>2, PoolAssumption DEF RunStep, CreateWorkers, StartWorker, StartedAll, TestWaitLoop,
                TestDrain, WaitReturnsObject, WaitTimesOut, GraceTimesOut, CloseEvent,
                ForgetEvent, StopWorker, WorkerStopped, StopTimesOut, WorkerInactive,
                DestroyWorker, JoinWorker, ReturnProcessed, RunGoto
  <1>3. CASE RequestQuit \/ UNCHANGED vars
    BY <1>3 DEF RequestQuit, vars
  <1>4. QED
    BY <1>1, <1>2, <1>3 DEF Next, Returned

\* run() joins the worker it has deleted before it goes on to the next, unless
\* that one was late.
LEMMA ReapedStep ==
    ASSUME ControlInv, Reaped, [Next]_vars
    PROVE  Reaped'
  <1> USE DEF ControlInv, TypeOK, RunControl, Reaped, Deleting, Terminal, Running
  <1>1. ASSUME NEW w \in Workers, WorkerStep(w) \/ Cancelled(w) PROVE Reaped'
    BY <1>1, PoolAssumption DEF WorkerStep, CheckQuit, GetFront, GetBack, QueueEmpty, BeginFile, EndFile, CountFile,
                WorkerDone, SignalAllDone, MarkCleanedUp, SkipCleanup, Cancelled, Goto
  <1>2. CASE RunStep
    <2>1. CASE CreateWorkers \/ StartWorker
      BY <2>1 DEF CreateWorkers, StartWorker, RunGoto
    <2>2. CASE StartedAll \/ TestWaitLoop \/ TestDrain \/ WaitReturnsObject
               \/ WaitTimesOut \/ GraceTimesOut \/ CloseEvent
      BY <2>2 DEF StartedAll, TestWaitLoop, TestDrain, WaitReturnsObject,
                  WaitTimesOut, GraceTimesOut, CloseEvent, RunGoto
    <2>3. CASE ForgetEvent
      BY <2>3, PoolAssumption DEF ForgetEvent, RunGoto
    <2>4. CASE StopWorker \/ WorkerInactive \/ DestroyWorker \/ WorkerStopped
      BY <2>4 DEF StopWorker, WorkerStopped, WorkerInactive, DestroyWorker, RunGoto
    <2>5. CASE StopTimesOut
      BY <2>5 DEF StopTimesOut, RunGoto
    <2>6. CASE JoinWorker
      <3>1. i + 1 <= NJobs /\ \A w \in Workers : w < i + 1 => w < i \/ w = i
        BY <2>6, PoolAssumption DEF JoinWorker
      <3>2. QED
        BY <2>6, <3>1 DEF JoinWorker
    <2>7. CASE ReturnProcessed
      BY <2>7 DEF ReturnProcessed, RunGoto
    <2>8. QED
      BY <1>2, <2>1, <2>2, <2>3, <2>4, <2>5, <2>6, <2>7 DEF RunStep
  <1>3. CASE RequestQuit \/ UNCHANGED vars
    BY <1>3 DEF RequestQuit, vars
  <1>4. QED
    BY <1>1, <1>2, <1>3 DEF Next, Returned

\* To be late a worker has to be in compress() when the quit flag is set.
LEMMA LateEndStep ==
    ASSUME ControlInv, Reaped, LateEnd, [Next]_vars
    PROVE  LateEnd'
  <1> USE DEF ControlInv, TypeOK, RunControl, LateEnd, Reaped, Departed, Deleting
  <1>1. ASSUME NEW w \in Workers, WorkerStep(w) \/ Cancelled(w) PROVE LateEnd'
    BY <1>1, PoolAssumption DEF WorkerStep, CheckQuit, GetFront, GetBack, QueueEmpty, BeginFile, EndFile, CountFile,
                WorkerDone, SignalAllDone, MarkCleanedUp, SkipCleanup, Cancelled, Goto
  <1>2. CASE RunStep
    BY <1>2, PoolAssumption DEF RunStep, CreateWorkers, StartWorker, StartedAll, TestWaitLoop,
                TestDrain, WaitReturnsObject, WaitTimesOut, GraceTimesOut, CloseEvent,
                ForgetEvent, StopWorker, WorkerStopped, StopTimesOut, WorkerInactive,
                DestroyWorker, JoinWorker, ReturnProcessed, RunGoto
  <1>3. CASE RequestQuit \/ UNCHANGED vars
    BY <1>3 DEF RequestQuit, vars
  <1>4. QED
    BY <1>1, <1>2, <1>3 DEF Next, Returned

HIDE DEF Workers, Files, NoFile, Nobody, counters, workerVars, runVars
-----------------------------------------------------------------------------
(* The counters.                                                           *)

\* Where a worker has a file between ++nProcessing and --nProcessing.
InCompress == {"compressing", "cancelled"}

Processing == Cardinality(At(Workers, wpc, InCompress))
Left == Cardinality(At(Workers, wpc, Departed))

\* The pool has NJobs workers, and any number of them is a natural number.
LEMMA PoolFinite ==
    /\ IsFiniteSet(Workers) /\ Cardinality(Workers) = NJobs
    /\ \A A : Cardinality(At(Workers, wpc, A)) \in Nat
  <1>1. IsFiniteSet(Workers) /\ Cardinality(Workers) = NJobs
    <2>1. 0 \in Int /\ NJobs - 1 \in Int /\ 0 <= NJobs - 1 /\ NJobs - 1 - 0 + 1 = NJobs
      BY PoolAssumption
    <2>2. QED
      BY <2>1, FS_Interval DEF Workers
  <1>2. QED
    BY <1>1, AtFinite

\* What the move of one worker does to both numbers.
LEMMA MoveCounts ==
    ASSUME TypeOK, NEW w \in Workers, NEW from, NEW to, Goto(w, from, to)
    PROVE  /\ Processing' = Processing + One(to \in InCompress) - One(from \in InCompress)
           /\ Left' = Left + One(to \in Departed) - One(from \in Departed)
  <1>1. wpc[w] = from /\ wpc'[w] = to /\ \A v \in Workers \ {w} : wpc'[v] = wpc[v]
    BY DEF TypeOK, Goto
  <1>2. IsFiniteSet(Workers)
    BY PoolFinite
  <1>3. QED
    BY <1>1, <1>2, AtUpdate DEF Processing, Left

\* The counters, in terms of At.
Counted ==
    /\ nProcessing = Processing
    /\ nProcessed = Cardinality(processed)
    /\ mpc \notin Deleting => nJobs = NJobs - Left

\* It is the property the runs check.
LEMMA CountedIsExact == CountersExact <=> Counted
  BY DEF CountersExact, Counted, Processing, Left, At, InCompress, Deleting

\* A worker's step changes the counters as it changes the workers' places; the
\* file it counts has not been counted before.
LEMMA WorkerCounts ==
    ASSUME ControlInv, FilesConserved, OwnCleanup, Counted,
           NEW w \in Workers, WorkerStep(w) \/ Cancelled(w)
    PROVE  Counted'
  <1>1. /\ TypeOK /\ Processing \in Nat /\ Left \in Nat /\ NJobs \in Nat
        /\ nJobs \in Int /\ nProcessing \in Int /\ nProcessed \in Nat
    BY PoolFinite, PoolAssumption DEF Processing, Left, ControlInv, TypeOK
  <1> USE DEF One, InCompress, Departed, counters, workerVars, runVars
  <1>2. CASE CheckQuit(w)
    <2>1. Goto(w, "idle", IF quitRequestedFlag THEN "ended" ELSE "fetch")
      BY <1>2 DEF CheckQuit
    <2>2. Processing' = Processing /\ Left' = Left
      BY <1>1, <2>1, MoveCounts
    <2>3. QED
      BY <1>1, <1>2, <2>2 DEF CheckQuit, Counted
  <1>3. CASE GetFront(w)
    <2>1. Goto(w, "fetch", "fetched")
      BY <1>3 DEF GetFront
    <2>2. Processing' = Processing /\ Left' = Left
      BY <1>1, <2>1, MoveCounts
    <2>3. QED
      BY <1>1, <1>3, <2>2 DEF GetFront, Counted
  <1>4. CASE GetBack(w)
    <2>1. Goto(w, "fetch", "fetched")
      BY <1>4 DEF GetBack
    <2>2. Processing' = Processing /\ Left' = Left
      BY <1>1, <2>1, MoveCounts
    <2>3. QED
      BY <1>1, <1>4, <2>2 DEF GetBack, Counted
  <1>5. CASE QueueEmpty(w)
    <2>1. Goto(w, "fetch", "ended")
      BY <1>5 DEF QueueEmpty
    <2>2. Processing' = Processing /\ Left' = Left
      BY <1>1, <2>1, MoveCounts
    <2>3. QED
      BY <1>1, <1>5, <2>2 DEF QueueEmpty, Counted
  <1>6. CASE BeginFile(w)
    <2>1. Goto(w, "fetched", "compressing")
      BY <1>6 DEF BeginFile
    <2>2. Processing' = Processing + 1 /\ Left' = Left
      BY <1>1, <2>1, MoveCounts
    <2>3. QED
      BY <1>1, <1>6, <2>2 DEF BeginFile, Counted
  <1>7. CASE EndFile(w)
    <2>1. Goto(w, "compressing", "compressed")
      BY <1>7 DEF EndFile
    <2>2. Processing' = Processing - 1 /\ Left' = Left
      BY <1>1, <2>1, MoveCounts
    <2>3. QED
      BY <1>1, <1>7, <2>2 DEF EndFile, Counted
  <1>8. CASE CountFile(w)
    <2>1. Goto(w, "compressed", "idle")
      BY <1>8 DEF CountFile
    <2>2. Processing' = Processing /\ Left' = Left
      BY <1>1, <2>1, MoveCounts
    <2>3. held[w] \in Held
      BY <1>1, <2>1 DEF Goto, ControlInv, HeldWhileBusy, Busy, Held
    <2>4. held[w] \notin processed
      BY <2>3 DEF FilesConserved
    <2>5. IsFiniteSet(processed)
      <3>1. IsFiniteSet(Files) /\ processed \in SUBSET Files
        BY <1>1, FS_Interval, PoolAssumption DEF Files, TypeOK
      <3>2. QED
        BY <3>1, FS_Subset
    <2>6. Cardinality(processed \cup {held[w]}) = Cardinality(processed) + 1
      BY <2>4, <2>5, FS_AddElement
    <2>7. QED
      BY <1>1, <1>8, <2>2, <2>6 DEF CountFile, Counted
  <1>9. CASE WorkerDone(w)
    <2>1. Goto(w, "ended", IF nJobs - 1 <= 0 /\ allDoneEvent # "null" THEN "signalling" ELSE "departing")
      BY <1>9 DEF WorkerDone
    <2>2. Processing' = Processing /\ Left' = Left + 1
      BY <1>1, <2>1, MoveCounts
    <2>3. QED
      BY <1>1, <1>9, <2>2 DEF WorkerDone, Counted
  <1>10. CASE SignalAllDone(w)
    <2>1. Goto(w, "signalling", "departing")
      BY <1>10 DEF SignalAllDone
    <2>2. Processing' = Processing /\ Left' = Left
      BY <1>1, <2>1, MoveCounts
    <2>3. QED
      BY <1>1, <1>10, <2>2 DEF SignalAllDone, Counted
  <1>11. CASE MarkCleanedUp(w)
    <2>1. Goto(w, "departing", "gone")
      BY <1>11 DEF MarkCleanedUp
    <2>2. Processing' = Processing /\ Left' = Left
      BY <1>1, <2>1, MoveCounts
    <2>3. QED
      BY <1>1, <1>11, <2>2 DEF MarkCleanedUp, Counted
  <1>12. CASE SkipCleanup(w)
    <2>1. Goto(w, "ended", "gone") /\ mpc \in Deleting
      BY <1>12 DEF SkipCleanup, Goto, OwnCleanup
    <2>2. Processing' = Processing
      BY <1>1, <2>1, MoveCounts
    <2>3. QED
      BY <1>12, <2>1, <2>2 DEF SkipCleanup, Counted
  <1>13. CASE Cancelled(w)
    <2>1. Goto(w, "compressing", "cancelled")
      BY <1>13 DEF Cancelled
    <2>2. Processing' = Processing /\ Left' = Left
      BY <1>1, <2>1, MoveCounts
    <2>3. QED
      BY <1>1, <1>13, <2>2 DEF Cancelled, Counted
  <1>14. QED
    BY <1>2, <1>3, <1>4, <1>5, <1>6, <1>7, <1>8, <1>9, <1>10, <1>11, <1>12, <1>13 DEF WorkerStep

\* A step of run(): it creates and starts workers, which have not left, and
\* counts none out before it deletes threads.
LEMMA RunCounts ==
    ASSUME ControlInv, Counted, RunStep
    PROVE  Counted'
  <1>1. TypeOK /\ Processing \in Nat /\ Left \in Nat /\ NJobs \in Nat /\ nJobs \in Int
    BY PoolFinite, PoolAssumption DEF Processing, Left, ControlInv, TypeOK
  <1> USE DEF counters, workerVars, runVars, RunGoto, Deleting
  <1>2. CASE CreateWorkers
    <2>1. wpc = [w \in Workers |-> "none"] /\ wpc' = [w \in Workers |-> "created"]
      BY <1>1, <1>2 DEF CreateWorkers, ControlInv, RunControl, TypeOK
    <2>2. At(Workers, wpc, InCompress) = At(Workers, wpc', InCompress)
          /\ At(Workers, wpc, Departed) = At(Workers, wpc', Departed)
      BY <2>1 DEF At, InCompress, Departed
    <2>3. Processing' = Processing /\ Left' = Left
      BY <2>2 DEF Processing, Left
    <2>4. QED
      BY <1>2, <2>3 DEF CreateWorkers, Counted
  <1>3. CASE StartWorker
    <2>1. i \in Workers /\ Goto(i, "created", "idle")
      BY <1>1, <1>3, PoolAssumption DEF StartWorker, Goto, ControlInv, RunControl, TypeOK, Workers
    <2>2. Processing' = Processing /\ Left' = Left
      BY <1>1, <2>1, MoveCounts DEF One, InCompress, Departed
    <2>3. QED
      BY <1>3, <2>2 DEF StartWorker, Counted
  <1>4. ASSUME wpc' = wpc PROVE Processing' = Processing /\ Left' = Left
    BY <1>4 DEF Processing, Left
  <1>5. CASE DestroyWorker
    BY <1>4, <1>5 DEF DestroyWorker, Counted
  <1>6. CASE StartedAll \/ TestWaitLoop \/ TestDrain \/ WaitReturnsObject \/ WaitTimesOut
             \/ GraceTimesOut \/ CloseEvent \/ ForgetEvent
    BY <1>4, <1>6 DEF StartedAll, TestWaitLoop, TestDrain, WaitReturnsObject, WaitTimesOut,
                      GraceTimesOut, CloseEvent, ForgetEvent, Counted
  <1>7. CASE StopWorker \/ WorkerStopped \/ StopTimesOut \/ WorkerInactive \/ JoinWorker
             \/ ReturnProcessed
    BY <1>4, <1>7 DEF StopWorker, WorkerStopped, StopTimesOut, WorkerInactive, JoinWorker,
                      ReturnProcessed, Counted
  <1>8. QED
    BY <1>2, <1>3, <1>5, <1>6, <1>7 DEF RunStep

\* No worker has started and nothing has been counted.
LEMMA CountedInit == Init => Counted
  <1> SUFFICES ASSUME Init PROVE Counted
    OBVIOUS
  <1>1. At(Workers, wpc, InCompress) = {} /\ At(Workers, wpc, Departed) = {}
    BY DEF Init, At, InCompress, Departed
  <1>2. Processing = 0 /\ Left = 0 /\ Cardinality({}) = 0
    BY <1>1, FS_EmptySet DEF Processing, Left
  <1>3. QED
    BY <1>2, PoolAssumption DEF Init, Counted

\* Every step keeps the counters exact.
LEMMA CountedStep ==
    ASSUME ControlInv, FilesConserved, OwnCleanup, Counted, [Next]_vars
    PROVE  Counted'
  <1>1. CASE RequestQuit \/ UNCHANGED vars
    BY <1>1 DEF RequestQuit, vars, counters, workerVars, runVars, Counted, Processing, Left
  <1>2. QED
    BY <1>1, WorkerCounts, RunCounts DEF Next, Returned
-----------------------------------------------------------------------------
(* The event, and the end of run()'s wait.                                 *)

\* When nJobs has come down to 0, all workers have left.
LEMMA CountedOut ==
    ASSUME ControlInv, Counted, mpc \notin Deleting, nJobs <= 0
    PROVE  AllLeft
  <1>1. nJobs = NJobs - Left /\ Left \in Nat /\ nJobs \in Int
    BY PoolFinite DEF Counted, Left, ControlInv, TypeOK
  <1>2. Left >= NJobs
    BY <1>1, PoolAssumption
  <1>3. IsFiniteSet(Workers) /\ Cardinality(Workers) = NJobs
    BY PoolFinite
  <1>4. QED
    BY <1>2, <1>3, AtAll DEF Left, AllLeft

\* The worker that takes nJobs down to 0 is the last to leave.
LEMMA LastToLeave ==
    ASSUME ControlInv, Counted, mpc \notin Deleting,
           NEW w \in Workers, wpc[w] = "ended", nJobs - 1 <= 0
    PROVE  \A v \in Workers \ {w} : wpc[v] \in Departed
  <1> DEFINE after == [wpc EXCEPT ![w] = "departing"]
  <1>1. nJobs = NJobs - Left /\ Left \in Nat /\ nJobs \in Int
    BY PoolFinite DEF Counted, Left, ControlInv, TypeOK
  <1>2. IsFiniteSet(Workers) /\ Cardinality(Workers) = NJobs
    BY PoolFinite
  <1>3. after[w] \in Departed /\ wpc[w] \notin Departed
        /\ \A v \in Workers \ {w} : after[v] = wpc[v]
    BY DEF ControlInv, TypeOK, Departed
  <1> HIDE DEF after
  <1>4. Cardinality(At(Workers, after, Departed)) = Left + 1
    <2>1. One(after[w] \in Departed) = 1 /\ One(wpc[w] \in Departed) = 0
      BY <1>3 DEF One
    <2>2. Cardinality(At(Workers, after, Departed))
            = Left + One(after[w] \in Departed) - One(wpc[w] \in Departed)
      BY <1>2, <1>3, AtUpdate DEF Left
    <2>3. QED
      BY <1>1, <2>1, <2>2
  <1>5. Cardinality(At(Workers, after, Departed)) >= Cardinality(Workers)
    BY <1>1, <1>2, <1>4, PoolAssumption
  <1>6. \A v \in Workers : after[v] \in Departed
    BY <1>2, <1>5, AtAll
  <1>7. QED
    BY <1>3, <1>6

\* An empty queue and no worker with a file: everything has been processed.
LEMMA NothingLeft ==
    ASSUME ControlInv, FilesConserved, itemList = <<>>,
           \A w \in Workers : wpc[w] \notin Busy
    PROVE  processed = Files
  <1>1. Queued = {}
    BY DEF Queued
  <1>2. Held = {}
    BY DEF Held, ControlInv, HeldWhileBusy
  <1>3. QED
    BY <1>1, <1>2 DEF FilesConserved

\* The event and the worker that is to set it.
SignalInv == LastSignals /\ EventTruthful

\* workerDone() sends to SetEvent only the worker that has counted itself out
\* last, and then nobody has a file.
LEMMA WorkerDoneSignals ==
    ASSUME ControlInv, FilesConserved, Counted, EventOpen, LeftForReason, SignalInv,
           NEW w \in Workers, WorkerDone(w)
    PROVE  SignalInv'
  <1> DEFINE last == nJobs - 1 <= 0 /\ allDoneEvent # "null"
  <1>1. /\ wpc[w] = "ended" /\ threadLock = Nobody
        /\ wpc' = [wpc EXCEPT ![w] = IF last THEN "signalling" ELSE "departing"]
        /\ threadLock' = IF last THEN w ELSE Nobody
        /\ UNCHANGED <<quitRequestedFlag, allDoneEvent, processed>>
        /\ wpc \in [Workers -> Running \cup Departed \cup {"none", "created", "ended", "cancelled"}]
    BY DEF WorkerDone, Goto, ControlInv, TypeOK
  <1>2. \A v \in Workers : wpc[v] # "signalling"
    BY <1>1, PoolAssumption DEF SignalInv, LastSignals, Workers, Nobody
  <1>3. EventTruthful'
    BY <1>1 DEF SignalInv, EventTruthful
  <1>4. ASSUME last PROVE LastSignals'
    <2>1. mpc \notin Deleting
      BY <1>4 DEF EventOpen
    <2>2. \A v \in Workers \ {w} : wpc[v] \in {"departing", "gone"}
      BY <1>1, <1>2, <1>4, <2>1, LastToLeave DEF Departed
    <2>3. quitRequestedFlag \/ processed = Files
      <3>1. \A v \in Workers : wpc[v] \notin Busy
        BY <1>1, <2>2 DEF Busy
      <3>2. QED
        BY <1>1, <3>1, NothingLeft DEF LeftForReason
    <2>4. QED
      BY <1>1, <1>4, <2>2, <2>3 DEF LastSignals
  <1>5. ASSUME ~last PROVE LastSignals'
    BY <1>1, <1>2, <1>5 DEF LastSignals
  <1>6. QED
    BY <1>3, <1>4, <1>5 DEF SignalInv

\* Every step keeps the event truthful: the last worker sets it, and the others
\* can only go on to exit.
LEMMA SignalStep ==
    ASSUME ControlInv, FilesConserved, Counted, EventOpen, LeftForReason, SignalInv, [Next]_vars
    PROVE  SignalInv'
  <1> USE DEF SignalInv, LastSignals, EventTruthful, ControlInv, TypeOK, RunControl,
              counters, workerVars, runVars
  <1>1. ASSUME NEW w \in Workers, WorkerStep(w) \/ Cancelled(w) PROVE SignalInv'
    <2>1. CASE WorkerDone(w)
      BY <2>1, WorkerDoneSignals
    <2>2. CASE SignalAllDone(w)
      BY <2>2, PoolAssumption DEF SignalAllDone, Goto
    <2>3. CASE CheckQuit(w) \/ GetFront(w) \/ GetBack(w) \/ QueueEmpty(w) \/ BeginFile(w) \/ EndFile(w)
      BY <2>3 DEF CheckQuit, GetFront, GetBack, QueueEmpty, BeginFile, EndFile, Goto
    <2>4. CASE CountFile(w)
      BY <2>4 DEF CountFile, Goto
    <2>5. CASE MarkCleanedUp(w) \/ SkipCleanup(w) \/ Cancelled(w)
      BY <2>5 DEF MarkCleanedUp, SkipCleanup, Cancelled, Goto
    <2>6. QED
      BY <1>1, <2>1, <2>2, <2>3, <2>4, <2>5 DEF WorkerStep
  <1>2. CASE RunStep
    <2>1. CASE CreateWorkers
      BY <2>1, PoolAssumption DEF CreateWorkers
    <2>2. CASE StartWorker
      BY <2>2, PoolAssumption DEF StartWorker, Workers
    <2>3. CASE StartedAll \/ TestWaitLoop \/ TestDrain \/ WaitReturnsObject \/ WaitTimesOut
               \/ GraceTimesOut \/ CloseEvent \/ ForgetEvent
      BY <2>3 DEF StartedAll, TestWaitLoop, TestDrain, WaitReturnsObject, WaitTimesOut,
                  GraceTimesOut, CloseEvent, ForgetEvent
    <2>4. CASE StopWorker \/ WorkerStopped \/ StopTimesOut \/ WorkerInactive \/ DestroyWorker
               \/ JoinWorker \/ ReturnProcessed
      BY <2>4 DEF StopWorker, WorkerStopped, StopTimesOut, WorkerInactive, DestroyWorker,
                  JoinWorker, ReturnProcessed
    <2>5. QED
      BY <1>2, <2>1, <2>2, <2>3, <2>4 DEF RunStep
  <1>3. CASE RequestQuit \/ UNCHANGED vars
    BY <1>3 DEF RequestQuit, vars
  <1>4. QED
    BY <1>1, <1>2, <1>3 DEF Next, Returned

\* run() cancels only when it was interrupted.
WaitInv == WaitOver /\ OnlyQuitInterrupts

\* Every step keeps it: run() leaves its wait on nJobs, on the flag or on the
\* event, and each of the three tells the truth.
LEMMA WaitStep ==
    ASSUME ControlInv, Counted, EventTruthful, WaitInv, [Next]_vars
    PROVE  WaitInv'
  <1> USE DEF WaitInv, WaitOver, OnlyQuitInterrupts, Interrupted, AllLeft, Winding, Deleting,
              ControlInv, TypeOK, RunControl, counters, workerVars, runVars
  <1>1. ASSUME NEW w \in Workers, WorkerStep(w) \/ Cancelled(w) PROVE WaitInv'
    BY <1>1 DEF WorkerStep, CheckQuit, GetFront, GetBack, QueueEmpty, BeginFile, EndFile, CountFile,
                WorkerDone, SignalAllDone, MarkCleanedUp, SkipCleanup, Cancelled, Goto, Departed
  <1>2. CASE RunStep
    <2>1. CASE CreateWorkers
      BY <2>1, PoolAssumption DEF CreateWorkers, Workers, Departed
    <2>2. CASE StartWorker
      BY <2>2, PoolAssumption DEF StartWorker, Workers, Departed
    <2>3. CASE TestWaitLoop
      <3>1. nJobs < 1 => AllLeft
        BY <2>3, CountedOut DEF TestWaitLoop, RunGoto
      <3>2. QED
        BY <2>3, <3>1 DEF TestWaitLoop, RunGoto
    <2>4. CASE WaitReturnsObject
      BY <2>4 DEF WaitReturnsObject, RunGoto, EventTruthful, Departed
    <2>5. CASE StartedAll \/ TestDrain \/ WaitTimesOut \/ GraceTimesOut \/ CloseEvent \/ ForgetEvent
      BY <2>5 DEF StartedAll, TestDrain, WaitTimesOut, GraceTimesOut, CloseEvent, ForgetEvent, RunGoto
    <2>6. CASE StopWorker
      <3>1. ~ AllLeft
        BY <2>6, PoolAssumption DEF StopWorker, Running, Departed, Workers
      <3>2. QED
        BY <2>6, <3>1 DEF StopWorker, RunGoto
    <2>7. CASE WorkerStopped \/ StopTimesOut \/ WorkerInactive \/ DestroyWorker
               \/ JoinWorker \/ ReturnProcessed
      BY <2>7 DEF WorkerStopped, StopTimesOut, WorkerInactive, DestroyWorker,
                  JoinWorker, ReturnProcessed, RunGoto
    <2>8. QED
      BY <1>2, <2>1, <2>2, <2>3, <2>4, <2>5, <2>6, <2>7 DEF RunStep
  <1>3. CASE RequestQuit \/ UNCHANGED vars
    BY <1>3 DEF RequestQuit, vars
  <1>4. QED
    BY <1>1, <1>2, <1>3 DEF Next, Returned
-----------------------------------------------------------------------------
(* The theorems.                                                           *)

\* All of the above.
PoolInv ==
    /\ ControlInv /\ FilesConserved /\ Counted
    /\ EventOpen /\ OwnCleanup /\ LeftForReason /\ SignalInv /\ WaitInv
    /\ Reaped /\ LateEnd

\* It holds in the initial state ...
LEMMA PoolInit == Init => PoolInv
  <1> SUFFICES ASSUME Init PROVE PoolInv
    OBVIOUS
  <1>1. EventOpen /\ OwnCleanup /\ LeftForReason /\ SignalInv /\ WaitInv /\ Reaped /\ LateEnd
    BY DEF Init, EventOpen, OwnCleanup, LeftForReason, SignalInv, LastSignals, EventTruthful,
           WaitInv, WaitOver, OnlyQuitInterrupts, Winding, Deleting, Reaped, LateEnd, Departed
  <1>2. QED
    BY <1>1, ControlInit, FilesInit, CountedInit DEF PoolInv

\* ... and every step keeps it ...
LEMMA PoolNext == PoolInv /\ [Next]_vars => PoolInv'
  <1> SUFFICES ASSUME PoolInv, [Next]_vars PROVE PoolInv'
    OBVIOUS
  <1>1. ControlInv /\ TypeOK
    BY DEF PoolInv, ControlInv
  <1>2. ControlInv' /\ FilesConserved' /\ Counted'
    BY <1>1, ControlNext, FilesStep, CountedStep DEF PoolInv
  <1>3. EventOpen' /\ OwnCleanup' /\ LeftForReason'
    BY <1>1, EventOpenStep, OwnCleanupStep, LeftForReasonStep DEF PoolInv
  <1>4. SignalInv' /\ WaitInv'
    BY <1>1, SignalStep, WaitStep DEF PoolInv, SignalInv
  <1>5. Reaped' /\ LateEnd'
    BY <1>1, ReapedStep, LateEndStep DEF PoolInv
  <1>6. QED
    BY <1>2, <1>3, <1>4, <1>5 DEF PoolInv

\* ... so that it is an invariant, for any number of workers and files.
LEMMA PoolInvariant == Spec => []PoolInv
  BY PoolInit, PoolNext, PTL DEF Spec

\* nProcessing, nProcessed and nJobs are what they are taken for, whatever the
\* interleaving.
THEOREM CountersAreExact == Spec => []CountersExact
  <1>1. PoolInv => CountersExact
    BY CountedIsExact DEF PoolInv
  <1>2. QED
    BY <1>1, PoolInvariant, PTL

\* allDoneEvent is set only when all workers have left and, unless the user
\* asked to quit, all files have been processed.
THEOREM EventIsTruthful == Spec => []EventTruthful
  <1>1. PoolInv => EventTruthful
    BY DEF PoolInv, SignalInv
  <1>2. QED
    BY <1>1, PoolInvariant, PTL

\* run() cancels no worker unless it was asked to quit or woken without a
\* signal.
THEOREM StopsOnlyWhenInterrupted == Spec => []OnlyQuitInterrupts
  <1>1. PoolInv => OnlyQuitInterrupts
    BY DEF PoolInv, WaitInv
  <1>2. QED
    BY <1>1, PoolInvariant, PTL

\* A worker that run() has deleted, and that was not late, takes no step.
THEOREM DeletedAtRest == Spec => DeletedIsTerminated
  <1> DEFINE Deleted(w) == mpc \in Deleting /\ w < i /\ w \notin late
  <1>1. ASSUME PoolInv, [Next]_vars, NEW v \in Workers, Deleted(v)
        PROVE  wpc'[v] = wpc[v]
    <2>1. wpc[v] \in Terminal /\ mpc \in Deleting
      BY <1>1 DEF PoolInv, Reaped
    <2> USE DEF counters, workerVars, runVars, Terminal, Deleting, Goto, RunGoto
    <2>2. wpc \in [Workers -> Running \cup Departed \cup {"none", "created", "ended", "cancelled"}]
      BY <1>1 DEF PoolInv, ControlInv, TypeOK
    <2>3. ASSUME NEW w \in Workers, WorkerStep(w) \/ Cancelled(w) PROVE wpc'[v] = wpc[v]
      BY <2>1, <2>2, <2>3
         DEF WorkerStep, CheckQuit, GetFront, GetBack, QueueEmpty, BeginFile, EndFile, CountFile,
             WorkerDone, SignalAllDone, MarkCleanedUp, SkipCleanup, Cancelled
    <2>4. CASE RunStep
      BY <2>1, <2>4 DEF RunStep, CreateWorkers, StartWorker, StartedAll, TestWaitLoop,
                TestDrain, WaitReturnsObject, WaitTimesOut, GraceTimesOut, CloseEvent,
                ForgetEvent, StopWorker, WorkerStopped, StopTimesOut, WorkerInactive,
                DestroyWorker, JoinWorker, ReturnProcessed
    <2>5. CASE RequestQuit \/ UNCHANGED vars
      BY <2>5 DEF RequestQuit, vars
    <2>6. QED
      BY <1>1, <2>3, <2>4, <2>5 DEF Next, Returned
  <1>2. PoolInv /\ [Next]_vars
          => [\A w \in Workers :
                (mpc \in {"reap", "stopping", "delete", "join", "returned"} /\ w < i /\ w \notin late)
                  => wpc'[w] = wpc[w]]_vars
    BY <1>1 DEF Deleting
  <1>3. QED
    BY <1>2, PoolInvariant, PTL DEF Spec, DeletedIsTerminated
-----------------------------------------------------------------------------
(* The pool implements FileJobs.                                           *)

\* When run() has returned, nobody takes another file, and who finishes one
\* was late.
LEMMA NobodyTakesLate ==
    ASSUME PoolInv, mpc = "returned", NEW w \in Workers
    PROVE  wpc[w] # "fetch" /\ (wpc[w] = "compressed" => quitRequestedFlag)
  <1>1. w < i
    BY PoolAssumption DEF PoolInv, Reaped, Workers
  <1>2. w \notin late => wpc[w] \in Terminal
    BY <1>1 DEF PoolInv, Reaped, Deleting
  <1>3. w \in late => quitRequestedFlag /\ wpc[w] # "fetch"
    BY DEF PoolInv, LateEnd, Departed
  <1>4. QED
    BY <1>2, <1>3 DEF Terminal

\* When run() has left its wait, it was interrupted or every file has been
\* processed.
LEMMA ReturnsWhenDone ==
    ASSUME PoolInv, mpc \in Winding
    PROVE  Interrupted \/ processed = Files
  <1>1. CASE AllLeft
    <2>1. \A w \in Workers : wpc[w] \notin Busy
      BY <1>1 DEF AllLeft, Departed, Busy
    <2>2. 0 \in Workers
      BY PoolAssumption DEF Workers
    <2>3. quitRequestedFlag \/ itemList = <<>>
      BY <1>1, <2>2 DEF AllLeft, PoolInv, LeftForReason
    <2>4. QED
      BY <2>1, <2>3, NothingLeft DEF PoolInv, Interrupted
  <1>2. QED
    BY <1>1 DEF PoolInv, WaitInv, WaitOver

\* An initial state of the pool is one of FileJobs.
LEMMA JobStart == Init => Jobs!JobInit
  <1> SUFFICES ASSUME Init PROVE Jobs!JobInit
    OBVIOUS
  <1>1. Queued = Files /\ Held = {} /\ processed = {}
    BY PoolAssumption DEF Init, Queued, Held, Files, NoFile, Workers
  <1>2. Interrupted = FALSE /\ (mpc = "returned") = FALSE
    BY DEF Init, Interrupted
  <1>3. QED
    BY <1>1, <1>2 DEF Jobs!JobInit

\* What a step does, in the terms of FileJobs.
LEMMA JobStep ==
    ASSUME PoolInv, PoolInv', [Next]_vars
    PROVE  [Jobs!JobNext]_(Jobs!jobVars)
  <1> DEFINE SameRun == Interrupted' = Interrupted /\ (mpc = "returned")' = (mpc = "returned")
             Same == Queued' = Queued /\ Held' = Held /\ processed' = processed
  <1>0. Same /\ SameRun => UNCHANGED Jobs!jobVars
    BY DEF Jobs!jobVars
  <1>1. ASSUME NEW w \in Workers, GetFront(w) \/ GetBack(w)
        PROVE  Jobs!JobNext
    <2>1. PICK f \in Files : TakesEntry(f)
      BY <1>1, GetFrontTakes, GetBackTakes DEF PoolInv
    <2>2. mpc # "returned"
      BY <1>1, NobodyTakesLate DEF GetFront, GetBack, Goto
    <2>3. SameRun
      BY <1>1 DEF GetFront, GetBack, Interrupted, runVars
    <2>4. Jobs!TakeJob(f)
      BY <2>1, <2>2, <2>3 DEF Jobs!TakeJob, TakesEntry
    <2>5. QED
      BY <2>4 DEF Jobs!JobNext
  <1>2. ASSUME NEW w \in Workers, CountFile(w)
        PROVE  Jobs!JobNext
    <2>1. PICK f \in Files : FinishesEntry(f)
      BY <1>2, CountFileFinishes DEF PoolInv
    <2>2. mpc # "returned" \/ Interrupted
      BY <1>2, NobodyTakesLate DEF CountFile, Goto, Interrupted
    <2>3. SameRun /\ Queued' = Queued
      BY <1>2 DEF CountFile, Interrupted, runVars, Queued
    <2>4. Jobs!FinishJob(f)
      BY <2>1, <2>2, <2>3 DEF Jobs!FinishJob, FinishesEntry
    <2>5. QED
      BY <2>4 DEF Jobs!JobNext
  <1>3. ASSUME ~ \E w \in Workers : GetFront(w) \/ GetBack(w) \/ CountFile(w)
        PROVE  Same
    BY <1>3, OtherStepsSame DEF SameFiles, Queued, Held
  <1> HIDE DEF Same
  <1>4. ASSUME Same, NEW w \in Workers, WorkerStep(w) \/ Cancelled(w)
        PROVE  UNCHANGED Jobs!jobVars
    <2>1. SameRun
      BY <1>4 DEF WorkerStep, CheckQuit, GetFront, GetBack, QueueEmpty, BeginFile, EndFile, CountFile,
           WorkerDone, SignalAllDone, MarkCleanedUp, SkipCleanup, Cancelled, Interrupted, runVars
    <2>2. QED
      BY <1>0, <1>4, <2>1
  <1>5. ASSUME Same, ReturnProcessed
        PROVE  Jobs!JobNext
    <2>1. mpc = "reap" /\ mpc' = "returned" /\ Interrupted' = Interrupted
      BY <1>5 DEF ReturnProcessed, RunGoto, Interrupted, workerVars
    <2>2. Interrupted \/ processed = Files
      BY <2>1, ReturnsWhenDone DEF Winding, Deleting
    <2>3. Jobs!ReturnJobs
      BY <1>5, <2>1, <2>2 DEF Jobs!ReturnJobs, Same
    <2>4. QED
      BY <2>3 DEF Jobs!JobNext
  <1>6. ASSUME Same, mpc # "returned", mpc' # "returned", Interrupted => Interrupted'
        PROVE  [Jobs!JobNext]_(Jobs!jobVars)
    <2>1. CASE Interrupted' = Interrupted
      BY <1>0, <1>6, <2>1
    <2>2. CASE Interrupted' /\ ~Interrupted
      <3>1. Jobs!RequestStop
        BY <1>6, <2>2 DEF Jobs!RequestStop, Same
      <3>2. QED
        BY <3>1 DEF Jobs!JobNext
    <2>3. QED
      BY <1>6, <2>1, <2>2 DEF Interrupted
  <1>7. ASSUME RunStep, ~ReturnProcessed
        PROVE  mpc # "returned" /\ mpc' # "returned" /\ (Interrupted => Interrupted')
    <2>1. CASE WaitReturnsObject
      BY <2>1 DEF WaitReturnsObject, RunGoto, Interrupted
    <2>2. CASE StopTimesOut
      BY <2>2 DEF StopTimesOut, RunGoto, Interrupted
    <2>3. CASE RunStep /\ ~WaitReturnsObject /\ ~StopTimesOut
      <3>1. Interrupted' = Interrupted
        BY <2>3 DEF RunStep, CreateWorkers, StartWorker, StartedAll, TestWaitLoop,
                TestDrain, WaitTimesOut, GraceTimesOut, CloseEvent,
                ForgetEvent, StopWorker, WorkerStopped, WorkerInactive,
                DestroyWorker, JoinWorker, ReturnProcessed, RunGoto, Interrupted
      <3>2. mpc # "returned" /\ mpc' # "returned"
        BY <1>7, <2>3 DEF RunStep, CreateWorkers, StartWorker, StartedAll, TestWaitLoop,
                TestDrain, WaitTimesOut, GraceTimesOut, CloseEvent,
                ForgetEvent, StopWorker, WorkerStopped, WorkerInactive,
                DestroyWorker, JoinWorker, RunGoto
      <3>3. QED
        BY <3>1, <3>2
    <2>4. QED
      BY <1>7, <2>1, <2>2, <2>3
  <1>8. ASSUME RequestQuit
        PROVE  mpc # "returned" /\ mpc' # "returned" /\ (Interrupted => Interrupted')
    BY <1>8 DEF RequestQuit, Interrupted, runVars
  <1>9. ASSUME UNCHANGED vars
        PROVE  Same /\ SameRun
    BY <1>9 DEF vars, Same, Queued, Held, Interrupted, workerVars, runVars
  <1>10. CASE \E w \in Workers : GetFront(w) \/ GetBack(w) \/ CountFile(w)
    BY <1>1, <1>2, <1>10
  <1>11. CASE Same
    BY <1>0, <1>4, <1>5, <1>6, <1>7, <1>8, <1>9, <1>11 DEF Next, Returned
  <1>12. QED
    BY <1>3, <1>10, <1>11

\* The worker pool implements the abstract job specification.
THEOREM PoolRefinesJobs == Spec => RefinesFileJobs
  <1>1. PoolInv /\ PoolInv' /\ [Next]_vars => [Jobs!JobNext]_(Jobs!jobVars)
    BY JobStep
  <1>2. QED
    BY <1>1, JobStart, PoolInvariant, PTL DEF Spec, Jobs!JobSpec, RefinesFileJobs
=============================================================================
