---------------------------- MODULE DriverProofs ----------------------------
(***************************************************************************)
(* What Driver promises of main() and its workers, proved for any number   *)
(* of workers, any arguments and options, and any hard links among the     *)
(* files: how the ioLock keeps workers apart, what is queued, and what     *)
(* the statistics amount to when nothing protects them.                    *)
(***************************************************************************)
EXTENDS Driver, Counting, SequenceTheorems, TLAPS

Stages ==
    {"idle", "entered", "wantRead", "lockedRead", "opening", "reading", "readDone",
     "unlockedRead", "compressing", "wantWrite", "lockedWrite", "rewriting", "verify",
     "bail", "unlockedBail", "closing", "returned",
     "files", "filesDone", "compressed", "counted", "uncounted"}

IoType ==
    /\ tool \in {"afsctool", "zfsctool"} /\ exclusive_io \in BOOLEAN /\ exlock \in BOOLEAN
    /\ owner \in Workers \cup {0}
    /\ m_bLocked \in [Workers -> BOOLEAN]
    /\ ioLockedFlag \in BOOLEAN /\ locked \in [Workers -> BOOLEAN]
    /\ fdOpen \subseteq Workers
    /\ stage \in [Workers -> Stages]

\* Where a worker has the ioLock, and where it has its file open.  No claim is made
\* about ioLockedFlag and locked: any worker may have changed what they say.
ReadsLocked == tool = "afsctool" /\ exclusive_io
WritesLocked == tool = "afsctool" \/ exclusive_io

LockInv ==
    /\ \A w \in Workers : m_bLocked[w] <=> owner = w
    /\ \A w \in Workers : stage[w] \in {"lockedRead", "readDone", "lockedWrite"} => owner = w
    /\ \A w \in Workers : ReadsLocked /\ stage[w] \in {"opening", "reading"} => owner = w
    /\ \A w \in Workers : WritesLocked /\ stage[w] \in {"rewriting", "verify"} => owner = w
    /\ \A w \in Workers : stage[w] = "idle" => owner # w

OpenInv ==
    \A w \in fdOpen :
        stage[w] \in {"reading", "readDone", "unlockedRead", "compressing", "wantWrite",
                      "lockedWrite", "rewriting", "bail", "unlockedBail", "closing"}

IoInv == IoType /\ LockInv /\ OpenInv

\* What main() goes through and what it has collected.
MainType ==
    /\ args \in ArgLists /\ arg \in 1 .. Len(args) + 1
    /\ walk \in Seq(Paths) /\ itemList \in Seq(Paths) /\ started \in Seq(Paths)
    /\ check_hard_links \in BOOLEAN /\ sortQueue \in BOOLEAN
    /\ ino2PathMap \in [Range(Inode) -> Paths \cup {NoPath}]
    /\ nJobs \in Nat /\ nReverse \in Nat
    /\ quitRequestedFlag \in BOOLEAN /\ jobInfoInitialised \in BOOLEAN
    /\ mpc \in {"args", "walk", "run", "returned", "nothing"}

Scanning == mpc \in {"args", "walk"}

\* The place in the folder that fts_read() has got to
WalkInv ==
    /\ mpc = "walk" =>
         /\ arg <= Len(args) /\ args[arg].folder
         /\ Len(walk) <= Len(args[arg].paths)
         /\ \A j \in 1 .. Len(walk) :
              walk[j] = args[arg].paths[Len(args[arg].paths) - Len(walk) + j]
    /\ ~Scanning => arg > Len(args)

Elements(q) == {q[k] : k \in 1 .. Len(q)}
Distinct(q) == \A j, k \in 1 .. Len(q) : q[j] = q[k] => j = k

\* The files queued so far, all of them compressable and none of them twice
Chosen == IF Scanning THEN Elements(itemList) ELSE Elements(started)

ListInv ==
    /\ Scanning => Distinct(itemList) /\ itemForName = Elements(itemList)
    /\ ~Scanning => Distinct(started)
    /\ Chosen \subseteq Compressable

\* A path of argument a is queued, or it is a hard link to one that is.
Covered(a, p) ==
    p \in Compressable /\ p \notin Chosen =>
      /\ check_hard_links
      /\ \E q \in Paths \ {p} : InFolder(args[a], q) /\ Inode[q] = Inode[p] /\ q \in Chosen

\* That is so for all that main() has met.
CoverInv ==
    \A a \in DOMAIN args : \A k \in DOMAIN args[a].paths :
      \/ a < arg
      \/ a = arg /\ mpc = "walk" /\ k <= Len(args[a].paths) - Len(walk)
      => Covered(a, args[a].paths[k])

\* The name by which checkForHardLink() knows a file was met in this folder.
LinkInv ==
    /\ mpc # "walk" => ino2PathMap = NoLinks
    /\ mpc = "walk" =>
         \A p \in Paths : LET m == ino2PathMap[Inode[p]] IN m # NoPath =>
           /\ Inode[m] = Inode[p] /\ InFolder(args[arg], m)
           /\ m \in Compressable => m \in Chosen

\* A linked file that is queued was met before this folder, or is known by this name.
KnownInv ==
    check_hard_links => \A q \in Chosen : Linked(q) =>
      \/ \E b \in DOMAIN args : b < arg /\ InFolder(args[b], q)
      \/ mpc = "walk" /\ ino2PathMap[Inode[q]] = q

\* Two names of one file are not queued because of one folder.
ApartInv ==
    check_hard_links =>
      \A a \in DOMAIN args : \A p, q \in Chosen :
        p # q /\ Inode[p] = Inode[q] /\ args[a].folder
        /\ InFolder(args[a], p) /\ InFolder(args[a], q)
        => \E b \in DOMAIN args \ {a} : InFolder(args[b], p) \/ InFolder(args[b], q)

ScanInv ==
    MainType /\ WalkInv /\ ListInv /\ CoverInv /\ LinkInv /\ KnownInv /\ ApartInv

\* Each file queued is in the queue, with one worker or processed.
Busy == {w \in Workers : stage[w] # "idle"}
Held == {held[w] : w \in Busy}

FilesInv ==
    /\ held \in [Workers -> Paths \cup {NoPath}]
    /\ Scanning => Busy = {} /\ processed = {} /\ compressed = {}
    /\ ~Scanning =>
         /\ Distinct(itemList)
         /\ Elements(started) = Elements(itemList) \cup Held \cup processed
         /\ Elements(itemList) \cap (Held \cup processed) = {} /\ Held \cap processed = {}
         /\ \A v, w \in Busy : held[v] = held[w] => v = w
    /\ \A w \in Busy : w <= nJobs
    /\ IsFiniteSet(processed)
    /\ mpc \in {"returned", "nothing"} => Busy = {}
    /\ mpc = "returned" => quitRequestedFlag \/ itemList = <<>>

\* The file arguments counted since the last folder
Recent == {a \in 1 .. arg - 1 : /\ args[a].paths[1] \notin Compressable
                                /\ \A f \in a .. arg - 1 : ~args[f].folder
                                /\ a \notin uncountedArgs}
Old(A) == {a \in A : args[a].paths[1] \in Compressed0}
FolderSeen == \E f \in 1 .. arg - 1 : args[f].folder

StatType ==
    /\ jobInfo \in [files : Nat, compressed : Nat]
    /\ reg \in [Workers -> Nat]

\* What process_file_info() has passed over: files done with and arguments gone
\* through, and none of them zfsctool's
PassedInv ==
    /\ uncounted \subseteq processed
    /\ uncountedArgs \subseteq 1 .. arg - 1
    /\ tool = "zfsctool" =>
         uncounted = {} /\ uncountedArgs = {} /\ \A w \in Workers : stage[w] # "uncounted"

OwnInv ==
    /\ Scanning => jobInfoInitialised = FolderSeen
    /\ mpc = "args" => /\ jobInfo.files = Cardinality(Recent)
                       /\ jobInfo.compressed = Cardinality(Old(Recent))

\* The files that have been counted, and the compressed ones among them
DoneFiles == {w \in Workers : stage[w] \in {"filesDone", "compressed", "counted"}}
DoneCompressed == {w \in Workers : stage[w] = "counted" /\ held[w] \in compressed}
FilesCounted == Cardinality(Tallied) + Cardinality(DoneFiles)
CompressedCounted == Cardinality(Tallied \cap compressed) + Cardinality(DoneCompressed)

\* A counter that was least, and was added to n times by threads that may miss one
\* another's additions.
Lossy(value, least, n) == value \in least .. (least + n) /\ (n > 0 => value > least)

\* What main() counted itself
Own == Cardinality(OwnTallied)
OwnCompressed == Cardinality(Old(OwnTallied))

CountInv ==
    ~Scanning =>
      /\ Lossy(jobInfo.files, Own, FilesCounted)
      /\ Lossy(jobInfo.compressed, OwnCompressed, CompressedCounted)
      /\ \A w \in Workers :
           /\ stage[w] = "files" => reg[w] \in Own .. (Own + FilesCounted)
           /\ stage[w] = "compressed" =>
                /\ reg[w] \in OwnCompressed .. (OwnCompressed + CompressedCounted)
                /\ held[w] \in compressed
      /\ nJobs = 1 =>
           /\ jobInfo.files = Own + FilesCounted
           /\ jobInfo.compressed = OwnCompressed + CompressedCounted
           /\ \A w \in Workers :
                /\ stage[w] = "files" => reg[w] = jobInfo.files
                /\ stage[w] = "compressed" => reg[w] = jobInfo.compressed

StatInv == StatType /\ PassedInv /\ OwnInv /\ CountInv

\* The inductive invariant
DriverInv == IoInv /\ ScanInv /\ FilesInv /\ StatInv
-----------------------------------------------------------------------------
(* The ioLock.                                                              *)

LEMMA NoWorker == 0 \notin Workers
  BY DEF Workers

LEMMA ScopeSteps ==
    /\ \A x \in {"wantRead", "wantWrite"} : x \in DOMAIN AfterLock
    /\ \A x \in DOMAIN AfterLock : x \in {"wantRead", "wantWrite"}
    /\ AfterLock["wantRead"] = "lockedRead" /\ AfterLock["wantWrite"] = "lockedWrite"
    /\ \A x \in DOMAIN Entered : x \in {"lockedRead", "lockedWrite"}
    /\ Entered["lockedRead"] = "opening" /\ Entered["lockedWrite"] = "rewriting"
    /\ \A x \in DOMAIN AfterUnlock : x \in {"readDone", "bail"}
    /\ AfterUnlock["readDone"] = "unlockedRead" /\ AfterUnlock["bail"] = "unlockedBail"
    /\ \A x \in DOMAIN Left : x \in {"unlockedRead", "unlockedBail"}
    /\ Left["unlockedRead"] = "compressing" /\ Left["unlockedBail"] = "closing"
  BY DEF AfterLock, Entered, AfterUnlock, Left

\* What the variables hold.
LEMMA IoTypeStep ==
    ASSUME IoType, Next
    PROVE  IoType'
  <1> USE ScopeSteps, NoWorker
         DEF ioVars, options, lock, Goto, ScopeLock, ScopeUnlock, ScopeDestroyed,
             IoType, Stages
  <1>1. ASSUME NEW w \in Workers, LockScope(w)
        PROVE  IoType'
    BY <1>1 DEF LockScope
  <1>2. ASSUME NEW w \in Workers, LockScopeReturns(w)
        PROVE  IoType'
    BY <1>2 DEF LockScopeReturns
  <1>3. ASSUME NEW w \in Workers, UnLockScope(w)
        PROVE  IoType'
    BY <1>3 DEF UnLockScope
  <1>4. ASSUME NEW w \in Workers, BailNotLocked(w)
        PROVE  IoType'
    BY <1>4 DEF BailNotLocked
  <1>5. ASSUME NEW w \in Workers, UnLockScopeReturns(w)
        PROVE  IoType'
    BY <1>5 DEF UnLockScopeReturns
  <1>6. ASSUME NEW w \in Workers, Skip(w)
        PROVE  IoType'
    BY <1>6 DEF Skip
  <1>7. ASSUME NEW w \in Workers, StartReading(w)
        PROVE  IoType'
    BY <1>7 DEF StartReading
  <1>8. ASSUME NEW w \in Workers, Open(w)
        PROVE  IoType'
    BY <1>8 DEF Open
  <1>9. ASSUME NEW w \in Workers, OpenFails(w)
        PROVE  IoType'
    BY <1>9 DEF OpenFails
  <1>10. ASSUME NEW w \in Workers, Read(w)
        PROVE  IoType'
    BY <1>10 DEF Read
  <1>11. ASSUME NEW w \in Workers, ReadFails(w)
        PROVE  IoType'
    BY <1>11 DEF ReadFails
  <1>12. ASSUME NEW w \in Workers, Compressed(w)
        PROVE  IoType'
    BY <1>12 DEF Compressed
  <1>13. ASSUME NEW w \in Workers, NotCompressed(w)
        PROVE  IoType'
    BY <1>13 DEF NotCompressed
  <1>14. ASSUME NEW w \in Workers, Rewritten(w)
        PROVE  IoType'
    BY <1>14 DEF Rewritten
  <1>15. ASSUME NEW w \in Workers, Verify(w)
        PROVE  IoType'
    BY <1>15 DEF Verify
  <1>16. ASSUME NEW w \in Workers, Close(w)
        PROVE  IoType'
    BY <1>16 DEF Close
  <1>17. ASSUME NEW w \in Workers, Take(w)
        PROVE  IoType'
    BY <1>17 DEF Take
  <1>18. ASSUME NEW w \in Workers, ReadCounter(w)
        PROVE  IoType'
    BY <1>18 DEF ReadCounter
  <1>19. ASSUME NEW w \in Workers, WriteCounter(w)
        PROVE  IoType'
    BY <1>19 DEF WriteCounter
  <1>20. ASSUME NEW w \in Workers, EndFile(w)
        PROVE  IoType'
    BY <1>20 DEF EndFile
  <1>21. ASSUME FileArgument
        PROVE  IoType'
    BY <1>21 DEF FileArgument
  <1>22. ASSUME FolderArgument
        PROVE  IoType'
    BY <1>22 DEF FolderArgument
  <1>23. ASSUME WalkFile
        PROVE  IoType'
    BY <1>23 DEF WalkFile
  <1>24. ASSUME EndFolder
        PROVE  IoType'
    BY <1>24 DEF EndFolder
  <1>25. ASSUME StartRun
        PROVE  IoType'
    BY <1>25 DEF StartRun
  <1>26. ASSUME RunReturns
        PROVE  IoType'
    BY <1>26 DEF RunReturns
  <1>27. ASSUME Quit
        PROVE  IoType'
    BY <1>27 DEF Quit
  <1>28. ASSUME Stopped
        PROVE  IoType'
    BY <1>28 DEF Stopped, vars
  <1>29. ASSUME NEW w \in Workers, CountFails(w)
        PROVE  IoType'
    BY <1>29 DEF CountFails
  <1> HIDE DEF ioVars, options, lock, Goto, ScopeLock, ScopeUnlock, ScopeDestroyed,
             IoType, Stages
  <1>30. QED
    BY <1>1, <1>2, <1>3, <1>4, <1>5, <1>6, <1>7, <1>8, <1>9, <1>10, <1>11, <1>12,
       <1>13, <1>14, <1>15, <1>16, <1>17, <1>18, <1>19, <1>20, <1>21, <1>22,
       <1>23, <1>24, <1>25, <1>26, <1>27, <1>28, <1>29
       DEF Next, MainStep, WorkerStep, Compress, CompressStep

\* The ioLock is given to one worker at a time and taken back from it alone.
LEMMA LockStep ==
    ASSUME IoType, LockInv, Next
    PROVE  LockInv'
  <1> USE ScopeSteps, NoWorker
         DEF ioVars, options, lock, Goto, ScopeLock, ScopeUnlock, ScopeDestroyed,
             IoType, LockInv, ReadsLocked, WritesLocked
  <1>1. ASSUME NEW w \in Workers, LockScope(w)
        PROVE  LockInv'
    BY <1>1 DEF LockScope
  <1>2. ASSUME NEW w \in Workers, LockScopeReturns(w)
        PROVE  LockInv'
    BY <1>2 DEF LockScopeReturns
  <1>3. ASSUME NEW w \in Workers, UnLockScope(w)
        PROVE  LockInv'
    BY <1>3 DEF UnLockScope
  <1>4. ASSUME NEW w \in Workers, BailNotLocked(w)
        PROVE  LockInv'
    BY <1>4 DEF BailNotLocked
  <1>5. ASSUME NEW w \in Workers, UnLockScopeReturns(w)
        PROVE  LockInv'
    BY <1>5 DEF UnLockScopeReturns
  <1>6. ASSUME NEW w \in Workers, Skip(w)
        PROVE  LockInv'
    BY <1>6 DEF Skip
  <1>7. ASSUME NEW w \in Workers, StartReading(w)
        PROVE  LockInv'
    BY <1>7 DEF StartReading
  <1>8. ASSUME NEW w \in Workers, Open(w)
        PROVE  LockInv'
    BY <1>8 DEF Open
  <1>9. ASSUME NEW w \in Workers, OpenFails(w)
        PROVE  LockInv'
    BY <1>9 DEF OpenFails
  <1>10. ASSUME NEW w \in Workers, Read(w)
        PROVE  LockInv'
    BY <1>10 DEF Read
  <1>11. ASSUME NEW w \in Workers, ReadFails(w)
        PROVE  LockInv'
    BY <1>11 DEF ReadFails
  <1>12. ASSUME NEW w \in Workers, Compressed(w)
        PROVE  LockInv'
    BY <1>12 DEF Compressed
  <1>13. ASSUME NEW w \in Workers, NotCompressed(w)
        PROVE  LockInv'
    BY <1>13 DEF NotCompressed
  <1>14. ASSUME NEW w \in Workers, Rewritten(w)
        PROVE  LockInv'
    BY <1>14 DEF Rewritten
  <1>15. ASSUME NEW w \in Workers, Verify(w)
        PROVE  LockInv'
    BY <1>15 DEF Verify
  <1>16. ASSUME NEW w \in Workers, Close(w)
        PROVE  LockInv'
    BY <1>16 DEF Close
  <1>17. ASSUME NEW w \in Workers, Take(w)
        PROVE  LockInv'
    BY <1>17 DEF Take
  <1>18. ASSUME NEW w \in Workers, ReadCounter(w)
        PROVE  LockInv'
    BY <1>18 DEF ReadCounter
  <1>19. ASSUME NEW w \in Workers, WriteCounter(w)
        PROVE  LockInv'
    BY <1>19 DEF WriteCounter
  <1>20. ASSUME NEW w \in Workers, EndFile(w)
        PROVE  LockInv'
    BY <1>20 DEF EndFile
  <1>21. ASSUME FileArgument
        PROVE  LockInv'
    BY <1>21 DEF FileArgument
  <1>22. ASSUME FolderArgument
        PROVE  LockInv'
    BY <1>22 DEF FolderArgument
  <1>23. ASSUME WalkFile
        PROVE  LockInv'
    BY <1>23 DEF WalkFile
  <1>24. ASSUME EndFolder
        PROVE  LockInv'
    BY <1>24 DEF EndFolder
  <1>25. ASSUME StartRun
        PROVE  LockInv'
    BY <1>25 DEF StartRun
  <1>26. ASSUME RunReturns
        PROVE  LockInv'
    BY <1>26 DEF RunReturns
  <1>27. ASSUME Quit
        PROVE  LockInv'
    BY <1>27 DEF Quit
  <1>28. ASSUME Stopped
        PROVE  LockInv'
    BY <1>28 DEF Stopped, vars
  <1>29. ASSUME NEW w \in Workers, CountFails(w)
        PROVE  LockInv'
    BY <1>29 DEF CountFails
  <1> HIDE DEF ioVars, options, lock, Goto, ScopeLock, ScopeUnlock, ScopeDestroyed,
             IoType, LockInv, ReadsLocked, WritesLocked
  <1>30. QED
    BY <1>1, <1>2, <1>3, <1>4, <1>5, <1>6, <1>7, <1>8, <1>9, <1>10, <1>11, <1>12,
       <1>13, <1>14, <1>15, <1>16, <1>17, <1>18, <1>19, <1>20, <1>21, <1>22,
       <1>23, <1>24, <1>25, <1>26, <1>27, <1>28, <1>29
       DEF Next, MainStep, WorkerStep, Compress, CompressStep

\* Every way out of compressFile() closes the file.
LEMMA OpenStep ==
    ASSUME IoType, OpenInv, Next
    PROVE  OpenInv'
  <1> USE ScopeSteps, NoWorker
         DEF ioVars, options, lock, Goto, ScopeLock, ScopeUnlock, ScopeDestroyed,
             IoType, OpenInv
  <1>1. ASSUME NEW w \in Workers, LockScope(w)
        PROVE  OpenInv'
    BY <1>1 DEF LockScope
  <1>2. ASSUME NEW w \in Workers, LockScopeReturns(w)
        PROVE  OpenInv'
    BY <1>2 DEF LockScopeReturns
  <1>3. ASSUME NEW w \in Workers, UnLockScope(w)
        PROVE  OpenInv'
    BY <1>3 DEF UnLockScope
  <1>4. ASSUME NEW w \in Workers, BailNotLocked(w)
        PROVE  OpenInv'
    BY <1>4 DEF BailNotLocked
  <1>5. ASSUME NEW w \in Workers, UnLockScopeReturns(w)
        PROVE  OpenInv'
    BY <1>5 DEF UnLockScopeReturns
  <1>6. ASSUME NEW w \in Workers, Skip(w)
        PROVE  OpenInv'
    BY <1>6 DEF Skip
  <1>7. ASSUME NEW w \in Workers, StartReading(w)
        PROVE  OpenInv'
    BY <1>7 DEF StartReading
  <1>8. ASSUME NEW w \in Workers, Open(w)
        PROVE  OpenInv'
    BY <1>8 DEF Open
  <1>9. ASSUME NEW w \in Workers, OpenFails(w)
        PROVE  OpenInv'
    BY <1>9 DEF OpenFails
  <1>10. ASSUME NEW w \in Workers, Read(w)
        PROVE  OpenInv'
    BY <1>10 DEF Read
  <1>11. ASSUME NEW w \in Workers, ReadFails(w)
        PROVE  OpenInv'
    BY <1>11 DEF ReadFails
  <1>12. ASSUME NEW w \in Workers, Compressed(w)
        PROVE  OpenInv'
    BY <1>12 DEF Compressed
  <1>13. ASSUME NEW w \in Workers, NotCompressed(w)
        PROVE  OpenInv'
    BY <1>13 DEF NotCompressed
  <1>14. ASSUME NEW w \in Workers, Rewritten(w)
        PROVE  OpenInv'
    BY <1>14 DEF Rewritten
  <1>15. ASSUME NEW w \in Workers, Verify(w)
        PROVE  OpenInv'
    BY <1>15 DEF Verify
  <1>16. ASSUME NEW w \in Workers, Close(w)
        PROVE  OpenInv'
    BY <1>16 DEF Close
  <1>17. ASSUME NEW w \in Workers, Take(w)
        PROVE  OpenInv'
    BY <1>17 DEF Take
  <1>18. ASSUME NEW w \in Workers, ReadCounter(w)
        PROVE  OpenInv'
    BY <1>18 DEF ReadCounter
  <1>19. ASSUME NEW w \in Workers, WriteCounter(w)
        PROVE  OpenInv'
    BY <1>19 DEF WriteCounter
  <1>20. ASSUME NEW w \in Workers, EndFile(w)
        PROVE  OpenInv'
    BY <1>20 DEF EndFile
  <1>21. ASSUME FileArgument
        PROVE  OpenInv'
    BY <1>21 DEF FileArgument
  <1>22. ASSUME FolderArgument
        PROVE  OpenInv'
    BY <1>22 DEF FolderArgument
  <1>23. ASSUME WalkFile
        PROVE  OpenInv'
    BY <1>23 DEF WalkFile
  <1>24. ASSUME EndFolder
        PROVE  OpenInv'
    BY <1>24 DEF EndFolder
  <1>25. ASSUME StartRun
        PROVE  OpenInv'
    BY <1>25 DEF StartRun
  <1>26. ASSUME RunReturns
        PROVE  OpenInv'
    BY <1>26 DEF RunReturns
  <1>27. ASSUME Quit
        PROVE  OpenInv'
    BY <1>27 DEF Quit
  <1>28. ASSUME Stopped
        PROVE  OpenInv'
    BY <1>28 DEF Stopped, vars
  <1>29. ASSUME NEW w \in Workers, CountFails(w)
        PROVE  OpenInv'
    BY <1>29 DEF CountFails
  <1> HIDE DEF ioVars, options, lock, Goto, ScopeLock, ScopeUnlock, ScopeDestroyed,
             IoType, OpenInv
  <1>30. QED
    BY <1>1, <1>2, <1>3, <1>4, <1>5, <1>6, <1>7, <1>8, <1>9, <1>10, <1>11, <1>12,
       <1>13, <1>14, <1>15, <1>16, <1>17, <1>18, <1>19, <1>20, <1>21, <1>22,
       <1>23, <1>24, <1>25, <1>26, <1>27, <1>28, <1>29
       DEF Next, MainStep, WorkerStep, Compress, CompressStep
-----------------------------------------------------------------------------
(* The queue as a set.                                                      *)

LEMMA AddedElement ==
    ASSUME NEW S, NEW q \in Seq(S), NEW e \in S
    PROVE  /\ Append(q, e) \in Seq(S)
           /\ Elements(Append(q, e)) = Elements(q) \cup {e}
           /\ Distinct(q) /\ e \notin Elements(q) => Distinct(Append(q, e))
  <1>1. Append(q, e) \in Seq(S) /\ Len(Append(q, e)) = Len(q) + 1 /\ Len(q) \in Nat
    OBVIOUS
  <1>2. /\ \A k \in 1 .. Len(q) : Append(q, e)[k] = q[k]
        /\ Append(q, e)[Len(q) + 1] = e
    OBVIOUS
  <1>3. Elements(Append(q, e)) = Elements(q) \cup {e}
    BY <1>1, <1>2 DEF Elements
  <1>4. Distinct(q) /\ e \notin Elements(q) => Distinct(Append(q, e))
    BY <1>1, <1>2 DEF Elements, Distinct
  <1>5. QED
    BY <1>1, <1>3, <1>4

\* Taken from the front ...
LEMMA FirstTaken ==
    ASSUME NEW S, NEW q \in Seq(S), q # <<>>
    PROVE  /\ Head(q) \in S /\ Tail(q) \in Seq(S)
           /\ Elements(q) = Elements(Tail(q)) \cup {Head(q)}
           /\ Distinct(q) => Distinct(Tail(q)) /\ Head(q) \notin Elements(Tail(q))
  <1>1. /\ Head(q) = q[1] /\ Head(q) \in S /\ Tail(q) \in Seq(S)
        /\ Len(q) \in Nat \ {0} /\ Len(Tail(q)) = Len(q) - 1
    OBVIOUS
  <1>2. \A k \in 1 .. Len(q) - 1 : Tail(q)[k] = q[k + 1]
    BY <1>1
  <1>3. Elements(q) = Elements(Tail(q)) \cup {Head(q)}
    <2>1. \A k \in 2 .. Len(q) : k - 1 \in 1 .. Len(q) - 1 /\ q[k] = Tail(q)[k - 1]
      BY <1>1, <1>2
    <2>2. QED
      BY <1>1, <1>2, <2>1 DEF Elements
  <1>4. Distinct(q) => Distinct(Tail(q)) /\ Head(q) \notin Elements(Tail(q))
    BY <1>1, <1>2 DEF Elements, Distinct
  <1>5. QED
    BY <1>1, <1>3, <1>4

\* ... and from the rear.
LEMMA LastTaken ==
    ASSUME NEW S, NEW q \in Seq(S), q # <<>>
    PROVE  LET front == SubSeq(q, 1, Len(q) - 1)
           IN  /\ q[Len(q)] \in S /\ front \in Seq(S)
               /\ Elements(q) = Elements(front) \cup {q[Len(q)]}
               /\ Distinct(q) => Distinct(front) /\ q[Len(q)] \notin Elements(front)
  <1> DEFINE front == SubSeq(q, 1, Len(q) - 1)
  <1>1. Len(q) \in Nat \ {0} /\ q[Len(q)] \in S
    OBVIOUS
  <1>2. /\ front \in Seq(S)
        /\ Len(front) = IF 1 <= Len(q) - 1 THEN Len(q) - 1 - 1 + 1 ELSE 0
        /\ \A k \in 1 .. Len(q) - 1 - 1 + 1 : front[k] = q[1 + k - 1]
    <2>1. 1 \in Int /\ Len(q) - 1 \in Int /\ \A k \in 1 .. Len(q) - 1 : q[k] \in S
      BY <1>1
    <2>2. QED
      BY <2>1, SubSeqProperties
  <1> HIDE DEF front
  <1>3. front \in Seq(S) /\ Len(front) = Len(q) - 1 /\ \A k \in 1 .. Len(q) - 1 : front[k] = q[k]
    <2>1. \A n \in Nat \ {0} : /\ n - 1 - 1 + 1 = n - 1 /\ (1 <= n - 1 \/ n - 1 = 0)
                               /\ \A k \in 1 .. n - 1 : 1 + k - 1 = k
      OBVIOUS
    <2>2. /\ Len(q) - 1 - 1 + 1 = Len(q) - 1 /\ (1 <= Len(q) - 1 \/ Len(q) - 1 = 0)
          /\ \A k \in 1 .. Len(q) - 1 : 1 + k - 1 = k
      BY <1>1, <2>1
    <2>3. QED
      BY <1>2, <2>2
  <1>4. Elements(q) = Elements(front) \cup {q[Len(q)]}
    BY <1>1, <1>2, <1>3 DEF Elements
  <1>5. Distinct(q) => Distinct(front) /\ q[Len(q)] \notin Elements(front)
    BY <1>1, <1>2, <1>3 DEF Elements, Distinct
  <1>6. QED
    BY <1>1, <1>2, <1>4, <1>5 DEF front

\* Sorting neither loses nor repeats a file.
LEMMA SortedElements ==
    ASSUME NEW S, NEW q \in Seq(S), NEW s \in Sorted(q)
    PROVE  s \in Seq(S) /\ Elements(s) = Elements(q) /\ (Distinct(q) => Distinct(s))
  <1>1. PICK b \in Bijection(DOMAIN q, DOMAIN q) : s = [k \in DOMAIN q |-> q[b[k]]]
    BY DEF Sorted
  <1>2. Len(q) \in Nat /\ DOMAIN q = 1 .. Len(q)
    OBVIOUS
  <1>3. /\ b \in [1 .. Len(q) -> 1 .. Len(q)]
        /\ \A j, k \in 1 .. Len(q) : b[j] = b[k] => j = k
        /\ \A k \in 1 .. Len(q) : \E j \in 1 .. Len(q) : b[j] = k
    BY <1>2 DEF Bijection, Injection, Surjection, IsInjective
  <1>4. s \in [1 .. Len(q) -> S] /\ \A k \in 1 .. Len(q) : s[k] = q[b[k]]
    BY <1>1, <1>2, <1>3
  <1>5. s \in Seq(S) /\ Len(s) = Len(q)
    BY <1>2, <1>4
  <1> DEFINE I == 1 .. Len(q)
  <1>6. /\ \A k \in I : b[k] \in I /\ s[k] = q[b[k]]
        /\ \A k \in I : \E j \in I : b[j] = k
        /\ \A j, k \in I : b[j] = b[k] => j = k
    BY <1>3, <1>4
  <1>7. /\ Elements(s) = {s[k] : k \in I} /\ Elements(q) = {q[k] : k \in I}
        /\ Distinct(s) <=> \A j, k \in I : s[j] = s[k] => j = k
        /\ Distinct(q) <=> \A j, k \in I : q[j] = q[k] => j = k
    BY <1>5 DEF Elements, Distinct
  <1> HIDE DEF I
  <1>8. Elements(s) = Elements(q)
    <2>1. ASSUME NEW k \in I
          PROVE  s[k] \in {q[j] : j \in I} /\ q[k] \in {s[j] : j \in I}
      <3>1. PICK j \in I : b[j] = k
        BY <1>6
      <3>2. s[k] = q[b[k]] /\ b[k] \in I /\ q[k] = s[j]
        BY <1>6, <3>1
      <3>3. QED
        BY <3>2
    <2>2. QED
      BY <1>7, <2>1
  <1>9. Distinct(q) => Distinct(s)
    BY <1>6, <1>7
  <1>10. QED
    BY <1>5, <1>8, <1>9
-----------------------------------------------------------------------------
(* Filling the queue.                                                       *)

LEMMA Arguments ==
    ASSUME MainType
    PROVE  /\ args \in Seq([folder : BOOLEAN, paths : Seq(Paths)])
           /\ Len(args) \in Nat /\ DOMAIN args = 1 .. Len(args)
           /\ \A a \in 1 .. Len(args) :
                /\ args[a].folder \in BOOLEAN
                /\ args[a].paths \in Seq(Paths)
                /\ Len(args[a].paths) \in Nat \ {0}
                /\ DOMAIN args[a].paths = 1 .. Len(args[a].paths)
                /\ \A k \in 1 .. Len(args[a].paths) : args[a].paths[k] \in Paths
                /\ ~args[a].folder => Len(args[a].paths) = 1
  <1>1. args \in Seq([folder : BOOLEAN, paths : Seq(Paths)])
    BY DriverAssumption DEF MainType
  <1>2. Len(args) \in Nat /\ DOMAIN args = 1 .. Len(args)
    BY <1>1
  <1>3. ASSUME NEW a \in 1 .. Len(args)
        PROVE  /\ args[a].folder \in BOOLEAN
               /\ args[a].paths \in Seq(Paths)
               /\ Len(args[a].paths) > 0
               /\ ~args[a].folder => Len(args[a].paths) = 1
    <2>1. args[a] \in [folder : BOOLEAN, paths : Seq(Paths)]
      BY <1>1, ElementOfSeq
    <2>2. Len(args[a].paths) > 0 /\ (args[a].folder \/ Len(args[a].paths) = 1)
      BY <1>2, DriverAssumption DEF MainType
    <2>3. QED
      BY <2>1, <2>2
  <1>4. \A q \in Seq(Paths) :
          /\ Len(q) \in Nat /\ DOMAIN q = 1 .. Len(q)
          /\ \A k \in 1 .. Len(q) : q[k] \in Paths
    OBVIOUS
  <1>5. QED
    BY <1>1, <1>2, <1>3, <1>4

\* What PreProcess() adds to the queue.
Joins(p) == IF p \in Compressable THEN {p} ELSE {}

LEMMA PreProcessed ==
    ASSUME MainType, ListInv, Scanning, NEW p \in Paths, PreProcess(p)
    PROVE  /\ itemList' \in Seq(Paths)
           /\ Elements(itemList') = Elements(itemList) \cup Joins(p)
           /\ Distinct(itemList')
           /\ itemForName' = Elements(itemList')
  <1>1. itemList \in Seq(Paths) /\ Distinct(itemList) /\ itemForName = Elements(itemList)
    BY DEF MainType, ListInv
  <1>2. CASE p \in Compressable /\ p \notin itemForName
    <2>1. itemList' = Append(itemList, p) /\ itemForName' = itemForName \cup {p}
      BY <1>2 DEF PreProcess, AddFile
    <2>2. /\ itemList' \in Seq(Paths)
          /\ Elements(itemList') = Elements(itemList) \cup {p}
          /\ Distinct(itemList')
      BY <1>1, <1>2, <2>1, AddedElement
    <2>3. QED
      BY <1>1, <1>2, <2>1, <2>2 DEF Joins
  <1>3. CASE p \notin Compressable \/ p \in itemForName
    BY <1>1, <1>3 DEF PreProcess, AddFile, Joins
  <1>4. QED
    BY <1>2, <1>3

\* What main() holds.
LEMMA MainTypeStep ==
    ASSUME MainType, WalkInv, ListInv, Next
    PROVE  MainType'
  <1> USE IoAssumption
         DEF ioVars, options, lock, scanVars, queueVars, statVars, MainType
  <1>1. ASSUME NEW w \in Workers, Compress(w)
        PROVE  MainType'
    BY <1>1 DEF Compress
  <1>2. ASSUME NEW w \in Workers, Take(w)
        PROVE  MainType'
    <2>1. itemList' \in Seq(Paths)
      BY <1>2, FirstTaken, LastTaken DEF Take
    <2>2. QED
      BY <1>2, <2>1 DEF Take
  <1>3. ASSUME NEW w \in Workers, ReadCounter(w)
        PROVE  MainType'
    BY <1>3 DEF ReadCounter
  <1>4. ASSUME NEW w \in Workers, WriteCounter(w)
        PROVE  MainType'
    BY <1>4 DEF WriteCounter
  <1>5. ASSUME NEW w \in Workers, EndFile(w)
        PROVE  MainType'
    BY <1>5 DEF EndFile
  <1>6. ASSUME FileArgument
        PROVE  MainType'
    <2>1. args[arg].paths[1] \in Paths /\ arg \in 1 .. Len(args) /\ Scanning
      BY <1>6, Arguments DEF FileArgument, MainType, Scanning
    <2>2. itemList' \in Seq(Paths)
      BY <1>6, <2>1, PreProcessed DEF FileArgument
    <2>3. QED
      BY <1>6, <2>1, <2>2, Arguments DEF FileArgument
  <1>7. ASSUME FolderArgument
        PROVE  MainType'
    <2>1. args[arg].paths \in Seq(Paths)
      BY <1>7, Arguments DEF FolderArgument
    <2>2. QED
      BY <1>7, <2>1 DEF FolderArgument
  <1>8. ASSUME WalkFile
        PROVE  MainType'
    <2>1. Scanning /\ Head(walk) \in Paths /\ Tail(walk) \in Seq(Paths)
      BY <1>8, FirstTaken DEF WalkFile, Scanning
    <2>2. itemList' \in Seq(Paths)
      BY <1>8, <2>1, PreProcessed DEF WalkFile
    <2>3. ino2PathMap' \in [Range(Inode) -> Paths \cup {NoPath}]
      BY <1>8, <2>1 DEF WalkFile
    <2>4. QED
      BY <1>8, <2>1, <2>2, <2>3 DEF WalkFile
  <1>9. ASSUME EndFolder
        PROVE  MainType'
    <2>1. ino2PathMap' \in [Range(Inode) -> Paths \cup {NoPath}]
      BY <1>9 DEF EndFolder, LinksAfterFolder, NoLinks
    <2>2. arg' \in 1 .. Len(args) + 1
      BY <1>9, Arguments DEF EndFolder, WalkInv
    <2>3. QED
      BY <1>9, <2>1, <2>2 DEF EndFolder
  <1>10. ASSUME StartRun
        PROVE  MainType'
    <2>1. itemList' \in Seq(Paths)
      BY <1>10, SortedElements DEF StartRun
    <2>2. Len(itemList) \in Nat
      OBVIOUS
    <2>3. nJobs' \in Nat /\ nReverse' \in Nat
      BY <1>10, <2>2 DEF StartRun
    <2>4. QED
      BY <1>10, <2>1, <2>3 DEF StartRun
  <1>11. ASSUME RunReturns
        PROVE  MainType'
    BY <1>11 DEF RunReturns
  <1>12. ASSUME Quit
        PROVE  MainType'
    BY <1>12 DEF Quit
  <1>13. ASSUME Stopped
        PROVE  MainType'
    BY <1>13 DEF Stopped, vars
  <1>14. ASSUME NEW w \in Workers, CountFails(w)
        PROVE  MainType'
    BY <1>14 DEF CountFails
  <1> HIDE DEF ioVars, options, lock, scanVars, queueVars, statVars, MainType
  <1>15. QED
    BY <1>1, <1>2, <1>3, <1>4, <1>5, <1>6, <1>7, <1>8, <1>9, <1>10, <1>11, <1>12,
       <1>13, <1>14
       DEF Next, MainStep, WorkerStep
\* Most steps leave alone what main() has met and queued.
Quiet ==
    /\ UNCHANGED <<scanVars, started>>
    /\ Scanning' = Scanning /\ (mpc' = "walk") = (mpc = "walk")
    /\ Scanning => UNCHANGED <<itemList, itemForName>>

LEMMA QuietStep ==
    ASSUME FilesInv, Next
    PROVE  Quiet \/ FileArgument \/ FolderArgument \/ WalkFile \/ EndFolder \/ StartRun
  <1> USE DEF queueVars, statVars, scanVars, Quiet, Scanning, Goto
  <1>1. ASSUME NEW w \in Workers, WorkerStep(w)
        PROVE  Quiet
    <2>1. ASSUME Take(w)
          PROVE  Quiet
      BY <2>1 DEF Take
    <2>2. ASSUME Compress(w)
          PROVE  Quiet
      BY <2>2 DEF Compress
    <2>3. ASSUME ReadCounter(w)
          PROVE  Quiet
      BY <2>3 DEF ReadCounter
    <2>4. ASSUME WriteCounter(w)
          PROVE  Quiet
      BY <2>4 DEF WriteCounter
    <2>5. ASSUME EndFile(w)
          PROVE  Quiet
      <3>1. ~Scanning
        BY <2>5 DEF EndFile, FilesInv, Busy
      <3>2. QED
        BY <2>5, <3>1 DEF EndFile
    <2>6. ASSUME CountFails(w)
          PROVE  Quiet
      BY <2>6 DEF CountFails
    <2>7. QED
      BY <1>1, <2>1, <2>2, <2>3, <2>4, <2>5, <2>6 DEF WorkerStep
  <1>2. ASSUME RunReturns \/ Quit \/ Stopped
        PROVE  Quiet
    BY <1>2 DEF RunReturns, Quit, Stopped, vars
  <1> HIDE DEF queueVars, statVars, scanVars, Quiet, Scanning
  <1>3. QED
    BY <1>1, <1>2 DEF Next, MainStep

LEMMA QuietChosen ==
    ASSUME Quiet
    PROVE  /\ UNCHANGED <<args, arg, walk, check_hard_links, ino2PathMap, started>>
           /\ Chosen' = Chosen /\ Scanning' = Scanning /\ (mpc' = "walk") = (mpc = "walk")
           /\ Scanning => UNCHANGED <<itemList, itemForName>>
  BY DEF Quiet, Chosen, scanVars

\* What each of the others queues
LEMMA FileChosen ==
    ASSUME MainType, WalkInv, ListInv, FileArgument
    PROVE  /\ arg \in 1 .. Len(args) /\ args[arg].paths[1] \in Paths
           /\ ~args[arg].folder /\ Len(args[arg].paths) = 1
           /\ Chosen' = Chosen \cup Joins(args[arg].paths[1])
           /\ Scanning /\ Scanning' /\ Distinct(itemList') /\ itemForName' = Elements(itemList')
           /\ mpc = "args" /\ mpc' = "args" /\ arg' = arg + 1
           /\ UNCHANGED <<args, walk, check_hard_links, ino2PathMap, started>>
  <1>1. /\ arg \in 1 .. Len(args) /\ mpc = "args" /\ mpc' = "args" /\ arg' = arg + 1
        /\ ~args[arg].folder /\ PreProcess(args[arg].paths[1])
        /\ UNCHANGED <<args, walk, check_hard_links, ino2PathMap, started>>
    BY Arguments DEF FileArgument, MainType
  <1>2. args[arg].paths[1] \in Paths /\ Len(args[arg].paths) = 1 /\ Scanning /\ Scanning'
    <2>1. /\ Len(args[arg].paths) = 1
          /\ \A k \in 1 .. Len(args[arg].paths) : args[arg].paths[k] \in Paths
      BY <1>1, Arguments
    <2>2. QED
      BY <1>1, <2>1 DEF Scanning
  <1>3. QED
    BY <1>1, <1>2, PreProcessed DEF Chosen

LEMMA WalkChosen ==
    ASSUME MainType, WalkInv, ListInv, WalkFile
    PROVE  /\ arg \in 1 .. Len(args) /\ args[arg].folder /\ Len(args[arg].paths) \in Nat
           /\ Len(walk) \in 1 .. Len(args[arg].paths)
           /\ Head(walk) = args[arg].paths[Len(args[arg].paths) - Len(walk) + 1]
           /\ Head(walk) \in Paths /\ InFolder(args[arg], Head(walk))
           /\ Chosen' = Chosen \cup (IF IsHardLink(Head(walk)) THEN {} ELSE Joins(Head(walk)))
           /\ Scanning /\ Scanning' /\ Distinct(itemList') /\ itemForName' = Elements(itemList')
           /\ mpc = "walk" /\ mpc' = "walk" /\ walk' = Tail(walk)
           /\ UNCHANGED <<args, arg, check_hard_links, started>>
  <1>1. /\ mpc = "walk" /\ mpc' = "walk" /\ walk # <<>> /\ walk' = Tail(walk)
        /\ IF IsHardLink(Head(walk)) THEN UNCHANGED <<itemList, itemForName>>
                                     ELSE PreProcess(Head(walk))
        /\ UNCHANGED <<args, arg, check_hard_links, started>>
    BY DEF WalkFile
  <1>2. /\ arg \in 1 .. Len(args) /\ args[arg].folder /\ Len(args[arg].paths) \in Nat
        /\ Len(walk) <= Len(args[arg].paths)
        /\ \A j \in 1 .. Len(walk) :
             walk[j] = args[arg].paths[Len(args[arg].paths) - Len(walk) + j]
    BY <1>1, Arguments DEF WalkInv, MainType
  <1>3. Len(walk) \in Nat \ {0} /\ Head(walk) = walk[1] /\ Head(walk) \in Paths
    BY <1>1 DEF MainType
  <1>4. Head(walk) = args[arg].paths[Len(args[arg].paths) - Len(walk) + 1]
    BY <1>2, <1>3
  <1>5. InFolder(args[arg], Head(walk))
    <2>1. Len(args[arg].paths) - Len(walk) + 1 \in DOMAIN args[arg].paths
      BY <1>2, <1>3, Arguments
    <2>2. QED
      BY <1>4, <2>1 DEF InFolder
  <1>6. Scanning /\ Scanning' /\ Distinct(itemList) /\ itemForName = Elements(itemList)
    BY <1>1 DEF Scanning, ListInv
  <1>7. CASE IsHardLink(Head(walk))
    <2>1. itemList' = itemList /\ itemForName' = itemForName
      BY <1>1, <1>7
    <2>2. QED
      BY <1>1, <1>2, <1>3, <1>4, <1>5, <1>6, <1>7, <2>1 DEF Chosen
  <1>8. CASE ~IsHardLink(Head(walk))
    <2>1. PreProcess(Head(walk))
      BY <1>1, <1>8
    <2>2. /\ Elements(itemList') = Elements(itemList) \cup Joins(Head(walk))
          /\ Distinct(itemList') /\ itemForName' = Elements(itemList')
      BY <1>3, <1>6, <2>1, PreProcessed
    <2>3. QED
      BY <1>1, <1>2, <1>3, <1>4, <1>5, <1>6, <1>8, <2>2 DEF Chosen
  <1>9. QED
    BY <1>7, <1>8

LEMMA FolderChosen ==
    ASSUME MainType, FolderArgument \/ EndFolder
    PROVE  /\ UNCHANGED <<args, check_hard_links, started, itemList, itemForName>>
           /\ Chosen' = Chosen /\ Scanning /\ Scanning'
  BY DEF FolderArgument, EndFolder, queueVars, Chosen, Scanning

LEMMA RunChosen ==
    ASSUME MainType, ListInv, StartRun
    PROVE  /\ UNCHANGED <<args, arg, walk, check_hard_links, ino2PathMap, itemForName>>
           /\ Chosen' = Chosen /\ Distinct(itemList') /\ started' = itemList'
           /\ Elements(itemList') = Elements(itemList)
           /\ Scanning /\ ~Scanning' /\ mpc = "args" /\ mpc' \in {"run", "nothing"}
           /\ arg > Len(args)
  <1>1. /\ UNCHANGED <<args, arg, walk, check_hard_links, ino2PathMap, itemForName>>
        /\ itemList' \in IF sortQueue THEN Sorted(itemList) ELSE {itemList}
        /\ started' = itemList' /\ mpc = "args" /\ mpc' \in {"run", "nothing"}
        /\ arg > Len(args)
    BY DEF StartRun, scanVars
  <1>2. Scanning /\ ~Scanning' /\ Distinct(itemList) /\ itemList \in Seq(Paths)
    BY <1>1 DEF Scanning, ListInv, MainType
  <1>3. Elements(itemList') = Elements(itemList) /\ Distinct(itemList')
    BY <1>1, <1>2, SortedElements
  <1>4. QED
    BY <1>1, <1>2, <1>3 DEF Chosen

LEMMA WalkStep ==
    ASSUME MainType, WalkInv, ListInv, FilesInv, Next
    PROVE  WalkInv'
  <1>1. CASE Quiet
    BY <1>1, QuietChosen DEF WalkInv
  <1>2. CASE FileArgument
    BY <1>2, FileChosen DEF WalkInv
  <1>3. CASE FolderArgument
    <2>1. /\ arg \in 1 .. Len(args) /\ args[arg].folder /\ walk' = args[arg].paths
          /\ UNCHANGED <<args, arg>> /\ Len(args[arg].paths) \in Nat /\ Scanning'
      BY <1>3, Arguments DEF FolderArgument, MainType, Scanning
    <2>2. QED
      BY <2>1 DEF WalkInv
  <1>4. CASE WalkFile
    <2> DEFINE L == Len(args[arg].paths)
    <2>1. /\ arg \in 1 .. Len(args) /\ args[arg].folder /\ Scanning'
          /\ UNCHANGED <<args, arg>> /\ walk' = Tail(walk) /\ mpc = "walk"
          /\ L \in Nat /\ Len(walk) \in 1 .. L
      BY <1>4, WalkChosen
    <2>2. Len(walk') = Len(walk) - 1 /\ \A j \in 1 .. Len(walk) - 1 : walk'[j] = walk[j + 1]
      BY <2>1 DEF MainType
    <2>3. \A j \in 1 .. Len(walk) : walk[j] = args[arg].paths[L - Len(walk) + j]
      BY <2>1 DEF WalkInv
    <2>4. Len(walk) \in Nat
      BY <2>1
    <2> HIDE DEF L
    <2>5. \A j \in 1 .. Len(walk) - 1 :
            j + 1 \in 1 .. Len(walk) /\ L - Len(walk) + (j + 1) = L - (Len(walk) - 1) + j
      BY <2>1, <2>4
    <2>6. \A j \in 1 .. Len(walk') : walk'[j] = args[arg].paths[L - Len(walk') + j]
      BY <2>2, <2>3, <2>5
    <2>7. Len(walk') <= L
      BY <2>1, <2>2
    <2>8. QED
      BY <2>1, <2>6, <2>7 DEF WalkInv, L
  <1>5. CASE EndFolder
    BY <1>5 DEF WalkInv, EndFolder, Scanning
  <1>6. CASE StartRun
    BY <1>6, RunChosen DEF WalkInv
  <1>7. QED
    BY <1>1, <1>2, <1>3, <1>4, <1>5, <1>6, QuietStep

LEMMA ListStep ==
    ASSUME MainType, WalkInv, ListInv, FilesInv, Next
    PROVE  ListInv'
  <1>1. CASE Quiet
    BY <1>1, QuietChosen DEF ListInv
  <1>2. CASE FileArgument
    BY <1>2, FileChosen DEF ListInv, Joins
  <1>3. CASE FolderArgument \/ EndFolder
    BY <1>3, FolderChosen DEF ListInv
  <1>4. CASE WalkFile
    BY <1>4, WalkChosen DEF ListInv, Joins
  <1>5. CASE StartRun
    BY <1>5, RunChosen DEF ListInv
  <1>6. QED
    BY <1>1, <1>2, <1>3, <1>4, <1>5, QuietStep
LEMMA CoverKept ==
    ASSUME UNCHANGED <<args, check_hard_links>>, Chosen \subseteq Chosen',
           NEW a, NEW p, Covered(a, p)
    PROVE  Covered(a, p)'
  BY DEF Covered

LEMMA CoverNew ==
    ASSUME NEW a, NEW p, p \in Compressable => p \in Chosen'
    PROVE  Covered(a, p)'
  BY DEF Covered

LEMMA CoverStep ==
    ASSUME MainType, WalkInv, ListInv, LinkInv, CoverInv, FilesInv, Next
    PROVE  CoverInv'
  <1>1. CASE Quiet
    BY <1>1, QuietChosen, CoverKept DEF CoverInv
  <1>2. CASE FileArgument
    <2> DEFINE p == args[arg].paths[1]
    <2>1. /\ Chosen' = Chosen \cup Joins(p) /\ Len(args[arg].paths) = 1
          /\ UNCHANGED <<args, check_hard_links>> /\ arg' = arg + 1 /\ mpc' = "args"
      BY <1>2, FileChosen
    <2>2. p \in Compressable => p \in Chosen'
      BY <2>1 DEF Joins
    <2>3. ASSUME NEW a \in DOMAIN args, NEW k \in DOMAIN args[a].paths, a < arg',
                 NEW q, q = args[a].paths[k]
          PROVE  Covered(a, q)'
      <3>1. CASE a < arg
        BY <3>1, <2>1, <2>3, CoverKept DEF CoverInv
      <3>2. CASE a = arg
        <4>1. k = 1
          BY <3>2, <2>1, Arguments
        <4>2. q = p
          BY <3>2, <4>1, <2>3
        <4> HIDE DEF p
        <4>3. QED
          BY <4>2, <2>2, CoverNew
      <3>3. QED
        BY <2>1, <2>3, <3>1, <3>2, Arguments DEF MainType
    <2>4. QED
      BY <2>1, <2>3 DEF CoverInv
  <1>3. CASE FolderArgument
    <2>1. /\ UNCHANGED <<args, check_hard_links, arg>> /\ Chosen' = Chosen
          /\ walk' = args[arg].paths /\ arg \in 1 .. Len(args) /\ mpc' = "walk"
      BY <1>3, FolderChosen DEF FolderArgument, MainType
    <2>2. ASSUME NEW a \in DOMAIN args, NEW k \in DOMAIN args[a].paths,
                 \/ a < arg
                 \/ a = arg /\ k <= Len(args[a].paths) - Len(walk')
          PROVE  a < arg
      <3>1. CASE a = arg
        <4>1. Len(args[a].paths) - Len(walk') = 0 /\ k >= 1
          BY <3>1, <2>1, Arguments
        <4>2. QED
          BY <3>1, <2>2, <4>1
      <3>2. QED
        BY <2>2, <3>1
    <2>3. QED
      BY <2>1, <2>2, CoverKept DEF CoverInv
  <1>4. CASE WalkFile
    <2> DEFINE p == Head(walk)
               L == Len(args[arg].paths)
    <2>1. /\ UNCHANGED <<args, check_hard_links, arg>> /\ arg \in 1 .. Len(args)
          /\ Chosen' = Chosen \cup (IF IsHardLink(p) THEN {} ELSE Joins(p))
          /\ L \in Nat /\ Len(walk) \in 1 .. L /\ p = args[arg].paths[L - Len(walk) + 1]
          /\ p \in Paths /\ mpc = "walk" /\ mpc' = "walk" /\ walk' = Tail(walk)
      BY <1>4, WalkChosen
    <2>2. ASSUME NEW a, NEW q, a = arg, q = p
          PROVE  Covered(a, q)'
      <3>1. CASE ~IsHardLink(p)
        <4>1. q \in Compressable => q \in Chosen'
          BY <3>1, <2>1, <2>2 DEF Joins
        <4>2. QED
          BY <4>1, CoverNew
      <3>2. CASE IsHardLink(p)
        <4> DEFINE m == ino2PathMap[Inode[p]]
        <4>1. check_hard_links /\ m # NoPath /\ m # p
          BY <3>2 DEF IsHardLink
        <4>2. m \in Paths
          BY <2>1, <4>1, IoAssumption DEF MainType, Range
        <4>3. Inode[m] = Inode[p] /\ InFolder(args[arg], m) /\ (m \in Compressable => m \in Chosen)
          BY <2>1, <4>1 DEF LinkInv
        <4>4. p \in Compressable => m \in Compressable
          BY <2>1, <4>2, <4>3, DriverAssumption
        <4> HIDE DEF m, p
        <4>5. Covered(a, q)
          BY <2>2, <4>1, <4>2, <4>3, <4>4 DEF Covered
        <4>6. QED
          BY <2>1, <4>5, CoverKept
      <3>3. QED
        BY <3>1, <3>2
    <2>3. Len(walk') = Len(walk) - 1 /\ Len(walk) \in Nat
      BY <2>1 DEF MainType
    <2> HIDE DEF p
    <2>4. ASSUME NEW a \in DOMAIN args, NEW k \in DOMAIN args[a].paths,
                 a < arg \/ (a = arg /\ k <= Len(args[a].paths) - Len(walk')),
                 NEW q, q = args[a].paths[k]
          PROVE  Covered(a, q)'
      <3>1. CASE a < arg
        BY <3>1, <2>1, <2>4, CoverKept DEF CoverInv
      <3>2. CASE a = arg /\ k <= L - Len(walk)
        BY <3>2, <2>1, <2>4, CoverKept DEF CoverInv
      <3>3. CASE a = arg /\ k = L - Len(walk) + 1
        BY <3>3, <2>1, <2>2, <2>4
      <3>4. k \in Nat /\ a \in Nat /\ arg \in Nat
        BY <2>1, Arguments
      <3>5. ASSUME a = arg
            PROVE  k <= L - Len(walk) \/ k = L - Len(walk) + 1
        <4>1. k <= L - (Len(walk) - 1)
          BY <2>1, <2>3, <2>4, <3>4, <3>5
        <4>2. \A l, n, x \in Nat : x <= l - (n - 1) => x <= l - n \/ x = l - n + 1
          OBVIOUS
        <4> HIDE DEF L
        <4>3. QED
          BY <2>1, <2>3, <3>4, <4>1, <4>2
      <3> HIDE DEF L
      <3>6. QED
        BY <2>4, <3>1, <3>2, <3>3, <3>4, <3>5
    <2>5. QED
      BY <2>1, <2>4 DEF CoverInv
  <1>5. CASE EndFolder
    <2>1. /\ UNCHANGED <<args, check_hard_links>> /\ Chosen' = Chosen
          /\ arg' = arg + 1 /\ walk = <<>> /\ mpc = "walk" /\ mpc' = "args"
      BY <1>5, FolderChosen DEF EndFolder
    <2>2. ASSUME NEW a \in DOMAIN args, NEW k \in DOMAIN args[a].paths, a < arg'
          PROVE  Covered(a, args[a].paths[k])
      <3>1. a < arg \/ a = arg
        BY <2>1, <2>2, Arguments DEF MainType
      <3>2. k <= Len(args[a].paths) - Len(walk)
        BY <2>1, Arguments
      <3>3. QED
        BY <2>1, <3>1, <3>2 DEF CoverInv
    <2>3. QED
      BY <2>1, <2>2, CoverKept DEF CoverInv
  <1>6. CASE StartRun
    BY <1>6, RunChosen, CoverKept DEF CoverInv
  <1>7. QED
    BY <1>1, <1>2, <1>3, <1>4, <1>5, <1>6, QuietStep

LEMMA LinkStep ==
    ASSUME MainType, WalkInv, ListInv, LinkInv, FilesInv, Next
    PROVE  LinkInv'
  <1>1. CASE Quiet
    BY <1>1, QuietChosen DEF LinkInv
  <1>2. CASE FileArgument
    BY <1>2, FileChosen DEF LinkInv
  <1>3. CASE FolderArgument
    <2>1. mpc' = "walk" /\ \A p \in Paths : ino2PathMap'[Inode[p]] = NoPath
      BY <1>3, IoAssumption DEF FolderArgument, LinkInv, NoLinks, Range
    <2>2. QED
      BY <2>1 DEF LinkInv
  <1>4. CASE WalkFile
    <2> DEFINE p == Head(walk)
    <2>1. /\ UNCHANGED <<args, arg>> /\ mpc = "walk" /\ mpc' = "walk"
          /\ Chosen' = Chosen \cup (IF IsHardLink(p) THEN {} ELSE Joins(p))
          /\ p \in Paths /\ InFolder(args[arg], p)
      BY <1>4, WalkChosen
    <2>2. ino2PathMap' =
            IF check_hard_links /\ Linked(p) /\ ino2PathMap[Inode[p]] = NoPath
              THEN [ino2PathMap EXCEPT ![Inode[p]] = p] ELSE ino2PathMap
      BY <1>4 DEF WalkFile
    <2> HIDE DEF p
    <2>3. ASSUME NEW q \in Paths, ino2PathMap'[Inode[q]] # NoPath
          PROVE  LET m == ino2PathMap'[Inode[q]]
                 IN  /\ Inode[m] = Inode[q] /\ InFolder(args[arg], m)
                     /\ m \in Compressable => m \in Chosen'
      <3> DEFINE m == ino2PathMap'[Inode[q]]
      <3>1. CASE ino2PathMap'[Inode[q]] = ino2PathMap[Inode[q]]
        BY <2>1, <2>3, <3>1 DEF LinkInv
      <3>2. CASE ino2PathMap'[Inode[q]] # ino2PathMap[Inode[q]]
        <4>1. /\ ino2PathMap[Inode[p]] = NoPath /\ Inode[q] = Inode[p] /\ m = p
          BY <2>1, <2>2, <3>2, IoAssumption DEF MainType, Range
        <4>2. p \in Compressable => p \in Chosen'
          BY <2>1, <4>1 DEF IsHardLink, Joins
        <4>3. QED
          BY <2>1, <4>1, <4>2
      <3>3. QED
        BY <3>1, <3>2
    <2>4. QED
      BY <2>1, <2>3 DEF LinkInv
  <1>5. CASE EndFolder
    BY <1>5 DEF EndFolder, LinksAfterFolder, LinkInv
  <1>6. CASE StartRun
    BY <1>6, RunChosen DEF LinkInv
  <1>7. QED
    BY <1>1, <1>2, <1>3, <1>4, <1>5, <1>6, QuietStep
LEMMA ChosenPaths == ASSUME ListInv PROVE Chosen \subseteq Paths
  BY DriverAssumption DEF ListInv

LEMMA KnownStep ==
    ASSUME MainType, WalkInv, ListInv, LinkInv, KnownInv, FilesInv, Next
    PROVE  KnownInv'
  <1>1. CASE Quiet
    BY <1>1, QuietChosen DEF KnownInv
  <1>2. CASE FileArgument
    <2> DEFINE p == args[arg].paths[1]
    <2>1. /\ Chosen' = Chosen \cup Joins(p) /\ Len(args[arg].paths) = 1 /\ mpc = "args"
          /\ UNCHANGED <<args, check_hard_links>> /\ arg' = arg + 1 /\ arg \in DOMAIN args
          /\ arg \in Nat
      BY <1>2, FileChosen, Arguments DEF MainType
    <2>2. InFolder(args[arg], p)
      BY <2>1, Arguments DEF InFolder
    <2> HIDE DEF p
    <2>3. ASSUME check_hard_links, NEW q \in Chosen', Linked(q)
          PROVE  \E b \in DOMAIN args : b < arg + 1 /\ InFolder(args[b], q)
      <3>1. CASE q \in Chosen
        <4>1. PICK b \in DOMAIN args : b < arg /\ InFolder(args[b], q)
          BY <2>1, <2>3, <3>1 DEF KnownInv
        <4>2. b \in Nat
          BY Arguments
        <4>3. QED
          BY <2>1, <4>1, <4>2
      <3>2. CASE q = p
        BY <2>1, <2>2, <3>2
      <3>3. QED
        BY <2>1, <2>3, <3>1, <3>2 DEF Joins
    <2>4. QED
      BY <2>1, <2>3 DEF KnownInv
  <1>3. CASE FolderArgument
    <2>1. UNCHANGED <<args, check_hard_links, arg>> /\ Chosen' = Chosen /\ mpc = "args"
      BY <1>3, FolderChosen DEF FolderArgument
    <2>2. QED
      BY <2>1 DEF KnownInv
  <1>4. CASE WalkFile
    <2> DEFINE p == Head(walk)
    <2>1. /\ UNCHANGED <<args, arg, check_hard_links>> /\ mpc = "walk" /\ mpc' = "walk"
          /\ Chosen' = Chosen \cup (IF IsHardLink(p) THEN {} ELSE Joins(p)) /\ p \in Paths
      BY <1>4, WalkChosen
    <2>2. ino2PathMap' =
            IF check_hard_links /\ Linked(p) /\ ino2PathMap[Inode[p]] = NoPath
              THEN [ino2PathMap EXCEPT ![Inode[p]] = p] ELSE ino2PathMap
      BY <1>4 DEF WalkFile
    <2> HIDE DEF p
    <2>3. ASSUME check_hard_links, NEW q \in Chosen', Linked(q)
          PROVE  \/ \E b \in DOMAIN args : b < arg /\ InFolder(args[b], q)
                 \/ ino2PathMap'[Inode[q]] = q
      <3>1. CASE q \in Chosen
        <4>1. CASE ino2PathMap[Inode[q]] = q
          <5>1. q \in Paths
            BY <3>1, ChosenPaths
          <5>2. QED
            BY <2>1, <2>2, <4>1, <5>1, IoAssumption DEF MainType, Range
        <4>2. QED
          BY <2>1, <2>3, <3>1, <4>1 DEF KnownInv
      <3>2. CASE q = p /\ ~IsHardLink(p)
        BY <2>1, <2>2, <2>3, <3>2, IoAssumption DEF IsHardLink, MainType, Range
      <3>3. QED
        BY <2>1, <2>3, <3>1, <3>2 DEF Joins
    <2>4. QED
      BY <2>1, <2>3 DEF KnownInv
  <1>5. CASE EndFolder
    <2>1. /\ UNCHANGED <<args, check_hard_links>> /\ Chosen' = Chosen
          /\ arg' = arg + 1 /\ mpc = "walk" /\ arg \in DOMAIN args /\ arg \in Nat
      BY <1>5, FolderChosen, Arguments DEF EndFolder, WalkInv, MainType
    <2>2. ASSUME check_hard_links, NEW q \in Chosen, Linked(q)
          PROVE  \E b \in DOMAIN args : b < arg + 1 /\ InFolder(args[b], q)
      <3>1. CASE \E b \in DOMAIN args : b < arg /\ InFolder(args[b], q)
        <4>1. PICK b \in DOMAIN args : b < arg /\ InFolder(args[b], q)
          BY <3>1
        <4>2. b \in Nat
          BY Arguments
        <4>3. QED
          BY <2>1, <4>1, <4>2
      <3>2. CASE ino2PathMap[Inode[q]] = q
        <4>1. q \in Paths /\ q # NoPath
          BY ChosenPaths, IoAssumption
        <4>2. InFolder(args[arg], q)
          BY <2>1, <3>2, <4>1 DEF LinkInv
        <4>3. QED
          BY <2>1, <4>2
      <3>3. QED
        BY <2>1, <2>2, <3>1, <3>2 DEF KnownInv
    <2>3. QED
      BY <2>1, <2>2 DEF KnownInv
  <1>6. CASE StartRun
    BY <1>6, RunChosen DEF KnownInv
  <1>7. QED
    BY <1>1, <1>2, <1>3, <1>4, <1>5, <1>6, QuietStep

LEMMA ApartStep ==
    ASSUME MainType, WalkInv, ListInv, LinkInv, KnownInv, ApartInv, FilesInv, Next
    PROVE  ApartInv'
  <1> DEFINE Apart(a, x, y) ==
               \E b \in DOMAIN args \ {a} : InFolder(args[b], x) \/ InFolder(args[b], y)
  <1>1. ASSUME UNCHANGED <<args, check_hard_links>>,
               \A a \in DOMAIN args : \A x, y \in Chosen' :
                 /\ check_hard_links /\ args[a].folder
                 /\ x # y /\ Inode[x] = Inode[y] /\ InFolder(args[a], x) /\ InFolder(args[a], y)
                 => Apart(a, x, y)
        PROVE  ApartInv'
    BY <1>1 DEF ApartInv
  <1>2. ASSUME UNCHANGED <<args, check_hard_links>>, NEW p, Chosen' \subseteq Chosen \cup {p},
               \A a \in DOMAIN args : \A y \in Chosen :
                 /\ check_hard_links /\ args[a].folder /\ p \in Chosen' /\ p \notin Chosen
                 /\ p # y /\ Inode[p] = Inode[y] /\ InFolder(args[a], p) /\ InFolder(args[a], y)
                 => Apart(a, p, y)
        PROVE  ApartInv'
    <2>1. ASSUME NEW a \in DOMAIN args, NEW x \in Chosen', NEW y \in Chosen',
                 check_hard_links, args[a].folder, x # y, Inode[x] = Inode[y],
                 InFolder(args[a], x), InFolder(args[a], y)
          PROVE  Apart(a, x, y)
      <3>1. CASE x \in Chosen /\ y \in Chosen
        BY <2>1, <3>1 DEF ApartInv
      <3>2. CASE x = p /\ x \notin Chosen /\ y \in Chosen
        BY <1>2, <2>1, <3>2
      <3>3. CASE y = p /\ y \notin Chosen /\ x \in Chosen
        <4>1. Apart(a, p, x)
          BY <1>2, <2>1, <3>3
        <4>2. QED
          BY <3>3, <4>1
      <3>4. QED
        BY <1>2, <2>1, <3>1, <3>2, <3>3
    <2>2. QED
      BY <1>1, <1>2, <2>1
  <1>3. CASE Quiet
    BY <1>3, QuietChosen DEF ApartInv
  <1>4. CASE FileArgument
    <2> DEFINE p == args[arg].paths[1]
    <2>1. /\ Chosen' \subseteq Chosen \cup {p} /\ ~args[arg].folder
          /\ UNCHANGED <<args, check_hard_links>> /\ arg \in DOMAIN args /\ InFolder(args[arg], p)
      BY <1>4, FileChosen, Arguments DEF Joins, InFolder
    <2>2. ASSUME NEW a \in DOMAIN args, NEW y \in Chosen, args[a].folder
          PROVE  Apart(a, p, y)
      BY <2>1, <2>2
    <2> HIDE DEF p, Apart
    <2>3. QED
      BY <1>2, <2>1, <2>2
  <1>5. CASE WalkFile
    <2> DEFINE p == Head(walk)
    <2>1. /\ UNCHANGED <<args, check_hard_links>> /\ mpc = "walk" /\ arg \in DOMAIN args
          /\ Chosen' = Chosen \cup (IF IsHardLink(p) THEN {} ELSE Joins(p))
          /\ p \in Paths /\ InFolder(args[arg], p)
      BY <1>5, WalkChosen, Arguments
    <2> HIDE DEF p
    <2>2. Chosen' \subseteq Chosen \cup {p} /\ (p \in Chosen' /\ p \notin Chosen => ~IsHardLink(p))
      BY <2>1 DEF Joins
    <2>3. ASSUME NEW a \in DOMAIN args, NEW y \in Chosen, check_hard_links, args[a].folder,
                 p \in Chosen', p \notin Chosen, p # y, Inode[p] = Inode[y],
                 InFolder(args[a], p), InFolder(args[a], y)
          PROVE  Apart(a, p, y)
      <3>1. y \in Paths /\ y # NoPath
        BY ChosenPaths, IoAssumption
      <3>2. Linked(y) /\ Linked(p)
        BY <2>1, <2>3, <3>1 DEF Linked
      <3>3. ino2PathMap[Inode[y]] # y
        BY <2>2, <2>3, <3>1, <3>2 DEF IsHardLink
      <3>4. PICK b \in DOMAIN args : b < arg /\ InFolder(args[b], y)
        BY <2>3, <3>2, <3>3 DEF KnownInv
      <3>5. CASE a = b
        <4>1. b \in Nat /\ arg \in Nat
          BY <2>1, Arguments
        <4>2. arg # a
          BY <3>4, <3>5, <4>1
        <4>3. QED
          BY <2>1, <4>2
      <3>6. CASE a # b
        BY <3>4, <3>6
      <3>7. QED
        BY <3>5, <3>6
    <2> HIDE DEF Apart
    <2>4. QED
      BY <1>2, <2>1, <2>2, <2>3
  <1>6. CASE FolderArgument \/ EndFolder
    BY <1>6, FolderChosen DEF ApartInv
  <1>7. CASE StartRun
    BY <1>7, RunChosen DEF ApartInv
  <1>8. QED
    BY <1>3, <1>4, <1>5, <1>6, <1>7, QuietStep
LEMMA ScanStep ==
    ASSUME ScanInv, FilesInv, Next
    PROVE  ScanInv'
  BY MainTypeStep, WalkStep, ListStep, CoverStep, LinkStep, KnownStep, ApartStep DEF ScanInv

LEMMA ScanInit == ASSUME Init PROVE ScanInv
  <1> USE DEF Init, Scanning
  <1>1. MainType
    <2>1. args \in Seq([folder : BOOLEAN, paths : Seq(Paths)])
      BY DriverAssumption
    <2>2. arg \in 1 .. Len(args) + 1
      BY <2>1
    <2>3. PICK s \in Settings : check_hard_links = s.links /\ sortQueue = s.sort
                               /\ nJobs = s.jobs /\ nReverse = s.reverse
      OBVIOUS
    <2>4. s \in [links : BOOLEAN, sort : BOOLEAN, jobs : 1 .. MaxJobs, reverse : Nat]
      BY DriverAssumption
    <2>5. /\ check_hard_links \in BOOLEAN /\ sortQueue \in BOOLEAN
          /\ nJobs \in Nat /\ nReverse \in Nat
      BY <2>3, <2>4
    <2>6. ino2PathMap \in [Range(Inode) -> Paths \cup {NoPath}]
      BY DEF NoLinks
    <2>7. args \in ArgLists /\ walk = <<>> /\ itemList = <<>> /\ started = <<>>
          /\ quitRequestedFlag = FALSE /\ jobInfoInitialised = FALSE /\ mpc = "args"
      OBVIOUS
    <2> HIDE DEF Init
    <2>8. <<>> \in Seq(Paths)
      OBVIOUS
    <2>9. QED
      BY <2>2, <2>5, <2>6, <2>7, <2>8 DEF MainType
  <1>2. Chosen = {} /\ Elements(itemList) = {} /\ Distinct(itemList)
    BY DEF Chosen, Elements, Distinct
  <1>3. mpc = "args" /\ arg = 1 /\ itemForName = {} /\ ino2PathMap = NoLinks
    OBVIOUS
  <1> HIDE DEF Init
  <1>4. WalkInv /\ ListInv /\ LinkInv /\ KnownInv /\ ApartInv
    BY <1>2, <1>3 DEF WalkInv, ListInv, LinkInv, KnownInv, ApartInv
  <1>5. CoverInv
    BY <1>1, <1>3, Arguments DEF CoverInv
  <1>6. QED
    BY <1>1, <1>4, <1>5 DEF ScanInv
-----------------------------------------------------------------------------
(* Emptying the queue.                                                      *)

\* What compressFile() does for one worker, as the others see it
Outside == {"idle", "returned", "files", "filesDone", "compressed", "counted", "uncounted"}

Moves(w) ==
    /\ stage' \in [Workers -> Stages]
    /\ \A v \in Workers \ {w} : stage'[v] = stage[v]

LEMMA CompressMoves ==
    ASSUME IoType, NEW w \in Workers, CompressStep(w)
    PROVE  /\ Moves(w) /\ held' = held
           /\ stage[w] \notin Outside /\ stage'[w] \notin Outside \ {"returned"}
           /\ compressed' = compressed \/ compressed' = compressed \cup {held[w]}
  <1> DEFINE P == /\ Moves(w) /\ held' = held
                  /\ stage[w] \notin Outside /\ stage'[w] \notin Outside \ {"returned"}
                  /\ compressed' = compressed \/ compressed' = compressed \cup {held[w]}
  <1> USE ScopeSteps DEF IoType, Stages, Outside, Moves, Goto
  <1>1. ASSUME LockScope(w) PROVE P
    BY <1>1 DEF LockScope
  <1>2. ASSUME LockScopeReturns(w) PROVE P
    BY <1>2 DEF LockScopeReturns
  <1>3. ASSUME UnLockScope(w) PROVE P
    BY <1>3 DEF UnLockScope
  <1>4. ASSUME BailNotLocked(w) PROVE P
    BY <1>4 DEF BailNotLocked
  <1>5. ASSUME UnLockScopeReturns(w) PROVE P
    BY <1>5 DEF UnLockScopeReturns
  <1>6. ASSUME Skip(w) PROVE P
    BY <1>6 DEF Skip
  <1>7. ASSUME StartReading(w) PROVE P
    BY <1>7 DEF StartReading
  <1>8. ASSUME Open(w) PROVE P
    BY <1>8 DEF Open
  <1>9. ASSUME OpenFails(w) PROVE P
    BY <1>9 DEF OpenFails
  <1>10. ASSUME Read(w) PROVE P
    BY <1>10 DEF Read
  <1>11. ASSUME ReadFails(w) PROVE P
    BY <1>11 DEF ReadFails
  <1>12. ASSUME Compressed(w) PROVE P
    BY <1>12 DEF Compressed
  <1>13. ASSUME NotCompressed(w) PROVE P
    BY <1>13 DEF NotCompressed
  <1>14. ASSUME Rewritten(w) PROVE P
    BY <1>14 DEF Rewritten
  <1>15. ASSUME Verify(w) PROVE P
    BY <1>15 DEF Verify
  <1>16. ASSUME Close(w) PROVE P
    BY <1>16 DEF Close
  <1> HIDE DEF P, IoType, Stages, Outside, Moves, Goto
  <1>17. P
    BY <1>1, <1>2, <1>3, <1>4, <1>5, <1>6, <1>7, <1>8, <1>9, <1>10, <1>11, <1>12,
       <1>13, <1>14, <1>15, <1>16
       DEF CompressStep
  <1>18. QED
    BY <1>17 DEF P

LEMMA BusyKept ==
    ASSUME NEW w \in Workers, Moves(w), stage[w] # "idle", stage'[w] # "idle"
    PROVE  Busy' = Busy /\ w \in Busy
  BY DEF Moves, Busy

LEMMA FilesStep ==
    ASSUME IoType, ScanInv, FilesInv, Next
    PROVE  FilesInv'
  <1>1. \A w \in Busy : held[w] \in Paths
    <2>1. ~Scanning => started \in Seq(Paths) /\ Elements(started) \subseteq Paths
      BY DEF ScanInv, MainType, Elements
    <2>2. QED
      BY <2>1 DEF FilesInv, Held
  <1>2. ASSUME FileArgument \/ FolderArgument \/ WalkFile \/ EndFolder
        PROVE  FilesInv'
    <2>1. UNCHANGED <<stage, held, processed, compressed, nJobs>> /\ Scanning /\ Scanning'
          /\ mpc' \in {"args", "walk"}
      BY <1>2 DEF FileArgument, FolderArgument, WalkFile, EndFolder, ioVars, queueVars,
                  Scanning
    <2>2. QED
      BY <2>1 DEF FilesInv, Busy, Scanning
  <1>3. ASSUME StartRun
        PROVE  FilesInv'
    <2>1. /\ UNCHANGED <<stage, held, processed, compressed>>
          /\ mpc' = IF itemList = <<>> THEN "nothing" ELSE "run"
      BY <1>3 DEF StartRun, ioVars
    <2>2. Busy = {} /\ processed = {} /\ Scanning /\ ~Scanning' /\ Distinct(itemList')
          /\ Elements(started') = Elements(itemList') /\ mpc' \in {"run", "nothing"}
      BY <1>3, RunChosen DEF ScanInv, FilesInv
    <2>3. Busy' = {} /\ Held' = {} /\ processed' = {}
      BY <2>1, <2>2 DEF Busy, Held
    <2>4. QED
      BY <2>1, <2>2, <2>3 DEF FilesInv
  <1>4. ASSUME NEW w \in Workers, Take(w)
        PROVE  FilesInv'
    <2> DEFINE rear == w > nJobs - nReverse
               e == IF rear THEN itemList[Len(itemList)] ELSE Head(itemList)
    <2>1. /\ mpc = "run" /\ mpc' = "run" /\ w <= nJobs /\ itemList # <<>>
          /\ stage[w] = "idle" /\ stage' = [stage EXCEPT ![w] = "entered"]
          /\ held' = [held EXCEPT ![w] = e]
          /\ itemList' = IF rear THEN SubSeq(itemList, 1, Len(itemList) - 1) ELSE Tail(itemList)
          /\ UNCHANGED <<started, processed, compressed, nJobs>>
      BY <1>4 DEF Take, Goto
    <2>2. itemList \in Seq(Paths) /\ ~Scanning /\ ~Scanning' /\ Distinct(itemList)
      BY <2>1 DEF ScanInv, MainType, Scanning, FilesInv
    <2>3. /\ e \in Paths /\ Distinct(itemList')
          /\ Elements(itemList) = Elements(itemList') \cup {e} /\ e \notin Elements(itemList')
      BY <2>1, <2>2, FirstTaken, LastTaken
    <2> HIDE DEF e
    <2>4. Busy' = Busy \cup {w} /\ w \notin Busy
      BY <2>1 DEF Busy, IoType
    <2>5. /\ held' \in [Workers -> Paths \cup {NoPath}] /\ held'[w] = e
          /\ \A v \in Busy : held'[v] = held[v]
      BY <2>1, <2>3, <2>4 DEF FilesInv, Busy
    <2>6. Held' = Held \cup {e}
      BY <2>4, <2>5 DEF Held
    <2>7. /\ Elements(started) = Elements(itemList) \cup Held \cup processed
          /\ Elements(itemList) \cap (Held \cup processed) = {} /\ Held \cap processed = {}
          /\ \A u, v \in Busy : held[u] = held[v] => u = v
          /\ \A u \in Busy : u <= nJobs
          /\ IsFiniteSet(processed)
      BY <2>2 DEF FilesInv
    <2>8. Elements(started)' = Elements(started)
      BY <2>1
    <2>9. \A u, v \in Busy' : held'[u] = held'[v] => u = v
      <3>1. \A v \in Busy : held[v] # e
        BY <2>3, <2>7 DEF Held
      <3>2. QED
        BY <2>4, <2>5, <2>7, <3>1
    <2>10. /\ Elements(started') = Elements(itemList') \cup Held' \cup processed'
           /\ Elements(itemList') \cap (Held' \cup processed') = {} /\ Held' \cap processed' = {}
      BY <2>1, <2>3, <2>6, <2>7, <2>8
    <2>11. \A u \in Busy' : u <= nJobs'
      BY <2>1, <2>4, <2>7
    <2>12. QED
      BY <2>1, <2>2, <2>3, <2>5, <2>7, <2>9, <2>10, <2>11 DEF FilesInv
  <1>5. ASSUME NEW w \in Workers,
               Compress(w) \/ ReadCounter(w) \/ WriteCounter(w) \/ CountFails(w)
        PROVE  FilesInv'
    <2>1. /\ Moves(w) /\ stage[w] # "idle" /\ stage'[w] # "idle" /\ held' = held
          /\ UNCHANGED <<itemList, started, processed, nJobs, quitRequestedFlag, mpc>>
      <3>1. CASE Compress(w)
        BY <3>1, CompressMoves DEF Compress, queueVars, Outside
      <3>2. CASE ReadCounter(w)
        BY <3>2 DEF ReadCounter, Goto, Moves, queueVars, IoType, Stages
      <3>3. CASE WriteCounter(w)
        BY <3>3 DEF WriteCounter, Goto, Moves, queueVars, IoType, Stages
      <3>4. CASE CountFails(w)
        BY <3>4 DEF CountFails, Goto, Moves, queueVars, IoType, Stages
      <3>5. QED
        BY <1>5, <3>1, <3>2, <3>3, <3>4
    <2>2. Busy' = Busy /\ w \in Busy
      BY <2>1, BusyKept
    <2>3. Held' = Held /\ Scanning' = Scanning /\ ~Scanning
      BY <2>1, <2>2 DEF Held, Scanning, FilesInv
    <2>4. Elements(started') = Elements(started) /\ Elements(itemList') = Elements(itemList)
          /\ Distinct(itemList') = Distinct(itemList)
      BY <2>1
    <2>5. QED
      BY <2>1, <2>2, <2>3, <2>4 DEF FilesInv
  <1>6. ASSUME NEW w \in Workers, EndFile(w)
        PROVE  FilesInv'
    <2>1. /\ stage[w] \in {"counted", "uncounted"} /\ stage' = [stage EXCEPT ![w] = "idle"]
          /\ processed' = processed \cup {held[w]} /\ held' = [held EXCEPT ![w] = NoPath]
          /\ UNCHANGED <<itemList, started, nJobs, quitRequestedFlag, mpc, compressed>>
      BY <1>6 DEF EndFile, Goto
    <2>2. w \in Busy /\ Busy' = Busy \ {w}
      BY <2>1 DEF Busy, IoType
    <2>3. Scanning' = Scanning /\ ~Scanning
      BY <2>1, <2>2 DEF Scanning, FilesInv
    <2>4. /\ held' \in [Workers -> Paths \cup {NoPath}]
          /\ \A v \in Busy' : held'[v] = held[v]
      BY <2>1, <2>2 DEF FilesInv, Busy
    <2>5. /\ Elements(started) = Elements(itemList) \cup Held \cup processed
          /\ Elements(itemList) \cap (Held \cup processed) = {} /\ Held \cap processed = {}
          /\ \A u, v \in Busy : held[u] = held[v] => u = v
          /\ \A u \in Busy : u <= nJobs
          /\ IsFiniteSet(processed) /\ Distinct(itemList)
      BY <2>3 DEF FilesInv
    <2>6. Held' = Held \ {held[w]} /\ held[w] \in Held
      BY <2>2, <2>4, <2>5 DEF Held
    <2>7. IsFiniteSet(processed')
      BY <2>1, <2>5, FS_AddElement
    <2>8. Elements(started') = Elements(started) /\ Elements(itemList') = Elements(itemList)
          /\ Distinct(itemList')
      BY <2>1, <2>5
    <2>9. /\ Elements(started') = Elements(itemList') \cup Held' \cup processed'
          /\ Elements(itemList') \cap (Held' \cup processed') = {} /\ Held' \cap processed' = {}
      BY <2>1, <2>5, <2>6, <2>8
    <2>10. \A u, v \in Busy' : held'[u] = held'[v] => u = v
      BY <2>2, <2>4, <2>5
    <2>11. mpc' \in {"returned", "nothing"} => Busy' = {}
      BY <2>1, <2>2 DEF FilesInv
    <2>12. \A u \in Busy' : u <= nJobs'
      BY <2>1, <2>2, <2>5
    <2>13. mpc' = "returned" => quitRequestedFlag' \/ itemList' = <<>>
      BY <2>1 DEF FilesInv
    <2>14. QED
      BY <2>3, <2>4, <2>7, <2>8, <2>9, <2>10, <2>11, <2>12, <2>13 DEF FilesInv
  <1>7. ASSUME RunReturns \/ Quit \/ Stopped
        PROVE  FilesInv'
    <2>1. /\ UNCHANGED <<stage, held, itemList, started, processed, compressed, nJobs>>
          /\ Scanning' = Scanning /\ (quitRequestedFlag => quitRequestedFlag')
          /\ \/ mpc' = mpc
             \/ /\ mpc' = "returned" /\ (itemList = <<>> \/ quitRequestedFlag)
                /\ \A w \in Workers : stage[w] = "idle"
                /\ UNCHANGED quitRequestedFlag
      BY <1>7 DEF RunReturns, Quit, Stopped, vars, ioVars, queueVars, Scanning
    <2>2. Busy' = Busy /\ Held' = Held
      BY <2>1 DEF Busy, Held
    <2>3. Elements(started') = Elements(started) /\ Elements(itemList') = Elements(itemList)
          /\ Distinct(itemList') = Distinct(itemList)
      BY <2>1
    <2>4. QED
      BY <2>1, <2>2, <2>3 DEF FilesInv, Busy
  <1>8. QED
    BY <1>2, <1>3, <1>4, <1>5, <1>6, <1>7 DEF Next, MainStep, WorkerStep

LEMMA FilesInit == ASSUME Init PROVE FilesInv
  <1>1. Busy = {}
    BY DEF Init, InitIo, Busy
  <1>2. /\ held \in [Workers -> Paths \cup {NoPath}] /\ processed = {} /\ compressed = {}
        /\ mpc = "args"
    BY DEF Init, InitIo
  <1>3. IsFiniteSet({})
    BY FS_EmptySet
  <1>4. QED
    BY <1>1, <1>2, <1>3 DEF FilesInv, Scanning
-----------------------------------------------------------------------------
(* The statistics: what main() counts ...                                   *)

LEMMA CountedNumbers ==
    ASSUME NEW c \in [files : Nat, compressed : Nat], NEW p
    PROVE  /\ Counted(c, p) \in [files : Nat, compressed : Nat]
           /\ Counted(c, p).files = c.files + 1
           /\ p \in Compressed0 => Counted(c, p).compressed = c.compressed + 1
           /\ p \notin Compressed0 => Counted(c, p).compressed = c.compressed
           /\ Counted(c, p) # c
  <1>1. /\ Counted(c, p) \in [files : Nat, compressed : Nat]
        /\ Counted(c, p).files = c.files + 1
        /\ p \in Compressed0 => Counted(c, p).compressed = c.compressed + 1
        /\ p \notin Compressed0 => Counted(c, p).compressed = c.compressed
    BY DEF Counted
  <1>2. Counted(c, p).files # c.files
    BY <1>1
  <1>3. QED
    BY <1>1, <1>2

LEMMA OwnNumbers ==
    ASSUME MainType
    PROVE  /\ IsFiniteSet(Recent) /\ IsFiniteSet(Old(Recent))
           /\ Own \in Nat /\ OwnCompressed \in Nat
  <1>1. Len(args) \in Nat /\ DOMAIN args = 1 .. Len(args) /\ arg - 1 \in Int
    BY Arguments DEF MainType
  <1>2. IsFiniteSet(1 .. Len(args)) /\ IsFiniteSet(1 .. arg - 1)
    BY <1>1, FS_Interval
  <1>3. /\ Recent \in SUBSET (1 .. arg - 1) /\ Old(Recent) \in SUBSET (1 .. arg - 1)
        /\ OwnTallied \in SUBSET (1 .. Len(args))
        /\ Old(OwnTallied) \in SUBSET (1 .. Len(args))
    BY <1>1 DEF Recent, OwnTallied, Trailing, Old
  <1>4. QED
    BY <1>2, <1>3, FS_Subset, FS_CardinalityType DEF Own, OwnCompressed

LEMMA NothingCounted ==
    /\ Cardinality({}) = 0 /\ NoCounts.files = 0 /\ NoCounts.compressed = 0
    /\ NoCounts \in [files : Nat, compressed : Nat]
  BY FS_EmptySet DEF NoCounts

LEMMA ToolKept ==
    ASSUME NEW w \in Workers, CompressStep(w)
    PROVE  tool' = tool
  BY DEF CompressStep, LockScope, LockScopeReturns, UnLockScope, BailNotLocked,
         UnLockScopeReturns, Skip, StartReading, Open, OpenFails, Read, ReadFails,
         Compressed, NotCompressed, Rewritten, Verify, Close, options

LEMMA StatTypeStep ==
    ASSUME MainType, ListInv, WalkInv, IoType, StatType, Next
    PROVE  StatType'
  <1> DEFINE C == [files : Nat, compressed : Nat]
  <1>1. jobInfo \in C /\ reg \in [Workers -> Nat]
    BY DEF StatType
  <1>2. ASSUME NEW p, PreProcess(p)
        PROVE  jobInfo' \in C
    BY <1>1, <1>2, CountedNumbers DEF PreProcess
  <1> HIDE DEF C
  <1>3. ASSUME FileArgument
        PROVE  StatType'
    BY <1>1, <1>2, <1>3 DEF FileArgument, StatType, C
  <1>4. ASSUME WalkFile
        PROVE  StatType'
    <2>1. jobInfo' \in C
      BY <1>1, <1>2, <1>4 DEF WalkFile
    <2>2. QED
      BY <1>1, <1>4, <2>1 DEF WalkFile, StatType, C
  <1>5. ASSUME EndFolder \/ StartRun
        PROVE  StatType'
    <2>1. jobInfo' \in {jobInfo, NoCounts} /\ reg' = reg
      BY <1>5 DEF EndFolder, StartRun, ResetCounts
    <2>2. QED
      BY <1>1, <2>1, NothingCounted DEF StatType, C
  <1>6. ASSUME FolderArgument \/ RunReturns \/ Quit \/ Stopped
        PROVE  StatType'
    BY <1>1, <1>6 DEF FolderArgument, RunReturns, Quit, Stopped, vars, statVars, StatType, C
  <1>7. ASSUME NEW w \in Workers, WorkerStep(w)
        PROVE  StatType'
    <2>1. CASE Take(w) \/ Compress(w)
      BY <1>1, <2>1 DEF Take, Compress, statVars, StatType, C
    <2>2. CASE ReadCounter(w)
      BY <1>1, <2>2 DEF ReadCounter, StatType, C
    <2>3. CASE WriteCounter(w)
      BY <1>1, <2>3 DEF WriteCounter, StatType, C
    <2>4. CASE EndFile(w)
      BY <1>1, <2>4 DEF EndFile, StatType, C
    <2>5. CASE CountFails(w)
      BY <1>1, <2>5 DEF CountFails, statVars, StatType, C
    <2>6. QED
      BY <1>7, <2>1, <2>2, <2>3, <2>4, <2>5 DEF WorkerStep
  <1>8. QED
    BY <1>3, <1>4, <1>5, <1>6, <1>7 DEF Next, MainStep

LEMMA PassedStep ==
    ASSUME IoType, MainType, WalkInv, ListInv, FilesInv, StatType, PassedInv, Next
    PROVE  PassedInv'
  <1>1. ASSUME FileArgument
        PROVE  PassedInv'
    <2>1. /\ arg \in Nat /\ arg >= 1 /\ arg' = arg + 1
          /\ UNCHANGED <<tool, stage, processed, uncounted>>
          /\ uncountedArgs' = uncountedArgs
               \/ (tool = "afsctool" /\ uncountedArgs' = uncountedArgs \cup {arg})
      <3>1. arg \in Nat /\ arg >= 1 /\ arg' = arg + 1
        BY <1>1, FileChosen
      <3>2. UNCHANGED <<tool, stage, processed, uncounted>>
        BY <1>1 DEF FileArgument, ioVars, options
      <3>3. uncountedArgs' = uncountedArgs
              \/ (tool = "afsctool" /\ uncountedArgs' = uncountedArgs \cup {arg})
        <4>1. CASE args[arg].paths[1] \notin Compressable /\ jobInfo' = jobInfo
          <5>1. Counted(jobInfo, args[arg].paths[1]) # jobInfo
            BY CountedNumbers DEF StatType
          <5>2. QED
            BY <1>1, <4>1, <5>1 DEF FileArgument, PreProcess, InfoFails
        <4>2. CASE ~(args[arg].paths[1] \notin Compressable /\ jobInfo' = jobInfo)
          BY <1>1, <4>2 DEF FileArgument
        <4>3. QED
          BY <4>1, <4>2
      <3>4. QED
        BY <3>1, <3>2, <3>3
    <2>2. \A a : a \in 1 .. arg - 1 \/ a = arg => a \in 1 .. arg' - 1
      BY <2>1
    <2>3. QED
      BY <2>1, <2>2 DEF PassedInv
  <1>2. ASSUME EndFolder
        PROVE  PassedInv'
    <2>1. /\ arg \in Nat /\ arg' = arg + 1
          /\ UNCHANGED <<tool, stage, processed, uncounted, uncountedArgs>>
      BY <1>2, Arguments DEF EndFolder, ioVars, options, MainType
    <2>2. 1 .. arg - 1 \subseteq 1 .. arg' - 1
      BY <2>1
    <2>3. QED
      BY <2>1, <2>2 DEF PassedInv
  <1>3. ASSUME FolderArgument \/ WalkFile \/ StartRun \/ RunReturns \/ Quit \/ Stopped
        PROVE  PassedInv'
    <2>1. UNCHANGED <<arg, tool, stage, processed, uncounted, uncountedArgs>>
      BY <1>3 DEF FolderArgument, WalkFile, StartRun, RunReturns, Quit, Stopped, vars, ioVars,
                  options, scanVars, statVars
    <2>2. QED
      BY <2>1 DEF PassedInv
  <1>4. ASSUME NEW w \in Workers, WorkerStep(w), ~EndFile(w)
        PROVE  PassedInv'
    <2>1. UNCHANGED <<arg, tool, processed, uncounted, uncountedArgs>>
      <3>1. CASE Compress(w)
        BY <3>1, ToolKept DEF Compress, scanVars, statVars
      <3>2. CASE Take(w) \/ ReadCounter(w) \/ WriteCounter(w) \/ CountFails(w)
        BY <3>2 DEF Take, ReadCounter, WriteCounter, CountFails, options, scanVars, statVars
      <3>3. QED
        BY <1>4, <3>1, <3>2 DEF WorkerStep
    <2>2. /\ \A v \in Workers \ {w} : stage'[v] = stage[v]
          /\ stage'[w] = "uncounted" => tool = "afsctool"
      <3>1. CASE Compress(w)
        BY <3>1, CompressMoves DEF Compress, Moves, Outside
      <3>2. CASE Take(w)
        BY <3>2 DEF Take, Goto, IoType
      <3>3. CASE ReadCounter(w)
        BY <3>3 DEF ReadCounter, Goto, IoType
      <3>4. CASE WriteCounter(w)
        BY <3>4 DEF WriteCounter, Goto, IoType
      <3>5. CASE CountFails(w)
        BY <3>5 DEF CountFails, InfoFails, Goto, IoType
      <3>6. QED
        BY <1>4, <3>1, <3>2, <3>3, <3>4, <3>5 DEF WorkerStep
    <2>3. "zfsctool" # "afsctool"
      OBVIOUS
    <2>4. QED
      BY <2>1, <2>2, <2>3 DEF PassedInv
  <1>5. ASSUME NEW w \in Workers, EndFile(w)
        PROVE  PassedInv'
    <2>1. /\ UNCHANGED <<arg, tool, uncountedArgs>>
          /\ processed' = processed \cup {held[w]}
          /\ uncounted' = IF stage[w] = "uncounted" THEN uncounted \cup {held[w]} ELSE uncounted
          /\ stage' = [stage EXCEPT ![w] = "idle"]
      BY <1>5 DEF EndFile, Goto, options, scanVars
    <2>2. \A v \in Workers : stage'[v] = "uncounted" => stage[v] = "uncounted"
      BY <2>1 DEF IoType
    <2>3. QED
      BY <2>1, <2>2 DEF PassedInv
  <1>6. QED
    BY <1>1, <1>2, <1>3, <1>4, <1>5 DEF Next, MainStep

LEMMA OwnStep ==
    ASSUME MainType, WalkInv, ListInv, FilesInv, StatType, PassedInv, OwnInv, Next
    PROVE  OwnInv'
  <1>1. ASSUME FileArgument
        PROVE  OwnInv'
    <2> DEFINE p == args[arg].paths[1]
    <2>1. /\ arg \in 1 .. Len(args) /\ ~args[arg].folder /\ mpc = "args" /\ mpc' = "args"
          /\ arg' = arg + 1 /\ args' = args /\ Scanning /\ Scanning' /\ arg \in Nat
          /\ jobInfoInitialised' = jobInfoInitialised
      BY <1>1, FileChosen, Arguments DEF FileArgument
    <2>1a. /\ Counted(jobInfo, p).files = jobInfo.files + 1 /\ jobInfo.files \in Nat
           /\ p \in Compressed0 => Counted(jobInfo, p).compressed = jobInfo.compressed + 1
           /\ p \notin Compressed0 => Counted(jobInfo, p).compressed = jobInfo.compressed
      BY CountedNumbers DEF StatType
    <2>1b. Counted(jobInfo, p) # jobInfo
      BY CountedNumbers DEF StatType
    <2> DEFINE B == p \notin Compressable /\ jobInfo' # jobInfo
    <2>1c. /\ jobInfo' = IF B THEN Counted(jobInfo, p) ELSE jobInfo
           /\ uncountedArgs' =
                IF p \notin Compressable /\ ~B THEN uncountedArgs \cup {arg} ELSE uncountedArgs
      BY <1>1, <2>1b DEF FileArgument, PreProcess
    <2>1d. B => p \notin Compressable
      OBVIOUS
    <2> HIDE DEF B
    <2>2. /\ \A f \in 1 .. arg' - 1 : f \in 1 .. arg - 1 \/ f = arg
          /\ \A f \in 1 .. arg - 1 : f \in 1 .. arg' - 1
          /\ arg \in 1 .. arg' - 1 /\ arg \notin 1 .. arg - 1
          /\ \A a \in 1 .. arg - 1 : /\ \A f \in a .. arg' - 1 : f \in a .. arg - 1 \/ f = arg
                                     /\ \A f \in a .. arg - 1 : f \in a .. arg' - 1
          /\ arg .. arg' - 1 = {arg}
      BY <2>1
    <2>3. FolderSeen' = FolderSeen
      BY <2>1, <2>2 DEF FolderSeen
    <2>4. /\ Recent' = IF B THEN Recent \cup {arg} ELSE Recent
          /\ arg \notin Recent
      <3>1. arg \notin uncountedArgs /\ arg \notin Recent
        BY <2>2 DEF Recent, PassedInv
      <3>2. /\ \A a \in 1 .. arg - 1 : a \in uncountedArgs' <=> a \in uncountedArgs
            /\ arg \in uncountedArgs' <=> p \notin Compressable /\ ~B
        BY <2>1c, <2>2, <3>1
      <3>3. \A a \in 1 .. arg - 1 : a \in Recent' <=> a \in Recent
        BY <2>1, <2>2, <3>2 DEF Recent
      <3>4. arg \in Recent' <=> B
        BY <2>1, <2>1d, <2>2, <3>2 DEF Recent
      <3>5. \A a \in Recent' : a \in 1 .. arg - 1 \/ a = arg
        BY <2>2 DEF Recent
      <3>6. \A a \in Recent : a \in 1 .. arg - 1
        BY DEF Recent
      <3>7. QED
        BY <3>1, <3>3, <3>4, <3>5, <3>6
    <2>5. /\ Old(Recent)' = IF B /\ p \in Compressed0 THEN Old(Recent) \cup {arg}
                                                       ELSE Old(Recent)
          /\ arg \notin Old(Recent)
      <3>1. Old(Recent)' = {a \in Recent' : args[a].paths[1] \in Compressed0}
        BY <2>1 DEF Old
      <3>2. QED
        BY <2>4, <3>1 DEF Old
    <2>6. jobInfo.files = Cardinality(Recent) /\ jobInfo.compressed = Cardinality(Old(Recent))
          /\ IsFiniteSet(Recent) /\ IsFiniteSet(Old(Recent))
      BY <2>1, OwnNumbers DEF OwnInv
    <2>7. /\ Cardinality(Recent \cup {arg}) = Cardinality(Recent) + 1
          /\ Cardinality(Old(Recent) \cup {arg}) = Cardinality(Old(Recent)) + 1
      BY <2>4, <2>5, <2>6, FS_AddElement
    <2> HIDE DEF p
    <2>10. /\ jobInfo'.files = Cardinality(Recent')
           /\ jobInfo'.compressed = Cardinality(Old(Recent)')
      BY <2>1a, <2>1c, <2>4, <2>5, <2>6, <2>7
    <2>11. QED
      BY <2>1, <2>3, <2>10 DEF OwnInv
  <1>2. ASSUME EndFolder
        PROVE  OwnInv'
    <2>1. /\ arg \in Nat /\ arg >= 1 /\ args[arg].folder /\ mpc' = "args" /\ args' = args
          /\ arg' = arg + 1 /\ jobInfo' = NoCounts /\ jobInfoInitialised' = TRUE
      BY <1>2, Arguments DEF EndFolder, ResetCounts, WalkInv, MainType
    <2>2. /\ arg \in 1 .. arg' - 1
          /\ \A a \in 1 .. arg' - 1 : arg \in a .. arg' - 1
      BY <2>1
    <2>3. FolderSeen' = TRUE
      BY <2>1, <2>2 DEF FolderSeen
    <2>4. Recent' = {}
      BY <2>1, <2>2 DEF Recent
    <2>5. Old(Recent)' = {}
      BY <2>4 DEF Old
    <2>6. Cardinality(Recent)' = 0 /\ Cardinality(Old(Recent))' = 0
      BY <2>4, <2>5, NothingCounted
    <2>7. QED
      BY <2>1, <2>3, <2>6, NothingCounted DEF OwnInv
  <1>3. ASSUME FolderArgument \/ WalkFile
        PROVE  OwnInv'
    <2>1. UNCHANGED <<args, arg, jobInfoInitialised>> /\ Scanning /\ mpc' = "walk"
      BY <1>3 DEF FolderArgument, WalkFile, statVars, Scanning
    <2>2. QED
      BY <2>1 DEF OwnInv, FolderSeen
  <1>4. ASSUME StartRun
        PROVE  OwnInv'
    BY <1>4, RunChosen DEF OwnInv
  <1>5. ASSUME Quiet, ~(FileArgument \/ EndFolder \/ FolderArgument \/ WalkFile \/ StartRun)
        PROVE  OwnInv'
    <2>1. ASSUME Scanning
          PROVE  /\ UNCHANGED <<args, arg, jobInfo, jobInfoInitialised, uncountedArgs>>
                 /\ mpc' = "args" => mpc = "args"
      <3>1. UNCHANGED <<args, arg>> /\ Scanning /\ Scanning' /\ (mpc' = "walk") = (mpc = "walk")
        BY <1>5, <2>1, QuietChosen
      <3>2. Busy = {}
        BY <2>1 DEF FilesInv
      <3>3. ASSUME NEW w \in Workers, WorkerStep(w)
            PROVE  UNCHANGED <<jobInfo, jobInfoInitialised, uncountedArgs>>
        <4>1. ~ReadCounter(w) /\ ~WriteCounter(w) /\ ~EndFile(w)
          BY <3>2 DEF ReadCounter, WriteCounter, EndFile, Goto, Busy
        <4>2. QED
          BY <3>3, <4>1 DEF WorkerStep, Take, Compress, CountFails, statVars
      <3>4. ASSUME RunReturns \/ Quit \/ Stopped
            PROVE  UNCHANGED <<jobInfo, jobInfoInitialised, uncountedArgs>>
        BY <3>4 DEF RunReturns, Quit, Stopped, vars, statVars
      <3>5. UNCHANGED <<jobInfo, jobInfoInitialised, uncountedArgs>>
        BY <1>5, <3>3, <3>4 DEF Next, MainStep
      <3>6. QED
        BY <3>1, <3>5 DEF Scanning
    <2>2. Scanning' = Scanning
      BY <1>5, QuietChosen
    <2>3. ASSUME Scanning
          PROVE  FolderSeen' = FolderSeen /\ Recent' = Recent /\ Old(Recent)' = Old(Recent)
      BY <2>1, <2>3 DEF FolderSeen, Recent, Old
    <2>4. QED
      BY <2>1, <2>2, <2>3 DEF OwnInv, Scanning
  <1>6. QED
    BY <1>1, <1>2, <1>3, <1>4, <1>5, QuietStep
\* ... and what the workers add to it.
LEMMA FileNumbers ==
    ASSUME IoAssumption, FilesInv
    PROVE  /\ IsFiniteSet(DoneFiles) /\ IsFiniteSet(DoneCompressed)
           /\ IsFiniteSet(Tallied) /\ IsFiniteSet(Tallied \cap compressed)
           /\ Cardinality(DoneFiles) \in Nat /\ Cardinality(DoneCompressed) \in Nat
           /\ Cardinality(Tallied) \in Nat /\ Cardinality(Tallied \cap compressed) \in Nat
           /\ FilesCounted \in Nat /\ CompressedCounted \in Nat
  <1>1. IsFiniteSet(Workers)
    BY FS_Interval DEF Workers, IoAssumption
  <1>2. DoneFiles \in SUBSET Workers /\ DoneCompressed \in SUBSET Workers
    BY DEF DoneFiles, DoneCompressed
  <1>3. IsFiniteSet(processed) /\ Tallied \in SUBSET processed
        /\ Tallied \cap compressed \in SUBSET processed
    BY DEF FilesInv, Tallied
  <1>4. /\ IsFiniteSet(DoneFiles) /\ IsFiniteSet(DoneCompressed)
        /\ IsFiniteSet(Tallied) /\ IsFiniteSet(Tallied \cap compressed)
    BY <1>1, <1>2, <1>3, FS_Subset
  <1>5. /\ Cardinality(DoneFiles) \in Nat /\ Cardinality(DoneCompressed) \in Nat
        /\ Cardinality(Tallied) \in Nat /\ Cardinality(Tallied \cap compressed) \in Nat
    BY <1>4, FS_CardinalityType
  <1>6. QED
    BY <1>4, <1>5 DEF FilesCounted, CompressedCounted

\* Nothing is counted while the files are looked for; after the last argument, what
\* main() has counted since the last folder is what is printed of it.
LEMMA CountStart ==
    ASSUME MainType, ListInv, FilesInv, OwnInv, StartRun
    PROVE  CountInv'
  <1>1. /\ args' = args /\ mpc = "args" /\ arg > Len(args) /\ Scanning
        /\ jobInfo' = IF jobInfoInitialised THEN jobInfo ELSE NoCounts
        /\ UNCHANGED <<stage, held, compressed, processed, uncounted, uncountedArgs>>
    BY RunChosen DEF StartRun, ioVars, scanVars, ResetCounts
  <1>2. /\ Busy = {} /\ processed = {}
        /\ jobInfo.files = Cardinality(Recent) /\ jobInfo.compressed = Cardinality(Old(Recent))
        /\ jobInfoInitialised = FolderSeen
    BY <1>1 DEF FilesInv, OwnInv
  <1>3. \A w \in Workers : stage'[w] = "idle"
    BY <1>1, <1>2 DEF Busy
  <1>4. /\ DoneFiles' = {} /\ DoneCompressed' = {}
        /\ Tallied' = {} /\ (Tallied \cap compressed)' = {}
    BY <1>1, <1>2, <1>3 DEF DoneFiles, DoneCompressed, Tallied
  <1>5. FilesCounted' = 0 /\ CompressedCounted' = 0
    <2>1. /\ Cardinality(DoneFiles)' = 0 /\ Cardinality(DoneCompressed)' = 0
          /\ Cardinality(Tallied)' = 0 /\ Cardinality(Tallied \cap compressed)' = 0
      BY <1>4, NothingCounted
    <2>2. QED
      BY <2>1 DEF FilesCounted, CompressedCounted
  <1>6. Own' = Own /\ OwnCompressed' = OwnCompressed
    BY <1>1 DEF Own, OwnCompressed, OwnTallied, Trailing, Old
  <1>7. jobInfo'.files = Own /\ jobInfo'.compressed = OwnCompressed
    <2>1. arg - 1 = Len(args) /\ DOMAIN args = 1 .. Len(args) /\ Len(args) \in Nat
      BY <1>1, Arguments DEF MainType
    <2>2. CASE FolderSeen
      <3>1. PICK f \in 1 .. Len(args) : args[f].folder
        BY <2>1, <2>2 DEF FolderSeen
      <3>2. \A a \in 1 .. Len(args) : f \notin a .. Len(args) => f \in 1 .. a - 1
        BY <2>1
      <3>3. OwnTallied = Recent
        BY <2>1, <3>1, <3>2 DEF OwnTallied, Trailing, Recent
      <3>4. QED
        BY <1>1, <1>2, <2>2, <3>3 DEF Own, OwnCompressed
    <2>3. CASE ~FolderSeen
      <3>1. \A a \in 1 .. Len(args) : \A f \in 1 .. a - 1 : f \in 1 .. arg - 1
        BY <2>1
      <3>2. OwnTallied = {} /\ Old(OwnTallied) = {}
        BY <2>1, <2>3, <3>1 DEF OwnTallied, Trailing, FolderSeen, Old
      <3>3. Own = 0 /\ OwnCompressed = 0
        BY <3>2, NothingCounted DEF Own, OwnCompressed
      <3>4. QED
        BY <1>1, <1>2, <2>3, <3>3, NothingCounted
    <2>4. QED
      BY <2>2, <2>3
  <1>8. Own \in Nat /\ OwnCompressed \in Nat
    BY OwnNumbers
  <1>9. QED
    BY <1>3, <1>5, <1>6, <1>7, <1>8 DEF CountInv, Lossy

\* A step that counts nothing
LEMMA CountKept ==
    ASSUME CountInv, ~Scanning, args' = args, uncountedArgs' = uncountedArgs, jobInfo' = jobInfo, nJobs' = nJobs,
           FilesCounted' = FilesCounted, CompressedCounted' = CompressedCounted,
           \A w \in Workers :
             /\ stage'[w] = "files" => stage[w] = "files" /\ reg'[w] = reg[w]
             /\ stage'[w] = "compressed" =>
                  stage[w] = "compressed" /\ reg'[w] = reg[w]
                  /\ (held[w] \in compressed => held'[w] \in compressed')
    PROVE  CountInv'
  <1>1. Own' = Own /\ OwnCompressed' = OwnCompressed
    BY DEF Own, OwnCompressed, OwnTallied, Trailing, Old
  <1>2. QED
    BY <1>1 DEF CountInv

\* When there is one worker no other is between a read and a write.
LEMMA OnlyWorker ==
    ASSUME FilesInv, nJobs = 1, NEW v \in Workers, NEW w \in Workers,
           stage[v] # "idle", stage[w] # "idle"
    PROVE  v = w
  <1>1. v \in Nat \ {0} /\ w \in Nat \ {0}
    BY DEF Workers
  <1>2. v <= 1 /\ w <= 1
    BY DEF FilesInv, Busy
  <1>3. QED
    BY <1>1, <1>2

LEMMA CountStep ==
    ASSUME IoType, MainType, WalkInv, ListInv, FilesInv, PassedInv, OwnInv,
           StatType, CountInv, Next
    PROVE  CountInv'
  <1>1. ASSUME FileArgument \/ FolderArgument \/ WalkFile \/ EndFolder
        PROVE  CountInv'
    <2>1. Scanning'
      BY <1>1 DEF FileArgument, FolderArgument, WalkFile, EndFolder, Scanning
    <2>2. QED
      BY <2>1 DEF CountInv
  <1>2. ASSUME StartRun
        PROVE  CountInv'
    BY <1>2, CountStart
  <1>3. ASSUME RunReturns \/ Quit \/ Stopped
        PROVE  CountInv'
    <2>1. /\ UNCHANGED <<args, uncountedArgs, jobInfo, nJobs, stage, held, reg, processed, uncounted, compressed>>
          /\ Scanning' = Scanning
      BY <1>3 DEF RunReturns, Quit, Stopped, vars, ioVars, scanVars, queueVars, statVars, Scanning
    <2>2. FilesCounted' = FilesCounted /\ CompressedCounted' = CompressedCounted
      BY <2>1 DEF FilesCounted, CompressedCounted, Tallied, DoneFiles, DoneCompressed
    <2>3. CASE ~Scanning
      BY <2>1, <2>2, <2>3, CountKept
    <2>4. CASE Scanning
      BY <2>1, <2>4 DEF CountInv
    <2>5. QED
      BY <2>3, <2>4
  <1>4. /\ Cardinality(DoneFiles) \in Nat /\ Cardinality(DoneCompressed) \in Nat
        /\ Cardinality(Tallied) \in Nat /\ Cardinality(Tallied \cap compressed) \in Nat
        /\ FilesCounted \in Nat /\ CompressedCounted \in Nat
        /\ IsFiniteSet(DoneFiles) /\ IsFiniteSet(DoneCompressed)
        /\ IsFiniteSet(Tallied) /\ IsFiniteSet(Tallied \cap compressed)
    BY FileNumbers, IoAssumption
  <1>5. Own \in Nat /\ OwnCompressed \in Nat
    BY OwnNumbers
  <1>6. jobInfo.files \in Nat /\ jobInfo.compressed \in Nat /\ reg \in [Workers -> Nat]
    BY DEF StatType
  <1>7. ~Scanning => /\ \A u, v \in Busy : held[u] = held[v] => u = v
                     /\ Held \cap processed = {}
    BY DEF FilesInv
  <1>8. ASSUME NEW w \in Workers, Take(w)
        PROVE  CountInv'
    <2>1. /\ UNCHANGED <<args, uncountedArgs, jobInfo, nJobs, reg, processed, uncounted, compressed>> /\ ~Scanning
          /\ stage[w] = "idle" /\ stage' = [stage EXCEPT ![w] = "entered"]
          /\ \A v \in Workers \ {w} : held'[v] = held[v]
      BY <1>8 DEF Take, Goto, scanVars, statVars, Scanning, FilesInv
    <2>2. \A v \in Workers : \/ stage'[v] = stage[v] /\ held'[v] = held[v]
                             \/ stage[v] = "idle" /\ stage'[v] = "entered"
      BY <2>1 DEF IoType
    <2>3. DoneFiles' = DoneFiles /\ DoneCompressed' = DoneCompressed
      BY <2>1, <2>2 DEF DoneFiles, DoneCompressed
    <2>4. FilesCounted' = FilesCounted /\ CompressedCounted' = CompressedCounted
      BY <2>1, <2>3 DEF FilesCounted, CompressedCounted, Tallied
    <2>5. QED
      BY <2>1, <2>2, <2>4, CountKept
  <1>9. ASSUME NEW w \in Workers, Compress(w)
        PROVE  CountInv'
    <2>1. /\ UNCHANGED <<args, uncountedArgs, jobInfo, nJobs, reg, processed, uncounted, mpc>> /\ held' = held
          /\ \A v \in Workers \ {w} : stage'[v] = stage[v]
          /\ stage[w] \notin Outside /\ stage'[w] \notin Outside \ {"returned"}
          /\ compressed' = compressed \/ compressed' = compressed \cup {held[w]}
      BY <1>9, CompressMoves DEF Compress, scanVars, queueVars, statVars, Moves
    <2>2. w \in Busy /\ ~Scanning
      BY <2>1 DEF Outside, Busy, FilesInv
    <2>3. held[w] \notin processed /\ \A v \in Busy : held[v] = held[w] => v = w
      BY <1>7, <2>2 DEF Held
    <2>4. DoneFiles' = DoneFiles
      BY <2>1 DEF DoneFiles, Outside
    <2>5. DoneCompressed' = DoneCompressed
      BY <2>1, <2>3 DEF DoneCompressed, Outside, Busy
    <2>6. (Tallied \cap compressed)' = Tallied \cap compressed
      BY <2>1, <2>3 DEF Tallied
    <2>7. FilesCounted' = FilesCounted /\ CompressedCounted' = CompressedCounted
      BY <2>1, <2>4, <2>5, <2>6 DEF FilesCounted, CompressedCounted, Tallied
    <2>8. QED
      BY <2>1, <2>2, <2>7, CountKept DEF Outside
  <1>10. ASSUME NEW w \in Workers, EndFile(w)
         PROVE  CountInv'
    <2>1. /\ UNCHANGED <<args, uncountedArgs, jobInfo, nJobs, compressed, mpc>>
          /\ stage[w] \in {"counted", "uncounted"} /\ stage' = [stage EXCEPT ![w] = "idle"]
          /\ \A v \in Workers \ {w} : held'[v] = held[v] /\ reg'[v] = reg[v]
          /\ processed' = processed \cup {held[w]}
          /\ uncounted' = IF stage[w] = "uncounted" THEN uncounted \cup {held[w]} ELSE uncounted
      BY <1>10 DEF EndFile, Goto, scanVars, FilesInv, StatType
    <2>2. w \in Busy /\ ~Scanning
      BY <2>1 DEF Busy, FilesInv
    <2>3. held[w] \notin processed /\ held[w] \notin uncounted
      BY <1>7, <2>2 DEF Held, PassedInv
    <2>4. /\ \A v \in Workers \ {w} : stage'[v] = stage[v] /\ held'[v] = held[v] /\ reg'[v] = reg[v]
          /\ stage'[w] = "idle"
      BY <2>1 DEF IoType
    <2>5. DoneFiles' = DoneFiles \ {w} /\ (w \in DoneFiles <=> stage[w] = "counted")
      BY <2>1, <2>4 DEF DoneFiles
    <2>6. /\ DoneCompressed' = DoneCompressed \ {w}
          /\ w \in DoneCompressed <=> stage[w] = "counted" /\ held[w] \in compressed
      BY <2>1, <2>4 DEF DoneCompressed
    <2>7. held[w] \notin Tallied
          /\ Tallied' = IF stage[w] = "counted" THEN Tallied \cup {held[w]} ELSE Tallied
      BY <2>1, <2>3 DEF Tallied
    <2>7a. ASSUME stage[w] = "counted" PROVE FilesCounted' = FilesCounted
      <3>1. /\ Cardinality(DoneFiles \ {w}) = Cardinality(DoneFiles) - 1
            /\ Cardinality(Tallied \cup {held[w]}) = Cardinality(Tallied) + 1
        BY <1>4, <2>5, <2>7, <2>7a, FS_AddElement, FS_RemoveElement
      <3>2. FilesCounted' = Cardinality(Tallied \cup {held[w]}) + Cardinality(DoneFiles \ {w})
        BY <2>5, <2>7, <2>7a DEF FilesCounted
      <3>3. QED
        BY <1>4, <3>1, <3>2 DEF FilesCounted
    <2>8. FilesCounted' = FilesCounted /\ CompressedCounted' = CompressedCounted
      <3>1. CASE stage[w] = "counted" /\ held[w] \in compressed
        <4>1. /\ (Tallied \cap compressed)' = (Tallied \cap compressed) \cup {held[w]}
              /\ held[w] \notin Tallied \cap compressed
          BY <2>1, <2>7, <3>1
        <4>2. /\ Cardinality(DoneCompressed \ {w}) = Cardinality(DoneCompressed) - 1
              /\ Cardinality((Tallied \cap compressed) \cup {held[w]})
                   = Cardinality(Tallied \cap compressed) + 1
          BY <1>4, <2>6, <3>1, <4>1, FS_AddElement, FS_RemoveElement
        <4>3. CompressedCounted' = Cardinality((Tallied \cap compressed) \cup {held[w]})
                                     + Cardinality(DoneCompressed \ {w})
          BY <2>6, <4>1 DEF CompressedCounted
        <4>4. CompressedCounted' = CompressedCounted
          BY <1>4, <4>2, <4>3 DEF CompressedCounted
        <4>5. QED
          BY <3>1, <4>4, <2>7a
      <3>2. CASE stage[w] = "counted" /\ held[w] \notin compressed
        <4>1. (Tallied \cap compressed)' = Tallied \cap compressed
              /\ DoneCompressed' = DoneCompressed
          BY <2>1, <2>6, <2>7, <3>2
        <4>2. CompressedCounted' = CompressedCounted
          BY <4>1 DEF CompressedCounted
        <4>3. QED
          BY <3>2, <4>2, <2>7a
      <3>3. CASE stage[w] # "counted"
        <4>1. Tallied' = Tallied /\ DoneFiles' = DoneFiles /\ DoneCompressed' = DoneCompressed
              /\ (Tallied \cap compressed)' = Tallied \cap compressed
          BY <2>1, <2>5, <2>6, <2>7, <3>3
        <4>2. QED
          BY <4>1 DEF FilesCounted, CompressedCounted
      <3>4. QED
        BY <3>1, <3>2, <3>3
    <2>9. QED
      BY <2>1, <2>2, <2>4, <2>8, CountKept
  <1>11. ASSUME NEW w \in Workers, ReadCounter(w)
         PROVE  CountInv'
    <2>1. /\ UNCHANGED <<args, uncountedArgs, jobInfo, nJobs, held, compressed, processed, uncounted, mpc>>
          /\ reg' = [reg EXCEPT ![w] = reg'[w]]
          /\ \/ /\ stage[w] = "returned" /\ stage' = [stage EXCEPT ![w] = "files"]
                /\ reg'[w] = jobInfo.files
             \/ /\ stage[w] = "filesDone" /\ held[w] \in compressed
                /\ stage' = [stage EXCEPT ![w] = "compressed"] /\ reg'[w] = jobInfo.compressed
             \/ /\ stage[w] = "filesDone" /\ held[w] \notin compressed
                /\ stage' = [stage EXCEPT ![w] = "counted"]
      BY <1>6, <1>11 DEF ReadCounter, Goto, scanVars, queueVars
    <2>2. ~Scanning
      BY <2>1 DEF FilesInv, Busy
    <2>3. \A v \in Workers \ {w} : stage'[v] = stage[v] /\ reg'[v] = reg[v]
      BY <1>6, <2>1 DEF IoType
    <2>4. stage'[w] \in {"files", "compressed", "counted"}
          /\ (stage'[w] = "files" => stage[w] = "returned" /\ reg'[w] = jobInfo.files)
          /\ (stage'[w] = "compressed" =>
                stage[w] = "filesDone" /\ held[w] \in compressed /\ reg'[w] = jobInfo.compressed)
          /\ (stage'[w] = "counted" => stage[w] = "filesDone" /\ held[w] \notin compressed)
      BY <2>1 DEF IoType
    <2>5. DoneFiles' = DoneFiles
      BY <2>3, <2>4 DEF DoneFiles
    <2>6. DoneCompressed' = DoneCompressed
      BY <2>1, <2>3, <2>4 DEF DoneCompressed
    <2>7. FilesCounted' = FilesCounted /\ CompressedCounted' = CompressedCounted
      BY <2>1, <2>5, <2>6 DEF FilesCounted, CompressedCounted, Tallied
    <2>8. Own' = Own /\ OwnCompressed' = OwnCompressed
      BY <2>1 DEF Own, OwnCompressed, OwnTallied, Trailing, Old
    <2>9. /\ jobInfo.files \in Own .. (Own + FilesCounted)
          /\ jobInfo.compressed \in OwnCompressed .. (OwnCompressed + CompressedCounted)
      BY <2>2 DEF CountInv, Lossy
    <2>10. QED
      BY <2>1, <2>2, <2>3, <2>4, <2>7, <2>8, <2>9 DEF CountInv
  <1>12. ASSUME NEW w \in Workers, Goto(w, "files", "filesDone"), WriteCounter(w)
         PROVE  CountInv'
    <2>1. /\ UNCHANGED <<args, uncountedArgs, nJobs, held, compressed, processed, uncounted, mpc, reg>>
          /\ stage[w] = "files" /\ stage' = [stage EXCEPT ![w] = "filesDone"]
          /\ jobInfo' = [jobInfo EXCEPT !.files = reg[w] + 1]
      BY <1>12 DEF WriteCounter, Goto, scanVars, queueVars
    <2>2. ~Scanning
      BY <2>1 DEF FilesInv, Busy
    <2>3. \A v \in Workers \ {w} : stage'[v] = stage[v]
      BY <2>1 DEF IoType
    <2>4. stage'[w] = "filesDone" /\ jobInfo'.files = reg[w] + 1
          /\ jobInfo'.compressed = jobInfo.compressed
      BY <2>1 DEF IoType, StatType
    <2>5. DoneFiles' = DoneFiles \cup {w} /\ w \notin DoneFiles
      BY <2>1, <2>3, <2>4 DEF DoneFiles
    <2>6. DoneCompressed' = DoneCompressed
      BY <2>1, <2>3, <2>4 DEF DoneCompressed
    <2>7. FilesCounted' = FilesCounted + 1 /\ CompressedCounted' = CompressedCounted
      <3>1. Cardinality(DoneFiles \cup {w}) = Cardinality(DoneFiles) + 1
        BY <1>4, <2>5, FS_AddElement
      <3>2. FilesCounted' = Cardinality(Tallied) + Cardinality(DoneFiles \cup {w})
        BY <2>1, <2>5 DEF FilesCounted, Tallied
      <3>3. CompressedCounted' = CompressedCounted
        BY <2>1, <2>6 DEF CompressedCounted, Tallied
      <3>4. QED
        BY <1>4, <3>1, <3>2, <3>3 DEF FilesCounted
    <2>8. Own' = Own /\ OwnCompressed' = OwnCompressed
      BY <2>1 DEF Own, OwnCompressed, OwnTallied, Trailing, Old
    <2>9. reg[w] \in Own .. (Own + FilesCounted)
      BY <2>1, <2>2 DEF CountInv
    <2>10. Lossy(jobInfo'.files, Own', FilesCounted')
      BY <1>4, <1>5, <2>4, <2>7, <2>8, <2>9 DEF Lossy
    <2>11. \A v \in Workers :
             /\ stage'[v] = "files" => reg'[v] \in Own' .. (Own' + FilesCounted')
             /\ stage'[v] = "compressed" =>
                  /\ reg'[v] \in OwnCompressed' .. (OwnCompressed' + CompressedCounted')
                  /\ held'[v] \in compressed'
      BY <1>4, <1>5, <2>1, <2>2, <2>3, <2>4, <2>7, <2>8 DEF CountInv
    <2>12. nJobs = 1 =>
             /\ reg[w] = Own + FilesCounted
             /\ jobInfo.compressed = OwnCompressed + CompressedCounted
             /\ \A v \in Workers : stage'[v] \notin {"files", "compressed"}
      <3>1. ASSUME nJobs = 1, NEW v \in Workers
            PROVE  stage'[v] \notin {"files", "compressed"}
        BY <2>1, <2>3, <2>4, <3>1, OnlyWorker
      <3>2. QED
        BY <2>1, <2>2, <3>1 DEF CountInv
    <2>13. nJobs' = 1 =>
             /\ jobInfo'.files = Own' + FilesCounted'
             /\ jobInfo'.compressed = OwnCompressed' + CompressedCounted'
      BY <1>4, <1>5, <2>1, <2>4, <2>7, <2>8, <2>12
    <2>14. Lossy(jobInfo'.compressed, OwnCompressed', CompressedCounted')
      BY <2>2, <2>4, <2>7, <2>8 DEF CountInv
    <2>15. QED
      BY <2>1, <2>10, <2>11, <2>12, <2>13, <2>14 DEF CountInv
  <1>13. ASSUME NEW w \in Workers, Goto(w, "compressed", "counted"), WriteCounter(w)
         PROVE  CountInv'
    <2>1. /\ UNCHANGED <<args, uncountedArgs, nJobs, held, compressed, processed, uncounted, mpc, reg>>
          /\ stage[w] = "compressed" /\ stage' = [stage EXCEPT ![w] = "counted"]
          /\ jobInfo' = [jobInfo EXCEPT !.compressed = reg[w] + 1]
      BY <1>13 DEF WriteCounter, Goto, scanVars, queueVars
    <2>2. ~Scanning
      BY <2>1 DEF FilesInv, Busy
    <2>3. \A v \in Workers \ {w} : stage'[v] = stage[v]
      BY <2>1 DEF IoType
    <2>4. stage'[w] = "counted" /\ jobInfo'.compressed = reg[w] + 1
          /\ jobInfo'.files = jobInfo.files
      BY <2>1 DEF IoType, StatType
    <2>5. /\ reg[w] \in OwnCompressed .. (OwnCompressed + CompressedCounted)
          /\ held[w] \in compressed
      BY <2>1, <2>2 DEF CountInv
    <2>6. DoneFiles' = DoneFiles
      BY <2>1, <2>3, <2>4 DEF DoneFiles
    <2>7. DoneCompressed' = DoneCompressed \cup {w} /\ w \notin DoneCompressed
      BY <2>1, <2>3, <2>4, <2>5 DEF DoneCompressed
    <2>8. CompressedCounted' = CompressedCounted + 1 /\ FilesCounted' = FilesCounted
      <3>1. Cardinality(DoneCompressed \cup {w}) = Cardinality(DoneCompressed) + 1
        BY <1>4, <2>7, FS_AddElement
      <3>2. CompressedCounted'
              = Cardinality(Tallied \cap compressed) + Cardinality(DoneCompressed \cup {w})
        BY <2>1, <2>7 DEF CompressedCounted, Tallied
      <3>3. FilesCounted' = FilesCounted
        BY <2>1, <2>6 DEF FilesCounted, Tallied
      <3>4. QED
        BY <1>4, <3>1, <3>2, <3>3 DEF CompressedCounted
    <2>9. Own' = Own /\ OwnCompressed' = OwnCompressed
      BY <2>1 DEF Own, OwnCompressed, OwnTallied, Trailing, Old
    <2>10. Lossy(jobInfo'.compressed, OwnCompressed', CompressedCounted')
      BY <1>4, <1>5, <2>4, <2>5, <2>8, <2>9 DEF Lossy
    <2>11. \A v \in Workers :
             /\ stage'[v] = "files" => reg'[v] \in Own' .. (Own' + FilesCounted')
             /\ stage'[v] = "compressed" =>
                  /\ reg'[v] \in OwnCompressed' .. (OwnCompressed' + CompressedCounted')
                  /\ held'[v] \in compressed'
      BY <1>4, <1>5, <2>1, <2>2, <2>3, <2>4, <2>8, <2>9 DEF CountInv
    <2>12. nJobs = 1 =>
             /\ reg[w] = OwnCompressed + CompressedCounted
             /\ jobInfo.files = Own + FilesCounted
             /\ \A v \in Workers : stage'[v] \notin {"files", "compressed"}
      <3>1. ASSUME nJobs = 1, NEW v \in Workers
            PROVE  stage'[v] \notin {"files", "compressed"}
        BY <2>1, <2>3, <2>4, <3>1, OnlyWorker
      <3>2. QED
        BY <2>1, <2>2, <3>1 DEF CountInv
    <2>13. nJobs' = 1 =>
             /\ jobInfo'.files = Own' + FilesCounted'
             /\ jobInfo'.compressed = OwnCompressed' + CompressedCounted'
      BY <1>4, <1>5, <2>1, <2>4, <2>8, <2>9, <2>12
    <2>14. Lossy(jobInfo'.files, Own', FilesCounted')
      BY <2>2, <2>4, <2>8, <2>9 DEF CountInv
    <2>15. QED
      BY <2>1, <2>10, <2>11, <2>12, <2>13, <2>14 DEF CountInv
  <1>14. ASSUME NEW w \in Workers, WriteCounter(w)
         PROVE  Goto(w, "files", "filesDone") \/ Goto(w, "compressed", "counted")
    BY <1>14 DEF WriteCounter
  <1>15. ASSUME NEW w \in Workers, CountFails(w)
         PROVE  CountInv'
    <2>1. /\ UNCHANGED <<args, uncountedArgs, jobInfo, nJobs, reg, held, compressed,
                          processed, uncounted, mpc>>
          /\ stage[w] = "returned" /\ stage' = [stage EXCEPT ![w] = "uncounted"]
      BY <1>15 DEF CountFails, Goto, scanVars, queueVars, statVars
    <2>2. ~Scanning
      BY <2>1 DEF FilesInv, Busy
    <2>3. /\ \A v \in Workers \ {w} : stage'[v] = stage[v]
          /\ stage'[w] = "uncounted"
      BY <2>1 DEF IoType
    <2>4. DoneFiles' = DoneFiles /\ DoneCompressed' = DoneCompressed
      BY <2>1, <2>3 DEF DoneFiles, DoneCompressed
    <2>5. FilesCounted' = FilesCounted /\ CompressedCounted' = CompressedCounted
      BY <2>1, <2>4 DEF FilesCounted, CompressedCounted, Tallied
    <2>6. QED
      BY <2>1, <2>2, <2>3, <2>5, CountKept
  <1>16. QED
    BY <1>1, <1>2, <1>3, <1>8, <1>9, <1>10, <1>11, <1>12, <1>13, <1>14, <1>15
       DEF Next, MainStep, WorkerStep
-----------------------------------------------------------------------------
(* What follows of every behaviour.                                         *)

LEMMA CountInit == ASSUME Init PROVE IoInv /\ StatInv
  <1>1. IoInv
    BY NoWorker DEF Init, InitIo, IoInv, IoType, LockInv, OpenInv, Stages
  <1>2. /\ mpc = "args" /\ arg = 1 /\ jobInfo = NoCounts /\ jobInfoInitialised = FALSE
        /\ reg \in [Workers -> Nat] /\ uncounted = {} /\ uncountedArgs = {}
        /\ \A w \in Workers : stage[w] = "idle"
    BY DEF Init, InitIo
  <1>3. Recent = {} /\ Old(Recent) = {} /\ FolderSeen = FALSE
    BY <1>2 DEF Recent, Old, FolderSeen
  <1>4. Cardinality(Recent) = 0 /\ Cardinality(Old(Recent)) = 0
    BY <1>3, NothingCounted
  <1>5. StatType /\ PassedInv /\ OwnInv /\ CountInv
    BY <1>2, <1>3, <1>4, NothingCounted DEF StatType, PassedInv, OwnInv, CountInv, Scanning
  <1>6. QED
    BY <1>1, <1>5 DEF StatInv

LEMMA DriverStep == ASSUME DriverInv, Next PROVE DriverInv'
  <1>1. IoInv'
    BY IoTypeStep, LockStep, OpenStep DEF DriverInv, IoInv
  <1>2. ScanInv' /\ FilesInv'
    BY ScanStep, FilesStep DEF DriverInv, IoInv
  <1>3. StatInv'
    BY StatTypeStep, PassedStep, OwnStep, CountStep DEF DriverInv, IoInv, ScanInv, StatInv
  <1>4. QED
    BY <1>1, <1>2, <1>3 DEF DriverInv

LEMMA DriverIdle == ASSUME DriverInv, UNCHANGED vars PROVE DriverInv'
  <1> USE DEF vars, ioVars, options, lock, scanVars, queueVars, statVars
  <1>1. IoInv'
    BY DEF DriverInv, IoInv, IoType, LockInv, OpenInv, ReadsLocked, WritesLocked
  <1>2. Chosen' = Chosen /\ Scanning' = Scanning
    BY DEF Chosen, Scanning, Elements
  <1>3. ScanInv'
    <2>1. MainType' /\ WalkInv'
      BY <1>2 DEF DriverInv, ScanInv, MainType, WalkInv
    <2>2. ListInv' /\ CoverInv'
      BY <1>2 DEF DriverInv, ScanInv, ListInv, CoverInv, Covered, Distinct, Elements
    <2>3. LinkInv' /\ KnownInv' /\ ApartInv'
      BY <1>2 DEF DriverInv, ScanInv, LinkInv, KnownInv, ApartInv
    <2>4. QED
      BY <2>1, <2>2, <2>3 DEF ScanInv
  <1>4. FilesInv'
    <2>1. Busy' = Busy /\ Held' = Held
      BY DEF Busy, Held
    <2>2. Elements(started') = Elements(started) /\ Elements(itemList') = Elements(itemList)
          /\ Distinct(itemList') = Distinct(itemList)
      OBVIOUS
    <2>3. UNCHANGED <<held, processed, compressed, nJobs, mpc, quitRequestedFlag, itemList>>
      OBVIOUS
    <2> HIDE DEF vars, ioVars, options, lock, scanVars, queueVars, statVars
    <2>4. QED
      BY <1>2, <2>1, <2>2, <2>3 DEF DriverInv, FilesInv
  <1>5. /\ Recent' = Recent /\ Old(Recent)' = Old(Recent) /\ FolderSeen' = FolderSeen
        /\ Own' = Own /\ OwnCompressed' = OwnCompressed
    BY DEF Recent, Old, FolderSeen, Own, OwnCompressed, OwnTallied, Trailing
  <1>6. FilesCounted' = FilesCounted /\ CompressedCounted' = CompressedCounted
    BY DEF FilesCounted, CompressedCounted, Tallied, DoneFiles, DoneCompressed
  <1>7. StatInv'
    BY <1>2, <1>5, <1>6 DEF DriverInv, StatInv, StatType, PassedInv, OwnInv, CountInv
  <1>8. QED
    BY <1>1, <1>3, <1>4, <1>7 DEF DriverInv

LEMMA DriverAlways == Spec => []DriverInv
  <1>1. Init => DriverInv
    BY CountInit, ScanInit, FilesInit DEF DriverInv
  <1>2. DriverInv /\ [Next]_vars => DriverInv'
    BY DriverStep, DriverIdle
  <1>3. QED
    BY <1>1, <1>2, PTL DEF Spec

\* No two workers of afsctool are between lockScope() and unLockScope() at once, nor of
\* zfsctool -j (afsctool.c:2450, zfsctool.cpp:1554), nor does one of afsctool -j read
\* while another rewrites; and a worker asking for its next file has neither the ioLock
\* nor a file open (afsctool.c:487), whatever the shared flag lockScope() reports.
THEOREM DiskExclusive == Spec => []DiskIOExclusive
  <1>1. DriverInv => DiskIOExclusive
    <2> SUFFICES ASSUME DriverInv PROVE DiskIOExclusive
      OBVIOUS
    <2>1. ASSUME NEW v \in Workers, NEW w \in Workers, v # w, AtDisk(v)
          PROVE  /\ tool = "afsctool" \/ exclusive_io => ~AtDisk(w)
                 /\ tool = "afsctool" /\ exclusive_io => ~Reading(w)
      BY <2>1 DEF DriverInv, IoInv, LockInv, WritesLocked, ReadsLocked, AtDisk, Reading
    <2>2. \A w \in Workers : stage[w] = "idle" => owner # w /\ w \notin fdOpen
      BY DEF DriverInv, IoInv, LockInv, OpenInv
    <2>3. QED
      BY <2>1, <2>2 DEF DiskIOExclusive
  <1>2. QED
    BY <1>1, DriverAlways, PTL

\* run() is given every compressable file of the arguments, and no path twice
\* (ParallelProcess.cpp:496-513).  What -f leaves out is a hard link to a file of the
\* same folder that is queued (utils.cpp:18-53, afsctool.c:2141): the file is compressed
\* all the same, and once unless other arguments name it too.
THEOREM QueueMatchesScan == Spec => []QueueIsScan
  <1>1. DriverInv => QueueIsScan
    <2> SUFFICES ASSUME DriverInv, mpc \in {"run", "returned", "nothing"} PROVE QueueIsScan
      BY DEF QueueIsScan
    <2>1. ~Scanning /\ started \in Seq(Paths) /\ Distinct(started) /\ arg > Len(args)
      BY DEF DriverInv, ScanInv, MainType, ListInv, WalkInv, Scanning
    <2>2. DOMAIN started = 1 .. Len(started)
      BY <2>1
    <2>3. \A p : Queued(p) <=> p \in Chosen
      BY <2>1, <2>2 DEF Queued, Chosen, Elements
    <2>4. \A j, k \in DOMAIN started : started[j] = started[k] => j = k
      BY <2>1, <2>2 DEF Distinct
    <2>5. \A a \in DOMAIN args : a < arg
      <3>1. Len(args) \in Nat /\ arg \in Nat /\ DOMAIN args = 1 .. Len(args)
        BY Arguments DEF DriverInv, ScanInv, MainType
      <3>2. QED
        BY <2>1, <3>1
    <2>6. ASSUME NEW a \in DOMAIN args, NEW k \in DOMAIN args[a].paths,
                 NEW p, p = args[a].paths[k], p \in Compressable, ~Queued(p)
          PROVE  /\ check_hard_links
                 /\ \E q \in Paths \ {p} : InFolder(args[a], q) /\ Inode[q] = Inode[p] /\ Queued(q)
      <3>1. Covered(a, p)
        BY <2>5, <2>6 DEF DriverInv, ScanInv, CoverInv
      <3>2. QED
        BY <2>3, <2>6, <3>1 DEF Covered
    <2>7. ASSUME check_hard_links, NEW a \in DOMAIN args, NEW p \in Paths, NEW q \in Paths,
                 p # q, Inode[p] = Inode[q], Queued(p), Queued(q),
                 args[a].folder, InFolder(args[a], p), InFolder(args[a], q)
          PROVE  \E b \in DOMAIN args \ {a} : InFolder(args[b], p) \/ InFolder(args[b], q)
      BY <2>3, <2>7 DEF DriverInv, ScanInv, ApartInv
    <2>8. QED
      BY <2>4, <2>6, <2>7 DEF QueueIsScan
  <1>2. QED
    BY <1>1, DriverAlways, PTL

\* Of the files process_file_info() does not pass over (afsctool.c:2033-2055, zfsctool's
\* passes over none) the counters of jobInfo, which every worker adds to without a lock
\* (afsctool.c:2074, zfsctool.cpp:1395), are at most what main() and the workers have
\* counted, above what main() counted if they counted anything, and exact with one
\* worker; and unless there was a quit run() has returned with every queued file
\* processed.
THEOREM StatsAreSound == Spec => []StatsOfTheRun
  <1>1. DriverInv => StatsOfTheRun
    <2> SUFFICES ASSUME DriverInv, mpc = "returned" PROVE StatsOfTheRun
      BY DEF StatsOfTheRun
    <2> DEFINE F == Cardinality(Tallied)
               N == Cardinality(Tallied \cap compressed)
    <2>1. ~Scanning /\ Busy = {} /\ Held = {}
      BY DEF DriverInv, FilesInv, Scanning, Held
    <2>2. DoneFiles = {} /\ DoneCompressed = {}
      BY <2>1 DEF DoneFiles, DoneCompressed, Busy
    <2>3. F \in Nat /\ N \in Nat /\ FilesCounted = F /\ CompressedCounted = N
      <3>1. Cardinality(DoneFiles) = 0 /\ Cardinality(DoneCompressed) = 0
        BY <2>2, NothingCounted
      <3>2. F \in Nat /\ N \in Nat
        BY FileNumbers, IoAssumption DEF DriverInv
      <3>3. FilesCounted = F + 0 /\ CompressedCounted = N + 0
        BY <3>1 DEF FilesCounted, CompressedCounted
      <3>4. QED
        BY <3>2, <3>3
    <2> HIDE DEF F, N
    <2>4. /\ Lossy(jobInfo.files, Own, F) /\ Lossy(jobInfo.compressed, OwnCompressed, N)
          /\ nJobs = 1 => jobInfo.files = Own + F /\ jobInfo.compressed = OwnCompressed + N
      BY <2>1, <2>3 DEF DriverInv, StatInv, CountInv
    <2>5. nJobs = 1 => jobInfo = [files |-> Own + F, compressed |-> OwnCompressed + N]
      BY <2>4 DEF DriverInv, StatInv, StatType
    <2>6. quitRequestedFlag \/ processed = {started[k] : k \in DOMAIN started}
      <3>1. /\ Elements(started) = Elements(itemList) \cup Held \cup processed
            /\ quitRequestedFlag \/ itemList = <<>>
        BY <2>1 DEF DriverInv, FilesInv
      <3>2. DOMAIN started = 1 .. Len(started)
        BY DEF DriverInv, ScanInv, MainType
      <3>3. Elements(<<>>) = {}
        BY DEF Elements
      <3>4. QED
        BY <2>1, <3>1, <3>2, <3>3 DEF Elements
    <2>7. OwnCompressed = Cardinality({a \in OwnTallied : args[a].paths[1] \in Compressed0})
      BY DEF OwnCompressed, Old
    <2>8. tool = "zfsctool" => uncounted = {} /\ uncountedArgs = {}
      BY DEF DriverInv, StatInv, PassedInv
    <2>9. QED
      BY <2>4, <2>5, <2>6, <2>7, <2>8 DEF StatsOfTheRun, Lossy, Own, F, N
  <1>2. QED
    BY <1>1, DriverAlways, PTL
=============================================================================
