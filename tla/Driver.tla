------------------------------- MODULE Driver -------------------------------
(***************************************************************************)
(* main() of afsctool and of zfsctool with -jN or -JN: the arguments and   *)
(* the folders among them are gone through, compressable files are queued, *)
(* the workers empty the queue, and jobInfo is reported.  Each file is     *)
(* compressed as in IoLock; how run() starts, waits for and stops the      *)
(* workers is WorkerPool's.                                                *)
(*                                                                         *)
(* -v is given: without it process_file_info() is not called by workers.   *)
(* Of the statistics num_files and num_compressed stand for all.           *)
(***************************************************************************)
EXTENDS IoLock, Functions

CONSTANTS
    Compressable,       \* the paths fileIsCompressable() is true of
    Compressed0,        \* those that are compressed already
    Size,               \* st_size, by path
    ArgLists,           \* sequences of [folder, paths]
    MaxUncounted,       \* a bound on the files process_file_info() fails on
    Settings            \* of -f, -S, -j and -R: [links, sort, jobs, reverse]

ASSUME DriverAssumption ==
    /\ Compressable \subseteq Paths /\ Compressed0 \subseteq Paths \ Compressable
    /\ Size \in [Paths -> Nat] /\ MaxUncounted \in Nat
    \* fileIsCompressable() looks at the file, not at its name
    /\ \A p, q \in Paths : Inode[p] = Inode[q] => (p \in Compressable <=> q \in Compressable)
    /\ ArgLists \subseteq Seq([folder : BOOLEAN, paths : Seq(Paths)])
    /\ \A l \in ArgLists : \A a \in DOMAIN l :
         Len(l[a].paths) > 0 /\ (l[a].folder \/ Len(l[a].paths) = 1)
    /\ Settings \subseteq [links : BOOLEAN, sort : BOOLEAN, jobs : 1..MaxJobs, reverse : Nat]
    /\ \A s \in Settings : s.reverse > 0 => s.sort

VARIABLES
    args, arg,          \* argv, and the one it is at
    walk,               \* what fts_read() has yet to return
    check_hard_links, sortQueue,
    ino2PathMap,
    itemList, itemForName,
    jobInfo,            \* of the processor
    jobInfoInitialised,
    nJobs, nReverse,
    quitRequestedFlag,
    reg,                \* what each worker has read of a counter
    started,            \* the queue run() was called with: a history
    processed,          \* a history
    uncounted,          \* those of them process_file_info() failed on,
    uncountedArgs,      \* and the arguments: histories
    mpc

scanVars == <<args, arg, walk, check_hard_links, sortQueue, ino2PathMap>>
queueVars == <<itemList, itemForName, nJobs, nReverse, started>>
statVars == <<jobInfo, jobInfoInitialised, reg, uncounted, uncountedArgs>>
vars == <<ioVars, scanVars, queueVars, statVars, quitRequestedFlag, processed, mpc>>

NoCounts == [files |-> 0, compressed |-> 0]
NoLinks == [i \in Range(Inode) |-> NoPath]
Linked(p) == \E q \in Paths \ {p} : Inode[q] = Inode[p]

Init ==
    /\ InitIo
    /\ args \in ArgLists /\ arg = 1 /\ walk = <<>>
    /\ \E s \in Settings : /\ check_hard_links = s.links /\ sortQueue = s.sort
                            /\ nJobs = s.jobs /\ nReverse = s.reverse
    /\ ino2PathMap = NoLinks
    /\ itemList = <<>> /\ itemForName = {}
    /\ jobInfo = NoCounts /\ jobInfoInitialised = FALSE
    /\ quitRequestedFlag = FALSE
    /\ reg = [w \in Workers |-> 0]
    /\ started = <<>> /\ processed = {} /\ uncounted = {} /\ uncountedArgs = {}
    /\ mpc = "args"
-----------------------------------------------------------------------------
(* Slips this code could contain, each a variant of a definition below.     *)

\* the hard links of one folder still known in the next
ForgottenLinks(map) == map

\* memcpy() of folderinfo to jobInfo without the fields being reset
ResetNothing(counts) == counts

\* the queue not asked whether it has the file
AddAlways(p) ==
    /\ itemList' = Append(itemList, p)
    /\ itemForName' = itemForName \cup {p}
-----------------------------------------------------------------------------
(* Filling the queue.                                                       *)

\* addFileToParallelProcessor()
AddFile(p) ==
    IF p \in itemForName
      THEN UNCHANGED <<itemList, itemForName>>
      ELSE itemList' = Append(itemList, p) /\ itemForName' = itemForName \cup {p}

\* process_file_info() by the one thread there is
Counted(counts, p) ==
    [files |-> counts.files + 1,
     compressed |-> counts.compressed + IF p \in Compressed0 THEN 1 ELSE 0]

\* No memory, or the second listxattr() or a getxattr() fails: process_file_info()
\* of afsctool returns before it counts.
InfoFails ==
    /\ tool = "afsctool"
    /\ Cardinality(uncounted) + Cardinality(uncountedArgs) < MaxUncounted

\* To the queue, or to the statistics.
PreProcess(p) ==
    IF p \in Compressable THEN AddFile(p) /\ UNCHANGED jobInfo
    ELSE /\ jobInfo' = Counted(jobInfo, p) \/ (InfoFails /\ UNCHANGED jobInfo)
         /\ UNCHANGED <<itemList, itemForName>>

FileArgument ==
    /\ mpc = "args" /\ arg <= Len(args) /\ ~args[arg].folder
    /\ LET p == args[arg].paths[1]
       IN /\ PreProcess(p)
          /\ uncountedArgs' = IF p \notin Compressable /\ jobInfo' = jobInfo
                                THEN uncountedArgs \cup {arg} ELSE uncountedArgs
    /\ arg' = arg + 1
    /\ UNCHANGED <<ioVars, args, walk, check_hard_links, sortQueue, ino2PathMap, nJobs, nReverse,
                   started, jobInfoInitialised, reg, uncounted, quitRequestedFlag, processed, mpc>>

FolderArgument ==
    /\ mpc = "args" /\ arg <= Len(args) /\ args[arg].folder
    /\ walk' = args[arg].paths
    /\ mpc' = "walk"
    /\ UNCHANGED <<ioVars, args, arg, check_hard_links, sortQueue, ino2PathMap, queueVars,
                   statVars, quitRequestedFlag, processed>>

\* checkForHardLink() says another name of this file has been met.
IsHardLink(p) ==
    /\ check_hard_links /\ Linked(p)
    /\ ino2PathMap[Inode[p]] \notin {NoPath, p}

\* process_folder()'s loop, on a regular file
WalkFile ==
    /\ mpc = "walk" /\ walk # <<>>
    /\ LET p == Head(walk)
       IN /\ IF IsHardLink(p) THEN UNCHANGED <<itemList, itemForName, jobInfo>>
                              ELSE PreProcess(p)
          /\ ino2PathMap' =
               IF check_hard_links /\ Linked(p) /\ ino2PathMap[Inode[p]] = NoPath
                 THEN [ino2PathMap EXCEPT ![Inode[p]] = p] ELSE ino2PathMap
    /\ walk' = Tail(walk)
    /\ UNCHANGED <<ioVars, args, arg, check_hard_links, sortQueue, nJobs, nReverse, started,
                   jobInfoInitialised, reg, uncounted, uncountedArgs, quitRequestedFlag,
                   processed, mpc>>

\* checkForHardLink(NULL, NULL, NULL)
LinksAfterFolder(map) == NoLinks

\* memcpy(jobInfo, folderinfo), "reset certain fields"
ResetCounts(counts) == NoCounts

EndFolder ==
    /\ mpc = "walk" /\ walk = <<>>
    /\ ino2PathMap' = LinksAfterFolder(ino2PathMap)
    /\ jobInfo' = ResetCounts(jobInfo)
    /\ jobInfoInitialised' = TRUE
    /\ arg' = arg + 1 /\ mpc' = "args"
    /\ UNCHANGED <<ioVars, args, walk, check_hard_links, sortQueue, queueVars, reg, uncounted,
                   uncountedArgs, quitRequestedFlag, processed>>

\* std::sort() by st_size: files of one size come in any order.
Sorted(q) ==
    {[k \in DOMAIN q |-> q[b[k]]] :
        b \in {b \in Bijection(DOMAIN q, DOMAIN q) :
                \A j, k \in DOMAIN q : j < k => Size[q[b[j]]] <= Size[q[b[k]]]}}

\* The queue is sorted, and there are no more workers than files.
StartRun ==
    /\ mpc = "args" /\ arg > Len(args)
    /\ jobInfo' = IF jobInfoInitialised THEN jobInfo ELSE ResetCounts(jobInfo)
    /\ jobInfoInitialised' = TRUE
    /\ itemList' \in IF sortQueue THEN Sorted(itemList) ELSE {itemList}
    /\ started' = itemList'
    /\ IF itemList # <<>> /\ nJobs > Len(itemList)
         THEN /\ nJobs' = Len(itemList)
              /\ nReverse' = IF nJobs' < nReverse THEN nJobs' ELSE nReverse
         ELSE UNCHANGED <<nJobs, nReverse>>
    /\ mpc' = IF itemList = <<>> THEN "nothing" ELSE "run"
    /\ UNCHANGED <<ioVars, scanVars, itemForName, reg, uncounted, uncountedArgs,
                   quitRequestedFlag, processed>>

\* The handler sets the processor's flag, and not the quitRequested that the walk,
\* process_file_info() and compressFile() look at.  Only zfsctool catches signals
\* before the queue is run.
Quit ==
    /\ ~quitRequestedFlag
    /\ mpc = "run" \/ (tool = "zfsctool" /\ mpc \in {"args", "walk"})
    /\ quitRequestedFlag' = TRUE
    /\ UNCHANGED <<ioVars, scanVars, queueVars, statVars, processed, mpc>>
-----------------------------------------------------------------------------
(* Emptying it: FileProcessor::Run() and FileEntry::compress().             *)

Take(w) ==
    /\ mpc = "run" /\ w <= nJobs /\ ~quitRequestedFlag /\ itemList # <<>>
    /\ Goto(w, "idle", "entered")
    /\ LET rear == w > nJobs - nReverse
       IN /\ held' = [held EXCEPT ![w] = IF rear THEN itemList[Len(itemList)] ELSE Head(itemList)]
          /\ itemList' = IF rear THEN SubSeq(itemList, 1, Len(itemList) - 1) ELSE Tail(itemList)
    /\ UNCHANGED <<options, lock, fdOpen, compressed, scanVars, itemForName, nJobs, nReverse,
                   started, statVars, quitRequestedFlag, processed, mpc>>

Compress(w) ==
    /\ CompressStep(w)
    /\ UNCHANGED <<scanVars, queueVars, statVars, quitRequestedFlag, processed, mpc>>

\* folderinfo->num_files++, and num_compressed++ after it, of a jobInfo all
\* workers share: each reads, then writes.
ReadCounter(w) ==
    /\ \/ /\ Goto(w, "returned", "files")
          /\ reg' = [reg EXCEPT ![w] = jobInfo.files]
       \/ /\ Goto(w, "filesDone", IF held[w] \in compressed THEN "compressed" ELSE "counted")
          /\ reg' = [reg EXCEPT ![w] = jobInfo.compressed]
    /\ UNCHANGED <<options, lock, held, fdOpen, compressed, scanVars, queueVars, jobInfo,
                   jobInfoInitialised, uncounted, uncountedArgs, quitRequestedFlag, processed,
                   mpc>>

WriteCounter(w) ==
    /\ \/ /\ Goto(w, "files", "filesDone")
          /\ jobInfo' = [jobInfo EXCEPT !.files = reg[w] + 1]
       \/ /\ Goto(w, "compressed", "counted")
          /\ jobInfo' = [jobInfo EXCEPT !.compressed = reg[w] + 1]
    /\ UNCHANGED <<options, lock, held, fdOpen, compressed, scanVars, queueVars, reg,
                   jobInfoInitialised, uncounted, uncountedArgs, quitRequestedFlag, processed,
                   mpc>>

CountFails(w) ==
    /\ Goto(w, "returned", "uncounted")
    /\ InfoFails
    /\ UNCHANGED <<options, lock, held, fdOpen, compressed, scanVars, queueVars, statVars,
                   quitRequestedFlag, processed, mpc>>

\* itemForName().erase(), and the end of the Scope
EndFile(w) ==
    /\ Goto(w, "counted", "idle") \/ Goto(w, "uncounted", "idle")
    /\ ScopeDestroyed(w)
    /\ itemForName' = itemForName \ {held[w]}
    /\ processed' = processed \cup {held[w]}
    /\ uncounted' = IF stage[w] = "uncounted" THEN uncounted \cup {held[w]} ELSE uncounted
    /\ held' = [held EXCEPT ![w] = NoPath]
    /\ locked' = [locked EXCEPT ![w] = FALSE]
    /\ reg' = [reg EXCEPT ![w] = 0]
    /\ UNCHANGED <<options, ioLockedFlag, fdOpen, compressed, scanVars, itemList, nJobs, nReverse,
                   started, jobInfo, jobInfoInitialised, uncountedArgs, quitRequestedFlag, mpc>>

WorkerStep(w) ==
    \/ Take(w) \/ Compress(w) \/ EndFile(w)
    \/ ReadCounter(w) \/ WriteCounter(w) \/ CountFails(w)

\* run() returns when its workers have ended.
RunReturns ==
    /\ mpc = "run" /\ (itemList = <<>> \/ quitRequestedFlag)
    /\ \A w \in Workers : stage[w] = "idle"
    /\ mpc' = "returned"
    /\ UNCHANGED <<ioVars, scanVars, queueVars, statVars, quitRequestedFlag, processed>>

MainStep == FileArgument \/ FolderArgument \/ WalkFile \/ EndFolder \/ StartRun \/ RunReturns

Done == mpc \in {"returned", "nothing"}
Stopped == (Done \/ Circular) /\ UNCHANGED vars

Next == MainStep \/ Quit \/ (\E w \in Workers : WorkerStep(w)) \/ Stopped

Spec == Init /\ [][Next]_vars

\* The threads are scheduled; the kernel's own waits end when they can.
FairSpec ==
    /\ Spec
    /\ WF_vars(MainStep)
    /\ \A w \in Workers : WF_vars(WorkerStep(w))
-----------------------------------------------------------------------------
InFolder(f, p) == \E k \in DOMAIN f.paths : f.paths[k] = p
Queued(p) == \E k \in DOMAIN started : started[k] = p

\* run() is given each compressable file of the arguments once
\* (ParallelProcess.cpp:496-513), but for those hard links to a file of the same
\* folder that -f leaves out (utils.cpp:18-53): none because of another folder's,
\* and never all the names of a file.
QueueIsScan ==
    mpc \in {"run", "returned", "nothing"} =>
      /\ \A j, k \in DOMAIN started : started[j] = started[k] => j = k
      /\ \A a \in DOMAIN args : \A k \in DOMAIN args[a].paths :
           LET p == args[a].paths[k]
           IN p \in Compressable /\ ~Queued(p) =>
                /\ check_hard_links
                /\ \E q \in Paths \ {p} : InFolder(args[a], q) /\ Inode[q] = Inode[p] /\ Queued(q)
      /\ check_hard_links =>
           \A a \in DOMAIN args : \A p, q \in Paths :
             /\ p # q /\ Inode[p] = Inode[q] /\ Queued(p) /\ Queued(q)
             => ~(args[a].folder /\ InFolder(args[a], p) /\ InFolder(args[a], q))
                \/ \E b \in DOMAIN args \ {a} : InFolder(args[b], p) \/ InFolder(args[b], q)

\* The file arguments jobInfo counts itself: those after the last folder, and
\* none if there is no folder.
Trailing ==
    {a \in DOMAIN args :
        /\ args[a].paths[1] \notin Compressable
        /\ \E f \in 1..(a - 1) : args[f].folder
        /\ \A f \in a..Len(args) : ~args[f].folder}

Tallied == processed \ uncounted
OwnTallied == Trailing \ uncountedArgs

\* What main() prints is what its workers have processed, but for the files
\* whose attributes afsctool fails to read, which it passes over without a word
\* in the statistics (afsctool.c:2033-2055).  Of the others the count is exact,
\* when there was one worker; the updates several of them make to jobInfo
\* without a lock (afsctool.c:2074, 2187; zfsctool.cpp:1395, 1400) may be lost,
\* but never all, and none is made up, by a folder's own counts
\* (afsctool.c:3397) or otherwise.  zfsctool passes over none.
StatsOfTheRun ==
    mpc = "returned" =>
      LET own == Cardinality(OwnTallied)
          old == Cardinality({a \in OwnTallied : args[a].paths[1] \in Compressed0})
          files == Cardinality(Tallied)
          new == Cardinality(Tallied \cap compressed)
      IN /\ jobInfo.files \in own..(own + files)
         /\ files > 0 => jobInfo.files > own
         /\ jobInfo.compressed \in old..(old + new)
         /\ new > 0 => jobInfo.compressed > old
         /\ nJobs = 1 => jobInfo = [files |-> own + files, compressed |-> old + new]
         /\ quitRequestedFlag \/ processed = {started[k] : k \in DOMAIN started}
         /\ tool = "zfsctool" => uncounted = {} /\ uncountedArgs = {}

\* main() comes to its end, the queue empty or a quit requested, but for one
\* circular wait: two names of a file, O_EXLOCK, and a verifying open() that
\* holds the ioLock (afsctool.c:1110, zfsctool.cpp:1136).
AllProcessed == <>Done \/ <>[]Circular
=============================================================================
