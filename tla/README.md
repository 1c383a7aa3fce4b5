# A verification project for afsctool and zfsctool

This directory holds TLA+ models of afsctool (HFS+/APFS file compression) and
zfsctool (recompression of files on ZFS datasets), TLC configurations that check
them, and proofs checked by TLAPS. The models are translated from the code under
`src/`; line numbers in comments are those of the modelled revision.

## The system

| component | state it keeps | operations |
|---|---|---|
| worker pool (`ParallelProcess.cpp`, `ParallelProcess_p.hpp`) | the deque of `FileEntry`, the thread pool, `nJobs`, `nProcessing`, `nProcessed`, `quitRequestedFlag`, `allDoneEvent`, the `ioLock` | build and sort the list; `run()`; `FileProcessor::Run`; `workerDone`; quit |
| afsctool `compressFile` (`afsctool.c`) | one file: data fork, resource fork, decmpfs attribute, UF_COMPRESSED, mode; a backup in `/tmp` | probe, read, back up, encode, truncate, write attributes, set the flag, verify, revert |
| afsctool `decompressFile` | the same file | decode, write back, clear flag and attributes |
| chunked encoding (in `compressFile`) | output buffer, chunk table, block offsets | one step per 64 KB chunk and codec |
| zfsctool `compressFile` and `ZFSDataSetCompressionInfo` (`zfsctool.cpp`) | a dataset's compression property, what the program believes it is, a reference count, `readOnly`; the file, its backup and its label attribute | set, reset, rewrite, verify, label; reset at exit |
| dataset registry (`zfsctool.cpp`, pool maps) | maps from file systems, files and names to datasets | look up, register, delete |
| driver and statistics (`afsctool.c`, `zfsctool.cpp` `main`, `process_folder`, `process_file_info`) | `jobInfo`, `folderinfo` | walk the arguments, collect, choose the number of workers, report |
| Thread class (`Thread/`) | handle, suspension state, exit code | start, stop, suspend, wait at start locks |
| event, thread, mutex and semaphore emulation (`CritSectEx/msemul.*`) | handles, `isSignalled`, the list of open handles | wait, signal, terminate, join, close |
| critical sections (`CritSectEx/CritSectEx.h`) | a mutex and two flags | lock, unlock, scope |

How they interact. `main` queues files, then calls `run()`, which starts the
workers and waits for `allDoneEvent`. A worker takes an entry under `listLock`,
calls `compressFile()` of the tool, and, when the queue is empty or the user has
asked to quit, goes through `workerDone()`, the last one setting the event. Within
`compressFile()` the `ioLock`, taken by `lockScope()`, makes rewrites exclusive: from
before the reading in afsctool with `-j` (released while it encodes), for the rewriting
alone in afsctool with `-J` and in zfsctool with `-j`, and not at all in zfsctool with `-J`.
zfsctool's workers also share the dataset: the first one to rewrite changes its
compression by a `zfs set` child process, and the last one to finish changes it back,
or, with `-q`, the main thread does so at the end. A signal
sets the quit flag; `run()` then waits a while and cancels the workers that remain.

What is hard: the end of the pool, where `run()` deletes an event, threads and
objects that workers may still be using; a lock whose holder is known by a flag that all
workers share; counters they add to without a lock; cancellation in the middle of a
rewrite or of a command; a reference count and the action it decides on being two steps; and,
in the rewriting of a single file, a dozen calls each of which can fail when the
file has already been truncated. What makes each component correct: the pool
processes every file once and returns; `compressFile()` leaves the file as it was or
compressed with the same content, or leaves a backup; the dataset has the new
compression while files are rewritten and the old one afterwards.

## The modules

- `FileJobs` is what the parallel mode promises: a file is taken by one worker and
  finished once; the call returns when all are finished or a stop was asked for.
- `WorkerPool` is the pool. `wpc` is where each worker is in `EntryPoint`, `Run` and
  `CleanupThread`; `mpc` is where the calling thread is in `run()`. An action is the
  longest stretch of code with one access to shared memory, or a section under
  `listLock` or `threadLock`. `StartWorker` tests the current `nJobs`, as the code
  does; `WorkerDone` and `SignalAllDone` are two steps because `run()` can clear the
  event in between; `DestroyWorker` is the destructor's second call of
  `CleanupThread()`. `spurious` records that `pthread_cond_timedwait()` has returned 0
  without a signal, which POSIX allows and the emulation reports as the event.
- `ZfsDataset` is one dataset and the rewriting of its files: `compressFile()` of
  zfsctool by a set of workers, `setCompression()`, `resetCompression()`,
  `EmptyFSIdMap()` and the destructor. The pool is reduced to what matters here:
  workers take files in any order, stop when told, and may then be cancelled. `opt` is
  the set of options of the invocation. A command whose caller was cancelled lives on
  in `orphan`. `unflushed` has the files for which an unchecked `fclose()`, of the file or
  of its backup, could not write; `BreakOff` is the return from within the loop over the
  arguments, which leaves out `EmptyFSIdMap()`.
- `CompressFile` is `compressFile()` of afsctool on one file, each call that changes
  the file or the backup being an action with its failure; the process may die between
  any two, and be run again. `Content` is how the kernel presents the file. `ListAttrs`
  goes on with a file of which the first `listxattr()` fails, as the code does, and records
  whether that has hidden a leftover attribute (`"listxattr_leftover"`).
- `DecompressFile` is `decompressFile()`, on the same forks, attribute, flag and mode as
  `CompressFile`: decode, clear the flag, reopen for writing, write, remove the
  attributes; every call may fail, and the process may die between any two.
- `RoundTrip` extends `CompressFile` and instantiates `DecompressFile` on one file; the
  user runs `-c` and `-d` in any order, each finding what the other, a failure or a crash
  has left.
- `ChunkLayout` is the encoding that `CompressFile` has as one step: one action per turn
  of the chunk loop. `outBuf` is the set of extents written to it, so that one chunk
  overwriting another, the table or the trailer is seen; `table` holds the block offsets
  (from `blockStart` for ZLIB, from `outBuf` for LZVN and LZFSE). It ends with the reading
  of the result, by `decompressFile()`'s own checks for ZLIB and by the kernel's rules
  (external) for the others.
- `ThreadControl` is one `Thread` object: `opc` is where its owner is in a method, `wpc`
  where its worker is in `EntryPoint()` or in `StartLocks::Wait()`; the event and the
  suspend count are those of `msemul`. `TerminateTimesOut` is the SIGTERM after five waits
  of a second: a request to quit in zfsctool, and the end of the process in afsctool
  (`opc = "ended"`).
- `IoLock` is the `ioLock`: `MutexEx` and its `Scope`, `lockScope()`, `unLockScope()`, and
  the points of both `compressFile()` where they lock, open, close and unlock. `stage` is
  where each worker is; `fdOpen` matters because some systems lock a file opened with
  `O_EXLOCK`.
- `Driver` extends `IoLock` by what is around it: `main()` of either tool with workers,
  that is the arguments, `process_folder()`, hard links, the queue and its order, the
  number of workers, and `jobInfo`, which the workers update with a read and a write.
  The queue is sorted into any order that the sizes allow, for `std::sort()` promises no
  more; `ino2PathMap` knows each file by the last name met in the folder. `uncounted` and
  `uncountedArgs` are the files and file arguments that afsctool's `process_file_info()`
  passes over because it cannot read their attributes (`InfoFails`).
- `WorkerPoolProofs`, `ZfsDatasetProofs`, `CompressFileProofs`, `RoundTripProofs`,
  `ChunkLayoutProofs`, `ThreadControlProofs` and `DriverProofs` prove theorems about the
  modules they extend, and `Counting` has the lemmas about counters they share.
- `MCWorkerPool`, `MCZfsDataset`, `MCCompressFile`, `MCRoundTrip`, `MCChunkLayout`,
  `MCThreadControl` and `MCDriver` supply TLC's constants.

How they fit together: `WorkerPool` has the threads and their end, with a file's
processing as one step; `Driver` has what is processed, under which lock and with which
counts, with the threads' end left out; `ZfsDataset` and `CompressFile` have what happens
to a dataset and to a file while it is processed; `ThreadControl` has the general `Thread`
of which the pool uses the part without synchronisation points.

`PROJECT.json` maps every definition to its lines. Each module has variants of its
actions ("slips this code could contain"), used only to see that the properties can fail.

### What is abstracted

- Pool: `new` does not fail; cancellation takes effect inside `compress()` only, where
  the cancellation points are; an exit code equal to `STILL_ACTIVE` (259 files) is left
  out, and so are the `ioLock` and the statistics (see `Driver`); `TerminateThread()` may
  give up waiting at any time (`StopTimesOut`); a signal to the deleted event is lost,
  whereas in the program it is a use of freed memory.
- Dataset: one dataset; the codec `test` is left out; the check of the quit flag and the
  taking of a file are one step; rewritten files are always checked; the file's mode and
  times are left out. Cancelling a thread unwinds its scopes, as on Linux.
- `compressFile()`: `chmod` and `utimes` do not fail; the program may be the superuser's
  (`open` may succeed without permission); the encoders are one step whose result may be
  wrong (see `ChunkLayout`); the `ioLock` is left out (see `IoLock`), and so is the
  difference between read and mapped input.
- `decompressFile()`: as above; decoding is one step; the flags of a file other than
  `UF_COMPRESSED` are one bit, `hidden`. The program can abort
  by closing or freeing twice; it does so with the file untouched.
- Chunks: a compressor is the size it returns; a chunk is its number; the output buffers
  of LZVN and LZFSE are taken to be large enough, as the code takes them.
- `Thread`: one owner; `Join()`, `Cancel()` and priorities are left out, and so are the
  counters of waiting workers, which nothing reads.
- `IoLock` and `Driver`: `-v` is given, without which the workers count nothing;
  `num_files` and `num_compressed` stand for all counters; a file is compressed with
  success, skipped, or refused by `open()`; a quit stops workers between files; and
  `main()` goes through all arguments (`ZfsDataset` has its early returns).

## The runs

| run | question | result |
|---|---|---|
| `MCWorkerPool` | Does the pool implement `FileJobs`; are its counters and its event truthful; does it interrupt only when told (or woken spuriously); does `run()` return? 3 workers, 1 of them at the rear, 3 files | passes |
| `MCPoolHang` | Does `run()` always return, as its comment says? | no |
| `MCZfsDataset` | What do the reference count, the `ioLock` and the resets at exit guarantee? 2 workers, 3 files; `-jN`, `-JN`, `-JN -q`, `-b`, `-b -q`; write and command failures, one `fclose()` that cannot write, a path that cannot be had, quit | passes |
| `MCZfsRace` | Is the compression reset only when no file is being processed? | no |
| `MCZfsAbandoned` | Is the property restored after a quit? | no |
| `MCCompressFile` | Is the content always in the file or in a backup; is one failure undone; is nothing left half done? All options, both builds, 3 failures, 2 runs, a crash anywhere | passes |
| `MCRoundTrip` | Is what the file held ever lost over two compressions and two decompressions; is one failure of `decompressFile()` undone; is a decompressed file a plain one? Both families of types, with and without the check and `-b`, 2 failures, a crash anywhere | passes |
| `MCThreadControl` | Does a worker wait at its synchronisation points until notified, and then go on; does the destructor return, or is the process ended by its SIGTERM? 5 kinds of threads, 6 calls, 1 spurious wakeup | passes |
| `MCChunkLayout` | Is nothing written past `outBuf`, and does the reader find every chunk? 3 codecs, both builds, 10 file sizes, any result of the compressor | passes |
| `MCDriver` | Is disk I/O as exclusive as documented; is each file queued once; is the report that of the files not passed over; does `main()` end? 2 workers, 5 paths of which 2 are one file, 5 argument lists, 3 settings, 1 file passed over | passes |
| `MCCompressUndo` | Is every single failure undone? (nested-function build) | no |
| `MCCompressRestore` | Does `restoreFile` restore? (build with blocks) | no |

The five violations are disagreements with the program's comments or README:

1. `run()` bounds the loop that starts the workers by `nJobs`, the counter that a
   finished worker decrements. With few small files the last workers are never started
   and `run()` waits for ever. `StartedReturns` is what holds.
2. `resetCompression()` decides outside the critical section that it resets in. With
   `-JN`, a worker may begin to rewrite between the two. `CompressionHeld` shows that
   `-jN` and `-q` are free of this.
3. A worker cancelled while it waits for `zfs set` leaves the command to change the
   property when the program believes it unchanged.
4. A failing `setxattr` of the decmpfs attribute after the data fork was emptied goes to
   `bail` without restoring, and without `-b` the content is lost; with `-b` the backup
   is unlinked.
5. The block `restoreFile` captured `inBuf` when it was `NULL`.

The passing properties name their exceptions, and these are facts about the code too:
a spurious wakeup acts as a quit request; a rewrite that fails never gives its reference
back, so that `ResetWhenIdle` excludes it; a file rewritten after a refused or failed
`setCompression()` is labelled as compressed (`refused` in `LabelTruthful`); a worker that
has tested `readOnly` rewrites after the disk was found full; `fclose()` of a backup is
not checked (`ContentOrBackup`, and for zfsctool `BackupKept`); a flag set as a trial that cannot be cleared stays set,
and the early returns after the `chmod` calls do not restore the mode (the reason why
`CompressedIsSame` speaks of files reported as compressed).

Four of these deserve a closer look:

- A first `listxattr()` that fails counts as an empty list (afsctool.c:447-449). If a crash
  or a failed clean-up has left an attribute or a fork, the file is then compressed over:
  the `setxattr()` of decmpfs finds an attribute, `compressFile()` goes to `bail` without
  undoing what it did, and the content may be lost; or an inline attribute is written beside
  a leftover fork, which `decompressFile()` does not remove. `ContentOrBackup`,
  `OneFailureUndone`, `NothingHalfDone`, `NotBuiltUpon`, `OriginalKept` and
  `UncompressedIsWhole` except this call, and only when something was left over
  (`"listxattr_leftover"`).
- zfsctool writes a file again when the check has found it wrong, and ignores what
  `fclose()` says of that, as it does for the backup (zfsctool.cpp:1061, 1191). A file may
  thus be reported as rewritten, be damaged, and have lost its backup: `BackupKept` excepts
  `unflushed`.
- When a path of an argument cannot be had, zfsctool returns from within the loop over the
  arguments (zfsctool.cpp:1764-1775), and nothing restores a dataset that an earlier
  argument has changed for good: `RestoredAtExit` says that this takes `-q`, a failed
  rewrite or a failed reset.
- `Suspend()` does not record a first suspension, so that `Stop()` cancels a worker that
  cannot act on it. After five seconds the worker is sent a SIGTERM (msemul.h:472-474),
  which ends afsctool. `DestructorReturns` excepts this, and a worker that is in its own
  methods.

The same holds of the newer modules:

- `AllProcessed` of `Driver` excepts `Circular`: two workers with two names of one file
  wait for each other, one with the `ioLock` and one with the file, where `O_EXLOCK`
  exists, for the verifying `open()` waits for the file with the lock held. Only afsctool
  with `-J` and zfsctool with `-j` can get there; `run()` then never returns.
- `DiskIOExclusive` says what is exclusive. zfsctool's usage says that `-j` makes all disk
  I/O so, but the file is read before the lock is taken (zfsctool.cpp:989-1066).
- `ioLockedFlag` is one flag for all workers, so that `unLockScope()` may find it cleared
  by another; the destructor of the worker's `Scope` then releases the lock, which is why
  `DiskIOExclusive` holds.
- `StatsOfTheRun` is about the files that `process_file_info()` counts: it returns before
  that when it has no memory or cannot read the attributes (afsctool.c:2033-2055). Of these
  it bounds the counts only, for the workers add to `jobInfo` without a lock; and with
  folders among the arguments, resetting `jobInfo` drops what earlier file arguments had
  contributed.
- `QueueIsScan`: hard links are recognised within one folder argument, since the map is
  cleared after each; two names of a file in two folders are both queued.
- The signal handlers set the processor's flag only, never afsctool's static
  `quitRequested`, and zfsctool's only before there is a processor. A signal stops the
  workers, not the walk.
- `OriginalKept` excepts a decmpfs attribute that cannot be removed: the trial of the flag
  in the next run makes it the file's content, and decompressing writes that over the data.
- `DecompressUndone`: when the file cannot be opened for writing, the flags are restored
  with `UF_COMPRESSED & st_flags`, which loses the others (afsctool.c:1622); and the two
  `chmod()` calls each set the original mode with one bit more, so that the second undoes
  the first and a file that may be neither read nor written cannot be opened.
- `RoundTrips` and `InBounds` hold for what the compressor returns within
  `compressBound()`. A file stored in the attribute is never tested against the size it had,
  nor against `-s` (the TODO at afsctool.c:937-946).
- `ReleasedByNotify` allows two passes for one `Notify()`: a wait that times out just before
  the event is set leaves it set for the next one. `NotifiedLeaves` excepts a `Suspend()` in
  between. Calling `Start()` twice on a running worker throws.

### Bounds

Three workers and three files in the pool are the least with which one worker can leave
early, one be at work and one not yet started, with a front and a rear attack on the
same queue. The dataset needs two workers for every interleaving of a set and a reset,
and a third file for a rewrite after a failed one. `MaxUnflushed` allows one `fclose()` that
cannot write, of a file or of a backup; `PathFaults` whether the loop over the arguments may
be left early. In `CompressFile` two failures allow one in the operation and one in its
recovery, and the third hides from the next run what these have left; two runs allow the
second to find what the first has left; `RoundTrip` has two of each direction, so that
each can meet the other's leavings twice. In `ThreadControl` six calls are enough to start, suspend, continue,
restart and notify a worker at two points, and one spurious wakeup to have a wait end
early. In `ChunkLayout` the file sizes are those where the code decides otherwise: one
byte, the limit of the attribute (3802 less the header) and its neighbours, one and two
chunks and their neighbours, four chunks; the compressor may return small sizes around
that limit, or the chunk's size and a little less or more, and chooses anew for each
chunk. In `Driver` two workers are the least for a race, a lock and a circular wait; the
argument lists cover files and folders in either order, a file met twice, hard links in
one folder and in two, and nothing to do; the settings cover `-f`, `-S`, `-R` and a number
of jobs less than the files; `MaxUncounted` allows one file to be passed over, beside which
there are others to count. No counter is cut: what is bounded is the number of files,
workers, runs, calls and failures.

### Fairness

`WorkerPool` and `ZfsDataset` assume weak fairness of each thread's next step, and of the
main thread's: threads are preemptively scheduled, timed waits expire, files are finite,
and the commands the program starts end. Nothing is assumed of signals, failures,
cancellations, spurious wakeups or of the return from the loop over the arguments. The locks need no strong fairness, since a holder
never takes the same lock again while another waits for ever: each worker ends after
finitely many files. `Driver` assumes the same of `main()` and of each worker; a wait in
`open()` or for the lock is a guard, so that it ends only when it can. `ThreadControl`
assumes weak fairness of the worker and of a call the owner has made, but not that the
owner makes one, except the destructor once begun. `CompressFile`, `RoundTrip` and
`ChunkLayout` are sequential, with safety properties only.

## The proofs

Every invariant and action property that a passing run checks is also a theorem, for
every value of the constants, and so is the refinement of `FileJobs` by `WorkerPool`.
None of the properties is inductive: each proof module defines an invariant that is, as a
conjunction of named parts, proves that it holds initially and after every step, with a
lemma for each part (and for each action that disturbs it), and reads the properties off
it. Each was checked by TLC on the instance of the run before it was proved.

| module | theorems (of) | inductive invariant |
|---|---|---|
| `WorkerPoolProofs` | `TypeCorrect` (`TypeOK`), `ConservesFiles` (`FilesConserved`), `CountersAreExact` (`CountersExact`), `EventIsTruthful` (`EventTruthful`), `StopsOnlyWhenInterrupted` (`OnlyQuitInterrupts`), `DeletedAtRest` (`DeletedIsTerminated`), `PoolRefinesJobs` (`RefinesFileJobs`) | `PoolInv` |
| `ZfsDatasetProofs` | `TypeCorrect` (`TypeOK`), `CountIsExact` (`RefcountExact`), `BeliefIsTrue` (`CurrentIsProperty`), `CompressionIsHeld` (`CompressionHeld`), `LabelIsTrue` (`LabelTruthful`), `IdleIsReset` (`ResetWhenIdle`), `ExitRestores` (`RestoredAtExit`), `BackupIsKept` (`BackupKept`) | `DatasetInv` |
| `CompressFileProofs` | `TypeCorrect` (`TypeOK`), `OriginalIsSafe` (`ContentOrBackup`), `FailureIsUndone` (`OneFailureUndone`), `AllOrNothing` (`NothingHalfDone`), `SuccessIsSame` (`CompressedIsSame`), `NeverBuildsOn` (`NotBuiltUpon`) | `CompressInv` |
| `RoundTripProofs` | `TripTypeCorrect` (`TripTypeOK`), `OriginalIsKept` (`OriginalKept`), `DecompressIsUndone` (`DecompressUndone`), `DecompressedIsWhole` (`UncompressedIsWhole`) | `TripInv` |
| `ChunkLayoutProofs` | `TypeCorrect` (`TypeOK`), `StaysInBounds` (`InBounds`), `ComesBack` (`RoundTrips`) | `LayoutInv` |
| `ThreadControlProofs` | `TypeCorrect` (`TypeOK`), `PassesAreNotified` (`ReleasedByNotify`) | `ThreadInv` |
| `DriverProofs` | `DiskExclusive` (`DiskIOExclusive`), `QueueMatchesScan` (`QueueIsScan`), `StatsAreSound` (`StatsOfTheRun`) | `DriverInv` |

The arguments:

- **The pool.** `FilesConserved` needs that a worker has an entry exactly while it deals
  with it (`HeldWhileBusy`), since otherwise taking the next would overwrite one, and that
  `run()` starts each worker once (`RunControl`). `CountersExact` counts: `nJobs` and
  `nProcessing` are the numbers of workers at certain places, and a step moves one worker;
  `Counting`'s `AtUpdate` says what that does to such a number. The event is truthful
  because the worker that sets it has counted itself out last, with `threadLock` held, and
  nobody can then have a file (`SignalInv`). `run()` leaves its wait on `nJobs`, on the
  flag or on the event, and `WaitInv` says that each of these tells the truth. The
  refinement maps each step to a step of `FileJobs` or to a stutter: what is queued, held
  and processed changes with `GetFront`, `GetBack` and `CountFile` only.
- **The dataset.** Two locks carry it (`LockInv`): a command runs in the dataset's critical
  section, so that what the program believes cannot differ from the property unless a
  command was abandoned (`CurrentInv`); and with `-jN` the `ioLock` is held from before
  `setCompression()` to after `resetCompression()`, so that a reset meets no worker that
  has counted itself in. The count is the number of workers between the two, of the
  failed rewrites that never gave their reference back and, with `-q`, which leaves the
  reset to the end, of the files rewritten. `HeldInv`, `IdleInv` and `ExitInv`
  are what `CompressionHeld`, `ResetWhenIdle` and `RestoredAtExit` need to be inductive,
  `FileKept` and `OwnKept` what `BackupKept` does.
- **One file, compressed.** `PhaseInv` says for each point of `compressFile()` what is in
  the data fork, the resource fork, the attribute, the flag and the buffer; `ReasonInv`
  which calls have failed on the way to it; `OutcomeInv` and `ResultInv` what is known when
  it cleans up and returns; `SaveInv` that with `-b` what the file held has been saved
  before it is touched, and is there again before the backup goes. `NoneSeen` is what the
  look at the attributes has established: there is none, or a failed `listxattr()` hid it.
- **... and decompressed again.** `CompressInv` is of no use there, for `decompressFile()`
  may leave in the data fork what was wrongly encoded. `TripInv` says less of
  `compressFile()` and more of what the two share. For `OriginalKept` it is
  `OriginalInv`: while no backup has been left behind, either `compressFile()` is rewriting
  the file and its own backup is the original, or the file is `Safe`: what the attributes
  hold, with or without the flag, is the original or is nothing, so that neither tool can
  take something else for it. For the other properties `DecompressInv` says at each point
  of `decompressFile()` how the file differs from what it read as when it was entered, and
  `AttributesInv` that there is no resource fork but one an attribute refers to, unless a
  failed `listxattr()` hid one, which is why nothing remains after the removal of the two.
- **The chunks.** Each extent in `outBuf` begins where all before it end (`PlaceInv`,
  `MemoryInv`), and the table has it (`TableInv`), whichever way the buffer grows. The
  arithmetic is in the lemma `Blocks`: the chunks are as many as it takes, the last is the
  remainder or a full block. With `ZLIB_SINGLESHOT_OUTBUF`, the chunks so far have used at
  most their own lengths and a byte each, which is what was reserved.
- **The thread.** `PassInv` is a budget: the passes so far, and whatever can still let the
  worker pass without another `Notify()` (the flag, the event, a `SetEvent()` about to be
  called), are at most two for a `Notify()` and one for a spurious wakeup.
- **The driver.** A `Scope` is locked if and only if its worker owns the mutex
  (`LockInv`), whatever the flag shared by all says. `ScanInv` relates the queue to what of
  the arguments has been gone through, and the map of hard links to the folder under way;
  `FilesInv` says that each queued file is in the queue, with one worker or processed; and
  `StatInv` that a counter two threads add to without a lock lies between what it was at
  first and the number of additions, is more than at first once there was one, and is exact
  with one worker. `PassedInv` says which files are passed over: processed ones, arguments
  gone through, and none of zfsctool's.

What is assumed is what the modules assume of their constants, each a named `ASSUME` that
TLC evaluates in the runs: numbers of workers are at least one, sets of workers are finite,
sentinels are not elements (`PoolAssumption`, `DatasetAssumption`, `IoAssumption`,
`CompressAssumption`, `RoundTripAssumption`, `ThreadAssumption`, `ChunkAssumption`); in
`ChunkAssumption` that a file is not empty (it is not encoded) and a compressed size is a
natural number; in `DatasetAssumption` that with `-b` there are no workers, as zfsctool's
`main()` sees to (zfsctool.cpp:1731); in `DriverAssumption` that an argument that is a file is one path,
that the rear workers need a sorted queue, as the code does, and that whether a file can
be compressed does not depend on which of its names is asked about.

Only model-checked are the liveness properties, which depend on fairness and `ENABLED` and
are beyond the prover: `QuitReturns`, `StartedReturns` and `AllProcessed` of `WorkerPool`,
`Ends` of `ZfsDataset`, `NotifiedLeaves` and `DestructorReturns` of `ThreadControl`, and
`AllProcessed` of `Driver`. So are the five violations. The safety half of "every file is
processed" is proved (`ConservesFiles`, `QueueMatchesScan`, `FilesInv`): a file that is
queued is never lost, whether or not its turn comes.

## Plan

Every safety property is proved; what is left is to say more, in this order:

1. An abstract specification of what a user is promised of `compressFile()`, the file
   reading as before at every moment but for the named exceptions, as a refinement of
   `CompressFile`, with the steps from `CompressInv`.
2. Mutual exclusion as an abstract lock that `IoLock` implements, from `LockInv` of
   `DriverProofs`.
3. More of `ThreadControl`: how often a worker may be suspended and resumed, and what
   `Stop()` leaves.

## Not modelled

- The registry of datasets and zfsctool's `fileIsCompressable()`: the maps are a lock-free
  hash table of another project, and what concurrent use of it without a lock does is
  undefined.
- The mode and times of zfsctool's files, and its codec `test`.
- Semaphores, mutexes behind handles, the list of open handles and shared memory of the
  emulation: no decision of the tools depends on them. The time-outs of `MutexEx` are not compiled in
  (`ParallelProcess_p.hpp:18`).
- What a mapped file yields after it has been truncated: that is the kernel's affair.
- The retry of LZFSE with a larger buffer (its size, 0, is shifted), the warning about
  overlapping chunks, the percentage of `-s` as a number.
- The archives of `-a` and `-x`, file types (`-t`), the parsing of options, the mode
  without workers.
- Clocks (`timing.c`), the query of the OS version, the third-party pretty printer, names
  for Windows, usage and report formatting: no state of a file depends on them.
