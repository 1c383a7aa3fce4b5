----------------------------- MODULE ZfsDataset -----------------------------
(***************************************************************************)
(* zfsctool rewriting the files of one dataset: the reference-counted      *)
(* change of the dataset's compression property                            *)
(* (ZFSDataSetCompressionInfo), compressFile() as run by the worker        *)
(* threads (-jN, -JN) or by the main thread, and the reset of the property *)
(* when the program ends (EmptyFSIdMap and the destructor).                *)
(*                                                                         *)
(* A file's data is either whole or damaged, and it remembers the          *)
(* compression that was in force when it was written.  The pool itself is  *)
(* WorkerPool; here it is reduced to workers that take files in any order, *)
(* stop taking them after a quit request, and may then be cancelled.       *)
(***************************************************************************)
EXTENDS Integers, FiniteSets

CONSTANTS
    Workers, Files,
    Invocations,    \* the sets of options zfsctool may be called with, below
    WriteFaults,    \* may a write, or the write of a backup, fail?
    MaxUnflushed,   \* for how many files may fclose() fail to write?
    CommandFaults,  \* may `zfs set` exit with an error?
    PathFaults,     \* may realpath() or getcwd() fail for an argument?
    Quits           \* may SIGINT, SIGHUP or SIGTERM arrive?

Codecs == {"initial", "new"}    \* initialCompression, folderinfo->z_compression
NoFile == "none"
Nobody == "nobody"
Main == "main"                  \* the thread that runs EmptyFSIdMap()

ASSUME DatasetAssumption ==
    /\ IsFiniteSet(Workers) /\ IsFiniteSet(Files)
    /\ Workers # {} /\ {Main, Nobody} \cap Workers = {} /\ NoFile \notin Files
    /\ {WriteFaults, CommandFaults, PathFaults, Quits} \subseteq BOOLEAN
    /\ MaxUnflushed \in Nat
    /\ Invocations \subseteq
         [parallel : BOOLEAN, exclusive : BOOLEAN, quick : BOOLEAN, backup : BOOLEAN]
    /\ \A o \in Invocations : o.backup => ~o.parallel

VARIABLES
    property,       \* the dataset's compression property, kept by ZFS
    current,        \* currentCompression, what the program believes it is
    refcount, readOnly,
    critsect,       \* the thread that holds the dataset's critical section
    ioLock,         \* the worker that holds the pool's ioLock
    pc, file,       \* where each worker is, with which file
    content, written, label, backup,    \* of each file
    outcome,        \* how each file ended: a history
    refused,        \* files rewritten although setCompression() had no effect
    unflushed,      \* files of which an fclose() failed unnoticed: a history
    orphan,         \* a `zfs set` whose caller was cancelled: its codec
    quit,           \* the pool's quit flag or, when ~Parallel, quitRequested
    main,           \* where the main thread is once the files are queued
    failedResets,   \* who failed to restore the property: a history
    opt             \* the options given

dataset == <<property, current, refcount, readOnly, critsect, orphan>>
fileVars == <<content, written, label, backup, outcome, refused, unflushed>>
mainVars == <<quit, main, failedResets, opt>>
vars == <<dataset, ioLock, pc, file, fileVars, mainVars>>

Init ==
    /\ property = "initial" /\ current = "initial"
    /\ refcount = 0 /\ readOnly = FALSE
    /\ critsect = Nobody /\ ioLock = Nobody
    /\ pc = [w \in Workers |-> "idle"] /\ file = [w \in Workers |-> NoFile]
    /\ content = [f \in Files |-> "whole"]
    /\ written = [f \in Files |-> "before"]
    /\ label = [f \in Files |-> "none"]
    /\ backup = [f \in Files |-> "none"]
    /\ outcome = [f \in Files |-> "todo"]
    /\ refused = {} /\ unflushed = {} /\ orphan = "none"
    /\ quit = FALSE /\ main = "run" /\ failedResets = {}
    /\ opt \in Invocations

Parallel == opt.parallel    \* -jN or -JN; otherwise the main thread does it all
Exclusive == opt.exclusive  \* exclusive_io: -jN, not -JN
Quick == opt.quick          \* quickCompressionReset, which -q clears
Backup == opt.backup        \* -b, which rules out -jN and -JN
Active == IF Parallel THEN Workers ELSE {CHOOSE w \in Workers : TRUE}

Goto(w, from, to) == pc[w] = from /\ pc' = [pc EXCEPT ![w] = to]
Put(fun, w, value) == [fun EXCEPT ![file[w]] = value]

\* fclose() writes out what fwrite() has buffered, or fails to.
Closes == UNCHANGED unflushed
ClosesUnflushed(w) ==
    /\ unflushed' = unflushed \cup {file[w]}
    /\ Cardinality(unflushed') <= MaxUnflushed

\* between the "refcount += 1" and the fetch_sub
Counted == {"setting", "truncate", "write", "verify", "rewrite", "label", "reset"}
\* _setCompression() is running `zfs set`, inside the critical section
InCommand(w) == pc[w] \in {"setting", "resetting"}
\* cancelled; abandoned if that was while it waited for `zfs set`
Stopped == {"cancelled", "abandoned"}
NoneAbandoned == \A w \in Workers : pc[w] # "abandoned"
\* ZFSCommandEngine::critsect: one command of the process at a time
EngineFree == orphan = "none"
-----------------------------------------------------------------------------
(* Slips this code could contain, each a variant of an action below; the    *)
(* properties are tried against them.  No specification uses them.          *)

\* the increment left to the calls that really change the property
CallSetUncounted(w) ==
    LET run == current # "new" /\ ~(quit /\ ~Parallel)
    IN  /\ critsect = Nobody
        /\ Goto(w, "set", IF run THEN "setting" ELSE "truncate")
        /\ refcount' = refcount + IF run THEN 1 ELSE 0
        /\ critsect' = IF run THEN w ELSE Nobody
        /\ refused' = refused \cup IF current # "new" /\ ~run THEN {file[w]} ELSE {}
        /\ UNCHANGED <<property, current, readOnly, orphan, ioLock, file,
                       content, written, label, backup, outcome, unflushed,
                       mainVars>>

\* currentCompression updated although `zfs set` failed
SetFailsBelieved(w) ==
    /\ CommandFaults /\ EngineFree
    /\ Goto(w, "setting", "truncate")
    /\ refused' = refused \cup {file[w]}
    /\ current' = "new" /\ critsect' = Nobody
    /\ UNCHANGED <<property, refcount, readOnly, orphan, ioLock, file, content,
                   written, label, backup, outcome, unflushed, mainVars>>

\* the ioLock given back before the property is reset
WriteLabelUnlocks(w) ==
    /\ Goto(w, "label", IF Quick THEN "reset" ELSE "bail")
    /\ label' = Put(label, w, "new")
    /\ ioLock' = IF ioLock = w THEN Nobody ELSE ioLock
    /\ UNCHANGED <<dataset, file, content, written, backup, outcome, refused,
                   unflushed, mainVars>>

\* the attribute followed by a reset whatever quickCompressionReset says
WriteLabelResets(w) ==
    /\ Goto(w, "label", "reset")
    /\ label' = Put(label, w, "new")
    /\ UNCHANGED <<dataset, ioLock, file, content, written, backup, outcome,
                   refused, unflushed, mainVars>>

\* refcount -= 1 kept next to the fetch_sub
CallResetTwice(w) ==
    /\ Goto(w, "reset", IF refcount = 1 THEN "resetCall" ELSE "bail")
    /\ refcount' = refcount - 2
    /\ UNCHANGED <<property, current, readOnly, critsect, orphan, ioLock, file,
                   fileVars, mainVars>>

\* fetch_sub() == 0 for fetch_sub() == 1
CallResetLate(w) ==
    /\ Goto(w, "reset", IF refcount = 0 THEN "resetCall" ELSE "bail")
    /\ refcount' = refcount - 1
    /\ UNCHANGED <<property, current, readOnly, critsect, orphan, ioLock, file,
                   fileVars, mainVars>>

\* the backup's name kept, so that bail removes it, when the write fails
WriteFailsUnlinks(w) ==
    /\ WriteFaults
    /\ Goto(w, "write", "bail")
    /\ outcome' = Put(outcome, w, "failed")
    /\ \E full \in {readOnly, TRUE} : readOnly' = full
    /\ UNCHANGED <<property, current, refcount, critsect, orphan, ioLock, file,
                   content, written, label, backup, refused, unflushed,
                   mainVars>>

\* run() returning when no worker has a file, though files are left
EndRunEarly ==
    /\ main = "run"
    /\ \A w \in Workers : pc[w] \in Stopped \cup {"idle"}
    /\ main' = IF Quick THEN "delete" ELSE "empty"
    /\ refcount' = IF Quick THEN refcount ELSE refcount - 1
    /\ UNCHANGED <<property, current, readOnly, critsect, orphan, ioLock, pc,
                   file, fileVars, quit, failedResets, opt>>

\* the reset in the destructor, and the one in EmptyFSIdMap(), refused on quit
MainCallRefused ==
    /\ main \in {"empty", "delete"} /\ critsect = Nobody
    /\ main' = IF current # "initial" /\ ~quit
               THEN IF main = "empty" THEN "emptying" ELSE "deleting"
               ELSE IF main = "empty" THEN "delete" ELSE "exited"
    /\ critsect' = IF current # "initial" /\ ~quit THEN Main ELSE Nobody
    /\ UNCHANGED <<property, current, refcount, readOnly, orphan, ioLock, pc,
                   file, fileVars, quit, failedResets, opt>>
-----------------------------------------------------------------------------
(* compressFile(), in the thread of worker w.                               *)

\* Run() takes the next file; compressFile() returns at a check, or at an open
\* or read that fails, with nothing changed.
SkipFile(w, f) ==
    /\ w \in Active
    /\ pc[w] = "idle" /\ main = "run" /\ outcome[f] = "todo"
    /\ quit => ~Parallel
    /\ outcome' = [outcome EXCEPT ![f] = "skipped"]
    /\ UNCHANGED <<dataset, ioLock, pc, file, content, written, label, backup,
                   refused, unflushed, mainVars>>

\* The file is opened, and read into inBuf.
OpenFile(w, f) ==
    /\ w \in Active
    /\ Goto(w, "idle", IF Backup THEN "backup" ELSE "lock")
    /\ main = "run" /\ outcome[f] = "todo"
    /\ ~quit /\ ~readOnly
    /\ file' = [file EXCEPT ![w] = f]
    /\ outcome' = [outcome EXCEPT ![f] = "busy"]
    /\ UNCHANGED <<dataset, ioLock, content, written, label, backup, refused,
                   unflushed, mainVars>>

\* mkstemps(), fwrite() and fclose(), whose result is not looked at
WriteBackup(w) ==
    /\ Goto(w, "backup", "lock")
    /\ backup' = Put(backup, w, "own")
    /\ Closes \/ ClosesUnflushed(w)
    /\ UNCHANGED <<dataset, ioLock, file, content, written, label, outcome,
                   refused, mainVars>>

\* The backup cannot be created or written: goto bail.
BackupFails(w) ==
    /\ WriteFaults
    /\ Goto(w, "backup", "bail")
    /\ outcome' = Put(outcome, w, "skipped")
    /\ UNCHANGED <<dataset, ioLock, file, content, written, label, backup,
                   refused, unflushed, mainVars>>

\* if (exclusive_io && worker) locked = worker->lockScope()
LockScope(w) ==
    /\ Goto(w, "lock", "set")
    /\ IF Exclusive /\ Parallel THEN ioLock = Nobody /\ ioLock' = w
                                ELSE UNCHANGED ioLock
    /\ UNCHANGED <<dataset, file, fileVars, mainVars>>

\* setCompression() up to the command, all of it when no command is run.
CallSetCompression(w) ==
    LET run == current # "new" /\ ~(quit /\ ~Parallel)
    IN  /\ critsect = Nobody
        /\ Goto(w, "set", IF run THEN "setting" ELSE "truncate")
        /\ refcount' = refcount + 1
        /\ critsect' = IF run THEN w ELSE Nobody
        /\ refused' = refused \cup IF current # "new" /\ ~run THEN {file[w]} ELSE {}
        /\ UNCHANGED <<property, current, readOnly, orphan, ioLock, file,
                       content, written, label, backup, outcome, unflushed,
                       mainVars>>

SetSucceeds(w) ==
    /\ EngineFree
    /\ Goto(w, "setting", "truncate")
    /\ property' = "new" /\ current' = "new"
    /\ critsect' = Nobody
    /\ UNCHANGED <<refcount, readOnly, orphan, ioLock, file, fileVars, mainVars>>

\* `zfs set` cannot be started or fails; compressFile() ignores the result.
SetFails(w) ==
    /\ CommandFaults /\ EngineFree
    /\ Goto(w, "setting", "truncate")
    /\ refused' = refused \cup {file[w]}
    /\ critsect' = Nobody
    /\ UNCHANGED <<property, current, refcount, readOnly, orphan, ioLock, file,
                   content, written, label, backup, outcome, unflushed,
                   mainVars>>

Truncate(w) ==
    /\ Goto(w, "truncate", "write")
    /\ content' = Put(content, w, "damaged")
    /\ UNCHANGED <<dataset, ioLock, file, written, label, backup, outcome,
                   refused, unflushed, mainVars>>

\* write() takes everything, though the file may then not read back the same.
WriteFile(w) ==
    /\ Goto(w, "write", "verify")
    /\ written' = Put(written, w, property)
    /\ \E c \in {"whole"} \cup IF WriteFaults THEN {"damaged"} ELSE {} :
         content' = Put(content, w, c)
    /\ UNCHANGED <<dataset, ioLock, file, label, backup, outcome, refused,
                   unflushed, mainVars>>

\* write() falls short: the backup is kept, EIO, EDQUOT and ENOSPC make the
\* dataset read-only, and bail is reached without resetCompression().
WriteFails(w) ==
    /\ WriteFaults
    /\ Goto(w, "write", "bail")
    /\ backup' = Put(backup, w, IF Backup THEN "kept" ELSE "none")
    /\ outcome' = Put(outcome, w, "failed")
    /\ \E full \in {readOnly, TRUE} : readOnly' = full
    /\ UNCHANGED <<property, current, refcount, critsect, orphan, ioLock, file,
                   content, written, label, refused, unflushed, mainVars>>

\* The file is read back and compared; if it cannot be, or differs, fopen "w".
VerifyFile(w) ==
    /\ pc[w] = "verify"
    /\ \E ok \in {content[file[w]] = "whole"} \cup IF WriteFaults THEN {FALSE} ELSE {} :
         Goto(w, "verify", IF ok THEN "label" ELSE "rewrite")
    /\ UNCHANGED <<dataset, ioLock, file, fileVars, mainVars>>

\* fopen("w"), fwrite() and fclose(), whose result is not looked at either
RewriteFile(w) ==
    /\ Goto(w, "rewrite", "label")
    /\ \/ Closes /\ content' = Put(content, w, "whole")
       \/ ClosesUnflushed(w) /\ content' = Put(content, w, "damaged")
    /\ written' = Put(written, w, property)
    /\ UNCHANGED <<dataset, ioLock, file, label, backup, outcome, refused,
                   mainVars>>

\* The file cannot be reopened, which leaves it alone, or be written in full:
\* as WriteFails, but never read-only.
RewriteFails(w) ==
    /\ WriteFaults
    /\ Goto(w, "rewrite", "bail")
    /\ \E c \in {content[file[w]], "damaged"} : content' = Put(content, w, c)
    /\ backup' = Put(backup, w, IF Backup THEN "kept" ELSE "none")
    /\ outcome' = Put(outcome, w, "failed")
    /\ UNCHANGED <<dataset, ioLock, file, written, label, refused, unflushed,
                   mainVars>>

\* setxattr(XATTR_ZFSCOMPPROP_NAME), whatever setCompression() returned
WriteLabel(w) ==
    /\ Goto(w, "label", IF Quick THEN "reset" ELSE "bail")
    /\ label' = Put(label, w, "new")
    /\ UNCHANGED <<dataset, ioLock, file, content, written, backup, outcome,
                   refused, unflushed, mainVars>>

\* resetCompression() decides by the fetch_sub, outside the critical section...
CallResetCompression(w) ==
    /\ Goto(w, "reset", IF refcount = 1 THEN "resetCall" ELSE "bail")
    /\ refcount' = refcount - 1
    /\ UNCHANGED <<property, current, readOnly, critsect, orphan, ioLock, file,
                   fileVars, mainVars>>

\* ... and only then enters it.
EnterReset(w) ==
    LET run == current # "initial"
    IN  /\ critsect = Nobody
        /\ Goto(w, "resetCall", IF run THEN "resetting" ELSE "bail")
        /\ critsect' = IF run THEN w ELSE Nobody
        /\ UNCHANGED <<property, current, refcount, readOnly, orphan, ioLock,
                       file, fileVars, mainVars>>

ResetEnds(w) ==
    \E ok \in {TRUE} \cup IF CommandFaults THEN {FALSE} ELSE {} :
        /\ EngineFree
        /\ Goto(w, "resetting", "bail")
        /\ property' = IF ok THEN "initial" ELSE property
        /\ current' = IF ok THEN "initial" ELSE current
        /\ failedResets' = failedResets \cup IF ok THEN {} ELSE {"worker"}
        /\ critsect' = Nobody
        /\ UNCHANGED <<refcount, readOnly, orphan, ioLock, file, fileVars,
                       quit, main, opt>>

Bail(w) ==
    /\ Goto(w, "bail", "idle")
    /\ ioLock' = IF ioLock = w THEN Nobody ELSE ioLock
    /\ backup' = IF backup[file[w]] = "own" THEN Put(backup, w, "none") ELSE backup
    /\ outcome' = IF outcome[file[w]] = "busy" THEN Put(outcome, w, "done") ELSE outcome
    /\ file' = [file EXCEPT ![w] = NoFile]
    /\ UNCHANGED <<dataset, content, written, label, refused, unflushed,
                   mainVars>>
-----------------------------------------------------------------------------
(* Signals, and the end of the program.                                     *)

RequestQuit ==
    /\ Quits /\ ~quit
    /\ quit' = TRUE
    /\ UNCHANGED <<dataset, ioLock, pc, file, fileVars, main, failedResets, opt>>

\* run() has lost patience: pthread_cancel() takes effect in a call that is a
\* cancellation point, and unwinding gives back the locks.  A `zfs set` it was
\* waiting for goes on without it.
Cancel(w) ==
    /\ Parallel /\ quit
    /\ pc[w] \in {"setting", "write", "verify", "rewrite", "resetting"}
    /\ InCommand(w) => EngineFree
    /\ pc' = [pc EXCEPT ![w] = IF InCommand(w) THEN "abandoned" ELSE "cancelled"]
    /\ orphan' = CASE pc[w] = "setting" -> "new"
                   [] pc[w] = "resetting" -> "initial"
                   [] OTHER -> orphan
    /\ ioLock' = IF ioLock = w THEN Nobody ELSE ioLock
    /\ critsect' = IF critsect = w THEN Nobody ELSE critsect
    /\ outcome' = IF pc[w] \in Counted THEN Put(outcome, w, "failed")
                                       ELSE Put(outcome, w, "done")
    /\ \E c \in {content[file[w]]} \cup IF pc[w] = "rewrite" THEN {"damaged"} ELSE {} :
         content' = Put(content, w, c)
    /\ UNCHANGED <<property, current, refcount, readOnly, file, written, label,
                   backup, refused, unflushed, mainVars>>

OrphanEnds ==
    \E ok \in {TRUE} \cup IF CommandFaults THEN {FALSE} ELSE {} :
        /\ orphan # "none"
        /\ property' = IF ok THEN orphan ELSE property
        /\ orphan' = "none"
        /\ UNCHANGED <<current, refcount, readOnly, critsect, ioLock, pc, file,
                       fileVars, mainVars>>

\* run() (or the loop over the arguments) is over; EmptyFSIdMap() begins.
EndRun ==
    /\ main = "run"
    /\ \A w \in Workers : pc[w] \in Stopped \cup {"idle"}
    /\ (quit /\ Parallel) \/ \A f \in Files : outcome[f] # "todo"
    /\ main' = IF Quick THEN "delete" ELSE "empty"
    /\ refcount' = IF Quick THEN refcount ELSE refcount - 1
    /\ UNCHANGED <<property, current, readOnly, critsect, orphan, ioLock, pc,
                   file, fileVars, quit, failedResets, opt>>

\* The loop over the arguments returns from zfsctool() at a path it cannot get, without
\* EmptyFSIdMap(): between two files or, with threads, when the files are only queued.
BreakOff ==
    /\ PathFaults
    /\ main = "run" /\ \A w \in Workers : pc[w] = "idle"
    /\ Parallel => \A f \in Files : outcome[f] = "todo"
    /\ main' = "brokenOff"
    /\ UNCHANGED <<dataset, ioLock, pc, file, fileVars, quit, failedResets, opt>>

\* _setCompression(initialCompression) by resetCompression(true), then again by
\* the destructor; quitRequested does not refuse the initial compression.
MainCall ==
    /\ main \in {"empty", "delete"} /\ critsect = Nobody
    /\ main' = IF current # "initial"
               THEN IF main = "empty" THEN "emptying" ELSE "deleting"
               ELSE IF main = "empty" THEN "delete" ELSE "exited"
    /\ critsect' = IF current # "initial" THEN Main ELSE Nobody
    /\ UNCHANGED <<property, current, refcount, readOnly, orphan, ioLock, pc,
                   file, fileVars, quit, failedResets, opt>>

MainCommandEnds ==
    \E ok \in {TRUE} \cup IF CommandFaults THEN {FALSE} ELSE {} :
        /\ main \in {"emptying", "deleting"} /\ EngineFree
        /\ main' = IF main = "emptying" THEN "delete" ELSE "exited"
        /\ property' = IF ok THEN "initial" ELSE property
        /\ current' = IF ok THEN "initial" ELSE current
        /\ failedResets' = failedResets \cup IF ok THEN {} ELSE {"main"}
        /\ critsect' = Nobody
        /\ UNCHANGED <<refcount, readOnly, orphan, ioLock, pc, file, fileVars,
                       quit, opt>>

Exited == main \in {"exited", "brokenOff"} /\ orphan = "none" /\ UNCHANGED vars
-----------------------------------------------------------------------------
CompressStep(w) ==
    \/ \E f \in Files : SkipFile(w, f) \/ OpenFile(w, f)
    \/ WriteBackup(w) \/ BackupFails(w) \/ LockScope(w)
    \/ CallSetCompression(w) \/ SetSucceeds(w) \/ SetFails(w)
    \/ Truncate(w) \/ WriteFile(w) \/ WriteFails(w)
    \/ VerifyFile(w) \/ RewriteFile(w) \/ RewriteFails(w) \/ WriteLabel(w)
    \/ CallResetCompression(w) \/ EnterReset(w) \/ ResetEnds(w)
    \/ Bail(w)

MainStep == EndRun \/ MainCall \/ MainCommandEnds

Next ==
    \/ \E w \in Workers : CompressStep(w) \/ Cancel(w)
    \/ MainStep \/ BreakOff \/ OrphanEnds \/ RequestQuit \/ Exited

Spec == Init /\ [][Next]_vars

\* Every thread keeps running, and every command the program started ends.
FairSpec ==
    /\ Spec
    /\ \A w \in Workers : WF_vars(CompressStep(w))
    /\ WF_vars(MainStep) /\ WF_vars(OrphanEnds)
-----------------------------------------------------------------------------
TypeOK ==
    /\ property \in Codecs /\ current \in Codecs /\ orphan \in Codecs \cup {"none"}
    /\ refcount \in -1 .. Cardinality(Files)
    /\ readOnly \in BOOLEAN /\ quit \in BOOLEAN
    /\ failedResets \subseteq {"worker", "main"} /\ opt \in Invocations
    /\ critsect \in Workers \cup {Main, Nobody} /\ ioLock \in Workers \cup {Nobody}
    /\ pc \in [Workers -> Counted \cup {"idle", "backup", "lock", "set",
                 "resetCall", "resetting", "bail"} \cup Stopped]
    /\ file \in [Workers -> Files \cup {NoFile}]
    /\ content \in [Files -> {"whole", "damaged"}]
    /\ written \in [Files -> Codecs \cup {"before"}]
    /\ label \in [Files -> {"none", "new"}]
    /\ backup \in [Files -> {"none", "own", "kept"}]
    /\ outcome \in [Files -> {"todo", "busy", "skipped", "failed", "done"}]
    /\ refused \subseteq Files /\ unflushed \subseteq Files
    /\ main \in {"run", "empty", "emptying", "delete", "deleting", "exited", "brokenOff"}

Rewriting(w) == pc[w] \in {"write", "rewrite"}
WithOutcome(ends) == {f \in Files : outcome[f] \in ends}

\* The reference count that setCompression() and resetCompression() keep is the
\* number of files being rewritten plus the files that will never be given back:
\* those whose rewrite failed and, with -q, all that are done (zfsctool.cpp:485-519).
RefcountExact ==
    main = "run" =>
        refcount = Cardinality({w \in Workers : pc[w] \in Counted})
                   + Cardinality(WithOutcome({"failed"}))
                   + IF Quick THEN 0 ELSE Cardinality({f \in Files : label[f] = "new"})

\* What the program believes the compression to be is what ZFS has, unless a
\* command whose caller was cancelled has changed it since (zfsctool.cpp:589-645).
CurrentIsProperty == NoneAbandoned => current = property

\* Concurrent rewrites with a reset after each batch: -JN without -q.  The
\* decision to reset and the reset are then not one step (zfsctool.cpp:510-511).
ResetsUnderWay == Parallel /\ ~Exclusive /\ Quick

\* While a file is being rewritten the dataset has the compression asked for,
\* unless setCompression() failed for that file or a worker was cancelled while it
\* waited for `zfs set`: this is what the reference count and the ioLock are for
\* (zfsctool.cpp:478-484, 1066-1072).
CompressionHeld ==
    NoneAbandoned /\ ~ResetsUnderWay =>
        \A w \in Workers : Rewriting(w) /\ file[w] \notin refused => property = "new"

\* As soon as no file is being rewritten the dataset is back to its initial
\* compression (zfsctool.cpp:481-484), unless a rewrite or a reset failed.
ResetWhenIdle ==
    /\ Quick /\ failedResets = {} /\ WithOutcome({"failed"}) = {} /\ NoneAbandoned
    /\ \A w \in Workers : pc[w] \notin Counted \cup {"resetCall", "resetting"}
    => property = "initial"

\* A file labelled with the new compression, which the next run will skip, has been
\* rewritten under it, with the same exceptions (zfsctool.cpp:774-790, 1198-1218).
LabelTruthful ==
    NoneAbandoned /\ ~ResetsUnderWay =>
        \A f \in Files : label[f] = "new" /\ f \notin refused => written[f] = "new"

\* The program leaves the dataset with the compression it found, unless the command
\* that restores it failed or the one that set it was abandoned.  Excepted is a run
\* that returns from within the loop over the arguments, which restores it only after
\* each file: not with -q, nor when a rewrite or such a reset failed
\* (zfsctool.cpp:467-471, 666-682, 1764-1775, 1220-1223, 1943-1947).
RestoredAtExit ==
    main \in {"exited", "brokenOff"} /\ "main" \notin failedResets /\ NoneAbandoned
    => \/ property = "initial"
       \/ /\ main = "brokenOff"
          /\ ~Quick \/ "worker" \in failedResets \/ WithOutcome({"failed"}) # {}

\* With -b, a file that a failed rewrite has damaged still has its backup, and a
\* file that is done with is whole and has none.  Excepted are files for which an
\* fclose() whose result is ignored could not write what was buffered, of the backup
\* or of the second rewrite (zfsctool.cpp:1061, 1083-1086, 1179-1191, 1236-1241).
BackupKept ==
    Backup => \A f \in Files :
        /\ content[f] = "damaged" /\ f \notin unflushed => backup[f] # "none"
        /\ outcome[f] \in {"done", "skipped"} =>
             backup[f] = "none" /\ (content[f] = "whole" \/ f \in unflushed)

\* The program ends, with every file dealt with unless the user asked to quit or the
\* path of an argument could not be had: no worker waits for ever on the ioLock or on
\* the critical section.
Ends ==
    <>(/\ main \in {"exited", "brokenOff"} /\ orphan = "none"
       /\ \/ quit \/ main = "brokenOff"
          \/ \A f \in Files : outcome[f] \in {"skipped", "failed", "done"})
-----------------------------------------------------------------------------
(* What the comments and messages of zfsctool.cpp promise without the       *)
(* exceptions made above; each is violated by what the code does.           *)

\* "Compression is reset only when that refcount has gone back to zero meaning
\* no file is still being processed" (zfsctool.cpp:482-484): with -J another
\* worker may start between the fetch_sub and the reset.
HeldWhileProcessed == \A w \in Workers : Rewriting(w) => property = "new"

\* The compression is changed by "changing the dataset compression property,
\* rewriting all files of interest, and resetting the compression property"
\* (src/README.md:122-123): not after a `zfs set` whose worker has been cancelled.
RestoredAfterQuit ==
    main = "exited" /\ orphan = "none" /\ failedResets = {} => property = "initial"
=============================================================================
