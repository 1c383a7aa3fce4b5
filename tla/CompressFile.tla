---------------------------- MODULE CompressFile ----------------------------
(***************************************************************************)
(* compressFile() of afsctool.c as built for macOS: one file's data fork   *)
(* is replaced by a compressed copy in its decmpfs attribute or in its     *)
(* resource fork, by calls any of which can fail, in a process that may    *)
(* die (or have its worker thread cancelled) between any two of them and   *)
(* may be run again.                                                       *)
(*                                                                         *)
(* Data is "orig" (what the file held at first), "part" (a prefix of it),  *)
(* "empty", or, compressed, "bad" (does not decode to what was encoded).   *)
(* The taking of the ioLock around the steps is left to other modules.     *)
(***************************************************************************)
EXTENDS Integers, FiniteSets

CONSTANTS
    Options,        \* the builds and the options given, as records:
                    \*   check   folderinfo->check_files: -n was not given
                    \*   backup  folderinfo->backup_file: -b was given
                    \*   blocks  built with __BLOCKS__: restoreFile is a block
    MayDie,         \* may the process die?
    MaxFaults,      \* how many calls fail, in all runs together
    MaxRuns         \* how many times the program is run on the file

ASSUME CompressAssumption ==
    /\ Options \subseteq [check : BOOLEAN, backup : BOOLEAN, blocks : BOOLEAN]
    /\ MayDie \in BOOLEAN
    /\ MaxFaults \in Nat /\ MaxRuns \in Nat \ {0}

Data == {"orig", "part", "empty"}
Modes == SUBSET {"r", "w"}          \* the owner's S_IRUSR and S_IWUSR

VARIABLES
    data, rsrc, decmpfs, flag, mode,    \* the file: forks, attribute, UF_COMPRESSED
    own, kept,      \* the backup of this run; those nothing will remove
    inBuf, kind, payload,   \* what was read; where and what its encoding is
    stMode, origMode,       \* inFileInfo->st_mode, orig_mode
    before,         \* what the file read as when this run began: a history
    keptBefore,     \* what kept was then: a history
    failed,         \* the calls that have failed: a history
    result,         \* how this run ended
    pc, run, opt

fileVars == <<data, rsrc, decmpfs, flag>>
modeVars == <<mode, stMode, origMode>>
backups == <<own, kept>>
encoding == <<kind, payload>>
runVars == <<before, keptBefore, run, opt>>
vars == <<fileVars, modeVars, backups, inBuf, encoding, failed, result, pc, runVars>>

Init ==
    /\ data = "orig" /\ rsrc = "none" /\ decmpfs = "none" /\ flag = FALSE
    /\ mode \in Modes /\ stMode = mode /\ origMode = mode
    /\ own = "none" /\ kept = {}
    /\ inBuf = "empty" /\ kind = "none" /\ payload = "bad"
    /\ before = "orig" /\ keptBefore = {} /\ failed = {}
    /\ result = "none" /\ pc = "start" /\ run = 1
    /\ opt \in Options

CheckFiles == opt.check
BackupFile == opt.backup
Blocks == opt.blocks

\* What a reader of the file gets: with the flag set and the attribute there,
\* the kernel decodes the payload.
Content ==
    CASE flag /\ decmpfs = "fork" -> rsrc
      [] flag /\ decmpfs \notin {"fork", "none"} -> decmpfs
      [] OTHER -> data

\* An attribute or a fork of a compression that was not finished.
LeftOver == rsrc # "none" \/ decmpfs # "none"

Goto(from, to) == pc = from /\ pc' = to
Fails(call) ==
    /\ call \notin failed /\ Cardinality(failed) < MaxFaults
    /\ failed' = failed \cup {call}
Succeeds == UNCHANGED failed
Return(how) == result' = how

\* backupName forgotten: Bail() will not unlink the backup.
KeepBackup ==
    /\ own' = "none"
    /\ kept' = kept \cup ({own} \ {"none"})
-----------------------------------------------------------------------------
(* Slips this code could contain, each a variant of an action below; the    *)
(* properties are tried against them.  No specification uses them.          *)

\* the backup's name not forgotten when the second write fails
RefillFailsForgets ==
    /\ Goto("refill", "bail") /\ Fails("refill")
    /\ data' \in {data, "empty", "part"}
    /\ UNCHANGED <<rsrc, decmpfs, flag, modeVars, backups, inBuf, encoding, result,
                   runVars>>

\* goto bail without restoreFile()
WriteForkNotUndone ==
    /\ Goto("fork", "bail") /\ Fails("setxattr_rsrc")
    /\ UNCHANGED <<fileVars, modeVars, backups, inBuf, encoding, result, runVars>>

\* outdecmpfsSize not increased by the inline data's size: the header alone
WriteAttrHeader ==
    /\ Goto("attr", IF kind = "fork" THEN "setFlag" ELSE "truncateLast")
    /\ decmpfs = "none" /\ Succeeds
    /\ decmpfs' = IF kind = "fork" THEN "fork" ELSE "header"
    /\ UNCHANGED <<data, rsrc, flag, modeVars, backups, inBuf, encoding, result,
                   runVars>>

\* only the decmpfs attribute removed when the changes are reverted
RemoveAttrsNotFork ==
    /\ Goto("removeAttrs", "refill") /\ Succeeds
    /\ decmpfs' = "none"
    /\ UNCHANGED <<data, rsrc, flag, modeVars, backups, inBuf, encoding, result,
                   runVars>>

\* the sizes compared, and not the data
VerifySize ==
    /\ Goto("verify", "bail") /\ Succeeds
    /\ UNCHANGED <<fileVars, modeVars, backups, inBuf, encoding, result, runVars>>

\* only the resource fork looked for
ListAttrsFork ==
    /\ Goto("listAttrs", IF rsrc = "none" THEN "open" ELSE "returned") /\ Succeeds
    /\ IF rsrc = "none" THEN UNCHANGED result ELSE Return("skipped")
    /\ UNCHANGED <<fileVars, modeVars, backups, inBuf, encoding, runVars>>
-----------------------------------------------------------------------------
(* restoreFile(): lseek() has put the offset at 0.  A block captures inBuf  *)
(* as it was when the block was made, NULL, and write() refuses that.       *)

RestoreFileWorks(to) ==
    /\ ~Blocks
    /\ pc' = to /\ Succeeds
    /\ data' = inBuf
    /\ UNCHANGED backups

RestoreFileFails(to) ==
    /\ pc' = to
    /\ IF Blocks THEN Succeeds /\ data' = data
                 ELSE Fails("restore") /\ data' \in {data, "part"}
    /\ KeepBackup
-----------------------------------------------------------------------------
(* The checks, and the reading of the file.                                 *)

\* fileIsCompressable() says no, or one of the checks before the chmod calls.
EnterSkips ==
    /\ Goto("start", "returned") /\ Return("skipped")
    /\ before' = Content
    /\ UNCHANGED <<fileVars, modeVars, backups, inBuf, encoding, failed, keptBefore,
                   run, opt>>

\* Each chmod() asks for the original mode and one bit, so the second undoes
\* what the first has added.
Enter ==
    /\ Goto("start", "probe")
    /\ ~flag /\ Content # "empty"
    /\ origMode' = mode
    /\ mode' = IF "r" \notin mode THEN mode \cup {"r"} ELSE mode \cup {"w"}
    /\ stMode' = mode'
    /\ before' = Content
    /\ UNCHANGED <<fileVars, backups, inBuf, encoding, failed, result, keptBefore,
                   run, opt>>

\* Can the flag be set at all?  On it goes, then off again.
ProbeOn ==
    \/ /\ Goto("probe", "probeOff") /\ Succeeds
       /\ flag' = TRUE
       /\ UNCHANGED <<data, rsrc, decmpfs, modeVars, backups, inBuf, encoding,
                      result, runVars>>
    \/ /\ Goto("probe", "returned") /\ Fails("chflags_probe")
       /\ Return("skipped")
       /\ UNCHANGED <<fileVars, modeVars, backups, inBuf, encoding, runVars>>

ProbeOff ==
    \/ /\ Goto("probeOff", "listAttrs") /\ Succeeds
       /\ flag' = FALSE
       /\ UNCHANGED <<data, rsrc, decmpfs, modeVars, backups, inBuf, encoding,
                      result, runVars>>
    \/ /\ Goto("probeOff", "returned") /\ Fails("chflags_unprobe")
       /\ Return("skipped")
       /\ UNCHANGED <<fileVars, modeVars, backups, inBuf, encoding, runVars>>

\* listxattr(), twice: for the size of the list and for the list.  A file with a
\* resource fork or a decmpfs attribute is left alone, and so is one whose list
\* cannot be had; but the failure of the first call counts as an empty list.
ListAttrs ==
    \/ /\ Goto("listAttrs", "open")
       /\ \/ Succeeds /\ ~LeftOver
          \/ Fails(IF LeftOver THEN "listxattr_leftover" ELSE "listxattr")
       /\ UNCHANGED <<fileVars, modeVars, backups, inBuf, encoding, result, runVars>>
    \/ /\ Goto("listAttrs", "returned")
       /\ (Succeeds /\ LeftOver) \/ Fails("listxattr_names")
       /\ Return("skipped")
       /\ UNCHANGED <<fileVars, modeVars, backups, inBuf, encoding, runVars>>

\* open(O_RDWR) needs both permissions, except of the superuser.
OpenFile ==
    \/ /\ Goto("open", "read") /\ Succeeds
       /\ UNCHANGED <<fileVars, modeVars, backups, inBuf, encoding, result, runVars>>
    \/ /\ Goto("open", "bail")
       /\ IF mode # {"r", "w"} THEN Succeeds ELSE Fails("open")
       /\ Return("skipped")
       /\ UNCHANGED <<fileVars, modeVars, backups, inBuf, encoding, runVars>>

ReadFile ==
    \/ /\ Goto("read", IF BackupFile THEN "backup" ELSE "encode") /\ Succeeds
       /\ inBuf' = data
       /\ UNCHANGED <<fileVars, modeVars, backups, encoding, result, runVars>>
    \/ /\ Goto("read", "returned") /\ Fails("read")
       /\ Return("skipped")
       /\ UNCHANGED <<fileVars, modeVars, backups, inBuf, encoding, runVars>>

\* mkstemps(), fwrite() and fclose(), whose result is not looked at.
WriteBackup ==
    \/ /\ Goto("backup", "encode")
       /\ \/ Succeeds /\ own' = inBuf
          \/ Fails("fclose_backup") /\ own' = "torn"
       /\ UNCHANGED <<fileVars, modeVars, kept, inBuf, encoding, result, runVars>>
    \/ /\ Goto("backup", "bail") /\ Fails("fwrite_backup")
       /\ own' = "torn"
       /\ Return("skipped")
       /\ UNCHANGED <<fileVars, modeVars, kept, inBuf, encoding, runVars>>

\* The chunking loop, in memory.  A small result goes into the attribute.
Encode ==
    \/ /\ Goto("encode", "decide")
       /\ kind' \in {"inline", "fork"}
       /\ \/ Succeeds /\ payload' = inBuf
          \/ Fails("encode") /\ payload' = "bad"
       /\ UNCHANGED <<fileVars, modeVars, backups, inBuf, result, runVars>>
    \/ /\ Goto("encode", "bail") /\ Return("skipped") /\ Succeeds
       /\ UNCHANGED <<fileVars, modeVars, backups, inBuf, encoding, runVars>>
-----------------------------------------------------------------------------
(* The rewrite, which worker threads do one at a time.                      *)

\* A resource fork that saves too little is rejected.
Decide ==
    \/ /\ Goto("decide", IF kind = "fork" THEN "truncate" ELSE "attr")
       /\ UNCHANGED <<fileVars, modeVars, backups, inBuf, encoding, failed, result,
                      runVars>>
    \/ /\ Goto("decide", "bail") /\ kind = "fork" /\ Return("skipped")
       /\ UNCHANGED <<fileVars, modeVars, backups, inBuf, encoding, failed, runVars>>

\* ftruncate(), whose result is not looked at
Truncate(from, to) ==
    /\ Goto(from, to)
    /\ \/ Succeeds /\ data' = "empty"
       \/ Fails("ftruncate") /\ data' = data
    /\ UNCHANGED <<rsrc, decmpfs, flag, modeVars, backups, inBuf, encoding, result,
                   runVars>>

TruncateFirst == Truncate("truncate", "fork")

\* setxattr() with XATTR_CREATE
WriteFork ==
    /\ Goto("fork", "attr") /\ Succeeds
    /\ rsrc = "none"
    /\ rsrc' = payload
    /\ UNCHANGED <<data, decmpfs, flag, modeVars, backups, inBuf, encoding, result,
                   runVars>>

WriteForkFails ==
    /\ Goto("fork", "restore")
    /\ IF rsrc # "none" THEN Succeeds ELSE Fails("setxattr_rsrc")
    /\ UNCHANGED <<fileVars, modeVars, backups, inBuf, encoding, result, runVars>>

WriteAttr ==
    /\ Goto("attr", IF kind = "fork" THEN "setFlag" ELSE "truncateLast")
    /\ decmpfs = "none" /\ Succeeds
    /\ decmpfs' = IF kind = "fork" THEN "fork" ELSE payload
    /\ UNCHANGED <<data, rsrc, flag, modeVars, backups, inBuf, encoding, result,
                   runVars>>

\* goto bail, whether or not the data fork has been emptied
WriteAttrFails ==
    /\ Goto("attr", "bail")
    /\ IF decmpfs # "none" THEN Succeeds ELSE Fails("setxattr_decmpfs")
    /\ UNCHANGED <<fileVars, modeVars, backups, inBuf, encoding, result, runVars>>

TruncateLast == Truncate("truncateLast", "setFlag")

SetFlag ==
    /\ Goto("setFlag", IF CheckFiles THEN "verify" ELSE "bail") /\ Succeeds
    /\ flag' = TRUE /\ stMode' = mode
    /\ Return("compressed")
    /\ UNCHANGED <<data, rsrc, decmpfs, mode, origMode, backups, inBuf, encoding,
                   runVars>>

\* The attributes are removed again, and the data fork is written back.
SetFlagFails ==
    /\ Goto("setFlag", "unsetAttrs") /\ Fails("fchflags")
    /\ UNCHANGED <<fileVars, modeVars, backups, inBuf, encoding, result, runVars>>

\* (f)removexattr() of each attribute written; a failure is reported, no more
RemoveAttributes(from, to) ==
    LET forkGone == IF kind = "fork" THEN "none" ELSE rsrc IN
    /\ Goto(from, to)
    /\ \/ Succeeds /\ decmpfs' = "none" /\ rsrc' = forkGone
       \/ /\ Fails("removexattr")
          /\ \/ decmpfs' = "none" /\ kind = "fork" /\ rsrc' = rsrc
             \/ decmpfs' = decmpfs /\ rsrc' \in {rsrc, forkGone}
    /\ UNCHANGED <<data, flag, modeVars, backups, inBuf, encoding, result, runVars>>

UnsetAttrs == RemoveAttributes("unsetAttrs", "restore")

RestoreFile ==
    /\ pc = "restore"
    /\ RestoreFileWorks("bail") \/ RestoreFileFails("bail")
    /\ UNCHANGED <<rsrc, decmpfs, flag, modeVars, inBuf, encoding, result, runVars>>
-----------------------------------------------------------------------------
(* The check of the compressed file, and the way back.                      *)

Verify ==
    /\ pc = "verify"
    /\ \/ pc' = "bail" /\ Content = inBuf /\ Succeeds /\ UNCHANGED result
       \/ /\ pc' = "revert" /\ Return("failed")
          /\ IF Content = inBuf THEN Fails("verify") ELSE Succeeds
    /\ UNCHANGED <<fileVars, modeVars, backups, inBuf, encoding, runVars>>

RevertFlag ==
    \/ /\ Goto("revert", "removeAttrs") /\ Succeeds
       /\ flag' = FALSE
       /\ UNCHANGED <<data, rsrc, decmpfs, modeVars, backups, inBuf, encoding, result,
                      runVars>>
    \/ /\ Goto("revert", "bail") /\ Fails("chflags_revert")
       /\ KeepBackup
       /\ UNCHANGED <<fileVars, modeVars, inBuf, encoding, result, runVars>>

RemoveAttrs == RemoveAttributes("removeAttrs", "refill")

\* fopen("w"), fwrite() and fclose(), whose result is not looked at
Refill ==
    /\ Goto("refill", "bail")
    /\ \/ Succeeds /\ data' = inBuf
       \/ Fails("fclose") /\ data' = "part"
    /\ Return("reverted")
    /\ UNCHANGED <<rsrc, decmpfs, flag, modeVars, backups, inBuf, encoding, runVars>>

RefillFails ==
    /\ Goto("refill", "bail") /\ Fails("refill")
    /\ data' \in {data, "empty", "part"}
    /\ KeepBackup
    /\ UNCHANGED <<rsrc, decmpfs, flag, modeVars, inBuf, encoding, result, runVars>>

Bail ==
    /\ Goto("bail", "returned")
    /\ Return(IF result = "none" THEN "failed" ELSE result)
    /\ mode' = IF stMode # origMode THEN origMode ELSE mode
    /\ own' = "none"
    /\ UNCHANGED <<fileVars, stMode, origMode, kept, inBuf, encoding, failed, runVars>>
-----------------------------------------------------------------------------
\* The process ends, or the worker is cancelled: the backup stays in /tmp.
Die ==
    /\ MayDie
    /\ pc \notin {"start", "returned", "dead"}
    /\ pc' = "dead" /\ Return("dead")
    /\ KeepBackup
    /\ UNCHANGED <<fileVars, modeVars, inBuf, encoding, failed, runVars>>

RunAgain ==
    /\ pc \in {"returned", "dead"} /\ run < MaxRuns
    /\ pc' = "start" /\ Return("none") /\ run' = run + 1
    /\ inBuf' = "empty" /\ kind' = "none" /\ payload' = "bad"
    /\ before' = Content /\ keptBefore' = kept
    /\ UNCHANGED <<fileVars, modeVars, backups, failed, opt>>

Finished ==
    /\ pc \in {"returned", "dead"} /\ run = MaxRuns
    /\ UNCHANGED vars

Next ==
    \/ EnterSkips \/ Enter \/ ProbeOn \/ ProbeOff \/ ListAttrs \/ OpenFile
    \/ ReadFile \/ WriteBackup \/ Encode \/ Decide
    \/ TruncateFirst \/ WriteFork \/ WriteForkFails
    \/ WriteAttr \/ WriteAttrFails \/ TruncateLast
    \/ SetFlag \/ SetFlagFails \/ UnsetAttrs \/ RestoreFile
    \/ Verify \/ RevertFlag \/ RemoveAttrs \/ Refill \/ RefillFails \/ Bail
    \/ Die \/ RunAgain \/ Finished

Spec == Init /\ [][Next]_vars
-----------------------------------------------------------------------------
Outcomes == {"none", "skipped", "failed", "compressed", "reverted", "dead"}

TypeOK ==
    /\ data \in Data /\ flag \in BOOLEAN
    /\ rsrc \in Data \cup {"none", "bad"}
    /\ decmpfs \in Data \cup {"none", "bad", "fork"}
    /\ mode \in Modes /\ stMode \in Modes /\ origMode \in Modes
    /\ own \in Data \cup {"none", "torn"}
    /\ kept \subseteq Data \cup {"torn"} /\ keptBefore \subseteq kept
    /\ inBuf \in Data /\ before \in Data \cup {"none", "bad"}
    /\ kind \in {"none", "inline", "fork"} /\ payload \in Data \cup {"bad"}
    /\ result \in Outcomes
    /\ run \in 1 .. MaxRuns /\ opt \in Options

\* With -b and the check, what the file held is at every moment still in the
\* file or in a backup nothing will remove before it is there again, wherever the
\* process dies and over any number of runs.  Excepted are the fclose() calls whose
\* result is ignored, a decmpfs attribute that cannot be written, and a listxattr()
\* whose failure hides a leftover attribute (afsctool.c:447-449, 543-589, 1056-1063).
ContentOrBackup ==
    BackupFile /\ CheckFiles
        /\ failed \cap {"setxattr_decmpfs", "fclose_backup", "fclose",
                        "listxattr_leftover"} = {}
    => "orig" \in {Content, data, own} \cup kept

\* One failure is undone: when compressFile() returns, the file reads as it did
\* when it was called.  Excepted are the decmpfs attribute, a flag that was set
\* as a trial and cannot be cleared, which can bring a leftover attribute to life,
\* and a listxattr() whose failure hides a leftover attribute
\* (afsctool.c:385-400, 447-449, 988-991, 1078-1095, 1147-1185).
OneFailureUndone ==
    pc = "returned" /\ CheckFiles /\ ~Blocks
        /\ Cardinality(failed) <= 1
        /\ failed \cap {"setxattr_decmpfs", "chflags_unprobe", "listxattr_leftover"} = {}
    => Content = before

\* A file is left with the flag only if its data fork is empty and what it reads
\* as is what was read, and without the flag only if it has no attribute left over.
\* Excepted are runs in which a call failed that clears a flag, removes an attribute,
\* empties the file, writes the decmpfs attribute, or would have shown a leftover
\* attribute (afsctool.c:441-449, 1075-1095, 1157-1172).
NothingHalfDone ==
    pc = "returned" /\ result # "skipped"
        /\ failed \cap {"chflags_unprobe", "chflags_revert", "removexattr",
                        "ftruncate", "setxattr_decmpfs", "listxattr_leftover"} = {}
    => IF flag THEN data = "empty" /\ Content # "empty"
               ELSE decmpfs = "none" /\ rsrc = "none"

\* compressFile() never makes a file it has once read unreadable to the check:
\* when it says the file is compressed, the file reads as before, with the
\* permissions it had, and none of its backups has been exempted from the unlink()
\* at its end (afsctool.c:1098-1146, 1208-1229).
CompressedIsSame ==
    result = "compressed" /\ pc = "returned" /\ CheckFiles
    => /\ flag /\ Content = before /\ mode = origMode
       /\ own = "none" /\ kept = keptBefore

\* A resource fork is written only where there is none, and neither the flag nor,
\* unless listxattr() has failed and hidden it, an attribute, so that what a crash
\* has left is not built upon (afsctool.c:447-470).
NotBuiltUpon ==
    [][rsrc' # rsrc /\ rsrc' # "none"
       => /\ rsrc = "none" /\ ~flag
          /\ decmpfs = "none" \/ "listxattr_leftover" \in failed]_vars
-----------------------------------------------------------------------------
(* What README.md and the comments promise without the exceptions made      *)
(* above; each is violated by what the code does.                           *)

\* "the existing undo if something went wrong" (src/README.md:12-13)
FailureUndone ==
    pc = "returned" /\ CheckFiles /\ Cardinality(failed) <= 1 => Content = before

\* "restoreFile" (afsctool.c:383-400) writes back what was read, "undo if something
\* went wrong" (src/README.md:12-13): built with blocks, it cannot.
RestoreFileRestores ==
    pc = "returned" /\ failed \subseteq {"setxattr_rsrc", "fchflags"}
    => Content = before
=============================================================================
