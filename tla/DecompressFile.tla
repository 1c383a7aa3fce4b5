--------------------------- MODULE DecompressFile ---------------------------
(***************************************************************************)
(* decompressFile() of afsctool.c: the compressed copy of a file is        *)
(* decoded into memory, the UF_COMPRESSED flag is cleared, the data fork   *)
(* is written and the attributes are removed, by calls any of which can    *)
(* fail, in a process that may die between any two of them.                *)
(*                                                                         *)
(* The file's forks, attribute, flag and mode are those of CompressFile,   *)
(* with which RoundTrip composes this module.                              *)
(***************************************************************************)
EXTENDS Integers, FiniteSets

\* RoundTrip has the assumptions: a truth value and two natural numbers.
CONSTANTS
    MayDie,         \* may the process die?
    MaxFaults,      \* how many calls fail
    MaxRuns         \* how many times afsctool -d is run on the file

VARIABLES
    data, rsrc, decmpfs, flag, mode,    \* the file, as in CompressFile
    hidden,         \* some other bit of its st_flags
    family,         \* of the compression types: "zlib", or "lz" for LZVN and LZFSE
    outBuf,         \* what has been decoded
    removeResourceFork,
    stMode, origMode,       \* inFileInfo->st_mode, orig_mode
    before,         \* the file's content and other flag when it was entered: a history
    failed,         \* the calls that have failed: a history
    result,         \* how the last run ended: a history
    pc, run

file == <<data, rsrc, decmpfs, flag, hidden>>
modes == <<mode, stMode, origMode>>
buffers == <<outBuf, removeResourceFork>>
runs == <<family, before, result, run>>
vars == <<file, modes, buffers, failed, pc, runs>>

Idle == {"idle", "returned", "aborted", "dead"}

\* What the attributes hold, the flag set or not.
Stored == IF decmpfs = "fork" THEN rsrc ELSE decmpfs

\* What a reader gets.
Content == IF flag /\ decmpfs # "none" THEN Stored ELSE data

InitLocal ==
    /\ outBuf = "none" /\ removeResourceFork = FALSE
    /\ stMode = mode /\ origMode = mode
    /\ result = "none"
    /\ before = [content |-> data, hidden |-> hidden] /\ pc = "idle" /\ run = 0

Goto(from, to) == pc = from /\ pc' = to
Fails(call) ==
    /\ call \notin failed /\ Cardinality(failed) < MaxFaults
    /\ failed' = failed \cup {call}
Succeeds == UNCHANGED failed
-----------------------------------------------------------------------------
(* Slips this code could contain, each a variant of an action below.        *)

\* the attributes removed after a write that has failed
WriteDataFailsRemoves ==
    /\ Goto("write", "removeAttr") /\ Fails("fwrite_decompressed")
    /\ data' \in {data, "part"}
    /\ UNCHANGED <<rsrc, decmpfs, flag, hidden, modes, buffers, runs>>

\* goto bail without setting the flag again
OpenForWriteForgets ==
    /\ Goto("reopen", "bail")
    /\ IF mode # {"r", "w"} THEN Succeeds ELSE Fails("fopen_update")
    /\ UNCHANGED <<file, modes, buffers, runs>>

\* the mode of the first chmod() kept
BailKeepsMode ==
    /\ Goto("bail", "returned")
    /\ UNCHANGED <<file, modes, buffers, failed, runs>>

\* CMP_ZLIB_XATTR assumed, whatever the type
DecodeZlibAttribute ==
    /\ Goto("decode", "unflag") /\ Succeeds
    /\ Stored # "none"
    /\ outBuf' = decmpfs /\ removeResourceFork' = (decmpfs = "fork")
    /\ UNCHANGED <<file, modes, runs>>
-----------------------------------------------------------------------------
\* Not compressed, not a regular file, or quitRequested.
EnterSkips ==
    /\ pc \in Idle /\ run < MaxRuns
    /\ pc' = "returned" /\ run' = run + 1
    /\ before' = [content |-> Content, hidden |-> hidden]
    /\ result' = "skipped"
    /\ UNCHANGED <<file, modes, buffers, failed, family>>

\* Each chmod() asks for the original mode and one bit, so the second undoes
\* what the first has added; lstat() refreshes inFileInfo.
Enter ==
    /\ pc \in Idle /\ run < MaxRuns /\ flag
    /\ pc' = "list" /\ run' = run + 1
    /\ origMode' = mode
    /\ mode' = IF "r" \notin mode THEN mode \cup {"r"} ELSE mode \cup {"w"}
    /\ stMode' = mode'
    /\ outBuf' = "none" /\ removeResourceFork' = FALSE
    /\ before' = [content |-> Content, hidden |-> hidden]
    /\ result' = "failed"
    /\ UNCHANGED <<file, failed, family>>

\* listxattr(), and getxattr() of the two attributes into memory.
ReadAttributes ==
    \/ /\ Goto("list", IF family = "zlib" THEN "decode" ELSE "readDecoded") /\ Succeeds
       /\ decmpfs # "none"
       /\ UNCHANGED <<file, modes, buffers, runs>>
    \/ /\ Goto("list", "bail")
       /\ IF decmpfs = "none" THEN Succeeds ELSE Fails("getxattr")
       /\ UNCHANGED <<file, modes, buffers, runs>>

\* CMP_ZLIB_*: every block's bounds are checked, then it is inflated or, marked
\* 0xFF, copied.  What is "bad" can still inflate to the right length.
DecodeZlib ==
    /\ Goto("decode", "unflag") /\ Succeeds
    /\ Stored # "none"
    /\ outBuf' = Stored /\ removeResourceFork' = (decmpfs = "fork")
    /\ UNCHANGED <<file, modes, runs>>

\* A fork that is missing, bounds that are off, data that do not inflate.
DecodeZlibFails ==
    /\ Goto("decode", "bail")
    /\ IF Stored \in {"none", "bad"} THEN Succeeds ELSE Fails("uncompress")
    /\ UNCHANGED <<file, modes, buffers, runs>>

\* A fork shorter than its header says: the buffers are freed here and again at
\* bail.
DecodeZlibAborts ==
    /\ Goto("decode", "aborted") /\ decmpfs = "fork" /\ rsrc = "bad"
    /\ UNCHANGED <<file, modes, buffers, failed, runs>>

\* CMP_LZVN_* and CMP_LZFSE_*: the kernel decodes.
ReadDecoded ==
    /\ Goto("readDecoded", "unflag") /\ Succeeds
    /\ "r" \in mode /\ Content # "none"
    /\ outBuf' = Content /\ removeResourceFork' = (decmpfs = "fork")
    /\ UNCHANGED <<file, modes, runs>>

\* fread() fails, or this version of the system knows no such type.
ReadDecodedFails ==
    /\ Goto("readDecoded", "bail")
    /\ Succeeds \/ Fails("fread_decoded")
    /\ UNCHANGED <<file, modes, buffers, runs>>

\* fopen() fails, and the NULL it returns is passed to fclose().
ReadDecodedAborts ==
    /\ Goto("readDecoded", "aborted") /\ Fails("fopen_decoded")
    /\ UNCHANGED <<file, modes, buffers, runs>>

\* chflags(~UF_COMPRESSED & st_flags)
ClearFlag ==
    /\ Goto("unflag", "reopen") /\ Succeeds
    /\ flag' = FALSE
    /\ UNCHANGED <<data, rsrc, decmpfs, hidden, modes, buffers, runs>>

ClearFlagFails ==
    /\ Goto("unflag", "bail") /\ Fails("chflags_clear")
    /\ UNCHANGED <<file, modes, buffers, runs>>

OpenForWrite ==
    /\ Goto("reopen", "write") /\ Succeeds
    /\ UNCHANGED <<file, modes, buffers, runs>>

\* fopen("r+") needs both permissions, except of the superuser.
OpenForWriteFails ==
    /\ Goto("reopen", "goBack")
    /\ IF mode # {"r", "w"} THEN Succeeds ELSE Fails("fopen_update")
    /\ UNCHANGED <<file, modes, buffers, runs>>

\* chflags(UF_COMPRESSED & st_flags): every other flag goes; a failure is only
\* reported
GoBack ==
    /\ Goto("goBack", "bail")
    /\ \/ Succeeds /\ flag' = TRUE /\ hidden' = FALSE
       \/ Fails("chflags_back") /\ UNCHANGED <<flag, hidden>>
    /\ UNCHANGED <<data, rsrc, decmpfs, modes, buffers, runs>>

\* fwrite() and fclose(), whose result is not looked at
WriteData ==
    /\ Goto("write", "removeAttr")
    /\ \/ Succeeds /\ data' = outBuf
       \/ Fails("fclose_decompressed") /\ data' = "part"
    /\ result' = "decompressed"
    /\ UNCHANGED <<rsrc, decmpfs, flag, hidden, modes, buffers, family, before, run>>

WriteDataFails ==
    /\ Goto("write", "flagAgain") /\ Fails("fwrite_decompressed")
    /\ data' \in {data, "part"}
    /\ UNCHANGED <<rsrc, decmpfs, flag, hidden, modes, buffers, runs>>

\* chflags(UF_COMPRESSED | st_flags); a failure is only reported
FlagAgain ==
    /\ Goto("flagAgain", "bail")
    /\ \/ Succeeds /\ flag' = TRUE
       \/ Fails("chflags_again") /\ flag' = flag
    /\ UNCHANGED <<data, rsrc, decmpfs, hidden, modes, buffers, runs>>

\* removexattr() of the two; failures are only reported
RemoveAttribute ==
    /\ Goto("removeAttr", IF removeResourceFork THEN "removeFork" ELSE "bail")
    /\ \/ Succeeds /\ decmpfs' = "none"
       \/ Fails("removexattr_decmpfs") /\ decmpfs' = decmpfs
    /\ UNCHANGED <<data, rsrc, flag, hidden, modes, buffers, runs>>

RemoveFork ==
    /\ Goto("removeFork", "bail")
    /\ \/ Succeeds /\ rsrc' = "none"
       \/ Fails("removexattr_rsrc") /\ rsrc' = rsrc
    /\ UNCHANGED <<data, decmpfs, flag, hidden, modes, buffers, runs>>

\* the times, which are those of the file before, and the mode
Bail ==
    /\ Goto("bail", "returned")
    /\ mode' = IF stMode # origMode THEN origMode ELSE mode
    /\ UNCHANGED <<file, stMode, origMode, buffers, failed, runs>>

\* The process ends, or the worker is cancelled.
Die ==
    /\ MayDie /\ pc \notin Idle
    /\ pc' = "dead"
    /\ UNCHANGED <<file, modes, buffers, failed, runs>>

Next ==
    \/ EnterSkips \/ Enter \/ ReadAttributes
    \/ DecodeZlib \/ DecodeZlibFails \/ DecodeZlibAborts
    \/ ReadDecoded \/ ReadDecodedFails \/ ReadDecodedAborts
    \/ ClearFlag \/ ClearFlagFails \/ OpenForWrite \/ OpenForWriteFails \/ GoBack
    \/ WriteData \/ WriteDataFails \/ FlagAgain \/ RemoveAttribute \/ RemoveFork
    \/ Bail \/ Die
=============================================================================
