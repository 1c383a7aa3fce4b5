----------------------------- MODULE RoundTrip ------------------------------
(***************************************************************************)
(* afsctool -c and afsctool -d run on one file, in any order and more than *)
(* once: CompressFile and DecompressFile act on the same forks, attribute, *)
(* flag and mode, and each finds what the other, a failed call or a crash  *)
(* has left.                                                               *)
(***************************************************************************)
EXTENDS CompressFile

CONSTANTS
    Families,           \* the compression types used: "zlib", "lz"
    MaxDecompressions   \* how many times afsctool -d is run

ASSUME RoundTripAssumption ==
    Families \subseteq {"zlib", "lz"} /\ MaxDecompressions \in Nat

VARIABLES
    turn,               \* which of the two the user runs
    hidden, family, outBuf, removeResourceFork,
    dStMode, dOrigMode, dBefore, dResult, dpc, dRun     \* of DecompressFile

D == INSTANCE DecompressFile WITH
    MaxRuns <- MaxDecompressions,
    stMode <- dStMode, origMode <- dOrigMode, before <- dBefore,
    result <- dResult, pc <- dpc, run <- dRun

decompressVars == <<hidden, family, outBuf, removeResourceFork,
                    dStMode, dOrigMode, dBefore, dResult, dpc, dRun>>
compressVars == <<stMode, origMode, own, kept, inBuf, encoding, result, pc, runVars>>
allVars == <<vars, turn, decompressVars>>

TripInit ==
    /\ Init
    /\ turn = "compress"
    /\ hidden = TRUE /\ family \in Families
    /\ D!InitLocal

CompressTurn ==
    /\ turn = "compress" /\ Next
    /\ UNCHANGED <<turn, decompressVars>>

DecompressTurn ==
    /\ turn = "decompress" /\ D!Next
    /\ UNCHANGED <<turn, compressVars>>

\* The program has ended, and the user runs it with the other option.
ChangeTurn ==
    /\ pc \in {"returned", "dead"} /\ dpc \in D!Idle
    /\ turn' = IF turn = "compress" THEN "decompress" ELSE "compress"
    /\ dpc' = "idle"
    /\ UNCHANGED <<vars, hidden, family, outBuf, removeResourceFork,
                   dStMode, dOrigMode, dBefore, dResult, dRun>>

TripNext == CompressTurn \/ DecompressTurn \/ ChangeTurn

TripSpec == TripInit /\ [][TripNext]_allVars
-----------------------------------------------------------------------------
TripTypeOK ==
    /\ data \in Data \cup {"bad"} /\ flag \in BOOLEAN /\ hidden \in BOOLEAN
    /\ rsrc \in Data \cup {"none", "bad"}
    /\ decmpfs \in Data \cup {"none", "bad", "fork"}
    /\ {mode, dStMode, dOrigMode} \subseteq Modes
    /\ outBuf \in Data \cup {"none", "bad"} /\ removeResourceFork \in BOOLEAN
    /\ dResult \in {"none", "skipped", "failed", "decompressed"}
    /\ dpc \in D!Idle \cup {"list", "decode", "readDecoded", "unflag", "reopen", "goBack",
                            "write", "flagAgain", "removeAttr", "removeFork", "bail"}
    /\ dRun \in 0 .. MaxDecompressions

\* With -b and the check, what the file held at first is never only in memory: it is
\* in the data fork, the fork or the attribute of its compressed copy, or a backup,
\* wherever a process dies, over compressions and decompressions.  Excepted are
\* the fclose() calls whose result is ignored, a decmpfs attribute that cannot be
\* written, one that a failed listxattr() hides, and one that cannot be removed: the
\* next run's trial of the flag brings it to life, and decompressing writes it over
\* the data (afsctool.c:430-449, 543-589, 1056-1063, 1157-1185, 1641-1649).
OriginalKept ==
    BackupFile /\ CheckFiles
        /\ failed \cap {"fclose_backup", "fclose", "fclose_decompressed",
                        "setxattr_decmpfs", "removexattr", "listxattr_leftover"} = {}
    => "orig" \in {data, rsrc, decmpfs, own} \cup kept

DecompressCalls == {"getxattr", "uncompress", "fread_decoded", "fopen_decoded",
    "chflags_clear", "fopen_update", "chflags_back", "fwrite_decompressed",
    "fclose_decompressed", "chflags_again", "removexattr_decmpfs", "removexattr_rsrc"}

\* decompressFile() undoes one failure: the file reads as before, and keeps its other
\* flags unless it could not be opened for writing.  Excepted are the fclose() whose
\* result is ignored, and a file nobody may read or write, for which the chmod() calls
\* make the open fail and chflags() is the failure (afsctool.c:1280-1288, 1596-1637).
DecompressUndone ==
    dpc \in {"returned", "aborted"}
        /\ Cardinality(failed \cap DecompressCalls) <= 1
    => /\ "fclose_decompressed" \in failed \/ (dOrigMode = {} /\ "chflags_back" \in failed)
            \/ Content = dBefore.content
       /\ "fopen_update" \in failed \/ dOrigMode = {} \/ hidden = dBefore.hidden

\* A decompressed file is a plain one: it holds what it read as, with its mode, and
\* nothing is left of the compressed copy.  Excepted are the fclose() whose result is
\* ignored, removals that failed, and a fork the attribute does not refer to, which
\* the compression found but for the failure of a listxattr() (afsctool.c:447-449,
\* 1628-1655).
UncompressedIsWhole ==
    dpc = "returned" /\ dResult = "decompressed"
    => /\ ~flag /\ mode = dOrigMode
       /\ "fclose_decompressed" \in failed \/ data = dBefore.content
       /\ failed \cap {"removexattr_decmpfs", "removexattr_rsrc"} # {}
            \/ /\ decmpfs = "none"
               /\ rsrc = "none" \/ "listxattr_leftover" \in failed
=============================================================================
