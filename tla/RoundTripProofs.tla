-------------------------- MODULE RoundTripProofs --------------------------
(***************************************************************************)
(* What RoundTrip promises of a file that afsctool -c and afsctool -d are  *)
(* run on in any order, proved for every set of options, any number of     *)
(* runs of either and any number of failing calls.  The inductive          *)
(* invariant has a part for each property: where decompressFile() is says  *)
(* how the file differs from what it read as when it was entered, and, as  *)
(* long as no backup has been left behind, where compressFile() is says    *)
(* where the file's first content is.                                      *)
(***************************************************************************)
EXTENDS RoundTrip, CompressFileProofs

AnyData == Data \cup {"bad"}

\* The program has ended when the user runs it with the other option.
TurnInv ==
    /\ turn \in {"compress", "decompress"}
    /\ turn = "compress" => dpc = "idle"
    /\ turn = "decompress" => pc \in {"returned", "dead"}

\* TripTypeOK, and the types of what compressFile() holds in memory.
TripType ==
    /\ TripTypeOK
    /\ inBuf \in AnyData /\ payload \in AnyData
    /\ stMode \in Modes /\ origMode \in Modes
    /\ pc \in Resting \cup Looking \cup HasRead \cup {"bail"}

\* Only a fork that a decmpfs attribute refers to is beside one, and compressFile()
\* has found neither when it writes them, unless listxattr() has failed and hidden one.
AttributesInv ==
    /\ "listxattr_leftover" \notin failed =>
         /\ decmpfs \in {"none", "fork"} \/ rsrc = "none"
         /\ pc \in {"open", "read", "backup", "encode", "decide", "truncate", "fork"}
              => rsrc = "none" /\ decmpfs = "none"
         /\ pc = "attr" => decmpfs = "none" /\ (kind = "fork" \/ rsrc = "none")
    /\ pc \in {"truncate", "fork"} => kind = "fork"
    /\ pc \in {"truncateLast", "setFlag", "verify"} => decmpfs # "none"
    /\ pc = "verify" => flag
-----------------------------------------------------------------------------
(* The run of decompressFile().                                             *)

\* The flag is set, ...
Reading == {"list", "decode", "readDecoded", "unflag", "aborted"}

\* ... it is cleared, with the attributes still there, ...
Unflagged == {"reopen", "goBack", "write", "flagAgain"}

\* ... and they are being removed.
Removing == {"removeAttr", "removeFork"}

\* What has been decoded is what the attributes hold.
Decoded ==
    /\ decmpfs # "none" /\ outBuf = D!Stored /\ outBuf # "none"
    /\ removeResourceFork = (decmpfs = "fork")

DecompressInv ==
    /\ dpc \in Reading => flag /\ Content = dBefore.content /\ hidden = dBefore.hidden
    /\ dpc \in {"decode", "readDecoded"} => decmpfs # "none"
    /\ dpc = "unflag" => Decoded
    /\ dpc \in Unflagged =>
         ~flag /\ Decoded /\ outBuf = dBefore.content /\ hidden = dBefore.hidden
    /\ dpc = "goBack" => "fopen_update" \in failed \/ dOrigMode = {}
    /\ dpc = "flagAgain" => "fwrite_decompressed" \in failed
    /\ dpc \in Removing =>
         /\ ~flag /\ hidden = dBefore.hidden
         /\ "fclose_decompressed" \in failed \/ data = dBefore.content
    /\ dpc = "removeAttr" => decmpfs # "none" /\ removeResourceFork = (decmpfs = "fork")
    /\ dpc = "removeFork" => decmpfs = "none" \/ "removexattr_decmpfs" \in failed
    /\ dpc \in Removing => dResult = "decompressed"
    /\ dpc \notin D!Idle \cup Removing \cup {"bail"} => dResult = "failed"

\* The mode that decompressFile() has set allows it to write, unless the file had none.
ModeInv ==
    dpc \notin D!Idle => dStMode = mode /\ (mode = {"r", "w"} \/ dOrigMode = {})

\* What DecompressUndone and UncompressedIsWhole say of a finished run but for its mode.
UndoneInv ==
    dpc \in {"bail", "returned"} =>
        /\ (\A c, d \in failed \cap DecompressCalls : c = d) =>
             /\ \/ "fclose_decompressed" \in failed
                \/ dOrigMode = {} /\ "chflags_back" \in failed
                \/ Content = dBefore.content
             /\ "fopen_update" \in failed \/ dOrigMode = {} \/ hidden = dBefore.hidden
        /\ dResult = "decompressed" =>
             /\ ~flag /\ (dpc = "returned" => mode = dOrigMode)
             /\ "fclose_decompressed" \in failed \/ data = dBefore.content
             /\ failed \cap {"removexattr_decmpfs", "removexattr_rsrc"} # {}
                  \/ /\ decmpfs = "none"
                     /\ rsrc = "none" \/ "listxattr_leftover" \in failed
-----------------------------------------------------------------------------
(* The first content.                                                       *)

\* No backup that stays has what the file held, and no exception of OriginalKept
\* applies.
Exposed ==
    /\ BackupFile /\ CheckFiles
    /\ failed \cap {"fclose_backup", "fclose", "fclose_decompressed", "setxattr_decmpfs",
                    "removexattr", "listxattr_leftover"} = {}
    /\ "orig" \notin kept

\* It is then in the file, and neither tool can take something else for it: what the
\* attributes hold is it, or nothing.
Safe == D!Stored = "orig" \/ (data = "orig" /\ D!Stored = "none")

\* compressFile() is rewriting the file.
Rewriting == {"fork", "attr", "truncateLast", "setFlag", "unsetAttrs", "restore", "verify",
              "revert", "removeAttrs", "refill"}

OriginalInv ==
    Exposed =>
        /\ pc \notin Rewriting => Safe
        /\ pc \in HasRead => inBuf = "orig"
        /\ pc \in HasRead \ {"backup"} => own = "orig"
        /\ pc \in {"restore", "refill"} => decmpfs = "none"
        /\ dpc \in Removing => data = "orig"

\* The inductive invariant
TripInv ==
    /\ TurnInv /\ TripType /\ IsFiniteSet(failed) /\ AttributesInv
    /\ DecompressInv /\ ModeInv /\ UndoneInv /\ OriginalInv
-----------------------------------------------------------------------------
(* The steps of compressFile().                                             *)

LEMMA CompressTypes ==
    ASSUME TripType, Next, UNCHANGED decompressVars
    PROVE  TripType'
  <1> USE DEF vars, Next, EnterSkips, Enter, ProbeOn, ProbeOff, ListAttrs, OpenFile, ReadFile,
             WriteBackup, Encode, Decide, TruncateFirst, WriteFork, WriteForkFails,
             WriteAttr, WriteAttrFails, TruncateLast, SetFlag, SetFlagFails, UnsetAttrs,
             RestoreFile, Verify, RevertFlag, RemoveAttrs, Refill, RefillFails, Bail, Die,
             RunAgain, Finished, Truncate, RemoveAttributes, RestoreFileWorks,
             RestoreFileFails, KeepBackup, Goto, Fails, Succeeds, Return, fileVars, modeVars,
             backups, encoding, runVars
  <1>1. ASSUME data \in AnyData, inBuf \in AnyData
        PROVE  data' \in AnyData
    BY <1>1 DEF AnyData, Data
  <1>2. ASSUME flag \in BOOLEAN
        PROVE  flag' \in BOOLEAN
    BY <1>2
  <1>3. ASSUME rsrc \in Data \cup {"none", "bad"}, payload \in AnyData
        PROVE  rsrc' \in Data \cup {"none", "bad"}
    BY <1>3 DEF AnyData
  <1>4. ASSUME decmpfs \in Data \cup {"none", "bad", "fork"}, payload \in AnyData
        PROVE  decmpfs' \in Data \cup {"none", "bad", "fork"}
    BY <1>4 DEF AnyData
  <1>5. ASSUME mode \in Modes /\ stMode \in Modes /\ origMode \in Modes
        PROVE  mode' \in Modes /\ stMode' \in Modes /\ origMode' \in Modes
    BY <1>5 DEF Modes
  <1>6. ASSUME data \in AnyData, inBuf \in AnyData, payload \in AnyData
        PROVE  inBuf' \in AnyData /\ payload' \in AnyData
    BY <1>6 DEF AnyData, Data
  <1>7. ASSUME pc \in Resting \cup Looking \cup HasRead \cup {"bail"}
        PROVE  pc' \in Resting \cup Looking \cup HasRead \cup {"bail"}
    BY <1>7 DEF Resting, Looking, HasRead
  <1> HIDE DEF vars, Next, EnterSkips, Enter, ProbeOn, ProbeOff, ListAttrs, OpenFile, ReadFile,
             WriteBackup, Encode, Decide, TruncateFirst, WriteFork, WriteForkFails,
             WriteAttr, WriteAttrFails, TruncateLast, SetFlag, SetFlagFails, UnsetAttrs,
             RestoreFile, Verify, RevertFlag, RemoveAttrs, Refill, RefillFails, Bail, Die,
             RunAgain, Finished, Truncate, RemoveAttributes, RestoreFileWorks,
             RestoreFileFails, KeepBackup, Goto, Fails, Succeeds, Return, fileVars, modeVars,
             backups, encoding, runVars
  <1>8. /\ UNCHANGED <<hidden, outBuf, removeResourceFork, dStMode, dOrigMode>>
        /\ UNCHANGED <<dResult, dpc, dRun>>
    BY DEF decompressVars
  <1>9. QED
    BY <1>1, <1>2, <1>3, <1>4, <1>5, <1>6, <1>7, <1>8 DEF TripType, TripTypeOK, AnyData

\* Nothing the invariant speaks of changes when no variable does.
LEMMA FinishedLeaves ==
    ASSUME Finished
    PROVE  AttributesInv' = AttributesInv /\ (OriginalInv /\ UNCHANGED dpc => OriginalInv')
  <1>1. /\ UNCHANGED <<data, rsrc, decmpfs, flag, own, kept, inBuf, kind, failed, pc, opt>>
    BY DEF Finished, vars, fileVars, backups, encoding, runVars
  <1>2. AttributesInv' = AttributesInv
    BY <1>1 DEF AttributesInv
  <1>3. OriginalInv /\ UNCHANGED dpc => OriginalInv'
    BY <1>1 DEF OriginalInv, Exposed, Safe, D!Stored, BackupFile, CheckFiles
  <1>4. QED
    BY <1>2, <1>3

\* compressFile() writes where it has found no attribute.
LEMMA CompressAttributes ==
    ASSUME TripType, AttributesInv, Next
    PROVE  AttributesInv'
  <1> USE DEF Goto, Fails, Succeeds, Return, fileVars, modeVars, backups, encoding,
             runVars, Content, Resting, Looking, HasRead,
             TripType, TripTypeOK, AnyData, Data, AttributesInv
  <1>1. CASE EnterSkips
    BY <1>1 DEF EnterSkips
  <1>2. CASE Enter
    BY <1>2 DEF Enter
  <1>3. CASE ProbeOn
    BY <1>3 DEF ProbeOn
  <1>4. CASE ProbeOff
    BY <1>4 DEF ProbeOff
  <1>5. CASE ListAttrs
    BY <1>5 DEF ListAttrs, LeftOver
  <1>6. CASE OpenFile
    BY <1>6 DEF OpenFile
  <1>7. CASE ReadFile
    BY <1>7 DEF ReadFile
  <1>8. CASE WriteBackup
    BY <1>8 DEF WriteBackup
  <1>9. CASE Encode
    BY <1>9 DEF Encode
  <1>10. CASE Decide
    BY <1>10 DEF Decide
  <1>11. CASE TruncateFirst
    BY <1>11 DEF TruncateFirst, Truncate
  <1>12. CASE WriteFork
    BY <1>12 DEF WriteFork
  <1>13. CASE WriteForkFails
    BY <1>13 DEF WriteForkFails
  <1>14. CASE WriteAttr
    BY <1>14 DEF WriteAttr
  <1>15. CASE WriteAttrFails
    BY <1>15 DEF WriteAttrFails
  <1>16. CASE TruncateLast
    BY <1>16 DEF TruncateLast, Truncate
  <1>17. CASE SetFlag
    BY <1>17 DEF SetFlag
  <1>18. CASE SetFlagFails
    BY <1>18 DEF SetFlagFails
  <1>19. CASE UnsetAttrs
    BY <1>19 DEF UnsetAttrs, RemoveAttributes
  <1>20. CASE RestoreFile
    BY <1>20 DEF RestoreFile, RestoreFileWorks, RestoreFileFails, KeepBackup
  <1>21. CASE Verify
    BY <1>21 DEF Verify
  <1>22. CASE RevertFlag
    BY <1>22 DEF RevertFlag, KeepBackup
  <1>23. CASE RemoveAttrs
    BY <1>23 DEF RemoveAttrs, RemoveAttributes
  <1>24. CASE Refill
    BY <1>24 DEF Refill
  <1>25. CASE RefillFails
    BY <1>25 DEF RefillFails, KeepBackup
  <1>26. CASE Bail
    BY <1>26 DEF Bail
  <1>27. CASE Die
    BY <1>27 DEF Die, KeepBackup
  <1>28. CASE RunAgain
    BY <1>28 DEF RunAgain
  <1>29. QED
    BY <1>1, <1>2, <1>3, <1>4, <1>5, <1>6, <1>7, <1>8, <1>9, <1>10, <1>11, <1>12,
       <1>13, <1>14, <1>15, <1>16, <1>17, <1>18, <1>19, <1>20, <1>21, <1>22,
       <1>23, <1>24, <1>25, <1>26, <1>27, <1>28, FinishedLeaves
       DEF Next

\* As long as the backup has not been left behind, what compressFile() has read is
\* in its own backup, and back in the file or still there when that goes.
LEMMA CompressOriginal ==
    ASSUME TripType, AttributesInv, OriginalInv, Next, UNCHANGED dpc, dpc = "idle"
    PROVE  OriginalInv'
  <1> USE DEF Goto, Fails, Succeeds, Return, fileVars, modeVars, backups, encoding,
             runVars, Content, Resting, Looking, HasRead,
             TripType, TripTypeOK, AnyData, Data, AttributesInv, OriginalInv, Exposed, Safe,
             D!Stored, Rewriting, Removing, BackupFile, CheckFiles
  <1>1. CASE EnterSkips
    BY <1>1 DEF EnterSkips
  <1>2. CASE Enter
    BY <1>2 DEF Enter
  <1>3. CASE ProbeOn
    BY <1>3 DEF ProbeOn
  <1>4. CASE ProbeOff
    BY <1>4 DEF ProbeOff
  <1>5. CASE ListAttrs
    BY <1>5 DEF ListAttrs, LeftOver
  <1>6. CASE OpenFile
    BY <1>6 DEF OpenFile
  <1>7. CASE ReadFile
    BY <1>7 DEF ReadFile
  <1>8. CASE WriteBackup
    BY <1>8 DEF WriteBackup
  <1>9. CASE Encode
    BY <1>9 DEF Encode
  <1>10. CASE Decide
    BY <1>10 DEF Decide
  <1>11. CASE TruncateFirst
    BY <1>11 DEF TruncateFirst, Truncate
  <1>12. CASE WriteFork
    BY <1>12 DEF WriteFork
  <1>13. CASE WriteForkFails
    BY <1>13 DEF WriteForkFails
  <1>14. CASE WriteAttr
    BY <1>14 DEF WriteAttr
  <1>15. CASE WriteAttrFails
    BY <1>15 DEF WriteAttrFails
  <1>16. CASE TruncateLast
    BY <1>16 DEF TruncateLast, Truncate
  <1>17. CASE SetFlag
    BY <1>17 DEF SetFlag
  <1>18. CASE SetFlagFails
    BY <1>18 DEF SetFlagFails
  <1>19. CASE UnsetAttrs
    BY <1>19 DEF UnsetAttrs, RemoveAttributes
  <1>20. CASE RestoreFile
    BY <1>20 DEF RestoreFile, RestoreFileWorks, RestoreFileFails, KeepBackup
  <1>21. CASE Verify
    BY <1>21 DEF Verify
  <1>22. CASE RevertFlag
    BY <1>22 DEF RevertFlag, KeepBackup
  <1>23. CASE RemoveAttrs
    BY <1>23 DEF RemoveAttrs, RemoveAttributes
  <1>24. CASE Refill
    BY <1>24 DEF Refill
  <1>25. CASE RefillFails
    BY <1>25 DEF RefillFails, KeepBackup
  <1>26. CASE Bail
    BY <1>26 DEF Bail
  <1>27. CASE Die
    BY <1>27 DEF Die, KeepBackup
  <1>28. CASE RunAgain
    BY <1>28 DEF RunAgain
  <1>29. QED
    BY <1>1, <1>2, <1>3, <1>4, <1>5, <1>6, <1>7, <1>8, <1>9, <1>10, <1>11, <1>12,
       <1>13, <1>14, <1>15, <1>16, <1>17, <1>18, <1>19, <1>20, <1>21, <1>22,
       <1>23, <1>24, <1>25, <1>26, <1>27, <1>28, FinishedLeaves
       DEF Next
-----------------------------------------------------------------------------
(* The steps of decompressFile().                                           *)

\* The two tools read a file in the same way.
LEMMA SameContent == D!Content = Content
  BY DEF D!Content, D!Stored, Content

\* What decompressFile() writes is what it has decoded.
LEMMA DecompressTypes ==
    ASSUME TripType, DecompressInv, D!Next, UNCHANGED compressVars
    PROVE  TripType'
  <1> USE DEF D!Next, D!EnterSkips, D!Enter, D!ReadAttributes, D!DecodeZlib,
             D!DecodeZlibFails, D!DecodeZlibAborts, D!ReadDecoded,
             D!ReadDecodedFails, D!ReadDecodedAborts, D!ClearFlag,
             D!ClearFlagFails, D!OpenForWrite, D!OpenForWriteFails, D!GoBack,
             D!WriteData, D!WriteDataFails, D!FlagAgain, D!RemoveAttribute,
             D!RemoveFork, D!Bail, D!Die, D!Goto, D!Fails, D!Succeeds, D!file,
             D!modes, D!buffers, D!runs
  <1>1. /\ D!Stored \in Data \cup {"none", "bad"} /\ Content \in Data \cup {"none", "bad"}
        /\ dpc = "write" => outBuf # "none"
    BY DEF TripType, TripTypeOK, D!Stored, Content, DecompressInv, Decoded, Unflagged, Data
  <1> USE SameContent
  <1>2. ASSUME data \in Data \cup {"bad"}, outBuf \in Data \cup {"none", "bad"}
        PROVE  data' \in Data \cup {"bad"} /\ outBuf' \in Data \cup {"none", "bad"}
    BY <1>1, <1>2 DEF Data
  <1>3. ASSUME flag \in BOOLEAN, hidden \in BOOLEAN
        PROVE  flag' \in BOOLEAN /\ hidden' \in BOOLEAN
    BY <1>3
  <1>4. ASSUME rsrc \in Data \cup {"none", "bad"}, decmpfs \in Data \cup {"none", "bad", "fork"}
        PROVE  /\ rsrc' \in Data \cup {"none", "bad"}
               /\ decmpfs' \in Data \cup {"none", "bad", "fork"}
    BY <1>4
  <1>5. ASSUME {mode, dStMode, dOrigMode} \subseteq Modes
        PROVE  {mode', dStMode', dOrigMode'} \subseteq Modes
    BY <1>5 DEF Modes
  <1>6. ASSUME removeResourceFork \in BOOLEAN
        PROVE  removeResourceFork' \in BOOLEAN
    BY <1>6
  <1>7. ASSUME dResult \in {"none", "skipped", "failed", "decompressed"}
        PROVE  dResult' \in {"none", "skipped", "failed", "decompressed"}
    BY <1>7
  <1>8. ASSUME dpc \in D!Idle \cup {"list", "decode", "readDecoded", "unflag", "reopen",
                                   "goBack", "write", "flagAgain", "removeAttr",
                                   "removeFork", "bail"}
        PROVE  dpc' \in D!Idle \cup {"list", "decode", "readDecoded", "unflag", "reopen",
                                    "goBack", "write", "flagAgain", "removeAttr",
                                    "removeFork", "bail"}
    BY <1>8 DEF D!Idle
  <1>9. ASSUME dRun \in 0 .. MaxDecompressions
        PROVE  dRun' \in 0 .. MaxDecompressions
    <2>1. /\ MaxDecompressions \in Nat
          /\ dRun' = dRun \/ (dRun < MaxDecompressions /\ dRun' = dRun + 1)
      BY RoundTripAssumption
    <2>2. QED
      BY <1>9, <2>1
  <1> HIDE DEF D!Next, D!EnterSkips, D!Enter, D!ReadAttributes, D!DecodeZlib,
             D!DecodeZlibFails, D!DecodeZlibAborts, D!ReadDecoded,
             D!ReadDecodedFails, D!ReadDecodedAborts, D!ClearFlag,
             D!ClearFlagFails, D!OpenForWrite, D!OpenForWriteFails, D!GoBack,
             D!WriteData, D!WriteDataFails, D!FlagAgain, D!RemoveAttribute,
             D!RemoveFork, D!Bail, D!Die, D!Goto, D!Fails, D!Succeeds, D!file,
             D!modes, D!buffers, D!runs
  <1>10. UNCHANGED <<inBuf, payload, stMode, origMode, pc>>
    BY DEF compressVars, encoding
  <1>11. QED
    BY <1>2, <1>3, <1>4, <1>5, <1>6, <1>7, <1>8, <1>9, <1>10
       DEF TripType, TripTypeOK, AnyData

LEMMA DecompressFailedFinite ==
    ASSUME IsFiniteSet(failed), D!Next
    PROVE  IsFiniteSet(failed')
  <1>1. failed' = failed \/ \E call : failed' = failed \cup {call}
    BY DEF D!Next, D!EnterSkips, D!Enter, D!ReadAttributes, D!DecodeZlib,
           D!DecodeZlibFails, D!DecodeZlibAborts, D!ReadDecoded,
           D!ReadDecodedFails, D!ReadDecodedAborts, D!ClearFlag,
           D!ClearFlagFails, D!OpenForWrite, D!OpenForWriteFails, D!GoBack,
           D!WriteData, D!WriteDataFails, D!FlagAgain, D!RemoveAttribute,
           D!RemoveFork, D!Bail, D!Die, D!Goto, D!Fails, D!Succeeds, D!file,
           D!modes, D!buffers, D!runs
  <1>2. QED
    BY <1>1, FS_AddElement

\* An attribute or a fork is removed, never made.
LEMMA DecompressAttributes ==
    ASSUME TripType, AttributesInv, D!Next,
           UNCHANGED compressVars, pc \in {"returned", "dead"}
    PROVE  AttributesInv'
  <1>0. UNCHANGED <<own, kept, inBuf, kind, payload, pc, opt>>
    BY DEF compressVars, encoding, runVars
  <1> USE <1>0
  <1> USE DEF D!Goto, D!Fails, D!Succeeds, D!file, D!modes, D!buffers, D!runs, TripType,
             TripTypeOK, AnyData, Data, AttributesInv
  <1>1. CASE D!EnterSkips
    BY <1>1 DEF D!EnterSkips
  <1>2. CASE D!Enter
    BY <1>2 DEF D!Enter
  <1>3. CASE D!ReadAttributes
    BY <1>3 DEF D!ReadAttributes
  <1>4. CASE D!DecodeZlib
    BY <1>4 DEF D!DecodeZlib
  <1>5. CASE D!DecodeZlibFails
    BY <1>5 DEF D!DecodeZlibFails
  <1>6. CASE D!DecodeZlibAborts
    BY <1>6 DEF D!DecodeZlibAborts
  <1>7. CASE D!ReadDecoded
    BY <1>7 DEF D!ReadDecoded
  <1>8. CASE D!ReadDecodedFails
    BY <1>8 DEF D!ReadDecodedFails
  <1>9. CASE D!ReadDecodedAborts
    BY <1>9 DEF D!ReadDecodedAborts
  <1>10. CASE D!ClearFlag
    BY <1>10 DEF D!ClearFlag
  <1>11. CASE D!ClearFlagFails
    BY <1>11 DEF D!ClearFlagFails
  <1>12. CASE D!OpenForWrite
    BY <1>12 DEF D!OpenForWrite
  <1>13. CASE D!OpenForWriteFails
    BY <1>13 DEF D!OpenForWriteFails
  <1>14. CASE D!GoBack
    BY <1>14 DEF D!GoBack
  <1>15. CASE D!WriteData
    BY <1>15 DEF D!WriteData
  <1>16. CASE D!WriteDataFails
    BY <1>16 DEF D!WriteDataFails
  <1>17. CASE D!FlagAgain
    BY <1>17 DEF D!FlagAgain
  <1>18. CASE D!RemoveAttribute
    BY <1>18 DEF D!RemoveAttribute
  <1>19. CASE D!RemoveFork
    BY <1>19 DEF D!RemoveFork
  <1>20. CASE D!Bail
    BY <1>20 DEF D!Bail
  <1>21. CASE D!Die
    BY <1>21 DEF D!Die
  <1>22. QED
    BY <1>1, <1>2, <1>3, <1>4, <1>5, <1>6, <1>7, <1>8, <1>9, <1>10, <1>11, <1>12,
       <1>13, <1>14, <1>15, <1>16, <1>17, <1>18, <1>19, <1>20, <1>21 DEF D!Next

\* Where decompressFile() is says what has become of the file.
LEMMA DecompressPhase ==
    ASSUME TripType, ModeInv, DecompressInv, D!Next
    PROVE  DecompressInv'
  <1> USE DEF D!Goto, D!Fails, D!Succeeds, D!file, D!modes, D!buffers, D!runs, TripType,
             TripTypeOK, AnyData, Data, DecompressInv, ModeInv, Reading,
             Unflagged, Removing, Decoded, D!Idle, D!Stored, D!Content,
             Content
  <1>1. CASE D!EnterSkips
    BY <1>1 DEF D!EnterSkips
  <1>2. CASE D!Enter
    BY <1>2 DEF D!Enter
  <1>3. CASE D!ReadAttributes
    BY <1>3 DEF D!ReadAttributes
  <1>4. CASE D!DecodeZlib
    BY <1>4 DEF D!DecodeZlib
  <1>5. CASE D!DecodeZlibFails
    BY <1>5 DEF D!DecodeZlibFails
  <1>6. CASE D!DecodeZlibAborts
    BY <1>6 DEF D!DecodeZlibAborts
  <1>7. CASE D!ReadDecoded
    BY <1>7 DEF D!ReadDecoded
  <1>8. CASE D!ReadDecodedFails
    BY <1>8 DEF D!ReadDecodedFails
  <1>9. CASE D!ReadDecodedAborts
    BY <1>9 DEF D!ReadDecodedAborts
  <1>10. CASE D!ClearFlag
    BY <1>10 DEF D!ClearFlag
  <1>11. CASE D!ClearFlagFails
    BY <1>11 DEF D!ClearFlagFails
  <1>12. CASE D!OpenForWrite
    BY <1>12 DEF D!OpenForWrite
  <1>13. CASE D!OpenForWriteFails
    BY <1>13 DEF D!OpenForWriteFails
  <1>14. CASE D!GoBack
    BY <1>14 DEF D!GoBack
  <1>15. CASE D!WriteData
    BY <1>15 DEF D!WriteData
  <1>16. CASE D!WriteDataFails
    BY <1>16 DEF D!WriteDataFails
  <1>17. CASE D!FlagAgain
    BY <1>17 DEF D!FlagAgain
  <1>18. CASE D!RemoveAttribute
    BY <1>18 DEF D!RemoveAttribute
  <1>19. CASE D!RemoveFork
    BY <1>19 DEF D!RemoveFork
  <1>20. CASE D!Bail
    BY <1>20 DEF D!Bail
  <1>21. CASE D!Die
    BY <1>21 DEF D!Die
  <1>22. QED
    BY <1>1, <1>2, <1>3, <1>4, <1>5, <1>6, <1>7, <1>8, <1>9, <1>10, <1>11, <1>12,
       <1>13, <1>14, <1>15, <1>16, <1>17, <1>18, <1>19, <1>20, <1>21 DEF D!Next

\* The mode that was set at first stays until the end.
LEMMA DecompressMode ==
    ASSUME TripType, ModeInv, D!Next
    PROVE  ModeInv'
  <1> USE DEF D!Goto, D!Fails, D!Succeeds, D!file, D!modes, D!buffers, D!runs, TripType,
             TripTypeOK, AnyData, Data, ModeInv, Modes, D!Idle
  <1>1. CASE D!EnterSkips
    BY <1>1 DEF D!EnterSkips
  <1>2. CASE D!Enter
    BY <1>2 DEF D!Enter
  <1>3. CASE D!ReadAttributes
    BY <1>3 DEF D!ReadAttributes
  <1>4. CASE D!DecodeZlib
    BY <1>4 DEF D!DecodeZlib
  <1>5. CASE D!DecodeZlibFails
    BY <1>5 DEF D!DecodeZlibFails
  <1>6. CASE D!DecodeZlibAborts
    BY <1>6 DEF D!DecodeZlibAborts
  <1>7. CASE D!ReadDecoded
    BY <1>7 DEF D!ReadDecoded
  <1>8. CASE D!ReadDecodedFails
    BY <1>8 DEF D!ReadDecodedFails
  <1>9. CASE D!ReadDecodedAborts
    BY <1>9 DEF D!ReadDecodedAborts
  <1>10. CASE D!ClearFlag
    BY <1>10 DEF D!ClearFlag
  <1>11. CASE D!ClearFlagFails
    BY <1>11 DEF D!ClearFlagFails
  <1>12. CASE D!OpenForWrite
    BY <1>12 DEF D!OpenForWrite
  <1>13. CASE D!OpenForWriteFails
    BY <1>13 DEF D!OpenForWriteFails
  <1>14. CASE D!GoBack
    BY <1>14 DEF D!GoBack
  <1>15. CASE D!WriteData
    BY <1>15 DEF D!WriteData
  <1>16. CASE D!WriteDataFails
    BY <1>16 DEF D!WriteDataFails
  <1>17. CASE D!FlagAgain
    BY <1>17 DEF D!FlagAgain
  <1>18. CASE D!RemoveAttribute
    BY <1>18 DEF D!RemoveAttribute
  <1>19. CASE D!RemoveFork
    BY <1>19 DEF D!RemoveFork
  <1>20. CASE D!Bail
    BY <1>20 DEF D!Bail
  <1>21. CASE D!Die
    BY <1>21 DEF D!Die
  <1>22. QED
    BY <1>1, <1>2, <1>3, <1>4, <1>5, <1>6, <1>7, <1>8, <1>9, <1>10, <1>11, <1>12,
       <1>13, <1>14, <1>15, <1>16, <1>17, <1>18, <1>19, <1>20, <1>21 DEF D!Next

\* A run that ends has undone its failure, or the whole of the compressed copy.
LEMMA DecompressOutcome ==
    ASSUME TripType, AttributesInv, DecompressInv, ModeInv, UndoneInv, D!Next
    PROVE  UndoneInv'
  <1> USE DEF D!Goto, D!Fails, D!Succeeds, D!file, D!modes, D!buffers, D!runs, TripType,
             TripTypeOK, AnyData, Data, AttributesInv, DecompressInv, ModeInv,
             UndoneInv, Reading, Unflagged, Removing, Decoded, D!Idle,
             D!Stored, D!Content, Content, DecompressCalls
  <1>1. CASE D!EnterSkips
    BY <1>1 DEF D!EnterSkips
  <1>2. CASE D!Enter
    BY <1>2 DEF D!Enter
  <1>3. CASE D!ReadAttributes
    BY <1>3 DEF D!ReadAttributes
  <1>4. CASE D!DecodeZlib
    BY <1>4 DEF D!DecodeZlib
  <1>5. CASE D!DecodeZlibFails
    BY <1>5 DEF D!DecodeZlibFails
  <1>6. CASE D!DecodeZlibAborts
    BY <1>6 DEF D!DecodeZlibAborts
  <1>7. CASE D!ReadDecoded
    BY <1>7 DEF D!ReadDecoded
  <1>8. CASE D!ReadDecodedFails
    BY <1>8 DEF D!ReadDecodedFails
  <1>9. CASE D!ReadDecodedAborts
    BY <1>9 DEF D!ReadDecodedAborts
  <1>10. CASE D!ClearFlag
    BY <1>10 DEF D!ClearFlag
  <1>11. CASE D!ClearFlagFails
    BY <1>11 DEF D!ClearFlagFails
  <1>12. CASE D!OpenForWrite
    BY <1>12 DEF D!OpenForWrite
  <1>13. CASE D!OpenForWriteFails
    BY <1>13 DEF D!OpenForWriteFails
  <1>14. CASE D!GoBack
    BY <1>14 DEF D!GoBack
  <1>15. CASE D!WriteData
    BY <1>15 DEF D!WriteData
  <1>16. CASE D!WriteDataFails
    BY <1>16 DEF D!WriteDataFails
  <1>17. CASE D!FlagAgain
    BY <1>17 DEF D!FlagAgain
  <1>18. CASE D!RemoveAttribute
    BY <1>18 DEF D!RemoveAttribute
  <1>19. CASE D!RemoveFork
    BY <1>19 DEF D!RemoveFork
  <1>20. CASE D!Bail
    BY <1>20 DEF D!Bail
  <1>21. CASE D!Die
    BY <1>21 DEF D!Die
  <1>22. QED
    BY <1>1, <1>2, <1>3, <1>4, <1>5, <1>6, <1>7, <1>8, <1>9, <1>10, <1>11, <1>12,
       <1>13, <1>14, <1>15, <1>16, <1>17, <1>18, <1>19, <1>20, <1>21 DEF D!Next

\* The data fork is written with what the attributes hold, which go only then.
LEMMA DecompressOriginal ==
    ASSUME TripType, DecompressInv, OriginalInv, D!Next,
           UNCHANGED compressVars, pc \in {"returned", "dead"}
    PROVE  OriginalInv'
  <1>0. UNCHANGED <<own, kept, inBuf, kind, payload, pc, opt>>
    BY DEF compressVars, encoding, runVars
  <1> USE <1>0
  <1> USE DEF D!Goto, D!Fails, D!Succeeds, D!file, D!modes, D!buffers, D!runs, TripType,
             TripTypeOK, AnyData, Data, DecompressInv, OriginalInv, Exposed,
             Safe, Reading, Unflagged, Removing, Decoded, Rewriting, HasRead,
             D!Stored, D!Idle, BackupFile, CheckFiles
  <1>1. CASE D!EnterSkips
    BY <1>1 DEF D!EnterSkips
  <1>2. CASE D!Enter
    BY <1>2 DEF D!Enter
  <1>3. CASE D!ReadAttributes
    BY <1>3 DEF D!ReadAttributes
  <1>4. CASE D!DecodeZlib
    BY <1>4 DEF D!DecodeZlib
  <1>5. CASE D!DecodeZlibFails
    BY <1>5 DEF D!DecodeZlibFails
  <1>6. CASE D!DecodeZlibAborts
    BY <1>6 DEF D!DecodeZlibAborts
  <1>7. CASE D!ReadDecoded
    BY <1>7 DEF D!ReadDecoded
  <1>8. CASE D!ReadDecodedFails
    BY <1>8 DEF D!ReadDecodedFails
  <1>9. CASE D!ReadDecodedAborts
    BY <1>9 DEF D!ReadDecodedAborts
  <1>10. CASE D!ClearFlag
    BY <1>10 DEF D!ClearFlag
  <1>11. CASE D!ClearFlagFails
    BY <1>11 DEF D!ClearFlagFails
  <1>12. CASE D!OpenForWrite
    BY <1>12 DEF D!OpenForWrite
  <1>13. CASE D!OpenForWriteFails
    BY <1>13 DEF D!OpenForWriteFails
  <1>14. CASE D!GoBack
    BY <1>14 DEF D!GoBack
  <1>15. CASE D!WriteData
    BY <1>15 DEF D!WriteData
  <1>16. CASE D!WriteDataFails
    BY <1>16 DEF D!WriteDataFails
  <1>17. CASE D!FlagAgain
    BY <1>17 DEF D!FlagAgain
  <1>18. CASE D!RemoveAttribute
    BY <1>18 DEF D!RemoveAttribute
  <1>19. CASE D!RemoveFork
    BY <1>19 DEF D!RemoveFork
  <1>20. CASE D!Bail
    BY <1>20 DEF D!Bail
  <1>21. CASE D!Die
    BY <1>21 DEF D!Die
  <1>22. QED
    BY <1>1, <1>2, <1>3, <1>4, <1>5, <1>6, <1>7, <1>8, <1>9, <1>10, <1>11, <1>12,
       <1>13, <1>14, <1>15, <1>16, <1>17, <1>18, <1>19, <1>20, <1>21 DEF D!Next
-----------------------------------------------------------------------------
(* The inductive invariant.                                                 *)

LEMMA TripStart == TripInit => TripInv
  <1> SUFFICES ASSUME TripInit PROVE TripInv
    OBVIOUS
  <1> USE DEF TripInit, Init, D!InitLocal
  <1>1. TurnInv /\ AttributesInv
    BY DEF TurnInv, AttributesInv
  <1>2. TripType
    <2>1. flag \in BOOLEAN /\ hidden \in BOOLEAN /\ removeResourceFork \in BOOLEAN
      OBVIOUS
    <2>2. {mode, dStMode, dOrigMode} \subseteq Modes /\ stMode \in Modes /\ origMode \in Modes
      OBVIOUS
    <2>3. dRun \in 0 .. MaxDecompressions
      BY RoundTripAssumption
    <2>4. /\ data \in AnyData /\ inBuf \in AnyData /\ payload \in AnyData
          /\ rsrc = "none" /\ decmpfs = "none" /\ outBuf = "none" /\ dResult = "none"
          /\ pc \in Resting /\ dpc \in D!Idle
      BY DEF AnyData, Data, Resting, D!Idle
    <2>5. QED
      BY <2>1, <2>2, <2>3, <2>4 DEF TripType, TripTypeOK, AnyData
  <1>3. IsFiniteSet(failed)
    BY FS_EmptySet
  <1>4. DecompressInv /\ ModeInv /\ UndoneInv
    BY DEF DecompressInv, ModeInv, UndoneInv, Reading, Unflagged, Removing, D!Idle
  <1>5. OriginalInv
    BY DEF OriginalInv, Safe, D!Stored, HasRead, Removing
  <1>6. QED
    BY <1>1, <1>2, <1>3, <1>4, <1>5 DEF TripInv

\* What is said of a run of decompressFile() says nothing when there is none.
LEMMA NotDecompressing ==
    ASSUME dpc = "idle"
    PROVE  DecompressInv /\ ModeInv /\ UndoneInv
  BY DEF DecompressInv, ModeInv, UndoneInv, Reading, Unflagged, Removing, D!Idle

LEMMA NotDecompressingNext ==
    ASSUME dpc' = "idle"
    PROVE  DecompressInv' /\ ModeInv' /\ UndoneInv'
  BY DEF DecompressInv, ModeInv, UndoneInv, Reading, Unflagged, Removing, D!Idle

LEMMA TripCompress ==
    ASSUME TripInv, CompressTurn
    PROVE  TripInv'
  <1>1. Next /\ turn = "compress" /\ turn' = turn /\ UNCHANGED decompressVars
    BY DEF CompressTurn
  <1>2. dpc = "idle" /\ dpc' = "idle"
    BY <1>1 DEF TripInv, TurnInv, decompressVars
  <1>3. TurnInv'
    BY <1>1, <1>2 DEF TurnInv
  <1>4. TripType'
    BY <1>1, CompressTypes DEF TripInv
  <1>5. IsFiniteSet(failed')
    BY <1>1, FailedFinite DEF TripInv
  <1>6. AttributesInv'
    BY <1>1, CompressAttributes DEF TripInv
  <1>7. DecompressInv' /\ ModeInv' /\ UndoneInv'
    BY <1>2, NotDecompressingNext
  <1>8. OriginalInv'
    BY <1>1, <1>2, CompressOriginal DEF TripInv
  <1>9. QED
    BY <1>3, <1>4, <1>5, <1>6, <1>7, <1>8 DEF TripInv

LEMMA TripDecompress ==
    ASSUME TripInv, DecompressTurn
    PROVE  TripInv'
  <1>1. D!Next /\ turn = "decompress" /\ turn' = turn /\ UNCHANGED compressVars
    BY DEF DecompressTurn
  <1>2. pc \in {"returned", "dead"} /\ pc' = pc
    BY <1>1 DEF TripInv, TurnInv, compressVars
  <1>3. TurnInv'
    BY <1>1, <1>2 DEF TurnInv
  <1>4. TripType'
    BY <1>1, DecompressTypes DEF TripInv
  <1>5. IsFiniteSet(failed')
    BY <1>1, DecompressFailedFinite DEF TripInv
  <1>6. AttributesInv'
    BY <1>1, <1>2, DecompressAttributes DEF TripInv
  <1>7. DecompressInv' /\ ModeInv' /\ UndoneInv'
    BY <1>1, DecompressPhase, DecompressMode, DecompressOutcome DEF TripInv
  <1>8. OriginalInv'
    BY <1>1, <1>2, DecompressOriginal DEF TripInv
  <1>9. QED
    BY <1>3, <1>4, <1>5, <1>6, <1>7, <1>8 DEF TripInv

LEMMA TripChange ==
    ASSUME TripInv, ChangeTurn
    PROVE  TripInv'
  <1>1. /\ UNCHANGED <<data, rsrc, decmpfs, flag, mode, own, kept, inBuf, kind, payload>>
        /\ UNCHANGED <<stMode, origMode, failed, pc, opt>>
        /\ UNCHANGED <<hidden, outBuf, removeResourceFork, dStMode, dOrigMode, dResult, dRun>>
        /\ pc \in {"returned", "dead"} /\ dpc' = "idle"
        /\ turn' = IF turn = "compress" THEN "decompress" ELSE "compress"
    BY DEF ChangeTurn, vars, fileVars, modeVars, backups, encoding, runVars
  <1>2. TurnInv'
    BY <1>1 DEF TurnInv
  <1>3. TripType'
    BY <1>1 DEF TripInv, TripType, TripTypeOK, D!Idle
  <1>4. IsFiniteSet(failed')
    BY <1>1 DEF TripInv
  <1>5. AttributesInv'
    BY <1>1 DEF TripInv, AttributesInv
  <1>6. DecompressInv' /\ ModeInv' /\ UndoneInv'
    BY <1>1, NotDecompressingNext
  <1>7. OriginalInv'
    BY <1>1 DEF TripInv, OriginalInv, Exposed, Safe, D!Stored, Removing, BackupFile, CheckFiles
  <1>8. QED
    BY <1>2, <1>3, <1>4, <1>5, <1>6, <1>7 DEF TripInv

LEMMA TripStutter ==
    ASSUME TripInv, UNCHANGED allVars
    PROVE  TripInv'
  <1>1. /\ UNCHANGED <<data, rsrc, decmpfs, flag, mode, own, kept, inBuf, kind, payload>>
        /\ UNCHANGED <<stMode, origMode, failed, pc, opt, turn, dpc>>
        /\ UNCHANGED <<hidden, outBuf, removeResourceFork, dStMode, dOrigMode, dResult, dRun>>
        /\ UNCHANGED dBefore
    BY DEF allVars, vars, fileVars, modeVars, backups, encoding, runVars, decompressVars
  <1>2. TurnInv' /\ AttributesInv' /\ ModeInv' /\ IsFiniteSet(failed')
    BY <1>1 DEF TripInv, TurnInv, AttributesInv, ModeInv
  <1>3. TripType'
    BY <1>1 DEF TripInv, TripType, TripTypeOK
  <1>4. DecompressInv' /\ UndoneInv'
    BY <1>1 DEF TripInv, DecompressInv, UndoneInv, Decoded, D!Stored, Content
  <1>5. OriginalInv'
    BY <1>1 DEF TripInv, OriginalInv, Exposed, Safe, D!Stored, BackupFile, CheckFiles
  <1>6. QED
    BY <1>2, <1>3, <1>4, <1>5 DEF TripInv

LEMMA TripAlways == TripSpec => []TripInv
  <1>1. TripInv /\ [TripNext]_allVars => TripInv'
    BY TripCompress, TripDecompress, TripChange, TripStutter DEF TripNext
  <1>2. QED
    BY <1>1, TripStart, PTL DEF TripSpec
-----------------------------------------------------------------------------
(* What follows of every behaviour.                                         *)

\* The file and the buffers of the two tools only ever hold what TripTypeOK lists, in
\* whatever order they are run (afsctool.c:199-1230, 1254-1660).
THEOREM TripTypeCorrect == TripSpec => []TripTypeOK
  <1>1. TripInv => TripTypeOK
    BY DEF TripInv, TripType
  <1>2. QED
    BY <1>1, TripAlways, PTL

\* With -b and the check, what the file held at first is never only in memory, over
\* any number of compressions and decompressions (afsctool.c:430-445, 543-589,
\* 1157-1185, 1641-1649).
THEOREM OriginalIsKept == TripSpec => []OriginalKept
  <1>1. TripInv => OriginalKept
    <2> SUFFICES ASSUME TripInv, Exposed
                 PROVE  "orig" \in {data, rsrc, decmpfs, own}
      BY DEF OriginalKept, Exposed
    <2>1. CASE pc \in Rewriting
      BY <2>1 DEF TripInv, OriginalInv, Rewriting, HasRead
    <2>2. CASE pc \notin Rewriting
      BY <2>2 DEF TripInv, OriginalInv, Safe, D!Stored
    <2>3. QED
      BY <2>1, <2>2
  <1>2. QED
    BY <1>1, TripAlways, PTL

\* decompressFile() undoes one failure, whatever state the compression, another
\* failure or a crash has left the file in (afsctool.c:1596-1637).
THEOREM DecompressIsUndone == TripSpec => []DecompressUndone
  <1>1. TripInv => DecompressUndone
    <2> SUFFICES ASSUME TripInv, dpc \in {"returned", "aborted"},
                        Cardinality(failed \cap DecompressCalls) <= 1
                 PROVE  /\ \/ "fclose_decompressed" \in failed
                           \/ dOrigMode = {} /\ "chflags_back" \in failed
                           \/ Content = dBefore.content
                        /\ \/ "fopen_update" \in failed \/ dOrigMode = {}
                           \/ hidden = dBefore.hidden
      BY DEF DecompressUndone
    <2>1. \A c, d \in failed \cap DecompressCalls : c = d
      <3>1. IsFiniteSet(failed \cap DecompressCalls)
        BY FS_Intersection DEF TripInv
      <3>2. QED
        BY <3>1, AtMostOne
    <2>2. CASE dpc = "returned"
      BY <2>1, <2>2 DEF TripInv, UndoneInv
    <2>3. CASE dpc = "aborted"
      BY <2>3 DEF TripInv, DecompressInv, Reading
    <2>4. QED
      BY <2>2, <2>3
  <1>2. QED
    BY <1>1, TripAlways, PTL

\* A decompressed file is a plain one with the content and the mode it had, and
\* nothing is left of the compressed copy (afsctool.c:1628-1655).
THEOREM DecompressedIsWhole == TripSpec => []UncompressedIsWhole
  <1>1. TripInv => UncompressedIsWhole
    BY DEF TripInv, UndoneInv, UncompressedIsWhole
  <1>2. QED
    BY <1>1, TripAlways, PTL
=============================================================================
