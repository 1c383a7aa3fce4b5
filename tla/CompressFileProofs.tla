------------------------ MODULE CompressFileProofs ------------------------
(***************************************************************************)
(* What CompressFile promises of compressFile(), proved for every set of   *)
(* options, any number of runs and of failing calls, and whether or not    *)
(* the process may die.  The inductive invariant says, for every point at  *)
(* which a call may fail, what is then in the data fork, the resource      *)
(* fork, the attribute, the flag and the buffer, and which failures can    *)
(* have led there; the properties are read off it where the run ends.      *)
(***************************************************************************)
EXTENDS CompressFile, FiniteSetTheorems, TLAPS

\* compressFile() is not running.
Resting == {"start", "returned", "dead"}

\* It is still looking at it.
Looking == {"probe", "probeOff", "listAttrs", "open", "read"}

\* It has read the file, ...
HasRead == {"backup", "encode", "decide", "truncate", "fork", "attr", "truncateLast",
            "setFlag", "unsetAttrs", "restore", "verify", "revert", "removeAttrs", "refill"}

\* ... and encoded it.
HasEncoded == HasRead \ {"backup", "encode"}

\* No attribute and no fork is left over, or the failure of listxattr() hid it.
NoneSeen == (rsrc = "none" /\ decmpfs = "none") \/ "listxattr_leftover" \in failed

\* The file is as it was found, and bears no visible trace of a compression.
Untouched == ~flag /\ NoneSeen /\ data = before

\* The data fork is empty, or could not be emptied.
Emptied == data = "empty" \/ (data = before /\ "ftruncate" \in failed)

\* The encoding is that of the file, or has gone wrong.
Encoded ==
    /\ kind \in {"inline", "fork"}
    /\ payload = before \/ (payload = "bad" /\ "encode" \in failed)

\* The fork is the encoding's, or there was none to be seen.
ForkWritten ==
    IF kind = "fork" THEN rsrc = payload ELSE rsrc = "none" \/ "listxattr_leftover" \in failed

\* Attribute and fork hold the encoding.
Written ==
    /\ decmpfs = IF kind = "fork" THEN "fork" ELSE payload
    /\ ForkWritten
    /\ Emptied

\* Neither is there (any more), or they could not be removed.
Removed == ~flag /\ (NoneSeen \/ "removexattr" \in failed)

\* Where compressFile() is says what the file looks like.
PhaseInv ==
    /\ pc \in Resting \cup Looking \cup HasRead \cup {"bail"}
    /\ pc = "start" => before = Content
    /\ pc \in Resting \/ (before \in Data /\ before # "empty")
    /\ pc \in {"probe", "listAttrs"} => ~flag /\ data = before
    /\ pc = "probeOff" => data = before
    /\ pc \in {"open", "read", "backup", "encode", "decide", "truncate"} => Untouched
    /\ pc \in HasRead => inBuf = before
    /\ pc \in HasEncoded => Encoded
    /\ pc \in {"truncate", "fork"} => kind = "fork"
    /\ pc = "fork" => ~flag /\ NoneSeen /\ Emptied
    /\ pc = "attr" =>
         /\ ~flag /\ (decmpfs = "none" \/ "listxattr_leftover" \in failed)
         /\ ForkWritten
         /\ IF kind = "fork" THEN Emptied ELSE data = before
    /\ pc = "truncateLast" =>
         ~flag /\ kind = "inline" /\ decmpfs = payload /\ ForkWritten /\ data = before
    /\ pc \in {"setFlag", "unsetAttrs", "removeAttrs"} => ~flag /\ Written
    /\ pc \in {"verify", "revert"} => flag /\ Written
    /\ pc = "verify" => stMode = mode /\ CheckFiles
    /\ pc \in {"restore", "refill"} => Removed
    /\ pc \notin {"bail", "returned", "dead"} => kept = keptBefore

\* ... and what has gone wrong on the way there.
ReasonInv ==
    /\ pc \in {"revert", "removeAttrs", "refill"} =>
         result = "failed" /\ ("verify" \in failed \/ "encode" \in failed)
    /\ pc = "unsetAttrs" => "fchflags" \in failed
    /\ pc = "restore" => \/ "setxattr_rsrc" \in failed \/ "fchflags" \in failed
                         \/ "listxattr_leftover" \in failed
    /\ pc = "verify" => result = "compressed"
    /\ pc \in {"start", "unsetAttrs", "restore"} => result = "none"
    /\ pc \notin Resting \cup {"revert", "removeAttrs", "refill", "bail", "verify"}
         => result = "none"

\* What the properties say of a finished run, said of one that has to clean up.
OutcomeInv ==
    pc = "bail" =>
        /\ result \in {"none", "skipped", "failed", "compressed", "reverted"}
        /\ result = "skipped" => Untouched
        /\ result # "skipped"
             /\ failed \cap {"chflags_unprobe", "chflags_revert", "removexattr",
                             "ftruncate", "setxattr_decmpfs", "listxattr_leftover"} = {}
           => IF flag THEN data = "empty" /\ Content # "empty"
                      ELSE decmpfs = "none" /\ rsrc = "none"
        /\ CheckFiles /\ ~Blocks /\ (\A c, d \in failed : c = d)
             /\ failed \cap {"setxattr_decmpfs", "chflags_unprobe", "listxattr_leftover"} = {}
           => Content = before
        /\ result = "compressed" =>
             flag /\ stMode = mode /\ kept = keptBefore /\ (CheckFiles => Content = before)

ResultInv ==
    /\ NothingHalfDone /\ CompressedIsSame
    /\ pc = "returned" /\ CheckFiles /\ ~Blocks
             /\ (\A c, d \in failed : c = d)
             /\ failed \cap {"setxattr_decmpfs", "chflags_unprobe", "listxattr_leftover"} = {}
       => Content = before

\* With -b, what the file held has been saved before it is touched, and is there
\* again before the backup goes.
SaveInv ==
    /\ pc \in Resting \cup Looking \cup {"backup"} => own = "none"
    /\ BackupFile /\ CheckFiles
            /\ failed \cap {"setxattr_decmpfs", "fclose_backup", "fclose",
                            "listxattr_leftover"} = {}
       => IF pc \in Resting THEN "orig" \in {Content, data} \cup kept
          ELSE /\ "orig" \in {before} \cup kept
               /\ pc \in HasRead \ {"backup"} => own = before
               /\ pc = "bail" => before \in {Content, data} \cup kept

\* The inductive invariant
CompressInv ==
    TypeOK /\ IsFiniteSet(failed) /\ PhaseInv /\ ReasonInv /\ OutcomeInv /\ ResultInv /\ SaveInv
-----------------------------------------------------------------------------
(* Each part of the invariant holds after every step.                       *)

\* Every step keeps each variable in its type.
LEMMA TypeStep ==
    ASSUME TypeOK, Next
    PROVE  TypeOK'
  <1> USE DEF vars, Next, EnterSkips, Enter, ProbeOn, ProbeOff, ListAttrs, OpenFile, ReadFile,
             WriteBackup, Encode, Decide, TruncateFirst, WriteFork, WriteForkFails,
             WriteAttr, WriteAttrFails, TruncateLast, SetFlag, SetFlagFails, UnsetAttrs,
             RestoreFile, Verify, RevertFlag, RemoveAttrs, Refill, RefillFails, Bail, Die,
             RunAgain, Finished, Truncate, RemoveAttributes, RestoreFileWorks,
             RestoreFileFails, KeepBackup, Goto, Fails, Succeeds, Return, fileVars, modeVars,
             backups, encoding, runVars
  <1>1. ASSUME data \in Data, inBuf \in Data
        PROVE  data' \in Data
    BY <1>1 DEF Data
  <1>2. ASSUME flag \in BOOLEAN
        PROVE  flag' \in BOOLEAN
    BY <1>2
  <1>3. ASSUME rsrc \in Data \cup {"none", "bad"}, payload \in Data \cup {"bad"}
        PROVE  rsrc' \in Data \cup {"none", "bad"}
    BY <1>3
  <1>4. ASSUME decmpfs \in Data \cup {"none", "bad", "fork"}, payload \in Data \cup {"bad"}
        PROVE  decmpfs' \in Data \cup {"none", "bad", "fork"}
    BY <1>4
  <1>5. ASSUME mode \in Modes /\ stMode \in Modes /\ origMode \in Modes
        PROVE  mode' \in Modes /\ stMode' \in Modes /\ origMode' \in Modes
    BY <1>5 DEF Modes
  <1>6. ASSUME own \in Data \cup {"none", "torn"}, inBuf \in Data
        PROVE  own' \in Data \cup {"none", "torn"}
    BY <1>6
  <1>7. ASSUME own \in Data \cup {"none", "torn"}, kept \subseteq Data \cup {"torn"}
        PROVE  kept' \subseteq Data \cup {"torn"}
    BY <1>7
  <1>7a. ASSUME keptBefore \subseteq kept
         PROVE  keptBefore' \subseteq kept'
    BY <1>7a
  <1>8. ASSUME data \in Data, inBuf \in Data, payload \in Data \cup {"bad"}
        PROVE  inBuf' \in Data /\ payload' \in Data \cup {"bad"}
    BY <1>8 DEF Data
  <1>9. ASSUME before \in Data \cup {"none", "bad"}, Content \in Data \cup {"none", "bad"}
        PROVE  before' \in Data \cup {"none", "bad"}
    BY <1>9
  <1>10. ASSUME kind \in {"none", "inline", "fork"}, result \in Outcomes
        PROVE  kind' \in {"none", "inline", "fork"} /\ result' \in Outcomes
    BY <1>10 DEF Outcomes
  <1>11. ASSUME run \in 1 .. MaxRuns, opt \in Options, MaxRuns \in Nat
        PROVE  run' \in 1 .. MaxRuns /\ opt' \in Options
    BY <1>11
  <1> HIDE DEF vars, Next, EnterSkips, Enter, ProbeOn, ProbeOff, ListAttrs, OpenFile, ReadFile,
             WriteBackup, Encode, Decide, TruncateFirst, WriteFork, WriteForkFails,
             WriteAttr, WriteAttrFails, TruncateLast, SetFlag, SetFlagFails, UnsetAttrs,
             RestoreFile, Verify, RevertFlag, RemoveAttrs, Refill, RefillFails, Bail, Die,
             RunAgain, Finished, Truncate, RemoveAttributes, RestoreFileWorks,
             RestoreFileFails, KeepBackup, Goto, Fails, Succeeds, Return, fileVars, modeVars,
             backups, encoding, runVars
  <1>12. Content \in Data \cup {"none", "bad"} /\ MaxRuns \in Nat
    BY CompressAssumption DEF Content, TypeOK
  <1>13. QED
    BY <1>1, <1>2, <1>3, <1>4, <1>5, <1>6, <1>7, <1>7a, <1>8, <1>9, <1>10, <1>11, <1>12
       DEF TypeOK

\* Nothing the invariant speaks of changes when no variable does.
LEMMA Stutter ==
    ASSUME UNCHANGED vars
    PROVE  /\ TypeOK' = TypeOK /\ PhaseInv' = PhaseInv /\ ReasonInv' = ReasonInv
           /\ OutcomeInv' = OutcomeInv /\ ResultInv' = ResultInv /\ SaveInv' = SaveInv
  <1>0. /\ UNCHANGED <<data, rsrc, decmpfs, flag, mode, stMode, origMode, own, kept, inBuf>>
        /\ UNCHANGED <<kind, payload, before, keptBefore, failed, result, pc, run, opt>>
    BY DEF vars, fileVars, modeVars, backups, encoding, runVars
  <1>1. /\ Content' = Content /\ CheckFiles' = CheckFiles
        /\ BackupFile' = BackupFile /\ Blocks' = Blocks
    BY <1>0 DEF Content, CheckFiles, BackupFile, Blocks
  <1>2. NoneSeen' = NoneSeen /\ Untouched' = Untouched /\ Removed' = Removed
    BY <1>0, Zenon DEF NoneSeen, Untouched, Removed
  <1>3. Encoded' = Encoded /\ Emptied' = Emptied
    BY <1>0, Zenon DEF Encoded, Emptied
  <1>3a. ForkWritten' = ForkWritten /\ Written' = Written
    BY <1>0, Zenon DEF Written, ForkWritten, Emptied
  <1>4. TypeOK' = TypeOK
    BY <1>0, Zenon DEF TypeOK
  <1>5. PhaseInv' = PhaseInv
    BY <1>0, <1>1, <1>2, <1>3, <1>3a, Zenon DEF PhaseInv
  <1>6. ReasonInv' = ReasonInv
    BY <1>0, Zenon DEF ReasonInv
  <1>7. OutcomeInv' = OutcomeInv
    BY <1>0, <1>1, <1>2, Zenon DEF OutcomeInv
  <1>8. ResultInv' = ResultInv
    BY <1>0, <1>1, Zenon DEF ResultInv, NothingHalfDone, CompressedIsSame
  <1>9. SaveInv' = SaveInv
    BY <1>0, <1>1, Zenon DEF SaveInv
  <1>10. QED
    BY <1>4, <1>5, <1>6, <1>7, <1>8, <1>9

\* A program that has finished changes nothing.
LEMMA FinishedKeeps ==
    ASSUME Finished
    PROVE  /\ TypeOK' = TypeOK /\ PhaseInv' = PhaseInv /\ ReasonInv' = ReasonInv
           /\ OutcomeInv' = OutcomeInv /\ ResultInv' = ResultInv /\ SaveInv' = SaveInv
  BY Stutter DEF Finished

\* Where the run is says what the file looks like.
LEMMA PhaseStep ==
    ASSUME TypeOK, PhaseInv, Next
    PROVE  PhaseInv'
  <1> USE DEF Goto, Fails, Succeeds, Return, fileVars, modeVars, backups, encoding,
             runVars, TypeOK, Data, PhaseInv, Resting, Looking, HasRead, HasEncoded,
             NoneSeen, Untouched, Emptied, Encoded, ForkWritten, Written, Removed
  <1>1. CASE EnterSkips
    BY <1>1 DEF EnterSkips, Content
  <1>2. CASE Enter
    BY <1>2 DEF Enter, Content
  <1>3. CASE ProbeOn
    BY <1>3 DEF ProbeOn
  <1>4. CASE ProbeOff
    BY <1>4 DEF ProbeOff
  <1>5. CASE ListAttrs
    BY <1>5 DEF ListAttrs, LeftOver
  <1>6. CASE OpenFile
    BY <1>6 DEF OpenFile
  <1>7. CASE ReadFile
    BY <1>7 DEF ReadFile
  <1>8. CASE WriteBackup
    BY <1>8 DEF WriteBackup
  <1>9. CASE Encode
    BY <1>9 DEF Encode
  <1>10. CASE Decide
    BY <1>10 DEF Decide
  <1>11. CASE TruncateFirst
    BY <1>11 DEF TruncateFirst, Truncate
  <1>12. CASE WriteFork
    BY <1>12 DEF WriteFork
  <1>13. CASE WriteForkFails
    BY <1>13 DEF WriteForkFails
  <1>14. CASE WriteAttr
    BY <1>14 DEF WriteAttr
  <1>15. CASE WriteAttrFails
    BY <1>15 DEF WriteAttrFails
  <1>16. CASE TruncateLast
    BY <1>16 DEF TruncateLast, Truncate
  <1>17. CASE SetFlag
    <2>1. pc = "setFlag" /\ pc' = (IF CheckFiles THEN "verify" ELSE "bail") /\ flag'
      BY <1>17 DEF SetFlag
    <2>2. /\ UNCHANGED <<data, rsrc, decmpfs, mode, inBuf, encoding, before, failed, opt>>
          /\ stMode' = mode /\ UNCHANGED <<kept, keptBefore>>
      BY <1>17 DEF SetFlag
    <2> HIDE DEF PhaseInv, Written, ForkWritten, Encoded, Emptied, TypeOK
    <2>3. Written'
      BY <2>1, <2>2 DEF PhaseInv, Written, ForkWritten, Emptied
    <2>4. Encoded' /\ inBuf' = before' /\ before' \in Data /\ before' # "empty"
      BY <2>1, <2>2 DEF PhaseInv, Encoded
    <2>5. pc' = "verify" => stMode' = mode' /\ CheckFiles'
      BY <2>1, <2>2 DEF CheckFiles
    <2>6. kept' = keptBefore'
      BY <2>1, <2>2 DEF PhaseInv
    <2>7. QED
      BY <2>1, <2>3, <2>4, <2>5, <2>6 DEF PhaseInv
  <1>18. CASE SetFlagFails
    BY <1>18 DEF SetFlagFails
  <1>19. CASE UnsetAttrs
    BY <1>19 DEF UnsetAttrs, RemoveAttributes
  <1>20. CASE RestoreFile
    BY <1>20 DEF RestoreFile, RestoreFileWorks, RestoreFileFails, KeepBackup
  <1>21. CASE Verify
    BY <1>21 DEF Verify
  <1>22. CASE RevertFlag
    BY <1>22 DEF RevertFlag, KeepBackup
  <1>23. CASE RemoveAttrs
    BY <1>23 DEF RemoveAttrs, RemoveAttributes
  <1>24. CASE Refill
    BY <1>24 DEF Refill
  <1>25. CASE RefillFails
    BY <1>25 DEF RefillFails, KeepBackup
  <1>26. CASE Bail
    BY <1>26 DEF Bail
  <1>27. CASE Die
    BY <1>27 DEF Die, KeepBackup
  <1>28. CASE RunAgain
    BY <1>28 DEF RunAgain, Content
  <1>29. QED
    BY <1>1, <1>2, <1>3, <1>4, <1>5, <1>6, <1>7, <1>8, <1>9, <1>10, <1>11, <1>12,
       <1>13, <1>14, <1>15, <1>16, <1>17, <1>18, <1>19, <1>20, <1>21, <1>22,
       <1>23, <1>24, <1>25, <1>26, <1>27, <1>28, FinishedKeeps
       DEF Next

\* The calls that failed on the way to a clean-up are remembered.  The check
\* finds a difference only if the encoding went wrong: the kernel decodes what
\* was written, and that is what was encoded.
LEMMA ReasonStep ==
    ASSUME TypeOK, PhaseInv, ReasonInv, Next
    PROVE  ReasonInv'
  <1> USE DEF Goto, Fails, Succeeds, Return, fileVars, modeVars, backups, encoding,
             runVars, TypeOK, Data, ReasonInv, PhaseInv, Resting, Looking, HasRead,
             HasEncoded, Encoded, Written, ForkWritten, NoneSeen, Content, CheckFiles
  <1>1. CASE EnterSkips
    BY <1>1 DEF EnterSkips
  <1>2. CASE Enter
    BY <1>2 DEF Enter
  <1>3. CASE ProbeOn
    BY <1>3 DEF ProbeOn
  <1>4. CASE ProbeOff
    BY <1>4 DEF ProbeOff
  <1>5. CASE ListAttrs
    BY <1>5 DEF ListAttrs
  <1>6. CASE OpenFile
    BY <1>6 DEF OpenFile
  <1>7. CASE ReadFile
    BY <1>7 DEF ReadFile
  <1>8. CASE WriteBackup
    BY <1>8 DEF WriteBackup
  <1>9. CASE Encode
    BY <1>9 DEF Encode
  <1>10. CASE Decide
    BY <1>10 DEF Decide
  <1>11. CASE TruncateFirst
    BY <1>11 DEF TruncateFirst, Truncate
  <1>12. CASE WriteFork
    BY <1>12 DEF WriteFork
  <1>13. CASE WriteForkFails
    BY <1>13 DEF WriteForkFails
  <1>14. CASE WriteAttr
    BY <1>14 DEF WriteAttr
  <1>15. CASE WriteAttrFails
    BY <1>15 DEF WriteAttrFails
  <1>16. CASE TruncateLast
    BY <1>16 DEF TruncateLast, Truncate
  <1>17. CASE SetFlag
    BY <1>17 DEF SetFlag
  <1>18. CASE SetFlagFails
    BY <1>18 DEF SetFlagFails
  <1>19. CASE UnsetAttrs
    BY <1>19 DEF UnsetAttrs, RemoveAttributes
  <1>20. CASE RestoreFile
    BY <1>20 DEF RestoreFile, RestoreFileWorks, RestoreFileFails, KeepBackup
  <1>21. CASE Verify
    BY <1>21 DEF Verify
  <1>22. CASE RevertFlag
    BY <1>22 DEF RevertFlag, KeepBackup
  <1>23. CASE RemoveAttrs
    BY <1>23 DEF RemoveAttrs, RemoveAttributes
  <1>24. CASE Refill
    BY <1>24 DEF Refill
  <1>25. CASE RefillFails
    BY <1>25 DEF RefillFails, KeepBackup
  <1>26. CASE Bail
    BY <1>26 DEF Bail
  <1>27. CASE Die
    BY <1>27 DEF Die, KeepBackup
  <1>28. CASE RunAgain
    BY <1>28 DEF RunAgain
  <1>29. QED
    BY <1>1, <1>2, <1>3, <1>4, <1>5, <1>6, <1>7, <1>8, <1>9, <1>10, <1>11, <1>12,
       <1>13, <1>14, <1>15, <1>16, <1>17, <1>18, <1>19, <1>20, <1>21, <1>22,
       <1>23, <1>24, <1>25, <1>26, <1>27, <1>28, FinishedKeeps
       DEF Next

\* Every way to the clean-up leaves the file whole, compressed or as it was,
\* the listed failures aside.
LEMMA OutcomeStep ==
    ASSUME TypeOK, PhaseInv, PhaseInv', ReasonInv, OutcomeInv, Next
    PROVE  OutcomeInv'
  <1> USE DEF Goto, Fails, Succeeds, Return, fileVars, modeVars, backups, encoding,
             runVars, Content, Untouched, CheckFiles, Blocks, TypeOK, Data, Outcomes,
             PhaseInv, ReasonInv, OutcomeInv, Looking, HasRead, HasEncoded, Resting,
             Encoded, Written, ForkWritten, Emptied, Removed, NoneSeen
  <1>1. CASE OpenFile
    BY <1>1 DEF OpenFile
  <1>2. CASE WriteBackup
    BY <1>2 DEF WriteBackup
  <1>3. CASE Encode
    BY <1>3 DEF Encode
  <1>4. CASE Decide
    BY <1>4 DEF Decide
  <1>5. CASE WriteAttrFails
    BY <1>5 DEF WriteAttrFails
  <1>6. CASE SetFlag
    BY <1>6 DEF SetFlag
  <1>7. CASE RestoreFile
    BY <1>7 DEF RestoreFile, RestoreFileWorks, RestoreFileFails, KeepBackup
  <1>8. CASE Verify
    BY <1>8 DEF Verify
  <1>9. CASE RevertFlag
    BY <1>9 DEF RevertFlag, KeepBackup
  <1>10. CASE Refill
    BY <1>10 DEF Refill
  <1>11. CASE RefillFails
    BY <1>11 DEF RefillFails, KeepBackup
  <1>12. CASE Finished
    BY <1>12, FinishedKeeps
  <1> HIDE DEF Content, Untouched, CheckFiles, Blocks, TypeOK, PhaseInv, ReasonInv
  <1>13. QED
    BY <1>1, <1>2, <1>3, <1>4, <1>5, <1>6, <1>7, <1>8, <1>9, <1>10, <1>11, <1>12
       DEF Next, EnterSkips, Enter, ProbeOn, ProbeOff, ListAttrs, OpenFile, ReadFile,
           WriteBackup, Encode, Decide, TruncateFirst, WriteFork, WriteForkFails,
           WriteAttr, WriteAttrFails, TruncateLast, SetFlag, SetFlagFails, UnsetAttrs,
           RestoreFile, Verify, RevertFlag, RemoveAttrs, Refill, RefillFails, Bail,
           Die, RunAgain, Finished, vars, Truncate, RemoveAttributes

\* What compressFile() returns with: it leaves early with the file as it was,
\* or after the clean-up.
LEMMA ResultStep ==
    ASSUME TypeOK, PhaseInv, ReasonInv, OutcomeInv, ResultInv, Next
    PROVE  ResultInv'
  <1> USE DEF Goto, Fails, Succeeds, Return, fileVars, modeVars, backups, encoding,
             runVars, Content, Untouched, NoneSeen, CheckFiles, Blocks, TypeOK, Data,
             Outcomes, PhaseInv, ReasonInv, OutcomeInv, ResultInv, NothingHalfDone,
             CompressedIsSame, HasRead, HasEncoded, Resting, Looking
  <1>1. CASE EnterSkips
    BY <1>1 DEF EnterSkips
  <1>2. CASE ProbeOn
    BY <1>2 DEF ProbeOn
  <1>3. CASE ProbeOff
    BY <1>3 DEF ProbeOff
  <1>4. CASE ListAttrs
    BY <1>4 DEF ListAttrs
  <1>5. CASE ReadFile
    BY <1>5 DEF ReadFile
  <1>6. CASE Bail
    BY <1>6 DEF Bail
  <1>7. CASE Finished
    BY <1>7, FinishedKeeps
  <1>8. CASE pc' # "returned"
    BY <1>8
  <1> HIDE DEF Content, Untouched, CheckFiles, Blocks, TypeOK, PhaseInv, ReasonInv,
               OutcomeInv, ResultInv
  <1>9. CASE pc' = "returned"
    <2>1. EnterSkips \/ ProbeOn \/ ProbeOff \/ ListAttrs \/ ReadFile \/ Bail \/ Finished
      BY <1>9
         DEF Next, Enter, OpenFile, WriteBackup, Encode, Decide, TruncateFirst,
             WriteFork, WriteForkFails, WriteAttr, WriteAttrFails, TruncateLast,
             SetFlag, SetFlagFails, UnsetAttrs, RestoreFile, Verify, RevertFlag,
             RemoveAttrs, Refill, RefillFails, Die, RunAgain, Truncate,
             RemoveAttributes, RestoreFileWorks, RestoreFileFails
    <2>2. QED
      BY <2>1, <1>1, <1>2, <1>3, <1>4, <1>5, <1>6, <1>7
  <1>10. QED
    BY <1>8, <1>9

\* The backup holds what was read until the file does again, or nothing will
\* remove it.
LEMMA SaveStep ==
    ASSUME TypeOK, PhaseInv, PhaseInv', ReasonInv, OutcomeInv, SaveInv, Next
    PROVE  SaveInv'
  <1> USE DEF Goto, Fails, Succeeds, Return, fileVars, modeVars, backups, encoding,
             runVars, Content, Untouched, CheckFiles, BackupFile, TypeOK, Data,
             Outcomes, PhaseInv, ReasonInv, OutcomeInv, SaveInv, HasRead, HasEncoded,
             Resting, Looking, Emptied, Encoded, Written, ForkWritten, Removed, NoneSeen
  <1>1. CASE EnterSkips
    BY <1>1 DEF EnterSkips
  <1>2. CASE Enter
    BY <1>2 DEF Enter
  <1>3. CASE ProbeOn
    BY <1>3 DEF ProbeOn
  <1>4. CASE ProbeOff
    BY <1>4 DEF ProbeOff
  <1>5. CASE ListAttrs
    BY <1>5 DEF ListAttrs
  <1>6. CASE OpenFile
    BY <1>6 DEF OpenFile
  <1>7. CASE ReadFile
    BY <1>7 DEF ReadFile
  <1>8. CASE WriteBackup
    BY <1>8 DEF WriteBackup
  <1>9. CASE Encode
    BY <1>9 DEF Encode
  <1>10. CASE Decide
    BY <1>10 DEF Decide
  <1>11. CASE TruncateFirst
    BY <1>11 DEF TruncateFirst, Truncate
  <1>12. CASE WriteFork
    BY <1>12 DEF WriteFork
  <1>13. CASE WriteForkFails
    BY <1>13 DEF WriteForkFails
  <1>14. CASE WriteAttr
    BY <1>14 DEF WriteAttr
  <1>15. CASE WriteAttrFails
    BY <1>15 DEF WriteAttrFails
  <1>16. CASE TruncateLast
    BY <1>16 DEF TruncateLast, Truncate
  <1>17. CASE SetFlag
    BY <1>17 DEF SetFlag
  <1>18. CASE SetFlagFails
    BY <1>18 DEF SetFlagFails
  <1>19. CASE UnsetAttrs
    BY <1>19 DEF UnsetAttrs, RemoveAttributes
  <1>20. CASE RestoreFile
    BY <1>20 DEF RestoreFile, RestoreFileWorks, RestoreFileFails, KeepBackup
  <1>21. CASE Verify
    BY <1>21 DEF Verify
  <1>22. CASE RevertFlag
    BY <1>22 DEF RevertFlag, KeepBackup
  <1>23. CASE RemoveAttrs
    BY <1>23 DEF RemoveAttrs, RemoveAttributes
  <1>24. CASE Refill
    BY <1>24 DEF Refill
  <1>25. CASE RefillFails
    BY <1>25 DEF RefillFails, KeepBackup
  <1>26. CASE Bail
    BY <1>26 DEF Bail
  <1>27. CASE Die
    <2> HIDE DEF SaveInv, PhaseInv, ReasonInv, OutcomeInv, TypeOK, Content
    <2>1. pc' = "dead" /\ own' = "none" /\ kept' = kept \cup ({own} \ {"none"})
      BY <1>27 DEF Die, KeepBackup
    <2>2. UNCHANGED <<data, failed, opt, Content>>
      BY <1>27 DEF Die, Content
    <2>3. pc \notin Resting
      BY <1>27 DEF Die
    <2>4. before \in {Content, data} \/ pc = "bail" \/ pc \in HasRead \ {"backup"}
      BY <2>3 DEF PhaseInv, TypeOK, Content
    <2>5. ASSUME BackupFile /\ CheckFiles,
                 failed \cap {"setxattr_decmpfs", "fclose_backup", "fclose",
                            "listxattr_leftover"} = {}
          PROVE  "orig" \in {Content, data} \cup kept'
      BY <2>1, <2>3, <2>4, <2>5 DEF SaveInv, TypeOK
    <2>6. QED
      BY <2>1, <2>2, <2>5 DEF SaveInv
  <1>28. CASE RunAgain
    BY <1>28 DEF RunAgain
  <1>29. QED
    BY <1>1, <1>2, <1>3, <1>4, <1>5, <1>6, <1>7, <1>8, <1>9, <1>10, <1>11, <1>12,
       <1>13, <1>14, <1>15, <1>16, <1>17, <1>18, <1>19, <1>20, <1>21, <1>22,
       <1>23, <1>24, <1>25, <1>26, <1>27, <1>28, FinishedKeeps
       DEF Next

-----------------------------------------------------------------------------
\* Calls are added to the failed ones one by one.
LEMMA FailedFinite ==
    ASSUME IsFiniteSet(failed), Next
    PROVE  IsFiniteSet(failed')
  <1>1. failed' = failed \/ \E call : failed' = failed \cup {call}
    BY DEF Next, EnterSkips, Enter, ProbeOn, ProbeOff, ListAttrs, OpenFile, ReadFile,
           WriteBackup, Encode, Decide, TruncateFirst, WriteFork, WriteForkFails,
           WriteAttr, WriteAttrFails, TruncateLast, SetFlag, SetFlagFails, UnsetAttrs,
           RestoreFile, Verify, RevertFlag, RemoveAttrs, Refill, RefillFails, Bail,
           Die, RunAgain, Finished, vars, Truncate,
           RemoveAttributes, RestoreFileWorks, RestoreFileFails, Fails, Succeeds
  <1>2. QED
    BY <1>1, FS_AddElement

\* At most one failure: any two are the same.
LEMMA AtMostOne ==
    ASSUME NEW S, IsFiniteSet(S), Cardinality(S) <= 1
    PROVE  \A c, d \in S : c = d
  <1> SUFFICES ASSUME NEW c \in S, NEW d \in S, c # d
               PROVE  FALSE
    OBVIOUS
  <1>1. IsFiniteSet(S \ {c}) /\ Cardinality(S \ {c}) = Cardinality(S) - 1
    BY FS_RemoveElement
  <1>2. Cardinality(S) \in Nat /\ Cardinality(S \ {c}) \in Nat
    BY <1>1, FS_CardinalityType
  <1>3. Cardinality(S \ {c}) = 0
    BY <1>1, <1>2
  <1>4. S \ {c} = {}
    BY <1>1, <1>3, FS_EmptySet
  <1>5. QED
    BY <1>4

\* The file as it is found: nothing has been read, nothing has failed.
LEMMA CompressInit == Init => CompressInv
  <1> SUFFICES ASSUME Init
               PROVE  CompressInv
    OBVIOUS
  <1> USE DEF Init
  <1>1. TypeOK
    <2>1. flag \in BOOLEAN
      BY Zenon
    <2>2. run \in 1 .. MaxRuns
      BY CompressAssumption
    <2>3. QED
      BY <2>1, <2>2 DEF TypeOK, Data, Outcomes
  <1>2. IsFiniteSet(failed)
    BY FS_EmptySet
  <1>3. PhaseInv
    BY DEF PhaseInv, Resting, Looking, HasRead, HasEncoded, Content
  <1>4. ReasonInv /\ OutcomeInv
    BY DEF ReasonInv, OutcomeInv, Resting
  <1>5. ResultInv
    BY DEF ResultInv, NothingHalfDone, CompressedIsSame
  <1>6. SaveInv
    BY DEF SaveInv, Resting, Looking, Content
  <1>7. QED
    BY <1>1, <1>2, <1>3, <1>4, <1>5, <1>6 DEF CompressInv

\* The invariant is inductive.
LEMMA CompressNext == CompressInv /\ [Next]_vars => CompressInv'
  <1>1. ASSUME CompressInv, Next
        PROVE  CompressInv'
    <2>1. TypeOK'
      BY <1>1, TypeStep DEF CompressInv
    <2>2. PhaseInv'
      BY <1>1, PhaseStep DEF CompressInv
    <2>3. ReasonInv'
      BY <1>1, ReasonStep DEF CompressInv
    <2>4. OutcomeInv'
      BY <1>1, <2>2, OutcomeStep DEF CompressInv
    <2>5. ResultInv'
      BY <1>1, ResultStep DEF CompressInv
    <2>6. SaveInv'
      BY <1>1, <2>2, SaveStep DEF CompressInv
    <2>7. IsFiniteSet(failed')
      BY <1>1, FailedFinite DEF CompressInv
    <2>8. QED
      BY <2>1, <2>2, <2>3, <2>4, <2>5, <2>6, <2>7 DEF CompressInv
  <1>2. ASSUME CompressInv, UNCHANGED vars
        PROVE  CompressInv'
    <2>1. failed' = failed
      BY <1>2 DEF vars
    <2>2. QED
      BY <1>2, <2>1, Stutter DEF CompressInv
  <1>3. QED
    BY <1>1, <1>2

LEMMA CompressInvariant == Spec => []CompressInv
  BY CompressInit, CompressNext, PTL DEF Spec
-----------------------------------------------------------------------------
\* The file, its permissions, the backups and the buffers of compressFile() only
\* ever hold what TypeOK lists (afsctool.c:199-1230).
THEOREM TypeCorrect == Spec => []TypeOK
  <1>1. CompressInv => TypeOK
    BY DEF CompressInv
  <1>2. QED
    BY <1>1, CompressInvariant, PTL

\* With -b and the check, the original content is at every moment in the file or in
\* a backup that stays, through any number of runs, deaths and failures of the calls
\* ContentOrBackup does not except (afsctool.c:447-449, 543-589, 1056-1063).
THEOREM OriginalIsSafe == Spec => []ContentOrBackup
  <1>1. CompressInv => ContentOrBackup
    <2> SUFFICES ASSUME CompressInv, BackupFile, CheckFiles,
                        failed \cap {"setxattr_decmpfs", "fclose_backup", "fclose",
                            "listxattr_leftover"} = {}
                 PROVE  "orig" \in {Content, data, own} \cup kept
      BY DEF ContentOrBackup
    <2>1. CASE pc \in Resting
      BY <2>1 DEF CompressInv, SaveInv
    <2>2. CASE pc \in HasRead \ {"backup"}
      BY <2>2 DEF CompressInv, SaveInv, Resting, HasRead
    <2>3. CASE pc \in Looking \cup {"backup"}
      <3>1. before \in {Content, data}
        BY <2>3 DEF CompressInv, PhaseInv, Looking, Untouched, TypeOK
      <3>2. QED
        BY <2>3, <3>1 DEF CompressInv, SaveInv, Looking, Resting
    <2>4. CASE pc = "bail"
      BY <2>4 DEF CompressInv, SaveInv, Resting
    <2>5. QED
      BY <2>1, <2>2, <2>3, <2>4 DEF CompressInv, PhaseInv
  <1>2. QED
    BY <1>1, CompressInvariant, PTL

\* One failing call is undone, but for the three OneFailureUndone excepts: after it the
\* file reads as before (afsctool.c:385-400, 447-449, 988-991, 1078-1095, 1147-1185).
THEOREM FailureIsUndone == Spec => []OneFailureUndone
  <1>1. CompressInv => OneFailureUndone
    BY AtMostOne DEF CompressInv, ResultInv, OneFailureUndone
  <1>2. QED
    BY <1>1, CompressInvariant, PTL

\* A finished run leaves a file compressed, whole and empty underneath, or not
\* compressed at all, if none of the calls that clean up or look for leftovers has
\* failed (afsctool.c:441-449, 1075-1095, 1157-1172).
THEOREM AllOrNothing == Spec => []NothingHalfDone
  <1>1. CompressInv => NothingHalfDone
    BY DEF CompressInv, ResultInv
  <1>2. QED
    BY <1>1, CompressInvariant, PTL

\* When compressFile() says it has compressed a file and checked it, the file reads as
\* before, with the permissions it had, and its backup goes (afsctool.c:1098-1146, 1208-1229).
THEOREM SuccessIsSame == Spec => []CompressedIsSame
  <1>1. CompressInv => CompressedIsSame
    BY DEF CompressInv, ResultInv
  <1>2. QED
    BY <1>1, CompressInvariant, PTL

\* Only a file without fork and flag is given a fork, and one with an attribute only
\* after a listxattr() failed, so that no run knowingly builds upon what a crash or a
\* failed clean-up has left (afsctool.c:447-470, 988-991).
THEOREM NeverBuildsOn == Spec => NotBuiltUpon
  <1>1. CompressInv /\ [Next]_vars
        => [rsrc' # rsrc /\ rsrc' # "none"
            => /\ rsrc = "none" /\ ~flag
               /\ decmpfs = "none" \/ "listxattr_leftover" \in failed]_vars
    <2> SUFFICES ASSUME CompressInv, Next, rsrc' # rsrc, rsrc' # "none"
                 PROVE  /\ rsrc = "none" /\ ~flag
                        /\ decmpfs = "none" \/ "listxattr_leftover" \in failed
      BY Zenon DEF vars, fileVars
    <2>1. WriteFork
      BY DEF Next, EnterSkips, Enter, ProbeOn, ProbeOff, ListAttrs, OpenFile, ReadFile,
           WriteBackup, Encode, Decide, TruncateFirst, WriteFork, WriteForkFails,
           WriteAttr, WriteAttrFails, TruncateLast, SetFlag, SetFlagFails, UnsetAttrs,
           RestoreFile, Verify, RevertFlag, RemoveAttrs, Refill, RefillFails, Bail,
           Die, RunAgain, Finished, vars, Truncate,
             RemoveAttributes, fileVars
    <2>2. QED
      BY <2>1 DEF CompressInv, PhaseInv, NoneSeen, WriteFork, Goto
  <1>2. QED
    BY <1>1, CompressInvariant, PTL DEF Spec, NotBuiltUpon
=============================================================================
