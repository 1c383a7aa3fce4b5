-------------------------- MODULE ZfsDatasetProofs --------------------------
(***************************************************************************)
(* What ZfsDataset promises of zfsctool, proved for any number of worker   *)
(* threads and files, every set of options, and with or without failing    *)
(* writes, failing `zfs set` commands and a request to quit.  The          *)
(* inductive invariant says which worker has which file and which lock,    *)
(* and what the dataset's compression is while it has them.                *)
(***************************************************************************)
EXTENDS ZfsDataset, Counting, TLAPS

\* from OpenFile() until the file is labelled
Opened == (Counted \ {"reset"}) \cup {"backup", "lock", "set"}
\* from the ioLock on, until bail
Locked == Counted \cup {"set", "resetCall", "resetting"}
\* in resetCompression()
Resetting == {"reset", "resetCall", "resetting"}
Pcs == Counted \cup {"idle", "backup", "lock", "set", "resetCall", "resetting", "bail"}
               \cup Stopped

\* A worker that is not idle has a file that no other worker has, or will get.
FileInv ==
    /\ \A w \in Workers : pc[w] # "idle" => file[w] \in Files
    /\ \A w \in Workers : pc[w] = "idle" => file[w] = NoFile
    /\ \A v, w \in Workers : file[v] = file[w] /\ file[w] # NoFile => v = w
    /\ \A w \in Workers : file[w] # NoFile => outcome[file[w]] # "todo"
    /\ \A w \in Workers : pc[w] \notin {"idle", "bail"} \cup Stopped
                            => outcome[file[w]] = "busy"
    /\ \A w \in Workers : pc[w] \in Opened => label[file[w]] = "none"
    /\ \A f \in Files : label[f] = "new" => outcome[f] \in {"busy", "done"}
    /\ \A w \in Workers : pc[w] # "idle" => w \in Active
    /\ main # "run" => \A w \in Workers : pc[w] \in Stopped \cup {"idle"}

\* A command runs in the dataset's critical section, and with -jN the ioLock is held
\* from before setCompression() to after resetCompression().
LockInv ==
    /\ \A w \in Workers : critsect = w <=> InCommand(w)
    /\ critsect = Main <=> main \in {"emptying", "deleting"}
    /\ Exclusive /\ Parallel => \A w \in Workers : pc[w] \in Locked => ioLock = w
    /\ ~Quick => \A w \in Workers : pc[w] \notin Resetting

\* A command that nobody waits for is the only thing to change the compression
\* behind the program's back.
CurrentInv == NoneAbandoned => orphan = "none" /\ current = property

\* The compression is held from setCompression() on, and a file that has been
\* rewritten was rewritten under it.
HeldInv ==
    NoneAbandoned /\ ~ResetsUnderWay =>
        \A w \in Workers : file[w] \notin refused =>
            /\ pc[w] \in Counted \ {"setting", "reset"} => current = "new"
            /\ pc[w] \in {"verify", "rewrite", "label"} => written[file[w]] = "new"

\* While the dataset has not its initial compression, somebody is there to reset it.
IdleInv ==
    Quick /\ failedResets = {} /\ NoneAbandoned /\ current # "initial" =>
        \/ \E f \in Files : outcome[f] = "failed"
        \/ \E w \in Workers : pc[w] \in Counted \cup Resetting

\* The last thing the program does is to reset it.
ExitInv ==
    main = "exited" /\ "main" \notin failedResets /\ NoneAbandoned => current = "initial"

\* What has become of file f and its backup, ...
FileKept(f) ==
    /\ outcome[f] \in {"todo", "skipped", "done"} =>
         backup[f] = "none" /\ (content[f] = "whole" \/ f \in unflushed)
    /\ outcome[f] = "failed" => backup[f] = "kept"
    /\ content[f] = "damaged" /\ f \notin unflushed =>
         \/ backup[f] = "kept"
         \/ /\ backup[f] = "own"
            /\ \E w \in Workers : file[w] = f /\ pc[w] \in {"write", "verify", "rewrite"}

\* ... and of the one worker w has.
OwnKept(w) ==
    /\ pc[w] = "backup" =>
         backup[file[w]] = "none" /\ (content[file[w]] = "whole" \/ file[w] \in unflushed)
    /\ pc[w] \in (Opened \cup Locked) \ {"backup"} => backup[file[w]] = "own"
    /\ pc[w] = "bail" => outcome[file[w]] \in {"busy", "skipped", "failed"}
    /\ pc[w] = "bail" /\ outcome[file[w]] = "busy" => backup[file[w]] = "own"

BackupInv ==
    Backup => (\A f \in Files : FileKept(f)) /\ (\A w \in Workers : OwnKept(w))

\* The inductive invariant
DatasetInv ==
    /\ TypeOK /\ FileInv /\ LockInv /\ CurrentInv /\ RefcountExact
    /\ HeldInv /\ LabelTruthful /\ IdleInv /\ ExitInv /\ BackupInv
-----------------------------------------------------------------------------
(* Each part of the invariant holds after every step.                       *)

\* The options do not change, and with them who works.
LEMMA OptKept ==
    ASSUME Next
    PROVE  opt' = opt /\ Active' = Active
  <1>1. opt' = opt
    BY DEF Next, CompressStep, MainStep, SkipFile, OpenFile, WriteBackup,
           BackupFails, LockScope, CallSetCompression, SetSucceeds, SetFails,
           Truncate, WriteFile, WriteFails, VerifyFile, RewriteFile, RewriteFails,
           WriteLabel, CallResetCompression, EnterReset, ResetEnds, Bail, Cancel,
           EndRun, BreakOff, MainCall, MainCommandEnds, OrphanEnds, RequestQuit, Exited,
           mainVars, dataset, vars
  <1>2. QED
    BY <1>1 DEF Active, Parallel

\* Who has which file.
LEMMA FileStep ==
    ASSUME TypeOK, FileInv, Next
    PROVE  FileInv'
  <1> USE DatasetAssumption, OptKept
         DEF dataset, fileVars, mainVars, Goto, Put, InCommand, TypeOK, FileInv,
             Counted, Stopped, Opened
  <1>1. ASSUME NEW w \in Workers, NEW f \in Files, SkipFile(w, f)
        PROVE  FileInv'
    BY <1>1 DEF SkipFile
  <1>2. ASSUME NEW w \in Workers, NEW f \in Files, OpenFile(w, f)
        PROVE  FileInv'
    BY <1>2 DEF OpenFile
  <1>3. ASSUME NEW w \in Workers, WriteBackup(w)
        PROVE  FileInv'
    BY <1>3 DEF WriteBackup
  <1>4. ASSUME NEW w \in Workers, BackupFails(w)
        PROVE  FileInv'
    BY <1>4 DEF BackupFails
  <1>5. ASSUME NEW w \in Workers, LockScope(w)
        PROVE  FileInv'
    BY <1>5 DEF LockScope
  <1>6. ASSUME NEW w \in Workers, CallSetCompression(w)
        PROVE  FileInv'
    BY <1>6 DEF CallSetCompression
  <1>7. ASSUME NEW w \in Workers, SetSucceeds(w)
        PROVE  FileInv'
    BY <1>7 DEF SetSucceeds
  <1>8. ASSUME NEW w \in Workers, SetFails(w)
        PROVE  FileInv'
    BY <1>8 DEF SetFails
  <1>9. ASSUME NEW w \in Workers, Truncate(w)
        PROVE  FileInv'
    BY <1>9 DEF Truncate
  <1>10. ASSUME NEW w \in Workers, WriteFile(w)
        PROVE  FileInv'
    BY <1>10 DEF WriteFile
  <1>11. ASSUME NEW w \in Workers, WriteFails(w)
        PROVE  FileInv'
    BY <1>11 DEF WriteFails
  <1>12. ASSUME NEW w \in Workers, VerifyFile(w)
        PROVE  FileInv'
    BY <1>12 DEF VerifyFile
  <1>13. ASSUME NEW w \in Workers, RewriteFile(w)
        PROVE  FileInv'
    BY <1>13 DEF RewriteFile
  <1>14. ASSUME NEW w \in Workers, RewriteFails(w)
        PROVE  FileInv'
    BY <1>14 DEF RewriteFails
  <1>15. ASSUME NEW w \in Workers, WriteLabel(w)
        PROVE  FileInv'
    BY <1>15 DEF WriteLabel
  <1>16. ASSUME NEW w \in Workers, CallResetCompression(w)
        PROVE  FileInv'
    BY <1>16 DEF CallResetCompression
  <1>17. ASSUME NEW w \in Workers, EnterReset(w)
        PROVE  FileInv'
    BY <1>17 DEF EnterReset
  <1>18. ASSUME NEW w \in Workers, ResetEnds(w)
        PROVE  FileInv'
    BY <1>18 DEF ResetEnds
  <1>19. ASSUME NEW w \in Workers, Bail(w)
        PROVE  FileInv'
    BY <1>19 DEF Bail
  <1>20. ASSUME NEW w \in Workers, Cancel(w)
        PROVE  FileInv'
    BY <1>20 DEF Cancel
  <1>21. ASSUME EndRun
        PROVE  FileInv'
    BY <1>21 DEF EndRun
  <1>21a. ASSUME BreakOff
         PROVE  FileInv'
    BY <1>21a DEF BreakOff
  <1>22. ASSUME MainCall
        PROVE  FileInv'
    BY <1>22 DEF MainCall
  <1>23. ASSUME MainCommandEnds
        PROVE  FileInv'
    BY <1>23 DEF MainCommandEnds
  <1>24. ASSUME OrphanEnds
        PROVE  FileInv'
    BY <1>24 DEF OrphanEnds
  <1>25. ASSUME RequestQuit
        PROVE  FileInv'
    BY <1>25 DEF RequestQuit
  <1>26. ASSUME Exited
        PROVE  FileInv'
    BY <1>26 DEF Exited, vars
  <1> HIDE DEF dataset, fileVars, mainVars, Goto, Put, InCommand, TypeOK, FileInv,
             Counted, Stopped, Opened
  <1>27. QED
    BY <1>1, <1>2, <1>3, <1>4, <1>5, <1>6, <1>7, <1>8, <1>9, <1>10, <1>11, <1>12,
       <1>13, <1>14, <1>15, <1>16, <1>17, <1>18, <1>19, <1>20, <1>21, <1>21a,
       <1>22, <1>23, <1>24, <1>25, <1>26
       DEF Next, CompressStep, MainStep

\* Who has which lock.
LEMMA LockStep ==
    ASSUME TypeOK, FileInv, LockInv, Next
    PROVE  LockInv'
  <1> USE DatasetAssumption, OptKept
         DEF dataset, fileVars, mainVars, Goto, Put, InCommand, Parallel, Exclusive,
             Quick, Backup, TypeOK, FileInv, LockInv, Counted, Stopped, Opened, Locked,
             Resetting, Main, Nobody
  <1>1. ASSUME NEW w \in Workers, NEW f \in Files, SkipFile(w, f)
        PROVE  LockInv'
    BY <1>1 DEF SkipFile
  <1>2. ASSUME NEW w \in Workers, NEW f \in Files, OpenFile(w, f)
        PROVE  LockInv'
    BY <1>2 DEF OpenFile
  <1>3. ASSUME NEW w \in Workers, WriteBackup(w)
        PROVE  LockInv'
    BY <1>3 DEF WriteBackup
  <1>4. ASSUME NEW w \in Workers, BackupFails(w)
        PROVE  LockInv'
    BY <1>4 DEF BackupFails
  <1>5. ASSUME NEW w \in Workers, LockScope(w)
        PROVE  LockInv'
    BY <1>5 DEF LockScope
  <1>6. ASSUME NEW w \in Workers, CallSetCompression(w)
        PROVE  LockInv'
    BY <1>6 DEF CallSetCompression
  <1>7. ASSUME NEW w \in Workers, SetSucceeds(w)
        PROVE  LockInv'
    BY <1>7 DEF SetSucceeds
  <1>8. ASSUME NEW w \in Workers, SetFails(w)
        PROVE  LockInv'
    BY <1>8 DEF SetFails
  <1>9. ASSUME NEW w \in Workers, Truncate(w)
        PROVE  LockInv'
    BY <1>9 DEF Truncate
  <1>10. ASSUME NEW w \in Workers, WriteFile(w)
        PROVE  LockInv'
    BY <1>10 DEF WriteFile
  <1>11. ASSUME NEW w \in Workers, WriteFails(w)
        PROVE  LockInv'
    BY <1>11 DEF WriteFails
  <1>12. ASSUME NEW w \in Workers, VerifyFile(w)
        PROVE  LockInv'
    BY <1>12 DEF VerifyFile
  <1>13. ASSUME NEW w \in Workers, RewriteFile(w)
        PROVE  LockInv'
    BY <1>13 DEF RewriteFile
  <1>14. ASSUME NEW w \in Workers, RewriteFails(w)
        PROVE  LockInv'
    BY <1>14 DEF RewriteFails
  <1>15. ASSUME NEW w \in Workers, WriteLabel(w)
        PROVE  LockInv'
    BY <1>15 DEF WriteLabel
  <1>16. ASSUME NEW w \in Workers, CallResetCompression(w)
        PROVE  LockInv'
    BY <1>16 DEF CallResetCompression
  <1>17. ASSUME NEW w \in Workers, EnterReset(w)
        PROVE  LockInv'
    BY <1>17 DEF EnterReset
  <1>18. ASSUME NEW w \in Workers, ResetEnds(w)
        PROVE  LockInv'
    BY <1>18 DEF ResetEnds
  <1>19. ASSUME NEW w \in Workers, Bail(w)
        PROVE  LockInv'
    BY <1>19 DEF Bail
  <1>20. ASSUME NEW w \in Workers, Cancel(w)
        PROVE  LockInv'
    BY <1>20 DEF Cancel
  <1>21. ASSUME EndRun
        PROVE  LockInv'
    BY <1>21 DEF EndRun
  <1>21a. ASSUME BreakOff
         PROVE  LockInv'
    BY <1>21a DEF BreakOff
  <1>22. ASSUME MainCall
        PROVE  LockInv'
    BY <1>22 DEF MainCall
  <1>23. ASSUME MainCommandEnds
        PROVE  LockInv'
    BY <1>23 DEF MainCommandEnds
  <1>24. ASSUME OrphanEnds
        PROVE  LockInv'
    BY <1>24 DEF OrphanEnds
  <1>25. ASSUME RequestQuit
        PROVE  LockInv'
    BY <1>25 DEF RequestQuit
  <1>26. ASSUME Exited
        PROVE  LockInv'
    BY <1>26 DEF Exited, vars
  <1> HIDE DEF dataset, fileVars, mainVars, Goto, Put, InCommand, Parallel, Exclusive,
             Quick, Backup, TypeOK, FileInv, LockInv, Counted, Stopped, Opened, Locked,
             Resetting, Main, Nobody
  <1>27. QED
    BY <1>1, <1>2, <1>3, <1>4, <1>5, <1>6, <1>7, <1>8, <1>9, <1>10, <1>11, <1>12,
       <1>13, <1>14, <1>15, <1>16, <1>17, <1>18, <1>19, <1>20, <1>21, <1>21a,
       <1>22, <1>23, <1>24, <1>25, <1>26
       DEF Next, CompressStep, MainStep

\* The program knows what the compression is.
LEMMA CurrentStep ==
    ASSUME TypeOK, FileInv, LockInv, CurrentInv, Next
    PROVE  CurrentInv'
  <1> USE DatasetAssumption, OptKept
         DEF dataset, fileVars, mainVars, Goto, Put, InCommand, TypeOK, FileInv,
             LockInv, CurrentInv, NoneAbandoned, EngineFree
  <1>1. ASSUME NEW w \in Workers, NEW f \in Files, SkipFile(w, f)
        PROVE  CurrentInv'
    BY <1>1 DEF SkipFile
  <1>2. ASSUME NEW w \in Workers, NEW f \in Files, OpenFile(w, f)
        PROVE  CurrentInv'
    BY <1>2 DEF OpenFile
  <1>3. ASSUME NEW w \in Workers, WriteBackup(w)
        PROVE  CurrentInv'
    BY <1>3 DEF WriteBackup
  <1>4. ASSUME NEW w \in Workers, BackupFails(w)
        PROVE  CurrentInv'
    BY <1>4 DEF BackupFails
  <1>5. ASSUME NEW w \in Workers, LockScope(w)
        PROVE  CurrentInv'
    BY <1>5 DEF LockScope
  <1>6. ASSUME NEW w \in Workers, CallSetCompression(w)
        PROVE  CurrentInv'
    BY <1>6 DEF CallSetCompression
  <1>7. ASSUME NEW w \in Workers, SetSucceeds(w)
        PROVE  CurrentInv'
    BY <1>7 DEF SetSucceeds
  <1>8. ASSUME NEW w \in Workers, SetFails(w)
        PROVE  CurrentInv'
    BY <1>8 DEF SetFails
  <1>9. ASSUME NEW w \in Workers, Truncate(w)
        PROVE  CurrentInv'
    BY <1>9 DEF Truncate
  <1>10. ASSUME NEW w \in Workers, WriteFile(w)
        PROVE  CurrentInv'
    BY <1>10 DEF WriteFile
  <1>11. ASSUME NEW w \in Workers, WriteFails(w)
        PROVE  CurrentInv'
    BY <1>11 DEF WriteFails
  <1>12. ASSUME NEW w \in Workers, VerifyFile(w)
        PROVE  CurrentInv'
    BY <1>12 DEF VerifyFile
  <1>13. ASSUME NEW w \in Workers, RewriteFile(w)
        PROVE  CurrentInv'
    BY <1>13 DEF RewriteFile
  <1>14. ASSUME NEW w \in Workers, RewriteFails(w)
        PROVE  CurrentInv'
    BY <1>14 DEF RewriteFails
  <1>15. ASSUME NEW w \in Workers, WriteLabel(w)
        PROVE  CurrentInv'
    BY <1>15 DEF WriteLabel
  <1>16. ASSUME NEW w \in Workers, CallResetCompression(w)
        PROVE  CurrentInv'
    BY <1>16 DEF CallResetCompression
  <1>17. ASSUME NEW w \in Workers, EnterReset(w)
        PROVE  CurrentInv'
    BY <1>17 DEF EnterReset
  <1>18. ASSUME NEW w \in Workers, ResetEnds(w)
        PROVE  CurrentInv'
    BY <1>18 DEF ResetEnds
  <1>19. ASSUME NEW w \in Workers, Bail(w)
        PROVE  CurrentInv'
    BY <1>19 DEF Bail
  <1>20. ASSUME NEW w \in Workers, Cancel(w)
        PROVE  CurrentInv'
    BY <1>20 DEF Cancel
  <1>21. ASSUME EndRun
        PROVE  CurrentInv'
    BY <1>21 DEF EndRun
  <1>21a. ASSUME BreakOff
         PROVE  CurrentInv'
    BY <1>21a DEF BreakOff
  <1>22. ASSUME MainCall
        PROVE  CurrentInv'
    BY <1>22 DEF MainCall
  <1>23. ASSUME MainCommandEnds
        PROVE  CurrentInv'
    BY <1>23 DEF MainCommandEnds
  <1>24. ASSUME OrphanEnds
        PROVE  CurrentInv'
    BY <1>24 DEF OrphanEnds
  <1>25. ASSUME RequestQuit
        PROVE  CurrentInv'
    BY <1>25 DEF RequestQuit
  <1>26. ASSUME Exited
        PROVE  CurrentInv'
    BY <1>26 DEF Exited, vars
  <1> HIDE DEF dataset, fileVars, mainVars, Goto, Put, InCommand, TypeOK, FileInv,
             LockInv, CurrentInv, NoneAbandoned, EngineFree
  <1>27. QED
    BY <1>1, <1>2, <1>3, <1>4, <1>5, <1>6, <1>7, <1>8, <1>9, <1>10, <1>11, <1>12,
       <1>13, <1>14, <1>15, <1>16, <1>17, <1>18, <1>19, <1>20, <1>21, <1>21a,
       <1>22, <1>23, <1>24, <1>25, <1>26
       DEF Next, CompressStep, MainStep

\* The compression is reset only when no other worker needs it: with -jN because
\* no other worker has the ioLock, without threads because there is none, and
\* with -q it is not reset at all.
LEMMA HeldStep ==
    ASSUME TypeOK, FileInv, LockInv, CurrentInv, HeldInv, Next
    PROVE  HeldInv'
  <1> USE DatasetAssumption, OptKept
         DEF dataset, fileVars, mainVars, Goto, Put, InCommand, Parallel, Exclusive,
             Quick, Backup, TypeOK, FileInv, LockInv, CurrentInv, HeldInv,
             NoneAbandoned, EngineFree, ResetsUnderWay, Active, Counted, Stopped,
             Opened, Locked, Resetting
  <1>1. ASSUME NEW w \in Workers, NEW f \in Files, SkipFile(w, f)
        PROVE  HeldInv'
    BY <1>1 DEF SkipFile
  <1>2. ASSUME NEW w \in Workers, NEW f \in Files, OpenFile(w, f)
        PROVE  HeldInv'
    BY <1>2 DEF OpenFile
  <1>3. ASSUME NEW w \in Workers, WriteBackup(w)
        PROVE  HeldInv'
    BY <1>3 DEF WriteBackup
  <1>4. ASSUME NEW w \in Workers, BackupFails(w)
        PROVE  HeldInv'
    BY <1>4 DEF BackupFails
  <1>5. ASSUME NEW w \in Workers, LockScope(w)
        PROVE  HeldInv'
    BY <1>5 DEF LockScope
  <1>6. ASSUME NEW w \in Workers, CallSetCompression(w)
        PROVE  HeldInv'
    BY <1>6 DEF CallSetCompression
  <1>7. ASSUME NEW w \in Workers, SetSucceeds(w)
        PROVE  HeldInv'
    BY <1>7 DEF SetSucceeds
  <1>8. ASSUME NEW w \in Workers, SetFails(w)
        PROVE  HeldInv'
    BY <1>8 DEF SetFails
  <1>9. ASSUME NEW w \in Workers, Truncate(w)
        PROVE  HeldInv'
    BY <1>9 DEF Truncate
  <1>10. ASSUME NEW w \in Workers, WriteFile(w)
        PROVE  HeldInv'
    BY <1>10 DEF WriteFile
  <1>11. ASSUME NEW w \in Workers, WriteFails(w)
        PROVE  HeldInv'
    BY <1>11 DEF WriteFails
  <1>12. ASSUME NEW w \in Workers, VerifyFile(w)
        PROVE  HeldInv'
    BY <1>12 DEF VerifyFile
  <1>13. ASSUME NEW w \in Workers, RewriteFile(w)
        PROVE  HeldInv'
    BY <1>13 DEF RewriteFile
  <1>14. ASSUME NEW w \in Workers, RewriteFails(w)
        PROVE  HeldInv'
    BY <1>14 DEF RewriteFails
  <1>15. ASSUME NEW w \in Workers, WriteLabel(w)
        PROVE  HeldInv'
    BY <1>15 DEF WriteLabel
  <1>16. ASSUME NEW w \in Workers, CallResetCompression(w)
        PROVE  HeldInv'
    BY <1>16 DEF CallResetCompression
  <1>17. ASSUME NEW w \in Workers, EnterReset(w)
        PROVE  HeldInv'
    BY <1>17 DEF EnterReset
  <1>18. ASSUME NEW w \in Workers, ResetEnds(w)
        PROVE  HeldInv'
    <2> HIDE DEF TypeOK, FileInv, LockInv, CurrentInv, HeldInv, NoneAbandoned, ResetsUnderWay,
                 Active, Counted, Stopped, Opened, Locked, Resetting, Parallel,
                 Exclusive, Quick
    <2>1. /\ pc[w] = "resetting" /\ pc' = [pc EXCEPT ![w] = "bail"]
          /\ UNCHANGED <<file, written, refused>>
      BY <1>18 DEF ResetEnds
    <2>2. \A v \in Workers : pc'[v] = IF v = w THEN "bail" ELSE pc[v]
      BY <2>1 DEF TypeOK
    <2>3. ~ResetsUnderWay => \A v \in Workers \ {w} : pc[v] \notin Counted
      <3> SUFFICES ASSUME ~ResetsUnderWay, NEW v \in Workers, v # w, pc[v] \in Counted
                   PROVE  FALSE
        OBVIOUS
      <3>1. Quick
        BY <2>1 DEF LockInv, Resetting
      <3>2. CASE ~Parallel
        BY <3>2, <2>1 DEF FileInv, Active, Counted
      <3>3. CASE Parallel /\ Exclusive
        BY <3>3, <2>1 DEF LockInv, Locked
      <3>4. QED
        BY <3>1, <3>2, <3>3 DEF ResetsUnderWay
    <2>4. "bail" \notin Counted
      BY DEF Counted
    <2>5. ResetsUnderWay' = ResetsUnderWay
      BY DEF ResetsUnderWay, Parallel, Exclusive, Quick
    <2>6. ~ResetsUnderWay => \A v \in Workers : pc'[v] \notin Counted
      BY <2>2, <2>3, <2>4
    <2>7. QED
      BY <2>5, <2>6 DEF HeldInv, Counted
  <1>19. ASSUME NEW w \in Workers, Bail(w)
        PROVE  HeldInv'
    BY <1>19 DEF Bail
  <1>20. ASSUME NEW w \in Workers, Cancel(w)
        PROVE  HeldInv'
    BY <1>20 DEF Cancel
  <1>21. ASSUME EndRun
        PROVE  HeldInv'
    BY <1>21 DEF EndRun
  <1>21a. ASSUME BreakOff
         PROVE  HeldInv'
    BY <1>21a DEF BreakOff
  <1>22. ASSUME MainCall
        PROVE  HeldInv'
    BY <1>22 DEF MainCall
  <1>23. ASSUME MainCommandEnds
        PROVE  HeldInv'
    BY <1>23 DEF MainCommandEnds
  <1>24. ASSUME OrphanEnds
        PROVE  HeldInv'
    BY <1>24 DEF OrphanEnds
  <1>25. ASSUME RequestQuit
        PROVE  HeldInv'
    BY <1>25 DEF RequestQuit
  <1>26. ASSUME Exited
        PROVE  HeldInv'
    BY <1>26 DEF Exited, vars
  <1> HIDE DEF dataset, fileVars, mainVars, Goto, Put, InCommand, Parallel, Exclusive,
             Quick, Backup, TypeOK, FileInv, LockInv, CurrentInv, HeldInv,
             NoneAbandoned, EngineFree, ResetsUnderWay, Active, Counted, Stopped,
             Opened, Locked, Resetting
  <1>27. QED
    BY <1>1, <1>2, <1>3, <1>4, <1>5, <1>6, <1>7, <1>8, <1>9, <1>10, <1>11, <1>12,
       <1>13, <1>14, <1>15, <1>16, <1>17, <1>18, <1>19, <1>20, <1>21, <1>21a,
       <1>22, <1>23, <1>24, <1>25, <1>26
       DEF Next, CompressStep, MainStep

\* A file is labelled when it has been rewritten, and is not rewritten again.
LEMMA LabelStep ==
    ASSUME TypeOK, FileInv, LockInv, CurrentInv, HeldInv, LabelTruthful, Next
    PROVE  LabelTruthful'
  <1> USE DatasetAssumption, OptKept
         DEF dataset, fileVars, mainVars, Goto, Put, InCommand, Parallel, Exclusive,
             Quick, Backup, TypeOK, FileInv, HeldInv, LabelTruthful, NoneAbandoned,
             ResetsUnderWay, Counted, Stopped, Opened
  <1>1. ASSUME NEW w \in Workers, NEW f \in Files, SkipFile(w, f)
        PROVE  LabelTruthful'
    BY <1>1 DEF SkipFile
  <1>2. ASSUME NEW w \in Workers, NEW f \in Files, OpenFile(w, f)
        PROVE  LabelTruthful'
    BY <1>2 DEF OpenFile
  <1>3. ASSUME NEW w \in Workers, WriteBackup(w)
        PROVE  LabelTruthful'
    BY <1>3 DEF WriteBackup
  <1>4. ASSUME NEW w \in Workers, BackupFails(w)
        PROVE  LabelTruthful'
    BY <1>4 DEF BackupFails
  <1>5. ASSUME NEW w \in Workers, LockScope(w)
        PROVE  LabelTruthful'
    BY <1>5 DEF LockScope
  <1>6. ASSUME NEW w \in Workers, CallSetCompression(w)
        PROVE  LabelTruthful'
    BY <1>6 DEF CallSetCompression
  <1>7. ASSUME NEW w \in Workers, SetSucceeds(w)
        PROVE  LabelTruthful'
    BY <1>7 DEF SetSucceeds
  <1>8. ASSUME NEW w \in Workers, SetFails(w)
        PROVE  LabelTruthful'
    BY <1>8 DEF SetFails
  <1>9. ASSUME NEW w \in Workers, Truncate(w)
        PROVE  LabelTruthful'
    BY <1>9 DEF Truncate
  <1>10. ASSUME NEW w \in Workers, WriteFile(w)
        PROVE  LabelTruthful'
    BY <1>10 DEF WriteFile
  <1>11. ASSUME NEW w \in Workers, WriteFails(w)
        PROVE  LabelTruthful'
    BY <1>11 DEF WriteFails
  <1>12. ASSUME NEW w \in Workers, VerifyFile(w)
        PROVE  LabelTruthful'
    BY <1>12 DEF VerifyFile
  <1>13. ASSUME NEW w \in Workers, RewriteFile(w)
        PROVE  LabelTruthful'
    BY <1>13 DEF RewriteFile
  <1>14. ASSUME NEW w \in Workers, RewriteFails(w)
        PROVE  LabelTruthful'
    BY <1>14 DEF RewriteFails
  <1>15. ASSUME NEW w \in Workers, WriteLabel(w)
        PROVE  LabelTruthful'
    BY <1>15 DEF WriteLabel
  <1>16. ASSUME NEW w \in Workers, CallResetCompression(w)
        PROVE  LabelTruthful'
    BY <1>16 DEF CallResetCompression
  <1>17. ASSUME NEW w \in Workers, EnterReset(w)
        PROVE  LabelTruthful'
    BY <1>17 DEF EnterReset
  <1>18. ASSUME NEW w \in Workers, ResetEnds(w)
        PROVE  LabelTruthful'
    BY <1>18 DEF ResetEnds
  <1>19. ASSUME NEW w \in Workers, Bail(w)
        PROVE  LabelTruthful'
    BY <1>19 DEF Bail
  <1>20. ASSUME NEW w \in Workers, Cancel(w)
        PROVE  LabelTruthful'
    BY <1>20 DEF Cancel
  <1>21. ASSUME EndRun
        PROVE  LabelTruthful'
    BY <1>21 DEF EndRun
  <1>21a. ASSUME BreakOff
         PROVE  LabelTruthful'
    BY <1>21a DEF BreakOff
  <1>22. ASSUME MainCall
        PROVE  LabelTruthful'
    BY <1>22 DEF MainCall
  <1>23. ASSUME MainCommandEnds
        PROVE  LabelTruthful'
    BY <1>23 DEF MainCommandEnds
  <1>24. ASSUME OrphanEnds
        PROVE  LabelTruthful'
    BY <1>24 DEF OrphanEnds
  <1>25. ASSUME RequestQuit
        PROVE  LabelTruthful'
    BY <1>25 DEF RequestQuit
  <1>26. ASSUME Exited
        PROVE  LabelTruthful'
    BY <1>26 DEF Exited, vars
  <1> HIDE DEF dataset, fileVars, mainVars, Goto, Put, InCommand, Parallel, Exclusive,
             Quick, Backup, TypeOK, FileInv, HeldInv, LabelTruthful, NoneAbandoned,
             ResetsUnderWay, Counted, Stopped, Opened
  <1>27. QED
    BY <1>1, <1>2, <1>3, <1>4, <1>5, <1>6, <1>7, <1>8, <1>9, <1>10, <1>11, <1>12,
       <1>13, <1>14, <1>15, <1>16, <1>17, <1>18, <1>19, <1>20, <1>21, <1>21a,
       <1>22, <1>23, <1>24, <1>25, <1>26
       DEF Next, CompressStep, MainStep

\* A worker that leaves without a reset leaves another behind: the count would
\* have been 1 without one.
LEMMA IdleStep ==
    ASSUME TypeOK, FileInv, LockInv, CurrentInv, RefcountExact, IdleInv, Next
    PROVE  IdleInv'
  <1> USE DatasetAssumption, OptKept
         DEF dataset, fileVars, mainVars, Goto, Put, InCommand, Parallel, Quick, TypeOK,
             FileInv, LockInv, IdleInv, NoneAbandoned, Counted, Stopped, Resetting
  <1>1. ASSUME NEW w \in Workers, NEW f \in Files, SkipFile(w, f)
        PROVE  IdleInv'
    BY <1>1 DEF SkipFile
  <1>2. ASSUME NEW w \in Workers, NEW f \in Files, OpenFile(w, f)
        PROVE  IdleInv'
    BY <1>2 DEF OpenFile
  <1>3. ASSUME NEW w \in Workers, WriteBackup(w)
        PROVE  IdleInv'
    BY <1>3 DEF WriteBackup
  <1>4. ASSUME NEW w \in Workers, BackupFails(w)
        PROVE  IdleInv'
    BY <1>4 DEF BackupFails
  <1>5. ASSUME NEW w \in Workers, LockScope(w)
        PROVE  IdleInv'
    BY <1>5 DEF LockScope
  <1>6. ASSUME NEW w \in Workers, CallSetCompression(w)
        PROVE  IdleInv'
    BY <1>6 DEF CallSetCompression
  <1>7. ASSUME NEW w \in Workers, SetSucceeds(w)
        PROVE  IdleInv'
    BY <1>7 DEF SetSucceeds
  <1>8. ASSUME NEW w \in Workers, SetFails(w)
        PROVE  IdleInv'
    BY <1>8 DEF SetFails
  <1>9. ASSUME NEW w \in Workers, Truncate(w)
        PROVE  IdleInv'
    BY <1>9 DEF Truncate
  <1>10. ASSUME NEW w \in Workers, WriteFile(w)
        PROVE  IdleInv'
    BY <1>10 DEF WriteFile
  <1>11. ASSUME NEW w \in Workers, WriteFails(w)
        PROVE  IdleInv'
    BY <1>11 DEF WriteFails
  <1>12. ASSUME NEW w \in Workers, VerifyFile(w)
        PROVE  IdleInv'
    BY <1>12 DEF VerifyFile
  <1>13. ASSUME NEW w \in Workers, RewriteFile(w)
        PROVE  IdleInv'
    BY <1>13 DEF RewriteFile
  <1>14. ASSUME NEW w \in Workers, RewriteFails(w)
        PROVE  IdleInv'
    BY <1>14 DEF RewriteFails
  <1>15. ASSUME NEW w \in Workers, WriteLabel(w)
        PROVE  IdleInv'
    BY <1>15 DEF WriteLabel
  <1>16. ASSUME NEW w \in Workers, CallResetCompression(w)
        PROVE  IdleInv'
    <2> HIDE DEF TypeOK, FileInv, IdleInv, NoneAbandoned, Counted, Stopped, Resetting, Quick
    <2>1. /\ pc[w] = "reset"
          /\ pc' = [pc EXCEPT ![w] = IF refcount = 1 THEN "resetCall" ELSE "bail"]
          /\ UNCHANGED <<failedResets, current, outcome>>
      BY <1>16 DEF CallResetCompression
    <2>2. \A v \in Workers :
            pc'[v] = IF v = w THEN IF refcount = 1 THEN "resetCall" ELSE "bail" ELSE pc[v]
      BY <2>1 DEF TypeOK
    <2>3. CASE refcount = 1
      BY <2>2, <2>3 DEF IdleInv, Resetting
    <2>4. CASE refcount # 1
      <3> SUFFICES ASSUME Quick, \A f \in Files : outcome[f] # "failed"
                   PROVE  \E v \in Workers : v # w /\ pc[v] \in Counted
        BY <2>1, <2>2 DEF IdleInv, Quick
      <3> DEFINE counted == {v \in Workers : pc[v] \in Counted}
      <3>1. main = "run"
        BY <2>1 DEF FileInv, Stopped
      <3>2. WithOutcome({"failed"}) = {}
        BY DEF WithOutcome
      <3>3. IsFiniteSet(counted) /\ Cardinality(counted) \in Nat
        BY FS_Subset, FS_CardinalityType
      <3>4. Cardinality(WithOutcome({"failed"})) = 0
        BY <3>2, FS_EmptySet, Zenon
      <3>5. refcount = Cardinality(counted)
        BY <3>1, <3>3, <3>4 DEF RefcountExact
      <3>6. Cardinality(counted) # 1
        BY <2>4, <3>5
      <3>7. counted # {w}
        BY <3>6, FS_Singleton, Zenon
      <3>8. w \in counted
        BY <2>1 DEF Counted
      <3>9. QED
        BY <3>7, <3>8
    <2>5. QED
      BY <2>3, <2>4
  <1>17. ASSUME NEW w \in Workers, EnterReset(w)
        PROVE  IdleInv'
    BY <1>17 DEF EnterReset
  <1>18. ASSUME NEW w \in Workers, ResetEnds(w)
        PROVE  IdleInv'
    BY <1>18 DEF ResetEnds
  <1>19. ASSUME NEW w \in Workers, Bail(w)
        PROVE  IdleInv'
    BY <1>19 DEF Bail
  <1>20. ASSUME NEW w \in Workers, Cancel(w)
        PROVE  IdleInv'
    BY <1>20 DEF Cancel
  <1>21. ASSUME EndRun
        PROVE  IdleInv'
    BY <1>21 DEF EndRun
  <1>21a. ASSUME BreakOff
         PROVE  IdleInv'
    BY <1>21a DEF BreakOff
  <1>22. ASSUME MainCall
        PROVE  IdleInv'
    BY <1>22 DEF MainCall
  <1>23. ASSUME MainCommandEnds
        PROVE  IdleInv'
    BY <1>23 DEF MainCommandEnds
  <1>24. ASSUME OrphanEnds
        PROVE  IdleInv'
    BY <1>24 DEF OrphanEnds
  <1>25. ASSUME RequestQuit
        PROVE  IdleInv'
    BY <1>25 DEF RequestQuit
  <1>26. ASSUME Exited
        PROVE  IdleInv'
    BY <1>26 DEF Exited, vars
  <1> HIDE DEF dataset, fileVars, mainVars, Goto, Put, InCommand, Parallel, Quick, TypeOK,
             FileInv, LockInv, IdleInv, NoneAbandoned, Counted, Stopped, Resetting
  <1>27. QED
    BY <1>1, <1>2, <1>3, <1>4, <1>5, <1>6, <1>7, <1>8, <1>9, <1>10, <1>11, <1>12,
       <1>13, <1>14, <1>15, <1>16, <1>17, <1>18, <1>19, <1>20, <1>21, <1>21a,
       <1>22, <1>23, <1>24, <1>25, <1>26
       DEF Next, CompressStep, MainStep

\* The main thread is alone when it resets the compression.
LEMMA ExitStep ==
    ASSUME TypeOK, FileInv, LockInv, CurrentInv, ExitInv, Next
    PROVE  ExitInv'
  <1> USE DatasetAssumption, OptKept
         DEF dataset, fileVars, mainVars, Goto, Put, InCommand, TypeOK, FileInv,
             LockInv, ExitInv, NoneAbandoned, Counted, Stopped
  <1>1. ASSUME NEW w \in Workers, NEW f \in Files, SkipFile(w, f)
        PROVE  ExitInv'
    BY <1>1 DEF SkipFile
  <1>2. ASSUME NEW w \in Workers, NEW f \in Files, OpenFile(w, f)
        PROVE  ExitInv'
    BY <1>2 DEF OpenFile
  <1>3. ASSUME NEW w \in Workers, WriteBackup(w)
        PROVE  ExitInv'
    BY <1>3 DEF WriteBackup
  <1>4. ASSUME NEW w \in Workers, BackupFails(w)
        PROVE  ExitInv'
    BY <1>4 DEF BackupFails
  <1>5. ASSUME NEW w \in Workers, LockScope(w)
        PROVE  ExitInv'
    BY <1>5 DEF LockScope
  <1>6. ASSUME NEW w \in Workers, CallSetCompression(w)
        PROVE  ExitInv'
    BY <1>6 DEF CallSetCompression
  <1>7. ASSUME NEW w \in Workers, SetSucceeds(w)
        PROVE  ExitInv'
    BY <1>7 DEF SetSucceeds
  <1>8. ASSUME NEW w \in Workers, SetFails(w)
        PROVE  ExitInv'
    BY <1>8 DEF SetFails
  <1>9. ASSUME NEW w \in Workers, Truncate(w)
        PROVE  ExitInv'
    BY <1>9 DEF Truncate
  <1>10. ASSUME NEW w \in Workers, WriteFile(w)
        PROVE  ExitInv'
    BY <1>10 DEF WriteFile
  <1>11. ASSUME NEW w \in Workers, WriteFails(w)
        PROVE  ExitInv'
    BY <1>11 DEF WriteFails
  <1>12. ASSUME NEW w \in Workers, VerifyFile(w)
        PROVE  ExitInv'
    BY <1>12 DEF VerifyFile
  <1>13. ASSUME NEW w \in Workers, RewriteFile(w)
        PROVE  ExitInv'
    BY <1>13 DEF RewriteFile
  <1>14. ASSUME NEW w \in Workers, RewriteFails(w)
        PROVE  ExitInv'
    BY <1>14 DEF RewriteFails
  <1>15. ASSUME NEW w \in Workers, WriteLabel(w)
        PROVE  ExitInv'
    BY <1>15 DEF WriteLabel
  <1>16. ASSUME NEW w \in Workers, CallResetCompression(w)
        PROVE  ExitInv'
    BY <1>16 DEF CallResetCompression
  <1>17. ASSUME NEW w \in Workers, EnterReset(w)
        PROVE  ExitInv'
    BY <1>17 DEF EnterReset
  <1>18. ASSUME NEW w \in Workers, ResetEnds(w)
        PROVE  ExitInv'
    BY <1>18 DEF ResetEnds
  <1>19. ASSUME NEW w \in Workers, Bail(w)
        PROVE  ExitInv'
    BY <1>19 DEF Bail
  <1>20. ASSUME NEW w \in Workers, Cancel(w)
        PROVE  ExitInv'
    BY <1>20 DEF Cancel
  <1>21. ASSUME EndRun
        PROVE  ExitInv'
    BY <1>21 DEF EndRun
  <1>21a. ASSUME BreakOff
         PROVE  ExitInv'
    BY <1>21a DEF BreakOff
  <1>22. ASSUME MainCall
        PROVE  ExitInv'
    BY <1>22 DEF MainCall
  <1>23. ASSUME MainCommandEnds
        PROVE  ExitInv'
    BY <1>23 DEF MainCommandEnds
  <1>24. ASSUME OrphanEnds
        PROVE  ExitInv'
    BY <1>24 DEF OrphanEnds
  <1>25. ASSUME RequestQuit
        PROVE  ExitInv'
    BY <1>25 DEF RequestQuit
  <1>26. ASSUME Exited
        PROVE  ExitInv'
    BY <1>26 DEF Exited, vars
  <1> HIDE DEF dataset, fileVars, mainVars, Goto, Put, InCommand, TypeOK, FileInv,
             LockInv, ExitInv, NoneAbandoned, Counted, Stopped
  <1>27. QED
    BY <1>1, <1>2, <1>3, <1>4, <1>5, <1>6, <1>7, <1>8, <1>9, <1>10, <1>11, <1>12,
       <1>13, <1>14, <1>15, <1>16, <1>17, <1>18, <1>19, <1>20, <1>21, <1>21a,
       <1>22, <1>23, <1>24, <1>25, <1>26
       DEF Next, CompressStep, MainStep

\* A damaged file has its backup.
LEMMA BackupStep ==
    ASSUME TypeOK, FileInv, LockInv, BackupInv, Next
    PROVE  BackupInv'
  <1> USE DatasetAssumption, OptKept
         DEF dataset, fileVars, mainVars, Goto, Put, InCommand, Parallel, Exclusive,
             Quick, Backup, TypeOK, FileInv, BackupInv, FileKept, OwnKept, Active,
             Counted, Stopped, Opened, Locked, Resetting
  <1>1. ASSUME NEW w \in Workers, NEW f \in Files, SkipFile(w, f)
        PROVE  BackupInv'
    BY <1>1 DEF SkipFile
  <1>2. ASSUME NEW w \in Workers, NEW f \in Files, OpenFile(w, f)
        PROVE  BackupInv'
    BY <1>2 DEF OpenFile
  <1>3. ASSUME NEW w \in Workers, WriteBackup(w)
        PROVE  BackupInv'
    BY <1>3 DEF WriteBackup, Closes, ClosesUnflushed
  <1>4. ASSUME NEW w \in Workers, BackupFails(w)
        PROVE  BackupInv'
    BY <1>4 DEF BackupFails
  <1>5. ASSUME NEW w \in Workers, LockScope(w)
        PROVE  BackupInv'
    BY <1>5 DEF LockScope
  <1>6. ASSUME NEW w \in Workers, CallSetCompression(w)
        PROVE  BackupInv'
    BY <1>6 DEF CallSetCompression
  <1>7. ASSUME NEW w \in Workers, SetSucceeds(w)
        PROVE  BackupInv'
    BY <1>7 DEF SetSucceeds
  <1>8. ASSUME NEW w \in Workers, SetFails(w)
        PROVE  BackupInv'
    BY <1>8 DEF SetFails
  <1>9. ASSUME NEW w \in Workers, Truncate(w)
        PROVE  BackupInv'
    BY <1>9 DEF Truncate
  <1>10. ASSUME NEW w \in Workers, WriteFile(w)
        PROVE  BackupInv'
    BY <1>10 DEF WriteFile
  <1>11. ASSUME NEW w \in Workers, WriteFails(w)
        PROVE  BackupInv'
    <2> HIDE DEF TypeOK, FileInv, BackupInv, FileKept, OwnKept, Counted, Stopped, Opened, Locked,
                 Resetting, Backup
    <2> DEFINE g == file[w]
    <2>1. /\ pc[w] = "write" /\ pc' = [pc EXCEPT ![w] = "bail"]
          /\ UNCHANGED <<file, content, unflushed>>
          /\ outcome' = [outcome EXCEPT ![g] = "failed"]
          /\ Backup => backup' = [backup EXCEPT ![g] = "kept"]
      BY <1>11 DEF WriteFails
    <2>2. g \in Files
      BY <2>1 DEF FileInv
    <2>3. \A v \in Workers \ {w} : pc'[v] = pc[v] /\ (file[v] # g \/ pc[v] = "idle")
      BY <2>1, <2>2 DEF FileInv, TypeOK
    <2>4. pc'[w] = "bail"
      BY <2>1 DEF TypeOK
    <2>5. \A f \in Files \ {g} : outcome'[f] = outcome[f] /\ (Backup => backup'[f] = backup[f])
      BY <2>1 DEF TypeOK
    <2>6. outcome'[g] = "failed" /\ (Backup => backup'[g] = "kept")
      BY <2>1, <2>2 DEF TypeOK
    <2>7. \A v \in Workers : pc[v] = "idle" \/ file[v] \in Files
      BY DEF FileInv
    <2> HIDE DEF g
    <2> SUFFICES ASSUME Backup
                 PROVE  BackupInv'
      BY DEF BackupInv, Backup
    <2>8. ASSUME NEW f \in Files
          PROVE  FileKept(f)'
      <3>1. CASE f = g
        BY <3>1, <2>1, <2>6 DEF FileKept
      <3>2. CASE f # g
        <4>1. outcome'[f] = outcome[f] /\ backup'[f] = backup[f] /\ content'[f] = content[f]
          BY <3>2, <2>1, <2>5
        <4>2. \A v \in Workers : file[v] = f => v # w /\ pc'[v] = pc[v] /\ file'[v] = file[v]
          BY <3>2, <2>1, <2>3 DEF g
        <4>3. QED
          BY <2>1, <4>1, <4>2 DEF BackupInv, FileKept
      <3>3. QED
        BY <3>1, <3>2
    <2>9. ASSUME NEW v \in Workers
          PROVE  OwnKept(v)'
      <3>1. CASE v = w
        BY <3>1, <2>1, <2>4, <2>6 DEF g, OwnKept, Opened, Locked, Counted
      <3>2. CASE v # w /\ pc[v] # "idle"
        <4>1. /\ pc'[v] = pc[v] /\ file'[v] = file[v] /\ content'[file'[v]] = content[file[v]]
              /\ outcome'[file'[v]] = outcome[file[v]] /\ backup'[file'[v]] = backup[file[v]]
          BY <3>2, <2>1, <2>3, <2>5, <2>7
        <4>2. QED
          BY <2>1, <4>1 DEF BackupInv, OwnKept
      <3>3. CASE v # w /\ pc[v] = "idle"
        BY <3>3, <2>3 DEF OwnKept, Opened, Locked, Counted
      <3>4. QED
        BY <3>1, <3>2, <3>3
    <2>10. QED
      BY <2>8, <2>9 DEF BackupInv
  <1>12. ASSUME NEW w \in Workers, VerifyFile(w)
        PROVE  BackupInv'
    <2>1. PICK to \in {"label", "rewrite"} :
            /\ pc[w] = "verify" /\ pc' = [pc EXCEPT ![w] = to]
            /\ to = "label" => content[file[w]] = "whole"
      BY <1>12 DEF VerifyFile
    <2>2. UNCHANGED <<file, content, backup, outcome, unflushed>>
      BY <1>12 DEF VerifyFile
    <2> HIDE DEF TypeOK, FileInv, BackupInv, FileKept, OwnKept, Counted, Stopped, Opened, Locked,
                 Resetting, Backup
    <2>3. \A v \in Workers : pc'[v] = IF v = w THEN to ELSE pc[v]
      BY <2>1 DEF TypeOK
    <2>4. ASSUME NEW f \in Files, FileKept(f)
          PROVE  FileKept(f)'
      <3>1. pc[w] \in {"write", "verify", "rewrite"} /\ file[w] = f /\ content[f] = "damaged"
              => to = "rewrite"
        BY <2>1
      <3>2. QED
        BY <2>2, <2>3, <2>4, <3>1 DEF FileKept
    <2>5. ASSUME NEW v \in Workers, OwnKept(v)
          PROVE  OwnKept(v)'
      BY <2>1, <2>2, <2>3, <2>5 DEF OwnKept, Opened, Locked, Counted
    <2>6. QED
      BY <2>4, <2>5 DEF BackupInv, Backup
  <1>13. ASSUME NEW w \in Workers, RewriteFile(w)
        PROVE  BackupInv'
    BY <1>13 DEF RewriteFile, Closes, ClosesUnflushed
  <1>14. ASSUME NEW w \in Workers, RewriteFails(w)
        PROVE  BackupInv'
    BY <1>14 DEF RewriteFails
  <1>15. ASSUME NEW w \in Workers, WriteLabel(w)
        PROVE  BackupInv'
    BY <1>15 DEF WriteLabel
  <1>16. ASSUME NEW w \in Workers, CallResetCompression(w)
        PROVE  BackupInv'
    BY <1>16 DEF CallResetCompression
  <1>17. ASSUME NEW w \in Workers, EnterReset(w)
        PROVE  BackupInv'
    BY <1>17 DEF EnterReset
  <1>18. ASSUME NEW w \in Workers, ResetEnds(w)
        PROVE  BackupInv'
    BY <1>18 DEF ResetEnds
  <1>19. ASSUME NEW w \in Workers, Bail(w)
        PROVE  BackupInv'
    BY <1>19 DEF Bail
  <1>20. ASSUME NEW w \in Workers, Cancel(w)
        PROVE  BackupInv'
    BY <1>20 DEF Cancel
  <1>21. ASSUME EndRun
        PROVE  BackupInv'
    BY <1>21 DEF EndRun
  <1>21a. ASSUME BreakOff
         PROVE  BackupInv'
    BY <1>21a DEF BreakOff
  <1>22. ASSUME MainCall
        PROVE  BackupInv'
    BY <1>22 DEF MainCall
  <1>23. ASSUME MainCommandEnds
        PROVE  BackupInv'
    BY <1>23 DEF MainCommandEnds
  <1>24. ASSUME OrphanEnds
        PROVE  BackupInv'
    BY <1>24 DEF OrphanEnds
  <1>25. ASSUME RequestQuit
        PROVE  BackupInv'
    BY <1>25 DEF RequestQuit
  <1>26. ASSUME Exited
        PROVE  BackupInv'
    BY <1>26 DEF Exited, vars
  <1> HIDE DEF dataset, fileVars, mainVars, Goto, Put, InCommand, Parallel, Exclusive,
             Quick, Backup, TypeOK, FileInv, BackupInv, FileKept, OwnKept, Active,
             Counted, Stopped, Opened, Locked, Resetting
  <1>27. QED
    BY <1>1, <1>2, <1>3, <1>4, <1>5, <1>6, <1>7, <1>8, <1>9, <1>10, <1>11, <1>12,
       <1>13, <1>14, <1>15, <1>16, <1>17, <1>18, <1>19, <1>20, <1>21, <1>21a,
       <1>22, <1>23, <1>24, <1>25, <1>26
       DEF Next, CompressStep, MainStep
-----------------------------------------------------------------------------
(* The reference count.                                                     *)

\* A step of worker w with file f changes the count by what changes among the files
\* that it counts.
CountsChange(w, f) ==
    /\ SameBut(Workers, pc, pc', w)
    /\ SameBut(Files, outcome, outcome', f) /\ SameBut(Files, label, label', f)
    /\ main' = "run" =>
         /\ main = "run"
         /\ refcount' = refcount + One(pc'[w] \in Counted) - One(pc[w] \in Counted)
              + One(outcome'[f] \in {"failed"}) - One(outcome[f] \in {"failed"})
              + IF Quick THEN 0 ELSE One(label'[f] \in {"new"}) - One(label[f] \in {"new"})

LEMMA CountChange ==
    ASSUME RefcountExact, opt' = opt, NEW w \in Workers, NEW f \in Files, CountsChange(w, f)
    PROVE  RefcountExact'
  <1> USE DatasetAssumption
  <1> DEFINE counted(p) == Cardinality(At(Workers, p, Counted))
             failures(o) == Cardinality(At(Files, o, {"failed"}))
             labels(l) == Cardinality(At(Files, l, {"new"}))
  <1>1. IsFiniteSet(Workers) /\ IsFiniteSet(Files)
    OBVIOUS
  <1>2. counted(pc') = counted(pc) + One(pc'[w] \in Counted) - One(pc[w] \in Counted)
    BY <1>1, AtChange DEF CountsChange
  <1>3. failures(outcome')
          = failures(outcome) + One(outcome'[f] \in {"failed"}) - One(outcome[f] \in {"failed"})
    BY <1>1, AtChange DEF CountsChange
  <1>4. labels(label') = labels(label) + One(label'[f] \in {"new"}) - One(label[f] \in {"new"})
    BY <1>1, AtChange DEF CountsChange
  <1>5. counted(pc) \in Nat /\ failures(outcome) \in Nat /\ labels(label) \in Nat
    BY <1>1, AtFinite
  <1>6. \A g : g \in {"new"} <=> g = "new"
    OBVIOUS
  <1>7. main = "run" =>
          refcount = counted(pc) + failures(outcome) + IF Quick THEN 0 ELSE labels(label)
    BY <1>6 DEF RefcountExact, At, WithOutcome
  <1>8. Quick' = Quick /\ \A p : One(p) \in Int
    BY DEF Quick, One
  <1>9. (main' = "run" =>
           refcount' = counted(pc') + failures(outcome') + IF Quick' THEN 0 ELSE labels(label'))
          => RefcountExact'
    BY <1>6 DEF RefcountExact, At, WithOutcome
  <1> HIDE DEF counted, failures, labels
  <1>10. QED
    BY <1>2, <1>3, <1>4, <1>5, <1>7, <1>8, <1>9 DEF CountsChange

\* The count is exact after every step.
LEMMA CountStep ==
    ASSUME TypeOK, FileInv, LockInv, RefcountExact, Next
    PROVE  RefcountExact'
  <1> USE DatasetAssumption, OptKept
         DEF dataset, fileVars, mainVars, Goto, Put, InCommand, Quick, TypeOK, FileInv,
             LockInv, Counted, Stopped, Opened, Resetting, One, SameBut
  <1>1. ASSUME NEW w \in Workers, NEW f \in Files, SkipFile(w, f)
        PROVE  RefcountExact'
    <2>1. CountsChange(w, f)
      BY <1>1 DEF CountsChange, SkipFile
    <2>2. QED
      BY <2>1, CountChange
  <1>2. ASSUME NEW w \in Workers, NEW f \in Files, OpenFile(w, f)
        PROVE  RefcountExact'
    <2>1. CountsChange(w, f)
      BY <1>2 DEF CountsChange, OpenFile
    <2>2. QED
      BY <2>1, CountChange
  <1>3. ASSUME NEW w \in Workers, WriteBackup(w)
        PROVE  RefcountExact'
    <2>1. file[w] \in Files /\ CountsChange(w, file[w])
      BY <1>3 DEF CountsChange, WriteBackup
    <2>2. QED
      BY <2>1, CountChange
  <1>4. ASSUME NEW w \in Workers, BackupFails(w)
        PROVE  RefcountExact'
    <2>1. file[w] \in Files /\ CountsChange(w, file[w])
      BY <1>4 DEF CountsChange, BackupFails
    <2>2. QED
      BY <2>1, CountChange
  <1>5. ASSUME NEW w \in Workers, LockScope(w)
        PROVE  RefcountExact'
    <2>1. file[w] \in Files /\ CountsChange(w, file[w])
      BY <1>5 DEF CountsChange, LockScope
    <2>2. QED
      BY <2>1, CountChange
  <1>6. ASSUME NEW w \in Workers, CallSetCompression(w)
        PROVE  RefcountExact'
    <2>1. file[w] \in Files /\ CountsChange(w, file[w])
      BY <1>6 DEF CountsChange, CallSetCompression
    <2>2. QED
      BY <2>1, CountChange
  <1>7. ASSUME NEW w \in Workers, SetSucceeds(w)
        PROVE  RefcountExact'
    <2>1. file[w] \in Files /\ CountsChange(w, file[w])
      BY <1>7 DEF CountsChange, SetSucceeds
    <2>2. QED
      BY <2>1, CountChange
  <1>8. ASSUME NEW w \in Workers, SetFails(w)
        PROVE  RefcountExact'
    <2>1. file[w] \in Files /\ CountsChange(w, file[w])
      BY <1>8 DEF CountsChange, SetFails
    <2>2. QED
      BY <2>1, CountChange
  <1>9. ASSUME NEW w \in Workers, Truncate(w)
        PROVE  RefcountExact'
    <2>1. file[w] \in Files /\ CountsChange(w, file[w])
      BY <1>9 DEF CountsChange, Truncate
    <2>2. QED
      BY <2>1, CountChange
  <1>10. ASSUME NEW w \in Workers, WriteFile(w)
        PROVE  RefcountExact'
    <2>1. file[w] \in Files /\ CountsChange(w, file[w])
      BY <1>10 DEF CountsChange, WriteFile
    <2>2. QED
      BY <2>1, CountChange
  <1>11. ASSUME NEW w \in Workers, WriteFails(w)
        PROVE  RefcountExact'
    <2>1. file[w] \in Files /\ CountsChange(w, file[w])
      BY <1>11 DEF CountsChange, WriteFails
    <2>2. QED
      BY <2>1, CountChange
  <1>12. ASSUME NEW w \in Workers, VerifyFile(w)
        PROVE  RefcountExact'
    <2>1. file[w] \in Files /\ CountsChange(w, file[w])
      BY <1>12 DEF CountsChange, VerifyFile
    <2>2. QED
      BY <2>1, CountChange
  <1>13. ASSUME NEW w \in Workers, RewriteFile(w)
        PROVE  RefcountExact'
    <2>1. file[w] \in Files /\ CountsChange(w, file[w])
      BY <1>13 DEF CountsChange, RewriteFile
    <2>2. QED
      BY <2>1, CountChange
  <1>14. ASSUME NEW w \in Workers, RewriteFails(w)
        PROVE  RefcountExact'
    <2>1. file[w] \in Files /\ CountsChange(w, file[w])
      BY <1>14 DEF CountsChange, RewriteFails
    <2>2. QED
      BY <2>1, CountChange
  <1>15. ASSUME NEW w \in Workers, WriteLabel(w)
        PROVE  RefcountExact'
    <2>1. file[w] \in Files /\ CountsChange(w, file[w])
      BY <1>15 DEF CountsChange, WriteLabel
    <2>2. QED
      BY <2>1, CountChange
  <1>16. ASSUME NEW w \in Workers, CallResetCompression(w)
        PROVE  RefcountExact'
    <2>1. file[w] \in Files /\ CountsChange(w, file[w])
      BY <1>16 DEF CountsChange, CallResetCompression
    <2>2. QED
      BY <2>1, CountChange
  <1>17. ASSUME NEW w \in Workers, EnterReset(w)
        PROVE  RefcountExact'
    <2>1. file[w] \in Files /\ CountsChange(w, file[w])
      BY <1>17 DEF CountsChange, EnterReset
    <2>2. QED
      BY <2>1, CountChange
  <1>18. ASSUME NEW w \in Workers, ResetEnds(w)
        PROVE  RefcountExact'
    <2>1. file[w] \in Files /\ CountsChange(w, file[w])
      BY <1>18 DEF CountsChange, ResetEnds
    <2>2. QED
      BY <2>1, CountChange
  <1>19. ASSUME NEW w \in Workers, Bail(w)
        PROVE  RefcountExact'
    <2>1. file[w] \in Files /\ CountsChange(w, file[w])
      BY <1>19 DEF CountsChange, Bail
    <2>2. QED
      BY <2>1, CountChange
  <1>20. ASSUME NEW w \in Workers, Cancel(w)
        PROVE  RefcountExact'
    <2>1. file[w] \in Files /\ CountsChange(w, file[w])
      BY <1>20 DEF CountsChange, Cancel
    <2>2. QED
      BY <2>1, CountChange
  <1>21. ASSUME EndRun
        PROVE  RefcountExact'
    BY <1>21 DEF EndRun, RefcountExact, WithOutcome
  <1>21a. ASSUME BreakOff
         PROVE  RefcountExact'
    BY <1>21a DEF BreakOff, RefcountExact, WithOutcome
  <1>22. ASSUME MainCall
        PROVE  RefcountExact'
    BY <1>22 DEF MainCall, RefcountExact, WithOutcome
  <1>23. ASSUME MainCommandEnds
        PROVE  RefcountExact'
    BY <1>23 DEF MainCommandEnds, RefcountExact, WithOutcome
  <1>24. ASSUME OrphanEnds
        PROVE  RefcountExact'
    BY <1>24 DEF OrphanEnds, RefcountExact, WithOutcome
  <1>25. ASSUME RequestQuit
        PROVE  RefcountExact'
    BY <1>25 DEF RequestQuit, RefcountExact, WithOutcome
  <1>26. ASSUME Exited
        PROVE  RefcountExact'
    BY <1>26 DEF Exited, vars, RefcountExact, WithOutcome
  <1> HIDE DEF dataset, fileVars, mainVars, Goto, Put, InCommand, Quick, TypeOK, FileInv,
             LockInv, Counted, Stopped, Opened, Resetting, One, SameBut
  <1>27. QED
    BY <1>1, <1>2, <1>3, <1>4, <1>5, <1>6, <1>7, <1>8, <1>9, <1>10, <1>11, <1>12,
       <1>13, <1>14, <1>15, <1>16, <1>17, <1>18, <1>19, <1>20, <1>21, <1>21a,
       <1>22, <1>23, <1>24, <1>25, <1>26
       DEF Next, CompressStep, MainStep

\* The files that count are as many as the workers that rewrite them, those that
\* failed and those in L, and no file counts twice.
LEMMA CountBound ==
    ASSUME NEW p, NEW h, NEW o, NEW L \in SUBSET Files,
           \A w \in Workers : p[w] \in Counted
             => h[w] \in Files /\ o[h[w]] = "busy" /\ h[w] \notin L,
           \A v, w \in Workers : p[v] \in Counted /\ p[w] \in Counted /\ h[v] = h[w] => v = w,
           \A f \in L : o[f] \in {"busy", "done"}
    PROVE  Cardinality(At(Workers, p, Counted)) + Cardinality(At(Files, o, {"failed"}))
             + Cardinality(L) <= Cardinality(Files)
  <1> USE DatasetAssumption
  <1> DEFINE C == At(Workers, p, Counted)
             D == {h[w] : w \in C}
             B == At(Files, o, {"failed"})
  <1>1. IsFiniteSet(C)
    BY AtFinite
  <1>2. \A w \in C : w \in Workers /\ p[w] \in Counted
    BY DEF At
  <1>3. \A v, w \in C : h[v] = h[w] => v = w
    BY <1>2
  <1>4. D \in SUBSET Files /\ \A f \in D : o[f] = "busy" /\ f \notin L
    BY <1>2
  <1>5. B \in SUBSET Files /\ \A f \in B : o[f] = "failed"
    BY DEF At
  <1> HIDE DEF C, B
  <1>6. IsFiniteSet(D) /\ Cardinality(D) = Cardinality(C)
    BY <1>1, <1>3, InjectiveImage
  <1> HIDE DEF D
  <1>7. D \cap B = {} /\ (D \cup B) \cap L = {}
    BY <1>4, <1>5
  <1>8. Cardinality(D) + Cardinality(B) + Cardinality(L) <= Cardinality(Files)
    BY <1>4, <1>5, <1>7, DisjointParts
  <1>9. QED
    BY <1>6, <1>8 DEF C, B

\* It never exceeds the number of files.
LEMMA CountRange ==
    FileInv /\ LockInv /\ RefcountExact
      => (main = "run" => refcount \in 0 .. Cardinality(Files))
  <1> USE DatasetAssumption
  <1> SUFFICES ASSUME FileInv, LockInv, RefcountExact, main = "run"
               PROVE  refcount \in 0 .. Cardinality(Files)
    OBVIOUS
  <1> DEFINE new == IF Quick THEN {} ELSE {f \in Files : label[f] = "new"}
  <1>1. new \in SUBSET Files /\ \A f \in new : label[f] = "new" /\ ~Quick
    OBVIOUS
  <1>2. Cardinality(new) = IF Quick THEN 0 ELSE Cardinality({f \in Files : label[f] = "new"})
    BY FS_EmptySet
  <1>3. refcount = Cardinality(At(Workers, pc, Counted))
                     + Cardinality(At(Files, outcome, {"failed"})) + Cardinality(new)
    BY <1>2 DEF RefcountExact, WithOutcome, At
  <1> HIDE DEF new
  <1>4. \A w \in Workers : pc[w] \in Counted =>
          file[w] \in Files /\ outcome[file[w]] = "busy" /\ file[w] \notin new
    BY <1>1 DEF FileInv, LockInv, Counted, Stopped, Opened, Resetting
  <1>5. \A v, w \in Workers :
          pc[v] \in Counted /\ pc[w] \in Counted /\ file[v] = file[w] => v = w
    BY DEF FileInv, Counted
  <1>6. \A f \in new : outcome[f] \in {"busy", "done"}
    BY <1>1 DEF FileInv
  <1>7. Cardinality(At(Workers, pc, Counted)) + Cardinality(At(Files, outcome, {"failed"}))
          + Cardinality(new) <= Cardinality(Files)
    BY <1>1, <1>4, <1>5, <1>6, CountBound
  <1>8. /\ Cardinality(At(Workers, pc, Counted)) \in Nat
        /\ Cardinality(At(Files, outcome, {"failed"})) \in Nat
        /\ Cardinality(new) \in Nat /\ Cardinality(Files) \in Nat
    BY <1>1, AtFinite, FS_Subset, FS_CardinalityType
  <1>9. QED
    BY <1>3, <1>7, <1>8
-----------------------------------------------------------------------------
(* Types, given the invariant before the step and what holds after it.      *)

LEMMA TypeStep ==
    ASSUME TypeOK, FileInv, FileInv', LockInv, LockInv', RefcountExact, RefcountExact', Next
    PROVE  TypeOK'
  <1> USE DatasetAssumption
  <1>1. opt' = opt
    BY OptKept
  <1>2. \A w \in Workers : pc[w] \in {"set", "setting"} => file[w] \in Files
    BY DEF FileInv
  <1>2a. \A w \in Workers : pc[w] \in {"backup", "rewrite"} => file[w] \in Files
    BY DEF FileInv
  <1>3. main # "run" => \A w \in Workers : pc[w] \in Stopped \cup {"idle"}
    BY DEF FileInv
  <1>4. Next
    OBVIOUS
  <1> USE DEF Next, CompressStep, MainStep, SkipFile, OpenFile, WriteBackup,
             BackupFails, LockScope, CallSetCompression, SetSucceeds, SetFails,
             Truncate, WriteFile, WriteFails, VerifyFile, RewriteFile, RewriteFails,
             WriteLabel, CallResetCompression, EnterReset, ResetEnds, Bail, Cancel,
             EndRun, BreakOff, MainCall, MainCommandEnds, OrphanEnds, RequestQuit, Exited,
             vars, dataset, fileVars, mainVars, Goto, Put, InCommand
  <1>5. ASSUME orphan \in Codecs \cup {"none"}
        PROVE  orphan' \in Codecs \cup {"none"}
    BY <1>4, <1>5, ZenonT(60) DEF Codecs, InCommand
  <1>6. ASSUME property \in Codecs,
               orphan \in Codecs \cup {"none"}
        PROVE  property' \in Codecs
    BY <1>4, <1>6, ZenonT(60) DEF Codecs
  <1>7. ASSUME current \in Codecs
        PROVE  current' \in Codecs
    BY <1>4, <1>7, ZenonT(60) DEF Codecs
  <1>8. ASSUME readOnly \in BOOLEAN
        PROVE  readOnly' \in BOOLEAN
    BY <1>4, <1>8, ZenonT(60)
  <1>9. ASSUME quit \in BOOLEAN
        PROVE  quit' \in BOOLEAN
    BY <1>4, <1>9, ZenonT(60)
  <1>10. ASSUME failedResets \subseteq {"worker", "main"}
        PROVE  failedResets' \subseteq {"worker", "main"}
    BY <1>4, <1>10, ZenonT(60)
  <1>11. ASSUME critsect \in Workers \cup {Main, Nobody}
        PROVE  critsect' \in Workers \cup {Main, Nobody}
    BY <1>4, <1>11, ZenonT(60)
  <1>12. ASSUME ioLock \in Workers \cup {Nobody}
        PROVE  ioLock' \in Workers \cup {Nobody}
    BY <1>4, <1>12, ZenonT(60)
  <1>13. ASSUME file \in [Workers -> Files \cup {NoFile}]
        PROVE  file' \in [Workers -> Files \cup {NoFile}]
    BY <1>4, <1>13, ZenonT(60)
  <1>14. ASSUME content \in [Files -> {"whole", "damaged"}]
        PROVE  content' \in [Files -> {"whole", "damaged"}]
    BY <1>4, <1>14, ZenonT(60) DEF Closes, ClosesUnflushed
  <1>15. ASSUME written \in [Files -> Codecs \cup {"before"}],
               property \in Codecs
        PROVE  written' \in [Files -> Codecs \cup {"before"}]
    BY <1>4, <1>15, ZenonT(60)
  <1>16. ASSUME label \in [Files -> {"none", "new"}]
        PROVE  label' \in [Files -> {"none", "new"}]
    BY <1>4, <1>16, ZenonT(60)
  <1>17. ASSUME backup \in [Files -> {"none", "own", "kept"}]
        PROVE  backup' \in [Files -> {"none", "own", "kept"}]
    BY <1>4, <1>17, ZenonT(60)
  <1>18. ASSUME outcome \in [Files -> {"todo", "busy", "skipped", "failed", "done"}]
        PROVE  outcome' \in [Files -> {"todo", "busy", "skipped", "failed", "done"}]
    BY <1>4, <1>18, ZenonT(60)
  <1>19. ASSUME refused \subseteq Files,
               \A w \in Workers : pc[w] \in {"set", "setting"} => file[w] \in Files
        PROVE  refused' \subseteq Files
    BY <1>4, <1>19, ZenonT(60)
  <1>19a. ASSUME unflushed \subseteq Files,
                 \A w \in Workers : pc[w] \in {"backup", "rewrite"} => file[w] \in Files
          PROVE  unflushed' \subseteq Files
    BY <1>4, <1>19a, ZenonT(60) DEF Closes, ClosesUnflushed
  <1>20. ASSUME main \in {"run", "empty", "emptying", "delete", "deleting", "exited", "brokenOff"}
        PROVE  main' \in {"run", "empty", "emptying", "delete", "deleting", "exited", "brokenOff"}
    BY <1>4, <1>20, ZenonT(60)
  <1>21. pc' = pc \/ \E w \in Workers : \E to \in Pcs : pc' = [pc EXCEPT ![w] = to]
    BY <1>4, ZenonT(60) DEF Pcs, Counted, Stopped
  <1>22. ASSUME main # "run" => \A w \in Workers : pc[w] \in Stopped \cup {"idle"}
        PROVE  main' # "run" =>
                 \/ main # "run" /\ refcount' = refcount
                 \/ main = "run" /\ refcount' \in {refcount, refcount - 1}
    BY <1>4, <1>22, ZenonT(60) DEF Stopped, Counted
  <1> HIDE DEF Next, CompressStep, MainStep, SkipFile, OpenFile, WriteBackup,
             BackupFails, LockScope, CallSetCompression, SetSucceeds, SetFails,
             Truncate, WriteFile, WriteFails, VerifyFile, RewriteFile, RewriteFails,
             WriteLabel, CallResetCompression, EnterReset, ResetEnds, Bail, Cancel,
             EndRun, BreakOff, MainCall, MainCommandEnds, OrphanEnds, RequestQuit, Exited,
             vars, dataset, fileVars, mainVars, Goto, Put, InCommand
  <1>23. (main = "run" => refcount \in 0 .. Cardinality(Files))
          /\ (main' = "run" => refcount' \in 0 .. Cardinality(Files))
    <2>1. (FileInv /\ LockInv /\ RefcountExact
             => (main = "run" => refcount \in 0 .. Cardinality(Files)))'
      BY CountRange, PTL
    <2>2. QED
      BY <2>1, CountRange
  <1>24. refcount' \in -1 .. Cardinality(Files)
    <2>1. Cardinality(Files) \in Nat
      BY FS_CardinalityType
    <2>2. refcount \in -1 .. Cardinality(Files)
      BY DEF TypeOK
    <2>3. QED
      BY <1>3, <1>22, <1>23, <2>1, <2>2
  <1>25. QED
    BY <1>1, <1>2, <1>2a, <1>5, <1>6, <1>7, <1>8, <1>9, <1>10, <1>11, <1>12, <1>13,
       <1>14, <1>15, <1>16, <1>17, <1>18, <1>19, <1>19a, <1>20, <1>21, <1>24
       DEF TypeOK, Pcs
-----------------------------------------------------------------------------
(* The invariant.                                                           *)

LEMMA Stutter ==
    ASSUME UNCHANGED vars
    PROVE  DatasetInv' = DatasetInv
  <1>1. UNCHANGED <<property, current, refcount, readOnly, critsect, orphan, ioLock, pc, file,
                    content, written, label, backup, outcome, refused, unflushed,
                    quit, main,
                    failedResets, opt>>
    BY DEF vars, dataset, fileVars, mainVars
  <1>2. /\ UNCHANGED <<Parallel, Exclusive, Quick, Backup>>
        /\ Active' = Active /\ NoneAbandoned' = NoneAbandoned
        /\ ResetsUnderWay' = ResetsUnderWay
        /\ \A w : InCommand(w)' = InCommand(w)
        /\ \A f : FileKept(f)' = FileKept(f)
        /\ \A w : OwnKept(w)' = OwnKept(w)
        /\ \A e : WithOutcome(e)' = WithOutcome(e)
    BY <1>1 DEF Parallel, Exclusive, Quick, Backup, Active, NoneAbandoned, ResetsUnderWay,
                InCommand, FileKept, OwnKept, WithOutcome
  <1>3. TypeOK' = TypeOK
    BY <1>1, <1>2, Zenon DEF TypeOK
  <1>4. FileInv' = FileInv
    BY <1>1, <1>2, Zenon DEF FileInv
  <1>5. LockInv' = LockInv
    BY <1>1, <1>2, Zenon DEF LockInv
  <1>6. CurrentInv' = CurrentInv
    BY <1>1, <1>2, Zenon DEF CurrentInv
  <1>7. RefcountExact' = RefcountExact
    BY <1>1, <1>2, Zenon DEF RefcountExact
  <1>8. HeldInv' = HeldInv
    BY <1>1, <1>2, Zenon DEF HeldInv
  <1>9. LabelTruthful' = LabelTruthful
    BY <1>1, <1>2, Zenon DEF LabelTruthful
  <1>10. IdleInv' = IdleInv
    BY <1>1, <1>2, Zenon DEF IdleInv
  <1>11. ExitInv' = ExitInv
    BY <1>1, <1>2, Zenon DEF ExitInv
  <1>12. BackupInv' = BackupInv
    BY <1>1, <1>2, Zenon DEF BackupInv
  <1>13. QED
    BY <1>3, <1>4, <1>5, <1>6, <1>7, <1>8, <1>9, <1>10, <1>11, <1>12, Zenon DEF DatasetInv

LEMMA DatasetInit == Init => DatasetInv
  <1> SUFFICES ASSUME Init
               PROVE  DatasetInv
    OBVIOUS
  <1> USE DatasetAssumption
  <1>1. TypeOK
    <2>1. Cardinality(Files) \in Nat
      BY FS_CardinalityType
    <2>2. readOnly \in BOOLEAN /\ quit \in BOOLEAN
      BY Zenon DEF Init
    <2>3. QED
      BY <2>1, <2>2 DEF Init, TypeOK, Codecs, Counted, Stopped
  <1>2. FileInv
    BY DEF Init, FileInv, Opened, Counted, Stopped
  <1>3. LockInv
    BY DEF Init, LockInv, InCommand, Locked, Resetting, Counted, Main, Nobody
  <1>4. CurrentInv
    BY DEF Init, CurrentInv
  <1>5. RefcountExact
    <2>1. /\ {w \in Workers : pc[w] \in Counted} = {}
          /\ WithOutcome({"failed"}) = {}
          /\ {f \in Files : label[f] = "new"} = {}
      BY DEF Init, Counted, WithOutcome
    <2>2. Cardinality({w \in Workers : pc[w] \in Counted}) = 0
      BY <2>1, FS_EmptySet, Zenon
    <2>3. Cardinality(WithOutcome({"failed"})) = 0
      BY <2>1, FS_EmptySet, Zenon
    <2>4. Cardinality({f \in Files : label[f] = "new"}) = 0
      BY <2>1, FS_EmptySet, Zenon
    <2>5. refcount = 0
      BY DEF Init
    <2>6. QED
      BY <2>2, <2>3, <2>4, <2>5 DEF RefcountExact
  <1>6. HeldInv
    BY DEF Init, HeldInv, Counted
  <1>7. LabelTruthful
    BY DEF Init, LabelTruthful
  <1>8. IdleInv
    BY DEF Init, IdleInv
  <1>9. ExitInv
    BY DEF Init, ExitInv
  <1>10. BackupInv
    BY DEF Init, BackupInv, FileKept, OwnKept, Opened, Locked, Counted
  <1>11. QED
    BY <1>1, <1>2, <1>3, <1>4, <1>5, <1>6, <1>7, <1>8, <1>9, <1>10 DEF DatasetInv

LEMMA DatasetNext ==
    ASSUME DatasetInv, Next
    PROVE  DatasetInv'
  <1>1. /\ TypeOK /\ FileInv /\ LockInv /\ CurrentInv /\ RefcountExact
        /\ HeldInv /\ LabelTruthful /\ IdleInv /\ ExitInv /\ BackupInv
    BY DEF DatasetInv
  <1>2. FileInv'
    BY <1>1, FileStep
  <1>3. LockInv'
    BY <1>1, LockStep
  <1>4. CurrentInv'
    BY <1>1, CurrentStep
  <1>5. RefcountExact'
    BY <1>1, CountStep
  <1>6. HeldInv'
    BY <1>1, HeldStep
  <1>7. LabelTruthful'
    BY <1>1, LabelStep
  <1>8. IdleInv'
    BY <1>1, IdleStep
  <1>9. ExitInv'
    BY <1>1, ExitStep
  <1>10. BackupInv'
    BY <1>1, BackupStep
  <1>11. TypeOK'
    BY <1>1, <1>2, <1>3, <1>5, TypeStep
  <1>12. QED
    BY <1>2, <1>3, <1>4, <1>5, <1>6, <1>7, <1>8, <1>9, <1>10, <1>11 DEF DatasetInv

LEMMA DatasetInvariant == Spec => []DatasetInv
  <1>1. DatasetInv /\ [Next]_vars => DatasetInv'
    BY DatasetNext, Stutter
  <1>2. QED
    BY <1>1, DatasetInit, PTL DEF Spec
-----------------------------------------------------------------------------
(* The theorems.                                                            *)

\* Every variable of the model keeps its type; in particular the reference count
\* (zfsctool.cpp:478-519) stays between -1, after the extra decrement of
\* EmptyFSIdMap(), and the number of files.
THEOREM TypeCorrect == Spec => []TypeOK
  <1>1. DatasetInv => TypeOK
    BY DEF DatasetInv
  <1>2. QED
    BY <1>1, DatasetInvariant, PTL

\* The reference count that setCompression() and resetCompression() keep is the
\* number of files being rewritten and of those that are never given back
\* (zfsctool.cpp:478-519).
THEOREM CountIsExact == Spec => []RefcountExact
  <1>1. DatasetInv => RefcountExact
    BY DEF DatasetInv
  <1>2. QED
    BY <1>1, DatasetInvariant, PTL

\* currentCompression is what `zfs set` left, as long as no worker was cancelled
\* while it waited for a command (zfsctool.cpp:589-645).
THEOREM BeliefIsTrue == Spec => []CurrentIsProperty
  <1>1. DatasetInv => CurrentIsProperty
    BY DEF DatasetInv, CurrentInv, CurrentIsProperty
  <1>2. QED
    BY <1>1, DatasetInvariant, PTL

\* With -jN, without threads and with -q, no file is rewritten under another
\* compression than the one asked for, unless setCompression() failed for it or a
\* worker was cancelled in a command (zfsctool.cpp:478-484, 1066-1072).
THEOREM CompressionIsHeld == Spec => []CompressionHeld
  <1>1. DatasetInv => CompressionHeld
    BY DEF DatasetInv, CurrentInv, HeldInv, CompressionHeld, Rewriting, Counted
  <1>2. QED
    BY <1>1, DatasetInvariant, PTL

\* A file whose attribute says that it has the new compression has been rewritten
\* under it, with the same exceptions, so that a later run is right to skip it
\* (zfsctool.cpp:774-790, 1198-1218).
THEOREM LabelIsTrue == Spec => []LabelTruthful
  <1>1. DatasetInv => LabelTruthful
    BY DEF DatasetInv
  <1>2. QED
    BY <1>1, DatasetInvariant, PTL

\* When no file is being rewritten the compression has been reset, with -JN too,
\* unless a rewrite or a reset failed or a command was abandoned
\* (zfsctool.cpp:481-519).
THEOREM IdleIsReset == Spec => []ResetWhenIdle
  <1>1. DatasetInv => ResetWhenIdle
    <2> SUFFICES ASSUME DatasetInv, Quick, failedResets = {}, NoneAbandoned,
                        WithOutcome({"failed"}) = {},
                        \A w \in Workers : pc[w] \notin Counted \cup {"resetCall", "resetting"},
                        property # "initial"
                 PROVE  FALSE
      BY DEF ResetWhenIdle
    <2>1. current # "initial"
      BY DEF DatasetInv, CurrentInv
    <2>2. \A f \in Files : outcome[f] # "failed"
      BY DEF WithOutcome
    <2>3. QED
      BY <2>1, <2>2 DEF DatasetInv, IdleInv, Resetting, Counted
  <1>2. QED
    BY <1>1, DatasetInvariant, PTL

\* The program exits with the dataset's compression as it found it, unless the command
\* that restores it failed or a command was abandoned; and so it does when it returns
\* from the loop over the arguments, if it has restored it after each file
\* (zfsctool.cpp:467-471, 666-682, 1764-1775).
THEOREM ExitRestores == Spec => []RestoredAtExit
  <1>1. DatasetInv => RestoredAtExit
    <2> SUFFICES ASSUME DatasetInv, main \in {"exited", "brokenOff"},
                        "main" \notin failedResets, NoneAbandoned, property # "initial"
                 PROVE  /\ main = "brokenOff"
                        /\ ~Quick \/ "worker" \in failedResets \/ WithOutcome({"failed"}) # {}
      BY DEF RestoredAtExit
    <2>1. current # "initial" /\ main = "brokenOff"
      BY DEF DatasetInv, CurrentInv, ExitInv
    <2>2. \A w \in Workers : pc[w] \in Stopped \cup {"idle"}
      BY <2>1 DEF DatasetInv, FileInv
    <2>3. SUFFICES ASSUME Quick, "worker" \notin failedResets, WithOutcome({"failed"}) = {}
                   PROVE  FALSE
      BY <2>1
    <2>4. failedResets = {}
      BY <2>3 DEF DatasetInv, TypeOK
    <2>5. \A f \in Files : outcome[f] # "failed"
      BY <2>3 DEF WithOutcome
    <2>6. QED
      BY <2>1, <2>2, <2>3, <2>4, <2>5 DEF DatasetInv, IdleInv, Resetting, Counted, Stopped
  <1>2. QED
    BY <1>1, DatasetInvariant, PTL

\* With -b, a file is at every moment whole or backed up, and one that is done with is
\* whole and has lost its backup, unless an fclose() failed unnoticed for it
\* (zfsctool.cpp:1061, 1083-1086, 1179-1191, 1236-1241).
THEOREM BackupIsKept == Spec => []BackupKept
  <1>1. DatasetInv => BackupKept
    BY DEF DatasetInv, BackupInv, FileKept, BackupKept
  <1>2. QED
    BY <1>1, DatasetInvariant, PTL
=============================================================================
