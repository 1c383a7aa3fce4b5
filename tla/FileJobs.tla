------------------------------ MODULE FileJobs ------------------------------
(***************************************************************************)
(* What the parallel mode of afsctool and zfsctool promises its user: each *)
(* queued file is taken by one worker and processed once; the call that    *)
(* runs the workers returns when nobody is processing any more, and it     *)
(* leaves a file unprocessed, or breaks one off, only after a request to   *)
(* quit.  WorkerPool is shown to implement this specification.             *)
(***************************************************************************)
EXTENDS Integers

CONSTANT Files          \* the files in the queue when the workers start

VARIABLES
    pending,    \* files no worker has taken
    taken,      \* files some worker is busy with
    finished,   \* files that have been processed to the end
    stopping,   \* the user has asked to quit
    returned    \* the call that runs the workers has returned

jobVars == <<pending, taken, finished, stopping, returned>>

JobInit ==
    /\ pending = Files
    /\ taken = {}
    /\ finished = {}
    /\ stopping = FALSE
    /\ returned = FALSE

TakeJob(f) ==
    /\ ~returned
    /\ f \in pending
    /\ pending' = pending \ {f}
    /\ taken' = taken \cup {f}
    /\ UNCHANGED <<finished, stopping, returned>>

\* A worker that could not be stopped may finish its file after the return.
FinishJob(f) ==
    /\ ~returned \/ stopping
    /\ f \in taken
    /\ taken' = taken \ {f}
    /\ finished' = finished \cup {f}
    /\ UNCHANGED <<pending, stopping, returned>>

RequestStop ==
    /\ ~returned
    /\ stopping' = TRUE
    /\ UNCHANGED <<pending, taken, finished, returned>>

\* Files still in "taken" at this point are the ones that were broken off.
ReturnJobs ==
    /\ ~returned
    /\ stopping \/ finished = Files
    /\ returned' = TRUE
    /\ UNCHANGED <<pending, taken, finished, stopping>>

JobNext ==
    \/ \E f \in Files : TakeJob(f) \/ FinishJob(f)
    \/ RequestStop
    \/ ReturnJobs

JobSpec == JobInit /\ [][JobNext]_jobVars
=============================================================================
