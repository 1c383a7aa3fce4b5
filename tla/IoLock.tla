------------------------------- MODULE IoLock -------------------------------
(***************************************************************************)
(* What the workers of afsctool and zfsctool do under the ioLock of their  *)
(* ParallelFileProcessor: the MutexEx and MutexEx::Scope of CritSectEx.h,  *)
(* lockScope() and unLockScope() of ParallelProcess.cpp, and the points of *)
(* the two compressFile() where they lock, open, close and unlock.  What   *)
(* happens to the file in between is CompressFile's and ZfsDataset's.      *)
(***************************************************************************)
EXTENDS Integers, FiniteSets, Sequences

CONSTANTS
    MaxJobs,        \* the most workers there are
    Paths,
    Inode           \* the file each path is a name of

Workers == 1..MaxJobs
NoPath == "none"

ASSUME IoAssumption == MaxJobs \in Nat \ {0} /\ DOMAIN Inode = Paths /\ NoPath \notin Paths

VARIABLES
    tool,           \* "afsctool" or "zfsctool"
    exclusive_io,   \* -j, rather than -J
    exlock,         \* the system has O_EXLOCK: open() fails or waits on it
    owner,          \* of the mutex of ioLock, 0 when it is free
    m_bLocked,      \* of each worker's Scope, as m_bUnlockFlag is
    ioLockedFlag,   \* of the processor, which every worker writes
    locked,         \* of each worker's compressFile()
    held,           \* the path each worker is at
    fdOpen,         \* the workers with fdIn open
    compressed,     \* the paths whose inFileInfo says they now are
    stage

options == <<tool, exclusive_io, exlock>>
lock == <<owner, m_bLocked, ioLockedFlag, locked>>
ioVars == <<options, lock, held, fdOpen, compressed, stage>>

\* Some other worker has the same file open.
OpenElsewhere(w) ==
    exlock /\ \E v \in fdOpen \ {w} : Inode[held[v]] = Inode[held[w]]

InitIo ==
    /\ tool \in {"afsctool", "zfsctool"}
    /\ exclusive_io \in BOOLEAN /\ exlock \in BOOLEAN
    /\ owner = 0
    /\ m_bLocked = [w \in Workers |-> FALSE]
    /\ ioLockedFlag = FALSE
    /\ locked = [w \in Workers |-> FALSE]
    /\ held = [w \in Workers |-> NoPath]
    /\ fdOpen = {} /\ compressed = {}
    /\ stage = [w \in Workers |-> "idle"]

Goto(w, from, to) == stage[w] = from /\ stage' = [stage EXCEPT ![w] = to]
-----------------------------------------------------------------------------
(* Slips this code could contain, each a variant of an action below.        *)

\* Scope::Unlock() that leaves m_bLocked set, so that Lock() then does nothing
UnlockScopeHalf(w) ==
    /\ m_bLocked[w]
    /\ owner' = 0
    /\ UNCHANGED m_bLocked

\* one Scope made outside the loop, and not destroyed after each file
ScopeKept(w) == UNCHANGED <<owner, m_bLocked>>

\* open() tried again and again while the file is open elsewhere
OpenRetries(w) ==
    /\ stage[w] = "opening"
    /\ IF OpenElsewhere(w) THEN UNCHANGED stage ELSE Goto(w, "opening", "bail")
    /\ UNCHANGED <<options, lock, held, fdOpen, compressed>>

\* lockScope() that takes another worker's lock for its own
LockIfFlagClear(w) ==
    IF ioLockedFlag THEN UNCHANGED <<owner, m_bLocked>>
                    ELSE /\ owner = 0
                         /\ owner' = w /\ m_bLocked' = [m_bLocked EXCEPT ![w] = TRUE]
-----------------------------------------------------------------------------
(* MutexEx::Scope                                                           *)

ScopeLock(w) ==
    IF m_bLocked[w] THEN UNCHANGED <<owner, m_bLocked>>
                    ELSE /\ owner = 0
                         /\ owner' = w /\ m_bLocked' = [m_bLocked EXCEPT ![w] = TRUE]

ScopeUnlock(w) ==
    /\ m_bLocked[w]
    /\ owner' = 0 /\ m_bLocked' = [m_bLocked EXCEPT ![w] = FALSE]

ScopeDestroyed(w) == ScopeUnlock(w) \/ (~m_bLocked[w] /\ UNCHANGED <<owner, m_bLocked>>)

\* The two places compressFile() locks and what follows on them ...
AfterLock == [wantRead |-> "lockedRead", wantWrite |-> "lockedWrite"]
Entered == [lockedRead |-> "opening", lockedWrite |-> "rewriting"]

\* ... and the two it unlocks.
AfterUnlock == [readDone |-> "unlockedRead", bail |-> "unlockedBail"]
Left == [unlockedRead |-> "compressing", unlockedBail |-> "closing"]

\* PP->ioLockedFlag = scope->Lock()
LockScope(w) ==
    /\ stage[w] \in DOMAIN AfterLock
    /\ ScopeLock(w)
    /\ ioLockedFlag' = TRUE
    /\ stage' = [stage EXCEPT ![w] = AfterLock[stage[w]]]
    /\ UNCHANGED <<options, locked, held, fdOpen, compressed>>

\* return PP->ioLockedFlag, which another worker may just have cleared
LockScopeReturns(w) ==
    /\ stage[w] \in DOMAIN Entered
    /\ locked' = [locked EXCEPT ![w] = ioLockedFlag]
    /\ stage' = [stage EXCEPT ![w] = Entered[stage[w]]]
    /\ UNCHANGED <<options, owner, m_bLocked, ioLockedFlag, held, fdOpen, compressed>>

\* scope->Unlock(), which does nothing to a scope that is not locked; at bail
\* zfsctool goes by locked.
UnLockScope(w) ==
    /\ stage[w] \in DOMAIN AfterUnlock
    /\ (stage[w] = "bail" /\ tool = "zfsctool") => locked[w]
    /\ \/ ScopeUnlock(w)
       \/ ~m_bLocked[w] /\ UNCHANGED <<owner, m_bLocked>>
    /\ stage' = [stage EXCEPT ![w] = AfterUnlock[stage[w]]]
    /\ UNCHANGED <<options, ioLockedFlag, locked, held, fdOpen, compressed>>

BailNotLocked(w) ==
    /\ tool = "zfsctool" /\ ~locked[w]
    /\ Goto(w, "bail", "closing")
    /\ UNCHANGED <<options, lock, held, fdOpen, compressed>>

\* PP->ioLockedFlag = *scope; what is returned nobody looks at.
UnLockScopeReturns(w) ==
    /\ stage[w] \in DOMAIN Left
    /\ ioLockedFlag' = m_bLocked[w]
    /\ locked' = [locked EXCEPT ![w] = FALSE]
    /\ stage' = [stage EXCEPT ![w] = Left[stage[w]]]
    /\ UNCHANGED <<options, owner, m_bLocked, held, fdOpen, compressed>>
-----------------------------------------------------------------------------
(* compressFile()                                                           *)

\* Nothing to compress, compressed already, or an attribute in the way.
Skip(w) ==
    /\ Goto(w, "entered", "returned")
    /\ UNCHANGED <<options, lock, held, fdOpen, compressed>>

\* Only afsctool -j reads under the lock.
StartReading(w) ==
    /\ Goto(w, "entered", IF tool = "afsctool" /\ exclusive_io THEN "wantRead" ELSE "opening")
    /\ UNCHANGED <<options, lock, held, fdOpen, compressed>>

\* open(O_EXLOCK|O_NONBLOCK)
Open(w) ==
    /\ Goto(w, "opening", "reading")
    /\ ~OpenElsewhere(w)
    /\ fdOpen' = fdOpen \cup {w}
    /\ UNCHANGED <<options, lock, held, compressed>>

OpenFails(w) ==
    /\ Goto(w, "opening", "bail")
    /\ UNCHANGED <<options, lock, held, fdOpen, compressed>>

\* The whole file is in inBuf, and in the backup if there is to be one.
Read(w) ==
    /\ Goto(w, "reading",
            IF tool = "afsctool" THEN IF exclusive_io THEN "readDone" ELSE "compressing"
            ELSE IF exclusive_io THEN "wantWrite" ELSE "rewriting")
    /\ UNCHANGED <<options, lock, held, fdOpen, compressed>>

\* No memory or a short read: fdIn is closed and the lock left to the caller;
\* the backup fails: goto bail.
ReadFails(w) ==
    \/ /\ Goto(w, "reading", "returned")
       /\ fdOpen' = fdOpen \ {w}
       /\ UNCHANGED <<options, lock, held, compressed>>
    \/ /\ Goto(w, "reading", "bail")
       /\ UNCHANGED <<options, lock, held, fdOpen, compressed>>

Compressed(w) ==
    /\ Goto(w, "compressing", "wantWrite")
    /\ UNCHANGED <<options, lock, held, fdOpen, compressed>>

NotCompressed(w) ==
    /\ stage[w] \in {"compressing", "rewriting"}
    /\ stage' = [stage EXCEPT ![w] = "bail"]
    /\ UNCHANGED <<options, lock, held, fdOpen, compressed>>

\* fdIn is closed, inFileInfo refreshed, and the result read back with -n not
\* given.
Rewritten(w) ==
    /\ stage[w] = "rewriting"
    /\ fdOpen' = fdOpen \ {w}
    /\ compressed' = compressed \cup {held[w]}
    /\ stage' \in {[stage EXCEPT ![w] = "verify"], [stage EXCEPT ![w] = "bail"]}
    /\ UNCHANGED <<options, lock, held>>

\* open(O_EXLOCK), without O_NONBLOCK, waits.
Verify(w) ==
    /\ Goto(w, "verify", "bail")
    /\ ~OpenElsewhere(w)
    /\ UNCHANGED <<options, lock, held, fdOpen, compressed>>

\* xclose(fdIn) comes after the lock is released.
Close(w) ==
    /\ Goto(w, "closing", "returned")
    /\ fdOpen' = fdOpen \ {w}
    /\ UNCHANGED <<options, lock, held, compressed>>

CompressStep(w) ==
    \/ LockScope(w) \/ LockScopeReturns(w)
    \/ UnLockScope(w) \/ BailNotLocked(w) \/ UnLockScopeReturns(w)
    \/ Skip(w) \/ StartReading(w) \/ Open(w) \/ OpenFails(w) \/ Read(w) \/ ReadFails(w)
    \/ Compressed(w) \/ NotCompressed(w) \/ Rewritten(w) \/ Verify(w) \/ Close(w)
-----------------------------------------------------------------------------
AtDisk(w) == stage[w] \in {"rewriting", "verify"}
Reading(w) == stage[w] \in {"opening", "reading"}

\* "disk IO is exclusive" (afsctool.c:2450, zfsctool.cpp:1554), "everything is
\* concurrent except writing the compressed file" (afsctool.c:2451): no two
\* workers of afsctool rewrite at once, nor does one of its -j read then, nor two
\* of zfsctool -j rewrite, although lockScope() reports a flag they all write.
\* And whatever way compressFile() was left by, a worker at its next file holds
\* nothing: "our caller (a worker thread) will clean up for us" (afsctool.c:487).
DiskIOExclusive ==
    /\ \A v, w \in Workers : v # w /\ AtDisk(v) =>
         /\ tool = "afsctool" \/ exclusive_io => ~AtDisk(w)
         /\ tool = "afsctool" /\ exclusive_io => ~Reading(w)
    /\ \A w \in Workers : stage[w] = "idle" => owner # w /\ w \notin fdOpen

\* One worker has the lock and waits to open a file again, to verify it, which
\* another name's worker has open since, and waits for the lock.
Circular ==
    \E v, w \in Workers :
        /\ v # w /\ owner = v
        /\ stage[v] = "verify" /\ stage[w] = "wantWrite" /\ w \in fdOpen
        /\ exlock /\ Inode[held[v]] = Inode[held[w]]
=============================================================================
