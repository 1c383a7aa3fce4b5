---------------------------- MODULE MCZfsDataset ----------------------------
(* The invocations of zfsctool: how many threads, when the dataset's        *)
(* compression is reset, and whether files are backed up.                   *)
EXTENDS ZfsDataset

Invocation(p, e, q, b) ==
    [parallel |-> p, exclusive |-> e, quick |-> q, backup |-> b]

ExclusiveIO == Invocation(TRUE, TRUE, TRUE, FALSE)          \* -jN
ConcurrentIO == Invocation(TRUE, FALSE, TRUE, FALSE)        \* -JN
DeferredReset == Invocation(TRUE, FALSE, FALSE, FALSE)      \* -JN -q
Sequential(q) == Invocation(FALSE, FALSE, q, TRUE)  \* -b

MCInvocations ==
    {ExclusiveIO, ConcurrentIO, DeferredReset, Sequential(TRUE), Sequential(FALSE)}
MCExclusive == {ExclusiveIO}
MCConcurrent == {ConcurrentIO}
=============================================================================
