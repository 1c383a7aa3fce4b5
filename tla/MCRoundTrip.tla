---------------------------- MODULE MCRoundTrip -----------------------------
(* One file, compressed and decompressed, with and without a backup.        *)
EXTENDS RoundTrip

MCTripOptions ==
    {o \in [check : BOOLEAN, backup : BOOLEAN, blocks : {FALSE}] : o.backup => o.check}
=============================================================================
