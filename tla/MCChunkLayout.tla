--------------------------- MODULE MCChunkLayout ---------------------------
(* Files of one to four chunks of 64 KB, at the sizes where the code decides *)
(* otherwise.                                                                *)
EXTENDS ChunkLayout

MCFileSizes == {1, 3784, 3785, 3786, 65535, 65536, 65537, 131072, 131073, 196613}
MCCompressedSizes == {8, 3785, 3786, 3787, 30000}
MCDeltas == {-400, -1, 0, 1, 20}
=============================================================================
