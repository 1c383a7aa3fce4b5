--------------------------- MODULE MCCompressFile ---------------------------
(* One file, with the builds and the options of each configuration.         *)
EXTENDS CompressFile

MCOptions == [check : BOOLEAN, backup : BOOLEAN, blocks : BOOLEAN]

\* No option given; compiled by GCC, which has nested functions, or by clang.
MCNested == {[check |-> TRUE, backup |-> FALSE, blocks |-> FALSE]}
MCBlocks == {[check |-> TRUE, backup |-> FALSE, blocks |-> TRUE]}
=============================================================================
