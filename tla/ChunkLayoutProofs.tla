-------------------------- MODULE ChunkLayoutProofs --------------------------
(***************************************************************************)
(* What ChunkLayout promises of the chunked encoding, proved for files,    *)
(* blocks and attributes of any size and whatever a compressor makes of    *)
(* each chunk: nothing is written or read past what is allocated, and      *)
(* what is written is accepted and comes back in order.                    *)
(***************************************************************************)
EXTENDS ChunkLayout, TLAPS

\* What the variables hold.
LayoutType ==
    /\ comptype \in CompTypes /\ filesize \in FileSizes
    /\ allowLargeBlocks \in BOOLEAN /\ singleShot \in BOOLEAN
    /\ blockNr \in 0 .. numBlocks
    /\ outBufSize \in Nat /\ allocated \in Nat
    /\ currBlock \in Nat /\ currBlockOffset \in Nat /\ currBlockLen \in Nat
    /\ pc \in {"chunk", "inAttribute", "inFork", "bail", "decoded"}
    /\ pc = "inFork" \/ (pc = "decoded" /\ attribute = NoChunk) => blockNr = numBlocks

\* Where the next chunk goes.  An outBuf that grows has room up to outBufSize; the one
\* of ZLIB_SINGLESHOT_OUTBUF has been used for the chunks so far and a byte for each.
PlaceInv ==
    /\ currBlock >= TableEnd /\ outBufSize <= allocated
    /\ Incremental =>
         /\ currBlock <= outBufSize /\ allocated <= outBufSize + 1
         /\ currBlockOffset # 0 => currBlockOffset = currBlock
         /\ pc = "chunk" /\ currBlockOffset = 0 => outBufSize = currBlock
    /\ ~Incremental =>
         /\ currBlock = TableEnd + currBlockOffset
         /\ currBlockOffset <= blockNr + blockNr * compblksize
         /\ currBlockOffset <= blockNr + filesize
         /\ currBlockLen = filesize + TrailerSize + numBlocks
         /\ allocated = TableEnd + currBlockLen
    /\ pc = "inFork" => ForkLength <= allocated

\* Each extent lies where nothing has been written before, and the next will too.
MemoryInv ==
    /\ \A e \in memory : e.at \in Nat /\ e.size \in Nat \ {0} /\ e.at + e.size <= allocated
    /\ pc = "chunk" => \A e \in memory : e.at + e.size <= currBlock
    /\ \A e, f \in memory : e.at = f.at => e = f

\* Chunk b is in memory, at the place the table says.
InTable(b, e) ==
    IF comptype = "ZLIB"
      THEN e.at = BlockStart + table[b + 1].offset /\ e.size = table[b + 1].size
      ELSE e.at = table[b + 1] /\ e.at + e.size = table[b + 2]

Stored(b) ==
    \E e \in memory :
        /\ e.chunk = b /\ InTable(b, e)
        /\ e.at + e.size <= currBlock
        /\ e.raw => e.size - 1 = ChunkLength(b)

TableInv ==
    /\ \E S : table \in Seq(S)
    /\ Len(table) = blockNr + IF comptype = "ZLIB" THEN 0 ELSE 1
    /\ comptype # "ZLIB" => table[blockNr + 1] = currBlock
    /\ \A b \in 0 .. blockNr - 1 : Stored(b)

AttributeInv ==
    /\ pc \in {"chunk", "inFork"} => attribute = NoChunk
    /\ attribute # NoChunk =>
         /\ numBlocks = 1 /\ attribute.chunk = 0 /\ attribute.size \in Nat \ {0}
         /\ attribute.at + attribute.size <= MaxXattrSize
         /\ attribute.raw => attribute.size - 1 = filesize
    /\ pc = "inAttribute" => attribute # NoChunk

DecodedInv == pc = "decoded" => decoded = [i \in 1 .. numBlocks |-> i - 1]

\* The inductive invariant
LayoutInv == LayoutType /\ PlaceInv /\ MemoryInv /\ TableInv /\ AttributeInv /\ DecodedInv
-----------------------------------------------------------------------------
(* The blocks of a file.                                                    *)

LEMMA Blocks ==
    ASSUME filesize \in FileSizes
    PROVE  /\ filesize \in Nat \ {0} /\ numBlocks \in Nat \ {0}
           /\ filesize <= numBlocks * compblksize
           /\ \A b \in 0 .. numBlocks : b * compblksize < filesize + compblksize
           /\ \A b \in 0 .. numBlocks - 1 :
                /\ ChunkLength(b) \in Nat \ {0} /\ ChunkLength(b) <= compblksize
                /\ b * compblksize + ChunkLength(b) <= filesize
           /\ compblksize * (numBlocks - 1) + (filesize % compblksize) <= filesize
           /\ numBlocks = 1 => ChunkLength(0) = filesize
  <1> DEFINE B == compblksize
             N == numBlocks
  <1>1. filesize \in Nat \ {0} /\ B \in Nat \ {0}
    BY ChunkAssumption
  <1>2. N \in Nat /\ N * B <= filesize + B - 1 /\ filesize + B - 1 < N * B + B
    <2>1. ASSUME NEW a \in Nat, NEW b \in Nat \ {0}
          PROVE  a \div b \in Nat /\ (a \div b) * b <= a /\ a < (a \div b) * b + b
      OBVIOUS
    <2>2. filesize + B - 1 \in Nat /\ N = (filesize + B - 1) \div B
      BY <1>1 DEF BlocksOf, numBlocks
    <2>3. QED
      BY <1>1, <2>1, <2>2
  <1>3. \A b, n \in Nat : b <= n => b * B <= n * B
    BY <1>1
  <1>4. \A b, n \in Nat : b < n => b * B + B <= n * B
    BY <1>1
  <1>5. N # 0
    BY <1>1, <1>2
  <1>6. \A n \in Nat : n * B \in Nat
    BY <1>1
  <1>7. filesize % B \in 0 .. B - 1 /\ filesize = (filesize \div B) * B + (filesize % B)
        /\ filesize \div B \in Nat
    BY <1>1
  <1> HIDE DEF N, B
  <1>8. filesize <= N * B
    BY <1>1, <1>2, <1>6
  <1>9. \A b \in 0 .. N : b * B < filesize + B
    <2>1. ASSUME NEW b \in 0 .. N
          PROVE  b * B < filesize + B
      <3>1. b \in Nat /\ b * B <= N * B /\ b * B \in Nat /\ N * B \in Nat
        BY <1>2, <1>3, <1>6, <2>1
      <3>2. QED
        BY <1>1, <1>2, <3>1
    <2>2. QED
      BY <2>1
  <1>10. ASSUME NEW b \in 0 .. N - 1
         PROVE  /\ ChunkLength(b) \in Nat \ {0} /\ ChunkLength(b) <= B
                /\ b * B + ChunkLength(b) <= filesize
    <2>1. b \in Nat /\ b * B + B <= N * B /\ b * B \in Nat /\ N * B \in Nat
      BY <1>2, <1>4, <1>6
    <2>2. b * B < filesize
      BY <1>1, <1>2, <2>1
    <2>3. ChunkLength(b) = IF filesize - b * B > B THEN B ELSE filesize - b * B
      BY DEF ChunkLength, B
    <2>4. QED
      BY <1>1, <2>1, <2>2, <2>3
  <1>11. B * (N - 1) + (filesize % B) <= filesize
    <2> DEFINE q == filesize \div B
               r == filesize % B
    <2>1. q \in Nat /\ r \in 0 .. B - 1 /\ filesize = q * B + r
      BY <1>7
    <2> HIDE DEF q, r
    <2>2. q * B \in Nat /\ N * B \in Nat
      BY <1>2, <1>6, <2>1
    <2>3. N * B <= q * B + r + B - 1
      BY <1>1, <1>2, <2>1, <2>2
    <2>4. N - 1 <= q
      <3>1. CASE q + 1 < N
        <4>1. (q + 1) * B + B <= N * B /\ (q + 1) * B = q * B + B
          BY <1>1, <1>2, <1>4, <2>1, <3>1
        <4>2. QED
          BY <1>1, <2>1, <2>2, <2>3, <4>1
      <3>2. QED
        BY <1>2, <2>1, <3>1
    <2>5. N - 1 \in Nat /\ B * (N - 1) = (N - 1) * B /\ (N - 1) * B <= q * B /\ (N - 1) * B \in Nat
      BY <1>1, <1>2, <1>3, <1>5, <1>6, <2>1, <2>4
    <2>6. QED
      BY <1>1, <2>1, <2>2, <2>5 DEF r
  <1>12. N = 1 => ChunkLength(0) = filesize
    <2>1. 1 * B = B /\ 0 * B = 0
      BY <1>1
    <2>2. ChunkLength(0) = IF filesize - 0 * B > B THEN B ELSE filesize - 0 * B
      BY DEF ChunkLength, B
    <2>3. QED
      BY <1>1, <1>8, <2>1, <2>2
  <1>13. QED
    BY <1>1, <1>2, <1>5, <1>8, <1>9, <1>10, <1>11, <1>12 DEF N, B

LEMMA TableSize ==
    ASSUME filesize \in FileSizes
    PROVE  /\ TableEnd \in Nat \ {0}
           /\ comptype = "ZLIB" => TableEnd = 264 + numBlocks * 8
           /\ comptype # "ZLIB" => TableEnd = 4 * numBlocks + 4
  <1>1. numBlocks \in Nat \ {0}
    BY Blocks
  <1> HIDE DEF numBlocks
  <1>2. QED
    BY <1>1 DEF TableEnd, BlockStart

\* What is kept of what a compressor returns
LEMMA ResultSize ==
    ASSUME LayoutType, blockNr < numBlocks, NEW c \in Results
    PROVE  /\ c \in Nat \ {0} /\ cmpedsize(c) \in Nat \ {0} /\ cmpedsize(c) <= c
           /\ comptype = "ZLIB" => cmpedsize(c) <= ChunkLength(blockNr) + 1
           /\ TooLarge(c) => cmpedsize(c) - 1 = ChunkLength(blockNr)
           /\ comptype # "ZLIB" => ~TooLarge(c) /\ cmpedsize(c) = c
  <1>1. c \in Nat \ {0}
    BY DEF Results
  <1>2. ChunkLength(blockNr) \in Nat \ {0}
    <2>1. blockNr \in 0 .. numBlocks - 1 /\ filesize \in FileSizes
      BY Blocks DEF LayoutType
    <2>2. QED
      BY <2>1, Blocks
  <1>3. QED
    BY <1>1, <1>2 DEF cmpedsize, TooLarge, StoredSize, supportsLargeBlocks, bytesAfterCursor
LEMMA WrittenFree ==
    ASSUME NEW mem, NEW e, e.at \in Nat, \A f \in mem : f.at \in Nat /\ f.size \in Nat,
           \A f \in mem : f.at + f.size <= e.at
    PROVE  Written(mem, e) = mem \cup {e}
  <1>1. \A f \in mem : ~Overlap(e, f)
    BY DEF Overlap
  <1>2. QED
    BY <1>1 DEF Written

\* A chunk is put after all that has been written, whichever way outBuf is allocated,
\* and there is room for it.
LEMMA Placed ==
    ASSUME LayoutType, PlaceInv, MemoryInv, NEW c \in Results, ChunkToFork(c)
    PROVE  /\ pc = "chunk" /\ pc' = "chunk" /\ UNCHANGED <<file, attribute, decoded>>
           /\ blockNr < numBlocks /\ blockNr' = blockNr + 1
           /\ currBlock' = currBlock + cmpedsize(c)
           /\ memory' = memory \cup {Extent(currBlock, cmpedsize(c), blockNr, TooLarge(c))}
           /\ table' = IF comptype = "ZLIB"
                         THEN Append(table, [offset |-> TableOffset(currBlock),
                                               size |-> cmpedsize(c)])
                         ELSE Append(table, table[Len(table)] + c)
           /\ allocated <= allocated' /\ currBlock' <= allocated'
           /\ allocated' \in Nat /\ outBufSize' \in Nat /\ currBlockLen' \in Nat
           /\ currBlockOffset' \in Nat /\ outBufSize' <= allocated'
           /\ Incremental => currBlock' <= outBufSize' /\ currBlockOffset' = currBlock'
           /\ ~Incremental =>
                /\ currBlockOffset' = currBlockOffset + cmpedsize(c)
                /\ UNCHANGED <<currBlockLen, allocated>>
  <1> DEFINE size == cmpedsize(c)
             offset == IF Incremental /\ currBlockOffset = 0 THEN outBufSize ELSE currBlockOffset
             at == IF Incremental THEN offset ELSE currBlock
             e == Extent(at, size, blockNr, TooLarge(c))
  <1>1. /\ pc = "chunk" /\ blockNr < numBlocks /\ Grow(c) /\ UNCHANGED <<file, attribute, decoded>>
        /\ IF offset + size <= currBlockLen'
             THEN /\ memory' = Written(memory, e)
                  /\ table' = IF comptype = "ZLIB"
                                THEN Append(table, [offset |-> TableOffset(at), size |-> size])
                                ELSE Append(table, table[Len(table)] + c)
                  /\ currBlock' = at + size
                  /\ currBlockOffset' = offset + size
                  /\ blockNr' = blockNr + 1
                  /\ pc' = "chunk"
             ELSE pc' = "overrun"
    BY DEF ChunkToFork
  <1>2. /\ outBufSize \in Nat /\ allocated \in Nat /\ currBlock \in Nat /\ currBlockOffset \in Nat
        /\ currBlockLen \in Nat /\ filesize \in FileSizes /\ blockNr \in Nat
    BY <1>1, Blocks DEF LayoutType
  <1>3. /\ c \in Nat \ {0} /\ size \in Nat \ {0} /\ size <= c
        /\ comptype = "ZLIB" => size <= ChunkLength(blockNr) + 1
    BY <1>1, ResultSize
  <1>4. /\ filesize \in Nat \ {0} /\ numBlocks \in Nat \ {0} /\ TableEnd \in Nat
        /\ ChunkLength(blockNr) \in Nat /\ blockNr * compblksize \in Nat
        /\ blockNr * compblksize + ChunkLength(blockNr) <= filesize
    <2>1. filesize \in Nat \ {0} /\ numBlocks \in Nat \ {0} /\ TableEnd \in Nat
      BY <1>2, Blocks, TableSize
    <2>2. blockNr \in 0 .. numBlocks - 1
      BY <1>1, <1>2, <2>1
    <2>3. blockNr * compblksize \in Nat
      BY <1>2, ChunkAssumption
    <2>4. QED
      BY <1>2, <2>1, <2>2, <2>3, Blocks
  <1> HIDE DEF size, numBlocks, ChunkLength, TableEnd
  <1>5. at = currBlock
    BY <1>1 DEF PlaceInv
  <1>6. Incremental => /\ outBufSize' = outBufSize + c /\ currBlockLen' = outBufSize'
                       /\ allocated' \in {outBufSize', outBufSize' + 1}
    BY <1>1, <1>2, <1>3 DEF Grow
  <1>7. ~Incremental => UNCHANGED <<outBufSize, allocated, currBlockLen>> /\ comptype = "ZLIB"
    BY <1>1 DEF Grow, Incremental
  <1>8. offset + size <= currBlockLen'
    <2>1. CASE Incremental
      <3>1. offset <= outBufSize /\ offset \in Nat
        BY <1>1, <1>2, <2>1 DEF PlaceInv
      <3> HIDE DEF offset
      <3>2. QED
        BY <1>2, <1>3, <1>6, <2>1, <3>1
    <2>2. CASE ~Incremental
      <3> DEFINE p == blockNr * compblksize
      <3>1. /\ offset = currBlockOffset /\ currBlockLen' = filesize + TrailerSize + numBlocks
            /\ currBlockOffset <= blockNr + p /\ size <= ChunkLength(blockNr) + 1
            /\ p \in Nat /\ p + ChunkLength(blockNr) <= filesize
        BY <1>3, <1>4, <1>7, <2>2 DEF PlaceInv
      <3> HIDE DEF p, offset
      <3>2. QED
        BY <1>1, <1>2, <1>3, <1>4, <3>1 DEF TrailerSize
    <2>3. QED
      BY <2>1, <2>2
  <1>9. e.at = currBlock /\ e = Extent(currBlock, size, blockNr, TooLarge(c))
    BY <1>5 DEF Extent
  <1>10. Written(memory, e) = memory \cup {e}
    <2> HIDE DEF e, at, offset
    <2>1. /\ \A f \in memory : f.at \in Nat /\ f.size \in Nat
          /\ \A f \in memory : f.at + f.size <= e.at
      BY <1>1, <1>9 DEF MemoryInv
    <2>2. QED
      BY <1>2, <1>9, <2>1, WrittenFree
  <1>11. /\ pc' = "chunk" /\ blockNr' = blockNr + 1 /\ currBlock' = currBlock + size
         /\ memory' = memory \cup {Extent(currBlock, size, blockNr, TooLarge(c))}
         /\ table' = IF comptype = "ZLIB"
                       THEN Append(table, [offset |-> TableOffset(currBlock), size |-> size])
                       ELSE Append(table, table[Len(table)] + c)
         /\ currBlockOffset' = offset + size
    BY <1>1, <1>5, <1>8, <1>9, <1>10
  <1>12. offset \in Nat
    BY <1>2
  <1>13. ASSUME Incremental
         PROVE  /\ currBlock' <= outBufSize' /\ currBlockOffset' = currBlock'
                /\ outBufSize' \in Nat /\ currBlockLen' \in Nat /\ allocated' \in Nat
                /\ outBufSize' <= allocated' /\ allocated <= allocated'
    <2>1. currBlock <= outBufSize /\ offset = currBlock
      BY <1>5, <1>13 DEF PlaceInv
    <2>2. allocated <= outBufSize + 1
      BY <1>13 DEF PlaceInv
    <2> HIDE DEF offset
    <2>3. QED
      BY <1>2, <1>3, <1>6, <1>11, <1>13, <2>1, <2>2
  <1>14. ASSUME ~Incremental
         PROVE  /\ currBlockOffset' = currBlockOffset + size /\ currBlock' <= allocated'
                /\ UNCHANGED <<outBufSize, currBlockLen, allocated>>
    <2>1. /\ offset = currBlockOffset /\ currBlock = TableEnd + currBlockOffset
          /\ allocated = TableEnd + currBlockLen
          /\ UNCHANGED <<outBufSize, currBlockLen, allocated>>
      BY <1>7, <1>14 DEF PlaceInv
    <2> HIDE DEF offset
    <2>2. QED
      BY <1>2, <1>3, <1>4, <1>8, <1>11, <2>1
  <1> HIDE DEF offset, at, e
  <1>15. currBlock' \in Nat /\ currBlockOffset' \in Nat /\ outBufSize <= allocated
    BY <1>2, <1>3, <1>11, <1>12 DEF PlaceInv
  <1>16. /\ allocated <= allocated' /\ currBlock' <= allocated'
         /\ allocated' \in Nat /\ outBufSize' \in Nat /\ currBlockLen' \in Nat
         /\ outBufSize' <= allocated'
    <2>1. CASE Incremental
      BY <1>13, <1>15, <2>1
    <2>2. CASE ~Incremental
      BY <1>2, <1>14, <1>15, <2>2
    <2>3. QED
      BY <2>1, <2>2
  <1>17. pc = "chunk" /\ blockNr < numBlocks /\ UNCHANGED <<file, attribute, decoded>>
    BY <1>1
  <1>18. QED
    BY <1>11, <1>13, <1>14, <1>15, <1>16, <1>17 DEF size
-----------------------------------------------------------------------------
(* The steps.                                                               *)

LEMMA SameFile ==
    ASSUME UNCHANGED file
    PROVE  /\ numBlocks' = numBlocks /\ TableEnd' = TableEnd /\ Incremental' = Incremental
           /\ filesize' = filesize /\ comptype' = comptype
           /\ \A b : ChunkLength(b)' = ChunkLength(b)
  BY DEF file, numBlocks, TableEnd, Incremental, ChunkLength

\* Once it has been decided that there will be no fork, or it is read, outBuf is not
\* touched any more.
LEMMA BufferKept ==
    ASSUME PlaceInv, MemoryInv, TableInv, UNCHANGED <<file, blockNr, buffer>>,
           pc' = pc \/ pc' \in {"bail", "inAttribute", "decoded"}
    PROVE  PlaceInv' /\ MemoryInv' /\ TableInv'
  <1>1. /\ numBlocks' = numBlocks /\ TableEnd' = TableEnd /\ Incremental' = Incremental
        /\ filesize' = filesize /\ comptype' = comptype
        /\ \A b : ChunkLength(b)' = ChunkLength(b)
    BY SameFile
  <1>2. ForkLength' = ForkLength
    BY DEF ForkLength, buffer, file
  <1>3. PlaceInv'
    BY <1>1, <1>2 DEF PlaceInv, buffer
  <1>4. MemoryInv'
    BY DEF MemoryInv, buffer
  <1>5. TableInv'
    BY <1>1 DEF TableInv, Stored, InTable, buffer
  <1>6. QED
    BY <1>3, <1>4, <1>5

LEMMA ChunkPlaced ==
    ASSUME LayoutType, PlaceInv, MemoryInv, TableInv, NEW c \in Results, ChunkToFork(c)
    PROVE  LayoutType' /\ PlaceInv' /\ MemoryInv' /\ TableInv'
  <1> DEFINE size == cmpedsize(c)
             e == Extent(currBlock, size, blockNr, TooLarge(c))
  <1>1. /\ pc = "chunk" /\ pc' = "chunk" /\ UNCHANGED <<file, attribute, decoded>>
        /\ blockNr < numBlocks /\ blockNr' = blockNr + 1
        /\ currBlock' = currBlock + size
        /\ memory' = memory \cup {e}
        /\ table' = IF comptype = "ZLIB"
                      THEN Append(table, [offset |-> TableOffset(currBlock), size |-> size])
                      ELSE Append(table, table[Len(table)] + c)
        /\ allocated <= allocated' /\ currBlock' <= allocated'
        /\ allocated' \in Nat /\ outBufSize' \in Nat /\ currBlockLen' \in Nat
        /\ currBlockOffset' \in Nat /\ outBufSize' <= allocated'
        /\ Incremental => currBlock' <= outBufSize' /\ currBlockOffset' = currBlock'
        /\ ~Incremental => /\ currBlockOffset' = currBlockOffset + size
                           /\ UNCHANGED <<currBlockLen, allocated>>
    BY Placed
  <1>2. /\ size \in Nat \ {0}
        /\ comptype = "ZLIB" => size <= ChunkLength(blockNr) + 1
        /\ TooLarge(c) => size - 1 = ChunkLength(blockNr)
        /\ comptype # "ZLIB" => ~TooLarge(c) /\ size = c
    BY <1>1, ResultSize
  <1>3. /\ numBlocks' = numBlocks /\ TableEnd' = TableEnd /\ Incremental' = Incremental
        /\ filesize' = filesize /\ comptype' = comptype
        /\ \A b : ChunkLength(b)' = ChunkLength(b)
    BY <1>1, SameFile
  <1>4. /\ filesize \in Nat \ {0} /\ numBlocks \in Nat \ {0} /\ TableEnd \in Nat
        /\ blockNr \in 0 .. numBlocks - 1 /\ currBlock \in Nat /\ allocated \in Nat
        /\ currBlockOffset \in Nat
    BY <1>1, Blocks, TableSize DEF LayoutType
  <1>5. e.at = currBlock /\ e.size = size /\ e.chunk = blockNr /\ e.raw = TooLarge(c)
    BY DEF Extent
  <1> HIDE DEF size, e
  <1> PICK g : g = e
    OBVIOUS
  <1>6. LayoutType'
    BY <1>1, <1>2, <1>3, <1>4 DEF LayoutType, file
  <1>7. PlaceInv'
    <2>1. allocated' <= outBufSize' + 1 \/ ~Incremental
      <3>1. Grow(c) /\ c \in Nat
        BY <1>1, ResultSize DEF ChunkToFork
      <3>2. CASE Incremental
        BY <1>1, <3>1, <3>2 DEF Grow
      <3>3. QED
        BY <3>2
    <2>2. ASSUME ~Incremental
          PROVE  /\ currBlock' = TableEnd + currBlockOffset'
                 /\ currBlockOffset' <= blockNr' + blockNr' * compblksize
                 /\ currBlockOffset' <= blockNr' + filesize
      <3> DEFINE p == blockNr * compblksize
      <3>1. comptype = "ZLIB"
        BY <2>2 DEF Incremental
      <3>2. /\ ChunkLength(blockNr) \in Nat /\ ChunkLength(blockNr) <= compblksize
            /\ p + ChunkLength(blockNr) <= filesize /\ p \in Nat /\ compblksize \in Nat
            /\ (blockNr + 1) * compblksize = p + compblksize
        BY <1>4, Blocks, ChunkAssumption DEF LayoutType
      <3>3. /\ currBlock = TableEnd + currBlockOffset
            /\ currBlockOffset <= blockNr + p
        BY <2>2 DEF PlaceInv
      <3> HIDE DEF p
      <3>4. currBlockOffset' = currBlockOffset + size /\ size <= ChunkLength(blockNr) + 1
        BY <1>1, <1>2, <2>2, <3>1
      <3>5. currBlockOffset' <= blockNr' + (p + compblksize)
        BY <1>1, <1>2, <1>4, <3>2, <3>3, <3>4
      <3>6. currBlockOffset' <= blockNr' + filesize
        BY <1>1, <1>2, <1>4, <3>2, <3>3, <3>4
      <3>7. currBlock' = TableEnd + currBlockOffset'
        BY <1>1, <1>2, <1>4, <3>3, <3>4
      <3>8. QED
        BY <1>1, <3>2, <3>5, <3>6, <3>7
    <2>3. currBlock' >= TableEnd
      BY <1>1, <1>2, <1>4 DEF PlaceInv
    <2>4. currBlock' # 0
      BY <1>1, <1>2, <1>4
    <2> HIDE DEF numBlocks, TableEnd, Incremental
    <2>5. QED
      BY <1>1, <1>3, <2>1, <2>2, <2>3, <2>4 DEF PlaceInv
  <1>8. MemoryInv'
    <2>1. \A f \in memory : /\ f.at \in Nat /\ f.size \in Nat \ {0} /\ f.at + f.size <= allocated
                            /\ f.at + f.size <= currBlock
      BY <1>1 DEF MemoryInv
    <2>2. \A f \in memory : /\ f.at + f.size <= allocated' /\ f.at + f.size <= currBlock'
                            /\ f.at # currBlock
      BY <1>1, <1>2, <1>4, <2>1
    <2>3. /\ e.at \in Nat /\ e.size \in Nat \ {0}
          /\ e.at + e.size <= allocated' /\ e.at + e.size <= currBlock'
      BY <1>1, <1>2, <1>4, <1>5
    <2>4. \A f, h \in memory' : f.at = h.at => f = h
      BY <1>1, <1>5, <2>2 DEF MemoryInv
    <2>5. QED
      BY <1>1, <2>1, <2>2, <2>3, <2>4 DEF MemoryInv
  <1>9. TableInv'
    <2>1. PICK S : table \in Seq(S)
      BY DEF TableInv
    <2>2. Len(table) = blockNr + IF comptype = "ZLIB" THEN 0 ELSE 1
      BY DEF TableInv
    <2>3. PICK v : table' = Append(table, v)
      BY <1>1
    <2>4. Len(table) \in Nat /\ Len(table') = Len(table) + 1 /\ table' \in Seq(S \cup {v})
      BY <2>1, <2>3
    <2>5. /\ \A k \in 1 .. Len(table) : table'[k] = table[k]
          /\ table'[Len(table) + 1] = v
      BY <2>1, <2>3
    <2>6. CASE comptype = "ZLIB"
      <3>1. v = [offset |-> TableOffset(currBlock), size |-> size]
        <4>1. table' = Append(table, [offset |-> TableOffset(currBlock), size |-> size])
          BY <1>1, <2>6
        <4>2. table'[Len(table) + 1] = [offset |-> TableOffset(currBlock), size |-> size]
          BY <2>1, <4>1
        <4>3. QED
          BY <2>5, <4>2
      <3>2. Len(table) = blockNr /\ blockNr' = blockNr + 1
        BY <1>1, <1>4, <2>2, <2>6
      <3>3. ASSUME NEW b \in 0 .. blockNr - 1
            PROVE  Stored(b)'
        <4>1. PICK f \in memory : /\ f.chunk = b /\ InTable(b, f)
                                  /\ f.at + f.size <= currBlock
                                  /\ f.raw => f.size - 1 = ChunkLength(b)
          BY <3>3 DEF TableInv, Stored
        <4>2. b + 1 \in 1 .. Len(table)
          BY <1>4, <3>2, <3>3
        <4>3. InTable(b, f)'
          BY <1>3, <2>5, <2>6, <4>1, <4>2 DEF InTable
        <4>4. f \in memory' /\ f.at + f.size <= currBlock'
          BY <1>1, <1>2, <1>4, <4>1 DEF MemoryInv
        <4>5. QED
          BY <1>3, <4>1, <4>3, <4>4 DEF Stored
      <3>4. ASSUME NEW b, b = blockNr
            PROVE  Stored(b)'
        <4>1. InTable(b, g)'
          BY <1>3, <1>4, <1>5, <2>5, <2>6, <3>1, <3>2, <3>4 DEF InTable, TableOffset, BlockStart
        <4>2. g \in memory' /\ g.at + g.size <= currBlock' /\ g.chunk = b
              /\ (g.raw => g.size - 1 = ChunkLength(b))
          BY <1>1, <1>2, <1>4, <1>5, <3>4
        <4>3. QED
          BY <1>3, <4>1, <4>2 DEF Stored
      <3>5. \A b \in 0 .. blockNr' - 1 : b \in 0 .. blockNr - 1 \/ b = blockNr
        BY <1>4, <3>2
      <3>6. \A b \in 0 .. blockNr' - 1 : Stored(b)'
        BY <3>3, <3>4, <3>5
      <3>7. Len(table') = blockNr' + 0
        BY <1>4, <2>4, <3>2
      <3>8. QED
        BY <1>3, <2>4, <2>6, <3>6, <3>7 DEF TableInv
    <2>7. CASE comptype # "ZLIB"
      <3>1. Len(table) = blockNr + 1 /\ blockNr' = blockNr + 1
        BY <1>1, <1>4, <2>2, <2>7
      <3>2. table[blockNr + 1] = currBlock
        BY <2>7 DEF TableInv
      <3>3. v = currBlock'
        <4>1. table' = Append(table, currBlock')
          BY <1>1, <1>2, <2>7, <3>1, <3>2
        <4>2. table'[Len(table) + 1] = currBlock'
          BY <2>1, <4>1
        <4>3. QED
          BY <2>5, <4>2
      <3>4. ASSUME NEW b \in 0 .. blockNr - 1
            PROVE  Stored(b)'
        <4>1. PICK f \in memory : /\ f.chunk = b /\ InTable(b, f)
                                  /\ f.at + f.size <= currBlock
                                  /\ f.raw => f.size - 1 = ChunkLength(b)
          BY <3>4 DEF TableInv, Stored
        <4>2. b + 1 \in 1 .. Len(table) /\ b + 2 \in 1 .. Len(table)
          BY <1>4, <3>1, <3>4
        <4>3. InTable(b, f)'
          BY <1>3, <2>5, <2>7, <4>1, <4>2 DEF InTable
        <4>4. f \in memory' /\ f.at + f.size <= currBlock'
          BY <1>1, <1>2, <1>4, <4>1 DEF MemoryInv
        <4>5. QED
          BY <1>3, <4>1, <4>3, <4>4 DEF Stored
      <3>5. ASSUME NEW b, b = blockNr
            PROVE  Stored(b)'
        <4>1. table'[b + 1] = currBlock /\ table'[b + 2] = currBlock + size
          <5>1. b + 1 \in 1 .. Len(table) /\ b + 2 = Len(table) + 1
            BY <1>4, <3>1, <3>5
          <5>2. QED
            BY <1>1, <2>5, <3>2, <3>3, <3>5, <5>1
        <4>2. InTable(b, g)'
          BY <1>3, <1>5, <2>7, <4>1 DEF InTable
        <4>3. g \in memory' /\ g.at + g.size <= currBlock' /\ g.chunk = b
              /\ (g.raw => g.size - 1 = ChunkLength(b))
          BY <1>1, <1>2, <1>4, <1>5, <3>5
        <4>4. QED
          BY <1>3, <4>2, <4>3 DEF Stored
      <3>6. \A b \in 0 .. blockNr' - 1 : b \in 0 .. blockNr - 1 \/ b = blockNr
        BY <1>4, <3>1
      <3>7. \A b \in 0 .. blockNr' - 1 : Stored(b)'
        BY <3>4, <3>5, <3>6
      <3>8. Len(table') = blockNr' + 1 /\ table'[blockNr' + 1] = currBlock'
        BY <1>4, <2>4, <2>5, <3>1, <3>3
      <3>9. QED
        BY <1>3, <2>4, <2>7, <3>7, <3>8 DEF TableInv
    <2>8. QED
      BY <2>6, <2>7
  <1>10. QED
    BY <1>6, <1>7, <1>8, <1>9
\* The trailer goes after the last chunk.
LEMMA ForkWritten ==
    ASSUME LayoutType, PlaceInv, MemoryInv, TableInv, AttributeInv, WriteFork
    PROVE  LayoutType' /\ PlaceInv' /\ MemoryInv' /\ TableInv'
  <1> DEFINE e == Extent(currBlock, TrailerSize, -2, FALSE)
  <1>1. /\ pc = "chunk" /\ pc' = "inFork" /\ blockNr >= numBlocks
        /\ UNCHANGED <<file, blockNr, currBlock, currBlockOffset, currBlockLen, table, attribute>>
        /\ IF comptype = "ZLIB"
             THEN /\ memory' = Written(memory, e)
                  /\ IF Incremental
                       THEN /\ outBufSize' = outBufSize + currBlock + TrailerSize
                            /\ allocated' = outBufSize' + 1
                       ELSE UNCHANGED <<outBufSize, allocated>>
             ELSE UNCHANGED <<memory, outBufSize, allocated>>
    BY DEF WriteFork
  <1>2. /\ numBlocks' = numBlocks /\ TableEnd' = TableEnd /\ Incremental' = Incremental
        /\ filesize' = filesize /\ comptype' = comptype
        /\ \A b : ChunkLength(b)' = ChunkLength(b)
    BY <1>1, SameFile
  <1>3. /\ filesize \in Nat \ {0} /\ numBlocks \in Nat \ {0} /\ TableEnd \in Nat
        /\ blockNr = numBlocks /\ currBlock \in Nat /\ allocated \in Nat /\ outBufSize \in Nat
        /\ currBlockOffset \in Nat
    BY <1>1, Blocks, TableSize DEF LayoutType
  <1>4. e.at = currBlock /\ e.size = 50
    BY DEF Extent, TrailerSize
  <1> HIDE DEF e
  <1>5. /\ \A f \in memory : /\ f.at \in Nat /\ f.size \in Nat \ {0} /\ f.at + f.size <= allocated
                             /\ f.at + f.size <= currBlock
        /\ \A f, g \in memory : f.at = g.at => f = g
    BY <1>1 DEF MemoryInv
  <1>6. Written(memory, e) = memory \cup {e}
    BY <1>3, <1>4, <1>5, WrittenFree
  <1>7. /\ outBufSize' \in Nat /\ allocated' \in Nat
        /\ outBufSize' <= allocated' /\ allocated <= allocated'
        /\ Incremental => outBufSize <= outBufSize' /\ allocated' <= outBufSize' + 1
        /\ ~Incremental => allocated' = allocated
        /\ comptype = "ZLIB" => currBlock + TrailerSize <= allocated'
    <2>1. CASE Incremental
      <3>1. allocated <= outBufSize + 1 /\ outBufSize <= allocated
        BY <2>1 DEF PlaceInv
      <3>2. QED
        BY <1>1, <1>3, <2>1, <3>1 DEF TrailerSize
    <2>2. CASE ~Incremental
      <3>1. /\ currBlock = TableEnd + currBlockOffset
            /\ currBlockOffset <= blockNr + filesize
            /\ allocated = TableEnd + (filesize + TrailerSize + numBlocks)
            /\ outBufSize <= allocated
        BY <2>2 DEF PlaceInv
      <3>2. UNCHANGED <<outBufSize, allocated>>
        BY <1>1, <2>2 DEF Incremental
      <3> HIDE DEF numBlocks, TableEnd
      <3>3. currBlock + TrailerSize <= allocated
        BY <1>3, <3>1 DEF TrailerSize
      <3>4. QED
        BY <1>3, <2>2, <3>1, <3>2, <3>3
    <2>3. QED
      BY <2>1, <2>2
  <1>8. LayoutType'
    BY <1>1, <1>2, <1>3, <1>7 DEF LayoutType, file
  <1>9. PlaceInv'
    <2>1. ForkLength' <= allocated'
      BY <1>1, <1>2, <1>7 DEF ForkLength
    <2>2. Incremental => currBlock <= outBufSize'
      BY <1>3, <1>7 DEF PlaceInv
    <2> HIDE DEF numBlocks, TableEnd, Incremental
    <2>3. QED
      BY <1>1, <1>2, <1>7, <2>1, <2>2 DEF PlaceInv
  <1>10. MemoryInv'
    <2>1. memory' \in {memory, memory \cup {e}} /\ (comptype # "ZLIB" => memory' = memory)
      BY <1>1, <1>6
    <2>2. \A f \in memory : f.at + f.size <= allocated' /\ f.at # currBlock
      BY <1>3, <1>5, <1>7
    <2>3. comptype = "ZLIB" => e.at + e.size <= allocated'
      BY <1>4, <1>7 DEF TrailerSize
    <2>4. \A f, g \in memory' : f.at = g.at => f = g
      BY <1>4, <1>5, <2>1, <2>2
    <2>5. QED
      BY <1>1, <1>3, <1>4, <1>5, <2>1, <2>2, <2>3, <2>4 DEF MemoryInv
  <1>11. TableInv'
    <2>1. memory \subseteq memory'
      BY <1>1, <1>6
    <2>2. ASSUME NEW b \in 0 .. blockNr - 1
          PROVE  Stored(b)'
      BY <1>1, <1>2, <2>1, <2>2 DEF TableInv, Stored, InTable
    <2>3. QED
      BY <1>1, <1>2, <2>2 DEF TableInv
  <1>12. QED
    BY <1>8, <1>9, <1>10, <1>11

\* decompressFile() accepts the fork ...
LEMMA ForkDecoded ==
    ASSUME LayoutInv, DecodeFork
    PROVE  /\ UNCHANGED <<file, blockNr, buffer, attribute>> /\ pc = "inFork"
           /\ pc' = "decoded" /\ decoded' = [i \in 1 .. numBlocks |-> i - 1]
  <1>1. /\ pc = "inFork" /\ comptype = "ZLIB"
        /\ UNCHANGED <<file, blockNr, buffer, attribute>>
        /\ IF ForkHeaderComplete /\ \A b \in 0 .. (Len(table) - 1) : BlockDecodes(b)
             THEN /\ decoded' = [i \in 1 .. Len(table) |->
                                   (CHOOSE e \in BlockExtent(i - 1) : TRUE).chunk]
                  /\ pc' = "decoded"
             ELSE pc' = "refused" /\ UNCHANGED decoded
    BY DEF DecodeFork
  <1>2. /\ filesize \in FileSizes /\ numBlocks \in Nat \ {0} /\ blockNr = numBlocks
        /\ currBlock \in Nat /\ filesize \in Nat /\ compblksize \in Nat
        /\ TableEnd = 264 + numBlocks * 8 /\ TableEnd <= currBlock
    BY <1>1, Blocks, TableSize, ChunkAssumption DEF LayoutInv, LayoutType, PlaceInv
  <1>3. Len(table) = numBlocks /\ \A b \in 0 .. numBlocks - 1 : Stored(b)
    BY <1>1, <1>2 DEF LayoutInv, TableInv
  <1>4. ForkLength = currBlock + 50
    BY <1>1 DEF ForkLength, TrailerSize
  <1>5. ForkHeaderComplete
    <2>1. compblksize * (numBlocks - 1) + (filesize % compblksize) <= filesize
      BY <1>2, Blocks
    <2> HIDE DEF numBlocks, TableEnd
    <2>2. QED
      BY <1>2, <1>3, <1>4, <2>1 DEF ForkHeaderComplete, BlockStart
  <1>6. ASSUME NEW b \in 0 .. numBlocks - 1
        PROVE  /\ BlockDecodes(b)
               /\ BlockExtent(b) # {} /\ \A e \in BlockExtent(b) : e.chunk = b
    <2>1. PICK e \in memory : /\ e.chunk = b /\ InTable(b, e)
                              /\ e.at + e.size <= currBlock
                              /\ e.raw => e.size - 1 = ChunkLength(b)
      BY <1>3, <1>6 DEF Stored
    <2>2. e.at = BlockStart + table[b + 1].offset /\ e.size = table[b + 1].size
      BY <1>1, <2>1 DEF InTable
    <2>3. e \in BlockExtent(b)
      BY <2>2 DEF BlockExtent
    <2>4. \A f \in BlockExtent(b) : f = e
      BY <2>2 DEF BlockExtent, LayoutInv, MemoryInv
    <2>5. e.at \in Nat /\ e.size \in Nat
      BY DEF LayoutInv, MemoryInv
    <2>6. compblksize * b + ChunkLength(b) <= filesize
      <3>1. b * compblksize + ChunkLength(b) <= filesize
        BY <1>2, Blocks
      <3>2. b * compblksize = compblksize * b
        BY <1>2
      <3>3. QED
        BY <3>1, <3>2
    <2>7. BlockStart + table[b + 1].offset + table[b + 1].size <= ForkLength
      <3>1. e.at + e.size <= ForkLength
        BY <1>2, <1>4, <2>1, <2>5
      <3>2. QED
        BY <2>2, <3>1
    <2>8. e.chunk >= 0 /\ (IF e.raw THEN e.size - 1 ELSE ChunkLength(e.chunk)) = ChunkLength(b)
      BY <2>1
    <2>9. BlockDecodes(b)
      BY <2>3, <2>6, <2>7, <2>8 DEF BlockDecodes
    <2>10. QED
      BY <2>1, <2>3, <2>4, <2>9
  <1>7. /\ pc' = "decoded"
        /\ decoded' = [i \in 1 .. numBlocks |-> (CHOOSE e \in BlockExtent(i - 1) : TRUE).chunk]
    BY <1>1, <1>3, <1>5, <1>6
  <1>8. \A i \in 1 .. numBlocks : (CHOOSE e \in BlockExtent(i - 1) : TRUE).chunk = i - 1
    <2>1. ASSUME NEW i \in 1 .. numBlocks
          PROVE  (CHOOSE e \in BlockExtent(i - 1) : TRUE).chunk = i - 1
      <3>1. i - 1 \in 0 .. numBlocks - 1
        BY <1>2
      <3>2. (CHOOSE e \in BlockExtent(i - 1) : TRUE) \in BlockExtent(i - 1)
        BY <1>6, <3>1
      <3>3. QED
        BY <1>6, <3>1, <3>2
    <2>2. QED
      BY <2>1
  <1>9. QED
    BY <1>1, <1>7, <1>8

\* ... and the kernel its table of starts.
LEMMA KernelDecoded ==
    ASSUME LayoutInv, KernelDecodesFork
    PROVE  /\ UNCHANGED <<file, blockNr, buffer, attribute>> /\ pc = "inFork"
           /\ pc' = "decoded" /\ decoded' = [i \in 1 .. numBlocks |-> i - 1]
  <1> DEFINE Found(b) == {e \in memory : e.at = table[b + 1] /\ e.at + e.size = table[b + 2]}
  <1>1. /\ pc = "inFork" /\ comptype # "ZLIB"
        /\ UNCHANGED <<file, blockNr, buffer, attribute>>
        /\ IF \A b \in 0 .. (numBlocks - 1) : Found(b) # {} /\ table[b + 2] <= ForkLength
             THEN /\ decoded' = [i \in 1 .. numBlocks |-> (CHOOSE e \in Found(i - 1) : TRUE).chunk]
                  /\ pc' = "decoded"
             ELSE pc' = "refused" /\ UNCHANGED decoded
    BY DEF KernelDecodesFork
  <1>2. numBlocks \in Nat \ {0} /\ blockNr = numBlocks /\ currBlock \in Nat /\ outBufSize \in Nat
    BY <1>1, Blocks DEF LayoutInv, LayoutType
  <1>3. \A b \in 0 .. numBlocks - 1 : Stored(b)
    BY <1>2 DEF LayoutInv, TableInv
  <1>4. ForkLength = outBufSize /\ currBlock <= outBufSize
    BY <1>1 DEF ForkLength, LayoutInv, PlaceInv, Incremental
  <1>5. ASSUME NEW b \in 0 .. numBlocks - 1
        PROVE  /\ Found(b) # {} /\ table[b + 2] <= ForkLength
               /\ \A e \in Found(b) : e.chunk = b
    <2>1. PICK e \in memory : /\ e.chunk = b /\ InTable(b, e)
                              /\ e.at + e.size <= currBlock
      BY <1>3, <1>5 DEF Stored
    <2>2. e.at = table[b + 1] /\ e.at + e.size = table[b + 2]
      BY <1>1, <2>1 DEF InTable
    <2>3. e \in Found(b) /\ \A f \in Found(b) : f = e
      BY <2>2 DEF LayoutInv, MemoryInv
    <2>4. e.at \in Nat /\ e.size \in Nat
      BY DEF LayoutInv, MemoryInv
    <2>5. table[b + 2] <= ForkLength
      <3>1. e.at + e.size <= ForkLength
        BY <1>2, <1>4, <2>1, <2>4
      <3>2. QED
        BY <2>2, <3>1
    <2>6. QED
      BY <2>1, <2>3, <2>5
  <1> HIDE DEF Found
  <1>6. /\ pc' = "decoded"
        /\ decoded' = [i \in 1 .. numBlocks |-> (CHOOSE e \in Found(i - 1) : TRUE).chunk]
    BY <1>1, <1>5
  <1>7. \A i \in 1 .. numBlocks : (CHOOSE e \in Found(i - 1) : TRUE).chunk = i - 1
    <2>1. ASSUME NEW i \in 1 .. numBlocks
          PROVE  (CHOOSE e \in Found(i - 1) : TRUE).chunk = i - 1
      <3>1. i - 1 \in 0 .. numBlocks - 1
        BY <1>2
      <3>2. (CHOOSE e \in Found(i - 1) : TRUE) \in Found(i - 1)
        BY <1>5, <3>1
      <3>3. QED
        BY <1>5, <3>1, <3>2
    <2>2. QED
      BY <2>1
  <1>8. QED
    BY <1>1, <1>6, <1>7

LEMMA AttributeDecoded ==
    ASSUME LayoutInv, DecodeAttribute
    PROVE  /\ UNCHANGED <<file, blockNr, buffer, attribute>> /\ attribute # NoChunk
           /\ pc' = "decoded" /\ decoded' = [i \in 1 .. numBlocks |-> i - 1]
  <1>1. /\ pc = "inAttribute" /\ UNCHANGED <<file, blockNr, buffer, attribute>>
        /\ IF attribute.size > 0 /\ (attribute.raw => attribute.size - 1 = filesize)
             THEN decoded' = <<attribute.chunk>> /\ pc' = "decoded"
             ELSE pc' = "refused" /\ UNCHANGED decoded
    BY DEF DecodeAttribute
  <1>2. /\ attribute # NoChunk /\ numBlocks = 1 /\ attribute.chunk = 0
        /\ attribute.size \in Nat \ {0} /\ (attribute.raw => attribute.size - 1 = filesize)
    BY <1>1 DEF LayoutInv, AttributeInv
  <1>3. pc' = "decoded" /\ decoded' = <<0>>
    BY <1>1, <1>2
  <1>4. <<0>> = [i \in 1 .. 1 |-> i - 1]
    OBVIOUS
  <1>5. QED
    BY <1>1, <1>2, <1>3, <1>4
LEMMA AttributeFilled ==
    ASSUME LayoutType, AttributeInv, NEW c \in Results, ChunkToAttribute(c)
    PROVE  /\ UNCHANGED <<file, blockNr, buffer, decoded>> /\ pc' = "inAttribute"
           /\ AttributeInv'
  <1>1. /\ pc = "chunk" /\ pc' = "inAttribute" /\ blockNr < numBlocks /\ FitsAttribute(c)
        /\ attribute' = Extent(HeaderSize, cmpedsize(c), blockNr, TooLarge(c))
        /\ UNCHANGED <<file, blockNr, buffer, decoded>>
    BY DEF ChunkToAttribute
  <1>2. /\ cmpedsize(c) \in Nat \ {0} /\ cmpedsize(c) + 16 <= MaxXattrSize /\ numBlocks <= 1
        /\ TooLarge(c) => cmpedsize(c) - 1 = ChunkLength(blockNr)
    BY <1>1, ResultSize DEF FitsAttribute, HeaderSize
  <1>3. numBlocks = 1 /\ blockNr = 0 /\ ChunkLength(0) = filesize
    <2>1. filesize \in FileSizes /\ numBlocks \in Nat \ {0} /\ blockNr \in 0 .. numBlocks
      BY Blocks DEF LayoutType
    <2>2. numBlocks = 1 /\ blockNr = 0
      BY <1>1, <1>2, <2>1
    <2>3. QED
      BY <2>1, <2>2, Blocks
  <1>4. numBlocks' = numBlocks /\ filesize' = filesize
    BY <1>1, SameFile
  <1>5. /\ attribute'.at = 16 /\ attribute'.size = cmpedsize(c) /\ attribute'.chunk = 0
        /\ attribute'.raw = TooLarge(c) /\ NoChunk.at = 0
    BY <1>1, <1>3 DEF Extent, HeaderSize, NoChunk
  <1>6. attribute' # NoChunk
    BY <1>5
  <1>7. attribute'.at + attribute'.size <= MaxXattrSize
    BY <1>2, <1>5, ChunkAssumption
  <1>8. TooLarge(c) => cmpedsize(c) - 1 = filesize
    BY <1>2, <1>3
  <1> HIDE DEF numBlocks, NoChunk, TooLarge, cmpedsize
  <1>9. QED
    BY <1>1, <1>2, <1>3, <1>4, <1>5, <1>6, <1>7, <1>8 DEF AttributeInv

LEMMA LayoutInit == ASSUME Init PROVE LayoutInv
  <1>1. /\ comptype \in CompTypes /\ filesize \in FileSizes
        /\ allowLargeBlocks \in BOOLEAN /\ singleShot \in BOOLEAN
        /\ blockNr = 0 /\ currBlock = TableEnd /\ currBlockOffset = 0
        /\ outBufSize = IF Incremental THEN TableEnd ELSE SingleShotSize(filesize)
        /\ allocated = outBufSize /\ currBlockLen = outBufSize - TableEnd
        /\ table = IF comptype = "ZLIB" THEN <<>> ELSE <<TableEnd>>
        /\ memory = {Extent(0, TableEnd, -1, FALSE)}
        /\ attribute = NoChunk /\ pc = "chunk"
    BY DEF Init
  <1>2. /\ filesize \in Nat \ {0} /\ numBlocks \in Nat \ {0} /\ TableEnd \in Nat \ {0}
        /\ comptype = "ZLIB" => TableEnd = 264 + numBlocks * 8
    BY <1>1, Blocks, TableSize
  <1>3. ~Incremental => /\ comptype = "ZLIB"
                        /\ outBufSize = filesize + 314 + numBlocks * 9
    BY <1>1 DEF Incremental, SingleShotSize, numBlocks
  <1>4. ~Incremental => /\ currBlockLen = filesize + TrailerSize + numBlocks
                        /\ outBufSize = TableEnd + currBlockLen
    <2> HIDE DEF numBlocks, TableEnd
    <2>1. QED
      BY <1>1, <1>2, <1>3 DEF TrailerSize
  <1>5. outBufSize \in Nat /\ outBufSize >= TableEnd /\ currBlockLen \in Nat
    <2>1. CASE Incremental
      BY <1>1, <1>2, <2>1
    <2>2. CASE ~Incremental
      <3> HIDE DEF numBlocks, TableEnd
      <3>1. QED
        BY <1>1, <1>2, <1>3, <1>4, <2>2 DEF TrailerSize
    <2>3. QED
      BY <2>1, <2>2
  <1>6. LayoutType
    BY <1>1, <1>2, <1>5 DEF LayoutType
  <1>7. PlaceInv
    <2>1. 0 * compblksize = 0 /\ TableEnd = TableEnd + 0
      BY <1>2, ChunkAssumption
    <2> HIDE DEF numBlocks, TableEnd, Incremental
    <2>2. /\ currBlockOffset <= blockNr + blockNr * compblksize
          /\ currBlockOffset <= blockNr + filesize
      BY <1>1, <1>2, <2>1
    <2>3. Incremental => currBlock <= outBufSize /\ allocated <= outBufSize + 1
      BY <1>1, <1>2
    <2>4. currBlock >= TableEnd /\ outBufSize <= allocated
      BY <1>1, <1>2, <1>5
    <2>5. QED
      BY <1>1, <1>4, <2>1, <2>2, <2>3, <2>4 DEF PlaceInv
  <1>8. MemoryInv
    BY <1>1, <1>2, <1>5 DEF MemoryInv, Extent
  <1>9. TableInv
    <2>1. <<>> \in Seq({}) /\ Len(<<>>) = 0
      OBVIOUS
    <2>2. <<TableEnd>> \in Seq({TableEnd}) /\ Len(<<TableEnd>>) = 1 /\ <<TableEnd>>[1] = TableEnd
      OBVIOUS
    <2>3. 0 .. blockNr - 1 = {} /\ blockNr + 1 = 1 /\ blockNr + 0 = 0
      BY <1>1
    <2>4. CASE comptype = "ZLIB"
      BY <1>1, <2>1, <2>3, <2>4 DEF TableInv
    <2>5. CASE comptype # "ZLIB"
      BY <1>1, <2>2, <2>3, <2>5 DEF TableInv
    <2>6. QED
      BY <2>4, <2>5
  <1>10. AttributeInv /\ DecodedInv
    BY <1>1 DEF AttributeInv, DecodedInv
  <1>11. QED
    BY <1>6, <1>7, <1>8, <1>9, <1>10 DEF LayoutInv

LEMMA LayoutStep == ASSUME LayoutInv, [Next]_vars PROVE LayoutInv'
  <1>1. ASSUME UNCHANGED <<file, blockNr, buffer, attribute>>,
               \/ pc' = "bail" /\ decoded' = decoded
               \/ /\ pc' = "decoded"
                  /\ pc = "inFork" \/ attribute # NoChunk
                  /\ decoded' = [i \in 1 .. numBlocks |-> i - 1]
        PROVE  LayoutInv'
    <2>1. PlaceInv' /\ MemoryInv' /\ TableInv'
      BY <1>1, BufferKept DEF LayoutInv
    <2>2. numBlocks' = numBlocks /\ filesize' = filesize
      BY <1>1, SameFile
    <2> HIDE DEF numBlocks, NoChunk
    <2>3. LayoutType'
      BY <1>1, <2>2 DEF LayoutInv, LayoutType, file, buffer
    <2>4. AttributeInv' /\ DecodedInv'
      BY <1>1, <2>2 DEF LayoutInv, AttributeInv, DecodedInv
    <2>5. QED
      BY <2>1, <2>3, <2>4 DEF LayoutInv
  <1>2. ASSUME ChunkRefused \/ ForkRejected
        PROVE  LayoutInv'
    BY <1>1, <1>2 DEF ChunkRefused, ForkRejected
  <1>3. ASSUME DecodeFork \/ KernelDecodesFork \/ DecodeAttribute
        PROVE  LayoutInv'
    BY <1>1, <1>3, ForkDecoded, KernelDecoded, AttributeDecoded
  <1>4. ASSUME NEW c \in Results, ChunkToAttribute(c)
        PROVE  LayoutInv'
    <2>1. /\ UNCHANGED <<file, blockNr, buffer, decoded>> /\ pc' = "inAttribute"
          /\ AttributeInv'
      BY <1>4, AttributeFilled DEF LayoutInv
    <2>2. PlaceInv' /\ MemoryInv' /\ TableInv'
      BY <2>1, BufferKept DEF LayoutInv
    <2>3. numBlocks' = numBlocks /\ filesize' = filesize
      BY <2>1, SameFile
    <2>4. LayoutType' /\ DecodedInv'
      BY <2>1, <2>3 DEF LayoutInv, LayoutType, DecodedInv, file, buffer
    <2>5. QED
      BY <2>1, <2>2, <2>4 DEF LayoutInv
  <1>5. ASSUME NEW c \in Results, ChunkToFork(c)
        PROVE  LayoutInv'
    <2>1. LayoutType' /\ PlaceInv' /\ MemoryInv' /\ TableInv'
      BY <1>5, ChunkPlaced DEF LayoutInv
    <2>2. pc = "chunk" /\ pc' = "chunk" /\ attribute' = attribute
      BY <1>5, Placed DEF LayoutInv
    <2>3. AttributeInv' /\ DecodedInv'
      BY <2>2 DEF LayoutInv, AttributeInv, DecodedInv
    <2>4. QED
      BY <2>1, <2>3 DEF LayoutInv
  <1>6. ASSUME WriteFork
        PROVE  LayoutInv'
    <2>1. LayoutType' /\ PlaceInv' /\ MemoryInv' /\ TableInv'
      BY <1>6, ForkWritten DEF LayoutInv
    <2>2. pc = "chunk" /\ pc' = "inFork" /\ attribute' = attribute
      BY <1>6 DEF WriteFork
    <2>3. AttributeInv' /\ DecodedInv'
      BY <2>2 DEF LayoutInv, AttributeInv, DecodedInv
    <2>4. QED
      BY <2>1, <2>3 DEF LayoutInv
  <1>7. ASSUME UNCHANGED vars
        PROVE  LayoutInv'
    <2>1. UNCHANGED <<file, blockNr, buffer, attribute, decoded, pc>>
      BY <1>7 DEF vars
    <2>2. PlaceInv' /\ MemoryInv' /\ TableInv'
      BY <2>1, BufferKept DEF LayoutInv
    <2>3. numBlocks' = numBlocks /\ filesize' = filesize
      BY <2>1, SameFile
    <2> HIDE DEF numBlocks, NoChunk
    <2>4. LayoutType' /\ AttributeInv' /\ DecodedInv'
      BY <2>1, <2>3 DEF LayoutInv, LayoutType, AttributeInv, DecodedInv, file, buffer
    <2>5. QED
      BY <2>2, <2>4 DEF LayoutInv
  <1>8. QED
    BY <1>2, <1>3, <1>4, <1>5, <1>6, <1>7 DEF Next, Terminated

LEMMA LayoutAlways == Spec => []LayoutInv
  <1>1. Init => LayoutInv
    BY LayoutInit
  <1>2. LayoutInv /\ [Next]_vars => LayoutInv'
    BY LayoutStep
  <1>3. QED
    BY <1>1, <1>2, PTL DEF Spec
-----------------------------------------------------------------------------
(* What follows of every behaviour.                                         *)

\* The loop of compressFile() (753-911) sees as many chunks as the table has entries
\* for, and those are all the file has.
THEOREM TypeCorrect == Spec => []TypeOK
  <1>1. LayoutInv => TypeOK
    <2> SUFFICES ASSUME LayoutInv PROVE TypeOK
      OBVIOUS
    <2>1. filesize \in FileSizes /\ blockNr \in 0 .. numBlocks
      BY DEF LayoutInv, LayoutType
    <2>2. inBufPos < filesize + compblksize
      BY <2>1, Blocks DEF inBufPos
    <2>3. pc \in {"inFork", "decoded"} /\ attribute = NoChunk => inBufPos >= filesize
      <3>1. numBlocks * compblksize >= filesize
        <4>1. /\ filesize <= numBlocks * compblksize /\ filesize \in Nat
              /\ numBlocks * compblksize \in Nat
          BY <2>1, Blocks, ChunkAssumption
        <4>2. QED
          BY <4>1
      <3>2. QED
        BY <3>1 DEF LayoutInv, LayoutType, inBufPos
    <2>4. attribute.size \in Nat
      <3>1. NoChunk.size = 0
        BY DEF NoChunk, Extent
      <3>2. QED
        BY <3>1 DEF LayoutInv, AttributeInv
    <2>5. Len(table) = blockNr + IF comptype = "ZLIB" THEN 0 ELSE 1
      BY DEF LayoutInv, TableInv
    <2> HIDE DEF numBlocks, NoChunk, inBufPos
    <2>6. QED
      BY <2>1, <2>2, <2>3, <2>4, <2>5 DEF LayoutInv, LayoutType, TypeOK
  <1>2. QED
    BY <1>1, LayoutAlways, PTL

\* Whatever the compressor returns, no memcpy() of the encoder, no trailer and no length
\* passed to setxattr() goes past what has been allocated (afsctool.c:900-907): the
\* room that ZLIB_SINGLESHOT_OUTBUF reserves at first is enough to the byte.
THEOREM StaysInBounds == Spec => []InBounds
  <1>1. LayoutInv => InBounds
    BY DEF LayoutInv, LayoutType, PlaceInv, MemoryInv, AttributeInv, InBounds
  <1>2. QED
    BY <1>1, LayoutAlways, PTL

\* What the encoder writes (602-1040) decompressFile() accepts (1400-1560), and each
\* chunk comes back in its place, whatever the sizes of the file and its chunks.
THEOREM ComesBack == Spec => []RoundTrips
  <1>1. LayoutInv => RoundTrips
    BY DEF LayoutInv, LayoutType, DecodedInv, RoundTrips
  <1>2. QED
    BY <1>1, LayoutAlways, PTL
=============================================================================
