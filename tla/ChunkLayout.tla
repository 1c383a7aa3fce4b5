---------------------------- MODULE ChunkLayout ----------------------------
(***************************************************************************)
(* The chunked encoding of compressFile() and its reading back, of         *)
(* afsctool.c: where in outBuf each compressed chunk, the table of chunks  *)
(* and the trailer go, how outBuf grows, when a chunk is stored as it is   *)
(* and when the only chunk goes into the attribute; and what               *)
(* decompressFile() makes of the result.                                   *)
(*                                                                         *)
(* A compressor is what it says of the size of its result.  Memory is the  *)
(* set of extents last written: writing over any byte of one destroys it.  *)
(***************************************************************************)
EXTENDS Integers, FiniteSets, Sequences

CONSTANTS
    compblksize,        \* 0x10000
    MaxXattrSize,       \* MAX_DECMPFS_XATTR_SIZE
    MaxSupportedSize,   \* CMP_MAX_SUPPORTED_SIZE
    FileSizes,          \* sizes of files
    CompressedSizes,    \* sizes a compressor may return, whatever the chunk
    Deltas              \* and by how much more or less than the chunk

ASSUME ChunkAssumption ==
    /\ compblksize \in Nat \ {0} /\ MaxXattrSize \in Nat /\ MaxSupportedSize \in Nat
    /\ FileSizes \subseteq Nat \ {0} /\ CompressedSizes \subseteq Nat /\ Deltas \subseteq Int

VARIABLES
    comptype, filesize, allowLargeBlocks,
    singleShot,         \* built with ZLIB_SINGLESHOT_OUTBUF?
    blockNr,
    outBufSize,
    allocated,          \* what outBuf points to
    currBlock,          \* as an offset in outBuf
    currBlockOffset, currBlockLen,
    table,              \* the block table of ZLIB, chunkTable of the others
    memory,             \* the extents of outBuf
    attribute,          \* what follows the header in outdecmpfsBuf, or NoChunk
    decoded,            \* what decompressFile() makes of it
    pc

file == <<comptype, filesize, allowLargeBlocks, singleShot>>
buffer == <<outBufSize, allocated, currBlock, currBlockOffset, currBlockLen, table, memory>>
vars == <<file, blockNr, buffer, attribute, decoded, pc>>

CompTypes == {"ZLIB", "LZVN", "LZFSE"}
HeaderSize == 16        \* sizeof(decmpfs_disk_header)
TrailerSize == 50       \* sizeof(decmpfs_resource_zlib_trailer)
BlockStart == 260       \* 0x104

Extent(at, size, chunk, raw) == [at |-> at, size |-> size, chunk |-> chunk, raw |-> raw]
NoChunk == Extent(0, 0, -1, FALSE)

Overlap(e, f) == e.at < f.at + f.size /\ f.at < e.at + e.size
Written(mem, e) == {f \in mem : ~Overlap(e, f)} \cup {e}

\* A slip: as many blocks as are full.
FullBlocksOf(size) == IF size < compblksize THEN 1 ELSE size \div compblksize

BlocksOf(size) == (size + compblksize - 1) \div compblksize
numBlocks == BlocksOf(filesize)
inBufPos == blockNr * compblksize
ChunkLength(b) ==
    IF filesize - b * compblksize > compblksize THEN compblksize ELSE filesize - b * compblksize
bytesAfterCursor == ChunkLength(blockNr)

compressBound(n) == n + n \div 4096 + n \div 16384 + 13
Incremental == comptype # "ZLIB" \/ ~singleShot
-----------------------------------------------------------------------------
(* More slips this code could contain, variants of the definitions below.   *)

\* room for the header, the table and the file, not for the 0xFF of raw chunks
SingleShotTight(size) == size + 264 + BlocksOf(size) * 8

\* a raw chunk without its 0xFF counted
RawUncounted(size) == IF size > bytesAfterCursor THEN bytesAfterCursor ELSE size

\* offsets from the start of the fork
FromForkStart(at) == at
-----------------------------------------------------------------------------
\* What is first allocated for ZLIB_SINGLESHOT_OUTBUF.
SingleShotSize(size) == size + 314 + BlocksOf(size) * 9

TableEnd == IF comptype = "ZLIB" THEN BlockStart + 4 + numBlocks * 8 ELSE (numBlocks + 1) * 4

\* Only files CMP_MAX_SUPPORTED_SIZE has room for get here.
Init ==
    /\ comptype \in CompTypes /\ filesize \in FileSizes
    /\ allowLargeBlocks \in BOOLEAN /\ singleShot \in BOOLEAN
    /\ filesize + 314 + numBlocks * 9 <= MaxSupportedSize
    /\ blockNr = 0
    /\ outBufSize = IF Incremental THEN TableEnd ELSE SingleShotSize(filesize)
    /\ allocated = outBufSize
    /\ currBlock = TableEnd
    /\ currBlockOffset = 0
    /\ currBlockLen = outBufSize - TableEnd
    /\ table = IF comptype = "ZLIB" THEN <<>> ELSE <<TableEnd>>
    /\ memory = {Extent(0, TableEnd, -1, FALSE)}
    /\ attribute = NoChunk
    /\ decoded = <<>>
    /\ pc = "chunk"

\* What the compressor may make of the chunk; its buffer is compressBound() for
\* ZLIB, and taken to be large enough for the others.
Results ==
    {c \in CompressedSizes \cup {bytesAfterCursor + d : d \in Deltas} :
        c \in 1..compressBound(bytesAfterCursor)}

supportsLargeBlocks == comptype = "ZLIB"
TooLarge(c) == supportsLargeBlocks /\ c > bytesAfterCursor
StoredSize(c) == IF c > bytesAfterCursor THEN bytesAfterCursor + 1 ELSE c
cmpedsize(c) == IF TooLarge(c) THEN StoredSize(c) ELSE c
FitsAttribute(c) == cmpedsize(c) + HeaderSize <= MaxXattrSize /\ numBlocks <= 1

\* The offset the block table holds is from blockStart, chunkTable's from outBuf.
TableOffset(at) == at - BlockStart

\* compress2() or lzvn_encode_buffer() fails, or a whole chunk grows and
\* allowLargeBlocks is not given.
ChunkRefused ==
    /\ pc = "chunk" /\ blockNr < numBlocks
    /\ pc' = "bail"
    /\ UNCHANGED <<file, blockNr, buffer, attribute, decoded>>

\* The only chunk, small enough; outBuf has grown, for nothing.
ChunkToAttribute(c) ==
    /\ pc = "chunk" /\ blockNr < numBlocks
    /\ TooLarge(c) => allowLargeBlocks \/ bytesAfterCursor < compblksize
    /\ FitsAttribute(c)
    /\ attribute' = Extent(HeaderSize, cmpedsize(c), blockNr, TooLarge(c))
    /\ pc' = "inAttribute"
    /\ UNCHANGED <<file, blockNr, buffer, decoded>>

\* outBuf is made to grow by what the compressor has returned, before a raw
\* chunk takes the place of it.
Grow(c) ==
    IF Incremental
      THEN /\ outBufSize' = outBufSize + c
           /\ allocated' = outBufSize' + IF comptype = "ZLIB" THEN 1 ELSE 0
           /\ currBlockLen' = outBufSize'
      ELSE UNCHANGED <<outBufSize, allocated, currBlockLen>>

ChunkToFork(c) ==
    /\ pc = "chunk" /\ blockNr < numBlocks
    /\ TooLarge(c) => allowLargeBlocks \/ bytesAfterCursor < compblksize
    /\ ~FitsAttribute(c)
    /\ Grow(c)
    /\ LET offset == IF Incremental /\ currBlockOffset = 0 THEN outBufSize ELSE currBlockOffset
           at == IF Incremental THEN offset ELSE currBlock
           size == cmpedsize(c)
       IN IF offset + size <= currBlockLen'
            THEN /\ memory' = Written(memory, Extent(at, size, blockNr, TooLarge(c)))
                 /\ table' = IF comptype = "ZLIB"
                               THEN Append(table, [offset |-> TableOffset(at), size |-> size])
                               ELSE Append(table, table[Len(table)] + c)
                 /\ currBlock' = at + size
                 /\ currBlockOffset' = offset + size
                 /\ blockNr' = blockNr + 1
                 /\ pc' = "chunk"
            ELSE /\ pc' = "overrun"
                 /\ UNCHANGED <<memory, table, currBlock, currBlockOffset, blockNr>>
    /\ UNCHANGED <<file, attribute, decoded>>

newSize == currBlock + HeaderSize + TrailerSize
ForkLength == IF comptype = "ZLIB" THEN currBlock + TrailerSize ELSE outBufSize

\* Not smaller than the file, or not by as much as minSavings asks for.
ForkRejected ==
    /\ pc = "chunk" /\ blockNr >= numBlocks
    /\ pc' = "bail"
    /\ UNCHANGED <<file, blockNr, buffer, attribute, decoded>>

\* The trailer of a ZLIB fork, and what is passed to setxattr().
WriteFork ==
    /\ pc = "chunk" /\ blockNr >= numBlocks
    /\ newSize < filesize
    /\ IF comptype = "ZLIB"
         THEN /\ memory' = Written(memory, Extent(currBlock, TrailerSize, -2, FALSE))
              /\ IF Incremental
                   THEN /\ outBufSize' = outBufSize + currBlock + TrailerSize
                        /\ allocated' = outBufSize' + 1
                   ELSE UNCHANGED <<outBufSize, allocated>>
         ELSE UNCHANGED <<memory, outBufSize, allocated>>
    /\ pc' = "inFork"
    /\ UNCHANGED <<file, blockNr, currBlock, currBlockOffset, currBlockLen, table,
                   attribute, decoded>>
-----------------------------------------------------------------------------
(* decompressFile() on CMP_ZLIB_*; the others are the kernel's to decode.   *)

ForkHeaderComplete ==
    /\ ForkLength >= 314
    /\ ForkLength >= BlockStart - 4 + 58 + numBlocks * 8
    /\ compblksize * (Len(table) - 1) + (filesize % compblksize) <= filesize

\* Where the extent of the b'th entry is; a size of which nothing was written
\* does not inflate.
BlockExtent(b) ==
    LET entry == table[b + 1]
    IN {e \in memory : e.at = BlockStart + entry.offset /\ e.size = entry.size}

BlockDecodes(b) ==
    LET entry == table[b + 1]
    IN /\ BlockStart + entry.offset + entry.size <= ForkLength
       /\ compblksize * b + ChunkLength(b) <= filesize
       /\ \E e \in BlockExtent(b) :
            LET uncmpedsize == IF e.raw THEN e.size - 1 ELSE ChunkLength(e.chunk)
            IN e.chunk >= 0 /\ uncmpedsize = ChunkLength(b)

DecodeFork ==
    /\ pc = "inFork" /\ comptype = "ZLIB"
    /\ IF ForkHeaderComplete /\ \A b \in 0..(Len(table) - 1) : BlockDecodes(b)
         THEN /\ decoded' = [i \in 1..Len(table) |-> (CHOOSE e \in BlockExtent(i - 1) : TRUE).chunk]
              /\ pc' = "decoded"
         ELSE pc' = "refused" /\ UNCHANGED decoded
    /\ UNCHANGED <<file, blockNr, buffer, attribute>>

\* For the others this is the kernel's table of the chunks' starts.
KernelDecodesFork ==
    /\ pc = "inFork" /\ comptype # "ZLIB"
    /\ LET Found(b) == {e \in memory : e.at = table[b + 1] /\ e.at + e.size = table[b + 2]}
       IN IF \A b \in 0..(numBlocks - 1) : Found(b) # {} /\ table[b + 2] <= ForkLength
            THEN /\ decoded' = [i \in 1..numBlocks |-> (CHOOSE e \in Found(i - 1) : TRUE).chunk]
                 /\ pc' = "decoded"
            ELSE pc' = "refused" /\ UNCHANGED decoded
    /\ UNCHANGED <<file, blockNr, buffer, attribute>>

DecodeAttribute ==
    /\ pc = "inAttribute"
    /\ IF attribute.size > 0 /\ (attribute.raw => attribute.size - 1 = filesize)
         THEN decoded' = <<attribute.chunk>> /\ pc' = "decoded"
         ELSE pc' = "refused" /\ UNCHANGED decoded
    /\ UNCHANGED <<file, blockNr, buffer, attribute>>

Terminated == pc \in {"bail", "overrun", "decoded", "refused"} /\ UNCHANGED vars

Next ==
    \/ ChunkRefused
    \/ \E c \in Results : ChunkToAttribute(c) \/ ChunkToFork(c)
    \/ ForkRejected
    \/ WriteFork
    \/ DecodeFork
    \/ KernelDecodesFork
    \/ DecodeAttribute
    \/ Terminated

Spec == Init /\ [][Next]_vars
-----------------------------------------------------------------------------
\* The loop (753-911) sees as many chunks as numBlocks announces to the reader,
\* and fills the table that was allocated for that many.
TypeOK ==
    /\ comptype \in CompTypes /\ filesize \in FileSizes
    /\ allowLargeBlocks \in BOOLEAN /\ singleShot \in BOOLEAN
    /\ blockNr \in 0..numBlocks
    /\ inBufPos < filesize + compblksize
    /\ pc \in {"inFork", "decoded"} /\ attribute = NoChunk => inBufPos >= filesize
    /\ {outBufSize, allocated, currBlock, currBlockOffset, currBlockLen} \subseteq Nat
    /\ Len(table) = blockNr + IF comptype = "ZLIB" THEN 0 ELSE 1
    /\ attribute.size \in Nat
    /\ pc \in {"chunk", "inAttribute", "inFork", "bail", "overrun", "decoded", "refused"}

\* No memcpy() of the encoder and no trailer goes past what is allocated (the
\* checks at 900-907 say that they might), whatever the compressor returns; nor
\* does the length passed to setxattr().
InBounds ==
    /\ pc # "overrun"
    /\ \A e \in memory : e.at + e.size <= allocated
    /\ pc = "inFork" => ForkLength <= allocated
    /\ attribute # NoChunk => attribute.at + attribute.size <= MaxXattrSize

\* What the encoder of compressFile() (602-1040) writes, the checks of
\* decompressFile() (1400-1560) accept, and each chunk comes back in its place:
\* none is overwritten by another, by the table or by the trailer.
RoundTrips ==
    /\ pc # "refused"
    /\ pc = "decoded" => decoded = [i \in 1..numBlocks |-> i - 1]
=============================================================================
