---------------------------- MODULE FileIOProofs ----------------------------
(***************************************************************************)
(* Proofs about FileIO, for every size of block, every device and writes   *)
(* of any length: as long as no write overwrites, n_bytes is the size of   *)
(* the file; as long as writes only append, what was written is read back. *)
(*                                                                         *)
(* The argument: with a start at the end of the file, the blocks hold      *)
(* `want' at the positions of the file and the written part of `buf'       *)
(* behind it, and the iterator's next block is where the next byte goes    *)
(* (Placed), because either the write ends in its first block or it begins *)
(* at the beginning of one.                                                *)
(***************************************************************************)
EXTENDS FileIO, SequenceTheorems, WellFoundedInduction, TLAPS

(* The kinds of writes that the code gets right: the size is right without *)
(* overwriting, the contents without straddling too.                       *)
NoOverwrites == Kinds \subseteq {"append", "straddle"}
AppendsOnly == Kinds \subseteq {"append"}

(* Byte p of the file, from 0.                                             *)
ByteAt(p) == blocks[p \div BlockSize + 1][(p % BlockSize) + 1]

-----------------------------------------------------------------------------
(* Arithmetic                                                              *)
LEMMA BlockSizeType == BlockSize \in Nat \ {0} /\ BlockSize \in Int /\ BlockSize > 0
  BY FileAssumption

LEMMA Division ==
    ASSUME NEW a \in Nat, NEW k \in Nat, k > 0
    PROVE  /\ a \div k \in Nat /\ a % k \in 0 .. k - 1
           /\ a = (a \div k) * k + (a % k)
  OBVIOUS

LEMMA DivisionUnique ==
    ASSUME NEW q \in Nat, NEW r \in Nat, NEW k \in Nat, r < k
    PROVE  (q * k + r) \div k = q /\ (q * k + r) % k = r
  OBVIOUS

(* Rows do not overlap.                                                    *)
LEMMA MulMono ==
    ASSUME NEW n \in Nat, NEW a \in Int, NEW b \in Int, a < b
    PROVE  a * n + n <= b * n
  OBVIOUS

(* Enough blocks are enough.                                               *)
LEMMA CeilCovers ==
    ASSUME NEW n \in Nat, NEW d \in Nat, d > 0
    PROVE  Ceil(n, d) \in Nat /\ n <= Ceil(n, d) * d
<1>1. n + d - 1 \in Nat
  OBVIOUS
<1> DEFINE q == (n + d - 1) \div d
           r == (n + d - 1) % d
<1>2. q \in Nat /\ r \in 0 .. d - 1 /\ n + d - 1 = q * d + r
  BY <1>1, Division
<1>3. q * d \in Nat
  BY <1>2
<1>4. Ceil(n, d) = q
  BY DEF Ceil
<1> HIDE DEF q, r
<1> QED
  BY <1>2, <1>3, <1>4

LEMMA LeastNat ==
    ASSUME NEW S, S \subseteq Nat, S # {}
    PROVE  \E m \in S : \A k \in S : m <= k
<1>1. PICK m \in S : \A k \in S : <<k, m>> \notin OpToRel(<, Nat)
  BY WFMin, NatLessThanWellFounded, Zenon
<1>2. \A k \in S : ~(k < m)
  BY <1>1, Zenon DEF OpToRel
<1> QED
  BY <1>2

-----------------------------------------------------------------------------
(* The size                                                                *)

(* FileTypeOK, and what is known of a write that runs.                     *)
SizeInv ==
    /\ FileTypeOK
    /\ n_bytes = Len(want)
    /\ want \in Seq(Bytes)
    /\ block \in Nat
    /\ Len(want) <= MaxBytes
    /\ pc = "alloc" => /\ start = n_bytes
                       /\ length > 0 /\ start + length <= MaxBytes

(* What an appended file should hold.                                      *)
LEMMA OverwrittenAtEnd ==
    ASSUME NEW S, NEW old \in Seq(S), NEW data \in Seq(S)
    PROVE  /\ Overwritten(old, Len(old), data) \in Seq(S)
           /\ Overwritten(old, Len(old), data) = old \o data
<1>1. SubSeq(old, 1, Len(old)) = old
  OBVIOUS
<1>2. SubSeq(old, Len(old) + Len(data) + 1, Len(old)) = <<>>
  OBVIOUS
<1>3. old \o data \in Seq(S) /\ (old \o data) \o <<>> = old \o data
  OBVIOUS
<1> QED
  BY <1>1, <1>2, <1>3 DEF Overwritten

LEMMA SizeInit == FileInit => SizeInv
  BY FileAssumption DEF FileInit, SizeInv, FileTypeOK, length, Idle

LEMMA SizeWrite ==
    ASSUME SizeInv, NoOverwrites, NEW from \in 0 .. MaxBytes, NEW n \in 1 .. MaxLength,
           NEW data \in [1 .. n -> Bytes], Write(from, data)
    PROVE  SizeInv'
<1>1. data \in Seq(Bytes) /\ Len(data) = n /\ n \in Nat
  BY FileAssumption
<1>2. from = n_bytes
  BY BlockSizeType DEF Write, KindOf, NoOverwrites, SizeInv, FileTypeOK
<1>3. from \div BlockSize + 1 \in Nat
  BY BlockSizeType, Division, FileAssumption
<1>4. writes' \in 0 .. MaxWrites
  BY FileAssumption DEF SizeInv, FileTypeOK, Write
<1>5. FileTypeOK'
  BY <1>1, <1>4, FileAssumption DEF SizeInv, FileTypeOK, Write, length
<1> QED
  BY <1>1, <1>2, <1>3, <1>5, FileAssumption DEF SizeInv, Write, length

LEMMA AmountType ==
    ASSUME SizeInv, bytes_written < length
    PROVE  /\ Amount \in Nat /\ 0 < Amount /\ Amount <= BlockSize
           /\ bytes_written + Amount <= length
           /\ Amount < BlockSize => bytes_written + Amount = length
           /\ Offset \in 0 .. BlockSize - 1
           /\ length \in Nat /\ bytes_written \in Nat
<1>1. length \in Nat /\ bytes_written \in Nat /\ start \in Nat
  BY FileAssumption DEF SizeInv, FileTypeOK, length
<1>2. Offset \in 0 .. BlockSize - 1
  BY <1>1, BlockSizeType, Division DEF Offset
<1> QED
  BY <1>1, <1>2, BlockSizeType DEF Amount, Least

LEMMA OverlaidType ==
    ASSUME SizeInv, bytes_written < length, NEW old \in Block
    PROVE  Overlaid(old) \in Block
<1> SUFFICES ASSUME NEW k \in 1 .. BlockSize
             PROVE  (IF Offset < k /\ k <= Offset + Amount
                     THEN buf[bytes_written + k - Offset] ELSE old[k]) \in Bytes \union {0}
  BY DEF Overlaid, Block
<1>1. old[k] \in Bytes \union {0}
  BY DEF Block
<1>2. ASSUME Offset < k, k <= Offset + Amount
      PROVE  buf[bytes_written + k - Offset] \in Bytes
  <2>1. bytes_written + k - Offset \in 1 .. Len(buf)
    BY <1>2, AmountType, BlockSizeType DEF length
  <2> QED
    BY <2>1 DEF SizeInv, FileTypeOK
<1> QED
  BY <1>1, <1>2

LEMMA SizeAlloc ==
    ASSUME SizeInv, Alloc
    PROVE  SizeInv'
<1>1. ZeroBlock \in Block
  BY DEF ZeroBlock, Block
<1>2. blocks' \in Seq(Block) /\ spare' \in 0 .. SpareBlocks
  BY <1>1, FileAssumption DEF SizeInv, FileTypeOK, Alloc
<1> QED
  BY <1>2 DEF SizeInv, FileTypeOK, Alloc, request, length

LEMMA SizeWriteBlock ==
    ASSUME SizeInv, WriteBlock
    PROVE  SizeInv'
<1>1. bytes_written < length
  BY DEF WriteBlock
<1>2. bytes_written' \in 0 .. length /\ length' = length
  BY <1>1, AmountType DEF WriteBlock, length
<1>3. ZeroBlock \in Block
  BY DEF ZeroBlock, Block
<1>4. blocks' \in Seq(Block)
  <2> DEFINE old == IF Offset # 0 THEN blocks[block] ELSE ZeroBlock
  <2>1. blocks \in Seq(Block) /\ blocks' = [blocks EXCEPT ![block] = Overlaid(old)]
    BY DEF SizeInv, FileTypeOK, WriteBlock
  <2>2. ASSUME block \in DOMAIN blocks PROVE Overlaid(old) \in Block
    BY <1>1, <1>3, <2>1, <2>2, OverlaidType
  <2> HIDE DEF old
  <2>3. CASE block \in DOMAIN blocks
    <3>1. Overlaid(old) \in Block /\ block \in 1 .. Len(blocks)
      BY <2>1, <2>2, <2>3
    <3> QED
      BY <3>1, <2>1, ExceptSeq
  <2>4. CASE block \notin DOMAIN blocks
    <3>1. blocks' = blocks
      BY <2>1, <2>4
    <3> QED
      BY <3>1, <2>1
  <2> QED
    BY <2>3, <2>4
<1>5. block' \in Nat
  BY DEF WriteBlock, SizeInv
<1> QED
  BY <1>2, <1>4, <1>5 DEF SizeInv, FileTypeOK, WriteBlock, length

LEMMA SizeWriteInode ==
    ASSUME SizeInv, WriteInode
    PROVE  SizeInv'
<1>1. bytes_written = length /\ start = Len(want) /\ pc = "alloc"
  BY FileAssumption DEF WriteInode, SizeInv, FileTypeOK, length
<1>2. want' = want \o buf /\ want' \in Seq(Bytes)
  BY <1>1, OverwrittenAtEnd DEF WriteInode, SizeInv, FileTypeOK
<1>3. Len(want') = Len(want) + Len(buf)
  BY <1>2 DEF SizeInv, FileTypeOK
<1>4. n_bytes' = Len(want') /\ n_bytes' \in Nat /\ n_bytes' <= MaxBytes
  BY <1>1, <1>3 DEF SizeInv, FileTypeOK, WriteInode, length
<1> QED
  BY <1>2, <1>4, FileAssumption DEF SizeInv, FileTypeOK, WriteInode, Return, length

LEMMA SizeCrash ==
    ASSUME SizeInv, Crash
    PROVE  SizeInv'
  BY FileAssumption DEF SizeInv, FileTypeOK, Crash, Return, length

LEMMA SizeStutter ==
    ASSUME SizeInv, UNCHANGED fileVars
    PROVE  SizeInv'
  BY DEF SizeInv, FileTypeOK, fileVars, request, length

LEMMA SizeStep == SizeInv /\ NoOverwrites /\ [FileNext]_fileVars => SizeInv'
<1> SUFFICES ASSUME SizeInv, NoOverwrites, [FileNext]_fileVars PROVE SizeInv'
  OBVIOUS
<1>1. ASSUME NEW from \in 0 .. MaxBytes, NEW n \in 1 .. MaxLength,
             NEW data \in [1 .. n -> Bytes], Write(from, data)
      PROVE  SizeInv'
  BY <1>1, SizeWrite
<1>2. CASE Read \/ AllocFails \/ UNCHANGED fileVars
  BY <1>2, SizeStutter DEF Read, AllocFails
<1> QED
  BY <1>1, <1>2, SizeAlloc, SizeWriteBlock, SizeWriteInode, SizeCrash DEF FileNext, Resume

(* n_bytes is the number of bytes of the file, and everything keeps its    *)
(* type, as long as no write covers bytes that are there: for every size   *)
(* of block, any number of writes and crashes.                             *)
THEOREM SizeIsTrue ==
    ASSUME NoOverwrites
    PROVE  FileSpec => []SizeTrue
<1>1. SizeInv => SizeTrue
  BY DEF SizeInv, SizeTrue
<1> QED
  BY <1>1, SizeInit, SizeStep, PTL DEF FileSpec

-----------------------------------------------------------------------------
(* The contents                                                            *)

(* The next byte of the write goes to the next block of the iterator, at   *)
(* the offset it uses; a write that begins inside a block ends in it.      *)
Placed ==
    /\ block >= 1
    /\ (block - 1) * BlockSize + Offset = start + bytes_written
    /\ Offset # 0 => Offset + length <= BlockSize

DataInv ==
    /\ Len(want) <= Len(blocks) * BlockSize
    /\ \A p \in 0 .. Len(want) - 1 : ByteAt(p) = want[p + 1]
    /\ pc = "alloc" =>
           /\ bytes_written < length => Placed
           /\ bytes_written > 0 => Len(blocks) >= Needed
           /\ \A q \in 0 .. bytes_written - 1 : ByteAt(start + q) = buf[q + 1]

(* A position within the blocks is a byte of one of them.                  *)
LEMMA Position ==
    ASSUME NEW p \in Nat, NEW n \in Nat, p < n * BlockSize
    PROVE  /\ p \div BlockSize + 1 \in 1 .. n /\ (p % BlockSize) + 1 \in 1 .. BlockSize
           /\ p = (p \div BlockSize) * BlockSize + (p % BlockSize)
<1> DEFINE q == p \div BlockSize
           r == p % BlockSize
<1>1. q \in Nat /\ r \in 0 .. BlockSize - 1 /\ p = q * BlockSize + r
  BY BlockSizeType, Division
<1> HIDE DEF q, r
<1>2. q < n
  <2> SUFFICES ASSUME n <= q PROVE FALSE
    BY <1>1
  <2>1. n * BlockSize <= q * BlockSize
    BY <1>1, BlockSizeType, MulMono
  <2> QED
    BY <1>1, <2>1, BlockSizeType
<1>3. q + 1 \in 1 .. n /\ r + 1 \in 1 .. BlockSize
  BY <1>1, <1>2, BlockSizeType
<1> QED
  BY <1>1, <1>3 DEF q, r

(* And every byte of a block has its position.                             *)
LEMMA PositionOf ==
    ASSUME NEW b \in Nat, b >= 1, NEW k \in 1 .. BlockSize
    PROVE  LET p == (b - 1) * BlockSize + (k - 1)
           IN  p \in Nat /\ p \div BlockSize + 1 = b /\ (p % BlockSize) + 1 = k
<1>1. b - 1 \in Nat /\ k - 1 \in Nat /\ k - 1 < BlockSize /\ (b - 1) * BlockSize \in Nat
  BY BlockSizeType
<1>2. /\ ((b - 1) * BlockSize + (k - 1)) \div BlockSize = b - 1
      /\ ((b - 1) * BlockSize + (k - 1)) % BlockSize = k - 1
  BY <1>1, BlockSizeType, DivisionUnique
<1> QED
  BY <1>1, <1>2

(* The blocks that the write needs hold it.                                *)
LEMMA Enough ==
    ASSUME SizeInv, pc = "alloc", Len(blocks) >= Needed
    PROVE  start + length <= Len(blocks) * BlockSize
<1>1. start + length \in Nat /\ Len(blocks) \in Nat
  BY FileAssumption DEF SizeInv, FileTypeOK, length
<1>2. Needed \in Nat /\ start + length <= Needed * BlockSize
  BY <1>1, BlockSizeType, CeilCovers DEF Needed
<1>3. Needed * BlockSize <= Len(blocks) * BlockSize
  BY <1>1, <1>2, BlockSizeType, MulMono
<1> QED
  BY <1>1, <1>2, <1>3, BlockSizeType

LEMMA DataInit == FileInit => DataInv
  BY BlockSizeType DEF FileInit, DataInv

LEMMA DataStutter ==
    ASSUME DataInv, UNCHANGED fileVars
    PROVE  DataInv'
  BY DEF DataInv, Placed, ByteAt, Offset, Needed, length, fileVars, request

LEMMA DataWrite ==
    ASSUME SizeInv, DataInv, AppendsOnly, NEW from \in 0 .. MaxBytes, NEW n \in 1 .. MaxLength,
           NEW data \in [1 .. n -> Bytes], Write(from, data)
    PROVE  DataInv'
<1>1. n \in Nat /\ Len(data) = n /\ from \in Nat
  BY FileAssumption
<1>2. from % BlockSize # 0 => (from % BlockSize) + n <= BlockSize
  BY <1>1, BlockSizeType, Division DEF Write, KindOf, AppendsOnly
<1>3. /\ blocks' = blocks /\ want' = want /\ start' = from /\ length' = n /\ bytes_written' = 0
      /\ block' = from \div BlockSize + 1
  BY <1>1 DEF Write, length
<1>4. Offset' = from % BlockSize
  BY <1>3 DEF Offset
<1>5. Placed'
  <2>1. /\ from \div BlockSize \in Nat /\ from % BlockSize \in 0 .. BlockSize - 1
        /\ from = (from \div BlockSize) * BlockSize + (from % BlockSize)
    BY <1>1, BlockSizeType, Division
  <2>2. block' >= 1 /\ block' - 1 = from \div BlockSize
    BY <1>3, <2>1
  <2>3. (block' - 1) * BlockSize + Offset' = start' + bytes_written'
    BY <1>1, <1>3, <1>4, <2>1, <2>2
  <2> QED
    BY <1>2, <1>3, <1>4, <2>2, <2>3 DEF Placed
<1> QED
  BY <1>3, <1>5 DEF DataInv, ByteAt

(* A byte that is in the blocks stays where it is when a block is added.   *)
LEMMA DataAlloc ==
    ASSUME SizeInv, DataInv, Alloc
    PROVE  DataInv'
<1>1. /\ pc = "alloc" /\ Len(blocks) < Needed /\ blocks' = Append(blocks, ZeroBlock)
      /\ UNCHANGED <<pc, start, buf, block, bytes_written, want>>
      /\ blocks \in Seq(Block) /\ bytes_written \in Nat /\ Len(want) \in Nat /\ want \in Seq(Bytes)
  BY DEF Alloc, request, SizeInv, FileTypeOK
<1>2. bytes_written = 0
  <2>1. Needed \in Nat /\ Len(blocks) \in Nat
    BY <1>1, CeilCovers, BlockSizeType, FileAssumption DEF Needed, SizeInv, FileTypeOK, length
  <2> QED
    BY <1>1, <2>1 DEF DataInv
<1>3. Len(blocks') = Len(blocks) + 1 /\ Len(blocks) \in Nat
  BY <1>1
<1>4. Len(blocks) * BlockSize <= Len(blocks') * BlockSize
  BY <1>3, MulMono, BlockSizeType
<1>5. ASSUME NEW p \in Nat, p < Len(blocks) * BlockSize
      PROVE  ByteAt(p)' = ByteAt(p)
  <2>1. p \div BlockSize + 1 \in 1 .. Len(blocks)
    BY <1>3, <1>5, Position
  <2>2. blocks'[p \div BlockSize + 1] = blocks[p \div BlockSize + 1]
    BY <1>1, <2>1
  <2> QED
    BY <2>2 DEF ByteAt
<1>6. Len(want) <= Len(blocks') * BlockSize
  BY <1>1, <1>3, <1>4, BlockSizeType DEF DataInv
<1>7. \A p \in 0 .. Len(want) - 1 : ByteAt(p)' = want[p + 1]
  <2> SUFFICES ASSUME NEW p \in 0 .. Len(want) - 1 PROVE ByteAt(p)' = want[p + 1]
    OBVIOUS
  <2>1. p \in Nat /\ p < Len(blocks) * BlockSize
    BY <1>1, <1>3, BlockSizeType DEF DataInv
  <2> QED
    BY <1>5, <2>1 DEF DataInv
<1>8. (bytes_written < length => Placed)'
  BY <1>1 DEF DataInv, Placed, Offset, length
<1> QED
  BY <1>1, <1>2, <1>6, <1>7, <1>8 DEF DataInv

(* What the iterator's call changes: the bytes from its offset on.         *)
LEMMA WrittenBlock ==
    ASSUME SizeInv, DataInv, WriteBlock
    PROVE  /\ block \in 1 .. Len(blocks)
           /\ Offset + Amount <= BlockSize
           /\ \A c \in 1 .. Len(blocks) \ {block} : blocks'[c] = blocks[c]
           /\ \A k \in 1 .. Offset : blocks'[block][k] = blocks[block][k]
           /\ \A k \in Offset + 1 .. Offset + Amount :
                  blocks'[block][k] = buf[bytes_written + k - Offset]
<1>1. /\ pc = "alloc" /\ bytes_written < length /\ Len(blocks) >= Needed
      /\ blocks \in Seq(Block) /\ Len(blocks) \in Nat
      /\ blocks' = [blocks EXCEPT ![block] =
                       Overlaid(IF Offset # 0 THEN blocks[block] ELSE ZeroBlock)]
  BY DEF WriteBlock, SizeInv, FileTypeOK
<1>2. /\ Placed /\ Offset \in 0 .. BlockSize - 1 /\ Amount \in Nat /\ 0 < Amount
      /\ Amount <= BlockSize /\ bytes_written + Amount <= length
      /\ length \in Nat /\ bytes_written \in Nat /\ start \in Nat /\ block \in Nat
  BY <1>1, AmountType, FileAssumption DEF DataInv, SizeInv, FileTypeOK
<1>3. Offset + Amount <= BlockSize
  <2>1. CASE Offset = 0
    BY <1>2, <2>1, BlockSizeType
  <2>2. CASE Offset # 0
    BY <1>2, <2>2, BlockSizeType DEF Placed
  <2> QED
    BY <2>1, <2>2
<1>4. block \in 1 .. Len(blocks)
  <2>1. start + length <= Len(blocks) * BlockSize
    BY <1>1, Enough
  <2>2. block >= 1 /\ (block - 1) * BlockSize + Offset < start + length
    BY <1>1, <1>2 DEF Placed
  <2> SUFFICES ASSUME Len(blocks) <= block - 1 PROVE FALSE
    BY <1>1, <1>2, <2>2
  <2>3. Len(blocks) * BlockSize <= (block - 1) * BlockSize
    BY <1>1, <1>2, <2>2, MulMono, BlockSizeType
  <2>4. Len(blocks) * BlockSize \in Nat /\ (block - 1) * BlockSize \in Nat
    BY <1>1, <1>2, <2>2, BlockSizeType
  <2> QED
    BY <1>2, <2>1, <2>2, <2>3, <2>4
<1> DEFINE old == IF Offset # 0 THEN blocks[block] ELSE ZeroBlock
<1>5. blocks'[block] = Overlaid(old) /\ \A c \in 1 .. Len(blocks) \ {block} : blocks'[c] = blocks[c]
  BY <1>1, <1>4
<1>6. ASSUME NEW k \in 1 .. Offset PROVE blocks'[block][k] = blocks[block][k]
  <2>1. k \in 1 .. BlockSize /\ ~(Offset < k) /\ Offset # 0
    BY <1>2, BlockSizeType
  <2> QED
    BY <1>5, <2>1 DEF Overlaid
<1>7. ASSUME NEW k \in Offset + 1 .. Offset + Amount
      PROVE  blocks'[block][k] = buf[bytes_written + k - Offset]
  <2>1. k \in 1 .. BlockSize /\ Offset < k /\ k <= Offset + Amount
    BY <1>2, <1>3, BlockSizeType
  <2> QED
    BY <1>5, <2>1 DEF Overlaid
<1> QED
  BY <1>3, <1>4, <1>5, <1>6, <1>7

(* Bytes before the next one of the write stay, and then come its own.     *)
LEMMA WrittenBytes ==
    ASSUME SizeInv, DataInv, WriteBlock
    PROVE  /\ \A p \in 0 .. start + bytes_written - 1 : ByteAt(p)' = ByteAt(p)
           /\ \A q \in bytes_written .. bytes_written + Amount - 1 :
                  ByteAt(start + q)' = buf[q + 1]
<1>1. /\ Placed /\ Offset \in 0 .. BlockSize - 1 /\ Amount \in Nat /\ 0 < Amount
      /\ bytes_written + Amount <= length /\ bytes_written < length /\ pc = "alloc"
      /\ length \in Nat /\ bytes_written \in Nat /\ start \in Nat /\ block \in Nat
      /\ Len(blocks) \in Nat /\ Len(blocks) >= Needed
  BY AmountType, FileAssumption DEF DataInv, SizeInv, FileTypeOK, WriteBlock
<1>2. start + length <= Len(blocks) * BlockSize
  BY <1>1, Enough
<1>3. /\ block \in 1 .. Len(blocks) /\ Offset + Amount <= BlockSize
      /\ \A c \in 1 .. Len(blocks) \ {block} : blocks'[c] = blocks[c]
      /\ \A k \in 1 .. Offset : blocks'[block][k] = blocks[block][k]
      /\ \A k \in Offset + 1 .. Offset + Amount :
             blocks'[block][k] = buf[bytes_written + k - Offset]
  BY WrittenBlock
<1>4. (block - 1) * BlockSize + Offset = start + bytes_written /\ (block - 1) * BlockSize \in Nat
  BY <1>1, <1>3, BlockSizeType DEF Placed
<1>5. ASSUME NEW p \in 0 .. start + bytes_written - 1
      PROVE  ByteAt(p)' = ByteAt(p)
  <2>1. p \in Nat /\ p < Len(blocks) * BlockSize
    BY <1>1, <1>2, BlockSizeType
  <2> DEFINE b == p \div BlockSize + 1
             k == (p % BlockSize) + 1
  <2>2. b \in 1 .. Len(blocks) /\ k \in 1 .. BlockSize /\ p = (b - 1) * BlockSize + (k - 1)
    BY <1>1, <2>1, Position, BlockSizeType
  <2>3. blocks'[b][k] = blocks[b][k]
    <3> HIDE DEF b, k
    <3>1. CASE b # block
      BY <1>3, <2>2, <3>1
    <3>2. CASE b = block
      <4>1. k \in 1 .. Offset
        BY <1>1, <1>4, <2>2, <3>2
      <4> QED
        BY <1>3, <3>2, <4>1
    <3> QED
      BY <3>1, <3>2
  <2> QED
    BY <2>3 DEF ByteAt
<1>6. ASSUME NEW q \in bytes_written .. bytes_written + Amount - 1
      PROVE  ByteAt(start + q)' = buf[q + 1]
  <2> DEFINE k == Offset + (q - bytes_written) + 1
  <2>1. k \in Offset + 1 .. Offset + Amount /\ k \in 1 .. BlockSize /\ k \in Nat
        /\ bytes_written + k - Offset = q + 1
    BY <1>1, <1>3, BlockSizeType
  <2>2. start + q = (block - 1) * BlockSize + (k - 1)
    BY <1>1, <1>4
  <2> HIDE DEF k
  <2>3. (start + q) \div BlockSize + 1 = block /\ ((start + q) % BlockSize) + 1 = k
    BY <1>1, <1>3, <2>1, <2>2, PositionOf
  <2>4. blocks'[block][k] = buf[q + 1]
    BY <1>3, <2>1
  <2>5. ByteAt(start + q)' = blocks'[(start + q) \div BlockSize + 1][((start + q) % BlockSize) + 1]
    BY DEF ByteAt, WriteBlock
  <2> QED
    BY <2>3, <2>4, <2>5
<1> QED
  BY <1>5, <1>6

LEMMA DataWriteBlock ==
    ASSUME SizeInv, DataInv, WriteBlock
    PROVE  DataInv'
<1>1. /\ Placed /\ Offset \in 0 .. BlockSize - 1 /\ Amount \in Nat /\ 0 < Amount
      /\ bytes_written + Amount <= length /\ bytes_written < length /\ pc = "alloc"
      /\ Amount < BlockSize => bytes_written + Amount = length
      /\ length \in Nat /\ bytes_written \in Nat /\ start \in Nat /\ block \in Nat
      /\ Len(blocks) \in Nat /\ Len(blocks) >= Needed /\ start = Len(want)
  BY AmountType, FileAssumption DEF DataInv, SizeInv, FileTypeOK, WriteBlock
<1>2. /\ UNCHANGED <<pc, start, buf, want>> /\ block' = block + 1 /\ length' = length
      /\ bytes_written' = bytes_written + Amount /\ Needed' = Needed
  BY DEF WriteBlock, length, Needed
<1>3. Len(blocks') = Len(blocks)
  BY DEF WriteBlock, SizeInv, FileTypeOK
<1>4. ASSUME bytes_written' < length' PROVE Placed'
  <2>1. Amount = BlockSize
    BY <1>1, <1>2, <1>4, BlockSizeType, AmountType
  <2>2. Offset = 0 /\ Offset' = 0
    BY <1>1, <1>2, <2>1, WrittenBlock, BlockSizeType DEF Offset
  <2>3. block >= 1 /\ (block - 1) * BlockSize = start + bytes_written
    BY <1>1, <2>2, BlockSizeType DEF Placed
  <2>4. block' - 1 = (block - 1) + 1 /\ block - 1 \in Nat
    BY <1>1, <1>2, <2>3
  <2>5. (block' - 1) * BlockSize = (block - 1) * BlockSize + BlockSize
    BY <2>4, BlockSizeType
  <2>6. (block' - 1) * BlockSize + Offset' = start' + bytes_written'
    BY <1>1, <1>2, <2>1, <2>2, <2>3, <2>5, BlockSizeType
  <2> QED
    BY <1>2, <2>2, <2>3, <2>6, <1>1 DEF Placed
<1>5. /\ \A p \in 0 .. start + bytes_written - 1 : ByteAt(p)' = ByteAt(p)
      /\ \A q \in bytes_written .. bytes_written + Amount - 1 : ByteAt(start + q)' = buf[q + 1]
  BY WrittenBytes
<1>6. \A p \in 0 .. Len(want') - 1 : ByteAt(p)' = want'[p + 1]
  <2> SUFFICES ASSUME NEW p \in 0 .. Len(want) - 1 PROVE ByteAt(p)' = want[p + 1]
    BY <1>2
  <2>1. p \in 0 .. start + bytes_written - 1
    BY <1>1
  <2> QED
    BY <1>5, <2>1 DEF DataInv
<1>7. (\A q \in 0 .. bytes_written - 1 : ByteAt(start + q) = buf[q + 1])'
  <2> SUFFICES ASSUME NEW q \in (0 .. bytes_written - 1)'
               PROVE  ByteAt(start + q)' = buf'[q + 1]
    OBVIOUS
  <2>0. q \in 0 .. bytes_written + Amount - 1 /\ buf' = buf
    BY <1>1, <1>2
  <2>1. CASE q < bytes_written
    <3>1. start + q \in 0 .. start + bytes_written - 1 /\ q \in 0 .. bytes_written - 1
      BY <1>1, <2>0, <2>1
    <3>2. ByteAt(start + q)' = ByteAt(start + q)
      BY <1>2, <1>5, <3>1 DEF ByteAt
    <3> QED
      BY <1>1, <2>0, <3>1, <3>2 DEF DataInv
  <2>2. CASE bytes_written <= q
    <3>1. q \in bytes_written .. bytes_written + Amount - 1
      BY <1>1, <2>0, <2>2
    <3> QED
      BY <1>5, <2>0, <3>1
  <2> QED
    BY <1>1, <2>0, <2>1, <2>2
<1>8. Len(want') <= Len(blocks') * BlockSize
  BY <1>2, <1>3 DEF DataInv
<1>9. Len(blocks') >= Needed'
  BY <1>1, <1>2, <1>3
<1> QED
  BY <1>4, <1>6, <1>7, <1>8, <1>9 DEF DataInv

LEMMA DataWriteInode ==
    ASSUME SizeInv, DataInv, WriteInode
    PROVE  DataInv'
<1>1. /\ bytes_written = length /\ start = Len(want) /\ pc = "alloc" /\ Len(blocks) >= Needed
      /\ length = Len(buf) /\ Len(buf) \in Nat /\ Len(want) \in Nat
      /\ buf \in Seq(Bytes) /\ want \in Seq(Bytes)
  BY FileAssumption DEF WriteInode, SizeInv, FileTypeOK, length
<1>2. want' = want \o buf
  BY <1>1, OverwrittenAtEnd DEF WriteInode
<1>3. /\ Len(want') = Len(want) + Len(buf)
      /\ \A k \in 1 .. Len(want') : want'[k] = IF k <= Len(want) THEN want[k]
                                                ELSE buf[k - Len(want)]
  BY <1>1, <1>2
<1>4. blocks' = blocks /\ pc' = "idle"
  BY DEF WriteInode, Return
<1>5. Len(want') <= Len(blocks') * BlockSize
  BY <1>1, <1>3, <1>4, Enough
<1>6. \A p \in 0 .. Len(want') - 1 : ByteAt(p)' = want'[p + 1]
  <2> SUFFICES ASSUME NEW p \in 0 .. Len(want') - 1 PROVE ByteAt(p) = want'[p + 1]
    BY <1>4 DEF ByteAt
  <2>1. CASE p < Len(want)
    <3>1. p \in 0 .. Len(want) - 1 /\ want'[p + 1] = want[p + 1]
      BY <1>1, <1>3, <2>1
    <3> QED
      BY <3>1 DEF DataInv
  <2>2. CASE Len(want) <= p
    <3> DEFINE q == p - Len(want)
    <3>1. q \in 0 .. bytes_written - 1 /\ start + q = p /\ want'[p + 1] = buf[q + 1]
      BY <1>1, <1>3, <2>2
    <3> HIDE DEF q
    <3> QED
      BY <1>1, <3>1 DEF DataInv
  <2> QED
    BY <1>1, <2>1, <2>2
<1> QED
  BY <1>4, <1>5, <1>6 DEF DataInv

LEMMA DataCrash ==
    ASSUME DataInv, Crash
    PROVE  DataInv'
  BY DEF DataInv, ByteAt, Crash, Return

LEMMA DataStep == SizeInv /\ DataInv /\ AppendsOnly /\ [FileNext]_fileVars => DataInv'
<1> SUFFICES ASSUME SizeInv, DataInv, AppendsOnly, [FileNext]_fileVars PROVE DataInv'
  OBVIOUS
<1>1. ASSUME NEW from \in 0 .. MaxBytes, NEW n \in 1 .. MaxLength,
             NEW data \in [1 .. n -> Bytes], Write(from, data)
      PROVE  DataInv'
  BY <1>1, DataWrite
<1>2. CASE Read \/ AllocFails \/ UNCHANGED fileVars
  BY <1>2, DataStutter DEF Read, AllocFails
<1> QED
  BY <1>1, <1>2, DataAlloc, DataWriteBlock, DataWriteInode, DataCrash DEF FileNext, Resume

-----------------------------------------------------------------------------
(* Reading                                                                 *)
Rest(from) == SubSeq(blocks, from \div BlockSize + 1, Len(blocks))

(* The recursive function of ReadData exists: by induction, for the first  *)
(* n blocks.                                                               *)
LEMMA ReadUnfolds ==
    ASSUME NEW from \in Nat, NEW len \in Nat, Len(Rest(from)) \in Nat
    PROVE  \E g : /\ g = [k \in 0 .. Len(Rest(from)) |->
                             IF k = 0 THEN <<>>
                             ELSE ReadStep(from % BlockSize, len, g[k - 1], Rest(from)[k])]
                  /\ ReadData(from, len) = g[Len(Rest(from))]
<1> DEFINE rest == Rest(from)
           Step(acc, c) == ReadStep(from % BlockSize, len, acc, c)
           Good(n, g) == g = [k \in 0 .. n |-> IF k = 0 THEN <<>> ELSE Step(g[k - 1], rest[k])]
           Bad == {n \in Nat : ~ \E g : Good(n, g)}
<1>1. ASSUME Bad # {} PROVE FALSE
  <2> HIDE DEF rest, Step
  <2>1. PICK m \in Bad : \A k \in Bad : m <= k
    BY <1>1, LeastNat
  <2>2. m # 0
    <3>1. Good(0, [k \in 0 .. 0 |-> <<>>])
      OBVIOUS
    <3> QED
      BY <2>1, <3>1
  <2>3. PICK g : Good(m - 1, g)
    <3>1. m \in Nat /\ m - 1 \in Nat /\ m - 1 < m
      BY <2>1, <2>2
    <3> HIDE DEF Good
    <3>2. m - 1 \notin Bad
      BY <2>1, <3>1
    <3> QED
      BY <3>1, <3>2
  <2> DEFINE h == [k \in 0 .. m |-> IF k < m THEN g[k] ELSE Step(g[m - 1], rest[m])]
  <2>4. ASSUME NEW k \in 0 .. m
        PROVE  h[k] = IF k = 0 THEN <<>> ELSE Step(h[k - 1], rest[k])
    <3>1. m \in Nat /\ m - 1 \in Nat
      BY <2>2
    <3>2. CASE k = m
      BY <2>2, <3>1, <3>2
    <3>3. CASE k < m
      BY <2>3, <3>1, <3>3
    <3> QED
      BY <3>1, <3>2, <3>3
  <2>5. Good(m, h)
    BY <2>4
  <2> QED
    BY <2>1, <2>5
<1>2. \E g : Good(Len(rest), g)
  BY <1>1
<1> DEFINE got[k \in 0 .. Len(rest)] ==
               IF k = 0 THEN <<>> ELSE ReadStep(from % BlockSize, len, got[k - 1], rest[k])
<1>3. got = [k \in 0 .. Len(rest) |-> IF k = 0 THEN <<>> ELSE Step(got[k - 1], rest[k])]
  BY <1>2
<1>4. ReadData(from, len) = got[Len(rest)]
  BY DEF ReadData, Rest
<1> QED
  BY <1>3, <1>4

(* What a step of the iterator reads, when `got' bytes were.               *)
AmountRight(got, len, before) ==
    /\ ReadAmount(got, len) \in Nat /\ ReadAmount(got, len) <= BlockSize
    /\ got + ReadAmount(got, len) = Least(Least(len, n_bytes), before + BlockSize)
    /\ ReadAmount(got, len) > 0 => got = before

LEMMA AmountOfStep ==
    ASSUME n_bytes \in Nat, NEW len \in Nat, NEW before \in Nat, NEW got \in Nat, got < len,
           got = Least(Least(len, n_bytes), before)
    PROVE  AmountRight(got, len, before)
  BY BlockSizeType DEF AmountRight, ReadAmount, Least

(* Byte p after the beginning of block b + 1 is in the block j further on. *)
BlockOf(b, j, k, p) ==
    /\ (b * BlockSize + p) \div BlockSize + 1 = b + j + 1
    /\ ((b * BlockSize + p) % BlockSize) + 1 = k

LEMMA PositionBehind ==
    ASSUME NEW b \in Nat, NEW j \in Nat, NEW k \in 1 .. BlockSize, NEW p \in Nat,
           p + 1 = j * BlockSize + k
    PROVE  BlockOf(b, j, k, p)
<1>1. b * BlockSize \in Nat /\ j * BlockSize \in Nat /\ b + j \in Nat /\ k - 1 \in Nat
      /\ k - 1 < BlockSize /\ BlockSize \in Nat
  BY BlockSizeType
<1>2. (b + j) * BlockSize = b * BlockSize + j * BlockSize
  BY BlockSizeType
<1>3. b * BlockSize + p = (b + j) * BlockSize + (k - 1)
  <2> DEFINE x == b * BlockSize
             y == j * BlockSize
             z == (b + j) * BlockSize
  <2>1. x \in Nat /\ y \in Nat /\ z = x + y /\ p + 1 = y + k
    BY <1>1, <1>2
  <2> HIDE DEF x, y, z
  <2>2. x + p = z + (k - 1)
    BY <1>1, <2>1
  <2> QED
    BY <2>2 DEF x, z
<1>4. /\ ((b + j) * BlockSize + (k - 1)) \div BlockSize = b + j
      /\ ((b + j) * BlockSize + (k - 1)) % BlockSize = k - 1
  BY <1>1, DivisionUnique
<1> QED
  BY <1>1, <1>3, <1>4 DEF BlockOf

(* One step of the iterator that reads block c.                            *)
Extends(new, acc, c, len) ==
    /\ new \in Seq(Bytes \union {0, Lost})
    /\ Len(new) = Len(acc) + ReadAmount(Len(acc), len)
    /\ \A k \in 1 .. Len(acc) : new[k] = acc[k]
    /\ \A k \in 1 .. ReadAmount(Len(acc), len) : new[Len(acc) + k] = c[k]

LEMMA StepOf ==
    ASSUME NEW c \in Block, NEW len \in Nat,
           NEW acc \in Seq(Bytes \union {0, Lost}), Len(acc) < len,
           ReadAmount(Len(acc), len) \in Nat, ReadAmount(Len(acc), len) <= BlockSize
    PROVE  Extends(ReadStep(0, len, acc, c), acc, c, len)
<1> DEFINE amount == ReadAmount(Len(acc), len)
           new == ReadStep(0, len, acc, c)
<1>0. amount \in Nat /\ amount <= BlockSize /\ BlockSize \in Nat
  BY BlockSizeType
<1> HIDE DEF amount
<1> DEFINE more == [k \in 1 .. amount |-> IF 0 + k <= BlockSize THEN c[0 + k] ELSE Lost]
<1>1. new = acc \o more
  <2>1. ~(Len(acc) >= len)
    OBVIOUS
  <2> QED
    BY <2>1 DEF ReadStep, amount
<1>2. \A k \in 1 .. amount : more[k] = c[k] /\ c[k] \in Bytes \union {0, Lost}
  BY <1>0 DEF Block
<1>3. more \in Seq(Bytes \union {0, Lost}) /\ Len(more) = amount
  BY <1>0, <1>2
<1> HIDE DEF more
<1>4. /\ acc \o more \in Seq(Bytes \union {0, Lost}) /\ Len(acc \o more) = Len(acc) + Len(more)
      /\ \A k \in 1 .. Len(acc) : (acc \o more)[k] = acc[k]
      /\ \A k \in 1 .. Len(more) : (acc \o more)[Len(acc) + k] = more[k]
  BY <1>3
<1> QED
  BY <1>1, <1>2, <1>3, <1>4 DEF Extends, amount

(* What was read, from block b + 1 on, of a file of `before' bytes from it.*)
ReadRight(b, len, s, before) ==
    /\ s \in Seq(Bytes \union {0, Lost})
    /\ Len(s) = Least(Least(len, n_bytes), before)
    /\ \A p \in 0 .. Len(s) - 1 : s[p + 1] = ByteAt(b * BlockSize + p)

(* One step of the iterator, in a file of which `acc' was read.            *)
LEMMA ReadStepIs ==
    ASSUME SizeInv, NEW b \in 0 .. Len(blocks) - 1, NEW len \in Nat,
           NEW j \in Nat, b + j + 1 <= Len(blocks),
           NEW acc, ReadRight(b, len, acc, j * BlockSize)
    PROVE  ReadRight(b, len, ReadStep(0, len, acc, blocks[b + j + 1]), (j + 1) * BlockSize)
<1> DEFINE before == j * BlockSize
           after == (j + 1) * BlockSize
           new == ReadStep(0, len, acc, blocks[b + j + 1])
           got == Len(acc)
           c == blocks[b + j + 1]
           amount == ReadAmount(got, len)
<1>1. /\ BlockSize \in Nat /\ BlockSize > 0 /\ n_bytes \in Nat /\ got \in Nat /\ b \in Nat
      /\ len \in Nat /\ blocks \in Seq(Block)
  BY BlockSizeType, LenProperties DEF SizeInv, FileTypeOK, ReadRight
<1>2. c \in Block
  BY <1>1
<1>3. before \in Nat /\ after = before + BlockSize
  BY <1>1
<1>4. /\ acc \in Seq(Bytes \union {0, Lost}) /\ got = Least(Least(len, n_bytes), before)
      /\ \A p \in 0 .. Len(acc) - 1 : acc[p + 1] = ByteAt(b * BlockSize + p)
  BY DEF ReadRight
<1>5. before = j * BlockSize /\ new = ReadStep(0, len, acc, c)
  OBVIOUS
<1> SUFFICES /\ new \in Seq(Bytes \union {0, Lost})
             /\ Len(new) = Least(Least(len, n_bytes), after)
             /\ \A p \in 0 .. Len(new) - 1 : new[p + 1] = ByteAt(b * BlockSize + p)
  BY DEF ReadRight
<1> HIDE DEF before, after, new
<1>6. CASE got >= len
  <2>1. new = acc
    BY <1>6, <1>5 DEF ReadStep
  <2>2. got = Least(Least(len, n_bytes), after)
    BY <1>1, <1>3, <1>6, <1>4 DEF Least
  <2> QED
    BY <2>1, <2>2, <1>4
<1>7. CASE got < len
  <2>1. /\ amount \in Nat /\ amount <= BlockSize
        /\ got + amount = Least(Least(len, n_bytes), after)
        /\ amount > 0 => got = before
    <3>1. AmountRight(got, len, before)
      BY <1>1, <1>3, <1>7, <1>4, AmountOfStep
    <3> QED
      BY <1>3, <3>1 DEF AmountRight
  <2>2. /\ new \in Seq(Bytes \union {0, Lost}) /\ Len(new) = got + amount
        /\ \A k \in 1 .. got : new[k] = acc[k]
        /\ \A k \in 1 .. amount : new[got + k] = c[k]
    <3>1. Extends(new, acc, c, len)
      BY <1>1, <1>2, <1>7, <1>4, <1>5, <2>1, StepOf
    <3> QED
      BY <3>1 DEF Extends
  <2> HIDE DEF amount
  <2>3. ASSUME NEW p \in 0 .. Len(new) - 1
        PROVE  new[p + 1] = ByteAt(b * BlockSize + p)
    <3>1. CASE p < got
      <4>1. p \in 0 .. Len(acc) - 1 /\ p + 1 \in 1 .. got
        BY <1>1, <2>1, <2>2, <3>1
      <4>2. new[p + 1] = acc[p + 1]
        BY <2>2, <4>1
      <4> QED
        BY <4>1, <4>2, <1>4
    <3>2. CASE got <= p
      <4> DEFINE k == p - got + 1
      <4>0. Len(new) = got + amount /\ p \in 0 .. Len(new) - 1
        BY <2>2
      <4> HIDE DEF got, c
      <4>1. k \in 1 .. amount /\ k \in 1 .. BlockSize /\ p + 1 = got + k /\ amount > 0 /\ p \in Nat
        BY <1>1, <2>1, <4>0, <3>2
      <4> HIDE DEF k
      <4>2. p + 1 = j * BlockSize + k
        BY <2>1, <4>1, <1>5
      <4>3. new[p + 1] = c[k]
        BY <2>2, <4>1
      <4>4. /\ (b * BlockSize + p) \div BlockSize + 1 = b + j + 1
            /\ ((b * BlockSize + p) % BlockSize) + 1 = k
        <5>1. BlockOf(b, j, k, p)
          BY <1>1, <4>1, <4>2, PositionBehind
        <5> QED
          BY <5>1 DEF BlockOf
      <4> QED
        BY <4>3, <4>4 DEF ByteAt, c
    <3> QED
      BY <1>1, <2>1, <2>2, <3>1, <3>2
  <2> QED
    BY <2>1, <2>2, <2>3
<1> QED
  BY <1>1, <1>6, <1>7

(* What ReadData returns: induction over the blocks.                       *)
LEMMA RestIs ==
    ASSUME SizeInv, NEW b \in 0 .. Len(blocks) - 1
    PROVE  /\ b * BlockSize \in Nat /\ (b * BlockSize) % BlockSize = 0
           /\ Len(Rest(b * BlockSize)) = Len(blocks) - b /\ Len(blocks) - b \in Nat
           /\ \A k \in 1 .. Len(blocks) - b : Rest(b * BlockSize)[k] = blocks[b + k]
<1>1. /\ b \in Nat /\ BlockSize \in Nat /\ BlockSize > 0 /\ blocks \in Seq(Block)
      /\ Len(blocks) \in Nat /\ b * BlockSize \in Nat /\ Len(blocks) - b \in Nat
  BY BlockSizeType, LenProperties DEF SizeInv, FileTypeOK
<1>2. (b * BlockSize) \div BlockSize = b /\ (b * BlockSize) % BlockSize = 0
  BY <1>1
<1>3. Rest(b * BlockSize) = SubSeq(blocks, b + 1, Len(blocks))
  BY <1>2 DEF Rest
<1>4. /\ Len(SubSeq(blocks, b + 1, Len(blocks))) = Len(blocks) - b
      /\ \A k \in 1 .. Len(blocks) - b : SubSeq(blocks, b + 1, Len(blocks))[k] = blocks[b + k]
  BY <1>1
<1> QED
  BY <1>1, <1>2, <1>3, <1>4

LEMMA ReadDataIs ==
    ASSUME SizeInv, NEW b \in 0 .. Len(blocks) - 1, NEW len \in Nat
    PROVE  ReadRight(b, len, ReadData(b * BlockSize, len), (Len(blocks) - b) * BlockSize)
<1> DEFINE from == b * BlockSize
           n == Len(blocks) - b
<1>1. /\ from \in Nat /\ from % BlockSize = 0 /\ Len(Rest(from)) = n /\ n \in Nat
      /\ \A k \in 1 .. n : Rest(from)[k] = blocks[b + k]
  BY RestIs
<1>2. PICK g : /\ g = [k \in 0 .. Len(Rest(from)) |->
                          IF k = 0 THEN <<>>
                          ELSE ReadStep(from % BlockSize, len, g[k - 1], Rest(from)[k])]
               /\ ReadData(from, len) = g[Len(Rest(from))]
  BY <1>1, ReadUnfolds
<1>3. /\ g[0] = <<>> /\ ReadData(from, len) = g[n]
      /\ \A k \in 1 .. n : g[k] = ReadStep(0, len, g[k - 1], blocks[b + k])
  <2> HIDE DEF from, n
  <2> QED
    BY <1>1, <1>2
<1> DEFINE Bad == {k \in Nat : k <= n /\ ~ReadRight(b, len, g[k], k * BlockSize)}
<1>4. b \in Nat /\ BlockSize \in Nat /\ n_bytes \in Nat /\ Len(blocks) \in Nat
  BY BlockSizeType DEF SizeInv, FileTypeOK
<1>5. Bad = {}
  <2> SUFFICES ASSUME Bad # {} PROVE FALSE
    OBVIOUS
  <2>1. PICK m \in Bad : \A k \in Bad : m <= k
    BY LeastNat
  <2>2. m \in Nat /\ m <= n /\ ~ReadRight(b, len, g[m], m * BlockSize)
    BY <2>1
  <2>3. m # 0
    <3>1. ReadRight(b, len, <<>>, 0)
      BY <1>4 DEF ReadRight, Least
    <3>2. 0 * BlockSize = 0
      BY <1>4
    <3> QED
      BY <1>3, <2>2, <3>1, <3>2
  <2> DEFINE j == m - 1
  <2>4. j \in Nat /\ m = j + 1 /\ j <= n /\ m \in 1 .. n /\ ~(m <= j) /\ b + m = b + j + 1
        /\ b + j + 1 <= Len(blocks)
    BY <1>1, <1>4, <2>2, <2>3
  <2> HIDE DEF j, n
  <2>5. ReadRight(b, len, g[j], j * BlockSize)
    <3>1. j \notin Bad
      BY <2>1, <2>4
    <3> QED
      BY <2>4, <3>1
  <2>6. g[m] = ReadStep(0, len, g[j], blocks[b + j + 1])
    <3>1. m - 1 = j
      BY <2>4
    <3> QED
      BY <1>3, <2>4, <3>1
  <2>7. ReadRight(b, len, ReadStep(0, len, g[j], blocks[b + j + 1]), (j + 1) * BlockSize)
    BY <2>4, <2>5, ReadStepIs
  <2> QED
    BY <2>2, <2>4, <2>6, <2>7
<1>6. n \in Nat /\ n \notin Bad
  BY <1>1, <1>5
<1> QED
  BY <1>3, <1>6

LEMMA DataReads == SizeInv /\ DataInv => ReadBack
<1> SUFFICES ASSUME SizeInv, DataInv, NEW b \in 0 .. Len(blocks) - 1, NEW len \in 1 .. MaxBytes,
                    b * BlockSize < Len(want)
             PROVE  LET got == Least(len, Len(want) - b * BlockSize)
                    IN  SubSeq(ReadData(b * BlockSize, len), 1, got)
                            = SubSeq(want, b * BlockSize + 1, b * BlockSize + got)
  BY DEF ReadBack
<1> DEFINE from == b * BlockSize
           got == Least(len, Len(want) - from)
           s == ReadData(from, len)
           behind == (Len(blocks) - b) * BlockSize
<1>1. /\ b \in Nat /\ BlockSize \in Nat /\ n_bytes \in Nat /\ Len(blocks) \in Nat /\ len \in Nat
      /\ from \in Nat /\ Len(want) \in Nat /\ n_bytes = Len(want) /\ want \in Seq(Bytes)
      /\ from < Len(want) /\ len > 0
  BY BlockSizeType, FileAssumption DEF SizeInv, FileTypeOK
<1>2. behind = Len(blocks) * BlockSize - from /\ behind \in Int /\ Len(want) <= Len(blocks) * BlockSize
  BY <1>1 DEF DataInv
<1>3. /\ s \in Seq(Bytes \union {0, Lost}) /\ Len(s) = Least(Least(len, n_bytes), behind)
      /\ \A p \in 0 .. Len(s) - 1 : s[p + 1] = ByteAt(from + p)
  <2>1. ReadRight(b, len, s, behind)
    BY <1>1, ReadDataIs
  <2> QED
    BY <2>1 DEF ReadRight
<1>4. Len(want) - from <= behind
  <2> DEFINE all == Len(blocks) * BlockSize
  <2>1. all \in Nat /\ behind = all - from /\ Len(want) <= all
    BY <1>1, <1>2
  <2> HIDE DEF all, behind, from
  <2> QED
    BY <1>1, <2>1
<1> HIDE DEF from, behind, s
<1>5. got \in Nat /\ got <= Len(s) /\ from + got <= Len(want) /\ Len(s) \in Nat
  BY <1>1, <1>2, <1>3, <1>4 DEF Least
<1> HIDE DEF got
<1>6. ASSUME NEW k \in 1 .. got PROVE s[k] = want[from + k]
  <2> DEFINE p == k - 1
  <2>1. p \in 0 .. Len(s) - 1 /\ p + 1 = k /\ from + p \in 0 .. Len(want) - 1
        /\ from + p + 1 = from + k
    BY <1>1, <1>5
  <2> HIDE DEF p
  <2>2. s[k] = ByteAt(from + p)
    BY <1>3, <2>1
  <2>3. ByteAt(from + p) = want[from + p + 1]
    BY <2>1 DEF DataInv
  <2> QED
    BY <2>1, <2>2, <2>3
<1>7. /\ SubSeq(s, 1, got) = [k \in 1 .. got |-> s[k]]
      /\ SubSeq(want, from + 1, from + got) = [k \in 1 .. got |-> want[from + k]]
  <2>1. SubSeq(s, 1, got) = [k \in 1 .. got |-> s[k]]
    BY <1>3, <1>5
  <2>2. from + got - (from + 1) + 1 = got /\ \A k \in 1 .. got : from + 1 + k - 1 = from + k
    BY <1>1, <1>5
  <2>3. SubSeq(want, from + 1, from + got)
            = [k \in 1 .. from + got - (from + 1) + 1 |-> want[from + 1 + k - 1]]
    BY <1>1, <1>5
  <2> QED
    BY <2>1, <2>2, <2>3
<1>8. SubSeq(s, 1, got) = SubSeq(want, from + 1, from + got)
  BY <1>6, <1>7
<1> QED
  BY <1>8 DEF got, s, from

(* Property ReadBack (cofs_read through the kernel's reads of whole        *)
(* blocks, File_readData): as long as every write appends without          *)
(* straddling a block, a read from the beginning of any block returns what *)
(* the completed writes wrote, at any moment of a write and after any      *)
(* number of crashes.                                                      *)
THEOREM ReadsBack ==
    ASSUME AppendsOnly
    PROVE  FileSpec => []ReadBack
<1>1. AppendsOnly => NoOverwrites
  BY DEF AppendsOnly, NoOverwrites
<1>2. FileInit => SizeInv /\ DataInv
  BY SizeInit, DataInit
<1>3. SizeInv /\ DataInv /\ [FileNext]_fileVars => (SizeInv /\ DataInv)'
  BY <1>1, SizeStep, DataStep
<1>4. SizeInv /\ DataInv => ReadBack
  BY DataReads
<1> QED
  BY <1>2, <1>3, <1>4, PTL DEF FileSpec
=============================================================================
