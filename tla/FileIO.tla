------------------------------- MODULE FileIO -------------------------------
(***************************************************************************)
(* The bytes of a file: cofs_files.c and cofs_write, one action per block  *)
(* that a write allocates or writes.                                       *)
(*                                                                         *)
(* File_writeData first allocates all the blocks that the file will need,  *)
(* each of which writes the inode with the old n_bytes, then writes the    *)
(* blocks from the one that holds `start' on through a buffer of one       *)
(* block, and adds what it wrote to n_bytes; cofs_write writes the inode.  *)
(* The blocks come from BlockMap: n_blocks of them, in order, while there  *)
(* are free ones.  Bytes 1 and above are data, 0 is what a new block       *)
(* holds.                                                                  *)
(***************************************************************************)
EXTENDS Integers, Sequences, SequencesExt

CONSTANTS BlockSize,        (* COFS_BLOCK_SIZE, 4096 in the code            *)
          SpareBlocks,      (* free data blocks                             *)
          Bytes,            (* the bytes that are written                   *)
          Kinds,            (* the kinds of writes that are made            *)
          MaxLength,        (* bound: bytes of one write                    *)
          MaxBytes,         (* bound: offset after the last byte            *)
          MaxWrites,        (* bound: writes                                *)
          MaxCrashes        (* bound: crashes                               *)

AllKinds == {"append", "straddle", "overwrite"}
Block == [1 .. BlockSize -> Bytes \union {0}]
ZeroBlock == [k \in 1 .. BlockSize |-> 0]
Lost == -1                  (* a byte from behind the buffer of one block   *)

ASSUME FileAssumption ==
    /\ BlockSize \in Nat \ {0} /\ SpareBlocks \in Nat
    /\ Bytes \subseteq Nat \ {0} /\ Kinds \subseteq AllKinds
    /\ {MaxLength, MaxBytes, MaxWrites, MaxCrashes} \subseteq Nat

VARIABLES n_bytes,          (* the inode on disk                            *)
          blocks,           (* its data blocks, n_blocks of them            *)
          spare,            (* how many data blocks are free                *)
          pc,               (* where the running write is                   *)
          start, buf,       (* its parameters                               *)
          block,            (* the next block of the file it writes, from 1 *)
          bytes_written,
          want,             (* auxiliary: what the completed writes wrote   *)
          writes, crashes   (* writes and crashes so far                    *)

request == <<start, buf, block, bytes_written>>
fileVars == <<n_bytes, blocks, spare, pc, request, want, writes, crashes>>

Idle == pc = "idle"
length == Len(buf)
Ceil(n, d) == (n + d - 1) \div d
Least(m, n) == IF m <= n THEN m ELSE n

-----------------------------------------------------------------------------
(* File_readData from `from', at most len bytes: the first block is read   *)
(* from its offset on, and each memcpy takes `amnt' bytes, those behind    *)
(* the buffer too.                                                         *)
ReadAmount(got, len) ==
    LET amnt == Least(BlockSize, len - got)
    IN  IF got + amnt > n_bytes THEN n_bytes - got ELSE amnt
ReadStep(offset, len, acc, b) ==
    IF Len(acc) >= len THEN acc
    ELSE LET at == IF Len(acc) = 0 THEN offset ELSE 0
         IN  acc \o [k \in 1 .. ReadAmount(Len(acc), len) |->
                        IF at + k <= BlockSize THEN b[at + k] ELSE Lost]
ReadData(from, len) ==
    LET rest == SubSeq(blocks, from \div BlockSize + 1, Len(blocks))
        got[k \in 0 .. Len(rest)] ==
            IF k = 0 THEN <<>> ELSE ReadStep(from % BlockSize, len, got[k - 1], rest[k])
    IN  got[Len(rest)]

-----------------------------------------------------------------------------
FileInit ==
    /\ n_bytes = 0
    /\ blocks = <<>>
    /\ spare = SpareBlocks
    /\ pc = "idle" /\ start = 0 /\ buf = <<>> /\ block = 0 /\ bytes_written = 0
    /\ want = <<>>
    /\ writes = 0
    /\ crashes = 0

Return ==
    /\ pc' = "idle" /\ start' = 0 /\ buf' = <<>> /\ block' = 0 /\ bytes_written' = 0

(* A write at the end of the file stays within the block that is there, or *)
(* begins a block; or it straddles the end of the block it begins in; or   *)
(* it covers bytes that are there.                                         *)
KindOf(from, len) ==
    IF from < n_bytes THEN "overwrite"
    ELSE IF from % BlockSize # 0 /\ (from % BlockSize) + len > BlockSize THEN "straddle"
    ELSE "append"

Write(from, data) ==
    /\ Idle
    /\ writes < MaxWrites
    /\ from <= n_bytes /\ from + Len(data) <= MaxBytes
    /\ KindOf(from, Len(data)) \in Kinds
    /\ start' = from
    /\ buf' = data
    /\ block' = from \div BlockSize + 1
    /\ bytes_written' = 0
    /\ pc' = "alloc"
    /\ writes' = writes + 1
    /\ UNCHANGED <<n_bytes, blocks, spare, want, crashes>>

(* The loop that allocates.                                                *)
Needed == Ceil(start + length, BlockSize)

(* Mutant: n_blocks does not count the new block.                          *)
Alloc_NotCounted ==
    /\ pc = "alloc" /\ Len(blocks) < Needed
    /\ spare > 0
    /\ spare' = spare - 1
    /\ UNCHANGED <<n_bytes, blocks, pc, request, want, writes, crashes>>

Alloc ==
    /\ pc = "alloc" /\ Len(blocks) < Needed
    /\ spare > 0
    /\ blocks' = Append(blocks, ZeroBlock)
    /\ spare' = spare - 1
    /\ UNCHANGED <<n_bytes, pc, request, want, writes, crashes>>

(* The loop does not look at what alloc_new_datablock returns.             *)
AllocFails ==
    /\ pc = "alloc" /\ Len(blocks) < Needed
    /\ spare = 0
    /\ UNCHANGED fileVars

(* One call of the iterator.  A write that begins inside a block keeps the *)
(* bytes before it.                                                        *)
Offset == IF bytes_written = 0 THEN start % BlockSize ELSE 0
Amount == Least(BlockSize, length - bytes_written)
Overlaid(old) == [k \in 1 .. BlockSize |->
                     IF Offset < k /\ k <= Offset + Amount
                     THEN buf[bytes_written + k - Offset] ELSE old[k]]

(* Mutant: the block that is overlaid is never read.                       *)
WriteBlock_NotRead ==
    /\ pc = "alloc" /\ Len(blocks) >= Needed
    /\ bytes_written < length
    /\ blocks' = [blocks EXCEPT ![block] = Overlaid(ZeroBlock)]
    /\ bytes_written' = bytes_written + Amount
    /\ block' = block + 1
    /\ UNCHANGED <<n_bytes, spare, pc, start, buf, want, writes, crashes>>

WriteBlock ==
    /\ pc = "alloc" /\ Len(blocks) >= Needed
    /\ bytes_written < length
    /\ blocks' = [blocks EXCEPT ![block] =
                     Overlaid(IF Offset # 0 THEN blocks[block] ELSE ZeroBlock)]
    /\ bytes_written' = bytes_written + Amount
    /\ block' = block + 1
    /\ UNCHANGED <<n_bytes, spare, pc, start, buf, want, writes, crashes>>

(* What the file should hold now.                                          *)
Overwritten(old, from, data) ==
    SubSeq(old, 1, from) \o data \o SubSeq(old, from + Len(data) + 1, Len(old))

(* Mutant: n_bytes is what was written.                                    *)
WriteInode_Assigned ==
    /\ pc = "alloc" /\ Len(blocks) >= Needed
    /\ bytes_written >= length
    /\ n_bytes' = bytes_written
    /\ want' = Overwritten(want, start, buf)
    /\ Return
    /\ UNCHANGED <<blocks, spare, writes, crashes>>

(* n_bytes grows by what was written.                                      *)
WriteInode ==
    /\ pc = "alloc" /\ Len(blocks) >= Needed
    /\ bytes_written >= length
    /\ n_bytes' = n_bytes + bytes_written
    /\ want' = Overwritten(want, start, buf)
    /\ Return
    /\ UNCHANGED <<blocks, spare, writes, crashes>>

Crash ==
    /\ ~Idle
    /\ crashes < MaxCrashes
    /\ crashes' = crashes + 1
    /\ Return
    /\ UNCHANGED <<n_bytes, blocks, spare, want, writes>>

(* cofs_read writes the access time only.                                  *)
Read == Idle /\ UNCHANGED fileVars

Resume == Alloc \/ AllocFails \/ WriteBlock \/ WriteInode

FileNext ==
    \/ \E from \in 0 .. MaxBytes, n \in 1 .. MaxLength : \E data \in [1 .. n -> Bytes] :
           Write(from, data)
    \/ Read
    \/ Resume
    \/ Crash

FileSpec == FileInit /\ [][FileNext]_fileVars
FairFileSpec == FileSpec /\ WF_fileVars(Resume)

-----------------------------------------------------------------------------
FileTypeOK ==
    /\ n_bytes \in Nat
    /\ blocks \in Seq(Block)
    /\ spare \in 0 .. SpareBlocks
    /\ pc \in {"idle", "alloc"}
    /\ start \in 0 .. MaxBytes /\ buf \in Seq(Bytes) /\ bytes_written \in 0 .. length
    /\ writes \in 0 .. MaxWrites /\ crashes \in 0 .. MaxCrashes

(* The size of the file is the number of its bytes, and bytes_written      *)
(* never passes the length of the write, nor anything else its type.       *)
SizeTrue == FileTypeOK /\ n_bytes = Len(want)

(* The kernel reads from the beginning of a block, up to the size of the   *)
(* file.  At any moment, in the middle of a write and after a crash as     *)
(* well, it reads what the completed writes wrote.                         *)
ReadBack ==
    \A b \in 0 .. Len(blocks) - 1, len \in 1 .. MaxBytes :
        b * BlockSize < Len(want) =>
            LET got == Least(len, Len(want) - b * BlockSize)
            IN  SubSeq(ReadData(b * BlockSize, len), 1, got)
                    = SubSeq(want, b * BlockSize + 1, b * BlockSize + got)

(* A write for which there are blocks comes to an end.                     *)
WriteEnds == ~Idle /\ Needed - Len(blocks) <= spare ~> Idle
=============================================================================
