---------------------------- MODULE InodeTable ----------------------------
(***************************************************************************)
(* The i-list and its cache of one block: cofs_inode_functions.c, one      *)
(* action per call.                                                        *)
(*                                                                         *)
(* The i-list is blocks 1..IlistSize of the device; block IlistSize + 1 is *)
(* the first data block.  inode_cache holds the i-list block numbered      *)
(* cached_inode_block, or nothing when that is 0.  allocate_inode counts   *)
(* cached_inode_block up while it searches and leaves it one past the      *)
(* i-list when it finds nothing.  Every call writes at most one block, so  *)
(* that a crash falls between two calls here.  The callers hand back an    *)
(* inode they were given, with new contents, or give it up.                *)
(***************************************************************************)
EXTENDS Integers, FiniteSets

CONSTANTS IlistSize,        (* ilist_size of the superblock                 *)
          InodesPerBlock,   (* INODES_PER_BLOCK, 16 in the code             *)
          Contents,         (* the rest of an inode: type, sizes, blocks... *)
          Zeroed,           (* the rest of an inode after memset(0)         *)
          SizeModulus,      (* size_t arithmetic is modulo this (2^64)      *)
          MaxRemounts       (* bound: unmounts and crashes                  *)

Slots == 0 .. InodesPerBlock - 1
IlistBlocks == 1 .. IlistSize
FirstDataBlock == IlistSize + 1
Inums == 0 .. IlistSize * InodesPerBlock - 1
Root == 0
Missing == -1                     (* INODE_MISSING, SIZE_MAX in the code    *)
Inode == [inum : Inums, in_use : {0, 1}, rest : Contents]
FreeInode(i) == [inum |-> i, in_use |-> 0, rest |-> Zeroed]
InodeAt(b, s) == (b - 1) * InodesPerBlock + s
(* The bytes of the data block behind the i-list, read as inodes.          *)
DataBytes == [s \in Slots |-> FreeInode(Root)]

ASSUME IlistAssumption ==
    /\ IlistSize \in Nat \ {0} /\ InodesPerBlock \in Nat \ {0}
    /\ Zeroed \in Contents
ASSUME IlistBoundAssumption ==
    /\ MaxRemounts \in Nat
    /\ SizeModulus \in Nat /\ SizeModulus > IlistSize * InodesPerBlock

VARIABLES
    disk,                (* the i-list and the block behind it              *)
    inode_cache,         (* a block in core                                 *)
    cached_inode_block,  (* and its number                                  *)
    free_inodes,         (* sblock_incore.free_inodes                       *)
    sb_free_inodes,      (* free_inodes of the superblock on disk           *)
    returned,            (* what the last call returned                     *)
    remounts             (* unmounts and crashes so far                     *)

tableVars == <<disk, inode_cache, cached_inode_block, free_inodes, sb_free_inodes,
               returned, remounts>>

NoAnswer == [call |-> "none", inum |-> Missing, inode |-> FreeInode(Root)]
Answer(call, i) == [NoAnswer EXCEPT !.call = call, !.inum = i]

-----------------------------------------------------------------------------
Plus1(n) == (n + 1) % SizeModulus
Minus1(n) == (n + SizeModulus - 1) % SizeModulus

BlockOf(i) == i \div InodesPerBlock + 1
SlotOf(i) == i % InodesPerBlock

FreeSlots(block) == {s \in Slots : block[s].in_use = 0}

(* The block of inode i in the cache, read from the disk if it is not      *)
(* there.                                                                  *)
Loaded(i) == IF cached_inode_block = BlockOf(i) THEN inode_cache ELSE disk[BlockOf(i)]

(* layer0_writeBlock of the cache to the block it is labelled with.        *)
WriteBack(b, block) ==
    /\ inode_cache' = block
    /\ cached_inode_block' = b
    /\ disk' = [disk EXCEPT ![b] = block]

-----------------------------------------------------------------------------
(* What mkfs leaves: ilist_create, and the root directory in inode 0.      *)
TableInit ==
    /\ \E c \in Contents :
           disk = [b \in IlistBlocks \union {FirstDataBlock} |->
                      IF b = FirstDataBlock THEN DataBytes
                      ELSE [s \in Slots |->
                               IF InodeAt(b, s) = Root
                               THEN [inum |-> Root, in_use |-> 1, rest |-> c]
                               ELSE FreeInode(InodeAt(b, s))]]
    /\ inode_cache = disk[1]
    /\ cached_inode_block = 1
    /\ free_inodes = IlistSize * InodesPerBlock - 1
    /\ sb_free_inodes = free_inodes
    /\ returned = NoAnswer
    /\ remounts = 0

-----------------------------------------------------------------------------
(* allocate_inode *)

(* The first free inode of a block.                                        *)
TakeFrom(b, block) ==
    /\ \E s \in FreeSlots(block) :
           /\ \A t \in FreeSlots(block) : s <= t
           /\ WriteBack(b, [block EXCEPT ![s].in_use = 1])
           /\ returned' = Answer("allocate", block[s].inum)
    /\ free_inodes' = Minus1(free_inodes)
    /\ UNCHANGED <<sb_free_inodes, remounts>>

CacheHasFree == cached_inode_block # 0 /\ FreeSlots(inode_cache) # {}

AllocateCached ==
    /\ CacheHasFree
    /\ TakeFrom(cached_inode_block, inode_cache)

(* Otherwise the first block of the i-list that has a free inode.          *)
AllocateScan ==
    /\ ~CacheHasFree
    /\ \E b \in IlistBlocks :
           /\ FreeSlots(disk[b]) # {}
           /\ \A c \in IlistBlocks : c < b => FreeSlots(disk[c]) = {}
           /\ TakeFrom(b, disk[b])

(* After the loop the last block is in the cache, labelled one too high.   *)
AllocateFails ==
    /\ ~CacheHasFree
    /\ \A b \in IlistBlocks : FreeSlots(disk[b]) = {}
    /\ inode_cache' = disk[IlistSize]
    /\ cached_inode_block' = IlistSize + 1
    /\ returned' = Answer("allocate", Missing)
    /\ UNCHANGED <<disk, free_inodes, sb_free_inodes, remounts>>

-----------------------------------------------------------------------------
InUse(i) == disk[BlockOf(i)][SlotOf(i)].in_use = 1

(* free_inode, of an inode whose last reference is gone (or that           *)
(* create_node could not link).  Mutants: the block read is not labelled;  *)
(* the inode forgets its number; only in_use is cleared; it is not counted.*)
Free_NotLabelled(i) ==
    /\ InUse(i)
    /\ inode_cache' = [Loaded(i) EXCEPT ![SlotOf(i)] = FreeInode(i)]
    /\ disk' = [disk EXCEPT ![BlockOf(i)] = inode_cache']
    /\ free_inodes' = Plus1(free_inodes)
    /\ returned' = Answer("free", i)
    /\ UNCHANGED <<cached_inode_block, sb_free_inodes, remounts>>
Free_InumLost(i) ==
    /\ InUse(i)
    /\ WriteBack(BlockOf(i), [Loaded(i) EXCEPT ![SlotOf(i)] = FreeInode(Root)])
    /\ free_inodes' = Plus1(free_inodes)
    /\ returned' = Answer("free", i)
    /\ UNCHANGED <<sb_free_inodes, remounts>>
Free_RestKept(i) ==
    /\ InUse(i)
    /\ WriteBack(BlockOf(i), [Loaded(i) EXCEPT ![SlotOf(i)].in_use = 0])
    /\ free_inodes' = Plus1(free_inodes)
    /\ returned' = Answer("free", i)
    /\ UNCHANGED <<sb_free_inodes, remounts>>
Free_NotCounted(i) ==
    /\ InUse(i)
    /\ WriteBack(BlockOf(i), [Loaded(i) EXCEPT ![SlotOf(i)] = FreeInode(i)])
    /\ returned' = Answer("free", i)
    /\ UNCHANGED <<free_inodes, sb_free_inodes, remounts>>

Free(i) ==
    /\ InUse(i)
    /\ WriteBack(BlockOf(i), [Loaded(i) EXCEPT ![SlotOf(i)] = FreeInode(i)])
    /\ free_inodes' = Plus1(free_inodes)
    /\ returned' = Answer("free", i)
    /\ UNCHANGED <<sb_free_inodes, remounts>>

(* Mutant: a cache that holds anything is taken for the right block.       *)
Read_AnyCache(i) ==
    /\ inode_cache' = IF cached_inode_block # 0 THEN inode_cache ELSE disk[BlockOf(i)]
    /\ cached_inode_block' = BlockOf(i)
    /\ returned' = [call |-> "read", inum |-> i, inode |-> inode_cache'[SlotOf(i)]]
    /\ UNCHANGED <<disk, free_inodes, sb_free_inodes, remounts>>

(* read_inode, of any inode number, in use or not.                         *)
Read(i) ==
    /\ inode_cache' = Loaded(i)
    /\ cached_inode_block' = BlockOf(i)
    /\ returned' = [call |-> "read", inum |-> i, inode |-> inode_cache'[SlotOf(i)]]
    /\ UNCHANGED <<disk, free_inodes, sb_free_inodes, remounts>>

(* write_inode, of an inode in use.                                        *)
Write(i, c) ==
    /\ InUse(i)
    /\ WriteBack(BlockOf(i), [Loaded(i) EXCEPT
                    ![SlotOf(i)] = [inum |-> i, in_use |-> 1, rest |-> c]])
    /\ returned' = Answer("write", i)
    /\ UNCHANGED <<free_inodes, sb_free_inodes, remounts>>

(* A change of the free list's head writes the superblock, counts and all. *)
SaveSuperblock ==
    /\ sb_free_inodes' = free_inodes
    /\ UNCHANGED <<disk, inode_cache, cached_inode_block, free_inodes, returned, remounts>>

(* The process ends, at an unmount or in a crash, and another one mounts   *)
(* the device: layer0_teardown saves nothing, and the statics start at 0.  *)
Remount ==
    /\ remounts < MaxRemounts
    /\ remounts' = remounts + 1
    /\ inode_cache' = [s \in Slots |-> FreeInode(Root)]
    /\ cached_inode_block' = 0
    /\ free_inodes' = sb_free_inodes
    /\ returned' = NoAnswer
    /\ UNCHANGED <<disk, sb_free_inodes>>

TableNext ==
    \/ AllocateCached \/ AllocateScan \/ AllocateFails
    \/ \E i \in Inums \ {Root} : Free(i)
    \/ \E i \in Inums : Read(i)
    \/ \E i \in Inums, c \in Contents : Write(i, c)
    \/ SaveSuperblock
    \/ Remount

TableSpec == TableInit /\ [][TableNext]_tableVars

-----------------------------------------------------------------------------
InodesInUse == {i \in Inums : InUse(i)}

TableTypeOK ==
    /\ disk \in [IlistBlocks \union {FirstDataBlock} -> [Slots -> Inode]]
    /\ inode_cache \in [Slots -> Inode]
    /\ cached_inode_block \in 0 .. IlistSize + 1
    /\ free_inodes \in 0 .. SizeModulus - 1
    /\ sb_free_inodes \in 0 .. SizeModulus - 1
    /\ returned \in [call : {"none", "allocate", "free", "read", "write"},
                     inum : Inums \union {Missing}, inode : Inode]
    /\ remounts \in 0 .. MaxRemounts

(* The cache holds the block it is labelled with.  Labelled one past the   *)
(* i-list it holds the last block, which has no free inode: otherwise the  *)
(* next allocate_inode would write inodes over the first data block, the   *)
(* head of the free list.                                                  *)
CacheCoherent ==
    /\ cached_inode_block \in IlistBlocks => inode_cache = disk[cached_inode_block]
    /\ cached_inode_block = FirstDataBlock => FreeSlots(inode_cache) = {}

(* No call writes outside the i-list.                                      *)
DataBlockSafe == disk[FirstDataBlock] = DataBytes

(* Every inode knows its number, whatever was allocated, freed and written.*)
InumTrue == \A b \in IlistBlocks, s \in Slots : disk[b][s].inum = InodeAt(b, s)

(* allocate_inode gives up only when every inode is in use.                *)
MissingWhenFull ==
    returned.call = "allocate" /\ returned.inum = Missing =>
        \A b \in IlistBlocks : FreeSlots(disk[b]) = {}

(* read_inode returns the inode that is on disk, whatever block the calls  *)
(* before it left in the cache.                                            *)
ReadCurrent ==
    returned.call = "read" =>
        returned.inode = disk[BlockOf(returned.inum)][SlotOf(returned.inum)]

(* Until the first remount free_inodes is the number of free inodes.       *)
FreeCountExact ==
    remounts = 0 => free_inodes + Cardinality(InodesInUse) = IlistSize * InodesPerBlock

(* The inodes are a pool like the data blocks: allocate_inode hands out    *)
(* one that is not in use, zeroed; what is written to it stays until its   *)
(* caller frees it; a crash takes nothing away.                            *)
Pool == INSTANCE BlockPool WITH
            Blocks <- Inums \ {Root}, Zero <- Zeroed, MaxCrashes <- 0, crashes <- 0,
            free <- Inums \ InodesInUse,
            content <- [i \in InodesInUse \ {Root} |-> disk[BlockOf(i)][SlotOf(i)].rest]
TablePoolSpec == Pool!PoolBehaviour
=============================================================================
