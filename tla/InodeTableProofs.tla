------------------------- MODULE InodeTableProofs -------------------------
(***************************************************************************)
(* Proofs about InodeTable, for every size of the i-list and of its blocks *)
(* and every set of contents.  TInv, the inductive invariant, is the       *)
(* conjunction of the safety invariants themselves: the coherence of the   *)
(* cache carries all the others.                                           *)
(***************************************************************************)
EXTENDS InodeTable, FiniteSetTheorems, TLAPS

(* Division with remainder.                                                *)
LEMMA DivMod ==
    ASSUME NEW n \in Int, n > 0, NEW i \in Int
    PROVE  i = n * (i \div n) + (i % n)
  BY Z3

(* The division undoes the row and column numbering.                       *)
LEMMA DivOfRow ==
    ASSUME NEW n \in Nat \ {0}, NEW q \in Nat, NEW r \in 0 .. n - 1
    PROVE  (q * n + r) \div n = q /\ (q * n + r) % n = r
  OBVIOUS

(* Rows do not overlap.                                                    *)
LEMMA MulMono ==
    ASSUME NEW n \in Nat \ {0}, NEW a \in Int, NEW b \in Int, a < b
    PROVE  a * n + n <= b * n
  OBVIOUS

(* Every inode number has its block and slot, and every slot its number.   *)
LEMMA Placed ==
    ASSUME NEW i \in Inums
    PROVE  BlockOf(i) \in IlistBlocks /\ SlotOf(i) \in Slots /\ InodeAt(BlockOf(i), SlotOf(i)) = i
<1> DEFINE n == InodesPerBlock
           q == i \div n
<1>1. n \in Nat \ {0} /\ n \in Int /\ n > 0 /\ IlistSize \in Nat \ {0} /\ i \in Int /\ i >= 0
      /\ IlistSize * n \in Int
  BY IlistAssumption DEF Inums
<1>2. i < IlistSize * n
  BY <1>1 DEF Inums
<1>3. q \in Int /\ i % n \in 0 .. n - 1
  BY <1>1
<1>4. i = n * q + (i % n)
  BY <1>1, DivMod
<1> HIDE DEF n
<1>5. q >= 0
  <2>1. SUFFICES ASSUME q < 0 PROVE FALSE
    BY <1>3
  <2>2. q * n + n <= 0 * n
    BY <2>1, <1>1, <1>3, MulMono
  <2> QED
    BY <2>2, <1>1, <1>3, <1>4
<1>6. q < IlistSize
  <2>1. SUFFICES ASSUME IlistSize <= q PROVE FALSE
    BY <1>3, <1>1
  <2>2. IlistSize * n <= q * n
    BY <2>1, <1>1, <1>3, MulMono
  <2> QED
    BY <2>2, <1>1, <1>2, <1>3, <1>4
<1>7. BlockOf(i) = q + 1 /\ SlotOf(i) = i % n
  BY DEF BlockOf, SlotOf, n
<1> QED
  BY <1>1, <1>3, <1>4, <1>5, <1>6, <1>7 DEF IlistBlocks, Slots, InodeAt, n

(* Every slot of the i-list has its own inode number.                      *)
LEMMA Numbered ==
    ASSUME NEW b \in IlistBlocks, NEW s \in Slots
    PROVE  /\ InodeAt(b, s) \in Inums
           /\ BlockOf(InodeAt(b, s)) = b
           /\ SlotOf(InodeAt(b, s)) = s
<1> DEFINE n == InodesPerBlock
<1>1. n \in Nat \ {0} /\ IlistSize \in Nat \ {0} /\ b - 1 \in Nat /\ b <= IlistSize
      /\ b \in Int /\ s \in 0 .. n - 1
  BY IlistAssumption DEF IlistBlocks, Slots
<1> HIDE DEF n
<1>2. ((b - 1) * n + s) \div n = b - 1 /\ ((b - 1) * n + s) % n = s
  BY <1>1, DivOfRow
<1>3. (b - 1) * n + n <= IlistSize * n
  BY <1>1, MulMono
<1>4. (b - 1) * n \in Nat /\ IlistSize * n \in Nat
  BY <1>1
<1>5. (b - 1) * n + s \in 0 .. IlistSize * n - 1
  BY <1>1, <1>3, <1>4
<1> QED
  BY <1>1, <1>2, <1>5 DEF InodeAt, Inums, BlockOf, SlotOf, n

-----------------------------------------------------------------------------
(* A free inode is all zeros but for its number.                           *)
FreeZeroed ==
    \A b \in IlistBlocks, s \in Slots : disk[b][s].in_use = 0 => disk[b][s].rest = Zeroed

TInv ==
    /\ TableTypeOK
    /\ CacheCoherent
    /\ DataBlockSafe
    /\ InumTrue
    /\ FreeZeroed
    /\ MissingWhenFull
    /\ ReadCurrent

(* What the assumptions on the constants give.                             *)
LEMMA TableFacts ==
    /\ IlistSize \in Nat \ {0} /\ InodesPerBlock \in Nat \ {0}
    /\ IlistSize * InodesPerBlock \in Nat /\ IlistSize * InodesPerBlock >= 1
    /\ Slots \subseteq Nat /\ IlistBlocks \subseteq Nat
    /\ FirstDataBlock \notin IlistBlocks /\ IlistSize \in IlistBlocks /\ 1 \in IlistBlocks
    /\ Root \in Inums /\ Inums \subseteq Int
    /\ \A i \in Inums : FreeInode(i) \in Inode
<1>1. IlistSize \in Nat \ {0} /\ InodesPerBlock \in Nat \ {0} /\ Zeroed \in Contents
  BY IlistAssumption
<1>2. 0 * InodesPerBlock + InodesPerBlock <= IlistSize * InodesPerBlock
  BY <1>1, MulMono
<1>3. IlistSize * InodesPerBlock \in Nat /\ IlistSize * InodesPerBlock >= 1
  BY <1>1, <1>2
<1>4. Root \in Inums /\ Inums \subseteq Int
  BY <1>3 DEF Root, Inums
<1>5. \A i \in Inums : FreeInode(i) \in Inode
  BY <1>1 DEF FreeInode, Inode
<1> QED
  BY <1>1, <1>3, <1>4, <1>5 DEF Slots, IlistBlocks, FirstDataBlock

(* The counter stays a size_t.                                             *)
LEMMA CountType ==
    ASSUME NEW n \in 0 .. SizeModulus - 1
    PROVE  Plus1(n) \in 0 .. SizeModulus - 1 /\ Minus1(n) \in 0 .. SizeModulus - 1
<1>1. SizeModulus \in Nat \ {0}
  BY IlistBoundAssumption, TableFacts
<1> QED
  BY <1>1 DEF Plus1, Minus1

(* What the cache gives for an inode is what the disk has.                 *)
LEMMA LoadedIsDisk ==
    ASSUME CacheCoherent, NEW i \in Inums
    PROVE  Loaded(i) = disk[BlockOf(i)]
  BY Placed DEF CacheCoherent, Loaded

(* The one change to the disk: inode i becomes x.                          *)
LEMMA Stored ==
    ASSUME TInv, NEW i \in Inums, NEW x \in Inode, x.inum = i,
           x.in_use = 0 => x.rest = Zeroed,
           WriteBack(BlockOf(i), [disk[BlockOf(i)] EXCEPT ![SlotOf(i)] = x])
    PROVE  /\ disk' \in [IlistBlocks \union {FirstDataBlock} -> [Slots -> Inode]]
           /\ inode_cache' \in [Slots -> Inode]
           /\ cached_inode_block' \in 0 .. IlistSize + 1
           /\ CacheCoherent' /\ DataBlockSafe' /\ InumTrue' /\ FreeZeroed'
           /\ \A j \in Inums : disk'[BlockOf(j)][SlotOf(j)] =
                                  IF j = i THEN x ELSE disk[BlockOf(j)][SlotOf(j)]
<1> DEFINE b == BlockOf(i)
           s == SlotOf(i)
           block == [disk[b] EXCEPT ![s] = x]
<1>1. b \in IlistBlocks /\ s \in Slots /\ InodeAt(b, s) = i
  BY Placed
<1>2. disk \in [IlistBlocks \union {FirstDataBlock} -> [Slots -> Inode]]
  BY DEF TInv, TableTypeOK
<1>3. inode_cache' = block /\ cached_inode_block' = b /\ disk' = [disk EXCEPT ![b] = block]
  BY DEF WriteBack
<1>4. block \in [Slots -> Inode] /\ block[s] = x
      /\ \A t \in Slots : t # s => block[t] = disk[b][t]
  BY <1>1, <1>2
<1>5. disk'[b] = block /\ \A c \in IlistBlocks \union {FirstDataBlock} : c # b => disk'[c] = disk[c]
  BY <1>1, <1>2, <1>3
<1>6. disk' \in [IlistBlocks \union {FirstDataBlock} -> [Slots -> Inode]]
  BY <1>1, <1>2, <1>3, <1>4
<1> HIDE DEF block
<1>7. inode_cache' \in [Slots -> Inode] /\ cached_inode_block' \in 0 .. IlistSize + 1
  BY <1>1, <1>3, <1>4, TableFacts DEF IlistBlocks
<1>8. CacheCoherent'
  BY <1>1, <1>3, <1>5, TableFacts DEF CacheCoherent
<1>9. DataBlockSafe'
  BY <1>1, <1>5, TableFacts DEF DataBlockSafe, TInv, DataBytes
<1>10. InumTrue'
  <2> SUFFICES ASSUME NEW c \in IlistBlocks, NEW t \in Slots
               PROVE  disk'[c][t].inum = InodeAt(c, t)
    BY DEF InumTrue
  <2>1. CASE c = b /\ t = s
    BY <2>1, <1>1, <1>4, <1>5
  <2>2. CASE ~(c = b /\ t = s)
    BY <2>2, <1>4, <1>5 DEF TInv, InumTrue
  <2> QED
    BY <2>1, <2>2
<1>11. FreeZeroed'
  <2> SUFFICES ASSUME NEW c \in IlistBlocks, NEW t \in Slots, disk'[c][t].in_use = 0
               PROVE  disk'[c][t].rest = Zeroed
    BY DEF FreeZeroed
  <2>1. CASE c = b /\ t = s
    BY <2>1, <1>4, <1>5
  <2>2. CASE ~(c = b /\ t = s)
    BY <2>2, <1>4, <1>5 DEF TInv, FreeZeroed
  <2> QED
    BY <2>1, <2>2
<1>12. ASSUME NEW j \in Inums
       PROVE  disk'[BlockOf(j)][SlotOf(j)] = IF j = i THEN x ELSE disk[BlockOf(j)][SlotOf(j)]
  <2>1. BlockOf(j) \in IlistBlocks /\ SlotOf(j) \in Slots /\ InodeAt(BlockOf(j), SlotOf(j)) = j
    BY Placed
  <2>2. CASE j = i
    BY <2>2, <1>4, <1>5
  <2>3. CASE j # i
    <3>1. ~(BlockOf(j) = b /\ SlotOf(j) = s)
      BY <2>1, <2>3, <1>1
    <3> QED
      BY <3>1, <2>1, <2>3, <1>4, <1>5
  <2> QED
    BY <2>2, <2>3
<1> QED
  BY <1>6, <1>7, <1>8, <1>9, <1>10, <1>11, <1>12


-----------------------------------------------------------------------------
(* allocate_inode: the inode it takes had been free, and zeroed.           *)
LEMMA TakeFromFacts ==
    ASSUME TInv, NEW b \in IlistBlocks, TakeFrom(b, disk[b])
    PROVE  \E i \in Inums :
               /\ ~InUse(i)
               /\ WriteBack(BlockOf(i), [disk[BlockOf(i)] EXCEPT ![SlotOf(i)] =
                                [inum |-> i, in_use |-> 1, rest |-> Zeroed]])
               /\ returned' = Answer("allocate", i)
               /\ free_inodes' = Minus1(free_inodes)
               /\ UNCHANGED <<sb_free_inodes, remounts>>
<1>1. PICK s \in FreeSlots(disk[b]) :
          /\ WriteBack(b, [disk[b] EXCEPT ![s].in_use = 1])
          /\ returned' = Answer("allocate", disk[b][s].inum)
  BY DEF TakeFrom
<1> DEFINE i == InodeAt(b, s)
<1>2. s \in Slots /\ disk[b][s].in_use = 0
  BY DEF FreeSlots
<1>3. i \in Inums /\ BlockOf(i) = b /\ SlotOf(i) = s
  BY <1>2, Numbered
<1>4. disk[b][s].inum = i /\ disk[b][s].rest = Zeroed
  BY <1>2 DEF TInv, InumTrue, FreeZeroed
<1>5. disk[b] \in [Slots -> Inode] /\ disk[b][s] \in Inode
  BY <1>2 DEF TInv, TableTypeOK
<1>6. [disk[b][s] EXCEPT !.in_use = 1] = [inum |-> i, in_use |-> 1, rest |-> Zeroed]
  <2>1. \A r \in Inode : [r EXCEPT !.in_use = 1]
                               = [inum |-> r.inum, in_use |-> 1, rest |-> r.rest]
    BY DEF Inode
  <2> QED
    BY <2>1, <1>4, <1>5
<1> HIDE DEF i
<1>7. [disk[b] EXCEPT ![s].in_use = 1]
          = [disk[b] EXCEPT ![s] = [inum |-> i, in_use |-> 1, rest |-> Zeroed]]
  BY <1>6
<1>8. ~InUse(i)
  BY <1>2, <1>3 DEF InUse
<1> QED
  BY <1>1, <1>3, <1>4, <1>7, <1>8 DEF TakeFrom

(* Both ways of taking an inode take it from the disk's copy of its block. *)
LEMMA AllocateTakes ==
    ASSUME TInv, AllocateCached \/ AllocateScan
    PROVE  \E b \in IlistBlocks : TakeFrom(b, disk[b])
<1>1. CASE AllocateScan
  BY <1>1 DEF AllocateScan
<1>2. CASE AllocateCached
  <2>1. cached_inode_block \in 0 .. IlistSize + 1 /\ cached_inode_block # 0
        /\ FreeSlots(inode_cache) # {} /\ TakeFrom(cached_inode_block, inode_cache)
    BY <1>2 DEF AllocateCached, CacheHasFree, TInv, TableTypeOK
  <2>2. cached_inode_block # FirstDataBlock
    BY <2>1 DEF TInv, CacheCoherent
  <2>3. cached_inode_block \in IlistBlocks
    BY <2>1, <2>2, TableFacts DEF IlistBlocks, FirstDataBlock
  <2>4. inode_cache = disk[cached_inode_block]
    BY <2>3 DEF TInv, CacheCoherent
  <2> QED
    BY <2>1, <2>3, <2>4
<1> QED
  BY <1>1, <1>2

(* The answers of calls that change the disk say nothing else.             *)
LEMMA AnswerFacts ==
    ASSUME NEW call \in {"none", "allocate", "free", "read", "write"},
           NEW i \in Inums \union {Missing}, returned' = Answer(call, i), call # "read",
           call = "allocate" => i # Missing, TInv
    PROVE  /\ returned' \in [call : {"none", "allocate", "free", "read", "write"},
                             inum : Inums \union {Missing}, inode : Inode]
           /\ MissingWhenFull' /\ ReadCurrent'
<1>1. returned' = [call |-> call, inum |-> i, inode |-> FreeInode(Root)]
  BY DEF Answer, NoAnswer
<1>2. FreeInode(Root) \in Inode
  BY TableFacts
<1> QED
  BY <1>1, <1>2 DEF MissingWhenFull, ReadCurrent

(* INODE_MISSING is no inode's number.                                     *)
LEMMA NotMissing ==
    ASSUME NEW i \in Inums
    PROVE  i # Missing
<1>1. IlistSize * InodesPerBlock \in Nat
  BY TableFacts
<1> QED
  BY <1>1 DEF Inums, Missing

-----------------------------------------------------------------------------
(* What is stored is an inode with its own number.                         *)
LEMMA NewInode ==
    ASSUME NEW i \in Inums, NEW c \in Contents
    PROVE  [inum |-> i, in_use |-> 1, rest |-> c] \in Inode
  BY DEF Inode

(* The invariant holds on the image that mkfs leaves.                      *)
LEMMA TableInitInv == TableInit => TInv
<1> SUFFICES ASSUME TableInit PROVE TInv
  OBVIOUS
<1>0. Zeroed \in Contents
  BY IlistAssumption
<1> DEFINE T == IlistSize * InodesPerBlock
           First(c) == [b \in IlistBlocks \union {FirstDataBlock} |->
                      IF b = FirstDataBlock THEN DataBytes
                      ELSE [s \in Slots |->
                               IF InodeAt(b, s) = Root
                               THEN [inum |-> Root, in_use |-> 1, rest |-> c]
                               ELSE FreeInode(InodeAt(b, s))]]
<1>1. PICK c \in Contents : disk = First(c)
  BY DEF TableInit
<1>2. inode_cache = disk[1] /\ cached_inode_block = 1 /\ free_inodes = T - 1
      /\ sb_free_inodes = T - 1 /\ returned = NoAnswer /\ remounts = 0
  BY DEF TableInit
<1>3. \A b \in IlistBlocks, s \in Slots : InodeAt(b, s) \in Inums
  BY Numbered
<1>4. \A b \in IlistBlocks, s \in Slots :
          disk[b][s] = IF InodeAt(b, s) = Root
                       THEN [inum |-> Root, in_use |-> 1, rest |-> c]
                       ELSE FreeInode(InodeAt(b, s))
  BY <1>1, TableFacts
<1>5. disk \in [IlistBlocks \union {FirstDataBlock} -> [Slots -> Inode]]
  <2>1. DataBytes \in [Slots -> Inode]
    BY TableFacts DEF DataBytes
  <2>2. \A b \in IlistBlocks : disk[b] \in [Slots -> Inode]
    <3> SUFFICES ASSUME NEW b \in IlistBlocks PROVE disk[b] \in [Slots -> Inode]
      OBVIOUS
    <3>1. disk[b] = [s \in Slots |-> IF InodeAt(b, s) = Root
                               THEN [inum |-> Root, in_use |-> 1, rest |-> c]
                               ELSE FreeInode(InodeAt(b, s))]
      BY <1>1, TableFacts
    <3>2. \A s \in Slots : (IF InodeAt(b, s) = Root
                               THEN [inum |-> Root, in_use |-> 1, rest |-> c]
                               ELSE FreeInode(InodeAt(b, s))) \in Inode
      BY <1>3, TableFacts, NewInode
    <3> QED
      BY <3>1, <3>2
  <2>3. disk[FirstDataBlock] = DataBytes
    BY <1>1
  <2>4. DOMAIN disk = IlistBlocks \union {FirstDataBlock}
        /\ disk = [b \in IlistBlocks \union {FirstDataBlock} |-> disk[b]]
    BY <1>1
  <2> HIDE DEF First
  <2> QED
    BY <2>1, <2>2, <2>3, <2>4
<1> HIDE DEF First
<1>6. TableTypeOK
  <2>1. disk[1] \in [Slots -> Inode]
    BY <1>5, TableFacts
  <2>2. T \in Nat /\ T >= 1 /\ SizeModulus \in Nat /\ SizeModulus > T
    BY TableFacts, IlistBoundAssumption
  <2>3. T - 1 \in 0 .. SizeModulus - 1
    BY <2>2
  <2>4. NoAnswer \in [call : {"none", "allocate", "free", "read", "write"},
                     inum : Inums \union {Missing}, inode : Inode]
    BY TableFacts DEF NoAnswer
  <2>5. 0 \in 0 .. MaxRemounts /\ 1 \in 0 .. IlistSize + 1
    BY IlistBoundAssumption, TableFacts
  <2> QED
    BY <1>2, <1>5, <2>1, <2>3, <2>4, <2>5 DEF TableTypeOK
<1>7. CacheCoherent
  BY <1>2, TableFacts DEF CacheCoherent
<1>8. DataBlockSafe
  BY <1>1 DEF DataBlockSafe, First
<1>9. InumTrue /\ FreeZeroed
  <2> SUFFICES ASSUME NEW b \in IlistBlocks, NEW s \in Slots
               PROVE  /\ disk[b][s].inum = InodeAt(b, s)
                      /\ disk[b][s].in_use = 0 => disk[b][s].rest = Zeroed
    BY DEF InumTrue, FreeZeroed
  <2>1. CASE InodeAt(b, s) = Root
    BY <1>4, <2>1
  <2>2. CASE InodeAt(b, s) # Root
    <3>1. disk[b][s] = FreeInode(InodeAt(b, s))
      BY <1>4, <2>2
    <3> QED
      BY <3>1 DEF FreeInode
  <2> QED
    BY <2>1, <2>2
<1>10. MissingWhenFull /\ ReadCurrent
  BY <1>2 DEF MissingWhenFull, ReadCurrent, NoAnswer
<1> QED
  BY <1>6, <1>7, <1>8, <1>9, <1>10 DEF TInv


-----------------------------------------------------------------------------
(* One step preserves the invariant: one lemma per kind of action.         *)
LEMMA AllocateStep ==
    ASSUME TInv, AllocateCached \/ AllocateScan
    PROVE  TInv'
<1>1. PICK i \in Inums :
          /\ ~InUse(i)
          /\ WriteBack(BlockOf(i), [disk[BlockOf(i)] EXCEPT ![SlotOf(i)] =
                           [inum |-> i, in_use |-> 1, rest |-> Zeroed]])
          /\ returned' = Answer("allocate", i)
          /\ free_inodes' = Minus1(free_inodes)
          /\ UNCHANGED <<sb_free_inodes, remounts>>
  BY AllocateTakes, TakeFromFacts
<1>2. [inum |-> i, in_use |-> 1, rest |-> Zeroed] \in Inode
  BY NewInode, IlistAssumption
<1>3. free_inodes' \in 0 .. SizeModulus - 1
  BY <1>1, CountType DEF TInv, TableTypeOK
<1>4. i # Missing
  BY NotMissing
<1>5. /\ returned' \in [call : {"none", "allocate", "free", "read", "write"},
                        inum : Inums \union {Missing}, inode : Inode]
      /\ MissingWhenFull' /\ ReadCurrent'
  BY <1>1, <1>4, AnswerFacts
<1>6. /\ disk' \in [IlistBlocks \union {FirstDataBlock} -> [Slots -> Inode]]
      /\ inode_cache' \in [Slots -> Inode]
      /\ cached_inode_block' \in 0 .. IlistSize + 1
      /\ CacheCoherent' /\ DataBlockSafe' /\ InumTrue' /\ FreeZeroed'
  BY <1>1, <1>2, Stored
<1> QED
  BY <1>1, <1>3, <1>5, <1>6 DEF TInv, TableTypeOK

(* A failed search leaves the full last block in the cache.                *)
LEMMA AllocateFailsStep ==
    ASSUME TInv, AllocateFails
    PROVE  TInv'
<1>1. /\ \A b \in IlistBlocks : FreeSlots(disk[b]) = {}
      /\ inode_cache' = disk[IlistSize]
      /\ cached_inode_block' = IlistSize + 1
      /\ returned' = Answer("allocate", Missing)
      /\ UNCHANGED <<disk, free_inodes, sb_free_inodes, remounts>>
  BY DEF AllocateFails
<1>2. TableTypeOK'
  <2>1. inode_cache' \in [Slots -> Inode] /\ cached_inode_block' \in 0 .. IlistSize + 1
    BY <1>1, TableFacts DEF TInv, TableTypeOK
  <2>2. returned' \in [call : {"none", "allocate", "free", "read", "write"},
                      inum : Inums \union {Missing}, inode : Inode]
    BY <1>1, TableFacts DEF Answer, NoAnswer
  <2> QED
    BY <1>1, <2>1, <2>2 DEF TInv, TableTypeOK
<1>3. CacheCoherent'
  BY <1>1, TableFacts DEF CacheCoherent, FirstDataBlock
<1>4. DataBlockSafe' /\ InumTrue' /\ FreeZeroed'
  BY <1>1 DEF TInv, DataBlockSafe, InumTrue, FreeZeroed
<1>5. MissingWhenFull'
  BY <1>1 DEF MissingWhenFull
<1>6. ReadCurrent'
  BY <1>1 DEF ReadCurrent, Answer, NoAnswer
<1> QED
  BY <1>2, <1>3, <1>4, <1>5, <1>6 DEF TInv

(* free_inode and write_inode store an inode with its own number.          *)
LEMMA StoreStep ==
    ASSUME TInv, NEW i \in Inums, NEW x \in Inode, x.inum = i, x.in_use = 0 => x.rest = Zeroed,
           WriteBack(BlockOf(i), [Loaded(i) EXCEPT ![SlotOf(i)] = x]),
           NEW call \in {"free", "write"}, returned' = Answer(call, i),
           free_inodes' \in 0 .. SizeModulus - 1,
           UNCHANGED <<sb_free_inodes, remounts>>
    PROVE  TInv'
<1>1. Loaded(i) = disk[BlockOf(i)]
  BY LoadedIsDisk DEF TInv
<1>2. /\ disk' \in [IlistBlocks \union {FirstDataBlock} -> [Slots -> Inode]]
      /\ inode_cache' \in [Slots -> Inode]
      /\ cached_inode_block' \in 0 .. IlistSize + 1
      /\ CacheCoherent' /\ DataBlockSafe' /\ InumTrue' /\ FreeZeroed'
  BY <1>1, Stored
<1>3. /\ returned' \in [call : {"none", "allocate", "free", "read", "write"},
                        inum : Inums \union {Missing}, inode : Inode]
      /\ MissingWhenFull' /\ ReadCurrent'
  BY AnswerFacts
<1> QED
  BY <1>2, <1>3 DEF TInv, TableTypeOK

(* free_inode.                                                             *)
LEMMA FreeStep ==
    ASSUME TInv, NEW i \in Inums, Free(i)
    PROVE  TInv'
<1>1. FreeInode(i) \in Inode /\ FreeInode(i).inum = i /\ FreeInode(i).rest = Zeroed
  BY TableFacts DEF FreeInode
<1>2. free_inodes' \in 0 .. SizeModulus - 1
  BY CountType DEF Free, TInv, TableTypeOK
<1> QED
  BY <1>1, <1>2, StoreStep DEF Free

(* write_inode.                                                            *)
LEMMA WriteStep ==
    ASSUME TInv, NEW i \in Inums, NEW c \in Contents, Write(i, c)
    PROVE  TInv'
<1> DEFINE x == [inum |-> i, in_use |-> 1, rest |-> c]
<1>1. x \in Inode /\ x.inum = i /\ x.in_use # 0
  BY NewInode
<1>2. free_inodes' \in 0 .. SizeModulus - 1
  BY DEF Write, TInv, TableTypeOK
<1>3. /\ WriteBack(BlockOf(i), [Loaded(i) EXCEPT ![SlotOf(i)] = x])
      /\ returned' = Answer("write", i)
      /\ UNCHANGED <<sb_free_inodes, remounts>>
  BY DEF Write
<1> HIDE DEF x
<1> QED
  BY <1>1, <1>2, <1>3, StoreStep

(* read_inode: the cache moves to another block, the disk stays.           *)
LEMMA ReadStep ==
    ASSUME TInv, NEW i \in Inums, Read(i)
    PROVE  TInv'
<1>1. Loaded(i) = disk[BlockOf(i)] /\ BlockOf(i) \in IlistBlocks /\ SlotOf(i) \in Slots
  BY LoadedIsDisk, Placed DEF TInv
<1>2. /\ inode_cache' = disk[BlockOf(i)]
      /\ cached_inode_block' = BlockOf(i)
      /\ returned' = [call |-> "read", inum |-> i, inode |-> disk[BlockOf(i)][SlotOf(i)]]
      /\ UNCHANGED <<disk, free_inodes, sb_free_inodes, remounts>>
  BY <1>1 DEF Read
<1>3. TableTypeOK'
  <2>1. disk[BlockOf(i)] \in [Slots -> Inode] /\ disk[BlockOf(i)][SlotOf(i)] \in Inode
    BY <1>1 DEF TInv, TableTypeOK
  <2>2. BlockOf(i) \in 0 .. IlistSize + 1
    BY <1>1, TableFacts DEF IlistBlocks
  <2> QED
    BY <1>2, <2>1, <2>2 DEF TInv, TableTypeOK
<1>4. CacheCoherent'
  BY <1>1, <1>2, TableFacts DEF CacheCoherent
<1>5. DataBlockSafe' /\ InumTrue' /\ FreeZeroed'
  BY <1>2 DEF TInv, DataBlockSafe, InumTrue, FreeZeroed
<1>6. MissingWhenFull' /\ ReadCurrent'
  BY <1>2 DEF MissingWhenFull, ReadCurrent
<1> QED
  BY <1>3, <1>4, <1>5, <1>6 DEF TInv

(* The superblock is no part of the invariant.                             *)
LEMMA SaveStep ==
    ASSUME TInv, SaveSuperblock
    PROVE  TInv'
  BY DEF SaveSuperblock, TInv, TableTypeOK, CacheCoherent, DataBlockSafe, InumTrue,
         FreeZeroed, MissingWhenFull, ReadCurrent

(* A process that starts has nothing in its cache.                         *)
LEMMA RemountStep ==
    ASSUME TInv, Remount
    PROVE  TInv'
<1>1. /\ remounts < MaxRemounts /\ remounts' = remounts + 1
      /\ inode_cache' = [s \in Slots |-> FreeInode(Root)]
      /\ cached_inode_block' = 0
      /\ free_inodes' = sb_free_inodes
      /\ returned' = NoAnswer
      /\ UNCHANGED <<disk, sb_free_inodes>>
  BY DEF Remount
<1>2. TableTypeOK'
  <2>1. remounts' \in 0 .. MaxRemounts
    BY <1>1, IlistBoundAssumption DEF TInv, TableTypeOK
  <2>2. inode_cache' \in [Slots -> Inode] /\ cached_inode_block' \in 0 .. IlistSize + 1
    BY <1>1, TableFacts
  <2>3. returned' \in [call : {"none", "allocate", "free", "read", "write"},
                      inum : Inums \union {Missing}, inode : Inode]
    BY <1>1, TableFacts DEF NoAnswer
  <2> QED
    BY <1>1, <2>1, <2>2, <2>3 DEF TInv, TableTypeOK
<1>3. CacheCoherent'
  BY <1>1, TableFacts DEF CacheCoherent, IlistBlocks, FirstDataBlock
<1>4. DataBlockSafe' /\ InumTrue' /\ FreeZeroed'
  BY <1>1 DEF TInv, DataBlockSafe, InumTrue, FreeZeroed
<1>5. MissingWhenFull' /\ ReadCurrent'
  BY <1>1 DEF MissingWhenFull, ReadCurrent, NoAnswer
<1> QED
  BY <1>2, <1>3, <1>4, <1>5 DEF TInv

(* Every step preserves the invariant.                                     *)
LEMMA TableStep == TInv /\ [TableNext]_tableVars => TInv'
<1> SUFFICES ASSUME TInv, [TableNext]_tableVars PROVE TInv'
  OBVIOUS
<1>1. CASE AllocateCached \/ AllocateScan
  BY <1>1, AllocateStep
<1>2. CASE AllocateFails
  BY <1>2, AllocateFailsStep
<1>3. ASSUME NEW i \in Inums \ {Root}, Free(i) PROVE TInv'
  BY <1>3, FreeStep
<1>4. ASSUME NEW i \in Inums, Read(i) PROVE TInv'
  BY <1>4, ReadStep
<1>5. ASSUME NEW i \in Inums, NEW c \in Contents, Write(i, c) PROVE TInv'
  BY <1>5, WriteStep
<1>6. CASE SaveSuperblock
  BY <1>6, SaveStep
<1>7. CASE Remount
  BY <1>7, RemountStep
<1>8. CASE UNCHANGED tableVars
  BY <1>8 DEF tableVars, TInv, TableTypeOK, CacheCoherent, DataBlockSafe, InumTrue,
              FreeZeroed, MissingWhenFull, ReadCurrent
<1> QED
  BY <1>1, <1>2, <1>3, <1>4, <1>5, <1>6, <1>7, <1>8 DEF TableNext

(* The invariant holds throughout.                                         *)
THEOREM TableInvariance == TableSpec => []TInv
<1>1. TableInit => TInv
  BY TableInitInv
<1>2. TInv /\ [TableNext]_tableVars => TInv'
  BY TableStep
<1> QED
  BY <1>1, <1>2, PTL DEF TableSpec

(* The one-block cache never disagrees with the disk, and a search that    *)
(* failed does not leave in it what allocate_inode could take.             *)
THEOREM CacheIsCoherent == TableSpec => []CacheCoherent
<1>1. TInv => CacheCoherent
  BY DEF TInv
<1> QED
  BY <1>1, TableInvariance, PTL

(* No call of cofs_inode_functions.c writes over the data blocks.          *)
THEOREM DataBlockIsSafe == TableSpec => []DataBlockSafe
<1>1. TInv => DataBlockSafe
  BY DEF TInv
<1> QED
  BY <1>1, TableInvariance, PTL

(* read_inode returns what is on disk.                                     *)
THEOREM ReadIsCurrent == TableSpec => []ReadCurrent
<1>1. TInv => ReadCurrent
  BY DEF TInv
<1> QED
  BY <1>1, TableInvariance, PTL

(* allocate_inode fails only when the i-list is full.                      *)
THEOREM MissingIsFull == TableSpec => []MissingWhenFull
<1>1. TInv => MissingWhenFull
  BY DEF TInv
<1> QED
  BY <1>1, TableInvariance, PTL


-----------------------------------------------------------------------------
(* The refinement of BlockPool.                                            *)

RestOf(i) == disk[BlockOf(i)][SlotOf(i)].rest

(* How a store of inode i changes the pool.                                *)
LEMMA StoredPool ==
    ASSUME TInv, NEW i \in Inums, NEW x \in Inode, x.inum = i, x.in_use = 0 => x.rest = Zeroed,
           WriteBack(BlockOf(i), [disk[BlockOf(i)] EXCEPT ![SlotOf(i)] = x])
    PROVE  /\ InodesInUse' = IF x.in_use = 1 THEN InodesInUse \union {i} ELSE InodesInUse \ {i}
           /\ \A j \in Inums : RestOf(j)' = IF j = i THEN x.rest ELSE RestOf(j)
<1>1. \A j \in Inums : disk'[BlockOf(j)][SlotOf(j)] =
                            IF j = i THEN x ELSE disk[BlockOf(j)][SlotOf(j)]
  BY Stored
<1>2. \A j \in Inums : InUse(j)' <=> (IF j = i THEN x.in_use = 1 ELSE InUse(j))
  BY <1>1 DEF InUse
<1>3. InodesInUse' = {j \in Inums : InUse(j)'}
  BY DEF InodesInUse
<1> QED
  BY <1>1, <1>2, <1>3 DEF InodesInUse, RestOf

(* On mkfs's image all inodes but the root's are free.                     *)
LEMMA UsedAtStart ==
    ASSUME TableInit
    PROVE  InodesInUse = {Root}
<1>1. TInv
  BY TableInitInv
<1>2. PICK c \in Contents :
        disk = [b \in IlistBlocks \union {FirstDataBlock} |->
                      IF b = FirstDataBlock THEN DataBytes
                      ELSE [s \in Slots |->
                               IF InodeAt(b, s) = Root
                               THEN [inum |-> Root, in_use |-> 1, rest |-> c]
                               ELSE FreeInode(InodeAt(b, s))]]
  BY DEF TableInit
<1>3. ASSUME NEW i \in Inums
      PROVE  InUse(i) <=> i = Root
  <2>1. BlockOf(i) \in IlistBlocks /\ SlotOf(i) \in Slots /\ InodeAt(BlockOf(i), SlotOf(i)) = i
    BY Placed
  <2>2. disk[BlockOf(i)][SlotOf(i)] = IF i = Root THEN [inum |-> Root, in_use |-> 1, rest |-> c]
                                      ELSE FreeInode(i)
    BY <1>2, <2>1, TableFacts
  <2>3. CASE i = Root
    BY <2>2, <2>3 DEF InUse
  <2>4. CASE i # Root
    <3>1. disk[BlockOf(i)][SlotOf(i)] = FreeInode(i)
      BY <2>2, <2>4
    <3> QED
      BY <3>1, <2>4 DEF InUse, FreeInode
  <2> QED
    BY <2>3, <2>4
<1> QED
  BY <1>3, TableFacts DEF InodesInUse

LEMMA PoolStart ==
    ASSUME TableInit
    PROVE  Pool!PoolInit
  BY UsedAtStart DEF Pool!PoolInit

(* The root directory's inode stays in use.                                *)
RootInUse == Root \in InodesInUse

(* The root's inode is in use on mkfs's image.                             *)
LEMMA RootStart == TableInit => RootInUse
<1> SUFFICES ASSUME TableInit PROVE RootInUse
  OBVIOUS
<1>1. BlockOf(Root) \in IlistBlocks /\ SlotOf(Root) \in Slots
      /\ InodeAt(BlockOf(Root), SlotOf(Root)) = Root /\ Root \in Inums
  BY Placed, TableFacts
<1>2. disk[BlockOf(Root)][SlotOf(Root)].in_use = 1
  BY <1>1, TableFacts DEF TableInit
<1> QED
  BY <1>1, <1>2 DEF RootInUse, InodesInUse, InUse

(* Every step is a step of the pool, or the pool does not notice it.       *)
LEMMA PoolStep ==
    ASSUME TInv, RootInUse, [TableNext]_tableVars
    PROVE  RootInUse' /\ [Pool!PoolNext]_(Pool!poolVars)
<1> DEFINE free == Inums \ InodesInUse
           content == [i \in InodesInUse \ {Root} |-> disk[BlockOf(i)][SlotOf(i)].rest]
<1>0. Root \in InodesInUse /\ InodesInUse \subseteq Inums /\ Zeroed \in Contents
  BY IlistAssumption DEF RootInUse, InodesInUse
<1>1. content = [i \in InodesInUse \ {Root} |-> RestOf(i)]
      /\ content' = [i \in InodesInUse' \ {Root} |-> RestOf(i)']
  BY DEF RestOf
<1>2. ASSUME UNCHANGED disk PROVE UNCHANGED <<InodesInUse, free, content>>
  BY <1>2 DEF InodesInUse, InUse
<1>3. CASE AllocateCached \/ AllocateScan
  <2>1. PICK i \in Inums :
            /\ ~InUse(i)
            /\ WriteBack(BlockOf(i), [disk[BlockOf(i)] EXCEPT ![SlotOf(i)] =
                             [inum |-> i, in_use |-> 1, rest |-> Zeroed]])
    BY <1>3, AllocateTakes, TakeFromFacts
  <2> DEFINE x == [inum |-> i, in_use |-> 1, rest |-> Zeroed]
  <2>2. x \in Inode /\ x.inum = i /\ x.in_use = 1 /\ x.rest = Zeroed
    BY <1>0, NewInode
  <2> HIDE DEF x
  <2>3. /\ InodesInUse' = InodesInUse \union {i}
        /\ \A j \in Inums : RestOf(j)' = IF j = i THEN Zeroed ELSE RestOf(j)
    <3>1. WriteBack(BlockOf(i), [disk[BlockOf(i)] EXCEPT ![SlotOf(i)] = x])
      BY <2>1 DEF x
    <3> QED
      BY <2>2, <3>1, StoredPool
  <2>4. i \in free /\ i # Root /\ i \notin InodesInUse
    BY <2>1, <1>0 DEF InodesInUse
  <2>5. free' = free \ {i}
    BY <2>3
  <2>6. DOMAIN content = InodesInUse \ {Root}
    OBVIOUS
  <2>7. content' = [c \in DOMAIN content \union {i} |-> IF c = i THEN Zeroed ELSE content[c]]
    <3>1. InodesInUse' \ {Root} = DOMAIN content \union {i}
      BY <2>3, <2>4, <2>6
    <3>2. \A c \in DOMAIN content : content[c] = RestOf(c) /\ c \in Inums
      BY <1>0, <1>1, <2>6
    <3>3. \A c \in DOMAIN content \union {i} :
              RestOf(c)' = IF c = i THEN Zeroed ELSE content[c]
      BY <2>3, <3>2
    <3> HIDE DEF content
    <3> QED
      BY <1>1, <3>1, <3>3
  <2>8. RootInUse'
    BY <2>3, <1>0 DEF RootInUse
  <2>9. Pool!Alloc(i)
    BY <2>4, <2>5, <2>7 DEF Pool!Alloc, Pool!Used
  <2> QED
    BY <2>4, <2>8, <2>9 DEF Pool!PoolNext
<1>4. ASSUME NEW i \in Inums \ {Root}, Free(i)
      PROVE  RootInUse' /\ Pool!PoolNext
  <2>1. /\ InUse(i)
        /\ WriteBack(BlockOf(i), [disk[BlockOf(i)] EXCEPT ![SlotOf(i)] = FreeInode(i)])
    BY <1>4, LoadedIsDisk DEF Free, TInv
  <2>2. FreeInode(i) \in Inode /\ FreeInode(i).inum = i /\ FreeInode(i).in_use # 1
        /\ FreeInode(i).rest = Zeroed
    BY TableFacts DEF FreeInode
  <2>3. /\ InodesInUse' = InodesInUse \ {i}
        /\ \A j \in Inums : j # i => RestOf(j)' = RestOf(j)
    BY <2>1, <2>2, StoredPool
  <2>4. i \in DOMAIN content
    BY <2>1 DEF InodesInUse
  <2>5. free' = free \union {i}
    BY <2>3, <2>4, <1>0
  <2>6. content' = [c \in DOMAIN content \ {i} |-> content[c]]
    <3>1. InodesInUse' \ {Root} = DOMAIN content \ {i}
      BY <2>3
    <3>2. \A c \in DOMAIN content : content[c] = RestOf(c) /\ c \in Inums
      BY <1>0, <1>1
    <3>3. \A c \in DOMAIN content \ {i} : RestOf(c)' = content[c]
      BY <2>3, <3>2
    <3> HIDE DEF content
    <3> QED
      BY <1>1, <3>1, <3>3
  <2>7. RootInUse'
    BY <2>3, <1>0 DEF RootInUse
  <2>8. Pool!Release(i)
    BY <2>4, <2>5, <2>6 DEF Pool!Release, Pool!Used
  <2> QED
    BY <2>7, <2>8 DEF Pool!PoolNext
<1>5. ASSUME NEW i \in Inums, NEW c \in Contents, Write(i, c)
      PROVE  RootInUse' /\ [Pool!PoolNext]_(Pool!poolVars)
  <2> DEFINE x == [inum |-> i, in_use |-> 1, rest |-> c]
  <2>1. InUse(i) /\ WriteBack(BlockOf(i), [disk[BlockOf(i)] EXCEPT ![SlotOf(i)] = x])
    BY <1>5, LoadedIsDisk DEF Write, TInv
  <2>2. x \in Inode /\ x.inum = i /\ x.in_use = 1 /\ x.rest = c
    BY NewInode
  <2> HIDE DEF x
  <2>3. /\ InodesInUse' = InodesInUse
        /\ \A j \in Inums : RestOf(j)' = IF j = i THEN c ELSE RestOf(j)
    <3>1. i \in InodesInUse
      BY <2>1 DEF InodesInUse
    <3> QED
      BY <2>1, <2>2, <3>1, StoredPool
  <2>4. RootInUse' /\ free' = free
    BY <2>3, <1>0 DEF RootInUse
  <2>5. CASE i = Root
    <3>1. \A j \in InodesInUse \ {Root} : RestOf(j)' = RestOf(j)
      BY <2>3, <2>5, <1>0
    <3>2. content' = content
      BY <1>1, <2>3, <3>1
    <3> QED
      BY <2>4, <3>2 DEF Pool!poolVars
  <2>6. CASE i # Root
    <3>1. i \in DOMAIN content
      BY <2>1, <2>6 DEF InodesInUse
    <3>2. content' = [content EXCEPT ![i] = c]
      <4>1. \A j \in DOMAIN content : content[j] = RestOf(j) /\ j \in Inums
        BY <1>0, <1>1
      <4>2. \A j \in DOMAIN content : RestOf(j)' = IF j = i THEN c ELSE content[j]
        BY <2>3, <4>1
      <4>3. content' = [j \in DOMAIN content |-> RestOf(j)']
        BY <1>1, <2>3
      <4> HIDE DEF content
      <4> QED
        BY <4>2, <4>3, <3>1
    <3>3. Pool!Write(i, c)
      BY <2>4, <3>1, <3>2 DEF Pool!Write, Pool!Used
    <3> QED
      BY <2>4, <2>6, <3>3 DEF Pool!PoolNext
  <2> QED
    BY <2>5, <2>6
<1>6. ASSUME UNCHANGED disk
      PROVE  RootInUse' /\ UNCHANGED Pool!poolVars
  BY <1>6, <1>2, <1>0 DEF RootInUse, Pool!poolVars
<1>7. ASSUME AllocateFails \/ (\E i \in Inums : Read(i)) \/ SaveSuperblock \/ Remount
             \/ UNCHANGED tableVars
      PROVE  UNCHANGED disk
  BY <1>7 DEF AllocateFails, Read, SaveSuperblock, Remount, tableVars
<1> QED
  BY <1>3, <1>4, <1>5, <1>6, <1>7 DEF TableNext

(* The i-list implements the pool: an inode handed out was free and is     *)
(* zeroed, and its contents change only by its own write_inode.            *)
THEOREM TableIsPool == TableSpec => TablePoolSpec
<1>1. TableInit => Pool!PoolInit /\ RootInUse
  BY PoolStart, RootStart
<1>2. TInv /\ RootInUse /\ [TableNext]_tableVars
          => RootInUse' /\ [Pool!PoolNext]_(Pool!poolVars)
  BY PoolStep
<1> QED
  BY <1>1, <1>2, TableInvariance, PTL DEF TableSpec, TablePoolSpec, Pool!PoolBehaviour

-----------------------------------------------------------------------------
(* The number of free inodes.                                              *)
LEMMA UsedCounted ==
    /\ IsFiniteSet(InodesInUse) /\ Cardinality(InodesInUse) \in Nat
    /\ Cardinality(InodesInUse) <= IlistSize * InodesPerBlock
    /\ \A i \in Inums \ InodesInUse : Cardinality(InodesInUse) < IlistSize * InodesPerBlock
<1>1. IsFiniteSet(Inums) /\ Cardinality(Inums) = IlistSize * InodesPerBlock
  BY TableFacts, FS_Interval DEF Inums
<1>2. InodesInUse \subseteq Inums
  BY DEF InodesInUse
<1>3. /\ IsFiniteSet(InodesInUse) /\ Cardinality(InodesInUse) <= Cardinality(Inums)
      /\ Cardinality(InodesInUse) = Cardinality(Inums) => InodesInUse = Inums
  BY <1>1, <1>2, FS_Subset
<1>4. Cardinality(InodesInUse) \in Nat
  BY <1>3, FS_CardinalityType
<1> QED
  BY <1>1, <1>3, <1>4, TableFacts

(* The count does not wrap round between 0 and the number of inodes.       *)
LEMMA CountNoWrap ==
    ASSUME NEW n \in Nat, n < IlistSize * InodesPerBlock
    PROVE  Plus1(n) = n + 1 /\ Minus1(n + 1) = n
<1>1. /\ SizeModulus \in Nat /\ SizeModulus > 0 /\ IlistSize * InodesPerBlock \in Nat
      /\ n + 1 \in 0 .. SizeModulus - 1 /\ n \in 0 .. SizeModulus - 1
  BY IlistBoundAssumption, TableFacts
<1>2. \A a \in 0 .. SizeModulus - 1 : a % SizeModulus = a
  BY <1>1
<1>3. \A a \in 0 .. SizeModulus - 1 : (a + SizeModulus) % SizeModulus = a
  BY <1>1
<1>4. (n + 1) + SizeModulus - 1 = n + SizeModulus
  BY <1>1
<1> QED
  BY <1>1, <1>2, <1>3, <1>4 DEF Plus1, Minus1

LEMMA CountStep ==
    ASSUME TInv, FreeCountExact, [TableNext]_tableVars
    PROVE  FreeCountExact'
<1> DEFINE total == IlistSize * InodesPerBlock
           used == Cardinality(InodesInUse)
<1>0. /\ IsFiniteSet(InodesInUse) /\ used \in Nat /\ used <= total /\ total \in Nat
      /\ free_inodes \in Nat /\ remounts \in Nat /\ Zeroed \in Contents
  BY UsedCounted, TableFacts, IlistAssumption, IlistBoundAssumption DEF TInv, TableTypeOK
<1>1. SUFFICES ASSUME remounts' = 0
               PROVE  free_inodes' + Cardinality(InodesInUse') = total
  BY DEF FreeCountExact
<1>2. CASE AllocateCached \/ AllocateScan
  <2>1. PICK i \in Inums :
            /\ ~InUse(i)
            /\ WriteBack(BlockOf(i), [disk[BlockOf(i)] EXCEPT ![SlotOf(i)] =
                             [inum |-> i, in_use |-> 1, rest |-> Zeroed]])
            /\ free_inodes' = Minus1(free_inodes) /\ remounts' = remounts
    BY <1>2, AllocateTakes, TakeFromFacts
  <2> DEFINE x == [inum |-> i, in_use |-> 1, rest |-> Zeroed]
  <2>2. x \in Inode /\ x.inum = i /\ x.in_use = 1
    BY <1>0, NewInode
  <2> HIDE DEF x
  <2>3. WriteBack(BlockOf(i), [disk[BlockOf(i)] EXCEPT ![SlotOf(i)] = x])
    BY <2>1 DEF x
  <2>4. InodesInUse' = InodesInUse \union {i} /\ i \in Inums \ InodesInUse
    BY <2>1, <2>2, <2>3, StoredPool DEF InodesInUse
  <2>5. Cardinality(InodesInUse') = used + 1 /\ used < total
    BY <1>0, <2>4, FS_AddElement, UsedCounted
  <2>6. free_inodes + used = total
    BY <1>1, <2>1 DEF FreeCountExact
  <2> DEFINE left == total - used - 1
  <2>7. left \in Nat /\ left < total /\ free_inodes = left + 1
    BY <1>0, <2>5, <2>6
  <2>8. free_inodes' = left
    BY <2>1, <2>7, CountNoWrap
  <2> QED
    BY <1>0, <2>5, <2>8
<1>3. ASSUME NEW i \in Inums \ {Root}, Free(i)
      PROVE  free_inodes' + Cardinality(InodesInUse') = total
  <2>1. /\ InUse(i) /\ free_inodes' = Plus1(free_inodes) /\ remounts' = remounts
        /\ WriteBack(BlockOf(i), [disk[BlockOf(i)] EXCEPT ![SlotOf(i)] = FreeInode(i)])
    BY <1>3, LoadedIsDisk DEF Free, TInv
  <2>2. FreeInode(i) \in Inode /\ FreeInode(i).inum = i /\ FreeInode(i).in_use # 1
        /\ FreeInode(i).rest = Zeroed
    BY TableFacts DEF FreeInode
  <2>3. InodesInUse' = InodesInUse \ {i} /\ i \in InodesInUse
    BY <2>1, <2>2, StoredPool DEF InodesInUse
  <2>4. /\ IsFiniteSet(InodesInUse') /\ Cardinality(InodesInUse') \in Nat
        /\ i \notin InodesInUse' /\ InodesInUse = InodesInUse' \union {i}
    BY <1>0, <2>3, FS_Subset, FS_CardinalityType
  <2>5. used = Cardinality(InodesInUse') + 1
    BY <2>4, FS_AddElement
  <2>6. free_inodes + used = total
    BY <1>1, <2>1 DEF FreeCountExact
  <2>7. free_inodes' = free_inodes + 1
    BY <1>0, <2>1, <2>4, <2>5, <2>6, CountNoWrap
  <2> QED
    BY <1>0, <2>4, <2>5, <2>6, <2>7
<1>4. ASSUME NEW i \in Inums, NEW c \in Contents, Write(i, c)
      PROVE  free_inodes' + Cardinality(InodesInUse') = total
  <2> DEFINE x == [inum |-> i, in_use |-> 1, rest |-> c]
  <2>1. /\ InUse(i) /\ WriteBack(BlockOf(i), [disk[BlockOf(i)] EXCEPT ![SlotOf(i)] = x])
        /\ UNCHANGED <<free_inodes, remounts>>
    BY <1>4, LoadedIsDisk DEF Write, TInv
  <2>2. x \in Inode /\ x.inum = i /\ x.in_use = 1
    BY NewInode
  <2> HIDE DEF x
  <2>3. InodesInUse' = InodesInUse
    BY <2>1, <2>2, StoredPool DEF InodesInUse
  <2> QED
    BY <1>1, <2>1, <2>3 DEF FreeCountExact
<1>5. CASE Remount
  BY <1>0, <1>1, <1>5 DEF Remount
<1>6. CASE AllocateFails \/ (\E i \in Inums : Read(i)) \/ SaveSuperblock \/ UNCHANGED tableVars
  <2>1. UNCHANGED <<disk, free_inodes, remounts>>
    BY <1>6 DEF AllocateFails, Read, SaveSuperblock, tableVars
  <2>2. InodesInUse' = InodesInUse
    BY <2>1 DEF InodesInUse, InUse
  <2> QED
    BY <1>1, <2>1, <2>2 DEF FreeCountExact
<1> QED
  BY <1>2, <1>3, <1>4, <1>5, <1>6 DEF TableNext

(* free_inodes, which statfs reports, is the number of free inodes as long *)
(* as the process that found the new file system runs.                     *)
THEOREM FreeInodesExact == TableSpec => []FreeCountExact
<1>1. TableInit => FreeCountExact
  <2> SUFFICES ASSUME TableInit PROVE FreeCountExact
    OBVIOUS
  <2>1. Cardinality(InodesInUse) = 1
    BY UsedAtStart, FS_Singleton
  <2>2. free_inodes = IlistSize * InodesPerBlock - 1
    BY DEF TableInit
  <2> QED
    BY <2>1, <2>2, TableFacts DEF FreeCountExact
<1>2. TInv /\ FreeCountExact /\ [TableNext]_tableVars => FreeCountExact'
  BY CountStep
<1> QED
  BY <1>1, <1>2, TableInvariance, PTL DEF TableSpec
=============================================================================
