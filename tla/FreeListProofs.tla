--------------------------- MODULE FreeListProofs ---------------------------
(***************************************************************************)
(* Theorems about FreeList, for every device, list block size, payload and *)
(* bound that satisfies SafeUse; and without SafeUse what FreeList_fsck    *)
(* makes of a device.                                                      *)
(*                                                                         *)
(* The argument: `chain' is the list from head to tail at every step, also *)
(* between the writes of one operation (LinkInv, HeadInv, TailInv).  Every *)
(* list block except the head is full or empty, and the head is filled     *)
(* from some slot upwards, which next_freeslot knows (FillInv, SlotInv).   *)
(* Blocks are counted: what is not held, free or in flight was lost in a   *)
(* crash (CountInv), so that under SafeUse the list cannot run empty, and  *)
(* neither the append to an empty list nor a stale tail can happen.        *)
(*   The checker's copy has each number as often as the list blocks that   *)
(* were read name it or are it (CopyIs), so that a copy without repetition *)
(* is a list without one, and the other way round (OnceEach).              *)
(***************************************************************************)
EXTENDS FreeListFsck, FiniteSetTheorems, WellFoundedInduction, TLAPS

LastOfChain == chain[Len(chain)]
Moving == {"pop_slot", "pop_head", "seek_tail", "link_tail", "zero_tail"}

(* Exactly the slots above k are in use.                                   *)
FilledAbove(block, k) == \A s \in Slots : (block.data[s] # 0) <=> (s > k)

(* The blocks that must hold zeros if a crash is to leave a sound list.    *)
CallersBlocks ==
    held \union (IF pc \in {"seek_tail", "link_tail", "zero_tail"} THEN {cand} ELSE {})

Accounted == held \union FreeSet \union InFlight

TypeInv == TypeOK /\ list_head \in Block

ChainInv ==
    /\ chain # <<>>
    /\ \A i, j \in 1 .. Len(chain) : chain[i] = chain[j] => i = j
    /\ pc = "zero_tail" => Len(chain) > 1 /\ cand = LastOfChain
    /\ pc \in Moving => cand \in DataBlocks

LinkInv ==
    \A i \in 1 .. Len(chain) :
        chain[i] \notin Unzeroed => disk[chain[i]].next = NextInChain(i)

FillInv ==
    /\ \E k \in Slots \union {NoSlot} : FilledAbove(disk[chain[1]], k)
    /\ \A i \in 2 .. Len(chain) :
           chain[i] \notin Unzeroed =>
               FilledAbove(disk[chain[i]], NoSlot) \/ FilledAbove(disk[chain[i]], E - 1)

HeadInv ==
    /\ sb.flist_head = chain[1]
    /\ pc # "down" =>
           /\ list_head_blkidx = chain[1]
           /\ sblock_incore.flist_head = chain[1]
           /\ list_head.data = disk[chain[1]].data
           /\ list_head.next = IF pc \in {"seek_tail", "link_tail"} /\ Len(chain) = 1
                               THEN cand ELSE disk[chain[1]].next

SlotInv ==
    /\ pc \notin {"down", "pop_slot"} =>
           \/ FilledAbove(list_head, next_freeslot)
           \/ next_freeslot = NoSlot /\ FilledAbove(list_head, E - 1)
    /\ pc = "pop_slot" => /\ next_freeslot \in Slots
                          /\ list_head.data[next_freeslot] = cand
                          /\ FilledAbove(list_head, next_freeslot - 1)

TailInv ==
    /\ pc \in {"idle", "pop_slot", "pop_head"} => tail_idx \in {0, LastOfChain}
    /\ pc = "seek_tail" =>
           tail_idx = 0 \/ \E i \in 1 .. Len(chain) - 1 : tail_idx = chain[i]
    /\ pc \in {"link_tail", "zero_tail"} => tail_idx = LastOfChain
    /\ pc = "down" => tail_idx = 0

UseInv == NoDoubleUse /\ InFlight \intersect (FreeSet \union held) = {}

CountInv ==
    /\ Cardinality(held) <= HeldLimit
    /\ pc \in {"pop_slot", "pop_head"} => Cardinality(held) < HeldLimit
    /\ LeakBound

ZeroInv ==
    /\ MaxCrashes # 0 => \A b \in CallersBlocks : disk[b] = ZeroBlock
    /\ pc = "pop_slot" => disk[cand] = ZeroBlock

IInv == /\ TypeInv /\ ChainInv /\ LinkInv /\ FillInv /\ HeadInv /\ SlotInv
        /\ TailInv /\ UseInv /\ CountInv /\ ZeroInv

-----------------------------------------------------------------------------
(* Facts about the constants.                                              *)
LEMMA ConstantFacts ==
    /\ E \in Nat /\ E >= 2 /\ First \in Nat /\ First > 0 /\ NumBlocks \in Nat
    /\ DataBlocks \subseteq Nat /\ 0 \notin DataBlocks
    /\ DataBlocks \subseteq Words /\ 0 \in Words
    /\ NoSlot \notin Slots /\ 0 \in Slots /\ E - 1 \in Slots
    /\ ZeroBlock \in Block
    /\ ZeroBlock.next = 0 /\ \A s \in Slots : ZeroBlock.data[s] = 0
    /\ IsFiniteSet(DataBlocks)
<1>1. E \in Nat /\ E >= 2 /\ First \in Nat /\ First > 0 /\ NumBlocks \in Nat
  BY DeviceAssumption DEF E, First
<1>2. IsFiniteSet(DataBlocks)
  BY <1>1, FS_Interval DEF DataBlocks
<1>3. ZeroBlock \in Block
  BY DEF ZeroBlock, Block, Words
<1> QED
  BY <1>1, <1>2, <1>3 DEF DataBlocks, Words, NoSlot, Slots, ZeroBlock

(* The counters of the superblock wrap round and stay in their width.       *)
LEMMA CounterType ==
    ASSUME NEW n \in 0 .. SizeModulus - 1
    PROVE  Plus1(n) \in 0 .. SizeModulus - 1 /\ Minus1(n) \in 0 .. SizeModulus - 1
<1>1. \A a \in Nat : a % SizeModulus \in 0 .. SizeModulus - 1
  BY BoundAssumption, DeviceAssumption
<1>2. n + 1 \in Nat /\ n + SizeModulus - 1 \in Nat
  BY BoundAssumption, DeviceAssumption
<1> QED
  BY <1>1, <1>2 DEF Plus1, Minus1

(* How adding an element, or a second set, changes a cardinality.          *)
LEMMA CardAdd ==
    ASSUME NEW S, NEW x, IsFiniteSet(S)
    PROVE  /\ IsFiniteSet(S \union {x})
           /\ Cardinality(S) \in Nat /\ Cardinality(S \union {x}) \in Nat
           /\ Cardinality(S \union {x}) <= Cardinality(S) + 1
<1>1. IsFiniteSet(S \union {x})
  BY FS_AddElement
<1>2. Cardinality(S) \in Nat /\ Cardinality(S \union {x}) \in Nat
  BY <1>1, FS_CardinalityType
<1>3. Cardinality(S \union {x}) = IF x \in S THEN Cardinality(S) ELSE Cardinality(S) + 1
  BY FS_AddElement
<1> QED
  BY <1>1, <1>2, <1>3

(* The cardinality of a union.                                             *)
LEMMA CardUnion ==
    ASSUME NEW S, NEW T, IsFiniteSet(S), IsFiniteSet(T)
    PROVE  /\ IsFiniteSet(S \union T)
           /\ Cardinality(S) \in Nat /\ Cardinality(T) \in Nat
           /\ Cardinality(S \union T) \in Nat
           /\ Cardinality(S \union T) <= Cardinality(S) + Cardinality(T)
<1>1. IsFiniteSet(S \union T) /\ IsFiniteSet(S \intersect T)
  BY FS_Union, FS_Subset
<1>2. /\ Cardinality(S) \in Nat /\ Cardinality(T) \in Nat
      /\ Cardinality(S \union T) \in Nat /\ Cardinality(S \intersect T) \in Nat
  BY <1>1, FS_CardinalityType
<1>3. Cardinality(S \union T) = Cardinality(S) + Cardinality(T) - Cardinality(S \intersect T)
  BY FS_Union
<1> QED
  BY <1>1, <1>2, <1>3

(* What the type invariant says of blocks and of the list.                 *)
LEMMA TypeFacts ==
    ASSUME TypeInv, ChainInv
    PROVE  /\ Len(chain) \in Nat /\ Len(chain) >= 1
           /\ \A i \in 1 .. Len(chain) : chain[i] \in DataBlocks
           /\ ListBlocks = {chain[i] : i \in 1 .. Len(chain)}
           /\ ListBlocks \subseteq DataBlocks
           /\ LastOfChain \in DataBlocks /\ chain[1] \in DataBlocks
           /\ chain[1] \in ListBlocks /\ LastOfChain \in ListBlocks
           /\ \A b \in DataBlocks : /\ disk[b] \in Block
                                    /\ disk[b].next \in Words
                                    /\ disk[b].data \in [Slots -> Words]
                                    /\ disk[b] = [next |-> disk[b].next,
                                                  data |-> disk[b].data]
           /\ list_head.next \in Words /\ list_head.data \in [Slots -> Words]
<1> USE DEF TypeInv, TypeOK
<1>1. chain \in Seq(DataBlocks) /\ chain # <<>>
  BY DEF ChainInv
<1>2. Len(chain) \in Nat /\ Len(chain) >= 1 /\ DOMAIN chain = 1 .. Len(chain)
  BY <1>1
<1>3. \A i \in 1 .. Len(chain) : chain[i] \in DataBlocks
  BY <1>1, <1>2
<1>4. ListBlocks = {chain[i] : i \in 1 .. Len(chain)}
  BY <1>2 DEF ListBlocks, Range
<1>5. \A b \in DataBlocks : /\ disk[b] \in Block
                            /\ disk[b].next \in Words
                            /\ disk[b].data \in [Slots -> Words]
                            /\ disk[b] = [next |-> disk[b].next, data |-> disk[b].data]
  BY DEF Block
<1>6. list_head.next \in Words /\ list_head.data \in [Slots -> Words]
  BY DEF Block
<1> QED
  BY <1>2, <1>3, <1>4, <1>5, <1>6 DEF LastOfChain

(* Which blocks are free.                                                  *)
LEMMA FreeChar ==
    ASSUME NEW b
    PROVE  b \in FreeSet <=>
               \/ b \in ListBlocks
               \/ \E c \in Readable, s \in Slots :
                      disk[c].data[s] # 0 /\ disk[c].data[s] = b
  BY DEF FreeSet

(* A caller may take a block more while it holds less than the limit.      *)
LEMMA HeldGrows ==
    ASSUME TypeInv, Cardinality(held) < HeldLimit, NEW b
    PROVE  Cardinality(held \union {b}) <= HeldLimit
<1>1. IsFiniteSet(held)
  BY ConstantFacts, FS_Subset DEF TypeInv, TypeOK
<1>2. /\ Cardinality(held) \in Nat /\ Cardinality(held \union {b}) \in Nat
      /\ Cardinality(held \union {b}) <= Cardinality(held) + 1
  BY <1>1, CardAdd
<1> QED
  BY <1>2, BoundAssumption

(* A caller that gives a block back stays within the limit.                *)
LEMMA HeldShrinks ==
    ASSUME TypeInv, Cardinality(held) <= HeldLimit, NEW b
    PROVE  Cardinality(held \ {b}) <= HeldLimit
<1>1. IsFiniteSet(held)
  BY ConstantFacts, FS_Subset DEF TypeInv, TypeOK
<1>2. IsFiniteSet(held \ {b}) /\ Cardinality(held \ {b}) <= Cardinality(held)
  BY <1>1, FS_Subset
<1>3. Cardinality(held) \in Nat /\ Cardinality(held \ {b}) \in Nat
  BY <1>1, <1>2, FS_CardinalityType
<1> QED
  BY <1>2, <1>3, BoundAssumption

(* A step that leaves the list blocks alone leaves the list alone.         *)
LEMMA OffList ==
    ASSUME TypeInv, ChainInv, LinkInv, FillInv, NoDoubleUse,
           UNCHANGED chain, UNCHANGED Unzeroed,
           \A b \in ListBlocks : disk'[b] = disk[b]
    PROVE  /\ ListBlocks' = ListBlocks /\ Readable' = Readable
           /\ FreeSet' = FreeSet
           /\ LinkInv' /\ FillInv'
           /\ \A b, c \in Readable', s, t \in Slots :
                  disk'[b].data[s] # 0 /\ disk'[b].data[s] = disk'[c].data[t]
                      => b = c /\ s = t
           /\ \A b \in Readable', s \in Slots :
                  disk'[b].data[s] # 0 => disk'[b].data[s] \in DataBlocks \ ListBlocks'
<1>1. ListBlocks' = ListBlocks
  BY DEF ListBlocks
<1>2. Readable' = Readable /\ Readable \subseteq ListBlocks
  BY <1>1 DEF Readable
<1>3. FreeSet' = FreeSet
  BY <1>1, <1>2 DEF FreeSet
<1>4. \A i \in 1 .. Len(chain) : chain[i] \in ListBlocks /\ chain[1] \in ListBlocks
  BY TypeFacts
<1>5. LinkInv'
  BY <1>4 DEF LinkInv, NextInChain
<1>6. FillInv'
  <2>1. \A k : FilledAbove(disk[chain[1]], k) <=> FilledAbove(disk'[chain'[1]], k)
    BY <1>4, TypeFacts DEF FilledAbove
  <2>2. \A i \in 2 .. Len(chain) : disk'[chain'[i]] = disk[chain[i]]
    BY <1>4, TypeFacts
  <2> QED
    BY <2>1, <2>2 DEF FillInv, FilledAbove
<1> QED
  BY <1>1, <1>2, <1>3, <1>5, <1>6 DEF NoDoubleUse

(* How many blocks are lost when a step loses none, or one.                *)
LEMMA LossBound ==
    ASSUME LeakBound, Accounted \subseteq Accounted', crashes \in Nat, crashes' \in Nat,
           crashes <= crashes'
    PROVE  LeakBound'
<1>1. DataBlocks \ Accounted' \subseteq DataBlocks \ Accounted
  OBVIOUS
<1>2. IsFiniteSet(DataBlocks \ Accounted)
  BY ConstantFacts, FS_Subset
<1>3. Cardinality(DataBlocks \ Accounted') <= Cardinality(DataBlocks \ Accounted)
  BY <1>1, <1>2, FS_Subset
<1>4. Cardinality(DataBlocks \ Accounted') \in Nat /\ Cardinality(DataBlocks \ Accounted) \in Nat
  BY <1>1, <1>2, FS_Subset, FS_CardinalityType
<1>5. Cardinality(DataBlocks \ Accounted) <= crashes
  BY DEF LeakBound, Accounted
<1> QED
  BY <1>3, <1>4, <1>5 DEF LeakBound, Accounted

(* A crash loses the block in flight and no other.                         *)
LEMMA LossOfOne ==
    ASSUME LeakBound, NEW b, Accounted \subseteq Accounted' \union {b},
           crashes \in Nat, crashes' = crashes + 1
    PROVE  LeakBound'
<1> DEFINE Lost == DataBlocks \ Accounted
           NowLost == DataBlocks \ Accounted'
<1>1. NowLost \subseteq Lost \union {b}
  OBVIOUS
<1>2. IsFiniteSet(Lost) /\ IsFiniteSet(NowLost)
  BY ConstantFacts, FS_Subset
<1>3. /\ IsFiniteSet(Lost \union {b}) /\ Cardinality(Lost \union {b}) <= Cardinality(Lost) + 1
      /\ Cardinality(Lost) \in Nat /\ Cardinality(Lost \union {b}) \in Nat
  BY <1>2, CardAdd
<1>4. Cardinality(NowLost) <= Cardinality(Lost \union {b}) /\ Cardinality(NowLost) \in Nat
  BY <1>1, <1>2, <1>3, FS_Subset, FS_CardinalityType
<1>5. Cardinality(Lost) <= crashes
  BY DEF LeakBound, Accounted
<1>6. Cardinality(NowLost) <= crashes'
  BY <1>3, <1>4, <1>5
<1> QED
  BY <1>6 DEF LeakBound, Accounted

(* The blocks that are accounted for stay so: nothing is lost.             *)
LEMMA NothingLost ==
    ASSUME LeakBound, Accounted \subseteq Accounted', UNCHANGED crashes, crashes \in Nat
    PROVE  LeakBound'
  BY LossBound

(* FreeList_init's scan finds where the slots in use begin.                *)
LEMMA ScanFinds ==
    ASSUME NEW block, NEW k \in Slots \union {NoSlot}, FilledAbove(block, k)
    PROVE  ScanSlot(block) = k
<1> DEFINE Found(s) == /\ s \in Slots => block.data[s] = 0
                       /\ \A t \in Slots : t > s => block.data[t] # 0
<1>1. \A s \in Slots \union {NoSlot} : s \in Int /\ (s \in Slots <=> s >= 0)
  BY ConstantFacts DEF Slots, NoSlot
<1>2. Found(k)
  BY <1>1 DEF FilledAbove
<1>3. ASSUME NEW s \in Slots \union {NoSlot}, Found(s) PROVE s = k
  <2>1. ~(k > s)
    BY <1>1, <1>3, <1>2
  <2>2. ~(s > k)
    BY <1>1, <1>3 DEF FilledAbove, NoSlot
  <2> QED
    BY <1>1, <2>1, <2>2
<1>4. ScanSlot(block) = CHOOSE s \in Slots \union {NoSlot} : Found(s)
  BY DEF ScanSlot
<1> HIDE DEF Found
<1> QED
  BY <1>2, <1>3, <1>4

-----------------------------------------------------------------------------
(* FreeList_pop, one lemma for each of its writes.                         *)
LEMMA PopSlotStep ==
    ASSUME IInv, PopSlot
    PROVE  IInv' /\ FreeSet' = FreeSet
<1> USE DEF Idle
<1>0. /\ TypeInv /\ ChainInv /\ LinkInv /\ FillInv /\ HeadInv /\ SlotInv
      /\ TailInv /\ UseInv /\ CountInv /\ ZeroInv /\ pc = "idle"
  BY DEF IInv, PopSlot
<1>1. PICK s \in Occupied :
          /\ \A t \in Occupied : s <= t
          /\ next_freeslot' = s
          /\ IF list_head.data[s] \in DataBlocks
             THEN /\ disk' = WriteBlock(disk, list_head.data[s], ZeroBlock)
                  /\ cand' = list_head.data[s]
                  /\ pc' = "pop_slot"
             ELSE UNCHANGED <<disk, cand, pc>>
  BY DEF PopSlot
<1>2. /\ UNCHANGED <<sb, sblock_incore, list_head_blkidx, list_head, tail_idx, ghosts>>
      /\ Cardinality(held) < HeldLimit
  BY DEF PopSlot
<1>3. s \in Slots /\ s > next_freeslot /\ list_head.data[s] # 0
  BY DEF Occupied
<1>4. chain[1] \in Readable /\ list_head.data = disk[chain[1]].data
  BY <1>0, TypeFacts DEF HeadInv, Readable, Unzeroed
<1>5. list_head.data[s] \in DataBlocks \ ListBlocks
  BY <1>0, <1>3, <1>4 DEF UseInv, NoDoubleUse
<1>6. /\ disk' = [disk EXCEPT ![cand'] = ZeroBlock]
      /\ cand' = list_head.data[s] /\ cand' \in DataBlocks \ ListBlocks
      /\ pc' = "pop_slot"
  BY <1>1, <1>5 DEF WriteBlock
<1>7. UNCHANGED <<held, chain, crashes, unmounts>>
  BY <1>2 DEF ghosts
<1>8. TypeInv'
  BY <1>0, <1>1, <1>2, <1>3, <1>6, <1>7, ConstantFacts DEF TypeInv, TypeOK
<1>9. ChainInv'
  BY <1>0, <1>6, <1>7 DEF ChainInv, LastOfChain
<1>10. UNCHANGED Unzeroed
  BY <1>0, <1>6 DEF Unzeroed
<1>11. \A b \in ListBlocks : disk'[b] = disk[b]
  BY <1>0, <1>6, TypeFacts DEF TypeInv, TypeOK
<1>12. /\ FreeSet' = FreeSet /\ LinkInv' /\ FillInv'
       /\ ListBlocks' = ListBlocks /\ Readable' = Readable
       /\ \A b, c \in Readable', q, t \in Slots :
              disk'[b].data[q] # 0 /\ disk'[b].data[q] = disk'[c].data[t]
                  => b = c /\ q = t
       /\ \A b \in Readable', q \in Slots :
              disk'[b].data[q] # 0 => disk'[b].data[q] \in DataBlocks \ ListBlocks'
  BY <1>0, <1>7, <1>10, <1>11, OffList DEF UseInv
<1>13. HeadInv'
  BY <1>0, <1>2, <1>6, <1>7, <1>11, TypeFacts DEF HeadInv
<1>14. SlotInv'
  <2>1. FilledAbove(list_head, next_freeslot)
    BY <1>0, <1>3, ConstantFacts DEF SlotInv, FilledAbove, Slots, NoSlot
  <2>2. \A t \in Slots : list_head.data[t] # 0 <=> t > s - 1
    BY <2>1, <1>1, <1>3, <1>8, <1>0, ConstantFacts
       DEF FilledAbove, Occupied, Slots, NoSlot, TypeInv, TypeOK
  <2> QED
    BY <2>2, <1>1, <1>2, <1>3, <1>6 DEF SlotInv, FilledAbove
<1>15. TailInv'
  BY <1>0, <1>2, <1>6, <1>7 DEF TailInv, LastOfChain
<1>16. InFlight = {} /\ InFlight' = {}
  BY <1>0, <1>6 DEF InFlight
<1>17. UseInv'
  BY <1>0, <1>7, <1>12, <1>16 DEF UseInv, NoDoubleUse
<1>18. CountInv'
  BY <1>0, <1>2, <1>6, <1>7, <1>12, <1>16, NothingLost
     DEF CountInv, Accounted, TypeInv, TypeOK
<1>19. ZeroInv'
  BY <1>0, <1>6, <1>7, ConstantFacts DEF ZeroInv, CallersBlocks, TypeInv, TypeOK
<1> QED
  BY <1>8, <1>9, <1>12, <1>13, <1>14, <1>15, <1>17, <1>18, <1>19 DEF IInv

(* The second write of a pop from a slot clears the slot.                  *)
LEMMA ClearSlotStep ==
    ASSUME IInv, ClearSlot
    PROVE  IInv' /\ FreeSet' = FreeSet \ {cand} /\ cand \in FreeSet
<1>0. /\ TypeInv /\ ChainInv /\ LinkInv /\ FillInv /\ HeadInv /\ SlotInv
      /\ TailInv /\ UseInv /\ CountInv /\ ZeroInv /\ pc = "pop_slot"
  BY DEF IInv, ClearSlot
<1> DEFINE n == next_freeslot
           h == chain[1]
<1>1. /\ n \in Slots /\ list_head.data[n] = cand /\ FilledAbove(list_head, n - 1)
      /\ list_head_blkidx = h /\ h \in DataBlocks /\ h \in ListBlocks /\ cand \in DataBlocks
      /\ list_head = disk[h]
  BY <1>0, TypeFacts DEF SlotInv, HeadInv, ChainInv, Moving, TypeInv, Block
<1>2. /\ list_head' = [list_head EXCEPT !.data[n] = 0]
      /\ disk' = [disk EXCEPT ![h] = list_head']
      /\ pc' = "idle" /\ held' = held \union {cand} /\ cand' = 0
      /\ sblock_incore' = [sblock_incore EXCEPT !.free_blocks = Minus1(@)]
      /\ UNCHANGED <<sb, list_head_blkidx, next_freeslot, tail_idx, chain, crashes, unmounts>>
  BY <1>1 DEF ClearSlot, WriteBlock
<1>3. \A c \in DataBlocks :
          /\ disk'[c].next = disk[c].next
          /\ disk'[c].data \in [Slots -> Words]
          /\ \A s \in Slots : disk'[c].data[s] = IF c = h /\ s = n THEN 0 ELSE disk[c].data[s]
  BY <1>0, <1>1, <1>2, TypeFacts, ConstantFacts DEF TypeInv, TypeOK, Block
<1>4. /\ Readable = ListBlocks /\ ListBlocks' = ListBlocks /\ Readable' = ListBlocks
      /\ InFlight = {} /\ InFlight' = {} /\ Unzeroed = {} /\ Unzeroed' = {}
      /\ ListBlocks \subseteq DataBlocks
  BY <1>0, <1>2, TypeFacts DEF Readable, Unzeroed, InFlight, ListBlocks
<1>5. /\ \A b, c \in ListBlocks, s, t \in Slots :
             disk[b].data[s] # 0 /\ disk[b].data[s] = disk[c].data[t] => b = c /\ s = t
      /\ \A b \in ListBlocks, s \in Slots :
             disk[b].data[s] # 0 => disk[b].data[s] \in DataBlocks \ ListBlocks
      /\ FreeSet \intersect held = {}
  BY <1>0, <1>4 DEF UseInv, NoDoubleUse
<1>6. disk[h].data[n] = cand /\ cand # 0
  BY <1>1, ConstantFacts
<1>7. FreeSet' = FreeSet \ {cand} /\ cand \in FreeSet
  <2>1. ASSUME NEW b \in FreeSet' PROVE b \in FreeSet /\ b # cand
    BY <1>1, <1>3, <1>4, <1>5, <1>6 DEF FreeSet
  <2>2. ASSUME NEW b \in FreeSet, b # cand PROVE b \in FreeSet'
    <3>1. CASE b \in ListBlocks
      BY <3>1, <1>4 DEF FreeSet
    <3>2. CASE b \notin ListBlocks
      <4>1. PICK c \in ListBlocks, s \in Slots : disk[c].data[s] # 0 /\ disk[c].data[s] = b
        BY <3>2, <1>4, FreeChar
      <4>2. ~(c = h /\ s = n)
        BY <4>1, <1>6, <2>2
      <4>3. disk'[c].data[s] = b
        BY <4>1, <4>2, <1>3, <1>4
      <4> QED
        BY <4>1, <4>3, <1>4 DEF FreeSet
    <3> QED
      BY <3>1, <3>2
  <2>3. cand \in FreeSet
    BY <1>1, <1>4, <1>6 DEF FreeSet
  <2> QED
    BY <2>1, <2>2, <2>3
<1>8. TypeInv'
  <2>1. list_head' \in Block
    BY <1>0, <1>1, <1>2, TypeFacts, ConstantFacts DEF Block
  <2>2. sblock_incore' \in [flist_head : Words, free_blocks : 0 .. SizeModulus - 1]
    BY <1>0, <1>2, CounterType DEF TypeInv, TypeOK
  <2> QED
    BY <1>0, <1>1, <1>2, <2>1, <2>2, ConstantFacts DEF TypeInv, TypeOK
<1>9. ChainInv'
  BY <1>0, <1>2 DEF ChainInv, Moving
<1>10. LinkInv'
  BY <1>0, <1>2, <1>3, <1>4, TypeFacts DEF LinkInv, NextInChain
<1>11. FilledAbove(list_head', n) /\ FilledAbove(disk'[h], n)
  <2>1. \A s \in Slots : (disk[h].data[s] # 0) <=> (s > n - 1)
    BY <1>1 DEF FilledAbove
  <2>2. \A s \in Slots : s \in Int /\ n \in Int
    BY <1>1, ConstantFacts DEF Slots
  <2>3. \A s \in Slots : (disk'[h].data[s] # 0) <=> (s > n)
    BY <2>1, <2>2, <1>1, <1>3
  <2>4. FilledAbove(disk'[h], n)
    BY <2>3 DEF FilledAbove
  <2> QED
    BY <2>4, <1>0, <1>1, <1>2 DEF TypeInv, TypeOK
<1>12. FillInv'
  <2>1. \A i \in 2 .. Len(chain) : chain[i] # h
    BY <1>0, TypeFacts DEF ChainInv
  <2>2. \A i \in 2 .. Len(chain) : disk'[chain[i]] = disk[chain[i]]
    BY <2>1, <1>0, <1>2, TypeFacts DEF TypeInv, TypeOK
  <2>3. \E k \in Slots \union {NoSlot} : FilledAbove(disk'[chain'[1]], k)
    BY <1>1, <1>2, <1>11
  <2>4. \A i \in 2 .. Len(chain) :
            FilledAbove(disk'[chain'[i]], NoSlot) \/ FilledAbove(disk'[chain'[i]], E - 1)
    <3>1. \A i \in 2 .. Len(chain) :
              FilledAbove(disk[chain[i]], NoSlot) \/ FilledAbove(disk[chain[i]], E - 1)
      BY <1>0, <1>4 DEF FillInv
    <3>2. chain' = chain
      BY <1>2
    <3> QED
      BY <2>2, <3>1, <3>2 DEF FilledAbove
  <2> QED
    BY <2>3, <2>4, <1>2 DEF FillInv
<1>13. HeadInv'
  BY <1>0, <1>1, <1>2, TypeFacts DEF HeadInv, TypeInv, TypeOK
<1>14. SlotInv'
  BY <1>2, <1>11 DEF SlotInv
<1>15. TailInv'
  BY <1>0, <1>2 DEF TailInv, LastOfChain
<1>16. UseInv'
  <2>1. /\ \A b, c \in ListBlocks, s, t \in Slots :
             disk'[b].data[s] # 0 /\ disk'[b].data[s] = disk'[c].data[t] => b = c /\ s = t
        /\ \A b \in ListBlocks, s \in Slots :
             disk'[b].data[s] # 0 => disk'[b].data[s] \in DataBlocks \ ListBlocks
    BY <1>3, <1>4, <1>5
  <2> QED
    BY <2>1, <1>2, <1>4, <1>5, <1>7 DEF UseInv, NoDoubleUse
<1>17. CountInv'
  <2>1. Cardinality(held') <= HeldLimit
    <3>1. Cardinality(held) < HeldLimit
      BY <1>0 DEF CountInv
    <3> QED
      BY <3>1, <1>0, <1>2, HeldGrows
  <2>2. Accounted \subseteq Accounted'
    BY <1>2, <1>4, <1>7 DEF Accounted
  <2> QED
    BY <2>1, <2>2, <1>0, <1>2, NothingLost DEF CountInv, TypeInv, TypeOK
<1>18. ZeroInv'
  <2>1. cand # h /\ \A b \in held : b # h
    BY <1>1, <1>4, <1>5, <1>6 DEF FreeSet
  <2>2. \A b \in CallersBlocks' : b \in held \/ b = cand
    BY <1>2 DEF CallersBlocks
  <2>3. \A b \in CallersBlocks' : disk'[b] = disk[b]
    BY <2>1, <2>2, <1>0, <1>1, <1>2 DEF TypeInv, TypeOK
  <2> QED
    BY <2>2, <2>3, <1>0, <1>2 DEF ZeroInv, CallersBlocks
<1> QED
  BY <1>7, <1>8, <1>9, <1>10, <1>12, <1>13, <1>14, <1>15, <1>16, <1>17, <1>18 DEF IInv

(* Under SafeUse there is always a second list block or an entry: the last *)
(* free block is never popped.                                             *)
LEMMA TwoFree ==
    ASSUME SafeUse, TypeInv, CountInv, pc = "idle", Cardinality(held) < HeldLimit,
           NEW b
    PROVE  FreeSet # {b}
<1> SUFFICES ASSUME FreeSet = {b} PROVE FALSE
  OBVIOUS
<1> DEFINE Lost == DataBlocks \ Accounted
<1>1. InFlight = {}
  BY DEF InFlight
<1>2. DataBlocks \subseteq (held \union Lost) \union {b}
  BY <1>1 DEF Accounted
<1>3. /\ IsFiniteSet(held) /\ Cardinality(held) \in Nat
      /\ IsFiniteSet(Lost) /\ Cardinality(Lost) \in Nat
  BY ConstantFacts, FS_Subset, FS_CardinalityType DEF TypeInv, TypeOK
<1>4. Cardinality(Lost) <= MaxCrashes
  BY <1>3, BoundAssumption DEF CountInv, LeakBound, Accounted, TypeInv, TypeOK
<1>5. /\ IsFiniteSet(held \union Lost) /\ Cardinality(held \union Lost) \in Nat
      /\ Cardinality(held \union Lost) <= Cardinality(held) + Cardinality(Lost)
  BY <1>3, CardUnion
<1>6. /\ IsFiniteSet((held \union Lost) \union {b})
      /\ Cardinality((held \union Lost) \union {b}) \in Nat
      /\ Cardinality((held \union Lost) \union {b}) <= Cardinality(held \union Lost) + 1
  BY <1>5, CardAdd
<1>7. Cardinality(DataBlocks) <= Cardinality((held \union Lost) \union {b})
  BY <1>2, <1>6, FS_Subset
<1>8. Cardinality(DataBlocks) \in Nat
  BY ConstantFacts, FS_CardinalityType
<1> QED
  BY <1>3, <1>4, <1>5, <1>6, <1>7, <1>8, BoundAssumption DEF SafeUse

(* A pop that finds no occupied slot makes the next list block the head.   *)
LEMMA PopHeadStep ==
    ASSUME SafeUse, IInv, PopHead
    PROVE  IInv' /\ FreeSet' = FreeSet \ {chain[1]} /\ chain[1] \in FreeSet
<1>0. /\ TypeInv /\ ChainInv /\ LinkInv /\ FillInv /\ HeadInv /\ SlotInv
      /\ TailInv /\ UseInv /\ CountInv /\ ZeroInv
      /\ pc = "idle" /\ Cardinality(held) < HeldLimit /\ Occupied = {}
  BY DEF IInv, PopHead, Idle
<1> DEFINE h == chain[1]
           n == Len(chain)
<1>1. /\ list_head_blkidx = h /\ h \in DataBlocks /\ h \in ListBlocks
      /\ list_head.data = disk[h].data /\ list_head.next = disk[h].next
      /\ n \in Nat /\ n >= 1
      /\ \A i \in 1 .. n : chain[i] \in DataBlocks
      /\ ListBlocks = {chain[i] : i \in 1 .. n} /\ ListBlocks \subseteq DataBlocks
  BY <1>0, TypeFacts DEF HeadInv
<1>2. /\ Unzeroed = {} /\ Readable = ListBlocks /\ InFlight = {}
  BY <1>0 DEF Readable, Unzeroed, InFlight
<1>3. \A s \in Slots : disk[h].data[s] = 0
  <2>2. \/ FilledAbove(list_head, next_freeslot)
        \/ FilledAbove(list_head, E - 1)
    BY <1>0 DEF SlotInv, FilledAbove
  <2>3. \A s \in Slots : ~(s > E - 1)
    BY ConstantFacts DEF Slots
  <2> QED
    <3>1. CASE FilledAbove(list_head, next_freeslot)
      <4>1. \A s \in Slots : list_head.data[s] # 0 => s \in Occupied
        BY <3>1 DEF FilledAbove, Occupied
      <4> QED
        BY <4>1, <1>0, <1>1
    <3>2. CASE FilledAbove(list_head, E - 1)
      BY <3>2, <2>3, <1>1 DEF FilledAbove
    <3> QED
      BY <3>1, <3>2, <2>2
<1>4. n > 1
  <2>1. ASSUME n = 1 PROVE ListBlocks = {h}
    BY <2>1, <1>1
  <2>2. ASSUME n = 1 PROVE FreeSet = {h}
    BY <2>1, <2>2, <1>2, <1>3 DEF FreeSet
  <2>3. n # 1
    BY <2>2, <1>0, TwoFree
  <2>4. n \in Nat /\ n >= 1
    BY <1>1
  <2> HIDE DEF n
  <2> QED
    BY <2>3, <2>4
<1>5. list_head.next = chain[2] /\ chain[2] \in DataBlocks
  BY <1>0, <1>1, <1>2, <1>4 DEF LinkInv, NextInChain
<1>6. /\ next_freeslot' = NoSlot /\ cand' = h
      /\ sblock_incore' = [sblock_incore EXCEPT !.flist_head = chain[2]]
      /\ sb' = sblock_incore' /\ list_head_blkidx' = chain[2]
      /\ list_head' = disk[chain[2]] /\ chain' = Tail(chain) /\ pc' = "pop_head"
      /\ UNCHANGED <<disk, tail_idx, held, crashes, unmounts>>
  BY <1>0, <1>1, <1>5 DEF PopHead, ReadBlock, ChainInv
<1>7. /\ chain \in Seq(DataBlocks) /\ chain # <<>>
      /\ chain' \in Seq(DataBlocks) /\ Len(chain') = n - 1
      /\ \A i \in 1 .. n - 1 : chain'[i] = chain[i + 1]
  BY <1>0, <1>6 DEF TypeInv, TypeOK, ChainInv
<1>8. \A i, j \in 1 .. n : chain[i] = chain[j] => i = j
  BY <1>0 DEF ChainInv
<1>9. ChainInv'
  <2>1. chain' # <<>>
    BY <1>4, <1>7
  <2>2. \A i, j \in 1 .. Len(chain') : chain'[i] = chain'[j] => i = j
    BY <1>1, <1>4, <1>7, <1>8
  <2> QED
    BY <2>1, <2>2, <1>1, <1>6 DEF ChainInv
<1>10. TypeInv'
  <2>1. list_head' \in Block
    BY <1>0, <1>5, <1>6 DEF TypeInv, TypeOK
  <2> QED
    BY <2>1, <1>0, <1>1, <1>5, <1>6, <1>7, ConstantFacts DEF TypeInv, TypeOK
<1>11. ListBlocks' = ListBlocks \ {h} /\ Unzeroed' = {} /\ Readable' = ListBlocks' /\ InFlight' = {h}
  <2>1. ListBlocks' = {chain'[i] : i \in 1 .. Len(chain')}
    BY <1>7 DEF ListBlocks, Range
  <2>2. \A b \in ListBlocks' : b \in ListBlocks \ {h}
    BY <2>1, <1>1, <1>4, <1>7, <1>8
  <2>3. \A b \in ListBlocks \ {h} : b \in ListBlocks'
    <3> SUFFICES ASSUME NEW i \in 1 .. n, chain[i] # h PROVE chain[i] \in ListBlocks'
      BY <1>1
    <3>1. i - 1 \in 1 .. n - 1 /\ chain'[i - 1] = chain[i]
      BY <1>1, <1>7
    <3> QED
      BY <3>1, <2>1, <1>7
  <2>4. Unzeroed' = {} /\ InFlight' = {h}
    BY <1>6 DEF Unzeroed, InFlight
  <2> QED
    BY <2>2, <2>3, <2>4 DEF Readable
<1>12. FreeSet' = FreeSet \ {h} /\ h \in FreeSet
  <2>1. /\ \A b \in ListBlocks, s \in Slots :
               disk[b].data[s] # 0 => disk[b].data[s] \in DataBlocks \ ListBlocks
    BY <1>0, <1>2 DEF UseInv, NoDoubleUse
  <2>2. ASSUME NEW b \in FreeSet' PROVE b \in FreeSet /\ b # h
    <3>1. CASE b \in ListBlocks'
      BY <3>1, <1>11 DEF FreeSet
    <3>2. CASE b \notin ListBlocks'
      <4>1. PICK c \in ListBlocks', s \in Slots : disk[c].data[s] # 0 /\ disk[c].data[s] = b
        BY <3>2, <2>2, <1>6, <1>11 DEF FreeSet
      <4>2. c \in Readable /\ b \notin ListBlocks
        BY <4>1, <1>2, <1>11, <2>1
      <4> QED
        BY <4>1, <4>2, <1>1 DEF FreeSet
    <3> QED
      BY <3>1, <3>2
  <2>3. ASSUME NEW b \in FreeSet, b # h PROVE b \in FreeSet'
    <3>1. CASE b \in ListBlocks
      BY <3>1, <2>3, <1>11 DEF FreeSet
    <3>2. CASE b \notin ListBlocks
      <4>1. PICK c \in ListBlocks, s \in Slots : disk[c].data[s] # 0 /\ disk[c].data[s] = b
        BY <3>2, <1>2, FreeChar
      <4>2. c \in Readable' /\ disk'[c].data[s] = b /\ b # 0
        BY <4>1, <1>3, <1>6, <1>11
      <4> QED
        BY <4>2 DEF FreeSet
    <3> QED
      BY <3>1, <3>2
  <2>4. h \in FreeSet
    BY <1>1 DEF FreeSet
  <2> QED
    BY <2>2, <2>3, <2>4
<1>13. LinkInv'
  <2>1. \A i \in 1 .. n - 1 : NextInChain(i)' = NextInChain(i + 1)
    BY <1>1, <1>4, <1>7 DEF NextInChain
  <2>2. \A i \in 1 .. n - 1 : disk'[chain'[i]].next = NextInChain(i)'
    BY <2>1, <1>0, <1>1, <1>2, <1>6, <1>7 DEF LinkInv
  <2> QED
    BY <2>2, <1>7 DEF LinkInv
<1>14. \A i \in 1 .. n - 1 :
           FilledAbove(disk'[chain'[i]], NoSlot) \/ FilledAbove(disk'[chain'[i]], E - 1)
  BY <1>0, <1>1, <1>2, <1>6, <1>7 DEF FillInv, FilledAbove
<1>15. FillInv'
  <2>1. 1 \in 1 .. n - 1
    BY <1>1, <1>4
  <2>2. \E k \in Slots \union {NoSlot} : FilledAbove(disk'[chain'[1]], k)
    BY <2>1, <1>14, ConstantFacts
  <2>3. \A i \in 2 .. Len(chain') :
            FilledAbove(disk'[chain'[i]], NoSlot) \/ FilledAbove(disk'[chain'[i]], E - 1)
    BY <1>1, <1>7, <1>14
  <2> QED
    BY <2>2, <2>3 DEF FillInv
<1>16. HeadInv'
  BY <1>0, <1>1, <1>4, <1>5, <1>6, <1>7 DEF HeadInv, TypeInv, TypeOK
<1>17. SlotInv'
  <2>1. FilledAbove(list_head', NoSlot) \/ FilledAbove(list_head', E - 1)
    <3>1. 1 \in 1 .. n - 1 /\ chain'[1] = chain[2]
      BY <1>1, <1>4, <1>7
    <3>2. list_head' = disk'[chain'[1]]
      BY <1>6, <3>1
    <3> QED
      BY <1>14, <3>1, <3>2
  <2> QED
    BY <2>1, <1>6 DEF SlotInv
<1>18. TailInv'
  BY <1>0, <1>1, <1>4, <1>6, <1>7 DEF TailInv, LastOfChain
<1>19. UseInv'
  BY <1>0, <1>2, <1>6, <1>11, <1>12 DEF UseInv, NoDoubleUse
<1>20. CountInv'
  <2>1. Accounted \subseteq Accounted'
    BY <1>2, <1>6, <1>11, <1>12 DEF Accounted
  <2> QED
    BY <2>1, <1>0, <1>6, NothingLost DEF CountInv, TypeInv, TypeOK
<1>21. ZeroInv'
  BY <1>0, <1>6 DEF ZeroInv, CallersBlocks
<1> QED
  BY <1>12, <1>9, <1>10, <1>13, <1>15, <1>16, <1>17, <1>18, <1>19, <1>20, <1>21 DEF IInv

(* The old head is zeroed and belongs to the caller.                       *)
LEMMA ZeroHeadStep ==
    ASSUME IInv, ZeroHead
    PROVE  IInv' /\ FreeSet' = FreeSet
<1>0. /\ TypeInv /\ ChainInv /\ LinkInv /\ FillInv /\ HeadInv /\ SlotInv
      /\ TailInv /\ UseInv /\ CountInv /\ ZeroInv /\ pc = "pop_head"
  BY DEF IInv, ZeroHead
<1>1. cand \in DataBlocks /\ InFlight = {cand} /\ cand \notin FreeSet /\ cand \notin held
  BY <1>0 DEF ChainInv, Moving, InFlight, UseInv
<1>2. /\ disk' = [disk EXCEPT ![cand] = ZeroBlock]
      /\ sblock_incore' = [sblock_incore EXCEPT !.free_blocks = Minus1(@)]
      /\ held' = held \union {cand} /\ pc' = "idle" /\ cand' = 0
      /\ UNCHANGED <<sb, list_head_blkidx, list_head, next_freeslot, tail_idx,
                     chain, crashes, unmounts>>
  BY <1>1 DEF ZeroHead, WriteBlock
<1>3. cand \notin ListBlocks
  BY <1>1 DEF FreeSet
<1>4. UNCHANGED Unzeroed /\ InFlight' = {}
  BY <1>0, <1>2 DEF Unzeroed, InFlight
<1>5. \A b \in ListBlocks : disk'[b] = disk[b]
  BY <1>0, <1>2, <1>3, TypeFacts DEF TypeInv, TypeOK
<1>6. /\ FreeSet' = FreeSet /\ LinkInv' /\ FillInv'
      /\ ListBlocks' = ListBlocks /\ Readable' = Readable
      /\ \A b, c \in Readable', q, t \in Slots :
             disk'[b].data[q] # 0 /\ disk'[b].data[q] = disk'[c].data[t]
                 => b = c /\ q = t
      /\ \A b \in Readable', q \in Slots :
             disk'[b].data[q] # 0 => disk'[b].data[q] \in DataBlocks \ ListBlocks'
  BY <1>0, <1>2, <1>4, <1>5, OffList DEF UseInv
<1>7. TypeInv'
  <2>1. sblock_incore' \in [flist_head : Words, free_blocks : 0 .. SizeModulus - 1]
    BY <1>0, <1>2, CounterType DEF TypeInv, TypeOK
  <2> QED
    BY <2>1, <1>0, <1>1, <1>2, ConstantFacts DEF TypeInv, TypeOK
<1>8. ChainInv'
  BY <1>0, <1>2 DEF ChainInv, Moving
<1>9. HeadInv'
  BY <1>0, <1>2, <1>5, TypeFacts DEF HeadInv, TypeInv, TypeOK
<1>10. SlotInv' /\ TailInv'
  BY <1>0, <1>2 DEF SlotInv, FilledAbove, TailInv, LastOfChain
<1>11. UseInv'
  BY <1>0, <1>1, <1>2, <1>4, <1>6 DEF UseInv, NoDoubleUse
<1>12. CountInv'
  <2>1. IsFiniteSet(held) /\ Cardinality(held) < HeldLimit
    BY <1>0, ConstantFacts, FS_Subset DEF TypeInv, TypeOK, CountInv
  <2>2. Cardinality(held') <= HeldLimit
    BY <2>1, <1>0, <1>2, HeldGrows
  <2>3. Accounted \subseteq Accounted'
    BY <1>1, <1>2, <1>4, <1>6 DEF Accounted
  <2> QED
    BY <2>2, <2>3, <1>0, <1>2, NothingLost DEF CountInv, TypeInv, TypeOK
<1>13. ZeroInv'
  BY <1>0, <1>1, <1>2 DEF ZeroInv, CallersBlocks, TypeInv, TypeOK
<1> QED
  BY <1>6, <1>7, <1>8, <1>9, <1>10, <1>11, <1>12, <1>13 DEF IInv

-----------------------------------------------------------------------------
(* FreeList_append.  The list is never empty.                              *)
LEMMA AppendEmptyStep ==
    ASSUME IInv, NEW b, AppendEmpty(b)
    PROVE  FALSE
<1>1. chain[1] \in DataBlocks /\ list_head_blkidx = chain[1]
  BY TypeFacts DEF IInv, HeadInv, AppendEmpty, Idle
<1>2. list_head_blkidx = 0
  BY DEF AppendEmpty
<1> QED
  BY <1>1, <1>2, ConstantFacts

(* An append to a head with an empty slot writes the head once.            *)
LEMMA AppendSlotStep ==
    ASSUME IInv, NEW b, AppendSlot(b)
    PROVE  IInv' /\ FreeSet' = FreeSet \union {b}
<1>0. /\ TypeInv /\ ChainInv /\ LinkInv /\ FillInv /\ HeadInv /\ SlotInv
      /\ TailInv /\ UseInv /\ CountInv /\ ZeroInv /\ pc = "idle" /\ b \in held
  BY DEF IInv, AppendSlot, Idle
<1> DEFINE n == next_freeslot
           h == chain[1]
<1>1. /\ list_head_blkidx = h /\ h \in DataBlocks /\ h \in ListBlocks
      /\ b \in DataBlocks /\ b # 0 /\ list_head = disk[h] /\ n \in Slots \union {NoSlot}
  BY <1>0, TypeFacts, ConstantFacts DEF HeadInv, TypeInv, TypeOK, Block
<1>2. PICK s \in Empty : /\ \A t \in Empty : t <= s
                         /\ list_head' = [list_head EXCEPT !.data[s] = b]
                         /\ next_freeslot' = s - 1
  BY DEF AppendSlot
<1>3. /\ disk' = [disk EXCEPT ![h] = list_head']
      /\ sblock_incore' = [sblock_incore EXCEPT !.free_blocks = Plus1(@)]
      /\ held' = held \ {b}
      /\ UNCHANGED <<sb, list_head_blkidx, tail_idx, pc, cand, chain, crashes, unmounts>>
  BY <1>1 DEF AppendSlot, WriteBlock
<1>4. s \in Slots /\ s <= n /\ list_head.data[s] = 0
  BY <1>2 DEF Empty
<1>5. s = n /\ n \in Slots /\ FilledAbove(list_head, n)
  <2>1. \A t \in Slots : t \in Nat
    BY ConstantFacts DEF Slots
  <2>2. n # NoSlot
    BY <2>1, <1>4 DEF NoSlot
  <2>3. FilledAbove(list_head, n)
    BY <2>2, <1>0 DEF SlotInv, FilledAbove
  <2>4. n \in Slots
    BY <2>2, <1>1
  <2>5. ~(n > n)
    BY <2>1, <2>4
  <2>6. n \in Empty
    BY <2>1, <2>3, <2>4, <2>5 DEF FilledAbove, Empty
  <2> QED
    BY <2>1, <2>3, <2>4, <2>6, <1>2, <1>4
<1>6. \A c \in DataBlocks :
          /\ disk'[c].next = disk[c].next
          /\ \A t \in Slots : disk'[c].data[t] = IF c = h /\ t = n THEN b ELSE disk[c].data[t]
  BY <1>0, <1>1, <1>2, <1>3, <1>5, TypeFacts DEF TypeInv, TypeOK, Block
<1>7. /\ Readable = ListBlocks /\ ListBlocks' = ListBlocks /\ Readable' = ListBlocks
      /\ InFlight = {} /\ InFlight' = {} /\ Unzeroed = {} /\ Unzeroed' = {}
      /\ ListBlocks \subseteq DataBlocks
  BY <1>0, <1>3, TypeFacts DEF Readable, Unzeroed, InFlight, ListBlocks
<1>8. /\ \A c, d \in ListBlocks, q, t \in Slots :
             disk[c].data[q] # 0 /\ disk[c].data[q] = disk[d].data[t] => c = d /\ q = t
      /\ \A c \in ListBlocks, t \in Slots :
             disk[c].data[t] # 0 => disk[c].data[t] \in DataBlocks \ ListBlocks
      /\ FreeSet \intersect held = {}
  BY <1>0, <1>7 DEF UseInv, NoDoubleUse
<1>9. disk[h].data[n] = 0 /\ disk'[h].data[n] = b /\ b \notin FreeSet
  BY <1>0, <1>1, <1>4, <1>5, <1>6, <1>8
<1>10. b \notin ListBlocks /\ \A c \in ListBlocks, t \in Slots : disk[c].data[t] # b
  BY <1>1, <1>7, <1>9 DEF FreeSet
<1>11. FreeSet' = FreeSet \union {b}
  <2>1. ASSUME NEW x \in FreeSet' PROVE x \in FreeSet \union {b}
    BY <1>1, <1>6, <1>7 DEF FreeSet
  <2>2. ASSUME NEW x \in FreeSet PROVE x \in FreeSet'
    <3>1. CASE x \in ListBlocks
      BY <3>1, <1>7 DEF FreeSet
    <3>2. CASE x \notin ListBlocks
      <4>1. PICK c \in ListBlocks, t \in Slots : disk[c].data[t] # 0 /\ disk[c].data[t] = x
        BY <3>2, <2>2, <1>7, FreeChar
      <4>2. disk'[c].data[t] = x
        BY <4>1, <1>6, <1>7, <1>9
      <4> QED
        BY <4>1, <4>2, <1>7 DEF FreeSet
    <3> QED
      BY <3>1, <3>2
  <2>3. b \in FreeSet'
    BY <1>1, <1>5, <1>7, <1>9 DEF FreeSet
  <2> QED
    BY <2>1, <2>2, <2>3
<1>12. TypeInv'
  <2>1. list_head' \in Block
    BY <1>0, <1>1, <1>2, <1>4, TypeFacts, ConstantFacts DEF Block
  <2>2. sblock_incore' \in [flist_head : Words, free_blocks : 0 .. SizeModulus - 1]
    BY <1>0, <1>3, CounterType DEF TypeInv, TypeOK
  <2>3. n - 1 \in Slots \union {NoSlot}
    BY <1>5, ConstantFacts DEF Slots, NoSlot
  <2> QED
    BY <1>0, <1>1, <1>2, <1>3, <1>5, <2>1, <2>2, <2>3 DEF TypeInv, TypeOK
<1>13. ChainInv'
  BY <1>0, <1>3 DEF ChainInv, Moving
<1>14. LinkInv'
  BY <1>0, <1>3, <1>6, <1>7, TypeFacts DEF LinkInv, NextInChain
<1>15. FilledAbove(list_head', n - 1) /\ FilledAbove(disk'[h], n - 1)
  <2>1. \A t \in Slots : (disk[h].data[t] # 0) <=> (t > n)
    BY <1>1, <1>5 DEF FilledAbove
  <2>2. \A t \in Slots : t \in Int /\ n \in Int
    BY <1>5, ConstantFacts DEF Slots
  <2>3. \A t \in Slots : (disk'[h].data[t] # 0) <=> (t > n - 1)
    BY <2>1, <2>2, <1>1, <1>6
  <2>4. FilledAbove(disk'[h], n - 1)
    BY <2>3 DEF FilledAbove
  <2> QED
    BY <2>4, <1>0, <1>1, <1>3 DEF TypeInv, TypeOK
<1>16. FillInv'
  <2>1. \A i \in 2 .. Len(chain) : chain[i] # h
    BY <1>0, TypeFacts DEF ChainInv
  <2>2. \A i \in 2 .. Len(chain) : disk'[chain[i]] = disk[chain[i]]
    BY <2>1, <1>0, <1>3, TypeFacts DEF TypeInv, TypeOK
  <2>3. n - 1 \in Slots \union {NoSlot}
    BY <1>5, ConstantFacts DEF Slots, NoSlot
  <2>4. \E k \in Slots \union {NoSlot} : FilledAbove(disk'[chain'[1]], k)
    BY <2>3, <1>3, <1>15
  <2>5. \A i \in 2 .. Len(chain) :
            FilledAbove(disk'[chain'[i]], NoSlot) \/ FilledAbove(disk'[chain'[i]], E - 1)
    BY <2>2, <1>0, <1>3, <1>7 DEF FillInv, FilledAbove
  <2> QED
    BY <2>4, <2>5, <1>3 DEF FillInv, FilledAbove
<1>17. HeadInv'
  <2>1. disk'[h] = list_head'
    BY <1>0, <1>1, <1>3 DEF TypeInv, TypeOK
  <2>2. UNCHANGED sblock_incore.flist_head
    BY <1>0, <1>3 DEF TypeInv, TypeOK
  <2> QED
    BY <2>1, <2>2, <1>0, <1>1, <1>3 DEF HeadInv
<1>18. SlotInv'
  BY <1>0, <1>2, <1>3, <1>5, <1>15 DEF SlotInv
<1>19. TailInv'
  BY <1>0, <1>3 DEF TailInv, LastOfChain
<1>20. UseInv'
  <2>1. /\ \A c, d \in ListBlocks, q, t \in Slots :
             disk'[c].data[q] # 0 /\ disk'[c].data[q] = disk'[d].data[t] => c = d /\ q = t
        /\ \A c \in ListBlocks, t \in Slots :
             disk'[c].data[t] # 0 => disk'[c].data[t] \in DataBlocks \ ListBlocks
    BY <1>1, <1>6, <1>7, <1>8, <1>10
  <2> QED
    BY <2>1, <1>3, <1>7, <1>8, <1>11 DEF UseInv, NoDoubleUse
<1>21. CountInv'
  <2>1. Cardinality(held') <= HeldLimit
    BY <1>0, <1>3, HeldShrinks DEF CountInv
  <2>2. Accounted \subseteq Accounted'
    BY <1>3, <1>7, <1>11 DEF Accounted
  <2> QED
    BY <2>1, <2>2, <1>0, <1>3, NothingLost DEF CountInv, TypeInv, TypeOK
<1>22. ZeroInv'
  <2>1. \A c \in CallersBlocks' : c \in held /\ c # h
    BY <1>0, <1>1, <1>3, <1>8 DEF CallersBlocks, FreeSet
  <2> QED
    BY <2>1, <1>0, <1>3 DEF ZeroInv, CallersBlocks, TypeInv, TypeOK
<1> QED
  BY <1>11, <1>12, <1>13, <1>14, <1>16, <1>17, <1>18, <1>19, <1>20, <1>21, <1>22 DEF IInv

(* An append to a full head begins with the tail.                          *)
LEMMA AppendTailStep ==
    ASSUME IInv, NEW b, AppendTail(b)
    PROVE  IInv' /\ FreeSet' = FreeSet /\ b \notin FreeSet
<1>0. /\ TypeInv /\ ChainInv /\ LinkInv /\ FillInv /\ HeadInv /\ SlotInv
      /\ TailInv /\ UseInv /\ CountInv /\ ZeroInv /\ pc = "idle" /\ b \in held
  BY DEF IInv, AppendTail, Idle
<1>1. /\ list_head' = [list_head EXCEPT !.next = IF @ = 0 THEN b ELSE @]
      /\ next_freeslot' = NoSlot /\ cand' = b /\ held' = held \ {b}
      /\ pc' = (IF tail_idx = 0 THEN "seek_tail" ELSE "link_tail")
      /\ Empty = {}
      /\ UNCHANGED <<disk, sb, sblock_incore, list_head_blkidx, tail_idx, chain,
                     crashes, unmounts>>
  BY DEF AppendTail
<1>2. /\ b \in DataBlocks /\ pc' \in {"seek_tail", "link_tail"}
      /\ list_head' \in Block /\ list_head'.data = list_head.data
      /\ list_head'.next = (IF list_head.next = 0 THEN b ELSE list_head.next)
  BY <1>0, <1>1, TypeFacts, ConstantFacts DEF TypeInv, TypeOK, Block
<1>3. /\ Unzeroed = {} /\ Unzeroed' = {} /\ InFlight = {} /\ InFlight' = {b}
      /\ ListBlocks' = ListBlocks /\ Readable' = Readable
  BY <1>0, <1>1, <1>2 DEF Unzeroed, InFlight, ListBlocks, Readable
<1>4. FreeSet' = FreeSet /\ b \notin FreeSet
  BY <1>0, <1>1, <1>3 DEF FreeSet, UseInv, NoDoubleUse
<1>5. TypeInv'
  BY <1>0, <1>1, <1>2, ConstantFacts DEF TypeInv, TypeOK
<1>6. ChainInv'
  BY <1>0, <1>1, <1>2 DEF ChainInv, Moving
<1>7. LinkInv' /\ FillInv'
  BY <1>0, <1>1, <1>3 DEF LinkInv, FillInv, NextInChain, FilledAbove
<1>8. HeadInv'
  <2>1. disk[chain[1]].next = NextInChain(1)
    BY <1>0, <1>3, TypeFacts DEF LinkInv
  <2>2. (list_head.next = 0) <=> (Len(chain) = 1)
    <3>1. Len(chain) = 1 => disk[chain[1]].next = 0
      BY <2>1 DEF NextInChain
    <3>2. Len(chain) # 1 => disk[chain[1]].next = chain[2] /\ chain[2] \in DataBlocks
      <4>1. Len(chain) # 1 => disk[chain[1]].next = chain[2]
        BY <2>1 DEF NextInChain
      <4>2. Len(chain) \in Nat /\ Len(chain) >= 1
        BY <1>0, TypeFacts
      <4>3. \A n \in Nat : n >= 1 /\ n # 1 => 2 \in 1 .. n
        OBVIOUS
      <4> QED
        BY <4>1, <4>2, <4>3, <1>0, TypeFacts
    <3> QED
      BY <3>1, <3>2, <1>0, ConstantFacts DEF HeadInv
  <2> QED
    BY <2>2, <1>0, <1>1, <1>2 DEF HeadInv
<1>9. SlotInv'
  <2>1. \A t \in Slots : t \in Int /\ ~(t > t) /\ t <= t
    BY ConstantFacts DEF Slots
  <2>2. next_freeslot = NoSlot
    <3>1. CASE next_freeslot \in Slots
      <4>1. FilledAbove(list_head, next_freeslot)
        BY <3>1, <1>0, ConstantFacts DEF SlotInv, FilledAbove
      <4>2. next_freeslot \in Empty
        BY <4>1, <3>1, <2>1 DEF FilledAbove, Empty
      <4> QED
        BY <4>2, <1>1
    <3> QED
      BY <3>1, <1>0 DEF TypeInv, TypeOK
  <2> QED
    BY <2>2, <1>0, <1>1, <1>2 DEF SlotInv, FilledAbove
<1>10. TailInv'
  BY <1>0, <1>1 DEF TailInv, LastOfChain
<1>11. UseInv'
  BY <1>0, <1>1, <1>3, <1>4 DEF UseInv, NoDoubleUse
<1>12. CountInv'
  <2>1. Cardinality(held') <= HeldLimit
    BY <1>0, <1>1, HeldShrinks DEF CountInv
  <2>2. Accounted \subseteq Accounted'
    BY <1>1, <1>3, <1>4 DEF Accounted
  <2> QED
    BY <2>1, <2>2, <1>0, <1>1, NothingLost DEF CountInv, TypeInv, TypeOK
<1>13. ZeroInv'
  BY <1>0, <1>1 DEF ZeroInv, CallersBlocks
<1> QED
  BY <1>4, <1>5, <1>6, <1>7, <1>8, <1>9, <1>10, <1>11, <1>12, <1>13 DEF IInv

(* The search for the tail stays on the list and ends at its last block.   *)
LEMMA SeekTailStep ==
    ASSUME IInv, SeekTail
    PROVE  IInv' /\ FreeSet' = FreeSet
<1>0. /\ TypeInv /\ ChainInv /\ LinkInv /\ FillInv /\ HeadInv /\ SlotInv
      /\ TailInv /\ UseInv /\ CountInv /\ ZeroInv /\ pc = "seek_tail"
  BY DEF IInv, SeekTail
<1>1. /\ tail_idx' = (IF tail_idx = 0 THEN list_head_blkidx ELSE disk[tail_idx].next)
      /\ tail_idx' \in DataBlocks
      /\ pc' = (IF disk[tail_idx'].next = 0 THEN "link_tail" ELSE "seek_tail")
      /\ UNCHANGED <<disk, sb, sblock_incore, list_head_blkidx, list_head,
                     next_freeslot, cand, held, chain, crashes, unmounts>>
  BY DEF SeekTail, ghosts
<1>2. pc' \in {"seek_tail", "link_tail"}
  BY <1>1
<1>3. /\ Unzeroed = {} /\ Unzeroed' = {} /\ InFlight' = InFlight
      /\ ListBlocks' = ListBlocks /\ Readable' = Readable
  BY <1>0, <1>1, <1>2 DEF Unzeroed, InFlight, ListBlocks, Readable
<1>4. FreeSet' = FreeSet
  BY <1>1, <1>3 DEF FreeSet
<1>5. PICK j \in 1 .. Len(chain) : tail_idx' = chain[j]
  <2>1. CASE tail_idx = 0
    BY <2>1, <1>0, <1>1, TypeFacts DEF HeadInv
  <2>2. CASE tail_idx # 0
    <3>1. PICK i \in 1 .. Len(chain) - 1 : tail_idx = chain[i]
      BY <2>2, <1>0 DEF TailInv
    <3>2. disk[chain[i]].next = chain[i + 1] /\ i + 1 \in 1 .. Len(chain)
      BY <3>1, <1>0, <1>3, TypeFacts DEF LinkInv, NextInChain
    <3> QED
      BY <3>1, <3>2, <2>2, <1>1
  <2> QED
    BY <2>1, <2>2
<1>6. (disk[tail_idx'].next = 0) <=> (j = Len(chain))
  <2>1. disk[chain[j]].next = NextInChain(j)
    BY <1>0, <1>3, <1>5 DEF LinkInv
  <2> QED
    BY <2>1, <1>0, <1>5, TypeFacts, ConstantFacts DEF NextInChain
<1>7. TypeInv'
  BY <1>0, <1>1, <1>2, ConstantFacts DEF TypeInv, TypeOK
<1>8. ChainInv'
  BY <1>0, <1>1, <1>2 DEF ChainInv, Moving
<1>9. LinkInv' /\ FillInv'
  BY <1>0, <1>1, <1>3 DEF LinkInv, FillInv, NextInChain, FilledAbove
<1>10. HeadInv'
  BY <1>0, <1>1, <1>2 DEF HeadInv
<1>11. SlotInv'
  BY <1>0, <1>1, <1>2 DEF SlotInv, FilledAbove
<1>12. TailInv'
  <2>1. CASE j = Len(chain)
    BY <2>1, <1>1, <1>5, <1>6 DEF TailInv, LastOfChain
  <2>2. CASE j # Len(chain)
    <3>1. j \in 1 .. Len(chain) - 1
      BY <2>2, <1>0, <1>5, TypeFacts
    <3> QED
      BY <3>1, <2>2, <1>1, <1>5, <1>6 DEF TailInv
  <2> QED
    BY <2>1, <2>2
<1>13. UseInv'
  BY <1>0, <1>1, <1>3, <1>4 DEF UseInv, NoDoubleUse
<1>14. CountInv'
  <2>1. Accounted \subseteq Accounted'
    BY <1>1, <1>3, <1>4 DEF Accounted
  <2> QED
    BY <2>1, <1>0, <1>1, <1>2, NothingLost DEF CountInv, TypeInv, TypeOK
<1>15. ZeroInv'
  BY <1>0, <1>1, <1>2 DEF ZeroInv, CallersBlocks
<1> QED
  BY <1>4, <1>7, <1>8, <1>9, <1>10, <1>11, <1>12, <1>13, <1>14, <1>15 DEF IInv

(* The assertion in the search for the tail never fails.                   *)
LEMMA SeekAbortsStep ==
    ASSUME IInv, SeekAborts
    PROVE  FALSE
<1>0. /\ TypeInv /\ ChainInv /\ LinkInv /\ FillInv /\ HeadInv /\ SlotInv
      /\ TailInv /\ UseInv /\ CountInv /\ ZeroInv /\ pc = "seek_tail"
  BY DEF IInv, SeekAborts
<1>1. (IF tail_idx = 0 THEN list_head_blkidx ELSE disk[tail_idx].next) \notin DataBlocks
  BY DEF SeekAborts
<1>2. CASE tail_idx = 0
  BY <1>2, <1>0, <1>1, TypeFacts DEF HeadInv
<1>3. CASE tail_idx # 0
  <2>1. PICK i \in 1 .. Len(chain) - 1 : tail_idx = chain[i]
    BY <1>3, <1>0 DEF TailInv
  <2>2. disk[chain[i]].next = chain[i + 1] /\ i + 1 \in 1 .. Len(chain)
    BY <2>1, <1>0, TypeFacts DEF LinkInv, NextInChain, Unzeroed
  <2> QED
    BY <2>1, <2>2, <1>0, <1>1, <1>3, TypeFacts
<1> QED
  BY <1>2, <1>3

(* The new tail is linked; from now on it is a list block.                 *)
LEMMA LinkTailStep ==
    ASSUME IInv, LinkTail
    PROVE  IInv' /\ FreeSet' = FreeSet \union {cand}
<1>0. /\ TypeInv /\ ChainInv /\ LinkInv /\ FillInv /\ HeadInv /\ SlotInv
      /\ TailInv /\ UseInv /\ CountInv /\ ZeroInv /\ pc = "link_tail"
  BY DEF IInv, LinkTail
<1> DEFINE n == Len(chain)
           t == chain[n]
<1>1. /\ n \in Nat /\ n >= 1 /\ t \in DataBlocks /\ tail_idx = t /\ t \in ListBlocks
      /\ cand \in DataBlocks /\ chain[1] \in DataBlocks
      /\ \A i \in 1 .. n : chain[i] \in DataBlocks
      /\ ListBlocks = {chain[i] : i \in 1 .. n} /\ ListBlocks \subseteq DataBlocks
  BY <1>0, TypeFacts DEF TailInv, LastOfChain, ChainInv, Moving
<1>2. /\ disk' = [disk EXCEPT ![t] = [disk[t] EXCEPT !.next = cand]]
      /\ tail_idx' = cand /\ chain' = Append(chain, cand) /\ pc' = "zero_tail"
      /\ UNCHANGED <<sb, sblock_incore, list_head_blkidx, list_head, next_freeslot,
                     cand, held, crashes, unmounts>>
  BY <1>1 DEF LinkTail, WriteBlock
<1>3. \A c \in DataBlocks :
          /\ disk'[c] \in Block
          /\ disk'[c].data = disk[c].data
          /\ disk'[c].next = IF c = t THEN cand ELSE disk[c].next
          /\ c # t => disk'[c] = disk[c]
  BY <1>0, <1>1, <1>2, TypeFacts, ConstantFacts DEF TypeInv, TypeOK, Block
<1>4. /\ chain \in Seq(DataBlocks) /\ chain' \in Seq(DataBlocks)
      /\ Len(chain') = n + 1 /\ chain'[n + 1] = cand
      /\ \A i \in 1 .. n : chain'[i] = chain[i]
  BY <1>0, <1>1, <1>2 DEF TypeInv, TypeOK
<1>5. /\ Unzeroed = {} /\ Unzeroed' = {cand} /\ InFlight = {cand} /\ InFlight' = {}
      /\ Readable = ListBlocks
  BY <1>0, <1>2 DEF Unzeroed, InFlight, Readable
<1>6. cand \notin FreeSet /\ cand \notin held /\ cand \notin ListBlocks
  BY <1>0, <1>5 DEF UseInv, FreeSet
<1>7. ListBlocks' = ListBlocks \union {cand}
  <2>1. ListBlocks' = {chain'[i] : i \in 1 .. n + 1}
    BY <1>4 DEF ListBlocks, Range
  <2>2. \A b \in ListBlocks' : b \in ListBlocks \union {cand}
    BY <2>1, <1>1, <1>4
  <2>3. \A i \in 1 .. n : i \in 1 .. n + 1
    BY <1>1
  <2>4. n + 1 \in 1 .. n + 1
    BY <1>1
  <2>5. \A b \in ListBlocks : b \in ListBlocks'
    BY <2>1, <2>3, <1>1, <1>4
  <2>6. cand \in ListBlocks'
    BY <2>1, <2>4, <1>4
  <2> QED
    BY <2>2, <2>5, <2>6
<1>8. Readable' = ListBlocks
  BY <1>5, <1>6, <1>7 DEF Readable
<1>9. \A c \in ListBlocks, s \in Slots : disk'[c].data[s] = disk[c].data[s]
  BY <1>1, <1>3
<1>10. FreeSet' = FreeSet \union {cand}
  BY <1>5, <1>7, <1>8, <1>9 DEF FreeSet
<1>11. TypeInv'
  BY <1>0, <1>1, <1>2, <1>3, <1>4, ConstantFacts DEF TypeInv, TypeOK
<1>12. \A i, j \in 1 .. n : chain[i] = chain[j] => i = j
  BY <1>0 DEF ChainInv
<1>13. \A i \in 1 .. n : chain[i] # cand /\ chain[i] \in ListBlocks
  BY <1>1, <1>6
<1>14. \A i \in 1 .. n + 1 : i \in 1 .. n \/ i = n + 1
  BY <1>1
<1>15. ChainInv'
  <2>1. chain' # <<>>
    BY <1>1, <1>4
  <2>2. \A i, j \in 1 .. Len(chain') : chain'[i] = chain'[j] => i = j
    BY <1>4, <1>12, <1>13, <1>14
  <2>3. Len(chain') > 1
    BY <1>1, <1>4
  <2> QED
    BY <2>1, <2>2, <2>3, <1>1, <1>2, <1>4 DEF ChainInv, LastOfChain, Moving
<1>16. LinkInv'
  <2>1. ASSUME NEW i \in 1 .. n
        PROVE  disk'[chain'[i]].next = NextInChain(i)'
    <3>1. disk[chain[i]].next = NextInChain(i)
      BY <1>0, <1>5 DEF LinkInv
    <3>2. NextInChain(i)' = chain'[i + 1]
      BY <1>1, <1>4 DEF NextInChain
    <3>3. CASE i = n
      BY <3>2, <3>3, <1>1, <1>3, <1>4
    <3>4. CASE i # n
      <4>1. chain[i] # t /\ i + 1 \in 1 .. n
        BY <3>4, <1>1, <1>12
      <4>2. NextInChain(i) = chain[i + 1]
        BY <3>4 DEF NextInChain
      <4> QED
        BY <4>1, <4>2, <3>1, <3>2, <1>1, <1>3, <1>4
    <3> QED
      BY <3>3, <3>4
  <2> QED
    BY <2>1, <1>4, <1>5, <1>14 DEF LinkInv
<1>17. FillInv'
  <2>1. \E k \in Slots \union {NoSlot} : FilledAbove(disk'[chain'[1]], k)
    <3>1. chain'[1] = chain[1] /\ chain[1] \in ListBlocks
      BY <1>1, <1>4
    <3>2. PICK k \in Slots \union {NoSlot} : FilledAbove(disk[chain[1]], k)
      BY <1>0 DEF FillInv
    <3>3. FilledAbove(disk'[chain'[1]], k)
      BY <3>1, <3>2, <1>9 DEF FilledAbove
    <3> QED
      BY <3>3
  <2>2. \A i \in 2 .. n :
            FilledAbove(disk'[chain'[i]], NoSlot) \/ FilledAbove(disk'[chain'[i]], E - 1)
    BY <1>0, <1>1, <1>4, <1>5, <1>9 DEF FillInv, FilledAbove
  <2>3. \A i \in 2 .. n + 1 : i \in 2 .. n \/ i = n + 1
    BY <1>1
  <2> QED
    BY <2>1, <2>2, <2>3, <1>4, <1>5 DEF FillInv, FilledAbove
<1>18. HeadInv'
  <2>1. chain'[1] = chain[1] /\ chain'[1] \in DataBlocks
    BY <1>1, <1>4
  <2>2. (chain[1] = t) <=> (n = 1)
    BY <1>1, <1>12
  <2>3. list_head.next = disk'[chain[1]].next
    BY <2>1, <2>2, <1>0, <1>1, <1>3 DEF HeadInv
  <2> QED
    BY <2>1, <2>3, <1>0, <1>1, <1>2, <1>3 DEF HeadInv
<1>19. SlotInv'
  BY <1>0, <1>2 DEF SlotInv, FilledAbove
<1>20. TailInv'
  BY <1>2, <1>4 DEF TailInv, LastOfChain
<1>21. UseInv'
  <2>1. /\ \A c, d \in ListBlocks, q, s \in Slots :
             disk'[c].data[q] # 0 /\ disk'[c].data[q] = disk'[d].data[s] => c = d /\ q = s
    BY <1>0, <1>5, <1>9 DEF UseInv, NoDoubleUse
  <2>2. ASSUME NEW c \in ListBlocks, NEW s \in Slots, disk'[c].data[s] # 0
        PROVE  disk'[c].data[s] \in DataBlocks \ ListBlocks'
    <3>1. disk[c].data[s] \in DataBlocks \ ListBlocks
      BY <2>2, <1>0, <1>5, <1>9 DEF UseInv, NoDoubleUse
    <3>2. disk[c].data[s] \in FreeSet
      BY <2>2, <1>5, <1>9, FreeChar
    <3> QED
      BY <3>1, <3>2, <1>6, <1>7, <1>9
  <2> QED
    BY <2>1, <2>2, <1>0, <1>2, <1>5, <1>6, <1>8, <1>10 DEF UseInv, NoDoubleUse
<1>22. CountInv'
  <2>1. Accounted \subseteq Accounted'
    BY <1>2, <1>5, <1>10 DEF Accounted
  <2> QED
    BY <2>1, <1>0, <1>2, NothingLost DEF CountInv, TypeInv, TypeOK
<1>23. ZeroInv'
  <2>1. \A b \in CallersBlocks' : b \in CallersBlocks /\ b # t
    BY <1>0, <1>1, <1>2, <1>6 DEF CallersBlocks, UseInv, NoDoubleUse, FreeSet
  <2>2. CallersBlocks \subseteq DataBlocks
    BY <1>0, <1>1 DEF CallersBlocks, TypeInv, TypeOK
  <2> QED
    BY <2>1, <2>2, <1>0, <1>2, <1>3 DEF ZeroInv
<1> QED
  BY <1>10, <1>11, <1>15, <1>16, <1>17, <1>18, <1>19, <1>20, <1>21, <1>22, <1>23 DEF IInv

(* A list whose last block now reads as zeros, as a list.                  *)
LEMMA ZeroedTail ==
    ASSUME TypeInv, ChainInv, LinkInv, FillInv, UseInv, pc = "zero_tail",
           UNCHANGED <<chain, held>>, Unzeroed' = {},
           disk' = [disk EXCEPT ![cand] = ZeroBlock]
    PROVE  /\ ListBlocks' = ListBlocks /\ Readable' = ListBlocks
           /\ FreeSet' = FreeSet
           /\ LinkInv' /\ FillInv'
           /\ NoDoubleUse'
           /\ disk'[chain[1]] = disk[chain[1]]
<1> DEFINE n == Len(chain)
<1>1. /\ n \in Nat /\ n > 1 /\ cand = chain[n] /\ cand \in DataBlocks
      /\ \A i \in 1 .. n : chain[i] \in DataBlocks
      /\ ListBlocks = {chain[i] : i \in 1 .. n} /\ ListBlocks \subseteq DataBlocks
      /\ \A i, j \in 1 .. n : chain[i] = chain[j] => i = j
  BY TypeFacts DEF ChainInv, LastOfChain, Moving
<1>2. Unzeroed = {cand} /\ Readable = ListBlocks \ {cand}
  BY DEF Unzeroed, Readable
<1>3. ListBlocks' = ListBlocks /\ Readable' = ListBlocks
  BY DEF ListBlocks, Readable
<1>4. /\ \A c \in DataBlocks : c # cand => disk'[c] = disk[c]
      /\ disk'[cand] = ZeroBlock
  BY <1>1 DEF TypeInv, TypeOK
<1>5. /\ ZeroBlock.next = 0 /\ \A s \in Slots : ZeroBlock.data[s] = 0
      /\ 0 \notin DataBlocks
  BY ConstantFacts
<1>6. cand \in ListBlocks
  BY <1>1
<1>7. FreeSet' = FreeSet
  <2>1. ASSUME NEW b \in FreeSet' PROVE b \in FreeSet
    <3>1. CASE b \in ListBlocks
      BY <3>1 DEF FreeSet
    <3>2. CASE b \notin ListBlocks
      <4>1. PICK c \in ListBlocks, s \in Slots : disk'[c].data[s] # 0 /\ disk'[c].data[s] = b
        BY <3>2, <2>1, <1>3 DEF FreeSet
      <4>2. c # cand
        BY <4>1, <1>4, <1>5
      <4>3. c \in Readable /\ disk[c].data[s] # 0 /\ disk[c].data[s] = b
        BY <4>1, <4>2, <1>1, <1>2, <1>4
      <4> QED
        BY <4>3, FreeChar
    <3> QED
      BY <3>1, <3>2
  <2>2. ASSUME NEW b \in FreeSet PROVE b \in FreeSet'
    <3>1. CASE b \in ListBlocks
      BY <3>1, <1>3 DEF FreeSet
    <3>2. CASE b \notin ListBlocks
      <4>1. PICK c \in Readable, s \in Slots : disk[c].data[s] # 0 /\ disk[c].data[s] = b
        BY <3>2, <2>2, FreeChar
      <4>2. c \in Readable' /\ disk'[c].data[s] = b /\ b # 0
        BY <4>1, <1>1, <1>2, <1>3, <1>4
      <4> QED
        BY <4>2 DEF FreeSet
    <3> QED
      BY <3>1, <3>2
  <2> QED
    BY <2>1, <2>2
<1>8. LinkInv'
  <2>1. ASSUME NEW i \in 1 .. n PROVE disk'[chain[i]].next = NextInChain(i)
    <3>1. CASE i = n
      BY <3>1, <1>1, <1>4, <1>5 DEF NextInChain
    <3>2. CASE i # n
      <4>1. chain[i] # cand
        BY <3>2, <1>1
      <4> QED
        BY <4>1, <1>1, <1>2, <1>4 DEF LinkInv
    <3> QED
      BY <3>1, <3>2
  <2> QED
    BY <2>1 DEF LinkInv, NextInChain
<1>9. disk'[chain[1]] = disk[chain[1]]
  <2>1. 1 \in 1 .. n /\ n \in 1 .. n /\ 1 # n
    BY <1>1
  <2> QED
    BY <2>1, <1>1, <1>4
<1>10. FillInv'
  <2>1. ASSUME NEW i \in 2 .. n
        PROVE  FilledAbove(disk'[chain[i]], NoSlot) \/ FilledAbove(disk'[chain[i]], E - 1)
    <3>1. CASE i = n
      <4>1. \A s \in Slots : ~(s > E - 1)
        BY ConstantFacts DEF Slots
      <4> QED
        BY <4>1, <3>1, <1>1, <1>4, <1>5 DEF FilledAbove
    <3>2. CASE i # n
      <4>1. i \in 1 .. n /\ chain[i] # cand
        BY <3>2, <1>1
      <4>2. disk'[chain[i]] = disk[chain[i]]
        BY <4>1, <1>1, <1>4
      <4> QED
        BY <4>1, <4>2, <1>2 DEF FillInv, FilledAbove
    <3> QED
      BY <3>1, <3>2
  <2>2. \E k \in Slots \union {NoSlot} : FilledAbove(disk'[chain[1]], k)
    BY <1>9 DEF FillInv, FilledAbove
  <2> QED
    BY <2>1, <2>2 DEF FillInv, FilledAbove
<1>11. NoDoubleUse'
  <2>1. \A c \in ListBlocks, s \in Slots :
            disk'[c].data[s] # 0 => c \in Readable /\ disk'[c].data[s] = disk[c].data[s]
    BY <1>1, <1>2, <1>4, <1>5
  <2>2. \A b, c \in ListBlocks, s, t \in Slots :
            disk'[b].data[s] # 0 /\ disk'[b].data[s] = disk'[c].data[t] => b = c /\ s = t
    BY <2>1 DEF UseInv, NoDoubleUse
  <2>3. \A b \in ListBlocks, s \in Slots :
            disk'[b].data[s] # 0 => disk'[b].data[s] \in DataBlocks \ ListBlocks
    BY <2>1 DEF UseInv, NoDoubleUse
  <2> QED
    BY <2>2, <2>3, <1>3, <1>7 DEF UseInv, NoDoubleUse
<1> QED
  BY <1>3, <1>7, <1>8, <1>9, <1>10, <1>11

(* The new tail is zeroed, and the append done.                            *)
LEMMA ZeroTailStep ==
    ASSUME IInv, ZeroTail
    PROVE  IInv' /\ FreeSet' = FreeSet
<1>0. /\ TypeInv /\ ChainInv /\ LinkInv /\ FillInv /\ HeadInv /\ SlotInv
      /\ TailInv /\ UseInv /\ CountInv /\ ZeroInv /\ pc = "zero_tail"
  BY DEF IInv, ZeroTail
<1>1. cand \in DataBlocks /\ cand \in ListBlocks /\ cand = LastOfChain
  BY <1>0, TypeFacts DEF ChainInv, Moving
<1>2. /\ disk' = [disk EXCEPT ![cand] = ZeroBlock]
      /\ sblock_incore' = [sblock_incore EXCEPT !.free_blocks = Plus1(@)]
      /\ pc' = "idle" /\ cand' = 0
      /\ UNCHANGED <<sb, list_head_blkidx, list_head, next_freeslot, tail_idx,
                     held, chain, crashes, unmounts>>
  BY <1>1 DEF ZeroTail, WriteBlock, ghosts
<1>3. Unzeroed' = {} /\ InFlight = {} /\ InFlight' = {}
  BY <1>0, <1>2 DEF Unzeroed, InFlight
<1>4. /\ ListBlocks' = ListBlocks /\ FreeSet' = FreeSet
      /\ LinkInv' /\ FillInv' /\ NoDoubleUse' /\ disk'[chain[1]] = disk[chain[1]]
  BY <1>0, <1>2, <1>3, ZeroedTail
<1>5. TypeInv'
  <2>1. sblock_incore' \in [flist_head : Words, free_blocks : 0 .. SizeModulus - 1]
    BY <1>0, <1>2, CounterType DEF TypeInv, TypeOK
  <2> QED
    BY <2>1, <1>0, <1>1, <1>2, ConstantFacts DEF TypeInv, TypeOK
<1>6. ChainInv'
  BY <1>0, <1>2 DEF ChainInv, Moving
<1>7. HeadInv'
  BY <1>0, <1>2, <1>4 DEF HeadInv, TypeInv, TypeOK
<1>8. SlotInv' /\ TailInv'
  BY <1>0, <1>2 DEF SlotInv, FilledAbove, TailInv, LastOfChain
<1>9. UseInv'
  BY <1>3, <1>4 DEF UseInv
<1>10. CountInv'
  <2>1. Accounted \subseteq Accounted'
    BY <1>2, <1>3, <1>4 DEF Accounted
  <2> QED
    BY <2>1, <1>0, <1>2, NothingLost DEF CountInv, TypeInv, TypeOK
<1>11. ZeroInv'
  BY <1>0, <1>1, <1>2 DEF ZeroInv, CallersBlocks, TypeInv, TypeOK
<1> QED
  BY <1>4, <1>5, <1>6, <1>7, <1>8, <1>9, <1>10, <1>11 DEF IInv

-----------------------------------------------------------------------------
(* Callers, and the end and the start of a process.                        *)
LEMMA ClientWriteStep ==
    ASSUME SafeUse, IInv, NEW b, NEW p \in Payloads, ClientWrite(b, p)
    PROVE  IInv' /\ FreeSet' = FreeSet
<1>0. /\ TypeInv /\ ChainInv /\ LinkInv /\ FillInv /\ HeadInv /\ SlotInv
      /\ TailInv /\ UseInv /\ CountInv /\ ZeroInv /\ pc = "idle" /\ b \in held
  BY DEF IInv, ClientWrite, Idle
<1>1. /\ disk' = [disk EXCEPT ![b] = p] /\ p \in Block /\ b \in DataBlocks
      /\ UNCHANGED <<sb, sblock_incore, list_head_blkidx, list_head, next_freeslot,
                     tail_idx, pc, cand, held, chain, crashes, unmounts>>
  BY <1>0, ContentAssumption DEF ClientWrite, core, ghosts, TypeInv, TypeOK
<1>2. b \notin ListBlocks
  BY <1>0 DEF UseInv, NoDoubleUse, FreeSet
<1>3. UNCHANGED Unzeroed /\ InFlight = {} /\ InFlight' = {}
  BY <1>0, <1>1 DEF Unzeroed, InFlight
<1>4. \A c \in ListBlocks : disk'[c] = disk[c]
  BY <1>0, <1>1, <1>2, TypeFacts DEF TypeInv, TypeOK
<1>5. /\ FreeSet' = FreeSet /\ LinkInv' /\ FillInv'
      /\ ListBlocks' = ListBlocks /\ Readable' = Readable
      /\ \A c, d \in Readable', q, t \in Slots :
             disk'[c].data[q] # 0 /\ disk'[c].data[q] = disk'[d].data[t]
                 => c = d /\ q = t
      /\ \A c \in Readable', q \in Slots :
             disk'[c].data[q] # 0 => disk'[c].data[q] \in DataBlocks \ ListBlocks'
  BY <1>0, <1>1, <1>3, <1>4, OffList DEF UseInv
<1>6. TypeInv'
  BY <1>0, <1>1 DEF TypeInv, TypeOK
<1>7. ChainInv'
  BY <1>0, <1>1 DEF ChainInv, LastOfChain
<1>8. HeadInv'
  BY <1>0, <1>1, <1>4, TypeFacts DEF HeadInv
<1>9. SlotInv' /\ TailInv'
  BY <1>0, <1>1 DEF SlotInv, FilledAbove, TailInv, LastOfChain
<1>10. UseInv'
  BY <1>0, <1>1, <1>3, <1>5 DEF UseInv, NoDoubleUse
<1>11. CountInv'
  <2>1. Accounted \subseteq Accounted'
    BY <1>1, <1>3, <1>5 DEF Accounted
  <2> QED
    BY <2>1, <1>0, <1>1, NothingLost DEF CountInv, TypeInv, TypeOK
<1>12. ZeroInv'
  BY <1>0, <1>1 DEF ZeroInv, CallersBlocks, TypeInv, TypeOK, SafeUse
<1> QED
  BY <1>5, <1>6, <1>7, <1>8, <1>9, <1>10, <1>11, <1>12 DEF IInv

(* The end of a process leaves a sound list on disk, whatever the write    *)
(* it interrupts, and loses no block but the one in flight.                *)
LEMMA StopStep ==
    ASSUME IInv, Stop, pc # "down",
           pc = "zero_tail" => MaxCrashes # 0,
           crashes' \in 0 .. MaxCrashes, unmounts' \in 0 .. MaxUnmounts,
           crashes' = crashes + (IF pc = "idle" THEN 0 ELSE 1)
    PROVE  IInv' /\ FreeSet' = FreeSet
<1>0. /\ TypeInv /\ ChainInv /\ LinkInv /\ FillInv /\ HeadInv /\ SlotInv
      /\ TailInv /\ UseInv /\ CountInv /\ ZeroInv
  BY DEF IInv
<1>1. /\ pc' = "down" /\ cand' = 0
      /\ sblock_incore' = [flist_head |-> 0, free_blocks |-> 0]
      /\ list_head_blkidx' = 0 /\ list_head' = ZeroBlock
      /\ next_freeslot' = 0 /\ tail_idx' = 0
      /\ UNCHANGED <<disk, sb, held, chain>>
  BY DEF Stop
<1>2. Unzeroed' = {} /\ InFlight' = {} /\ ListBlocks' = ListBlocks
  BY <1>1 DEF Unzeroed, InFlight, ListBlocks
<1>3. /\ FreeSet' = FreeSet /\ LinkInv' /\ FillInv' /\ NoDoubleUse'
  <2>1. CASE pc = "zero_tail"
    <3>1. cand \in DataBlocks /\ disk[cand] = ZeroBlock
      BY <2>1, <1>0 DEF ZeroInv, CallersBlocks, ChainInv, Moving
    <3>2. disk' = [disk EXCEPT ![cand] = ZeroBlock]
      BY <3>1, <1>0, <1>1 DEF TypeInv, TypeOK
    <3> QED
      BY <2>1, <3>2, <1>0, <1>1, <1>2, ZeroedTail
  <2>2. CASE pc # "zero_tail"
    <3>1. UNCHANGED Unzeroed
      BY <2>2, <1>2 DEF Unzeroed
    <3>2. \A b \in ListBlocks : disk'[b] = disk[b]
      BY <1>1
    <3> QED
      BY <3>1, <3>2, <1>0, <1>1, OffList DEF UseInv, NoDoubleUse
  <2> QED
    BY <2>1, <2>2
<1>4. TypeInv'
  BY <1>0, <1>1, BoundAssumption, DeviceAssumption, ConstantFacts DEF TypeInv, TypeOK
<1>5. ChainInv'
  BY <1>0, <1>1 DEF ChainInv, Moving
<1>6. HeadInv'
  BY <1>0, <1>1 DEF HeadInv
<1>7. SlotInv' /\ TailInv'
  BY <1>1 DEF SlotInv, TailInv
<1>8. UseInv'
  BY <1>2, <1>3 DEF UseInv
<1>9. CountInv'
  <2>1. Cardinality(held') <= HeldLimit
    BY <1>0, <1>1 DEF CountInv
  <2>2. LeakBound'
    <3>1. CASE InFlight = {}
      <4>1. Accounted \subseteq Accounted'
        BY <3>1, <1>1, <1>2, <1>3 DEF Accounted
      <4>2. crashes <= crashes' /\ crashes \in Nat /\ crashes' \in Nat
        BY <1>0 DEF TypeInv, TypeOK
      <4> QED
        BY <4>1, <4>2, <1>0, LossBound DEF CountInv
    <3>2. CASE InFlight # {}
      <4>1. pc \in {"pop_head", "seek_tail", "link_tail"} /\ InFlight = {cand}
        BY <3>2 DEF InFlight
      <4>2. crashes' = crashes + 1
        BY <4>1
      <4>3. Accounted \subseteq Accounted' \union {cand}
        BY <4>1, <1>1, <1>2, <1>3 DEF Accounted
      <4>4. LeakBound /\ crashes \in Nat
        BY <1>0 DEF CountInv, TypeInv, TypeOK
      <4> QED
        BY <4>2, <4>3, <4>4, LossOfOne
    <3> QED
      BY <3>1, <3>2
  <2> QED
    BY <2>1, <2>2, <1>1 DEF CountInv
<1>10. ZeroInv'
  BY <1>0, <1>1 DEF ZeroInv, CallersBlocks
<1> QED
  BY <1>3, <1>4, <1>5, <1>6, <1>7, <1>8, <1>9, <1>10 DEF IInv

(* A mount reads back what the disk says.                                  *)
LEMMA MountStep ==
    ASSUME IInv, Mount
    PROVE  IInv' /\ FreeSet' = FreeSet
<1>0. /\ TypeInv /\ ChainInv /\ LinkInv /\ FillInv /\ HeadInv /\ SlotInv
      /\ TailInv /\ UseInv /\ CountInv /\ ZeroInv /\ pc = "down"
  BY DEF IInv, Mount
<1> DEFINE h == chain[1]
<1>1. h \in DataBlocks /\ sb.flist_head = h /\ disk[h] \in Block
  BY <1>0, TypeFacts DEF HeadInv
<1>2. /\ sblock_incore' = sb /\ list_head_blkidx' = h /\ list_head' = disk[h]
      /\ next_freeslot' = ScanSlot(disk[h]) /\ pc' = "idle"
      /\ UNCHANGED <<disk, sb, tail_idx, cand, held, chain, crashes, unmounts>>
  BY <1>1 DEF Mount, ReadBlock, ghosts
<1>3. /\ UNCHANGED Unzeroed /\ Unzeroed = {} /\ InFlight = {} /\ InFlight' = {}
      /\ ListBlocks' = ListBlocks /\ Readable' = Readable
  BY <1>0, <1>2 DEF Unzeroed, InFlight, ListBlocks, Readable
<1>4. FreeSet' = FreeSet
  BY <1>2, <1>3 DEF FreeSet
<1>5. ScanSlot(disk[h]) \in Slots \union {NoSlot} /\ FilledAbove(disk[h], ScanSlot(disk[h]))
  BY <1>0, ScanFinds DEF FillInv
<1>6. TypeInv'
  BY <1>0, <1>1, <1>2, <1>5, ConstantFacts DEF TypeInv, TypeOK
<1>7. ChainInv'
  BY <1>0, <1>2 DEF ChainInv, Moving
<1>8. LinkInv' /\ FillInv'
  BY <1>0, <1>2, <1>3 DEF LinkInv, FillInv, NextInChain, FilledAbove
<1>9. HeadInv'
  BY <1>0, <1>1, <1>2 DEF HeadInv
<1>10. SlotInv'
  BY <1>2, <1>5 DEF SlotInv, FilledAbove
<1>11. TailInv'
  BY <1>0, <1>2 DEF TailInv
<1>12. UseInv'
  BY <1>0, <1>2, <1>3, <1>4 DEF UseInv, NoDoubleUse
<1>13. CountInv'
  <2>1. Accounted \subseteq Accounted'
    BY <1>2, <1>3, <1>4 DEF Accounted
  <2> QED
    BY <2>1, <1>0, <1>2, NothingLost DEF CountInv, TypeInv, TypeOK
<1>14. ZeroInv'
  BY <1>0, <1>2 DEF ZeroInv, CallersBlocks
<1> QED
  BY <1>4, <1>6, <1>7, <1>8, <1>9, <1>10, <1>11, <1>12, <1>13, <1>14 DEF IInv

-----------------------------------------------------------------------------
(* The image mkfs leaves: FreeList_create puts every data block into the   *)
(* list, as a list block or as an entry of exactly one.                    *)
LEMMA Division ==
    ASSUME NEW a \in Nat, NEW k \in Nat, k > 0
    PROVE  /\ a \div k \in Nat /\ a % k \in 0 .. k - 1
           /\ a = (a \div k) * k + (a % k)
  OBVIOUS

(* A quotient is known from its remainder.                                 *)
LEMMA DivisionUnique ==
    ASSUME NEW q \in Nat, NEW r \in Nat, NEW k \in Nat, r < k
    PROVE  (q * k + r) \div k = q
  OBVIOUS

(* A number has one quotient and one remainder.                            *)
LEMMA DigitsUnique ==
    ASSUME NEW p \in Nat, NEW q \in Nat, NEW r \in Nat, NEW s \in Nat, NEW k \in Nat,
           r < k, s < k, p * k + r = q * k + s
    PROVE  p = q /\ r = s
<1>1. p = q
  BY DivisionUnique
<1> QED
  BY <1>1

(* The coordinates of a block: number the blocks from Origin in rows of    *)
(* E + 1, one row for each list block; the row of the first list block     *)
(* misses the blocks its empty slots would name.                           *)
Origin == First - StartIdx
Row == E + 1
Rows == InTheList \div Row

(* The division in FreeList_create, when it leaves a remainder.            *)
LEMMA LayoutFacts ==
    ASSUME SafeUse
    PROVE  /\ Row \in Nat /\ Row > 0 /\ Row = E + 1 /\ E \in Nat
           /\ InTheList \in Nat /\ Rows \in Nat
           /\ Leftover \in 1 .. E /\ StartIdx \in Slots /\ StartIdx = E - Leftover
           /\ InTheList = Rows * Row + Leftover
           /\ NFreeListBlocks = Rows + 1
           /\ Origin \in Int /\ Origin = First - StartIdx
           /\ NumBlocks = Origin + Rows * Row + Row
<1>1. E \in Nat /\ E >= 2 /\ First \in Nat /\ NumBlocks \in Nat /\ First < NumBlocks
  BY ConstantFacts, DeviceAssumption
<1>2. Row \in Nat /\ Row > 0 /\ InTheList \in Nat
  BY <1>1 DEF Row, InTheList
<1>3. Rows \in Nat /\ Leftover \in 0 .. Row - 1 /\ InTheList = Rows * Row + Leftover
  BY <1>2, Division DEF Rows, Leftover, Row
<1>4. Leftover \in 1 .. E
  BY <1>1, <1>3 DEF SafeUse, Row
<1>5. StartIdx \in Slots /\ StartIdx = E - Leftover /\ Origin \in Int
  BY <1>1, <1>4 DEF StartIdx, Slots, Origin
<1>6. NFreeListBlocks = Rows + 1
  <2>1. InTheList + E = (Rows + 1) * Row + (Leftover - 1)
    BY <1>1, <1>2, <1>3, <1>4 DEF Row
  <2>2. Rows + 1 \in Nat /\ Leftover - 1 \in Nat /\ Leftover - 1 < Row
    BY <1>1, <1>2, <1>3, <1>4 DEF Row
  <2>3. (InTheList + E) \div Row = Rows + 1
    BY <2>1, <2>2, <1>2, DivisionUnique
  <2> QED
    BY <2>3 DEF NFreeListBlocks, Row
<1>7. NumBlocks = Origin + Rows * Row + Row
  <2>1. Rows * Row \in Nat
    BY <1>2, <1>3
  <2>2. NumBlocks = First + 1 + Rows * Row + Leftover
    BY <1>1, <1>3, <1>4, <2>1 DEF InTheList
  <2> QED
    BY <2>1, <2>2, <1>1, <1>4, <1>5 DEF Origin, Row
<1> QED
  BY <1>1, <1>2, <1>3, <1>4, <1>5, <1>6, <1>7 DEF Row, Origin

(* The row of a list block, and that each has its own.                     *)
LEMMA LinkPlaces ==
    ASSUME SafeUse
    PROVE  /\ \A i \in 1 .. Rows + 1 :
                  /\ (i - 1) * Row \in Nat
                  /\ LinkAt(i) = Origin + (i - 1) * Row + (IF i = 1 THEN StartIdx ELSE 0)
                  /\ LinkAt(i) \in DataBlocks
                  /\ i # 1 => LinkAt(i) # First
           /\ LinkAt(1) = First
           /\ \A i, j \in 1 .. Rows + 1 : LinkAt(i) = LinkAt(j) => i = j
<1>0. /\ Row \in Nat /\ Row > 0 /\ Row = E + 1 /\ E \in Nat /\ Rows \in Nat
      /\ Leftover \in 1 .. E /\ StartIdx = E - Leftover /\ StartIdx \in Nat /\ StartIdx < Row
      /\ Origin \in Int /\ Origin = First - StartIdx /\ First \in Nat /\ NumBlocks \in Nat
      /\ NumBlocks = Origin + Rows * Row + Row
  BY LayoutFacts, ConstantFacts DEF Slots
<1>1. LinkAt(1) = First
  BY DEF LinkAt
<1>2. ASSUME NEW i \in 1 .. Rows + 1
      PROVE  /\ (i - 1) * Row \in Nat
             /\ LinkAt(i) = Origin + (i - 1) * Row + (IF i = 1 THEN StartIdx ELSE 0)
             /\ LinkAt(i) \in DataBlocks
             /\ i # 1 => LinkAt(i) # First
  <2>1. i - 1 \in Nat /\ i - 1 <= Rows /\ i \in Int
    BY <1>0
  <2>2. (i - 1) * Row \in Nat /\ (i - 1) * Row <= Rows * Row
    BY <2>1, <1>0
  <2>3. CASE i = 1
    <3>1. (i - 1) * Row = 0
      BY <2>3, <1>0
    <3>2. First \in DataBlocks
      BY DeviceAssumption, ConstantFacts DEF DataBlocks
    <3> QED
      BY <2>2, <2>3, <3>1, <3>2, <1>0, <1>1
  <2>4. CASE i # 1
    <3>1. (i - 2) * Row = (i - 1) * Row - Row
      BY <2>1, <1>0
    <3>2. LinkAt(i) = First + Leftover + 1 + (i - 2) * Row
      BY <2>4 DEF LinkAt, Row
    <3>3. LinkAt(i) = Origin + (i - 1) * Row
      BY <3>1, <3>2, <2>2, <1>0
    <3>4. (i - 1) * Row >= Row
      BY <2>1, <2>4, <1>0
    <3>5. LinkAt(i) > First /\ LinkAt(i) < NumBlocks /\ LinkAt(i) \in Int
      BY <3>3, <3>4, <2>2, <1>0
    <3> QED
      BY <3>3, <3>5, <2>2, <2>4, <1>0 DEF DataBlocks
  <2> QED
    BY <2>3, <2>4
<1>3. ASSUME NEW i \in 1 .. Rows + 1, NEW j \in 1 .. Rows + 1, LinkAt(i) = LinkAt(j)
      PROVE  i = j
  <2>1. i - 1 \in Nat /\ j - 1 \in Nat
    BY <1>0
  <2> DEFINE r(x) == IF x = 1 THEN StartIdx ELSE 0
  <2>2. r(i) \in Nat /\ r(j) \in Nat /\ r(i) < Row /\ r(j) < Row
    BY <1>0
  <2>3. (i - 1) * Row + r(i) = (j - 1) * Row + r(j)
    <3>1. /\ LinkAt(i) = Origin + (i - 1) * Row + r(i) /\ (i - 1) * Row \in Nat
          /\ LinkAt(j) = Origin + (j - 1) * Row + r(j) /\ (j - 1) * Row \in Nat
      BY <1>2
    <3> HIDE DEF r
    <3> QED
      BY <3>1, <2>2, <1>0, <1>3
  <2> HIDE DEF r
  <2>4. i - 1 = j - 1
    BY <2>1, <2>2, <2>3, <1>0, DigitsUnique
  <2> QED
    BY <2>4
<1> QED
  BY <1>1, <1>2, <1>3

(* List block i names the rest of its row; together the rows hold every    *)
(* data block exactly once.                                                *)
EntryAt(i, s) == Origin + (i - 1) * Row + (s + 1)
Used(i, s) == i # 1 \/ s >= StartIdx

(* The entries and the list blocks are all different and cover the device. *)
LEMMA EntryPlaces ==
    ASSUME SafeUse
    PROVE  /\ \A i \in 1 .. Rows + 1, s \in Slots : Used(i, s) =>
                  /\ EntryAt(i, s) \in DataBlocks
                  /\ \A j \in 1 .. Rows + 1 : LinkAt(j) # EntryAt(i, s)
           /\ \A i, j \in 1 .. Rows + 1, s, t \in Slots :
                  EntryAt(i, s) = EntryAt(j, t) => i = j /\ s = t
           /\ \A b \in DataBlocks : \E i \in 1 .. Rows + 1 :
                  \/ b = LinkAt(i)
                  \/ \E s \in Slots : Used(i, s) /\ b = EntryAt(i, s)
<1>0. /\ Row \in Nat /\ Row > 0 /\ Row = E + 1 /\ E \in Nat /\ Rows \in Nat
      /\ StartIdx \in Nat /\ StartIdx < Row /\ Rows + 1 \in Nat
      /\ Origin \in Int /\ Origin = First - StartIdx /\ First \in Nat /\ NumBlocks \in Nat
      /\ NumBlocks = Origin + Rows * Row + Row
      /\ \A s \in Slots : s \in Nat /\ s < E /\ s + 1 \in Nat /\ s + 1 < Row
      /\ \A i \in 1 .. Rows + 1 : i - 1 \in Nat /\ i - 1 <= Rows
      /\ \A i \in 1 .. Rows + 1 : (i - 1) * Row \in Nat
  <2>1. \A s \in Slots : s \in Nat /\ s < E /\ s + 1 \in Nat
    BY ConstantFacts DEF Slots
  <2>2. \A i \in 1 .. Rows + 1 : i - 1 \in Nat /\ i - 1 <= Rows
    BY LayoutFacts
  <2> QED
    BY <2>1, <2>2, LayoutFacts, LinkPlaces, ConstantFacts
<1> DEFINE r(i) == IF i = 1 THEN StartIdx ELSE 0
<1>1. \A i \in 1 .. Rows + 1 : /\ r(i) \in Nat /\ r(i) < Row
                               /\ LinkAt(i) = Origin + (i - 1) * Row + r(i)
  BY <1>0, LinkPlaces
<1>2. ASSUME NEW i \in 1 .. Rows + 1, NEW s \in Slots, Used(i, s)
      PROVE  EntryAt(i, s) \in DataBlocks
  <2>1. (i - 1) * Row <= Rows * Row /\ Rows * Row \in Nat
    BY <1>0
  <2>2. (i - 1) * Row + (s + 1) < Rows * Row + Row
    BY <2>1, <1>0
  <2>3. (i - 1) * Row + (s + 1) >= StartIdx
    <3>1. CASE i = 1
      BY <3>1, <1>0, <1>2 DEF Used
    <3>2. CASE i # 1
      <4>1. (i - 1) * Row >= Row
        BY <3>2, <1>0
      <4> QED
        BY <4>1, <1>0
    <3> QED
      BY <3>1, <3>2
  <2> QED
    BY <2>1, <2>2, <2>3, <1>0 DEF EntryAt, DataBlocks
<1>3. ASSUME NEW i \in 1 .. Rows + 1, NEW s \in Slots, NEW j \in 1 .. Rows + 1,
             Used(i, s), LinkAt(j) = EntryAt(i, s)
      PROVE  FALSE
  <2> HIDE DEF r
  <2>1. (j - 1) * Row + r(j) = (i - 1) * Row + (s + 1)
    BY <1>0, <1>1, <1>3 DEF EntryAt
  <2>2. i - 1 = j - 1 /\ s + 1 = r(j)
    <3>1. /\ i - 1 \in Nat /\ j - 1 \in Nat /\ r(j) \in Nat /\ r(j) < Row
          /\ s + 1 \in Nat /\ s + 1 < Row /\ Row \in Nat
      BY <1>0, <1>1
    <3> QED
      BY ONLY <2>1, <3>1, DigitsUnique
  <2>3. i = j /\ s + 1 = r(i)
    BY <2>2, <1>0
  <2> QED
    BY <2>3, <1>0, <1>3 DEF Used, r
<1>4. ASSUME NEW i \in 1 .. Rows + 1, NEW j \in 1 .. Rows + 1, NEW s \in Slots,
             NEW t \in Slots, EntryAt(i, s) = EntryAt(j, t)
      PROVE  i = j /\ s = t
  <2>1. (i - 1) * Row + (s + 1) = (j - 1) * Row + (t + 1)
    BY <1>0, <1>4 DEF EntryAt
  <2>2. i - 1 = j - 1 /\ s + 1 = t + 1
    BY <2>1, <1>0, DigitsUnique
  <2> QED
    BY <2>2, <1>0
<1>5. ASSUME NEW b \in DataBlocks
      PROVE  \E i \in 1 .. Rows + 1 :
                 \/ b = LinkAt(i)
                 \/ \E s \in Slots : Used(i, s) /\ b = EntryAt(i, s)
  <2> DEFINE c == b - Origin
             q == c \div Row
             m == c % Row
             i == q + 1
  <2>1. c \in Nat /\ c >= StartIdx /\ c < Rows * Row + Row /\ b = Origin + c
    BY <1>0 DEF DataBlocks
  <2>2. q \in Nat /\ m \in 0 .. Row - 1 /\ c = q * Row + m
    <3> HIDE DEF c
    <3> QED
      BY <2>1, <1>0, Division
  <2> HIDE DEF c, q, m
  <2>3. q <= Rows
    <3>1. SUFFICES ASSUME q >= Rows + 1 PROVE FALSE
      BY <2>2, <1>0
    <3>2. q * Row >= (Rows + 1) * Row /\ q * Row \in Nat
      BY <3>1, <2>2, <1>0
    <3>3. (Rows + 1) * Row = Rows * Row + Row
      BY <1>0
    <3> QED
      BY <3>2, <3>3, <2>1, <2>2, <1>0
  <2>4. i \in 1 .. Rows + 1 /\ i - 1 = q
    BY <2>2, <2>3, <1>0
  <2>5. b = Origin + (i - 1) * Row + m /\ m \in Nat /\ m < Row
    BY <2>1, <2>2, <2>4, <1>0
  <2>6. CASE m = r(i)
    BY <2>4, <2>5, <2>6, <1>1
  <2>7. CASE m # r(i)
    <3>1. m > 0 /\ (i = 1 => m > StartIdx)
      <4>1. CASE i = 1
        <5>1. q = 0 /\ q * Row = 0
          BY <4>1, <2>4, <1>0
        <5> QED
          BY <5>1, <4>1, <2>1, <2>2, <2>7, <1>0
      <4>2. CASE i # 1
        BY <4>2, <2>5, <2>7
      <4> QED
        BY <4>1, <4>2
    <3>2. m - 1 \in Slots /\ (m - 1) + 1 = m
      BY <3>1, <2>5, <1>0 DEF Slots
    <3>3. Used(i, m - 1)
      BY <3>1, <2>5, <1>0 DEF Used
    <3>4. b = EntryAt(i, m - 1)
      BY <3>2, <2>5 DEF EntryAt
    <3> QED
      BY <2>4, <3>2, <3>3, <3>4
  <2> QED
    BY <2>6, <2>7
<1> QED
  BY <1>2, <1>3, <1>4, <1>5

(* The blocks on the device after FreeList_create.                         *)
LEMMA CreatedList ==
    ASSUME SafeUse, Init
    PROVE  /\ chain \in Seq(DataBlocks) /\ Len(chain) = Rows + 1
           /\ \A i \in 1 .. Rows + 1 : chain[i] = LinkAt(i)
           /\ ListBlocks = {LinkAt(i) : i \in 1 .. Rows + 1}
           /\ \A i \in 1 .. Rows + 1 :
                  /\ disk[LinkAt(i)].next = IF i = Rows + 1 THEN 0 ELSE LinkAt(i + 1)
                  /\ \A s \in Slots : disk[LinkAt(i)].data[s] =
                                          IF Used(i, s) THEN EntryAt(i, s) ELSE 0
           /\ disk \in [DataBlocks -> Block]
<1>0. /\ Row \in Nat /\ Row > 0 /\ Row = E + 1 /\ E \in Nat /\ Rows \in Nat
      /\ Leftover \in 1 .. E /\ StartIdx = E - Leftover /\ StartIdx \in Nat /\ StartIdx < Row
      /\ Origin \in Int /\ Origin = First - StartIdx /\ First \in Nat /\ NumBlocks \in Nat
      /\ NumBlocks = Origin + Rows * Row + Row
      /\ NFreeListBlocks = Rows + 1 /\ Rows = InTheList \div (E + 1)
      /\ \A s \in Slots : s \in Nat /\ s < E
  BY LayoutFacts, ConstantFacts DEF Slots, Rows, Row
<1>1. PICK stale \in Payloads \union {ZeroBlock}, heap \in [Slots -> HeapWords] :
          disk = CreatedDisk(stale, heap)
  BY DEF Init
<1>2. \A s \in Slots : heap[s] = 0
  BY DEF SafeUse
<1>3. chain = [i \in 1 .. Rows + 1 |-> LinkAt(i)]
  BY <1>0 DEF Init, CreatedChain
<1>4. chain \in Seq(DataBlocks) /\ Len(chain) = Rows + 1 /\ DOMAIN chain = 1 .. Rows + 1
  <2>1. \A i \in 1 .. Rows + 1 : LinkAt(i) \in DataBlocks
    BY LinkPlaces
  <2>2. chain \in [1 .. Rows + 1 -> DataBlocks] /\ Rows + 1 \in Nat
    BY <1>0, <1>3, <2>1
  <2> QED
    BY <2>2
<1>5. ListBlocks = {LinkAt(i) : i \in 1 .. Rows + 1}
  BY <1>3, <1>4 DEF ListBlocks, Range
<1>6. ASSUME NEW i \in 1 .. Rows + 1
      PROVE  disk[LinkAt(i)] = StartingBlock(LinkAt(i), IF i = 1 THEN StartIdx ELSE 0, heap)
  BY <1>0, <1>1, LinkPlaces DEF CreatedDisk
<1>7. ASSUME NEW i \in 1 .. Rows + 1
      PROVE  disk[LinkAt(i)].next = IF i = Rows + 1 THEN 0 ELSE LinkAt(i + 1)
  <2> DEFINE f == IF i = 1 THEN StartIdx ELSE 0
             after == LinkAt(i) + (E - f) + 1
  <2>1. disk[LinkAt(i)].next = IF after >= NumBlocks THEN 0 ELSE after
    <3> HIDE DEF f
    <3>1. disk[LinkAt(i)] = StartingBlock(LinkAt(i), f, heap)
      BY <1>6 DEF f
    <3> QED
      BY <3>1 DEF StartingBlock
  <2>2. (i - 1) * Row \in Nat /\ i * Row = (i - 1) * Row + Row /\ i \in Nat
    BY <1>0, LinkPlaces
  <2>3. after = Origin + i * Row
    BY <1>0, <2>2, LinkPlaces
  <2>4. CASE i = Rows + 1
    <3>1. i * Row = Rows * Row + Row
      BY <1>0, <2>4
    <3> QED
      BY <3>1, <2>1, <2>3, <2>4, <1>0
  <2>5. CASE i # Rows + 1
    <3>1. i + 1 \in 1 .. Rows + 1 /\ i + 1 # 1 /\ (i + 1) - 1 = i
      <4> HIDE DEF after
      <4>1. i \in Nat /\ i >= 1 /\ i <= Rows + 1 /\ i # Rows + 1
        BY <2>5, <1>0
      <4>2. Rows \in Nat
        BY <1>0
      <4> QED
        BY ONLY <4>1, <4>2
    <3>2. LinkAt(i + 1) = Origin + ((i + 1) - 1) * Row /\ LinkAt(i + 1) \in DataBlocks
      BY <3>1, <1>0, LinkPlaces
    <3>3. after = LinkAt(i + 1)
      BY <3>1, <3>2, <2>3
    <3> HIDE DEF after
    <3>4. after < NumBlocks /\ after \in Int
      BY <3>2, <3>3, <1>0 DEF DataBlocks
    <3> QED
      BY <3>3, <3>4, <2>1, <2>5, <1>0
  <2> QED
    BY <2>4, <2>5
<1>8. ASSUME NEW i \in 1 .. Rows + 1, NEW s \in Slots
      PROVE  disk[LinkAt(i)].data[s] = IF Used(i, s) THEN EntryAt(i, s) ELSE 0
  <2>1. (i - 1) * Row \in Nat /\ i \in Nat /\ s \in Nat
    BY <1>0, LinkPlaces
  <2>2. LinkAt(i) = Origin + (i - 1) * Row + (IF i = 1 THEN StartIdx ELSE 0)
    BY LinkPlaces
  <2>3. CASE i = 1
    <3>1. disk[LinkAt(i)].data[s] =
              IF s < StartIdx THEN 0 ELSE LinkAt(i) + (s - StartIdx) + 1
      <4>1. disk[LinkAt(i)] = StartingBlock(LinkAt(i), StartIdx, heap)
        BY <1>6, <2>3
      <4> QED
        BY <1>2, <4>1 DEF StartingBlock
    <3> QED
      BY <3>1, <2>1, <2>2, <2>3, <1>0 DEF Used, EntryAt
  <2>4. CASE i # 1
    <3>1. disk[LinkAt(i)].data[s] = LinkAt(i) + (s - 0) + 1
      <4>1. disk[LinkAt(i)] = StartingBlock(LinkAt(i), 0, heap)
        BY <1>6, <2>4
      <4>2. ~(s < 0)
        BY <2>1
      <4> QED
        BY <4>1, <4>2 DEF StartingBlock
    <3> QED
      BY <3>1, <2>1, <2>2, <2>4, <1>0 DEF Used, EntryAt
  <2> QED
    BY <2>3, <2>4
<1>9. disk \in [DataBlocks -> Block]
  <2> DEFINE L == {LinkAt(i) : i \in 1 .. Rows + 1}
  <2>1. disk = [b \in DataBlocks |-> IF b \in L THEN disk[b] ELSE stale]
    BY <1>0, <1>1 DEF CreatedDisk
  <2>2. stale \in Block
    BY ContentAssumption, ConstantFacts
  <2>3. ASSUME NEW i \in 1 .. Rows + 1 PROVE disk[LinkAt(i)] \in Block
    <3> DEFINE b == LinkAt(i)
    <3>1. \A j \in 1 .. Rows + 1 : LinkAt(j) \in Words
      BY LinkPlaces, ConstantFacts
    <3>2. disk[b].next \in Words
      <4>1. CASE i = Rows + 1
        BY <4>1, <1>7, ConstantFacts
      <4>2. CASE i # Rows + 1
        <5>1. i + 1 \in 1 .. Rows + 1
          <6>1. i \in Nat /\ i >= 1 /\ i <= Rows + 1 /\ i # Rows + 1 /\ Rows \in Nat
            BY <4>2, <1>0
          <6> QED
            BY ONLY <6>1
        <5> QED
          BY <4>2, <5>1, <1>7, <3>1
      <4> QED
        BY <4>1, <4>2
    <3>3. ASSUME NEW s \in Slots PROVE disk[b].data[s] \in Words
      <4>1. Used(i, s) => EntryAt(i, s) \in Words
        BY EntryPlaces, ConstantFacts
      <4> QED
        BY <4>1, <1>8, ConstantFacts
    <3>4. disk[b] = [next |-> disk[b].next, data |-> disk[b].data]
          /\ disk[b].data = [s \in Slots |-> disk[b].data[s]]
      <4>1. \A f : LET x == StartingBlock(b, f, heap)
                   IN  /\ x = [next |-> x.next, data |-> x.data]
                       /\ x.data = [s \in Slots |-> x.data[s]]
        BY DEF StartingBlock
      <4> QED
        BY <4>1, <1>6
    <3>5. disk[b].data \in [Slots -> Words]
      BY <3>3, <3>4
    <3> QED
      BY <3>2, <3>4, <3>5 DEF Block
  <2> QED
    BY <2>1, <2>2, <2>3
<1> QED
  BY <1>3, <1>4, <1>5, <1>7, <1>8, <1>9

(* The image mkfs leaves satisfies the inductive invariant.                *)
LEMMA InitInv ==
    ASSUME SafeUse, Init
    PROVE  IInv
<1>0. /\ sb = [flist_head |-> First, free_blocks |-> InTheList + 1] /\ sblock_incore = sb
      /\ list_head_blkidx = First /\ list_head = disk[First]
      /\ next_freeslot = ScanSlot(disk[First])
      /\ tail_idx = 0 /\ pc = "idle" /\ cand = 0 /\ held = {} /\ crashes = 0 /\ unmounts = 0
  BY DEF Init
<1>1. /\ chain \in Seq(DataBlocks) /\ Len(chain) = Rows + 1 /\ Rows \in Nat
      /\ \A i \in 1 .. Rows + 1 : chain[i] = LinkAt(i)
      /\ ListBlocks = {LinkAt(i) : i \in 1 .. Rows + 1}
      /\ \A i \in 1 .. Rows + 1 :
             disk[LinkAt(i)].next = IF i = Rows + 1 THEN 0 ELSE LinkAt(i + 1)
      /\ \A i \in 1 .. Rows + 1, s \in Slots :
             disk[LinkAt(i)].data[s] = IF Used(i, s) THEN EntryAt(i, s) ELSE 0
      /\ disk \in [DataBlocks -> Block]
  BY CreatedList, LayoutFacts
<1>2. 1 \in 1 .. Rows + 1 /\ LinkAt(1) = First /\ chain[1] = First /\ First \in DataBlocks
  BY <1>1, LinkPlaces
<1>3. Unzeroed = {} /\ InFlight = {} /\ Readable = ListBlocks
  BY <1>0 DEF Unzeroed, InFlight, Readable
<1>4. \A i \in 1 .. Rows + 1, s \in Slots :
          /\ disk[LinkAt(i)].data[s] # 0 <=> Used(i, s)
          /\ Used(i, s) => disk[LinkAt(i)].data[s] = EntryAt(i, s)
  BY <1>1, EntryPlaces, ConstantFacts
<1>5. /\ StartIdx - 1 \in Slots \union {NoSlot}
      /\ FilledAbove(disk[First], StartIdx - 1)
  <2>1. StartIdx \in Slots /\ \A s \in Slots : s \in Nat
    BY LayoutFacts, ConstantFacts DEF Slots
  <2>2. StartIdx - 1 \in Slots \union {NoSlot}
    BY <2>1, ConstantFacts DEF Slots, NoSlot
  <2>3. \A s \in Slots : s > StartIdx - 1 <=> Used(1, s)
    BY <2>1 DEF Slots, Used
  <2> QED
    BY <2>2, <2>3, <1>2, <1>4 DEF FilledAbove
<1>6. next_freeslot = StartIdx - 1
  BY <1>0, <1>5, ScanFinds
<1>7. TypeInv
  <2>1. InTheList + 1 \in 0 .. SizeModulus - 1
    BY DeviceAssumption, BoundAssumption, ConstantFacts DEF InTheList
  <2>2. sb \in [flist_head : Words, free_blocks : 0 .. SizeModulus - 1]
    BY <2>1, <1>0, <1>2, ConstantFacts
  <2>3. list_head \in Block
    BY <1>0, <1>1, <1>2
  <2> QED
    BY <2>2, <2>3, <1>0, <1>1, <1>2, <1>5, <1>6, ConstantFacts, BoundAssumption
    DEF TypeInv, TypeOK
<1>8. ChainInv
  <2>1. chain # <<>>
    BY <1>1
  <2>2. \A i, j \in 1 .. Len(chain) : chain[i] = chain[j] => i = j
    <3>1. \A i \in 1 .. Len(chain) : i \in 1 .. Rows + 1 /\ chain[i] = LinkAt(i)
      BY <1>1
    <3> QED
      BY <3>1, LinkPlaces
  <2> QED
    BY <2>1, <2>2, <1>0 DEF ChainInv, Moving
<1>9. LinkInv
  <2>1. ASSUME NEW i \in 1 .. Len(chain) PROVE disk[chain[i]].next = NextInChain(i)
    <3>1. i \in 1 .. Rows + 1 /\ chain[i] = LinkAt(i)
      BY <1>1
    <3>2. CASE i = Rows + 1
      BY <3>1, <3>2, <1>1 DEF NextInChain
    <3>3. CASE i # Rows + 1
      <4>1. i + 1 \in 1 .. Rows + 1
        <5>1. i \in Nat /\ i >= 1 /\ i <= Rows + 1 /\ Rows \in Nat
          BY <3>1, <1>1
        <5> QED
          BY ONLY <5>1, <3>3
      <4> QED
        BY <3>1, <3>3, <4>1, <1>1 DEF NextInChain
    <3> QED
      BY <3>2, <3>3
  <2> QED
    BY <2>1 DEF LinkInv
<1>10. FillInv
  <2>1. ASSUME NEW i \in 2 .. Len(chain) PROVE FilledAbove(disk[chain[i]], NoSlot)
    <3>1. i \in 1 .. Rows + 1 /\ i # 1 /\ chain[i] = LinkAt(i)
      BY <1>1
    <3>2. \A s \in Slots : s > NoSlot
      BY ConstantFacts DEF Slots, NoSlot
    <3> QED
      BY <3>1, <3>2, <1>4 DEF FilledAbove, Used
  <2> QED
    BY <2>1, <1>2, <1>5 DEF FillInv
<1>11. HeadInv
  BY <1>0, <1>2 DEF HeadInv
<1>12. SlotInv
  BY <1>0, <1>5, <1>6 DEF SlotInv
<1>13. TailInv
  BY <1>0 DEF TailInv
<1>14. UseInv
  <2>1. \A b, c \in Readable, s, t \in Slots :
            disk[b].data[s] # 0 /\ disk[b].data[s] = disk[c].data[t] => b = c /\ s = t
    <3>1. ASSUME NEW i \in 1 .. Rows + 1, NEW j \in 1 .. Rows + 1,
                 NEW s \in Slots, NEW t \in Slots,
                 disk[LinkAt(i)].data[s] # 0,
                 disk[LinkAt(i)].data[s] = disk[LinkAt(j)].data[t]
          PROVE  i = j /\ s = t
      <4>1. disk[LinkAt(i)].data[s] = EntryAt(i, s)
        BY <3>1, <1>4
      <4>2. disk[LinkAt(j)].data[t] = EntryAt(j, t)
        BY <3>1, <1>4
      <4>3. EntryAt(i, s) = EntryAt(j, t)
        BY <3>1, <4>1, <4>2
      <4> QED
        BY <4>3, EntryPlaces
    <3> QED
      BY <3>1, <1>1, <1>3
  <2>2. \A b \in Readable, s \in Slots :
            disk[b].data[s] # 0 => disk[b].data[s] \in DataBlocks \ ListBlocks
    <3>1. \A i \in 1 .. Rows + 1, s \in Slots : Used(i, s) =>
              EntryAt(i, s) \in DataBlocks \ ListBlocks
      BY <1>1, EntryPlaces
    <3> QED
      BY <3>1, <1>1, <1>3, <1>4
  <2> QED
    BY <2>1, <2>2, <1>0, <1>3 DEF UseInv, NoDoubleUse
<1>15. CountInv
  <2>1. DataBlocks \subseteq FreeSet
    <3> SUFFICES ASSUME NEW b \in DataBlocks PROVE b \in FreeSet
      OBVIOUS
    <3>1. PICK i \in 1 .. Rows + 1 :
              \/ b = LinkAt(i)
              \/ \E s \in Slots : Used(i, s) /\ b = EntryAt(i, s)
      BY EntryPlaces
    <3>2. LinkAt(i) \in ListBlocks
      BY <1>1
    <3>3. CASE b = LinkAt(i)
      BY <3>2, <3>3, FreeChar
    <3>4. CASE \E s \in Slots : Used(i, s) /\ b = EntryAt(i, s)
      <4>1. PICK s \in Slots : Used(i, s) /\ b = EntryAt(i, s)
        BY <3>4
      <4>2. disk[LinkAt(i)].data[s] # 0 /\ disk[LinkAt(i)].data[s] = b
        BY <4>1, <1>4
      <4> QED
        BY <3>2, <4>2, <1>3, FreeChar
    <3> QED
      BY <3>1, <3>3, <3>4
  <2>2. DataBlocks \ (held \union FreeSet \union InFlight) = {}
    BY <2>1
  <2>3. Cardinality({}) = 0
    BY FS_EmptySet
  <2> QED
    BY <2>2, <2>3, <1>0, BoundAssumption DEF CountInv, LeakBound
<1>16. ZeroInv
  BY <1>0 DEF ZeroInv, CallersBlocks
<1> QED
  BY <1>7, <1>8, <1>9, <1>10, <1>11, <1>12, <1>13, <1>14, <1>15, <1>16 DEF IInv

-----------------------------------------------------------------------------
(* Nothing happens.                                                        *)
LEMMA StutterStep ==
    ASSUME IInv, UNCHANGED vars
    PROVE  IInv'
<1>0. UNCHANGED <<disk, sb, sblock_incore, list_head_blkidx, list_head, next_freeslot,
                  tail_idx, pc, cand, held, chain, crashes, unmounts>>
  BY DEF vars, core, ghosts
<1>1. /\ ListBlocks' = ListBlocks /\ Unzeroed' = Unzeroed /\ Readable' = Readable
      /\ FreeSet' = FreeSet /\ InFlight' = InFlight
  BY <1>0 DEF ListBlocks, Unzeroed, Readable, FreeSet, InFlight
<1>2. TypeInv' /\ ChainInv' /\ LinkInv'
  BY <1>0, <1>1 DEF IInv, TypeInv, TypeOK, ChainInv, LinkInv, LastOfChain, NextInChain
<1>3. FillInv' /\ HeadInv'
  BY <1>0, <1>1 DEF IInv, FillInv, HeadInv, FilledAbove
<1>4. SlotInv' /\ TailInv'
  BY <1>0 DEF IInv, SlotInv, TailInv, FilledAbove, LastOfChain
<1>5. UseInv'
  BY <1>0, <1>1 DEF IInv, UseInv, NoDoubleUse
<1>6. CountInv' /\ ZeroInv'
  BY <1>0, <1>1 DEF IInv, CountInv, LeakBound, ZeroInv, CallersBlocks
<1> QED
  BY <1>2, <1>3, <1>4, <1>5, <1>6 DEF IInv

(* Every step keeps the inductive invariant.                               *)
LEMMA NextInv ==
    ASSUME SafeUse, IInv, Next
    PROVE  IInv'
<1>1. CASE UNCHANGED vars
  BY <1>1, StutterStep
<1>2. CASE PopEmpty \/ AppendReject
  BY <1>1, <1>2 DEF PopEmpty, AppendReject
<1>3. CASE PopSlot \/ PopHead
  BY <1>3, PopSlotStep, PopHeadStep
<1>4. CASE \E b \in DataBlocks : AppendBlock(b)
  BY <1>4, AppendEmptyStep, AppendSlotStep, AppendTailStep DEF AppendBlock
<1>5. CASE \E b \in DataBlocks : \E p \in Payloads : ClientWrite(b, p)
  BY <1>5, ClientWriteStep
<1>6. CASE Resume
  BY <1>6, ClearSlotStep, ZeroHeadStep, SeekTailStep, SeekAbortsStep, LinkTailStep,
     ZeroTailStep DEF Resume
<1>7. CASE Unmount
  <2>1. /\ Stop /\ pc = "idle" /\ crashes' = crashes /\ unmounts' = unmounts + 1
        /\ unmounts < MaxUnmounts
        /\ crashes \in 0 .. MaxCrashes /\ unmounts \in 0 .. MaxUnmounts
    BY <1>7 DEF Unmount, Idle, IInv, TypeInv, TypeOK
  <2>2. /\ unmounts' \in 0 .. MaxUnmounts /\ crashes' \in 0 .. MaxCrashes
        /\ crashes' = crashes + (IF pc = "idle" THEN 0 ELSE 1)
    BY <2>1, BoundAssumption
  <2> QED
    BY <2>1, <2>2, StopStep
<1>8. CASE Crash
  <2>1. /\ Stop /\ pc \notin {"idle", "down"} /\ crashes' = crashes + 1
        /\ unmounts' = unmounts /\ crashes < MaxCrashes
        /\ crashes \in 0 .. MaxCrashes /\ unmounts \in 0 .. MaxUnmounts
    BY <1>8 DEF Crash, IInv, TypeInv, TypeOK
  <2>2. /\ unmounts' \in 0 .. MaxUnmounts /\ crashes' \in 0 .. MaxCrashes
        /\ crashes' = crashes + (IF pc = "idle" THEN 0 ELSE 1) /\ MaxCrashes # 0
    BY <2>1, BoundAssumption
  <2> QED
    BY <2>1, <2>2, StopStep
<1>9. CASE Mount
  BY <1>9, MountStep
<1> QED
  BY <1>2, <1>3, <1>4, <1>5, <1>6, <1>7, <1>8, <1>9 DEF Next, Pop

(* The inductive invariant holds in every state of a list that is used     *)
(* safely.                                                                 *)
THEOREM Invariance ==
    ASSUME SafeUse
    PROVE  Spec => []IInv
<1>1. Init => IInv
  BY InitInv
<1>2. IInv /\ [Next]_vars => IInv'
  <2>1. CASE Next
    BY <2>1, NextInv
  <2>2. CASE UNCHANGED vars
    BY <2>2, StutterStep
  <2> QED
    BY <2>1, <2>2
<1> QED
  BY <1>1, <1>2, PTL DEF Spec

-----------------------------------------------------------------------------
(* Every variable stays within what the code's types allow.                *)
THEOREM TypeCorrect ==
    ASSUME SafeUse
    PROVE  Spec => []TypeOK
<1>1. IInv => TypeOK
  BY DEF IInv, TypeInv
<1> QED
  BY <1>1, Invariance, PTL

(* FreeList_pop never returns a block that somebody else uses.             *)
THEOREM SafePool ==
    ASSUME SafeUse
    PROVE  Spec => []NoDoubleUse
<1>1. IInv => NoDoubleUse
  BY DEF IInv, UseInv
<1> QED
  BY <1>1, Invariance, PTL

(* Between any two writes of FreeList_pop and FreeList_append the list on  *)
(* disk leads from the superblock to its tail, without gaps.               *)
THEOREM SoundList ==
    ASSUME SafeUse
    PROVE  Spec => []ListIntact
<1>1. IInv => ListIntact
  <2> SUFFICES ASSUME IInv PROVE ListIntact
    OBVIOUS
  <2>0. TypeInv /\ ChainInv /\ LinkInv /\ FillInv /\ HeadInv
    BY DEF IInv
  <2>1. /\ Len(chain) \in Nat /\ Len(chain) >= 1 /\ DOMAIN chain = 1 .. Len(chain)
        /\ ListBlocks = {chain[i] : i \in 1 .. Len(chain)}
    BY <2>0, TypeFacts DEF TypeInv, TypeOK
  <2>2. IsInjective(chain)
    BY <2>0, <2>1 DEF ChainInv, IsInjective
  <2>3. sb.flist_head = HeadOfChain
    BY <2>0 DEF HeadInv, HeadOfChain, ChainInv
  <2>4. ASSUME NEW b \in Readable, NEW s \in Slots, NEW t \in Slots, s < t,
               disk[b].data[s] # 0
        PROVE  disk[b].data[t] # 0
    <3>1. PICK i \in 1 .. Len(chain) : b = chain[i] /\ chain[i] \notin Unzeroed
      BY <2>1 DEF Readable
    <3>2. PICK k \in Slots \union {NoSlot} : FilledAbove(disk[b], k)
      <4>1. CASE i = 1
        BY <2>0, <3>1, <4>1 DEF FillInv
      <4>2. CASE i # 1
        <5>1. i \in 2 .. Len(chain)
          BY <4>2, <2>1
        <5> QED
          BY <2>0, <3>1, <5>1, ConstantFacts DEF FillInv
      <4> QED
        BY <4>1, <4>2
    <3>3. s > k /\ s \in Int /\ t \in Int /\ k \in Int
      BY <2>4, <3>2, ConstantFacts DEF FilledAbove, Slots, NoSlot
    <3> QED
      BY <2>4, <3>2, <3>3 DEF FilledAbove
  <2> QED
    BY <2>0, <2>1, <2>2, <2>3, <2>4 DEF ListIntact, LinkInv
<1> QED
  BY <1>1, Invariance, PTL

(* The head in core and next_freeslot agree with the disk between two      *)
(* operations.                                                             *)
THEOREM CoreCurrent ==
    ASSUME SafeUse
    PROVE  Spec => []CoreMatchesDisk
<1>1. IInv => CoreMatchesDisk
  <2> SUFFICES ASSUME IInv, Idle PROVE CoreMatchesDisk
    BY DEF CoreMatchesDisk
  <2>0. TypeInv /\ ChainInv /\ HeadInv /\ SlotInv /\ pc = "idle"
    BY DEF IInv, Idle
  <2>1. list_head_blkidx = chain[1] /\ chain[1] \in ListBlocks /\ chain[1] \in DataBlocks
    BY <2>0, TypeFacts DEF HeadInv
  <2>2. list_head = disk[chain[1]]
    <3>1. list_head.data = disk[chain[1]].data /\ list_head.next = disk[chain[1]].next
      BY <2>0 DEF HeadInv
    <3>2. list_head \in Block /\ disk[chain[1]] \in Block
      BY <2>0, <2>1 DEF TypeInv, TypeOK
    <3> QED
      BY <3>1, <3>2 DEF Block
  <2>3. \A s \in Slots : s \in Int /\ s <= E - 1 /\ s > NoSlot
    BY ConstantFacts DEF Slots, NoSlot
  <2>4. next_freeslot \in Int
    BY <2>0, ConstantFacts DEF TypeInv, TypeOK, Slots, NoSlot
  <2>5. CASE FilledAbove(list_head, next_freeslot)
    BY <2>1, <2>2, <2>3, <2>4, <2>5 DEF CoreMatchesDisk, FilledAbove
  <2>6. CASE next_freeslot = NoSlot /\ FilledAbove(list_head, E - 1)
    <3>1. \A s \in Slots : list_head.data[s] = 0
      BY <2>3, <2>6, ConstantFacts DEF FilledAbove
    <3> QED
      BY <3>1, <2>1, <2>2, <2>6 DEF CoreMatchesDisk
  <2> QED
    BY <2>5, <2>6, <2>0 DEF SlotInv
<1> QED
  BY <1>1, Invariance, PTL

(* Crashes lose at most one block each.                                    *)
THEOREM BoundedLeak ==
    ASSUME SafeUse
    PROVE  Spec => []LeakBound
<1>1. IInv => LeakBound
  BY DEF IInv, CountInv
<1> QED
  BY <1>1, Invariance, PTL

(* __update_tail links to the last block of the list.                      *)
THEOREM TailFound ==
    ASSUME SafeUse
    PROVE  Spec => []TailIsLast
<1>1. IInv => TailIsLast
  BY DEF IInv, TailInv, TailIsLast, LastOfChain
<1> QED
  BY <1>1, Invariance, PTL

-----------------------------------------------------------------------------
(***************************************************************************)
(* The free list implements the pool of blocks, its superblock names the   *)
(* head it works on, and its count is right: what IInv means to those who  *)
(* call FreeList_pop and FreeList_append.                                  *)
(*                                                                         *)
(* A block changes hands in one step each way: a pop when it returns, and  *)
(* an append when it begins.  All the other writes of an operation are     *)
(* steps the pool does not see, as none of them touches a block that a     *)
(* caller holds.  Between the two ends of an operation free_blocks is one  *)
(* off from what is on the list (Settled).  That the superblock names the  *)
(* head needs none of this: it holds however the list is used.             *)
(***************************************************************************)
PoolFree == FreeSet \union InFlight

-----------------------------------------------------------------------------
(* The pool's actions, in terms of the list's state.                       *)
LEMMA PoolStutter ==
    ASSUME PoolFree' = PoolFree, held' = held, crashes' = crashes,
           \A b \in held : disk'[b] = disk[b]
    PROVE  UNCHANGED Pool!poolVars
BY DEF Pool!poolVars, PoolFree

LEMMA PoolAlloc ==
    ASSUME NEW b \in DataBlocks, b \in PoolFree, PoolFree' = PoolFree \ {b},
           held' = held \union {b}, b \notin held, crashes' = crashes,
           disk'[b] = ZeroBlock, \A c \in held : disk'[c] = disk[c]
    PROVE  Pool!PoolNext
<1>1. Pool!Alloc(b)
  BY DEF Pool!Alloc, Pool!Used, PoolFree
<1> QED
  BY <1>1 DEF Pool!PoolNext

LEMMA PoolRelease ==
    ASSUME NEW b \in DataBlocks, b \in held, PoolFree' = PoolFree \union {b},
           held' = held \ {b}, crashes' = crashes,
           \A c \in held \ {b} : disk'[c] = disk[c]
    PROVE  Pool!PoolNext
<1>1. Pool!Release(b)
  BY DEF Pool!Release, Pool!Used, PoolFree
<1> QED
  BY <1>1 DEF Pool!PoolNext

(* A caller's blocks are not on the list, and none of them is moving.      *)
LEMMA HeldApart ==
    ASSUME IInv
    PROVE  /\ held \subseteq DataBlocks /\ held \intersect FreeSet = {}
           /\ ListBlocks \subseteq FreeSet /\ chain[1] \in ListBlocks
           /\ LastOfChain \in ListBlocks
           /\ InFlight \intersect FreeSet = {} /\ InFlight \intersect held = {}
           /\ FreeSet \subseteq DataBlocks
<1>1. TypeInv /\ ChainInv /\ UseInv
  BY DEF IInv
<1>2. /\ held \subseteq DataBlocks /\ ListBlocks \subseteq DataBlocks
      /\ chain[1] \in ListBlocks /\ LastOfChain \in ListBlocks
  BY <1>1, TypeFacts DEF TypeInv, TypeOK
<1>3. FreeSet \subseteq DataBlocks
  <2> SUFFICES ASSUME NEW b \in FreeSet, b \notin ListBlocks PROVE b \in DataBlocks
    BY <1>2
  <2> QED
    BY <1>1, FreeChar DEF UseInv, NoDoubleUse
<1> QED
  BY <1>1, <1>2, <1>3 DEF UseInv, NoDoubleUse, FreeSet

-----------------------------------------------------------------------------
(* FreeList_pop                                                            *)
LEMMA PopSlotPool ==
    ASSUME IInv, PopSlot
    PROVE  UNCHANGED Pool!poolVars
<1>1. pc = "idle" /\ FreeSet' = FreeSet
  BY PopSlotStep DEF PopSlot, Idle
<1>2. PICK s \in Occupied :
          IF list_head.data[s] \in DataBlocks
          THEN disk' = WriteBlock(disk, list_head.data[s], ZeroBlock) /\ pc' = "pop_slot"
          ELSE UNCHANGED <<disk, cand, pc>>
  BY DEF PopSlot
<1>3. held' = held /\ crashes' = crashes
  BY DEF PopSlot, ghosts
<1>4. list_head.data[s] \in FreeSet
  <2>1. list_head.data = disk[chain[1]].data
    BY <1>1 DEF IInv, HeadInv
  <2>2. chain[1] \in Readable /\ s \in Slots /\ list_head.data[s] # 0
    BY <1>1, HeldApart DEF Readable, Unzeroed, Occupied
  <2> QED
    BY <2>1, <2>2, FreeChar
<1>5. \A b \in held : disk'[b] = disk[b]
  BY <1>2, <1>4, HeldApart DEF WriteBlock, IInv, TypeInv, TypeOK
<1>6. InFlight = {} /\ InFlight' = {}
  BY <1>1, <1>2 DEF InFlight
<1> QED
  BY <1>1, <1>3, <1>5, <1>6, PoolStutter DEF PoolFree

LEMMA ClearSlotPool ==
    ASSUME IInv, ClearSlot
    PROVE  Pool!PoolNext
<1>1. /\ pc = "pop_slot" /\ pc' = "idle" /\ held' = held \union {cand} /\ crashes' = crashes
      /\ disk' = WriteBlock(disk, list_head_blkidx, list_head')
  BY DEF ClearSlot
<1>2. FreeSet' = FreeSet \ {cand} /\ cand \in FreeSet
  BY ClearSlotStep
<1>3. InFlight = {} /\ InFlight' = {}
  BY <1>1 DEF InFlight
<1>4. /\ cand \in DataBlocks /\ disk[cand] = ZeroBlock /\ list_head_blkidx = chain[1]
      /\ next_freeslot \in Slots /\ disk[chain[1]].data[next_freeslot] = cand
  BY <1>1 DEF IInv, ChainInv, Moving, ZeroInv, HeadInv, SlotInv
<1>5. cand # chain[1]
  <2>1. chain[1] \in Readable
    BY <1>1, HeldApart DEF Readable, Unzeroed
  <2> QED
    BY <1>4, <2>1, ConstantFacts, HeldApart DEF IInv, UseInv, NoDoubleUse
<1>6. \A c \in DataBlocks \ {chain[1]} : disk'[c] = disk[c]
  BY <1>1, <1>4 DEF WriteBlock, IInv, TypeInv, TypeOK
<1>7. \A c \in held : disk'[c] = disk[c]
  BY <1>6, HeldApart
<1>8. cand \in PoolFree /\ PoolFree' = PoolFree \ {cand} /\ cand \notin held
  BY <1>2, <1>3, HeldApart DEF PoolFree
<1>9. disk'[cand] = ZeroBlock
  BY <1>4, <1>5, <1>6
<1> QED
  BY <1>1, <1>4, <1>7, <1>8, <1>9, PoolAlloc

LEMMA PopHeadPool ==
    ASSUME SafeUse, IInv, PopHead
    PROVE  UNCHANGED Pool!poolVars
<1>1. /\ pc = "idle" /\ pc' = "pop_head" /\ cand' = list_head_blkidx
      /\ disk' = disk /\ held' = held /\ crashes' = crashes
  BY DEF PopHead, Idle
<1>2. FreeSet' = FreeSet \ {chain[1]} /\ chain[1] \in FreeSet
  BY PopHeadStep
<1>3. InFlight = {} /\ InFlight' = {chain[1]}
  BY <1>1 DEF InFlight, IInv, HeadInv
<1>4. PoolFree' = PoolFree
  BY <1>2, <1>3 DEF PoolFree
<1> QED
  BY <1>1, <1>4, PoolStutter

LEMMA ZeroHeadPool ==
    ASSUME IInv, ZeroHead
    PROVE  Pool!PoolNext
<1>1. pc = "pop_head" /\ pc' = "idle" /\ crashes' = crashes
  BY DEF ZeroHead
<1>2. InFlight = {cand} /\ InFlight' = {} /\ cand \in DataBlocks
  BY <1>1 DEF InFlight, IInv, ChainInv, Moving
<1>3. disk' = [disk EXCEPT ![cand] = ZeroBlock] /\ held' = held \union {cand}
  BY <1>2 DEF ZeroHead, WriteBlock
<1>4. FreeSet' = FreeSet
  BY ZeroHeadStep
<1>5. cand \in PoolFree /\ PoolFree' = PoolFree \ {cand} /\ cand \notin held
  BY <1>2, <1>4, HeldApart DEF PoolFree
<1>6. disk'[cand] = ZeroBlock /\ \A c \in held : disk'[c] = disk[c]
  BY <1>2, <1>3, <1>5, HeldApart DEF IInv, TypeInv, TypeOK
<1> QED
  BY <1>1, <1>2, <1>3, <1>5, <1>6, PoolAlloc

-----------------------------------------------------------------------------
(* FreeList_append                                                         *)
LEMMA AppendSlotPool ==
    ASSUME IInv, NEW b, AppendSlot(b)
    PROVE  Pool!PoolNext
<1>1. /\ pc = "idle" /\ pc' = pc /\ b \in held /\ held' = held \ {b} /\ crashes' = crashes
      /\ disk' = WriteBlock(disk, list_head_blkidx, list_head')
  BY DEF AppendSlot, Idle
<1>2. FreeSet' = FreeSet \union {b}
  BY AppendSlotStep
<1>3. InFlight = {} /\ InFlight' = {}
  BY <1>1 DEF InFlight
<1>4. list_head_blkidx = chain[1]
  BY <1>1 DEF IInv, HeadInv
<1>5. \A c \in held \ {b} : disk'[c] = disk[c]
  BY <1>1, <1>4, HeldApart DEF WriteBlock, IInv, TypeInv, TypeOK
<1>6. PoolFree' = PoolFree \union {b} /\ b \in DataBlocks
  BY <1>1, <1>2, <1>3, HeldApart DEF PoolFree
<1> QED
  BY <1>1, <1>5, <1>6, PoolRelease

LEMMA AppendTailPool ==
    ASSUME IInv, NEW b, AppendTail(b)
    PROVE  Pool!PoolNext
<1>1. /\ pc = "idle" /\ pc' \in {"seek_tail", "link_tail"} /\ b \in held
      /\ held' = held \ {b} /\ crashes' = crashes /\ disk' = disk /\ cand' = b
  BY DEF AppendTail, Idle
<1>2. FreeSet' = FreeSet
  BY AppendTailStep
<1>3. InFlight = {} /\ InFlight' = {b}
  BY <1>1 DEF InFlight
<1>4. PoolFree' = PoolFree \union {b} /\ b \in DataBlocks
  BY <1>1, <1>2, <1>3, HeldApart DEF PoolFree
<1> QED
  BY <1>1, <1>4, PoolRelease

LEMMA SeekTailPool ==
    ASSUME IInv, SeekTail
    PROVE  UNCHANGED Pool!poolVars
<1>1. /\ pc = "seek_tail" /\ pc' \in {"seek_tail", "link_tail"}
      /\ cand' = cand /\ disk' = disk /\ held' = held /\ crashes' = crashes
  BY DEF SeekTail, ghosts
<1>2. PoolFree' = PoolFree
  BY <1>1, SeekTailStep DEF PoolFree, InFlight
<1> QED
  BY <1>1, <1>2, PoolStutter

LEMMA LinkTailPool ==
    ASSUME IInv, LinkTail
    PROVE  UNCHANGED Pool!poolVars
<1>1. /\ pc = "link_tail" /\ pc' = "zero_tail" /\ held' = held /\ crashes' = crashes
      /\ disk' = WriteBlock(disk, tail_idx, [disk[tail_idx] EXCEPT !.next = cand])
  BY DEF LinkTail
<1>2. InFlight = {cand} /\ InFlight' = {}
  BY <1>1 DEF InFlight
<1>3. PoolFree' = PoolFree
  BY <1>2, LinkTailStep DEF PoolFree
<1>4. tail_idx = LastOfChain
  BY <1>1 DEF IInv, TailInv
<1>5. \A b \in held : disk'[b] = disk[b]
  BY <1>1, <1>4, HeldApart DEF WriteBlock, IInv, TypeInv, TypeOK
<1> QED
  BY <1>1, <1>3, <1>5, PoolStutter

LEMMA ZeroTailPool ==
    ASSUME IInv, ZeroTail
    PROVE  UNCHANGED Pool!poolVars
<1>1. /\ pc = "zero_tail" /\ pc' = "idle" /\ held' = held /\ crashes' = crashes
      /\ disk' = WriteBlock(disk, cand, ZeroBlock)
  BY DEF ZeroTail, ghosts
<1>2. PoolFree' = PoolFree
  BY <1>1, ZeroTailStep DEF PoolFree, InFlight
<1>3. cand = LastOfChain
  BY <1>1 DEF IInv, ChainInv
<1>4. \A b \in held : disk'[b] = disk[b]
  BY <1>1, <1>3, HeldApart DEF WriteBlock, IInv, TypeInv, TypeOK
<1> QED
  BY <1>1, <1>2, <1>4, PoolStutter

-----------------------------------------------------------------------------
(* Callers, unmounts and crashes                                           *)
LEMMA ClientWritePool ==
    ASSUME SafeUse, IInv, NEW b \in DataBlocks, NEW p \in Payloads, ClientWrite(b, p)
    PROVE  Pool!PoolNext
<1>1. /\ b \in held /\ disk' = [disk EXCEPT ![b] = p] /\ pc' = pc /\ cand' = cand
      /\ held' = held /\ crashes' = crashes
  BY DEF ClientWrite, ghosts
<1>2. PoolFree' = PoolFree
  BY <1>1, ClientWriteStep DEF PoolFree, InFlight
<1>3. \A c \in held : disk'[c] = IF c = b THEN p ELSE disk[c]
  BY <1>1, HeldApart DEF IInv, TypeInv, TypeOK
<1>4. [c \in held' |-> disk'[c]] = [[c \in held |-> disk[c]] EXCEPT ![b] = p]
  BY <1>1, <1>3
<1>5. Pool!Write(b, p)
  BY <1>1, <1>2, <1>4 DEF Pool!Write, Pool!Used, PoolFree
<1> QED
  BY <1>5 DEF Pool!PoolNext

LEMMA UnmountPool ==
    ASSUME IInv, Unmount
    PROVE  UNCHANGED Pool!poolVars
<1>1. /\ Stop /\ pc = "idle" /\ crashes' = crashes /\ unmounts' = unmounts + 1
      /\ unmounts < MaxUnmounts
      /\ crashes \in 0 .. MaxCrashes /\ unmounts \in 0 .. MaxUnmounts
  BY DEF Unmount, Idle, IInv, TypeInv, TypeOK
<1>2. /\ unmounts' \in 0 .. MaxUnmounts /\ crashes' \in 0 .. MaxCrashes
      /\ crashes' = crashes + (IF pc = "idle" THEN 0 ELSE 1)
  BY <1>1, BoundAssumption
<1>3. FreeSet' = FreeSet
  BY <1>1, <1>2, StopStep
<1>4. pc' = "down" /\ disk' = disk /\ held' = held
  BY <1>1 DEF Stop
<1>5. PoolFree' = PoolFree
  BY <1>1, <1>3, <1>4 DEF PoolFree, InFlight
<1> QED
  BY <1>1, <1>4, <1>5, PoolStutter

(* What is in flight when the process stops is lost.                       *)
LEMMA CrashPool ==
    ASSUME IInv, Crash
    PROVE  Pool!PoolNext
<1>1. /\ Stop /\ pc \notin {"idle", "down"} /\ crashes' = crashes + 1
      /\ unmounts' = unmounts /\ crashes < MaxCrashes
      /\ crashes \in 0 .. MaxCrashes /\ unmounts \in 0 .. MaxUnmounts
  BY DEF Crash, IInv, TypeInv, TypeOK
<1>2. /\ unmounts' \in 0 .. MaxUnmounts /\ crashes' \in 0 .. MaxCrashes
      /\ crashes' = crashes + (IF pc = "idle" THEN 0 ELSE 1) /\ MaxCrashes # 0
  BY <1>1, BoundAssumption
<1>3. FreeSet' = FreeSet
  BY <1>1, <1>2, StopStep
<1>4. pc' = "down" /\ disk' = disk /\ held' = held
  BY <1>1 DEF Stop
<1>5. InFlight' = {} /\ (InFlight = {} \/ InFlight = {cand})
  BY <1>4 DEF InFlight
<1>6. PoolFree' = PoolFree \/ \E b \in PoolFree : PoolFree' = PoolFree \ {b}
  <2>1. CASE InFlight = {}
    BY <2>1, <1>3, <1>5 DEF PoolFree
  <2>2. CASE InFlight = {cand}
    <3>1. cand \in PoolFree /\ PoolFree' = PoolFree \ {cand}
      BY <2>2, <1>3, <1>5, HeldApart DEF PoolFree
    <3> QED
      BY <3>1
  <2> QED
    BY <1>5, <2>1, <2>2
<1>7. Pool!Crash
  BY <1>1, <1>4, <1>6 DEF Pool!Crash, PoolFree
<1> QED
  BY <1>7 DEF Pool!PoolNext

LEMMA MountPool ==
    ASSUME IInv, Mount
    PROVE  UNCHANGED Pool!poolVars
<1>1. /\ pc = "down" /\ pc' = "idle" /\ disk' = disk /\ held' = held /\ crashes' = crashes
  BY DEF Mount, ghosts
<1>2. PoolFree' = PoolFree
  BY <1>1, MountStep DEF PoolFree, InFlight
<1> QED
  BY <1>1, <1>2, PoolStutter

-----------------------------------------------------------------------------
(* mkfs leaves every data block free.                                      *)
LEMMA PoolInitial ==
    ASSUME SafeUse, Init
    PROVE  Pool!PoolInit
<1>1. IInv
  BY InitInv
<1>2. held = {} /\ pc = "idle" /\ crashes = 0
  BY DEF Init
<1>3. InFlight = {}
  BY <1>2 DEF InFlight
<1>4. DataBlocks \ FreeSet = {}
  <2> DEFINE Lost == DataBlocks \ FreeSet
  <2>1. IsFiniteSet(Lost)
    BY ConstantFacts, FS_Subset
  <2>2. Cardinality(Lost) <= 0
    BY <1>1, <1>2, <1>3 DEF IInv, CountInv, LeakBound
  <2>3. Cardinality(Lost) = 0
    BY <2>1, <2>2, FS_CardinalityType
  <2> QED
    BY <2>1, <2>3, FS_EmptySet
<1>5. FreeSet \union InFlight = DataBlocks
  BY <1>1, <1>3, <1>4, HeldApart
<1> QED
  BY <1>2, <1>5 DEF Pool!PoolInit

LEMMA PoolStep ==
    ASSUME SafeUse, IInv, Next
    PROVE  Pool!PoolNext \/ UNCHANGED Pool!poolVars
<1>1. CASE PopEmpty \/ AppendReject
  <2>1. UNCHANGED vars
    BY <1>1 DEF PopEmpty, AppendReject
  <2> QED
    BY <2>1, StutterStep DEF vars, ghosts, Pool!poolVars, FreeSet, InFlight, Readable,
                             ListBlocks, Unzeroed
<1>2. CASE PopSlot \/ PopHead
  BY <1>2, PopSlotPool, PopHeadPool
<1>3. CASE \E b \in DataBlocks : AppendBlock(b)
  BY <1>3, AppendEmptyStep, AppendSlotPool, AppendTailPool DEF AppendBlock
<1>4. CASE \E b \in DataBlocks : \E p \in Payloads : ClientWrite(b, p)
  BY <1>4, ClientWritePool
<1>5. CASE Resume
  BY <1>5, ClearSlotPool, ZeroHeadPool, SeekTailPool, SeekAbortsStep, LinkTailPool,
     ZeroTailPool DEF Resume
<1>6. CASE Unmount \/ Crash \/ Mount
  BY <1>6, UnmountPool, CrashPool, MountPool
<1> QED
  BY <1>1, <1>2, <1>3, <1>4, <1>5, <1>6 DEF Next, Pop

(* The free list is a pool of blocks: a popped block is zeroed and its     *)
(* caller's alone until it is appended, and a crash loses no more than the *)
(* block it caught moving.                                                 *)
THEOREM ImplementsPool ==
    ASSUME SafeUse
    PROVE  Spec => PoolSpec
<1>1. Init => Pool!PoolInit
  BY PoolInitial
<1>2. IInv /\ [Next]_vars => [Pool!PoolNext]_(Pool!poolVars)
  <2>1. CASE Next
    BY <2>1, PoolStep
  <2>2. CASE UNCHANGED vars
    BY <2>2 DEF vars, ghosts, Pool!poolVars, FreeSet, InFlight, Readable, ListBlocks,
                Unzeroed
  <2> QED
    BY <2>1, <2>2
<1> QED
  BY <1>1, <1>2, Invariance, PTL DEF Spec, PoolSpec, Pool!PoolBehaviour
-----------------------------------------------------------------------------
(* free_blocks                                                             *)
SameLife == crashes = 0 /\ unmounts = 0 /\ pc # "down"

(* free_blocks counts the list, but for the head that a pop took off it    *)
(* and the tail that an append put on it.                                  *)
Settled ==
    SameLife =>
        /\ pc = "pop_head" => sblock_incore.free_blocks = Cardinality(FreeSet) + 1
        /\ pc = "zero_tail" => sblock_incore.free_blocks + 1 = Cardinality(FreeSet)
        /\ pc \notin {"pop_head", "zero_tail"} =>
               sblock_incore.free_blocks = Cardinality(FreeSet)

(* A process that is down was stopped.                                     *)
DownKnown == pc = "down" => crashes # 0 \/ unmounts # 0

(* As many blocks as the device has are less than size_t can count.        *)
LEMMA BlocksCounted ==
    ASSUME NEW S, S \subseteq DataBlocks
    PROVE  /\ IsFiniteSet(S) /\ Cardinality(S) \in Nat
           /\ Cardinality(S) < SizeModulus - 1
           /\ Cardinality(DataBlocks) = NumBlocks - First
<1>1. IsFiniteSet(S) /\ Cardinality(S) <= Cardinality(DataBlocks)
  BY ConstantFacts, FS_Subset
<1>2. Cardinality(DataBlocks) = NumBlocks - First
  BY ConstantFacts, DeviceAssumption, FS_Interval DEF DataBlocks
<1>3. Cardinality(S) \in Nat
  BY <1>1, FS_CardinalityType
<1> QED
  BY <1>1, <1>2, <1>3, ConstantFacts, DeviceAssumption, BoundAssumption

LEMMA FreeCounted ==
    ASSUME IInv, FreeSet' \subseteq DataBlocks
    PROVE  /\ IsFiniteSet(FreeSet) /\ Cardinality(FreeSet) \in Nat
           /\ Cardinality(FreeSet) < SizeModulus - 1
           /\ Cardinality(FreeSet') \in Nat /\ Cardinality(FreeSet') < SizeModulus - 1
           /\ "free_blocks" \in DOMAIN sblock_incore
           /\ sblock_incore.free_blocks \in Nat
<1>1. FreeSet \subseteq DataBlocks
  BY HeldApart
<1>2. /\ "free_blocks" \in DOMAIN sblock_incore
      /\ sblock_incore.free_blocks \in 0 .. SizeModulus - 1
  BY DEF IInv, TypeInv, TypeOK
<1>3. sblock_incore.free_blocks \in Nat
  BY <1>2
<1> QED
  BY <1>1, <1>2, <1>3, BlocksCounted

(* No wrap-round happens between 0 and the size of the device.             *)
LEMMA NoWrap ==
    ASSUME NEW n \in Nat, n < SizeModulus - 1
    PROVE  Plus1(n) = n + 1 /\ Minus1(n + 1) = n
<1>1. /\ SizeModulus \in Nat /\ SizeModulus > 0
      /\ n + 1 \in 0 .. SizeModulus - 1 /\ n \in 0 .. SizeModulus - 1
  BY BoundAssumption, DeviceAssumption
<1>2. \A a \in 0 .. SizeModulus - 1 : a % SizeModulus = a
  BY <1>1
<1>3. \A a \in 0 .. SizeModulus - 1 : (a + SizeModulus) % SizeModulus = a
  BY <1>1
<1>4. (n + 1) + SizeModulus - 1 = n + SizeModulus
  BY <1>1
<1> QED
  BY <1>1, <1>2, <1>3, <1>4 DEF Plus1, Minus1

LEMMA CardOneMore ==
    ASSUME NEW S, NEW x, IsFiniteSet(S), x \notin S
    PROVE  Cardinality(S \union {x}) = Cardinality(S) + 1
  BY FS_AddElement

LEMMA CardOneLess ==
    ASSUME NEW S, NEW x, IsFiniteSet(S), x \in S
    PROVE  Cardinality(S) = Cardinality(S \ {x}) + 1
<1>1. IsFiniteSet(S \ {x}) /\ (S \ {x}) \union {x} = S /\ x \notin S \ {x}
  BY FS_Subset
<1> QED
  BY <1>1, CardOneMore

(* Each step of an operation, where the count may change.                  *)
LEMMA SettledPop ==
    ASSUME SafeUse, IInv, IInv', Settled, PopSlot \/ ClearSlot \/ PopHead \/ ZeroHead
    PROVE  Settled'
<1>00. FreeSet' \subseteq DataBlocks
  BY PopSlotStep, ClearSlotStep, PopHeadStep, ZeroHeadStep, HeldApart
<1>0. /\ IsFiniteSet(FreeSet) /\ Cardinality(FreeSet) \in Nat /\ Cardinality(FreeSet') \in Nat
      /\ Cardinality(FreeSet) < SizeModulus - 1 /\ Cardinality(FreeSet') < SizeModulus - 1
      /\ sblock_incore.free_blocks \in Nat /\ "free_blocks" \in DOMAIN sblock_incore
  BY <1>00, FreeCounted
<1>1. SUFFICES ASSUME SameLife' PROVE Settled'
  BY DEF Settled
<1>2. CASE PopSlot
  <2>1. /\ pc = "idle" /\ pc' \in {"idle", "pop_slot"} /\ SameLife
        /\ sblock_incore' = sblock_incore
    BY <1>1, <1>2 DEF PopSlot, Idle, ghosts, SameLife
  <2> QED
    BY <2>1, <1>2, PopSlotStep DEF Settled
<1>3. CASE ClearSlot
  <2>1. /\ pc = "pop_slot" /\ pc' = "idle" /\ SameLife
        /\ sblock_incore'.free_blocks = Minus1(sblock_incore.free_blocks)
    BY <1>0, <1>1, <1>3 DEF ClearSlot, SameLife
  <2>2. Cardinality(FreeSet) = Cardinality(FreeSet') + 1
    BY <1>0, <1>3, ClearSlotStep, CardOneLess
  <2>3. sblock_incore.free_blocks = Cardinality(FreeSet') + 1
    BY <2>1, <2>2 DEF Settled
  <2>4. sblock_incore'.free_blocks = Cardinality(FreeSet')
    BY <2>1, <2>3, <1>0, NoWrap
  <2> QED
    BY <2>1, <2>4 DEF Settled
<1>4. CASE PopHead
  <2>1. /\ pc = "idle" /\ pc' = "pop_head" /\ SameLife
        /\ sblock_incore'.free_blocks = sblock_incore.free_blocks
    BY <1>0, <1>1, <1>4 DEF PopHead, Idle, SameLife
  <2>2. Cardinality(FreeSet) = Cardinality(FreeSet') + 1
    BY <1>0, <1>4, PopHeadStep, CardOneLess
  <2> QED
    BY <2>1, <2>2 DEF Settled
<1>5. CASE ZeroHead
  <2>1. pc = "pop_head" /\ pc' = "idle" /\ SameLife /\ cand \in DataBlocks
    BY <1>1, <1>5 DEF ZeroHead, SameLife, IInv, ChainInv, Moving
  <2>2. sblock_incore'.free_blocks = Minus1(sblock_incore.free_blocks)
    BY <2>1, <1>0, <1>5 DEF ZeroHead
  <2>3. sblock_incore.free_blocks = Cardinality(FreeSet') + 1
    BY <2>1, <1>5, ZeroHeadStep DEF Settled
  <2>4. sblock_incore'.free_blocks = Cardinality(FreeSet')
    BY <2>2, <2>3, <1>0, NoWrap
  <2> QED
    BY <2>1, <2>4 DEF Settled
<1> QED
  BY <1>2, <1>3, <1>4, <1>5

LEMMA SettledAppend ==
    ASSUME IInv, IInv', Settled,
           \/ \E b \in DataBlocks : AppendBlock(b)
           \/ SeekTail \/ LinkTail \/ ZeroTail
    PROVE  Settled'
<1>00. FreeSet' \subseteq DataBlocks
  <2>1. LinkTail => cand \in DataBlocks
    BY DEF LinkTail, IInv, ChainInv, Moving
  <2> QED
    BY <2>1, AppendEmptyStep, AppendSlotStep, AppendTailStep, SeekTailStep, LinkTailStep,
       ZeroTailStep, HeldApart DEF AppendBlock
<1>0. /\ IsFiniteSet(FreeSet) /\ Cardinality(FreeSet) \in Nat /\ Cardinality(FreeSet') \in Nat
      /\ Cardinality(FreeSet) < SizeModulus - 1 /\ Cardinality(FreeSet') < SizeModulus - 1
      /\ sblock_incore.free_blocks \in Nat /\ "free_blocks" \in DOMAIN sblock_incore
  BY <1>00, FreeCounted
<1>1. SUFFICES ASSUME SameLife' PROVE Settled'
  BY DEF Settled
<1>2. ASSUME NEW b \in DataBlocks, AppendSlot(b) PROVE Settled'
  <2>1. /\ pc = "idle" /\ pc' = "idle" /\ SameLife /\ b \in held
        /\ sblock_incore'.free_blocks = Plus1(sblock_incore.free_blocks)
    BY <1>0, <1>1, <1>2 DEF AppendSlot, Idle, SameLife
  <2>2. Cardinality(FreeSet') = Cardinality(FreeSet) + 1
    BY <1>0, <1>2, <2>1, AppendSlotStep, CardOneMore, HeldApart
  <2>3. sblock_incore'.free_blocks = Cardinality(FreeSet')
    BY <1>0, <2>1, <2>2, NoWrap DEF Settled
  <2> QED
    BY <2>1, <2>3 DEF Settled
<1>3. ASSUME NEW b \in DataBlocks, AppendTail(b) PROVE Settled'
  <2>1. /\ pc = "idle" /\ pc' \in {"seek_tail", "link_tail"} /\ SameLife
        /\ sblock_incore' = sblock_incore
    BY <1>1, <1>3 DEF AppendTail, Idle, SameLife
  <2> QED
    BY <2>1, <1>3, AppendTailStep DEF Settled
<1>4. CASE SeekTail
  <2>1. /\ pc = "seek_tail" /\ pc' \in {"seek_tail", "link_tail"} /\ SameLife
        /\ sblock_incore' = sblock_incore
    BY <1>1, <1>4 DEF SeekTail, ghosts, SameLife
  <2> QED
    BY <2>1, <1>4, SeekTailStep DEF Settled
<1>5. CASE LinkTail
  <2>1. /\ pc = "link_tail" /\ pc' = "zero_tail" /\ SameLife
        /\ sblock_incore' = sblock_incore
    BY <1>1, <1>5 DEF LinkTail, SameLife
  <2>2. cand \notin FreeSet
    BY <2>1 DEF IInv, UseInv, InFlight
  <2>3. Cardinality(FreeSet') = Cardinality(FreeSet) + 1
    BY <1>0, <1>5, <2>2, LinkTailStep, CardOneMore
  <2> QED
    BY <2>1, <2>3 DEF Settled
<1>6. CASE ZeroTail
  <2>1. /\ pc = "zero_tail" /\ pc' = "idle" /\ SameLife
        /\ sblock_incore'.free_blocks = Plus1(sblock_incore.free_blocks)
    BY <1>0, <1>1, <1>6 DEF ZeroTail, ghosts, SameLife
  <2>2. sblock_incore.free_blocks + 1 = Cardinality(FreeSet')
    BY <2>1, <1>6, ZeroTailStep DEF Settled
  <2>3. sblock_incore.free_blocks < SizeModulus - 1
    BY <1>0, <2>2, BoundAssumption, DeviceAssumption
  <2>4. sblock_incore'.free_blocks = Cardinality(FreeSet')
    BY <1>0, <2>1, <2>2, <2>3, NoWrap
  <2> QED
    BY <2>1, <2>4 DEF Settled
<1> QED
  BY <1>2, <1>3, <1>4, <1>5, <1>6, AppendEmptyStep DEF AppendBlock

LEMMA UnseenStep ==
    ASSUME UNCHANGED vars
    PROVE  Settled' = Settled /\ DownKnown' = DownKnown
<1>1. UNCHANGED <<disk, sblock_incore, pc, cand, chain, crashes, unmounts>>
  BY DEF vars, core, ghosts
<1>2. FreeSet' = FreeSet
  BY <1>1 DEF FreeSet, Readable, ListBlocks, Unzeroed
<1> QED
  BY <1>1, <1>2 DEF Settled, SameLife, DownKnown

(* When a process stops the count in core goes, and the one on disk is as  *)
(* old as the last change of the head.                                     *)
LEMMA SettledOther ==
    ASSUME SafeUse, IInv, Settled, DownKnown,
           \/ PopEmpty \/ AppendReject \/ Unmount \/ Crash \/ Mount
           \/ \E b \in DataBlocks : \E p \in Payloads : ClientWrite(b, p)
    PROVE  Settled'
<1>1. CASE PopEmpty \/ AppendReject
  BY <1>1, UnseenStep DEF PopEmpty, AppendReject
<1>2. CASE Unmount \/ Crash
  BY <1>2 DEF Unmount, Crash, Stop, Settled, SameLife
<1>3. CASE Mount
  <2>1. unmounts' = unmounts /\ crashes' = crashes /\ pc = "down"
    BY <1>3 DEF Mount, ghosts
  <2> QED
    BY <2>1 DEF DownKnown, Settled, SameLife
<1>4. ASSUME NEW b \in DataBlocks, NEW p \in Payloads, ClientWrite(b, p) PROVE Settled'
  <2>1. pc' = pc /\ crashes' = crashes /\ unmounts' = unmounts /\ sblock_incore' = sblock_incore
    BY <1>4 DEF ClientWrite, core, ghosts
  <2> QED
    BY <2>1, <1>4, ClientWriteStep DEF Settled, SameLife
<1> QED
  BY <1>1, <1>2, <1>3, <1>4

LEMMA DownStep ==
    ASSUME IInv, DownKnown, Next
    PROVE  DownKnown'
<1>1. SUFFICES ASSUME pc' = "down" PROVE crashes' # 0 \/ unmounts' # 0
  BY DEF DownKnown
<1>2. crashes \in Nat /\ unmounts \in Nat
  BY BoundAssumption DEF IInv, TypeInv, TypeOK
<1>3. CASE Unmount \/ Crash
  BY <1>2, <1>3 DEF Unmount, Crash
<1>4. CASE Pop \/ ClearSlot \/ ZeroHead
  BY <1>1, <1>4 DEF Pop, PopEmpty, PopSlot, PopHead, ClearSlot, ZeroHead, vars, Idle
<1>5. CASE \E b \in DataBlocks : AppendBlock(b)
  BY <1>1, <1>5 DEF AppendBlock, AppendEmpty, AppendSlot, AppendTail, Idle
<1>6. CASE SeekTail \/ SeekAborts \/ LinkTail \/ ZeroTail
  BY <1>1, <1>6, SeekAbortsStep DEF SeekTail, LinkTail, ZeroTail
<1>7. CASE \/ AppendReject \/ Mount
           \/ \E b \in DataBlocks : \E p \in Payloads : ClientWrite(b, p)
  BY <1>1, <1>7 DEF AppendReject, Mount, ClientWrite, vars, Idle
<1> QED
  BY <1>3, <1>4, <1>5, <1>6, <1>7 DEF Next, Resume

LEMMA SettledStep ==
    ASSUME SafeUse, IInv, IInv', Settled, DownKnown, Next
    PROVE  Settled'
<1>1. CASE Pop
  BY <1>1, SettledPop, SettledOther DEF Pop
<1>2. CASE Resume
  BY <1>2, SettledPop, SettledAppend, SeekAbortsStep DEF Resume
<1>3. CASE \E b \in DataBlocks : AppendBlock(b) \/ \E p \in Payloads : ClientWrite(b, p)
  BY <1>3, SettledAppend, SettledOther
<1>4. CASE AppendReject \/ Unmount \/ Crash \/ Mount
  BY <1>4, SettledOther
<1> QED
  BY <1>1, <1>2, <1>3, <1>4 DEF Next

(* As long as the process that found the new file system runs, free_blocks *)
(* is the number of free blocks: no operation forgets to count, and none   *)
(* counts twice.                                                           *)
THEOREM FreeBlocksExact ==
    ASSUME SafeUse
    PROVE  Spec => []CountExact
<1>1. Init => Settled /\ DownKnown
  <2> SUFFICES ASSUME Init PROVE Settled /\ DownKnown
    OBVIOUS
  <2>1. /\ pc = "idle" /\ sblock_incore.free_blocks = InTheList + 1
    BY DEF Init
  <2>2. FreeSet = DataBlocks
    BY PoolInitial, <2>1 DEF Pool!PoolInit, InFlight
  <2>3. Cardinality(DataBlocks) = InTheList + 1
    BY BlocksCounted, ConstantFacts DEF InTheList
  <2> QED
    BY <2>1, <2>2, <2>3 DEF Settled, DownKnown
<1>2. IInv /\ IInv' /\ Settled /\ DownKnown /\ [Next]_vars => Settled' /\ DownKnown'
  <2>1. ASSUME IInv, Settled, DownKnown, UNCHANGED vars PROVE Settled' /\ DownKnown'
    BY <2>1, UnseenStep
  <2> QED
    BY <2>1, SettledStep, DownStep
<1>3. Settled => CountExact
  BY DEF Settled, SameLife, CountExact, Idle
<1> QED
  BY <1>1, <1>2, <1>3, Invariance, PTL DEF Spec

-----------------------------------------------------------------------------
(* The superblock                                                          *)
SuperInv ==
    /\ "flist_head" \in DOMAIN sb /\ "flist_head" \in DOMAIN sblock_incore
    /\ SuperblockCurrent

LEMMA SuperStep ==
    ASSUME SuperInv, Next
    PROVE  SuperInv'
<1> USE DEF SuperInv, SuperblockCurrent
<1>1. CASE Pop \/ ClearSlot \/ ZeroHead
  BY <1>1 DEF Pop, PopEmpty, PopSlot, PopHead, ClearSlot, ZeroHead, vars, core, Idle
<1>2. CASE \E b \in DataBlocks : AppendBlock(b)
  BY <1>2 DEF AppendBlock, AppendEmpty, AppendSlot, AppendTail, Idle
<1>3. CASE SeekTail \/ LinkTail \/ ZeroTail
  BY <1>3 DEF SeekTail, LinkTail, ZeroTail
<1>4. CASE \/ AppendReject
           \/ \E b \in DataBlocks : \E p \in Payloads : ClientWrite(b, p)
  BY <1>4 DEF AppendReject, ClientWrite, vars, core, Idle
<1>5. CASE SeekAborts \/ Unmount \/ Crash
  BY <1>5 DEF SeekAborts, Unmount, Crash, Stop
<1>6. CASE Mount
  BY <1>6 DEF Mount
<1> QED
  BY <1>1, <1>2, <1>3, <1>4, <1>5, <1>6 DEF Next, Resume

(* A mount finds the head the stopped process worked on, whatever is on    *)
(* the list and however it is used: no operation moves the head without    *)
(* writing the superblock.                                                 *)
THEOREM HeadOnDisk == Spec => []SuperblockCurrent
<1>1. Init => SuperInv
  BY DEF Init, SuperInv, SuperblockCurrent
<1>2. SuperInv /\ [Next]_vars => SuperInv'
  <2>1. ASSUME SuperInv, UNCHANGED vars PROVE SuperInv'
    BY <2>1 DEF SuperInv, SuperblockCurrent, vars, core
  <2> QED
    BY <2>1, SuperStep
<1>3. SuperInv => SuperblockCurrent
  BY DEF SuperInv
<1> QED
  BY <1>1, <1>2, <1>3, PTL DEF Spec

-----------------------------------------------------------------------------
(* FreeList_fsck, on whatever is on the device.  That block numbers on disk *)
(* are words and list blocks are blocks holds however the list is used.    *)
Sblock == [flist_head : Words, free_blocks : 0 .. SizeModulus - 1]

DiskInv ==
    /\ disk \in [DataBlocks -> Block]
    /\ sb \in Sblock /\ sblock_incore \in Sblock
    /\ list_head_blkidx \in Words
    /\ list_head_blkidx # 0 \/ pc = "down" => list_head \in Block
    /\ cand \in Words

LEMMA SblockSet ==
    ASSUME NEW s \in Sblock, NEW h \in Words, NEW n \in 0 .. SizeModulus - 1
    PROVE  /\ [s EXCEPT !.flist_head = h] \in Sblock
           /\ [s EXCEPT !.free_blocks = n] \in Sblock
           /\ s.flist_head \in Words /\ s.free_blocks \in 0 .. SizeModulus - 1
  BY DEF Sblock

LEMMA SblockCount ==
    ASSUME NEW s \in Sblock
    PROVE  /\ [s EXCEPT !.free_blocks = Plus1(@)] \in Sblock
           /\ [s EXCEPT !.free_blocks = Minus1(@)] \in Sblock
<1>1. s.free_blocks \in 0 .. SizeModulus - 1 /\ s.flist_head \in Words
  BY DEF Sblock
<1>2. Plus1(s.free_blocks) \in 0 .. SizeModulus - 1 /\ Minus1(s.free_blocks) \in 0 .. SizeModulus - 1
  BY <1>1, CounterType
<1> QED
  BY <1>1, <1>2, SblockSet

LEMMA BlockSet ==
    ASSUME NEW block \in Block, NEW w \in Words, NEW s
    PROVE  /\ [block EXCEPT !.next = w] \in Block
           /\ [block EXCEPT !.data[s] = w] \in Block
           /\ block.next \in Words /\ block.data \in [Slots -> Words]
  BY DEF Block

LEMMA DiskSet ==
    ASSUME disk \in [DataBlocks -> Block], NEW b, NEW block,
           b \in DataBlocks => block \in Block
    PROVE  /\ WriteBlock(disk, b, block) \in [DataBlocks -> Block]
           /\ b \in DataBlocks => ReadBlock(b, block) \in Block
  BY DEF WriteBlock, ReadBlock

LEMMA DiskStep ==
    ASSUME DiskInv, Next
    PROVE  DiskInv'
<1> USE DEF DiskInv
<1>0. 0 \in Words /\ DataBlocks \subseteq Words /\ ZeroBlock \in Block /\ 0 \notin DataBlocks
  BY ConstantFacts
<1>1. CASE PopEmpty \/ AppendReject
  BY <1>1 DEF PopEmpty, AppendReject, vars, core
<1>2. CASE PopSlot
  <2>1. PICK s \in Slots :
            IF list_head.data[s] \in DataBlocks
            THEN /\ disk' = WriteBlock(disk, list_head.data[s], ZeroBlock)
                 /\ cand' = list_head.data[s]
                 /\ pc' = "pop_slot"
            ELSE UNCHANGED <<disk, cand, pc>>
    BY <1>2 DEF PopSlot, Occupied
  <2>2. disk' \in [DataBlocks -> Block] /\ cand' \in Words
    BY <1>0, <2>1, DiskSet
  <2>3. list_head \in Block
    BY <1>2 DEF PopSlot
  <2> QED
    BY <1>2, <2>2, <2>3 DEF PopSlot
<1>3. CASE ClearSlot
  <2>1. list_head_blkidx # 0 => list_head' \in Block
    BY <1>0, <1>3, BlockSet DEF ClearSlot
  <2>2. disk' \in [DataBlocks -> Block]
    BY <1>0, <1>3, <2>1, DiskSet DEF ClearSlot
  <2>3. sblock_incore' \in Sblock
    BY <1>3, SblockCount DEF ClearSlot
  <2> QED
    BY <1>0, <1>3, <2>1, <2>2, <2>3 DEF ClearSlot
<1>4. CASE PopHead
  <2>1. list_head \in Block /\ list_head.next \in Words
    BY <1>4, BlockSet DEF PopHead, Block
  <2>2. list_head.next # 0 => list_head' \in Block
    BY <1>4, <2>1 DEF PopHead, ReadBlock
  <2>3. sblock_incore' \in Sblock
    BY <1>4, <2>1, SblockSet DEF PopHead, Sblock
  <2> QED
    BY <1>4, <2>1, <2>2, <2>3 DEF PopHead
<1>5. CASE ZeroHead
  <2>1. disk' \in [DataBlocks -> Block]
    BY <1>0, <1>5, DiskSet DEF ZeroHead
  <2>2. sblock_incore' \in Sblock
    BY <1>5, SblockCount DEF ZeroHead
  <2> QED
    BY <1>0, <1>5, <2>1, <2>2 DEF ZeroHead
<1>6. ASSUME NEW b \in DataBlocks, AppendEmpty(b) PROVE DiskInv'
  <2>1. list_head' \in Block
    BY <1>6, DiskSet DEF AppendEmpty, ReadBlock
  <2>2. sb' \in Sblock
    BY <1>0, <1>6 DEF AppendEmpty, Sblock
  <2>3. sblock_incore' \in Sblock
    BY <1>6, <2>2, SblockCount DEF AppendEmpty
  <2> QED
    BY <1>0, <1>6, <2>1, <2>2, <2>3 DEF AppendEmpty
<1>7. ASSUME NEW b \in DataBlocks, AppendSlot(b) PROVE DiskInv'
  <2>1. PICK s \in Slots : list_head' = [list_head EXCEPT !.data[s] = b]
    BY <1>7 DEF AppendSlot, Empty
  <2>2. list_head' \in Block
    BY <1>0, <1>7, <2>1, BlockSet DEF AppendSlot
  <2>3. disk' \in [DataBlocks -> Block]
    BY <1>7, <2>2, DiskSet DEF AppendSlot
  <2>4. sblock_incore' \in Sblock
    BY <1>7, SblockCount DEF AppendSlot
  <2> QED
    BY <1>7, <2>2, <2>3, <2>4 DEF AppendSlot
<1>8. ASSUME NEW b \in DataBlocks, AppendTail(b) PROVE DiskInv'
  <2>1. list_head' \in Block
    BY <1>0, <1>8, BlockSet DEF AppendTail
  <2> QED
    BY <1>0, <1>8, <2>1 DEF AppendTail
<1>9. CASE SeekTail
  BY <1>9 DEF SeekTail, ghosts
<1>10. CASE SeekAborts \/ Unmount \/ Crash
  <2>1. Stop
    BY <1>10 DEF SeekAborts, Unmount, Crash
  <2>2. 0 \in 0 .. SizeModulus - 1
    BY BoundAssumption, DeviceAssumption
  <2>3. sblock_incore' \in Sblock
    BY <1>0, <2>1, <2>2 DEF Stop, Sblock
  <2> QED
    BY <1>0, <2>1, <2>3 DEF Stop
<1>11. CASE LinkTail
  <2>1. tail_idx \in DataBlocks => [disk[tail_idx] EXCEPT !.next = cand] \in Block
    BY BlockSet
  <2>2. disk' \in [DataBlocks -> Block]
    BY <1>11, <2>1, DiskSet DEF LinkTail
  <2> QED
    BY <1>11, <2>2 DEF LinkTail
<1>12. CASE ZeroTail
  <2>1. disk' \in [DataBlocks -> Block]
    BY <1>0, <1>12, DiskSet DEF ZeroTail
  <2>2. sblock_incore' \in Sblock
    BY <1>12, SblockCount DEF ZeroTail
  <2> QED
    BY <1>0, <1>12, <2>1, <2>2 DEF ZeroTail
<1>13. ASSUME NEW b \in DataBlocks, NEW p \in Payloads, ClientWrite(b, p) PROVE DiskInv'
  <2>1. p \in Block
    BY ContentAssumption
  <2> QED
    BY <1>13, <2>1 DEF ClientWrite, core, Idle
<1>14. CASE Mount
  <2>1. list_head' \in Block \/ sb.flist_head = 0
    BY <1>14 DEF Mount, ReadBlock
  <2> QED
    BY <1>14, <2>1, SblockSet DEF Mount, Sblock
<1> QED
  BY <1>1, <1>2, <1>3, <1>4, <1>5, <1>6, <1>7, <1>8, <1>9, <1>10, <1>11, <1>12, <1>13, <1>14
     DEF Next, Pop, AppendBlock, Resume

(* mkfs writes block numbers only, also when the division is even.         *)
LEMMA RowsEnough ==
    ASSUME NEW i \in 1 .. NFreeListBlocks
    PROVE  /\ Row \in Nat /\ Row = E + 1 /\ Leftover \in 0 .. E /\ InTheList \in Nat
           /\ (i - 1) * Row \in Nat /\ (i - 1) * Row + Leftover <= InTheList
<1>1. E \in Nat /\ E >= 2 /\ First \in Nat /\ NumBlocks \in Nat /\ First < NumBlocks
  BY ConstantFacts, DeviceAssumption
<1>2. Row \in Nat /\ Row > 0 /\ Row = E + 1 /\ InTheList \in Nat
  BY <1>1 DEF Row, InTheList
<1>3. Rows \in Nat /\ Leftover \in 0 .. Row - 1 /\ InTheList = Rows * Row + Leftover
  BY <1>2, Division DEF Rows, Leftover, Row
<1>4. Rows * Row \in Nat
  BY <1>2, <1>3
<1>5. i \in Nat /\ i > 0 /\ i <= NFreeListBlocks
  <2>1. NFreeListBlocks \in Int
    BY <1>1, <1>2 DEF NFreeListBlocks, Row
  <2> QED
    BY <2>1
<1>6. i - 1 <= Rows /\ (Leftover = 0 => i - 1 <= Rows - 1)
  <2>1. CASE Leftover = 0
    <3>1. InTheList + E = Rows * Row + E /\ E < Row
      BY <1>1, <1>2, <1>3, <1>4, <2>1
    <3>2. NFreeListBlocks = Rows
      BY <1>1, <1>2, <1>3, <3>1, DivisionUnique DEF NFreeListBlocks, Row
    <3> QED
      BY <1>3, <1>5, <3>2
  <2>2. CASE Leftover # 0
    <3>1. InTheList + E = (Rows + 1) * Row + (Leftover - 1)
      BY <1>1, <1>2, <1>3, <1>4, <2>2
    <3>2. Rows + 1 \in Nat /\ Leftover - 1 \in Nat /\ Leftover - 1 < Row
      BY <1>2, <1>3, <2>2
    <3>3. NFreeListBlocks = Rows + 1
      BY <1>2, <3>1, <3>2, DivisionUnique DEF NFreeListBlocks, Row
    <3> QED
      BY <1>3, <1>5, <2>2, <3>3
  <2> QED
    BY <2>1, <2>2
<1>7. (i - 1) * Row \in Nat /\ (i - 1) * Row <= Rows * Row
  <2>1. PICK k \in Nat : k = i - 1
    BY <1>5
  <2>2. k <= Rows
    BY <1>6, <2>1
  <2>3. \A a, b, c \in Nat : a <= b => a * c <= b * c /\ a * c \in Nat
    OBVIOUS
  <2> QED
    BY <1>2, <1>3, <2>1, <2>2, <2>3
<1> QED
  BY <1>1, <1>2, <1>3, <1>4, <1>7

LEMMA StartingTyped ==
    ASSUME NEW i \in 1 .. NFreeListBlocks, NEW heap, \A s \in Slots : heap[s] \in Words,
           NEW k, k = IF LinkAt(i) = First THEN StartIdx ELSE 0
    PROVE  StartingBlock(LinkAt(i), k, heap) \in Block
<1>1. E \in Nat /\ First \in Nat /\ NumBlocks \in Nat /\ NumBlocks = First + 1 + InTheList
  BY ConstantFacts DEF InTheList
<1>2. PICK p \in Nat : p = (i - 1) * Row
  BY RowsEnough
<1>3. /\ Row = E + 1 /\ Leftover \in 0 .. E /\ InTheList \in Nat
      /\ p + Leftover <= InTheList
  BY <1>2, RowsEnough
<1>4. i \in Nat /\ i > 0
  BY <1>1, <1>3 DEF NFreeListBlocks
<1>5. /\ LinkAt(i) \in Nat /\ LinkAt(i) >= First /\ k \in 0 .. E
      /\ LinkAt(i) + (E - k) <= First + p + Leftover
  <2>1. CASE i = 1
    BY <1>1, <1>3, <2>1, <1>2 DEF LinkAt, StartIdx
  <2>2. CASE i # 1
    <3>1. (i - 2) * Row = p - Row /\ p - Row \in Nat
      <4>1. PICK j \in Nat : i = j + 2
        BY <1>4, <2>2
      <4>2. (i - 2) = j /\ i - 1 = j + 1
        BY <4>1
      <4>3. (j + 1) * Row = j * Row + Row /\ j * Row \in Nat
        BY <1>1, <1>3
      <4> QED
        BY <1>1, <1>2, <1>3, <4>2, <4>3
    <3>2. LinkAt(i) = First + Leftover + 1 + (p - Row)
      BY <1>3, <2>2, <3>1 DEF LinkAt
    <3>3. LinkAt(i) # First /\ k = 0
      BY <1>1, <1>3, <3>1, <3>2
    <3> QED
      BY <1>1, <1>2, <1>3, <3>1, <3>2, <3>3
  <2> QED
    BY <2>1, <2>2
<1>6. ASSUME NEW s \in Slots
      PROVE  (IF s < k THEN heap[s] ELSE LinkAt(i) + (s - k) + 1) \in Words
  <2>1. s \in Nat /\ s < E
    BY <1>1 DEF Slots
  <2>2. CASE s < k
    BY <2>2
  <2>3. CASE ~(s < k)
    <3>1. LinkAt(i) + (s - k) + 1 \in First .. NumBlocks - 1
      BY <1>1, <1>2, <1>3, <1>5, <2>1, <2>3
    <3> QED
      BY <2>3, <3>1 DEF Words, DataBlocks
  <2> QED
    BY <2>2, <2>3
<1>7. (LET after == LinkAt(i) + (E - k) + 1 IN IF after >= NumBlocks THEN 0 ELSE after) \in Words
  <2>1. PICK after \in Nat : after = LinkAt(i) + (E - k) + 1
    BY <1>1, <1>5
  <2>2. after >= First
    BY <1>1, <1>5, <2>1
  <2>3. after < NumBlocks => after \in DataBlocks
    BY <1>1, <2>1, <2>2 DEF DataBlocks
  <2> QED
    BY <1>1, <2>1, <2>3 DEF Words
<1> QED
  BY <1>6, <1>7 DEF StartingBlock, Block

LEMMA DiskInitial == Init => DiskInv
<1> SUFFICES ASSUME Init PROVE DiskInv
  OBVIOUS
<1>0. 0 \in Words /\ DataBlocks \subseteq Words /\ ZeroBlock \in Block /\ NumBlocks \in Nat
  BY ConstantFacts
<1>1. First \in DataBlocks /\ InTheList + 1 \in 0 .. SizeModulus - 1
  BY ConstantFacts, DeviceAssumption, BoundAssumption DEF DataBlocks, InTheList
<1>2. PICK stale \in Payloads \union {ZeroBlock}, heap \in [Slots -> HeapWords] :
          disk = CreatedDisk(stale, heap)
  BY DEF Init
<1>3. stale \in Block /\ \A s \in Slots : heap[s] \in Words
  BY <1>0, <1>2, ContentAssumption
<1>4. ASSUME NEW b \in DataBlocks PROVE disk[b] \in Block
  <2>1. CASE b \in {LinkAt(i) : i \in 1 .. NFreeListBlocks}
    <3>1. disk[b] = StartingBlock(b, IF b = First THEN StartIdx ELSE 0, heap)
      BY <1>2, <2>1 DEF CreatedDisk
    <3> QED
      BY <1>3, <2>1, <3>1, StartingTyped
  <2>2. CASE b \notin {LinkAt(i) : i \in 1 .. NFreeListBlocks}
    BY <1>2, <1>3, <2>2 DEF CreatedDisk
  <2> QED
    BY <2>1, <2>2
<1>5. disk \in [DataBlocks -> Block]
  BY <1>2, <1>4 DEF CreatedDisk
<1>6. sb \in Sblock /\ sblock_incore \in Sblock
  BY <1>0, <1>1 DEF Init, Sblock
<1> QED
  BY <1>0, <1>1, <1>5, <1>6 DEF Init, DiskInv

LEMMA DiskAlways == Spec => []DiskInv
<1>1. DiskInv /\ [Next]_vars => DiskInv'
  <2>1. ASSUME DiskInv, UNCHANGED vars PROVE DiskInv'
    BY <2>1 DEF DiskInv, vars, core
  <2> QED
    BY <2>1, DiskStep
<1> QED
  BY <1>1, DiskInitial, PTL DEF Spec

-----------------------------------------------------------------------------
(* An induction takes the smallest number for which something fails.       *)
LEMMA LeastNat ==
    ASSUME NEW S, S \subseteq Nat, S # {}
    PROVE  \E m \in S : \A k \in S : m <= k
<1>1. PICK m \in S : \A k \in S : <<k, m>> \notin OpToRel(<, Nat)
  BY WFMin, NatLessThanWellFounded, Zenon
<1>2. \A k \in S : ~(k < m)
  BY <1>1, Zenon DEF OpToRel
<1> QED
  BY <1>2

(* The bad number that comes first is not 0, and the one before it is good. *)
LEMMA FirstBad ==
    ASSUME NEW n \in Nat, NEW Bad, Bad \subseteq 0 .. n, Bad # {}, 0 \notin Bad
    PROVE  \E k \in 0 .. n - 1 : k + 1 \in Bad /\ k \notin Bad
<1>0. Bad \subseteq Nat
  OBVIOUS
<1>1. PICK m \in Bad : \A k \in Bad : m <= k
  BY <1>0, LeastNat
<1>2. PICK k \in Nat : m = k + 1
  BY <1>1
<1> QED
  BY <1>1, <1>2

LEMMA HopsFacts ==
    /\ LastHop \in Nat /\ LastHop > 0 /\ Hops = 0 .. LastHop /\ 0 \in Hops
  BY ConstantFacts, FS_CardinalityType DEF LastHop, Hops

(* The recursive functions of the checker exist: by induction, up to n.    *)
WalkStart == [next |-> sb.flist_head, my_freelist |-> [w \in Words |-> 0],
              count |-> 0, ret |-> TRUE]
WalkNext(walk) == IF walk.next \in DataBlocks THEN FsckBlock(walk) ELSE walk
WalkFits(n, g) == g = [i \in 0 .. n |-> IF i = 0 THEN WalkStart ELSE WalkNext(g[i - 1])]

LEMMA WalkUnfolds == WalkFits(LastHop, FsckWalk)
<1>0. LastHop \in Nat /\ Hops = 0 .. LastHop
  BY HopsFacts
<1>1. PICK Bad : Bad = {n \in 0 .. LastHop : ~ \E g : WalkFits(n, g)}
  OBVIOUS
<1>2. 0 \notin Bad
  <2>1. WalkFits(0, [i \in 0 .. 0 |-> WalkStart])
    BY DEF WalkFits
  <2> QED
    BY <1>1, <2>1
<1>3. ASSUME Bad # {} PROVE FALSE
  <2>1. PICK k \in 0 .. LastHop - 1 : k + 1 \in Bad /\ k \notin Bad
    BY <1>0, <1>1, <1>2, <1>3, FirstBad
  <2>2. PICK g : WalkFits(k, g)
    BY <1>0, <1>1, <2>1
  <2>3. PICK h : h = [i \in 0 .. k + 1 |-> IF i <= k THEN g[i] ELSE WalkNext(g[k])]
    OBVIOUS
  <2>4. ASSUME NEW i \in 0 .. k + 1
        PROVE  h[i] = IF i = 0 THEN WalkStart ELSE WalkNext(h[i - 1])
    <3>1. CASE i <= k
      <4>1. h[i] = g[i] /\ (i # 0 => h[i - 1] = g[i - 1])
        BY <2>1, <2>3, <3>1
      <4> QED
        BY <2>1, <2>2, <3>1, <4>1 DEF WalkFits
    <3>2. CASE i = k + 1
      <4>1. h[i] = WalkNext(g[k]) /\ h[i - 1] = g[k] /\ i # 0
        BY <2>1, <2>3, <3>2
      <4> QED
        BY <4>1
    <3> QED
      BY <2>1, <3>1, <3>2
  <2>5. WalkFits(k + 1, h)
    BY <2>3, <2>4 DEF WalkFits
  <2> QED
    BY <1>1, <2>1, <2>5
<1>4. \E g : WalkFits(LastHop, g)
  <2>1. LastHop \in 0 .. LastHop /\ LastHop \notin Bad
    BY <1>0, <1>3
  <2> QED
    BY <1>1, <2>1
<1>5. FsckWalk = CHOOSE g : WalkFits(LastHop, g)
  BY <1>0 DEF FsckWalk, WalkFits, WalkStart, WalkNext
<1> QED
  BY <1>4, <1>5

HopFits(n, g) ==
    g = [i \in 0 .. n |-> IF i = 0 THEN sb.flist_head
                          ELSE IF g[i - 1] \in DataBlocks THEN disk[g[i - 1]].next ELSE 0]

LEMMA HopUnfolds == HopFits(LastHop, Hop)
<1>0. LastHop \in Nat /\ Hops = 0 .. LastHop
  BY HopsFacts
<1>1. PICK Bad : Bad = {n \in 0 .. LastHop : ~ \E g : HopFits(n, g)}
  OBVIOUS
<1>2. 0 \notin Bad
  <2>1. HopFits(0, [i \in 0 .. 0 |-> sb.flist_head])
    BY DEF HopFits
  <2> QED
    BY <1>1, <2>1
<1>3. ASSUME Bad # {} PROVE FALSE
  <2>1. PICK k \in 0 .. LastHop - 1 : k + 1 \in Bad /\ k \notin Bad
    BY <1>0, <1>1, <1>2, <1>3, FirstBad
  <2>2. PICK g : HopFits(k, g)
    BY <1>0, <1>1, <2>1
  <2>3. PICK h : h = [i \in 0 .. k + 1 |->
                         IF i <= k THEN g[i]
                         ELSE IF g[k] \in DataBlocks THEN disk[g[k]].next ELSE 0]
    OBVIOUS
  <2>4. ASSUME NEW i \in 0 .. k + 1
        PROVE  h[i] = IF i = 0 THEN sb.flist_head
                      ELSE IF h[i - 1] \in DataBlocks THEN disk[h[i - 1]].next ELSE 0
    <3>1. CASE i <= k
      <4>1. h[i] = g[i] /\ (i # 0 => h[i - 1] = g[i - 1])
        BY <2>1, <2>3, <3>1
      <4> QED
        BY <2>1, <2>2, <3>1, <4>1 DEF HopFits
    <3>2. CASE i = k + 1
      <4>1. /\ h[i] = IF g[k] \in DataBlocks THEN disk[g[k]].next ELSE 0
            /\ h[i - 1] = g[k] /\ i # 0
        BY <2>1, <2>3, <3>2
      <4> QED
        BY <4>1
    <3> QED
      BY <2>1, <3>1, <3>2
  <2>5. HopFits(k + 1, h)
    BY <2>3, <2>4 DEF HopFits
  <2> QED
    BY <1>1, <2>1, <2>5
<1>4. \E g : HopFits(LastHop, g)
  <2>1. LastHop \in 0 .. LastHop /\ LastHop \notin Bad
    BY <1>0, <1>3
  <2> QED
    BY <1>1, <2>1
<1>5. Hop = CHOOSE g : HopFits(LastHop, g)
  BY <1>0 DEF Hop, HopFits
<1> QED
  BY <1>4, <1>5

(* One hop, and one turn of the loop.                                      *)
LEMMA HopStep ==
    /\ Hop[0] = sb.flist_head
    /\ \A i \in 0 .. LastHop - 1 :
           Hop[i + 1] = IF Hop[i] \in DataBlocks THEN disk[Hop[i]].next ELSE 0
<1>0. LastHop \in Nat
  BY HopsFacts
<1>1. ASSUME NEW i \in 0 .. LastHop
      PROVE  Hop[i] = IF i = 0 THEN sb.flist_head
                      ELSE IF Hop[i - 1] \in DataBlocks THEN disk[Hop[i - 1]].next ELSE 0
  BY HopUnfolds DEF HopFits
<1>2. ASSUME NEW i \in 0 .. LastHop - 1
      PROVE  Hop[i + 1] = IF Hop[i] \in DataBlocks THEN disk[Hop[i]].next ELSE 0
  <2>1. PICK k \in 0 .. LastHop : k = i + 1 /\ k # 0 /\ k - 1 = i
    BY <1>0
  <2> QED
    BY <1>1, <2>1
<1> QED
  BY <1>0, <1>1, <1>2

LEMMA WalkStep ==
    /\ FsckWalk[0] = WalkStart
    /\ \A i \in 0 .. LastHop - 1 : FsckWalk[i + 1] = WalkNext(FsckWalk[i])
<1>0. LastHop \in Nat
  BY HopsFacts
<1>1. ASSUME NEW i \in 0 .. LastHop
      PROVE  FsckWalk[i] = IF i = 0 THEN WalkStart ELSE WalkNext(FsckWalk[i - 1])
  BY WalkUnfolds DEF WalkFits
<1>2. ASSUME NEW i \in 0 .. LastHop - 1
      PROVE  FsckWalk[i + 1] = WalkNext(FsckWalk[i])
  <2>1. PICK k \in 0 .. LastHop : k = i + 1 /\ k # 0 /\ k - 1 = i
    BY <1>0
  <2> QED
    BY <1>1, <2>1
<1> QED
  BY <1>0, <1>1, <1>2

(* What the checker sees of one list block, and what it adds to the copy.  *)
OnDevice == disk \in [DataBlocks -> Block] /\ sb.flist_head \in Words
Gives(b) == {b} \union {disk[b].data[s] : s \in Seen(disk[b])}
Share(b, w) == Times(w, disk[b]) + IF w = b THEN 1 ELSE 0
Copied(i, w) == FsckWalk[i].my_freelist[w]

LEMMA ScanIs ==
    ASSUME NEW block \in Block
    PROVE  /\ ScanSlot(block) \in Slots \union {NoSlot}
           /\ ScanSlot(block) \in Slots => block.data[ScanSlot(block)] = 0
           /\ \A t \in Slots : t > ScanSlot(block) => block.data[t] # 0
<1> DEFINE Found(s) == /\ s \in Slots => block.data[s] = 0
                       /\ \A t \in Slots : t > s => block.data[t] # 0
<1>0. E \in Nat /\ E >= 2 /\ Slots = 0 .. E - 1 /\ NoSlot = -1
  BY ConstantFacts DEF Slots, NoSlot
<1>1. PICK S : S = {n \in 0 .. E - 1 : block.data[E - 1 - n] = 0}
  OBVIOUS
<1>2. \E s \in Slots \union {NoSlot} : Found(s)
  <2>1. CASE S = {}
    <3>1. ASSUME NEW t \in Slots PROVE block.data[t] # 0
      <4>1. PICK n \in 0 .. E - 1 : n = E - 1 - t /\ t = E - 1 - n
        BY <1>0
      <4> QED
        BY <1>1, <2>1, <4>1
    <3>2. NoSlot \notin Slots
      BY <1>0
    <3> QED
      BY <3>1, <3>2
  <2>2. CASE S # {}
    <3>1. S \subseteq Nat
      BY <1>0, <1>1
    <3>2. PICK n \in S : \A k \in S : n <= k
      BY <2>2, <3>1, LeastNat
    <3>3. PICK s \in Slots : s = E - 1 - n /\ block.data[s] = 0
      BY <1>0, <1>1, <3>2
    <3>4. ASSUME NEW t \in Slots, t > s PROVE block.data[t] # 0
      <4>1. PICK k \in 0 .. E - 1 : k = E - 1 - t /\ t = E - 1 - k /\ k < n
        BY <1>0, <1>1, <3>2, <3>3, <3>4
      <4>2. k \notin S
        <5>1. \A j \in S : n <= j /\ n \in Nat
          BY <3>1, <3>2
        <5> QED
          BY <4>1, <5>1
      <4> QED
        BY <1>1, <4>1, <4>2
    <3> QED
      BY <3>3, <3>4
  <2> QED
    BY <2>1, <2>2
<1>3. ScanSlot(block) = CHOOSE s \in Slots \union {NoSlot} : Found(s)
  BY DEF ScanSlot
<1> HIDE DEF Found
<1>4. ScanSlot(block) \in Slots \union {NoSlot} /\ Found(ScanSlot(block))
  BY <1>2, <1>3
<1> QED
  BY <1>4 DEF Found

LEMMA SeenIs ==
    ASSUME NEW block \in Block
    PROVE  /\ Seen(block) \subseteq Slots /\ IsFiniteSet(Seen(block))
           /\ \A s \in Seen(block) : block.data[s] # 0 /\ block.data[s] \in Words
           /\ Cardinality(Seen(block)) \in Nat
<1>1. IsFiniteSet(Slots)
  BY ConstantFacts, FS_Interval DEF Slots
<1>2. Seen(block) \subseteq Slots
  BY DEF Seen
<1>3. IsFiniteSet(Seen(block))
  BY <1>1, <1>2, FS_Subset
<1>4. \A s \in Seen(block) : block.data[s] # 0
  BY ScanIs DEF Seen
<1> QED
  BY <1>2, <1>3, <1>4, FS_CardinalityType DEF Block

LEMMA OneOrTwo ==
    ASSUME NEW S, IsFiniteSet(S)
    PROVE  /\ Cardinality(S) \in Nat
           /\ (Cardinality(S) = 0 <=> S = {})
           /\ \A x, y \in S : x # y => Cardinality(S) >= 2
           /\ (\A x, y \in S : x = y) => Cardinality(S) <= 1
<1>1. Cardinality(S) \in Nat /\ (Cardinality(S) = 0 <=> S = {})
  BY FS_CardinalityType, FS_EmptySet
<1>2. ASSUME NEW x \in S, NEW y \in S, x # y PROVE Cardinality(S) >= 2
  <2>1. /\ IsFiniteSet(S \ {x}) /\ Cardinality(S \ {x}) = Cardinality(S) - 1
    BY FS_RemoveElement
  <2>2. Cardinality(S \ {x}) # 0 /\ Cardinality(S \ {x}) \in Nat
    BY <1>2, <2>1, FS_CardinalityType, FS_EmptySet
  <2> QED
    BY <1>1, <2>1, <2>2
<1>3. ASSUME \A x, y \in S : x = y PROVE Cardinality(S) <= 1
  <2>1. CASE S = {}
    BY <1>1, <2>1
  <2>2. CASE S # {}
    <3>1. PICK x \in S : TRUE
      BY <2>2
    <3>2. S = {x}
      BY <1>3, <3>1
    <3> QED
      BY <3>2, FS_Singleton
  <2> QED
    BY <2>1, <2>2
<1> QED
  BY <1>1, <1>2, <1>3

LEMMA ShareIs ==
    ASSUME OnDevice, NEW b \in DataBlocks, NEW w \in Words
    PROVE  /\ Share(b, w) \in Nat
           /\ Share(b, w) # 0 <=> w \in Gives(b)
           /\ \A s, t \in Seen(disk[b]) :
                  s # t /\ disk[b].data[s] = w /\ disk[b].data[t] = w => Share(b, w) >= 2
           /\ \A s \in Seen(disk[b]) : disk[b].data[s] = w /\ w = b => Share(b, w) >= 2
           /\ (/\ \A s, t \in Seen(disk[b]) : disk[b].data[s] = disk[b].data[t] => s = t
               /\ \A s \in Seen(disk[b]) : disk[b].data[s] # b)
                  => Share(b, w) <= 1
<1>1. disk[b] \in Block
  BY DEF OnDevice
<1>2. PICK S : S = {s \in Seen(disk[b]) : disk[b].data[s] = w}
  OBVIOUS
<1>3. IsFiniteSet(S)
  BY <1>1, <1>2, SeenIs, FS_Subset
<1>4. Share(b, w) = Cardinality(S) + IF w = b THEN 1 ELSE 0
  BY <1>2 DEF Share, Times
<1>5. /\ Cardinality(S) \in Nat
      /\ (Cardinality(S) = 0 <=> S = {})
      /\ \A x, y \in S : x # y => Cardinality(S) >= 2
      /\ (\A x, y \in S : x = y) => Cardinality(S) <= 1
  BY <1>3, OneOrTwo
<1>6. Share(b, w) \in Nat
  BY <1>4, <1>5
<1>7. Share(b, w) # 0 <=> w \in Gives(b)
  <2>1. w \in Gives(b) <=> w = b \/ S # {}
    BY <1>2 DEF Gives
  <2> QED
    BY <1>4, <1>5, <2>1
<1>8. ASSUME NEW s \in Seen(disk[b]), NEW t \in Seen(disk[b]),
             s # t, disk[b].data[s] = w, disk[b].data[t] = w
      PROVE  Share(b, w) >= 2
  <2>1. s \in S /\ t \in S
    BY <1>2, <1>8
  <2> QED
    BY <1>4, <1>5, <1>8, <2>1
<1>9. ASSUME NEW s \in Seen(disk[b]), disk[b].data[s] = w, w = b PROVE Share(b, w) >= 2
  <2>1. S # {}
    BY <1>2, <1>9
  <2> QED
    BY <1>4, <1>5, <1>9, <2>1
<1>10. ASSUME \A s, t \in Seen(disk[b]) : disk[b].data[s] = disk[b].data[t] => s = t,
              \A s \in Seen(disk[b]) : disk[b].data[s] # b
       PROVE  Share(b, w) <= 1
  <2>1. CASE w = b
    <3>1. S = {}
      BY <1>2, <1>10, <2>1
    <3> QED
      BY <1>4, <1>5, <2>1, <3>1
  <2>2. CASE w # b
    <3>1. \A x, y \in S : x = y
      BY <1>2, <1>10
    <3> QED
      BY <1>4, <1>5, <2>2, <3>1
  <2> QED
    BY <2>1, <2>2
<1> QED
  BY <1>6, <1>7, <1>8, <1>9, <1>10

(* What the walk has when it has read i list blocks.                       *)
WalkType(i) ==
    /\ FsckWalk[i].next \in Words /\ FsckWalk[i].count \in Nat
    /\ \A w \in Words : Copied(i, w) \in Nat

Turned(i, b) ==
    /\ FsckWalk[i + 1].next = disk[b].next
    /\ \A w \in Words : Copied(i + 1, w) = Copied(i, w) + Share(b, w)
    /\ FsckWalk[i + 1].count = FsckWalk[i].count + 1 + Cardinality(Seen(disk[b]))
    /\ FsckWalk[i + 1].ret <=> /\ FsckWalk[i].ret /\ ~GapSeen(disk[b])
                               /\ \A s \in Seen(disk[b]) : Copied(i + 1, disk[b].data[s]) = 1

LEMMA Turn ==
    ASSUME OnDevice, NEW i \in 0 .. LastHop - 1, WalkType(i), FsckWalk[i].next \in DataBlocks
    PROVE  Turned(i, FsckWalk[i].next)
<1>1. PICK walk : walk = FsckWalk[i]
  OBVIOUS
<1>2. PICK b \in DataBlocks : b = FsckWalk[i].next
  OBVIOUS
<1>3. FsckWalk[i + 1] = FsckBlock(walk)
  BY <1>1, WalkStep DEF WalkNext
<1>4. PICK copy : copy = Tally(walk.my_freelist, b, disk[b])
  OBVIOUS
<1>5. /\ FsckWalk[i + 1].next = disk[b].next
      /\ FsckWalk[i + 1].my_freelist = copy
      /\ FsckWalk[i + 1].count = walk.count + 1 + Cardinality(Seen(disk[b]))
      /\ FsckWalk[i + 1].ret <=> /\ walk.ret /\ ~GapSeen(disk[b])
                                 /\ \A s \in Seen(disk[b]) : copy[disk[b].data[s]] = 1
  BY <1>1, <1>2, <1>3, <1>4 DEF FsckBlock
<1>6. ASSUME NEW w \in Words PROVE Copied(i + 1, w) = Copied(i, w) + Share(b, w)
  <2>1. Copied(i + 1, w) = walk.my_freelist[w] + Times(w, disk[b]) + IF w = b THEN 1 ELSE 0
    BY <1>4, <1>5 DEF Copied, Tally
  <2>2. walk.my_freelist[w] \in Nat /\ walk.my_freelist[w] = Copied(i, w)
    BY <1>1 DEF WalkType, Copied
  <2>3. Times(w, disk[b]) \in Nat
    <3>1. disk[b] \in Block
      BY DEF OnDevice
    <3>2. IsFiniteSet({s \in Seen(disk[b]) : disk[b].data[s] = w})
      BY <3>1, SeenIs, FS_Subset
    <3> QED
      BY <3>2, FS_CardinalityType DEF Times
  <2> QED
    BY <2>1, <2>2, <2>3 DEF Share
<1> QED
  BY <1>1, <1>2, <1>5, <1>6 DEF Turned, Copied

LEMMA Ended ==
    ASSUME NEW i \in 0 .. LastHop - 1, FsckWalk[i].next \notin DataBlocks
    PROVE  FsckWalk[i + 1] = FsckWalk[i]
  BY WalkStep DEF WalkNext

LEMMA WalkTyped ==
    ASSUME OnDevice
    PROVE  \A i \in 0 .. LastHop : WalkType(i)
<1>0. LastHop \in Nat
  BY HopsFacts
<1>1. PICK Bad : Bad = {i \in 0 .. LastHop : ~WalkType(i)}
  OBVIOUS
<1>2. 0 \notin Bad
  BY <1>1, WalkStep DEF WalkType, WalkStart, Copied, OnDevice
<1>3. ASSUME Bad # {} PROVE FALSE
  <2>1. PICK k \in 0 .. LastHop - 1 : k + 1 \in Bad /\ k \notin Bad
    BY <1>0, <1>1, <1>2, <1>3, FirstBad
  <2>2. WalkType(k) /\ ~WalkType(k + 1)
    BY <1>0, <1>1, <2>1
  <2>3. CASE FsckWalk[k].next \in DataBlocks
    <3>1. PICK b \in DataBlocks : b = FsckWalk[k].next
      BY <2>3
    <3>2. Turned(k, b)
      BY <2>2, <3>1, Turn
    <3>3. disk[b] \in Block /\ disk[b].next \in Words
      BY DEF OnDevice, Block
    <3>4. Cardinality(Seen(disk[b])) \in Nat
      BY <3>3, SeenIs
    <3>5. \A w \in Words : Share(b, w) \in Nat
      BY ShareIs
    <3> QED
      BY <2>2, <3>2, <3>3, <3>4, <3>5 DEF Turned, WalkType
  <2>4. CASE FsckWalk[k].next \notin DataBlocks
    BY <2>2, <2>4, Ended DEF WalkType, Copied
  <2> QED
    BY <2>3, <2>4
<1> QED
  BY <1>1, <1>3

(* As long as one of the two goes on, the loop and the hops are at the same *)
(* list block.                                                             *)
LEMMA HopsAlong ==
    ASSUME NEW m \in 0 .. LastHop, OnDevice,
           \A i \in 0 .. m - 1 : Hop[i] \in DataBlocks \/ FsckWalk[i].next \in DataBlocks
    PROVE  \A i \in 0 .. m : FsckWalk[i].next = Hop[i]
<1>0. LastHop \in Nat /\ m \in Nat
  BY HopsFacts
<1>1. PICK Bad : Bad = {i \in 0 .. m : FsckWalk[i].next # Hop[i]}
  OBVIOUS
<1>2. 0 \notin Bad
  BY <1>1, WalkStep, HopStep DEF WalkStart
<1>3. ASSUME Bad # {} PROVE FALSE
  <2>1. PICK k \in 0 .. m - 1 : k + 1 \in Bad /\ k \notin Bad
    BY <1>0, <1>1, <1>2, <1>3, FirstBad
  <2>2. k \in 0 .. LastHop - 1 /\ k \in 0 .. m
    BY <1>0, <2>1
  <2>3. FsckWalk[k].next = Hop[k] /\ FsckWalk[k + 1].next # Hop[k + 1]
    BY <1>1, <2>1, <2>2
  <2>4. PICK b \in DataBlocks : b = Hop[k]
    BY <2>1, <2>3
  <2>5. Turned(k, b)
    <3>1. WalkType(k)
      BY <1>0, <2>2, WalkTyped
    <3> QED
      BY <2>2, <2>3, <2>4, <3>1, Turn
  <2>6. Hop[k + 1] = disk[b].next
    BY <2>2, <2>4, HopStep
  <2> QED
    BY <2>3, <2>5, <2>6 DEF Turned
<1> QED
  BY <1>1, <1>3

(* Where the loop has stopped it stays.                                    *)
LEMMA WalkStays ==
    ASSUME NEW m \in 0 .. LastHop, FsckWalk[m].next \notin DataBlocks
    PROVE  \A i \in m .. LastHop : FsckWalk[i] = FsckWalk[m]
<1>0. LastHop \in Nat /\ m \in Nat /\ LastHop - m \in Nat
  BY HopsFacts
<1>1. PICK Bad : Bad = {i \in 0 .. LastHop - m : FsckWalk[m + i] # FsckWalk[m]}
  OBVIOUS
<1>2. 0 \notin Bad
  BY <1>0, <1>1
<1>3. ASSUME Bad # {} PROVE FALSE
  <2>1. PICK k \in 0 .. (LastHop - m) - 1 : k + 1 \in Bad /\ k \notin Bad
    BY <1>0, <1>1, <1>2, <1>3, FirstBad
  <2>2. m + k \in 0 .. LastHop - 1 /\ k \in 0 .. LastHop - m
    BY <1>0, <2>1
  <2>3. FsckWalk[m + k] = FsckWalk[m]
    BY <1>1, <2>1, <2>2
  <2>4. FsckWalk[(m + k) + 1] = FsckWalk[m + k]
    BY <2>2, <2>3, Ended
  <2>5. m + (k + 1) = (m + k) + 1
    BY <1>0, <2>1
  <2> QED
    BY <1>1, <2>1, <2>3, <2>4, <2>5
<1>4. ASSUME NEW i \in m .. LastHop PROVE FsckWalk[i] = FsckWalk[m]
  <2>1. PICK k \in 0 .. LastHop - m : i = m + k
    BY <1>0
  <2> QED
    BY <1>1, <1>3, <2>1
<1> QED
  BY <1>4

LEMMA HopStays ==
    ASSUME NEW m \in 0 .. LastHop, Hop[m] \notin DataBlocks
    PROVE  \A i \in m + 1 .. LastHop : Hop[i] = 0
<1>0. LastHop \in Nat /\ m \in Nat /\ 0 \notin DataBlocks
  BY HopsFacts, ConstantFacts
<1>1. PICK Bad : Bad = {i \in 0 .. LastHop - m : Hop[m + i] \in DataBlocks}
  OBVIOUS
<1>2. 0 \notin Bad
  BY <1>0, <1>1
<1>3. ASSUME Bad # {} PROVE FALSE
  <2>0. LastHop - m \in Nat
    BY <1>0
  <2>1. PICK k \in 0 .. (LastHop - m) - 1 : k + 1 \in Bad /\ k \notin Bad
    BY <2>0, <1>1, <1>2, <1>3, FirstBad
  <2>2. m + k \in 0 .. LastHop - 1 /\ k \in 0 .. LastHop - m
    BY <1>0, <2>1
  <2>3. Hop[m + k] \notin DataBlocks
    BY <1>1, <2>1, <2>2
  <2>4. Hop[(m + k) + 1] = 0
    BY <2>2, <2>3, HopStep
  <2>5. m + (k + 1) = (m + k) + 1
    BY <1>0, <2>1
  <2> QED
    BY <1>0, <1>1, <2>1, <2>4, <2>5
<1>4. ASSUME NEW i \in m + 1 .. LastHop PROVE Hop[i] = 0
  <2>1. PICK k \in 0 .. LastHop - m : i - 1 = m + k /\ i = (m + k) + 1
    BY <1>0
  <2>2. Hop[m + k] \notin DataBlocks
    BY <1>1, <1>3, <2>1
  <2>3. m + k \in 0 .. LastHop - 1
    BY <1>0, <2>1
  <2> QED
    BY <2>1, <2>2, <2>3, HopStep
<1> QED
  BY <1>4

(* A list that comes to its end after m list blocks, all on the device.    *)
EndsAt(m) ==
    /\ m \in 0 .. LastHop
    /\ Hop[m] = 0
    /\ \A i \in 0 .. m - 1 : Hop[i] \in DataBlocks

LEMMA StraightEnds == Straight => \E m \in 0 .. LastHop : EndsAt(m)
<1> SUFFICES ASSUME Straight PROVE \E m \in 0 .. LastHop : EndsAt(m)
  OBVIOUS
<1>0. LastHop \in Nat /\ Hops = 0 .. LastHop
  BY HopsFacts
<1>1. PICK S : S = {i \in 0 .. LastHop : Hop[i] = 0}
  OBVIOUS
<1>2. LastHop \in S /\ S \subseteq Nat
  BY <1>0, <1>1 DEF Straight
<1>3. PICK m \in S : \A k \in S : m <= k
  BY <1>2, LeastNat
<1>4. ASSUME NEW i \in 0 .. m - 1 PROVE Hop[i] \in DataBlocks
  <2>1. i \in 0 .. LastHop /\ i \notin S
    BY <1>0, <1>1, <1>2, <1>3
  <2>2. Hop[i] # 0
    BY <1>1, <2>1
  <2> QED
    BY <1>0, <2>1, <2>2 DEF Straight, Reached
<1> QED
  BY <1>1, <1>3, <1>4 DEF EndsAt

LEMMA EndsStraight ==
    ASSUME NEW m \in 0 .. LastHop, EndsAt(m)
    PROVE  Straight /\ Reached = {Hop[i] : i \in 0 .. m - 1}
<1>0. LastHop \in Nat /\ Hops = 0 .. LastHop /\ 0 \notin DataBlocks /\ m \in Nat /\ m <= LastHop
  BY HopsFacts, ConstantFacts
<1>1. \A i \in m .. LastHop : Hop[i] = 0
  <2>1. Hop[m] = 0 /\ Hop[m] \notin DataBlocks
    BY <1>0 DEF EndsAt
  <2>2. ASSUME NEW i \in m .. LastHop PROVE Hop[i] = 0
    <3>1. i = m \/ i \in m + 1 .. LastHop
      BY <1>0
    <3> QED
      BY <2>1, <3>1, HopStays
  <2> QED
    BY <2>2
<1>2. ASSUME NEW i \in 0 .. LastHop
      PROVE  Hop[i] = 0 \/ (i \in 0 .. m - 1 /\ Hop[i] \in DataBlocks)
  <2>1. i \in 0 .. m - 1 \/ i \in m .. LastHop
    BY <1>0
  <2> QED
    BY <1>1, <2>1 DEF EndsAt
<1>3. ASSUME NEW i \in 0 .. m - 1 PROVE i \in 0 .. LastHop /\ Hop[i] # 0
  BY <1>0 DEF EndsAt
<1>4. Reached = {Hop[i] : i \in 0 .. m - 1}
  BY <1>0, <1>2, <1>3 DEF Reached
<1>5. Hop[LastHop] = 0
  BY <1>0, <1>1
<1> QED
  BY <1>0, <1>2, <1>4, <1>5 DEF Straight, Reached

LEMMA TurnAt ==
    ASSUME OnDevice, NEW m \in 0 .. LastHop, EndsAt(m)
    PROVE  /\ \A i \in 0 .. m - 1 : /\ Turned(i, Hop[i]) /\ Hop[i] \in DataBlocks
                                    /\ Hop[i] \in Reached
                                    /\ WalkType(i) /\ WalkType(i + 1)
           /\ FsckWalk[LastHop] = FsckWalk[m] /\ FsckWalk[m].next = 0
           /\ WalkType(m) /\ m \in Nat
<1>0. LastHop \in Nat /\ 0 \notin DataBlocks /\ m \in Nat /\ m <= LastHop
  BY HopsFacts, ConstantFacts
<1>1. \A i \in 0 .. m : FsckWalk[i].next = Hop[i]
  BY HopsAlong DEF EndsAt
<1>2. \A i \in 0 .. LastHop : WalkType(i)
  BY WalkTyped
<1>3. ASSUME NEW i \in 0 .. m - 1
      PROVE  /\ Turned(i, Hop[i]) /\ Hop[i] \in DataBlocks /\ Hop[i] \in Reached
             /\ WalkType(i) /\ WalkType(i + 1)
  <2>1. i \in 0 .. LastHop - 1 /\ i \in 0 .. m /\ i \in 0 .. LastHop /\ i + 1 \in 0 .. LastHop
    BY <1>0
  <2>2. Hop[i] \in DataBlocks /\ FsckWalk[i].next = Hop[i]
    BY <1>1, <2>1 DEF EndsAt
  <2>3. WalkType(i) /\ WalkType(i + 1)
    BY <1>2, <2>1
  <2>4. Hop[i] \in Reached
    BY EndsStraight
  <2> QED
    BY <2>1, <2>2, <2>3, <2>4, Turn
<1>4. FsckWalk[m].next = 0
  BY <1>0, <1>1 DEF EndsAt
<1>5. LastHop \in m .. LastHop
  BY <1>0
<1> QED
  BY <1>0, <1>2, <1>3, <1>4, <1>5, WalkStays

(* A number is in the copy at least as often as any two list blocks give   *)
(* it, and not without one that does.                                      *)
CopyIs(n) ==
    /\ \A w \in Words : /\ \A i \in 0 .. n - 1 : Copied(n, w) >= Share(Hop[i], w)
                        /\ \A i, j \in 0 .. n - 1 :
                               i # j => Copied(n, w) >= Share(Hop[i], w) + Share(Hop[j], w)
                        /\ Copied(n, w) # 0 => \E i \in 0 .. n - 1 : w \in Gives(Hop[i])
    /\ FsckWalk[n].ret => \A i \in 0 .. n - 1 : ~GapSeen(disk[Hop[i]])

LEMMA CopyStep ==
    ASSUME OnDevice, NEW m \in 0 .. LastHop, EndsAt(m), NEW k \in 0 .. m - 1, CopyIs(k)
    PROVE  CopyIs(k + 1)
<1>0. /\ Turned(k, Hop[k]) /\ WalkType(k) /\ m \in Nat
      /\ \A i \in 0 .. k : Hop[i] \in DataBlocks
      /\ k \in Nat /\ (k + 1) - 1 = k
  BY TurnAt
<1>1. \A i \in 0 .. k : i = k \/ i \in 0 .. k - 1
  BY <1>0
<1>2. ASSUME NEW w \in Words
      PROVE  /\ \A i \in 0 .. k : Copied(k + 1, w) >= Share(Hop[i], w)
             /\ \A i, j \in 0 .. k :
                    i # j => Copied(k + 1, w) >= Share(Hop[i], w) + Share(Hop[j], w)
             /\ Copied(k + 1, w) # 0 => \E i \in 0 .. k : w \in Gives(Hop[i])
  <2>1. PICK c \in Nat : c = Copied(k, w)
    BY <1>0 DEF WalkType
  <2>2. PICK d \in Nat : d = Share(Hop[k], w)
    BY <1>0, ShareIs
  <2>3. Copied(k + 1, w) = c + d
    BY <1>0, <2>1, <2>2 DEF Turned
  <2>4. \A i \in 0 .. k : Share(Hop[i], w) \in Nat
    BY <1>0, ShareIs
  <2>5. \A i \in 0 .. k - 1 : c >= Share(Hop[i], w)
    BY <2>1 DEF CopyIs
  <2>6. \A i, j \in 0 .. k - 1 : i # j => c >= Share(Hop[i], w) + Share(Hop[j], w)
    BY <2>1 DEF CopyIs
  <2>7. \A i \in 0 .. k : Copied(k + 1, w) >= Share(Hop[i], w)
    BY <1>1, <2>1, <2>2, <2>3, <2>4, <2>5
  <2>8. ASSUME NEW i \in 0 .. k, NEW j \in 0 .. k, i # j
        PROVE  Copied(k + 1, w) >= Share(Hop[i], w) + Share(Hop[j], w)
    <3>1. Share(Hop[i], w) \in Nat /\ Share(Hop[j], w) \in Nat
      BY <2>4
    <3>2. CASE i = k
      <4>1. j \in 0 .. k - 1
        BY <1>1, <2>8, <3>2
      <4> QED
        BY <2>2, <2>3, <2>5, <3>1, <3>2, <4>1
    <3>3. CASE j = k
      <4>1. i \in 0 .. k - 1
        BY <1>1, <2>8, <3>3
      <4> QED
        BY <2>2, <2>3, <2>5, <3>1, <3>3, <4>1
    <3>4. CASE i # k /\ j # k
      <4>1. i \in 0 .. k - 1 /\ j \in 0 .. k - 1
        BY <1>1, <3>4
      <4>2. c >= Share(Hop[i], w) + Share(Hop[j], w)
        BY <2>6, <2>8, <4>1
      <4> QED
        BY <2>1, <2>2, <2>3, <3>1, <4>2
    <3> QED
      BY <3>2, <3>3, <3>4
  <2>9. ASSUME Copied(k + 1, w) # 0 PROVE \E i \in 0 .. k : w \in Gives(Hop[i])
    <3>1. CASE c # 0
      <4>1. PICK i \in 0 .. k - 1 : w \in Gives(Hop[i])
        BY <2>1, <3>1 DEF CopyIs
      <4>2. i \in 0 .. k
        BY <1>0
      <4> QED
        BY <4>1, <4>2
    <3>2. CASE c = 0
      <4>1. d # 0 /\ k \in 0 .. k /\ Hop[k] \in DataBlocks
        BY <1>0, <2>2, <2>3, <2>9, <3>2
      <4> QED
        BY <2>2, <4>1, ShareIs
    <3> QED
      BY <3>1, <3>2
  <2> QED
    BY <2>7, <2>8, <2>9
<1>3. ASSUME FsckWalk[k + 1].ret, NEW i \in 0 .. k PROVE ~GapSeen(disk[Hop[i]])
  <2>1. FsckWalk[k].ret /\ ~GapSeen(disk[Hop[k]])
    BY <1>0, <1>3 DEF Turned
  <2>2. \A j \in 0 .. k - 1 : ~GapSeen(disk[Hop[j]])
    BY <2>1 DEF CopyIs
  <2> QED
    BY <1>1, <2>1, <2>2
<1> QED
  BY <1>0, <1>2, <1>3 DEF CopyIs

LEMMA CopyAlways ==
    ASSUME OnDevice, NEW m \in 0 .. LastHop, EndsAt(m)
    PROVE  \A n \in 0 .. m : CopyIs(n)
<1>0. m \in Nat
  BY HopsFacts
<1>1. PICK Bad : Bad = {n \in 0 .. m : ~CopyIs(n)}
  OBVIOUS
<1>2. 0 \notin Bad
  <2>1. 0 .. 0 - 1 = {}
    OBVIOUS
  <2>2. \A w \in Words : Copied(0, w) = 0
    BY WalkStep DEF Copied, WalkStart
  <2>3. CopyIs(0)
    BY <2>1, <2>2 DEF CopyIs
  <2> QED
    BY <1>1, <2>3
<1>3. ASSUME Bad # {} PROVE FALSE
  <2>1. PICK k \in 0 .. m - 1 : k + 1 \in Bad /\ k \notin Bad
    BY <1>0, <1>1, <1>2, <1>3, FirstBad
  <2>2. CopyIs(k) /\ ~CopyIs(k + 1)
    BY <1>0, <1>1, <2>1
  <2> QED
    BY <2>2, CopyStep
<1> QED
  BY <1>1, <1>3

(* What Serves says of a list of which the checker sees every entry.       *)
Sound(claim) ==
    /\ claim = UNION {Gives(b) : b \in Reached}
    /\ \A b, c \in Reached : \A s \in Seen(disk[b]) : disk[b].data[s] # c
    /\ \A b, c \in Reached : \A s \in Seen(disk[b]) : \A t \in Seen(disk[c]) :
           disk[b].data[s] = disk[c].data[t] => b = c /\ s = t

LEMMA ServesSound ==
    ASSUME OnDevice, Straight, NEW claim,
           \A b \in Reached \ {sb.flist_head} : Entries(b) = Seen(disk[b])
    PROVE  Serves(claim) <=> Sound(claim)
<1>1. \A b \in Reached : OfferedOf(b) = Seen(disk[b])
  BY DEF OfferedOf
<1>2. \A b \in Reached : Seen(disk[b]) \subseteq Slots /\ b \in DataBlocks
  BY SeenIs DEF Straight, OnDevice
<1>3. \A o : o \in Offered <=> /\ o = <<o[1], o[2]>>
                               /\ o[1] \in Reached /\ o[2] \in Seen(disk[o[1]])
  BY <1>1, <1>2 DEF Offered
<1>4. \A b \in Reached : \A s \in Seen(disk[b]) :
          <<b, s>> \in Offered /\ OfferedBy(<<b, s>>) = disk[b].data[s]
  BY <1>3 DEF OfferedBy
<1>5. \A o \in Offered : /\ o[1] \in Reached /\ o[2] \in Seen(disk[o[1]]) /\ o = <<o[1], o[2]>>
                         /\ OfferedBy(o) = disk[o[1]].data[o[2]]
  BY <1>3 DEF OfferedBy
<1>6. Reached \union {OfferedBy(o) : o \in Offered} = UNION {Gives(b) : b \in Reached}
  <2>1. ASSUME NEW w \in Reached \union {OfferedBy(o) : o \in Offered}
        PROVE  \E b \in Reached : w \in Gives(b)
    BY <1>5, <2>1 DEF Gives
  <2>2. ASSUME NEW b \in Reached, NEW w \in Gives(b)
        PROVE  w \in Reached \union {OfferedBy(o) : o \in Offered}
    BY <1>4, <2>2 DEF Gives
  <2> QED
    BY <2>1, <2>2
<1>7. ASSUME Serves(claim) PROVE Sound(claim)
  <2>1. /\ \A o \in Offered : OfferedBy(o) \notin Reached
        /\ \A o, p \in Offered : OfferedBy(o) = OfferedBy(p) => o = p
        /\ claim = UNION {Gives(b) : b \in Reached}
    BY <1>6, <1>7 DEF Serves
  <2>2. \A b, c \in Reached : \A s \in Seen(disk[b]) : disk[b].data[s] # c
    BY <1>4, <2>1
  <2>3. ASSUME NEW b \in Reached, NEW c \in Reached,
               NEW s \in Seen(disk[b]), NEW t \in Seen(disk[c]),
               disk[b].data[s] = disk[c].data[t]
        PROVE  b = c /\ s = t
    <3>1. PICK o, p : o = <<b, s>> /\ p = <<c, t>>
      OBVIOUS
    <3>2. o \in Offered /\ OfferedBy(o) = disk[b].data[s]
      BY <1>4, <3>1
    <3>3. p \in Offered /\ OfferedBy(p) = disk[c].data[t]
      BY <1>4, <3>1
    <3>4. o = p
      BY <2>1, <2>3, <3>2, <3>3
    <3> QED
      BY <3>1, <3>4
  <2> QED
    BY <2>1, <2>2, <2>3 DEF Sound
<1>8. ASSUME Sound(claim) PROVE Serves(claim)
  <2>1. claim = Reached \union {OfferedBy(o) : o \in Offered}
    BY <1>6, <1>8 DEF Sound
  <2>2. \A o \in Offered : OfferedBy(o) \notin Reached
    BY <1>5, <1>8 DEF Sound
  <2>3. ASSUME NEW o \in Offered, NEW p \in Offered, OfferedBy(o) = OfferedBy(p) PROVE o = p
    <3>1. o[1] = p[1] /\ o[2] = p[2]
      BY <1>5, <1>8, <2>3 DEF Sound
    <3> QED
      BY <1>5, <3>1
  <2> QED
    BY <2>1, <2>2, <2>3 DEF Serves
<1> QED
  BY <1>7, <1>8

(* A copy that equals the claim has nothing twice.                         *)
LEMMA IntactSound ==
    ASSUME OnDevice, NEW m \in 0 .. LastHop, EndsAt(m),
           NEW claim \in SUBSET DataBlocks,
           \A w \in Words : FsckWalk[m].my_freelist[w] = IF w \in claim THEN 1 ELSE 0
    PROVE  Sound(claim)
<1>0. DataBlocks \subseteq Words /\ m \in Nat
  BY ConstantFacts, TurnAt
<1>1. CopyIs(m)
  BY <1>0, CopyAlways
<1>2. ASSUME NEW w \in Words PROVE Copied(m, w) = IF w \in claim THEN 1 ELSE 0
  BY DEF Copied
<1>3. Reached = {Hop[i] : i \in 0 .. m - 1} /\ \A i \in 0 .. m - 1 : Hop[i] \in DataBlocks
  BY EndsStraight, TurnAt
<1>4. \A b \in Reached : b \in DataBlocks /\ disk[b] \in Block
  BY <1>3 DEF OnDevice
<1>5. \A b \in Reached : Gives(b) \subseteq Words
  BY <1>0, <1>4, SeenIs DEF Gives
<1>6. ASSUME NEW b \in Reached, NEW w \in Gives(b) PROVE w \in claim
  <2>1. PICK i \in 0 .. m - 1 : b = Hop[i]
    BY <1>3
  <2>2. w \in Words /\ Share(b, w) # 0 /\ Share(b, w) \in Nat
    BY <1>4, <1>5, <1>6, ShareIs
  <2>3. Copied(m, w) >= Share(b, w)
    BY <1>1, <2>1, <2>2 DEF CopyIs
  <2> QED
    BY <1>2, <2>2, <2>3
<1>7. ASSUME NEW w \in claim PROVE \E b \in Reached : w \in Gives(b)
  <2>1. w \in Words /\ Copied(m, w) # 0
    BY <1>0, <1>2
  <2>2. PICK i \in 0 .. m - 1 : w \in Gives(Hop[i])
    BY <1>1, <2>1 DEF CopyIs
  <2> QED
    BY <1>3, <2>2
<1>8. ASSUME NEW b \in Reached, NEW c \in Reached, NEW w \in Gives(b), w \in Gives(c)
      PROVE  b = c /\ Share(b, w) < 2
  <2>1. PICK i \in 0 .. m - 1, j \in 0 .. m - 1 : b = Hop[i] /\ c = Hop[j]
    BY <1>3
  <2>2. /\ w \in Words /\ Share(b, w) \in Nat /\ Share(b, w) # 0
        /\ Share(c, w) \in Nat /\ Share(c, w) # 0
    BY <1>4, <1>5, <1>8, ShareIs
  <2>3. Copied(m, w) <= 1 /\ Copied(m, w) \in Nat
    BY <1>2, <2>2
  <2>4. Copied(m, w) >= Share(b, w)
    BY <1>1, <2>1, <2>2 DEF CopyIs
  <2>5. i # j => Copied(m, w) >= Share(b, w) + Share(c, w)
    BY <1>1, <2>1, <2>2 DEF CopyIs
  <2>6. i = j
    BY <2>2, <2>3, <2>5
  <2> QED
    BY <2>1, <2>2, <2>3, <2>4, <2>6
<1>9. ASSUME NEW b \in Reached, NEW c \in Reached, NEW s \in Seen(disk[b])
      PROVE  disk[b].data[s] # c
  <2>1. SUFFICES ASSUME disk[b].data[s] = c PROVE FALSE
    OBVIOUS
  <2>2. c \in Gives(b) /\ c \in Gives(c)
    BY <2>1 DEF Gives
  <2>3. b = c /\ Share(b, c) < 2
    BY <1>8, <2>2
  <2>4. c \in Words /\ Share(b, c) >= 2 /\ Share(b, c) \in Nat
    BY <1>0, <1>4, <2>1, <2>3, ShareIs
  <2> QED
    BY <2>3, <2>4
<1>10. ASSUME NEW b \in Reached, NEW c \in Reached,
              NEW s \in Seen(disk[b]), NEW t \in Seen(disk[c]),
              disk[b].data[s] = disk[c].data[t]
       PROVE  b = c /\ s = t
  <2>1. PICK w : w = disk[b].data[s]
    OBVIOUS
  <2>2. w \in Gives(b) /\ w \in Gives(c)
    BY <1>10, <2>1 DEF Gives
  <2>3. b = c /\ Share(b, w) < 2
    BY <1>8, <2>2
  <2>4. w \in Words /\ Share(b, w) \in Nat
    BY <1>4, <1>5, <2>2, ShareIs
  <2>5. s # t => Share(b, w) >= 2
    BY <1>4, <1>10, <2>1, <2>3, <2>4, ShareIs
  <2> QED
    BY <2>3, <2>4, <2>5
<1>11. claim = UNION {Gives(b) : b \in Reached}
  BY <1>6, <1>7
<1> QED
  BY <1>9, <1>10, <1>11 DEF Sound

LEMMA IntactEnds ==
    ASSUME OnDevice, NEW claim, FreeList_fsck(claim) = "intact"
    PROVE  \E m \in 0 .. LastHop : EndsAt(m)
<1>0. LastHop \in Nat /\ 0 \notin DataBlocks /\ LastHop \in 0 .. LastHop
  BY HopsFacts, ConstantFacts
<1>1. PICK walk : walk = FsckWalk[LastHop]
  OBVIOUS
<1>2. walk.next \notin DataBlocks /\ (sb.flist_head = 0 \/ walk.next = 0)
  BY <1>1 DEF FreeList_fsck
<1>3. CASE sb.flist_head = 0
  <2>1. Hop[0] = 0 /\ 0 \in 0 .. LastHop /\ 0 .. 0 - 1 = {}
    BY <1>0, <1>3, HopStep
  <2>2. EndsAt(0)
    BY <2>1 DEF EndsAt
  <2> QED
    BY <2>1, <2>2
<1>4. CASE walk.next = 0
  <2>1. PICK S : S = {i \in 0 .. LastHop : FsckWalk[i].next \notin DataBlocks}
    OBVIOUS
  <2>2. LastHop \in S /\ S \subseteq Nat
    BY <1>0, <1>1, <1>2, <2>1
  <2>3. PICK m \in S : \A k \in S : m <= k
    BY <2>2, LeastNat
  <2>4. ASSUME NEW i \in 0 .. m - 1 PROVE FsckWalk[i].next \in DataBlocks
    <3>1. i \in 0 .. LastHop /\ i \notin S
      BY <1>0, <2>1, <2>2, <2>3
    <3> QED
      BY <2>1, <3>1
  <2>5. m \in 0 .. LastHop /\ FsckWalk[m].next \notin DataBlocks /\ m \in Nat
    BY <2>1, <2>2, <2>3
  <2>6. \A i \in 0 .. m : FsckWalk[i].next = Hop[i]
    BY <2>4, <2>5, HopsAlong
  <2>7. FsckWalk[LastHop] = FsckWalk[m]
    BY <1>0, <2>5, WalkStays
  <2>8. Hop[m] = 0
    BY <1>1, <1>4, <2>5, <2>6, <2>7
  <2>9. \A i \in 0 .. m - 1 : Hop[i] \in DataBlocks
    BY <2>4, <2>5, <2>6
  <2> QED
    BY <2>5, <2>8, <2>9 DEF EndsAt
<1> QED
  BY <1>2, <1>3, <1>4

LEMMA IntactIs ==
    ASSUME OnDevice, NEW claim \in SUBSET DataBlocks, FreeList_fsck(claim) = "intact"
    PROVE  Straight /\ (Serves(claim) \/ \E b \in Reached \ {sb.flist_head} : WideGap(b))
<1>0. 0 \notin DataBlocks /\ DataBlocks \subseteq Words
  BY ConstantFacts
<1>1. PICK m \in 0 .. LastHop : EndsAt(m)
  BY IntactEnds
<1>2. Straight /\ Reached = {Hop[i] : i \in 0 .. m - 1}
  BY <1>1, EndsStraight
<1>3. SUFFICES ASSUME ~ \E b \in Reached \ {sb.flist_head} : WideGap(b)
               PROVE  Serves(claim)
  BY <1>2
<1>4. CASE sb.flist_head = 0
  <2>1. claim = {}
    BY <1>4 DEF FreeList_fsck
  <2>2. Reached = {}
    <3>1. Hop[0] = 0
      BY <1>4, HopStep
    <3>2. m = 0
      <4>1. m # 0 => 0 \in 0 .. m - 1
        BY HopsFacts
      <4> QED
        BY <1>0, <1>1, <3>1, <4>1 DEF EndsAt
    <3> QED
      BY <1>2, <3>2
  <2>3. Sound(claim)
    BY <2>1, <2>2 DEF Sound
  <2> QED
    BY <1>2, <2>2, <2>3, ServesSound
<1>5. CASE sb.flist_head # 0
  <2>1. PICK walk : walk = FsckWalk[LastHop] /\ walk = FsckWalk[m]
    BY <1>1, TurnAt
  <2>2. walk.ret /\ Same(walk, claim)
    BY <1>5, <2>1 DEF FreeList_fsck
  <2>3. Sound(claim)
    BY <1>1, <2>1, <2>2, IntactSound DEF Same
  <2>4. CopyIs(m)
    <3>1. m \in 0 .. m
      BY HopsFacts
    <3> QED
      BY <1>1, <3>1, CopyAlways
  <2>5. \A b \in Reached : ~GapSeen(disk[b])
    BY <1>2, <2>1, <2>2, <2>4 DEF CopyIs
  <2>6. \A b \in Reached \ {sb.flist_head} : Entries(b) = Seen(disk[b])
    BY <1>3, <2>5 DEF WideGap
  <2> QED
    BY <1>2, <2>3, <2>6, ServesSound
<1> QED
  BY <1>4, <1>5

(* Whatever callers left on the device, and wherever it crashed: when      *)
(* FreeList_fsck says that the list appears intact, pop hands out exactly  *)
(* the blocks its caller gave, each of them once, unless a list block after *)
(* the first has a gap wider than one slot.                                *)
THEOREM IntactIsSound == Spec => []IntactServes
<1>1. DiskInv => IntactServes
  <2>1. DiskInv => OnDevice
    BY DEF DiskInv, OnDevice, Sblock
  <2> QED
    BY <2>1, IntactIs DEF IntactServes
<1> QED
  BY <1>1, DiskAlways, PTL

(* A list that ends has no list block twice: what follows a block is on    *)
(* the disk.                                                               *)
LEMMA HopsApart ==
    ASSUME NEW m \in 0 .. LastHop, EndsAt(m), NEW i \in 0 .. m - 1, NEW j \in 0 .. m - 1,
           Hop[i] = Hop[j]
    PROVE  ~(i < j)
<1>0. m \in Nat /\ m <= LastHop /\ LastHop \in Nat /\ 0 \notin DataBlocks
  BY HopsFacts, ConstantFacts
<1> SUFFICES ASSUME i < j PROVE FALSE
  OBVIOUS
<1>1. PICK n \in Nat : n = m - j
  BY <1>0
<1>2. PICK Bad : Bad = {k \in 0 .. n : Hop[i + k] # Hop[j + k]}
  OBVIOUS
<1>3. 0 \notin Bad
  BY <1>2
<1>4. ASSUME Bad # {} PROVE FALSE
  <2>1. PICK k \in 0 .. n - 1 : k + 1 \in Bad /\ k \notin Bad
    BY <1>2, <1>3, <1>4, FirstBad
  <2>2. k \in 0 .. n /\ i + k \in 0 .. LastHop - 1 /\ j + k \in 0 .. LastHop - 1
    BY <1>0, <1>1, <2>1
  <2>3. Hop[i + k] = Hop[j + k]
    BY <1>2, <2>1, <2>2
  <2>4. Hop[(i + k) + 1] = Hop[(j + k) + 1]
    BY <2>2, <2>3, HopStep
  <2>5. (i + k) + 1 = i + (k + 1) /\ (j + k) + 1 = j + (k + 1)
    BY <2>1
  <2> QED
    BY <1>2, <2>1, <2>4, <2>5
<1>5. n \in 0 .. n /\ j + n = m /\ i + n \in 0 .. m - 1
  BY <1>0, <1>1
<1>6. Hop[i + n] = Hop[m]
  BY <1>2, <1>4, <1>5
<1>7. Hop[m] = 0 /\ Hop[i + n] \in DataBlocks
  BY <1>5 DEF EndsAt
<1> QED
  BY <1>0, <1>6, <1>7

LEMMA GivesApart ==
    ASSUME NEW claim, Sound(claim), NEW b \in Reached, NEW c \in Reached,
           NEW w \in Gives(b), w \in Gives(c)
    PROVE  b = c
  BY DEF Sound, Gives

LEMMA GivesCounted ==
    ASSUME OnDevice, NEW claim, Sound(claim), NEW b \in Reached, b \in DataBlocks
    PROVE  /\ IsFiniteSet(Gives(b))
           /\ Cardinality(Gives(b)) = 1 + Cardinality(Seen(disk[b]))
<1>1. PICK S : S = Seen(disk[b]) /\ IsFiniteSet(S) /\ Cardinality(S) \in Nat
  BY SeenIs DEF OnDevice
<1>2. PICK T : T = {disk[b].data[s] : s \in S}
  OBVIOUS
<1>3. /\ \A s, t \in S : disk[b].data[s] = disk[b].data[t] => s = t
      /\ b \notin T
  BY <1>1, <1>2 DEF Sound
<1>4. ExistsBijection(S, T)
  <2>1. PICK f : f = [s \in S |-> disk[b].data[s]]
    OBVIOUS
  <2>2. f \in [S -> T] /\ \A t \in T : \E s \in S : f[s] = t
    BY <1>2, <2>1
  <2>3. \A s, t \in S : f[s] = f[t] => s = t
    BY <1>3, <2>1
  <2> QED
    BY <2>2, <2>3 DEF ExistsBijection, Bijection, Injection, Surjection, IsInjective
<1>5. IsFiniteSet(T) /\ Cardinality(T) = Cardinality(S)
  BY <1>1, <1>4, FS_Bijection
<1>6. /\ IsFiniteSet(T \union {b})
      /\ Cardinality(T \union {b}) = Cardinality(T) + 1
  BY <1>3, <1>5, FS_AddElement
<1>7. Gives(b) = T \union {b}
  BY <1>1, <1>2 DEF Gives
<1> QED
  BY <1>1, <1>5, <1>6, <1>7

(* Of a sound list without gaps the checker sees each block once.          *)
Given(n) == UNION {Gives(Hop[i]) : i \in 0 .. n - 1}
OnceEach(n) ==
    /\ \A w \in Words : Copied(n, w) = IF w \in Given(n) THEN 1 ELSE 0
    /\ FsckWalk[n].ret
    /\ IsFiniteSet(Given(n)) /\ FsckWalk[n].count = Cardinality(Given(n))

LEMMA OnceStep ==
    ASSUME OnDevice, NEW claim, Sound(claim), \A b \in Reached : ~GapSeen(disk[b]),
           NEW m \in 0 .. LastHop, EndsAt(m), NEW k \in 0 .. m - 1, OnceEach(k)
    PROVE  OnceEach(k + 1)
<1>0. /\ Turned(k, Hop[k]) /\ WalkType(k) /\ m \in Nat /\ k \in Nat /\ (k + 1) - 1 = k
      /\ \A i \in 0 .. k : Hop[i] \in DataBlocks /\ Hop[i] \in Reached
  BY TurnAt
<1>1. PICK b \in DataBlocks : b = Hop[k] /\ b \in Reached /\ disk[b] \in Block
  BY <1>0 DEF OnDevice
<1>2. Given(k + 1) = Given(k) \union Gives(b)
  <2>1. \A i : i \in 0 .. k <=> i = k \/ i \in 0 .. k - 1
    BY <1>0
  <2> QED
    BY <1>0, <1>1, <2>1 DEF Given
<1>3. Given(k) \intersect Gives(b) = {}
  <2>1. SUFFICES ASSUME NEW i \in 0 .. k - 1, NEW w \in Gives(Hop[i]), w \in Gives(b)
                 PROVE  FALSE
    BY DEF Given
  <2>2. i \in 0 .. k /\ i \in 0 .. m - 1 /\ i < k
    BY <1>0
  <2>3. Hop[i] = Hop[k]
    BY <1>0, <1>1, <2>1, <2>2, GivesApart
  <2> QED
    BY <2>2, <2>3, HopsApart
<1>4. \A w \in Words : /\ Share(b, w) = IF w \in Gives(b) THEN 1 ELSE 0
                       /\ Copied(k + 1, w) = Copied(k, w) + Share(b, w)
  <2>1. /\ \A s, t \in Seen(disk[b]) : disk[b].data[s] = disk[b].data[t] => s = t
        /\ \A s \in Seen(disk[b]) : disk[b].data[s] # b
    BY <1>1 DEF Sound
  <2>2. \A w \in Words : /\ Share(b, w) \in Nat /\ Share(b, w) <= 1
                         /\ Share(b, w) # 0 <=> w \in Gives(b)
    BY <2>1, ShareIs
  <2> QED
    BY <1>0, <1>1, <2>2 DEF Turned
<1>5. ASSUME NEW w \in Words
      PROVE  Copied(k + 1, w) = IF w \in Given(k + 1) THEN 1 ELSE 0
  BY <1>2, <1>3, <1>4 DEF OnceEach
<1>6. FsckWalk[k + 1].ret
  <2>1. ASSUME NEW s \in Seen(disk[b]) PROVE Copied(k + 1, disk[b].data[s]) = 1
    <3>1. disk[b].data[s] \in Words
      BY <1>1, SeenIs
    <3>2. disk[b].data[s] \in Given(k + 1)
      BY <1>2 DEF Gives
    <3> QED
      BY <1>5, <3>1, <3>2
  <2> QED
    BY <1>0, <1>1, <2>1 DEF Turned, OnceEach
<1>7. IsFiniteSet(Given(k + 1)) /\ FsckWalk[k + 1].count = Cardinality(Given(k + 1))
  <2>1. PICK A, B : A = Given(k) /\ B = Gives(b)
    OBVIOUS
  <2>2. /\ IsFiniteSet(A) /\ IsFiniteSet(B) /\ A \intersect B = {}
        /\ Cardinality(B) = 1 + Cardinality(Seen(disk[b]))
        /\ FsckWalk[k].count = Cardinality(A)
    BY <1>1, <1>3, <2>1, GivesCounted DEF OnceEach
  <2>3. /\ IsFiniteSet(A \union B)
        /\ Cardinality(A \union B) = Cardinality(A) + Cardinality(B) - Cardinality(A \intersect B)
    BY <2>2, FS_Union
  <2>4. Cardinality(A \intersect B) = 0 /\ Cardinality(A) \in Nat /\ Cardinality(B) \in Nat
    BY <2>2, FS_EmptySet, FS_CardinalityType
  <2>5. Cardinality(Seen(disk[b])) \in Nat
    BY <1>1, SeenIs
  <2>6. FsckWalk[k + 1].count = FsckWalk[k].count + 1 + Cardinality(Seen(disk[b]))
    BY <1>0, <1>1 DEF Turned
  <2>7. FsckWalk[k + 1].count = Cardinality(A \union B)
    BY <2>2, <2>3, <2>4, <2>5, <2>6
  <2> QED
    BY <1>2, <2>1, <2>3, <2>7
<1> QED
  BY <1>5, <1>6, <1>7 DEF OnceEach

LEMMA OnceAlways ==
    ASSUME OnDevice, NEW claim, Sound(claim), \A b \in Reached : ~GapSeen(disk[b]),
           NEW m \in 0 .. LastHop, EndsAt(m)
    PROVE  OnceEach(m)
<1>0. m \in Nat
  BY HopsFacts
<1>1. PICK Bad : Bad = {n \in 0 .. m : ~OnceEach(n)}
  OBVIOUS
<1>2. 0 \notin Bad
  <2>1. Given(0) = {}
    <3>1. 0 .. 0 - 1 = {}
      OBVIOUS
    <3> QED
      BY <3>1 DEF Given
  <2>2. \A w \in Words : Copied(0, w) = 0
    BY WalkStep DEF Copied, WalkStart
  <2>3. FsckWalk[0].ret /\ FsckWalk[0].count = 0
    BY WalkStep DEF WalkStart
  <2>4. OnceEach(0)
    BY <2>1, <2>2, <2>3, FS_EmptySet DEF OnceEach
  <2> QED
    BY <1>1, <2>4
<1>3. ASSUME Bad # {} PROVE FALSE
  <2>1. PICK k \in 0 .. m - 1 : k + 1 \in Bad /\ k \notin Bad
    BY <1>0, <1>1, <1>2, <1>3, FirstBad
  <2>2. OnceEach(k) /\ ~OnceEach(k + 1)
    BY <1>0, <1>1, <2>1
  <2> QED
    BY <2>2, OnceStep
<1>4. m \in 0 .. m
  BY <1>0
<1> QED
  BY <1>1, <1>3, <1>4

LEMMA SoundIntact ==
    ASSUME OnDevice, NEW claim \in SUBSET DataBlocks, Serves(claim)
    PROVE  \/ FreeList_fsck(claim) = "intact"
           \/ /\ FreeList_fsck(claim) = "damaged"
              /\ \E b \in Reached : GapSeen(disk[b]) \/ WideGap(b)
<1>0. 0 \notin DataBlocks /\ DataBlocks \subseteq Words
  BY ConstantFacts
<1>1. Straight
  BY DEF Serves
<1>2. PICK m \in 0 .. LastHop : EndsAt(m)
  BY <1>1, StraightEnds
<1>3. PICK walk : walk = FsckWalk[LastHop] /\ walk = FsckWalk[m] /\ walk.next = 0
  BY <1>2, TurnAt
<1>4. FreeList_fsck(claim) \in {"intact", "damaged"}
  BY <1>0, <1>3 DEF FreeList_fsck
<1>5. ASSUME ~ \E b \in Reached : GapSeen(disk[b]) \/ WideGap(b)
      PROVE  FreeList_fsck(claim) = "intact"
  <2>1. /\ \A b \in Reached \ {sb.flist_head} : Entries(b) = Seen(disk[b])
        /\ \A b \in Reached : ~GapSeen(disk[b])
    BY <1>5 DEF WideGap
  <2>2. Sound(claim)
    BY <1>1, <2>1, ServesSound
  <2>3. OnceEach(m)
    BY <1>2, <2>1, <2>2, OnceAlways
  <2>4. claim = Given(m)
    <3>1. Reached = {Hop[i] : i \in 0 .. m - 1}
      BY <1>2, EndsStraight
    <3> QED
      BY <2>2, <3>1 DEF Sound, Given
  <2>5. Same(walk, claim)
    BY <1>3, <2>3, <2>4 DEF Same, OnceEach, Copied
  <2>6. walk.ret
    BY <1>3, <2>3 DEF OnceEach
  <2>7. sb.flist_head = 0 => claim = {}
    <3>1. SUFFICES ASSUME sb.flist_head = 0 PROVE claim = {}
      OBVIOUS
    <3>2. Hop[0] = 0
      BY <3>1, HopStep
    <3>3. 0 .. m - 1 = {}
      <4>1. m # 0 => 0 \in 0 .. m - 1
        BY HopsFacts
      <4>2. m = 0
        BY <1>0, <1>2, <3>2, <4>1 DEF EndsAt
      <4> QED
        BY <4>2
    <3> QED
      BY <2>4, <3>3 DEF Given
  <2> QED
    BY <1>0, <1>3, <2>5, <2>6, <2>7 DEF FreeList_fsck
<1> QED
  BY <1>4, <1>5

(* And conversely: a list from which pop hands out each block of the claim *)
(* once is said to be intact, whatever made it, unless a slot in use lies  *)
(* below an empty one.                                                     *)
THEOREM SoundIsIntact == Spec => []ServesIntact
<1>1. DiskInv => ServesIntact
  <2>1. DiskInv => OnDevice
    BY DEF DiskInv, OnDevice, Sblock
  <2> QED
    BY <2>1, SoundIntact DEF ServesIntact
<1> QED
  BY <1>1, DiskAlways, PTL
=============================================================================
