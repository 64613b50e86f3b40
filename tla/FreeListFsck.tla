---------------------------- MODULE FreeListFsck ----------------------------
(***************************************************************************)
(* FreeList_fsck of free_list.c, run on the device of an unmounted file    *)
(* system: on whatever the operations of FreeList, its crashes and its     *)
(* callers' bytes left there.  It changes nothing, so that it is a         *)
(* function here, of the device and of its caller's claim.                 *)
(*                                                                         *)
(* The claim is the blocks that ought to be free.  The checker walks from  *)
(* the superblock's head along `next', puts every list block and every     *)
(* entry it sees into a sorted copy of the list, and compares that with    *)
(* the claim.  An entry is seen if no slot above it is empty, which is     *)
(* also how far FreeList_init looks.                                       *)
(***************************************************************************)
EXTENDS FreeList

(* More list blocks than these are not read without reading one again.     *)
LastHop == Cardinality(DataBlocks) + 1
Hops == 0 .. LastHop

-----------------------------------------------------------------------------
(* The entries that the loop over the slots gets to, from the last one     *)
(* down, and the gap it sees when it stops: it looks one slot further.     *)
Seen(block) == {s \in Slots : s > ScanSlot(block)}
GapSeen(block) == ScanSlot(block) > 0 /\ block.data[ScanSlot(block) - 1] # 0
Times(w, block) == Cardinality({s \in Seen(block) : block.data[s] = w})

(* Mutant: the list block itself is not put into the copy.                 *)
Tally_EntriesOnly(copy, b, block) == [w \in Words |-> copy[w] + Times(w, block)]

(* The copy after list block b and its entries went into it: how often     *)
(* each number is there.                                                   *)
Tally(copy, b, block) ==
    [w \in Words |-> copy[w] + Times(w, block) + IF w = b THEN 1 ELSE 0]

(* One list block.  That an entry is there again is noticed when it is put *)
(* into the copy; that the list block is, is not.                          *)
FsckBlock(walk) ==
    LET block == disk[walk.next]
        copy == Tally(walk.my_freelist, walk.next, block)
    IN  [next |-> block.next, my_freelist |-> copy,
         count |-> walk.count + 1 + Cardinality(Seen(block)),
         ret |-> /\ walk.ret
                 /\ ~GapSeen(block)
                 /\ \A s \in Seen(block) : copy[block.data[s]] = 1]

(* The loop, as far as it reads blocks.                                    *)
FsckWalk[n \in Hops] ==
    IF n = 0
    THEN [next |-> sb.flist_head, my_freelist |-> [w \in Words |-> 0],
          count |-> 0, ret |-> TRUE]
    ELSE LET walk == FsckWalk[n - 1]
         IN  IF walk.next \in DataBlocks THEN FsckBlock(walk) ELSE walk

(* Mutant: only the lengths are compared.                                  *)
Same_LengthOnly(walk, claim) == walk.count = Cardinality(claim)

(* The lengths, and then the two sorted arrays element by element.         *)
Same(walk, claim) ==
    /\ walk.count = Cardinality(claim)
    /\ \A w \in Words : walk.my_freelist[w] = IF w \in claim THEN 1 ELSE 0

(* Its answer.  An empty list is compared without a copy, a block that     *)
(* cannot be read ends the walk, and on a list that does not come to its   *)
(* end there is none.                                                      *)
FreeList_fsck(claim) ==
    LET walk == FsckWalk[LastHop]
        intact == IF sb.flist_head = 0 THEN claim = {}
                  ELSE walk.next = 0 /\ walk.ret /\ Same(walk, claim)
    IN  CASE walk.next \in DataBlocks -> "none"
          [] walk.next \notin DataBlocks /\ intact -> "intact"
          [] OTHER -> "damaged"

-----------------------------------------------------------------------------
(* What the list is, without a checker.  The places that `next' leads to:  *)
Hop[n \in Hops] ==
    IF n = 0 THEN sb.flist_head
    ELSE IF Hop[n - 1] \in DataBlocks THEN disk[Hop[n - 1]].next ELSE 0
Reached == {Hop[n] : n \in Hops} \ {0}

(* It comes to an end, on the device, within as many hops as there are     *)
(* blocks: there is no cycle.                                              *)
Straight == Hop[LastHop] = 0 /\ Reached \subseteq DataBlocks

(* What FreeList_pop would hand out, block by block, after a mount: of the *)
(* head the entries that FreeList_init found, of every later list block    *)
(* all entries, for pop then starts at the lowest slot; and the list block *)
(* itself.                                                                 *)
Entries(b) == {s \in Slots : disk[b].data[s] # 0}
OfferedBy(o) == disk[o[1]].data[o[2]]
OfferedOf(b) == IF b = sb.flist_head THEN Seen(disk[b]) ELSE Entries(b)
Offered == {o \in Reached \X Slots : o[2] \in OfferedOf(o[1])}
Serves(claim) ==
    /\ Straight
    /\ claim = Reached \union {OfferedBy(o) : o \in Offered}
    /\ \A o \in Offered : OfferedBy(o) \notin Reached
    /\ \A o, p \in Offered : OfferedBy(o) = OfferedBy(p) => o = p

(* Entries below a gap of two slots or more, which the checker passes over *)
(* and pop does not.                                                       *)
WideGap(b) == Entries(b) # Seen(disk[b]) /\ ~GapSeen(disk[b])

(* Whatever is on the device: when FreeList_fsck says that the list appears *)
(* intact, there is no cycle, and popping all of it after a mount yields   *)
(* the blocks its caller gave, each of them once, unless a list block      *)
(* after the first has a wide gap.                                         *)
IntactServes ==
    pc = "down" =>
        \A claim \in SUBSET DataBlocks : FreeList_fsck(claim) = "intact" =>
            /\ Straight
            /\ Serves(claim) \/ \E b \in Reached \ {sb.flist_head} : WideGap(b)

(* And no sound list is refused, unless it shows a gap; nor is one walked  *)
(* without an answer.                                                      *)
ServesIntact ==
    pc = "down" =>
        \A claim \in SUBSET DataBlocks : Serves(claim) =>
            \/ FreeList_fsck(claim) = "intact"
            \/ /\ FreeList_fsck(claim) = "damaged"
               /\ \E b \in Reached : GapSeen(disk[b]) \/ WideGap(b)
=============================================================================
