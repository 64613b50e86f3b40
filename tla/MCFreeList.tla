----------------------------- MODULE MCFreeList -----------------------------
(***************************************************************************)
(* Instances of FreeList for TLC: list blocks of two entries.  A device of *)
(* seven blocks has five data blocks, 2..6: FreeList_create makes a list   *)
(* block with one entry and one that is full.  With six or nine blocks the *)
(* division it does comes out even.                                        *)
(***************************************************************************)
EXTENDS FreeListProofs

(* What callers write: zeros; or a block that, read as a list block, names *)
(* data blocks.                                                            *)
ZeroOnly == {ZeroBlock}
Named == [next |-> First + 1, data |-> [s \in Slots |-> First + 1 + s]]
FileData == {Named}
NoGarbage == {0}
Garbage == {0, First + 1}
=============================================================================
