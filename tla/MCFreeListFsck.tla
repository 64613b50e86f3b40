--------------------------- MODULE MCFreeListFsck ---------------------------
(***************************************************************************)
(* The instance of FreeListFsck for TLC: two data blocks, 2 and 3, and list *)
(* blocks of three entries.  Callers leave blocks behind that, read as     *)
(* list blocks, name data blocks, have a gap of two slots, or point beyond *)
(* the device.                                                             *)
(***************************************************************************)
EXTENDS FreeListFsck

Named == [next |-> First + 1, data |-> [s \in Slots |-> First + (s % 2)]]
Gapped == [next |-> 0, data |-> [s \in Slots |-> IF s = 0 THEN First ELSE 0]]
Beyond == [next |-> NumBlocks, data |-> [s \in Slots |-> IF s = 1 THEN First ELSE 0]]
Three == {Named, Gapped, Beyond}
NoGarbage == {0}

(* A list that callers' bytes corrupted can grow by blocks it already has. *)
ShortChain == Len(chain) <= Cardinality(DataBlocks) + 1
=============================================================================
