------------------------------- MODULE MCMkfs -------------------------------
(***************************************************************************)
(* The instance of Mkfs for TLC: every device of up to 40 blocks, with     *)
(* list blocks of three entries and an i-list of a fifth of the device.    *)
(* Before mkfs they hold zeros, an end of a list with entries, or blocks   *)
(* that lead to each other.                                                *)
(***************************************************************************)
EXTENDS Mkfs

UpTo40 == 0 .. 40
LeadTo(next(_), entry) == [b \in 0 .. 39 |-> [next |-> next(b), data |-> [s \in Slots |-> entry]]]
OldContents ==
    {LeadTo(LAMBDA b : 0, 20), LeadTo(LAMBDA b : (b - (b % 8)), 1), LeadTo(LAMBDA b : b + 3, 0)}
=============================================================================
