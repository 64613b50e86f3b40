---------------------------- MODULE MCBlockMap ----------------------------
(***************************************************************************)
(* Instances of BlockMap for TLC: indirect blocks of two entries, so that  *)
(* a file of eight data blocks has a triple indirect block.                *)
(***************************************************************************)
EXTENDS BlockMap

UpTo8 == 1 .. 8
UpTo12 == 1 .. 12
UpTo27 == 1 .. 27

(* Files of any number of blocks.                                          *)
Long == [i \in Inodes |-> Limit(4) + 1]

(* One such file, and small ones of one block next to it.                  *)
OneLong == [i \in Inodes |-> IF i = 1 THEN Limit(4) + 1 ELSE 1]

(* A failed write leaves an inode on disk that names free blocks: runs     *)
(* that have one end with it.                                              *)
UntilFailure == failures = 0 \/ pc = "shrink"
=============================================================================
