---------------------------- MODULE MCDirectory ----------------------------
(***************************************************************************)
(* Instances of Directory for TLC: blocks of two entries, so that the root *)
(* directory's first block is full and every other entry may need a block. *)
(***************************************************************************)
EXTENDS Directory

ThreeNames == {"a", "b", "c"}
LongC == {"c"}
(* Links to a path that ends in "a" or in "/".                  *)
SomeTargets == {"a", ""}
=============================================================================
