--------------------------- MODULE MCInodeTable ---------------------------
(***************************************************************************)
(* Instances of InodeTable for TLC: three blocks of two inodes.            *)
(***************************************************************************)
EXTENDS InodeTableProofs

TwoContents == {"zeros", "data"}
=============================================================================
