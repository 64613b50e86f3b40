---------------------------- MODULE MCOpenFiles ----------------------------
(***************************************************************************)
(* The instance of OpenFiles for TLC: two handles, two names, and fewer    *)
(* inodes than nodes are made, so that an inode gets a second file.        *)
(***************************************************************************)
EXTENDS OpenFiles, TLC

TwoNames == {"a", "b"}
Interchangeable == Permutations(Handles)
=============================================================================
