----------------------------- MODULE BlockPool -----------------------------
(***************************************************************************)
(* What free_list.h promises the rest of the file system, without any of   *)
(* the list: a pool of data blocks.  FreeList_pop hands out a block that   *)
(* nobody uses, zeroed; FreeList_append takes a block back; between the    *)
(* two the block belongs to its caller and only the caller changes it.  A  *)
(* crash in the middle of an operation may lose the one block the          *)
(* operation was moving, and nothing else.  FreeList implements this       *)
(* specification (FreeList!PoolSpec).                                      *)
(***************************************************************************)
EXTENDS Naturals, FiniteSets

CONSTANTS Blocks,      (* the data blocks of the file system               *)
          Contents,    (* what a block can hold                            *)
          Zero,        (* the block of zeros                               *)
          MaxCrashes   (* bound on the crashes of a behaviour              *)

VARIABLES free,        (* the blocks nobody uses                           *)
          content,     (* the blocks in use, each with what it holds       *)
          crashes      (* crashes in the middle of an operation so far     *)

poolVars == <<free, content, crashes>>

Used == DOMAIN content

PoolInit ==
    /\ free = Blocks
    /\ content = [b \in {} |-> Zero]
    /\ crashes = 0

(* A pop takes some free block and zeroes it for its new owner.            *)
Alloc(b) ==
    /\ b \in free
    /\ free' = free \ {b}
    /\ content' = [c \in Used \union {b} |-> IF c = b THEN Zero ELSE content[c]]
    /\ UNCHANGED crashes

(* The owner writes its block.                                             *)
Write(b, p) ==
    /\ b \in Used
    /\ content' = [content EXCEPT ![b] = p]
    /\ UNCHANGED <<free, crashes>>

(* An append gives a block back.                                           *)
Release(b) ==
    /\ b \in Used
    /\ free' = free \union {b}
    /\ content' = [c \in Used \ {b} |-> content[c]]
    /\ UNCHANGED crashes

(* A crash inside an operation loses at most one block.                    *)
Crash ==
    /\ crashes < MaxCrashes
    /\ crashes' = crashes + 1
    /\ \/ UNCHANGED free
       \/ \E b \in free : free' = free \ {b}
    /\ UNCHANGED content

PoolNext ==
    \/ \E b \in Blocks : \/ Alloc(b)
                         \/ Release(b)
                         \/ \E p \in Contents : Write(b, p)
    \/ Crash

PoolBehaviour == PoolInit /\ [][PoolNext]_poolVars
=============================================================================
