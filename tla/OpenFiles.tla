----------------------------- MODULE OpenFiles -----------------------------
(***************************************************************************)
(* Files that are open while their names come and go.                      *)
(*                                                                         *)
(* cofs_open puts the inode number of a name into fi->fh, and read and     *)
(* write use that number and nothing else (find_target); there is no       *)
(* release.  What keeps the number from going stale is libfuse: unlike     *)
(* cofs, it knows which names are open, and as `hard_remove' is not set    *)
(* (cofs_init) it renames a file that is open instead of unlinking it or   *)
(* renaming over it.  But cofs_rename does nothing and answers success, so *)
(* that libfuse's names and those of the directory drift apart.            *)
(*                                                                         *)
(* One action per request: the process has one thread, and a request is    *)
(* complete before the next.  Kernel and libfuse are external; Directory   *)
(* and BlockMap have the steps of the requests.  The names here are those  *)
(* of the root directory, whose `.' and `..' are left out.                 *)
(***************************************************************************)
EXTENDS Integers, FiniteSets, Functions

CONSTANTS NumInodes,      (* inodes of the i-list but the root's            *)
          NumSlots,       (* slots of the directory after `.' and `..'      *)
          Names,          (* base names                                     *)
          Handles,        (* what the kernel keeps fi->fh in                *)
          SpareBlocks,    (* free data blocks after mkfs                    *)
          MaxFiles,       (* bound: nodes made                              *)
          MaxStrays       (* bound: what writes that miss their file cost   *)

Inums == 1 .. NumInodes
SlotNums == 1 .. NumSlots
Missing == -1             (* INODE_MISSING                                  *)
Hole == [name |-> "", inum |-> 0]
Hidden == ".fuse_hidden"

(* An inode; of its blocks only their number.  `file' tells apart the      *)
(* files that have the inode one after the other, and `foreign' whether    *)
(* another file's bytes were written into it: neither is in the code.      *)
FreeInode == [in_use |-> FALSE, type |-> "file", n_blocks |-> 0,
              file |-> 0, foreign |-> FALSE]
Closed == [fh |-> Missing, name |-> "", file |-> 0, moved |-> FALSE]

ASSUME OpenAssumption ==
    /\ NumInodes \in Nat /\ NumSlots \in Nat /\ NumSlots >= NumInodes
    /\ Names \subseteq STRING \ {"", Hidden}
    /\ SpareBlocks \in Nat /\ MaxFiles \in Nat /\ MaxStrays \in Nat

VARIABLES
    slots,            (* the root directory                                 *)
    inode,            (* the inodes                                         *)
    spare,            (* how many data blocks are free                      *)
    handle,           (* open files: fi->fh, libfuse's name of the node,    *)
                      (* the file it was opened on, and whether libfuse     *)
                      (* gave the node another name since                   *)
    files,            (* auxiliary: nodes made so far                       *)
    strays            (* auxiliary: writes into another file or a free      *)
                      (* inode, each counted as often as it took blocks     *)

openVars == <<slots, inode, spare, handle, files, strays>>

OpenInit ==
    /\ slots = [s \in SlotNums |-> Hole]
    /\ inode = [i \in Inums |-> FreeInode]
    /\ spare = SpareBlocks
    /\ handle = [h \in Handles |-> Closed]
    /\ files = 0
    /\ strays = 0

-----------------------------------------------------------------------------
(* Dir_lookup looks at as many slots as there are entries.                 *)
Used == {s \in SlotNums : slots[s].name # ""}
Found(n) == {s \in SlotNums : s <= Cardinality(Used) /\ slots[s].name = n}
Lowest(S) == CHOOSE s \in S : \A t \in S : s <= t
Lookup(n) == IF Found(n) = {} THEN Missing ELSE slots[Lowest(Found(n))].inum

(* create_node for mknod and mkdir, in the first hole.  It knows a free    *)
(* inode by in_use and overwrites all of it.                               *)
Create(kind, n, i) ==
    LET first_block == IF kind = "dir" THEN 1 ELSE 0
    IN  /\ files < MaxFiles
        /\ Lookup(n) = Missing
        /\ ~inode[i].in_use
        /\ spare >= first_block
        /\ \E s \in SlotNums \ Used :
               /\ \A t \in SlotNums \ Used : s <= t
               /\ slots' = [slots EXCEPT ![s] = [name |-> n, inum |-> i]]
        /\ files' = files + 1
        /\ inode' = [inode EXCEPT ![i] =
                        [in_use |-> TRUE, type |-> kind, n_blocks |-> first_block,
                         file |-> files', foreign |-> FALSE]]
        /\ spare' = spare - first_block
        /\ UNCHANGED <<handle, strays>>

(* A directory for which there is no block: the inode is freed again.      *)
CreateUndone(n, i) ==
    /\ Lookup(n) = Missing
    /\ ~inode[i].in_use
    /\ spare = 0
    /\ inode' = [inode EXCEPT ![i] = FreeInode]
    /\ UNCHANGED <<slots, spare, handle, files, strays>>

(* cofs_open, for a file.                                                  *)
Open(h, n) ==
    /\ handle[h] = Closed
    /\ Lookup(n) # Missing
    /\ inode[Lookup(n)].type = "file"
    /\ handle' = [handle EXCEPT ![h] =
                     [fh |-> Lookup(n), name |-> n,
                      file |-> inode[Lookup(n)].file, moved |-> FALSE]]
    /\ UNCHANGED <<slots, inode, spare, files, strays>>

(* No callback: when a hidden file is closed for the last time libfuse     *)
(* unlinks the name it believes it gave it, which cofs does not find.      *)
Release(h) ==
    /\ handle[h] # Closed
    /\ handle' = [handle EXCEPT ![h] = Closed]
    /\ UNCHANGED <<slots, inode, spare, files, strays>>

-----------------------------------------------------------------------------
(* cofs_write, by fi->fh: the inode's type is looked at and its in_use is  *)
(* not.  The write stays inside the file's blocks or takes as many as its  *)
(* end needs, those of the whole gap before it and the indirect ones       *)
(* included: any number.  (If there are not enough it never returns:       *)
(* FileIO.)                                                                *)
Stray(h) == inode[handle[h].fh].file # handle[h].file
Cost(new_blocks) == IF new_blocks = 0 THEN 1 ELSE new_blocks

Write(h, new_blocks) ==
    LET i == handle[h].fh
    IN  /\ handle[h] # Closed
        /\ inode[i].type # "dir"
        /\ spare >= new_blocks
        /\ inode[i].n_blocks + new_blocks > 0
        /\ Stray(h) => strays + Cost(new_blocks) <= MaxStrays
        /\ inode' = [inode EXCEPT ![i].n_blocks = @ + new_blocks,
                                  ![i].foreign = @ \/ Stray(h)]
        /\ spare' = spare - new_blocks
        /\ strays' = IF Stray(h) THEN strays + Cost(new_blocks) ELSE strays
        /\ UNCHANGED <<slots, handle, files>>

-----------------------------------------------------------------------------
(* libfuse's node of that name is open.                                    *)
IsOpen(n) == \E h \in Handles : handle[h].name = n

(* It gets another name: all that is open on it goes along.                *)
Renamed(from, to) ==
    [h \in Handles |-> IF handle[h].name = from
                       THEN [handle[h] EXCEPT !.name = to, !.moved = TRUE]
                       ELSE handle[h]]

(* unlink of a file that is open: libfuse asks cofs_rename to hide it.     *)
UnlinkOpen(n) ==
    /\ Lookup(n) # Missing /\ inode[Lookup(n)].type = "file"
    /\ IsOpen(n)
    /\ handle' = Renamed(n, Hidden)
    /\ UNCHANGED <<slots, inode, spare, files, strays>>

(* Mutants: libfuse is told to remove what is open (conf->hard_remove);    *)
(* the blocks are not released.                                            *)
Unlink_HardRemove(n) ==
    LET i == Lookup(n)
    IN  /\ i # Missing
        /\ inode[i].type # "dir"
        /\ slots' = [slots EXCEPT ![Lowest(Found(n))] = Hole]
        /\ inode' = [inode EXCEPT ![i] = FreeInode]
        /\ spare' = spare + inode[i].n_blocks
        /\ UNCHANGED <<handle, files, strays>>
Unlink_BlocksKept(n) ==
    LET i == Lookup(n)
    IN  /\ i # Missing
        /\ ~IsOpen(n)
        /\ inode[i].type # "dir"
        /\ slots' = [slots EXCEPT ![Lowest(Found(n))] = Hole]
        /\ inode' = [inode EXCEPT ![i] = FreeInode]
        /\ UNCHANGED <<spare, handle, files, strays>>

(* cofs_unlink: the last reference goes, the blocks and the inode with it. *)
Unlink(n) ==
    LET i == Lookup(n)
    IN  /\ i # Missing
        /\ ~IsOpen(n)
        /\ inode[i].type # "dir"
        /\ slots' = [slots EXCEPT ![Lowest(Found(n))] = Hole]
        /\ inode' = [inode EXCEPT ![i] = FreeInode]
        /\ spare' = spare + inode[i].n_blocks
        /\ UNCHANGED <<handle, files, strays>>

(* cofs_rmdir: the inode has a reference left and stays in use.            *)
Rmdir(n) ==
    /\ Lookup(n) # Missing
    /\ inode[Lookup(n)].type = "dir"
    /\ slots' = [slots EXCEPT ![Lowest(Found(n))] = Hole]
    /\ UNCHANGED <<inode, spare, handle, files, strays>>

(* rename of a file, over a file that is open or not: cofs_rename leaves   *)
(* the directory as it is, and libfuse moves its node all the same.        *)
Rename(a, b) ==
    /\ a # b
    /\ Lookup(a) # Missing /\ inode[Lookup(a)].type = "file"
    /\ Lookup(b) # Missing => inode[Lookup(b)].type = "file"
    /\ handle' = [h \in Handles |-> IF handle[h].name = a
                                    THEN Renamed(a, b)[h] ELSE Renamed(b, Hidden)[h]]
    /\ UNCHANGED <<slots, inode, spare, files, strays>>

(* getattr and read, which write access times only, truncate, which does   *)
(* nothing, and requests that are refused: a name that is not found, no    *)
(* free inode, a directory that is written or unlinked.                    *)
Query == UNCHANGED openVars

-----------------------------------------------------------------------------
OpenNext ==
    \/ \E n \in Names :
           \/ \E i \in Inums : \/ \E kind \in {"file", "dir"} : Create(kind, n, i)
                               \/ CreateUndone(n, i)
           \/ \E h \in Handles : Open(h, n)
           \/ UnlinkOpen(n) \/ Unlink(n) \/ Rmdir(n)
    \/ \E a, b \in Names : Rename(a, b)
    \/ Query
    \/ \E h \in Handles : Release(h) \/ \E new_blocks \in 0 .. SpareBlocks : Write(h, new_blocks)

OpenSpec == OpenInit /\ [][OpenNext]_openVars

-----------------------------------------------------------------------------
Entry == [name : Names \union {""}, inum : Inums \union {0}]
InodeRec == [in_use : BOOLEAN, type : {"file", "dir"}, n_blocks : Nat,
             file : Nat, foreign : BOOLEAN]
HandleRec == [fh : Inums \union {Missing}, name : Names \union {"", Hidden},
              file : Nat, moved : BOOLEAN]

OpenTypeOK ==
    /\ slots \in [SlotNums -> Entry]
    /\ inode \in [Inums -> InodeRec]
    /\ spare \in Nat
    /\ handle \in [Handles -> HandleRec]
    /\ files \in Nat /\ strays \in Nat

(* Every entry names an inode in use, and each another one.                *)
EntriesGood ==
    /\ \A s \in Used : slots[s].inum \in Inums /\ inode[slots[s].inum].in_use
    /\ \A s, t \in Used : slots[s].inum = slots[t].inum => s = t

(* What is open under the name it was opened by is a file and is in the    *)
(* directory.                                                              *)
HandlesNamed ==
    \A h \in Handles : handle[h] # Closed =>
        /\ handle[h].fh \in Inums /\ handle[h].name # ""
        /\ ~handle[h].moved =>
               /\ inode[handle[h].fh].type = "file"
               /\ \E s \in Used : slots[s] = [name |-> handle[h].name,
                                             inum |-> handle[h].fh]

(* As long as libfuse did not give its node another name, a handle leads   *)
(* to the file that was opened, however often names were removed, made     *)
(* again and given the same inode: read and write need no check of in_use. *)
(* (After a rename, which cofs does not do, or an unlink of the open file, *)
(* the name that is still there can be removed, and the inode be another   *)
(* file's when the handle is used next.)                                   *)
HandleTrue ==
    \A h \in Handles : handle[h] # Closed /\ ~handle[h].moved =>
        /\ inode[handle[h].fh].in_use
        /\ inode[handle[h].fh].file = handle[h].file

(* What goes wrong with stale handles is bounded by their use: a write     *)
(* that misses its file costs the blocks it took, if no inode leads to     *)
(* them any more, or the one file that it wrote into; nothing else loses   *)
(* a block.  (File_writeData takes all the blocks up to the end of the     *)
(* request, so that one write far behind the end of a file that was        *)
(* removed loses many.)                                                    *)
Lost == SpareBlocks - spare - SumFunction([i \in Inums |-> inode[i].n_blocks])
Spoilt == {i \in Inums : inode[i].in_use /\ inode[i].foreign}
StrayDamage == Lost + Cardinality(Spoilt) <= strays

(* The strengthening that the proof of HandleTrue needs.                   *)
OInv == OpenTypeOK /\ EntriesGood /\ HandlesNamed /\ HandleTrue
=============================================================================
