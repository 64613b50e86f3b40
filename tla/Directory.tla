----------------------------- MODULE Directory -----------------------------
(***************************************************************************)
(* Directories: cofs_directories.c, create_node and its callers, one       *)
(* action per write to the device.                                         *)
(*                                                                         *)
(* The data blocks of a directory are an array of slots; a slot holds a    *)
(* name and an inode number, or is a hole.  Dir_addEntry fills the first   *)
(* hole, or a new block, and then writes the directory's inode, which      *)
(* counts the entries; Dir_removeEntry makes a hole, drops the reference   *)
(* to the inode that was named and then writes the directory's inode.      *)
(* create_node marks a free inode as used, links it and only then writes   *)
(* it.  Lookup and readdir go by the number of entries in the inode.       *)
(* Blocks and inodes come from FreeList and InodeTable: an inode's number  *)
(* is any free one, a block can be had while `spare' is above 0, and a pop *)
(* or an append of a block has happened or not.  Directories have direct   *)
(* blocks only here; what a file holds, and indirect blocks, are           *)
(* BlockMap's.                                                             *)
(***************************************************************************)
EXTENDS Integers, Sequences, FiniteSets, SequencesExt

CONSTANTS NumInodes,      (* inodes of the i-list                           *)
          Names,          (* base names                                     *)
          LongNames,      (* those of MAX_FILE_BASENAME characters or more  *)
          LinkNames,      (* base names of what symbolic links point to     *)
          EntriesPerBlock,(* DIRENTRIES_PER_BLOCK, 16 in the code           *)
          SpareBlocks,    (* free data blocks after mkfs                    *)
          SizeModulus,    (* size_t arithmetic is modulo this (2^64)        *)
          MaxRemovals,    (* bound: calls of unlink and rmdir               *)
          MaxNameless,    (* bound: entries added with an empty name        *)
          MaxCrashes      (* bound: crashes                                 *)

Inums == 0 .. NumInodes - 1
Root == 0
Missing == -1             (* INODE_MISSING, SIZE_MAX in the code            *)
NoName == ""              (* base_name[0] is 0                              *)
Hole == [name |-> NoName, inum |-> 0]
Entry(n, i) == [name |-> n, inum |-> i]
BaseNames == Names \union {NoName, ".", ".."}
EmptyBlock == [s \in 1 .. EntriesPerBlock |-> Hole]

(* An inode; n_bytes counts in sizes of an entry.                          *)
FreeInode == [in_use |-> FALSE, type |-> "file", refcount |-> 0,
              num_direntries |-> 0, n_bytes |-> 0]
NewNode(kind) == [FreeInode EXCEPT !.in_use = TRUE, !.type = kind,
                                   !.refcount = IF kind = "symlink" THEN 0 ELSE 1]

ASSUME DirectoryAssumption ==
    /\ NumInodes \in Nat \ {0}
    /\ Names \subseteq STRING \ {NoName, ".", ".."} /\ LongNames \subseteq Names
    /\ LinkNames \subseteq Names \union {NoName, ".", ".."}
    /\ EntriesPerBlock \in Nat \ {0, 1} /\ SpareBlocks \in Nat
    /\ SizeModulus \in Nat /\ SizeModulus > EntriesPerBlock * (SpareBlocks + 1)
    /\ MaxRemovals \in Nat /\ MaxNameless \in Nat /\ MaxCrashes \in Nat

VARIABLES
    inode,            (* the inodes on disk                                 *)
    slots,            (* what is in each inode's data blocks                *)
    spare,            (* how many data blocks are free                      *)
    pc,               (* where the running operation is                     *)
    node,             (* the inode that it creates or removes               *)
    core,             (* its copies of inodes                               *)
    calls,            (* the calls of Dir_addEntry it has still to make     *)
    popped,           (* the blocks it has popped and not yet in an inode   *)
    removals,         (* unlinks and rmdirs so far                          *)
    nameless,         (* entries added with an empty name so far            *)
    crashes           (* crashes so far                                     *)

history == <<removals, nameless, crashes>>
dirVars == <<inode, slots, spare, pc, node, core, calls, popped, history>>

Idle == pc = "idle"

-----------------------------------------------------------------------------
(* Lookup and readdir                                                      *)

(* Mutant: the count is checked before the slot and not after it.          *)
Searched_OneLess(d) == LET n == inode[d].num_direntries
                       IN  IF n = 0 \/ n > Len(slots[d]) THEN Len(slots[d]) ELSE n - 1

(* How many slots __dirLookup_Iterator looks at: it counts down from the   *)
(* number of entries, past 0 if there are none.                            *)
Searched(d) == LET n == inode[d].num_direntries
               IN  IF n = 0 \/ n > Len(slots[d]) THEN Len(slots[d]) ELSE n
SlotsNamed(d, n) == {s \in 1 .. Searched(d) : slots[d][s].name = n}
FirstSlot(S) == CHOOSE s \in S : \A t \in S : s <= t

(* Dir_lookup                                                              *)
Lookup(d, n) == IF SlotsNamed(d, n) = {} THEN Missing
                ELSE slots[d][FirstSlot(SlotsNamed(d, n))].inum

(* cofs_readdir: the slots it gives to the filler, which are the first     *)
(* num_direntries of those whose entry has an inode; one whose number is 0 *)
(* has.                                                                    *)
Listed(d) == LET present == {s \in DOMAIN slots[d] : slots[d][s].inum # Missing}
             IN  {s \in present :
                     Cardinality({t \in present : t < s}) < inode[d].num_direntries}

(* namei_parent: the directories that a path leads to.                     *)
IsDirectory(i) == i \in Inums /\ inode[i].in_use /\ inode[i].type = "dir"
Resolved[k \in 0 .. NumInodes] ==
    IF k = 0 THEN {Root}
    ELSE LET before == Resolved[k - 1]
         IN  before \union {i \in {Lookup(d, n) : d \in before, n \in Names} : IsDirectory(i)}
Directories == Resolved[NumInodes]

-----------------------------------------------------------------------------
(* mkfs                                                                    *)
DirInit ==
    /\ inode = [i \in Inums |-> IF i = Root
                  THEN [in_use |-> TRUE, type |-> "dir", refcount |-> 2,
                        num_direntries |-> 2, n_bytes |-> EntriesPerBlock]
                  ELSE FreeInode]
    /\ slots = [i \in Inums |-> IF i = Root
                  THEN [EmptyBlock EXCEPT ![1] = Entry(".", Root), ![2] = Entry("..", Root)]
                  ELSE <<>>]
    /\ spare = SpareBlocks
    /\ pc = "idle" /\ node = Missing /\ core = <<>> /\ calls = <<>> /\ popped = 0
    /\ removals = 0 /\ nameless = 0 /\ crashes = 0

Return ==
    /\ pc' = "idle" /\ node' = Missing /\ core' = <<>> /\ calls' = <<>> /\ popped' = 0

-----------------------------------------------------------------------------
(* create_node, called by mknod and mkdir, and cofs_symlink                *)

Call(d, n, i) == [dir |-> d, name |-> n, inum |-> i]

(* Mutant: the parent's entry comes first.                                 *)
CallsFor_ParentFirst(kind, d, n, i) ==
    IF kind = "dir" THEN <<Call(d, n, i), Call(i, ".", i), Call(i, "..", d)>>
                    ELSE <<Call(d, n, i)>>

(* The calls of Dir_addEntry, Dir_create's first.                          *)
CallsFor(kind, d, n, i) ==
    IF kind = "dir" THEN <<Call(i, ".", i), Call(i, "..", d), Call(d, n, i)>>
                    ELSE <<Call(d, n, i)>>

(* The kernel asks for a node only when it found no such name.  But a      *)
(* symbolic link gets the base name of what it points to, which nobody     *)
(* looked up and which is empty after a last `/', and goes to the root.    *)
Asked(kind, d, n) ==
    IF kind = "symlink"
    THEN d = Root /\ n \in LinkNames /\ (n = NoName => nameless < MaxNameless)
    ELSE n \in Names /\ Lookup(d, n) = Missing

(* Mutant: the inode is marked as used in core only.                       *)
Allocate_NotWritten(kind, d, n, i) ==
    /\ Idle
    /\ Asked(kind, d, n)
    /\ ~inode[i].in_use
    /\ node' = i
    /\ core' = [x \in {d, i} |-> IF x = i THEN NewNode(kind) ELSE inode[d]]
    /\ calls' = CallsFor(kind, d, n, i)
    /\ pc' = IF kind = "symlink" THEN "symlink" ELSE "add"
    /\ UNCHANGED <<inode, slots, spare, popped, history>>

(* allocate_inode writes in_use alone.                                     *)
Allocate(kind, d, n, i) ==
    /\ Idle
    /\ Asked(kind, d, n)
    /\ ~inode[i].in_use
    /\ inode' = [inode EXCEPT ![i].in_use = TRUE]
    /\ node' = i
    /\ core' = [x \in {d, i} |-> IF x = i THEN NewNode(kind) ELSE inode[d]]
    /\ calls' = CallsFor(kind, d, n, i)
    /\ pc' = IF kind = "symlink" THEN "symlink" ELSE "add"
    /\ UNCHANGED <<slots, spare, popped, history>>

(* Without a free inode create_node fails, and cofs_symlink goes on: its   *)
(* write_inode fails, and the entry it adds names no inode.                *)
SymlinkWithoutInode(n) ==
    /\ Idle
    /\ Asked("symlink", Root, n)
    /\ \A i \in Inums : inode[i].in_use
    /\ core' = [x \in {Root} |-> inode[Root]]
    /\ calls' = CallsFor("symlink", Root, n, Missing)
    /\ pc' = "add"
    /\ UNCHANGED <<inode, slots, spare, node, popped, history>>

(* create_node without a free inode; getattr, open and readdir, which      *)
(* write access times only.                                                *)
CreateFails(d, n) ==
    /\ Idle
    /\ Lookup(d, n) = Missing
    /\ \A i \in Inums : inode[i].in_use
    /\ UNCHANGED dirVars
Query == Idle /\ UNCHANGED dirVars

WriteSymlink ==
    /\ pc = "symlink"
    /\ inode' = [inode EXCEPT ![node] = core[node]]
    /\ pc' = "add"
    /\ UNCHANGED <<slots, spare, node, core, calls, popped, history>>

-----------------------------------------------------------------------------
(* Dir_addEntry                                                            *)
call == Head(calls)
dir == call.dir
Holes(d) == {s \in DOMAIN slots[d] : slots[d][s].name = NoName}
IsSymlink == node = Missing \/ core[node].type = "symlink"

(* No hole: alloc_new_datablock pops a block, and then writes the inode    *)
(* that names it.                                                          *)
Pop ==
    /\ pc = "add" /\ Holes(dir) = {} /\ popped = 0 /\ spare > 0
    /\ spare' = spare - 1
    /\ popped' = 1
    /\ UNCHANGED <<inode, slots, pc, node, core, calls, history>>
Grow ==
    /\ pc = "add" /\ popped = 1
    /\ popped' = 0
    /\ slots' = [slots EXCEPT ![dir] = @ \o EmptyBlock]
    /\ inode' = [inode EXCEPT ![dir] = core[dir]]
    /\ core' = [core EXCEPT ![dir].n_bytes = (@ + EntriesPerBlock) % SizeModulus]
    /\ UNCHANGED <<spare, pc, node, calls, history>>

(* No block, or a name that is too long.  create_node frees the inode, and *)
(* cofs_symlink does not look at the answer.                               *)
AddFails ==
    /\ pc = "add" /\ popped = 0
    /\ IF Holes(dir) = {} THEN spare = 0 ELSE call.name \in LongNames
    /\ IF IsSymlink THEN Return
       ELSE pc' = "undo" /\ UNCHANGED <<node, core, calls, popped>>
    /\ UNCHANGED <<inode, slots, spare, history>>

(* The block with the new entry.  With an empty name it stays a hole.      *)
WriteEntry ==
    /\ pc = "add" /\ Holes(dir) # {} /\ call.name \notin LongNames
    /\ slots' = [slots EXCEPT ![dir][FirstSlot(Holes(dir))] = Entry(call.name, call.inum)]
    /\ core' = [core EXCEPT ![dir].num_direntries = @ + 1]
    /\ pc' = "count"
    /\ nameless' = nameless + (IF call.name = NoName THEN 1 ELSE 0)
    /\ UNCHANGED <<inode, spare, node, calls, popped, removals, crashes>>

(* Mutant: Dir_create counts the new directory's `.' only.                 *)
CountEntry_ParentNotCounted ==
    /\ pc = "count"
    /\ inode' = [inode EXCEPT ![dir] = core[dir]]
    /\ IF Tail(calls) = <<>> /\ IsSymlink THEN Return
       ELSE /\ pc' = IF Tail(calls) = <<>> THEN "node" ELSE "add"
            /\ calls' = Tail(calls)
            /\ core' = IF call.name = ".."
                       THEN [core EXCEPT ![dir].refcount = @ + 1] ELSE core
            /\ UNCHANGED <<node, popped>>
    /\ UNCHANGED <<slots, spare, history>>

(* And then the inode of the directory.  Dir_create counts `.' and `..' as *)
(* references once it has added both.                                      *)
CountEntry ==
    /\ pc = "count"
    /\ inode' = [inode EXCEPT ![dir] = core[dir]]
    /\ IF Tail(calls) = <<>> /\ IsSymlink THEN Return
       ELSE /\ pc' = IF Tail(calls) = <<>> THEN "node" ELSE "add"
            /\ calls' = Tail(calls)
            /\ core' = IF call.name = ".."
                       THEN [core EXCEPT ![call.inum].refcount = @ + 1, ![dir].refcount = @ + 1]
                       ELSE core
            /\ UNCHANGED <<node, popped>>
    /\ UNCHANGED <<slots, spare, history>>

(* create_node writes the new inode last.                                  *)
WriteNode ==
    /\ pc = "node"
    /\ inode' = [inode EXCEPT ![node] = core[node]]
    /\ Return
    /\ UNCHANGED <<slots, spare, history>>

(* Mutant: the inode is not freed.                                         *)
Undo_NotFreed ==
    /\ pc = "undo"
    /\ Return
    /\ UNCHANGED <<inode, slots, spare, history>>

(* Or it frees it, which forgets the blocks of a new directory.            *)
Undo ==
    /\ pc = "undo"
    /\ inode' = [inode EXCEPT ![node] = FreeInode]
    /\ slots' = [slots EXCEPT ![node] = <<>>]
    /\ Return
    /\ UNCHANGED <<spare, history>>

-----------------------------------------------------------------------------
(* Dir_removeEntry, called by unlink and rmdir                             *)

(* Mutants: a directory that is not empty is removed; the hole is made in  *)
(* core only.                                                              *)
RemoveEntry_NotEmpty(kind, d, n) ==
    /\ Idle
    /\ removals < MaxRemovals
    /\ Lookup(d, n) # Missing
    /\ node' = Lookup(d, n)
    /\ IF kind = "rmdir" THEN IsDirectory(node') ELSE ~IsDirectory(node')
    /\ slots' = [slots EXCEPT ![d][FirstSlot(SlotsNamed(d, n))] = Hole]
    /\ core' = [x \in {d} |-> [inode[d] EXCEPT
                   !.n_bytes = (@ + SizeModulus - 1) % SizeModulus]]
    /\ calls' = <<Call(d, n, node')>>
    /\ pc' = "drop"
    /\ removals' = removals + 1
    /\ UNCHANGED <<inode, spare, popped, nameless, crashes>>
RemoveEntry_HoleNotWritten(kind, d, n) ==
    /\ Idle
    /\ removals < MaxRemovals
    /\ Lookup(d, n) # Missing
    /\ node' = Lookup(d, n)
    /\ IF kind = "rmdir" THEN IsDirectory(node') /\ inode[node'].num_direntries <= 2
                         ELSE ~IsDirectory(node')
    /\ core' = [x \in {d} |-> [inode[d] EXCEPT
                   !.n_bytes = (@ + SizeModulus - 1) % SizeModulus]]
    /\ calls' = <<Call(d, n, node')>>
    /\ pc' = "drop"
    /\ removals' = removals + 1
    /\ UNCHANGED <<inode, slots, spare, popped, nameless, crashes>>

(* The hole is written first.                                              *)
RemoveEntry(kind, d, n) ==
    /\ Idle
    /\ removals < MaxRemovals
    /\ Lookup(d, n) # Missing
    /\ node' = Lookup(d, n)
    /\ IF kind = "rmdir" THEN IsDirectory(node') /\ inode[node'].num_direntries <= 2
                         ELSE ~IsDirectory(node')
    /\ slots' = [slots EXCEPT ![d][FirstSlot(SlotsNamed(d, n))] = Hole]
    /\ core' = [x \in {d} |-> [inode[d] EXCEPT
                   !.n_bytes = (@ + SizeModulus - 1) % SizeModulus]]
    /\ calls' = <<Call(d, n, node')>>
    /\ pc' = "drop"
    /\ removals' = removals + 1
    /\ UNCHANGED <<inode, spare, popped, nameless, crashes>>

(* decrement_inode_refcount, of a copy of the inode: unless it reaches 0   *)
(* nothing is written.  The blocks are appended one by one, from the first *)
(* on, to the free list; the inode, which names them on disk until it is   *)
(* free, is no longer named itself.                                        *)
LastReference == pc = "drop" /\ inode[node].refcount = 1
AllButFirst(ss) == SubSeq(ss, EntriesPerBlock + 1, Len(ss))

(* Mutant: the block is not appended.                                      *)
ReleaseBlock_NotAppended ==
    /\ LastReference /\ slots[node] # <<>>
    /\ slots' = [slots EXCEPT ![node] = AllButFirst(@)]
    /\ UNCHANGED <<inode, spare, pc, node, core, calls, popped, history>>
ReleaseBlock ==
    /\ LastReference /\ slots[node] # <<>>
    /\ spare' = spare + 1
    /\ slots' = [slots EXCEPT ![node] = AllButFirst(@)]
    /\ UNCHANGED <<inode, pc, node, core, calls, popped, history>>

DropReference ==
    /\ pc = "drop"
    /\ IF LastReference
       THEN slots[node] = <<>> /\ inode' = [inode EXCEPT ![node] = FreeInode]
       ELSE UNCHANGED inode
    /\ pc' = "uncount"
    /\ UNCHANGED <<slots, spare, node, core, calls, popped, history>>

(* Mutant: the directory's inode is not written back.                      *)
UncountEntry_NotWritten ==
    /\ pc = "uncount"
    /\ Return
    /\ UNCHANGED <<inode, slots, spare, history>>

(* The inode of the directory comes last.  An assertion stops the program  *)
(* before the count, which crashes can have left too low, would pass       *)
(* below 0.                                                                *)
UncountEntry ==
    /\ pc = "uncount"
    /\ inode' = IF core[dir].num_direntries = 0 THEN inode
                ELSE [inode EXCEPT ![dir] = [core[dir] EXCEPT !.num_direntries = @ - 1]]
    /\ Return
    /\ UNCHANGED <<slots, spare, history>>

-----------------------------------------------------------------------------
Crash ==
    /\ ~Idle
    /\ crashes < MaxCrashes
    /\ crashes' = crashes + 1
    /\ Return
    /\ UNCHANGED <<inode, slots, spare, removals, nameless>>

DirNext ==
    \/ \E kind \in {"file", "dir", "symlink"}, d \in Directories, n \in BaseNames, i \in Inums :
           Allocate(kind, d, n, i)
    \/ \E d \in Directories, n \in Names :
           \/ CreateFails(d, n)
           \/ \E kind \in {"unlink", "rmdir"} : RemoveEntry(kind, d, n)
    \/ \E n \in BaseNames : SymlinkWithoutInode(n)
    \/ Query
    \/ WriteSymlink \/ Pop \/ Grow \/ AddFails \/ WriteEntry \/ CountEntry \/ WriteNode \/ Undo
    \/ ReleaseBlock \/ DropReference \/ UncountEntry
    \/ Crash

DirSpec == DirInit /\ [][DirNext]_dirVars

-----------------------------------------------------------------------------
(* The links of the directories in use: what leads to an inode by name.    *)
InUse == {i \in Inums : inode[i].in_use}
Linking(d) == {s \in DOMAIN slots[d] : slots[d][s] \in [name : Names, inum : Inums]}
Links == UNION {{Call(d, slots[d][s].name, slots[d][s].inum) : s \in Linking(d)} :
                d \in {i \in Inums : IsDirectory(i)}}
Attached == {Root} \union {l.inum : l \in Links}
EntriesOf(d) == {s \in DOMAIN slots[d] : slots[d][s].name # NoName}

DirTypeOK ==
    /\ inode \in [Inums -> [in_use : BOOLEAN, type : {"file", "dir", "symlink"},
                            refcount : Nat, num_direntries : Nat,
                            n_bytes : 0 .. SizeModulus - 1]]
    /\ slots \in [Inums -> Seq([name : BaseNames, inum : Inums \union {Missing}])]
    /\ \A i \in Inums : Len(slots[i]) % EntriesPerBlock = 0
    /\ spare \in Nat
    /\ pc \in {"idle", "symlink", "add", "count", "node", "undo", "drop", "uncount"}
    /\ node \in Inums \union {Missing}
    /\ DOMAIN core \subseteq Inums
    /\ popped \in {0, 1}
    /\ removals \in 0 .. MaxRemovals /\ nameless \in 0 .. MaxNameless
    /\ crashes \in 0 .. MaxCrashes

(* After a crash at any point, and in the middle of any operation: no      *)
(* entry of a directory names an inode that is free, which allocate_inode  *)
(* would give to another file.                                             *)
NoDangling == \A l \in Links : inode[l.inum].in_use

(* No inode is named twice: there are no hard links, and an inode is       *)
(* given to a new file only when nothing names it any more.                *)
NamedOnce ==
    /\ \A l, m \in Links : l.inum = m.inum => l = m
    /\ \A d \in InUse : \A s, t \in Linking(d) : slots[d][s] = slots[d][t] => s = t

(* A directory that can be reached by name begins with itself and its      *)
(* parent, whatever crashed while it was made.                             *)
DotsRight ==
    \A l \in Links : IsDirectory(l.inum) =>
        /\ Len(slots[l.inum]) >= 2
        /\ slots[l.inum][1] = Entry(".", l.inum)
        /\ slots[l.inum][2] = Entry("..", l.dir)

(* Between two operations num_direntries is the number of entries in every *)
(* directory that a path leads to; each crash can put the count of one of  *)
(* them off by one, and each entry with an empty name the root's.          *)
(* (n_bytes, which wraps, and all else are claimed to stay within their    *)
(* types only.)                                                            *)
Off(d) == LET n == Cardinality(EntriesOf(d))
          IN  IF n >= inode[d].num_direntries THEN n - inode[d].num_direntries
              ELSE inode[d].num_direntries - n
CountsRight ==
    /\ DirTypeOK
    /\ Idle => SumFunction([d \in Inums |-> IF d \in Directories THEN Off(d) ELSE 0])
                   <= crashes + nameless
    /\ Idle /\ crashes = 0 => \A d \in Directories \ {Root} : Off(d) = 0

(* No file is lost: an inode in use that no directory names is a directory *)
(* or a symbolic link, or was lost in the one crash there was.  (From the  *)
(* second crash on, rmdir can free a directory with files in it: one whose *)
(* inode a crash left with a single reference, and whose entries the       *)
(* others left uncounted.)                                                 *)
LostFiles == {i \in InUse \ Attached : inode[i].type = "file"}
FilesKept == Idle /\ crashes <= 1 => Cardinality(LostFiles) <= crashes

(* A data block is free, popped by the operation that runs, or in an       *)
(* inode, wherever a crash stops an operation.  Two things only lose one:  *)
(* a crash between the pop of a block and the write of the inode that      *)
(* names it, and the undoing of a mkdir whose new directory had its first  *)
(* block already.                                                          *)
BlocksHeld == spare + popped
                + SumFunction([i \in Inums |-> Len(slots[i])]) \div EntriesPerBlock
BlocksConserved ==
    [][\/ BlocksHeld' = BlocksHeld
       \/ crashes' = crashes + 1 /\ BlocksHeld' = BlocksHeld - popped
       \/ pc = "undo" /\ core[node].type = "dir" /\ BlocksHeld' = BlocksHeld - 1]_dirVars

(* Until the first crash the links change one at a time, and only an empty *)
(* directory is removed.  (A crash can leave a directory with an entry     *)
(* that its num_direntries does not count, and rmdir removes that too.)    *)
NS == INSTANCE Namespace WITH links <- Links
TreeSpec == NS!TreeInit /\ [][crashes' = 0 => NS!TreeNext]_Links

(* Until the first crash, in a directory without holes among its entries,  *)
(* all of which have an inode: Dir_lookup of a name that is there finds an *)
(* entry of this name, and readdir lists every entry and nothing else (in  *)
(* the root, if no entry was added there with an empty name).              *)
Packed(d) == /\ EntriesOf(d) = 1 .. Cardinality(EntriesOf(d))
             /\ \A s \in EntriesOf(d) : slots[d][s].inum # Missing
PackedComplete ==
    Idle /\ crashes = 0 => \A d \in Directories : Packed(d) =>
        /\ \A l \in Links : l.dir = d => Call(d, l.name, Lookup(d, l.name)) \in Links
        /\ d # Root \/ nameless = 0 => Listed(d) = EntriesOf(d)

(* st_nlink of a directory counts its name (or itself, for the root), its  *)
(* `.' and the `..' of the directories in it: until the first crash none   *)
(* is missing from the count.  It is not 1, which cofs_data_structures.h   *)
(* says it always should be (OneReference), and can be too high: a removed *)
(* directory, and one that could not be linked after its parent got a new  *)
(* block, stay counted (ListingsCounted).                                  *)
Subdirectories(d) == {l \in Links : l.dir = d /\ IsDirectory(l.inum)}
LinksCounted ==
    Idle /\ crashes = 0 => \A d \in Directories :
        inode[d].refcount >= 2 + Cardinality(Subdirectories(d))

-----------------------------------------------------------------------------
(* What comments in the code say, and what it does not do.                 *)

(* cofs_data_structures.h on refcount: "This field applies to all types    *)
(* except directories, for which it should always be 1".  Those that mkdir *)
(* made have 2 or more (and the root, from mkfs on).                       *)
OneReference ==
    Idle /\ crashes = 0 => \A d \in Directories \ {Root} : inode[d].refcount = 1

(* cofs_directories.c, where Dir_create raises the counts: "apparently the *)
(* '.' and '..' listings count as links to directories".  rmdir removes    *)
(* two of them and does not lower the parent's count.                      *)
ListingsCounted ==
    Idle /\ crashes = 0 => \A d \in Directories :
        inode[d].refcount = 2 + Cardinality(Subdirectories(d))

(* cofs_directories.h on Dir_removeEntry: "decrementing its refcount and   *)
(* freeink if necessary".  A removed directory had two references, and the *)
(* one that is taken off is not written: it stays in use without a name.   *)
RemovedFreed ==
    Idle /\ crashes = 0 => \A i \in InUse : inode[i].type = "dir" => i \in Attached

(* cofs_data_structures.h on num_direntries: "number of entries in the     *)
(* directory (since we can have holes)".  A symbolic link to a path that   *)
(* ends in `/' adds one to it for a slot that stays a hole.                *)
EntriesCounted ==
    Idle /\ crashes = 0 => \A d \in Directories :
        inode[d].num_direntries = Cardinality(EntriesOf(d))
=============================================================================
