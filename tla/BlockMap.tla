------------------------------ MODULE BlockMap ------------------------------
(***************************************************************************)
(* The block map of an inode: cofs_datablocks.c, one action per block the  *)
(* code pops, appends or writes.                                           *)
(*                                                                         *)
(* An inode names its first data blocks directly and the rest through      *)
(* single, double and triple indirect blocks.  alloc_new_datablock goes    *)
(* down from the inode to the slot of the new block, popping the indirect  *)
(* blocks that are missing, and writes the indirect blocks on its way back *)
(* and the inode last; when the pool runs dry on the way it gives back     *)
(* what it popped.  release_datablocks appends the blocks from the one     *)
(* numbered `start' on.  The pool of blocks is BlockPool, which FreeList   *)
(* implements; inodes are read and written whole (InodeTable).             *)
(***************************************************************************)
EXTENDS Integers, Sequences, FiniteSets, SequencesExt

CONSTANTS Blocks,           (* the data blocks of the device, numbers > 0   *)
          Inodes,           (* the inodes                                   *)
          NDirect, N1Indirect, N2Indirect, N3Indirect,  (* pointers in an inode *)
          BlocksPerIndirect,
          AnyOrder,         (* FALSE: bound, the pool pops the least block  *)
          MaxBlocks,        (* bound: data blocks of each inode             *)
          MaxFailedWrites,  (* bound: writes to a file that fail            *)
          MaxCrashes        (* bound: crashes                               *)

BPI == BlocksPerIndirect
NoBlock == 0
Refs == Blocks \union {NoBlock}
Array == [1 .. BPI -> Refs]        (* an indirect block; slot s of the code is s + 1 *)
EmptyArray == [s \in 1 .. BPI |-> NoBlock]
Levels == 0 .. 3                   (* direct, single, double, triple        *)
Pointers(k) == CASE k = 0 -> NDirect [] k = 1 -> N1Indirect
                 [] k = 2 -> N2Indirect [] k = 3 -> N3Indirect
Span(k) == CASE k = 0 -> 1 [] k = 1 -> BPI           (* data blocks under one *)
             [] k = 2 -> BPI * BPI [] k = 3 -> BPI * BPI * BPI    (* pointer of level k *)

ASSUME LayoutAssumption ==
    /\ Blocks \subseteq Nat \ {0} /\ IsFiniteSet(Blocks)
    /\ \A n \in {NDirect, N1Indirect, N2Indirect, N3Indirect} : n \in Nat \ {0}
    /\ BPI \in Nat \ {0, 1}
    /\ Inodes # {}
ASSUME MapBoundAssumption ==
    /\ MaxFailedWrites \in Nat /\ MaxCrashes \in Nat /\ AnyOrder \in BOOLEAN
    /\ MaxBlocks \in [Inodes -> Nat]

VARIABLES
    free, content,    (* the pool: free blocks, and what the others hold    *)
    ino,              (* the inodes on disk                                 *)
    linked,           (* the inodes that a directory names                  *)
    pc,               (* where the running operation is                     *)
    buf,              (* the inode it works on, in core                     *)
    top, my_blocks,   (* the level it began at, and the my_blocks parameter *)
    frames,           (* its arrays of block numbers, from the inode down   *)
    cand,             (* the data block it popped                           *)
    todo,             (* the blocks it has still to append                  *)
    result,           (* what the last alloc_new_datablock returned         *)
    owned,            (* auxiliary: what alloc_new_datablock returned for   *)
                      (* each inode, in order                               *)
    before,           (* auxiliary: the pool when it was called             *)
    overruns,         (* auxiliary: the blocks it stored past the end of an *)
                      (* array, in all calls so far                         *)
    failures,         (* failed writes so far                               *)
    crashes           (* crashes so far                                     *)

pool == <<free, content, crashes>>
alloc == <<top, my_blocks, frames, cand>>
mapVars == <<pool, ino, linked, pc, buf, alloc, todo, result, owned, before, overruns,
             failures>>

Pool == INSTANCE BlockPool WITH Contents <- Array, Zero <- EmptyArray

Idle == pc = "idle"
FreshInode(i) == [inum |-> i, in_use |-> FALSE, n_blocks |-> 0,
                  blocks |-> [k \in Levels |-> [s \in 1 .. Pointers(k) |-> NoBlock]]]
self == buf.inum

(* FreeList_pop; 0 when the list is empty.                                 *)
Poppable == IF AnyOrder \/ free = {} THEN free
            ELSE {CHOOSE b \in free : \A c \in free : b <= c}

(* layer0_readBlock; a block that was given back reads as empty here.      *)
ReadArray(b) == IF b \in DOMAIN content THEN content[b] ELSE EmptyArray

-----------------------------------------------------------------------------
(* foreach_datablock_in_inode: at each level up to the first empty slot.   *)
Entries(array) == LET empty == {s \in DOMAIN array : array[s] = NoBlock}
                  IN  IF empty = {} THEN array
                      ELSE SubSeq(array, 1, (CHOOSE s \in empty : \A t \in empty : s <= t) - 1)

Below(array) == FlattenSeq([s \in 1 .. Len(Entries(array)) |-> Entries(ReadArray(array[s]))])

FileBlocks(inode) ==
    LET b == inode.blocks
    IN  Entries(b[0]) \o Below(b[1]) \o Below(Below(b[2])) \o Below(Below(Below(b[3])))

(* get_last_datablock                                                      *)
LastDatablock(inode) == IF FileBlocks(inode) = <<>> THEN NoBlock ELSE Last(FileBlocks(inode))

(* release_datablocks and release_datablocks_indr: the data blocks from    *)
(* `start' on, and after them each indirect block whose first data block   *)
(* was among them (mutant: whose last one was).  acc is <<*pos, the blocks *)
(* appended so far>>.                                                      *)
ReleaseData(start, acc, b) ==
    <<acc[1] + 1, IF acc[1] >= start THEN Append(acc[2], b) ELSE acc[2]>>
ReleaseNode_PartlyKept(start, acc, inner, b) ==
    <<inner[1], IF inner[1] > start THEN Append(inner[2], b) ELSE inner[2]>>
ReleaseNode(start, acc, inner, b) ==
    <<inner[1], IF acc[1] >= start THEN Append(inner[2], b) ELSE inner[2]>>
Release1(start, acc, b) ==
    ReleaseNode(start, acc,
        FoldLeft(LAMBDA a, c : ReleaseData(start, a, c), acc, Entries(ReadArray(b))), b)
Release2(start, acc, b) ==
    ReleaseNode(start, acc,
        FoldLeft(LAMBDA a, c : Release1(start, a, c), acc, Entries(ReadArray(b))), b)
Release3(start, acc, b) ==
    ReleaseNode(start, acc,
        FoldLeft(LAMBDA a, c : Release2(start, a, c), acc, Entries(ReadArray(b))), b)

(* The triple indirect block is looked at only if there is a double one.   *)
Released(inode, start) ==
    LET b == inode.blocks
        direct == FoldLeft(LAMBDA a, c : ReleaseData(start, a, c), <<0, <<>>>>, Entries(b[0]))
        single == FoldLeft(LAMBDA a, c : Release1(start, a, c), direct, Entries(b[1]))
        double == IF b[2][1] = NoBlock THEN single ELSE Release2(start, single, b[2][1])
        triple == IF b[2][1] = NoBlock \/ b[3][1] = NoBlock THEN double
                  ELSE Release3(start, double, b[3][1])
    IN  triple[2]

(* The pointers of the inode to the blocks released are cleared.           *)
AfterRelease(inode, start) ==
    LET gone == Range(Released(inode, start))
    IN  [inode EXCEPT !.n_blocks = start,
                      !.blocks = [k \in Levels |-> [s \in 1 .. Pointers(k) |->
                          IF @[k][s] \in gone THEN NoBlock ELSE @[k][s]]]]

-----------------------------------------------------------------------------
MapInit ==
    /\ Pool!PoolInit
    /\ ino = [i \in Inodes |-> FreshInode(i)]
    /\ linked = {}
    /\ pc = "idle"
    /\ buf = FreshInode(CHOOSE i \in Inodes : TRUE)
    /\ top = 0 /\ my_blocks = 0 /\ frames = <<>> /\ cand = NoBlock
    /\ todo = <<>>
    /\ result = "none"
    /\ owned = [i \in Inodes |-> <<>>]
    /\ before = {} /\ overruns = {}
    /\ failures = 0

(* An operation returns: nothing in core outlives it.                      *)
Rest(answer) ==
    /\ pc' = "idle"
    /\ buf' = FreshInode(CHOOSE i \in Inodes : TRUE)
    /\ top' = 0 /\ my_blocks' = 0 /\ frames' = <<>> /\ cand' = NoBlock
    /\ todo' = <<>>
    /\ result' = answer
    /\ before' = {}

(* create_node: a new inode is written and named in a directory.           *)
Create(i) ==
    /\ Idle
    /\ ~ino[i].in_use
    /\ ino' = [ino EXCEPT ![i] = [FreshInode(i) EXCEPT !.in_use = TRUE]]
    /\ linked' = linked \union {i}
    /\ owned' = [owned EXCEPT ![i] = <<>>]
    /\ Rest("none")
    /\ UNCHANGED <<pool, overruns, failures>>

-----------------------------------------------------------------------------
(* alloc_new_datablock                                                     *)

(* How many blocks the levels below k can name: `lim'.                     *)
Limit(k) == CASE k = 0 -> 0
              [] k = 1 -> NDirect
              [] k = 2 -> NDirect + N1Indirect * Span(1)
              [] k = 3 -> NDirect + N1Indirect * Span(1) + N2Indirect * Span(2)
              [] k = 4 -> NDirect + N1Indirect * Span(1) + N2Indirect * Span(2)
                                  + N3Indirect * Span(3)

(* The level that holds the next block.                                    *)
LevelOf(n) == CHOOSE k \in Levels : Limit(k) <= n /\ n < Limit(k + 1)

AllocStart(i) ==
    /\ Idle
    /\ i \in linked
    /\ ino[i].n_blocks < MaxBlocks[i]
    /\ buf' = ino[i]
    /\ before' = free
    /\ IF ino[i].n_blocks < Limit(4)
       THEN /\ top' = LevelOf(ino[i].n_blocks)
            /\ my_blocks' = ino[i].n_blocks - Limit(top')
            /\ frames' = <<[target |-> NoBlock, new |-> FALSE,
                            indblock |-> ino[i].blocks[top']]>>
            /\ pc' = "descend"
            /\ result' = "none"
       ELSE /\ result' = "failed"
            /\ UNCHANGED <<pc, top, my_blocks, frames>>
    /\ UNCHANGED <<pool, ino, linked, cand, todo, owned, overruns, failures>>

(* frames[1] is the inode, with its pointers of level `top'; each further  *)
(* frame an indirect block in core.  `blocks' is the array that the        *)
(* running __alloc function, of level `level', looks for a slot in.        *)
Depth == Len(frames)
level == top - (Depth - 1)
blocks == frames[Depth].indblock
first_unused == Len(Entries(blocks))
Stored(b) == [frames EXCEPT ![Depth].indblock[first_unused + 1] = b]
NewFrame(b) == [target |-> b, new |-> TRUE, indblock |-> EmptyArray]

(* Mutant: one formula for every level.                                    *)
NewIndirect_WrongSpan ==
    /\ pc = "descend" /\ level > 0
    /\ my_blocks % BPI = 0
    /\ \E b \in Poppable :
           /\ Pool!Alloc(b)
           /\ \/ /\ first_unused < Len(blocks)
                 /\ frames' = Append(Stored(b), NewFrame(b))
                 /\ UNCHANGED overruns
              \/ /\ first_unused = Len(blocks)
                 /\ frames' = Append(frames, NewFrame(b))
                 /\ overruns' = overruns \union {b}
    /\ my_blocks' = 0
    /\ UNCHANGED <<ino, linked, pc, buf, top, cand, todo, result, owned, before, failures>>

(* A new indirect block, when the last one is full.  If `blocks' is full   *)
(* too the pointer is stored past its end, where the buffer that holds it  *)
(* (of an indirect block: the inode's are never full) has slack that is    *)
(* not written to disk; and the allocation goes on below the new block.    *)
NewIndirect ==
    /\ pc = "descend" /\ level > 0
    /\ my_blocks % Span(level) = 0
    /\ \E b \in Poppable :
           /\ Pool!Alloc(b)
           /\ \/ /\ first_unused < Len(blocks)
                 /\ frames' = Append(Stored(b), NewFrame(b))
                 /\ UNCHANGED overruns
              \/ /\ first_unused = Len(blocks)
                 /\ frames' = Append(frames, NewFrame(b))
                 /\ overruns' = overruns \union {b}
    /\ my_blocks' = 0
    /\ UNCHANGED <<ino, linked, pc, buf, top, cand, todo, result, owned, before, failures>>

(* Mutant: the indirect block is not read.                                 *)
OldIndirect_NotRead ==
    /\ pc = "descend" /\ level > 0
    /\ my_blocks % Span(level) # 0
    /\ first_unused # 0
    /\ frames' = Append(frames, [target |-> blocks[first_unused], new |-> FALSE,
                                 indblock |-> EmptyArray])
    /\ my_blocks' = IF level = 1 THEN 0 ELSE my_blocks % (first_unused * Span(level - 1))
    /\ UNCHANGED <<pool, ino, linked, pc, buf, top, cand, todo, result, owned, before,
                   overruns, failures>>

(* The last indirect block has room: read it.  spare_blocks is the number  *)
(* of data blocks below it.                                                *)
OldIndirect ==
    /\ pc = "descend" /\ level > 0
    /\ my_blocks % Span(level) # 0
    /\ IF first_unused # 0
       THEN /\ frames' = Append(frames, [target |-> blocks[first_unused], new |-> FALSE,
                                         indblock |-> ReadArray(blocks[first_unused])])
            /\ my_blocks' = IF level = 1 THEN 0
                            ELSE my_blocks % (first_unused * Span(level - 1))
            /\ pc' = pc
       ELSE pc' = "abort" /\ UNCHANGED <<frames, my_blocks>>
    /\ UNCHANGED <<pool, ino, linked, buf, top, cand, todo, result, owned,
                   before, overruns, failures>>

(* __alloc_direct pops the data block first and then looks for its slot.   *)
NewDirect ==
    /\ pc = "descend" /\ level = 0
    /\ \E b \in Poppable :
           /\ Pool!Alloc(b)
           /\ cand' = b
           /\ IF first_unused < Len(blocks)
              THEN frames' = Stored(b) /\ pc' = "unwind"
              ELSE frames' = frames /\ pc' = "give_back"
    /\ UNCHANGED <<ino, linked, buf, top, my_blocks, todo, result, owned,
                   before, overruns, failures>>

GiveBack ==
    /\ pc = "give_back"
    /\ Pool!Release(cand)
    /\ pc' = "undo"
    /\ UNCHANGED <<ino, linked, buf, alloc, todo, result, owned,
                   before, overruns, failures>>

PopFails ==
    /\ pc = "descend"
    /\ level = 0 \/ my_blocks % Span(level) = 0
    /\ free = {}
    /\ pc' = "undo"
    /\ UNCHANGED <<pool, ino, linked, buf, alloc, todo, result, owned,
                   before, overruns, failures>>

(* Mutant: only new indirect blocks are written.                           *)
WriteIndirect_OnlyNew ==
    /\ pc = "unwind" /\ Depth > 1
    /\ IF frames[Depth].new THEN Pool!Write(frames[Depth].target, blocks)
                            ELSE UNCHANGED pool
    /\ frames' = Front(frames)
    /\ UNCHANGED <<ino, linked, pc, buf, top, my_blocks, cand, todo, result, owned,
                   before, overruns, failures>>

(* On the way back every indirect block is written, new or not.            *)
WriteIndirect ==
    /\ pc = "unwind" /\ Depth > 1
    /\ Pool!Write(frames[Depth].target, blocks)
    /\ frames' = Front(frames)
    /\ UNCHANGED <<ino, linked, pc, buf, top, my_blocks, cand, todo, result, owned,
                   before, overruns, failures>>

(* The inode comes last.                                                   *)
WriteInode ==
    /\ pc = "unwind" /\ Depth = 1
    /\ ino' = [ino EXCEPT ![self] = [buf EXCEPT !.n_blocks = @ + 1, !.blocks[top] = blocks]]
    /\ owned' = [owned EXCEPT ![self] = Append(@, cand)]
    /\ Rest("ok")
    /\ UNCHANGED <<pool, linked, overruns, failures>>

(* Mutant: the pointer to the block given back stays.                      *)
UndoIndirect_PointerKept ==
    /\ pc = "undo" /\ Depth > 1
    /\ IF frames[Depth].new THEN Pool!Release(frames[Depth].target) ELSE UNCHANGED pool
    /\ frames' = Front(frames)
    /\ UNCHANGED <<ino, linked, pc, buf, top, my_blocks, cand, todo, result, owned,
                   before, overruns, failures>>

(* Without a data block the new indirect blocks are given back, from the   *)
(* lowest up, and the pointers to them cleared in core (or past the end of *)
(* the array, if it was stored there).                                     *)
UndoIndirect ==
    /\ pc = "undo" /\ Depth > 1
    /\ LET upper == Front(frames)
           array == upper[Depth - 1].indblock
           slot == Len(Entries(array))
       IN  IF frames[Depth].new
           THEN /\ Pool!Release(frames[Depth].target)
                /\ frames' = IF array[slot] = frames[Depth].target
                             THEN [upper EXCEPT ![Depth - 1].indblock[slot] = NoBlock]
                             ELSE upper
           ELSE /\ UNCHANGED pool
                /\ frames' = upper
    /\ UNCHANGED <<ino, linked, pc, buf, top, my_blocks, cand, todo, result, owned,
                   before, overruns, failures>>

AllocFails ==
    /\ pc = "undo" /\ Depth = 1
    /\ buf' = [buf EXCEPT !.blocks[top] = blocks]
    /\ result' = "failed"
    /\ pc' = "idle"
    /\ top' = 0 /\ my_blocks' = 0 /\ frames' = <<>> /\ cand' = NoBlock
    /\ UNCHANGED <<pool, ino, linked, todo, owned, before, overruns, failures>>

-----------------------------------------------------------------------------
(* release_datablocks and its callers                                      *)

ReleaseStart(i, start) ==
    /\ todo' = Released(ino[i], start)
    /\ buf' = AfterRelease(ino[i], start)
    /\ result' = "none"
    /\ before' = {}

(* Mutants: the directory entry outlives the inode; the first block is     *)
(* forgotten.                                                              *)
Unlink_EntryLast(i) ==
    /\ Idle
    /\ i \in linked
    /\ ReleaseStart(i, 0)
    /\ pc' = "free_inode"
    /\ UNCHANGED <<pool, ino, linked, alloc, owned, overruns, failures>>
Unlink_FirstBlockKept(i) ==
    /\ Idle
    /\ i \in linked
    /\ linked' = linked \ {i}
    /\ ReleaseStart(i, 1)
    /\ pc' = "free_inode"
    /\ UNCHANGED <<pool, ino, alloc, owned, overruns, failures>>

(* decrement_inode_refcount of the last reference, after the directory     *)
(* entry is gone.                                                          *)
Unlink(i) ==
    /\ Idle
    /\ i \in linked
    /\ linked' = linked \ {i}
    /\ ReleaseStart(i, 0)
    /\ pc' = "free_inode"
    /\ UNCHANGED <<pool, ino, alloc, owned, overruns, failures>>

(* File_writeData: a write that did not complete releases what it had      *)
(* allocated, from the block that was the file's end on.                   *)
FailedWrite(i, start) ==
    /\ Idle
    /\ failures < MaxFailedWrites
    /\ i \in linked
    /\ start <= ino[i].n_blocks
    /\ ReleaseStart(i, start)
    /\ pc' = "shrink"
    /\ failures' = failures + 1
    /\ UNCHANGED <<pool, ino, linked, alloc, owned, overruns>>

(* Mutant: the release does not move on.                                   *)
AppendNext_SameBlock ==
    /\ pc \in {"free_inode", "shrink"} /\ todo # <<>>
    /\ IF Head(todo) \in free THEN UNCHANGED pool ELSE Pool!Release(Head(todo))
    /\ UNCHANGED <<ino, linked, pc, buf, alloc, todo, result, owned,
                   before, overruns, failures>>

AppendNext ==
    /\ pc \in {"free_inode", "shrink"} /\ todo # <<>>
    /\ Pool!Release(Head(todo))
    /\ todo' = Tail(todo)
    /\ UNCHANGED <<ino, linked, pc, buf, alloc, result, owned,
                   before, overruns, failures>>

FreeInode ==
    /\ pc = "free_inode" /\ todo = <<>>
    /\ ino' = [ino EXCEPT ![self] = FreshInode(self)]
    /\ Rest("none")
    /\ UNCHANGED <<pool, linked, owned, overruns, failures>>

(* cofs_write skips write_inode when File_writeData fails.                 *)
WriteReturns ==
    /\ pc = "shrink" /\ todo = <<>>
    /\ owned' = [owned EXCEPT ![self] = SubSeq(@, 1, buf.n_blocks)]
    /\ Rest("none")
    /\ UNCHANGED <<pool, ino, linked, overruns, failures>>

-----------------------------------------------------------------------------
(* A crash forgets what is in core; the pool may lose a block with it.     *)
Crash ==
    /\ ~Idle
    /\ Pool!Crash
    /\ Rest("none")
    /\ UNCHANGED <<ino, linked, owned, overruns, failures>>

-----------------------------------------------------------------------------
Resume ==
    \/ NewIndirect \/ OldIndirect \/ NewDirect \/ GiveBack \/ PopFails
    \/ WriteIndirect \/ WriteInode \/ UndoIndirect \/ AllocFails
    \/ AppendNext \/ FreeInode \/ WriteReturns

MapNext ==
    \/ \E i \in Inodes : \/ Create(i)
                         \/ AllocStart(i)
                         \/ Unlink(i)
                         \/ \E start \in 0 .. Cardinality(Blocks) : FailedWrite(i, start)
    \/ Resume
    \/ Crash

MapSpec == MapInit /\ [][MapNext]_mapVars
FairMapSpec == MapSpec /\ WF_mapVars(Resume)

-----------------------------------------------------------------------------
(* Every block an inode on disk leads to, data and indirect blocks alike.  *)
AllBlocks(i) == Released(ino[i], 0)

MapTypeOK ==
    /\ free \subseteq Blocks
    /\ DOMAIN content \subseteq Blocks /\ \A b \in DOMAIN content : content[b] \in Array
    /\ \A inode \in {buf} \union {ino[i] : i \in Inodes} :
           /\ inode.inum \in Inodes
           /\ inode.n_blocks \in 0 .. Limit(4) /\ inode.in_use \in BOOLEAN
           /\ \A k \in Levels : inode.blocks[k] \in [1 .. Pointers(k) -> Refs]
    /\ linked \subseteq Inodes
    /\ pc \in {"idle", "descend", "give_back", "unwind", "undo", "free_inode", "shrink",
               "abort"}
    /\ top \in Levels /\ my_blocks \in Nat /\ Depth <= 4
    /\ cand \in Refs
    /\ todo \in Seq(Blocks) /\ overruns \subseteq Blocks
    /\ result \in {"none", "ok", "failed"}

(* Whatever is on disk at any moment, after a crash as well: a block that  *)
(* a file or directory leads to is not free, and only one of them leads    *)
(* to it, along one path.                                                  *)
OwnedOnce ==
    /\ \A i \in linked : /\ IsInjective(AllBlocks(i))
                         /\ Range(AllBlocks(i)) \intersect free = {}
    /\ \A i, j \in linked : i # j => Range(AllBlocks(i)) \intersect Range(AllBlocks(j)) = {}

(* Between two operations, while no write has failed and nothing crashed:  *)
(* foreach_datablock_in_inode visits the blocks that alloc_new_datablock   *)
(* returned, in that order, and get_last_datablock finds the last of them. *)
MapFaithful ==
    Idle /\ failures = 0 /\ crashes = 0 => \A i \in linked :
        /\ FileBlocks(ino[i]) = owned[i]
        /\ ino[i].n_blocks = Len(owned[i])
        /\ LastDatablock(ino[i]) = IF owned[i] = <<>> THEN NoBlock ELSE Last(owned[i])

(* Likewise no block is lost: it is free or in a file.                     *)
NoLeak ==
    Idle /\ failures = 0 /\ crashes = 0 => Blocks = free \union UNION {Range(AllBlocks(i)) : i \in linked}

(* Until a crash, an allocation that fails leaves the pool and the inode   *)
(* in core as they were, and fails for want of blocks only: four are       *)
(* always enough.                                                          *)
FailureUndone ==
    Idle /\ crashes = 0 /\ result = "failed" =>
        /\ free = before
        /\ buf = ino[self]
        /\ Cardinality(free) < 4 \/ ino[self].n_blocks = Limit(4)

(* Everything stays within its type.  In particular there is no store past *)
(* the end of an array of block numbers, and no assertion fails.           *)
NoOverrun == MapTypeOK /\ overruns = {} /\ pc # "abort"

(* Whatever crashes, and whatever was allocated after them: the data       *)
(* blocks that alloc_new_datablock returned for a file are in it, in their *)
(* order, except for one block for each pointer that was stored past the   *)
(* end of an array: that data block was returned, but is not in the file.  *)
DataKept ==
    Idle => \A i \in linked :
        LET file == FileBlocks(ino[i])
            missing == {m \in DOMAIN owned[i] : owned[i][m] \notin Range(file)}
        IN  /\ Cardinality(missing) <= Cardinality(overruns)
            /\ \A m, n \in DOMAIN owned[i] \ missing : m < n =>
                   \E p, q \in DOMAIN file :
                       p < q /\ file[p] = owned[i][m] /\ file[q] = owned[i][n]

(* alloc_new_datablock "gets a new data block from the freelist and         *)
(* assigns it to inode" (cofs_datablocks.h): what it returned is in the    *)
(* file.  Not so after a crash that left n_blocks one too low.             *)
Assigned ==
    Idle => \A i \in linked : Range(owned[i]) \subseteq Range(FileBlocks(ino[i]))

(* While a release appends what is after `start', the `start' data blocks  *)
(* before it stay the first of the file, and none of them is free.  When   *)
(* it is over they are all there is, if `start' is where a level begins;   *)
(* otherwise the last indirect block still names blocks that are free.     *)
ShrinkKeeps ==
    pc = "shrink" =>
        LET kept == SubSeq(owned[self], 1, buf.n_blocks)
        IN  /\ IsPrefix(kept, FileBlocks(buf))
            /\ Range(kept) \intersect (free \union Range(todo)) = {}
            /\ todo = <<>> /\ (\E k \in Levels : buf.n_blocks = Limit(k))
                   => FileBlocks(buf) = kept

(* Every allocation and release comes to an end.                           *)
MapOpsEnd == ~Idle ~> Idle
=============================================================================
