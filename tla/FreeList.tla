------------------------------ MODULE FreeList ------------------------------
(***************************************************************************)
(* The free block list of free_list.c, one action per disk write.          *)
(*                                                                         *)
(* A list block holds `next' and an array `data' of free blocks; the list  *)
(* blocks are free blocks themselves.  The head block is cached in core.   *)
(* FreeList_pop takes the entries of the head from slot 0 upwards and then *)
(* the head itself; FreeList_append fills the head's empty slots downwards *)
(* and, when there is none, hangs the block itself on the tail of the      *)
(* list.  The process is single-threaded (fuse -s), so the steps of an     *)
(* operation interleave with nothing but a crash, after which the list is  *)
(* read back from the disk.                                                *)
(***************************************************************************)
EXTENDS Integers, Sequences, FiniteSets, Functions

CONSTANTS NumBlocks,              (* NUM_BLOCKS: size of the device         *)
          IlistSize,              (* blocks of the i-list, 1..IlistSize     *)
          EntriesPerFreeBlock,    (* ENTRIES_PER_FREEBLOCK, 511 in the code *)
          Payloads,     (* what callers may leave in a block they hold      *)
          HeapWords,    (* words an aligned_alloc()ed buffer may contain    *)
          SizeModulus,  (* size_t arithmetic is modulo this (2^64)          *)
          HeldLimit,    (* bound: blocks held by callers at a time          *)
          MaxCrashes,   (* bound: stops in the middle of an operation       *)
          MaxUnmounts   (* bound: stops between two operations              *)

E == EntriesPerFreeBlock
Slots == 0 .. E - 1
NoSlot == -1                      (* SIZE_MAX, which + 1 is 0 and - 1 never happens *)
First == IlistSize + 1
DataBlocks == First .. NumBlocks - 1
(* A block number read from a block that is no list block can be anything; *)
(* NumBlocks stands for all those beyond the end of the device.            *)
Words == {0} \union DataBlocks \union {NumBlocks}
Block == [next : Words, data : [Slots -> Words]]
ZeroBlock == [next |-> 0, data |-> [s \in Slots |-> 0]]

ASSUME DeviceAssumption ==
    /\ NumBlocks \in Nat /\ IlistSize \in Nat /\ First < NumBlocks
    /\ EntriesPerFreeBlock \in Nat /\ EntriesPerFreeBlock >= 2
ASSUME ContentAssumption == Payloads \subseteq Block /\ HeapWords \subseteq Words
ASSUME BoundAssumption ==
    /\ HeldLimit \in Nat /\ MaxCrashes \in Nat /\ MaxUnmounts \in Nat
    /\ SizeModulus \in Nat /\ SizeModulus > NumBlocks

VARIABLES
    disk,             (* the data blocks, each read as a list block         *)
    sb,               (* the superblock on disk: flist_head, free_blocks    *)
    sblock_incore,    (* the superblock in core                             *)
    list_head_blkidx, (* block number of the cached head, 0: list is empty  *)
    list_head,        (* the cached head                                    *)
    next_freeslot,    (* last empty slot of the head, NoSlot: none          *)
    tail_idx,         (* block number of the tail, 0: not known yet         *)
    pc,               (* where the running operation is                     *)
    cand,             (* the block the running operation moves              *)
    held,             (* the blocks that callers popped and did not append  *)
    chain,            (* auxiliary: the list blocks, from head to tail      *)
    crashes,          (* stops in the middle of an operation so far         *)
    unmounts          (* stops between two operations so far                *)

core == <<sblock_incore, list_head_blkidx, list_head, next_freeslot, tail_idx>>
ghosts == <<held, chain, crashes, unmounts>>
vars == <<disk, sb, core, pc, cand, ghosts>>

Idle == pc = "idle"

-----------------------------------------------------------------------------
(* layer0_readBlock into a buffer and layer0_writeBlock: beyond the device *)
(* both fail and change nothing.  Block 0 read as a list block shows the   *)
(* superblock's first words, ilist_size and n_blocks.                      *)
SuperAsList == [next |-> IlistSize,
                data |-> [s \in Slots |-> IF s = 0 THEN NumBlocks ELSE 0]]
ReadBlock(b, buf) ==
    IF b \in DataBlocks THEN disk[b] ELSE IF b = 0 THEN SuperAsList ELSE buf
WriteBlock(d, b, buf) == IF b \in DataBlocks THEN [d EXCEPT ![b] = buf] ELSE d

Plus1(n) == (n + 1) % SizeModulus
Minus1(n) == (n + SizeModulus - 1) % SizeModulus

-----------------------------------------------------------------------------
(* FreeList_create: the image mkfs leaves.                                 *)
InTheList == NumBlocks - First - 1            (* n_data_blocks after the -- *)
Leftover == InTheList % (E + 1)
StartIdx == E - Leftover
(* Mutant: the division rounds down.                                       *)
NFreeListBlocks_Floor == InTheList \div (E + 1)

NFreeListBlocks == (InTheList + E) \div (E + 1)

(* The block number `head' has in iteration i of the loop.                 *)
LinkAt(i) == IF i = 1 THEN First ELSE First + Leftover + 1 + (i - 2) * (E + 1)

(* __create_starting_flist_block: the slots below first_entry keep what    *)
(* the buffer held.                                                        *)
StartingBlock(my_blocknum, first_entry, buf) ==
    [next |-> LET after == my_blocknum + (E - first_entry) + 1
              IN  IF after >= NumBlocks THEN 0 ELSE after,
     data |-> [s \in Slots |-> IF s < first_entry THEN buf[s]
                               ELSE my_blocknum + (s - first_entry) + 1]]

(* The loop writes NFreeListBlocks blocks; the others keep what the device *)
(* held before.                                                            *)
CreatedDisk(stale, heap) ==
    [b \in DataBlocks |->
        IF b \in {LinkAt(i) : i \in 1 .. NFreeListBlocks}
        THEN StartingBlock(b, IF b = First THEN StartIdx ELSE 0, heap)
        ELSE stale]

(* The blocks the written `next' pointers lead through.                    *)
CreatedChain == [i \in 1 .. (InTheList \div (E + 1)) + 1 |-> LinkAt(i)]

(* FreeList_init's scan: down from the last slot to the first empty one.   *)
ScanSlot(block) ==
    CHOOSE s \in Slots \union {NoSlot} :
        /\ s \in Slots => block.data[s] = 0
        /\ \A t \in Slots : t > s => block.data[t] # 0

Init ==
    /\ \E stale \in Payloads \union {ZeroBlock}, heap \in [Slots -> HeapWords] :
           disk = CreatedDisk(stale, heap)
    /\ sb = [flist_head |-> First, free_blocks |-> InTheList + 1]
    /\ sblock_incore = sb
    /\ list_head_blkidx = First
    /\ list_head = disk[First]
    /\ next_freeslot = ScanSlot(disk[First])
    /\ tail_idx = 0
    /\ pc = "idle"
    /\ cand = 0
    /\ held = {}
    /\ chain = CreatedChain
    /\ crashes = 0
    /\ unmounts = 0

(* What the process keeps in core is gone.  layer0_teardown writes nothing *)
(* back, so that an unmount is a stop between two operations.              *)
Stop ==
    /\ pc' = "down"
    /\ cand' = 0
    /\ sblock_incore' = [flist_head |-> 0, free_blocks |-> 0]
    /\ list_head_blkidx' = 0
    /\ list_head' = ZeroBlock
    /\ next_freeslot' = 0
    /\ tail_idx' = 0
    /\ UNCHANGED <<disk, sb, held, chain>>

-----------------------------------------------------------------------------
(* FreeList_pop                                                            *)

(* The slots its scan, which starts above next_freeslot, finds occupied.   *)
Occupied == {s \in Slots : s > next_freeslot /\ list_head.data[s] # 0}

PopEmpty ==
    /\ Idle
    /\ list_head_blkidx = 0
    /\ UNCHANGED vars

(* The lowest occupied slot names the block; it is zeroed on disk first.   *)
PopSlot ==
    /\ Idle
    /\ Cardinality(held) < HeldLimit
    /\ list_head_blkidx # 0
    /\ \E s \in Occupied :
           /\ \A t \in Occupied : s <= t
           /\ next_freeslot' = s
           /\ IF list_head.data[s] \in DataBlocks
              THEN /\ disk' = WriteBlock(disk, list_head.data[s], ZeroBlock)
                   /\ cand' = list_head.data[s]
                   /\ pc' = "pop_slot"
              ELSE UNCHANGED <<disk, cand, pc>>  \* the write fails: return 0
    /\ UNCHANGED <<sb, sblock_incore, list_head_blkidx, list_head, tail_idx, ghosts>>

(* Mutant: the slot is cleared in core only.                               *)
ClearSlot_NotWritten ==
    /\ pc = "pop_slot"
    /\ list_head' = [list_head EXCEPT !.data[next_freeslot] = 0]
    /\ sblock_incore' = [sblock_incore EXCEPT !.free_blocks = Minus1(@)]
    /\ held' = held \union {cand}
    /\ pc' = "idle"
    /\ cand' = 0
    /\ UNCHANGED <<disk, sb, list_head_blkidx, next_freeslot, tail_idx, chain,
                   crashes, unmounts>>

(* Mutant: the slot is never cleared.                                      *)
ClearSlot_Forgotten ==
    /\ pc = "pop_slot"
    /\ sblock_incore' = [sblock_incore EXCEPT !.free_blocks = Minus1(@)]
    /\ held' = held \union {cand}
    /\ pc' = "idle"
    /\ cand' = 0
    /\ UNCHANGED <<disk, sb, list_head_blkidx, list_head, next_freeslot, tail_idx,
                   chain, crashes, unmounts>>

(* Then the slot is cleared, in core and on disk, and the block returned.  *)
ClearSlot ==
    /\ pc = "pop_slot"
    /\ list_head' = [list_head EXCEPT !.data[next_freeslot] = 0]
    /\ disk' = WriteBlock(disk, list_head_blkidx, list_head')
    /\ sblock_incore' = [sblock_incore EXCEPT !.free_blocks = Minus1(@)]
    /\ held' = held \union {cand}
    /\ pc' = "idle"
    /\ cand' = 0
    /\ UNCHANGED <<sb, list_head_blkidx, next_freeslot, tail_idx, chain, crashes, unmounts>>

(* Mutant: the new head is not written to the superblock.                  *)
PopHead_SuperblockNotWritten ==
    /\ Idle
    /\ Cardinality(held) < HeldLimit
    /\ list_head_blkidx # 0
    /\ Occupied = {}
    /\ next_freeslot' = NoSlot
    /\ cand' = list_head_blkidx
    /\ sblock_incore' = [sblock_incore EXCEPT !.flist_head = list_head.next]
    /\ list_head_blkidx' = list_head.next
    /\ list_head' = ReadBlock(list_head.next, list_head)
    /\ chain' = IF chain = <<>> THEN chain ELSE Tail(chain)
    /\ pc' = "pop_head"
    /\ UNCHANGED <<disk, sb, tail_idx, held, crashes, unmounts>>

(* No occupied slot: __update_head makes the next list block the head.     *)
PopHead ==
    /\ Idle
    /\ Cardinality(held) < HeldLimit
    /\ list_head_blkidx # 0
    /\ Occupied = {}
    /\ next_freeslot' = NoSlot
    /\ cand' = list_head_blkidx
    /\ sblock_incore' = [sblock_incore EXCEPT !.flist_head = list_head.next]
    /\ sb' = sblock_incore'
    /\ list_head_blkidx' = list_head.next
    /\ list_head' = ReadBlock(list_head.next, list_head)
    /\ chain' = IF chain = <<>> THEN chain ELSE Tail(chain)
    /\ pc' = "pop_head"
    /\ UNCHANGED <<disk, tail_idx, held, crashes, unmounts>>

(* Mutants: the block returned is not zeroed; it is not counted.           *)
ZeroHead_Dirty ==
    /\ pc = "pop_head"
    /\ sblock_incore' = [sblock_incore EXCEPT !.free_blocks = Minus1(@)]
    /\ held' = held \union {cand}
    /\ pc' = "idle"
    /\ cand' = 0
    /\ UNCHANGED <<disk, sb, list_head_blkidx, list_head, next_freeslot, tail_idx,
                   chain, crashes, unmounts>>
ZeroHead_NotCounted ==
    /\ pc = "pop_head"
    /\ disk' = WriteBlock(disk, cand, ZeroBlock)
    /\ held' = held \union {cand}
    /\ pc' = "idle"
    /\ cand' = 0
    /\ UNCHANGED <<sb, core, chain, crashes, unmounts>>

(* The old head is zeroed and returned; if it is no block of the device    *)
(* the write fails and 0 is returned.                                      *)
ZeroHead ==
    /\ pc = "pop_head"
    /\ IF cand \in DataBlocks
       THEN /\ disk' = WriteBlock(disk, cand, ZeroBlock)
            /\ sblock_incore' = [sblock_incore EXCEPT !.free_blocks = Minus1(@)]
            /\ held' = held \union {cand}
       ELSE UNCHANGED <<disk, sblock_incore, held>>
    /\ pc' = "idle"
    /\ cand' = 0
    /\ UNCHANGED <<sb, list_head_blkidx, list_head, next_freeslot, tail_idx,
                   chain, crashes, unmounts>>

-----------------------------------------------------------------------------
(* FreeList_append                                                         *)

(* The slots its scan, which goes down from next_freeslot, finds empty.    *)
Empty == {s \in Slots : s <= next_freeslot /\ list_head.data[s] = 0}

AppendReject ==
    /\ Idle
    /\ \E b \in Words : b >= NumBlocks \/ b <= IlistSize
    /\ UNCHANGED vars

(* Mutant: the superblock keeps naming no head.                            *)
AppendEmpty_HeadNotWritten(b) ==
    /\ Idle
    /\ b \in held
    /\ list_head_blkidx = 0
    /\ sblock_incore' = [sblock_incore EXCEPT !.flist_head = b, !.free_blocks = Plus1(@)]
    /\ list_head_blkidx' = b
    /\ list_head' = ReadBlock(b, list_head)
    /\ held' = held \ {b}
    /\ chain' = <<b>>
    /\ UNCHANGED <<disk, sb, next_freeslot, tail_idx, pc, cand, crashes, unmounts>>

(* An empty list: the block becomes the head, as it is on disk.            *)
AppendEmpty(b) ==
    /\ Idle
    /\ b \in held
    /\ list_head_blkidx = 0
    /\ sb' = [sblock_incore EXCEPT !.flist_head = b]
    /\ sblock_incore' = [sb' EXCEPT !.free_blocks = Plus1(@)]
    /\ list_head_blkidx' = b
    /\ list_head' = ReadBlock(b, list_head)
    /\ held' = held \ {b}
    /\ chain' = <<b>>
    /\ UNCHANGED <<disk, next_freeslot, tail_idx, pc, cand, crashes, unmounts>>

(* Mutant: the scan starts at slot 0.                                      *)
AppendSlot_FromBelow(b) ==
    /\ Idle
    /\ b \in held
    /\ list_head_blkidx # 0
    /\ \E s \in Empty :
           /\ \A t \in Empty : s <= t
           /\ list_head' = [list_head EXCEPT !.data[s] = b]
           /\ next_freeslot' = s - 1
    /\ disk' = WriteBlock(disk, list_head_blkidx, list_head')
    /\ sblock_incore' = [sblock_incore EXCEPT !.free_blocks = Plus1(@)]
    /\ held' = held \ {b}
    /\ UNCHANGED <<sb, list_head_blkidx, tail_idx, pc, cand, chain, crashes, unmounts>>

(* An empty slot of the head, from next_freeslot down, takes the block.    *)
AppendSlot(b) ==
    /\ Idle
    /\ b \in held
    /\ list_head_blkidx # 0
    /\ \E s \in Empty :
           /\ \A t \in Empty : t <= s
           /\ list_head' = [list_head EXCEPT !.data[s] = b]
           /\ next_freeslot' = s - 1
    /\ disk' = WriteBlock(disk, list_head_blkidx, list_head')
    /\ sblock_incore' = [sblock_incore EXCEPT !.free_blocks = Plus1(@)]
    /\ held' = held \ {b}
    /\ UNCHANGED <<sb, list_head_blkidx, tail_idx, pc, cand, chain, crashes, unmounts>>

(* Mutant: the head in core is not told of its new next block.             *)
AppendTail_HeadStale(b) ==
    /\ Idle
    /\ b \in held
    /\ list_head_blkidx # 0
    /\ Empty = {}
    /\ next_freeslot' = NoSlot
    /\ cand' = b
    /\ held' = held \ {b}
    /\ pc' = IF tail_idx = 0 THEN "seek_tail" ELSE "link_tail"
    /\ UNCHANGED <<disk, sb, sblock_incore, list_head_blkidx, list_head, tail_idx, chain,
                   crashes, unmounts>>

(* No empty slot: the block goes to the tail, which __update_tail looks    *)
(* for when tail_idx is 0.                                                 *)
AppendTail(b) ==
    /\ Idle
    /\ b \in held
    /\ list_head_blkidx # 0
    /\ Empty = {}
    /\ next_freeslot' = NoSlot
    /\ list_head' = [list_head EXCEPT !.next = IF @ = 0 THEN b ELSE @]
    /\ cand' = b
    /\ held' = held \ {b}
    /\ pc' = IF tail_idx = 0 THEN "seek_tail" ELSE "link_tail"
    /\ UNCHANGED <<disk, sb, sblock_incore, list_head_blkidx, tail_idx, chain,
                   crashes, unmounts>>

(* Mutant: the search does not move on.                                    *)
SeekTail_Stuck ==
    /\ pc = "seek_tail"
    /\ tail_idx' = IF tail_idx = 0 THEN list_head_blkidx ELSE tail_idx
    /\ tail_idx' \in DataBlocks
    /\ pc' = IF disk[tail_idx'].next = 0 THEN "link_tail" ELSE "seek_tail"
    /\ UNCHANGED <<disk, sb, sblock_incore, list_head_blkidx, list_head,
                   next_freeslot, cand, ghosts>>

(* One iteration of the search; a failed read fails the assertion.         *)
SeekTail ==
    /\ pc = "seek_tail"
    /\ tail_idx' = IF tail_idx = 0 THEN list_head_blkidx ELSE disk[tail_idx].next
    /\ tail_idx' \in DataBlocks
    /\ pc' = IF disk[tail_idx'].next = 0 THEN "link_tail" ELSE "seek_tail"
    /\ UNCHANGED <<disk, sb, sblock_incore, list_head_blkidx, list_head,
                   next_freeslot, cand, ghosts>>

SeekAborts ==
    /\ pc = "seek_tail"
    /\ (IF tail_idx = 0 THEN list_head_blkidx ELSE disk[tail_idx].next) \notin DataBlocks
    /\ Stop
    /\ UNCHANGED <<crashes, unmounts>>

LinkTail ==
    /\ pc = "link_tail"
    /\ disk' = WriteBlock(disk, tail_idx, [disk[tail_idx] EXCEPT !.next = cand])
    /\ tail_idx' = cand
    /\ chain' = Append(chain, cand)
    /\ pc' = "zero_tail"
    /\ UNCHANGED <<sb, sblock_incore, list_head_blkidx, list_head, next_freeslot,
                   cand, held, crashes, unmounts>>

(* Only now is the new tail zeroed.                                        *)
ZeroTail ==
    /\ pc = "zero_tail"
    /\ disk' = WriteBlock(disk, cand, ZeroBlock)
    /\ sblock_incore' = [sblock_incore EXCEPT !.free_blocks = Plus1(@)]
    /\ pc' = "idle"
    /\ cand' = 0
    /\ UNCHANGED <<sb, list_head_blkidx, list_head, next_freeslot, tail_idx, ghosts>>

-----------------------------------------------------------------------------
(* Callers, and the end and the start of a process                         *)

(* A caller writes a block it holds: the files, directories and indirect   *)
(* blocks the other components store there.                                *)
ClientWrite(b, p) ==
    /\ Idle
    /\ b \in held
    /\ disk' = [disk EXCEPT ![b] = p]
    /\ UNCHANGED <<sb, core, pc, cand, ghosts>>

Unmount ==
    /\ Idle
    /\ unmounts < MaxUnmounts
    /\ unmounts' = unmounts + 1
    /\ Stop
    /\ UNCHANGED crashes

Crash ==
    /\ pc \notin {"idle", "down"}
    /\ crashes < MaxCrashes
    /\ crashes' = crashes + 1
    /\ Stop
    /\ UNCHANGED unmounts

(* layer0_init reads the superblock, FreeList_init the head it names.      *)
Mount ==
    /\ pc = "down"
    /\ sblock_incore' = sb
    /\ list_head_blkidx' = sb.flist_head
    /\ list_head' = ReadBlock(sb.flist_head, list_head)
    /\ next_freeslot' = ScanSlot(list_head')
    /\ pc' = "idle"
    /\ UNCHANGED <<disk, sb, tail_idx, cand, ghosts>>

-----------------------------------------------------------------------------
Pop == PopEmpty \/ PopSlot \/ PopHead
AppendBlock(b) == AppendEmpty(b) \/ AppendSlot(b) \/ AppendTail(b)
Resume == ClearSlot \/ ZeroHead \/ SeekTail \/ SeekAborts \/ LinkTail \/ ZeroTail

Next ==
    \/ Pop
    \/ AppendReject
    \/ \E b \in DataBlocks : AppendBlock(b) \/ \E p \in Payloads : ClientWrite(b, p)
    \/ Resume
    \/ Unmount
    \/ Crash
    \/ Mount

Spec == Init /\ [][Next]_vars

(* An operation that started runs on, unless the process is stopped.       *)
FairSpec == Spec /\ WF_vars(Resume)

-----------------------------------------------------------------------------
(* What is free, according to the disk: the list blocks and their entries. *)
(* A tail that is linked and not zeroed yet still holds its caller's bytes *)
(* and counts as read only by those who read it: a mount after a crash.    *)
ListBlocks == Range(chain)
Unzeroed == IF pc = "zero_tail" THEN {cand} ELSE {}
Readable == ListBlocks \ Unzeroed
FreeSet == ListBlocks \union ({disk[b].data[s] : b \in Readable, s \in Slots} \ {0})

(* A block that is neither on the list nor a caller's, while an operation  *)
(* moves it.                                                               *)
InFlight == IF pc \in {"pop_head", "seek_tail", "link_tail"} THEN {cand} ELSE {}

HeadOfChain == IF chain = <<>> THEN 0 ELSE chain[1]
NextInChain(i) == IF i = Len(chain) THEN 0 ELSE chain[i + 1]

TypeOK ==
    /\ disk \in [DataBlocks -> Block]
    /\ sb \in [flist_head : Words, free_blocks : 0 .. SizeModulus - 1]
    /\ sblock_incore \in [flist_head : Words, free_blocks : 0 .. SizeModulus - 1]
    /\ list_head_blkidx \in Words
    /\ list_head \in Block \union {SuperAsList}
    /\ next_freeslot \in Slots \union {NoSlot}
    /\ tail_idx \in Words
    /\ pc \in {"idle", "down", "pop_slot", "pop_head", "seek_tail", "link_tail", "zero_tail"}
    /\ cand \in Words
    /\ held \subseteq DataBlocks
    /\ chain \in Seq(DataBlocks)
    /\ crashes \in 0 .. MaxCrashes
    /\ unmounts \in 0 .. MaxUnmounts

(* No block is free twice, and none is free and a caller's at once: what   *)
(* FreeList_pop returns nobody else uses, and it returns it once.          *)
NoDoubleUse ==
    /\ FreeSet \intersect held = {}
    /\ \A b, c \in Readable, s, t \in Slots :
           disk[b].data[s] # 0 /\ disk[b].data[s] = disk[c].data[t] => b = c /\ s = t
    /\ \A b \in Readable, s \in Slots :
           disk[b].data[s] # 0 => disk[b].data[s] \in DataBlocks \ ListBlocks

(* The `next' pointers on disk lead from the superblock's flist_head       *)
(* through every list block, each once, to a block whose `next' is 0, and  *)
(* no list block has a gap: a slot in use has no empty slot above it.      *)
(* This holds between any two writes, so that a crash there leaves a list  *)
(* that FreeList_init can mount.                                           *)
ListIntact ==
    /\ IsInjective(chain)
    /\ sb.flist_head = HeadOfChain
    /\ \A i \in DOMAIN chain :
           chain[i] \notin Unzeroed => disk[chain[i]].next = NextInChain(i)
    /\ \A b \in Readable, s, t \in Slots :
           s < t /\ disk[b].data[s] # 0 => disk[b].data[t] # 0

(* Between two operations the head cached in core is the head on disk, and *)
(* next_freeslot divides it: below and at it the slots are empty, above it *)
(* in use.  (NoSlot also stands for a head whose slots are all empty.)     *)
CoreMatchesDisk ==
    Idle /\ list_head_blkidx # 0 =>
        /\ list_head_blkidx \in ListBlocks
        /\ list_head = disk[list_head_blkidx]
        /\ \A s \in Slots : s <= next_freeslot => list_head.data[s] = 0
        /\ \/ \A s \in Slots : s > next_freeslot => list_head.data[s] # 0
           \/ next_freeslot = NoSlot /\ \A s \in Slots : list_head.data[s] = 0

(* The head a mount would find is the head the running process works on,   *)
(* whatever the list blocks hold: the superblock is written whenever       *)
(* list_head_blkidx changes.                                               *)
SuperblockCurrent ==
    pc # "down" => /\ sb.flist_head = list_head_blkidx
                   /\ sblock_incore.flist_head = list_head_blkidx

(* A crash in the middle of an operation loses at most the one block the   *)
(* operation was moving, and nothing else ever loses a block.              *)
LeakBound == Cardinality(DataBlocks \ (held \union FreeSet \union InFlight)) <= crashes

(* free_blocks, which statfs reports, is the number of free blocks until   *)
(* the process that ran mkfs ends.                                         *)
CountExact ==
    Idle /\ crashes = 0 /\ unmounts = 0 =>
        sblock_incore.free_blocks = Cardinality(FreeSet)

(* __update_tail links the new block to the tail of the list.              *)
TailIsLast == pc = "link_tail" => tail_idx = chain[Len(chain)]

(* Every operation comes to an end: the search for the tail does not go    *)
(* round in circles.                                                       *)
OpTerminates == pc \notin {"idle", "down"} ~> pc \in {"idle", "down"}

(* The list implements the pool of free_list.h: a popped block is zeroed   *)
(* and its caller's alone, and no operation on the list changes a block    *)
(* that a caller holds.                                                    *)
Pool == INSTANCE BlockPool WITH
            Blocks <- DataBlocks, Contents <- Payloads, Zero <- ZeroBlock,
            free <- FreeSet \union InFlight,
            content <- [b \in held |-> disk[b]]
PoolSpec == Pool!PoolBehaviour

(* When the list is safe to use: mkfs's list covers the device, the buffer *)
(* it was built in was clear, the list can never run empty, and a crash    *)
(* cannot leave a caller's bytes where the tail of the list is expected.   *)
SafeUse ==
    /\ Leftover # 0
    /\ HeapWords = {0}
    /\ HeldLimit + MaxCrashes < Cardinality(DataBlocks)
    /\ MaxCrashes = 0 \/ Payloads \subseteq {ZeroBlock}
=============================================================================
