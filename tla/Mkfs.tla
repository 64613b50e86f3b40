-------------------------------- MODULE Mkfs --------------------------------
(***************************************************************************)
(* How a file system comes into being: mkfs of cofs_mkfs.c on devices of   *)
(* all sizes, the three programs that call it, and what they make of its   *)
(* answer.  mkfs.cofs formats a block device, which may hold anything and  *)
(* which cofs may then mount; cofs -m and fsck.cofs -m format zeroed       *)
(* memory on the way through layer0_init.                                  *)
(*                                                                         *)
(* One action per block that mkfs writes, or per call that writes several. *)
(* The list block's buffer is taken to be clear (FreeList has the others). *)
(***************************************************************************)
EXTENDS Integers, FiniteSets, Functions

CONSTANTS Sizes,                (* device sizes, in blocks                  *)
          IlistFraction,        (* ILIST_SIZE_FRACTION, 10 in the code      *)
          InodesPerBlock,       (* INODES_PER_BLOCK                         *)
          EntriesPerFreeBlock,  (* ENTRIES_PER_FREEBLOCK, 511 in the code   *)
          SizeModulus,          (* size_t arithmetic is modulo this (2^64)  *)
          Contents              (* what a device may hold before, block by  *)
                                (* block, in the eyes of the free list      *)

E == EntriesPerFreeBlock
Slots == 0 .. E - 1
Programs == {"mkfs.cofs", "cofs -m", "fsck.cofs -m"}

(* What any block's bytes are if they are read as those of a list block.   *)
Node == [next : Nat, data : [Slots -> Nat]]

(* The numbers of blocks do not overflow; and a device that has room for   *)
(* inodes has two data blocks or more.                                     *)
ASSUME MkfsAssumption ==
    /\ Sizes \subseteq Nat
    /\ \A size \in Sizes : /\ size * InodesPerBlock < SizeModulus
                           /\ size + EntriesPerFreeBlock < SizeModulus
    /\ IlistFraction \in Nat /\ IlistFraction >= 4 /\ InodesPerBlock \in Nat \ {0}
    /\ EntriesPerFreeBlock \in Nat \ {0, 1}
    /\ SizeModulus \in Nat /\ SizeModulus % (EntriesPerFreeBlock + 1) = 0
    /\ \A held \in Contents : \A size \in Sizes : \A b \in 0 .. size - 1 : held[b] \in Node

VARIABLES
    program,          (* the program that runs, or ran last                 *)
    stage,            (* what it does next; "made", "failed": mkfs returned *)
    device,           (* what is in each block                              *)
    sblock_incore,    (* the superblock in core                             *)
    row,              (* how many blocks the current loop wrote             *)
    head,             (* the block FreeList_create writes next              *)
    root_data,        (* the root directory's data block                    *)
    complaints,       (* the assertions fsck printed as failed              *)
    status            (* the program's exit status, 0 while it runs         *)

mkfsVars == <<program, stage, device, sblock_incore, row, head, root_data,
              complaints, status>>

NUM_BLOCKS == Cardinality(DOMAIN device)
Held(node) == [kind |-> "held", next |-> node.next, data |-> node.data]
Zeros == Held([next |-> 0, data |-> [s \in Slots |-> 0]])
Super(sb) == [kind |-> "super", sb |-> sb]
ListBlock(next, data) == [kind |-> "list", next |-> next, data |-> data]
FreeInode == [in_use |-> FALSE, block |-> 0]
InodeBlock(first) == [kind |-> "inodes", first |-> first,
                      inode |-> [i \in 0 .. InodesPerBlock - 1 |-> FreeInode]]
RootEntries == [kind |-> "entries"]

(* layer0_writeBlock; beyond the device it fails.                          *)
Writable(b) == b < NUM_BLOCKS
Written(b, block) == [device EXCEPT ![b] = block]

Minus1(size) == (size + SizeModulus - 1) % SizeModulus
IlistSize(size) == size \div IlistFraction
Start(size) == IlistSize(size) + 1
NDataBlocks(size) == size - Start(size)

NoSuper == [ilist_size |-> 0, n_blocks |-> 0, flist_head |-> 0,
            free_blocks |-> 0, free_inodes |-> 0]

MkfsInit ==
    /\ program \in Programs
    /\ stage = "start"
    /\ \E size \in Sizes :
           \/ device = [b \in 0 .. size - 1 |-> Zeros]
           \/ /\ program = "mkfs.cofs"
              /\ \E held \in Contents : device = [b \in 0 .. size - 1 |-> Held(held[b])]
    /\ sblock_incore = NoSuper
    /\ row = 0 /\ head = 0 /\ root_data = 0
    /\ complaints = {} /\ status = 0

-----------------------------------------------------------------------------
(* The superblock comes first.                                             *)
WriteSuperblock ==
    /\ stage = "start"
    /\ sblock_incore' =
           [ilist_size |-> IlistSize(NUM_BLOCKS), n_blocks |-> NUM_BLOCKS,
            flist_head |-> Start(NUM_BLOCKS),
            free_blocks |-> (NDataBlocks(NUM_BLOCKS) + SizeModulus) % SizeModulus,
            free_inodes |-> IlistSize(NUM_BLOCKS) * InodesPerBlock]
    /\ IF Writable(0)
       THEN device' = Written(0, Super(sblock_incore')) /\ stage' = "ilist"
       ELSE UNCHANGED device /\ stage' = "failed"
    /\ UNCHANGED <<program, row, head, root_data, complaints, status>>

(* Mutant: the i-list is written from block 0 on.                          *)
CreateIlist_AtZero ==
    /\ stage = "ilist"
    /\ IF row < sblock_incore.ilist_size
       THEN /\ device' = Written(row, InodeBlock(row * InodesPerBlock))
            /\ row' = row + 1
            /\ UNCHANGED <<stage, head>>
       ELSE stage' = "list" /\ row' = 0 /\ head' = Start(NUM_BLOCKS) /\ UNCHANGED device
    /\ UNCHANGED <<program, sblock_incore, root_data, complaints, status>>

(* ilist_create, block by block.                                           *)
CreateIlist ==
    /\ stage = "ilist"
    /\ IF row < sblock_incore.ilist_size
       THEN /\ device' = Written(1 + row, InodeBlock(row * InodesPerBlock))
            /\ row' = row + 1
            /\ UNCHANGED <<stage, head>>
       ELSE stage' = "list" /\ row' = 0 /\ head' = Start(NUM_BLOCKS) /\ UNCHANGED device
    /\ UNCHANGED <<program, sblock_incore, root_data, complaints, status>>

-----------------------------------------------------------------------------
(* FreeList_create, block by block.  With no data block at all the numbers *)
(* go around, and the loop is not entered.                                 *)
InTheList == Minus1((NDataBlocks(NUM_BLOCKS) + SizeModulus) % SizeModulus)
NFreeListBlocks == ((InTheList + E) % SizeModulus) \div (E + 1)
Leftover == InTheList % (E + 1)
FirstEntry(i) == IF i = 0 THEN E - Leftover ELSE 0

(* __create_starting_flist_block                                           *)
StartingBlock(b, first) ==
    LET after == b + (E - first) + 1
    IN  ListBlock(IF after >= sblock_incore.n_blocks THEN 0 ELSE after,
                  [s \in Slots |-> IF s < first THEN 0 ELSE b + (s - first) + 1])

CreateList ==
    /\ stage = "list"
    /\ IF row < NFreeListBlocks
       THEN /\ device' = Written(head, StartingBlock(head, FirstEntry(row)))
            /\ head' = device'[head].next
            /\ row' = row + 1
            /\ UNCHANGED stage
       ELSE stage' = "inode" /\ UNCHANGED <<device, head, row>>
    /\ UNCHANGED <<program, sblock_incore, root_data, complaints, status>>

-----------------------------------------------------------------------------
(* allocate_inode; without an i-list there is no inode.                    *)
AllocateRoot ==
    /\ stage = "inode"
    /\ IF sblock_incore.ilist_size > 0
       THEN /\ device' = Written(1, [device[1] EXCEPT !.inode[0].in_use = TRUE])
            /\ sblock_incore' = [sblock_incore EXCEPT !.free_inodes = @ - 1]
            /\ stage' = "block"
       ELSE stage' = "failed" /\ UNCHANGED <<device, sblock_incore>>
    /\ UNCHANGED <<program, row, head, root_data, complaints, status>>

(* FreeList_pop, of the list just made: the first entry of the head, or,   *)
(* if it has none, the head itself, which the superblock is told first.    *)
PopRootBlock ==
    /\ stage = "block"
    /\ LET first == sblock_incore.flist_head
           list == device[first]
       IN  IF Leftover > 0
           THEN /\ root_data' = list.data[FirstEntry(0)]
                /\ sblock_incore' = [sblock_incore EXCEPT !.free_blocks = @ - 1]
                /\ device' = [device EXCEPT ![first].data[FirstEntry(0)] = 0,
                                            ![root_data'] = Zeros]
           ELSE LET told == [sblock_incore EXCEPT !.flist_head = list.next]
                IN  /\ root_data' = first
                    /\ sblock_incore' = [told EXCEPT !.free_blocks = @ - 1]
                    /\ device' = [device EXCEPT ![0] = Super(told), ![first] = Zeros]
    /\ stage' = "entries"
    /\ UNCHANGED <<program, row, head, complaints, status>>

(* Its two entries, then its inode, and the superblock once more.          *)
WriteRootEntries ==
    /\ stage = "entries"
    /\ device' = Written(root_data, RootEntries)
    /\ stage' = "root"
    /\ UNCHANGED <<program, sblock_incore, row, head, root_data, complaints, status>>
WriteRoot ==
    /\ stage = "root"
    /\ device' = [device EXCEPT ![1].inode[0].block = root_data]
    /\ stage' = "update"
    /\ UNCHANGED <<program, sblock_incore, row, head, root_data, complaints, status>>

UpdateSuperblock ==
    /\ stage = "update"
    /\ device' = Written(0, Super(sblock_incore))
    /\ stage' = "made"
    /\ UNCHANGED <<program, sblock_incore, row, head, root_data, complaints, status>>

-----------------------------------------------------------------------------
(* mkfs.cofs: its exit status, after which the device may be mounted.      *)
Exit ==
    /\ program = "mkfs.cofs" /\ stage \in {"made", "failed"}
    /\ status' = IF stage = "made" THEN 0 ELSE 1
    /\ stage' = "formatted"
    /\ UNCHANGED <<program, device, sblock_incore, row, head, root_data, complaints>>

(* cofs_init, of a device or of memory: layer0_init reads the superblock   *)
(* (of memory only if mkfs was content), and FreeList_init the head that   *)
(* the superblock names; if one fails the program ends.                    *)
Readable(b) == b < NUM_BLOCKS
InitFails ==
    \/ stage = "failed"
    \/ ~Readable(0)
    \/ device[0].kind = "super" /\ ~Readable(device[0].sb.flist_head)

CofsInit ==
    /\ \/ program = "cofs -m" /\ stage \in {"made", "failed"}
       \/ program = "mkfs.cofs" /\ stage = "formatted"
    /\ stage' = IF InitFails THEN "aborted" ELSE "serving"
    /\ sblock_incore' = IF InitFails THEN sblock_incore ELSE device[0].sb
    /\ UNCHANGED <<program, device, row, head, root_data, complaints, status>>

(* Mutant: the number of blocks is compared with the number of blocks.     *)
Mismatches_BlockCount(sb) ==
    LET size == NUM_BLOCKS
    IN  {p \in {<<"ilist_size", IlistSize(size), sb.ilist_size>>,
                <<"n_blocks", size, sb.n_blocks>>,
                <<"flist_head", Start(size), sb.flist_head>>} : p[2] # p[3]}

(* __fsck_check_fs_params: name, what fsck expects and what it finds.  (The *)
(* fourth comparison is of fsck's own numbers.)                            *)
Mismatches(sb) ==
    LET size == NUM_BLOCKS
    IN  {p \in {<<"ilist_size", IlistSize(size), sb.ilist_size>>,
                <<"n_blocks", NDataBlocks(size), sb.n_blocks>>,
                <<"flist_head", Start(size), sb.flist_head>>} : p[2] # p[3]}

(* fsck_in_mem: if layer0_init fails, the answer is that of teardown.  The *)
(* checks behind the first one are never reached.                          *)
Fsck ==
    /\ program = "fsck.cofs -m" /\ stage \in {"made", "failed"}
    /\ IF stage = "failed"
       THEN UNCHANGED complaints
       ELSE complaints' = {p[1] : p \in Mismatches(device[0].sb)}
    /\ status' = IF complaints' = {} THEN 0 ELSE 1
    /\ stage' = "checked"
    /\ UNCHANGED <<program, device, sblock_incore, row, head, root_data>>

MkfsNext ==
    \/ WriteSuperblock \/ CreateIlist \/ CreateList
    \/ AllocateRoot \/ PopRootBlock \/ WriteRootEntries \/ WriteRoot \/ UpdateSuperblock
    \/ Exit \/ CofsInit \/ Fsck

MkfsSpec == MkfsInit /\ [][MkfsNext]_mkfsVars

-----------------------------------------------------------------------------
(* What FreeList_pop goes through, by the bytes that it finds: the head,   *)
(* the block that each `next' names, and their entries.  (What mkfs wrote  *)
(* as something else is on no such way, unless a block that it did not     *)
(* write leads there; that is not followed.)                               *)
ReadAsList(b) == b # 0 /\ Readable(b) /\ device[b].kind \in {"list", "held"}
Following(b) == IF ReadAsList(b) THEN device[b].next ELSE 0
EntriesOf(b) == IF ReadAsList(b) THEN Range(device[b].data) \ {0} ELSE {}
Hop[i \in 0 .. NUM_BLOCKS] ==
    IF i = 0 THEN sblock_incore.flist_head ELSE Following(Hop[i - 1])
Heads == {Hop[i] : i \in 0 .. NUM_BLOCKS} \ {0}
Served == Heads \union UNION {EntriesOf(b) : b \in Heads}

(* If the rows come out even, the loop of FreeList_create ends before it   *)
(* writes the list block of the last one.  The row before leads there, and *)
(* the block holds what it held.                                           *)
Even == Leftover = 0
Unwritten == NUM_BLOCKS - E - 1
Lost == IF Even THEN Unwritten + 1 .. NUM_BLOCKS - 1 ELSE {}

(* The volume's parts; each block is in one of them.                       *)
Ilist == {b \in DOMAIN device : device[b].kind = "inodes"}
Parts == <<{0}, Ilist, {root_data}, Served, Lost>>
Partition ==
    /\ UNION Range(Parts) = DOMAIN device
    /\ \A i, j \in DOMAIN Parts : i # j => Parts[i] \intersect Parts[j] = {}

(* The inodes are numbered without a gap, and only the root's is in use.   *)
InodesNumbered ==
    /\ Ilist = 1 .. sblock_incore.ilist_size
    /\ \A b \in Ilist : device[b].first = (b - 1) * InodesPerBlock
    /\ {p \in Ilist \X (0 .. InodesPerBlock - 1) : device[p[1]].inode[p[2]].in_use} = {<<1, 0>>}

(* Of whatever size the device is: once mkfs is content, and when the file *)
(* system is then served, the root directory and the inodes are there and  *)
(* the superblock on the device is the one in core; mkfs is content with   *)
(* every device that has room for one block of inodes.  As to the blocks:  *)
(* if the rows are not even, each has its place and pop serves as many as  *)
(* statfs reports.  If they are even, mkfs counts the last row as free,    *)
(* but did not write its list block: when that was zeroed pop serves it    *)
(* and never the row's entries, and when it was not, pop serves what comes *)
(* before and then goes on with whatever the block held.                   *)
Content == \/ stage = "made"
           \/ stage = "serving" /\ (program = "cofs -m" \/ status = 0)
FreshVolume ==
    /\ stage = "failed" => IlistSize(NUM_BLOCKS) = 0
    /\ Content =>
           /\ InodesNumbered
           /\ device[0] = Super(sblock_incore)
           /\ sblock_incore.free_inodes = sblock_incore.ilist_size * InodesPerBlock - 1
           /\ device[device[1].inode[0].block] = RootEntries
           /\ IF Even /\ device[Unwritten] # Zeros
              THEN /\ device[Unwritten].kind = "held"
                   /\ (Start(NUM_BLOCKS) .. Unwritten) \ {root_data} \subseteq Served
              ELSE /\ Partition
                   /\ sblock_incore.free_blocks = Cardinality(Served) + Cardinality(Lost)

(* The list is "the Free List for data blocks", of which it is told the    *)
(* "total number" (free_list.h): those that mkfs did not use itself can be *)
(* had.  Not so if the rows are even.                                      *)
AllServed == Content => Served = (Start(NUM_BLOCKS) .. NUM_BLOCKS - 1) \ {root_data}

(* What fsck.cofs -m says of memory that it just formatted itself.  Its    *)
(* one complaint is about its own arithmetic, the number of data blocks    *)
(* that it compares with the number of all blocks, except that a list of   *)
(* even rows starts at its second row by then; and it is content with      *)
(* memory that is too small to be formatted.                               *)
FsckAnswer ==
    stage = "checked" =>
        IF IlistSize(NUM_BLOCKS) = 0 THEN status = 0
        ELSE complaints = {"n_blocks"} \union IF Even THEN {"flist_head"} ELSE {}
=============================================================================
