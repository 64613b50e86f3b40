# A verification of COFS in TLA+

COFS is a Unix file system in user space: a superblock, an i-list, data blocks
with direct and indirect pointers, a free list made of the free blocks
themselves, directories, and a FUSE front end that runs single-threaded
(`-s`). This directory models it, from the formatting of a device to the handles
of open files, checks the models with TLC and proves theorems about seven of
its parts with TLAPS: the free list, the inode table, the block map, the
directories, the data of a file, the open files and mkfs. `PROJECT.json` holds the same information
in a form programs can read: which definition models which lines, which run
checks which property, which hazard each property is for.

## The system

| Part | State it keeps | Operations | Used by |
|---|---|---|---|
| layer 0 (`layer0.c`) | the mapped device | read and write a block, init, teardown | everything |
| superblock (`superblock.c`) | `sblock_incore`: `flist_head`, `free_blocks`, `free_inodes`, sizes | `update_superblock` | free list, i-list, statfs |
| free list (`free_list.c`) | list blocks on disk; the head cached in core (`list_head`, `list_head_blkidx`, `next_freeslot`), `tail_idx` | create, init, pop, append, fsck | block map, mkfs |
| i-list (`cofs_inode_functions.c`) | inodes on disk; one cached block (`inode_cache`, `cached_inode_block`) | create, allocate, free, read, write | everything above |
| block map (`cofs_datablocks.c`) | the block pointers of an inode and its indirect blocks | allocate the next block, release from a block on, visit all, last one | files, directories |
| directories (`cofs_directories.c`, `layer2.c`) | entries in the data blocks of a directory, `num_direntries`, `refcount`, `n_bytes` | add, look up, remove, create; namei; create_node; decrement_inode_refcount | system calls |
| file data (`cofs_files.c`) | the bytes of a file, `n_bytes` | read, write | system calls |
| system calls (`cofs_syscalls.c`) | `my_ino`, the handle `fi->fh` | the FUSE operations | the kernel |
| main (`cofs_main.c`), with libfuse | the table of callbacks; libfuse's table of open nodes | `cofs_init`, `cofs_destroy`; libfuse hides an open file instead of unlinking it | the kernel |
| mkfs (`cofs_mkfs.c`), fsck (`cofs_fsck.c`) | - | make and check a device | the user, `layer0_init` for memory |

The parts call each other directly and share `sblock_incore`, the device and
static caches. There is one thread, so nothing interleaves with an operation
except a crash, which may fall between any two disk writes: nothing is
journalled, and the only repair is the unfinished fsck. What is hard in this
code is therefore:

- the order of the writes of one operation, and what each prefix of them means
  to the process that mounts the device next;
- copies that have to move together: the cached head, the superblock in core
  and on disk, the cached inode block and its label, an inode in core and the
  one on disk, `num_direntries` and the entries;
- operations that fail half way (no block, no inode, a name that is too long,
  an I/O error) and have to undo what they did;
- boundaries: between the four levels of the block map, the first and the last
  slot of a list block, `size_t` counters that pass below 0, a device that
  becomes full and a list that becomes empty;
- long legal sequences: fill, release and refill; create and remove in a
  directory until it has holes; open, remove, create and write through the old
  handle;
- programs that read what another one wrote: a mount after a mkfs that failed,
  fsck of a list that a crash or a caller's bytes damaged.

What makes each part correct: no block and no inode has two users and none is
lost, whatever crashes (free list, i-list, block map); the map of a file lists
the blocks it was given, in order (block map); a name leads to the inode that
it was made for, or to none (directories); a read returns what was written
(files); a handle leads to the file that was opened (system calls); a new volume
has every block in one place (mkfs), and a list that is called intact is (fsck);
every operation ends.

## The modules

| Module | Models | State and actions |
|---|---|---|
| `BlockPool` | what `free_list.h` promises | a set of free blocks and the contents of those in use; `Alloc`, `Write`, `Release`, `Crash` |
| `FreeList` | `free_list.c` pop, append, create, init, with mount and unmount | the variables have the names of the C statics; one action per disk write, `pc` says where an operation is; `held` (the callers' blocks) and `chain` (the list, head to tail) are auxiliary |
| `FreeListProofs` | theorems about `FreeList` and `FreeListFsck` | the inductive invariant `IInv`; the refinement of `BlockPool`, the count of free blocks, the head in the superblock; what the checker's answer means |
| `FreeListFsck` | `FreeList_fsck`, on top of `FreeList` | an operator of the device and of the claim of what ought to be free: the checker changes nothing and runs when the file system is down. `FsckWalk` is its loop, `my_freelist` its sorted copy, as how often each number is in it |
| `BlockMap` | `cofs_datablocks.c` and its callers in `cofs_files.c` and `layer2.c` | inodes with four levels of pointers; `frames` is the stack of arrays the `__alloc_` functions hold; the pool is an instance of `BlockPool`; `owned` (what was allocated for whom) and `overruns` (what was stored past the end of an array) are auxiliary |
| `BlockMapProofs` | theorems about `BlockMap` | the inductive invariants `TypeInv`, `OwnInv`, `SizeInv`, `UndoInv` and `LostInv`, and the walk of a release |
| `BlockMapOrderProofs` | theorems about `BlockMap` | the inductive invariants `OrderInv`, `KeptInv` and `ShrinkInv`, and the walks over a file |
| `InodeTable` | `cofs_inode_functions.c` | one action per call, because each writes one block |
| `InodeTableProofs` | theorems about `InodeTable` | the inductive invariant `TInv`, the refinement of `BlockPool` |
| `Namespace` | what the directories promise: links that form a tree | `Link` and `Unlink` |
| `Directory` | `cofs_directories.c`, namei and create_node of `layer2.c`, and mknod, mkdir, symlink, unlink, rmdir, readdir of `cofs_syscalls.c` | inodes and their slots on disk; `core` holds an operation's copies of inodes and `calls` the calls of `Dir_addEntry` it has still to make; one action per disk write |
| `DirectoryProofs` | theorems about `Directory` | five inductive invariants (`DirInv`, `CountInv`, `TreeInv`, `RefInv`, `FilesInv`) and the refinement of `Namespace` |
| `FileIO` | `cofs_files.c`, cofs_read and cofs_write | one file of bytes; one action per block allocated or written; `want` (what completed writes wrote) is auxiliary |
| `FileIOProofs` | theorems about `FileIO` | the inductive invariants behind `SizeTrue` and `ReadBack` |
| `OpenFiles` | the system calls by whole requests, with `fi->fh`, over one directory, the inodes and a count of blocks; libfuse beside them | `handle` is what the kernel and libfuse know of an open file; which file an inode belongs to and who wrote into it are auxiliary |
| `OpenFilesProofs` | theorems about `OpenFiles` | the inductive invariants `OInv` and `DamageInv` |
| `Mkfs` | `cofs_mkfs.c` with the functions it calls, `layer0_init` and `cofs_init` after it, and the reachable part of `cofs_fsck.c` | one action per block written; the device's blocks by what they hold |
| `MkfsProofs` | theorems about `Mkfs` | the inductive invariant `MkfsInv`, which says for each stage what the device of n blocks looks like |
| `MC...` | values of constants for TLC | - |

How they fit: `FreeList` and `InodeTable` implement `BlockPool`; `BlockMap`
uses `BlockPool` in the place of the free list, so that what it shows holds for
the free list as far as `PoolSpec` does. `Directory` and `FileIO` use of
`BlockMap` what `MapFaithful` says - a file is a sequence of blocks that grows
at its end - and count the free blocks. `Directory` implements `Namespace`.
`OpenFiles` takes the requests of `Directory`, `FileIO` and `BlockMap` as single
steps: what can happen between two requests is its subject. `Mkfs` ends where
the initial states of the others begin. `FreeListFsck` extends `FreeList`, so
that the checker sees every device the list can leave.

Abstractions that all of them make: permissions, owners and times have no
effect on what is modelled; strings are model values; `calloc` and `malloc`
do not fail; the writes of layer 0 reach the disk in the order they are made
(`msync` is called with `MS_ASYNC`; the order across a power failure is the
operating system's). The kernel asks for a new node only after a lookup that
found no such name, and for a removal only after one that did (FUSE looks a
name up before it operates on it). This says nothing of the entry that
`cofs_symlink` adds: it is named after the base name of the text the link points
to, which nobody looked up, and which may be there already, be `.` or `..`, or be
empty (`Asked` in `Directory`). A definition with a name like `Free_NotCounted`
is a variant of `Free` with one plausible mistake in it, which no specification
uses; every property is violated when one of them takes the definition's place.

## The runs

| Run | Instance | Question |
|---|---|---|
| `FreeListData` | 5 data blocks, list blocks of 2 entries, callers hold at most 4 and write block numbers into them, one unmount | Do the invariants of the list hold, does every operation end, and does it implement the pool, when nothing crashes? |
| `FreeListCrash` | the same, at most 3 held, callers leave zeros, one crash anywhere and one unmount | And through a crash? The invariant `IInv` of the proofs, with the bound on what is lost |
| `FreeListFsck` | 2 data blocks, both of which may be held, list blocks of 3 entries, with contents that name blocks, have a wide gap or point beyond the device, one crash, one unmount, every claim | Does what `FreeList_fsck` answers agree with what popping the list would hand out, on sound and on corrupt lists? |
| `BlockMapGrow` | one file, one pointer per level, indirect blocks of 2, 27 blocks, one failed write | Does the map stay faithful through all four levels, to the largest file (15 blocks and the 11 indirect ones need 26) and back? |
| `BlockMapCrash` | one such file and one of at most a block, 12 blocks, one crash | What does a crash between two writes of an allocation or a release cost? |
| `InodeTable` | three blocks of two inodes, two contents, one remount | Is the one-block cache ever stale? |
| `Directory` | 3 inodes, 3 names of which one is too long, blocks of 2 entries, links to paths that end in a name or in `/`, 3 free blocks, two removals, one entry without a name, one crash | Do names, inodes, dots and counts agree, through failures and a crash? |
| `FileAppend` | blocks of 3 bytes, 2 blocks, 4 writes of up to 5 bytes of two kinds, one crash | Do size and contents follow the appending writes? |
| `OpenFiles` | 2 handles, 2 names, 2 inodes, 2 slots, 3 blocks, 4 nodes made one after the other, writes of any number of blocks, 3 blocks or files for stray ones | Does a handle lead to the file that was opened, and what can one that does not do? |
| `Mkfs` | all devices of 0 to 40 blocks, with zeros or three kinds of old contents; an i-list of a fifth; list blocks of 3 entries; three programs | Is a new volume whole for every size, what is missing if the rows of the list come out even, and what do a mount and fsck make of it? |
| `FreeListFull`, `BlockMapFailedWrite` | | each shows one deviation, see below |

Why these bounds are enough to be interesting. With 2 entries per list block a
list of five blocks has a partly filled head, a full list block and a tail, and
every operation meets a full, a partly filled and an empty head. With one
pointer per level and 2 per indirect block each boundary between levels, and a
new indirect block at each depth, comes within 26 blocks; 27 show that the
largest file fails with a block to spare. The pool hands out the least free
block (`AnyOrder = FALSE`): the code of the map does not look at the numbers.
Twelve blocks let a crash leave `n_blocks` one too low inside the double
indirect block, the next allocation store a pointer past the end of an array,
and every kind of allocation fail half way. Directory
blocks of 2 entries make the root's first block full from the start, so that
every creation may need a block and may not get it; the name of a link that is
`a` is taken or not, and the empty one is a hole. Blocks of 3 bytes give
writes that begin, end and stay inside a block. `SizeModulus` is the 2^64 of
`size_t`, small enough to wrap. `BlockMapGrow` ends with a failed write
(`UntilFailure`), because what is on the disk after one is not a file system
(`BlockMapFailedWrite`); a list that holds corrupt entries is cut off in
`FreeListFsck` when it is longer than the device (`ShortChain`). Two data blocks
are enough there for a list block with an entry, an empty list, a list block
that names itself, a cycle of two, an entry that is a list block too, and
numbers beyond the device; three entries leave room for a gap of two slots; each
device meets all four claims. In `OpenFiles`
fewer inodes than nodes give an inode a second owner while a handle is open on
the first, and three blocks let one stray write take several. Forty blocks in
`Mkfs` are ten rows of the list, and every
remainder of both divisions, several times, each with zeros, with an end of a list
that has entries, and with lists that go back or on; the two handles of `OpenFiles` are
interchangeable and it checks no liveness, so that it uses them as a symmetry.

Type invariants are parts of other invariants: `TypeOK` of `IInv`, `MapTypeOK` of
`NoOverrun`, `TableTypeOK` of `TInv`, `DirTypeOK` of `CountsRight`, `FileTypeOK` of
`SizeTrue`, `OpenTypeOK` of `OInv`.

`Mkfs` ends when the program does, and so does not ask for the absence of
deadlock.

### Fairness

`FairSpec`, `FairMapSpec` and `FairFileSpec` assume weak fairness of `Resume`,
the disjunction of the steps that go on with an operation that started. The
program is one thread that runs an operation to its end before it takes the
next request, so it takes such a step whenever there is one. Nothing is assumed
about requests, crashes or mounts. The runs that check liveness have no symmetry
and no crash that could end an operation for another reason, except
`FileAppend`, where a crash ends one as well.

## What is proved

The invariants follow one pattern: a strengthened invariant, a lemma that the
initial states satisfy it, one lemma per action that the action preserves it,
and the theorems as its consequences. TLC checks `IInv` in `FreeListCrash` and
`TInv` in `InodeTable`; the others were checked once on the instance of their
component (`RefInv` and `FilesInv` on 1.17 million states) and stand in for the
properties of its run, which they imply.

`FreeListProofs`, for every device, every size of list block, all contents and
any number of crashes and unmounts, under the condition `SafeUse`:

- `Invariance`: `IInv` is invariant;
- `TypeCorrect`, `SafePool` (`NoDoubleUse`), `SoundList` (`ListIntact`),
  `CoreCurrent` (`CoreMatchesDisk`), `BoundedLeak` (`LeakBound`), `TailFound`.

`IInv` adds to these what makes them inductive: where the block `cand` of a
running operation is (in a slot of the head, in flight, or at the end of the
chain), which block the search for the tail has reached, that a block counted as
free, held and in flight is only one of them, and that the chain is never
empty. The last needs `SafeUse`: `HeldLimit + MaxCrashes` is less than the number of data blocks, so
that a block always remains. The other conditions of `SafeUse` - mkfs's
division does not come out even, its buffer was clear, callers leave zeros if
there are crashes - are the deviations of the code listed below; without any
one of them the theorems are false, as TLC shows when a constant is changed.

and, built on `Invariance`:

- `ImplementsPool`: under `SafeUse` the free list implements `BlockPool`. A block
  changes hands in one step each way, a pop when it returns and an append when it
  begins; every other write is a stutter, because none touches a block that a
  caller holds, and a crash loses the block in flight or none. The proof has to
  say how each write changes the entries of every list block (`FreeSet`);
- `FreeBlocksExact` (`CountExact`): the counter moves in the same steps as the
  cardinality of `FreeSet`, except that inside an operation they are one apart
  (`Settled`); and as `FreeSet` is finite, counting never wraps;
- `HeadOnDisk` (`SuperblockCurrent`), without `SafeUse`: even a corrupt list has
  its head in the superblock.

and about `FreeListFsck`, without `SafeUse` as well, for every claim - all they
need is that what is on the disk are blocks and what is in them numbers
(`DiskInv`):

- `IntactIsSound` (`IntactServes`): after each turn of the loop the copy has every
  number at least as often as any two of the list blocks read give it (`CopyIs`),
  so that a copy that equals a claim, in which every number is once, comes from
  a list whose blocks and entries are all different. A walk that came to its end
  met every list block that the hops along `next` meet (`HopsAlong`);
- `SoundIsIntact` (`ServesIntact`): conversely, a list that comes to its end has no
  list block twice, because the same block has the same successors
  (`HopsApart`), and so each turn adds numbers that were not there, as many as
  it counts (`OnceEach`).

`InodeTableProofs`, for every size of i-list and block, without conditions:

- `TableInvariance`: `TInv` is invariant - types, a cache that is what its label
  says, the data block behind the i-list untouched, inodes that know their
  number;
- `CacheIsCoherent`, `DataBlockIsSafe`, `ReadIsCurrent`, `MissingIsFull`;
- `TableIsPool`: the i-list implements `BlockPool`;
- `FreeInodesExact` (`FreeCountExact`): `free_inodes` is right until the first
  remount, and so never wraps.

`TInv` needs `InumTrue` because `allocate_inode` answers the number stored in the
inode, and it needs the second half of `CacheCoherent` - with the label one past
the i-list the cache has no free inode - because otherwise the next
`allocate_inode` would write to the first data block.

`OpenFilesProofs`, for any number of handles, names, inodes and blocks:
`HandlesLead` (`HandleTrue`). `OInv` adds that every entry of the directory names
an inode in use, and each another one (`EntriesGood`), and that what is open
under the name it was opened by is in the directory with the handle's number
(`HandlesNamed`): `unlink`, which libfuse asks for only when no open node has the
name, then never frees the inode of such a handle. That `rmdir` does not needs
the type of the inode, because libfuse does not hide directories. And
`DamageBounded` (`StrayDamage`): with each inode counted for its blocks, but one
less if a stale handle wrote into it (`Sound`), the free blocks, these and the
stray writes together never become fewer than the blocks there were
(`DamageInv`), although such a write may give blocks to a free inode, which the
next file to get the inode forgets. `File_writeData` takes all the blocks up to
the end of the request, so that one write can lose many: a stray write counts as
often as it took blocks (`Cost`), and once if it took none, for the file that it
wrote into.

`DirectoryProofs`, for every number of inodes and names, every size of directory
block, any number of removals and a crash between any two writes:

- `TypeCorrect`, `NeverDangling` (`NoDangling`), `OneNameEach` (`NamedOnce`) and
  `DotsFirst` (`DotsRight`), from `DirInv`: what is free has no slots, each link
  leads to an inode in use which is not the root and to which no other link
  leads, a directory that has a name begins with its dots, and the running
  operation is at a known place of its script (`Phases`). The script is needed
  because a new directory gets its dots before its name: at each moment the
  entries still to be written are an end of the script, and its inode has no
  name until the last of them;
- `NoBlockLost` (`BlocksConserved`): a pop, the write of the inode that names the
  block, each append and the freeing of the inode are actions of their own, and only a
  crash between the first two, and the undoing of a mkdir, lose a block. A crash
  between two appends loses none: what is not appended yet is in the inode on
  disk, to which no name leads any more (`FilesKept` bounds how many of those there
  are);
- `CountedRight` (`CountsRight`): `CountInv` sums over the directories how far each
  `num_direntries` is from the number of entries, taking for the directory at work
  the number it will have, and shows that no step makes the sum larger but a crash
  and the entry of a symbolic link with an empty name, which is counted and
  reads as a hole. All such entries are the root's: until the first crash the other
  directories count exactly, and the root counts at least its entries
  (`RootFull`). It also shows that the assertion of `cofs_directories.c:185` fails only
  after a crash;
- `ImplementsNamespace` (`TreeSpec`), until the first crash: every step makes one
  link in a directory that hangs on the root, or removes the one link to an
  inode without links of its own (`TreeInv`: a directory that is being removed is
  empty, because its count says so and the counts are right);
- `NeverTooFew` (`LinksCounted`), from `RefInv`: `refcount` is at least 2 and the number
  of links to directories, with the references of the operation at work. That is
  not what the header says, 1 (`OneReference`), and it is not more than a lower
  bound (`ListingsCounted`);
- `FilesStay` (`FilesKept`), from `FilesInv`: there is one inode `x` such that every
  file but `x` has its name, its reference, and a parent whose count is right if
  it has a single reference. The property is bounded to one crash because it is
  false from the second on: the first can leave a directory with one reference,
  the second an entry of it uncounted, and rmdir then frees a directory with a
  file in it;
- `PackedServed` (`PackedComplete`): `Dir_lookup` looks at as many slots as the
  directory has entries and `readdir` answers the first that many that are not
  empty; without holes, and with a count that is right (`CountInv`), both meet all
  entries. The root may have a name twice, that of a file and that of a link, and
  then a lookup finds one of them; with an entry that has no name its count is too
  high, which costs a lookup nothing and lets readdir list a hole.

`FileIOProofs`, for every size of block, device and length of writes, and any
number of writes and crashes:

- `SizeIsTrue` (`SizeTrue`) if no write overwrites (`NoOverwrites`);
- `ReadsBack` (`ReadBack`) if every write appends and none that begins inside a
  block goes beyond it (`AppendsOnly`). The invariant `DataInv` says where the bytes
  of `want` are, block and offset, and that the iterator's next block is the one
  where the next byte goes (`Placed`).

Both conditions exclude what the code does wrong (see the deviations); without
them the theorems are false, as `Kinds <- Overwriting` or `Straddling` shows.

`BlockMapProofs`, for every number of inodes and blocks, every layout of an inode
and any number of crashes:

- `MapTypeCorrect` (the types of `MapTypeOK`), from `TypeInv`;
- `NeverShared`: `OwnedOnce` holds as long as no write failed. `OwnInv` says that
  there is a function `at` that gives a block its only place - the file, the level,
  the block that names it, the slot there - such that what linked inodes, indirect
  blocks with a place and the arrays of a running allocation name are blocks in
  their places (`Placed`). A block popped gets its place when it is stored in core,
  although nothing on disk names it until the block above is written (`Unnamed`);
  one that is given back has lost it before: the new indirect blocks because
  nothing but the stack names them, the blocks of an unlinked file because the
  entry is removed first. Above a popped block the stack leads down by the last entry of each
  array, so that `UndoIndirect` clears the pointer to the block it releases.
  That `release_datablocks` gives back nothing twice and nothing of another file is an
  induction over the levels and the entries of a level (`WalkTakes`,
  `ReleasedOwn`): what a walk visits below two pointers is disjoint, because the
  chains of places upwards from it are. A crash may leave `n_blocks` one too low; the next
  allocation then stores a pointer past the end of an array and goes on below a
  block that nothing names (`Astray`): what it pops from there on has no place, and
  it comes back to where the arrays have one, so that this shares no block
  either. `failures = 0` is needed: a failed write
  leaves an inode that names free blocks (`BlockMapFailedWrite`);
- `NeverOverrun`: `NoOverrun` holds until the first failed write or crash, whatever
  the layout. `SizeInv` adds to the places a number of data blocks `w` under each
  indirect block (`Sized`): an array with m data blocks under it has them from
  the left, every entry full but the last (`Filled`); the arrays of a descent
  name the one below already, before any data block is under it (`Opened`); and
  `my_blocks`, which the code reduces modulo the span of one level after the
  other, differs from the number under the current array by a multiple of that
  level's span. So `my_blocks % span = 0` exactly if the last entry is full, and
  there is a slot after it because `n_blocks` is below the next level's limit.
  A crash between the writes of the indirect blocks and of the inode breaks
  `Filled` on disk, and with it the theorem's claim (see the deviations);
- `FailuresUndone`: `FailureUndone` holds until the first failed write. The pool when
  the allocation began is the pool now and the targets of the new arrays in core,
  of which there are at most three (`Borrowed`, `FewBorrowed`), and the pointers in
  core are the inode's own without the last if that names a new array
  (`TopBefore`), at every step down and back up.
- `NothingLost`: `NoLeak` holds for an inode with one pointer to a double and one to
  a triple indirect block, as in `cofs_data_structures.h:42-43`: a release looks at
  the first of each only. `LostInv` is the converse of `Placed`: every block in use
  has a place or is about to be appended (`Accounted`), the block above a place has
  its place one level higher in the same file (`Hung`), and the array that a place
  is in names the block, on disk or, while an allocation runs, in what it has yet
  to write (`Seen`, `InCore`). So between operations all places are on disk, and a
  release from the first block on visits what is below each pointer in full
  (`WalkAdds`, `ReleasedAll`). That it looks at the triple indirect block only if
  there is a double one is no loss, because the levels fill in order: this takes
  the numbers of `SizeInv`;
- `MapIsFaithful`, in `BlockMapOrderProofs`: `MapFaithful` holds until the first failed write or crash,
  whatever the layout. `OrderInv` gives each block in use a number `g`, that of the
  first data block under it in its file: slot s of an array of level k has the
  number of the array and s - 1 spans of that level (`Numbers`), a data block with
  number n is the one that `alloc_new_datablock` returned as the n-th
  (`Given`), and `n_blocks` counts what it returned (`Counted`). On the way
  back up the block that is about to be returned counts already (`Coming`), since
  the indirect blocks are written before the inode. A walk over the entries of a
  level, and then over those of each entry, meets the blocks of the level below by
  their numbers, without a gap, because every entry but the last is full (`Run`,
  `RunBelow`, with `Sized`); three such steps, and the four levels one after the other
  (`Upto`), are `FileBlocks`;
- `CrashKeepsData`, in the same module: `DataKept` holds until the first failed write
  or overrun, however often the system crashes and whatever is allocated
  afterwards. (An allocation that stores a pointer past the end of an array
  returns a block that is not in the file: `Assigned` fails. That it is one for each
  such store is checked by `BlockMapCrash` and not proved.) `OrderInv`
  does not survive a crash: one between the indirect blocks and the inode leaves
  `n_blocks` too low and blocks on disk that nobody was given, and the numbers `g`
  of later blocks may skip some. `KeptInv` says what does survive. There is a set `K` of blocks,
  among them all that `alloc_new_datablock` returned for a file in a directory, that
  hang from their inode by arrays on disk (`Rooted`), the numbers of what it
  returned increase (`InOrder`), and the inode uses no level that its `n_blocks`
  does not reach (`LevelsUsed`). While an allocation goes down, its arrays in core have
  all that is on disk (`CoversDisk`), and each data block of the file in `K` lies before the
  slot it looks for (`Behind`); on its way back up the new block and those above it
  that are written already hang together (`Fresh`), and they enter `K` only when
  the inode is written. At the end a walk meets the blocks by their numbers (`Sorted`,
  `WalkBelow`), with gaps, and misses none of `K` (`BelowIn`);
- `FailedWriteKeeps`, in the same module: `ShrinkKeeps` holds for the first write that
  fails, as long as nothing crashes, for an inode with one pointer to a double and
  one to a triple indirect block as before. When the write fails `OrderInv` and
  `LostInv` say where every block is, and the two accounts agree (`PlacesAgree`). The
  release counts the data blocks it passes, and comes to each block with a count
  that is the block's number (`WalkPasses`): so it appends no block whose number is less
  than the start, and clears every pointer of the inode to one that is not
  (`ReleasesFrom`). `ShrinkInv` is what holds from then on: the pointers in core that are
  left, and the arrays they lead to, some of them given back, are in order still
  (`Tree`); the blocks with the numbers before the start are found by way of each
  other (`Climb`), and none of them is free or about to be (`Safe`). The walk over
  the file meets numbers that increase, and those from 0 to `start` - 1 are among
  them, so that it meets these first (`FileStarts`); if the start is where a level
  begins, no level that is left holds any others (`Reached`).

`MkfsProofs`, for every set of sizes, every size of an i-list block and of a list
block and all old contents, under `MkfsAssumption` - the numbers do not overflow,
a row of the list divides 2^64, and the i-list gets at
most a quarter of the device (the code: a tenth), so that a device with an inode
has a data block for the root directory and one more:

- `FreshMade` (`FreshVolume`) and `FsckAnswers` (`FsckAnswer`). `MkfsInv` holds with one
  number n of blocks throughout. Rows of the list begin at `RowStart(n, i)`, and
  `Layout` says that a stage has written such and such rows and blocks of the
  i-list, and that every other data block holds what it held. At the end
  the list is followed hop by hop, by the bytes that are found (`HopIs`). If the rows are
  not even this ends with the last row, whatever the device held, and the parts turn
  out to be five intervals, but for the root's block. If they are even (about one
  size of a device in 512), the hops lead to a block that mkfs did not write: if it was
  zeroed it is served and the rest of its row is lost, though both are counted
  as free; if not, all blocks before it are served, and then what it names
  (`AllServed` fails).

Only model-checked: all liveness. Liveness under fairness and ENABLED are beyond
the prover. The induction theorems of the library take an operator as a
parameter, which no installed prover can instantiate; where a sum or a walk needs
an induction (`SumFunction` in `DirectoryProofs` and `OpenFilesProofs`, `ReadData` in `FileIOProofs`, the path of a name
in `DirectoryProofs`) the proof takes the least counterexample instead, from the
well-foundedness of `<` (`LeastNat`).

## Known deviations

Two have a run that shows them and a finding in `PROJECT.json`:

- `FreeListFull`: append to an empty list takes an uncleared block as the head
  (`free_list.c:165-171`);
- `BlockMapFailedWrite`: a failed write leaves an inode on disk that names
  blocks it released (`cofs_files.c:150-151`, `cofs_syscalls.c:373-374`).

Six contradict what the code says of itself in a way that has a definition of its
own in the modules. TLC finds it violated when it takes the place of the
properties in the run's cfg; what a passing run shows instead is in brackets:

- `AllServed` in `Mkfs`: `FreeList_create` makes one list block too few when the
  division is even (`free_list.c:60-64`), against `free_list.h:10-11`, which promises
  the free list of the "total number of data blocks" [`FreshVolume`: what of
  such a volume is served and what is lost]. `NumBlocks = 6` in `FreeListCrash` shows the
  same to the list itself;
- `Assigned` in `BlockMapCrash`: a crash between the indirect blocks and the inode
  leaves `n_blocks` one too low, a later allocation stores a pointer past the end
  of an array (`cofs_datablocks.c:198`, `248`, `301`), goes on, and returns a
  block that is not in the file, against `cofs_datablocks.h:28`, "assigns it to
  inode" [`DataKept`: one for each such store]. `NoOverrun` fails there too;
- `OneReference` in `Directory`: a directory has two references and more
  (`cofs_directories.c:106-108`, `layer2.c:123`), where
  `cofs_data_structures.h:181-183` says that "it should always be 1"
  [`LinksCounted`: never fewer than the links];
- `ListingsCounted` in `Directory`: the `..` of a directory stays counted in its
  parent when it is removed, or undone after the parent got a new block
  (`layer2.c:95-105`, `143-145`), although "the '.' and '..' listings count as links"
  (`cofs_directories.c:106`) [`LinksCounted`];
- `RemovedFreed` in `Directory`: a removed directory has a reference left and is never
  freed (`layer2.c:99`), against `cofs_directories.h:35` [`FilesKept`, of files];
  nor is a symbolic link, which has no reference to begin with;
- `EntriesCounted` in `Directory`: a link to a path that ends in `/` is counted as an
  entry and reads as a hole (`cofs_syscalls.c:228`), where
  `cofs_data_structures.h:190` calls the count the "number of entries"
  [`CountsRight`: the root's only, and by no more than there are such entries].

The others show when one constant or property of a run is changed:

- `Dir_lookup` counts holes as entries and misses the last names once an entry
  was removed before them (`cofs_directories.c:141`, against
  `cofs_directories.h:27-30`): the invariant
  `Idle => \A l \in Links : l.dir \in Directories /\ l.inum # Missing => Lookup(l.dir, l.name) # Missing`
  fails in `Directory` with `MaxCrashes = 0`;
- a write for which there are not enough free blocks never returns
  (`cofs_files.c:143-144`, against `cofs_files.h:25`): the property `~Idle ~> Idle`
  fails in `FileAppend` with `SpareBlocks = 1`;
- `tail_idx` is stale once the list has run empty (`free_list.c:141`):
  `HeldLimit = 5` in `FreeListCrash`;
- the head's unused slots are never initialised (`free_list.c:52-55`, `66`):
  `HeapWords <- Garbage`;
- the tail is linked before it is zeroed (`free_list.c:189-190`):
  `Payloads <- FileData` in `FreeListCrash`;
- a release from the middle of an indirect block leaves the pointers in it
  (`cofs_datablocks.c:387-404`): drop the condition on the start from
  `ShrinkKeeps`;
- overwriting adds to the size again (`cofs_files.c:153`), zeroes the rest of a
  block (`113-118`), and a write that straddles a block's end loses bytes
  (`106-120`), which `tests/writebig.cpp:54-55` does: `Kinds <- Overwriting` or
  `Straddling` in `FileAppend`;
- readdir lists holes and drops the last entries (`cofs_syscalls.c:437`,
  `433-434`): drop `Packed` from `PackedComplete`;
- `n_bytes` of a directory wraps (`cofs_directories.c:170`);
- a directory that cannot be linked loses its block (`layer2.c:143-145`): drop the
  last disjunct of `BlocksConserved`; and a crash after the pop of a block loses
  that (`cofs_datablocks.c:157-167`, `359`): drop the second one;
- the root can have two entries of a name, because a symbolic link is named after
  its target (`cofs_syscalls.c:228`): the invariant
  `Idle => \A l, m \in Links : l.dir = m.dir /\ l.name = m.name => l = m`
  fails in `Directory` with `MaxCrashes = 0`;
- rename answers success and does nothing (`cofs_syscalls.c:233-240`), so that an
  unlink of an open file succeeds and leaves its name (libfuse asks for a rename
  to hide it), and libfuse's names and the directory's differ from then on: drop
  `~handle[h].moved` from `HandleTrue`;
- `FreeList_fsck` does not end on a cycle before memory runs out
  (`free_list.c:316-318`, against `245`): the invariant
  `pc = "down" => FreeList_fsck({}) # "none"` fails in `FreeListFsck`;
- it sees a gap only if it is one slot wide (`290`), and pop hands out what is
  below a wider one (`110-112`): drop the second disjunct of `IntactServes`;
- fsck refuses every file system (`cofs_fsck.c:132`), the more if mkfs popped the
  list's head (`133`), and exits with 0 for memory too small to be formatted
  (`310-336`): `FsckAnswer` says so;
- a mkfs that fails leaves a superblock and a free list, and a mount serves what
  there is, without a root directory (`cofs_mkfs.c:162-197`, `cofs_main.c:185-193`):
  drop `program = "cofs -m" \/ status = 0` from `Content`;
- at the end of a file `cofs_read` answers the number of bytes asked for
  (`cofs_syscalls.c:334-345`).

## Not modelled

- Writes to a file that begin behind its end, in `FileIO`: its subject is appending
  (`OpenFiles` has them, as writes that take any number of blocks). Writes to an
  inode that is free, in `InodeTable`: stale handles do that, in `OpenFiles`.
- The words that callers leave in blocks (`Words` of `FreeList`) name data blocks and
  not blocks of the i-list. A mount whose head cannot be read ends the program
  (`cofs_main.c:190-193`; `CofsInit` in `Mkfs` has it, `Mount` in `FreeList` is of lists
  whose head is on the device). `FreeList_fsck` may read past the end of a copy
  while it prints what is in one and not in the other (`free_list.c:206-218`): by then
  the answer is decided.
- The checks of `cofs_fsck.c` behind its first one (139-305): no input reaches
  them. Its device mode returns at once. The comparison of `free_list.c:197-204`
  is by `int`, which tells the block numbers of any device below 2^31 blocks apart.
- chmod, chown, utimens, readlink, statfs, poll: each copies fields of one inode
  or of the superblock. The permission checks of `layer2.c` have no caller. A
  model of any of them would repeat an assignment.
- Directories below the root and paths in `OpenFiles`: libfuse keeps its nodes by
  parent and name, and `Directory` has the lookup of paths.
- The parsing of arguments, the start of the daemon, the mapping of the device and
  FUSE itself: I/O, or external and modelled as far as the code relies on it.
  `inode_map.cpp` is dead code; `cofs_errno.c`, `cofs_util.h` and `gnu_basename.c` are
  utilities. Failures of `malloc` are left out everywhere: most callers do not
  look at them.

## Where to go on

The plan this project was built by is done. The theorems about `BlockMap` end
with the first write that fails: from there on an inode may name free blocks
(`BlockMapFailedWrite`), and what the code still promises then is little. A
composition of `Directory` with `BlockMap` and the real free list is not
planned: what it would add to `PoolSpec`, `MapFaithful` and `BlocksConserved` is
a crash that meets two of them at once, and every operation of the code finishes
its work in one before it begins in the next.
