------------------------ MODULE BlockMapOrderProofs ------------------------
(***************************************************************************)
(* Proofs about BlockMap, continued: until a write fails or the system     *)
(* crashes a file is what was allocated for it, in order; after a crash it *)
(* still has all of that; and the first write that fails leaves what came  *)
(* before it.                                                              *)
(*                                                                         *)
(* The argument: each block has the number of the first data block under   *)
(* it, which follows from its slot and from the number of the array that   *)
(* names it (Ordered); a walk over the entries of a level, then over       *)
(* theirs, meets the blocks by their numbers, because all entries but the  *)
(* last are full (Run).  A crash leaves arrays that are not full, and the  *)
(* numbers then have gaps: but the blocks that alloc_new_datablock has     *)
(* returned hang from their file by what is on disk (Kept), and the walk   *)
(* still meets them by their numbers (Sorted).  A release counts the data  *)
(* blocks it passes, so that it appends those whose numbers are not less   *)
(* than the one it starts at (ReleasesFrom), and a walk over what it       *)
(* leaves meets the others first (Stays).                                  *)
(***************************************************************************)
EXTENDS BlockMapProofs

-----------------------------------------------------------------------------
(* The order of a file: g numbers the blocks of each file, an indirect     *)
(* block with the number of the first data block under it.                 *)
Numbers(g, a, k, B) == \A s \in DOMAIN a : a[s] # NoBlock => g[a[s]] = B + (s - 1) * Span(k)
Base(g, fs, t, d) == IF d = 1 THEN Limit(t) ELSE g[fs[d].target]

DiskNumbers(at, g) ==
    /\ \A i \in linked, k \in Levels : Numbers(g, ino[i].blocks[k], k, Limit(k))
    /\ \A p \in DOMAIN at : at[p].lvl > 0 => Numbers(g, content[p], at[p].lvl - 1, g[p])
StackNumbers(g, fs, t) ==
    \A d \in 1 .. Len(fs) : Numbers(g, fs[d].indblock, t - (d - 1), Base(g, fs, t, d))

(* What alloc_new_datablock has returned, and what it is about to return.  *)
Coming(i) == IF pc = "unwind" /\ i = self THEN Append(owned[i], cand) ELSE owned[i]
IsGiven(at, g, x) ==
    /\ at[x].own \in linked
    /\ at[x].lvl = 0 => /\ g[x] + 1 \in DOMAIN Coming(at[x].own)
                        /\ Coming(at[x].own)[g[x] + 1] = x
Given(at, g) == \A x \in DOMAIN at : IsGiven(at, g, x)
Counted == /\ owned \in [Inodes -> Seq(Refs)]
           /\ \A i \in linked : ino[i].n_blocks = Len(owned[i])
           /\ InUse
Numbered(at, g) ==
    /\ g \in [Blocks -> Nat] /\ DiskNumbers(at, g)
    /\ pc \in {"descend", "unwind"} => StackNumbers(g, frames, top)
Ordered(at, g) == Numbered(at, g) /\ Given(at, g) /\ Counted
OrderInv == failures = 0 /\ crashes = 0 =>
                \E at, w, g : Placed(at) /\ Sized(at, w) /\ Ordered(at, g)

LEMMA NumbersAgree ==
    ASSUME NEW at, NEW a, NEW i, NEW j, NEW p, Right(at, a, i, j, p),
           NEW g, NEW g2, Agree(at, g, g2), NEW k, NEW B, Numbers(g, a, k, B)
    PROVE  Numbers(g2, a, k, B)
  BY DEF Right, Names, Agree, Numbers

LEMMA NumbersEmpty ==
    ASSUME NEW a, \A s \in DOMAIN a : a[s] = NoBlock, NEW g, NEW k, NEW B
    PROVE  Numbers(g, a, k, B)
  BY DEF Numbers

(* Steps that leave the files in directories as they are.                  *)
SameFiles(at2) ==
    /\ \A j \in linked' : j \in linked /\ ino'[j] = ino[j] /\ owned'[j] = owned[j]
    /\ \A x \in DOMAIN at2 : content'[x] = content[x] /\ at2[x].own \in linked'
    /\ owned' \in [Inodes -> Seq(Refs)]

LEMMA DiskOrdered ==
    ASSUME NEW at, NEW g, Ordered(at, g),
           NEW at2, \A x \in DOMAIN at2 : x \in DOMAIN at /\ at2[x] = at[x],
           SameFiles(at2)
    PROVE  DiskNumbers(at2, g)'
<1>1. DiskNumbers(at, g)
  BY DEF Ordered, Numbered
<1>2. \A i \in linked', k \in Levels : Numbers(g, ino'[i].blocks[k], k, Limit(k))
  BY <1>1 DEF DiskNumbers, SameFiles
<1>3. \A p \in DOMAIN at2 : at2[p].lvl > 0 => Numbers(g, content'[p], at2[p].lvl - 1, g[p])
  BY <1>1 DEF DiskNumbers, SameFiles
<1> QED
  BY <1>2, <1>3 DEF DiskNumbers

LEMMA OrderedQuiet ==
    ASSUME NEW at, NEW g, Ordered(at, g), pc # "unwind", pc' # "unwind",
           NEW at2, \A x \in DOMAIN at2 : x \in DOMAIN at /\ at2[x] = at[x],
           SameFiles(at2), InUse',
           pc' = "descend" => StackNumbers(g, frames, top)'
    PROVE  Ordered(at2, g)'
<1>1. g \in [Blocks -> Nat] /\ Given(at, g) /\ Counted
  BY DEF Ordered, Numbered
<1>2. DiskNumbers(at2, g)'
  BY DiskOrdered
<1>3. ASSUME NEW x \in DOMAIN at2 PROVE IsGiven(at2, g, x)'
  <2>1. PICK i : i = at[x].own
    OBVIOUS
  <2>2. i \in linked' /\ at2[x] = at[x] /\ IsGiven(at, g, x)
    BY <1>1, <2>1 DEF SameFiles, Given
  <2>3. Coming(i) = owned[i] /\ Coming(i)' = owned'[i] /\ owned'[i] = owned[i]
    BY <2>2 DEF Coming, SameFiles
  <2> QED
    BY <2>1, <2>2, <2>3 DEF IsGiven
<1>4. Counted'
  BY <1>1 DEF Counted, SameFiles
<1> QED
  BY <1>1, <1>2, <1>3, <1>4 DEF Ordered, Numbered, Given

LEMMA OwnersLinked ==
    ASSUME NEW at, NEW g, Ordered(at, g)
    PROVE  /\ \A x \in DOMAIN at : at[x].own \in linked
           /\ InUse /\ owned \in [Inodes -> Seq(Refs)]
  BY DEF Ordered, Numbered, Given, IsGiven, Counted

LEMMA OrderedPopFails ==
    ASSUME TypeInv, NEW at, NEW g, Placed(at), Ordered(at, g), PopFails
    PROVE  Ordered(at, g)'
<1>1. pc = "descend" /\ pc' = "undo" /\ UNCHANGED <<ino, linked, content, owned>>
  BY DEF PopFails, pool
<1>2. InUse' /\ SameFiles(at)
  BY <1>1, OwnersLinked, TypeParts DEF InUse, SameFiles
<1> QED
  BY <1>1, <1>2, OrderedQuiet

LEMMA OrderedAllocFails ==
    ASSUME TypeInv, NEW at, NEW g, Placed(at), Ordered(at, g), AllocFails
    PROVE  Ordered(at, g)'
<1>1. pc = "undo" /\ pc' = "idle" /\ UNCHANGED <<ino, linked, content, owned>>
  BY DEF AllocFails, pool
<1>2. InUse' /\ SameFiles(at)
  BY <1>1, OwnersLinked DEF InUse, SameFiles
<1> QED
  BY <1>1, <1>2, OrderedQuiet

LEMMA OrderedUndoIndirect ==
    ASSUME TypeInv, NEW at, NEW g, Placed(at), Ordered(at, g), UndoIndirect,
           NEW at2, at2 = IF frames[Depth].new THEN Without(at, frames[Depth].target) ELSE at
    PROVE  Ordered(at2, g)'
<1>1. pc = "undo" /\ pc' = "undo" /\ UNCHANGED <<ino, linked, owned>>
  BY DEF UndoIndirect
<1>2. \A x \in DOMAIN at2 : x \in DOMAIN at /\ at2[x] = at[x]
  BY DEF Without
<1>3. DOMAIN at \subseteq DOMAIN content
  BY DEF Placed, Forest
<1>4. ASSUME NEW p \in DOMAIN at2 PROVE content'[p] = content[p]
  <2>1. CASE frames[Depth].new
    <3>1. Pool!Release(frames[Depth].target) /\ p # frames[Depth].target
      BY <2>1 DEF UndoIndirect, Without
    <3> QED
      BY <1>2, <1>3, <3>1, ReleaseType, TypeParts
  <2>2. CASE ~frames[Depth].new
    BY <2>2 DEF UndoIndirect, pool
  <2> QED
    BY <2>1, <2>2
<1>5. InUse' /\ SameFiles(at2)
  BY <1>1, <1>2, <1>4, OwnersLinked DEF InUse, SameFiles
<1> QED
  BY <1>1, <1>2, <1>5, OrderedQuiet

LEMMA OrderedAppendNext ==
    ASSUME TypeInv, NEW at, NEW g, Placed(at), Ordered(at, g), AppendNext
    PROVE  Ordered(at, g)'
<1>1. /\ pc = "free_inode" /\ pc' = "free_inode" /\ UNCHANGED <<ino, linked, owned, buf>>
      /\ todo # <<>> /\ Pool!Release(Head(todo)) /\ todo \in Seq(Blocks)
      /\ Range(todo) \intersect DOMAIN at = {} /\ DOMAIN at \subseteq DOMAIN content
  BY TypeParts DEF AppendNext, Placed, Loose, Forest, Changing
<1>2. Head(todo) \in Range(todo)
  BY <1>1, TailRange
<1>3. \A p \in DOMAIN at : content'[p] = content[p]
  BY <1>1, <1>2, ReleaseType, TypeParts
<1>4. InUse' /\ SameFiles(at)
  BY <1>1, <1>3, OwnersLinked DEF InUse, SameFiles, self
<1> QED
  BY <1>1, <1>4, OrderedQuiet

LEMMA OrderedFreeInode ==
    ASSUME TypeInv, NEW at, NEW g, Placed(at), Ordered(at, g), FreeInode
    PROVE  Ordered(at, g)'
<1>1. /\ pc = "free_inode" /\ pc' = "idle" /\ UNCHANGED <<content, linked, owned>>
      /\ ino' = [ino EXCEPT ![self] = FreshInode(self)]
  BY DEF FreeInode, pool, Rest
<1>2. \A j \in linked : ino'[j] = ino[j]
  <2>1. linked \subseteq Inodes /\ DOMAIN ino = Inodes
    BY TypeParts DEF InodesType
  <2>2. self \notin linked
    BY <1>1, OwnersLinked DEF InUse
  <2> QED
    BY <1>1, <2>1, <2>2
<1>3. InUse' /\ SameFiles(at)
  BY <1>1, <1>2, OwnersLinked DEF InUse, SameFiles
<1> QED
  BY <1>1, <1>3, OrderedQuiet

LEMMA OrderedUnlink ==
    ASSUME TypeInv, NEW at, NEW g, Placed(at), Ordered(at, g), NEW i \in Inodes, Unlink(i)
    PROVE  Ordered(Keeping(at, i), g)'
<1>1. /\ pc = "idle" /\ pc' = "free_inode" /\ UNCHANGED <<ino, content, owned>>
      /\ linked' = linked \ {i} /\ buf' = AfterRelease(ino[i], 0)
  BY DEF Unlink, pool, Idle, ReleaseStart
<1>2. PICK at2 : at2 = Keeping(at, i)
  OBVIOUS
<1>3. \A x \in DOMAIN at2 : x \in DOMAIN at /\ at2[x] = at[x] /\ at[x].own # i
  BY <1>2 DEF Keeping
<1>4. self' = i
  <2>1. ino[i] \in InodeRecord /\ ino[i].inum = i
    BY TypeParts DEF InodesType, IsInode
  <2> QED
    BY <1>1, <2>1 DEF self, AfterRelease, InodeRecord
<1>5. InUse' /\ SameFiles(at2)
  BY <1>1, <1>3, <1>4, OwnersLinked DEF InUse, SameFiles
<1>6. Ordered(at2, g)'
  BY <1>1, <1>3, <1>5, OrderedQuiet
<1> QED
  BY <1>2, <1>6

(* A new inode has no blocks.                                              *)
Created(i) ==
    /\ pc = "idle" /\ pc' = "idle" /\ content' = content
    /\ linked' = linked \union {i} /\ i \notin linked
    /\ \A j \in linked : ino'[j] = ino[j] /\ owned'[j] = owned[j] /\ j # i
    /\ owned'[i] = <<>> /\ owned' \in [Inodes -> Seq(Refs)] /\ InUse'
    /\ ino'[i].n_blocks = 0
    /\ \A k \in Levels : \A s \in DOMAIN ino'[i].blocks[k] : ino'[i].blocks[k][s] = NoBlock

LEMMA CreateIs ==
    ASSUME TypeInv, InUse, owned \in [Inodes -> Seq(Refs)], NEW i \in Inodes, Create(i)
    PROVE  Created(i)
<1>1. /\ pc = "idle" /\ pc' = "idle" /\ content' = content /\ linked' = linked \union {i}
      /\ ino' = [ino EXCEPT ![i] = [FreshInode(i) EXCEPT !.in_use = TRUE]] /\ ~ino[i].in_use
      /\ owned' = [owned EXCEPT ![i] = <<>>]
  BY DEF Create, pool, Rest, Idle
<1>2. i \notin linked
  BY <1>1 DEF InUse
<1>3. /\ \A j \in linked : ino'[j] = ino[j] /\ owned'[j] = owned[j] /\ j # i
      /\ ino'[i] = [FreshInode(i) EXCEPT !.in_use = TRUE] /\ owned'[i] = <<>>
  <2>1. linked \subseteq Inodes /\ DOMAIN ino = Inodes
    BY TypeParts DEF InodesType
  <2> QED
    BY <1>1, <1>2, <2>1
<1>4. ino'[i].in_use /\ ino'[i].n_blocks = 0 /\ ino'[i].blocks = FreshInode(i).blocks
  BY <1>3 DEF FreshInode
<1>5. \A k \in Levels : \A s \in DOMAIN ino'[i].blocks[k] : ino'[i].blocks[k][s] = NoBlock
  <2> SUFFICES ASSUME NEW k \in Levels
               PROVE  \A s \in DOMAIN ino'[i].blocks[k] : ino'[i].blocks[k][s] = NoBlock
    OBVIOUS
  <2>1. /\ \A s \in 1 .. Pointers(k) : FreshInode(i).blocks[k][s] = NoBlock
        /\ DOMAIN FreshInode(i).blocks[k] = 1 .. Pointers(k)
    BY FreshIs DEF IsInode
  <2> QED
    BY <1>4, <2>1
<1>6. owned' \in [Inodes -> Seq(Refs)]
  <2>1. <<>> \in Seq(Refs)
    OBVIOUS
  <2> QED
    BY <1>1, <2>1
<1>7. InUse'
  BY <1>1, <1>3, <1>4 DEF InUse
<1> QED
  BY <1>1, <1>2, <1>3, <1>4, <1>5, <1>6, <1>7 DEF Created

LEMMA CreateNumbers ==
    ASSUME NEW at, NEW g, DiskNumbers(at, g), NEW i, Created(i)
    PROVE  DiskNumbers(at, g)'
<1>1. ASSUME NEW j \in linked', NEW k \in Levels PROVE Numbers(g, ino'[j].blocks[k], k, Limit(k))
  <2>1. CASE j = i
    BY <2>1, NumbersEmpty DEF Created
  <2>2. CASE j # i
    BY <2>2 DEF DiskNumbers, Created
  <2> QED
    BY <2>1, <2>2
<1> QED
  BY <1>1 DEF DiskNumbers, Created

LEMMA OrderedCreate ==
    ASSUME TypeInv, NEW at, NEW g, Placed(at), Ordered(at, g), NEW i \in Inodes, Create(i)
    PROVE  Ordered(at, g)'
<1>1. Numbered(at, g) /\ Given(at, g) /\ Counted /\ Created(i)
  BY OwnersLinked, CreateIs DEF Ordered
<1>2. DiskNumbers(at, g)'
  BY <1>1, CreateNumbers DEF Numbered
<1>3. ASSUME NEW x \in DOMAIN at PROVE IsGiven(at, g, x)'
  <2>1. PICK j : j = at[x].own
    OBVIOUS
  <2>2. IsGiven(at, g, x) /\ j \in linked /\ j \in linked'
    BY <1>1, <2>1 DEF Given, IsGiven, Created
  <2>3. Coming(j)' = Coming(j)
    BY <1>1, <2>2 DEF Coming, Created
  <2> QED
    BY <2>1, <2>2, <2>3 DEF IsGiven
<1>4. Counted'
  <2>1. Len(<<>>) = 0
    OBVIOUS
  <2> QED
    BY <1>1, <2>1 DEF Counted, Created
<1>5. Numbered(at, g)'
  BY <1>1, <1>2 DEF Numbered, Created
<1> QED
  BY <1>3, <1>4, <1>5 DEF Ordered, Given

(* An allocation begins with an array of the inode.                        *)
Started(i, t) ==
    /\ t \in Levels /\ t = top' /\ pc' = "descend"
    /\ frames'[1].target = NoBlock /\ frames'[1].indblock = ino[i].blocks[t] /\ Len(frames') = 1

LEMMA StartIs ==
    ASSUME TypeInv', NEW i, AllocStart(i), ino[i].n_blocks < Limit(4)
    PROVE  \E t : Started(i, t) /\ t = LevelOf(ino[i].n_blocks)
<1>1. /\ pc' = "descend" /\ top' = LevelOf(ino[i].n_blocks)
      /\ frames' = <<[target |-> NoBlock, new |-> FALSE, indblock |-> ino[i].blocks[top']]>>
  BY DEF AllocStart
<1>2. top' \in Levels
  BY DEF TypeInv
<1> QED
  BY <1>1, <1>2 DEF Started

LEMMA StartNumbers ==
    ASSUME NEW at, NEW g, DiskNumbers(at, g), NEW i \in linked, NEW t, Started(i, t)
    PROVE  StackNumbers(g, frames, top)'
<1>1. PICK gs : gs = frames'
  OBVIOUS
<1>2. t \in Levels /\ Len(gs) = 1 /\ gs[1].indblock = ino[i].blocks[t]
  BY <1>1 DEF Started
<1>3. StackNumbers(g, gs, t)
  <2> SUFFICES ASSUME NEW d \in 1 .. Len(gs)
               PROVE  Numbers(g, gs[d].indblock, t - (d - 1), Base(g, gs, t, d))
    BY DEF StackNumbers
  <2>1. d = 1 /\ t - (d - 1) = t
    BY <1>2 DEF Levels
  <2>2. Base(g, gs, t, d) = Limit(t)
    BY <2>1 DEF Base
  <2>3. Numbers(g, ino[i].blocks[t], t, Limit(t))
    BY <1>2 DEF DiskNumbers
  <2> QED
    BY <1>2, <2>1, <2>2, <2>3
<1> QED
  BY <1>1, <1>3 DEF Started

LEMMA OrderedAllocStart ==
    ASSUME TypeInv, TypeInv', NEW at, NEW g, Placed(at), Ordered(at, g),
           NEW i \in Inodes, AllocStart(i)
    PROVE  Ordered(at, g)'
<1>1. /\ pc = "idle" /\ UNCHANGED <<ino, linked, content, owned>> /\ i \in linked
  BY DEF AllocStart, pool, Idle
<1>2. SameFiles(at) /\ DiskNumbers(at, g)
  BY <1>1, OwnersLinked DEF SameFiles, Ordered, Numbered
<1>3. CASE ino[i].n_blocks < Limit(4)
  <2>1. PICK t : Started(i, t)
    BY <1>3, StartIs
  <2>2. StackNumbers(g, frames, top)'
    BY <1>1, <1>2, <2>1, StartNumbers
  <2>3. pc' = "descend" /\ InUse'
    BY <1>1, <2>1, OwnersLinked DEF InUse, Started
  <2> QED
    BY <1>1, <1>2, <2>2, <2>3, OrderedQuiet
<1>4. CASE ~(ino[i].n_blocks < Limit(4))
  <2>1. pc' = "idle"
    BY <1>1, <1>4 DEF AllocStart
  <2>2. InUse'
    BY <1>1, <2>1, OwnersLinked DEF InUse
  <2> QED
    BY <1>1, <1>2, <2>1, <2>2, OrderedQuiet
<1> QED
  BY <1>3, <1>4

(* An array more in the stack.                                             *)
LEMMA NumbersPush ==
    ASSUME NEW t \in Levels, NEW fs, Len(fs) \in Nat, NEW g, NEW gs,
           Len(gs) = Len(fs) + 1, Len(fs) >= 1,
           \A d \in 1 .. Len(fs) : /\ gs[d].target = fs[d].target
                                   /\ Numbers(g, gs[d].indblock, t - (d - 1), Base(g, fs, t, d)),
           NEW b, gs[Len(fs) + 1].target = b,
           Numbers(g, gs[Len(fs) + 1].indblock, t - Len(fs), g[b])
    PROVE  StackNumbers(g, gs, t)
<1> SUFFICES ASSUME NEW d \in 1 .. Len(gs)
             PROVE  Numbers(g, gs[d].indblock, t - (d - 1), Base(g, gs, t, d))
  BY DEF StackNumbers
<1>1. CASE d = Len(fs) + 1
  <2>1. d # 1 /\ d - 1 = Len(fs)
    BY <1>1
  <2>2. Base(g, gs, t, d) = g[b]
    BY <1>1, <2>1 DEF Base
  <2> QED
    BY <1>1, <2>1, <2>2
<1>2. CASE d # Len(fs) + 1
  <2>1. d \in 1 .. Len(fs)
    BY <1>2
  <2>2. Base(g, gs, t, d) = Base(g, fs, t, d)
    BY <2>1 DEF Base
  <2> QED
    BY <2>1, <2>2
<1> QED
  BY <1>1, <1>2

(* An allocation reads the last indirect block.                            *)
Enters(at, b) ==
    /\ UNCHANGED <<content, ino, linked, buf, top, owned>> /\ pc' = "descend"
    /\ first_unused # 0 /\ b = blocks[first_unused]
    /\ b \in DOMAIN at /\ at[b] = Spot(self, level, frames[Depth].target, first_unused)
    /\ Len(frames') = Depth + 1 /\ \A d \in 1 .. Depth : frames'[d] = frames[d]
    /\ frames'[Depth + 1].target = b /\ frames'[Depth + 1].indblock = content[b]

LEMMA OldIndirectIs ==
    ASSUME TypeInv, NEW at, Placed(at), OldIndirect, first_unused # 0
    PROVE  /\ pc = "descend" /\ level > 0
           /\ \E b : Enters(at, b)
<1>1. pc = "descend" /\ level > 0 /\ pc \in Working /\ pc \in Allocating
  BY DEF OldIndirect, Working, Allocating
<1>2. /\ UNCHANGED <<content, ino, linked, buf, top, owned>> /\ pc' = "descend"
      /\ Forest(at) /\ Stacked(at)
  BY <1>1 DEF OldIndirect, Placed, pool
<1>3. /\ top \in Levels /\ IsStack(frames, top)
      /\ Depth = Len(frames) /\ Depth \in Nat /\ Depth \in 1 .. Len(frames)
      /\ Right(at, blocks, self, level, frames[Depth].target)
  BY <1>1, <1>2, WorkingIs
<1>4. /\ first_unused \in 1 .. Width(top, Depth)
      /\ blocks[first_unused] \in Blocks /\ DOMAIN blocks = 1 .. Width(top, Depth)
      /\ blocks[first_unused] # NoBlock
  BY <1>1, <1>2, WorkingIs, StackIs
<1>5. PICK b : b = blocks[first_unused]
  OBVIOUS
<1>6. b \in DOMAIN at /\ at[b] = Spot(self, level, frames[Depth].target, first_unused)
  BY <1>3, <1>4, <1>5 DEF Right, Names
<1>7. ReadArray(b) = content[b]
  BY <1>2, <1>6 DEF Forest, ReadArray
<1>8. PICK fs, gs, D : fs = frames /\ gs = frames' /\ D = Depth
  OBVIOUS
<1>9. fs \in Seq(Frame) /\ Len(fs) = D
  BY <1>3, <1>8 DEF IsStack
<1>10. gs = Append(fs, [target |-> b, new |-> FALSE, indblock |-> content[b]])
  BY <1>5, <1>7, <1>8 DEF OldIndirect
<1>11. /\ Len(gs) = D + 1 /\ \A d \in 1 .. D : gs[d] = fs[d]
       /\ gs[D + 1].target = b /\ gs[D + 1].indblock = content[b]
  BY <1>9, <1>10
<1>12. Enters(at, b)
  BY <1>2, <1>5, <1>6, <1>8, <1>11 DEF Enters
<1> QED
  BY <1>1, <1>12

LEMMA EntersNumbers ==
    ASSUME TypeInv, NEW at, NEW g, Placed(at), Numbered(at, g), pc = "descend", level > 0,
           NEW b, Enters(at, b)
    PROVE  StackNumbers(g, frames, top)'
<1>1. pc \in Working
  BY DEF Working
<1>2. PICK fs, gs, t, k : fs = frames /\ gs = frames' /\ t = top /\ k = level
  OBVIOUS
<1>3. /\ t \in Levels /\ Len(fs) = Depth /\ Len(fs) \in Nat /\ Len(fs) >= 1
      /\ k \in Levels /\ k = t - (Len(fs) - 1)
  <2>1. /\ top \in Levels /\ Depth = Len(frames) /\ Depth \in Nat /\ Depth \in 1 .. Len(frames)
        /\ level \in Levels /\ level = top - (Depth - 1)
    BY <1>1, WorkingIs DEF Placed
  <2> QED
    BY <1>2, <2>1
<1>5. DiskNumbers(at, g) /\ StackNumbers(g, fs, t)
  BY <1>2 DEF Numbered
<1>6. /\ b \in DOMAIN at /\ at[b].lvl = k /\ Len(gs) = Len(fs) + 1
      /\ \A d \in 1 .. Len(fs) : gs[d] = fs[d]
      /\ gs[Len(fs) + 1].target = b /\ gs[Len(fs) + 1].indblock = content[b]
  BY <1>2, <1>3 DEF Enters, Spot
<1>7. Numbers(g, content[b], k - 1, g[b])
  BY <1>2, <1>5, <1>6 DEF DiskNumbers
<1>8. Numbers(g, gs[Len(fs) + 1].indblock, t - Len(fs), g[b])
  <2>1. k - 1 = t - Len(fs)
    BY <1>3 DEF Levels
  <2> QED
    BY <1>6, <1>7, <2>1
<1>9. \A d \in 1 .. Len(fs) : /\ gs[d].target = fs[d].target
                              /\ Numbers(g, gs[d].indblock, t - (d - 1), Base(g, fs, t, d))
  BY <1>5, <1>6 DEF StackNumbers
<1>10. StackNumbers(g, gs, t)
  BY <1>3, <1>6, <1>8, <1>9, NumbersPush
<1> QED
  BY <1>2, <1>10 DEF Enters

LEMMA OrderedOldIndirect ==
    ASSUME TypeInv, TypeInv', NEW at, NEW g, Placed(at), Ordered(at, g), OldIndirect,
           pc' = "descend"
    PROVE  Ordered(at, g)'
<1>1. first_unused # 0 /\ pc = "descend"
  BY DEF OldIndirect
<1>2. PICK b : Enters(at, b)
  BY <1>1, OldIndirectIs
<1>3. level > 0 /\ Numbered(at, g)
  BY <1>1, OldIndirectIs DEF Ordered
<1>4. StackNumbers(g, frames, top)'
  BY <1>1, <1>2, <1>3, EntersNumbers
<1>5. InUse' /\ SameFiles(at)
  BY <1>2, OwnersLinked DEF InUse, SameFiles, Enters
<1> QED
  BY <1>1, <1>4, <1>5, OrderedQuiet

(* The number that a running allocation began with, seen from each array.  *)
LEMMA BaseSize ==
    ASSUME NEW t \in Levels, NEW fs, IsStack(fs, t), NEW i, NEW at, StackRight(at, fs, t, i),
           DOMAIN at \subseteq Blocks, NEW w \in [Blocks -> Nat], NEW g \in [Blocks -> Nat],
           NEW r, Room(w, fs, t, r), OpenedAll(w, fs, t, r), StackNumbers(g, fs, t),
           NEW D \in 1 .. Len(fs)
    PROVE  Base(g, fs, t, D) + Size(w, fs, r, D) = Limit(t) + r
<1> DEFINE Q(d) == Base(g, fs, t, d) + Size(w, fs, r, d) = Limit(t) + r
           P == {j \in 0 .. D - 1 : Q(j + 1)}
<1>1. Len(fs) \in Nat /\ D \in Nat /\ D >= 1 /\ t \in Nat
  BY DEF IsStack, Levels
<1>2. 0 \in P
  <2>1. Q(1)
    BY DEF Base, Size
  <2> QED
    BY <1>1, <2>1
<1>3. ASSUME NEW j \in 1 .. D - 1, j - 1 \in P PROVE j \in P
  <2>1. /\ j \in 1 .. Len(fs) - 1 /\ j \in 1 .. Len(fs) /\ j + 1 \in 2 .. Len(fs) /\ j \in Nat
        /\ (j - 1) + 1 = j /\ j \in 0 .. D - 1 /\ (j + 1) - 1 = j /\ t - ((j + 1) - 2) = t - (j - 1)
    BY <1>1
  <2>2. Q(j)
    BY <1>3, <2>1
  <2>3. PICK d, e : d = j + 1 /\ e = Len(Entries(fs[j].indblock))
    OBVIOUS
  <2>4. IsTarget(at, fs, t, i, d)
    BY <2>1, <2>3, TargetIs
  <2>5. /\ fs[d].target \in Blocks /\ fs[d].target # NoBlock
        /\ e \in 1 .. Width(t, j) /\ fs[j].indblock[e] = fs[d].target
    BY <2>1, <2>3, <2>4 DEF IsTarget
  <2>6. DOMAIN fs[j].indblock = 1 .. Width(t, j)
    BY <2>1, StackArray
  <2>7. PICK k \in Levels : k = t - (j - 1)
    <3>1. t - (j - 1) \in Levels
      BY <1>1, <2>1 DEF IsStack, Levels
    <3> QED
      BY <3>1
  <2>8. g[fs[d].target] = Base(g, fs, t, j) + (e - 1) * Span(k)
    BY <2>1, <2>5, <2>6, <2>7 DEF StackNumbers, Numbers
  <2>9. w[fs[d].target] = Size(w, fs, r, j) - (e - 1) * Span(k)
    BY <2>1, <2>3, <2>7 DEF OpenedAll, OpenedAt
  <2>10. Base(g, fs, t, d) = g[fs[d].target] /\ Size(w, fs, r, d) = w[fs[d].target]
    <3>1. d # 1
      BY <2>1, <2>3
    <3> QED
      BY <3>1 DEF Base, Size
  <2>11. PICK x \in Int : x = (e - 1) * Span(k)
    <3>1. Span(k) \in Int /\ e - 1 \in Int
      BY <2>5, LimitsAre
    <3> QED
      BY <3>1, MulAdd
  <2>12. g[fs[d].target] \in Nat /\ w[fs[d].target] \in Nat /\ Size(w, fs, r, j) \in Nat
    BY <2>1, <2>5 DEF Room
  <2>13. Base(g, fs, t, j) \in Int
    <3>1. CASE j = 1
      <4>1. t \in 0 .. 4
        BY DEF Levels
      <4>2. Limit(t) \in Nat
        BY <4>1, LimitsAre
      <4> QED
        BY <3>1, <4>2 DEF Base
    <3>2. CASE j # 1
      <4>1. j \in 2 .. Len(fs)
        BY <2>1, <3>2
      <4>2. IsTarget(at, fs, t, i, j)
        BY <4>1, TargetIs
      <4> QED
        BY <3>2, <4>2 DEF IsTarget, Base
    <3> QED
      BY <3>1, <3>2
  <2>14. Base(g, fs, t, d) + Size(w, fs, r, d) = Base(g, fs, t, j) + Size(w, fs, r, j)
    BY <2>8, <2>9, <2>10, <2>11, <2>12, <2>13
  <2>15. Q(d)
    BY <2>2, <2>14
  <2> QED
    BY <2>1, <2>3, <2>15
<1>4. PICK n \in Nat : n = D - 1
  BY <1>1
<1>5. 0 .. n \subseteq P
  <2>1. \A j \in 1 .. n : j - 1 \in P => j \in P
    BY <1>3, <1>4
  <2> HIDE DEF P
  <2> QED
    BY <1>2, <2>1, UpTo
<1>6. n \in P
  <2>1. n \in 0 .. n
    OBVIOUS
  <2> QED
    BY <1>5, <2>1, Zenon
<1> QED
  BY <1>1, <1>4, <1>6

(* A block is popped, and numbered.                                        *)
NumberedAs(g, g2, b, c) == g2 = [g EXCEPT ![b] = c]
LEMMA OrderGrown ==
    ASSUME TypeInv, NEW at, NEW g, Placed(at), Numbered(at, g),
           NEW b, PoppedFor(at, b), NEW spot \in Spots,
           NEW c \in Nat, NEW g2, NumberedAs(g, g2, b, c)
    PROVE  /\ g2 \in [Blocks -> Nat] /\ g2[b] = c /\ Agree(at, g, g2)
           /\ DiskNumbers(Grown(at, b, spot), g2)'
<1>1. /\ DiskNumbers(at, g) /\ g \in [Blocks -> Nat] /\ Forest(at)
      /\ b \in Blocks /\ b \notin DOMAIN at /\ ino' = ino /\ linked' = linked
      /\ content'[b] = EmptyArray /\ \A p \in DOMAIN at : content'[p] = content[p]
  BY DEF Numbered, Placed, PoppedFor
<1>2. DOMAIN at \subseteq Blocks
  BY <1>1, TypeParts DEF Forest, PoolType
<1>3. g2 \in [Blocks -> Nat] /\ g2[b] = c /\ Agree(at, g, g2)
  BY <1>1, <1>2 DEF Agree, NumberedAs
<1>4. ASSUME NEW i \in linked, NEW k \in Levels PROVE Numbers(g2, ino[i].blocks[k], k, Limit(k))
  <2>1. PICK a, B : a = ino[i].blocks[k] /\ B = Limit(k)
    OBVIOUS
  <2>2. Numbers(g, a, k, B)
    BY <1>1, <2>1 DEF DiskNumbers
  <2>3. Right(at, a, i, k, NoBlock)
    BY <1>1, <2>1 DEF Forest
  <2>4. Numbers(g2, a, k, B)
    BY <1>3, <2>2, <2>3, NumbersAgree
  <2> QED
    BY <2>1, <2>4
<1>5. PICK at2 : at2 = Grown(at, b, spot)
  OBVIOUS
<1>6. /\ DOMAIN at2 = DOMAIN at \union {b}
      /\ \A x \in DOMAIN at : at2[x] = at[x] /\ x # b
  BY <1>1, <1>5 DEF Grown
<1>7. ASSUME NEW p \in DOMAIN at2, at2[p].lvl > 0
      PROVE  Numbers(g2, content'[p], at2[p].lvl - 1, g2[p])
  <2>1. CASE p = b
    <3>1. \A s \in DOMAIN content'[p] : content'[p][s] = NoBlock
      BY <1>1, <2>1 DEF EmptyArray
    <3> QED
      BY <3>1, NumbersEmpty
  <2>2. CASE p # b
    <3>1. p \in DOMAIN at /\ at2[p] = at[p] /\ content'[p] = content[p] /\ g2[p] = g[p]
      BY <1>1, <1>3, <1>6, <2>2 DEF Agree
    <3>2. PICK a, k, B : a = content[p] /\ k = at[p].lvl - 1 /\ B = g[p]
      OBVIOUS
    <3>3. Numbers(g, a, k, B)
      BY <1>1, <1>7, <3>1, <3>2 DEF DiskNumbers
    <3>4. Right(at, a, at[p].own, k, p)
      BY <1>1, <1>7, <3>1, <3>2 DEF Forest
    <3>5. Numbers(g2, a, k, B)
      BY <1>3, <3>3, <3>4, NumbersAgree
    <3> QED
      BY <3>1, <3>2, <3>5
  <2> QED
    BY <2>1, <2>2
<1>8. DiskNumbers(at2, g2)'
  BY <1>1, <1>4, <1>7 DEF DiskNumbers
<1> QED
  BY <1>3, <1>5, <1>8

(* A new entry in an array.                                                *)
LEMMA NumbersMore ==
    ASSUME NEW n \in Nat, NEW a \in [1 .. n -> Refs], NEW e \in Nat, e = Len(Entries(a)),
           NEW b \in Blocks, NEW c, Entered(c, a, n, b),
           NEW at, NEW i, NEW j, NEW q, Right(at, a, i, j, q),
           NEW g, NEW g2, Agree(at, g, g2), NEW k, NEW B, Numbers(g, a, k, B),
           g2[b] = B + e * Span(k)
    PROVE  Numbers(g2, c, k, B)
<1> SUFFICES ASSUME NEW s \in 1 .. n, c[s] # NoBlock PROVE g2[c[s]] = B + (s - 1) * Span(k)
  BY DEF Entered, Numbers
<1>1. Numbers(g2, a, k, B)
  BY NumbersAgree
<1>2. CASE s = e + 1
  <2>1. s - 1 = e /\ c[s] = b
    BY <1>2 DEF Entered
  <2> QED
    BY <2>1
<1>3. CASE s # e + 1
  <2>1. c[s] = a[s] /\ s \in DOMAIN a
    BY <1>3 DEF Entered
  <2> QED
    BY <1>1, <2>1 DEF Numbers
<1> QED
  BY <1>2, <1>3

(* The stack in which a new block is stored.                               *)
StoredNumbers(g2, gs) ==
    \A d \in 1 .. Len(frames) :
        /\ gs[d].target = frames[d].target
        /\ Numbers(g2, gs[d].indblock, top - (d - 1), Base(g2, frames, top, d))
LEMMA OrderStored ==
    ASSUME TypeInv, NEW at, NEW g, Placed(at), Numbered(at, g), pc = "descend",
           NEW b \in Blocks, NEW g2, Agree(at, g, g2),
           g2[b] = Base(g, frames, top, Depth) + first_unused * Span(level),
           NEW gs, StoresIn(gs, b)
    PROVE  StoredNumbers(g2, gs)
<1>1. pc \in Working /\ Stacked(at) /\ StackNumbers(g, frames, top) /\ first_unused \in Nat
  BY WorkingIs DEF Working, Placed, Numbered
<1>2. PICK fs, t, D, i : fs = frames /\ t = top /\ D = Depth /\ i = self
  OBVIOUS
<1>3. /\ t \in Levels /\ IsStack(fs, t) /\ StackRight(at, fs, t, i)
      /\ D \in 1 .. Len(fs) /\ D = Len(fs) /\ D \in Nat /\ level = t - (D - 1)
      /\ Right(at, blocks, i, level, fs[D].target) /\ blocks = fs[D].indblock
      /\ first_unused = Len(Entries(blocks))
  BY <1>1, <1>2, WorkingIs
<1>4. ASSUME NEW d \in 1 .. Len(fs) PROVE Base(g2, fs, t, d) = Base(g, fs, t, d)
  <2>1. CASE d = 1
    BY <2>1 DEF Base
  <2>2. CASE d # 1
    <3>1. d \in 2 .. Len(fs)
      BY <2>2
    <3>2. fs[d].target \in DOMAIN at
      BY <1>3, <3>1, TargetIs DEF IsTarget
    <3> QED
      BY <2>2, <3>2 DEF Base, Agree
  <2> QED
    BY <2>1, <2>2
<1> SUFFICES ASSUME NEW d \in 1 .. Len(fs)
             PROVE  /\ gs[d].target = fs[d].target
                    /\ Numbers(g2, gs[d].indblock, t - (d - 1), Base(g, fs, t, d))
  BY <1>2, <1>4 DEF StoredNumbers
<1>5. gs[d].target = fs[d].target
  BY <1>2, <1>3 DEF StoresIn
<1>6. PICK B, k : B = Base(g, fs, t, d) /\ k = t - (d - 1)
  OBVIOUS
<1>7. Numbers(g, fs[d].indblock, k, B) /\ Right(at, fs[d].indblock, i, k, fs[d].target)
  BY <1>1, <1>2, <1>3, <1>6 DEF StackNumbers, StackRight
<1>8. CASE d = D
  <2>1. PICK a, c, n, e : a = blocks /\ c = gs[D].indblock /\ n = Width(t, D) /\ e = first_unused
    OBVIOUS
  <2>2. n \in Nat /\ a \in [1 .. n -> Refs] /\ e \in Nat /\ e = Len(Entries(a))
    BY <1>1, <1>3, <2>1, StackArray
  <2>3. Entered(c, a, n, b)
    BY <1>2, <2>1 DEF StoresIn, Entered
  <2>4. g2[b] = B + e * Span(k)
    BY <1>2, <1>3, <1>6, <1>8, <2>1
  <2>5. Numbers(g, a, k, B) /\ Right(at, a, i, k, fs[d].target)
    BY <1>3, <1>7, <1>8, <2>1
  <2>6. Numbers(g2, c, k, B)
    BY <2>2, <2>3, <2>4, <2>5, NumbersMore
  <2> QED
    BY <1>5, <1>6, <1>8, <2>1, <2>6
<1>9. CASE d # D
  <2>1. gs[d] = fs[d]
    BY <1>2, <1>3, <1>9 DEF StoresIn
  <2>2. Numbers(g2, fs[d].indblock, k, B)
    BY <1>7, NumbersAgree
  <2> QED
    BY <1>5, <1>6, <2>1, <2>2
<1> QED
  BY <1>8, <1>9

LEMMA BaseNat ==
    ASSUME NEW t \in Levels, NEW fs, IsStack(fs, t), NEW i, NEW at, StackRight(at, fs, t, i),
           DOMAIN at \subseteq Blocks, NEW g \in [Blocks -> Nat], NEW D \in 1 .. Len(fs)
    PROVE  Base(g, fs, t, D) \in Nat
<1>1. CASE D = 1
  <2>1. t \in 0 .. 4
    BY DEF Levels
  <2>2. Limit(t) \in Nat
    BY <2>1, LimitsAre
  <2> QED
    BY <1>1, <2>2 DEF Base
<1>2. CASE D # 1
  <2>1. D \in 2 .. Len(fs)
    BY <1>2
  <2>2. IsTarget(at, fs, t, i, D)
    BY <2>1, TargetIs
  <2> QED
    BY <1>2, <2>2 DEF IsTarget, Base
<1> QED
  BY <1>1, <1>2

(* The number of the block that is popped for the next free slot.          *)
NextNumber(g) == Base(g, frames, top, Depth) + first_unused * Span(level)
LEMMA NextNumberIs ==
    ASSUME TypeInv, NEW at, NEW g, Placed(at), Numbered(at, g), pc = "descend"
    PROVE  NextNumber(g) \in Nat
<1>1. pc \in Working
  BY DEF Working
<1>2. PICK fs, t, D, i, k : fs = frames /\ t = top /\ D = Depth /\ i = self /\ k = level
  OBVIOUS
<1>3. /\ t \in Levels /\ IsStack(fs, t) /\ StackRight(at, fs, t, i) /\ D \in 1 .. Len(fs)
      /\ k \in Levels /\ first_unused \in Nat
  BY <1>1, <1>2, WorkingIs DEF Placed
<1>4. DOMAIN at \subseteq Blocks /\ g \in [Blocks -> Nat]
  BY TypeParts DEF Placed, Forest, PoolType, Numbered
<1>5. Base(g, fs, t, D) \in Nat
  BY <1>3, <1>4, BaseNat
<1>6. first_unused * Span(k) \in Nat
  BY <1>3, LimitsAre, MulNat
<1> QED
  BY <1>2, <1>5, <1>6 DEF NextNumber

(* A new indirect block in the stack, and the numbers with it.             *)
Digs(at, t2, b) ==
    /\ t2 = Grown(at, b, NextSpot) /\ PoppedFor(at, b)
    /\ frames' = Append(Stored(b), NewFrame(b))
Renumbered(at, t2, g, g2, b) ==
    /\ g2[b] = NextNumber(g) /\ Agree(at, g, g2)
    /\ DOMAIN t2 = DOMAIN at \union {b} /\ t2[b] = NextSpot
    /\ \A x \in DOMAIN at : t2[x] = at[x] /\ x # b

LEMMA NewIndirectNumbers ==
    ASSUME TypeInv, NEW at, NEW g, Placed(at), Numbered(at, g), NewIndirect,
           NEW t2, NEW b, Digs(at, t2, b), first_unused < Len(blocks)
    PROVE  \E g2 : Numbered(t2, g2)' /\ Renumbered(at, t2, g, g2, b)
<1>1. /\ pc = "descend" /\ level > 0 /\ pc' = "descend" /\ pc \in Working /\ pc \in Allocating
      /\ UNCHANGED <<ino, linked, buf, top, owned>>
  BY DEF NewIndirect, Working, Allocating
<1>2. /\ t2 = Grown(at, b, NextSpot) /\ PoppedFor(at, b)
      /\ frames' = Append(Stored(b), NewFrame(b))
  BY DEF Digs
<1>3. PICK c \in Nat : c = NextNumber(g)
  BY <1>1, NextNumberIs
<1>4. PICK g2, spot, gs, hs, fs, t :
          /\ NumberedAs(g, g2, b, c) /\ spot = NextSpot
          /\ gs = Stored(b) /\ hs = frames' /\ fs = frames /\ t = top
  BY DEF NumberedAs
<1>5. spot \in Spots /\ b \in Blocks /\ b \notin DOMAIN at
  BY <1>1, <1>2, <1>4, NextSpotIs DEF PoppedFor
<1>6. /\ g2 \in [Blocks -> Nat] /\ g2[b] = c /\ Agree(at, g, g2)
      /\ DiskNumbers(Grown(at, b, spot), g2)'
  BY <1>2, <1>3, <1>4, <1>5, OrderGrown
<1>7. t2 = Grown(at, b, spot)
  BY <1>2, <1>4
<1>8. StoresIn(gs, b)
  BY <1>1, <1>4, <1>5, StoreIs
<1>9. StoredNumbers(g2, gs)
  <2>1. g2[b] = Base(g, frames, top, Depth) + first_unused * Span(level)
    BY <1>3, <1>6 DEF NextNumber
  <2> QED
    BY <1>1, <1>5, <1>6, <1>8, <2>1, OrderStored
<1>10. /\ t \in Levels /\ IsStack(fs, t) /\ Len(fs) \in Nat /\ Len(fs) >= 1 /\ Len(fs) = Depth
       /\ self \in Inodes /\ self \in linked
  <2>1. /\ top \in Levels /\ IsStack(frames, top) /\ Depth = Len(frames) /\ Depth \in 1 .. Len(frames)
        /\ self \in Inodes /\ self \in linked
    BY <1>1, WorkingIs DEF Placed
  <2> QED
    BY <1>4, <2>1
<1>11. /\ gs \in Seq(Frame) /\ Len(gs) = Len(fs)
       /\ hs = Append(gs, NewFrame(b))
  BY <1>2, <1>4, <1>8, <1>10 DEF StoresIn
<1>12. /\ Len(hs) = Len(fs) + 1 /\ hs[Len(fs) + 1].target = b
       /\ hs[Len(fs) + 1].indblock = EmptyArray
       /\ \A d \in 1 .. Len(fs) : hs[d] = gs[d]
  BY <1>10, <1>11 DEF NewFrame
<1>13. \A d \in 1 .. Len(fs) : /\ hs[d].target = fs[d].target
                               /\ Numbers(g2, hs[d].indblock, t - (d - 1), Base(g2, fs, t, d))
  BY <1>4, <1>9, <1>12 DEF StoredNumbers
<1>14. Numbers(g2, hs[Len(fs) + 1].indblock, t - Len(fs), g2[b])
  <2>1. \A s \in DOMAIN EmptyArray : EmptyArray[s] = NoBlock
    BY DEF EmptyArray
  <2> QED
    BY <1>12, <2>1, NumbersEmpty
<1>15. StackNumbers(g2, hs, t)
  BY <1>10, <1>12, <1>13, <1>14, NumbersPush
<1>16. StackNumbers(g2, frames, top)'
  BY <1>1, <1>4, <1>15
<1>17. DiskNumbers(t2, g2)'
  BY <1>6, <1>7
<1>18. /\ DOMAIN t2 = DOMAIN at \union {b} /\ t2[b] = NextSpot
       /\ \A x \in DOMAIN at : t2[x] = at[x] /\ x # b
  BY <1>4, <1>5, <1>7 DEF Grown
<1>19. Numbered(t2, g2)' /\ Renumbered(at, t2, g, g2, b)
  BY <1>3, <1>6, <1>16, <1>17, <1>18 DEF Numbered, Renumbered
<1> QED
  BY <1>19

LEMMA OrderedNewIndirect ==
    ASSUME TypeInv, TypeInv', NEW at, NEW g, Placed(at), Ordered(at, g), NewIndirect,
           NEW t2, NEW b, Digs(at, t2, b), first_unused < Len(blocks)
    PROVE  \E g2 : Ordered(t2, g2)'
<1>1. Given(at, g) /\ Counted /\ Numbered(at, g)
  BY DEF Ordered
<1>2. PICK g2 : Numbered(t2, g2)' /\ Renumbered(at, t2, g, g2, b)
  BY <1>1, NewIndirectNumbers
<1>3. /\ pc = "descend" /\ level > 0 /\ pc' = "descend" /\ pc \in Working
      /\ UNCHANGED <<ino, linked, buf, top, owned>>
  BY DEF NewIndirect, Working
<1>4. self \in linked
  BY <1>3, WorkingIs DEF Placed
<1>5. ASSUME NEW x \in DOMAIN t2 PROVE IsGiven(t2, g2, x)'
  <2>1. CASE x = b
    <3>1. t2[x].own = self /\ t2[x].lvl = level
      BY <1>2, <2>1 DEF NextSpot, Spot, Renumbered
    <3>2. level # 0
      BY <1>3
    <3> QED
      BY <1>3, <1>4, <3>1, <3>2 DEF IsGiven
  <2>2. CASE x # b
    <3>1. x \in DOMAIN at /\ t2[x] = at[x] /\ g2[x] = g[x]
      BY <1>2, <2>2 DEF Agree, Renumbered
    <3>2. IsGiven(at, g, x)
      BY <1>1, <3>1 DEF Given
    <3>3. PICK i : i = at[x].own
      OBVIOUS
    <3>4. Coming(i)' = Coming(i)
      BY <1>3 DEF Coming
    <3> QED
      BY <1>3, <3>1, <3>2, <3>3, <3>4 DEF IsGiven
  <2> QED
    BY <2>1, <2>2
<1>6. Counted'
  BY <1>1, <1>3 DEF Counted, InUse
<1> QED
  BY <1>2, <1>5, <1>6 DEF Ordered, Given

(* The data block that is popped has the number of blocks that were        *)
(* already in the file.                                                    *)
LEMMA NextDataNumber ==
    ASSUME TypeInv, NEW at, NEW w, NEW g, Placed(at), Sized(at, w), Ordered(at, g),
           pc = "descend", level = 0
    PROVE  NextNumber(g) = Len(owned[self]) /\ first_unused < Len(blocks)
<1>1. pc \in Working
  BY DEF Working
<1>2. PICK fs, t, D, r, m, i : /\ fs = frames /\ t = top /\ D = Depth /\ r = First
                               /\ m = Size(w, frames, First, Depth) /\ i = self
  OBVIOUS
<1>3. /\ t \in Levels /\ IsStack(fs, t) /\ StackRight(at, fs, t, i)
      /\ D \in 1 .. Len(fs) /\ D = Len(fs) /\ D \in Nat
      /\ Room(w, fs, t, r) /\ OpenedAll(w, fs, t, r) /\ m \in Nat
  BY <1>2, DescendIs
<1>4. Mult(m, Span(level))
  <2>1. Span(level) = 1 /\ m = m * 1 /\ m \in Int
    BY <1>3 DEF Span
  <2> QED
    BY <2>1 DEF Mult
<1>5. first_unused < Len(blocks) /\ m = first_unused * Span(level) /\ first_unused \in Nat
  BY <1>2, <1>4, HasSlot
<1>6. DOMAIN at \subseteq Blocks /\ g \in [Blocks -> Nat] /\ w \in [Blocks -> Nat]
  BY TypeParts DEF Placed, Forest, PoolType, Ordered, Numbered, Sized
<1>7. StackNumbers(g, fs, t)
  BY <1>2 DEF Ordered, Numbered
<1>8. Base(g, fs, t, D) + Size(w, fs, r, D) = Limit(t) + r
  BY <1>3, <1>6, <1>7, BaseSize
<1>9. NextNumber(g) = Base(g, fs, t, D) + m
  BY <1>2, <1>5 DEF NextNumber
<1>10. r = buf.n_blocks - Limit(t)
  BY <1>2 DEF First
<1>11. /\ self \in linked /\ buf = ino[self] /\ Limit(t) \in Nat /\ buf.n_blocks \in Int
  <2>1. self \in linked /\ buf = ino[self]
    BY <1>1, WorkingIs DEF Placed
  <2>2. IsInode(buf) /\ Limit(4) \in Nat
    BY LimitsAre, TypeParts DEF Changing
  <2>3. buf.n_blocks \in 0 .. Limit(4)
    BY <2>2 DEF IsInode, InodeRecord
  <2>4. t \in 0 .. 4
    BY <1>3 DEF Levels
  <2> QED
    BY <2>1, <2>2, <2>3, <2>4, LimitsAre
<1>12. NextNumber(g) = buf.n_blocks
  BY <1>2, <1>8, <1>9, <1>10, <1>11
<1>13. ino[self].n_blocks = Len(owned[self])
  BY <1>11 DEF Ordered, Numbered, Counted
<1> QED
  BY <1>5, <1>11, <1>12, <1>13

(* The data block in the stack, and its number.                            *)
Fills(at, t2, b) ==
    t2 = Grown(at, b, NextSpot) /\ PoppedFor(at, b) /\ frames' = Stored(b) /\ cand' = b

LEMMA NewDirectNumbers ==
    ASSUME TypeInv, NEW at, NEW g, Placed(at), Numbered(at, g), NewDirect,
           NEW t2, NEW b, Fills(at, t2, b), first_unused < Len(blocks)
    PROVE  \E g2 : Numbered(t2, g2)' /\ Renumbered(at, t2, g, g2, b)
<1>1. /\ pc = "descend" /\ level = 0 /\ pc \in Working /\ pc \in Allocating
      /\ UNCHANGED <<ino, linked, buf, top, owned>>
  BY DEF NewDirect, Working, Allocating
<1>3. t2 = Grown(at, b, NextSpot) /\ PoppedFor(at, b) /\ frames' = Stored(b) /\ cand' = b
  BY DEF Fills
<1>4. PICK c \in Nat : c = NextNumber(g)
  BY <1>1, NextNumberIs
<1>5. PICK g2, spot, gs, fs, t :
          /\ NumberedAs(g, g2, b, c) /\ spot = NextSpot
          /\ gs = Stored(b) /\ gs = frames' /\ fs = frames /\ t = top
  BY <1>3 DEF NumberedAs
<1>6. spot \in Spots /\ b \in Blocks /\ b \notin DOMAIN at
  BY <1>1, <1>3, <1>5, NextSpotIs DEF PoppedFor
<1>7. /\ g2 \in [Blocks -> Nat] /\ g2[b] = c /\ Agree(at, g, g2)
      /\ DiskNumbers(Grown(at, b, spot), g2)'
  BY <1>3, <1>4, <1>5, <1>6, OrderGrown
<1>8. t2 = Grown(at, b, spot)
  BY <1>3, <1>5
<1>9. StoresIn(gs, b)
  BY <1>1, <1>5, <1>6, StoreIs
<1>10. StoredNumbers(g2, gs)
  <2>1. g2[b] = Base(g, frames, top, Depth) + first_unused * Span(level)
    BY <1>4, <1>7 DEF NextNumber
  <2> QED
    BY <1>1, <1>6, <1>7, <1>9, <2>1, OrderStored
<1>11. /\ Len(fs) \in Nat /\ Len(fs) = Depth /\ Len(gs) = Len(fs)
       /\ self \in Inodes /\ self \in linked
  <2>1. /\ Depth = Len(frames) /\ Depth \in Nat /\ self \in Inodes /\ self \in linked
    BY <1>1, WorkingIs DEF Placed
  <2> QED
    BY <1>5, <1>9, <2>1 DEF StoresIn
<1>12. \A d \in 1 .. Len(fs) : gs[d].target = fs[d].target
  BY <1>5, <1>10 DEF StoredNumbers
<1>13. StackNumbers(g2, gs, t)
  <2> SUFFICES ASSUME NEW d \in 1 .. Len(fs)
               PROVE  Numbers(g2, gs[d].indblock, t - (d - 1), Base(g2, gs, t, d))
    BY <1>11 DEF StackNumbers
  <2>1. Base(g2, gs, t, d) = Base(g2, fs, t, d)
    BY <1>12 DEF Base
  <2>2. Numbers(g2, gs[d].indblock, t - (d - 1), Base(g2, fs, t, d))
    BY <1>5, <1>10 DEF StoredNumbers
  <2> QED
    BY <2>1, <2>2
<1>14. StackNumbers(g2, frames, top)'
  BY <1>1, <1>5, <1>13
<1>15. DiskNumbers(t2, g2)'
  BY <1>7, <1>8
<1>16. /\ DOMAIN t2 = DOMAIN at \union {b} /\ t2[b] = NextSpot
       /\ \A x \in DOMAIN at : t2[x] = at[x] /\ x # b
  BY <1>5, <1>6, <1>8 DEF Grown
<1>17. Numbered(t2, g2)' /\ Renumbered(at, t2, g, g2, b)
  BY <1>4, <1>7, <1>14, <1>15, <1>16 DEF Numbered, Renumbered
<1> QED
  BY <1>17

LEMMA OrderedNewDirect ==
    ASSUME TypeInv, TypeInv', NEW at, NEW w, NEW g, Placed(at), Sized(at, w), Ordered(at, g),
           NewDirect, NEW t2, NEW b, Fills(at, t2, b)
    PROVE  \E g2 : Ordered(t2, g2)'
<1>1. /\ pc = "descend" /\ level = 0 /\ pc \in Working /\ pc \in Allocating
      /\ UNCHANGED <<ino, linked, buf, top, owned>>
  BY DEF NewDirect, Working, Allocating
<1>2. NextNumber(g) = Len(owned[self]) /\ first_unused < Len(blocks)
  BY <1>1, NextDataNumber
<1>3. cand' = b /\ b \in Blocks
  BY DEF Fills, PoppedFor
<1>4. PICK c \in Nat : c = NextNumber(g)
  BY <1>1, NextNumberIs DEF Ordered
<1>5. PICK g2 : Numbered(t2, g2)' /\ Renumbered(at, t2, g, g2, b)
  BY <1>2, NewDirectNumbers DEF Ordered
<1>6. self \in Inodes /\ self \in linked
  BY <1>1, WorkingIs DEF Placed
<1>7. Given(at, g) /\ Counted
  BY DEF Ordered, Numbered
<1>8. pc' = "unwind" /\ self' = self
  BY <1>1, <1>2 DEF NewDirect, self
<1>9. PICK o : o = owned[self]
  OBVIOUS
<1>10. /\ o \in Seq(Refs) /\ b \in Refs /\ Coming(self) = o /\ Len(o) = c
       /\ Coming(self)' = Append(o, b)
  BY <1>1, <1>2, <1>3, <1>4, <1>6, <1>7, <1>8, <1>9 DEF Coming, Counted, Refs
<1>11. c + 1 \in DOMAIN Append(o, b) /\ Append(o, b)[c + 1] = b
  BY <1>3, <1>10
<1>12. \A n \in DOMAIN o : n \in DOMAIN Append(o, b) /\ Append(o, b)[n] = o[n]
  BY <1>3, <1>10
<1>13. ASSUME NEW x \in DOMAIN t2 PROVE IsGiven(t2, g2, x)'
  <2>1. CASE x = b
    <3>1. t2[x].own = self /\ t2[x].own \in linked'
      BY <1>1, <1>5, <1>6, <2>1 DEF NextSpot, Spot, Renumbered
    <3>2. Coming(self)' = Append(o, b) /\ g2[x] = c
      BY <1>4, <1>5, <1>10, <2>1 DEF Renumbered
    <3>3. PICK i, s : i = self /\ s = Append(o, b)
      OBVIOUS
    <3>4. t2[x].own = i /\ Coming(i)' = s /\ g2[x] + 1 \in DOMAIN s /\ s[g2[x] + 1] = x
      <4>1. Coming(i)' = Coming(self)'
        BY <1>8, <3>3
      <4> QED
        BY <1>11, <2>1, <3>1, <3>2, <3>3, <4>1
    <3> QED
      BY <3>1, <3>4 DEF IsGiven
  <2>2. CASE x # b
    <3>1. x \in DOMAIN at /\ t2[x] = at[x] /\ g2[x] = g[x]
      BY <1>5, <2>2 DEF Agree, Renumbered
    <3>2. IsGiven(at, g, x)
      BY <1>7, <3>1 DEF Given
    <3>3. PICK i, n : i = at[x].own /\ n = g[x] + 1
      OBVIOUS
    <3>4. /\ i \in linked'
          /\ at[x].lvl = 0 => n \in DOMAIN Coming(i) /\ Coming(i)[n] = x
      BY <1>1, <3>2, <3>3 DEF IsGiven
    <3>5. n \in DOMAIN Coming(i) => n \in DOMAIN Coming(i)' /\ Coming(i)'[n] = Coming(i)[n]
      <4>1. CASE i = self
        <5>1. Coming(i) = o
          BY <1>10, <4>1
        <5>2. Coming(i)' = Append(o, b)
          <6>1. Coming(i)' = Coming(self)'
            BY <1>8, <4>1
          <6> QED
            BY <1>10, <6>1
        <5> QED
          BY <1>12, <5>1, <5>2
      <4>2. CASE i # self
        BY <1>1, <1>8, <4>2 DEF Coming
      <4> QED
        BY <4>1, <4>2
    <3>6. at[x].lvl = 0 => n \in DOMAIN Coming(i)' /\ Coming(i)'[n] = x
      BY <3>4, <3>5
    <3> QED
      BY <3>1, <3>3, <3>4, <3>6 DEF IsGiven
  <2> QED
    BY <2>1, <2>2
<1>14. Counted'
  BY <1>1, <1>7, <1>8 DEF Counted, InUse
<1> QED
  BY <1>5, <1>13, <1>14 DEF Ordered, Given

LEMMA WriteIndirectNumbers ==
    ASSUME TypeInv, NEW at, NEW g, Placed(at), Numbered(at, g), WriteIndirect
    PROVE  Numbered(at, g)'
<1>1. /\ pc = "unwind" /\ pc' = "unwind" /\ Depth > 1 /\ pc \in Working
      /\ Pool!Write(frames[Depth].target, blocks) /\ frames' = Front(frames)
      /\ UNCHANGED <<ino, linked, buf, top, cand, owned>>
      /\ Forest(at) /\ Stacked(at)
  BY DEF WriteIndirect, Placed, Working
<1>2. g \in [Blocks -> Nat] /\ DiskNumbers(at, g) /\ StackNumbers(g, frames, top)
  BY <1>1 DEF Numbered
<1>3. /\ self' = self /\ top \in Levels /\ IsStack(frames, top) /\ StackRight(at, frames, top, self)
      /\ Depth = Len(frames) /\ Depth \in Nat
      /\ level = top - (Depth - 1) /\ level \in Levels /\ blocks = frames[Depth].indblock
      /\ blocks \in [1 .. Width(top, Depth) -> Refs]
  BY <1>1, WorkingIs DEF self
<1>4. PICK b, d, t, fs : b = frames[Depth].target /\ d = Depth /\ t = top /\ fs = frames
  OBVIOUS
<1>5. d \in 2 .. Len(fs) /\ d \in 1 .. Len(fs) /\ d # 1 /\ Len(fs) \in Nat /\ Len(fs) > 1
  BY <1>1, <1>3, <1>4
<1>6. b \in DOMAIN at /\ at[b].lvl - 1 = t - (d - 1)
  <2>0. PICK i : i = self
    OBVIOUS
  <2>1. t \in Levels /\ IsStack(fs, t) /\ StackRight(at, fs, t, i) /\ b = fs[d].target
    BY <1>3, <1>4, <2>0
  <2>4. IsTarget(at, fs, t, i, d)
    BY <1>5, <2>1, TargetIs
  <2>5. b \in DOMAIN at /\ at[b] = Spot(i, t - (d - 2), fs[d - 1].target,
                                        Len(Entries(fs[d - 1].indblock)))
    BY <2>1, <2>4 DEF IsTarget
  <2>2. at[b].lvl = t - (d - 2)
    BY <2>5 DEF Spot
  <2>3. t - (d - 2) - 1 = t - (d - 1)
    BY <1>5, <2>1 DEF Levels
  <2> QED
    BY <2>5, <2>2, <2>3
<1>7. /\ content'[b] = blocks
      /\ \A c \in DOMAIN content : c # b => content'[c] = content[c]
  <2>1. blocks \in Array
    BY <1>1, <1>3 DEF Width, Array
  <2> QED
    BY <1>1, <1>4, <2>1, WriteType, TypeParts
<1>8. Numbers(g, blocks, t - (d - 1), g[b])
  <2>1. Base(g, fs, t, d) = g[b]
    BY <1>4, <1>5 DEF Base
  <2>2. Numbers(g, fs[d].indblock, t - (d - 1), Base(g, fs, t, d))
    BY <1>2, <1>4, <1>5 DEF StackNumbers
  <2> QED
    BY <1>3, <1>4, <2>1, <2>2
<1>9. ASSUME NEW p \in DOMAIN at, at[p].lvl > 0
      PROVE  Numbers(g, content'[p], at[p].lvl - 1, g[p])
  <2>1. CASE p = b
    BY <1>6, <1>7, <1>8, <2>1
  <2>2. CASE p # b
    <3>1. content'[p] = content[p]
      BY <1>1, <1>7, <2>2 DEF Forest
    <3> QED
      BY <1>2, <1>9, <3>1 DEF DiskNumbers
  <2> QED
    BY <2>1, <2>2
<1>10. DiskNumbers(at, g)'
  BY <1>1, <1>2, <1>9 DEF DiskNumbers
<1>11. PICK gs : gs = frames'
  OBVIOUS
<1>12. Len(gs) = Len(fs) - 1 /\ \A c \in 1 .. Len(gs) : gs[c] = fs[c] /\ c \in 1 .. Len(fs)
  <2>1. fs \in Seq(Frame)
    BY <1>3, <1>4 DEF IsStack
  <2>2. gs = Front(fs)
    BY <1>1, <1>4, <1>11
  <2> QED
    BY <1>5, <2>1, <2>2 DEF Front
<1>13. StackNumbers(g, gs, t)
  <2> SUFFICES ASSUME NEW c \in 1 .. Len(gs)
               PROVE  Numbers(g, gs[c].indblock, t - (c - 1), Base(g, gs, t, c))
    BY DEF StackNumbers
  <2>1. Numbers(g, fs[c].indblock, t - (c - 1), Base(g, fs, t, c))
    BY <1>2, <1>4, <1>12 DEF StackNumbers
  <2>2. Base(g, gs, t, c) = Base(g, fs, t, c)
    BY <1>12 DEF Base
  <2> QED
    BY <1>12, <2>1, <2>2
<1>14. StackNumbers(g, frames, top)'
  BY <1>1, <1>4, <1>11, <1>13
<1> QED
  BY <1>2, <1>10, <1>14 DEF Numbered

LEMMA OrderedWriteIndirect ==
    ASSUME TypeInv, TypeInv', NEW at, NEW g, Placed(at), Ordered(at, g), WriteIndirect
    PROVE  Ordered(at, g)'
<1>1. pc = "unwind" /\ pc' = "unwind" /\ UNCHANGED <<ino, linked, buf, cand, owned>>
  BY DEF WriteIndirect
<1>2. Numbered(at, g) /\ Given(at, g) /\ Counted
  BY DEF Ordered
<1>3. Numbered(at, g)'
  BY <1>2, WriteIndirectNumbers
<1>4. Given(at, g)'
  <2> SUFFICES ASSUME NEW x \in DOMAIN at PROVE IsGiven(at, g, x)'
    BY DEF Given
  <2>1. IsGiven(at, g, x)
    BY <1>2 DEF Given
  <2>2. PICK i : i = at[x].own
    OBVIOUS
  <2>3. Coming(i)' = Coming(i)
    BY <1>1 DEF Coming, self
  <2> QED
    BY <1>1, <2>1, <2>2, <2>3 DEF IsGiven
<1>5. Counted'
  BY <1>1, <1>2 DEF Counted, InUse
<1> QED
  BY <1>2, <1>3, <1>4, <1>5 DEF Ordered

(* The inode as alloc_new_datablock writes it.                             *)
Written(i, o, n) ==
    /\ i = self /\ i \in Inodes /\ i \in linked /\ o = Append(owned[i], cand) /\ n = ino[i].n_blocks + 1
    /\ pc = "unwind" /\ pc' = "idle" /\ UNCHANGED <<content, linked>> /\ linked \subseteq Inodes
    /\ Depth = 1 /\ Depth = Len(frames) /\ top \in Levels
    /\ ino'[i].n_blocks = n /\ ino'[i].in_use = ino[i].in_use
    /\ ino'[i].blocks[top] = frames[1].indblock
    /\ \A k \in Levels : k # top => ino'[i].blocks[k] = ino[i].blocks[k]
    /\ \A j \in linked : j # i => ino'[j] = ino[j] /\ owned'[j] = owned[j]
    /\ owned'[i] = o /\ owned' = [owned EXCEPT ![i] = o] /\ cand \in Refs

LEMMA WriteInodeIs ==
    ASSUME TypeInv, NEW at, Placed(at), owned \in [Inodes -> Seq(Refs)], WriteInode
    PROVE  \E i, o, n : Written(i, o, n)
<1>1. /\ pc = "unwind" /\ Depth = 1 /\ pc \in Working /\ pc \in Allocating /\ pc' = "idle"
      /\ ino' = [ino EXCEPT ![self] = BufWith(buf.n_blocks + 1)]
      /\ owned' = [owned EXCEPT ![self] = Append(owned[self], cand)]
      /\ UNCHANGED <<content, linked>>
      /\ Forest(at) /\ Stacked(at)
  BY DEF WriteInode, Placed, Working, Allocating, Rest, BufWith, pool
<1>2. /\ self \in linked /\ buf = ino[self] /\ self \in Inodes
      /\ top \in Levels /\ Depth = Len(frames) /\ blocks = frames[Depth].indblock
  BY <1>1, WorkingIs
<1>3. PICK i, o, n, t : i = self /\ o = Append(owned[self], cand) /\ n = buf.n_blocks + 1 /\ t = top
  OBVIOUS
<1>4. n \in 0 .. Limit(4)
  <2>1. IsInode(buf) /\ buf.n_blocks < Limit(4) /\ Limit(4) \in Nat
    BY <1>1, LimitsAre, TypeParts DEF Changing
  <2>2. buf.n_blocks \in 0 .. Limit(4)
    BY <2>1 DEF IsInode, InodeRecord
  <2> QED
    BY <1>3, <2>1, <2>2
<1>5. /\ BufWith(n).blocks[t] = blocks /\ BufWith(n).n_blocks = n
      /\ \A k \in Levels : k # t => BufWith(n).blocks[k] = buf.blocks[k]
  BY <1>1, <1>3, <1>4, BufWithIs
<1>6. BufWith(n).in_use = buf.in_use
  BY DEF BufWith
<1>7. /\ ino'[i] = BufWith(n) /\ \A j \in linked : j # i => ino'[j] = ino[j]
      /\ owned'[i] = o /\ \A j \in linked : j # i => owned'[j] = owned[j]
      /\ linked \subseteq Inodes
  <2>1. linked \subseteq Inodes /\ DOMAIN ino = Inodes /\ DOMAIN owned = Inodes
    BY TypeParts DEF InodesType
  <2> QED
    BY <1>1, <1>2, <1>3, <2>1
<1>8. cand \in Refs
  BY DEF TypeInv
<1>9. Written(i, o, n)
  BY <1>1, <1>2, <1>3, <1>5, <1>6, <1>7, <1>8 DEF Written
<1> QED
  BY <1>2, <1>3, <1>9

LEMMA WrittenUse ==
    ASSUME InUse, NEW i, NEW o, NEW n, Written(i, o, n)
    PROVE  InUse'
<1> SUFFICES ASSUME NEW j \in linked PROVE ino'[j].in_use
  BY DEF InUse, Written
<1>1. ino[j].in_use
  BY DEF InUse
<1>2. CASE j = i
  BY <1>1, <1>2 DEF Written
<1>3. CASE j # i
  BY <1>1, <1>3 DEF Written
<1> QED
  BY <1>2, <1>3

LEMMA WriteInodeNumbers ==
    ASSUME NEW at, NEW g, Numbered(at, g), NEW i, NEW o, NEW n, Written(i, o, n)
    PROVE  Numbered(at, g)'
<1>1. g \in [Blocks -> Nat] /\ DiskNumbers(at, g) /\ StackNumbers(g, frames, top)
  BY DEF Numbered, Written
<1>2. PICK t : t = top
  OBVIOUS
<1>3. ASSUME NEW j \in linked, NEW k \in Levels
      PROVE  Numbers(g, ino'[j].blocks[k], k, Limit(k))
  <2>1. CASE j = i /\ k = t
    <3>1. 1 \in 1 .. Len(frames) /\ t - (1 - 1) = t
      <4>1. Len(frames) = 1 /\ t \in Levels
        BY <1>2 DEF Written
      <4> QED
        BY <4>1 DEF Levels
    <3>2. Base(g, frames, t, 1) = Limit(t)
      BY DEF Base
    <3>3. Numbers(g, frames[1].indblock, t, Limit(t))
      BY <1>1, <1>2, <3>1, <3>2 DEF StackNumbers
    <3> QED
      BY <1>2, <2>1, <3>3 DEF Written
  <2>2. CASE j = i /\ k # t
    BY <1>1, <1>2, <2>2 DEF DiskNumbers, Written
  <2>3. CASE j # i
    BY <1>1, <2>3 DEF DiskNumbers, Written
  <2> QED
    BY <2>1, <2>2, <2>3
<1>4. DiskNumbers(at, g)'
  BY <1>1, <1>3 DEF DiskNumbers, Written
<1> QED
  BY <1>1, <1>4 DEF Numbered, Written

LEMMA OrderedWriteInode ==
    ASSUME TypeInv, TypeInv', NEW at, NEW g, Placed(at), Ordered(at, g), WriteInode
    PROVE  Ordered(at, g)'
<1>1. Numbered(at, g) /\ Given(at, g) /\ Counted /\ InUse /\ owned \in [Inodes -> Seq(Refs)]
  BY DEF Ordered, Counted
<1>2. PICK i, o, n : Written(i, o, n)
  BY <1>1, WriteInodeIs
<1>3. Numbered(at, g)' /\ InUse'
  BY <1>1, <1>2, WriteInodeNumbers, WrittenUse
<1>4. /\ owned[i] \in Seq(Refs) /\ o \in Seq(Refs) /\ Len(o) = n /\ Coming(i) = o
  <2>1. owned[i] \in Seq(Refs) /\ ino[i].n_blocks = Len(owned[i]) /\ cand \in Refs
    BY <1>1, <1>2 DEF Counted, Written
  <2>2. o = Append(owned[i], cand) /\ n = ino[i].n_blocks + 1
    BY <1>2 DEF Written
  <2>3. Coming(i) = o
    BY <1>2 DEF Coming, Written
  <2> QED
    BY <2>1, <2>2, <2>3
<1>5. ASSUME NEW x \in DOMAIN at PROVE IsGiven(at, g, x)'
  <2>1. PICK j : j = at[x].own
    OBVIOUS
  <2>2. IsGiven(at, g, x) /\ j \in linked
    BY <1>1, <2>1 DEF Given, IsGiven
  <2>3. Coming(j)' = Coming(j)
    <3>1. Coming(j)' = owned'[j]
      BY <1>2 DEF Coming, Written
    <3>2. CASE j = i
      BY <1>2, <1>4, <3>1, <3>2 DEF Written
    <3>3. CASE j # i
      BY <1>2, <2>2, <3>1, <3>3 DEF Coming, Written
    <3> QED
      BY <3>2, <3>3
  <2>4. linked' = linked
    BY <1>2 DEF Written
  <2> QED
    BY <2>1, <2>2, <2>3, <2>4 DEF IsGiven
<1>6. Counted'
  <2>1. owned' \in [Inodes -> Seq(Refs)]
    BY <1>1, <1>2, <1>4 DEF Written
  <2>2. \A j \in linked : ino'[j].n_blocks = Len(owned'[j])
    <3> SUFFICES ASSUME NEW j \in linked PROVE ino'[j].n_blocks = Len(owned'[j])
      OBVIOUS
    <3>1. CASE j = i
      BY <1>2, <1>4, <3>1 DEF Written
    <3>2. CASE j # i
      BY <1>1, <1>2, <3>2 DEF Counted, Written
    <3> QED
      BY <3>1, <3>2
  <2>3. linked' = linked
    BY <1>2 DEF Written
  <2> QED
    BY <1>3, <2>1, <2>2, <2>3 DEF Counted
<1> QED
  BY <1>3, <1>5, <1>6 DEF Ordered, Given

-----------------------------------------------------------------------------
(* The order, step by step.                                                *)
LEMMA OrderInit == MapInit => OrderInv
<1> SUFFICES ASSUME MapInit PROVE \E at, w, g : Placed(at) /\ Sized(at, w) /\ Ordered(at, g)
  BY DEF OrderInv
<1>1. PICK at, w, g : /\ at = [x \in {} |-> Spot(0, 0, 0, 0)]
                      /\ w = [b \in Blocks |-> 0] /\ g = [b \in Blocks |-> 0]
  OBVIOUS
<1>2. DOMAIN at = {} /\ at \in [DOMAIN at -> Spots] /\ w \in [Blocks -> Nat] /\ g \in [Blocks -> Nat]
  BY <1>1
<1>3. linked = {} /\ pc = "idle" /\ DOMAIN content = {} /\ owned = [i \in Inodes |-> <<>>]
  BY DEF MapInit, Pool!PoolInit
<1>4. Placed(at)
  BY <1>2, <1>3 DEF Placed, Forest, Stacked, NewUnnamed, Loose, Apart, Working
<1>5. Sized(at, w)
  BY <1>2, <1>3 DEF Sized, InodesSized, DiskSized, Running
<1>6. owned \in [Inodes -> Seq(Refs)]
  <2>1. <<>> \in Seq(Refs)
    OBVIOUS
  <2> QED
    BY <1>3, <2>1
<1>7. Ordered(at, g)
  BY <1>2, <1>3, <1>6 DEF Ordered, Numbered, DiskNumbers, Given, Counted, InUse
<1> QED
  BY <1>4, <1>5, <1>7

LEMMA OrderSame ==
    ASSUME NEW at, NEW g, Ordered(at, g), UNCHANGED mapVars
    PROVE  Ordered(at, g)'
<1>1. UNCHANGED <<content, ino, linked, pc, buf, frames, top, cand, owned>>
  BY DEF mapVars, pool, alloc
<1>2. self' = self
  BY <1>1 DEF self
<1>3. DiskNumbers(at, g) <=> DiskNumbers(at, g)'
  BY <1>1 DEF DiskNumbers
<1>4. ASSUME NEW x \in DOMAIN at PROVE IsGiven(at, g, x) <=> IsGiven(at, g, x)'
  <2>1. PICK i : i = at[x].own
    OBVIOUS
  <2>2. Coming(i)' = Coming(i)
    BY <1>1, <1>2 DEF Coming
  <2> QED
    BY <1>1, <2>1, <2>2 DEF IsGiven
<1>5. Given(at, g) <=> Given(at, g)'
  BY <1>4 DEF Given
<1>6. Counted <=> Counted'
  BY <1>1, <1>2 DEF Counted, InUse
<1>7. StackNumbers(g, frames, top) <=> StackNumbers(g, frames, top)'
  BY <1>1
<1> QED
  BY <1>1, <1>3, <1>5, <1>6, <1>7 DEF Ordered, Numbered

OrderedNext == \E t, v, h : Placed(t)' /\ Sized(t, v)' /\ Ordered(t, h)'

(* Every step but that of a write that fails, and a crash.                 *)
LEMMA OrderMoves ==
    ASSUME TypeInv, TypeInv', NEW at, NEW w, NEW g, Placed(at), Sized(at, w), Ordered(at, g),
           [MapNext]_mapVars,
           failures \in Nat, failures' = failures, crashes \in Nat, crashes' = crashes
    PROVE  OrderedNext
<1>1. CASE UNCHANGED mapVars
  BY <1>1, OwnSame, SizedSame, OrderSame DEF OrderedNext
<1>2. CASE \E i \in Inodes : Create(i)
  <2>1. PICK i \in Inodes : Create(i)
    BY <1>2
  <2>2. Placed(at)' /\ Sized(at, w)' /\ Ordered(at, g)'
    BY <2>1, OwnCreate, SizedCreate, OrderedCreate
  <2> QED
    BY <2>2 DEF OrderedNext
<1>3. CASE \E i \in Inodes : AllocStart(i)
  <2>1. PICK i \in Inodes : AllocStart(i)
    BY <1>3
  <2>2. Placed(at)' /\ Sized(at, w)' /\ Ordered(at, g)'
    BY <2>1, OwnAllocStart, SizedAllocStart, OrderedAllocStart
  <2> QED
    BY <2>2 DEF OrderedNext
<1>4. CASE \E i \in Inodes : Unlink(i)
  <2>1. PICK i \in Inodes : Unlink(i)
    BY <1>4
  <2>2. PICK t : Placed(t)' /\ t = Keeping(at, i)
    BY <2>1, OwnUnlink
  <2>3. Sized(t, w)'
    BY <2>1, <2>2, SizedUnlink
  <2>4. Ordered(t, g)'
    BY <2>1, <2>2, OrderedUnlink
  <2> QED
    BY <2>2, <2>3, <2>4 DEF OrderedNext
<1>5. CASE NewIndirect
  <2>3. first_unused < Len(blocks)
    BY <1>5, RoomNewIndirect
  <2>1. PICK t : /\ Placed(t)'
                 /\ \E b : /\ t = Grown(at, b, NextSpot) /\ PoppedFor(at, b)
                           /\ frames' = Append(Stored(b), NewFrame(b))
    BY <1>5, <2>3, OwnNewIndirect
  <2>2. PICK v : Sized(t, v)'
    BY <1>5, <2>1, SizedNewIndirect
  <2>4. PICK b : Digs(at, t, b)
    BY <2>1, <2>3 DEF Digs
  <2>5. PICK h : Ordered(t, h)'
    BY <1>5, <2>3, <2>4, OrderedNewIndirect
  <2> QED
    BY <2>1, <2>2, <2>5 DEF OrderedNext
<1>6. CASE NewDirect
  <2>1. PICK t : /\ Placed(t)'
                 /\ first_unused < Len(blocks) =>
                        \E b : /\ t = Grown(at, b, NextSpot) /\ PoppedFor(at, b)
                               /\ frames' = Stored(b) /\ cand' = b
    BY <1>6, OwnNewDirect
  <2>2. PICK v : Sized(t, v)'
    BY <1>6, <2>1, SizedNewDirect
  <2>3. first_unused < Len(blocks)
    BY <1>6, NextDataNumber DEF NewDirect
  <2>4. PICK b : Fills(at, t, b)
    BY <2>1, <2>3 DEF Fills
  <2>5. PICK h : Ordered(t, h)'
    BY <1>6, <2>4, OrderedNewDirect
  <2> QED
    BY <2>1, <2>2, <2>5 DEF OrderedNext
<1>7. CASE UndoIndirect
  <2>1. PICK t : /\ Placed(t)'
                 /\ t = IF frames[Depth].new THEN Without(at, frames[Depth].target) ELSE at
    BY <1>7, OwnUndoIndirect
  <2>2. Sized(t, w)' /\ Ordered(t, g)'
    BY <1>7, <2>1, SizedUndoIndirect, OrderedUndoIndirect
  <2> QED
    BY <2>1, <2>2 DEF OrderedNext
<1>8. CASE OldIndirect
  <2>1. Placed(at)' /\ Sized(at, w)'
    BY <1>8, OwnOldIndirect, SizedOldIndirect
  <2>2. pc' = "descend"
    BY <1>8, <2>1 DEF OldIndirect, Sized
  <2>3. Ordered(at, g)'
    BY <1>8, <2>2, OrderedOldIndirect
  <2> QED
    BY <2>1, <2>3 DEF OrderedNext
<1>9. CASE PopFails \/ AllocFails
  <2>1. Placed(at)' /\ Sized(at, w)' /\ Ordered(at, g)'
    BY <1>9, OwnPopFails, SizedPopFails, OrderedPopFails, OwnAllocFails, SizedAllocFails,
       OrderedAllocFails
  <2> QED
    BY <2>1 DEF OrderedNext
<1>10. CASE WriteIndirect
  <2>1. Placed(at)' /\ Ordered(at, g)'
    BY <1>10, OwnWriteIndirect, OrderedWriteIndirect
  <2>2. PICK v : Sized(at, v)'
    BY <1>10, SizedWriteIndirect
  <2> QED
    BY <2>1, <2>2 DEF OrderedNext
<1>11. CASE WriteInode
  <2>1. Placed(at)' /\ Sized(at, w)' /\ Ordered(at, g)'
    BY <1>11, OwnWriteInode, SizedWriteInode, OrderedWriteInode
  <2> QED
    BY <2>1 DEF OrderedNext
<1>12. CASE AppendNext \/ FreeInode
  <2>1. Placed(at)' /\ Sized(at, w)' /\ Ordered(at, g)'
    BY <1>12, OwnAppendNext, SizedAppendNext, OrderedAppendNext, OwnFreeInode, SizedFreeInode,
       OrderedFreeInode
  <2> QED
    BY <2>1 DEF OrderedNext
<1>13. CASE GiveBack \/ WriteReturns
  <2>1. pc # "shrink" /\ pc # "give_back"
    BY DEF Placed, Sized
  <2> QED
    BY <1>13, <2>1 DEF WriteReturns, GiveBack
<1>14. CASE Crash
  <2>1. crashes' = crashes + 1
    BY <1>14 DEF Crash, Pool!Crash
  <2> QED
    BY <2>1
<1>15. CASE \E i \in Inodes, start \in 0 .. Cardinality(Blocks) : FailedWrite(i, start)
  <2>1. failures' = failures + 1
    BY <1>15 DEF FailedWrite
  <2> QED
    BY <2>1
<1> QED
  BY <1>1, <1>2, <1>3, <1>4, <1>5, <1>6, <1>7, <1>8, <1>9, <1>10, <1>11, <1>12, <1>13, <1>14,
     <1>15 DEF MapNext, Resume

LEMMA OrderStep ==
    TypeInv /\ TypeInv' /\ OwnInv /\ SizeInv /\ OrderInv /\ [MapNext]_mapVars => OrderInv'
<1> SUFFICES ASSUME TypeInv, TypeInv', OwnInv, SizeInv, OrderInv, [MapNext]_mapVars,
                    failures' = 0, crashes' = 0
             PROVE  OrderedNext
  BY DEF OrderInv, OrderedNext
<1>1. failures \in Nat /\ crashes \in Nat
  BY DEF OwnInv, SizeInv
<1>2. failures' = failures /\ failures = 0 /\ crashes' = crashes /\ crashes = 0
  BY <1>1, CountsUp
<1>3. PICK at, w, g : Placed(at) /\ Sized(at, w) /\ Ordered(at, g)
  BY <1>2 DEF OrderInv
<1> QED
  BY <1>1, <1>2, <1>3, OrderMoves

-----------------------------------------------------------------------------
(* The order in which foreach_datablock_in_inode visits the blocks         *)

(* Sequences one after the other.                                          *)
FlatBy(f, n, ss) == f = [i \in 1 .. n |-> IF i = 1 THEN ss[i] ELSE f[i - 1] \o ss[i]]

LEMMA FlatExists ==
    ASSUME NEW n \in Nat, NEW S, NEW ss \in [1 .. n -> Seq(S)]
    PROVE  \E f \in [1 .. n -> Seq(S)] : FlatBy(f, n, ss)
<1> DEFINE Good == {m \in 0 .. n : \E f \in [1 .. m -> Seq(S)] : FlatBy(f, m, ss)}
<1>1. 0 \in Good
  <2> DEFINE f == [i \in 1 .. 0 |-> <<>>]
  <2>1. \A i \in 1 .. 0 : FALSE
    OBVIOUS
  <2>2. f = [i \in 1 .. 0 |-> IF i = 1 THEN ss[i] ELSE f[i - 1] \o ss[i]]
    BY <2>1
  <2>3. f \in [1 .. 0 -> Seq(S)]
    BY <2>1
  <2> HIDE DEF f
  <2>4. FlatBy(f, 0, ss)
    BY <2>2, Zenon DEF FlatBy
  <2>5. \E h \in [1 .. 0 -> Seq(S)] : FlatBy(h, 0, ss)
    BY <2>3, <2>4, Zenon
  <2>6. 0 \in 0 .. n
    OBVIOUS
  <2> QED
    BY <2>5, <2>6, Zenon
<1>2. ASSUME NEW m \in 1 .. n, m - 1 \in Good PROVE m \in Good
  <2>1. PICK f \in [1 .. (m - 1) -> Seq(S)] : FlatBy(f, m - 1, ss)
    BY <1>2
  <2> DEFINE last == IF m = 1 THEN ss[m] ELSE f[m - 1] \o ss[m]
             h == [i \in 1 .. m |-> IF i = m THEN last ELSE f[i]]
  <2>2. last \in Seq(S)
    <3>1. CASE m = 1
      BY <3>1
    <3>2. CASE m # 1
      <4>1. f[m - 1] \in Seq(S) /\ ss[m] \in Seq(S)
        BY <3>2
      <4> QED
        BY <3>2, <4>1
    <3> QED
      BY <3>1, <3>2
  <2> HIDE DEF last
  <2>3. \A i \in 1 .. m : i # m => i \in 1 .. (m - 1)
    OBVIOUS
  <2>4. h \in [1 .. m -> Seq(S)]
    BY <2>2, <2>3
  <2>5. ASSUME NEW i \in 1 .. m PROVE h[i] = IF i = 1 THEN ss[i] ELSE h[i - 1] \o ss[i]
    <3>1. CASE i = m
      <4>1. h[i] = last
        BY <3>1
      <4>2. m # 1 => h[m - 1] = f[m - 1]
        OBVIOUS
      <4> HIDE DEF h
      <4> QED
        BY <3>1, <4>1, <4>2 DEF last
    <3>2. CASE i # m
      <4>1. i \in 1 .. (m - 1) /\ h[i] = f[i]
        BY <2>3, <3>2
      <4>2. f[i] = IF i = 1 THEN ss[i] ELSE f[i - 1] \o ss[i]
        BY <2>1, <4>1 DEF FlatBy
      <4>3. i # 1 => h[i - 1] = f[i - 1]
        BY <4>1
      <4> HIDE DEF h
      <4> QED
        BY <4>1, <4>2, <4>3
    <3> QED
      BY <3>1, <3>2
  <2>6. FlatBy(h, m, ss)
    <3> HIDE DEF h
    <3>1. h = [i \in 1 .. m |-> h[i]]
      BY <2>4
    <3> QED
      BY <2>5, <3>1 DEF FlatBy
  <2> HIDE DEF h
  <2> QED
    BY <2>4, <2>6
<1>3. n \in Good
  <2> HIDE DEF Good
  <2>1. 0 .. n \subseteq Good
    BY <1>1, <1>2, UpTo
  <2> QED
    BY <2>1
<1> QED
  BY <1>3

LEMMA FlattenIs ==
    ASSUME NEW n \in Nat, n >= 1, NEW S, NEW ss \in [1 .. n -> Seq(S)]
    PROVE  \E f \in [1 .. n -> Seq(S)] : FlatBy(f, n, ss) /\ FlattenSeq(ss) = f[n]
<1>1. Len(ss) = n
  BY ArrayIs
<1> DEFINE F == CHOOSE f : f = [i \in 1 .. Len(ss) |-> IF i = 1 THEN ss[i] ELSE f[i - 1] \o ss[i]]
<1>2. FlattenSeq(ss) = F[n]
  BY <1>1 DEF FlattenSeq
<1>3. \E f : f = [i \in 1 .. Len(ss) |-> IF i = 1 THEN ss[i] ELSE f[i - 1] \o ss[i]]
  <2>1. PICK f : FlatBy(f, n, ss)
    BY FlatExists
  <2>2. f = [i \in 1 .. Len(ss) |-> IF i = 1 THEN ss[i] ELSE f[i - 1] \o ss[i]]
    BY <1>1, <2>1, Zenon DEF FlatBy
  <2> QED
    BY <2>2, Zenon
<1>4. F = [i \in 1 .. Len(ss) |-> IF i = 1 THEN ss[i] ELSE F[i - 1] \o ss[i]]
  BY <1>3
<1> HIDE DEF F
<1>5. FlatBy(F, n, ss)
  BY <1>1, <1>4 DEF FlatBy
<1>6. PICK f \in [1 .. n -> Seq(S)] : FlatBy(f, n, ss)
  BY FlatExists
<1>7. \A i \in 1 .. n : F[i] = f[i]
  <2> DEFINE Same == {i \in 0 .. n : i = 0 \/ F[i] = f[i]}
  <2>1. 0 \in Same
    OBVIOUS
  <2>2. ASSUME NEW i \in 1 .. n, i - 1 \in Same PROVE i \in Same
    <3>1. /\ F[i] = IF i = 1 THEN ss[i] ELSE F[i - 1] \o ss[i]
          /\ f[i] = IF i = 1 THEN ss[i] ELSE f[i - 1] \o ss[i]
      BY <1>5, <1>6 DEF FlatBy
    <3>2. CASE i = 1
      BY <3>1, <3>2
    <3>3. CASE i # 1
      <4>1. F[i - 1] = f[i - 1]
        BY <2>2, <3>3
      <4>2. F[i] = F[i - 1] \o ss[i] /\ f[i] = f[i - 1] \o ss[i]
        BY <3>1, <3>3, Zenon
      <4>3. F[i] = f[i]
        BY <4>1, <4>2, Zenon
      <4> QED
        BY <4>3
    <3> QED
      BY <3>2, <3>3
  <2>3. 0 .. n \subseteq Same
    <3> HIDE DEF Same
    <3> QED
      BY <2>1, <2>2, UpTo
  <2> QED
    BY <2>3
<1>8. n \in 1 .. n
  OBVIOUS
<1> QED
  BY <1>2, <1>6, <1>7, <1>8

(* All but the last of a length: where each element is.                    *)
Flat(s, ss, m, L) ==
    /\ Len(s) = (m - 1) * L + Len(ss[m])
    /\ \A c \in 1 .. m : \A v \in 1 .. Len(ss[c]) : s[(c - 1) * L + v] = ss[c][v]
Even(ss, n, L) == \A c \in 1 .. n : Len(ss[c]) <= L /\ (c < n => Len(ss[c]) = L)
LEMMA FlatLayout ==
    ASSUME NEW n \in Nat, n >= 1, NEW S, NEW ss \in [1 .. n -> Seq(S)],
           NEW L \in Nat, L >= 1, Even(ss, n, L)
    PROVE  FlattenSeq(ss) \in Seq(S) /\ Flat(FlattenSeq(ss), ss, n, L)
<1>1. PICK f \in [1 .. n -> Seq(S)] : FlatBy(f, n, ss) /\ FlattenSeq(ss) = f[n]
  BY FlattenIs
<1> DEFINE Good == {m \in 0 .. n : m = 0 \/ Flat(f[m], ss, m, L)}
<1>2. 0 \in Good
  OBVIOUS
<1>3. ASSUME NEW m \in 1 .. n, m - 1 \in Good PROVE m \in Good
  <2>1. f[m] = IF m = 1 THEN ss[m] ELSE f[m - 1] \o ss[m]
    BY <1>1 DEF FlatBy
  <2>2. CASE m = 1
    <3>1. (1 - 1) * L = 0
      OBVIOUS
    <3>2. Flat(f[m], ss, m, L)
      <4> SUFFICES ASSUME NEW c \in 1 .. m, NEW v \in 1 .. Len(ss[c])
                   PROVE  Len(f[m]) = (m - 1) * L + Len(ss[m]) /\ f[m][(c - 1) * L + v] = ss[c][v]
        BY <2>1, <2>2, <3>1 DEF Flat
      <4>1. c = 1 /\ ss[m] \in Seq(S)
        BY <2>2
      <4>2. (c - 1) * L + v = v /\ (m - 1) * L + Len(ss[m]) = Len(ss[m])
        BY <2>2, <3>1, <4>1
      <4> QED
        BY <2>1, <2>2, <4>1, <4>2
    <3> QED
      BY <3>2
  <2>3. CASE m # 1
    <3>1. m - 1 \in 1 .. n /\ m - 1 < n
      BY <2>3
    <3>2. PICK p, q : p = f[m - 1] /\ q = ss[m]
      OBVIOUS
    <3>3. p \in Seq(S) /\ q \in Seq(S) /\ f[m] = p \o q
      BY <2>1, <2>3, <3>1, <3>2
    <3>4. Flat(p, ss, m - 1, L)
      BY <1>3, <2>3, <3>1, <3>2
    <3>5. Len(ss[m - 1]) = L
      BY <3>1 DEF Even
    <3>6. Len(p) = (m - 1) * L
      <4>1. ((m - 1) - 1) * L = (m - 1) * L - L /\ (m - 1) * L \in Int
        BY <3>1, MulLess
      <4>2. Len(p) = ((m - 1) - 1) * L + L
        BY <3>4, <3>5 DEF Flat
      <4> QED
        BY <4>1, <4>2
    <3>7. Len(f[m]) = (m - 1) * L + Len(q)
      <4>1. Len(p \o q) = Len(p) + Len(q)
        BY <3>3
      <4> QED
        BY <3>3, <3>6, <4>1, Zenon
    <3>8. ASSUME NEW c \in 1 .. m, NEW v \in 1 .. Len(ss[c])
          PROVE  f[m][(c - 1) * L + v] = ss[c][v]
      <4>0. ss[c] \in Seq(S) /\ Len(ss[c]) <= L
        BY DEF Even
      <4>1. PICK x \in Int : x = (c - 1) * L
        BY MulLess
      <4>2. CASE c = m
        <5>1. x = Len(p) /\ v \in 1 .. Len(q)
          BY <3>2, <3>6, <4>1, <4>2
        <5>2. (p \o q)[Len(p) + v] = q[v]
          BY <3>3, <5>1
        <5> QED
          BY <3>2, <3>3, <4>1, <4>2, <5>1, <5>2
      <4>3. CASE c # m
        <5>1. c \in 1 .. (m - 1)
          BY <4>3
        <5>2. p[x + v] = ss[c][v]
          BY <3>4, <4>1, <5>1 DEF Flat
        <5>3. x + L <= Len(p) /\ x >= 0
          <6>1. c - 1 \in Nat /\ c - 1 < m - 1
            BY <5>1
          <6>2. (c - 1) * L + L <= (m - 1) * L /\ (c - 1) * L \in Nat
            BY <6>1, MulLess, MulNat
          <6> QED
            BY <3>6, <4>1, <6>2
        <5>4. x + v \in 1 .. Len(p)
          BY <3>3, <4>0, <5>3
        <5>5. (p \o q)[x + v] = p[x + v]
          BY <3>3, <5>4
        <5> QED
          BY <3>3, <4>1, <5>2, <5>5
      <4> QED
        BY <4>2, <4>3
    <3>9. Flat(f[m], ss, m, L)
      BY <3>2, <3>7, <3>8 DEF Flat
    <3> QED
      BY <3>9
  <2> QED
    BY <2>2, <2>3
<1>4. n \in Good
  <2> HIDE DEF Good
  <2>1. 0 .. n \subseteq Good
    BY <1>2, <1>3, UpTo
  <2> QED
    BY <2>1
<1> QED
  BY <1>1, <1>4

(* The blocks of level l of file i, in order: B is the number of the first *)
(* data block under them, and there are M.                                 *)
RunAt(at, w, g, i, x, j, l, B, M) ==
    /\ x \in DOMAIN at /\ at[x].own = i /\ at[x].lvl = l
    /\ g[x] = B + (j - 1) * Span(l)
    /\ l > 0 => w[x] = Share(l, M, j)
Run(at, w, g, i, s, l, B, M) ==
    /\ s \in Seq(Blocks)
    /\ \A j \in Nat : j >= 1 => (j \in DOMAIN s <=> (j - 1) * Span(l) < M)
    /\ \A j \in DOMAIN s : RunAt(at, w, g, i, s[j], j, l, B, M)

Clip(m, n, k) == IF m <= n * Span(k) THEN m ELSE n * Span(k)
LEMMA RunOfArray ==
    ASSUME NEW k \in Levels, NEW n \in Nat, NEW a \in [1 .. n -> Refs],
           NEW at, NEW i, NEW p, Right(at, a, i, k, p),
           NEW w, NEW m \in Int, Filled(w, a, k, m), NEW g, NEW B, Numbers(g, a, k, B),
           NEW M, M = Clip(m, n, k)
    PROVE  Run(at, w, g, i, Entries(a), k, B, M) /\ M \in Int /\ M <= m
<1>1. PICK e, S \in Nat : e = Len(Entries(a)) /\ S = Span(k) /\ S >= 1
  <2>1. Len(Entries(a)) \in 0 .. n
    BY EntriesAre
  <2>2. Span(k) \in Nat /\ Span(k) >= 1
    BY LimitsAre
  <2> QED
    BY <2>1, <2>2
<1>2. PICK s : s = Entries(a)
  OBVIOUS
<1>3. /\ s \in Seq(Blocks) /\ e \in 0 .. n /\ DOMAIN s = 1 .. e
      /\ \A j \in 1 .. n : a[j] = NoBlock <=> j > e
      /\ \A j \in 1 .. n : j <= e => s[j] = a[j]
  <2>1. Packed(a)
    BY DEF Right
  <2>2. s \in Seq(Blocks) /\ e = Len(s)
    BY <1>1, <1>2, EntriesAre
  <2>3. /\ e \in 0 .. n
        /\ \A j \in 1 .. n : a[j] = NoBlock <=> j > e
        /\ \A j \in 1 .. n : j <= e => s[j] = a[j]
    BY <1>1, <1>2, <2>1, PackedIs
  <2> QED
    BY <2>2, <2>3
<1>4. PICK N \in Int : N = n * S
  BY <1>1, MulLess
<1>5. M \in Int /\ M <= m /\ M <= N /\ (M = m \/ (M = N /\ N <= m))
  BY <1>1, <1>4 DEF Clip
<1>6. ASSUME NEW j \in 1 .. n
      PROVE  /\ (j - 1) * S \in Int /\ (j - 1) * S + S <= N /\ j * S = (j - 1) * S + S
             /\ a[j] # NoBlock <=> (j - 1) * S < m
  <2>1. (j - 1) * S \in Int /\ j * S = (j - 1) * S + S
    <3>1. PICK c \in Int : c = j - 1 /\ c + 1 = j
      OBVIOUS
    <3>2. c * S \in Int /\ (c + 1) * S = c * S + S
      BY <1>1, <3>1, MulLess
    <3> QED
      BY <3>1, <3>2
  <2>2. j * S <= n * S
    BY <1>1, MulLess
  <2>3. a[j] # NoBlock <=> (j - 1) * S < m
    BY <1>1 DEF Filled, Slots
  <2> QED
    BY <1>4, <2>1, <2>2, <2>3
<1>7. ASSUME NEW j \in Nat, j >= 1 PROVE j \in DOMAIN s <=> (j - 1) * S < M
  <2>1. CASE j <= n
    <3>1. j \in 1 .. n
      BY <1>7, <2>1
    <3>2. PICK x \in Int : x = (j - 1) * S
      BY <1>6, <3>1
    <3>3. x + S <= N /\ (a[j] # NoBlock <=> x < m)
      BY <1>6, <3>1, <3>2
    <3>4. x < m <=> x < M
      BY <1>1, <1>5, <3>3
    <3> QED
      BY <1>3, <3>1, <3>2, <3>3, <3>4
  <2>2. CASE j > n
    <3>1. n \in Int /\ j - 1 \in Int /\ n <= j - 1
      BY <2>2
    <3>2. n * S <= (j - 1) * S /\ (j - 1) * S \in Int
      BY <1>1, <3>1, MulLess
    <3>3. ~((j - 1) * S < M)
      BY <1>4, <1>5, <3>2
    <3> QED
      BY <1>3, <2>2, <3>3
  <2> QED
    BY <2>1, <2>2
<1>8. ASSUME NEW j \in DOMAIN s PROVE RunAt(at, w, g, i, s[j], j, k, B, M)
  <2>1. j \in 1 .. n /\ s[j] = a[j] /\ a[j] # NoBlock
    BY <1>3
  <2>2. at[a[j]] = Spot(i, k, p, j) /\ a[j] \in DOMAIN at
    BY <2>1 DEF Right, Names
  <2>3. at[a[j]].own = i /\ at[a[j]].lvl = k
    BY <2>2 DEF Spot
  <2>4. g[a[j]] = B + (j - 1) * Span(k)
    BY <2>1 DEF Numbers
  <2>5. ASSUME k > 0 PROVE w[a[j]] = Share(k, M, j)
    <3>1. w[a[j]] = Share(k, m, j)
      BY <2>1, <2>5 DEF Filled, Weights
    <3>2. PICK x \in Int : x = (j - 1) * S /\ j * S = x + S /\ x + S <= N
      BY <1>6, <2>1
    <3>3. Share(k, m, j) = IF x + S <= m THEN S ELSE m - x
      BY <1>1, <3>2 DEF Share
    <3>4. Share(k, M, j) = IF x + S <= M THEN S ELSE M - x
      BY <1>1, <3>2 DEF Share
    <3> QED
      BY <1>1, <1>5, <3>1, <3>2, <3>3, <3>4
  <2> QED
    BY <2>1, <2>2, <2>3, <2>4, <2>5 DEF RunAt
<1> QED
  BY <1>1, <1>2, <1>3, <1>5, <1>7, <1>8 DEF Run

(* One level down.                                                         *)
LEMMA ShareBelow ==
    ASSUME NEW P \in Int, NEW Q \in Int, NEW S \in Nat, NEW T \in Nat, T >= 1,
           Q >= 0, Q + T <= S, NEW M \in Int, NEW h, h = IF P + S <= M THEN S ELSE M - P
    PROVE  /\ P + Q < M <=> P < M /\ Q < h
           /\ P < M => (IF Q + T <= h THEN T ELSE h - Q)
                            = (IF P + Q + T <= M THEN T ELSE M - (P + Q))
  OBVIOUS

IsPlace(u, c, v, L) == u = (c - 1) * L + v
LEMMA WhereIs ==
    ASSUME NEW u \in Nat, u >= 1, NEW L \in Nat, L >= 1
    PROVE  \E c \in Nat, v \in 1 .. L : c >= 1 /\ IsPlace(u, c, v, L)
<1>1. PICK q, r \in Nat : q = (u - 1) \div L /\ r = (u - 1) % L
  BY u - 1 \in Nat
<1>2. u - 1 = q * L + r /\ r < L
  BY <1>1
<1>3. (q + 1) - 1 = q /\ q + 1 \in Nat /\ q + 1 >= 1 /\ r + 1 \in 1 .. L
  BY <1>1, <1>2
<1>4. q * L \in Nat
  BY <1>1, MulNat
<1>5. IsPlace(u, q + 1, r + 1, L)
  BY <1>1, <1>2, <1>3, <1>4 DEF IsPlace
<1> QED
  BY <1>3, <1>5

LEMMA PlaceIn ==
    ASSUME NEW x \in Nat, NEW y \in Nat, NEW z \in Nat, NEW L \in Nat, z <= L,
           NEW v \in 1 .. L, NEW u, u = x + v
    PROVE  /\ u \in Nat /\ u >= 1
           /\ x + L <= y => u \in 1 .. (y + z)
           /\ x = y => (u \in 1 .. (y + z) <=> v \in 1 .. z)
           /\ y + L <= x => u \notin 1 .. (y + z)
  OBVIOUS

(* The elements of the sequences are those of the whole.                   *)
Aligned(ss, n, L) ==
    /\ n \in Nat /\ n >= 1 /\ ss \in [1 .. n -> Seq(Blocks)]
    /\ L \in Nat /\ L >= 1 /\ Even(ss, n, L)
Parts(ss, n, L, s) == Aligned(ss, n, L) /\ s \in Seq(Blocks) /\ Flat(s, ss, n, L)
IsIn(s, ss, n, L, u, c, v) ==
    /\ u \in Nat /\ u >= 1
    /\ u \in DOMAIN s <=> c \in 1 .. n /\ v \in 1 .. Len(ss[c])
    /\ c \in 1 .. n /\ v \in 1 .. Len(ss[c]) => s[u] = ss[c][v]
LEMMA FlatParts ==
    ASSUME NEW n, NEW ss, NEW L, Aligned(ss, n, L)
    PROVE  Parts(ss, n, L, FlattenSeq(ss))
<1>1. FlattenSeq(ss) \in Seq(Blocks) /\ Flat(FlattenSeq(ss), ss, n, L)
  BY FlatLayout DEF Aligned
<1> QED
  BY <1>1 DEF Parts

LEMMA FlatDomain ==
    ASSUME NEW n, NEW ss, NEW L, NEW s, Parts(ss, n, L, s),
           NEW c \in Nat, c >= 1, NEW v \in 1 .. L, NEW u, IsPlace(u, c, v, L)
    PROVE  IsIn(s, ss, n, L, u, c, v)
<1>0. /\ n \in Nat /\ n >= 1 /\ ss \in [1 .. n -> Seq(Blocks)]
      /\ L \in Nat /\ L >= 1 /\ Even(ss, n, L) /\ s \in Seq(Blocks) /\ Flat(s, ss, n, L)
  BY DEF Parts, Aligned
<1>1. PICK x, y \in Nat : x = (c - 1) * L /\ y = (n - 1) * L
  <2>1. c - 1 \in Nat /\ n - 1 \in Nat
    BY <1>0
  <2> QED
    BY <1>0, <2>1, MulNat
<1>2. PICK z \in Nat : z = Len(ss[n]) /\ z <= L
  <2>1. n \in 1 .. n
    BY <1>0
  <2>2. ss[n] \in Seq(Blocks) /\ Len(ss[n]) <= L
    BY <1>0, <2>1 DEF Even
  <2> QED
    BY <2>2
<1>3. DOMAIN s = 1 .. (y + z)
  <2>1. Len(s) = y + z
    BY <1>0, <1>1, <1>2 DEF Flat
  <2> QED
    BY <1>0, <2>1
<1>4. u = x + v
  BY <1>1 DEF IsPlace
<1>5. c - 1 \in Int /\ n - 1 \in Int
  BY <1>0
<1>6. c \in 1 .. n /\ v \in 1 .. Len(ss[c]) => s[u] = ss[c][v]
  BY <1>0 DEF Flat, IsPlace
<1>7. u \in DOMAIN s <=> c \in 1 .. n /\ v \in 1 .. Len(ss[c])
  <2>1. CASE c < n
    <3>1. c - 1 < n - 1
      BY <1>0, <2>1
    <3>2. x + L <= y
      BY <1>0, <1>1, <1>5, <3>1, MulLess
    <3>3. c \in 1 .. n /\ Len(ss[c]) = L
      BY <1>0, <2>1 DEF Even
    <3>4. u \in 1 .. (y + z)
      BY <1>0, <1>2, <1>4, <3>2, PlaceIn
    <3> QED
      BY <1>3, <3>3, <3>4
  <2>2. CASE c = n
    <3>1. x = y /\ c \in 1 .. n
      BY <1>0, <1>1, <2>2
    <3>2. u \in 1 .. (y + z) <=> v \in 1 .. z
      BY <1>0, <1>2, <1>4, <3>1, PlaceIn
    <3> QED
      BY <1>2, <1>3, <2>2, <3>1, <3>2
  <2>3. CASE c > n
    <3>1. n - 1 < c - 1
      BY <1>0, <2>3
    <3>2. y + L <= x
      BY <1>0, <1>1, <1>5, <3>1, MulLess
    <3>3. u \notin 1 .. (y + z)
      BY <1>0, <1>2, <1>4, <3>2, PlaceIn
    <3>4. c \notin 1 .. n
      BY <1>0, <2>3
    <3> QED
      BY <1>0, <1>3, <3>3, <3>4
  <2> QED
    BY <1>0, <2>1, <2>2, <2>3
<1>8. u \in Nat /\ u >= 1
  BY <1>0, <1>2, <1>4, PlaceIn
<1> QED
  BY <1>6, <1>7, <1>8 DEF IsIn

(* What the lemmas need to know of the disk: the blocks K are as they were *)
(* written.                                                                *)
Viewed(at, w, g, K) ==
    /\ PoolType /\ w \in [Blocks -> Nat] /\ g \in [Blocks -> Nat]
    /\ \A p \in K : p \in DOMAIN content /\ p \in DOMAIN at
    /\ \A p \in K : at[p].lvl > 0 => /\ Right(at, content[p], at[p].own, at[p].lvl - 1, p)
                                     /\ Filled(w, content[p], at[p].lvl - 1, w[p])
                                     /\ Numbers(g, content[p], at[p].lvl - 1, g[p])
Inside(s, K) == \A j \in DOMAIN s : s[j] \in K
Heads(a) == \A j \in 1 .. Len(Entries(a)) : Entries(a)[j] = a[j]

LEMMA RunOfBlock ==
    ASSUME NEW at, NEW w, NEW g, NEW K, Viewed(at, w, g, K), NEW k \in Levels, k > 0,
           NEW i, NEW x, x \in K, NEW j \in Nat, NEW B, NEW M \in Int, RunAt(at, w, g, i, x, j, k, B, M)
    PROVE  /\ Run(at, w, g, i, Entries(ReadArray(x)), k - 1, B + (j - 1) * Span(k), Share(k, M, j))
           /\ Share(k, M, j) \in Nat
<1>1. /\ x \in DOMAIN at /\ at[x].own = i /\ at[x].lvl = k
      /\ g[x] = B + (j - 1) * Span(k) /\ w[x] = Share(k, M, j)
  BY DEF RunAt
<1>2. /\ Right(at, content[x], i, k - 1, x) /\ x \in Blocks /\ x \in DOMAIN content
      /\ Filled(w, content[x], k - 1, w[x]) /\ Numbers(g, content[x], k - 1, g[x])
      /\ w[x] \in Nat
  BY <1>1 DEF Viewed, PoolType
<1>3. ReadArray(x) = content[x] /\ content[x] \in [1 .. BPI -> Refs]
  BY <1>2 DEF ReadArray, Viewed, PoolType, Array
<1>4. PICK T \in Nat, N \in Nat : T = Span(k - 1) /\ N = BPI * T /\ N = Span(k)
  <2>1. Span(k) \in Nat /\ k - 1 \in Levels /\ Span(k - 1) \in Nat /\ Span(k) = BPI * Span(k - 1)
    BY SpanBelow, LimitsAre
  <2> QED
    BY <2>1
<1>5. Share(k, M, j) <= N
  <2>1. PICK y \in Int : y = (j - 1) * N
    <3>1. j - 1 \in Int
      OBVIOUS
    <3> QED
      BY <3>1, MulAdd
  <2>2. j * N = y + N
    <3>1. (j - 1) * N = j * N - 1 * N /\ j * N \in Int /\ 1 * N = N
      BY MulAdd
    <3> QED
      BY <2>1, <3>1
  <2>3. Share(k, M, j) = IF y + N <= M THEN N ELSE M - y
    BY <1>4, <2>1, <2>2 DEF Share
  <2> QED
    BY <2>1, <2>3
<1>6. PICK m \in Nat : m = w[x] /\ m <= N
  BY <1>1, <1>2, <1>5
<1>7. PICK n \in Nat, kk \in Levels : n = BPI /\ kk = k - 1
  BY Layout, SpanBelow
<1>8. m = Clip(m, n, kk)
  BY <1>4, <1>6, <1>7 DEF Clip
<1>9. PICK a : a = content[x]
  OBVIOUS
<1>10. Run(at, w, g, i, Entries(a), kk, g[x], m)
  BY <1>2, <1>3, <1>6, <1>7, <1>8, <1>9, RunOfArray
<1> QED
  BY <1>1, <1>2, <1>3, <1>6, <1>7, <1>9, <1>10

LEMMA RunBelow ==
    ASSUME NEW at, NEW w, NEW g, NEW K, Viewed(at, w, g, K), NEW k \in Levels, k > 0,
           NEW i, NEW a, Heads(a), Inside(Entries(a), K),
           NEW B \in Int, NEW M \in Int, Run(at, w, g, i, Entries(a), k, B, M)
    PROVE  Run(at, w, g, i, Below(a), k - 1, B, M)
<1>0. PICK s : s = Entries(a)
  OBVIOUS
<1>1. PICK n \in Nat : n = Len(s) /\ s = Entries(a) /\ s \in Seq(Blocks)
  BY <1>0 DEF Run
<1>2. /\ s \in Seq(Blocks) /\ DOMAIN s = 1 .. n
      /\ \A j \in Nat : j >= 1 => (j \in 1 .. n <=> (j - 1) * Span(k) < M)
      /\ \A j \in 1 .. n : RunAt(at, w, g, i, s[j], j, k, B, M) /\ s[j] = a[j] /\ a[j] \in K
  BY <1>1 DEF Run, Heads, Inside
<1>3. PICK L \in Nat, S \in Nat, T \in Nat, h \in Levels :
          /\ L = BPI /\ S = Span(k) /\ h = k - 1 /\ T = Span(h) /\ S = L * T
          /\ L >= 1 /\ S >= 1 /\ T >= 1
  <2>1. /\ Span(k) \in Nat /\ Span(k) >= 1 /\ k - 1 \in Levels
        /\ Span(k - 1) \in Nat /\ Span(k - 1) >= 1 /\ Span(k) = BPI * Span(k - 1)
    BY SpanBelow, LimitsAre
  <2>2. BPI \in Nat /\ BPI >= 1
    BY Layout
  <2> QED
    BY <2>1, <2>2
<1> DEFINE R(j) == Entries(ReadArray(a[j]))
           ss == [j \in 1 .. n |-> R(j)]
<1>4. ASSUME NEW j \in 1 .. n
      PROVE  /\ Run(at, w, g, i, R(j), h, B + (j - 1) * S, Share(k, M, j))
             /\ Share(k, M, j) \in Nat
  <2>1. j \in Nat /\ RunAt(at, w, g, i, a[j], j, k, B, M) /\ a[j] \in K
    BY <1>1, <1>2
  <2> QED
    BY <1>3, <2>1, RunOfBlock
<1>5. Below(a) = FlattenSeq(ss)
  BY <1>1 DEF Below
<1>6. ss \in [1 .. n -> Seq(Blocks)] /\ \A j \in 1 .. n : ss[j] = R(j)
  BY <1>4 DEF Run
<1> HIDE DEF ss, R
(* The products.                                                           *)
<1>7. ASSUME NEW j \in Nat, j >= 1
      PROVE  \E P \in Nat : /\ P = (j - 1) * S /\ Share(k, M, j) = (IF P + S <= M THEN S ELSE M - P)
                            /\ j \in 1 .. n <=> P < M
  <2>1. PICK P \in Nat : P = (j - 1) * S
    <3>1. j - 1 \in Nat
      BY <1>7
    <3> QED
      BY <3>1, MulNat
  <2>2. j * S = P + S
    <3>1. j \in Int /\ (j - 1) * S = j * S - S /\ j * S \in Int
      BY <1>3, MulLess
    <3> QED
      BY <2>1, <3>1
  <2>3. Share(k, M, j) = (IF P + S <= M THEN S ELSE M - P)
    BY <1>3, <2>1, <2>2 DEF Share
  <2>4. j \in 1 .. n <=> P < M
    BY <1>2, <1>3, <1>7, <2>1
  <2> QED
    BY <2>1, <2>3, <2>4
<1>8. ASSUME NEW v \in 1 .. L
      PROVE  \E Q \in Nat : Q = (v - 1) * T /\ v * T = Q + T /\ Q + T <= S
  <2>1. PICK Q \in Nat : Q = (v - 1) * T
    <3>1. v - 1 \in Nat
      OBVIOUS
    <3> QED
      BY <3>1, MulNat
  <2>2. v \in Int /\ (v - 1) * T = v * T - T /\ v * T \in Int /\ v * T <= L * T
    BY <1>3, MulLess
  <2> QED
    BY <1>3, <2>1, <2>2
<1>9. ASSUME NEW j \in 1 .. n, NEW v \in Nat, v >= 1
      PROVE  v \in 1 .. Len(ss[j]) <=> (v - 1) * T < Share(k, M, j)
  <2>1. ss[j] \in Seq(Blocks) /\ ss[j] = R(j)
    BY <1>6
  <2>2. DOMAIN ss[j] = 1 .. Len(ss[j])
    BY <2>1
  <2>3. v \in DOMAIN R(j) <=> (v - 1) * Span(h) < Share(k, M, j)
    BY <1>4, <1>9 DEF Run
  <2> QED
    BY <1>3, <2>1, <2>2, <2>3
<1>10. Even(ss, n, L)
  <2> SUFFICES ASSUME NEW j \in 1 .. n PROVE Len(ss[j]) <= L /\ (j < n => Len(ss[j]) = L)
    BY DEF Even
  <2>1. PICK P \in Nat : /\ P = (j - 1) * S /\ Share(k, M, j) = (IF P + S <= M THEN S ELSE M - P)
                         /\ j \in 1 .. n <=> P < M
    BY <1>1, <1>7
  <2>2. Share(k, M, j) <= S /\ Len(ss[j]) \in Nat
    <3>1. ss[j] \in Seq(Blocks)
      BY <1>6
    <3>2. Share(k, M, j) <= S
      BY <1>3, <2>1
    <3> QED
      BY <3>1, <3>2
  <2>3. ASSUME Len(ss[j]) > L PROVE FALSE
    <3>1. L + 1 \in Nat /\ L + 1 >= 1 /\ L + 1 \in 1 .. Len(ss[j]) /\ (L + 1) - 1 = L
      BY <2>2, <2>3
    <3>2. ((L + 1) - 1) * T < Share(k, M, j)
      BY <1>9, <3>1
    <3> QED
      BY <1>3, <1>4, <2>2, <3>1, <3>2
  <2>4. ASSUME j < n, Len(ss[j]) < L PROVE FALSE
    <3>1. j + 1 \in 1 .. n /\ (j + 1) - 1 = j /\ j + 1 \in Nat /\ j + 1 >= 1
      BY <2>4
    <3>2. j * S < M
      BY <1>2, <1>3, <3>1
    <3>3. j * S = P + S
      <4>1. j \in Int /\ (j - 1) * S = j * S - S /\ j * S \in Int
        BY <1>3, MulLess
      <4> QED
        BY <2>1, <4>1
    <3>4. Share(k, M, j) = S
      BY <1>3, <2>1, <3>2, <3>3
    <3>5. PICK Q \in Nat : Q = (L - 1) * T /\ L * T = Q + T /\ Q + T <= S
      <4>1. L \in 1 .. L
        BY <1>3
      <4> QED
        BY <1>8, <4>1
    <3>6. (L - 1) * T < Share(k, M, j)
      BY <1>3, <3>4, <3>5
    <3>7. L \in 1 .. Len(ss[j])
      BY <1>3, <1>9, <3>6
    <3> QED
      BY <2>2, <2>4, <3>7
  <2> QED
    BY <2>2, <2>3, <2>4
<1>11. CASE n = 0
  <2>1. Len(ss) = 0
    BY <1>6, <1>11, ArrayIs
  <2>2. FlattenSeq(ss) = ss
    BY <2>1 DEF FlattenSeq
  <2>3. ss = <<>>
    BY <1>6, <1>11
  <2>4. PICK f : f = Below(a)
    OBVIOUS
  <2>5. f = <<>>
    BY <1>5, <2>2, <2>3, <2>4, Zenon
  <2>6. M <= 0
    <3>1. PICK P \in Nat : P = (1 - 1) * S /\ (1 \in 1 .. n <=> P < M)
      BY <1>7
    <3>2. (1 - 1) * S = 0
      OBVIOUS
    <3> QED
      BY <1>11, <3>1, <3>2
  <2>7. ASSUME NEW u \in Nat, u >= 1 PROVE ~((u - 1) * T < M)
    <3>1. u - 1 \in Nat
      BY <2>7
    <3>2. (u - 1) * T \in Nat
      BY <3>1, MulNat
    <3> QED
      BY <2>6, <3>2
  <2> QED
    <3>1. f \in Seq(Blocks) /\ DOMAIN f = {}
      BY <2>5
    <3> QED
      BY <1>3, <2>4, <2>7, <3>1 DEF Run
<1>12. CASE n # 0
  <2>1. PICK f : f = Below(a)
    OBVIOUS
  <2>2. f \in Seq(Blocks) /\ Parts(ss, n, L, f)
    <3>1. Aligned(ss, n, L)
      BY <1>1, <1>3, <1>6, <1>10, <1>12 DEF Aligned
    <3>2. Parts(ss, n, L, FlattenSeq(ss))
      BY <3>1, FlatParts
    <3>3. Parts(ss, n, L, f)
      BY <1>5, <2>1, <3>2, Zenon
    <3> QED
      BY <3>3 DEF Parts
  <2>3. ASSUME NEW u \in Nat, u >= 1
        PROVE  /\ u \in DOMAIN f <=> (u - 1) * T < M
               /\ u \in DOMAIN f => RunAt(at, w, g, i, f[u], u, h, B, M)
    <3>1. PICK c \in Nat, v \in 1 .. L : c >= 1 /\ IsPlace(u, c, v, L)
      BY <1>3, <2>3, WhereIs
    <3>2. /\ u \in DOMAIN f <=> c \in 1 .. n /\ v \in 1 .. Len(ss[c])
          /\ c \in 1 .. n /\ v \in 1 .. Len(ss[c]) => f[u] = ss[c][v]
      <4>1. IsIn(f, ss, n, L, u, c, v)
        BY <2>2, <3>1, FlatDomain
      <4> QED
        BY <4>1 DEF IsIn
    <3>3. PICK P \in Nat : /\ P = (c - 1) * S /\ Share(k, M, c) = (IF P + S <= M THEN S ELSE M - P)
                           /\ c \in 1 .. n <=> P < M
      BY <1>7, <3>1
    <3>4. PICK Q \in Nat : Q = (v - 1) * T /\ v * T = Q + T /\ Q + T <= S
      BY <1>8
    <3>5. (u - 1) * T = P + Q /\ u * T = P + Q + T
      <4>1. PICK d \in Nat, y \in Nat : d = c - 1 /\ y = d * L
        <5>1. c - 1 \in Nat /\ (c - 1) * L \in Nat
          BY <3>1, MulNat
        <5> QED
          BY <5>1
      <4>2. y * T = P
        <5>1. d * (L * T) = (d * L) * T
          OBVIOUS
        <5> QED
          BY <1>3, <3>3, <4>1, <5>1
      <4>3. u - 1 = y + (v - 1) /\ v - 1 \in Int /\ y \in Int
        BY <3>1, <4>1 DEF IsPlace
      <4>4. (y + (v - 1)) * T = y * T + (v - 1) * T
        BY <4>3, MulAdd
      <4>5. (u - 1) * T = P + Q
        BY <3>4, <4>2, <4>3, <4>4
      <4>6. u \in Int /\ (u - 1) * T = u * T - T /\ u * T \in Int
        BY <1>3, MulLess
      <4> QED
        BY <4>5, <4>6
    <3>6. PICK H : H = Share(k, M, c)
      OBVIOUS
    <3>7. /\ P + Q < M <=> P < M /\ Q < H
          /\ P < M => (IF Q + T <= H THEN T ELSE H - Q)
                           = (IF P + Q + T <= M THEN T ELSE M - (P + Q))
      BY <1>3, <3>3, <3>4, <3>6, ShareBelow
    <3>8. c \in 1 .. n => (v \in 1 .. Len(ss[c]) <=> Q < H)
      BY <1>9, <3>4, <3>6
    <3>9. u \in DOMAIN f <=> P + Q < M
      BY <3>2, <3>3, <3>7, <3>8
    <3>10. ASSUME u \in DOMAIN f PROVE RunAt(at, w, g, i, f[u], u, h, B, M)
      <4>1. c \in 1 .. n /\ v \in 1 .. Len(ss[c]) /\ f[u] = ss[c][v] /\ ss[c] = R(c) /\ P < M
        BY <1>6, <3>2, <3>3, <3>10
      <4>2. PICK x : x = f[u]
        OBVIOUS
      <4>3. RunAt(at, w, g, i, x, v, h, B + (c - 1) * S, H)
        <5>1. v \in DOMAIN R(c)
          <6>1. ss[c] \in Seq(Blocks)
            BY <1>6, <4>1
          <6> QED
            BY <4>1, <6>1
        <5> QED
          BY <1>4, <3>6, <4>1, <4>2, <5>1 DEF Run
      <4>4. /\ x \in DOMAIN at /\ at[x].own = i /\ at[x].lvl = h
            /\ g[x] = B + P + Q
            /\ h > 0 => w[x] = Share(h, H, v)
        BY <1>3, <3>3, <3>4, <4>3 DEF RunAt
      <4>5. Share(h, H, v) = IF Q + T <= H THEN T ELSE H - Q
        BY <1>3, <3>4 DEF Share
      <4>6. Share(h, M, u) = IF P + Q + T <= M THEN T ELSE M - (P + Q)
        BY <1>3, <3>5 DEF Share
      <4>7. Share(h, H, v) = Share(h, M, u)
        BY <3>7, <4>1, <4>5, <4>6
      <4>8. g[x] = B + (u - 1) * Span(h)
        BY <1>3, <3>5, <4>4
      <4> QED
        BY <4>2, <4>4, <4>7, <4>8 DEF RunAt
    <3> QED
      BY <3>5, <3>9, <3>10
  <2>4. \A u \in DOMAIN f : u \in Nat /\ u >= 1
    BY <2>2
  <2> QED
    BY <1>3, <2>1, <2>2, <2>3, <2>4 DEF Run
<1> QED
  BY <1>11, <1>12

LEMMA HeadsOfArray ==
    ASSUME NEW n \in Nat, NEW a \in [1 .. n -> Refs]
    PROVE  Heads(a)
BY EntriesAre DEF Heads

LEMMA EntriesFull ==
    ASSUME NEW s \in Seq(Blocks)
    PROVE  Entries(s) = s /\ Heads(s)
<1>1. {j \in DOMAIN s : s[j] = NoBlock} = {}
  BY Layout DEF NoBlock
<1>2. Entries(s) = s
  BY <1>1 DEF Entries
<1> QED
  BY <1>2 DEF Heads

LEMMA RunNext ==
    ASSUME NEW at, NEW w, NEW g, NEW K, Viewed(at, w, g, K), NEW k \in Levels, k > 0,
           NEW i, NEW a, Heads(a), Inside(Entries(a), K),
           NEW B \in Int, NEW M \in Int, Run(at, w, g, i, Entries(a), k, B, M)
    PROVE  /\ Run(at, w, g, i, Below(a), k - 1, B, M)
           /\ Entries(Below(a)) = Below(a) /\ Heads(Below(a))
<1>1. PICK f : f = Below(a)
  OBVIOUS
<1>2. Run(at, w, g, i, f, k - 1, B, M)
  BY <1>1, RunBelow
<1>3. f \in Seq(Blocks)
  BY <1>2 DEF Run
<1> QED
  BY <1>1, <1>2, <1>3, EntriesFull

(* From the blocks of the levels to those of the file: o is what           *)
(* alloc_new_datablock returned for it.                                    *)
Lists(at, g, i, o) ==
    \A x \in DOMAIN at : at[x].own = i /\ at[x].lvl = 0 => g[x] + 1 \in DOMAIN o /\ o[g[x] + 1] = x
Piece(f, o, B, M) ==
    /\ f \in Seq(Blocks)
    /\ \A j \in Nat : j >= 1 => (j \in DOMAIN f <=> j <= M)
    /\ \A j \in DOMAIN f : o[B + j] = f[j]
Upto(p, o, B) ==
    /\ p \in Seq(Blocks)
    /\ \A j \in Nat : j >= 1 => (j \in DOMAIN p <=> j <= B /\ j <= Len(o))
    /\ \A j \in DOMAIN p : p[j] = o[j]

LEMMA PieceOfRun ==
    ASSUME NEW at, NEW w, NEW g, NEW i, NEW o, Lists(at, g, i, o),
           NEW f, NEW B \in Nat, NEW M \in Int, Run(at, w, g, i, f, 0, B, M)
    PROVE  Piece(f, o, B, M)
<1>1. Span(0) = 1
  BY DEF Span
<1>2. f \in Seq(Blocks)
  BY DEF Run
<1>3. ASSUME NEW j \in Nat, j >= 1 PROVE j \in DOMAIN f <=> j <= M
  <2>1. j \in DOMAIN f <=> (j - 1) * Span(0) < M
    BY <1>3 DEF Run
  <2>2. (j - 1) * 1 = j - 1
    OBVIOUS
  <2> QED
    BY <1>1, <2>1, <2>2
<1>4. ASSUME NEW j \in DOMAIN f PROVE o[B + j] = f[j]
  <2>1. PICK x : x = f[j]
    OBVIOUS
  <2>2. RunAt(at, w, g, i, x, j, 0, B, M) /\ j \in Nat
    BY <1>2, <2>1 DEF Run
  <2>3. /\ x \in DOMAIN at /\ at[x].own = i /\ at[x].lvl = 0 /\ g[x] = B + (j - 1) * 1
    BY <1>1, <2>2 DEF RunAt
  <2>4. g[x] + 1 = B + j
    BY <2>2, <2>3
  <2>5. o[g[x] + 1] = x
    BY <2>3 DEF Lists
  <2> QED
    BY <2>1, <2>4, <2>5
<1> QED
  BY <1>2, <1>3, <1>4 DEF Piece

LEMMA UptoNext ==
    ASSUME NEW o \in Seq(Refs), NEW B \in Nat, NEW C \in Nat, NEW p, Upto(p, o, B),
           NEW M, M = (IF Len(o) - B <= C THEN Len(o) - B ELSE C),
           NEW f, Piece(f, o, B, M)
    PROVE  Upto(p \o f, o, B + C)
<1>1. PICK n \in Nat : n = Len(o)
  OBVIOUS
<1>2. p \in Seq(Blocks) /\ f \in Seq(Blocks) /\ M \in Int
  BY <1>1 DEF Upto, Piece
<1>3. PICK a \in Nat, b \in Nat : a = Len(p) /\ b = Len(f)
  BY <1>2
<1>4. DOMAIN p = 1 .. a /\ DOMAIN f = 1 .. b
  BY <1>2, <1>3
<1>5. a = (IF n <= B THEN n ELSE B)
  <2>1. ASSUME NEW j \in Nat, j >= 1 PROVE j <= a <=> j <= B /\ j <= n
    <3>1. j \in DOMAIN p <=> j <= B /\ j <= Len(o)
      BY <2>1 DEF Upto
    <3>2. j \in DOMAIN p <=> j <= a
      BY <1>4, <2>1
    <3> QED
      BY <1>1, <3>1, <3>2
  <2>2. a >= 1 => a <= B /\ a <= n
    BY <2>1
  <2>3. a + 1 >= 1 /\ a + 1 \in Nat /\ ~(a + 1 <= a)
    OBVIOUS
  <2>4. ~(a + 1 <= B /\ a + 1 <= n)
    BY <2>1, <2>3
  <2> QED
    BY <2>2, <2>4
<1>6. b = (IF M <= 0 THEN 0 ELSE M)
  <2>1. ASSUME NEW j \in Nat, j >= 1 PROVE j <= b <=> j <= M
    BY <1>4, <2>1 DEF Piece
  <2>2. b >= 1 => b <= M
    BY <2>1
  <2>3. b + 1 >= 1 /\ b + 1 \in Nat /\ ~(b + 1 <= b)
    OBVIOUS
  <2>4. ~(b + 1 <= M)
    BY <2>1, <2>3
  <2> QED
    BY <1>2, <2>2, <2>4
<1>7. PICK q : q = p \o f
  OBVIOUS
<1>8. /\ q \in Seq(Blocks) /\ DOMAIN q = 1 .. (a + b)
      /\ \A j \in 1 .. (a + b) : q[j] = IF j <= a THEN p[j] ELSE f[j - a]
  BY <1>2, <1>3, <1>7
<1>9. ASSUME NEW j \in Nat, j >= 1 PROVE j \in 1 .. (a + b) <=> (j <= B + C /\ j <= n)
  <2>1. M = IF n - B <= C THEN n - B ELSE C
    BY <1>1
  <2>2. n \in Nat /\ M \in Int
    BY <1>1, <1>2
  <2>3. a + b = IF n <= B + C THEN n ELSE B + C
    <3>1. CASE n <= B
      BY <1>5, <1>6, <2>1, <2>2, <3>1
    <3>2. CASE n > B /\ n - B <= C
      <4>1. a = B /\ b = n - B
        BY <1>5, <1>6, <2>1, <2>2, <3>2
      <4> QED
        BY <2>2, <3>2, <4>1
    <3>3. CASE n > B /\ n - B > C
      <4>1. a = B /\ M = C
        BY <1>5, <2>1, <2>2, <3>3
      <4>2. b = C
        BY <1>6, <4>1
      <4> QED
        BY <2>2, <3>3, <4>1, <4>2
    <3> QED
      BY <2>2, <3>1, <3>2, <3>3
  <2> QED
    BY <1>9, <2>2, <2>3
<1>10. ASSUME NEW j \in 1 .. (a + b) PROVE q[j] = o[j]
  <2>1. CASE j <= a
    <3>1. j \in DOMAIN p
      BY <1>4, <2>1
    <3>2. p[j] = o[j]
      BY <3>1 DEF Upto
    <3> QED
      BY <1>8, <2>1, <3>2
  <2>2. CASE j > a
    <3>1. j - a \in DOMAIN f /\ b > 0
      BY <1>4, <2>2
    <3>2. B + (j - a) = j
      BY <1>1, <1>5, <1>6, <3>1
    <3>3. o[B + (j - a)] = f[j - a]
      BY <3>1 DEF Piece
    <3> QED
      BY <1>8, <2>2, <3>2, <3>3
  <2> QED
    BY <2>1, <2>2
<1>11. Upto(q, o, B + C)
  BY <1>1, <1>8, <1>9, <1>10 DEF Upto
<1> QED
  BY <1>7, <1>11

LEMMA UptoAll ==
    ASSUME NEW o \in Seq(Refs), NEW B \in Nat, Len(o) <= B, NEW p, Upto(p, o, B)
    PROVE  p = o
<1>1. PICK n \in Nat : n = Len(o) /\ DOMAIN o = 1 .. n
  OBVIOUS
<1>2. p \in Seq(Blocks) /\ Blocks \subseteq Refs
  BY DEF Upto, Refs
<1>3. PICK a \in Nat : a = Len(p) /\ DOMAIN p = 1 .. a
  BY <1>2
<1>4. ASSUME NEW j \in Nat, j >= 1 PROVE j <= a <=> j <= n
  BY <1>1, <1>3, <1>4 DEF Upto
<1>5. a = n
  <2>1. a >= 1 => a <= n
    BY <1>4
  <2>2. n >= 1 => n <= a
    BY <1>4
  <2> QED
    BY <2>1, <2>2
<1>6. \A j \in 1 .. n : p[j] = o[j]
  BY <1>3, <1>5 DEF Upto
<1> QED
  BY <1>1, <1>2, <1>3, <1>5, <1>6

LEMMA ViewedIdle ==
    ASSUME TypeInv, pc = "idle",
           NEW at, NEW w, NEW g, Placed(at), Sized(at, w), Ordered(at, g)
    PROVE  Viewed(at, w, g, DOMAIN at)
<1>1. Forest(at) /\ PoolType /\ w \in [Blocks -> Nat] /\ g \in [Blocks -> Nat]
  BY DEF Placed, TypeInv, Sized, Ordered, Numbered
<1>2. \A p \in DOMAIN at : p \in DOMAIN content
  BY <1>1 DEF Forest
<1>3. ASSUME NEW p \in DOMAIN at, at[p].lvl > 0
      PROVE  /\ Right(at, content[p], at[p].own, at[p].lvl - 1, p)
             /\ Filled(w, content[p], at[p].lvl - 1, w[p])
             /\ Numbers(g, content[p], at[p].lvl - 1, g[p])
  <2>1. ~Pending(p)
    BY DEF Pending
  <2>2. DiskSized(at, w) /\ DiskNumbers(at, g)
    BY DEF Sized, Ordered, Numbered
  <2> QED
    BY <1>1, <1>3, <2>1, <2>2 DEF DiskSized, DiskNumbers, Forest
<1> QED
  BY <1>1, <1>2, <1>3 DEF Viewed

(* The numbers of the data blocks of level k among the n of a file.        *)
Held(n, k) == Clip(n - Limit(k), Pointers(k), k)

LEMMA HeldAre ==
    ASSUME NEW n \in Nat, NEW k \in Levels
    PROVE  \E C \in Nat : /\ Limit(k + 1) = Limit(k) + C
                          /\ Held(n, k) = IF n - Limit(k) <= C THEN n - Limit(k) ELSE C
<1>1. PICK C \in Nat : C = Pointers(k) * Span(k) /\ Limit(k + 1) = Limit(k) + C
  BY LimitsAre
<1>2. Held(n, k) = IF n - Limit(k) <= C THEN n - Limit(k) ELSE C
  BY <1>1 DEF Held, Clip
<1> QED
  BY <1>1, <1>2

LEMMA RunOfLevel ==
    ASSUME TypeInv, pc = "idle",
           NEW at, NEW w, NEW g, Placed(at), Sized(at, w), Ordered(at, g),
           NEW i \in linked, NEW k \in Levels
    PROVE  /\ Run(at, w, g, i, Entries(ino[i].blocks[k]), k, Limit(k), Held(ino[i].n_blocks, k))
           /\ Heads(ino[i].blocks[k])
           /\ Held(ino[i].n_blocks, k) \in Int /\ Limit(k) \in Nat
<1>1. PICK a, m, n, B, M : /\ a = ino[i].blocks[k] /\ m = ino[i].n_blocks - Limit(k)
                           /\ n = Pointers(k) /\ B = Limit(k) /\ M = Clip(m, n, k)
  OBVIOUS
<1>2. n \in Nat /\ a \in [1 .. n -> Refs] /\ B \in Nat /\ m \in Int
  <2>1. i \in Inodes
    BY DEF TypeInv
  <2>2. IsInode(ino[i])
    BY <2>1 DEF TypeInv, InodesType
  <2>3. ino[i].n_blocks \in 0 .. Limit(4) /\ ino[i].blocks[k] \in [1 .. Pointers(k) -> Refs]
    BY <2>2 DEF IsInode, InodeRecord
  <2>4. Pointers(k) \in Nat
    BY LayoutAssumption DEF Levels, Pointers
  <2>5. Limit(k) \in Nat /\ Limit(4) \in Nat
    BY LimitsAre DEF Levels
  <2> QED
    BY <1>1, <2>3, <2>4, <2>5
<1>3. Right(at, a, i, k, NoBlock)
  BY <1>1 DEF Placed, Forest
<1>4. Filled(w, a, k, m)
  <2>1. InodesSized(w)
    BY DEF Sized
  <2> QED
    BY <1>1, <2>1 DEF InodesSized
<1>5. Numbers(g, a, k, B)
  <2>1. DiskNumbers(at, g)
    BY DEF Ordered, Numbered
  <2> QED
    BY <1>1, <2>1 DEF DiskNumbers
<1>6. Run(at, w, g, i, Entries(a), k, B, M) /\ M \in Int
  BY <1>1, <1>2, <1>3, <1>4, <1>5, RunOfArray
<1>7. Heads(a)
  BY <1>2, HeadsOfArray
<1>8. M = Held(ino[i].n_blocks, k)
  BY <1>1, Zenon DEF Held
<1> QED
  BY <1>1, <1>2, <1>6, <1>7, <1>8

(* The data blocks of the four levels.                                     *)
LEMMA RunsOfFile ==
    ASSUME TypeInv, pc = "idle",
           NEW at, NEW w, NEW g, Placed(at), Sized(at, w), Ordered(at, g),
           NEW i \in linked, NEW b, b = ino[i].blocks, NEW n, n = ino[i].n_blocks
    PROVE  /\ Run(at, w, g, i, Entries(b[0]), 0, Limit(0), Held(n, 0))
           /\ Run(at, w, g, i, Below(b[1]), 0, Limit(1), Held(n, 1))
           /\ Run(at, w, g, i, Below(Below(b[2])), 0, Limit(2), Held(n, 2))
           /\ Run(at, w, g, i, Below(Below(Below(b[3]))), 0, Limit(3), Held(n, 3))
<1>1. Viewed(at, w, g, DOMAIN at)
  BY ViewedIdle
<1>2. ASSUME NEW k \in Levels
      PROVE  /\ Run(at, w, g, i, Entries(b[k]), k, Limit(k), Held(n, k))
             /\ Heads(b[k]) /\ Held(n, k) \in Int /\ Limit(k) \in Int
  BY RunOfLevel
<1>3. 0 \in Levels /\ 1 \in Levels /\ 2 \in Levels /\ 3 \in Levels
  BY DEF Levels
<1>4. Run(at, w, g, i, Entries(b[0]), 0, Limit(0), Held(n, 0))
  BY <1>2, <1>3
<1>5. ASSUME NEW k \in Levels, NEW l \in Levels, l > 0, NEW a, Heads(a),
             Run(at, w, g, i, Entries(a), l, Limit(k), Held(n, k))
      PROVE  \E h \in Levels : /\ h = l - 1
                               /\ Run(at, w, g, i, Below(a), h, Limit(k), Held(n, k))
                               /\ Run(at, w, g, i, Entries(Below(a)), h, Limit(k), Held(n, k))
                               /\ Heads(Below(a))
  <2>1. PICK B \in Int, M \in Int : B = Limit(k) /\ M = Held(n, k)
    BY <1>2
  <2>2. /\ Run(at, w, g, i, Below(a), l - 1, B, M)
        /\ Entries(Below(a)) = Below(a) /\ Heads(Below(a))
    <3>1. Inside(Entries(a), DOMAIN at)
      BY <1>5 DEF Inside, Run, RunAt
    <3> QED
      BY <1>1, <1>5, <2>1, <3>1, RunNext
  <2>3. PICK h \in Levels : h = l - 1
    BY <1>5 DEF Levels
  <2> QED
    BY <2>1, <2>2, <2>3
<1>6. Run(at, w, g, i, Below(b[1]), 0, Limit(1), Held(n, 1))
  <2>1. \E h \in Levels : h = 1 - 1 /\ Run(at, w, g, i, Below(b[1]), h, Limit(1), Held(n, 1))
    BY <1>2, <1>3, <1>5
  <2> QED
    BY <2>1
<1>7. Run(at, w, g, i, Below(Below(b[2])), 0, Limit(2), Held(n, 2))
  <2>1. PICK a : a = Below(b[2])
    OBVIOUS
  <2>2. /\ Heads(a)
        /\ \E h \in Levels : h = 2 - 1 /\ Run(at, w, g, i, Entries(a), h, Limit(2), Held(n, 2))
    BY <1>2, <1>3, <1>5, <2>1
  <2>3. Run(at, w, g, i, Entries(a), 1, Limit(2), Held(n, 2))
    BY <2>2
  <2>4. \E h \in Levels : h = 1 - 1 /\ Run(at, w, g, i, Below(a), h, Limit(2), Held(n, 2))
    BY <1>3, <1>5, <2>2, <2>3
  <2> QED
    BY <2>1, <2>4
<1>8. Run(at, w, g, i, Below(Below(Below(b[3]))), 0, Limit(3), Held(n, 3))
  <2>1. PICK a, c : a = Below(b[3]) /\ c = Below(a)
    OBVIOUS
  <2>2. /\ Heads(a)
        /\ \E h \in Levels : h = 3 - 1 /\ Run(at, w, g, i, Entries(a), h, Limit(3), Held(n, 3))
    BY <1>2, <1>3, <1>5, <2>1
  <2>3. Run(at, w, g, i, Entries(a), 2, Limit(3), Held(n, 3))
    BY <2>2
  <2>4. /\ Heads(c)
        /\ \E h \in Levels : h = 2 - 1 /\ Run(at, w, g, i, Entries(c), h, Limit(3), Held(n, 3))
    BY <1>3, <1>5, <2>1, <2>2, <2>3
  <2>5. Run(at, w, g, i, Entries(c), 1, Limit(3), Held(n, 3))
    BY <2>4
  <2>6. \E h \in Levels : h = 1 - 1 /\ Run(at, w, g, i, Below(c), h, Limit(3), Held(n, 3))
    BY <1>3, <1>5, <2>4, <2>5
  <2> QED
    BY <2>1, <2>6
<1> QED
  BY <1>4, <1>6, <1>7, <1>8

LEMMA FileIsOwned ==
    ASSUME TypeInv, pc = "idle",
           NEW at, NEW w, NEW g, Placed(at), Sized(at, w), Ordered(at, g),
           NEW i \in linked
    PROVE  FileBlocks(ino[i]) = owned[i] /\ ino[i].n_blocks = Len(owned[i])
<1>1. PICK b, n, o : b = ino[i].blocks /\ n = ino[i].n_blocks /\ o = owned[i]
  OBVIOUS
<1>2. i \in Inodes /\ IsInode(ino[i])
  BY DEF TypeInv, InodesType
<1>3. o \in Seq(Refs) /\ n = Len(o) /\ n \in Nat /\ n <= Limit(4)
  <2>1. Counted
    BY DEF Ordered, Numbered
  <2>2. n \in 0 .. Limit(4)
    BY <1>1, <1>2 DEF IsInode, InodeRecord
  <2>3. o \in Seq(Refs) /\ n = Len(o)
    BY <1>1, <1>2, <2>1 DEF Counted
  <2>4. Limit(4) \in Nat
    BY LimitsAre
  <2> QED
    BY <2>2, <2>3, <2>4
<1>4. Lists(at, g, i, o)
  <2> SUFFICES ASSUME NEW x \in DOMAIN at, at[x].own = i, at[x].lvl = 0
               PROVE  g[x] + 1 \in DOMAIN o /\ o[g[x] + 1] = x
    BY DEF Lists
  <2>1. Coming(i) = o
    BY <1>1 DEF Coming
  <2>2. IsGiven(at, g, x)
    BY DEF Ordered, Numbered, Given
  <2> QED
    BY <2>1, <2>2 DEF IsGiven
<1>5. PICK f0, f1, f2, f3 :
          /\ f0 = Entries(b[0]) /\ f1 = Below(b[1])
          /\ f2 = Below(Below(b[2])) /\ f3 = Below(Below(Below(b[3])))
  OBVIOUS
<1>6. /\ Run(at, w, g, i, f0, 0, Limit(0), Held(n, 0))
      /\ Run(at, w, g, i, f1, 0, Limit(1), Held(n, 1))
      /\ Run(at, w, g, i, f2, 0, Limit(2), Held(n, 2))
      /\ Run(at, w, g, i, f3, 0, Limit(3), Held(n, 3))
  BY <1>1, <1>5, RunsOfFile
<1>7. ASSUME NEW k \in Levels, NEW f, Run(at, w, g, i, f, 0, Limit(k), Held(n, k)),
             NEW p, Upto(p, o, Limit(k))
      PROVE  Upto(p \o f, o, Limit(k + 1))
  <2>1. PICK C \in Nat : /\ Limit(k + 1) = Limit(k) + C
                         /\ Held(n, k) = IF n - Limit(k) <= C THEN n - Limit(k) ELSE C
    BY <1>3, HeldAre
  <2>2. PICK B \in Nat : B = Limit(k)
    BY LimitsAre DEF Levels
  <2>3. PICK M \in Int : M = Held(n, k) /\ M = IF Len(o) - B <= C THEN Len(o) - B ELSE C
    BY <1>3, <2>1, <2>2
  <2>4. Piece(f, o, B, M)
    BY <1>4, <1>7, <2>2, <2>3, PieceOfRun
  <2>5. Upto(p, o, B)
    BY <1>7, <2>2
  <2>6. Upto(p \o f, o, B + C)
    BY <1>3, <2>3, <2>4, <2>5, UptoNext
  <2> QED
    BY <2>1, <2>2, <2>6
<1>8. 0 \in Levels /\ 1 \in Levels /\ 2 \in Levels /\ 3 \in Levels
  BY DEF Levels
<1>9. PICK e : e = <<>>
  OBVIOUS
<1>10. Upto(e, o, Limit(0))
  <2>1. Limit(0) = 0
    BY LimitsAre
  <2>2. e \in Seq(Blocks) /\ DOMAIN e = {}
    BY <1>9
  <2> QED
    BY <2>1, <2>2 DEF Upto
<1>11. f0 \in Seq(Blocks)
  BY <1>6 DEF Run
<1>12. e \o f0 = f0
  BY <1>9, <1>11
<1>13. PICK p1, p2, p3 : p1 = f0 \o f1 /\ p2 = p1 \o f2 /\ p3 = p2 \o f3
  OBVIOUS
<1>14. Upto(f0, o, Limit(1))
  <2>1. Upto(e \o f0, o, Limit(0 + 1))
    BY <1>6, <1>7, <1>8, <1>10
  <2>2. 0 + 1 = 1
    OBVIOUS
  <2> QED
    BY <1>12, <2>1, <2>2
<1>15. Upto(p1, o, Limit(2))
  <2>1. Upto(f0 \o f1, o, Limit(1 + 1)) /\ 1 + 1 = 2
    BY <1>6, <1>7, <1>8, <1>14
  <2> QED
    BY <1>13, <2>1
<1>16. Upto(p2, o, Limit(3))
  <2>1. Upto(p1 \o f2, o, Limit(2 + 1)) /\ 2 + 1 = 3
    BY <1>6, <1>7, <1>8, <1>15
  <2> QED
    BY <1>13, <2>1
<1>17. Upto(p3, o, Limit(4))
  <2>1. Upto(p2 \o f3, o, Limit(3 + 1)) /\ 3 + 1 = 4
    BY <1>6, <1>7, <1>8, <1>16
  <2> QED
    BY <1>13, <2>1
<1>18. p3 = o
  <2>1. PICK L \in Nat : L = Limit(4)
    BY LimitsAre
  <2> QED
    BY <1>3, <1>17, <2>1, UptoAll
<1>19. FileBlocks(ino[i]) = p3
  BY <1>1, <1>5, <1>13, Zenon DEF FileBlocks
<1> QED
  BY <1>1, <1>3, <1>18, <1>19

LEMMA OrderImplies == TypeInv /\ OrderInv => MapFaithful
<1> SUFFICES ASSUME TypeInv, OrderInv, Idle, failures = 0, crashes = 0, NEW i \in linked
             PROVE  /\ FileBlocks(ino[i]) = owned[i]
                    /\ ino[i].n_blocks = Len(owned[i])
                    /\ LastDatablock(ino[i]) = IF owned[i] = <<>> THEN NoBlock ELSE Last(owned[i])
  BY DEF MapFaithful
<1>1. PICK at, w, g : Placed(at) /\ Sized(at, w) /\ Ordered(at, g)
  BY DEF OrderInv
<1>2. FileBlocks(ino[i]) = owned[i] /\ ino[i].n_blocks = Len(owned[i])
  BY <1>1, FileIsOwned DEF Idle
<1>3. LastDatablock(ino[i]) = IF owned[i] = <<>> THEN NoBlock ELSE Last(owned[i])
  BY <1>2, Zenon DEF LastDatablock
<1> QED
  BY <1>2, <1>3

(* As long as no write has failed and nothing crashed, between two         *)
(* operations foreach_datablock_in_inode visits the data blocks that       *)
(* alloc_new_datablock returned for the file, in that order; n_blocks is   *)
(* their number, and get_last_datablock finds the last of them.            *)
THEOREM MapIsFaithful == MapSpec => []MapFaithful
<1>1. MapSpec => []TypeInv
  BY TypeInit, TypeStep, PTL DEF MapSpec
<1>2. MapSpec => []OwnInv
  BY <1>1, OwnInit, OwnStep, PTL DEF MapSpec
<1>3. MapSpec => []SizeInv
  BY <1>1, <1>2, SizeInit, SizeStep, PTL DEF MapSpec
<1>4. MapSpec => []OrderInv
  BY <1>1, <1>2, <1>3, OrderInit, OrderStep, PTL DEF MapSpec
<1>5. TypeInv /\ OrderInv => MapFaithful
  BY OrderImplies
<1> QED
  BY <1>1, <1>4, <1>5, PTL

-----------------------------------------------------------------------------
(* What is still in a file after a crash.  K are blocks that the disk      *)
(* leads to from a file in a directory, those that alloc_new_datablock     *)
(* returned among them; the blocks of an inode that the crash left behind  *)
(* may be in the same arrays.                                              *)
Rooted(at, K) ==
    \A x \in K : /\ x \in DOMAIN at /\ Hangs(at, x) /\ OnDisk(at, x)
                 /\ at[x].up # NoBlock => at[x].up \in K
DataOf(at, i, x) == at[x].own = i /\ at[x].lvl = 0
InOrder(at, g, K, i) ==
    /\ \A n \in DOMAIN owned[i] : owned[i][n] \in K /\ DataOf(at, i, owned[i][n])
    /\ \A m, n \in DOMAIN owned[i] : m < n => g[owned[i][m]] < g[owned[i][n]]
LevelsUsed ==
    \A i \in linked, k \in Levels : \A s \in DOMAIN ino[i].blocks[k] :
        ino[i].blocks[k][s] # NoBlock => Limit(k) < ino[i].n_blocks

(* The arrays in core of a running allocation have all that is on disk,    *)
(* and each data block of the file lies before the slot it will take: in   *)
(* front of the array it has come to, or in that array.                    *)
Covers(a, b) == \A s \in DOMAIN a : a[s] # NoBlock => s \in DOMAIN b /\ b[s] = a[s]
CoversDisk(fs, t, i) ==
    /\ Covers(ino[i].blocks[t], fs[1].indblock)
    /\ \A d \in 2 .. Len(fs) : Covers(content[fs[d].target], fs[d].indblock)
IsUnder(at, g, K, x, y, k, i, p) ==
    /\ y \in K /\ at[y].own = i /\ at[y].lvl = k /\ at[y].up = p
    /\ g[x] < g[y] + Span(k)
Behind(at, g, K, x) ==
    \/ g[x] < Base(g, frames, top, Depth)
    \/ IsUnder(at, g, K, x, Ancestor(at, x, level), level, self, frames[Depth].target)
AllBehind(at, g, K) == \A x \in K : DataOf(at, self, x) => Behind(at, g, K, x)

(* On its way back: N are the data block it popped and those above it that *)
(* are written.                                                            *)
Hanging(at, N, x) ==
    \/ at[x].up # NoBlock /\ at[x].up \in N /\ OnDisk(at, x)
    \/ at[x].lvl = level /\ at[x].up = frames[Depth].target /\ Has(blocks, at, x)
Fresh(at, g, N) ==
    /\ cand \in N /\ at[cand].lvl = 0
    /\ \A x \in N : x \in DOMAIN at /\ at[x].own = self /\ Hangs(at, x) /\ Hanging(at, N, x)
    /\ \A n \in DOMAIN owned[self] : g[owned[self][n]] < g[cand]

Kept(at, g, K, N) ==
    /\ Numbered(at, g) /\ owned \in [Inodes -> Seq(Refs)] /\ InUse /\ LevelsUsed
    /\ Rooted(at, K)
    /\ \A i \in linked : InOrder(at, g, K, i)
    /\ pc \in {"descend", "unwind"} => CoversDisk(frames, top, self) /\ Limit(top) <= buf.n_blocks
    /\ pc = "descend" => AllBehind(at, g, K)
    /\ pc = "unwind" => Fresh(at, g, N)
KeptInv == failures = 0 /\ overruns = {} => \E at, g, K, N : Placed(at) /\ Kept(at, g, K, N)

(* Steps that leave the files in directories, and the blocks of K, as they *)
(* are.                                                                    *)
KeepsFiles(at, K, at2, K2) ==
    /\ \A j \in linked' : j \in linked /\ ino'[j] = ino[j] /\ owned'[j] = owned[j]
    /\ owned' \in [Inodes -> Seq(Refs)]
    /\ \A x \in DOMAIN at2 : x \in DOMAIN at /\ at2[x] = at[x] /\ content'[x] = content[x]
    /\ \A x \in K2 : x \in K /\ x \in DOMAIN at2 /\ at[x].own \in linked'
    /\ \A x \in K : at[x].own \in linked' => x \in K2

LEMMA NumberedKept ==
    ASSUME NEW at, NEW g, Numbered(at, g), NEW K, NEW at2, NEW K2, KeepsFiles(at, K, at2, K2),
           pc' \in {"descend", "unwind"} => StackNumbers(g, frames, top)'
    PROVE  Numbered(at2, g)'
<1>1. g \in [Blocks -> Nat] /\ DiskNumbers(at, g)
  BY DEF Numbered
<1>2. \A i \in linked', k \in Levels : Numbers(g, ino'[i].blocks[k], k, Limit(k))
  BY <1>1 DEF DiskNumbers, KeepsFiles
<1>3. \A p \in DOMAIN at2 : at2[p].lvl > 0 => Numbers(g, content'[p], at2[p].lvl - 1, g[p])
  BY <1>1 DEF DiskNumbers, KeepsFiles
<1>4. DiskNumbers(at2, g)'
  BY <1>2, <1>3 DEF DiskNumbers
<1> QED
  BY <1>1, <1>4 DEF Numbered

LEMMA RootedKept ==
    ASSUME NEW at, NEW K, Rooted(at, K), NEW at2, NEW K2, KeepsFiles(at, K, at2, K2)
    PROVE  Rooted(at2, K2)'
<1> SUFFICES ASSUME NEW x \in K2
             PROVE  /\ x \in DOMAIN at2 /\ Hangs(at2, x)' /\ OnDisk(at2, x)'
                    /\ at2[x].up # NoBlock => at2[x].up \in K2
  BY DEF Rooted
<1>1. /\ x \in K /\ x \in DOMAIN at2 /\ at2[x] = at[x] /\ at[x].own \in linked'
      /\ ino'[at[x].own] = ino[at[x].own]
  BY DEF KeepsFiles
<1>2. /\ Hangs(at, x) /\ OnDisk(at, x)
      /\ at[x].up # NoBlock => at[x].up \in K
  BY <1>1 DEF Rooted
<1>3. ASSUME at[x].up # NoBlock
      PROVE  /\ at[x].up \in K2 /\ at[x].up \in DOMAIN at2 /\ at2[at[x].up] = at[at[x].up]
             /\ content'[at[x].up] = content[at[x].up]
  <2>1. at[x].up \in K /\ at[at[x].up].own = at[x].own
    BY <1>2, <1>3 DEF Hangs
  <2> QED
    BY <1>1, <2>1 DEF KeepsFiles
<1>4. Hangs(at2, x)'
  BY <1>1, <1>2, <1>3 DEF Hangs
<1>5. OnDisk(at2, x)'
  BY <1>1, <1>2, <1>3, OnDiskKept
<1> QED
  BY <1>1, <1>3, <1>4, <1>5

LEMMA InOrderKept ==
    ASSUME NEW at, NEW g, NEW K, NEW at2, NEW K2, KeepsFiles(at, K, at2, K2),
           NEW i \in linked', InOrder(at, g, K, i)
    PROVE  InOrder(at2, g, K2, i)'
<1>1. owned'[i] = owned[i]
  BY DEF KeepsFiles
<1>2. ASSUME NEW n \in DOMAIN owned[i]
      PROVE  owned[i][n] \in K2 /\ DataOf(at2, i, owned[i][n])
  <2>1. owned[i][n] \in K /\ DataOf(at, i, owned[i][n])
    BY <1>2 DEF InOrder
  <2> QED
    BY <2>1 DEF KeepsFiles, DataOf
<1> QED
  BY <1>1, <1>2 DEF InOrder, DataOf

LEMMA LevelsKept ==
    ASSUME LevelsUsed, NEW at, NEW K, NEW at2, NEW K2, KeepsFiles(at, K, at2, K2)
    PROVE  LevelsUsed'
  BY DEF LevelsUsed, KeepsFiles

LEMMA KeptQuiet ==
    ASSUME NEW at, NEW g, NEW K, NEW N, Kept(at, g, K, N),
           NEW at2, NEW K2, KeepsFiles(at, K, at2, K2), InUse',
           pc' \notin {"descend", "unwind"}
    PROVE  Kept(at2, g, K2, N)'
<1>1. /\ Numbered(at, g) /\ Rooted(at, K) /\ LevelsUsed
      /\ \A i \in linked : InOrder(at, g, K, i)
  BY DEF Kept
<1>2. Numbered(at2, g)' /\ Rooted(at2, K2)' /\ LevelsUsed'
  BY <1>1, NumberedKept, RootedKept, LevelsKept
<1>3. ASSUME NEW i \in linked' PROVE InOrder(at2, g, K2, i)'
  <2>1. InOrder(at, g, K, i)
    BY <1>1 DEF KeepsFiles
  <2> QED
    BY <2>1, InOrderKept
<1>4. owned' \in [Inodes -> Seq(Refs)]
  BY DEF KeepsFiles
<1> QED
  BY <1>2, <1>3, <1>4 DEF Kept

LEMMA KeptParts ==
    ASSUME NEW at, NEW g, NEW K, NEW N, Kept(at, g, K, N)
    PROVE  /\ owned \in [Inodes -> Seq(Refs)] /\ InUse
           /\ \A x \in K : x \in DOMAIN at /\ at[x].own \in linked
  BY DEF Kept, Rooted, Hangs

LEMMA KeptStill ==
    ASSUME NEW at, NEW g, NEW K, NEW N, Kept(at, g, K, N), UNCHANGED <<ino, linked, owned>>,
           \A x \in DOMAIN at : content'[x] = content[x],
           pc' \notin {"descend", "unwind"}, pc' = "free_inode" => pc = "free_inode" /\ self' = self
    PROVE  Kept(at, g, K, N)'
<1>1. KeepsFiles(at, K, at, K) /\ InUse'
  BY KeptParts DEF KeepsFiles, InUse
<1> QED
  BY <1>1, KeptQuiet

LEMMA KeptStops ==
    ASSUME TypeInv, NEW at, NEW g, NEW K, NEW N, Placed(at), Kept(at, g, K, N),
           PopFails \/ AllocFails \/ GiveBack \/ AppendNext \/ Crash
    PROVE  Kept(at, g, K, N)'
<1>1. CASE PopFails \/ AllocFails
  <2>1. UNCHANGED <<ino, linked, owned, content>> /\ pc' \in {"undo", "idle"}
    BY <1>1 DEF PopFails, AllocFails, pool
  <2> QED
    BY <2>1, KeptStill
<1>2. CASE GiveBack
  <2>1. /\ UNCHANGED <<ino, linked, owned>> /\ pc' = "undo"
        /\ Pool!Release(cand) /\ cand \notin DOMAIN at /\ DOMAIN at \subseteq DOMAIN content
    BY <1>2 DEF GiveBack, Placed, Loose, Forest
  <2>2. \A x \in DOMAIN at : content'[x] = content[x]
    BY <2>1, ReleaseType, TypeParts
  <2> QED
    BY <2>1, <2>2, KeptStill
<1>3. CASE AppendNext
  <2>1. pc = "free_inode"
    BY <1>3 DEF AppendNext, Placed
  <2>2. /\ UNCHANGED <<ino, linked, owned, pc, buf>>
        /\ todo # <<>> /\ Pool!Release(Head(todo)) /\ todo \in Seq(Blocks)
        /\ Range(todo) \intersect DOMAIN at = {} /\ DOMAIN at \subseteq DOMAIN content
    BY <1>3, <2>1, TypeParts DEF AppendNext, Placed, Loose, Forest, Changing
  <2>3. Head(todo) \in Range(todo)
    BY <2>2, TailRange
  <2>4. \A x \in DOMAIN at : content'[x] = content[x]
    BY <2>2, <2>3, ReleaseType, TypeParts
  <2>5. self' = self
    BY <2>2 DEF self
  <2> QED
    BY <2>1, <2>2, <2>4, <2>5, KeptStill
<1>4. CASE Crash
  <2>1. UNCHANGED <<ino, linked, owned, content>> /\ pc' = "idle"
    BY <1>4 DEF Crash, Rest, Pool!Crash
  <2> QED
    BY <2>1, KeptStill
<1> QED
  BY <1>1, <1>2, <1>3, <1>4

(* A pop that finds no slot, and an indirect block that is not there.      *)
LEMMA KeptAway ==
    ASSUME TypeInv, NEW at, NEW g, NEW K, NEW N, Placed(at), Kept(at, g, K, N),
           \/ NewDirect /\ ~(first_unused < Len(blocks))
           \/ OldIndirect /\ first_unused = 0
    PROVE  Kept(at, g, K, N)'
<1>1. CASE OldIndirect /\ first_unused = 0
  <2>1. UNCHANGED <<ino, linked, owned, content>> /\ pc' = "abort"
    BY <1>1 DEF OldIndirect, pool
  <2> QED
    BY <2>1, KeptStill
<1>2. CASE NewDirect /\ ~(first_unused < Len(blocks))
  <2>1. \E b \in Poppable : Pool!Alloc(b)
    BY <1>2 DEF NewDirect
  <2>2. UNCHANGED <<ino, linked, owned>> /\ pc' = "give_back"
    BY <1>2 DEF NewDirect
  <2>3. PICK b \in Poppable : Pool!Alloc(b)
    BY <2>1
  <2>4. Apart /\ Forest(at)
    BY DEF Placed
  <2>5. PoppedFor(at, b)
    BY <2>2, <2>3, <2>4, PopApart
  <2>6. \A x \in DOMAIN at : content'[x] = content[x]
    BY <2>5 DEF PoppedFor
  <2> QED
    BY <2>2, <2>6, KeptStill
<1> QED
  BY <1>1, <1>2

LEMMA KeptFreeInode ==
    ASSUME TypeInv, NEW at, NEW g, NEW K, NEW N, Placed(at), Kept(at, g, K, N), FreeInode
    PROVE  Kept(at, g, K, N)'
<1>1. /\ pc = "free_inode" /\ pc' = "idle" /\ UNCHANGED <<content, linked, owned>>
      /\ ino' = [ino EXCEPT ![self] = FreshInode(self)]
  BY DEF FreeInode, pool, Rest
<1>2. \A j \in linked : ino'[j] = ino[j] /\ j # self
  <2>1. linked \subseteq Inodes /\ DOMAIN ino = Inodes
    BY TypeParts DEF InodesType
  <2>2. self \notin linked
    BY <1>1, KeptParts DEF InUse
  <2> QED
    BY <1>1, <2>1, <2>2
<1>3. InUse' /\ KeepsFiles(at, K, at, K)
  BY <1>1, <1>2, KeptParts DEF InUse, KeepsFiles
<1> QED
  BY <1>1, <1>3, KeptQuiet

LEMMA KeptUnlink ==
    ASSUME TypeInv, NEW at, NEW g, NEW K, NEW N, Placed(at), Kept(at, g, K, N),
           NEW i \in Inodes, Unlink(i)
    PROVE  Kept(Keeping(at, i), g, {x \in K : at[x].own # i}, N)'
<1>1. /\ pc = "idle" /\ pc' = "free_inode" /\ UNCHANGED <<ino, content, owned>>
      /\ linked' = linked \ {i} /\ buf' = AfterRelease(ino[i], 0)
  BY DEF Unlink, pool, Idle, ReleaseStart
<1>2. PICK at2, K2 : at2 = Keeping(at, i) /\ K2 = {x \in K : at[x].own # i}
  OBVIOUS
<1>3. /\ \A x \in DOMAIN at2 : x \in DOMAIN at /\ at2[x] = at[x]
      /\ \A x \in DOMAIN at : at[x].own # i => x \in DOMAIN at2
  BY <1>2 DEF Keeping
<1>4. self' = i
  <2>1. ino[i] \in InodeRecord /\ ino[i].inum = i
    BY TypeParts DEF InodesType, IsInode
  <2> QED
    BY <1>1, <2>1 DEF self, AfterRelease, InodeRecord
<1>5. InUse' /\ KeepsFiles(at, K, at2, K2)
  BY <1>1, <1>2, <1>3, <1>4, KeptParts DEF InUse, KeepsFiles
<1>6. Kept(at2, g, K2, N)'
  BY <1>1, <1>5, KeptQuiet
<1> QED
  BY <1>2, <1>6

LEMMA KeptUndoIndirect ==
    ASSUME TypeInv, NEW at, NEW g, NEW K, NEW N, Placed(at), Kept(at, g, K, N), UndoIndirect,
           NEW at2, at2 = IF frames[Depth].new THEN Without(at, frames[Depth].target) ELSE at
    PROVE  Kept(at2, g, K, N)'
<1>1. pc = "undo" /\ Depth > 1 /\ pc' = "undo" /\ UNCHANGED <<ino, linked, owned>> /\ pc \in Working
  BY DEF UndoIndirect, Working
<1>2. CASE ~frames[Depth].new
  <2>1. UNCHANGED content
    BY <1>2 DEF UndoIndirect, pool
  <2> QED
    BY <1>1, <1>2, <2>1, KeptStill
<1>3. CASE frames[Depth].new
  <2>1. PICK b : b = frames[Depth].target
    OBVIOUS
  <2>2. /\ at2 = Without(at, b) /\ Pool!Release(b) /\ DOMAIN at \subseteq DOMAIN content
        /\ Stacked(at) /\ NewUnnamed(at) /\ Forest(at)
    BY <1>3, <2>1 DEF UndoIndirect, Placed, Forest
  <2>3. Unnamed(at, b)
    <3>1. Depth \in 2 .. Len(frames)
      BY <1>1, <2>2, WorkingIs
    <3> QED
      BY <1>1, <1>3, <2>1, <2>2, <3>1 DEF NewUnnamed
  <2>4. ASSUME NEW x \in K PROVE x # b
    <3> SUFFICES ASSUME x = b PROVE FALSE
      OBVIOUS
    <3>1. x \in DOMAIN at /\ Hangs(at, x) /\ OnDisk(at, x)
      BY DEF Kept, Rooted
    <3>2. x \in Range(DiskArray(at, x))
      BY <3>1 DEF OnDisk, Has, Range
    <3>3. CASE at[x].up = NoBlock
      <4>1. at[x].lvl \in Levels
        BY <2>2, <3>1 DEF Forest, Spots
      <4> QED
        BY <2>3, <3>1, <3>2, <3>3, <4>1 DEF Unnamed, DiskArray, Hangs
    <3>4. CASE at[x].up # NoBlock
      <4>1. at[at[x].up].lvl = at[x].lvl + 1 /\ at[x].up \in DOMAIN at
        BY <3>1, <3>4 DEF Hangs
      <4>2. at[x].lvl \in Nat
        BY <2>2, <3>1 DEF Forest, Spots, Levels
      <4>3. at[at[x].up].lvl > 0
        BY <4>1, <4>2
      <4> QED
        BY <2>3, <3>2, <3>4, <4>1, <4>3 DEF Unnamed, DiskArray
    <3> QED
      BY <3>3, <3>4
  <2>5. /\ \A x \in DOMAIN at2 : x \in DOMAIN at /\ at2[x] = at[x] /\ x # b
        /\ \A x \in DOMAIN at : x # b => x \in DOMAIN at2
    BY <2>2 DEF Without
  <2>6. \A x \in DOMAIN at2 : content'[x] = content[x]
    BY <2>2, <2>5, ReleaseType, TypeParts
  <2>7. InUse' /\ KeepsFiles(at, K, at2, K)
    BY <1>1, <2>4, <2>5, <2>6, KeptParts DEF InUse, KeepsFiles
  <2> QED
    BY <1>1, <2>7, KeptQuiet
<1> QED
  BY <1>2, <1>3

(* The blocks above a data block of K, up to one that the inode names.     *)
LEMMA NumberInArray ==
    ASSUME NEW k \in Levels, NEW n \in Nat, NEW a, DOMAIN a = 1 .. n, NEW s \in DOMAIN a,
           a[s] # NoBlock, NEW g, NEW B \in Nat, Numbers(g, a, k, B)
    PROVE  g[a[s]] + Span(k) <= B + n * Span(k)
<1>1. PICK S \in Nat : S = Span(k) /\ S >= 1
  BY LimitsAre
<1>2. s - 1 \in Int /\ n \in Int /\ s - 1 < n
  OBVIOUS
<1>3. (s - 1) * S + S <= n * S /\ (s - 1) * S \in Int /\ n * S \in Int
  BY <1>1, <1>2, MulLess
<1>4. g[a[s]] = B + (s - 1) * S
  BY <1>1 DEF Numbers
<1> QED
  BY <1>1, <1>3, <1>4

LEMMA OneUp ==
    ASSUME PoolType, NEW at, NEW g, Forest(at), Numbered(at, g), NEW K, Rooted(at, K),
           NEW x \in K, NEW i, NEW k \in Levels, NEW y, NEW p, p # NoBlock,
           IsUnder(at, g, K, x, y, k, i, p)
    PROVE  k + 1 \in Levels /\ \E q : IsUnder(at, g, K, x, p, k + 1, i, q)
<1>1. /\ y \in K /\ at[y].own = i /\ at[y].lvl = k /\ at[y].up = p /\ g[x] < g[y] + Span(k)
  BY DEF IsUnder
<1>2. y \in DOMAIN at /\ OnDisk(at, y) /\ p \in K /\ p \in DOMAIN at /\ at[p].own = i /\ at[p].lvl = k + 1
  BY <1>1 DEF Rooted, Hangs
<1>3. AreSpots(at) /\ at[p] \in Spots
  BY <1>2, ForestSpots DEF AreSpots
<1>4. k + 1 \in Levels /\ k \in 0 .. 2
  BY <1>2, <1>3 DEF Spots, Levels
<1>5. Has(content[p], at, y)
  BY <1>1, <1>2 DEF OnDisk, DiskArray
<1>6. y \in Blocks /\ y # NoBlock /\ p \in Blocks /\ x \in Blocks
  BY <1>2, <1>3, Layout DEF AreSpots, Rooted
<1>7. g \in [Blocks -> Nat] /\ DiskNumbers(at, g)
  BY DEF Numbered
<1>8. PICK a, s : a = content[p] /\ s = at[y].idx
  OBVIOUS
<1>9. DOMAIN a = 1 .. BPI /\ BPI \in Nat
  <2>1. p \in DOMAIN content
    BY <1>2 DEF Forest
  <2> QED
    BY <1>8, <2>1, Layout DEF PoolType, Array
<1>10. Numbers(g, a, k, g[p]) /\ s \in DOMAIN a /\ a[s] = y
  <2>1. (k + 1) - 1 = k /\ k + 1 > 0
    BY <1>4
  <2>2. Numbers(g, content[p], at[p].lvl - 1, g[p])
    BY <1>2, <1>7, <2>1 DEF DiskNumbers
  <2> QED
    BY <1>2, <1>5, <1>8, <2>1, <2>2 DEF Has
<1>11. g[y] + Span(k) <= g[p] + BPI * Span(k)
  <2>1. g[p] \in Nat
    BY <1>6, <1>7
  <2> QED
    BY <1>6, <1>9, <1>10, <2>1, NumberInArray
<1>12. Span(k + 1) = BPI * Span(k) /\ Span(k) \in Nat /\ Span(k + 1) \in Nat
  <2>1. Span(k + 1) = BPI * Span(k)
    <3>1. k = 0 \/ k = 1 \/ k = 2
      BY <1>4
    <3> QED
      BY <1>9, <3>1 DEF Span
  <2> QED
    BY <1>4, <2>1, LimitsAre
<1>13. g[x] < g[p] + Span(k + 1)
  <2>1. g[x] \in Nat /\ g[y] \in Nat /\ g[p] \in Nat
    BY <1>6, <1>7
  <2> QED
    BY <1>1, <1>11, <1>12, <2>1
<1>14. IsUnder(at, g, K, x, p, k + 1, i, at[p].up)
  BY <1>2, <1>13 DEF IsUnder
<1> QED
  BY <1>4, <1>14

Climbs(at, g, K, x, k) ==
    \/ Ancestor(at, x, k) = NoBlock
    \/ \E p : IsUnder(at, g, K, x, Ancestor(at, x, k), k, at[x].own, p)

LEMMA ClimbAll ==
    ASSUME PoolType, NEW at, NEW g, Forest(at), Numbered(at, g), NEW K, Rooted(at, K),
           NEW x \in K, at[x].lvl = 0
    PROVE  \A k \in Levels : Climbs(at, g, K, x, k)
<1>1. NoBlock \notin DOMAIN at
  BY ForestSpots, Layout DEF AreSpots
<1>2. Climbs(at, g, K, x, 0)
  <2>1. Ancestor(at, x, 0) = x /\ x \in Blocks /\ g \in [Blocks -> Nat] /\ Span(0) = 1
    BY AncestorNext, ForestSpots DEF AreSpots, Rooted, Numbered, Span
  <2>2. IsUnder(at, g, K, x, x, 0, at[x].own, at[x].up)
    BY <2>1 DEF IsUnder
  <2> QED
    BY <2>1, <2>2 DEF Climbs
<1>3. ASSUME NEW k \in 0 .. 2, Climbs(at, g, K, x, k) PROVE Climbs(at, g, K, x, k + 1)
  <2>1. PICK y, z : y = Ancestor(at, x, k) /\ z = Ancestor(at, x, k + 1)
    OBVIOUS
  <2>2. z = Above(at, y)
    BY <2>1, AncestorNext
  <2>3. CASE y = NoBlock
    <3>1. z = NoBlock
      BY <1>1, <2>2, <2>3 DEF Above
    <3> QED
      BY <2>1, <3>1 DEF Climbs
  <2>4. CASE y # NoBlock
    <3>1. PICK p, i : i = at[x].own /\ IsUnder(at, g, K, x, y, k, i, p)
      BY <1>3, <2>1, <2>4 DEF Climbs
    <3>2. z = p
      <4>1. y \in DOMAIN at /\ at[y].up = p
        BY <3>1 DEF IsUnder, Rooted
      <4> QED
        BY <2>2, <4>1 DEF Above
    <3>3. CASE p = NoBlock
      BY <2>1, <3>2, <3>3 DEF Climbs
    <3>4. CASE p # NoBlock
      <4>1. k \in Levels
        BY DEF Levels
      <4>2. PICK q : IsUnder(at, g, K, x, p, k + 1, i, q)
        BY <3>1, <3>4, <4>1, OneUp
      <4> QED
        BY <2>1, <3>1, <3>2, <4>2 DEF Climbs
    <3> QED
      BY <3>3, <3>4
  <2> QED
    BY <2>3, <2>4
<1>4. Climbs(at, g, K, x, 1)
  <2>1. 0 \in 0 .. 2 /\ 0 + 1 = 1
    OBVIOUS
  <2> QED
    BY <1>2, <1>3, <2>1
<1>5. Climbs(at, g, K, x, 2)
  <2>1. 1 \in 0 .. 2 /\ 1 + 1 = 2
    OBVIOUS
  <2> QED
    BY <1>3, <1>4, <2>1
<1>6. Climbs(at, g, K, x, 3)
  <2>1. 2 \in 0 .. 2 /\ 2 + 1 = 3
    OBVIOUS
  <2> QED
    BY <1>3, <1>5, <2>1
<1> QED
  BY <1>2, <1>4, <1>5, <1>6 DEF Levels

(* It is in an array of the inode, and in one of each level below that.    *)
LEMMA ClimbEnds ==
    ASSUME PoolType, NEW at, NEW g, Forest(at), Numbered(at, g), NEW K, Rooted(at, K),
           NEW x \in K, at[x].lvl = 0
    PROVE  \E k \in Levels : IsUnder(at, g, K, x, Ancestor(at, x, k), k, at[x].own, NoBlock)
<1> DEFINE A(k) == Ancestor(at, x, k)
<1>1. PICK i : i = at[x].own
  OBVIOUS
<1>2. \A k \in Levels : A(k) = NoBlock \/ \E p : IsUnder(at, g, K, x, A(k), k, i, p)
  BY <1>1, ClimbAll DEF Climbs
<1>3. A(0) # NoBlock
  <2>1. A(0) = x /\ x \in Blocks
    BY AncestorNext, ForestSpots DEF AreSpots, Rooted
  <2> QED
    BY <2>1, Layout
<1>4. \A k \in 0 .. 2 : A(k + 1) = Above(at, A(k))
  BY AncestorNext
<1> HIDE DEF A
<1> SUFFICES ASSUME \A k \in Levels : ~IsUnder(at, g, K, x, A(k), k, i, NoBlock) PROVE FALSE
  BY <1>1 DEF A
<1>5. ASSUME NEW k \in Levels, A(k) # NoBlock PROVE k + 1 \in Levels /\ A(k + 1) # NoBlock
  <2>1. PICK p : IsUnder(at, g, K, x, A(k), k, i, p)
    BY <1>2, <1>5
  <2>2. p # NoBlock
    BY <2>1
  <2>3. PICK y : y = A(k)
    OBVIOUS
  <2>4. k + 1 \in Levels
    BY <2>1, <2>2, <2>3, OneUp
  <2>5. Above(at, A(k)) = p
    BY <2>1 DEF IsUnder, Rooted, Above
  <2>6. k \in 0 .. 2
    BY <2>4 DEF Levels
  <2> QED
    BY <1>4, <2>2, <2>4, <2>5, <2>6
<1>6. A(1) # NoBlock
  BY <1>3, <1>5, 0 \in Levels, 0 + 1 = 1 DEF Levels
<1>7. A(2) # NoBlock
  BY <1>5, <1>6, 1 \in Levels, 1 + 1 = 2 DEF Levels
<1>8. A(3) # NoBlock
  BY <1>5, <1>7, 2 \in Levels, 2 + 1 = 3 DEF Levels
<1>9. 3 + 1 \in Levels
  BY <1>5, <1>8, 3 \in Levels DEF Levels
<1> QED
  BY <1>9 DEF Levels

LEMMA ClimbDown ==
    ASSUME PoolType, NEW at, NEW g, Forest(at), Numbered(at, g), NEW K, Rooted(at, K),
           NEW x \in K, at[x].lvl = 0, NEW k \in 0 .. 2, NEW i, NEW p,
           IsUnder(at, g, K, x, Ancestor(at, x, k + 1), k + 1, i, p)
    PROVE  IsUnder(at, g, K, x, Ancestor(at, x, k), k, i, Ancestor(at, x, k + 1))
<1>1. PICK y, z : y = Ancestor(at, x, k) /\ z = Ancestor(at, x, k + 1)
  OBVIOUS
<1>2. z = Above(at, y) /\ k \in Levels
  BY <1>1, AncestorNext DEF Levels
<1>3. z \in DOMAIN at /\ NoBlock \notin DOMAIN at /\ at[z].own = i
  BY <1>1, ForestSpots, Layout DEF AreSpots, Rooted, IsUnder
<1>4. y \in DOMAIN at /\ y # NoBlock
  BY <1>2, <1>3 DEF Above
<1>5. PICK q, j : j = at[x].own /\ IsUnder(at, g, K, x, y, k, j, q)
  BY <1>1, <1>2, <1>4, ClimbAll DEF Climbs
<1>6. q = z
  BY <1>2, <1>4, <1>5 DEF IsUnder, Above
<1>7. j = i
  <2>1. Hangs(at, y) /\ at[y].own = j /\ at[y].up = z
    BY <1>5, <1>6 DEF IsUnder, Rooted
  <2> QED
    BY <1>3, <2>1 DEF Hangs
<1> QED
  BY <1>1, <1>5, <1>6, <1>7

(* Steps that add a place to those there are.                              *)
GrowsTo(at, g, at2, g2) ==
    /\ UNCHANGED <<ino, linked, owned>> /\ Agree(at, g, g2)
    /\ \A x \in DOMAIN at : x \in DOMAIN at2 /\ at2[x] = at[x] /\ content'[x] = content[x]

LEMMA KeptGrows ==
    ASSUME NEW at, NEW g, NEW K, NEW N, Kept(at, g, K, N),
           NEW at2, NEW g2, GrowsTo(at, g, at2, g2)
    PROVE  /\ Rooted(at2, K)' /\ LevelsUsed' /\ owned' \in [Inodes -> Seq(Refs)]
           /\ \A i \in linked' : InOrder(at2, g2, K, i)'
<1>1. /\ Rooted(at, K) /\ LevelsUsed /\ owned \in [Inodes -> Seq(Refs)]
      /\ \A i \in linked : InOrder(at, g, K, i)
  BY DEF Kept
<1>2. ASSUME NEW x \in K
      PROVE  /\ x \in DOMAIN at2 /\ Hangs(at2, x)' /\ OnDisk(at2, x)'
             /\ at2[x].up # NoBlock => at2[x].up \in K
  <2>1. /\ x \in DOMAIN at /\ at2[x] = at[x] /\ Hangs(at, x) /\ OnDisk(at, x)
        /\ at[x].up # NoBlock => at[x].up \in K
    BY <1>1 DEF Rooted, GrowsTo
  <2>2. at[x].up # NoBlock => /\ at[x].up \in DOMAIN at2 /\ at2[at[x].up] = at[at[x].up]
                              /\ content'[at[x].up] = content[at[x].up]
    BY <2>1 DEF Hangs, GrowsTo
  <2>3. Hangs(at2, x)'
    BY <2>1, <2>2 DEF Hangs, GrowsTo
  <2>4. OnDisk(at2, x)'
    BY <2>1, <2>2, OnDiskKept DEF GrowsTo
  <2> QED
    BY <2>1, <2>3, <2>4 DEF GrowsTo
<1>3. ASSUME NEW i \in linked' PROVE InOrder(at2, g2, K, i)'
  <2>1. owned'[i] = owned[i] /\ InOrder(at, g, K, i)
    BY <1>1 DEF GrowsTo
  <2>2. ASSUME NEW n \in DOMAIN owned[i]
        PROVE  /\ owned[i][n] \in K /\ DataOf(at2, i, owned[i][n])
               /\ g2[owned[i][n]] = g[owned[i][n]]
    <3>1. owned[i][n] \in K /\ DataOf(at, i, owned[i][n]) /\ owned[i][n] \in DOMAIN at
      BY <1>1, <2>1 DEF InOrder, Rooted
    <3> QED
      BY <3>1 DEF GrowsTo, DataOf, Agree
  <2> QED
    BY <2>1, <2>2 DEF InOrder, DataOf
<1>4. LevelsUsed'
  BY <1>1 DEF LevelsUsed, GrowsTo
<1> QED
  BY <1>1, <1>2, <1>3, <1>4 DEF Rooted, GrowsTo

LEMMA GrowsSame ==
    ASSUME NEW at, NEW g, UNCHANGED <<ino, linked, owned, content>>
    PROVE  GrowsTo(at, g, at, g)
  BY DEF GrowsTo, Agree

LEMMA KeptCreate ==
    ASSUME TypeInv, NEW at, NEW g, NEW K, NEW N, Placed(at), Kept(at, g, K, N),
           NEW i \in Inodes, Create(i)
    PROVE  Kept(at, g, K, N)'
<1>1. /\ Rooted(at, K) /\ LevelsUsed /\ Numbered(at, g) /\ InUse
      /\ owned \in [Inodes -> Seq(Refs)]
      /\ \A j \in linked : InOrder(at, g, K, j)
  BY DEF Kept
<1>2. Created(i)
  BY <1>1, CreateIs
<1>3. Numbered(at, g)'
  BY <1>1, <1>2, CreateNumbers DEF Numbered, Created
<1>4. Rooted(at, K)'
  <2> SUFFICES ASSUME NEW x \in K PROVE Hangs(at, x)' /\ OnDisk(at, x)'
    BY <1>1 DEF Rooted
  <2>1. Hangs(at, x) /\ OnDisk(at, x)
    BY <1>1 DEF Rooted
  <2>2. Hangs(at, x)'
    BY <1>2, <2>1 DEF Hangs, Created
  <2>3. at[x].own \in linked /\ ino'[at[x].own].blocks = ino[at[x].own].blocks
    BY <1>2, <2>1 DEF Hangs, Created
  <2>4. OnDisk(at, x)'
    BY <1>2, <2>1, <2>3, OnDiskKept DEF Created
  <2> QED
    BY <2>2, <2>4
<1>5. ASSUME NEW j \in linked' PROVE InOrder(at, g, K, j)'
  <2>1. CASE j = i
    <3>1. owned'[j] = <<>> /\ DOMAIN <<>> = {}
      BY <1>2, <2>1 DEF Created
    <3> QED
      BY <3>1 DEF InOrder
  <2>2. CASE j # i
    <3>1. owned'[j] = owned[j] /\ InOrder(at, g, K, j)
      BY <1>1, <1>2, <2>2 DEF Created
    <3> QED
      BY <3>1 DEF InOrder, DataOf
  <2> QED
    BY <2>1, <2>2
<1>6. LevelsUsed'
  <2> SUFFICES ASSUME NEW j \in linked', NEW k \in Levels, NEW s \in DOMAIN ino'[j].blocks[k],
                      ino'[j].blocks[k][s] # NoBlock
               PROVE  Limit(k) < ino'[j].n_blocks
    BY DEF LevelsUsed
  <2>1. j # i
    BY <1>2 DEF Created
  <2>2. j \in linked /\ ino'[j] = ino[j]
    BY <1>2, <2>1 DEF Created
  <2> QED
    BY <1>1, <2>2 DEF LevelsUsed
<1> QED
  BY <1>2, <1>3, <1>4, <1>5, <1>6 DEF Kept, Created

(* An allocation begins at the level that holds the next block: the data   *)
(* blocks of the levels above come before it, and those below hold none.   *)
LEMMA StartBehind ==
    ASSUME TypeInv, NEW at, NEW g, NEW K, Forest(at), Numbered(at, g), Rooted(at, K), LevelsUsed,
           NEW i \in linked, NEW n, n = ino[i].n_blocks, n < Limit(4),
           NEW t, t = LevelOf(n), NEW x \in K, DataOf(at, i, x)
    PROVE  g[x] < Limit(t) \/ IsUnder(at, g, K, x, Ancestor(at, x, t), t, i, NoBlock)
<1>1. n \in Nat /\ IsInode(ino[i])
  BY LimitsAre, TypeParts DEF InodesType, IsInode, InodeRecord
<1>2. t \in Levels /\ Limit(t) <= n /\ n < Limit(t + 1)
  BY <1>1, LevelIs
<1>3. PICK j \in Levels : IsUnder(at, g, K, x, Ancestor(at, x, j), j, i, NoBlock)
  BY TypeParts, ClimbEnds DEF DataOf
<1>4. PICK y, a, s : y = Ancestor(at, x, j) /\ a = ino[i].blocks[j] /\ s = at[y].idx
  OBVIOUS
<1>5. /\ y \in K /\ y \in DOMAIN at /\ at[y].own = i /\ at[y].lvl = j /\ at[y].up = NoBlock
      /\ g[x] < g[y] + Span(j) /\ OnDisk(at, y)
  BY <1>3, <1>4 DEF IsUnder, Rooted
<1>6. s \in DOMAIN a /\ a[s] = y
  BY <1>4, <1>5 DEF OnDisk, DiskArray, Has
<1>7. AreSpots(at) /\ NoBlock \notin Blocks
  BY TypeParts, ForestSpots, Layout
<1>8. a[s] # NoBlock /\ x \in Blocks /\ y \in Blocks
  BY <1>5, <1>6, <1>7 DEF AreSpots, Rooted
<1>9. CASE j = t
  BY <1>3, <1>9
<1>10. CASE j < t
  <2>1. g[y] + Span(j) <= Limit(j) + Pointers(j) * Span(j)
    <3>1. Pointers(j) \in Nat /\ DOMAIN a = 1 .. Pointers(j)
      BY <1>1, <1>4, Layout DEF IsInode
    <3>2. Numbers(g, a, j, Limit(j))
      BY <1>4 DEF Numbered, DiskNumbers
    <3>3. Limit(j) \in Nat
      <4>1. j \in 0 .. 4
        BY DEF Levels
      <4> QED
        BY <4>1, LimitsAre
    <3> QED
      BY <1>6, <1>8, <3>1, <3>2, <3>3, NumberInArray
  <2>2. Limit(j + 1) = Limit(j) + Pointers(j) * Span(j) /\ Limit(j + 1) <= Limit(t)
    BY <1>2, <1>10, LimitsAre, LimitMore
  <2>3. g[x] \in Nat /\ g[y] \in Nat /\ Span(j) \in Nat /\ Limit(t) \in Nat /\ Limit(j + 1) \in Nat
    <3>1. j + 1 \in 0 .. 4 /\ t \in 0 .. 4
      BY <1>2 DEF Levels
    <3> QED
      BY <1>8, <3>1, LimitsAre DEF Numbered
  <2> QED
    BY <1>5, <2>1, <2>2, <2>3
<1>11. CASE j > t
  <2>1. Limit(j) < n
    BY <1>4, <1>6, <1>8 DEF LevelsUsed
  <2>2. Limit(t + 1) <= Limit(j)
    BY <1>2, <1>11, LimitMore
  <2>3. Limit(j) \in Nat /\ Limit(t + 1) \in Nat
    <3>1. j \in 0 .. 4 /\ t + 1 \in 0 .. 4
      BY <1>2 DEF Levels
    <3> QED
      BY <3>1, LimitsAre
  <2> QED
    BY <1>1, <1>2, <2>1, <2>2, <2>3
<1> QED
  BY <1>2, <1>9, <1>10, <1>11 DEF Levels

LEMMA KeptAllocStart ==
    ASSUME TypeInv, TypeInv', NEW at, NEW g, NEW K, NEW N, Placed(at), Kept(at, g, K, N),
           NEW i \in Inodes, AllocStart(i)
    PROVE  Kept(at, g, K, N)'
<1>1. UNCHANGED <<ino, linked, content, owned>> /\ i \in linked /\ pc = "idle" /\ buf' = ino[i]
  BY DEF AllocStart, pool, Idle
<1>2. CASE ~(ino[i].n_blocks < Limit(4))
  <2>1. pc' = "idle"
    BY <1>1, <1>2 DEF AllocStart
  <2> QED
    BY <1>1, <2>1, KeptStill
<1>3. CASE ino[i].n_blocks < Limit(4)
  <2>1. PICK t, n : Started(i, t) /\ n = ino[i].n_blocks /\ t = LevelOf(n)
    BY <1>3, StartIs
  <2>2. /\ Rooted(at, K) /\ LevelsUsed /\ Numbered(at, g) /\ InUse /\ Forest(at)
    BY DEF Kept, Placed
  <2>3. /\ Rooted(at, K)' /\ LevelsUsed' /\ owned' \in [Inodes -> Seq(Refs)]
        /\ \A j \in linked' : InOrder(at, g, K, j)'
    BY <1>1, KeptGrows, GrowsSame
  <2>4. PICK fs : fs = frames'
    OBVIOUS
  <2>5. /\ pc' = "descend" /\ top' = t /\ t \in Levels /\ fs[1].target = NoBlock
        /\ fs[1].indblock = ino[i].blocks[t] /\ Len(fs) = 1 /\ Depth' = 1
    BY <2>1, <2>4 DEF Started, Depth
  <2>6. self' = i
    BY <1>1, TypeParts DEF self, InodesType
  <2>7. level' = t
    <3>1. t - (1 - 1) = t
      BY <2>5 DEF Levels
    <3> QED
      BY <2>5, <3>1 DEF level
  <2>8. Numbered(at, g)'
    <3>1. DiskNumbers(at, g)
      BY <2>2 DEF Numbered
    <3>2. DiskNumbers(at, g)'
      BY <1>1, <3>1 DEF DiskNumbers
    <3>3. StackNumbers(g, frames, top)'
      BY <1>1, <2>1, <3>1, StartNumbers
    <3> QED
      BY <2>2, <3>2, <3>3 DEF Numbered
  <2>9. CoversDisk(frames, top, self)'
    <3>1. Covers(ino'[i].blocks[t], fs[1].indblock)
      BY <1>1, <2>5 DEF Covers
    <3>2. 2 .. Len(fs) = {}
      BY <2>5
    <3> QED
      BY <2>4, <2>5, <2>6, <3>1, <3>2 DEF CoversDisk
  <2>10. (Limit(top) <= buf.n_blocks)'
    <3>1. n \in Nat
      BY <2>1, LimitsAre, TypeParts DEF InodesType, IsInode, InodeRecord
    <3>2. Limit(t) <= n
      BY <1>3, <2>1, <3>1, LevelIs
    <3> QED
      BY <1>1, <2>1, <2>5, <3>2
  <2>11. AllBehind(at, g, K)'
    <3> SUFFICES ASSUME NEW x \in K, DataOf(at, i, x) PROVE Behind(at, g, K, x)'
      BY <2>6 DEF AllBehind, DataOf
    <3>1. g[x] < Limit(t) \/ IsUnder(at, g, K, x, Ancestor(at, x, t), t, i, NoBlock)
      BY <1>1, <1>3, <2>1, <2>2, StartBehind
    <3>2. Base(g, frames, top, Depth)' = Limit(t)
      BY <2>5 DEF Base
    <3> QED
      BY <2>4, <2>5, <2>6, <2>7, <3>1, <3>2 DEF Behind
  <2>12. InUse'
    BY <1>1, <2>2, <2>5 DEF InUse
  <2> QED
    BY <2>3, <2>5, <2>8, <2>9, <2>10, <2>11, <2>12 DEF Kept
<1> QED
  BY <1>2, <1>3

(* The slot, in the array that a running allocation has come to, of a      *)
(* block that the disk has in it.                                          *)
SlotAt(g, y, s) == /\ s \in 1 .. first_unused /\ blocks[s] = y
                   /\ g[y] = Base(g, frames, top, Depth) + (s - 1) * Span(level)
LEMMA CoveredSlot ==
    ASSUME TypeInv, NEW at, NEW g, Placed(at), Numbered(at, g), pc = "descend",
           CoversDisk(frames, top, self), NEW K, Rooted(at, K),
           NEW y \in K, at[y].own = self, at[y].lvl = level, at[y].up = frames[Depth].target
    PROVE  \E s : SlotAt(g, y, s)
<1>1. pc \in Working /\ Stacked(at) /\ PoolType /\ Forest(at)
  BY TypeParts DEF Working, Placed
<1>2. PICK fs, t, D, i, k, s : /\ fs = frames /\ t = top /\ D = Depth /\ i = self /\ k = level
                               /\ s = at[y].idx
  OBVIOUS
<1>3. /\ t \in Levels /\ IsStack(fs, t) /\ StackRight(at, fs, t, i)
      /\ D \in 1 .. Len(fs) /\ D \in Nat /\ k = t - (D - 1) /\ k \in Levels
      /\ blocks = fs[D].indblock /\ first_unused \in Nat
      /\ \A j \in 1 .. Width(t, D) : blocks[j] = NoBlock <=> j > first_unused
  BY <1>1, <1>2, WorkingIs
<1>4. y \in DOMAIN at /\ Hangs(at, y) /\ OnDisk(at, y) /\ y \in Blocks /\ y # NoBlock
  <2>1. AreSpots(at) /\ NoBlock \notin Blocks
    BY <1>1, ForestSpots, Layout
  <2> QED
    BY <2>1 DEF Rooted, AreSpots
<1>5. PICK c : c = DiskArray(at, y)
  OBVIOUS
<1>6. s \in DOMAIN c /\ c[s] = y
  BY <1>2, <1>4, <1>5 DEF OnDisk, Has
<1>7. Covers(c, fs[D].indblock)
  <2>1. CASE D = 1
    <3>1. fs[D].target = NoBlock /\ k = t
      BY <1>3, <2>1 DEF StackRight, Levels
    <3>2. c = ino[i].blocks[t]
      BY <1>2, <1>5, <3>1 DEF DiskArray
    <3> QED
      BY <1>2, <2>1, <3>2 DEF CoversDisk
  <2>2. CASE D # 1
    <3>1. D \in 2 .. Len(fs)
      BY <1>3, <2>2
    <3>2. IsTarget(at, fs, t, i, D)
      BY <1>3, <3>1, TargetIs
    <3>3. c = content[fs[D].target]
      BY <1>2, <1>5, <3>2 DEF DiskArray, IsTarget
    <3> QED
      BY <1>2, <3>1, <3>3 DEF CoversDisk
  <2> QED
    BY <2>1, <2>2
<1>8. s \in DOMAIN blocks /\ blocks[s] = y
  BY <1>3, <1>4, <1>6, <1>7 DEF Covers
<1>9. DOMAIN blocks = 1 .. Width(t, D) /\ Width(t, D) \in Nat
  BY <1>3, StackArray
<1>10. s \in 1 .. first_unused
  BY <1>3, <1>4, <1>8, <1>9
<1>11. Numbers(g, fs[D].indblock, t - (D - 1), Base(g, fs, t, D))
  BY <1>2, <1>3 DEF Numbered, StackNumbers
<1>12. g[y] = Base(g, fs, t, D) + (s - 1) * Span(k)
  BY <1>3, <1>4, <1>8, <1>11 DEF Numbers
<1>13. SlotAt(g, y, s)
  BY <1>2, <1>8, <1>10, <1>12 DEF SlotAt
<1> QED
  BY <1>13

(* So it comes before the next free slot.                                  *)
LEMMA SlotBefore ==
    ASSUME NEW g, NEW x, NEW y, NEW s, SlotAt(g, y, s), g[x] \in Nat, g[x] < g[y] + Span(level),
           level \in Levels, first_unused \in Nat, NEW m \in Nat, s <= m,
           Base(g, frames, top, Depth) \in Nat
    PROVE  g[x] < Base(g, frames, top, Depth) + m * Span(level)
<1>1. PICK S \in Nat, B \in Nat : S = Span(level) /\ S >= 1 /\ B = Base(g, frames, top, Depth)
  BY LimitsAre
<1>2. s \in Nat /\ s >= 1
  BY DEF SlotAt
<1>3. s - 1 \in Int /\ s - 1 < m /\ m \in Int
  BY <1>2
<1>4. (s - 1) * S + S <= m * S /\ (s - 1) * S \in Int /\ m * S \in Int
  BY <1>1, <1>3, MulLess
<1>5. g[y] = B + (s - 1) * S
  BY <1>1 DEF SlotAt
<1> QED
  BY <1>1, <1>4, <1>5

LEMMA DescentIs ==
    ASSUME TypeInv, NEW at, NEW g, Placed(at), Numbered(at, g), pc = "descend"
    PROVE  /\ pc \in Working /\ top \in Levels /\ level \in Levels /\ first_unused \in Nat
           /\ Depth \in Nat /\ Depth >= 1 /\ Depth = Len(frames) /\ level = top - (Depth - 1)
           /\ Base(g, frames, top, Depth) \in Nat /\ Span(level) \in Nat /\ Span(level) >= 1
           /\ self \in linked /\ self \in Inodes /\ DOMAIN at \subseteq Blocks
           /\ g \in [Blocks -> Nat]
<1>1. pc \in Working
  BY DEF Working
<1>2. PICK fs, t, D, i, k : fs = frames /\ t = top /\ D = Depth /\ i = self /\ k = level
  OBVIOUS
<1>3. /\ t \in Levels /\ IsStack(fs, t) /\ StackRight(at, fs, t, i) /\ D \in 1 .. Len(fs)
      /\ k \in Levels /\ first_unused \in Nat /\ D = Len(fs) /\ k = t - (D - 1) /\ D \in Nat
      /\ i \in linked /\ i \in Inodes
  BY <1>1, <1>2, WorkingIs DEF Placed
<1>4. DOMAIN at \subseteq Blocks /\ g \in [Blocks -> Nat]
  BY TypeParts DEF Placed, Forest, PoolType, Numbered
<1>5. Base(g, fs, t, D) \in Nat
  BY <1>3, <1>4, BaseNat
<1>6. Span(k) \in Nat /\ Span(k) >= 1
  BY <1>3, LimitsAre
<1> QED
  BY <1>1, <1>2, <1>3, <1>4, <1>5, <1>6

LEMMA BehindNext ==
    ASSUME TypeInv, NEW at, NEW g, NEW K, NEW N, Placed(at), Kept(at, g, K, N), pc = "descend",
           NEW x \in K, DataOf(at, self, x)
    PROVE  g[x] < NextNumber(g)
<1>1. /\ Rooted(at, K) /\ Numbered(at, g) /\ CoversDisk(frames, top, self) /\ Behind(at, g, K, x)
  BY DEF Kept, AllBehind
<1>2. PICK B \in Nat, S \in Nat, m \in Nat :
          B = Base(g, frames, top, Depth) /\ S = Span(level) /\ m = first_unused
  BY <1>1, DescentIs
<1>3. g[x] \in Nat /\ level \in Levels
  BY <1>1, DescentIs DEF Rooted
<1>4. NextNumber(g) = B + m * S /\ m * S \in Nat
  BY <1>2, MulNat DEF NextNumber
<1>5. CASE g[x] < Base(g, frames, top, Depth)
  BY <1>2, <1>3, <1>4, <1>5
<1>6. CASE ~(g[x] < Base(g, frames, top, Depth))
  <2>1. PICK y : IsUnder(at, g, K, x, y, level, self, frames[Depth].target)
    BY <1>1, <1>6 DEF Behind
  <2>2. /\ y \in K /\ at[y].own = self /\ at[y].lvl = level /\ at[y].up = frames[Depth].target
        /\ g[x] < g[y] + Span(level)
    BY <2>1 DEF IsUnder
  <2>3. PICK s : SlotAt(g, y, s)
    BY <1>1, <2>2, CoveredSlot
  <2>4. s <= m
    BY <1>2, <2>3 DEF SlotAt
  <2>5. g[x] < Base(g, frames, top, Depth) + m * Span(level)
    BY <1>2, <1>3, <2>2, <2>3, <2>4, SlotBefore
  <2> QED
    BY <1>2, <1>4, <2>5
<1> QED
  BY <1>5, <1>6

(* A descent to the last entry of an array.                                *)
LEMMA EnteredBehind ==
    ASSUME TypeInv, NEW at, NEW g, NEW K, NEW N, Placed(at), Kept(at, g, K, N), pc = "descend",
           level > 0, NEW b, Enters(at, b), NEW x \in K, DataOf(at, self, x)
    PROVE  g[x] < g[b] \/ IsUnder(at, g, K, x, Ancestor(at, x, level - 1), level - 1, self, b)
<1>1. /\ Rooted(at, K) /\ Numbered(at, g) /\ CoversDisk(frames, top, self) /\ Behind(at, g, K, x)
  BY DEF Kept, AllBehind
<1>2. pc \in Working /\ Forest(at) /\ Stacked(at) /\ PoolType
  BY TypeParts DEF Working, Placed
<1>3. PICK B \in Nat, S \in Nat, m \in Nat, k \in Levels :
          /\ B = Base(g, frames, top, Depth) /\ S = Span(level) /\ m = first_unused /\ k = level
  BY <1>1, DescentIs
<1>4. g[x] \in Nat /\ x \in DOMAIN at /\ b \in DOMAIN at /\ at[b].up = frames[Depth].target
  BY <1>1, DescentIs DEF Rooted, Enters, Spot
<1>5. /\ m >= 1 /\ blocks[m] = b /\ g[b] = B + (m - 1) * S
  <2>1. PICK fs, t, D, i : fs = frames /\ t = top /\ D = Depth /\ i = self
    OBVIOUS
  <2>2. /\ t \in Levels /\ IsStack(fs, t) /\ StackRight(at, fs, t, i) /\ D \in 1 .. Len(fs)
        /\ k = t - (D - 1) /\ blocks = fs[D].indblock /\ Right(at, blocks, i, k, fs[D].target)
        /\ \A j \in 1 .. Width(t, D) : blocks[j] = NoBlock <=> j > m
    BY <1>2, <1>3, <2>1, WorkingIs
  <2>3. DOMAIN blocks = 1 .. Width(t, D) /\ Width(t, D) \in Nat
    BY <2>2, StackArray
  <2>4. PICK s : s = m
    OBVIOUS
  <2>5. at[b] = Spot(i, k, fs[D].target, s) /\ b = blocks[s] /\ s # 0
    BY <1>3, <2>1, <2>4 DEF Enters
  <2>6. s \in 1 .. Width(t, D) /\ b # NoBlock
    <3>1. first_unused \in 0 .. Width(top, Depth)
      BY <1>2, WorkingIs, StackIs
    <3>2. b # NoBlock
      BY <1>2, <1>4, ForestSpots, Layout DEF AreSpots
    <3> QED
      BY <1>3, <2>1, <2>3, <2>4, <2>5, <3>1, <3>2
  <2>7. Numbers(g, fs[D].indblock, k, Base(g, fs, t, D))
    <3>1. StackNumbers(g, fs, t)
      BY <1>1, <2>1 DEF Numbered
    <3> QED
      BY <2>2, <3>1 DEF StackNumbers
  <2>8. g[b] = B + (s - 1) * S
    <3>1. s \in DOMAIN blocks /\ blocks[s] # NoBlock
      BY <2>3, <2>5, <2>6
    <3>2. g[blocks[s]] = Base(g, fs, t, D) + (s - 1) * Span(k)
      BY <2>2, <2>7, <3>1 DEF Numbers
    <3>3. Base(g, fs, t, D) = B /\ Span(k) = S
      BY <1>3, <2>1
    <3> QED
      BY <2>5, <3>2, <3>3
  <2> QED
    BY <2>4, <2>5, <2>6, <2>8
<1>6. (m - 1) * S \in Nat
  <2>1. m - 1 \in Nat
    BY <1>5
  <2> QED
    BY <2>1, MulNat
<1>7. CASE g[x] < Base(g, frames, top, Depth)
  BY <1>3, <1>4, <1>5, <1>6, <1>7
<1>8. CASE ~(g[x] < Base(g, frames, top, Depth))
  <2>1. PICK y : y = Ancestor(at, x, level)
    OBVIOUS
  <2>2. IsUnder(at, g, K, x, y, level, self, frames[Depth].target)
    BY <1>1, <1>8, <2>1 DEF Behind
  <2>3. /\ y \in K /\ at[y].own = self /\ at[y].lvl = level /\ at[y].up = frames[Depth].target
        /\ g[x] < g[y] + Span(level)
    BY <2>2 DEF IsUnder
  <2>4. PICK s : SlotAt(g, y, s)
    BY <1>1, <2>3, CoveredSlot
  <2>5. s \in Nat /\ s <= m
    BY <1>3, <2>4 DEF SlotAt
  <2>6. CASE s = m
    <3>1. y = b
      BY <1>5, <2>4, <2>6 DEF SlotAt
    <3>2. PICK j : j = k - 1
      OBVIOUS
    <3>3. j \in 0 .. 2 /\ j + 1 = level /\ j = level - 1
      BY <1>3, <3>2 DEF Levels
    <3>4. IsUnder(at, g, K, x, Ancestor(at, x, j), j, self, Ancestor(at, x, j + 1))
      BY <1>1, <1>2, <2>1, <2>2, <3>3, ClimbDown DEF DataOf
    <3> QED
      BY <2>1, <3>1, <3>3, <3>4
  <2>7. CASE s # m
    <3>1. PICK n \in Nat : n = m - 1 /\ s <= n
      BY <2>5, <2>7
    <3>2. g[x] < Base(g, frames, top, Depth) + n * Span(level)
      BY <1>3, <1>4, <2>3, <2>4, <3>1, SlotBefore
    <3> QED
      BY <1>3, <1>5, <3>1, <3>2
  <2> QED
    BY <2>6, <2>7
<1> QED
  BY <1>7, <1>8

(* Arrays with more in them cover as much, and an array more is covered.   *)
StillCovers(fs, gs, m) ==
    \A d \in 1 .. m : gs[d].target = fs[d].target /\ Covers(fs[d].indblock, gs[d].indblock)
TargetsKept(fs, m) == \A d \in 2 .. m : content'[fs[d].target] = content[fs[d].target]
LEMMA CoversPush ==
    ASSUME NEW fs, NEW t, NEW i, CoversDisk(fs, t, i), NEW gs, NEW m \in Nat, m >= 1, Len(fs) = m,
           Len(gs) = m + 1, StillCovers(fs, gs, m), ino' = ino, TargetsKept(fs, m),
           Covers(content'[gs[m + 1].target], gs[m + 1].indblock)
    PROVE  /\ Covers(ino'[i].blocks[t], gs[1].indblock)
           /\ \A d \in 2 .. Len(gs) : Covers(content'[gs[d].target], gs[d].indblock)
<1>1. \A a, b, c : Covers(a, b) /\ Covers(b, c) => Covers(a, c)
  BY DEF Covers
<1>2. Covers(ino'[i].blocks[t], gs[1].indblock)
  <2>1. 1 \in 1 .. m
    OBVIOUS
  <2>2. Covers(ino[i].blocks[t], fs[1].indblock) /\ Covers(fs[1].indblock, gs[1].indblock)
    BY <2>1 DEF CoversDisk, StillCovers
  <2> QED
    BY <1>1, <2>2
<1>3. ASSUME NEW d \in 2 .. Len(gs) PROVE Covers(content'[gs[d].target], gs[d].indblock)
  <2>1. CASE d = m + 1
    BY <2>1
  <2>2. CASE d # m + 1
    <3>1. d \in 2 .. m /\ d \in 1 .. m
      BY <2>2
    <3>2. /\ Covers(content[fs[d].target], fs[d].indblock) /\ gs[d].target = fs[d].target
          /\ Covers(fs[d].indblock, gs[d].indblock)
      BY <3>1 DEF CoversDisk, StillCovers
    <3> QED
      BY <1>1, <3>1, <3>2 DEF TargetsKept
  <2> QED
    BY <2>1, <2>2
<1> QED
  BY <1>2, <1>3

LEMMA KeptOldIndirect ==
    ASSUME TypeInv, TypeInv', NEW at, NEW g, NEW K, NEW N, Placed(at), Kept(at, g, K, N),
           OldIndirect
    PROVE  Kept(at, g, K, N)'
<1>1. CASE first_unused = 0
  BY <1>1, KeptAway
<1>2. CASE first_unused # 0
  <2>1. pc = "descend" /\ level > 0
    BY <1>2, OldIndirectIs
  <2>2. PICK b : Enters(at, b)
    BY <1>2, OldIndirectIs
  <2>3. /\ Rooted(at, K) /\ Numbered(at, g) /\ CoversDisk(frames, top, self) /\ InUse
        /\ Limit(top) <= buf.n_blocks
    BY <2>1 DEF Kept
  <2>4. /\ UNCHANGED <<content, ino, linked, buf, top, owned>> /\ pc' = "descend" /\ self' = self
    BY <2>2 DEF Enters, self
  <2>5. /\ Rooted(at, K)' /\ LevelsUsed' /\ owned' \in [Inodes -> Seq(Refs)]
        /\ \A j \in linked' : InOrder(at, g, K, j)'
    BY <2>4, KeptGrows, GrowsSame
  <2>6. Numbered(at, g)'
    <3>1. DiskNumbers(at, g)'
      BY <2>3, <2>4 DEF Numbered, DiskNumbers
    <3>2. StackNumbers(g, frames, top)'
      BY <2>1, <2>2, <2>3, EntersNumbers
    <3> QED
      BY <2>3, <3>1, <3>2 DEF Numbered
  <2>7. /\ Depth \in Nat /\ Depth >= 1 /\ Depth = Len(frames) /\ level = top - (Depth - 1)
        /\ top \in Levels
    BY <2>1, <2>3, DescentIs
  <2>8. PICK fs, gs, t, D : fs = frames /\ gs = frames' /\ t = top /\ D = Depth
    OBVIOUS
  <2>9. /\ Len(gs) = D + 1 /\ gs[D + 1].target = b /\ gs[D + 1].indblock = content[b]
        /\ \A d \in 1 .. D : gs[d] = fs[d]
    BY <2>2, <2>8 DEF Enters
  <2>10. Depth' = D + 1 /\ level' = level - 1
    <3>1. Depth' = D + 1
      BY <2>8, <2>9 DEF Depth
    <3>2. level' = t - ((D + 1) - 1)
      BY <2>4, <2>8, <3>1 DEF level
    <3> QED
      BY <2>7, <2>8, <3>1, <3>2 DEF Levels
  <2>11. CoversDisk(frames, top, self)'
    <3>1. \A a : Covers(a, a)
      BY DEF Covers
    <3>2. PICK i : i = self
      OBVIOUS
    <3>3. /\ CoversDisk(fs, t, i) /\ Len(fs) = D /\ D \in Nat /\ D >= 1
      BY <2>3, <2>7, <2>8, <3>2
    <3>4. /\ Covers(ino'[i].blocks[t], gs[1].indblock)
          /\ \A d \in 2 .. Len(gs) : Covers(content'[gs[d].target], gs[d].indblock)
      <4>1. StillCovers(fs, gs, D)
        BY <2>9, <3>1 DEF StillCovers
      <4>2. TargetsKept(fs, D) /\ ino' = ino
        BY <2>4 DEF TargetsKept
      <4>3. Covers(content'[gs[D + 1].target], gs[D + 1].indblock)
        BY <2>4, <2>9, <3>1
      <4> QED
        BY <2>9, <3>3, <4>1, <4>2, <4>3, CoversPush
    <3> QED
      BY <2>4, <2>8, <3>2, <3>4 DEF CoversDisk
  <2>12. AllBehind(at, g, K)'
    <3> SUFFICES ASSUME NEW x \in K, DataOf(at, self, x) PROVE Behind(at, g, K, x)'
      BY <2>4 DEF AllBehind, DataOf
    <3>1. g[x] < g[b] \/ IsUnder(at, g, K, x, Ancestor(at, x, level - 1), level - 1, self, b)
      BY <2>1, <2>2, EnteredBehind
    <3>2. frames'[Depth'].target = b
      BY <2>8, <2>9, <2>10
    <3>3. Base(g, frames, top, Depth)' = g[b]
      <4>1. Depth' # 1
        BY <2>7, <2>8, <2>10
      <4> QED
        BY <3>2, <4>1 DEF Base
    <3> QED
      BY <2>4, <2>10, <3>1, <3>2, <3>3 DEF Behind
  <2>13. InUse' /\ (Limit(top) <= buf.n_blocks)'
    BY <2>3, <2>4 DEF InUse
  <2> QED
    BY <2>4, <2>5, <2>6, <2>11, <2>12, <2>13 DEF Kept
<1> QED
  BY <1>1, <1>2

(* What a store adds leaves the rest covered.                              *)
LEMMA StoredCovers ==
    ASSUME TypeInv, NEW at, Placed(at), pc = "descend", NEW b, NEW gs, StoresIn(gs, b)
    PROVE  /\ Len(gs) = Len(frames)
           /\ \A d \in 1 .. Len(frames) : /\ gs[d].target = frames[d].target
                                          /\ Covers(frames[d].indblock, gs[d].indblock)
<1>1. pc \in Working
  BY DEF Working
<1>2. PICK fs, D, a, c, W, m : /\ fs = frames /\ D = Depth /\ a = blocks /\ c = gs[D].indblock
                               /\ W = Width(top, D) /\ m = first_unused
  OBVIOUS
<1>3. /\ a = fs[D].indblock /\ m = Len(Entries(a)) /\ m \in Nat /\ D = Len(fs) /\ D \in Nat
      /\ a \in [1 .. W -> Refs]
      /\ \A s \in 1 .. W : a[s] = NoBlock <=> s > m
  BY <1>1, <1>2, WorkingIs DEF Placed
<1>4. /\ Len(gs) = D /\ \A d \in 1 .. D : gs[d].target = fs[d].target
      /\ \A d \in 1 .. D : d # D => gs[d] = fs[d]
      /\ c \in [1 .. W -> Refs]
      /\ \A s \in 1 .. W : c[s] = IF s = m + 1 THEN b ELSE a[s]
  BY <1>2, <1>3 DEF StoresIn
<1>5. W \in Nat
  <2>1. top \in Levels /\ IsStack(frames, top) /\ Depth \in 1 .. Len(frames)
    BY <1>1, WorkingIs DEF Placed
  <2> QED
    BY <1>2, <2>1, StackArray
<1>6. Covers(a, c)
  <2> SUFFICES ASSUME NEW s \in 1 .. W, a[s] # NoBlock PROVE s \in DOMAIN c /\ c[s] = a[s]
    BY <1>3 DEF Covers
  <2>1. s # m + 1
    BY <1>3, <1>5
  <2> QED
    BY <1>4, <2>1
<1>7. ASSUME NEW d \in 1 .. D PROVE Covers(fs[d].indblock, gs[d].indblock)
  <2>1. CASE d = D
    BY <1>2, <1>3, <1>6, <2>1
  <2>2. CASE d # D
    BY <1>4, <2>2 DEF Covers
  <2> QED
    BY <2>1, <2>2
<1> QED
  BY <1>2, <1>3, <1>4, <1>7

LEMMA StoreKeepsCover ==
    ASSUME TypeInv, NEW at, Placed(at), pc = "descend", NEW b \in Blocks, PoppedFor(at, b)
    PROVE  /\ StoresIn(Stored(b), b)
           /\ \A d \in 2 .. Len(frames) : content'[frames[d].target] = content[frames[d].target]
<1>1. pc \in Working
  BY DEF Working
<1>2. PICK fs, t, i : fs = frames /\ t = top /\ i = self
  OBVIOUS
<1>3. t \in Levels /\ IsStack(fs, t) /\ StackRight(at, fs, t, i)
  BY <1>1, <1>2, WorkingIs DEF Placed
<1>4. \A d \in 2 .. Len(fs) : fs[d].target \in DOMAIN at
  BY <1>3, TargetIs DEF IsTarget
<1> QED
  BY <1>2, <1>4, StoreIs DEF PoppedFor

LEMMA KeptNewIndirect ==
    ASSUME TypeInv, NEW at, NEW g, NEW K, NEW N, Placed(at), Kept(at, g, K, N), NewIndirect,
           NEW t2, NEW b, Digs(at, t2, b), first_unused < Len(blocks)
    PROVE  \E g2 : Kept(t2, g2, K, N)'
<1>1. /\ pc = "descend" /\ level > 0 /\ pc' = "descend" /\ self' = self
      /\ UNCHANGED <<ino, linked, buf, top, owned>>
  BY DEF NewIndirect, self
<1>2. /\ Rooted(at, K) /\ Numbered(at, g) /\ CoversDisk(frames, top, self) /\ InUse
      /\ Limit(top) <= buf.n_blocks
  BY <1>1 DEF Kept
<1>3. PICK g2 : Numbered(t2, g2)' /\ Renumbered(at, t2, g, g2, b)
  BY <1>2, NewIndirectNumbers
<1>4. /\ b \in Blocks /\ PoppedFor(at, b) /\ content'[b] = EmptyArray
      /\ frames' = Append(Stored(b), NewFrame(b))
      /\ \A x \in DOMAIN at : content'[x] = content[x]
  BY DEF Digs, PoppedFor
<1>5. GrowsTo(at, g, t2, g2)
  BY <1>1, <1>3, <1>4 DEF GrowsTo, Renumbered
<1>6. /\ Rooted(t2, K)' /\ LevelsUsed' /\ owned' \in [Inodes -> Seq(Refs)]
      /\ \A j \in linked' : InOrder(t2, g2, K, j)'
  BY <1>5, KeptGrows
<1>7. PICK fs, hs, gs, t, i : fs = frames /\ hs = Stored(b) /\ gs = frames' /\ t = top /\ i = self
  OBVIOUS
<1>8. /\ StoresIn(hs, b)
      /\ \A d \in 2 .. Len(fs) : content'[fs[d].target] = content[fs[d].target]
  BY <1>1, <1>4, <1>7, StoreKeepsCover
<1>9. /\ Len(hs) = Len(fs)
      /\ \A d \in 1 .. Len(fs) : hs[d].target = fs[d].target /\ Covers(fs[d].indblock, hs[d].indblock)
  BY <1>1, <1>7, <1>8, StoredCovers
<1>10. Depth \in Nat /\ Depth >= 1 /\ Depth = Len(fs)
  BY <1>1, <1>2, <1>7, DescentIs
<1>11. /\ Len(gs) = Len(fs) + 1 /\ \A d \in 1 .. Len(fs) : gs[d] = hs[d]
       /\ gs[Len(fs) + 1].target = b /\ gs[Len(fs) + 1].indblock = EmptyArray
  <2>1. hs \in Seq(Frame) /\ gs = Append(hs, NewFrame(b))
    BY <1>4, <1>7, <1>8 DEF StoresIn
  <2> QED
    BY <1>9, <1>10, <2>1 DEF NewFrame
<1>12. CoversDisk(frames, top, self)'
  <2>1. Covers(content'[b], EmptyArray)
    BY <1>4 DEF Covers
  <2>2. CoversDisk(fs, t, i)
    BY <1>2, <1>7
  <2>3. /\ Covers(ino'[i].blocks[t], gs[1].indblock)
        /\ \A d \in 2 .. Len(gs) : Covers(content'[gs[d].target], gs[d].indblock)
    <3>1. PICK m \in Nat : m >= 1 /\ m = Len(fs)
      BY <1>10
    <3>2. Len(gs) = m + 1
      BY <1>11, <3>1
    <3>3. StillCovers(fs, gs, m)
      BY <1>9, <1>11, <3>1 DEF StillCovers
    <3>4. TargetsKept(fs, m) /\ ino' = ino
      BY <1>1, <1>8, <3>1 DEF TargetsKept
    <3>5. Covers(content'[gs[m + 1].target], gs[m + 1].indblock)
      BY <1>11, <2>1, <3>1
    <3> QED
      BY <2>2, <3>1, <3>2, <3>3, <3>4, <3>5, CoversPush
  <2> QED
    BY <1>1, <1>7, <2>3 DEF CoversDisk
<1>13. AllBehind(t2, g2, K)'
  <2> SUFFICES ASSUME NEW x \in K, DataOf(t2, self, x) PROVE Behind(t2, g2, K, x)'
    BY <1>1 DEF AllBehind, DataOf
  <2>1. x \in DOMAIN at /\ t2[x] = at[x] /\ g2[x] = g[x]
    BY <1>2, <1>3 DEF Rooted, Renumbered, Agree
  <2>2. g[x] < NextNumber(g)
    BY <1>1, <2>1, BehindNext DEF DataOf
  <2>3. Base(g2, frames, top, Depth)' = g2[b]
    <3>1. Depth' = Len(fs) + 1 /\ Depth' # 1
      BY <1>7, <1>10, <1>11 DEF Depth
    <3> QED
      BY <1>7, <1>11, <3>1 DEF Base
  <2>4. g2[x] < Base(g2, frames, top, Depth)'
    BY <1>3, <2>1, <2>2, <2>3 DEF Renumbered
  <2> QED
    BY <2>4 DEF Behind
<1>14. InUse' /\ (Limit(top) <= buf.n_blocks)'
  BY <1>1, <1>2 DEF InUse
<1>15. Kept(t2, g2, K, N)'
  BY <1>1, <1>3, <1>6, <1>12, <1>13, <1>14 DEF Kept
<1> QED
  BY <1>15

(* The data block that was popped hangs in the array it is stored in.      *)
LEMMA NextHangs ==
    ASSUME TypeInv, NEW at, Placed(at), pc = "descend", UNCHANGED linked,
           NEW t2, NEW b, t2[b] = NextSpot, \A x \in DOMAIN at : x \in DOMAIN t2 /\ t2[x] = at[x]
    PROVE  t2[b].own = self /\ t2[b].lvl = level /\ t2[b].up = frames[Depth].target /\ Hangs(t2, b)'
<1>1. pc \in Working
  BY DEF Working
<1>2. PICK fs, t, D, i, k : fs = frames /\ t = top /\ D = Depth /\ i = self /\ k = level
  OBVIOUS
<1>3. /\ t \in Levels /\ IsStack(fs, t) /\ StackRight(at, fs, t, i) /\ i \in linked
      /\ D \in 1 .. Len(fs) /\ D \in Nat /\ k = t - (D - 1) /\ k \in Levels
  BY <1>1, <1>2, WorkingIs DEF Placed
<1>4. t2[b].own = i /\ t2[b].lvl = k /\ t2[b].up = fs[D].target
  BY <1>2 DEF NextSpot, Spot
<1>5. ASSUME fs[D].target # NoBlock
      PROVE  /\ fs[D].target \in DOMAIN t2
             /\ t2[fs[D].target].own = i /\ t2[fs[D].target].lvl = k + 1
  <2>1. D \in 2 .. Len(fs)
    <3>1. D # 1
      BY <1>3, <1>5 DEF StackRight
    <3> QED
      BY <1>3, <3>1
  <2>2. IsTarget(at, fs, t, i, D)
    BY <1>3, <2>1, TargetIs
  <2>3. fs[D].target \in DOMAIN at /\ at[fs[D].target].own = i /\ at[fs[D].target].lvl = t - (D - 2)
    BY <2>2 DEF IsTarget, Spot
  <2>4. t - (D - 2) = k + 1
    BY <1>3 DEF Levels
  <2> QED
    BY <2>3, <2>4
<1>6. Hangs(t2, b)'
  BY <1>3, <1>4, <1>5 DEF Hangs
<1> QED
  BY <1>2, <1>4, <1>6

LEMMA KeptNewDirect ==
    ASSUME TypeInv, NEW at, NEW g, NEW K, NEW N, Placed(at), Kept(at, g, K, N), NewDirect,
           NEW t2, NEW b, Fills(at, t2, b), first_unused < Len(blocks)
    PROVE  \E g2 : Kept(t2, g2, K, {b})'
<1>1. /\ pc = "descend" /\ level = 0 /\ pc' = "unwind" /\ self' = self
      /\ UNCHANGED <<ino, linked, buf, top, owned>>
  BY DEF NewDirect, self
<1>2. /\ Rooted(at, K) /\ Numbered(at, g) /\ CoversDisk(frames, top, self) /\ InUse
      /\ Limit(top) <= buf.n_blocks
      /\ \A i \in linked : InOrder(at, g, K, i)
  BY <1>1 DEF Kept
<1>3. PICK g2 : Numbered(t2, g2)' /\ Renumbered(at, t2, g, g2, b)
  BY <1>2, NewDirectNumbers
<1>4. /\ b \in Blocks /\ PoppedFor(at, b) /\ frames' = Stored(b) /\ cand' = b
      /\ \A x \in DOMAIN at : content'[x] = content[x]
  BY DEF Fills, PoppedFor
<1>5. GrowsTo(at, g, t2, g2)
  BY <1>1, <1>3, <1>4 DEF GrowsTo, Renumbered
<1>6. /\ Rooted(t2, K)' /\ LevelsUsed' /\ owned' \in [Inodes -> Seq(Refs)]
      /\ \A j \in linked' : InOrder(t2, g2, K, j)'
  BY <1>5, KeptGrows
<1>7. PICK fs, gs, t, i, D : /\ fs = frames /\ gs = frames' /\ gs = Stored(b) /\ t = top
                             /\ i = self /\ D = Depth
  BY <1>4
<1>8. /\ StoresIn(gs, b)
      /\ \A d \in 2 .. Len(fs) : content'[fs[d].target] = content[fs[d].target]
  BY <1>1, <1>4, <1>7, StoreKeepsCover
<1>9. /\ Len(gs) = Len(fs)
      /\ \A d \in 1 .. Len(fs) : gs[d].target = fs[d].target /\ Covers(fs[d].indblock, gs[d].indblock)
  BY <1>1, <1>7, <1>8, StoredCovers
<1>10. D \in Nat /\ D >= 1 /\ D = Len(fs) /\ i \in linked
  BY <1>1, <1>2, <1>7, DescentIs
<1>11. CoversDisk(frames, top, self)'
  <2>1. \A a, c, e : Covers(a, c) /\ Covers(c, e) => Covers(a, e)
    BY DEF Covers
  <2>2. CoversDisk(fs, t, i)
    BY <1>2, <1>7
  <2>3. Covers(ino[i].blocks[t], gs[1].indblock)
    <3>1. 1 \in 1 .. Len(fs)
      BY <1>10
    <3> QED
      BY <1>9, <2>1, <2>2, <3>1 DEF CoversDisk
  <2>4. ASSUME NEW d \in 2 .. Len(gs) PROVE Covers(content'[gs[d].target], gs[d].indblock)
    <3>1. d \in 2 .. Len(fs) /\ d \in 1 .. Len(fs)
      BY <1>9, <1>10
    <3> QED
      BY <1>8, <1>9, <2>1, <2>2, <3>1 DEF CoversDisk
  <2> QED
    BY <1>1, <1>7, <2>3, <2>4 DEF CoversDisk
<1>12. /\ t2[b].own = i /\ t2[b].lvl = 0 /\ t2[b].up = fs[D].target /\ Hangs(t2, b)'
       /\ b \in DOMAIN t2
  <2>1. t2[b] = NextSpot /\ b \in DOMAIN t2 /\ \A x \in DOMAIN at : x \in DOMAIN t2 /\ t2[x] = at[x]
    BY <1>3 DEF Renumbered
  <2> QED
    BY <1>1, <1>7, <2>1, NextHangs
<1>13. /\ Depth' = D /\ level' = 0 /\ blocks' = gs[D].indblock /\ frames'[Depth'].target = fs[D].target
  <2>1. Depth' = D
    BY <1>7, <1>9, <1>10 DEF Depth
  <2>2. level' = level
    BY <1>1, <1>7, <2>1 DEF level
  <2> QED
    BY <1>1, <1>7, <1>9, <1>10, <2>1, <2>2 DEF blocks
<1>14. Has(gs[D].indblock, t2, b)
  <2>1. PICK m, W : m = first_unused /\ W = Width(top, Depth)
    OBVIOUS
  <2>2. t2[b].idx = m + 1
    BY <1>3, <2>1 DEF Renumbered, NextSpot, Spot
  <2>3. m \in Nat /\ m < W /\ W \in Nat
    <3>1. pc \in Working /\ pc \in Allocating
      BY <1>1 DEF Working, Allocating
    <3>2. Len(blocks) = Width(top, Depth) /\ Width(top, Depth) \in Nat /\ first_unused \in Nat
      BY <3>1, StackIs
    <3> QED
      BY <2>1, <3>2
  <2>4. /\ gs[D].indblock \in [1 .. W -> Refs]
        /\ \A s \in 1 .. W : gs[D].indblock[s] = IF s = m + 1 THEN b ELSE blocks[s]
    BY <1>7, <1>8, <2>1 DEF StoresIn, first_unused
  <2>5. m + 1 \in 1 .. W
    BY <2>3
  <2> QED
    BY <2>2, <2>4, <2>5 DEF Has
<1>15. ASSUME NEW n \in DOMAIN owned[i] PROVE g2[owned[i][n]] < g2[b]
  <2>1. PICK x : x = owned[i][n]
    OBVIOUS
  <2>2. x \in K /\ DataOf(at, i, x) /\ x \in DOMAIN at
    BY <1>2, <1>10, <2>1 DEF InOrder, Rooted
  <2>3. g[x] < NextNumber(g)
    BY <1>1, <1>7, <2>2, BehindNext
  <2> QED
    BY <1>3, <2>1, <2>2, <2>3 DEF Renumbered, Agree
<1>16. Fresh(t2, g2, {b})'
  <2>1. Hanging(t2, {b}, b)'
    BY <1>12, <1>13, <1>14 DEF Hanging
  <2> QED
    BY <1>1, <1>4, <1>7, <1>12, <1>15, <2>1 DEF Fresh
<1>17. InUse' /\ (Limit(top) <= buf.n_blocks)'
  BY <1>1, <1>2 DEF InUse
<1>18. Kept(t2, g2, K, {b})'
  BY <1>1, <1>3, <1>6, <1>11, <1>16, <1>17 DEF Kept
<1> QED
  BY <1>18

(* An indirect block is written: all that was on disk in it still is.      *)
LEMMA OnDiskCovered ==
    ASSUME NEW at, NEW x, x # NoBlock, OnDisk(at, x), ino' = ino,
           at[x].up # NoBlock => Covers(content[at[x].up], content'[at[x].up])
    PROVE  OnDisk(at, x)'
<1>1. CASE at[x].up = NoBlock
  BY <1>1 DEF OnDisk, DiskArray
<1>2. CASE at[x].up # NoBlock
  <2>1. at[x].idx \in DOMAIN content[at[x].up] /\ content[at[x].up][at[x].idx] = x
    BY <1>2 DEF OnDisk, DiskArray, Has
  <2>2. at[x].idx \in DOMAIN content'[at[x].up] /\ content'[at[x].up][at[x].idx] = x
    BY <1>2, <2>1 DEF Covers
  <2> QED
    BY <1>2, <2>2 DEF OnDisk, DiskArray, Has
<1> QED
  BY <1>1, <1>2

(* The step: the block b takes the array of the last frame.                *)
Writes(b) ==
    /\ pc = "unwind" /\ pc' = "unwind" /\ UNCHANGED <<ino, linked, buf, top, cand, owned>>
    /\ Depth \in 2 .. Len(frames) /\ Depth = Len(frames) /\ b = frames[Depth].target
    /\ content'[b] = frames[Depth].indblock
    /\ \A c \in DOMAIN content : c # b => content'[c] = content[c]
    /\ Len(frames') = Depth - 1 /\ \A d \in 1 .. Depth - 1 : frames'[d] = frames[d]

LEMMA WriteIndirectIs ==
    ASSUME TypeInv, NEW at, Placed(at), WriteIndirect
    PROVE  \E b : Writes(b)
<1>1. /\ pc = "unwind" /\ pc' = "unwind" /\ Depth > 1 /\ pc \in Working
      /\ Pool!Write(frames[Depth].target, blocks) /\ frames' = Front(frames)
      /\ UNCHANGED <<ino, linked, buf, top, cand, owned>> /\ Stacked(at)
  BY DEF WriteIndirect, Placed, Working
<1>2. /\ top \in Levels /\ IsStack(frames, top) /\ Depth = Len(frames) /\ Depth \in Nat
      /\ blocks = frames[Depth].indblock /\ blocks \in [1 .. Width(top, Depth) -> Refs]
  BY <1>1, WorkingIs
<1>3. PICK b, fs, gs, D : b = frames[Depth].target /\ fs = frames /\ gs = frames' /\ D = Depth
  OBVIOUS
<1>4. /\ content'[b] = blocks
      /\ \A c \in DOMAIN content : c # b => content'[c] = content[c]
  <2>1. blocks \in Array
    BY <1>1, <1>2 DEF Width, Array
  <2> QED
    BY <1>1, <1>3, <2>1, WriteType, TypeParts
<1>5. Len(gs) = D - 1 /\ \A d \in 1 .. D - 1 : gs[d] = fs[d]
  <2>1. fs \in Seq(Frame) /\ gs = Front(fs) /\ Len(fs) = D /\ D > 1
    BY <1>1, <1>2, <1>3 DEF IsStack
  <2> QED
    BY <2>1 DEF Front
<1>6. Writes(b)
  BY <1>1, <1>2, <1>3, <1>4, <1>5 DEF Writes
<1> QED
  BY <1>6

(* What an array of the stack leads to is in the array before it.          *)
LEMMA TargetHangs ==
    ASSUME NEW t \in Levels, NEW fs, IsStack(fs, t), NEW i \in linked, NEW at,
           StackRight(at, fs, t, i), NEW D \in 2 .. Len(fs), NEW b, b = fs[D].target
    PROVE  /\ b \in DOMAIN at /\ Hangs(at, b) /\ at[b].own = i /\ at[b].lvl = t - (D - 2)
           /\ at[b].up = fs[D - 1].target /\ Has(fs[D - 1].indblock, at, b)
<1>1. IsTarget(at, fs, t, i, D)
  BY TargetIs
<1>2. PICK e, c, n, p : /\ c = fs[D - 1].indblock /\ e = Len(Entries(c)) /\ n = Width(t, D - 1)
                        /\ p = fs[D - 1].target
  OBVIOUS
<1>3. /\ b \in DOMAIN at /\ e \in 1 .. n /\ c[e] = b /\ D - 1 \in 1 .. Len(fs)
      /\ at[b].own = i /\ at[b].lvl = t - (D - 2) /\ at[b].up = p /\ at[b].idx = e
  BY <1>1, <1>2 DEF IsTarget, Spot
<1>4. DOMAIN c = 1 .. n
  BY <1>2, <1>3, StackArray
<1>5. Has(c, at, b)
  BY <1>3, <1>4 DEF Has
<1>6. ASSUME p # NoBlock
      PROVE  p \in DOMAIN at /\ at[p].own = i /\ at[p].lvl = t - (D - 2) + 1
  <2>1. D - 1 # 1
    BY <1>2, <1>6 DEF StackRight
  <2>2. D - 1 \in 2 .. Len(fs)
    BY <1>3, <2>1
  <2>3. IsTarget(at, fs, t, i, D - 1)
    BY <2>2, TargetIs
  <2>4. p \in DOMAIN at /\ at[p].own = i /\ at[p].lvl = t - ((D - 1) - 2)
    BY <1>2, <2>3 DEF IsTarget, Spot
  <2>5. t - ((D - 1) - 2) = t - (D - 2) + 1
    BY <1>3 DEF Levels
  <2> QED
    BY <2>4, <2>5
<1>7. Hangs(at, b)
  BY <1>3, <1>6 DEF Hangs
<1> QED
  BY <1>2, <1>3, <1>5, <1>7

LEMMA KeptWriteIndirect ==
    ASSUME TypeInv, NEW at, NEW g, NEW K, NEW N, Placed(at), Kept(at, g, K, N), WriteIndirect
    PROVE  \E N2 : Kept(at, g, K, N2)'
<1>1. PICK b : Writes(b)
  BY WriteIndirectIs
<1>2. /\ Rooted(at, K) /\ Numbered(at, g) /\ CoversDisk(frames, top, self) /\ InUse
      /\ Limit(top) <= buf.n_blocks /\ Fresh(at, g, N) /\ LevelsUsed
      /\ owned \in [Inodes -> Seq(Refs)]
      /\ \A i \in linked : InOrder(at, g, K, i)
  BY <1>1 DEF Kept, Writes
<1>3. PICK fs, gs, t, i, D : /\ fs = frames /\ gs = frames' /\ t = top /\ i = self /\ D = Depth
  OBVIOUS
<1>4. /\ pc' = "unwind" /\ UNCHANGED <<ino, linked, buf, top, cand, owned>> /\ self' = i
      /\ D \in 2 .. Len(fs) /\ D = Len(fs) /\ b = fs[D].target /\ content'[b] = fs[D].indblock
      /\ \A c \in DOMAIN content : c # b => content'[c] = content[c]
      /\ Len(gs) = D - 1 /\ \A d \in 1 .. D - 1 : gs[d] = fs[d]
  BY <1>1, <1>3 DEF Writes, self
<1>5. /\ t \in Levels /\ IsStack(fs, t) /\ i \in linked /\ StackRight(at, fs, t, i) /\ Forest(at)
      /\ level = t - (D - 1)
  <2>1. pc \in Working
    BY <1>1 DEF Writes, Working
  <2> QED
    BY <1>3, <2>1, WorkingIs DEF Placed
<1>6. /\ b \in DOMAIN at /\ Hangs(at, b) /\ at[b].own = i /\ at[b].lvl = t - (D - 2)
      /\ at[b].up = fs[D - 1].target /\ Has(fs[D - 1].indblock, at, b)
  BY <1>4, <1>5, TargetHangs
<1>7. Covers(content[b], content'[b])
  BY <1>2, <1>3, <1>4 DEF CoversDisk
<1>8. ASSUME NEW x \in DOMAIN at, Hangs(at, x), OnDisk(at, x) PROVE OnDisk(at, x)'
  <2>1. x # NoBlock
    BY TypeParts, <1>5, ForestSpots, Layout DEF AreSpots
  <2>2. ASSUME at[x].up # NoBlock PROVE Covers(content[at[x].up], content'[at[x].up])
    <3>1. at[x].up \in DOMAIN content
      BY <1>5, <1>8, <2>2 DEF Hangs, Forest
    <3> QED
      BY <1>4, <1>7, <3>1 DEF Covers
  <2> QED
    BY <1>4, <1>8, <2>1, <2>2, OnDiskCovered
<1>9. \A x : Hangs(at, x) => Hangs(at, x)'
  BY <1>4 DEF Hangs
<1>10. Rooted(at, K)'
  BY <1>2, <1>8, <1>9 DEF Rooted
<1>11. \A j \in linked' : InOrder(at, g, K, j)'
  BY <1>2, <1>4 DEF InOrder, DataOf
<1>12. /\ LevelsUsed' /\ InUse' /\ owned' \in [Inodes -> Seq(Refs)]
       /\ (Limit(top) <= buf.n_blocks)'
  BY <1>2, <1>4 DEF LevelsUsed, InUse
<1>13. Numbered(at, g)'
  BY <1>2, WriteIndirectNumbers
<1>14. CoversDisk(frames, top, self)'
  <2>1. CoversDisk(fs, t, i)
    BY <1>2, <1>3
  <2>2. Covers(ino[i].blocks[t], gs[1].indblock)
    <3>1. 1 \in 1 .. D - 1
      BY <1>4
    <3> QED
      BY <1>4, <2>1, <3>1 DEF CoversDisk
  <2>3. ASSUME NEW d \in 2 .. Len(gs) PROVE Covers(content'[gs[d].target], gs[d].indblock)
    <3>1. d \in 2 .. Len(fs) /\ d \in 1 .. D - 1 /\ d # D
      BY <1>4
    <3>2. PICK c : c = fs[d].target
      OBVIOUS
    <3>3. c \in DOMAIN at /\ at[c].lvl = t - (d - 2)
      BY <1>5, <3>1, <3>2, TargetHangs
    <3>4. t - (d - 2) # t - (D - 2)
      BY <1>4, <1>5, <3>1 DEF Levels
    <3>5. c # b /\ c \in DOMAIN content
      BY <1>5, <1>6, <3>3, <3>4 DEF Forest
    <3>6. Covers(content[c], fs[d].indblock)
      BY <2>1, <3>1, <3>2 DEF CoversDisk
    <3> QED
      BY <1>4, <3>1, <3>2, <3>5, <3>6
  <2> QED
    BY <1>3, <1>4, <2>2, <2>3 DEF CoversDisk
<1>15. /\ Depth' = D - 1 /\ level' = t - (D - 2) /\ blocks' = fs[D - 1].indblock
       /\ frames'[Depth'].target = fs[D - 1].target
  <2>1. Depth' = D - 1 /\ D - 1 \in 1 .. D - 1
    BY <1>3, <1>4 DEF Depth
  <2>2. level' = t - ((D - 1) - 1)
    BY <1>3, <1>4, <2>1 DEF level
  <2>3. (D - 1) - 1 = D - 2
    BY <1>4
  <2> QED
    BY <1>3, <1>4, <2>1, <2>2, <2>3 DEF blocks
<1>16. PICK N2 : N2 = N \union {b}
  OBVIOUS
<1>17. ASSUME NEW x \in N2
       PROVE  /\ x \in DOMAIN at /\ at[x].own = i /\ Hangs(at, x)' /\ Hanging(at, N2, x)'
  <2>1. CASE x = b
    <3>1. Hanging(at, N2, x)'
      BY <1>6, <1>15, <2>1 DEF Hanging
    <3> QED
      BY <1>6, <1>9, <2>1, <3>1
  <2>2. CASE x # b
    <3>1. x \in N /\ x \in DOMAIN at /\ at[x].own = i /\ Hangs(at, x) /\ Hanging(at, N, x)
      BY <1>2, <1>3, <1>16, <2>2 DEF Fresh
    <3>2. CASE at[x].up # NoBlock /\ at[x].up \in N /\ OnDisk(at, x)
      <4>1. OnDisk(at, x)' /\ at[x].up \in N2
        BY <1>8, <1>16, <3>1, <3>2
      <4> QED
        BY <1>9, <3>1, <3>2, <4>1 DEF Hanging
    <3>3. CASE at[x].up = frames[Depth].target /\ Has(blocks, at, x)
      <4>1. at[x].up = b /\ b \in N2 /\ Has(content'[b], at, x)
        BY <1>3, <1>4, <1>16, <3>3 DEF blocks
      <4>2. b # NoBlock
        BY TypeParts, <1>5, <1>6, ForestSpots, Layout DEF AreSpots
      <4>3. OnDisk(at, x)'
        BY <4>1, <4>2 DEF OnDisk, DiskArray
      <4> QED
        BY <1>9, <3>1, <4>1, <4>2, <4>3 DEF Hanging
    <3> QED
      BY <3>1, <3>2, <3>3 DEF Hanging
  <2> QED
    BY <2>1, <2>2
<1>18. Fresh(at, g, N2)'
  BY <1>2, <1>3, <1>4, <1>16, <1>17 DEF Fresh
<1>19. Kept(at, g, K, N2)'
  BY <1>4, <1>10, <1>11, <1>12, <1>13, <1>14, <1>18 DEF Kept
<1> QED
  BY <1>19

(* The inode is written: what hangs in its arrays in core is in the file.  *)
LEMMA WrittenOnDisk ==
    ASSUME NEW at, NEW i, NEW o, NEW n, Written(i, o, n), NEW x, x # NoBlock,
           OnDisk(at, x), at[x].own \in linked, at[x].lvl \in Levels,
           Covers(ino[i].blocks[top], frames[1].indblock)
    PROVE  OnDisk(at, x)'
<1>1. CASE at[x].up # NoBlock
  BY <1>1 DEF OnDisk, DiskArray, Written
<1>2. CASE at[x].up = NoBlock
  <2>1. PICK j, k, a, c, s : /\ j = at[x].own /\ k = at[x].lvl /\ s = at[x].idx
                             /\ a = ino[j].blocks[k] /\ c = ino'[j].blocks[k]
    OBVIOUS
  <2>2. Has(a, at, x)
    BY <1>2, <2>1 DEF OnDisk, DiskArray
  <2>3. Covers(a, c)
    <3>1. CASE j = i /\ k = top
      BY <2>1, <3>1 DEF Written
    <3>2. CASE ~(j = i /\ k = top)
      <4>1. a = c
        BY <2>1, <3>2 DEF Written
      <4> QED
        BY <4>1 DEF Covers
    <3> QED
      BY <3>1, <3>2
  <2>4. Has(c, at, x)
    BY <2>2, <2>3 DEF Has, Covers
  <2> QED
    BY <1>2, <2>1, <2>4 DEF OnDisk, DiskArray
<1> QED
  BY <1>1, <1>2

LEMMA KeptWriteInode ==
    ASSUME TypeInv, NEW at, NEW g, NEW K, NEW N, Placed(at), Kept(at, g, K, N), WriteInode
    PROVE  Kept(at, g, K \union N, N)'
<1>1. owned \in [Inodes -> Seq(Refs)]
  BY DEF Kept
<1>2. PICK i, o, n : Written(i, o, n)
  BY <1>1, WriteInodeIs
<1>3. PICK t, c, m : t = top /\ c = cand /\ m = ino[i].n_blocks
  OBVIOUS
<1>4. /\ i = self /\ i \in Inodes /\ i \in linked /\ o = Append(owned[i], c) /\ n = m + 1
      /\ pc = "unwind" /\ pc' = "idle" /\ UNCHANGED <<content, linked>>
      /\ Depth = 1 /\ t \in Levels /\ c \in Refs
      /\ owned'[i] = o /\ owned' = [owned EXCEPT ![i] = o]
  BY <1>2, <1>3 DEF Written
<1>5. /\ Rooted(at, K) /\ Numbered(at, g) /\ CoversDisk(frames, t, i) /\ InUse
      /\ Limit(t) <= buf.n_blocks /\ Fresh(at, g, N) /\ LevelsUsed
      /\ \A j \in linked : InOrder(at, g, K, j)
  BY <1>3, <1>4 DEF Kept
<1>6. /\ buf = ino[i] /\ level = t /\ frames[Depth].target = NoBlock /\ blocks = frames[1].indblock
      /\ Forest(at)
  <2>1. pc \in Working
    BY <1>4 DEF Working
  <2>2. /\ buf = ino[self] /\ level = top - (Depth - 1) /\ StackRight(at, frames, top, self)
        /\ blocks = frames[Depth].indblock
    BY <2>1, WorkingIs DEF Placed
  <2>3. t - (1 - 1) = t
    BY <1>4 DEF Levels
  <2> QED
    BY <1>3, <1>4, <2>2, <2>3 DEF StackRight, Placed
<1>7. Numbered(at, g)' /\ InUse'
  BY <1>2, <1>5, WriteInodeNumbers, WrittenUse
<1>8. Covers(ino[i].blocks[top], frames[1].indblock)
  BY <1>3, <1>5 DEF CoversDisk
<1>9. \A x \in DOMAIN at : x # NoBlock /\ at[x].lvl \in Levels
  BY TypeParts, <1>6, ForestSpots, Layout DEF AreSpots, Spots
<1>10. ASSUME NEW x \in DOMAIN at, Hangs(at, x), OnDisk(at, x) PROVE OnDisk(at, x)'
  BY <1>2, <1>8, <1>9, <1>10, WrittenOnDisk DEF Hangs
<1>11. \A x : Hangs(at, x) => Hangs(at, x)'
  BY <1>4 DEF Hangs
<1>12. ASSUME NEW x \in N
       PROVE  /\ x \in DOMAIN at /\ at[x].own = i /\ Hangs(at, x)' /\ OnDisk(at, x)'
              /\ at[x].up # NoBlock => at[x].up \in N
  <2>1. x \in DOMAIN at /\ at[x].own = i /\ Hangs(at, x) /\ Hanging(at, N, x)
    BY <1>4, <1>5 DEF Fresh
  <2>2. CASE at[x].up # NoBlock /\ at[x].up \in N /\ OnDisk(at, x)
    BY <1>10, <1>11, <2>1, <2>2
  <2>3. CASE at[x].lvl = level /\ at[x].up = frames[Depth].target /\ Has(blocks, at, x)
    <3>1. at[x].lvl = t /\ at[x].up = NoBlock /\ Has(frames[1].indblock, at, x)
      BY <1>6, <2>3
    <3>2. ino'[i].blocks[t] = frames[1].indblock
      BY <1>2, <1>3 DEF Written
    <3>3. OnDisk(at, x)'
      BY <2>1, <3>1, <3>2 DEF OnDisk, DiskArray
    <3> QED
      BY <1>11, <2>1, <3>1, <3>3
  <2> QED
    BY <2>1, <2>2, <2>3 DEF Hanging
<1>13. Rooted(at, K \union N)'
  BY <1>5, <1>10, <1>11, <1>12 DEF Rooted
<1>14. owned' \in [Inodes -> Seq(Refs)] /\ owned[i] \in Seq(Refs)
  BY <1>1, <1>4
<1>15. PICK s : s = owned[i]
  OBVIOUS
<1>16. /\ s \in Seq(Refs) /\ Len(s) \in Nat /\ o \in Seq(Refs) /\ DOMAIN o = 1 .. Len(s) + 1
       /\ o[Len(s) + 1] = c /\ DOMAIN s = 1 .. Len(s)
       /\ \A q \in DOMAIN s : o[q] = s[q]
  BY <1>4, <1>14, <1>15
<1>17. ASSUME NEW j \in linked' PROVE InOrder(at, g, K \union N, j)'
  <2>1. j \in linked /\ InOrder(at, g, K, j)
    BY <1>4, <1>5
  <2>2. CASE j # i
    <3>1. owned'[j] = owned[j]
      BY <1>2, <2>1, <2>2 DEF Written
    <3> QED
      BY <2>1, <3>1 DEF InOrder, DataOf
  <2>3. CASE j = i
    <3>1. owned'[j] = o /\ owned[j] = s
      BY <1>4, <1>15, <2>3
    <3>2. ASSUME NEW q \in DOMAIN s PROVE s[q] \in K /\ DataOf(at, j, s[q]) /\ g[s[q]] < g[c]
      BY <1>3, <1>4, <1>5, <2>1, <2>3, <3>1, <3>2 DEF InOrder, Fresh
    <3>3. c \in N /\ DataOf(at, j, c)
      BY <1>3, <1>4, <1>5, <2>3 DEF Fresh, DataOf
    <3>4. ASSUME NEW q \in DOMAIN o PROVE o[q] \in K \union N /\ DataOf(at, j, o[q])
      <4>1. CASE q = Len(s) + 1
        BY <1>16, <3>3, <4>1
      <4>2. CASE q # Len(s) + 1
        <5>1. q \in DOMAIN s
          BY <1>16, <4>2
        <5> QED
          BY <1>16, <3>2, <5>1
      <4> QED
        BY <4>1, <4>2
    <3>5. ASSUME NEW q \in DOMAIN o, NEW r \in DOMAIN o, q < r PROVE g[o[q]] < g[o[r]]
      <4>1. q \in DOMAIN s
        BY <1>16, <3>5
      <4>2. CASE r = Len(s) + 1
        BY <1>16, <3>2, <4>1, <4>2
      <4>3. CASE r # Len(s) + 1
        <5>1. r \in DOMAIN s
          BY <1>16, <4>3
        <5>2. g[s[q]] < g[s[r]]
          BY <2>1, <3>1, <3>5, <4>1, <5>1 DEF InOrder
        <5> QED
          BY <1>16, <4>1, <5>1, <5>2
      <4> QED
        BY <4>2, <4>3
    <3> QED
      BY <3>1, <3>4, <3>5 DEF InOrder, DataOf
  <2> QED
    BY <2>2, <2>3
<1>18. LevelsUsed'
  <2> SUFFICES ASSUME NEW j \in linked, NEW k \in Levels, NEW q \in DOMAIN ino'[j].blocks[k],
                      ino'[j].blocks[k][q] # NoBlock
               PROVE  Limit(k) < ino'[j].n_blocks
    BY <1>4 DEF LevelsUsed
  <2>1. CASE j # i
    <3>1. ino'[j] = ino[j]
      BY <1>2, <2>1 DEF Written
    <3> QED
      BY <1>5, <3>1 DEF LevelsUsed
  <2>2. CASE j = i
    <3>1. ino'[i].n_blocks = m + 1 /\ m \in Nat /\ Limit(k) \in Nat
      <4>1. IsInode(ino[i]) /\ k \in 0 .. 4 /\ Limit(4) \in Nat
        BY <1>4, LimitsAre, TypeParts DEF InodesType, Levels
      <4>2. m \in Nat
        BY <1>3, <4>1 DEF IsInode, InodeRecord
      <4> QED
        BY <1>2, <1>4, <4>1, <4>2, LimitsAre DEF Written
    <3>2. CASE k = t
      BY <1>3, <1>5, <1>6, <2>2, <3>1, <3>2
    <3>3. CASE k # t
      <4>1. ino'[i].blocks[k] = ino[i].blocks[k]
        BY <1>2, <1>3, <3>3 DEF Written
      <4>2. Limit(k) < m
        BY <1>3, <1>4, <1>5, <2>2, <4>1 DEF LevelsUsed
      <4> QED
        BY <2>2, <3>1, <4>2
    <3> QED
      BY <3>2, <3>3
  <2> QED
    BY <2>1, <2>2
<1> QED
  BY <1>4, <1>7, <1>13, <1>14, <1>17, <1>18 DEF Kept

-----------------------------------------------------------------------------
(* What is kept, step by step.                                             *)
LEMMA KeptInit == MapInit => KeptInv
<1> SUFFICES ASSUME MapInit PROVE \E at, g, K, N : Placed(at) /\ Kept(at, g, K, N)
  BY DEF KeptInv
<1>1. PICK at, g, K : /\ at = [x \in {} |-> Spot(0, 0, 0, 0)]
                      /\ g = [b \in Blocks |-> 0] /\ K = {}
  OBVIOUS
<1>2. DOMAIN at = {} /\ at \in [DOMAIN at -> Spots] /\ g \in [Blocks -> Nat]
  BY <1>1
<1>3. linked = {} /\ pc = "idle" /\ DOMAIN content = {} /\ owned = [i \in Inodes |-> <<>>]
  BY DEF MapInit, Pool!PoolInit
<1>4. Placed(at)
  BY <1>2, <1>3 DEF Placed, Forest, Stacked, NewUnnamed, Loose, Apart, Working
<1>5. owned \in [Inodes -> Seq(Refs)]
  <2>1. <<>> \in Seq(Refs)
    OBVIOUS
  <2> QED
    BY <1>3, <2>1
<1>6. Numbered(at, g) /\ InUse /\ LevelsUsed /\ Rooted(at, K)
  BY <1>1, <1>2, <1>3 DEF Numbered, DiskNumbers, InUse, LevelsUsed, Rooted
<1>7. Kept(at, g, K, {})
  BY <1>3, <1>5, <1>6 DEF Kept
<1> QED
  BY <1>4, <1>7

LEMMA KeptSame ==
    ASSUME NEW at, NEW g, NEW K, NEW N, Kept(at, g, K, N), UNCHANGED mapVars
    PROVE  Kept(at, g, K, N)'
<1>1. UNCHANGED <<content, ino, linked, pc, buf, frames, top, cand, owned>>
  BY DEF mapVars, pool, alloc
<1>2. self' = self /\ Depth' = Depth /\ level' = level /\ blocks' = blocks
  BY <1>1 DEF self, Depth, level, blocks
<1>3. /\ Rooted(at, K)' /\ LevelsUsed' /\ owned' \in [Inodes -> Seq(Refs)]
      /\ \A i \in linked' : InOrder(at, g, K, i)'
  BY <1>1, KeptGrows, GrowsSame
<1>4. Numbered(at, g)'
  <2>1. Numbered(at, g)
    BY DEF Kept
  <2>2. DiskNumbers(at, g)'
    BY <1>1, <2>1 DEF Numbered, DiskNumbers
  <2>3. StackNumbers(g, frames, top) => StackNumbers(g, frames, top)'
    BY <1>1
  <2> QED
    BY <1>1, <2>1, <2>2, <2>3 DEF Numbered
<1>5. InUse'
  BY <1>1, <1>2, KeptParts DEF InUse
<1>6. pc' \in {"descend", "unwind"} => CoversDisk(frames, top, self)' /\ (Limit(top) <= buf.n_blocks)'
  <2>1. CoversDisk(frames, top, self) => CoversDisk(frames, top, self)'
    BY <1>1, <1>2 DEF CoversDisk
  <2> QED
    BY <1>1, <2>1 DEF Kept
<1>7. pc' = "descend" => AllBehind(at, g, K)'
  <2>1. \A x : Behind(at, g, K, x) => Behind(at, g, K, x)'
    BY <1>1, <1>2 DEF Behind
  <2>2. AllBehind(at, g, K) => AllBehind(at, g, K)'
    BY <1>2, <2>1 DEF AllBehind, DataOf
  <2> QED
    BY <1>1, <2>2 DEF Kept
<1>8. pc' = "unwind" => Fresh(at, g, N)'
  <2>1. \A x : Hanging(at, N, x) => Hanging(at, N, x)'
    BY <1>1, <1>2 DEF Hanging, OnDisk, DiskArray
  <2>2. \A x : Hangs(at, x) => Hangs(at, x)'
    BY <1>1 DEF Hangs
  <2>3. Fresh(at, g, N) => Fresh(at, g, N)'
    BY <1>1, <1>2, <2>1, <2>2 DEF Fresh
  <2> QED
    BY <1>1, <2>3 DEF Kept
<1> QED
  BY <1>3, <1>4, <1>5, <1>6, <1>7, <1>8 DEF Kept

KeptNext == \E at, g, K, N : Placed(at)' /\ Kept(at, g, K, N)'

LEMMA KeptMoves ==
    ASSUME TypeInv, TypeInv', NEW at, NEW g, NEW K, NEW N, Placed(at), Kept(at, g, K, N),
           [MapNext]_mapVars, failures \in Nat, failures' = failures, overruns' = {}
    PROVE  KeptNext
<1>1. CASE UNCHANGED mapVars
  BY <1>1, OwnSame, KeptSame DEF KeptNext
<1>2. CASE \E i \in Inodes : Create(i) \/ AllocStart(i)
  BY <1>2, OwnCreate, OwnAllocStart, KeptCreate, KeptAllocStart DEF KeptNext
<1>3. CASE \E i \in Inodes : Unlink(i)
  <2>1. PICK i \in Inodes : Unlink(i)
    BY <1>3
  <2>2. PICK t : Placed(t)' /\ t = Keeping(at, i)
    BY <2>1, OwnUnlink
  <2>3. Kept(t, g, {x \in K : at[x].own # i}, N)'
    BY <2>1, <2>2, KeptUnlink
  <2> QED
    BY <2>2, <2>3 DEF KeptNext
<1>4. CASE NewIndirect
  <2>1. first_unused < Len(blocks)
    BY <1>4 DEF NewIndirect
  <2>2. PICK t : /\ Placed(t)'
                 /\ \E b : /\ t = Grown(at, b, NextSpot) /\ PoppedFor(at, b)
                           /\ frames' = Append(Stored(b), NewFrame(b))
    BY <1>4, <2>1, OwnNewIndirect
  <2>3. PICK b : Digs(at, t, b)
    BY <2>2 DEF Digs
  <2>4. PICK g2 : Kept(t, g2, K, N)'
    BY <1>4, <2>1, <2>3, KeptNewIndirect
  <2> QED
    BY <2>2, <2>4 DEF KeptNext
<1>5. CASE NewDirect
  <2>1. PICK t : /\ Placed(t)'
                 /\ first_unused < Len(blocks) =>
                        \E b : /\ t = Grown(at, b, NextSpot) /\ PoppedFor(at, b)
                               /\ frames' = Stored(b) /\ cand' = b
                 /\ ~(first_unused < Len(blocks)) => t = at
    BY <1>5, OwnNewDirect
  <2>2. CASE first_unused < Len(blocks)
    <3>1. PICK b : Fills(at, t, b)
      BY <2>1, <2>2 DEF Fills
    <3>2. PICK g2 : Kept(t, g2, K, {b})'
      BY <1>5, <2>2, <3>1, KeptNewDirect
    <3> QED
      BY <2>1, <3>2 DEF KeptNext
  <2>3. CASE ~(first_unused < Len(blocks))
    BY <1>5, <2>1, <2>3, KeptAway DEF KeptNext
  <2> QED
    BY <2>2, <2>3
<1>6. CASE UndoIndirect
  <2>1. PICK t : /\ Placed(t)'
                 /\ t = IF frames[Depth].new THEN Without(at, frames[Depth].target) ELSE at
    BY <1>6, OwnUndoIndirect
  <2>2. Kept(t, g, K, N)'
    BY <1>6, <2>1, KeptUndoIndirect
  <2> QED
    BY <2>1, <2>2 DEF KeptNext
<1>7. CASE OldIndirect
  BY <1>7, OwnOldIndirect, KeptOldIndirect DEF KeptNext
<1>8. CASE WriteIndirect
  <2>1. PICK N2 : Kept(at, g, K, N2)'
    BY <1>8, KeptWriteIndirect
  <2> QED
    BY <1>8, <2>1, OwnWriteIndirect DEF KeptNext
<1>9. CASE WriteInode
  <2>1. Kept(at, g, K \union N, N)'
    BY <1>9, KeptWriteInode
  <2> QED
    BY <1>9, <2>1, OwnWriteInode DEF KeptNext
<1>10. CASE PopFails \/ AllocFails \/ GiveBack \/ AppendNext \/ Crash
  <2>1. Kept(at, g, K, N)'
    BY <1>10, KeptStops
  <2>2. Placed(at)'
    BY <1>10, OwnPopFails, OwnAllocFails, OwnGiveBack, OwnAppendNext, OwnCrash
  <2> QED
    BY <2>1, <2>2 DEF KeptNext
<1>11. CASE FreeInode
  BY <1>11, OwnFreeInode, KeptFreeInode DEF KeptNext
<1>12. CASE WriteReturns
  BY <1>12 DEF WriteReturns, Placed
<1>13. CASE \E i \in Inodes, start \in 0 .. Cardinality(Blocks) : FailedWrite(i, start)
  <2>1. failures' = failures + 1
    BY <1>13 DEF FailedWrite
  <2> QED
    BY <2>1
<1> QED
  BY <1>1, <1>2, <1>3, <1>4, <1>5, <1>6, <1>7, <1>8, <1>9, <1>10, <1>11, <1>12, <1>13
     DEF MapNext, Resume

LEMMA KeptStep == TypeInv /\ TypeInv' /\ OwnInv /\ KeptInv /\ [MapNext]_mapVars => KeptInv'
<1> SUFFICES ASSUME TypeInv, TypeInv', OwnInv, KeptInv, [MapNext]_mapVars, failures' = 0,
                    overruns' = {}
             PROVE  KeptNext
  BY DEF KeptInv, KeptNext
<1>1. failures \in Nat
  BY DEF OwnInv
<1>2. failures' = failures \/ failures' = failures + 1
  BY DEF MapNext, mapVars, Create, AllocStart, Unlink, FailedWrite, Resume, NewIndirect,
     OldIndirect, NewDirect, GiveBack, PopFails, WriteIndirect, WriteInode, UndoIndirect,
     AllocFails, AppendNext, FreeInode, WriteReturns, Crash
<1>3. failures' = failures /\ failures = 0
  BY <1>1, <1>2
<1>4. overruns = {}
  <2>1. CASE NewIndirect
    BY <2>1 DEF NewIndirect
  <2> QED
    BY <2>1, OverrunsKept
<1>5. PICK at, g, K, N : Placed(at) /\ Kept(at, g, K, N)
  BY <1>3, <1>4 DEF KeptInv
<1> QED
  BY <1>1, <1>3, <1>5, KeptMoves

-----------------------------------------------------------------------------
(* A walk over the entries of a level meets the blocks by their numbers    *)
(* also where some are not full; S numbers lie below each.                 *)
Sorted(g, s, S, A, B) ==
    /\ s \in Seq(Blocks)
    /\ \A j \in DOMAIN s : A <= g[s[j]] /\ g[s[j]] + S <= B
    /\ \A j, m \in DOMAIN s : j < m => g[s[j]] + S <= g[s[m]]
JoinOf(s, t, x) == x \in Range(s \o t) <=> x \in Range(s) \/ x \in Range(t)

IsJoin(s, t, u) ==
    /\ u \in Seq(Blocks)
    /\ \A j \in DOMAIN u : \/ j \in DOMAIN s /\ u[j] = s[j]
                           \/ j > Len(s) /\ j - Len(s) \in DOMAIN t /\ u[j] = t[j - Len(s)]
    /\ \A j \in DOMAIN s : j \in DOMAIN u /\ u[j] = s[j] /\ j <= Len(s)
    /\ \A j \in DOMAIN t : Len(s) + j \in DOMAIN u /\ u[Len(s) + j] = t[j]
LEMMA JoinIs ==
    ASSUME NEW s \in Seq(Blocks), NEW t \in Seq(Blocks)
    PROVE  IsJoin(s, t, s \o t)
  BY DEF IsJoin

LEMMA JoinSorted ==
    ASSUME NEW g \in [Blocks -> Nat], NEW S \in Nat, NEW A \in Int, NEW B \in Int, NEW C \in Int, NEW D \in Int,
           A <= B, B <= C, C <= D, NEW s, Sorted(g, s, S, A, B), NEW t, Sorted(g, t, S, C, D)
    PROVE  Sorted(g, s \o t, S, A, D) /\ \A x : JoinOf(s, t, x)
<1>1. PICK u : u = s \o t
  OBVIOUS
<1>2. s \in Seq(Blocks) /\ t \in Seq(Blocks)
  BY DEF Sorted
<1>3. PICK L \in Nat : L = Len(s)
  BY <1>2
<1>4. /\ u \in Seq(Blocks)
      /\ \A j \in DOMAIN u : \/ j \in DOMAIN s /\ u[j] = s[j]
                             \/ j > L /\ j - L \in DOMAIN t /\ u[j] = t[j - L]
      /\ \A j \in DOMAIN s : j \in DOMAIN u /\ u[j] = s[j] /\ j <= L
      /\ \A j \in DOMAIN t : L + j \in DOMAIN u /\ u[L + j] = t[j]
  <2>1. IsJoin(s, t, s \o t)
    BY <1>2, JoinIs
  <2>2. IsJoin(s, t, u)
    BY <1>1, <2>1, Zenon
  <2> QED
    BY <1>3, <2>2 DEF IsJoin
<1>5. /\ \A j \in DOMAIN s : s[j] \in Blocks /\ g[s[j]] \in Nat /\ A <= g[s[j]] /\ g[s[j]] + S <= B
      /\ \A j \in DOMAIN t : t[j] \in Blocks /\ g[t[j]] \in Nat /\ C <= g[t[j]] /\ g[t[j]] + S <= D
  BY <1>2 DEF Sorted
<1>6. ASSUME NEW j \in DOMAIN u PROVE A <= g[u[j]] /\ g[u[j]] + S <= D
  <2>1. CASE j \in DOMAIN s /\ u[j] = s[j]
    BY <1>5, <2>1
  <2>2. CASE j - L \in DOMAIN t /\ u[j] = t[j - L]
    BY <1>5, <2>2
  <2> QED
    BY <1>4, <2>1, <2>2
<1>7. ASSUME NEW j \in DOMAIN u, NEW m \in DOMAIN u, j < m PROVE g[u[j]] + S <= g[u[m]]
  <2>1. j \in Nat /\ m \in Nat
    BY <1>4
  <2>2. CASE m \in DOMAIN s /\ u[m] = s[m]
    <3>1. ~(j > L)
      BY <1>3, <1>4, <1>7, <2>1, <2>2
    <3>2. j \in DOMAIN s /\ u[j] = s[j]
      BY <1>4, <3>1
    <3> QED
      BY <1>7, <2>2, <3>2 DEF Sorted
  <2>3. CASE m > L /\ m - L \in DOMAIN t /\ u[m] = t[m - L]
    <3>1. CASE j \in DOMAIN s /\ u[j] = s[j]
      BY <1>5, <2>3, <3>1
    <3>2. CASE j - L \in DOMAIN t /\ u[j] = t[j - L]
      <4>1. j - L < m - L
        BY <1>7, <2>1
      <4> QED
        BY <2>3, <3>2, <4>1 DEF Sorted
    <3> QED
      BY <1>4, <3>1, <3>2
  <2> QED
    BY <1>4, <2>2, <2>3
<1>8. Sorted(g, u, S, A, D)
  BY <1>4, <1>6, <1>7 DEF Sorted
<1>9. ASSUME NEW x PROVE x \in Range(u) <=> x \in Range(s) \/ x \in Range(t)
  <2>1. ASSUME x \in Range(u) PROVE x \in Range(s) \/ x \in Range(t)
    BY <1>4, <2>1 DEF Range
  <2>2. ASSUME x \in Range(s) PROVE x \in Range(u)
    BY <1>4, <2>2 DEF Range
  <2>3. ASSUME x \in Range(t) PROVE x \in Range(u)
    BY <1>4, <2>3 DEF Range
  <2> QED
    BY <2>1, <2>2, <2>3
<1> QED
  BY <1>1, <1>8, <1>9 DEF JoinOf

(* One sequence for each of the elements of e, with the numbers below it.  *)
SortedBelow(g, e, S, T, ss) ==
    \A j \in DOMAIN e : Sorted(g, ss[j], T, g[e[j]], g[e[j]] + S)
FlatOf(f, n, ss, x) == x \in Range(f) <=> \E j \in 1 .. n : x \in Range(ss[j])
LEMMA FlatSorted ==
    ASSUME NEW g \in [Blocks -> Nat], NEW S \in Nat, NEW T \in Nat, NEW A \in Int, NEW B \in Int,
           NEW e, Sorted(g, e, S, A, B), NEW n \in Nat, n = Len(e), n >= 1,
           NEW ss \in [1 .. n -> Seq(Blocks)], SortedBelow(g, e, S, T, ss)
    PROVE  Sorted(g, FlattenSeq(ss), T, A, B) /\ \A x : FlatOf(FlattenSeq(ss), n, ss, x)
<1>1. PICK f \in [1 .. n -> Seq(Blocks)] : FlatBy(f, n, ss) /\ FlattenSeq(ss) = f[n]
  BY FlattenIs
<1>2. e \in Seq(Blocks) /\ DOMAIN e = 1 .. n
  BY DEF Sorted
<1>3. ASSUME NEW m \in 1 .. n
      PROVE  /\ A <= g[e[m]] /\ g[e[m]] + S <= B /\ g[e[m]] \in Nat
             /\ Sorted(g, ss[m], T, g[e[m]], g[e[m]] + S)
             /\ m # 1 => m - 1 \in 1 .. n /\ g[e[m - 1]] \in Nat /\ g[e[m - 1]] + S <= g[e[m]]
  <2>1. e[m] \in Blocks /\ (m # 1 => m - 1 \in 1 .. n /\ m - 1 < m)
    BY <1>2
  <2>2. m # 1 => e[m - 1] \in Blocks
    BY <1>2, <2>1
  <2> QED
    BY <1>2, <2>1, <2>2 DEF Sorted, SortedBelow
<1> DEFINE Good == {m \in 0 .. n : m = 0 \/ (/\ Sorted(g, f[m], T, A, g[e[m]] + S)
                                             /\ \A x : FlatOf(f[m], m, ss, x))}
<1>4. 0 \in Good
  OBVIOUS
<1>5. ASSUME NEW m \in 1 .. n, m - 1 \in Good PROVE m \in Good
  <2>1. f[m] = IF m = 1 THEN ss[m] ELSE f[m - 1] \o ss[m]
    BY <1>1 DEF FlatBy
  <2>2. CASE m = 1
    <3>1. f[m] = ss[m]
      BY <2>1, <2>2
    <3>2. Sorted(g, f[m], T, A, g[e[m]] + S)
      <4>1. PICK G \in Nat : G = g[e[m]] /\ A <= G
        BY <1>3
      <4>2. Sorted(g, ss[m], T, G, G + S)
        BY <1>3, <4>1
      <4>3. \A j \in DOMAIN ss[m] : g[ss[m][j]] \in Nat
        BY <4>2 DEF Sorted
      <4>4. Sorted(g, ss[m], T, A, G + S)
        BY <4>1, <4>2, <4>3 DEF Sorted
      <4> QED
        BY <3>1, <4>1, <4>4
    <3>3. ASSUME NEW x PROVE FlatOf(f[m], m, ss, x)
      <4>1. 1 .. m = {m}
        BY <2>2
      <4> QED
        BY <3>1, <4>1 DEF FlatOf
    <3> QED
      BY <3>2, <3>3
  <2>3. CASE m # 1
    <3>1. f[m] = f[m - 1] \o ss[m] /\ m - 1 \in 1 .. n
      BY <2>1, <2>3
    <3>2. Sorted(g, f[m - 1], T, A, g[e[m - 1]] + S) /\ \A x : FlatOf(f[m - 1], m - 1, ss, x)
      BY <1>5, <2>3
    <3>3. PICK G \in Nat, H \in Nat : G = g[e[m - 1]] /\ H = g[e[m]] /\ G + S <= H /\ A <= G
      BY <1>3, <2>3, <3>1
    <3>4. PICK r, s : r = f[m - 1] /\ s = ss[m]
      OBVIOUS
    <3>5. Sorted(g, r, T, A, G + S) /\ Sorted(g, s, T, H, H + S)
      BY <1>3, <3>2, <3>3, <3>4
    <3>6. PICK C \in Int, D \in Int : C = G + S /\ D = H + S /\ A <= C /\ C <= H /\ H <= D
      <4>1. G + S \in Int /\ H + S \in Int
        OBVIOUS
      <4>2. A <= G + S /\ H <= H + S
        BY <3>3
      <4> QED
        BY <3>3, <4>1, <4>2
    <3>7. Sorted(g, r \o s, T, A, D) /\ \A x : JoinOf(r, s, x)
      <4>1. Sorted(g, r, T, A, C) /\ Sorted(g, s, T, H, D) /\ H \in Int
        BY <3>3, <3>5, <3>6
      <4> QED
        BY <3>6, <4>1, JoinSorted
    <3>8. f[m] = r \o s
      BY <3>1, <3>4
    <3>9. ASSUME NEW x PROVE FlatOf(f[m], m, ss, x)
      <4>1. x \in Range(f[m]) <=> x \in Range(r) \/ x \in Range(s)
        BY <3>7, <3>8 DEF JoinOf
      <4>2. x \in Range(r) <=> \E j \in 1 .. m - 1 : x \in Range(ss[j])
        BY <3>2, <3>4 DEF FlatOf
      <4>3. 1 .. m = (1 .. m - 1) \union {m}
        OBVIOUS
      <4> QED
        BY <3>4, <4>1, <4>2, <4>3 DEF FlatOf
    <3>10. Sorted(g, f[m], T, A, D)
      BY <3>7, <3>8, Zenon
    <3>11. D = g[e[m]] + S
      BY <3>3, <3>6
    <3> HIDE DEF Sorted, FlatOf
    <3> QED
      BY <3>9, <3>10, <3>11
  <2> QED
    BY <2>2, <2>3
<1>6. n \in Good
  <2> HIDE DEF Good
  <2>1. 0 .. n \subseteq Good
    BY <1>4, <1>5, UpTo
  <2> QED
    BY <2>1
<1>7. Sorted(g, f[n], T, A, g[e[n]] + S) /\ \A x : FlatOf(f[n], n, ss, x)
  BY <1>6
<1>8. Sorted(g, f[n], T, A, B)
  <2>1. PICK G \in Nat : G = g[e[n]] /\ G + S <= B
    BY <1>3
  <2>2. PICK h : h = f[n]
    OBVIOUS
  <2>3. Sorted(g, h, T, A, G + S)
    BY <1>7, <2>1, <2>2
  <2>4. \A j \in DOMAIN h : g[h[j]] \in Nat
    BY <2>3 DEF Sorted
  <2>5. Sorted(g, h, T, A, B)
    BY <2>1, <2>3, <2>4 DEF Sorted
  <2> QED
    BY <2>2, <2>5
<1> QED
  BY <1>1, <1>7, <1>8

(* The blocks of level l of an inode, with the numbers from A to B.        *)
Visits(at, g, i, s, l, A, B) ==
    /\ Sorted(g, s, Span(l), A, B)
    /\ \A j \in DOMAIN s : s[j] \in DOMAIN at /\ at[s[j]].own = i /\ at[s[j]].lvl = l

(* The pointers b of an inode, and the blocks of its file as they are read. *)
Readable(at, g, i) ==
    /\ DOMAIN at \subseteq Blocks /\ g \in [Blocks -> Nat]
    /\ \A p \in DOMAIN at : at[p].own = i /\ at[p].lvl > 0 =>
           /\ ReadArray(p) \in Array /\ Right(at, ReadArray(p), i, at[p].lvl - 1, p)
           /\ Numbers(g, ReadArray(p), at[p].lvl - 1, g[p])
Pointing(at, g, i, b) ==
    \A k \in Levels : /\ b[k] \in [1 .. Pointers(k) -> Refs]
                      /\ Right(at, b[k], i, k, NoBlock) /\ Numbers(g, b[k], k, Limit(k))
Tree(at, g, i, b) == Readable(at, g, i) /\ Pointing(at, g, i, b)
Found(at, b, x) == Has(IF at[x].up = NoBlock THEN b[at[x].lvl] ELSE ReadArray(at[x].up), at, x)
Climb(at, K, i, b) ==
    \A x \in K : at[x].own = i =>
        /\ x \in DOMAIN at /\ Found(at, b, x) /\ at[x].lvl \in Levels
        /\ at[x].up # NoBlock => /\ at[x].up \in K /\ at[at[x].up].own = i
                                 /\ at[at[x].up].lvl = at[x].lvl + 1

LEMMA WalkOfArray ==
    ASSUME NEW at, NEW k \in Levels, NEW n \in Nat, NEW a \in [1 .. n -> Refs], NEW i, NEW p,
           Right(at, a, i, k, p), NEW g \in [Blocks -> Nat], NEW B \in Nat, Numbers(g, a, k, B)
    PROVE  /\ Visits(at, g, i, Entries(a), k, B, B + n * Span(k))
           /\ \A x \in Blocks : (\E s \in DOMAIN a : a[s] = x) => x \in Range(Entries(a))
<1>1. PICK e : e = Entries(a)
  OBVIOUS
<1>2. Children(at, e, i, k, p)
  BY <1>1, ChildrenAre
<1>3. /\ e \in Seq(Blocks) /\ Len(e) \in 0 .. n /\ DOMAIN e = 1 .. Len(e)
      /\ \A s \in DOMAIN e : e[s] = a[s] /\ a[s] # NoBlock /\ s \in DOMAIN a /\ s \in Nat
  BY <1>1, EntriesAre
<1>4. PICK S \in Nat : S = Span(k) /\ S >= 1
  BY LimitsAre
<1>5. ASSUME NEW s \in DOMAIN e
      PROVE  /\ \E Q \in Nat : Q = (s - 1) * S /\ g[e[s]] = B + Q
             /\ g[e[s]] + S <= B + n * S
  <2>1. (s - 1) * S \in Nat
    <3>1. s - 1 \in Nat
      BY <1>3
    <3> QED
      BY <3>1, MulNat
  <2>2. g[e[s]] = B + (s - 1) * S
    BY <1>3, <1>4 DEF Numbers
  <2>3. g[a[s]] + Span(k) <= B + n * Span(k)
    <3>1. DOMAIN a = 1 .. n /\ s \in DOMAIN a /\ a[s] # NoBlock
      BY <1>3
    <3> QED
      BY <3>1, NumberInArray
  <2> QED
    BY <1>3, <1>4, <2>1, <2>2, <2>3
<1>6. ASSUME NEW s \in DOMAIN e, NEW t \in DOMAIN e, s < t PROVE g[e[s]] + S <= g[e[t]]
  <2>1. PICK Q \in Nat : Q = (s - 1) * S /\ g[e[s]] = B + Q
    BY <1>5
  <2>2. PICK R \in Nat : R = (t - 1) * S /\ g[e[t]] = B + R
    BY <1>5
  <2>3. s - 1 \in Int /\ t - 1 \in Int /\ s - 1 < t - 1
    BY <1>3, <1>6
  <2>4. (s - 1) * S + S <= (t - 1) * S
    BY <1>4, <2>3, MulLess
  <2> QED
    BY <2>1, <2>2, <2>4
<1>7. Sorted(g, e, S, B, B + n * S)
  <2>1. ASSUME NEW s \in DOMAIN e PROVE B <= g[e[s]] /\ g[e[s]] + S <= B + n * S
    BY <1>5
  <2> QED
    BY <1>3, <1>6, <2>1 DEF Sorted
<1>8. Visits(at, g, i, e, k, B, B + n * Span(k))
  BY <1>2, <1>4, <1>7 DEF Visits, Children
<1>9. ASSUME NEW x \in Blocks, NEW s \in DOMAIN a, a[s] = x PROVE x \in Range(e)
  <2>1. s \in 1 .. Len(e) /\ e[s] = x
    BY <1>1, <1>9, EntryOf DEF Right
  <2> QED
    BY <1>3, <2>1 DEF Range
<1> QED
  BY <1>1, <1>8, <1>9

LEMMA WalkOfBlock ==
    ASSUME NEW at, NEW g, NEW i, Readable(at, g, i), NEW k \in Levels, k > 0, NEW x \in DOMAIN at,
           at[x].own = i, at[x].lvl = k
    PROVE  /\ Visits(at, g, i, Entries(ReadArray(x)), k - 1, g[x], g[x] + Span(k))
           /\ \A y \in DOMAIN at : Has(ReadArray(x), at, y) => y \in Range(Entries(ReadArray(x)))
<1>0. PICK h \in Levels : h = k - 1
  BY SpanBelow
<1>1. PICK a : a = ReadArray(x)
  OBVIOUS
<1>2. /\ Right(at, a, i, h, x) /\ x \in Blocks /\ a \in [1 .. BPI -> Refs]
      /\ Numbers(g, a, h, g[x]) /\ g[x] \in Nat /\ g \in [Blocks -> Nat]
  BY <1>0, <1>1 DEF Readable, Array
<1>4. PICK n \in Nat : n = BPI /\ n * Span(h) = Span(k)
  <2>1. Span(k) = BPI * Span(k - 1) /\ BPI \in Nat
    BY SpanBelow, Layout
  <2> QED
    BY <1>0, <2>1
<1>5. /\ Visits(at, g, i, Entries(a), h, g[x], g[x] + n * Span(h))
      /\ \A y \in Blocks : (\E s \in DOMAIN a : a[s] = y) => y \in Range(Entries(a))
  BY <1>2, <1>4, WalkOfArray
<1>6. ASSUME NEW y \in DOMAIN at, Has(a, at, y) PROVE y \in Range(Entries(a))
  <2>1. at[y].idx \in DOMAIN a /\ a[at[y].idx] = y
    BY <1>6 DEF Has
  <2>2. y \in Blocks
    BY DEF Readable
  <2> QED
    BY <1>5, <2>1, <2>2
<1> QED
  BY <1>0, <1>1, <1>4, <1>5, <1>6

(* What a walk one level down meets.                                       *)
BelowIn(at, e, f) ==
    \A y \in DOMAIN at : at[y].up \in Range(e) /\ Has(ReadArray(at[y].up), at, y) => y \in Range(f)
LEMMA WalkBelow ==
    ASSUME NEW at, NEW g, NEW i, Readable(at, g, i), NEW k \in Levels, k > 0, NEW a, Heads(a),
           NEW A \in Int, NEW B \in Int, Visits(at, g, i, Entries(a), k, A, B)
    PROVE  /\ Visits(at, g, i, Below(a), k - 1, A, B)
           /\ BelowIn(at, Entries(a), Below(a))
           /\ Entries(Below(a)) = Below(a) /\ Heads(Below(a))
           /\ Entries(a) = <<>> => Below(a) = <<>>
<1>1. PICK e : e = Entries(a)
  OBVIOUS
<1>2. PICK n \in Nat : n = Len(e) /\ e \in Seq(Blocks) /\ DOMAIN e = 1 .. n
  BY <1>1 DEF Visits, Sorted
<1>3. \A j \in 1 .. n : e[j] = a[j] /\ e[j] \in DOMAIN at /\ at[e[j]].own = i /\ at[e[j]].lvl = k
  BY <1>1, <1>2 DEF Visits, Heads
<1>4. PICK h \in Levels, S \in Nat, T \in Nat : h = k - 1 /\ S = Span(k) /\ T = Span(h)
  BY SpanBelow, LimitsAre
<1> DEFINE R(j) == Entries(ReadArray(a[j]))
           ss == [j \in 1 .. n |-> R(j)]
<1>5. ASSUME NEW j \in 1 .. n
      PROVE  /\ Visits(at, g, i, R(j), h, g[e[j]], g[e[j]] + S)
             /\ \A y \in DOMAIN at : Has(ReadArray(e[j]), at, y) => y \in Range(R(j))
  <2>1. PICK x \in DOMAIN at : x = e[j] /\ x = a[j] /\ at[x].own = i /\ at[x].lvl = k
    BY <1>3
  <2> QED
    BY <1>4, <2>1, WalkOfBlock
<1>6. Below(a) = FlattenSeq(ss)
  BY <1>1, <1>2 DEF Below
<1>7. ss \in [1 .. n -> Seq(Blocks)] /\ \A j \in 1 .. n : ss[j] = R(j)
  BY <1>5 DEF Visits, Sorted
<1> HIDE DEF ss, R
<1>8. PICK f : f = Below(a)
  OBVIOUS
<1>9. Sorted(g, f, T, A, B) /\ \A x : x \in Range(f) <=> \E j \in 1 .. n : x \in Range(ss[j])
  <2>1. CASE n = 0
    <3>1. Len(ss) = 0
      BY <1>7, <2>1, ArrayIs
    <3>2. FlattenSeq(ss) = ss
      BY <3>1 DEF FlattenSeq
    <3>3. ss = <<>>
      BY <1>7, <2>1
    <3>4. f = <<>>
      BY <1>6, <1>8, <3>2, <3>3, Zenon
    <3>5. f \in Seq(Blocks) /\ DOMAIN f = {}
      BY <3>4
    <3> QED
      BY <2>1, <3>5 DEF Sorted, Range
  <2>2. CASE n # 0
    <3>1. Sorted(g, e, S, A, B) /\ g \in [Blocks -> Nat]
      BY <1>1, <1>4 DEF Visits, Readable
    <3>2. SortedBelow(g, e, S, T, ss)
      BY <1>2, <1>4, <1>5, <1>7 DEF SortedBelow, Visits
    <3>3. n >= 1
      BY <2>2
    <3>4. Sorted(g, FlattenSeq(ss), T, A, B) /\ \A x : FlatOf(FlattenSeq(ss), n, ss, x)
      BY <1>2, <1>7, <3>1, <3>2, <3>3, FlatSorted
    <3>5. f = FlattenSeq(ss)
      BY <1>6, <1>8
    <3>6. Sorted(g, f, T, A, B) /\ \A x : FlatOf(f, n, ss, x)
      BY <3>4, <3>5, Zenon
    <3> QED
      BY <3>6 DEF FlatOf
  <2> QED
    BY <2>1, <2>2
<1>10. ASSUME NEW u \in DOMAIN f PROVE f[u] \in DOMAIN at /\ at[f[u]].own = i /\ at[f[u]].lvl = h
  <2>1. f[u] \in Range(f)
    BY DEF Range
  <2>2. PICK j \in 1 .. n : f[u] \in Range(ss[j])
    BY <1>9, <2>1
  <2>3. PICK v \in DOMAIN ss[j] : f[u] = ss[j][v]
    BY <2>2 DEF Range
  <2> QED
    BY <1>5, <1>7, <2>3 DEF Visits
<1>11. Visits(at, g, i, f, h, A, B)
  BY <1>4, <1>9, <1>10 DEF Visits
<1>12. BelowIn(at, e, f)
  <2> SUFFICES ASSUME NEW y \in DOMAIN at, at[y].up \in Range(e), Has(ReadArray(at[y].up), at, y)
               PROVE  y \in Range(f)
    BY DEF BelowIn
  <2>1. PICK j \in 1 .. n : at[y].up = e[j]
    BY <1>2 DEF Range
  <2> QED
    BY <1>5, <1>7, <1>9, <2>1
<1>13. Entries(f) = f /\ Heads(f)
  BY <1>11, EntriesFull DEF Visits, Sorted
<1>14. ASSUME e = <<>> PROVE f = <<>>
  <2>1. f \in Seq(Blocks) /\ DOMAIN f = 1 .. Len(f) /\ Len(f) \in Nat
    BY <1>9 DEF Sorted
  <2>2. n = 0
    BY <1>2, <1>14
  <2>3. Range(f) = {}
    BY <1>9, <2>2
  <2>4. DOMAIN f = {}
    BY <2>3 DEF Range
  <2>5. Len(f) = 0
    BY <2>1, <2>4
  <2> QED
    BY <2>1, <2>5
<1> QED
  BY <1>1, <1>4, <1>8, <1>11, <1>12, <1>13, <1>14

RootsIn(at, i, b, k, s) ==
    \A y \in DOMAIN at : at[y].own = i /\ at[y].lvl = k /\ at[y].up = NoBlock /\ Has(b[k], at, y)
                            => y \in Range(s)
LEMMA VisitsLevel ==
    ASSUME NEW at, NEW g, NEW i, NEW b, Tree(at, g, i, b), NEW k \in Levels
    PROVE  /\ Visits(at, g, i, Entries(b[k]), k, Limit(k), Limit(k + 1))
           /\ RootsIn(at, i, b, k, Entries(b[k])) /\ Heads(b[k])
           /\ Entries(b[k]) # <<>> => \E s \in DOMAIN b[k] : b[k][s] # NoBlock
<1>1. PICK a, n, B : a = b[k] /\ n = Pointers(k) /\ B = Limit(k)
  OBVIOUS
<1>2. n \in Nat /\ a \in [1 .. n -> Refs] /\ B \in Nat /\ B + n * Span(k) = Limit(k + 1)
  <2>1. b[k] \in [1 .. Pointers(k) -> Refs]
    BY DEF Tree, Pointing
  <2>2. Pointers(k) \in Nat
    BY LayoutAssumption DEF Levels, Pointers
  <2>3. Limit(k) \in Nat /\ Limit(k + 1) = Limit(k) + Pointers(k) * Span(k)
    BY LimitsAre DEF Levels
  <2> QED
    BY <1>1, <2>1, <2>2, <2>3
<1>3. Right(at, a, i, k, NoBlock) /\ g \in [Blocks -> Nat] /\ Numbers(g, a, k, B)
  BY <1>1 DEF Tree, Pointing, Readable
<1>4. /\ Visits(at, g, i, Entries(a), k, B, B + n * Span(k))
      /\ \A x \in Blocks : (\E s \in DOMAIN a : a[s] = x) => x \in Range(Entries(a))
  BY <1>2, <1>3, WalkOfArray
<1>5. ASSUME NEW y \in DOMAIN at, Has(a, at, y) PROVE y \in Range(Entries(a))
  <2>1. at[y].idx \in DOMAIN a /\ a[at[y].idx] = y
    BY <1>5 DEF Has
  <2>2. y \in Blocks
    BY DEF Tree, Readable
  <2> QED
    BY <1>4, <2>1, <2>2
<1>6. Heads(a)
  BY <1>2, HeadsOfArray
<1>7. ASSUME Entries(a) # <<>> PROVE \E s \in DOMAIN a : a[s] # NoBlock
  <2>1. PICK e : e = Entries(a)
    OBVIOUS
  <2>2. e \in Seq(Blocks) /\ \A s \in DOMAIN e : a[s] # NoBlock /\ s \in DOMAIN a
    BY <1>2, <2>1, EntriesAre
  <2>3. 1 \in DOMAIN e
    BY <1>7, <2>1, <2>2
  <2> QED
    BY <2>2, <2>3
<1> QED
  BY <1>1, <1>2, <1>4, <1>5, <1>6, <1>7 DEF RootsIn

(* The data blocks of the four levels, and every one of them.              *)
VisitsData(at, g, i, b, f, k) ==
    /\ Visits(at, g, i, f, 0, Limit(k), Limit(k + 1))
    /\ f # <<>> => \E s \in DOMAIN b[k] : b[k][s] # NoBlock
LEMMA VisitsFile ==
    ASSUME NEW at, NEW g, NEW i, NEW b, Tree(at, g, i, b), NEW K, Climb(at, K, i, b)
    PROVE  /\ VisitsData(at, g, i, b, Entries(b[0]), 0)
           /\ VisitsData(at, g, i, b, Below(b[1]), 1)
           /\ VisitsData(at, g, i, b, Below(Below(b[2])), 2)
           /\ VisitsData(at, g, i, b, Below(Below(Below(b[3]))), 3)
           /\ \A x \in K : DataOf(at, i, x) =>
                  \/ x \in Range(Entries(b[0])) \/ x \in Range(Below(b[1]))
                  \/ x \in Range(Below(Below(b[2]))) \/ x \in Range(Below(Below(Below(b[3]))))
<1>1. Readable(at, g, i)
  BY DEF Tree
<1>2. ASSUME NEW k \in Levels
      PROVE  /\ Visits(at, g, i, Entries(b[k]), k, Limit(k), Limit(k + 1))
             /\ RootsIn(at, i, b, k, Entries(b[k])) /\ Heads(b[k])
             /\ Entries(b[k]) # <<>> => \E s \in DOMAIN b[k] : b[k][s] # NoBlock
             /\ Limit(k) \in Int /\ Limit(k + 1) \in Int
  <2>1. k \in 0 .. 4 /\ k + 1 \in 0 .. 4
    BY DEF Levels
  <2>2. Limit(k) \in Int /\ Limit(k + 1) \in Int
    BY <2>1, LimitsAre
  <2> QED
    BY <2>2, VisitsLevel
<1>3. 0 \in Levels /\ 1 \in Levels /\ 2 \in Levels /\ 3 \in Levels
  BY DEF Levels
<1>4. ASSUME NEW k \in Levels, NEW l \in Levels, NEW h \in Levels, l = h + 1, NEW a,
             Heads(a) /\ Visits(at, g, i, Entries(a), l, Limit(k), Limit(k + 1))
      PROVE  /\ Heads(Below(a)) /\ Visits(at, g, i, Entries(Below(a)), h, Limit(k), Limit(k + 1))
             /\ Entries(Below(a)) = Below(a)
             /\ BelowIn(at, Entries(a), Below(a))
             /\ Entries(a) = <<>> => Below(a) = <<>>
  <2>1. PICK A \in Int, B \in Int : A = Limit(k) /\ B = Limit(k + 1)
    BY <1>2
  <2>2. l > 0 /\ l - 1 = h
    BY <1>4 DEF Levels
  <2>3. /\ Visits(at, g, i, Below(a), l - 1, A, B) /\ BelowIn(at, Entries(a), Below(a))
        /\ Entries(Below(a)) = Below(a) /\ Heads(Below(a))
        /\ Entries(a) = <<>> => Below(a) = <<>>
    BY <1>1, <1>4, <2>1, <2>2, WalkBelow
  <2> QED
    BY <2>1, <2>2, <2>3
<1>5. PICK b0, b1, b2, b3 : b0 = b[0] /\ b1 = b[1] /\ b2 = b[2] /\ b3 = b[3]
  OBVIOUS
<1>6. PICK c1, c2, c3, d2, d3, f3 :
          /\ c1 = Below(b1) /\ c2 = Below(b2) /\ c3 = Below(b3)
          /\ d2 = Below(c2) /\ d3 = Below(c3) /\ f3 = Below(d3)
  OBVIOUS
<1> DEFINE To(a, l, k) == /\ Heads(a) /\ Visits(at, g, i, Entries(a), l, Limit(k), Limit(k + 1))
                          /\ Entries(a) # <<>> => \E s \in DOMAIN b[k] : b[k][s] # NoBlock
           Down(a, c) == Entries(c) = c /\ BelowIn(at, Entries(a), c)
<1>7. /\ RootsIn(at, i, b, 0, Entries(b0)) /\ RootsIn(at, i, b, 1, Entries(b1))
      /\ RootsIn(at, i, b, 2, Entries(b2)) /\ RootsIn(at, i, b, 3, Entries(b3))
      /\ To(b0, 0, 0) /\ To(b1, 1, 1) /\ To(b2, 2, 2) /\ To(b3, 3, 3)
  BY <1>2, <1>3, <1>5
<1>8. ASSUME NEW k \in Levels, NEW l \in Levels, NEW h \in Levels, l = h + 1, NEW a, To(a, l, k),
             NEW c, c = Below(a)
      PROVE  To(c, h, k) /\ Down(a, c)
  BY <1>4, <1>8
<1> HIDE DEF To, Down
<1>9. 1 = 0 + 1 /\ 2 = 1 + 1 /\ 3 = 2 + 1
  OBVIOUS
<1>10. To(c1, 0, 1) /\ Down(b1, c1)
  BY <1>3, <1>6, <1>7, <1>8, <1>9
<1>11. To(c2, 1, 2) /\ Down(b2, c2)
  BY <1>3, <1>6, <1>7, <1>8, <1>9
<1>12. To(d2, 0, 2) /\ Down(c2, d2)
  BY <1>3, <1>6, <1>8, <1>9, <1>11
<1>13. To(c3, 2, 3) /\ Down(b3, c3)
  BY <1>3, <1>6, <1>7, <1>8, <1>9
<1>14. To(d3, 1, 3) /\ Down(c3, d3)
  BY <1>3, <1>6, <1>8, <1>9, <1>13
<1>15. To(f3, 0, 3) /\ Down(d3, f3)
  BY <1>3, <1>6, <1>8, <1>9, <1>14
<1>16. PICK e0, e1, e2, e3 : e0 = Entries(b0) /\ e1 = Entries(b1) /\ e2 = Entries(b2) /\ e3 = Entries(b3)
  OBVIOUS
<1>17. /\ VisitsData(at, g, i, b, e0, 0) /\ VisitsData(at, g, i, b, c1, 1)
       /\ VisitsData(at, g, i, b, d2, 2) /\ VisitsData(at, g, i, b, f3, 3)
  BY <1>7, <1>10, <1>12, <1>15, <1>16 DEF To, Down, VisitsData
<1>18. /\ BelowIn(at, e1, c1) /\ BelowIn(at, e2, c2) /\ BelowIn(at, c2, d2)
       /\ BelowIn(at, e3, c3) /\ BelowIn(at, c3, d3) /\ BelowIn(at, d3, f3)
  BY <1>10, <1>11, <1>12, <1>13, <1>14, <1>15, <1>16 DEF Down
<1>19. /\ RootsIn(at, i, b, 0, e0) /\ RootsIn(at, i, b, 1, e1)
       /\ RootsIn(at, i, b, 2, e2) /\ RootsIn(at, i, b, 3, e3)
  BY <1>7, <1>16
(* Up from the block to the inode.                                         *)
<1>20. ASSUME NEW x \in K, at[x].own = i
       PROVE  /\ x \in DOMAIN at /\ at[x].lvl \in Levels
              /\ at[x].up = NoBlock => Has(b[at[x].lvl], at, x)
              /\ at[x].up # NoBlock => /\ at[x].up \in K /\ at[at[x].up].own = i
                                       /\ at[at[x].up].lvl = at[x].lvl + 1
                                       /\ Has(ReadArray(at[x].up), at, x)
  BY <1>20 DEF Climb, Found
<1>21. ASSUME NEW x \in K, at[x].own = i, at[x].lvl = 3 PROVE x \in Range(e3)
  BY <1>19, <1>20, <1>21 DEF RootsIn, Levels
<1>22. ASSUME NEW x \in K, at[x].own = i, at[x].lvl = 2 PROVE x \in Range(e2) \/ x \in Range(c3)
  <2>1. CASE at[x].up = NoBlock
    BY <1>19, <1>20, <1>22, <2>1 DEF RootsIn
  <2>2. CASE at[x].up # NoBlock
    BY <1>18, <1>20, <1>21, <1>22, <2>2 DEF BelowIn
  <2> QED
    BY <2>1, <2>2
<1>23. ASSUME NEW x \in K, at[x].own = i, at[x].lvl = 1
       PROVE  x \in Range(e1) \/ x \in Range(c2) \/ x \in Range(d3)
  <2>1. CASE at[x].up = NoBlock
    BY <1>19, <1>20, <1>23, <2>1 DEF RootsIn
  <2>2. CASE at[x].up # NoBlock
    BY <1>18, <1>20, <1>22, <1>23, <2>2 DEF BelowIn
  <2> QED
    BY <2>1, <2>2
<1>24. ASSUME NEW x \in K, at[x].own = i, at[x].lvl = 0
       PROVE  x \in Range(e0) \/ x \in Range(c1) \/ x \in Range(d2) \/ x \in Range(f3)
  <2>1. CASE at[x].up = NoBlock
    BY <1>19, <1>20, <1>24, <2>1 DEF RootsIn
  <2>2. CASE at[x].up # NoBlock
    BY <1>18, <1>20, <1>23, <1>24, <2>2 DEF BelowIn
  <2> QED
    BY <2>1, <2>2
<1> QED
  BY <1>5, <1>6, <1>16, <1>17, <1>24 DEF DataOf

LEMMA LimitsRise ==
    /\ Limit(0) = 0 /\ Limit(1) \in Nat /\ Limit(2) \in Nat /\ Limit(3) \in Nat /\ Limit(4) \in Nat
    /\ Limit(1) <= Limit(2) /\ Limit(2) <= Limit(3) /\ Limit(3) <= Limit(4)
<1>1. \A k \in 0 .. 4 : Limit(k) \in Nat
  BY LimitsAre
<1>2. Limit(1) <= Limit(2) /\ Limit(2) <= Limit(3)
  <2>2. /\ Limit(1 + 1) = Limit(1) + Pointers(1) * Span(1) /\ Pointers(1) * Span(1) \in Nat
        /\ Limit(2 + 1) = Limit(2) + Pointers(2) * Span(2) /\ Pointers(2) * Span(2) \in Nat
    BY LimitsAre DEF Levels
  <2> QED
    BY <1>1, <2>2
<1>3. Limit(3) <= Limit(4)
  <2>1. Limit(3 + 1) = Limit(3) + Pointers(3) * Span(3) /\ Pointers(3) * Span(3) \in Nat
    BY LimitsAre DEF Levels
  <2> QED
    BY <1>1, <2>1
<1> QED
  BY <1>1, <1>2, <1>3, LimitsAre

(* A data block of the file is in a level that has a pointer.              *)
Reached(at, g, i, b, x) ==
    /\ x \in DOMAIN at /\ DataOf(at, i, x)
    /\ \E k \in Levels : /\ g[x] < Limit(k + 1)
                         /\ \E s \in DOMAIN b[k] : b[k][s] # NoBlock
LEMMA ReachedLevel ==
    ASSUME NEW at, NEW g \in [Blocks -> Nat], NEW i, NEW b, NEW f, NEW k \in Levels,
           VisitsData(at, g, i, b, f, k), NEW x \in Range(f)
    PROVE  Reached(at, g, i, b, x)
<1>1. PICK j \in DOMAIN f : x = f[j]
  BY DEF Range
<1>2. f \in Seq(Blocks) /\ g[f[j]] + Span(0) <= Limit(k + 1) /\ f[j] \in Blocks
  BY DEF VisitsData, Visits, Sorted
<1>3. g[x] \in Nat /\ Limit(k + 1) \in Nat /\ Span(0) = 1
  <2>1. k + 1 \in 0 .. 4
    BY DEF Levels
  <2> QED
    BY <1>1, <1>2, <2>1, LimitsAre DEF Span
<1>4. g[x] < Limit(k + 1)
  BY <1>1, <1>2, <1>3
<1>5. f # <<>>
  BY <1>1
<1>6. x \in DOMAIN at /\ DataOf(at, i, x)
  BY <1>1 DEF VisitsData, Visits, DataOf
<1> QED
  BY <1>4, <1>5, <1>6 DEF VisitsData, Reached

LEMMA FileSorted ==
    ASSUME NEW at, NEW g, NEW i, NEW inode, Tree(at, g, i, inode.blocks), NEW K,
           Climb(at, K, i, inode.blocks)
    PROVE  /\ Sorted(g, FileBlocks(inode), 1, 0, Limit(4))
           /\ \A x \in K : DataOf(at, i, x) => x \in Range(FileBlocks(inode))
           /\ \A x \in Range(FileBlocks(inode)) : Reached(at, g, i, inode.blocks, x)
<1>1. PICK b : b = inode.blocks
  OBVIOUS
<1>2. PICK f0, f1, f2, f3 :
          /\ f0 = Entries(b[0]) /\ f1 = Below(b[1])
          /\ f2 = Below(Below(b[2])) /\ f3 = Below(Below(Below(b[3])))
  OBVIOUS
<1>3. /\ VisitsData(at, g, i, b, f0, 0) /\ VisitsData(at, g, i, b, f1, 1)
      /\ VisitsData(at, g, i, b, f2, 2) /\ VisitsData(at, g, i, b, f3, 3)
      /\ \A x \in K : DataOf(at, i, x) =>
             x \in Range(f0) \/ x \in Range(f1) \/ x \in Range(f2) \/ x \in Range(f3)
  BY <1>1, <1>2, VisitsFile
<1>4. PICK A \in Int, B \in Int, C \in Int, D \in Int :
          /\ A = Limit(1) /\ B = Limit(2) /\ C = Limit(3) /\ D = Limit(4) /\ Limit(0) = 0
          /\ 0 <= A /\ A <= B /\ B <= C /\ C <= D
  BY LimitsRise
<1>5. /\ Sorted(g, f0, 1, 0, A) /\ Sorted(g, f1, 1, A, B)
      /\ Sorted(g, f2, 1, B, C) /\ Sorted(g, f3, 1, C, D)
  <2>1. Span(0) = 1
    BY DEF Span
  <2>2. /\ Sorted(g, f0, 1, Limit(0), Limit(0 + 1)) /\ Sorted(g, f1, 1, Limit(1), Limit(1 + 1))
        /\ Sorted(g, f2, 1, Limit(2), Limit(2 + 1)) /\ Sorted(g, f3, 1, Limit(3), Limit(3 + 1))
    BY <1>3, <2>1 DEF VisitsData, Visits
  <2>3. 0 + 1 = 1 /\ 1 + 1 = 2 /\ 2 + 1 = 3 /\ 3 + 1 = 4
    OBVIOUS
  <2> QED
    BY <1>4, <2>2, <2>3
<1>6. PICK p1, p2, p3 : p1 = f0 \o f1 /\ p2 = p1 \o f2 /\ p3 = p2 \o f3
  OBVIOUS
<1>7. g \in [Blocks -> Nat] /\ 0 \in Int /\ 1 \in Nat /\ 0 <= B /\ 0 <= C /\ A <= A /\ B <= B /\ C <= C
  BY <1>4 DEF Tree, Readable
<1>8. Sorted(g, p1, 1, 0, B) /\ \A x : JoinOf(f0, f1, x)
  <2>1. Sorted(g, f0 \o f1, 1, 0, B) /\ \A x : JoinOf(f0, f1, x)
    BY <1>4, <1>5, <1>7, JoinSorted
  <2> QED
    BY <1>6, <2>1
<1>9. Sorted(g, p2, 1, 0, C) /\ \A x : JoinOf(p1, f2, x)
  <2>1. Sorted(g, p1, 1, 0, B) /\ Sorted(g, f2, 1, B, C) /\ 0 <= B /\ B <= B /\ B <= C
    BY <1>4, <1>5, <1>7, <1>8
  <2>2. Sorted(g, p1 \o f2, 1, 0, C) /\ \A x : JoinOf(p1, f2, x)
    BY <1>7, <2>1, JoinSorted
  <2> QED
    BY <1>6, <2>2
<1>10. Sorted(g, p3, 1, 0, D) /\ \A x : JoinOf(p2, f3, x)
  <2>1. Sorted(g, p2, 1, 0, C) /\ Sorted(g, f3, 1, C, D) /\ 0 <= C /\ C <= C /\ C <= D
    BY <1>4, <1>5, <1>7, <1>9
  <2>2. Sorted(g, p2 \o f3, 1, 0, D) /\ \A x : JoinOf(p2, f3, x)
    BY <1>7, <2>1, JoinSorted
  <2> QED
    BY <1>6, <2>2
<1>11. FileBlocks(inode) = p3
  BY <1>1, <1>2, <1>6, Zenon DEF FileBlocks
<1>12. ASSUME NEW x
       PROVE  x \in Range(p3) <=> x \in Range(f0) \/ x \in Range(f1) \/ x \in Range(f2) \/ x \in Range(f3)
  <2>1. /\ x \in Range(p1) <=> x \in Range(f0) \/ x \in Range(f1)
        /\ x \in Range(p2) <=> x \in Range(p1) \/ x \in Range(f2)
        /\ x \in Range(p3) <=> x \in Range(p2) \/ x \in Range(f3)
    BY <1>6, <1>8, <1>9, <1>10 DEF JoinOf
  <2> QED
    BY <2>1
<1>13. ASSUME NEW x \in Range(p3) PROVE Reached(at, g, i, b, x)
  <2>1. 0 \in Levels /\ 1 \in Levels /\ 2 \in Levels /\ 3 \in Levels
    BY DEF Levels
  <2> QED
    BY <1>3, <1>7, <1>12, <2>1, ReachedLevel
<1> QED
  BY <1>1, <1>3, <1>4, <1>10, <1>11, <1>12, <1>13

LEMMA KeptTree ==
    ASSUME TypeInv, NEW at, NEW g, Placed(at), Numbered(at, g), NEW i \in linked
    PROVE  Tree(at, g, i, ino[i].blocks)
<1>1. PICK b : b = ino[i].blocks
  OBVIOUS
<1>2. Forest(at) /\ PoolType /\ g \in [Blocks -> Nat] /\ DiskNumbers(at, g)
  BY DEF Placed, TypeInv, Numbered
<1>3. DOMAIN at \subseteq Blocks /\ \A p \in DOMAIN at : ReadArray(p) = content[p] /\ content[p] \in Array
  BY <1>2 DEF Forest, PoolType, ReadArray
<1>4. Readable(at, g, i)
  BY <1>2, <1>3 DEF Readable, Forest, DiskNumbers
<1>5. IsInode(ino[i])
  BY DEF TypeInv, InodesType
<1>6. Pointing(at, g, i, b)
  BY <1>1, <1>2, <1>5 DEF Pointing, Forest, DiskNumbers, IsInode
<1> QED
  BY <1>1, <1>4, <1>6 DEF Tree

LEMMA RootedClimb ==
    ASSUME PoolType, NEW at, Forest(at), NEW K, Rooted(at, K), NEW i
    PROVE  Climb(at, K, i, ino[i].blocks)
<1> SUFFICES ASSUME NEW x \in K, at[x].own = i
             PROVE  /\ x \in DOMAIN at /\ Found(at, ino[i].blocks, x) /\ at[x].lvl \in Levels
                    /\ at[x].up # NoBlock => /\ at[x].up \in K /\ at[at[x].up].own = i
                                             /\ at[at[x].up].lvl = at[x].lvl + 1
  BY DEF Climb
<1>1. /\ x \in DOMAIN at /\ OnDisk(at, x)
      /\ at[x].up # NoBlock => /\ at[x].up \in K /\ at[x].up \in DOMAIN at /\ at[at[x].up].own = i
                               /\ at[at[x].up].lvl = at[x].lvl + 1
  BY DEF Rooted, Hangs
<1>2. at[x].lvl \in Levels
  <2>1. at[x] \in Spots
    BY <1>1 DEF Forest
  <2> QED
    BY <2>1 DEF Spots
<1>3. Found(at, ino[i].blocks, x)
  <2>1. CASE at[x].up = NoBlock
    BY <1>1, <2>1 DEF Found, OnDisk, DiskArray
  <2>2. CASE at[x].up # NoBlock
    <3>1. at[x].up \in DOMAIN content
      BY <1>1, <2>2 DEF Forest
    <3>2. ReadArray(at[x].up) = content[at[x].up]
      BY <3>1 DEF ReadArray
    <3> QED
      BY <1>1, <2>2, <3>2 DEF Found, OnDisk, DiskArray
  <2> QED
    BY <2>1, <2>2
<1> QED
  BY <1>1, <1>2, <1>3

LEMMA KeptImplies == TypeInv /\ KeptInv => (failures = 0 /\ overruns = {} => DataKept)
<1> SUFFICES ASSUME TypeInv, KeptInv, failures = 0, overruns = {}, NEW i \in linked
             PROVE  LET file == FileBlocks(ino[i])
                        missing == {m \in DOMAIN owned[i] : owned[i][m] \notin Range(file)}
                    IN  /\ Cardinality(missing) <= Cardinality(overruns)
                        /\ \A m, n \in DOMAIN owned[i] \ missing : m < n =>
                               \E p, q \in DOMAIN file :
                                   p < q /\ file[p] = owned[i][m] /\ file[q] = owned[i][n]
  BY DEF DataKept
<1>1. PICK at, g, K, N : Placed(at) /\ Kept(at, g, K, N)
  BY DEF KeptInv
<1>2. Numbered(at, g) /\ Rooted(at, K) /\ InOrder(at, g, K, i) /\ g \in [Blocks -> Nat]
  BY <1>1 DEF Kept, Numbered
<1>3. PICK f, o : f = FileBlocks(ino[i]) /\ o = owned[i]
  OBVIOUS
<1>4. Sorted(g, f, 1, 0, Limit(4)) /\ \A x \in K : DataOf(at, i, x) => x \in Range(f)
  <2>1. Tree(at, g, i, ino[i].blocks)
    BY <1>1, <1>2, KeptTree
  <2>2. Climb(at, K, i, ino[i].blocks)
    BY <1>1, <1>2, RootedClimb DEF TypeInv, Placed
  <2> QED
    BY <1>3, <2>1, <2>2, FileSorted
<1>5. /\ \A n \in DOMAIN o : o[n] \in Range(f)
      /\ \A m, n \in DOMAIN o : m < n => g[o[m]] < g[o[n]]
  BY <1>2, <1>3, <1>4 DEF InOrder
<1>6. f \in Seq(Blocks) /\ \A q, p \in DOMAIN f : q < p => g[f[q]] + 1 <= g[f[p]]
  BY <1>4 DEF Sorted
<1>7. ASSUME NEW m \in DOMAIN o, NEW n \in DOMAIN o, m < n
      PROVE  \E p, q \in DOMAIN f : p < q /\ f[p] = o[m] /\ f[q] = o[n]
  <2>1. PICK p \in DOMAIN f, q \in DOMAIN f : f[p] = o[m] /\ f[q] = o[n]
    BY <1>5 DEF Range
  <2>2. g[f[p]] < g[f[q]]
    BY <1>5, <1>7, <2>1
  <2>3. p \in Nat /\ q \in Nat /\ g[f[p]] \in Nat /\ g[f[q]] \in Nat
    BY <1>2, <1>6
  <2>4. ~(q < p) /\ q # p
    BY <1>6, <2>2, <2>3
  <2>5. p < q
    BY <2>3, <2>4
  <2> QED
    BY <2>1, <2>5
<1>8. {m \in DOMAIN o : o[m] \notin Range(f)} = {}
  BY <1>5
<1>9. Cardinality({}) <= Cardinality({})
  BY FS_EmptySet
<1> QED
  BY <1>3, <1>7, <1>8, <1>9

(* Whatever crashes, as long as no write to a file has failed and no       *)
(* pointer was stored past the end of an array of them: between two        *)
(* operations foreach_datablock_in_inode still visits every data block     *)
(* that alloc_new_datablock returned for a file in a directory, and those  *)
(* of one file in the order they were returned, also when the file grew    *)
(* again after the crash.                                                  *)
THEOREM CrashKeepsData == MapSpec => [](failures = 0 /\ overruns = {} => DataKept)
<1>1. MapSpec => []TypeInv
  BY TypeInit, TypeStep, PTL DEF MapSpec
<1>2. MapSpec => []OwnInv
  BY <1>1, OwnInit, OwnStep, PTL DEF MapSpec
<1>3. MapSpec => []KeptInv
  BY <1>1, <1>2, KeptInit, KeptStep, PTL DEF MapSpec
<1>4. TypeInv /\ KeptInv => (failures = 0 /\ overruns = {} => DataKept)
  BY KeptImplies
<1> QED
  BY <1>1, <1>3, <1>4, PTL

-----------------------------------------------------------------------------
(* A write that fails.  Before it the disk says where every block is: two  *)
(* accounts of that agree.                                                 *)
SamePlace(at, at2, x) == x \in DOMAIN at /\ at[x] = at2[x]

LEMMA PlaceOnDisk ==
    ASSUME NEW at, Forest(at), NEW at2, Forest(at2), NEW x \in DOMAIN at2, Hangs(at2, x), OnDisk(at2, x),
           PoolType, at2[x].up # NoBlock => SamePlace(at, at2, at2[x].up)
    PROVE  SamePlace(at, at2, x)
<1>1. PICK i, k, p, s : i = at2[x].own /\ k = at2[x].lvl /\ p = at2[x].up /\ s = at2[x].idx
  OBVIOUS
<1>2. at2[x] = Spot(i, k, p, s) /\ k \in Levels
  <2>1. at2[x] \in Spots
    BY DEF Forest
  <2> QED
    BY <1>1, <2>1 DEF Spots, Spot
<1>3. i \in linked /\ x # NoBlock
  <2>1. x \in Blocks
    BY DEF Forest, PoolType
  <2> QED
    BY <1>1, <2>1, Layout DEF Hangs, NoBlock
<1>4. CASE p = NoBlock
  <2>1. PICK a : a = ino[i].blocks[k]
    OBVIOUS
  <2>2. s \in DOMAIN a /\ a[s] = x
    BY <1>1, <1>4, <2>1 DEF OnDisk, DiskArray, Has
  <2>3. Names(at, a, i, k, NoBlock)
    BY <1>2, <1>3, <2>1 DEF Forest, Right
  <2> QED
    BY <1>2, <1>3, <1>4, <2>2, <2>3 DEF Names, SamePlace
<1>5. CASE p # NoBlock
  <2>1. PICK a : a = content[p]
    OBVIOUS
  <2>2. s \in DOMAIN a /\ a[s] = x
    BY <1>1, <1>5, <2>1 DEF OnDisk, DiskArray, Has
  <2>3. p \in DOMAIN at /\ at[p].own = i /\ at[p].lvl = k + 1
    BY <1>1, <1>5 DEF SamePlace, Hangs
  <2>4. at[p].lvl > 0 /\ at[p].lvl - 1 = k
    BY <1>2, <2>3 DEF Levels
  <2>5. Names(at, a, i, k, p)
    <3>1. Right(at, content[p], at[p].own, at[p].lvl - 1, p)
      BY <2>3, <2>4 DEF Forest
    <3> QED
      BY <2>1, <2>3, <2>4, <3>1 DEF Right
  <2> QED
    BY <1>2, <1>3, <2>2, <2>5 DEF Names, SamePlace
<1> QED
  BY <1>4, <1>5

LEMMA PlacesAgree ==
    ASSUME TypeInv, pc = "idle", NEW at, Placed(at), NEW at2, Placed(at2), Tight(at2)
    PROVE  Rooted(at, DOMAIN at)
<1>1. /\ Forest(at) /\ Forest(at2) /\ Hung(at2) /\ Accounted(at2) /\ AllOnDisk(at2) /\ PoolType
  BY TightRuns DEF Placed, Tight, TypeInv
<1>2. ASSUME NEW x \in DOMAIN at2, at2[x].up # NoBlock => SamePlace(at, at2, at2[x].up)
      PROVE  SamePlace(at, at2, x)
  BY <1>1, <1>2, PlaceOnDisk DEF Hung, AllOnDisk
<1>3. ASSUME NEW x \in DOMAIN at2
      PROVE  /\ at2[x].lvl \in Levels
             /\ at2[x].up # NoBlock => /\ at2[x].up \in DOMAIN at2
                                       /\ at2[at2[x].up].lvl = at2[x].lvl + 1
  <2>1. at2[x] \in Spots
    BY <1>1 DEF Forest
  <2> QED
    BY <1>1, <2>1 DEF Hung, Hangs, Spots
<1> DEFINE Same(l) == \A x \in DOMAIN at2 : at2[x].lvl = l => SamePlace(at, at2, x)
<1>4. Same(3)
  BY <1>2, <1>3 DEF Levels
<1>5. Same(2)
  BY <1>2, <1>3, <1>4
<1>6. Same(1)
  BY <1>2, <1>3, <1>5
<1>7. Same(0)
  BY <1>2, <1>3, <1>6
<1>8. ASSUME NEW x \in DOMAIN at2 PROVE SamePlace(at, at2, x)
  BY <1>3, <1>4, <1>5, <1>6, <1>7 DEF Levels
<1>9. ASSUME NEW x \in DOMAIN at PROVE x \in DOMAIN at2 /\ at[x] = at2[x]
  BY <1>1, <1>8 DEF Accounted, Forest, SamePlace
<1>10. ASSUME NEW x \in DOMAIN at PROVE Hangs(at, x) /\ OnDisk(at, x)
  <2>1. x \in DOMAIN at2 /\ at[x] = at2[x] /\ Hangs(at2, x) /\ OnDisk(at2, x)
    BY <1>1, <1>9 DEF Hung, AllOnDisk
  <2>2. at[x].up # NoBlock => at[x].up \in DOMAIN at /\ at[at[x].up] = at2[at2[x].up]
    BY <1>8, <2>1 DEF Hangs, SamePlace
  <2> QED
    BY <2>1, <2>2 DEF Hangs, OnDisk, DiskArray, Has
<1> QED
  BY <1>10 DEF Rooted, Hangs

-----------------------------------------------------------------------------
(* A release counts the data blocks it passes: when it comes to a block it *)
(* has counted up to the number of that block, and appends a block only if *)
(* that number is `start' or more.                                         *)
Weight(w, m, b) == IF m = 0 THEN 1 ELSE w[b]
Past(at, g, i, start, x) == x \in DOMAIN at /\ at[x].own = i /\ g[x] >= start
Passes(at, g, i, start, acc, r, E) ==
    /\ r \in Acc /\ r[1] = E /\ Range(acc[2]) \subseteq Range(r[2])
    /\ \A x \in Range(r[2]) : x \in Range(acc[2]) \/ Past(at, g, i, start, x)
AppendsFrom(g, start, r, b) == g[b] >= start => b \in Range(r[2])
WalkPassing(at, w, g, start, m) ==
    \A acc \in Acc, b \in DOMAIN at : at[b].lvl = m /\ acc[1] = g[b] /\ Weight(w, m, b) <= Span(m) =>
        /\ Passes(at, g, at[b].own, start, acc, Walk(m, start, acc, b), g[b] + Weight(w, m, b))
        /\ AppendsFrom(g, start, Walk(m, start, acc, b), b)

LEMMA RunPosition ==
    ASSUME NEW at, NEW w, NEW g, NEW i, NEW l \in Levels, NEW B \in Nat, NEW M \in Int, NEW s,
           Run(at, w, g, i, s, l, B, M), NEW k \in 1 .. Len(s)
    PROVE  /\ s[k] \in DOMAIN at /\ at[s[k]].own = i /\ at[s[k]].lvl = l
           /\ k = 1 => g[s[k]] = B
           /\ k # 1 => g[s[k]] = B + Clip(M, k - 1, l)
           /\ g[s[k]] + Weight(w, l, s[k]) = B + Clip(M, k, l) /\ Weight(w, l, s[k]) <= Span(l)
<1>1. PICK S \in Nat : S = Span(l) /\ S >= 1
  BY LimitsAre
<1>2. s \in Seq(Blocks) /\ k \in DOMAIN s /\ k \in Nat /\ k >= 1
  BY DEF Run
<1>3. PICK c \in Int, p \in Int : c = k - 1 /\ p = c * S /\ k * S = p + S /\ (c = 0 => p = 0)
  <2>1. PICK c \in Int : c = k - 1 /\ c + 1 = k
    BY <1>2
  <2>2. c * S \in Int /\ (c + 1) * S = c * S + S
    BY <1>1, <2>1, MulLess
  <2>3. 0 * S = 0
    OBVIOUS
  <2> QED
    BY <2>1, <2>2, <2>3
<1>4. p < M
  BY <1>1, <1>2, <1>3 DEF Run
<1>5. RunAt(at, w, g, i, s[k], k, l, B, M)
  BY <1>2 DEF Run
<1>6. g[s[k]] = B + p /\ (l > 0 => w[s[k]] = Share(l, M, k))
  BY <1>1, <1>3, <1>5 DEF RunAt
<1>7. Clip(M, k, l) = IF M <= p + S THEN M ELSE p + S
  BY <1>1, <1>3 DEF Clip
<1>8. Clip(M, k - 1, l) = p
  BY <1>1, <1>3, <1>4 DEF Clip
<1>9. Share(l, M, k) = IF p + S <= M THEN S ELSE M - p
  BY <1>1, <1>3 DEF Share
<1>10. g[s[k]] + Weight(w, l, s[k]) = B + Clip(M, k, l) /\ Weight(w, l, s[k]) <= Span(l)
  <2>1. CASE l = 0
    <3>1. S = 1
      BY <1>1, <2>1 DEF Span
    <3>2. p + 1 <= M
      BY <1>3, <1>4
    <3> QED
      BY <1>1, <1>6, <1>7, <2>1, <3>1, <3>2 DEF Weight
  <2>2. CASE l # 0
    <3>1. l > 0
      BY <2>2 DEF Levels
    <3>2. Weight(w, l, s[k]) = Share(l, M, k)
      BY <1>6, <2>2, <3>1 DEF Weight
    <3>3. PICK v : v = Weight(w, l, s[k])
      OBVIOUS
    <3>4. v = IF p + S <= M THEN S ELSE M - p
      BY <1>9, <3>2, <3>3
    <3>5. g[s[k]] + v = B + Clip(M, k, l) /\ v <= S
      <4>1. PICK x, z : x = g[s[k]] /\ z = Clip(M, k, l)
        OBVIOUS
      <4>2. x = B + p /\ z = (IF M <= p + S THEN M ELSE p + S) /\ p \in Int /\ S \in Nat
        BY <1>1, <1>3, <1>6, <1>7, <4>1
      <4>3. p + S \in Int /\ M - p \in Int
        BY <4>2
      <4>4. x + v = B + z /\ v <= S
        <5>1. CASE p + S <= M
          BY <3>4, <4>2, <4>3, <5>1
        <5>2. CASE ~(p + S <= M)
          <6>1. v = M - p /\ z = M
            BY <3>4, <4>2, <4>3, <5>2
          <6> QED
            BY <4>2, <4>3, <5>2, <6>1
        <5> QED
          BY <5>1, <5>2
      <4> QED
        BY <4>1, <4>4
    <3> QED
      BY <1>1, <3>3, <3>5
  <2> QED
    BY <2>1, <2>2
<1>11. k = 1 => g[s[k]] = B
  BY <1>3, <1>6
<1> QED
  BY <1>5, <1>6, <1>8, <1>10, <1>11 DEF RunAt

LEMMA RunEnds ==
    ASSUME NEW at, NEW w, NEW g, NEW i, NEW l \in Levels, NEW B, NEW M \in Int, NEW s,
           Run(at, w, g, i, s, l, B, M)
    PROVE  /\ Len(s) \in Nat /\ DOMAIN s = 1 .. Len(s)
           /\ Clip(M, Len(s), l) = M
           /\ Len(s) = 0 => M <= 0
<1>1. PICK n \in Nat : n = Len(s) /\ DOMAIN s = 1 .. n
  BY DEF Run
<1>2. PICK S \in Nat : S = Span(l)
  BY LimitsAre
<1>3. n + 1 \in Nat /\ n + 1 >= 1 /\ n + 1 \notin DOMAIN s /\ (n + 1) - 1 = n
  BY <1>1
<1>4. ~(n * S < M)
  <2>1. ~(((n + 1) - 1) * Span(l) < M)
    BY <1>3 DEF Run
  <2> QED
    BY <1>2, <1>3, <2>1
<1>5. n * S \in Nat /\ 0 * S = 0
  BY MulNat
<1> QED
  BY <1>1, <1>2, <1>4, <1>5 DEF Clip

LEMMA PassesMore ==
    ASSUME NEW at, NEW g, NEW i, NEW start, NEW acc, NEW e, NEW r, NEW E, NEW F,
           Passes(at, g, i, start, acc, e, E), Passes(at, g, i, start, e, r, F)
    PROVE  Passes(at, g, i, start, acc, r, F)
  BY DEF Passes

LEMMA WalkAllPasses ==
    ASSUME PoolType, NEW at, NEW w, NEW g, NEW start \in Nat, NEW m \in 0 .. 2,
           WalkPassing(at, w, g, start, m), NEW i, NEW s, NEW B \in Nat, NEW M \in Int,
           Run(at, w, g, i, s, m, B, M), NEW acc \in Acc, s # <<>> => acc[1] = B,
           NEW r, r = WalkAll(m, start, acc, s)
    PROVE  /\ Passes(at, g, i, start, acc, r, IF s = <<>> THEN acc[1] ELSE B + M)
           /\ \A j \in DOMAIN s : AppendsFrom(g, start, r, s[j])
<1>0. s \in Seq(Blocks)
  BY DEF Run
<1>1. PICK n \in Nat : n = Len(s) /\ DOMAIN s = 1 .. n /\ s \in Seq(Blocks) /\ m \in Levels
  BY <1>0 DEF Levels
<1>2. PICK h \in [0 .. n -> Acc] :
          /\ h[0] = acc /\ h[n] = r
          /\ \A k \in 1 .. n : h[k] = Walk(m, start, h[k - 1], s[k])
  <2>1. PICK h \in [0 .. Len(s) -> Acc] :
            /\ h[0] = acc /\ h[Len(s)] = WalkAll(m, start, acc, s)
            /\ \A k \in 1 .. Len(s) : h[k] = Walk(m, start, h[k - 1], s[k])
    <3>1. WalkTyped(m, start)
      <4>1. m \in 0 .. 3
        OBVIOUS
      <4> QED
        BY <4>1, WalkType
    <3> QED
      BY <1>0, <3>1, WalkAllRuns
  <2> QED
    BY <1>1, <2>1
<1> DEFINE At(k) == IF k = 0 THEN acc[1] ELSE B + Clip(M, k, m)
           Good(k) == /\ Passes(at, g, i, start, acc, h[k], At(k))
                      /\ \A j \in 1 .. k : AppendsFrom(g, start, h[k], s[j])
           P == {k \in 0 .. n : Good(k)}
<1>3. 0 \in P
  <2>1. Passes(at, g, i, start, acc, acc, acc[1])
    BY DEF Passes
  <2> QED
    BY <1>2, <2>1
<1>4. ASSUME NEW k \in 1 .. n, k - 1 \in P PROVE k \in P
  <2>1. PICK b, e, q : b = s[k] /\ e = h[k - 1] /\ q = h[k]
    OBVIOUS
  <2>2. k - 1 \in 0 .. n /\ Good(k - 1) /\ e \in Acc
    BY <1>2, <1>4, <2>1
  <2>3. q = Walk(m, start, e, b)
    BY <1>2, <2>1
  <2>4. /\ b \in DOMAIN at /\ at[b].own = i /\ at[b].lvl = m
        /\ k = 1 => g[b] = B
        /\ k # 1 => g[b] = B + Clip(M, k - 1, m)
        /\ g[b] + Weight(w, m, b) = B + Clip(M, k, m) /\ Weight(w, m, b) <= Span(m)
    <3>1. k \in 1 .. Len(s)
      BY <1>1
    <3>2. /\ s[k] \in DOMAIN at /\ at[s[k]].own = i /\ at[s[k]].lvl = m
          /\ k = 1 => g[s[k]] = B
          /\ k # 1 => g[s[k]] = B + Clip(M, k - 1, m)
          /\ g[s[k]] + Weight(w, m, s[k]) = B + Clip(M, k, m) /\ Weight(w, m, s[k]) <= Span(m)
      BY <1>1, <3>1, RunPosition
    <3> QED
      BY <2>1, <3>2, Zenon
  <2>5. e[1] = g[b]
    <3>1. e[1] = At(k - 1)
      BY <2>1, <2>2 DEF Passes
    <3>2. CASE k = 1
      <4>1. s # <<>>
        BY <1>1
      <4> QED
        BY <2>4, <3>1, <3>2, <4>1
    <3>3. CASE k # 1
      <4>1. k - 1 # 0
        BY <3>3
      <4> QED
        BY <2>4, <3>1, <3>3, <4>1
    <3> QED
      BY <3>2, <3>3
  <2>6. Passes(at, g, i, start, e, q, g[b] + Weight(w, m, b)) /\ AppendsFrom(g, start, q, b)
    BY <2>2, <2>3, <2>4, <2>5 DEF WalkPassing
  <2>7. Passes(at, g, i, start, e, q, At(k))
    <3>1. k # 0
      OBVIOUS
    <3>2. At(k) = g[b] + Weight(w, m, b)
      BY <2>4, <3>1
    <3> QED
      BY <2>6, <3>2, Zenon
  <2>8. Passes(at, g, i, start, acc, q, At(k))
    <3>1. Passes(at, g, i, start, acc, e, At(k - 1))
      BY <2>1, <2>2
    <3> HIDE DEF At
    <3> QED
      BY <2>7, <3>1, PassesMore
  <2>9. ASSUME NEW j \in 1 .. k PROVE AppendsFrom(g, start, q, s[j])
    <3>1. CASE j = k
      BY <2>1, <2>6, <3>1
    <3>2. CASE j # k
      <4>1. j \in 1 .. k - 1
        BY <3>2
      <4>2. AppendsFrom(g, start, e, s[j])
        BY <2>1, <2>2, <4>1
      <4>3. Range(e[2]) \subseteq Range(q[2])
        BY <2>6 DEF Passes
      <4> QED
        BY <4>2, <4>3 DEF AppendsFrom
    <3> QED
      BY <3>1, <3>2
  <2>10. Good(k)
    BY <2>1, <2>8, <2>9
  <2> QED
    BY <2>10
<1>5. n \in P
  <2> HIDE DEF P
  <2>1. 0 .. n \subseteq P
    BY <1>3, <1>4, UpTo
  <2> QED
    BY <2>1
<1>6. Passes(at, g, i, start, acc, r, At(n)) /\ \A j \in DOMAIN s : AppendsFrom(g, start, r, s[j])
  BY <1>1, <1>2, <1>5
<1>7. At(n) = IF s = <<>> THEN acc[1] ELSE B + M
  <2>1. Clip(M, n, m) = M
    BY <1>1, RunEnds
  <2>2. n = 0 <=> s = <<>>
    BY <1>1
  <2> QED
    BY <2>1, <2>2
<1> HIDE DEF At
<1> QED
  BY <1>6, <1>7

LEMMA WalkPasses ==
    ASSUME NEW at, NEW w, NEW g, Viewed(at, w, g, DOMAIN at), NEW start \in Nat
    PROVE  \A m \in 0 .. 3 : WalkPassing(at, w, g, start, m)
<1> DEFINE P == {m \in 0 .. 3 : WalkPassing(at, w, g, start, m)}
<1>1. PoolType /\ w \in [Blocks -> Nat] /\ g \in [Blocks -> Nat] /\ DOMAIN at \subseteq Blocks
  BY DEF Viewed, PoolType
<1>2. 0 \in P
  <2> SUFFICES ASSUME NEW acc \in Acc, NEW b \in DOMAIN at, at[b].lvl = 0, acc[1] = g[b], Weight(w, 0, b) <= Span(0)
               PROVE  /\ Passes(at, g, at[b].own, start, acc, Walk(0, start, acc, b), g[b] + Weight(w, 0, b))
                      /\ AppendsFrom(g, start, Walk(0, start, acc, b), b)
    BY DEF WalkPassing
  <2>1. PICK n \in Nat, s \in Seq(Blocks) : n = acc[1] /\ s = acc[2] /\ b \in Blocks
    BY <1>1, AccIs
  <2>2. PICK q : q = Append(s, b) /\ q \in Seq(Blocks) /\ Range(q) = Range(s) \union {b}
    BY <2>1, AppendedIs
  <2>3. PICK r : r = Walk(0, start, acc, b)
    OBVIOUS
  <2>4. r = <<n + 1, IF n >= start THEN q ELSE s>>
    BY <2>1, <2>2, <2>3, WalkIs DEF ReleaseData
  <2>5. r \in Acc /\ r[1] = n + 1 /\ r[2] = IF n >= start THEN q ELSE s
    <3>1. PICK u : u = IF n >= start THEN q ELSE s
      OBVIOUS
    <3>2. r = <<n + 1, u>> /\ u \in Seq(Blocks) /\ n + 1 \in Nat
      BY <2>2, <2>4, <3>1
    <3> QED
      BY <3>1, <3>2, AccIs
  <2>6. Weight(w, 0, b) = 1
    BY DEF Weight
  <2> QED
    BY <2>1, <2>2, <2>3, <2>5, <2>6 DEF Passes, AppendsFrom, Past
<1>3. ASSUME NEW k \in 1 .. 3, k - 1 \in P PROVE k \in P
  <2>1. PICK m \in 0 .. 2 : m = k - 1 /\ m + 1 = k
    <3>1. k - 1 \in 0 .. 2 /\ (k - 1) + 1 = k
      OBVIOUS
    <3> QED
      BY <3>1
  <2>2. WalkPassing(at, w, g, start, m)
    BY <1>3, <2>1
  <2> SUFFICES ASSUME NEW acc \in Acc, NEW b \in DOMAIN at, at[b].lvl = k, acc[1] = g[b], Weight(w, k, b) <= Span(k)
               PROVE  /\ Passes(at, g, at[b].own, start, acc, Walk(k, start, acc, b), g[b] + Weight(w, k, b))
                      /\ AppendsFrom(g, start, Walk(k, start, acc, b), b)
    BY DEF WalkPassing
  <2>3. PICK s, i : s = Entries(ReadArray(b)) /\ i = at[b].own
    OBVIOUS
  <2>4. PICK B \in Nat, M \in Nat : B = g[b] /\ M = w[b] /\ b \in Blocks
    BY <1>1
  <2>5. Run(at, w, g, i, s, m, B, M)
    <3>1. /\ b \in DOMAIN content /\ Right(at, content[b], i, m, b) /\ Filled(w, content[b], m, M)
          /\ Numbers(g, content[b], m, B)
      BY <2>1, <2>3, <2>4 DEF Viewed
    <3>2. PICK a : a = content[b] /\ a = ReadArray(b) /\ a \in [1 .. BPI -> Refs]
      BY <3>1 DEF Viewed, PoolType, Array, ReadArray
    <3>3. m \in Levels /\ BPI \in Nat /\ M \in Int
      BY Layout DEF Levels
    <3>4. M = Clip(M, BPI, m)
      <4>1. k \in Levels /\ k > 0 /\ k # 0
        BY DEF Levels
      <4>2. Span(k) = BPI * Span(m)
        BY <2>1, <4>1, SpanBelow
      <4>3. M <= Span(k)
        BY <2>4, <4>1 DEF Weight
      <4> QED
        BY <4>2, <4>3 DEF Clip
    <3> QED
      BY <2>3, <3>1, <3>2, <3>3, <3>4, RunOfArray
  <2>6. PICK r : r = WalkAll(m, start, acc, s)
    OBVIOUS
  <2>7. PICK E : E = (IF s = <<>> THEN acc[1] ELSE B + M)
    OBVIOUS
  <2>8. Passes(at, g, i, start, acc, r, E)
    <3>1. s # <<>> => acc[1] = B
      BY <2>4
    <3>2. M \in Int
      OBVIOUS
    <3> QED
      BY <1>1, <2>2, <2>5, <2>6, <2>7, <3>1, <3>2, WalkAllPasses
  <2>9. E = B + M
    <3>1. CASE s = <<>>
      <4>1. Len(s) = 0 /\ m \in Levels /\ M \in Int
        BY <3>1 DEF Levels
      <4>2. M <= 0
        BY <2>5, <4>1, RunEnds
      <4> QED
        BY <2>4, <2>7, <3>1, <4>2
    <3> QED
      BY <2>7, <3>1
  <2>10. PICK q, t : t = r[2] /\ q = Append(t, b)
    OBVIOUS
  <2>11. r \in Acc /\ r[1] = B + M /\ t \in Seq(Blocks)
    BY <2>8, <2>9, <2>10, AccIs DEF Passes
  <2>12. q \in Seq(Blocks) /\ Range(q) = Range(t) \union {b}
    BY <2>4, <2>10, <2>11, AppendedIs
  <2>13. PICK v : v = Walk(k, start, acc, b)
    OBVIOUS
  <2>14. v = <<r[1], IF B >= start THEN q ELSE t>>
    <3>1. v = ReleaseNode(start, acc, WalkAll(m, start, acc, Entries(ReadArray(b))), b)
      BY <2>1, <2>13, WalkIs
    <3>2. v = ReleaseNode(start, acc, r, b)
      BY <2>3, <2>6, <3>1, Zenon
    <3> QED
      BY <2>4, <2>10, <3>2 DEF ReleaseNode
  <2>15. v \in Acc /\ v[1] = B + M /\ v[2] = IF B >= start THEN q ELSE t
    <3>1. PICK u : u = IF B >= start THEN q ELSE t
      OBVIOUS
    <3>2. v = <<r[1], u>> /\ u \in Seq(Blocks) /\ r[1] \in Nat
      BY <2>11, <2>12, <2>14, <3>1
    <3> QED
      BY <2>11, <3>1, <3>2, AccIs
  <2>16. Weight(w, k, b) = M
    BY <2>4 DEF Weight
  <2>17. Passes(at, g, i, start, acc, v, B + M)
    BY <2>3, <2>4, <2>8, <2>10, <2>12, <2>15 DEF Passes, Past
  <2>18. AppendsFrom(g, start, v, b)
    BY <2>4, <2>12, <2>15 DEF AppendsFrom
  <2> QED
    BY <2>3, <2>4, <2>13, <2>16, <2>17, <2>18
<1>4. 0 .. 3 \subseteq P
  <2> HIDE DEF P
  <2> QED
    BY <1>2, <1>3, UpTo
<1> QED
  BY <1>4

(* The four levels of the file i one after the other: each is come to when *)
(* what is before it has been counted.                                     *)
ComesTo(acc, b, k) == acc \in Acc /\ (Entries(b[k]) # <<>> => acc[1] = Limit(k))
LevelPassed(at, g, i, start, b, n, acc, r, k) ==
    /\ Passes(at, g, i, start, acc, r,
              IF Entries(b[k]) = <<>> THEN acc[1] ELSE Limit(k) + Held(n, k))
    /\ \A s \in DOMAIN b[k] : b[k][s] # NoBlock => AppendsFrom(g, start, r, b[k][s])
LevelRun(at, w, g, i, b, n, k) ==
    /\ b[k] \in [1 .. Pointers(k) -> Refs] /\ Right(at, b[k], i, k, NoBlock)
    /\ Run(at, w, g, i, Entries(b[k]), k, Limit(k), Held(n, k))
    /\ Held(n, k) \in Int /\ Limit(k) \in Nat /\ n \in Nat

LEMMA LevelRuns ==
    ASSUME TypeInv, pc = "idle", NEW at, NEW w, NEW g, Placed(at), Sized(at, w), Ordered(at, g),
           NEW i \in linked, NEW k \in Levels
    PROVE  LevelRun(at, w, g, i, ino[i].blocks, ino[i].n_blocks, k)
<1>1. IsInode(ino[i]) /\ Forest(at)
  BY DEF TypeInv, InodesType, Placed
<1>2. ino[i].n_blocks \in Nat
  <2>1. ino[i].n_blocks \in 0 .. Limit(4)
    BY <1>1 DEF IsInode, InodeRecord
  <2> QED
    BY <2>1
<1> QED
  BY <1>1, <1>2, RunOfLevel DEF LevelRun, IsInode, Forest

LEMMA EntriesOfLevel ==
    ASSUME NEW at, NEW w, NEW g, NEW i, NEW b, NEW n, NEW k \in Levels, LevelRun(at, w, g, i, b, n, k),
           NEW s \in DOMAIN b[k], b[k][s] # NoBlock
    PROVE  s \in DOMAIN Entries(b[k]) /\ Entries(b[k])[s] = b[k][s]
<1>0. PICK m \in Nat : m = Pointers(k)
  BY Layout
<1>1. PICK a : a = b[k] /\ m = Pointers(k)
  BY <1>0
<1>2. a \in [1 .. m -> Refs] /\ Packed(a) /\ s \in 1 .. m /\ a[s] \in Blocks
  BY <1>1 DEF LevelRun, Right, Refs
<1>3. s \in 1 .. Len(Entries(a)) /\ Entries(a)[s] = a[s]
  BY <1>2, EntryOf
<1>4. Entries(a) \in Seq(Blocks)
  BY <1>2, EntriesAre
<1> QED
  BY <1>1, <1>3, <1>4

LEMMA LevelFollows ==
    ASSUME NEW at, NEW w, NEW g, NEW i, NEW b, NEW n, NEW k \in 0 .. 2, NEW l \in Levels, l = k + 1,
           LevelRun(at, w, g, i, b, n, k), LevelRun(at, w, g, i, b, n, l), Entries(b[l]) # <<>>
    PROVE  Entries(b[k]) # <<>> /\ Limit(k) + Held(n, k) = Limit(l)
<1>1. PICK e, f : e = Entries(b[k]) /\ f = Entries(b[l])
  OBVIOUS
<1>2. PICK M \in Int, N \in Int : M = Held(n, k) /\ N = Held(n, l)
  BY DEF LevelRun
<1>3. n \in Nat /\ k \in Levels /\ Limit(k) \in Nat /\ Limit(l) \in Nat
  BY DEF LevelRun, Levels
<1>4. Run(at, w, g, i, e, k, Limit(k), M) /\ Run(at, w, g, i, f, l, Limit(l), N)
  BY <1>1, <1>2 DEF LevelRun
<1>5. N > 0
  <2>1. 1 \in DOMAIN f
    BY <1>1, <1>4 DEF Run
  <2>2. (1 - 1) * Span(l) < N
    BY <1>4, <2>1 DEF Run
  <2>3. Span(l) \in Nat
    BY LimitsAre
  <2>4. (1 - 1) * Span(l) = 0
    BY <2>3
  <2> QED
    BY <2>2, <2>4
<1>6. PICK C \in Nat : Limit(l) = Limit(k) + C /\ M = IF n - Limit(k) <= C THEN n - Limit(k) ELSE C
  BY <1>2, <1>3, HeldAre
<1>7. N <= n - Limit(l)
  <2>1. PICK D \in Nat : N = IF n - Limit(l) <= D THEN n - Limit(l) ELSE D
    BY <1>2, <1>3, HeldAre
  <2> QED
    BY <1>3, <2>1
<1>8. M = C
  BY <1>3, <1>5, <1>6, <1>7
<1>9. C > 0
  <2>1. C = Pointers(k) * Span(k)
    <3>1. Limit(k + 1) = Limit(k) + Pointers(k) * Span(k) /\ Pointers(k) * Span(k) \in Nat
      BY <1>3, LimitsAre
    <3> QED
      BY <1>3, <1>6, <3>1
  <2>2. Pointers(k) \in Nat /\ Pointers(k) >= 1 /\ Span(k) \in Nat /\ Span(k) >= 1
    BY <1>3, Layout, LimitsAre
  <2>3. 0 * Span(k) + Span(k) <= Pointers(k) * Span(k) /\ 0 * Span(k) = 0
    BY <2>2, MulLess
  <2> QED
    BY <2>1, <2>2, <2>3
<1>10. e # <<>>
  <2>1. ~(Len(e) = 0)
    BY <1>3, <1>4, <1>8, <1>9, RunEnds
  <2> QED
    BY <2>1
<1> QED
  BY <1>1, <1>2, <1>6, <1>8, <1>10

LEMMA LevelPasses ==
    ASSUME NEW at, NEW w, NEW g, Viewed(at, w, g, DOMAIN at), NEW start \in Nat, NEW i, NEW b, NEW n,
           NEW k \in 0 .. 2, LevelRun(at, w, g, i, b, n, k), NEW acc, ComesTo(acc, b, k),
           NEW r, r = WalkAll(k, start, acc, Entries(b[k]))
    PROVE  LevelPassed(at, g, i, start, b, n, acc, r, k)
<1>0. PICK B \in Nat, M \in Int : B = Limit(k) /\ M = Held(n, k)
  BY DEF LevelRun
<1>1. PICK s : s = Entries(b[k]) /\ B = Limit(k) /\ M = Held(n, k)
  BY <1>0
<1>2. Run(at, w, g, i, s, k, B, M) /\ acc \in Acc /\ (s # <<>> => acc[1] = B) /\ PoolType
  BY <1>1 DEF LevelRun, ComesTo, Viewed
<1>3. k \in Levels /\ k \in 0 .. 3
  BY DEF Levels
<1>4. WalkPassing(at, w, g, start, k)
  BY <1>3, WalkPasses
<1>5. /\ Passes(at, g, i, start, acc, r, IF s = <<>> THEN acc[1] ELSE B + M)
      /\ \A j \in DOMAIN s : AppendsFrom(g, start, r, s[j])
  BY <1>1, <1>2, <1>4, WalkAllPasses
<1>6. ASSUME NEW j \in DOMAIN b[k], b[k][j] # NoBlock PROVE AppendsFrom(g, start, r, b[k][j])
  BY <1>1, <1>3, <1>5, <1>6, EntriesOfLevel
<1>7. Passes(at, g, i, start, acc, r, IF Entries(b[k]) = <<>> THEN acc[1] ELSE Limit(k) + Held(n, k))
  BY <1>1, <1>5, Zenon
<1> QED
  BY <1>6, <1>7, Zenon DEF LevelPassed

OneBlock(at, w, g, i, l, B, M, x) ==
    /\ x \in DOMAIN at /\ at[x].own = i /\ at[x].lvl = l /\ g[x] = B
    /\ g[x] + Weight(w, l, x) = B + M /\ Weight(w, l, x) <= Span(l)
LEMMA RunOfOne ==
    ASSUME NEW at, NEW w, NEW g, NEW i, NEW l \in Levels, NEW B \in Nat, NEW M \in Int, NEW s,
           Run(at, w, g, i, s, l, B, M)
    PROVE  Len(s) = 1 => OneBlock(at, w, g, i, l, B, M, s[1])
<1>1. Clip(M, Len(s), l) = M
  BY RunEnds
<1>2. ASSUME NEW j \in 1 .. Len(s)
      PROVE  /\ s[j] \in DOMAIN at /\ at[s[j]].own = i /\ at[s[j]].lvl = l
             /\ j = 1 => g[s[j]] = B
             /\ j # 1 => g[s[j]] = B + Clip(M, j - 1, l)
             /\ g[s[j]] + Weight(w, l, s[j]) = B + Clip(M, j, l) /\ Weight(w, l, s[j]) <= Span(l)
  BY RunPosition
<1>3. ASSUME Len(s) = 1 PROVE OneBlock(at, w, g, i, l, B, M, s[1])
  <2>1. 1 \in 1 .. Len(s) /\ Clip(M, 1, l) = M
    BY <1>1, <1>3
  <2> QED
    BY <1>2, <2>1 DEF OneBlock
<1> QED
  BY <1>3

(* A level of one pointer.                                                 *)
LEMMA NodePasses ==
    ASSUME NEW at, NEW w, NEW g, Viewed(at, w, g, DOMAIN at), NEW start \in Nat, NEW i, NEW b, NEW n,
           NEW k \in 0 .. 3, Pointers(k) = 1, LevelRun(at, w, g, i, b, n, k), NEW acc, ComesTo(acc, b, k),
           NEW r, r = IF b[k][1] = NoBlock THEN acc ELSE Walk(k, start, acc, b[k][1])
    PROVE  /\ LevelPassed(at, g, i, start, b, n, acc, r, k)
           /\ Entries(b[k]) = <<>> <=> b[k][1] = NoBlock
<1>0. PICK B \in Nat, M \in Int : B = Limit(k) /\ M = Held(n, k)
  BY DEF LevelRun
<1>1. PICK s : s = Entries(b[k]) /\ B = Limit(k) /\ M = Held(n, k)
  BY <1>0
<1>2. Run(at, w, g, i, s, k, B, M) /\ acc \in Acc /\ (s # <<>> => acc[1] = B) /\ k \in Levels
  BY <1>1 DEF LevelRun, ComesTo, Levels
<1>3. PICK a : a = b[k] /\ a \in [1 .. 1 -> Refs] /\ DOMAIN a = {1}
  BY DEF LevelRun
<1>4. s \in Seq(Blocks) /\ Len(s) \in 0 .. 1 /\ \A j \in 1 .. Len(s) : s[j] = a[j] /\ a[j] # NoBlock
  <2>1. PICK m \in Nat : m = 1
    OBVIOUS
  <2>2. a \in [1 .. m -> Refs]
    BY <1>3, <2>1
  <2>3. /\ s \in Seq(Blocks) /\ Len(s) \in 0 .. m
        /\ \A j \in 1 .. Len(s) : s[j] = a[j] /\ a[j] # NoBlock
    BY <1>1, <1>3, <2>2, EntriesAre
  <2> QED
    BY <2>1, <2>3
<1>5. CASE a[1] = NoBlock
  <2>1. Len(s) = 0
    BY <1>4, <1>5
  <2>2. s = <<>> /\ r = acc
    BY <1>3, <1>4, <1>5, <2>1
  <2>3. Passes(at, g, i, start, acc, r, acc[1])
    BY <1>2, <2>2 DEF Passes
  <2>4. LevelPassed(at, g, i, start, b, n, acc, r, k)
    BY <1>1, <1>3, <1>5, <2>2, <2>3 DEF LevelPassed
  <2> QED
    BY <1>1, <1>3, <1>5, <2>2, <2>4
<1>6. CASE a[1] # NoBlock
  <2>1. 1 \in DOMAIN s /\ s[1] = a[1]
    BY <1>1, <1>2, <1>3, <1>6, EntriesOfLevel
  <2>2. Len(s) = 1 /\ s # <<>> /\ 1 \in 1 .. Len(s)
    BY <1>4, <2>1
  <2>3. PICK x : x = a[1] /\ x = s[1]
    BY <2>1
  <2>4. /\ x \in DOMAIN at /\ at[x].own = i /\ at[x].lvl = k /\ g[x] = B
        /\ g[x] + Weight(w, k, x) = B + M /\ Weight(w, k, x) <= Span(k)
    <3>1. OneBlock(at, w, g, i, k, B, M, s[1])
      BY <1>0, <1>2, <2>2, RunOfOne
    <3> QED
      BY <2>3, <3>1, Zenon DEF OneBlock
  <2>6. WalkPassing(at, w, g, start, k)
    BY WalkPasses
  <2>7. r = Walk(k, start, acc, x)
    BY <1>3, <1>6, <2>3
  <2>8. /\ Passes(at, g, i, start, acc, r, g[x] + Weight(w, k, x))
        /\ AppendsFrom(g, start, r, x)
    BY <1>2, <2>2, <2>4, <2>6, <2>7 DEF WalkPassing
  <2>9. Passes(at, g, i, start, acc, r, B + M)
    BY <2>4, <2>8
  <2>10. LevelPassed(at, g, i, start, b, n, acc, r, k)
    BY <1>1, <1>3, <2>2, <2>3, <2>8, <2>9 DEF LevelPassed
  <2> QED
    BY <1>1, <1>3, <1>6, <2>2, <2>10
<1> QED
  BY <1>5, <1>6

LEMMA LevelNext ==
    ASSUME NEW at, NEW w, NEW g, NEW i, NEW start, NEW b, NEW n, NEW k \in 0 .. 2, NEW l \in Levels,
           l = k + 1, LevelRun(at, w, g, i, b, n, k), LevelRun(at, w, g, i, b, n, l),
           NEW acc, NEW r, LevelPassed(at, g, i, start, b, n, acc, r, k)
    PROVE  ComesTo(r, b, l)
<1>1. PICK E : E = (IF Entries(b[k]) = <<>> THEN acc[1] ELSE Limit(k) + Held(n, k))
               /\ Passes(at, g, i, start, acc, r, E)
  BY DEF LevelPassed
<1>2. r \in Acc /\ r[1] = E
  BY <1>1 DEF Passes
<1>3. ASSUME Entries(b[l]) # <<>> PROVE r[1] = Limit(l)
  BY <1>1, <1>2, <1>3, LevelFollows
<1> QED
  BY <1>2, <1>3 DEF ComesTo

(* What a release from `start' on appends: the blocks of the file whose    *)
(* numbers are `start' or more, all of those among them that the inode     *)
(* points to.                                                              *)
ReleasesFrom(at, g, i, start) ==
    /\ \A x \in Range(Released(ino[i], start)) : Past(at, g, i, start, x)
    /\ \A k \in Levels : \A s \in DOMAIN ino[i].blocks[k] :
           LET x == ino[i].blocks[k][s]
           IN  x # NoBlock /\ g[x] >= start => x \in Range(Released(ino[i], start))
LEMMA ReleasedFrom ==
    ASSUME N2Indirect = 1, N3Indirect = 1,
           TypeInv, pc = "idle", NEW at, NEW w, NEW g, Placed(at), Sized(at, w), Ordered(at, g),
           NEW i \in linked, NEW start \in Nat
    PROVE  ReleasesFrom(at, g, i, start)
<1>1. PICK b, n, base : b = ino[i].blocks /\ n = ino[i].n_blocks /\ base = <<0, <<>>>>
  OBVIOUS
<1>2. PICK d, s, e, t : /\ d = Direct(ino[i], start) /\ s = Single(ino[i], start)
                        /\ e = Double(ino[i], start) /\ t = Triple(ino[i], start)
  OBVIOUS
<1>3. \A k \in Levels : LevelRun(at, w, g, i, b, n, k)
  BY <1>1, LevelRuns
<1>4. Viewed(at, w, g, DOMAIN at)
  BY ViewedIdle
<1>5. 0 \in Levels /\ 1 \in Levels /\ 2 \in Levels /\ 3 \in Levels /\ Pointers(2) = 1 /\ Pointers(3) = 1
  BY DEF Levels, Pointers
<1> DEFINE Through(acc, r, k) == LevelPassed(at, g, i, start, b, n, acc, r, k)
<1>6. base \in Acc /\ base[1] = 0 /\ base[2] = <<>>
  <2>1. <<>> \in Seq(Blocks)
    OBVIOUS
  <2> QED
    BY <1>1, <2>1, AccIs
<1>7. ComesTo(base, b, 0)
  BY <1>6, LimitsAre DEF ComesTo
<1>8. Through(base, d, 0)
  <2>1. d = WalkAll(0, start, base, Entries(b[0]))
    BY <1>1, <1>2 DEF Direct
  <2> QED
    BY <1>3, <1>4, <1>5, <1>7, <2>1, LevelPasses
<1>9. ComesTo(d, b, 1)
  <2>1. 1 = 0 + 1 /\ 0 \in 0 .. 2
    OBVIOUS
  <2> QED
    BY <1>3, <1>5, <1>8, <2>1, LevelNext
<1>10. Through(d, s, 1)
  <2>1. s = WalkAll(1, start, d, Entries(b[1]))
    BY <1>1, <1>2 DEF Single
  <2> QED
    BY <1>3, <1>4, <1>5, <1>9, <2>1, LevelPasses
<1>11. ComesTo(s, b, 2)
  <2>1. 2 = 1 + 1 /\ 1 \in 0 .. 2
    OBVIOUS
  <2> QED
    BY <1>3, <1>5, <1>10, <2>1, LevelNext
<1>12. Through(s, e, 2) /\ (Entries(b[2]) = <<>> <=> b[2][1] = NoBlock)
  <2>1. e = IF b[2][1] = NoBlock THEN s ELSE Walk(2, start, s, b[2][1])
    BY <1>1, <1>2 DEF Double
  <2>2. 2 \in 0 .. 3
    OBVIOUS
  <2> QED
    BY <1>3, <1>4, <1>5, <1>11, <2>1, <2>2, NodePasses
<1>13. ComesTo(e, b, 3)
  <2>1. 3 = 2 + 1 /\ 2 \in 0 .. 2
    OBVIOUS
  <2> QED
    BY <1>3, <1>5, <1>12, <2>1, LevelNext
<1>14. Through(e, t, 3)
  <2>1. PICK v : v = IF b[3][1] = NoBlock THEN e ELSE Walk(3, start, e, b[3][1])
    OBVIOUS
  <2>2. 3 \in 0 .. 3
    OBVIOUS
  <2>3. Through(e, v, 3) /\ (Entries(b[3]) = <<>> <=> b[3][1] = NoBlock)
    BY <1>3, <1>4, <1>5, <1>13, <2>1, <2>2, NodePasses
  <2>4. b[2][1] = NoBlock => b[3][1] = NoBlock
    <3>1. 3 = 2 + 1 /\ 2 \in 0 .. 2
      OBVIOUS
    <3>2. Entries(b[3]) # <<>> => Entries(b[2]) # <<>>
      BY <1>3, <1>5, <3>1, LevelFollows
    <3> QED
      BY <1>12, <2>3, <3>2
  <2>5. t = v
    BY <1>1, <1>2, <2>1, <2>4 DEF Triple
  <2> QED
    BY <2>3, <2>5, Zenon
<1> DEFINE Onward(acc, r) == \E E : Passes(at, g, i, start, acc, r, E)
           Named(r, k) == \A j \in DOMAIN b[k] : b[k][j] # NoBlock => AppendsFrom(g, start, r, b[k][j])
<1>15. /\ Onward(base, d) /\ Onward(d, s) /\ Onward(s, e) /\ Onward(e, t)
       /\ Named(d, 0) /\ Named(s, 1) /\ Named(e, 2) /\ Named(t, 3)
  BY <1>8, <1>10, <1>12, <1>14 DEF LevelPassed
<1>16. ASSUME NEW acc, NEW r, NEW q, Onward(acc, r), Onward(r, q) PROVE Onward(acc, q)
  BY <1>16, PassesMore
<1>17. Onward(base, t) /\ Onward(d, t) /\ Onward(s, t)
  <2> HIDE DEF Onward
  <2> QED
    BY <1>15, <1>16
<1>18. PICK u : u = Range(t[2]) /\ u = Range(Released(ino[i], start))
  BY <1>2, ReleasedIs
<1>19. ASSUME NEW x \in u PROVE Past(at, g, i, start, x)
  <2>1. x \in Range(base[2]) \/ Past(at, g, i, start, x)
    BY <1>17, <1>18 DEF Passes
  <2>2. Range(base[2]) = {}
    BY <1>6 DEF Range
  <2> QED
    BY <2>1, <2>2
<1>20. Named(t, 0) /\ Named(t, 1) /\ Named(t, 2) /\ Named(t, 3)
  <2>1. Range(d[2]) \subseteq Range(t[2]) /\ Range(s[2]) \subseteq Range(t[2]) /\ Range(e[2]) \subseteq Range(t[2])
    BY <1>15, <1>17 DEF Passes
  <2> QED
    BY <1>15, <2>1 DEF AppendsFrom
<1>21. ASSUME NEW k \in Levels, NEW j \in DOMAIN b[k], b[k][j] # NoBlock, g[b[k][j]] >= start
       PROVE  b[k][j] \in u
  <2>1. Named(t, k)
    BY <1>20 DEF Levels
  <2> QED
    BY <1>18, <1>21, <2>1 DEF AppendsFrom
<1> QED
  BY <1>1, <1>18, <1>19, <1>21 DEF ReleasesFrom

-----------------------------------------------------------------------------
(* The state of a release that gives back the end of a file: b are the     *)
(* pointers of the inode in core, o what alloc_new_datablock had returned, *)
(* n the number of blocks that are kept, and K these and the indirect      *)
(* blocks above them.                                                      *)
PointsUnder(g, b, n) == \A k \in Levels : \A s \in DOMAIN b[k] : b[k][s] # NoBlock => g[b[k][s]] < n
Stays(at, g, i, b, o, n, K) ==
    /\ Tree(at, g, i, b) /\ Climb(at, K, i, b)
    /\ n \in Nat /\ o \in Seq(Refs) /\ n <= Len(o)
    /\ \A j \in 1 .. n : o[j] \in K /\ DataOf(at, i, o[j]) /\ g[o[j]] = j - 1
    /\ PointsUnder(g, b, n)
Safe(K) == K \subseteq DOMAIN content /\ K \intersect (free \union Range(todo)) = {}
Shrinks(at, g, K) ==
    Stays(at, g, self, buf.blocks, owned[self], buf.n_blocks, K) /\ Safe(K)
ShrinkInv ==
    pc = "shrink" /\ failures <= 1 /\ crashes = 0 => \E at, g, K : Shrinks(at, g, K)

(* A file that has the numbers from 0 to n - 1 begins with them.           *)
StartsWith(f, o, n) == f \in Seq(Blocks) /\ \A j \in 1 .. n : j \in DOMAIN f /\ f[j] = o[j]
CountsTo(g, f, o, n) == \A j \in 1 .. n : o[j] \in Range(f) /\ g[o[j]] = j - 1
AllUnder(g, f, n) == \A x \in Range(f) : g[x] < n
LEMMA FileStarts ==
    ASSUME NEW g \in [Blocks -> Nat], NEW f, NEW D, Sorted(g, f, 1, 0, D), NEW n \in Nat, NEW o,
           CountsTo(g, f, o, n)
    PROVE  StartsWith(f, o, n) /\ (AllUnder(g, f, n) => Len(f) = n)
<1>1. /\ f \in Seq(Blocks) /\ Len(f) \in Nat /\ DOMAIN f = 1 .. Len(f)
      /\ \A p \in DOMAIN f : g[f[p]] \in Nat
      /\ \A p, q \in DOMAIN f : p < q => g[f[p]] < g[f[q]]
  <2>1. f \in Seq(Blocks) /\ \A p, q \in DOMAIN f : p < q => g[f[p]] + 1 <= g[f[q]]
    BY DEF Sorted
  <2>2. \A p \in DOMAIN f : g[f[p]] \in Nat
    BY <2>1
  <2> QED
    BY <2>1, <2>2
<1> DEFINE P == {j \in 0 .. n : j = 0 \/ (j \in DOMAIN f /\ f[j] = o[j])}
<1>2. ASSUME NEW j \in 1 .. n, j - 1 \in P PROVE j \in P
  <2>1. PICK p \in DOMAIN f : f[p] = o[j] /\ g[f[p]] = j - 1
    BY DEF Range, CountsTo
  <2>2. p \in Nat /\ p >= 1 /\ j \in Nat /\ j >= 1
    BY <1>1
  <2>3. ~(p < j)
    <3>1. CASE j - 1 = 0
      BY <2>2, <3>1
    <3>2. CASE j - 1 # 0
      <4>1. PICK m \in 1 .. n : m = j - 1 /\ m \in DOMAIN f /\ f[m] = o[m] /\ g[o[m]] = m - 1
        BY <1>2, <2>2, <3>2 DEF CountsTo
      <4>2. g[f[m]] = m - 1
        BY <4>1
      <4>3. p < m => g[f[p]] < g[f[m]]
        BY <1>1, <2>1, <4>1
      <4>4. p = m => j - 1 = m - 1
        BY <2>1, <4>2
      <4> QED
        BY <2>1, <2>2, <4>1, <4>2, <4>3, <4>4
    <3> QED
      BY <3>1, <3>2
  <2>4. ~(j < p)
    <3>1. SUFFICES ASSUME j < p PROVE FALSE
      OBVIOUS
    <3>2. j \in DOMAIN f
      BY <1>1, <2>2, <3>1
    <3>3. g[f[j]] < j - 1 /\ g[f[j]] \in Nat
      BY <1>1, <2>1, <3>1, <3>2
    <3>4. CASE j - 1 = 0
      BY <3>3, <3>4
    <3>5. CASE j - 1 # 0
      <4>1. PICK m \in 1 .. n : m = j - 1 /\ m \in DOMAIN f /\ f[m] = o[m] /\ g[o[m]] = m - 1
        BY <1>2, <2>2, <3>5 DEF CountsTo
      <4>2. g[f[m]] = m - 1 /\ m < j
        BY <2>2, <4>1
      <4>3. g[f[m]] < g[f[j]]
        BY <1>1, <3>2, <4>1, <4>2
      <4> QED
        BY <2>2, <3>3, <4>1, <4>2, <4>3
    <3> QED
      BY <3>4, <3>5
  <2>5. p = j
    BY <2>2, <2>3, <2>4
  <2> QED
    BY <2>1, <2>2, <2>5
<1>3. \A j \in 1 .. n : j \in DOMAIN f /\ f[j] = o[j]
  <2>1. 0 \in P
    OBVIOUS
  <2>2. 0 .. n \subseteq P
    <3> HIDE DEF P
    <3> QED
      BY <1>2, <2>1, UpTo
  <2> QED
    BY <2>2
<1>4. ASSUME AllUnder(g, f, n) PROVE Len(f) = n
  <2>1. Len(f) >= n
    <3>1. CASE n = 0
      BY <1>1, <3>1
    <3>2. CASE n # 0
      <4>1. n \in 1 .. n
        BY <3>2
      <4> QED
        BY <1>1, <1>3, <4>1
    <3> QED
      BY <3>1, <3>2
  <2>2. ~(Len(f) > n)
    <3>1. SUFFICES ASSUME Len(f) > n PROVE FALSE
      OBVIOUS
    <3>2. PICK m \in DOMAIN f : m = n + 1
      BY <1>1, <3>1
    <3>3. g[f[m]] < n /\ g[f[m]] \in Nat
      BY <1>1, <1>4, <3>2 DEF Range, AllUnder
    <3>4. n \in 1 .. n
      BY <3>3
    <3>5. n \in DOMAIN f /\ f[n] = o[n] /\ g[o[n]] = n - 1
      BY <1>3, <3>4 DEF CountsTo
    <3>6. g[f[n]] < g[f[m]]
      <4>1. n < m
        BY <3>2
      <4> QED
        BY <1>1, <3>2, <3>5, <4>1
    <3>7. g[f[n]] = n - 1
      BY <3>5
    <3> QED
      BY <3>3, <3>6, <3>7
  <2>3. Len(f) \in Nat
    BY <1>1
  <2> QED
    BY <2>1, <2>2, <2>3
<1> QED
  BY <1>1, <1>3, <1>4 DEF StartsWith

(* The beginning of o, and the file.                                       *)
LEMMA BeginsWith ==
    ASSUME NEW o \in Seq(Refs), NEW n \in Nat, n <= Len(o), NEW f, StartsWith(f, o, n)
    PROVE  /\ IsPrefix(SubSeq(o, 1, n), f)
           /\ \A x \in Range(SubSeq(o, 1, n)) : \E j \in 1 .. n : x = o[j]
           /\ Len(f) = n => f = SubSeq(o, 1, n)
<1>1. PICK k : k = SubSeq(o, 1, n)
  OBVIOUS
<1>2. k \in Seq(Refs) /\ Len(k) = n /\ DOMAIN k = 1 .. n /\ \A j \in 1 .. n : k[j] = o[j]
  BY <1>1
<1>0. f \in Seq(Blocks) /\ \A j \in 1 .. n : j \in DOMAIN f /\ f[j] = o[j]
  BY DEF StartsWith
<1>3. n <= Len(f)
  <2>1. CASE n = 0
    BY <1>0, <2>1
  <2>2. CASE n # 0
    <3>1. n \in 1 .. n
      BY <2>2
    <3> QED
      BY <1>0, <3>1
  <2> QED
    BY <2>1, <2>2
<1>4. PICK u, v : u = SubSeq(k, 1, n) /\ v = SubSeq(f, 1, n)
  OBVIOUS
<1>5. /\ u \in Seq(Refs) /\ Len(u) = n /\ DOMAIN u = 1 .. n /\ \A j \in 1 .. n : u[j] = k[j]
      /\ v \in Seq(Blocks) /\ Len(v) = n /\ DOMAIN v = 1 .. n /\ \A j \in 1 .. n : v[j] = f[j]
  <2>1. u \in Seq(Refs) /\ Len(u) = n /\ DOMAIN u = 1 .. n /\ \A j \in 1 .. n : u[j] = k[j]
    BY <1>2, <1>4
  <2>2. v \in Seq(Blocks) /\ Len(v) = n /\ DOMAIN v = 1 .. n /\ \A j \in 1 .. n : v[j] = f[j]
    BY <1>0, <1>3, <1>4
  <2> QED
    BY <2>1, <2>2
<1>6. u = v
  BY <1>0, <1>2, <1>5
<1>7. IsPrefix(k, f)
  BY <1>2, <1>3, <1>4, <1>6 DEF IsPrefix
<1>8. \A x \in Range(k) : \E j \in 1 .. n : x = o[j]
  BY <1>2 DEF Range
<1>9. ASSUME Len(f) = n PROVE f = k
  BY <1>0, <1>2, <1>9
<1> QED
  BY <1>1, <1>7, <1>8, <1>9

(* A pointer of level k has the number Limit(k) or more.                   *)
LEMMA PointerFrom ==
    ASSUME NEW at, NEW g, NEW i, NEW b, Tree(at, g, i, b), NEW k \in Levels, NEW s \in DOMAIN b[k],
           b[k][s] # NoBlock
    PROVE  Limit(k) <= g[b[k][s]] /\ g[b[k][s]] \in Nat
<1>1. PICK m \in Nat : m = Pointers(k)
  BY Layout
<1>2. /\ b[k] \in [1 .. m -> Refs] /\ Numbers(g, b[k], k, Limit(k)) /\ g \in [Blocks -> Nat]
  BY <1>1 DEF Tree, Pointing, Readable
<1>3. s \in 1 .. m /\ b[k][s] \in Blocks
  <2>1. PICK a : a = b[k]
    OBVIOUS
  <2> QED
    BY <1>2, <2>1 DEF Refs
<1>4. PICK S \in Nat, L \in Nat : S = Span(k) /\ L = Limit(k)
  <2>1. k \in 0 .. 4
    BY DEF Levels
  <2> QED
    BY <2>1, LimitsAre
<1>5. g[b[k][s]] = L + (s - 1) * S
  BY <1>2, <1>4 DEF Numbers
<1>6. s - 1 \in Nat /\ (s - 1) * S \in Nat
  BY <1>3, MulNat
<1> QED
  BY <1>2, <1>3, <1>4, <1>5, <1>6

Keeps(o, n, f, K) ==
    /\ IsPrefix(SubSeq(o, 1, n), f) /\ Range(SubSeq(o, 1, n)) \subseteq K
    /\ (\E k \in Levels : n = Limit(k)) => f = SubSeq(o, 1, n)
LEMMA StayIsAll ==
    ASSUME NEW at, NEW g, NEW i, NEW inode, NEW o, NEW n, NEW K, Stays(at, g, i, inode.blocks, o, n, K)
    PROVE  Keeps(o, n, FileBlocks(inode), K)
<1>1. PICK f, b : f = FileBlocks(inode) /\ b = inode.blocks
  OBVIOUS
<1>2. /\ Tree(at, g, i, b) /\ Climb(at, K, i, b) /\ n \in Nat /\ o \in Seq(Refs) /\ n <= Len(o)
      /\ \A j \in 1 .. n : o[j] \in K /\ DataOf(at, i, o[j]) /\ g[o[j]] = j - 1
      /\ \A k \in Levels : \A s \in DOMAIN b[k] : b[k][s] # NoBlock => g[b[k][s]] < n
  BY <1>1 DEF Stays, PointsUnder
<1>3. /\ Sorted(g, f, 1, 0, Limit(4)) /\ \A x \in K : DataOf(at, i, x) => x \in Range(f)
      /\ \A x \in Range(f) : Reached(at, g, i, b, x)
  BY <1>1, <1>2, FileSorted
<1>4. g \in [Blocks -> Nat]
  BY <1>2 DEF Tree, Readable
<1>5. StartsWith(f, o, n) /\ (AllUnder(g, f, n) => Len(f) = n)
  <2>1. CountsTo(g, f, o, n)
    BY <1>2, <1>3 DEF CountsTo
  <2>2. PICK D : D = Limit(4) /\ Sorted(g, f, 1, 0, D)
    BY <1>3
  <2> QED
    BY <1>2, <1>4, <2>1, <2>2, FileStarts
<1>6. /\ IsPrefix(SubSeq(o, 1, n), f)
      /\ \A x \in Range(SubSeq(o, 1, n)) : \E j \in 1 .. n : x = o[j]
      /\ Len(f) = n => f = SubSeq(o, 1, n)
  BY <1>2, <1>5, BeginsWith
<1>7. ASSUME NEW t \in Levels, n = Limit(t) PROVE AllUnder(g, f, n)
  <2>1. SUFFICES ASSUME NEW x \in Range(f) PROVE g[x] < n
    BY DEF AllUnder
  <2>2. PICK k \in Levels : g[x] < Limit(k + 1) /\ \E s \in DOMAIN b[k] : b[k][s] # NoBlock
    BY <1>3 DEF Reached
  <2>3. PICK s \in DOMAIN b[k] : b[k][s] # NoBlock
    BY <2>2
  <2>4. Limit(k) <= g[b[k][s]] /\ g[b[k][s]] \in Nat /\ g[b[k][s]] < n
    BY <1>2, <2>3, PointerFrom
  <2>5. Limit(k) \in Nat /\ Limit(t) \in Nat /\ Limit(k + 1) \in Nat /\ k \in Nat /\ t \in Nat
    BY LimitsAre DEF Levels
  <2>6. Limit(k) < Limit(t)
    BY <1>7, <2>4, <2>5
  <2>7. k < t
    <3>1. CASE k = t
      BY <2>5, <2>6, <3>1
    <3>2. CASE t < k
      <4>1. Limit(t + 1) <= Limit(k) /\ Limit(t) <= Limit(t + 1) /\ Limit(t + 1) \in Nat
        <5>1. Limit(t + 1) = Limit(t) + Pointers(t) * Span(t) /\ Pointers(t) * Span(t) \in Nat
          BY LimitsAre
        <5> QED
          BY <2>5, <3>2, <5>1, LimitMore
      <4> QED
        BY <2>5, <2>6, <4>1
    <3> QED
      BY <2>5, <3>1, <3>2
  <2>8. Limit(k + 1) <= Limit(t)
    BY <2>7, LimitMore
  <2>9. g[x] \in Nat
    BY <1>3, <1>4, <1>5 DEF Range, StartsWith
  <2> QED
    BY <1>7, <2>2, <2>5, <2>8, <2>9
<1>8. Range(SubSeq(o, 1, n)) \subseteq K
  BY <1>2, <1>6
<1> QED
  BY <1>1, <1>5, <1>6, <1>7, <1>8 DEF Keeps

LEMMA ShrinkImplies ==
    TypeInv /\ ShrinkInv => (failures <= 1 /\ crashes = 0 => ShrinkKeeps)
<1> SUFFICES ASSUME ShrinkInv, failures <= 1, crashes = 0, pc = "shrink"
             PROVE  LET kept == SubSeq(owned[self], 1, buf.n_blocks)
                    IN  /\ IsPrefix(kept, FileBlocks(buf))
                        /\ Range(kept) \intersect (free \union Range(todo)) = {}
                        /\ todo = <<>> /\ (\E k \in Levels : buf.n_blocks = Limit(k))
                               => FileBlocks(buf) = kept
  BY DEF ShrinkKeeps
<1>1. PICK at, g, K : Shrinks(at, g, K)
  BY DEF ShrinkInv
<1>2. PICK o, n, i : o = owned[self] /\ n = buf.n_blocks /\ i = self
  OBVIOUS
<1>3. Stays(at, g, i, buf.blocks, o, n, K) /\ Safe(K)
  BY <1>1, <1>2 DEF Shrinks
<1>4. Keeps(o, n, FileBlocks(buf), K)
  <2>1. PICK r : r = buf
    OBVIOUS
  <2>2. Stays(at, g, i, r.blocks, o, n, K)
    BY <1>3, <2>1
  <2>3. Keeps(o, n, FileBlocks(r), K)
    BY <2>2, StayIsAll
  <2> QED
    BY <2>1, <2>3
<1>5. Range(SubSeq(o, 1, n)) \intersect (free \union Range(todo)) = {}
  BY <1>3, <1>4 DEF Safe, Keeps
<1> QED
  BY <1>2, <1>4, <1>5 DEF Keeps

(* The pointers that a release leaves: c is what becomes of the array a.   *)
CutAt(g, a, c, start) ==
    \A s \in DOMAIN a : c[s] = IF a[s] # NoBlock /\ g[a[s]] >= start THEN NoBlock ELSE a[s]
LEMMA CutArray ==
    ASSUME NEW m \in Nat, NEW a \in [1 .. m -> Refs], NEW c \in [1 .. m -> Refs],
           NEW g \in [Blocks -> Nat], NEW start \in Nat, CutAt(g, a, c, start),
           NEW at, NEW i, NEW k \in Levels, NEW p, Right(at, a, i, k, p), NEW B \in Nat, Numbers(g, a, k, B)
    PROVE  /\ Right(at, c, i, k, p) /\ Numbers(g, c, k, B)
           /\ \A s \in DOMAIN c : c[s] # NoBlock => c[s] = a[s] /\ g[c[s]] < start
<1>0. DOMAIN a = 1 .. m /\ DOMAIN c = 1 .. m
  OBVIOUS
<1>1. PICK S \in Nat : S = Span(k) /\ S >= 1
  BY LimitsAre
<1>2. ASSUME NEW s \in 1 .. m, a[s] # NoBlock
      PROVE  a[s] \in Blocks /\ g[a[s]] \in Nat /\ g[a[s]] = B + (s - 1) * S
  BY <1>0, <1>1, <1>2 DEF Numbers, Refs
<1>3. ASSUME NEW s \in 1 .. m, c[s] # NoBlock
      PROVE  c[s] = a[s] /\ a[s] # NoBlock /\ g[a[s]] < start
  <2>1. c[s] = IF a[s] # NoBlock /\ g[a[s]] >= start THEN NoBlock ELSE a[s]
    BY <1>0 DEF CutAt
  <2>2. c[s] = a[s] /\ a[s] # NoBlock /\ ~(g[a[s]] >= start)
    BY <1>3, <2>1
  <2> QED
    BY <1>2, <2>2
<1>4. ASSUME NEW s \in 1 .. m, NEW t \in 1 .. m, s < t, c[s] = NoBlock
      PROVE  c[t] = NoBlock
  <2>1. SUFFICES ASSUME c[t] # NoBlock PROVE FALSE
    OBVIOUS
  <2>2. a[t] # NoBlock /\ g[a[t]] < start
    BY <1>3, <2>1
  <2>3. a[s] # NoBlock
    BY <1>0, <1>4, <2>2 DEF Right, Packed
  <2>4. g[a[s]] >= start
    BY <1>0, <1>4, <2>3 DEF CutAt
  <2>5. PICK u \in Int, v \in Int : u = s - 1 /\ v = t - 1 /\ u <= v
    BY <1>4
  <2>6. u * S <= v * S /\ u * S \in Int /\ v * S \in Int
    BY <1>1, <2>5, MulLess
  <2>7. g[a[s]] \in Nat /\ g[a[t]] \in Nat /\ g[a[s]] = B + u * S /\ g[a[t]] = B + v * S
    BY <1>2, <2>2, <2>3, <2>5
  <2> QED
    BY <2>2, <2>4, <2>6, <2>7
<1>5. Right(at, c, i, k, p)
  <2>1. Packed(c)
    BY <1>0, <1>4 DEF Packed
  <2>2. Names(at, c, i, k, p)
    BY <1>0, <1>3 DEF Names, Right
  <2> QED
    BY <2>1, <2>2 DEF Right
<1>6. Numbers(g, c, k, B)
  BY <1>0, <1>3 DEF Numbers
<1> QED
  BY <1>0, <1>3, <1>5, <1>6

(* The blocks whose numbers are less than `start', below what is left of   *)
(* the pointers.                                                           *)
Cut(g, b, c, start) ==
    \A k \in Levels : c[k] \in [1 .. Pointers(k) -> Refs] /\ CutAt(g, b[k], c[k], start)
Staying(at, g, i, start) == {x \in DOMAIN at : at[x].own = i /\ g[x] < start}
LEMMA CutPointing ==
    ASSUME NEW at, NEW g \in [Blocks -> Nat], NEW i, NEW b, NEW c, NEW start \in Nat,
           Pointing(at, g, i, b), Cut(g, b, c, start)
    PROVE  /\ Pointing(at, g, i, c)
           /\ PointsUnder(g, c, start)
<1>1. ASSUME NEW k \in Levels
      PROVE  /\ c[k] \in [1 .. Pointers(k) -> Refs]
             /\ Right(at, c[k], i, k, NoBlock) /\ Numbers(g, c[k], k, Limit(k))
             /\ \A s \in DOMAIN c[k] : c[k][s] # NoBlock => g[c[k][s]] < start
  <2>1. PICK m \in Nat, B \in Nat : m = Pointers(k) /\ B = Limit(k)
    <3>1. k \in 0 .. 4
      BY DEF Levels
    <3> QED
      BY <3>1, Layout, LimitsAre
  <2>2. PICK a, e : a = b[k] /\ e = c[k]
    OBVIOUS
  <2>3. /\ a \in [1 .. m -> Refs] /\ Right(at, a, i, k, NoBlock) /\ Numbers(g, a, k, B)
        /\ e \in [1 .. m -> Refs] /\ CutAt(g, a, e, start)
    BY <2>1, <2>2 DEF Pointing, Cut
  <2>4. /\ Right(at, e, i, k, NoBlock) /\ Numbers(g, e, k, B)
        /\ \A s \in DOMAIN e : e[s] # NoBlock => e[s] = a[s] /\ g[e[s]] < start
    BY <2>3, CutArray
  <2> QED
    BY <2>1, <2>2, <2>3, <2>4
<1> QED
  BY <1>1 DEF Pointing, PointsUnder

(* A block is found where it was, below blocks that stay.                  *)
LEMMA CutClimb ==
    ASSUME NEW at, NEW g, NEW i, NEW b, NEW c, NEW start \in Nat, Tree(at, g, i, b),
           Climb(at, DOMAIN at, i, b), Cut(g, b, c, start), NEW K, K = Staying(at, g, i, start)
    PROVE  Climb(at, K, i, c)
<1> SUFFICES ASSUME NEW x \in K, at[x].own = i
             PROVE  /\ x \in DOMAIN at /\ Found(at, c, x) /\ at[x].lvl \in Levels
                    /\ at[x].up # NoBlock => /\ at[x].up \in K /\ at[at[x].up].own = i
                                             /\ at[at[x].up].lvl = at[x].lvl + 1
  BY DEF Climb
<1>1. x \in DOMAIN at /\ g[x] < start /\ DOMAIN at \subseteq Blocks /\ g \in [Blocks -> Nat]
  BY DEF Staying, Tree, Readable
<1>2. /\ Found(at, b, x) /\ at[x].lvl \in Levels
      /\ at[x].up # NoBlock => /\ at[x].up \in DOMAIN at /\ at[at[x].up].own = i
                               /\ at[at[x].up].lvl = at[x].lvl + 1
  BY <1>1 DEF Climb
<1>3. CASE at[x].up = NoBlock
  <2>1. PICK k, a, e : k = at[x].lvl /\ k \in Levels /\ a = b[k] /\ e = c[k]
    BY <1>2
  <2>2. PICK s : s = at[x].idx /\ s \in DOMAIN a /\ a[s] = x
    BY <1>2, <1>3, <2>1 DEF Found, Has
  <2>3. a \in [1 .. Pointers(k) -> Refs] /\ e \in [1 .. Pointers(k) -> Refs] /\ CutAt(g, a, e, start)
    BY <2>1 DEF Tree, Pointing, Cut
  <2>4. s \in DOMAIN e /\ g[x] \in Nat
    BY <1>1, <2>2, <2>3
  <2>5. e[s] = x
    BY <1>1, <2>2, <2>3, <2>4 DEF CutAt
  <2> QED
    BY <1>1, <1>2, <1>3, <2>1, <2>2, <2>4, <2>5 DEF Found, Has
<1>4. CASE at[x].up # NoBlock
  <2>1. PICK p, k : /\ p = at[x].up /\ k = at[x].lvl /\ k \in Levels /\ p \in DOMAIN at
                    /\ at[p].own = i /\ at[p].lvl = k + 1
    BY <1>2, <1>4
  <2>2. PICK a, s : a = ReadArray(p) /\ s = at[x].idx /\ s \in DOMAIN a /\ a[s] = x
    BY <1>2, <1>4, <2>1 DEF Found, Has
  <2>3. k \in Nat /\ k + 1 > 0 /\ (k + 1) - 1 = k
    BY <2>1 DEF Levels
  <2>4. a \in Array /\ Numbers(g, a, k, g[p])
    BY <2>1, <2>2, <2>3 DEF Tree, Readable
  <2>5. PICK S \in Nat : S = Span(k)
    BY <2>1, LimitsAre
  <2>6. s \in 1 .. BPI /\ BPI \in Nat /\ x # NoBlock
    BY <1>1, <2>2, <2>4, Layout DEF Array
  <2>7. g[x] = g[p] + (s - 1) * S /\ s - 1 \in Nat /\ (s - 1) * S \in Nat
    <3>1. s - 1 \in Nat
      BY <2>6
    <3> QED
      BY <2>2, <2>4, <2>5, <2>6, <3>1, MulNat DEF Numbers
  <2>8. g[p] \in Nat /\ g[x] \in Nat
    BY <1>1, <2>1
  <2>9. g[p] < start
    BY <1>1, <2>7, <2>8
  <2>10. p \in K
    BY <2>1, <2>9 DEF Staying
  <2>11. Found(at, c, x)
    BY <1>4, <2>1, <2>2 DEF Found, Has
  <2> QED
    BY <1>1, <1>2, <1>4, <2>1, <2>10, <2>11
<1> QED
  BY <1>3, <1>4

(* Before the write fails, the block with the number j - 1 is the j-th     *)
(* that alloc_new_datablock returned.                                      *)
LEMMA OwnedCount ==
    ASSUME TypeInv, pc = "idle", NEW at, NEW w, NEW g, Placed(at), Sized(at, w), Ordered(at, g),
           NEW i \in linked, Climb(at, DOMAIN at, i, ino[i].blocks), NEW o, o = owned[i]
    PROVE  /\ o \in Seq(Refs) /\ ino[i].n_blocks = Len(o)
           /\ \A j \in 1 .. Len(o) : o[j] \in DOMAIN at /\ DataOf(at, i, o[j]) /\ g[o[j]] = j - 1
<1>1. PICK r : r = ino[i]
  OBVIOUS
<1>2. Tree(at, g, i, r.blocks) /\ Climb(at, DOMAIN at, i, r.blocks)
  BY <1>1, KeptTree DEF Ordered
<1>3. FileBlocks(r) = o /\ r.n_blocks = Len(o)
  BY <1>1, FileIsOwned
<1>4. /\ Sorted(g, FileBlocks(r), 1, 0, Limit(4))
      /\ \A x \in DOMAIN at : DataOf(at, i, x) => x \in Range(FileBlocks(r))
      /\ \A x \in Range(FileBlocks(r)) : Reached(at, g, i, r.blocks, x)
  BY <1>2, FileSorted
<1>5. /\ o \in Seq(Blocks) /\ DOMAIN o = 1 .. Len(o) /\ g \in [Blocks -> Nat]
      /\ \A p, q \in DOMAIN o : p < q => g[o[p]] + 1 <= g[o[q]]
      /\ \A x \in Range(o) : x \in DOMAIN at /\ DataOf(at, i, x)
  BY <1>2, <1>3, <1>4 DEF Sorted, Reached, Tree, Readable
<1>6. o \in Seq(Refs)
  BY <1>5, Layout
<1>7. ASSUME NEW j \in 1 .. Len(o)
      PROVE  o[j] \in DOMAIN at /\ DataOf(at, i, o[j]) /\ g[o[j]] = j - 1
  <2>1. PICK x : x = o[j]
    OBVIOUS
  <2>2. x \in DOMAIN at /\ DataOf(at, i, x) /\ x \in Blocks /\ j \in DOMAIN o
    BY <1>5, <2>1 DEF Range
  <2>3. IsGiven(at, g, x) /\ Coming(i) = o
    BY <2>2 DEF Ordered, Given, Coming
  <2>4. g[x] + 1 \in DOMAIN o /\ o[g[x] + 1] = x
    BY <2>2, <2>3 DEF IsGiven, DataOf
  <2>5. PICK p \in DOMAIN o : p = g[x] + 1 /\ o[p] = x
    BY <2>4
  <2>6. p \in Nat /\ j \in Nat /\ g[x] \in Nat
    BY <1>5, <2>2, <2>5
  <2>7. p = j
    <3>1. ~(p < j) /\ ~(j < p)
      BY <1>5, <2>1, <2>2, <2>5, <2>6
    <3> QED
      BY <2>6, <3>1
  <2> QED
    BY <2>1, <2>2, <2>5, <2>6, <2>7
<1> QED
  BY <1>1, <1>3, <1>6, <1>7

(* An array that is read as before, or as empty if it was given back.      *)
Rereads(at, K) ==
    \A p \in DOMAIN at : \/ ReadArray(p)' = ReadArray(p)
                         \/ p \notin K /\ ReadArray(p)' = EmptyArray
LEMMA StaysNext ==
    ASSUME NEW at, NEW g, NEW i, NEW b, NEW o, NEW n, NEW K, Stays(at, g, i, b, o, n, K), Rereads(at, K)
    PROVE  Stays(at, g, i, b, o, n, K)'
<1>1. /\ Readable(at, g, i) /\ Pointing(at, g, i, b) /\ Climb(at, K, i, b)
      /\ n \in Nat /\ o \in Seq(Refs) /\ n <= Len(o)
      /\ \A j \in 1 .. n : o[j] \in K /\ DataOf(at, i, o[j]) /\ g[o[j]] = j - 1
      /\ PointsUnder(g, b, n)
  BY DEF Stays, Tree
<1>2. Readable(at, g, i)'
  <2>1. ASSUME NEW p \in DOMAIN at, at[p].own = i /\ at[p].lvl > 0
        PROVE  /\ ReadArray(p)' \in Array /\ Right(at, ReadArray(p)', i, at[p].lvl - 1, p)
               /\ Numbers(g, ReadArray(p)', at[p].lvl - 1, g[p])
    <3>1. CASE ReadArray(p)' = ReadArray(p)
      BY <1>1, <2>1, <3>1 DEF Readable
    <3>2. CASE ReadArray(p)' = EmptyArray
      <4>1. PICK a : a = EmptyArray /\ a \in Array /\ \A s \in DOMAIN a : a[s] = NoBlock
        BY EmptyIs DEF EmptyArray
      <4>2. /\ Right(at, a, i, at[p].lvl - 1, p) /\ Numbers(g, a, at[p].lvl - 1, g[p])
        BY <4>1, RightEmpty, NumbersEmpty
      <4> QED
        BY <3>2, <4>1, <4>2
    <3> QED
      BY <3>1, <3>2 DEF Rereads
  <2> QED
    BY <1>1, <2>1 DEF Readable
<1>3. Climb(at, K, i, b)'
  <2>1. ASSUME NEW x \in K, at[x].own = i
        PROVE  /\ x \in DOMAIN at /\ Found(at, b, x)' /\ at[x].lvl \in Levels
               /\ at[x].up # NoBlock => /\ at[x].up \in K /\ at[at[x].up].own = i
                                        /\ at[at[x].up].lvl = at[x].lvl + 1
    <3>1. /\ x \in DOMAIN at /\ Found(at, b, x) /\ at[x].lvl \in Levels
          /\ at[x].up # NoBlock => /\ at[x].up \in K /\ at[at[x].up].own = i
                                   /\ at[at[x].up].lvl = at[x].lvl + 1
      BY <1>1, <2>1 DEF Climb
    <3>2. CASE at[x].up = NoBlock
      BY <3>1, <3>2 DEF Found
    <3>3. CASE at[x].up # NoBlock
      <4>1. at[x].up \in K /\ at[x].up \in DOMAIN at
        BY <1>1, <3>1, <3>3 DEF Climb
      <4>2. ReadArray(at[x].up)' = ReadArray(at[x].up)
        BY <4>1 DEF Rereads
      <4> QED
        BY <3>1, <3>3, <4>2 DEF Found
    <3> QED
      BY <3>1, <3>2, <3>3
  <2> QED
    BY <2>1 DEF Climb
<1> QED
  BY <1>1, <1>2, <1>3 DEF Stays, Tree, Pointing, PointsUnder

(* The write fails, and its release begins.                                *)
LEMMA ShrinkStart ==
    ASSUME N2Indirect = 1, N3Indirect = 1,
           TypeInv, NEW at, NEW w, NEW g, Placed(at), Sized(at, w), Ordered(at, g), Rooted(at, DOMAIN at),
           NEW i \in Inodes, NEW start \in 0 .. Cardinality(Blocks), FailedWrite(i, start)
    PROVE  \E K : Shrinks(at, g, K)'
<1>1. /\ pc = "idle" /\ i \in linked /\ start <= ino[i].n_blocks
      /\ todo' = Released(ino[i], start) /\ buf' = AfterRelease(ino[i], start)
      /\ UNCHANGED <<free, content, owned>>
  BY DEF FailedWrite, Idle, ReleaseStart, pool
<1>2. start \in Nat /\ start \in 0 .. Limit(4)
  <2>1. Cardinality(Blocks) \in Nat
    BY LayoutAssumption, FS_CardinalityType
  <2>2. /\ start <= ino[i].n_blocks /\ ino[i].n_blocks \in 0 .. Limit(4) /\ Limit(4) \in Nat
    BY <1>1, LimitsAre DEF TypeInv, InodesType, IsInode, InodeRecord
  <2> QED
    BY <2>1, <2>2
<1>3. PICK r, b, o, K : /\ r = ino[i] /\ b = r.blocks /\ o = owned[i] /\ K = Staying(at, g, i, start)
  OBVIOUS
<1>4. IsInode(r) /\ r.inum = i /\ PoolType /\ Forest(at) /\ Apart /\ g \in [Blocks -> Nat]
  BY <1>3 DEF TypeInv, InodesType, Placed, Ordered, Numbered
<1>5. Tree(at, g, i, b) /\ Climb(at, DOMAIN at, i, b)
  BY <1>1, <1>3, <1>4, KeptTree, RootedClimb DEF Ordered
<1>6. PICK q, c, t : q = AfterRelease(r, start) /\ c = q.blocks /\ t = Released(r, start)
  OBVIOUS
<1>7. /\ IsInode(q) /\ q.inum = i /\ q.n_blocks = start
      /\ \A k \in Levels : \A s \in 1 .. Pointers(k) :
             c[k][s] = IF b[k][s] \in Range(t) THEN NoBlock ELSE b[k][s]
  BY <1>2, <1>3, <1>4, <1>6, AfterReleaseType
<1>8. t \in Seq(Blocks) /\ Range(t) \subseteq Blocks
  <2>1. t \in Seq(Blocks)
    BY <1>2, <1>4, <1>6, ReleasedType
  <2> QED
    BY <2>1 DEF Range
<1>9. /\ \A x \in Range(t) : Past(at, g, i, start, x)
      /\ \A k \in Levels : \A s \in DOMAIN b[k] :
             b[k][s] # NoBlock /\ g[b[k][s]] >= start => b[k][s] \in Range(t)
  <2>1. ReleasesFrom(at, g, i, start)
    BY <1>1, <1>2, ReleasedFrom
  <2> QED
    BY <1>3, <1>6, <2>1 DEF ReleasesFrom
<1>10. Cut(g, b, c, start)
  <2>1. ASSUME NEW k \in Levels PROVE c[k] \in [1 .. Pointers(k) -> Refs] /\ CutAt(g, b[k], c[k], start)
    <3>1. b[k] \in [1 .. Pointers(k) -> Refs] /\ c[k] \in [1 .. Pointers(k) -> Refs]
      BY <1>3, <1>4, <1>6, <1>7 DEF IsInode
    <3>2. PICK a, e : a = b[k] /\ e = c[k]
      OBVIOUS
    <3>3. ASSUME NEW s \in DOMAIN a
          PROVE  e[s] = IF a[s] # NoBlock /\ g[a[s]] >= start THEN NoBlock ELSE a[s]
      <4>1. s \in 1 .. Pointers(k) /\ e[s] = IF a[s] \in Range(t) THEN NoBlock ELSE a[s]
        BY <1>7, <3>1, <3>2
      <4>2. a[s] \in Range(t) => a[s] # NoBlock /\ g[a[s]] >= start
        BY <1>8, <1>9, Layout DEF Past
      <4>3. a[s] # NoBlock /\ g[a[s]] >= start => a[s] \in Range(t)
        BY <1>9, <3>2
      <4> QED
        BY <4>1, <4>2, <4>3
    <3> QED
      BY <3>1, <3>2, <3>3 DEF CutAt
  <2> QED
    BY <2>1 DEF Cut
<1>11. /\ Pointing(at, g, i, c)
       /\ PointsUnder(g, c, start)
  <2>1. Pointing(at, g, i, b)
    BY <1>5 DEF Tree
  <2> QED
    BY <1>2, <1>4, <1>10, <2>1, CutPointing
<1>12. Climb(at, K, i, c)
  BY <1>2, <1>3, <1>5, <1>10, CutClimb
<1>13. /\ o \in Seq(Refs) /\ r.n_blocks = Len(o)
       /\ \A j \in 1 .. Len(o) : o[j] \in DOMAIN at /\ DataOf(at, i, o[j]) /\ g[o[j]] = j - 1
  BY <1>1, <1>3, <1>5, OwnedCount
<1>14. Stays(at, g, i, c, o, start, K)
  <2>1. start <= Len(o) /\ Len(o) \in Nat
    BY <1>1, <1>3, <1>13
  <2>2. \A j \in 1 .. start : o[j] \in K /\ DataOf(at, i, o[j]) /\ g[o[j]] = j - 1
    <3>1. SUFFICES ASSUME NEW j \in 1 .. start
                   PROVE  o[j] \in K /\ DataOf(at, i, o[j]) /\ g[o[j]] = j - 1
      OBVIOUS
    <3>2. j \in 1 .. Len(o) /\ j - 1 < start
      BY <1>2, <2>1, <3>1
    <3> QED
      BY <1>3, <1>13, <3>2 DEF Staying, DataOf
  <2>3. Tree(at, g, i, c)
    BY <1>5, <1>11 DEF Tree
  <2> QED
    BY <1>2, <1>11, <1>12, <1>13, <2>1, <2>2, <2>3 DEF Stays
<1>15. Rereads(at, K)
  BY <1>1 DEF Rereads, ReadArray
<1>16. Stays(at, g, i, c, o, start, K)'
  BY <1>14, <1>15, StaysNext
<1>17. Safe(K)'
  <2>1. K \subseteq DOMAIN content /\ K \intersect free = {}
    BY <1>3, <1>4 DEF Staying, Forest, Apart
  <2>2. K \intersect Range(t) = {}
    <3>1. \A x \in K : g[x] < start /\ g[x] \in Nat
      BY <1>3, <1>4, <1>5 DEF Staying, Tree, Readable
    <3> QED
      BY <1>2, <1>9, <3>1 DEF Past
  <2>3. todo' = t /\ content' = content /\ free' = free
    BY <1>1, <1>3, <1>6
  <2> QED
    BY <2>1, <2>2, <2>3 DEF Safe
<1>18. self' = i /\ buf'.blocks = c /\ owned'[i] = o /\ buf'.n_blocks = start
  BY <1>1, <1>3, <1>6, <1>7 DEF self
<1> QED
  BY <1>16, <1>17, <1>18 DEF Shrinks

(* A block of the end of the file is given back.                           *)
LEMMA ShrinkAppends ==
    ASSUME TypeInv, NEW at, NEW g, NEW K, Shrinks(at, g, K), AppendNext
    PROVE  Shrinks(at, g, K)'
<1>1. /\ UNCHANGED <<buf, owned>> /\ todo # <<>> /\ Pool!Release(Head(todo)) /\ todo \in Seq(Blocks)
      /\ todo' = Tail(todo) /\ PoolType
  BY TypeParts DEF AppendNext, Changing
<1>2. Range(todo) = {Head(todo)} \union Range(todo')
  BY <1>1, TailRange
<1>3. PICK h : h = Head(todo) /\ h \notin K
  BY <1>2 DEF Shrinks, Safe
<1>4. /\ DOMAIN content' = DOMAIN content \ {h} /\ free' = free \union {h}
      /\ \A c \in DOMAIN content : c # h => content'[c] = content[c]
  BY <1>1, <1>3, ReleaseType
<1>5. Rereads(at, K)
  BY <1>3, <1>4 DEF Rereads, ReadArray
<1>6. PICK i, b, o, n : i = self /\ b = buf.blocks /\ o = owned[self] /\ n = buf.n_blocks
  OBVIOUS
<1>7. Stays(at, g, i, b, o, n, K)'
  BY <1>5, <1>6, StaysNext DEF Shrinks
<1>8. i = self' /\ b = buf'.blocks /\ o = owned'[i] /\ n = buf'.n_blocks
  BY <1>1, <1>6 DEF self
<1>9. Safe(K)'
  BY <1>2, <1>3, <1>4 DEF Shrinks, Safe
<1> QED
  BY <1>7, <1>8, <1>9 DEF Shrinks

LEMMA ShrinkSame ==
    ASSUME NEW at, NEW g, NEW K, Shrinks(at, g, K), UNCHANGED mapVars
    PROVE  Shrinks(at, g, K)'
<1>1. UNCHANGED <<free, content, buf, owned, todo>>
  BY DEF mapVars, pool
<1>2. Rereads(at, K)
  BY <1>1 DEF Rereads, ReadArray
<1>3. PICK i, b, o, n : i = self /\ b = buf.blocks /\ o = owned[self] /\ n = buf.n_blocks
  OBVIOUS
<1>4. Stays(at, g, i, b, o, n, K)'
  BY <1>2, <1>3, StaysNext DEF Shrinks
<1>5. i = self' /\ b = buf'.blocks /\ o = owned'[i] /\ n = buf'.n_blocks
  BY <1>1, <1>3 DEF self
<1>6. Safe(K)'
  BY <1>1 DEF Shrinks, Safe
<1> QED
  BY <1>4, <1>5, <1>6 DEF Shrinks

LEMMA ShrinkInit == MapInit => ShrinkInv
  BY DEF MapInit, ShrinkInv

(* No other step leads to the release.                                     *)
LEMMA ShrinkMoves ==
    ASSUME [MapNext]_mapVars, pc' = "shrink"
    PROVE  \/ UNCHANGED mapVars
           \/ AppendNext /\ pc = "shrink"
           \/ \E i \in Inodes, start \in 0 .. Cardinality(Blocks) : FailedWrite(i, start)
<1>1. CASE UNCHANGED mapVars
  BY <1>1
<1>2. ASSUME NEW i \in Inodes, Create(i) \/ AllocStart(i) \/ Unlink(i) PROVE FALSE
  BY <1>2 DEF Create, AllocStart, Unlink, Rest, Idle
<1>3. ASSUME NEW i \in Inodes, NEW start \in 0 .. Cardinality(Blocks), FailedWrite(i, start)
      PROVE  \E j \in Inodes, m \in 0 .. Cardinality(Blocks) : FailedWrite(j, m)
  BY <1>3
<1>4. CASE AppendNext
  BY <1>4 DEF AppendNext
<1>5. CASE NewIndirect \/ OldIndirect \/ NewDirect \/ GiveBack \/ PopFails
  BY <1>5 DEF NewIndirect, OldIndirect, NewDirect, GiveBack, PopFails
<1>6. CASE WriteIndirect \/ UndoIndirect
  BY <1>6 DEF WriteIndirect, UndoIndirect
<1>7. CASE WriteInode \/ AllocFails \/ FreeInode \/ WriteReturns \/ Crash
  BY <1>7 DEF WriteInode, AllocFails, FreeInode, WriteReturns, Crash, Rest
<1> QED
  BY <1>1, <1>2, <1>3, <1>4, <1>5, <1>6, <1>7 DEF MapNext, Resume

LEMMA ShrinkStep ==
    ASSUME N2Indirect = 1, N3Indirect = 1
    PROVE  TypeInv /\ OwnInv /\ SizeInv /\ OrderInv /\ LostInv /\ ShrinkInv /\ [MapNext]_mapVars
               => ShrinkInv'
<1> SUFFICES ASSUME TypeInv, OwnInv, SizeInv, OrderInv, LostInv, ShrinkInv, [MapNext]_mapVars,
                    pc' = "shrink", failures' <= 1, crashes' = 0
             PROVE  (\E at, g, K : Shrinks(at, g, K))'
  BY DEF ShrinkInv
<1>1. /\ failures' = failures \/ failures' = failures + 1
      /\ crashes' = crashes \/ crashes' = crashes + 1
  BY CountsUp
<1>2. failures \in Nat /\ crashes \in Nat
  BY DEF OwnInv, SizeInv
<1>3. failures <= 1 /\ crashes = 0
  BY <1>1, <1>2
<1>4. CASE UNCHANGED mapVars
  <2>1. pc = "shrink"
    BY <1>4 DEF mapVars
  <2>2. PICK at, g, K : Shrinks(at, g, K)
    BY <1>3, <2>1 DEF ShrinkInv
  <2>3. Shrinks(at, g, K)'
    BY <1>4, <2>2, ShrinkSame
  <2> QED
    BY <2>3
<1>5. CASE AppendNext /\ pc = "shrink"
  <2>1. PICK at, g, K : Shrinks(at, g, K)
    BY <1>3, <1>5 DEF ShrinkInv
  <2>2. Shrinks(at, g, K)'
    BY <1>5, <2>1, ShrinkAppends
  <2> QED
    BY <2>2
<1>6. ASSUME NEW i \in Inodes, NEW start \in 0 .. Cardinality(Blocks), FailedWrite(i, start)
      PROVE  (\E at, g, K : Shrinks(at, g, K))'
  <2>1. pc = "idle" /\ failures' = failures + 1
    BY <1>6 DEF FailedWrite, Idle
  <2>2. failures = 0
    BY <1>2, <2>1
  <2>3. PICK at, w, g : Placed(at) /\ Sized(at, w) /\ Ordered(at, g)
    BY <1>3, <2>2 DEF OrderInv
  <2>4. PICK at2 : Placed(at2) /\ Tight(at2)
    BY <1>3, <2>2 DEF LostInv
  <2>5. Rooted(at, DOMAIN at)
    BY <2>1, <2>3, <2>4, PlacesAgree
  <2>6. \E K : Shrinks(at, g, K)'
    BY <1>6, <2>3, <2>5, ShrinkStart
  <2> QED
    BY <2>6
<1> QED
  BY <1>4, <1>5, <1>6, ShrinkMoves

(* The first write that fails, as long as nothing crashes: while the       *)
(* blocks from the old end of the file on are appended, those before it    *)
(* stay the first of the file in core and on disk and none of them is      *)
(* free; when all are appended the file in core is just these, if the old  *)
(* end was where a level of pointers begins.  An inode has one pointer to  *)
(* a double and one to a triple indirect block (cofs_data_structures.h).   *)
THEOREM FailedWriteKeeps ==
    ASSUME N2Indirect = 1, N3Indirect = 1
    PROVE  MapSpec => [](failures <= 1 /\ crashes = 0 => ShrinkKeeps)
<1>1. MapSpec => []TypeInv
  BY TypeInit, TypeStep, PTL DEF MapSpec
<1>2. MapSpec => []OwnInv
  BY <1>1, OwnInit, OwnStep, PTL DEF MapSpec
<1>3. MapSpec => []SizeInv
  BY <1>1, <1>2, SizeInit, SizeStep, PTL DEF MapSpec
<1>4. MapSpec => []OrderInv
  BY <1>1, <1>2, <1>3, OrderInit, OrderStep, PTL DEF MapSpec
<1>5. MapSpec => []LostInv
  BY <1>1, <1>2, <1>3, LostInit, LostStep, PTL DEF MapSpec
<1>6. MapSpec => []ShrinkInv
  BY <1>1, <1>2, <1>3, <1>4, <1>5, ShrinkInit, ShrinkStep, PTL DEF MapSpec
<1>7. TypeInv /\ ShrinkInv => (failures <= 1 /\ crashes = 0 => ShrinkKeeps)
  BY ShrinkImplies
<1> QED
  BY <1>1, <1>6, <1>7, PTL

=============================================================================
