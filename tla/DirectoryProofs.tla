-------------------------- MODULE DirectoryProofs --------------------------
(***************************************************************************)
(* Proofs about Directory, for every number of inodes, names and blocks,   *)
(* any number of operations and a crash between any two writes.            *)
(***************************************************************************)
EXTENDS Directory, SequenceTheorems, FiniteSetTheorems, WellFoundedInduction,
        TLAPS

USE DEF history, BaseNames

-----------------------------------------------------------------------------
(* Sums.  SumFunction is a fold, which chooses an element after the other: *)
(* the proofs by induction over the subsets of the domain take the         *)
(* smallest counterexample instead.                                        *)
LEMMA LeastNat ==
    ASSUME NEW S, S \subseteq Nat, S # {}
    PROVE  \E m \in S : \A k \in S : m <= k
<1>1. PICK m \in S : \A k \in S : <<k, m>> \notin OpToRel(<, Nat)
  BY WFMin, NatLessThanWellFounded, Zenon
<1>2. \A k \in S : ~(k < m)
  BY <1>1, Zenon DEF OpToRel
<1> QED
  BY <1>2

(* The steps in which SumFunction adds up f over the subsets of D.         *)
Some(s) == CHOOSE x \in s : TRUE
SumTo(f, D, g) == g = [s \in SUBSET D |-> IF s = {} THEN 0 ELSE f[Some(s)] + g[s \ {Some(s)}]]

LEMMA SumIs ==
    ASSUME NEW f
    PROVE  SumFunction(f) = (CHOOSE g : SumTo(f, DOMAIN f, g))[DOMAIN f]
  BY DEF SumFunction, SumFunctionOnSet, FoldFunctionOnSet, MapThenFoldSet, SumTo, Some

LEMMA SomeIs ==
    ASSUME NEW D, IsFiniteSet(D), NEW s \in SUBSET D, s # {}
    PROVE  /\ Some(s) \in s /\ s \ {Some(s)} \in SUBSET D
           /\ Cardinality(s) \in Nat /\ Cardinality(s) > 0
           /\ Cardinality(s \ {Some(s)}) = Cardinality(s) - 1
<1>1. Some(s) \in s
  BY DEF Some
<1>2. IsFiniteSet(s)
  BY FS_Subset
<1>3. Cardinality(s) \in Nat /\ Cardinality(s \ {Some(s)}) = Cardinality(s) - 1
      /\ Cardinality(s \ {Some(s)}) \in Nat
  BY <1>1, <1>2, FS_RemoveElement, FS_CardinalityType
<1> QED
  BY <1>1, <1>3

LEMMA SumExists ==
    ASSUME NEW f, NEW D, IsFiniteSet(D)
    PROVE  \E g : SumTo(f, D, g)
<1> DEFINE Small(n) == {s \in SUBSET D : Cardinality(s) <= n}
           Good(n, g) == g = [s \in Small(n) |-> IF s = {} THEN 0 ELSE f[Some(s)] + g[s \ {Some(s)}]]
           Bad == {n \in Nat : ~ \E g : Good(n, g)}
<1>0. \A s \in SUBSET D : Cardinality(s) \in Nat /\ Cardinality(s) <= Cardinality(D)
  BY FS_Subset, FS_CardinalityType
<1>1. ASSUME Bad # {} PROVE FALSE
  <2>1. PICK m \in Bad : \A k \in Bad : m <= k
    <3>1. Bad \subseteq Nat
      OBVIOUS
    <3> HIDE DEF Bad
    <3> QED
      BY <1>1, <3>1, LeastNat
  <2>2. m # 0
    <3> SUFFICES ASSUME m = 0 PROVE FALSE
      OBVIOUS
    <3>1. ASSUME NEW s \in Small(0) PROVE s = {}
      <4>1. s \in SUBSET D /\ Cardinality(s) = 0
        BY <1>0
      <4>2. s # {} => Cardinality(s) > 0
        <5> HIDE DEF Small
        <5> QED
          BY <4>1, SomeIs
      <4> QED
        BY <4>1, <4>2
    <3>2. Good(0, [s \in Small(0) |-> 0])
      BY <3>1
    <3> QED
      BY <2>1, <3>2
  <2>3. PICK g : Good(m - 1, g)
    <3>1. m \in Nat /\ m - 1 \in Nat /\ m - 1 < m
      BY <2>1, <2>2
    <3> HIDE DEF Good
    <3>2. m - 1 \notin Bad
      BY <2>1, <3>1
    <3> QED
      BY <3>1, <3>2
  <2> DEFINE h == [s \in Small(m) |-> IF Cardinality(s) < m THEN g[s]
                                      ELSE f[Some(s)] + g[s \ {Some(s)}]]
  <2>4. ASSUME NEW s \in Small(m)
        PROVE  h[s] = IF s = {} THEN 0 ELSE f[Some(s)] + h[s \ {Some(s)}]
    <3>1. m \in Nat /\ m - 1 \in Nat
      BY <2>2
    <3>2. s \in SUBSET D /\ Cardinality(s) \in Nat /\ Cardinality(s) <= m
      BY <1>0
    <3>3. s # {} => /\ Some(s) \in s /\ s \ {Some(s)} \in SUBSET D
                    /\ Cardinality(s) > 0 /\ Cardinality(s \ {Some(s)}) = Cardinality(s) - 1
      BY <3>2, SomeIs
    <3>4. s # {} => h[s \ {Some(s)}] = g[s \ {Some(s)}]
      BY <3>1, <3>2, <3>3
    <3>5. CASE Cardinality(s) = m
      <4>1. s # {}
        BY <2>2, <3>5, FS_EmptySet
      <4>2. h[s] = f[Some(s)] + g[s \ {Some(s)}]
        BY <3>1, <3>2, <3>5
      <4> HIDE DEF h
      <4> QED
        BY <3>4, <4>1, <4>2
    <3>6. CASE Cardinality(s) < m
      <4>1. s \in Small(m - 1) /\ h[s] = g[s]
        BY <3>1, <3>2, <3>6
      <4>2. g[s] = IF s = {} THEN 0 ELSE f[Some(s)] + g[s \ {Some(s)}]
        BY <2>3, <4>1
      <4> HIDE DEF h
      <4> QED
        BY <3>4, <4>1, <4>2
    <3> QED
      BY <3>1, <3>2, <3>5, <3>6
  <2>5. Good(m, h)
    BY <2>4
  <2> QED
    BY <2>1, <2>5
<1>2. Cardinality(D) \in Nat
  BY FS_CardinalityType
<1>3. PICK g : Good(Cardinality(D), g)
  <2> HIDE DEF Good
  <2> QED
    BY <1>1, <1>2
<1>4. Small(Cardinality(D)) = SUBSET D
  BY <1>0
<1>5. SumTo(f, D, g)
  BY <1>3, <1>4 DEF SumTo
<1> QED
  BY <1>5

LEMMA SumUnfolds ==
    ASSUME NEW f, IsFiniteSet(DOMAIN f)
    PROVE  \E g : SumTo(f, DOMAIN f, g) /\ SumFunction(f) = g[DOMAIN f]
<1> DEFINE g == CHOOSE h : SumTo(f, DOMAIN f, h)
<1>1. SumTo(f, DOMAIN f, g)
  BY SumExists
<1> QED
  BY <1>1, SumIs

(* A step of the sum.                                                      *)
LEMMA SumStep ==
    ASSUME NEW f, NEW D, IsFiniteSet(D), NEW g, SumTo(f, D, g), NEW s \in SUBSET D
    PROVE  g[s] = IF s = {} THEN 0 ELSE f[Some(s)] + g[s \ {Some(s)}]
  BY DEF SumTo

(* What holds of no elements, and of one more, holds of a finite set.      *)
LEMMA SubsetsAll ==
    ASSUME NEW D, IsFiniteSet(D), NEW P,
           \A s \in SUBSET D : (s = {} \/ s \ {Some(s)} \in P) => s \in P
    PROVE  SUBSET D \subseteq P
<1> DEFINE Bad == {n \in Nat : \E s \in SUBSET D : Cardinality(s) = n /\ s \notin P}
<1>1. ASSUME Bad # {} PROVE FALSE
  <2>1. PICK m \in Bad : \A k \in Bad : m <= k
    <3>1. Bad \subseteq Nat
      OBVIOUS
    <3> HIDE DEF Bad
    <3> QED
      BY <1>1, <3>1, LeastNat
  <2>2. PICK s \in SUBSET D : Cardinality(s) = m /\ s \notin P
    BY <2>1
  <2>3. s # {}
    BY <2>2
  <2>4. /\ s \ {Some(s)} \in SUBSET D /\ Cardinality(s) \in Nat /\ Cardinality(s) > 0
        /\ Cardinality(s \ {Some(s)}) = Cardinality(s) - 1
    BY <2>3, SomeIs
  <2>5. m - 1 \in Nat /\ m - 1 \notin Bad
    BY <2>1, <2>2, <2>4
  <2>6. s \ {Some(s)} \in P
    BY <2>2, <2>4, <2>5
  <2> QED
    BY <2>2, <2>6
<1>2. \A s \in SUBSET D : Cardinality(s) \in Nat
  BY FS_Subset, FS_CardinalityType
<1> QED
  BY <1>1, <1>2

LEMMA SumNat ==
    ASSUME NEW D, IsFiniteSet(D), NEW f \in [D -> Nat]
    PROVE  SumFunction(f) \in Nat /\ \A x \in D : f[x] <= SumFunction(f)
<1>1. PICK g : SumTo(f, D, g) /\ SumFunction(f) = g[D]
  BY SumUnfolds
<1> DEFINE P == {s \in SUBSET D : g[s] \in Nat /\ \A x \in s : f[x] <= g[s]}
<1>2. ASSUME NEW s \in SUBSET D, s = {} \/ s \ {Some(s)} \in P PROVE s \in P
  <2>1. CASE s = {}
    BY <1>1, <2>1, SumStep
  <2>2. CASE s # {}
    <3>1. Some(s) \in s /\ f[Some(s)] \in Nat
      BY <2>2, SomeIs
    <3>2. g[s] = f[Some(s)] + g[s \ {Some(s)}]
      BY <1>1, <2>2, SumStep
    <3>3. g[s \ {Some(s)}] \in Nat /\ \A x \in s \ {Some(s)} : f[x] <= g[s \ {Some(s)}]
      BY <1>2, <2>2
    <3>4. \A x \in s : f[x] \in Nat
      OBVIOUS
    <3> HIDE DEF P
    <3>5. g[s] \in Nat
      BY <3>1, <3>2, <3>3
    <3>6. ASSUME NEW x \in s PROVE f[x] <= g[s]
      <4>1. CASE x = Some(s)
        BY <3>1, <3>2, <3>3, <4>1
      <4>2. CASE x # Some(s)
        <5>1. f[x] <= g[s \ {Some(s)}]
          BY <3>3, <4>2
        <5> QED
          BY <3>1, <3>2, <3>3, <3>4, <5>1
      <4> QED
        BY <4>1, <4>2
    <3> QED
      BY <3>5, <3>6 DEF P
  <2> QED
    BY <2>1, <2>2
<1>3. D \in P
  <2> HIDE DEF P
  <2>1. SUBSET D \subseteq P
    BY <1>2, SubsetsAll
  <2> QED
    BY <2>1
<1> QED
  BY <1>1, <1>3

LEMMA SumZero ==
    ASSUME NEW D, IsFiniteSet(D), NEW f \in [D -> Nat]
    PROVE  (\A x \in D : f[x] = 0) => SumFunction(f) = 0
<1>1. PICK g : SumTo(f, D, g) /\ SumFunction(f) = g[D]
  BY SumUnfolds
<1>2. g[{}] = 0
  BY <1>1, SumStep
<1>3. ASSUME NEW s \in SUBSET D, s # {}
      PROVE  g[s] = f[Some(s)] + g[s \ {Some(s)}] /\ Some(s) \in D
  <2>1. Some(s) \in s
    BY <1>3, SomeIs
  <2>2. g[s] = f[Some(s)] + g[s \ {Some(s)}]
    BY <1>1, <1>3, SumStep
  <2> QED
    BY <2>1, <2>2
<1> SUFFICES ASSUME \A x \in D : f[x] = 0 PROVE SumFunction(f) = 0
  OBVIOUS
<1> DEFINE P == {s \in SUBSET D : g[s] = 0}
<1>4. ASSUME NEW s \in SUBSET D, s = {} \/ s \ {Some(s)} \in P PROVE s \in P
  <2>1. CASE s = {}
    BY <1>2, <2>1
  <2>2. CASE s # {}
    <3>1. f[Some(s)] = 0 /\ g[s \ {Some(s)}] = 0
      BY <1>3, <1>4, <2>2
    <3>2. g[s] = f[Some(s)] + g[s \ {Some(s)}]
      BY <1>3, <2>2
    <3> QED
      BY <3>1, <3>2
  <2> QED
    BY <2>1, <2>2
<1>5. D \in P
  <2> HIDE DEF P
  <2>1. SUBSET D \subseteq P
    BY <1>4, SubsetsAll
  <2> QED
    BY <2>1
<1> QED
  BY <1>1, <1>5

(* The sum changes by what one of its terms does.                          *)
LEMMA SumChange ==
    ASSUME NEW D, IsFiniteSet(D), NEW f \in [D -> Nat], NEW h \in [D -> Nat], NEW x \in D,
           \A y \in D : y # x => h[y] = f[y]
    PROVE  SumFunction(h) + f[x] = SumFunction(f) + h[x]
<1>1. PICK g : SumTo(f, D, g) /\ SumFunction(f) = g[D]
  BY SumUnfolds
<1>2. PICK k : SumTo(h, D, k) /\ SumFunction(h) = k[D]
  BY SumUnfolds
<1> DEFINE P == {s \in SUBSET D : /\ g[s] \in Nat /\ k[s] \in Nat
                                  /\ x \in s => k[s] + f[x] = g[s] + h[x]
                                  /\ x \notin s => k[s] = g[s]}
<1>3. ASSUME NEW s \in SUBSET D, s = {} \/ s \ {Some(s)} \in P PROVE s \in P
  <2>1. CASE s = {}
    BY <1>1, <1>2, <2>1, SumStep
  <2>2. CASE s # {}
    <3> DEFINE y == Some(s)
               t == s \ {y}
    <3>1. y \in s /\ f[y] \in Nat /\ h[y] \in Nat /\ (y # x => h[y] = f[y])
      BY <2>2, SomeIs
    <3>2. g[s] = f[y] + g[t] /\ k[s] = h[y] + k[t]
      <4>1. g[s] = f[y] + g[t]
        BY <1>1, <2>2, SumStep
      <4>2. DOMAIN h = D
        OBVIOUS
      <4>3. k[s] = h[y] + k[t]
        BY <1>2, <2>2, <4>2, SumStep
      <4> QED
        BY <4>1, <4>3
    <3>3. /\ g[t] \in Nat /\ k[t] \in Nat
          /\ x \in t => k[t] + f[x] = g[t] + h[x]
          /\ x \notin t => k[t] = g[t]
      BY <1>3, <2>2
    <3>4. f[x] \in Nat /\ h[x] \in Nat
      OBVIOUS
    <3>5. x \in s <=> x = y \/ x \in t
      BY <3>1
    <3>6. x \in t => x # y
      OBVIOUS
    <3> HIDE DEF P, y, t
    <3>7. g[s] \in Nat /\ k[s] \in Nat
      BY <3>1, <3>2, <3>3
    <3>8. CASE x = y
      BY <3>1, <3>2, <3>3, <3>4, <3>5, <3>6, <3>7, <3>8 DEF P
    <3>9. CASE x # y
      BY <3>1, <3>2, <3>3, <3>4, <3>5, <3>6, <3>7, <3>9 DEF P
    <3> QED
      BY <3>8, <3>9
  <2> QED
    BY <2>1, <2>2
<1>4. D \in P
  <2> HIDE DEF P
  <2>1. SUBSET D \subseteq P
    BY <1>3, SubsetsAll
  <2> QED
    BY <2>1
<1> QED
  BY <1>1, <1>2, <1>4

(* A sum of terms that are no greater is no greater.                       *)
LEMMA SumLess ==
    ASSUME NEW D, IsFiniteSet(D), NEW f \in [D -> Nat], NEW h \in [D -> Nat],
           \A y \in D : h[y] <= f[y]
    PROVE  SumFunction(h) <= SumFunction(f)
<1>1. PICK g : SumTo(f, D, g) /\ SumFunction(f) = g[D]
  BY SumUnfolds
<1>2. PICK k : SumTo(h, D, k) /\ SumFunction(h) = k[D]
  BY SumUnfolds
<1> DEFINE P == {s \in SUBSET D : g[s] \in Nat /\ k[s] \in Nat /\ k[s] <= g[s]}
<1>3. ASSUME NEW s \in SUBSET D, s = {} \/ s \ {Some(s)} \in P PROVE s \in P
  <2>1. CASE s = {}
    BY <1>1, <1>2, <2>1, SumStep
  <2>2. CASE s # {}
    <3> DEFINE y == Some(s)
               t == s \ {y}
    <3>1. y \in s /\ f[y] \in Nat /\ h[y] \in Nat /\ h[y] <= f[y]
      BY <2>2, SomeIs
    <3>2. g[s] = f[y] + g[t] /\ k[s] = h[y] + k[t]
      <4>1. g[s] = f[y] + g[t]
        BY <1>1, <2>2, SumStep
      <4>2. SumTo(h, D, k)
        BY <1>2
      <4>3. k[s] = h[y] + k[t]
        BY <2>2, <4>2, SumStep
      <4> QED
        BY <4>1, <4>3
    <3>3. g[t] \in Nat /\ k[t] \in Nat /\ k[t] <= g[t]
      BY <1>3, <2>2
    <3> HIDE DEF y, t, P
    <3>4. g[s] \in Nat /\ k[s] \in Nat /\ k[s] <= g[s]
      BY <3>1, <3>2, <3>3
    <3> QED
      BY <3>4 DEF P
  <2> QED
    BY <2>1, <2>2
<1>4. D \in P
  <2> HIDE DEF P
  <2>1. SUBSET D \subseteq P
    BY <1>3, SubsetsAll
  <2> QED
    BY <2>1
<1> QED
  BY <1>1, <1>2, <1>4

LEMMA SumBound ==
    ASSUME NEW D, IsFiniteSet(D), NEW f \in [D -> Nat], NEW x \in D
    PROVE  f[x] <= SumFunction(f)
<1> DEFINE g == [f EXCEPT ![x] = 0]
<1>1. g \in [D -> Nat] /\ g[x] = 0 /\ \A y \in D : y # x => g[y] = f[y]
  OBVIOUS
<1> HIDE DEF g
<1>2. SumFunction(g) + f[x] = SumFunction(f) + g[x] /\ SumFunction(g) \in Nat
      /\ SumFunction(f) \in Nat
  BY <1>1, SumChange, SumNat
<1> QED
  BY <1>1, <1>2

-----------------------------------------------------------------------------
Slot == [name : BaseNames, inum : Inums \union {Missing}]
InodeRecord == [in_use : BOOLEAN, type : {"file", "dir", "symlink"}, refcount : Nat,
                num_direntries : Nat, n_bytes : 0 .. SizeModulus - 1]

-----------------------------------------------------------------------------
(* The inductive invariant                                                 *)

(* DirTypeOK, with names for the types.                                    *)
DiskType ==
    /\ inode \in [Inums -> InodeRecord]
    /\ slots \in [Inums -> Seq(Slot)]
    /\ \A i \in Inums : Len(slots[i]) % EntriesPerBlock = 0
RestType ==
    /\ spare \in Nat
    /\ pc \in {"idle", "symlink", "add", "count", "node", "undo", "drop", "uncount"}
    /\ node \in Inums \union {Missing}
    /\ DOMAIN core \subseteq Inums
    /\ popped \in {0, 1}
    /\ removals \in 0 .. MaxRemovals /\ nameless \in 0 .. MaxNameless
    /\ crashes \in 0 .. MaxCrashes

(* A popped block is for a directory without holes.                        *)
NoRoom == popped = 1 => pc = "add" /\ Holes(dir) = {}

(* What is free is empty; only a directory has slots; the root is one.     *)
Homes ==
    /\ \A i \in Inums : ~inode[i].in_use => inode[i] = FreeInode /\ slots[i] = <<>>
    /\ \A i \in Inums : inode[i].type # "dir" => slots[i] = <<>>
    /\ IsDirectory(Root)

Unlinked(i) == \A d \in Inums : \A s \in Linking(d) : slots[d][s].inum # i

(* A link leads to an inode in use, to which no other link leads.          *)
OneLink ==
    \A d, e \in Inums : \A s \in Linking(d), t \in Linking(e) :
        slots[d][s].inum = slots[e][t].inum => d = e /\ s = t
Dotted(i, d) ==
    /\ Len(slots[i]) >= 2
    /\ slots[i][1] = Entry(".", i) /\ slots[i][2] = Entry("..", d)
GoodLinks ==
    \A d \in Inums : \A s \in Linking(d) :
        LET i == slots[d][s].inum
        IN  /\ inode[i].in_use /\ i # Root /\ i # d
            /\ inode[i].type = "dir" => Dotted(i, d)

(* The copies of inodes: the node, and a directory that stays one.         *)
Cores ==
    pc # "idle" =>
        /\ DOMAIN core \subseteq Inums
        /\ \A x \in DOMAIN core : /\ core[x] \in InodeRecord
                                  /\ core[x].in_use /\ inode[x].in_use
        /\ \A x \in DOMAIN core \ {node} : core[x].type = "dir" /\ inode[x].type = "dir"

(* The calls of Dir_addEntry that are left of a script, and how many of    *)
(* their entries.                                                          *)
Script(d, n, i, k) ==
    IF k = 3 THEN <<Call(i, ".", i), Call(i, "..", d), Call(d, n, i)>>
    ELSE IF k = 2 THEN <<Call(i, "..", d), Call(d, n, i)>> ELSE <<Call(d, n, i)>>
Left == IF pc = "count" THEN Len(calls) - 1 ELSE Len(calls)

(* The new directory i in d when k entries are left to write.              *)
DotBlock(i, d, k) ==
    [s \in 1 .. EntriesPerBlock |-> IF s = 1 THEN Entry(".", i)
                                   ELSE IF s = 2 /\ k < 2 THEN Entry("..", d) ELSE Hole]
Begun(i, d, k) == IF k = 3 THEN {<<>>, EmptyBlock} ELSE {DotBlock(i, d, k)}

(* The name: one the kernel did not find, or one of a symbolic link.       *)
Named(d, n) ==
    /\ n \notin Names => d = Root /\ IsSymlink
    /\ n = NoName /\ pc \in {"symlink", "add"} => nameless < MaxNameless

Making(d, n) ==
    /\ Named(d, n)
    /\ node \in Inums \ {Root, d}
    /\ DOMAIN core = {d, node}
    /\ Len(calls) \in 1 .. 3 /\ calls = Script(d, n, node, Len(calls))
    /\ IF core[node].type = "dir"
       THEN /\ slots[node] \in Begun(node, d, Left)
            /\ Len(calls) < 3 => inode[node].type = "dir"
       ELSE /\ Len(calls) = 1 /\ slots[node] = <<>>
            /\ inode[node].type = IF pc = "symlink" THEN "file" ELSE core[node].type
    /\ pc = "symlink" => core[node].type = "symlink"
    /\ pc = "undo" => core[node].type # "symlink"
    /\ Left > 0 => Unlinked(node)

(* The symbolic link that has no inode.                                    *)
NoNode(d, n) ==
    /\ Named(d, n)
    /\ node = Missing /\ d = Root /\ pc \in {"add", "count"}
    /\ DOMAIN core = {d}
    /\ calls = <<Call(d, n, Missing)>>

Made(d) ==
    /\ node \in Inums \ {Root, d}
    /\ DOMAIN core = {d, node}
    /\ inode[node].type = core[node].type /\ core[node].type # "symlink"

Removing(d, n) ==
    /\ node \in Inums \ {Root, d}
    /\ DOMAIN core = {d}
    /\ calls = <<Call(d, n, node)>>
    /\ Unlinked(node)

Phases ==
    /\ pc = "idle" => node = Missing
    /\ pc \in {"symlink", "add", "count", "undo"} =>
           \E d \in Inums, n \in BaseNames : Making(d, n) \/ NoNode(d, n)
    /\ pc = "node" => \E d \in Inums : Made(d)
    /\ pc \in {"drop", "uncount"} => \E d \in Inums, n \in Names : Removing(d, n)

DirInv ==
    DiskType /\ RestType /\ NoRoom /\ Homes /\ OneLink /\ GoodLinks /\ Cores /\ Phases

-----------------------------------------------------------------------------
(* Lemmas                                                                  *)
LEMMA Constants ==
    /\ Root \in Inums /\ Missing \notin Inums /\ Root # Missing
    /\ EntriesPerBlock \in Nat /\ EntriesPerBlock >= 2
    /\ SizeModulus \in Nat /\ SizeModulus > EntriesPerBlock /\ Inums \subseteq Nat
    /\ NoName \notin Names /\ "." \notin Names /\ ".." \notin Names
    /\ NoName # "." /\ NoName # ".."
<1>1. /\ EntriesPerBlock \in Nat /\ EntriesPerBlock >= 2 /\ SpareBlocks \in Nat
      /\ SizeModulus \in Nat /\ NumInodes \in Nat /\ NumInodes >= 1
      /\ SizeModulus > EntriesPerBlock * (SpareBlocks + 1)
  BY DirectoryAssumption
<1>2. EntriesPerBlock * (SpareBlocks + 1) = EntriesPerBlock * SpareBlocks + EntriesPerBlock
      /\ EntriesPerBlock * SpareBlocks \in Nat
  BY <1>1
<1>3. SizeModulus > EntriesPerBlock
  <2> DEFINE x == EntriesPerBlock * SpareBlocks
             y == EntriesPerBlock * (SpareBlocks + 1)
  <2>1. x \in Nat /\ y = x + EntriesPerBlock /\ SizeModulus > y
    BY <1>1, <1>2
  <2> HIDE DEF x, y
  <2> QED
    BY <1>1, <2>1
<1>4. Names \cap {NoName, ".", ".."} = {}
  BY DirectoryAssumption
<1>5. NoName # "." /\ NoName # ".."
  BY Zenon DEF NoName
<1> QED
  BY <1>1, <1>3, <1>4, <1>5 DEF Inums, Root, Missing

LEMMA FirstSlotIs ==
    ASSUME NEW S, S \subseteq Nat, S # {}
    PROVE  FirstSlot(S) \in S /\ \A t \in S : FirstSlot(S) <= t
<1>1. \E m \in S : \A t \in S : m <= t
  BY LeastNat
<1> QED
  BY <1>1 DEF FirstSlot

(* What DiskType says of a directory's slots.                              *)
LEMMA SlotsType ==
    ASSUME DiskType, NEW d \in Inums
    PROVE  /\ slots[d] \in Seq(Slot) /\ Len(slots[d]) \in Nat
           /\ DOMAIN slots[d] = 1 .. Len(slots[d])
           /\ \A s \in 1 .. Len(slots[d]) : slots[d][s] \in Slot
           /\ Linking(d) \subseteq 1 .. Len(slots[d])
<1>1. slots[d] \in Seq(Slot)
  BY DEF DiskType
<1>2. Linking(d) \subseteq DOMAIN slots[d]
  BY DEF Linking
<1> QED
  BY <1>1, <1>2

LEMMA SlotType ==
    ASSUME NEW n \in BaseNames, NEW i \in Inums \union {Missing}
    PROVE  Entry(n, i) \in Slot /\ Entry(n, i).name = n /\ Entry(n, i).inum = i
  BY DEF Entry, Slot

LEMMA HoleType == Hole \in Slot /\ Hole.name = NoName
  BY Constants DEF Hole, Slot, Root

LEMMA FreeInodeType == FreeInode \in InodeRecord /\ ~FreeInode.in_use /\ FreeInode.type = "file"
<1>1. 0 \in 0 .. SizeModulus - 1
  BY Constants
<1> QED
  BY <1>1 DEF FreeInode, InodeRecord

LEMMA EmptyBlockType ==
    /\ EmptyBlock \in Seq(Slot) /\ Len(EmptyBlock) = EntriesPerBlock
    /\ \A s \in 1 .. EntriesPerBlock : EmptyBlock[s] = Hole
  BY HoleType, Constants DEF EmptyBlock

(* A slot is a link if it has a name and an inode.                         *)
LEMMA LinkingIs ==
    ASSUME DiskType, NEW d \in Inums, NEW s \in 1 .. Len(slots[d])
    PROVE  s \in Linking(d) <=> slots[d][s].name \in Names /\ slots[d][s].inum \in Inums
  BY SlotsType DEF Linking, Slot

LEMMA Shrunk ==
    ASSUME \A d \in Inums : \A s \in Linking(d)' : s \in Linking(d) /\ slots'[d][s] = slots[d][s]
    PROVE  /\ OneLink => OneLink'
           /\ \A i : Unlinked(i) => Unlinked(i)'
<1>1. ASSUME NEW i, Unlinked(i) PROVE Unlinked(i)'
  BY <1>1 DEF Unlinked
<1>2. ASSUME OneLink PROVE OneLink'
  BY <1>2 DEF OneLink
<1> QED
  BY <1>1, <1>2

-----------------------------------------------------------------------------
LEMMA InvInit == DirInit => DirInv
<1> SUFFICES ASSUME DirInit PROVE DirInv
  OBVIOUS
<1> DEFINE first == [EmptyBlock EXCEPT ![1] = Entry(".", Root), ![2] = Entry("..", Root)]
           root == [in_use |-> TRUE, type |-> "dir", refcount |-> 2,
                    num_direntries |-> 2, n_bytes |-> EntriesPerBlock]
<1>1. /\ first \in Seq(Slot) /\ Len(first) = EntriesPerBlock
      /\ \A s \in 1 .. EntriesPerBlock : first[s].name \notin Names
  <2>1. \A s \in 1 .. EntriesPerBlock :
            first[s] = IF s = 2 THEN Entry("..", Root) ELSE IF s = 1 THEN Entry(".", Root) ELSE Hole
    BY Constants, EmptyBlockType DEF EmptyBlock
  <2>2. \A s \in 1 .. EntriesPerBlock : first[s] \in Slot /\ first[s].name \notin Names
    <3>1. /\ Entry(".", Root) \in Slot /\ Entry(".", Root).name = "."
          /\ Entry("..", Root) \in Slot /\ Entry("..", Root).name = ".."
      BY Constants, SlotType
    <3> HIDE DEF first
    <3> QED
      BY <2>1, <3>1, Constants, HoleType
  <2>3. first = [s \in 1 .. EntriesPerBlock |-> first[s]]
    BY DEF EmptyBlock
  <2> HIDE DEF first
  <2> QED
    BY <2>2, <2>3, Constants
<1>2. root \in InodeRecord
  <2>1. EntriesPerBlock \in 0 .. SizeModulus - 1
    BY Constants
  <2> QED
    BY <2>1 DEF InodeRecord
<1>3. /\ inode = [i \in Inums |-> IF i = Root THEN root ELSE FreeInode]
      /\ slots = [i \in Inums |-> IF i = Root THEN first ELSE <<>>]
  BY DEF DirInit
<1>4. root.in_use /\ root.type = "dir"
  OBVIOUS
<1> HIDE DEF first, root
<1>5. DiskType
  <2>1. 0 % EntriesPerBlock = 0 /\ EntriesPerBlock % EntriesPerBlock = 0
    BY Constants
  <2> QED
    BY <1>1, <1>2, <1>3, <2>1, FreeInodeType DEF DiskType
<1>6. RestType /\ NoRoom
  BY DirectoryAssumption, Constants DEF DirInit, RestType, NoRoom
<1>7. \A i \in Inums : Linking(i) = {}
  <2>1. \A i \in Inums : \A s \in 1 .. Len(slots[i]) : slots[i][s].name \notin Names
    BY <1>1, <1>3
  <2> QED
    BY <2>1, <1>5, SlotsType, LinkingIs
<1>8. Homes
  BY <1>3, <1>4, Constants, FreeInodeType DEF Homes, IsDirectory
<1>9. OneLink /\ GoodLinks
  BY <1>7 DEF OneLink, GoodLinks
<1> QED
  BY <1>5, <1>6, <1>8, <1>9 DEF DirInv, DirInit, Cores, Phases

LEMMA InvStutter ==
    ASSUME DirInv, UNCHANGED dirVars
    PROVE  DirInv'
<1>1. DiskType' /\ RestType' /\ NoRoom'
  BY DEF DirInv, DiskType, RestType, NoRoom, Holes, dir, call, dirVars
<1>2. Homes' /\ OneLink' /\ GoodLinks'
  BY DEF DirInv, dirVars, Homes, IsDirectory, OneLink, GoodLinks, Linking, Dotted
<1>3. Cores'
  BY DEF DirInv, dirVars, Cores
<1>4. \A d, n : (Making(d, n) => Making(d, n)') /\ (NoNode(d, n) => NoNode(d, n)')
                /\ (Removing(d, n) => Removing(d, n)') /\ (Made(d) => Made(d)')
  BY DEF dirVars, Named, IsSymlink, Making, NoNode, Removing, Made, Left, Unlinked, Linking
<1>5. Phases'
  BY <1>4 DEF DirInv, dirVars, Phases
<1> QED
  BY <1>1, <1>2, <1>3, <1>5 DEF DirInv

(* Steps that change neither an inode nor a slot.                          *)
LEMMA InvDisk ==
    ASSUME DirInv, UNCHANGED <<inode, slots>>
    PROVE  DiskType' /\ Homes' /\ OneLink' /\ GoodLinks' /\ \A i : Unlinked(i) <=> Unlinked(i)'
  BY DEF DirInv, DiskType, Homes, IsDirectory, OneLink, GoodLinks, Linking, Dotted, Unlinked

(* The end of an operation.                                                *)
LEMMA InvReturn ==
    ASSUME DiskType', Homes', OneLink', GoodLinks', Return, spare' \in Nat,
           removals' \in 0 .. MaxRemovals, nameless' \in 0 .. MaxNameless,
           crashes' \in 0 .. MaxCrashes
    PROVE  DirInv'
<1>1. RestType' /\ NoRoom'
  BY DEF RestType, NoRoom, Return
<1>2. Cores' /\ Phases'
  BY DEF Return, Cores, Phases
<1> QED
  BY <1>1, <1>2 DEF DirInv

LEMMA InvCrash == ASSUME DirInv, Crash PROVE DirInv'
<1>1. /\ crashes' \in 0 .. MaxCrashes /\ spare' \in Nat /\ removals' \in 0 .. MaxRemovals
      /\ nameless' \in 0 .. MaxNameless
  BY DirectoryAssumption DEF Crash, DirInv, RestType
<1> QED
  BY <1>1, InvReturn, InvDisk DEF Crash

(* Steps that write an inode, and may add a block of holes to it.          *)
Grown(x) ==
    /\ slots' \in [Inums -> Seq(Slot)]
    /\ \A y \in Inums : y # x => slots'[y] = slots[y]
    /\ Len(slots'[x]) >= Len(slots[x]) /\ Len(slots'[x]) % EntriesPerBlock = 0
    /\ \A s \in 1 .. Len(slots[x]) : slots'[x][s] = slots[x][s]
    /\ \A s \in 1 .. Len(slots'[x]) : s > Len(slots[x]) => slots'[x][s].name \notin Names

LEMMA NotGrown == ASSUME DiskType, UNCHANGED slots, NEW x \in Inums PROVE Grown(x)
  BY SlotsType DEF Grown, DiskType

LEMMA InvWritten ==
    ASSUME DirInv, NEW x \in Inums, Grown(x), NEW r \in InodeRecord, r.in_use,
           r.type # "dir" => inode[x].type # "dir" /\ slots'[x] = <<>> /\ x # Root,
           r.type = "dir" /\ inode[x].type # "dir" => Unlinked(x),
           inode' = [inode EXCEPT ![x] = r]
    PROVE  DiskType' /\ Homes' /\ OneLink' /\ GoodLinks' /\ \A i : Unlinked(i) => Unlinked(i)'
<1>1. \A i \in Inums : inode'[i] = IF i = x THEN r ELSE inode[i]
  BY DEF DirInv, DiskType
<1>2. DiskType'
  <2>1. inode' \in [Inums -> InodeRecord]
    BY DEF DirInv, DiskType
  <2>2. ASSUME NEW i \in Inums PROVE Len(slots'[i]) % EntriesPerBlock = 0
    <3>1. CASE i = x
      BY <3>1 DEF Grown
    <3>2. CASE i # x
      <4>1. slots'[i] = slots[i]
        BY <3>2 DEF Grown
      <4> QED
        BY <4>1 DEF DirInv, DiskType
    <3> QED
      BY <3>1, <3>2
  <2> QED
    BY <2>1, <2>2 DEF DiskType, Grown
<1>3. Homes'
  <2>1. Homes /\ IsDirectory(Root)
    BY DEF DirInv, Homes
  <2>2. \A y \in Inums : y # x => slots'[y] = slots[y]
    BY DEF Grown
  <2> QED
    BY <1>1, <2>1, <2>2 DEF Homes, IsDirectory
<1>4. \A d \in Inums : /\ \A s \in 1 .. Len(slots[d]) : slots'[d][s] = slots[d][s]
                       /\ Len(slots'[d]) \in Nat /\ Len(slots'[d]) >= Len(slots[d])
                       /\ Len(slots[d]) \in Nat
  <2> SUFFICES ASSUME NEW d \in Inums
               PROVE  /\ \A s \in 1 .. Len(slots[d]) : slots'[d][s] = slots[d][s]
                      /\ Len(slots'[d]) \in Nat /\ Len(slots'[d]) >= Len(slots[d])
                      /\ Len(slots[d]) \in Nat
    OBVIOUS
  <2>1. Len(slots[d]) \in Nat
    BY SlotsType DEF DirInv
  <2>2. slots'[d] \in Seq(Slot) /\ Len(slots'[d]) \in Nat
    BY <1>2 DEF DiskType
  <2> QED
    BY <2>1, <2>2 DEF Grown
<1>5. ASSUME NEW d \in Inums, NEW s \in Linking(d)'
      PROVE  s \in Linking(d) /\ slots'[d][s] = slots[d][s]
  <2>1. s \in 1 .. Len(slots'[d]) /\ slots'[d][s].name \in Names /\ slots'[d][s].inum \in Inums
    <3>1. slots'[d] \in Seq(Slot)
      BY <1>2 DEF DiskType
    <3> QED
      BY <3>1 DEF Linking
  <2>2. s \in 1 .. Len(slots[d])
    BY <1>4, <2>1 DEF Grown
  <2> QED
    BY <1>4, <2>1, <2>2, LinkingIs DEF DirInv
<1>6. OneLink' /\ \A i : Unlinked(i) => Unlinked(i)'
  BY <1>5, Shrunk DEF DirInv
<1>7. GoodLinks'
  <2> SUFFICES ASSUME NEW d \in Inums, NEW s \in Linking(d)', NEW i, i = slots'[d][s].inum
               PROVE  /\ inode'[i].in_use /\ i # Root /\ i # d
                      /\ inode'[i].type = "dir" => Dotted(i, d)'
    BY DEF GoodLinks
  <2>1. s \in Linking(d) /\ i = slots[d][s].inum
    BY <1>5
  <2>2. /\ inode[i].in_use /\ i # Root /\ i # d /\ i \in Inums
        /\ inode[i].type = "dir" => Dotted(i, d)
    BY <2>1 DEF DirInv, GoodLinks, Linking
  <2>3. i = x => ~Unlinked(x)
    BY <2>1 DEF Unlinked
  <2>4. ASSUME Dotted(i, d) PROVE Dotted(i, d)'
    <3>1. 1 \in 1 .. Len(slots[i]) /\ 2 \in 1 .. Len(slots[i])
      BY <1>4, <2>2, <2>4 DEF Dotted
    <3>2. slots'[i][1] = slots[i][1] /\ slots'[i][2] = slots[i][2] /\ Len(slots'[i]) >= 2
      BY <1>4, <2>2, <2>4, <3>1 DEF Dotted
    <3> QED
      BY <2>4, <3>2 DEF Dotted
  <2> QED
    BY <1>1, <2>2, <2>3, <2>4
<1> QED
  BY <1>2, <1>3, <1>6, <1>7

(* Steps that free an inode to which nothing leads.                        *)
LEMMA InvFreed ==
    ASSUME DirInv, NEW x \in Inums, x # Root, Unlinked(x),
           inode' = [inode EXCEPT ![x] = FreeInode], slots' = [slots EXCEPT ![x] = <<>>]
    PROVE  DiskType' /\ Homes' /\ OneLink' /\ GoodLinks' /\ \A i : Unlinked(i) => Unlinked(i)'
<1>1. \A i \in Inums : /\ inode'[i] = IF i = x THEN FreeInode ELSE inode[i]
                       /\ slots'[i] = IF i = x THEN <<>> ELSE slots[i]
  BY DEF DirInv, DiskType
<1>2. DiskType'
  <2>1. 0 % EntriesPerBlock = 0
    BY Constants
  <2> QED
    BY <1>1, <2>1, FreeInodeType DEF DirInv, DiskType
<1>3. Homes'
  BY <1>1, Constants, FreeInodeType DEF DirInv, Homes, IsDirectory
<1>4. ASSUME NEW d \in Inums, NEW s \in Linking(d)'
      PROVE  s \in Linking(d) /\ slots'[d][s] = slots[d][s]
  BY <1>1 DEF Linking
<1>5. OneLink' /\ \A i : Unlinked(i) => Unlinked(i)'
  BY <1>4, Shrunk DEF DirInv
<1>6. GoodLinks'
  <2> SUFFICES ASSUME NEW d \in Inums, NEW s \in Linking(d)', NEW i, i = slots'[d][s].inum
               PROVE  /\ inode'[i].in_use /\ i # Root /\ i # d
                      /\ inode'[i].type = "dir" => Dotted(i, d)'
    BY DEF GoodLinks
  <2>1. s \in Linking(d) /\ i = slots[d][s].inum
    BY <1>4
  <2>2. /\ inode[i].in_use /\ i # Root /\ i # d /\ i \in Inums
        /\ inode[i].type = "dir" => Dotted(i, d)
    BY <2>1 DEF DirInv, GoodLinks, Linking
  <2>3. i # x
    BY <2>1 DEF Unlinked
  <2>4. Dotted(i, d) => Dotted(i, d)'
    BY <1>1, <2>2, <2>3 DEF Dotted
  <2> QED
    BY <1>1, <2>2, <2>3, <2>4
<1> QED
  BY <1>2, <1>3, <1>5, <1>6

-----------------------------------------------------------------------------
(* create_node                                                             *)
LEMMA NewNodeType ==
    ASSUME NEW kind \in {"file", "dir", "symlink"}
    PROVE  NewNode(kind) \in InodeRecord /\ NewNode(kind).in_use /\ NewNode(kind).type = kind
<1>1. 0 \in 0 .. SizeModulus - 1
  BY Constants
<1> QED
  BY <1>1 DEF NewNode, FreeInode, InodeRecord

LEMMA InvAllocate ==
    ASSUME DirInv, NEW kind \in {"file", "dir", "symlink"}, NEW d \in Inums, IsDirectory(d),
           NEW n \in BaseNames, NEW i \in Inums, Allocate(kind, d, n, i)
    PROVE  DirInv'
<1> DEFINE r == [inode[i] EXCEPT !.in_use = TRUE]
<1>1. ~inode[i].in_use /\ inode[i] = FreeInode /\ slots[i] = <<>> /\ i # Root /\ i # d
      /\ inode[d].in_use /\ inode[d].type = "dir" /\ inode[i] \in InodeRecord
      /\ inode[d] \in InodeRecord
  BY DEF Allocate, DirInv, DiskType, Homes, IsDirectory
<1>2. r \in InodeRecord /\ r.in_use /\ r.type = "file"
  BY <1>1, FreeInodeType DEF InodeRecord
<1>3. inode' = [inode EXCEPT ![i] = r] /\ slots' = slots
  BY DEF Allocate, DirInv, DiskType
<1>4. Unlinked(i)
  BY <1>1 DEF DirInv, GoodLinks, Unlinked
<1>5. \A x \in Inums : inode'[x] = IF x = i THEN r ELSE inode[x]
  BY <1>3 DEF DirInv, DiskType
<1> HIDE DEF r
<1>6. DiskType' /\ Homes' /\ OneLink' /\ GoodLinks' /\ Unlinked(i)'
  <2>1. DiskType /\ Grown(i)
    BY <1>3, NotGrown DEF DirInv
  <2>2. inode[i].type = "file" /\ slots'[i] = <<>>
    BY <1>1, <1>3, FreeInodeType
  <2> QED
    BY <1>1, <1>2, <1>3, <1>4, <2>1, <2>2, InvWritten
<1>7. /\ node' = i /\ DOMAIN core' = {d, i} /\ core'[i] = NewNode(kind) /\ core'[d] = inode[d]
      /\ NewNode(kind) \in InodeRecord /\ NewNode(kind).in_use /\ NewNode(kind).type = kind
  BY <1>1, NewNodeType DEF Allocate
<1>8. RestType' /\ NoRoom' /\ Cores'
  BY <1>1, <1>2, <1>5, <1>7 DEF Allocate, Idle, DirInv, RestType, NoRoom, Cores
<1>9. Making(d, n)'
  <2>0. Named(d, n)'
    BY <1>7, Constants DEF Allocate, Asked, Named, IsSymlink
  <2>1. Len(calls') \in 1 .. 3 /\ calls' = Script(d, n, i, Len(calls'))
        /\ Len(calls') = IF kind = "dir" THEN 3 ELSE 1
    BY DEF Allocate, CallsFor, Script
  <2>2. pc' \in {"symlink", "add"} /\ (pc' = "symlink" <=> kind = "symlink") /\ Left' = Len(calls')
    BY DEF Allocate, Left
  <2>3. inode'[i].type = "file" /\ slots'[i] = <<>>
    BY <1>1, <1>2, <1>3, <1>5
  <2> QED
    BY <1>1, <1>6, <1>7, <2>0, <2>1, <2>2, <2>3 DEF Making, Begun
<1>10. Phases'
  BY <1>9 DEF Phases, Allocate
<1> QED
  BY <1>6, <1>8, <1>10 DEF DirInv

LEMMA InvSymlinkWithoutInode ==
    ASSUME DirInv, NEW n \in BaseNames, SymlinkWithoutInode(n)
    PROVE  DirInv'
<1>1. DiskType' /\ Homes' /\ OneLink' /\ GoodLinks'
  BY InvDisk DEF SymlinkWithoutInode
<1>2. /\ node = Missing /\ node' = Missing /\ pc' = "add" /\ DOMAIN core' = {Root}
      /\ core'[Root] = inode[Root] /\ calls' = <<Call(Root, n, Missing)>>
  BY DEF SymlinkWithoutInode, DirInv, Phases, Idle, CallsFor
<1>3. inode[Root] \in InodeRecord /\ inode[Root].in_use /\ inode[Root].type = "dir"
      /\ inode' = inode /\ Root \in Inums
  BY Constants DEF SymlinkWithoutInode, DirInv, DiskType, Homes, IsDirectory
<1>4. RestType' /\ NoRoom' /\ Cores'
  BY <1>2, <1>3 DEF SymlinkWithoutInode, Idle, DirInv, RestType, NoRoom, Cores
<1>5. NoNode(Root, n)'
  <2>1. Named(Root, n)'
    BY <1>2 DEF SymlinkWithoutInode, Asked, Named, IsSymlink
  <2> QED
    BY <1>2, <2>1 DEF NoNode
<1>6. Phases'
  BY <1>2, <1>3, <1>5 DEF Phases
<1> QED
  BY <1>1, <1>4, <1>6 DEF DirInv

LEMMA InvWriteSymlink == ASSUME DirInv, WriteSymlink PROVE DirInv'
<1>1. PICK d \in Inums, n \in BaseNames : Making(d, n)
  BY DEF WriteSymlink, DirInv, Phases, NoNode
<1>2. /\ node \in Inums /\ node # Root /\ node # d /\ DOMAIN core = {d, node}
      /\ core[node].type = "symlink" /\ core[node] \in InodeRecord /\ core[node].in_use
      /\ slots[node] = <<>> /\ inode[node].type = "file" /\ Unlinked(node)
  <2>1. pc = "symlink" /\ Left = Len(calls) /\ Cores
    BY DEF WriteSymlink, DirInv, Left
  <2>2. node \in Inums /\ node # Root /\ node # d /\ DOMAIN core = {d, node}
        /\ core[node].type = "symlink"
    BY <1>1, <2>1 DEF Making
  <2>3. slots[node] = <<>> /\ inode[node].type = "file" /\ Len(calls) = 1
    BY <1>1, <2>1, <2>2 DEF Making
  <2>4. Unlinked(node)
    BY <1>1, <2>1, <2>3 DEF Making
  <2>5. core[node] \in InodeRecord /\ core[node].in_use
    BY <2>1, <2>2 DEF Cores
  <2> QED
    BY <2>2, <2>3, <2>4, <2>5
<1>3. inode' = [inode EXCEPT ![node] = core[node]] /\ slots' = slots /\ pc' = "add"
      /\ node' = node /\ core' = core /\ calls' = calls
  BY DEF WriteSymlink
<1>4. DiskType' /\ Homes' /\ OneLink' /\ GoodLinks' /\ Unlinked(node)'
  BY <1>2, <1>3, NotGrown, InvWritten DEF DirInv
<1>5. \A i \in Inums : inode'[i] = IF i = node THEN core[node] ELSE inode[i]
  BY <1>3 DEF DirInv, DiskType
<1>6. RestType' /\ NoRoom' /\ Cores'
  BY <1>2, <1>3, <1>5 DEF WriteSymlink, DirInv, RestType, NoRoom, Cores
<1>7. Making(d, n)'
  <2>1. Named(d, n)'
    BY <1>1, <1>3 DEF WriteSymlink, Making, Named, IsSymlink
  <2> QED
    BY <1>1, <1>2, <1>3, <1>4, <1>5, <2>1 DEF WriteSymlink, Making, Left
<1> QED
  BY <1>3, <1>4, <1>6, <1>7 DEF DirInv, Phases

-----------------------------------------------------------------------------
(* Dir_addEntry                                                            *)

(* The call that is running, and those behind it.                          *)
LEMMA CallOf ==
    ASSUME NEW d, NEW n, Making(d, n)
    PROVE  /\ Len(calls) = 3 => /\ call = Call(node, ".", node) /\ dir = node
                                /\ Tail(calls) = Script(d, n, node, 2) /\ Len(Tail(calls)) = 2
           /\ Len(calls) = 2 => /\ call = Call(node, "..", d) /\ dir = node
                                /\ Tail(calls) = Script(d, n, node, 1) /\ Len(Tail(calls)) = 1
           /\ Len(calls) = 1 => /\ call = Call(d, n, node) /\ dir = d
                                /\ Tail(calls) = <<>>
           /\ Len(calls) \in 1 .. 3 /\ calls # <<>>
<1>1. Len(calls) \in 1 .. 3 /\ calls = Script(d, n, node, Len(calls))
  BY DEF Making
<1>2. CASE Len(calls) = 3
  <2>1. calls = <<Call(node, ".", node), Call(node, "..", d), Call(d, n, node)>>
    BY <1>1, <1>2 DEF Script
  <2>2. call = Call(node, ".", node)
    BY <2>1 DEF call
  <2>3. Tail(calls) = <<Call(node, "..", d), Call(d, n, node)>>
    BY <2>1
  <2> QED
    BY <1>2, <2>1, <2>2, <2>3 DEF dir, Call, Script
<1>3. CASE Len(calls) = 2
  <2>1. calls = <<Call(node, "..", d), Call(d, n, node)>>
    BY <1>1, <1>3 DEF Script
  <2>2. call = Call(node, "..", d)
    BY <2>1 DEF call
  <2>3. Tail(calls) = <<Call(d, n, node)>>
    BY <2>1
  <2> QED
    BY <1>3, <2>1, <2>2, <2>3 DEF dir, Call, Script
<1>4. CASE Len(calls) = 1
  <2>1. calls = <<Call(d, n, node)>>
    BY <1>1, <1>4 DEF Script
  <2>2. call = Call(d, n, node)
    BY <2>1 DEF call
  <2> QED
    BY <1>4, <2>1, <2>2 DEF dir, Call
<1> QED
  BY <1>1, <1>2, <1>3, <1>4

LEMMA AppendedBlock ==
    ASSUME NEW old \in Seq(Slot)
    PROVE  /\ old \o EmptyBlock \in Seq(Slot)
           /\ Len(old \o EmptyBlock) = Len(old) + EntriesPerBlock
           /\ \A s \in 1 .. Len(old) : (old \o EmptyBlock)[s] = old[s]
           /\ \A s \in 1 .. Len(old) + EntriesPerBlock : s > Len(old) => (old \o EmptyBlock)[s] = Hole
<1>1. EmptyBlock \in Seq(Slot) /\ Len(EmptyBlock) = EntriesPerBlock /\ EntriesPerBlock \in Nat
      /\ \A s \in 1 .. EntriesPerBlock : EmptyBlock[s] = Hole
  BY EmptyBlockType, Constants
<1> QED
  BY <1>1

LEMMA Division ==
    ASSUME NEW a \in Nat, NEW k \in Nat, k > 0
    PROVE  /\ a \div k \in Nat /\ a % k \in 0 .. k - 1
           /\ a = (a \div k) * k + (a % k)
  OBVIOUS

LEMMA DivisionUnique ==
    ASSUME NEW q \in Nat, NEW r \in Nat, NEW k \in Nat, r < k
    PROVE  (q * k + r) \div k = q /\ (q * k + r) % k = r
  OBVIOUS

LEMMA Multiple ==
    ASSUME NEW p \in Nat, NEW b \in Nat, b > 0
    PROVE  (p * b) \div b = p /\ (p * b) % b = 0
  OBVIOUS

LEMMA Modulus ==
    ASSUME NEW a \in Nat, NEW b \in Nat, b > 0, a % b = 0
    PROVE  (a + b) % b = 0 /\ (a + b) \div b = a \div b + 1
<1> DEFINE q == a \div b
<1>1. q \in Nat /\ a = q * b + 0
  BY Division
<1> DEFINE p == q + 1
<1>2. a + b = p * b /\ p \in Nat
  BY <1>1
<1> HIDE DEF p
<1>3. (p * b) \div b = p /\ (p * b) % b = 0
  BY <1>2, Multiple
<1> QED
  BY <1>2, <1>3 DEF p

(* The directory that gets the entry is one, or the new one.               *)
LEMMA Adding ==
    ASSUME DirInv, pc \in {"add", "count"}
    PROVE  /\ dir \in DOMAIN core /\ dir \in Inums
           /\ core[dir] \in InodeRecord /\ core[dir].in_use /\ core[dir].type = "dir"
           /\ inode[dir].in_use
           /\ dir # node => inode[dir].type = "dir" /\ dir # Missing
           /\ call.inum \in Inums \union {Missing}
           /\ call.name \in BaseNames
           /\ calls # <<>>
           /\ call.name \notin Names => dir = node \/ IsSymlink
           /\ call.name = NoName => /\ dir = Root /\ IsSymlink
                                    /\ pc = "add" => nameless < MaxNameless
<1>1. PICK d \in Inums, n \in BaseNames : Making(d, n) \/ NoNode(d, n)
  BY DEF DirInv, Phases
<1>2. CASE NoNode(d, n)
  <2>1. call = Call(d, n, Missing) /\ dir = d /\ calls # <<>>
    BY <1>2 DEF NoNode, call, dir, Call
  <2>2. d # node
    BY <1>2, Constants DEF NoNode
  <2>3. call.name = n
    BY <2>1 DEF Call
  <2> QED
    BY <1>2, <2>1, <2>2, <2>3, Constants DEF NoNode, Named, IsSymlink, DirInv, Cores, Call
<1>3. CASE Making(d, n)
  <2>1. /\ (core[node].type = "dir" \/ Len(calls) = 1) /\ node \in Inums /\ node # d
        /\ DOMAIN core = {d, node}
    BY <1>3 DEF Making
  <2>2. /\ call = IF Len(calls) = 3 THEN Call(node, ".", node)
                  ELSE IF Len(calls) = 2 THEN Call(node, "..", d) ELSE Call(d, n, node)
        /\ calls # <<>> /\ dir = IF Len(calls) = 1 THEN d ELSE node
    BY <1>3, CallOf
  <2>3. call.name = NoName => call.name = n /\ dir = d
    <3>0. Call(node, ".", node).name = "." /\ Call(node, "..", d).name = ".."
      BY DEF Call
    <3>1. Call(node, ".", node).name # NoName /\ Call(node, "..", d).name # NoName
      BY <3>0, Constants
    <3>2. Len(calls) # 1 => call.name # NoName
      BY <1>3, <2>2, <3>1 DEF Making
    <3>3. Len(calls) = 1 => call = Call(d, n, node) /\ dir = d
      BY <2>2
    <3>4. Len(calls) = 1 => call.name = n
      BY <3>3 DEF Call
    <3> QED
      BY <3>2, <3>3, <3>4
  <2>4. dir = node \/ (call.name = n /\ dir = d)
    BY <2>2 DEF Call
  <2> QED
    BY <1>3, <2>1, <2>2, <2>3, <2>4, Constants DEF Making, Named, DirInv, Cores, Call
<1> QED
  BY <1>1, <1>2, <1>3

LEMMA InvAddFails == ASSUME DirInv, AddFails PROVE DirInv'
<1>1. DiskType' /\ Homes' /\ OneLink' /\ GoodLinks' /\ \A i : Unlinked(i) => Unlinked(i)'
  BY InvDisk DEF AddFails
<1>2. CASE IsSymlink
  BY <1>1, <1>2, InvReturn DEF AddFails, DirInv, RestType
<1>3. CASE ~IsSymlink
  <2>1. PICK d \in Inums, n \in BaseNames : Making(d, n)
    BY <1>3 DEF AddFails, DirInv, Phases, NoNode, IsSymlink
  <2>2. Making(d, n)'
    <3>1. Named(d, n)'
      BY <1>3, <2>1 DEF AddFails, Making, Named, IsSymlink
    <3> QED
      BY <1>1, <1>3, <2>1, <3>1 DEF AddFails, Making, IsSymlink, Left
  <2>3. RestType' /\ NoRoom' /\ Cores'
    BY <1>3 DEF AddFails, DirInv, RestType, NoRoom, Cores
  <2> QED
    BY <1>1, <1>3, <2>2, <2>3 DEF AddFails, DirInv, Phases
<1> QED
  BY <1>2, <1>3

LEMMA InvPop == ASSUME DirInv, Pop PROVE DirInv'
<1>1. DiskType' /\ Homes' /\ OneLink' /\ GoodLinks' /\ \A i : Unlinked(i) => Unlinked(i)'
  BY InvDisk DEF Pop
<1>2. PICK d \in Inums, n \in BaseNames : Making(d, n) \/ NoNode(d, n)
  BY DEF Pop, DirInv, Phases
<1>3. (Making(d, n) => Making(d, n)') /\ (NoNode(d, n) => NoNode(d, n)')
  BY DEF Pop, Named, IsSymlink, Making, NoNode, Left, Unlinked, Linking
<1>4. RestType' /\ NoRoom' /\ Cores'
  BY DEF Pop, DirInv, RestType, NoRoom, Holes, dir, call, Cores
<1>5. Phases'
  BY <1>2, <1>3 DEF Pop, Phases
<1> QED
  BY <1>1, <1>4, <1>5 DEF DirInv

(* A block of holes, and the inode of the directory before it.             *)
LEMMA InvGrow == ASSUME DirInv, Grow PROVE DirInv'
<1>1. /\ dir \in DOMAIN core /\ dir \in Inums
      /\ core[dir] \in InodeRecord /\ core[dir].in_use /\ core[dir].type = "dir"
      /\ inode[dir].in_use
      /\ dir # node => inode[dir].type = "dir"
  BY Adding DEF Grow
<1>2. /\ inode' = [inode EXCEPT ![dir] = core[dir]]
      /\ slots' = [slots EXCEPT ![dir] = slots[dir] \o EmptyBlock]
      /\ pc = "add" /\ pc' = "add" /\ node' = node /\ calls' = calls
  BY DEF Grow
<1>3. /\ slots[dir] \o EmptyBlock \in Seq(Slot)
      /\ Len(slots[dir] \o EmptyBlock) = Len(slots[dir]) + EntriesPerBlock
      /\ \A s \in 1 .. Len(slots[dir]) : (slots[dir] \o EmptyBlock)[s] = slots[dir][s]
      /\ \A s \in 1 .. Len(slots[dir]) + EntriesPerBlock :
             s > Len(slots[dir]) => (slots[dir] \o EmptyBlock)[s] = Hole
  BY <1>1, AppendedBlock, SlotsType DEF DirInv
<1>4. \A y \in Inums : slots'[y] = IF y = dir THEN slots[dir] \o EmptyBlock ELSE slots[y]
  BY <1>2 DEF DirInv, DiskType
<1>5. Grown(dir)
  <2>1. slots' \in [Inums -> Seq(Slot)]
    BY <1>2, <1>3 DEF DirInv, DiskType
  <2>2. /\ Len(slots[dir]) \in Nat /\ Len(slots[dir]) % EntriesPerBlock = 0
        /\ EntriesPerBlock \in Nat /\ EntriesPerBlock > 0
    BY <1>1, SlotsType, Constants DEF DirInv, DiskType
  <2>3. (Len(slots[dir]) + EntriesPerBlock) % EntriesPerBlock = 0
    BY <2>2, Modulus
  <2>4. ASSUME NEW s \in 1 .. Len(slots'[dir]), s > Len(slots[dir])
        PROVE  slots'[dir][s].name \notin Names
    <3>2. slots'[dir][s] = Hole
      BY <1>1, <1>3, <1>4, <2>4
    <3> QED
      BY <3>2, HoleType, Constants
  <2>5. /\ Len(slots'[dir]) = Len(slots[dir]) + EntriesPerBlock
        /\ \A s \in 1 .. Len(slots[dir]) : slots'[dir][s] = slots[dir][s]
        /\ \A y \in Inums : y # dir => slots'[y] = slots[y]
    BY <1>1, <1>3, <1>4
  <2>6. Len(slots'[dir]) >= Len(slots[dir]) /\ Len(slots'[dir]) % EntriesPerBlock = 0
    <3>1. Len(slots'[dir]) >= Len(slots[dir])
      BY <2>2, <2>5
    <3> QED
      BY <2>3, <2>5, <3>1
  <2> QED
    BY <2>1, <2>4, <2>5, <2>6 DEF Grown
<1>6. PICK d \in Inums, n \in BaseNames : Making(d, n) \/ NoNode(d, n)
  BY <1>2 DEF DirInv, Phases
<1>7. core[dir].type = "dir" /\ inode[dir].type # "dir" => Unlinked(dir)
  <2>1. CASE dir # node
    BY <1>1, <2>1
  <2>2. CASE dir = node
    <3>1. Making(d, n)
      <4>1. node # Missing
        BY <1>1, <2>2, Constants
      <4> QED
        BY <1>6, <4>1 DEF NoNode
    <3>2. Left > 0
      <4>1. Len(calls) \in 1 .. 3
        BY <3>1 DEF Making
      <4> QED
        BY <1>2, <4>1 DEF Left
    <3> QED
      BY <2>2, <3>1, <3>2 DEF Making
  <2> QED
    BY <2>1, <2>2
<1>8. DiskType' /\ Homes' /\ OneLink' /\ GoodLinks' /\ \A i : Unlinked(i) => Unlinked(i)'
  BY <1>1, <1>2, <1>5, <1>7, InvWritten
<1>9. \A i \in Inums : inode'[i] = IF i = dir THEN core[dir] ELSE inode[i]
  BY <1>2 DEF DirInv, DiskType
<1>10. /\ DOMAIN core' = DOMAIN core
       /\ \A x \in DOMAIN core : /\ x # dir => core'[x] = core[x]
                                 /\ core'[x].type = core[x].type /\ core'[x].in_use = core[x].in_use
                                 /\ core'[x] \in InodeRecord
  <2>1. \A x \in DOMAIN core : core[x] \in InodeRecord
    BY <1>2 DEF DirInv, Cores
  <2>2. (core[dir].n_bytes + EntriesPerBlock) % SizeModulus \in 0 .. SizeModulus - 1
    BY <1>1, Constants DEF InodeRecord
  <2> QED
    BY <1>1, <2>1, <2>2 DEF Grow, InodeRecord
<1>11. RestType' /\ NoRoom' /\ Cores'
  <2>1. RestType' /\ NoRoom'
    BY <1>2, <1>10 DEF Grow, DirInv, RestType, NoRoom
  <2> QED
    BY <1>1, <1>2, <1>9, <1>10, <2>1 DEF DirInv, Cores
<1>12. Phases'
  <2>0. Making(d, n) \/ NoNode(d, n) => Named(d, n)'
    <3>1. node \in DOMAIN core \/ node = Missing
      BY <1>6 DEF Making, NoNode
    <3> QED
      BY <1>2, <1>10, <3>1 DEF Grow, Making, NoNode, Named, IsSymlink
  <2>1. CASE NoNode(d, n)
    BY <1>2, <1>10, <2>0, <2>1 DEF NoNode, Phases
  <2>2. CASE Making(d, n)
    <3>1. core[node].type = "dir" => slots'[node] \in Begun(node, d, Left)
      <4> SUFFICES ASSUME core[node].type = "dir" PROVE slots'[node] \in Begun(node, d, Left)
        OBVIOUS
      <4>1. CASE dir # node
        BY <1>4, <2>2, <4>1 DEF Making
      <4>2. CASE dir = node
        <5>1. slots[node] \in Begun(node, d, Len(calls)) /\ Left = Len(calls)
              /\ Len(calls) \in 1 .. 3 /\ calls = Script(d, n, node, Len(calls)) /\ node # d
          BY <1>2, <2>2 DEF Making, Left
        <5>2. Len(calls) # 1 /\ Holes(node) = {}
          BY <2>2, <4>2, <5>1, CallOf DEF Grow, DirInv, NoRoom
        <5>3. Len(calls) # 2
          <6> SUFFICES ASSUME Len(calls) = 2 PROVE FALSE
            OBVIOUS
          <6>1. slots[node] = DotBlock(node, d, 2)
            BY <5>1 DEF Begun
          <6>2. 2 \in Holes(node)
            BY <6>1, Constants, HoleType DEF Holes, DotBlock
          <6> QED
            BY <5>2, <6>2
        <5>4. slots[node] # EmptyBlock
          <6>1. slots[node] = EmptyBlock => 1 \in Holes(node)
            BY Constants, HoleType DEF Holes, EmptyBlock
          <6> QED
            BY <5>2, <6>1
        <5>5. Len(calls) = 3 /\ slots[node] = <<>>
          BY <5>1, <5>2, <5>3, <5>4 DEF Begun
        <5>6. slots'[node] = EmptyBlock
          BY <1>1, <1>4, <4>2, <5>5, EmptyBlockType
        <5> QED
          BY <5>1, <5>5, <5>6 DEF Begun
      <4> QED
        BY <4>1, <4>2
    <3>2. Making(d, n)'
      BY <1>1, <1>2, <1>4, <1>8, <1>9, <1>10, <2>0, <2>2, <3>1 DEF Making, Left
    <3> QED
      BY <1>2, <3>2 DEF Phases
  <2> QED
    BY <1>6, <2>1, <2>2
<1> QED
  BY <1>8, <1>11, <1>12 DEF DirInv

(* One slot is written.                                                    *)
SetSlot(x, f, e) ==
    inode' = inode /\ slots' = [slots EXCEPT ![x] = [slots[x] EXCEPT ![f] = e]]

LEMMA SlotSet ==
    ASSUME DiskType, NEW x \in Inums, NEW f \in 1 .. Len(slots[x]), NEW e \in Slot,
           SetSlot(x, f, e)
    PROVE  /\ DiskType'
           /\ \A y \in Inums : /\ Len(slots'[y]) = Len(slots[y])
                               /\ y # x => slots'[y] = slots[y]
                               /\ \A s \in 1 .. Len(slots[y]) :
                                      slots'[y][s] = IF y = x /\ s = f THEN e ELSE slots[y][s]
           /\ \A y \in Inums : \A s : s \in Linking(y)' <=>
                  IF y = x /\ s = f THEN e.name \in Names /\ e.inum \in Inums
                  ELSE s \in Linking(y)
           /\ slots[x][f].name \notin {".", ".."} =>
                  \A i \in Inums : \A d : Dotted(i, d) => Dotted(i, d)'
<1> DEFINE new == [slots[x] EXCEPT ![f] = e]
<1>1. slots[x] \in Seq(Slot) /\ Len(slots[x]) \in Nat
  BY DEF DiskType
<1>2. /\ new \in Seq(Slot) /\ Len(new) = Len(slots[x])
      /\ \A s \in 1 .. Len(slots[x]) : new[s] = IF s = f THEN e ELSE slots[x][s]
  BY <1>1
<1> HIDE DEF new
<1>3. slots' = [slots EXCEPT ![x] = new] /\ inode' = inode
  BY DEF new, SetSlot
<1>4. \A y \in Inums : slots'[y] = IF y = x THEN new ELSE slots[y]
  BY <1>3 DEF DiskType
<1>5. DiskType'
  <2>1. \A y \in Inums : slots'[y] \in Seq(Slot) /\ Len(slots'[y]) = Len(slots[y])
    BY <1>2, <1>4 DEF DiskType
  <2>2. slots' \in [Inums -> Seq(Slot)] /\ inode' \in [Inums -> InodeRecord]
    BY <1>2, <1>3 DEF DiskType
  <2>3. \A y \in Inums : Len(slots'[y]) % EntriesPerBlock = 0
    BY <2>1 DEF DiskType
  <2> QED
    BY <2>2, <2>3 DEF DiskType
<1>6. \A y \in Inums : /\ Len(slots'[y]) = Len(slots[y])
                       /\ y # x => slots'[y] = slots[y]
                       /\ \A s \in 1 .. Len(slots[y]) :
                              slots'[y][s] = IF y = x /\ s = f THEN e ELSE slots[y][s]
  BY <1>2, <1>4
<1>7. ASSUME NEW y \in Inums, NEW s
      PROVE  s \in Linking(y)' <=> IF y = x /\ s = f THEN e.name \in Names /\ e.inum \in Inums
                                   ELSE s \in Linking(y)
  <2>1. Linking(y) \subseteq 1 .. Len(slots[y]) /\ Linking(y)' \subseteq 1 .. Len(slots[y])
    <3>1. slots'[y] \in Seq(Slot) /\ Len(slots'[y]) = Len(slots[y]) /\ slots[y] \in Seq(Slot)
      BY <1>5, <1>6 DEF DiskType
    <3>2. Linking(y)' \subseteq DOMAIN slots'[y] /\ Linking(y) \subseteq DOMAIN slots[y]
      BY DEF Linking
    <3> QED
      BY <3>1, <3>2
  <2>2. CASE s \notin 1 .. Len(slots[y])
    BY <2>1, <2>2
  <2>3. CASE s \in 1 .. Len(slots[y])
    <3>1. slots'[y] \in Seq(Slot) /\ slots'[y][s] \in Slot /\ s \in DOMAIN slots'[y]
      BY <1>5, <1>6, <2>3 DEF DiskType
    <3>2. s \in Linking(y)' <=> slots'[y][s].name \in Names /\ slots'[y][s].inum \in Inums
      BY <3>1 DEF Linking, Slot
    <3> QED
      BY <1>6, <2>3, <3>2, LinkingIs
  <2> QED
    BY <2>2, <2>3
<1>8. ASSUME slots[x][f].name \notin {".", ".."}, NEW i \in Inums, NEW d, Dotted(i, d)
      PROVE  Dotted(i, d)'
  <2>1. 1 \in 1 .. Len(slots[i]) /\ 2 \in 1 .. Len(slots[i])
    BY <1>8, SlotsType DEF Dotted
  <2>2. slots[i][1].name = "." /\ slots[i][2].name = ".."
    BY <1>8 DEF Dotted, Entry
  <2>3. slots'[i][1] = slots[i][1] /\ slots'[i][2] = slots[i][2] /\ Len(slots'[i]) = Len(slots[i])
    BY <1>6, <1>8, <2>1, <2>2
  <2> QED
    BY <1>8, <2>3 DEF Dotted
<1> QED
  BY <1>5, <1>6, <1>7, <1>8

(* What DotBlock holds.                                                    *)
LEMMA DotBlockIs ==
    ASSUME NEW i, NEW d, NEW k
    PROVE  /\ DOMAIN DotBlock(i, d, k) = 1 .. EntriesPerBlock
           /\ DotBlock(i, d, k)[1] = Entry(".", i)
           /\ DotBlock(i, d, k)[2] = IF k < 2 THEN Entry("..", d) ELSE Hole
           /\ \A s \in 3 .. EntriesPerBlock : DotBlock(i, d, k)[s] = Hole
           /\ k \in Nat => Len(DotBlock(i, d, k)) = EntriesPerBlock
  BY Constants DEF DotBlock

(* The first hole of the directory, in which the entry is written.         *)
LEMMA FirstHole ==
    ASSUME DiskType, NEW x \in Inums, Holes(x) # {}
    PROVE  LET f == FirstSlot(Holes(x))
           IN  /\ f \in 1 .. Len(slots[x]) /\ slots[x][f].name = NoName
               /\ \A s \in 1 .. Len(slots[x]) : slots[x][s].name = NoName => f <= s
               /\ f \notin Linking(x)
<1>1. Holes(x) \subseteq Nat /\ DOMAIN slots[x] = 1 .. Len(slots[x])
  BY SlotsType DEF Holes
<1>2. FirstSlot(Holes(x)) \in Holes(x) /\ \A s \in Holes(x) : FirstSlot(Holes(x)) <= s
  BY <1>1, FirstSlotIs
<1>3. \A s \in Holes(x) : s \in 1 .. Len(slots[x]) /\ slots[x][s].name = NoName
  BY <1>1 DEF Holes
<1>4. \A s \in 1 .. Len(slots[x]) : slots[x][s].name = NoName => s \in Holes(x)
  BY <1>1 DEF Holes
<1> QED
  BY <1>2, <1>3, <1>4, LinkingIs, Constants

(* A slot of the new directory is written: its state moves on.             *)
LEMMA BegunOn ==
    ASSUME NEW i, NEW d, NEW k \in {2, 3}, NEW old \in Begun(i, d, k),
           NEW f \in 1 .. Len(old), old[f].name = NoName,
           \A s \in 1 .. Len(old) : old[s].name = NoName => f <= s
    PROVE  [old EXCEPT ![f] = IF k = 3 THEN Entry(".", i) ELSE Entry("..", d)]
               \in Begun(i, d, k - 1)
<1>1. CASE k = 3
  <2>1. old = EmptyBlock
    BY <1>1 DEF Begun
  <2>2. Len(EmptyBlock) = EntriesPerBlock /\ EmptyBlock[1].name = NoName
    BY EmptyBlockType, HoleType, Constants
  <2>3. f = 1
    BY <2>1, <2>2, Constants
  <2>4. [EmptyBlock EXCEPT ![1] = Entry(".", i)] = DotBlock(i, d, 2)
    <3> DEFINE new == [EmptyBlock EXCEPT ![1] = Entry(".", i)]
    <3>1. \A s \in 1 .. EntriesPerBlock : new[s] = IF s = 1 THEN Entry(".", i) ELSE Hole
      BY DEF EmptyBlock
    <3>2. new = [s \in 1 .. EntriesPerBlock |-> new[s]]
      BY DEF EmptyBlock
    <3> HIDE DEF new
    <3>3. new = [s \in 1 .. EntriesPerBlock |-> IF s = 1 THEN Entry(".", i) ELSE Hole]
      BY <3>1, <3>2
    <3>4. DotBlock(i, d, 2) = [s \in 1 .. EntriesPerBlock |-> IF s = 1 THEN Entry(".", i) ELSE Hole]
      BY DEF DotBlock
    <3> QED
      BY <3>3, <3>4 DEF new
  <2> QED
    BY <1>1, <2>1, <2>3, <2>4 DEF Begun
<1>2. CASE k = 2
  <2>1. old = DotBlock(i, d, 2)
    BY <1>2 DEF Begun
  <2>2. Len(old) = EntriesPerBlock /\ old[1].name = "." /\ old[2].name = NoName
    <3>1. old[1] = Entry(".", i) /\ old[2] = Hole /\ Len(old) = EntriesPerBlock
      BY <2>1, Constants DEF DotBlock
    <3> QED
      BY <3>1, HoleType DEF Entry
  <2>3. f = 2
    BY <2>2, Constants
  <2>4. [DotBlock(i, d, 2) EXCEPT ![2] = Entry("..", d)] = DotBlock(i, d, 1)
    <3> DEFINE new == [DotBlock(i, d, 2) EXCEPT ![2] = Entry("..", d)]
    <3>1. \A s \in 1 .. EntriesPerBlock : new[s] = DotBlock(i, d, 1)[s]
      BY DEF DotBlock
    <3>2. new = [s \in 1 .. EntriesPerBlock |-> new[s]]
      BY DEF DotBlock
    <3>3. DotBlock(i, d, 1) = [s \in 1 .. EntriesPerBlock |-> DotBlock(i, d, 1)[s]]
      BY DEF DotBlock
    <3> HIDE DEF new
    <3> QED
      BY <3>1, <3>2, <3>3 DEF new
  <2> QED
    BY <1>2, <2>1, <2>3, <2>4 DEF Begun
<1> QED
  BY <1>1, <1>2

LEMMA InvWriteEntry == ASSUME DirInv, WriteEntry PROVE DirInv'
<1> DEFINE f == FirstSlot(Holes(dir))
           e == Entry(call.name, call.inum)
<1>1. /\ dir \in DOMAIN core /\ dir \in Inums
      /\ core[dir] \in InodeRecord /\ core[dir].in_use /\ core[dir].type = "dir"
      /\ inode[dir].in_use
      /\ call.inum \in Inums \union {Missing}
      /\ call.name \in BaseNames
      /\ call.name = NoName => nameless < MaxNameless
  BY Adding DEF WriteEntry
<1>2. /\ f \in 1 .. Len(slots[dir]) /\ slots[dir][f].name = NoName
      /\ \A s \in 1 .. Len(slots[dir]) : slots[dir][s].name = NoName => f <= s
      /\ f \notin Linking(dir)
  BY <1>1, FirstHole DEF WriteEntry, DirInv
<1>3. e \in Slot /\ e.name = call.name /\ e.inum = call.inum
  BY <1>1, SlotType
<1>4. /\ inode' = inode /\ slots' = [slots EXCEPT ![dir] = [slots[dir] EXCEPT ![f] = e]]
      /\ pc = "add" /\ pc' = "count" /\ node' = node /\ calls' = calls
      /\ core' = [core EXCEPT ![dir].num_direntries = @ + 1]
  BY DEF WriteEntry
<1> HIDE DEF f, e
<1>5. /\ DiskType'
      /\ \A y \in Inums : /\ Len(slots'[y]) = Len(slots[y])
                          /\ y # dir => slots'[y] = slots[y]
                          /\ \A s \in 1 .. Len(slots[y]) :
                                 slots'[y][s] = IF y = dir /\ s = f THEN e ELSE slots[y][s]
      /\ \A y \in Inums : \A s : s \in Linking(y)' <=>
             IF y = dir /\ s = f THEN call.name \in Names /\ call.inum \in Inums ELSE s \in Linking(y)
      /\ \A i \in Inums : \A d : Dotted(i, d) => Dotted(i, d)'
  <2>1. slots[dir][f].name \notin {".", ".."}
    BY <1>2, Constants
  <2>2. DiskType
    BY DEF DirInv
  <2>3. /\ DiskType'
        /\ \A y \in Inums : /\ Len(slots'[y]) = Len(slots[y])
                            /\ y # dir => slots'[y] = slots[y]
                            /\ \A s \in 1 .. Len(slots[y]) :
                                   slots'[y][s] = IF y = dir /\ s = f THEN e ELSE slots[y][s]
        /\ \A y \in Inums : \A s : s \in Linking(y)' <=>
               IF y = dir /\ s = f THEN e.name \in Names /\ e.inum \in Inums ELSE s \in Linking(y)
        /\ \A i \in Inums : \A d : Dotted(i, d) => Dotted(i, d)'
    <3>1. SetSlot(dir, f, e)
      BY <1>4 DEF SetSlot
    <3> QED
      BY <1>1, <1>2, <1>3, <2>1, <2>2, <3>1, SlotSet
  <2> QED
    BY <1>3, <2>3
<1>6. inode[dir].type = "dir"
  <2>1. slots[dir] # <<>>
    BY <1>2
  <2> QED
    BY <1>1, <2>1 DEF DirInv, Homes
<1>7. Homes'
  BY <1>4, <1>5, <1>6, <1>1 DEF DirInv, Homes, IsDirectory
<1>8. PICK d \in Inums, n \in BaseNames : Making(d, n) \/ NoNode(d, n)
  BY <1>4 DEF DirInv, Phases
<1>9. /\ DOMAIN core' = DOMAIN core
      /\ \A x \in DOMAIN core : /\ core'[x].type = core[x].type /\ core'[x].in_use = core[x].in_use
                                /\ core'[x] \in InodeRecord
  <2>1. \A x \in DOMAIN core : core[x] \in InodeRecord
    BY <1>4 DEF DirInv, Cores
  <2> QED
    BY <1>1, <1>4, <2>1 DEF InodeRecord
<1>10. RestType' /\ NoRoom' /\ Cores'
  <2>0. nameless' \in 0 .. MaxNameless
    BY <1>1, DirectoryAssumption DEF WriteEntry, DirInv, RestType
  <2>1. RestType' /\ NoRoom'
    BY <1>4, <1>9, <2>0 DEF WriteEntry, DirInv, RestType, NoRoom
  <2> QED
    BY <1>4, <1>9, <2>1 DEF DirInv, Cores
<1>13. Making(d, n) \/ NoNode(d, n) => Named(d, n)'
  <2>1. Making(d, n) \/ NoNode(d, n) => node \in DOMAIN core \/ node = Missing
    BY DEF Making, NoNode
  <2> QED
    BY <1>4, <1>9, <2>1 DEF Making, NoNode, Named, IsSymlink
<1>11. CASE ~(call.name \in Names /\ call.inum \in Inums)
  <2>1. \A y \in Inums : \A s \in Linking(y)' : s \in Linking(y) /\ slots'[y][s] = slots[y][s]
    BY <1>2, <1>5, <1>11, SlotsType DEF DirInv
  <2>2. OneLink' /\ \A i : Unlinked(i) => Unlinked(i)'
    BY <2>1, Shrunk DEF DirInv
  <2>3. GoodLinks'
    <3> SUFFICES ASSUME NEW y \in Inums, NEW s \in Linking(y)', NEW i, i = slots'[y][s].inum
                 PROVE  /\ inode'[i].in_use /\ i # Root /\ i # y
                        /\ inode'[i].type = "dir" => Dotted(i, y)'
      BY DEF GoodLinks
    <3>1. s \in Linking(y) /\ i = slots[y][s].inum
      BY <2>1
    <3>2. /\ inode[i].in_use /\ i # Root /\ i # y /\ i \in Inums
          /\ inode[i].type = "dir" => Dotted(i, y)
      BY <3>1 DEF DirInv, GoodLinks, Linking
    <3> QED
      BY <1>4, <1>5, <3>2
  <2>4. CASE NoNode(d, n)
    BY <1>4, <1>5, <1>7, <1>9, <1>10, <1>13, <2>2, <2>3, <2>4 DEF NoNode, Phases, DirInv
  <2>6. CASE Making(d, n) /\ Len(calls) = 1
    <3>1. call = Call(d, n, node) /\ dir = d /\ node \in Inums /\ node # d
      BY <2>6, CallOf DEF Making
    <3>2. core[node].type = "symlink"
      <4>1. n \notin Names
        BY <1>11, <3>1 DEF Call
      <4> QED
        BY <2>6, <3>1, <4>1, Constants DEF Making, Named, IsSymlink
    <3>3. slots'[node] = slots[node] /\ core'[node].type = "symlink" /\ Left' = 0
      BY <1>4, <1>5, <1>9, <2>6, <3>1, <3>2 DEF Making, Left
    <3>4. Making(d, n)'
      BY <1>4, <1>9, <1>13, <2>6, <3>2, <3>3 DEF Making
    <3> QED
      BY <1>4, <1>5, <1>7, <1>10, <2>2, <2>3, <3>4 DEF Phases, DirInv
  <2>5. CASE Making(d, n) /\ Len(calls) # 1
    <3>1. Len(calls) \in {2, 3} /\ dir = node
          /\ call = IF Len(calls) = 3 THEN Call(node, ".", node) ELSE Call(node, "..", d)
      BY <2>5, CallOf
    <3>2. e = IF Len(calls) = 3 THEN Entry(".", node) ELSE Entry("..", d)
      BY <3>1 DEF e, Call
    <3>3. core[node].type = "dir" /\ slots[node] \in Begun(node, d, Len(calls))
          /\ Left' = Len(calls) - 1
      <4>1. Left = Len(calls) /\ Left' = Len(calls) - 1
        BY <1>4 DEF Left
      <4>2. Len(calls) # 1
        BY <3>1
      <4>3. core[node].type = "dir"
        BY <2>5, <4>2 DEF Making
      <4> QED
        BY <2>5, <4>1, <4>3 DEF Making
    <3>4. slots'[node] = [slots[node] EXCEPT ![f] = e]
      <4>1. slots' = [slots EXCEPT ![node] = [slots[node] EXCEPT ![f] = e]] /\ node \in Inums
        BY <1>1, <1>4, <3>1
      <4>2. DOMAIN slots = Inums
        BY DEF DirInv, DiskType
      <4> QED
        BY <4>1, <4>2
    <3>5. slots'[node] \in Begun(node, d, Len(calls) - 1)
      <4>1. \A i, h, k, old, g :
               /\ k \in {2, 3} /\ old \in Begun(i, h, k) /\ g \in 1 .. Len(old)
               /\ old[g].name = NoName /\ \A s \in 1 .. Len(old) : old[s].name = NoName => g <= s
               => [old EXCEPT ![g] = IF k = 3 THEN Entry(".", i) ELSE Entry("..", h)]
                      \in Begun(i, h, k - 1)
        BY BegunOn
      <4>2. [slots[node] EXCEPT ![f] = IF Len(calls) = 3 THEN Entry(".", node) ELSE Entry("..", d)]
                \in Begun(node, d, Len(calls) - 1)
        BY <1>2, <3>1, <3>3, <4>1
      <4> DEFINE e1 == IF Len(calls) = 3 THEN Entry(".", node) ELSE Entry("..", d)
      <4>3. [slots[node] EXCEPT ![f] = e1] \in Begun(node, d, Len(calls) - 1) /\ e = e1
        BY <3>2, <4>2
      <4> HIDE DEF e1
      <4> QED
        BY <3>4, <4>3
    <3>6. Unlinked(node)'
      <4>1. Left > 0
        BY <1>4, <3>1 DEF Left
      <4>2. Unlinked(node)
        BY <2>5, <4>1 DEF Making
      <4> QED
        BY <1>4, <2>2, <4>2 DEF Unlinked
    <3>7. Making(d, n)'
      BY <1>4, <1>9, <1>13, <2>5, <3>3, <3>5, <3>6 DEF Making
    <3> QED
      BY <1>4, <1>5, <1>7, <1>10, <2>2, <2>3, <3>7 DEF Phases, DirInv
  <2> QED
    BY <1>8, <2>4, <2>5, <2>6
<1>12. CASE call.name \in Names /\ call.inum \in Inums
  <2>1. Making(d, n)
    BY <1>8, <1>12, Constants DEF NoNode, call, Call
  <2>2. Len(calls) = 1 /\ call = Call(d, n, node) /\ dir = d /\ node # d /\ node \in Inums /\ node # Root
    <3>1. call.name \notin {".", ".."}
      BY <1>12, Constants
    <3>2. Call(node, ".", node).name = "." /\ Call(node, "..", d).name = ".."
      BY DEF Call
    <3> QED
      BY <2>1, <3>1, <3>2, CallOf DEF Making
  <2>3. e.inum = node
    BY <1>3, <2>2 DEF Call
  <2>4. Unlinked(node) /\ Left = 1
    BY <1>4, <2>1, <2>2 DEF Making, Left
  <2>5. \A y \in Inums : \A s \in Linking(y)' :
            IF y = d /\ s = f THEN slots'[y][s].inum = node
            ELSE s \in Linking(y) /\ slots'[y][s] = slots[y][s] /\ slots[y][s].inum # node
    BY <1>1, <1>2, <1>5, <2>2, <2>3, <2>4, SlotsType DEF DirInv, Unlinked
  <2>6. OneLink'
    BY <2>5 DEF DirInv, OneLink
  <2>7. /\ inode[node].in_use
        /\ inode[node].type = "dir" => Dotted(node, d)
    <3>1. inode[node].in_use
      BY <1>4, <2>1 DEF DirInv, Cores, Making
    <3>2. ASSUME inode[node].type = "dir" PROVE slots[node] = DotBlock(node, d, 1)
      <4>1. core[node].type = "dir"
        BY <1>4, <2>1, <3>2 DEF Making
      <4> QED
        BY <2>1, <2>4, <4>1 DEF Making, Begun
    <3> QED
      BY <3>1, <3>2, DotBlockIs, Constants DEF Dotted
  <2>8. GoodLinks'
    <3> SUFFICES ASSUME NEW y \in Inums, NEW s \in Linking(y)', NEW i, i = slots'[y][s].inum
                 PROVE  /\ inode'[i].in_use /\ i # Root /\ i # y
                        /\ inode'[i].type = "dir" => Dotted(i, y)'
      BY DEF GoodLinks
    <3>1. CASE y = d /\ s = f
      BY <1>4, <1>5, <2>2, <2>5, <2>7, <3>1
    <3>2. CASE ~(y = d /\ s = f)
      <4>1. s \in Linking(y) /\ i = slots[y][s].inum
        BY <2>5, <3>2
      <4>2. /\ inode[i].in_use /\ i # Root /\ i # y /\ i \in Inums
            /\ inode[i].type = "dir" => Dotted(i, y)
        BY <4>1 DEF DirInv, GoodLinks, Linking
      <4> QED
        BY <1>4, <1>5, <4>2
    <3> QED
      BY <3>1, <3>2
  <2>9. Making(d, n)'
    <3>1. Left' = 0 /\ Len(calls') = 1 /\ calls' = calls
      BY <1>4, <2>2 DEF Left
    <3>2. Begun(node, d, 0) = Begun(node, d, 1)
      BY DEF Begun, DotBlock
    <3>3. slots'[node] = slots[node]
      BY <1>5, <2>2
    <3> QED
      BY <1>4, <1>9, <1>13, <2>1, <2>4, <3>1, <3>2, <3>3 DEF Making
  <2> QED
    BY <1>4, <1>5, <1>7, <1>10, <2>6, <2>8, <2>9 DEF Phases, DirInv
<1> QED
  BY <1>11, <1>12

(* The inode of the directory, which may be the new one.                   *)
LEMMA InvCountEntry == ASSUME DirInv, CountEntry PROVE DirInv'
<1>1. /\ dir \in DOMAIN core /\ dir \in Inums
      /\ core[dir] \in InodeRecord /\ core[dir].in_use /\ core[dir].type = "dir"
      /\ inode[dir].in_use
      /\ dir # node => inode[dir].type = "dir"
  BY Adding DEF CountEntry
<1>2. inode' = [inode EXCEPT ![dir] = core[dir]] /\ slots' = slots /\ pc = "count"
  BY DEF CountEntry
<1>3. PICK d \in Inums, n \in BaseNames : Making(d, n) \/ NoNode(d, n)
  BY <1>2 DEF DirInv, Phases
<1>4. ASSUME dir = node PROVE Making(d, n) /\ Len(calls) \in {2, 3} /\ Left > 0 /\ Unlinked(node)
  <2>1. Making(d, n)
    BY <1>1, <1>3, <1>4, Constants DEF NoNode
  <2>2. Len(calls) # 1 /\ Len(calls) \in 1 .. 3
    BY <1>4, <2>1, CallOf DEF Making
  <2>3. Left > 0
    BY <1>2, <2>2 DEF Left
  <2> QED
    BY <2>1, <2>2, <2>3 DEF Making
<1>5. DiskType' /\ Homes' /\ OneLink' /\ GoodLinks' /\ \A i : Unlinked(i) => Unlinked(i)'
  <2>1. Grown(dir)
    BY <1>1, <1>2, NotGrown DEF DirInv
  <2>2. core[dir].type = "dir" /\ inode[dir].type # "dir" => Unlinked(dir)
    BY <1>1, <1>4
  <2> QED
    BY <1>1, <1>2, <2>1, <2>2, InvWritten
<1>6. \A i \in Inums : inode'[i] = IF i = dir THEN core[dir] ELSE inode[i]
  BY <1>2 DEF DirInv, DiskType
<1>7. CASE Tail(calls) = <<>> /\ IsSymlink
  <2>1. Return /\ spare' = spare /\ removals' = removals /\ crashes' = crashes
        /\ nameless' = nameless
    BY <1>7 DEF CountEntry
  <2>2. spare' \in Nat /\ removals' \in 0 .. MaxRemovals /\ crashes' \in 0 .. MaxCrashes
        /\ nameless' \in 0 .. MaxNameless
    BY <2>1 DEF DirInv, RestType
  <2> QED
    BY <1>5, <2>1, <2>2, InvReturn
<1>8. CASE ~(Tail(calls) = <<>> /\ IsSymlink)
  <2>1. Making(d, n)
    <3> SUFFICES ASSUME NoNode(d, n) PROVE FALSE
      BY <1>3
    <3>1. node = Missing /\ calls = <<Call(d, n, Missing)>>
      BY DEF NoNode
    <3>2. Tail(calls) = <<>>
      BY <3>1
    <3> QED
      BY <1>8, <3>1, <3>2 DEF IsSymlink
  <2>0. /\ pc' = IF Tail(calls) = <<>> THEN "node" ELSE "add"
        /\ calls' = Tail(calls) /\ node' = node
        /\ core' = IF call.name = ".."
                   THEN [core EXCEPT ![call.inum].refcount = @ + 1, ![dir].refcount = @ + 1]
                   ELSE core
        /\ spare' = spare /\ removals' = removals /\ crashes' = crashes
        /\ nameless' = nameless /\ popped' = popped
    BY <1>8, Zenon DEF CountEntry
  <2>2. node \in Inums /\ node # Root /\ node # d /\ DOMAIN core = {d, node} /\ node' = node
    BY <2>0, <2>1 DEF Making
  <2>5. NoRoom'
    BY <1>2, <2>0 DEF DirInv, RestType, NoRoom
  <2>3. CASE Tail(calls) = <<>>
    <3>1. Len(calls) = 1 /\ call = Call(d, n, node) /\ dir = d
      <4>0. Len(<<>>) = 0
        OBVIOUS
      <4>1. Len(Tail(calls)) = 0
        BY <2>3, <4>0, Zenon
      <4> QED
        BY <2>1, <4>1, CallOf
    <3>2. call.name # ".."
      <4>1. n \in Names
        BY <1>8, <2>1, <2>3 DEF Making, Named
      <4> QED
        BY <3>1, <4>1, Constants DEF Call
    <3>3. pc' = "node" /\ core' = core
      BY <2>0, <2>3, <3>2
    <3>4. inode'[node].type = core[node].type /\ core[node].type # "symlink"
      BY <1>2, <1>6, <1>8, <2>1, <2>2, <2>3, <3>1 DEF Making, IsSymlink
    <3>5. Made(d)'
      BY <2>2, <3>3, <3>4 DEF Made
    <3>6. RestType' /\ Cores'
      BY <1>1, <1>2, <1>6, <2>0, <2>2, <3>3 DEF DirInv, RestType, Cores
    <3> QED
      BY <1>5, <2>5, <3>3, <3>5, <3>6 DEF DirInv, Phases
  <2>4. CASE Tail(calls) # <<>>
    <3>1. /\ Len(calls) \in {2, 3} /\ dir = node
          /\ calls' = Script(d, n, node, Len(calls) - 1) /\ Len(calls') = Len(calls) - 1
          /\ call = IF Len(calls) = 3 THEN Call(node, ".", node) ELSE Call(node, "..", d)
          /\ pc' = "add"
      <4>1. Len(calls) # 1 /\ Len(calls) \in 1 .. 3
        BY <2>1, <2>4, CallOf
      <4>2. CASE Len(calls) = 3
        BY <2>0, <2>1, <2>4, <4>2, CallOf
      <4>3. CASE Len(calls) = 2
        BY <2>0, <2>1, <2>4, <4>3, CallOf
      <4> QED
        BY <4>1, <4>2, <4>3
    <3>2. core' = IF Len(calls) = 3 THEN core
                  ELSE [core EXCEPT ![d].refcount = @ + 1, ![node].refcount = @ + 1]
      BY <2>0, <3>1, Constants DEF Call
    <3>3. \A x \in {d, node} : core[x] \in InodeRecord
      BY <1>2, <2>2 DEF DirInv, Cores
    <3>4. /\ DOMAIN core' = {d, node}
          /\ \A x \in {d, node} : /\ core'[x] \in InodeRecord
                                  /\ core'[x].type = core[x].type /\ core'[x].in_use = core[x].in_use
      BY <2>2, <3>2, <3>3 DEF InodeRecord
    <3>5. RestType' /\ Cores'
      <4>1. RestType'
        BY <2>0, <2>2, <3>1, <3>4 DEF DirInv, RestType
      <4>2. \A x \in {d, node} : core[x].in_use /\ inode[x].in_use
        BY <1>2, <2>2 DEF DirInv, Cores
      <4>3. core[d].type = "dir" /\ inode[d].type = "dir"
        BY <1>2, <2>2 DEF DirInv, Cores
      <4>4. \A x \in {d, node} : inode'[x].in_use
        BY <1>1, <1>6, <2>2, <4>2
      <4>5. inode'[d].type = "dir"
        BY <1>6, <2>2, <3>1, <4>3
      <4>6. Cores'
        BY <2>0, <2>2, <3>1, <3>4, <4>1, <4>2, <4>3, <4>4, <4>5 DEF Cores, RestType
      <4> QED
        BY <4>1, <4>6
    <3>6. Left' = Left /\ Left' > 0
      BY <1>2, <1>4, <3>1 DEF Left
    <3>7. inode'[node].type = "dir" /\ core'[node].type = "dir"
      BY <1>1, <1>6, <2>2, <3>1, <3>4
    <3>8. Unlinked(node)'
      BY <1>4, <1>5, <2>2, <3>1 DEF Unlinked
    <3>9. slots'[node] \in Begun(node, d, Left)'
      <4>1. Begun(node, d, Left)' = Begun(node, d, Left)
        BY <2>0, <3>6 DEF Begun
      <4>2. core[node].type = "dir"
        BY <1>1, <3>1
      <4>3. slots[node] \in Begun(node, d, Left)
        BY <2>1, <4>2 DEF Making
      <4> QED
        BY <1>2, <2>0, <4>1, <4>3
    <3>10. Making(d, n)'
      <4>1. calls' = Script(d, n, node', Len(calls')) /\ Len(calls') \in 1 .. 3
        BY <2>0, <3>1
      <4>2. Named(d, n)'
        <5>1. n \in Names
          <6>1. core[node].type = "dir" /\ node # Missing
            BY <1>1, <3>1, Constants
          <6> QED
            BY <2>1, <6>1 DEF Making, Named, IsSymlink
        <5> QED
          BY <5>1, Constants DEF Named
      <4> QED
        BY <2>0, <2>2, <3>1, <3>4, <3>7, <3>8, <3>9, <4>1, <4>2 DEF Making
    <3> QED
      BY <1>5, <2>5, <3>1, <3>5, <3>10 DEF DirInv, Phases
  <2> QED
    BY <2>3, <2>4
<1> QED
  BY <1>7, <1>8

LEMMA InvWriteNode == ASSUME DirInv, WriteNode PROVE DirInv'
<1>1. PICK d \in Inums : Made(d)
  BY DEF WriteNode, DirInv, Phases
<1>2. /\ node \in Inums /\ node # Root /\ core[node] \in InodeRecord /\ core[node].in_use
      /\ core[node].type = inode[node].type
  BY <1>1 DEF WriteNode, DirInv, Cores, Made
<1>3. Grown(node) /\ (core[node].type # "dir" => slots'[node] = <<>>)
  BY <1>2, NotGrown DEF WriteNode, DirInv, Homes
<1>4. DiskType' /\ Homes' /\ OneLink' /\ GoodLinks'
  BY <1>2, <1>3, InvWritten DEF WriteNode
<1> QED
  BY <1>4, InvReturn DEF WriteNode, DirInv, RestType

LEMMA InvUndo == ASSUME DirInv, Undo PROVE DirInv'
<1>1. PICK d \in Inums, n \in BaseNames : Making(d, n)
  BY DEF Undo, DirInv, Phases, NoNode
<1>2. node \in Inums /\ node # Root /\ Unlinked(node)
  <2>0. pc = "undo" /\ Len(calls) \in 1 .. 3
    BY <1>1 DEF Undo, Making
  <2>1. Left > 0
    BY <2>0 DEF Left
  <2> QED
    BY <1>1, <2>1 DEF Making
<1>3. DiskType' /\ Homes' /\ OneLink' /\ GoodLinks'
  BY <1>2, InvFreed DEF Undo
<1> QED
  BY <1>3, InvReturn DEF Undo, DirInv, RestType

-----------------------------------------------------------------------------
(* Dir_removeEntry                                                         *)

(* The slot that Dir_lookup finds is a link to what it answers.            *)
LEMMA LookupIs ==
    ASSUME DiskType, NEW d \in Inums, NEW n \in Names, Lookup(d, n) # Missing
    PROVE  LET f == FirstSlot(SlotsNamed(d, n))
           IN  /\ f \in 1 .. Len(slots[d]) /\ f \in Linking(d)
               /\ slots[d][f].name = n /\ slots[d][f].inum = Lookup(d, n)
               /\ Lookup(d, n) \in Inums
<1>1. Len(slots[d]) \in Nat /\ inode[d].num_direntries \in Nat
      /\ \A s \in 1 .. Len(slots[d]) : slots[d][s] \in Slot
  BY SlotsType DEF DiskType, InodeRecord
<1>2. Searched(d) \in Nat /\ Searched(d) <= Len(slots[d])
  BY <1>1 DEF Searched
<1>3. SlotsNamed(d, n) # {} /\ SlotsNamed(d, n) \subseteq 1 .. Len(slots[d])
  BY <1>2, <1>1 DEF Lookup, SlotsNamed
<1>4. FirstSlot(SlotsNamed(d, n)) \in SlotsNamed(d, n)
  <2>1. SlotsNamed(d, n) \subseteq Nat
    BY <1>3
  <2> QED
    BY <1>3, <2>1, FirstSlotIs
<1> DEFINE f == FirstSlot(SlotsNamed(d, n))
<1>5. f \in 1 .. Len(slots[d]) /\ slots[d][f].name = n /\ slots[d][f].inum = Lookup(d, n)
  BY <1>3, <1>4 DEF SlotsNamed, Lookup
<1> HIDE DEF f
<1>6. Lookup(d, n) \in Inums
  BY <1>1, <1>5 DEF Slot
<1>7. f \in Linking(d)
  BY <1>5, <1>6, LinkingIs
<1> QED
  BY <1>5, <1>6, <1>7 DEF f

LEMMA InvRemoveEntry ==
    ASSUME DirInv, NEW kind \in {"unlink", "rmdir"}, NEW d \in Inums, IsDirectory(d),
           NEW n \in Names, RemoveEntry(kind, d, n)
    PROVE  DirInv'
<1> DEFINE f == FirstSlot(SlotsNamed(d, n))
<1>1. PICK i \in Inums : /\ i = Lookup(d, n) /\ node' = i
                        /\ f \in 1 .. Len(slots[d]) /\ f \in Linking(d)
                        /\ slots[d][f].name = n /\ slots[d][f].inum = i
  BY LookupIs DEF RemoveEntry, DirInv
<1>2. /\ inode' = inode /\ slots' = [slots EXCEPT ![d] = [slots[d] EXCEPT ![f] = Hole]]
      /\ core' = [x \in {d} |-> [inode[d] EXCEPT
                      !.n_bytes = (inode[d].n_bytes + SizeModulus - 1) % SizeModulus]]
      /\ calls' = <<Call(d, n, i)>> /\ pc' = "drop" /\ spare' = spare /\ crashes' = crashes
      /\ removals < MaxRemovals /\ removals' = removals + 1
      /\ nameless' = nameless /\ popped' = popped
  BY <1>1 DEF RemoveEntry
<1> HIDE DEF f
<1>3. SetSlot(d, f, Hole)
  BY <1>2 DEF SetSlot
<1>4. slots[d][f].name \notin {".", ".."}
  BY <1>1, Constants
<1>5. /\ DiskType'
      /\ \A y \in Inums : /\ Len(slots'[y]) = Len(slots[y])
                          /\ y # d => slots'[y] = slots[y]
                          /\ \A s \in 1 .. Len(slots[y]) :
                                 slots'[y][s] = IF y = d /\ s = f THEN Hole ELSE slots[y][s]
      /\ \A y \in Inums : \A s : s \in Linking(y)' <=>
             IF y = d /\ s = f THEN Hole.name \in Names /\ Hole.inum \in Inums ELSE s \in Linking(y)
      /\ \A j \in Inums : \A e : Dotted(j, e) => Dotted(j, e)'
  <2>1. DiskType
    BY DEF DirInv
  <2> QED
    BY <1>1, <1>3, <1>4, <2>1, HoleType, SlotSet
<1>6. \A y \in Inums : \A s \in Linking(y)' :
          s \in Linking(y) /\ slots'[y][s] = slots[y][s] /\ ~(y = d /\ s = f)
  BY <1>5, HoleType, Constants, SlotsType DEF DirInv
<1>7. OneLink' /\ \A j : Unlinked(j) => Unlinked(j)'
  BY <1>6, Shrunk DEF DirInv
<1>8. inode[d].in_use /\ inode[d].type = "dir" /\ inode[d] \in InodeRecord
  BY DEF IsDirectory, DirInv, DiskType
<1>9. Homes'
  BY <1>2, <1>5, <1>8 DEF DirInv, Homes, IsDirectory
<1>10. GoodLinks'
  <2> SUFFICES ASSUME NEW y \in Inums, NEW s \in Linking(y)', NEW j, j = slots'[y][s].inum
               PROVE  /\ inode'[j].in_use /\ j # Root /\ j # y
                      /\ inode'[j].type = "dir" => Dotted(j, y)'
    BY DEF GoodLinks
  <2>1. s \in Linking(y) /\ j = slots[y][s].inum
    BY <1>6
  <2>2. /\ inode[j].in_use /\ j # Root /\ j # y /\ j \in Inums
        /\ inode[j].type = "dir" => Dotted(j, y)
    BY <2>1 DEF DirInv, GoodLinks, Linking
  <2> QED
    BY <1>2, <1>5, <2>2
<1>11. i # Root /\ i # d
  BY <1>1 DEF DirInv, GoodLinks
<1>12. Unlinked(i)'
  <2> SUFFICES ASSUME NEW y \in Inums, NEW s \in Linking(y)', slots'[y][s].inum = i PROVE FALSE
    BY DEF Unlinked
  <2>1. s \in Linking(y) /\ slots[y][s].inum = i /\ ~(y = d /\ s = f)
    BY <1>6
  <2> QED
    BY <1>1, <2>1 DEF DirInv, OneLink
<1>13. Removing(d, n)'
  <2>1. Unlinked(node)'
    BY <1>1, <1>12 DEF Unlinked
  <2> QED
    BY <1>1, <1>2, <1>11, <2>1 DEF Removing
<1>14. RestType' /\ NoRoom' /\ Cores'
  <2>1. (inode[d].n_bytes + SizeModulus - 1) % SizeModulus \in 0 .. SizeModulus - 1
    BY <1>8, Constants DEF InodeRecord
  <2>2. DOMAIN core' = {d} /\ core'[d] \in InodeRecord /\ core'[d].in_use /\ core'[d].type = "dir"
    BY <1>2, <1>8, <2>1 DEF InodeRecord
  <2> QED
    <3>1. NoRoom' /\ popped' \in {0, 1} /\ nameless' \in 0 .. MaxNameless
      BY <1>2 DEF RemoveEntry, Idle, DirInv, RestType, NoRoom
    <3>2. RestType'
      BY <1>1, <1>2, <2>2, <3>1, DirectoryAssumption DEF DirInv, RestType
    <3>3. Cores'
      BY <1>1, <1>2, <1>8, <2>2 DEF Cores
    <3> QED
      BY <3>1, <3>2, <3>3
<1> QED
  BY <1>2, <1>5, <1>7, <1>9, <1>10, <1>13, <1>14 DEF DirInv, Phases

(* A block leaves an inode that nothing names.                             *)
LEMMA AllButFirstIs ==
    ASSUME NEW old \in Seq(Slot), old # <<>>, Len(old) % EntriesPerBlock = 0
    PROVE  /\ AllButFirst(old) \in Seq(Slot)
           /\ Len(AllButFirst(old)) = Len(old) - EntriesPerBlock
           /\ Len(AllButFirst(old)) % EntriesPerBlock = 0
           /\ Len(old) >= EntriesPerBlock
           /\ \A s \in 1 .. Len(AllButFirst(old)) :
                  /\ s + EntriesPerBlock \in 1 .. Len(old)
                  /\ AllButFirst(old)[s] = old[s + EntriesPerBlock]
<1>1. Len(old) \in Nat /\ Len(old) > 0 /\ EntriesPerBlock \in Nat /\ EntriesPerBlock > 0
  BY Constants
<1> DEFINE q == Len(old) \div EntriesPerBlock
           n == Len(old)
<1>2. q \in Nat /\ n = q * EntriesPerBlock + (n % EntriesPerBlock)
  <2> DEFINE m == Len(old)
  <2>1. m \in Nat
    BY <1>1
  <2> HIDE DEF m
  <2>2. /\ m \div EntriesPerBlock \in Nat
        /\ m = (m \div EntriesPerBlock) * EntriesPerBlock + (m % EntriesPerBlock)
    BY <1>1, <2>1, Division, Zenon
  <2> QED
    BY <2>2 DEF m
<1>3. n = q * EntriesPerBlock
  BY <1>1, <1>2
<1> DEFINE p == q - 1
<1>4. q >= 1
  <2>1. q # 0
    <3> SUFFICES ASSUME q = 0 PROVE FALSE
      OBVIOUS
    <3>1. 0 * EntriesPerBlock = 0
      BY <1>1
    <3> HIDE DEF q, n
    <3>2. n = 0 * EntriesPerBlock
      BY <1>3
    <3> QED
      BY <1>1, <3>1, <3>2 DEF n
  <2> HIDE DEF q
  <2> QED
    BY <1>2, <2>1
<1>5. p \in Nat /\ q = p + 1
  BY <1>2, <1>4
<1>6. n - EntriesPerBlock = p * EntriesPerBlock
  <2> HIDE DEF q, p, n
  <2>1. (p + 1) * EntriesPerBlock = p * EntriesPerBlock + EntriesPerBlock
        /\ p * EntriesPerBlock \in Nat
    BY <1>1, <1>5
  <2>2. n = p * EntriesPerBlock + EntriesPerBlock
    BY <1>3, <1>5, <2>1
  <2> QED
    BY <1>1, <2>1, <2>2
<1>7. (n - EntriesPerBlock) % EntriesPerBlock = 0 /\ n >= EntriesPerBlock
  <2>1. (p * EntriesPerBlock) % EntriesPerBlock = 0
    BY <1>1, <1>5, Multiple
  <2>2. p * EntriesPerBlock \in Nat
    BY <1>1, <1>5
  <2> HIDE DEF p, n, q
  <2> QED
    BY <1>1, <1>6, <2>1, <2>2 DEF n
<1> HIDE DEF q, p
<1>8. /\ AllButFirst(old) \in Seq(Slot) /\ Len(AllButFirst(old)) = n - EntriesPerBlock
      /\ \A s \in 1 .. n - EntriesPerBlock : AllButFirst(old)[s] = old[s + EntriesPerBlock]
  BY <1>1, <1>7 DEF AllButFirst
<1> QED
  BY <1>1, <1>7, <1>8

LEMMA Released ==
    ASSUME DiskType, NEW x \in Inums, slots[x] # <<>>,
           slots' = [slots EXCEPT ![x] = AllButFirst(slots[x])]
    PROVE  /\ slots' \in [Inums -> Seq(Slot)]
           /\ \A i \in Inums : Len(slots'[i]) % EntriesPerBlock = 0
           /\ \A i \in Inums : i # x => slots'[i] = slots[i]
           /\ Len(slots'[x]) = Len(slots[x]) - EntriesPerBlock
           /\ Len(slots[x]) >= EntriesPerBlock
           /\ \A s \in 1 .. Len(slots'[x]) : /\ s + EntriesPerBlock \in 1 .. Len(slots[x])
                                             /\ slots'[x][s] = slots[x][s + EntriesPerBlock]
           /\ \A s \in Linking(x)' : s + EntriesPerBlock \in Linking(x)
<1> DEFINE new == AllButFirst(slots[x])
<1>1. /\ new \in Seq(Slot) /\ Len(new) = Len(slots[x]) - EntriesPerBlock
      /\ Len(new) % EntriesPerBlock = 0 /\ Len(slots[x]) >= EntriesPerBlock
      /\ \A s \in 1 .. Len(new) : /\ s + EntriesPerBlock \in 1 .. Len(slots[x])
                                  /\ new[s] = slots[x][s + EntriesPerBlock]
  BY AllButFirstIs DEF DiskType
<1> HIDE DEF new
<1>2. slots' = [slots EXCEPT ![x] = new]
  BY DEF new
<1>3. \A i \in Inums : slots'[i] = IF i = x THEN new ELSE slots[i]
  BY <1>2 DEF DiskType
<1>4. slots' \in [Inums -> Seq(Slot)]
  BY <1>1, <1>2 DEF DiskType
<1>5. ASSUME NEW s \in Linking(x)' PROVE s + EntriesPerBlock \in Linking(x)
  <2>1. DOMAIN new = 1 .. Len(new) /\ DOMAIN slots[x] = 1 .. Len(slots[x])
    BY <1>1, SlotsType
  <2>2. s \in DOMAIN slots'[x] /\ slots'[x][s] \in [name : Names, inum : Inums]
    BY DEF Linking
  <2>3. s \in 1 .. Len(new) /\ new[s] \in [name : Names, inum : Inums]
    BY <1>3, <2>1, <2>2
  <2> QED
    BY <1>1, <2>1, <2>3 DEF Linking
<1> QED
  BY <1>1, <1>3, <1>4, <1>5 DEF DiskType

LEMMA ReleasedLinks ==
    ASSUME DirInv, NEW x \in Inums, slots[x] # <<>>,
           slots' = [slots EXCEPT ![x] = AllButFirst(slots[x])]
    PROVE  /\ \A y \in Inums : \A s \in Linking(y)' :
                  /\ s \in Nat
                  /\ \E t \in Linking(y) : /\ slots'[y][s] = slots[y][t]
                                           /\ t = IF y = x THEN s + EntriesPerBlock ELSE s
           /\ \A y \in Inums : y # x => Linking(y)' = Linking(y)
           /\ \A i : Unlinked(i) => Unlinked(i)'
<1>4. /\ slots' \in [Inums -> Seq(Slot)]
      /\ \A i \in Inums : Len(slots'[i]) % EntriesPerBlock = 0
      /\ \A i \in Inums : i # x => slots'[i] = slots[i]
      /\ \A s \in 1 .. Len(slots'[x]) :
             /\ s + EntriesPerBlock \in 1 .. Len(slots[x])
             /\ slots'[x][s] = slots[x][s + EntriesPerBlock]
      /\ \A s \in Linking(x)' : s + EntriesPerBlock \in Linking(x)
  BY Released DEF DirInv
<1>6. /\ \A y \in Inums : \A s \in Linking(y)' : s \in Nat
      /\ \A y \in Inums : y # x => Linking(y)' = Linking(y)
      /\ \A s \in Linking(x)' : slots'[x][s] = slots[x][s + EntriesPerBlock]
  <2>1. ASSUME NEW y \in Inums PROVE Linking(y)' \subseteq 1 .. Len(slots'[y])
    <3>1. slots'[y] \in Seq(Slot)
      BY <1>4
    <3>2. Linking(y)' \subseteq DOMAIN slots'[y]
      BY DEF Linking
    <3> QED
      BY <3>1, <3>2
  <2>2. \A y \in Inums : \A s \in Linking(y)' : s \in Nat
    BY <1>4, <2>1
  <2>3. ASSUME NEW y \in Inums, y # x PROVE Linking(y)' = Linking(y)
    BY <1>4, <2>3 DEF Linking
  <2>4. \A s \in Linking(x)' : slots'[x][s] = slots[x][s + EntriesPerBlock]
    BY <1>4, <2>1
  <2> QED
    BY <2>2, <2>3, <2>4
<1>7. \A y \in Inums : \A s \in Linking(y)' :
          \E t \in Linking(y) : /\ slots'[y][s] = slots[y][t]
                                /\ t = IF y = x THEN s + EntriesPerBlock ELSE s
  <2> SUFFICES ASSUME NEW y \in Inums, NEW s \in Linking(y)'
               PROVE  \E t \in Linking(y) : /\ slots'[y][s] = slots[y][t]
                                            /\ t = IF y = x THEN s + EntriesPerBlock ELSE s
    OBVIOUS
  <2>1. CASE y = x
    <3>1. s + EntriesPerBlock \in Linking(x) /\ slots'[x][s] = slots[x][s + EntriesPerBlock]
      BY <1>4, <1>6, <2>1
    <3> QED
      BY <2>1, <3>1
  <2>2. CASE y # x
    <3>1. s \in Linking(y) /\ slots'[y][s] = slots[y][s]
      BY <1>4, <1>6, <2>2
    <3> QED
      BY <2>2, <3>1
  <2> QED
    BY <2>1, <2>2
<1>8. ASSUME NEW i, Unlinked(i) PROVE Unlinked(i)'
  BY <1>7, <1>8 DEF Unlinked
<1> QED
  BY <1>6, <1>7, <1>8

LEMMA InvReleaseBlock == ASSUME DirInv, ReleaseBlock PROVE DirInv'
<1>1. PICK d \in Inums, n \in Names : Removing(d, n)
  BY DEF ReleaseBlock, LastReference, DirInv, Phases
<1>2. node \in Inums /\ node # Root /\ node # d /\ Unlinked(node) /\ DOMAIN core = {d}
  BY <1>1 DEF Removing
<1>3. /\ slots[node] # <<>> /\ slots' = [slots EXCEPT ![node] = AllButFirst(slots[node])]
      /\ pc = "drop" /\ pc' = pc /\ node' = node /\ core' = core /\ calls' = calls
      /\ inode' = inode /\ popped' = popped /\ spare' = spare + 1
      /\ removals' = removals /\ nameless' = nameless /\ crashes' = crashes
  BY DEF ReleaseBlock, LastReference
<1>0. PICK x \in Inums : x = node
  BY <1>2
<1>4. /\ slots' \in [Inums -> Seq(Slot)]
      /\ \A i \in Inums : Len(slots'[i]) % EntriesPerBlock = 0
      /\ \A i \in Inums : i # x => slots'[i] = slots[i]
      /\ \A s \in 1 .. Len(slots'[x]) :
             /\ s + EntriesPerBlock \in 1 .. Len(slots[x])
             /\ slots'[x][s] = slots[x][s + EntriesPerBlock]
      /\ \A s \in Linking(x)' : s + EntriesPerBlock \in Linking(x)
  BY <1>0, <1>3, Released DEF DirInv
<1>5. DiskType'
  BY <1>3, <1>4 DEF DirInv, DiskType
<1>6. /\ \A y \in Inums : \A s \in Linking(y)' :
             /\ s \in Nat
             /\ \E t \in Linking(y) : /\ slots'[y][s] = slots[y][t]
                                      /\ t = IF y = x THEN s + EntriesPerBlock ELSE s
      /\ \A i : Unlinked(i) => Unlinked(i)'
  BY <1>0, <1>3, ReleasedLinks
<1>7. \A y \in Inums : \A s \in Linking(y)' :
          \E t \in Linking(y) : /\ slots'[y][s] = slots[y][t]
                                /\ t = IF y = x THEN s + EntriesPerBlock ELSE s
  BY <1>6
<1>8. OneLink' /\ \A i : Unlinked(i) => Unlinked(i)'
  <2>1. \A i : Unlinked(i) => Unlinked(i)'
    BY <1>6
  <2>2. OneLink'
    <3> SUFFICES ASSUME NEW y \in Inums, NEW z \in Inums,
                        NEW s \in Linking(y)', NEW t \in Linking(z)',
                        slots'[y][s].inum = slots'[z][t].inum
                 PROVE  y = z /\ s = t
      BY DEF OneLink
    <3>1. PICK u \in Linking(y) : /\ slots'[y][s] = slots[y][u]
                                  /\ u = IF y = x THEN s + EntriesPerBlock ELSE s
      BY <1>7
    <3>2. PICK v \in Linking(z) : /\ slots'[z][t] = slots[z][v]
                                  /\ v = IF z = x THEN t + EntriesPerBlock ELSE t
      BY <1>7
    <3>3. y = z /\ u = v
      BY <3>1, <3>2 DEF DirInv, OneLink
    <3>4. s \in Nat /\ t \in Nat /\ EntriesPerBlock \in Nat
      BY <1>6, Constants
    <3> QED
      BY <3>1, <3>2, <3>3, <3>4
  <2> QED
    BY <2>1, <2>2
<1>9. GoodLinks'
  <2> SUFFICES ASSUME NEW y \in Inums, NEW s \in Linking(y)', NEW i, i = slots'[y][s].inum
               PROVE  /\ inode'[i].in_use /\ i # Root /\ i # y
                      /\ inode'[i].type = "dir" => Dotted(i, y)'
    BY DEF GoodLinks
  <2>1. PICK t \in Linking(y) : slots'[y][s] = slots[y][t]
    BY <1>7
  <2>2. /\ inode[i].in_use /\ i # Root /\ i # y /\ i \in Inums
        /\ inode[i].type = "dir" => Dotted(i, y)
    BY <2>1 DEF DirInv, GoodLinks, Linking
  <2>3. i # x
    BY <1>0, <1>2, <2>1 DEF Unlinked
  <2> QED
    BY <1>3, <1>4, <2>2, <2>3 DEF Dotted
<1>10. Homes'
  <2>1. slots[x] # <<>> => inode[x].in_use /\ inode[x].type = "dir"
    BY DEF DirInv, Homes
  <2> QED
    BY <1>0, <1>2, <1>3, <1>4, <2>1 DEF DirInv, Homes, IsDirectory
<1>11. Removing(d, n)'
  <2>1. Unlinked(node)'
    BY <1>2, <1>3, <1>8 DEF Unlinked
  <2> QED
    BY <1>1, <1>3, <2>1 DEF Removing
<1>12. RestType' /\ NoRoom' /\ Cores'
  BY <1>2, <1>3 DEF DirInv, RestType, NoRoom, Cores
<1> QED
  BY <1>3, <1>5, <1>8, <1>9, <1>10, <1>11, <1>12 DEF DirInv, Phases

LEMMA InvDropReference == ASSUME DirInv, DropReference PROVE DirInv'
<1>1. PICK d \in Inums, n \in Names : Removing(d, n)
  BY DEF DropReference, DirInv, Phases
<1>2. node \in Inums /\ node # Root /\ node # d /\ Unlinked(node) /\ DOMAIN core = {d}
  BY <1>1 DEF Removing
<1>3. /\ pc = "drop" /\ pc' = "uncount" /\ node' = node /\ core' = core /\ calls' = calls
      /\ removals' = removals /\ crashes' = crashes /\ nameless' = nameless
      /\ slots' = slots /\ spare' = spare /\ popped' = popped
  BY DEF DropReference
<1>4. /\ DiskType' /\ Homes' /\ OneLink' /\ GoodLinks' /\ \A i : Unlinked(i) => Unlinked(i)'
      /\ inode'[d] = inode[d]
  <2>1. CASE LastReference
    <3>1. inode' = [inode EXCEPT ![node] = FreeInode] /\ slots[node] = <<>>
      BY <2>1 DEF DropReference
    <3>2. slots' = [slots EXCEPT ![node] = <<>>]
      BY <1>2, <1>3, <3>1 DEF DirInv, DiskType
    <3>3. inode'[d] = inode[d]
      BY <1>2, <3>1 DEF DirInv, DiskType
    <3> QED
      BY <1>2, <3>1, <3>2, <3>3, InvFreed
  <2>2. CASE ~LastReference
    <3>1. UNCHANGED <<inode, slots>>
      BY <1>3, <2>2 DEF DropReference
    <3> QED
      BY <3>1, InvDisk
  <2> QED
    BY <2>1, <2>2
<1>5. Removing(d, n)'
  <2>1. Unlinked(node)'
    BY <1>2, <1>3, <1>4 DEF Unlinked
  <2> QED
    BY <1>1, <1>3, <2>1 DEF Removing
<1>6. RestType' /\ NoRoom' /\ Cores'
  BY <1>2, <1>3, <1>4 DEF DirInv, RestType, NoRoom, Cores
<1> QED
  BY <1>3, <1>4, <1>5, <1>6 DEF DirInv, Phases

LEMMA InvUncountEntry == ASSUME DirInv, UncountEntry PROVE DirInv'
<1>1. PICK d \in Inums, n \in Names : Removing(d, n)
  BY DEF UncountEntry, DirInv, Phases
<1>2. dir = d /\ d \in DOMAIN core \ {node}
  BY <1>1 DEF Removing, dir, call, Call
<1>3. core[d] \in InodeRecord /\ core[d].in_use /\ core[d].type = "dir"
  BY <1>2 DEF UncountEntry, DirInv, Cores
<1>4. CASE core[d].num_direntries = 0
  BY <1>2, <1>4, InvDisk, InvReturn DEF UncountEntry, DirInv, RestType
<1>5. CASE core[d].num_direntries # 0
  <2> DEFINE r == [core[d] EXCEPT !.num_direntries = @ - 1]
  <2>1. r \in InodeRecord /\ r.in_use /\ r.type = "dir" /\ inode[d].type = "dir"
    BY <1>2, <1>3, <1>5 DEF InodeRecord, UncountEntry, DirInv, Cores
  <2>2. inode' = [inode EXCEPT ![d] = r] /\ slots' = slots
    BY <1>2, <1>5 DEF UncountEntry
  <2> HIDE DEF r
  <2>3. Grown(d)
    BY <2>2, NotGrown DEF DirInv
  <2>4. DiskType' /\ Homes' /\ OneLink' /\ GoodLinks'
    BY <2>1, <2>2, <2>3, InvWritten
  <2> QED
    BY <2>4, InvReturn DEF UncountEntry, DirInv, RestType
<1> QED
  BY <1>4, <1>5

-----------------------------------------------------------------------------
(* namei_parent: the paths lead to directories only.                       *)
Further(before) ==
    before \union {i \in {Lookup(d, n) : d \in before, n \in Names} : IsDirectory(i)}

LEMMA ResolvedIs ==
    /\ Resolved[0] = {Root}
    /\ \A k \in 1 .. NumInodes : Resolved[k] = Further(Resolved[k - 1])
<1> DEFINE Good(n, g) == g = [k \in 0 .. n |-> IF k = 0 THEN {Root} ELSE Further(g[k - 1])]
           Bad == {n \in Nat : ~ \E g : Good(n, g)}
<1>1. ASSUME Bad # {} PROVE FALSE
  <2>1. PICK m \in Bad : \A k \in Bad : m <= k
    BY <1>1, LeastNat
  <2>2. m # 0
    <3>1. Good(0, [k \in 0 .. 0 |-> {Root}])
      OBVIOUS
    <3> QED
      BY <2>1, <3>1
  <2>3. PICK g : Good(m - 1, g)
    <3>1. m \in Nat /\ m - 1 \in Nat /\ m - 1 < m
      BY <2>1, <2>2
    <3> HIDE DEF Good
    <3>2. m - 1 \notin Bad
      BY <2>1, <3>1
    <3> QED
      BY <3>1, <3>2
  <2> DEFINE h == [k \in 0 .. m |-> IF k < m THEN g[k] ELSE Further(g[m - 1])]
  <2>4. ASSUME NEW k \in 0 .. m
        PROVE  h[k] = IF k = 0 THEN {Root} ELSE Further(h[k - 1])
    <3>1. m \in Nat /\ m - 1 \in Nat
      BY <2>2
    <3>2. CASE k = m
      BY <2>2, <3>1, <3>2
    <3>3. CASE k < m
      <4>1. g = [j \in 0 .. m - 1 |-> IF j = 0 THEN {Root} ELSE Further(g[j - 1])]
        BY <2>3
      <4>2. k \in 0 .. m - 1 /\ h[k] = g[k] /\ (k # 0 => h[k - 1] = g[k - 1])
        BY <3>1, <3>3
      <4>3. g[k] = IF k = 0 THEN {Root} ELSE Further(g[k - 1])
        BY <4>1, <4>2
      <4> HIDE DEF h
      <4> QED
        BY <4>2, <4>3
    <3> QED
      BY <3>1, <3>2, <3>3
  <2>5. Good(m, h)
    BY <2>4
  <2> QED
    BY <2>1, <2>5
<1>2. NumInodes \in Nat
  BY DirectoryAssumption
<1>3. \E g : Good(NumInodes, g)
  <2> HIDE DEF Good
  <2> QED
    BY <1>1, <1>2
<1> DEFINE R[k \in 0 .. NumInodes] == IF k = 0 THEN {Root} ELSE Further(R[k - 1])
<1>4. R = [k \in 0 .. NumInodes |-> IF k = 0 THEN {Root} ELSE Further(R[k - 1])]
  BY <1>3
<1>5. Resolved = R
  BY DEF Resolved, Further
<1> HIDE DEF R
<1>6. R[0] = {Root}
  BY <1>2, <1>4
<1>7. ASSUME NEW k \in 1 .. NumInodes PROVE R[k] = Further(R[k - 1])
  <2>1. k \in 0 .. NumInodes /\ k # 0
    BY <1>2
  <2> QED
    BY <1>4, <2>1
<1> QED
  BY <1>5, <1>6, <1>7

(* What holds the root and all that Dir_lookup finds from its members      *)
(* holds every directory that a path leads to.                             *)
LEMMA DirectoriesWithin ==
    ASSUME NEW S, Root \in S,
           \A d \in S, n \in Names : IsDirectory(Lookup(d, n)) => Lookup(d, n) \in S
    PROVE  Directories \subseteq S
<1> DEFINE Bad == {k \in 0 .. NumInodes : ~(Resolved[k] \subseteq S)}
<1>1. ASSUME Bad # {} PROVE FALSE
  <2>0. Bad \subseteq Nat
    BY DirectoryAssumption
  <2>1. PICK m \in Bad : \A k \in Bad : m <= k
    <3> HIDE DEF Bad
    <3> QED
      BY <1>1, <2>0, LeastNat
  <2>2. m # 0
    BY <2>1, ResolvedIs
  <2>3. m \in 1 .. NumInodes /\ m - 1 \in 0 .. NumInodes /\ m - 1 < m
    BY <2>1, <2>2, DirectoryAssumption
  <2>4. Resolved[m - 1] \subseteq S
    BY <2>1, <2>3
  <2>5. Resolved[m] = Further(Resolved[m - 1])
    BY <2>3, ResolvedIs
  <2>6. Further(Resolved[m - 1]) \subseteq S
    BY <2>4 DEF Further
  <2> QED
    BY <2>1, <2>5, <2>6
<1> QED
  BY <1>1, DirectoryAssumption DEF Directories

LEMMA DirectoriesAre == ASSUME DirInv PROVE \A d \in Directories : d \in Inums /\ IsDirectory(d)
<1> DEFINE S == {i \in Inums : IsDirectory(i)}
<1>1. Root \in S
  BY Constants DEF DirInv, Homes
<1>2. \A d \in S, n \in Names : IsDirectory(Lookup(d, n)) => Lookup(d, n) \in S
  BY DEF IsDirectory
<1>3. Directories \subseteq S
  BY <1>1, <1>2, DirectoriesWithin
<1> QED
  BY <1>3

LEMMA InvStep == ASSUME DirInv, [DirNext]_dirVars PROVE DirInv'
<1>1. CASE UNCHANGED dirVars
  BY <1>1, InvStutter
<1>2. ASSUME NEW d \in Directories, NEW n \in BaseNames, NEW kind \in {"file", "dir", "symlink"},
             NEW i \in Inums, Allocate(kind, d, n, i)
      PROVE  DirInv'
  BY <1>2, DirectoriesAre, InvAllocate
<1>3. ASSUME NEW d \in Directories, NEW n \in Names, NEW kind \in {"unlink", "rmdir"},
             RemoveEntry(kind, d, n)
      PROVE  DirInv'
  BY <1>3, DirectoriesAre, InvRemoveEntry
<1>4. ASSUME NEW d \in Directories, NEW n \in Names, CreateFails(d, n) PROVE DirInv'
  BY <1>4, InvStutter DEF CreateFails
<1>5. ASSUME NEW n \in BaseNames, SymlinkWithoutInode(n) PROVE DirInv'
  BY <1>5, InvSymlinkWithoutInode
<1>6. CASE Query
  BY <1>6, InvStutter DEF Query
<1> QED
  BY <1>1, <1>2, <1>3, <1>4, <1>5, <1>6, InvWriteSymlink, InvPop, InvGrow, InvAddFails,
     InvWriteEntry, InvCountEntry, InvWriteNode, InvUndo, InvReleaseBlock, InvDropReference,
     InvUncountEntry, InvCrash
     DEF DirNext

LEMMA Invariant == DirSpec => []DirInv
<1>1. DirInv /\ [DirNext]_dirVars => DirInv'
  BY InvStep
<1> QED
  BY <1>1, InvInit, PTL DEF DirSpec

-----------------------------------------------------------------------------
(* What DirInv says of the links                                           *)
LEMMA LinksAre ==
    ASSUME NEW l
    PROVE  l \in Links <=> \E d \in Inums : IsDirectory(d) /\ \E s \in Linking(d) :
                               l = Call(d, slots[d][s].name, slots[d][s].inum)
  BY DEF Links

(* Whatever operations run, and whatever a crash interrupts, the volume    *)
(* and the running operation keep their types.                             *)
THEOREM TypeCorrect == DirSpec => []DirTypeOK
<1>1. DirInv => DirTypeOK
  BY DEF DirInv, DiskType, RestType, DirTypeOK, Slot, InodeRecord
<1> QED
  BY <1>1, Invariant, PTL

(* No entry of a directory ever names an inode that is free.               *)
THEOREM NeverDangling == DirSpec => []NoDangling
<1>1. ASSUME DirInv, NEW l \in Links PROVE inode[l.inum].in_use
  <2>1. PICK d \in Inums : \E s \in Linking(d) : l = Call(d, slots[d][s].name, slots[d][s].inum)
    BY LinksAre
  <2>2. PICK s \in Linking(d) : l = Call(d, slots[d][s].name, slots[d][s].inum)
    BY <2>1
  <2>3. l.inum = slots[d][s].inum
    BY <2>2 DEF Call
  <2> QED
    BY <1>1, <2>3 DEF DirInv, GoodLinks
<1>2. DirInv => NoDangling
  BY <1>1 DEF NoDangling
<1> QED
  BY <1>2, Invariant, PTL

(* No inode ever has two names, in one directory or in two.                *)
THEOREM OneNameEach == DirSpec => []NamedOnce
<1>1. ASSUME DirInv, NEW l \in Links, NEW m \in Links, l.inum = m.inum PROVE l = m
  <2>1. PICK d \in Inums : \E s \in Linking(d) : l = Call(d, slots[d][s].name, slots[d][s].inum)
    BY LinksAre
  <2>2. PICK e \in Inums : \E t \in Linking(e) : m = Call(e, slots[e][t].name, slots[e][t].inum)
    BY LinksAre
  <2>3. PICK s \in Linking(d) : l = Call(d, slots[d][s].name, slots[d][s].inum)
    BY <2>1
  <2>4. PICK t \in Linking(e) : m = Call(e, slots[e][t].name, slots[e][t].inum)
    BY <2>2
  <2>5. slots[d][s].inum = slots[e][t].inum
    BY <1>1, <2>3, <2>4 DEF Call
  <2>6. d = e /\ s = t
    BY <1>1, <2>5 DEF DirInv, OneLink
  <2> QED
    BY <2>3, <2>4, <2>6
<1>2. ASSUME DirInv, NEW d \in InUse, NEW s \in Linking(d), NEW t \in Linking(d),
             slots[d][s] = slots[d][t]
      PROVE  s = t
  BY <1>2 DEF InUse, DirInv, OneLink
<1>3. DirInv => NamedOnce
  BY <1>1, <1>2 DEF NamedOnce
<1> QED
  BY <1>3, Invariant, PTL

(* Whatever crashed while it was made, a directory that has a name begins  *)
(* with itself and its parent.                                             *)
THEOREM DotsFirst == DirSpec => []DotsRight
<1>1. ASSUME DirInv, NEW l \in Links, IsDirectory(l.inum)
      PROVE  /\ Len(slots[l.inum]) >= 2
             /\ slots[l.inum][1] = Entry(".", l.inum)
             /\ slots[l.inum][2] = Entry("..", l.dir)
  <2>1. PICK d \in Inums : \E s \in Linking(d) : l = Call(d, slots[d][s].name, slots[d][s].inum)
    BY LinksAre
  <2>2. PICK s \in Linking(d) : l = Call(d, slots[d][s].name, slots[d][s].inum)
    BY <2>1
  <2>3. l.inum = slots[d][s].inum /\ l.dir = d
    BY <2>2 DEF Call
  <2>4. Dotted(l.inum, d)
    BY <1>1, <2>3 DEF DirInv, GoodLinks, IsDirectory
  <2> QED
    BY <2>3, <2>4 DEF Dotted
<1>2. DirInv => DotsRight
  BY <1>1 DEF DotsRight
<1> QED
  BY <1>2, Invariant, PTL

-----------------------------------------------------------------------------
(* The data blocks                                                         *)
LEMMA Shifted ==
    ASSUME NEW a \in Nat, NEW q \in Nat, NEW b \in Nat, b > 0
    PROVE  (a + q * b) \div b = a \div b + q
<1> DEFINE c == a \div b
           r == a % b
<1>1. c \in Nat /\ r \in Nat /\ r < b /\ a = c * b + r
  BY Division
<1> HIDE DEF c, r
<1>2. a + q * b = (c + q) * b + r /\ c + q \in Nat
  BY <1>1
<1>3. ((c + q) * b + r) \div b = c + q
  BY <1>1, <1>2, DivisionUnique
<1> QED
  BY <1>2, <1>3 DEF c

Lengths == [i \in Inums |-> Len(slots[i])]
Blocks == SumFunction(Lengths) \div EntriesPerBlock

LEMMA LengthsType ==
    /\ IsFiniteSet(Inums)
    /\ DiskType => Lengths \in [Inums -> Nat] /\ SumFunction(Lengths) \in Nat
<1>1. IsFiniteSet(Inums)
  BY DirectoryAssumption, FS_Interval DEF Inums
<1>2. DiskType => Lengths \in [Inums -> Nat]
  BY SlotsType DEF Lengths
<1> QED
  BY <1>1, <1>2, SumNat

LEMMA LengthsSame ==
    ASSUME \A i \in Inums : Len(slots'[i]) = Len(slots[i])
    PROVE  Lengths' = Lengths
  BY DEF Lengths

(* One inode's data is q blocks shorter or longer.                         *)
LEMMA BlocksMoved ==
    ASSUME DiskType, DiskType', NEW x \in Inums, NEW q \in Nat,
           \A y \in Inums : y # x => slots'[y] = slots[y]
    PROVE  /\ Len(slots'[x]) = Len(slots[x]) + q * EntriesPerBlock => Blocks' = Blocks + q
           /\ Len(slots[x]) = Len(slots'[x]) + q * EntriesPerBlock => Blocks = Blocks' + q
<1> DEFINE old == SumFunction(Lengths)
           new == SumFunction(Lengths')
           w == q * EntriesPerBlock
<1>1. Lengths \in [Inums -> Nat] /\ old \in Nat
  BY LengthsType
<1>2. Lengths' \in [Inums -> Nat] /\ new \in Nat
  <2>1. ASSUME NEW i \in Inums PROVE Len(slots'[i]) \in Nat
    BY DEF DiskType
  <2>2. Lengths' \in [Inums -> Nat]
    BY <2>1 DEF Lengths
  <2> QED
    BY <2>2, LengthsType, SumNat
<1>3. Lengths[x] = Len(slots[x]) /\ Lengths'[x] = Len(slots'[x])
      /\ \A y \in Inums : y # x => Lengths'[y] = Lengths[y]
  BY DEF Lengths
<1>4. new + Len(slots[x]) = old + Len(slots'[x])
  <2> DEFINE F == Lengths
             G == Lengths'
  <2>1. IsFiniteSet(Inums) /\ F \in [Inums -> Nat] /\ G \in [Inums -> Nat]
        /\ \A y \in Inums : y # x => G[y] = F[y]
    BY <1>1, <1>2, <1>3, LengthsType
  <2> HIDE DEF F, G
  <2>2. SumFunction(G) + F[x] = SumFunction(F) + G[x]
    BY <2>1, SumChange
  <2> QED
    BY <1>3, <2>2 DEF F, G
<1>5. Len(slots[x]) \in Nat /\ Len(slots'[x]) \in Nat /\ w \in Nat
      /\ EntriesPerBlock \in Nat /\ EntriesPerBlock > 0
  BY <1>1, <1>2, <1>3, Constants
<1>6. ASSUME Len(slots'[x]) = Len(slots[x]) + w PROVE Blocks' = Blocks + q
  <2>1. new = old + w
    <3> DEFINE k == Len(slots[x])
               l == Len(slots'[x])
    <3>1. /\ old \in Nat /\ new \in Nat /\ k \in Nat /\ l \in Nat /\ w \in Nat
          /\ new + k = old + l /\ l = k + w
      BY <1>1, <1>2, <1>4, <1>5, <1>6
    <3> HIDE DEF old, new, w, k, l
    <3> QED
      BY <3>1
  <2>2. (old + q * EntriesPerBlock) \div EntriesPerBlock = old \div EntriesPerBlock + q
    BY <1>1, <1>5, Shifted
  <2> QED
    BY <2>1, <2>2 DEF Blocks
<1>7. ASSUME Len(slots[x]) = Len(slots'[x]) + w PROVE Blocks = Blocks' + q
  <2>1. old = new + w
    <3> DEFINE k == Len(slots[x])
               l == Len(slots'[x])
    <3>1. /\ old \in Nat /\ new \in Nat /\ k \in Nat /\ l \in Nat /\ w \in Nat
          /\ new + k = old + l /\ k = l + w
      BY <1>1, <1>2, <1>4, <1>5, <1>7
    <3> HIDE DEF old, new, w, k, l
    <3> QED
      BY <3>1
  <2>2. (new + q * EntriesPerBlock) \div EntriesPerBlock = new \div EntriesPerBlock + q
    BY <1>2, <1>5, Shifted
  <2> QED
    BY <2>1, <2>2 DEF Blocks
<1> QED
  BY <1>6, <1>7

LEMMA HeldIs == BlocksHeld = spare + popped + Blocks
  BY DEF BlocksHeld, Blocks, Lengths
LEMMA HeldIsNext == BlocksHeld' = spare' + popped' + Blocks'
  BY DEF BlocksHeld, Blocks, Lengths

LEMMA BlocksSame ==
    ASSUME \A i \in Inums : Len(slots'[i]) = Len(slots[i])
    PROVE  Blocks' = Blocks
  BY LengthsSame DEF Blocks

LEMMA HeldSame ==
    ASSUME \A i \in Inums : Len(slots'[i]) = Len(slots[i]), spare' = spare, popped' = popped
    PROVE  BlocksHeld' = BlocksHeld
  BY BlocksSame, HeldIs, HeldIsNext

(* What is popped is for the entry that is being added.                    *)
LEMMA NothingPopped == ASSUME DirInv PROVE pc # "add" => popped = 0
  BY DEF DirInv, RestType, NoRoom

LEMMA BlocksNat == DiskType => Blocks \in Nat
<1> DEFINE sum == SumFunction(Lengths)
<1>1. /\ EntriesPerBlock \in Nat /\ EntriesPerBlock > 0
      /\ DiskType => sum \in Nat
  BY LengthsType, Constants
<1> HIDE DEF sum
<1>2. DiskType => sum \div EntriesPerBlock \in Nat
  BY <1>1, Division, Zenon
<1> QED
  BY <1>2 DEF Blocks, sum

LEMMA SameLength ==
    ASSUME NEW q \in Seq(Slot), NEW f, NEW e
    PROVE  Len([q EXCEPT ![f] = e]) = Len(q)
<1> DEFINE T == Slot \union {e}
           new == [q EXCEPT ![f] = e]
<1>1. Len(q) \in Nat /\ q \in [1 .. Len(q) -> Slot]
  OBVIOUS
<1>2. new \in [1 .. Len(q) -> T]
  BY <1>1
<1> HIDE DEF new, T
<1> QED
  BY <1>1, <1>2 DEF new

(* A slot is written: no directory gets longer.                            *)
LEMMA SlotKeepsLengths ==
    ASSUME DiskType, NEW x, NEW f, NEW e, slots' = [slots EXCEPT ![x][f] = e]
    PROVE  \A i \in Inums : Len(slots'[i]) = Len(slots[i])
<1> SUFFICES ASSUME NEW i \in Inums PROVE Len(slots'[i]) = Len(slots[i])
  OBVIOUS
<1>1. slots[i] \in Seq(Slot)
  BY DEF DiskType
<1>2. slots'[i] = IF i = x THEN [slots[i] EXCEPT ![f] = e] ELSE slots[i]
  BY DEF DiskType
<1> QED
  BY <1>1, <1>2, SameLength

LEMMA HeldPop == ASSUME DirInv, Pop PROVE BlocksHeld' = BlocksHeld
<1>1. Blocks' = Blocks /\ Blocks \in Nat
  BY BlocksSame, BlocksNat DEF Pop, DirInv
<1>2. spare' = spare - 1 /\ popped = 0 /\ popped' = 1 /\ spare \in Nat
  BY DEF Pop, DirInv, RestType
<1> QED
  BY <1>1, <1>2, HeldIs, HeldIsNext

LEMMA HeldGrow == ASSUME DirInv, Grow, DiskType' PROVE BlocksHeld' = BlocksHeld
<1>0. PICK x \in Inums : x = dir
  BY Adding DEF Grow
<1>2. slots' = [slots EXCEPT ![x] = slots[x] \o EmptyBlock] /\ spare' = spare
      /\ spare \in Nat /\ popped = 1 /\ popped' = 0
  BY <1>0 DEF Grow, DirInv, RestType
<1>3. Len(slots[x] \o EmptyBlock) = Len(slots[x]) + EntriesPerBlock
  BY AppendedBlock, SlotsType DEF DirInv
<1>4. \A y \in Inums : slots'[y] = IF y = x THEN slots[x] \o EmptyBlock ELSE slots[y]
  BY <1>2 DEF DirInv, DiskType
<1>5. Blocks' = Blocks + 1
  <2>1. 1 * EntriesPerBlock = EntriesPerBlock
    BY Constants
  <2>2. Len(slots'[x]) = Len(slots[x]) + 1 * EntriesPerBlock
        /\ \A y \in Inums : y # x => slots'[y] = slots[y]
    BY <1>3, <1>4, <2>1
  <2>3. DiskType
    BY DEF DirInv
  <2> QED
    BY <2>2, <2>3, BlocksMoved
<1>6. Blocks \in Nat
  BY BlocksNat DEF DirInv
<1> QED
  BY <1>2, <1>5, <1>6, HeldIs, HeldIsNext

LEMMA HeldRelease == ASSUME DirInv, DirInv', ReleaseBlock PROVE BlocksHeld' = BlocksHeld
<1>0. PICK x \in Inums : x = node
  BY DEF ReleaseBlock, LastReference, DirInv, Phases, Removing
<1>1. /\ slots[x] # <<>> /\ slots' = [slots EXCEPT ![x] = AllButFirst(slots[x])]
      /\ spare' = spare + 1 /\ spare \in Nat
      /\ popped = 0 /\ popped' = 0
  BY <1>0, NothingPopped DEF ReleaseBlock, LastReference, DirInv, RestType
<1>2. /\ \A y \in Inums : y # x => slots'[y] = slots[y]
      /\ Len(slots'[x]) = Len(slots[x]) - EntriesPerBlock
  BY <1>1, Released DEF DirInv
<1>3. Blocks = Blocks' + 1
  <2>1. DiskType /\ DiskType'
    BY DEF DirInv
  <2>2. Len(slots[x]) = Len(slots'[x]) + 1 * EntriesPerBlock
    <3>1. Len(slots[x]) \in Nat /\ EntriesPerBlock \in Nat
      BY <2>1, SlotsType, Constants
    <3>2. 1 * EntriesPerBlock = EntriesPerBlock
      BY <3>1
    <3>3. Len(slots[x]) = Len(slots'[x]) + EntriesPerBlock
      BY <1>2, <3>1
    <3> QED
      BY <3>2, <3>3
  <2> QED
    BY <1>2, <2>1, <2>2, BlocksMoved
<1>4. Blocks \in Nat /\ Blocks' \in Nat
  <2>1. (DiskType => Blocks \in Nat)'
    BY BlocksNat, PTL
  <2> QED
    BY <2>1, BlocksNat DEF DirInv
<1> QED
  BY <1>1, <1>3, <1>4, HeldIs, HeldIsNext

(* The data of an inode is given back, and to whom: all its blocks.        *)
LEMMA HeldEmptied ==
    ASSUME DirInv, DiskType', NEW x \in Inums, slots' = [slots EXCEPT ![x] = <<>>]
    PROVE  /\ Blocks = Blocks' + Len(slots[x]) \div EntriesPerBlock
           /\ Blocks \in Nat /\ Blocks' \in Nat /\ Len(slots[x]) \div EntriesPerBlock \in Nat
<1> DEFINE n == Len(slots[x])
           q == n \div EntriesPerBlock
<1>1. n \in Nat /\ n % EntriesPerBlock = 0 /\ EntriesPerBlock \in Nat /\ EntriesPerBlock > 0
  BY SlotsType, Constants DEF DirInv, DiskType
<1>2. q \in Nat /\ n = q * EntriesPerBlock + 0
  <2> HIDE DEF n
  <2> QED
    BY <1>1, Division
<1>3. \A y \in Inums : slots'[y] = IF y = x THEN <<>> ELSE slots[y]
  BY DEF DirInv, DiskType
<1>4. Len(slots'[x]) = 0 /\ Len(slots[x]) = n /\ \A y \in Inums : y # x => slots'[y] = slots[y]
  BY <1>3
<1>5. DiskType
  BY DEF DirInv
<1> HIDE DEF q, n
<1>6. Len(slots[x]) = Len(slots'[x]) + q * EntriesPerBlock
  <2> DEFINE w == q * EntriesPerBlock
  <2>1. w \in Nat /\ n = w + 0
    BY <1>1, <1>2
  <2> HIDE DEF w
  <2>2. n = 0 + w
    BY <2>1
  <2> QED
    BY <1>4, <2>2 DEF w
<1>7. Blocks = Blocks' + q
  BY <1>2, <1>4, <1>5, <1>6, BlocksMoved
<1>8. Blocks \in Nat
  BY <1>1, <1>5, LengthsType, Division DEF Blocks
<1>9. Blocks' \in Nat
  <2>1. ASSUME NEW i \in Inums PROVE Len(slots'[i]) \in Nat
    BY DEF DiskType
  <2>2. Lengths' \in [Inums -> Nat]
    BY <2>1 DEF Lengths
  <2>3. SumFunction(Lengths') \in Nat
    BY <2>2, LengthsType, SumNat
  <2> QED
    BY <1>1, <2>3, Division DEF Blocks
<1> QED
  BY <1>2, <1>7, <1>8, <1>9 DEF n, q

LEMMA HeldUndo ==
    ASSUME DirInv, Undo, DiskType'
    PROVE  \/ BlocksHeld' = BlocksHeld
           \/ pc = "undo" /\ core[node].type = "dir" /\ BlocksHeld' = BlocksHeld - 1
<1>1. PICK d \in Inums, n \in BaseNames : Making(d, n)
  BY DEF Undo, DirInv, Phases, NoNode
<1>2. pc = "undo" /\ spare' = spare /\ slots' = [slots EXCEPT ![node] = <<>>] /\ node \in Inums
      /\ spare \in Nat /\ popped = 0 /\ popped' = 0
  BY <1>1, NothingPopped DEF Undo, Return, Making, DirInv, RestType
<1>3. /\ Blocks = Blocks' + Len(slots[node]) \div EntriesPerBlock
      /\ Blocks \in Nat /\ Blocks' \in Nat
  BY <1>2, HeldEmptied
<1>4. BlocksHeld = spare + Blocks /\ BlocksHeld' = spare' + Blocks'
  BY <1>2, <1>3, HeldIs, HeldIsNext
<1>5. 0 \div EntriesPerBlock = 0 /\ EntriesPerBlock \div EntriesPerBlock = 1
  <2>1. EntriesPerBlock \in Nat /\ EntriesPerBlock > 0
    BY Constants
  <2>2. (0 * EntriesPerBlock) \div EntriesPerBlock = 0 /\ (1 * EntriesPerBlock) \div EntriesPerBlock = 1
    BY <2>1, Multiple
  <2> QED
    BY <2>1, <2>2
<1>6. CASE slots[node] = <<>>
  <2>1. Len(slots[node]) = 0
    BY <1>6
  <2> QED
    BY <1>2, <1>3, <1>4, <1>5, <2>1
<1>7. CASE slots[node] # <<>>
  <2>1. core[node].type = "dir" /\ Len(calls) \in 1 .. 3 /\ Left \in Nat
    BY <1>1, <1>2, <1>7 DEF Making, Left
  <2>2. slots[node] \in Begun(node, d, Left)
    BY <1>1, <2>1 DEF Making
  <2>3. Len(slots[node]) = EntriesPerBlock
    BY <1>7, <2>1, <2>2, EmptyBlockType, Constants DEF Begun, DotBlock
  <2> QED
    BY <1>2, <1>3, <1>4, <1>5, <2>1, <2>3
<1> QED
  BY <1>6, <1>7

LEMMA HeldCrash ==
    ASSUME DirInv, Crash
    PROVE  crashes' = crashes + 1 /\ BlocksHeld' = BlocksHeld - popped
<1>1. Blocks' = Blocks /\ Blocks \in Nat
  BY BlocksSame, BlocksNat DEF Crash, DirInv
<1>2. spare' = spare /\ popped' = 0 /\ popped \in {0, 1} /\ spare \in Nat /\ crashes' = crashes + 1
  BY DEF Crash, Return, DirInv, RestType
<1> QED
  BY <1>1, <1>2, HeldIs, HeldIsNext

LEMMA HeldUnchanged ==
    ASSUME UNCHANGED <<slots, spare, popped>>
    PROVE  BlocksHeld' = BlocksHeld
  BY HeldSame

(* No step loses a data block but two: a crash loses what is popped and    *)
(* not yet in an inode, and the undoing of a mkdir the directory's block.  *)
THEOREM NoBlockLost == DirSpec => BlocksConserved
<1> DEFINE Kept == \/ BlocksHeld' = BlocksHeld
                   \/ crashes' = crashes + 1 /\ BlocksHeld' = BlocksHeld - popped
                   \/ pc = "undo" /\ core[node].type = "dir" /\ BlocksHeld' = BlocksHeld - 1
<1>1. ASSUME DirInv, DirInv', DirNext PROVE Kept
  <2>1. DiskType /\ DiskType'
    BY <1>1 DEF DirInv
  <2>2. ASSUME NEW d \in Directories, NEW n \in Names, NEW kind \in {"unlink", "rmdir"},
               RemoveEntry(kind, d, n)
        PROVE  Kept
    <3>1. slots' = [slots EXCEPT ![d][FirstSlot(SlotsNamed(d, n))] = Hole] /\ spare' = spare
          /\ popped' = popped
      BY <2>2 DEF RemoveEntry
    <3> QED
      BY <2>1, <3>1, SlotKeepsLengths, HeldSame
  <2>3. CASE WriteEntry
    <3>1. slots' = [slots EXCEPT ![dir][FirstSlot(Holes(dir))] = Entry(call.name, call.inum)]
          /\ spare' = spare /\ popped' = popped
      BY <2>3 DEF WriteEntry
    <3> QED
      BY <2>1, <3>1, SlotKeepsLengths, HeldSame
  <2>4. CASE UNCHANGED <<slots, spare, popped>>
    BY <2>4, HeldUnchanged
  <2>5. CASE \/ \E kind \in {"file", "dir", "symlink"}, d \in Directories, n \in BaseNames, i \in Inums :
                    Allocate(kind, d, n, i)
             \/ \E d \in Directories, n \in Names : CreateFails(d, n)
    BY <2>4, <2>5 DEF Allocate, CreateFails, dirVars
  <2>6. CASE \E n \in BaseNames : SymlinkWithoutInode(n)
    BY <2>4, <2>6 DEF SymlinkWithoutInode
  <2>7. CASE Query \/ WriteSymlink \/ DropReference
    BY <2>4, <2>7, Zenon DEF Query, WriteSymlink, DropReference, dirVars
  <2>8. CASE AddFails \/ CountEntry \/ WriteNode \/ UncountEntry
    <3>1. popped = 0
      BY <1>1, <2>8, NothingPopped DEF AddFails, CountEntry, WriteNode, UncountEntry
    <3>2. UNCHANGED <<slots, spare>> /\ (popped' = popped \/ Return)
      <4>1. ASSUME AddFails PROVE UNCHANGED <<slots, spare>> /\ (popped' = popped \/ Return)
        <5>1. UNCHANGED <<slots, spare>>
          BY <4>1 DEF AddFails
        <5>2. CASE IsSymlink
          BY <4>1, <5>1, <5>2 DEF AddFails
        <5>3. CASE ~IsSymlink
          BY <4>1, <5>1, <5>3, Zenon DEF AddFails
        <5> QED
          BY <5>2, <5>3
      <4>2. CountEntry => UNCHANGED <<slots, spare>> /\ (popped' = popped \/ Return)
        BY DEF CountEntry
      <4>3. WriteNode \/ UncountEntry => UNCHANGED <<slots, spare>> /\ Return
        BY DEF WriteNode, UncountEntry
      <4> QED
        BY <2>8, <4>1, <4>2, <4>3
    <3>3. popped' = popped
      BY <3>1, <3>2 DEF Return
    <3> QED
      BY <2>4, <3>2, <3>3
  <2>9. CASE Undo
    BY <1>1, <2>1, <2>9, HeldUndo
  <2>10. CASE Pop \/ Grow \/ ReleaseBlock \/ Crash
    BY <1>1, <2>1, <2>10, HeldPop, HeldGrow, HeldRelease, HeldCrash
  <2> QED
    BY <1>1, <2>2, <2>3, <2>5, <2>6, <2>7, <2>8, <2>9, <2>10 DEF DirNext
<1>2. DirInv /\ DirInv' /\ [DirNext]_dirVars => [Kept]_dirVars
  BY <1>1
<1> QED
  BY <1>2, Invariant, PTL DEF DirSpec, BlocksConserved

-----------------------------------------------------------------------------
(* The links                                                               *)
Creating == pc \in {"symlink", "add", "count", "undo"}

LEMMA LinksFrom ==
    DirInv => \A l : l \in Links <=>
        \E d \in Inums : \E s \in Linking(d) : l = Call(d, slots[d][s].name, slots[d][s].inum)
<1> SUFFICES ASSUME DirInv, NEW l
             PROVE  l \in Links <=> \E d \in Inums : \E s \in Linking(d) :
                                        l = Call(d, slots[d][s].name, slots[d][s].inum)
  OBVIOUS
<1>1. ASSUME NEW d \in Inums, NEW s \in Linking(d) PROVE IsDirectory(d)
  <2>1. slots[d] # <<>>
    BY DEF Linking
  <2> QED
    BY <2>1 DEF DirInv, Homes, IsDirectory
<1> QED
  BY <1>1, LinksAre

LEMMA LinksFromNext ==
    DirInv' => (\A l : l \in Links <=>
        \E d \in Inums : \E s \in Linking(d) : l = Call(d, slots[d][s].name, slots[d][s].inum))'
  BY LinksFrom, PTL

(* The links of every directory stay in their slots.                       *)
LinkingSame ==
    \A d \in Inums : Linking(d)' = Linking(d) /\ \A s \in Linking(d) : slots'[d][s] = slots[d][s]

LEMMA LinksKept ==
    ASSUME DirInv, DirInv',
           \A d \in Inums : /\ Linking(d)' = Linking(d)
                            /\ \A s \in Linking(d) : slots'[d][s] = slots[d][s]
    PROVE  Links' = Links
<1>1. \A l : l \in Links' <=> \E d \in Inums : \E s \in Linking(d)' :
                              l = Call(d, slots'[d][s].name, slots'[d][s].inum)
  BY LinksFromNext
<1>2. ASSUME NEW l PROVE l \in Links' <=> l \in Links
  BY <1>1, LinksFrom
<1> QED
  BY <1>2

LEMMA SlotsKept ==
    ASSUME DirInv, DirInv', slots' = slots
    PROVE  Links' = Links /\ Attached' = Attached /\ \A d \in Inums : Linking(d)' = Linking(d)
<1>1. \A d \in Inums : Linking(d)' = Linking(d) /\ \A s \in Linking(d) : slots'[d][s] = slots[d][s]
  BY DEF Linking
<1>2. Links' = Links
  BY <1>1, LinksKept
<1> QED
  BY <1>1, <1>2 DEF Attached

LEMMA UnlinkedAre == ASSUME DirInv, NEW i, Unlinked(i), i # Root PROVE i \notin Attached
<1>1. ASSUME NEW l \in Links PROVE l.inum # i
  <2>1. PICK d \in Inums : \E s \in Linking(d) : l = Call(d, slots[d][s].name, slots[d][s].inum)
    BY LinksFrom
  <2> QED
    BY <2>1 DEF Call, Unlinked
<1> QED
  BY <1>1 DEF Attached

(* A path leads to what hangs on the root.                                 *)
LEMMA DirectoriesAttached == ASSUME DirInv PROVE Directories \subseteq Attached
<1> DEFINE S == {i \in Inums : IsDirectory(i) /\ i \in Attached}
<1>1. Root \in S
  BY Constants DEF DirInv, Homes, Attached
<1>2. ASSUME NEW d \in S, NEW n \in Names, IsDirectory(Lookup(d, n))
      PROVE  Lookup(d, n) \in S
  <2>1. Lookup(d, n) # Missing /\ Lookup(d, n) \in Inums
    BY <1>2, Constants DEF IsDirectory
  <2>2. PICK f : f \in Linking(d) /\ slots[d][f].inum = Lookup(d, n)
    BY <2>1, LookupIs DEF DirInv
  <2>3. Call(d, slots[d][f].name, slots[d][f].inum) \in Links
    BY <2>2, LinksFrom
  <2>4. Lookup(d, n) \in Attached
    BY <2>2, <2>3 DEF Attached, Call
  <2> QED
    BY <1>2, <2>1, <2>4
<1>3. Directories \subseteq S
  <2> HIDE DEF S
  <2> QED
    BY <1>1, <1>2, DirectoriesWithin
<1> QED
  BY <1>3

LEMMA SlotsLinking == ASSUME slots' = slots PROVE LinkingSame
  BY DEF LinkingSame, Linking

LEMMA GrowLinks == ASSUME DirInv, Grow PROVE LinkingSame
<1>1. dir \in Inums
  BY Adding DEF Grow
<1>2. /\ pc = "add" /\ pc' = "add" /\ calls' = calls /\ node' = node
      /\ slots' = [slots EXCEPT ![dir] = slots[dir] \o EmptyBlock]
  BY DEF Grow
<1>3. \A x \in Inums : slots'[x] = IF x = dir THEN slots[dir] \o EmptyBlock ELSE slots[x]
  BY <1>2 DEF DirInv, DiskType
<1>4. ASSUME NEW x \in Inums, x # dir
      PROVE  Linking(x)' = Linking(x) /\ \A s \in Linking(x) : slots'[x][s] = slots[x][s]
  BY <1>3, <1>4 DEF Linking
<1>5. Linking(dir)' = Linking(dir) /\ \A s \in Linking(dir) : slots'[dir][s] = slots[dir][s]
  <2> DEFINE new == slots[dir] \o EmptyBlock
  <2>1. /\ new \in Seq(Slot)
        /\ Len(new) = Len(slots[dir]) + EntriesPerBlock
        /\ \A s \in 1 .. Len(slots[dir]) : new[s] = slots[dir][s]
        /\ \A s \in 1 .. Len(slots[dir]) + EntriesPerBlock : s > Len(slots[dir]) => new[s] = Hole
    BY <1>1, AppendedBlock, SlotsType DEF DirInv
  <2>2. slots'[dir] = new
    BY <1>1, <1>3
  <2> HIDE DEF new
  <2>3. /\ DOMAIN slots[dir] = 1 .. Len(slots[dir]) /\ Len(slots[dir]) \in Nat
        /\ DOMAIN slots'[dir] = 1 .. Len(slots[dir]) + EntriesPerBlock
    BY <1>1, <2>1, <2>2, SlotsType DEF DirInv
  <2>4. \A s \in DOMAIN slots[dir] : s \in DOMAIN slots'[dir] /\ slots'[dir][s] = slots[dir][s]
    BY <2>1, <2>2, <2>3, Constants
  <2>5. \A s \in DOMAIN slots'[dir] : s \notin DOMAIN slots[dir] => slots'[dir][s].name \notin Names
    BY <2>1, <2>2, <2>3, HoleType, Constants
  <2>6. Linking(dir)' = {s \in DOMAIN slots'[dir] : slots'[dir][s] \in [name : Names, inum : Inums]}
    <3>1. dir' = dir
      BY <1>2 DEF dir, call
    <3> QED
      BY <3>1 DEF Linking
  <2>7. Linking(dir) = {s \in DOMAIN slots[dir] : slots[dir][s] \in [name : Names, inum : Inums]}
    BY DEF Linking
  <2> QED
    BY <2>4, <2>5, <2>6, <2>7
<1>6. dir' = dir
  BY <1>2 DEF dir, call
<1> QED
  BY <1>4, <1>5, <1>6 DEF LinkingSame

(* What nothing names is not named after the step either.                  *)
Unnamed == \A i \in Inums : Unlinked(i) => Unlinked(i)'

LEMMA UnlinkedSame == ASSUME LinkingSame PROVE \A i : Unlinked(i)' <=> Unlinked(i)
  BY DEF LinkingSame, Unlinked

LEMMA SlotsUnnamed == ASSUME slots' = slots PROVE Unnamed
  BY DEF Unnamed, Unlinked, Linking

-----------------------------------------------------------------------------
(* The counts of entries                                                   *)

(* The number of entries that the inode of d will give when the operation  *)
(* has ended, and by how much it is off.  A directory that has lost its    *)
(* name may be half released, and is out of the count for good.            *)
Dist(m, n) == IF m >= n THEN m - n ELSE n - m
Pred(n) == IF n = 0 THEN 0 ELSE n - 1
NumOf(d) ==
    IF pc = "count" /\ d = dir THEN inode[d].num_direntries + 1
    ELSE IF pc \in {"drop", "uncount"} /\ d = dir THEN Pred(inode[d].num_direntries)
    ELSE inode[d].num_direntries
Counted(d) == d = Root \/ ~Unlinked(d) \/ (d = node /\ Creating)
OffOf(d) == IF IsDirectory(d) /\ Counted(d)
            THEN Dist(Cardinality(EntriesOf(d)), NumOf(d)) ELSE 0
Offs == [d \in Inums |-> OffOf(d)]

CoreCounts ==
    /\ \A i \in Inums : inode[i].type # "dir" => inode[i].num_direntries = 0
    /\ pc # "idle" => \A x \in DOMAIN core :
           core[x].num_direntries = inode[x].num_direntries + IF pc = "count" /\ x = dir THEN 1 ELSE 0
RootFull == crashes = 0 => Cardinality(EntriesOf(Root)) <= NumOf(Root)
OffsSmall ==
    /\ SumFunction(Offs) <= crashes + nameless
    /\ \A d \in Inums \ {Root} : OffOf(d) <= crashes
    /\ RootFull
CountInv == CoreCounts /\ OffsSmall

LEMMA EntriesType ==
    ASSUME DiskType, NEW d \in Inums
    PROVE  /\ EntriesOf(d) \subseteq 1 .. Len(slots[d]) /\ IsFiniteSet(EntriesOf(d))
           /\ Cardinality(EntriesOf(d)) \in Nat
           /\ \A s \in 1 .. Len(slots[d]) : s \in EntriesOf(d) <=> slots[d][s].name # NoName
<1>1. DOMAIN slots[d] = 1 .. Len(slots[d]) /\ Len(slots[d]) \in Nat
  BY SlotsType
<1>2. EntriesOf(d) \subseteq 1 .. Len(slots[d])
  BY <1>1 DEF EntriesOf
<1>3. IsFiniteSet(EntriesOf(d))
  <2>1. IsFiniteSet(1 .. Len(slots[d]))
    BY <1>1, FS_Interval
  <2> QED
    BY <1>2, <2>1, FS_Subset
<1> QED
  BY <1>1, <1>2, <1>3, FS_CardinalityType DEF EntriesOf

LEMMA OffsType ==
    ASSUME DiskType
    PROVE  Offs \in [Inums -> Nat] /\ SumFunction(Offs) \in Nat
           /\ \A d \in Inums : NumOf(d) \in Nat /\ inode[d].num_direntries \in Nat
<1>1. ASSUME NEW d \in Inums
      PROVE  NumOf(d) \in Nat /\ inode[d].num_direntries \in Nat /\ OffOf(d) \in Nat
  <2>1. inode[d].num_direntries \in Nat
    BY DEF DiskType, InodeRecord
  <2>2. NumOf(d) \in Nat
    BY <2>1 DEF NumOf, Pred
  <2> QED
    BY <2>1, <2>2, EntriesType DEF OffOf, Dist
<1>2. Offs \in [Inums -> Nat]
  BY <1>1 DEF Offs
<1> QED
  BY <1>1, <1>2, LengthsType, SumNat

LEMMA OffNat == DirInv => \A i \in Inums : OffOf(i) \in Nat
<1>1. ASSUME DirInv PROVE \A i \in Inums : OffOf(i) \in Nat
  <2>1. \A i \in Inums : OffOf(i) = Offs[i] /\ Offs[i] \in Nat
    BY <1>1, OffsType DEF Offs, DirInv
  <2> QED
    BY <2>1
<1> QED
  BY <1>1

LEMMA OffNatNext == DirInv' => (\A i \in Inums : OffOf(i) \in Nat)'
  BY OffNat, PTL

(* A step that changes how far off one directory's count is.               *)
LEMMA OffsMoved ==
    ASSUME DiskType, DiskType', NEW x \in Inums, NEW k \in Nat, NEW c \in Nat,
           SumFunction(Offs) <= c,
           \A d \in Inums : d # x => OffOf(d)' <= OffOf(d),
           OffOf(x)' <= OffOf(x) + k
    PROVE  SumFunction(Offs)' <= c + k
<1> DEFINE F == Offs
           G == Offs'
<1>1. F \in [Inums -> Nat] /\ SumFunction(F) \in Nat /\ IsFiniteSet(Inums)
  BY OffsType, LengthsType
<1>2. G \in [Inums -> Nat]
  <2>1. ASSUME NEW d \in Inums PROVE OffOf(d)' \in Nat
    <3>1. inode'[d].num_direntries \in Nat
      BY DEF DiskType, InodeRecord
    <3>2. NumOf(d)' \in Nat
      BY <3>1 DEF NumOf, Pred
    <3>3. Len(slots'[d]) \in Nat /\ DOMAIN slots'[d] = 1 .. Len(slots'[d])
      <4>1. slots'[d] \in Seq(Slot)
        BY DEF DiskType
      <4> QED
        BY <4>1
    <3>4. EntriesOf(d)' \in SUBSET (1 .. Len(slots'[d]))
      BY <3>3 DEF EntriesOf
    <3>5. Cardinality(EntriesOf(d)') \in Nat
      <4>1. IsFiniteSet(1 .. Len(slots'[d]))
        BY <3>3, FS_Interval
      <4>2. IsFiniteSet(EntriesOf(d)')
        BY <3>4, <4>1, FS_Subset
      <4> QED
        BY <4>2, FS_CardinalityType
    <3> QED
      BY <3>2, <3>5 DEF OffOf, Dist
  <2> QED
    BY <2>1 DEF Offs
<1>3. F[x] = OffOf(x) /\ G[x] = OffOf(x)' /\ \A d \in Inums : d # x => G[d] <= F[d]
  BY DEF Offs
<1> HIDE DEF F, G
<1> DEFINE H == [F EXCEPT ![x] = G[x]]
<1>4. H \in [Inums -> Nat] /\ H[x] = G[x] /\ \A d \in Inums : d # x => H[d] = F[d]
  BY <1>1, <1>2
<1>5. \A d \in Inums : G[d] <= H[d]
  <2> SUFFICES ASSUME NEW d \in Inums PROVE G[d] <= H[d]
    OBVIOUS
  <2>1. G[d] \in Nat
    BY <1>2
  <2> QED
    BY <1>3, <1>4, <2>1
<1> HIDE DEF H
<1>6. SumFunction(H) + F[x] = SumFunction(F) + H[x] /\ SumFunction(H) \in Nat
  BY <1>1, <1>4, SumChange, SumNat
<1>7. SumFunction(G) <= SumFunction(H) /\ SumFunction(G) \in Nat
  BY <1>1, <1>2, <1>4, <1>5, SumLess, SumNat
<1>8. F[x] \in Nat /\ G[x] \in Nat /\ G[x] <= F[x] + k
  BY <1>1, <1>2, <1>3
<1>9. SumFunction(F) <= c
  BY DEF F
<1>10. SumFunction(G) <= c + k
  BY <1>1, <1>4, <1>6, <1>7, <1>8, <1>9
<1> QED
  BY <1>10 DEF G

LEMMA OffKept ==
    ASSUME DirInv, NEW d \in Inums, slots'[d] = slots[d], NumOf(d)' = NumOf(d),
           IsDirectory(d)' => IsDirectory(d) /\ (Counted(d)' => Counted(d))
    PROVE  OffOf(d)' <= OffOf(d)
<1>1. EntriesOf(d)' = EntriesOf(d)
  BY DEF EntriesOf
<1>2. OffOf(d) \in Nat
  BY OffNat
<1>3. CASE (IsDirectory(d) /\ Counted(d))'
  BY <1>1, <1>2, <1>3 DEF OffOf
<1>4. CASE ~(IsDirectory(d) /\ Counted(d))'
  BY <1>2, <1>4 DEF OffOf
<1> QED
  BY <1>3, <1>4

(* What is out of the count stays out but for the node.                    *)
LEMMA CountedKept ==
    ASSUME Unnamed, Creating' => Creating /\ node' = node
    PROVE  \A d \in Inums : Counted(d)' => Counted(d)
  BY DEF Unnamed, Counted

LEMMA CountInit == DirInit => CountInv
<1> SUFFICES ASSUME DirInit PROVE CountInv
  OBVIOUS
<1>0. DirInv
  BY InvInit
<1>1. DiskType
  BY <1>0 DEF DirInv
<1>2. \A i \in Inums : inode[i].type # "dir" => inode[i].num_direntries = 0
  BY DEF DirInit, FreeInode
<1>3. Cardinality(EntriesOf(Root)) = 2
  <2> DEFINE first == [EmptyBlock EXCEPT ![1] = Entry(".", Root), ![2] = Entry("..", Root)]
  <2>1. slots[Root] = first /\ 1 \in 1 .. EntriesPerBlock /\ 2 \in 1 .. EntriesPerBlock
    BY Constants DEF DirInit
  <2>2. DOMAIN first = 1 .. EntriesPerBlock
        /\ \A s \in 1 .. EntriesPerBlock :
               first[s] = IF s = 2 THEN Entry("..", Root) ELSE IF s = 1 THEN Entry(".", Root) ELSE Hole
    BY Constants, EmptyBlockType DEF EmptyBlock
  <2>3. /\ Entry(".", Root).name # NoName /\ Entry("..", Root).name # NoName
        /\ Hole.name = NoName
    BY Constants, HoleType DEF Entry
  <2> HIDE DEF first
  <2>4. EntriesOf(Root) = {1, 2}
    BY <2>1, <2>2, <2>3 DEF EntriesOf
  <2>5. Cardinality({1} \union {2}) = 2 /\ {1} \union {2} = {1, 2}
    <3>1. IsFiniteSet({1}) /\ Cardinality({1}) = 1 /\ 2 \notin {1}
      BY FS_Singleton
    <3> QED
      BY <3>1, FS_AddElement
  <2> QED
    BY <2>4, <2>5
<1>4. \A d \in Inums : Offs[d] = 0
  <2> SUFFICES ASSUME NEW d \in Inums PROVE OffOf(d) = 0
    BY DEF Offs
  <2>1. CASE d = Root
    BY <1>3, <2>1 DEF OffOf, Dist, NumOf, DirInit
  <2>2. CASE d # Root
    BY <2>2 DEF OffOf, IsDirectory, DirInit, FreeInode
  <2> QED
    BY <2>1, <2>2
<1>5. SumFunction(Offs) = 0
  BY <1>1, <1>4, OffsType, LengthsType, SumZero
<1>6. \A d \in Inums : OffOf(d) = 0
  BY <1>4 DEF Offs
<1>7. RootFull
  <2>1. NumOf(Root) = 2
    BY Constants DEF NumOf, DirInit
  <2> QED
    BY <1>3, <2>1 DEF RootFull
<1> QED
  BY <1>2, <1>5, <1>6, <1>7 DEF CountInv, OffsSmall, CoreCounts, DirInit

(* The steps.  But for a crash, no count gets further off, save the root's *)
(* when it gets an entry with an empty name.                               *)
Falls == \A d \in Inums : d # Root \/ nameless' = nameless => OffOf(d)' <= OffOf(d)

(* And the root counts all its entries.                                    *)
LEMMA RootSame ==
    ASSUME CountInv, crashes' = crashes, slots'[Root] = slots[Root], NumOf(Root)' = NumOf(Root)
    PROVE  RootFull'
<1>1. EntriesOf(Root)' = EntriesOf(Root)
  BY DEF EntriesOf
<1> QED
  BY <1>1 DEF CountInv, OffsSmall, RootFull

LEMMA CountMoved ==
    ASSUME DirInv, DirInv', CountInv, crashes' = crashes, nameless' = nameless, RootFull',
           \A d \in Inums : OffOf(d)' <= OffOf(d)
    PROVE  OffsSmall' /\ Falls
<1>1. DiskType /\ DiskType' /\ crashes \in Nat /\ nameless \in Nat
  BY DEF DirInv, RestType
<1>2. PICK c \in Nat : c = crashes + nameless
  BY <1>1
<1>3. (\A i \in Inums : OffOf(i) \in Nat) /\ (\A i \in Inums : OffOf(i)' \in Nat)
  BY OffNat, OffNatNext
<1>4. SumFunction(Offs)' <= c + 0
  <2>1. SumFunction(Offs) <= c
    BY <1>2 DEF CountInv, OffsSmall
  <2>2. OffOf(Root)' <= OffOf(Root) + 0 /\ Root \in Inums
    BY <1>3, Constants
  <2> QED
    BY <1>1, <2>1, <2>2, OffsMoved
<1>5. SumFunction(Offs)' <= crashes' + nameless'
  BY <1>2, <1>4
<1>6. \A d \in Inums \ {Root} : OffOf(d)' <= crashes'
  <2>1. \A d \in Inums \ {Root} : OffOf(d) <= crashes
    BY DEF CountInv, OffsSmall
  <2> QED
    BY <1>1, <1>3, <2>1
<1> QED
  BY <1>5, <1>6 DEF OffsSmall, Falls

(* A step that leaves the slots, the numbers and the directories as they   *)
(* are.                                                                    *)
LEMMA CountSame ==
    ASSUME DirInv, DirInv', CountInv, crashes' = crashes, nameless' = nameless, slots' = slots,
           Creating' => node' = node /\ (Creating \/ node \notin Inums),
           \A d \in Inums : NumOf(d)' = NumOf(d) /\ (IsDirectory(d)' => IsDirectory(d))
    PROVE  OffsSmall' /\ Falls
<1>1. \A d \in Inums : Counted(d)' => Counted(d)
  BY SlotsUnnamed DEF Unnamed, Counted
<1>2. \A d \in Inums : OffOf(d)' <= OffOf(d)
  BY <1>1, OffKept
<1>3. RootFull'
  BY RootSame, Constants
<1> QED
  BY <1>2, <1>3, CountMoved

LEMMA CountAllocate ==
    ASSUME DirInv, DirInv', CountInv, NEW kind \in {"file", "dir", "symlink"}, NEW d \in Inums,
           NEW n \in BaseNames, NEW i \in Inums, Allocate(kind, d, n, i)
    PROVE  CountInv' /\ Falls
<1>1. /\ inode' = [inode EXCEPT ![i].in_use = TRUE] /\ slots' = slots /\ pc = "idle"
      /\ pc' \in {"symlink", "add"} /\ crashes' = crashes /\ nameless' = nameless
      /\ inode[i] = FreeInode /\ node' = i
      /\ core' = [x \in {d, i} |-> IF x = i THEN NewNode(kind) ELSE inode[d]]
  BY DEF Allocate, Idle, history, DirInv, Homes
<1>2. \A x \in Inums : /\ x # i => inode'[x] = inode[x]
                       /\ inode'[x].type = inode[x].type
                       /\ inode'[x].num_direntries = inode[x].num_direntries
  BY <1>1 DEF DirInv, DiskType, InodeRecord
<1>3. NewNode(kind).num_direntries = 0 /\ inode[i].num_direntries = 0 /\ inode[i].type = "file"
  BY <1>1 DEF NewNode, FreeInode
<1>4. CoreCounts'
  <2>1. inode[d].num_direntries \in Nat
    BY OffsType DEF DirInv
  <2>2. /\ DOMAIN core' = {d, i}
        /\ \A x \in {d, i} : core'[x].num_direntries = inode[x].num_direntries
    BY <1>1, <1>3
  <2> QED
    BY <1>1, <1>2, <1>3, <2>1, <2>2 DEF CountInv, CoreCounts
<1>5. \A x \in Inums : OffOf(x)' <= OffOf(x)
  <2> SUFFICES ASSUME NEW x \in Inums PROVE OffOf(x)' <= OffOf(x)
    OBVIOUS
  <2>1. NumOf(x)' = NumOf(x)
    BY <1>1, <1>2 DEF NumOf
  <2>2. IsDirectory(x)' => IsDirectory(x) /\ x # i
    BY <1>2, <1>3 DEF IsDirectory
  <2>3. x # i => (Counted(x)' => Counted(x))
    BY <1>1, SlotsUnnamed DEF Unnamed, Counted
  <2> QED
    BY <1>1, <2>1, <2>2, <2>3, OffKept
<1>6. RootFull'
  <2>1. NumOf(Root)' = NumOf(Root)
    BY <1>1, <1>2, Constants DEF NumOf
  <2> QED
    BY <1>1, <2>1, RootSame
<1> QED
  BY <1>1, <1>4, <1>5, <1>6, CountMoved DEF CountInv

LEMMA CountSymlinkWithoutInode ==
    ASSUME DirInv, DirInv', CountInv, NEW n \in BaseNames, SymlinkWithoutInode(n)
    PROVE  CountInv' /\ Falls
<1>1. /\ inode' = inode /\ slots' = slots /\ pc = "idle" /\ pc' = "add" /\ crashes' = crashes
      /\ core' = [x \in {Root} |-> inode[Root]] /\ nameless' = nameless
      /\ node' = node /\ node \notin Inums
  BY Constants DEF SymlinkWithoutInode, Idle, history, DirInv, Phases
<1>2. CoreCounts'
  <2>1. inode[Root].num_direntries \in Nat
    BY Constants, OffsType DEF DirInv
  <2> QED
    BY <1>1, <2>1 DEF CountInv, CoreCounts
<1>3. \A d \in Inums : NumOf(d)' = NumOf(d) /\ (IsDirectory(d)' => IsDirectory(d))
  BY <1>1 DEF NumOf, IsDirectory
<1> QED
  BY <1>1, <1>2, <1>3, CountSame DEF CountInv

LEMMA CountWriteSymlink == ASSUME DirInv, DirInv', CountInv, WriteSymlink PROVE CountInv' /\ Falls
<1>1. PICK d \in Inums, n \in BaseNames : Making(d, n)
  BY DEF WriteSymlink, DirInv, Phases, NoNode
<1>2. /\ pc = "symlink" /\ pc' = "add" /\ inode' = [inode EXCEPT ![node] = core[node]]
      /\ slots' = slots /\ core' = core /\ node' = node
      /\ crashes' = crashes /\ nameless' = nameless
      /\ node \in Inums /\ core[node].type = "symlink" /\ inode[node].type = "file"
      /\ node \in DOMAIN core /\ DOMAIN core \subseteq Inums
  BY <1>1 DEF WriteSymlink, Making, DirInv, RestType
<1>3. core[node].num_direntries = inode[node].num_direntries /\ inode[node].num_direntries = 0
  BY <1>2, OffsType DEF CountInv, CoreCounts, DirInv
<1>4. \A x \in Inums : inode'[x] = IF x = node THEN core[node] ELSE inode[x]
  BY <1>2 DEF DirInv, DiskType
<1>5. CoreCounts'
  BY <1>2, <1>3, <1>4 DEF CountInv, CoreCounts
<1>6. \A x \in Inums : NumOf(x)' = NumOf(x) /\ (IsDirectory(x)' => IsDirectory(x))
  BY <1>2, <1>3, <1>4 DEF NumOf, IsDirectory
<1>7. Creating' => node' = node /\ (Creating \/ node \notin Inums)
  BY <1>2 DEF Creating
<1> QED
  BY <1>2, <1>5, <1>6, <1>7, CountSame DEF CountInv

LEMMA CountAddFails == ASSUME DirInv, DirInv', CountInv, AddFails PROVE CountInv' /\ Falls
<1>1. /\ inode' = inode /\ slots' = slots /\ pc = "add"
      /\ crashes' = crashes /\ nameless' = nameless
      /\ pc' = "idle" \/ (pc' = "undo" /\ core' = core /\ node' = node)
  BY DEF AddFails, Return
<1>2. CoreCounts'
  BY <1>1 DEF CountInv, CoreCounts
<1>3. \A d \in Inums : NumOf(d)' = NumOf(d) /\ (IsDirectory(d)' => IsDirectory(d))
  BY <1>1 DEF NumOf, IsDirectory
<1>4. Creating' => node' = node /\ (Creating \/ node \notin Inums)
  BY <1>1 DEF Creating
<1> QED
  BY <1>1, <1>2, <1>3, <1>4, CountSame DEF CountInv

(* A block is popped: nothing else moves.                                  *)
LEMMA CountPop == ASSUME DirInv, DirInv', CountInv, Pop PROVE CountInv' /\ Falls
<1>1. /\ inode' = inode /\ slots' = slots /\ pc' = pc /\ node' = node /\ core' = core
      /\ calls' = calls /\ crashes' = crashes /\ nameless' = nameless
  BY DEF Pop
<1>2. dir' = dir
  BY <1>1 DEF dir, call
<1>3. CoreCounts'
  BY <1>1, <1>2 DEF CountInv, CoreCounts
<1>4. \A d \in Inums : NumOf(d)' = NumOf(d) /\ (IsDirectory(d)' => IsDirectory(d))
  BY <1>1, <1>2 DEF NumOf, IsDirectory
<1>5. Creating' => node' = node /\ (Creating \/ node \notin Inums)
  BY <1>1 DEF Creating
<1> QED
  BY <1>1, <1>3, <1>4, <1>5, CountSame DEF CountInv

LEMMA CountWriteNode == ASSUME DirInv, DirInv', CountInv, WriteNode PROVE CountInv' /\ Falls
<1>1. PICK d \in Inums : Made(d)
  BY DEF WriteNode, DirInv, Phases
<1>2. /\ pc = "node" /\ pc' = "idle" /\ inode' = [inode EXCEPT ![node] = core[node]]
      /\ slots' = slots /\ crashes' = crashes /\ nameless' = nameless
      /\ node \in Inums /\ core[node].type = inode[node].type
      /\ core[node].in_use /\ inode[node].in_use /\ node \in DOMAIN core
  BY <1>1 DEF WriteNode, Return, Made, DirInv, Cores
<1>3. core[node].num_direntries = inode[node].num_direntries
  BY <1>2, OffsType DEF CountInv, CoreCounts, DirInv
<1>4. \A x \in Inums : inode'[x] = IF x = node THEN core[node] ELSE inode[x]
  BY <1>2 DEF DirInv, DiskType
<1>5. CoreCounts'
  BY <1>2, <1>3, <1>4 DEF CountInv, CoreCounts
<1>6. \A x \in Inums : NumOf(x)' = NumOf(x) /\ (IsDirectory(x)' => IsDirectory(x))
  BY <1>2, <1>3, <1>4 DEF NumOf, IsDirectory
<1>7. ~Creating'
  BY <1>2 DEF Creating
<1> QED
  BY <1>2, <1>5, <1>6, <1>7, CountSame DEF CountInv

(* An inode is freed: what its count was off by is gone.                   *)
LEMMA CountFreed ==
    ASSUME DirInv, DirInv', CountInv, NEW x \in Inums, x # Root,
           crashes' = crashes, nameless' = nameless,
           inode' = [inode EXCEPT ![x] = FreeInode], slots' = [slots EXCEPT ![x] = <<>>],
           ~Creating', \A d \in Inums : d # x => NumOf(d)' = NumOf(d)
    PROVE  OffsSmall' /\ Falls
<1>1. \A d \in Inums : d # x => inode'[d] = inode[d] /\ slots'[d] = slots[d]
  BY DEF DirInv, DiskType
<1>2. Unnamed
  <2>1. \A d \in Inums : slots'[d] = IF d = x THEN <<>> ELSE slots[d]
    BY DEF DirInv, DiskType
  <2>2. \A d \in Inums : \A s \in Linking(d)' : s \in Linking(d) /\ slots'[d][s] = slots[d][s]
    BY <2>1 DEF Linking
  <2> QED
    BY <2>2, Shrunk DEF Unnamed
<1>3. \A d \in Inums : Counted(d)' => Counted(d)
  BY <1>2, CountedKept
<1>4. ASSUME NEW d \in Inums, d # x PROVE OffOf(d)' <= OffOf(d)
  <2>1. IsDirectory(d)' => IsDirectory(d)
    BY <1>1, <1>4 DEF IsDirectory
  <2> QED
    BY <1>1, <1>3, <1>4, <2>1, OffKept
<1>5. OffOf(x)' = 0 /\ OffOf(x) \in Nat
  <2>1. inode'[x] = FreeInode
    BY DEF DirInv, DiskType
  <2> QED
    BY <2>1, OffNat, FreeInodeType DEF OffOf, IsDirectory
<1>6. \A d \in Inums : OffOf(d)' <= OffOf(d)
  BY <1>4, <1>5
<1>7. RootFull'
  BY <1>1, RootSame, Constants
<1> QED
  BY <1>6, <1>7, CountMoved

LEMMA CountUndo == ASSUME DirInv, DirInv', CountInv, Undo PROVE CountInv' /\ Falls
<1>1. /\ pc = "undo" /\ pc' = "idle" /\ inode' = [inode EXCEPT ![node] = FreeInode]
      /\ slots' = [slots EXCEPT ![node] = <<>>] /\ crashes' = crashes /\ nameless' = nameless
      /\ node \in Inums /\ node # Root
  BY DEF Undo, Return, DirInv, Phases, Making, NoNode
<1>2. \A x \in Inums : inode'[x] = IF x = node THEN FreeInode ELSE inode[x]
  BY <1>1 DEF DirInv, DiskType
<1>3. CoreCounts'
  BY <1>1, <1>2 DEF CountInv, CoreCounts, FreeInode
<1>4. \A d \in Inums : d # node => NumOf(d)' = NumOf(d)
  BY <1>1, <1>2 DEF NumOf
<1>5. ~Creating'
  BY <1>1 DEF Creating
<1> QED
  BY <1>1, <1>3, <1>4, <1>5, CountFreed DEF CountInv

LEMMA CountDropReference == ASSUME DirInv, DirInv', CountInv, DropReference PROVE CountInv' /\ Falls
<1>1. PICK d \in Inums, n \in Names : Removing(d, n)
  BY DEF DropReference, DirInv, Phases
<1>2. /\ pc = "drop" /\ pc' = "uncount" /\ core' = core /\ calls' = calls
      /\ crashes' = crashes /\ nameless' = nameless /\ slots' = slots
      /\ node \in Inums /\ node # Root /\ DOMAIN core = {d} /\ d # node /\ ~Creating'
  BY <1>1 DEF DropReference, Removing, Creating
<1>3. dir' = dir
  BY <1>2 DEF dir, call
<1>4. CASE LastReference
  <2>1. inode' = [inode EXCEPT ![node] = FreeInode] /\ slots' = [slots EXCEPT ![node] = <<>>]
    <3>1. inode' = [inode EXCEPT ![node] = FreeInode] /\ slots[node] = <<>>
      BY <1>4 DEF DropReference
    <3> QED
      BY <1>2, <3>1 DEF DirInv, DiskType
  <2>2. \A x \in Inums : inode'[x] = IF x = node THEN FreeInode ELSE inode[x]
    BY <1>2, <2>1 DEF DirInv, DiskType
  <2>3. CoreCounts'
    BY <1>2, <2>2 DEF CountInv, CoreCounts, FreeInode
  <2>4. \A x \in Inums : x # node => NumOf(x)' = NumOf(x)
    BY <1>2, <1>3, <2>2 DEF NumOf
  <2> QED
    BY <1>2, <2>1, <2>3, <2>4, CountFreed DEF CountInv
<1>5. CASE ~LastReference
  <2>1. inode' = inode
    BY <1>5 DEF DropReference
  <2>2. CoreCounts'
    BY <1>2, <2>1 DEF CountInv, CoreCounts
  <2>3. \A x \in Inums : NumOf(x)' = NumOf(x) /\ (IsDirectory(x)' => IsDirectory(x))
    BY <1>2, <1>3, <2>1 DEF NumOf, IsDirectory
  <2> QED
    BY <1>2, <2>1, <2>2, <2>3, CountSame DEF CountInv
<1> QED
  BY <1>4, <1>5

(* A directory without a name gives a block back: it is out of the count.  *)
LEMMA CountReleaseBlock == ASSUME DirInv, DirInv', CountInv, ReleaseBlock PROVE CountInv' /\ Falls
<1>1. PICK d \in Inums, n \in Names : Removing(d, n)
  BY DEF ReleaseBlock, LastReference, DirInv, Phases
<1>2. PICK x \in Inums : x = node /\ x # Root /\ Unlinked(x)
  BY <1>1 DEF Removing, Unlinked
<1>3. /\ pc = "drop" /\ pc' = pc /\ core' = core /\ calls' = calls /\ inode' = inode
      /\ node' = node /\ crashes' = crashes /\ nameless' = nameless
      /\ slots[x] # <<>> /\ slots' = [slots EXCEPT ![x] = AllButFirst(slots[x])]
  BY <1>2 DEF ReleaseBlock, LastReference
<1>4. dir' = dir
  BY <1>3 DEF dir, call
<1>5. CoreCounts'
  BY <1>3, <1>4 DEF CountInv, CoreCounts
<1>6. Unnamed
  BY <1>3, ReleasedLinks DEF Unnamed
<1>7. ~Creating /\ ~Creating'
  BY <1>3 DEF Creating
<1>8. \A y \in Inums : Counted(y)' => Counted(y)
  BY <1>6, <1>7, CountedKept
<1>9. \A y \in Inums : NumOf(y)' = NumOf(y) /\ (IsDirectory(y)' <=> IsDirectory(y))
  BY <1>3, <1>4 DEF NumOf, IsDirectory
<1>10. ASSUME NEW y \in Inums, y # x PROVE OffOf(y)' <= OffOf(y)
  <2>1. slots'[y] = slots[y]
    BY <1>3, <1>10 DEF DirInv, DiskType
  <2> QED
    BY <1>8, <1>9, <2>1, OffKept
<1>11. OffOf(x) = 0 /\ OffOf(x)' = 0
  <2>1. ~Counted(x)
    BY <1>2, <1>7 DEF Counted
  <2>2. ~Counted(x)'
    BY <1>8, <2>1
  <2> QED
    BY <2>1, <2>2 DEF OffOf
<1>12. \A y \in Inums : OffOf(y)' <= OffOf(y)
  BY <1>10, <1>11
<1>13. RootFull'
  <2>1. slots'[Root] = slots[Root]
    BY <1>2, <1>3, Constants DEF DirInv, DiskType
  <2> QED
    BY <1>3, <1>9, <2>1, RootSame, Constants
<1> QED
  BY <1>3, <1>5, <1>12, <1>13, CountMoved DEF CountInv

LEMMA CountUncountEntry == ASSUME DirInv, DirInv', CountInv, UncountEntry PROVE CountInv' /\ Falls
<1>1. PICK d \in Inums, n \in Names : Removing(d, n)
  BY DEF UncountEntry, DirInv, Phases
<1>2. /\ pc = "uncount" /\ pc' = "idle" /\ slots' = slots
      /\ crashes' = crashes /\ nameless' = nameless
      /\ dir = d /\ d \in DOMAIN core
      /\ core[d].type = "dir" /\ core[d].in_use /\ inode[d].type = "dir" /\ inode[d].in_use
      /\ core[d] \in InodeRecord
  BY <1>1 DEF UncountEntry, Return, Removing, dir, call, Call, DirInv, Cores
<1>3. core[d].num_direntries = inode[d].num_direntries /\ inode[d].num_direntries \in Nat
  BY <1>2, OffsType DEF CountInv, CoreCounts, DirInv
<1>4. \A x \in Inums : /\ x # d => inode'[x] = inode[x]
                       /\ inode'[x].type = inode[x].type /\ inode'[x].in_use = inode[x].in_use
                       /\ inode'[x].num_direntries =
                             IF x = d THEN Pred(inode[d].num_direntries) ELSE inode[x].num_direntries
  <2>1. CASE core[d].num_direntries = 0
    <3>1. inode' = inode
      BY <1>2, <2>1 DEF UncountEntry
    <3> QED
      BY <1>3, <2>1, <3>1 DEF Pred
  <2>2. CASE core[d].num_direntries # 0
    <3> DEFINE r == [core[d] EXCEPT !.num_direntries = @ - 1]
    <3>1. inode' = [inode EXCEPT ![d] = r]
      BY <1>2, <2>2 DEF UncountEntry
    <3>2. r.type = "dir" /\ r.in_use /\ r.num_direntries = Pred(inode[d].num_direntries)
      BY <1>2, <1>3, <2>2 DEF Pred, InodeRecord
    <3> HIDE DEF r
    <3>3. \A x \in Inums : inode'[x] = IF x = d THEN r ELSE inode[x]
      BY <3>1 DEF DirInv, DiskType
    <3>4. \A x \in Inums : inode[x].in_use \in BOOLEAN /\ r.in_use \in BOOLEAN
      <4>1. \A x \in Inums : inode[x] \in InodeRecord /\ inode'[x] \in InodeRecord
        BY DEF DirInv, DiskType
      <4> QED
        BY <3>3, <4>1 DEF InodeRecord
    <3>5. r.in_use = inode[d].in_use
      BY <1>2, <3>2, <3>4
    <3> QED
      BY <1>2, <3>2, <3>3, <3>5
  <2> QED
    BY <2>1, <2>2
<1>5. CoreCounts'
  BY <1>2, <1>4 DEF CountInv, CoreCounts
<1>6. \A x \in Inums : NumOf(x)' = NumOf(x) /\ (IsDirectory(x)' => IsDirectory(x))
  BY <1>2, <1>4 DEF NumOf, IsDirectory
<1>7. ~Creating'
  BY <1>2 DEF Creating
<1> QED
  BY <1>2, <1>5, <1>6, <1>7, CountSame DEF CountInv

LEMMA CountGrow == ASSUME DirInv, DirInv', CountInv, Grow PROVE CountInv' /\ Falls
<1>1. /\ dir \in DOMAIN core /\ dir \in Inums /\ core[dir].in_use /\ core[dir].type = "dir"
      /\ inode[dir].in_use /\ core[dir] \in InodeRecord /\ DOMAIN core \subseteq Inums
  BY Adding DEF Grow, DirInv, RestType
<1>2. /\ pc = "add" /\ pc' = "add" /\ crashes' = crashes /\ nameless' = nameless /\ node' = node
      /\ inode' = [inode EXCEPT ![dir] = core[dir]]
      /\ slots' = [slots EXCEPT ![dir] = slots[dir] \o EmptyBlock]
      /\ core' = [core EXCEPT ![dir].n_bytes = (@ + EntriesPerBlock) % SizeModulus]
  BY DEF Grow
<1>3. core[dir].num_direntries = inode[dir].num_direntries /\ inode[dir].num_direntries \in Nat
  BY <1>1, <1>2, OffsType DEF CountInv, CoreCounts, DirInv
<1>4. \A x \in Inums : inode'[x] = IF x = dir THEN core[dir] ELSE inode[x]
  BY <1>2 DEF DirInv, DiskType
<1>5. \A x \in Inums : slots'[x] = IF x = dir THEN slots[dir] \o EmptyBlock ELSE slots[x]
  BY <1>2 DEF DirInv, DiskType
<1>6. DOMAIN core' = DOMAIN core
      /\ \A x \in DOMAIN core : core'[x].num_direntries = core[x].num_direntries
  <2>1. \A x \in DOMAIN core : core[x] \in InodeRecord
    BY <1>2 DEF DirInv, Cores
  <2> QED
    BY <1>1, <1>2, <2>1 DEF InodeRecord
<1>7. CoreCounts'
  BY <1>1, <1>2, <1>3, <1>4, <1>6 DEF CountInv, CoreCounts
<1>8. \A x \in Inums : NumOf(x)' = NumOf(x) /\ (x # dir => (IsDirectory(x)' <=> IsDirectory(x)))
  BY <1>2, <1>3, <1>4 DEF NumOf, IsDirectory
<1>12. \A x \in Inums : Counted(x)' => Counted(x)
  <2>1. Unnamed
    BY GrowLinks, UnlinkedSame DEF Unnamed
  <2>2. Creating' => Creating /\ node' = node
    BY <1>2 DEF Creating
  <2> QED
    BY <2>1, <2>2, CountedKept
<1>9. ASSUME NEW x \in Inums, x # dir PROVE OffOf(x)' <= OffOf(x)
  BY <1>5, <1>8, <1>9, <1>12, OffKept
<1>13. ASSUME NEW x \in Inums, x = dir PROVE EntriesOf(x)' = EntriesOf(x)
  <2>1. /\ slots[x] \o EmptyBlock \in Seq(Slot)
        /\ Len(slots[x] \o EmptyBlock) = Len(slots[x]) + EntriesPerBlock
        /\ \A s \in 1 .. Len(slots[x]) : (slots[x] \o EmptyBlock)[s] = slots[x][s]
        /\ \A s \in 1 .. Len(slots[x]) + EntriesPerBlock :
               s > Len(slots[x]) => (slots[x] \o EmptyBlock)[s] = Hole
    BY AppendedBlock, SlotsType DEF DirInv
  <2>2. slots'[x] = slots[x] \o EmptyBlock
    BY <1>1, <1>5, <1>13
  <2>3. /\ DOMAIN slots[x] = 1 .. Len(slots[x]) /\ Len(slots[x]) \in Nat
        /\ DOMAIN slots'[x] = 1 .. Len(slots[x]) + EntriesPerBlock
    BY <2>1, <2>2, SlotsType DEF DirInv
  <2>4. \A s \in DOMAIN slots[x] : s \in DOMAIN slots'[x] /\ slots'[x][s] = slots[x][s]
    BY <2>1, <2>2, <2>3, Constants
  <2>5. \A s \in DOMAIN slots'[x] : s \notin DOMAIN slots[x] => slots'[x][s].name = NoName
    BY <2>1, <2>2, <2>3, HoleType
  <2> QED
    BY <2>4, <2>5 DEF EntriesOf
<1>10. ASSUME NEW x \in Inums, x = dir PROVE OffOf(x)' <= OffOf(x)
  <2>4. OffOf(x) \in Nat
    BY OffNat
  <2>1. EntriesOf(x)' = EntriesOf(x)
    BY <1>10, <1>13
  <2>2. CASE IsDirectory(x)
    <3>1. OffOf(x)' = 0 \/ (Counted(x)' /\ OffOf(x)' = Dist(Cardinality(EntriesOf(x)), NumOf(x)))
      BY <1>8, <2>1 DEF OffOf
    <3> QED
      BY <1>12, <2>2, <2>4, <3>1 DEF OffOf
  <2>3. CASE ~IsDirectory(x)
    <3>1. inode[x].type # "dir"
      BY <1>1, <1>10, <2>3 DEF IsDirectory
    <3>2. slots[x] = <<>> /\ inode[x].num_direntries = 0
      BY <3>1 DEF DirInv, Homes, CountInv, CoreCounts
    <3>3. EntriesOf(x) = {}
      BY <3>2 DEF EntriesOf
    <3>4. NumOf(x) = 0
      BY <1>2, <3>2 DEF NumOf
    <3>5. OffOf(x)' = 0
      BY <1>8, <2>1, <3>3, <3>4, FS_EmptySet DEF OffOf, Dist
    <3> QED
      BY <2>4, <3>5
  <2> QED
    BY <2>2, <2>3
<1>11. \A x \in Inums : OffOf(x)' <= OffOf(x)
  BY <1>9, <1>10
<1>14. RootFull'
  <2>1. EntriesOf(Root)' = EntriesOf(Root)
    <3>1. CASE Root = dir
      BY <1>13, <3>1, Constants
    <3>2. CASE Root # dir
      BY <1>5, <3>2, Constants DEF EntriesOf
    <3> QED
      BY <3>1, <3>2
  <2> QED
    BY <1>2, <1>8, <2>1, Constants DEF CountInv, OffsSmall, RootFull
<1> QED
  BY <1>2, <1>7, <1>11, <1>14, CountMoved DEF CountInv

LEMMA OneMore ==
    ASSUME NEW old, NEW new, NEW f, IsFiniteSet(old), new = old \union {f}, f \notin old
    PROVE  Cardinality(new) = Cardinality(old) + 1 /\ Cardinality(old) \in Nat
  BY FS_AddElement, FS_CardinalityType

(* The entry of the new inode is a link to it, `.' and `..' are none, and  *)
(* neither is an entry without an inode.                                   *)
LEMMA EntryLinks ==
    ASSUME DirInv, WriteEntry
    PROVE  LET f == FirstSlot(Holes(dir))
           IN  /\ \A y \in Inums : \A s : s \in Linking(y)' <=>
                      IF y = dir /\ s = f THEN call.name \in Names /\ call.inum \in Inums
                      ELSE s \in Linking(y)
               /\ \A y \in Inums : \A s \in Linking(y) : ~(y = dir /\ s = f)
                                                       /\ slots'[y][s] = slots[y][s]
               /\ slots'[dir][f] = Entry(call.name, call.inum)
               /\ dir \in Inums
<1> DEFINE f == FirstSlot(Holes(dir))
           e == Entry(call.name, call.inum)
<1>1. /\ dir \in Inums /\ call.inum \in Inums \union {Missing}
      /\ call.name \in BaseNames
  BY Adding DEF WriteEntry
<1>2. f \in 1 .. Len(slots[dir]) /\ f \notin Linking(dir)
  BY <1>1, FirstHole DEF WriteEntry, DirInv
<1>3. e \in Slot /\ e.name = call.name /\ e.inum = call.inum
  BY <1>1, SlotType
<1>4. DiskType /\ inode' = inode /\ slots' = [slots EXCEPT ![dir] = [slots[dir] EXCEPT ![f] = e]]
  BY DEF WriteEntry, DirInv
<1> HIDE DEF f, e
<1>5. SetSlot(dir, f, e)
  BY <1>4 DEF SetSlot
<1>6. /\ \A y \in Inums : \A s \in 1 .. Len(slots[y]) :
             slots'[y][s] = IF y = dir /\ s = f THEN e ELSE slots[y][s]
      /\ \A y \in Inums : \A s : s \in Linking(y)' <=>
             IF y = dir /\ s = f THEN e.name \in Names /\ e.inum \in Inums ELSE s \in Linking(y)
  BY <1>1, <1>2, <1>3, <1>4, <1>5, SlotSet
<1>7. ASSUME NEW y \in Inums, NEW s \in Linking(y)
      PROVE  ~(y = dir /\ s = f) /\ slots'[y][s] = slots[y][s]
  <2>1. s \in 1 .. Len(slots[y]) /\ ~(y = dir /\ s = f)
    BY <1>2, <1>4, SlotsType
  <2> QED
    BY <1>6, <2>1
<1>8. slots'[dir][f] = e
  BY <1>1, <1>2, <1>6
<1> QED
  BY <1>1, <1>3, <1>6, <1>7, <1>8 DEF f, e

LEMMA EntryCounted ==
    ASSUME DirInv, WriteEntry PROVE \A x \in Inums : Counted(x)' => Counted(x)
<1> DEFINE f == FirstSlot(Holes(dir))
<1>1. /\ \A y \in Inums : \A s : s \in Linking(y)' <=>
             IF y = dir /\ s = f THEN call.name \in Names /\ call.inum \in Inums
             ELSE s \in Linking(y)
      /\ \A y \in Inums : \A s \in Linking(y) : ~(y = dir /\ s = f)
                                              /\ slots'[y][s] = slots[y][s]
      /\ slots'[dir][f] = Entry(call.name, call.inum)
      /\ dir \in Inums
  BY EntryLinks
<1> HIDE DEF f
<1>2. pc = "add" /\ pc' = "count" /\ node' = node
  BY DEF WriteEntry
<1>3. call.name \in Names /\ call.inum \in Inums => call.inum = node
  <2> SUFFICES ASSUME call.name \in Names, call.inum \in Inums PROVE call.inum = node
    OBVIOUS
  <2>1. PICK d \in Inums, n \in BaseNames : Making(d, n) \/ NoNode(d, n)
    BY <1>2 DEF DirInv, Phases
  <2>2. CASE NoNode(d, n)
    BY <2>2, Constants DEF NoNode, call, Call
  <2>3. CASE Making(d, n)
    <3>1. call.name \notin {".", ".."}
      BY Constants
    <3>2. Call(node, ".", node).name = "." /\ Call(node, "..", d).name = ".."
          /\ Call(d, n, node).inum = node
      BY DEF Call
    <3> QED
      BY <2>3, <3>1, <3>2, CallOf DEF Making
  <2> QED
    BY <2>1, <2>2, <2>3
<1>4. ASSUME NEW x \in Inums, Unlinked(x), x # node PROVE Unlinked(x)'
  <2> SUFFICES ASSUME NEW y \in Inums, NEW t \in Linking(y)', slots'[y][t].inum = x PROVE FALSE
    BY DEF Unlinked
  <2>1. CASE y = dir /\ t = f
    BY <1>1, <1>3, <1>4, <2>1 DEF Entry
  <2>2. CASE ~(y = dir /\ t = f)
    <3>1. t \in Linking(y) /\ slots'[y][t] = slots[y][t]
      BY <1>1, <2>2
    <3> QED
      BY <1>4, <3>1 DEF Unlinked
  <2> QED
    BY <2>1, <2>2
<1> QED
  BY <1>2, <1>4 DEF Counted, Creating

(* The entry and the count that the inode is about to get.  One with an    *)
(* empty name, which only the root gets, is counted and remains a hole.    *)
LEMMA CountWriteEntry == ASSUME DirInv, DirInv', CountInv, WriteEntry PROVE CountInv' /\ Falls
<1> DEFINE f == FirstSlot(Holes(dir))
           e == Entry(call.name, call.inum)
<1>1. /\ dir \in DOMAIN core /\ dir \in Inums /\ DOMAIN core \subseteq Inums
      /\ core[dir] \in InodeRecord
      /\ call.inum \in Inums \union {Missing}
      /\ call.name \in BaseNames
      /\ call.name = NoName => dir = Root
  BY Adding DEF WriteEntry, DirInv, RestType
<1>2. f \in 1 .. Len(slots[dir]) /\ slots[dir][f].name = NoName
  BY <1>1, FirstHole DEF WriteEntry, DirInv
<1>3. e \in Slot /\ e.name = call.name
  BY <1>1, SlotType
<1>4. /\ inode' = inode /\ slots' = [slots EXCEPT ![dir] = [slots[dir] EXCEPT ![f] = e]]
      /\ pc = "add" /\ pc' = "count" /\ calls' = calls /\ crashes' = crashes
      /\ core' = [core EXCEPT ![dir].num_direntries = @ + 1]
      /\ nameless' = nameless + (IF call.name = NoName THEN 1 ELSE 0)
  BY DEF WriteEntry
<1> HIDE DEF f, e
<1>5. dir' = dir
  BY <1>4 DEF dir, call
<1>6. \A y \in Inums : /\ Len(slots'[y]) = Len(slots[y])
                       /\ y # dir => slots'[y] = slots[y]
                       /\ \A s \in 1 .. Len(slots[y]) :
                              slots'[y][s] = IF y = dir /\ s = f THEN e ELSE slots[y][s]
  <2>1. SetSlot(dir, f, e) /\ DiskType
    BY <1>4 DEF SetSlot, DirInv
  <2> QED
    BY <1>1, <1>2, <1>3, <2>1, SlotSet
<1>7. CoreCounts'
  <2>1. \A x \in DOMAIN core : core[x] \in InodeRecord
                              /\ core[x].num_direntries = inode[x].num_direntries
                              /\ inode[x].num_direntries \in Nat
    BY <1>1, <1>4, OffsType DEF DirInv, Cores, CountInv, CoreCounts
  <2>2. DOMAIN core' = DOMAIN core
        /\ \A x \in DOMAIN core : core'[x].num_direntries =
                core[x].num_direntries + IF x = dir THEN 1 ELSE 0
    BY <1>1, <1>4, <2>1 DEF InodeRecord
  <2> QED
    BY <1>4, <1>5, <2>1, <2>2 DEF CountInv, CoreCounts
<1>8. \A x \in Inums : /\ IsDirectory(x)' <=> IsDirectory(x)
                       /\ NumOf(x) = inode[x].num_direntries
                       /\ NumOf(x)' = IF x = dir THEN inode[x].num_direntries + 1
                                      ELSE inode[x].num_direntries
  BY <1>4, <1>5 DEF NumOf, IsDirectory
<1>12. \A x \in Inums : (Counted(x)' => Counted(x)) /\ OffOf(x) \in Nat
  BY EntryCounted, OffNat
<1>9. ASSUME NEW x \in Inums, x # dir PROVE OffOf(x)' <= OffOf(x)
  BY <1>6, <1>8, <1>9, <1>12, OffKept
<1>15. ASSUME NEW x \in Inums, x = dir, call.name # NoName
       PROVE  /\ Cardinality(EntriesOf(x))' = Cardinality(EntriesOf(x)) + 1
              /\ Cardinality(EntriesOf(x)) \in Nat
  <2>1. /\ EntriesOf(x) \subseteq 1 .. Len(slots[x]) /\ IsFiniteSet(EntriesOf(x))
        /\ Cardinality(EntriesOf(x)) \in Nat
        /\ \A s \in 1 .. Len(slots[x]) : s \in EntriesOf(x) <=> slots[x][s].name # NoName
    BY EntriesType DEF DirInv
  <2>2. DOMAIN slots'[x] = 1 .. Len(slots[x])
    <3>1. slots'[x] \in Seq(Slot)
      BY DEF DirInv, DiskType
    <3> QED
      BY <1>6, <3>1
  <2>3. EntriesOf(x)' = EntriesOf(x) \union {f} /\ f \notin EntriesOf(x)
    <3>1. EntriesOf(x)' \subseteq 1 .. Len(slots[x])
          /\ \A s \in 1 .. Len(slots[x]) : s \in EntriesOf(x)' <=> slots'[x][s].name # NoName
      BY <2>2 DEF EntriesOf
    <3>2. \A s \in 1 .. Len(slots[x]) : slots'[x][s] = IF s = f THEN e ELSE slots[x][s]
      BY <1>6, <1>15
    <3>3. f \in 1 .. Len(slots[x]) /\ slots[x][f].name = NoName
      BY <1>2, <1>15
    <3>4. \A s \in 1 .. Len(slots[x]) : s \in EntriesOf(x)' <=> s = f \/ s \in EntriesOf(x)
      BY <1>3, <1>15, <2>1, <3>1, <3>2
    <3>5. f \notin EntriesOf(x)
      BY <2>1, <3>3
    <3> DEFINE new == EntriesOf(x)'
               old == EntriesOf(x)
    <3>6. /\ new \subseteq 1 .. Len(slots[x]) /\ old \subseteq 1 .. Len(slots[x])
          /\ \A s \in 1 .. Len(slots[x]) : s \in new <=> s = f \/ s \in old
      BY <2>1, <3>1, <3>4
    <3> HIDE DEF new, old
    <3>7. new = old \union {f}
      BY <3>3, <3>6
    <3> QED
      BY <3>5, <3>7 DEF new, old
  <2> QED
    BY <2>1, <2>3, OneMore
<1>16. ASSUME NEW x \in Inums, x = dir, call.name = NoName PROVE EntriesOf(x)' = EntriesOf(x)
  <2>1. DOMAIN slots'[x] = 1 .. Len(slots[x]) /\ DOMAIN slots[x] = 1 .. Len(slots[x])
    <3>1. slots'[x] \in Seq(Slot) /\ slots[x] \in Seq(Slot)
      BY DEF DirInv, DiskType
    <3> QED
      BY <1>6, <3>1
  <2>2. \A s \in 1 .. Len(slots[x]) :
            slots'[x][s].name # NoName <=> slots[x][s].name # NoName
    BY <1>2, <1>3, <1>6, <1>16
  <2> QED
    BY <2>1, <2>2 DEF EntriesOf
<1>10. ASSUME NEW x \in Inums, x = dir, call.name # NoName PROVE OffOf(x)' <= OffOf(x)
  <2> DEFINE c == Cardinality(EntriesOf(x))
  <2>4. Cardinality(EntriesOf(x))' = c + 1 /\ c \in Nat
    BY <1>10, <1>15
  <2>5. inode[x].num_direntries \in Nat
    BY OffsType DEF DirInv
  <2>6. CASE (IsDirectory(x) /\ Counted(x))'
    <3>1. /\ OffOf(x) = Dist(c, inode[x].num_direntries)
          /\ OffOf(x)' = Dist(c + 1, inode[x].num_direntries + 1)
      BY <1>8, <1>10, <1>12, <2>4, <2>6 DEF OffOf
    <3> HIDE DEF c
    <3> QED
      BY <2>4, <2>5, <3>1 DEF Dist
  <2>7. CASE ~(IsDirectory(x) /\ Counted(x))'
    BY <1>12, <2>7 DEF OffOf
  <2> QED
    BY <2>6, <2>7
<1>11. ASSUME NEW x \in Inums, x = dir, call.name = NoName PROVE OffOf(x)' <= OffOf(x) + 1
  <2>1. EntriesOf(x)' = EntriesOf(x)
    BY <1>11, <1>16
  <2> DEFINE c == Cardinality(EntriesOf(x))
  <2>2. c \in Nat /\ inode[x].num_direntries \in Nat
    BY EntriesType, OffsType DEF DirInv
  <2>3. CASE (IsDirectory(x) /\ Counted(x))'
    <3>1. /\ OffOf(x) = Dist(c, inode[x].num_direntries)
          /\ OffOf(x)' = Dist(c, inode[x].num_direntries + 1)
      BY <1>8, <1>11, <1>12, <2>1, <2>3 DEF OffOf
    <3> HIDE DEF c
    <3> QED
      BY <2>2, <3>1 DEF Dist
  <2>4. CASE ~(IsDirectory(x) /\ Counted(x))'
    BY <1>12, <2>4 DEF OffOf
  <2> QED
    BY <2>3, <2>4
<1>17. RootFull'
  <2>1. PICK c : c = Cardinality(EntriesOf(Root))
    OBVIOUS
  <2>2. PICK m : m = inode[Root].num_direntries
    OBVIOUS
  <2>3. m \in Nat /\ c \in Nat /\ (crashes = 0 => c <= m)
    BY <1>8, <2>1, <2>2, Constants, EntriesType, OffsType
       DEF DirInv, CountInv, OffsSmall, RootFull
  <2>4. CASE Root = dir
    <3>1. Cardinality(EntriesOf(Root))' \in {c, c + 1}
      <4>1. CASE call.name # NoName
        BY <1>15, <2>1, <2>4, <4>1, Constants
      <4>2. CASE call.name = NoName
        BY <1>16, <2>1, <2>4, <4>2, Constants
      <4> QED
        BY <4>1, <4>2
    <3>2. NumOf(Root)' = m + 1
      BY <1>8, <2>2, <2>4, Constants
    <3> QED
      BY <1>4, <2>3, <3>1, <3>2 DEF RootFull
  <2>5. CASE Root # dir
    BY <1>4, <1>6, <1>8, <2>5, RootSame, Constants
  <2> QED
    BY <2>4, <2>5
<1>13. CASE call.name # NoName
  <2>1. \A x \in Inums : OffOf(x)' <= OffOf(x)
    BY <1>9, <1>10, <1>13
  <2>2. nameless' = nameless
    BY <1>4, <1>13 DEF DirInv, RestType
  <2> QED
    BY <1>4, <1>7, <1>17, <2>1, <2>2, CountMoved DEF CountInv
<1>14. CASE call.name = NoName
  <2>1. dir = Root /\ nameless' = nameless + 1 /\ crashes \in Nat /\ nameless \in Nat
    BY <1>1, <1>4, <1>14 DEF DirInv, RestType
  <2>2. PICK c \in Nat : c = crashes + nameless
    BY <2>1
  <2>3. /\ \A x \in Inums : x # Root => OffOf(x)' <= OffOf(x)
        /\ OffOf(Root)' <= OffOf(Root) + 1
    BY <1>9, <1>11, <1>14, <2>1, Constants
  <2>4. SumFunction(Offs)' <= c + 1
    <3>1. SumFunction(Offs) <= c /\ DiskType /\ DiskType' /\ Root \in Inums /\ 1 \in Nat
      BY <2>2, Constants DEF CountInv, OffsSmall, DirInv
    <3> QED
      BY <2>3, <3>1, OffsMoved
  <2>5. SumFunction(Offs)' <= crashes' + nameless'
    BY <1>4, <2>1, <2>2, <2>4
  <2>6. \A d \in Inums \ {Root} : OffOf(d)' <= crashes'
    <3>1. (\A i \in Inums : OffOf(i) \in Nat) /\ (\A i \in Inums : OffOf(i)' \in Nat)
      BY OffNat, OffNatNext
    <3>2. \A d \in Inums \ {Root} : OffOf(d) <= crashes
      BY DEF CountInv, OffsSmall
    <3> QED
      BY <1>4, <2>1, <2>3, <3>1, <3>2
  <2>7. Falls
    BY <2>1, <2>3 DEF Falls
  <2> QED
    BY <1>7, <1>17, <2>5, <2>6, <2>7 DEF CountInv, OffsSmall
<1> QED
  BY <1>13, <1>14

LEMMA CountCountEntry == ASSUME DirInv, DirInv', CountInv, CountEntry PROVE CountInv' /\ Falls
<1>1. /\ dir \in DOMAIN core /\ dir \in Inums /\ core[dir].in_use /\ core[dir].type = "dir"
      /\ inode[dir].in_use /\ DOMAIN core \subseteq Inums
  BY Adding DEF CountEntry, DirInv, RestType
<1>2. /\ pc = "count" /\ crashes' = crashes /\ nameless' = nameless /\ slots' = slots
      /\ inode' = [inode EXCEPT ![dir] = core[dir]]
      /\ \/ pc' = "idle"
         \/ /\ pc' \in {"node", "add"} /\ node' = node
            /\ ~(Tail(calls) = <<>> /\ IsSymlink)
            /\ core' = IF call.name = ".."
                       THEN [core EXCEPT ![call.inum].refcount = @ + 1, ![dir].refcount = @ + 1]
                       ELSE core
  BY Zenon DEF CountEntry, Return
<1>3. \A x \in Inums : inode'[x] = IF x = dir THEN core[dir] ELSE inode[x]
  BY <1>2 DEF DirInv, DiskType
<1>4. \A x \in DOMAIN core : /\ inode[x].num_direntries \in Nat
                             /\ core[x].num_direntries = inode[x].num_direntries + IF x = dir THEN 1 ELSE 0
  BY <1>1, <1>2, OffsType DEF DirInv, CountInv, CoreCounts
<1>5. \A x \in Inums : inode'[x].num_direntries = NumOf(x)
  BY <1>1, <1>2, <1>3, <1>4 DEF NumOf
<1>6. inode[dir].type = "dir"
  <2>1. CASE dir # node
    BY <2>1, Adding, <1>2 DEF CountEntry
  <2>2. CASE dir = node
    <3>1. PICK d \in Inums, n \in BaseNames : Making(d, n) \/ NoNode(d, n)
      BY <1>2 DEF DirInv, Phases
    <3>2. Making(d, n)
      BY <1>1, <2>2, <3>1, Constants DEF NoNode
    <3>3. Len(calls) \in 1 .. 3 /\ Len(calls) # 1
      BY <2>2, <3>2, CallOf DEF Making
    <3>4. Left \in {1, 2}
      BY <1>2, <3>3 DEF Left
    <3>5. slots[node] \in Begun(node, d, Left)
      BY <1>1, <2>2, <3>2 DEF Making
    <3>6. slots[node] = DotBlock(node, d, Left)
      BY <3>4, <3>5 DEF Begun
    <3>7. 1 \in DOMAIN slots[node]
      BY <3>6, Constants DEF DotBlock
    <3>8. slots[node] # <<>>
      BY <3>7
    <3> QED
      BY <1>1, <2>2, <3>8 DEF DirInv, Homes
  <2> QED
    BY <2>1, <2>2
<1>7. CoreCounts'
  <2>1. \A i \in Inums : inode'[i].type # "dir" => inode'[i].num_direntries = 0
    BY <1>1, <1>3 DEF CountInv, CoreCounts
  <2>2. ASSUME pc' # "idle"
        PROVE  DOMAIN core' = DOMAIN core
               /\ \A x \in DOMAIN core : core'[x].num_direntries = core[x].num_direntries
    <3>1. \A x \in DOMAIN core : core[x] \in InodeRecord
      BY <1>2 DEF DirInv, Cores
    <3>2. DOMAIN core' = DOMAIN core
      BY <1>2, <2>2
    <3>3. CASE call.name # ".."
      BY <1>2, <2>2, <3>3
    <3>4. CASE call.name = ".."
      <4>1. PICK d \in Inums, n \in BaseNames : Making(d, n) \/ NoNode(d, n)
        BY <1>2 DEF DirInv, Phases
      <4>2. Making(d, n)
        <5>1. NoNode(d, n) => Tail(calls) = <<>> /\ IsSymlink
          BY DEF NoNode, IsSymlink
        <5> QED
          BY <1>2, <2>2, <4>1, <5>1
      <4>3. call = Call(node, "..", d) /\ dir = node /\ d # node /\ DOMAIN core = {d, node}
        <5>1. dir = node
          <6>1. ".." \notin Names
            BY Constants
          <6>2. CASE Len(calls) = 1
            <7>1. Tail(calls) = <<>> /\ call = Call(d, n, node)
              BY <4>2, <6>2, CallOf DEF Making
            <7>2. ~IsSymlink /\ n = ".."
              BY <1>2, <2>2, <3>4, <7>1 DEF Call
            <7> QED
              BY <4>2, <6>1, <7>2 DEF Making, Named
          <6>3. CASE Len(calls) # 1
            BY <4>2, <6>3, CallOf DEF Making
          <6> QED
            BY <6>2, <6>3
        <5>2. call.name # "."
          BY <3>4
        <5>3. Call(node, ".", node).name = "." /\ node # d
          BY <4>2 DEF Call, Making
        <5> QED
          BY <4>2, <5>1, <5>2, <5>3, CallOf DEF Making
      <4>4. core' = [core EXCEPT ![d].refcount = @ + 1, ![node].refcount = @ + 1]
        BY <1>2, <2>2, <3>4, <4>3 DEF Call
      <4> QED
        BY <3>1, <4>3, <4>4 DEF InodeRecord
    <3> QED
      BY <3>2, <3>3, <3>4
  <2>3. pc' # "count"
    BY <1>2
  <2> QED
    BY <1>1, <1>3, <1>4, <2>1, <2>2, <2>3 DEF CoreCounts
<1>8. \A x \in Inums : NumOf(x)' = NumOf(x) /\ (IsDirectory(x)' => IsDirectory(x))
  <2>1. pc' \notin {"count", "drop", "uncount"}
    BY <1>2
  <2>2. \A x \in Inums : NumOf(x)' = inode'[x].num_direntries
    BY <2>1 DEF NumOf
  <2> QED
    BY <1>1, <1>3, <1>5, <1>6, <2>2 DEF IsDirectory
<1>9. Creating' => node' = node /\ (Creating \/ node \notin Inums)
  BY <1>2 DEF Creating
<1> QED
  BY <1>2, <1>7, <1>8, <1>9, CountSame DEF CountInv

(* The hole and the count that the inode is about to lose.                 *)
LEMMA CountRemoveEntry ==
    ASSUME DirInv, DirInv', CountInv, NEW kind \in {"unlink", "rmdir"}, NEW d \in Inums,
           IsDirectory(d), NEW n \in Names, RemoveEntry(kind, d, n)
    PROVE  CountInv' /\ Falls
<1> DEFINE f == FirstSlot(SlotsNamed(d, n))
<1>1. PICK i \in Inums : /\ i = Lookup(d, n) /\ node' = i
                        /\ f \in 1 .. Len(slots[d]) /\ slots[d][f].name = n
  BY LookupIs DEF RemoveEntry, DirInv
<1>2. /\ inode' = inode /\ slots' = [slots EXCEPT ![d] = [slots[d] EXCEPT ![f] = Hole]]
      /\ core' = [x \in {d} |-> [inode[d] EXCEPT
                      !.n_bytes = (inode[d].n_bytes + SizeModulus - 1) % SizeModulus]]
      /\ calls' = <<Call(d, n, i)>> /\ pc = "idle" /\ pc' = "drop"
      /\ crashes' = crashes /\ nameless' = nameless
  BY <1>1 DEF RemoveEntry, Idle
<1> HIDE DEF f
<1>3. dir' = d
  BY <1>2 DEF dir, call, Call
<1>4. SetSlot(d, f, Hole) /\ DiskType
  BY <1>2 DEF SetSlot, DirInv
<1>5. \A y \in Inums : /\ Len(slots'[y]) = Len(slots[y])
                       /\ y # d => slots'[y] = slots[y]
                       /\ \A s \in 1 .. Len(slots[y]) :
                              slots'[y][s] = IF y = d /\ s = f THEN Hole ELSE slots[y][s]
  BY <1>1, <1>4, HoleType, SlotSet
<1>10. \A x \in Inums : Counted(x)' => Counted(x)
  <2>1. \A y \in Inums : \A s : s \in Linking(y)' <=>
            IF y = d /\ s = f THEN Hole.name \in Names /\ Hole.inum \in Inums
            ELSE s \in Linking(y)
    BY <1>1, <1>4, HoleType, SlotSet
  <2>2. \A y \in Inums : \A s \in Linking(y)' :
            s \in Linking(y) /\ slots'[y][s] = slots[y][s]
    BY <1>5, <2>1, HoleType, Constants, SlotsType DEF DirInv
  <2>3. Unnamed
    BY <2>2, Shrunk DEF Unnamed
  <2>4. ~Creating'
    BY <1>2 DEF Creating
  <2> QED
    BY <2>3, <2>4, CountedKept
<1>6. CoreCounts'
  <2>1. inode[d] \in InodeRecord
    BY DEF DirInv, DiskType
  <2>2. DOMAIN core' = {d} /\ core'[d].num_direntries = inode[d].num_direntries
    BY <1>2, <2>1 DEF InodeRecord
  <2>3. inode[d].num_direntries \in Nat
    BY OffsType DEF DirInv
  <2> QED
    BY <1>2, <2>2, <2>3 DEF CountInv, CoreCounts
<1>7. \A x \in Inums : /\ IsDirectory(x)' <=> IsDirectory(x)
                       /\ NumOf(x) = inode[x].num_direntries
                       /\ NumOf(x)' = IF x = d THEN Pred(inode[x].num_direntries)
                                      ELSE inode[x].num_direntries
  BY <1>2, <1>3 DEF NumOf, IsDirectory
<1>8. ASSUME NEW x \in Inums, x # d PROVE OffOf(x)' <= OffOf(x)
  BY <1>5, <1>7, <1>8, <1>10, OffKept
<1>9. OffOf(d)' <= OffOf(d) /\ RootFull'
  <2>1. /\ EntriesOf(d) \subseteq 1 .. Len(slots[d]) /\ IsFiniteSet(EntriesOf(d))
        /\ \A s \in 1 .. Len(slots[d]) : s \in EntriesOf(d) <=> slots[d][s].name # NoName
    BY EntriesType DEF DirInv
  <2> DEFINE old == EntriesOf(d)
             new == EntriesOf(d)'
  <2>2. DOMAIN slots'[d] = 1 .. Len(slots[d])
    <3>1. slots'[d] \in Seq(Slot)
      BY DEF DirInv, DiskType
    <3> QED
      BY <1>5, <3>1
  <2>3. /\ new \subseteq 1 .. Len(slots[d])
        /\ \A s \in 1 .. Len(slots[d]) : s \in new <=> slots'[d][s].name # NoName
    BY <2>2 DEF EntriesOf
  <2>4. \A s \in 1 .. Len(slots[d]) : s \in new <=> s # f /\ s \in old
    BY <1>5, <2>1, <2>3, HoleType
  <2>5. f \in old
    BY <1>1, <2>1, Constants
  <2>6. old \subseteq 1 .. Len(slots[d]) /\ IsFiniteSet(old)
    BY <2>1
  <2> HIDE DEF old, new
  <2>7. old = new \union {f} /\ f \notin new /\ new \subseteq old
    BY <1>1, <2>3, <2>4, <2>5, <2>6
  <2>8. IsFiniteSet(new)
    BY <2>6, <2>7, FS_Subset
  <2> DEFINE c == Cardinality(new)
  <2>9. Cardinality(old) = c + 1 /\ c \in Nat
    BY <2>7, <2>8, OneMore
  <2>10. inode[d].num_direntries \in Nat
    BY OffsType DEF DirInv
  <2>13. RootFull'
    <3>1. CASE d = Root
      <4>1. PICK m : m = inode[d].num_direntries
        OBVIOUS
      <4>2. NumOf(d) = m /\ NumOf(d)' = Pred(m) /\ m \in Nat
        BY <1>7, <2>10, <4>1
      <4>3. crashes = 0 => c + 1 <= m
        BY <2>9, <3>1, <4>2 DEF CountInv, OffsSmall, RootFull, old
      <4>4. Cardinality(EntriesOf(d))' = c
        BY DEF new
      <4> HIDE DEF c
      <4>5. crashes = 0 => c <= Pred(m)
        BY <2>9, <4>2, <4>3 DEF Pred
      <4>6. crashes' = 0 => Cardinality(EntriesOf(d))' <= NumOf(d)'
        BY <1>2, <4>2, <4>4, <4>5
      <4> QED
        BY <3>1, <4>6 DEF RootFull
    <3>2. CASE d # Root
      <4>1. slots'[Root] = slots[Root] /\ NumOf(Root)' = NumOf(Root)
        BY <1>5, <1>7, <3>2, Constants
      <4> QED
        BY <1>2, <4>1, RootSame
    <3> QED
      BY <3>1, <3>2
  <2>11. CASE Counted(d)'
    <3>1. /\ OffOf(d) = Dist(c + 1, inode[d].num_direntries)
          /\ OffOf(d)' = Dist(c, Pred(inode[d].num_direntries))
      BY <1>7, <1>10, <2>9, <2>11 DEF OffOf, old, new
    <3> HIDE DEF c
    <3>2. OffOf(d)' <= OffOf(d)
      BY <2>9, <2>10, <3>1 DEF Dist, Pred
    <3> QED
      BY <2>13, <3>2
  <2>12. CASE ~Counted(d)'
    BY <2>12, <2>13, OffNat DEF OffOf
  <2> QED
    BY <2>11, <2>12, <2>13
<1>11. \A x \in Inums : OffOf(x)' <= OffOf(x)
  BY <1>8, <1>9
<1> QED
  BY <1>2, <1>6, <1>9, <1>11, CountMoved DEF CountInv

(* What the inode of the directory was about to get is lost.               *)
LEMMA CountCrash == ASSUME DirInv, DirInv', CountInv, Crash PROVE CountInv'
<1>1. /\ pc' = "idle" /\ inode' = inode /\ slots' = slots
      /\ crashes' = crashes + 1 /\ nameless' = nameless
  BY DEF Crash, Return
<1>2. CoreCounts'
  BY <1>1 DEF CountInv, CoreCounts
<1>3. \A x \in Inums : /\ IsDirectory(x)' <=> IsDirectory(x)
                       /\ EntriesOf(x)' = EntriesOf(x)
                       /\ NumOf(x)' = inode[x].num_direntries
  BY <1>1 DEF NumOf, IsDirectory, EntriesOf
<1>4. \A x \in Inums : Cardinality(EntriesOf(x)) \in Nat /\ inode[x].num_direntries \in Nat
  BY EntriesType, OffsType DEF DirInv
<1>5. PICK x \in Inums : \A y \in Inums : y # x => NumOf(y) = inode[y].num_direntries
  <2>1. CASE pc \in {"count", "drop", "uncount"}
    <3>1. dir \in Inums
      <4>1. CASE pc = "count"
        BY <4>1, Adding
      <4>2. CASE pc # "count"
        <5>1. PICK d \in Inums, n \in Names : Removing(d, n)
          BY <2>1, <4>2 DEF DirInv, Phases
        <5> QED
          BY <5>1 DEF Removing, dir, call, Call
      <4> QED
        BY <4>1, <4>2
    <3> QED
      BY <3>1 DEF NumOf
  <2>2. CASE pc \notin {"count", "drop", "uncount"}
    BY <2>2, Constants DEF NumOf
  <2> QED
    BY <2>1, <2>2
<1>6. \A y \in Inums : (Counted(y)' => Counted(y)) /\ OffOf(y) \in Nat /\ OffOf(y)' \in Nat
  <2>1. ~Creating'
    BY <1>1 DEF Creating
  <2> QED
    BY <1>1, <2>1, SlotsUnnamed, CountedKept, OffNat, OffNatNext
<1>7. \A y \in Inums : y # x => OffOf(y)' <= OffOf(y)
  <2> SUFFICES ASSUME NEW y \in Inums, y # x PROVE OffOf(y)' <= OffOf(y)
    OBVIOUS
  <2>1. NumOf(y)' = NumOf(y) /\ (IsDirectory(y)' => IsDirectory(y)) /\ slots'[y] = slots[y]
    BY <1>1, <1>3, <1>5
  <2> QED
    BY <1>6, <2>1, OffKept
<1>8. OffOf(x)' <= OffOf(x) + 1
  <2> DEFINE c == Cardinality(EntriesOf(x))
             m == inode[x].num_direntries
  <2>1. NumOf(x) \in {m, m + 1, Pred(m)}
    BY DEF NumOf
  <2>2. c \in Nat /\ m \in Nat
    BY <1>4
  <2>3. CASE (IsDirectory(x) /\ Counted(x))'
    <3>1. OffOf(x) = Dist(c, NumOf(x)) /\ OffOf(x)' = Dist(c, m)
      BY <1>3, <1>6, <2>3 DEF OffOf
    <3> HIDE DEF c, m
    <3> QED
      BY <2>1, <2>2, <3>1 DEF Dist, Pred
  <2>4. CASE ~(IsDirectory(x) /\ Counted(x))'
    BY <1>6, <2>4 DEF OffOf
  <2> QED
    BY <2>3, <2>4
<1>9. DiskType /\ DiskType' /\ crashes \in Nat /\ nameless \in Nat
  BY DEF DirInv, RestType
<1>10. PICK c \in Nat : c = crashes + nameless
  BY <1>9
<1>11. SumFunction(Offs)' <= c + 1
  <2>1. SumFunction(Offs) <= c /\ 1 \in Nat
    BY <1>10 DEF CountInv, OffsSmall
  <2> QED
    BY <1>7, <1>8, <1>9, <2>1, OffsMoved
<1>12. SumFunction(Offs)' <= crashes' + nameless'
  BY <1>1, <1>9, <1>10, <1>11
<1>13. \A y \in Inums \ {Root} : OffOf(y)' <= crashes'
  <2>1. \A y \in Inums \ {Root} : OffOf(y) <= crashes
    BY DEF CountInv, OffsSmall
  <2>2. \A y \in Inums : OffOf(y)' <= OffOf(y) + 1
    BY <1>6, <1>7, <1>8
  <2> QED
    BY <1>1, <1>6, <1>9, <2>1, <2>2
<1>14. RootFull'
  BY <1>1, <1>9 DEF RootFull
<1> QED
  BY <1>2, <1>12, <1>13, <1>14 DEF CountInv, OffsSmall

LEMMA CountStutter == ASSUME CountInv, UNCHANGED dirVars PROVE CountInv'
<1>1. /\ inode' = inode /\ slots' = slots /\ pc' = pc /\ core' = core /\ calls' = calls
      /\ crashes' = crashes /\ nameless' = nameless /\ node' = node
  BY DEF dirVars
<1>2. dir' = dir
  BY <1>1 DEF dir, call
<1>3. CoreCounts'
  BY <1>1, <1>2 DEF CountInv, CoreCounts
<1>4. \A d \in Inums : OffOf(d)' = OffOf(d)
  BY <1>1, <1>2 DEF OffOf, NumOf, IsDirectory, EntriesOf, Counted, Creating, Unlinked, Linking
<1>5. Offs' = Offs
  BY <1>4 DEF Offs
<1>6. NumOf(Root)' = NumOf(Root)
  BY <1>1, <1>2 DEF NumOf
<1>7. RootFull'
  BY <1>1, <1>6, RootSame
<1> QED
  BY <1>1, <1>3, <1>4, <1>5, <1>7 DEF CountInv, OffsSmall

LEMMA CountStep == ASSUME DirInv, CountInv, [DirNext]_dirVars PROVE CountInv'
<1>1. DirInv' /\ \A d \in Directories : d \in Inums /\ IsDirectory(d)
  BY InvStep, DirectoriesAre
<1>2. ASSUME NEW d \in Directories, NEW n \in BaseNames, NEW i \in Inums,
             NEW kind \in {"file", "dir", "symlink"}, Allocate(kind, d, n, i)
      PROVE  CountInv'
  BY <1>1, <1>2, CountAllocate
<1>3. ASSUME NEW d \in Directories, NEW n \in Names,
             NEW kind \in {"unlink", "rmdir"}, RemoveEntry(kind, d, n)
      PROVE  CountInv'
  BY <1>1, <1>3, CountRemoveEntry
<1>4. ASSUME NEW d \in Directories, NEW n \in Names, CreateFails(d, n) PROVE CountInv'
  BY <1>4, CountStutter DEF CreateFails
<1>5. CASE Query \/ UNCHANGED dirVars
  BY <1>5, CountStutter DEF Query
<1> QED
  BY <1>1, <1>2, <1>3, <1>4, <1>5, CountSymlinkWithoutInode, CountWriteSymlink, CountPop,
     CountGrow, CountAddFails, CountWriteEntry, CountCountEntry, CountWriteNode, CountUndo,
     CountReleaseBlock, CountDropReference, CountUncountEntry, CountCrash DEF DirNext

LEMMA CountInvariant == DirSpec => [](DirInv /\ CountInv)
<1>1. DirInit => DirInv /\ CountInv
  BY InvInit, CountInit
<1>2. DirInv /\ CountInv /\ [DirNext]_dirVars => (DirInv /\ CountInv)'
  BY InvStep, CountStep
<1> QED
  BY <1>1, <1>2, PTL DEF DirSpec

(* The directories that paths lead to are in the count.                    *)
LEMMA PathsCounted == ASSUME DirInv PROVE \A d \in Directories : d \in Inums /\ Counted(d)
<1> SUFFICES ASSUME NEW d \in Directories PROVE d \in Inums /\ Counted(d)
  OBVIOUS
<1>1. d \in Inums /\ d \in Attached
  BY DirectoriesAre, DirectoriesAttached
<1> QED
  BY <1>1, UnlinkedAre DEF Counted

(* Between two operations the numbers of entries that the inodes of the    *)
(* directories hold, those that paths lead to, are off by no more, all     *)
(* together, than there were crashes and entries with an empty name; and   *)
(* without a crash by nothing, but for the root's: property CountsRight.   *)
THEOREM CountedRight == DirSpec => []CountsRight
<1>1. ASSUME DirInv, CountInv PROVE CountsRight
  <2>1. DirTypeOK
    BY <1>1 DEF DirInv, DiskType, RestType, DirTypeOK, InodeRecord, Slot
  <2>2. ASSUME Idle
        PROVE  \A d \in Directories : d \in Inums /\ OffOf(d) = Off(d)
    BY <1>1, <2>2, PathsCounted, DirectoriesAre DEF OffOf, Off, Dist, NumOf, Idle
  <2>3. ASSUME Idle
        PROVE  SumFunction([d \in Inums |-> IF d \in Directories THEN Off(d) ELSE 0])
                   <= crashes + nameless
    <3> DEFINE h == [d \in Inums |-> IF d \in Directories THEN Off(d) ELSE 0]
    <3>1. \A d \in Inums : Offs[d] = OffOf(d) /\ OffOf(d) \in Nat
      BY <1>1, OffNat DEF Offs
    <3>2. \A d \in Inums : h[d] \in Nat /\ h[d] <= Offs[d]
      BY <2>2, <2>3, <3>1
    <3>3. h \in [Inums -> Nat]
      BY <3>2
    <3>4. Offs \in [Inums -> Nat] /\ IsFiniteSet(Inums) /\ crashes + nameless \in Nat
          /\ SumFunction(Offs) \in Nat /\ SumFunction(Offs) <= crashes + nameless
      BY <1>1, OffsType, LengthsType DEF DirInv, RestType, CountInv, OffsSmall
    <3> HIDE DEF h
    <3>5. SumFunction(h) <= SumFunction(Offs) /\ SumFunction(h) \in Nat
      BY <3>2, <3>3, <3>4, SumLess, SumNat
    <3>6. SumFunction(h) <= crashes + nameless
      BY <3>4, <3>5
    <3> QED
      BY <3>6 DEF h
  <2>4. ASSUME Idle, crashes = 0, NEW d \in Directories \ {Root} PROVE Off(d) = 0
    <3>1. d \in Inums \ {Root} /\ OffOf(d) = Off(d) /\ OffOf(d) \in Nat
      BY <1>1, <2>2, <2>4, OffNat
    <3>2. OffOf(d) <= 0
      BY <1>1, <2>4, <3>1 DEF CountInv, OffsSmall
    <3> QED
      BY <3>1, <3>2
  <2> QED
    BY <2>1, <2>3, <2>4 DEF CountsRight
<1> QED
  BY <1>1, CountInvariant, PTL

-----------------------------------------------------------------------------
(* The links until the first crash                                         *)
TreeInv ==
    /\ Creating /\ Left > 0 /\ node # Missing => calls[Len(calls)].dir \in Attached
    /\ pc \in {"drop", "uncount"} /\ crashes = 0 => Linking(node) = {}

(* A directory that is being made has no links of its own.                 *)
LEMMA MadeEmpty == ASSUME DiskType, NEW d, NEW n, Making(d, n) PROVE Linking(node) = {}
<1>1. node \in Inums
  BY DEF Making
<1>2. ASSUME NEW s \in 1 .. Len(slots[node]) PROVE slots[node][s].name \notin Names
  <2>1. slots[node] \in Begun(node, d, Left)
    BY <1>2 DEF Making
  <2>2. slots[node] \in {EmptyBlock, DotBlock(node, d, Left)}
    BY <1>2, <2>1 DEF Begun
  <2>3. slots[node][s] \in {Hole, Entry(".", node), Entry("..", d)}
    <3>1. CASE slots[node] = EmptyBlock
      BY <1>2, <3>1, EmptyBlockType
    <3>2. CASE slots[node] = DotBlock(node, d, Left)
      <4>1. DOMAIN slots[node] = 1 .. EntriesPerBlock /\ DOMAIN slots[node] = 1 .. Len(slots[node])
        BY <1>1, <3>2, SlotsType DEF DotBlock
      <4> QED
        BY <1>2, <3>2, <4>1 DEF DotBlock
    <3> QED
      BY <2>2, <3>1, <3>2
  <2> QED
    BY <2>3, Constants, HoleType DEF Entry
<1> QED
  BY <1>1, <1>2, SlotsType, LinkingIs

LEMMA LastCall ==
    ASSUME NEW d, NEW n, Making(d, n)
    PROVE  calls[Len(calls)] = Call(d, n, node) /\ calls[Len(calls)].dir = d
<1>1. Len(calls) \in {1, 2, 3} /\ calls = Script(d, n, node, Len(calls))
  BY DEF Making
<1>2. calls[Len(calls)] = Call(d, n, node)
  <2>1. CASE Len(calls) = 1
    BY <1>1, <2>1 DEF Script
  <2>2. CASE Len(calls) = 2
    BY <1>1, <2>2 DEF Script
  <2>3. CASE Len(calls) = 3
    BY <1>1, <2>3 DEF Script
  <2> QED
    BY <1>1, <2>1, <2>2, <2>3
<1> QED
  BY <1>2 DEF Call

(* Steps that leave the links alone.                                       *)
LEMMA TreeReturn == ASSUME Return PROVE TreeInv'
  BY DEF Return, TreeInv, Creating

LEMMA TreeAllocate ==
    ASSUME DirInv, DirInv', NEW kind \in {"file", "dir", "symlink"}, NEW d \in Directories,
           NEW n \in BaseNames, NEW i \in Inums, Allocate(kind, d, n, i)
    PROVE  TreeInv' /\ Links' = Links
<1>1. slots' = slots /\ pc' \in {"symlink", "add"} /\ calls' = CallsFor(kind, d, n, i)
  BY DEF Allocate
<1>2. Links' = Links /\ Attached' = Attached
  BY <1>1, SlotsKept
<1>3. d \in Attached
  BY DirectoriesAttached
<1>4. calls'[Len(calls')] = Call(d, n, i)
  <2>1. CASE kind = "dir"
    BY <1>1, <2>1 DEF CallsFor
  <2>2. CASE kind # "dir"
    BY <1>1, <2>2 DEF CallsFor
  <2> QED
    BY <2>1, <2>2
<1> QED
  BY <1>1, <1>2, <1>3, <1>4 DEF TreeInv, Call

LEMMA TreeSymlinkWithoutInode ==
    ASSUME DirInv, DirInv', NEW n \in BaseNames, SymlinkWithoutInode(n)
    PROVE  TreeInv' /\ Links' = Links
<1>1. slots' = slots /\ pc' = "add" /\ node' = Missing
  BY DEF SymlinkWithoutInode, Idle, DirInv, Phases
<1> QED
  BY <1>1, SlotsKept DEF TreeInv

LEMMA TreeWriteSymlink ==
    ASSUME DirInv, DirInv', TreeInv, WriteSymlink PROVE TreeInv' /\ Links' = Links
<1>1. slots' = slots /\ pc = "symlink" /\ pc' = "add" /\ calls' = calls /\ node' = node
  BY DEF WriteSymlink
<1>2. Links' = Links /\ Attached' = Attached
  BY <1>1, SlotsKept
<1>3. Left' = Left
  BY <1>1 DEF Left
<1> QED
  BY <1>1, <1>2, <1>3 DEF TreeInv, Creating

LEMMA TreeAddFails ==
    ASSUME DirInv, DirInv', TreeInv, AddFails PROVE TreeInv' /\ Links' = Links
<1>1. slots' = slots /\ pc = "add"
  BY DEF AddFails
<1>2. Links' = Links /\ Attached' = Attached
  BY <1>1, SlotsKept
<1>3. CASE Return
  BY <1>2, <1>3, TreeReturn
<1>4. CASE pc' = "undo" /\ UNCHANGED <<node, core, calls>>
  <2>1. Left' = Left
    BY <1>1, <1>4 DEF Left
  <2> QED
    BY <1>1, <1>2, <1>4, <2>1 DEF TreeInv, Creating
<1>5. Return \/ (pc' = "undo" /\ UNCHANGED <<node, core, calls>>)
  BY Zenon DEF AddFails
<1> QED
  BY <1>3, <1>4, <1>5

LEMMA TreePop == ASSUME DirInv, DirInv', TreeInv, Pop PROVE TreeInv' /\ Links' = Links
<1>1. slots' = slots /\ pc' = pc /\ calls' = calls /\ node' = node /\ crashes' = crashes
  BY DEF Pop
<1>2. Links' = Links /\ Attached' = Attached
  BY <1>1, SlotsKept
<1>3. Linking(node)' = Linking(node) /\ Left' = Left
  BY <1>1 DEF Linking, Left
<1> QED
  BY <1>1, <1>2, <1>3 DEF TreeInv, Creating

LEMMA TreeGrow == ASSUME DirInv, DirInv', TreeInv, Grow PROVE TreeInv' /\ Links' = Links
<1>1. pc = "add" /\ pc' = "add" /\ calls' = calls /\ node' = node
  BY DEF Grow
<1>2. Links' = Links
  BY GrowLinks, LinksKept DEF LinkingSame
<1>3. Left' = Left /\ Attached' = Attached
  BY <1>1, <1>2 DEF Left, Attached
<1> QED
  BY <1>1, <1>2, <1>3 DEF TreeInv, Creating

LEMMA TreeCountEntry ==
    ASSUME DirInv, DirInv', TreeInv, CountEntry PROVE TreeInv' /\ Links' = Links
<1>1. slots' = slots /\ pc = "count" /\ (Return \/ (pc' \in {"node", "add"} /\ calls' = Tail(calls) /\ node' = node))
  BY Zenon DEF CountEntry
<1>2. Links' = Links /\ Attached' = Attached
  BY <1>1, SlotsKept
<1>3. ASSUME pc' = "add", calls' = Tail(calls), node' = node, node # Missing, Left' > 0
      PROVE  calls'[Len(calls')].dir \in Attached'
  <2>1. PICK d \in Inums, n \in BaseNames : Making(d, n)
    BY <1>1, <1>3 DEF DirInv, Phases, NoNode
  <2>2. Len(calls) \in 1 .. 3 /\ Left = Len(calls) - 1 /\ Left' = Len(Tail(calls))
    BY <1>1, <1>3, <2>1, CallOf DEF Left
  <2>3. /\ Len(calls) = 3 => Tail(calls) = Script(d, n, node, 2)
        /\ Len(calls) = 2 => Tail(calls) = Script(d, n, node, 1)
        /\ Len(calls) = 1 => Tail(calls) = <<>>
    BY <2>1, CallOf
  <2> DEFINE rest == Tail(calls)
  <2> HIDE DEF rest
  <2>4. Len(rest) = Left /\ Left > 0 /\ rest[Len(rest)] = Call(d, n, node)
    <3>0. Len(rest) = Left /\ Left > 0
      BY <1>3, <2>2 DEF rest
    <3>1. CASE Len(calls) = 3
      <4>1. rest = <<Call(node, "..", d), Call(d, n, node)>>
        BY <2>3, <3>1 DEF Script, rest
      <4>2. Len(rest) = 2 /\ rest[2] = Call(d, n, node)
        BY <4>1
      <4> QED
        BY <3>0, <4>2
    <3>2. CASE Len(calls) = 2
      <4>1. rest = <<Call(d, n, node)>>
        BY <2>3, <3>2 DEF Script, rest
      <4>2. Len(rest) = 1 /\ rest[1] = Call(d, n, node)
        BY <4>1
      <4> QED
        BY <3>0, <4>2
    <3> QED
      BY <2>2, <3>0, <3>1, <3>2
  <2>5. d \in Attached
    BY <1>1, <1>3, <2>1, <2>4, LastCall DEF TreeInv, Creating
  <2>6. calls' = rest
    BY <1>3 DEF rest
  <2> QED
    BY <1>2, <2>4, <2>5, <2>6 DEF Call
<1>4. CASE Return
  BY <1>2, <1>4, TreeReturn
<1>5. CASE pc' \in {"node", "add"} /\ calls' = Tail(calls) /\ node' = node
  BY <1>2, <1>3, <1>5 DEF TreeInv, Creating
<1> QED
  BY <1>1, <1>4, <1>5

(* The inode that is freed has no links of its own.                        *)
LEMMA LinksEmptied ==
    ASSUME DirInv, DirInv', node \in Inums, Linking(node) = {},
           slots' = [slots EXCEPT ![node] = <<>>]
    PROVE  Links' = Links /\ LinkingSame
<1>1. \A x \in Inums : slots'[x] = IF x = node THEN <<>> ELSE slots[x]
  BY DEF DirInv, DiskType
<1>2. ASSUME NEW x \in Inums
      PROVE  Linking(x)' = Linking(x) /\ \A s \in Linking(x) : slots'[x][s] = slots[x][s]
  <2>1. CASE x = node
    <3>1. DOMAIN slots'[x] = {}
      BY <1>1, <2>1
    <3> QED
      BY <2>1, <3>1 DEF Linking
  <2>2. CASE x # node
    BY <1>1, <2>2 DEF Linking
  <2> QED
    BY <2>1, <2>2
<1> QED
  BY <1>2, LinksKept DEF LinkingSame

LEMMA TreeUndo == ASSUME DirInv, DirInv', Undo PROVE TreeInv' /\ Links' = Links
<1>1. PICK d \in Inums, n \in BaseNames : Making(d, n)
  BY DEF Undo, DirInv, Phases, NoNode
<1>2. node \in Inums /\ Linking(node) = {}
  BY <1>1, MadeEmpty DEF Making, DirInv
<1> QED
  BY <1>2, LinksEmptied, TreeReturn DEF Undo

(* A block of an inode without links of its own is given back.             *)
LEMMA ReleaseLinks ==
    ASSUME DirInv, DirInv', ReleaseBlock, Linking(node) = {}
    PROVE  Links' = Links /\ LinkingSame /\ Linking(node)' = {}
<1>1. PICK x \in Inums : x = node
  BY DEF ReleaseBlock, LastReference, DirInv, Phases, Removing
<1>2. slots[x] # <<>> /\ slots' = [slots EXCEPT ![x] = AllButFirst(slots[x])] /\ node' = node
  BY <1>1 DEF ReleaseBlock
<1>3. /\ \A y \in Inums : \A s \in Linking(y)' :
             /\ s \in Nat
             /\ \E t \in Linking(y) : /\ slots'[y][s] = slots[y][t]
                                      /\ t = IF y = x THEN s + EntriesPerBlock ELSE s
      /\ \A y \in Inums : y # x => Linking(y)' = Linking(y)
  BY <1>2, ReleasedLinks
<1>4. Linking(x) = {}
  BY <1>1
<1>5. Linking(x)' = {}
  BY <1>3, <1>4
<1>6. \A y \in Inums : y # x => slots'[y] = slots[y]
  BY <1>2 DEF DirInv, DiskType
<1>7. LinkingSame
  <2> SUFFICES ASSUME NEW y \in Inums
               PROVE  Linking(y)' = Linking(y) /\ \A s \in Linking(y) : slots'[y][s] = slots[y][s]
    BY DEF LinkingSame
  <2>1. CASE y = x
    BY <1>4, <1>5, <2>1
  <2>2. CASE y # x
    BY <1>3, <1>6, <2>2
  <2> QED
    BY <2>1, <2>2
<1>8. Linking(node)' = {}
  BY <1>1, <1>2, <1>5 DEF Linking
<1> QED
  BY <1>7, <1>8, LinksKept DEF LinkingSame

LEMMA TreeReleaseBlock ==
    ASSUME DirInv, DirInv', TreeInv, crashes = 0, ReleaseBlock PROVE TreeInv' /\ Links' = Links
<1>1. pc = "drop" /\ pc' = "drop" /\ Linking(node) = {}
  BY DEF ReleaseBlock, LastReference, TreeInv
<1>2. Links' = Links /\ Linking(node)' = {}
  BY <1>1, ReleaseLinks
<1> QED
  BY <1>1, <1>2 DEF TreeInv, Creating

LEMMA TreeDropReference ==
    ASSUME DirInv, DirInv', TreeInv, crashes = 0, DropReference PROVE TreeInv' /\ Links' = Links
<1>1. pc = "drop" /\ pc' = "uncount" /\ node' = node /\ slots' = slots /\ Linking(node) = {}
  BY DEF DropReference, TreeInv
<1>2. Links' = Links
  BY <1>1, SlotsKept
<1>3. Linking(node)' = {}
  BY <1>1 DEF Linking
<1> QED
  BY <1>1, <1>2, <1>3 DEF TreeInv, Creating

LEMMA TreeWriteEntry ==
    ASSUME DirInv, DirInv', TreeInv, WriteEntry
    PROVE  TreeInv' /\ (NS!TreeNext \/ Links' = Links)
<1> DEFINE f == FirstSlot(Holes(dir))
<1>1. /\ \A y \in Inums : \A s : s \in Linking(y)' <=>
             IF y = dir /\ s = f THEN call.name \in Names /\ call.inum \in Inums
             ELSE s \in Linking(y)
      /\ \A y \in Inums : \A s \in Linking(y) : ~(y = dir /\ s = f) /\ slots'[y][s] = slots[y][s]
      /\ slots'[dir][f] = Entry(call.name, call.inum)
      /\ dir \in Inums
  BY EntryLinks
<1>2. pc = "add" /\ pc' = "count" /\ calls' = calls /\ node' = node
  BY DEF WriteEntry
<1> HIDE DEF f
<1>3. CASE ~(call.name \in Names /\ call.inum \in Inums)
  <2>1. ASSUME NEW y \in Inums
        PROVE  Linking(y)' = Linking(y) /\ \A s \in Linking(y) : slots'[y][s] = slots[y][s]
    <3>1. \A s : s \in Linking(y)' <=> s \in Linking(y)
      BY <1>1, <1>3
    <3> QED
      BY <1>1, <3>1
  <2>2. Links' = Links
    BY <2>1, LinksKept
  <2>3. Attached' = Attached
    BY <2>2 DEF Attached
  <2>4. ASSUME node # Missing, Left' > 0 PROVE calls[Len(calls)].dir \in Attached
    <3>1. PICK d \in Inums, n \in BaseNames : Making(d, n)
      BY <1>2, <2>4 DEF DirInv, Phases, NoNode
    <3>2. Len(calls) \in 1 .. 3
      BY <3>1, CallOf
    <3>3. Left = Len(calls)
      BY <1>2 DEF Left
    <3> QED
      BY <1>2, <2>4, <3>2, <3>3 DEF TreeInv, Creating
  <2> QED
    BY <1>2, <2>2, <2>3, <2>4 DEF TreeInv
<1>4. CASE call.name \in Names /\ call.inum \in Inums
  <2>1. PICK d \in Inums, n \in BaseNames : Making(d, n)
    <3>1. PICK d \in Inums, n \in BaseNames : Making(d, n) \/ NoNode(d, n)
      BY <1>2 DEF DirInv, Phases
    <3> QED
      BY <1>4, <3>1, Constants DEF NoNode, call, Call
  <2>2. Len(calls) = 1 /\ call = Call(d, n, node) /\ dir = d /\ node \in Inums \ {Root}
    <3>1. call.name \notin {".", ".."}
      BY <1>4, Constants
    <3>2. Call(node, ".", node).name = "." /\ Call(node, "..", d).name = ".."
      BY DEF Call
    <3> QED
      BY <2>1, <3>1, <3>2, CallOf DEF Making
  <2>3. Left = 1 /\ Left' = 0 /\ Unlinked(node)
    BY <1>2, <2>1, <2>2 DEF Making, Left
  <2>4. d \in Attached /\ node \notin Attached
    <3>1. d \in Attached
      BY <1>2, <2>1, <2>2, <2>3, LastCall, Constants DEF TreeInv, Creating
    <3> QED
      BY <2>2, <2>3, <3>1, UnlinkedAre
  <2>5. slots'[d][f] = Entry(n, node) /\ f \in Linking(d)'
        /\ Call(d, slots'[d][f].name, slots'[d][f].inum) = Call(d, n, node)
    BY <1>1, <1>4, <2>2 DEF Call, Entry
  <2>6. \A l : l \in Links' <=> \E y \in Inums : \E s \in Linking(y)' :
                                l = Call(y, slots'[y][s].name, slots'[y][s].inum)
    BY LinksFromNext
  <2>7. ASSUME NEW l \in Links' PROVE l \in Links \/ l = Call(d, n, node)
    <3>1. PICK y \in Inums : \E s \in Linking(y)' : l = Call(y, slots'[y][s].name, slots'[y][s].inum)
      BY <2>6
    <3>2. PICK s \in Linking(y)' : l = Call(y, slots'[y][s].name, slots'[y][s].inum)
      BY <3>1
    <3>3. CASE y = d /\ s = f
      BY <2>5, <3>2, <3>3
    <3>4. CASE ~(y = d /\ s = f)
      <4>1. s \in Linking(y) /\ slots'[y][s] = slots[y][s]
        BY <1>1, <2>2, <3>4
      <4> QED
        BY <3>2, <4>1, LinksFrom
    <3> QED
      BY <3>3, <3>4
  <2>8. ASSUME NEW l \in Links PROVE l \in Links'
    <3>1. PICK y \in Inums : \E s \in Linking(y) : l = Call(y, slots[y][s].name, slots[y][s].inum)
      BY LinksFrom
    <3>2. PICK s \in Linking(y) : l = Call(y, slots[y][s].name, slots[y][s].inum)
      BY <3>1
    <3>3. s \in Linking(y)' /\ slots'[y][s] = slots[y][s]
      BY <1>1
    <3> QED
      BY <2>6, <3>2, <3>3
  <2>9. Call(d, n, node) \in Links'
    BY <2>5, <2>6
  <2>10. Links' = Links \union {Call(d, n, node)}
    BY <2>7, <2>8, <2>9
  <2>11. NS!TreeNext
    <3>1. NS!Attached = Attached
      BY DEF NS!Attached, Attached
    <3>2. NS!Link(d, n, node)
      BY <2>4, <2>10, <3>1 DEF NS!Link, Call
    <3>3. n \in Names
      BY <1>4, <2>2 DEF Call
    <3> QED
      BY <2>2, <3>2, <3>3 DEF NS!TreeNext
  <2> QED
    BY <1>2, <2>3, <2>11 DEF TreeInv
<1> QED
  BY <1>3, <1>4

(* A directory with two entries at most, which are its dots, has no links. *)
LEMMA OnlyDots ==
    ASSUME DiskType, NEW i \in Inums, NEW d, Dotted(i, d), Cardinality(EntriesOf(i)) <= 2
    PROVE  Linking(i) = {}
<1>1. /\ IsFiniteSet(EntriesOf(i)) /\ EntriesOf(i) \subseteq 1 .. Len(slots[i])
      /\ Len(slots[i]) \in Nat /\ Len(slots[i]) >= 2
      /\ \A s \in 1 .. Len(slots[i]) : s \in EntriesOf(i) <=> slots[i][s].name # NoName
  BY EntriesType, SlotsType DEF Dotted
<1>2. slots[i][1].name = "." /\ slots[i][2].name = ".."
  BY DEF Dotted, Entry
<1>3. {1, 2} \subseteq EntriesOf(i)
  BY <1>1, <1>2, Constants
<1>4. ASSUME NEW s \in EntriesOf(i), s \notin {1, 2} PROVE FALSE
  <2>1. IsFiniteSet({1}) /\ Cardinality({1}) = 1
    BY FS_Singleton
  <2>2. IsFiniteSet({1, 2}) /\ Cardinality({1, 2}) = 2
    <3>1. {1, 2} = {1} \union {2} /\ 2 \notin {1}
      OBVIOUS
    <3> QED
      BY <2>1, <3>1, FS_AddElement
  <2>3. Cardinality({1, 2} \union {s}) = 3
    <3> DEFINE two == {1, 2}
    <3>1. IsFiniteSet(two) /\ Cardinality(two) = 2 /\ s \notin two
      BY <1>4, <2>2
    <3> HIDE DEF two
    <3>2. Cardinality(two \union {s}) = 2 + 1
      BY <3>1, FS_AddElement
    <3> QED
      BY <3>2 DEF two
  <2>4. Cardinality({1, 2} \union {s}) <= Cardinality(EntriesOf(i))
    <3>1. {1, 2} \union {s} \subseteq EntriesOf(i)
      BY <1>3
    <3> QED
      BY <1>1, <3>1, FS_Subset
  <2>5. Cardinality(EntriesOf(i)) \in Nat
    BY <1>1, FS_CardinalityType
  <2> QED
    BY <2>3, <2>4, <2>5
<1>5. ASSUME NEW s \in Linking(i) PROVE FALSE
  <2>1. s \in 1 .. Len(slots[i]) /\ slots[i][s].name \in Names
    BY SlotsType, LinkingIs
  <2>2. s \in EntriesOf(i)
    BY <1>1, <2>1, Constants
  <2> QED
    BY <1>2, <1>4, <2>1, <2>2, Constants
<1> QED
  BY <1>5

(* What unlink removes has no links, and a directory that rmdir removes    *)
(* has none unless its count is off.                                       *)
LEMMA RemovedEmpty ==
    ASSUME DirInv, NEW kind \in {"unlink", "rmdir"}, NEW d \in Inums,
           NEW n \in Names, RemoveEntry(kind, d, n),
           IsDirectory(Lookup(d, n)) => OffOf(Lookup(d, n)) = 0
    PROVE  Linking(Lookup(d, n)) = {}
<1> DEFINE i == Lookup(d, n)
<1>1. PICK f \in Linking(d) : i \in Inums /\ slots[d][f].inum = i
  BY LookupIs DEF RemoveEntry, DirInv
<1>2. /\ kind = "rmdir" => inode[i].num_direntries <= 2 /\ IsDirectory(i)
      /\ kind # "rmdir" => ~IsDirectory(i)
      /\ pc = "idle"
  BY DEF RemoveEntry, Idle
<1>3. IsDirectory(i) => OffOf(i) = 0
  OBVIOUS
<1> HIDE DEF i
<1>4. CASE kind = "rmdir"
  <2>1. inode[i].type = "dir" /\ Dotted(i, d)
    BY <1>1, <1>2, <1>4 DEF DirInv, GoodLinks, IsDirectory
  <2>2. inode[i].num_direntries \in Nat /\ Cardinality(EntriesOf(i)) \in Nat
    BY <1>1, OffsType, EntriesType DEF DirInv
  <2>3. Dist(Cardinality(EntriesOf(i)), inode[i].num_direntries) = 0
    <3>1. Counted(i)
      BY <1>1 DEF Counted, Unlinked
    <3> QED
      BY <1>2, <1>3, <1>4, <3>1 DEF OffOf, NumOf
  <2>4. Cardinality(EntriesOf(i)) = inode[i].num_direntries
    BY <2>2, <2>3 DEF Dist
  <2>5. Cardinality(EntriesOf(i)) <= 2
    BY <1>2, <1>4, <2>4
  <2> QED
    BY <1>1, <2>1, <2>5, OnlyDots DEF DirInv, i
<1>5. CASE kind # "rmdir"
  <2>1. slots[i] = <<>>
    BY <1>1, <1>2, <1>5 DEF DirInv, Homes, IsDirectory
  <2> QED
    BY <2>1 DEF Linking, i
<1> QED
  BY <1>4, <1>5

(* Until the first crash no count is off, save the root's by the entries   *)
(* with an empty name.                                                     *)
LEMMA NoneOff ==
    ASSUME DirInv, CountInv, crashes = 0, NEW i \in Inums, i # Root \/ nameless = 0
    PROVE  OffOf(i) = 0
<1>1. Offs \in [Inums -> Nat] /\ SumFunction(Offs) \in Nat
  BY OffsType DEF DirInv
<1>2. Offs[i] <= SumFunction(Offs)
  BY <1>1, LengthsType, SumBound DEF DirInv
<1>3. Offs[i] = OffOf(i) /\ OffOf(i) \in Nat
  BY OffNat DEF Offs
<1>4. CASE i # Root
  <2>1. OffOf(i) <= 0
    BY <1>4 DEF CountInv, OffsSmall
  <2> QED
    BY <1>3, <2>1
<1>5. CASE nameless = 0
  <2>1. SumFunction(Offs) <= 0
    BY <1>5 DEF CountInv, OffsSmall
  <2> QED
    BY <1>1, <1>2, <1>3, <2>1
<1> QED
  BY <1>4, <1>5

(* The link that Dir_lookup found goes, and all others stay.               *)
LEMMA EntryUnlinks ==
    ASSUME DirInv, NEW kind \in {"unlink", "rmdir"}, NEW d \in Inums,
           NEW n \in Names, RemoveEntry(kind, d, n)
    PROVE  \E f \in Linking(d) :
               /\ slots[d][f].name = n /\ slots[d][f].inum = node' /\ node' \in Inums
               /\ \A y \in Inums : \A s :
                      /\ s \in Linking(y)' <=> s \in Linking(y) /\ ~(y = d /\ s = f)
                      /\ s \in Linking(y)' => slots'[y][s] = slots[y][s]
<1> DEFINE f == FirstSlot(SlotsNamed(d, n))
<1>1. /\ node' = Lookup(d, n) /\ node' \in Inums
      /\ f \in 1 .. Len(slots[d]) /\ f \in Linking(d)
      /\ slots[d][f].name = n /\ slots[d][f].inum = node'
  BY LookupIs DEF RemoveEntry, DirInv
<1>2. inode' = inode /\ slots' = [slots EXCEPT ![d] = [slots[d] EXCEPT ![f] = Hole]]
  BY DEF RemoveEntry
<1> HIDE DEF f
<1>3. SetSlot(d, f, Hole) /\ DiskType
  BY <1>2 DEF SetSlot, DirInv
<1>4. /\ \A y \in Inums : \A s \in 1 .. Len(slots[y]) :
             slots'[y][s] = IF y = d /\ s = f THEN Hole ELSE slots[y][s]
      /\ \A y \in Inums : \A s : s \in Linking(y)' <=>
             IF y = d /\ s = f THEN Hole.name \in Names /\ Hole.inum \in Inums ELSE s \in Linking(y)
  BY <1>1, <1>3, HoleType, SlotSet
<1>5. ASSUME NEW y \in Inums, NEW s
      PROVE  /\ s \in Linking(y)' <=> s \in Linking(y) /\ ~(y = d /\ s = f)
             /\ s \in Linking(y)' => slots'[y][s] = slots[y][s]
  <2>1. s \in Linking(y)' <=> s \in Linking(y) /\ ~(y = d /\ s = f)
    BY <1>4, HoleType, Constants
  <2>2. s \in Linking(y) => s \in 1 .. Len(slots[y])
    BY <1>3, SlotsType
  <2> QED
    BY <1>4, <2>1, <2>2
<1> QED
  BY <1>1, <1>5

LEMMA TreeRemoveEntry ==
    ASSUME DirInv, DirInv', CountInv, crashes = 0, NEW kind \in {"unlink", "rmdir"},
           NEW d \in Inums, IsDirectory(d), NEW n \in Names, RemoveEntry(kind, d, n)
    PROVE  TreeInv' /\ NS!TreeNext
<1>1. PICK f \in Linking(d) :
          /\ slots[d][f].name = n /\ slots[d][f].inum = node' /\ node' \in Inums
          /\ \A y \in Inums : \A s :
                 /\ s \in Linking(y)' <=> s \in Linking(y) /\ ~(y = d /\ s = f)
                 /\ s \in Linking(y)' => slots'[y][s] = slots[y][s]
  BY EntryUnlinks
<1>0. node' = Lookup(d, n) /\ pc' = "drop"
  BY DEF RemoveEntry
<1>2. PICK i \in Inums : i = node' /\ i = Lookup(d, n) /\ pc' = "drop" /\ slots[d][f].inum = i
  BY <1>0, <1>1
<1>3. Linking(i) = {}
  <2>1. i # Root
    BY <1>1, <1>2 DEF DirInv, GoodLinks
  <2>2. OffOf(i) = 0
    BY <2>1, NoneOff
  <2> QED
    BY <1>2, <2>2, RemovedEmpty
<1>6. ASSUME NEW y \in Inums, NEW s
      PROVE  /\ s \in Linking(y)' <=> s \in Linking(y) /\ ~(y = d /\ s = f)
             /\ s \in Linking(y)' => slots'[y][s] = slots[y][s]
  BY <1>1
<1>7. Linking(i)' = {}
  <2>1. ASSUME NEW s \in Linking(i)' PROVE FALSE
    <3>1. s \in Linking(i)
      BY <1>6, <2>1
    <3> QED
      BY <1>3, <3>1
  <2> QED
    BY <2>1
<1>8. TreeInv'
  <2>1. Linking(node)' = {}
    BY <1>2, <1>7 DEF Linking
  <2> QED
    BY <1>2, <2>1 DEF TreeInv, Creating
<1> DEFINE r == Call(d, n, i)
<1>9. r \in Links
  BY <1>1, <1>2, LinksFrom
<1>10. \A l : l \in Links' <=> \E y \in Inums : \E s \in Linking(y)' :
                               l = Call(y, slots'[y][s].name, slots'[y][s].inum)
  BY LinksFromNext
<1>11. ASSUME NEW l \in Links' PROVE l \in Links /\ l # r
  <2>1. PICK y \in Inums : \E s \in Linking(y)' : l = Call(y, slots'[y][s].name, slots'[y][s].inum)
    BY <1>10
  <2>2. PICK s \in Linking(y)' : l = Call(y, slots'[y][s].name, slots'[y][s].inum)
    BY <2>1
  <2>3. s \in Linking(y) /\ ~(y = d /\ s = f) /\ slots'[y][s] = slots[y][s]
    BY <1>6, <2>2
  <2>4. l \in Links
    BY <2>2, <2>3, LinksFrom
  <2>5. slots[y][s].inum # i
    BY <1>2, <2>3 DEF DirInv, OneLink
  <2> QED
    BY <2>2, <2>3, <2>4, <2>5 DEF Call
<1>12. ASSUME NEW l \in Links, l # r PROVE l \in Links'
  <2>1. PICK y \in Inums : \E s \in Linking(y) : l = Call(y, slots[y][s].name, slots[y][s].inum)
    BY LinksFrom
  <2>2. PICK s \in Linking(y) : l = Call(y, slots[y][s].name, slots[y][s].inum)
    BY <2>1
  <2>3. ~(y = d /\ s = f)
    BY <1>1, <1>2, <1>12, <2>2
  <2>4. s \in Linking(y)' /\ slots'[y][s] = slots[y][s]
    BY <1>6, <2>3
  <2> QED
    BY <1>10, <2>2, <2>4
<1>13. Links' = Links \ {r}
  BY <1>11, <1>12
<1>14. ASSUME NEW m \in Links PROVE m.dir # r.inum
  <2>1. PICK y \in Inums : \E s \in Linking(y) : m = Call(y, slots[y][s].name, slots[y][s].inum)
    BY LinksFrom
  <2> QED
    BY <1>3, <2>1 DEF Call
<1>15. NS!Unlink(r)
  BY <1>9, <1>13, <1>14 DEF NS!Unlink
<1> QED
  BY <1>8, <1>9, <1>15 DEF NS!TreeNext

LEMMA TreeStart == DirInit => TreeInv /\ NS!TreeInit
<1> SUFFICES ASSUME DirInit PROVE TreeInv /\ NS!TreeInit
  OBVIOUS
<1>1. DirInv /\ pc = "idle"
  BY InvInit DEF DirInit
<1>2. Links = {}
  <2> SUFFICES ASSUME NEW l \in Links PROVE FALSE
    OBVIOUS
  <2>1. PICK d \in Inums : \E s \in Linking(d) : l = Call(d, slots[d][s].name, slots[d][s].inum)
    BY <1>1, LinksFrom
  <2>2. PICK s \in Linking(d) : TRUE
    BY <2>1
  <2>3. s \in 1 .. Len(slots[d]) /\ slots[d][s].name \in Names
    BY <1>1, SlotsType, LinkingIs DEF DirInv
  <2>4. CASE d = Root
    <3>1. slots[Root] = [EmptyBlock EXCEPT ![1] = Entry(".", Root), ![2] = Entry("..", Root)]
      BY Constants DEF DirInit
    <3>2. DOMAIN EmptyBlock = 1 .. EntriesPerBlock /\ DOMAIN slots[Root] = 1 .. EntriesPerBlock
      BY <3>1 DEF EmptyBlock
    <3>3. s \in 1 .. EntriesPerBlock
      BY <1>1, <2>3, <2>4, <3>2, SlotsType DEF DirInv
    <3>4. slots[Root][s] \in {Hole, Entry(".", Root), Entry("..", Root)}
      BY <3>1, <3>2, <3>3 DEF EmptyBlock
    <3> QED
      BY <2>3, <2>4, <3>4, HoleType, Constants DEF Entry
  <2>5. CASE d # Root
    <3>1. slots[d] = <<>>
      BY <2>5 DEF DirInit
    <3> QED
      BY <2>3, <3>1
  <2> QED
    BY <2>4, <2>5
<1> QED
  BY <1>1, <1>2 DEF TreeInv, Creating, NS!TreeInit

(* Every step makes or removes one link, as Namespace says, or none.       *)
TreeMove == crashes' = 0 => NS!TreeNext \/ Links' = Links

LEMMA TreeStep ==
    ASSUME DirInv, CountInv, TreeInv, [DirNext]_dirVars
    PROVE  TreeInv' /\ TreeMove
<1>1. DirInv' /\ \A d \in Directories : d \in Inums /\ IsDirectory(d)
  BY InvStep, DirectoriesAre
<1>2. CASE UNCHANGED dirVars
  <2>1. /\ slots' = slots /\ pc' = pc /\ calls' = calls /\ node' = node /\ crashes' = crashes
    BY <1>2 DEF dirVars
  <2>2. Links' = Links /\ Attached' = Attached
    BY <1>1, <2>1, SlotsKept
  <2>3. Linking(node)' = Linking(node) /\ Left' = Left
    BY <2>1 DEF Linking, Left
  <2> QED
    BY <2>1, <2>2, <2>3 DEF TreeInv, TreeMove, Creating
<1>3. ASSUME NEW d \in Directories, NEW n \in BaseNames, NEW i \in Inums,
             NEW kind \in {"file", "dir", "symlink"}, Allocate(kind, d, n, i)
      PROVE  TreeInv' /\ TreeMove
  BY <1>1, <1>3, TreeAllocate DEF TreeMove
<1>4. ASSUME NEW d \in Directories, NEW n \in Names,
             NEW kind \in {"unlink", "rmdir"}, RemoveEntry(kind, d, n)
      PROVE  TreeInv' /\ TreeMove
  <2>1. crashes' = crashes /\ pc' = "drop"
    BY <1>4 DEF RemoveEntry
  <2>2. CASE crashes = 0
    BY <1>1, <1>4, <2>2, TreeRemoveEntry DEF TreeMove
  <2>3. CASE crashes # 0
    BY <2>1, <2>3 DEF TreeInv, TreeMove, Creating
  <2> QED
    BY <2>2, <2>3
<1>5. ASSUME NEW n \in BaseNames, SymlinkWithoutInode(n) PROVE TreeInv' /\ TreeMove
  BY <1>1, <1>5, TreeSymlinkWithoutInode DEF TreeMove
<1>6. CASE DropReference
  <2>1. crashes' = crashes /\ pc' = "uncount"
    BY <1>6 DEF DropReference
  <2>2. CASE crashes = 0
    BY <1>1, <1>6, <2>2, TreeDropReference DEF TreeMove
  <2>3. CASE crashes # 0
    BY <2>1, <2>3 DEF TreeInv, TreeMove, Creating
  <2> QED
    BY <2>2, <2>3
<1>11. CASE ReleaseBlock
  <2>1. crashes' = crashes /\ pc' = "drop"
    BY <1>11 DEF ReleaseBlock, LastReference
  <2>2. CASE crashes = 0
    BY <1>1, <1>11, <2>2, TreeReleaseBlock DEF TreeMove
  <2>3. CASE crashes # 0
    BY <2>1, <2>3 DEF TreeInv, TreeMove, Creating
  <2> QED
    BY <2>2, <2>3
<1>7. CASE WriteNode \/ UncountEntry \/ Crash
  <2>1. Return /\ slots' = slots
    BY <1>7 DEF WriteNode, UncountEntry, Crash
  <2> QED
    BY <1>1, <2>1, TreeReturn, SlotsKept DEF TreeMove
<1>8. CASE WriteSymlink \/ Pop \/ Grow \/ AddFails \/ WriteEntry \/ CountEntry \/ Undo
  BY <1>1, <1>8, TreeWriteSymlink, TreePop, TreeGrow, TreeAddFails, TreeWriteEntry, TreeCountEntry,
     TreeUndo DEF TreeMove
<1>9. ASSUME NEW d \in Directories, NEW n \in Names, CreateFails(d, n) PROVE UNCHANGED dirVars
  BY <1>9 DEF CreateFails
<1>10. Query => UNCHANGED dirVars
  BY DEF Query
<1> QED
  BY <1>2, <1>3, <1>4, <1>5, <1>6, <1>7, <1>8, <1>9, <1>10, <1>11 DEF DirNext

LEMMA TreeInvariant == DirSpec => [](DirInv /\ CountInv /\ TreeInv)
<1>1. DirInit => DirInv /\ CountInv /\ TreeInv
  BY InvInit, CountInit, TreeStart
<1>2. DirInv /\ CountInv /\ TreeInv /\ [DirNext]_dirVars => (DirInv /\ CountInv /\ TreeInv)'
  BY InvStep, CountStep, TreeStep
<1> QED
  BY <1>1, <1>2, PTL DEF DirSpec

(* Until the first crash a directory tree is what Namespace promises: each *)
(* step makes one link to an inode that nothing led to, in a directory     *)
(* that hangs on the root, or removes the one link to an inode without     *)
(* links of its own.  Property TreeSpec.                                   *)
THEOREM ImplementsNamespace == DirSpec => TreeSpec
<1>1. DirInit => NS!TreeInit
  BY TreeStart
<1>2. DirInv /\ CountInv /\ TreeInv /\ [DirNext]_dirVars => [crashes' = 0 => NS!TreeNext]_Links
  BY TreeStep DEF TreeMove
<1> QED
  BY <1>1, <1>2, TreeInvariant, PTL DEF DirSpec, TreeSpec

-----------------------------------------------------------------------------
(* References                                                              *)

(* The links of a directory that lead to directories, and the references   *)
(* that its inode will give when the entry that is being added counts.     *)
SubSlots(d) == {s \in Linking(d) : IsDirectory(slots[d][s].inum)}
Subs(d) == Cardinality(SubSlots(d))
RefOf(d) == IF pc = "count" /\ d = dir THEN core[d].refcount ELSE inode[d].refcount

(* The new inode, and the references that create_node gives it.            *)
UnderWay(d) == d = node /\ (Creating \/ pc = "node")
NewRef ==
    IF core[node].type = "dir" THEN (IF pc = "node" \/ Len(calls) = 1 THEN 2 ELSE 1)
    ELSE IF core[node].type = "file" THEN 1 ELSE 0

References ==
    \A d \in Inums : IsDirectory(d) /\ ~UnderWay(d) =>
                       inode[d].refcount >= 2 /\ RefOf(d) >= 2 + Subs(d)
RefInv ==
    /\ pc # "idle" => \A x \in DOMAIN core \ {node} : core[x].refcount >= inode[x].refcount
    /\ (Creating \/ pc = "node") /\ node # Missing => core[node].refcount = NewRef
    /\ pc = "node" => Linking(node) = {}
    /\ crashes = 0 => References
    /\ crashes = 0 /\ pc = "add" /\ node # Missing /\ Len(calls) = 1 /\ core[node].type = "dir"
          => core[dir].refcount >= 3 + Subs(dir)

LEMMA RefTypes ==
    DirInv => \A d \in Inums : /\ inode[d].refcount \in Nat /\ RefOf(d) \in Nat
                             /\ IsFiniteSet(SubSlots(d)) /\ Subs(d) \in Nat
<1> SUFFICES ASSUME DirInv, NEW d \in Inums
             PROVE  /\ inode[d].refcount \in Nat /\ RefOf(d) \in Nat
                    /\ IsFiniteSet(SubSlots(d)) /\ Subs(d) \in Nat
  OBVIOUS
<1>1. inode[d].refcount \in Nat
  BY DEF DirInv, DiskType, InodeRecord
<1>2. pc = "count" => core[dir].refcount \in Nat
  BY Adding DEF InodeRecord
<1>3. IsFiniteSet(1 .. Len(slots[d])) /\ SubSlots(d) \subseteq 1 .. Len(slots[d])
  BY SlotsType, FS_Interval DEF SubSlots, DirInv
<1>4. IsFiniteSet(SubSlots(d)) /\ Subs(d) \in Nat
  BY <1>3, FS_Subset, FS_CardinalityType DEF Subs
<1> QED
  BY <1>1, <1>2, <1>4 DEF RefOf

LEMMA RefTypesNext ==
    DirInv' => (\A d \in Inums : /\ inode[d].refcount \in Nat /\ RefOf(d) \in Nat
                             /\ IsFiniteSet(SubSlots(d)) /\ Subs(d) \in Nat)'
  BY RefTypes, PTL

(* Fewer or equal links to directories.                                    *)
SubsFall == \A d \in Inums : Subs(d)' \in Nat /\ Subs(d) \in Nat /\ Subs(d)' <= Subs(d)

LEMMA SubsOf ==
    ASSUME DirInv, DirInv', NEW d \in Inums, SubSlots(d)' \subseteq SubSlots(d)
    PROVE  Subs(d)' \in Nat /\ Subs(d) \in Nat /\ Subs(d)' <= Subs(d)
<1>1. Subs(d) \in Nat /\ IsFiniteSet(SubSlots(d)) /\ Subs(d)' \in Nat
  BY RefTypes, RefTypesNext
<1>2. Cardinality(SubSlots(d)') <= Cardinality(SubSlots(d))
  BY <1>1, FS_Subset
<1> QED
  BY <1>1, <1>2 DEF Subs

LEMMA SubsKept ==
    ASSUME DirInv, DirInv',
           \A d \in Inums : \A s \in Linking(d)' : s \in Linking(d) /\ slots'[d][s] = slots[d][s],
           \A i \in Inums : IsDirectory(i)' => IsDirectory(i) \/ Unlinked(i)
    PROVE  SubsFall
<1>1. ASSUME NEW d \in Inums, NEW s \in SubSlots(d)' PROVE s \in SubSlots(d)
  <2>1. s \in Linking(d) /\ slots'[d][s] = slots[d][s]
    BY DEF SubSlots
  <2>2. PICK i \in Inums : i = slots[d][s].inum
    BY <2>1 DEF Linking
  <2>3. ~Unlinked(i)
    BY <2>1, <2>2 DEF Unlinked
  <2>4. IsDirectory(i)'
    BY <2>1, <2>2 DEF SubSlots, IsDirectory
  <2>5. IsDirectory(i)
    BY <2>3, <2>4
  <2> QED
    BY <2>1, <2>2, <2>5 DEF SubSlots
<1> QED
  BY <1>1, SubsOf DEF SubsFall

LEMMA SubsSame ==
    ASSUME DirInv, DirInv', LinkingSame,
           \A i \in Inums : IsDirectory(i)' => IsDirectory(i) \/ Unlinked(i)
    PROVE  SubsFall
  BY SubsKept DEF LinkingSame

(* The references of a directory that stays one do not fall.               *)
Rises(d) ==
    IsDirectory(d)' /\ ~UnderWay(d)' =>
        /\ IsDirectory(d) /\ ~UnderWay(d)
        /\ inode'[d].refcount >= inode[d].refcount /\ RefOf(d)' >= RefOf(d)
LEMMA RefKept ==
    ASSUME DirInv, DirInv', References, SubsFall, \A d \in Inums : Rises(d)
    PROVE  References'
<1> SUFFICES ASSUME NEW d \in Inums, IsDirectory(d)', ~UnderWay(d)'
             PROVE  inode'[d].refcount >= 2 /\ RefOf(d)' >= 2 + Subs(d)'
  BY DEF References
<1>1. /\ inode[d].refcount >= 2 /\ RefOf(d) >= 2 + Subs(d)
      /\ inode'[d].refcount >= inode[d].refcount /\ RefOf(d)' >= RefOf(d)
  BY DEF References, Rises
<1>2. /\ inode[d].refcount \in Nat /\ RefOf(d) \in Nat
      /\ inode'[d].refcount \in Nat /\ RefOf(d)' \in Nat
  BY RefTypes, RefTypesNext
<1>3. Subs(d)' \in Nat /\ Subs(d) \in Nat /\ Subs(d)' <= Subs(d)
  BY DEF SubsFall
<1> QED
  BY <1>1, <1>2, <1>3

LEMMA RefAllocate ==
    ASSUME DirInv, DirInv', RefInv, NEW kind \in {"file", "dir", "symlink"}, NEW d \in Inums,
           IsDirectory(d), NEW n \in BaseNames, NEW i \in Inums, Allocate(kind, d, n, i)
    PROVE  RefInv'
<1>1. /\ inode' = [inode EXCEPT ![i].in_use = TRUE] /\ slots' = slots /\ pc = "idle"
      /\ pc' \in {"symlink", "add"} /\ crashes' = crashes /\ inode[i] = FreeInode
      /\ core' = [x \in {d, i} |-> IF x = i THEN NewNode(kind) ELSE inode[d]]
      /\ node' = i /\ ~inode[i].in_use /\ calls' = CallsFor(kind, d, n, i)
  BY DEF Allocate, Idle, DirInv, Homes
<1>2. \A x \in Inums : /\ x # i => inode'[x] = inode[x]
                       /\ inode'[x].type = inode[x].type
                       /\ inode'[x].refcount = inode[x].refcount
  BY <1>1 DEF DirInv, DiskType, InodeRecord
<1>3. inode[i].type = "file" /\ d # i
  BY <1>1 DEF FreeInode, IsDirectory
<1>4. \A x \in Inums : IsDirectory(x)' <=> IsDirectory(x)
  BY <1>1, <1>2, <1>3 DEF IsDirectory
<1>5. SubsFall
  BY <1>1, <1>4, SlotsLinking, SubsSame
<1>6. core'[i] = NewNode(kind) /\ core'[d] = inode[d] /\ DOMAIN core' = {d, i}
  BY <1>1, <1>3
<1>7. /\ core'[i].type = kind
      /\ core'[i].refcount = IF kind = "symlink" THEN 0 ELSE 1
  BY <1>6 DEF NewNode, FreeInode
<1>8. kind = "dir" => Len(calls') = 3
  <2>1. CASE kind = "dir"
    <3>1. calls' = <<Call(i, ".", i), Call(i, "..", d), Call(d, n, i)>>
      BY <1>1, <2>1 DEF CallsFor
    <3> QED
      BY <3>1
  <2> QED
    BY <2>1
<1>9. core'[node'].refcount = NewRef'
  BY <1>1, <1>7, <1>8 DEF NewRef
<1>10. \A x \in DOMAIN core' \ {node'} : core'[x].refcount >= inode'[x].refcount
  <2>1. inode'[d].refcount \in Nat
    BY RefTypesNext
  <2> QED
    BY <1>1, <1>2, <1>3, <1>6, <2>1
<1>11. ASSUME NEW x \in Inums PROVE Rises(x)
  <2>1. RefOf(x)' = RefOf(x) /\ inode'[x].refcount = inode[x].refcount
    BY <1>1, <1>2 DEF RefOf
  <2>2. inode[x].refcount \in Nat /\ RefOf(x) \in Nat
    BY RefTypes
  <2>3. ~UnderWay(x)
    BY <1>1 DEF UnderWay, Creating
  <2> QED
    BY <1>4, <2>1, <2>2, <2>3 DEF Rises
<1>12. crashes' = 0 => References'
  BY <1>1, <1>5, <1>11, RefKept DEF RefInv
<1> QED
  BY <1>1, <1>7, <1>8, <1>9, <1>10, <1>12 DEF RefInv, Creating

LEMMA RefSymlinkWithoutInode ==
    ASSUME DirInv, DirInv', RefInv, NEW n \in BaseNames, SymlinkWithoutInode(n)
    PROVE  RefInv'
<1>1. /\ inode' = inode /\ slots' = slots /\ pc = "idle" /\ pc' = "add" /\ crashes' = crashes
      /\ core' = [x \in {Root} |-> inode[Root]] /\ node' = Missing
  BY DEF SymlinkWithoutInode, Idle, DirInv, Phases
<1>2. \A x \in Inums : IsDirectory(x)' <=> IsDirectory(x)
  BY <1>1 DEF IsDirectory
<1>3. SubsFall
  BY <1>1, <1>2, SlotsLinking, SubsSame
<1>4. \A x \in DOMAIN core' : core'[x].refcount >= inode'[x].refcount
  <2>1. inode[Root].refcount \in Nat
    BY RefTypes, Constants
  <2> QED
    BY <1>1, <2>1
<1>5. ASSUME NEW x \in Inums PROVE Rises(x)
  <2>1. RefOf(x)' = RefOf(x) /\ inode'[x].refcount = inode[x].refcount
    BY <1>1 DEF RefOf
  <2>2. inode[x].refcount \in Nat /\ RefOf(x) \in Nat
    BY RefTypes
  <2>3. ~UnderWay(x)
    BY <1>1 DEF UnderWay, Creating
  <2> QED
    BY <1>2, <2>1, <2>2, <2>3 DEF Rises
<1>6. crashes' = 0 => References'
  BY <1>1, <1>3, <1>5, RefKept DEF RefInv
<1> QED
  BY <1>1, <1>4, <1>6 DEF RefInv

(* A step that changes no inode and no slot, and nothing of the operation. *)
LEMMA RefSame ==
    ASSUME RefInv, UNCHANGED <<inode, slots, pc, node, core, calls, crashes>> PROVE RefInv'
<1>1. /\ inode' = inode /\ slots' = slots /\ pc' = pc /\ core' = core /\ calls' = calls
      /\ crashes' = crashes /\ node' = node
  OBVIOUS
<1>2. dir' = dir
  BY <1>1 DEF dir, call
<1>3. \A d : Subs(d)' = Subs(d) /\ RefOf(d)' = RefOf(d)
  BY <1>1, <1>2 DEF Subs, SubSlots, RefOf, IsDirectory, Linking
<1>4. (References => References') /\ NewRef' = NewRef /\ Linking(node)' = Linking(node)
  BY <1>1, <1>3 DEF References, NewRef, UnderWay, Creating, IsDirectory, Linking
<1>5. Subs(dir)' = Subs(dir)
  BY <1>1, <1>2 DEF Subs, SubSlots, IsDirectory, Linking
<1> QED
  BY <1>1, <1>2, <1>4, <1>5 DEF RefInv, Creating

LEMMA RefWriteSymlink == ASSUME DirInv, DirInv', RefInv, WriteSymlink PROVE RefInv'
<1>1. PICK d \in Inums, n \in BaseNames : Making(d, n)
  BY DEF WriteSymlink, DirInv, Phases, NoNode
<1>2. /\ pc = "symlink" /\ pc' = "add" /\ crashes' = crashes /\ node' = node /\ core' = core
      /\ calls' = calls /\ inode' = [inode EXCEPT ![node] = core[node]] /\ slots' = slots
      /\ node \in Inums /\ core[node].type = "symlink"
  BY <1>1 DEF WriteSymlink, Making
<1>3. \A x \in Inums : inode'[x] = IF x = node THEN core[node] ELSE inode[x]
  BY <1>2 DEF DirInv, DiskType
<1>4. \A x \in Inums : IsDirectory(x)' => IsDirectory(x) /\ x # node
  BY <1>2, <1>3 DEF IsDirectory
<1>5. SubsFall
  BY <1>2, <1>4, SlotsLinking, SubsSame
<1>6. NewRef' = NewRef
  BY <1>2 DEF NewRef
<1>7. ASSUME NEW x \in Inums PROVE Rises(x)
  <2>1. CASE x = node
    BY <1>4, <2>1 DEF Rises
  <2>2. CASE x # node
    <3>1. RefOf(x)' = RefOf(x) /\ inode'[x].refcount = inode[x].refcount
      BY <1>2, <1>3, <2>2 DEF RefOf
    <3>2. inode[x].refcount \in Nat /\ RefOf(x) \in Nat
      BY RefTypes
    <3> QED
      BY <1>4, <2>2, <3>1, <3>2 DEF Rises, UnderWay
  <2> QED
    BY <2>1, <2>2
<1>8. crashes' = 0 => References'
  BY <1>2, <1>5, <1>7, RefKept DEF RefInv
<1>9. \A x \in DOMAIN core' \ {node'} : core'[x].refcount >= inode'[x].refcount
  <2>1. \A x \in DOMAIN core \ {node} : core[x].refcount >= inode[x].refcount /\ x \in Inums
    BY <1>2 DEF RefInv, DirInv, Cores
  <2> QED
    BY <1>2, <1>3, <2>1
<1> QED
  BY <1>2, <1>6, <1>8, <1>9 DEF RefInv, Creating

LEMMA RefAddFails == ASSUME DirInv, DirInv', RefInv, AddFails PROVE RefInv'
<1>1. /\ inode' = inode /\ slots' = slots /\ pc = "add" /\ crashes' = crashes
      /\ (Return \/ (pc' = "undo" /\ UNCHANGED <<node, core, calls>>))
  BY Zenon DEF AddFails
<1>2. \A x \in Inums : IsDirectory(x)' <=> IsDirectory(x)
  BY <1>1 DEF IsDirectory
<1>3. SubsFall
  BY <1>1, <1>2, SlotsLinking, SubsSame
<1>4. ASSUME NEW x \in Inums
      PROVE  /\ RefOf(x)' >= RefOf(x) /\ inode'[x].refcount >= inode[x].refcount
  <2>1. RefOf(x) = inode[x].refcount /\ RefOf(x)' = inode[x].refcount /\ inode[x].refcount \in Nat
    BY <1>1, RefTypes DEF RefOf, Return
  <2> QED
    BY <1>1, <2>1
<1>5. CASE pc' = "undo" /\ UNCHANGED <<node, core, calls>>
  <2>1. \A x \in Inums : Rises(x)
    BY <1>1, <1>2, <1>4, <1>5 DEF Rises, UnderWay, Creating
  <2>2. crashes' = 0 => References'
    BY <1>1, <1>3, <2>1, RefKept DEF RefInv
  <2>3. NewRef' = NewRef
    BY <1>1, <1>5 DEF NewRef
  <2> QED
    BY <1>1, <1>5, <2>2, <2>3 DEF RefInv, Creating
<1>6. CASE Return
  <2>1. IsSymlink
    BY <1>1, <1>6 DEF AddFails, Return
  <2>2. ~IsDirectory(node)
    <3>1. CASE node = Missing
      BY <3>1, Constants DEF IsDirectory
    <3>2. CASE node # Missing
      <4>1. PICK d \in Inums, n \in BaseNames : Making(d, n)
        BY <1>1, <3>2 DEF DirInv, Phases, NoNode
      <4> QED
        BY <1>1, <2>1, <3>2, <4>1 DEF Making, IsSymlink, IsDirectory
    <3> QED
      BY <3>1, <3>2
  <2>3. \A x \in Inums : Rises(x)
    BY <1>2, <1>4, <2>2 DEF Rises, UnderWay
  <2>4. crashes' = 0 => References'
    BY <1>1, <1>3, <2>3, RefKept DEF RefInv
  <2> QED
    BY <1>6, <2>4 DEF RefInv, Creating, Return
<1> QED
  BY <1>1, <1>5, <1>6

LEMMA RefPop == ASSUME RefInv, Pop PROVE RefInv'
  BY RefSame DEF Pop

LEMMA RefGrow == ASSUME DirInv, DirInv', RefInv, Grow PROVE RefInv'
<1>1. /\ dir \in DOMAIN core /\ dir \in Inums /\ core[dir].in_use /\ core[dir].type = "dir"
      /\ core[dir] \in InodeRecord /\ DOMAIN core \subseteq Inums
      /\ dir # node => inode[dir].type = "dir" /\ inode[dir].in_use
  BY Adding DEF Grow, DirInv, RestType
<1>2. /\ pc = "add" /\ pc' = "add" /\ crashes' = crashes /\ node' = node /\ calls' = calls
      /\ inode' = [inode EXCEPT ![dir] = core[dir]]
      /\ core' = [core EXCEPT ![dir].n_bytes = (@ + EntriesPerBlock) % SizeModulus]
  BY DEF Grow
<1>3. \A x \in Inums : inode'[x] = IF x = dir THEN core[dir] ELSE inode[x]
  BY <1>2 DEF DirInv, DiskType
<1>4. DOMAIN core' = DOMAIN core
      /\ \A x \in DOMAIN core : /\ core'[x].refcount = core[x].refcount
                                /\ core'[x].type = core[x].type
                                /\ core[x].refcount \in Nat
  <2>1. \A x \in DOMAIN core : core[x] \in InodeRecord
    BY <1>2 DEF DirInv, Cores
  <2> QED
    BY <1>1, <1>2, <2>1 DEF InodeRecord
<1>5. dir' = dir
  BY <1>2 DEF dir, call
<1>6. ASSUME node # Missing
      PROVE  /\ node \in DOMAIN core /\ (dir = node => Unlinked(node))
  <2>1. PICK d \in Inums, n \in BaseNames : Making(d, n)
    BY <1>2, <1>6 DEF DirInv, Phases, NoNode
  <2>2. Left > 0
    BY <1>2, <2>1, CallOf DEF Left
  <2> QED
    BY <2>1, <2>2 DEF Making
<1>7. dir # Missing
  BY <1>1, Constants
<1>8. \A x \in Inums : IsDirectory(x)' => IsDirectory(x) \/ (x = node /\ Unlinked(x))
  BY <1>1, <1>3, <1>6, <1>7 DEF IsDirectory
<1>9. SubsFall
  BY <1>8, GrowLinks, SubsSame
<1>10. ASSUME NEW x \in Inums, x # node
       PROVE  /\ inode'[x].refcount >= inode[x].refcount /\ RefOf(x)' >= RefOf(x)
  <2>1. RefOf(x) = inode[x].refcount /\ RefOf(x)' = inode'[x].refcount
    BY <1>2 DEF RefOf
  <2>2. inode[x].refcount \in Nat
    BY RefTypes
  <2>3. inode'[x].refcount >= inode[x].refcount
    <3>1. CASE x = dir
      BY <1>1, <1>2, <1>3, <1>10, <3>1 DEF RefInv
    <3>2. CASE x # dir
      BY <1>3, <2>2, <3>2
    <3> QED
      BY <3>1, <3>2
  <2> QED
    BY <2>1, <2>3
<1>11. \A x \in Inums : Rises(x)
  BY <1>2, <1>8, <1>10 DEF Rises, UnderWay, Creating
<1>12. crashes' = 0 => References'
  BY <1>2, <1>9, <1>11, RefKept DEF RefInv
<1>13. \A x \in DOMAIN core' \ {node'} : core'[x].refcount >= inode'[x].refcount
  BY <1>1, <1>2, <1>3, <1>4 DEF RefInv
<1>14. node # Missing => NewRef' = NewRef /\ core'[node].refcount = core[node].refcount
  BY <1>2, <1>4, <1>6 DEF NewRef
<1>15. ASSUME crashes' = 0, node # Missing, Len(calls) = 1, core'[node].type = "dir"
       PROVE  core'[dir].refcount >= 3 + Subs(dir)'
  <2>1. core[dir].refcount >= 3 + Subs(dir)
    BY <1>2, <1>4, <1>6, <1>15 DEF RefInv
  <2>2. Subs(dir)' \in Nat /\ Subs(dir) \in Nat /\ Subs(dir)' <= Subs(dir)
    BY <1>1, <1>5, <1>9 DEF SubsFall
  <2> QED
    BY <1>1, <1>4, <2>1, <2>2
<1> QED
  BY <1>2, <1>5, <1>12, <1>13, <1>14, <1>15 DEF RefInv, Creating

LEMMA AtMostOneMore ==
    ASSUME NEW old, NEW new, NEW f, IsFiniteSet(old), new \subseteq old \union {f}
    PROVE  Cardinality(new) <= Cardinality(old) + 1
<1>1. Cardinality(old) \in Nat /\ IsFiniteSet(old \union {f})
  BY FS_CardinalityType, FS_AddElement
<1>2. Cardinality(old \union {f}) = IF f \in old THEN Cardinality(old) ELSE Cardinality(old) + 1
  BY FS_AddElement
<1>3. Cardinality(new) <= Cardinality(old \union {f}) /\ IsFiniteSet(new)
  BY <1>1, FS_Subset
<1>4. Cardinality(new) \in Nat
  BY <1>3, FS_CardinalityType
<1> QED
  BY <1>1, <1>2, <1>3, <1>4

(* The entry of a new directory is one more, which core[dir] counts.       *)
LEMMA RefWriteEntry == ASSUME DirInv, DirInv', RefInv, WriteEntry PROVE RefInv'
<1> DEFINE f == FirstSlot(Holes(dir))
<1>1. /\ \A y \in Inums : \A s : s \in Linking(y)' <=>
             IF y = dir /\ s = f THEN call.name \in Names /\ call.inum \in Inums
             ELSE s \in Linking(y)
      /\ \A y \in Inums : \A s \in Linking(y) : ~(y = dir /\ s = f) /\ slots'[y][s] = slots[y][s]
      /\ slots'[dir][f] = Entry(call.name, call.inum)
  BY EntryLinks
<1>2. /\ dir \in DOMAIN core /\ dir \in Inums /\ DOMAIN core \subseteq Inums
      /\ core[dir] \in InodeRecord
  BY Adding DEF WriteEntry, DirInv, RestType
<1>3. /\ pc = "add" /\ pc' = "count" /\ calls' = calls /\ node' = node /\ crashes' = crashes
      /\ inode' = inode /\ core' = [core EXCEPT ![dir].num_direntries = @ + 1]
  BY DEF WriteEntry
<1> HIDE DEF f
<1>4. DOMAIN core' = DOMAIN core
      /\ \A x \in DOMAIN core : /\ core'[x].refcount = core[x].refcount
                                /\ core'[x].type = core[x].type
                                /\ core[x].refcount \in Nat
  <2>1. \A x \in DOMAIN core : core[x] \in InodeRecord
    BY <1>3 DEF DirInv, Cores
  <2> QED
    BY <1>2, <1>3, <2>1 DEF InodeRecord
<1>5. dir' = dir
  BY <1>3 DEF dir, call
<1>6. \A x \in Inums : IsDirectory(x)' <=> IsDirectory(x)
  BY <1>3 DEF IsDirectory
<1>7. node # Missing => node \in DOMAIN core
  BY <1>3 DEF DirInv, Phases, Making, NoNode
<1>8. node # Missing => NewRef' = NewRef /\ core'[node].refcount = core[node].refcount
  BY <1>3, <1>4, <1>7 DEF NewRef
<1>9. \A x \in DOMAIN core' \ {node'} : core'[x].refcount >= inode'[x].refcount
  BY <1>3, <1>4 DEF RefInv
<1>10. \A x \in Inums : RefOf(x) = inode[x].refcount
                       /\ RefOf(x)' = IF x = dir THEN core[dir].refcount ELSE inode[x].refcount
  BY <1>2, <1>3, <1>4, <1>5 DEF RefOf
<1>11. ASSUME NEW y \in Inums,
              ~(y = dir /\ call.name \in Names /\ call.inum \in Inums /\ IsDirectory(call.inum))
       PROVE  SubSlots(y)' \subseteq SubSlots(y)
  <2> SUFFICES ASSUME NEW s \in SubSlots(y)' PROVE s \in SubSlots(y)
    OBVIOUS
  <2>1. s \in Linking(y)'
    BY DEF SubSlots
  <2>2. PICK i : i = slots'[y][s].inum
    OBVIOUS
  <2>3. IsDirectory(i)' /\ i \in Inums
    BY <2>2 DEF SubSlots, IsDirectory
  <2>4. IsDirectory(i)
    BY <1>6, <2>3
  <2>5. ~(y = dir /\ s = f)
    BY <1>1, <1>11, <2>1, <2>2, <2>4 DEF Entry
  <2>6. s \in Linking(y) /\ slots'[y][s] = slots[y][s]
    BY <1>1, <2>1, <2>5
  <2> QED
    BY <2>2, <2>4, <2>6 DEF SubSlots
<1>12. SubSlots(dir)' \subseteq SubSlots(dir) \union {f}
  <2> SUFFICES ASSUME NEW s \in SubSlots(dir)', s # f PROVE s \in SubSlots(dir)
    OBVIOUS
  <2>1. s \in Linking(dir)'
    BY DEF SubSlots
  <2>2. s \in Linking(dir) /\ slots'[dir][s] = slots[dir][s]
    BY <1>1, <1>2, <1>5, <2>1
  <2>3. PICK i : i = slots[dir][s].inum
    OBVIOUS
  <2>4. IsDirectory(i)' /\ i \in Inums
    BY <1>5, <2>2, <2>3 DEF SubSlots, IsDirectory
  <2> QED
    BY <1>6, <2>2, <2>3, <2>4 DEF SubSlots
<1>13. Subs(dir)' <= Subs(dir) + 1
  <2>1. IsFiniteSet(SubSlots(dir))
    BY <1>2, RefTypes
  <2>2. Cardinality(SubSlots(dir)') <= Cardinality(SubSlots(dir)) + 1
    BY <1>12, <2>1, AtMostOneMore
  <2> QED
    BY <2>2 DEF Subs
<1>14. \A y \in Inums : UnderWay(y)' <=> UnderWay(y)
  BY <1>3 DEF UnderWay, Creating
<1>15. ASSUME crashes' = 0, NEW y \in Inums, IsDirectory(y)', ~UnderWay(y)'
       PROVE  inode'[y].refcount >= 2 /\ RefOf(y)' >= 2 + Subs(y)'
  <2>1. /\ IsDirectory(y) /\ ~UnderWay(y)
        /\ inode[y].refcount >= 2 /\ inode[y].refcount >= 2 + Subs(y)
    BY <1>3, <1>6, <1>10, <1>14, <1>15 DEF RefInv, References
  <2>2. inode[y].refcount \in Nat /\ Subs(y) \in Nat /\ Subs(y)' \in Nat
    BY RefTypes, RefTypesNext
  <2>3. y # node
    BY <1>3, <2>1 DEF UnderWay, Creating
  <2>4. CASE y = dir /\ call.name \in Names /\ call.inum \in Inums /\ IsDirectory(call.inum)
    <3>1. PICK d \in Inums, n \in BaseNames : Making(d, n) \/ NoNode(d, n)
      BY <1>3 DEF DirInv, Phases
    <3>2. Making(d, n)
      BY <2>4, <3>1, Constants DEF NoNode, call, Call
    <3>3. Len(calls) = 1 /\ call.inum = node /\ node \in Inums /\ node # Missing
      <4>1. Call(node, ".", node).name = "." /\ Call(node, "..", d).name = ".."
            /\ Call(d, n, node).inum = node
        BY DEF Call
      <4> QED
        BY <2>4, <3>2, <4>1, CallOf, Constants DEF Making
    <3>4. core[node].type = "dir"
      BY <1>3, <2>4, <3>2, <3>3 DEF Making, IsDirectory
    <3>5. core[dir].refcount >= 3 + Subs(dir)
      BY <1>3, <1>15, <3>3, <3>4 DEF RefInv
    <3>6. core[dir].refcount \in Nat
      BY <1>2, <1>4
    <3>7. core[dir].refcount >= 2 + Subs(y)'
      BY <1>5, <1>13, <2>2, <2>4, <3>5, <3>6
    <3> QED
      BY <1>3, <1>10, <2>1, <2>4, <3>7
  <2>5. CASE ~(y = dir /\ call.name \in Names /\ call.inum \in Inums /\ IsDirectory(call.inum))
    <3>1. Subs(y)' <= Subs(y)
      BY <1>11, <2>5, SubsOf
    <3>2. RefOf(y)' >= inode[y].refcount /\ RefOf(y)' \in Nat
      <4>1. y = dir => core[dir].refcount >= inode[dir].refcount
        BY <1>2, <1>3, <2>3 DEF RefInv
      <4> QED
        BY <1>10, <2>2, <4>1, RefTypesNext
    <3> QED
      BY <1>3, <2>1, <2>2, <3>1, <3>2
  <2> QED
    BY <2>4, <2>5
<1>16. crashes' = 0 => References'
  BY <1>15 DEF References
<1> QED
  BY <1>3, <1>8, <1>9, <1>16 DEF RefInv, Creating

LEMMA RefWriteNode == ASSUME DirInv, DirInv', RefInv, WriteNode PROVE RefInv'
<1>1. PICK d \in Inums : Made(d)
  BY DEF WriteNode, DirInv, Phases
<1>2. /\ pc = "node" /\ pc' = "idle" /\ crashes' = crashes /\ slots' = slots
      /\ inode' = [inode EXCEPT ![node] = core[node]] /\ node' = Missing
      /\ node \in Inums /\ inode[node].type = core[node].type /\ inode[node].in_use
      /\ core[node].refcount = NewRef /\ Linking(node) = {}
  BY <1>1, Constants DEF WriteNode, Return, Made, DirInv, Cores, RefInv
<1>3. \A x \in Inums : inode'[x] = IF x = node THEN core[node] ELSE inode[x]
  BY <1>2 DEF DirInv, DiskType
<1>4. \A x \in Inums : IsDirectory(x)' => IsDirectory(x)
  BY <1>2, <1>3 DEF IsDirectory
<1>5. SubsFall
  BY <1>2, <1>4, SlotsLinking, SubsSame
<1>6. ASSUME crashes' = 0, NEW x \in Inums, IsDirectory(x)', ~UnderWay(x)'
      PROVE  inode'[x].refcount >= 2 /\ RefOf(x)' >= 2 + Subs(x)'
  <2>1. RefOf(x)' = inode'[x].refcount
    BY <1>2 DEF RefOf
  <2>2. CASE x = node
    <3>1. core[node].type = "dir" /\ core[node].refcount = 2
      BY <1>2, <1>3, <1>6, <2>2 DEF IsDirectory, NewRef
    <3>2. SubSlots(x)' = {}
      <4>1. Linking(x)' = {}
        BY <1>2, <2>2 DEF Linking
      <4> QED
        BY <4>1 DEF SubSlots
    <3>3. Subs(x)' = 0
      BY <3>2, FS_EmptySet DEF Subs
    <3> QED
      BY <1>3, <2>1, <2>2, <3>1, <3>3
  <2>3. CASE x # node
    <3>1. IsDirectory(x) /\ ~UnderWay(x)
      BY <1>4, <1>6, <2>3 DEF UnderWay
    <3>2. inode[x].refcount >= 2 /\ RefOf(x) >= 2 + Subs(x) /\ RefOf(x) = inode[x].refcount
      BY <1>2, <1>6, <3>1 DEF RefInv, References, RefOf
    <3>3. Subs(x)' \in Nat /\ Subs(x) \in Nat /\ Subs(x)' <= Subs(x) /\ inode[x].refcount \in Nat
      BY <1>5, RefTypes DEF SubsFall
    <3> QED
      BY <1>3, <2>1, <2>3, <3>2, <3>3
  <2> QED
    BY <2>2, <2>3
<1>7. crashes' = 0 => References'
  BY <1>6 DEF References
<1> QED
  BY <1>2, <1>7 DEF RefInv, Creating

LEMMA RefCountEntry == ASSUME DirInv, DirInv', RefInv, CountEntry PROVE RefInv'
<1>1. /\ dir \in DOMAIN core /\ dir \in Inums /\ core[dir].in_use /\ core[dir].type = "dir"
      /\ DOMAIN core \subseteq Inums
      /\ dir # node => inode[dir].type = "dir" /\ inode[dir].in_use
  BY Adding DEF CountEntry, DirInv, RestType
<1>2. /\ pc = "count" /\ crashes' = crashes /\ slots' = slots
      /\ inode' = [inode EXCEPT ![dir] = core[dir]]
      /\ \/ /\ Tail(calls) = <<>> /\ IsSymlink /\ Return
         \/ /\ ~(Tail(calls) = <<>> /\ IsSymlink)
            /\ pc' = IF Tail(calls) = <<>> THEN "node" ELSE "add"
            /\ calls' = Tail(calls) /\ node' = node
            /\ core' = IF call.name = ".."
                       THEN [core EXCEPT ![call.inum].refcount = @ + 1, ![dir].refcount = @ + 1]
                       ELSE core
  BY Zenon DEF CountEntry
<1>3. \A x \in Inums : inode'[x] = IF x = dir THEN core[dir] ELSE inode[x]
  BY <1>2 DEF DirInv, DiskType
<1>4. \A x \in DOMAIN core : core[x] \in InodeRecord /\ core[x].refcount \in Nat
  BY <1>2 DEF DirInv, Cores, InodeRecord
<1>5. PICK d \in Inums, n \in BaseNames : Making(d, n) \/ NoNode(d, n)
  BY <1>2 DEF DirInv, Phases
<1>6. ASSUME node # Missing
      PROVE  /\ Making(d, n) /\ node \in DOMAIN core /\ core[node].refcount = NewRef
             /\ dir = node => Unlinked(node) /\ Len(calls) # 1
  <2>1. Making(d, n)
    BY <1>5, <1>6 DEF NoNode
  <2>2. dir = node => Len(calls) # 1 /\ Len(calls) \in 1 .. 3
    BY <2>1, CallOf DEF Making
  <2>3. dir = node => Left > 0
    BY <1>2, <2>2 DEF Left
  <2> QED
    BY <1>2, <1>6, <2>1, <2>2, <2>3 DEF Making, RefInv, Creating
<1>7. dir # Missing
  BY <1>1, Constants
<1>8. \A x \in Inums : IsDirectory(x)' => IsDirectory(x) \/ (x = node /\ Unlinked(x) /\ dir = node)
  BY <1>1, <1>3, <1>6, <1>7 DEF IsDirectory
<1>9. SubsFall
  BY <1>2, <1>8, SlotsLinking, SubsSame
<1>10. ASSUME NEW x \in Inums, x # node, pc' # "count"
       PROVE  inode'[x].refcount >= inode[x].refcount /\ RefOf(x)' >= RefOf(x)
  <2>1. RefOf(x) = inode'[x].refcount /\ RefOf(x)' = inode'[x].refcount
    BY <1>2, <1>3, <1>10 DEF RefOf
  <2>2. inode'[x].refcount \in Nat
    BY RefTypesNext
  <2>3. inode'[x].refcount >= inode[x].refcount
    <3>1. CASE x = dir
      BY <1>1, <1>2, <1>3, <1>10, <3>1 DEF RefInv
    <3>2. CASE x # dir
      BY <1>3, <2>2, <3>2
    <3> QED
      BY <3>1, <3>2
  <2> QED
    BY <2>1, <2>2, <2>3
<1>11. CASE Tail(calls) = <<>> /\ IsSymlink /\ Return
  <2>1. ~IsDirectory(node)'
    <3>1. CASE node = Missing
      BY <1>11, <3>1, Constants DEF IsDirectory, Return
    <3>2. CASE node # Missing
      <4>1. inode[node].type = core[node].type /\ core[node].type = "symlink" /\ dir # node
        <5>1. dir # node
          <6>1. dir = node => core[node].type = "dir"
            BY <1>1
          <6> QED
            BY <1>11, <3>2, <6>1 DEF IsSymlink
        <5> QED
          BY <1>2, <1>6, <1>11, <3>2, <5>1 DEF Making, IsSymlink
      <4>2. node' = Missing
        BY <1>11 DEF Return
      <4> QED
        BY <4>2, Constants DEF IsDirectory
    <3> QED
      BY <3>1, <3>2
  <2>2. ~(IsDirectory(node) \/ dir = node) \/ node = Missing
    <3>1. ASSUME node # Missing PROVE ~(IsDirectory(node) \/ dir = node)
      <4>1. core[node].type = "symlink" /\ inode[node].type = core[node].type
        BY <1>2, <1>6, <1>11, <3>1 DEF Making, IsSymlink
      <4> QED
        BY <1>1, <4>1 DEF IsDirectory
    <3> QED
      BY <3>1
  <2>3. pc' = "idle"
    BY <1>11 DEF Return
  <2>4. ASSUME NEW x \in Inums PROVE Rises(x)
    <3>1. CASE x = node
      <4>1. ~IsDirectory(x)'
        BY <1>8, <2>2, <3>1, Constants
      <4> QED
        BY <4>1 DEF Rises
    <3>2. CASE x # node
      <4>1. IsDirectory(x)' => IsDirectory(x)
        BY <1>8, <3>2
      <4>2. ~UnderWay(x)
        BY <3>2 DEF UnderWay
      <4> QED
        BY <1>10, <2>3, <3>2, <4>1, <4>2 DEF Rises
    <3> QED
      BY <3>1, <3>2
  <2>5. crashes' = 0 => References'
    BY <1>2, <1>9, <2>4, RefKept DEF RefInv
  <2> QED
    BY <2>3, <2>5 DEF RefInv, Creating
<1>12. CASE /\ pc' = IF Tail(calls) = <<>> THEN "node" ELSE "add"
            /\ calls' = Tail(calls) /\ node' = node
            /\ ~(Tail(calls) = <<>> /\ IsSymlink)
            /\ core' = IF call.name = ".."
                       THEN [core EXCEPT ![call.inum].refcount = @ + 1, ![dir].refcount = @ + 1]
                       ELSE core
  <2>1. node # Missing
    <3>1. NoNode(d, n) => Tail(calls) = <<>> /\ IsSymlink
      BY DEF NoNode, IsSymlink
    <3> QED
      BY <1>5, <1>12, <3>1, Constants DEF Making
  <2>2. /\ Making(d, n) /\ DOMAIN core = {d, node} /\ node # d /\ node \in Inums
        /\ core[node].refcount = NewRef
        /\ dir = node => Unlinked(node)
    BY <1>6, <2>1 DEF Making
  <2>3. /\ Len(calls) = 3 => call = Call(node, ".", node) /\ dir = node /\ Len(Tail(calls)) = 2
        /\ Len(calls) = 2 => /\ call = Call(node, "..", d) /\ dir = node
                            /\ Tail(calls) = Script(d, n, node, 1) /\ Len(Tail(calls)) = 1
        /\ Len(calls) = 1 => call = Call(d, n, node) /\ dir = d /\ Tail(calls) = <<>>
        /\ Len(calls) \in {1, 2, 3}
    BY <2>2, CallOf
  <2>4. call.name = ".." <=> Len(calls) = 2
    <3>1. CASE Len(calls) = 1
      <4>1. n \in Names
        BY <1>12, <2>2, <2>3, <3>1 DEF Making, Named
      <4> QED
        BY <2>3, <3>1, <4>1, Constants DEF Call
    <3>2. CASE Len(calls) # 1
      BY <2>3, <3>2 DEF Call
    <3> QED
      BY <3>1, <3>2
  <2>5. /\ Len(calls) # 2 => core' = core
        /\ Len(calls) = 2 => core' = [core EXCEPT ![d].refcount = @ + 1, ![node].refcount = @ + 1]
    <3>1. CASE Len(calls) # 2
      BY <1>12, <2>4, <3>1
    <3>2. CASE Len(calls) = 2
      <4>1. call.inum = d /\ dir = node
        BY <2>3, <3>2 DEF Call
      <4>2. core' = [core EXCEPT ![call.inum].refcount = @ + 1, ![dir].refcount = @ + 1]
        BY <1>12, <2>4, <3>2
      <4> QED
        BY <3>2, <4>1, <4>2
    <3> QED
      BY <3>1, <3>2
  <2>6. DOMAIN core' = {d, node}
        /\ \A x \in {d, node} :
               /\ core'[x].type = core[x].type
               /\ core'[x].refcount = core[x].refcount + IF Len(calls) = 2 THEN 1 ELSE 0
    BY <1>4, <2>2, <2>5 DEF InodeRecord
  <2>7. /\ Len(calls) = 1 => pc' = "node"
        /\ Len(calls) # 1 => pc' = "add" /\ Len(calls') = Len(calls) - 1
    <3>1. CASE Len(calls) = 1
      BY <1>12, <2>3, <3>1
    <3>2. CASE Len(calls) # 1
      <4> DEFINE rest == Tail(calls)
      <4>1. Len(rest) = Len(calls) - 1 /\ Len(rest) \in {1, 2}
        BY <2>3, <3>2
      <4> HIDE DEF rest
      <4>2. rest # <<>>
        BY <4>1
      <4>3. Len(rest) = Len(calls) - 1 /\ calls' = rest /\ pc' = "add"
        BY <1>12, <4>1, <4>2 DEF rest
      <4> QED
        BY <3>2, <4>3
    <3> QED
      BY <3>1, <3>2
  <2>8. core[node].type = "dir" \/ Len(calls) = 1
    BY <2>2 DEF Making
  <2>9. core'[node].refcount = NewRef'
    BY <1>2, <1>12, <2>2, <2>3, <2>6, <2>7, <2>8 DEF NewRef
  <2>10. pc' = "node" => Linking(node)' = {}
    <3>1. Linking(node) = {}
      BY <2>2, MadeEmpty DEF DirInv
    <3> QED
      BY <1>2, <1>12, <3>1 DEF Linking
  <2>11. ASSUME NEW x \in Inums PROVE Rises(x)
    <3>1. CASE x = node
      BY <1>12, <2>7, <3>1 DEF Rises, UnderWay, Creating
    <3>2. CASE x # node
      <4>1. IsDirectory(x)' => IsDirectory(x)
        BY <1>8, <3>2
      <4> QED
        BY <1>10, <2>7, <3>2, <4>1 DEF Rises, UnderWay
    <3> QED
      BY <3>1, <3>2
  <2>12. crashes' = 0 => References'
    BY <1>2, <1>9, <2>11, RefKept DEF RefInv
  <2>13. core[d].refcount >= inode[d].refcount /\ core'[d].refcount >= inode'[d].refcount
    <3>1. core[d].refcount >= inode[d].refcount /\ core[d].refcount \in Nat /\ inode[d].refcount \in Nat
      BY <1>2, <1>4, <2>2, RefTypes DEF RefInv
    <3>2. inode'[d] = core[d] \/ inode'[d] = inode[d]
      BY <1>3
    <3> QED
      BY <2>6, <3>1, <3>2
  <2>14. ASSUME crashes' = 0, pc' = "add", Len(calls') = 1
         PROVE  core'[dir'].refcount >= 3 + Subs(dir)'
    <3>1. Len(calls) = 2 /\ calls' = <<Call(d, n, node)>> /\ dir = node
      BY <1>12, <2>3, <2>7, <2>14 DEF Script
    <3>2. dir' = d
      BY <3>1 DEF dir, call, Call
    <3>3. IsDirectory(d) /\ ~UnderWay(d)
      BY <1>2, <2>2 DEF DirInv, Cores, IsDirectory, UnderWay
    <3>4. inode[d].refcount >= 2 + Subs(d)
      BY <1>2, <2>2, <2>14, <3>1, <3>3 DEF RefInv, References, RefOf
    <3>5. Subs(d)' \in Nat /\ Subs(d) \in Nat /\ Subs(d)' <= Subs(d)
      BY <1>9 DEF SubsFall
    <3>6. core'[d].refcount = core[d].refcount + 1 /\ core[d].refcount \in Nat
          /\ inode[d].refcount \in Nat
      BY <1>4, <2>2, <2>6, <3>1, RefTypes
    <3>7. core'[d].refcount >= 3 + Subs(d)'
      BY <2>13, <3>4, <3>5, <3>6
    <3>8. Subs(dir)' = Subs(d)'
      BY <3>2 DEF Subs, SubSlots, Linking, IsDirectory
    <3> QED
      BY <3>2, <3>7, <3>8
  <2>15. \A x \in DOMAIN core' \ {node'} : core'[x].refcount >= inode'[x].refcount
    BY <1>12, <2>6, <2>13
  <2> QED
    BY <1>12, <2>7, <2>9, <2>10, <2>12, <2>14, <2>15 DEF RefInv, Creating
<1> QED
  BY <1>2, <1>11, <1>12

LEMMA RefUndo == ASSUME DirInv, DirInv', RefInv, Undo PROVE RefInv'
<1>1. PICK d \in Inums, n \in BaseNames : Making(d, n)
  BY DEF Undo, DirInv, Phases, NoNode
<1>2. /\ pc = "undo" /\ pc' = "idle" /\ inode' = [inode EXCEPT ![node] = FreeInode]
      /\ slots' = [slots EXCEPT ![node] = <<>>] /\ crashes' = crashes /\ node \in Inums
  BY <1>1 DEF Undo, Return, Making
<1>3. \A x \in Inums : inode'[x] = IF x = node THEN FreeInode ELSE inode[x]
  BY <1>2 DEF DirInv, DiskType
<1>4. \A x \in Inums : IsDirectory(x)' => IsDirectory(x) /\ x # node
  BY <1>3, FreeInodeType DEF IsDirectory
<1>5. SubsFall
  <2>1. Linking(node) = {}
    BY <1>1, MadeEmpty DEF DirInv
  <2> QED
    BY <1>2, <1>4, <2>1, LinksEmptied, SubsSame
<1>6. ASSUME NEW x \in Inums PROVE Rises(x)
  <2>1. CASE x = node
    BY <1>4, <2>1 DEF Rises
  <2>2. CASE x # node
    <3>1. RefOf(x)' = RefOf(x) /\ inode'[x].refcount = inode[x].refcount
      BY <1>2, <1>3, <2>2 DEF RefOf
    <3>2. inode[x].refcount \in Nat /\ RefOf(x) \in Nat
      BY RefTypes
    <3> QED
      BY <1>4, <2>2, <3>1, <3>2 DEF Rises, UnderWay
  <2> QED
    BY <2>1, <2>2
<1>7. crashes' = 0 => References'
  BY <1>2, <1>5, <1>6, RefKept DEF RefInv
<1> QED
  BY <1>2, <1>7 DEF RefInv, Creating

LEMMA RefRemoveEntry ==
    ASSUME DirInv, DirInv', RefInv, NEW kind \in {"unlink", "rmdir"}, NEW d \in Inums,
           NEW n \in Names, RemoveEntry(kind, d, n)
    PROVE  RefInv'
<1>1. /\ inode' = inode /\ pc = "idle" /\ pc' = "drop" /\ crashes' = crashes
      /\ core' = [x \in {d} |-> [inode[d] EXCEPT !.n_bytes = (@ + SizeModulus - 1) % SizeModulus]]
  BY DEF RemoveEntry, Idle
<1>2. \A y \in Inums : \A s \in Linking(y)' : s \in Linking(y) /\ slots'[y][s] = slots[y][s]
  BY EntryUnlinks
<1>3. \A x \in Inums : IsDirectory(x)' <=> IsDirectory(x)
  BY <1>1 DEF IsDirectory
<1>4. SubsFall
  BY <1>2, <1>3, SubsKept
<1>5. ASSUME NEW x \in Inums PROVE Rises(x)
  <2>1. RefOf(x)' = RefOf(x) /\ inode'[x].refcount = inode[x].refcount
    BY <1>1 DEF RefOf
  <2>2. inode[x].refcount \in Nat /\ RefOf(x) \in Nat
    BY RefTypes
  <2> QED
    BY <1>1, <1>3, <2>1, <2>2 DEF Rises, UnderWay, Creating
<1>6. crashes' = 0 => References'
  BY <1>1, <1>4, <1>5, RefKept DEF RefInv
<1>7. \A x \in DOMAIN core' : core'[x].refcount >= inode'[x].refcount
  <2>1. inode[d] \in InodeRecord
    BY DEF DirInv, DiskType
  <2> QED
    BY <1>1, <2>1 DEF InodeRecord
<1> QED
  BY <1>1, <1>6, <1>7 DEF RefInv, Creating

(* Until the first crash no directory comes down to its last reference.    *)
LEMMA RefReleaseBlock == ASSUME DirInv, RefInv, ReleaseBlock PROVE RefInv'
<1>1. PICK d \in Inums, n \in Names : Removing(d, n)
  BY DEF ReleaseBlock, LastReference, DirInv, Phases
<1>2. PICK i \in Inums : i = node
  BY <1>1 DEF Removing
<1>3. /\ pc = "drop" /\ pc' = "drop" /\ inode' = inode /\ core' = core /\ node' = node
      /\ crashes' = crashes /\ inode[i].refcount = 1 /\ slots[i] # <<>>
  BY <1>2 DEF ReleaseBlock, LastReference
<1>4. IsDirectory(i) /\ ~UnderWay(i)
  BY <1>3 DEF DirInv, Homes, IsDirectory, UnderWay, Creating
<1>5. crashes = 0 => inode[i].refcount >= 2
  BY <1>4 DEF RefInv, References
<1>6. crashes # 0
  BY <1>3, <1>5
<1> QED
  BY <1>3, <1>6 DEF RefInv, Creating

LEMMA RefDropReference == ASSUME DirInv, DirInv', RefInv, DropReference PROVE RefInv'
<1>1. PICK d \in Inums, n \in Names : Removing(d, n)
  BY DEF DropReference, DirInv, Phases
<1>2. /\ pc = "drop" /\ pc' = "uncount" /\ core' = core /\ node' = node /\ crashes' = crashes
      /\ node \in Inums /\ DOMAIN core = {d} /\ d # node
  BY <1>1 DEF DropReference, Removing
<1>3. slots' = slots /\ (inode' = inode \/ inode' = [inode EXCEPT ![node] = FreeInode])
  BY DEF DropReference
<1>4. \A x \in Inums : /\ x # node => inode'[x] = inode[x]
                       /\ inode'[x] = inode[x] \/ inode'[x] = FreeInode
  BY <1>3 DEF DirInv, DiskType
<1>5. \A x \in Inums : IsDirectory(x)' => IsDirectory(x) /\ inode'[x] = inode[x]
  BY <1>4, FreeInodeType DEF IsDirectory
<1>6. SubsFall
  BY <1>3, <1>5, SlotsLinking, SubsSame
<1>7. ASSUME NEW x \in Inums PROVE Rises(x)
  <2>1. RefOf(x)' = inode'[x].refcount /\ RefOf(x) = inode[x].refcount /\ inode[x].refcount \in Nat
    BY <1>2, RefTypes DEF RefOf
  <2> QED
    BY <1>2, <1>5, <2>1 DEF Rises, UnderWay, Creating
<1>8. crashes' = 0 => References'
  BY <1>2, <1>6, <1>7, RefKept DEF RefInv
<1> QED
  BY <1>2, <1>4, <1>8 DEF RefInv, Creating

LEMMA RefUncountEntry == ASSUME DirInv, DirInv', RefInv, UncountEntry PROVE RefInv'
<1>1. PICK d \in Inums, n \in Names : Removing(d, n)
  BY DEF UncountEntry, DirInv, Phases
<1>2. /\ pc = "uncount" /\ pc' = "idle" /\ slots' = slots /\ crashes' = crashes
      /\ dir = d /\ d \in DOMAIN core \ {node}
      /\ core[d] \in InodeRecord /\ IsDirectory(d)
  BY <1>1 DEF UncountEntry, Return, Removing, dir, call, Call, DirInv, Cores, IsDirectory
<1>3. core[d].refcount >= inode[d].refcount
  BY <1>2 DEF RefInv
<1>4. \A x \in Inums : /\ x # d => inode'[x] = inode[x]
                       /\ inode'[x].refcount >= inode[x].refcount
  <2>1. \A x \in Inums : inode[x].refcount \in Nat
    BY RefTypes
  <2>2. CASE core[d].num_direntries = 0
    <3>1. inode' = inode
      BY <1>2, <2>2 DEF UncountEntry
    <3> QED
      BY <2>1, <3>1
  <2>3. CASE core[d].num_direntries # 0
    <3> DEFINE r == [core[d] EXCEPT !.num_direntries = @ - 1]
    <3>1. inode' = [inode EXCEPT ![d] = r]
      BY <1>2, <2>3 DEF UncountEntry
    <3>2. r.refcount = core[d].refcount
      BY <1>2 DEF InodeRecord
    <3> HIDE DEF r
    <3>3. \A x \in Inums : inode'[x] = IF x = d THEN r ELSE inode[x]
      BY <3>1 DEF DirInv, DiskType
    <3> QED
      BY <1>3, <2>1, <3>2, <3>3
  <2> QED
    BY <2>2, <2>3
<1>5. \A x \in Inums : IsDirectory(x)' => IsDirectory(x)
  BY <1>2, <1>4 DEF IsDirectory
<1>6. SubsFall
  BY <1>2, <1>5, SlotsLinking, SubsSame
<1>7. ASSUME NEW x \in Inums PROVE Rises(x)
  <2>1. RefOf(x)' = inode'[x].refcount /\ RefOf(x) = inode[x].refcount
    BY <1>2 DEF RefOf
  <2> QED
    BY <1>2, <1>4, <1>5, <2>1 DEF Rises, UnderWay, Creating
<1>8. crashes' = 0 => References'
  BY <1>2, <1>6, <1>7, RefKept DEF RefInv
<1> QED
  BY <1>2, <1>8 DEF RefInv, Creating

LEMMA RefCrash == ASSUME DirInv, Crash PROVE RefInv'
<1>1. pc' = "idle" /\ crashes' = crashes + 1 /\ crashes \in Nat
  BY DEF Crash, Return, DirInv, RestType
<1> QED
  BY <1>1 DEF RefInv, Creating

LEMMA RefStutter == ASSUME RefInv, UNCHANGED dirVars PROVE RefInv'
  BY RefSame DEF dirVars, history

LEMMA RefStep == ASSUME DirInv, RefInv, [DirNext]_dirVars PROVE RefInv'
<1>1. DirInv' /\ \A d \in Directories : d \in Inums /\ IsDirectory(d)
  BY InvStep, DirectoriesAre
<1>2. ASSUME NEW d \in Directories, NEW n \in BaseNames, NEW i \in Inums,
             NEW kind \in {"file", "dir", "symlink"}, Allocate(kind, d, n, i)
      PROVE  RefInv'
  BY <1>1, <1>2, RefAllocate
<1>3. ASSUME NEW d \in Directories, NEW n \in Names,
             NEW kind \in {"unlink", "rmdir"}, RemoveEntry(kind, d, n)
      PROVE  RefInv'
  BY <1>1, <1>3, RefRemoveEntry
<1>4. ASSUME NEW d \in Directories, NEW n \in Names, CreateFails(d, n) PROVE RefInv'
  BY <1>4, RefStutter DEF CreateFails
<1>5. CASE Query \/ UNCHANGED dirVars
  BY <1>5, RefStutter DEF Query
<1> QED
  BY <1>1, <1>2, <1>3, <1>4, <1>5, RefSymlinkWithoutInode, RefWriteSymlink, RefPop, RefGrow,
     RefAddFails, RefWriteEntry, RefCountEntry, RefWriteNode, RefUndo,
     RefReleaseBlock, RefDropReference, RefUncountEntry, RefCrash DEF DirNext

LEMMA RefStart == DirInit => RefInv
<1> SUFFICES ASSUME DirInit PROVE RefInv
  OBVIOUS
<1>1. DirInv /\ pc = "idle"
  BY InvInit DEF DirInit
<1>2. Links = {}
  BY TreeStart DEF NS!TreeInit
<1>3. ASSUME NEW d \in Inums, IsDirectory(d) PROVE inode[d].refcount >= 2 /\ RefOf(d) >= 2 + Subs(d)
  <2>1. inode[d].refcount = 2 /\ RefOf(d) = 2
    BY <1>1, <1>3 DEF DirInit, IsDirectory, FreeInode, RefOf
  <2>2. SubSlots(d) = {}
    <3>1. ASSUME NEW s \in Linking(d) PROVE FALSE
      <4>1. Call(d, slots[d][s].name, slots[d][s].inum) \in Links
        BY <1>1, LinksFrom
      <4> QED
        BY <1>2, <4>1
    <3> QED
      BY <3>1 DEF SubSlots
  <2>3. Subs(d) = 0
    BY <2>2, FS_EmptySet DEF Subs
  <2> QED
    BY <2>1, <2>3
<1> QED
  BY <1>1, <1>3 DEF RefInv, References, Creating

LEMMA RefInvariant == DirSpec => [](DirInv /\ RefInv)
<1>1. DirInit => DirInv /\ RefInv
  BY InvInit, RefStart
<1>2. DirInv /\ RefInv /\ [DirNext]_dirVars => (DirInv /\ RefInv)'
  BY InvStep, RefStep
<1> QED
  BY <1>1, <1>2, PTL DEF DirSpec

(* Until the first crash a directory's references are never fewer than its *)
(* name, its `.' and the `..' of each directory in it: LinksCounted.       *)
THEOREM NeverTooFew == DirSpec => []LinksCounted
<1>1. ASSUME DirInv, RefInv PROVE LinksCounted
  <2> SUFFICES ASSUME Idle, crashes = 0, NEW d \in Directories
               PROVE  inode[d].refcount >=
                          2 + Cardinality({l \in Links : l.dir = d /\ IsDirectory(l.inum)})
    BY DEF LinksCounted, Subdirectories
  <2>1. d \in Inums /\ IsDirectory(d) /\ ~UnderWay(d)
    BY <1>1, DirectoriesAre DEF UnderWay, Creating, Idle
  <2>2. inode[d].refcount >= 2 + Subs(d)
    BY <1>1, <2>1 DEF RefInv, References, RefOf, Idle
  <2>3. inode[d].refcount \in Nat /\ IsFiniteSet(SubSlots(d)) /\ Subs(d) \in Nat
    BY <1>1, <2>1, RefTypes
  <2> DEFINE T == {l \in Links : l.dir = d /\ IsDirectory(l.inum)}
             g == [s \in SubSlots(d) |-> Call(d, slots[d][s].name, slots[d][s].inum)]
  <2>4. ASSUME NEW l \in T PROVE \E s \in SubSlots(d) : g[s] = l
    <3>1. PICK e \in Inums : \E s \in Linking(e) : l = Call(e, slots[e][s].name, slots[e][s].inum)
      BY <1>1, LinksFrom
    <3>2. PICK s \in Linking(e) : l = Call(e, slots[e][s].name, slots[e][s].inum)
      BY <3>1
    <3>3. e = d /\ IsDirectory(slots[d][s].inum)
      BY <3>2 DEF Call
    <3>4. s \in SubSlots(d)
      BY <3>3 DEF SubSlots
    <3> QED
      BY <3>2, <3>3, <3>4
  <2>5. \A s \in SubSlots(d) : g[s] \in T
    BY <1>1, <2>1, LinksFrom DEF SubSlots, Call
  <2>6. g \in Surjection(SubSlots(d), T)
    <3>1. g \in [SubSlots(d) -> T]
      BY <2>5
    <3> HIDE DEF g, T
    <3> QED
      BY <2>4, <3>1 DEF Surjection
  <2> HIDE DEF g, T
  <2>7. IsFiniteSet(T) /\ Cardinality(T) <= Cardinality(SubSlots(d))
    BY <2>3, <2>6, FS_Surjection
  <2>8. Cardinality(T) \in Nat /\ Cardinality(T) <= Subs(d)
    BY <2>7, FS_CardinalityType DEF Subs
  <2>9. inode[d].refcount >= 2 + Cardinality(T)
    BY <2>2, <2>3, <2>8
  <2> QED
    BY <2>9 DEF T
<1> QED
  BY <1>1, RefInvariant, PTL

-----------------------------------------------------------------------------
(* Files                                                                   *)

(* The inode to which the running operation leads, though no entry may.    *)
Pending(i) == i = node /\ (Creating \/ pc = "drop")

(* What is true of the inode i when a crash lost the file x, or left it    *)
(* without its reference.  Missing is no file.                             *)
FileAt(i, x) ==
    /\ inode[i].in_use /\ inode[i].type = "file" =>
           /\ Unlinked(i) => i = x \/ Pending(i)
           /\ i = x \/ inode[i].refcount = 1 \/ UnderWay(i)
    /\ UnderWay(i) => OffOf(i) = 0
    /\ IsDirectory(i) /\ inode[i].refcount <= 1 /\ ~Unlinked(i) => OffOf(i) = 0
Emptied == pc = "drop" /\ inode[node].refcount = 1 => Linking(node) = {}
NowLinked == pc = "count" /\ Left = 0 /\ ~IsSymlink => ~Unlinked(node)
FilesAt(x) ==
    /\ crashes = 0 => x = Missing
    /\ \A i \in Inums : FileAt(i, x)
    /\ Emptied /\ NowLinked
FilesInv == crashes <= 1 => \E x \in Inums \union {Missing} : FilesAt(x)

(* Steps that leave the inode i as it is, or nearly so.                    *)
KeepsFile(i) ==
    inode'[i].in_use /\ inode'[i].type = "file" =>
        /\ inode[i].in_use /\ inode[i].type = "file"
        /\ inode'[i].refcount = inode[i].refcount
        /\ Unlinked(i)' => Unlinked(i) /\ (Pending(i) => Pending(i)')
        /\ UnderWay(i) => UnderWay(i)'
KeepsDirectory(i) ==
    /\ UnderWay(i)' => UnderWay(i)
    /\ IsDirectory(i)' =>
           \/ UnderWay(i)
           \/ /\ IsDirectory(i) /\ inode'[i].refcount >= inode[i].refcount
              /\ Unlinked(i) => Unlinked(i)'

(* No entry leads to the root, and no operation is about to make it.       *)
LEMMA RootApart == DirInv => Unlinked(Root) /\ ~UnderWay(Root)
<1> SUFFICES ASSUME DirInv PROVE Unlinked(Root) /\ ~UnderWay(Root)
  OBVIOUS
<1>1. Unlinked(Root)
  BY DEF DirInv, GoodLinks, Unlinked
<1>2. ASSUME UnderWay(Root) PROVE FALSE
  <2>1. node = Root /\ node # Missing /\ (Creating \/ pc = "node")
    BY <1>2, Constants DEF UnderWay
  <2>2. \E d \in Inums, n \in BaseNames : Making(d, n) \/ Made(d)
    BY <2>1 DEF DirInv, Phases, Creating, NoNode
  <2> QED
    BY <2>1, <2>2 DEF Making, Made
<1> QED
  BY <1>1, <1>2

LEMMA RootApartNext == DirInv' => (Unlinked(Root) /\ ~UnderWay(Root))'
  BY RootApart, PTL

LEMMA DirectoryStays ==
    ASSUME DirInv, DirInv', Falls, NEW i \in Inums, NEW x, FileAt(i, x), KeepsDirectory(i)
    PROVE  /\ UnderWay(i)' => OffOf(i)' = 0
           /\ IsDirectory(i)' /\ inode'[i].refcount <= 1 /\ ~Unlinked(i)' => OffOf(i)' = 0
<1>0. CASE i = Root
  BY <1>0, RootApartNext
<1>1. i # Root => OffOf(i) \in Nat /\ OffOf(i)' \in Nat /\ OffOf(i)' <= OffOf(i)
  BY OffNat, OffNatNext DEF Falls
<1>2. i # Root /\ OffOf(i) = 0 => OffOf(i)' = 0
  BY <1>1
<1>3. UnderWay(i) => OffOf(i) = 0
  BY DEF FileAt
<1>4. inode[i].refcount \in Nat /\ inode'[i].refcount \in Nat
  BY RefTypes, RefTypesNext
<1>5. ASSUME IsDirectory(i)', inode'[i].refcount <= 1, ~Unlinked(i)', ~UnderWay(i)
      PROVE  OffOf(i) = 0
  <2>1. IsDirectory(i) /\ inode'[i].refcount >= inode[i].refcount /\ ~Unlinked(i)
    BY <1>5 DEF KeepsDirectory
  <2>2. inode[i].refcount <= 1
    BY <1>4, <1>5, <2>1
  <2> QED
    BY <2>1, <2>2 DEF FileAt
<1> QED
  BY <1>0, <1>2, <1>3, <1>5 DEF KeepsDirectory

LEMMA FileStays ==
    ASSUME DirInv, DirInv', Falls, NEW i \in Inums, NEW x, FileAt(i, x),
           KeepsFile(i), KeepsDirectory(i)
    PROVE  FileAt(i, x)'
<1>1. ASSUME inode'[i].in_use, inode'[i].type = "file"
      PROVE  /\ Unlinked(i)' => i = x \/ Pending(i)'
             /\ i = x \/ inode'[i].refcount = 1 \/ UnderWay(i)'
  BY <1>1 DEF FileAt, KeepsFile
<1> QED
  BY <1>1, DirectoryStays DEF FileAt

(* A step that changes no inode and no slot, and nothing of the operation. *)
LEMMA FilesSame ==
    ASSUME NEW x, FilesAt(x), UNCHANGED <<inode, slots, pc, node, core, calls, crashes>>
    PROVE  FilesAt(x)'
<1>1. /\ inode' = inode /\ slots' = slots /\ pc' = pc /\ calls' = calls /\ crashes' = crashes
      /\ node' = node /\ core' = core
  OBVIOUS
<1>2. dir' = dir /\ Left' = Left /\ Linking(node)' = Linking(node) /\ (IsSymlink' <=> IsSymlink)
  BY <1>1 DEF dir, call, Left, Linking, IsSymlink
<1>3. \A y : /\ Unlinked(y)' <=> Unlinked(y)
             /\ Pending(y)' <=> Pending(y)
             /\ UnderWay(y)' <=> UnderWay(y)
             /\ Counted(y)' <=> Counted(y)
  BY <1>1 DEF Unlinked, Linking, Pending, UnderWay, Creating, Counted
<1>4. \A y : OffOf(y)' = OffOf(y) /\ (IsDirectory(y)' <=> IsDirectory(y))
  BY <1>1, <1>2, <1>3 DEF OffOf, NumOf, IsDirectory, EntriesOf
<1>5. \A y : FileAt(y, x) => FileAt(y, x)'
  BY <1>1, <1>3, <1>4 DEF FileAt
<1>6. (Emptied => Emptied') /\ (NowLinked => NowLinked')
  BY <1>1, <1>2, <1>3 DEF Emptied, NowLinked
<1> QED
  BY <1>1, <1>5, <1>6 DEF FilesAt

(* The steps.                                                              *)
LEMMA FilesAllocate ==
    ASSUME DirInv, DirInv', CountInv, NEW x, FilesAt(x), NEW kind \in {"file", "dir", "symlink"},
           NEW d \in Inums, NEW n \in BaseNames, NEW i \in Inums, Allocate(kind, d, n, i)
    PROVE  FilesAt(x)'
<1>1. /\ inode' = [inode EXCEPT ![i].in_use = TRUE] /\ slots' = slots /\ pc = "idle"
      /\ pc' \in {"symlink", "add"} /\ crashes' = crashes /\ inode[i] = FreeInode /\ node' = i
  BY DEF Allocate, Idle, DirInv, Homes
<1>2. Falls
  BY CountAllocate
<1>3. \A y : Unlinked(y)' <=> Unlinked(y)
  BY <1>1, SlotsLinking, UnlinkedSame
<1>4. ASSUME NEW y \in Inums, y # i PROVE FileAt(y, x)'
  <2>1. inode'[y] = inode[y]
    BY <1>1, <1>4 DEF DirInv, DiskType
  <2>2. ~Pending(y) /\ ~UnderWay(y) /\ ~UnderWay(y)'
    BY <1>1, <1>4 DEF Pending, UnderWay, Creating
  <2>3. IsDirectory(y)' => IsDirectory(y) /\ inode'[y].refcount >= inode[y].refcount
    BY <2>1, RefTypes DEF IsDirectory
  <2>4. KeepsFile(y)
    BY <1>3, <2>1, <2>2 DEF KeepsFile
  <2>5. KeepsDirectory(y)
    BY <1>3, <2>2, <2>3 DEF KeepsDirectory
  <2> QED
    BY <1>2, <2>4, <2>5, FileStays DEF FilesAt
<1>5. FileAt(i, x)'
  <2>1. inode'[i].type = "file" /\ ~IsDirectory(i)'
    BY <1>1 DEF DirInv, DiskType, FreeInode, InodeRecord, IsDirectory
  <2>2. Pending(i)' /\ UnderWay(i)'
    BY <1>1 DEF Pending, UnderWay, Creating
  <2>3. OffOf(i)' = 0
    BY <2>1 DEF OffOf
  <2> QED
    BY <2>1, <2>2, <2>3 DEF FileAt
<1>6. Emptied' /\ NowLinked'
  BY <1>1 DEF Emptied, NowLinked
<1> QED
  BY <1>1, <1>4, <1>5, <1>6 DEF FilesAt

LEMMA FilesSymlinkWithoutInode ==
    ASSUME DirInv, DirInv', CountInv, NEW x, FilesAt(x), NEW n \in BaseNames, SymlinkWithoutInode(n)
    PROVE  FilesAt(x)'
<1>1. /\ inode' = inode /\ slots' = slots /\ pc = "idle" /\ pc' = "add" /\ crashes' = crashes
      /\ node' = Missing
  BY DEF SymlinkWithoutInode, Idle, DirInv, Phases
<1>2. Falls
  BY CountSymlinkWithoutInode
<1>3. \A y : Unlinked(y)' <=> Unlinked(y)
  BY <1>1, SlotsLinking, UnlinkedSame
<1>4. ASSUME NEW y \in Inums PROVE FileAt(y, x)'
  <2>1. ~Pending(y) /\ ~UnderWay(y) /\ ~UnderWay(y)'
    BY <1>1, Constants DEF Pending, UnderWay, Creating
  <2>2. IsDirectory(y)' => IsDirectory(y) /\ inode'[y].refcount >= inode[y].refcount
    BY <1>1, RefTypes DEF IsDirectory
  <2>3. KeepsFile(y)
    BY <1>1, <1>3, <2>1 DEF KeepsFile
  <2>4. KeepsDirectory(y)
    BY <1>3, <2>1, <2>2 DEF KeepsDirectory
  <2> QED
    BY <1>2, <2>3, <2>4, FileStays DEF FilesAt
<1> QED
  BY <1>1, <1>4 DEF FilesAt, Emptied, NowLinked

LEMMA FilesWriteSymlink ==
    ASSUME DirInv, DirInv', CountInv, NEW x, FilesAt(x), WriteSymlink PROVE FilesAt(x)'
<1>1. PICK d \in Inums, n \in BaseNames : Making(d, n)
  BY DEF WriteSymlink, DirInv, Phases, NoNode
<1>2. /\ pc = "symlink" /\ pc' = "add" /\ crashes' = crashes /\ node' = node
      /\ inode' = [inode EXCEPT ![node] = core[node]] /\ slots' = slots
      /\ node \in Inums /\ core[node].type = "symlink"
  BY <1>1 DEF WriteSymlink, Making
<1>3. \A y \in Inums : inode'[y] = IF y = node THEN core[node] ELSE inode[y]
  BY <1>2 DEF DirInv, DiskType
<1>4. Falls
  BY CountWriteSymlink
<1>5. \A y : Unlinked(y)' <=> Unlinked(y)
  BY <1>2, SlotsLinking, UnlinkedSame
<1>6. ASSUME NEW y \in Inums PROVE FileAt(y, x)'
  <2>1. (UnderWay(y)' <=> UnderWay(y)) /\ (Pending(y)' <=> Pending(y))
    BY <1>2 DEF Pending, UnderWay, Creating
  <2>2. KeepsFile(y)
    BY <1>2, <1>3, <1>5, <2>1 DEF KeepsFile
  <2>3. IsDirectory(y)' => IsDirectory(y) /\ inode'[y].refcount >= inode[y].refcount
    BY <1>2, <1>3, RefTypes DEF IsDirectory
  <2>4. KeepsDirectory(y)
    BY <1>5, <2>1, <2>3 DEF KeepsDirectory
  <2> QED
    BY <1>4, <2>2, <2>4, FileStays DEF FilesAt
<1> QED
  BY <1>2, <1>6 DEF FilesAt, Emptied, NowLinked

LEMMA FilesPop ==
    ASSUME NEW x, FilesAt(x), Pop PROVE FilesAt(x)'
  BY FilesSame DEF Pop, history

LEMMA FilesGrow ==
    ASSUME DirInv, DirInv', CountInv, RefInv, NEW x, FilesAt(x), Grow PROVE FilesAt(x)'
<1>1. /\ dir \in DOMAIN core /\ dir \in Inums /\ core[dir].type = "dir"
      /\ dir # node => inode[dir].type = "dir" /\ inode[dir].in_use
  BY Adding DEF Grow
<1>2. /\ pc = "add" /\ pc' = "add" /\ crashes' = crashes /\ node' = node
      /\ inode' = [inode EXCEPT ![dir] = core[dir]]
  BY DEF Grow
<1>3. \A y \in Inums : inode'[y] = IF y = dir THEN core[dir] ELSE inode[y]
  BY <1>2 DEF DirInv, DiskType
<1>4. Falls
  BY CountGrow
<1>5. \A y : Unlinked(y)' <=> Unlinked(y)
  BY GrowLinks, UnlinkedSame
<1>6. ASSUME NEW y \in Inums PROVE FileAt(y, x)'
  <2>1. (UnderWay(y)' <=> UnderWay(y)) /\ (Pending(y)' <=> Pending(y))
    BY <1>2 DEF Pending, UnderWay, Creating
  <2>2. KeepsFile(y)
    BY <1>1, <1>3, <1>5, <2>1 DEF KeepsFile
  <2>3. IsDirectory(y)' => UnderWay(y)
            \/ (IsDirectory(y) /\ inode'[y].refcount >= inode[y].refcount)
    <3>1. CASE y # dir
      BY <1>3, <3>1, RefTypes DEF IsDirectory
    <3>2. CASE y = dir /\ y = node
      BY <1>2, <3>2 DEF UnderWay, Creating
    <3>3. CASE y = dir /\ y # node
      BY <1>1, <1>2, <1>3, <3>3, Adding DEF RefInv, IsDirectory
    <3> QED
      BY <3>1, <3>2, <3>3
  <2>4. KeepsDirectory(y)
    BY <1>5, <2>1, <2>3 DEF KeepsDirectory
  <2> QED
    BY <1>4, <2>2, <2>4, FileStays DEF FilesAt
<1> QED
  BY <1>2, <1>6 DEF FilesAt, Emptied, NowLinked

(* The node of a symbolic link is none that a file could have.             *)
LEMMA SymlinkNode ==
    ASSUME DirInv, pc \in {"add", "count"}, IsSymlink
    PROVE  node \in Inums => inode[node].type = "symlink" /\ ~IsDirectory(node)
<1> SUFFICES ASSUME node \in Inums PROVE inode[node].type = "symlink"
  BY DEF IsDirectory
<1>1. PICK d \in Inums, n \in BaseNames : Making(d, n)
  BY Constants DEF DirInv, Phases, NoNode
<1> QED
  BY <1>1, Constants DEF Making, IsSymlink

LEMMA FilesAddFails ==
    ASSUME DirInv, DirInv', CountInv, NEW x, FilesAt(x), AddFails PROVE FilesAt(x)'
<1>1. /\ inode' = inode /\ slots' = slots /\ pc = "add" /\ crashes' = crashes
      /\ \/ IsSymlink /\ pc' = "idle"
         \/ pc' = "undo" /\ node' = node
  BY DEF AddFails, Return
<1>2. Falls
  BY CountAddFails
<1>3. \A y : Unlinked(y)' <=> Unlinked(y)
  BY <1>1, SlotsLinking, UnlinkedSame
<1>4. ASSUME NEW y \in Inums PROVE FileAt(y, x)'
  <2>1. UnderWay(y)' => UnderWay(y)
    BY <1>1 DEF UnderWay, Creating
  <2>2. inode[y].type = "file" => (UnderWay(y) => UnderWay(y)') /\ (Pending(y) => Pending(y)')
    <3>1. CASE IsSymlink
      BY <1>1, <3>1, SymlinkNode DEF UnderWay, Pending
    <3>2. CASE pc' = "undo" /\ node' = node
      BY <1>1, <3>2 DEF UnderWay, Pending, Creating
    <3> QED
      BY <1>1, <3>1, <3>2
  <2>3. KeepsFile(y)
    BY <1>1, <1>3, <2>2 DEF KeepsFile
  <2>4. IsDirectory(y)' => IsDirectory(y) /\ inode'[y].refcount >= inode[y].refcount
    BY <1>1, RefTypes DEF IsDirectory
  <2>5. KeepsDirectory(y)
    BY <1>3, <2>1, <2>4 DEF KeepsDirectory
  <2> QED
    BY <1>2, <2>3, <2>5, FileStays DEF FilesAt
<1> QED
  BY <1>1, <1>4 DEF FilesAt, Emptied, NowLinked

(* The new entry leads to the node, if to any.                             *)
LEMMA FilesWriteEntry ==
    ASSUME DirInv, DirInv', CountInv, NEW x, FilesAt(x), WriteEntry PROVE FilesAt(x)'
<1> DEFINE f == FirstSlot(Holes(dir))
<1>1. /\ \A y \in Inums : \A s : s \in Linking(y)' <=>
             IF y = dir /\ s = f THEN call.name \in Names /\ call.inum \in Inums
             ELSE s \in Linking(y)
      /\ \A y \in Inums : \A s \in Linking(y) : ~(y = dir /\ s = f) /\ slots'[y][s] = slots[y][s]
      /\ slots'[dir][f] = Entry(call.name, call.inum)
      /\ dir \in Inums
  BY EntryLinks
<1>2. /\ pc = "add" /\ pc' = "count" /\ calls' = calls /\ node' = node /\ inode' = inode
      /\ crashes' = crashes
  BY DEF WriteEntry
<1> HIDE DEF f
<1>3. Falls
  BY CountWriteEntry
<1>4. PICK d \in Inums, n \in BaseNames : Making(d, n) \/ NoNode(d, n)
  BY <1>2 DEF DirInv, Phases
<1>5. call.name \in Names /\ call.inum \in Inums => call.inum = node
  <2>1. CASE NoNode(d, n)
    BY <2>1, Constants DEF NoNode, call, Call
  <2>2. CASE Making(d, n)
    BY <2>2, CallOf, Constants DEF Call
  <2> QED
    BY <1>4, <2>1, <2>2
<1>6. ASSUME NEW i, Unlinked(i)' PROVE Unlinked(i)
  <2>1. ASSUME NEW y \in Inums, NEW s \in Linking(y) PROVE slots[y][s].inum # i
    <3>1. s \in Linking(y)' /\ slots'[y][s] = slots[y][s]
      BY <1>1
    <3> QED
      BY <1>6, <3>1 DEF Unlinked
  <2> QED
    BY <2>1 DEF Unlinked
<1>7. ASSUME NEW i, Unlinked(i), i # node PROVE Unlinked(i)'
  <2>1. ASSUME NEW y \in Inums, NEW s \in Linking(y)' PROVE slots'[y][s].inum # i
    <3>1. CASE y = dir /\ s = f
      <4>1. slots'[y][s].inum = call.inum /\ call.inum = node
        BY <1>1, <1>5, <3>1 DEF Entry
      <4> QED
        BY <1>7, <4>1
    <3>2. CASE ~(y = dir /\ s = f)
      <4>1. s \in Linking(y) /\ slots'[y][s] = slots[y][s]
        BY <1>1, <3>2
      <4> QED
        BY <1>7, <4>1 DEF Unlinked
    <3> QED
      BY <3>1, <3>2
  <2> QED
    BY <2>1 DEF Unlinked
<1>8. ASSUME NEW y \in Inums PROVE FileAt(y, x)'
  <2>1. (UnderWay(y)' <=> UnderWay(y)) /\ (Pending(y)' <=> Pending(y))
    BY <1>2 DEF Pending, UnderWay, Creating
  <2>2. KeepsFile(y)
    BY <1>2, <1>6, <2>1 DEF KeepsFile
  <2>3. IsDirectory(y)' => IsDirectory(y) /\ inode'[y].refcount >= inode[y].refcount
    BY <1>2, RefTypes DEF IsDirectory
  <2>4. y # node => (Unlinked(y) => Unlinked(y)')
    BY <1>7
  <2>5. y = node => UnderWay(y)
    BY <1>2 DEF UnderWay, Creating
  <2>6. KeepsDirectory(y)
    BY <2>1, <2>3, <2>4, <2>5 DEF KeepsDirectory
  <2> QED
    BY <1>3, <2>2, <2>6, FileStays DEF FilesAt
<1>10. node # Missing => core'[node].type = core[node].type
  <2>1. dir \in DOMAIN core /\ core[dir] \in InodeRecord
    BY <1>2, Adding
  <2>2. core' = [core EXCEPT ![dir].num_direntries = core[dir].num_direntries + 1]
    BY DEF WriteEntry
  <2>3. node # Missing => node \in DOMAIN core
    BY <1>4 DEF Making, NoNode
  <2> QED
    BY <2>1, <2>2, <2>3 DEF InodeRecord
<1>9. NowLinked'
  <2>0. IsSymlink' <=> IsSymlink
    BY <1>2, <1>10 DEF IsSymlink
  <2> SUFFICES ASSUME Left' = 0, ~IsSymlink PROVE ~Unlinked(node)'
    BY <1>2, <2>0 DEF NowLinked
  <2>1. Making(d, n) /\ n \in Names
    BY <1>4 DEF NoNode, IsSymlink, Making, Named
  <2>2. Len(calls) = 1
    <3>1. Left' = Len(calls) - 1 /\ Len(calls) \in 1 .. 3
      BY <1>2, <2>1 DEF Left, Making
    <3> QED
      BY <3>1
  <2>3. call.name \in Names /\ call.inum = node /\ node \in Inums
    BY <2>1, <2>2, CallOf DEF Call, Making
  <2>4. PICK y \in Inums : y = dir
    BY <1>1
  <2>5. f \in Linking(y)' /\ slots'[y][f].inum = node
    BY <1>1, <2>3, <2>4 DEF Entry
  <2> QED
    BY <1>2, <2>5 DEF Unlinked
<1> QED
  BY <1>2, <1>8, <1>9 DEF FilesAt, Emptied

LEMMA FilesCountEntry ==
    ASSUME DirInv, DirInv', CountInv, RefInv, NEW x, FilesAt(x), CountEntry PROVE FilesAt(x)'
<1>1. /\ dir \in DOMAIN core /\ dir \in Inums /\ core[dir].type = "dir"
      /\ dir # node => inode[dir].type = "dir" /\ inode[dir].in_use
  BY Adding DEF CountEntry
<1>2. /\ pc = "count" /\ crashes' = crashes /\ slots' = slots
      /\ inode' = [inode EXCEPT ![dir] = core[dir]]
      /\ \/ IsSymlink /\ pc' = "idle" /\ node' = Missing
         \/ Tail(calls) = <<>> /\ ~IsSymlink /\ pc' = "node" /\ node' = node
         \/ pc' = "add" /\ node' = node
  BY Zenon DEF CountEntry, Return
<1>3. \A y \in Inums : inode'[y] = IF y = dir THEN core[dir] ELSE inode[y]
  BY <1>2 DEF DirInv, DiskType
<1>4. Falls
  BY CountCountEntry
<1>5. \A y : Unlinked(y)' <=> Unlinked(y)
  BY <1>2, SlotsLinking, UnlinkedSame
<1>6. pc' = "node" /\ node \in Inums => ~Unlinked(node)
  <2> SUFFICES ASSUME pc' = "node", node \in Inums PROVE ~Unlinked(node)
    OBVIOUS
  <2>1. Tail(calls) = <<>> /\ ~IsSymlink
    BY <1>2
  <2>2. PICK d \in Inums, n \in BaseNames : Making(d, n)
    BY <1>2, Constants DEF DirInv, Phases, NoNode
  <2>3. Len(calls) = 1
    <3>1. Len(calls) \in {1, 2, 3}
      BY <2>2 DEF Making
    <3> DEFINE rest == Tail(calls)
    <3>2. Len(calls) # 1 => Len(rest) \in {1, 2}
      BY <2>2, <3>1, CallOf
    <3>3. rest = <<>>
      BY <2>1
    <3> HIDE DEF rest
    <3>4. Len(rest) = 0
      BY <3>3
    <3> QED
      BY <3>2, <3>4
  <2>4. Left = 0
    BY <1>2, <2>3 DEF Left
  <2> QED
    BY <1>2, <2>1, <2>4 DEF FilesAt, NowLinked
<1>7. ASSUME NEW y \in Inums PROVE FileAt(y, x)'
  <2>1. UnderWay(y)' => UnderWay(y)
    BY <1>2, Constants DEF UnderWay, Creating
  <2>2. KeepsFile(y)
    <3> SUFFICES ASSUME inode'[y].in_use, inode'[y].type = "file" PROVE KeepsFile(y)
      BY DEF KeepsFile
    <3>1. inode'[y] = inode[y]
      BY <1>1, <1>3
    <3>2. UnderWay(y) => UnderWay(y)'
      BY <1>2, <3>1, SymlinkNode DEF UnderWay, Creating
    <3>3. Pending(y) /\ Unlinked(y) => Pending(y)'
      BY <1>2, <1>6, <3>1, SymlinkNode DEF Pending, Creating
    <3> QED
      BY <1>5, <3>1, <3>2, <3>3 DEF KeepsFile
  <2>3. IsDirectory(y)' => UnderWay(y)
            \/ (IsDirectory(y) /\ inode'[y].refcount >= inode[y].refcount)
    <3>1. CASE y # dir
      BY <1>3, <3>1, RefTypes DEF IsDirectory
    <3>2. CASE y = dir /\ y = node
      BY <1>2, <3>2 DEF UnderWay, Creating
    <3>3. CASE y = dir /\ y # node
      BY <1>1, <1>2, <1>3, <3>3, Adding DEF RefInv, IsDirectory
    <3> QED
      BY <3>1, <3>2, <3>3
  <2>4. KeepsDirectory(y)
    BY <1>5, <2>1, <2>3 DEF KeepsDirectory
  <2> QED
    BY <1>4, <2>2, <2>4, FileStays DEF FilesAt
<1> QED
  BY <1>2, <1>7 DEF FilesAt, Emptied, NowLinked

LEMMA FilesWriteNode ==
    ASSUME DirInv, DirInv', CountInv, RefInv, NEW x, FilesAt(x), WriteNode PROVE FilesAt(x)'
<1>1. PICK d \in Inums : Made(d)
  BY DEF WriteNode, DirInv, Phases
<1>2. /\ pc = "node" /\ pc' = "idle" /\ inode' = [inode EXCEPT ![node] = core[node]]
      /\ slots' = slots /\ crashes' = crashes /\ node \in Inums /\ core[node].type = inode[node].type
      /\ inode[node].in_use
  BY <1>1 DEF WriteNode, Return, Made, DirInv, Cores
<1>3. \A y \in Inums : inode'[y] = IF y = node THEN core[node] ELSE inode[y]
  BY <1>2 DEF DirInv, DiskType
<1>4. Falls
  BY CountWriteNode
<1>5. \A y : Unlinked(y)' <=> Unlinked(y)
  BY <1>2, SlotsLinking, UnlinkedSame
<1>6. \A y \in Inums : ~Pending(y) /\ ~UnderWay(y)' /\ (UnderWay(y) <=> y = node)
  BY <1>2 DEF Pending, UnderWay, Creating
<1>7. core[node].type = "file" => core[node].refcount = 1
  BY <1>2, Constants DEF RefInv, NewRef
<1>8. ASSUME NEW y \in Inums PROVE KeepsDirectory(y)
  <2>1. CASE y = node
    BY <1>6, <2>1 DEF KeepsDirectory
  <2>2. CASE y # node
    <3>1. inode'[y] = inode[y] /\ inode[y].refcount \in Nat
      BY <1>3, <2>2, RefTypes
    <3>2. IsDirectory(y)' => IsDirectory(y) /\ inode'[y].refcount >= inode[y].refcount
      BY <3>1 DEF IsDirectory
    <3> QED
      BY <1>5, <1>6, <3>2 DEF KeepsDirectory
  <2> QED
    BY <2>1, <2>2
<1>9. ASSUME NEW y \in Inums PROVE FileAt(y, x)'
  <2>1. CASE y = node
    <3>1. FileAt(y, x)
      BY DEF FilesAt
    <3>2. ASSUME inode'[y].type = "file"
          PROVE  inode'[y].refcount = 1 /\ (Unlinked(y)' => y = x)
      <4>1. inode'[y].refcount = 1 /\ inode[y].type = "file" /\ inode[y].in_use
        BY <1>2, <1>3, <1>7, <2>1, <3>2
      <4> QED
        BY <1>5, <1>6, <3>1, <4>1 DEF FileAt
    <3> QED
      BY <1>4, <1>8, <3>1, <3>2, DirectoryStays DEF FileAt
  <2>2. CASE y # node
    <3>1. KeepsFile(y)
      BY <1>3, <1>5, <1>6, <2>2 DEF KeepsFile
    <3> QED
      BY <1>4, <1>8, <3>1, FileStays DEF FilesAt
  <2> QED
    BY <2>1, <2>2
<1> QED
  BY <1>2, <1>9 DEF FilesAt, Emptied, NowLinked

LEMMA FilesUndo ==
    ASSUME DirInv, DirInv', CountInv, NEW x, FilesAt(x), Undo PROVE FilesAt(x)'
<1>1. PICK d \in Inums, n \in BaseNames : Making(d, n)
  BY DEF Undo, DirInv, Phases, NoNode
<1>2. /\ pc = "undo" /\ pc' = "idle" /\ inode' = [inode EXCEPT ![node] = FreeInode]
      /\ slots' = [slots EXCEPT ![node] = <<>>] /\ crashes' = crashes
      /\ node \in Inums /\ Linking(node) = {}
  BY <1>1, MadeEmpty DEF Undo, Return, Making, DirInv
<1>3. \A y \in Inums : inode'[y] = IF y = node THEN FreeInode ELSE inode[y]
  BY <1>2 DEF DirInv, DiskType
<1>4. Falls
  BY CountUndo
<1>5. \A y : Unlinked(y)' <=> Unlinked(y)
  BY <1>2, LinksEmptied, UnlinkedSame
<1>6. ASSUME NEW y \in Inums PROVE FileAt(y, x)'
  <2>1. ~UnderWay(y)' /\ (y # node => ~UnderWay(y) /\ ~Pending(y))
    BY <1>2 DEF Pending, UnderWay, Creating
  <2>2. KeepsFile(y)
    BY <1>3, <1>5, <2>1, FreeInodeType DEF KeepsFile
  <2>3. IsDirectory(y)' => IsDirectory(y) /\ inode'[y].refcount >= inode[y].refcount
    BY <1>3, FreeInodeType, RefTypes DEF IsDirectory
  <2>4. KeepsDirectory(y)
    BY <1>5, <2>1, <2>3 DEF KeepsDirectory
  <2> QED
    BY <1>4, <2>2, <2>4, FileStays DEF FilesAt
<1> QED
  BY <1>2, <1>6 DEF FilesAt, Emptied, NowLinked

(* One link goes, and what it led to is empty unless its references are    *)
(* more than one.                                                          *)
LEMMA FilesRemoveEntry ==
    ASSUME DirInv, DirInv', CountInv, NEW x, FilesAt(x), NEW kind \in {"unlink", "rmdir"},
           NEW d \in Inums, IsDirectory(d), NEW n \in Names, RemoveEntry(kind, d, n)
    PROVE  FilesAt(x)'
<1>1. PICK f \in Linking(d) :
          /\ slots[d][f].name = n /\ slots[d][f].inum = node' /\ node' \in Inums
          /\ \A y \in Inums : \A s :
                 /\ s \in Linking(y)' <=> s \in Linking(y) /\ ~(y = d /\ s = f)
                 /\ s \in Linking(y)' => slots'[y][s] = slots[y][s]
  BY EntryUnlinks
<1>2. /\ inode' = inode /\ pc = "idle" /\ pc' = "drop" /\ crashes' = crashes
      /\ node' = Lookup(d, n)
  BY DEF RemoveEntry, Idle
<1>3. PICK i \in Inums : i = node' /\ i = Lookup(d, n) /\ slots[d][f].inum = i
  BY <1>1, <1>2
<1>4. ASSUME NEW y \in Inums, NEW s
      PROVE  /\ s \in Linking(y)' <=> s \in Linking(y) /\ ~(y = d /\ s = f)
             /\ s \in Linking(y)' => slots'[y][s] = slots[y][s]
  BY <1>1
<1>5. Falls
  BY CountRemoveEntry
<1>6. ASSUME NEW y, Unlinked(y) PROVE Unlinked(y)'
  <2>1. ASSUME NEW e \in Inums, NEW s \in Linking(e)' PROVE slots'[e][s].inum # y
    <3>1. s \in Linking(e) /\ slots'[e][s] = slots[e][s]
      BY <1>4
    <3> QED
      BY <1>6, <3>1 DEF Unlinked
  <2> QED
    BY <2>1 DEF Unlinked
<1>7. ASSUME NEW y, Unlinked(y)', y # i PROVE Unlinked(y)
  <2>1. ASSUME NEW e \in Inums, NEW s \in Linking(e) PROVE slots[e][s].inum # y
    <3>1. CASE e = d /\ s = f
      BY <1>3, <1>7, <3>1
    <3>2. CASE ~(e = d /\ s = f)
      <4>1. s \in Linking(e)' /\ slots'[e][s] = slots[e][s]
        BY <1>4, <3>2
      <4> QED
        BY <1>7, <4>1 DEF Unlinked
    <3> QED
      BY <3>1, <3>2
  <2> QED
    BY <2>1 DEF Unlinked
<1>8. ASSUME NEW y \in Inums PROVE FileAt(y, x)'
  <2>1. ~UnderWay(y) /\ ~UnderWay(y)' /\ ~Pending(y) /\ (Pending(y)' <=> y = i)
    BY <1>2, <1>3 DEF Pending, UnderWay, Creating
  <2>2. IsDirectory(y)' => IsDirectory(y) /\ inode'[y].refcount >= inode[y].refcount
    BY <1>2, RefTypes DEF IsDirectory
  <2>3. KeepsDirectory(y)
    BY <1>6, <2>1, <2>2 DEF KeepsDirectory
  <2>4. FileAt(y, x)
    BY DEF FilesAt
  <2>5. CASE y = i
    BY <1>2, <1>5, <2>1, <2>3, <2>4, <2>5, DirectoryStays DEF FileAt
  <2>6. CASE y # i
    <3>1. KeepsFile(y)
      BY <1>2, <1>7, <2>1, <2>6 DEF KeepsFile
    <3> QED
      BY <1>5, <2>3, <2>4, <3>1, FileStays
  <2> QED
    BY <2>5, <2>6
<1>9. Emptied'
  <2> SUFFICES ASSUME inode[i].refcount = 1 PROVE Linking(i)' = {}
    BY <1>2, <1>3 DEF Emptied
  <2>1. ~Unlinked(i)
    BY <1>3 DEF Unlinked
  <2>2. IsDirectory(i) => OffOf(i) = 0
    <3>1. FileAt(i, x)
      BY DEF FilesAt
    <3> QED
      BY <2>1, <3>1 DEF FileAt
  <2>3. Linking(i) = {}
    BY <1>3, <2>2, RemovedEmpty
  <2>4. ASSUME NEW s \in Linking(i)' PROVE FALSE
    <3>1. s \in Linking(i)
      BY <1>4
    <3> QED
      BY <2>3, <3>1
  <2> QED
    BY <2>4
<1> QED
  BY <1>2, <1>8, <1>9 DEF FilesAt, NowLinked

(* A directory that gives its blocks back had no links.                    *)
LEMMA FilesReleaseBlock ==
    ASSUME DirInv, DirInv', CountInv, NEW x, FilesAt(x), ReleaseBlock PROVE FilesAt(x)'
<1>1. /\ pc = "drop" /\ pc' = "drop" /\ inode' = inode /\ node' = node /\ crashes' = crashes
      /\ inode[node].refcount = 1
  BY DEF ReleaseBlock, LastReference
<1>2. Linking(node) = {}
  BY <1>1 DEF FilesAt, Emptied
<1>3. LinkingSame /\ Linking(node)' = {}
  BY <1>2, ReleaseLinks
<1>4. Falls
  BY CountReleaseBlock
<1>5. \A y : Unlinked(y)' <=> Unlinked(y)
  BY <1>3, UnlinkedSame
<1>6. ASSUME NEW y \in Inums PROVE FileAt(y, x)'
  <2>1. ~UnderWay(y) /\ ~UnderWay(y)' /\ (Pending(y)' <=> Pending(y))
    BY <1>1 DEF Pending, UnderWay, Creating
  <2>2. KeepsFile(y)
    BY <1>1, <1>5, <2>1 DEF KeepsFile
  <2>3. IsDirectory(y)' => IsDirectory(y) /\ inode'[y].refcount >= inode[y].refcount
    BY <1>1, RefTypes DEF IsDirectory
  <2>4. KeepsDirectory(y)
    BY <1>5, <2>1, <2>3 DEF KeepsDirectory
  <2> QED
    BY <1>4, <2>2, <2>4, FileStays DEF FilesAt
<1>7. Emptied' /\ NowLinked'
  BY <1>1, <1>3 DEF Emptied, NowLinked
<1> QED
  BY <1>1, <1>6, <1>7 DEF FilesAt

(* A file whose last reference this was not stays, and is the lost one.    *)
LEMMA FilesDropReference ==
    ASSUME DirInv, DirInv', CountInv, NEW x, FilesAt(x), DropReference PROVE FilesAt(x)'
<1>1. PICK d \in Inums, n \in Names : Removing(d, n)
  BY DEF DropReference, DirInv, Phases
<1>2. /\ node \in Inums /\ pc = "drop" /\ pc' = "uncount" /\ node' = node /\ crashes' = crashes
      /\ slots' = slots
      /\ inode' = IF inode[node].refcount = 1 THEN [inode EXCEPT ![node] = FreeInode] ELSE inode
  BY <1>1 DEF DropReference, LastReference, Removing
<1>3. \A y \in Inums : inode'[y] = IF y = node /\ inode[node].refcount = 1
                                   THEN FreeInode ELSE inode[y]
  BY <1>2 DEF DirInv, DiskType
<1>4. Falls
  BY CountDropReference
<1>5. \A y : Unlinked(y)' <=> Unlinked(y)
  BY <1>2, SlotsLinking, UnlinkedSame
<1>6. ASSUME NEW y \in Inums PROVE FileAt(y, x)'
  <2>1. ~UnderWay(y) /\ ~UnderWay(y)' /\ (Pending(y) <=> y = node)
    BY <1>2 DEF Pending, UnderWay, Creating
  <2>2. IsDirectory(y)' => IsDirectory(y) /\ inode'[y].refcount >= inode[y].refcount
    BY <1>3, FreeInodeType, RefTypes DEF IsDirectory
  <2>3. KeepsDirectory(y)
    BY <1>5, <2>1, <2>2 DEF KeepsDirectory
  <2>4. FileAt(y, x)
    BY DEF FilesAt
  <2>5. ASSUME inode'[y].in_use, inode'[y].type = "file"
        PROVE  (y = x \/ inode'[y].refcount = 1) /\ (Unlinked(y)' => y = x)
    <3>1. inode'[y] = inode[y] /\ ~(y = node /\ inode[y].refcount = 1)
      BY <1>3, <2>5, FreeInodeType
    <3>2. y = x \/ inode[y].refcount = 1
      BY <2>1, <2>4, <2>5, <3>1 DEF FileAt
    <3>3. Unlinked(y) => y = x \/ y = node
      BY <2>1, <2>4, <2>5, <3>1 DEF FileAt
    <3> QED
      BY <1>5, <3>1, <3>2, <3>3
  <2> QED
    BY <1>4, <2>3, <2>4, <2>5, DirectoryStays DEF FileAt
<1> QED
  BY <1>2, <1>6 DEF FilesAt, Emptied, NowLinked

LEMMA FilesUncountEntry ==
    ASSUME DirInv, DirInv', CountInv, RefInv, NEW x, FilesAt(x), UncountEntry PROVE FilesAt(x)'
<1>1. PICK d \in Inums, n \in Names : Removing(d, n)
  BY DEF UncountEntry, DirInv, Phases
<1>2. /\ pc = "uncount" /\ pc' = "idle" /\ slots' = slots /\ crashes' = crashes
      /\ dir = d /\ d \in DOMAIN core /\ d # node
      /\ core[d].type = "dir" /\ inode[d].type = "dir" /\ inode[d].in_use
      /\ core[d] \in InodeRecord
  BY <1>1 DEF UncountEntry, Return, Removing, dir, call, Call, DirInv, Cores
<1>3. core[d].refcount >= inode[d].refcount
  BY <1>2 DEF RefInv
<1>4. ASSUME NEW y \in Inums
      PROVE  /\ y # d => inode'[y] = inode[y]
             /\ inode'[d].type = "dir" /\ inode'[d].refcount >= inode[d].refcount
  <2>1. CASE core[d].num_direntries = 0
    <3>1. inode' = inode /\ inode[d].refcount \in Nat
      BY <1>2, <2>1, RefTypes DEF UncountEntry
    <3> QED
      BY <1>2, <3>1
  <2>2. CASE core[d].num_direntries # 0
    <3> DEFINE r == [core[d] EXCEPT !.num_direntries = @ - 1]
    <3>1. inode' = [inode EXCEPT ![d] = r]
      BY <1>2, <2>2 DEF UncountEntry
    <3>2. r.refcount = core[d].refcount /\ r.type = core[d].type
      BY <1>2 DEF InodeRecord
    <3> HIDE DEF r
    <3>3. \A z \in Inums : inode'[z] = IF z = d THEN r ELSE inode[z]
      BY <3>1 DEF DirInv, DiskType
    <3> QED
      BY <1>2, <1>3, <3>2, <3>3
  <2> QED
    BY <2>1, <2>2
<1>5. Falls
  BY CountUncountEntry
<1>6. \A y : Unlinked(y)' <=> Unlinked(y)
  BY <1>2, SlotsLinking, UnlinkedSame
<1>7. ASSUME NEW y \in Inums PROVE FileAt(y, x)'
  <2>1. ~UnderWay(y) /\ ~UnderWay(y)' /\ ~Pending(y)
    BY <1>2 DEF Pending, UnderWay, Creating
  <2>2. KeepsFile(y)
    BY <1>4, <1>6, <2>1 DEF KeepsFile
  <2>3. IsDirectory(y)' => IsDirectory(y) /\ inode'[y].refcount >= inode[y].refcount
    BY <1>2, <1>4, RefTypes DEF IsDirectory
  <2>4. KeepsDirectory(y)
    BY <1>6, <2>1, <2>3 DEF KeepsDirectory
  <2> QED
    BY <1>5, <2>2, <2>4, FileStays DEF FilesAt
<1> QED
  BY <1>2, <1>7 DEF FilesAt, Emptied, NowLinked

(* The first crash loses the node of the operation, if anything.           *)
LEMMA FilesCrash ==
    ASSUME DirInv, DirInv', CountInv, RefInv, FilesAt(Missing), crashes = 0, Crash
    PROVE  \E x \in Inums \union {Missing} : FilesAt(x)'
<1>1. PICK x \in Inums \union {Missing} : x = node
  BY DEF DirInv, RestType
<1>2. /\ pc # "idle" /\ pc' = "idle" /\ inode' = inode /\ slots' = slots /\ crashes' = 1
  BY DEF Crash, Return, Idle
<1>3. \A y : Unlinked(y)' <=> Unlinked(y)
  BY <1>2, SlotsLinking, UnlinkedSame
<1>4. ASSUME NEW y \in Inums PROVE FileAt(y, x)'
  <2>1. FileAt(y, Missing) /\ y # Missing
    BY Constants DEF FilesAt
  <2>2. ~UnderWay(y)' /\ (Pending(y) => y = x) /\ (UnderWay(y) => y = x)
    BY <1>1, <1>2 DEF Pending, UnderWay, Creating
  <2>3. ASSUME inode[y].in_use, inode[y].type = "file"
        PROVE  (Unlinked(y) => y = x) /\ (y = x \/ inode[y].refcount = 1)
    BY <2>1, <2>2, <2>3 DEF FileAt
  <2>4. ASSUME IsDirectory(y), inode[y].refcount <= 1, ~Unlinked(y) PROVE OffOf(y)' = 0
    <3>1. inode[y].refcount \in Nat
      BY RefTypes
    <3>2. UnderWay(y)
      BY <2>4, <3>1 DEF RefInv, References
    <3>3. ~(pc = "count" /\ y = dir)
      <4> SUFFICES ASSUME pc = "count", y = dir PROVE FALSE
        OBVIOUS
      <4>1. PICK d \in Inums, n \in BaseNames : Making(d, n)
        BY <2>1, <3>2 DEF DirInv, Phases, NoNode, UnderWay
      <4>2. Len(calls) \in {2, 3}
        <5>1. dir = node /\ node # d /\ Len(calls) \in 1 .. 3
          BY <3>2, <4>1 DEF Making, UnderWay
        <5>2. Len(calls) = 1 => dir = d
          BY <4>1, CallOf
        <5> QED
          BY <5>1, <5>2
      <4>3. Left \in {1, 2}
        BY <4>2 DEF Left
      <4> QED
        BY <2>4, <3>2, <4>1, <4>3 DEF Making, UnderWay
    <3>4. NumOf(y) = inode[y].num_direntries
      BY <3>2, <3>3 DEF NumOf, UnderWay, Creating
    <3>5. NumOf(y)' = inode[y].num_direntries /\ (IsDirectory(y)' <=> IsDirectory(y))
      BY <1>2 DEF NumOf, IsDirectory
    <3>6. OffOf(y)' <= OffOf(y)
      <4>1. Counted(y)
        BY <2>4 DEF Counted
      <4> QED
        BY <1>2, <3>4, <3>5, <4>1, OffKept
    <3>7. OffOf(y) = 0
      <4>1. y # Root
        BY <2>4, RootApart
      <4> QED
        BY <4>1, NoneOff
    <3>8. OffOf(y)' \in Nat
      BY OffNatNext
    <3> QED
      BY <3>6, <3>7, <3>8
  <2>5. IsDirectory(y)' <=> IsDirectory(y)
    BY <1>2 DEF IsDirectory
  <2> QED
    BY <1>2, <1>3, <2>2, <2>3, <2>4, <2>5 DEF FileAt
<1> QED
  BY <1>2, <1>4 DEF FilesAt, Emptied, NowLinked

LEMMA FilesStutter ==
    ASSUME NEW x, FilesAt(x), UNCHANGED dirVars PROVE FilesAt(x)'
  BY FilesSame DEF dirVars, history

LEMMA FilesStep == ASSUME DirInv, CountInv, RefInv, FilesInv, [DirNext]_dirVars PROVE FilesInv'
<1>1. DirInv' /\ \A d \in Directories : d \in Inums /\ IsDirectory(d)
  BY InvStep, DirectoriesAre
<1>2. crashes \in Nat /\ crashes' \in Nat
  BY <1>1 DEF DirInv, RestType
<1>3. CASE Crash
  <2> SUFFICES ASSUME crashes' <= 1 PROVE FilesInv'
    BY DEF FilesInv
  <2>1. crashes = 0
    BY <1>2, <1>3 DEF Crash
  <2>2. FilesAt(Missing)
    BY <2>1 DEF FilesInv, FilesAt
  <2>3. PICK x \in Inums \union {Missing} : FilesAt(x)'
    BY <1>1, <1>3, <2>1, <2>2, FilesCrash
  <2> QED
    BY <2>3 DEF FilesInv
<1>4. CASE ~Crash
  <2>1. ASSUME NEW x, FilesAt(x) PROVE FilesAt(x)'
    <3>1. ASSUME NEW d \in Directories, NEW n \in BaseNames, NEW i \in Inums,
                 NEW kind \in {"file", "dir", "symlink"}, Allocate(kind, d, n, i)
          PROVE  FilesAt(x)'
      BY <1>1, <2>1, <3>1, FilesAllocate
    <3>2. ASSUME NEW d \in Directories, NEW n \in Names,
                 NEW kind \in {"unlink", "rmdir"}, RemoveEntry(kind, d, n)
          PROVE  FilesAt(x)'
      BY <1>1, <2>1, <3>2, FilesRemoveEntry
    <3>3. ASSUME NEW d \in Directories, NEW n \in Names, CreateFails(d, n) PROVE FilesAt(x)'
      BY <2>1, <3>3, FilesStutter DEF CreateFails
    <3>4. CASE Query \/ UNCHANGED dirVars
      BY <2>1, <3>4, FilesStutter DEF Query
    <3> QED
      BY <1>1, <1>4, <2>1, <3>1, <3>2, <3>3, <3>4, FilesSymlinkWithoutInode, FilesWriteSymlink,
         FilesPop, FilesGrow, FilesReleaseBlock, FilesAddFails, FilesWriteEntry, FilesCountEntry, FilesWriteNode, FilesUndo,
         FilesDropReference, FilesUncountEntry DEF DirNext
  <2>2. crashes' = crashes
    BY Zenon, <1>4 DEF DirNext, dirVars, history, Allocate, CreateFails, RemoveEntry, SymlinkWithoutInode,
       Query, WriteSymlink, Pop, Grow, ReleaseBlock, AddFails, WriteEntry, CountEntry, WriteNode, Undo,
       DropReference, UncountEntry
  <2> QED
    BY <2>1, <2>2 DEF FilesInv
<1> QED
  BY <1>3, <1>4

LEMMA FilesStart == DirInit => FilesInv
<1> SUFFICES ASSUME DirInit PROVE FilesAt(Missing)
  BY DEF FilesInv
<1>1. DirInv /\ CountInv /\ pc = "idle" /\ crashes = 0 /\ nameless = 0
  BY InvInit, CountInit DEF DirInit
<1>2. ASSUME NEW y \in Inums PROVE FileAt(y, Missing)
  <2>1. inode[y].in_use => inode[y].type = "dir"
    BY DEF DirInit, FreeInode
  <2> QED
    BY <1>1, <2>1, NoneOff DEF FileAt
<1> QED
  BY <1>1, <1>2 DEF FilesAt, Emptied, NowLinked

LEMMA FilesInvariant == DirSpec => [](DirInv /\ CountInv /\ RefInv /\ FilesInv)
<1>1. DirInit => DirInv /\ CountInv /\ RefInv /\ FilesInv
  BY InvInit, CountInit, RefStart, FilesStart
<1>2. DirInv /\ CountInv /\ RefInv /\ FilesInv /\ [DirNext]_dirVars
          => (DirInv /\ CountInv /\ RefInv /\ FilesInv)'
  BY InvStep, CountStep, RefStep, FilesStep
<1> QED
  BY <1>1, <1>2, PTL DEF DirSpec

(* Until the first crash no file is lost, and the first crash loses at     *)
(* most one, then or later: property FilesKept.                            *)
THEOREM FilesStay == DirSpec => []FilesKept
<1>1. ASSUME DirInv, FilesInv PROVE FilesKept
  <2> SUFFICES ASSUME Idle, crashes <= 1 PROVE Cardinality(LostFiles) <= crashes
    BY DEF FilesKept
  <2>1. PICK x \in Inums \union {Missing} : FilesAt(x)
    BY <1>1 DEF FilesInv
  <2>2. ASSUME NEW i \in LostFiles PROVE i = x /\ i \in Inums
    <3>1. i \in Inums /\ inode[i].in_use /\ inode[i].type = "file" /\ i \notin Attached
      BY DEF LostFiles, InUse
    <3>2. Unlinked(i)
      <4>1. ASSUME NEW d \in Inums, NEW s \in Linking(d) PROVE slots[d][s].inum # i
        <5>1. Call(d, slots[d][s].name, slots[d][s].inum) \in Links
          BY <1>1, LinksFrom
        <5> QED
          BY <3>1, <5>1 DEF Attached, Call
      <4> QED
        BY <4>1 DEF Unlinked
    <3>3. ~Pending(i)
      BY DEF Pending, Creating, Idle
    <3> QED
      BY <2>1, <3>1, <3>2, <3>3 DEF FilesAt, FileAt
  <2>3. crashes \in {0, 1}
    BY <1>1 DEF DirInv, RestType
  <2>4. CASE LostFiles = {}
    BY <2>3, <2>4, FS_EmptySet
  <2>5. CASE LostFiles # {}
    <3>1. LostFiles = {x} /\ x \in Inums
      BY <2>2, <2>5
    <3>2. crashes = 1
      BY <2>1, <2>3, <3>1, Constants DEF FilesAt
    <3> QED
      BY <3>1, <3>2, FS_Singleton
  <2> QED
    BY <2>4, <2>5
<1> QED
  BY <1>1, FilesInvariant, PTL

-----------------------------------------------------------------------------
(* Lookup and readdir of a directory without holes                         *)

(* In a directory that is packed and counts its entries, or more,          *)
(* Dir_lookup looks at all of them.                                        *)
LEMMA PackedIs ==
    ASSUME DirInv, NEW d \in Inums, Packed(d), NEW n,
           n = Cardinality(EntriesOf(d)), n <= inode[d].num_direntries
    PROVE  /\ n \in Nat /\ EntriesOf(d) = 1 .. n /\ n <= Len(slots[d])
           /\ Searched(d) \in Nat /\ n <= Searched(d) /\ Searched(d) <= Len(slots[d])
<1>1. n \in Nat /\ Len(slots[d]) \in Nat /\ inode[d].num_direntries \in Nat
  BY SlotsType, EntriesType DEF DirInv, DiskType, InodeRecord
<1>2. EntriesOf(d) = 1 .. n
  BY DEF Packed
<1>3. EntriesOf(d) \subseteq 1 .. Len(slots[d])
  BY EntriesType DEF DirInv
<1>4. n <= Len(slots[d])
  <2>1. n > 0 => n \in 1 .. n
    BY <1>1
  <2>2. n > 0 => n \in 1 .. Len(slots[d])
    BY <1>2, <1>3, <2>1
  <2> QED
    BY <1>1, <2>2
<1>5. PICK k : k = inode[d].num_direntries
  OBVIOUS
<1>6. k \in Nat /\ n <= k /\ Searched(d) = IF k = 0 \/ k > Len(slots[d]) THEN Len(slots[d]) ELSE k
  BY <1>1, <1>5 DEF Searched
<1> QED
  BY <1>1, <1>2, <1>4, <1>6

(* Dir_lookup finds every name of such a directory.                        *)
LEMMA PackedFound ==
    ASSUME DirInv, NEW d \in Inums, IsDirectory(d), Packed(d),
           Cardinality(EntriesOf(d)) <= inode[d].num_direntries,
           NEW s \in Linking(d)
    PROVE  Call(d, slots[d][s].name, Lookup(d, slots[d][s].name)) \in Links
<1> DEFINE name == slots[d][s].name
           f == FirstSlot(SlotsNamed(d, name))
<1>0. PICK n : n = Cardinality(EntriesOf(d))
  OBVIOUS
<1>1. PICK k : k = Searched(d)
  OBVIOUS
<1>2. /\ n \in Nat /\ EntriesOf(d) = 1 .. n /\ n <= Len(slots[d])
      /\ k \in Nat /\ n <= k /\ k <= Len(slots[d])
  BY <1>0, <1>1, PackedIs
<1>3. s \in DOMAIN slots[d] /\ name \in Names /\ name # NoName
  BY Constants, DirectoryAssumption DEF Linking
<1>4. s \in 1 .. n /\ SlotsNamed(d, name) \subseteq 1 .. k
  BY <1>1, <1>2, <1>3 DEF EntriesOf, SlotsNamed
<1>5. s \in SlotsNamed(d, name)
  BY <1>1, <1>2, <1>4 DEF SlotsNamed
<1>6. f \in SlotsNamed(d, name)
  <2>1. SlotsNamed(d, name) \subseteq Nat /\ SlotsNamed(d, name) # {}
    BY <1>4, <1>5
  <2> QED
    BY <2>1, FirstSlotIs
<1>7. f \in 1 .. n /\ slots[d][f].name = name
  <2>1. f \in 1 .. k /\ slots[d][f].name = name
    BY <1>1, <1>6 DEF SlotsNamed
  <2>2. f \in DOMAIN slots[d]
    <3>1. DOMAIN slots[d] = 1 .. Len(slots[d]) /\ Len(slots[d]) \in Nat
      BY SlotsType DEF DirInv
    <3> QED
      BY <1>2, <2>1, <3>1
  <2>3. f \in EntriesOf(d)
    BY <1>3, <2>1, <2>2 DEF EntriesOf
  <2> QED
    BY <1>2, <2>1, <2>3
<1>8. Lookup(d, name) = slots[d][f].inum
  BY <1>5 DEF Lookup
<1> HIDE DEF f
<1>9. slots[d][f].inum # Missing
  BY <1>2, <1>7 DEF Packed
<1>10. Lookup(d, name) # Missing
  BY <1>8, <1>9
<1>11. f \in Linking(d)
  BY <1>3, <1>10, LookupIs DEF DirInv, f
<1>12. Call(d, slots[d][f].name, slots[d][f].inum) \in Links
  BY <1>11, LinksFrom
<1> QED
  BY <1>7, <1>8, <1>12

(* The first n members of a set of slots that has the slots up to n.       *)
LEMMA FirstMembers ==
    ASSUME NEW n \in Nat, NEW m \in Nat, NEW P, 1 .. n \subseteq P, P \subseteq 1 .. m,
           NEW s \in P
    PROVE  Cardinality({t \in P : t < s}) < n <=> s \in 1 .. n
<1>0. PICK Before : Before = {t \in P : t < s}
  OBVIOUS
<1>1. s \in Nat /\ s >= 1 /\ \A t \in Before : t \in P /\ t \in 1 .. m /\ t < s
  BY <1>0
<1>2. CASE s <= n
  <2>0. Before \subseteq 1 .. s - 1
    BY <1>1, <1>2
  <2>1. ASSUME NEW t \in 1 .. s - 1 PROVE t \in Before
    <3>1. t \in 1 .. n /\ t < s
      BY <1>1, <1>2
    <3> QED
      BY <1>0, <3>1
  <2>2. Cardinality(1 .. s - 1) = s - 1
    BY <1>1, FS_Interval
  <2>3. Cardinality(Before) = s - 1
    BY <2>0, <2>1, <2>2
  <2> QED
    BY <1>0, <1>1, <1>2, <2>3
<1>3. CASE s > n
  <2>1. 1 .. n \subseteq Before
    BY <1>0, <1>1, <1>3
  <2>2. IsFiniteSet(1 .. m) /\ Before \subseteq 1 .. m
    BY <1>1, FS_Interval
  <2>3. IsFiniteSet(Before)
    BY <2>2, FS_Subset
  <2>4. Cardinality(1 .. n) = n /\ Cardinality(1 .. n) <= Cardinality(Before)
    <3>1. Cardinality(1 .. n) = n
      BY FS_Interval
    <3> QED
      BY <2>1, <2>3, <3>1, FS_Subset
  <2>5. Cardinality(Before) \in Nat
    BY <2>3, FS_CardinalityType
  <2>6. Cardinality(Before) >= n
    BY <2>4, <2>5
  <2> QED
    BY <1>0, <1>1, <1>3, <2>5, <2>6
<1> QED
  BY <1>1, <1>2, <1>3

(* readdir lists its entries and nothing else.                             *)
LEMMA PackedListed ==
    ASSUME DirInv, NEW d \in Inums, Packed(d),
           inode[d].num_direntries = Cardinality(EntriesOf(d))
    PROVE  Listed(d) = EntriesOf(d)
<1>0. PICK n : n = inode[d].num_direntries
  OBVIOUS
<1>1. PICK P : P = {s \in DOMAIN slots[d] : slots[d][s].inum # Missing}
  OBVIOUS
<1>2. n \in Nat /\ EntriesOf(d) = 1 .. n
  <2>1. n \in Nat
    BY <1>0 DEF DirInv, DiskType, InodeRecord
  <2> QED
    BY <1>0, <2>1, PackedIs
<1>3. PICK m \in Nat : m = Len(slots[d]) /\ DOMAIN slots[d] = 1 .. m
  BY SlotsType DEF DirInv
<1>4. 1 .. n \subseteq P
  BY <1>1, <1>2 DEF Packed, EntriesOf
<1>5. P \subseteq 1 .. m
  BY <1>1, <1>3
<1>6. Listed(d) = {s \in P : Cardinality({t \in P : t < s}) < n}
  BY <1>0, <1>1 DEF Listed
<1>7. \A s \in P : Cardinality({t \in P : t < s}) < n <=> s \in 1 .. n
  BY <1>2, <1>4, <1>5, FirstMembers
<1> QED
  BY <1>2, <1>4, <1>6, <1>7

(* Until the first crash Dir_lookup finds every name in a directory        *)
(* without holes, all of whose entries have an inode, and readdir lists    *)
(* every entry and nothing else, in the root unless an entry with an empty *)
(* name was added: property PackedComplete.                                *)
THEOREM PackedServed == DirSpec => []PackedComplete
<1>1. ASSUME DirInv, CountInv PROVE PackedComplete
  <2> SUFFICES ASSUME Idle, crashes = 0, NEW d \in Directories, Packed(d)
               PROVE  /\ \A l \in Links : l.dir = d => Call(d, l.name, Lookup(d, l.name)) \in Links
                      /\ d # Root \/ nameless = 0 => Listed(d) = EntriesOf(d)
    BY DEF PackedComplete
  <2>1. d \in Inums /\ IsDirectory(d)
    BY <1>1, DirectoriesAre
  <2>2. /\ inode[d].num_direntries \in Nat /\ Cardinality(EntriesOf(d)) \in Nat
        /\ NumOf(d) = inode[d].num_direntries
    BY <1>1, <2>1, EntriesType DEF DirInv, DiskType, InodeRecord, NumOf, Idle
  <2>3. ASSUME d # Root \/ nameless = 0 PROVE inode[d].num_direntries = Cardinality(EntriesOf(d))
    <3>1. OffOf(d) = 0
      BY <1>1, <2>1, <2>3, NoneOff
    <3>2. Counted(d)
      BY <1>1, PathsCounted
    <3> QED
      BY <2>1, <2>2, <3>1, <3>2 DEF OffOf, Dist
  <2>4. Cardinality(EntriesOf(d)) <= inode[d].num_direntries
    <3>1. CASE d = Root
      BY <1>1, <2>2, <3>1 DEF CountInv, OffsSmall, RootFull
    <3>2. CASE d # Root
      BY <2>2, <2>3, <3>2
    <3> QED
      BY <3>1, <3>2
  <2>5. ASSUME NEW l \in Links, l.dir = d
        PROVE  Call(d, l.name, Lookup(d, l.name)) \in Links
    <3>1. PICK e \in Inums : \E s \in Linking(e) : l = Call(e, slots[e][s].name, slots[e][s].inum)
      BY LinksAre
    <3>2. PICK s \in Linking(e) : l = Call(e, slots[e][s].name, slots[e][s].inum)
      BY <3>1
    <3>3. e = d /\ l.name = slots[d][s].name
      BY <2>5, <3>2 DEF Call
    <3> QED
      BY <1>1, <2>1, <2>4, <3>2, <3>3, PackedFound
  <2> QED
    BY <1>1, <2>1, <2>3, <2>5, PackedListed
<1> QED
  BY <1>1, CountInvariant, PTL
=============================================================================
