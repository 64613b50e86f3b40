-------------------------- MODULE OpenFilesProofs --------------------------
(***************************************************************************)
(* A handle whose node was not given another name leads to its file, for   *)
(* any number of names, inodes and handles.                                *)
(*                                                                         *)
(* The argument: the entry the handle was opened by is still there         *)
(* (HandlesNamed), as libfuse lets no unlink through to a name that is     *)
(* open and cofs removes nothing else of that kind; and no other entry     *)
(* leads to the inode (EntriesGood), so that nothing frees it or gives it  *)
(* away.                                                                   *)
(***************************************************************************)
EXTENDS OpenFiles, Folds, FiniteSetTheorems, WellFoundedInduction, TLAPS

-----------------------------------------------------------------------------
(* Sums.  SumFunction is a fold, which chooses an element after the other: *)
(* the proofs by induction over the subsets of the domain take the         *)
(* smallest counterexample instead.                                        *)
LEMMA LeastNat ==
    ASSUME NEW S, S \subseteq Nat, S # {}
    PROVE  \E m \in S : \A k \in S : m <= k
<1>1. PICK m \in S : \A k \in S : <<k, m>> \notin OpToRel(<, Nat)
  BY WFMin, NatLessThanWellFounded, Zenon
<1>2. \A k \in S : ~(k < m)
  BY <1>1, Zenon DEF OpToRel
<1> QED
  BY <1>2

(* The steps in which SumFunction adds up f over the subsets of D.         *)
Some(s) == CHOOSE x \in s : TRUE
SumTo(f, D, g) == g = [s \in SUBSET D |-> IF s = {} THEN 0 ELSE f[Some(s)] + g[s \ {Some(s)}]]

LEMMA SumIs ==
    ASSUME NEW f
    PROVE  SumFunction(f) = (CHOOSE g : SumTo(f, DOMAIN f, g))[DOMAIN f]
  BY DEF SumFunction, SumFunctionOnSet, FoldFunctionOnSet, MapThenFoldSet, SumTo, Some

LEMMA SomeIs ==
    ASSUME NEW D, IsFiniteSet(D), NEW s \in SUBSET D, s # {}
    PROVE  /\ Some(s) \in s /\ s \ {Some(s)} \in SUBSET D
           /\ Cardinality(s) \in Nat /\ Cardinality(s) > 0
           /\ Cardinality(s \ {Some(s)}) = Cardinality(s) - 1
<1>1. Some(s) \in s
  BY DEF Some
<1>2. IsFiniteSet(s)
  BY FS_Subset
<1>3. Cardinality(s) \in Nat /\ Cardinality(s \ {Some(s)}) = Cardinality(s) - 1
      /\ Cardinality(s \ {Some(s)}) \in Nat
  BY <1>1, <1>2, FS_RemoveElement, FS_CardinalityType
<1> QED
  BY <1>1, <1>3

LEMMA SumExists ==
    ASSUME NEW f, NEW D, IsFiniteSet(D)
    PROVE  \E g : SumTo(f, D, g)
<1> DEFINE Small(n) == {s \in SUBSET D : Cardinality(s) <= n}
           Good(n, g) == g = [s \in Small(n) |-> IF s = {} THEN 0 ELSE f[Some(s)] + g[s \ {Some(s)}]]
           Bad == {n \in Nat : ~ \E g : Good(n, g)}
<1>0. \A s \in SUBSET D : Cardinality(s) \in Nat /\ Cardinality(s) <= Cardinality(D)
  BY FS_Subset, FS_CardinalityType
<1>1. ASSUME Bad # {} PROVE FALSE
  <2>1. PICK m \in Bad : \A k \in Bad : m <= k
    <3>1. Bad \subseteq Nat
      OBVIOUS
    <3> HIDE DEF Bad
    <3> QED
      BY <1>1, <3>1, LeastNat
  <2>2. m # 0
    <3> SUFFICES ASSUME m = 0 PROVE FALSE
      OBVIOUS
    <3>1. ASSUME NEW s \in Small(0) PROVE s = {}
      <4>1. s \in SUBSET D /\ Cardinality(s) = 0
        BY <1>0
      <4>2. s # {} => Cardinality(s) > 0
        <5> HIDE DEF Small
        <5> QED
          BY <4>1, SomeIs
      <4> QED
        BY <4>1, <4>2
    <3>2. Good(0, [s \in Small(0) |-> 0])
      BY <3>1
    <3> QED
      BY <2>1, <3>2
  <2>3. PICK g : Good(m - 1, g)
    <3>1. m \in Nat /\ m - 1 \in Nat /\ m - 1 < m
      BY <2>1, <2>2
    <3> HIDE DEF Good
    <3>2. m - 1 \notin Bad
      BY <2>1, <3>1
    <3> QED
      BY <3>1, <3>2
  <2> DEFINE h == [s \in Small(m) |-> IF Cardinality(s) < m THEN g[s]
                                      ELSE f[Some(s)] + g[s \ {Some(s)}]]
  <2>4. ASSUME NEW s \in Small(m)
        PROVE  h[s] = IF s = {} THEN 0 ELSE f[Some(s)] + h[s \ {Some(s)}]
    <3>1. m \in Nat /\ m - 1 \in Nat
      BY <2>2
    <3>2. s \in SUBSET D /\ Cardinality(s) \in Nat /\ Cardinality(s) <= m
      BY <1>0
    <3>3. s # {} => /\ Some(s) \in s /\ s \ {Some(s)} \in SUBSET D
                    /\ Cardinality(s) > 0 /\ Cardinality(s \ {Some(s)}) = Cardinality(s) - 1
      BY <3>2, SomeIs
    <3>4. s # {} => h[s \ {Some(s)}] = g[s \ {Some(s)}]
      BY <3>1, <3>2, <3>3
    <3>5. CASE Cardinality(s) = m
      <4>1. s # {}
        BY <2>2, <3>5, FS_EmptySet
      <4>2. h[s] = f[Some(s)] + g[s \ {Some(s)}]
        BY <3>1, <3>2, <3>5
      <4> HIDE DEF h
      <4> QED
        BY <3>4, <4>1, <4>2
    <3>6. CASE Cardinality(s) < m
      <4>1. s \in Small(m - 1) /\ h[s] = g[s]
        BY <3>1, <3>2, <3>6
      <4>2. g[s] = IF s = {} THEN 0 ELSE f[Some(s)] + g[s \ {Some(s)}]
        BY <2>3, <4>1
      <4> HIDE DEF h
      <4> QED
        BY <3>4, <4>1, <4>2
    <3> QED
      BY <3>1, <3>2, <3>5, <3>6
  <2>5. Good(m, h)
    BY <2>4
  <2> QED
    BY <2>1, <2>5
<1>2. Cardinality(D) \in Nat
  BY FS_CardinalityType
<1>3. PICK g : Good(Cardinality(D), g)
  <2> HIDE DEF Good
  <2> QED
    BY <1>1, <1>2
<1>4. Small(Cardinality(D)) = SUBSET D
  BY <1>0
<1>5. SumTo(f, D, g)
  BY <1>3, <1>4 DEF SumTo
<1> QED
  BY <1>5

LEMMA SumUnfolds ==
    ASSUME NEW f, IsFiniteSet(DOMAIN f)
    PROVE  \E g : SumTo(f, DOMAIN f, g) /\ SumFunction(f) = g[DOMAIN f]
<1> DEFINE g == CHOOSE h : SumTo(f, DOMAIN f, h)
<1>1. SumTo(f, DOMAIN f, g)
  BY SumExists
<1> QED
  BY <1>1, SumIs

(* A step of the sum.                                                      *)
LEMMA SumStep ==
    ASSUME NEW f, NEW D, IsFiniteSet(D), NEW g, SumTo(f, D, g), NEW s \in SUBSET D
    PROVE  g[s] = IF s = {} THEN 0 ELSE f[Some(s)] + g[s \ {Some(s)}]
  BY DEF SumTo

(* What holds of no elements, and of one more, holds of a finite set.      *)
LEMMA SubsetsAll ==
    ASSUME NEW D, IsFiniteSet(D), NEW P,
           \A s \in SUBSET D : (s = {} \/ s \ {Some(s)} \in P) => s \in P
    PROVE  SUBSET D \subseteq P
<1> DEFINE Bad == {n \in Nat : \E s \in SUBSET D : Cardinality(s) = n /\ s \notin P}
<1>1. ASSUME Bad # {} PROVE FALSE
  <2>1. PICK m \in Bad : \A k \in Bad : m <= k
    <3>1. Bad \subseteq Nat
      OBVIOUS
    <3> HIDE DEF Bad
    <3> QED
      BY <1>1, <3>1, LeastNat
  <2>2. PICK s \in SUBSET D : Cardinality(s) = m /\ s \notin P
    BY <2>1
  <2>3. s # {}
    BY <2>2
  <2>4. /\ s \ {Some(s)} \in SUBSET D /\ Cardinality(s) \in Nat /\ Cardinality(s) > 0
        /\ Cardinality(s \ {Some(s)}) = Cardinality(s) - 1
    BY <2>3, SomeIs
  <2>5. m - 1 \in Nat /\ m - 1 \notin Bad
    BY <2>1, <2>2, <2>4
  <2>6. s \ {Some(s)} \in P
    BY <2>2, <2>4, <2>5
  <2> QED
    BY <2>2, <2>6
<1>2. \A s \in SUBSET D : Cardinality(s) \in Nat
  BY FS_Subset, FS_CardinalityType
<1> QED
  BY <1>1, <1>2

LEMMA SumNat ==
    ASSUME NEW D, IsFiniteSet(D), NEW f \in [D -> Nat]
    PROVE  SumFunction(f) \in Nat /\ \A x \in D : f[x] <= SumFunction(f)
<1>1. PICK g : SumTo(f, D, g) /\ SumFunction(f) = g[D]
  BY SumUnfolds
<1> DEFINE P == {s \in SUBSET D : g[s] \in Nat /\ \A x \in s : f[x] <= g[s]}
<1>2. ASSUME NEW s \in SUBSET D, s = {} \/ s \ {Some(s)} \in P PROVE s \in P
  <2>1. CASE s = {}
    BY <1>1, <2>1, SumStep
  <2>2. CASE s # {}
    <3>1. Some(s) \in s /\ f[Some(s)] \in Nat
      BY <2>2, SomeIs
    <3>2. g[s] = f[Some(s)] + g[s \ {Some(s)}]
      BY <1>1, <2>2, SumStep
    <3>3. g[s \ {Some(s)}] \in Nat /\ \A x \in s \ {Some(s)} : f[x] <= g[s \ {Some(s)}]
      BY <1>2, <2>2
    <3>4. \A x \in s : f[x] \in Nat
      OBVIOUS
    <3> HIDE DEF P
    <3>5. g[s] \in Nat
      BY <3>1, <3>2, <3>3
    <3>6. ASSUME NEW x \in s PROVE f[x] <= g[s]
      <4>1. CASE x = Some(s)
        BY <3>1, <3>2, <3>3, <4>1
      <4>2. CASE x # Some(s)
        <5>1. f[x] <= g[s \ {Some(s)}]
          BY <3>3, <4>2
        <5> QED
          BY <3>1, <3>2, <3>3, <3>4, <5>1
      <4> QED
        BY <4>1, <4>2
    <3> QED
      BY <3>5, <3>6 DEF P
  <2> QED
    BY <2>1, <2>2
<1>3. D \in P
  <2> HIDE DEF P
  <2>1. SUBSET D \subseteq P
    BY <1>2, SubsetsAll
  <2> QED
    BY <2>1
<1> QED
  BY <1>1, <1>3

(* The sum changes by what one of its terms does.                          *)
LEMMA SumChange ==
    ASSUME NEW D, IsFiniteSet(D), NEW f \in [D -> Nat], NEW h \in [D -> Nat], NEW x \in D,
           \A y \in D : y # x => h[y] = f[y]
    PROVE  SumFunction(h) + f[x] = SumFunction(f) + h[x]
<1>1. PICK g : SumTo(f, D, g) /\ SumFunction(f) = g[D]
  BY SumUnfolds
<1>2. PICK k : SumTo(h, D, k) /\ SumFunction(h) = k[D]
  BY SumUnfolds
<1> DEFINE P == {s \in SUBSET D : /\ g[s] \in Nat /\ k[s] \in Nat
                                  /\ x \in s => k[s] + f[x] = g[s] + h[x]
                                  /\ x \notin s => k[s] = g[s]}
<1>3. ASSUME NEW s \in SUBSET D, s = {} \/ s \ {Some(s)} \in P PROVE s \in P
  <2>1. CASE s = {}
    BY <1>1, <1>2, <2>1, SumStep
  <2>2. CASE s # {}
    <3> DEFINE y == Some(s)
               t == s \ {y}
    <3>1. y \in s /\ f[y] \in Nat /\ h[y] \in Nat /\ (y # x => h[y] = f[y])
      BY <2>2, SomeIs
    <3>2. g[s] = f[y] + g[t] /\ k[s] = h[y] + k[t]
      <4>1. g[s] = f[y] + g[t]
        BY <1>1, <2>2, SumStep
      <4>2. DOMAIN h = D
        OBVIOUS
      <4>3. k[s] = h[y] + k[t]
        BY <1>2, <2>2, <4>2, SumStep
      <4> QED
        BY <4>1, <4>3
    <3>3. /\ g[t] \in Nat /\ k[t] \in Nat
          /\ x \in t => k[t] + f[x] = g[t] + h[x]
          /\ x \notin t => k[t] = g[t]
      BY <1>3, <2>2
    <3>4. f[x] \in Nat /\ h[x] \in Nat
      OBVIOUS
    <3>5. x \in s <=> x = y \/ x \in t
      BY <3>1
    <3>6. x \in t => x # y
      OBVIOUS
    <3> HIDE DEF P, y, t
    <3>7. g[s] \in Nat /\ k[s] \in Nat
      BY <3>1, <3>2, <3>3
    <3>8. CASE x = y
      BY <3>1, <3>2, <3>3, <3>4, <3>5, <3>6, <3>7, <3>8 DEF P
    <3>9. CASE x # y
      BY <3>1, <3>2, <3>3, <3>4, <3>5, <3>6, <3>7, <3>9 DEF P
    <3> QED
      BY <3>8, <3>9
  <2> QED
    BY <2>1, <2>2
<1>4. D \in P
  <2> HIDE DEF P
  <2>1. SUBSET D \subseteq P
    BY <1>3, SubsetsAll
  <2> QED
    BY <2>1
<1> QED
  BY <1>1, <1>2, <1>4

(* One sum is above another by at least the number of members of S, if     *)
(* each of their terms is above by 1 there and not below elsewhere.        *)
LEMMA SumAbove ==
    ASSUME NEW D, IsFiniteSet(D), NEW f \in [D -> Nat], NEW h \in [D -> Nat], NEW S \in SUBSET D,
           \A y \in D : f[y] >= h[y] /\ (y \in S => f[y] >= h[y] + 1)
    PROVE  SumFunction(f) >= SumFunction(h) + Cardinality(S)
<1>1. PICK g : SumTo(f, D, g) /\ SumFunction(f) = g[D]
  BY SumUnfolds
<1>2. PICK k : SumTo(h, D, k) /\ SumFunction(h) = k[D]
  BY SumUnfolds
<1>a. ASSUME NEW s \in SUBSET D
      PROVE  /\ s = {} => g[s] = 0 /\ k[s] = 0
             /\ s # {} => /\ g[s] = f[Some(s)] + g[s \ {Some(s)}]
                          /\ k[s] = h[Some(s)] + k[s \ {Some(s)}]
  <2>1. g[s] = IF s = {} THEN 0 ELSE f[Some(s)] + g[s \ {Some(s)}]
    BY <1>1, SumStep
  <2>2. k[s] = IF s = {} THEN 0 ELSE h[Some(s)] + k[s \ {Some(s)}]
    BY <1>2, SumStep
  <2> QED
    BY <2>1, <2>2
<1> DEFINE P == {s \in SUBSET D : /\ g[s] \in Nat /\ k[s] \in Nat
                                  /\ g[s] >= k[s] + Cardinality(s \intersect S)}
<1>3. ASSUME NEW s \in SUBSET D, s = {} \/ s \ {Some(s)} \in P PROVE s \in P
  <2>1. CASE s = {}
    <3>1. s \intersect S = {}
      BY <2>1
    <3>2. Cardinality(s \intersect S) = 0
      BY <3>1, FS_EmptySet
    <3>3. g[s] = 0 /\ k[s] = 0
      BY <1>a, <2>1
    <3> QED
      BY <3>2, <3>3
  <2>2. CASE s # {}
    <3> DEFINE y == Some(s)
               t == s \ {y}
    <3>1. y \in s /\ f[y] \in Nat /\ h[y] \in Nat
          /\ f[y] >= h[y] /\ (y \in S => f[y] >= h[y] + 1)
      BY <2>2 DEF Some
    <3>2. g[s] = f[y] + g[t] /\ k[s] = h[y] + k[t]
      BY <1>a, <2>2
    <3>3. /\ g[t] \in Nat /\ k[t] \in Nat
          /\ g[t] >= k[t] + Cardinality(t \intersect S)
      BY <1>3, <2>2
    <3>4. IsFiniteSet(s \intersect S) /\ IsFiniteSet(t \intersect S)
      <4>1. s \intersect S \subseteq D /\ t \intersect S \subseteq D
        OBVIOUS
      <4> QED
        BY <4>1, FS_Subset
    <3>5. Cardinality(s \intersect S) \in Nat /\ Cardinality(t \intersect S) \in Nat
      BY <3>4, FS_CardinalityType
    <3>6. Cardinality(s \intersect S) = Cardinality(t \intersect S) + IF y \in S THEN 1 ELSE 0
      <4>1. CASE y \in S
        <5>1. y \in s \intersect S /\ t \intersect S = (s \intersect S) \ {y}
          BY <3>1, <4>1
        <5>2. Cardinality(t \intersect S) = Cardinality(s \intersect S) - 1
          <6>1. PICK a : a = s \intersect S
            OBVIOUS
          <6>2. Cardinality(a \ {y}) = Cardinality(a) - 1
            BY <3>4, <5>1, <6>1, FS_RemoveElement
          <6> QED
            BY <5>1, <6>1, <6>2
        <5> QED
          BY <3>5, <4>1, <5>2
      <4>2. CASE y \notin S
        <5>1. t \intersect S = s \intersect S
          BY <4>2
        <5> QED
          BY <3>5, <4>2, <5>1
      <4> QED
        BY <4>1, <4>2
    <3> HIDE DEF P, y, t
    <3>7. g[s] \in Nat /\ k[s] \in Nat
      BY <3>1, <3>2, <3>3
    <3>8. g[s] >= k[s] + Cardinality(s \intersect S)
      BY <3>1, <3>2, <3>3, <3>5, <3>6
    <3> QED
      BY <3>7, <3>8 DEF P
  <2> QED
    BY <2>1, <2>2
<1>4. D \in P
  <2> HIDE DEF P
  <2>1. SUBSET D \subseteq P
    BY <1>3, SubsetsAll
  <2> QED
    BY <2>1
<1>5. D \intersect S = S
  OBVIOUS
<1> QED
  BY <1>1, <1>2, <1>4, <1>5

-----------------------------------------------------------------------------
Current(h) == handle[h] # Closed /\ ~handle[h].moved

LEMMA OpenConstants ==
    /\ SlotNums \subseteq Nat /\ Inums \subseteq Nat
    /\ 0 \notin Inums /\ Missing \notin Inums /\ Missing # 0
    /\ "" \notin Names /\ Hidden \notin Names /\ Hidden # ""
    /\ Hole.name = "" /\ Hole.inum = 0
    /\ Hole \in Entry /\ FreeInode \in InodeRec
    /\ Closed.fh = Missing /\ Closed.name = "" /\ Closed \in HandleRec
<1>1. SlotNums \subseteq Nat /\ Inums \subseteq Nat /\ 0 \notin Inums
  <2>1. NumInodes \in Nat /\ NumSlots \in Nat
    BY OpenAssumption
  <2> QED
    BY <2>1 DEF SlotNums, Inums
<1>2. Missing \notin Inums /\ Missing # 0
  BY <1>1 DEF Missing
<1>3. "" \notin Names /\ Hidden \notin Names
  BY OpenAssumption
<1>4. Hidden # ""
  BY DEF Hidden
<1>5. Hole \in Entry /\ Hole.name = "" /\ Hole.inum = 0
  BY DEF Hole, Entry
<1>6. FreeInode \in InodeRec
  BY DEF FreeInode, InodeRec
<1>7. Closed.fh = Missing /\ Closed.name = "" /\ Closed \in HandleRec
  BY DEF Closed, HandleRec
<1> QED
  BY <1>1, <1>2, <1>3, <1>4, <1>5, <1>6, <1>7

(* The types, element by element.                                          *)
LEMMA Types ==
    ASSUME OpenTypeOK
    PROVE  /\ \A s \in SlotNums : slots[s] \in Entry
           /\ \A i \in Inums : /\ inode[i] \in InodeRec /\ inode[i].n_blocks \in Nat
                                /\ inode[i].foreign \in BOOLEAN
           /\ \A h \in Handles : handle[h] \in HandleRec
           /\ Used \subseteq SlotNums
  BY DEF OpenTypeOK, InodeRec, Used

(* A set of slots that is not empty has a lowest one.                      *)
LEMMA LowestIs ==
    ASSUME NEW S, S \subseteq Nat, S # {}
    PROVE  Lowest(S) \in S
<1>1. \E m \in S : \A k \in S : m <= k
  BY LeastNat
<1> QED
  BY <1>1 DEF Lowest

(* What Dir_lookup finds is the inode of an entry of that name.            *)
LEMMA LookupFinds ==
    ASSUME OpenTypeOK, NEW n \in Names, Lookup(n) # Missing
    PROVE  /\ Lowest(Found(n)) \in Used
           /\ slots[Lowest(Found(n))] = [name |-> n, inum |-> Lookup(n)]
<1>1. Found(n) # {} /\ Found(n) \subseteq SlotNums
  BY DEF Lookup, Found
<1>2. Lowest(Found(n)) \in Found(n)
  BY <1>1, LowestIs, OpenConstants
<1>3. /\ Lowest(Found(n)) \in SlotNums /\ slots[Lowest(Found(n))].name = n
      /\ Lookup(n) = slots[Lowest(Found(n))].inum
  BY <1>1, <1>2 DEF Found, Lookup
<1> QED
  BY <1>3, OpenConstants DEF OpenTypeOK, Entry, Used

(* The entry a handle was opened by.                                       *)
LEMMA EntryOf ==
    ASSUME OInv, NEW h \in Handles, Current(h)
    PROVE  /\ handle[h].fh \in Inums /\ inode[handle[h].fh].in_use
           /\ inode[handle[h].fh].type = "file"
           /\ inode[handle[h].fh].file = handle[h].file
           /\ \E s \in Used : slots[s] = [name |-> handle[h].name, inum |-> handle[h].fh]
  BY DEF OInv, HandlesNamed, HandleTrue, Current

-----------------------------------------------------------------------------
(* A step that takes no entry and no inode of an open file away.           *)
LEMMA HandlesStay ==
    ASSUME OInv, OpenTypeOK',
           \A h \in Handles : \/ handle'[h] = Closed
                              \/ handle[h] # Closed /\ handle'[h] = handle[h]
                              \/ /\ handle[h] # Closed /\ handle'[h].moved
                                 /\ handle'[h].name # "" /\ handle'[h].fh = handle[h].fh,
           \A h \in Handles : Current(h) =>
               \A s \in Used : slots[s] = [name |-> handle[h].name, inum |-> handle[h].fh]
                                   => slots'[s] = slots[s],
           \A h \in Handles : Current(h) =>
               /\ inode'[handle[h].fh].in_use = inode[handle[h].fh].in_use
               /\ inode'[handle[h].fh].type = inode[handle[h].fh].type
               /\ inode'[handle[h].fh].file = inode[handle[h].fh].file
    PROVE  HandlesNamed' /\ HandleTrue'
<1> SUFFICES ASSUME NEW h \in Handles, handle'[h] # Closed
             PROVE  /\ handle'[h].fh \in Inums /\ handle'[h].name # ""
                    /\ ~handle'[h].moved =>
                           /\ inode'[handle'[h].fh].in_use
                           /\ inode'[handle'[h].fh].type = "file"
                           /\ inode'[handle'[h].fh].file = handle'[h].file
                           /\ \E s \in Used' : slots'[s] = [name |-> handle'[h].name,
                                                            inum |-> handle'[h].fh]
  BY DEF HandlesNamed, HandleTrue
<1>1. handle[h] # Closed /\ handle[h].fh \in Inums /\ handle[h].name # ""
  BY DEF OInv, HandlesNamed
<1>2. CASE handle'[h].moved
  BY <1>1, <1>2
<1>3. CASE ~handle'[h].moved
  <2>1. handle'[h] = handle[h] /\ Current(h)
    BY <1>1, <1>3 DEF Current
  <2>2. PICK s \in Used : slots[s] = [name |-> handle[h].name, inum |-> handle[h].fh]
    BY <2>1, EntryOf
  <2>3. slots'[s] = slots[s] /\ s \in Used'
    BY <2>1, <2>2 DEF Used
  <2>4. /\ inode'[handle[h].fh].in_use /\ inode'[handle[h].fh].type = "file"
        /\ inode'[handle[h].fh].file = handle[h].file
    BY <2>1, EntryOf
  <2> QED
    BY <1>1, <2>1, <2>2, <2>3, <2>4
<1> QED
  BY <1>2, <1>3

-----------------------------------------------------------------------------
LEMMA CreateStep ==
    ASSUME OInv, NEW kind \in {"file", "dir"}, NEW n \in Names, NEW i \in Inums,
           Create(kind, n, i)
    PROVE  OInv'
<1> DEFINE blocks == IF kind = "dir" THEN 1 ELSE 0
           made == [in_use |-> TRUE, type |-> kind, n_blocks |-> blocks,
                    file |-> files + 1, foreign |-> FALSE]
<1>0. OpenTypeOK /\ EntriesGood
  BY DEF OInv
<1>1. PICK s \in SlotNums \ Used : slots' = [slots EXCEPT ![s] = [name |-> n, inum |-> i]]
  BY DEF Create
<1>2. /\ ~inode[i].in_use /\ files' = files + 1 /\ spare >= blocks
      /\ inode' = [inode EXCEPT ![i] = made] /\ spare' = spare - blocks
      /\ handle' = handle /\ strays' = strays
  BY DEF Create
<1>3. OpenTypeOK'
  <2>1. made \in InodeRec /\ spare' \in Nat
    BY <1>0, <1>2 DEF OpenTypeOK, InodeRec
  <2>2. [name |-> n, inum |-> i] \in Entry
    BY DEF Entry
  <2> QED
    BY <1>0, <1>1, <1>2, <2>1, <2>2 DEF OpenTypeOK
<1>4. Used' = Used \union {s}
  <2>1. \A t \in SlotNums : slots'[t] = IF t = s THEN [name |-> n, inum |-> i] ELSE slots[t]
    BY <1>0, <1>1 DEF OpenTypeOK
  <2>2. n # ""
    BY OpenConstants
  <2>3. slots'[s].name # "" /\ ~(slots[s].name # "")
    <3>1. slots'[s] = [name |-> n, inum |-> i]
      BY <2>1
    <3>2. slots'[s].name = n
      BY <3>1
    <3>3. ~(slots[s].name # "")
      BY <1>1 DEF Used
    <3> QED
      BY <2>2, <3>2, <3>3
  <2>4. \A t \in SlotNums : (slots'[t].name # "") <=> (slots[t].name # "" \/ t = s)
    BY <2>1, <2>3
  <2>5. Used' = {t \in SlotNums : slots[t].name # "" \/ t = s}
    BY <2>4 DEF Used
  <2> QED
    BY <1>1, <2>5 DEF Used
<1>5. EntriesGood'
  <2>1. \A t \in Used : /\ slots'[t] = slots[t] /\ slots[t].inum \in Inums
                        /\ inode[slots[t].inum].in_use
    BY <1>0, <1>1, Types DEF EntriesGood, OpenTypeOK
  <2>2. \A t \in Used : slots[t].inum # i /\ inode'[slots[t].inum] = inode[slots[t].inum]
    BY <2>1, <1>0, <1>2 DEF OpenTypeOK
  <2>3. slots'[s].inum = i /\ inode'[i].in_use
    BY <1>0, <1>1, <1>2 DEF OpenTypeOK
  <2> QED
    BY <1>0, <1>4, <2>1, <2>2, <2>3 DEF EntriesGood
<1>6. \A h \in Handles : Current(h) => handle[h].fh # i
  BY <1>2, EntryOf
<1>7. \A h \in Handles : Current(h) => inode'[handle[h].fh] = inode[handle[h].fh]
  BY <1>0, <1>2, <1>6, EntryOf DEF OpenTypeOK
<1>8. \A t \in Used : slots'[t] = slots[t]
  BY <1>0, <1>1, Types DEF OpenTypeOK
<1>9. HandlesNamed' /\ HandleTrue'
  BY <1>2, <1>3, <1>7, <1>8, HandlesStay
<1> QED
  BY <1>3, <1>5, <1>9 DEF OInv

LEMMA CreateUndoneStep ==
    ASSUME OInv, NEW n \in Names, NEW i \in Inums, CreateUndone(n, i)
    PROVE  OInv'
<1>0. OpenTypeOK /\ EntriesGood
  BY DEF OInv
<1>1. /\ ~inode[i].in_use /\ inode' = [inode EXCEPT ![i] = FreeInode]
      /\ UNCHANGED <<slots, spare, handle, files, strays>>
  BY DEF CreateUndone
<1>2. OpenTypeOK'
  BY <1>0, <1>1, OpenConstants DEF OpenTypeOK
<1>3. Used' = Used
  BY <1>1 DEF Used
<1>4. EntriesGood'
  BY <1>0, <1>1, <1>3 DEF EntriesGood, OpenTypeOK
<1>5. \A h \in Handles : Current(h) => handle[h].fh # i
  BY <1>1, EntryOf
<1>6. \A h \in Handles : Current(h) => inode'[handle[h].fh] = inode[handle[h].fh]
  BY <1>0, <1>1, <1>5, EntryOf DEF OpenTypeOK
<1>7. HandlesNamed' /\ HandleTrue'
  BY <1>1, <1>2, <1>6, HandlesStay
<1> QED
  BY <1>2, <1>4, <1>7 DEF OInv

LEMMA OpenStep ==
    ASSUME OInv, NEW h \in Handles, NEW n \in Names, Open(h, n)
    PROVE  OInv'
<1> DEFINE new == [fh |-> Lookup(n), name |-> n,
                   file |-> inode[Lookup(n)].file, moved |-> FALSE]
<1>0. OpenTypeOK /\ EntriesGood /\ HandlesNamed /\ HandleTrue
  BY DEF OInv
<1>1. /\ Lookup(n) # Missing /\ inode[Lookup(n)].type = "file"
      /\ handle' = [handle EXCEPT ![h] = new]
      /\ UNCHANGED <<slots, inode, spare, files, strays>>
  BY DEF Open
<1>2. /\ Lowest(Found(n)) \in Used
      /\ slots[Lowest(Found(n))] = [name |-> n, inum |-> Lookup(n)]
  BY <1>0, <1>1, LookupFinds
<1>3. Lookup(n) \in Inums /\ inode[Lookup(n)].in_use
  BY <1>0, <1>2 DEF EntriesGood
<1>4. OpenTypeOK'
  <2>1. new \in HandleRec
    BY <1>0, <1>3 DEF OpenTypeOK, InodeRec, HandleRec
  <2> QED
    BY <1>0, <1>1, <2>1 DEF OpenTypeOK
<1>5. Used' = Used /\ EntriesGood'
  BY <1>0, <1>1 DEF Used, EntriesGood
<1>6. \A g \in Handles : handle'[g] = IF g = h THEN new ELSE handle[g]
  BY <1>0, <1>1 DEF OpenTypeOK
<1>7. HandlesNamed'
  <2> SUFFICES ASSUME NEW g \in Handles, handle'[g] # Closed
               PROVE  /\ handle'[g].fh \in Inums /\ handle'[g].name # ""
                      /\ ~handle'[g].moved =>
                             /\ inode[handle'[g].fh].type = "file"
                             /\ \E s \in Used : slots[s] = [name |-> handle'[g].name,
                                                           inum |-> handle'[g].fh]
    BY <1>1, <1>5 DEF HandlesNamed
  <2>1. CASE g = h
    <3>1. /\ handle'[g] = new /\ new.fh = Lookup(n) /\ new.name = n /\ n # ""
      BY <1>6, <2>1, OpenConstants
    <3>2. \E s \in Used : slots[s] = [name |-> n, inum |-> Lookup(n)]
      BY <1>2
    <3> HIDE DEF new
    <3> QED
      BY <3>1, <3>2, <1>1, <1>3
  <2>2. CASE g # h
    BY <1>0, <1>6, <2>2 DEF HandlesNamed
  <2> QED
    BY <2>1, <2>2
<1>8. HandleTrue'
  BY <1>0, <1>1, <1>3, <1>6 DEF HandleTrue
<1> QED
  BY <1>4, <1>5, <1>7, <1>8 DEF OInv

LEMMA ReleaseStep ==
    ASSUME OInv, NEW h \in Handles, Release(h)
    PROVE  OInv'
<1>0. OpenTypeOK /\ EntriesGood
  BY DEF OInv
<1>1. /\ handle' = [handle EXCEPT ![h] = Closed]
      /\ UNCHANGED <<slots, inode, spare, files, strays>>
  BY DEF Release
<1>2. OpenTypeOK'
  BY <1>0, <1>1, OpenConstants DEF OpenTypeOK
<1>3. EntriesGood'
  BY <1>0, <1>1 DEF EntriesGood, Used
<1>4. \A g \in Handles : handle'[g] = Closed \/ handle'[g] = handle[g]
  BY <1>0, <1>1 DEF OpenTypeOK
<1>5. HandlesNamed' /\ HandleTrue'
  BY <1>1, <1>2, <1>4, HandlesStay
<1> QED
  BY <1>2, <1>3, <1>5 DEF OInv

(* What a write takes, and what it counts as if it misses its file.        *)
LEMMA CostIs ==
    ASSUME NEW new_blocks \in 0 .. SpareBlocks
    PROVE  /\ new_blocks \in Nat
           /\ Cost(new_blocks) \in Nat /\ Cost(new_blocks) >= 1
           /\ Cost(new_blocks) >= new_blocks
<1>0. SpareBlocks \in Nat
  BY OpenAssumption
<1>1. new_blocks \in Nat
  BY <1>0
<1>2. CASE new_blocks = 0
  BY <1>2 DEF Cost
<1>3. CASE new_blocks # 0
  BY <1>1, <1>3 DEF Cost
<1> QED
  BY <1>1, <1>2, <1>3

LEMMA WriteStep ==
    ASSUME OInv, NEW h \in Handles, NEW new_blocks \in 0 .. SpareBlocks, Write(h, new_blocks)
    PROVE  OInv'
<1> DEFINE i == handle[h].fh
<1>0. OpenTypeOK /\ EntriesGood /\ HandlesNamed
  BY DEF OInv
<1>1. /\ handle[h] # Closed
      /\ inode' = [inode EXCEPT ![i].n_blocks = @ + new_blocks,
                                ![i].foreign = @ \/ Stray(h)]
      /\ spare >= new_blocks /\ spare' = spare - new_blocks
      /\ strays' = (IF Stray(h) THEN strays + Cost(new_blocks) ELSE strays)
      /\ UNCHANGED <<slots, handle, files>>
  BY DEF Write
<1>2. i \in Inums
  BY <1>0, <1>1 DEF HandlesNamed
<1> DEFINE stray == inode[i].foreign \/ Stray(h)
           written == [inode[i] EXCEPT !.n_blocks = @ + new_blocks, !.foreign = stray]
<1>w. /\ inode' = [inode EXCEPT ![i] = written] /\ written \in InodeRec
      /\ written.in_use = inode[i].in_use /\ written.type = inode[i].type
      /\ written.file = inode[i].file
  <2>1. inode[i] \in InodeRec
    BY <1>0, <1>2, Types
  <2>2. inode' = [inode EXCEPT ![i] = written]
    BY <1>0, <1>1, <1>2 DEF OpenTypeOK
  <2>3. stray \in BOOLEAN
    OBVIOUS
  <2> HIDE DEF stray
  <2>4. /\ inode[i].n_blocks + new_blocks \in Nat
    BY <2>1, CostIs DEF InodeRec
  <2>5. /\ written \in InodeRec /\ written.in_use = inode[i].in_use
        /\ written.type = inode[i].type /\ written.file = inode[i].file
    BY <2>1, <2>3, <2>4 DEF InodeRec
  <2> QED
    BY <2>2, <2>5
<1> HIDE DEF written
<1>3. \A j \in Inums :
          /\ inode'[j].in_use = inode[j].in_use /\ inode'[j].type = inode[j].type
          /\ inode'[j].file = inode[j].file
  <2>1. \A j \in Inums : inode'[j] = IF j = i THEN written ELSE inode[j]
    BY <1>0, <1>w DEF OpenTypeOK
  <2> QED
    BY <2>1, <1>w
<1>4. OpenTypeOK'
  <2>1. spare' \in Nat /\ strays' \in Nat
    BY <1>0, <1>1, CostIs DEF OpenTypeOK
  <2> QED
    BY <1>0, <1>1, <1>w, <2>1 DEF OpenTypeOK
<1>5. EntriesGood'
  BY <1>0, <1>1, <1>3 DEF EntriesGood, Used
<1>6. \A g \in Handles : Current(g) => handle[g].fh \in Inums
  BY EntryOf
<1>7. HandlesNamed' /\ HandleTrue'
  BY <1>1, <1>3, <1>4, <1>6, HandlesStay
<1> QED
  BY <1>4, <1>5, <1>7 DEF OInv

-----------------------------------------------------------------------------
(* An entry goes that no handle was opened by, perhaps with its inode.     *)
LEMMA EntryGone ==
    ASSUME OInv, NEW n \in Names, Lookup(n) # Missing,
           \A h \in Handles : Current(h) =>
               handle[h].name # n \/ inode[Lookup(n)].type = "dir",
           slots' = [slots EXCEPT ![Lowest(Found(n))] = Hole],
           \/ inode' = inode
           \/ inode' = [inode EXCEPT ![Lookup(n)] = FreeInode],
           spare' \in Nat, UNCHANGED <<handle, files, strays>>
    PROVE  OInv'
<1> DEFINE s == Lowest(Found(n))
           i == Lookup(n)
<1>0. OpenTypeOK /\ EntriesGood
  BY DEF OInv
<1>1. s \in Used /\ slots[s] = [name |-> n, inum |-> i]
  BY <1>0, LookupFinds
<1>2. i \in Inums
  BY <1>0, <1>1 DEF EntriesGood
<1>3. OpenTypeOK'
  BY <1>0, <1>1, <1>2, OpenConstants DEF OpenTypeOK
<1>4. Used' = Used \ {s} /\ \A t \in Used \ {s} : slots'[t] = slots[t]
  BY <1>0, <1>1, OpenConstants DEF Used, OpenTypeOK
<1>5. \A t \in Used \ {s} : slots[t].inum # i
  BY <1>0, <1>1 DEF EntriesGood
<1>6. \A j \in Inums \ {i} : inode'[j] = inode[j]
  BY <1>0, <1>2 DEF OpenTypeOK
<1>7. EntriesGood'
  BY <1>0, <1>4, <1>5, <1>6 DEF EntriesGood
<1>8. ASSUME NEW h \in Handles, Current(h), NEW t \in Used,
             slots[t] = [name |-> handle[h].name, inum |-> handle[h].fh]
      PROVE  t # s
  BY <1>1, <1>8, EntryOf
<1>9. \A h \in Handles : Current(h) => handle[h].fh \in Inums \ {i}
  <2> SUFFICES ASSUME NEW h \in Handles, Current(h) PROVE handle[h].fh \in Inums \ {i}
    OBVIOUS
  <2>1. PICK t \in Used : slots[t] = [name |-> handle[h].name, inum |-> handle[h].fh]
    BY EntryOf
  <2> QED
    BY <2>1, <1>5, <1>8, EntryOf
<1>10. HandlesNamed' /\ HandleTrue'
  BY <1>3, <1>4, <1>6, <1>8, <1>9, HandlesStay
<1> QED
  BY <1>3, <1>7, <1>10 DEF OInv

LEMMA UnlinkStep ==
    ASSUME OInv, NEW n \in Names, Unlink(n)
    PROVE  OInv'
<1> DEFINE i == Lookup(n)
<1>1. /\ i # Missing /\ ~IsOpen(n)
      /\ slots' = [slots EXCEPT ![Lowest(Found(n))] = Hole]
      /\ inode' = [inode EXCEPT ![i] = FreeInode]
      /\ spare' = spare + inode[i].n_blocks /\ UNCHANGED <<handle, files, strays>>
  BY DEF Unlink
<1>2. i \in Inums
  <2>1. /\ Lowest(Found(n)) \in Used
        /\ slots[Lowest(Found(n))] = [name |-> n, inum |-> i]
    BY <1>1, LookupFinds DEF OInv
  <2> QED
    BY <2>1 DEF OInv, EntriesGood
<1>3. spare' \in Nat
  BY <1>1, <1>2, Types DEF OInv, OpenTypeOK
<1> QED
  BY <1>1, <1>3, EntryGone DEF IsOpen

LEMMA RmdirStep ==
    ASSUME OInv, NEW n \in Names, Rmdir(n)
    PROVE  OInv'
<1>1. /\ Lookup(n) # Missing /\ inode[Lookup(n)].type = "dir"
      /\ slots' = [slots EXCEPT ![Lowest(Found(n))] = Hole]
      /\ UNCHANGED <<inode, spare, handle, files, strays>>
  BY DEF Rmdir
<1>2. spare' \in Nat
  BY <1>1 DEF OInv, OpenTypeOK
<1> QED
  BY <1>1, <1>2, EntryGone

-----------------------------------------------------------------------------
(* libfuse gives nodes other names, and cofs changes nothing.              *)
LEMMA NamesMove ==
    ASSUME OInv, UNCHANGED <<slots, inode, spare, files, strays>>,
           handle' \in [Handles -> HandleRec],
           \A h \in Handles : \/ handle'[h] = handle[h]
                              \/ /\ handle[h].name \in Names /\ handle'[h].moved
                                 /\ handle'[h].name # "" /\ handle'[h].fh = handle[h].fh
    PROVE  OInv'
<1>0. OpenTypeOK /\ EntriesGood
  BY DEF OInv
<1>1. OpenTypeOK' /\ EntriesGood'
  BY <1>0 DEF OpenTypeOK, EntriesGood, Used
<1>2. \A h \in Handles : handle[h].name \in Names => handle[h] # Closed
  BY OpenConstants DEF Closed
<1>3. HandlesNamed' /\ HandleTrue'
  BY <1>1, <1>2, HandlesStay
<1> QED
  BY <1>1, <1>3 DEF OInv

LEMMA UnlinkOpenStep ==
    ASSUME OInv, NEW n \in Names, UnlinkOpen(n)
    PROVE  OInv'
<1>1. /\ handle' = Renamed(n, Hidden) /\ UNCHANGED <<slots, inode, spare, files, strays>>
  BY DEF UnlinkOpen
<1>2. handle' \in [Handles -> HandleRec]
  BY <1>1 DEF Renamed, OInv, OpenTypeOK, HandleRec
<1>3. \A h \in Handles : \/ handle'[h] = handle[h]
                         \/ /\ handle[h].name \in Names /\ handle'[h].moved
                            /\ handle'[h].name # "" /\ handle'[h].fh = handle[h].fh
  BY <1>1, OpenConstants DEF Renamed, OInv, OpenTypeOK, HandleRec
<1> QED
  BY <1>1, <1>2, <1>3, NamesMove

LEMMA RenameStep ==
    ASSUME OInv, NEW a \in Names, NEW b \in Names, Rename(a, b)
    PROVE  OInv'
<1>1. /\ handle' = [h \in Handles |-> IF handle[h].name = a
                                      THEN Renamed(a, b)[h] ELSE Renamed(b, Hidden)[h]]
      /\ UNCHANGED <<slots, inode, spare, files, strays>>
  BY DEF Rename
<1>2. \A h \in Handles :
          handle'[h] = IF handle[h].name = a
                       THEN [handle[h] EXCEPT !.name = b, !.moved = TRUE]
                       ELSE IF handle[h].name = b
                       THEN [handle[h] EXCEPT !.name = Hidden, !.moved = TRUE]
                       ELSE handle[h]
  BY <1>1 DEF Renamed
<1>3. handle' \in [Handles -> HandleRec]
  <2>1. \A h \in Handles : handle[h] \in HandleRec => handle'[h] \in HandleRec
    BY <1>2 DEF HandleRec
  <2> QED
    BY <1>1, <2>1, Types DEF OInv
<1>4. \A h \in Handles : \/ handle'[h] = handle[h]
                         \/ /\ handle[h].name \in Names /\ handle'[h].moved
                            /\ handle'[h].name # "" /\ handle'[h].fh = handle[h].fh
  <2>1. \A h \in Handles : handle[h] \in HandleRec
    BY Types DEF OInv
  <2>2. \A h \in Handles : /\ handle[h].name = a => handle'[h].moved
                               /\ handle'[h].name = b /\ handle'[h].fh = handle[h].fh
                           /\ handle[h].name = b /\ a # b => handle'[h].moved
                               /\ handle'[h].name = Hidden /\ handle'[h].fh = handle[h].fh
    BY <1>2, <2>1 DEF HandleRec
  <2> QED
    BY <1>1, <1>2, <2>2, OpenConstants
<1> QED
  BY <1>1, <1>3, <1>4, NamesMove

-----------------------------------------------------------------------------
LEMMA NothingMoves ==
    ASSUME OInv, UNCHANGED openVars
    PROVE  OInv'
<1>1. UNCHANGED <<slots, inode, spare, handle, files, strays>>
  BY DEF openVars
<1>2. OpenTypeOK' /\ Used' = Used
  BY <1>1 DEF OInv, OpenTypeOK, Used
<1>3. EntriesGood'
  BY <1>1, <1>2 DEF OInv, EntriesGood
<1>4. HandlesNamed' /\ HandleTrue'
  BY <1>1, <1>2, HandlesStay
<1> QED
  BY <1>2, <1>3, <1>4 DEF OInv

LEMMA OpenNextInv ==
    ASSUME OInv, OpenNext
    PROVE  OInv'
<1>1. CASE \E n \in Names :
               \/ \E i \in Inums : \/ \E kind \in {"file", "dir"} : Create(kind, n, i)
                                   \/ CreateUndone(n, i)
               \/ \E h \in Handles : Open(h, n)
  BY <1>1, CreateStep, CreateUndoneStep, OpenStep
<1>2. CASE \E n \in Names : UnlinkOpen(n) \/ Unlink(n) \/ Rmdir(n)
  BY <1>2, UnlinkOpenStep, UnlinkStep, RmdirStep
<1>3. CASE \E a, b \in Names : Rename(a, b)
  BY <1>3, RenameStep
<1>4. CASE \E h \in Handles : Release(h) \/ \E new_blocks \in 0 .. SpareBlocks : Write(h, new_blocks)
  BY <1>4, ReleaseStep, WriteStep
<1>5. CASE Query
  BY <1>5, NothingMoves DEF Query
<1> QED
  BY <1>1, <1>2, <1>3, <1>4, <1>5 DEF OpenNext

LEMMA OpenStart == OpenInit => OInv
<1> SUFFICES ASSUME OpenInit PROVE OInv
  OBVIOUS
<1>1. OpenTypeOK
  BY OpenConstants, OpenAssumption DEF OpenInit, OpenTypeOK
<1>2. Used = {}
  BY OpenConstants DEF OpenInit, Used
<1>3. \A h \in Handles : handle[h] = Closed
  BY DEF OpenInit
<1> QED
  BY <1>1, <1>2, <1>3 DEF OInv, EntriesGood, HandlesNamed, HandleTrue

LEMMA OpenInvariant == OpenSpec => []OInv
<1>1. OpenInit => OInv
  BY OpenStart
<1>2. OInv /\ [OpenNext]_openVars => OInv'
  <2>1. ASSUME OInv, UNCHANGED openVars PROVE OInv'
    BY <2>1, NothingMoves
  <2> QED
    BY <2>1, OpenNextInv
<1> QED
  BY <1>1, <1>2, PTL DEF OpenSpec

(* read and write need no check of in_use as long as libfuse's names are   *)
(* those of the directory: the number in fi->fh is the file's that was     *)
(* opened, whatever happens to other names.                                *)
THEOREM HandlesLead == OpenSpec => []HandleTrue
<1>1. OInv => HandleTrue
  BY DEF OInv
<1> QED
  BY <1>1, OpenInvariant, PTL

-----------------------------------------------------------------------------
(* What stale handles cost                                                 *)

(* The blocks of an inode that a name may still lead to, less one for the  *)
(* file that another one's bytes were written into.  A free inode has been *)
(* no file yet, so that a write into it is a stray.                        *)
Sound(r) == IF ~r.in_use THEN 0 ELSE IF r.foreign THEN r.n_blocks - 1 ELSE r.n_blocks
Numbered(r) == /\ r.in_use <=> r.file > 0
               /\ r.foreign => r.n_blocks > 0
Sounds == [i \in Inums |-> Sound(inode[i])]

(* The inductive invariant: a block that is neither free nor sound was     *)
(* paid for by a stray write.                                              *)
DamageInv ==
    /\ \A i \in Inums : Numbered(inode[i])
    /\ \A h \in Handles : handle[h] # Closed => handle[h].file > 0
    /\ spare + strays + SumFunction(Sounds) >= SpareBlocks

LEMMA SoundNat ==
    ASSUME NEW r \in InodeRec, Numbered(r)
    PROVE  Sound(r) \in Nat /\ r.n_blocks \in Nat /\ Sound(r) <= r.n_blocks
  BY DEF InodeRec, Numbered, Sound

LEMMA InumsFinite == IsFiniteSet(Inums)
<1>0. 1 \in Int /\ NumInodes \in Int
  <2>1. NumInodes \in Nat
    BY OpenAssumption
  <2> QED
    BY <2>1
<1>1. PICK a \in Int : a = 1
  BY <1>0
<1>2. IsFiniteSet(a .. NumInodes)
  BY <1>0, FS_Interval
<1> QED
  BY <1>1, <1>2 DEF Inums

LEMMA SoundsType ==
    ASSUME OpenTypeOK, DamageInv
    PROVE  /\ Sounds \in [Inums -> Nat] /\ SumFunction(Sounds) \in Nat
           /\ IsFiniteSet(Inums)
<1>1. IsFiniteSet(Inums)
  BY InumsFinite
<1>2. \A i \in Inums : Sound(inode[i]) \in Nat
  BY Types, SoundNat DEF DamageInv
<1>3. Sounds \in [Inums -> Nat]
  BY <1>2 DEF Sounds
<1> QED
  BY <1>1, <1>3, SumNat

(* A step that changes one inode.                                          *)
LEMMA DamageMoved ==
    ASSUME OpenTypeOK, OpenTypeOK', DamageInv, NEW i \in Inums,
           \A j \in Inums : j # i => inode'[j] = inode[j],
           Numbered(inode'[i]),
           spare' + strays' + Sound(inode'[i]) >= spare + strays + Sound(inode[i]),
           \A h \in Handles : handle'[h] # Closed => handle'[h].file > 0
    PROVE  DamageInv'
<1>1. PICK f : f = Sounds
  OBVIOUS
<1>2. PICK g : g = [j \in Inums |-> Sound(inode'[j])]
  OBVIOUS
<1>3. \A j \in Inums : Numbered(inode'[j])
  BY DEF DamageInv
<1>4. f \in [Inums -> Nat] /\ IsFiniteSet(Inums) /\ SumFunction(f) \in Nat
  BY <1>1, SoundsType
<1>5. g \in [Inums -> Nat] /\ SumFunction(g) \in Nat
  <2>1. \A j \in Inums : inode'[j] \in InodeRec
    BY DEF OpenTypeOK
  <2>2. \A j \in Inums : Sound(inode'[j]) \in Nat
    BY <1>3, <2>1, SoundNat
  <2>3. g \in [Inums -> Nat]
    BY <1>2, <2>2
  <2> QED
    BY <1>4, <2>3, SumNat
<1>6. \A j \in Inums : j # i => g[j] = f[j]
  BY <1>1, <1>2 DEF Sounds
<1>7. SumFunction(g) + f[i] = SumFunction(f) + g[i]
  BY <1>4, <1>5, <1>6, SumChange
<1>8. f[i] = Sound(inode[i]) /\ g[i] = Sound(inode'[i]) /\ f[i] \in Nat /\ g[i] \in Nat
  BY <1>1, <1>2, <1>4, <1>5 DEF Sounds
<1>9. spare + strays + SumFunction(f) >= SpareBlocks
  BY <1>1 DEF DamageInv
<1>10. /\ spare \in Nat /\ strays \in Nat /\ spare' \in Nat /\ strays' \in Nat
       /\ SpareBlocks \in Nat
  BY OpenAssumption DEF OpenTypeOK
<1>11. spare' + strays' + SumFunction(g) >= SpareBlocks
  BY <1>4, <1>5, <1>7, <1>8, <1>9, <1>10
<1>12. Sounds' = g
  BY <1>2 DEF Sounds
<1> QED
  BY <1>3, <1>11, <1>12 DEF DamageInv

(* A step that changes none.                                               *)
LEMMA DamageSame ==
    ASSUME DamageInv, UNCHANGED <<inode, spare, strays>>,
           \A h \in Handles : handle'[h] # Closed => handle'[h].file > 0
    PROVE  DamageInv'
<1>1. Sounds' = Sounds
  BY DEF Sounds
<1> QED
  BY <1>1 DEF DamageInv

LEMMA DamageCreate ==
    ASSUME OInv, OInv', DamageInv, NEW n \in Names, NEW i \in Inums,
           NEW kind \in {"file", "dir"}, Create(kind, n, i)
    PROVE  DamageInv'
<1>1. PICK first \in Nat : first = IF kind = "dir" THEN 1 ELSE 0
  OBVIOUS
<1>2. /\ ~inode[i].in_use /\ spare >= first /\ files' = files + 1
      /\ inode' = [inode EXCEPT ![i] =
                      [in_use |-> TRUE, type |-> kind, n_blocks |-> first,
                       file |-> files', foreign |-> FALSE]]
      /\ spare' = spare - first /\ UNCHANGED <<handle, strays>>
  BY <1>1 DEF Create
<1>3. OpenTypeOK /\ OpenTypeOK'
  BY DEF OInv
<1>4. inode'[i] = [in_use |-> TRUE, type |-> kind, n_blocks |-> first,
                   file |-> files', foreign |-> FALSE]
      /\ \A j \in Inums : j # i => inode'[j] = inode[j]
  BY <1>2, <1>3 DEF OpenTypeOK
<1>5. files' > 0 /\ spare \in Nat /\ strays \in Nat
  BY <1>2, <1>3 DEF OpenTypeOK
<1>6. Numbered(inode'[i]) /\ Sound(inode'[i]) = first /\ Sound(inode[i]) = 0
  BY <1>2, <1>4, <1>5 DEF Numbered, Sound
<1>7. spare' + strays' + Sound(inode'[i]) >= spare + strays + Sound(inode[i])
  BY <1>2, <1>5, <1>6
<1>8. \A h \in Handles : handle'[h] # Closed => handle'[h].file > 0
  BY <1>2 DEF DamageInv
<1> QED
  BY <1>3, <1>4, <1>6, <1>7, <1>8, DamageMoved

LEMMA FreeIsSound == Numbered(FreeInode) /\ Sound(FreeInode) = 0
  BY DEF FreeInode, Numbered, Sound

LEMMA DamageCreateUndone ==
    ASSUME OInv, OInv', DamageInv, NEW n \in Names, NEW i \in Inums, CreateUndone(n, i)
    PROVE  DamageInv'
<1>1. /\ ~inode[i].in_use /\ inode' = [inode EXCEPT ![i] = FreeInode]
      /\ UNCHANGED <<spare, handle, strays>>
  BY DEF CreateUndone
<1>2. OpenTypeOK /\ OpenTypeOK'
  BY DEF OInv
<1>3. inode'[i] = FreeInode /\ \A j \in Inums : j # i => inode'[j] = inode[j]
  BY <1>1, <1>2 DEF OpenTypeOK
<1>4. Sound(inode[i]) = 0
  BY <1>1 DEF Sound
<1>5. Numbered(inode'[i]) /\ Sound(inode'[i]) = 0
  BY <1>3, FreeIsSound
<1>6. spare' + strays' + Sound(inode'[i]) >= spare + strays + Sound(inode[i])
  BY <1>1, <1>2, <1>4, <1>5 DEF OpenTypeOK
<1>7. \A h \in Handles : handle'[h] # Closed => handle'[h].file > 0
  BY <1>1 DEF DamageInv
<1> QED
  BY <1>2, <1>3, <1>5, <1>6, <1>7, DamageMoved

LEMMA DamageOpen ==
    ASSUME OInv, DamageInv, NEW h \in Handles, NEW n \in Names, Open(h, n)
    PROVE  DamageInv'
<1>1. /\ Lookup(n) # Missing
      /\ handle' = [handle EXCEPT ![h] = [fh |-> Lookup(n), name |-> n,
                                          file |-> inode[Lookup(n)].file, moved |-> FALSE]]
      /\ UNCHANGED <<inode, spare, strays>>
  BY DEF Open
<1>2. Lookup(n) \in Inums /\ inode[Lookup(n)].in_use
  <2>1. /\ Lowest(Found(n)) \in Used
        /\ slots[Lowest(Found(n))] = [name |-> n, inum |-> Lookup(n)]
    BY <1>1, LookupFinds DEF OInv
  <2> QED
    BY <2>1 DEF OInv, EntriesGood
<1>3. inode[Lookup(n)].file > 0
  BY <1>2 DEF DamageInv, Numbered
<1>4. \A g \in Handles : handle'[g].file = IF g = h THEN inode[Lookup(n)].file ELSE handle[g].file
  BY <1>1 DEF OInv, OpenTypeOK
<1>5. \A g \in Handles : g # h => handle'[g] = handle[g]
  BY <1>1 DEF OInv, OpenTypeOK
<1>6. \A g \in Handles : handle'[g] # Closed => handle'[g].file > 0
  BY <1>3, <1>4, <1>5 DEF DamageInv
<1> QED
  BY <1>1, <1>6, DamageSame

(* A write into a free inode misses its file, whoever's it is.             *)
LEMMA DamageWrite ==
    ASSUME OInv, OInv', DamageInv, NEW h \in Handles, NEW new_blocks \in 0 .. SpareBlocks,
           Write(h, new_blocks)
    PROVE  DamageInv'
<1>1. PICK i : i = handle[h].fh
  OBVIOUS
<1>2. PICK r : r = inode[i]
  OBVIOUS
<1>3. /\ handle[h] # Closed
      /\ spare >= new_blocks /\ r.n_blocks + new_blocks > 0
      /\ inode' = [inode EXCEPT ![i].n_blocks = @ + new_blocks,
                                ![i].foreign = @ \/ Stray(h)]
      /\ spare' = spare - new_blocks
      /\ strays' = (IF Stray(h) THEN strays + Cost(new_blocks) ELSE strays)
      /\ handle' = handle
  BY <1>1, <1>2 DEF Write
<1>4. OpenTypeOK /\ OpenTypeOK'
  BY DEF OInv
<1>5. i \in Inums
  BY <1>1, <1>3 DEF OInv, HandlesNamed
<1>6. r \in InodeRec /\ r.n_blocks \in Nat /\ Numbered(r) /\ handle[h].file > 0
  BY <1>2, <1>3, <1>4, <1>5, Types DEF DamageInv
<1>7. PICK s : s = inode'[i]
  OBVIOUS
<1>8. /\ s.in_use = r.in_use /\ s.file = r.file /\ s.n_blocks = r.n_blocks + new_blocks
      /\ s.foreign <=> r.foreign \/ Stray(h)
      /\ \A j \in Inums : j # i => inode'[j] = inode[j]
  <2>1. s = [r EXCEPT !.n_blocks = @ + new_blocks, !.foreign = @ \/ Stray(h)]
    BY <1>2, <1>3, <1>4, <1>5, <1>7 DEF OpenTypeOK
  <2>2. \A j \in Inums : j # i => inode'[j] = inode[j]
    BY <1>3, <1>4, <1>5 DEF OpenTypeOK
  <2>3. /\ s.in_use = r.in_use /\ s.file = r.file /\ s.n_blocks = r.n_blocks + new_blocks
        /\ s.foreign <=> r.foreign \/ Stray(h)
    BY <1>6, <2>1 DEF InodeRec
  <2> QED
    BY <2>2, <2>3
<1>9. Stray(h) <=> r.file # handle[h].file
  BY <1>1, <1>2 DEF Stray
<1>10. ~r.in_use => Stray(h)
  BY <1>6, <1>9 DEF Numbered, InodeRec
<1>11. Numbered(s)
  BY <1>3, <1>6, <1>8 DEF Numbered
<1>12. spare' + strays' + Sound(s) >= spare + strays + Sound(r)
  <2>1. /\ spare \in Nat /\ strays \in Nat
        /\ new_blocks \in Nat /\ Cost(new_blocks) \in Nat
        /\ Cost(new_blocks) >= 1 /\ Cost(new_blocks) >= new_blocks
    BY <1>4, CostIs DEF OpenTypeOK
  <2>2. CASE ~r.in_use
    BY <1>3, <1>8, <1>10, <2>1, <2>2 DEF Sound
  <2>3. CASE r.in_use /\ Stray(h)
    BY <1>3, <1>6, <1>8, <2>1, <2>3 DEF Sound
  <2>4. CASE r.in_use /\ ~Stray(h)
    BY <1>3, <1>6, <1>8, <2>1, <2>4 DEF Sound
  <2> QED
    BY <2>2, <2>3, <2>4
<1>13. \A g \in Handles : handle'[g] # Closed => handle'[g].file > 0
  BY <1>3 DEF DamageInv
<1> QED
  BY <1>2, <1>4, <1>5, <1>7, <1>8, <1>11, <1>12, <1>13, DamageMoved

LEMMA DamageUnlink ==
    ASSUME OInv, OInv', DamageInv, NEW n \in Names, Unlink(n)
    PROVE  DamageInv'
<1>1. PICK i : i = Lookup(n)
  OBVIOUS
<1>2. /\ i # Missing /\ inode' = [inode EXCEPT ![i] = FreeInode]
      /\ spare' = spare + inode[i].n_blocks /\ UNCHANGED <<handle, strays>>
  BY <1>1 DEF Unlink
<1>3. i \in Inums
  <2>1. /\ Lowest(Found(n)) \in Used
        /\ slots[Lowest(Found(n))] = [name |-> n, inum |-> i]
    BY <1>1, <1>2, LookupFinds DEF OInv
  <2> QED
    BY <2>1 DEF OInv, EntriesGood
<1>4. OpenTypeOK /\ OpenTypeOK'
  BY DEF OInv
<1>5. inode'[i] = FreeInode /\ \A j \in Inums : j # i => inode'[j] = inode[j]
  BY <1>2, <1>3, <1>4 DEF OpenTypeOK
<1>6. Numbered(inode'[i]) /\ Sound(inode'[i]) = 0
  BY <1>5, FreeIsSound
<1>7. Sound(inode[i]) <= inode[i].n_blocks /\ Sound(inode[i]) \in Nat /\ inode[i].n_blocks \in Nat
  BY <1>3, <1>4, Types, SoundNat DEF DamageInv
<1>8. spare' + strays' + Sound(inode'[i]) >= spare + strays + Sound(inode[i])
  BY <1>2, <1>4, <1>6, <1>7 DEF OpenTypeOK
<1>9. \A h \in Handles : handle'[h] # Closed => handle'[h].file > 0
  BY <1>2 DEF DamageInv
<1> QED
  BY <1>3, <1>4, <1>5, <1>6, <1>8, <1>9, DamageMoved

(* libfuse gives nodes other names: handles stay on their files.           *)
LEMMA RenamedFile ==
    ASSUME OInv, DamageInv, NEW h \in Handles, NEW to, NEW g,
           g = [handle[h] EXCEPT !.name = to, !.moved = TRUE], handle[h].name \in Names
    PROVE  g.file > 0
<1>1. handle[h] \in HandleRec /\ handle[h] # Closed
  BY Types, OpenConstants DEF OInv
<1>2. g.file = handle[h].file
  BY <1>1 DEF HandleRec
<1> QED
  BY <1>1, <1>2 DEF DamageInv

LEMMA DamageUnlinkOpen ==
    ASSUME OInv, DamageInv, NEW n \in Names, UnlinkOpen(n)
    PROVE  DamageInv'
<1>1. handle' = Renamed(n, Hidden) /\ UNCHANGED <<inode, spare, strays>>
  BY DEF UnlinkOpen
<1>2. \A h \in Handles : handle'[h] = IF handle[h].name = n
                                      THEN [handle[h] EXCEPT !.name = Hidden, !.moved = TRUE]
                                      ELSE handle[h]
  BY <1>1 DEF Renamed
<1>3. \A h \in Handles : handle'[h] # Closed => handle'[h].file > 0
  BY <1>2, RenamedFile DEF DamageInv
<1> QED
  BY <1>1, <1>3, DamageSame

LEMMA DamageRename ==
    ASSUME OInv, DamageInv, NEW a \in Names, NEW b \in Names, Rename(a, b)
    PROVE  DamageInv'
<1>1. /\ handle' = [h \in Handles |-> IF handle[h].name = a
                                      THEN Renamed(a, b)[h] ELSE Renamed(b, Hidden)[h]]
      /\ UNCHANGED <<inode, spare, strays>>
  BY DEF Rename
<1>2. \A h \in Handles :
          handle'[h] = IF handle[h].name = a
                       THEN [handle[h] EXCEPT !.name = b, !.moved = TRUE]
                       ELSE IF handle[h].name = b
                       THEN [handle[h] EXCEPT !.name = Hidden, !.moved = TRUE]
                       ELSE handle[h]
  BY <1>1 DEF Renamed
<1>3. \A h \in Handles : handle'[h] # Closed => handle'[h].file > 0
  BY <1>2, RenamedFile DEF DamageInv
<1> QED
  BY <1>1, <1>3, DamageSame

LEMMA DamageRelease ==
    ASSUME OInv, DamageInv, NEW h \in Handles, Release(h)
    PROVE  DamageInv'
<1>1. handle' = [handle EXCEPT ![h] = Closed] /\ UNCHANGED <<inode, spare, strays>>
  BY DEF Release
<1>2. \A g \in Handles : handle'[g] # Closed => handle'[g] = handle[g]
  BY <1>1 DEF OInv, OpenTypeOK
<1> QED
  BY <1>1, <1>2, DamageSame DEF DamageInv

LEMMA DamageStutter ==
    ASSUME DamageInv, UNCHANGED <<inode, spare, handle, strays>>
    PROVE  DamageInv'
  BY DamageSame DEF DamageInv

LEMMA DamageStep ==
    ASSUME OInv, OInv', DamageInv, [OpenNext]_openVars
    PROVE  DamageInv'
<1>1. CASE \E n \in Names :
               \/ \E i \in Inums : \/ \E kind \in {"file", "dir"} : Create(kind, n, i)
                                   \/ CreateUndone(n, i)
               \/ \E h \in Handles : Open(h, n)
  BY <1>1, DamageCreate, DamageCreateUndone, DamageOpen
<1>2. CASE \E n \in Names : UnlinkOpen(n) \/ Unlink(n)
  BY <1>2, DamageUnlinkOpen, DamageUnlink
<1>3. CASE \E n \in Names : Rmdir(n)
  BY <1>3, DamageStutter DEF Rmdir
<1>4. CASE \E a, b \in Names : Rename(a, b)
  BY <1>4, DamageRename
<1>5. CASE \E h \in Handles : Release(h) \/ \E new_blocks \in 0 .. SpareBlocks : Write(h, new_blocks)
  BY <1>5, DamageRelease, DamageWrite
<1>6. CASE Query \/ UNCHANGED openVars
  BY <1>6, DamageStutter DEF Query, openVars
<1> QED
  BY <1>1, <1>2, <1>3, <1>4, <1>5, <1>6 DEF OpenNext

LEMMA DamageInit == OpenInit => DamageInv
<1> SUFFICES ASSUME OpenInit PROVE DamageInv
  OBVIOUS
<1>1. \A i \in Inums : inode[i] = FreeInode
  BY DEF OpenInit
<1>2. \A h \in Handles : handle[h] = Closed
  BY DEF OpenInit
<1>3. \A i \in Inums : Numbered(inode[i]) /\ Sound(inode[i]) = 0
  BY <1>1, FreeIsSound
<1>4. SumFunction(Sounds) \in Nat
  <2>1. Sounds \in [Inums -> Nat]
    BY <1>3 DEF Sounds
  <2>2. IsFiniteSet(Inums)
    BY InumsFinite
  <2> QED
    BY <2>1, <2>2, SumNat
<1>5. spare = SpareBlocks /\ strays = 0 /\ SpareBlocks \in Nat
  BY OpenAssumption DEF OpenInit
<1>6. spare + strays + SumFunction(Sounds) >= SpareBlocks
  BY <1>4, <1>5
<1> QED
  BY <1>2, <1>3, <1>6 DEF DamageInv

(* What is lost through handles that went stale is bounded by the writes   *)
(* through them: the blocks that each took, or one file's contents.  This  *)
(* is property StrayDamage.                                                *)
THEOREM DamageBounded == OpenSpec => []StrayDamage
<1>1. ASSUME OInv, DamageInv PROVE StrayDamage
  <2>1. PICK f : f = [i \in Inums |-> inode[i].n_blocks]
    OBVIOUS
  <2>2. f \in [Inums -> Nat]
    BY <1>1, <2>1, Types DEF OInv
  <2>3. Sounds \in [Inums -> Nat] /\ SumFunction(Sounds) \in Nat /\ IsFiniteSet(Inums)
    BY <1>1, SoundsType DEF OInv
  <2>4. ASSUME NEW i \in Inums
        PROVE  f[i] >= Sounds[i] /\ (i \in Spoilt => f[i] >= Sounds[i] + 1)
    <3>1. inode[i] \in InodeRec /\ Numbered(inode[i])
      BY <1>1, Types DEF OInv, DamageInv
    <3>2. f[i] = inode[i].n_blocks /\ Sounds[i] = Sound(inode[i]) /\ f[i] \in Nat
      BY <2>1, <2>2 DEF Sounds
    <3>3. Sound(inode[i]) <= inode[i].n_blocks
      BY <3>1, SoundNat
    <3>4. i \in Spoilt => Sound(inode[i]) = inode[i].n_blocks - 1
      BY DEF Spoilt, Sound
    <3> QED
      BY <2>3, <3>2, <3>3, <3>4
  <2>5. Spoilt \in SUBSET Inums
    BY DEF Spoilt
  <2>6. SumFunction(f) >= SumFunction(Sounds) + Cardinality(Spoilt)
    BY <2>2, <2>3, <2>4, <2>5, SumAbove
  <2>7. SumFunction(f) \in Nat /\ Cardinality(Spoilt) \in Nat
    BY <2>2, <2>3, <2>5, SumNat, FS_Subset, FS_CardinalityType
  <2>8. spare + strays + SumFunction(Sounds) >= SpareBlocks
    BY <1>1 DEF DamageInv
  <2>9. spare \in Nat /\ strays \in Nat /\ SpareBlocks \in Nat
    BY <1>1, OpenAssumption DEF OInv, OpenTypeOK
  <2>10. Lost = SpareBlocks - spare - SumFunction(f)
    BY <2>1 DEF Lost
  <2> QED
    BY <2>3, <2>6, <2>7, <2>8, <2>9, <2>10 DEF StrayDamage
<1>2. OpenInit => OInv /\ DamageInv
  BY DamageInit, OpenStart
<1>3. OInv /\ OInv' /\ DamageInv /\ [OpenNext]_openVars => DamageInv'
  BY DamageStep
<1>4. OpenSpec => []DamageInv
  BY <1>2, <1>3, OpenInvariant, PTL DEF OpenSpec
<1> QED
  BY <1>1, <1>4, OpenInvariant, PTL
=============================================================================
