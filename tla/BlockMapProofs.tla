--------------------------- MODULE BlockMapProofs ---------------------------
(***************************************************************************)
(* Proofs about BlockMap, for every number of inodes and blocks, every     *)
(* layout of an inode: the blocks of two files are never the same, nor     *)
(* those of a file and of the free list, crashes or not; until the first   *)
(* crash nothing is stored past the end of an array, no block is lost, and *)
(* an allocation that fails undoes what it did.                            *)
(*                                                                         *)
(* The argument: each block in use has at most one place, a file, a level, *)
(* the block that names it and a slot there (`at').  Whatever is on disk   *)
(* or in the arrays of a running allocation names blocks in their places   *)
(* only (Placed); a block is given a place when it is popped, and loses it *)
(* before it is given back.  What a release visits lies below the pointers *)
(* of one inode, each block once (ReleasedOwn).                            *)
(*   Until a crash n_blocks is the number of data blocks under each array  *)
(* that an allocation goes through (Sized): arrays fill from the left, and *)
(* all entries but the last are full, so that my_blocks, which the code    *)
(* takes modulo the span of a level, says whether the last one is.         *)
(* The pool as it was is the pool now and the new arrays in core           *)
(* (Undoable).  And every place is named, on disk or in what an allocation *)
(* has yet to write (Tight).                                               *)
(***************************************************************************)
EXTENDS BlockMap, FiniteSetTheorems, SequenceTheorems, WellFoundedInduction, TLAPS

-----------------------------------------------------------------------------
(* Folds                                                                   *)
LEMMA LeastNat ==
    ASSUME NEW S, S \subseteq Nat, S # {}
    PROVE  \E m \in S : \A k \in S : m <= k
<1>1. PICK m \in S : \A k \in S : <<k, m>> \notin OpToRel(<, Nat)
  BY WFMin, NatLessThanWellFounded, Zenon
<1>2. \A k \in S : ~(k < m)
  BY <1>1, Zenon DEF OpToRel
<1> QED
  BY <1>2

(* What holds of 0, and of each number whose predecessor it holds of, holds *)
(* up to n.                                                                *)
LEMMA UpTo ==
    ASSUME NEW n \in Nat, NEW P, 0 \in P, \A k \in 1 .. n : k - 1 \in P => k \in P
    PROVE  0 .. n \subseteq P
<1> DEFINE Bad == {k \in 0 .. n : k \notin P}
<1>1. ASSUME Bad # {} PROVE FALSE
  <2>1. PICK m \in Bad : \A k \in Bad : m <= k
    <3>1. Bad \subseteq Nat
      OBVIOUS
    <3> HIDE DEF Bad
    <3> QED
      BY <1>1, <3>1, LeastNat
  <2>2. m \in 1 .. n /\ m - 1 \in 0 .. n /\ m - 1 \notin Bad
    BY <2>1
  <2> QED
    BY <2>1, <2>2
<1> QED
  BY <1>1

LEMMA MaxIs ==
    ASSUME NEW n \in Nat, NEW t \in SUBSET (1 .. n), n \in t
    PROVE  Max(t) = n
<1>1. \E x \in t : \A y \in t : x >= y
  OBVIOUS
<1>2. Max(t) \in t /\ \A y \in t : Max(t) >= y
  BY <1>1 DEF Max
<1>3. Max(t) \in 1 .. n /\ Max(t) >= n
  BY <1>2
<1> QED
  BY <1>3

LEMMA MaxIn ==
    ASSUME NEW n \in Nat, NEW t \in SUBSET (1 .. n), t # {}
    PROVE  Max(t) \in 1 .. n
<1> DEFINE D == {d \in Nat : n - d \in t}
<1>1. D # {}
  <2>1. PICK x \in t : TRUE
    OBVIOUS
  <2>2. x \in 1 .. n /\ n - x \in Nat /\ n - (n - x) = x
    OBVIOUS
  <2> QED
    BY <2>1, <2>2
<1>2. PICK d \in D : \A e \in D : d <= e
  <2> HIDE DEF D
  <2>1. D \subseteq Nat
    BY DEF D
  <2> QED
    BY <1>1, <2>1, LeastNat
<1>3. ASSUME NEW y \in t PROVE n - d >= y
  <2>1. y \in 1 .. n /\ n - y \in Nat /\ n - (n - y) = y
    OBVIOUS
  <2>2. d <= n - y
    BY <1>2, <2>1
  <2> QED
    BY <1>2, <2>1, <2>2
<1>4. Max(t) \in t
  BY <1>2, <1>3 DEF Max
<1> QED
  BY <1>4

FoldBy(g, n, base, step) ==
    g = [t \in SUBSET (1 .. n) |-> IF t = {} THEN base ELSE step[<<g[t \ {Max(t)}], Max(t)>>]]

LEMMA FoldExists ==
    ASSUME NEW n \in Nat, NEW S, NEW base \in S, NEW step \in [S \X (1 .. n) -> S]
    PROVE  \E g \in [SUBSET (1 .. n) -> S] : FoldBy(g, n, base, step)
<1> DEFINE Good == {m \in 0 .. n : \E g \in [SUBSET (1 .. m) -> S] : FoldBy(g, m, base, step)}
<1>1. 0 \in Good
  <2> DEFINE g == [t \in SUBSET (1 .. 0) |-> base]
  <2>1. g \in [SUBSET (1 .. 0) -> S]
    OBVIOUS
  <2>2. \A t \in SUBSET (1 .. 0) : t = {}
    OBVIOUS
  <2>3. FoldBy(g, 0, base, step)
    BY <2>2 DEF FoldBy
  <2> QED
    BY <2>1, <2>3
<1>2. ASSUME NEW m \in 1 .. n, m - 1 \in Good PROVE m \in Good
  <2>1. PICK g \in [SUBSET (1 .. (m - 1)) -> S] : FoldBy(g, m - 1, base, step)
    BY <1>2
  <2> DEFINE h == [t \in SUBSET (1 .. m) |-> IF m \in t THEN step[<<g[t \ {m}], m>>] ELSE g[t]]
  <2>2. \A t \in SUBSET (1 .. m) : t \ {m} \in SUBSET (1 .. (m - 1))
    OBVIOUS
  <2>3. \A t \in SUBSET (1 .. m) : m \notin t => t \in SUBSET (1 .. (m - 1))
    OBVIOUS
  <2>4. h \in [SUBSET (1 .. m) -> S]
    <3> SUFFICES ASSUME NEW t \in SUBSET (1 .. m) PROVE h[t] \in S
      OBVIOUS
    <3>1. CASE m \in t
      <4>1. g[t \ {m}] \in S /\ m \in 1 .. n
        BY <2>2
      <4> QED
        BY <3>1, <4>1
    <3>2. CASE m \notin t
      BY <3>2, <2>3
    <3> QED
      BY <3>1, <3>2
  <2>5. ASSUME NEW t \in SUBSET (1 .. m)
        PROVE  h[t] = IF t = {} THEN base ELSE step[<<h[t \ {Max(t)}], Max(t)>>]
    <3>1. CASE m \in t
      <4>1. Max(t) = m
        BY <3>1, MaxIs
      <4>2. t \ {m} \in SUBSET (1 .. m) /\ m \notin t \ {m}
        OBVIOUS
      <4>3. h[t \ {m}] = g[t \ {m}]
        BY <4>2
      <4> QED
        BY <3>1, <4>1, <4>3
    <3>2. CASE m \notin t
      <4>1. t \in SUBSET (1 .. (m - 1)) /\ h[t] = g[t]
        BY <3>2, <2>3
      <4>2. g[t] = IF t = {} THEN base ELSE step[<<g[t \ {Max(t)}], Max(t)>>]
        BY <2>1, <4>1 DEF FoldBy
      <4>3. h[t \ {Max(t)}] = g[t \ {Max(t)}]
        <5>1. t \ {Max(t)} \in SUBSET (1 .. m) /\ m \notin t \ {Max(t)}
          BY <3>2
        <5> QED
          BY <5>1
      <4> HIDE DEF h
      <4> QED
        BY <4>1, <4>2, <4>3
    <3> QED
      BY <3>1, <3>2
  <2>6. FoldBy(h, m, base, step)
    <3> HIDE DEF h
    <3>1. h = [t \in SUBSET (1 .. m) |-> h[t]]
      BY <2>4
    <3> QED
      BY <2>5, <3>1 DEF FoldBy
  <2> QED
    <3> HIDE DEF h
    <3> QED
      BY <2>4, <2>6
<1>3. n \in Good
  <2> HIDE DEF Good
  <2> QED
    BY <1>1, <1>2, UpTo
<1> QED
  BY <1>3

(* release_datablocks at a block of level m, and at the blocks of an array. *)
Walk(m, start, acc, b) ==
    CASE m = 0 -> ReleaseData(start, acc, b) [] m = 1 -> Release1(start, acc, b)
      [] m = 2 -> Release2(start, acc, b)    [] m = 3 -> Release3(start, acc, b)
WalkAll(m, start, acc, s) ==
    CASE m = 0 -> FoldLeft(LAMBDA a, c : ReleaseData(start, a, c), acc, s)
      [] m = 1 -> FoldLeft(LAMBDA a, c : Release1(start, a, c), acc, s)
      [] m = 2 -> FoldLeft(LAMBDA a, c : Release2(start, a, c), acc, s)

LEMMA WalkIs ==
    ASSUME NEW start, NEW acc, NEW b
    PROVE  /\ Walk(0, start, acc, b) = ReleaseData(start, acc, b)
           /\ \A m \in 0 .. 2 : Walk(m + 1, start, acc, b) =
                  ReleaseNode(start, acc, WalkAll(m, start, acc, Entries(ReadArray(b))), b)
<1>1. Walk(0, start, acc, b) = ReleaseData(start, acc, b)
  BY DEF Walk
<1>2. Walk(1, start, acc, b) = ReleaseNode(start, acc, WalkAll(0, start, acc, Entries(ReadArray(b))), b)
  <2>1. Walk(1, start, acc, b) = Release1(start, acc, b)
    BY DEF Walk
  <2>2. WalkAll(0, start, acc, Entries(ReadArray(b)))
            = FoldLeft(LAMBDA a, c : ReleaseData(start, a, c), acc, Entries(ReadArray(b)))
    BY DEF WalkAll
  <2> QED
    BY <2>1, <2>2, Zenon DEF Release1
<1>3. Walk(2, start, acc, b) = ReleaseNode(start, acc, WalkAll(1, start, acc, Entries(ReadArray(b))), b)
  <2>1. Walk(2, start, acc, b) = Release2(start, acc, b)
    BY DEF Walk
  <2>2. WalkAll(1, start, acc, Entries(ReadArray(b)))
            = FoldLeft(LAMBDA a, c : Release1(start, a, c), acc, Entries(ReadArray(b)))
    BY DEF WalkAll
  <2> QED
    BY <2>1, <2>2, Zenon DEF Release2
<1>4. Walk(3, start, acc, b) = ReleaseNode(start, acc, WalkAll(2, start, acc, Entries(ReadArray(b))), b)
  <2>1. Walk(3, start, acc, b) = Release3(start, acc, b)
    BY DEF Walk
  <2>2. WalkAll(2, start, acc, Entries(ReadArray(b)))
            = FoldLeft(LAMBDA a, c : Release2(start, a, c), acc, Entries(ReadArray(b)))
    BY DEF WalkAll
  <2> QED
    BY <2>1, <2>2, Zenon DEF Release3
<1>5. ASSUME NEW m \in 0 .. 2 PROVE m = 0 \/ m = 1 \/ m = 2
  OBVIOUS
<1> QED
  BY <1>1, <1>2, <1>3, <1>4, <1>5

(* What the fold of Walk is: some function of the sets of slots.           *)
Fits(m, start, acc, s, g) ==
    g = [t \in SUBSET DOMAIN s |-> IF t = {} THEN acc
             ELSE Walk(m, start, g[t \ {Max(t)}], s[Max(t)])]

LEMMA WalkAllIs ==
    ASSUME NEW m \in 0 .. 2, NEW start, NEW acc, NEW s, \E g : Fits(m, start, acc, s, g)
    PROVE  \E g : Fits(m, start, acc, s, g) /\ WalkAll(m, start, acc, s) = g[DOMAIN s]
<1>1. CASE m = 0
  <2> DEFINE P(g) == g = [t \in SUBSET DOMAIN s |-> IF t = {} THEN acc
                              ELSE ReleaseData(start, g[t \ {Max(t)}], s[Max(t)])]
             got == CHOOSE g : P(g)
  <2>1. WalkAll(m, start, acc, s) = FoldLeft(LAMBDA a, c : ReleaseData(start, a, c), acc, s)
    BY <1>1 DEF WalkAll
  <2>2. FoldLeft(LAMBDA a, c : ReleaseData(start, a, c), acc, s) = got[DOMAIN s]
    BY DEF FoldLeft, MapThenFoldSet
  <2>3. \A a, c : Walk(m, start, a, c) = ReleaseData(start, a, c)
    BY <1>1 DEF Walk
  <2>4. ASSUME NEW g PROVE P(g) <=> Fits(m, start, acc, s, g)
    <3>1. [t \in SUBSET DOMAIN s |-> IF t = {} THEN acc
                 ELSE ReleaseData(start, g[t \ {Max(t)}], s[Max(t)])]
          = [t \in SUBSET DOMAIN s |-> IF t = {} THEN acc
                 ELSE Walk(m, start, g[t \ {Max(t)}], s[Max(t)])]
      BY <2>3
    <3> QED
      BY <3>1 DEF Fits
  <2>5. P(got)
    <3>1. \E g : P(g)
      BY <2>4
    <3> HIDE DEF P
    <3> QED
      BY <3>1
  <2> HIDE DEF got, P
  <2> QED
    BY <2>1, <2>2, <2>4, <2>5
<1>2. CASE m = 1
  <2> DEFINE P(g) == g = [t \in SUBSET DOMAIN s |-> IF t = {} THEN acc
                              ELSE Release1(start, g[t \ {Max(t)}], s[Max(t)])]
             got == CHOOSE g : P(g)
  <2>1. WalkAll(m, start, acc, s) = FoldLeft(LAMBDA a, c : Release1(start, a, c), acc, s)
    BY <1>2 DEF WalkAll
  <2>2. FoldLeft(LAMBDA a, c : Release1(start, a, c), acc, s) = got[DOMAIN s]
    BY DEF FoldLeft, MapThenFoldSet
  <2>3. \A a, c : Walk(m, start, a, c) = Release1(start, a, c)
    BY <1>2 DEF Walk
  <2>4. ASSUME NEW g PROVE P(g) <=> Fits(m, start, acc, s, g)
    <3>1. [t \in SUBSET DOMAIN s |-> IF t = {} THEN acc
                 ELSE Release1(start, g[t \ {Max(t)}], s[Max(t)])]
          = [t \in SUBSET DOMAIN s |-> IF t = {} THEN acc
                 ELSE Walk(m, start, g[t \ {Max(t)}], s[Max(t)])]
      BY <2>3
    <3> QED
      BY <3>1 DEF Fits
  <2>5. P(got)
    <3>1. \E g : P(g)
      BY <2>4
    <3> HIDE DEF P
    <3> QED
      BY <3>1
  <2> HIDE DEF got, P
  <2> QED
    BY <2>1, <2>2, <2>4, <2>5
<1>3. CASE m = 2
  <2> DEFINE P(g) == g = [t \in SUBSET DOMAIN s |-> IF t = {} THEN acc
                              ELSE Release2(start, g[t \ {Max(t)}], s[Max(t)])]
             got == CHOOSE g : P(g)
  <2>1. WalkAll(m, start, acc, s) = FoldLeft(LAMBDA a, c : Release2(start, a, c), acc, s)
    BY <1>3 DEF WalkAll
  <2>2. FoldLeft(LAMBDA a, c : Release2(start, a, c), acc, s) = got[DOMAIN s]
    BY DEF FoldLeft, MapThenFoldSet
  <2>3. \A a, c : Walk(m, start, a, c) = Release2(start, a, c)
    BY <1>3 DEF Walk
  <2>4. ASSUME NEW g PROVE P(g) <=> Fits(m, start, acc, s, g)
    <3>1. [t \in SUBSET DOMAIN s |-> IF t = {} THEN acc
                 ELSE Release2(start, g[t \ {Max(t)}], s[Max(t)])]
          = [t \in SUBSET DOMAIN s |-> IF t = {} THEN acc
                 ELSE Walk(m, start, g[t \ {Max(t)}], s[Max(t)])]
      BY <2>3
    <3> QED
      BY <3>1 DEF Fits
  <2>5. P(got)
    <3>1. \E g : P(g)
      BY <2>4
    <3> HIDE DEF P
    <3> QED
      BY <3>1
  <2> HIDE DEF got, P
  <2> QED
    BY <2>1, <2>2, <2>4, <2>5
<1> QED
  BY <1>1, <1>2, <1>3

-----------------------------------------------------------------------------
(* Walks over the blocks                                                   *)
Acc == Nat \X Seq(Blocks)

WalkTyped(m, start) == \A a \in Acc, b \in Blocks : Walk(m, start, a, b) \in Acc

LEMMA WalkAllRuns ==
    ASSUME NEW m \in 0 .. 2, NEW start, NEW acc \in Acc, NEW s \in Seq(Blocks),
           WalkTyped(m, start)
    PROVE  \E h \in [0 .. Len(s) -> Acc] :
               /\ h[0] = acc /\ h[Len(s)] = WalkAll(m, start, acc, s)
               /\ \A k \in 1 .. Len(s) : h[k] = Walk(m, start, h[k - 1], s[k])
<1> DEFINE n == Len(s)
           step == [p \in Acc \X (1 .. n) |-> Walk(m, start, p[1], s[p[2]])]
<1>0. \A a \in Acc, b \in Blocks : Walk(m, start, a, b) \in Acc
  BY DEF WalkTyped
<1>1. n \in Nat /\ DOMAIN s = 1 .. n /\ \A k \in 1 .. n : s[k] \in Blocks
  OBVIOUS
<1>2. step \in [Acc \X (1 .. n) -> Acc]
  BY <1>0, <1>1
<1>3. \E g : Fits(m, start, acc, s, g)
  <2>1. PICK g \in [SUBSET (1 .. n) -> Acc] : FoldBy(g, n, acc, step)
    <3> HIDE DEF step, n
    <3> QED
      BY <1>1, <1>2, FoldExists
  <2>2. ASSUME NEW t \in SUBSET (1 .. n), t # {}
        PROVE  step[<<g[t \ {Max(t)}], Max(t)>>] = Walk(m, start, g[t \ {Max(t)}], s[Max(t)])
    <3>1. Max(t) \in 1 .. n
      BY <1>1, <2>2, MaxIn
    <3>2. g[t \ {Max(t)}] \in Acc
      OBVIOUS
    <3> QED
      BY <3>1, <3>2
  <2>3. Fits(m, start, acc, s, g)
    <3> HIDE DEF step, n
    <3>1. g = [t \in SUBSET (1 .. n) |-> IF t = {} THEN acc
                                ELSE step[<<g[t \ {Max(t)}], Max(t)>>]]
      BY <2>1 DEF FoldBy
    <3> QED
      BY <1>1, <2>2, <3>1 DEF Fits
  <2> QED
    BY <2>3
<1>4. PICK got : Fits(m, start, acc, s, got) /\ WalkAll(m, start, acc, s) = got[DOMAIN s]
  BY <1>3, WalkAllIs
<1> DEFINE h == [k \in 0 .. n |-> got[1 .. k]]
<1>5. h[0] = acc
  <2>1. 1 .. 0 = {} /\ {} \in SUBSET DOMAIN s
    OBVIOUS
  <2>2. got[{}] = acc
    BY <1>4, <2>1 DEF Fits
  <2>3. h[0] = got[1 .. 0]
    <3> QED
      BY <1>1
  <2> HIDE DEF h
  <2> QED
    BY <2>1, <2>2, <2>3
<1>6. ASSUME NEW k \in 1 .. n PROVE h[k] = Walk(m, start, h[k - 1], s[k])
  <2>1. 1 .. k \in SUBSET DOMAIN s /\ 1 .. k # {} /\ (1 .. k) \ {k} = 1 .. (k - 1)
    <3>1. n \in Nat /\ DOMAIN s = 1 .. n
      BY <1>1
    <3> HIDE DEF n
    <3>2. k \in 1 .. k /\ 1 .. k \subseteq 1 .. n
      BY <3>1
    <3>3. (1 .. k) \ {k} = 1 .. (k - 1)
      BY <3>1
    <3> QED
      BY <3>1, <3>2, <3>3, Zenon
  <2>2. Max(1 .. k) = k
    BY <1>1, MaxIs
  <2>3. got[1 .. k] = Walk(m, start, got[(1 .. k) \ {k}], s[k])
    BY <1>4, <2>1, <2>2 DEF Fits
  <2>4. k \in 0 .. n /\ k - 1 \in 0 .. n
    BY <1>1
  <2> QED
    BY <2>1, <2>3, <2>4
<1>7. \A k \in 0 .. n : h[k] \in Acc
  <2> DEFINE P == {k \in 0 .. n : h[k] \in Acc}
  <2> HIDE DEF h
  <2>1. 0 \in P
    BY <1>1, <1>5
  <2>2. ASSUME NEW k \in 1 .. n, k - 1 \in P PROVE k \in P
    <3>1. h[k] \in Acc
      BY <1>0, <1>1, <1>6, <2>2
    <3> QED
      BY <3>1, <1>1
  <2>3. 0 .. n \subseteq P
    <3> HIDE DEF P
    <3> QED
      BY <1>1, <2>1, <2>2, UpTo
  <2> QED
    BY <2>3
<1>8. h[n] = got[DOMAIN s]
  <2> QED
    BY <1>1
<1>9. h[n] = WalkAll(m, start, acc, s)
  <2> HIDE DEF h
  <2> QED
    BY <1>4, <1>8
<1>10. h \in [0 .. n -> Acc]
  <2>1. h = [k \in 0 .. n |-> h[k]]
    OBVIOUS
  <2> HIDE DEF h
  <2> QED
    BY <1>7, <2>1
<1> HIDE DEF h
<1> QED
  BY <1>5, <1>6, <1>9, <1>10

-----------------------------------------------------------------------------
(* Arrays                                                                  *)
LEMMA Layout ==
    /\ BPI \in Nat /\ BPI >= 2
    /\ Blocks \subseteq Nat \ {0} /\ NoBlock \notin Blocks /\ Refs = Blocks \union {0}
    /\ \A k \in Levels : Pointers(k) \in Nat /\ Pointers(k) >= 1
<1>1. /\ BPI \in Nat /\ BPI >= 2 /\ Blocks \subseteq Nat \ {0}
      /\ NDirect \in Nat /\ NDirect >= 1 /\ N1Indirect \in Nat /\ N1Indirect >= 1
      /\ N2Indirect \in Nat /\ N2Indirect >= 1 /\ N3Indirect \in Nat /\ N3Indirect >= 1
  BY LayoutAssumption
<1>2. /\ Pointers(0) = NDirect /\ Pointers(1) = N1Indirect
      /\ Pointers(2) = N2Indirect /\ Pointers(3) = N3Indirect
  BY DEF Pointers
<1>3. \A k \in Levels : k = 0 \/ k = 1 \/ k = 2 \/ k = 3
  BY DEF Levels
<1> QED
  BY <1>1, <1>2, <1>3 DEF NoBlock, Refs

LEMMA ArrayIs ==
    ASSUME NEW n \in Nat, NEW S, NEW f \in [1 .. n -> S]
    PROVE  f \in Seq(S) /\ Len(f) = n /\ DOMAIN f = 1 .. n
  OBVIOUS

(* Up to its first empty slot.                                             *)
LEMMA EntriesAre ==
    ASSUME NEW n \in Nat, NEW a \in [1 .. n -> Refs]
    PROVE  /\ Entries(a) \in Seq(Blocks) /\ Len(Entries(a)) \in 0 .. n
           /\ \A s \in 1 .. Len(Entries(a)) : Entries(a)[s] = a[s] /\ a[s] # NoBlock
           /\ Len(Entries(a)) < n => a[Len(Entries(a)) + 1] = NoBlock
<1>1. a \in Seq(Refs) /\ Len(a) = n /\ DOMAIN a = 1 .. n
  OBVIOUS
<1> DEFINE empty == {s \in 1 .. n : a[s] = NoBlock}
<1>2. CASE empty = {}
  <2>1. Entries(a) = a
    BY <1>1, <1>2 DEF Entries
  <2>2. \A s \in 1 .. n : a[s] \in Blocks
    BY <1>2, Layout DEF NoBlock
  <2> QED
    BY <1>1, <2>1, <2>2, Layout
<1>3. CASE empty # {}
  <2> DEFINE m == CHOOSE s \in empty : \A t \in empty : s <= t
  <2>1. m \in empty /\ \A t \in empty : m <= t
    <3>1. \E s \in empty : \A t \in empty : s <= t
      <4>1. empty \subseteq Nat
        OBVIOUS
      <4> HIDE DEF empty
      <4> QED
        BY <1>3, <4>1, LeastNat
    <3> HIDE DEF empty
    <3> QED
      BY <3>1
  <2>2. Entries(a) = SubSeq(a, 1, m - 1)
    BY <1>1, <1>3 DEF Entries
  <2> HIDE DEF m
  <2>3. m \in 1 .. n /\ a[m] = NoBlock /\ \A s \in 1 .. (m - 1) : a[s] # NoBlock
    BY <2>1
  <2>4. /\ Len(SubSeq(a, 1, m - 1)) = m - 1
        /\ \A s \in 1 .. (m - 1) : SubSeq(a, 1, m - 1)[s] = a[s]
    BY <1>1, <2>3
  <2>5. \A s \in 1 .. (m - 1) : a[s] \in Blocks
    BY <2>3, Layout DEF NoBlock
  <2>6. SubSeq(a, 1, m - 1) = [s \in 1 .. (m - 1) |-> a[s]]
    BY <1>1, <2>3
  <2>7. SubSeq(a, 1, m - 1) \in [1 .. (m - 1) -> Blocks]
    BY <2>5, <2>6
  <2>8. SubSeq(a, 1, m - 1) \in Seq(Blocks)
    <3>1. m - 1 \in Nat
      BY <2>3
    <3> QED
      BY <2>7, <3>1, ArrayIs
  <2> QED
    BY <2>2, <2>3, <2>4, <2>8
<1> QED
  BY <1>2, <1>3

-----------------------------------------------------------------------------
(* Types                                                                   *)
USE DEF NewFrame

Phases == {"idle", "descend", "give_back", "unwind", "undo", "free_inode", "shrink",
           "abort"}
Allocating == {"descend", "give_back", "unwind", "undo", "abort"}

InodeRecord == [inum : Inodes, in_use : BOOLEAN, n_blocks : 0 .. Limit(4),
                blocks : [Levels -> Seq(Refs)]]
IsInode(r) ==
    /\ r \in InodeRecord
    /\ \A k \in Levels : r.blocks[k] \in [1 .. Pointers(k) -> Refs]

Width(t, d) == IF d = 1 THEN Pointers(t) ELSE BPI
Frame == [target : Refs, new : BOOLEAN, indblock : Seq(Refs)]
IsStack(fs, t) ==
    /\ fs \in Seq(Frame) /\ Len(fs) <= t + 1
    /\ \A d \in 1 .. Len(fs) : fs[d].indblock \in [1 .. Width(t, d) -> Refs]

PoolType ==
    /\ free \subseteq Blocks
    /\ content \in [DOMAIN content -> Array] /\ DOMAIN content \subseteq Blocks
    /\ crashes \in Nat
InodesType ==
    /\ ino = [i \in Inodes |-> ino[i]]
    /\ \A i \in Inodes : IsInode(ino[i]) /\ ino[i].inum = i
TypeInv ==
    /\ PoolType /\ InodesType
    /\ IsInode(buf)
    /\ linked \subseteq Inodes
    /\ pc \in Phases
    /\ top \in Levels /\ my_blocks \in Nat
    /\ IsStack(frames, top)
    /\ pc \in Allocating => Len(frames) >= 1 /\ buf.n_blocks < Limit(4)
    /\ cand \in Refs
    /\ todo \in Seq(Blocks)
    /\ result \in {"none", "ok", "failed"}

LEMMA LimitsAre ==
    /\ \A k \in 0 .. 4 : Limit(k) \in Nat
    /\ Limit(0) = 0
    /\ \A k \in Levels : Span(k) \in Nat /\ Span(k) >= 1
                         /\ Limit(k + 1) = Limit(k) + Pointers(k) * Span(k)
                         /\ Pointers(k) * Span(k) \in Nat
<1>1. /\ BPI \in Nat /\ BPI >= 2
      /\ NDirect \in Nat /\ N1Indirect \in Nat /\ N2Indirect \in Nat /\ N3Indirect \in Nat
  BY LayoutAssumption
<1>2. /\ Pointers(0) = NDirect /\ Pointers(1) = N1Indirect
      /\ Pointers(2) = N2Indirect /\ Pointers(3) = N3Indirect
  BY DEF Pointers
<1>3. Span(0) = 1 /\ Span(1) = BPI /\ Span(2) = BPI * BPI /\ Span(3) = BPI * BPI * BPI
  BY DEF Span
<1>4. Span(2) \in Nat /\ Span(2) >= 1 /\ Span(3) \in Nat /\ Span(3) >= 1
  <2>1. BPI * BPI \in Nat /\ BPI * BPI >= 1
    BY <1>1
  <2>2. BPI * BPI * BPI \in Nat /\ BPI * BPI * BPI >= 1
    <3> DEFINE x == BPI * BPI
    <3>1. x \in Nat /\ x >= 1
      BY <2>1
    <3> HIDE DEF x
    <3>2. x * BPI \in Nat /\ x * BPI >= 1
      BY <1>1, <3>1
    <3> QED
      BY <3>2 DEF x
  <2> QED
    BY <1>3, <2>1, <2>2
<1>5. Span(0) \in Nat /\ Span(0) >= 1 /\ Span(1) \in Nat /\ Span(1) >= 1
  BY <1>1, <1>3
<1>6. /\ NDirect * Span(0) = NDirect
      /\ N1Indirect * Span(1) \in Nat /\ N2Indirect * Span(2) \in Nat
      /\ N3Indirect * Span(3) \in Nat
  BY <1>1, <1>3, <1>4, <1>5
<1>7. /\ Limit(0) = 0 /\ Limit(1) = NDirect
      /\ Limit(2) = NDirect + N1Indirect * Span(1)
      /\ Limit(3) = NDirect + N1Indirect * Span(1) + N2Indirect * Span(2)
      /\ Limit(4) = NDirect + N1Indirect * Span(1) + N2Indirect * Span(2) + N3Indirect * Span(3)
  BY DEF Limit
<1>8. /\ Limit(1) = Limit(0) + Pointers(0) * Span(0) /\ Limit(2) = Limit(1) + Pointers(1) * Span(1)
      /\ Limit(3) = Limit(2) + Pointers(2) * Span(2) /\ Limit(4) = Limit(3) + Pointers(3) * Span(3)
  BY <1>1, <1>2, <1>6, <1>7
<1>9. \A k \in 0 .. 4 : Limit(k) \in Nat
  <2>1. /\ Limit(0) \in Nat /\ Limit(1) \in Nat /\ Limit(2) \in Nat
        /\ Limit(3) \in Nat /\ Limit(4) \in Nat
    BY <1>1, <1>6, <1>7
  <2>2. \A k \in 0 .. 4 : k = 0 \/ k = 1 \/ k = 2 \/ k = 3 \/ k = 4
    OBVIOUS
  <2> QED
    BY <2>1, <2>2
<1>10. ASSUME NEW k \in Levels
       PROVE  /\ Span(k) \in Nat /\ Span(k) >= 1
              /\ Limit(k + 1) = Limit(k) + Pointers(k) * Span(k)
              /\ Pointers(k) * Span(k) \in Nat
  <2>1. k = 0 \/ k = 1 \/ k = 2 \/ k = 3
    BY DEF Levels
  <2> QED
    BY <2>1, <1>1, <1>2, <1>4, <1>5, <1>6, <1>8
<1> QED
  BY <1>7, <1>9, <1>10

LEMMA LevelIs ==
    ASSUME NEW n \in Nat, n < Limit(4)
    PROVE  /\ LevelOf(n) \in Levels
           /\ Limit(LevelOf(n)) <= n /\ n < Limit(LevelOf(n) + 1)
           /\ n - Limit(LevelOf(n)) \in Nat
<1> DEFINE P(k) == Limit(k) <= n /\ n < Limit(k + 1)
<1>1. \E k \in Levels : P(k)
  <2>1. P(0) \/ P(1) \/ P(2) \/ P(3)
    <3>1. /\ Limit(0) = 0 /\ Limit(1) \in Nat /\ Limit(2) \in Nat /\ Limit(3) \in Nat
          /\ Limit(4) \in Nat
      BY LimitsAre
    <3> QED
      BY <3>1
  <2> QED
    BY <2>1 DEF Levels
<1>2. LevelOf(n) \in Levels /\ P(LevelOf(n))
  BY <1>1 DEF LevelOf
<1>3. Limit(LevelOf(n)) \in Nat
  BY <1>2, LimitsAre DEF Levels
<1> QED
  BY <1>2, <1>3

(* A block number stored in the array D of a stack, and cleared there.     *)
Put(fs, D, n, b) == [fs EXCEPT ![D].indblock[n] = b]

IsPut(fs, gs, t, D, n, b) ==
    /\ IsStack(gs, t) /\ Len(gs) = Len(fs)
    /\ \A d \in 1 .. Len(fs) : d # D => gs[d] = fs[d]
    /\ gs[D].target = fs[D].target /\ gs[D].new = fs[D].new
    /\ \A s \in 1 .. Width(t, D) : gs[D].indblock[s] = IF s = n THEN b ELSE fs[D].indblock[s]

LEMMA PutIs ==
    ASSUME NEW t \in Levels, NEW fs, IsStack(fs, t), NEW D \in 1 .. Len(fs),
           NEW n \in Nat, NEW b \in Refs,
           NEW gs, gs = Put(fs, D, n, b)
    PROVE  IsPut(fs, gs, t, D, n, b)
<1>1. fs \in Seq(Frame) /\ fs[D] \in Frame /\ fs[D].indblock \in [1 .. Width(t, D) -> Refs]
  BY DEF IsStack
<1> DEFINE f == [fs[D] EXCEPT !.indblock = [fs[D].indblock EXCEPT ![n] = b]]
<1>2. gs = [fs EXCEPT ![D] = f]
  BY DEF Put
<1>3. [fs[D].indblock EXCEPT ![n] = b] \in [1 .. Width(t, D) -> Refs]
  BY <1>1
<1>4. Width(t, D) \in Nat
  BY Layout DEF Width
<1>5. [fs[D].indblock EXCEPT ![n] = b] \in Seq(Refs)
  BY <1>3, <1>4, ArrayIs
<1>6. /\ f \in Frame /\ f.target = fs[D].target /\ f.new = fs[D].new
      /\ f.indblock = [fs[D].indblock EXCEPT ![n] = b]
  BY <1>1, <1>5 DEF Frame
<1> HIDE DEF f
<1>7. /\ gs \in Seq(Frame) /\ Len(gs) = Len(fs) /\ gs[D] = f
      /\ \A d \in 1 .. Len(fs) : d # D => gs[d] = fs[d]
  BY <1>1, <1>2, <1>6
<1>8. \A d \in 1 .. Len(gs) : gs[d].indblock \in [1 .. Width(t, d) -> Refs]
  BY <1>3, <1>6, <1>7 DEF IsStack
<1>9. Len(gs) <= t + 1
  BY <1>7 DEF IsStack
<1>10. \A s \in 1 .. Width(t, D) : gs[D].indblock[s] = IF s = n THEN b ELSE fs[D].indblock[s]
  BY <1>1, <1>6, <1>7
<1>11. IsStack(gs, t)
  BY <1>7, <1>8, <1>9 DEF IsStack
<1> QED
  BY <1>6, <1>7, <1>10, <1>11 DEF IsPut

LEMMA FrameIs ==
    ASSUME NEW b \in Refs, NEW a \in Array
    PROVE  /\ [target |-> b, new |-> TRUE, indblock |-> a] \in Frame
           /\ [target |-> b, new |-> FALSE, indblock |-> a] \in Frame
<1>1. a \in Seq(Refs)
  BY Layout, ArrayIs DEF Array
<1> QED
  BY <1>1 DEF Frame

LEMMA PushIs ==
    ASSUME NEW t \in Levels, NEW fs, IsStack(fs, t), Len(fs) >= 1, Len(fs) <= t,
           NEW f \in Frame, f.indblock \in Array,
           NEW gs, gs = Append(fs, f)
    PROVE  /\ IsStack(gs, t) /\ Len(gs) = Len(fs) + 1
           /\ \A d \in 1 .. Len(fs) : gs[d] = fs[d]
           /\ gs[Len(gs)] = f
<1>1. fs \in Seq(Frame) /\ Len(fs) \in Nat
  BY DEF IsStack
<1>2. f.indblock \in [1 .. BPI -> Refs]
  BY DEF Array
<1>4. /\ gs \in Seq(Frame) /\ Len(gs) = Len(fs) + 1 /\ gs[Len(gs)] = f
      /\ \A d \in 1 .. Len(fs) : gs[d] = fs[d]
  BY <1>1
<1>5. ASSUME NEW d \in 1 .. Len(gs) PROVE gs[d].indblock \in [1 .. Width(t, d) -> Refs]
  <2>1. CASE d = Len(gs)
    <3>1. d # 1
      BY <1>1, <1>4, <2>1
    <3> QED
      BY <1>2, <1>4, <2>1, <3>1 DEF Width
  <2>2. CASE d # Len(gs)
    <3>1. d \in 1 .. Len(fs)
      BY <1>1, <1>4, <2>2
    <3> QED
      BY <1>4, <3>1 DEF IsStack
  <2> QED
    BY <2>1, <2>2
<1>6. Len(gs) <= t + 1
  BY <1>1, <1>4 DEF Levels
<1>7. IsStack(gs, t)
  BY <1>4, <1>5, <1>6 DEF IsStack
<1> QED
  BY <1>4, <1>7

IsFront(fs, gs, t) ==
    /\ IsStack(gs, t) /\ Len(gs) = Len(fs) - 1
    /\ \A d \in 1 .. Len(gs) : gs[d] = fs[d]

LEMMA PopIs ==
    ASSUME NEW t \in Levels, NEW fs, IsStack(fs, t), Len(fs) >= 1,
           NEW gs, gs = Front(fs)
    PROVE  IsFront(fs, gs, t)
<1>1. fs \in Seq(Frame) /\ Len(fs) \in Nat /\ Len(fs) <= t + 1
  BY DEF IsStack
<1>2. gs = SubSeq(fs, 1, Len(fs) - 1)
  BY DEF Front
<1>3. /\ gs \in Seq(Frame) /\ Len(gs) = Len(fs) - 1
      /\ \A d \in 1 .. Len(gs) : gs[d] = fs[d]
  <2>1. \A d \in 1 .. (Len(fs) - 1) : fs[d] \in Frame
    BY <1>1
  <2> DEFINE n == Len(fs) - 1
  <2>2. n \in Int /\ n >= 0 /\ 1 \in Int /\ n - 1 + 1 = n
    BY <1>1
  <2>3. \A d \in 1 .. n : fs[d] \in Frame
    BY <2>1
  <2> HIDE DEF n
  <2>4. /\ SubSeq(fs, 1, n) \in Seq(Frame)
        /\ Len(SubSeq(fs, 1, n)) = IF 1 <= n THEN n - 1 + 1 ELSE 0
        /\ \A d \in 1 .. n - 1 + 1 : SubSeq(fs, 1, n)[d] = fs[1 + d - 1]
    BY <2>2, <2>3, SubSeqProperties
  <2>5. gs = SubSeq(fs, 1, n)
    BY <1>2 DEF n
  <2>6. Len(gs) = n /\ \A d \in 1 .. n : gs[d] = fs[d]
    BY <2>2, <2>4, <2>5
  <2> QED
    BY <2>4, <2>5, <2>6 DEF n
<1>4. \A d \in 1 .. Len(gs) : gs[d].indblock \in [1 .. Width(t, d) -> Refs]
  BY <1>1, <1>3 DEF IsStack
<1>5. Len(gs) <= t + 1
  BY <1>1, <1>3 DEF Levels
<1> QED
  BY <1>3, <1>4, <1>5 DEF IsStack, IsFront

LEMMA EmptyIs == EmptyArray \in Array /\ \A s \in 1 .. BPI : EmptyArray[s] = NoBlock
  BY DEF EmptyArray, Array, Refs

LEMMA FreshIs ==
    ASSUME NEW i \in Inodes
    PROVE  /\ IsInode(FreshInode(i)) /\ FreshInode(i).inum = i /\ FreshInode(i).n_blocks = 0
           /\ \A k \in Levels : \A s \in 1 .. Pointers(k) : FreshInode(i).blocks[k][s] = NoBlock
<1> DEFINE f == [k \in Levels |-> [s \in 1 .. Pointers(k) |-> NoBlock]]
<1>1. \A k \in Levels : f[k] \in [1 .. Pointers(k) -> Refs] /\ f[k] \in Seq(Refs)
  <2> SUFFICES ASSUME NEW k \in Levels
               PROVE  f[k] \in [1 .. Pointers(k) -> Refs] /\ f[k] \in Seq(Refs)
    OBVIOUS
  <2>1. f[k] \in [1 .. Pointers(k) -> Refs]
    BY DEF Refs
  <2> HIDE DEF f
  <2> QED
    BY <2>1, Layout, ArrayIs
<1>2. \A k \in Levels : \A s \in 1 .. Pointers(k) : f[k][s] = NoBlock
  OBVIOUS
<1>3. f \in [Levels -> Seq(Refs)]
  <2>1. f = [k \in Levels |-> f[k]]
    OBVIOUS
  <2> HIDE DEF f
  <2> QED
    BY <1>1, <2>1
<1>4. 0 \in 0 .. Limit(4)
  BY LimitsAre
<1>5. FreshInode(i) = [inum |-> i, in_use |-> FALSE, n_blocks |-> 0, blocks |-> f]
  BY DEF FreshInode
<1> HIDE DEF f
<1> QED
  BY <1>1, <1>2, <1>3, <1>4, <1>5 DEF IsInode, InodeRecord

(* What a release gives back are blocks.                                   *)
LEMMA ReadIs ==
    ASSUME PoolType, NEW b
    PROVE  /\ ReadArray(b) \in Array /\ ReadArray(b) \in [1 .. BPI -> Refs]
           /\ Entries(ReadArray(b)) \in Seq(Blocks)
<1>1. ReadArray(b) \in Array
  BY EmptyIs DEF ReadArray, PoolType
<1> QED
  BY <1>1, Layout, EntriesAre DEF Array

LEMMA AccIs ==
    /\ \A a \in Acc : a[1] \in Nat /\ a[2] \in Seq(Blocks)
    /\ \A n \in Nat, s \in Seq(Blocks) : <<n, s>> \in Acc
    /\ \A n \in Nat, s \in Seq(Blocks) : <<n, s>>[1] = n /\ <<n, s>>[2] = s
  BY DEF Acc

LEMMA WalkType ==
    ASSUME PoolType, NEW start \in Nat
    PROVE  \A m \in 0 .. 3 : WalkTyped(m, start)
<1> DEFINE P == {m \in 0 .. 3 : WalkTyped(m, start)}
<1>1. 0 \in P
  <2> SUFFICES ASSUME NEW a \in Acc, NEW b \in Blocks PROVE Walk(0, start, a, b) \in Acc
    BY DEF WalkTyped
  <2>1. a[1] \in Nat /\ a[2] \in Seq(Blocks)
    BY DEF Acc
  <2>2. Append(a[2], b) \in Seq(Blocks)
    BY <2>1
  <2>3. ReleaseData(start, a, b) \in Acc
    <3>1. a[1] + 1 \in Nat
      BY <2>1
    <3>2. CASE a[1] >= start
      BY <2>2, <3>1, <3>2, AccIs DEF ReleaseData
    <3>3. CASE ~(a[1] >= start)
      BY <2>1, <3>1, <3>3, AccIs DEF ReleaseData
    <3> QED
      BY <3>2, <3>3
  <2> QED
    BY <2>3, WalkIs
<1>2. ASSUME NEW k \in 1 .. 3, k - 1 \in P PROVE k \in P
  <2>1. k - 1 \in 0 .. 2 /\ (k - 1) + 1 = k
    OBVIOUS
  <2> SUFFICES ASSUME NEW a \in Acc, NEW b \in Blocks PROVE Walk(k, start, a, b) \in Acc
    BY DEF WalkTyped
  <2> DEFINE s == Entries(ReadArray(b))
  <2>2. s \in Seq(Blocks)
    BY ReadIs
  <2> HIDE DEF s
  <2>3. PICK h \in [0 .. Len(s) -> Acc] :
            /\ h[0] = a /\ h[Len(s)] = WalkAll(k - 1, start, a, s)
            /\ \A j \in 1 .. Len(s) : h[j] = Walk(k - 1, start, h[j - 1], s[j])
    <3>1. WalkTyped(k - 1, start)
      BY <1>2
    <3> QED
      BY <2>1, <2>2, <3>1, WalkAllRuns
  <2>4. WalkAll(k - 1, start, a, s) \in Acc
    <3>1. Len(s) \in 0 .. Len(s)
      BY <2>2
    <3> QED
      BY <2>3, <3>1
  <2> DEFINE r == WalkAll(k - 1, start, a, s)
  <2>5. Walk(k, start, a, b) = ReleaseNode(start, a, r, b)
    BY <2>1, WalkIs DEF s
  <2>6. r[1] \in Nat /\ r[2] \in Seq(Blocks)
    BY <2>4 DEF Acc
  <2> HIDE DEF r
  <2>7. Append(r[2], b) \in Seq(Blocks)
    BY <2>6
  <2>8. ReleaseNode(start, a, r, b) \in Acc
    BY <2>6, <2>7, AccIs DEF ReleaseNode
  <2> QED
    BY <2>5, <2>8
<1>3. 0 .. 3 \subseteq P
  <2> HIDE DEF P
  <2> QED
    BY <1>1, <1>2, UpTo
<1> QED
  BY <1>3

LEMMA WalkAllType ==
    ASSUME PoolType, NEW start \in Nat, NEW m \in 0 .. 2, NEW acc \in Acc, NEW s \in Seq(Blocks)
    PROVE  /\ WalkAll(m, start, acc, s) \in Acc
           /\ \E h \in [0 .. Len(s) -> Acc] :
                  /\ h[0] = acc /\ h[Len(s)] = WalkAll(m, start, acc, s)
                  /\ \A k \in 1 .. Len(s) : h[k] = Walk(m, start, h[k - 1], s[k])
<1>1. m \in 0 .. 3
  OBVIOUS
<1>2. PICK h \in [0 .. Len(s) -> Acc] :
          /\ h[0] = acc /\ h[Len(s)] = WalkAll(m, start, acc, s)
          /\ \A k \in 1 .. Len(s) : h[k] = Walk(m, start, h[k - 1], s[k])
  <2>1. WalkTyped(m, start)
    BY <1>1, WalkType
  <2> QED
    BY <2>1, WalkAllRuns
<1>3. Len(s) \in 0 .. Len(s)
  OBVIOUS
<1> QED
  BY <1>2, <1>3

(* The four parts of a release.                                            *)
Direct(inode, start) == WalkAll(0, start, <<0, <<>>>>, Entries(inode.blocks[0]))
Single(inode, start) == WalkAll(1, start, Direct(inode, start), Entries(inode.blocks[1]))
Double(inode, start) ==
    IF inode.blocks[2][1] = NoBlock THEN Single(inode, start)
    ELSE Walk(2, start, Single(inode, start), inode.blocks[2][1])
Triple(inode, start) ==
    IF inode.blocks[2][1] = NoBlock \/ inode.blocks[3][1] = NoBlock THEN Double(inode, start)
    ELSE Walk(3, start, Double(inode, start), inode.blocks[3][1])

LEMMA ReleasedIs ==
    ASSUME NEW inode, NEW start
    PROVE  Released(inode, start) = Triple(inode, start)[2]
<1>1. Direct(inode, start) = FoldLeft(LAMBDA a, c : ReleaseData(start, a, c), <<0, <<>>>>,
                                      Entries(inode.blocks[0]))
  BY DEF Direct, WalkAll
<1>2. Single(inode, start) = FoldLeft(LAMBDA a, c : Release1(start, a, c), Direct(inode, start),
                                      Entries(inode.blocks[1]))
  BY DEF Single, WalkAll
<1>3. \A a, b : Walk(2, start, a, b) = Release2(start, a, b) /\ Walk(3, start, a, b) = Release3(start, a, b)
  BY DEF Walk
<1> QED
  BY <1>1, <1>2, <1>3, Zenon DEF Released, Double, Triple

LEMMA ReleasedType ==
    ASSUME PoolType, NEW inode, IsInode(inode), NEW start \in Nat
    PROVE  /\ Direct(inode, start) \in Acc /\ Single(inode, start) \in Acc
           /\ Double(inode, start) \in Acc /\ Triple(inode, start) \in Acc
           /\ Released(inode, start) \in Seq(Blocks)
<1>1. \A k \in Levels : inode.blocks[k] \in [1 .. Pointers(k) -> Refs]
                        /\ Entries(inode.blocks[k]) \in Seq(Blocks) /\ Pointers(k) >= 1
                        /\ Pointers(k) \in Nat
  BY Layout, EntriesAre DEF IsInode
<1>2. 0 \in Levels /\ 1 \in Levels /\ 2 \in Levels /\ 3 \in Levels
  BY DEF Levels
<1>3. <<0, <<>>>> \in Acc
  <2>1. <<>> \in Seq(Blocks)
    OBVIOUS
  <2> QED
    BY <2>1, AccIs
<1>4. Direct(inode, start) \in Acc
  BY <1>1, <1>2, <1>3, WalkAllType DEF Direct
<1>5. Single(inode, start) \in Acc
  BY <1>1, <1>2, <1>4, WalkAllType DEF Single
<1>6. /\ inode.blocks[2][1] # NoBlock => inode.blocks[2][1] \in Blocks
      /\ inode.blocks[3][1] # NoBlock => inode.blocks[3][1] \in Blocks
  <2>1. 1 \in 1 .. Pointers(2) /\ 1 \in 1 .. Pointers(3)
    BY <1>1, <1>2
  <2>2. inode.blocks[2][1] \in Refs /\ inode.blocks[3][1] \in Refs
    BY <1>1, <1>2, <2>1
  <2> QED
    BY <2>2 DEF Refs
<1>7. Double(inode, start) \in Acc
  <2>1. \A a \in Acc, b \in Blocks : Walk(2, start, a, b) \in Acc
    BY WalkType DEF WalkTyped
  <2> QED
    BY <1>5, <1>6, <2>1 DEF Double
<1>8. Triple(inode, start) \in Acc
  <2>1. \A a \in Acc, b \in Blocks : Walk(3, start, a, b) \in Acc
    BY WalkType DEF WalkTyped
  <2> QED
    BY <1>6, <1>7, <2>1 DEF Triple
<1>9. Triple(inode, start)[2] \in Seq(Blocks)
  BY <1>8 DEF Acc
<1> QED
  BY <1>4, <1>5, <1>7, <1>8, <1>9, ReleasedIs

-----------------------------------------------------------------------------
(* Types are kept                                                          *)
Changing == /\ IsInode(buf) /\ top \in Levels /\ my_blocks \in Nat /\ IsStack(frames, top)
            /\ cand \in Refs /\ todo \in Seq(Blocks)
            /\ pc \in Allocating => Len(frames) >= 1 /\ buf.n_blocks < Limit(4)

LEMMA TypeParts ==
    TypeInv <=> /\ PoolType /\ InodesType /\ Changing
                /\ linked \subseteq Inodes /\ pc \in Phases
                /\ result \in {"none", "ok", "failed"}
  BY DEF TypeInv, Changing

LEMMA TypePartsNext ==
    (PoolType /\ InodesType /\ Changing /\ linked \subseteq Inodes /\ pc \in Phases
              /\ result \in {"none", "ok", "failed"})' => TypeInv'
  BY TypeParts, PTL

LEMMA SomeInode == (CHOOSE i \in Inodes : TRUE) \in Inodes
  BY LayoutAssumption

LEMMA RestIs ==
    ASSUME NEW answer, Rest(answer)
    PROVE  Changing' /\ pc' = "idle" /\ pc' \in Phases /\ result' = answer
<1>1. IsInode(buf')
  BY SomeInode, FreshIs DEF Rest
<1>2. top' \in Levels /\ my_blocks' \in Nat /\ cand' \in Refs /\ todo' \in Seq(Blocks)
  BY DEF Rest, Levels, Refs
<1>3. IsStack(frames, top)'
  <2>1. frames' = <<>> /\ top' = 0
    BY DEF Rest
  <2>2. <<>> \in Seq(Frame) /\ Len(<<>>) = 0 /\ 1 .. 0 = {}
    OBVIOUS
  <2> QED
    BY <2>1, <2>2 DEF IsStack
<1> QED
  BY <1>1, <1>2, <1>3 DEF Changing, Rest, Phases, Allocating

LEMMA AllocType ==
    ASSUME PoolType, NEW b \in Blocks, Pool!Alloc(b)
    PROVE  PoolType' /\ DOMAIN content' = DOMAIN content \union {b} /\ b \in free
           /\ free' = free \ {b} /\ crashes' = crashes /\ content'[b] = EmptyArray
           /\ \A c \in DOMAIN content : c # b => content'[c] = content[c]
<1>1. content' = [c \in DOMAIN content \union {b} |-> IF c = b THEN EmptyArray ELSE content[c]]
  BY DEF Pool!Alloc, Pool!Used
<1> QED
  BY <1>1, EmptyIs DEF Pool!Alloc, PoolType

LEMMA WriteType ==
    ASSUME PoolType, NEW b, NEW a \in Array, Pool!Write(b, a)
    PROVE  PoolType' /\ DOMAIN content' = DOMAIN content /\ b \in DOMAIN content
           /\ free' = free /\ crashes' = crashes /\ content'[b] = a
           /\ \A c \in DOMAIN content : c # b => content'[c] = content[c]
  BY DEF Pool!Write, Pool!Used, PoolType

LEMMA ReleaseType ==
    ASSUME PoolType, NEW b, Pool!Release(b)
    PROVE  PoolType' /\ DOMAIN content' = DOMAIN content \ {b} /\ b \in DOMAIN content
           /\ free' = free \union {b} /\ crashes' = crashes
           /\ \A c \in DOMAIN content : c # b => content'[c] = content[c]
<1>1. content' = [c \in DOMAIN content \ {b} |-> content[c]]
  BY DEF Pool!Release, Pool!Used
<1> QED
  BY <1>1 DEF Pool!Release, Pool!Used, PoolType

LEMMA CrashType ==
    ASSUME PoolType, Pool!Crash
    PROVE  PoolType' /\ content' = content /\ free' \subseteq free
  BY DEF Pool!Crash, PoolType

LEMMA PoolKept == ASSUME PoolType, UNCHANGED pool PROVE PoolType'
  BY DEF PoolType, pool

LEMMA InodesKept == ASSUME InodesType, UNCHANGED ino PROVE InodesType'
  BY DEF InodesType

LEMMA InodeWritten ==
    ASSUME InodesType, NEW i \in Inodes, NEW r, IsInode(r), r.inum = i,
           ino' = [ino EXCEPT ![i] = r]
    PROVE  InodesType' /\ ino'[i] = r /\ \A j \in Inodes : j # i => ino'[j] = ino[j]
  BY DEF InodesType

LEMMA PoppableIs == ASSUME PoolType PROVE Poppable \subseteq Blocks /\ Poppable \subseteq free
<1>1. CASE AnyOrder \/ free = {}
  BY <1>1 DEF Poppable, PoolType
<1>2. CASE ~(AnyOrder \/ free = {})
  <2>1. free \subseteq Nat /\ free # {}
    BY <1>2, Layout DEF PoolType
  <2>2. \E b \in free : \A c \in free : b <= c
    BY <2>1, LeastNat
  <2> QED
    BY <1>2, <2>2 DEF Poppable, PoolType
<1> QED
  BY <1>1, <1>2

(* The stack of a running allocation.                                      *)
LEMMA StackIs ==
    ASSUME TypeInv, pc \in Allocating
    PROVE  /\ Depth \in 1 .. (top + 1) /\ Depth = Len(frames) /\ Depth \in Nat
           /\ level \in 0 .. top /\ level \in Levels /\ level = top - (Depth - 1) /\ top \in Levels
           /\ frames[Depth] \in Frame
           /\ Width(top, Depth) \in Nat /\ Width(top, Depth) >= 1
           /\ blocks \in [1 .. Width(top, Depth) -> Refs] /\ blocks = frames[Depth].indblock
           /\ Len(blocks) = Width(top, Depth)
           /\ first_unused \in 0 .. Width(top, Depth)
           /\ \A s \in 1 .. first_unused : blocks[s] # NoBlock /\ blocks[s] \in Blocks
           /\ first_unused < Width(top, Depth) => blocks[first_unused + 1] = NoBlock
           /\ my_blocks \in Nat
<1>1. /\ top \in Levels /\ IsStack(frames, top) /\ Len(frames) >= 1 /\ my_blocks \in Nat
      /\ frames \in Seq(Frame) /\ Len(frames) <= top + 1
  BY DEF TypeInv, IsStack
<1>2. Depth \in 1 .. (top + 1) /\ Depth = Len(frames) /\ Depth \in Nat
  BY <1>1 DEF Depth, Levels
<1>3. level \in 0 .. top /\ level \in Levels /\ level = top - (Depth - 1)
  BY <1>1, <1>2 DEF level, Levels
<1>4. frames[Depth] \in Frame /\ blocks \in [1 .. Width(top, Depth) -> Refs]
  BY <1>1, <1>2 DEF IsStack, blocks
<1>5. Width(top, Depth) \in Nat /\ Width(top, Depth) >= 1
  BY <1>1, Layout DEF Width
<1>6. Len(blocks) = Width(top, Depth)
  BY <1>4, <1>5, ArrayIs
<1>7. /\ Len(Entries(blocks)) \in 0 .. Width(top, Depth)
      /\ \A s \in 1 .. Len(Entries(blocks)) : blocks[s] # NoBlock
      /\ Len(Entries(blocks)) < Width(top, Depth) => blocks[Len(Entries(blocks)) + 1] = NoBlock
  BY <1>4, <1>5, EntriesAre
<1>8. first_unused = Len(Entries(blocks))
  BY DEF first_unused
<1>9. \A s \in 1 .. first_unused : blocks[s] \in Blocks
  BY <1>4, <1>5, <1>7, <1>8 DEF Refs
<1> QED
  BY <1>1, <1>2, <1>3, <1>4, <1>5, <1>6, <1>7, <1>8, <1>9 DEF blocks

LEMMA RoomBelow ==
    ASSUME TypeInv, pc \in Allocating, level > 0
    PROVE  Depth >= 1 /\ Depth <= top /\ top \in Levels /\ Depth \in Nat
<1>1. /\ Depth \in 1 .. (top + 1) /\ Depth \in Nat /\ level = top - (Depth - 1)
      /\ top \in Levels
  BY StackIs
<1>2. PICK d, t : d = Depth /\ t = top
  OBVIOUS
<1>3. d \in Nat /\ d \in 1 .. (t + 1) /\ t \in 0 .. 3 /\ t - (d - 1) > 0
  BY <1>1, <1>2 DEF Levels
<1>4. d >= 1 /\ d <= t
  BY <1>3
<1> QED
  BY <1>1, <1>2, <1>4

LEMMA TypeInit == MapInit => TypeInv
<1> SUFFICES ASSUME MapInit PROVE TypeInv
  OBVIOUS
<1>1. PoolType
  <2>1. content = [b \in {} |-> EmptyArray] /\ free = Blocks /\ crashes = 0
    BY DEF MapInit, Pool!PoolInit
  <2> QED
    BY <2>1 DEF PoolType
<1>2. InodesType
  BY FreshIs DEF MapInit, InodesType
<1>3. Changing
  <2>1. IsInode(buf)
    BY SomeInode, FreshIs DEF MapInit
  <2>2. top \in Levels /\ my_blocks \in Nat /\ cand \in Refs /\ todo \in Seq(Blocks)
    BY DEF MapInit, Levels, Refs
  <2>3. IsStack(frames, top)
    <3>1. frames = <<>> /\ top = 0
      BY DEF MapInit
    <3>2. <<>> \in Seq(Frame) /\ Len(<<>>) = 0 /\ 1 .. 0 = {}
      OBVIOUS
    <3> QED
      BY <3>1, <3>2 DEF IsStack
  <2>4. pc \notin Allocating
    BY DEF MapInit, Allocating
  <2> QED
    BY <2>1, <2>2, <2>3, <2>4 DEF Changing
<1> QED
  BY <1>1, <1>2, <1>3, TypeParts DEF MapInit, Phases

LEMMA TypeCreate == ASSUME TypeInv, NEW i \in Inodes, Create(i) PROVE TypeInv'
<1>1. PoolType' /\ Changing' /\ pc' \in Phases /\ result' = "none"
  BY PoolKept, RestIs, TypeParts DEF Create
<1> DEFINE r == [FreshInode(i) EXCEPT !.in_use = TRUE]
<1>2. IsInode(r) /\ r.inum = i
  <2>1. FreshInode(i) \in InodeRecord /\ IsInode(FreshInode(i)) /\ FreshInode(i).inum = i
    BY FreshIs DEF IsInode
  <2>2. r \in InodeRecord /\ r.inum = FreshInode(i).inum /\ r.blocks = FreshInode(i).blocks
    BY <2>1 DEF InodeRecord
  <2> QED
    BY <2>1, <2>2 DEF IsInode
<1>3. InodesType'
  <2>1. ino' = [ino EXCEPT ![i] = r]
    BY DEF Create
  <2> HIDE DEF r
  <2> QED
    BY <1>2, <2>1, InodeWritten, TypeParts
<1>4. linked' \subseteq Inodes
  BY TypeParts DEF Create
<1> QED
  BY <1>1, <1>3, <1>4, TypePartsNext

LEMMA TypeAllocStart == ASSUME TypeInv, NEW i \in Inodes, AllocStart(i) PROVE TypeInv'
<1>1. PoolType' /\ InodesType' /\ linked' \subseteq Inodes
  BY PoolKept, InodesKept, TypeParts DEF AllocStart
<1>2. IsInode(ino[i]) /\ ino[i].n_blocks \in 0 .. Limit(4) /\ Limit(4) \in Nat
  <2>1. IsInode(ino[i]) /\ Limit(4) \in Nat
    BY LimitsAre, TypeParts DEF InodesType
  <2> QED
    BY <2>1 DEF IsInode, InodeRecord
<1>3. buf' = ino[i] /\ cand' = cand /\ todo' = todo
  BY DEF AllocStart
<1>4. CASE ino[i].n_blocks < Limit(4)
  <2>1. /\ top' = LevelOf(ino[i].n_blocks)
        /\ my_blocks' = ino[i].n_blocks - Limit(top')
        /\ frames' = <<[target |-> NoBlock, new |-> FALSE, indblock |-> ino[i].blocks[top']]>>
        /\ pc' = "descend" /\ result' = "none"
    BY <1>4 DEF AllocStart
  <2>2. top' \in Levels /\ my_blocks' \in Nat
    BY <1>2, <1>4, <2>1, LevelIs
  <2>3. ino[i].blocks[top'] \in [1 .. Pointers(top') -> Refs] /\ ino[i].blocks[top'] \in Seq(Refs)
    BY <1>2, <2>2 DEF IsInode, InodeRecord
  <2> DEFINE f == [target |-> NoBlock, new |-> FALSE, indblock |-> ino[i].blocks[top']]
  <2>4. f \in Frame /\ f.indblock = ino[i].blocks[top']
    BY <2>3 DEF Frame, Refs
  <2> HIDE DEF f
  <2>5. frames' = <<f>>
    BY <2>1 DEF f
  <2>6. frames' \in Seq(Frame) /\ Len(frames') = 1 /\ frames'[1] = f
    BY <2>4, <2>5
  <2>7. IsStack(frames', top')
    <3>1. Len(frames') <= top' + 1
      <4>1. top' \in 0 .. 3
        BY <2>2 DEF Levels
      <4>2. PICK n, t : n = Len(frames') /\ t = top'
        OBVIOUS
      <4>3. n = 1 /\ t \in 0 .. 3
        BY <2>6, <4>1, <4>2, Zenon
      <4>4. n <= t + 1
        BY <4>3
      <4> QED
        BY <4>2, <4>4, Zenon
    <3>2. ASSUME NEW d \in 1 .. Len(frames')
          PROVE  frames'[d].indblock \in [1 .. Width(top', d) -> Refs]
      <4>1. d = 1 /\ Width(top', d) = Pointers(top')
        BY <2>6 DEF Width
      <4> QED
        BY <2>3, <2>4, <2>6, <4>1
    <3> QED
      BY <2>6, <3>1, <3>2 DEF IsStack
  <2>8. Changing'
    BY <1>2, <1>3, <1>4, <2>1, <2>2, <2>6, <2>7, TypeParts DEF Changing
  <2> QED
    BY <1>1, <2>1, <2>8, TypePartsNext DEF Phases
<1>5. CASE ~(ino[i].n_blocks < Limit(4))
  <2>1. result' = "failed" /\ pc' = pc /\ UNCHANGED <<top, my_blocks, frames>> /\ pc = "idle"
    BY <1>5 DEF AllocStart, Idle
  <2>2. Changing'
    BY <1>2, <1>3, <2>1, TypeParts DEF Changing, Allocating
  <2> QED
    BY <1>1, <2>1, <2>2, TypePartsNext DEF Phases
<1> QED
  BY <1>4, <1>5

(* A step within an allocation that leaves all but the stack, my_blocks    *)
(* and cand alone.                                                         *)
LEMMA TypeWithin ==
    ASSUME TypeInv, pc \in Allocating, PoolType', InodesType', linked' \subseteq Inodes,
           pc' \in Allocating,
           buf' = buf, top' = top, todo' = todo, result' = result,
           my_blocks' \in Nat, cand' \in Refs, IsStack(frames', top), Len(frames') >= 1
    PROVE  TypeInv'
<1>1. Changing'
  BY TypeParts DEF Changing
<1>2. pc' \in Phases
  BY DEF Allocating, Phases
<1> QED
  BY <1>1, <1>2, TypeParts, TypePartsNext

(* An allocation that pops b and stores it, or finds no slot for it.       *)
LEMMA StoredIs ==
    ASSUME TypeInv, pc \in Allocating, NEW b \in Blocks, first_unused < Len(blocks)
    PROVE  /\ IsStack(Stored(b), top) /\ Len(Stored(b)) = Depth
           /\ \A d \in 1 .. Depth : d # Depth => Stored(b)[d] = frames[d]
           /\ Stored(b)[Depth].target = frames[Depth].target
           /\ Stored(b)[Depth].new = frames[Depth].new
           /\ \A s \in 1 .. Width(top, Depth) : Stored(b)[Depth].indblock[s]
                                  = IF s = first_unused + 1 THEN b ELSE blocks[s]
<1>1. /\ Depth \in 1 .. Len(frames) /\ first_unused + 1 \in 1 .. Width(top, Depth)
      /\ IsStack(frames, top) /\ top \in Levels /\ Depth = Len(frames) /\ b \in Refs
      /\ blocks = frames[Depth].indblock
  BY StackIs, TypeParts DEF Changing, Refs
<1>2. Stored(b) = [frames EXCEPT ![Depth].indblock[first_unused + 1] = b]
  BY DEF Stored
<1>3. first_unused \in Nat
  BY StackIs
<1>6. PICK D \in 1 .. Len(frames), n \in Nat, c \in Refs :
          D = Depth /\ n = first_unused + 1 /\ c = b
  BY <1>1, <1>3
<1>7. PICK gs : gs = Put(frames, D, n, c)
  OBVIOUS
<1>4. gs = Stored(b)
  BY <1>2, <1>6, <1>7 DEF Put
<1>5. IsStack(frames, top) /\ top \in Levels
  BY <1>1
<1>8. IsPut(frames, gs, top, D, n, c)
  BY <1>5, <1>7, PutIs
<1> QED
  BY <1>1, <1>4, <1>6, <1>8 DEF IsPut

LEMMA TypeNewIndirect == ASSUME TypeInv, NewIndirect PROVE TypeInv'
<1>1. pc \in Allocating /\ level > 0
  BY DEF NewIndirect, Allocating
<1>2. PICK b \in Poppable :
          /\ Pool!Alloc(b) /\ pc' = pc
          /\ \/ first_unused < Len(blocks) /\ frames' = Append(Stored(b), NewFrame(b))
             \/ first_unused = Len(blocks) /\ frames' = Append(frames, NewFrame(b))
  BY DEF NewIndirect
<1>3. b \in Blocks /\ b \in Refs /\ PoolType'
  BY <1>2, PoppableIs, AllocType, TypeParts DEF Refs
<1>4. /\ InodesType' /\ linked' \subseteq Inodes /\ my_blocks' = 0
      /\ UNCHANGED <<ino, linked, buf, top, cand, todo, result>>
  BY InodesKept, TypeParts DEF NewIndirect
<1>5. IsStack(frames', top) /\ Len(frames') >= 1 /\ pc' \in Allocating
  <2> DEFINE f == NewFrame(b)
  <2>1. PICK fs : frames' = Append(fs, f) /\ IsStack(fs, top) /\ Len(fs) = Depth
    <3>1. CASE first_unused < Len(blocks) /\ frames' = Append(Stored(b), f)
      <4>1. IsStack(Stored(b), top) /\ Len(Stored(b)) = Depth
        BY <1>1, <1>3, <3>1, StoredIs
      <4> QED
        BY <3>1, <4>1, Zenon
    <3>2. CASE frames' = Append(frames, f)
      <4>1. IsStack(frames, top) /\ Len(frames) = Depth
        BY TypeParts DEF Changing, Depth
      <4> QED
        BY <3>2, <4>1, Zenon
    <3> QED
      BY <1>2, <3>1, <3>2
  <2>2. f \in Frame /\ f.indblock \in Array
    BY <1>3, EmptyIs, FrameIs
  <2> HIDE DEF f
  <2>3. Depth >= 1 /\ Depth <= top /\ top \in Levels /\ Depth \in Nat
    BY <1>1, RoomBelow
  <2>4. PICK gs, D : gs = frames' /\ D = Depth
    OBVIOUS
  <2>5. IsStack(gs, top) /\ Len(gs) = D + 1
    <3>1. Len(fs) >= 1 /\ Len(fs) <= top /\ gs = Append(fs, f)
      BY <2>1, <2>3, <2>4
    <3>2. IsStack(gs, top) /\ Len(gs) = Len(fs) + 1
      BY <2>1, <2>2, <2>3, <3>1, PushIs
    <3> QED
      BY <2>1, <2>4, <3>2
  <2>6. Len(gs) >= 1
    BY <2>3, <2>4, <2>5
  <2>7. pc' \in Allocating
    BY <1>1, <1>2
  <2> QED
    BY <2>4, <2>5, <2>6, <2>7, Zenon
<1>6. cand' \in Refs /\ my_blocks' \in Nat
  BY <1>4, TypeParts DEF Changing
<1> QED
  BY <1>1, <1>3, <1>4, <1>5, <1>6, TypeWithin

LEMMA ModNat == ASSUME NEW a \in Nat, NEW k \in Nat, k > 0 PROVE a % k \in Nat /\ a % k < k
  OBVIOUS

LEMMA TypeOldIndirect == ASSUME TypeInv, OldIndirect PROVE TypeInv'
<1>1. pc \in Allocating /\ level > 0
  BY DEF OldIndirect, Allocating
<1>2. /\ UNCHANGED <<pool, ino, linked, buf, top, cand, todo, result>>
      /\ PoolType' /\ InodesType' /\ linked' \subseteq Inodes /\ cand' \in Refs
  BY PoolKept, InodesKept, TypeParts DEF OldIndirect, Changing
<1>3. CASE first_unused # 0
  <2>1. /\ frames' = Append(frames, [target |-> blocks[first_unused], new |-> FALSE,
                                     indblock |-> ReadArray(blocks[first_unused])])
        /\ my_blocks' = IF level = 1 THEN 0
                        ELSE my_blocks % (first_unused * Span(level - 1))
        /\ pc' = pc
    BY <1>3 DEF OldIndirect
  <2>2. /\ first_unused \in Nat /\ first_unused > 0 /\ level \in Levels
        /\ blocks[first_unused] \in Refs /\ my_blocks \in Nat
    BY <1>1, <1>3, StackIs DEF Refs
  <2>3. my_blocks' \in Nat
    <3>1. level - 1 \in Levels
      BY <1>1, <2>2 DEF Levels
    <3>2. Span(level - 1) \in Nat /\ Span(level - 1) > 0
      BY <3>1, LimitsAre
    <3> DEFINE x == first_unused
               y == Span(level - 1)
    <3>3. x \in Nat /\ x > 0 /\ y \in Nat /\ y > 0
      BY <2>2, <3>2
    <3> HIDE DEF x, y
    <3>4. x * y \in Nat /\ x * y > 0
      BY <3>3
    <3>5. my_blocks % (x * y) \in Nat
      BY <2>2, <3>4, ModNat
    <3> QED
      BY <2>1, <3>5 DEF x, y
  <2>4. ReadArray(blocks[first_unused]) \in Array
    BY ReadIs, TypeParts
  <2>5. /\ Len(frames) >= 1 /\ Len(frames) <= top /\ top \in Levels /\ IsStack(frames, top)
    BY <1>1, RoomBelow, TypeParts DEF Changing, Depth
  <2>6. IsStack(frames', top) /\ Len(frames') = Len(frames) + 1
    <3> DEFINE f == [target |-> blocks[first_unused], new |-> FALSE,
                     indblock |-> ReadArray(blocks[first_unused])]
    <3>1. f \in Frame /\ f.indblock \in Array
      BY <2>2, <2>4, FrameIs
    <3>2. PICK gs : gs = frames'
      OBVIOUS
    <3>3. gs = Append(frames, f)
      BY <2>1, <3>2
    <3> HIDE DEF f
    <3>4. IsStack(gs, top) /\ Len(gs) = Len(frames) + 1
      BY <2>5, <3>1, <3>3, PushIs
    <3> QED
      BY <3>2, <3>4, Zenon
  <2>7. Len(frames) \in Nat
    BY <2>5 DEF IsStack
  <2> QED
    BY <1>1, <1>2, <2>1, <2>3, <2>5, <2>6, <2>7, TypeWithin
<1>4. CASE first_unused = 0
  <2>1. pc' = "abort" /\ UNCHANGED <<frames, my_blocks>>
    BY <1>4 DEF OldIndirect
  <2>2. /\ my_blocks' \in Nat /\ IsStack(frames', top) /\ Len(frames') >= 1 /\ pc' \in Allocating
    BY <1>1, <2>1, TypeParts DEF Changing, Allocating
  <2> QED
    BY <1>1, <1>2, <2>2, TypeWithin
<1> QED
  BY <1>3, <1>4

LEMMA TypeNewDirect == ASSUME TypeInv, NewDirect PROVE TypeInv'
<1>1. pc \in Allocating
  BY DEF NewDirect, Allocating
<1>2. PICK b \in Poppable :
          /\ Pool!Alloc(b)
          /\ cand' = b
          /\ IF first_unused < Len(blocks)
             THEN frames' = Stored(b) /\ pc' = "unwind"
             ELSE frames' = frames /\ pc' = "give_back"
  BY DEF NewDirect
<1>3. b \in Blocks /\ cand' \in Refs /\ PoolType'
  BY <1>2, PoppableIs, AllocType, TypeParts DEF Refs
<1>4. /\ InodesType' /\ linked' \subseteq Inodes /\ my_blocks' \in Nat
      /\ UNCHANGED <<ino, linked, buf, top, todo, result>>
  BY InodesKept, TypeParts DEF NewDirect, Changing
<1>5. IsStack(frames', top) /\ Len(frames') >= 1 /\ pc' \in Allocating
  <2>1. CASE first_unused < Len(blocks)
    <3>1. IsStack(Stored(b), top) /\ Len(Stored(b)) = Depth /\ Depth = Len(frames)
      BY <1>1, <1>3, <2>1, StoredIs, StackIs
    <3>2. frames' = Stored(b) /\ pc' = "unwind"
      BY <1>2, <2>1
    <3>3. Len(frames) >= 1
      BY <1>1, TypeParts DEF Changing
    <3> QED
      BY <3>1, <3>2, <3>3 DEF Allocating
  <2>2. CASE ~(first_unused < Len(blocks))
    BY <1>1, <1>2, <2>2, TypeParts DEF Changing, Allocating
  <2> QED
    BY <2>1, <2>2
<1> QED
  BY <1>1, <1>3, <1>4, <1>5, TypeWithin

LEMMA TypeGiveBack == ASSUME TypeInv, GiveBack PROVE TypeInv'
<1>1. pc \in Allocating /\ pc' \in Allocating
  BY DEF GiveBack, Allocating
<1>2. PoolType'
  BY ReleaseType, TypeParts DEF GiveBack
<1>3. /\ InodesType' /\ linked' \subseteq Inodes /\ my_blocks' \in Nat /\ cand' \in Refs
      /\ UNCHANGED <<ino, linked, buf, top, todo, result, frames>>
  BY InodesKept, TypeParts DEF GiveBack, Changing, alloc
<1>4. IsStack(frames', top) /\ Len(frames') >= 1
  BY <1>1, <1>3, TypeParts DEF Changing
<1> QED
  BY <1>1, <1>2, <1>3, <1>4, TypeWithin

LEMMA TypePopFails == ASSUME TypeInv, PopFails PROVE TypeInv'
<1>1. pc \in Allocating /\ pc' \in Allocating
  BY DEF PopFails, Allocating
<1>2. /\ PoolType' /\ InodesType' /\ linked' \subseteq Inodes /\ my_blocks' \in Nat
      /\ cand' \in Refs
      /\ UNCHANGED <<ino, linked, buf, top, todo, result, frames>>
  BY PoolKept, InodesKept, TypeParts DEF PopFails, Changing, alloc
<1>3. IsStack(frames', top) /\ Len(frames') >= 1
  BY <1>1, <1>2, TypeParts DEF Changing
<1> QED
  BY <1>1, <1>2, <1>3, TypeWithin

(* The stack without the array it works in.                                *)
LEMMA UpperIs ==
    ASSUME TypeInv, pc \in Allocating, Depth > 1
    PROVE  /\ IsStack(Front(frames), top) /\ Len(Front(frames)) = Depth - 1
           /\ \A d \in 1 .. Depth - 1 : Front(frames)[d] = frames[d]
           /\ Depth - 1 \in 1 .. Len(Front(frames)) /\ Len(Front(frames)) >= 1
           /\ Depth \in Nat
<1>1. IsStack(frames, top) /\ Len(frames) >= 1 /\ top \in Levels /\ Depth = Len(frames)
      /\ Depth \in Nat
  BY StackIs, TypeParts DEF Changing
<1>2. /\ IsStack(Front(frames), top) /\ Len(Front(frames)) = Len(frames) - 1
      /\ \A d \in 1 .. Len(Front(frames)) : Front(frames)[d] = frames[d]
  <2>1. PICK gs : gs = Front(frames)
    OBVIOUS
  <2>2. IsFront(frames, gs, top)
    BY <1>1, <2>1, PopIs
  <2> QED
    BY <2>1, <2>2 DEF IsFront
<1>3. PICK d : d = Depth
  OBVIOUS
<1>4. d \in Nat /\ d > 1 /\ Len(Front(frames)) = d - 1
  BY <1>1, <1>2, <1>3
<1>5. d - 1 \in 1 .. (d - 1) /\ d - 1 >= 1
  BY <1>4
<1> QED
  BY <1>1, <1>2, <1>3, <1>4, <1>5, Zenon

LEMMA TypeWriteIndirect == ASSUME TypeInv, WriteIndirect PROVE TypeInv'
<1>1. pc \in Allocating /\ pc' \in Allocating /\ Depth > 1 /\ frames' = Front(frames)
  BY DEF WriteIndirect, Allocating
<1>2. PoolType'
  <2>1. blocks \in Array
    <3>1. Depth # 1
      BY <1>1, StackIs
    <3> QED
      BY <1>1, <3>1, StackIs DEF Width, Array
  <2> QED
    BY <2>1, WriteType, TypeParts DEF WriteIndirect
<1>3. /\ InodesType' /\ linked' \subseteq Inodes /\ my_blocks' \in Nat /\ cand' \in Refs
      /\ UNCHANGED <<ino, linked, buf, top, todo, result>>
  BY InodesKept, TypeParts DEF WriteIndirect, Changing
<1>4. IsStack(frames', top) /\ Len(frames') >= 1
  BY <1>1, UpperIs
<1> QED
  BY <1>1, <1>2, <1>3, <1>4, TypeWithin

LEMMA TypeUndoIndirect == ASSUME TypeInv, UndoIndirect PROVE TypeInv'
<1>1. pc \in Allocating /\ pc' \in Allocating /\ Depth > 1
  BY DEF UndoIndirect, Allocating
<1>2. PoolType'
  BY ReleaseType, PoolKept, TypeParts DEF UndoIndirect
<1>3. /\ InodesType' /\ linked' \subseteq Inodes /\ my_blocks' \in Nat /\ cand' \in Refs
      /\ UNCHANGED <<ino, linked, buf, top, todo, result>>
  BY InodesKept, TypeParts DEF UndoIndirect, Changing
<1>4. IsStack(frames', top) /\ Len(frames') >= 1
  <2> DEFINE slot == Len(Entries(Front(frames)[Depth - 1].indblock))
  <2>1. \/ frames' = Front(frames)
        \/ frames' = [Front(frames) EXCEPT ![Depth - 1].indblock[slot] = NoBlock]
    BY DEF UndoIndirect
  <2>6. slot \in Nat
    <3>1. Front(frames)[Depth - 1].indblock \in [1 .. Width(top, Depth - 1) -> Refs]
      BY <1>1, UpperIs DEF IsStack
    <3>2. Width(top, Depth - 1) \in Nat
      BY Layout, TypeParts DEF Width, Changing
    <3> QED
      BY <3>1, <3>2, EntriesAre
  <2> HIDE DEF slot
  <2>2. IsStack(Front(frames), top) /\ Len(Front(frames)) >= 1 /\ top \in Levels
        /\ Depth - 1 \in 1 .. Len(Front(frames)) /\ NoBlock \in Refs
    BY <1>1, UpperIs, TypeParts DEF Changing, Refs
  <2>3. PICK fs : fs = Front(frames)
    OBVIOUS
  <2>4. PICK D \in 1 .. Len(fs), n \in Nat, b \in Refs : D = Depth - 1 /\ n = slot /\ b = NoBlock
    BY <2>2, <2>3, <2>6
  <2>5. PICK gs : gs = Put(fs, D, n, b)
    OBVIOUS
  <2>7. IsStack(gs, top) /\ Len(gs) = Len(fs)
    <3>1. IsPut(fs, gs, top, D, n, b)
      BY <2>2, <2>3, <2>5, PutIs
    <3> QED
      BY <3>1 DEF IsPut
  <2>8. gs = [Front(frames) EXCEPT ![Depth - 1].indblock[slot] = NoBlock]
    BY <2>3, <2>4, <2>5 DEF Put
  <2> QED
    BY <2>1, <2>2, <2>3, <2>7, <2>8
<1> QED
  BY <1>1, <1>2, <1>3, <1>4, TypeWithin

(* The inode with the array it began with.                                 *)
BufWith(n) == [buf EXCEPT !.n_blocks = n, !.blocks[top] = blocks]

LEMMA BufWithIs ==
    ASSUME TypeInv, pc \in Allocating, Depth = 1, NEW n \in 0 .. Limit(4)
    PROVE  /\ IsInode(BufWith(n)) /\ BufWith(n).inum = buf.inum /\ BufWith(n).n_blocks = n
           /\ BufWith(n).blocks[top] = blocks
           /\ \A k \in Levels : k # top => BufWith(n).blocks[k] = buf.blocks[k]
<1>1. IsInode(buf) /\ top \in Levels
  BY TypeParts DEF Changing
<1>2. blocks \in [1 .. Pointers(top) -> Refs]
  BY StackIs DEF Width
<1>3. blocks \in Seq(Refs)
  BY <1>1, <1>2, Layout, ArrayIs
<1> DEFINE bs == [buf.blocks EXCEPT ![top] = blocks]
<1>4. /\ bs \in [Levels -> Seq(Refs)]
      /\ \A k \in Levels : bs[k] \in [1 .. Pointers(k) -> Refs]
      /\ bs[top] = blocks
      /\ \A k \in Levels : k # top => bs[k] = buf.blocks[k]
  BY <1>1, <1>2, <1>3 DEF IsInode, InodeRecord
<1>5. BufWith(n) = [buf EXCEPT !.n_blocks = n, !.blocks = bs]
  BY <1>1 DEF IsInode, InodeRecord, BufWith
<1> HIDE DEF bs
<1>6. /\ BufWith(n) \in InodeRecord /\ BufWith(n).blocks = bs /\ BufWith(n).inum = buf.inum
      /\ BufWith(n).n_blocks = n
  BY <1>1, <1>4, <1>5 DEF IsInode, InodeRecord
<1>7. IsInode(BufWith(n))
  BY <1>4, <1>6 DEF IsInode
<1> QED
  BY <1>4, <1>6, <1>7

LEMMA TypeWriteInode == ASSUME TypeInv, WriteInode PROVE TypeInv'
<1>1. pc \in Allocating /\ Depth = 1
  BY DEF WriteInode, Allocating
<1>2. PoolType' /\ Changing' /\ pc' \in Phases /\ result' = "ok" /\ linked' \subseteq Inodes
  BY PoolKept, RestIs, TypeParts DEF WriteInode
<1>3. InodesType'
  <2>1. buf.n_blocks + 1 \in 0 .. Limit(4)
    <3>1. buf.n_blocks \in 0 .. Limit(4) /\ buf.n_blocks < Limit(4) /\ Limit(4) \in Nat
      BY <1>1, LimitsAre, TypeParts DEF Changing, IsInode, InodeRecord
    <3> QED
      BY <3>1
  <2> DEFINE r == BufWith(buf.n_blocks + 1)
  <2>2. IsInode(r) /\ r.inum = buf.inum
    BY <1>1, <2>1, BufWithIs
  <2>3. ino' = [ino EXCEPT ![self] = r]
    BY DEF WriteInode, BufWith
  <2>4. self = buf.inum /\ self \in Inodes
    BY TypeParts DEF Changing, self, IsInode, InodeRecord
  <2> HIDE DEF r
  <2> QED
    BY <2>2, <2>3, <2>4, InodeWritten, TypeParts
<1> QED
  BY <1>2, <1>3, TypePartsNext

LEMMA TypeAllocFails == ASSUME TypeInv, AllocFails PROVE TypeInv'
<1>1. pc \in Allocating /\ Depth = 1
  BY DEF AllocFails, Allocating
<1>2. PoolType' /\ InodesType' /\ linked' \subseteq Inodes /\ pc' \in Phases /\ result' = "failed"
  BY PoolKept, InodesKept, TypeParts DEF AllocFails, Phases
<1>3. IsInode(buf')
  <2>1. buf.n_blocks \in 0 .. Limit(4)
    BY TypeParts DEF Changing, IsInode, InodeRecord
  <2> DEFINE r == BufWith(buf.n_blocks)
  <2>2. IsInode(r)
    BY <1>1, <2>1, BufWithIs
  <2>3. buf' = r
    BY TypeParts DEF AllocFails, Changing, IsInode, InodeRecord, BufWith
  <2> HIDE DEF r
  <2> QED
    BY <2>2, <2>3
<1>4. Changing'
  <2>1. top' \in Levels /\ my_blocks' \in Nat /\ cand' \in Refs /\ todo' \in Seq(Blocks)
    BY TypeParts DEF AllocFails, Levels, Refs, Changing
  <2>2. IsStack(frames, top)'
    <3>1. frames' = <<>> /\ top' = 0
      BY DEF AllocFails
    <3>2. <<>> \in Seq(Frame) /\ Len(<<>>) = 0 /\ 1 .. 0 = {}
      OBVIOUS
    <3> QED
      BY <3>1, <3>2 DEF IsStack
  <2>3. pc' \notin Allocating
    BY DEF AllocFails, Allocating
  <2> QED
    BY <1>3, <2>1, <2>2, <2>3 DEF Changing
<1> QED
  BY <1>2, <1>4, TypePartsNext

LEMMA AfterReleaseType ==
    ASSUME NEW inode, IsInode(inode), NEW start \in 0 .. Limit(4)
    PROVE  LET r == AfterRelease(inode, start)
           IN  IsInode(r) /\ r.inum = inode.inum /\ r.n_blocks = start
               /\ \A k \in Levels : \A s \in 1 .. Pointers(k) :
                      r.blocks[k][s] = IF inode.blocks[k][s] \in Range(Released(inode, start))
                                       THEN NoBlock ELSE inode.blocks[k][s]
<1> DEFINE gone == Range(Released(inode, start))
           bs == [k \in Levels |-> [s \in 1 .. Pointers(k) |->
                     IF inode.blocks[k][s] \in gone THEN NoBlock ELSE inode.blocks[k][s]]]
           r == [inode EXCEPT !.n_blocks = start, !.blocks = bs]
<1> HIDE DEF gone
<1>1. AfterRelease(inode, start) = r
  BY DEF AfterRelease, gone
<1>2. \A k \in Levels : bs[k] \in [1 .. Pointers(k) -> Refs] /\ bs[k] \in Seq(Refs)
  <2> SUFFICES ASSUME NEW k \in Levels
               PROVE  bs[k] \in [1 .. Pointers(k) -> Refs] /\ bs[k] \in Seq(Refs)
    OBVIOUS
  <2>1. inode.blocks[k] \in [1 .. Pointers(k) -> Refs] /\ NoBlock \in Refs
    BY DEF IsInode, Refs
  <2>2. bs[k] \in [1 .. Pointers(k) -> Refs]
    BY <2>1
  <2> HIDE DEF bs
  <2> QED
    BY <2>2, Layout, ArrayIs
<1>3. \A k \in Levels : \A s \in 1 .. Pointers(k) :
          bs[k][s] = IF inode.blocks[k][s] \in gone THEN NoBlock ELSE inode.blocks[k][s]
  OBVIOUS
<1>4. bs \in [Levels -> Seq(Refs)]
  <2>1. bs = [k \in Levels |-> bs[k]]
    OBVIOUS
  <2> HIDE DEF bs
  <2> QED
    BY <1>2, <2>1
<1> HIDE DEF bs
<1>5. r \in InodeRecord /\ r.blocks = bs /\ r.inum = inode.inum /\ r.n_blocks = start
  BY <1>4 DEF IsInode, InodeRecord
<1> HIDE DEF r
<1>6. IsInode(r)
  BY <1>2, <1>5 DEF IsInode
<1> QED
  BY <1>1, <1>3, <1>5, <1>6 DEF gone

LEMMA TypeReleaseStart ==
    ASSUME TypeInv, NEW i \in Inodes, NEW start \in 0 .. Limit(4), ReleaseStart(i, start),
           UNCHANGED <<pool, ino, alloc>>, linked' \subseteq Inodes,
           pc' \in {"free_inode", "shrink"}
    PROVE  TypeInv'
<1>1. IsInode(ino[i]) /\ start \in Nat
  BY LimitsAre DEF TypeInv, InodesType
<1>2. IsInode(buf')
  BY <1>1, AfterReleaseType DEF ReleaseStart
<1>3. todo' \in Seq(Blocks)
  BY <1>1, ReleasedType, TypeParts DEF ReleaseStart
<1>4. top' \in Levels /\ my_blocks' \in Nat /\ cand' \in Refs
  BY TypeParts DEF alloc, Changing
<1>5. IsStack(frames, top)'
  BY TypeParts DEF alloc, Changing, IsStack
<1>6. Changing' /\ pc' \in Phases
  BY <1>2, <1>3, <1>4, <1>5 DEF Changing, Allocating, Phases
<1>7. PoolType' /\ InodesType' /\ result' = "none"
  BY PoolKept, InodesKept, TypeParts DEF ReleaseStart
<1> QED
  BY <1>6, <1>7, TypePartsNext

LEMMA TypeUnlink == ASSUME TypeInv, NEW i \in Inodes, Unlink(i) PROVE TypeInv'
<1>1. 0 \in 0 .. Limit(4)
  BY LimitsAre
<1>2. linked' \subseteq Inodes
  BY TypeParts DEF Unlink
<1> QED
  BY <1>1, <1>2, TypeReleaseStart DEF Unlink

LEMMA TypeFailedWrite ==
    ASSUME TypeInv, NEW i \in Inodes, NEW start \in 0 .. Cardinality(Blocks), FailedWrite(i, start)
    PROVE  TypeInv'
<1>1. start \in 0 .. Limit(4)
  <2>1. Cardinality(Blocks) \in Nat
    BY LayoutAssumption, FS_CardinalityType
  <2>2. /\ start <= ino[i].n_blocks /\ ino[i].n_blocks \in 0 .. Limit(4) /\ Limit(4) \in Nat
    BY LimitsAre DEF FailedWrite, TypeInv, InodesType, IsInode, InodeRecord
  <2> QED
    BY <2>1, <2>2
<1>2. linked' \subseteq Inodes
  BY TypeParts DEF FailedWrite
<1> QED
  BY <1>1, <1>2, TypeReleaseStart DEF FailedWrite

LEMMA TypeAppendNext == ASSUME TypeInv, AppendNext PROVE TypeInv'
<1>1. PoolType' /\ InodesType' /\ linked' \subseteq Inodes
      /\ pc' = pc /\ result' = result /\ pc \notin Allocating
  BY ReleaseType, InodesKept, TypeParts DEF AppendNext, Allocating
<1>2. todo' \in Seq(Blocks)
  BY TypeParts DEF AppendNext, Changing
<1>3. IsStack(frames, top)'
  BY TypeParts DEF AppendNext, alloc, Changing, IsStack
<1>4. Changing'
  BY <1>1, <1>2, <1>3, TypeParts DEF AppendNext, alloc, Changing
<1> QED
  BY <1>1, <1>4, TypeParts, TypePartsNext

LEMMA TypeFreeInode == ASSUME TypeInv, FreeInode PROVE TypeInv'
<1>1. PoolType' /\ Changing' /\ pc' \in Phases /\ result' = "none" /\ linked' \subseteq Inodes
  BY PoolKept, RestIs, TypeParts DEF FreeInode
<1>2. self \in Inodes
  BY TypeParts DEF Changing, self, IsInode, InodeRecord
<1>3. InodesType'
  BY <1>2, FreshIs, InodeWritten, TypeParts DEF FreeInode
<1> QED
  BY <1>1, <1>3, TypePartsNext

LEMMA TypeWriteReturns == ASSUME TypeInv, WriteReturns PROVE TypeInv'
<1>1. PoolType' /\ Changing' /\ pc' \in Phases /\ result' = "none" /\ linked' \subseteq Inodes
      /\ InodesType'
  BY PoolKept, InodesKept, RestIs, TypeParts DEF WriteReturns
<1> QED
  BY <1>1, TypePartsNext

LEMMA TypeCrash == ASSUME TypeInv, Crash PROVE TypeInv'
<1>1. Changing' /\ pc' \in Phases /\ result' = "none" /\ linked' \subseteq Inodes
      /\ InodesType'
  BY InodesKept, RestIs, TypeParts DEF Crash
<1>2. PoolType'
  BY CrashType, TypeParts DEF Crash
<1> QED
  BY <1>1, <1>2, TypePartsNext

LEMMA TypeStep == TypeInv /\ [MapNext]_mapVars => TypeInv'
<1> SUFFICES ASSUME TypeInv, [MapNext]_mapVars PROVE TypeInv'
  OBVIOUS
<1>1. CASE UNCHANGED mapVars
  <2>1. PoolType' /\ InodesType'
    BY <1>1, PoolKept, InodesKept, TypeParts DEF mapVars
  <2>2. Changing'
    BY <1>1, TypeParts DEF mapVars, alloc, Changing, IsStack
  <2> QED
    BY <1>1, <2>1, <2>2, TypeParts, TypePartsNext DEF mapVars
<1>2. CASE \E i \in Inodes : \/ Create(i)
                             \/ AllocStart(i)
                             \/ Unlink(i)
                             \/ \E start \in 0 .. Cardinality(Blocks) : FailedWrite(i, start)
  BY <1>2, TypeCreate, TypeAllocStart, TypeUnlink, TypeFailedWrite
<1>3. CASE Resume
  BY <1>3, TypeNewIndirect, TypeOldIndirect, TypeNewDirect, TypeGiveBack, TypePopFails,
     TypeWriteIndirect, TypeWriteInode, TypeUndoIndirect, TypeAllocFails, TypeAppendNext,
     TypeFreeInode, TypeWriteReturns DEF Resume
<1>4. CASE Crash
  BY <1>4, TypeCrash
<1> QED
  BY <1>1, <1>2, <1>3, <1>4 DEF MapNext

(* Only NewIndirect stores past the end of an array.                       *)
LEMMA OverrunsKept ==
    ASSUME [MapNext]_mapVars, ~NewIndirect
    PROVE  overruns' = overruns
  BY DEF MapNext, mapVars, Create, AllocStart, Unlink, FailedWrite, Resume,
     OldIndirect, NewDirect, GiveBack, PopFails, WriteIndirect, WriteInode, UndoIndirect,
     AllocFails, AppendNext, FreeInode, WriteReturns, Crash

LEMMA OverrunsIn ==
    ASSUME TypeInv, overruns \subseteq Blocks, [MapNext]_mapVars
    PROVE  overruns' \subseteq Blocks
<1>1. CASE NewIndirect
  <2>1. PICK b \in Poppable : overruns' = overruns \/ overruns' = overruns \union {b}
    BY <1>1 DEF NewIndirect
  <2>2. b \in Blocks
    BY PoppableIs, TypeParts
  <2> QED
    BY <2>1, <2>2
<1> QED
  BY <1>1, OverrunsKept

LEMMA TypeImplies == TypeInv /\ overruns \subseteq Blocks => MapTypeOK
<1> SUFFICES ASSUME TypeInv, overruns \subseteq Blocks PROVE MapTypeOK
  OBVIOUS
<1>1. ASSUME NEW inode \in {buf} \union {ino[i] : i \in Inodes}
      PROVE  /\ inode.inum \in Inodes
             /\ inode.n_blocks \in 0 .. Limit(4) /\ inode.in_use \in BOOLEAN
             /\ \A k \in Levels : inode.blocks[k] \in [1 .. Pointers(k) -> Refs]
  <2>1. IsInode(inode)
    BY DEF TypeInv, InodesType
  <2> QED
    BY <2>1 DEF IsInode, InodeRecord
<1>2. Depth <= 4
  BY DEF TypeInv, IsStack, Depth, Levels
<1>3. pc \in {"idle", "descend", "give_back", "unwind", "undo", "free_inode", "shrink",
              "abort"}
  BY DEF TypeInv, Phases
<1> QED
  BY <1>1, <1>2, <1>3 DEF TypeInv, PoolType, MapTypeOK

(* Whatever is allocated, released or interrupted, the inodes and the       *)
(* arrays of block numbers on disk and in core keep their types and sizes. *)
THEOREM MapTypeCorrect == MapSpec => []MapTypeOK
<1>1. MapSpec => []TypeInv
  BY TypeInit, TypeStep, PTL DEF MapSpec
<1>2. MapInit => overruns \subseteq Blocks
  BY DEF MapInit
<1>3. TypeInv /\ overruns \subseteq Blocks /\ [MapNext]_mapVars => (overruns \subseteq Blocks)'
  BY OverrunsIn
<1>4. MapSpec => [](overruns \subseteq Blocks)
  BY <1>1, <1>2, <1>3, PTL DEF MapSpec
<1> QED
  BY <1>1, <1>4, TypeImplies, PTL

-----------------------------------------------------------------------------
(* One owner for each block                                                *)

(* The place of a block: the file, the level (0: data), the block it is    *)
(* named in (NoBlock: the inode) and the slot there.                       *)
Spots == [own : Inodes, lvl : Levels, up : Refs, idx : Nat]
Spot(i, k, p, s) == [own |-> i, lvl |-> k, up |-> p, idx |-> s]

Packed(a) == \A s, t \in DOMAIN a : s < t /\ a[s] = NoBlock => a[t] = NoBlock
Names(at, a, i, k, p) ==
    \A s \in DOMAIN a : a[s] # NoBlock => a[s] \in DOMAIN at /\ at[a[s]] = Spot(i, k, p, s)
(* An array of block numbers that names the blocks whose place is in it.   *)
Right(at, a, i, k, p) == Packed(a) /\ Names(at, a, i, k, p)

(* The inodes in directories and the indirect blocks name live blocks, each *)
(* in its only place.                                                      *)
Forest(at) ==
    /\ at \in [DOMAIN at -> Spots] /\ DOMAIN at \subseteq DOMAIN content
    /\ \A i \in linked, k \in Levels : Right(at, ino[i].blocks[k], i, k, NoBlock)
    /\ \A p \in DOMAIN at : at[p].lvl > 0 =>
           Right(at, content[p], at[p].own, at[p].lvl - 1, p)

(* The array of an allocation leads to the next one by its last entry.     *)
Leads(a, b) == Len(Entries(a)) >= 1 /\ a[Len(Entries(a))] = b
StackRight(at, fs, t, i) ==
    /\ fs[1].target = NoBlock
    /\ \A d \in 1 .. Len(fs) : Right(at, fs[d].indblock, i, t - (d - 1), fs[d].target)
    /\ \A d \in 2 .. Len(fs) : Leads(fs[d - 1].indblock, fs[d].target)

Working == {"descend", "give_back", "unwind", "undo"}
Stacked(at) ==
    pc \in Working => /\ buf = ino[self] /\ self \in linked
                      /\ StackRight(at, frames, top, self)

(* What is on disk does not name the new indirect blocks yet.              *)
Unnamed(at, b) ==
    /\ \A i \in linked, k \in Levels : b \notin Range(ino[i].blocks[k])
    /\ \A p \in DOMAIN at : at[p].lvl > 0 => b \notin Range(content[p])
NewUnnamed(at) ==
    pc \in {"descend", "give_back", "undo"} =>
        \A d \in 2 .. Len(frames) : frames[d].new => Unnamed(at, frames[d].target)

(* What is given back has no place.                                        *)
Loose(at) ==
    /\ pc = "give_back" => cand \notin DOMAIN at
    /\ pc = "free_inode" => Range(todo) \intersect DOMAIN at = {}

Apart == free \intersect DOMAIN content = {}
Placed(at) == /\ Forest(at) /\ Stacked(at) /\ NewUnnamed(at) /\ Loose(at)
              /\ Apart /\ pc # "shrink"

(* A pointer was stored past the end of the last array of us, the arrays   *)
(* below it are new and no block has a place in them.                      *)
StrayFrames(at, us, fs) ==
    /\ Len(fs) > Len(us) /\ \A d \in 1 .. Len(us) : fs[d] = us[d]
    /\ \A d \in 1 .. Len(fs) : d > Len(us) =>
           fs[d].new /\ fs[d].target \in Blocks /\ fs[d].target \notin DOMAIN at
StackNew(at, us) == \A d \in 2 .. Len(us) : us[d].new => Unnamed(at, us[d].target)
Astray(at, us) ==
    /\ Forest(at) /\ Apart /\ overruns # {}
    /\ pc \in Working /\ buf = ino[self] /\ self \in linked
    /\ IsStack(us, top) /\ Len(us) >= 1 /\ StackRight(at, us, top, self)
    /\ Len(Entries(us[Len(us)].indblock)) >= 1
    /\ pc # "unwind" => StackNew(at, us)
    /\ StrayFrames(at, us, frames)
    /\ pc = "descend" => my_blocks = 0
    /\ pc = "give_back" => cand \notin DOMAIN at

OwnInv == failures \in Nat /\ (failures = 0 => \E at : Placed(at) \/ \E us : Astray(at, us))

LEMMA OwnPlaced ==
    ASSUME OwnInv, failures = 0, overruns = {}
    PROVE  \E at : Placed(at)
  BY DEF OwnInv, Astray

LEMMA RightKept ==
    ASSUME NEW at, NEW a, NEW i, NEW k, NEW p, Right(at, a, i, k, p), NEW at2,
           \A s \in DOMAIN a : a[s] # NoBlock => a[s] \in DOMAIN at2 /\ at2[a[s]] = at[a[s]]
    PROVE  Right(at2, a, i, k, p)
  BY DEF Right, Names

LEMMA RightEmpty ==
    ASSUME NEW a, \A s \in DOMAIN a : a[s] = NoBlock, NEW at, NEW i, NEW k, NEW p
    PROVE  Right(at, a, i, k, p)
  BY DEF Right, Names, Packed

LEMMA PackedIs ==
    ASSUME NEW n \in Nat, NEW a \in [1 .. n -> Refs], Packed(a)
    PROVE  /\ Len(Entries(a)) \in 0 .. n
           /\ \A s \in 1 .. n : a[s] = NoBlock <=> s > Len(Entries(a))
           /\ \A s \in 1 .. n : s <= Len(Entries(a)) => Entries(a)[s] = a[s]
<1> DEFINE e == Len(Entries(a))
<1>1. /\ e \in 0 .. n
      /\ \A s \in 1 .. e : Entries(a)[s] = a[s] /\ a[s] # NoBlock
      /\ e < n => a[e + 1] = NoBlock
  BY EntriesAre
<1> HIDE DEF e
<1>2. ASSUME NEW s \in 1 .. n, s > e PROVE a[s] = NoBlock
  <2>1. e < n /\ e + 1 \in 1 .. n /\ (s = e + 1 \/ e + 1 < s)
    BY <1>1, <1>2
  <2>2. a[e + 1] = NoBlock /\ DOMAIN a = 1 .. n
    BY <1>1, <2>1
  <2> QED
    BY <2>1, <2>2 DEF Packed
<1>3. ASSUME NEW s \in 1 .. n, ~(s > e) PROVE a[s] # NoBlock /\ Entries(a)[s] = a[s]
  <2>1. s \in 1 .. e
    BY <1>1, <1>3
  <2> QED
    BY <1>1, <2>1
<1>4. \A s \in 1 .. n : s <= e => ~(s > e)
  BY <1>1
<1> QED
  BY <1>1, <1>2, <1>3, <1>4 DEF e

LEMMA EntriesLen ==
    ASSUME NEW n \in Nat, NEW a \in [1 .. n -> Refs], NEW e \in 0 .. n,
           \A s \in 1 .. n : a[s] = NoBlock <=> s > e
    PROVE  Packed(a) /\ Len(Entries(a)) = e
<1>1. Packed(a)
  <2> SUFFICES ASSUME NEW s \in 1 .. n, NEW t \in 1 .. n, s < t, a[s] = NoBlock
               PROVE  a[t] = NoBlock
    BY DEF Packed
  <2> QED
    OBVIOUS
<1> DEFINE l == Len(Entries(a))
<1>2. l \in 0 .. n /\ \A s \in 1 .. n : a[s] = NoBlock <=> s > l
  BY <1>1, PackedIs
<1> HIDE DEF l
<1>3. ~(l < e)
  <2> SUFFICES ASSUME l < e PROVE FALSE
    OBVIOUS
  <2>1. e \in 1 .. n /\ e > l /\ ~(e > e)
    BY <1>2
  <2> QED
    BY <1>2, <2>1
<1>4. ~(e < l)
  <2> SUFFICES ASSUME e < l PROVE FALSE
    OBVIOUS
  <2>1. l \in 1 .. n /\ l > e /\ ~(l > l)
    BY <1>2
  <2> QED
    BY <1>2, <2>1
<1>5. l = e
  BY <1>2, <1>3, <1>4
<1> QED
  BY <1>1, <1>5 DEF l

(* An entry more, and one less.                                            *)
LEMMA EntryMore ==
    ASSUME NEW n \in Nat, NEW a \in [1 .. n -> Refs], Packed(a), NEW b \in Blocks,
           Len(Entries(a)) < n, NEW c \in [1 .. n -> Refs],
           \A s \in 1 .. n : c[s] = IF s = Len(Entries(a)) + 1 THEN b ELSE a[s]
    PROVE  Packed(c) /\ Len(Entries(c)) = Len(Entries(a)) + 1
<1> DEFINE e == Len(Entries(a))
<1>1. e \in 0 .. n /\ \A s \in 1 .. n : a[s] = NoBlock <=> s > e
  BY PackedIs
<1>2. e < n /\ \A s \in 1 .. n : c[s] = IF s = e + 1 THEN b ELSE a[s]
  OBVIOUS
<1>3. b # NoBlock
  BY Layout
<1> HIDE DEF e
<1>4. e + 1 \in 0 .. n
  BY <1>1, <1>2
<1>5. \A s \in 1 .. n : c[s] = NoBlock <=> s > e + 1
  <2> SUFFICES ASSUME NEW s \in 1 .. n PROVE c[s] = NoBlock <=> s > e + 1
    OBVIOUS
  <2>1. CASE s = e + 1
    BY <1>1, <1>2, <1>3, <2>1
  <2>2. CASE s # e + 1
    <3>1. c[s] = a[s] /\ (s > e <=> s > e + 1)
      BY <1>1, <1>2, <2>2
    <3> QED
      BY <1>1, <3>1
  <2> QED
    BY <2>1, <2>2
<1>6. Packed(c) /\ Len(Entries(c)) = e + 1
  BY <1>4, <1>5, EntriesLen
<1> QED
  BY <1>6 DEF e

LEMMA EntryLess ==
    ASSUME NEW n \in Nat, NEW a \in [1 .. n -> Refs], Packed(a),
           Len(Entries(a)) >= 1, NEW c \in [1 .. n -> Refs],
           \A s \in 1 .. n : c[s] = IF s = Len(Entries(a)) THEN NoBlock ELSE a[s]
    PROVE  Packed(c) /\ Len(Entries(c)) = Len(Entries(a)) - 1
<1> DEFINE e == Len(Entries(a))
<1>1. e \in 0 .. n /\ \A s \in 1 .. n : a[s] = NoBlock <=> s > e
  BY PackedIs
<1>2. e >= 1 /\ \A s \in 1 .. n : c[s] = IF s = e THEN NoBlock ELSE a[s]
  OBVIOUS
<1> HIDE DEF e
<1>4. e - 1 \in 0 .. n
  BY <1>1, <1>2
<1>5. \A s \in 1 .. n : c[s] = NoBlock <=> s > e - 1
  <2> SUFFICES ASSUME NEW s \in 1 .. n PROVE c[s] = NoBlock <=> s > e - 1
    OBVIOUS
  <2>1. CASE s = e
    BY <1>1, <1>2, <2>1
  <2>2. CASE s # e
    <3>1. c[s] = a[s] /\ (s > e <=> s > e - 1)
      BY <1>1, <1>2, <2>2
    <3> QED
      BY <1>1, <3>1
  <2> QED
    BY <2>1, <2>2
<1>6. Packed(c) /\ Len(Entries(c)) = e - 1
  <2>1. PICK m \in 0 .. n : m = e - 1
    BY <1>4
  <2>2. \A s \in 1 .. n : c[s] = NoBlock <=> s > m
    BY <1>5, <2>1
  <2>3. Len(Entries(c)) = m /\ Packed(c)
    BY <2>2, EntriesLen
  <2> QED
    BY <2>1, <2>3
<1> QED
  BY <1>6 DEF e

(* Steps of the stack.                                                     *)
LEMMA StackArray ==
    ASSUME NEW t \in Levels, NEW fs, IsStack(fs, t), NEW d \in 1 .. Len(fs)
    PROVE  /\ Width(t, d) \in Nat /\ fs[d].indblock \in [1 .. Width(t, d) -> Refs]
           /\ DOMAIN fs[d].indblock = 1 .. Width(t, d)
           /\ fs \in Seq(Frame) /\ fs[d] \in Frame /\ Len(fs) \in Nat /\ d \in Nat
  BY Layout DEF IsStack, Width

LEMMA StackOther ==
    ASSUME NEW t \in Levels, NEW fs, IsStack(fs, t), NEW i, NEW at, NEW at2,
           StackRight(at, fs, t, i),
           \A x \in DOMAIN at : x \in DOMAIN at2 /\ at2[x] = at[x]
    PROVE  StackRight(at2, fs, t, i)
<1>1. ASSUME NEW d \in 1 .. Len(fs)
      PROVE  Right(at2, fs[d].indblock, i, t - (d - 1), fs[d].target)
  <2>1. Right(at, fs[d].indblock, i, t - (d - 1), fs[d].target)
    BY DEF StackRight
  <2>2. ASSUME NEW s \in DOMAIN fs[d].indblock, fs[d].indblock[s] # NoBlock
        PROVE  /\ fs[d].indblock[s] \in DOMAIN at2
               /\ at2[fs[d].indblock[s]] = at[fs[d].indblock[s]]
    BY <2>1, <2>2 DEF Right, Names
  <2> QED
    BY <2>1, <2>2, RightKept
<1> QED
  BY <1>1 DEF StackRight

LEMMA StackPop ==
    ASSUME NEW t \in Levels, NEW fs, IsStack(fs, t), Len(fs) > 1, NEW i, NEW at,
           StackRight(at, fs, t, i), NEW gs, gs = Front(fs)
    PROVE  StackRight(at, gs, t, i)
<1>1. /\ Len(gs) = Len(fs) - 1 /\ \A d \in 1 .. Len(gs) : gs[d] = fs[d]
  <2>1. Len(fs) >= 1
    BY DEF IsStack
  <2>2. IsFront(fs, gs, t)
    BY <2>1, PopIs
  <2> QED
    BY <2>2 DEF IsFront
<1>2. Len(fs) \in Nat
  BY DEF IsStack
<1>3. gs[1].target = NoBlock
  BY <1>1, <1>2 DEF StackRight
<1>4. ASSUME NEW d \in 1 .. Len(gs)
      PROVE  Right(at, gs[d].indblock, i, t - (d - 1), gs[d].target)
  BY <1>1, <1>2 DEF StackRight
<1>5. ASSUME NEW d \in 2 .. Len(gs) PROVE Leads(gs[d - 1].indblock, gs[d].target)
  <2>1. d - 1 \in 1 .. Len(gs) /\ d \in 1 .. Len(gs) /\ d \in 2 .. Len(fs)
    BY <1>1, <1>2
  <2> QED
    BY <1>1, <2>1 DEF StackRight
<1> QED
  BY <1>3, <1>4, <1>5 DEF StackRight

LEMMA StackPush ==
    ASSUME NEW t \in Levels, NEW fs, IsStack(fs, t), Len(fs) >= 1, Len(fs) <= t,
           NEW i, NEW at, StackRight(at, fs, t, i),
           NEW f \in Frame, f.indblock \in Array,
           Leads(fs[Len(fs)].indblock, f.target),
           Right(at, f.indblock, i, t - Len(fs), f.target),
           NEW gs, gs = Append(fs, f)
    PROVE  StackRight(at, gs, t, i)
<1>1. /\ Len(gs) = Len(fs) + 1 /\ gs[Len(gs)] = f
      /\ \A d \in 1 .. Len(fs) : gs[d] = fs[d]
  BY PushIs
<1>2. Len(fs) \in Nat
  BY DEF IsStack
<1>3. gs[1].target = NoBlock
  BY <1>1, <1>2 DEF StackRight
<1>4. ASSUME NEW d \in 1 .. Len(gs)
      PROVE  Right(at, gs[d].indblock, i, t - (d - 1), gs[d].target)
  <2>1. CASE d = Len(gs)
    <3>1. d - 1 = Len(fs)
      BY <1>1, <1>2, <2>1
    <3> QED
      BY <1>1, <2>1, <3>1
  <2>2. CASE d # Len(gs)
    <3>1. d \in 1 .. Len(fs)
      BY <1>1, <1>2, <2>2
    <3> QED
      BY <1>1, <3>1 DEF StackRight
  <2> QED
    BY <2>1, <2>2
<1>5. ASSUME NEW d \in 2 .. Len(gs) PROVE Leads(gs[d - 1].indblock, gs[d].target)
  <2>1. CASE d = Len(gs)
    <3>1. d - 1 = Len(fs) /\ Len(fs) \in 1 .. Len(fs)
      BY <1>1, <1>2, <2>1
    <3> QED
      BY <1>1, <2>1, <3>1
  <2>2. CASE d # Len(gs)
    <3>1. d - 1 \in 1 .. Len(fs) /\ d \in 1 .. Len(fs) /\ d \in 2 .. Len(fs)
      BY <1>1, <1>2, <2>2
    <3> QED
      BY <1>1, <3>1 DEF StackRight
  <2> QED
    BY <2>1, <2>2
<1> QED
  BY <1>3, <1>4, <1>5 DEF StackRight

IsStored(at, fs, gs, t, i, D, b) ==
    /\ StackRight(at, gs, t, i) /\ Leads(gs[D].indblock, b)
    /\ IsStack(gs, t) /\ Len(gs) = Len(fs)
    /\ \A d \in 1 .. Len(fs) : gs[d].target = fs[d].target /\ gs[d].new = fs[d].new

(* A block stored in the last array of the stack, where its place is.      *)
LEMMA StackStore ==
    ASSUME NEW t \in Levels, NEW fs, IsStack(fs, t), NEW D \in 1 .. Len(fs), D = Len(fs),
           NEW i, NEW at, StackRight(at, fs, t, i),
           NEW e \in Nat, e = Len(Entries(fs[D].indblock)), e < Width(t, D),
           NEW b \in Blocks, b \in DOMAIN at,
           at[b] = Spot(i, t - (D - 1), fs[D].target, e + 1),
           NEW gs, gs = Put(fs, D, e + 1, b)
    PROVE  IsStored(at, fs, gs, t, i, D, b)
<1>1. b \in Refs /\ e + 1 \in Nat /\ b # NoBlock
  BY Layout
<1>2. IsPut(fs, gs, t, D, e + 1, b)
  <2>1. PICK n \in Nat, c \in Refs : n = e + 1 /\ c = b
    BY <1>1
  <2>2. IsPut(fs, gs, t, D, n, c)
    <3>1. gs = Put(fs, D, n, c)
      BY <2>1
    <3> QED
      BY <3>1, PutIs
  <2> QED
    BY <2>1, <2>2
<1> DEFINE a == fs[D].indblock
           c == gs[D].indblock
           n == Width(t, D)
<1>3. /\ n \in Nat /\ a \in [1 .. n -> Refs] /\ c \in [1 .. n -> Refs]
      /\ IsStack(gs, t) /\ Len(gs) = Len(fs)
      /\ \A d \in 1 .. Len(fs) : d # D => gs[d] = fs[d]
      /\ gs[D].target = fs[D].target /\ gs[D].new = fs[D].new
      /\ \A s \in 1 .. n : c[s] = IF s = e + 1 THEN b ELSE a[s]
  BY <1>2, StackArray DEF IsPut
<1>4. Right(at, a, i, t - (D - 1), fs[D].target) /\ fs[1].target = NoBlock
  BY DEF StackRight
<1>5. e = Len(Entries(a)) /\ e < n
  OBVIOUS
<1> HIDE DEF a, c, n
<1>6. Packed(c) /\ Len(Entries(c)) = e + 1
  <2>1. Packed(a)
    BY <1>4 DEF Right
  <2> QED
    BY <1>3, <1>5, <2>1, EntryMore
<1>7. Right(at, c, i, t - (D - 1), fs[D].target)
  <2> DEFINE k == t - (D - 1)
             q == fs[D].target
  <2>1. Names(at, a, i, k, q)
    BY <1>4 DEF Right
  <2>2. at[b] = Spot(i, k, q, e + 1)
    OBVIOUS
  <2> HIDE DEF k, q
  <2>3. Names(at, c, i, k, q)
    BY <1>3, <2>1, <2>2 DEF Names
  <2> QED
    BY <1>6, <2>3 DEF Right, k, q
<1>8. Leads(c, b)
  <2>1. e + 1 >= 1 /\ e + 1 \in 1 .. n
    BY <1>3, <1>5
  <2>2. c[e + 1] = b
    BY <1>3, <2>1
  <2> QED
    BY <1>6, <2>1, <2>2 DEF Leads
<1>9. ASSUME NEW d \in 1 .. Len(gs)
      PROVE  Right(at, gs[d].indblock, i, t - (d - 1), gs[d].target)
  <2>1. CASE d = D
    BY <1>3, <1>7, <2>1 DEF c
  <2>2. CASE d # D
    BY <1>3, <2>2 DEF StackRight
  <2> QED
    BY <2>1, <2>2
<1>10. ASSUME NEW d \in 2 .. Len(gs) PROVE Leads(gs[d - 1].indblock, gs[d].target)
  <2>1. d - 1 \in 1 .. Len(fs) /\ d \in 1 .. Len(fs) /\ d - 1 # D /\ d \in 2 .. Len(fs)
    BY <1>3
  <2>2. gs[d - 1] = fs[d - 1] /\ gs[d].target = fs[d].target
    BY <1>3, <2>1
  <2> QED
    BY <2>1, <2>2 DEF StackRight
<1>11. gs[1].target = NoBlock
  <2>1. 1 \in 1 .. Len(fs)
    OBVIOUS
  <2> QED
    BY <1>3, <1>4, <2>1
<1>12. \A d \in 1 .. Len(fs) : gs[d].target = fs[d].target /\ gs[d].new = fs[d].new
  BY <1>3
<1> QED
  BY <1>3, <1>8, <1>9, <1>10, <1>11, <1>12 DEF StackRight, c, IsStored

(* The block an array of the stack leads to.                               *)
IsTarget(at, fs, t, i, d) ==
    /\ fs[d].target \in DOMAIN at /\ fs[d].target # NoBlock
    /\ d - 1 \in 1 .. Len(fs)
    /\ Len(Entries(fs[d - 1].indblock)) \in 1 .. Width(t, d - 1)
    /\ fs[d - 1].indblock[Len(Entries(fs[d - 1].indblock))] = fs[d].target
    /\ at[fs[d].target] = Spot(i, t - (d - 2), fs[d - 1].target,
                               Len(Entries(fs[d - 1].indblock)))

LEMMA TargetIs ==
    ASSUME NEW t \in Levels, NEW fs, IsStack(fs, t), NEW i, NEW at, StackRight(at, fs, t, i),
           NEW d \in 2 .. Len(fs)
    PROVE  IsTarget(at, fs, t, i, d)
<1>1. d - 1 \in 1 .. Len(fs) /\ t - ((d - 1) - 1) = t - (d - 2)
  BY DEF Levels
<1>2. PICK c : c = d - 1
  OBVIOUS
<1> DEFINE a == fs[c].indblock
           e == Len(Entries(a))
           n == Width(t, c)
<1>3. n \in Nat /\ a \in [1 .. n -> Refs]
  BY <1>1, <1>2, StackArray
<1>4. e >= 1 /\ a[e] = fs[d].target
  BY <1>2 DEF StackRight, Leads
<1>5. Right(at, a, i, t - (c - 1), fs[c].target)
  BY <1>1, <1>2 DEF StackRight
<1> HIDE DEF n
<1>6. e \in 0 .. n /\ \A s \in 1 .. e : a[s] # NoBlock
  <2> HIDE DEF a
  <2> QED
    BY <1>3, EntriesAre
<1> HIDE DEF a, e
<1>7. e \in 1 .. n /\ a[e] # NoBlock /\ DOMAIN a = 1 .. n
  BY <1>3, <1>4, <1>6
<1>8. a[e] \in DOMAIN at /\ at[a[e]] = Spot(i, t - (c - 1), fs[c].target, e)
  BY <1>5, <1>7 DEF Right, Names
<1> QED
  BY <1>1, <1>2, <1>4, <1>7, <1>8 DEF a, e, n, IsTarget

Without(at, b) == [x \in DOMAIN at \ {b} |-> at[x]]

(* A new block given back, and the pointer to it cleared.                  *)
LEMMA StackUndo ==
    ASSUME NEW t \in Levels, NEW fs, IsStack(fs, t), NEW D \in 1 .. Len(fs), D + 1 = Len(fs),
           NEW i, NEW at, StackRight(at, fs, t, i),
           NEW e \in Nat, e = Len(Entries(fs[D].indblock)),
           NEW us, us = Front(fs), NEW gs, gs = Put(us, D, e, NoBlock)
    PROVE  /\ StackRight(Without(at, fs[D + 1].target), gs, t, i) /\ Len(gs) = D
           /\ \A d \in 1 .. D : gs[d].target = fs[d].target /\ gs[d].new = fs[d].new
<1> DEFINE b == fs[D + 1].target
           at2 == Without(at, b)
<1>1. /\ b \in DOMAIN at /\ b # NoBlock
      /\ e \in 1 .. Width(t, D) /\ fs[D].indblock[e] = b
      /\ at[b] = Spot(i, t - (D - 1), fs[D].target, e)
  <2>1. PICK d \in 2 .. Len(fs) : d = D + 1
    OBVIOUS
  <2>2. IsTarget(at, fs, t, i, d)
    BY TargetIs
  <2>3. d - 1 = D /\ d - 2 = D - 1
    BY <2>1
  <2> QED
    BY <2>1, <2>2, <2>3 DEF IsTarget
<1>2. IsStack(us, t) /\ Len(us) = D /\ \A d \in 1 .. D : us[d] = fs[d]
  <2>1. Len(fs) >= 1 /\ Len(fs) \in Nat /\ D = Len(fs) - 1
    BY StackArray
  <2>2. IsFront(fs, us, t)
    BY <2>1, PopIs
  <2> QED
    BY <2>1, <2>2 DEF IsFront
<1>3. IsPut(us, gs, t, D, e, NoBlock)
  <2>1. PICK c \in Refs : c = NoBlock
    BY DEF Refs
  <2>2. D \in 1 .. Len(us) /\ gs = Put(us, D, e, c)
    BY <1>2, <2>1
  <2>3. IsPut(us, gs, t, D, e, c)
    BY <1>2, <2>2, PutIs
  <2> QED
    BY <2>1, <2>3
<1>4. /\ Len(gs) = D /\ IsStack(gs, t)
      /\ \A d \in 1 .. D : d # D => gs[d] = fs[d]
      /\ gs[D].target = fs[D].target /\ gs[D].new = fs[D].new
      /\ \A s \in 1 .. Width(t, D) :
             gs[D].indblock[s] = IF s = e THEN NoBlock ELSE fs[D].indblock[s]
  BY <1>2, <1>3 DEF IsPut
<1>5. \A x \in DOMAIN at : x # b => x \in DOMAIN at2 /\ at2[x] = at[x]
  BY DEF Without
<1> HIDE DEF at2
<1>6. ASSUME NEW d \in 1 .. D, d # D PROVE Right(at2, gs[d].indblock, i, t - (d - 1), gs[d].target)
  <2>1. gs[d] = fs[d] /\ Right(at, fs[d].indblock, i, t - (d - 1), fs[d].target)
    BY <1>4, <1>6 DEF StackRight
  <2>2. ASSUME NEW s \in DOMAIN fs[d].indblock, fs[d].indblock[s] # NoBlock
        PROVE  fs[d].indblock[s] \in DOMAIN at2 /\ at2[fs[d].indblock[s]] = at[fs[d].indblock[s]]
    <3> DEFINE x == fs[d].indblock[s]
    <3>1. x \in DOMAIN at /\ at[x] = Spot(i, t - (d - 1), fs[d].target, s)
      BY <2>1, <2>2 DEF Right, Names
    <3>2. at[x].lvl = t - (d - 1) /\ at[b].lvl = t - (D - 1)
      BY <1>1, <3>1 DEF Spot
    <3>3. t - (d - 1) # t - (D - 1)
      BY <1>6 DEF Levels
    <3>4. x # b
      BY <3>2, <3>3
    <3> QED
      BY <1>5, <3>1, <3>4
  <2> QED
    BY <2>1, <2>2, RightKept
<1>7. Right(at2, gs[D].indblock, i, t - (D - 1), fs[D].target)
  <2> DEFINE a == fs[D].indblock
             c == gs[D].indblock
             n == Width(t, D)
             k == t - (D - 1)
             q == fs[D].target
  <2>1. /\ n \in Nat /\ a \in [1 .. n -> Refs] /\ DOMAIN a = 1 .. n
        /\ c \in [1 .. n -> Refs] /\ DOMAIN c = 1 .. n
    BY <1>4, StackArray
  <2>2. Packed(a) /\ Names(at, a, i, k, q)
    BY DEF StackRight, Right
  <2>3. e = Len(Entries(a)) /\ e >= 1 /\ \A s \in 1 .. n : c[s] = IF s = e THEN NoBlock ELSE a[s]
    BY <1>1, <1>4
  <2>4. at[b] = Spot(i, k, q, e)
    BY <1>1
  <2> HIDE DEF a, c, n, k, q
  <2>5. Packed(c)
    BY <2>1, <2>2, <2>3, EntryLess
  <2>6. ASSUME NEW s \in 1 .. n, c[s] # NoBlock
        PROVE  c[s] \in DOMAIN at2 /\ at2[c[s]] = Spot(i, k, q, s)
    <3>1. s # e /\ c[s] = a[s]
      BY <2>3, <2>6
    <3>2. a[s] \in DOMAIN at /\ at[a[s]] = Spot(i, k, q, s)
      BY <2>1, <2>2, <2>6, <3>1 DEF Names
    <3>3. a[s] # b
      BY <2>4, <3>1, <3>2 DEF Spot
    <3> QED
      BY <1>5, <3>1, <3>2, <3>3
  <2>7. Right(at2, c, i, k, q)
    BY <2>1, <2>5, <2>6 DEF Right, Names
  <2> QED
    BY <2>7 DEF a, c, n, k, q
<1>8. ASSUME NEW d \in 2 .. D PROVE Leads(gs[d - 1].indblock, gs[d].target)
  <2>1. d - 1 \in 1 .. D /\ d - 1 # D /\ d \in 1 .. D /\ d \in 2 .. Len(fs)
    OBVIOUS
  <2>2. gs[d - 1] = fs[d - 1] /\ gs[d].target = fs[d].target
    BY <1>4, <2>1
  <2> QED
    BY <2>1, <2>2 DEF StackRight
<1>9. gs[1].target = NoBlock
  <2>1. 1 \in 1 .. D
    OBVIOUS
  <2>2. gs[1].target = fs[1].target
    BY <1>4, <2>1
  <2> QED
    BY <2>2 DEF StackRight
<1>10. StackRight(at2, gs, t, i)
  BY <1>4, <1>6, <1>7, <1>8, <1>9 DEF StackRight
<1>11. \A d \in 1 .. D : gs[d].target = fs[d].target /\ gs[d].new = fs[d].new
  BY <1>4
<1> QED
  BY <1>4, <1>10, <1>11 DEF at2

-----------------------------------------------------------------------------
(* Steps of an allocation                                                  *)
LEMMA ForestSame ==
    ASSUME NEW at, Forest(at), ino' = ino, linked' \subseteq linked,
           \A p \in DOMAIN at : p \in DOMAIN content' /\ content'[p] = content[p]
    PROVE  Forest(at)'
<1>1. at \in [DOMAIN at -> Spots] /\ DOMAIN at \subseteq DOMAIN content'
  BY DEF Forest
<1>2. \A i \in linked', k \in Levels : Right(at, ino'[i].blocks[k], i, k, NoBlock)
  BY DEF Forest
<1>3. \A p \in DOMAIN at : at[p].lvl > 0 => Right(at, content'[p], at[p].own, at[p].lvl - 1, p)
  BY DEF Forest
<1> QED
  BY <1>1, <1>2, <1>3 DEF Forest

LEMMA UnnamedSame ==
    ASSUME NEW at, NEW b, Unnamed(at, b), ino' = ino, linked' \subseteq linked,
           \A p \in DOMAIN at : content'[p] = content[p]
    PROVE  Unnamed(at, b)'
<1>1. \A i \in linked', k \in Levels : b \notin Range(ino'[i].blocks[k])
  BY DEF Unnamed
<1>2. \A p \in DOMAIN at : at[p].lvl > 0 => b \notin Range(content'[p])
  BY DEF Unnamed
<1> QED
  BY <1>1, <1>2 DEF Unnamed

LEMMA UnnamedKept ==
    ASSUME NEW at, pc \in {"descend", "give_back", "undo"}, NewUnnamed(at),
           ino' = ino, linked' \subseteq linked,
           \A p \in DOMAIN at : content'[p] = content[p],
           \A d \in 2 .. Len(frames') : frames'[d].new =>
               /\ d \in 2 .. Len(frames) /\ frames[d].new
               /\ frames'[d].target = frames[d].target
    PROVE  NewUnnamed(at)'
<1>1. PICK fs : fs = frames'
  OBVIOUS
<1> SUFFICES ASSUME NEW d \in 2 .. Len(fs), fs[d].new PROVE Unnamed(at, fs[d].target)'
  BY <1>1 DEF NewUnnamed
<1>2. PICK x : x = fs[d].target
  OBVIOUS
<1>3. Unnamed(at, x)
  BY <1>1, <1>2 DEF NewUnnamed
<1>4. Unnamed(at, x)'
  BY <1>3, UnnamedSame
<1> QED
  BY <1>2, <1>4

LEMMA UnplacedUnnamed ==
    ASSUME NEW at, Forest(at), NEW b \in Blocks, b \notin DOMAIN at
    PROVE  Unnamed(at, b)
<1>1. ASSUME NEW a, NEW i, NEW k, NEW p, Right(at, a, i, k, p) PROVE b \notin Range(a)
  BY <1>1, Layout DEF Right, Names, Range
<1>2. \A i \in linked, k \in Levels : b \notin Range(ino[i].blocks[k])
  BY <1>1 DEF Forest
<1>3. \A p \in DOMAIN at : at[p].lvl > 0 => b \notin Range(content[p])
  BY <1>1 DEF Forest
<1> QED
  BY <1>2, <1>3 DEF Unnamed

(* A block popped for a place.                                             *)
Grown(at, b, spot) == [x \in DOMAIN at \union {b} |-> IF x = b THEN spot ELSE at[x]]

LEMMA GrownIs ==
    ASSUME NEW at, NEW b, b \notin DOMAIN at, NEW spot
    PROVE  /\ DOMAIN Grown(at, b, spot) = DOMAIN at \union {b} /\ Grown(at, b, spot)[b] = spot
           /\ \A x \in DOMAIN at : Grown(at, b, spot)[x] = at[x] /\ x # b
  BY DEF Grown

PoppedFor(at, b) ==
    /\ b \in Blocks /\ b \notin DOMAIN at /\ b \in DOMAIN content' /\ content'[b] = EmptyArray
    /\ \A p \in DOMAIN at : p \in DOMAIN content' /\ content'[p] = content[p]
    /\ Apart' /\ PoolType' /\ ino' = ino /\ linked' = linked

LEMMA PopApart ==
    ASSUME TypeInv, Apart, NEW at, Forest(at), NEW b \in Poppable, Pool!Alloc(b),
           UNCHANGED <<ino, linked>>
    PROVE  PoppedFor(at, b)
<1>1. b \in Blocks
  BY PoppableIs, TypeParts
<1>2. PoolType' /\ DOMAIN content' = DOMAIN content \union {b} /\ b \in free
      /\ free' = free \ {b} /\ content'[b] = EmptyArray
      /\ \A c \in DOMAIN content : c # b => content'[c] = content[c]
  BY <1>1, AllocType, TypeParts
<1>3. b \notin DOMAIN content /\ DOMAIN at \subseteq DOMAIN content
  BY <1>2 DEF Apart, Forest
<1>4. Apart'
  BY <1>2, <1>3 DEF Apart
<1> QED
  BY <1>1, <1>2, <1>3, <1>4 DEF PoppedFor

LEMMA ForestGrown ==
    ASSUME NEW at, Forest(at), NEW b, PoppedFor(at, b), NEW spot \in Spots
    PROVE  Forest(Grown(at, b, spot))'
<1> DEFINE at2 == Grown(at, b, spot)
<1>1. /\ DOMAIN at2 = DOMAIN at \union {b} /\ at2[b] = spot
      /\ \A x \in DOMAIN at : at2[x] = at[x] /\ x # b
  <2>1. b \notin DOMAIN at
    BY DEF PoppedFor
  <2> QED
    BY <2>1 DEF Grown
<1>2. at2 \in [DOMAIN at2 -> Spots]
  <2>1. at \in [DOMAIN at -> Spots]
    BY DEF Forest
  <2> QED
    BY <2>1 DEF Grown
<1> HIDE DEF at2
<1>3. \A a, i, k, p : Right(at, a, i, k, p) => Right(at2, a, i, k, p)
  <2> SUFFICES ASSUME NEW a, NEW i, NEW k, NEW p, Right(at, a, i, k, p)
               PROVE  Right(at2, a, i, k, p)
    OBVIOUS
  <2>1. ASSUME NEW s \in DOMAIN a, a[s] # NoBlock
        PROVE  a[s] \in DOMAIN at2 /\ at2[a[s]] = at[a[s]]
    BY <1>1, <2>1 DEF Right, Names
  <2> QED
    BY <2>1, RightKept
<1>4. DOMAIN at2 \subseteq DOMAIN content'
  BY <1>1 DEF PoppedFor
<1>5. \A i \in linked', k \in Levels : Right(at2, ino'[i].blocks[k], i, k, NoBlock)
  BY <1>3 DEF Forest, PoppedFor
<1>6. ASSUME NEW p \in DOMAIN at2, at2[p].lvl > 0
      PROVE  Right(at2, content'[p], at2[p].own, at2[p].lvl - 1, p)
  <2>1. CASE p = b
    <3>1. \A s \in DOMAIN content'[p] : content'[p][s] = NoBlock
      BY <2>1 DEF PoppedFor, EmptyArray
    <3> QED
      BY <3>1, RightEmpty
  <2>2. CASE p # b
    <3>1. p \in DOMAIN at /\ at2[p] = at[p]
      BY <1>1, <2>2
    <3>2. Right(at, content[p], at[p].own, at[p].lvl - 1, p) /\ content'[p] = content[p]
      BY <1>6, <3>1 DEF Forest, PoppedFor
    <3> QED
      BY <1>3, <3>1, <3>2
  <2> QED
    BY <2>1, <2>2
<1>7. Forest(at2)'
  BY <1>2, <1>4, <1>5, <1>6 DEF Forest
<1> QED
  BY <1>7 DEF at2

LEMMA UnnamedGrown ==
    ASSUME NEW at, NEW b, PoppedFor(at, b), NEW spot,
           NEW x, x # NoBlock, Unnamed(at, x)
    PROVE  Unnamed(Grown(at, b, spot), x)'
<1> DEFINE at2 == Grown(at, b, spot)
<1>1. /\ DOMAIN at2 = DOMAIN at \union {b} /\ at2[b] = spot
      /\ \A y \in DOMAIN at : at2[y] = at[y] /\ y # b
  <2>1. b \notin DOMAIN at
    BY DEF PoppedFor
  <2> QED
    BY <2>1 DEF Grown
<1> HIDE DEF at2
<1>2. \A i \in linked', k \in Levels : x \notin Range(ino'[i].blocks[k])
  BY DEF Unnamed, PoppedFor
<1>3. ASSUME NEW p \in DOMAIN at2, at2[p].lvl > 0 PROVE x \notin Range(content'[p])
  <2>1. CASE p = b
    <3>1. content'[p] = EmptyArray
      BY <2>1 DEF PoppedFor
    <3> QED
      BY <3>1 DEF EmptyArray, Range
  <2>2. CASE p # b
    BY <1>1, <1>3, <2>2 DEF Unnamed, PoppedFor
  <2> QED
    BY <2>1, <2>2
<1>4. Unnamed(at2, x)'
  BY <1>2, <1>3 DEF Unnamed
<1> QED
  BY <1>4 DEF at2

(* What the running allocation works in.                                   *)
LEMMA WorkingIs ==
    ASSUME TypeInv, NEW at, Stacked(at), pc \in Working
    PROVE  /\ pc \in Allocating /\ buf = ino[self] /\ self \in linked /\ self \in Inodes
           /\ self = buf.inum
           /\ top \in Levels /\ IsStack(frames, top) /\ StackRight(at, frames, top, self)
           /\ Depth \in 1 .. Len(frames) /\ Depth = Len(frames) /\ Depth \in Nat
           /\ level = top - (Depth - 1) /\ level \in Levels
           /\ Right(at, blocks, self, level, frames[Depth].target)
           /\ blocks = frames[Depth].indblock /\ first_unused = Len(Entries(blocks))
           /\ first_unused \in Nat /\ frames[Depth].target \in Refs
           /\ \A s \in 1 .. Width(top, Depth) : blocks[s] = NoBlock <=> s > first_unused
           /\ blocks \in [1 .. Width(top, Depth) -> Refs] /\ Len(blocks) = Width(top, Depth)
<1>1. pc \in Allocating
  BY DEF Working, Allocating
<1>2. buf = ino[self] /\ self \in linked /\ StackRight(at, frames, top, self)
  BY DEF Stacked
<1>3. self = buf.inum /\ self \in Inodes /\ top \in Levels /\ IsStack(frames, top)
  BY TypeParts DEF self, Changing, IsInode, InodeRecord
<1>4. /\ Depth = Len(frames) /\ Depth \in Nat /\ level = top - (Depth - 1) /\ level \in Levels
      /\ blocks = frames[Depth].indblock /\ frames[Depth] \in Frame
      /\ blocks \in [1 .. Width(top, Depth) -> Refs] /\ Width(top, Depth) \in Nat
      /\ Len(blocks) = Width(top, Depth)
      /\ Depth \in 1 .. (top + 1)
  BY <1>1, StackIs
<1>5. Depth \in 1 .. Len(frames)
  BY <1>4
<1>6. Right(at, blocks, self, level, frames[Depth].target)
  BY <1>2, <1>4, <1>5 DEF StackRight
<1>7. first_unused = Len(Entries(blocks)) /\ frames[Depth].target \in Refs
  BY <1>4 DEF first_unused, Frame
<1>8. /\ first_unused \in Nat
      /\ \A s \in 1 .. Width(top, Depth) : blocks[s] = NoBlock <=> s > first_unused
  <2>1. Packed(blocks)
    BY <1>6 DEF Right
  <2>2. /\ Len(Entries(blocks)) \in 0 .. Width(top, Depth)
        /\ \A s \in 1 .. Width(top, Depth) : blocks[s] = NoBlock <=> s > Len(Entries(blocks))
    BY <1>4, <2>1, PackedIs
  <2> QED
    BY <1>4, <1>7, <2>2
<1> QED
  BY <1>1, <1>2, <1>3, <1>4, <1>5, <1>6, <1>7, <1>8

LEMMA PlaceStored ==
    ASSUME TypeInv, NEW at, Placed(at), pc \in Working, NEW b, PoppedFor(at, b),
           first_unused < Len(blocks)
    PROVE  \E spot \in Spots : /\ spot = Spot(self, level, frames[Depth].target, first_unused + 1)
                               /\ Forest(Grown(at, b, spot))'
                               /\ IsStored(Grown(at, b, spot), frames, Stored(b), top, self,
                                           Depth, b)
<1>1. b \in Blocks /\ b \notin DOMAIN at /\ b # NoBlock
  BY Layout DEF PoppedFor
<1>2. /\ self \in linked /\ self \in Inodes
      /\ top \in Levels /\ IsStack(frames, top) /\ StackRight(at, frames, top, self)
      /\ Depth \in 1 .. Len(frames) /\ Depth = Len(frames) /\ Depth \in Nat
      /\ level = top - (Depth - 1) /\ level \in Levels
      /\ blocks = frames[Depth].indblock /\ first_unused = Len(Entries(blocks))
      /\ first_unused \in Nat /\ frames[Depth].target \in Refs
      /\ Len(blocks) = Width(top, Depth)
  BY WorkingIs DEF Placed
<1>3. PICK spot \in Spots : spot = Spot(self, level, frames[Depth].target, first_unused + 1)
  <2>1. PICK i \in Inodes, k \in Levels, p \in Refs, n \in Nat :
            i = self /\ k = level /\ p = frames[Depth].target /\ n = first_unused + 1
    BY <1>2
  <2>2. Spot(i, k, p, n) \in Spots
    BY DEF Spot, Spots
  <2> QED
    BY <2>1, <2>2
<1>4. PICK at2 : at2 = Grown(at, b, spot)
  OBVIOUS
<1>5. /\ DOMAIN at2 = DOMAIN at \union {b} /\ at2[b] = spot
      /\ \A x \in DOMAIN at : at2[x] = at[x] /\ x # b
  BY <1>1, <1>4 DEF Grown
<1>6. Forest(at2)'
  BY <1>4, ForestGrown DEF Placed
<1>7. PICK D \in 1 .. Len(frames), e \in Nat : D = Depth /\ e = first_unused
  BY <1>2
<1>8. PICK gs : gs = Put(frames, D, e + 1, b)
  OBVIOUS
<1>9. gs = Stored(b)
  BY <1>7, <1>8 DEF Put, Stored
<1>10. StackRight(at2, frames, top, self)
  <2>1. \A x \in DOMAIN at : x \in DOMAIN at2 /\ at2[x] = at[x]
    BY <1>5
  <2> QED
    BY <1>2, <2>1, StackOther
<1>11. /\ at2[b] = Spot(self, top - (D - 1), frames[D].target, e + 1)
       /\ b \in DOMAIN at2
  BY <1>2, <1>3, <1>5, <1>7
<1>12. IsStored(at2, frames, gs, top, self, D, b)
  <2>1. D = Len(frames) /\ e = Len(Entries(frames[D].indblock)) /\ e < Width(top, D)
    BY <1>2, <1>7
  <2> QED
    BY <1>1, <1>2, <1>8, <1>10, <1>11, <2>1, StackStore
<1>13. Forest(Grown(at, b, spot))'
  BY <1>4, <1>6
<1> QED
  BY <1>3, <1>4, <1>7, <1>9, <1>12, <1>13

(* The place of the block that is popped next.                             *)
NextSpot == Spot(self, level, frames[Depth].target, first_unused + 1)

LEMMA OwnNewIndirect ==
    ASSUME TypeInv, TypeInv', NEW at, Placed(at), NewIndirect, first_unused < Len(blocks)
    PROVE  \E t : /\ Placed(t)'
                  /\ \E b : /\ t = Grown(at, b, NextSpot) /\ PoppedFor(at, b)
                            /\ frames' = Append(Stored(b), NewFrame(b))
<1>1. pc = "descend" /\ level > 0 /\ pc \in Working /\ pc \in Allocating
  BY DEF NewIndirect, Working, Allocating
<1>2. PICK b \in Poppable :
          /\ Pool!Alloc(b) /\ pc' = pc
          /\ frames' = Append(Stored(b), NewFrame(b))
  <2>1. first_unused # Len(blocks)
    BY StackIs DEF NewIndirect, Allocating
  <2> QED
    BY <2>1 DEF NewIndirect
<1>3. /\ UNCHANGED <<ino, linked, buf, top, cand, todo>>
      /\ Forest(at) /\ Stacked(at) /\ NewUnnamed(at) /\ Apart
  BY DEF NewIndirect, Placed
<1>4. PoppedFor(at, b)
  BY <1>2, <1>3, PopApart
<1>5. b \in Blocks /\ b \notin DOMAIN at /\ b # NoBlock
  BY <1>4, Layout DEF PoppedFor
<1>6. pc' = "descend"
  BY <1>1, <1>2
<1>7. /\ self \in linked /\ buf = ino[self] /\ self' = self
      /\ top \in Levels /\ IsStack(frames, top) /\ StackRight(at, frames, top, self)
      /\ Depth = Len(frames)
  BY <1>1, <1>3, WorkingIs DEF self
<1>8. PICK spot \in Spots :
          /\ spot = NextSpot
          /\ Forest(Grown(at, b, spot))'
          /\ IsStored(Grown(at, b, spot), frames, Stored(b), top, self, Depth, b)
  BY <1>1, <1>4, PlaceStored DEF NextSpot
<1>9. PICK at2, gs, D, fs : /\ at2 = Grown(at, b, spot) /\ gs = Stored(b) /\ D = Depth
                            /\ fs = frames'
  OBVIOUS
<1> DEFINE f == NewFrame(b)
<1>10. /\ StackRight(at2, gs, top, self) /\ Leads(gs[D].indblock, b)
      /\ IsStack(gs, top) /\ Len(gs) = Len(frames)
      /\ \A d \in 1 .. Len(frames) : gs[d].target = frames[d].target /\ gs[d].new = frames[d].new
  BY <1>8, <1>9 DEF IsStored
<1>11. /\ f \in Frame /\ f.indblock \in Array /\ f.target = b /\ f.new = TRUE
      /\ f.indblock = EmptyArray
  <2>1. b \in Refs
    BY <1>5 DEF Refs
  <2> QED
    BY <2>1, EmptyIs, FrameIs
<1> HIDE DEF f
<1>12. fs = Append(gs, f)
  BY <1>2, <1>9 DEF f
<1>13. Len(gs) >= 1 /\ Len(gs) <= top /\ D = Len(gs)
  <2>1. Depth >= 1 /\ Depth <= top
    BY <1>1, RoomBelow
  <2> QED
    BY <1>7, <1>9, <1>10, <2>1
<1>14. StackRight(at2, fs, top, self)
  <2>1. \A s \in DOMAIN f.indblock : f.indblock[s] = NoBlock
    BY <1>11 DEF EmptyArray
  <2>2. Right(at2, f.indblock, self, top - Len(gs), f.target)
    BY <2>1, RightEmpty
  <2>3. Leads(gs[Len(gs)].indblock, f.target)
    BY <1>10, <1>11, <1>13
  <2> QED
    BY <1>7, <1>10, <1>11, <1>12, <1>13, <2>2, <2>3, StackPush
<1>15. Stacked(at2)'
  BY <1>3, <1>7, <1>9, <1>14 DEF Stacked
<1>16. NewUnnamed(at2)'
  <2> SUFFICES ASSUME NEW d \in 2 .. Len(fs), fs[d].new PROVE Unnamed(at2, fs[d].target)'
    BY <1>9 DEF NewUnnamed
  <2>1. /\ gs \in Seq(Frame) /\ Len(fs) = Len(gs) + 1 /\ fs[Len(gs) + 1] = f
        /\ \A c \in 1 .. Len(gs) : fs[c] = gs[c]
    <3>1. gs \in Seq(Frame)
      BY <1>10 DEF IsStack
    <3> QED
      BY <1>11, <1>12, <3>1
  <2>2. CASE d = Len(fs)
    <3>1. fs[d].target = b
      BY <1>11, <2>1, <2>2
    <3>2. Unnamed(at, b)
      BY <1>3, <1>5, UnplacedUnnamed
    <3>3. Unnamed(at2, b)'
      BY <1>4, <1>5, <1>9, <3>2, UnnamedGrown
    <3> QED
      BY <3>1, <3>3
  <2>3. CASE d # Len(fs)
    <3>1. d \in 2 .. Len(frames) /\ frames[d].new /\ fs[d].target = frames[d].target
      BY <1>10, <2>1, <2>3
    <3>2. Unnamed(at, frames[d].target)
      BY <1>1, <1>3, <3>1 DEF NewUnnamed
    <3>3. frames[d].target # NoBlock
      BY <1>7, <3>1, TargetIs DEF IsTarget
    <3>4. PICK x : x = frames[d].target
      OBVIOUS
    <3>5. Unnamed(at2, x)'
      BY <1>4, <1>9, <3>2, <3>3, <3>4, UnnamedGrown
    <3> QED
      BY <3>1, <3>4, <3>5
  <2> QED
    BY <2>2, <2>3
<1>17. Loose(at2)' /\ Apart' /\ pc' # "shrink"
  BY <1>4, <1>6 DEF Loose, PoppedFor
<1>18. Forest(at2)'
  BY <1>8, <1>9
<1>19. Placed(at2)'
  BY <1>15, <1>16, <1>17, <1>18 DEF Placed
<1>20. frames' = Append(Stored(b), NewFrame(b))
  BY <1>2
<1>21. at2 = Grown(at, b, NextSpot)
  BY <1>8, <1>9
<1> HIDE DEF f
<1> QED
  BY <1>4, <1>19, <1>20, <1>21

LEMMA OwnNewDirect ==
    ASSUME TypeInv, TypeInv', NEW at, Placed(at), NewDirect
    PROVE  \E t : /\ Placed(t)'
                  /\ first_unused < Len(blocks) =>
                         \E b : /\ t = Grown(at, b, NextSpot) /\ PoppedFor(at, b)
                                /\ frames' = Stored(b) /\ cand' = b
                  /\ ~(first_unused < Len(blocks)) => t = at
<1>1. pc = "descend" /\ pc \in Working
  BY DEF NewDirect, Working
<1>2. PICK b \in Poppable :
          /\ Pool!Alloc(b)
          /\ cand' = b
          /\ IF first_unused < Len(blocks)
             THEN frames' = Stored(b) /\ pc' = "unwind"
             ELSE frames' = frames /\ pc' = "give_back"
  BY DEF NewDirect
<1>3. /\ UNCHANGED <<ino, linked, buf, top, todo>>
      /\ Forest(at) /\ Stacked(at) /\ NewUnnamed(at) /\ Apart
  BY DEF NewDirect, Placed
<1>4. PoppedFor(at, b)
  BY <1>2, <1>3, PopApart
<1>5. /\ self \in linked /\ buf = ino[self] /\ self' = self
      /\ StackRight(at, frames, top, self)
  BY <1>1, <1>3, WorkingIs DEF self
<1>6. CASE first_unused < Len(blocks)
  <2>1. PICK spot \in Spots :
            /\ spot = NextSpot
            /\ Forest(Grown(at, b, spot))'
            /\ IsStored(Grown(at, b, spot), frames, Stored(b), top, self, Depth, b)
    BY <1>1, <1>4, <1>6, PlaceStored DEF NextSpot
  <2>2. PICK at2 : at2 = Grown(at, b, spot)
    OBVIOUS
  <2>3. frames' = Stored(b) /\ pc' = "unwind"
    BY <1>2, <1>6
  <2>4. StackRight(at2, frames', top, self)
    BY <2>1, <2>2, <2>3 DEF IsStored
  <2>5. Stacked(at2)'
    BY <1>3, <1>5, <2>4 DEF Stacked
  <2>6. NewUnnamed(at2)' /\ Loose(at2)' /\ Apart' /\ pc' # "shrink"
    BY <1>4, <2>3 DEF NewUnnamed, Loose, PoppedFor
  <2>7. Forest(at2)'
    BY <2>1, <2>2
  <2>8. Placed(at2)'
    BY <2>5, <2>6, <2>7 DEF Placed
  <2>9. at2 = Grown(at, b, NextSpot) /\ cand' = b
    BY <1>2, <2>1, <2>2
  <2> QED
    BY <1>4, <1>6, <2>3, <2>8, <2>9
<1>7. CASE ~(first_unused < Len(blocks))
  <2>1. frames' = frames /\ pc' = "give_back"
    BY <1>2, <1>7
  <2>2. Forest(at)'
    BY <1>3, <1>4, ForestSame DEF PoppedFor
  <2>3. Stacked(at)'
    BY <1>3, <1>5, <2>1 DEF Stacked
  <2>4. NewUnnamed(at)'
    <3>1. \A p \in DOMAIN at : content'[p] = content[p]
      BY <1>4 DEF PoppedFor
    <3> QED
      BY <1>1, <1>3, <2>1, <3>1, UnnamedKept
  <2>5. Loose(at)' /\ Apart' /\ pc' # "shrink"
    BY <1>2, <1>4, <2>1 DEF Loose, PoppedFor
  <2> QED
    BY <1>7, <2>2, <2>3, <2>4, <2>5 DEF Placed
<1> QED
  BY <1>6, <1>7

LEMMA OwnOldIndirect ==
    ASSUME TypeInv, TypeInv', NEW at, Placed(at), OldIndirect
    PROVE  Placed(at)'
<1>1. pc = "descend" /\ level > 0 /\ pc \in Working /\ pc \in Allocating
  BY DEF OldIndirect, Working, Allocating
<1>2. /\ UNCHANGED <<pool, free, content, ino, linked, buf, top, cand, todo>>
      /\ Forest(at) /\ Stacked(at) /\ NewUnnamed(at) /\ Apart
  BY DEF OldIndirect, Placed, pool
<1>3. Forest(at)' /\ Apart'
  BY <1>2, ForestSame DEF Apart, Forest
<1>4. CASE first_unused # 0
  <2>1. /\ frames' = Append(frames, [target |-> blocks[first_unused], new |-> FALSE,
                                     indblock |-> ReadArray(blocks[first_unused])])
        /\ pc' = "descend"
    BY <1>1, <1>4 DEF OldIndirect
  <2>2. /\ self \in linked /\ buf = ino[self] /\ self' = self
        /\ top \in Levels /\ IsStack(frames, top) /\ StackRight(at, frames, top, self)
        /\ Depth = Len(frames) /\ Depth \in Nat /\ Depth \in 1 .. Len(frames)
        /\ level = top - (Depth - 1) /\ level \in Levels
        /\ Right(at, blocks, self, level, frames[Depth].target)
        /\ blocks = frames[Depth].indblock /\ first_unused = Len(Entries(blocks))
        /\ first_unused \in Nat
    BY <1>1, <1>2, WorkingIs DEF self
  <2>3. /\ Depth >= 1 /\ Depth <= top /\ first_unused \in 1 .. Width(top, Depth)
        /\ blocks[first_unused] \in Blocks /\ DOMAIN blocks = 1 .. Width(top, Depth)
        /\ blocks[first_unused] # NoBlock
    BY <1>1, <1>4, RoomBelow, StackIs
  <2>4. PICK b : b = blocks[first_unused]
    OBVIOUS
  <2>5. b \in DOMAIN at /\ at[b] = Spot(self, level, frames[Depth].target, first_unused)
    BY <2>2, <2>3, <2>4 DEF Right, Names
  <2>6. at[b].lvl = level /\ at[b].own = self
    BY <2>5 DEF Spot
  <2>7. Right(at, content[b], self, level - 1, b)
    BY <1>1, <1>2, <2>5, <2>6 DEF Forest
  <2>8. ReadArray(b) = content[b] /\ ReadArray(b) \in Array
    <3>1. b \in DOMAIN content
      BY <1>2, <2>5 DEF Forest
    <3> QED
      BY <3>1, ReadIs, TypeParts DEF ReadArray
  <2> DEFINE f == [target |-> b, new |-> FALSE, indblock |-> content[b]]
  <2>9. /\ f \in Frame /\ f.indblock \in Array /\ f.target = b /\ f.new = FALSE
        /\ f.indblock = content[b]
    <3>1. b \in Refs
      BY <2>3, <2>4 DEF Refs
    <3> QED
      BY <2>8, <3>1, FrameIs
  <2>10. frames' = Append(frames, f)
    BY <2>1, <2>4, <2>8
  <2> HIDE DEF f
  <2>11. PICK fs : fs = frames'
    OBVIOUS
  <2>12. StackRight(at, fs, top, self)
    <3>1. Right(at, f.indblock, self, top - Len(frames), f.target)
      <4>1. top - Len(frames) = level - 1
        BY <2>2 DEF Levels
      <4> QED
        BY <2>7, <2>9, <4>1
    <3>2. Leads(frames[Len(frames)].indblock, f.target)
      BY <2>2, <2>3, <2>4, <2>9 DEF Leads
    <3>3. Len(frames) >= 1 /\ Len(frames) <= top /\ fs = Append(frames, f)
      BY <2>2, <2>3, <2>10, <2>11
    <3> QED
      BY <2>2, <2>9, <3>1, <3>2, <3>3, StackPush
  <2>13. Stacked(at)'
    BY <1>2, <2>2, <2>11, <2>12 DEF Stacked
  <2>14. NewUnnamed(at)'
    <3>1. \A d \in 2 .. Len(frames') : frames'[d].new =>
              /\ d \in 2 .. Len(frames) /\ frames[d].new
              /\ frames'[d].target = frames[d].target
      <4>1. frames \in Seq(Frame)
        BY <2>2 DEF IsStack
      <4>2. /\ Len(fs) = Len(frames) + 1 /\ fs[Len(frames) + 1] = f
            /\ \A d \in 1 .. Len(frames) : fs[d] = frames[d]
        BY <2>9, <2>10, <2>11, <4>1
      <4> SUFFICES ASSUME NEW d \in 2 .. Len(fs), fs[d].new
                   PROVE  /\ d \in 2 .. Len(frames) /\ frames[d].new
                          /\ fs[d].target = frames[d].target
        BY <2>11
      <4>3. d # Len(frames) + 1
        BY <2>9, <4>2
      <4>4. d \in 1 .. Len(frames) /\ d \in 2 .. Len(frames)
        BY <4>1, <4>2, <4>3
      <4> QED
        BY <4>2, <4>4
    <3> QED
      BY <1>1, <1>2, <3>1, UnnamedKept
  <2>15. Loose(at)' /\ pc' # "shrink"
    BY <2>1 DEF Loose
  <2> QED
    BY <1>3, <2>13, <2>14, <2>15 DEF Placed
<1>5. CASE first_unused = 0
  <2>1. pc' = "abort"
    BY <1>5 DEF OldIndirect
  <2>2. Stacked(at)' /\ NewUnnamed(at)' /\ Loose(at)' /\ pc' # "shrink"
    BY <2>1 DEF Stacked, NewUnnamed, Loose, Working
  <2> QED
    BY <1>3, <2>2 DEF Placed
<1> QED
  BY <1>4, <1>5

LEMMA OwnGiveBack ==
    ASSUME TypeInv, TypeInv', NEW at, Placed(at), GiveBack
    PROVE  Placed(at)'
<1>1. /\ pc = "give_back" /\ pc' = "undo" /\ Pool!Release(cand)
      /\ UNCHANGED <<ino, linked, buf, top, frames, todo>>
      /\ Forest(at) /\ Stacked(at) /\ NewUnnamed(at) /\ Apart /\ cand \notin DOMAIN at
  BY DEF GiveBack, Placed, Loose, alloc
<1>2. /\ DOMAIN content' = DOMAIN content \ {cand}
      /\ free' = free \union {cand}
      /\ \A c \in DOMAIN content : c # cand => content'[c] = content[c]
  BY <1>1, ReleaseType, TypeParts
<1>3. \A p \in DOMAIN at : p \in DOMAIN content' /\ content'[p] = content[p]
  BY <1>1, <1>2 DEF Forest
<1>4. Forest(at)'
  BY <1>1, <1>3, ForestSame
<1>5. Apart'
  BY <1>1, <1>2 DEF Apart
<1>6. Stacked(at)'
  BY <1>1 DEF Stacked, self, Working
<1>7. NewUnnamed(at)'
  BY <1>1, <1>3, UnnamedKept
<1> QED
  BY <1>1, <1>4, <1>5, <1>6, <1>7 DEF Placed, Loose

LEMMA OwnPopFails ==
    ASSUME TypeInv, TypeInv', NEW at, Placed(at), PopFails
    PROVE  Placed(at)'
<1>1. /\ pc = "descend" /\ pc' = "undo"
      /\ UNCHANGED <<free, content, ino, linked, buf, top, frames, todo>>
      /\ Forest(at) /\ Stacked(at) /\ NewUnnamed(at) /\ Apart
  BY DEF PopFails, Placed, alloc, pool
<1>2. Forest(at)' /\ Apart'
  BY <1>1, ForestSame DEF Apart, Forest
<1>3. Stacked(at)'
  BY <1>1 DEF Stacked, self, Working
<1>4. NewUnnamed(at)'
  BY <1>1, UnnamedKept
<1> QED
  BY <1>1, <1>2, <1>3, <1>4 DEF Placed, Loose

LEMMA OwnWriteIndirect ==
    ASSUME TypeInv, TypeInv', NEW at, Placed(at), WriteIndirect
    PROVE  Placed(at)'
<1>1. /\ pc = "unwind" /\ pc' = "unwind" /\ Depth > 1 /\ pc \in Working
      /\ Pool!Write(frames[Depth].target, blocks) /\ frames' = Front(frames)
      /\ UNCHANGED <<ino, linked, buf, top, todo>>
      /\ Forest(at) /\ Stacked(at) /\ Apart
  BY DEF WriteIndirect, Placed, Working
<1>2. /\ self \in linked /\ buf = ino[self] /\ self' = self
      /\ top \in Levels /\ IsStack(frames, top) /\ StackRight(at, frames, top, self)
      /\ Depth = Len(frames) /\ Depth \in Nat
      /\ level = top - (Depth - 1) /\ level \in Levels
      /\ Right(at, blocks, self, level, frames[Depth].target)
      /\ blocks \in [1 .. Width(top, Depth) -> Refs]
  BY <1>1, WorkingIs DEF self
<1>3. PICK b, d : b = frames[Depth].target /\ d = Depth
  OBVIOUS
<1>4. b \in DOMAIN at /\ at[b].own = self /\ at[b].lvl - 1 = level
  <2>1. d \in 2 .. Len(frames)
    BY <1>1, <1>2, <1>3
  <2>2. b \in DOMAIN at /\ at[b] = Spot(self, top - (d - 2), frames[d - 1].target,
                                        Len(Entries(frames[d - 1].indblock)))
    BY <1>2, <1>3, <2>1, TargetIs DEF IsTarget
  <2>3. at[b].own = self /\ at[b].lvl = top - (d - 2)
    BY <2>2 DEF Spot
  <2>4. top - (d - 2) - 1 = level
    BY <1>2, <1>3 DEF Levels
  <2> QED
    BY <2>2, <2>3, <2>4
<1>5. /\ DOMAIN content' = DOMAIN content /\ free' = free /\ content'[b] = blocks
      /\ \A c \in DOMAIN content : c # b => content'[c] = content[c]
  <2>1. blocks \in Array
    BY <1>1, <1>2 DEF Width, Array
  <2> QED
    BY <1>1, <1>3, <2>1, WriteType, TypeParts
<1>6. Forest(at)'
  <2>1. at \in [DOMAIN at -> Spots] /\ DOMAIN at \subseteq DOMAIN content'
    BY <1>1, <1>5 DEF Forest
  <2>2. \A i \in linked', k \in Levels : Right(at, ino'[i].blocks[k], i, k, NoBlock)
    BY <1>1 DEF Forest
  <2>3. ASSUME NEW p \in DOMAIN at, at[p].lvl > 0
        PROVE  Right(at, content'[p], at[p].own, at[p].lvl - 1, p)
    <3>1. CASE p = b
      BY <1>2, <1>3, <1>4, <1>5, <3>1
    <3>2. CASE p # b
      <4>1. content'[p] = content[p]
        BY <1>1, <1>5, <3>2 DEF Forest
      <4> QED
        BY <1>1, <2>3, <4>1 DEF Forest
    <3> QED
      BY <3>1, <3>2
  <2> QED
    BY <2>1, <2>2, <2>3 DEF Forest
<1>7. Stacked(at)'
  <2>1. PICK gs : gs = frames'
    OBVIOUS
  <2>2. gs = Front(frames) /\ Len(frames) > 1
    BY <1>1, <1>2, <2>1
  <2>3. StackRight(at, gs, top, self)
    BY <1>2, <2>2, StackPop
  <2> QED
    BY <1>1, <1>2, <2>1, <2>3 DEF Stacked
<1>8. Apart' /\ NewUnnamed(at)' /\ Loose(at)' /\ pc' # "shrink"
  BY <1>1, <1>5 DEF Apart, NewUnnamed, Loose
<1> QED
  BY <1>6, <1>7, <1>8 DEF Placed

LEMMA OwnWriteInode ==
    ASSUME TypeInv, TypeInv', NEW at, Placed(at), WriteInode
    PROVE  Placed(at)'
<1>1. /\ pc = "unwind" /\ Depth = 1 /\ pc \in Working /\ pc \in Allocating /\ pc' = "idle"
      /\ ino' = [ino EXCEPT ![self] = BufWith(buf.n_blocks + 1)]
      /\ UNCHANGED <<free, content, linked>>
      /\ Forest(at) /\ Stacked(at) /\ Apart
  BY DEF WriteInode, Placed, Working, Allocating, Rest, BufWith, pool
<1>2. /\ self \in linked /\ buf = ino[self] /\ self \in Inodes
      /\ top \in Levels /\ StackRight(at, frames, top, self)
      /\ level = top - (Depth - 1)
      /\ Right(at, blocks, self, level, frames[Depth].target)
  BY <1>1, WorkingIs
<1>3. Right(at, blocks, self, top, NoBlock)
  <2>1. level = top
    BY <1>1, <1>2 DEF Levels
  <2>2. frames[Depth].target = NoBlock
    BY <1>1, <1>2 DEF StackRight
  <2> QED
    BY <1>2, <2>1, <2>2
<1>4. ASSUME NEW i \in linked', NEW k \in Levels
      PROVE  Right(at, ino'[i].blocks[k], i, k, NoBlock)
  <2>1. buf.n_blocks + 1 \in 0 .. Limit(4)
    <3>1. IsInode(buf) /\ buf.n_blocks < Limit(4) /\ Limit(4) \in Nat
      BY <1>1, LimitsAre, TypeParts DEF Changing
    <3>2. buf.n_blocks \in 0 .. Limit(4)
      BY <3>1 DEF IsInode, InodeRecord
    <3> QED
      BY <3>1, <3>2
  <2>2. /\ BufWith(buf.n_blocks + 1).blocks[top] = blocks
        /\ \A j \in Levels : j # top => BufWith(buf.n_blocks + 1).blocks[j] = buf.blocks[j]
    BY <1>1, <2>1, BufWithIs
  <2>3. CASE i = self
    <3>1. ino'[i] = BufWith(buf.n_blocks + 1)
      BY <1>1, <1>2, <2>3, TypeParts DEF InodesType
    <3>2. CASE k = top
      BY <1>3, <2>2, <2>3, <3>1, <3>2
    <3>3. CASE k # top
      BY <1>1, <1>2, <2>2, <2>3, <3>1, <3>3 DEF Forest
    <3> QED
      BY <3>2, <3>3
  <2>4. CASE i # self
    <3>1. ino'[i] = ino[i]
      BY <1>1, <2>4, TypeParts DEF InodesType
    <3> QED
      BY <1>1, <3>1 DEF Forest
  <2> QED
    BY <2>3, <2>4
<1>5. Forest(at)'
  BY <1>1, <1>4 DEF Forest
<1>6. Stacked(at)' /\ NewUnnamed(at)' /\ Loose(at)' /\ pc' # "shrink" /\ Apart'
  BY <1>1 DEF Stacked, NewUnnamed, Loose, Working, Apart
<1> QED
  BY <1>5, <1>6 DEF Placed

LEMMA ForestWithout ==
    ASSUME NEW at, Forest(at), NEW b, Unnamed(at, b), ino' = ino, linked' = linked,
           \A p \in DOMAIN at : p # b => p \in DOMAIN content' /\ content'[p] = content[p]
    PROVE  Forest(Without(at, b))'
<1>1. PICK at2 : at2 = Without(at, b)
  OBVIOUS
<1>2. /\ DOMAIN at2 = DOMAIN at \ {b}
      /\ \A x \in DOMAIN at : x # b => at2[x] = at[x]
  BY <1>1 DEF Without
<1>3. at2 \in [DOMAIN at2 -> Spots]
  <2>1. at \in [DOMAIN at -> Spots]
    BY DEF Forest
  <2> QED
    BY <1>1, <2>1 DEF Without
<1>4. ASSUME NEW a, NEW i, NEW k, NEW p, Right(at, a, i, k, p), b \notin Range(a)
      PROVE  Right(at2, a, i, k, p)
  <2>1. ASSUME NEW s \in DOMAIN a, a[s] # NoBlock
        PROVE  a[s] \in DOMAIN at2 /\ at2[a[s]] = at[a[s]]
    <3>1. a[s] \in DOMAIN at /\ a[s] # b
      BY <1>4, <2>1 DEF Right, Names, Range
    <3> QED
      BY <1>2, <3>1
  <2> QED
    BY <1>4, <2>1, RightKept
<1>5. DOMAIN at2 \subseteq DOMAIN content'
  BY <1>2
<1>6. \A i \in linked', k \in Levels : Right(at2, ino'[i].blocks[k], i, k, NoBlock)
  BY <1>4 DEF Forest, Unnamed
<1>7. ASSUME NEW p \in DOMAIN at2, at2[p].lvl > 0
      PROVE  Right(at2, content'[p], at2[p].own, at2[p].lvl - 1, p)
  <2>1. p \in DOMAIN at /\ at2[p] = at[p] /\ content'[p] = content[p]
    BY <1>2
  <2>2. Right(at, content[p], at[p].own, at[p].lvl - 1, p) /\ b \notin Range(content[p])
    BY <1>7, <2>1 DEF Forest, Unnamed
  <2> QED
    BY <1>4, <2>1, <2>2
<1>8. Forest(at2)'
  BY <1>3, <1>5, <1>6, <1>7 DEF Forest
<1> QED
  BY <1>1, <1>8

LEMMA UnnamedWithout ==
    ASSUME NEW at, NEW b, NEW x, Unnamed(at, x), ino' = ino, linked' = linked,
           \A p \in DOMAIN at : p # b => content'[p] = content[p]
    PROVE  Unnamed(Without(at, b), x)'
<1>1. PICK at2 : at2 = Without(at, b)
  OBVIOUS
<1>2. /\ DOMAIN at2 = DOMAIN at \ {b}
      /\ \A y \in DOMAIN at : y # b => at2[y] = at[y]
  BY <1>1 DEF Without
<1>3. \A i \in linked', k \in Levels : x \notin Range(ino'[i].blocks[k])
  BY DEF Unnamed
<1>4. ASSUME NEW p \in DOMAIN at2, at2[p].lvl > 0 PROVE x \notin Range(content'[p])
  BY <1>2, <1>4 DEF Unnamed
<1>5. Unnamed(at2, x)'
  BY <1>3, <1>4 DEF Unnamed
<1> QED
  BY <1>1, <1>5

(* The pointer that is cleared is the last one.                            *)
LEMMA UndoClears ==
    ASSUME TypeInv, NEW at, StackRight(at, frames, top, self), UndoIndirect, frames[Depth].new
    PROVE  frames' = [Front(frames) EXCEPT
                          ![Depth - 1].indblock[Len(Entries(Front(frames)[Depth - 1].indblock))]
                              = NoBlock]
<1>1. pc \in Allocating /\ Depth > 1 /\ IsStack(frames, top) /\ top \in Levels
      /\ Depth = Len(frames) /\ Depth \in Nat
  BY StackIs, TypeParts DEF UndoIndirect, Allocating, Changing
<1>2. PICK d, u : d \in 2 .. Len(frames) /\ d = Depth /\ u = Front(frames)
  BY <1>1
<1>3. IsTarget(at, frames, top, self, d)
  BY <1>1, <1>2, TargetIs
<1>4. u[d - 1] = frames[d - 1]
  <2>1. d - 1 \in 1 .. Depth - 1
    BY <1>2
  <2> QED
    BY <1>1, <1>2, <2>1, UpperIs
<1>5. u[d - 1].indblock[Len(Entries(u[d - 1].indblock))] = frames[d].target
  BY <1>3, <1>4 DEF IsTarget
<1> QED
  BY <1>2, <1>5 DEF UndoIndirect

LEMMA OwnUndoIndirect ==
    ASSUME TypeInv, TypeInv', NEW at, Placed(at), UndoIndirect
    PROVE  \E t : /\ Placed(t)'
                  /\ t = IF frames[Depth].new THEN Without(at, frames[Depth].target) ELSE at
<1>1. /\ pc = "undo" /\ pc' = "undo" /\ Depth > 1 /\ pc \in Working /\ pc \in Allocating
      /\ UNCHANGED <<ino, linked, buf, top, todo>>
      /\ Forest(at) /\ Stacked(at) /\ NewUnnamed(at) /\ Apart
  BY DEF UndoIndirect, Placed, Working, Allocating
<1>2. /\ self \in linked /\ buf = ino[self] /\ self' = self
      /\ top \in Levels /\ IsStack(frames, top) /\ StackRight(at, frames, top, self)
      /\ Depth = Len(frames) /\ Depth \in Nat
  BY <1>1, WorkingIs DEF self
<1>7. PICK us, gs : us = Front(frames) /\ gs = frames'
  OBVIOUS
<1>8. PICK D \in 1 .. Len(frames) : D + 1 = Depth
  <2>1. PICK d \in Nat : d = Depth - 1
    BY <1>1, <1>2
  <2>2. d \in 1 .. Len(frames) /\ d + 1 = Depth
    BY <1>1, <1>2, <2>1
  <2> QED
    BY <2>2
<1>3. us = Front(frames) /\ D + 1 = Depth /\ gs = frames'
  BY <1>7, <1>8
<1>4. us[D] = frames[D]
  <2>1. D = Depth - 1 /\ D \in 1 .. Depth - 1
    BY <1>2, <1>3
  <2> QED
    BY <1>1, <1>3, <2>1, UpperIs
<1>5. CASE frames[Depth].new
  <2>1. PICK b, e : b = frames[D + 1].target /\ e = Len(Entries(frames[D].indblock))
    OBVIOUS
  <2>2. Pool!Release(b) /\ gs = Put(us, D, e, NoBlock)
    <3>1. D = Depth - 1
      BY <1>2, <1>3
    <3>2. frames' = [Front(frames) EXCEPT
                         ![Depth - 1].indblock[Len(Entries(Front(frames)[Depth - 1].indblock))]
                             = NoBlock]
      BY <1>2, <1>5, UndoClears
    <3>3. Pool!Release(frames[Depth].target)
      BY <1>5 DEF UndoIndirect
    <3> QED
      BY <1>3, <1>4, <2>1, <3>1, <3>2, <3>3 DEF Put
  <2>3. e \in Nat
    <3>1. frames[D].indblock \in [1 .. Width(top, D) -> Refs] /\ Width(top, D) \in Nat
      BY <1>2, StackArray
    <3> QED
      BY <2>1, <3>1, EntriesAre
  <2>4. PICK at2 : at2 = Without(at, b)
    OBVIOUS
  <2>5. /\ StackRight(at2, gs, top, self) /\ Len(gs) = D
        /\ \A d \in 1 .. D : gs[d].target = frames[d].target /\ gs[d].new = frames[d].new
    <3>1. D + 1 = Len(frames)
      BY <1>2, <1>3
    <3>2. /\ StackRight(Without(at, frames[D + 1].target), gs, top, self) /\ Len(gs) = D
          /\ \A d \in 1 .. D : gs[d].target = frames[d].target /\ gs[d].new = frames[d].new
      BY <1>2, <1>3, <2>1, <2>2, <2>3, <3>1, StackUndo
    <3> QED
      BY <2>1, <2>4, <3>2
  <2>6. Unnamed(at, b)
    <3>1. D + 1 \in 2 .. Len(frames) /\ frames[D + 1].new
      BY <1>2, <1>3, <1>5
    <3> QED
      BY <1>1, <2>1, <3>1 DEF NewUnnamed
  <2>7. /\ DOMAIN content' = DOMAIN content \ {b}
        /\ free' = free \union {b}
        /\ \A c \in DOMAIN content : c # b => content'[c] = content[c]
    BY <2>2, ReleaseType, TypeParts
  <2>8. \A p \in DOMAIN at : p # b => p \in DOMAIN content' /\ content'[p] = content[p]
    BY <1>1, <2>7 DEF Forest
  <2>9. Forest(at2)'
    BY <1>1, <2>4, <2>6, <2>8, ForestWithout
  <2>10. Apart'
    BY <1>1, <2>7 DEF Apart
  <2>11. Stacked(at2)'
    BY <1>1, <1>2, <1>3, <2>5 DEF Stacked
  <2>12. NewUnnamed(at2)'
    <3> SUFFICES ASSUME NEW d \in 2 .. Len(gs), gs[d].new PROVE Unnamed(at2, gs[d].target)'
      BY <1>3 DEF NewUnnamed
    <3>1. PICK x : x = gs[d].target
      OBVIOUS
    <3>2. d \in 2 .. Len(frames) /\ d \in 1 .. D
      BY <1>2, <1>3, <2>5
    <3>3. Unnamed(at, x)
      BY <1>1, <2>5, <3>1, <3>2 DEF NewUnnamed
    <3>4. Unnamed(at2, x)'
      BY <1>1, <2>4, <2>8, <3>3, UnnamedWithout
    <3> QED
      BY <3>1, <3>4
  <2>13. Placed(at2)'
    BY <1>1, <2>9, <2>10, <2>11, <2>12 DEF Placed, Loose
  <2>14. at2 = Without(at, frames[Depth].target)
    BY <1>3, <2>1, <2>4
  <2> QED
    BY <1>5, <2>13, <2>14
<1>6. CASE ~frames[Depth].new
  <2>1. UNCHANGED <<free, content>> /\ gs = us
    BY <1>3, <1>6 DEF UndoIndirect, pool
  <2>2. Forest(at)' /\ Apart'
    BY <1>1, <2>1, ForestSame DEF Apart, Forest
  <2>3. StackRight(at, gs, top, self)
    BY <1>1, <1>2, <1>3, <2>1, StackPop
  <2>4. Stacked(at)'
    BY <1>1, <1>2, <1>3, <2>3 DEF Stacked
  <2>5. NewUnnamed(at)'
    <3>1. \A d \in 2 .. Len(frames') : frames'[d].new =>
              /\ d \in 2 .. Len(frames) /\ frames[d].new
              /\ frames'[d].target = frames[d].target
      <4>1. Len(gs) = Depth - 1 /\ \A d \in 1 .. Depth - 1 : gs[d] = frames[d]
        BY <1>1, <1>3, <2>1, UpperIs
      <4> SUFFICES ASSUME NEW d \in 2 .. Len(gs), gs[d].new
                   PROVE  /\ d \in 2 .. Len(frames) /\ frames[d].new
                          /\ gs[d].target = frames[d].target
        BY <1>3
      <4>2. d \in 1 .. Depth - 1 /\ d \in 2 .. Len(frames)
        BY <1>2, <4>1
      <4> QED
        BY <4>1, <4>2
    <3> QED
      BY <1>1, <2>1, <3>1, UnnamedKept
  <2>6. Placed(at)'
    BY <1>1, <2>2, <2>4, <2>5 DEF Placed, Loose
  <2> QED
    BY <1>6, <2>6
<1> QED
  BY <1>5, <1>6

(* Nothing runs afterwards.                                                *)
LEMMA OwnStops ==
    ASSUME NEW at, Forest(at)', Apart',
           pc' = "idle" \/ (pc' = "free_inode" /\ Range(todo') \intersect DOMAIN at = {})
    PROVE  Placed(at)'
  BY DEF Placed, Stacked, NewUnnamed, Loose, Working

LEMMA OwnAllocFails ==
    ASSUME TypeInv, TypeInv', NEW at, Placed(at), AllocFails
    PROVE  Placed(at)'
<1>1. /\ pc' = "idle" /\ UNCHANGED <<free, content, ino, linked>>
      /\ Forest(at) /\ Apart
  BY DEF AllocFails, Placed, pool
<1>2. Forest(at)' /\ Apart'
  BY <1>1, ForestSame DEF Apart, Forest
<1> QED
  BY <1>1, <1>2, OwnStops

LEMMA OwnCrash ==
    ASSUME TypeInv, TypeInv', NEW at, Placed(at), Crash
    PROVE  Placed(at)'
<1>1. /\ pc' = "idle" /\ UNCHANGED <<content, ino, linked>> /\ free' \subseteq free
      /\ Forest(at) /\ Apart
  BY CrashType, TypeParts DEF Crash, Placed, Rest
<1>2. Forest(at)' /\ Apart'
  BY <1>1, ForestSame DEF Apart, Forest
<1> QED
  BY <1>1, <1>2, OwnStops

LEMMA OwnCreate ==
    ASSUME TypeInv, TypeInv', NEW at, Placed(at), NEW i \in Inodes, Create(i)
    PROVE  Placed(at)'
<1>1. /\ pc' = "idle" /\ UNCHANGED <<free, content>> /\ linked' = linked \union {i}
      /\ ino' = [ino EXCEPT ![i] = [FreshInode(i) EXCEPT !.in_use = TRUE]]
      /\ Forest(at) /\ Apart
  BY DEF Create, Placed, pool, Rest
<1>2. ASSUME NEW j \in linked', NEW k \in Levels
      PROVE  Right(at, ino'[j].blocks[k], j, k, NoBlock)
  <2>1. CASE j = i
    <3>1. ino'[j].blocks = FreshInode(i).blocks
      BY <1>1, <2>1, FreshIs, TypeParts DEF InodesType, IsInode, InodeRecord
    <3>2. /\ \A s \in 1 .. Pointers(k) : FreshInode(i).blocks[k][s] = NoBlock
          /\ DOMAIN FreshInode(i).blocks[k] = 1 .. Pointers(k)
      BY FreshIs DEF IsInode
    <3> QED
      BY <3>1, <3>2, RightEmpty
  <2>2. CASE j # i
    <3>1. ino'[j] = ino[j] /\ j \in linked
      BY <1>1, <2>2, TypeParts DEF InodesType
    <3> QED
      BY <1>1, <3>1 DEF Forest
  <2> QED
    BY <2>1, <2>2
<1>3. Forest(at)' /\ Apart'
  BY <1>1, <1>2 DEF Forest, Apart
<1> QED
  BY <1>1, <1>3, OwnStops

LEMMA OwnFreeInode ==
    ASSUME TypeInv, TypeInv', NEW at, Placed(at), FreeInode
    PROVE  Placed(at)'
<1>1. /\ pc' = "idle" /\ UNCHANGED <<free, content, linked>>
      /\ ino' = [ino EXCEPT ![self] = FreshInode(self)] /\ self \in Inodes
      /\ Forest(at) /\ Apart
  BY TypeParts DEF FreeInode, Placed, pool, Rest, Changing, self, IsInode, InodeRecord
<1>2. ASSUME NEW j \in linked', NEW k \in Levels
      PROVE  Right(at, ino'[j].blocks[k], j, k, NoBlock)
  <2>1. CASE j = self
    <3>1. ino'[j] = FreshInode(self)
      BY <1>1, <2>1, TypeParts DEF InodesType
    <3>2. /\ \A s \in 1 .. Pointers(k) : FreshInode(self).blocks[k][s] = NoBlock
          /\ DOMAIN FreshInode(self).blocks[k] = 1 .. Pointers(k)
      BY <1>1, FreshIs DEF IsInode
    <3> QED
      BY <3>1, <3>2, RightEmpty
  <2>2. CASE j # self
    <3>1. ino'[j] = ino[j]
      BY <1>1, <2>2, TypeParts DEF InodesType
    <3> QED
      BY <1>1, <3>1 DEF Forest
  <2> QED
    BY <2>1, <2>2
<1>3. Forest(at)' /\ Apart'
  BY <1>1, <1>2 DEF Forest, Apart
<1> QED
  BY <1>1, <1>3, OwnStops

LEMMA OwnAppendNext ==
    ASSUME TypeInv, TypeInv', NEW at, Placed(at), AppendNext
    PROVE  Placed(at)'
<1>1. /\ pc = "free_inode" /\ pc' = "free_inode" /\ todo # <<>> /\ Pool!Release(Head(todo))
      /\ todo' = Tail(todo) /\ UNCHANGED <<ino, linked>>
      /\ Forest(at) /\ Apart /\ Range(todo) \intersect DOMAIN at = {}
      /\ todo \in Seq(Blocks)
  BY TypeParts DEF AppendNext, Placed, Loose, Changing
<1>2. PICK b : b = Head(todo)
  OBVIOUS
<1>3. /\ DOMAIN content' = DOMAIN content \ {b}
      /\ free' = free \union {b}
      /\ \A c \in DOMAIN content : c # b => content'[c] = content[c]
  BY <1>1, <1>2, ReleaseType, TypeParts
<1>4. b \in Range(todo) /\ Range(todo') \subseteq Range(todo)
  <2>1. /\ Len(todo) \in Nat /\ Len(todo) >= 1 /\ DOMAIN todo = 1 .. Len(todo)
        /\ Head(todo) = todo[1] /\ DOMAIN todo' = 1 .. Len(todo) - 1
        /\ \A s \in 1 .. Len(todo) - 1 : todo'[s] = todo[s + 1]
    BY <1>1
  <2>2. b \in Range(todo)
    <3>1. 1 \in DOMAIN todo
      BY <2>1
    <3> QED
      BY <1>2, <2>1, <3>1 DEF Range
  <2>3. ASSUME NEW x \in Range(todo') PROVE x \in Range(todo)
    <3>1. PICK s \in 1 .. Len(todo) - 1 : x = todo[s + 1]
      BY <2>1 DEF Range
    <3>2. s + 1 \in DOMAIN todo
      BY <2>1
    <3> QED
      BY <3>1, <3>2 DEF Range
  <2> QED
    BY <2>2, <2>3
<1>5. \A p \in DOMAIN at : p \in DOMAIN content' /\ content'[p] = content[p]
  BY <1>1, <1>3, <1>4 DEF Forest
<1>6. Forest(at)' /\ Apart'
  BY <1>1, <1>3, <1>5, ForestSame DEF Apart
<1> QED
  BY <1>1, <1>4, <1>6, OwnStops

LEMMA OwnAllocStart ==
    ASSUME TypeInv, TypeInv', NEW at, Placed(at), NEW i \in Inodes, AllocStart(i)
    PROVE  Placed(at)'
<1>1. /\ pc = "idle" /\ UNCHANGED <<free, content, ino, linked, todo>> /\ i \in linked
      /\ buf' = ino[i] /\ Forest(at) /\ Apart
  BY DEF AllocStart, Placed, pool, Idle
<1>2. Forest(at)' /\ Apart'
  BY <1>1, ForestSame DEF Apart, Forest
<1>3. CASE ino[i].n_blocks < Limit(4)
  <2>1. /\ top' = LevelOf(ino[i].n_blocks) /\ pc' = "descend"
        /\ frames' = <<[target |-> NoBlock, new |-> FALSE, indblock |-> ino[i].blocks[top']]>>
    BY <1>3 DEF AllocStart
  <2>10. PICK t \in Levels : t = top'
    BY DEF TypeInv
  <2>11. PICK gs : gs = frames'
    OBVIOUS
  <2>2. t = top' /\ gs = frames'
    BY <2>10, <2>11
  <2> DEFINE f == [target |-> NoBlock, new |-> FALSE, indblock |-> ino[i].blocks[t]]
  <2>3. f.target = NoBlock /\ f.indblock = ino[i].blocks[t]
    OBVIOUS
  <2>4. gs = <<f>>
    BY <2>1, <2>2
  <2> HIDE DEF f
  <2>5. Len(gs) = 1 /\ gs[1] = f
    BY <2>4
  <2>6. StackRight(at, gs, t, i)
    <3>1. ASSUME NEW d \in 1 .. Len(gs)
          PROVE  Right(at, gs[d].indblock, i, t - (d - 1), gs[d].target)
      <4>1. d = 1 /\ t - (d - 1) = t
        BY <2>5 DEF Levels
      <4>2. Right(at, ino[i].blocks[t], i, t, NoBlock)
        BY <1>1 DEF Forest
      <4> QED
        BY <2>3, <2>5, <4>1, <4>2
    <3>2. 2 .. Len(gs) = {}
      BY <2>5
    <3> QED
      BY <2>3, <2>5, <3>1, <3>2 DEF StackRight
  <2>7. self' = i
    BY <1>1, TypeParts DEF self, InodesType
  <2>8. Stacked(at)'
    BY <1>1, <2>2, <2>6, <2>7 DEF Stacked
  <2>9. NewUnnamed(at)' /\ Loose(at)' /\ pc' # "shrink"
    <3>1. 2 .. Len(frames') = {}
      BY <2>2, <2>5
    <3> QED
      BY <2>1, <3>1 DEF NewUnnamed, Loose
  <2> QED
    BY <1>2, <2>8, <2>9 DEF Placed
<1>4. CASE ~(ino[i].n_blocks < Limit(4))
  <2>1. pc' = "idle"
    BY <1>1, <1>4 DEF AllocStart
  <2> QED
    BY <1>2, <2>1, OwnStops
<1> QED
  BY <1>3, <1>4

-----------------------------------------------------------------------------
(* What a release visits                                                   *)
Above(at, x) == IF x \in DOMAIN at THEN at[x].up ELSE NoBlock
Ancestor(at, x, d) ==
    CASE d = 0 -> x [] d = 1 -> Above(at, x) [] d = 2 -> Above(at, Above(at, x))
      [] d = 3 -> Above(at, Above(at, Above(at, x)))
(* The blocks of its file at or below the block b of level m.              *)
Part(at, m, b) ==
    {x \in DOMAIN at : at[x].own = at[b].own /\ at[x].lvl <= m
                       /\ Ancestor(at, x, m - at[x].lvl) = b}
AreSpots(at) == at \in [DOMAIN at -> Spots] /\ DOMAIN at \subseteq Blocks

LEMMA AncestorNext ==
    ASSUME NEW at, NEW x, NEW d \in 0 .. 2
    PROVE  Ancestor(at, x, 0) = x /\ Ancestor(at, x, d + 1) = Above(at, Ancestor(at, x, d))
<1>1. d = 0 \/ d = 1 \/ d = 2
  OBVIOUS
<1>2. /\ Ancestor(at, x, 0) = x /\ Ancestor(at, x, 1) = Above(at, x)
      /\ Ancestor(at, x, 2) = Above(at, Above(at, x))
      /\ Ancestor(at, x, 3) = Above(at, Above(at, Above(at, x)))
  BY DEF Ancestor
<1> QED
  BY <1>1, <1>2

LEMMA PartSelf ==
    ASSUME NEW at, AreSpots(at), NEW b \in DOMAIN at, NEW m \in Levels, at[b].lvl = m
    PROVE  b \in Part(at, m, b)
<1>1. m <= m /\ m - m = 0
  BY DEF Levels
<1>2. 0 \in 0 .. 2
  OBVIOUS
<1> QED
  BY <1>1, <1>2, AncestorNext DEF Part

LEMMA PartBelow ==
    ASSUME NEW at, AreSpots(at), NEW m \in 0 .. 2, NEW b, NEW c \in DOMAIN at,
           at[c].up = b, at[c].own = at[b].own
    PROVE  Part(at, m, c) \subseteq Part(at, m + 1, b)
<1> SUFFICES ASSUME NEW x \in Part(at, m, c) PROVE x \in Part(at, m + 1, b)
  OBVIOUS
<1>1. /\ x \in DOMAIN at /\ at[x].own = at[c].own /\ at[x].lvl <= m
      /\ Ancestor(at, x, m - at[x].lvl) = c
  BY DEF Part
<1>2. at[x].lvl \in Levels
  BY <1>1 DEF AreSpots, Spots
<1>3. PICK d \in 0 .. 2 : d = m - at[x].lvl /\ m + 1 - at[x].lvl = d + 1
  <2>1. m - at[x].lvl \in 0 .. 2 /\ m + 1 - at[x].lvl = (m - at[x].lvl) + 1
    BY <1>1, <1>2 DEF Levels
  <2> QED
    BY <2>1
<1>4. Ancestor(at, x, d + 1) = Above(at, c)
  BY <1>1, <1>3, AncestorNext
<1>5. Ancestor(at, x, m + 1 - at[x].lvl) = b
  BY <1>3, <1>4 DEF Above
<1>6. at[x].lvl <= m + 1
  BY <1>1, <1>2 DEF Levels
<1>7. at[x].own = at[b].own
  BY <1>1
<1>8. PICK n \in 1 .. 3 : n = m + 1
  OBVIOUS
<1>9. at[x].lvl <= n /\ Ancestor(at, x, n - at[x].lvl) = b
  <2>1. n - at[x].lvl = d + 1
    BY <1>2, <1>3, <1>8 DEF Levels
  <2>2. Ancestor(at, x, d + 1) = b
    BY <1>4 DEF Above
  <2> QED
    BY <1>6, <1>8, <2>1, <2>2
<1>10. x \in Part(at, n, b)
  BY <1>1, <1>7, <1>9 DEF Part
<1> QED
  BY <1>8, <1>10

LEMMA PartOver ==
    ASSUME NEW at, AreSpots(at), NEW m \in 0 .. 2, NEW b, at[b].lvl = m + 1, NEW c
    PROVE  b \notin Part(at, m, c)
<1>1. ~(m + 1 <= m)
  OBVIOUS
<1> QED
  BY <1>1 DEF Part

LEMMA PartApart ==
    ASSUME NEW at, NEW m, NEW b, NEW c, b # c
    PROVE  Part(at, m, b) \intersect Part(at, m, c) = {}
  BY DEF Part

(* Two blocks that the inode names at different levels.                    *)
LEMMA RootApart ==
    ASSUME NEW at, AreSpots(at), NEW k \in Levels, NEW l \in Levels, k < l,
           NEW b \in DOMAIN at, at[b].up = NoBlock, NEW c \in Blocks
    PROVE  Part(at, k, b) \intersect Part(at, l, c) = {}
<1> SUFFICES ASSUME NEW x \in Part(at, k, b), x \in Part(at, l, c) PROVE FALSE
  OBVIOUS
<1>1. /\ x \in DOMAIN at /\ at[x].lvl <= k
      /\ Ancestor(at, x, k - at[x].lvl) = b /\ Ancestor(at, x, l - at[x].lvl) = c
  BY DEF Part
<1>2. at[x].lvl \in Levels
  BY <1>1 DEF AreSpots, Spots
<1>3. PICK d \in 0 .. 2, e \in 1 .. 3 :
          /\ d = k - at[x].lvl /\ e = l - at[x].lvl /\ d < e
  <2>1. k - at[x].lvl \in 0 .. 2 /\ l - at[x].lvl \in 1 .. 3 /\ k - at[x].lvl < l - at[x].lvl
    BY <1>1, <1>2 DEF Levels
  <2> QED
    BY <2>1
<1>4. c # NoBlock /\ NoBlock \notin DOMAIN at
  BY Layout DEF AreSpots
<1>5. Ancestor(at, x, d + 1) = NoBlock
  BY <1>1, <1>3, AncestorNext DEF Above
<1>6. ASSUME NEW f \in 0 .. 2, Ancestor(at, x, f) = NoBlock PROVE Ancestor(at, x, f + 1) = NoBlock
  BY <1>4, <1>6, AncestorNext DEF Above
<1>7. Ancestor(at, x, e) = NoBlock
  <2>1. CASE e = d + 1
    BY <1>5, <2>1
  <2>2. CASE e = d + 2
    <3>1. d + 1 \in 0 .. 2 /\ (d + 1) + 1 = e
      BY <2>2
    <3> QED
      BY <1>5, <1>6, <3>1
  <2>3. CASE e = d + 3
    <3>1. d = 0 /\ e = 3
      BY <2>3
    <3>2. Ancestor(at, x, 1) = NoBlock
      BY <1>5, <3>1
    <3>3. Ancestor(at, x, 2) = NoBlock
      <4>1. 1 \in 0 .. 2 /\ 1 + 1 = 2
        OBVIOUS
      <4> QED
        BY <1>6, <3>2, <4>1
    <3>4. 2 \in 0 .. 2 /\ 2 + 1 = 3
      OBVIOUS
    <3> QED
      BY <1>6, <3>1, <3>3, <3>4
  <2>4. e = d + 1 \/ e = d + 2 \/ e = d + 3
    BY <1>3
  <2> QED
    BY <2>1, <2>2, <2>3, <2>4
<1> QED
  BY <1>1, <1>3, <1>4, <1>7

LEMMA AppendedIs ==
    ASSUME NEW s \in Seq(Blocks), NEW b \in Blocks
    PROVE  /\ Append(s, b) \in Seq(Blocks) /\ Range(Append(s, b)) = Range(s) \union {b}
           /\ IsInjective(s) /\ b \notin Range(s) => IsInjective(Append(s, b))
<1> DEFINE t == Append(s, b)
           n == Len(s)
<1>1. /\ t \in Seq(Blocks) /\ n \in Nat /\ DOMAIN s = 1 .. n /\ DOMAIN t = 1 .. n + 1
      /\ t[n + 1] = b /\ \A k \in 1 .. n : t[k] = s[k]
  OBVIOUS
<1> HIDE DEF t, n
<1>2. 1 .. n + 1 = (1 .. n) \union {n + 1}
  BY <1>1
<1>3. Range(t) = Range(s) \union {b}
  BY <1>1, <1>2 DEF Range
<1>4. ASSUME IsInjective(s), b \notin Range(s) PROVE IsInjective(t)
  <2> SUFFICES ASSUME NEW j \in 1 .. n + 1, NEW k \in 1 .. n + 1, t[j] = t[k] PROVE j = k
    BY <1>1 DEF IsInjective
  <2>1. CASE j \in 1 .. n /\ k \in 1 .. n
    BY <1>1, <1>4, <2>1 DEF IsInjective
  <2>2. CASE j = n + 1 /\ k \in 1 .. n
    BY <1>1, <1>4, <2>2 DEF Range
  <2>3. CASE k = n + 1 /\ j \in 1 .. n
    BY <1>1, <1>4, <2>3 DEF Range
  <2>4. CASE k = n + 1 /\ j = n + 1
    BY <2>4
  <2> QED
    BY <1>2, <2>1, <2>2, <2>3, <2>4
<1> QED
  BY <1>1, <1>3, <1>4 DEF t

(* A walk of a release, from acc to r: each block once, and none but those *)
(* of P beside what acc has.                                               *)
Takes(r, acc, P) ==
    r \in Acc /\ IsInjective(r[2]) /\ Range(r[2]) \subseteq Range(acc[2]) \union P
Ready(acc, P) == acc \in Acc /\ IsInjective(acc[2]) /\ Range(acc[2]) \intersect P = {}
WalkGood(at, m) ==
    \A acc \in Acc, b \in DOMAIN at :
        at[b].lvl = m /\ Ready(acc, Part(at, m, b))
            => Takes(Walk(m, 0, acc, b), acc, Part(at, m, b))
FirstParts(at, m, s, k) == UNION {Part(at, m, s[j]) : j \in 1 .. k}

LEMMA WalkAllTakes ==
    ASSUME PoolType, NEW at, NEW m \in 0 .. 2, WalkGood(at, m),
           NEW s \in Seq(Blocks), IsInjective(s),
           \A j \in DOMAIN s : s[j] \in DOMAIN at /\ at[s[j]].lvl = m,
           NEW acc, Ready(acc, FirstParts(at, m, s, Len(s)))
    PROVE  Takes(WalkAll(m, 0, acc, s), acc, FirstParts(at, m, s, Len(s)))
<1>0. acc \in Acc
  BY Zenon DEF Ready
<1>1. acc \in Acc /\ Len(s) \in Nat /\ DOMAIN s = 1 .. Len(s) /\ 0 \in Nat
  BY <1>0
<1>2. PICK h \in [0 .. Len(s) -> Acc] :
          /\ h[0] = acc /\ h[Len(s)] = WalkAll(m, 0, acc, s)
          /\ \A k \in 1 .. Len(s) : h[k] = Walk(m, 0, h[k - 1], s[k])
  <2>1. WalkTyped(m, 0)
    <3>1. m \in 0 .. 3
      OBVIOUS
    <3> QED
      BY <1>1, <3>1, WalkType
  <2>2. PICK h \in [0 .. Len(s) -> Acc] :
            /\ h[0] = acc /\ h[Len(s)] = WalkAll(m, 0, acc, s)
            /\ \A k \in 1 .. Len(s) : h[k] = Walk(m, 0, h[k - 1], s[k])
    BY <1>0, <2>1, WalkAllRuns
  <2> QED
    BY <2>2
<1>3. PICK n \in Nat : n = Len(s)
  BY <1>1
<1> DEFINE P == {k \in 0 .. n : Takes(h[k], acc, FirstParts(at, m, s, k))}
<1>4. 0 \in P
  <2>1. Takes(h[0], acc, FirstParts(at, m, s, 0))
    BY <1>1, <1>2 DEF Takes, Ready
  <2> QED
    BY <1>3, <2>1
<1>5. ASSUME NEW k \in 1 .. n, k - 1 \in P PROVE k \in P
  <2>1. PICK b : b = s[k]
    OBVIOUS
  <2>2. PICK e : e = h[k - 1]
    OBVIOUS
  <2>3. /\ Takes(e, acc, FirstParts(at, m, s, k - 1))
        /\ h[k] = Walk(m, 0, e, b) /\ b \in DOMAIN at /\ at[b].lvl = m /\ e \in Acc
    <3>1. Takes(e, acc, FirstParts(at, m, s, k - 1)) /\ h[k] = Walk(m, 0, e, b)
      BY <1>2, <1>3, <1>5, <2>1, <2>2
    <3> QED
      BY <1>1, <1>3, <2>1, <3>1 DEF Takes
  <2>4. Part(at, m, b) \subseteq FirstParts(at, m, s, n)
    BY <2>1 DEF FirstParts
  <2>5. Part(at, m, b) \intersect FirstParts(at, m, s, k - 1) = {}
    <3>1. ASSUME NEW j \in 1 .. k - 1 PROVE Part(at, m, b) \intersect Part(at, m, s[j]) = {}
      <4>1. s[j] # b
        <5>1. j \in DOMAIN s /\ k \in DOMAIN s /\ j # k
          BY <1>1, <1>3
        <5> QED
          BY <2>1, <5>1 DEF IsInjective
      <4> QED
        BY <4>1, PartApart
    <3> QED
      BY <3>1 DEF FirstParts
  <2>6. Ready(e, Part(at, m, b))
    BY <1>3, <2>3, <2>4, <2>5 DEF Ready, Takes
  <2>7. Takes(h[k], e, Part(at, m, b))
    BY <2>3, <2>6 DEF WalkGood
  <2>8. FirstParts(at, m, s, k - 1) \union Part(at, m, b) \subseteq FirstParts(at, m, s, k)
    <3>1. 1 .. k - 1 \subseteq 1 .. k /\ k \in 1 .. k
      OBVIOUS
    <3> QED
      BY <2>1, <3>1 DEF FirstParts
  <2>9. Takes(h[k], acc, FirstParts(at, m, s, k))
    BY <2>3, <2>7, <2>8 DEF Takes
  <2> QED
    BY <2>9
<1>6. 0 .. n \subseteq P
  <2> HIDE DEF P
  <2> QED
    BY <1>4, <1>5, UpTo
<1>7. n \in P
  <2>1. n \in 0 .. n
    OBVIOUS
  <2> QED
    BY <1>6, <2>1, Zenon
<1> QED
  BY <1>2, <1>3, <1>7

LEMMA ForestSpots == ASSUME PoolType, NEW at, Forest(at) PROVE AreSpots(at)
  BY DEF Forest, AreSpots, PoolType

(* The entries of an array that is right.                                  *)
Children(at, s, i, k, p) ==
    /\ s \in Seq(Blocks) /\ IsInjective(s)
    /\ \A j \in DOMAIN s : /\ s[j] \in DOMAIN at
                           /\ at[s[j]].own = i /\ at[s[j]].lvl = k /\ at[s[j]].up = p
LEMMA ChildrenAre ==
    ASSUME NEW at, NEW n \in Nat, NEW a \in [1 .. n -> Refs], NEW i, NEW k, NEW p,
           Right(at, a, i, k, p)
    PROVE  Children(at, Entries(a), i, k, p)
<1>1. PICK s : s = Entries(a)
  OBVIOUS
<1>2. /\ s \in Seq(Blocks) /\ Len(s) \in 0 .. n /\ DOMAIN s = 1 .. Len(s)
      /\ \A j \in 1 .. Len(s) : s[j] = a[j] /\ a[j] # NoBlock
  BY <1>1, EntriesAre
<1>3. ASSUME NEW j \in DOMAIN s PROVE s[j] \in DOMAIN at /\ at[s[j]] = Spot(i, k, p, j)
  <2>1. j \in DOMAIN a /\ s[j] = a[j] /\ a[j] # NoBlock
    BY <1>2
  <2> QED
    BY <2>1 DEF Right, Names
<1>4. ASSUME NEW j \in DOMAIN s PROVE /\ at[s[j]].own = i /\ at[s[j]].lvl = k
                                      /\ at[s[j]].up = p /\ at[s[j]].idx = j
  <2>1. at[s[j]] = [own |-> i, lvl |-> k, up |-> p, idx |-> j]
    BY <1>3, <1>4 DEF Spot
  <2> QED
    BY <2>1
<1>5. IsInjective(s)
  BY <1>4 DEF IsInjective
<1> QED
  BY <1>1, <1>2, <1>3, <1>4, <1>5 DEF Children

LEMMA WalkTakes ==
    ASSUME PoolType, NEW at, Forest(at)
    PROVE  \A m \in 0 .. 3 : WalkGood(at, m)
<1> DEFINE P == {m \in 0 .. 3 : WalkGood(at, m)}
<1>1. AreSpots(at)
  BY ForestSpots
<1>2. 0 \in P
  <2> SUFFICES ASSUME NEW acc \in Acc, NEW b \in DOMAIN at,
                      at[b].lvl = 0, Ready(acc, Part(at, 0, b))
               PROVE  Takes(Walk(0, 0, acc, b), acc, Part(at, 0, b))
    BY DEF WalkGood
  <2>1. acc[1] \in Nat /\ acc[2] \in Seq(Blocks) /\ b \in Blocks
    BY <1>1, AccIs DEF AreSpots
  <2>2. Walk(0, 0, acc, b) = <<acc[1] + 1, Append(acc[2], b)>>
    BY <2>1, WalkIs DEF ReleaseData
  <2>3. b \in Part(at, 0, b)
    BY <1>1, PartSelf DEF Levels
  <2>4. b \notin Range(acc[2]) /\ IsInjective(acc[2])
    BY <2>3 DEF Ready
  <2>5. PICK q : q = Append(acc[2], b)
    OBVIOUS
  <2>6. q \in Seq(Blocks) /\ Range(q) = Range(acc[2]) \union {b} /\ IsInjective(q)
    BY <2>1, <2>4, <2>5, AppendedIs
  <2>7. PICK r : r = Walk(0, 0, acc, b)
    OBVIOUS
  <2>8. r \in Acc /\ r[2] = q
    <3>1. r = <<acc[1] + 1, q>> /\ acc[1] + 1 \in Nat
      BY <2>1, <2>2, <2>5, <2>7
    <3> QED
      BY <2>6, <3>1, AccIs
  <2> QED
    BY <2>3, <2>6, <2>7, <2>8 DEF Takes
<1>3. ASSUME NEW k \in 1 .. 3, k - 1 \in P PROVE k \in P
  <2>1. PICK m \in 0 .. 2 : m = k - 1 /\ m + 1 = k
    <3>1. k - 1 \in 0 .. 2 /\ (k - 1) + 1 = k
      OBVIOUS
    <3> QED
      BY <3>1
  <2>2. WalkGood(at, m)
    BY <1>3, <2>1
  <2> SUFFICES ASSUME NEW acc \in Acc, NEW b \in DOMAIN at,
                      at[b].lvl = m + 1, Ready(acc, Part(at, m + 1, b))
               PROVE  Takes(Walk(m + 1, 0, acc, b), acc, Part(at, m + 1, b))
    <3>1. WalkGood(at, m + 1)
      BY DEF WalkGood
    <3> QED
      BY <2>1, <3>1
  <2>3. PICK s : s = Entries(ReadArray(b))
    OBVIOUS
  <2>4. Children(at, s, at[b].own, m, b)
    <3>1. b \in DOMAIN content /\ content[b] \in [1 .. BPI -> Refs] /\ ReadArray(b) = content[b]
      BY DEF Forest, PoolType, ReadArray, Array
    <3>2. at[b].lvl > 0 /\ at[b].lvl - 1 = m
      OBVIOUS
    <3>3. Right(at, content[b], at[b].own, m, b)
      BY <3>2 DEF Forest
    <3> QED
      BY <2>3, <3>1, <3>3, Layout, ChildrenAre
  <2>5. PICK Q : Q = FirstParts(at, m, s, Len(s))
    OBVIOUS
  <2>6. Q \subseteq Part(at, m + 1, b) /\ b \notin Q
    <3>1. ASSUME NEW j \in 1 .. Len(s)
          PROVE  Part(at, m, s[j]) \subseteq Part(at, m + 1, b) /\ b \notin Part(at, m, s[j])
      <4>1. s[j] \in DOMAIN at /\ at[s[j]].up = b /\ at[s[j]].own = at[b].own
        BY <2>4 DEF Children
      <4>2. Part(at, m, s[j]) \subseteq Part(at, m + 1, b)
        BY <1>1, <4>1, PartBelow
      <4> QED
        BY <1>1, <4>2, PartOver
    <3> QED
      BY <2>5, <3>1 DEF FirstParts
  <2>7. PICK r : r = WalkAll(m, 0, acc, s)
    OBVIOUS
  <2>8. Takes(r, acc, Q)
    <3>1. Ready(acc, Q)
      BY <2>6 DEF Ready
    <3>2. /\ s \in Seq(Blocks) /\ IsInjective(s)
          /\ \A j \in DOMAIN s : s[j] \in DOMAIN at /\ at[s[j]].lvl = m
      BY <2>4 DEF Children
    <3> QED
      BY <2>2, <2>5, <2>7, <3>1, <3>2, WalkAllTakes
  <2>9. acc[1] \in Nat /\ r[1] \in Nat /\ r[2] \in Seq(Blocks) /\ b \in Blocks
    <3>1. r \in Acc
      BY <2>8, Zenon DEF Takes
    <3> QED
      BY <1>1, <3>1, AccIs DEF AreSpots
  <2>10. Walk(m + 1, 0, acc, b) = <<r[1], Append(r[2], b)>>
    <3>1. Walk(m + 1, 0, acc, b)
              = ReleaseNode(0, acc, WalkAll(m, 0, acc, Entries(ReadArray(b))), b)
      BY WalkIs
    <3>2. Walk(m + 1, 0, acc, b) = ReleaseNode(0, acc, r, b)
      BY <2>3, <2>7, <3>1, Zenon
    <3>3. acc[1] >= 0
      BY <2>9
    <3> QED
      BY <3>2, <3>3, Zenon DEF ReleaseNode
  <2>11. b \in Part(at, m + 1, b)
    <3>1. m + 1 \in Levels
      BY DEF Levels
    <3> QED
      BY <1>1, <3>1, PartSelf
  <2>12. b \notin Range(r[2]) /\ IsInjective(r[2])
    BY <2>6, <2>8, <2>11 DEF Ready, Takes
  <2>13. PICK q : q = Append(r[2], b)
    OBVIOUS
  <2>14. q \in Seq(Blocks) /\ Range(q) = Range(r[2]) \union {b} /\ IsInjective(q)
    BY <2>9, <2>12, <2>13, AppendedIs
  <2>15. PICK w : w = Walk(m + 1, 0, acc, b)
    OBVIOUS
  <2>16. w \in Acc /\ w[2] = q
    <3>1. w = <<r[1], q>>
      BY <2>10, <2>13, <2>15
    <3> QED
      BY <2>9, <2>14, <3>1, AccIs
  <2> QED
    BY <2>6, <2>8, <2>11, <2>14, <2>15, <2>16 DEF Takes
<1>4. 0 .. 3 \subseteq P
  <2> HIDE DEF P
  <2> QED
    BY <1>2, <1>3, UpTo
<1> QED
  BY <1>4

(* The blocks of a file that its pointers of level l lead to.              *)
Roots(at, i, l) == {c \in DOMAIN at : at[c].own = i /\ at[c].lvl = l /\ at[c].up = NoBlock}
Under(at, i, l) == UNION {Part(at, l, c) : c \in Roots(at, i, l)}

LEMMA UnderApart ==
    ASSUME NEW at, AreSpots(at), NEW i, NEW k \in Levels, NEW l \in Levels, k < l
    PROVE  Under(at, i, k) \intersect Under(at, i, l) = {}
<1>1. ASSUME NEW b \in Roots(at, i, k), NEW c \in Roots(at, i, l)
      PROVE  Part(at, k, b) \intersect Part(at, l, c) = {}
  <2>1. b \in DOMAIN at /\ at[b].up = NoBlock /\ c \in Blocks
    BY DEF Roots, AreSpots
  <2> QED
    BY <2>1, RootApart
<1> QED
  BY <1>1 DEF Under

LEMMA UnderOwn ==
    ASSUME NEW at, NEW i, NEW l
    PROVE  Under(at, i, l) \subseteq {x \in DOMAIN at : at[x].own = i}
<1>1. ASSUME NEW c \in Roots(at, i, l), NEW x \in Part(at, l, c)
      PROVE  x \in DOMAIN at /\ at[x].own = i
  BY DEF Roots, Part
<1> QED
  BY <1>1 DEF Under

(* A pointer of the inode that is not empty, and all of those of a level.  *)
LEMMA RootIs ==
    ASSUME NEW at, NEW a, NEW i, NEW l, Right(at, a, i, l, NoBlock),
           NEW s \in DOMAIN a, a[s] # NoBlock
    PROVE  a[s] \in DOMAIN at /\ at[a[s]].lvl = l /\ Part(at, l, a[s]) \subseteq Under(at, i, l)
<1>1. a[s] \in DOMAIN at /\ at[a[s]] = Spot(i, l, NoBlock, s)
  BY DEF Right, Names
<1>2. at[a[s]].own = i /\ at[a[s]].lvl = l /\ at[a[s]].up = NoBlock
  BY <1>1 DEF Spot
<1>3. a[s] \in Roots(at, i, l)
  BY <1>1, <1>2 DEF Roots
<1> QED
  BY <1>1, <1>2, <1>3 DEF Under

LEMMA LevelTakes ==
    ASSUME PoolType, NEW at, Forest(at), NEW m \in 0 .. 2, NEW n \in Nat, NEW a \in [1 .. n -> Refs],
           NEW i, Right(at, a, i, m, NoBlock), NEW acc, Ready(acc, Under(at, i, m))
    PROVE  Takes(WalkAll(m, 0, acc, Entries(a)), acc, Under(at, i, m))
<1>1. PICK s : s = Entries(a)
  OBVIOUS
<1>2. Children(at, s, i, m, NoBlock)
  BY <1>1, ChildrenAre
<1>3. PICK Q : Q = FirstParts(at, m, s, Len(s))
  OBVIOUS
<1>4. Q \subseteq Under(at, i, m)
  <2>1. ASSUME NEW j \in 1 .. Len(s) PROVE Part(at, m, s[j]) \subseteq Under(at, i, m)
    <3>1. s[j] \in Roots(at, i, m)
      BY <1>2 DEF Children, Roots
    <3> QED
      BY <3>1 DEF Under
  <2> QED
    BY <1>3, <2>1 DEF FirstParts
<1>5. Ready(acc, Q)
  BY <1>4 DEF Ready
<1>6. WalkGood(at, m)
  <2>1. m \in 0 .. 3
    OBVIOUS
  <2> QED
    BY <2>1, WalkTakes
<1>7. Takes(WalkAll(m, 0, acc, s), acc, Q)
  BY <1>2, <1>3, <1>5, <1>6, WalkAllTakes DEF Children
<1> QED
  BY <1>1, <1>4, <1>7 DEF Takes

LEMMA NodeTakes ==
    ASSUME PoolType, NEW at, Forest(at), NEW m \in 0 .. 3, NEW a, NEW i,
           Right(at, a, i, m, NoBlock), 1 \in DOMAIN a, a[1] # NoBlock,
           NEW acc, Ready(acc, Under(at, i, m))
    PROVE  Takes(Walk(m, 0, acc, a[1]), acc, Under(at, i, m))
<1>1. PICK b : b = a[1]
  OBVIOUS
<1>2. b \in DOMAIN at /\ at[b].lvl = m /\ Part(at, m, b) \subseteq Under(at, i, m)
  BY <1>1, RootIs
<1>3. Ready(acc, Part(at, m, b)) /\ acc \in Acc
  BY <1>2 DEF Ready
<1>4. Takes(Walk(m, 0, acc, b), acc, Part(at, m, b))
  BY <1>2, <1>3, WalkTakes DEF WalkGood
<1> QED
  BY <1>1, <1>2, <1>4 DEF Takes

(* What a walk of the next level begins with.                              *)
LEMMA ReadyNext ==
    ASSUME NEW at, AreSpots(at), NEW i, NEW l \in Levels, NEW acc,
           Takes(acc, <<0, <<>>>>, UNION {Under(at, i, k) : k \in 0 .. l - 1})
    PROVE  Ready(acc, Under(at, i, l))
<1>1. Range(<<>>) = {}
  BY DEF Range
<1>2. ASSUME NEW k \in 0 .. l - 1 PROVE Under(at, i, k) \intersect Under(at, i, l) = {}
  <2>1. k \in Levels /\ k < l
    BY DEF Levels
  <2> QED
    BY <2>1, UnderApart
<1>3. <<0, <<>>>>[2] = <<>>
  OBVIOUS
<1> QED
  BY <1>1, <1>2, <1>3 DEF Ready, Takes

LEMMA TakesMore ==
    ASSUME NEW acc, NEW r, NEW base, NEW P, NEW Q, NEW R, Takes(acc, base, P), Takes(r, acc, Q),
           P \subseteq R, Q \subseteq R
    PROVE  Takes(r, base, R)
  BY DEF Takes

(* A release from the first block on appends blocks of the file, each once. *)
LEMMA ReleasedOwn ==
    ASSUME TypeInv, NEW at, Forest(at), NEW i \in linked
    PROVE  /\ IsInjective(Released(ino[i], 0))
           /\ Range(Released(ino[i], 0)) \subseteq {x \in DOMAIN at : at[x].own = i}
<1>1. PICK b : b = ino[i].blocks
  OBVIOUS
<1>2. PICK base : base = <<0, <<>>>>
  OBVIOUS
<1>3. PICK d, s, e, t : /\ d = Direct(ino[i], 0) /\ s = Single(ino[i], 0)
                        /\ e = Double(ino[i], 0) /\ t = Triple(ino[i], 0)
  OBVIOUS
<1> DEFINE U(l) == UNION {Under(at, i, k) : k \in 0 .. l}
<1>4. PoolType /\ AreSpots(at)
  BY ForestSpots, TypeParts
<1>5. \A l \in Levels : /\ b[l] \in [1 .. Pointers(l) -> Refs] /\ Pointers(l) \in Nat
                        /\ Pointers(l) >= 1 /\ 1 \in DOMAIN b[l]
                        /\ Right(at, b[l], i, l, NoBlock)
  <2>1. IsInode(ino[i])
    BY TypeParts DEF InodesType
  <2> SUFFICES ASSUME NEW l \in Levels
               PROVE  /\ b[l] \in [1 .. Pointers(l) -> Refs] /\ Pointers(l) \in Nat
                      /\ Pointers(l) >= 1 /\ 1 \in DOMAIN b[l]
                      /\ Right(at, b[l], i, l, NoBlock)
    OBVIOUS
  <2>2. b[l] \in [1 .. Pointers(l) -> Refs] /\ Right(at, b[l], i, l, NoBlock)
    BY <1>1, <2>1 DEF Forest, IsInode
  <2>3. Pointers(l) \in Nat /\ Pointers(l) >= 1
    BY Layout
  <2> QED
    BY <2>2, <2>3
<1>6. 0 \in Levels /\ 1 \in Levels /\ 2 \in Levels /\ 3 \in Levels
  BY DEF Levels
<1>7. base \in Acc /\ Range(base[2]) = {} /\ IsInjective(base[2])
  <2>1. <<>> \in Seq(Blocks) /\ base[2] = <<>>
    BY <1>2
  <2>2. Range(<<>>) = {} /\ IsInjective(<<>>)
    BY DEF Range, IsInjective
  <2> QED
    BY <1>2, <2>1, <2>2, AccIs
<1>8. ASSUME NEW l \in 0 .. 2, NEW acc, Takes(acc, base, U(l)) PROVE Ready(acc, Under(at, i, l + 1))
  <2>1. PICK k \in Levels : k = l + 1 /\ k - 1 = l
    <3>1. l + 1 \in Levels /\ (l + 1) - 1 = l
      BY DEF Levels
    <3> QED
      BY <3>1
  <2>2. Takes(acc, <<0, <<>>>>, UNION {Under(at, i, j) : j \in 0 .. k - 1})
    BY <1>2, <1>8, <2>1
  <2>3. Ready(acc, Under(at, i, k))
    BY <1>4, <2>2, ReadyNext
  <2> QED
    BY <2>1, <2>3
<1>9. ASSUME NEW l \in 0 .. 3, NEW k \in 0 .. l PROVE U(k) \subseteq U(l) /\ Under(at, i, l) \subseteq U(l)
  <2>1. 0 .. k \subseteq 0 .. l /\ l \in 0 .. l
    OBVIOUS
  <2> QED
    BY <2>1
<1> HIDE DEF U
<1>10. ASSUME NEW l \in 0 .. 2, NEW acc, Ready(acc, Under(at, i, l))
       PROVE  Takes(WalkAll(l, 0, acc, Entries(b[l])), acc, Under(at, i, l))
  <2>1. PICK n \in Nat : n = Pointers(l)
    BY <1>5 DEF Levels
  <2>2. PICK a : a = b[l]
    OBVIOUS
  <2>3. a \in [1 .. n -> Refs] /\ Right(at, a, i, l, NoBlock)
    BY <1>5, <2>1, <2>2 DEF Levels
  <2>4. Takes(WalkAll(l, 0, acc, Entries(a)), acc, Under(at, i, l))
    BY <1>4, <1>10, <2>3, LevelTakes
  <2> QED
    BY <2>2, <2>4
<1>11. Takes(d, base, U(0))
  <2>1. Ready(base, Under(at, i, 0))
    BY <1>7 DEF Ready
  <2>2. d = WalkAll(0, 0, base, Entries(b[0]))
    BY <1>1, <1>2, <1>3 DEF Direct
  <2>3. Takes(d, base, Under(at, i, 0))
    BY <1>10, <2>1, <2>2
  <2>4. Under(at, i, 0) \subseteq U(0)
    BY <1>9
  <2> QED
    BY <2>3, <2>4 DEF Takes
<1>12. Takes(s, base, U(1))
  <2>1. Ready(d, Under(at, i, 1))
    <3>1. Ready(d, Under(at, i, 0 + 1))
      BY <1>8, <1>11
    <3> QED
      BY <3>1
  <2>2. s = WalkAll(1, 0, d, Entries(b[1]))
    BY <1>1, <1>3 DEF Single
  <2>3. Takes(s, d, Under(at, i, 1))
    BY <1>10, <2>1, <2>2
  <2>4. U(0) \subseteq U(1) /\ Under(at, i, 1) \subseteq U(1)
    BY <1>9
  <2> QED
    BY <1>11, <2>3, <2>4, TakesMore
<1>13. Takes(e, base, U(2))
  <2>1. U(1) \subseteq U(2) /\ Under(at, i, 2) \subseteq U(2)
    BY <1>9
  <2>2. CASE b[2][1] = NoBlock
    <3>1. e = s
      BY <1>1, <1>3, <2>2 DEF Double
    <3> QED
      BY <1>12, <2>1, <3>1 DEF Takes
  <2>3. CASE b[2][1] # NoBlock
    <3>1. Ready(s, Under(at, i, 2))
      <4>1. Ready(s, Under(at, i, 1 + 1))
        BY <1>8, <1>12
      <4> QED
        BY <4>1
    <3>2. e = Walk(2, 0, s, b[2][1])
      BY <1>1, <1>3, <2>3 DEF Double
    <3>3. Takes(e, s, Under(at, i, 2))
      BY <1>4, <1>5, <1>6, <2>3, <3>1, <3>2, NodeTakes
    <3> QED
      BY <1>12, <2>1, <3>3, TakesMore
  <2> QED
    BY <2>2, <2>3
<1>14. Takes(t, base, U(3))
  <2>1. U(2) \subseteq U(3) /\ Under(at, i, 3) \subseteq U(3)
    BY <1>9
  <2>2. CASE b[2][1] = NoBlock \/ b[3][1] = NoBlock
    <3>1. t = e
      BY <1>1, <1>3, <2>2 DEF Triple
    <3> QED
      BY <1>13, <2>1, <3>1 DEF Takes
  <2>3. CASE b[2][1] # NoBlock /\ b[3][1] # NoBlock
    <3>1. Ready(e, Under(at, i, 3))
      <4>1. Ready(e, Under(at, i, 2 + 1))
        BY <1>8, <1>13
      <4> QED
        BY <4>1
    <3>2. t = Walk(3, 0, e, b[3][1])
      BY <1>1, <1>3, <2>3 DEF Triple
    <3>3. Takes(t, e, Under(at, i, 3))
      BY <1>4, <1>5, <1>6, <2>3, <3>1, <3>2, NodeTakes
    <3> QED
      BY <1>13, <2>1, <3>3, TakesMore
  <2> QED
    BY <2>2, <2>3
<1>15. U(3) \subseteq {x \in DOMAIN at : at[x].own = i}
  BY UnderOwn DEF U
<1>16. Released(ino[i], 0) = t[2]
  BY <1>3, ReleasedIs
<1> QED
  BY <1>7, <1>14, <1>15, <1>16 DEF Takes

Keeping(at, i) == [x \in {y \in DOMAIN at : at[y].own # i} |-> at[x]]

LEMMA OwnUnlink ==
    ASSUME TypeInv, TypeInv', NEW at, Placed(at), NEW i \in Inodes, Unlink(i)
    PROVE  \E t : Placed(t)' /\ t = Keeping(at, i)
<1>1. /\ pc' = "free_inode" /\ UNCHANGED <<free, content, ino>> /\ i \in linked
      /\ linked' = linked \ {i} /\ todo' = Released(ino[i], 0)
      /\ Forest(at) /\ Apart
  BY DEF Unlink, ReleaseStart, Placed, pool
<1>2. PICK at2 : at2 = Keeping(at, i)
  OBVIOUS
<1>3. /\ DOMAIN at2 = {y \in DOMAIN at : at[y].own # i}
      /\ \A x \in DOMAIN at2 : at2[x] = at[x]
  BY <1>2 DEF Keeping
<1>4. at2 \in [DOMAIN at2 -> Spots] /\ DOMAIN at2 \subseteq DOMAIN content
  <2>1. at \in [DOMAIN at -> Spots] /\ DOMAIN at \subseteq DOMAIN content
    BY <1>1 DEF Forest
  <2>2. \A x \in DOMAIN at2 : at2[x] \in Spots
    BY <1>3, <2>1
  <2>3. at2 = [x \in DOMAIN at2 |-> at2[x]]
    BY <1>2 DEF Keeping
  <2> QED
    BY <1>3, <2>1, <2>2, <2>3
<1>5. ASSUME NEW a, NEW j, j # i, NEW k, NEW p, Right(at, a, j, k, p) PROVE Right(at2, a, j, k, p)
  <2>1. ASSUME NEW s \in DOMAIN a, a[s] # NoBlock
        PROVE  a[s] \in DOMAIN at2 /\ at2[a[s]] = at[a[s]]
    <3>1. a[s] \in DOMAIN at /\ at[a[s]] = Spot(j, k, p, s)
      BY <1>5, <2>1 DEF Right, Names
    <3>2. at[a[s]].own = j
      BY <3>1 DEF Spot
    <3> QED
      BY <1>3, <1>5, <3>1, <3>2
  <2> QED
    BY <1>5, <2>1, RightKept
<1>6. \A j \in linked', k \in Levels : Right(at2, ino'[j].blocks[k], j, k, NoBlock)
  BY <1>1, <1>5 DEF Forest
<1>7. ASSUME NEW p \in DOMAIN at2, at2[p].lvl > 0
      PROVE  Right(at2, content'[p], at2[p].own, at2[p].lvl - 1, p)
  <2>1. p \in DOMAIN at /\ at2[p] = at[p] /\ at[p].own # i /\ content'[p] = content[p]
    BY <1>1, <1>3
  <2>2. Right(at, content[p], at[p].own, at[p].lvl - 1, p)
    BY <1>1, <1>7, <2>1 DEF Forest
  <2> QED
    BY <1>5, <2>1, <2>2
<1>8. Forest(at2)' /\ Apart'
  BY <1>1, <1>4, <1>6, <1>7 DEF Forest, Apart
<1>9. Range(todo') \intersect DOMAIN at2 = {}
  BY <1>1, <1>3, ReleasedOwn
<1>10. Placed(at2)'
  BY <1>1, <1>8, <1>9, OwnStops
<1> QED
  BY <1>2, <1>10

LEMMA OwnInit == MapInit => OwnInv
<1> SUFFICES ASSUME MapInit PROVE OwnInv
  OBVIOUS
<1>1. PICK at : at = [x \in {} |-> Spot(0, 0, 0, 0)]
  OBVIOUS
<1>2. DOMAIN at = {} /\ at \in [DOMAIN at -> Spots]
  BY <1>1
<1>3. linked = {} /\ pc = "idle" /\ failures = 0 /\ DOMAIN content = {}
  BY DEF MapInit, Pool!PoolInit
<1>4. Placed(at)
  BY <1>2, <1>3 DEF Placed, Forest, Stacked, NewUnnamed, Loose, Apart, Working
<1> QED
  BY <1>3, <1>4 DEF OwnInv

LEMMA OwnSame ==
    ASSUME NEW at, Placed(at), UNCHANGED mapVars
    PROVE  Placed(at)'
<1>1. UNCHANGED <<free, content, ino, linked, pc, buf, frames, top, cand, todo>>
  BY DEF mapVars, pool, alloc
<1>2. Placed(at)'
  BY <1>1 DEF Placed, Forest, Stacked, NewUnnamed, Unnamed, Loose, Apart, self
<1> QED
  BY <1>2

(* Past the end of an array.                                               *)
LEMMA StrayAppend ==
    ASSUME NEW at, NEW us, Len(us) \in Nat, NEW fs \in Seq(Frame), StrayFrames(at, us, fs),
           NEW f \in Frame, f.new, f.target \in Blocks, f.target \notin DOMAIN at
    PROVE  StrayFrames(at, us, Append(fs, f))
<1>1. PICK gs : gs = Append(fs, f)
  OBVIOUS
<1>2. /\ Len(fs) \in Nat /\ Len(gs) = Len(fs) + 1 /\ gs[Len(fs) + 1] = f
      /\ \A d \in 1 .. Len(fs) : gs[d] = fs[d]
  BY <1>1
<1>3. Len(gs) > Len(us) /\ \A d \in 1 .. Len(us) : gs[d] = us[d]
  BY <1>2 DEF StrayFrames
<1>4. ASSUME NEW d \in 1 .. Len(gs), d > Len(us)
      PROVE  gs[d].new /\ gs[d].target \in Blocks /\ gs[d].target \notin DOMAIN at
  <2>1. d = Len(fs) + 1 \/ d \in 1 .. Len(fs)
    BY <1>2
  <2> QED
    BY <1>2, <1>4, <2>1 DEF StrayFrames
<1> QED
  BY <1>1, <1>3, <1>4 DEF StrayFrames

LEMMA StrayPut ==
    ASSUME NEW at, NEW us, Len(us) \in Nat, NEW fs, Len(fs) \in Nat, StrayFrames(at, us, fs),
           NEW D \in 1 .. Len(fs), D > Len(us), NEW gs, Len(gs) = Len(fs),
           \A d \in 1 .. Len(fs) : d # D => gs[d] = fs[d],
           gs[D].target = fs[D].target, gs[D].new = fs[D].new
    PROVE  StrayFrames(at, us, gs)
<1>1. ASSUME NEW d \in 1 .. Len(us) PROVE gs[d] = us[d]
  <2>1. d \in 1 .. Len(fs) /\ d # D
    BY DEF StrayFrames
  <2> QED
    BY <2>1 DEF StrayFrames
<1>2. ASSUME NEW d \in 1 .. Len(gs) PROVE gs[d].new = fs[d].new /\ gs[d].target = fs[d].target
  <2>1. d \in 1 .. Len(fs)
    OBVIOUS
  <2> QED
    BY <2>1
<1> QED
  BY <1>1, <1>2 DEF StrayFrames

(* What is left when the last array is popped.                             *)
LEMMA StrayFront ==
    ASSUME NEW at, NEW us \in Seq(Frame), NEW fs \in Seq(Frame), StrayFrames(at, us, fs),
           NEW gs \in Seq(Frame), Len(gs) = Len(fs) - 1,
           \A d \in 1 .. Len(gs) : gs[d] = fs[d]
    PROVE  \/ Len(gs) = Len(us) /\ gs = us
           \/ Len(gs) > Len(us) /\ StrayFrames(at, us, gs)
<1>1. /\ Len(us) \in Nat /\ Len(fs) \in Nat /\ Len(gs) \in Nat /\ Len(gs) >= Len(us)
  BY DEF StrayFrames
<1>2. \A d \in 1 .. Len(us) : gs[d] = us[d]
  BY <1>1 DEF StrayFrames
<1>3. CASE Len(gs) = Len(us)
  <2>1. \A d \in 1 .. Len(gs) : gs[d] = us[d]
    BY <1>2, <1>3
  <2>2. gs = us
    BY <1>3, <2>1, SeqEqual
  <2> QED
    BY <1>3, <2>2
<1>4. CASE Len(gs) # Len(us)
  <2>1. Len(gs) > Len(us)
    BY <1>1, <1>4
  <2>2. \A d \in 1 .. Len(gs) : d \in 1 .. Len(fs)
    BY <1>1
  <2>3. StrayFrames(at, us, gs)
    BY <1>2, <2>1, <2>2 DEF StrayFrames
  <2> QED
    BY <2>1, <2>3
<1> QED
  BY <1>3, <1>4

LEMMA StackNewKept ==
    ASSUME NEW at, NEW us, StackNew(at, us), ino' = ino, linked' = linked,
           \A p \in DOMAIN at : content'[p] = content[p]
    PROVE  StackNew(at, us)'
<1> SUFFICES ASSUME NEW d \in 2 .. Len(us), us[d].new PROVE Unnamed(at, us[d].target)'
  BY DEF StackNew
<1>1. PICK x : x = us[d].target
  OBVIOUS
<1>2. Unnamed(at, x)
  BY <1>1 DEF StackNew
<1>3. Unnamed(at, x)'
  BY <1>2, UnnamedSame
<1> QED
  BY <1>1, <1>3

(* A step leaves alone what is on disk.                                    *)
Unchanged(at) ==
    /\ UNCHANGED <<ino, linked, buf, top>>
    /\ \A p \in DOMAIN at : p \in DOMAIN content' /\ content'[p] = content[p]
    /\ Apart'

LEMMA AstrayNext ==
    ASSUME NEW at, NEW us, Astray(at, us), Unchanged(at), overruns' # {},
           pc' \in Working, pc = "unwind" => pc' = "unwind", StrayFrames(at, us, frames'),
           pc' = "descend" => my_blocks' = 0,
           pc' = "give_back" => cand' \notin DOMAIN at
    PROVE  Astray(at, us)'
<1>1. Forest(at)'
  BY ForestSame DEF Astray, Unchanged
<1>2. buf' = ino'[self'] /\ self' \in linked' /\ self' = self /\ top' = top
  BY DEF Astray, Unchanged, self
<1>3. pc' # "unwind" => StackNew(at, us)'
  BY StackNewKept DEF Astray, Unchanged
<1> QED
  BY <1>1, <1>2, <1>3 DEF Astray, Unchanged

LEMMA AstrayBack ==
    ASSUME NEW at, NEW us, Astray(at, us), Unchanged(at), pc' \in {"unwind", "undo"},
           pc = "unwind" => pc' = "unwind", frames' = us
    PROVE  Placed(at)'
<1>1. Forest(at)'
  BY ForestSame DEF Astray, Unchanged
<1>2. Stacked(at)'
  BY DEF Astray, Unchanged, self, Stacked
<1>3. NewUnnamed(at)'
  <2> SUFFICES ASSUME pc' = "undo" PROVE NewUnnamed(at)'
    BY DEF NewUnnamed
  <2>1. StackNew(at, us)'
    BY StackNewKept DEF Astray, Unchanged
  <2> QED
    BY <2>1 DEF NewUnnamed, StackNew
<1> QED
  BY <1>1, <1>2, <1>3 DEF Placed, Loose, Unchanged

(* What the allocation works in then.                                      *)
LEMMA AstrayIs ==
    ASSUME TypeInv, NEW at, NEW us, Astray(at, us)
    PROVE  /\ pc \in Working /\ pc \in Allocating /\ Forest(at) /\ Apart /\ overruns # {}
           /\ us \in Seq(Frame) /\ Len(us) \in Nat /\ Len(us) >= 1
           /\ frames \in Seq(Frame) /\ IsStack(frames, top) /\ top \in Levels
           /\ StrayFrames(at, us, frames)
           /\ Depth = Len(frames) /\ Depth \in Nat /\ Depth > Len(us) /\ Depth > 1
           /\ frames[Depth].new /\ frames[Depth].target \in Blocks
           /\ frames[Depth].target \notin DOMAIN at
           /\ \A p \in DOMAIN at : p \in DOMAIN content
<1>1. /\ pc \in Working /\ Forest(at) /\ Apart /\ overruns # {} /\ IsStack(us, top)
      /\ Len(us) >= 1 /\ StrayFrames(at, us, frames)
  BY DEF Astray
<1>2. pc \in Allocating
  BY <1>1 DEF Working, Allocating
<1>3. /\ Depth = Len(frames) /\ Depth \in Nat /\ top \in Levels /\ IsStack(frames, top)
  BY <1>2, StackIs, TypeParts DEF Changing
<1>4. us \in Seq(Frame) /\ Len(us) \in Nat /\ frames \in Seq(Frame)
  BY <1>1, <1>3 DEF IsStack
<1>5. Depth > Len(us) /\ Depth > 1 /\ Depth \in 1 .. Len(frames)
  BY <1>1, <1>3, <1>4 DEF StrayFrames
<1>6. /\ frames[Depth].new /\ frames[Depth].target \in Blocks
      /\ frames[Depth].target \notin DOMAIN at
  BY <1>1, <1>5 DEF StrayFrames
<1>7. \A p \in DOMAIN at : p \in DOMAIN content
  BY <1>1 DEF Forest
<1> QED
  BY <1>1, <1>2, <1>3, <1>4, <1>5, <1>6, <1>7

LEMMA StrayStored ==
    ASSUME TypeInv, NEW at, NEW us, Astray(at, us), NEW b \in Blocks,
           first_unused < Len(blocks)
    PROVE  StrayFrames(at, us, Stored(b)) /\ Stored(b) \in Seq(Frame)
<1>1. /\ us \in Seq(Frame) /\ Len(us) \in Nat /\ frames \in Seq(Frame)
      /\ StrayFrames(at, us, frames) /\ pc \in Allocating
      /\ Depth = Len(frames) /\ Depth \in Nat /\ Depth > Len(us)
  BY AstrayIs
<1>4. PICK gs : gs = Stored(b)
  OBVIOUS
<1>5. PICK D \in 1 .. Len(frames) : D = Depth
  BY <1>1
<1>2. gs = Stored(b) /\ D = Depth /\ D > Len(us)
  BY <1>1, <1>4, <1>5
<1>3. /\ IsStack(gs, top) /\ Len(gs) = Len(frames)
      /\ \A d \in 1 .. Len(frames) : d # D => gs[d] = frames[d]
      /\ gs[D].target = frames[D].target /\ gs[D].new = frames[D].new
  BY <1>1, <1>2, StoredIs
<1>6. StrayFrames(at, us, gs)
  BY <1>1, <1>2, <1>3, StrayPut
<1> QED
  BY <1>2, <1>3, <1>6 DEF IsStack

LEMMA AstrayPops ==
    ASSUME TypeInv, NEW at, NEW us, Astray(at, us), NEW b \in Poppable, Pool!Alloc(b),
           UNCHANGED <<ino, linked, buf, top>>
    PROVE  Unchanged(at) /\ b \in Blocks /\ b \notin DOMAIN at
<1>1. PoppedFor(at, b)
  BY AstrayIs, PopApart
<1> QED
  BY <1>1 DEF PoppedFor, Unchanged

LEMMA AstrayReleases ==
    ASSUME TypeInv, NEW at, NEW us, Astray(at, us), NEW b, b \notin DOMAIN at, Pool!Release(b),
           UNCHANGED <<ino, linked, buf, top>>
    PROVE  Unchanged(at)
<1>1. /\ DOMAIN content' = DOMAIN content \ {b} /\ free' = free \union {b}
      /\ \A c \in DOMAIN content : c # b => content'[c] = content[c]
  BY ReleaseType, TypeParts
<1>2. Apart /\ \A p \in DOMAIN at : p \in DOMAIN content
  BY AstrayIs
<1> QED
  BY <1>1, <1>2 DEF Unchanged, Apart

LEMMA AstrayNewIndirect ==
    ASSUME TypeInv, NEW at, NEW us, Astray(at, us), NewIndirect
    PROVE  Astray(at, us)'
<1>1. PICK b \in Poppable :
          /\ Pool!Alloc(b) /\ pc' = pc /\ (overruns' = overruns \/ overruns' = overruns \union {b})
          /\ \/ first_unused < Len(blocks) /\ frames' = Append(Stored(b), NewFrame(b))
             \/ frames' = Append(frames, NewFrame(b))
  BY DEF NewIndirect
<1>2. UNCHANGED <<ino, linked, buf, top>> /\ my_blocks' = 0 /\ pc = "descend"
  BY DEF NewIndirect
<1>3. Unchanged(at) /\ b \in Blocks /\ b \notin DOMAIN at
  BY <1>1, <1>2, AstrayPops
<1>4. PICK fs \in Seq(Frame) : frames' = Append(fs, NewFrame(b)) /\ StrayFrames(at, us, fs)
  BY <1>1, <1>3, StrayStored, AstrayIs
<1>5. StrayFrames(at, us, frames')
  <2>1. PICK f : f = NewFrame(b)
    OBVIOUS
  <2>2. f \in Frame /\ f.new /\ f.target = b
    BY <1>3, <2>1, EmptyIs, FrameIs DEF Refs
  <2>3. Len(us) \in Nat
    BY AstrayIs
  <2>4. StrayFrames(at, us, Append(fs, f))
    BY <1>3, <1>4, <2>2, <2>3, StrayAppend
  <2> QED
    BY <1>4, <2>1, <2>4
<1>6. overruns' # {} /\ pc' \in Working
  BY <1>1, AstrayIs
<1> QED
  BY <1>1, <1>2, <1>3, <1>5, <1>6, AstrayNext

LEMMA AstrayNewDirect ==
    ASSUME TypeInv, NEW at, NEW us, Astray(at, us), NewDirect
    PROVE  Astray(at, us)'
<1>1. PICK b \in Poppable :
          /\ Pool!Alloc(b) /\ cand' = b
          /\ \/ first_unused < Len(blocks) /\ frames' = Stored(b) /\ pc' = "unwind"
             \/ frames' = frames /\ pc' = "give_back"
  BY DEF NewDirect
<1>2. UNCHANGED <<ino, linked, buf, top, overruns>> /\ pc = "descend"
  BY DEF NewDirect
<1>3. Unchanged(at) /\ b \in Blocks /\ b \notin DOMAIN at
  BY <1>1, <1>2, AstrayPops
<1>4. StrayFrames(at, us, frames')
  BY <1>1, <1>3, StrayStored, AstrayIs
<1>5. overruns' # {} /\ pc' \in Working /\ pc' # "descend"
  BY <1>1, <1>2, AstrayIs DEF Working
<1> QED
  BY <1>1, <1>2, <1>3, <1>4, <1>5, AstrayNext

LEMMA AstrayGivesUp ==
    ASSUME TypeInv, NEW at, NEW us, Astray(at, us), GiveBack \/ PopFails
    PROVE  Astray(at, us)'
<1>1. /\ UNCHANGED <<ino, linked, buf, top, overruns, frames>> /\ pc' = "undo"
      /\ pc # "unwind"
  BY DEF GiveBack, PopFails, alloc
<1>2. Unchanged(at)
  <2>1. CASE GiveBack
    <3>1. cand \notin DOMAIN at /\ Pool!Release(cand)
      BY <2>1 DEF GiveBack, Astray
    <3> QED
      BY <1>1, <3>1, AstrayReleases
  <2>2. CASE PopFails
    <3>1. UNCHANGED <<free, content>>
      BY <2>2 DEF PopFails, pool
    <3> QED
      BY <1>1, <3>1, AstrayIs DEF Unchanged, Apart
  <2> QED
    BY <2>1, <2>2
<1>3. StrayFrames(at, us, frames')
  BY <1>1, AstrayIs
<1>4. overruns' # {} /\ pc' \in Working
  BY <1>1, AstrayIs DEF Working
<1> QED
  BY <1>1, <1>2, <1>3, <1>4, AstrayNext

LEMMA AstrayUpper ==
    ASSUME TypeInv, NEW at, NEW us, Astray(at, us)
    PROVE  \/ Front(frames) = us
           \/ Len(us) < Depth - 1 /\ StrayFrames(at, us, Front(frames))
<1>1. /\ us \in Seq(Frame) /\ frames \in Seq(Frame) /\ StrayFrames(at, us, frames)
      /\ pc \in Allocating /\ Depth > 1 /\ Depth = Len(frames)
  BY AstrayIs
<1>2. PICK gs : gs = Front(frames)
  OBVIOUS
<1>3. /\ IsStack(gs, top) /\ Len(gs) = Depth - 1 /\ \A d \in 1 .. Depth - 1 : gs[d] = frames[d]
  BY <1>1, <1>2, UpperIs
<1>4. gs \in Seq(Frame)
  BY <1>3 DEF IsStack
<1>5. gs = us \/ (Len(gs) > Len(us) /\ StrayFrames(at, us, gs))
  BY <1>1, <1>3, <1>4, StrayFront
<1>6. Len(us) \in Nat /\ Depth \in Nat
  BY AstrayIs
<1> QED
  BY <1>2, <1>3, <1>5, <1>6

LEMMA AstrayWriteIndirect ==
    ASSUME TypeInv, NEW at, NEW us, Astray(at, us), WriteIndirect
    PROVE  Placed(at)' \/ Astray(at, us)'
<1>1. /\ UNCHANGED <<ino, linked, buf, top, overruns>> /\ pc = "unwind" /\ pc' = "unwind"
      /\ Pool!Write(frames[Depth].target, blocks) /\ frames' = Front(frames)
  BY DEF WriteIndirect
<1>2. PICK b : b = frames[Depth].target
  OBVIOUS
<1>3. /\ DOMAIN content' = DOMAIN content /\ free' = free
      /\ \A c \in DOMAIN content : c # b => content'[c] = content[c]
  <2>1. blocks \in Array
    <3>1. Depth # 1
      BY AstrayIs
    <3> QED
      BY <3>1, AstrayIs, StackIs DEF Width, Array
  <2> QED
    BY <1>1, <1>2, <2>1, WriteType, TypeParts
<1>4. Unchanged(at)
  <2>1. Apart /\ b \notin DOMAIN at /\ \A p \in DOMAIN at : p \in DOMAIN content
    BY <1>2, AstrayIs
  <2> QED
    BY <1>1, <1>3, <2>1 DEF Unchanged, Apart
<1>5. CASE Front(frames) = us
  BY <1>1, <1>4, <1>5, AstrayBack
<1>6. CASE StrayFrames(at, us, Front(frames))
  <2>1. StrayFrames(at, us, frames') /\ overruns' # {} /\ pc' \in Working
    BY <1>1, <1>6, AstrayIs
  <2> QED
    BY <1>1, <1>4, <2>1, AstrayNext
<1> QED
  BY <1>5, <1>6, AstrayUpper

LEMMA AstrayUndoIndirect ==
    ASSUME TypeInv, NEW at, NEW us, Astray(at, us), UndoIndirect
    PROVE  Placed(at)' \/ Astray(at, us)'
<1> DEFINE upper == Front(frames)
           slot == Len(Entries(upper[Depth - 1].indblock))
           cleared == [upper EXCEPT ![Depth - 1].indblock[slot] = NoBlock]
<1>1. /\ UNCHANGED <<ino, linked, buf, top, overruns>> /\ pc = "undo" /\ pc' = "undo"
      /\ Pool!Release(frames[Depth].target)
      /\ frames' = IF upper[Depth - 1].indblock[slot] = frames[Depth].target
                   THEN cleared ELSE upper
  BY AstrayIs DEF UndoIndirect
<1>2. Unchanged(at)
  BY <1>1, AstrayIs, AstrayReleases
<1>3. /\ IsStack(upper, top) /\ Len(upper) = Depth - 1 /\ Depth - 1 \in 1 .. Len(upper)
      /\ Len(upper) \in Nat /\ top \in Levels
  BY AstrayIs, UpperIs
<1>4. /\ slot \in Nat
      /\ slot >= 1 => /\ upper[Depth - 1].indblock[slot] # NoBlock
                      /\ slot \in DOMAIN upper[Depth - 1].indblock
  <2>1. PICK a, n : a = upper[Depth - 1].indblock /\ n = Width(top, Depth - 1)
    OBVIOUS
  <2>2. n \in Nat /\ a \in [1 .. n -> Refs] /\ DOMAIN a = 1 .. n
    BY <1>3, <2>1, StackArray
  <2>3. Len(Entries(a)) \in 0 .. n /\ \A s \in 1 .. Len(Entries(a)) : a[s] # NoBlock
    BY <2>2, EntriesAre
  <2> QED
    BY <2>1, <2>2, <2>3
<1> HIDE DEF slot
<1>5. CASE upper = us
  <2>1. PICK e, a, m : e = slot /\ a = upper[Depth - 1].indblock /\ m = Len(us)
    OBVIOUS
  <2>10. m = Depth - 1 /\ Depth - 1 \in 1 .. Len(us)
    BY <1>3, <1>5, <2>1
  <2>11. a = us[m].indblock /\ e = Len(Entries(a))
    BY <1>5, <2>1, <2>10 DEF slot
  <2>8. m = Depth - 1 /\ a = us[m].indblock /\ m \in 1 .. Len(us) /\ e = Len(Entries(a))
    BY <2>10, <2>11
  <2>9. Len(Entries(us[Len(us)].indblock)) >= 1
    BY DEF Astray
  <2>12. Len(Entries(a)) >= 1
    BY <2>1, <2>8, <2>9, Zenon
  <2>2. m = Depth - 1 /\ a = us[m].indblock /\ e = Len(Entries(a)) /\ e >= 1 /\ m \in 1 .. Len(us)
    BY <2>8, <2>12
  <2>3. e \in DOMAIN a /\ a[e] # NoBlock
    BY <1>4, <2>1, <2>2
  <2>4. Right(at, a, self, top - (m - 1), us[m].target)
    BY <2>2 DEF Astray, StackRight
  <2>5. a[e] \in DOMAIN at
    BY <2>3, <2>4 DEF Right, Names
  <2>6. frames' = us
    BY <1>1, <1>5, <2>1, <2>5, AstrayIs
  <2>7. Placed(at)'
    BY <1>1, <1>2, <2>6, AstrayBack
  <2> QED
    BY <2>7
<1>6. CASE Len(us) < Depth - 1 /\ StrayFrames(at, us, upper)
  <2>1. StrayFrames(at, us, frames')
    <3>1. CASE frames' = upper
      BY <1>6, <3>1
    <3>2. CASE frames' = cleared
      <4>1. PICK fs : fs = upper
        OBVIOUS
      <4>2. PICK D \in 1 .. Len(fs), n \in Nat, c \in Refs : D = Depth - 1 /\ n = slot /\ c = NoBlock
        BY <1>3, <1>4, <4>1 DEF Refs
      <4>3. PICK gs : gs = Put(fs, D, n, c)
        OBVIOUS
      <4>4. gs = cleared
        BY <4>1, <4>2, <4>3 DEF Put
      <4>5. IsPut(fs, gs, top, D, n, c)
        BY <1>3, <4>1, <4>3, PutIs
      <4>6. Len(us) \in Nat /\ Len(fs) \in Nat /\ StrayFrames(at, us, fs) /\ D > Len(us)
        BY <1>3, <1>6, <4>1, <4>2, AstrayIs
      <4>7. StrayFrames(at, us, gs)
        BY <4>5, <4>6, StrayPut DEF IsPut
      <4> QED
        BY <3>2, <4>4, <4>7
    <3> QED
      BY <1>1, <3>1, <3>2
  <2>2. overruns' # {} /\ pc' \in Working
    BY <1>1, AstrayIs DEF Working
  <2>3. Astray(at, us)'
    BY <1>1, <1>2, <2>1, <2>2, AstrayNext
  <2> QED
    BY <2>3
<1> QED
  BY <1>5, <1>6, AstrayUpper

LEMMA AstrayCrash ==
    ASSUME TypeInv, NEW at, NEW us, Astray(at, us), Crash
    PROVE  Placed(at)'
<1>1. /\ pc' = "idle" /\ UNCHANGED <<content, ino, linked>> /\ free' \subseteq free
      /\ Forest(at) /\ Apart
  BY CrashType, TypeParts DEF Crash, Astray, Rest
<1>2. Forest(at)' /\ Apart'
  BY <1>1, ForestSame DEF Apart, Forest
<1> QED
  BY <1>1, <1>2, OwnStops

(* NewIndirect stores past the end of an array.                            *)
LEMMA OwnOverrun ==
    ASSUME TypeInv, NEW at, Placed(at), NewIndirect, first_unused = Len(blocks)
    PROVE  \E us : Astray(at, us)'
<1>1. pc = "descend" /\ pc \in Working /\ pc \in Allocating
  BY DEF NewIndirect, Working, Allocating
<1>2. first_unused \in Nat /\ ~(first_unused < Len(blocks)) /\ Len(blocks) >= 1
  BY <1>1, StackIs
<1>3. PICK b \in Poppable :
          /\ Pool!Alloc(b) /\ pc' = pc /\ overruns' = overruns \union {b}
          /\ frames' = Append(frames, NewFrame(b))
  BY <1>2 DEF NewIndirect
<1>4. /\ UNCHANGED <<ino, linked, buf, top>> /\ my_blocks' = 0
      /\ Forest(at) /\ Stacked(at) /\ NewUnnamed(at) /\ Apart
  BY DEF NewIndirect, Placed
<1>5. PoppedFor(at, b)
  BY <1>3, <1>4, PopApart
<1>6. b \in Blocks /\ b \notin DOMAIN at /\ Apart'
      /\ \A p \in DOMAIN at : p \in DOMAIN content' /\ content'[p] = content[p]
  BY <1>5 DEF PoppedFor
<1>7. /\ self \in linked /\ buf = ino[self] /\ self' = self
      /\ top \in Levels /\ IsStack(frames, top) /\ StackRight(at, frames, top, self)
      /\ Depth = Len(frames) /\ Depth \in Nat /\ Depth >= 1
      /\ blocks = frames[Depth].indblock /\ first_unused = Len(Entries(blocks))
  BY <1>1, <1>4, WorkingIs DEF self
<1>8. PICK us : us = frames
  OBVIOUS
<1>9. Forest(at)'
  BY <1>4, <1>6, ForestSame
<1>10. StackNew(at, us)'
  <2>1. StackNew(at, us)
    BY <1>1, <1>4, <1>8 DEF NewUnnamed, StackNew
  <2> QED
    BY <1>4, <1>6, <2>1, StackNewKept
<1>11. StrayFrames(at, us, frames')
  <2>1. PICK f : f = NewFrame(b)
    OBVIOUS
  <2>2. f \in Frame /\ f.new /\ f.target = b
    BY <1>6, <2>1, EmptyIs, FrameIs DEF Refs
  <2>3. us \in Seq(Frame) /\ Len(us) \in Nat
    BY <1>7, <1>8 DEF IsStack
  <2>4. PICK gs : gs = Append(us, f)
    OBVIOUS
  <2>5. /\ Len(gs) = Len(us) + 1 /\ gs[Len(us) + 1] = f /\ \A d \in 1 .. Len(us) : gs[d] = us[d]
    BY <2>2, <2>3, <2>4
  <2>6. StrayFrames(at, us, gs)
    BY <1>6, <2>2, <2>3, <2>5 DEF StrayFrames
  <2> QED
    BY <1>3, <1>8, <2>1, <2>4, <2>6
<1>12. IsStack(us, top)' /\ Len(us) >= 1 /\ Len(Entries(us[Len(us)].indblock)) >= 1
       /\ StackRight(at, us, top, self)'
  BY <1>2, <1>4, <1>7, <1>8
<1>13. overruns' # {} /\ pc' \in Working /\ pc' # "give_back"
  BY <1>1, <1>3
<1>14. Astray(at, us)'
  BY <1>4, <1>6, <1>7, <1>9, <1>10, <1>11, <1>12, <1>13 DEF Astray
<1> QED
  BY <1>14

LEMMA AstraySame ==
    ASSUME NEW at, NEW us, Astray(at, us), UNCHANGED mapVars
    PROVE  Astray(at, us)'
<1>1. UNCHANGED <<free, content, ino, linked, pc, buf, frames, top, cand, my_blocks, overruns>>
  BY DEF mapVars, pool, alloc
<1>2. Astray(at, us)'
  BY <1>1 DEF Astray, Forest, StackNew, Unnamed, Apart, self
<1> QED
  BY <1>2

OwnedNext == \E t : Placed(t)' \/ \E us : Astray(t, us)'

(* An allocation astray goes on, or comes back where its place is.         *)
LEMMA AstrayMoves ==
    ASSUME TypeInv, NEW at, NEW us, Astray(at, us), [MapNext]_mapVars
    PROVE  OwnedNext
<1>1. /\ pc \in Working /\ pc # "idle" /\ Depth > 1 /\ pc # "free_inode" /\ pc # "shrink"
  BY AstrayIs DEF Working
<1>2. CASE UNCHANGED mapVars
  BY <1>2, AstraySame DEF OwnedNext
<1>3. CASE \E i \in Inodes : \/ Create(i) \/ AllocStart(i) \/ Unlink(i)
                             \/ \E start \in 0 .. Cardinality(Blocks) : FailedWrite(i, start)
  BY <1>1, <1>3 DEF Create, AllocStart, Unlink, FailedWrite, Idle
<1>4. CASE NewIndirect
  BY <1>4, AstrayNewIndirect DEF OwnedNext
<1>5. CASE OldIndirect
  <2>1. my_blocks = 0 /\ level \in Levels /\ my_blocks % Span(level) # 0
    BY <1>5, AstrayIs, StackIs DEF OldIndirect, Astray
  <2>2. Span(level) \in Nat /\ Span(level) >= 1
    BY <2>1, LimitsAre
  <2> QED
    BY <2>1, <2>2
<1>6. CASE NewDirect
  BY <1>6, AstrayNewDirect DEF OwnedNext
<1>7. CASE GiveBack \/ PopFails
  BY <1>7, AstrayGivesUp DEF OwnedNext
<1>8. CASE WriteIndirect
  BY <1>8, AstrayWriteIndirect DEF OwnedNext
<1>9. CASE UndoIndirect
  BY <1>9, AstrayUndoIndirect DEF OwnedNext
<1>10. CASE WriteInode \/ AllocFails
  BY <1>1, <1>10 DEF WriteInode, AllocFails
<1>11. CASE AppendNext \/ FreeInode \/ WriteReturns
  BY <1>1, <1>11 DEF AppendNext, FreeInode, WriteReturns
<1>12. CASE Crash
  BY <1>12, AstrayCrash DEF OwnedNext
<1> QED
  BY <1>2, <1>3, <1>4, <1>5, <1>6, <1>7, <1>8, <1>9, <1>10, <1>11, <1>12 DEF MapNext, Resume

PlacedNext == \E t : Placed(t)'

(* Every step but that of a write that fails, and an overrun.              *)
LEMMA OwnMoves ==
    ASSUME TypeInv, TypeInv', NEW at, Placed(at), [MapNext]_mapVars,
           failures \in Nat, failures' = failures,
           ~(NewIndirect /\ first_unused = Len(blocks))
    PROVE  PlacedNext
<1>1. CASE UNCHANGED mapVars
  BY <1>1, OwnSame DEF PlacedNext
<1>2. CASE \E i \in Inodes : Create(i) \/ AllocStart(i) \/ Unlink(i)
  BY <1>2, OwnCreate, OwnAllocStart, OwnUnlink DEF PlacedNext
<1>3. CASE Resume
  <2>1. pc # "shrink"
    BY DEF Placed
  <2>2. CASE NewIndirect
    <3>1. first_unused < Len(blocks)
      BY <2>2, StackIs DEF NewIndirect, Allocating
    <3> QED
      BY <2>2, <3>1, OwnNewIndirect DEF PlacedNext
  <2>3. CASE OldIndirect
    BY <2>3, OwnOldIndirect DEF PlacedNext
  <2>4. CASE NewDirect
    BY <2>4, OwnNewDirect DEF PlacedNext
  <2>5. CASE GiveBack \/ PopFails
    BY <2>5, OwnGiveBack, OwnPopFails DEF PlacedNext
  <2>6. CASE WriteIndirect \/ WriteInode
    BY <2>6, OwnWriteIndirect, OwnWriteInode DEF PlacedNext
  <2>7. CASE UndoIndirect \/ AllocFails
    BY <2>7, OwnUndoIndirect, OwnAllocFails DEF PlacedNext
  <2>8. CASE AppendNext \/ FreeInode
    BY <2>8, OwnAppendNext, OwnFreeInode DEF PlacedNext
  <2>9. CASE WriteReturns
    BY <2>1, <2>9 DEF WriteReturns
  <2> QED
    BY <1>3, <2>2, <2>3, <2>4, <2>5, <2>6, <2>7, <2>8, <2>9 DEF Resume
<1>4. CASE Crash
  BY <1>4, OwnCrash DEF PlacedNext
<1>5. CASE \E i \in Inodes, start \in 0 .. Cardinality(Blocks) : FailedWrite(i, start)
  <2>1. failures' = failures + 1
    BY <1>5 DEF FailedWrite
  <2> QED
    BY <2>1
<1> QED
  BY <1>1, <1>2, <1>3, <1>4, <1>5 DEF MapNext

LEMMA OwnStep == TypeInv /\ TypeInv' /\ OwnInv /\ [MapNext]_mapVars => OwnInv'
<1> SUFFICES ASSUME TypeInv, TypeInv', OwnInv, [MapNext]_mapVars PROVE OwnInv'
  OBVIOUS
<1>1. failures' = failures \/ failures' = failures + 1
  BY DEF MapNext, mapVars, Create, AllocStart, Unlink, FailedWrite, Resume, NewIndirect,
     OldIndirect, NewDirect, GiveBack, PopFails, WriteIndirect, WriteInode, UndoIndirect,
     AllocFails, AppendNext, FreeInode, WriteReturns, Crash
<1>2. failures \in Nat
  BY DEF OwnInv
<1>3. failures' \in Nat
  BY <1>1, <1>2
<1>4. ASSUME failures' = 0 PROVE OwnedNext
  <2>1. failures' = failures /\ failures = 0
    BY <1>1, <1>2, <1>4
  <2>2. PICK at : Placed(at) \/ \E us : Astray(at, us)
    BY <2>1 DEF OwnInv
  <2>3. CASE \E us : Astray(at, us)
    BY <2>3, AstrayMoves
  <2>4. CASE Placed(at) /\ NewIndirect /\ first_unused = Len(blocks)
    BY <2>4, OwnOverrun DEF OwnedNext
  <2>5. CASE Placed(at) /\ ~(NewIndirect /\ first_unused = Len(blocks))
    BY <1>2, <2>1, <2>5, OwnMoves DEF OwnedNext, PlacedNext
  <2> QED
    BY <2>2, <2>3, <2>4, <2>5
<1> QED
  BY <1>3, <1>4 DEF OwnInv, OwnedNext

(* The place of a block tells its only owner.                              *)
LEMMA OwnImplies == TypeInv /\ OwnInv => (failures = 0 => OwnedOnce)
<1> SUFFICES ASSUME TypeInv, OwnInv, failures = 0 PROVE OwnedOnce
  OBVIOUS
<1>1. PICK at : Placed(at) \/ \E us : Astray(at, us)
  BY DEF OwnInv
<1>2. Forest(at) /\ free \intersect DOMAIN at = {}
  BY <1>1 DEF Placed, Astray, Forest, Apart
<1>3. ASSUME NEW i \in linked
      PROVE  /\ IsInjective(AllBlocks(i))
             /\ Range(AllBlocks(i)) \subseteq {x \in DOMAIN at : at[x].own = i}
  BY <1>2, ReleasedOwn DEF AllBlocks
<1> QED
  BY <1>2, <1>3 DEF OwnedOnce

(* As long as no write failed, whatever crashed between two writes of an   *)
(* allocation or a release: no block is in two files, twice in one, or in  *)
(* a file and free.                                                        *)
THEOREM NeverShared == MapSpec => [](failures = 0 => OwnedOnce)
<1>1. MapSpec => []TypeInv
  BY TypeInit, TypeStep, PTL DEF MapSpec
<1>2. MapSpec => []OwnInv
  BY <1>1, OwnInit, OwnStep, PTL DEF MapSpec
<1> QED
  BY <1>1, <1>2, OwnImplies, PTL

-----------------------------------------------------------------------------
(* Multiples                                                               *)
LEMMA MulNat ==
    ASSUME NEW c \in Nat, NEW s \in Nat
    PROVE  c * s \in Nat
  OBVIOUS

LEMMA MulAdd ==
    ASSUME NEW a \in Int, NEW c \in Int, NEW s \in Int
    PROVE  (a + c) * s = a * s + c * s /\ (a - c) * s = a * s - c * s /\ a * s \in Int
  OBVIOUS

LEMMA MulLess ==
    ASSUME NEW a \in Int, NEW b \in Int, NEW s \in Nat, s >= 1
    PROVE  /\ a < b => a * s + s <= b * s
           /\ a <= b => a * s <= b * s
           /\ a * s < b * s => a < b
           /\ (a + 1) * s = a * s + s /\ (a - 1) * s = a * s - s
           /\ a * s \in Int /\ b * s \in Int
<1>1. a * s \in Int /\ b * s \in Int /\ (a + 1) * s = a * s + s /\ (a - 1) * s = a * s - s
  <2>1. (a + 1) * s = a * s + 1 * s /\ (a - 1) * s = a * s - 1 * s /\ a * s \in Int /\ b * s \in Int
    BY MulAdd
  <2> QED
    BY <2>1
<1>2. ASSUME a <= b PROVE a * s <= b * s
  <2>1. PICK c \in Nat : b = a + c
    <3>1. b - a \in Nat /\ b = a + (b - a)
      BY <1>2
    <3> QED
      BY <3>1
  <2>2. b * s = a * s + c * s /\ c * s \in Nat
    BY <2>1, MulAdd, MulNat
  <2> QED
    BY <1>1, <2>2
<1>3. ASSUME a < b PROVE a * s + s <= b * s
  <2>1. PICK c \in Nat : b = (a + 1) + c
    <3>1. b - (a + 1) \in Nat /\ b = (a + 1) + (b - (a + 1))
      BY <1>3
    <3> QED
      BY <3>1
  <2>2. b * s = (a + 1) * s + c * s /\ c * s \in Nat
    BY <2>1, MulAdd, MulNat
  <2> QED
    BY <1>1, <2>2
<1>4. ASSUME a * s < b * s PROVE a < b
  <2>1. CASE b <= a
    <3>1. PICK c \in Nat : a = b + c
      <4>1. a - b \in Nat /\ a = b + (a - b)
        BY <2>1
      <4> QED
        BY <4>1
    <3>2. a * s = b * s + c * s /\ c * s \in Nat
      BY <3>1, MulAdd, MulNat
    <3> QED
      BY <1>1, <1>4, <3>2
  <2> QED
    BY <2>1
<1> QED
  BY <1>1, <1>2, <1>3, <1>4

Mult(x, s) == \E q \in Int : x = q * s

LEMMA MultSum ==
    ASSUME NEW x \in Int, NEW y \in Int, NEW s \in Nat, Mult(x, s), Mult(y, s)
    PROVE  Mult(x + y, s) /\ Mult(x - y, s)
<1>1. PICK q \in Int, r \in Int : x = q * s /\ y = r * s
  BY DEF Mult
<1>2. (q + r) * s = x + y /\ (q - r) * s = x - y /\ q + r \in Int /\ q - r \in Int
  BY <1>1, MulAdd
<1>3. PICK u \in Int, v \in Int : x + y = u * s /\ x - y = v * s
  BY <1>2
<1> QED
  BY <1>3 DEF Mult

LEMMA MultOf ==
    ASSUME NEW x \in Int, NEW b \in Nat, NEW t \in Nat, NEW s \in Nat, s = b * t, Mult(x, s)
    PROVE  Mult(x, t)
<1>1. PICK q \in Int : x = q * s
  BY DEF Mult
<1>2. x = q * (b * t) /\ q * b \in Int
  BY <1>1
<1>3. q * (b * t) = (q * b) * t
  OBVIOUS
<1>4. PICK u \in Int : x = u * t
  BY <1>2, <1>3
<1> QED
  BY <1>4 DEF Mult

(* The remainder, which the code asks for.                                 *)
LEMMA ModMult ==
    ASSUME NEW a \in Nat, NEW s \in Nat, s >= 1
    PROVE  a % s \in Nat /\ a % s < s /\ Mult(a - (a % s), s)
<1>1. a = s * (a \div s) + (a % s) /\ a % s \in 0 .. s - 1 /\ a \div s \in Int
  OBVIOUS
<1>2. s * (a \div s) = (a \div s) * s
  BY <1>1
<1>3. a - (a % s) = (a \div s) * s
  BY <1>1, <1>2
<1>4. PICK u \in Int : a - (a % s) = u * s
  BY <1>1, <1>3
<1> QED
  BY <1>1, <1>4 DEF Mult

LEMMA ModZero ==
    ASSUME NEW a \in Nat, NEW s \in Nat, s >= 1
    PROVE  a % s = 0 <=> Mult(a, s)
<1>1. a % s \in Nat /\ a % s < s /\ Mult(a - (a % s), s)
  BY ModMult
<1>2. a % s = 0 => Mult(a, s)
  <2>1. ASSUME a % s = 0 PROVE Mult(a, s)
    <3>1. a - (a % s) = a
      BY <2>1
    <3> QED
      BY <1>1, <3>1
  <2> QED
    BY <2>1
<1>3. ASSUME Mult(a, s) PROVE a % s = 0
  <2>1. PICK r \in Nat : r = a % s
    BY <1>1
  <2>2. a - r \in Int /\ a - (a - r) = r /\ Mult(a - r, s)
    BY <1>1, <2>1
  <2>3. Mult(a - (a - r), s)
    BY <1>3, <2>2, MultSum
  <2>4. PICK q \in Int : r = q * s
    BY <2>2, <2>3 DEF Mult
  <2>5. q * s < 1 * s /\ (0 - 1) * s < q * s
    BY <1>1, <2>1, <2>4
  <2>6. q < 1 /\ 0 - 1 < q
    BY <2>5, MulLess
  <2>7. q = 0
    BY <2>6
  <2> QED
    BY <2>1, <2>4, <2>7
<1> QED
  BY <1>2, <1>3

-----------------------------------------------------------------------------
(* Sizes                                                                   *)

(* An array of level k under which there are m data blocks, all as far to  *)
(* the left as they can be: its entries, and how many of the m are under   *)
(* each of them (w).                                                       *)
Share(k, m, s) == IF s * Span(k) <= m THEN Span(k) ELSE m - (s - 1) * Span(k)
Slots(a, k, m) == \A s \in DOMAIN a : a[s] # NoBlock <=> (s - 1) * Span(k) < m
Weights(w, a, k, m) ==
    k > 0 => \A s \in DOMAIN a : a[s] # NoBlock => w[a[s]] = Share(k, m, s)
Filled(w, a, k, m) == Slots(a, k, m) /\ Weights(w, a, k, m)
(* The entry for a block more is there, but not yet the block.             *)
Opened(w, a, k, m) == Slots(a, k, m + 1) /\ Weights(w, a, k, m)

LEMMA FilledEmpty ==
    ASSUME NEW w, NEW n \in Nat, NEW a, DOMAIN a = 1 .. n, \A s \in 1 .. n : a[s] = NoBlock,
           NEW k \in Levels, NEW m \in Int, m <= 0
    PROVE  Filled(w, a, k, m)
<1>1. Span(k) \in Nat /\ Span(k) >= 1
  BY LimitsAre
<1>2. ASSUME NEW s \in 1 .. n PROVE ~((s - 1) * Span(k) < m)
  <2>1. s - 1 \in Nat /\ (s - 1) * Span(k) \in Nat
    BY <1>1, MulNat
  <2> QED
    BY <2>1
<1> QED
  BY <1>2 DEF Filled, Slots, Weights

LEMMA FilledAgree ==
    ASSUME NEW at, NEW a, NEW i, NEW j, NEW p, Right(at, a, i, j, p), NEW w, NEW w2,
           \A x \in DOMAIN at : w2[x] = w[x], NEW k, NEW m
    PROVE  /\ Filled(w, a, k, m) => Filled(w2, a, k, m)
           /\ Opened(w, a, k, m) => Opened(w2, a, k, m)
<1>1. \A s \in DOMAIN a : a[s] # NoBlock => w2[a[s]] = w[a[s]]
  BY DEF Right, Names
<1>2. Weights(w, a, k, m) => Weights(w2, a, k, m)
  BY <1>1 DEF Weights
<1> QED
  BY <1>2 DEF Filled, Opened

(* The last entry of an array, and whether its blocks are all there.       *)
LastSlot(a, k, n, m) ==
    LET e == Len(Entries(a)) IN
    /\ e \in 0 .. n /\ m <= e * Span(k) /\ (e >= 1 => (e - 1) * Span(k) < m)
    /\ Mult(m, Span(k)) => e < n /\ m = e * Span(k)
    /\ ~Mult(m, Span(k)) => e >= 1 /\ m < e * Span(k)

LEMMA LastSlotIs ==
    ASSUME NEW k \in Levels, NEW n \in Nat, NEW a \in [1 .. n -> Refs], Packed(a),
           NEW m \in Nat, m < n * Span(k), Slots(a, k, m)
    PROVE  LastSlot(a, k, n, m)
<1>1. PICK e, S \in Nat : e = Len(Entries(a)) /\ S = Span(k) /\ S >= 1
  <2>1. Len(Entries(a)) \in 0 .. n
    BY PackedIs
  <2>2. Span(k) \in Nat /\ Span(k) >= 1
    BY LimitsAre
  <2> QED
    BY <2>1, <2>2
<1>2. e \in 0 .. n /\ \A s \in 1 .. n : a[s] = NoBlock <=> s > e
  BY <1>1, PackedIs
<1>3. \A s \in 1 .. n : a[s] # NoBlock <=> (s - 1) * S < m
  BY <1>1 DEF Slots
<1>4. m <= e * S
  <2>1. CASE e = n
    BY <1>1, <2>1
  <2>2. CASE e < n
    <3>1. e + 1 \in 1 .. n /\ e + 1 > e /\ (e + 1) - 1 = e
      BY <1>2, <2>2
    <3>2. ~(e * S < m)
      BY <1>2, <1>3, <3>1
    <3>3. e * S \in Int
      BY <1>1, <1>2, MulLess
    <3> QED
      BY <3>2, <3>3
  <2> QED
    BY <1>2, <2>1, <2>2
<1>5. e >= 1 => (e - 1) * S < m
  <2>1. ASSUME e >= 1 PROVE (e - 1) * S < m
    <3>1. e \in 1 .. n /\ ~(e > e)
      BY <1>2, <2>1
    <3> QED
      BY <1>2, <1>3, <3>1
  <2> QED
    BY <2>1
<1>6. ASSUME Mult(m, S) PROVE e < n /\ m = e * S
  <2>1. PICK q \in Int : m = q * S
    BY <1>6 DEF Mult
  <2>2. q < n
    BY <1>1, <2>1, MulLess
  <2>3. q <= e
    <3>1. CASE e < q
      <4>1. e \in Int /\ e < q
        BY <3>1
      <4>2. e * S + S <= q * S /\ e * S \in Int
        BY <1>1, <4>1, MulLess
      <4>3. PICK y \in Int : y = e * S /\ y + S <= m /\ m <= y
        BY <1>4, <2>1, <4>2
      <4> QED
        BY <1>1, <4>3
    <3> QED
      BY <1>2, <3>1
  <2>4. e <= q
    <3>1. CASE e >= 1
      <4>1. (e - 1) * S < q * S
        BY <1>5, <2>1, <3>1
      <4>2. e - 1 < q
        BY <1>1, <1>2, <4>1, MulLess
      <4> QED
        BY <1>2, <4>2
    <3>2. CASE e = 0
      <4>1. (0 - 1) * S < q * S
        <5>1. (0 - 1) * S = 0 * S - S /\ 0 * S = 0
          BY <1>1, MulLess
        <5> QED
          BY <1>1, <2>1, <5>1
      <4>2. 0 - 1 < q
        BY <1>1, <4>1, MulLess
      <4> QED
        BY <3>2, <4>2
    <3> QED
      BY <1>2, <3>1, <3>2
  <2>5. q = e
    BY <1>2, <2>3, <2>4
  <2> QED
    BY <2>1, <2>2, <2>5
<1>7. ASSUME ~Mult(m, S) PROVE e >= 1 /\ m < e * S
  <2>1. m # e * S
    BY <1>2, <1>7 DEF Mult
  <2>2. e # 0
    <3>1. CASE e = 0
      <4>1. e * S = 0
        BY <1>1, <3>1
      <4> QED
        BY <1>4, <2>1, <4>1
    <3> QED
      BY <3>1
  <2>3. e * S \in Int
    BY <1>1, <1>2, MulLess
  <2> QED
    BY <1>2, <1>4, <2>1, <2>2, <2>3
<1> QED
  BY <1>1, <1>2, <1>4, <1>5, <1>6, <1>7 DEF LastSlot

(* A new entry for the next data block, when the last one is full.         *)
LEMMA SlotsMore ==
    ASSUME NEW k \in Levels, NEW n \in Nat, NEW a \in [1 .. n -> Refs], Packed(a),
           NEW m \in Nat, m < n * Span(k), Slots(a, k, m), Mult(m, Span(k)),
           NEW b \in Blocks, NEW c \in [1 .. n -> Refs],
           \A s \in 1 .. n : c[s] = IF s = Len(Entries(a)) + 1 THEN b ELSE a[s]
    PROVE  Slots(c, k, m + 1) /\ Len(Entries(a)) < n /\ Len(Entries(a)) \in Nat
           /\ m = Len(Entries(a)) * Span(k)
<1>1. PICK e, S \in Nat : e = Len(Entries(a)) /\ S = Span(k) /\ S >= 1
  <2>1. Len(Entries(a)) \in Nat
    <3>1. Len(Entries(a)) \in 0 .. n
      BY PackedIs
    <3> QED
      BY <3>1
  <2>2. Span(k) \in Nat /\ Span(k) >= 1
    BY LimitsAre
  <2> QED
    BY <2>1, <2>2
<1>2. e \in 0 .. n /\ e < n /\ m = e * S /\ \A s \in 1 .. n : a[s] = NoBlock <=> s > e
  <2>1. LastSlot(a, k, n, m)
    BY LastSlotIs
  <2>2. \A s \in 1 .. n : a[s] = NoBlock <=> s > Len(Entries(a))
    BY PackedIs
  <2> QED
    BY <1>1, <2>1, <2>2 DEF LastSlot
<1>3. b # NoBlock
  BY Layout
<1>4. ASSUME NEW s \in 1 .. n PROVE c[s] # NoBlock <=> (s - 1) * S < m + 1
  <2>1. CASE s <= e
    <3>1. c[s] # NoBlock
      BY <1>1, <1>2, <2>1
    <3>2. (s - 1) * S <= e * S /\ (s - 1) * S \in Int
      BY <1>1, <1>2, <2>1, MulLess
    <3> QED
      BY <1>2, <3>1, <3>2
  <2>2. CASE s = e + 1
    <3>1. (s - 1) * S = m
      BY <1>2, <2>2
    <3> QED
      BY <1>1, <1>3, <2>2, <3>1
  <2>3. CASE s > e + 1
    <3>1. c[s] = NoBlock
      BY <1>1, <1>2, <2>3
    <3>2. e \in Int /\ s - 1 \in Int /\ e < s - 1
      BY <1>2, <2>3
    <3>3. e * S + S <= (s - 1) * S /\ (s - 1) * S \in Int
      BY <1>1, <3>2, MulLess
    <3>4. PICK y \in Int : y = (s - 1) * S /\ m + S <= y
      BY <1>2, <3>3
    <3>5. ~(y < m + 1)
      BY <1>1, <3>4
    <3> QED
      BY <3>1, <3>4, <3>5
  <2> QED
    BY <1>2, <2>1, <2>2, <2>3
<1> QED
  BY <1>1, <1>2, <1>4 DEF Slots

(* No new entry, when the last one has room.                               *)
LEMMA SlotsSame ==
    ASSUME NEW k \in Levels, NEW n \in Nat, NEW a \in [1 .. n -> Refs], Packed(a),
           NEW m \in Nat, m < n * Span(k), Slots(a, k, m), ~Mult(m, Span(k))
    PROVE  /\ Slots(a, k, m + 1) /\ Len(Entries(a)) \in 1 .. n
           /\ m - (Len(Entries(a)) - 1) * Span(k) \in 1 .. Span(k) - 1
           /\ Share(k, m, Len(Entries(a))) = m - (Len(Entries(a)) - 1) * Span(k)
<1>1. PICK e, S \in Nat : e = Len(Entries(a)) /\ S = Span(k) /\ S >= 1
  <2>1. Len(Entries(a)) \in 0 .. n
    BY PackedIs
  <2>2. Span(k) \in Nat /\ Span(k) >= 1
    BY LimitsAre
  <2> QED
    BY <2>1, <2>2
<1>2. /\ e \in 0 .. n /\ e >= 1 /\ m < e * S /\ (e - 1) * S < m
      /\ \A s \in 1 .. n : a[s] = NoBlock <=> s > e
  <2>1. LastSlot(a, k, n, m)
    BY LastSlotIs
  <2>2. \A s \in 1 .. n : a[s] = NoBlock <=> s > Len(Entries(a))
    BY PackedIs
  <2> QED
    BY <1>1, <2>1, <2>2 DEF LastSlot
<1>3. e * S \in Int /\ (e - 1) * S = e * S - S
  BY <1>1, <1>2, MulLess
<1>4. ASSUME NEW s \in 1 .. n PROVE a[s] # NoBlock <=> (s - 1) * S < m + 1
  <2>1. CASE s <= e
    <3>1. (s - 1) * S <= (e - 1) * S /\ (s - 1) * S \in Int
      BY <1>1, <1>2, <2>1, MulLess
    <3> QED
      BY <1>2, <1>3, <2>1, <3>1
  <2>2. CASE s > e
    <3>1. e * S <= (s - 1) * S /\ (s - 1) * S \in Int
      BY <1>1, <1>2, <2>2, MulLess
    <3> QED
      BY <1>2, <1>3, <2>2, <3>1
  <2> QED
    BY <1>2, <2>1, <2>2
<1>5. m - (e - 1) * S \in 1 .. S - 1
  BY <1>2, <1>3
<1>6. Share(k, m, e) = m - (e - 1) * S
  BY <1>1, <1>2, <1>3 DEF Share
<1>7. e \in 1 .. n
  BY <1>2
<1> QED
  BY <1>1, <1>4, <1>5, <1>6, <1>7 DEF Slots

(* The data block that was missing is there.                               *)
Added(w, w2, a, k, m) ==
    LET e == Len(Entries(a)) IN
    /\ w2[a[e]] = m - (e - 1) * Span(k) + 1
    /\ \A s \in DOMAIN a : s # e /\ a[s] # NoBlock => w2[a[s]] = w[a[s]]

LEMMA OpenedFilled ==
    ASSUME NEW k \in Levels, NEW n \in Nat, NEW a \in [1 .. n -> Refs], Packed(a),
           NEW m \in Nat, m < n * Span(k), NEW w, Opened(w, a, k, m),
           Len(Entries(a)) >= 1, NEW w2, Added(w, w2, a, k, m)
    PROVE  Filled(w2, a, k, m + 1)
<1>10. PICK e \in 1 .. n : e = Len(Entries(a))
  BY PackedIs
<1>11. /\ w2[a[e]] = m - (e - 1) * Span(k) + 1
       /\ \A s \in 1 .. n : s # e /\ a[s] # NoBlock => w2[a[s]] = w[a[s]]
  BY <1>10 DEF Added
<1>1. PICK S \in Nat : S = Span(k) /\ S >= 1
  BY LimitsAre
<1>2. \A s \in 1 .. n : a[s] = NoBlock <=> s > e
  BY <1>10, PackedIs
<1>3. \A s \in 1 .. n : a[s] # NoBlock <=> (s - 1) * S < m + 1
  BY <1>1 DEF Opened, Slots
<1>4. e * S \in Int /\ (e - 1) * S = e * S - S /\ (e - 1) * S < m + 1
  <2>1. e * S \in Int /\ (e - 1) * S = e * S - S
    <3>1. e \in Int /\ S \in Nat /\ S >= 1
      BY <1>1
    <3> QED
      BY <3>1, MulLess
  <2>2. ~(e > e)
    OBVIOUS
  <2>3. (e - 1) * S < m + 1
    BY <1>2, <1>3, <2>2
  <2> QED
    BY <2>1, <2>3
<1>5. m < e * S
  <2>1. CASE e = n
    BY <1>1, <2>1
  <2>2. CASE e < n
    <3>1. e + 1 \in 1 .. n /\ e + 1 > e /\ (e + 1) - 1 = e
      BY <2>2
    <3>2. ~(e * S < m + 1)
      BY <1>2, <1>3, <3>1
    <3> QED
      BY <1>4, <3>2
  <2> QED
    BY <2>1, <2>2
<1>6. ASSUME k > 0, NEW s \in 1 .. n, a[s] # NoBlock PROVE w2[a[s]] = Share(k, m + 1, s)
  <2>1. CASE s = e
    <3>1. PICK x \in Int : x = e * S /\ (e - 1) * S = x - S /\ m < x
      BY <1>4, <1>5
    <3>2. w2[a[s]] = m - (x - S) + 1
      BY <1>1, <1>11, <2>1, <3>1
    <3>3. Share(k, m + 1, s) = IF x <= m + 1 THEN S ELSE (m + 1) - (x - S)
      BY <1>1, <2>1, <3>1 DEF Share
    <3> QED
      BY <3>1, <3>2, <3>3
  <2>2. CASE s # e
    <3>1. s <= e - 1
      BY <1>2, <1>6, <2>2
    <3>2. s * S <= (e - 1) * S /\ s * S \in Int
      BY <1>1, <3>1, MulLess
    <3>3. s * S <= m /\ s * S <= m + 1
      BY <1>4, <3>2
    <3>4. w2[a[s]] = w[a[s]] /\ w[a[s]] = Share(k, m, s)
      BY <1>6, <1>11, <2>2 DEF Opened, Weights
    <3> QED
      BY <1>1, <3>3, <3>4 DEF Share
  <2> QED
    BY <2>1, <2>2
<1>7. Weights(w2, a, k, m + 1)
  BY <1>6 DEF Weights
<1> QED
  BY <1>7 DEF Filled, Opened

-----------------------------------------------------------------------------
(* The sizes of what is on disk and of a running allocation, as long as    *)
(* nothing crashed.  w: the data blocks under each indirect block.         *)
First == buf.n_blocks - Limit(top)
Size(w, fs, r, d) == IF d = 1 THEN r ELSE w[fs[d].target]
Room(w, fs, t, r) ==
    \A d \in 1 .. Len(fs) : /\ Size(w, fs, r, d) \in Nat
                            /\ Size(w, fs, r, d) < Width(t, d) * Span(t - (d - 1))
OpenedAt(w, fs, t, r, d) ==
    /\ Opened(w, fs[d].indblock, t - (d - 1), Size(w, fs, r, d))
    /\ w[fs[d + 1].target] =
           Size(w, fs, r, d) - (Len(Entries(fs[d].indblock)) - 1) * Span(t - (d - 1))
OpenedAll(w, fs, t, r) == \A d \in 1 .. Len(fs) - 1 : OpenedAt(w, fs, t, r, d)

(* The arrays of an allocation on its way back are not on disk yet.        *)
Pending(p) == pc = "unwind" /\ \E d \in 2 .. Len(frames) : p = frames[d].target
InodesSized(w) ==
    \A i \in linked, k \in Levels : ~(pc = "unwind" /\ i = self /\ k = top) =>
        Filled(w, ino[i].blocks[k], k, ino[i].n_blocks - Limit(k))
DiskSized(at, w) ==
    \A p \in DOMAIN at : at[p].lvl > 0 /\ ~Pending(p) =>
        Filled(w, content[p], at[p].lvl - 1, w[p])
Running(w) ==
    /\ pc \in {"descend", "unwind"} => Room(w, frames, top, First) /\ OpenedAll(w, frames, top, First)
    /\ pc = "descend" => /\ Filled(w, blocks, level, Size(w, frames, First, Depth))
                         /\ Mult(my_blocks - Size(w, frames, First, Depth), Span(level))
    /\ pc = "unwind" => Filled(w, blocks, level, Size(w, frames, First, Depth) + 1)

Sized(at, w) ==
    /\ w \in [Blocks -> Nat]
    /\ InodesSized(w) /\ DiskSized(at, w) /\ Running(w)
    /\ pc \notin {"give_back", "abort"}
SizeInv == /\ crashes \in Nat
           /\ failures = 0 /\ crashes = 0 =>
                  overruns = {} /\ \E at, w : Placed(at) /\ Sized(at, w)

(* One array more in the stack of an allocation.                           *)
SameUpTo(fs, gs, D) ==
    /\ \A d \in 1 .. D : gs[d].target = fs[d].target
    /\ \A d \in 1 .. D : d # D => gs[d] = fs[d]
Adds(w2, gs, t, D, m, v) ==
    /\ Opened(w2, gs[D].indblock, t - (D - 1), m)
    /\ v = m - (Len(Entries(gs[D].indblock)) - 1) * Span(t - (D - 1))
    /\ v < BPI * Span(t - D) /\ w2[gs[D + 1].target] = v
Agree(at, w, w2) == \A x \in DOMAIN at : w2[x] = w[x]

LEMMA OpenMore ==
    ASSUME NEW t \in Levels, NEW fs, IsStack(fs, t), NEW gs, Len(gs) = Len(fs) + 1,
           NEW D \in 1 .. Len(fs), D = Len(fs), D <= t, SameUpTo(fs, gs, D),
           NEW i, NEW at, StackRight(at, fs, t, i),
           NEW w, NEW w2, Agree(at, w, w2),
           NEW r, Room(w, fs, t, r), OpenedAll(w, fs, t, r),
           NEW v \in Nat, Adds(w2, gs, t, D, Size(w, fs, r, D), v)
    PROVE  Room(w2, gs, t, r) /\ OpenedAll(w2, gs, t, r) /\ Size(w2, gs, r, D + 1) = v
<1>01. PICK m : m = Size(w, fs, r, D)
  OBVIOUS
<1>02. /\ Opened(w2, gs[D].indblock, t - (D - 1), m)
       /\ v = m - (Len(Entries(gs[D].indblock)) - 1) * Span(t - (D - 1))
       /\ v < BPI * Span(t - D) /\ w2[gs[D + 1].target] = v
  BY <1>01 DEF Adds
<1>0. /\ Len(fs) \in Nat /\ D \in Nat /\ t \in Nat
      /\ \A d \in 1 .. D : gs[d].target = fs[d].target
      /\ \A d \in 1 .. D : d # D => gs[d] = fs[d]
      /\ \A x \in DOMAIN at : w2[x] = w[x]
  BY DEF IsStack, Levels, SameUpTo, Agree
<1>1. ASSUME NEW d \in 1 .. D PROVE Size(w2, gs, r, d) = Size(w, fs, r, d)
  <2>1. CASE d = 1
    BY <2>1 DEF Size
  <2>2. CASE d # 1
    <3>1. d \in 2 .. Len(fs)
      BY <2>2
    <3>2. fs[d].target \in DOMAIN at
      BY <3>1, TargetIs DEF IsTarget
    <3> QED
      BY <1>0, <2>2, <3>2 DEF Size
  <2> QED
    BY <2>1, <2>2
<1>2. Size(w2, gs, r, D + 1) = v
  <2>1. D + 1 # 1
    OBVIOUS
  <2> QED
    BY <1>02, <2>1 DEF Size
<1>3. ASSUME NEW d \in 1 .. Len(gs)
      PROVE  /\ Size(w2, gs, r, d) \in Nat
             /\ Size(w2, gs, r, d) < Width(t, d) * Span(t - (d - 1))
  <2>1. CASE d = D + 1
    <3>1. Width(t, d) = BPI /\ t - (d - 1) = t - D
      BY <1>0, <2>1 DEF Width
    <3> QED
      BY <1>02, <1>2, <2>1, <3>1
  <2>2. CASE d # D + 1
    <3>1. d \in 1 .. Len(fs) /\ d \in 1 .. D
      BY <1>0, <2>2
    <3> QED
      BY <1>1, <3>1 DEF Room
  <2> QED
    BY <2>1, <2>2
<1>4. ASSUME NEW d \in 1 .. Len(gs) - 1 PROVE OpenedAt(w2, gs, t, r, d)
  <2>1. CASE d = D
    BY <1>01, <1>02, <1>1, <2>1 DEF OpenedAt
  <2>2. CASE d # D
    <3>1. d \in 1 .. Len(fs) - 1 /\ d \in 1 .. D /\ d + 1 \in 1 .. D /\ d + 1 \in 2 .. Len(fs)
          /\ d \in 1 .. Len(fs)
      BY <1>0, <2>2
    <3>2. OpenedAt(w, fs, t, r, d) /\ gs[d] = fs[d] /\ gs[d + 1].target = fs[d + 1].target
      BY <1>0, <2>2, <3>1 DEF OpenedAll
    <3>3. PICK k, n : k = t - (d - 1) /\ n = Size(w, fs, r, d)
      OBVIOUS
    <3>4. Right(at, fs[d].indblock, i, k, fs[d].target)
      BY <3>1, <3>3 DEF StackRight
    <3>5. Opened(w2, fs[d].indblock, k, n)
      <4>1. Opened(w, fs[d].indblock, k, n)
        BY <3>2, <3>3 DEF OpenedAt
      <4> QED
        BY <1>0, <3>4, <4>1, FilledAgree, SMTT(30)
    <3>6. fs[d + 1].target \in DOMAIN at
      BY <3>1, TargetIs DEF IsTarget
    <3> QED
      BY <1>0, <1>1, <3>1, <3>2, <3>3, <3>5, <3>6 DEF OpenedAt
  <2> QED
    BY <2>1, <2>2
<1> QED
  BY <1>2, <1>3, <1>4 DEF Room, OpenedAll

(* The places in the stack: the level tells the arrays apart.              *)
LEMMA StackApart ==
    ASSUME NEW t \in Levels, NEW fs, IsStack(fs, t), NEW i, NEW at, StackRight(at, fs, t, i),
           NEW d \in 2 .. Len(fs)
    PROVE  /\ at[fs[d].target].lvl = t - (d - 2)
           /\ \A c \in 2 .. Len(fs) : c # d => fs[c].target # fs[d].target
           /\ \A c \in 1 .. Len(fs) : \A s \in DOMAIN fs[c].indblock :
                  c # d - 1 /\ fs[c].indblock[s] # NoBlock => fs[c].indblock[s] # fs[d].target
<1>0. t \in Nat /\ Len(fs) \in Nat
  BY DEF Levels, IsStack
<1>1. \A c \in 2 .. Len(fs) : at[fs[c].target].lvl = t - (c - 2)
  <2> SUFFICES ASSUME NEW c \in 2 .. Len(fs) PROVE at[fs[c].target].lvl = t - (c - 2)
    OBVIOUS
  <2>1. IsTarget(at, fs, t, i, c)
    BY TargetIs
  <2> QED
    BY <2>1 DEF IsTarget, Spot
<1>2. ASSUME NEW c \in 2 .. Len(fs), c # d PROVE fs[c].target # fs[d].target
  <2>1. t - (c - 2) # t - (d - 2)
    BY <1>0, <1>2
  <2> QED
    BY <1>1, <2>1
<1>3. ASSUME NEW c \in 1 .. Len(fs), NEW s \in DOMAIN fs[c].indblock, c # d - 1,
             fs[c].indblock[s] # NoBlock
      PROVE  fs[c].indblock[s] # fs[d].target
  <2>1. Right(at, fs[c].indblock, i, t - (c - 1), fs[c].target)
    BY DEF StackRight
  <2>2. at[fs[c].indblock[s]] = Spot(i, t - (c - 1), fs[c].target, s)
    BY <1>3, <2>1 DEF Right, Names
  <2>3. at[fs[c].indblock[s]].lvl = t - (c - 1)
    BY <2>2 DEF Spot
  <2>4. t - (c - 1) # t - (d - 2)
    BY <1>0, <1>3
  <2> QED
    BY <1>1, <2>3, <2>4
<1> QED
  BY <1>1, <1>2, <1>3

(* The last array is written: its block has a data block more.             *)
Shortened(fs, gs, D) == Len(gs) = D - 1 /\ \A d \in 1 .. D - 1 : gs[d] = fs[d]
OneMore(at, w, w2, b) == w2[b] = w[b] + 1 /\ \A x \in DOMAIN at : x # b => w2[x] = w[x]

LEMMA OpenLess ==
    ASSUME NEW t \in Levels, NEW fs, IsStack(fs, t), NEW gs,
           NEW D \in 2 .. Len(fs), D = Len(fs), Shortened(fs, gs, D),
           NEW i, NEW at, StackRight(at, fs, t, i),
           NEW w, NEW w2, OneMore(at, w, w2, fs[D].target),
           NEW r, Room(w, fs, t, r), OpenedAll(w, fs, t, r)
    PROVE  /\ Room(w2, gs, t, r) /\ OpenedAll(w2, gs, t, r)
           /\ Filled(w2, gs[D - 1].indblock, t - (D - 2), Size(w2, gs, r, D - 1) + 1)
<1>9. /\ Len(gs) = D - 1 /\ \A d \in 1 .. D - 1 : gs[d] = fs[d]
      /\ w2[fs[D].target] = w[fs[D].target] + 1
      /\ \A x \in DOMAIN at : x # fs[D].target => w2[x] = w[x]
  BY DEF Shortened, OneMore
<1> USE <1>9
<1>0. Len(fs) \in Nat /\ D \in Nat /\ t \in Nat /\ D <= t + 1
  BY DEF IsStack, Levels
<1>1. ASSUME NEW d \in 2 .. D - 1
      PROVE  fs[d].target \in DOMAIN at /\ fs[d].target # fs[D].target
             /\ w2[fs[d].target] = w[fs[d].target]
  <2>1. d \in 2 .. Len(fs) /\ d # D
    BY <1>0
  <2>2. fs[d].target \in DOMAIN at
    BY <2>1, TargetIs DEF IsTarget
  <2>3. fs[d].target # fs[D].target
    BY <2>1, StackApart
  <2> QED
    BY <2>2, <2>3
<1>2. ASSUME NEW d \in 1 .. D - 1 PROVE Size(w2, gs, r, d) = Size(w, fs, r, d)
  <2>1. CASE d = 1
    BY <2>1 DEF Size
  <2>2. CASE d # 1
    <3>1. d \in 2 .. D - 1
      BY <2>2
    <3> QED
      BY <1>1, <2>2, <3>1 DEF Size
  <2> QED
    BY <2>1, <2>2
<1>3. Room(w2, gs, t, r)
  <2>1. ASSUME NEW d \in 1 .. Len(gs)
        PROVE  /\ Size(w2, gs, r, d) \in Nat
               /\ Size(w2, gs, r, d) < Width(t, d) * Span(t - (d - 1))
    <3>1. d \in 1 .. Len(fs) /\ d \in 1 .. D - 1
      BY <1>0
    <3> QED
      BY <1>2, <3>1 DEF Room
  <2> QED
    BY <2>1 DEF Room
<1>4. OpenedAll(w2, gs, t, r)
  <2> SUFFICES ASSUME NEW d \in 1 .. Len(gs) - 1 PROVE OpenedAt(w2, gs, t, r, d)
    BY DEF OpenedAll
  <2>1. /\ d \in 1 .. Len(fs) - 1 /\ d \in 1 .. D - 1 /\ d + 1 \in 2 .. D - 1 /\ d \in 1 .. Len(fs)
        /\ d # D - 1
    BY <1>0
  <2>2. OpenedAt(w, fs, t, r, d) /\ gs[d] = fs[d] /\ gs[d + 1] = fs[d + 1]
    BY <2>1 DEF OpenedAll
  <2>3. Right(at, fs[d].indblock, i, t - (d - 1), fs[d].target)
    BY <2>1 DEF StackRight
  <2>4. ASSUME NEW s \in DOMAIN fs[d].indblock, fs[d].indblock[s] # NoBlock
        PROVE  w2[fs[d].indblock[s]] = w[fs[d].indblock[s]]
    <3>1. fs[d].indblock[s] \in DOMAIN at
      BY <2>3, <2>4 DEF Right, Names
    <3>2. fs[d].indblock[s] # fs[D].target
      <4>1. \A c \in 1 .. Len(fs) : \A z \in DOMAIN fs[c].indblock :
                c # D - 1 /\ fs[c].indblock[z] # NoBlock => fs[c].indblock[z] # fs[D].target
        <5>1. D \in 2 .. Len(fs)
          BY <1>0, <2>1
        <5> QED
          BY <5>1, StackApart, SMTT(30)
      <4> QED
        BY <2>1, <2>4, <4>1
    <3> QED
      BY <3>1, <3>2
  <2>5. Opened(w2, fs[d].indblock, t - (d - 1), Size(w, fs, r, d))
    <3>1. PICK k, n : k = t - (d - 1) /\ n = Size(w, fs, r, d)
      OBVIOUS
    <3>2. Opened(w, fs[d].indblock, k, n)
      BY <2>2, <3>1 DEF OpenedAt
    <3>3. Opened(w2, fs[d].indblock, k, n)
      BY <2>4, <3>2 DEF Opened, Weights
    <3> QED
      BY <3>1, <3>3
  <2> QED
    BY <1>1, <1>2, <2>1, <2>2, <2>5 DEF OpenedAt
<1>5. Filled(w2, gs[D - 1].indblock, t - (D - 2), Size(w2, gs, r, D - 1) + 1)
  <2>1. PICK d \in 1 .. Len(fs), k \in Levels : d = D - 1 /\ k = t - (d - 1)
    <3>1. D - 1 \in 1 .. Len(fs) /\ t - ((D - 1) - 1) \in Levels
      BY <1>0 DEF Levels
    <3> QED
      BY <3>1
  <2>2. d \in 1 .. Len(fs) - 1 /\ d \in 1 .. D - 1 /\ gs[d] = fs[d] /\ d + 1 = D /\ k = t - (D - 2)
    BY <1>0, <2>1
  <2>20. PICK n \in Nat : n = Width(t, d)
    BY StackArray
  <2>3. PICK m \in Nat, a \in [1 .. n -> Refs] :
            /\ m = Size(w, fs, r, d) /\ n = Width(t, d) /\ a = fs[d].indblock
            /\ m < n * Span(k)
    <3>1. Size(w, fs, r, d) \in Nat /\ Size(w, fs, r, d) < Width(t, d) * Span(t - (d - 1))
      BY DEF Room
    <3>2. Width(t, d) \in Nat /\ fs[d].indblock \in [1 .. Width(t, d) -> Refs]
      BY StackArray
    <3> QED
      BY <2>1, <2>20, <3>1, <3>2
  <2>4. /\ Opened(w, a, k, m)
        /\ w[fs[D].target] = m - (Len(Entries(a)) - 1) * Span(k)
    BY <2>1, <2>2, <2>3 DEF OpenedAll, OpenedAt
  <2>5. IsTarget(at, fs, t, i, D)
    BY TargetIs
  <2>6. PICK e \in 1 .. n : e = Len(Entries(a)) /\ a[e] = fs[D].target
    BY <2>1, <2>3, <2>5 DEF IsTarget
  <2>7. Right(at, a, i, k, fs[d].target)
    BY <2>1, <2>3 DEF StackRight
  <2>8. ASSUME NEW s \in 1 .. n, s # e, a[s] # NoBlock PROVE w2[a[s]] = w[a[s]]
    <3>1. a[s] \in DOMAIN at /\ at[a[s]] = Spot(i, k, fs[d].target, s)
      BY <2>3, <2>7, <2>8 DEF Right, Names
    <3>2. a[e] # NoBlock
      BY <2>5, <2>6 DEF IsTarget
    <3>3. at[a[e]] = Spot(i, k, fs[d].target, e)
      BY <2>3, <2>7, <3>2 DEF Right, Names
    <3>4. at[a[s]].idx = s /\ at[a[e]].idx = e
      BY <3>1, <3>3 DEF Spot
    <3> QED
      BY <2>6, <2>8, <3>1, <3>4
  <2>9. w2[a[e]] = m - (e - 1) * Span(k) + 1
    BY <2>4, <2>6
  <2>10. Packed(a)
    BY <2>7 DEF Right
  <2>12. /\ m < n * Span(k) /\ Opened(w, a, k, m) /\ e = Len(Entries(a))
         /\ k \in Levels /\ n \in Nat /\ a \in [1 .. n -> Refs] /\ m \in Nat /\ e \in 1 .. n
    BY <2>1, <2>20, <2>3, <2>4, <2>6
  <2>13. \A s \in DOMAIN a : s # e /\ a[s] # NoBlock => w2[a[s]] = w[a[s]]
    BY <2>8, <2>12
  <2>14. Added(w, w2, a, k, m) /\ Len(Entries(a)) >= 1
    BY <2>9, <2>12, <2>13 DEF Added
  <2>11. Filled(w2, a, k, m + 1)
    BY <2>10, <2>12, <2>14, OpenedFilled
  <2> QED
    BY <1>2, <2>1, <2>2, <2>3, <2>11
<1> QED
  BY <1>3, <1>4, <1>5

(* Steps that write nothing.                                               *)
LEMMA DiskKept ==
    ASSUME NEW at, NEW w, InodesSized(w), DiskSized(at, w), pc # "unwind",
           NEW at2, \A x \in DOMAIN at2 : x \in DOMAIN at /\ at2[x] = at[x],
           ino' = ino, linked' \subseteq linked,
           \A p \in DOMAIN at2 : content'[p] = content[p]
    PROVE  InodesSized(w)' /\ DiskSized(at2, w)'
<1>1. InodesSized(w)'
  BY DEF InodesSized
<1>2. ASSUME NEW p \in DOMAIN at2, at2[p].lvl > 0
      PROVE  Filled(w, content'[p], at2[p].lvl - 1, w[p])
  <2>1. at[p].lvl > 0 /\ p \in DOMAIN at /\ ~Pending(p)
    BY <1>2 DEF Pending
  <2> QED
    BY <2>1 DEF DiskSized
<1>3. DiskSized(at2, w)'
  BY <1>2 DEF DiskSized
<1> QED
  BY <1>1, <1>3

Still == {"idle", "undo", "free_inode"}

LEMMA SizedStops ==
    ASSUME NEW at, NEW w \in [Blocks -> Nat], InodesSized(w)', DiskSized(at, w)', pc' \in Still
    PROVE  Sized(at, w)'
  BY DEF Sized, Running, Still

LEMMA SizedQuiet ==
    ASSUME NEW at, NEW w, Sized(at, w), pc # "unwind",
           NEW at2, \A x \in DOMAIN at2 : x \in DOMAIN at /\ at2[x] = at[x],
           ino' = ino, linked' \subseteq linked,
           \A p \in DOMAIN at2 : content'[p] = content[p], pc' \in Still
    PROVE  Sized(at2, w)'
<1>1. InodesSized(w) /\ DiskSized(at, w) /\ w \in [Blocks -> Nat]
  BY DEF Sized
<1>2. InodesSized(w)' /\ DiskSized(at2, w)'
  BY <1>1, DiskKept
<1> QED
  BY <1>1, <1>2, SizedStops

LEMMA SizedPopFails ==
    ASSUME TypeInv, NEW at, NEW w, Placed(at), Sized(at, w), PopFails
    PROVE  Sized(at, w)'
<1>1. pc = "descend" /\ pc' \in Still /\ UNCHANGED <<ino, linked, content>>
  BY DEF PopFails, Still, pool
<1> QED
  BY <1>1, SizedQuiet

LEMMA SizedAllocFails ==
    ASSUME TypeInv, NEW at, NEW w, Placed(at), Sized(at, w), AllocFails
    PROVE  Sized(at, w)'
<1>1. pc = "undo" /\ pc' \in Still /\ UNCHANGED <<ino, linked, content>>
  BY DEF AllocFails, Still, pool
<1> QED
  BY <1>1, SizedQuiet

LEMMA SizedUnlink ==
    ASSUME TypeInv, NEW at, NEW w, Placed(at), Sized(at, w), NEW i \in Inodes, Unlink(i)
    PROVE  Sized(Keeping(at, i), w)'
<1>1. pc = "idle" /\ pc' \in Still /\ UNCHANGED <<ino, content>> /\ linked' \subseteq linked
  BY DEF Unlink, Still, pool, Idle
<1>2. PICK at2 : at2 = Keeping(at, i)
  OBVIOUS
<1>3. \A x \in DOMAIN at2 : x \in DOMAIN at /\ at2[x] = at[x]
  BY <1>2 DEF Keeping
<1>4. Sized(at2, w)'
  BY <1>1, <1>3, SizedQuiet
<1> QED
  BY <1>2, <1>4

LEMMA SizedUndoIndirect ==
    ASSUME TypeInv, NEW at, NEW w, Placed(at), Sized(at, w), UndoIndirect,
           NEW at2, at2 = IF frames[Depth].new THEN Without(at, frames[Depth].target) ELSE at
    PROVE  Sized(at2, w)'
<1>1. pc = "undo" /\ pc' \in Still /\ UNCHANGED <<ino, linked>>
  BY DEF UndoIndirect, Still
<1>2. \A x \in DOMAIN at2 : x \in DOMAIN at /\ at2[x] = at[x]
  BY DEF Without
<1>3. DOMAIN at \subseteq DOMAIN content
  BY DEF Placed, Forest
<1>4. ASSUME NEW p \in DOMAIN at2 PROVE content'[p] = content[p]
  <2>1. CASE frames[Depth].new
    <3>1. Pool!Release(frames[Depth].target) /\ p # frames[Depth].target
      BY <2>1 DEF UndoIndirect, Without
    <3> QED
      BY <1>2, <1>3, <3>1, ReleaseType, TypeParts
  <2>2. CASE ~frames[Depth].new
    BY <2>2 DEF UndoIndirect, pool
  <2> QED
    BY <2>1, <2>2
<1> QED
  BY <1>1, <1>2, <1>4, SizedQuiet

LEMMA SizedAppendNext ==
    ASSUME TypeInv, NEW at, NEW w, Placed(at), Sized(at, w), AppendNext
    PROVE  Sized(at, w)'
<1>1. /\ pc = "free_inode" /\ pc' \in Still /\ UNCHANGED <<ino, linked>>
      /\ todo # <<>> /\ Pool!Release(Head(todo)) /\ todo \in Seq(Blocks)
      /\ Range(todo) \intersect DOMAIN at = {} /\ DOMAIN at \subseteq DOMAIN content
  BY TypeParts DEF AppendNext, Still, Placed, Loose, Forest, Changing
<1>2. Head(todo) \in Range(todo)
  <2>1. Head(todo) = todo[1] /\ 1 \in DOMAIN todo
    BY <1>1
  <2> QED
    BY <2>1 DEF Range
<1>3. \A p \in DOMAIN at : content'[p] = content[p]
  BY <1>1, <1>2, ReleaseType, TypeParts
<1> QED
  BY <1>1, <1>3, SizedQuiet

(* An empty inode.                                                         *)
LEMMA FreshFilled ==
    ASSUME NEW i \in Inodes, NEW r, r.blocks = FreshInode(i).blocks, r.n_blocks = 0,
           NEW w, NEW k \in Levels
    PROVE  Filled(w, r.blocks[k], k, r.n_blocks - Limit(k))
<1>1. PICK n \in Nat, m \in Int : n = Pointers(k) /\ m = 0 - Limit(k) /\ m <= 0
  <2>1. Limit(k) \in Nat
    BY LimitsAre DEF Levels
  <2> QED
    BY <2>1, Layout
<1>2. PICK a : a = r.blocks[k]
  OBVIOUS
<1>3. DOMAIN a = 1 .. n /\ \A s \in 1 .. n : a[s] = NoBlock
  BY <1>1, <1>2, FreshIs DEF IsInode
<1>4. Filled(w, a, k, m)
  BY <1>1, <1>3, FilledEmpty
<1> QED
  BY <1>1, <1>2, <1>4

LEMMA SizedFresh ==
    ASSUME NEW at, NEW w, Sized(at, w), pc # "unwind", pc' = "idle",
           NEW i \in Inodes, ino'[i].blocks = FreshInode(i).blocks, ino'[i].n_blocks = 0,
           \A j \in linked' : j # i => j \in linked /\ ino'[j] = ino[j], content' = content
    PROVE  Sized(at, w)'
<1>1. InodesSized(w) /\ DiskSized(at, w) /\ w \in [Blocks -> Nat]
  BY DEF Sized
<1>2. ASSUME NEW j \in linked', NEW k \in Levels
      PROVE  Filled(w, ino'[j].blocks[k], k, ino'[j].n_blocks - Limit(k))
  <2>1. CASE j = i
    <3>1. PICK r : r = ino'[i]
      OBVIOUS
    <3>2. Filled(w, r.blocks[k], k, r.n_blocks - Limit(k))
      BY <3>1, FreshFilled
    <3> QED
      BY <2>1, <3>1, <3>2
  <2>2. CASE j # i
    BY <1>1, <2>2 DEF InodesSized
  <2> QED
    BY <2>1, <2>2
<1>3. InodesSized(w)'
  BY <1>2 DEF InodesSized
<1>4. ASSUME NEW p \in DOMAIN at, at[p].lvl > 0
      PROVE  Filled(w, content'[p], at[p].lvl - 1, w[p])
  BY <1>1, <1>4 DEF DiskSized, Pending
<1>5. DiskSized(at, w)'
  BY <1>4 DEF DiskSized
<1> QED
  BY <1>1, <1>3, <1>5, SizedStops DEF Still

LEMMA SizedCreate ==
    ASSUME TypeInv, NEW at, NEW w, Placed(at), Sized(at, w), NEW i \in Inodes, Create(i)
    PROVE  Sized(at, w)'
<1>1. /\ pc = "idle" /\ pc' = "idle" /\ content' = content /\ linked' = linked \union {i}
      /\ ino' = [ino EXCEPT ![i] = [FreshInode(i) EXCEPT !.in_use = TRUE]]
  BY DEF Create, pool, Rest, Idle
<1>2. ino'[i].blocks = FreshInode(i).blocks /\ ino'[i].n_blocks = 0
  BY <1>1, FreshIs, TypeParts DEF InodesType, IsInode, InodeRecord
<1>3. \A j \in linked' : j # i => j \in linked /\ ino'[j] = ino[j]
  BY <1>1, TypeParts DEF InodesType
<1> QED
  BY <1>1, <1>2, <1>3, SizedFresh

LEMMA SizedFreeInode ==
    ASSUME TypeInv, NEW at, NEW w, Placed(at), Sized(at, w), FreeInode
    PROVE  Sized(at, w)'
<1>1. /\ pc = "free_inode" /\ pc' = "idle" /\ content' = content /\ linked' = linked
      /\ ino' = [ino EXCEPT ![self] = FreshInode(self)] /\ self \in Inodes
  BY TypeParts DEF FreeInode, pool, Rest, Changing, self, IsInode, InodeRecord
<1>2. PICK i \in Inodes : i = self
  BY <1>1
<1>3. ino'[i] = FreshInode(i) /\ \A j \in Inodes : j # i => ino'[j] = ino[j]
  BY <1>1, <1>2, TypeParts DEF InodesType
<1>4. ino'[i].blocks = FreshInode(i).blocks /\ ino'[i].n_blocks = 0
  BY <1>3, FreshIs
<1>5. \A j \in linked' : j # i => j \in linked /\ ino'[j] = ino[j]
  BY <1>1, <1>3, TypeParts
<1> QED
  BY <1>1, <1>4, <1>5, SizedFresh

(* What a running allocation has to show for its next step.                *)
LEMMA RunningNext ==
    ASSUME NEW w \in [Blocks -> Nat], NEW at, InodesSized(w)', DiskSized(at, w)',
           pc' \in {"descend", "unwind"},
           NEW gs, gs = frames', NEW t, t = top', NEW r, r = First', NEW D, D = Len(gs),
           Room(w, gs, t, r), OpenedAll(w, gs, t, r), NEW m, m = Size(w, gs, r, D),
           pc' = "descend" => Filled(w, gs[D].indblock, t - (D - 1), m)
                              /\ Mult(my_blocks' - m, Span(t - (D - 1))),
           pc' = "unwind" => Filled(w, gs[D].indblock, t - (D - 1), m + 1)
    PROVE  Sized(at, w)'
<1>1. /\ Depth' = D /\ level' = t - (D - 1) /\ blocks' = gs[D].indblock
      /\ Size(w, frames, First, Depth)' = m
  BY DEF Depth, level, blocks, Size
<1>2. Running(w)'
  BY <1>1 DEF Running
<1> QED
  BY <1>2 DEF Sized

(* What is on disk, of an inode that an allocation runs in.                *)
LEMMA BeginSized ==
    ASSUME TypeInv, NEW w, InodesSized(w), pc # "unwind",
           NEW i \in linked, ino[i].n_blocks < Limit(4),
           NEW k \in Levels, k = LevelOf(ino[i].n_blocks)
    PROVE  LET m == ino[i].n_blocks - Limit(k) IN
           m \in Nat /\ m < Pointers(k) * Span(k) /\ Filled(w, ino[i].blocks[k], k, m)
<1>1. ino[i].n_blocks \in Nat /\ i \in Inodes
  BY LimitsAre, TypeParts DEF InodesType, IsInode, InodeRecord
<1>2. PICK n \in Nat : n = ino[i].n_blocks
  BY <1>1
<1>3. Limit(k) <= n /\ n < Limit(k + 1) /\ n - Limit(k) \in Nat
  BY <1>2, LevelIs
<1>4. Limit(k) \in Nat /\ Limit(k + 1) = Limit(k) + Pointers(k) * Span(k) /\ Pointers(k) * Span(k) \in Nat
  BY LimitsAre DEF Levels
<1>5. n - Limit(k) < Pointers(k) * Span(k)
  BY <1>3, <1>4
<1>6. Filled(w, ino[i].blocks[k], k, ino[i].n_blocks - Limit(k))
  BY DEF InodesSized
<1> QED
  BY <1>2, <1>3, <1>5, <1>6

LEMMA SizedAllocStart ==
    ASSUME TypeInv, TypeInv', NEW at, NEW w, Placed(at), Sized(at, w),
           NEW i \in Inodes, AllocStart(i)
    PROVE  Sized(at, w)'
<1>1. /\ pc = "idle" /\ UNCHANGED <<ino, linked, content>> /\ i \in linked /\ buf' = ino[i]
  BY DEF AllocStart, pool, Idle
<1>2. InodesSized(w) /\ DiskSized(at, w) /\ w \in [Blocks -> Nat]
  BY DEF Sized
<1>3. InodesSized(w)' /\ DiskSized(at, w)'
  BY <1>1, <1>2, DiskKept
<1>4. CASE ino[i].n_blocks < Limit(4)
  <2>1. /\ top' = LevelOf(ino[i].n_blocks) /\ pc' = "descend"
        /\ my_blocks' = ino[i].n_blocks - Limit(top')
        /\ frames' = <<[target |-> NoBlock, new |-> FALSE, indblock |-> ino[i].blocks[top']]>>
    BY <1>4 DEF AllocStart
  <2>20. PICK t \in Levels : t = top'
    BY DEF TypeInv
  <2>21. PICK gs : gs = frames'
    OBVIOUS
  <2>2. t = top' /\ gs = frames'
    BY <2>20, <2>21
  <2>3. PICK m : m = ino[i].n_blocks - Limit(t)
    OBVIOUS
  <2>4. m \in Nat /\ m < Pointers(t) * Span(t) /\ Filled(w, ino[i].blocks[t], t, m)
    BY <1>1, <1>2, <1>4, <2>1, <2>2, <2>3, BeginSized
  <2>5. Len(gs) = 1 /\ gs[1].indblock = ino[i].blocks[t] /\ First' = m /\ my_blocks' = m
    <3>1. Len(gs) = 1 /\ gs[1].indblock = ino[i].blocks[t]
      BY <2>1, <2>2
    <3> QED
      BY <1>1, <2>1, <2>2, <2>3, <3>1 DEF First
  <2>6. t - (1 - 1) = t /\ t \in Nat
    BY DEF Levels
  <2>7. Size(w, gs, m, 1) = m
    BY DEF Size
  <2>8. Room(w, gs, t, m)
    <3> SUFFICES ASSUME NEW d \in 1 .. Len(gs)
                 PROVE  /\ Size(w, gs, m, d) \in Nat
                        /\ Size(w, gs, m, d) < Width(t, d) * Span(t - (d - 1))
      BY DEF Room
    <3>1. d = 1
      BY <2>5
    <3> QED
      BY <2>4, <2>6, <2>7, <3>1 DEF Width
  <2>9. OpenedAll(w, gs, t, m)
    <3>1. 1 .. Len(gs) - 1 = {}
      BY <2>5
    <3> QED
      BY <3>1 DEF OpenedAll
  <2>10. Mult(my_blocks' - m, Span(t))
    <3>1. my_blocks' - m = 0 * Span(t) /\ 0 \in Int
      BY <2>4, <2>5, LimitsAre
    <3> QED
      BY <3>1 DEF Mult
  <2>11. PICK D : D = 1
    OBVIOUS
  <2>12. /\ D = Len(gs) /\ m = Size(w, gs, m, D)
         /\ Filled(w, gs[D].indblock, t - (D - 1), m)
         /\ Mult(my_blocks' - m, Span(t - (D - 1)))
    BY <2>4, <2>5, <2>6, <2>7, <2>10, <2>11
  <2>13. pc' \in {"descend", "unwind"} /\ pc' # "unwind" /\ m = First'
    BY <2>1, <2>5
  <2> QED
    BY <1>2, <1>3, <2>2, <2>8, <2>9, <2>12, <2>13, RunningNext
<1>5. CASE ~(ino[i].n_blocks < Limit(4))
  <2>1. pc' = "idle"
    BY <1>1, <1>5 DEF AllocStart
  <2> QED
    BY <1>2, <1>3, <2>1, SizedStops DEF Still
<1> QED
  BY <1>4, <1>5

(* The number of levels below.                                             *)
LEMMA SpanBelow ==
    ASSUME NEW k \in Levels, k > 0
    PROVE  k - 1 \in Levels /\ Span(k) = BPI * Span(k - 1)
<1>1. BPI \in Nat
  BY Layout
<1>2. k = 1 \/ k = 2 \/ k = 3
  BY DEF Levels
<1>3. /\ Span(0) = 1 /\ Span(1) = BPI /\ Span(2) = BPI * BPI /\ Span(3) = BPI * BPI * BPI
  BY DEF Span
<1>4. BPI * BPI * BPI = BPI * (BPI * BPI)
  BY <1>1
<1>5. BPI = BPI * 1
  BY <1>1
<1>6. CASE k = 1
  BY <1>3, <1>5, <1>6 DEF Levels
<1>7. CASE k = 2
  BY <1>3, <1>7 DEF Levels
<1>8. CASE k = 3
  BY <1>3, <1>4, <1>8 DEF Levels
<1> QED
  BY <1>2, <1>6, <1>7, <1>8

(* The running allocation and the sizes in its last array.                 *)
LEMMA DescendIs ==
    ASSUME TypeInv, NEW at, NEW w, Placed(at), Sized(at, w), pc = "descend",
           NEW fs, fs = frames, NEW t, t = top, NEW D, D = Depth, NEW r, r = First
    PROVE  /\ t \in Levels /\ IsStack(fs, t) /\ StackRight(at, fs, t, self)
           /\ D \in 1 .. Len(fs) /\ D = Len(fs) /\ D \in Nat /\ D <= t + 1
           /\ level = t - (D - 1) /\ level \in Levels /\ blocks = fs[D].indblock
           /\ Room(w, fs, t, r) /\ OpenedAll(w, fs, t, r)
           /\ Size(w, fs, r, D) \in Nat /\ Size(w, fs, r, D) < Width(t, D) * Span(level)
           /\ Filled(w, blocks, level, Size(w, fs, r, D)) /\ Packed(blocks)
           /\ Width(t, D) \in Nat /\ blocks \in [1 .. Width(t, D) -> Refs]
           /\ Mult(my_blocks - Size(w, fs, r, D), Span(level)) /\ my_blocks \in Nat
<1>1. pc \in Working
  BY DEF Working
<1>2. /\ t \in Levels /\ IsStack(fs, t) /\ StackRight(at, fs, t, self)
      /\ D \in 1 .. Len(fs) /\ D = Len(fs) /\ D \in Nat
      /\ level = t - (D - 1) /\ level \in Levels /\ blocks = fs[D].indblock
      /\ blocks \in [1 .. Width(t, D) -> Refs]
      /\ Right(at, blocks, self, level, frames[Depth].target)
  BY <1>1, WorkingIs DEF Placed
<1>3. D <= t + 1 /\ Width(t, D) \in Nat /\ my_blocks \in Nat
  <2>1. pc \in Allocating
    BY DEF Allocating
  <2> QED
    BY <2>1, <1>2, StackIs
<1>4. /\ Room(w, fs, t, r) /\ OpenedAll(w, fs, t, r)
      /\ Filled(w, blocks, level, Size(w, fs, r, D))
      /\ Mult(my_blocks - Size(w, fs, r, D), Span(level))
  BY DEF Sized, Running
<1>5. Size(w, fs, r, D) \in Nat /\ Size(w, fs, r, D) < Width(t, D) * Span(level)
  BY <1>2, <1>4 DEF Room
<1> QED
  BY <1>2, <1>3, <1>4, <1>5 DEF Right

(* What the code asks of my_blocks is whether the last entry is full.      *)
LEMMA FullIs ==
    ASSUME NEW x \in Nat, NEW m \in Nat, NEW s \in Nat, s >= 1, Mult(x - m, s)
    PROVE  x % s = 0 <=> Mult(m, s)
<1>1. x % s = 0 <=> Mult(x, s)
  BY ModZero
<1>2. x - (x - m) = m /\ (x - m) + m = x /\ x - m \in Int
  OBVIOUS
<1>3. Mult(x, s) => Mult(m, s)
  <2>1. ASSUME Mult(x, s) PROVE Mult(x - (x - m), s)
    BY <1>2, <2>1, MultSum
  <2> QED
    BY <1>2, <2>1
<1>4. Mult(m, s) => Mult(x, s)
  <2>1. ASSUME Mult(m, s) PROVE Mult((x - m) + m, s)
    BY <1>2, <2>1, MultSum
  <2> QED
    BY <1>2, <2>1
<1> QED
  BY <1>1, <1>3, <1>4

(* A block is popped: nothing is under it yet.                             *)
NoneUnder(w, w2, b) == w2 = [w EXCEPT ![b] = 0]
LEMMA SizedGrown ==
    ASSUME TypeInv, NEW at, NEW w, Placed(at), Sized(at, w), pc = "descend",
           NEW b, PoppedFor(at, b), NEW spot \in Spots, NEW w2, NoneUnder(w, w2, b)
    PROVE  /\ w2 \in [Blocks -> Nat] /\ w2[b] = 0 /\ Agree(at, w, w2)
           /\ InodesSized(w2)' /\ DiskSized(Grown(at, b, spot), w2)'
<1>1. /\ InodesSized(w) /\ DiskSized(at, w) /\ w \in [Blocks -> Nat] /\ Forest(at)
      /\ b \in Blocks /\ b \notin DOMAIN at /\ ino' = ino /\ linked' = linked
      /\ content'[b] = EmptyArray /\ \A p \in DOMAIN at : content'[p] = content[p]
  BY DEF Sized, Placed, PoppedFor
<1>2. DOMAIN at \subseteq Blocks
  BY <1>1, TypeParts DEF Forest, PoolType
<1>3. w2 \in [Blocks -> Nat] /\ w2[b] = 0 /\ \A x \in DOMAIN at : w2[x] = w[x]
  BY <1>1, <1>2 DEF NoneUnder
<1>4. ASSUME NEW i \in linked, NEW k \in Levels
      PROVE  Filled(w2, ino[i].blocks[k], k, ino[i].n_blocks - Limit(k))
  <2>1. PICK a, m : a = ino[i].blocks[k] /\ m = ino[i].n_blocks - Limit(k)
    OBVIOUS
  <2>2. Filled(w, a, k, m)
    BY <1>1, <2>1 DEF InodesSized
  <2>3. Right(at, a, i, k, NoBlock)
    BY <1>1, <2>1 DEF Forest
  <2>4. Filled(w2, a, k, m)
    BY <1>3, <2>2, <2>3, FilledAgree
  <2> QED
    BY <2>1, <2>4
<1>5. InodesSized(w2)'
  BY <1>1, <1>4 DEF InodesSized
<1>6. PICK at2 : at2 = Grown(at, b, spot)
  OBVIOUS
<1>7. /\ DOMAIN at2 = DOMAIN at \union {b} /\ at2[b] = spot
      /\ \A x \in DOMAIN at : at2[x] = at[x] /\ x # b
  BY <1>1, <1>6 DEF Grown
<1>8. ASSUME NEW p \in DOMAIN at2, at2[p].lvl > 0
      PROVE  Filled(w2, content'[p], at2[p].lvl - 1, w2[p])
  <2>1. CASE p = b
    <3>1. PICK k \in Levels : k = at2[p].lvl - 1
      <4>1. at2[p].lvl \in Levels
        BY <1>7, <2>1 DEF Spots
      <4>2. at2[p].lvl - 1 \in Levels
        BY <1>8, <4>1 DEF Levels
      <4> QED
        BY <4>2
    <3>2. BPI \in Nat /\ DOMAIN EmptyArray = 1 .. BPI /\ \A s \in 1 .. BPI : EmptyArray[s] = NoBlock
      BY Layout DEF EmptyArray
    <3>3. PICK a : a = EmptyArray
      OBVIOUS
    <3>4. Filled(w2, a, k, 0)
      BY <3>2, <3>3, FilledEmpty
    <3> QED
      BY <1>1, <1>3, <2>1, <3>1, <3>3, <3>4
  <2>2. CASE p # b
    <3>1. p \in DOMAIN at /\ at2[p] = at[p] /\ content'[p] = content[p] /\ ~Pending(p)
      BY <1>1, <1>7, <2>2 DEF Pending
    <3>2. PICK a, k, m : a = content[p] /\ k = at[p].lvl - 1 /\ m = w[p]
      OBVIOUS
    <3>3. Filled(w, a, k, m)
      BY <1>1, <1>8, <3>1, <3>2 DEF DiskSized
    <3>4. Right(at, a, at[p].own, k, p)
      BY <1>1, <1>8, <3>1, <3>2 DEF Forest
    <3>5. Filled(w2, a, k, m)
      BY <1>3, <3>3, <3>4, FilledAgree
    <3> QED
      BY <1>3, <3>1, <3>2, <3>5
  <2> QED
    BY <2>1, <2>2
<1> QED
  BY <1>3, <1>5, <1>6, <1>8 DEF DiskSized, Agree

LEMMA NextSpotIs ==
    ASSUME TypeInv, NEW at, Placed(at), pc = "descend"
    PROVE  NextSpot \in Spots
<1>1. pc \in Working
  BY DEF Working
<1>2. PICK i \in Inodes, k \in Levels, p \in Refs, n \in Nat :
          i = self /\ k = level /\ p = frames[Depth].target /\ n = first_unused
  BY <1>1, WorkingIs DEF Placed
<1>3. Spot(i, k, p, n + 1) \in Spots
  BY DEF Spot, Spots
<1> QED
  BY <1>2, <1>3 DEF NextSpot

(* The array the block is stored in.                                       *)
StoresIn(gs, b) ==
    LET a == blocks
        c == gs[Depth].indblock
    IN  /\ gs \in Seq(Frame) /\ Len(gs) = Depth
        /\ \A d \in 1 .. Depth : gs[d].target = frames[d].target
        /\ \A d \in 1 .. Depth : d # Depth => gs[d] = frames[d]
        /\ c \in [1 .. Width(top, Depth) -> Refs]
        /\ \A s \in 1 .. Width(top, Depth) :
               c[s] = IF s = Len(Entries(a)) + 1 THEN b ELSE a[s]

LEMMA StoreIs ==
    ASSUME TypeInv, NEW at, Placed(at), pc = "descend", NEW b \in Blocks
    PROVE  StoresIn(Stored(b), b)
<1>1. pc \in Working
  BY DEF Working
<1>2. /\ top \in Levels /\ IsStack(frames, top)
      /\ Depth \in 1 .. Len(frames) /\ Depth = Len(frames) /\ Depth \in Nat
      /\ blocks = frames[Depth].indblock /\ first_unused = Len(Entries(blocks))
      /\ first_unused \in Nat
  BY <1>1, WorkingIs DEF Placed
<1>10. PICK D \in 1 .. Len(frames), n \in Nat, c \in Refs :
          D = Depth /\ n = first_unused + 1 /\ c = b
  BY <1>2 DEF Refs
<1>11. PICK gs : gs = Put(frames, D, n, c)
  OBVIOUS
<1>3. D = Depth /\ n = first_unused + 1 /\ c = b /\ gs = Put(frames, D, n, c)
  BY <1>10, <1>11
<1>4. IsPut(frames, gs, top, D, n, c)
  BY <1>2, <1>3, PutIs
<1>5. gs = Stored(b)
  BY <1>3 DEF Put, Stored
<1>6. gs[D].indblock \in [1 .. Width(top, D) -> Refs] /\ gs \in Seq(Frame)
  BY <1>4, StackArray, <1>2 DEF IsPut
<1> QED
  BY <1>2, <1>3, <1>4, <1>5, <1>6 DEF IsPut, StoresIn

(* There is a slot for a new entry when the last one is full.              *)
LEMMA HasSlot ==
    ASSUME TypeInv, NEW at, NEW w, Placed(at), Sized(at, w), pc = "descend",
           NEW m, m = Size(w, frames, First, Depth), Mult(m, Span(level))
    PROVE  first_unused < Len(blocks) /\ m = first_unused * Span(level) /\ first_unused \in Nat
<1>1. pc \in Working
  BY DEF Working
<1>2. first_unused = Len(Entries(blocks)) /\ Len(blocks) = Width(top, Depth) /\ first_unused \in Nat
  BY <1>1, WorkingIs DEF Placed
<1>3. PICK fs, t, D, r : fs = frames /\ t = top /\ D = Depth /\ r = First
  OBVIOUS
<1>4. /\ level \in Levels /\ m \in Nat /\ m < Width(t, D) * Span(level)
      /\ Filled(w, blocks, level, m) /\ Packed(blocks)
      /\ Width(t, D) \in Nat /\ blocks \in [1 .. Width(t, D) -> Refs]
  BY <1>3, DescendIs
<1>5. PICK a, k, n : a = blocks /\ k = level /\ n = Width(t, D)
  OBVIOUS
<1>6. Slots(a, k, m) /\ a \in [1 .. n -> Refs] /\ Packed(a)
  BY <1>4, <1>5 DEF Filled
<1>7. LastSlot(a, k, n, m)
  BY <1>4, <1>5, <1>6, LastSlotIs
<1> QED
  BY <1>2, <1>3, <1>5, <1>7 DEF LastSlot

(* The entry of the last array is there before what it names.              *)
Entered(c, a, n, b) ==
    /\ c \in [1 .. n -> Refs]
    /\ \A s \in 1 .. n : c[s] = IF s = Len(Entries(a)) + 1 THEN b ELSE a[s]

LEMMA OpenStore ==
    ASSUME NEW k \in Levels, NEW n \in Nat, NEW a \in [1 .. n -> Refs], Packed(a),
           NEW m \in Nat, m < n * Span(k), NEW w, Filled(w, a, k, m), Mult(m, Span(k)),
           NEW b \in Blocks, NEW c, Entered(c, a, n, b),
           NEW at, NEW i, NEW j, NEW q, Right(at, a, i, j, q),
           NEW w2, w2[b] = 0, Agree(at, w, w2)
    PROVE  Opened(w2, c, k, m) /\ Len(Entries(c)) - 1 = Len(Entries(a))
<1>1. PICK e \in Nat, S \in Nat : e = Len(Entries(a)) /\ S = Span(k) /\ S >= 1
  BY PackedIs, LimitsAre
<1>2. /\ c \in [1 .. n -> Refs]
      /\ \A s \in 1 .. n : c[s] = IF s = Len(Entries(a)) + 1 THEN b ELSE a[s]
  BY DEF Entered
<1>3. Slots(a, k, m) /\ Weights(w, a, k, m)
  BY DEF Filled
<1>4. Slots(c, k, m + 1) /\ e < n /\ m = e * S
  BY <1>1, <1>2, <1>3, SlotsMore
<1>5. Len(Entries(c)) = e + 1
  BY <1>1, <1>2, <1>4, EntryMore
<1>6. \A s \in 1 .. n : c[s] = IF s = e + 1 THEN b ELSE a[s]
  BY <1>1, <1>2
<1>11. ASSUME k > 0, NEW s \in 1 .. n, c[s] # NoBlock PROVE w2[c[s]] = Share(k, m, s)
  <2>1. CASE s = e + 1
    <3>1. PICK x \in Int : x = e * S
      <4>1. e * S \in Int
        OBVIOUS
      <4> QED
        BY <4>1
    <3>2. (e + 1) * S = x + S
      <4>1. e \in Int
        OBVIOUS
      <4> QED
        BY <1>1, <3>1, <4>1, MulLess
    <3>3. (s - 1) * S = x /\ s * S = x + S
      BY <2>1, <3>1, <3>2
    <3>4. Share(k, m, s) = IF x + S <= m THEN S ELSE m - x
      BY <1>1, <3>3 DEF Share
    <3>6. m = x
      BY <1>4, <3>1
    <3>5. Share(k, m, s) = 0
      BY <1>1, <3>4, <3>6
    <3> QED
      BY <1>6, <2>1, <3>5
  <2>2. CASE s # e + 1
    <3>1. c[s] = a[s] /\ a[s] # NoBlock
      BY <1>6, <1>11, <2>2
    <3>2. a[s] \in DOMAIN at
      BY <3>1 DEF Right, Names
    <3>3. w[a[s]] = Share(k, m, s)
      BY <1>3, <1>11, <3>1 DEF Weights
    <3> QED
      BY <3>1, <3>2, <3>3 DEF Agree
  <2> QED
    BY <2>1, <2>2
<1>12. Weights(w2, c, k, m)
  BY <1>2, <1>11 DEF Weights
<1> QED
  BY <1>1, <1>4, <1>5, <1>12 DEF Opened

LEMMA SizedStore ==
    ASSUME TypeInv, NEW at, NEW w, Placed(at), Sized(at, w), pc = "descend",
           NEW m, m = Size(w, frames, First, Depth), Mult(m, Span(level)),
           NEW b \in Blocks, NEW w2, w2[b] = 0, Agree(at, w, w2),
           NEW gs, StoresIn(gs, b)
    PROVE  /\ Opened(w2, gs[Depth].indblock, level, m)
           /\ Len(Entries(gs[Depth].indblock)) - 1 = first_unused
<1>1. pc \in Working
  BY DEF Working
<1>2. first_unused = Len(Entries(blocks)) /\ Right(at, blocks, self, level, frames[Depth].target)
  BY <1>1, WorkingIs DEF Placed
<1>3. PICK fs, t, D, r : fs = frames /\ t = top /\ D = Depth /\ r = First
  OBVIOUS
<1>4. /\ level \in Levels /\ m \in Nat /\ m < Width(t, D) * Span(level)
      /\ Filled(w, blocks, level, m) /\ Packed(blocks)
      /\ Width(t, D) \in Nat /\ blocks \in [1 .. Width(t, D) -> Refs]
  BY <1>3, DescendIs
<1>5. PICK a, k, n, c : a = blocks /\ k = level /\ n = Width(t, D) /\ c = gs[D].indblock
  OBVIOUS
<1>6. Entered(c, a, n, b)
  BY <1>3, <1>5 DEF StoresIn, Entered
<1>7. Opened(w2, c, k, m) /\ Len(Entries(c)) - 1 = Len(Entries(a))
  BY <1>2, <1>4, <1>5, <1>6, OpenStore
<1> QED
  BY <1>2, <1>3, <1>5, <1>7

LEMMA RoomNewIndirect ==
    ASSUME TypeInv, NEW at, NEW w, Placed(at), Sized(at, w), NewIndirect
    PROVE  /\ first_unused < Len(blocks) /\ first_unused \in Nat
           /\ Mult(Size(w, frames, First, Depth), Span(level))
           /\ Size(w, frames, First, Depth) = first_unused * Span(level)
<1>1. pc = "descend" /\ my_blocks % Span(level) = 0
  BY DEF NewIndirect
<1>2. PICK fs, t, D, r, m :
          fs = frames /\ t = top /\ D = Depth /\ r = First /\ m = Size(w, frames, First, Depth)
  OBVIOUS
<1>3. /\ level \in Levels /\ m \in Nat
      /\ Mult(my_blocks - m, Span(level)) /\ my_blocks \in Nat
  BY <1>1, <1>2, DescendIs
<1>4. PICK k \in Levels, S \in Nat : k = level /\ S = Span(level) /\ S >= 1
  BY <1>3, LimitsAre
<1>5. Mult(m, Span(level))
  <2>1. my_blocks % S = 0 <=> Mult(m, S)
    BY <1>3, <1>4, FullIs
  <2> QED
    BY <1>1, <1>4, <2>1
<1>6. first_unused < Len(blocks) /\ m = first_unused * Span(level) /\ first_unused \in Nat
  BY <1>1, <1>2, <1>5, HasSlot
<1> QED
  BY <1>2, <1>5, <1>6

LEMMA SizedNewIndirect ==
    ASSUME TypeInv, TypeInv', NEW at, NEW w, Placed(at), Sized(at, w), NewIndirect,
           NEW t2, \E b : /\ t2 = Grown(at, b, NextSpot) /\ PoppedFor(at, b)
                          /\ frames' = Append(Stored(b), NewFrame(b))
    PROVE  \E w2 : Sized(t2, w2)'
<1>1. /\ pc = "descend" /\ level > 0 /\ my_blocks % Span(level) = 0 /\ my_blocks' = 0
      /\ UNCHANGED <<ino, linked, buf, top>>
  BY DEF NewIndirect
<1>2. PICK fs, t, D, r, m :
          fs = frames /\ t = top /\ D = Depth /\ r = First /\ m = Size(w, frames, First, Depth)
  OBVIOUS
<1>3. /\ t \in Levels /\ IsStack(fs, t) /\ StackRight(at, fs, t, self)
      /\ D \in 1 .. Len(fs) /\ D = Len(fs) /\ D \in Nat
      /\ level = t - (D - 1) /\ level \in Levels
      /\ Room(w, fs, t, r) /\ OpenedAll(w, fs, t, r) /\ m \in Nat
      /\ Mult(my_blocks - m, Span(level)) /\ my_blocks \in Nat
  BY <1>1, <1>2, DescendIs
<1>4. PICK k \in Levels, S \in Nat : k = level /\ S = Span(level) /\ S >= 1
  BY <1>3, LimitsAre
<1>5. Mult(m, Span(level))
  BY <1>2, RoomNewIndirect
<1>6. first_unused < Len(blocks) /\ m = first_unused * Span(level) /\ first_unused \in Nat
  BY <1>2, RoomNewIndirect
<1>7. PICK b : /\ t2 = Grown(at, b, NextSpot) /\ PoppedFor(at, b)
               /\ frames' = Append(Stored(b), NewFrame(b))
  OBVIOUS
<1>8. PICK w2, gs, hs, spot :
          NoneUnder(w, w2, b) /\ gs = Stored(b) /\ hs = frames' /\ spot = NextSpot
  BY DEF NoneUnder
<1>9. /\ w2 \in [Blocks -> Nat] /\ w2[b] = 0 /\ Agree(at, w, w2)
      /\ InodesSized(w2)' /\ DiskSized(t2, w2)'
  <2>1. spot \in Spots
    BY <1>1, <1>8, NextSpotIs
  <2>2. /\ w2 \in [Blocks -> Nat] /\ w2[b] = 0 /\ Agree(at, w, w2)
        /\ InodesSized(w2)' /\ DiskSized(Grown(at, b, spot), w2)'
    BY <1>1, <1>7, <1>8, <2>1, SizedGrown
  <2>3. t2 = Grown(at, b, spot)
    BY <1>7, <1>8
  <2> QED
    BY <2>2, <2>3
<1>10. /\ gs \in Seq(Frame) /\ Len(gs) = D
       /\ \A d \in 1 .. D : gs[d].target = fs[d].target
       /\ \A d \in 1 .. D : d # D => gs[d] = fs[d]
  <2>1. b \in Blocks
    BY <1>7 DEF PoppedFor
  <2>2. StoresIn(gs, b)
    BY <1>1, <1>8, <2>1, StoreIs
  <2> QED
    BY <1>2, <2>2 DEF StoresIn
<1>11. /\ Len(hs) = D + 1 /\ hs[D + 1].target = b /\ hs[D + 1].indblock = EmptyArray
       /\ \A d \in 1 .. D : hs[d] = gs[d]
  BY <1>3, <1>7, <1>8, <1>10
<1>12. Opened(w2, hs[D].indblock, t - (D - 1), m) /\ Len(Entries(hs[D].indblock)) - 1 = first_unused
  <2>1. b \in Blocks
    BY <1>7 DEF PoppedFor
  <2>2. StoresIn(gs, b)
    BY <1>1, <1>8, <2>1, StoreIs
  <2>3. /\ Opened(w2, gs[Depth].indblock, level, m)
        /\ Len(Entries(gs[Depth].indblock)) - 1 = first_unused
    BY <1>1, <1>2, <1>5, <1>9, <2>1, <2>2, SizedStore
  <2> QED
    BY <1>2, <1>3, <1>11, <2>3
<1>13. D <= t /\ Len(hs) = Len(fs) + 1 /\ t - D \in Levels /\ t - ((D + 1) - 1) = t - D
  BY <1>1, <1>3, <1>11 DEF Levels
<1>14. PICK v \in Nat : v = 0
  OBVIOUS
<1>15. v = m - (Len(Entries(hs[D].indblock)) - 1) * Span(t - (D - 1))
  <2>1. (Len(Entries(hs[D].indblock)) - 1) * Span(t - (D - 1)) = first_unused * Span(level)
    BY <1>3, <1>12
  <2>2. m = (Len(Entries(hs[D].indblock)) - 1) * Span(t - (D - 1))
    BY <1>6, <2>1
  <2> QED
    BY <1>3, <1>14, <2>2
<1>16. v < BPI * Span(t - D) /\ w2[hs[D + 1].target] = v
  <2>1. level - 1 = t - D
    BY <1>3 DEF Levels
  <2>2. Span(level) = BPI * Span(t - D)
    BY <1>1, <1>3, <2>1, SpanBelow
  <2> QED
    BY <1>4, <1>9, <1>11, <1>14, <2>2
<1>17. SameUpTo(fs, hs, D)
  BY <1>10, <1>11 DEF SameUpTo
<1>18. Room(w2, hs, t, r) /\ OpenedAll(w2, hs, t, r) /\ Size(w2, hs, r, D + 1) = v
  <2>1. PICK i : i = self
    OBVIOUS
  <2>2. /\ StackRight(at, fs, t, i) /\ Agree(at, w, w2) /\ m = Size(w, fs, r, D)
        /\ D \in 1 .. Len(fs) /\ D = Len(fs) /\ D <= t /\ Len(hs) = Len(fs) + 1
    BY <1>2, <1>3, <1>9, <1>13, <2>1
  <2>3. Adds(w2, hs, t, D, Size(w, fs, r, D), v)
    BY <1>12, <1>15, <1>16, <2>2 DEF Adds
  <2>4. t \in Levels /\ IsStack(fs, t) /\ Room(w, fs, t, r) /\ OpenedAll(w, fs, t, r)
    BY <1>3
  <2> QED
    BY <1>17, <2>2, <2>3, <2>4, OpenMore
<1>19. Filled(w2, hs[D + 1].indblock, t - D, v)
  <2>10. PICK j \in Levels, n \in Nat : j = t - D /\ n = BPI
    BY <1>13, Layout
  <2>11. PICK a : a = EmptyArray
    OBVIOUS
  <2>1. a = EmptyArray /\ j = t - D /\ n = BPI
    BY <2>10, <2>11
  <2>2. DOMAIN a = 1 .. n /\ \A s \in 1 .. n : a[s] = NoBlock
    BY <2>1 DEF EmptyArray
  <2>3. Filled(w2, a, j, v)
    BY <1>14, <2>2, FilledEmpty
  <2> QED
    BY <1>11, <2>1, <2>3
<1>20. Mult(my_blocks' - v, Span(t - D))
  <2>1. my_blocks' - v = 0 * Span(t - D) /\ 0 \in Int
    BY <1>1, <1>13, <1>14, LimitsAre
  <2> QED
    BY <2>1 DEF Mult
<1>21. PICK E : E = D + 1
  OBVIOUS
<1>22. /\ E = Len(hs) /\ v = Size(w2, hs, r, E) /\ t - (E - 1) = t - D /\ t = top' /\ r = First'
       /\ pc' \in {"descend", "unwind"} /\ pc' # "unwind"
  <2>1. pc' = "descend"
    BY <1>1 DEF NewIndirect
  <2> QED
    BY <1>1, <1>2, <1>11, <1>13, <1>18, <1>21, <2>1 DEF First
<1>24. /\ Filled(w2, hs[E].indblock, t - (E - 1), v)
       /\ Mult(my_blocks' - v, Span(t - (E - 1)))
  BY <1>19, <1>20, <1>21, <1>22
<1>23. Sized(t2, w2)'
  BY <1>8, <1>9, <1>18, <1>22, <1>24, RunningNext
<1> QED
  BY <1>23

(* As many arrays, and the last one has changed.                           *)
LEMMA OpenSame ==
    ASSUME NEW t \in Levels, NEW fs, IsStack(fs, t), NEW gs, Len(gs) = Len(fs),
           NEW D \in 1 .. Len(fs), D = Len(fs), SameUpTo(fs, gs, D),
           NEW i, NEW at, StackRight(at, fs, t, i),
           NEW w, NEW w2, Agree(at, w, w2),
           NEW r, Room(w, fs, t, r), OpenedAll(w, fs, t, r)
    PROVE  Room(w2, gs, t, r) /\ OpenedAll(w2, gs, t, r) /\ Size(w2, gs, r, D) = Size(w, fs, r, D)
<1>0. /\ Len(fs) \in Nat /\ D \in Nat /\ t \in Nat
      /\ \A d \in 1 .. D : gs[d].target = fs[d].target
      /\ \A d \in 1 .. D : d # D => gs[d] = fs[d]
      /\ \A x \in DOMAIN at : w2[x] = w[x]
  BY DEF IsStack, Levels, SameUpTo, Agree
<1>1. ASSUME NEW d \in 1 .. D PROVE Size(w2, gs, r, d) = Size(w, fs, r, d)
  <2>1. CASE d = 1
    BY <2>1 DEF Size
  <2>2. CASE d # 1
    <3>1. d \in 2 .. Len(fs)
      BY <2>2
    <3>2. fs[d].target \in DOMAIN at
      BY <3>1, TargetIs DEF IsTarget
    <3> QED
      BY <1>0, <2>2, <3>2 DEF Size
  <2> QED
    BY <2>1, <2>2
<1>2. Room(w2, gs, t, r)
  BY <1>1 DEF Room
<1>3. ASSUME NEW d \in 1 .. Len(gs) - 1 PROVE OpenedAt(w2, gs, t, r, d)
  <2>1. /\ d \in 1 .. Len(fs) - 1 /\ d \in 1 .. D /\ d + 1 \in 1 .. D /\ d + 1 \in 2 .. Len(fs)
        /\ d \in 1 .. Len(fs) /\ d # D
    BY <1>0
  <2>2. OpenedAt(w, fs, t, r, d) /\ gs[d] = fs[d] /\ gs[d + 1].target = fs[d + 1].target
    BY <1>0, <2>1 DEF OpenedAll
  <2>3. PICK k, n : k = t - (d - 1) /\ n = Size(w, fs, r, d)
    OBVIOUS
  <2>4. Right(at, fs[d].indblock, i, k, fs[d].target)
    BY <2>1, <2>3 DEF StackRight
  <2>5. Opened(w2, fs[d].indblock, k, n)
    <3>1. Opened(w, fs[d].indblock, k, n)
      BY <2>2, <2>3 DEF OpenedAt
    <3> QED
      BY <1>0, <2>4, <3>1, FilledAgree
  <2>6. fs[d + 1].target \in DOMAIN at
    BY <2>1, TargetIs DEF IsTarget
  <2> QED
    BY <1>0, <1>1, <2>1, <2>2, <2>3, <2>5, <2>6 DEF OpenedAt
<1> QED
  BY <1>1, <1>2, <1>3 DEF OpenedAll

LEMMA SizedNewDirect ==
    ASSUME TypeInv, TypeInv', NEW at, NEW w, Placed(at), Sized(at, w), NewDirect,
           NEW t2, first_unused < Len(blocks) =>
                       \E b : /\ t2 = Grown(at, b, NextSpot) /\ PoppedFor(at, b)
                              /\ frames' = Stored(b) /\ cand' = b
    PROVE  \E w2 : Sized(t2, w2)'
<1>1. /\ pc = "descend" /\ level = 0 /\ UNCHANGED <<ino, linked, buf, top>>
  BY DEF NewDirect
<1>2. PICK fs, t, D, r, m :
          fs = frames /\ t = top /\ D = Depth /\ r = First /\ m = Size(w, frames, First, Depth)
  OBVIOUS
<1>3. /\ t \in Levels /\ IsStack(fs, t) /\ StackRight(at, fs, t, self)
      /\ D \in 1 .. Len(fs) /\ D = Len(fs) /\ D \in Nat
      /\ level = t - (D - 1) /\ level \in Levels
      /\ Room(w, fs, t, r) /\ OpenedAll(w, fs, t, r) /\ m \in Nat
  BY <1>1, <1>2, DescendIs
<1>5. Mult(m, Span(level))
  <2>1. Span(level) = 1 /\ m = m * 1 /\ m \in Int
    BY <1>1, <1>3 DEF Span
  <2> QED
    BY <2>1 DEF Mult
<1>6. first_unused < Len(blocks)
  BY <1>1, <1>2, <1>5, HasSlot
<1>7. PICK b : t2 = Grown(at, b, NextSpot) /\ PoppedFor(at, b) /\ frames' = Stored(b)
  BY <1>6
<1>8. PICK w2, gs, spot : NoneUnder(w, w2, b) /\ gs = frames' /\ spot = NextSpot
  BY DEF NoneUnder
<1>9. /\ w2 \in [Blocks -> Nat] /\ w2[b] = 0 /\ Agree(at, w, w2)
      /\ InodesSized(w2)' /\ DiskSized(t2, w2)'
  <2>1. spot \in Spots
    BY <1>1, <1>8, NextSpotIs
  <2>2. /\ w2 \in [Blocks -> Nat] /\ w2[b] = 0 /\ Agree(at, w, w2)
        /\ InodesSized(w2)' /\ DiskSized(Grown(at, b, spot), w2)'
    BY <1>1, <1>7, <1>8, <2>1, SizedGrown
  <2>3. t2 = Grown(at, b, spot)
    BY <1>7, <1>8
  <2> QED
    BY <2>2, <2>3
<1>10. b \in Blocks /\ StoresIn(gs, b)
  <2>1. b \in Blocks
    BY <1>7 DEF PoppedFor
  <2>2. StoresIn(Stored(b), b)
    BY <1>1, <2>1, StoreIs
  <2> QED
    BY <1>7, <1>8, <2>1, <2>2
<1>11. Len(gs) = D /\ SameUpTo(fs, gs, D)
  BY <1>2, <1>10 DEF StoresIn, SameUpTo
<1>12. Room(w2, gs, t, r) /\ OpenedAll(w2, gs, t, r) /\ Size(w2, gs, r, D) = m
  <2>1. PICK i : i = self
    OBVIOUS
  <2>2. StackRight(at, fs, t, i) /\ Size(w, fs, r, D) = m /\ Len(gs) = Len(fs)
    BY <1>2, <1>3, <1>11, <2>1
  <2> QED
    BY <1>3, <1>9, <1>11, <2>2, OpenSame
<1>13. Opened(w2, gs[D].indblock, level, m)
  BY <1>1, <1>2, <1>5, <1>9, <1>10, SizedStore
<1>14. Filled(w2, gs[D].indblock, t - (D - 1), m + 1)
  <2>1. Weights(w2, gs[D].indblock, 0, m + 1)
    BY DEF Weights
  <2>2. Slots(gs[D].indblock, 0, m + 1)
    BY <1>1, <1>13 DEF Opened
  <2> QED
    BY <1>1, <1>3, <2>1, <2>2 DEF Filled
<1>15. pc' = "unwind" /\ r = First' /\ t = top' /\ D = Len(gs) /\ m = Size(w2, gs, r, D)
  BY <1>1, <1>2, <1>6, <1>11, <1>12 DEF NewDirect, First
<1>16. pc' \in {"descend", "unwind"} /\ pc' # "descend"
  BY <1>15
<1>17. Sized(t2, w2)'
  BY <1>8, <1>9, <1>12, <1>14, <1>15, <1>16, RunningNext
<1> QED
  BY <1>17

(* What the code computes of my_blocks, in the array below.                *)
LEMMA RemainderBelow ==
    ASSUME NEW x \in Nat, NEW m \in Nat, NEW e \in Nat, e >= 1, NEW T \in Nat, T >= 1,
           NEW B \in Nat, NEW S \in Nat, S = B * T, Mult(x - m, S),
           NEW v \in Nat, v = m - (e - 1) * S
    PROVE  (x % (e * T)) \in Nat /\ Mult((x % (e * T)) - v, T)
<1>1. PICK u \in Nat : u = e * T /\ u >= 1
  <2>1. PICK c \in Nat : e = c + 1
    <3>1. e - 1 \in Nat /\ e = (e - 1) + 1
      OBVIOUS
    <3> QED
      BY <3>1
  <2>2. e * T = c * T + T /\ c * T \in Nat
    BY <2>1, MulLess, MulNat
  <2> QED
    BY <2>2
<1>2. x % u \in Nat /\ Mult(x - (x % u), u)
  BY <1>1, ModMult
<1>3. PICK y \in Nat : y = x % u
  BY <1>2
<1>4. Mult(x - y, T)
  <2>1. x - y \in Int /\ Mult(x - y, u)
    BY <1>2, <1>3
  <2> QED
    BY <1>1, <2>1, MultOf
<1>5. Mult(x - m, T)
  <2>1. x - m \in Int
    OBVIOUS
  <2> QED
    BY <2>1, MultOf
<1>6. Mult(m - v, T)
  <2>1. PICK z \in Int : z = (e - 1) * S
    BY MulAdd
  <2>2. m - v = z /\ e - 1 \in Int
    BY <2>1
  <2>3. Mult(z, S)
    BY <2>1, <2>2 DEF Mult
  <2>4. Mult(z, T)
    BY <2>3, MultOf
  <2> QED
    BY <2>2, <2>4
<1>7. Mult(x - v, T)
  <2>1. (x - m) + (m - v) = x - v /\ x - m \in Int /\ m - v \in Int
    OBVIOUS
  <2>2. Mult((x - m) + (m - v), T)
    BY <1>5, <1>6, <2>1, MultSum
  <2> QED
    BY <2>1, <2>2
<1>8. Mult(y - v, T)
  <2>1. (x - v) - (x - y) = y - v /\ x - v \in Int /\ x - y \in Int
    OBVIOUS
  <2>2. Mult((x - v) - (x - y), T)
    BY <1>4, <1>7, <2>1, MultSum
  <2> QED
    BY <2>1, <2>2
<1> QED
  BY <1>1, <1>3, <1>8

LEMMA SizedOldIndirect ==
    ASSUME TypeInv, TypeInv', NEW at, NEW w, Placed(at), Sized(at, w), OldIndirect
    PROVE  Sized(at, w)'
<1>1. /\ pc = "descend" /\ level > 0 /\ my_blocks % Span(level) # 0
      /\ UNCHANGED <<content, ino, linked, buf, top>>
  BY DEF OldIndirect, pool
<1>2. PICK fs, t, D, r, m :
          fs = frames /\ t = top /\ D = Depth /\ r = First /\ m = Size(w, frames, First, Depth)
  OBVIOUS
<1>3. /\ t \in Levels /\ IsStack(fs, t) /\ StackRight(at, fs, t, self)
      /\ D \in 1 .. Len(fs) /\ D = Len(fs) /\ D \in Nat
      /\ level = t - (D - 1) /\ level \in Levels
      /\ Room(w, fs, t, r) /\ OpenedAll(w, fs, t, r) /\ m \in Nat
      /\ Mult(my_blocks - m, Span(level)) /\ my_blocks \in Nat
      /\ blocks = fs[D].indblock /\ m < Width(t, D) * Span(level)
      /\ Filled(w, blocks, level, m) /\ Packed(blocks)
      /\ Width(t, D) \in Nat /\ blocks \in [1 .. Width(t, D) -> Refs]
  BY <1>1, <1>2, DescendIs
<1>4. PICK k \in Levels, S \in Nat, n \in Nat :
          k = level /\ S = Span(level) /\ S >= 1 /\ n = Width(t, D)
  BY <1>3, LimitsAre
<1>5. ~Mult(m, Span(level))
  <2>1. my_blocks % S = 0 <=> Mult(m, S)
    BY <1>3, <1>4, FullIs
  <2> QED
    BY <1>1, <1>4, <2>1
<1>6. PICK a : a = blocks
  OBVIOUS
<1>7. /\ Slots(a, k, m) /\ Weights(w, a, k, m) /\ a \in [1 .. n -> Refs] /\ Packed(a)
      /\ m < n * Span(k) /\ ~Mult(m, Span(k)) /\ m \in Nat /\ k > 0
  BY <1>1, <1>3, <1>4, <1>5, <1>6 DEF Filled
<1>8. /\ Slots(a, k, m + 1) /\ Len(Entries(a)) \in 1 .. n
      /\ m - (Len(Entries(a)) - 1) * Span(k) \in 1 .. Span(k) - 1
      /\ Share(k, m, Len(Entries(a))) = m - (Len(Entries(a)) - 1) * Span(k)
  BY <1>7, SlotsSame
<1>9. PICK e \in 1 .. n : e = Len(Entries(a)) /\ e = first_unused
  <2>1. pc \in Working
    BY <1>1 DEF Working
  <2>2. first_unused = Len(Entries(blocks))
    BY <2>1, WorkingIs DEF Placed
  <2> QED
    BY <1>6, <1>8, <2>2
<1>10. PICK v \in Nat : v = m - (e - 1) * S /\ v \in 1 .. S - 1 /\ v = Share(k, m, e)
  BY <1>4, <1>8, <1>9
<1>11. first_unused # 0
  BY <1>9
<1>12. /\ pc' = "descend"
       /\ frames' = Append(frames, [target |-> blocks[first_unused], new |-> FALSE,
                                    indblock |-> ReadArray(blocks[first_unused])])
       /\ my_blocks' = IF level = 1 THEN 0 ELSE my_blocks % (first_unused * Span(level - 1))
  BY <1>1, <1>11 DEF OldIndirect
<1>13. PICK b, hs : b = a[e] /\ hs = frames'
  OBVIOUS
<1>14. b # NoBlock /\ b \in DOMAIN at /\ at[b].lvl = k /\ b \in DOMAIN content
  <2>1. pc \in Working
    BY <1>1 DEF Working
  <2>2. Right(at, blocks, self, level, frames[Depth].target) /\ Forest(at)
    BY <2>1, WorkingIs DEF Placed
  <2>3. a[e] # NoBlock
    <3>1. \A s \in 1 .. n : a[s] = NoBlock <=> s > Len(Entries(a))
      BY <1>7, PackedIs
    <3> QED
      BY <1>9, <3>1
  <2>4. b \in DOMAIN at /\ at[b] = Spot(self, level, frames[Depth].target, e)
    BY <1>6, <1>7, <1>13, <2>2, <2>3 DEF Right, Names
  <2> QED
    BY <1>4, <1>13, <2>2, <2>3, <2>4 DEF Spot, Forest
<1>15. /\ Len(hs) = D + 1 /\ hs[D + 1].target = b /\ hs[D + 1].indblock = content[b]
       /\ \A d \in 1 .. D : hs[d] = fs[d]
  <2>1. ReadArray(b) = content[b]
    BY <1>14 DEF ReadArray
  <2>2. fs \in Seq(Frame)
    BY <1>3 DEF IsStack
  <2>3. hs = Append(fs, [target |-> b, new |-> FALSE, indblock |-> ReadArray(b)])
    BY <1>2, <1>6, <1>9, <1>12, <1>13
  <2> QED
    BY <1>3, <2>1, <2>2, <2>3
<1>16. w[b] = v
  BY <1>7, <1>9, <1>10, <1>13, <1>14 DEF Weights
<1>17. /\ t - (D - 1) = k /\ t - D = k - 1 /\ k - 1 \in Levels /\ D <= t /\ Len(hs) = Len(fs) + 1
       /\ t - ((D + 1) - 1) = k - 1
  <2>1. /\ t - (D - 1) = k /\ k >= 1 /\ t \in Int /\ D \in Int /\ k \in 0 .. 3
        /\ Len(hs) = Len(fs) + 1
    BY <1>3, <1>4, <1>7, <1>15 DEF Levels
  <2>2. t - D = k - 1 /\ k - 1 \in 0 .. 3 /\ D <= t /\ t - ((D + 1) - 1) = k - 1
    BY <2>1
  <2> QED
    BY <2>1, <2>2 DEF Levels
<1>18. Span(k) = BPI * Span(k - 1)
  BY <1>7, SpanBelow
<1>19. Adds(w, hs, t, D, Size(w, fs, r, D), v)
  <2>1. hs[D].indblock = a /\ Size(w, fs, r, D) = m
    BY <1>2, <1>3, <1>6, <1>15
  <2>2. Opened(w, a, k, m)
    BY <1>7, <1>8 DEF Opened
  <2>3. v < BPI * Span(t - D)
    BY <1>4, <1>10, <1>17, <1>18
  <2> QED
    BY <1>4, <1>9, <1>10, <1>15, <1>16, <1>17, <2>1, <2>2, <2>3 DEF Adds
<1>20. Room(w, hs, t, r) /\ OpenedAll(w, hs, t, r) /\ Size(w, hs, r, D + 1) = v
  <2>1. PICK i : i = self
    OBVIOUS
  <2>2. StackRight(at, fs, t, i) /\ SameUpTo(fs, hs, D) /\ Agree(at, w, w)
    BY <1>3, <1>15, <2>1 DEF SameUpTo, Agree
  <2> QED
    BY <1>3, <1>17, <1>19, <2>2, OpenMore
<1>21. InodesSized(w) /\ DiskSized(at, w) /\ w \in [Blocks -> Nat]
  BY DEF Sized
<1>22. Filled(w, hs[D + 1].indblock, k - 1, v)
  <2>1. at[b].lvl > 0 /\ at[b].lvl - 1 = k - 1 /\ ~Pending(b)
    BY <1>1, <1>7, <1>14 DEF Pending
  <2> QED
    BY <1>14, <1>15, <1>16, <1>21, <2>1 DEF DiskSized
<1>23. Mult(my_blocks' - v, Span(k - 1))
  <2>1. CASE k = 1
    <3>1. Span(k - 1) = 1 /\ my_blocks' = 0
      BY <1>4, <1>12, <2>1 DEF Span
    <3>2. my_blocks' - v = (my_blocks' - v) * 1 /\ my_blocks' - v \in Int
      BY <3>1
    <3> QED
      BY <3>1, <3>2 DEF Mult
  <2>2. CASE k # 1
    <3>1. PICK T \in Nat : T = Span(k - 1) /\ T >= 1
      BY <1>17, LimitsAre
    <3>2. PICK B \in Nat : B = BPI
      BY Layout
    <3>3. S = B * T /\ Mult(my_blocks - m, S) /\ e \in Nat /\ e >= 1 /\ v = m - (e - 1) * S
      BY <1>3, <1>4, <1>10, <1>18, <3>1, <3>2
    <3>4. PICK x \in Nat : x = my_blocks
      BY <1>3
    <3>5. Mult((x % (e * T)) - v, T)
      BY <1>7, <3>1, <3>3, <3>4, RemainderBelow
    <3>6. my_blocks' = x % (e * T)
      BY <1>4, <1>9, <1>12, <2>2, <3>1, <3>4
    <3> QED
      BY <3>1, <3>5, <3>6
  <2> QED
    BY <2>1, <2>2
<1>24. PICK E : E = D + 1
  OBVIOUS
<1>25. /\ E = Len(hs) /\ v = Size(w, hs, r, E) /\ t - (E - 1) = k - 1 /\ t = top' /\ r = First'
       /\ pc' \in {"descend", "unwind"} /\ pc' # "unwind"
  BY <1>1, <1>2, <1>12, <1>15, <1>17, <1>20, <1>24 DEF First
<1>26. Filled(w, hs[E].indblock, t - (E - 1), v) /\ Mult(my_blocks' - v, Span(t - (E - 1)))
  BY <1>22, <1>23, <1>24, <1>25
<1>27. InodesSized(w)' /\ DiskSized(at, w)'
  <2>1. pc # "unwind" /\ linked' \subseteq linked /\ \A p \in DOMAIN at : content'[p] = content[p]
    BY <1>1
  <2> QED
    BY <1>1, <1>21, <2>1, DiskKept
<1> QED
  BY <1>13, <1>20, <1>21, <1>25, <1>26, <1>27, RunningNext

(* An indirect block is written: what it names is all there.               *)
LEMMA SizedWriteIndirect ==
    ASSUME TypeInv, TypeInv', NEW at, NEW w, Placed(at), Sized(at, w), WriteIndirect
    PROVE  \E w2 : Sized(at, w2)'
<1>1. /\ pc = "unwind" /\ pc' = "unwind" /\ Depth > 1 /\ pc \in Working
      /\ Pool!Write(frames[Depth].target, blocks) /\ frames' = Front(frames)
      /\ UNCHANGED <<ino, linked, buf, top>>
      /\ Forest(at) /\ Stacked(at)
  BY DEF WriteIndirect, Placed, Working
<1>2. PICK fs, t, D, r, i : fs = frames /\ t = top /\ D = Depth /\ r = First /\ i = self
  OBVIOUS
<1>3. /\ i \in linked /\ t \in Levels /\ IsStack(fs, t) /\ StackRight(at, fs, t, i)
      /\ D = Len(fs) /\ D \in Nat /\ D \in 2 .. Len(fs)
      /\ level = t - (D - 1) /\ level \in Levels
      /\ Right(at, blocks, i, level, fs[D].target) /\ blocks = fs[D].indblock
      /\ blocks \in [1 .. Width(t, D) -> Refs]
  BY <1>1, <1>2, WorkingIs
<1>4. /\ Room(w, fs, t, r) /\ OpenedAll(w, fs, t, r)
      /\ Filled(w, blocks, level, Size(w, fs, r, D) + 1)
      /\ InodesSized(w) /\ DiskSized(at, w) /\ w \in [Blocks -> Nat]
  BY <1>1, <1>2 DEF Sized, Running
<1>5. PICK b, w2, gs : b = fs[D].target /\ w2 = [w EXCEPT ![b] = @ + 1] /\ gs = frames'
  OBVIOUS
<1>6. b \in DOMAIN at /\ at[b].lvl = t - (D - 2) /\ at[b].lvl - 1 = level /\ at[b].lvl > 0
      /\ at[b].up = fs[D - 1].target /\ at[b].own = i
  <2>1. IsTarget(at, fs, t, i, D)
    BY <1>3, TargetIs
  <2>2. b \in DOMAIN at /\ at[b] = Spot(i, t - (D - 2), fs[D - 1].target,
                                        Len(Entries(fs[D - 1].indblock)))
    BY <1>5, <2>1 DEF IsTarget
  <2>3. t - (D - 2) - 1 = level /\ t - (D - 2) > 0
    BY <1>3 DEF Levels
  <2> QED
    BY <2>2, <2>3 DEF Spot
<1>7. DOMAIN at \subseteq Blocks /\ DOMAIN at \subseteq DOMAIN content
  BY <1>1, TypeParts DEF Forest, PoolType
<1>8. /\ w2 \in [Blocks -> Nat] /\ w2[b] = w[b] + 1
      /\ \A x \in DOMAIN at : x # b => w2[x] = w[x]
  BY <1>4, <1>5, <1>6, <1>7
<1>9. /\ content'[b] = blocks
      /\ \A c \in DOMAIN content : c # b => content'[c] = content[c]
  <2>1. blocks \in Array
    BY <1>3 DEF Width, Array
  <2> QED
    BY <1>1, <1>2, <1>5, <2>1, WriteType, TypeParts
<1>10. /\ Len(gs) = D - 1 /\ \A d \in 1 .. D - 1 : gs[d] = fs[d]
  <2>1. fs \in Seq(Frame) /\ gs = Front(fs)
    BY <1>1, <1>2, <1>3, <1>5 DEF IsStack
  <2> QED
    BY <1>3, <2>1 DEF Front
<1>11. /\ Room(w2, gs, t, r) /\ OpenedAll(w2, gs, t, r)
       /\ Filled(w2, gs[D - 1].indblock, t - (D - 2), Size(w2, gs, r, D - 1) + 1)
  <2>1. OneMore(at, w, w2, fs[D].target) /\ Shortened(fs, gs, D)
    BY <1>5, <1>8, <1>10 DEF OneMore, Shortened
  <2> QED
    BY <1>3, <1>4, <2>1, OpenLess
<1>12. Size(w, fs, r, D) = w[b]
  BY <1>3, <1>5 DEF Size
(* Arrays that do not name b keep their sizes.                             *)
<1>13. ASSUME NEW a, NEW j, NEW k, NEW p, NEW n, Right(at, a, j, k, p), Filled(w, a, k, n),
              ~(j = i /\ k = t - (D - 2) /\ p = fs[D - 1].target)
       PROVE  Filled(w2, a, k, n)
  <2>1. ASSUME NEW s \in DOMAIN a, a[s] # NoBlock PROVE w2[a[s]] = w[a[s]]
    <3>1. a[s] \in DOMAIN at /\ at[a[s]] = Spot(j, k, p, s)
      BY <1>13, <2>1 DEF Right, Names
    <3>2. at[a[s]].own = j /\ at[a[s]].lvl = k /\ at[a[s]].up = p
      BY <3>1 DEF Spot
    <3>3. a[s] # b
      BY <1>6, <1>13, <3>2
    <3> QED
      BY <1>8, <3>1, <3>3
  <2>2. Weights(w2, a, k, n)
    BY <1>13, <2>1 DEF Filled, Weights
  <2> QED
    BY <1>13, <2>2 DEF Filled
<1>14. PICK q, c : q = fs[D - 1].target /\ c = t - (D - 2)
  OBVIOUS
<1>15. /\ D = 2 => q = NoBlock /\ c = t
       /\ D # 2 => q # NoBlock
  <2>1. CASE D = 2
    BY <1>3, <1>14, <2>1 DEF StackRight, Levels
  <2>2. CASE D # 2
    <3>1. PICK d \in 2 .. Len(fs) : d = D - 1
      <4>1. D - 1 \in 2 .. Len(fs)
        BY <1>3, <2>2
      <4> QED
        BY <4>1
    <3>2. IsTarget(at, fs, t, i, d)
      BY <1>3, TargetIs
    <3> QED
      BY <1>14, <2>2, <3>1, <3>2 DEF IsTarget
  <2> QED
    BY <2>1, <2>2
<1>16. ASSUME NEW j \in linked, NEW k \in Levels, ~(j = i /\ k = t)
       PROVE  Filled(w2, ino[j].blocks[k], k, ino[j].n_blocks - Limit(k))
  <2>1. PICK a, n : a = ino[j].blocks[k] /\ n = ino[j].n_blocks - Limit(k)
    OBVIOUS
  <2>2. Right(at, a, j, k, NoBlock)
    BY <1>1, <2>1 DEF Forest
  <2>3. Filled(w, a, k, n)
    BY <1>2, <1>4, <1>16, <2>1 DEF InodesSized
  <2>4. ~(j = i /\ k = t - (D - 2) /\ NoBlock = fs[D - 1].target)
    BY <1>14, <1>15, <1>16
  <2>5. Filled(w2, a, k, n)
    BY <1>13, <2>2, <2>3, <2>4
  <2> QED
    BY <2>1, <2>5
<1>17. InodesSized(w2)'
  <2>1. self' = i /\ top' = t
    BY <1>1, <1>2 DEF self
  <2>2. \A j \in linked', k \in Levels : ~(pc' = "unwind" /\ j = i /\ k = t) =>
            Filled(w2, ino'[j].blocks[k], k, ino'[j].n_blocks - Limit(k))
    BY <1>1, <1>16
  <2> QED
    BY <2>1, <2>2 DEF InodesSized
<1>18. ASSUME NEW p \in DOMAIN at, at[p].lvl > 0, ~Pending(p)'
       PROVE  Filled(w2, content'[p], at[p].lvl - 1, w2[p])
  <2>1. CASE p = b
    <3>1. level # t - (D - 2)
      BY <1>3, <1>6 DEF Levels
    <3>2. PICK k, n : k = level /\ n = Size(w, fs, r, D) + 1
      OBVIOUS
    <3>3. Filled(w2, blocks, k, n)
      BY <1>3, <1>4, <1>13, <3>1, <3>2
    <3> QED
      BY <1>6, <1>8, <1>9, <1>12, <2>1, <3>2, <3>3
  <2>2. CASE p # b
    <3>1. \A d \in 2 .. Len(gs) : p # gs[d].target
      BY <1>1, <1>5, <1>18 DEF Pending
    <3>2. ~Pending(p)
      <4> SUFFICES ASSUME NEW d \in 2 .. Len(fs), p = fs[d].target PROVE FALSE
        BY <1>2 DEF Pending
      <4>1. d # D
        BY <1>5, <2>2
      <4>2. d \in 2 .. Len(gs) /\ d \in 1 .. D - 1
        BY <1>3, <1>10, <4>1
      <4> QED
        BY <1>10, <3>1, <4>2
    <3>3. PICK a, k, n, j : a = content[p] /\ k = at[p].lvl - 1 /\ n = w[p] /\ j = at[p].own
      OBVIOUS
    <3>4. Filled(w, a, k, n)
      BY <1>4, <1>18, <3>2, <3>3 DEF DiskSized
    <3>5. Right(at, a, j, k, p)
      BY <1>1, <1>18, <3>3 DEF Forest
    <3>6. p # fs[D - 1].target
      <4>1. p # NoBlock
        BY <1>7, Layout
      <4>2. CASE D = 2
        BY <1>14, <1>15, <4>1, <4>2
      <4>3. CASE D # 2
        <5>1. D - 1 \in 2 .. Len(gs) /\ D - 1 \in 1 .. D - 1
          BY <1>3, <1>10, <4>3
        <5> QED
          BY <1>10, <3>1, <5>1
      <4> QED
        BY <4>2, <4>3
    <3>7. Filled(w2, a, k, n)
      BY <1>13, <3>4, <3>5, <3>6
    <3>8. content'[p] = a /\ w2[p] = n
      BY <1>7, <1>8, <1>9, <2>2, <3>3
    <3> QED
      BY <3>3, <3>7, <3>8
  <2> QED
    BY <2>1, <2>2
<1>19. DiskSized(at, w2)'
  BY <1>18 DEF DiskSized
<1>20. PICK E : E = D - 1
  OBVIOUS
<1>21. /\ E = Len(gs) /\ t = top' /\ r = First' /\ t - (E - 1) = t - (D - 2)
       /\ pc' \in {"descend", "unwind"} /\ pc' # "descend"
  BY <1>1, <1>2, <1>3, <1>10, <1>20 DEF First, Levels
<1>22. PICK m : m = Size(w2, gs, r, E)
  OBVIOUS
<1>23. Filled(w2, gs[E].indblock, t - (E - 1), m + 1)
  BY <1>11, <1>20, <1>21, <1>22
<1>24. Sized(at, w2)'
  BY <1>5, <1>8, <1>11, <1>17, <1>19, <1>21, <1>22, <1>23, RunningNext
<1> QED
  BY <1>24

(* The levels below that of the new block are full, those above empty.     *)
LEMMA LimitMore ==
    ASSUME NEW k \in Levels, NEW t \in Levels, k < t
    PROVE  Limit(k + 1) <= Limit(t)
<1>1. /\ \A j \in 0 .. 4 : Limit(j) \in Nat
      /\ \A j \in Levels : Limit(j) <= Limit(j + 1)
  <2> SUFFICES ASSUME NEW j \in Levels PROVE Limit(j) <= Limit(j + 1)
    BY LimitsAre
  <2>1. Limit(j) \in Nat /\ Limit(j + 1) = Limit(j) + Pointers(j) * Span(j)
        /\ Pointers(j) * Span(j) \in Nat
    BY LimitsAre DEF Levels
  <2> QED
    BY <2>1
<1>2. Limit(1) <= Limit(2) /\ Limit(2) <= Limit(3)
  <2>1. Limit(1) <= Limit(1 + 1) /\ Limit(2) <= Limit(2 + 1)
    BY <1>1 DEF Levels
  <2> QED
    BY <2>1
<1>3. \/ t = k + 1 \/ (k = 0 /\ t = 2) \/ (k = 0 /\ t = 3) \/ (k = 1 /\ t = 3)
  BY DEF Levels
<1>4. Limit(1) \in Nat /\ Limit(2) \in Nat /\ Limit(3) \in Nat /\ Limit(t) \in Nat
  BY <1>1 DEF Levels
<1> QED
  BY <1>2, <1>3, <1>4

LEMMA FilledFull ==
    ASSUME NEW k \in Levels, NEW n \in Nat, NEW a, DOMAIN a = 1 .. n, NEW m \in Nat,
           n * Span(k) <= m, NEW w, Filled(w, a, k, m)
    PROVE  Filled(w, a, k, m + 1)
<1>1. PICK S \in Nat : S = Span(k) /\ S >= 1
  BY LimitsAre
<1>2. ASSUME NEW s \in 1 .. n PROVE s * S <= m /\ s * S \in Int /\ (s - 1) * S < m
  <2>1. PICK x \in Int : x = n * S /\ x <= m
    BY <1>1, MulNat
  <2>2. s * S <= n * S /\ s * S \in Int /\ (s - 1) * S = s * S - S
    BY <1>1, MulLess
  <2>3. PICK y \in Int : y = s * S /\ y <= x /\ (s - 1) * S = y - S
    BY <2>1, <2>2
  <2>4. y <= m /\ y - S < m
    BY <1>1, <2>1, <2>3, SMTT(30)
  <2> QED
    BY <2>3, <2>4
<1>3. ASSUME NEW s \in 1 .. n PROVE (s - 1) * S < m + 1 /\ Share(k, m + 1, s) = Share(k, m, s)
  <2>1. PICK x \in Int, y \in Int : x = s * S /\ y = (s - 1) * S /\ x <= m /\ y < m
    <3>1. (s - 1) * S \in Int /\ s * S \in Int
      BY <1>1, <1>2, MulAdd
    <3> QED
      BY <1>2, <3>1
  <2>2. x <= m + 1 /\ y < m + 1
    BY <2>1
  <2>3. Share(k, m, s) = S /\ Share(k, m + 1, s) = S
    BY <1>1, <2>1, <2>2 DEF Share
  <2> QED
    BY <2>1, <2>2, <2>3
<1>4. Slots(a, k, m) /\ Weights(w, a, k, m)
  BY DEF Filled
<1>5. Slots(a, k, m + 1)
  BY <1>1, <1>2, <1>3, <1>4 DEF Slots
<1>6. Weights(w, a, k, m + 1)
  BY <1>3, <1>4 DEF Weights
<1> QED
  BY <1>5, <1>6 DEF Filled

LEMMA FilledNone ==
    ASSUME NEW k \in Levels, NEW n \in Nat, NEW a, DOMAIN a = 1 .. n, NEW m \in Int,
           m + 1 <= 0, NEW w, Filled(w, a, k, m)
    PROVE  Filled(w, a, k, m + 1)
<1>1. PICK S \in Nat : S = Span(k)
  BY LimitsAre
<1>2. ASSUME NEW s \in 1 .. n PROVE a[s] = NoBlock
  <2>1. s - 1 \in Nat /\ (s - 1) * S \in Nat
    BY MulNat
  <2>2. ~((s - 1) * S < m)
    BY <2>1
  <2> QED
    BY <1>1, <2>2 DEF Filled, Slots
<1>3. m + 1 \in Int
  OBVIOUS
<1> QED
  BY <1>2, <1>3, FilledEmpty

LEMMA SizedWriteInode ==
    ASSUME TypeInv, TypeInv', NEW at, NEW w, Placed(at), Sized(at, w), WriteInode
    PROVE  Sized(at, w)'
<1>1. /\ pc = "unwind" /\ Depth = 1 /\ pc \in Working /\ pc \in Allocating /\ pc' = "idle"
      /\ ino' = [ino EXCEPT ![self] = BufWith(buf.n_blocks + 1)]
      /\ UNCHANGED <<content, linked>>
  BY DEF WriteInode, Working, Allocating, Rest, BufWith, pool
<1>2. PICK fs, t, r, i : fs = frames /\ t = top /\ r = First /\ i = self
  OBVIOUS
<1>3. /\ i \in linked /\ buf = ino[i] /\ i \in Inodes /\ t \in Levels /\ IsStack(fs, t)
      /\ Len(fs) = 1 /\ level = t
  <2>1. /\ i \in linked /\ buf = ino[i] /\ i \in Inodes /\ t \in Levels /\ IsStack(fs, t)
        /\ Len(fs) = 1 /\ level = t - (1 - 1)
    BY <1>1, <1>2, WorkingIs DEF Placed
  <2> QED
    BY <2>1 DEF Levels
<1>4. /\ Room(w, fs, t, r) /\ Filled(w, blocks, t, r + 1)
      /\ InodesSized(w) /\ DiskSized(at, w) /\ w \in [Blocks -> Nat]
  <2>1. Size(w, fs, r, 1) = r
    BY DEF Size
  <2> QED
    BY <1>1, <1>2, <1>3, <2>1 DEF Sized, Running
<1>5. r \in Nat /\ r < Pointers(t) * Span(t)
  <2>1. 1 \in 1 .. Len(fs) /\ t - (1 - 1) = t
    BY <1>3 DEF Levels
  <2> QED
    BY <1>4, <2>1 DEF Room, Size, Width
<1>6. PICK n \in Nat : n = ino[i].n_blocks /\ n < Limit(4)
  BY <1>1, <1>3, LimitsAre, TypeParts DEF Changing, IsInode, InodeRecord
<1>7. r = n - Limit(t) /\ n + 1 \in 0 .. Limit(4) /\ Limit(t) <= n /\ n + 1 <= Limit(t + 1)
  <2>1. /\ Limit(t) \in Nat /\ Limit(t + 1) = Limit(t) + Pointers(t) * Span(t)
        /\ Pointers(t) * Span(t) \in Nat /\ Limit(4) \in Nat
    BY <1>3, LimitsAre DEF Levels
  <2>2. r = n - Limit(t)
    BY <1>2, <1>3, <1>6 DEF First
  <2> QED
    BY <1>5, <1>6, <2>1, <2>2
<1>8. /\ ino'[i] = BufWith(n + 1)
      /\ BufWith(n + 1).blocks[t] = blocks /\ BufWith(n + 1).n_blocks = n + 1
      /\ \A j \in Levels : j # t => BufWith(n + 1).blocks[j] = ino[i].blocks[j]
  <2>1. ino'[i] = BufWith(n + 1)
    BY <1>1, <1>2, <1>3, <1>6, TypeParts DEF InodesType
  <2> QED
    BY <1>1, <1>2, <1>3, <1>7, <2>1, BufWithIs
<1>9. ASSUME NEW k \in Levels, k # t
      PROVE  Filled(w, ino[i].blocks[k], k, (n + 1) - Limit(k))
  <2>1. PICK a, m, p : a = ino[i].blocks[k] /\ m = n - Limit(k) /\ p = Pointers(k)
    OBVIOUS
  <2>2. Filled(w, a, k, m)
    BY <1>2, <1>3, <1>4, <1>6, <1>9, <2>1 DEF InodesSized
  <2>3. DOMAIN a = 1 .. p /\ p \in Nat
    BY <1>3, <2>1, TypeParts, Layout DEF InodesType, IsInode, InodeRecord
  <2>4. /\ Limit(k) \in Nat /\ Limit(k + 1) = Limit(k) + Pointers(k) * Span(k)
        /\ Pointers(k) * Span(k) \in Nat /\ Limit(t) \in Nat /\ Limit(t + 1) \in Nat
    BY <1>3, LimitsAre DEF Levels
  <2>5. (n + 1) - Limit(k) = m + 1
    BY <2>1, <2>4
  <2>6. CASE k < t
    <3>1. Limit(k + 1) <= Limit(t)
      BY <1>3, <2>6, LimitMore
    <3>2. p * Span(k) <= m /\ m \in Nat
      BY <1>7, <2>1, <2>4, <3>1
    <3>3. Filled(w, a, k, m + 1)
      BY <2>2, <2>3, <3>2, FilledFull
    <3> QED
      BY <2>1, <2>5, <3>3
  <2>7. CASE t < k
    <3>1. Limit(t + 1) <= Limit(k)
      BY <1>3, <2>7, LimitMore
    <3>2. m + 1 <= 0 /\ m \in Int
      BY <1>7, <2>1, <2>4, <3>1
    <3>3. Filled(w, a, k, m + 1)
      BY <2>2, <2>3, <3>2, FilledNone
    <3> QED
      BY <2>1, <2>5, <3>3
  <2> QED
    BY <1>3, <1>9, <2>6, <2>7 DEF Levels
<1>10. ASSUME NEW j \in linked, NEW k \in Levels
       PROVE  Filled(w, ino'[j].blocks[k], k, ino'[j].n_blocks - Limit(k))
  <2>1. CASE j # i
    <3>1. ino'[j] = ino[j]
      BY <1>1, <1>2, <2>1, TypeParts DEF InodesType
    <3> QED
      BY <1>2, <1>4, <2>1, <3>1 DEF InodesSized
  <2>2. CASE j = i /\ k = t
    <3>1. (n + 1) - Limit(t) = r + 1
      <4>1. Limit(t) \in Nat
        BY <1>3, LimitsAre DEF Levels
      <4> QED
        BY <1>7, <4>1
    <3> QED
      BY <1>4, <1>8, <2>2, <3>1
  <2>3. CASE j = i /\ k # t
    BY <1>8, <1>9, <2>3
  <2> QED
    BY <2>1, <2>2, <2>3
<1>11. InodesSized(w)'
  BY <1>1, <1>10 DEF InodesSized
<1>12. ASSUME NEW p \in DOMAIN at, at[p].lvl > 0
       PROVE  Filled(w, content'[p], at[p].lvl - 1, w[p])
  <2>1. 2 .. Len(frames) = {}
    BY <1>2, <1>3
  <2>2. ~Pending(p)
    BY <2>1 DEF Pending
  <2> QED
    BY <1>1, <1>4, <1>12, <2>2 DEF DiskSized
<1>13. DiskSized(at, w)'
  BY <1>12 DEF DiskSized
<1> QED
  BY <1>1, <1>4, <1>11, <1>13, SizedStops DEF Still

LEMMA SizeInit == MapInit => SizeInv
<1> SUFFICES ASSUME MapInit PROVE SizeInv
  OBVIOUS
<1>1. PICK at, w : at = [x \in {} |-> Spot(0, 0, 0, 0)] /\ w = [b \in Blocks |-> 0]
  OBVIOUS
<1>2. DOMAIN at = {} /\ at \in [DOMAIN at -> Spots] /\ w \in [Blocks -> Nat]
  BY <1>1
<1>3. linked = {} /\ pc = "idle" /\ crashes = 0 /\ DOMAIN content = {} /\ overruns = {}
  BY DEF MapInit, Pool!PoolInit
<1>4. Placed(at)
  BY <1>2, <1>3 DEF Placed, Forest, Stacked, NewUnnamed, Loose, Apart, Working
<1>5. Sized(at, w)
  BY <1>2, <1>3 DEF Sized, InodesSized, DiskSized, Running
<1> QED
  BY <1>3, <1>4, <1>5 DEF SizeInv

LEMMA SizedSame ==
    ASSUME NEW at, NEW w, Sized(at, w), UNCHANGED mapVars
    PROVE  Sized(at, w)'
<1>1. UNCHANGED <<content, ino, linked, pc, buf, frames, top, my_blocks>>
  BY DEF mapVars, pool, alloc
<1>2. /\ self' = self /\ First' = First /\ Depth' = Depth /\ level' = level /\ blocks' = blocks
  BY <1>1 DEF self, First, Depth, level, blocks
<1>3. \A p : Pending(p)' <=> Pending(p)
  BY <1>1 DEF Pending
<1>4. InodesSized(w) <=> InodesSized(w)'
  BY <1>1, <1>2 DEF InodesSized
<1>5. DiskSized(at, w) <=> DiskSized(at, w)'
  BY <1>1, <1>3 DEF DiskSized
<1>6. Running(w) <=> Running(w)'
  BY <1>1, <1>2 DEF Running
<1> QED
  BY <1>1, <1>4, <1>5, <1>6 DEF Sized

SizedNext == \E t, v : Placed(t)' /\ Sized(t, v)'

(* Every step but that of a write that fails, and a crash.                 *)
LEMMA SizedMoves ==
    ASSUME TypeInv, TypeInv', NEW at, NEW w, Placed(at), Sized(at, w), [MapNext]_mapVars,
           failures \in Nat, failures' = failures, crashes \in Nat, crashes' = crashes
    PROVE  SizedNext
<1>1. CASE UNCHANGED mapVars
  BY <1>1, OwnSame, SizedSame DEF SizedNext
<1>2. CASE \E i \in Inodes : Create(i) \/ AllocStart(i)
  BY <1>2, OwnCreate, OwnAllocStart, SizedCreate, SizedAllocStart DEF SizedNext
<1>3. CASE \E i \in Inodes : Unlink(i)
  <2>1. PICK i \in Inodes : Unlink(i)
    BY <1>3
  <2>2. PICK t : Placed(t)' /\ t = Keeping(at, i)
    BY <2>1, OwnUnlink
  <2>3. Sized(t, w)'
    BY <2>1, <2>2, SizedUnlink
  <2> QED
    BY <2>2, <2>3 DEF SizedNext
<1>4. CASE NewIndirect
  <2>3. first_unused < Len(blocks)
    BY <1>4, RoomNewIndirect
  <2>1. PICK t : /\ Placed(t)'
                 /\ \E b : /\ t = Grown(at, b, NextSpot) /\ PoppedFor(at, b)
                           /\ frames' = Append(Stored(b), NewFrame(b))
    BY <1>4, <2>3, OwnNewIndirect
  <2>2. \E v : Sized(t, v)'
    BY <1>4, <2>1, SizedNewIndirect
  <2> QED
    BY <2>1, <2>2 DEF SizedNext
<1>5. CASE NewDirect
  <2>1. PICK t : /\ Placed(t)'
                 /\ first_unused < Len(blocks) =>
                        \E b : /\ t = Grown(at, b, NextSpot) /\ PoppedFor(at, b)
                               /\ frames' = Stored(b) /\ cand' = b
    BY <1>5, OwnNewDirect
  <2>2. \E v : Sized(t, v)'
    BY <1>5, <2>1, SizedNewDirect
  <2> QED
    BY <2>1, <2>2 DEF SizedNext
<1>6. CASE UndoIndirect
  <2>1. PICK t : /\ Placed(t)'
                 /\ t = IF frames[Depth].new THEN Without(at, frames[Depth].target) ELSE at
    BY <1>6, OwnUndoIndirect
  <2>2. Sized(t, w)'
    BY <1>6, <2>1, SizedUndoIndirect
  <2> QED
    BY <2>1, <2>2 DEF SizedNext
<1>7. CASE OldIndirect \/ PopFails
  BY <1>7, OwnOldIndirect, OwnPopFails, SizedOldIndirect, SizedPopFails DEF SizedNext
<1>8. CASE WriteIndirect \/ WriteInode
  BY <1>8, OwnWriteIndirect, OwnWriteInode, SizedWriteIndirect, SizedWriteInode DEF SizedNext
<1>9. CASE AllocFails \/ AppendNext \/ FreeInode
  BY <1>9, OwnAllocFails, OwnAppendNext, OwnFreeInode, SizedAllocFails, SizedAppendNext,
     SizedFreeInode DEF SizedNext
<1>10. CASE GiveBack \/ WriteReturns
  <2>1. pc # "shrink" /\ pc # "give_back"
    BY DEF Placed, Sized
  <2> QED
    BY <1>10, <2>1 DEF WriteReturns, GiveBack
<1>11. CASE Crash
  <2>1. crashes' = crashes + 1
    BY <1>11 DEF Crash, Pool!Crash
  <2> QED
    BY <2>1
<1>12. CASE \E i \in Inodes, start \in 0 .. Cardinality(Blocks) : FailedWrite(i, start)
  <2>1. failures' = failures + 1
    BY <1>12 DEF FailedWrite
  <2> QED
    BY <2>1
<1> QED
  BY <1>1, <1>2, <1>3, <1>4, <1>5, <1>6, <1>7, <1>8, <1>9, <1>10, <1>11, <1>12
  DEF MapNext, Resume

(* Steps count failures and crashes up.                                    *)
LEMMA CountsUp ==
    ASSUME TypeInv, [MapNext]_mapVars
    PROVE  /\ failures' = failures \/ failures' = failures + 1
           /\ crashes' = crashes \/ crashes' = crashes + 1
<1>1. failures' = failures \/ failures' = failures + 1
  BY DEF MapNext, mapVars, Create, AllocStart, Unlink, FailedWrite, Resume, NewIndirect,
     OldIndirect, NewDirect, GiveBack, PopFails, WriteIndirect, WriteInode, UndoIndirect,
     AllocFails, AppendNext, FreeInode, WriteReturns, Crash
<1>2. crashes' = crashes \/ crashes' = crashes + 1
  BY DEF MapNext, mapVars, Create, AllocStart, Unlink, FailedWrite, Resume, NewIndirect,
     OldIndirect, NewDirect, GiveBack, PopFails, WriteIndirect, WriteInode, UndoIndirect,
     AllocFails, AppendNext, FreeInode, WriteReturns, Crash, pool, Pool!Alloc, Pool!Write,
     Pool!Release, Pool!Crash
<1> QED
  BY <1>1, <1>2

LEMMA SizeStep ==
    TypeInv /\ TypeInv' /\ OwnInv /\ SizeInv /\ [MapNext]_mapVars => SizeInv'
<1> SUFFICES ASSUME TypeInv, TypeInv', OwnInv, SizeInv, [MapNext]_mapVars PROVE SizeInv'
  OBVIOUS
<1>1. /\ failures' = failures \/ failures' = failures + 1
      /\ crashes' = crashes \/ crashes' = crashes + 1
  BY CountsUp
<1>2. failures \in Nat /\ crashes \in Nat
  BY DEF OwnInv, SizeInv
<1>3. crashes' \in Nat
  BY <1>1, <1>2
<1>4. ASSUME failures' = 0, crashes' = 0 PROVE overruns' = {} /\ SizedNext
  <2>1. failures' = failures /\ failures = 0 /\ crashes' = crashes /\ crashes = 0
    BY <1>1, <1>2, <1>4
  <2>2. PICK at, w : Placed(at) /\ Sized(at, w)
    BY <2>1 DEF SizeInv
  <2>3. overruns' = {}
    <3>1. overruns = {}
      BY <2>1 DEF SizeInv
    <3>2. CASE NewIndirect
      <4>1. first_unused < Len(blocks) /\ first_unused \in Nat
        BY <2>2, <3>2, RoomNewIndirect
      <4>2. first_unused # Len(blocks)
        BY <4>1
      <4> QED
        BY <3>1, <3>2, <4>2 DEF NewIndirect
    <3> QED
      BY <3>1, <3>2, OverrunsKept
  <2> QED
    BY <1>2, <2>1, <2>2, <2>3, SizedMoves
<1> QED
  BY <1>3, <1>4 DEF SizeInv, SizedNext

(* As long as no write failed and nothing crashed: the number of a block   *)
(* to come leads to a free slot at every level, so nothing is stored past  *)
(* the end of an array of block numbers, and no assertion of the           *)
(* allocation fails.                                                       *)
THEOREM NeverOverrun == MapSpec => [](failures = 0 /\ crashes = 0 => NoOverrun)
<1>1. MapSpec => []TypeInv
  BY TypeInit, TypeStep, PTL DEF MapSpec
<1>2. MapSpec => []OwnInv
  BY <1>1, OwnInit, OwnStep, PTL DEF MapSpec
<1>3. MapSpec => []SizeInv
  BY <1>1, <1>2, SizeInit, SizeStep, PTL DEF MapSpec
<1>4. TypeInv /\ SizeInv => (failures = 0 /\ crashes = 0 => NoOverrun)
  BY TypeImplies DEF SizeInv, Sized, NoOverrun
<1> QED
  BY <1>1, <1>3, <1>4, PTL

-----------------------------------------------------------------------------
(* Failures undone                                                         *)

(* B: the pool when the allocation began, F: the pool now.                 *)
Borrowed(fs, F, B) ==
    \A x : x \in B <=> x \in F \/ \E d \in 2 .. Len(fs) : fs[d].new /\ x = fs[d].target
(* The pointers of the inode when the allocation began.                    *)
Erased(c) == [c EXCEPT ![Len(Entries(c))] = NoBlock]
TopBefore(fs) == IF Len(fs) > 1 /\ fs[2].new THEN Erased(fs[1].indblock) ELSE fs[1].indblock
Undoable ==
    pc \in {"descend", "undo"} => /\ Borrowed(frames, free, before)
                                  /\ buf.blocks[top] = TopBefore(frames)
                                  /\ pc = "undo" => Cardinality(before) < 4
UndoInv == failures = 0 /\ crashes = 0 => Undoable /\ FailureUndone

Marks(fs, gs, D) == \A d \in 1 .. D : gs[d].new = fs[d].new /\ gs[d].target = fs[d].target

LEMMA BorrowMore ==
    ASSUME NEW fs, NEW gs, NEW D \in Nat, D >= 1, Len(fs) = D, Len(gs) = D + 1, Marks(fs, gs, D),
           NEW F, NEW G, NEW B, Borrowed(fs, F, B),
           IF gs[D + 1].new THEN gs[D + 1].target \in F /\ G = F \ {gs[D + 1].target} ELSE G = F
    PROVE  Borrowed(gs, G, B)
<1> SUFFICES ASSUME NEW x
             PROVE  x \in B <=> x \in G \/ \E d \in 2 .. Len(gs) : gs[d].new /\ x = gs[d].target
  BY DEF Borrowed
<1>1. x \in B <=> x \in F \/ \E d \in 2 .. Len(fs) : fs[d].new /\ x = fs[d].target
  BY DEF Borrowed
<1>2. (\E d \in 2 .. Len(gs) : gs[d].new /\ x = gs[d].target) <=>
          \/ \E d \in 2 .. Len(fs) : fs[d].new /\ x = fs[d].target
          \/ gs[D + 1].new /\ x = gs[D + 1].target
  <2>1. ASSUME NEW d \in 2 .. Len(gs), gs[d].new, x = gs[d].target
        PROVE  \/ \E c \in 2 .. Len(fs) : fs[c].new /\ x = fs[c].target
               \/ gs[D + 1].new /\ x = gs[D + 1].target
    <3>1. CASE d = D + 1
      BY <2>1, <3>1
    <3>2. CASE d # D + 1
      <4>1. d \in 2 .. Len(fs) /\ d \in 1 .. D
        BY <3>2
      <4> QED
        BY <2>1, <4>1 DEF Marks
    <3> QED
      BY <3>1, <3>2
  <2>2. ASSUME NEW d \in 2 .. Len(fs), fs[d].new, x = fs[d].target
        PROVE  \E c \in 2 .. Len(gs) : gs[c].new /\ x = gs[c].target
    <3>1. d \in 2 .. Len(gs) /\ d \in 1 .. D
      OBVIOUS
    <3> QED
      BY <2>2, <3>1 DEF Marks
  <2>3. D + 1 \in 2 .. Len(gs)
    OBVIOUS
  <2> QED
    BY <2>1, <2>2, <2>3
<1>3. CASE gs[D + 1].new
  BY <1>1, <1>2, <1>3
<1>4. CASE ~gs[D + 1].new
  BY <1>1, <1>2, <1>4
<1> QED
  BY <1>3, <1>4

LEMMA BorrowLess ==
    ASSUME NEW fs, NEW gs, NEW D \in Nat, D >= 1, Len(fs) = D + 1, Len(gs) = D, Marks(fs, gs, D),
           NEW F, NEW G, NEW B, Borrowed(fs, F, B),
           G = IF fs[D + 1].new THEN F \union {fs[D + 1].target} ELSE F
    PROVE  Borrowed(gs, G, B)
<1> SUFFICES ASSUME NEW x
             PROVE  x \in B <=> x \in G \/ \E d \in 2 .. Len(gs) : gs[d].new /\ x = gs[d].target
  BY DEF Borrowed
<1>1. x \in B <=> x \in F \/ \E d \in 2 .. Len(fs) : fs[d].new /\ x = fs[d].target
  BY DEF Borrowed
<1>2. (\E d \in 2 .. Len(fs) : fs[d].new /\ x = fs[d].target) <=>
          \/ \E d \in 2 .. Len(gs) : gs[d].new /\ x = gs[d].target
          \/ fs[D + 1].new /\ x = fs[D + 1].target
  <2>1. ASSUME NEW d \in 2 .. Len(fs), fs[d].new, x = fs[d].target
        PROVE  \/ \E c \in 2 .. Len(gs) : gs[c].new /\ x = gs[c].target
               \/ fs[D + 1].new /\ x = fs[D + 1].target
    <3>1. CASE d = D + 1
      BY <2>1, <3>1
    <3>2. CASE d # D + 1
      <4>1. d \in 2 .. Len(gs) /\ d \in 1 .. D
        BY <3>2
      <4> QED
        BY <2>1, <4>1 DEF Marks
    <3> QED
      BY <3>1, <3>2
  <2>2. ASSUME NEW d \in 2 .. Len(gs), gs[d].new, x = gs[d].target
        PROVE  \E c \in 2 .. Len(fs) : fs[c].new /\ x = fs[c].target
    <3>1. d \in 2 .. Len(fs) /\ d \in 1 .. D
      OBVIOUS
    <3> QED
      BY <2>2, <3>1 DEF Marks
  <2>3. D + 1 \in 2 .. Len(fs)
    OBVIOUS
  <2> QED
    BY <2>1, <2>2, <2>3
<1>3. CASE fs[D + 1].new
  BY <1>1, <1>2, <1>3
<1>4. CASE ~fs[D + 1].new
  BY <1>1, <1>2, <1>4
<1> QED
  BY <1>3, <1>4

LEMMA OneElementMore ==
    ASSUME NEW S, IsFiniteSet(S), NEW n \in Nat, Cardinality(S) <= n, NEW x, NEW T, T = S \cup {x}
    PROVE  IsFiniteSet(T) /\ Cardinality(T) \in Nat /\ Cardinality(T) <= n + 1
<1>1. Cardinality(S) \in Nat
  BY FS_CardinalityType
<1>2. /\ IsFiniteSet(S \cup {x})
      /\ Cardinality(S \cup {x}) = IF x \in S THEN Cardinality(S) ELSE Cardinality(S) + 1
  BY FS_AddElement
<1> QED
  BY <1>1, <1>2

(* Four blocks are enough for an indirect block of each level and the data *)
(* block.                                                                  *)
LEMMA FewBorrowed ==
    ASSUME NEW fs, Len(fs) \in Nat, Len(fs) <= 4, NEW B, Borrowed(fs, {}, B)
    PROVE  Cardinality(B) < 4
<1>1. PICK x, y, z : x = fs[2].target /\ y = fs[3].target /\ z = fs[4].target
  OBVIOUS
<1>2. IsFiniteSet({x}) /\ Cardinality({x}) = 1
  BY FS_Singleton
<1>3. PICK S, T, U : S = {x} /\ T = S \cup {y} /\ U = T \cup {z}
  OBVIOUS
<1>4. PICK n \in Nat : n = 1
  OBVIOUS
<1>5. IsFiniteSet(S) /\ Cardinality(S) <= n
  BY <1>2, <1>3, <1>4
<1>6. IsFiniteSet(U) /\ Cardinality(U) \in Nat /\ Cardinality(U) <= 3
  <2>1. IsFiniteSet(T) /\ Cardinality(T) <= n + 1
    BY <1>3, <1>5, OneElementMore
  <2>2. n + 1 \in Nat
    OBVIOUS
  <2>3. IsFiniteSet(U) /\ Cardinality(U) \in Nat /\ Cardinality(U) <= (n + 1) + 1
    BY <1>3, <2>1, <2>2, OneElementMore
  <2> QED
    BY <1>4, <2>3
<1>7. B \in SUBSET U
  <2> SUFFICES ASSUME NEW b \in B PROVE b \in U
    OBVIOUS
  <2>1. PICK d \in 2 .. Len(fs) : b = fs[d].target
    BY DEF Borrowed
  <2>2. d = 2 \/ d = 3 \/ d = 4
    OBVIOUS
  <2> QED
    BY <1>1, <1>3, <2>1, <2>2
<1>8. IsFiniteSet(B) /\ Cardinality(B) <= Cardinality(U)
  BY <1>6, <1>7, FS_Subset
<1>9. Cardinality(B) \in Nat
  BY <1>8, FS_CardinalityType
<1> QED
  BY <1>6, <1>8, <1>9

LEMMA EnteredErased ==
    ASSUME NEW n \in Nat, NEW a \in [1 .. n -> Refs], Packed(a), Len(Entries(a)) < n,
           NEW b \in Blocks, NEW c, Entered(c, a, n, b)
    PROVE  Erased(c) = a
<1>1. /\ c \in [1 .. n -> Refs]
      /\ \A s \in 1 .. n : c[s] = IF s = Len(Entries(a)) + 1 THEN b ELSE a[s]
  BY DEF Entered
<1>2. PICK e \in Nat : e = Len(Entries(a))
  BY PackedIs
<1>3. Len(Entries(c)) = e + 1
  BY <1>1, <1>2, EntryMore
<1>4. \A s \in 1 .. n : a[s] = NoBlock <=> s > e
  BY <1>2, PackedIs
<1>5. PICK g : g = Erased(c)
  OBVIOUS
<1>6. g = [c EXCEPT ![e + 1] = NoBlock]
  BY <1>3, <1>5 DEF Erased
<1>7. g \in [1 .. n -> Refs]
  BY <1>1, <1>6 DEF Refs
<1>8. ASSUME NEW s \in 1 .. n PROVE g[s] = a[s]
  <2>1. CASE s = e + 1
    BY <1>1, <1>4, <1>6, <2>1
  <2>2. CASE s # e + 1
    BY <1>1, <1>2, <1>6, <2>2
  <2> QED
    BY <2>1, <2>2
<1> QED
  BY <1>5, <1>7, <1>8

LEMMA UndoQuiet ==
    ASSUME pc' \notin {"descend", "undo"}, pc' = "idle" => result' # "failed"
    PROVE  Undoable' /\ FailureUndone'
  BY DEF Undoable, FailureUndone, Idle

LEMMA UndoSame ==
    ASSUME Undoable, FailureUndone, UNCHANGED mapVars
    PROVE  Undoable' /\ FailureUndone'
<1>1. UNCHANGED <<free, crashes, ino, pc, buf, top, frames, result, before>>
  BY DEF mapVars, pool, alloc
<1>2. self' = self
  BY <1>1 DEF self
<1> QED
  BY <1>1, <1>2 DEF Undoable, FailureUndone, Idle

LEMMA UndoAllocStart ==
    ASSUME TypeInv, NEW i \in Inodes, AllocStart(i)
    PROVE  Undoable' /\ FailureUndone'
<1>1. /\ pc = "idle" /\ UNCHANGED <<free, ino>> /\ buf' = ino[i] /\ before' = free
  BY DEF AllocStart, pool, Idle
<1>2. CASE ino[i].n_blocks < Limit(4)
  <2>1. /\ pc' = "descend"
        /\ frames' = <<[target |-> NoBlock, new |-> FALSE, indblock |-> ino[i].blocks[top']]>>
    BY <1>2 DEF AllocStart
  <2>2. PICK gs : gs = frames'
    OBVIOUS
  <2>3. Len(gs) = 1 /\ gs[1].indblock = ino[i].blocks[top'] /\ 2 .. Len(gs) = {}
    BY <2>1, <2>2
  <2>4. Borrowed(gs, free', before')
    BY <1>1, <2>3 DEF Borrowed
  <2>5. buf'.blocks[top'] = TopBefore(gs)
    BY <1>1, <2>3 DEF TopBefore
  <2> QED
    BY <2>1, <2>2, <2>4, <2>5 DEF Undoable, FailureUndone, Idle
<1>3. CASE ~(ino[i].n_blocks < Limit(4))
  <2>1. pc' = "idle"
    BY <1>1, <1>3 DEF AllocStart
  <2>2. ino[i].inum = i /\ ino[i].n_blocks \in 0 .. Limit(4) /\ Limit(4) \in Nat
    BY LimitsAre, TypeParts DEF InodesType, IsInode, InodeRecord
  <2>3. ino[i].n_blocks = Limit(4)
    BY <1>3, <2>2
  <2>4. self' = i
    BY <1>1, <2>2 DEF self
  <2> QED
    BY <1>1, <2>1, <2>3, <2>4 DEF Undoable, FailureUndone
<1> QED
  BY <1>2, <1>3

(* An array more in core.                                                  *)
LEMMA UndoPush ==
    ASSUME Undoable, pc = "descend", pc' = "descend", UNCHANGED <<buf, top, before>>,
           NEW fs, fs = frames, NEW gs, gs = frames', NEW D \in Nat, D >= 1,
           Len(fs) = D, Len(gs) = D + 1, Marks(fs, gs, D),
           IF gs[D + 1].new THEN gs[D + 1].target \in free /\ free' = free \ {gs[D + 1].target}
                            ELSE free' = free,
           TopBefore(gs) = TopBefore(fs)
    PROVE  Undoable' /\ FailureUndone'
<1>1. Borrowed(fs, free, before) /\ buf.blocks[top] = TopBefore(fs)
  BY DEF Undoable
<1>2. Borrowed(gs, free', before')
  <2>1. PICK F, G, B : F = free /\ G = free' /\ B = before
    OBVIOUS
  <2>2. Borrowed(fs, F, B)
    BY <1>1, <2>1
  <2>3. IF gs[D + 1].new THEN gs[D + 1].target \in F /\ G = F \ {gs[D + 1].target} ELSE G = F
    BY <2>1
  <2>4. Borrowed(gs, G, B)
    BY <2>2, <2>3, BorrowMore
  <2> QED
    BY <2>1, <2>4
<1> QED
  BY <1>1, <1>2 DEF Undoable, FailureUndone, Idle

LEMMA UndoNewIndirect ==
    ASSUME TypeInv, NEW at, NEW w, Placed(at), Sized(at, w), Undoable, NewIndirect
    PROVE  Undoable' /\ FailureUndone'
<1>1. pc = "descend" /\ my_blocks % Span(level) = 0 /\ UNCHANGED <<buf, top, before>>
  BY DEF NewIndirect
<1>2. PICK fs, t, D, r, m :
          fs = frames /\ t = top /\ D = Depth /\ r = First /\ m = Size(w, frames, First, Depth)
  OBVIOUS
<1>3. /\ t \in Levels /\ IsStack(fs, t) /\ D \in Nat /\ D >= 1 /\ D = Len(fs)
      /\ level \in Levels /\ m \in Nat /\ Packed(blocks) /\ blocks = fs[D].indblock
      /\ Width(t, D) \in Nat /\ blocks \in [1 .. Width(t, D) -> Refs]
      /\ Mult(my_blocks - m, Span(level)) /\ my_blocks \in Nat
  BY <1>1, <1>2, DescendIs
<1>6. first_unused < Len(blocks)
  BY RoomNewIndirect
<1>7. PICK b \in Poppable :
          /\ Pool!Alloc(b) /\ pc' = pc
          /\ frames' = Append(Stored(b), NewFrame(b))
  <2>1. first_unused # Len(blocks)
    BY RoomNewIndirect
  <2> QED
    BY <2>1 DEF NewIndirect
<1>8. b \in Blocks /\ b \in free /\ free' = free \ {b}
  <2>1. b \in Blocks
    BY PoppableIs, TypeParts
  <2> QED
    BY <1>7, <2>1, AllocType, TypeParts
<1>9. PICK gs, hs : gs = Stored(b) /\ hs = frames'
  OBVIOUS
<1>10. /\ gs \in Seq(Frame) /\ Len(gs) = D
       /\ \A d \in 1 .. D : gs[d].target = fs[d].target
       /\ \A d \in 1 .. D : d # D => gs[d] = fs[d]
       /\ Entered(gs[D].indblock, blocks, Width(t, D), b)
  <2>1. StoresIn(gs, b)
    BY <1>1, <1>8, <1>9, StoreIs
  <2> QED
    BY <1>2, <2>1 DEF StoresIn, Entered
<1>11. gs[D].new = fs[D].new
  <2>1. pc \in Allocating
    BY <1>1 DEF Allocating
  <2> QED
    BY <1>2, <1>6, <1>8, <1>9, <2>1, StoredIs
<1>12. /\ Len(hs) = D + 1 /\ hs[D + 1].target = b /\ hs[D + 1].new
       /\ \A d \in 1 .. D : hs[d] = gs[d]
  <2>1. PICK f : f = [target |-> b, new |-> TRUE, indblock |-> EmptyArray]
    OBVIOUS
  <2>2. f \in Frame /\ f.target = b /\ f.new = TRUE
    <3>1. b \in Refs
      BY <1>8 DEF Refs
    <3> QED
      BY <2>1, <3>1, FrameIs, EmptyIs
  <2>3. hs = Append(gs, f)
    BY <1>7, <1>9, <2>1
  <2> QED
    BY <1>3, <1>10, <2>2, <2>3
<1>13. Marks(fs, hs, D)
  <2> SUFFICES ASSUME NEW d \in 1 .. D PROVE hs[d].new = fs[d].new /\ hs[d].target = fs[d].target
    BY DEF Marks
  <2> QED
    BY <1>10, <1>11, <1>12
<1>14. TopBefore(hs) = TopBefore(fs)
  <2>1. CASE D = 1
    <3>1. TopBefore(hs) = Erased(gs[1].indblock) /\ TopBefore(fs) = blocks
      BY <1>3, <1>12, <2>1 DEF TopBefore
    <3>2. first_unused = Len(Entries(blocks)) /\ Len(blocks) = Width(t, D)
      BY <1>3, ArrayIs DEF first_unused
    <3>3. PICK a, n, c : a = blocks /\ n = Width(t, D) /\ c = gs[D].indblock
      OBVIOUS
    <3>4. /\ n \in Nat /\ a \in [1 .. n -> Refs] /\ Packed(a) /\ Len(Entries(a)) < n
          /\ Entered(c, a, n, b)
      BY <1>3, <1>6, <1>10, <3>2, <3>3
    <3>5. Erased(c) = a
      BY <1>8, <3>4, EnteredErased
    <3> QED
      BY <2>1, <3>1, <3>3, <3>5
  <2>2. CASE D # 1
    <3>1. 1 \in 1 .. D /\ 2 \in 1 .. D /\ 1 # D /\ D > 1
      BY <1>3, <2>2
    <3>2. hs[1] = fs[1] /\ hs[2].new = fs[2].new
      BY <1>10, <1>12, <1>13, <3>1 DEF Marks
    <3> QED
      BY <1>3, <1>12, <3>1, <3>2 DEF TopBefore
  <2> QED
    BY <2>1, <2>2
<1> QED
  BY <1>1, <1>2, <1>3, <1>7, <1>8, <1>9, <1>12, <1>13, <1>14, UndoPush

LEMMA UndoOldIndirect ==
    ASSUME TypeInv, NEW at, NEW w, Placed(at), Sized(at, w), Undoable, OldIndirect
    PROVE  Undoable' /\ FailureUndone'
<1>1. pc = "descend" /\ UNCHANGED <<free, buf, top, before>>
  BY DEF OldIndirect, pool
<1>2. CASE first_unused = 0
  <2>1. pc' = "abort"
    BY <1>2 DEF OldIndirect
  <2> QED
    BY <2>1, UndoQuiet
<1>3. CASE first_unused # 0
  <2>1. /\ pc' = pc
        /\ frames' = Append(frames, [target |-> blocks[first_unused], new |-> FALSE,
                                     indblock |-> ReadArray(blocks[first_unused])])
    BY <1>3 DEF OldIndirect
  <2>2. PICK fs, t, D, r : fs = frames /\ t = top /\ D = Depth /\ r = First
    OBVIOUS
  <2>3. fs \in Seq(Frame) /\ D \in Nat /\ D >= 1 /\ D = Len(fs)
    BY <1>1, <2>2, DescendIs DEF IsStack
  <2>4. PICK hs, f : hs = frames' /\ f = [target |-> blocks[first_unused], new |-> FALSE,
                                          indblock |-> ReadArray(blocks[first_unused])]
    OBVIOUS
  <2>5. ~f.new /\ hs = Append(fs, f)
    BY <2>1, <2>2, <2>4
  <2>6. Len(hs) = D + 1 /\ hs[D + 1] = f /\ \A d \in 1 .. D : hs[d] = fs[d]
    BY <2>3, <2>5
  <2>7. Marks(fs, hs, D)
    BY <2>6 DEF Marks
  <2>8. TopBefore(hs) = TopBefore(fs)
    <3>1. CASE D = 1
      BY <2>3, <2>5, <2>6, <3>1 DEF TopBefore
    <3>2. CASE D # 1
      <4>1. 1 \in 1 .. D /\ 2 \in 1 .. D /\ D > 1
        BY <2>3, <3>2
      <4> QED
        BY <2>3, <2>6, <4>1 DEF TopBefore
    <3> QED
      BY <3>1, <3>2
  <2>9. fs = frames /\ hs = frames' /\ pc' = "descend" /\ ~hs[D + 1].new
    BY <1>1, <2>1, <2>2, <2>4, <2>5, <2>6
  <2> QED
    BY <1>1, <2>3, <2>6, <2>7, <2>8, <2>9, UndoPush
<1> QED
  BY <1>2, <1>3

LEMMA UndoPopFails ==
    ASSUME TypeInv, Undoable, PopFails
    PROVE  Undoable' /\ FailureUndone'
<1>1. /\ pc = "descend" /\ free = {} /\ pc' = "undo"
      /\ UNCHANGED <<free, frames, buf, top, before>>
  BY DEF PopFails, pool, alloc
<1>2. Borrowed(frames, {}, before) /\ buf.blocks[top] = TopBefore(frames)
  BY <1>1 DEF Undoable
<1>3. Len(frames) \in Nat /\ Len(frames) <= 4
  BY TypeParts DEF Changing, IsStack, Levels
<1>4. Cardinality(before) < 4
  BY <1>2, <1>3, FewBorrowed
<1>5. /\ pc' = "undo" /\ Borrowed(frames', free', before') /\ buf'.blocks[top'] = TopBefore(frames')
      /\ Cardinality(before') < 4
  BY <1>1, <1>2, <1>4
<1> QED
  BY <1>5 DEF Undoable, FailureUndone, Idle

LEMMA UndoUndoIndirect ==
    ASSUME TypeInv, NEW at, Placed(at), Undoable, UndoIndirect
    PROVE  Undoable' /\ FailureUndone'
<1>1. pc = "undo" /\ pc' = "undo" /\ Depth > 1 /\ pc \in Allocating /\ UNCHANGED <<buf, top, before>>
  BY DEF UndoIndirect, Allocating
<1>2. /\ top \in Levels /\ IsStack(frames, top) /\ Depth = Len(frames) /\ Depth \in Nat
      /\ IsStack(Front(frames), top) /\ Len(Front(frames)) = Depth - 1
      /\ \A d \in 1 .. Depth - 1 : Front(frames)[d] = frames[d]
  BY <1>1, StackIs, UpperIs, TypeParts DEF Changing
<1>3. PICK D \in Nat, t \in Levels : D = Depth - 1 /\ t = top
  <2>1. Depth - 1 \in Nat
    BY <1>1, <1>2
  <2> QED
    BY <1>2, <2>1
<1>4. PICK fs, us, gs : fs = frames /\ us = Front(frames) /\ gs = frames'
  OBVIOUS
<1>5. PICK e : e = Len(Entries(fs[D].indblock))
  OBVIOUS
<1>6. /\ D >= 1 /\ IsStack(fs, t) /\ Len(fs) = D + 1 /\ D \in 1 .. Len(fs)
      /\ IsStack(us, t) /\ Len(us) = D /\ D \in 1 .. Len(us)
      /\ \A d \in 1 .. D : us[d] = fs[d]
  BY <1>1, <1>2, <1>3, <1>4
<1>7. e \in Nat
  BY <1>5, <1>6, StackArray, EntriesAre
<1>8. /\ fs[D + 1].new => gs = Put(us, D, e, NoBlock)
      /\ ~fs[D + 1].new => gs = us
  <2>1. us[D] = fs[D] /\ D + 1 = Depth
    BY <1>2, <1>3, <1>6
  <2>2. CASE frames[Depth].new
    <3>1. StackRight(at, frames, top, self)
      BY <1>1 DEF Placed, Stacked, Working
    <3>2. frames' = [Front(frames) EXCEPT
                         ![Depth - 1].indblock[Len(Entries(Front(frames)[Depth - 1].indblock))]
                             = NoBlock]
      BY <2>2, <3>1, UndoClears
    <3> QED
      BY <1>3, <1>4, <1>5, <2>1, <2>2, <3>2 DEF Put
  <2>3. CASE ~frames[Depth].new
    BY <1>4, <2>1, <2>3 DEF UndoIndirect
  <2> QED
    BY <2>2, <2>3
<1>9. free' = IF fs[D + 1].new THEN free \union {fs[D + 1].target} ELSE free
  <2>1. D + 1 = Depth
    BY <1>2, <1>3
  <2>2. CASE fs[D + 1].new
    <3>1. PICK b : b = fs[D + 1].target
      OBVIOUS
    <3>2. Pool!Release(b)
      BY <1>4, <2>1, <2>2, <3>1 DEF UndoIndirect
    <3> QED
      BY <2>2, <3>1, <3>2, ReleaseType, TypeParts
  <2>3. CASE ~fs[D + 1].new
    BY <1>4, <2>1, <2>3 DEF UndoIndirect, pool
  <2> QED
    BY <2>2, <2>3
<1>10. /\ Len(gs) = D
       /\ \A d \in 1 .. D : gs[d].target = fs[d].target /\ gs[d].new = fs[d].new
       /\ \A d \in 1 .. D : d # D => gs[d] = fs[d]
  <2>1. CASE fs[D + 1].new
    <3>1. NoBlock \in Refs
      BY DEF Refs
    <3>2. IsPut(us, gs, t, D, e, NoBlock)
      BY <1>6, <1>7, <1>8, <2>1, <3>1, PutIs
    <3> QED
      BY <1>6, <3>2 DEF IsPut
  <2>2. CASE ~fs[D + 1].new
    BY <1>6, <1>8, <2>2
  <2> QED
    BY <2>1, <2>2
<1>11. TopBefore(gs) = TopBefore(fs)
  <2>1. CASE D = 1
    <3>1. TopBefore(gs) = gs[1].indblock
      BY <1>10, <2>1 DEF TopBefore
    <3>2. CASE fs[2].new
      <4>1. us \in Seq(Frame) /\ us[1] \in Frame /\ us[1] = fs[1]
        BY <1>6, <2>1 DEF IsStack
      <4>2. gs = [us EXCEPT ![1].indblock[e] = NoBlock]
        BY <1>8, <2>1, <3>2 DEF Put
      <4>3. gs[1].indblock = [us[1].indblock EXCEPT ![e] = NoBlock]
        BY <1>6, <2>1, <4>1, <4>2 DEF Frame
      <4> QED
        BY <1>5, <1>6, <2>1, <3>1, <3>2, <4>1, <4>3 DEF TopBefore, Erased
    <3>3. CASE ~fs[2].new
      BY <1>6, <1>8, <2>1, <3>1, <3>3 DEF TopBefore
    <3> QED
      BY <3>2, <3>3
  <2>2. CASE D # 1
    <3>1. 1 \in 1 .. D /\ 2 \in 1 .. D /\ 1 # D /\ D > 1
      BY <1>6, <2>2
    <3> QED
      BY <1>6, <1>10, <3>1 DEF TopBefore
  <2> QED
    BY <2>1, <2>2
<1>12. Borrowed(gs, free', before)
  <2>1. PICK F, G, B : F = free /\ G = free' /\ B = before
    OBVIOUS
  <2>2. Borrowed(fs, F, B)
    BY <1>1, <1>4, <2>1 DEF Undoable
  <2>3. G = IF fs[D + 1].new THEN F \union {fs[D + 1].target} ELSE F
    BY <1>9, <2>1
  <2>4. Marks(fs, gs, D)
    BY <1>10 DEF Marks
  <2>5. Borrowed(gs, G, B)
    BY <1>6, <1>10, <2>2, <2>3, <2>4, BorrowLess
  <2> QED
    BY <2>1, <2>5
<1>13. buf.blocks[top] = TopBefore(fs) /\ Cardinality(before) < 4
  BY <1>1, <1>4 DEF Undoable
<1>14. /\ Borrowed(frames', free', before') /\ buf'.blocks[top'] = TopBefore(frames')
       /\ Cardinality(before') < 4
  BY <1>1, <1>4, <1>11, <1>12, <1>13
<1> QED
  BY <1>1, <1>14 DEF Undoable, FailureUndone, Idle

LEMMA UndoAllocFails ==
    ASSUME TypeInv, NEW at, Placed(at), Undoable, AllocFails
    PROVE  Undoable' /\ FailureUndone'
<1>1. /\ pc = "undo" /\ Depth = 1 /\ pc' = "idle" /\ pc \in Allocating /\ pc \in Working
      /\ UNCHANGED <<free, ino, before>>
  BY DEF AllocFails, Allocating, Working, pool
<1>2. /\ buf = ino[self] /\ top \in Levels /\ Depth = Len(frames)
      /\ blocks = frames[Depth].indblock
  BY <1>1, WorkingIs DEF Placed
<1>3. /\ Borrowed(frames, free, before) /\ buf.blocks[top] = TopBefore(frames)
      /\ Cardinality(before) < 4
  BY <1>1 DEF Undoable
<1>4. PICK n \in Nat : n = Len(frames) /\ n = 1
  BY <1>1, <1>2, Zenon
<1>5. free = before
  <2>1. 2 .. Len(frames) = {}
    BY <1>4
  <2>2. \A x : x \in before <=> x \in free
    BY <1>3, <2>1 DEF Borrowed
  <2> QED
    BY <2>2
<1>6. buf.blocks[top] = blocks
  <2>1. ~(n > 1)
    BY <1>4
  <2> QED
    BY <1>1, <1>2, <1>3, <1>4, <2>1 DEF TopBefore
<1>7. buf' = buf
  BY <1>2, <1>6, TypeParts DEF AllocFails, Changing, IsInode, InodeRecord
<1>8. self' = self
  BY <1>7 DEF self
<1> QED
  BY <1>1, <1>2, <1>3, <1>5, <1>7, <1>8 DEF Undoable, FailureUndone

LEMMA UndoOthers ==
    ASSUME Undoable, NEW at, NEW w, Placed(at), Sized(at, w),
           \/ \E i \in Inodes : Create(i) \/ Unlink(i)
           \/ NewDirect \/ GiveBack \/ WriteIndirect \/ WriteInode
           \/ AppendNext \/ FreeInode \/ WriteReturns
    PROVE  Undoable' /\ FailureUndone'
<1>1. pc \notin {"give_back", "shrink"}
  BY DEF Placed, Sized
<1>2. pc' \notin {"descend", "undo"} /\ (pc' = "idle" => result' # "failed")
  <2>1. CASE \E i \in Inodes : Create(i) \/ Unlink(i)
    BY <2>1 DEF Create, Unlink, Rest
  <2>2. CASE NewDirect \/ GiveBack \/ WriteIndirect
    BY <1>1, <2>2 DEF NewDirect, GiveBack, WriteIndirect
  <2>3. CASE WriteInode \/ AppendNext \/ FreeInode \/ WriteReturns
    BY <1>1, <2>3 DEF WriteInode, AppendNext, FreeInode, WriteReturns, Rest
  <2> QED
    BY <2>1, <2>2, <2>3
<1> QED
  BY <1>2, UndoQuiet

LEMMA UndoInit == MapInit => UndoInv
  BY DEF MapInit, UndoInv, Undoable, FailureUndone

LEMMA UndoStep ==
    TypeInv /\ OwnInv /\ SizeInv /\ UndoInv /\ [MapNext]_mapVars => UndoInv'
<1> SUFFICES ASSUME TypeInv, OwnInv, SizeInv, UndoInv, [MapNext]_mapVars,
                    failures' = 0, crashes' = 0
             PROVE  Undoable' /\ FailureUndone'
  BY DEF UndoInv
<1>1. failures = 0 /\ crashes = 0
  <2>1. /\ failures' = failures \/ failures' = failures + 1
        /\ crashes' = crashes \/ crashes' = crashes + 1
    BY CountsUp
  <2> QED
    BY <2>1 DEF OwnInv, SizeInv
<1>2. Undoable /\ FailureUndone
  BY <1>1 DEF UndoInv
<1>3. PICK at, w : Placed(at) /\ Sized(at, w)
  BY <1>1 DEF SizeInv
<1>4. CASE UNCHANGED mapVars
  BY <1>2, <1>4, UndoSame
<1>5. CASE \E i \in Inodes : AllocStart(i)
  BY <1>5, UndoAllocStart
<1>6. CASE NewIndirect
  BY <1>2, <1>3, <1>6, UndoNewIndirect
<1>7. CASE OldIndirect
  BY <1>2, <1>3, <1>7, UndoOldIndirect
<1>8. CASE PopFails
  BY <1>2, <1>8, UndoPopFails
<1>9. CASE UndoIndirect
  BY <1>2, <1>3, <1>9, UndoUndoIndirect
<1>10. CASE AllocFails
  BY <1>2, <1>3, <1>10, UndoAllocFails
<1>11. CASE \/ \E i \in Inodes : Create(i) \/ Unlink(i)
            \/ NewDirect \/ GiveBack \/ WriteIndirect \/ WriteInode
            \/ AppendNext \/ FreeInode \/ WriteReturns
  BY <1>2, <1>3, <1>11, UndoOthers
<1>12. CASE \E i \in Inodes, start \in 0 .. Cardinality(Blocks) : FailedWrite(i, start)
  <2>1. failures' = failures + 1
    BY <1>12 DEF FailedWrite
  <2> QED
    BY <1>1, <2>1
<1>13. CASE Crash
  <2>1. crashes' = crashes + 1
    BY <1>13 DEF Crash, Pool!Crash
  <2> QED
    BY <1>1, <2>1
<1> QED
  BY <1>4, <1>5, <1>6, <1>7, <1>8, <1>9, <1>10, <1>11, <1>12, <1>13 DEF MapNext, Resume

(* As long as no write failed and nothing crashed: an allocation that      *)
(* fails gives back every block it popped and leaves the inode in core as  *)
(* it is on disk, and it fails only with fewer than four free blocks or    *)
(* with every pointer of the inode in use.                                 *)
THEOREM FailuresUndone == MapSpec => [](failures = 0 => FailureUndone)
<1>1. MapSpec => []TypeInv
  BY TypeInit, TypeStep, PTL DEF MapSpec
<1>2. MapSpec => []OwnInv
  BY <1>1, OwnInit, OwnStep, PTL DEF MapSpec
<1>3. MapSpec => []SizeInv
  BY <1>1, <1>2, SizeInit, SizeStep, PTL DEF MapSpec
<1>4. MapSpec => []UndoInv
  BY <1>1, <1>2, <1>3, UndoInit, UndoStep, PTL DEF MapSpec
<1>5. UndoInv => (failures = 0 => FailureUndone)
  BY DEF UndoInv, FailureUndone
<1> QED
  BY <1>4, <1>5, PTL

-----------------------------------------------------------------------------
(* Nothing lost: the converse of Placed, every place is named.             *)

Hangs(at, x) ==
    /\ at[x].own \in linked
    /\ at[x].up # NoBlock => /\ at[x].up \in DOMAIN at
                             /\ at[at[x].up].own = at[x].own /\ at[at[x].up].lvl = at[x].lvl + 1
Hung(at) == \A x \in DOMAIN at : Hangs(at, x)

(* The array that a place is in, on disk, has the block there.             *)
Has(a, at, x) == at[x].idx \in DOMAIN a /\ a[at[x].idx] = x
DiskArray(at, x) ==
    IF at[x].up = NoBlock THEN ino[at[x].own].blocks[at[x].lvl] ELSE content[at[x].up]
OnDisk(at, x) == Has(DiskArray(at, x), at, x)

(* One level down from a block, on the way to another.                     *)
LEMMA StepDown ==
    ASSUME NEW at, AreSpots(at), Hung(at), NEW m \in 0 .. 2, NEW b \in DOMAIN at, at[b].lvl = m + 1,
           NEW x \in Part(at, m + 1, b), x # b
    PROVE  \E c \in DOMAIN at : /\ at[c].up = b /\ at[c].lvl = m /\ at[c].own = at[b].own
                                /\ x \in Part(at, m, c)
<1>1. /\ x \in DOMAIN at /\ at[x].own = at[b].own /\ at[x].lvl <= m + 1
      /\ Ancestor(at, x, (m + 1) - at[x].lvl) = b
  BY DEF Part
<1>2. at[x].lvl \in 0 .. 3
  BY <1>1 DEF AreSpots, Spots, Levels
<1>3. at[x].lvl # m + 1
  <2> SUFFICES ASSUME at[x].lvl = m + 1 PROVE FALSE
    OBVIOUS
  <2>1. (m + 1) - at[x].lvl = 0 /\ 0 \in 0 .. 2
    BY <1>2
  <2> QED
    BY <1>1, <2>1, AncestorNext
<1>4. PICK d \in 0 .. 2 : d = m - at[x].lvl /\ (m + 1) - at[x].lvl = d + 1 /\ at[x].lvl <= m
  <2>1. m - at[x].lvl \in 0 .. 2 /\ (m + 1) - at[x].lvl = (m - at[x].lvl) + 1 /\ at[x].lvl <= m
    BY <1>1, <1>2, <1>3
  <2> QED
    BY <2>1
<1>5. PICK c : c = Ancestor(at, x, d)
  OBVIOUS
<1>6. Above(at, c) = b
  BY <1>1, <1>4, <1>5, AncestorNext
<1>7. b # NoBlock
  BY Layout DEF AreSpots
<1>8. c \in DOMAIN at /\ at[c].up = b
  BY <1>6, <1>7 DEF Above
<1>9. at[c].own = at[b].own /\ at[c].lvl = m
  <2>1. at[b].own = at[c].own /\ at[b].lvl = at[c].lvl + 1
    BY <1>7, <1>8 DEF Hung, Hangs
  <2>2. at[c].lvl \in 0 .. 3
    BY <1>8 DEF AreSpots, Spots, Levels
  <2> QED
    BY <2>1, <2>2
<1>10. x \in Part(at, m, c)
  BY <1>1, <1>4, <1>5, <1>9 DEF Part
<1> QED
  BY <1>8, <1>9, <1>10

(* Every block is below a pointer of its inode.                            *)
LEMMA HangsUnder ==
    ASSUME NEW at, AreSpots(at), Hung(at)
    PROVE  \A x \in DOMAIN at : \E l \in Levels : x \in Under(at, at[x].own, l)
<1> DEFINE Good(x) == \E l \in Levels : x \in Under(at, at[x].own, l)
           P == {k \in 0 .. 3 : \A x \in DOMAIN at : at[x].lvl = 3 - k => Good(x)}
<1>1. ASSUME NEW x \in DOMAIN at, at[x].up = NoBlock PROVE Good(x)
  <2>1. PICK l \in Levels : l = at[x].lvl
    BY DEF AreSpots, Spots
  <2>2. x \in Part(at, l, x)
    BY <2>1, PartSelf
  <2>3. x \in Roots(at, at[x].own, l)
    BY <1>1, <2>1 DEF Roots
  <2> QED
    BY <2>2, <2>3 DEF Under
<1>2. ASSUME NEW x \in DOMAIN at, at[x].up # NoBlock, Good(at[x].up) PROVE Good(x)
  <2>1. PICK y \in DOMAIN at : y = at[x].up /\ at[y].own = at[x].own /\ at[y].lvl = at[x].lvl + 1
    BY <1>2 DEF Hung, Hangs
  <2>2. PICK l \in Levels : y \in Under(at, at[x].own, l)
    BY <1>2, <2>1
  <2>3. PICK c \in Roots(at, at[x].own, l) : y \in Part(at, l, c)
    BY <2>2 DEF Under
  <2>4. at[y].own = at[c].own /\ at[y].lvl <= l /\ Ancestor(at, y, l - at[y].lvl) = c
    BY <2>3 DEF Part
  <2>5. at[x].lvl \in 0 .. 3 /\ at[y].lvl \in 0 .. 3 /\ l \in 0 .. 3
    BY DEF AreSpots, Spots, Levels
  <2>6. PICK d \in 0 .. 2 : d = l - at[y].lvl /\ l - at[x].lvl = d + 1
    <3>1. l - at[y].lvl \in 0 .. 2 /\ l - at[x].lvl = (l - at[y].lvl) + 1
      BY <2>1, <2>4, <2>5
    <3> QED
      BY <3>1
  <2>7. Ancestor(at, x, d + 1) = Ancestor(at, y, d)
    <3>1. Above(at, x) = y
      BY <2>1 DEF Above
    <3>2. d = 0 \/ d = 1 \/ d = 2
      OBVIOUS
    <3> QED
      BY <3>1, <3>2 DEF Ancestor
  <2>8. at[x].lvl <= l
    BY <2>1, <2>4, <2>5
  <2>9. x \in Part(at, l, c)
    BY <2>1, <2>4, <2>6, <2>7, <2>8 DEF Part
  <2> QED
    BY <2>3, <2>9 DEF Under
<1>3. 0 \in P
  <2> SUFFICES ASSUME NEW x \in DOMAIN at, at[x].lvl = 3 PROVE Good(x)
    OBVIOUS
  <2>1. at[x].up = NoBlock
    <3> SUFFICES ASSUME at[x].up # NoBlock PROVE FALSE
      OBVIOUS
    <3>1. at[x].up \in DOMAIN at /\ at[at[x].up].lvl = at[x].lvl + 1
      BY DEF Hung, Hangs
    <3>2. at[at[x].up].lvl \in 0 .. 3
      BY <3>1 DEF AreSpots, Spots, Levels
    <3> QED
      BY <3>1, <3>2
  <2> QED
    BY <1>1, <2>1
<1>4. ASSUME NEW k \in 1 .. 3, k - 1 \in P PROVE k \in P
  <2> SUFFICES ASSUME NEW x \in DOMAIN at, at[x].lvl = 3 - k PROVE Good(x)
    OBVIOUS
  <2>1. CASE at[x].up = NoBlock
    BY <1>1, <2>1
  <2>2. CASE at[x].up # NoBlock
    <3>1. at[x].up \in DOMAIN at /\ at[at[x].up].lvl = at[x].lvl + 1
      BY <2>2 DEF Hung, Hangs
    <3>2. at[at[x].up].lvl = 3 - (k - 1)
      BY <3>1
    <3>3. Good(at[x].up)
      BY <1>4, <3>1, <3>2
    <3> QED
      BY <1>2, <2>2, <3>3
  <2> QED
    BY <2>1, <2>2
<1>5. 0 .. 3 \subseteq P
  <2> HIDE DEF P
  <2> QED
    BY <1>3, <1>4, UpTo
<1>6. ASSUME NEW x \in DOMAIN at PROVE Good(x)
  <2>1. at[x].lvl \in 0 .. 3
    BY DEF AreSpots, Spots, Levels
  <2>2. PICK k \in 0 .. 3 : at[x].lvl = 3 - k
    <3>1. 3 - at[x].lvl \in 0 .. 3 /\ at[x].lvl = 3 - (3 - at[x].lvl)
      BY <2>1
    <3> QED
      BY <3>1
  <2> QED
    BY <1>5, <2>2
<1> QED
  BY <1>6

(* A release from the first block on appends all the blocks of the file.   *)
AllOnDisk(at) == \A x \in DOMAIN at : OnDisk(at, x)
Adding(acc, r, P) == r \in Acc /\ Range(acc[2]) \union P \subseteq Range(r[2])
WalkFull(at, m) ==
    \A acc \in Acc, b \in DOMAIN at :
        at[b].lvl = m => Adding(acc, Walk(m, 0, acc, b), Part(at, m, b))

LEMMA EntryOf ==
    ASSUME NEW n \in Nat, NEW a \in [1 .. n -> Refs], Packed(a), NEW x \in Blocks,
           NEW j \in 1 .. n, a[j] = x
    PROVE  j \in 1 .. Len(Entries(a)) /\ Entries(a)[j] = x
<1>1. /\ Len(Entries(a)) \in 0 .. n
      /\ \A s \in 1 .. n : a[s] = NoBlock <=> s > Len(Entries(a))
      /\ \A s \in 1 .. n : s <= Len(Entries(a)) => Entries(a)[s] = a[s]
  BY PackedIs
<1>2. a[j] # NoBlock
  BY Layout
<1>3. ~(j > Len(Entries(a)))
  BY <1>1, <1>2
<1>4. j <= Len(Entries(a))
  BY <1>1, <1>3
<1> QED
  BY <1>1, <1>4

LEMMA PartsOf ==
    ASSUME PoolType, NEW at, Forest(at), Hung(at), AllOnDisk(at), NEW m \in 0 .. 2,
           NEW b \in DOMAIN at, at[b].lvl = m + 1, NEW s, s = Entries(ReadArray(b))
    PROVE  Part(at, m + 1, b) \subseteq {b} \union FirstParts(at, m, s, Len(s))
<1> SUFFICES ASSUME NEW x \in Part(at, m + 1, b), x # b PROVE x \in FirstParts(at, m, s, Len(s))
  OBVIOUS
<1>1. AreSpots(at)
  BY ForestSpots
<1>2. PICK c \in DOMAIN at : at[c].up = b /\ at[c].lvl = m /\ x \in Part(at, m, c)
  BY <1>1, StepDown
<1>3. b # NoBlock /\ c \in Blocks
  BY <1>1, Layout DEF AreSpots
<1>4. PICK j : j = at[c].idx
  OBVIOUS
<1>5. PICK a : a = content[b]
  OBVIOUS
<1>6. j \in DOMAIN a /\ a[j] = c
  BY <1>2, <1>3, <1>4, <1>5 DEF AllOnDisk, OnDisk, Has, DiskArray
<1>7. a \in [1 .. BPI -> Refs] /\ DOMAIN a = 1 .. BPI /\ BPI \in Nat /\ s = Entries(a)
  <2>1. b \in DOMAIN content /\ a \in Array
    BY <1>5 DEF Forest, PoolType
  <2> QED
    BY <1>5, <2>1, Layout DEF Array, ReadArray
<1>8. Packed(a)
  <2>1. at[b].lvl > 0
    OBVIOUS
  <2> QED
    BY <1>5, <2>1 DEF Forest, Right
<1>9. j \in 1 .. Len(s) /\ s[j] = c
  BY <1>3, <1>6, <1>7, <1>8, EntryOf
<1> QED
  BY <1>2, <1>9 DEF FirstParts

LEMMA AddingMore ==
    ASSUME NEW acc, NEW r, NEW q, NEW P, NEW Q, Adding(acc, r, P), Adding(r, q, Q)
    PROVE  Adding(acc, q, P \union Q)
  BY DEF Adding

LEMMA WalkAllAdds ==
    ASSUME PoolType, NEW at, NEW m \in 0 .. 2, WalkFull(at, m), NEW s \in Seq(Blocks),
           \A j \in DOMAIN s : s[j] \in DOMAIN at /\ at[s[j]].lvl = m, NEW acc \in Acc
    PROVE  Adding(acc, WalkAll(m, 0, acc, s), FirstParts(at, m, s, Len(s)))
<1>1. Len(s) \in Nat /\ DOMAIN s = 1 .. Len(s) /\ 0 \in Nat
  OBVIOUS
<1>2. PICK h \in [0 .. Len(s) -> Acc] :
          /\ h[0] = acc /\ h[Len(s)] = WalkAll(m, 0, acc, s)
          /\ \A k \in 1 .. Len(s) : h[k] = Walk(m, 0, h[k - 1], s[k])
  <2>1. WalkTyped(m, 0)
    <3>1. m \in 0 .. 3
      OBVIOUS
    <3> QED
      BY <1>1, <3>1, WalkType
  <2> QED
    BY <2>1, WalkAllRuns
<1>3. PICK n \in Nat : n = Len(s)
  BY <1>1
<1> DEFINE P == {k \in 0 .. n : Adding(acc, h[k], FirstParts(at, m, s, k))}
<1>4. 0 \in P
  <2>1. FirstParts(at, m, s, 0) = {}
    <3>1. 1 .. 0 = {}
      OBVIOUS
    <3> QED
      BY <3>1 DEF FirstParts
  <2>2. Adding(acc, h[0], FirstParts(at, m, s, 0))
    BY <1>2, <2>1 DEF Adding
  <2> QED
    BY <1>3, <2>2
<1>5. ASSUME NEW k \in 1 .. n, k - 1 \in P PROVE k \in P
  <2>1. PICK b, e : b = s[k] /\ e = h[k - 1]
    OBVIOUS
  <2>2. Adding(acc, e, FirstParts(at, m, s, k - 1)) /\ e \in Acc
    BY <1>5, <2>1 DEF Adding
  <2>3. h[k] = Walk(m, 0, e, b) /\ b \in DOMAIN at /\ at[b].lvl = m
    BY <1>1, <1>2, <1>3, <2>1
  <2>4. Adding(e, h[k], Part(at, m, b))
    BY <2>2, <2>3 DEF WalkFull
  <2>5. PICK Q : Q = FirstParts(at, m, s, k - 1) \union Part(at, m, b)
    OBVIOUS
  <2>6. Adding(acc, h[k], Q)
    BY <2>2, <2>4, <2>5, AddingMore
  <2>7. FirstParts(at, m, s, k) \subseteq Q
    <3>1. 1 .. k = (1 .. k - 1) \union {k}
      OBVIOUS
    <3> QED
      BY <2>1, <2>5, <3>1 DEF FirstParts
  <2>8. Adding(acc, h[k], FirstParts(at, m, s, k))
    BY <2>6, <2>7 DEF Adding
  <2> QED
    BY <2>8
<1>6. 0 .. n \subseteq P
  <2> HIDE DEF P
  <2> QED
    BY <1>4, <1>5, UpTo
<1>7. n \in P
  <2>1. n \in 0 .. n
    OBVIOUS
  <2> QED
    BY <1>6, <2>1, Zenon
<1> QED
  BY <1>2, <1>3, <1>7

LEMMA WalkAdds ==
    ASSUME PoolType, NEW at, Forest(at), Hung(at), AllOnDisk(at)
    PROVE  \A m \in 0 .. 3 : WalkFull(at, m)
<1> DEFINE P == {m \in 0 .. 3 : WalkFull(at, m)}
<1>1. AreSpots(at)
  BY ForestSpots
<1>2. 0 \in P
  <2> SUFFICES ASSUME NEW acc \in Acc, NEW b \in DOMAIN at, at[b].lvl = 0
               PROVE  Adding(acc, Walk(0, 0, acc, b), Part(at, 0, b))
    BY DEF WalkFull
  <2>1. acc[1] \in Nat /\ acc[2] \in Seq(Blocks) /\ b \in Blocks
    BY <1>1, AccIs DEF AreSpots
  <2>2. Walk(0, 0, acc, b) = <<acc[1] + 1, Append(acc[2], b)>>
    BY <2>1, WalkIs DEF ReleaseData
  <2>3. Part(at, 0, b) \subseteq {b}
    <3> SUFFICES ASSUME NEW x \in Part(at, 0, b) PROVE x = b
      OBVIOUS
    <3>1. x \in DOMAIN at /\ at[x].lvl <= 0 /\ Ancestor(at, x, 0 - at[x].lvl) = b
      BY DEF Part
    <3>2. at[x].lvl \in 0 .. 3
      BY <1>1, <3>1 DEF AreSpots, Spots, Levels
    <3>3. 0 - at[x].lvl = 0 /\ 0 \in 0 .. 2
      BY <3>1, <3>2
    <3> QED
      BY <3>1, <3>3, AncestorNext
  <2>4. PICK q : q = Append(acc[2], b)
    OBVIOUS
  <2>5. q \in Seq(Blocks) /\ Range(q) = Range(acc[2]) \union {b}
    BY <2>1, <2>4, AppendedIs
  <2>6. PICK r : r = Walk(0, 0, acc, b)
    OBVIOUS
  <2>7. r \in Acc /\ r[2] = q
    <3>1. r = <<acc[1] + 1, q>> /\ acc[1] + 1 \in Nat
      BY <2>1, <2>2, <2>4, <2>6
    <3> QED
      BY <2>5, <3>1, AccIs
  <2> QED
    BY <2>3, <2>5, <2>6, <2>7 DEF Adding
<1>3. ASSUME NEW k \in 1 .. 3, k - 1 \in P PROVE k \in P
  <2>1. PICK m \in 0 .. 2 : m = k - 1 /\ m + 1 = k
    <3>1. k - 1 \in 0 .. 2 /\ (k - 1) + 1 = k
      OBVIOUS
    <3> QED
      BY <3>1
  <2>2. WalkFull(at, m)
    BY <1>3, <2>1
  <2> SUFFICES ASSUME NEW acc \in Acc, NEW b \in DOMAIN at, at[b].lvl = m + 1
               PROVE  Adding(acc, Walk(m + 1, 0, acc, b), Part(at, m + 1, b))
    <3>1. WalkFull(at, m + 1)
      BY DEF WalkFull
    <3> QED
      BY <2>1, <3>1
  <2>3. PICK s : s = Entries(ReadArray(b))
    OBVIOUS
  <2>4. Children(at, s, at[b].own, m, b)
    <3>1. b \in DOMAIN content /\ content[b] \in [1 .. BPI -> Refs] /\ ReadArray(b) = content[b]
      BY DEF Forest, PoolType, ReadArray, Array
    <3>2. at[b].lvl > 0 /\ at[b].lvl - 1 = m
      OBVIOUS
    <3>3. Right(at, content[b], at[b].own, m, b)
      BY <3>2 DEF Forest
    <3> QED
      BY <2>3, <3>1, <3>3, Layout, ChildrenAre
  <2>5. PICK Q : Q = FirstParts(at, m, s, Len(s))
    OBVIOUS
  <2>6. Part(at, m + 1, b) \subseteq {b} \union Q
    BY <2>3, <2>5, PartsOf
  <2>7. PICK r : r = WalkAll(m, 0, acc, s)
    OBVIOUS
  <2>8. Adding(acc, r, Q)
    <3>1. s \in Seq(Blocks) /\ \A j \in DOMAIN s : s[j] \in DOMAIN at /\ at[s[j]].lvl = m
      BY <2>4 DEF Children
    <3> QED
      BY <2>2, <2>5, <2>7, <3>1, WalkAllAdds
  <2>9. acc[1] \in Nat /\ r[1] \in Nat /\ r[2] \in Seq(Blocks) /\ b \in Blocks
    <3>1. r \in Acc
      BY <2>8, Zenon DEF Adding
    <3> QED
      BY <1>1, <3>1, AccIs DEF AreSpots
  <2>10. Walk(m + 1, 0, acc, b) = <<r[1], Append(r[2], b)>>
    <3>1. Walk(m + 1, 0, acc, b)
              = ReleaseNode(0, acc, WalkAll(m, 0, acc, Entries(ReadArray(b))), b)
      BY WalkIs
    <3>2. Walk(m + 1, 0, acc, b) = ReleaseNode(0, acc, r, b)
      BY <2>3, <2>7, <3>1, Zenon
    <3>3. acc[1] >= 0
      BY <2>9
    <3> QED
      BY <3>2, <3>3, Zenon DEF ReleaseNode
  <2>11. PICK q : q = Append(r[2], b)
    OBVIOUS
  <2>12. q \in Seq(Blocks) /\ Range(q) = Range(r[2]) \union {b}
    BY <2>9, <2>11, AppendedIs
  <2>13. PICK w : w = Walk(m + 1, 0, acc, b)
    OBVIOUS
  <2>14. w \in Acc /\ w[2] = q
    <3>1. w = <<r[1], q>>
      BY <2>10, <2>11, <2>13
    <3> QED
      BY <2>9, <2>12, <3>1, AccIs
  <2> QED
    BY <2>6, <2>8, <2>12, <2>13, <2>14 DEF Adding
<1>4. 0 .. 3 \subseteq P
  <2> HIDE DEF P
  <2> QED
    BY <1>2, <1>3, UpTo
<1> QED
  BY <1>4

(* What the pointers of level m lead to is under one of their entries.     *)
LEMMA RootEntry ==
    ASSUME TypeInv, NEW at, Forest(at), AllOnDisk(at), NEW i \in linked, NEW m \in Levels,
           NEW c \in Roots(at, i, m)
    PROVE  /\ at[c].idx \in 1 .. Pointers(m) /\ ino[i].blocks[m][at[c].idx] = c /\ c \in Blocks
           /\ at[c].idx \in 1 .. Len(Entries(ino[i].blocks[m]))
           /\ Entries(ino[i].blocks[m])[at[c].idx] = c
<1>1. PICK a, n, j : a = ino[i].blocks[m] /\ n = Pointers(m) /\ j = at[c].idx
  OBVIOUS
<1>2. n \in Nat /\ a \in [1 .. n -> Refs] /\ DOMAIN a = 1 .. n
  <2>1. IsInode(ino[i])
    BY TypeParts DEF InodesType
  <2> QED
    BY <1>1, <2>1, Layout DEF IsInode
<1>3. c \in DOMAIN at /\ at[c].own = i /\ at[c].lvl = m /\ at[c].up = NoBlock
  BY DEF Roots
<1>4. c \in Blocks
  BY <1>3, ForestSpots, TypeParts DEF AreSpots
<1>5. j \in 1 .. n /\ a[j] = c
  BY <1>1, <1>2, <1>3 DEF AllOnDisk, OnDisk, Has, DiskArray
<1>6. Packed(a)
  BY <1>1 DEF Forest, Right
<1>7. j \in 1 .. Len(Entries(a)) /\ Entries(a)[j] = c
  BY <1>2, <1>4, <1>5, <1>6, EntryOf
<1> QED
  BY <1>1, <1>4, <1>5, <1>7

LEMMA LevelAdds ==
    ASSUME TypeInv, NEW at, Forest(at), Hung(at), AllOnDisk(at), NEW i \in linked,
           NEW m \in 0 .. 2, NEW acc \in Acc
    PROVE  Adding(acc, WalkAll(m, 0, acc, Entries(ino[i].blocks[m])), Under(at, i, m))
<1>1. PICK a, n, s : a = ino[i].blocks[m] /\ n = Pointers(m) /\ s = Entries(a)
  OBVIOUS
<1>2. m \in Levels /\ m \in 0 .. 3
  BY DEF Levels
<1>3. n \in Nat /\ a \in [1 .. n -> Refs]
  <2>1. IsInode(ino[i])
    BY TypeParts DEF InodesType
  <2> QED
    BY <1>1, <1>2, <2>1, Layout DEF IsInode
<1>4. Children(at, s, i, m, NoBlock)
  <2>1. Right(at, a, i, m, NoBlock)
    BY <1>1, <1>2 DEF Forest
  <2> QED
    BY <1>1, <1>3, <2>1, ChildrenAre
<1>5. PICK Q : Q = FirstParts(at, m, s, Len(s))
  OBVIOUS
<1>6. Under(at, i, m) \subseteq Q
  <2>1. ASSUME NEW c \in Roots(at, i, m) PROVE Part(at, m, c) \subseteq Q
    <3>1. PICK j \in 1 .. Len(s) : s[j] = c
      BY <1>1, <1>2, RootEntry
    <3> QED
      BY <1>5, <3>1 DEF FirstParts
  <2> QED
    BY <2>1 DEF Under
<1>7. WalkFull(at, m) /\ PoolType
  BY <1>2, WalkAdds, TypeParts
<1>8. s \in Seq(Blocks) /\ \A j \in DOMAIN s : s[j] \in DOMAIN at /\ at[s[j]].lvl = m
  BY <1>4 DEF Children
<1>9. Adding(acc, WalkAll(m, 0, acc, s), Q)
  BY <1>5, <1>7, <1>8, WalkAllAdds
<1> QED
  BY <1>1, <1>6, <1>9 DEF Adding

LEMMA NodeAdds ==
    ASSUME TypeInv, NEW at, Forest(at), Hung(at), AllOnDisk(at), NEW i \in linked,
           NEW m \in 0 .. 3, Pointers(m) = 1, NEW acc \in Acc
    PROVE  /\ ino[i].blocks[m][1] = NoBlock => Under(at, i, m) = {}
           /\ ino[i].blocks[m][1] # NoBlock =>
                  Adding(acc, Walk(m, 0, acc, ino[i].blocks[m][1]), Under(at, i, m))
<1>1. PICK b : b = ino[i].blocks[m][1]
  OBVIOUS
<1>2. m \in Levels
  BY DEF Levels
<1>3. ASSUME NEW c \in Roots(at, i, m) PROVE c = b /\ c # NoBlock
  <2>1. at[c].idx \in 1 .. Pointers(m) /\ ino[i].blocks[m][at[c].idx] = c /\ c \in Blocks
    BY <1>2, RootEntry
  <2>2. at[c].idx = 1
    BY <2>1
  <2> QED
    BY <1>1, <2>1, <2>2, Layout
<1>4. CASE b = NoBlock
  BY <1>1, <1>3, <1>4 DEF Under
<1>5. CASE b # NoBlock
  <2>1. b \in DOMAIN at /\ at[b].lvl = m
    <3>1. PICK a : a = ino[i].blocks[m]
      OBVIOUS
    <3>2. Right(at, a, i, m, NoBlock)
      BY <1>2, <3>1 DEF Forest
    <3>3. 1 \in DOMAIN a /\ a[1] # NoBlock
      <4>1. IsInode(ino[i])
        BY TypeParts DEF InodesType
      <4>2. a \in [1 .. 1 -> Refs]
        BY <1>2, <3>1, <4>1 DEF IsInode
      <4> QED
        BY <1>1, <1>5, <3>1, <4>2
    <3>4. a[1] \in DOMAIN at /\ at[a[1]].lvl = m
      BY <3>2, <3>3, RootIs
    <3> QED
      BY <1>1, <3>1, <3>4
  <2>2. Under(at, i, m) \subseteq Part(at, m, b)
    BY <1>3 DEF Under
  <2>3. WalkFull(at, m)
    BY WalkAdds, TypeParts
  <2>4. Adding(acc, Walk(m, 0, acc, b), Part(at, m, b))
    BY <2>1, <2>3 DEF WalkFull
  <2>5. Adding(acc, Walk(m, 0, acc, b), Under(at, i, m))
    BY <2>2, <2>4 DEF Adding
  <2> QED
    BY <1>1, <1>5, <2>5
<1> QED
  BY <1>4, <1>5

(* release_datablocks looks at one double and one triple indirect block.   *)
LEMMA ReleasedAll ==
    ASSUME N2Indirect = 1, N3Indirect = 1,
           TypeInv, NEW at, Forest(at), Hung(at), AllOnDisk(at), NEW i \in linked,
           ino[i].blocks[3][1] # NoBlock => ino[i].blocks[2][1] # NoBlock
    PROVE  {x \in DOMAIN at : at[x].own = i} \subseteq Range(Released(ino[i], 0))
<1>1. PICK b : b = ino[i].blocks
  OBVIOUS
<1>2. PICK base : base = <<0, <<>>>>
  OBVIOUS
<1>3. PICK d, s, e, t : /\ d = Direct(ino[i], 0) /\ s = Single(ino[i], 0)
                        /\ e = Double(ino[i], 0) /\ t = Triple(ino[i], 0)
  OBVIOUS
<1>4. base \in Acc /\ d \in Acc /\ s \in Acc /\ e \in Acc /\ t \in Acc
  <2>1. <<>> \in Seq(Blocks)
    OBVIOUS
  <2>2. PoolType /\ IsInode(ino[i])
    BY TypeParts DEF InodesType
  <2>3. 0 \in Nat
    OBVIOUS
  <2>4. d \in Acc /\ s \in Acc /\ e \in Acc /\ t \in Acc
    BY <1>3, <2>2, <2>3, ReleasedType
  <2> QED
    BY <1>2, <2>1, <2>4, AccIs
<1>5. Pointers(2) = 1 /\ Pointers(3) = 1
  BY DEF Pointers
<1> DEFINE U(l) == Under(at, i, l)
<1>6. Adding(base, d, U(0))
  <2>1. d = WalkAll(0, 0, base, Entries(ino[i].blocks[0]))
    BY <1>2, <1>3 DEF Direct
  <2> QED
    BY <1>4, <2>1, LevelAdds
<1>7. Adding(d, s, U(1))
  <2>1. s = WalkAll(1, 0, d, Entries(ino[i].blocks[1]))
    BY <1>3 DEF Single
  <2> QED
    BY <1>4, <2>1, LevelAdds
<1>8. Adding(s, e, U(2))
  <2>1. CASE b[2][1] = NoBlock
    <3>1. e = s
      BY <1>1, <1>3, <2>1 DEF Double
    <3>2. U(2) = {}
      BY <1>1, <1>4, <1>5, <2>1, NodeAdds
    <3> QED
      BY <1>4, <3>1, <3>2 DEF Adding
  <2>2. CASE b[2][1] # NoBlock
    <3>1. e = Walk(2, 0, s, ino[i].blocks[2][1])
      BY <1>1, <1>3, <2>2 DEF Double
    <3>2. 2 \in 0 .. 3 /\ ino[i].blocks[2][1] # NoBlock
      BY <1>1, <2>2
    <3> QED
      BY <1>4, <1>5, <3>1, <3>2, NodeAdds
  <2> QED
    BY <2>1, <2>2
<1>9. Adding(e, t, U(3))
  <2>1. CASE b[3][1] = NoBlock
    <3>1. t = e
      BY <1>1, <1>3, <2>1 DEF Triple
    <3>2. U(3) = {}
      BY <1>1, <1>4, <1>5, <2>1, NodeAdds
    <3> QED
      BY <1>4, <3>1, <3>2 DEF Adding
  <2>2. CASE b[3][1] # NoBlock
    <3>1. t = Walk(3, 0, e, ino[i].blocks[3][1])
      BY <1>1, <1>3, <2>2 DEF Triple
    <3>2. 3 \in 0 .. 3 /\ ino[i].blocks[3][1] # NoBlock
      BY <1>1, <2>2
    <3> QED
      BY <1>4, <1>5, <3>1, <3>2, NodeAdds
  <2> QED
    BY <2>1, <2>2
<1> HIDE DEF U
<1>10. U(0) \union U(1) \union U(2) \union U(3) \subseteq Range(t[2])
  BY <1>6, <1>7, <1>8, <1>9 DEF Adding
<1>11. Released(ino[i], 0) = t[2]
  BY <1>3, ReleasedIs
<1>12. ASSUME NEW x \in DOMAIN at, at[x].own = i PROVE x \in Range(t[2])
  <2>1. PICK l \in Levels : x \in U(l)
    <3>1. AreSpots(at)
      BY ForestSpots, TypeParts
    <3>2. \E l \in Levels : x \in Under(at, at[x].own, l)
      BY <3>1, HangsUnder
    <3> QED
      BY <1>12, <3>2 DEF U
  <2>2. l = 0 \/ l = 1 \/ l = 2 \/ l = 3
    BY DEF Levels
  <2> QED
    BY <1>10, <2>1, <2>2
<1> QED
  BY <1>11, <1>12

-----------------------------------------------------------------------------
(* Every place is named: on disk, or soon.                                 *)
Whole(at, a, i, k, p) ==
    \A x \in DOMAIN at : at[x].own = i /\ at[x].lvl = k /\ at[x].up = p => Has(a, at, x)
InCore(at, fs, t, i) ==
    \A d \in 1 .. Len(fs) : Whole(at, fs[d].indblock, i, t - (d - 1), fs[d].target)

(* A block that is named by what an allocation has yet to write.           *)
NewTarget(fs, x) == \E d \in 2 .. Len(fs) : fs[d].new /\ fs[d].target = x
InStack(at, fs, t, i, x) ==
    \E d \in 1 .. Len(fs) : at[x].own = i /\ at[x].lvl = t - (d - 1) /\ at[x].up = fs[d].target
Later(at, x) ==
    \/ pc \in {"descend", "undo"} /\ NewTarget(frames, x)
    \/ pc = "unwind" /\ InStack(at, frames, top, self, x)
Seen(at) == \A x \in DOMAIN at : OnDisk(at, x) \/ Later(at, x)
Blank == \A d \in 2 .. Len(frames) : frames[d].new => content[frames[d].target] = EmptyArray

(* A block is free, in its place or about to be appended.                  *)
Accounted(at) ==
    /\ Blocks \subseteq free \union DOMAIN content
    /\ DOMAIN content \subseteq DOMAIN at \union (IF pc = "free_inode" THEN Range(todo) ELSE {})
InUse == /\ \A i \in linked : ino[i].in_use
         /\ pc = "free_inode" => self \notin linked
Tight(at) ==
    /\ Hung(at) /\ Accounted(at) /\ InUse /\ Seen(at)
    /\ pc \in {"descend", "unwind"} => InCore(at, frames, top, self)
    /\ pc \in {"descend", "undo"} => Blank
LostInv == failures = 0 /\ crashes = 0 => \E at : Placed(at) /\ Tight(at)

LEMMA WholeKept ==
    ASSUME NEW at, NEW at2, NEW a, NEW i, NEW k, NEW p, Whole(at, a, i, k, p),
           \A x \in DOMAIN at2 : at2[x].own = i /\ at2[x].lvl = k /\ at2[x].up = p =>
               x \in DOMAIN at /\ at2[x] = at[x]
    PROVE  Whole(at2, a, i, k, p)
  BY DEF Whole, Has

LEMMA CoreStore ==
    ASSUME NEW t \in Levels, NEW fs, IsStack(fs, t), NEW D \in 1 .. Len(fs), D = Len(fs),
           NEW i, NEW at, InCore(at, fs, t, i), DOMAIN at \subseteq Blocks,
           NEW e \in Nat, e < Width(t, D), fs[D].indblock[e + 1] = NoBlock,
           NEW b \in Blocks, b \notin DOMAIN at,
           NEW at2, at2 = Grown(at, b, Spot(i, t - (D - 1), fs[D].target, e + 1)),
           NEW gs, gs = Put(fs, D, e + 1, b)
    PROVE  InCore(at2, gs, t, i)
<1>1. /\ DOMAIN at2 = DOMAIN at \union {b}
      /\ at2[b] = Spot(i, t - (D - 1), fs[D].target, e + 1)
      /\ \A x \in DOMAIN at : at2[x] = at[x] /\ x # b
  <2>1. PICK spot : spot = Spot(i, t - (D - 1), fs[D].target, e + 1)
    OBVIOUS
  <2>2. at2 = Grown(at, b, spot)
    BY <2>1
  <2> QED
    BY <2>1, <2>2 DEF Grown
<1>2. IsPut(fs, gs, t, D, e + 1, b)
  <2>1. PICK n \in Nat, c \in Refs : n = e + 1 /\ c = b
    BY DEF Refs
  <2>2. gs = Put(fs, D, n, c)
    BY <2>1
  <2>3. IsPut(fs, gs, t, D, n, c)
    BY <2>2, PutIs
  <2> QED
    BY <2>1, <2>3
<1>3. /\ Len(gs) = Len(fs) /\ \A d \in 1 .. Len(fs) : d # D => gs[d] = fs[d]
      /\ gs[D].target = fs[D].target
      /\ \A s \in 1 .. Width(t, D) : gs[D].indblock[s] = IF s = e + 1 THEN b ELSE fs[D].indblock[s]
      /\ DOMAIN gs[D].indblock = 1 .. Width(t, D) /\ DOMAIN fs[D].indblock = 1 .. Width(t, D)
  <2>1. IsStack(gs, t) /\ Len(gs) = Len(fs)
    BY <1>2 DEF IsPut
  <2>2. DOMAIN gs[D].indblock = 1 .. Width(t, D) /\ DOMAIN fs[D].indblock = 1 .. Width(t, D)
    BY <2>1, StackArray
  <2> QED
    BY <1>2, <2>2 DEF IsPut
<1>4. at2[b].lvl = t - (D - 1) /\ at2[b].idx = e + 1
  BY <1>1 DEF Spot
<1>5. ASSUME NEW d \in 1 .. Len(fs), d # D
      PROVE  Whole(at2, gs[d].indblock, i, t - (d - 1), gs[d].target)
  <2>1. gs[d] = fs[d] /\ Whole(at, fs[d].indblock, i, t - (d - 1), fs[d].target)
    BY <1>3, <1>5 DEF InCore
  <2>2. t - (d - 1) # t - (D - 1)
    BY <1>5 DEF Levels
  <2>3. \A x \in DOMAIN at2 : at2[x].lvl = t - (d - 1) => x \in DOMAIN at /\ at2[x] = at[x]
    BY <1>1, <1>4, <2>2
  <2> QED
    BY <2>1, <2>3, WholeKept
<1>6. Whole(at2, gs[D].indblock, i, t - (D - 1), gs[D].target)
  <2> DEFINE k == t - (D - 1)
             q == fs[D].target
             a == fs[D].indblock
             c == gs[D].indblock
             n == Width(t, D)
  <2>1. Whole(at, a, i, k, q)
    BY DEF InCore
  <2>2. /\ gs[D].target = q /\ DOMAIN c = 1 .. n /\ DOMAIN a = 1 .. n
        /\ \A s \in 1 .. n : c[s] = IF s = e + 1 THEN b ELSE a[s]
    BY <1>3
  <2>3. e + 1 \in 1 .. n /\ a[e + 1] = NoBlock
    BY StackArray
  <2> HIDE DEF k, q, a, c, n
  <2> SUFFICES ASSUME NEW x \in DOMAIN at2, at2[x].own = i, at2[x].lvl = k, at2[x].up = q
               PROVE  Has(c, at2, x)
    BY <2>2 DEF Whole, k, c
  <2>4. CASE x = b
    BY <1>4, <2>2, <2>3, <2>4 DEF Has
  <2>5. CASE x # b
    <3>1. x \in DOMAIN at /\ at2[x] = at[x] /\ x # NoBlock
      BY <1>1, <2>5, Layout
    <3>2. at[x].idx \in 1 .. n /\ a[at[x].idx] = x
      BY <2>1, <2>2, <3>1 DEF Whole, Has
    <3>3. at[x].idx # e + 1
      BY <2>3, <3>1, <3>2
    <3> QED
      BY <2>2, <3>1, <3>2, <3>3 DEF Has
  <2> QED
    BY <2>4, <2>5
<1>7. ASSUME NEW d \in 1 .. Len(gs)
      PROVE  Whole(at2, gs[d].indblock, i, t - (d - 1), gs[d].target)
  BY <1>3, <1>5, <1>6
<1> QED
  BY <1>7 DEF InCore

LEMMA CorePush ==
    ASSUME NEW t \in Levels, NEW fs, IsStack(fs, t), Len(fs) >= 1, Len(fs) <= t,
           NEW i, NEW at, InCore(at, fs, t, i),
           NEW f \in Frame, f.indblock \in Array, Whole(at, f.indblock, i, t - Len(fs), f.target),
           NEW gs, gs = Append(fs, f)
    PROVE  InCore(at, gs, t, i)
<1>1. /\ Len(gs) = Len(fs) + 1 /\ gs[Len(gs)] = f /\ Len(fs) \in Nat
      /\ \A d \in 1 .. Len(fs) : gs[d] = fs[d]
  BY PushIs DEF IsStack
<1>2. ASSUME NEW d \in 1 .. Len(gs)
      PROVE  Whole(at, gs[d].indblock, i, t - (d - 1), gs[d].target)
  <2>1. CASE d = Len(gs)
    <3>1. d - 1 = Len(fs)
      BY <1>1, <2>1
    <3> QED
      BY <1>1, <2>1, <3>1
  <2>2. CASE d # Len(gs)
    <3>1. d \in 1 .. Len(fs)
      BY <1>1, <2>2
    <3> QED
      BY <1>1, <3>1 DEF InCore
  <2> QED
    BY <2>1, <2>2
<1> QED
  BY <1>2 DEF InCore

LEMMA CorePop ==
    ASSUME NEW t \in Levels, NEW fs, IsStack(fs, t), Len(fs) > 1, NEW i, NEW at,
           InCore(at, fs, t, i), NEW gs, gs = Front(fs)
    PROVE  InCore(at, gs, t, i)
<1>1. /\ Len(gs) = Len(fs) - 1 /\ \A d \in 1 .. Len(gs) : gs[d] = fs[d]
  <2>1. Len(fs) >= 1
    BY DEF IsStack
  <2>2. IsFront(fs, gs, t)
    BY <2>1, PopIs
  <2> QED
    BY <2>2 DEF IsFront
<1>2. Len(fs) \in Nat
  BY DEF IsStack
<1>3. ASSUME NEW d \in 1 .. Len(gs)
      PROVE  Whole(at, gs[d].indblock, i, t - (d - 1), gs[d].target)
  BY <1>1, <1>2 DEF InCore
<1> QED
  BY <1>3 DEF InCore

LEMMA OnDiskKept ==
    ASSUME NEW at, NEW at2, NEW x, OnDisk(at, x), at2[x] = at[x],
           ino'[at[x].own].blocks = ino[at[x].own].blocks,
           at[x].up # NoBlock => content'[at[x].up] = content[at[x].up]
    PROVE  OnDisk(at2, x)'
<1>1. DiskArray(at2, x)' = DiskArray(at, x)
  BY DEF DiskArray
<1>2. Has(DiskArray(at2, x)', at2, x)
  BY <1>1 DEF OnDisk, Has
<1> QED
  BY <1>2 DEF OnDisk

LEMMA HungNext ==
    ASSUME NEW at, Hung(at), linked \subseteq linked'
    PROVE  Hung(at)'
  BY DEF Hung, Hangs

(* Nothing that runs has a place to name.                                  *)
LEMMA TightStops ==
    ASSUME NEW at, Hung(at)', Accounted(at)', InUse', AllOnDisk(at)',
           pc' \in {"idle", "free_inode"}
    PROVE  Tight(at)'
<1>1. Seen(at)'
  BY DEF AllOnDisk, Seen
<1> QED
  BY <1>1 DEF Tight

LEMMA TightRuns ==
    ASSUME NEW at, Tight(at), pc \in {"idle", "free_inode"}
    PROVE  AllOnDisk(at)
  BY DEF Tight, Seen, Later, AllOnDisk

LEMMA TightCreate ==
    ASSUME TypeInv, TypeInv', NEW at, Placed(at), Tight(at), NEW i \in Inodes, Create(i)
    PROVE  Tight(at)'
<1>1. /\ pc = "idle" /\ pc' = "idle" /\ UNCHANGED <<free, content>> /\ linked' = linked \union {i}
      /\ ino' = [ino EXCEPT ![i] = [FreshInode(i) EXCEPT !.in_use = TRUE]] /\ ~ino[i].in_use
      /\ Hung(at) /\ Accounted(at) /\ InUse
  BY DEF Create, Tight, pool, Rest, Idle
<1>2. i \notin linked
  BY <1>1 DEF InUse
<1>3. /\ \A j \in linked : ino'[j] = ino[j] /\ j # i
      /\ ino'[i].in_use
  <2>1. linked \subseteq Inodes /\ DOMAIN ino = Inodes
    BY TypeParts DEF InodesType
  <2>2. ino'[i].in_use
    <3>1. ino'[i] = [FreshInode(i) EXCEPT !.in_use = TRUE]
      BY <1>1, <2>1
    <3> QED
      BY <3>1 DEF FreshInode
  <2> QED
    BY <1>1, <1>2, <2>1, <2>2
<1>4. Hung(at)'
  BY <1>1, HungNext
<1>5. Accounted(at)'
  BY <1>1 DEF Accounted
<1>6. InUse'
  BY <1>1, <1>3 DEF InUse
<1>7. AllOnDisk(at)'
  <2> SUFFICES ASSUME NEW x \in DOMAIN at PROVE OnDisk(at, x)'
    BY DEF AllOnDisk
  <2>1. OnDisk(at, x)
    BY <1>1, TightRuns DEF AllOnDisk
  <2>2. at[x].own \in linked
    BY <1>1 DEF Hung, Hangs
  <2> QED
    BY <1>1, <1>3, <2>1, <2>2, OnDiskKept
<1> QED
  BY <1>1, <1>4, <1>5, <1>6, <1>7, TightStops

LEMMA TightFreeInode ==
    ASSUME TypeInv, TypeInv', NEW at, Placed(at), Tight(at), FreeInode
    PROVE  Tight(at)'
<1>1. /\ pc = "free_inode" /\ pc' = "idle" /\ todo = <<>> /\ UNCHANGED <<free, content, linked>>
      /\ ino' = [ino EXCEPT ![self] = FreshInode(self)]
      /\ Hung(at) /\ Accounted(at) /\ InUse
  BY DEF FreeInode, Tight, pool, Rest
<1>2. \A j \in linked : ino'[j] = ino[j]
  <2>1. linked \subseteq Inodes /\ DOMAIN ino = Inodes /\ self \notin linked
    BY <1>1, TypeParts DEF InodesType, InUse
  <2> QED
    BY <1>1, <2>1
<1>3. Accounted(at)'
  <2>1. Range(todo) = {}
    BY <1>1 DEF Range
  <2> QED
    BY <1>1, <2>1 DEF Accounted
<1>4. Hung(at)' /\ InUse'
  BY <1>1, <1>2, HungNext DEF InUse
<1>5. AllOnDisk(at)'
  <2> SUFFICES ASSUME NEW x \in DOMAIN at PROVE OnDisk(at, x)'
    BY DEF AllOnDisk
  <2>1. OnDisk(at, x)
    BY <1>1, TightRuns DEF AllOnDisk
  <2>2. at[x].own \in linked
    BY <1>1 DEF Hung, Hangs
  <2> QED
    BY <1>1, <1>2, <2>1, <2>2, OnDiskKept
<1> QED
  BY <1>1, <1>3, <1>4, <1>5, TightStops

LEMMA TailRange ==
    ASSUME NEW s \in Seq(Blocks), s # <<>>
    PROVE  Range(s) = {Head(s)} \union Range(Tail(s))
<1>1. /\ Len(s) \in Nat /\ Len(s) >= 1 /\ DOMAIN s = 1 .. Len(s) /\ Head(s) = s[1]
      /\ DOMAIN Tail(s) = 1 .. Len(s) - 1 /\ \A k \in 1 .. Len(s) - 1 : Tail(s)[k] = s[k + 1]
  OBVIOUS
<1>2. ASSUME NEW k \in 1 .. Len(s) PROVE s[k] \in {Head(s)} \union Range(Tail(s))
  <2>1. CASE k = 1
    BY <1>1, <2>1
  <2>2. CASE k # 1
    <3>1. PICK j \in 1 .. Len(s) - 1 : j + 1 = k
      <4>1. k - 1 \in 1 .. Len(s) - 1 /\ (k - 1) + 1 = k
        BY <1>1, <2>2
      <4> QED
        BY <4>1
    <3>2. s[k] = Tail(s)[j]
      BY <1>1, <3>1
    <3> QED
      BY <1>1, <3>2 DEF Range
  <2> QED
    BY <2>1, <2>2
<1>3. Head(s) \in Range(s)
  <2>1. 1 \in DOMAIN s
    BY <1>1
  <2> QED
    BY <1>1, <2>1 DEF Range
<1>4. ASSUME NEW k \in 1 .. Len(s) - 1 PROVE Tail(s)[k] \in Range(s)
  <2>1. k + 1 \in DOMAIN s /\ Tail(s)[k] = s[k + 1]
    BY <1>1
  <2> QED
    BY <2>1 DEF Range
<1> QED
  BY <1>1, <1>2, <1>3, <1>4 DEF Range

LEMMA TightAppendNext ==
    ASSUME TypeInv, TypeInv', NEW at, Placed(at), Tight(at), AppendNext
    PROVE  Tight(at)'
<1>1. /\ pc = "free_inode" /\ pc' = "free_inode" /\ todo # <<>> /\ Pool!Release(Head(todo))
      /\ todo' = Tail(todo) /\ UNCHANGED <<ino, linked, buf>>
      /\ Forest(at) /\ Range(todo) \intersect DOMAIN at = {}
      /\ todo \in Seq(Blocks)
      /\ Hung(at) /\ Accounted(at) /\ InUse
  BY TypeParts DEF AppendNext, Placed, Loose, Changing, Tight
<1>2. PICK b : b = Head(todo)
  OBVIOUS
<1>3. /\ DOMAIN content' = DOMAIN content \ {b}
      /\ free' = free \union {b}
      /\ \A c \in DOMAIN content : c # b => content'[c] = content[c]
  BY <1>1, <1>2, ReleaseType, TypeParts
<1>4. Range(todo) = {b} \union Range(todo')
  BY <1>1, <1>2, TailRange
<1>5. Accounted(at)'
  <2>1. Blocks \subseteq free' \union DOMAIN content'
    BY <1>1, <1>3 DEF Accounted
  <2>2. DOMAIN content' \subseteq DOMAIN at \union Range(todo')
    BY <1>1, <1>3, <1>4 DEF Accounted
  <2> QED
    BY <1>1, <2>1, <2>2 DEF Accounted
<1>6. Hung(at)' /\ InUse'
  BY <1>1, HungNext DEF InUse, self
<1>7. AllOnDisk(at)'
  <2> SUFFICES ASSUME NEW x \in DOMAIN at PROVE OnDisk(at, x)'
    BY DEF AllOnDisk
  <2>1. OnDisk(at, x)
    BY <1>1, TightRuns DEF AllOnDisk
  <2>2. at[x].up # NoBlock => content'[at[x].up] = content[at[x].up]
    <3> SUFFICES ASSUME at[x].up # NoBlock PROVE content'[at[x].up] = content[at[x].up]
      OBVIOUS
    <3>1. at[x].up \in DOMAIN at
      BY <1>1 DEF Hung, Hangs
    <3>2. at[x].up \in DOMAIN content /\ at[x].up # b
      BY <1>1, <1>4, <3>1 DEF Forest
    <3> QED
      BY <1>3, <3>2
  <2> QED
    BY <1>1, <2>1, <2>2, OnDiskKept
<1> QED
  BY <1>1, <1>5, <1>6, <1>7, TightStops

LEMMA DoubleFirst ==
    ASSUME TypeInv, NEW w, InodesSized(w), pc = "idle", NEW i \in linked
    PROVE  ino[i].blocks[3][1] # NoBlock => ino[i].blocks[2][1] # NoBlock
<1>1. ASSUME NEW k \in {2, 3} PROVE ino[i].blocks[k][1] # NoBlock <=> 0 < ino[i].n_blocks - Limit(k)
  <2>1. PICK a, m : a = ino[i].blocks[k] /\ m = ino[i].n_blocks - Limit(k)
    OBVIOUS
  <2>2. k \in Levels
    BY DEF Levels
  <2>3. Slots(a, k, m)
    BY <2>1, <2>2 DEF InodesSized, Filled
  <2>4. 1 \in DOMAIN a
    <3>1. IsInode(ino[i])
      BY TypeParts DEF InodesType
    <3>2. a \in [1 .. Pointers(k) -> Refs]
      BY <2>1, <2>2, <3>1 DEF IsInode
    <3> QED
      BY <2>2, <3>2, Layout
  <2>5. (1 - 1) * Span(k) = 0
    <3>1. Span(k) \in Nat
      BY <2>2, LimitsAre
    <3> QED
      BY <3>1
  <2> QED
    BY <2>1, <2>3, <2>4, <2>5 DEF Slots
<1>2. Limit(2) \in Nat /\ Limit(3) \in Nat /\ Limit(2) <= Limit(3)
  <2>1. 2 \in Levels
    BY DEF Levels
  <2>2. Limit(2 + 1) = Limit(2) + Pointers(2) * Span(2) /\ Pointers(2) * Span(2) \in Nat
    BY <2>1, LimitsAre
  <2>3. Limit(2) \in Nat /\ Limit(3) \in Nat
    BY LimitsAre
  <2>4. PICK y \in Nat : y = Pointers(2) * Span(2)
    BY <2>2
  <2>5. Limit(3) = Limit(2) + y
    BY <2>2, <2>4
  <2> QED
    BY <2>3, <2>5
<1>3. ino[i].n_blocks \in Nat
  <2>1. IsInode(ino[i])
    BY TypeParts DEF InodesType
  <2>2. ino[i].n_blocks \in 0 .. Limit(4) /\ Limit(4) \in Nat
    BY <2>1, LimitsAre DEF IsInode, InodeRecord
  <2> QED
    BY <2>2
<1> QED
  BY <1>1, <1>2, <1>3

LEMMA TightUnlink ==
    ASSUME N2Indirect = 1, N3Indirect = 1, TypeInv, TypeInv',
           NEW at, Placed(at), Tight(at), NEW w, InodesSized(w),
           NEW i \in Inodes, Unlink(i), NEW t, t = Keeping(at, i)
    PROVE  Tight(t)'
<1>1. /\ pc = "idle" /\ pc' = "free_inode" /\ UNCHANGED <<free, content, ino>> /\ i \in linked
      /\ linked' = linked \ {i} /\ todo' = Released(ino[i], 0)
      /\ buf' = AfterRelease(ino[i], 0)
      /\ Forest(at) /\ Hung(at) /\ Accounted(at) /\ InUse
  BY DEF Unlink, ReleaseStart, Placed, pool, Tight, Idle
<1>2. /\ DOMAIN t = {y \in DOMAIN at : at[y].own # i}
      /\ \A x \in DOMAIN t : t[x] = at[x]
  BY DEF Keeping
<1>3. AllOnDisk(at)
  BY <1>1, TightRuns
<1>4. {x \in DOMAIN at : at[x].own = i} \subseteq Range(todo')
  <2>1. ino[i].blocks[3][1] # NoBlock => ino[i].blocks[2][1] # NoBlock
    BY <1>1, DoubleFirst
  <2> QED
    BY <1>1, <1>3, <2>1, ReleasedAll
<1>5. Accounted(t)'
  <2>1. DOMAIN content' \subseteq DOMAIN t \union Range(todo')
    BY <1>1, <1>2, <1>4 DEF Accounted
  <2> QED
    BY <1>1, <2>1 DEF Accounted
<1>6. Hung(t)'
  <2> SUFFICES ASSUME NEW x \in DOMAIN t PROVE Hangs(t, x)'
    BY DEF Hung
  <2>1. x \in DOMAIN at /\ t[x] = at[x] /\ at[x].own # i
    BY <1>2
  <2>2. Hangs(at, x)
    BY <1>1, <2>1 DEF Hung
  <2> QED
    BY <1>1, <1>2, <2>1, <2>2 DEF Hangs
<1>7. InUse'
  <2>1. self' = i
    BY <1>1, TypeParts DEF self, AfterRelease, InodesType
  <2> QED
    BY <1>1, <2>1 DEF InUse
<1>8. AllOnDisk(t)'
  <2> SUFFICES ASSUME NEW x \in DOMAIN t PROVE OnDisk(t, x)'
    BY DEF AllOnDisk
  <2>1. x \in DOMAIN at /\ t[x] = at[x]
    BY <1>2
  <2>2. OnDisk(at, x)
    BY <1>3, <2>1 DEF AllOnDisk
  <2> QED
    BY <1>1, <2>1, <2>2, OnDiskKept
<1> QED
  BY <1>1, <1>5, <1>6, <1>7, <1>8, TightStops

LEMMA TightAllocStart ==
    ASSUME TypeInv, TypeInv', NEW at, Placed(at), Tight(at), NEW i \in Inodes, AllocStart(i)
    PROVE  Tight(at)'
<1>1. /\ pc = "idle" /\ UNCHANGED <<free, content, ino, linked, todo>> /\ i \in linked
      /\ buf' = ino[i] /\ Forest(at) /\ Hung(at) /\ Accounted(at) /\ InUse
  BY DEF AllocStart, Placed, pool, Idle, Tight
<1>2. AllOnDisk(at)
  BY <1>1, TightRuns
<1>3. AllOnDisk(at)'
  <2> SUFFICES ASSUME NEW x \in DOMAIN at PROVE OnDisk(at, x)'
    BY DEF AllOnDisk
  <2> QED
    BY <1>1, <1>2, OnDiskKept DEF AllOnDisk
<1>4. Hung(at)'
  BY <1>1, HungNext
<1>5. CASE ino[i].n_blocks < Limit(4)
  <2>1. /\ top' = LevelOf(ino[i].n_blocks) /\ pc' = "descend"
        /\ frames' = <<[target |-> NoBlock, new |-> FALSE, indblock |-> ino[i].blocks[top']]>>
    BY <1>5 DEF AllocStart
  <2>11. PICK gs : gs = frames'
    OBVIOUS
  <2>12. PICK t \in Levels : t = top'
    BY DEF TypeInv
  <2>2. t = top' /\ gs = frames'
    BY <2>11, <2>12
  <2> DEFINE f == [target |-> NoBlock, new |-> FALSE, indblock |-> ino[i].blocks[t]]
  <2>3. f.target = NoBlock /\ f.indblock = ino[i].blocks[t]
    OBVIOUS
  <2>4. gs = <<f>>
    BY <2>1, <2>2
  <2> HIDE DEF f
  <2>5. Len(gs) = 1 /\ gs[1] = f
    BY <2>4
  <2>6. Whole(at, ino[i].blocks[t], i, t, NoBlock)
    BY <1>2 DEF AllOnDisk, OnDisk, DiskArray, Whole
  <2>7. InCore(at, gs, t, i)
    <3> SUFFICES ASSUME NEW d \in 1 .. Len(gs)
                 PROVE  Whole(at, gs[d].indblock, i, t - (d - 1), gs[d].target)
      BY DEF InCore
    <3>1. d = 1 /\ t - (d - 1) = t
      BY <2>5 DEF Levels
    <3> QED
      BY <2>3, <2>5, <2>6, <3>1
  <2>8. self' = i
    BY <1>1, TypeParts DEF self, InodesType
  <2>9. Blank'
    <3>1. 2 .. Len(frames') = {}
      BY <2>2, <2>5
    <3> QED
      BY <3>1 DEF Blank
  <2>10. Accounted(at)' /\ InUse' /\ Seen(at)'
    BY <1>1, <1>3, <2>1 DEF Accounted, InUse, Seen, AllOnDisk
  <2> QED
    BY <1>4, <2>2, <2>7, <2>8, <2>9, <2>10 DEF Tight
<1>6. CASE ~(ino[i].n_blocks < Limit(4))
  <2>1. pc' = "idle"
    BY <1>1, <1>6 DEF AllocStart
  <2>2. Accounted(at)' /\ InUse'
    BY <1>1, <2>1 DEF Accounted, InUse
  <2> QED
    BY <1>3, <1>4, <2>1, <2>2, TightStops
<1> QED
  BY <1>5, <1>6

LEMMA TightPopFails ==
    ASSUME TypeInv, TypeInv', NEW at, Placed(at), Tight(at), PopFails
    PROVE  Tight(at)'
<1>1. /\ pc = "descend" /\ pc' = "undo"
      /\ UNCHANGED <<free, content, ino, linked, buf, top, frames, todo>>
      /\ Hung(at) /\ Accounted(at) /\ InUse /\ Seen(at) /\ Blank
  BY DEF PopFails, alloc, pool, Tight
<1>2. Hung(at)' /\ Accounted(at)' /\ InUse' /\ Blank'
  BY <1>1, HungNext DEF Accounted, InUse, Blank
<1>3. Seen(at)'
  <2> SUFFICES ASSUME NEW x \in DOMAIN at PROVE OnDisk(at, x)' \/ Later(at, x)'
    BY DEF Seen
  <2>1. CASE OnDisk(at, x)
    BY <1>1, <2>1, OnDiskKept
  <2>2. CASE Later(at, x)
    BY <1>1, <2>2 DEF Later
  <2> QED
    BY <1>1, <2>1, <2>2 DEF Seen
<1> QED
  BY <1>1, <1>2, <1>3 DEF Tight

LEMMA TightAllocFails ==
    ASSUME TypeInv, TypeInv', NEW at, Placed(at), Tight(at), AllocFails
    PROVE  Tight(at)'
<1>1. /\ pc = "undo" /\ pc' = "idle" /\ Depth = 1
      /\ UNCHANGED <<free, content, ino, linked>>
      /\ Hung(at) /\ Accounted(at) /\ InUse /\ Seen(at)
  BY DEF AllocFails, pool, Tight
<1>2. Hung(at)' /\ Accounted(at)' /\ InUse'
  BY <1>1, HungNext DEF Accounted, InUse
<1>3. AllOnDisk(at)'
  <2> SUFFICES ASSUME NEW x \in DOMAIN at PROVE OnDisk(at, x)'
    BY DEF AllOnDisk
  <2>1. ~Later(at, x)
    <3>1. 2 .. Len(frames) = {}
      BY <1>1 DEF Depth
    <3> QED
      BY <1>1, <3>1 DEF Later, NewTarget
  <2>2. OnDisk(at, x)
    BY <1>1, <2>1 DEF Seen
  <2> QED
    BY <1>1, <2>2, OnDiskKept
<1> QED
  BY <1>1, <1>2, <1>3, TightStops

(* A block popped for the next place.                                      *)
LEMMA HungGrown ==
    ASSUME TypeInv, NEW at, Placed(at), Hung(at), pc = "descend", NEW b, b \notin DOMAIN at,
           linked' = linked, NEW t, t = Grown(at, b, NextSpot)
    PROVE  Hung(t)'
<1>1. pc \in Working
  BY DEF Working
<1>2. /\ self \in linked /\ top \in Levels /\ IsStack(frames, top)
      /\ StackRight(at, frames, top, self)
      /\ Depth \in 1 .. Len(frames) /\ Depth = Len(frames) /\ Depth \in Nat
      /\ level = top - (Depth - 1) /\ level \in Levels
  BY <1>1, WorkingIs DEF Placed
<1>3. PICK p, D, spot : p = frames[Depth].target /\ D = Depth /\ spot = NextSpot
  OBVIOUS
<1>4. spot.own = self /\ spot.lvl = level /\ spot.up = p
  BY <1>3 DEF NextSpot, Spot
<1>5. p # NoBlock => p \in DOMAIN at /\ at[p].own = self /\ at[p].lvl = level + 1
  <2> SUFFICES ASSUME p # NoBlock PROVE p \in DOMAIN at /\ at[p].own = self /\ at[p].lvl = level + 1
    OBVIOUS
  <2>1. D # 1
    BY <1>2, <1>3 DEF StackRight
  <2>2. D \in 2 .. Len(frames)
    BY <1>2, <1>3, <2>1
  <2>3. IsTarget(at, frames, top, self, D)
    BY <1>2, <2>2, TargetIs
  <2>4. p \in DOMAIN at /\ at[p] = Spot(self, top - (D - 2), frames[D - 1].target,
                                        Len(Entries(frames[D - 1].indblock)))
    BY <1>3, <2>3 DEF IsTarget
  <2>5. top - (D - 2) = level + 1
    BY <1>2, <1>3 DEF Levels
  <2> QED
    BY <2>4, <2>5 DEF Spot
<1>6. /\ DOMAIN t = DOMAIN at \union {b} /\ t[b] = spot
      /\ \A x \in DOMAIN at : t[x] = at[x] /\ x # b
  BY <1>3 DEF Grown
<1>7. ASSUME NEW x \in DOMAIN t PROVE Hangs(t, x)'
  <2>1. CASE x = b
    BY <1>2, <1>4, <1>5, <1>6, <2>1 DEF Hangs
  <2>2. CASE x # b
    BY <1>6, <2>2 DEF Hung, Hangs
  <2> QED
    BY <2>1, <2>2
<1> QED
  BY <1>7 DEF Hung

LEMMA AccountedGrown ==
    ASSUME TypeInv, NEW at, Accounted(at), pc # "free_inode", NEW b, PoppedFor(at, b),
           NEW c \in Poppable, Pool!Alloc(c), NEW t, DOMAIN t = DOMAIN at \union {b}
    PROVE  Accounted(t)'
<1>1. c \in Blocks
  BY PoppableIs, TypeParts
<1>2. DOMAIN content' = DOMAIN content \union {c} /\ free' = free \ {c}
  BY <1>1, AllocType, TypeParts
<1>3. DOMAIN content \subseteq DOMAIN at /\ Blocks \subseteq free \union DOMAIN content
  BY DEF Accounted
<1>4. b = c
  BY <1>2, <1>3 DEF PoppedFor
<1> QED
  BY <1>2, <1>3, <1>4 DEF Accounted

LEMMA DiskGrown ==
    ASSUME NEW at, Hung(at), NEW b, PoppedFor(at, b), NEW t, NEW x \in DOMAIN at, t[x] = at[x],
           OnDisk(at, x)
    PROVE  OnDisk(t, x)'
<1>1. at[x].up # NoBlock => content'[at[x].up] = content[at[x].up]
  BY DEF Hung, Hangs, PoppedFor
<1>2. ino'[at[x].own].blocks = ino[at[x].own].blocks
  BY DEF PoppedFor
<1> QED
  BY <1>1, <1>2, OnDiskKept

(* The stack once the block is stored.                                     *)
StoredFor(at, t, b, gs) ==
    /\ InCore(t, gs, top, self)
    /\ IsStack(gs, top) /\ Len(gs) = Len(frames)
    /\ \A d \in 1 .. Len(frames) : gs[d].target = frames[d].target /\ gs[d].new = frames[d].new

LEMMA CoreGrown ==
    ASSUME TypeInv, NEW at, Placed(at), InCore(at, frames, top, self), pc = "descend",
           NEW b, PoppedFor(at, b), first_unused < Len(blocks),
           NEW t, t = Grown(at, b, NextSpot), NEW gs, gs = Stored(b)
    PROVE  StoredFor(at, t, b, gs)
<1>1. pc \in Working
  BY DEF Working
<1>2. /\ top \in Levels /\ IsStack(frames, top)
      /\ Depth \in 1 .. Len(frames) /\ Depth = Len(frames)
      /\ level = top - (Depth - 1)
      /\ blocks = frames[Depth].indblock /\ first_unused \in Nat
      /\ \A s \in 1 .. Width(top, Depth) : blocks[s] = NoBlock <=> s > first_unused
      /\ Len(blocks) = Width(top, Depth)
  BY <1>1, WorkingIs DEF Placed
<1>3. b \in Blocks /\ b \notin DOMAIN at /\ DOMAIN at \subseteq Blocks /\ b \in Refs
  BY ForestSpots, TypeParts DEF PoppedFor, Placed, AreSpots, Refs
<1>4. PICK D \in 1 .. Len(frames), e \in Nat : D = Depth /\ e = first_unused
  BY <1>2
<1>5. PICK us : us = Put(frames, D, e + 1, b)
  OBVIOUS
<1>6. us = gs
  BY <1>4, <1>5 DEF Put, Stored
<1>7. t = Grown(at, b, Spot(self, top - (D - 1), frames[D].target, e + 1))
  BY <1>2, <1>4 DEF NextSpot
<1>8. e < Width(top, D) /\ frames[D].indblock[e + 1] = NoBlock
  <2>1. e < Width(top, D)
    BY <1>2, <1>4
  <2>2. e + 1 \in 1 .. Width(top, D) /\ e + 1 > e
    BY <1>2, <1>4, <2>1, StackArray
  <2> QED
    BY <1>2, <1>4, <2>1, <2>2
<1>9. InCore(t, us, top, self)
  BY <1>2, <1>3, <1>4, <1>5, <1>7, <1>8, CoreStore
<1>10. IsPut(frames, us, top, D, e + 1, b)
  <2>1. PICK n \in Nat, c \in Refs : n = e + 1 /\ c = b
    BY <1>3
  <2>2. us = Put(frames, D, n, c)
    BY <1>5, <2>1
  <2>3. IsPut(frames, us, top, D, n, c)
    BY <1>2, <2>2, PutIs
  <2> QED
    BY <2>1, <2>3
<1>11. \A d \in 1 .. Len(frames) : us[d].target = frames[d].target /\ us[d].new = frames[d].new
  BY <1>10 DEF IsPut
<1> QED
  BY <1>6, <1>9, <1>10, <1>11 DEF IsPut, StoredFor

LEMMA TightNewIndirect ==
    ASSUME TypeInv, TypeInv', NEW at, Placed(at), Tight(at), NewIndirect,
           NEW b, PoppedFor(at, b), first_unused < Len(blocks),
           frames' = Append(Stored(b), NewFrame(b)),
           NEW t, t = Grown(at, b, NextSpot)
    PROVE  Tight(t)'
<1>1. pc = "descend" /\ level > 0 /\ pc \in Working /\ pc \in Allocating
  BY DEF NewIndirect, Working, Allocating
<1>2. PICK c \in Poppable : Pool!Alloc(c) /\ pc' = "descend"
  BY <1>1 DEF NewIndirect
<1>3. /\ UNCHANGED <<ino, linked, buf, top>>
      /\ Hung(at) /\ Accounted(at) /\ InUse /\ Seen(at) /\ InCore(at, frames, top, self) /\ Blank
  BY <1>1 DEF NewIndirect, Tight
<1>4. /\ top \in Levels /\ IsStack(frames, top) /\ Depth = Len(frames) /\ Depth \in Nat
      /\ StackRight(at, frames, top, self) /\ self' = self /\ 1 <= Depth /\ Depth <= top
      /\ level = top - (Depth - 1)
  BY <1>1, <1>3, WorkingIs, RoomBelow DEF Placed, self
<1>5. b \in Blocks /\ b \notin DOMAIN at /\ b # NoBlock
  BY Layout DEF PoppedFor
<1>6. PICK gs, fs, spot : gs = Stored(b) /\ fs = frames' /\ spot = NextSpot
  OBVIOUS
<1>7. /\ InCore(t, gs, top, self) /\ IsStack(gs, top) /\ Len(gs) = Depth /\ Depth <= top
      /\ \A d \in 1 .. Depth : gs[d].target = frames[d].target /\ gs[d].new = frames[d].new
  BY <1>1, <1>3, <1>4, <1>6, CoreGrown DEF StoredFor
<1>8. /\ DOMAIN t = DOMAIN at \union {b} /\ t[b] = spot
      /\ \A x \in DOMAIN at : t[x] = at[x] /\ x # b
  BY <1>5, <1>6 DEF Grown
<1>9. spot.up = frames[Depth].target
  BY <1>6 DEF NextSpot, Spot
<1> DEFINE f == [target |-> b, new |-> TRUE, indblock |-> EmptyArray]
<1>10. f \in Frame /\ f.indblock \in Array /\ f.target = b /\ f.new = TRUE
  <2>1. b \in Refs
    BY <1>5 DEF Refs
  <2> QED
    BY <2>1, EmptyIs, FrameIs
<1>11. fs = Append(gs, f)
  BY <1>6
<1> HIDE DEF f
<1>12. \A d \in 2 .. Depth : frames[d].target \in DOMAIN at
  BY <1>4, TargetIs DEF IsTarget
<1>13. InCore(t, fs, top, self)
  <2>1. \A x \in DOMAIN t : t[x].up # b
    <3>1. ASSUME NEW x \in DOMAIN at PROVE at[x].up # b
      BY <1>3, <1>5 DEF Hung, Hangs
    <3>2. frames[Depth].target # b
      <4>1. CASE Depth = 1
        BY <1>4, <1>5, <4>1 DEF StackRight
      <4>2. CASE Depth # 1
        BY <1>4, <1>5, <1>12, <4>2
      <4> QED
        BY <4>1, <4>2
    <3> QED
      BY <1>8, <1>9, <3>1, <3>2
  <2>2. Whole(t, f.indblock, self, top - Len(gs), f.target)
    BY <1>10, <2>1 DEF Whole
  <2> QED
    BY <1>4, <1>7, <1>10, <1>11, <2>2, CorePush
<1>14. /\ Len(fs) = Depth + 1 /\ fs[Depth + 1] = f /\ \A d \in 1 .. Depth : fs[d] = gs[d]
  BY <1>4, <1>7, <1>10, <1>11 DEF IsStack
<1>15. Blank'
  <2> SUFFICES ASSUME NEW d \in 2 .. Len(fs), fs[d].new PROVE content'[fs[d].target] = EmptyArray
    BY <1>6 DEF Blank
  <2>1. CASE d = Depth + 1
    BY <1>10, <1>14, <2>1 DEF PoppedFor
  <2>2. CASE d # Depth + 1
    <3>1. d \in 2 .. Depth /\ d \in 1 .. Depth /\ d \in 2 .. Len(frames)
      BY <1>4, <1>14, <2>2
    <3>2. fs[d].target = frames[d].target /\ frames[d].new
      BY <1>7, <1>14, <3>1
    <3>3. content[frames[d].target] = EmptyArray
      BY <1>3, <3>1, <3>2 DEF Blank
    <3> QED
      BY <1>12, <3>1, <3>2, <3>3 DEF PoppedFor
  <2> QED
    BY <2>1, <2>2
<1>16. Seen(t)'
  <2> SUFFICES ASSUME NEW x \in DOMAIN t PROVE OnDisk(t, x)' \/ NewTarget(fs, x)
    BY <1>2, <1>6 DEF Seen, Later
  <2>1. CASE x = b
    <3>1. Depth + 1 \in 2 .. Len(fs) /\ fs[Depth + 1].new /\ fs[Depth + 1].target = x
      BY <1>4, <1>10, <1>14, <2>1
    <3> QED
      BY <3>1 DEF NewTarget
  <2>2. CASE x # b
    <3>1. x \in DOMAIN at /\ t[x] = at[x]
      BY <1>8, <2>2
    <3>2. CASE OnDisk(at, x)
      BY <1>3, <3>1, <3>2, DiskGrown
    <3>3. CASE ~OnDisk(at, x)
      <4>1. PICK d \in 2 .. Len(frames) : frames[d].new /\ frames[d].target = x
        BY <1>1, <1>3, <3>1, <3>3 DEF Seen, Later, NewTarget
      <4>2. d \in 2 .. Len(fs) /\ d \in 1 .. Depth
        BY <1>4, <1>14
      <4>3. fs[d].new /\ fs[d].target = x
        BY <1>7, <1>14, <4>1, <4>2
      <4> QED
        BY <4>2, <4>3 DEF NewTarget
    <3> QED
      BY <3>2, <3>3
  <2> QED
    BY <2>1, <2>2
<1>17. Hung(t)' /\ Accounted(t)' /\ InUse'
  <2>1. Hung(t)'
    BY <1>1, <1>3, <1>5, HungGrown
  <2>2. Accounted(t)'
    BY <1>1, <1>2, <1>3, <1>8, AccountedGrown
  <2> QED
    BY <1>2, <1>3, <2>1, <2>2 DEF InUse
<1> QED
  BY <1>2, <1>3, <1>4, <1>6, <1>13, <1>15, <1>16, <1>17 DEF Tight

LEMMA TightNewDirect ==
    ASSUME TypeInv, TypeInv', NEW at, Placed(at), Tight(at), NewDirect,
           NEW b, PoppedFor(at, b), first_unused < Len(blocks), frames' = Stored(b),
           NEW t, t = Grown(at, b, NextSpot)
    PROVE  Tight(t)'
<1>1. pc = "descend" /\ pc \in Working
  BY DEF NewDirect, Working
<1>2. PICK c \in Poppable : Pool!Alloc(c) /\ pc' = "unwind"
  BY DEF NewDirect
<1>3. /\ UNCHANGED <<ino, linked, buf, top>>
      /\ Hung(at) /\ Accounted(at) /\ InUse /\ Seen(at) /\ InCore(at, frames, top, self)
  BY <1>1 DEF NewDirect, Tight
<1>4. /\ top \in Levels /\ IsStack(frames, top) /\ Depth = Len(frames) /\ Depth \in Nat
      /\ Depth \in 1 .. Len(frames) /\ level = top - (Depth - 1)
      /\ StackRight(at, frames, top, self) /\ self' = self
  BY <1>1, <1>3, WorkingIs DEF Placed, self
<1>5. b \in Blocks /\ b \notin DOMAIN at
  BY DEF PoppedFor
<1>6. PICK gs, spot : gs = Stored(b) /\ spot = NextSpot
  OBVIOUS
<1>7. /\ InCore(t, gs, top, self) /\ Len(gs) = Len(frames)
      /\ \A d \in 1 .. Len(frames) : gs[d].target = frames[d].target /\ gs[d].new = frames[d].new
  BY <1>1, <1>3, <1>6, CoreGrown DEF StoredFor
<1>8. /\ DOMAIN t = DOMAIN at \union {b} /\ t[b] = spot
      /\ \A x \in DOMAIN at : t[x] = at[x] /\ x # b
  BY <1>5, <1>6 DEF Grown
<1>9. spot.own = self /\ spot.lvl = top - (Depth - 1) /\ spot.up = frames[Depth].target
  BY <1>4, <1>6 DEF NextSpot, Spot
<1>10. Seen(t)'
  <2> SUFFICES ASSUME NEW x \in DOMAIN t PROVE OnDisk(t, x)' \/ InStack(t, gs, top, self, x)
    BY <1>2, <1>3, <1>4, <1>6 DEF Seen, Later
  <2>1. CASE x = b
    <3>1. /\ Depth \in 1 .. Len(gs) /\ t[x].own = self /\ t[x].lvl = top - (Depth - 1)
          /\ t[x].up = gs[Depth].target
      BY <1>4, <1>7, <1>8, <1>9, <2>1
    <3> QED
      BY <3>1 DEF InStack
  <2>2. CASE x # b
    <3>1. x \in DOMAIN at /\ t[x] = at[x]
      BY <1>8, <2>2
    <3>2. CASE OnDisk(at, x)
      BY <1>3, <3>1, <3>2, DiskGrown
    <3>3. CASE ~OnDisk(at, x)
      <4>1. PICK d \in 2 .. Len(frames) : frames[d].new /\ frames[d].target = x
        BY <1>1, <1>3, <3>1, <3>3 DEF Seen, Later, NewTarget
      <4>2. IsTarget(at, frames, top, self, d)
        BY <1>4, TargetIs
      <4>3. at[x] = Spot(self, top - (d - 2), frames[d - 1].target,
                         Len(Entries(frames[d - 1].indblock)))
        BY <4>1, <4>2 DEF IsTarget
      <4>4. at[x].own = self /\ at[x].lvl = top - (d - 2) /\ at[x].up = frames[d - 1].target
        BY <4>3 DEF Spot
      <4>5. PICK c1 \in 1 .. Len(frames) : c1 = d - 1 /\ top - (c1 - 1) = top - (d - 2)
        <5>1. d - 1 \in 1 .. Len(frames) /\ top - ((d - 1) - 1) = top - (d - 2)
          BY <1>4 DEF Levels
        <5> QED
          BY <5>1
      <4>6. /\ c1 \in 1 .. Len(gs) /\ t[x].own = self /\ t[x].lvl = top - (c1 - 1)
            /\ t[x].up = gs[c1].target
        BY <1>7, <3>1, <4>4, <4>5
      <4> QED
        BY <4>6 DEF InStack
    <3> QED
      BY <3>2, <3>3
  <2> QED
    BY <2>1, <2>2
<1>11. Hung(t)' /\ Accounted(t)' /\ InUse'
  <2>1. Hung(t)'
    BY <1>1, <1>3, <1>5, HungGrown
  <2>2. Accounted(t)'
    BY <1>1, <1>2, <1>3, <1>8, AccountedGrown
  <2> QED
    BY <1>2, <1>3, <2>1, <2>2 DEF InUse
<1> QED
  BY <1>2, <1>3, <1>4, <1>6, <1>7, <1>10, <1>11 DEF Tight

(* The last indirect block read: what belongs in it is on disk.            *)
LEMMA TightOldIndirect ==
    ASSUME TypeInv, TypeInv', NEW at, Placed(at), Tight(at), OldIndirect, pc' = "descend"
    PROVE  Tight(at)'
<1>1. pc = "descend" /\ level > 0 /\ pc \in Working /\ pc \in Allocating
  BY DEF OldIndirect, Working, Allocating
<1>2. /\ UNCHANGED <<free, content, ino, linked, buf, top, todo>>
      /\ Forest(at) /\ Stacked(at) /\ Hung(at) /\ Accounted(at) /\ InUse /\ Seen(at)
      /\ InCore(at, frames, top, self) /\ Blank
  BY <1>1 DEF OldIndirect, Placed, pool, Tight
<1>3. first_unused # 0
  BY DEF OldIndirect
<1>4. /\ self' = self
      /\ top \in Levels /\ IsStack(frames, top) /\ StackRight(at, frames, top, self)
      /\ Depth = Len(frames) /\ Depth \in Nat /\ Depth \in 1 .. Len(frames)
      /\ level = top - (Depth - 1) /\ level \in Levels
      /\ Right(at, blocks, self, level, frames[Depth].target)
  BY <1>1, <1>2, WorkingIs DEF self
<1>5. /\ Depth >= 1 /\ Depth <= top /\ first_unused \in 1 .. Width(top, Depth)
      /\ blocks[first_unused] \in Blocks /\ DOMAIN blocks = 1 .. Width(top, Depth)
      /\ blocks[first_unused] # NoBlock
  BY <1>1, <1>2, <1>3, WorkingIs, RoomBelow, StackIs
<1>6. PICK b : b = blocks[first_unused]
  OBVIOUS
<1>7. b \in DOMAIN at /\ b # NoBlock /\ b \in Refs
  BY <1>4, <1>5, <1>6 DEF Right, Names, Refs
<1>8. ReadArray(b) = content[b] /\ ReadArray(b) \in Array
  <2>1. b \in DOMAIN content
    BY <1>2, <1>7 DEF Forest
  <2> QED
    BY <2>1, ReadIs, TypeParts DEF ReadArray
<1> DEFINE f == [target |-> b, new |-> FALSE, indblock |-> content[b]]
<1>9. /\ f \in Frame /\ f.indblock \in Array /\ f.target = b /\ f.new = FALSE
      /\ f.indblock = content[b]
  BY <1>7, <1>8, FrameIs
<1>10. frames' = Append(frames, f)
  BY <1>3, <1>6, <1>8 DEF OldIndirect
<1> HIDE DEF f
<1>11. PICK fs : fs = frames'
  OBVIOUS
<1>12. /\ Len(fs) = Depth + 1 /\ fs[Depth + 1] = f
       /\ \A d \in 1 .. Depth : fs[d] = frames[d]
  <2>1. frames \in Seq(Frame)
    BY <1>4 DEF IsStack
  <2> QED
    BY <1>4, <1>9, <1>10, <1>11, <2>1
<1>13. ASSUME NEW x \in DOMAIN at, at[x].lvl = top - Depth PROVE ~NewTarget(frames, x)
  <2> SUFFICES ASSUME NEW d \in 2 .. Len(frames), frames[d].target = x PROVE FALSE
    BY DEF NewTarget
  <2>1. IsTarget(at, frames, top, self, d)
    BY <1>4, TargetIs
  <2>2. at[x].lvl = top - (d - 2)
    BY <2>1 DEF IsTarget, Spot
  <2> QED
    BY <1>4, <1>13, <2>2 DEF Levels
<1>14. Whole(at, f.indblock, self, top - Len(frames), f.target)
  <2> SUFFICES ASSUME NEW x \in DOMAIN at, at[x].lvl = top - Depth, at[x].up = b
               PROVE  Has(content[b], at, x)
    BY <1>4, <1>9 DEF Whole
  <2>1. OnDisk(at, x)
    BY <1>1, <1>2, <1>13 DEF Seen, Later
  <2> QED
    BY <1>7, <2>1 DEF OnDisk, DiskArray
<1>15. InCore(at, fs, top, self)
  BY <1>2, <1>4, <1>5, <1>9, <1>10, <1>11, <1>14, CorePush
<1>16. \A d \in 2 .. Len(fs) : fs[d].new => d \in 2 .. Len(frames) /\ fs[d] = frames[d]
  BY <1>4, <1>9, <1>12
<1>17. Blank'
  BY <1>2, <1>11, <1>16 DEF Blank
<1>18. \A d \in 2 .. Len(frames) : d \in 2 .. Len(fs) /\ fs[d] = frames[d]
  BY <1>4, <1>12
<1>19. Seen(at)'
  <2> SUFFICES ASSUME NEW x \in DOMAIN at PROVE OnDisk(at, x)' \/ NewTarget(fs, x)
    BY <1>11 DEF Seen, Later
  <2>1. CASE OnDisk(at, x)
    BY <1>2, <2>1, OnDiskKept
  <2>2. CASE NewTarget(frames, x)
    BY <1>18, <2>2 DEF NewTarget
  <2> QED
    BY <1>1, <1>2, <2>1, <2>2 DEF Seen, Later
<1>20. Hung(at)' /\ Accounted(at)' /\ InUse'
  BY <1>1, <1>2, HungNext DEF Accounted, InUse
<1> QED
  BY <1>2, <1>4, <1>11, <1>15, <1>17, <1>19, <1>20 DEF Tight

(* What belongs in an indirect block is on disk once it is written.        *)
LEMMA TightWriteIndirect ==
    ASSUME TypeInv, TypeInv', NEW at, Placed(at), Tight(at), WriteIndirect
    PROVE  Tight(at)'
<1>1. /\ pc = "unwind" /\ pc' = "unwind" /\ Depth > 1 /\ pc \in Working /\ pc \in Allocating
      /\ Pool!Write(frames[Depth].target, blocks) /\ frames' = Front(frames)
      /\ UNCHANGED <<ino, linked, buf, top, todo>>
      /\ Forest(at) /\ Stacked(at)
      /\ Hung(at) /\ Accounted(at) /\ InUse /\ Seen(at) /\ InCore(at, frames, top, self)
  BY DEF WriteIndirect, Placed, Working, Allocating, Tight
<1>2. /\ self' = self
      /\ top \in Levels /\ IsStack(frames, top) /\ StackRight(at, frames, top, self)
      /\ Depth = Len(frames) /\ Depth \in Nat /\ Depth \in 1 .. Len(frames)
      /\ level = top - (Depth - 1) /\ level \in Levels
      /\ blocks = frames[Depth].indblock
      /\ blocks \in [1 .. Width(top, Depth) -> Refs]
  BY <1>1, WorkingIs DEF self
<1>3. PICK b, d : b = frames[Depth].target /\ d = Depth
  OBVIOUS
<1>4. b \in DOMAIN at /\ b # NoBlock /\ at[b].own = self /\ at[b].lvl = level + 1
  <2>1. d \in 2 .. Len(frames)
    BY <1>1, <1>2, <1>3
  <2>2. IsTarget(at, frames, top, self, d)
    BY <1>2, <2>1, TargetIs
  <2>3. b \in DOMAIN at /\ b # NoBlock /\ at[b].own = self /\ at[b].lvl = top - (d - 2)
    BY <1>3, <2>2 DEF IsTarget, Spot
  <2>4. top - (d - 2) = level + 1
    BY <1>2, <1>3 DEF Levels
  <2> QED
    BY <2>3, <2>4
<1>5. /\ DOMAIN content' = DOMAIN content /\ free' = free /\ content'[b] = blocks
      /\ \A c \in DOMAIN content : c # b => content'[c] = content[c]
  <2>1. blocks \in Array
    BY <1>1, <1>2 DEF Width, Array
  <2> QED
    BY <1>1, <1>3, <2>1, WriteType, TypeParts
<1>6. PICK gs : gs = frames'
  OBVIOUS
<1>7. InCore(at, gs, top, self)
  BY <1>1, <1>2, <1>6, CorePop
<1>8. Len(gs) = Depth - 1 /\ \A e \in 1 .. Depth - 1 : gs[e] = frames[e]
  BY <1>1, <1>6, UpperIs
<1>9. Seen(at)'
  <2> SUFFICES ASSUME NEW x \in DOMAIN at PROVE OnDisk(at, x)' \/ InStack(at, gs, top, self, x)
    BY <1>1, <1>2, <1>6 DEF Seen, Later
  <2>1. CASE at[x].up = b
    <3>1. at[x].own = self /\ at[x].lvl + 1 = level + 1
      BY <1>1, <1>4, <2>1 DEF Hung, Hangs
    <3>2. at[x].lvl = level
      <4>1. at[x].lvl \in 0 .. 3
        BY <1>1 DEF Forest, Spots, Levels
      <4> QED
        BY <1>2, <3>1, <4>1 DEF Levels
    <3>3. Whole(at, blocks, self, level, b)
      BY <1>1, <1>2, <1>3 DEF InCore
    <3>4. Has(blocks, at, x)
      BY <2>1, <3>1, <3>2, <3>3 DEF Whole
    <3>5. DiskArray(at, x)' = blocks
      BY <1>4, <1>5, <2>1 DEF DiskArray
    <3> QED
      BY <3>4, <3>5 DEF OnDisk
  <2>2. CASE at[x].up # b
    <3>1. at[x].up # NoBlock => content'[at[x].up] = content[at[x].up]
      BY <1>1, <1>5, <2>2 DEF Hung, Hangs, Forest
    <3>2. CASE OnDisk(at, x)
      BY <1>1, <3>1, <3>2, OnDiskKept
    <3>3. CASE ~OnDisk(at, x)
      <4>1. PICK e \in 1 .. Len(frames) : /\ at[x].own = self /\ at[x].lvl = top - (e - 1)
                                          /\ at[x].up = frames[e].target
        BY <1>1, <3>3 DEF Seen, Later, InStack
      <4>2. e # Depth
        BY <1>3, <2>2, <4>1
      <4>3. e \in 1 .. Len(gs) /\ gs[e] = frames[e]
        BY <1>2, <1>8, <4>2
      <4> QED
        BY <4>1, <4>3 DEF InStack
    <3> QED
      BY <3>2, <3>3
  <2> QED
    BY <2>1, <2>2
<1>10. Hung(at)' /\ Accounted(at)' /\ InUse'
  BY <1>1, <1>5, HungNext DEF Accounted, InUse
<1> QED
  BY <1>1, <1>2, <1>6, <1>7, <1>9, <1>10 DEF Tight

(* What belongs in the inode is on disk once it is written.                *)
LEMMA TightWriteInode ==
    ASSUME TypeInv, TypeInv', NEW at, Placed(at), Tight(at), WriteInode
    PROVE  Tight(at)'
<1>1. /\ pc = "unwind" /\ Depth = 1 /\ pc \in Working /\ pc \in Allocating /\ pc' = "idle"
      /\ ino' = [ino EXCEPT ![self] = BufWith(buf.n_blocks + 1)]
      /\ UNCHANGED <<free, content, linked>>
      /\ Forest(at) /\ Stacked(at)
      /\ Hung(at) /\ Accounted(at) /\ InUse /\ Seen(at) /\ InCore(at, frames, top, self)
  BY DEF WriteInode, Placed, Working, Allocating, Rest, BufWith, pool, Tight
<1>2. /\ self \in linked /\ buf = ino[self] /\ self \in Inodes
      /\ top \in Levels /\ StackRight(at, frames, top, self)
      /\ Depth = Len(frames) /\ Depth \in 1 .. Len(frames)
      /\ blocks = frames[Depth].indblock
  BY <1>1, WorkingIs
<1>3. frames[1].target = NoBlock /\ frames[1].indblock = blocks /\ Len(frames) = 1
  BY <1>1, <1>2 DEF StackRight
<1>4. PICK n \in 0 .. Limit(4) : n = buf.n_blocks + 1
  <2>1. IsInode(buf) /\ buf.n_blocks < Limit(4) /\ Limit(4) \in Nat
    BY <1>1, LimitsAre, TypeParts DEF Changing
  <2>2. buf.n_blocks \in 0 .. Limit(4)
    BY <2>1 DEF IsInode, InodeRecord
  <2> QED
    BY <2>1, <2>2
<1>5. PICK r : r = BufWith(n)
  OBVIOUS
<1>6. /\ r.blocks[top] = blocks /\ \A j \in Levels : j # top => r.blocks[j] = buf.blocks[j]
      /\ r.in_use = buf.in_use
  <2>1. /\ r.blocks[top] = blocks /\ \A j \in Levels : j # top => r.blocks[j] = buf.blocks[j]
    BY <1>1, <1>5, BufWithIs
  <2>2. r.in_use = buf.in_use
    BY <1>5, TypeParts DEF Changing, IsInode, InodeRecord, BufWith
  <2> QED
    BY <2>1, <2>2
<1>7. ino'[self] = r /\ \A i \in Inodes : i # self => ino'[i] = ino[i]
  BY <1>1, <1>2, <1>4, <1>5, TypeParts DEF InodesType
<1>8. linked \subseteq Inodes
  BY TypeParts DEF InodesType
<1>9. AllOnDisk(at)'
  <2> SUFFICES ASSUME NEW x \in DOMAIN at PROVE OnDisk(at, x)'
    BY DEF AllOnDisk
  <2>1. at[x].own \in Inodes /\ at[x].lvl \in Levels
    BY <1>1 DEF Forest, Spots
  <2>2. CASE at[x].own = self /\ at[x].lvl = top /\ at[x].up = NoBlock
    <3>1. Whole(at, blocks, self, top - (1 - 1), NoBlock)
      BY <1>1, <1>3 DEF InCore
    <3>2. top - (1 - 1) = top
      BY <1>2 DEF Levels
    <3>3. Has(blocks, at, x)
      BY <2>2, <3>1, <3>2 DEF Whole
    <3>4. DiskArray(at, x)' = blocks
      BY <1>6, <1>7, <2>2 DEF DiskArray
    <3> QED
      BY <3>3, <3>4 DEF OnDisk
  <2>3. CASE ~(at[x].own = self /\ at[x].lvl = top /\ at[x].up = NoBlock)
    <3>1. ~InStack(at, frames, top, self, x)
      <4>1. \A d \in 1 .. Len(frames) : d = 1 /\ top - (d - 1) = top
        BY <1>2, <1>3 DEF Levels
      <4> QED
        BY <1>3, <2>3, <4>1 DEF InStack
    <3>2. OnDisk(at, x)
      BY <1>1, <3>1 DEF Seen, Later
    <3>3. DiskArray(at, x)' = DiskArray(at, x)
      <4>1. at[x].up = NoBlock => ino'[at[x].own].blocks[at[x].lvl] = ino[at[x].own].blocks[at[x].lvl]
        BY <1>2, <1>6, <1>7, <2>1, <2>3
      <4> QED
        BY <1>1, <4>1 DEF DiskArray
    <3> QED
      BY <3>2, <3>3 DEF OnDisk
  <2> QED
    BY <2>2, <2>3
<1>10. InUse'
  BY <1>1, <1>2, <1>6, <1>7, <1>8 DEF InUse
<1>11. Hung(at)' /\ Accounted(at)'
  BY <1>1, HungNext DEF Accounted
<1> QED
  BY <1>1, <1>9, <1>10, <1>11, TightStops

(* A new indirect block given back: nothing belongs in it yet.             *)
LEMMA UndoMarks ==
    ASSUME TypeInv, NEW at, Placed(at), UndoIndirect
    PROVE  Len(frames') = Depth - 1 /\ Marks(frames, frames', Depth - 1)
<1>1. pc = "undo" /\ Depth > 1 /\ pc \in Working /\ pc \in Allocating /\ Stacked(at)
  BY DEF UndoIndirect, Placed, Working, Allocating
<1>2. /\ top \in Levels /\ IsStack(frames, top) /\ StackRight(at, frames, top, self)
      /\ Depth = Len(frames) /\ Depth \in Nat
  BY <1>1, WorkingIs
<1>3. PICK us, gs : us = Front(frames) /\ gs = frames'
  OBVIOUS
<1>4. PICK D \in 1 .. Len(frames) : D + 1 = Depth /\ D = Depth - 1
  <2>1. PICK d \in Nat : d = Depth - 1
    BY <1>1, <1>2
  <2>2. d \in 1 .. Len(frames) /\ d + 1 = Depth
    BY <1>1, <1>2, <2>1
  <2> QED
    BY <2>1, <2>2
<1>5. Len(us) = D /\ \A d \in 1 .. D : us[d] = frames[d]
  BY <1>1, <1>3, <1>4, UpperIs
<1>6. CASE frames[Depth].new
  <2>1. PICK e : e = Len(Entries(frames[D].indblock))
    OBVIOUS
  <2>2. us[D] = frames[D]
    BY <1>5
  <2>3. gs = Put(us, D, e, NoBlock)
    <3>1. frames' = [Front(frames) EXCEPT
                         ![Depth - 1].indblock[Len(Entries(Front(frames)[Depth - 1].indblock))]
                             = NoBlock]
      BY <1>2, <1>6, UndoClears
    <3> QED
      BY <1>3, <1>4, <2>1, <2>2, <3>1 DEF Put
  <2>4. e \in Nat
    <3>1. frames[D].indblock \in [1 .. Width(top, D) -> Refs] /\ Width(top, D) \in Nat
      BY <1>2, StackArray
    <3> QED
      BY <2>1, <3>1, EntriesAre
  <2>5. D + 1 = Len(frames)
    BY <1>2, <1>4
  <2>6. /\ Len(gs) = D
        /\ \A d \in 1 .. D : gs[d].target = frames[d].target /\ gs[d].new = frames[d].new
    BY <1>2, <1>3, <2>1, <2>3, <2>4, <2>5, StackUndo
  <2> QED
    BY <1>3, <1>4, <2>6 DEF Marks
<1>7. CASE ~frames[Depth].new
  <2>1. gs = us
    BY <1>3, <1>7 DEF UndoIndirect
  <2> QED
    BY <1>3, <1>4, <1>5, <2>1 DEF Marks
<1> QED
  BY <1>6, <1>7

LEMMA TightUndoIndirect ==
    ASSUME TypeInv, TypeInv', NEW at, Placed(at), Tight(at), UndoIndirect,
           NEW t, t = IF frames[Depth].new THEN Without(at, frames[Depth].target) ELSE at
    PROVE  Tight(t)'
<1>1. /\ pc = "undo" /\ pc' = "undo" /\ Depth > 1 /\ pc \in Working /\ pc \in Allocating
      /\ UNCHANGED <<ino, linked, buf, top, todo>>
      /\ Forest(at) /\ Stacked(at)
      /\ Hung(at) /\ Accounted(at) /\ InUse /\ Seen(at) /\ Blank
  BY DEF UndoIndirect, Placed, Working, Allocating, Tight
<1>2. /\ top \in Levels /\ IsStack(frames, top) /\ StackRight(at, frames, top, self)
      /\ Depth = Len(frames) /\ Depth \in Nat
  BY <1>1, WorkingIs
<1>3. PICK b, gs, D : b = frames[Depth].target /\ gs = frames' /\ D = Depth
  OBVIOUS
<1>4. /\ D = Len(frames) /\ D \in Nat /\ D > 1 /\ D \in 2 .. Len(frames) /\ Len(gs) = D - 1
      /\ \A d \in 1 .. D - 1 : gs[d].target = frames[d].target /\ gs[d].new = frames[d].new
  BY <1>1, <1>2, <1>3, UndoMarks DEF Marks
<1>5. ASSUME NEW d \in 2 .. Len(frames)
      PROVE  /\ frames[d].target \in DOMAIN at /\ frames[d].target # NoBlock
             /\ at[frames[d].target].lvl = top - (d - 2)
  <2>1. IsTarget(at, frames, top, self, d)
    BY <1>2, TargetIs
  <2> QED
    BY <2>1 DEF IsTarget, Spot
<1>6. \A d \in 2 .. Len(gs) : d \in 1 .. D - 1 /\ d \in 2 .. Len(frames) /\ d # D
  BY <1>4
<1>7. \A d \in 2 .. Len(frames) : d # D => d \in 2 .. Len(gs)
  BY <1>4
<1>8. \A d \in 2 .. Len(frames) : d # D => frames[d].target # b
  <2> SUFFICES ASSUME NEW d \in 2 .. Len(frames), d # D, frames[d].target = b PROVE FALSE
    OBVIOUS
  <2>1. at[b].lvl = top - (d - 2) /\ at[b].lvl = top - (D - 2)
    BY <1>3, <1>4, <1>5
  <2> QED
    BY <1>2, <1>4, <2>1 DEF Levels
<1>9. CASE frames[Depth].new
  <2>1. /\ DOMAIN t = DOMAIN at \ {b} /\ \A x \in DOMAIN t : t[x] = at[x]
    BY <1>3, <1>9 DEF Without
  <2>2. Pool!Release(b)
    BY <1>3, <1>9 DEF UndoIndirect
  <2>3. /\ DOMAIN content' = DOMAIN content \ {b}
        /\ free' = free \union {b}
        /\ \A c \in DOMAIN content : c # b => content'[c] = content[c]
    BY <2>2, ReleaseType, TypeParts
  <2>4. content[b] = EmptyArray /\ b # NoBlock
    BY <1>1, <1>3, <1>4, <1>5, <1>9 DEF Blank
  <2>5. ASSUME NEW x \in DOMAIN at, at[x].up = b PROVE FALSE
    <3>1. x # NoBlock
      BY <1>1, ForestSpots, Layout, TypeParts DEF AreSpots
    <3>2. ~OnDisk(at, x)
      <4>1. DiskArray(at, x) = EmptyArray
        BY <2>4, <2>5 DEF DiskArray
      <4>2. ~Has(EmptyArray, at, x)
        BY <3>1 DEF Has, EmptyArray
      <4> QED
        BY <4>1, <4>2 DEF OnDisk
    <3>3. PICK d \in 2 .. Len(frames) : frames[d].target = x
      BY <1>1, <3>2 DEF Seen, Later, NewTarget
    <3>4. at[b].lvl = at[x].lvl + 1
      BY <1>1, <2>4, <2>5 DEF Hung, Hangs
    <3>5. at[x].lvl = top - (d - 2) /\ at[b].lvl = top - (D - 2)
      BY <1>3, <1>4, <1>5, <3>3
    <3> QED
      BY <1>2, <1>4, <3>4, <3>5 DEF Levels
  <2>6. Hung(t)'
    <3> SUFFICES ASSUME NEW x \in DOMAIN t PROVE Hangs(t, x)'
      BY DEF Hung
    <3>1. x \in DOMAIN at /\ t[x] = at[x] /\ Hangs(at, x) /\ at[x].up # b
      BY <1>1, <2>1, <2>5 DEF Hung
    <3> QED
      BY <1>1, <2>1, <3>1 DEF Hangs
  <2>7. Accounted(t)'
    BY <1>1, <2>1, <2>3 DEF Accounted
  <2>8. Blank'
    <3> SUFFICES ASSUME NEW d \in 2 .. Len(gs), gs[d].new PROVE content'[gs[d].target] = EmptyArray
      BY <1>3 DEF Blank
    <3>1. PICK x : x = frames[d].target
      OBVIOUS
    <3>2. d \in 2 .. Len(frames) /\ gs[d].target = x /\ frames[d].new /\ x # b
      BY <1>4, <1>6, <1>8, <3>1
    <3>3. x \in DOMAIN content /\ content[x] = EmptyArray
      BY <1>1, <1>5, <3>1, <3>2 DEF Blank, Forest
    <3> QED
      BY <2>3, <3>2, <3>3
  <2>9. Seen(t)'
    <3> SUFFICES ASSUME NEW x \in DOMAIN t PROVE OnDisk(t, x)' \/ NewTarget(gs, x)
      BY <1>1, <1>3 DEF Seen, Later
    <3>1. x \in DOMAIN at /\ t[x] = at[x] /\ x # b /\ at[x].up # b
      BY <2>1, <2>5
    <3>2. CASE OnDisk(at, x)
      <4>1. at[x].up # NoBlock => content'[at[x].up] = content[at[x].up]
        BY <1>1, <2>3, <3>1 DEF Hung, Hangs, Forest
      <4> QED
        BY <1>1, <3>1, <3>2, <4>1, OnDiskKept
    <3>3. CASE ~OnDisk(at, x)
      <4>1. PICK d \in 2 .. Len(frames) : frames[d].new /\ frames[d].target = x
        BY <1>1, <3>1, <3>3 DEF Seen, Later, NewTarget
      <4>2. d # D
        BY <1>3, <3>1, <4>1
      <4>3. d \in 2 .. Len(gs) /\ gs[d].new /\ gs[d].target = x
        BY <1>4, <1>6, <1>7, <4>1, <4>2
      <4> QED
        BY <4>3 DEF NewTarget
    <3> QED
      BY <3>2, <3>3
  <2> QED
    BY <1>1, <2>6, <2>7, <2>8, <2>9 DEF Tight, InUse
<1>10. CASE ~frames[Depth].new
  <2>1. UNCHANGED <<free, content>> /\ t = at
    BY <1>10 DEF UndoIndirect, pool
  <2>2. Hung(at)' /\ Accounted(at)'
    BY <1>1, <2>1, HungNext DEF Accounted
  <2>3. Blank'
    <3> SUFFICES ASSUME NEW d \in 2 .. Len(gs), gs[d].new PROVE content'[gs[d].target] = EmptyArray
      BY <1>3 DEF Blank
    <3>1. d \in 2 .. Len(frames) /\ gs[d].target = frames[d].target /\ frames[d].new
      BY <1>4, <1>6
    <3> QED
      BY <1>1, <2>1, <3>1 DEF Blank
  <2>4. Seen(at)'
    <3> SUFFICES ASSUME NEW x \in DOMAIN at PROVE OnDisk(at, x)' \/ NewTarget(gs, x)
      BY <1>1, <1>3 DEF Seen, Later
    <3>1. CASE OnDisk(at, x)
      BY <1>1, <2>1, <3>1, OnDiskKept
    <3>2. CASE ~OnDisk(at, x)
      <4>1. PICK d \in 2 .. Len(frames) : frames[d].new /\ frames[d].target = x
        BY <1>1, <3>2 DEF Seen, Later, NewTarget
      <4>2. d # D
        BY <1>3, <1>10, <4>1
      <4>3. d \in 2 .. Len(gs) /\ gs[d].new /\ gs[d].target = x
        BY <1>4, <1>6, <1>7, <4>1, <4>2
      <4> QED
        BY <4>3 DEF NewTarget
    <3> QED
      BY <3>1, <3>2
  <2> QED
    BY <1>1, <2>1, <2>2, <2>3, <2>4 DEF Tight, InUse
<1> QED
  BY <1>9, <1>10

LEMMA LostInit == MapInit => LostInv
<1> SUFFICES ASSUME MapInit PROVE LostInv
  OBVIOUS
<1>1. PICK at : at = [x \in {} |-> Spot(0, 0, 0, 0)]
  OBVIOUS
<1>2. DOMAIN at = {} /\ at \in [DOMAIN at -> Spots]
  BY <1>1
<1>3. linked = {} /\ pc = "idle" /\ DOMAIN content = {} /\ free = Blocks
  BY DEF MapInit, Pool!PoolInit
<1>4. Placed(at)
  BY <1>2, <1>3 DEF Placed, Forest, Stacked, NewUnnamed, Loose, Apart, Working
<1>5. Tight(at)
  BY <1>2, <1>3 DEF Tight, Hung, Accounted, InUse, Seen
<1> QED
  BY <1>4, <1>5 DEF LostInv

LEMMA TightSame ==
    ASSUME NEW at, Tight(at), UNCHANGED mapVars
    PROVE  Tight(at)'
<1>1. /\ UNCHANGED <<free, content, ino, linked, pc, buf, frames, top, todo>>
      /\ Hung(at) /\ Accounted(at) /\ InUse /\ Seen(at)
  BY DEF mapVars, pool, alloc, Tight
<1>2. self' = self
  BY <1>1 DEF self
<1>3. Seen(at)'
  <2>1. ASSUME NEW x \in DOMAIN at PROVE OnDisk(at, x)' \/ Later(at, x)'
    <3>1. CASE OnDisk(at, x)
      BY <1>1, <3>1, OnDiskKept
    <3>2. CASE Later(at, x)
      BY <1>1, <1>2, <3>2 DEF Later
    <3> QED
      BY <1>1, <3>1, <3>2 DEF Seen
  <2> QED
    BY <2>1 DEF Seen
<1>4. Hung(at)' /\ Accounted(at)' /\ InUse'
  BY <1>1, <1>2, HungNext DEF Accounted, InUse
<1>5. /\ pc' \in {"descend", "unwind"} => InCore(at, frames', top', self')
      /\ pc' \in {"descend", "undo"} => Blank'
  BY <1>1, <1>2 DEF Tight, Blank
<1> QED
  BY <1>3, <1>4, <1>5 DEF Tight

LostNext == \E t : Placed(t)' /\ Tight(t)'
Orderly == pc \notin {"give_back", "abort"} /\ overruns = {}

(* Every step but that of a write that fails, and a crash.                 *)
LEMMA LostMoves ==
    ASSUME N2Indirect = 1, N3Indirect = 1, TypeInv, TypeInv', Orderly, Orderly',
           NEW at, Placed(at), Tight(at), NEW w, InodesSized(w), [MapNext]_mapVars,
           failures \in Nat, failures' = failures, crashes \in Nat, crashes' = crashes
    PROVE  LostNext
<1>1. CASE UNCHANGED mapVars
  BY <1>1, OwnSame, TightSame DEF LostNext
<1>2. CASE \E i \in Inodes : Create(i) \/ AllocStart(i)
  BY <1>2, OwnCreate, OwnAllocStart, TightCreate, TightAllocStart DEF LostNext
<1>3. CASE \E i \in Inodes : Unlink(i)
  <2>1. PICK i \in Inodes : Unlink(i)
    BY <1>3
  <2>2. PICK t : Placed(t)' /\ t = Keeping(at, i)
    BY <2>1, OwnUnlink
  <2>3. Tight(t)'
    BY <2>1, <2>2, TightUnlink
  <2> QED
    BY <2>2, <2>3 DEF LostNext
<1>4. CASE NewIndirect
  <2>2. first_unused < Len(blocks)
    BY <1>4 DEF NewIndirect, Orderly
  <2>1. PICK t : /\ Placed(t)'
                 /\ \E b : /\ t = Grown(at, b, NextSpot) /\ PoppedFor(at, b)
                           /\ frames' = Append(Stored(b), NewFrame(b))
    BY <1>4, <2>2, OwnNewIndirect
  <2>3. Tight(t)'
    BY <1>4, <2>1, <2>2, TightNewIndirect
  <2> QED
    BY <2>1, <2>3 DEF LostNext
<1>5. CASE NewDirect
  <2>1. PICK t : /\ Placed(t)'
                 /\ first_unused < Len(blocks) =>
                        \E b : /\ t = Grown(at, b, NextSpot) /\ PoppedFor(at, b)
                               /\ frames' = Stored(b) /\ cand' = b
    BY <1>5, OwnNewDirect
  <2>2. first_unused < Len(blocks)
    BY <1>5 DEF NewDirect, Orderly
  <2>3. Tight(t)'
    BY <1>5, <2>1, <2>2, TightNewDirect
  <2> QED
    BY <2>1, <2>3 DEF LostNext
<1>6. CASE OldIndirect
  <2>1. pc' = "descend"
    BY <1>6 DEF OldIndirect, Orderly
  <2> QED
    BY <1>6, <2>1, OwnOldIndirect, TightOldIndirect DEF LostNext
<1>7. CASE UndoIndirect
  <2>1. PICK t : /\ Placed(t)'
                 /\ t = IF frames[Depth].new THEN Without(at, frames[Depth].target) ELSE at
    BY <1>7, OwnUndoIndirect
  <2>2. Tight(t)'
    BY <1>7, <2>1, TightUndoIndirect
  <2> QED
    BY <2>1, <2>2 DEF LostNext
<1>8. CASE PopFails \/ WriteIndirect \/ WriteInode
  BY <1>8, OwnPopFails, OwnWriteIndirect, OwnWriteInode, TightPopFails, TightWriteIndirect,
     TightWriteInode DEF LostNext
<1>9. CASE AllocFails \/ AppendNext \/ FreeInode
  BY <1>9, OwnAllocFails, OwnAppendNext, OwnFreeInode, TightAllocFails, TightAppendNext,
     TightFreeInode DEF LostNext
<1>10. CASE GiveBack \/ WriteReturns
  <2>1. pc # "shrink" /\ pc # "give_back"
    BY DEF Placed, Orderly
  <2> QED
    BY <1>10, <2>1 DEF WriteReturns, GiveBack
<1>11. CASE Crash
  <2>1. crashes' = crashes + 1
    BY <1>11 DEF Crash, Pool!Crash
  <2> QED
    BY <2>1
<1>12. CASE \E i \in Inodes, start \in 0 .. Cardinality(Blocks) : FailedWrite(i, start)
  <2>1. failures' = failures + 1
    BY <1>12 DEF FailedWrite
  <2> QED
    BY <2>1
<1> QED
  BY <1>1, <1>2, <1>3, <1>4, <1>5, <1>6, <1>7, <1>8, <1>9, <1>10, <1>11, <1>12
  DEF MapNext, Resume

LEMMA LostStep ==
    ASSUME N2Indirect = 1, N3Indirect = 1
    PROVE  TypeInv /\ TypeInv' /\ OwnInv /\ SizeInv /\ SizeInv' /\ LostInv /\ [MapNext]_mapVars
               => LostInv'
<1> SUFFICES ASSUME TypeInv, TypeInv', OwnInv, SizeInv, SizeInv', LostInv, [MapNext]_mapVars,
                    failures' = 0, crashes' = 0
             PROVE  LostNext
  BY DEF LostInv, LostNext
<1>1. /\ failures' = failures \/ failures' = failures + 1
      /\ crashes' = crashes \/ crashes' = crashes + 1
  BY CountsUp
<1>2. failures \in Nat /\ crashes \in Nat
  BY DEF OwnInv, SizeInv
<1>3. failures' = failures /\ failures = 0 /\ crashes' = crashes /\ crashes = 0
  BY <1>1, <1>2
<1>4. PICK at0, w : Sized(at0, w)
  BY <1>3 DEF SizeInv
<1>5. Orderly /\ InodesSized(w)
  BY <1>3, <1>4 DEF SizeInv, Sized, Orderly
<1>6. Orderly'
  BY DEF SizeInv, Sized, Orderly
<1>7. PICK at : Placed(at) /\ Tight(at)
  BY <1>3 DEF LostInv
<1> QED
  BY <1>2, <1>3, <1>5, <1>6, <1>7, LostMoves

(* A block in use is in its place, a place is on disk, and what is on disk *)
(* is what a release of the whole file finds.                              *)
LEMMA LostImplies ==
    ASSUME N2Indirect = 1, N3Indirect = 1
    PROVE  TypeInv /\ SizeInv /\ LostInv => NoLeak
<1> SUFFICES ASSUME TypeInv, SizeInv, LostInv, Idle, failures = 0, crashes = 0
             PROVE  Blocks = free \union UNION {Range(AllBlocks(i)) : i \in linked}
  BY DEF NoLeak
<1>1. PICK at : Placed(at) /\ Tight(at)
  BY DEF LostInv
<1>2. PICK at0, w : Sized(at0, w)
  BY DEF SizeInv
<1>3. /\ pc = "idle" /\ InodesSized(w) /\ Forest(at) /\ Hung(at) /\ Accounted(at)
      /\ AllOnDisk(at)
  BY <1>1, <1>2, TightRuns DEF Idle, Sized, Placed, Tight
<1>4. /\ free \subseteq Blocks /\ Blocks \subseteq free \union DOMAIN at
  BY <1>3, TypeParts DEF Accounted, PoolType
<1>5. ASSUME NEW i \in linked
      PROVE  /\ {x \in DOMAIN at : at[x].own = i} \subseteq Range(AllBlocks(i))
             /\ Range(AllBlocks(i)) \subseteq Blocks
  <2>1. ino[i].blocks[3][1] # NoBlock => ino[i].blocks[2][1] # NoBlock
    BY <1>3, DoubleFirst
  <2>2. {x \in DOMAIN at : at[x].own = i} \subseteq Range(AllBlocks(i))
    BY <1>3, <2>1, ReleasedAll DEF AllBlocks
  <2>3. PICK s \in Seq(Blocks) : s = AllBlocks(i)
    BY ReleasedType, TypeParts DEF AllBlocks, InodesType
  <2>4. Range(s) \subseteq Blocks
    BY DEF Range
  <2> QED
    BY <2>2, <2>3, <2>4
<1>6. ASSUME NEW x \in DOMAIN at PROVE x \in UNION {Range(AllBlocks(i)) : i \in linked}
  <2>1. at[x].own \in linked
    BY <1>3 DEF Hung, Hangs
  <2>2. x \in Range(AllBlocks(at[x].own))
    BY <1>5, <2>1
  <2> QED
    BY <2>1, <2>2
<1>7. UNION {Range(AllBlocks(i)) : i \in linked} \subseteq Blocks
  BY <1>5
<1> QED
  BY <1>4, <1>6, <1>7

(* As long as no write failed and nothing crashed: between two operations  *)
(* every block is free or in the file of a directory entry, where a        *)
(* release of that file finds it.  An inode has one pointer to a double    *)
(* and one to a triple indirect block (cofs_data_structures.h): a release  *)
(* looks at the first of each only.                                        *)
THEOREM NothingLost ==
    ASSUME N2Indirect = 1, N3Indirect = 1
    PROVE  MapSpec => []NoLeak
<1>1. MapSpec => []TypeInv
  BY TypeInit, TypeStep, PTL DEF MapSpec
<1>2. MapSpec => []OwnInv
  BY <1>1, OwnInit, OwnStep, PTL DEF MapSpec
<1>3. MapSpec => []SizeInv
  BY <1>1, <1>2, SizeInit, SizeStep, PTL DEF MapSpec
<1>4. MapSpec => []LostInv
  BY <1>1, <1>2, <1>3, LostInit, LostStep, PTL DEF MapSpec
<1>5. TypeInv /\ SizeInv /\ LostInv => NoLeak
  BY LostImplies
<1> QED
  BY <1>1, <1>3, <1>4, <1>5, PTL
=============================================================================
