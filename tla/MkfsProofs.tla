----------------------------- MODULE MkfsProofs -----------------------------
(***************************************************************************)
(* What mkfs makes of a device, for every size of device, of i-list and of *)
(* list block: theorems FsckAnswers and FreshMade.                         *)
(*                                                                         *)
(* The number n of blocks does not change, and everything that mkfs writes *)
(* follows from it.  The inductive invariant says what each stage has made *)
(* of the device: the blocks of the i-list, the rows of the free list, and *)
(* nothing else that could be taken for one of these.                      *)
(***************************************************************************)
EXTENDS Mkfs, FiniteSetTheorems, WellFoundedInduction, TLAPS

LEMMA LeastNat ==
    ASSUME NEW S, S \subseteq Nat, S # {}
    PROVE  \E m \in S : \A k \in S : m <= k
<1>1. PICK m \in S : \A k \in S : <<k, m>> \notin OpToRel(<, Nat)
  BY WFMin, NatLessThanWellFounded, Zenon
<1>2. \A k \in S : ~(k < m)
  BY <1>1, Zenon DEF OpToRel
<1> QED
  BY <1>2

-----------------------------------------------------------------------------
(* Arithmetic                                                              *)
LEMMA Division ==
    ASSUME NEW a \in Nat, NEW k \in Nat, k > 0
    PROVE  /\ a \div k \in Nat /\ a % k \in 0 .. k - 1
           /\ a = (a \div k) * k + (a % k)
  OBVIOUS

LEMMA DivisionUnique ==
    ASSUME NEW q \in Nat, NEW r \in Nat, NEW k \in Nat, r < k
    PROVE  (q * k + r) \div k = q /\ (q * k + r) % k = r
  OBVIOUS

LEMMA Small ==
    ASSUME NEW a \in Nat, NEW k \in Nat, a < k
    PROVE  a % k = a /\ (a + k) % k = a
<1>1. a % k = a
  BY DivisionUnique
<1>2. (1 * k + a) % k = a
  BY DivisionUnique
<1> QED
  BY <1>1, <1>2

LEMMA Multiplied ==
    ASSUME NEW a \in Nat, NEW b \in Nat, NEW k \in Nat, a <= b
    PROVE  a * k <= b * k /\ (a + 1) * k = a * k + k /\ a * k \in Nat
  OBVIOUS

-----------------------------------------------------------------------------
(* Where mkfs puts the blocks of a device of n blocks                      *)

(* The entries of the first list block, how many list blocks are written,  *)
(* and where: a row is a list block and the blocks it has as entries.      *)
Rest(n) == (NDataBlocks(n) - 1) % (E + 1)
Rows(n) == (NDataBlocks(n) - 1 + E) \div (E + 1)
RowStart(n, i) == IF i = 0 THEN Start(n) ELSE Start(n) + Rest(n) + 1 + (i - 1) * (E + 1)
RowFirst(n, i) == IF i = 0 THEN E - Rest(n) ELSE 0

LEMMA SizeFacts ==
    ASSUME NEW n \in Sizes
    PROVE  /\ n \in Nat /\ IlistSize(n) \in Nat /\ Start(n) = IlistSize(n) + 1
           /\ n = Start(n) + NDataBlocks(n)
           /\ n + E < SizeModulus /\ SizeModulus \in Nat /\ E \in Nat /\ E >= 2
           /\ InodesPerBlock \in Nat /\ InodesPerBlock > 0
           /\ IlistSize(n) > 0 => NDataBlocks(n) \in Nat /\ NDataBlocks(n) >= 2
<1>1. /\ n \in Nat /\ n + E < SizeModulus /\ SizeModulus \in Nat /\ E \in Nat /\ E >= 2
      /\ InodesPerBlock \in Nat /\ InodesPerBlock > 0
      /\ IlistFraction \in Nat /\ IlistFraction >= 4
  BY MkfsAssumption DEF E
<1>2. PICK s : s = IlistSize(n)
  OBVIOUS
<1>3. s \in Nat /\ s * IlistFraction <= n
  BY <1>1, <1>2, Division DEF IlistSize
<1>4. s * 4 <= s * IlistFraction
  BY <1>1, <1>3
<1>5. 4 * s <= n
  BY <1>1, <1>3, <1>4
<1>6. Start(n) = s + 1 /\ NDataBlocks(n) = n - (s + 1)
  BY <1>2 DEF Start, NDataBlocks
<1> QED
  BY <1>1, <1>2, <1>3, <1>5, <1>6

(* FreeList_create's numbers.                                              *)
LEMMA ListSizes ==
    ASSUME NEW n \in Sizes, IlistSize(n) > 0, NUM_BLOCKS = n
    PROVE  /\ (NDataBlocks(n) + SizeModulus) % SizeModulus = NDataBlocks(n)
           /\ Leftover = Rest(n) /\ NFreeListBlocks = Rows(n)
           /\ \A i : FirstEntry(i) = RowFirst(n, i)
<1>1. PICK d \in Nat : d = NDataBlocks(n) /\ d >= 2 /\ d <= n
  BY SizeFacts
<1>2. PICK m \in Nat : m = SizeModulus
  BY SizeFacts
<1>3. E \in Nat /\ d + E < m /\ d - 1 \in Nat /\ d - 1 + E \in Nat /\ n \in Nat
  BY <1>1, <1>2, SizeFacts
<1>4. d % m = d /\ (d + m) % m = d
  BY <1>3, Small
<1>5. (d - 1 + m) % m = d - 1
  BY <1>3, Small
<1>6. d + m - 1 = d - 1 + m
  BY <1>3
<1>7. InTheList = d - 1
  BY <1>1, <1>2, <1>4, <1>5, <1>6 DEF InTheList, Minus1
<1>8. (d - 1 + E) % m = d - 1 + E
  BY <1>3, Small
<1> QED
  BY <1>1, <1>2, <1>4, <1>7, <1>8 DEF Leftover, NFreeListBlocks, Rest, Rows, FirstEntry, RowFirst

LEMMA RowFacts ==
    ASSUME NEW n \in Sizes, IlistSize(n) > 0
    PROVE  /\ Rest(n) \in Nat /\ Rest(n) <= E
           /\ Rows(n) \in Nat /\ Rows(n) >= 1 /\ Rows(n) <= n
           /\ RowStart(n, 0) = Start(n)
           /\ \A i \in Nat : /\ RowStart(n, i) \in Nat /\ RowFirst(n, i) \in Nat
                             /\ RowFirst(n, i) <= E
                             /\ RowStart(n, i + 1) = RowStart(n, i) + (E - RowFirst(n, i)) + 1
           /\ \A i, j \in Nat : i < j => RowStart(n, i + 1) <= RowStart(n, j)
           /\ RowStart(n, Rows(n)) = IF Rest(n) > 0 THEN n ELSE n - (E + 1)
<1>1. PICK d \in Nat : d = NDataBlocks(n) /\ d >= 2 /\ d - 1 \in Nat
  BY SizeFacts
<1>2. PICK e \in Nat : e = E + 1 /\ e >= 3
  BY SizeFacts
<1>3. PICK s \in Nat : s = Start(n) /\ n = s + d
  BY <1>1, SizeFacts
<1>4. PICK q \in Nat : q = (d - 1) \div e
  BY <1>1, <1>2, Division
<1>5. PICK r \in Nat : r = Rest(n) /\ r < e /\ d - 1 = q * e + r
  BY <1>1, <1>2, <1>4, Division DEF Rest
<1>6. Rows(n) = IF r > 0 THEN q + 1 ELSE q
  <2>1. CASE r > 0
    <3>1. PICK w \in Nat : w = r - 1 /\ w < e
      BY <1>2, <1>5, <2>1
    <3>2. PICK k \in Nat : k = q + 1
      BY <1>4
    <3>3. k * e = q * e + e /\ q * e \in Nat
      BY <3>2, Multiplied
    <3>4. d - 1 + E = k * e + w
      BY <1>1, <1>2, <1>5, <3>1, <3>3, SizeFacts
    <3>5. (k * e + w) \div e = k
      BY <3>1, DivisionUnique
    <3> QED
      BY <1>1, <1>2, <2>1, <3>2, <3>4, <3>5 DEF Rows
  <2>2. CASE r = 0
    <3>1. PICK w \in Nat : w = e - 1 /\ w < e
      BY <1>2
    <3>2. d - 1 + E = q * e + w
      BY <1>1, <1>2, <1>5, <2>2, <3>1, SizeFacts
    <3>3. (q * e + w) \div e = q
      BY <1>2, <1>4, <3>1, DivisionUnique
    <3> QED
      BY <1>1, <1>2, <2>2, <3>2, <3>3 DEF Rows
  <2> QED
    BY <1>5, <2>1, <2>2
<1>7. \A i \in Nat : RowStart(n, i) = IF i = 0 THEN s ELSE s + r + 1 + (i - 1) * e
  BY <1>2, <1>3, <1>5 DEF RowStart
<1>8. \A i \in Nat : RowFirst(n, i) = IF i = 0 THEN E - r ELSE 0
  BY <1>5 DEF RowFirst
<1>9. r = 0 => q >= 1
  BY <1>1, <1>4, <1>5
<1>10. Rows(n) \in Nat /\ Rows(n) >= 1
  BY <1>6, <1>9
<1>11. \A i \in Nat : i * e \in Nat
  BY Multiplied
<1>12. \A i \in Nat : RowStart(n, i) \in Nat /\ RowFirst(n, i) \in Nat /\ RowFirst(n, i) <= E
  <2> SUFFICES ASSUME NEW i \in Nat
               PROVE  RowStart(n, i) \in Nat /\ RowFirst(n, i) \in Nat /\ RowFirst(n, i) <= E
    OBVIOUS
  <2>1. E \in Nat /\ r <= E
    BY <1>2, <1>5, SizeFacts
  <2>2. i # 0 => (i - 1) * e \in Nat
    BY <1>11
  <2> QED
    BY <1>7, <1>8, <2>1, <2>2
<1>13. ASSUME NEW i \in Nat
       PROVE  RowStart(n, i + 1) = RowStart(n, i) + (E - RowFirst(n, i)) + 1
  <2>0. E \in Nat /\ i + 1 \in Nat /\ i + 1 # 0 /\ (i + 1) - 1 = i
    BY SizeFacts
  <2>1. RowStart(n, i + 1) = s + r + 1 + i * e
    BY <1>7, <2>0
  <2>2. CASE i = 0
    BY <1>2, <1>7, <1>8, <2>0, <2>1, <2>2
  <2>3. CASE i # 0
    <3>1. PICK j \in Nat : i = j + 1 /\ i - 1 = j
      BY <2>3
    <3>2. i * e = j * e + e /\ j * e \in Nat
      BY <3>1, Multiplied
    <3>3. RowStart(n, i) = s + r + 1 + j * e /\ RowFirst(n, i) = 0
      BY <1>7, <1>8, <2>3, <3>1
    <3> QED
      BY <1>2, <2>0, <2>1, <3>2, <3>3
  <2> QED
    BY <2>2, <2>3
<1>14. ASSUME NEW i \in Nat, NEW j \in Nat, i < j PROVE RowStart(n, i + 1) <= RowStart(n, j)
  <2>1. PICK k \in Nat : j = k + 1 /\ j - 1 = k /\ i <= k
    BY <1>14
  <2>2. i * e <= k * e /\ i * e \in Nat /\ k * e \in Nat
    BY <2>1, Multiplied
  <2>3. RowStart(n, i + 1) = s + r + 1 + i * e
    <3>1. i + 1 \in Nat /\ i + 1 # 0 /\ (i + 1) - 1 = i
      OBVIOUS
    <3> QED
      BY <1>7, <3>1
  <2>4. RowStart(n, j) = s + r + 1 + k * e
    BY <1>7, <2>1
  <2> QED
    BY <2>2, <2>3, <2>4
<1>15. PICK p \in Nat : p + 1 = Rows(n) /\ Rows(n) - 1 = p
  BY <1>10
<1>16. RowStart(n, Rows(n)) = s + r + 1 + p * e /\ p * e \in Nat
  BY <1>7, <1>10, <1>11, <1>15
<1>17. RowStart(n, Rows(n)) = IF Rest(n) > 0 THEN n ELSE n - (E + 1)
  <2>1. CASE r > 0
    <3>1. p = q
      BY <1>6, <1>15, <2>1
    <3> QED
      BY <1>1, <1>3, <1>5, <1>16, <2>1, <3>1
  <2>2. CASE r = 0
    <3>1. q = p + 1 /\ q * e = p * e + e
      BY <1>6, <1>15, <2>2, Multiplied
    <3> QED
      BY <1>1, <1>2, <1>3, <1>5, <1>16, <2>2, <3>1
  <2> QED
    BY <1>5, <2>1, <2>2
<1>18. Rows(n) <= n
  <2>1. p <= p * e
    BY <1>2, <1>15
  <2>2. RowStart(n, Rows(n)) <= n
    BY <1>3, <1>5, <1>17, SizeFacts
  <2> QED
    BY <1>3, <1>5, <1>15, <1>16, <2>1, <2>2
<1>19. RowStart(n, 0) = Start(n)
  BY DEF RowStart
<1>20. Rest(n) \in Nat /\ Rest(n) <= E
  BY <1>2, <1>5, SizeFacts
<1> QED
  BY <1>10, <1>12, <1>13, <1>14, <1>17, <1>18, <1>19, <1>20

LEMMA RowsInside ==
    ASSUME NEW n \in Sizes, IlistSize(n) > 0, NEW i \in 0 .. Rows(n) - 1
    PROVE  /\ i \in Nat /\ i + 1 \in Nat /\ i < Rows(n)
           /\ RowStart(n, i) \in Start(n) .. n - 1
           /\ RowStart(n, i + 1) \in Nat /\ RowStart(n, i) < RowStart(n, i + 1)
           /\ RowStart(n, i + 1) <= RowStart(n, Rows(n)) /\ RowStart(n, Rows(n)) <= n
           /\ i + 1 < Rows(n) => RowStart(n, i + 1) < n
           /\ \A j \in 0 .. Rows(n) - 1 : i # j => RowStart(n, i) # RowStart(n, j)
<1>1. /\ Rows(n) \in Nat /\ E \in Nat /\ n \in Nat /\ Start(n) \in Nat
      /\ Rest(n) \in Nat
  BY RowFacts, SizeFacts
<1>2. i \in Nat /\ i + 1 \in Nat /\ i < Rows(n)
  BY <1>1
<1>3. ASSUME NEW j \in Nat PROVE RowStart(n, j) \in Nat /\ RowStart(n, j) < RowStart(n, j + 1)
  <2>1. PICK a \in Nat : a = RowStart(n, j)
    BY RowFacts
  <2>2. PICK b \in Nat : b = RowFirst(n, j) /\ b <= E
    BY RowFacts
  <2>3. RowStart(n, j + 1) = a + (E - b) + 1
    BY <2>1, <2>2, RowFacts
  <2> QED
    BY <1>1, <2>1, <2>2, <2>3
<1>4. ASSUME NEW j \in Nat, NEW k \in Nat, j < k
      PROVE  RowStart(n, j + 1) <= RowStart(n, k) /\ RowStart(n, j) < RowStart(n, k)
  <2>1. RowStart(n, j + 1) <= RowStart(n, k)
    BY <1>4, RowFacts
  <2>2. /\ RowStart(n, j) \in Nat /\ RowStart(n, j + 1) \in Nat /\ RowStart(n, k) \in Nat
        /\ RowStart(n, j) < RowStart(n, j + 1)
    BY <1>3
  <2> QED
    BY <2>1, <2>2
<1>5. RowStart(n, Rows(n)) <= n
  <2>1. RowStart(n, Rows(n)) = IF Rest(n) > 0 THEN n ELSE n - (E + 1)
    BY RowFacts
  <2> QED
    BY <1>1, <2>1
<1>6. RowStart(n, 0) = Start(n)
  BY RowFacts
<1>7. Start(n) <= RowStart(n, i)
  <2>1. PICK z \in Nat : z = 0
    OBVIOUS
  <2>2. z < i => RowStart(n, z) < RowStart(n, i)
    BY <1>2, <1>4, <2>1
  <2>3. i = 0 \/ z < i
    BY <1>2, <2>1
  <2>4. RowStart(n, i) \in Nat
    BY <1>2, <1>3
  <2> QED
    BY <1>1, <1>6, <2>1, <2>2, <2>3, <2>4
<1>8. RowStart(n, i + 1) <= RowStart(n, Rows(n))
  BY <1>1, <1>2, <1>4
<1>9. i + 1 < Rows(n) => RowStart(n, i + 1) < RowStart(n, Rows(n))
  BY <1>1, <1>2, <1>4
<1>10. ASSUME NEW j \in 0 .. Rows(n) - 1, i # j PROVE RowStart(n, i) # RowStart(n, j)
  <2>1. j \in Nat /\ RowStart(n, i) \in Nat /\ RowStart(n, j) \in Nat /\ (i < j \/ j < i)
    BY <1>1, <1>2, <1>3, <1>10
  <2> QED
    BY <1>2, <1>4, <2>1
<1>11. RowStart(n, i) \in Nat /\ RowStart(n, i + 1) \in Nat /\ RowStart(n, i) < RowStart(n, i + 1)
       /\ RowStart(n, Rows(n)) \in Nat
  BY <1>1, <1>2, <1>3
<1> QED
  BY <1>1, <1>2, <1>5, <1>7, <1>8, <1>9, <1>10, <1>11

-----------------------------------------------------------------------------
(* What the blocks hold                                                    *)

(* A block of the i-list, with `ino' for the first inode of all.           *)
InodesAt(b, ino) ==
    [kind |-> "inodes", first |-> (b - 1) * InodesPerBlock,
     inode |-> [i \in 0 .. InodesPerBlock - 1 |-> IF b = 1 /\ i = 0 THEN ino ELSE FreeInode]]

(* The list block of a row, when the block `out' was taken from the list.  *)
Entry(n, i, s) == RowStart(n, i) + (s - RowFirst(n, i)) + 1
NextRow(n, i) == IF RowStart(n, i + 1) >= n THEN 0 ELSE RowStart(n, i + 1)
RowBlock(n, i, out) ==
    ListBlock(NextRow(n, i),
              [s \in Slots |-> IF s < RowFirst(n, i) \/ Entry(n, i, s) = out
                               THEN 0 ELSE Entry(n, i, s)])

(* The block that the root directory gets, and the row the list begins     *)
(* with after that: the first entry, or, without one, the block itself.    *)
Root(n) == IF Rest(n) > 0 THEN Start(n) + 1 ELSE Start(n)
FirstRow(n) == IF Rest(n) > 0 THEN 0 ELSE 1
RootInode(b) == [in_use |-> TRUE, block |-> b]

Aside(n, b, r) == r.kind = "held" \/ (b = Root(n) /\ r.kind = "entries")

(* The first k blocks of the i-list and the rows from lo to hi - 1; the    *)
(* other blocks hold what they held, but for the root directory's.         *)
Layout(n, k, ino, lo, hi, out) ==
    /\ \A b \in 1 .. k : device[b] = InodesAt(b, ino)
    /\ \A i \in lo .. hi - 1 : device[RowStart(n, i)] = RowBlock(n, i, out)
    /\ \A b \in Start(n) .. n - 1 :
           (\A i \in lo .. hi - 1 : b # RowStart(n, i)) => Aside(n, b, device[b])

Fresh(n) ==
    [ilist_size |-> IlistSize(n), n_blocks |-> n, flist_head |-> Start(n),
     free_blocks |-> (NDataBlocks(n) + SizeModulus) % SizeModulus,
     free_inodes |-> IlistSize(n) * InodesPerBlock]
Final(n) ==
    [ilist_size |-> IlistSize(n), n_blocks |-> n, flist_head |-> RowStart(n, FirstRow(n)),
     free_blocks |-> NDataBlocks(n) - 1,
     free_inodes |-> IlistSize(n) * InodesPerBlock - 1]

(* The stages of a device that has room for inodes.                        *)
Made(n) ==
    /\ root_data = Root(n) /\ sblock_incore = Final(n)
    /\ device[0] = Super(Final(n)) /\ device[Root(n)] = RootEntries
    /\ Layout(n, IlistSize(n), RootInode(Root(n)), FirstRow(n), Rows(n), Root(n))
Growing(n) ==
    /\ stage = "start" => row = 0 /\ \A b \in 0 .. n - 1 : device[b].kind = "held"
    /\ stage = "ilist" => /\ row \in 0 .. IlistSize(n)
                         /\ Layout(n, row, FreeInode, 0, 0, 0)
    /\ stage = "list" => /\ row \in 0 .. Rows(n)
                        /\ (row < Rows(n) => head = RowStart(n, row))
                        /\ Layout(n, IlistSize(n), FreeInode, 0, row, 0)
    /\ stage = "inode" => Layout(n, IlistSize(n), FreeInode, 0, Rows(n), 0)
    /\ stage = "block" =>
           /\ sblock_incore = [Fresh(n) EXCEPT !.free_inodes = @ - 1]
           /\ Layout(n, IlistSize(n), RootInode(0), 0, Rows(n), 0)
    /\ stage \in {"entries", "root"} =>
           /\ root_data = Root(n) /\ sblock_incore = Final(n)
           /\ Layout(n, IlistSize(n), RootInode(0), FirstRow(n), Rows(n), Root(n))
    /\ stage = "root" => device[Root(n)] = RootEntries
    /\ stage = "update" =>
           /\ root_data = Root(n) /\ sblock_incore = Final(n) /\ device[Root(n)] = RootEntries
           /\ Layout(n, IlistSize(n), RootInode(Root(n)), FirstRow(n), Rows(n), Root(n))
    /\ stage \in {"made", "formatted", "serving"} => Made(n)

(* What the answers of mkfs say of the device.                             *)
Control(n) ==
    /\ stage \in {"ilist", "list", "inode"} => sblock_incore = Fresh(n)
    /\ stage = "failed" => IlistSize(n) = 0
    /\ stage \in {"block", "entries", "root", "update", "made"} => IlistSize(n) > 0
    /\ stage = "formatted" => program = "mkfs.cofs" /\ (status = 0 => IlistSize(n) > 0)
    /\ stage = "serving" /\ (program = "cofs -m" \/ status = 0) => IlistSize(n) > 0
    /\ stage # "checked" => complaints = {}
    /\ stage = "checked" =>
           IF IlistSize(n) = 0 THEN status = 0
           ELSE complaints = {"n_blocks"} \union IF Rest(n) > 0 THEN {} ELSE {"flist_head"}

Shaped(n) == device = [b \in 0 .. n - 1 |-> device[b]]
At(n) == Shaped(n) /\ Control(n) /\ (IlistSize(n) > 0 => Growing(n))

(* The inductive invariant.                                                *)
MkfsInv == \E n \in Sizes : At(n)

-----------------------------------------------------------------------------
(* The stages                                                              *)
LEMMA Sized ==
    ASSUME NEW n \in Sizes, Shaped(n)
    PROVE  DOMAIN device = 0 .. n - 1 /\ NUM_BLOCKS = n
<1>1. DOMAIN device = 0 .. n - 1
  BY DEF Shaped
<1>2. PICK a \in Int : a = 0
  OBVIOUS
<1>3. PICK b \in Int : b = n - 1
  BY SizeFacts
<1>4. Cardinality(a .. b) = IF a > b THEN 0 ELSE b - a + 1
  BY FS_Interval
<1> QED
  BY <1>1, <1>2, <1>3, <1>4, SizeFacts DEF NUM_BLOCKS

(* What a write changes.                                                   *)
LEMMA Rewritten ==
    ASSUME NEW n \in Sizes, Shaped(n), NEW x, NEW v,
           device' = Written(x, v)
    PROVE  /\ Shaped(n)'
           /\ \A b \in 0 .. n - 1 : device'[b] = IF b = x THEN v ELSE device[b]
<1>1. PICK D : D = 0 .. n - 1
  OBVIOUS
<1>2. device = [b \in D |-> device[b]]
  BY <1>1 DEF Shaped
<1>3. device' = [b \in D |-> IF b = x THEN v ELSE device[b]]
  BY <1>2 DEF Written
<1>4. device' = [b \in D |-> device'[b]]
  BY <1>3
<1> QED
  BY <1>1, <1>3, <1>4 DEF Shaped

LEMMA MkfsStart ==
    ASSUME MkfsInit
    PROVE  MkfsInv
<1>1. PICK size \in Sizes :
           \/ device = [b \in 0 .. size - 1 |-> Zeros]
           \/ \E held \in Contents : device = [b \in 0 .. size - 1 |-> Held(held[b])]
  BY DEF MkfsInit
<1>2. Shaped(size)
  BY <1>1 DEF Shaped
<1>3. ASSUME NEW b \in 0 .. size - 1
      PROVE  device[b].kind = "held"
  <2>1. CASE device = [c \in 0 .. size - 1 |-> Zeros]
    <3>1. device[b] = Zeros
      BY <2>1
    <3> QED
      BY <3>1 DEF Zeros, Held
  <2>2. ASSUME NEW held \in Contents, device = [c \in 0 .. size - 1 |-> Held(held[c])]
        PROVE  device[b].kind = "held"
    <3>1. device[b] = Held(held[b])
      BY <2>2
    <3> QED
      BY <3>1 DEF Held
  <2> QED
    BY <1>1, <2>1, <2>2
<1>4. stage = "start" /\ complaints = {} /\ row = 0
  BY DEF MkfsInit
<1>5. Control(size) /\ Growing(size)
  BY <1>3, <1>4 DEF Control, Growing
<1> QED
  BY <1>1, <1>2, <1>5 DEF MkfsInv, At

(* The blocks of a device that has room for inodes.                        *)
LEMMA Regions ==
    ASSUME NEW n \in Sizes, IlistSize(n) > 0
    PROVE  /\ n \in Nat /\ n > 0 /\ 0 \in 0 .. n - 1 /\ 1 \in 1 .. IlistSize(n)
           /\ IlistSize(n) \in Nat /\ Start(n) \in Nat /\ Start(n) = IlistSize(n) + 1
           /\ \A b \in 1 .. IlistSize(n) : b \in 0 .. n - 1 /\ b # 0 /\ b < Start(n)
           /\ \A b \in Start(n) .. n - 1 : b \in 0 .. n - 1 /\ b # 0 /\ b \notin 1 .. IlistSize(n)
           /\ Start(n) \in Start(n) .. n - 1 /\ Start(n) + 1 \in Start(n) .. n - 1
           /\ Root(n) \in Start(n) .. n - 1
<1>1. /\ n \in Nat /\ IlistSize(n) \in Nat /\ Start(n) = IlistSize(n) + 1
      /\ NDataBlocks(n) \in Nat /\ NDataBlocks(n) >= 2 /\ n = Start(n) + NDataBlocks(n)
  BY SizeFacts
<1> HIDE DEF IlistSize, Start, NDataBlocks
<1>2. Start(n) \in Nat
  BY <1>1
<1> QED
  BY <1>1, <1>2 DEF Root

LEMMA SuperblockStep ==
    ASSUME NEW n \in Sizes, At(n), WriteSuperblock
    PROVE  At(n)'
<1>1. Shaped(n) /\ NUM_BLOCKS = n /\ stage = "start" /\ complaints' = {}
  BY Sized DEF At, Control, WriteSuperblock
<1>2. sblock_incore' = Fresh(n)
  BY <1>1 DEF WriteSuperblock, Fresh
<1>3. CASE Writable(0)
  <2>1. stage' = "ilist" /\ row' = row /\ device' = Written(0, Super(sblock_incore'))
    BY <1>3 DEF WriteSuperblock
  <2>2. /\ Shaped(n)'
        /\ \A b \in 0 .. n - 1 : device'[b] = IF b = 0 THEN Super(sblock_incore') ELSE device[b]
    <3>1. PICK z, v : z = 0 /\ v = Super(sblock_incore')
      OBVIOUS
    <3>2. device' = Written(z, v)
      BY <2>1, <3>1
    <3> QED
      BY <1>1, <3>1, <3>2, Rewritten
  <2>3. Control(n)'
    BY <1>1, <1>2, <2>1 DEF Control
  <2>4. ASSUME IlistSize(n) > 0 PROVE Growing(n)'
    <3>1. row' = 0 /\ \A b \in 0 .. n - 1 : device[b].kind = "held"
      BY <1>1, <2>1, <2>4 DEF At, Growing
    <3>2. \A b \in Start(n) .. n - 1 : device'[b].kind = "held"
      BY <2>2, <2>4, <3>1, Regions
    <3>3. Layout(n, 0, FreeInode, 0, 0, 0)'
      BY <3>2 DEF Layout, Aside
    <3>4. Layout(n, row, FreeInode, 0, 0, 0)'
      BY <3>1, <3>3 DEF Layout
    <3> QED
      BY <2>1, <2>4, <3>1, <3>4, Regions DEF Growing
  <2> QED
    BY <2>2, <2>3, <2>4 DEF At
<1>4. CASE ~Writable(0)
  <2>1. stage' = "failed" /\ device' = device
    BY <1>4 DEF WriteSuperblock
  <2>2. n = 0
    BY <1>1, <1>4, SizeFacts DEF Writable
  <2>3. IlistSize(n) = 0
    BY <2>2, Regions, SizeFacts
  <2> QED
    BY <1>1, <2>1, <2>3 DEF At, Control, Shaped
<1> QED
  BY <1>3, <1>4

LEMMA IlistStep ==
    ASSUME NEW n \in Sizes, At(n), CreateIlist
    PROVE  At(n)'
<1>1. Shaped(n) /\ NUM_BLOCKS = n /\ stage = "ilist" /\ complaints' = {}
  BY Sized DEF At, Control, CreateIlist
<1>2. sblock_incore' = sblock_incore /\ sblock_incore = Fresh(n)
  BY <1>1 DEF At, Control, CreateIlist
<1>3. sblock_incore.ilist_size = IlistSize(n)
  BY <1>2 DEF Fresh
<1>4. CASE row < sblock_incore.ilist_size
  <2>1. PICK x, v : x = 1 + row /\ v = InodeBlock(row * InodesPerBlock)
    OBVIOUS
  <2>2. stage' = stage /\ row' = row + 1 /\ device' = Written(x, v)
    BY <1>4, <2>1 DEF CreateIlist
  <2>3. Shaped(n)' /\ \A b \in 0 .. n - 1 : device'[b] = IF b = x THEN v ELSE device[b]
    BY <1>1, <2>2, Rewritten
  <2>4. Control(n)'
    BY <1>1, <1>2, <2>2 DEF Control
  <2>5. ASSUME IlistSize(n) > 0 PROVE Growing(n)'
    <3>1. row \in 0 .. IlistSize(n) /\ Layout(n, row, FreeInode, 0, 0, 0)
      BY <1>1, <2>5 DEF At, Growing
    <3>2. row \in Nat /\ row < IlistSize(n) /\ x \in 1 .. IlistSize(n) /\ x - 1 = row /\ x = row + 1
      BY <1>3, <1>4, <2>1, <2>5, <3>1, Regions
    <3>3. v = InodesAt(x, FreeInode)
      BY <2>1, <3>2 DEF InodesAt, InodeBlock
    <3>4. ASSUME NEW b \in 1 .. row + 1 PROVE device'[b] = InodesAt(b, FreeInode)
      <4>1. b \in 1 .. IlistSize(n) /\ (b = x \/ b \in 1 .. row)
        BY <2>5, <3>2, Regions
      <4>2. b \in 0 .. n - 1
        BY <2>5, <4>1, Regions
      <4> QED
        BY <2>3, <3>1, <3>3, <4>1, <4>2 DEF Layout
    <3>5. ASSUME NEW b \in Start(n) .. n - 1 PROVE Aside(n, b, device'[b])
      <4>1. b # x /\ b \in 0 .. n - 1
        BY <2>5, <3>2, Regions
      <4> QED
        BY <2>3, <3>1, <4>1 DEF Layout
    <3>6. Layout(n, row, FreeInode, 0, 0, 0)'
      BY <2>2, <3>4, <3>5 DEF Layout
    <3>7. row' \in 0 .. IlistSize(n)
      BY <2>2, <2>5, <3>2, Regions
    <3> QED
      BY <1>1, <2>2, <3>6, <3>7 DEF Growing
  <2> QED
    BY <2>3, <2>4, <2>5 DEF At
<1>5. CASE ~(row < sblock_incore.ilist_size)
  <2>1. stage' = "list" /\ row' = 0 /\ head' = Start(n) /\ device' = device
    BY <1>1, <1>5 DEF CreateIlist
  <2>2. Control(n)'
    BY <1>1, <1>2, <2>1 DEF Control
  <2>3. ASSUME IlistSize(n) > 0 PROVE Growing(n)'
    <3>1. row \in 0 .. IlistSize(n) /\ Layout(n, row, FreeInode, 0, 0, 0)
      BY <1>1, <2>3 DEF At, Growing
    <3>2. row = IlistSize(n)
      BY <1>3, <1>5, <2>3, <3>1, Regions
    <3>3. Layout(n, IlistSize(n), FreeInode, 0, 0, 0)'
      BY <2>1, <3>1, <3>2 DEF Layout
    <3>4. row' \in 0 .. Rows(n) /\ head' = RowStart(n, row')
      BY <2>1, <2>3, RowFacts
    <3>5. Layout(n, IlistSize(n), FreeInode, 0, row, 0)'
      BY <2>1, <3>3 DEF Layout
    <3> QED
      BY <2>1, <3>4, <3>5 DEF Growing
  <2> QED
    BY <1>1, <2>1, <2>2, <2>3 DEF At, Shaped
<1> QED
  BY <1>4, <1>5

LEMMA StartingIs ==
    ASSUME NEW n \in Sizes, IlistSize(n) > 0, NUM_BLOCKS = n,
           sblock_incore = Fresh(n), NEW i \in 0 .. Rows(n) - 1
    PROVE  StartingBlock(RowStart(n, i), FirstEntry(i)) = RowBlock(n, i, 0)
<1>1. PICK b \in Nat : b = RowStart(n, i)
  BY RowsInside, RowFacts
<1>2. PICK f \in Nat : f = RowFirst(n, i) /\ f <= E
  BY RowsInside, RowFacts
<1>3. FirstEntry(i) = f
  BY <1>2, ListSizes
<1>4. E \in Nat /\ i \in Nat
  BY SizeFacts, RowsInside
<1>5. RowStart(n, i + 1) = b + (E - f) + 1
  BY <1>1, <1>2, <1>4, RowFacts
<1>6. sblock_incore.n_blocks = n
  BY DEF Fresh
<1>7. \A s \in Slots : Entry(n, i, s) = b + (s - f) + 1
  BY <1>1, <1>2 DEF Entry
<1>8. [s \in Slots |-> IF s < f THEN 0 ELSE b + (s - f) + 1]
        = [s \in Slots |-> IF s < RowFirst(n, i) \/ Entry(n, i, s) = 0 THEN 0 ELSE Entry(n, i, s)]
  BY <1>2, <1>7
<1> QED
  BY <1>1, <1>3, <1>5, <1>6, <1>8 DEF StartingBlock, RowBlock, NextRow

LEMMA ListStep ==
    ASSUME NEW n \in Sizes, At(n), CreateList
    PROVE  At(n)'
<1>1. Shaped(n) /\ NUM_BLOCKS = n /\ stage = "list" /\ complaints' = {}
  BY Sized DEF At, Control, CreateList
<1>2. sblock_incore' = sblock_incore /\ sblock_incore = Fresh(n)
  BY <1>1 DEF At, Control, CreateList
<1>3. CASE row < NFreeListBlocks
  <2>1. PICK x, v : x = head /\ v = StartingBlock(head, FirstEntry(row))
    OBVIOUS
  <2>2. stage' = stage /\ row' = row + 1 /\ device' = Written(x, v) /\ head' = device'[head].next
    BY <1>3, <2>1 DEF CreateList
  <2>3. Shaped(n)' /\ \A b \in 0 .. n - 1 : device'[b] = IF b = x THEN v ELSE device[b]
    BY <1>1, <2>2, Rewritten
  <2>4. Control(n)'
    BY <1>1, <1>2, <2>2 DEF Control
  <2>5. ASSUME IlistSize(n) > 0 PROVE Growing(n)'
    <3>1. row \in 0 .. Rows(n) /\ Layout(n, IlistSize(n), FreeInode, 0, row, 0)
          /\ (row < Rows(n) => head = RowStart(n, row))
      BY <1>1, <2>5 DEF At, Growing
    <3>2. NFreeListBlocks = Rows(n) /\ Rows(n) \in Nat
      BY <1>1, <2>5, ListSizes, RowFacts
    <3>3. row \in 0 .. Rows(n) - 1 /\ x = RowStart(n, row) /\ x = head /\ row \in Nat
      BY <1>3, <2>1, <3>1, <3>2
    <3>4. v = RowBlock(n, row, 0)
      BY <1>1, <1>2, <2>1, <2>5, <3>3, StartingIs
    <3>5. x \in Start(n) .. n - 1 /\ x \in 0 .. n - 1
      BY <2>5, <3>3, RowsInside, Regions
    <3>6. ASSUME NEW b \in 1 .. IlistSize(n) PROVE device'[b] = InodesAt(b, FreeInode)
      <4>1. b \in 0 .. n - 1 /\ b # x
        BY <2>5, <3>5, Regions
      <4> QED
        BY <2>3, <3>1, <4>1 DEF Layout
    <3>7. ASSUME NEW i \in 0 .. row PROVE device'[RowStart(n, i)] = RowBlock(n, i, 0)
      <4>1. i \in 0 .. Rows(n) - 1 /\ (i = row \/ i \in 0 .. row - 1)
        BY <3>2, <3>3
      <4>2. RowStart(n, i) \in 0 .. n - 1 /\ (i # row => RowStart(n, i) # x)
        BY <2>5, <3>3, <4>1, RowsInside, Regions
      <4> QED
        BY <2>3, <3>1, <3>3, <3>4, <4>1, <4>2 DEF Layout
    <3>8. ASSUME NEW b \in Start(n) .. n - 1, \A i \in 0 .. row : b # RowStart(n, i)
          PROVE  Aside(n, b, device'[b])
      <4>1. row \in 0 .. row /\ \A i \in 0 .. row - 1 : i \in 0 .. row
        BY <3>3
      <4>2. b # x /\ \A i \in 0 .. row - 1 : b # RowStart(n, i)
        BY <3>3, <3>8, <4>1
      <4>3. b \in 0 .. n - 1
        BY <2>5, Regions
      <4> QED
        BY <2>3, <3>1, <4>2, <4>3 DEF Layout
    <3>9. (row + 1) - 1 = row
      BY <3>3
    <3>10. Layout(n, IlistSize(n), FreeInode, 0, row, 0)'
      BY <2>2, <3>6, <3>7, <3>8, <3>9 DEF Layout
    <3>11. row' \in 0 .. Rows(n)
      BY <2>2, <3>2, <3>3
    <3>12. head' = NextRow(n, row)
      BY <2>2, <2>3, <3>3, <3>4, <3>5 DEF RowBlock, ListBlock
    <3>13. row' < Rows(n) => head' = RowStart(n, row')
      <4>1. row + 1 < Rows(n) => RowStart(n, row + 1) < n /\ RowStart(n, row + 1) \in Nat
        BY <2>5, <3>3, RowsInside
      <4> QED
        BY <2>2, <3>12, <4>1, SizeFacts DEF NextRow
    <3> QED
      BY <1>1, <2>2, <3>10, <3>11, <3>13 DEF Growing
  <2> QED
    BY <2>3, <2>4, <2>5 DEF At
<1>4. CASE ~(row < NFreeListBlocks)
  <2>1. stage' = "inode" /\ device' = device
    BY <1>4 DEF CreateList
  <2>2. Control(n)'
    BY <1>1, <1>2, <2>1 DEF Control
  <2>3. ASSUME IlistSize(n) > 0 PROVE Growing(n)'
    <3>1. row \in 0 .. Rows(n) /\ Layout(n, IlistSize(n), FreeInode, 0, row, 0)
      BY <1>1, <2>3 DEF At, Growing
    <3>2. NFreeListBlocks = Rows(n) /\ Rows(n) \in Nat
      BY <1>1, <2>3, ListSizes, RowFacts
    <3>3. row = Rows(n)
      BY <1>4, <3>1, <3>2
    <3>4. Layout(n, IlistSize(n), FreeInode, 0, Rows(n), 0)'
      BY <2>1, <3>1, <3>3 DEF Layout
    <3> QED
      BY <2>1, <3>4 DEF Growing
  <2> QED
    BY <1>1, <2>1, <2>2, <2>3 DEF At, Shaped
<1> QED
  BY <1>3, <1>4

LEMMA RootInodeStep ==
    ASSUME NEW n \in Sizes, At(n), AllocateRoot
    PROVE  At(n)'
<1>1. Shaped(n) /\ NUM_BLOCKS = n /\ stage = "inode" /\ complaints' = {}
  BY Sized DEF At, Control, AllocateRoot
<1>2. sblock_incore = Fresh(n)
  BY <1>1 DEF At, Control
<1>3. sblock_incore.ilist_size = IlistSize(n)
  BY <1>2 DEF Fresh
<1>4. CASE IlistSize(n) > 0
  <2>1. PICK x, v : x = 1 /\ v = [device[1] EXCEPT !.inode[0].in_use = TRUE]
    OBVIOUS
  <2>2. /\ stage' = "block" /\ device' = Written(x, v)
        /\ sblock_incore' = [sblock_incore EXCEPT !.free_inodes = @ - 1]
    BY <1>3, <1>4, <2>1 DEF AllocateRoot
  <2>3. Shaped(n)' /\ \A b \in 0 .. n - 1 : device'[b] = IF b = x THEN v ELSE device[b]
    BY <1>1, <2>2, Rewritten
  <2>4. Control(n)'
    BY <1>1, <1>4, <2>2 DEF Control
  <2>5. Layout(n, IlistSize(n), FreeInode, 0, Rows(n), 0)
    BY <1>1, <1>4 DEF At, Growing
  <2>6. x \in 1 .. IlistSize(n) /\ device[1] = InodesAt(1, FreeInode)
    BY <1>4, <2>1, <2>5, Regions DEF Layout
  <2>7. v = InodesAt(1, RootInode(0))
    <3>1. PICK f, g, D : /\ f = (1 - 1) * InodesPerBlock /\ D = 0 .. InodesPerBlock - 1
                         /\ g = [i \in D |-> FreeInode]
      OBVIOUS
    <3>2. 0 \in D
      BY <3>1, SizeFacts
    <3>3. device[1] = [kind |-> "inodes", first |-> f, inode |-> g]
      BY <2>6, <3>1 DEF InodesAt
    <3>4. PICK t, u : t = TRUE /\ u = FALSE
      BY Zenon
    <3>5. FreeInode = [in_use |-> u, block |-> 0] /\ RootInode(0) = [in_use |-> t, block |-> 0]
      BY <3>4, Zenon DEF FreeInode, RootInode
    <3>6. v = [device[1] EXCEPT !.inode[0].in_use = t]
      BY <2>1, <3>4, Zenon
    <3>7. g[0] = FreeInode
      BY <3>1, <3>2
    <3>8. v = [kind |-> "inodes", first |-> f, inode |-> [g EXCEPT ![0] = [g[0] EXCEPT !.in_use = t]]]
      BY <3>3, <3>6
    <3>9. [g[0] EXCEPT !.in_use = t] = RootInode(0)
      BY <3>5, <3>7
    <3>10. [g EXCEPT ![0] = RootInode(0)] = [i \in D |-> IF i = 0 THEN RootInode(0) ELSE FreeInode]
      BY <3>1
    <3>11. InodesAt(1, RootInode(0))
               = [kind |-> "inodes", first |-> f,
                  inode |-> [i \in D |-> IF i = 0 THEN RootInode(0) ELSE FreeInode]]
      BY <3>1 DEF InodesAt
    <3> QED
      BY <3>8, <3>9, <3>10, <3>11
  <2>8. ASSUME NEW b \in 1 .. IlistSize(n) PROVE device'[b] = InodesAt(b, RootInode(0))
    <3>1. b \in 0 .. n - 1
      BY <1>4, Regions
    <3>2. b # 1 => InodesAt(b, RootInode(0)) = InodesAt(b, FreeInode)
      BY DEF InodesAt
    <3> QED
      BY <2>1, <2>3, <2>5, <2>7, <3>1, <3>2 DEF Layout
  <2>9. \A b \in Start(n) .. n - 1 : device'[b] = device[b]
    BY <1>4, <2>3, <2>6, Regions
  <2>10. \A i \in 0 .. Rows(n) - 1 : RowStart(n, i) \in Start(n) .. n - 1
    BY <1>4, RowsInside
  <2>11. Layout(n, IlistSize(n), RootInode(0), 0, Rows(n), 0)'
    BY <2>5, <2>8, <2>9, <2>10 DEF Layout
  <2>12. Growing(n)'
    BY <1>2, <2>2, <2>11 DEF Growing
  <2> QED
    BY <2>3, <2>4, <2>12 DEF At
<1>5. CASE ~(IlistSize(n) > 0)
  <2>1. stage' = "failed" /\ device' = device
    BY <1>3, <1>5 DEF AllocateRoot
  <2>2. IlistSize(n) = 0
    BY <1>5, SizeFacts
  <2> QED
    BY <1>1, <2>1, <2>2 DEF At, Control, Shaped
<1> QED
  BY <1>4, <1>5

-----------------------------------------------------------------------------
(* The root's block is the first of the list's first row.                  *)
LEMMA RootFirst ==
    ASSUME NEW n \in Sizes, IlistSize(n) > 0
    PROVE  /\ Root(n) \in Nat /\ Start(n) \in Nat /\ Start(n) <= Root(n)
           /\ RowStart(n, 0 + 1) \in Nat /\ Root(n) < RowStart(n, 0 + 1)
           /\ RowStart(n, 0 + 1) = Start(n) + Rest(n) + 1
           /\ 0 \in 0 .. Rows(n) - 1 /\ FirstRow(n) \in Nat /\ FirstRow(n) <= Rows(n)
           /\ \A i \in 1 .. Rows(n) - 1 : /\ i \in 0 .. Rows(n) - 1
                                          /\ Root(n) < RowStart(n, i) /\ RowStart(n, i) \in Nat
<1>1. Start(n) \in Nat /\ Rest(n) \in Nat /\ Rest(n) <= E /\ E \in Nat /\ Rows(n) \in Nat /\ Rows(n) >= 1
  BY SizeFacts, RowFacts
<1>2. PICK z \in Nat : z = 0
  OBVIOUS
<1>3. RowStart(n, z) = Start(n) /\ RowFirst(n, z) = E - Rest(n)
  BY <1>2 DEF RowStart, RowFirst
<1>4. RowStart(n, z + 1) = RowStart(n, z) + (E - RowFirst(n, z)) + 1
  BY RowFacts
<1>5. RowStart(n, 0 + 1) = Start(n) + Rest(n) + 1
  BY <1>1, <1>2, <1>3, <1>4
<1>6. ASSUME NEW i \in 1 .. Rows(n) - 1
      PROVE  /\ i \in 0 .. Rows(n) - 1 /\ RowStart(n, i) \in Nat
             /\ RowStart(n, 0 + 1) <= RowStart(n, i)
  <2>1. i \in Nat /\ i \in 0 .. Rows(n) - 1 /\ z < i
    BY <1>1, <1>2
  <2>2. RowStart(n, z + 1) <= RowStart(n, i)
    BY <2>1, RowFacts
  <2>3. RowStart(n, i) \in Nat
    BY <2>1, RowFacts
  <2> QED
    BY <1>2, <2>1, <2>2, <2>3
<1>7. Root(n) \in Nat /\ Start(n) <= Root(n) /\ Root(n) < Start(n) + Rest(n) + 1
  BY <1>1 DEF Root
<1>8. ASSUME NEW i \in 1 .. Rows(n) - 1 PROVE Root(n) < RowStart(n, i)
  BY <1>1, <1>5, <1>6, <1>7
<1>9. 0 \in 0 .. Rows(n) - 1 /\ FirstRow(n) \in Nat /\ FirstRow(n) <= Rows(n)
  BY <1>1 DEF FirstRow
<1> QED
  BY <1>1, <1>5, <1>6, <1>7, <1>8, <1>9

LEMMA RowKept ==
    ASSUME NEW n \in Sizes, IlistSize(n) > 0, NEW i \in 1 .. Rows(n) - 1
    PROVE  RowBlock(n, i, 0) = RowBlock(n, i, Root(n))
<1>1. PICK b \in Nat : b = RowStart(n, i) /\ Root(n) < b
  BY RootFirst
<1>2. PICK f \in Nat : f = RowFirst(n, i)
  BY RootFirst, RowsInside, RowFacts
<1>3. PICK r \in Nat : r = Root(n)
  BY RootFirst
<1>4. \A s \in Slots : s \in Nat
  BY SizeFacts DEF Slots
<1>5. \A s \in Slots : Entry(n, i, s) = b + (s - f) + 1
  BY <1>1, <1>2 DEF Entry
<1>6. ASSUME NEW s \in Slots
      PROVE  (IF s < f \/ Entry(n, i, s) = 0 THEN 0 ELSE Entry(n, i, s))
                 = (IF s < f \/ Entry(n, i, s) = r THEN 0 ELSE Entry(n, i, s))
  BY <1>1, <1>3, <1>4, <1>5
<1>7. [s \in Slots |-> IF s < f \/ Entry(n, i, s) = 0 THEN 0 ELSE Entry(n, i, s)]
          = [s \in Slots |-> IF s < f \/ Entry(n, i, s) = r THEN 0 ELSE Entry(n, i, s)]
  BY <1>6
<1> QED
  BY <1>2, <1>3, <1>7 DEF RowBlock

(* FreeList_pop takes the root's block out of the list.                    *)
LEMMA FirstPopped ==
    ASSUME NEW n \in Sizes, IlistSize(n) > 0, Rest(n) > 0
    PROVE  /\ RowFirst(n, 0) \in Slots
           /\ RowBlock(n, 0, 0).data[RowFirst(n, 0)] = Root(n)
           /\ [RowBlock(n, 0, 0) EXCEPT !.data[RowFirst(n, 0)] = 0] = RowBlock(n, 0, Root(n))
<1>1. PICK b \in Nat : b = Start(n) /\ RowStart(n, 0) = b
  BY SizeFacts, RowFacts
<1>2. PICK f \in Nat : f = RowFirst(n, 0) /\ f \in Slots
  <2>1. RowFirst(n, 0) = E - Rest(n) /\ Rest(n) \in Nat /\ Rest(n) <= E /\ E \in Nat
    BY RowFacts, SizeFacts DEF RowFirst
  <2> QED
    BY <2>1 DEF Slots
<1>3. PICK r \in Nat : r = Root(n) /\ r = b + 1
  BY <1>1 DEF Root
<1>4. \A s \in Slots : s \in Nat /\ Entry(n, 0, s) = b + (s - f) + 1
  BY <1>1, <1>2, SizeFacts DEF Slots, Entry
<1>5. PICK g : g = [s \in Slots |-> IF s < f \/ Entry(n, 0, s) = 0 THEN 0 ELSE Entry(n, 0, s)]
  OBVIOUS
<1>6. PICK x : x = NextRow(n, 0)
  OBVIOUS
<1>7. RowBlock(n, 0, 0) = [kind |-> "list", next |-> x, data |-> g]
  BY <1>2, <1>5, <1>6 DEF RowBlock, ListBlock
<1>8. g[f] = r
  BY <1>2, <1>3, <1>4, <1>5
<1>9. [g EXCEPT ![f] = 0]
          = [s \in Slots |-> IF s < f \/ Entry(n, 0, s) = r THEN 0 ELSE Entry(n, 0, s)]
  <2>1. \A s \in Slots : Entry(n, 0, s) = r <=> s = f
    BY <1>2, <1>3, <1>4
  <2>2. \A s \in Slots : s >= f => Entry(n, 0, s) # 0
    BY <1>1, <1>2, <1>4
  <2> QED
    BY <1>2, <1>4, <1>5, <2>1, <2>2
<1>10. RowBlock(n, 0, r) = [kind |-> "list", next |-> x, data |-> [g EXCEPT ![f] = 0]]
  BY <1>2, <1>6, <1>9 DEF RowBlock, ListBlock
<1>11. RowBlock(n, 0, 0).data[f] = r
  BY <1>7, <1>8
<1>12. [RowBlock(n, 0, 0) EXCEPT !.data[f] = 0] = RowBlock(n, 0, r)
  BY <1>7, <1>10
<1> QED
  BY <1>2, <1>3, <1>11, <1>12

WrittenTwice(x, v, y, w) == [Written(x, v) EXCEPT ![y] = w]
LEMMA RewrittenTwice ==
    ASSUME NEW n \in Sizes, Shaped(n), NEW x, NEW v, NEW y, NEW w,
           device' = WrittenTwice(x, v, y, w)
    PROVE  /\ Shaped(n)'
           /\ \A b \in 0 .. n - 1 : device'[b] = IF b = y THEN w ELSE IF b = x THEN v ELSE device[b]
<1>1. PICK D : D = 0 .. n - 1
  OBVIOUS
<1>2. device = [b \in D |-> device[b]]
  BY <1>1 DEF Shaped
<1>3. Written(x, v) = [b \in D |-> IF b = x THEN v ELSE device[b]]
  BY <1>2 DEF Written
<1>4. device' = [b \in D |-> IF b = y THEN w ELSE IF b = x THEN v ELSE device[b]]
  BY <1>3 DEF WrittenTwice
<1>5. device' = [b \in D |-> device'[b]]
  BY <1>4
<1> QED
  BY <1>1, <1>4, <1>5 DEF Shaped

(* After the pop.                                                          *)
LEMMA Popped ==
    ASSUME NEW n \in Sizes, IlistSize(n) > 0,
           Layout(n, IlistSize(n), RootInode(0), 0, Rows(n), 0),
           device'[Root(n)] = Zeros,
           Rest(n) > 0 => device'[Start(n)] = RowBlock(n, 0, Root(n)),
           \A b \in 0 .. n - 1 : b \notin {0, Start(n), Root(n)} => device'[b] = device[b]
    PROVE  Layout(n, IlistSize(n), RootInode(0), FirstRow(n), Rows(n), Root(n))'
<1>1. ASSUME NEW b \in 1 .. IlistSize(n) PROVE device'[b] = InodesAt(b, RootInode(0))
  <2>1. b \in 0 .. n - 1 /\ b # 0 /\ b # Start(n) /\ b # Root(n)
    BY Regions
  <2> QED
    BY <2>1 DEF Layout
<1>2. ASSUME NEW i \in 1 .. Rows(n) - 1
      PROVE  device'[RowStart(n, i)] = RowBlock(n, i, Root(n))
  <2>1. i \in 0 .. Rows(n) - 1 /\ RowStart(n, i) \in 0 .. n - 1 /\ RowStart(n, i) # 0
        /\ RowStart(n, i) # Root(n) /\ RowStart(n, i) # Start(n)
    BY RootFirst, RowsInside, Regions
  <2>2. device[RowStart(n, i)] = RowBlock(n, i, 0)
    BY <2>1 DEF Layout
  <2> QED
    BY <2>1, <2>2, RowKept
<1>3. ASSUME NEW i \in FirstRow(n) .. Rows(n) - 1
      PROVE  device'[RowStart(n, i)] = RowBlock(n, i, Root(n))
  <2>1. i \in 1 .. Rows(n) - 1 \/ (Rest(n) > 0 /\ i = 0)
    BY RowFacts DEF FirstRow
  <2>2. RowStart(n, 0) = Start(n)
    BY RowFacts
  <2> QED
    BY <1>2, <2>1, <2>2
<1>4. ASSUME NEW b \in Start(n) .. n - 1,
             \A i \in FirstRow(n) .. Rows(n) - 1 : b # RowStart(n, i)
      PROVE  Aside(n, b, device'[b])
  <2>1. CASE b = Root(n)
    BY <2>1 DEF Zeros, Held, Aside
  <2>2. CASE b # Root(n)
    <3>1. b # Start(n)
      <4>1. CASE Rest(n) > 0
        <5>1. 0 \in FirstRow(n) .. Rows(n) - 1 /\ RowStart(n, 0) = Start(n)
          BY <4>1, RowFacts, RootFirst DEF FirstRow
        <5> QED
          BY <1>4, <5>1
      <4>2. CASE ~(Rest(n) > 0)
        BY <2>2, <4>2 DEF Root
      <4> QED
        BY <4>1, <4>2
    <3>2. b \in 0 .. n - 1 /\ b # 0
      BY Regions
    <3>3. ASSUME NEW i \in 0 .. Rows(n) - 1 PROVE b # RowStart(n, i)
      <4>1. i = 0 \/ i \in FirstRow(n) .. Rows(n) - 1
        BY RowFacts DEF FirstRow
      <4>2. RowStart(n, 0) = Start(n)
        BY RowFacts
      <4> QED
        BY <1>4, <3>1, <4>1, <4>2
    <3>4. Aside(n, b, device[b])
      BY <3>3 DEF Layout
    <3> QED
      BY <2>2, <3>1, <3>2, <3>4
  <2> QED
    BY <2>1, <2>2
<1> QED
  BY <1>1, <1>3, <1>4 DEF Layout

LEMMA PopStep ==
    ASSUME NEW n \in Sizes, At(n), PopRootBlock
    PROVE  At(n)'
<1>1. Shaped(n) /\ NUM_BLOCKS = n /\ stage = "block" /\ complaints' = {} /\ stage' = "entries"
  BY Sized DEF At, Control, PopRootBlock
<1>2. IlistSize(n) > 0
  BY <1>1 DEF At, Control
<1>3. /\ sblock_incore = [Fresh(n) EXCEPT !.free_inodes = @ - 1]
      /\ Layout(n, IlistSize(n), RootInode(0), 0, Rows(n), 0)
  BY <1>1, <1>2 DEF At, Growing
<1>4. PICK y : y = IlistSize(n) * InodesPerBlock - 1
  OBVIOUS
<1>5. sblock_incore = [ilist_size |-> IlistSize(n), n_blocks |-> n, flist_head |-> Start(n),
                       free_blocks |-> NDataBlocks(n), free_inodes |-> y]
  <2>1. (NDataBlocks(n) + SizeModulus) % SizeModulus = NDataBlocks(n)
    BY <1>1, <1>2, ListSizes
  <2> QED
    BY <1>3, <1>4, <2>1 DEF Fresh
<1>6. Leftover = Rest(n) /\ FirstEntry(0) = RowFirst(n, 0)
  BY <1>1, <1>2, ListSizes
<1>7. device[Start(n)] = RowBlock(n, 0, 0)
  BY <1>2, <1>3, RootFirst, RowFacts DEF Layout
<1>8. sblock_incore.flist_head = Start(n)
  BY <1>5
<1>9. /\ root_data' = Root(n) /\ sblock_incore' = Final(n) /\ Shaped(n)'
      /\ Layout(n, IlistSize(n), RootInode(0), FirstRow(n), Rows(n), Root(n))'
  <2>1. CASE Rest(n) > 0
    <3>1. PICK f : f = RowFirst(n, 0)
      OBVIOUS
    <3>2. /\ root_data' = device[Start(n)].data[f]
          /\ sblock_incore' = [sblock_incore EXCEPT !.free_blocks = @ - 1]
          /\ device' = [device EXCEPT ![Start(n)].data[f] = 0, ![root_data'] = Zeros]
      BY <1>6, <1>8, <2>1, <3>1 DEF PopRootBlock
    <3>3. root_data' = Root(n)
      BY <1>2, <1>7, <2>1, <3>1, <3>2, FirstPopped
    <3>4. sblock_incore' = Final(n)
      <4>1. RowStart(n, FirstRow(n)) = Start(n)
        BY <2>1 DEF FirstRow, RowStart
      <4> QED
        BY <1>4, <1>5, <3>2, <4>1 DEF Final
    <3>5. PICK x, v, z, w : /\ x = Start(n) /\ v = [device[x] EXCEPT !.data[f] = 0]
                            /\ z = Root(n) /\ w = Zeros
      OBVIOUS
    <3>6. device' = WrittenTwice(x, v, z, w)
      BY <3>2, <3>3, <3>5 DEF Written, WrittenTwice
    <3>7. /\ Shaped(n)'
          /\ \A b \in 0 .. n - 1 : device'[b] = IF b = z THEN w ELSE IF b = x THEN v ELSE device[b]
      BY <1>1, <3>6, RewrittenTwice
    <3>8. v = RowBlock(n, 0, Root(n))
      BY <1>2, <1>7, <2>1, <3>1, <3>5, FirstPopped
    <3>9. Start(n) \in 0 .. n - 1 /\ Root(n) \in 0 .. n - 1 /\ Start(n) # Root(n)
      BY <1>2, <2>1, Regions DEF Root
    <3>10. Layout(n, IlistSize(n), RootInode(0), FirstRow(n), Rows(n), Root(n))'
      BY <1>2, <1>3, <3>5, <3>7, <3>8, <3>9, Popped
    <3> QED
      BY <3>3, <3>4, <3>7, <3>10
  <2>2. CASE ~(Rest(n) > 0)
    <3>1. PICK told : told = [sblock_incore EXCEPT !.flist_head = device[Start(n)].next]
      OBVIOUS
    <3>2. /\ root_data' = Start(n)
          /\ sblock_incore' = [told EXCEPT !.free_blocks = @ - 1]
          /\ device' = [device EXCEPT ![0] = Super(told), ![Start(n)] = Zeros]
      BY <1>6, <1>8, <2>2, <3>1 DEF PopRootBlock
    <3>3. root_data' = Root(n)
      BY <2>2, <3>2 DEF Root
    <3>4. device[Start(n)].next = RowStart(n, 1)
      <4>1. RowBlock(n, 0, 0).next = NextRow(n, 0)
        BY DEF RowBlock, ListBlock
      <4>2. 0 + 1 = 1 /\ RowStart(n, 0 + 1) = Start(n) + Rest(n) + 1
        BY <1>2, RootFirst
      <4>3. Rest(n) = 0
        BY <1>2, <2>2, RowFacts
      <4>4. RowStart(n, 1) < n /\ RowStart(n, 1) \in Nat
        BY <1>2, <4>2, <4>3, Regions
      <4> QED
        BY <1>7, <4>1, <4>2, <4>4, SizeFacts DEF NextRow
    <3>5. sblock_incore' = Final(n)
      BY <1>4, <1>5, <2>2, <3>1, <3>2, <3>4 DEF Final, FirstRow
    <3>6. PICK x, v, z, w : x = 0 /\ v = Super(told) /\ z = Start(n) /\ w = Zeros
      OBVIOUS
    <3>7. device' = WrittenTwice(x, v, z, w)
      BY <3>2, <3>6 DEF Written, WrittenTwice
    <3>8. /\ Shaped(n)'
          /\ \A b \in 0 .. n - 1 : device'[b] = IF b = z THEN w ELSE IF b = x THEN v ELSE device[b]
      BY <1>1, <3>7, RewrittenTwice
    <3>9. Root(n) = Start(n) /\ Start(n) \in 0 .. n - 1
      BY <1>2, <2>2, Regions DEF Root
    <3>10. Layout(n, IlistSize(n), RootInode(0), FirstRow(n), Rows(n), Root(n))'
      BY <1>2, <1>3, <2>2, <3>6, <3>8, <3>9, Popped
    <3> QED
      BY <3>3, <3>5, <3>8, <3>10
  <2> QED
    BY <2>1, <2>2
<1>10. Control(n)'
  BY <1>1, <1>2 DEF Control
<1>11. Growing(n)'
  BY <1>1, <1>9 DEF Growing
<1> QED
  BY <1>9, <1>10, <1>11 DEF At

-----------------------------------------------------------------------------
(* A block that is none of the list's is written.                          *)
Apart(n, x, v, lo) ==
    x = 0 \/ (x = Root(n) /\ Aside(n, Root(n), v) /\ lo = FirstRow(n))
LEMMA DataWritten ==
    ASSUME NEW n \in Sizes, IlistSize(n) > 0, NEW ino, NEW lo \in Nat, NEW out,
           Layout(n, IlistSize(n), ino, lo, Rows(n), out), NEW x, NEW v,
           Apart(n, x, v, lo),
           \A b \in 0 .. n - 1 : device'[b] = IF b = x THEN v ELSE device[b]
    PROVE  Layout(n, IlistSize(n), ino, lo, Rows(n), out)'
<1>1. ASSUME NEW i \in lo .. Rows(n) - 1
      PROVE  RowStart(n, i) # x /\ RowStart(n, i) \in 0 .. n - 1
  <2>1. i \in 0 .. Rows(n) - 1 /\ RowStart(n, i) \in 0 .. n - 1 /\ RowStart(n, i) # 0
    BY RowFacts, RowsInside, Regions
  <2>2. CASE lo = FirstRow(n)
    <3>1. i \in 1 .. Rows(n) - 1 \/ (Rest(n) > 0 /\ i = 0)
      BY <2>2, RowFacts DEF FirstRow
    <3>2. Rest(n) > 0 => RowStart(n, 0) # Root(n)
      BY RowFacts, SizeFacts DEF Root
    <3>3. RowStart(n, i) # Root(n)
      BY <3>1, <3>2, RootFirst
    <3> QED
      BY <2>1, <3>3 DEF Apart
  <2> QED
    BY <2>1, <2>2 DEF Apart
<1>2. \A b \in 1 .. IlistSize(n) : b # x /\ b \in 0 .. n - 1
  BY Regions DEF Apart
<1>3. \A b \in Start(n) .. n - 1 : b \in 0 .. n - 1 /\ b # 0
  BY Regions
<1>4. \A b \in 1 .. IlistSize(n) : device'[b] = InodesAt(b, ino)
  BY <1>2 DEF Layout
<1>5. \A i \in lo .. Rows(n) - 1 : device'[RowStart(n, i)] = RowBlock(n, i, out)
  BY <1>1 DEF Layout
<1>6. ASSUME NEW b \in Start(n) .. n - 1, \A i \in lo .. Rows(n) - 1 : b # RowStart(n, i)
      PROVE  Aside(n, b, device'[b])
  BY <1>3, <1>6 DEF Layout, Apart
<1> QED
  BY <1>4, <1>5, <1>6 DEF Layout

LEMMA EntriesStep ==
    ASSUME NEW n \in Sizes, At(n), WriteRootEntries
    PROVE  At(n)'
<1>1. /\ Shaped(n) /\ stage = "entries" /\ complaints' = {} /\ stage' = "root"
      /\ UNCHANGED <<sblock_incore, root_data>>
  BY DEF At, Control, WriteRootEntries
<1>2. IlistSize(n) > 0
  BY <1>1 DEF At, Control
<1>3. /\ root_data = Root(n) /\ sblock_incore = Final(n)
      /\ Layout(n, IlistSize(n), RootInode(0), FirstRow(n), Rows(n), Root(n))
  BY <1>1, <1>2 DEF At, Growing
<1>4. PICK x, v : x = Root(n) /\ v = RootEntries
  OBVIOUS
<1>5. device' = Written(x, v)
  BY <1>3, <1>4 DEF WriteRootEntries
<1>6. Shaped(n)' /\ \A b \in 0 .. n - 1 : device'[b] = IF b = x THEN v ELSE device[b]
  BY <1>1, <1>5, Rewritten
<1>7. Apart(n, x, v, FirstRow(n)) /\ FirstRow(n) \in Nat
  BY <1>4 DEF RootEntries, FirstRow, Apart, Aside
<1>8. Layout(n, IlistSize(n), RootInode(0), FirstRow(n), Rows(n), Root(n))'
  <2>1. PICK ino : ino = RootInode(0)
    OBVIOUS
  <2>2. Layout(n, IlistSize(n), ino, FirstRow(n), Rows(n), Root(n))'
    BY <1>2, <1>3, <1>4, <1>6, <1>7, <2>1, DataWritten
  <2> QED
    BY <2>1, <2>2
<1>9. device'[Root(n)] = RootEntries
  BY <1>2, <1>4, <1>6, Regions
<1>10. Control(n)'
  BY <1>1, <1>2 DEF Control
<1>11. Growing(n)'
  BY <1>1, <1>3, <1>8, <1>9 DEF Growing
<1> QED
  BY <1>6, <1>10, <1>11 DEF At

LEMMA RootStep ==
    ASSUME NEW n \in Sizes, At(n), WriteRoot
    PROVE  At(n)'
<1>1. /\ Shaped(n) /\ stage = "root" /\ complaints' = {} /\ stage' = "update"
      /\ UNCHANGED <<sblock_incore, root_data>>
  BY DEF At, Control, WriteRoot
<1>2. IlistSize(n) > 0
  BY <1>1 DEF At, Control
<1>3. /\ root_data = Root(n) /\ sblock_incore = Final(n) /\ device[Root(n)] = RootEntries
      /\ Layout(n, IlistSize(n), RootInode(0), FirstRow(n), Rows(n), Root(n))
  BY <1>1, <1>2 DEF At, Growing
<1>4. PICK x, v, r : x = 1 /\ v = [device[1] EXCEPT !.inode[0].block = r] /\ r = Root(n)
  OBVIOUS
<1>5. device' = Written(x, v)
  BY <1>3, <1>4 DEF WriteRoot, Written
<1>6. Shaped(n)' /\ \A b \in 0 .. n - 1 : device'[b] = IF b = x THEN v ELSE device[b]
  BY <1>1, <1>5, Rewritten
<1>7. v = InodesAt(1, RootInode(r))
  <2>1. PICK f, g, D : /\ f = (1 - 1) * InodesPerBlock /\ D = 0 .. InodesPerBlock - 1
                       /\ g = [i \in D |-> IF i = 0 THEN RootInode(0) ELSE FreeInode]
    OBVIOUS
  <2>2. 0 \in D
    BY <2>1, SizeFacts
  <2>3. 1 \in 1 .. IlistSize(n)
    BY <1>2, Regions
  <2>4. device[1] = InodesAt(1, RootInode(0))
    BY <1>3, <2>3 DEF Layout
  <2>5. device[1] = [kind |-> "inodes", first |-> f, inode |-> g]
    BY <2>1, <2>4 DEF InodesAt
  <2>6. v = [kind |-> "inodes", first |-> f, inode |-> [g EXCEPT ![0] = [g[0] EXCEPT !.block = r]]]
    BY <1>4, <2>5
  <2>7. g[0] = RootInode(0)
    BY <2>1, <2>2
  <2>8. [g[0] EXCEPT !.block = r] = RootInode(r)
    <3>1. PICK t : t = TRUE
      BY Zenon
    <3>2. \A b : RootInode(b) = [in_use |-> t, block |-> b]
      BY <3>1, Zenon DEF RootInode
    <3> QED
      BY <2>7, <3>2
  <2>9. [g EXCEPT ![0] = RootInode(r)] = [i \in D |-> IF i = 0 THEN RootInode(r) ELSE FreeInode]
    BY <2>1
  <2>10. InodesAt(1, RootInode(r))
             = [kind |-> "inodes", first |-> f,
                inode |-> [i \in D |-> IF i = 0 THEN RootInode(r) ELSE FreeInode]]
    BY <2>1 DEF InodesAt
  <2> QED
    BY <2>6, <2>8, <2>9, <2>10
<1>8. ASSUME NEW b \in 1 .. IlistSize(n) PROVE device'[b] = InodesAt(b, RootInode(r))
  <2>1. b \in 0 .. n - 1
    BY <1>2, Regions
  <2>2. b # 1 => InodesAt(b, RootInode(0)) = InodesAt(b, RootInode(r))
    BY DEF InodesAt
  <2> QED
    BY <1>3, <1>4, <1>6, <1>7, <2>1, <2>2 DEF Layout
<1>9. \A b \in Start(n) .. n - 1 : device'[b] = device[b]
  <2>1. \A b \in Start(n) .. n - 1 : b \in 0 .. n - 1 /\ b # 1
    BY <1>2, Regions
  <2> QED
    BY <1>4, <1>6, <2>1
<1>10. \A i \in FirstRow(n) .. Rows(n) - 1 : RowStart(n, i) \in Start(n) .. n - 1
  <2>1. \A i \in FirstRow(n) .. Rows(n) - 1 : i \in 0 .. Rows(n) - 1
    BY <1>2, RowFacts, RootFirst
  <2> QED
    BY <1>2, <2>1, RowsInside
<1>11. Layout(n, IlistSize(n), RootInode(Root(n)), FirstRow(n), Rows(n), Root(n))'
  BY <1>3, <1>4, <1>8, <1>9, <1>10 DEF Layout
<1>12. device'[Root(n)] = RootEntries
  BY <1>2, <1>3, <1>9, Regions
<1>13. Control(n)'
  BY <1>1, <1>2 DEF Control
<1>14. Growing(n)'
  BY <1>1, <1>3, <1>11, <1>12 DEF Growing
<1> QED
  BY <1>6, <1>13, <1>14 DEF At

LEMMA UpdateStep ==
    ASSUME NEW n \in Sizes, At(n), UpdateSuperblock
    PROVE  At(n)'
<1>1. /\ Shaped(n) /\ stage = "update" /\ complaints' = {} /\ stage' = "made"
      /\ UNCHANGED <<sblock_incore, root_data>>
  BY DEF At, Control, UpdateSuperblock
<1>2. IlistSize(n) > 0
  BY <1>1 DEF At, Control
<1>3. /\ root_data = Root(n) /\ sblock_incore = Final(n) /\ device[Root(n)] = RootEntries
      /\ Layout(n, IlistSize(n), RootInode(Root(n)), FirstRow(n), Rows(n), Root(n))
  BY <1>1, <1>2 DEF At, Growing
<1>4. PICK x, v : x = 0 /\ v = Super(Final(n))
  OBVIOUS
<1>5. device' = Written(x, v)
  BY <1>3, <1>4 DEF UpdateSuperblock
<1>6. Shaped(n)' /\ \A b \in 0 .. n - 1 : device'[b] = IF b = x THEN v ELSE device[b]
  BY <1>1, <1>5, Rewritten
<1>7. Apart(n, x, v, FirstRow(n)) /\ FirstRow(n) \in Nat
  BY <1>4 DEF FirstRow, Apart
<1>8. Layout(n, IlistSize(n), RootInode(Root(n)), FirstRow(n), Rows(n), Root(n))'
  BY <1>2, <1>3, <1>4, <1>6, <1>7, DataWritten
<1>9. device'[Root(n)] = RootEntries /\ device'[0] = Super(Final(n))
  BY <1>2, <1>3, <1>4, <1>6, Regions
<1>10. Control(n)'
  BY <1>1, <1>2 DEF Control
<1>11. Growing(n)'
  BY <1>1, <1>3, <1>8, <1>9 DEF Growing, Made
<1> QED
  BY <1>6, <1>10, <1>11 DEF At

LEMMA MadeStays ==
    ASSUME NEW n \in Sizes, Made(n), UNCHANGED <<device, root_data>>, sblock_incore' = sblock_incore
    PROVE  Made(n)'
  BY DEF Made, Layout

LEMMA ExitStep ==
    ASSUME NEW n \in Sizes, At(n), Exit
    PROVE  At(n)'
<1>1. /\ Shaped(n) /\ stage \in {"made", "failed"} /\ complaints' = {} /\ stage' = "formatted"
      /\ program' = "mkfs.cofs" /\ UNCHANGED <<sblock_incore, root_data, device>>
      /\ status' = IF stage = "made" THEN 0 ELSE 1
  BY DEF At, Control, Exit
<1>2. stage = "made" => IlistSize(n) > 0
  BY DEF At, Control
<1>3. Control(n)'
  BY <1>1, <1>2 DEF Control
<1>4. ASSUME IlistSize(n) > 0 PROVE Growing(n)'
  <2>0. stage = "failed" => IlistSize(n) = 0
    BY DEF At, Control
  <2>1. stage = "made"
    BY <1>1, <1>4, <2>0
  <2>2. Made(n)
    BY <1>4, <2>1 DEF At, Growing
  <2>3. Made(n)'
    BY <1>1, <2>2, MadeStays
  <2> QED
    BY <1>1, <2>3 DEF Growing
<1> QED
  BY <1>1, <1>3, <1>4 DEF At, Shaped

LEMMA ServeStep ==
    ASSUME NEW n \in Sizes, At(n), CofsInit
    PROVE  At(n)'
<1>1. /\ Shaped(n) /\ stage \in {"made", "failed", "formatted"} /\ complaints' = {}
      /\ UNCHANGED <<program, root_data, device, status>>
  BY DEF At, Control, CofsInit
<1>2. CASE InitFails
  <2>1. stage' = "aborted"
    BY <1>2 DEF CofsInit
  <2> QED
    BY <1>1, <2>1 DEF At, Control, Growing, Shaped
<1>3. CASE ~InitFails
  <2>1. stage' = "serving" /\ sblock_incore' = device[0].sb /\ stage # "failed"
    BY <1>3 DEF CofsInit, InitFails
  <2>2. program = "cofs -m" \/ status = 0 => IlistSize(n) > 0
    BY <1>1, <2>1 DEF At, Control, CofsInit
  <2>3. Control(n)'
    BY <1>1, <2>1, <2>2 DEF Control
  <2>4. ASSUME IlistSize(n) > 0 PROVE Growing(n)'
    <3>1. Made(n)
      BY <1>1, <2>1, <2>4 DEF At, Growing
    <3>2. sblock_incore' = sblock_incore
      BY <2>1, <3>1 DEF Made, Super
    <3>3. Made(n)'
      BY <1>1, <3>1, <3>2, MadeStays
    <3> QED
      BY <2>1, <3>3 DEF Growing
  <2> QED
    BY <1>1, <2>3, <2>4 DEF At, Shaped
<1> QED
  BY <1>2, <1>3

(* The parameters fsck finds fault with.                                   *)
LEMMA Complaints ==
    ASSUME NEW n \in Sizes, IlistSize(n) > 0, NUM_BLOCKS = n, Made(n)
    PROVE  {p[1] : p \in Mismatches(device[0].sb)}
               = {"n_blocks"} \union IF Rest(n) > 0 THEN {} ELSE {"flist_head"}
<1>1. device[0].sb = Final(n)
  BY DEF Made, Super
<1>2. PICK s, d, t, h : s = IlistSize(n) /\ d = NDataBlocks(n) /\ t = Start(n) /\ h = RowStart(n, FirstRow(n))
  OBVIOUS
<1>3. n # d
  BY <1>2, SizeFacts
<1>4. h = t <=> Rest(n) > 0
  <2>1. RowStart(n, 0) = t
    BY <1>2, RowFacts
  <2>2. CASE Rest(n) > 0
    BY <1>2, <2>1, <2>2 DEF FirstRow
  <2>3. CASE ~(Rest(n) > 0)
    <3>1. 0 + 1 = 1 /\ h = RowStart(n, 0 + 1)
      BY <1>2, <2>3 DEF FirstRow
    <3>2. h = t + Rest(n) + 1 /\ Rest(n) \in Nat /\ t \in Nat
      BY <1>2, <3>1, RootFirst, RowFacts
    <3> QED
      BY <2>3, <3>2
  <2> QED
    BY <2>2, <2>3
<1>5. Mismatches(device[0].sb)
          = {p \in {<<"ilist_size", s, s>>, <<"n_blocks", d, n>>, <<"flist_head", t, h>>} : p[2] # p[3]}
  BY <1>1, <1>2 DEF Mismatches, Final
<1>6. Mismatches(device[0].sb)
          = {<<"n_blocks", d, n>>} \union IF Rest(n) > 0 THEN {} ELSE {<<"flist_head", t, h>>}
  BY <1>3, <1>4, <1>5
<1>7. CASE Rest(n) > 0
  <2>1. Mismatches(device[0].sb) = {<<"n_blocks", d, n>>}
    BY <1>6, <1>7
  <2> QED
    BY <1>7, <2>1
<1>8. CASE ~(Rest(n) > 0)
  <2>1. Mismatches(device[0].sb) = {<<"n_blocks", d, n>>, <<"flist_head", t, h>>}
    BY <1>6, <1>8
  <2> QED
    BY <1>8, <2>1
<1> QED
  BY <1>7, <1>8

LEMMA FsckStep ==
    ASSUME NEW n \in Sizes, At(n), Fsck
    PROVE  At(n)'
<1>1. /\ Shaped(n) /\ stage \in {"made", "failed"} /\ complaints = {} /\ stage' = "checked"
      /\ device' = device /\ NUM_BLOCKS = n /\ status' = IF complaints' = {} THEN 0 ELSE 1
  BY Sized DEF At, Control, Fsck
<1>2. CASE stage = "failed"
  <2>1. complaints' = {} /\ status' = 0 /\ IlistSize(n) = 0
    BY <1>1, <1>2 DEF Fsck, At, Control
  <2>2. Control(n)'
    BY <1>1, <2>1 DEF Control
  <2> QED
    BY <1>1, <2>1, <2>2 DEF At, Shaped
<1>3. CASE stage = "made"
  <2>1. complaints' = {p[1] : p \in Mismatches(device[0].sb)} /\ IlistSize(n) > 0
    BY <1>1, <1>3 DEF Fsck, At, Control
  <2>2. Made(n)
    BY <1>3, <2>1 DEF At, Growing
  <2>3. complaints' = {"n_blocks"} \union IF Rest(n) > 0 THEN {} ELSE {"flist_head"}
    BY <1>1, <2>1, <2>2, Complaints
  <2>4. Control(n)'
    BY <1>1, <2>1, <2>3 DEF Control
  <2>5. Growing(n)'
    BY <1>1 DEF Growing
  <2> QED
    BY <1>1, <2>4, <2>5 DEF At, Shaped
<1> QED
  BY <1>1, <1>2, <1>3

LEMMA MkfsInvStep ==
    ASSUME MkfsInv, [MkfsNext]_mkfsVars
    PROVE  MkfsInv'
<1>1. PICK n \in Sizes : At(n)
  BY DEF MkfsInv
<1>2. At(n)'
  <2>1. CASE UNCHANGED mkfsVars
    <3>1. UNCHANGED <<program, stage, device, sblock_incore, row, head, root_data, complaints, status>>
      BY <2>1 DEF mkfsVars
    <3>2. Shaped(n)' /\ Control(n)'
      BY <1>1, <3>1 DEF At, Shaped, Control
    <3>3. Growing(n) => Growing(n)'
      BY <3>1 DEF Growing, Made, Layout
    <3> QED
      BY <1>1, <3>2, <3>3 DEF At
  <2>2. CASE MkfsNext
    BY <1>1, <2>2, SuperblockStep, IlistStep, ListStep, RootInodeStep, PopStep, EntriesStep,
       RootStep, UpdateStep, ExitStep, ServeStep, FsckStep DEF MkfsNext
  <2> QED
    BY <2>1, <2>2
<1> QED
  BY <1>2 DEF MkfsInv

(* The inductive invariant holds.                                          *)
LEMMA MkfsInvariance == MkfsSpec => []MkfsInv
<1>1. MkfsInit => MkfsInv
  BY MkfsStart
<1>2. MkfsInv /\ [MkfsNext]_mkfsVars => MkfsInv'
  BY MkfsInvStep
<1> QED
  BY <1>1, <1>2, PTL DEF MkfsSpec

(* What fsck.cofs -m answers about memory that it formatted itself: its    *)
(* complaint about the number of blocks, and about the head if that moved; *)
(* and that all is well with memory too small to be formatted.             *)
(* Property FsckAnswer.                                                    *)
THEOREM FsckAnswers == MkfsSpec => []FsckAnswer
<1>1. ASSUME MkfsInv PROVE FsckAnswer
  <2>1. PICK n \in Sizes : At(n)
    BY <1>1 DEF MkfsInv
  <2>2. NUM_BLOCKS = n
    BY <2>1, Sized DEF At
  <2>3. CASE IlistSize(n) = 0
    BY <2>1, <2>2, <2>3 DEF At, Control, FsckAnswer
  <2>4. CASE IlistSize(n) # 0
    <3>1. Leftover = Rest(n)
      BY <2>2, <2>4, SizeFacts, ListSizes
    <3>2. IlistSize(n) > 0 /\ Rest(n) \in Nat
      <4>1. IlistSize(n) > 0
        BY <2>4, SizeFacts
      <4> QED
        BY <4>1, RowFacts
    <3>3. Even <=> ~(Rest(n) > 0)
      BY <3>1, <3>2 DEF Even
    <3> QED
      BY <2>1, <2>2, <2>4, <3>3 DEF At, Control, FsckAnswer
  <2> QED
    BY <2>3, <2>4
<1> QED
  BY <1>1, MkfsInvariance, PTL

-----------------------------------------------------------------------------
(* The list that the superblock leads to                                   *)

(* The hops along the list: the rows, and, if they are even, the block that *)
(* should have been the last row's list block.                             *)
HopAt(n, i) == IF FirstRow(n) + i < Rows(n) THEN RowStart(n, FirstRow(n) + i)
               ELSE IF FirstRow(n) + i = Rows(n) /\ Rest(n) = 0 THEN RowStart(n, Rows(n))
               ELSE 0
HopFits(h) == h = [i \in 0 .. NUM_BLOCKS |->
                      IF i = 0 THEN sblock_incore.flist_head ELSE Following(h[i - 1])]

(* The list ends where mkfs ended it, or at a block that holds zeros.      *)
Ends(n) == Rest(n) > 0 \/ device[Unwritten] = Zeros

LEMMA RowMade ==
    ASSUME NEW n \in Sizes, IlistSize(n) > 0, Made(n), NEW j \in FirstRow(n) .. Rows(n) - 1
    PROVE  /\ device[RowStart(n, j)] = RowBlock(n, j, Root(n))
           /\ device[RowStart(n, j)].kind = "list"
<1>1. device[RowStart(n, j)] = RowBlock(n, j, Root(n))
  BY DEF Made, Layout
<1> QED
  BY <1>1 DEF RowBlock, ListBlock

LEMMA RowListed ==
    ASSUME NEW n \in Sizes, IlistSize(n) > 0, NUM_BLOCKS = n, Made(n),
           NEW j \in FirstRow(n) .. Rows(n) - 1
    PROVE  /\ ReadAsList(RowStart(n, j)) /\ RowStart(n, j) # 0
           /\ Following(RowStart(n, j)) = NextRow(n, j)
<1>1. j \in 0 .. Rows(n) - 1
  BY RootFirst, RowFacts
<1>2. RowStart(n, j) # 0 /\ RowStart(n, j) < n
  BY <1>1, RowsInside, Regions
<1>3. /\ device[RowStart(n, j)] = RowBlock(n, j, Root(n))
      /\ device[RowStart(n, j)].kind = "list"
  BY RowMade
<1>4. ReadAsList(RowStart(n, j))
  BY <1>2, <1>3 DEF ReadAsList, Readable
<1>5. device[RowStart(n, j)].next = NextRow(n, j)
  BY <1>3 DEF RowBlock, ListBlock
<1> QED
  BY <1>2, <1>4, <1>5 DEF Following

(* The last block that mkfs put on the list.                               *)
Last(n) == IF Rest(n) > 0 THEN n - 1 ELSE Unwritten

LEMMA LostIs ==
    ASSUME NEW n \in Sizes, IlistSize(n) > 0, NUM_BLOCKS = n
    PROVE  /\ Lost = Last(n) + 1 .. n - 1 /\ (Even <=> Rest(n) = 0)
           /\ Last(n) \in Nat /\ Last(n) < n
           /\ Last(n) = IF Rest(n) > 0 THEN RowStart(n, Rows(n)) - 1 ELSE RowStart(n, Rows(n))
           /\ Root(n) < RowStart(n, Rows(n)) /\ Root(n) <= Last(n)
           /\ RowStart(n, Rows(n)) \in Nat
<1>1. /\ Rows(n) \in Nat /\ Rows(n) >= 1 /\ n \in Nat /\ E \in Nat /\ Rest(n) \in Nat
      /\ RowStart(n, Rows(n)) = IF Rest(n) > 0 THEN n ELSE n - (E + 1)
      /\ RowStart(n, Rows(n)) \in Nat /\ Leftover = Rest(n)
  BY RowFacts, SizeFacts, ListSizes
<1>2. Unwritten = n - (E + 1) /\ n > 0
  BY <1>1, Regions DEF Unwritten
<1>3. Even <=> Rest(n) = 0
  BY <1>1 DEF Even
<1>4. Lost = Last(n) + 1 .. n - 1
  BY <1>1, <1>2, <1>3 DEF Lost, Last
<1>5. /\ Last(n) = IF Rest(n) > 0 THEN RowStart(n, Rows(n)) - 1 ELSE RowStart(n, Rows(n))
      /\ Last(n) \in Nat /\ Last(n) < n
  BY <1>1, <1>2 DEF Last
<1>6. RowStart(n, 0 + 1) <= RowStart(n, Rows(n))
  BY RootFirst, RowsInside
<1>7. Root(n) < RowStart(n, Rows(n)) /\ Root(n) \in Nat
  BY <1>1, <1>6, RootFirst
<1> QED
  BY <1>1, <1>3, <1>4, <1>5, <1>7

LEMMA EndHeld ==
    ASSUME NEW n \in Sizes, IlistSize(n) > 0, NUM_BLOCKS = n, Made(n), Rest(n) = 0
    PROVE  /\ RowStart(n, Rows(n)) = Unwritten /\ Unwritten \in Start(n) .. n - 1
           /\ Unwritten # Root(n) /\ Unwritten # 0
           /\ device[Unwritten].kind = "held"
           /\ device[Unwritten] = Zeros => Following(Unwritten) = 0 /\ EntriesOf(Unwritten) = {}
<1>1. /\ Rows(n) \in Nat /\ Rows(n) >= 1 /\ E \in Nat /\ n \in Nat
      /\ RowStart(n, Rows(n)) = n - (E + 1)
  BY RowFacts, SizeFacts
<1>2. PICK p : p \in 0 .. Rows(n) - 1 /\ p + 1 = Rows(n)
  <2>1. Rows(n) - 1 \in 0 .. Rows(n) - 1 /\ (Rows(n) - 1) + 1 = Rows(n)
    BY <1>1
  <2> QED
    BY <2>1
<1>3. /\ RowStart(n, p) \in Start(n) .. n - 1 /\ RowStart(n, p) < RowStart(n, p + 1)
      /\ RowStart(n, p + 1) \in Nat
  BY <1>2, RowsInside
<1>4. Start(n) \in Nat /\ Start(n) > 0
  BY Regions
<1>5. RowStart(n, Rows(n)) \in Start(n) .. n - 1
  BY <1>1, <1>2, <1>3, <1>4
<1>6. ASSUME NEW i \in FirstRow(n) .. Rows(n) - 1 PROVE RowStart(n, Rows(n)) # RowStart(n, i)
  <2>1. i \in 0 .. Rows(n) - 1
    BY <1>1, RootFirst
  <2>2. RowStart(n, i) < RowStart(n, i + 1) /\ RowStart(n, i + 1) <= RowStart(n, Rows(n))
        /\ RowStart(n, i + 1) \in Nat /\ RowStart(n, i) \in Nat
    BY <2>1, RowsInside, RowFacts
  <2> QED
    BY <1>1, <1>5, <2>2
<1>7. RowStart(n, Rows(n)) # Root(n)
  <2>1. Root(n) < RowStart(n, Rows(n)) /\ Root(n) \in Nat
    BY LostIs, RootFirst
  <2> QED
    BY <1>1, <1>5, <2>1
<1>8. device[RowStart(n, Rows(n))].kind = "held"
  <2>1. Aside(n, RowStart(n, Rows(n)), device[RowStart(n, Rows(n))])
    BY <1>5, <1>6 DEF Made, Layout
  <2> QED
    BY <1>7, <2>1 DEF Aside
<1>9. RowStart(n, Rows(n)) = Unwritten
  BY <1>1 DEF Unwritten
<1>10. ASSUME device[Unwritten] = Zeros
       PROVE  Following(Unwritten) = 0 /\ EntriesOf(Unwritten) = {}
  <2>1. Zeros.next = 0 /\ Zeros.data = [s \in Slots |-> 0]
    BY DEF Zeros, Held
  <2>2. Range(Zeros.data) \ {0} = {}
    BY <2>1 DEF Range
  <2> QED
    BY <1>10, <2>1, <2>2 DEF Following, EntriesOf
<1> QED
  BY <1>4, <1>5, <1>7, <1>8, <1>9, <1>10

LEMMA NextRowIs ==
    ASSUME NEW n \in Sizes, IlistSize(n) > 0, NEW j \in FirstRow(n) .. Rows(n) - 1
    PROVE  NextRow(n, j) = IF j + 1 < Rows(n) THEN RowStart(n, j + 1)
                             ELSE IF Rest(n) = 0 THEN RowStart(n, Rows(n)) ELSE 0
<1>1. /\ Rows(n) \in Nat /\ n \in Nat /\ Rest(n) \in Nat /\ E \in Nat
      /\ RowStart(n, Rows(n)) = IF Rest(n) > 0 THEN n ELSE n - (E + 1)
  BY RowFacts, SizeFacts
<1>2. j \in 0 .. Rows(n) - 1 /\ j + 1 \in Nat
  BY <1>1, RootFirst
<1>3. RowStart(n, j + 1) \in Nat /\ (j + 1 < Rows(n) => RowStart(n, j + 1) < n)
  BY <1>2, RowsInside
<1>4. CASE j + 1 < Rows(n)
  BY <1>1, <1>3, <1>4 DEF NextRow
<1>5. CASE ~(j + 1 < Rows(n))
  <2>1. j + 1 = Rows(n)
    BY <1>1, <1>2, <1>5
  <2> QED
    BY <1>1, <1>3, <1>5, <2>1 DEF NextRow
<1> QED
  BY <1>4, <1>5

LEMMA HopsFit ==
    ASSUME NEW n \in Sizes, IlistSize(n) > 0, NUM_BLOCKS = n, Made(n)
    PROVE  /\ HopAt(n, 0) = sblock_incore.flist_head
           /\ \A i \in Nat : Ends(n) \/ FirstRow(n) + i < Rows(n) =>
                  HopAt(n, i + 1) = Following(HopAt(n, i))
<1>1. /\ Rows(n) \in Nat /\ Rows(n) >= 1 /\ Rest(n) \in Nat
      /\ FirstRow(n) \in Nat /\ FirstRow(n) = IF Rest(n) > 0 THEN 0 ELSE 1
  BY RowFacts DEF FirstRow
<1>2. sblock_incore.flist_head = RowStart(n, FirstRow(n))
  BY DEF Made, Final
<1>3. HopAt(n, 0) = RowStart(n, FirstRow(n))
  <2>1. FirstRow(n) + 0 = FirstRow(n)
    BY <1>1
  <2> QED
    BY <1>1, <2>1 DEF HopAt
<1>4. Following(0) = 0
  BY DEF Following, ReadAsList
<1>5. ASSUME NEW i \in Nat, Ends(n) \/ FirstRow(n) + i < Rows(n)
      PROVE  HopAt(n, i + 1) = Following(HopAt(n, i))
  <2>1. PICK j \in Nat : j = FirstRow(n) + i /\ FirstRow(n) + (i + 1) = j + 1
    BY <1>1
  <2>2. HopAt(n, i) = IF j < Rows(n) THEN RowStart(n, j)
                      ELSE IF j = Rows(n) /\ Rest(n) = 0 THEN RowStart(n, Rows(n)) ELSE 0
    BY <2>1 DEF HopAt
  <2>3. HopAt(n, i + 1) = IF j + 1 < Rows(n) THEN RowStart(n, j + 1)
                          ELSE IF j + 1 = Rows(n) /\ Rest(n) = 0 THEN RowStart(n, Rows(n)) ELSE 0
    BY <2>1 DEF HopAt
  <2>4. CASE j < Rows(n)
    <3>1. j \in FirstRow(n) .. Rows(n) - 1
      BY <1>1, <2>1, <2>4
    <3>2. Following(RowStart(n, j)) = NextRow(n, j)
      BY <3>1, RowListed
    <3>3. NextRow(n, j) = IF j + 1 < Rows(n) THEN RowStart(n, j + 1)
                          ELSE IF Rest(n) = 0 THEN RowStart(n, Rows(n)) ELSE 0
      BY <3>1, NextRowIs
    <3>4. ~(j + 1 < Rows(n)) => j + 1 = Rows(n)
      BY <1>1, <2>4
    <3> QED
      BY <2>2, <2>3, <2>4, <3>2, <3>3, <3>4
  <2>5. CASE ~(j < Rows(n))
    <3>1. Ends(n)
      BY <1>5, <2>1, <2>5
    <3>2. Following(HopAt(n, i)) = 0
      <4>1. CASE j = Rows(n) /\ Rest(n) = 0
        <5>1. device[Unwritten] = Zeros
          BY <1>1, <3>1, <4>1 DEF Ends
        <5> QED
          BY <2>2, <2>5, <4>1, <5>1, EndHeld
      <4>2. CASE ~(j = Rows(n) /\ Rest(n) = 0)
        BY <1>4, <2>2, <2>5, <4>2
      <4> QED
        BY <4>1, <4>2
    <3>3. HopAt(n, i + 1) = 0
      BY <1>1, <2>3, <2>5
    <3> QED
      BY <3>2, <3>3
  <2> QED
    BY <2>4, <2>5
<1> QED
  BY <1>2, <1>3, <1>5

(* Hop is a recursive function: that there is one that fits is shown with  *)
(* the function of the hops that Following goes along.                     *)
LEMMA HopFitsOne ==
    ASSUME NEW n \in Nat, NUM_BLOCKS = n
    PROVE  HopFits(Hop)
<1> DEFINE Prefix(k, h) == h = [i \in 0 .. k |-> IF i = 0 THEN sblock_incore.flist_head
                                                ELSE Following(h[i - 1])]
           Bad == {k \in Nat : ~ \E h : Prefix(k, h)}
<1>1. ASSUME Bad # {} PROVE FALSE
  <2>1. PICK m \in Bad : \A k \in Bad : m <= k
    <3>1. Bad \subseteq Nat
      OBVIOUS
    <3> HIDE DEF Bad
    <3> QED
      BY <1>1, <3>1, LeastNat
  <2>2. m # 0
    <3> SUFFICES ASSUME m = 0 PROVE FALSE
      OBVIOUS
    <3>1. Prefix(0, [i \in 0 .. 0 |-> sblock_incore.flist_head])
      OBVIOUS
    <3> QED
      BY <2>1, <3>1
  <2>3. PICK k \in Nat : m = k + 1 /\ k < m
    BY <2>1, <2>2
  <2>4. PICK h : Prefix(k, h)
    <3> HIDE DEF Prefix
    <3> QED
      BY <2>1, <2>3
  <2> DEFINE g == [i \in 0 .. m |-> IF i = m THEN Following(h[k]) ELSE h[i]]
  <2>5. ASSUME NEW i \in 0 .. m
        PROVE  g[i] = IF i = 0 THEN sblock_incore.flist_head ELSE Following(g[i - 1])
    <3>1. CASE i = 0
      BY <2>2, <2>3, <2>4, <3>1
    <3>2. CASE i # 0
      <4>1. PICK j \in Nat : i - 1 = j /\ i = j + 1 /\ j \in 0 .. k
        BY <2>3, <3>2
      <4>2. g[j] = h[j]
        BY <2>3, <4>1
      <4>3. CASE i = m
        BY <2>3, <4>1, <4>2, <4>3, <3>2
      <4>4. CASE i # m
        <5>1. i \in 0 .. k /\ g[i] = h[i]
          BY <2>3, <4>1, <4>4
        <5>2. h[i] = Following(h[j])
          BY <2>4, <3>2, <4>1, <5>1
        <5> QED
          BY <3>2, <4>1, <4>2, <5>1, <5>2
      <4> QED
        BY <4>3, <4>4
    <3> QED
      BY <3>1, <3>2
  <2>6. Prefix(m, g)
    BY <2>5
  <2> QED
    BY <2>1, <2>6
<1>2. PICK h : Prefix(n, h)
  <2> HIDE DEF Prefix
  <2> QED
    BY <1>1
<1>3. HopFits(h)
  BY <1>2 DEF HopFits
<1>4. Hop = CHOOSE f : HopFits(f)
  BY DEF Hop, HopFits
<1> QED
  BY <1>3, <1>4

LEMMA HopIs ==
    ASSUME NEW n \in Sizes, IlistSize(n) > 0, NUM_BLOCKS = n, Made(n)
    PROVE  \A i \in 0 .. n : Ends(n) \/ FirstRow(n) + i <= Rows(n) => Hop[i] = HopAt(n, i)
<1>0. n \in Nat /\ Rows(n) \in Nat /\ FirstRow(n) \in Nat
  BY SizeFacts, RowFacts, RootFirst
<1>1. HopFits(Hop)
  BY <1>0, HopFitsOne
<1>2. \A i \in 0 .. n : Hop[i] = IF i = 0 THEN sblock_incore.flist_head ELSE Following(Hop[i - 1])
  BY <1>1 DEF HopFits
<1>3. PICK B : B = {i \in 0 .. n : /\ Ends(n) \/ FirstRow(n) + i <= Rows(n)
                                   /\ Hop[i] # HopAt(n, i)}
  OBVIOUS
<1>4. ASSUME B # {} PROVE FALSE
  <2>1. B \subseteq Nat
    BY <1>0, <1>3
  <2>2. PICK m \in B : \A k \in B : m <= k
    BY <1>4, <2>1, LeastNat
  <2>3. m \in 0 .. n /\ Hop[m] # HopAt(n, m) /\ (Ends(n) \/ FirstRow(n) + m <= Rows(n))
    BY <1>3, <2>2
  <2>4. m # 0
    BY <1>2, <2>3, HopsFit
  <2>5. PICK k \in Nat : m - 1 = k /\ m = k + 1 /\ k \in 0 .. n /\ k < m
    BY <1>0, <2>3, <2>4
  <2>6. Ends(n) \/ FirstRow(n) + k < Rows(n)
    BY <1>0, <2>3, <2>5
  <2>7. Hop[k] = HopAt(n, k)
    BY <1>0, <1>3, <2>2, <2>5, <2>6
  <2>8. Hop[m] = Following(Hop[k])
    BY <1>2, <2>3, <2>4, <2>5
  <2>9. HopAt(n, k + 1) = Following(HopAt(n, k))
    BY <2>6, HopsFit
  <2> QED
    BY <2>3, <2>5, <2>7, <2>8, <2>9
<1> QED
  BY <1>3, <1>4

LEMMA HeadsAre ==
    ASSUME NEW n \in Sizes, IlistSize(n) > 0, NUM_BLOCKS = n, Made(n)
    PROVE  /\ \A j \in FirstRow(n) .. Rows(n) - 1 : RowStart(n, j) \in Heads
           /\ Rest(n) = 0 => Unwritten \in Heads
           /\ \A b \in Heads : Ends(n) =>
                  \/ \E j \in FirstRow(n) .. Rows(n) - 1 : b = RowStart(n, j)
                  \/ Rest(n) = 0 /\ b = Unwritten
<1>1. /\ Rows(n) \in Nat /\ Rows(n) <= n /\ n \in Nat /\ FirstRow(n) \in Nat /\ Rows(n) >= 1
      /\ FirstRow(n) <= 1
  BY RowFacts, SizeFacts, RootFirst DEF FirstRow
<1>2. \A x : x \in Heads <=> x # 0 /\ \E i \in 0 .. n : x = Hop[i]
  BY DEF Heads
<1>3. ASSUME NEW j \in FirstRow(n) .. Rows(n) - 1 PROVE RowStart(n, j) \in Heads
  <2>1. PICK i \in Nat : i = j - FirstRow(n) /\ FirstRow(n) + i = j /\ i \in 0 .. n /\ j < Rows(n)
    BY <1>1
  <2>2. HopAt(n, i) = RowStart(n, j)
    BY <2>1 DEF HopAt
  <2>3. FirstRow(n) + i <= Rows(n)
    BY <1>1, <2>1
  <2>4. Hop[i] = RowStart(n, j)
    BY <2>1, <2>2, <2>3, HopIs
  <2> QED
    BY <1>2, <2>1, <2>4, RowListed
<1>4. ASSUME Rest(n) = 0 PROVE Unwritten \in Heads
  <2>1. PICK i \in Nat : FirstRow(n) + i = Rows(n) /\ i \in 0 .. n
    <3>1. Rows(n) - FirstRow(n) \in Nat /\ FirstRow(n) + (Rows(n) - FirstRow(n)) = Rows(n)
          /\ Rows(n) - FirstRow(n) \in 0 .. n
      BY <1>1
    <3> QED
      BY <3>1
  <2>2. HopAt(n, i) = RowStart(n, Rows(n))
    BY <1>1, <1>4, <2>1 DEF HopAt
  <2>3. Hop[i] = Unwritten
    BY <1>1, <1>4, <2>1, <2>2, HopIs, EndHeld
  <2> QED
    BY <1>2, <1>4, <2>1, <2>3, EndHeld
<1>5. ASSUME NEW b \in Heads, Ends(n)
      PROVE  \/ \E j \in FirstRow(n) .. Rows(n) - 1 : b = RowStart(n, j)
             \/ Rest(n) = 0 /\ b = Unwritten
  <2>1. PICK i \in 0 .. n : b = Hop[i] /\ b # 0
    BY <1>2
  <2>2. b = HopAt(n, i) /\ i \in Nat
    BY <1>1, <1>5, <2>1, HopIs
  <2>3. CASE FirstRow(n) + i < Rows(n)
    <3>1. b = RowStart(n, FirstRow(n) + i)
      BY <2>2, <2>3 DEF HopAt
    <3>2. FirstRow(n) + i \in FirstRow(n) .. Rows(n) - 1
      BY <1>1, <2>2, <2>3
    <3> QED
      BY <3>1, <3>2
  <2>4. CASE ~(FirstRow(n) + i < Rows(n))
    <3>1. Rest(n) = 0 /\ b = RowStart(n, Rows(n))
      BY <2>1, <2>2, <2>4 DEF HopAt
    <3> QED
      BY <3>1, EndHeld
  <2> QED
    BY <2>3, <2>4
<1> QED
  BY <1>3, <1>4, <1>5

-----------------------------------------------------------------------------
(* The parts of the volume                                                 *)
LEMMA RowOf ==
    ASSUME NEW n \in Sizes, IlistSize(n) > 0, NEW x \in Start(n) .. RowStart(n, Rows(n)) - 1
    PROVE  \E i \in 0 .. Rows(n) - 1 : RowStart(n, i) <= x /\ x < RowStart(n, i + 1)
<1>1. Rows(n) \in Nat /\ Start(n) \in Nat /\ RowStart(n, 0) = Start(n)
      /\ RowStart(n, Rows(n)) \in Nat
  BY RowFacts, Regions
<1>2. x \in Nat
  BY <1>1
<1>3. PICK B : B = {j \in 0 .. Rows(n) : x < RowStart(n, j)}
  OBVIOUS
<1>4. Rows(n) \in B /\ B \subseteq Nat
  BY <1>1, <1>2, <1>3
<1>5. PICK m \in B : \A k \in B : m <= k
  BY <1>4, LeastNat
<1>6. m # 0
  BY <1>1, <1>2, <1>3, <1>5
<1>7. PICK i \in Nat : m = i + 1 /\ i \in 0 .. Rows(n) - 1 /\ i < m /\ i \in 0 .. Rows(n)
  BY <1>1, <1>3, <1>5, <1>6
<1>8. ~(x < RowStart(n, i))
  BY <1>3, <1>5, <1>7
<1>9. RowStart(n, i) \in Nat
  BY <1>7, RowFacts
<1> QED
  BY <1>2, <1>3, <1>5, <1>7, <1>8, <1>9

LEMMA RowEntries ==
    ASSUME NEW n \in Sizes, IlistSize(n) > 0, NUM_BLOCKS = n, Made(n), NEW j \in FirstRow(n) .. Rows(n) - 1
    PROVE  EntriesOf(RowStart(n, j))
               = (RowStart(n, j) + 1 .. RowStart(n, j + 1) - 1) \ {Root(n)}
<1>1. j \in 0 .. Rows(n) - 1 /\ j \in Nat
  BY RootFirst, RowFacts
<1>2. PICK b \in Nat, f \in Nat : b = RowStart(n, j) /\ f = RowFirst(n, j) /\ f <= E
  BY <1>1, RowFacts
<1>3. RowStart(n, j + 1) = b + (E - f) + 1 /\ E \in Nat
  BY <1>1, <1>2, RowFacts, SizeFacts
<1>4. PICK r \in Nat : r = Root(n)
  BY RootFirst
<1>5. PICK g : g = [s \in Slots |-> IF s < f \/ b + (s - f) + 1 = r THEN 0 ELSE b + (s - f) + 1]
  OBVIOUS
<1>6. device[RowStart(n, j)].data = g
  <2>1. \A s \in Slots : Entry(n, j, s) = b + (s - f) + 1
    BY <1>2 DEF Entry
  <2>2. device[RowStart(n, j)] = RowBlock(n, j, Root(n))
    BY RowMade
  <2>3. device[RowStart(n, j)].data = [s \in Slots |-> IF s < RowFirst(n, j) \/ Entry(n, j, s) = Root(n)
                                                       THEN 0 ELSE Entry(n, j, s)]
    BY <2>2 DEF RowBlock, ListBlock
  <2>4. g = [s \in Slots |-> IF s < RowFirst(n, j) \/ Entry(n, j, s) = Root(n)
                             THEN 0 ELSE Entry(n, j, s)]
    BY <1>2, <1>4, <1>5, <2>1
  <2> QED
    BY <2>3, <2>4
<1>7. ASSUME NEW x \in Range(g), x # 0 PROVE x \in (b + 1 .. b + (E - f)) \ {r}
  <2>1. PICK s \in Slots : x = g[s]
    BY <1>5 DEF Range
  <2>2. s \in 0 .. E - 1 /\ s \in Nat
    BY <1>3 DEF Slots
  <2> QED
    BY <1>2, <1>3, <1>4, <1>5, <1>7, <2>1, <2>2
<1>8. ASSUME NEW x \in (b + 1 .. b + (E - f)) \ {r} PROVE x \in Range(g) /\ x # 0
  <2>1. PICK s \in Nat : s = f + (x - b - 1) /\ s \in Slots /\ b + (s - f) + 1 = x /\ ~(s < f)
    <3>1. f + (x - b - 1) \in 0 .. E - 1
      BY <1>2, <1>3
    <3> QED
      BY <1>2, <1>3, <3>1 DEF Slots
  <2>2. g[s] = x
    BY <1>5, <1>8, <2>1
  <2> QED
    BY <1>2, <1>5, <2>1, <2>2 DEF Range
<1>9. RowStart(n, j + 1) - 1 = b + (E - f)
  BY <1>2, <1>3
<1>10. EntriesOf(RowStart(n, j)) = Range(g) \ {0}
  BY <1>6, RowListed DEF EntriesOf
<1> QED
  BY <1>2, <1>4, <1>7, <1>8, <1>9, <1>10

LEMMA ServedMember ==
    \A x : x \in Served <=> x \in Heads \/ \E b \in Heads : x \in EntriesOf(b)
<1>1. PICK U : U = UNION {EntriesOf(b) : b \in Heads}
  BY Zenon
<1>2. Served = Heads \union U
  BY <1>1, Zenon DEF Served
<1>3. \A x : x \in U <=> \E b \in Heads : x \in EntriesOf(b)
  BY <1>1, Zenon
<1>4. \A x : x \in Served <=> x \in Heads \/ x \in U
  BY <1>2
<1> QED
  BY <1>3, <1>4, Zenon

LEMMA ServedIs ==
    ASSUME NEW n \in Sizes, IlistSize(n) > 0, NUM_BLOCKS = n, Made(n)
    PROVE  /\ (Start(n) .. Last(n)) \ {Root(n)} \subseteq Served
           /\ Ends(n) => Served \subseteq (Start(n) .. Last(n)) \ {Root(n)}
<1>2. /\ Rows(n) \in Nat /\ Start(n) \in Nat /\ RowStart(n, Rows(n)) \in Nat
      /\ RowStart(n, 0) = Start(n) /\ Rest(n) \in Nat
  BY RowFacts, Regions
<1>l. /\ Last(n) \in Nat
      /\ Last(n) = IF Rest(n) > 0 THEN RowStart(n, Rows(n)) - 1 ELSE RowStart(n, Rows(n))
  BY LostIs
<1>3. ASSUME NEW j \in FirstRow(n) .. Rows(n) - 1
      PROVE  /\ RowStart(n, j) # Root(n) /\ j \in 0 .. Rows(n) - 1
             /\ RowStart(n, j) \in Nat /\ RowStart(n, j + 1) \in Nat
             /\ Start(n) <= RowStart(n, j) /\ RowStart(n, j) < RowStart(n, j + 1)
             /\ RowStart(n, j + 1) <= RowStart(n, Rows(n))
  <2>1. j \in 1 .. Rows(n) - 1 \/ (Rest(n) > 0 /\ j = 0)
    BY <1>2 DEF FirstRow
  <2>2. Rest(n) > 0 => RowStart(n, 0) # Root(n)
    BY <1>2 DEF Root
  <2>3. RowStart(n, j) # Root(n)
    BY <2>1, <2>2, RootFirst
  <2>4. j \in 0 .. Rows(n) - 1
    BY <2>1, RootFirst
  <2> QED
    BY <1>2, <2>3, <2>4, RowsInside
<1>4. ASSUME Ends(n), NEW x \in Served PROVE x \in (Start(n) .. Last(n)) \ {Root(n)}
  <2>1. ASSUME NEW b \in Heads, x = b \/ x \in EntriesOf(b)
        PROVE  x \in (Start(n) .. Last(n)) \ {Root(n)}
    <3>1. CASE \E j \in FirstRow(n) .. Rows(n) - 1 : b = RowStart(n, j)
      <4>1. PICK j \in FirstRow(n) .. Rows(n) - 1 : b = RowStart(n, j)
        BY <3>1
      <4>2. x = b \/ x \in (RowStart(n, j) + 1 .. RowStart(n, j + 1) - 1) \ {Root(n)}
        BY <2>1, <4>1, RowEntries
      <4> QED
        BY <1>2, <1>l, <1>3, <4>1, <4>2
    <3>2. CASE Rest(n) = 0 /\ b = Unwritten
      <4>1. device[Unwritten] = Zeros
        BY <1>4, <3>2 DEF Ends
      <4>2. x = Unwritten
        BY <2>1, <3>2, <4>1, EndHeld
      <4> QED
        BY <1>2, <1>l, <3>2, <4>2, EndHeld
    <3> QED
      BY <1>4, <2>1, <3>1, <3>2, HeadsAre
  <2> QED
    BY <1>4, <2>1, ServedMember
<1>5. ASSUME NEW x \in (Start(n) .. Last(n)) \ {Root(n)} PROVE x \in Served
  <2>0. CASE ~(x < RowStart(n, Rows(n)))
    <3>1. Rest(n) = 0 /\ x = RowStart(n, Rows(n))
      BY <1>2, <1>l, <2>0
    <3> QED
      BY <3>1, EndHeld, HeadsAre, ServedMember
  <2>00. CASE x < RowStart(n, Rows(n))
    <3>0. x \in Start(n) .. RowStart(n, Rows(n)) - 1 /\ x # Root(n)
      BY <1>2, <1>l, <2>00
    <3>1. PICK i \in 0 .. Rows(n) - 1 : RowStart(n, i) <= x /\ x < RowStart(n, i + 1)
      BY <3>0, RowOf
    <3>2. i \in FirstRow(n) .. Rows(n) - 1
      <4>1. CASE Rest(n) > 0
        BY <1>2, <4>1 DEF FirstRow
      <4>2. CASE ~(Rest(n) > 0)
        <5>1. i # 0
          <6>1. Root(n) = Start(n) /\ Rest(n) = 0
            BY <1>2, <4>2 DEF Root
          <6>2. RowStart(n, 0 + 1) = Start(n) + Rest(n) + 1
            BY RootFirst
          <6> QED
            BY <1>2, <3>0, <3>1, <6>1, <6>2
        <5> QED
          BY <1>2, <4>2, <5>1 DEF FirstRow
      <4> QED
        BY <4>1, <4>2
    <3>3. RowStart(n, i) \in Heads
      BY <3>2, HeadsAre
    <3>4. CASE x = RowStart(n, i)
      BY <3>3, <3>4, ServedMember
    <3>5. CASE x # RowStart(n, i)
      <4>1. x \in (RowStart(n, i) + 1 .. RowStart(n, i + 1) - 1) \ {Root(n)}
        BY <1>2, <1>3, <3>0, <3>1, <3>2, <3>5
      <4>2. x \in EntriesOf(RowStart(n, i))
        BY <3>2, <4>1, RowEntries
      <4> QED
        BY <3>3, <4>2, ServedMember
    <3> QED
      BY <3>4, <3>5
  <2> QED
    BY <2>0, <2>00
<1> QED
  BY <1>4, <1>5

LEMMA IlistIs ==
    ASSUME NEW n \in Sizes, IlistSize(n) > 0, Shaped(n), Made(n)
    PROVE  Ilist = 1 .. IlistSize(n)
<1>1. DOMAIN device = 0 .. n - 1
  BY Sized
<1>2. ASSUME NEW b \in 1 .. IlistSize(n) PROVE b \in Ilist
  <2>1. b \in 0 .. n - 1
    BY Regions
  <2>2. device[b] = InodesAt(b, RootInode(Root(n)))
    BY DEF Made, Layout
  <2> QED
    BY <1>1, <2>1, <2>2 DEF Ilist, InodesAt
<1>3. ASSUME NEW b \in 0 .. n - 1, b \notin 1 .. IlistSize(n) PROVE device[b].kind # "inodes"
  <2>1. CASE b = 0
    BY <2>1 DEF Made, Super
  <2>2. CASE b # 0
    <3>1. b \in Start(n) .. n - 1
      BY <1>3, <2>2, Regions
    <3>2. CASE \E i \in FirstRow(n) .. Rows(n) - 1 : b = RowStart(n, i)
      BY <3>2, RowMade
    <3>3. CASE ~ \E i \in FirstRow(n) .. Rows(n) - 1 : b = RowStart(n, i)
      BY <3>1, <3>3 DEF Made, Layout, Aside
    <3> QED
      BY <3>2, <3>3
  <2> QED
    BY <2>1, <2>2
<1> QED
  BY <1>1, <1>2, <1>3 DEF Ilist

LEMMA PartsMeet ==
    ASSUME NEW n \in Sizes, IlistSize(n) > 0, Shaped(n), Made(n), Ends(n)
    PROVE  Partition
<1>0. DOMAIN device = 0 .. n - 1 /\ NUM_BLOCKS = n
  BY Sized
<1>1. PICK s \in Nat, t \in Nat, r \in Nat, l \in Nat :
           /\ s = IlistSize(n) /\ t = Start(n) /\ r = Root(n) /\ l = Last(n)
           /\ t = s + 1 /\ t <= r /\ r <= l /\ l < n /\ n \in Nat
  <2>1. Last(n) \in Nat /\ Last(n) < n /\ Root(n) <= Last(n)
    BY <1>0, LostIs
  <2>2. Root(n) \in Nat /\ Start(n) <= Root(n)
    BY RootFirst
  <2>3. /\ IlistSize(n) \in Nat /\ Start(n) \in Nat /\ n \in Nat /\ Start(n) = IlistSize(n) + 1
    BY Regions
  <2> QED
    BY <2>1, <2>2, <2>3
<1>2. PICK b, c, d, e, f : /\ b = {0} /\ c = 1 .. s /\ d = {r} /\ e = (t .. l) \ {r}
                           /\ f = l + 1 .. n - 1
  BY Zenon
<1>3. Parts = <<b, c, d, e, f>>
  <2>1. Ilist = c
    BY <1>1, <1>2, IlistIs
  <2>2. root_data = r
    BY <1>1 DEF Made
  <2>3. Served = e
    BY <1>0, <1>1, <1>2, ServedIs
  <2>4. Lost = f
    BY <1>0, <1>1, <1>2, LostIs
  <2> QED
    BY <1>2, <2>1, <2>2, <2>3, <2>4 DEF Parts
<1>4. UNION Range(Parts) = b \union c \union d \union e \union f
  <2>1. Range(<<b, c, d, e, f>>) = {b, c, d, e, f}
    BY DEF Range
  <2> QED
    BY <1>3, <2>1
<1>5. b \union c \union d \union e \union f = 0 .. n - 1
  BY <1>1, <1>2
<1>6. /\ b \intersect c = {} /\ b \intersect d = {} /\ b \intersect e = {} /\ b \intersect f = {}
      /\ c \intersect d = {} /\ c \intersect e = {} /\ c \intersect f = {}
      /\ d \intersect e = {} /\ d \intersect f = {} /\ e \intersect f = {}
  BY <1>1, <1>2
<1>7. \A i, j \in DOMAIN Parts : i # j => Parts[i] \intersect Parts[j] = {}
  <2>1. DOMAIN Parts = 1 .. 5
    BY <1>3
  <2>2. Parts[1] = b /\ Parts[2] = c /\ Parts[3] = d /\ Parts[4] = e /\ Parts[5] = f
    BY <1>3
  <2>3. \A i \in 1 .. 5 : i \in {1, 2, 3, 4, 5}
    OBVIOUS
  <2> QED
    BY <1>6, <2>1, <2>2, <2>3
<1> QED
  BY <1>0, <1>4, <1>5, <1>7 DEF Partition

LEMMA InodesOf ==
    ASSUME NEW b, NEW ino
    PROVE  /\ InodesAt(b, ino).first = (b - 1) * InodesPerBlock
           /\ \A i \in 0 .. InodesPerBlock - 1 :
                  InodesAt(b, ino).inode[i] = IF b = 1 /\ i = 0 THEN ino ELSE FreeInode
<1>1. PICK x, f : x = (b - 1) * InodesPerBlock
                  /\ f = [i \in 0 .. InodesPerBlock - 1 |-> IF b = 1 /\ i = 0 THEN ino ELSE FreeInode]
  OBVIOUS
<1>2. InodesAt(b, ino) = [kind |-> "inodes", first |-> x, inode |-> f]
  BY <1>1 DEF InodesAt
<1>3. InodesAt(b, ino).first = x /\ InodesAt(b, ino).inode = f
  BY <1>2
<1> QED
  BY <1>1, <1>3

LEMMA InodesMade ==
    ASSUME NEW n \in Sizes, IlistSize(n) > 0, Shaped(n), Made(n)
    PROVE  InodesNumbered /\ device[1].inode[0].block = Root(n)
<1>1. Ilist = 1 .. IlistSize(n) /\ sblock_incore.ilist_size = IlistSize(n)
  BY IlistIs DEF Made, Final
<1>2. \A b \in Ilist : device[b] = InodesAt(b, RootInode(Root(n)))
  BY <1>1 DEF Made, Layout
<1>3. \A b \in Ilist : device[b].first = (b - 1) * InodesPerBlock
  BY <1>2, InodesOf
<1>4. PICK D : D = 0 .. InodesPerBlock - 1
  OBVIOUS
<1>5. ASSUME NEW b \in Ilist, NEW i \in D
      PROVE  device[b].inode[i] = IF b = 1 /\ i = 0 THEN RootInode(Root(n)) ELSE FreeInode
  BY <1>2, <1>4, InodesOf
<1>6. RootInode(Root(n)).in_use /\ ~FreeInode.in_use
  BY Zenon DEF RootInode, FreeInode
<1>7. 1 \in Ilist /\ 0 \in D
  BY <1>1, <1>4, Regions, SizeFacts
<1>8. \A p \in Ilist \X D : device[p[1]].inode[p[2]].in_use <=> p = <<1, 0>>
  <2> SUFFICES ASSUME NEW b \in Ilist, NEW i \in D
               PROVE  device[b].inode[i].in_use <=> <<b, i>> = <<1, 0>>
    OBVIOUS
  <2>1. CASE b = 1 /\ i = 0
    BY <1>5, <1>6, <2>1
  <2>2. CASE ~(b = 1 /\ i = 0)
    BY <1>5, <1>6, <2>2
  <2> QED
    BY <2>1, <2>2
<1>9. {p \in Ilist \X D : device[p[1]].inode[p[2]].in_use} = {<<1, 0>>}
  BY <1>7, <1>8
<1>10. device[1].inode[0].block = Root(n)
  BY <1>5, <1>7 DEF RootInode
<1> QED
  BY <1>1, <1>3, <1>4, <1>9, <1>10 DEF InodesNumbered

(* The blocks that statfs reports as free: those that pop serves, and what *)
(* an even last row costs.                                                 *)
LEMMA FreeCounted ==
    ASSUME NEW n \in Sizes, IlistSize(n) > 0, NUM_BLOCKS = n, Made(n), Ends(n)
    PROVE  sblock_incore.free_blocks = Cardinality(Served) + Cardinality(Lost)
<1>1. PICK t \in Int, r \in Int, l \in Int, m \in Int :
           /\ t = Start(n) /\ r = Root(n) /\ l = Last(n) /\ m = n - 1
           /\ t <= r /\ r <= l /\ l <= m
  <2>1. Last(n) \in Nat /\ Last(n) < n /\ Root(n) <= Last(n)
    BY LostIs
  <2>2. Root(n) \in Nat /\ Start(n) <= Root(n) /\ Start(n) \in Nat /\ n \in Nat
    BY RootFirst, Regions
  <2> QED
    BY <2>1, <2>2
<1>2. Served = (t .. l) \ {r}
  BY <1>1, ServedIs
<1>3. PICK k \in Int : k = l + 1
  BY <1>1
<1>4. Lost = k .. m
  BY <1>1, <1>3, LostIs
<1>5. PICK S : S = t .. l /\ IsFiniteSet(S) /\ Cardinality(S) = l - t + 1
  <2>1. IsFiniteSet(t .. l) /\ Cardinality(t .. l) = IF t > l THEN 0 ELSE l - t + 1
    BY <1>1, FS_Interval
  <2>2. ~(t > l)
    BY <1>1
  <2> QED
    BY <2>1, <2>2
<1>6. Cardinality(Served) = l - t
  <2>1. r \in S
    BY <1>1, <1>5
  <2>2. Cardinality(S \ {r}) = Cardinality(S) - 1
    BY <1>5, <2>1, FS_RemoveElement
  <2> QED
    BY <1>1, <1>2, <1>5, <2>2
<1>7. Cardinality(Lost) = m - l
  <2>1. Cardinality(k .. m) = IF k > m THEN 0 ELSE m - k + 1
    BY <1>1, <1>3, FS_Interval
  <2> QED
    BY <1>1, <1>3, <1>4, <2>1
<1>8. sblock_incore.free_blocks = NDataBlocks(n) - 1
  BY DEF Made, Final
<1>9. n = t + NDataBlocks(n) /\ NDataBlocks(n) \in Nat /\ n \in Nat
  BY <1>1, SizeFacts
<1>10. PICK d \in Int, s \in Int, o \in Int :
           d = NDataBlocks(n) /\ s = Cardinality(Served) /\ o = Cardinality(Lost)
  BY <1>1, <1>6, <1>7, <1>9
<1>11. s = l - t /\ o = m - l /\ n = t + d /\ m = n - 1
  BY <1>1, <1>6, <1>7, <1>9, <1>10
<1>12. d - 1 = s + o
  BY <1>1, <1>9, <1>11
<1> QED
  BY <1>8, <1>10, <1>12

(* mkfs refuses only devices without room for inodes.  On every other one  *)
(* the inodes are numbered, the root's is in use and its directory there,  *)
(* and each block gets one place; what pop serves is what the superblock   *)
(* counts, except that a last row that comes out even is not served but    *)
(* for its first block, or, if that did not hold zeros, whatever it leads  *)
(* to: property FreshVolume.                                               *)
THEOREM FreshMade == MkfsSpec => []FreshVolume
<1>1. ASSUME MkfsInv PROVE FreshVolume
  <2>1. PICK n \in Sizes : At(n)
    BY <1>1 DEF MkfsInv
  <2>2. Shaped(n) /\ NUM_BLOCKS = n
    BY <2>1, Sized DEF At
  <2>3. stage = "failed" => IlistSize(NUM_BLOCKS) = 0
    BY <2>1, <2>2 DEF At, Control
  <2>4. ASSUME Content
        PROVE  /\ InodesNumbered
               /\ device[0] = Super(sblock_incore)
               /\ sblock_incore.free_inodes = sblock_incore.ilist_size * InodesPerBlock - 1
               /\ device[device[1].inode[0].block] = RootEntries
               /\ IF Even /\ device[Unwritten] # Zeros
                  THEN /\ device[Unwritten].kind = "held"
                       /\ (Start(NUM_BLOCKS) .. Unwritten) \ {root_data} \subseteq Served
                  ELSE /\ Partition
                       /\ sblock_incore.free_blocks = Cardinality(Served) + Cardinality(Lost)
    <3>1. IlistSize(n) > 0
      BY <2>1, <2>4 DEF Content, At, Control
    <3>2. Made(n)
      BY <2>1, <2>4, <3>1 DEF Content, At, Growing
    <3>3. InodesNumbered /\ device[1].inode[0].block = Root(n)
      BY <2>2, <3>1, <3>2, InodesMade
    <3>4. device[0] = Super(sblock_incore) /\ device[Root(n)] = RootEntries /\ root_data = Root(n)
      BY <3>2 DEF Made
    <3>5. sblock_incore.free_inodes = sblock_incore.ilist_size * InodesPerBlock - 1
      BY <3>2 DEF Made, Final
    <3>6. Even <=> Rest(n) = 0
      BY <2>2, <3>1, LostIs
    <3>7. CASE Even /\ device[Unwritten] # Zeros
      <4>1. device[Unwritten].kind = "held"
        BY <2>2, <3>1, <3>2, <3>6, <3>7, EndHeld
      <4>2. Last(n) = Unwritten
        BY <3>6, <3>7 DEF Last
      <4>3. (Start(NUM_BLOCKS) .. Unwritten) \ {root_data} \subseteq Served
        BY <2>2, <3>1, <3>2, <3>4, <4>2, ServedIs
      <4> QED
        BY <3>3, <3>4, <3>5, <3>7, <4>1, <4>3
    <3>8. CASE ~(Even /\ device[Unwritten] # Zeros)
      <4>1. Ends(n)
        <5>1. Rest(n) \in Nat
          BY <3>1, RowFacts
        <5> QED
          BY <3>6, <3>8, <5>1 DEF Ends
      <4>2. Partition /\ sblock_incore.free_blocks = Cardinality(Served) + Cardinality(Lost)
        BY <2>2, <3>1, <3>2, <4>1, PartsMeet, FreeCounted
      <4> QED
        BY <3>3, <3>4, <3>5, <3>8, <4>2
    <3> QED
      BY <3>7, <3>8
  <2> QED
    BY <2>3, <2>4 DEF FreshVolume
<1> QED
  BY <1>1, MkfsInvariance, PTL
=============================================================================
