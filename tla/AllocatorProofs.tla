--------------------------- MODULE AllocatorProofs ---------------------------
(***************************************************************************)
(* The two allocators, for every geometry.                                 *)
(*                                                                         *)
(* Part one: the blocks.  No block has two owners, none of the file        *)
(* system's own is given away, the three kinds of counts follow from who   *)
(* holds what, and a short batch is short for a reason.  What the three    *)
(* operations have in common is a set of positions that they take from the *)
(* free blocks or give back to them.  That a batch and a freed range,      *)
(* which are computed group by group, are such sets is shown by going      *)
(* along the groups.                                                       *)
(*                                                                         *)
(* Part two: the inodes.  No inode has two owners, the counts follow from  *)
(* who holds what, the unused tails of the tables are unused and ENOSPC is *)
(* true.  None of these is inductive alone.  That a clear bit belongs to a *)
(* free inode takes InodeBitmapIsExact and ReservedKept; that the group of *)
(* a free inode is looked at takes InodeCountsAgree; that its bit is       *)
(* looked at takes the arithmetic of get_inodes_in_group_cnt.              *)
(***************************************************************************)
EXTENDS Balloc, Ialloc, FiniteSetTheorems, WellFoundedInduction, TLAPS

-----------------------------------------------------------------------------
(* Numbers. *)

\* Quotient and remainder.
LEMMA Division ==
    ASSUME NEW n \in Nat, NEW m \in Nat \ {0}
    PROVE  n \div m \in Nat /\ n % m \in 0 .. m - 1 /\ n = (n \div m) * m + (n % m)
  OBVIOUS

\* They are the only ones.
LEMMA DivisionIsUnique ==
    ASSUME NEW m \in Nat \ {0}, NEW g \in Nat, NEW i \in 0 .. m - 1
    PROVE  (g * m + i) \div m = g /\ (g * m + i) % m = i
  OBVIOUS

\* A quotient is smaller than a bound whose multiple bounds the dividend.
LEMMA QuotientBound ==
    ASSUME NEW m \in Nat \ {0}, NEW q \in Nat, NEW c \in Nat, NEW r \in Nat, q * m + r < c * m
    PROVE  q < c
  <1> SUFFICES ASSUME c <= q PROVE FALSE
    OBVIOUS
  <1>1. PICK d \in Nat : q = c + d
    <2>1. q - c \in Nat /\ q = c + (q - c)
      OBVIOUS
    <2> QED
      BY <2>1
  <1>2. q * m = c * m + d * m
    BY <1>1
  <1>3. d * m \in Nat /\ c * m \in Nat
    BY <1>1
  <1> QED
    BY <1>2, <1>3

\* A set of naturals that is not empty has a least element.
LEMMA LeastExists ==
    ASSUME NEW S \in SUBSET Nat, S # {}
    PROVE  \E x \in S : \A y \in S : x <= y
  <1> DEFINE R == OpToRel(<, Nat)
  <1>1. \E x \in S : \A y \in S : ~(<<y, x>> \in R)
    <2>1. IsWellFoundedOn(R, Nat)
      BY NatLessThanWellFounded
    <2> HIDE DEF R
    <2> QED
      BY <2>1, WFMin
  <1>2. PICK x \in S : \A y \in S : ~(<<y, x>> \in R)
    BY <1>1
  <1>3. \A y \in S : x <= y
    <2> SUFFICES ASSUME NEW y \in S PROVE ~(y < x)
      OBVIOUS
    <2> SUFFICES ASSUME y < x PROVE FALSE
      OBVIOUS
    <2>1. y \in Nat /\ x \in Nat
      BY <1>2
    <2>2. <<y, x>> \in R
      BY <2>1 DEF OpToRel
    <2> QED
      BY <1>2, <2>2
  <1> QED
    BY <1>2, <1>3

\* What holds of 0, and of each number up to n whose predecessor it holds of,
\* holds up to n.
LEMMA UpTo ==
    ASSUME NEW n \in Nat, NEW S, 0 \in S, \A k \in 1 .. n : k - 1 \in S => k \in S
    PROVE  0 .. n \subseteq S
  <1> DEFINE bad == {k \in 0 .. n : k \notin S}
  <1> SUFFICES ASSUME bad # {} PROVE FALSE
    OBVIOUS
  <1>1. bad \in SUBSET Nat
    OBVIOUS
  <1> HIDE DEF bad
  <1>2. PICK k \in bad : \A y \in bad : k <= y
    BY <1>1, LeastExists
  <1>3. k \in 0 .. n /\ k \notin S /\ k # 0
    BY <1>2 DEF bad
  <1>4. k - 1 \in 0 .. n /\ ~(k <= k - 1)
    BY <1>3
  <1>5. k - 1 \in S
    BY <1>2, <1>4 DEF bad
  <1> QED
    BY <1>3, <1>5

\* The functions on 0 .. n that begin with a and go on by F.
Stepwise(n, V, a, F) ==
    {f \in [0 .. n -> V] : f[0] = a /\ \A k \in 1 .. n : f[k] = F[<<k, f[k - 1]>>]}

StaysIn(n, V, F) == \A k \in 1 .. n : \A v \in V : F[<<k, v>>] \in V

\* A function is defined by its first value and its steps.
LEMMA StepwiseExists ==
    ASSUME NEW n \in Nat, NEW V, NEW a \in V, NEW F, StaysIn(n, V, F)
    PROVE  \E f : f \in Stepwise(n, V, a, F)
  <1> DEFINE Is(f, m) == /\ f \in [0 .. m -> V] /\ f[0] = a
                         /\ \A k \in 1 .. m : f[k] = F[<<k, f[k - 1]>>]
             S == {m \in 0 .. n : \E f \in [0 .. m -> V] : Is(f, m)}
  <1>1. 0 \in S
    <2> DEFINE f == [k \in 0 .. 0 |-> a]
    <2>1. Is(f, 0) /\ f \in [0 .. 0 -> V]
      OBVIOUS
    <2> HIDE DEF f, Is
    <2>2. \E h \in [0 .. 0 -> V] : Is(h, 0)
      BY <2>1
    <2> QED
      BY <2>2
  <1>2. ASSUME NEW m \in 1 .. n, m - 1 \in S
        PROVE  m \in S
    <2>1. PICK f \in [0 .. m - 1 -> V] : Is(f, m - 1)
      BY <1>2
    <2> DEFINE g == [k \in 0 .. m |-> IF k = m THEN F[<<m, f[m - 1]>>] ELSE f[k]]
    <2>2. f[m - 1] \in V
      OBVIOUS
    <2>3. F[<<m, f[m - 1]>>] \in V
      BY <2>2 DEF StaysIn
    <2>4. g \in [0 .. m -> V] /\ g[0] = a
      BY <2>1, <2>3
    <2>5. ASSUME NEW k \in 1 .. m
          PROVE  g[k] = F[<<k, g[k - 1]>>]
      <3>1. g[k - 1] = f[k - 1]
        OBVIOUS
      <3>2. CASE k = m
        <4>1. g[k] = F[<<m, f[m - 1]>>]
          BY <3>2
        <4> HIDE DEF g
        <4> QED
          BY <3>1, <3>2, <4>1
      <3>3. CASE k # m
        <4>1. k \in 1 .. m - 1 /\ g[k] = f[k]
          BY <3>3
        <4> QED
          BY <2>1, <3>1, <4>1
      <3> QED
        BY <3>2, <3>3
    <2> HIDE DEF g
    <2>6. Is(g, m)
      BY <2>4, <2>5
    <2> QED
      BY <2>4, <2>6
  <1> HIDE DEF S
  <1>3. n \in S
    BY <1>1, <1>2, UpTo
  <1> QED
    BY <1>3 DEF S, Stepwise


Position == Group \X Index

Free == Usable \ Held

\* The positions of the free blocks of a group.
FreeIn(g) == {i \in Index : Address(i, g) \in Free}

\* The blocks at positions.
At(bits) == {Address(p[2], p[1]) : p \in bits}

-----------------------------------------------------------------------------
(* Addresses. *)

LEMMA GroupsAreNumbers ==
    /\ GroupCount \in Nat /\ Group \in SUBSET Nat /\ Index \in SUBSET Nat
    /\ BlocksPerGroup \in Nat \ {0} /\ BlocksCount \in Nat
    /\ BlocksCount <= GroupCount * BlocksPerGroup
  <1> DEFINE n == BlocksCount + BlocksPerGroup - 1
  <1>1. BlocksPerGroup \in Nat \ {0} /\ BlocksCount \in Nat
    BY Geometry
  <1>2. n \in Nat
    BY <1>1
  <1> HIDE DEF n
  <1>3. /\ n \div BlocksPerGroup \in Nat
        /\ n = (n \div BlocksPerGroup) * BlocksPerGroup + (n % BlocksPerGroup)
        /\ n % BlocksPerGroup <= BlocksPerGroup - 1 /\ n % BlocksPerGroup \in Nat
    <2>1. /\ n \div BlocksPerGroup \in Nat
          /\ n = (n \div BlocksPerGroup) * BlocksPerGroup + (n % BlocksPerGroup)
          /\ n % BlocksPerGroup \in 0 .. BlocksPerGroup - 1
      BY <1>1, <1>2, Division
    <2>2. \A r \in 0 .. BlocksPerGroup - 1 : r <= BlocksPerGroup - 1 /\ r \in Nat
      BY <1>1
    <2> QED
      BY <2>1, <2>2
  <1>4. GroupCount = n \div BlocksPerGroup
    BY DEF GroupCount, n
  <1>5. (n \div BlocksPerGroup) * BlocksPerGroup \in Nat
    BY <1>1, <1>3
  <1>6. BlocksCount <= (n \div BlocksPerGroup) * BlocksPerGroup
    BY <1>1, <1>3, <1>5 DEF n
  <1> QED
    BY <1>1, <1>3, <1>4, <1>6 DEF Group, Index

\* The group and index of an address.
LEMMA PositionOfAddress ==
    ASSUME NEW g \in Nat, NEW i \in Index
    PROVE  /\ Address(i, g) \in Nat
           /\ GroupOf(Address(i, g)) = g
           /\ IndexOf(Address(i, g)) = i
  <1>1. /\ BlocksPerGroup \in Nat \ {0} /\ FirstDataBlock \in {0, 1}
        /\ i \in 0 .. BlocksPerGroup - 1
    BY Geometry DEF Index
  <1>2. g * BlocksPerGroup \in Nat /\ BlocksPerGroup * g = g * BlocksPerGroup
    BY <1>1
  <1>3. Address(i, g) = g * BlocksPerGroup + i + FirstDataBlock
    BY <1>1, <1>2 DEF Address
  <1>4. Based(Address(i, g)) = g * BlocksPerGroup + i
    BY <1>1, <1>2, <1>3 DEF Based
  <1> QED
    BY <1>1, <1>2, <1>3, <1>4, DivisionIsUnique DEF GroupOf, IndexOf

\* Every block of the device is at the address of its group and index.
LEMMA AddressOfPosition ==
    ASSUME NEW b \in Device
    PROVE  /\ b \in Nat
           /\ GroupOf(b) \in Group /\ IndexOf(b) \in Index
           /\ Address(IndexOf(b), GroupOf(b)) = b
  <1> DEFINE n == Based(b)
             q == n \div BlocksPerGroup
             r == n % BlocksPerGroup
  <1>1. /\ BlocksPerGroup \in Nat \ {0} /\ FirstDataBlock \in {0, 1} /\ BlocksCount \in Nat
        /\ b \in Nat /\ FirstDataBlock <= b /\ b < BlocksCount
    BY Geometry DEF Device
  <1>2. n \in Nat /\ b = n + FirstDataBlock /\ n < BlocksCount
    BY <1>1 DEF Based
  <1> HIDE DEF n
  <1>3. q \in Nat /\ r \in 0 .. BlocksPerGroup - 1 /\ n = q * BlocksPerGroup + r
    BY <1>1, <1>2, Division
  <1>4. GroupOf(b) = q /\ IndexOf(b) = r
    BY DEF GroupOf, IndexOf, n
  <1> HIDE DEF q, r
  <1>5. q < GroupCount
    <2>1. q * BlocksPerGroup + r < GroupCount * BlocksPerGroup
      <3>1. q * BlocksPerGroup \in Nat /\ GroupCount * BlocksPerGroup \in Nat
        BY <1>1, <1>3, GroupsAreNumbers
      <3> QED
        BY <1>2, <1>3, <3>1, GroupsAreNumbers
    <2> QED
      BY <1>1, <1>3, <2>1, GroupsAreNumbers, QuotientBound
  <1>6. Address(r, q) = q * BlocksPerGroup + r + FirstDataBlock
    <2>1. BlocksPerGroup * q = q * BlocksPerGroup /\ q * BlocksPerGroup \in Nat
      BY <1>1, <1>3
    <2> QED
      BY <1>1, <1>3, <2>1 DEF Address
  <1> QED
    BY <1>1, <1>2, <1>3, <1>4, <1>5, <1>6, GroupsAreNumbers DEF Group, Index

\* A position is told by its address.
LEMMA AddressIsOneToOne ==
    ASSUME NEW g \in Group, NEW i \in Index, NEW h \in Group, NEW j \in Index,
           Address(i, g) = Address(j, h)
    PROVE  g = h /\ i = j
  <1>1. g \in Nat /\ h \in Nat
    BY GroupsAreNumbers
  <1> QED
    BY <1>1, PositionOfAddress

-----------------------------------------------------------------------------
(* Sets of positions. *)

LEMMA UsableIsDevice == Usable \subseteq Device /\ Usable \cap System = {} /\ SystemZone \subseteq System
  BY DEF Usable, SystemZone, System

LEMMA DeviceIsFinite ==
    ASSUME NEW S \in SUBSET Device
    PROVE  IsFiniteSet(S) /\ Cardinality(S) \in 0 .. BlocksCount
  <1>1. FirstDataBlock \in Int /\ BlocksCount - 1 \in Int /\ BlocksCount \in Nat /\ FirstDataBlock >= 0
    BY Geometry
  <1>2. IsFiniteSet(Device) /\ Cardinality(Device) <= BlocksCount
    <2> DEFINE last == BlocksCount - 1
    <2>1. last \in Int /\ Device = FirstDataBlock .. last
      BY <1>1 DEF Device
    <2> HIDE DEF last
    <2>2. /\ IsFiniteSet(Device)
          /\ Cardinality(Device) = IF FirstDataBlock > last THEN 0 ELSE last - FirstDataBlock + 1
      BY <1>1, <2>1, FS_Interval
    <2>3. (IF FirstDataBlock > last THEN 0 ELSE last - FirstDataBlock + 1) <= BlocksCount
      BY <1>1 DEF last
    <2> QED
      BY <2>2, <2>3
  <1>3. IsFiniteSet(S) /\ Cardinality(S) <= Cardinality(Device)
    BY <1>2, FS_Subset
  <1>4. Cardinality(S) \in Nat /\ Cardinality(Device) \in Nat
    BY <1>2, <1>3, FS_CardinalityType
  <1> QED
    BY <1>1, <1>2, <1>3, <1>4

LEMMA IndexIsFinite ==
    ASSUME NEW S \in SUBSET Index
    PROVE  IsFiniteSet(S) /\ Cardinality(S) \in 0 .. BlocksPerGroup
  <1>1. 0 \in Int /\ BlocksPerGroup - 1 \in Int /\ BlocksPerGroup \in Nat \ {0}
    BY Geometry
  <1>2. IsFiniteSet(Index) /\ Cardinality(Index) = BlocksPerGroup
    BY <1>1, FS_Interval DEF Index
  <1>3. IsFiniteSet(S) /\ Cardinality(S) <= Cardinality(Index)
    BY <1>2, FS_Subset
  <1> QED
    BY <1>1, <1>2, <1>3, FS_CardinalityType

\* There are as many blocks as positions.
LEMMA AsManyBlocks ==
    ASSUME NEW bits \in SUBSET Position
    PROVE  /\ IsFiniteSet(bits) /\ IsFiniteSet(At(bits))
           /\ Cardinality(bits) = Cardinality(At(bits)) /\ Cardinality(bits) \in Nat
  <1>1. IsFiniteSet(Position)
    <2>1. IsFiniteSet(Group)
      <3>1. 0 \in Int /\ GroupCount - 1 \in Int
        BY GroupsAreNumbers
      <3> QED
        BY <3>1, FS_Interval DEF Group
    <2>2. IsFiniteSet(Index)
      BY IndexIsFinite
    <2> QED
      BY <2>1, <2>2, FS_Product DEF Position
  <1>2. IsFiniteSet(bits) /\ Cardinality(bits) \in Nat
    BY <1>1, FS_Subset, FS_CardinalityType
  <1> DEFINE f == [p \in bits |-> Address(p[2], p[1])]
  <1>3. f \in [bits -> At(bits)]
    BY DEF At
  <1>4. \A p, q \in bits : f[p] = f[q] => p = q
    <2> SUFFICES ASSUME NEW p \in bits, NEW q \in bits, f[p] = f[q] PROVE p = q
      OBVIOUS
    <2>1. /\ p[1] \in Group /\ p[2] \in Index /\ q[1] \in Group /\ q[2] \in Index
          /\ p = <<p[1], p[2]>> /\ q = <<q[1], q[2]>>
      BY DEF Position
    <2>2. Address(p[2], p[1]) = Address(q[2], q[1])
      OBVIOUS
    <2> QED
      BY <2>1, <2>2, AddressIsOneToOne
  <1>5. \A b \in At(bits) : \E p \in bits : f[p] = b
    BY DEF At
  <1> HIDE DEF f
  <1>6. f \in Bijection(bits, At(bits))
    BY <1>3, <1>4, <1>5 DEF Bijection, Injection, Surjection, IsInjective
  <1> QED
    BY <1>2, <1>6, FS_Bijection DEF ExistsBijection

\* What is at a position is among the blocks of a set of positions when the
\* position is in the set.
LEMMA InGroupIs ==
    ASSUME NEW bits \in SUBSET Position, NEW g \in Group
    PROVE  /\ InGroup(bits, g) \subseteq Index
           /\ \A i \in Index : /\ i \in InGroup(bits, g) <=> <<g, i>> \in bits
                               /\ Address(i, g) \in At(bits) <=> <<g, i>> \in bits
  <1>1. \A p \in bits : p = <<p[1], p[2]>> /\ p[1] \in Group /\ p[2] \in Index
    BY DEF Position
  <1>2. \A i \in Index : i \in InGroup(bits, g) <=> <<g, i>> \in bits
    BY <1>1 DEF InGroup
  <1>3. ASSUME NEW i \in Index
        PROVE  Address(i, g) \in At(bits) <=> <<g, i>> \in bits
    <2>1. ASSUME Address(i, g) \in At(bits) PROVE <<g, i>> \in bits
      <3>1. PICK p \in bits : Address(i, g) = Address(p[2], p[1])
        BY <2>1 DEF At
      <3> QED
        BY <1>1, <3>1, AddressIsOneToOne
    <2>2. ASSUME <<g, i>> \in bits PROVE Address(i, g) \in At(bits)
      BY <2>2 DEF At
    <2> QED
      BY <2>1, <2>2
  <1> QED
    BY <1>1, <1>2, <1>3 DEF InGroup

-----------------------------------------------------------------------------
(* Taking free positions and giving back held ones. *)

Solid == TypeOK /\ BitmapIsExact /\ ClearIsFree /\ CountsAgree

\* Blocks that some inode was given are in use, and none else.
LEMMA HeldIs ==
    ASSUME TypeOK, NEW f \in Inode
    PROVE  owned[f] \subseteq Held
  BY DEF Held

\* The blocks of one inode grow or shrink: what that makes of all the held ones.
LEMMA OneOwnerChanges ==
    ASSUME Solid, NEW f \in Inode, NEW mine, owned' = [owned EXCEPT ![f] = mine],
           mine \cap (Held \ owned[f]) = {}, mine \subseteq Usable
    PROVE  /\ Held' = (Held \ owned[f]) \cup mine
           /\ \A e, h \in Inode : e # h => owned'[e] \cap owned'[h] = {}
           /\ owned' \in [Inode -> SUBSET (0 .. BlocksCount)]
           /\ \A e \in Inode : e # f => owned'[e] = owned[e]
           /\ owned'[f] = mine
  <1>1. /\ owned \in [Inode -> SUBSET (0 .. BlocksCount)]
        /\ \A e, h \in Inode : e # h => owned[e] \cap owned[h] = {}
    BY DEF Solid, TypeOK, BitmapIsExact
  <1>2. owned'[f] = mine /\ \A e \in Inode : e # f => owned'[e] = owned[e]
    BY <1>1
  <1>3. mine \subseteq 0 .. BlocksCount
    <2>1. Device \subseteq 0 .. BlocksCount
      BY Geometry DEF Device
    <2> QED
      BY <2>1, UsableIsDevice
  <1>4. owned' \in [Inode -> SUBSET (0 .. BlocksCount)]
    BY <1>1, <1>3
  <1>5. \A e \in Inode : e # f => owned[e] \subseteq Held \ owned[f]
    BY <1>1 DEF Held
  <1>6. \A e, h \in Inode : e # h => owned'[e] \cap owned'[h] = {}
    <2> SUFFICES ASSUME NEW e \in Inode, NEW h \in Inode, e # h
                 PROVE  owned'[e] \cap owned'[h] = {}
      OBVIOUS
    <2>1. CASE e = f
      BY <1>2, <1>5, <2>1
    <2>2. CASE h = f
      BY <1>2, <1>5, <2>2
    <2>3. CASE e # f /\ h # f
      BY <1>1, <1>2, <2>3
    <2> QED
      BY <2>1, <2>2, <2>3
  <1>7. Held' = (Held \ owned[f]) \cup mine
    <2>1. Held' \subseteq (Held \ owned[f]) \cup mine
      <3> SUFFICES ASSUME NEW b \in Held' PROVE b \in (Held \ owned[f]) \cup mine
        OBVIOUS
      <3>1. PICK e \in Inode : b \in owned'[e]
        BY DEF Held
      <3> QED
        BY <1>2, <1>5, <3>1
    <2>2. mine \subseteq Held'
      BY <1>2 DEF Held
    <2>3. Held \ owned[f] \subseteq Held'
      BY <1>2 DEF Held
    <2> QED
      BY <2>1, <2>2, <2>3
  <1> QED
    BY <1>2, <1>4, <1>6, <1>7

\* Positions of free blocks are clear bits.
LEMMA TakeKeeps ==
    ASSUME Solid, NEW f \in Inode, NEW bits \in SUBSET Position, At(bits) \subseteq Free,
           Take(f, bits), result' \in {"ok", "enospc", "short"}
    PROVE  Solid' /\ Held' = Held \cup At(bits)
  <1> DEFINE mine == owned[f] \cup At(bits)
  <1>1. /\ owned' = [owned EXCEPT ![f] = mine]
        /\ bitmap' = [g \in Group |-> bitmap[g] \cup InGroup(bits, g)]
        /\ gfree' = [g \in Group |-> gfree[g] - Cardinality(InGroup(bits, g))]
        /\ sbfree' = sbfree - Cardinality(bits)
        /\ blocks' = [blocks EXCEPT ![f] = @ + Cardinality(bits)]
    <2>1. owned' = [owned EXCEPT ![f] = @ \cup {Address(p[2], p[1]) : p \in bits}]
      BY DEF Take
    <2>2. owned' = [owned EXCEPT ![f] = owned[f] \cup At(bits)]
      BY <2>1 DEF At, Solid, TypeOK
    <2> QED
      BY <2>2 DEF Take
  <1>2. /\ Held \subseteq Usable /\ owned[f] \subseteq Held
        /\ At(bits) \cap Held = {} /\ At(bits) \subseteq Usable
    BY HeldIs DEF Solid, ClearIsFree, Free
  <1>3. /\ Held' = Held \cup At(bits)
        /\ \A e, h \in Inode : e # h => owned'[e] \cap owned'[h] = {}
        /\ owned' \in [Inode -> SUBSET (0 .. BlocksCount)]
        /\ \A e \in Inode : e # f => owned'[e] = owned[e]
        /\ owned'[f] = mine
    <2>1. mine \cap (Held \ owned[f]) = {} /\ mine \subseteq Usable
      BY <1>2
    <2> HIDE DEF mine
    <2>2. Held' = (Held \ owned[f]) \cup mine
      BY <1>1, <2>1, OneOwnerChanges
    <2>3. (Held \ owned[f]) \cup mine = Held \cup At(bits)
      BY <1>2 DEF mine
    <2> QED
      BY <1>1, <2>1, <2>2, <2>3, OneOwnerChanges
  <1>4. \A g \in Group : \A i \in Index :
            /\ i \in bitmap'[g] <=> i \in bitmap[g] \/ <<g, i>> \in bits
            /\ Address(i, g) \in At(bits) <=> <<g, i>> \in bits
    BY <1>1, InGroupIs
  <1>5. bitmap' \in [Group -> SUBSET Index]
    BY <1>1, InGroupIs DEF Solid, TypeOK
  <1>6. \A g \in Group : \A i \in Index :
            Address(i, g) \in Device \ System =>
                (i \in bitmap'[g] <=> Address(i, g) \in Held' \cup Preused)
    BY <1>3, <1>4 DEF Solid, BitmapIsExact
  <1>7. ClearIsFree'
    BY <1>2, <1>3, <1>4, <1>5 DEF Solid, ClearIsFree, Clear, TypeOK
  <1>8. \A g \in Group :
            /\ gfree'[g] = Cardinality({i \in Index : Address(i, g) \in Usable \ Held'})
            /\ gfree'[g] \in 0 .. BlocksPerGroup
    <2> SUFFICES ASSUME NEW g \in Group
                 PROVE  /\ gfree'[g] = Cardinality({i \in Index : Address(i, g) \in Usable \ Held'})
                        /\ gfree'[g] \in 0 .. BlocksPerGroup
      OBVIOUS
    <2> DEFINE was == {i \in Index : Address(i, g) \in Usable \ Held}
               now == {i \in Index : Address(i, g) \in Usable \ Held'}
               taken == InGroup(bits, g)
    <2>1. taken \subseteq Index /\ \A i \in Index : i \in taken <=> Address(i, g) \in At(bits)
      BY InGroupIs
    <2>2. taken \subseteq was /\ now = was \ taken
      BY <1>2, <1>3, <2>1 DEF Free
    <2>3. was \in SUBSET Index /\ now \in SUBSET Index
      OBVIOUS
    <2>4. gfree[g] = Cardinality(was) /\ gfree'[g] = gfree[g] - Cardinality(taken)
      BY <1>1 DEF Solid, CountsAgree
    <2> HIDE DEF was, taken, now
    <2>5. Cardinality(now) = Cardinality(was) - Cardinality(was \cap taken)
      BY <2>2, <2>3, IndexIsFinite, FS_Difference
    <2>6. was \cap taken = taken
      BY <2>2
    <2> QED
      BY <2>3, <2>4, <2>5, <2>6, IndexIsFinite DEF now
  <1>9. sbfree' = Cardinality(Usable \ Held') /\ sbfree' \in 0 .. BlocksCount
    <2>1. sbfree' = Cardinality(Usable \ Held) - Cardinality(At(bits))
      BY <1>1, AsManyBlocks DEF Solid, CountsAgree
    <2>2. Usable \ Held' = (Usable \ Held) \ At(bits) /\ (Usable \ Held) \cap At(bits) = At(bits)
      BY <1>2, <1>3 DEF Free
    <2>3. Usable \ Held \in SUBSET Device /\ Usable \ Held' \in SUBSET Device
      BY UsableIsDevice
    <2>4. Cardinality(Usable \ Held') = Cardinality(Usable \ Held) - Cardinality(At(bits))
      BY <2>2, <2>3, DeviceIsFinite, FS_Difference
    <2> QED
      BY <2>1, <2>3, <2>4, DeviceIsFinite
  <1>10. \A e \in Inode : blocks'[e] = Cardinality(owned'[e]) /\ blocks'[e] \in 0 .. BlocksCount
    <2>1. \A e \in Inode : owned'[e] \in SUBSET Device /\ owned[e] \in SUBSET Device
      BY <1>2, <1>3, UsableIsDevice, HeldIs DEF Held
    <2>2. \A e \in Inode : Cardinality(owned'[e]) \in 0 .. BlocksCount
      BY <2>1, DeviceIsFinite
    <2>3. /\ IsFiniteSet(owned[f]) /\ IsFiniteSet(At(bits)) /\ owned[f] \cap At(bits) = {}
          /\ Cardinality(owned[f]) \in Nat /\ Cardinality(At(bits)) \in Nat
      BY <1>2, <2>1, DeviceIsFinite, AsManyBlocks
    <2>4. Cardinality(mine) = Cardinality(owned[f]) + Cardinality(At(bits))
      BY <2>3, FS_Union, FS_EmptySet
    <2>5. blocks'[f] = Cardinality(mine)
      BY <1>1, <2>4, AsManyBlocks DEF Solid, CountsAgree, TypeOK
    <2>6. \A e \in Inode : e # f => blocks'[e] = Cardinality(owned'[e])
      BY <1>1, <1>3 DEF Solid, CountsAgree, TypeOK
    <2> QED
      BY <1>3, <2>2, <2>5, <2>6
  <1>11. TypeOK'
    <2>1. gfree' \in [Group -> 0 .. BlocksPerGroup]
      BY <1>1, <1>8
    <2>2. blocks' \in [Inode -> 0 .. BlocksCount]
      <3>1. blocks' = [e \in Inode |-> blocks'[e]]
        BY <1>1 DEF Solid, TypeOK
      <3> QED
        BY <1>10, <3>1
    <2> QED
      BY <1>3, <1>5, <1>9, <2>1, <2>2 DEF TypeOK
  <1>12. BitmapIsExact'
    BY <1>3, <1>6 DEF BitmapIsExact
  <1>13. CountsAgree'
    BY <1>8, <1>9, <1>10 DEF CountsAgree
  <1> QED
    BY <1>3, <1>7, <1>11, <1>12, <1>13 DEF Solid

\* The other way round, with the positions of an inode's own blocks.
LEMMA GiveBackKeeps ==
    ASSUME Solid, NEW f \in Inode, NEW bits \in SUBSET Position, At(bits) \subseteq owned[f],
           bitmap' = [g \in Group |-> bitmap[g] \ InGroup(bits, g)],
           gfree' = [g \in Group |-> gfree[g] + Cardinality(InGroup(bits, g))],
           sbfree' = sbfree + Cardinality(bits),
           blocks' = [blocks EXCEPT ![f] = @ - Cardinality(bits)],
           owned' = [owned EXCEPT ![f] = @ \ At(bits)],
           result' \in {"ok", "enospc", "short"}
    PROVE  Solid'
  <1> DEFINE mine == owned[f] \ At(bits)
  <1>1. owned' = [owned EXCEPT ![f] = mine]
    BY DEF Solid, TypeOK
  <1>2. Held \subseteq Usable /\ owned[f] \subseteq Held /\ At(bits) \subseteq Held
    BY HeldIs DEF Solid, ClearIsFree
  <1>3. /\ Held' = Held \ At(bits)
        /\ \A e, h \in Inode : e # h => owned'[e] \cap owned'[h] = {}
        /\ owned' \in [Inode -> SUBSET (0 .. BlocksCount)]
        /\ \A e \in Inode : e # f => owned'[e] = owned[e]
        /\ owned'[f] = mine
    <2>1. mine \cap (Held \ owned[f]) = {} /\ mine \subseteq Usable
      BY <1>2
    <2> HIDE DEF mine
    <2>2. Held' = (Held \ owned[f]) \cup mine
      BY <1>1, <2>1, OneOwnerChanges
    <2>3. (Held \ owned[f]) \cup mine = Held \ At(bits)
      BY <1>2 DEF mine
    <2> QED
      BY <1>1, <2>1, <2>2, <2>3, OneOwnerChanges
  <1>4. \A g \in Group : \A i \in Index :
            /\ i \in bitmap'[g] <=> i \in bitmap[g] /\ <<g, i>> \notin bits
            /\ Address(i, g) \in At(bits) <=> <<g, i>> \in bits
    BY InGroupIs
  <1>5. bitmap' \in [Group -> SUBSET Index]
    BY DEF Solid, TypeOK
  <1>6. \A g \in Group : \A i \in Index :
            Address(i, g) \in Device \ System =>
                (i \in bitmap'[g] <=> Address(i, g) \in Held' \cup Preused)
    BY <1>2, <1>3, <1>4 DEF Solid, BitmapIsExact, Usable
  <1>7. ClearIsFree'
    BY <1>2, <1>3, <1>4, <1>5 DEF Solid, ClearIsFree, Clear, TypeOK
  <1>8. \A g \in Group :
            /\ gfree'[g] = Cardinality({i \in Index : Address(i, g) \in Usable \ Held'})
            /\ gfree'[g] \in 0 .. BlocksPerGroup
    <2> SUFFICES ASSUME NEW g \in Group
                 PROVE  /\ gfree'[g] = Cardinality({i \in Index : Address(i, g) \in Usable \ Held'})
                        /\ gfree'[g] \in 0 .. BlocksPerGroup
      OBVIOUS
    <2> DEFINE was == {i \in Index : Address(i, g) \in Usable \ Held}
               now == {i \in Index : Address(i, g) \in Usable \ Held'}
               given == InGroup(bits, g)
    <2>1. given \subseteq Index /\ \A i \in Index : i \in given <=> Address(i, g) \in At(bits)
      BY InGroupIs
    <2>2. was \cap given = {} /\ now = was \cup given
      BY <1>2, <1>3, <2>1
    <2>3. was \in SUBSET Index /\ now \in SUBSET Index
      OBVIOUS
    <2>4. gfree[g] = Cardinality(was) /\ gfree'[g] = gfree[g] + Cardinality(given)
      BY DEF Solid, CountsAgree
    <2> HIDE DEF was, given, now
    <2>5. IsFiniteSet(was) /\ IsFiniteSet(given)
      BY <2>1, <2>3, IndexIsFinite
    <2>6. Cardinality(was \cup given) = Cardinality(was) + Cardinality(given) - Cardinality(was \cap given)
      BY <2>5, FS_Union
    <2>7. Cardinality(was) \in Nat /\ Cardinality(given) \in Nat
      BY <2>5, FS_CardinalityType
    <2>8. Cardinality(now) = Cardinality(was) + Cardinality(given)
      <3>1. Cardinality(was \cap given) = 0
        BY <2>2, FS_EmptySet
      <3> QED
        BY <2>2, <2>6, <2>7, <3>1
    <2> QED
      BY <2>3, <2>4, <2>8, IndexIsFinite DEF now
  <1>9. sbfree' = Cardinality(Usable \ Held') /\ sbfree' \in 0 .. BlocksCount
    <2>1. sbfree' = Cardinality(Usable \ Held) + Cardinality(At(bits))
      BY AsManyBlocks DEF Solid, CountsAgree
    <2>2. Usable \ Held' = (Usable \ Held) \cup At(bits) /\ (Usable \ Held) \cap At(bits) = {}
      BY <1>2, <1>3
    <2>3. /\ Usable \ Held \in SUBSET Device /\ Usable \ Held' \in SUBSET Device
          /\ At(bits) \in SUBSET Device
      BY <1>2, UsableIsDevice
    <2>4. IsFiniteSet(Usable \ Held) /\ IsFiniteSet(At(bits))
      BY <2>3, DeviceIsFinite
    <2>5. Cardinality(Usable \ Held) \in Nat /\ Cardinality(At(bits)) \in Nat
      BY <2>4, FS_CardinalityType
    <2>6. Cardinality(Usable \ Held') = Cardinality(Usable \ Held) + Cardinality(At(bits))
      BY <2>2, <2>4, <2>5, FS_Union, FS_EmptySet
    <2> QED
      BY <2>1, <2>3, <2>6, DeviceIsFinite
  <1>10. \A e \in Inode : blocks'[e] = Cardinality(owned'[e]) /\ blocks'[e] \in 0 .. BlocksCount
    <2>1. \A e \in Inode : owned'[e] \in SUBSET Device /\ owned[e] \in SUBSET Device
      BY <1>2, <1>3, UsableIsDevice, HeldIs DEF Held
    <2>2. \A e \in Inode : Cardinality(owned'[e]) \in 0 .. BlocksCount
      BY <2>1, DeviceIsFinite
    <2>3. IsFiniteSet(owned[f]) /\ owned[f] \cap At(bits) = At(bits)
      BY <2>1, DeviceIsFinite
    <2>4. Cardinality(mine) = Cardinality(owned[f]) - Cardinality(At(bits))
      BY <2>3, FS_Difference
    <2>5. blocks'[f] = Cardinality(mine)
      BY <2>4, AsManyBlocks DEF Solid, CountsAgree, TypeOK
    <2>6. \A e \in Inode : e # f => blocks'[e] = Cardinality(owned'[e])
      BY <1>3 DEF Solid, CountsAgree, TypeOK
    <2>7. blocks'[f] = Cardinality(owned'[f])
      BY <1>3, <2>5
    <2> HIDE DEF mine
    <2> QED
      BY <2>2, <2>6, <2>7
  <1>11. TypeOK'
    <2>1. gfree' \in [Group -> 0 .. BlocksPerGroup]
      BY <1>8
    <2>2. blocks' \in [Inode -> 0 .. BlocksCount]
      <3>1. blocks' = [e \in Inode |-> blocks'[e]]
        BY DEF Solid, TypeOK
      <3> QED
        BY <1>10, <3>1
    <2> QED
      BY <1>3, <1>5, <1>9, <2>1, <2>2 DEF TypeOK
  <1>12. BitmapIsExact'
    BY <1>3, <1>6 DEF BitmapIsExact
  <1>13. CountsAgree'
    BY <1>8, <1>9, <1>10 DEF CountsAgree
  <1> QED
    BY <1>7, <1>11, <1>12, <1>13 DEF Solid

-----------------------------------------------------------------------------
(* What the allocators choose from. *)

\* The clear bits they do not skip are those of the free blocks.
LEMMA OpenIsFree ==
    ASSUME Solid, NEW g \in Group
    PROVE  Open(g) = FreeIn(g) /\ Open(g) \in SUBSET Index /\ gfree[g] = Cardinality(FreeIn(g))
  <1>1. /\ \A i \in Clear(g) : Address(i, g) \in Usable \/ Reserved(i, g)
        /\ \A i \in Index : Address(i, g) \in Device \ System =>
               (i \in bitmap[g] <=> Address(i, g) \in Held \cup Preused)
        /\ Clear(g) = Index \ bitmap[g]
    BY DEF Solid, ClearIsFree, BitmapIsExact, Clear
  <1>2. Usable = Device \ (System \cup Preused) /\ SystemZone \subseteq System
    BY UsableIsDevice DEF Usable
  <1>3. \A i \in Index : i \in Open(g) <=> i \in FreeIn(g)
    BY <1>1, <1>2 DEF Open, FreeIn, Free, Reserved
  <1>4. gfree[g] = Cardinality(FreeIn(g))
    BY DEF Solid, CountsAgree, FreeIn, Free
  <1> QED
    BY <1>1, <1>3, <1>4 DEF Open, FreeIn

LEMMA FirstIsIn ==
    ASSUME NEW S \in SUBSET Nat, S # {}
    PROVE  First(S) \in S
  BY LeastExists DEF First

LEMMA FreePositions ==
    ASSUME Solid, NEW bits \in SUBSET Position, \A p \in bits : p[2] \in Open(p[1])
    PROVE  At(bits) \subseteq Free
  <1> SUFFICES ASSUME NEW p \in bits PROVE Address(p[2], p[1]) \in Free
    BY DEF At
  <1>1. p[1] \in Group
    BY DEF Position
  <1> QED
    BY <1>1, OpenIsFree DEF FreeIn

LEMMA TurnIsGroup ==
    ASSUME NEW start \in Group, NEW k \in 1 .. GroupCount
    PROVE  Turn(start, k) \in Group
  <1>1. GroupCount \in Nat \ {0} /\ start \in Nat /\ start + k - 1 \in Nat
    BY GroupsAreNumbers DEF Group
  <1>2. (start + k - 1) % GroupCount \in 0 .. GroupCount - 1
    BY <1>1, Division
  <1> QED
    BY <1>2 DEF Turn, Group

\* Every group has its turn.
LEMMA EveryTurnComes ==
    ASSUME NEW start \in Group, NEW g \in Group
    PROVE  \E k \in 1 .. GroupCount : Turn(start, k) = g
  <1>1. GroupCount \in Nat \ {0} /\ start \in Nat /\ g \in Nat /\ start < GroupCount /\ g < GroupCount
    BY GroupsAreNumbers DEF Group
  <1>2. CASE start <= g
    <2>1. g - start + 1 \in 1 .. GroupCount /\ start + (g - start + 1) - 1 = 0 * GroupCount + g
      BY <1>1, <1>2
    <2>2. (0 * GroupCount + g) % GroupCount = g
      BY <1>1, DivisionIsUnique
    <2> QED
      BY <2>1, <2>2 DEF Turn
  <1>3. CASE ~(start <= g)
    <2>1. /\ g + GroupCount - start + 1 \in 1 .. GroupCount
          /\ start + (g + GroupCount - start + 1) - 1 = 1 * GroupCount + g
      BY <1>1, <1>3
    <2>2. (1 * GroupCount + g) % GroupCount = g
      BY <1>1, DivisionIsUnique
    <2> QED
      BY <2>1, <2>2 DEF Turn
  <1> QED
    BY <1>2, <1>3

-----------------------------------------------------------------------------
(* One block. *)

\* What a group offers is a free block of it.
LEMMA ChoiceIsOpen ==
    ASSUME Solid, NEW g \in Group, NEW idx \in Nat, Choice(g, idx) # None
    PROVE  Choice(g, idx) \in Open(g)
  <1> DEFINE later == {i \in Clear(g) : i >= idx}
             first == First(later)
  <1>1. Clear(g) \in SUBSET Nat
    BY GroupsAreNumbers DEF Clear
  <1>2. Choice(g, idx) = IF idx \in Clear(g) /\ ~Reserved(idx, g) THEN idx
                         ELSE IF Near(g, idx) # {} THEN First(Near(g, idx))
                         ELSE IF first # None /\ ~Reserved(first, g) THEN first
                         ELSE None
    BY DEF Choice
  <1>3. Near(g, idx) \subseteq Open(g) /\ Near(g, idx) \in SUBSET Nat
    BY <1>1 DEF Near, Open
  <1>4. Near(g, idx) # {} => First(Near(g, idx)) \in Open(g)
    BY <1>3, FirstIsIn
  <1>5. first # None => first \in Clear(g)
    <2>1. later \in SUBSET Nat /\ later \subseteq Clear(g)
      BY <1>1
    <2>2. later = {} => first = None
      BY DEF First
    <2> HIDE DEF later
    <2> QED
      BY <2>1, <2>2, FirstIsIn
  <1> HIDE DEF first
  <1> QED
    BY <1>2, <1>4, <1>5 DEF Open

LEMMA AllocBlockKeeps ==
    ASSUME Solid, NEW f \in Inode, NEW goal \in Goal \cup {None}, AllocBlock(f, goal)
    PROVE  Solid' /\ result' # "short"
  <1> DEFINE start == IF goal = None THEN 0 ELSE GroupOf(goal)
             idx == IF goal = None THEN 0 ELSE IndexOf(goal)
             offers == {k \in 1 .. GroupCount : /\ gfree[Turn(start, k)] # 0
                                                /\ Choice(Turn(start, k), idx) # None}
             g == Turn(start, First(offers))
  <1>1. IF offers = {}
        THEN result' = "enospc" /\ UNCHANGED <<bitmap, gfree, sbfree, owned, blocks>>
        ELSE result' = "ok" /\ Take(f, {<<g, Choice(g, idx)>>})
    BY DEF AllocBlock
  <1>2. CASE offers = {}
    <2>1. result' = "enospc" /\ UNCHANGED <<bitmap, gfree, sbfree, owned, blocks>>
      BY <1>1, <1>2
    <2> QED
      BY <2>1 DEF Solid, TypeOK, BitmapIsExact, ClearIsFree, CountsAgree, Held, Clear
  <1>3. CASE offers # {}
    <2>1. First(offers) \in offers
      BY <1>3, FirstIsIn
    <2>2. First(offers) \in 1 .. GroupCount /\ Choice(g, idx) # None
      BY <2>1
    <2>3. start \in Group /\ idx \in Nat
      <3>1. CASE goal = None
        BY <2>2, <3>1, GroupsAreNumbers DEF Group
      <3>2. CASE goal # None
        <4>1. goal \in Device
          BY <3>2, Geometry
        <4> QED
          BY <3>2, <4>1, AddressOfPosition, GroupsAreNumbers
      <3> QED
        BY <3>1, <3>2
    <2>4. g \in Group
      BY <2>2, <2>3, TurnIsGroup
    <2>5. result' = "ok" /\ Take(f, {<<g, Choice(g, idx)>>})
      BY <1>1, <1>3
    <2> HIDE DEF g, idx, start, offers
    <2>6. Choice(g, idx) \in Open(g)
      BY <2>2, <2>3, <2>4, ChoiceIsOpen
    <2> DEFINE bits == {<<g, Choice(g, idx)>>}
    <2>7. bits \in SUBSET Position /\ \A p \in bits : p[2] \in Open(p[1])
      BY <2>4, <2>6 DEF Position, Open, Clear
    <2> HIDE DEF bits
    <2>8. At(bits) \subseteq Free
      BY <2>7, FreePositions
    <2>9. Take(f, bits) /\ result' \in {"ok", "enospc", "short"}
      BY <2>5 DEF bits
    <2> QED
      BY <2>5, <2>7, <2>8, <2>9, TakeKeeps
  <1> QED
    BY <1>2, <1>3

-----------------------------------------------------------------------------
(* A batch. *)

LEMMA LesserOf ==
    ASSUME NEW a \in Int, NEW b \in Int
    PROVE  Min({a, b}) = IF a <= b THEN a ELSE b
  BY DEF Min

\* Turns in the order of the groups.
LEMMA TurnsDiffer ==
    ASSUME NEW start \in Group, NEW j \in 1 .. GroupCount, NEW k \in 1 .. GroupCount,
           Turn(start, j) = Turn(start, k)
    PROVE  j = k
  <1>1. /\ GroupCount \in Nat \ {0} /\ start \in Nat /\ start < GroupCount
        /\ j \in Nat /\ k \in Nat /\ j >= 1 /\ k >= 1 /\ j <= GroupCount /\ k <= GroupCount
    BY GroupsAreNumbers DEF Group
  <1>2. ASSUME NEW m \in Nat, 1 <= m, m <= GroupCount
        PROVE  /\ Turn(start, m) \in 0 .. GroupCount - 1
               /\ Turn(start, m) = start + m - 1 \/ Turn(start, m) = start + m - 1 - GroupCount
    <2>1. CASE start + m - 1 < GroupCount
      <3> DEFINE r == start + m - 1
      <3>1. start + m - 1 = 0 * GroupCount + r /\ r \in 0 .. GroupCount - 1
        BY <1>1, <1>2, <2>1
      <3> HIDE DEF r
      <3>2. (0 * GroupCount + r) % GroupCount = r
        BY <1>1, <3>1, DivisionIsUnique
      <3> QED
        BY <3>1, <3>2 DEF Turn, r
    <2>2. CASE ~(start + m - 1 < GroupCount)
      <3> DEFINE r == start + m - 1 - GroupCount
      <3>1. start + m - 1 = 1 * GroupCount + r /\ r \in 0 .. GroupCount - 1
        BY <1>1, <1>2, <2>2
      <3> HIDE DEF r
      <3>2. (1 * GroupCount + r) % GroupCount = r
        BY <1>1, <3>1, DivisionIsUnique
      <3>3. Turn(start, m) = r
        BY <3>1, <3>2 DEF Turn
      <3> QED
        BY <3>1, <3>3 DEF r
    <2> QED
      BY <2>1, <2>2
  <1>3. PICK a \in 0 .. GroupCount - 1 :
            /\ a = Turn(start, j) /\ a = Turn(start, k)
            /\ a = start + j - 1 \/ a = start + j - 1 - GroupCount
            /\ a = start + k - 1 \/ a = start + k - 1 - GroupCount
    BY <1>1, <1>2
  <1> QED
    BY <1>1, <1>3

LEMMA LeastIsIn == \A m, S : Least(m, S) \subseteq S
  BY DEF Least

\* A set of indices that is no larger than asked for is taken whole.
LEMMA LeastIsAll ==
    ASSUME NEW S \in SUBSET Index
    PROVE  Least(Cardinality(S), S) = S
  <1> SUFFICES ASSUME NEW x \in S
               PROVE  Cardinality({y \in S : y < x}) < Cardinality(S)
    BY DEF Least
  <1> DEFINE less == {y \in S : y < x}
  <1>1. IsFiniteSet(S) /\ Cardinality(S) \in Nat
    BY IndexIsFinite, FS_CardinalityType
  <1>2. x \in Nat /\ x \notin less /\ less \subseteq S
    BY GroupsAreNumbers
  <1> HIDE DEF less
  <1>3. Cardinality(S \ {x}) = Cardinality(S) - 1 /\ IsFiniteSet(S \ {x})
    BY <1>1, FS_RemoveElement
  <1>4. less \in SUBSET (S \ {x})
    BY <1>2
  <1>5. Cardinality(less) <= Cardinality(S \ {x}) /\ IsFiniteSet(less)
    BY <1>3, <1>4, FS_Subset
  <1>6. Cardinality(less) \in Nat
    BY <1>5, FS_CardinalityType
  <1>7. Cardinality(less) < Cardinality(S)
    BY <1>1, <1>3, <1>5, <1>6
  <1> QED
    BY <1>7 DEF less

\* Of a set that has enough, as many are taken as asked for.
LEMMA LeastIsEnough ==
    ASSUME NEW S \in SUBSET Index, NEW m \in Nat, m <= Cardinality(S)
    PROVE  m <= Cardinality(Least(m, S))
  <1> DEFINE some == Least(m, S)
             rest == S \ some
  <1>1. some \subseteq S /\ S \in SUBSET Nat
    BY LeastIsIn, GroupsAreNumbers
  <1>2. CASE rest = {}
    <2>1. some = S
      BY <1>1, <1>2
    <2> QED
      BY <2>1
  <1>3. CASE rest # {}
    <2>1. PICK x \in rest : \A y \in rest : x <= y
      BY <1>1, <1>3, LeastExists
    <2> DEFINE less == {y \in S : y < x}
    <2>2. ~(Cardinality(less) < m)
      BY <2>1 DEF Least
    <2>3. less \subseteq some
      <3> SUFFICES ASSUME NEW y \in S, y < x, y \notin some PROVE FALSE
        OBVIOUS
      <3>1. x \in Nat /\ y \in Nat /\ x <= y
        BY <1>1, <2>1
      <3> QED
        BY <3>1
    <2>4. less \in SUBSET Index /\ some \in SUBSET Index
      BY <1>1
    <2> HIDE DEF less, some
    <2>5. Cardinality(less) <= Cardinality(some)
      BY <2>3, <2>4, IndexIsFinite, FS_Subset
    <2>6. Cardinality(less) \in Nat /\ Cardinality(some) \in Nat
      BY <2>4, IndexIsFinite, FS_CardinalityType
    <2>7. m <= Cardinality(some)
      BY <2>2, <2>5, <2>6
    <2> QED
      BY <2>7 DEF some
  <1> QED
    BY <1>2, <1>3

\* As many positions in one group as indices.
LEMMA AsManyPositions ==
    ASSUME NEW g \in Group, NEW S \in SUBSET Index
    PROVE  Cardinality({<<g, i>> : i \in S}) = Cardinality(S)
  <1> DEFINE T == {<<g, i>> : i \in S}
             f == [i \in S |-> <<g, i>>]
  <1>1. f \in Bijection(S, T)
    BY DEF Bijection, Injection, Surjection, IsInjective
  <1>2. IsFiniteSet(S)
    BY IndexIsFinite
  <1> HIDE DEF f, T
  <1>3. Cardinality(T) = Cardinality(S)
    BY <1>1, <1>2, FS_Bijection DEF ExistsBijection
  <1> QED
    BY <1>3 DEF T

\* What a turn finds are open blocks of the group whose turn it is.
LEMMA FoundIs ==
    ASSUME NEW start \in Group, NEW count, NEW k \in 1 .. GroupCount, NEW before
    PROVE  /\ Found(start, count, k, before) \subseteq Position
           /\ \A p \in Found(start, count, k, before) :
                 p[1] = Turn(start, k) /\ p[2] \in Open(p[1])
  <1> DEFINE g == Turn(start, k)
             some == Least(Min({count - Cardinality(before), gfree[g]}), Open(g))
  <1>1. g \in Group /\ Open(g) \subseteq Index
    BY TurnIsGroup DEF Open, Clear
  <1>2. some \subseteq Open(g)
    BY LeastIsIn
  <1>3. Found(start, count, k, before) = {<<g, i>> : i \in some}
    BY DEF Found
  <1> HIDE DEF g, some
  <1> QED
    BY <1>1, <1>2, <1>3 DEF Position, g

\* The batch, turn by turn.
LEMMA GotIs ==
    ASSUME NEW start \in Group, NEW count \in Nat
    PROVE  \E got \in [0 .. GroupCount -> SUBSET Position] :
              /\ got[0] = {}
              /\ \A k \in 1 .. GroupCount :
                    got[k] = got[k - 1] \cup Found(start, count, k, got[k - 1])
              /\ Got(start, count) = got[GroupCount]
  <1> DEFINE F == [p \in (1 .. GroupCount) \X (SUBSET Position) |->
                      p[2] \cup Found(start, count, p[1], p[2])]
             got[k \in 0 .. GroupCount] ==
                IF k = 0 THEN {} ELSE got[k - 1] \cup Found(start, count, k, got[k - 1])
  <1>1. GroupCount \in Nat /\ {} \in SUBSET Position
    BY GroupsAreNumbers
  <1>2. \A k \in 1 .. GroupCount : \A v \in SUBSET Position :
            /\ F[<<k, v>>] = v \cup Found(start, count, k, v)
            /\ F[<<k, v>>] \in SUBSET Position
    BY FoundIs
  <1>3. \E f : f \in Stepwise(GroupCount, SUBSET Position, {}, F)
    <2> HIDE DEF F, got
    <2> DEFINE V == SUBSET Position
               none == {}
    <2>1. none \in V /\ StaysIn(GroupCount, V, F)
      BY <1>2 DEF StaysIn
    <2> HIDE DEF V, none
    <2>2. \E f : f \in Stepwise(GroupCount, V, none, F)
      BY <1>1, <2>1, StepwiseExists
    <2> QED
      BY <2>2 DEF V, none
  <1>4. PICK f \in [0 .. GroupCount -> SUBSET Position] :
            f[0] = {} /\ \A k \in 1 .. GroupCount : f[k] = F[<<k, f[k - 1]>>]
    BY <1>3 DEF Stepwise
  <1>5. \A k \in 1 .. GroupCount : k - 1 \in 0 .. GroupCount
    BY <1>1
  <1>6. \A k \in 1 .. GroupCount : f[k] = f[k - 1] \cup Found(start, count, k, f[k - 1])
    <2> HIDE DEF F, got
    <2> SUFFICES ASSUME NEW k \in 1 .. GroupCount
                 PROVE  f[k] = f[k - 1] \cup Found(start, count, k, f[k - 1])
      OBVIOUS
    <2> DEFINE before == f[k - 1]
    <2>1. before \in SUBSET Position
      BY <1>4, <1>5
    <2>2. f[k] = F[<<k, before>>]
      BY <1>4
    <2> HIDE DEF before
    <2>3. F[<<k, before>>] = before \cup Found(start, count, k, before)
      BY <1>2, <2>1
    <2> QED
      BY <2>2, <2>3 DEF before
  <1>7. f = [k \in 0 .. GroupCount |->
                IF k = 0 THEN {} ELSE f[k - 1] \cup Found(start, count, k, f[k - 1])]
    <2> HIDE DEF F, got
    <2>1. \A k \in 0 .. GroupCount : k = 0 \/ k \in 1 .. GroupCount
      BY <1>1
    <2> QED
      BY <1>4, <1>6, <2>1
  <1>8. got = [k \in 0 .. GroupCount |->
                  IF k = 0 THEN {} ELSE got[k - 1] \cup Found(start, count, k, got[k - 1])]
    BY <1>7, Zenon
  <1>9. Got(start, count) = got[GroupCount]
    BY DEF Got
  <1> HIDE DEF got
  <1>10. got[0] = {}
    <2>1. 0 \in 0 .. GroupCount
      BY <1>1
    <2> QED
      BY <1>8, <2>1, Zenon
  <1>11. ASSUME NEW k \in 1 .. GroupCount
         PROVE  got[k] = got[k - 1] \cup Found(start, count, k, got[k - 1])
    <2>1. k \in 0 .. GroupCount /\ k # 0
      BY <1>1
    <2> QED
      BY <1>8, <2>1, Zenon
  <1> DEFINE S == {k \in 0 .. GroupCount : got[k] \in SUBSET Position}
  <1>12. ASSUME NEW k \in 1 .. GroupCount, k - 1 \in S
         PROVE  k \in S
    <2> HIDE DEF F
    <2>1. k \in 0 .. GroupCount
      BY <1>1
    <2>2. F[<<k, got[k - 1]>>] \in SUBSET Position
      BY <1>2, <1>12
    <2> QED
      BY <1>2, <1>11, <1>12, <2>1, <2>2
  <1>13. 0 \in S
    BY <1>1, <1>10
  <1> HIDE DEF S
  <1>14. 0 .. GroupCount \subseteq S
    BY <1>1, <1>12, <1>13, UpTo
  <1>15. got \in [0 .. GroupCount -> SUBSET Position]
    <2>1. got = [k \in 0 .. GroupCount |-> got[k]]
      BY <1>8
    <2> QED
      BY <1>14, <2>1 DEF S
  <1> QED
    BY <1>9, <1>10, <1>11, <1>15

\* What a batch finds is free; it finds less than asked for only when that is
\* all there is.
LEMMA GotIsFree ==
    ASSUME Solid, NEW start \in Group, NEW count \in Nat
    PROVE  /\ Got(start, count) \in SUBSET Position
           /\ At(Got(start, count)) \subseteq Free
           /\ Cardinality(Got(start, count)) < count => Free \subseteq At(Got(start, count))
  <1>1. PICK got \in [0 .. GroupCount -> SUBSET Position] :
              /\ got[0] = {}
              /\ \A k \in 1 .. GroupCount :
                    got[k] = got[k - 1] \cup Found(start, count, k, got[k - 1])
              /\ Got(start, count) = got[GroupCount]
    BY GotIs
  <1>2. GroupCount \in Nat /\ GroupCount \in 0 .. GroupCount
    BY GroupsAreNumbers
  <1>3. \A k \in 1 .. GroupCount : k - 1 \in 0 .. GroupCount /\ k \in 0 .. GroupCount
    BY <1>2
  <1> DEFINE OnlyOpen == {k \in 0 .. GroupCount :
                             \A p \in got[k] : /\ p[2] \in Open(p[1])
                                                /\ \E j \in 1 .. k : p[1] = Turn(start, j)}
  <1>4. 0 .. GroupCount \subseteq OnlyOpen
    <2>1. 0 \in OnlyOpen
      BY <1>1, <1>2
    <2>2. ASSUME NEW k \in 1 .. GroupCount, k - 1 \in OnlyOpen
          PROVE  k \in OnlyOpen
      <3> SUFFICES ASSUME NEW p \in got[k]
                   PROVE  p[2] \in Open(p[1]) /\ \E j \in 1 .. k : p[1] = Turn(start, j)
        BY <1>3
      <3>1. CASE p \in got[k - 1]
        <4>1. p[2] \in Open(p[1]) /\ \E j \in 1 .. k - 1 : p[1] = Turn(start, j)
          BY <2>2, <3>1
        <4>2. \A j \in 1 .. k - 1 : j \in 1 .. k
          OBVIOUS
        <4> QED
          BY <4>1, <4>2
      <3>2. CASE p \in Found(start, count, k, got[k - 1])
        <4>1. p[2] \in Open(p[1]) /\ p[1] = Turn(start, k)
          BY <3>2, FoundIs
        <4>2. k \in 1 .. k
          OBVIOUS
        <4> QED
          BY <4>1, <4>2
      <3> QED
        BY <1>1, <3>1, <3>2
    <2> HIDE DEF OnlyOpen
    <2> QED
      BY <1>2, <2>1, <2>2, UpTo
  <1>5. /\ got[GroupCount] \in SUBSET Position
        /\ \A p \in got[GroupCount] : p[2] \in Open(p[1])
    BY <1>1, <1>2, <1>4
  <1>6. At(got[GroupCount]) \subseteq Free
    BY <1>5, FreePositions
  <1>7. ASSUME Cardinality(got[GroupCount]) < count
        PROVE  Free \subseteq At(got[GroupCount])
    <2> DEFINE Kept == {k \in 0 .. GroupCount : got[GroupCount - k] \subseteq got[GroupCount]}
    <2>1. 0 .. GroupCount \subseteq Kept
      <3>1. 0 \in Kept
        BY <1>2
      <3>2. ASSUME NEW k \in 1 .. GroupCount, k - 1 \in Kept
            PROVE  k \in Kept
        <4>1. /\ GroupCount - (k - 1) \in 1 .. GroupCount
              /\ GroupCount - (k - 1) - 1 = GroupCount - k
          BY <1>2
        <4>2. got[GroupCount - k] \subseteq got[GroupCount - (k - 1)]
          BY <1>1, <4>1
        <4> QED
          BY <1>3, <3>2, <4>2
      <3> HIDE DEF Kept
      <3> QED
        BY <1>2, <3>1, <3>2, UpTo
    <2>2. ASSUME NEW k \in 0 .. GroupCount
          PROVE  got[k] \subseteq got[GroupCount]
      <3>1. GroupCount - k \in 0 .. GroupCount /\ GroupCount - (GroupCount - k) = k
        BY <1>2
      <3> QED
        BY <2>1, <3>1
    <2>3. ASSUME NEW k \in 1 .. GroupCount
          PROVE  {Turn(start, k)} \X Open(Turn(start, k)) \subseteq got[GroupCount]
      <3> DEFINE g == Turn(start, k)
                 before == got[k - 1]
                 left == count - Cardinality(before)
                 new == Found(start, count, k, before)
      <3>1. /\ g \in Group /\ Open(g) \in SUBSET Index
            /\ gfree[g] = Cardinality(Open(g)) /\ Cardinality(Open(g)) \in Nat
        <4>1. g \in Group
          BY TurnIsGroup
        <4>2. Open(g) \in SUBSET Index /\ gfree[g] = Cardinality(Open(g))
          BY <4>1, OpenIsFree
        <4> QED
          BY <4>1, <4>2, IndexIsFinite, FS_CardinalityType
      <3>2. /\ before \in SUBSET Position /\ IsFiniteSet(before) /\ Cardinality(before) \in Nat
            /\ left \in Int
        BY <1>1, <1>3, AsManyBlocks
      <3>3. /\ new = {<<g, i>> : i \in Least(Min({left, gfree[g]}), Open(g))}
            /\ new \in SUBSET Position /\ new \subseteq got[GroupCount] /\ before \subseteq got[GroupCount]
        BY <1>1, <1>3, <2>2, FoundIs DEF Found
      <3>4. before \cap new = {}
        <4> SUFFICES ASSUME NEW p \in before, p \in new PROVE FALSE
          OBVIOUS
        <4>1. PICK j \in 1 .. k - 1 : p[1] = Turn(start, j)
          BY <1>3, <1>4
        <4>2. p[1] = Turn(start, k)
          BY FoundIs
        <4>3. j \in 1 .. GroupCount /\ j # k
          BY <1>2
        <4> QED
          BY <4>1, <4>2, <4>3, TurnsDiffer
      <3> HIDE DEF g, before, left, new, OnlyOpen, Kept
      <3>5. CASE left < gfree[g]
        <4>1. CASE left \in Nat
          <5>1. new = {<<g, i>> : i \in Least(left, Open(g))}
            BY <3>1, <3>2, <3>3, <3>5, LesserOf
          <5>2. left <= Cardinality(Least(left, Open(g)))
            BY <3>1, <3>5, <4>1, LeastIsEnough
          <5>3. Cardinality(new) = Cardinality(Least(left, Open(g)))
            BY <3>1, <5>1, LeastIsIn, AsManyPositions
          <5>4. /\ IsFiniteSet(new) /\ Cardinality(new) \in Nat
                /\ IsFiniteSet(before \cup new) /\ Cardinality(before \cup new) \in Nat
            BY <3>2, <3>3, AsManyBlocks, FS_Union, FS_CardinalityType
          <5>5. Cardinality(before \cup new) = Cardinality(before) + Cardinality(new)
            <6>1. Cardinality(before \cap new) = 0
              BY <3>4, FS_EmptySet
            <6>2. Cardinality(before \cup new) =
                      Cardinality(before) + Cardinality(new) - Cardinality(before \cap new)
              BY <3>2, <5>4, FS_Union
            <6> QED
              BY <3>2, <5>4, <6>1, <6>2
          <5>6. before \cup new \in SUBSET got[GroupCount] /\ IsFiniteSet(got[GroupCount])
            BY <1>5, <3>3, AsManyBlocks
          <5>7. Cardinality(before \cup new) <= Cardinality(got[GroupCount])
            BY <5>6, FS_Subset
          <5>8. Cardinality(before) + left = count
            BY <3>2 DEF left
          <5>9. Cardinality(got[GroupCount]) \in Nat
            BY <5>6, FS_CardinalityType
          <5> QED
            BY <1>7, <3>2, <5>2, <5>3, <5>4, <5>5, <5>7, <5>8, <5>9
        <4>2. CASE left \notin Nat
          <5>1. before \in SUBSET got[GroupCount] /\ IsFiniteSet(got[GroupCount])
            BY <1>5, <3>3, AsManyBlocks
          <5>2. Cardinality(before) <= Cardinality(got[GroupCount]) /\ Cardinality(got[GroupCount]) \in Nat
            BY <5>1, FS_Subset, FS_CardinalityType
          <5>3. left < 0 /\ Cardinality(before) + left = count
            BY <3>2, <4>2 DEF left
          <5> QED
            BY <1>7, <3>2, <5>2, <5>3
        <4> QED
          BY <4>1, <4>2
      <3>6. CASE ~(left < gfree[g])
        <4>1. Min({left, gfree[g]}) = gfree[g]
          BY <3>1, <3>2, <3>6, LesserOf
        <4>2. Least(gfree[g], Open(g)) = Open(g)
          BY <3>1, LeastIsAll
        <4>3. new = {<<g, i>> : i \in Open(g)}
          BY <3>3, <4>1, <4>2
        <4> QED
          BY <3>3, <4>3 DEF g
      <3> QED
        BY <3>5, <3>6
    <2>4. ASSUME NEW b \in Free
          PROVE  b \in At(got[GroupCount])
      <3> DEFINE g == GroupOf(b)
                 i == IndexOf(b)
      <3>1. g \in Group /\ i \in Index /\ Address(i, g) = b
        BY UsableIsDevice, AddressOfPosition DEF Free
      <3>2. i \in Open(g)
        BY <3>1, OpenIsFree DEF FreeIn
      <3>3. PICK k \in 1 .. GroupCount : Turn(start, k) = g
        BY <3>1, EveryTurnComes
      <3>4. <<g, i>> \in got[GroupCount]
        BY <2>3, <3>2, <3>3
      <3> HIDE DEF g, i
      <3> QED
        BY <3>1, <3>4 DEF At
    <2> QED
      BY <2>4
  <1> QED
    BY <1>1, <1>5, <1>6, <1>7

-----------------------------------------------------------------------------
(* A freed range. *)

LEMMA AddressSteps ==
    ASSUME NEW g \in Nat, NEW i \in Nat
    PROVE  /\ Address(0, g) \in Nat
           /\ Address(i, g) = Address(0, g) + i
           /\ Address(0, g + 1) = Address(0, g) + BlocksPerGroup
  <1>1. BlocksPerGroup \in Nat \ {0} /\ FirstDataBlock \in {0, 1}
    BY Geometry
  <1>2. BlocksPerGroup * g \in Nat /\ BlocksPerGroup * (g + 1) = BlocksPerGroup * g + BlocksPerGroup
    BY <1>1
  <1> QED
    BY <1>1, <1>2 DEF Address

\* Addresses are in the order of the groups.
LEMMA GroupsInOrder ==
    ASSUME NEW g \in Nat, NEW i \in Index, NEW h \in Nat, NEW j \in Index,
           Address(i, g) <= Address(j, h)
    PROVE  g <= h
  <1>1. /\ BlocksPerGroup \in Nat \ {0} /\ FirstDataBlock \in {0, 1}
        /\ i \in 0 .. BlocksPerGroup - 1 /\ j \in 0 .. BlocksPerGroup - 1
    BY Geometry DEF Index
  <1>2. /\ g * BlocksPerGroup \in Nat /\ h * BlocksPerGroup \in Nat
        /\ BlocksPerGroup * g = g * BlocksPerGroup /\ BlocksPerGroup * h = h * BlocksPerGroup
        /\ (h + 1) * BlocksPerGroup = h * BlocksPerGroup + BlocksPerGroup
    BY <1>1
  <1>3. g * BlocksPerGroup + i < (h + 1) * BlocksPerGroup
    BY <1>1, <1>2 DEF Address
  <1>4. g < h + 1
    BY <1>1, <1>3, QuotientBound
  <1> QED
    BY <1>4

\* The positions of a range, cut where groups end, are those of its blocks.
LEMMA FreedIs ==
    ASSUME NEW start \in Device, NEW count \in Nat \ {0}, start + count - 1 \in Device
    PROVE  /\ Freed(start, count) \in SUBSET Position
           /\ At(Freed(start, count)) = start .. start + count - 1
  <1> DEFINE g0 == GroupOf(start)
             i0 == IndexOf(start)
             g1 == GroupOf(start + count - 1)
             i1 == IndexOf(start + count - 1)
             room(b) == BlocksPerGroup - IndexOf(b)
             last == g1 - g0
             at[k \in 0 .. last] == IF k = 0 THEN start ELSE at[k - 1] + room(at[k - 1])
             size(k) == Min({start + count - at[k], room(at[k])})
             cut(k) == IF k = 0 THEN start ELSE Address(0, g0 + k)
             low(k) == IF k = 0 THEN i0 ELSE 0
  <1>1. /\ start \in Nat /\ g0 \in Nat /\ g0 \in Group /\ i0 \in Index /\ i0 \in Nat
        /\ g1 \in Nat /\ g1 \in Group /\ i1 \in Index
        /\ Address(i0, g0) = start /\ Address(i1, g1) = start + count - 1
    BY AddressOfPosition, GroupsAreNumbers
  <1>2. BlocksPerGroup \in Nat \ {0} /\ 0 \in Index /\ i0 < BlocksPerGroup
    BY <1>1, Geometry DEF Index
  <1>3. Freed(start, count) =
            UNION {{<<GroupOf(at[k]), IndexOf(at[k]) + j>> : j \in 0 .. size(k) - 1} : k \in 0 .. last}
    BY DEF Freed
  <1> HIDE DEF g0, i0, g1, i1
  <1>4. last \in Nat
    <2>1. Address(i0, g0) <= Address(i1, g1)
      BY <1>1
    <2>2. g0 <= g1
      BY <1>1, <2>1, GroupsInOrder
    <2> QED
      BY <1>1, <2>2
  <1>5. ASSUME NEW k \in 0 .. last
        PROVE  /\ cut(k) = Address(low(k), g0 + k) /\ cut(k) \in Nat
               /\ GroupOf(cut(k)) = g0 + k /\ IndexOf(cut(k)) = low(k)
               /\ low(k) \in Index /\ low(k) \in Nat /\ g0 + k \in Nat
               /\ g0 + k \in Group
               /\ cut(k) + room(cut(k)) = Address(0, g0 + k + 1)
    <2>1. g0 + k \in Nat /\ g0 + k <= g1 /\ low(k) \in Index /\ low(k) \in Nat
      BY <1>1, <1>2, <1>4
    <2>2. cut(k) = Address(low(k), g0 + k)
      BY <1>1
    <2> HIDE DEF cut, low, last
    <2>3. /\ cut(k) \in Nat /\ GroupOf(cut(k)) = g0 + k /\ IndexOf(cut(k)) = low(k)
      BY <2>1, <2>2, PositionOfAddress
    <2>4. g0 + k \in Group
      BY <1>1, <2>1, GroupsAreNumbers DEF Group
    <2>5. Address(low(k), g0 + k) + (BlocksPerGroup - low(k)) = Address(0, g0 + k + 1)
      BY <1>2, <2>1, AddressSteps
    <2> QED
      BY <2>1, <2>2, <2>3, <2>4, <2>5
  <1> HIDE DEF last
  <1>6. at = [k \in 0 .. last |-> IF k = 0 THEN start ELSE at[k - 1] + room(at[k - 1])]
    <2> DEFINE f == [k \in 0 .. last |-> cut(k)]
    <2>1. \A k \in 1 .. last : cut(k) = cut(k - 1) + room(cut(k - 1)) /\ k - 1 \in 0 .. last
      <3> SUFFICES ASSUME NEW k \in 1 .. last
                   PROVE  cut(k) = cut(k - 1) + room(cut(k - 1)) /\ k - 1 \in 0 .. last
        OBVIOUS
      <3>1. k - 1 \in 0 .. last /\ cut(k) = Address(0, g0 + k) /\ g0 + (k - 1) + 1 = g0 + k
        BY <1>1, <1>4
      <3> HIDE DEF cut, room
      <3> QED
        BY <1>5, <3>1
    <2>2. f = [k \in 0 .. last |-> IF k = 0 THEN start ELSE f[k - 1] + room(f[k - 1])]
      <3>1. \A k \in 0 .. last : k = 0 \/ k \in 1 .. last
        BY <1>4
      <3>2. \A k \in 1 .. last : f[k - 1] = cut(k - 1)
        BY <2>1
      <3>3. \A k \in 0 .. last : cut(k) = IF k = 0 THEN start ELSE f[k - 1] + room(f[k - 1])
        <4> HIDE DEF f, room
        <4> QED
          BY <2>1, <3>1, <3>2
      <3> QED
        BY <3>3
    <2> HIDE DEF f, room
    <2> QED
      BY <2>2, Zenon
  <1> HIDE DEF at
  <1>7. ASSUME NEW k \in 0 .. last
        PROVE  at[k] = cut(k)
    <2> DEFINE S == {m \in 0 .. last : at[m] = cut(m)}
    <2>1. 0 \in S
      BY <1>4, <1>6
    <2>2. ASSUME NEW m \in 1 .. last, m - 1 \in S
          PROVE  m \in S
      <3>1. /\ m \in 0 .. last /\ m # 0 /\ m - 1 \in 0 .. last
            /\ cut(m) = Address(0, g0 + m) /\ g0 + (m - 1) + 1 = g0 + m
        BY <1>1, <1>4
      <3>2. at[m] = at[m - 1] + room(at[m - 1])
        BY <1>6, <3>1, Zenon
      <3>3. at[m - 1] = cut(m - 1)
        BY <2>2
      <3> HIDE DEF cut, room
      <3>4. at[m] = cut(m)
        BY <1>5, <3>1, <3>2, <3>3
      <3> QED
        BY <3>1, <3>4
    <2> HIDE DEF S
    <2>3. 0 .. last \subseteq S
      BY <1>4, <2>1, <2>2, UpTo
    <2> QED
      BY <2>3 DEF S
  <1>8. ASSUME NEW k \in 0 .. last
        PROVE  size(k) = IF start + count - cut(k) <= BlocksPerGroup - low(k)
                         THEN start + count - cut(k) ELSE BlocksPerGroup - low(k)
    <2>1. at[k] = cut(k) /\ room(cut(k)) = BlocksPerGroup - low(k)
      BY <1>5, <1>7
    <2>2. start + count - cut(k) \in Int /\ BlocksPerGroup - low(k) \in Int
      BY <1>1, <1>2, <1>5
    <2> HIDE DEF cut, low, room
    <2> QED
      BY <2>1, <2>2, LesserOf
  <1>9. ASSUME NEW k \in 0 .. last, NEW j \in 0 .. size(k) - 1
        PROVE  /\ low(k) + j \in Index /\ g0 + k \in Group
               /\ Address(low(k) + j, g0 + k) \in start .. start + count - 1
    <2>1. size(k) \in Int /\ size(k) <= BlocksPerGroup - low(k) /\ size(k) <= start + count - cut(k)
      BY <1>1, <1>2, <1>5, <1>8
    <2>2. j \in Nat /\ j < size(k)
      BY <2>1
    <2>3. low(k) + j \in Index
      BY <1>2, <1>5, <2>1, <2>2 DEF Index
    <2>4. start <= cut(k)
      <3>1. CASE k = 0
        BY <1>1, <3>1
      <3>2. CASE k # 0
        <4>1. cut(k) = Address(0, g0 + k) /\ g0 + k > g0 /\ g0 + k \in Nat
          BY <1>1, <3>2
        <4>2. ~(Address(0, g0 + k) <= Address(i0, g0))
          BY <1>1, <1>2, <4>1, GroupsInOrder
        <4> QED
          BY <1>1, <1>5, <4>1, <4>2
      <3> QED
        BY <3>1, <3>2
    <2> HIDE DEF cut, low, size
    <2>5. Address(low(k) + j, g0 + k) = cut(k) + j
      <3>0. g0 + k \in Nat /\ low(k) \in Nat /\ low(k) + j \in Nat
        BY <1>5, <2>2
      <3>1. /\ Address(low(k), g0 + k) = Address(0, g0 + k) + low(k)
            /\ Address(low(k) + j, g0 + k) = Address(0, g0 + k) + (low(k) + j)
            /\ Address(0, g0 + k) \in Nat
        BY <3>0, AddressSteps
      <3> QED
        BY <1>5, <2>2, <3>1
    <2> QED
      BY <1>1, <1>5, <2>1, <2>2, <2>3, <2>4, <2>5
  <1>10. ASSUME NEW b \in start .. start + count - 1
         PROVE  \E k \in 0 .. last : \E j \in 0 .. size(k) - 1 :
                   b = Address(low(k) + j, g0 + k)
    <2> DEFINE g == GroupOf(b)
               i == IndexOf(b)
    <2>1. b \in Device
      <3>1. FirstDataBlock \in Int /\ BlocksCount \in Int
        BY Geometry
      <3> QED
        BY <1>1, <3>1 DEF Device
    <2>2. g \in Group /\ i \in Index /\ Address(i, g) = b
      BY <2>1, AddressOfPosition
    <2> HIDE DEF g, i
    <2>3. g \in Nat /\ i \in Nat /\ i < BlocksPerGroup
      BY <1>2, <2>2, GroupsAreNumbers DEF Index
    <2>4. g0 <= g /\ g <= g1
      <3>1. Address(i0, g0) <= Address(i, g) /\ Address(i, g) <= Address(i1, g1)
        BY <1>1, <2>2, <2>3
      <3> QED
        BY <1>1, <2>2, <2>3, <3>1, GroupsInOrder
    <2> DEFINE k == g - g0
               j == i - low(k)
    <2>5. k \in 0 .. last /\ g0 + k = g
      BY <1>1, <2>2, <2>3, <2>4 DEF last
    <2>6. low(k) <= i
      <3>1. CASE k = 0
        <4>1. g = g0
          BY <1>1, <2>2, <2>3, <3>1
        <4>2. Address(i0, g0) = Address(0, g0) + i0 /\ Address(i, g0) = Address(0, g0) + i
          BY <1>1, <2>2, <2>3, AddressSteps
        <4>3. Address(0, g0) \in Nat
          BY <1>1, AddressSteps
        <4> QED
          BY <1>1, <2>2, <2>3, <3>1, <4>1, <4>2, <4>3
      <3>2. CASE k # 0
        BY <2>2, <2>3, <3>2
      <3> QED
        BY <3>1, <3>2
    <2> HIDE DEF k
    <2>7. /\ low(k) \in Nat /\ cut(k) = Address(low(k), g) /\ cut(k) \in Nat
          /\ size(k) = IF start + count - cut(k) <= BlocksPerGroup - low(k)
                       THEN start + count - cut(k) ELSE BlocksPerGroup - low(k)
      BY <1>5, <1>8, <2>5
    <2> HIDE DEF cut, low, size
    <2>8. b = cut(k) + (i - low(k))
      <3>1. /\ Address(low(k), g) = Address(0, g) + low(k) /\ Address(i, g) = Address(0, g) + i
            /\ Address(0, g) \in Nat
        BY <2>2, <2>3, <2>7, AddressSteps
      <3> QED
        BY <2>2, <2>3, <2>7, <3>1
    <2>9. j \in 0 .. size(k) - 1 /\ low(k) + j = i
      BY <1>1, <1>2, <2>2, <2>3, <2>6, <2>7, <2>8
    <2> HIDE DEF j
    <2> QED
      BY <2>2, <2>3, <2>5, <2>9
  <1>11. Freed(start, count) =
            UNION {{<<g0 + k, low(k) + j>> : j \in 0 .. size(k) - 1} : k \in 0 .. last}
    <2>1. \A k \in 0 .. last : GroupOf(at[k]) = g0 + k /\ IndexOf(at[k]) = low(k)
      BY <1>5, <1>7
    <2> HIDE DEF low, size
    <2> QED
      BY <1>3, <2>1
  <1> HIDE DEF low, size
  <1>12. Freed(start, count) \in SUBSET Position
    BY <1>9, <1>11 DEF Position
  <1>13. At(Freed(start, count)) \subseteq start .. start + count - 1
    <2> SUFFICES ASSUME NEW p \in Freed(start, count)
                 PROVE  Address(p[2], p[1]) \in start .. start + count - 1
      BY DEF At
    <2>1. PICK k \in 0 .. last : \E j \in 0 .. size(k) - 1 : p = <<g0 + k, low(k) + j>>
      BY <1>11
    <2>2. PICK j \in 0 .. size(k) - 1 : p = <<g0 + k, low(k) + j>>
      BY <2>1
    <2> QED
      BY <1>9, <2>2
  <1>14. start .. start + count - 1 \subseteq At(Freed(start, count))
    <2> SUFFICES ASSUME NEW b \in start .. start + count - 1
                 PROVE  b \in At(Freed(start, count))
      OBVIOUS
    <2>1. PICK k \in 0 .. last : \E j \in 0 .. size(k) - 1 : b = Address(low(k) + j, g0 + k)
      BY <1>10
    <2>2. PICK j \in 0 .. size(k) - 1 : b = Address(low(k) + j, g0 + k)
      BY <2>1
    <2>3. <<g0 + k, low(k) + j>> \in Freed(start, count)
      BY <1>11
    <2> QED
      BY <2>2, <2>3 DEF At
  <1> QED
    BY <1>12, <1>13, <1>14

-----------------------------------------------------------------------------
(* The invariant. *)

LEMMA SolidIsInv ==
    ASSUME Solid, ShortIsTrue
    PROVE  Inv
  BY UsableIsDevice DEF Solid, Inv, ClearIsFree, NoSystemBlock

LEMMA InitSolid == Init => Inv
  <1> SUFFICES ASSUME Init PROVE Inv
    OBVIOUS
  <1>1. Held = {}
    BY DEF Init, Held
  <1>2. \A g \in Group : {i \in Index : Address(i, g) \in Usable} \in SUBSET Index
    OBVIOUS
  <1>3. TypeOK
    <2>1. bitmap \in [Group -> SUBSET Index]
      BY DEF Init
    <2>2. gfree \in [Group -> 0 .. BlocksPerGroup]
      BY <1>2, IndexIsFinite DEF Init
    <2>3. sbfree \in 0 .. BlocksCount
      BY UsableIsDevice, DeviceIsFinite DEF Init
    <2>4. owned \in [Inode -> SUBSET (0 .. BlocksCount)] /\ blocks \in [Inode -> 0 .. BlocksCount]
      BY Geometry DEF Init
    <2> QED
      BY <2>1, <2>2, <2>3, <2>4 DEF Init, TypeOK
  <1>4. ASSUME NEW g \in Group, NEW i \in Index
        PROVE  /\ Address(i, g) \in Device \ System =>
                      (i \in bitmap[g] <=> Address(i, g) \in Preused)
               /\ i \notin bitmap[g] => Address(i, g) \in Usable \/ Reserved(i, g)
    <2>1. CASE g \in Uninit
      <3>1. bitmap[g] = {}
        BY <2>1 DEF Init
      <3>2. Address(i, g) \in Usable \/ Reserved(i, g)
        BY <2>1, UninitGroups
      <3>3. Address(i, g) \in Device \ System => Address(i, g) \notin Preused
        BY <3>2, UsableIsDevice DEF Usable, Reserved
      <3> QED
        BY <3>1, <3>2, <3>3
    <2>2. CASE g \notin Uninit
      <3>1. i \in bitmap[g] <=> Address(i, g) \notin Usable
        BY <2>2 DEF Init
      <3> QED
        BY <3>1 DEF Usable
    <2> QED
      BY <2>1, <2>2
  <1>5. BitmapIsExact
    BY <1>1, <1>4 DEF BitmapIsExact, Init
  <1>6. ClearIsFree
    BY <1>1, <1>4 DEF ClearIsFree, Clear
  <1>7. CountsAgree
    <2>1. Usable \ Held = Usable
      BY <1>1
    <2>2. \A g \in Group : gfree[g] = Cardinality({i \in Index : Address(i, g) \in Usable \ Held})
      BY <2>1 DEF Init
    <2>3. \A f \in Inode : blocks[f] = Cardinality(owned[f])
      BY FS_EmptySet DEF Init
    <2> QED
      BY <2>1, <2>2, <2>3 DEF CountsAgree, Init
  <1> QED
    BY <1>3, <1>5, <1>6, <1>7, SolidIsInv DEF Solid, ShortIsTrue, Init

LEMMA AllocBatchKeeps ==
    ASSUME Solid, NEW f \in Inode, NEW start \in 0 .. GroupCount,
           NEW count \in 1 .. Cardinality(Usable), AllocBatch(f, start, count)
    PROVE  Solid' /\ ShortIsTrue'
  <1> DEFINE first == IF start \in Group THEN start ELSE 0
             got == Got(first, count)
  <1>1. count \in Nat /\ count >= 1 /\ Cardinality(Usable) >= 1
    <2>1. Cardinality(Usable) \in Nat
      BY UsableIsDevice, DeviceIsFinite
    <2> QED
      BY <2>1
  <1>2. first \in Group
    <2>1. Usable # {}
      BY <1>1, FS_EmptySet
    <2>2. PICK b \in Device : TRUE
      BY <2>1, UsableIsDevice
    <2>3. GroupOf(b) \in Group
      BY AddressOfPosition
    <2>4. 0 \in Group
      BY <2>3, GroupsAreNumbers DEF Group
    <2> QED
      BY <2>4
  <1>3. Take(f, got) /\ result' = IF Cardinality(got) < count THEN "short" ELSE "ok"
    BY DEF AllocBatch
  <1> HIDE DEF first
  <1>4. /\ got \in SUBSET Position /\ At(got) \subseteq Free
        /\ Cardinality(got) < count => Free \subseteq At(got)
    BY <1>1, <1>2, GotIsFree
  <1> HIDE DEF got
  <1>5. Solid' /\ Held' = Held \cup At(got)
    BY <1>3, <1>4, TakeKeeps
  <1>6. ShortIsTrue'
    BY <1>3, <1>4, <1>5 DEF ShortIsTrue, Free
  <1> QED
    BY <1>5, <1>6

LEMMA FreeBlocksKeeps ==
    ASSUME Solid, NEW f \in Inode, NEW start \in owned[f],
           NEW count \in 1 .. Cardinality(owned[f]), FreeBlocks(f, start, count)
    PROVE  Solid' /\ ShortIsTrue'
  <1> DEFINE bits == Freed(start, count)
  <1>1. owned[f] \in SUBSET Device
    BY HeldIs, UsableIsDevice DEF Solid, ClearIsFree
  <1>2. count \in Nat \ {0}
    <2>1. Cardinality(owned[f]) \in Nat
      BY <1>1, DeviceIsFinite
    <2> QED
      BY <2>1
  <1>3. start \in Device /\ start \in Nat
    BY <1>1, AddressOfPosition
  <1>4. start + count - 1 \in Device
    <2>1. start + count - 1 \in start .. start + count - 1
      BY <1>2, <1>3
    <2> QED
      BY <1>1, <2>1 DEF FreeBlocks
  <1>5. bits \in SUBSET Position /\ At(bits) = start .. start + count - 1
    BY <1>2, <1>3, <1>4, FreedIs
  <1>6. /\ start .. start + count - 1 \subseteq owned[f]
        /\ bitmap' = [g \in Group |-> bitmap[g] \ InGroup(bits, g)]
        /\ gfree' = [g \in Group |-> gfree[g] + Cardinality(InGroup(bits, g))]
        /\ sbfree' = sbfree + Cardinality(bits)
        /\ blocks' = [blocks EXCEPT ![f] = @ - Cardinality(bits)]
        /\ owned' = [owned EXCEPT ![f] = @ \ (start .. start + count - 1)]
        /\ result' = "ok"
    BY DEF FreeBlocks
  <1> HIDE DEF bits
  <1>7. owned' = [owned EXCEPT ![f] = @ \ At(bits)] /\ At(bits) \subseteq owned[f]
    BY <1>5, <1>6
  <1>8. Solid'
    BY <1>5, <1>6, <1>7, GiveBackKeeps
  <1> QED
    BY <1>6, <1>8 DEF ShortIsTrue

LEMMA NextKeeps == Inv /\ [Next]_vars => Inv'
  <1> SUFFICES ASSUME Inv, [Next]_vars PROVE Inv'
    OBVIOUS
  <1>1. Solid /\ ShortIsTrue
    BY DEF Inv, Solid
  <1>2. CASE UNCHANGED vars
    BY <1>2 DEF Inv, vars, TypeOK, BitmapIsExact, ClearIsFree, Clear, CountsAgree, NoSystemBlock,
                ShortIsTrue, Held
  <1>3. CASE Next
    <2>1. PICK f \in Inode :
              \/ \E goal \in Goal \cup {None} : AllocBlock(f, goal)
              \/ \E start \in 0 .. GroupCount, count \in 1 .. Cardinality(Usable) :
                    AllocBatch(f, start, count)
              \/ \E start \in owned[f], count \in 1 .. Cardinality(owned[f]) :
                    FreeBlocks(f, start, count)
      BY <1>3 DEF Next
    <2>2. Solid' /\ ShortIsTrue'
      <3>1. CASE \E goal \in Goal \cup {None} : AllocBlock(f, goal)
        BY <1>1, <3>1, AllocBlockKeeps DEF ShortIsTrue
      <3>2. CASE \E start \in 0 .. GroupCount, count \in 1 .. Cardinality(Usable) :
                    AllocBatch(f, start, count)
        BY <1>1, <3>2, AllocBatchKeeps
      <3>3. CASE \E start \in owned[f], count \in 1 .. Cardinality(owned[f]) :
                    FreeBlocks(f, start, count)
        BY <1>1, <3>3, FreeBlocksKeeps
      <3> QED
        BY <2>1, <3>1, <3>2, <3>3
    <2> QED
      BY <2>2, UsableIsDevice DEF Solid, Inv, ClearIsFree, NoSystemBlock
  <1> QED
    BY <1>2, <1>3

\* Between any two calls the types, the bitmaps, the owners and the three kinds of
\* counts agree and no file has a block of the file system's own (balloc.rs).
THEOREM InvHolds == Spec => []Inv
  BY InitSolid, NextKeeps, PTL DEF Spec

\* No block is given to two inodes, and a bit that files may use is set exactly when
\* one has the block (balloc_alloc_block, balloc_alloc_block_batch, balloc_free_blocks).
THEOREM BitmapHolds == Spec => []BitmapIsExact
  <1>1. Inv => BitmapIsExact
    BY DEF Inv
  <1> QED
    BY <1>1, InvHolds, PTL

\* A batch that is answered with less than was asked for has taken the last block
\* there is (balloc_alloc_block_batch).
THEOREM ShortHolds == Spec => []ShortIsTrue
  <1>1. Inv => ShortIsTrue
    BY DEF Inv
  <1> QED
    BY <1>1, InvHolds, PTL

-----------------------------------------------------------------------------
(* Inodes: numbers. *)

\* saturating_sub written without the maximum of a set.
LEMMA AtLeastZeroIs ==
    ASSUME NEW n \in Int
    PROVE  AtLeastZero(n) = IF n > 0 THEN n ELSE 0
  BY DEF AtLeastZero, Max

\* A set of naturals that is not empty has a least element.
LEMMA MinIsLeast ==
    ASSUME NEW S \in SUBSET Nat, S # {}
    PROVE  Min(S) \in S /\ \A y \in S : Min(S) <= y
  BY LeastExists DEF Min

\* The number at a position leads back to the position.
LEMMA PositionOfNumber ==
    ASSUME NEW g \in InodeGroup, NEW i \in InodeIndex
    PROVE  /\ Number(i, g) \in Nat \ {0}
           /\ GroupOfInode(Number(i, g)) = g
           /\ IndexOfInode(Number(i, g)) = i
           /\ (Number(i, g) - 1) \div InodesPerGroup = g
  <1>1. g \in Nat /\ i \in 0 .. InodesPerGroup - 1 /\ InodesPerGroup \in Nat \ {0}
    BY InodeGeometry DEF InodeGroup, InodeIndex
  <1>2. Number(i, g) - 1 = g * InodesPerGroup + i /\ g * InodesPerGroup + i \in Nat
    BY <1>1 DEF Number
  <1>3. Number(i, g) \in Nat \ {0}
    BY <1>1, <1>2 DEF Number
  <1>4. AtLeastZero(Number(i, g) - 1) = Number(i, g) - 1
    BY <1>2, <1>3, AtLeastZeroIs
  <1> QED
    BY <1>1, <1>2, <1>3, <1>4, DivisionIsUnique DEF GroupOfInode, IndexOfInode

\* The position of a number leads back to the number.
LEMMA NumberOfPosition ==
    ASSUME NEW n \in InodeNo
    PROVE  /\ GroupOfInode(n) \in InodeGroup
           /\ GroupOfInode(n) = (n - 1) \div InodesPerGroup
           /\ IndexOfInode(n) \in RealIn(GroupOfInode(n))
           /\ Number(IndexOfInode(n), GroupOfInode(n)) = n
  <1> DEFINE q == (n - 1) \div InodesPerGroup
             r == (n - 1) % InodesPerGroup
  <1>1. n \in Nat /\ n - 1 \in Nat /\ n <= InodeGroups * InodesPerGroup /\
        InodesPerGroup \in Nat \ {0} /\ InodeGroups \in Nat
    BY InodeGeometry DEF InodeNo
  <1>2. AtLeastZero(n - 1) = n - 1
    BY <1>1, AtLeastZeroIs
  <1>3. q \in Nat /\ r \in 0 .. InodesPerGroup - 1 /\ n - 1 = q * InodesPerGroup + r
    BY <1>1, Division
  <1>4. GroupOfInode(n) = q /\ IndexOfInode(n) = r
    BY <1>2 DEF GroupOfInode, IndexOfInode
  <1>5. q < InodeGroups
    <2>1. q * InodesPerGroup + r < InodeGroups * InodesPerGroup
      <3> HIDE DEF q, r
      <3> QED
        BY <1>1, <1>3
    <2> HIDE DEF q, r
    <2> QED
      BY <1>1, <1>3, <2>1, QuotientBound
  <1>6. Number(r, q) = n
    <2> HIDE DEF q, r
    <2> QED
      BY <1>1, <1>3 DEF Number, InodeNo
  <1>7. q \in InodeGroup /\ r \in InodeIndex
    BY <1>1, <1>3, <1>5 DEF InodeGroup, InodeIndex
  <1> QED
    BY <1>4, <1>6, <1>7 DEF RealIn

\* get_inodes_in_group_cnt bounds the indices of the group's inodes.
LEMMA InodesInGroup ==
    ASSUME NEW g \in InodeGroup
    PROVE  /\ InodesIn(g) \in 0 .. InodesPerGroup
           /\ \A i \in RealIn(g) : i < InodesIn(g)
  <1>1. /\ g \in Nat /\ g < InodeGroups /\ InodeGroups \in Nat
        /\ InodesPerGroup \in Nat \ {0} /\ TotalInodes \in Nat
        /\ TotalInodes <= InodeGroups * InodesPerGroup
    BY InodeGeometry DEF InodeGroup
  <1>2. CASE g + 1 < InodeGroups
    BY <1>1, <1>2 DEF InodesIn, RealIn, InodeIndex
  <1>3. CASE g = InodeGroups - 1
    <2> DEFINE rest == TotalInodes - g * InodesPerGroup
    <2>1. rest \in Int /\ rest <= InodesPerGroup
      BY <1>1, <1>3
    <2>2. InodesIn(g) = IF rest > 0 THEN rest ELSE 0
      BY <1>1, <1>3, <2>1, AtLeastZeroIs DEF InodesIn
    <2>3. \A i \in RealIn(g) : i \in Nat /\ i < rest
      BY <1>1 DEF RealIn, InodeIndex, Number, InodeNo
    <2> QED
      BY <1>1, <2>1, <2>2, <2>3
  <1> QED
    BY <1>1, <1>2, <1>3

-----------------------------------------------------------------------------
(* Inodes: counts. *)

\* Inodes of a group are at most as many as its bitmap has bits.
LEMMA GroupIsSmall ==
    ASSUME NEW S \in SUBSET InodeNo, NEW g \in InodeGroup
    PROVE  /\ IsFiniteSet(S) /\ Cardinality(S) \in 0 .. TotalInodes
           /\ IsFiniteSet(OfGroup(S, g)) /\ Cardinality(OfGroup(S, g)) \in 0 .. InodesPerGroup
  <1> DEFINE lo == g * InodesPerGroup + 1
             hi == g * InodesPerGroup + InodesPerGroup
  <1>1. g \in Nat /\ InodesPerGroup \in Nat \ {0} /\ TotalInodes \in Nat
    BY InodeGeometry DEF InodeGroup
  <1>2. lo \in Int /\ hi \in Int /\ lo <= hi /\ hi - lo + 1 = InodesPerGroup
    BY <1>1
  <1>3. OfGroup(S, g) \in SUBSET (lo .. hi)
    <2> SUFFICES ASSUME NEW n \in OfGroup(S, g) PROVE n \in lo .. hi
      OBVIOUS
    <2>1. n \in InodeNo /\ GroupOfInode(n) = g
      BY NumberOfPosition DEF OfGroup
    <2>2. IndexOfInode(n) \in RealIn(g) /\ Number(IndexOfInode(n), g) = n
      BY <2>1, NumberOfPosition
    <2>3. IndexOfInode(n) \in 0 .. InodesPerGroup - 1 /\ n = g * InodesPerGroup + IndexOfInode(n) + 1
      BY <2>2 DEF RealIn, InodeIndex, Number
    <2>4. PICK base \in Nat : base = g * InodesPerGroup
      BY <1>1
    <2>5. n = base + IndexOfInode(n) + 1 /\ lo = base + 1 /\ hi = base + InodesPerGroup
      BY <2>3, <2>4
    <2> HIDE DEF lo, hi
    <2> QED
      BY <1>1, <2>3, <2>4, <2>5
  <1>4. IsFiniteSet(lo .. hi) /\ Cardinality(lo .. hi) = InodesPerGroup
    <2> HIDE DEF lo, hi
    <2>1. lo \in Int /\ hi \in Int /\ ~(lo > hi)
      BY <1>2
    <2>2. IsFiniteSet(lo .. hi) /\ Cardinality(lo .. hi) = IF lo > hi THEN 0 ELSE hi - lo + 1
      BY <2>1, FS_Interval
    <2> QED
      BY <1>2, <2>1, <2>2
  <1>5. IsFiniteSet(InodeNo) /\ Cardinality(InodeNo) = TotalInodes
    BY <1>1, FS_Interval DEF InodeNo
  <1> HIDE DEF lo, hi
  <1>6. IsFiniteSet(S) /\ Cardinality(S) <= TotalInodes /\ Cardinality(S) \in Nat
    BY <1>5, FS_Subset, FS_CardinalityType
  <1>7. /\ IsFiniteSet(OfGroup(S, g)) /\ Cardinality(OfGroup(S, g)) <= InodesPerGroup
        /\ Cardinality(OfGroup(S, g)) \in Nat
    BY <1>3, <1>4, FS_Subset, FS_CardinalityType
  <1> QED
    BY <1>1, <1>6, <1>7

\* Taking an inode out of a set lowers the count of its own group by one.
LEMMA CountWithout ==
    ASSUME NEW S \in SUBSET InodeNo, NEW n \in S, NEW g \in InodeGroup
    PROVE  /\ Cardinality(OfGroup(S \ {n}, g)) =
                 IF g = GroupOfInode(n) THEN Cardinality(OfGroup(S, g)) - 1
                                   ELSE Cardinality(OfGroup(S, g))
           /\ g = GroupOfInode(n) => Cardinality(OfGroup(S, g)) > 0
           /\ Cardinality(S \ {n}) = Cardinality(S) - 1
           /\ Cardinality(S) > 0
  <1>1. /\ IsFiniteSet(S) /\ Cardinality(S) \in Nat
        /\ IsFiniteSet(OfGroup(S, g)) /\ Cardinality(OfGroup(S, g)) \in Nat
        /\ Cardinality(OfGroup(S \ {n}, g)) \in Nat /\ Cardinality(S \ {n}) \in Nat
    BY GroupIsSmall
  <1>2. GroupOfInode(n) = (n - 1) \div InodesPerGroup
    BY NumberOfPosition
  <1>3. Cardinality(S \ {n}) = Cardinality(S) - 1
    BY <1>1, FS_RemoveElement
  <1>4. CASE g = GroupOfInode(n)
    <2>1. n \in OfGroup(S, g) /\ OfGroup(S \ {n}, g) = OfGroup(S, g) \ {n}
      BY <1>2, <1>4 DEF OfGroup
    <2>2. Cardinality(OfGroup(S, g) \ {n}) = Cardinality(OfGroup(S, g)) - 1
      BY <1>1, <2>1, FS_RemoveElement
    <2>3. Cardinality(OfGroup(S, g)) > 0 /\ Cardinality(S) > 0
      <3>1. PICK c, d, e, f : /\ c = Cardinality(OfGroup(S, g)) /\ d = Cardinality(S)
                              /\ e = Cardinality(OfGroup(S \ {n}, g)) /\ f = Cardinality(S \ {n})
        OBVIOUS
      <3>2. c \in Int /\ d \in Int /\ e \in Nat /\ f \in Nat /\ e = c - 1 /\ f = d - 1
        BY <1>1, <1>3, <2>1, <2>2, <3>1
      <3> QED
        BY <3>1, <3>2
    <2>4. Cardinality(OfGroup(S \ {n}, g)) = Cardinality(OfGroup(S, g)) - 1
      BY <2>1, <2>2
    <2> QED
      BY <1>3, <1>4, <2>3, <2>4
  <1>5. CASE g # GroupOfInode(n)
    <2>1. OfGroup(S \ {n}, g) = OfGroup(S, g)
      BY <1>2, <1>5 DEF OfGroup
    <2>2. Cardinality(S) > 0
      BY <1>1, <1>3
    <2> QED
      BY <1>3, <1>5, <2>1, <2>2
  <1> QED
    BY <1>4, <1>5

\* Adding one raises it by one.
LEMMA CountWith ==
    ASSUME NEW S \in SUBSET InodeNo, NEW n \in InodeNo \ S, NEW g \in InodeGroup
    PROVE  /\ Cardinality(OfGroup(S \cup {n}, g)) =
                 IF g = GroupOfInode(n) THEN Cardinality(OfGroup(S, g)) + 1
                                   ELSE Cardinality(OfGroup(S, g))
           /\ Cardinality(S \cup {n}) = Cardinality(S) + 1
  <1> DEFINE T == S \cup {n}
  <1>1. T \in SUBSET InodeNo /\ n \in T /\ T \ {n} = S
    OBVIOUS
  <1>2. /\ Cardinality(OfGroup(T, g)) \in Nat /\ Cardinality(OfGroup(S, g)) \in Nat
        /\ Cardinality(T) \in Nat /\ Cardinality(S) \in Nat
    BY <1>1, GroupIsSmall
  <1> HIDE DEF T
  <1>3. /\ Cardinality(OfGroup(S, g)) = IF g = GroupOfInode(n) THEN Cardinality(OfGroup(T, g)) - 1
                                                          ELSE Cardinality(OfGroup(T, g))
        /\ Cardinality(S) = Cardinality(T) - 1
    BY <1>1, CountWithout
  <1>4. /\ Cardinality(OfGroup(T, g)) = IF g = GroupOfInode(n) THEN Cardinality(OfGroup(S, g)) + 1
                                                          ELSE Cardinality(OfGroup(S, g))
        /\ Cardinality(T) = Cardinality(S) + 1
    BY <1>2, <1>3
  <1> QED
    BY <1>4 DEF T

-----------------------------------------------------------------------------
(* Inodes: the steps. *)

\* The invariant over sets that are known by name, without the counts' ranges.
Shape ==
    /\ ibitmap \in [InodeGroup -> SUBSET InodeIndex]
    /\ DOMAIN ifree = InodeGroup /\ ifree = [g \in InodeGroup |-> ifree[g]]
    /\ DOMAIN dirs = InodeGroup /\ dirs = [g \in InodeGroup |-> dirs[g]]
    /\ unused \in [InodeGroup -> 0 .. InodesPerGroup]
    /\ files \in SUBSET InodeNo /\ folders \in SUBSET InodeNo
    /\ iresult \in {"ok", "enospc"}

\* The ranges of the counts follow from what they count.
LEMMA CountsInRange == Shape /\ InodeCountsAgree => IallocTypeOK
  <1> SUFFICES ASSUME Shape, InodeCountsAgree PROVE IallocTypeOK
    OBVIOUS
  <1>1. FreeInodes \in SUBSET InodeNo
    BY InodeGeometry DEF FreeInodes, InodeNo
  <1>2. \A g \in InodeGroup : ifree[g] \in 0 .. InodesPerGroup /\ dirs[g] \in 0 .. InodesPerGroup
    BY <1>1, GroupIsSmall DEF Shape, InodeCountsAgree
  <1>3. sbifree \in 0 .. TotalInodes
    <2>1. 0 \in InodeGroup
      BY InodeGeometry DEF InodeGroup
    <2> QED
      BY <1>1, <2>1, GroupIsSmall DEF InodeCountsAgree
  <1> QED
    BY <1>2, <1>3 DEF Shape, IallocTypeOK

\* What mke2fs leaves satisfies the invariant.
LEMMA IallocInitInv == IallocInit => IallocInv
  <1> SUFFICES ASSUME IallocInit PROVE IallocInv
    OBVIOUS
  <1>1. FreeInodes = FirstInode .. TotalInodes /\ InUse = {}
    BY DEF IallocInit, FreeInodes, InUse
  <1>2. \A g \in InodeGroup : /\ IsFiniteSet(RealIn(g) \ ReservedIn(g))
                         /\ Cardinality(RealIn(g) \ ReservedIn(g)) \in 0 .. InodesPerGroup
    <2> SUFFICES ASSUME NEW g \in InodeGroup
                 PROVE  /\ IsFiniteSet(RealIn(g) \ ReservedIn(g))
                        /\ Cardinality(RealIn(g) \ ReservedIn(g)) \in 0 .. InodesPerGroup
      OBVIOUS
    <2>1. IsFiniteSet(InodeIndex) /\ Cardinality(InodeIndex) = InodesPerGroup
      BY InodeGeometry, FS_Interval DEF InodeIndex
    <2>2. RealIn(g) \ ReservedIn(g) \in SUBSET InodeIndex
      BY DEF RealIn
    <2>3. /\ IsFiniteSet(RealIn(g) \ ReservedIn(g))
          /\ Cardinality(RealIn(g) \ ReservedIn(g)) <= InodesPerGroup
          /\ Cardinality(RealIn(g) \ ReservedIn(g)) \in Nat
      BY <2>1, <2>2, FS_Subset, FS_CardinalityType
    <2> QED
      BY <2>3, InodeGeometry
  <1>3. Shape
    BY <1>2 DEF IallocInit, Shape, RealIn, ReservedIn
  <1>4. InodeCountsAgree
    <2>1. \A g \in InodeGroup : ifree[g] = Cardinality(OfGroup(FreeInodes, g))
      <3> SUFFICES ASSUME NEW g \in InodeGroup PROVE ifree[g] = Cardinality(OfGroup(FreeInodes, g))
        OBVIOUS
      <3> DEFINE A == RealIn(g) \ ReservedIn(g)
                 B == OfGroup(FreeInodes, g)
                 F == [i \in A |-> Number(i, g)]
      <3>1. \A i \in A : Number(i, g) \in B
        <4> SUFFICES ASSUME NEW i \in A PROVE Number(i, g) \in B
          OBVIOUS
        <4>1. i \in InodeIndex /\ Number(i, g) \in InodeNo /\ ~(Number(i, g) < FirstInode)
          BY DEF RealIn, ReservedIn
        <4>2. Number(i, g) \in FreeInodes
          BY <1>1, <4>1, InodeGeometry DEF InodeNo
        <4> QED
          BY <4>1, <4>2, PositionOfNumber DEF OfGroup
      <3>2. \A i, j \in A : Number(i, g) = Number(j, g) => i = j
        BY PositionOfNumber DEF RealIn
      <3>3. \A n \in B : \E i \in A : Number(i, g) = n
        <4> SUFFICES ASSUME NEW n \in B PROVE IndexOfInode(n) \in A /\ Number(IndexOfInode(n), g) = n
          OBVIOUS
        <4>1. n \in FirstInode .. TotalInodes /\ n \in InodeNo /\ (n - 1) \div InodesPerGroup = g
          BY <1>1, InodeGeometry DEF OfGroup, InodeNo
        <4>2. IndexOfInode(n) \in RealIn(g) /\ Number(IndexOfInode(n), g) = n
          BY <4>1, NumberOfPosition
        <4>3. IndexOfInode(n) \notin ReservedIn(g)
          BY <4>1, <4>2, InodeGeometry DEF ReservedIn, InodeNo
        <4> QED
          BY <4>2, <4>3
      <3>4. F \in Bijection(A, B)
        BY <3>1, <3>2, <3>3 DEF Bijection, Injection, Surjection, IsInjective
      <3>5. Cardinality(B) = Cardinality(A)
        BY <1>2, <3>4, FS_Bijection DEF ExistsBijection
      <3> QED
        BY <3>5 DEF IallocInit
    <2>2. \A g \in InodeGroup : dirs[g] = Cardinality(OfGroup(folders, g))
      BY FS_EmptySet DEF IallocInit, OfGroup
    <2>3. sbifree = Cardinality(FreeInodes)
      BY <1>1, InodeGeometry, FS_Interval DEF IallocInit, InodeNo
    <2> QED
      BY <2>1, <2>2, <2>3 DEF InodeCountsAgree
  <1>5. ReservedKept /\ InodeBitmapIsExact /\ UnusedTailIsUnused /\ EnospcIsTrue
    BY <1>1 DEF IallocInit, ReservedKept, InodeBitmapIsExact, UnusedTailIsUnused, EnospcIsTrue, RealIn, ReservedIn
  <1> QED
    BY <1>3, <1>4, <1>5, CountsInRange DEF IallocInv

\* When no group offers an inode, none is free: the group of a free inode has a
\* count above zero and a clear bit below get_inodes_in_group_cnt.
LEMMA NoOfferNoFree ==
    ASSUME IallocInv, Offers = {}
    PROVE  FreeInodes = {}
  <1> SUFFICES ASSUME NEW n \in FreeInodes PROVE FALSE
    OBVIOUS
  <1> DEFINE g == GroupOfInode(n)
             i == IndexOfInode(n)
  <1>1. n \in InodeNo /\ n \in FirstInode .. TotalInodes /\ n \notin InUse /\ FreeInodes \in SUBSET InodeNo
    BY InodeGeometry DEF FreeInodes, InodeNo
  <1>2. g \in InodeGroup /\ i \in RealIn(g) /\ Number(i, g) = n
    BY <1>1, NumberOfPosition
  <1>3. i \in RealIn(g) \ ReservedIn(g)
    BY <1>1, <1>2, InodeGeometry DEF ReservedIn, InodeNo
  <1> HIDE DEF g, i
  <1>4. i \notin ibitmap[g]
    BY <1>1, <1>2, <1>3 DEF IallocInv, InodeBitmapIsExact
  <1>5. ifree[g] > 0
    BY <1>1, <1>2, CountWithout DEF IallocInv, InodeCountsAgree, g
  <1>6. i \in 0 .. InodesIn(g) - 1
    BY <1>2, InodesInGroup DEF RealIn, InodeIndex
  <1> QED
    BY <1>2, <1>4, <1>5, <1>6 DEF Offers, FindClear

\* The position an allocation picks is that of a free inode.
LEMMA PickedIsFree ==
    ASSUME IallocInv, Offers # {}, NEW g, g = Min(Offers), NEW i, i = Min(FindClear(g))
    PROVE  /\ g \in InodeGroup /\ i \in RealIn(g) \ ReservedIn(g) /\ i \notin ibitmap[g]
           /\ i \in InodeIndex /\ i < InodesIn(g)
           /\ Number(i, g) \in FreeInodes /\ Number(i, g) \in InodeNo
  <1>1. g \in Offers
    <2>1. Offers \in SUBSET Nat
      BY DEF Offers, InodeGroup
    <2> QED
      BY <2>1, MinIsLeast
  <1>2. g \in InodeGroup /\ FindClear(g) # {} /\ FindClear(g) \in SUBSET Nat
    <2>1. g \in InodeGroup /\ FindClear(g) # {}
      BY <1>1 DEF Offers
    <2>2. FindClear(g) \in SUBSET Nat
      BY DEF FindClear
    <2> QED
      BY <2>1, <2>2
  <1>3. i \in FindClear(g)
    BY <1>2, MinIsLeast
  <1>4. i \in InodeIndex /\ i \notin ibitmap[g] /\ i < InodesIn(g)
    <2>1. i \in 0 .. InodesIn(g) - 1 /\ i \notin ibitmap[g]
      BY <1>3 DEF FindClear
    <2>2. InodesIn(g) \in 0 .. InodesPerGroup /\ InodesPerGroup \in Nat
      BY <1>2, InodesInGroup, InodeGeometry
    <2> QED
      BY <2>1, <2>2 DEF InodeIndex
  <1>5. i \in RealIn(g) \ ReservedIn(g)
    BY <1>2, <1>4 DEF IallocInv, ReservedKept
  <1>6. Number(i, g) \in InodeNo /\ Number(i, g) \notin InUse /\ ~(Number(i, g) < FirstInode)
    BY <1>2, <1>4, <1>5 DEF IallocInv, InodeBitmapIsExact, RealIn, ReservedIn
  <1> QED
    BY <1>2, <1>4, <1>5, <1>6, InodeGeometry DEF FreeInodes, InodeNo

\* The unused tail of a table begins behind the inode allocated and never grows.
LEMMA TailBehind ==
    ASSUME IallocTypeOK, NEW g \in InodeGroup, NEW i \in InodeIndex, i < InodesIn(g)
    PROVE  /\ StillUnused(g, i) \in 0 .. InodesPerGroup
           /\ StillUnused(g, i) <= unused[g]
           /\ i < InodesIn(g) - StillUnused(g, i)
  <1> DEFINE size == InodesIn(g)
             old  == unused[g]
  <1>1. /\ size \in Nat /\ size <= InodesPerGroup /\ InodesPerGroup \in Nat
        /\ old \in Nat /\ old <= InodesPerGroup /\ i \in Nat /\ i < size
    BY InodesInGroup, InodeGeometry DEF IallocTypeOK, InodeIndex
  <1>2. StillUnused(g, i) = IF i >= AtLeastZero(size - old) THEN AtLeastZero(size - (i + 1)) ELSE old
    BY DEF StillUnused
  <1> HIDE DEF size, old
  <1>3. /\ AtLeastZero(size - old) = IF size - old > 0 THEN size - old ELSE 0
        /\ AtLeastZero(size - (i + 1)) = size - (i + 1)
    BY <1>1, AtLeastZeroIs
  <1>4. /\ StillUnused(g, i) \in 0 .. InodesPerGroup
        /\ StillUnused(g, i) <= old
        /\ i < size - StillUnused(g, i)
    BY <1>1, <1>2, <1>3
  <1> QED
    BY <1>4 DEF size, old

\* ialloc_alloc_inode keeps the invariant.
LEMMA AllocInodeInv ==
    ASSUME IallocInv, NEW isDir \in BOOLEAN, AllocInode(isDir)
    PROVE  IallocInv'
  <1>1. CASE Offers = {}
    <2>1. FreeInodes = {} /\ iresult' = "enospc"
          /\ UNCHANGED <<ibitmap, ifree, dirs, unused, sbifree, files, folders>>
      BY <1>1, NoOfferNoFree DEF AllocInode
    <2> QED
      BY <2>1 DEF IallocInv, IallocTypeOK, ReservedKept, InodeBitmapIsExact, InodeCountsAgree, UnusedTailIsUnused,
                  EnospcIsTrue, FreeInodes, InUse
  <1>2. CASE Offers # {}
    <2> DEFINE g == Min(Offers)
               i == Min(FindClear(g))
               n == Number(i, g)
    <2>1. /\ g \in InodeGroup /\ i \in RealIn(g) \ ReservedIn(g) /\ i \notin ibitmap[g]
          /\ i \in InodeIndex /\ i < InodesIn(g)
          /\ n \in FreeInodes /\ n \in InodeNo
      BY <1>2, PickedIsFree
    <2>2. /\ ibitmap' = [ibitmap EXCEPT ![g] = @ \cup {i}]
          /\ ifree' = [ifree EXCEPT ![g] = @ - 1]
          /\ dirs' = [dirs EXCEPT ![g] = IF isDir THEN @ + 1 ELSE @]
          /\ unused' = [unused EXCEPT ![g] = StillUnused(g, i)]
          /\ sbifree' = AtLeastZero(sbifree - 1)
          /\ files' = IF isDir THEN files ELSE files \cup {n}
          /\ folders' = IF isDir THEN folders \cup {n} ELSE folders
          /\ iresult' = "ok"
      BY <1>2 DEF AllocInode
    <2>3. \A h \in InodeGroup, j \in InodeIndex : Number(j, h) = n => h = g /\ j = i
      BY <2>1, PositionOfNumber
    <2>4. GroupOfInode(n) = g
      BY <2>1, PositionOfNumber
    <2> HIDE DEF g, i, n
    <2>5. /\ InUse' = InUse \cup {n} /\ FreeInodes' = FreeInodes \ {n} /\ n \notin InUse
          /\ FreeInodes \in SUBSET InodeNo /\ folders \in SUBSET InodeNo
      BY <2>1, <2>2, InodeGeometry DEF InUse, FreeInodes, InodeNo, IallocInv, IallocTypeOK
    <2>6. StillUnused(g, i) \in 0 .. InodesPerGroup
      BY <2>1, TailBehind DEF IallocInv
    <2>7. Shape'
      BY <2>1, <2>2, <2>6 DEF IallocInv, IallocTypeOK, Shape
    <2>8. InodeCountsAgree'
      <3>1. ASSUME NEW h \in InodeGroup PROVE ifree'[h] = Cardinality(OfGroup(FreeInodes', h))
        <4>1. Cardinality(OfGroup(FreeInodes \ {n}, h)) =
                 IF h = g THEN Cardinality(OfGroup(FreeInodes, h)) - 1 ELSE Cardinality(OfGroup(FreeInodes, h))
          BY <2>1, <2>4, <2>5, CountWithout
        <4>2. ifree[h] = Cardinality(OfGroup(FreeInodes, h)) /\ h \in DOMAIN ifree
          BY DEF IallocInv, IallocTypeOK, InodeCountsAgree
        <4> QED
          BY <2>2, <2>5, <4>1, <4>2
      <3>2. ASSUME NEW h \in InodeGroup PROVE dirs'[h] = Cardinality(OfGroup(folders', h))
        <4>1. n \in InodeNo \ folders
          BY <2>1, <2>5 DEF InUse
        <4>2. Cardinality(OfGroup(folders \cup {n}, h)) =
                 IF h = g THEN Cardinality(OfGroup(folders, h)) + 1 ELSE Cardinality(OfGroup(folders, h))
          BY <2>4, <2>5, <4>1, CountWith
        <4>3. dirs[h] = Cardinality(OfGroup(folders, h)) /\ h \in DOMAIN dirs
          BY DEF IallocInv, IallocTypeOK, InodeCountsAgree
        <4> QED
          BY <2>2, <4>2, <4>3
      <3>3. sbifree' = Cardinality(FreeInodes')
        <4>1. Cardinality(FreeInodes \ {n}) = Cardinality(FreeInodes) - 1 /\ Cardinality(FreeInodes) > 0
          BY <2>1, <2>5, CountWithout
        <4>2. Cardinality(FreeInodes) \in Nat /\ sbifree = Cardinality(FreeInodes)
          BY <2>1, <2>5, GroupIsSmall DEF IallocInv, InodeCountsAgree
        <4>3. AtLeastZero(sbifree - 1) = sbifree - 1
          BY <4>1, <4>2, AtLeastZeroIs
        <4> QED
          BY <2>2, <2>5, <4>1, <4>2, <4>3
      <3> QED
        BY <3>1, <3>2, <3>3 DEF InodeCountsAgree, OfGroup, FreeInodes, InUse
    <2>9. ReservedKept'
      BY <2>1, <2>2, <2>5 DEF IallocInv, IallocTypeOK, ReservedKept, FreeInodes, RealIn, ReservedIn
    <2>10. InodeBitmapIsExact'
      <3>1. files' \cap folders' = {}
        BY <2>2, <2>5 DEF IallocInv, InodeBitmapIsExact, InUse
      <3>2. ASSUME NEW h \in InodeGroup, NEW j \in RealIn(h) \ ReservedIn(h)
            PROVE  j \in ibitmap'[h] <=> Number(j, h) \in InUse'
        <4>1. j \in InodeIndex /\ (Number(j, h) = n <=> h = g /\ j = i)
          BY <2>1, <2>3 DEF RealIn, n
        <4>2. j \in ibitmap'[h] <=> j \in ibitmap[h] \/ (h = g /\ j = i)
          BY <2>1, <2>2 DEF IallocInv, IallocTypeOK
        <4>3. j \in ibitmap[h] <=> Number(j, h) \in InUse
          BY DEF IallocInv, InodeBitmapIsExact
        <4> QED
          BY <2>5, <4>1, <4>2, <4>3
      <3> QED
        BY <3>1, <3>2 DEF InodeBitmapIsExact, RealIn, ReservedIn, Number, InUse
    <2>11. UnusedTailIsUnused'
      <3>1. ASSUME NEW h \in InodeGroup, NEW j \in RealIn(h), Number(j, h) \in InUse'
            PROVE  j < InodesIn(h) - unused'[h]
        <4>1. j \in InodeIndex /\ j \in Int /\ (Number(j, h) = n <=> h = g /\ j = i)
          BY <2>1, <2>3 DEF RealIn, InodeIndex, n
        <4>2. /\ InodesIn(h) \in Int /\ unused[h] \in Int
              /\ Number(j, h) # n => j < InodesIn(h) - unused[h]
          BY <2>5, <3>1, InodesInGroup DEF IallocInv, IallocTypeOK, UnusedTailIsUnused
        <4>3. /\ StillUnused(g, i) \in Int /\ StillUnused(g, i) <= unused[g]
              /\ i < InodesIn(g) - StillUnused(g, i)
          BY <2>1, <2>6, TailBehind DEF IallocInv
        <4>4. unused'[h] = IF h = g THEN StillUnused(g, i) ELSE unused[h]
          BY <2>1, <2>2 DEF IallocInv, IallocTypeOK
        <4> QED
          BY <4>1, <4>2, <4>3, <4>4
      <3> QED
        BY <3>1 DEF UnusedTailIsUnused, RealIn, Number, InUse, InodesIn
    <2>12. EnospcIsTrue'
      BY <2>2 DEF EnospcIsTrue
    <2>13. IallocTypeOK'
      BY <2>7, <2>8, CountsInRange, PTL
    <2> QED
      BY <2>8, <2>9, <2>10, <2>11, <2>12, <2>13 DEF IallocInv
  <1> QED
    BY <1>1, <1>2

\* ialloc_free_inode, called with an inode somebody has and with what it was,
\* keeps the invariant.
LEMMA FreeInodeInv ==
    ASSUME IallocInv, NEW isDir \in BOOLEAN, NEW n \in InodeNo, FreeInode(n, isDir)
    PROVE  IallocInv'
  <1> DEFINE g == GroupOfInode(n)
             i == IndexOfInode(n)
  <1>1. n \in (IF isDir THEN folders ELSE files) /\ n \in InUse /\ n \in FirstInode .. TotalInodes
    BY DEF FreeInode, InUse, IallocInv, ReservedKept
  <1>2. g \in InodeGroup /\ i \in RealIn(g) /\ i \in InodeIndex /\ Number(i, g) = n
    BY NumberOfPosition DEF RealIn
  <1>3. i \notin ReservedIn(g)
    BY <1>1, <1>2, InodeGeometry DEF ReservedIn, InodeNo
  <1>4. /\ ibitmap' = [ibitmap EXCEPT ![g] = @ \ {i}]
        /\ ifree' = [ifree EXCEPT ![g] = @ + 1]
        /\ dirs' = [dirs EXCEPT ![g] = IF isDir THEN AtLeastZero(@ - 1) ELSE @]
        /\ sbifree' = sbifree + 1
        /\ files' = files \ {n} /\ folders' = folders \ {n}
        /\ iresult' = "ok" /\ unused' = unused
    BY DEF FreeInode
  <1>5. \A h \in InodeGroup, j \in InodeIndex : Number(j, h) = n => h = g /\ j = i
    BY <1>2, PositionOfNumber
  <1> HIDE DEF g, i
  <1>6. /\ InUse' = InUse \ {n} /\ FreeInodes' = FreeInodes \cup {n} /\ n \notin FreeInodes
        /\ FreeInodes \in SUBSET InodeNo /\ folders \in SUBSET InodeNo
    BY <1>1, <1>4, InodeGeometry DEF InUse, FreeInodes, InodeNo, IallocInv, IallocTypeOK
  <1>7. ASSUME NEW h \in InodeGroup PROVE ifree'[h] = Cardinality(OfGroup(FreeInodes', h))
    <2>1. Cardinality(OfGroup(FreeInodes \cup {n}, h)) =
             IF h = g THEN Cardinality(OfGroup(FreeInodes, h)) + 1 ELSE Cardinality(OfGroup(FreeInodes, h))
      <3>1. FreeInodes \in SUBSET InodeNo /\ n \in InodeNo \ FreeInodes
        BY <1>6
      <3> HIDE DEF FreeInodes
      <3> QED
        BY <3>1, CountWith DEF g
    <2>2. ifree[h] = Cardinality(OfGroup(FreeInodes, h)) /\ h \in DOMAIN ifree
      BY DEF IallocInv, IallocTypeOK, InodeCountsAgree
    <2> QED
      BY <1>4, <1>6, <2>1, <2>2
  <1>8. ASSUME NEW h \in InodeGroup PROVE dirs'[h] = Cardinality(OfGroup(folders', h))
    <2>1. dirs[h] = Cardinality(OfGroup(folders, h)) /\ h \in DOMAIN dirs
      BY DEF IallocInv, IallocTypeOK, InodeCountsAgree
    <2>2. CASE ~isDir
      <3>1. n \notin folders
        BY <1>1, <2>2 DEF IallocInv, InodeBitmapIsExact
      <3> QED
        BY <1>4, <2>1, <2>2, <3>1
    <2>3. CASE isDir
      <3>1. /\ Cardinality(OfGroup(folders \ {n}, h)) =
                  IF h = g THEN Cardinality(OfGroup(folders, h)) - 1
                           ELSE Cardinality(OfGroup(folders, h))
            /\ h = g => Cardinality(OfGroup(folders, h)) > 0
        BY <1>1, <1>6, <2>3, CountWithout DEF g
      <3>2. Cardinality(OfGroup(folders, h)) \in Nat
        <4>1. folders \in SUBSET InodeNo
          BY <1>6
        <4>2. Cardinality(OfGroup(folders, h)) \in 0 .. InodesPerGroup
          BY <4>1, GroupIsSmall
        <4> QED
          BY <4>2
      <3>3. h = g => AtLeastZero(dirs[h] - 1) = dirs[h] - 1
        <4>1. dirs[h] \in Nat /\ (h = g => dirs[h] > 0)
          BY <2>1, <3>1, <3>2
        <4> QED
          BY <4>1, AtLeastZeroIs
      <3> QED
        BY <1>4, <2>1, <2>3, <3>1, <3>3
    <2> QED
      BY <2>2, <2>3
  <1>9. sbifree' = Cardinality(FreeInodes')
    BY <1>4, <1>6, <1>2, CountWith DEF IallocInv, InodeCountsAgree
  <1>10. InodeCountsAgree'
    BY <1>7, <1>8, <1>9 DEF InodeCountsAgree, OfGroup, FreeInodes, InUse
  <1>11. Shape'
    BY <1>2, <1>4 DEF IallocInv, IallocTypeOK, Shape
  <1>12. IallocTypeOK'
    BY <1>10, <1>11, CountsInRange, PTL
  <1>13. ReservedKept'
    BY <1>2, <1>3, <1>4, <1>6 DEF IallocInv, IallocTypeOK, ReservedKept, RealIn, ReservedIn
  <1>14. InodeBitmapIsExact'
    <2>1. ASSUME NEW h \in InodeGroup, NEW j \in RealIn(h) \ ReservedIn(h)
          PROVE  j \in ibitmap'[h] <=> Number(j, h) \in InUse'
      <3>1. j \in InodeIndex /\ (Number(j, h) = n <=> h = g /\ j = i)
        BY <1>2, <1>5 DEF RealIn
      <3>2. j \in ibitmap'[h] <=> j \in ibitmap[h] /\ ~(h = g /\ j = i)
        BY <1>2, <1>4 DEF IallocInv, IallocTypeOK
      <3>3. j \in ibitmap[h] <=> Number(j, h) \in InUse
        BY DEF IallocInv, InodeBitmapIsExact
      <3> QED
        BY <1>6, <3>1, <3>2, <3>3
    <2>2. files' \cap folders' = {}
      BY <1>4 DEF IallocInv, InodeBitmapIsExact
    <2> QED
      BY <2>1, <2>2 DEF InodeBitmapIsExact, RealIn, ReservedIn, Number, InUse
  <1>15. UnusedTailIsUnused'
    BY <1>4, <1>6 DEF IallocInv, UnusedTailIsUnused, RealIn, Number, InUse, InodesIn
  <1>16. EnospcIsTrue'
    BY <1>4 DEF EnospcIsTrue
  <1> QED
    BY <1>10, <1>12, <1>13, <1>14, <1>15, <1>16 DEF IallocInv

-----------------------------------------------------------------------------
\* The invariant holds in every reachable state.
THEOREM IallocInvHolds == IallocSpec => []IallocInv
  <1>1. IallocInv /\ [IallocNext]_iallocVars => IallocInv'
    <2> SUFFICES ASSUME IallocInv, [IallocNext]_iallocVars PROVE IallocInv'
      OBVIOUS
    <2>1. CASE UNCHANGED iallocVars
      BY <2>1 DEF iallocVars, IallocInv, IallocTypeOK, ReservedKept, InodeBitmapIsExact, InodeCountsAgree, UnusedTailIsUnused,
                  EnospcIsTrue, FreeInodes, InUse
    <2>2. CASE IallocNext
      BY <2>2, AllocInodeInv, FreeInodeInv DEF IallocNext
    <2> QED
      BY <2>1, <2>2
  <1> QED
    BY IallocInitInv, <1>1, PTL DEF IallocSpec

\* No inode is given twice and no free clears the bit of another inode
\* (ialloc_alloc_inode, ialloc_free_inode), for every geometry.
THEOREM OneOwner == IallocSpec => []InodeBitmapIsExact
  <1>1. IallocInv => InodeBitmapIsExact
    BY DEF IallocInv
  <1> QED
    BY IallocInvHolds, <1>1, PTL

\* No reserved inode and no number past the last inode is ever given away.
THEOREM ReservedNeverGiven == IallocSpec => []ReservedKept
  <1>1. IallocInv => ReservedKept
    BY DEF IallocInv
  <1> QED
    BY IallocInvHolds, <1>1, PTL

\* The free and directory counts of the groups and of the superblock always say
\* what the owners hold.
THEOREM CountsHold == IallocSpec => []InodeCountsAgree
  <1>1. IallocInv => InodeCountsAgree
    BY DEF IallocInv
  <1> QED
    BY IallocInvHolds, <1>1, PTL

\* No inode in use lies in the part of a table that itable_unused declares unused.
THEOREM TailsUnused == IallocSpec => []UnusedTailIsUnused
  <1>1. IallocInv => UnusedTailIsUnused
    BY DEF IallocInv
  <1> QED
    BY IallocInvHolds, <1>1, PTL

\* ialloc_alloc_inode reports ENOSPC only when every inode is in use.
THEOREM EnospcHonest == IallocSpec => []EnospcIsTrue
  <1>1. IallocInv => EnospcIsTrue
    BY DEF IallocInv
  <1> QED
    BY IallocInvHolds, <1>1, PTL

=============================================================================
