-------------------------- MODULE NamespaceProofs --------------------------
(***************************************************************************)
(* The namespace for every number of inodes, names and blocks: entries     *)
(* name inodes in use and hold their types, ".." is where the one name of  *)
(* a directory is, the link counts are those of the tree, nothing is freed *)
(* that another name leads to, nothing in use is out of reach of the root, *)
(* and no block is lost.                                                   *)
(*                                                                         *)
(* The argument is about five views of an image: the types, the link       *)
(* counts, what each name of each directory leads to, ".." and ".".  Tree  *)
(* says of them that they belong together.  First the counts: one slot     *)
(* changes, and so do the counts of what it led to and of what it leads    *)
(* to.  Then the six changes a call makes to a tree: an inode appears, is  *)
(* named, loses a name, goes; a directory comes or goes; two names are     *)
(* exchanged.  Then loops: a directory closes none that moves to where the *)
(* way up does not meet it, and without loops every way up ends at the     *)
(* root.  Then what each operation of the code does to the views, and what *)
(* each call does to a sound image.  Between the steps of a call the image *)
(* is no tree, so a call is sound as a whole or not at all, which is why   *)
(* the theorems are about calls that the journal makes atomic.  The blocks *)
(* are apart from that: the operations that move them each keep their sum. *)
(***************************************************************************)
EXTENDS Namespace, FiniteSetTheorems, WellFoundedInduction, TLAPS

-----------------------------------------------------------------------------
(* Numbers. *)

\* Quotient and remainder.
LEMMA Division ==
    ASSUME NEW n \in Nat, NEW m \in Nat \ {0}
    PROVE  n \div m \in Nat /\ n % m \in 0 .. m - 1 /\ n = (n \div m) * m + (n % m)
  OBVIOUS

\* A set of naturals that is not empty has a least element.
LEMMA LeastExists ==
    ASSUME NEW S \in SUBSET Nat, S # {}
    PROVE  \E x \in S : \A y \in S : x <= y
  <1> DEFINE R == OpToRel(<, Nat)
  <1>1. \E x \in S : \A y \in S : ~(<<y, x>> \in R)
    <2>1. IsWellFoundedOn(R, Nat)
      BY NatLessThanWellFounded
    <2> HIDE DEF R
    <2> QED
      BY <2>1, WFMin
  <1>2. PICK x \in S : \A y \in S : ~(<<y, x>> \in R)
    BY <1>1
  <1>3. \A y \in S : x <= y
    <2> SUFFICES ASSUME NEW y \in S PROVE ~(y < x)
      OBVIOUS
    <2> SUFFICES ASSUME y < x PROVE FALSE
      OBVIOUS
    <2>1. y \in Nat /\ x \in Nat
      BY <1>2
    <2>2. <<y, x>> \in R
      BY <2>1 DEF OpToRel
    <2> QED
      BY <1>2, <2>2
  <1> QED
    BY <1>2, <1>3

\* What holds of 0, and of each number up to n whose predecessor it holds of,
\* holds up to n.
LEMMA UpTo ==
    ASSUME NEW n \in Nat, NEW S, 0 \in S, \A k \in 1 .. n : k - 1 \in S => k \in S
    PROVE  0 .. n \subseteq S
  <1> DEFINE bad == {k \in 0 .. n : k \notin S}
  <1> SUFFICES ASSUME bad # {} PROVE FALSE
    OBVIOUS
  <1>1. bad \in SUBSET Nat
    OBVIOUS
  <1> HIDE DEF bad
  <1>2. PICK k \in bad : \A y \in bad : k <= y
    BY <1>1, LeastExists
  <1>3. k \in 0 .. n /\ k \notin S /\ k # 0
    BY <1>2 DEF bad
  <1>4. k - 1 \in 0 .. n /\ ~(k <= k - 1)
    BY <1>3
  <1>5. k - 1 \in S
    BY <1>2, <1>4 DEF bad
  <1> QED
    BY <1>3, <1>5

\* The functions on 0 .. n that begin with a and go on by F.
Stepwise(n, V, a, F) ==
    {f \in [0 .. n -> V] : f[0] = a /\ \A k \in 1 .. n : f[k] = F[<<k, f[k - 1]>>]}

StaysIn(n, V, F) == \A k \in 1 .. n : \A v \in V : F[<<k, v>>] \in V

\* A function is defined by its first value and its steps.
LEMMA StepwiseExists ==
    ASSUME NEW n \in Nat, NEW V, NEW a \in V, NEW F, StaysIn(n, V, F)
    PROVE  \E f : f \in Stepwise(n, V, a, F)
  <1> DEFINE Is(f, m) == /\ f \in [0 .. m -> V] /\ f[0] = a
                         /\ \A k \in 1 .. m : f[k] = F[<<k, f[k - 1]>>]
             S == {m \in 0 .. n : \E f \in [0 .. m -> V] : Is(f, m)}
  <1>1. 0 \in S
    <2> DEFINE f == [k \in 0 .. 0 |-> a]
    <2>1. Is(f, 0) /\ f \in [0 .. 0 -> V]
      OBVIOUS
    <2> HIDE DEF f, Is
    <2>2. \E h \in [0 .. 0 -> V] : Is(h, 0)
      BY <2>1
    <2> QED
      BY <2>2
  <1>2. ASSUME NEW m \in 1 .. n, m - 1 \in S
        PROVE  m \in S
    <2>1. PICK f \in [0 .. m - 1 -> V] : Is(f, m - 1)
      BY <1>2
    <2> DEFINE g == [k \in 0 .. m |-> IF k = m THEN F[<<m, f[m - 1]>>] ELSE f[k]]
    <2>2. f[m - 1] \in V
      OBVIOUS
    <2>3. F[<<m, f[m - 1]>>] \in V
      BY <2>2 DEF StaysIn
    <2>4. g \in [0 .. m -> V] /\ g[0] = a
      BY <2>1, <2>3
    <2>5. ASSUME NEW k \in 1 .. m
          PROVE  g[k] = F[<<k, g[k - 1]>>]
      <3>1. g[k - 1] = f[k - 1]
        OBVIOUS
      <3>2. CASE k = m
        <4>1. g[k] = F[<<m, f[m - 1]>>]
          BY <3>2
        <4> HIDE DEF g
        <4> QED
          BY <3>1, <3>2, <4>1
      <3>3. CASE k # m
        <4>1. k \in 1 .. m - 1 /\ g[k] = f[k]
          BY <3>3
        <4> QED
          BY <2>1, <3>1, <4>1
      <3> QED
        BY <3>2, <3>3
    <2> HIDE DEF g
    <2>6. Is(g, m)
      BY <2>4, <2>5
    <2> QED
      BY <2>4, <2>6
  <1> HIDE DEF S
  <1>3. n \in S
    BY <1>1, <1>2, UpTo
  <1> QED
    BY <1>3 DEF S, Stepwise


\* What images are made of.
AnyName == Names \cup {Dot, DotDot}
AnyType == Types \cup {"none"}
Entry   == [ino : Inodes, type : AnyType]
Flag    == IF DirIndex THEN BOOLEAN ELSE {FALSE}
Record  == [type : AnyType, links : Nat, blocks : Nat, indexed : Flag]
Map     == UNION {[D -> Entry] : D \in SUBSET AnyName}
Image   == [node : [Inodes -> Record], ent : [Inodes -> Map], room : Nat, ok : BOOLEAN]

\* A place for a name.
Slot == Inodes \X Names

\* What matters of an image: types, link counts, what names name, "..", ".".
Type(s)  == [i \in Inodes |-> s.node[i].type]
Links(s) == [i \in Inodes |-> s.node[i].links]
At(s, d, name) == IF name \in DOMAIN s.ent[d] THEN s.ent[d][name].ino ELSE 0
Table(s) == [q \in Slot |-> At(s, q[1], q[2])]
Up(s)    == [d \in Inodes |-> At(s, d, DotDot)]
Self(s)  == [d \in Inodes |-> At(s, d, Dot)]

\* Every entry has the type of its inode.
Typed(s) == \A d \in Inodes : \A n \in DOMAIN s.ent[d] :
                s.ent[d][n].type = s.node[s.ent[d][n].ino].type

-----------------------------------------------------------------------------
(* Images. *)

\* What the assumption on the constants gives, in pieces.
LEMMA Constants ==
    /\ Inodes \in SUBSET Nat /\ 0 \notin Inodes /\ Root \in Inodes
    /\ Dot \notin Names /\ DotDot \notin Names /\ Dot # DotDot
    /\ LinkSpan \in Nat \ {0} /\ "none" \notin Types
  BY NamespaceConstants DEF Dot, DotDot, Types

\* What the entries of a directory are.
LEMMA MapIs ==
    ASSUME NEW f \in Map
    PROVE  /\ DOMAIN f \subseteq AnyName /\ f = [n \in DOMAIN f |-> f[n]]
           /\ \A n \in DOMAIN f : f[n] \in Entry
  BY DEF Map

\* What makes entries of a directory.
LEMMA IsMap ==
    ASSUME NEW D \in SUBSET AnyName, NEW f \in [D -> Entry]
    PROVE  f \in Map
  BY DEF Map

\* An image and its views, field by field.
LEMMA ImageIs ==
    ASSUME NEW s \in Image
    PROVE  /\ s = [node |-> s.node, ent |-> s.ent, room |-> s.room, ok |-> s.ok]
           /\ s.node \in [Inodes -> Record] /\ s.ent \in [Inodes -> Map]
           /\ s.room \in Nat /\ s.ok \in BOOLEAN
           /\ Type(s) \in [Inodes -> AnyType] /\ Links(s) \in [Inodes -> Nat]
           /\ Table(s) \in [Slot -> Inodes \cup {0}]
           /\ Up(s) \in [Inodes -> Inodes \cup {0}] /\ Self(s) \in [Inodes -> Inodes \cup {0}]
  <1>1. /\ s = [node |-> s.node, ent |-> s.ent, room |-> s.room, ok |-> s.ok]
        /\ s.node \in [Inodes -> Record] /\ s.ent \in [Inodes -> Map]
        /\ s.room \in Nat /\ s.ok \in BOOLEAN
    BY DEF Image
  <1>2. Type(s) \in [Inodes -> AnyType] /\ Links(s) \in [Inodes -> Nat]
    BY <1>1 DEF Type, Links, Record
  <1>3. \A d \in Inodes : \A n : At(s, d, n) \in Inodes \cup {0}
    BY <1>1, MapIs DEF At, Entry
  <1>4. /\ Table(s) \in [Slot -> Inodes \cup {0}]
        /\ Up(s) \in [Inodes -> Inodes \cup {0}] /\ Self(s) \in [Inodes -> Inodes \cup {0}]
    BY <1>3 DEF Table, Up, Self, Slot
  <1> QED
    BY <1>1, <1>2, <1>4

\* One entry changes: r has x under name in d, and else what s has.
Puts(s, r, d, name, x) ==
    /\ r.ent \in [Inodes -> Map]
    /\ \A e \in Inodes \ {d} : r.ent[e] = s.ent[e]
    /\ DOMAIN r.ent[d] = DOMAIN s.ent[d] \cup {name}
    /\ r.ent[d][name] = [ino |-> x, type |-> s.node[x].type]
    /\ \A n \in DOMAIN s.ent[d] \ {name} : r.ent[d][n] = s.ent[d][n]

\* What that means for the views of the image.
Views(s, r, d, name, x) ==
    /\ name \in Names => /\ Table(r) = [Table(s) EXCEPT ![<<d, name>>] = x]
                         /\ Up(r) = Up(s) /\ Self(r) = Self(s)
    /\ name = DotDot => /\ Up(r) = [Up(s) EXCEPT ![d] = x]
                        /\ Table(r) = Table(s) /\ Self(r) = Self(s)
    /\ name = Dot => /\ Self(r) = [Self(s) EXCEPT ![d] = x]
                     /\ Table(r) = Table(s) /\ Up(r) = Up(s)
    /\ Typed(s) => Typed(r)

\* One entry changes, and one place in one view with it.
LEMMA PutsMeans ==
    ASSUME NEW s \in Image, NEW r \in Image, NEW d \in Inodes, NEW name \in AnyName, NEW x \in Inodes,
           Puts(s, r, d, name, x), Type(r) = Type(s)
    PROVE  Views(s, r, d, name, x)
  <1>1. \A e \in Inodes : \A n : At(r, e, n) = IF e = d /\ n = name THEN x ELSE At(s, e, n)
    BY DEF Puts, At
  <1>2. \A q \in Slot : q = <<q[1], q[2]>> /\ q[1] \in Inodes /\ q[2] \in Names
    BY DEF Slot
  <1>3. \A q \in Slot : Table(r)[q] = IF q = <<d, name>> THEN x ELSE Table(s)[q]
    BY <1>1, <1>2 DEF Table
  <1>4. \A e \in Inodes : /\ Up(r)[e] = IF e = d /\ DotDot = name THEN x ELSE Up(s)[e]
                          /\ Self(r)[e] = IF e = d /\ Dot = name THEN x ELSE Self(s)[e]
    BY <1>1 DEF Up, Self
  <1>5. name \in Names => /\ Table(r) = [Table(s) EXCEPT ![<<d, name>>] = x]
                          /\ Up(r) = Up(s) /\ Self(r) = Self(s)
    BY <1>3, <1>4, Constants, ImageIs
  <1>6. /\ name = DotDot => /\ Up(r) = [Up(s) EXCEPT ![d] = x]
                            /\ Table(r) = Table(s) /\ Self(r) = Self(s)
        /\ name = Dot => /\ Self(r) = [Self(s) EXCEPT ![d] = x]
                         /\ Table(r) = Table(s) /\ Up(r) = Up(s)
    <2>1. name \notin Names => \A q \in Slot : q # <<d, name>>
      BY <1>2
    <2>2. /\ Table(r) \in [Slot -> Inodes \cup {0}] /\ Table(s) \in [Slot -> Inodes \cup {0}]
          /\ Up(r) \in [Inodes -> Inodes \cup {0}] /\ Self(r) \in [Inodes -> Inodes \cup {0}]
          /\ Up(s) \in [Inodes -> Inodes \cup {0}] /\ Self(s) \in [Inodes -> Inodes \cup {0}]
      BY ImageIs
    <2>3. name \notin Names => Table(r) = Table(s)
      BY <1>3, <2>1, <2>2
    <2>4. ASSUME name = DotDot PROVE Up(r) = [Up(s) EXCEPT ![d] = x] /\ Self(r) = Self(s)
      <3>1. \A e \in Inodes : Up(r)[e] = (IF e = d THEN x ELSE Up(s)[e]) /\ Self(r)[e] = Self(s)[e]
        BY <1>4, <2>4, Constants
      <3> QED
        BY <2>2, <3>1
    <2>5. ASSUME name = Dot PROVE Self(r) = [Self(s) EXCEPT ![d] = x] /\ Up(r) = Up(s)
      <3>1. \A e \in Inodes : Self(r)[e] = (IF e = d THEN x ELSE Self(s)[e]) /\ Up(r)[e] = Up(s)[e]
        BY <1>4, <2>5, Constants
      <3> QED
        BY <2>2, <3>1
    <2> QED
      BY <2>3, <2>4, <2>5, Constants
  <1>7. Typed(s) => Typed(r)
    <2>1. \A i \in Inodes : r.node[i].type = s.node[i].type
      BY DEF Type
    <2>2. \A e \in Inodes : \A n \in DOMAIN s.ent[e] : s.ent[e][n].ino \in Inodes
      BY ImageIs, MapIs DEF Entry
    <2> SUFFICES ASSUME Typed(s), NEW e \in Inodes, NEW n \in DOMAIN r.ent[e]
                 PROVE  r.ent[e][n].type = r.node[r.ent[e][n].ino].type
      BY DEF Typed
    <2>3. CASE e = d /\ n = name
      BY <2>1, <2>3 DEF Puts
    <2>4. CASE ~(e = d /\ n = name)
      <3>1. n \in DOMAIN s.ent[e] /\ r.ent[e][n] = s.ent[e][n]
        BY <2>4 DEF Puts
      <3>2. s.ent[e][n].type = s.node[s.ent[e][n].ino].type
        BY <3>1 DEF Typed
      <3> QED
        BY <2>1, <2>2, <3>1, <3>2
    <2> QED
      BY <2>3, <2>4
  <1> QED
    BY <1>5, <1>6, <1>7 DEF Views

-----------------------------------------------------------------------------
(* The tree, as the views tell it. *)

\* What the link counts are for: names can be counted, and no count wraps.
NamesFitLinks ==
    /\ Journaled /\ IsFiniteSet(Inodes) /\ IsFiniteSet(Names)
    /\ Cardinality(Slot) < LinkSpan /\ Cardinality(Names) + 2 < LinkSpan

\* The names of an inode, the subdirectories of a directory, and their number.
Slots(t, i)   == {q \in Slot : t[q] = i}
IsSub(T, x)   == x # 0 /\ T[x] = "dir"
Kids(T, t, d) == {n \in Names : IsSub(T, t[<<d, n>>])}
Count(t, i)   == Cardinality(Slots(t, i))
Subs(T, t, d) == Cardinality(Kids(T, t, d))

\* What the views are.
Typings == [Inodes -> AnyType]
Counts  == [Inodes -> Nat]
Tables  == [Slot -> Inodes \cup {0}]
Ups     == [Inodes -> Inodes \cup {0}]

\* There are finitely many names of anything, and fewer than links_count holds.
LEMMA Finite ==
    ASSUME NamesFitLinks
    PROVE  /\ IsFiniteSet(Slot)
           /\ \A t, i : IsFiniteSet(Slots(t, i)) /\ Count(t, i) \in 0 .. LinkSpan - 1
           /\ \A T, t, d : /\ IsFiniteSet(Kids(T, t, d))
                           /\ Subs(T, t, d) \in Nat /\ Subs(T, t, d) + 2 < LinkSpan
  <1>1. IsFiniteSet(Slot)
    BY FS_Product DEF NamesFitLinks, Slot
  <1>2. ASSUME NEW t, NEW i PROVE IsFiniteSet(Slots(t, i)) /\ Count(t, i) \in 0 .. LinkSpan - 1
    <2>1. Slots(t, i) \in SUBSET Slot
      BY DEF Slots
    <2>2. IsFiniteSet(Slots(t, i)) /\ Cardinality(Slots(t, i)) <= Cardinality(Slot)
      BY <1>1, <2>1, FS_Subset
    <2>3. Cardinality(Slots(t, i)) \in Nat /\ Cardinality(Slot) \in Nat
      BY <1>1, <2>2, FS_CardinalityType
    <2> QED
      BY <2>2, <2>3, Constants DEF Count, NamesFitLinks
  <1>3. ASSUME NEW T, NEW t, NEW d
        PROVE  IsFiniteSet(Kids(T, t, d)) /\ Subs(T, t, d) \in Nat /\ Subs(T, t, d) + 2 < LinkSpan
    <2>1. Kids(T, t, d) \in SUBSET Names
      BY DEF Kids
    <2>2. IsFiniteSet(Kids(T, t, d)) /\ Cardinality(Kids(T, t, d)) <= Cardinality(Names)
      BY <2>1, FS_Subset DEF NamesFitLinks
    <2>3. Cardinality(Kids(T, t, d)) \in Nat /\ Cardinality(Names) \in Nat
      BY <2>2, FS_CardinalityType DEF NamesFitLinks
    <2> QED
      BY <2>2, <2>3, Constants DEF Subs, NamesFitLinks
  <1> QED
    BY <1>1, <1>2, <1>3

\* One slot changes: p names x.
Sets(t, r, p, x) == r \in Tables /\ r[p] = x /\ \A q \in Slot : q # p => r[q] = t[q]

\* What that does to the counts.
Counted(T, t, r, p, x) ==
    /\ \A i \in Inodes :
          Count(r, i) = Count(t, i) - (IF t[p] = i THEN 1 ELSE 0) + (IF x = i THEN 1 ELSE 0)
    /\ \A d \in Inodes : d # p[1] => Subs(T, r, d) = Subs(T, t, d)
    /\ Subs(T, r, p[1]) = Subs(T, t, p[1]) - (IF IsSub(T, t[p]) THEN 1 ELSE 0)
                                          + (IF IsSub(T, x) THEN 1 ELSE 0)

\* A slot that is set moves one count from the old target to the new.
LEMMA SlotCounts ==
    ASSUME NamesFitLinks, NEW T, NEW t \in Tables, NEW p \in Slot, NEW x \in Inodes \cup {0},
           NEW r, Sets(t, r, p, x)
    PROVE  Counted(T, t, r, p, x)
  <1>0. /\ r \in Tables /\ r[p] = x /\ \A q \in Slot : q # p => r[q] = t[q]
        /\ p = <<p[1], p[2]>> /\ p[1] \in Inodes /\ p[2] \in Names
    BY DEF Tables, Slot, Sets
  <1>1. ASSUME NEW i \in Inodes
        PROVE  Count(r, i) = Count(t, i) - (IF t[p] = i THEN 1 ELSE 0) + (IF x = i THEN 1 ELSE 0)
    <2>1. /\ x = i => Slots(r, i) = Slots(t, i) \cup {p}
          /\ x # i => Slots(r, i) = Slots(t, i) \ {p}
      BY <1>0 DEF Slots
    <2>2. p \in Slots(t, i) <=> t[p] = i
      BY DEF Slots
    <2>3. IsFiniteSet(Slots(t, i)) /\ Cardinality(Slots(t, i)) \in Nat
      BY Finite, FS_CardinalityType
    <2>4. CASE x = i
      <3>1. Cardinality(Slots(r, i)) = IF t[p] = i THEN Cardinality(Slots(t, i)) ELSE Cardinality(Slots(t, i)) + 1
        BY <2>1, <2>2, <2>3, <2>4, FS_AddElement
      <3> QED
        BY <2>3, <2>4, <3>1 DEF Count
    <2>5. CASE x # i
      <3>1. Cardinality(Slots(r, i)) = IF t[p] = i THEN Cardinality(Slots(t, i)) - 1 ELSE Cardinality(Slots(t, i))
        BY <2>1, <2>2, <2>3, <2>5, FS_RemoveElement
      <3> QED
        BY <2>3, <2>5, <3>1 DEF Count
    <2> QED
      BY <2>4, <2>5
  <1>2. ASSUME NEW d \in Inodes, d # p[1]
        PROVE  Subs(T, r, d) = Subs(T, t, d)
    <2>1. \A n \in Names : <<d, n>> \in Slot /\ <<d, n>> # p
      BY <1>0, <1>2 DEF Slot
    <2>2. Kids(T, r, d) = Kids(T, t, d)
      BY <1>0, <2>1 DEF Kids
    <2> QED
      BY <2>2 DEF Subs
  <1>3. Subs(T, r, p[1]) = Subs(T, t, p[1]) - (IF IsSub(T, t[p]) THEN 1 ELSE 0)
                                          + (IF IsSub(T, x) THEN 1 ELSE 0)
    <2> DEFINE d == p[1]
               n == p[2]
    <2>0. \A m \in Names : /\ <<d, m>> \in Slot /\ (m # n => <<d, m>> # p)
      BY <1>0 DEF Slot
    <2>1. /\ IsSub(T, x) => Kids(T, r, d) = Kids(T, t, d) \cup {n}
          /\ ~IsSub(T, x) => Kids(T, r, d) = Kids(T, t, d) \ {n}
      <3>1. \A m \in Names : m # n => r[<<d, m>>] = t[<<d, m>>]
        BY <1>0, <2>0
      <3>2. r[<<d, n>>] = x
        BY <1>0
      <3> QED
        BY <1>0, <3>1, <3>2 DEF Kids
    <2>2. n \in Kids(T, t, d) <=> IsSub(T, t[p])
      BY <1>0 DEF Kids
    <2>3. IsFiniteSet(Kids(T, t, d)) /\ Cardinality(Kids(T, t, d)) \in Nat
      BY Finite, FS_CardinalityType
    <2> HIDE DEF d, n
    <2>4. CASE IsSub(T, x)
      <3>1. Cardinality(Kids(T, r, d)) =
                IF IsSub(T, t[p]) THEN Cardinality(Kids(T, t, d)) ELSE Cardinality(Kids(T, t, d)) + 1
        BY <2>1, <2>2, <2>3, <2>4, FS_AddElement
      <3>2. Subs(T, r, d) = Subs(T, t, d) - (IF IsSub(T, t[p]) THEN 1 ELSE 0) + 1
        BY <2>3, <3>1 DEF Subs
      <3> QED
        BY <2>4, <3>2 DEF d
    <2>5. CASE ~IsSub(T, x)
      <3>1. Cardinality(Kids(T, r, d)) =
                IF IsSub(T, t[p]) THEN Cardinality(Kids(T, t, d)) - 1 ELSE Cardinality(Kids(T, t, d))
        BY <2>1, <2>2, <2>3, <2>5, FS_RemoveElement
      <3>2. Subs(T, r, d) = Subs(T, t, d) - (IF IsSub(T, t[p]) THEN 1 ELSE 0) + 0
        BY <2>3, <3>1 DEF Subs
      <3> QED
        BY <2>5, <3>2 DEF d
    <2> QED
      BY <2>4, <2>5
  <1> QED
    BY <1>0, <1>1, <1>2, <1>3 DEF Counted

\* A name leads from a directory to an inode in use that is not the root.
Leads(T, t) ==
    \A q \in Slot : t[q] # 0 => T[q[1]] = "dir" /\ T[t[q]] # "none" /\ t[q] # Root

\* A directory besides the root has one name, and ".." is where it is.
OneName(T, t, u) ==
    \A i \in Inodes \ {Root} : T[i] = "dir" =>
        \E q \in Slot : t[q] = i /\ u[i] = q[1] /\ \A o \in Slot : t[o] = i => o = q

\* The dots of a directory.
Dots(T, u, f) ==
    /\ T[Root] = "dir" /\ u[Root] = Root
    /\ \A i \in Inodes : IF T[i] = "dir" THEN f[i] = i ELSE f[i] = 0 /\ u[i] = 0

\* The link counts.
Linked(T, L, t) ==
    \A i \in Inodes : L[i] = IF T[i] = "dir" THEN 2 + Subs(T, t, i)
                             ELSE IF T[i] = "none" THEN 0 ELSE Count(t, i)

\* What makes a tree of five views.
Tree(T, L, t, u, f) ==
    /\ T \in Typings /\ L \in Counts /\ t \in Tables /\ u \in Ups /\ f \in Ups
    /\ Leads(T, t) /\ OneName(T, t, u) /\ Dots(T, u, f) /\ Linked(T, L, t)

\* An inode changes its type: subdirectories are counted as before where no
\* name leads to it.
LEMMA SubsKept ==
    ASSUME NEW T, NEW R, NEW t \in Tables, NEW d \in Inodes,
           \A n \in Names : t[<<d, n>>] # 0 => R[t[<<d, n>>]] = T[t[<<d, n>>]]
    PROVE  Subs(R, t, d) = Subs(T, t, d)
  <1>1. Kids(R, t, d) = Kids(T, t, d)
    BY DEF Kids, IsSub
  <1> QED
    BY <1>1 DEF Subs

\* Slots are pairs of a directory and a name.
LEMMA SlotIs ==
    /\ \A q \in Slot : q = <<q[1], q[2]>> /\ q[1] \in Inodes /\ q[2] \in Names
    /\ \A d \in Inodes, n \in Names : <<d, n>> \in Slot /\ <<d, n>>[1] = d /\ <<d, n>>[2] = n
  BY DEF Slot

\* No name, no count; a name, a count.
LEMMA CountIs ==
    ASSUME NamesFitLinks, NEW t \in Tables, NEW i \in Inodes
    PROVE  /\ (\A q \in Slot : t[q] # i) <=> Count(t, i) = 0
           /\ \A q \in Slot : t[q] = i /\ Count(t, i) = 1 => \A o \in Slot : t[o] = i => o = q
  <1>1. IsFiniteSet(Slots(t, i))
    BY Finite
  <1>2. Count(t, i) = 0 <=> Slots(t, i) = {}
    BY <1>1, FS_EmptySet DEF Count
  <1>3. Count(t, i) = 1 => \E x : Slots(t, i) = {x}
    BY <1>1, FS_Singleton DEF Count
  <1> QED
    BY <1>2, <1>3 DEF Slots

\* An inode that is not in use becomes a file.
WithFile(T, L, t, u, f, i, x) == Tree([T EXCEPT ![i] = x], [L EXCEPT ![i] = 0], t, u, f)

LEMMA TreeNewFile ==
    ASSUME NamesFitLinks, NEW T, NEW L, NEW t, NEW u, NEW f, Tree(T, L, t, u, f),
           NEW i \in Inodes, T[i] = "none", NEW x \in Types \ {"dir"}
    PROVE  WithFile(T, L, t, u, f, i, x)
  <1> DEFINE R == [T EXCEPT ![i] = x]
             M == [L EXCEPT ![i] = 0]
  <1>1. T \in Typings /\ L \in Counts /\ t \in Tables /\ u \in Ups /\ f \in Ups
    BY DEF Tree
  <1>2. R \in Typings /\ M \in Counts /\ x # "none" /\ x # "dir"
    BY <1>1, Constants DEF Typings, Counts, AnyType
  <1>3. /\ R[i] = x /\ \A j \in Inodes \ {i} : R[j] = T[j]
        /\ M[i] = 0 /\ \A j \in Inodes \ {i} : M[j] = L[j]
    BY <1>1 DEF Typings, Counts
  <1> HIDE DEF R, M
  <1>4. \A q \in Slot : t[q] # i /\ t[q] \in Inodes \cup {0}
    BY <1>1, Constants DEF Tree, Leads, Tables
  <1>5. Leads(R, t)
    BY <1>3, <1>4, SlotIs DEF Tree, Leads
  <1>6. OneName(R, t, u)
    BY <1>2, <1>3 DEF Tree, OneName
  <1>7. Dots(R, u, f)
    BY <1>2, <1>3, Constants DEF Tree, Dots
  <1>8. Linked(R, M, t)
    <2>1. ASSUME NEW d \in Inodes PROVE Subs(R, t, d) = Subs(T, t, d)
      <3>1. \A n \in Names : t[<<d, n>>] # 0 => R[t[<<d, n>>]] = T[t[<<d, n>>]]
        BY <1>3, <1>4, SlotIs
      <3> QED
        BY <1>1, <3>1, SubsKept
    <2>2. Count(t, i) = 0
      BY <1>1, <1>4, CountIs
    <2> QED
      BY <1>2, <1>3, <2>1, <2>2 DEF Tree, Linked
  <1> QED
    BY <1>1, <1>2, <1>5, <1>6, <1>7, <1>8 DEF Tree, R, M, WithFile

\* A file gets a name.
LEMMA TreeAddName ==
    ASSUME NamesFitLinks, NEW T, NEW L, NEW t, NEW u, NEW f, Tree(T, L, t, u, f),
           NEW i \in Inodes, T[i] \notin {"none", "dir"}, NEW q \in Slot, T[q[1]] = "dir", t[q] = 0
    PROVE  Tree(T, [L EXCEPT ![i] = @ + 1], [t EXCEPT ![q] = i], u, f)
  <1> DEFINE M == [L EXCEPT ![i] = @ + 1]
             r == [t EXCEPT ![q] = i]
  <1>1. T \in Typings /\ L \in Counts /\ t \in Tables /\ u \in Ups /\ f \in Ups
    BY DEF Tree
  <1>2. M \in Counts /\ M[i] = L[i] + 1 /\ \A j \in Inodes \ {i} : M[j] = L[j]
    BY <1>1 DEF Counts
  <1>3. /\ r \in Tables /\ r[q] = i /\ \A o \in Slot : o # q => r[o] = t[o]
        /\ Sets(t, r, q, i)
    BY <1>1 DEF Tables, Sets
  <1> HIDE DEF M, r
  <1>4. /\ \A j \in Inodes : Count(r, j) = Count(t, j) + (IF i = j THEN 1 ELSE 0)
        /\ \A d \in Inodes : Subs(T, r, d) = Subs(T, t, d)
    <2>1. Counted(T, t, r, q, i)
      BY <1>1, <1>3, SlotCounts
    <2>2. \A j \in Inodes : Count(t, j) \in Nat /\ Subs(T, t, j) \in Nat
      BY Finite, Constants
    <2>3. ~IsSub(T, t[q]) /\ ~IsSub(T, i) /\ \A j \in Inodes : t[q] # j
      BY Constants DEF IsSub
    <2> QED
      <3>1. ASSUME NEW j \in Inodes PROVE Count(r, j) = Count(t, j) + (IF i = j THEN 1 ELSE 0)
        BY <2>1, <2>2, <2>3 DEF Counted
      <3>2. ASSUME NEW d \in Inodes PROVE Subs(T, r, d) = Subs(T, t, d)
        BY <2>1, <2>2, <2>3 DEF Counted
      <3> QED
        BY <3>1, <3>2
  <1>5. Leads(T, r)
    <2>1. i # 0 /\ i # Root
      BY Constants DEF Tree, Dots
    <2> QED
      BY <1>3, <2>1 DEF Tree, Leads
  <1>6. OneName(T, r, u)
    <2> SUFFICES ASSUME NEW j \in Inodes \ {Root}, T[j] = "dir"
                 PROVE  \E p \in Slot : r[p] = j /\ u[j] = p[1] /\ \A o \in Slot : r[o] = j => o = p
      BY DEF OneName
    <2>1. PICK p \in Slot : t[p] = j /\ u[j] = p[1] /\ \A o \in Slot : t[o] = j => o = p
      BY DEF Tree, OneName
    <2>2. p # q /\ i # j
      BY <2>1, Constants
    <2> QED
      BY <1>3, <2>1, <2>2
  <1>8. Linked(T, M, r)
    <2>1. \A j \in Inodes : Count(t, j) \in Nat
      BY Finite, Constants
    <2> QED
      BY <1>2, <1>4, <2>1 DEF Tree, Linked
  <1> QED
    BY <1>1, <1>2, <1>3, <1>5, <1>6, <1>8 DEF Tree, M, r

\* A file loses a name.
LEMMA TreeDropName ==
    ASSUME NamesFitLinks, NEW T, NEW L, NEW t, NEW u, NEW f, Tree(T, L, t, u, f),
           NEW q \in Slot, NEW i \in Inodes, t[q] = i, T[i] # "dir"
    PROVE  /\ L[i] # 0 /\ L[i] = Count(t, i)
           /\ Tree(T, [L EXCEPT ![i] = @ - 1], [t EXCEPT ![q] = 0], u, f)
  <1> DEFINE M == [L EXCEPT ![i] = @ - 1]
             r == [t EXCEPT ![q] = 0]
  <1>1. T \in Typings /\ L \in Counts /\ t \in Tables /\ u \in Ups /\ f \in Ups
    BY DEF Tree
  <1>2. L[i] = Count(t, i) /\ Count(t, i) # 0 /\ L[i] \in Nat
    <2>1. i # 0 /\ T[i] # "none"
      BY Constants DEF Tree, Leads
    <2> QED
      BY <1>1, <2>1, CountIs DEF Tree, Linked, Counts
  <1>3. M \in Counts /\ M[i] = L[i] - 1 /\ \A j \in Inodes \ {i} : M[j] = L[j]
    BY <1>1, <1>2 DEF Counts
  <1>4. /\ r \in Tables /\ r[q] = 0 /\ \A o \in Slot : o # q => r[o] = t[o]
        /\ Sets(t, r, q, 0)
    BY <1>1 DEF Tables, Sets
  <1> HIDE DEF M, r
  <1>5. /\ \A j \in Inodes : Count(r, j) = Count(t, j) - (IF i = j THEN 1 ELSE 0)
        /\ \A d \in Inodes : Subs(T, r, d) = Subs(T, t, d)
    <2>1. Counted(T, t, r, q, 0)
      BY <1>1, <1>4, SlotCounts
    <2>2. \A j \in Inodes : Count(t, j) \in Nat /\ Subs(T, t, j) \in Nat
      BY Finite, Constants
    <2>3. ~IsSub(T, t[q]) /\ ~IsSub(T, 0) /\ \A j \in Inodes : j # 0
      BY Constants DEF IsSub
    <2>4. ASSUME NEW j \in Inodes PROVE Count(r, j) = Count(t, j) - (IF i = j THEN 1 ELSE 0)
      BY <2>1, <2>2, <2>3 DEF Counted
    <2>5. ASSUME NEW d \in Inodes PROVE Subs(T, r, d) = Subs(T, t, d)
      BY <2>1, <2>2, <2>3 DEF Counted
    <2> QED
      BY <2>4, <2>5
  <1>6. Leads(T, r)
    BY <1>4 DEF Tree, Leads
  <1>7. OneName(T, r, u)
    <2> SUFFICES ASSUME NEW j \in Inodes \ {Root}, T[j] = "dir"
                 PROVE  \E p \in Slot : r[p] = j /\ u[j] = p[1] /\ \A o \in Slot : r[o] = j => o = p
      BY DEF OneName
    <2>1. PICK p \in Slot : t[p] = j /\ u[j] = p[1] /\ \A o \in Slot : t[o] = j => o = p
      BY DEF Tree, OneName
    <2>2. p # q /\ j # 0
      BY <2>1, Constants
    <2> QED
      BY <1>4, <2>1, <2>2
  <1>8. Linked(T, M, r)
    <2>1. \A j \in Inodes : Count(t, j) \in Nat
      BY Finite, Constants
    <2>2. T[i] # "none"
      BY Constants DEF Tree, Leads
    <2> QED
      BY <1>2, <1>3, <1>5, <2>1, <2>2 DEF Tree, Linked
  <1> QED
    BY <1>1, <1>2, <1>3, <1>4, <1>6, <1>7, <1>8 DEF Tree, M, r

\* A file without a name is freed.
LEMMA TreeFree ==
    ASSUME NamesFitLinks, NEW T, NEW L, NEW t, NEW u, NEW f, Tree(T, L, t, u, f),
           NEW i \in Inodes, T[i] # "dir", L[i] = 0
    PROVE  Tree([T EXCEPT ![i] = "none"], L, t, u, f)
  <1> DEFINE R == [T EXCEPT ![i] = "none"]
  <1>1. T \in Typings /\ L \in Counts /\ t \in Tables /\ u \in Ups /\ f \in Ups
    BY DEF Tree
  <1>2. R \in Typings /\ R[i] = "none" /\ \A j \in Inodes \ {i} : R[j] = T[j]
    BY <1>1 DEF Typings, AnyType
  <1> HIDE DEF R
  <1>3. \A q \in Slot : t[q] # i /\ t[q] \in Inodes \cup {0}
    <2>1. CASE T[i] = "none"
      BY <1>1, <2>1, Constants DEF Tree, Leads, Tables
    <2>2. CASE T[i] # "none"
      <3>1. Count(t, i) = 0
        BY <2>2 DEF Tree, Linked
      <3> QED
        BY <1>1, <3>1, CountIs DEF Tables
    <2> QED
      BY <2>1, <2>2
  <1>4. Leads(R, t)
    BY <1>2, <1>3, SlotIs DEF Tree, Leads
  <1>5. OneName(R, t, u)
    BY <1>2 DEF Tree, OneName
  <1>6. Dots(R, u, f)
    BY <1>2, Constants DEF Tree, Dots
  <1>7. Linked(R, L, t)
    <2>1. ASSUME NEW d \in Inodes PROVE Subs(R, t, d) = Subs(T, t, d)
      <3>1. \A n \in Names : t[<<d, n>>] # 0 => R[t[<<d, n>>]] = T[t[<<d, n>>]]
        BY <1>2, <1>3, SlotIs
      <3> QED
        BY <1>1, <3>1, SubsKept
    <2> QED
      BY <1>2, <2>1 DEF Tree, Linked
  <1> QED
    BY <1>1, <1>2, <1>4, <1>5, <1>6, <1>7 DEF Tree, R

\* An inode that is not in use becomes a directory.
WithDir(T, L, t, u, f, i, q) ==
    Tree([T EXCEPT ![i] = "dir"], [L EXCEPT ![i] = 2, ![q[1]] = @ + 1],
         [t EXCEPT ![q] = i], [u EXCEPT ![i] = q[1]], [f EXCEPT ![i] = i])

LEMMA TreeNewDir ==
    ASSUME NamesFitLinks, NEW T, NEW L, NEW t, NEW u, NEW f, Tree(T, L, t, u, f),
           NEW i \in Inodes, T[i] = "none", NEW q \in Slot, T[q[1]] = "dir", t[q] = 0
    PROVE  WithDir(T, L, t, u, f, i, q)
  <1> DEFINE d == q[1]
             R == [T EXCEPT ![i] = "dir"]
             M == [L EXCEPT ![i] = 2, ![d] = @ + 1]
             r == [t EXCEPT ![q] = i]
             v == [u EXCEPT ![i] = d]
             g == [f EXCEPT ![i] = i]
  <1>1. T \in Typings /\ L \in Counts /\ t \in Tables /\ u \in Ups /\ f \in Ups
    BY DEF Tree
  <1>0. d \in Inodes /\ d # i /\ i # Root /\ i # 0
    BY SlotIs, Constants DEF Tree, Dots
  <1>2. R \in Typings /\ R[i] = "dir" /\ \A j \in Inodes \ {i} : R[j] = T[j]
    BY <1>1 DEF Typings, AnyType, Types
  <1>3. M \in Counts /\ M[i] = 2 /\ M[d] = L[d] + 1 /\ \A j \in Inodes \ {i, d} : M[j] = L[j]
    BY <1>0, <1>1 DEF Counts
  <1>4. /\ r \in Tables /\ r[q] = i /\ \A o \in Slot : o # q => r[o] = t[o]
        /\ Sets(t, r, q, i)
    BY <1>1 DEF Tables, Sets
  <1>5. /\ v \in Ups /\ v[i] = d /\ \A j \in Inodes \ {i} : v[j] = u[j]
        /\ g \in Ups /\ g[i] = i /\ \A j \in Inodes \ {i} : g[j] = f[j]
    BY <1>0, <1>1 DEF Ups
  <1> HIDE DEF d, R, M, r, v, g
  <1>6. /\ \A o \in Slot : t[o] # i /\ t[o] \in Inodes \cup {0}
        /\ \A n \in Names : t[<<i, n>>] = 0
    BY <1>0, <1>1, SlotIs DEF Tree, Leads, Tables
  <1>7. Leads(R, r)
    BY <1>0, <1>2, <1>4, <1>6, SlotIs DEF Tree, Leads, d
  <1>8. OneName(R, r, v)
    <2> SUFFICES ASSUME NEW j \in Inodes \ {Root}, R[j] = "dir"
                 PROVE  \E p \in Slot : r[p] = j /\ v[j] = p[1] /\ \A o \in Slot : r[o] = j => o = p
      BY DEF OneName
    <2>1. CASE j = i
      BY <1>4, <1>5, <1>6, <2>1 DEF d
    <2>2. CASE j # i
      <3>1. T[j] = "dir"
        BY <1>2, <2>2
      <3>2. PICK p \in Slot : t[p] = j /\ u[j] = p[1] /\ \A o \in Slot : t[o] = j => o = p
        BY <3>1 DEF Tree, OneName
      <3>3. p # q /\ j # 0
        BY <3>2, Constants
      <3> QED
        BY <1>4, <1>5, <2>2, <3>2, <3>3
    <2> QED
      BY <2>1, <2>2
  <1>9. Dots(R, v, g)
    BY <1>0, <1>2, <1>5, Constants DEF Tree, Dots
  <1>10. Linked(R, M, r)
    <2>1. Counted(R, t, r, q, i)
      BY <1>1, <1>4, SlotCounts
    <2>2. \A j \in Inodes : Count(t, j) \in Nat /\ Subs(T, t, j) \in Nat /\ Subs(R, t, j) \in Nat
      BY Finite, Constants
    <2>3. ASSUME NEW j \in Inodes PROVE Subs(R, t, j) = Subs(T, t, j)
      <3>1. \A n \in Names : t[<<j, n>>] # 0 => R[t[<<j, n>>]] = T[t[<<j, n>>]]
        BY <1>2, <1>6, SlotIs
      <3> QED
        BY <1>1, <3>1, SubsKept
    <2>4. Subs(T, t, i) = 0
      <3>1. Kids(T, t, i) = {}
        BY <1>6 DEF Kids, IsSub
      <3> QED
        BY <3>1, FS_EmptySet DEF Subs
    <2>5. ~IsSub(R, t[q]) /\ IsSub(R, i) /\ t[q] \notin Inodes
      BY <1>0, <1>2, Constants DEF IsSub
    <2>6. \A j \in Inodes : Subs(R, r, j) = Subs(T, t, j) + (IF j = d THEN 1 ELSE 0)
      BY <2>1, <2>2, <2>3, <2>5 DEF Counted, d
    <2>7. \A j \in Inodes \ {i} : Count(r, j) = Count(t, j)
      BY <2>1, <2>2, <2>5 DEF Counted
    <2>8. \A j \in Inodes : L[j] = IF T[j] = "dir" THEN 2 + Subs(T, t, j)
                                   ELSE IF T[j] = "none" THEN 0 ELSE Count(t, j)
      BY DEF Tree, Linked
    <2>9. T[d] = "dir"
      BY DEF d
    <2> QED
      BY <1>0, <1>2, <1>3, <2>2, <2>4, <2>6, <2>7, <2>8, <2>9 DEF Linked
  <1> QED
    BY <1>2, <1>3, <1>4, <1>5, <1>7, <1>8, <1>9, <1>10 DEF Tree, WithDir, d, R, M, r, v, g

\* An empty directory is removed.
LEMMA TreeDropDir ==
    ASSUME NamesFitLinks, NEW T, NEW L, NEW t, NEW u, NEW f, Tree(T, L, t, u, f),
           NEW q \in Slot, NEW i \in Inodes, t[q] = i, T[i] = "dir",
           \A n \in Names : t[<<i, n>>] = 0
    PROVE  /\ i # q[1] /\ L[q[1]] # 0 /\ Count(t, i) = 1
           /\ Tree([T EXCEPT ![i] = "none"], [L EXCEPT ![i] = 0, ![q[1]] = @ - 1],
                   [t EXCEPT ![q] = 0], [u EXCEPT ![i] = 0], [f EXCEPT ![i] = 0])
  <1> DEFINE d == q[1]
             R == [T EXCEPT ![i] = "none"]
             M == [L EXCEPT ![i] = 0, ![d] = @ - 1]
             r == [t EXCEPT ![q] = 0]
             v == [u EXCEPT ![i] = 0]
             g == [f EXCEPT ![i] = 0]
  <1>1. T \in Typings /\ L \in Counts /\ t \in Tables /\ u \in Ups /\ f \in Ups
    BY DEF Tree
  <1>0. d \in Inodes /\ d # i /\ i # Root /\ i # 0 /\ T[d] = "dir"
    BY SlotIs, Constants DEF Tree, Leads
  <1>6. \A o \in Slot : t[o] = i => o = q
    BY <1>0 DEF Tree, OneName
  <1>11. \A j \in Inodes : L[j] = IF T[j] = "dir" THEN 2 + Subs(T, t, j)
                                  ELSE IF T[j] = "none" THEN 0 ELSE Count(t, j)
    BY DEF Tree, Linked
  <1>12. \A j \in Inodes : Count(t, j) \in Nat /\ Subs(T, t, j) \in Nat
    BY Finite, Constants
  <1>13. L[d] = 2 + Subs(T, t, d) /\ L[d] \in Nat
    BY <1>0, <1>11, <1>12
  <1>14. Count(t, i) = 1
    <2>1. Slots(t, i) = {q}
      BY <1>6 DEF Slots
    <2> QED
      BY <2>1, FS_Singleton DEF Count
  <1>2. R \in Typings /\ R[i] = "none" /\ \A j \in Inodes \ {i} : R[j] = T[j]
    BY <1>1 DEF Typings, AnyType
  <1>3. M \in Counts /\ M[i] = 0 /\ M[d] = L[d] - 1 /\ \A j \in Inodes \ {i, d} : M[j] = L[j]
    BY <1>0, <1>1, <1>12, <1>13 DEF Counts
  <1>4. /\ r \in Tables /\ r[q] = 0 /\ \A o \in Slot : o # q => r[o] = t[o]
        /\ Sets(t, r, q, 0)
    BY <1>1 DEF Tables, Sets
  <1>5. /\ v \in Ups /\ v[i] = 0 /\ \A j \in Inodes \ {i} : v[j] = u[j]
        /\ g \in Ups /\ g[i] = 0 /\ \A j \in Inodes \ {i} : g[j] = f[j]
    BY <1>0, <1>1 DEF Ups
  <1> HIDE DEF R, M, r, v, g
  <1>7. Leads(R, r)
    <2> SUFFICES ASSUME NEW o \in Slot, r[o] # 0
                 PROVE  R[o[1]] = "dir" /\ R[r[o]] # "none" /\ r[o] # Root
      BY DEF Leads
    <2>1. o # q /\ r[o] = t[o] /\ t[o] # i /\ t[o] \in Inodes
      BY <1>1, <1>4, <1>6 DEF Tables
    <2>2. o[1] # i /\ o[1] \in Inodes
      BY <2>1, SlotIs
    <2> QED
      BY <1>2, <2>1, <2>2 DEF Tree, Leads
  <1>8. OneName(R, r, v)
    <2> SUFFICES ASSUME NEW j \in Inodes \ {Root}, R[j] = "dir"
                 PROVE  \E p \in Slot : r[p] = j /\ v[j] = p[1] /\ \A o \in Slot : r[o] = j => o = p
      BY DEF OneName
    <2>1. j # i /\ T[j] = "dir" /\ j # 0
      BY <1>2, Constants
    <2>2. PICK p \in Slot : t[p] = j /\ u[j] = p[1] /\ \A o \in Slot : t[o] = j => o = p
      BY <2>1 DEF Tree, OneName
    <2>3. p # q
      BY <2>1, <2>2
    <2> QED
      BY <1>4, <1>5, <2>1, <2>2, <2>3
  <1>9. Dots(R, v, g)
    BY <1>0, <1>2, <1>5, Constants DEF Tree, Dots
  <1>10. Linked(R, M, r)
    <2>1. Counted(T, t, r, q, 0)
      BY <1>1, <1>4, SlotCounts
    <2>2. \A o \in Slot : r[o] # i /\ r[o] \in Inodes \cup {0}
      BY <1>0, <1>4, <1>6 DEF Tables
    <2>3. ASSUME NEW j \in Inodes PROVE Subs(R, r, j) = Subs(T, r, j)
      <3>1. \A n \in Names : r[<<j, n>>] # 0 => R[r[<<j, n>>]] = T[r[<<j, n>>]]
        BY <1>2, <2>2, SlotIs
      <3> QED
        BY <1>4, <3>1, SubsKept
    <2>5. IsSub(T, t[q]) /\ ~IsSub(T, 0) /\ 0 \notin Inodes
      BY <1>0, Constants DEF IsSub
    <2>6. \A j \in Inodes : Subs(R, r, j) = Subs(T, t, j) - (IF j = d THEN 1 ELSE 0)
      BY <1>12, <2>1, <2>3, <2>5 DEF Counted
    <2>7. \A j \in Inodes \ {i} : Count(r, j) = Count(t, j)
      BY <1>12, <2>1, <2>5 DEF Counted
    <2> QED
      BY <1>0, <1>2, <1>3, <1>11, <1>12, <2>6, <2>7 DEF Linked
  <1>15. Tree(R, M, r, v, g)
    BY <1>2, <1>3, <1>4, <1>5, <1>7, <1>8, <1>9, <1>10 DEF Tree
  <1>16. i # q[1] /\ L[q[1]] # 0
    BY <1>0, <1>12, <1>13
  <1> QED
    BY <1>14, <1>15, <1>16 DEF R, M, r, v, g

\* What an exchange of p and q makes of ".." ...
UpsSwap(T, t, u, v, p, q) ==
    \A x \in Inodes : v[x] = IF x = t[p] /\ T[x] = "dir" THEN q[1]
                            ELSE IF x = t[q] /\ T[x] = "dir" THEN p[1] ELSE u[x]

\* ... and of the link counts.
LinksSwap(T, t, L, M, p, q) ==
    \A x \in Inodes : M[x] = L[x] + (IF x = q[1] /\ IsSub(T, t[p]) THEN 1 ELSE 0)
                                 - (IF x = q[1] /\ IsSub(T, t[q]) THEN 1 ELSE 0)
                                 + (IF x = p[1] /\ IsSub(T, t[q]) THEN 1 ELSE 0)
                                 - (IF x = p[1] /\ IsSub(T, t[p]) THEN 1 ELSE 0)

\* Two names exchange what they lead to; the second may lead nowhere before.
LEMMA TreeSwap ==
    ASSUME NamesFitLinks, NEW T, NEW L, NEW t, NEW u, NEW f, Tree(T, L, t, u, f),
           NEW p \in Slot, NEW q \in Slot, p # q, t[p] # 0, t[p] # t[q], T[q[1]] = "dir",
           NEW M \in Counts, NEW v \in Ups, NEW r,
           Sets([t EXCEPT ![p] = t[q]], r, q, t[p]),
           UpsSwap(T, t, u, v, p, q), LinksSwap(T, t, L, M, p, q)
    PROVE  Tree(T, M, r, v, f)
  <1> DEFINE i == t[p]
             j == t[q]
             h == [t EXCEPT ![p] = j]
  <1>1. T \in Typings /\ L \in Counts /\ t \in Tables /\ u \in Ups /\ f \in Ups
    BY DEF Tree
  <1>2. /\ i \in Inodes /\ j \in Inodes \cup {0} /\ i # j /\ i # Root /\ j # Root
        /\ j # 0 => j \in Inodes /\ T[j] # "none"
        /\ T[i] # "none" /\ T[p[1]] = "dir" /\ p[1] \in Inodes /\ q[1] \in Inodes
    BY <1>1, SlotIs, Constants DEF Tree, Leads, Tables
  <1>3. h \in Tables /\ Sets(t, h, p, j) /\ h[q] = j
    BY <1>1, <1>2 DEF Tables, Sets
  <1>4. /\ r \in Tables /\ r[p] = j /\ r[q] = i
        /\ \A o \in Slot \ {p, q} : r[o] = t[o]
        /\ Sets(h, r, q, i)
    BY <1>1, <1>2 DEF Tables, Sets
  <1> HIDE DEF i, j, h
  <1>5. Leads(T, r)
    <2> SUFFICES ASSUME NEW o \in Slot, r[o] # 0
                 PROVE  T[o[1]] = "dir" /\ T[r[o]] # "none" /\ r[o] # Root
      BY DEF Leads
    <2>1. CASE o = p
      BY <1>2, <1>4, <2>1
    <2>2. CASE o = q
      BY <1>2, <1>4, <2>2
    <2>3. CASE o # p /\ o # q
      BY <1>4, <2>3 DEF Tree, Leads
    <2> QED
      BY <2>1, <2>2, <2>3
  <1>6. OneName(T, r, v)
    <2> SUFFICES ASSUME NEW x \in Inodes \ {Root}, T[x] = "dir"
                 PROVE  \E a \in Slot : r[a] = x /\ v[x] = a[1] /\ \A o \in Slot : r[o] = x => o = a
      BY DEF OneName
    <2>0. v[x] = IF x = i THEN q[1] ELSE IF x = j THEN p[1] ELSE u[x]
      BY DEF UpsSwap, i, j
    <2>1. PICK a \in Slot : t[a] = x /\ u[x] = a[1] /\ \A o \in Slot : t[o] = x => o = a
      BY DEF Tree, OneName
    <2>2. CASE x = i
      <3>1. a = p /\ v[x] = q[1]
        BY <2>0, <2>1, <2>2 DEF i
      <3>2. \A o \in Slot : r[o] = x => o = q
        BY <1>2, <1>4, <2>1, <2>2, <3>1
      <3> QED
        BY <1>4, <2>2, <3>1, <3>2
    <2>3. CASE x = j
      <3>1. a = q /\ v[x] = p[1]
        BY <1>2, <2>0, <2>1, <2>3 DEF i, j
      <3>2. \A o \in Slot : r[o] = x => o = p
        BY <1>2, <1>4, <2>1, <2>3, <3>1
      <3> QED
        BY <1>4, <2>3, <3>1, <3>2
    <2>4. CASE x # i /\ x # j
      <3>1. a # p /\ a # q /\ v[x] = u[x]
        BY <2>0, <2>1, <2>4 DEF i, j
      <3> QED
        BY <1>4, <2>1, <2>4, <3>1
    <2> QED
      BY <2>2, <2>3, <2>4
  <1>7. Dots(T, v, f)
    <2>1. v[Root] = u[Root]
      BY <1>2, Constants DEF i, j, UpsSwap
    <2>2. \A x \in Inodes : T[x] # "dir" => v[x] = u[x]
      BY DEF UpsSwap
    <2> QED
      BY <2>1, <2>2 DEF Tree, Dots
  <1>8. Linked(T, M, r)
    <2>1. Counted(T, t, h, p, j) /\ Counted(T, h, r, q, i)
      BY <1>1, <1>2, <1>3, <1>4, SlotCounts
    <2>2. \A x \in Inodes : /\ Count(t, x) \in Nat /\ Count(h, x) \in Nat /\ Count(r, x) \in Nat
                            /\ Subs(T, t, x) \in Nat /\ Subs(T, h, x) \in Nat /\ L[x] \in Nat
      BY <1>1, Finite, Constants DEF Counts
    <2>3. ASSUME NEW x \in Inodes PROVE Count(r, x) = Count(t, x)
      BY <1>3, <2>1, <2>2 DEF Counted, i
    <2>4. ASSUME NEW x \in Inodes
          PROVE  Subs(T, r, x) = Subs(T, t, x) + (IF x = q[1] /\ IsSub(T, i) THEN 1 ELSE 0)
                                               - (IF x = q[1] /\ IsSub(T, j) THEN 1 ELSE 0)
                                               + (IF x = p[1] /\ IsSub(T, j) THEN 1 ELSE 0)
                                               - (IF x = p[1] /\ IsSub(T, i) THEN 1 ELSE 0)
      <3>1. Subs(T, h, x) = Subs(T, t, x) + (IF x = p[1] /\ IsSub(T, j) THEN 1 ELSE 0)
                                          - (IF x = p[1] /\ IsSub(T, i) THEN 1 ELSE 0)
        BY <2>1, <2>2 DEF Counted, i
      <3>2. Subs(T, r, x) = Subs(T, h, x) + (IF x = q[1] /\ IsSub(T, i) THEN 1 ELSE 0)
                                          - (IF x = q[1] /\ IsSub(T, j) THEN 1 ELSE 0)
        BY <1>3, <2>1, <2>2 DEF Counted
      <3> QED
        BY <2>2, <3>1, <3>2
    <2>5. ASSUME NEW x \in Inodes, T[x] # "dir" PROVE M[x] = L[x]
      BY <1>2, <2>2, <2>5 DEF LinksSwap
    <2>6. ASSUME NEW x \in Inodes, T[x] = "dir" PROVE M[x] = 2 + Subs(T, r, x)
      <3>1. L[x] = 2 + Subs(T, t, x)
        BY <2>6 DEF Tree, Linked
      <3> QED
        BY <2>2, <2>4, <3>1 DEF i, j, LinksSwap
    <2> QED
      BY <2>3, <2>5, <2>6 DEF Tree, Linked
  <1> QED
    BY <1>1, <1>4, <1>5, <1>6, <1>7, <1>8 DEF Tree

-----------------------------------------------------------------------------
(* Nothing leads back to itself, and nothing is out of reach. *)

\* The directories of a set, none of them the root, are not all within one another.
NoLoop(T, u) ==
    \A S \in SUBSET (Inodes \ {Root}) :
        S # {} /\ (\A x \in S : T[x] = "dir") => \E x \in S : u[x] \notin S

\* A set of inodes that ".." does not lead out of.
Upper(u, A) == A \in SUBSET Inodes /\ \A x \in A \ {Root} : u[x] \in A

\* No loop comes of directories that go, or get a parent in a set that ".." does
\* not lead out of and that they are not in themselves.
LEMMA NoLoopMoved ==
    ASSUME NEW T, NEW u, NoLoop(T, u), NEW A, Upper(u, A), NEW R, NEW v,
           \A x \in Inodes \ {Root} : R[x] = "dir" =>
               T[x] = "dir" /\ (v[x] = u[x] \/ (v[x] \in A /\ x \notin A))
    PROVE  NoLoop(R, v)
  <1> SUFFICES ASSUME NEW S \in SUBSET (Inodes \ {Root}), S # {}, \A x \in S : R[x] = "dir",
                      \A x \in S : v[x] \in S
               PROVE  FALSE
    BY DEF NoLoop
  <1>1. \A x \in S : T[x] = "dir" /\ (v[x] = u[x] \/ (v[x] \in A /\ x \notin A))
    OBVIOUS
  <1>2. CASE S \cap A = {}
    <2>1. \A x \in S : u[x] \in S
      BY <1>1, <1>2
    <2> QED
      BY <1>1, <2>1 DEF NoLoop
  <1>3. CASE S \cap A # {}
    <2>1. \A x \in S \cap A : u[x] \in S \cap A
      BY <1>1 DEF Upper
    <2>2. S \cap A \in SUBSET (Inodes \ {Root})
      OBVIOUS
    <2> QED
      BY <1>1, <1>3, <2>1, <2>2 DEF NoLoop
  <1> QED
    BY <1>2, <1>3

\* Nor of a new directory that nothing is in.
LEMMA NoLoopNew ==
    ASSUME NEW T \in Typings, NEW u \in Ups, NoLoop(T, u), NEW i \in Inodes, NEW d \in Inodes, i # d,
           \A x \in Inodes : u[x] # i
    PROVE  NoLoop([T EXCEPT ![i] = "dir"], [u EXCEPT ![i] = d])
  <1> DEFINE R == [T EXCEPT ![i] = "dir"]
             v == [u EXCEPT ![i] = d]
  <1>1. /\ v[i] = d
        /\ \A x \in Inodes \ {i} : R[x] = T[x] /\ v[x] = u[x]
    BY DEF Typings, Ups
  <1> HIDE DEF R, v
  <1> SUFFICES ASSUME NEW S \in SUBSET (Inodes \ {Root}), S # {}, \A x \in S : R[x] = "dir",
                      \A x \in S : v[x] \in S
               PROVE  FALSE
    BY DEF NoLoop, R, v
  <1> DEFINE O == S \ {i}
  <1>2. O # {}
    BY <1>1
  <1>3. \A x \in O : T[x] = "dir" /\ u[x] \in O
    BY <1>1
  <1>4. O \in SUBSET (Inodes \ {Root})
    OBVIOUS
  <1> HIDE DEF O
  <1> QED
    BY <1>2, <1>3, <1>4 DEF NoLoop

\* The way up from a directory, n steps of it.
WayUp(T, u, up, n) ==
    /\ up \in [0 .. n -> Inodes] /\ \A k \in 0 .. n : T[up[k]] = "dir"
    /\ \A k \in 1 .. n : up[k] = IF up[k - 1] = Root THEN Root ELSE u[up[k - 1]]

\* The way up ends at the root.
LEMMA RootEnds ==
    ASSUME NEW T, NEW u, NEW up, NEW n \in Nat, WayUp(T, u, up, n),
           NEW j \in 0 .. n, up[j] = Root
    PROVE  \A k \in j .. n : up[k] = Root
  <1> DEFINE S == {k \in 0 .. n : k >= j => up[k] = Root}
  <1>1. 0 \in S
    OBVIOUS
  <1>2. ASSUME NEW k \in 1 .. n, k - 1 \in S PROVE k \in S
    <2>1. k \in 0 .. n /\ (k = j \/ k < j \/ k - 1 >= j)
      OBVIOUS
    <2>2. up[k] = IF up[k - 1] = Root THEN Root ELSE u[up[k - 1]]
      BY DEF WayUp
    <2> QED
      BY <1>2, <2>1, <2>2
  <1> HIDE DEF S
  <1>3. 0 .. n \subseteq S
    BY <1>1, <1>2, UpTo
  <1>4. \A k \in j .. n : k \in 0 .. n /\ k >= j
    OBVIOUS
  <1> QED
    BY <1>3, <1>4 DEF S

\* Without loops the way up never comes back to where it was.
LEMMA NoWayBack ==
    ASSUME NEW T, NEW u, NoLoop(T, u), NEW up, NEW n \in Nat, WayUp(T, u, up, n),
           NEW k \in 0 .. n, NEW j \in 0 .. k, up[k] # Root
    PROVE  u[up[k]] # up[j]
  <1> SUFFICES ASSUME u[up[k]] = up[j] PROVE FALSE
    OBVIOUS
  <1> DEFINE S == {up[m] : m \in j .. k}
  <1>1. \A m \in j .. k : up[m] # Root
    <2> SUFFICES ASSUME NEW m \in j .. k, up[m] = Root PROVE FALSE
      OBVIOUS
    <2>1. m \in 0 .. n /\ k \in m .. n
      OBVIOUS
    <2> QED
      BY <2>1, RootEnds
  <1>2. \A m \in j .. k : m \in 0 .. n
    OBVIOUS
  <1>3. \A m \in 0 .. n : up[m] \in Inodes /\ T[up[m]] = "dir"
    BY DEF WayUp
  <1>4. S \in SUBSET (Inodes \ {Root}) /\ \A x \in S : T[x] = "dir"
    BY <1>1, <1>2, <1>3
  <1>5. up[j] \in S
    OBVIOUS
  <1>6. ASSUME NEW m \in j .. k PROVE u[up[m]] \in S
    <2>1. CASE m = k
      BY <1>5, <2>1
    <2>2. CASE m # k
      <3>1. m + 1 \in 1 .. n /\ m + 1 \in j .. k /\ (m + 1) - 1 = m
        BY <2>2
      <3>2. up[m + 1] = u[up[m]]
        BY <1>1, <3>1 DEF WayUp
      <3> QED
        BY <3>1, <3>2
    <2> QED
      BY <2>1, <2>2
  <1>7. \A x \in S : u[x] \in S
    BY <1>6
  <1> HIDE DEF S
  <1> QED
    BY <1>4, <1>5, <1>7 DEF NoLoop

\* With as many steps as there are inodes it reaches the root, so that ".." does
\* not lead out of it.
LEMMA WayUpIsUpper ==
    ASSUME IsFiniteSet(Inodes), NEW T, NEW u, NoLoop(T, u), NEW up,
           WayUp(T, u, up, Cardinality(Inodes))
    PROVE  Upper(u, {up[k] : k \in 0 .. Cardinality(Inodes)})
  <1> DEFINE n == Cardinality(Inodes)
             A == {up[k] : k \in 0 .. n}
  <1>0. n \in Nat
    BY FS_CardinalityType
  <1>1. up \in [0 .. n -> Inodes]
    BY DEF WayUp
  <1>2. up[n] = Root
    <2> SUFFICES ASSUME up[n] # Root PROVE FALSE
      OBVIOUS
    <2>1. IsFiniteSet(0 .. n) /\ Cardinality(0 .. n) = n + 1
      <3> HIDE DEF n
      <3>1. 0 \in Int /\ n \in Int /\ ~(0 > n) /\ n - 0 + 1 = n + 1
        BY <1>0
      <3> QED
        BY <3>1, FS_Interval
    <2>2. Cardinality(Inodes) < Cardinality(0 .. n)
      BY <1>0, <2>1
    <2>3. \E a, b \in 0 .. n : a # b /\ up[a] = up[b]
      BY <1>1, <2>1, <2>2, FS_PigeonHole
    <2> HIDE DEF n
    <2>4. PICK a \in 0 .. n, b \in 0 .. n : a < b /\ up[a] = up[b]
      <3>1. PICK a \in 0 .. n, b \in 0 .. n : a # b /\ up[a] = up[b]
        BY <2>3
      <3>2. a < b \/ b < a
        BY <1>0, <3>1
      <3> QED
        BY <3>1, <3>2
    <2>5. b - 1 \in 0 .. n /\ b \in 1 .. n /\ a \in 0 .. b - 1 /\ n \in b - 1 .. n
      BY <1>0, <2>4
    <2>6. up[b - 1] # Root
      BY <1>0, <2>5, RootEnds DEF n
    <2>7. up[b] = u[up[b - 1]]
      BY <2>5, <2>6 DEF WayUp, n
    <2> QED
      BY <1>0, <2>4, <2>5, <2>6, <2>7, NoWayBack DEF n
  <1>3. n = Cardinality(Inodes)
    OBVIOUS
  <1> HIDE DEF n
  <1>4. ASSUME NEW k \in 0 .. n, up[k] # Root PROVE u[up[k]] \in A
    <2>1. k + 1 \in 1 .. n /\ k + 1 \in 0 .. n /\ (k + 1) - 1 = k
      BY <1>0, <1>2, <1>4
    <2>2. up[k + 1] = u[up[k]]
      BY <1>3, <1>4, <2>1 DEF WayUp
    <2> QED
      BY <2>1, <2>2
  <1>5. A \in SUBSET Inodes
    BY <1>1
  <1>6. \A x \in A \ {Root} : u[x] \in A
    BY <1>4
  <1> QED
    BY <1>3, <1>5, <1>6 DEF Upper

\* No file is in use that has no name.
AllNamed(T, t) ==
    \A i \in Inodes : T[i] \notin {"none", "dir"} => \E q \in Slot : t[q] = i

\* What the directories of a set name.
Under(t, A) == {x \in Inodes : \E q \in Slot : q[1] \in A /\ t[q] = x}

\* The set of what is below the root, as it grows.
Growing(t, at, n) ==
    /\ at \in [0 .. n -> SUBSET Inodes] /\ at[0] = {Root}
    /\ \A k \in 1 .. n : at[k] = at[k - 1] \cup Under(t, at[k - 1])

\* With as many steps as there are inodes it has all.
LEMMA GrownIsClosed ==
    ASSUME IsFiniteSet(Inodes), NEW t, NEW at, Growing(t, at, Cardinality(Inodes))
    PROVE  Under(t, at[Cardinality(Inodes)]) \subseteq at[Cardinality(Inodes)]
  <1> DEFINE n == Cardinality(Inodes)
             Done(k) == Under(t, at[k]) \subseteq at[k]
  <1>0. n \in Nat /\ n \in 0 .. n /\ 0 \in 0 .. n
    BY FS_CardinalityType
  <1>1. /\ \A k \in 0 .. n : at[k] \in SUBSET Inodes
        /\ at[0] = {Root}
        /\ \A k \in 1 .. n : at[k] = at[k - 1] \cup Under(t, at[k - 1])
    BY DEF Growing
  <1>2. ASSUME NEW k \in 0 .. n PROVE /\ IsFiniteSet(at[k]) /\ Cardinality(at[k]) \in Nat
                                      /\ Cardinality(at[k]) <= n
    <2>1. at[k] \in SUBSET Inodes
      BY <1>1
    <2>2. IsFiniteSet(at[k]) /\ Cardinality(at[k]) <= Cardinality(Inodes)
      BY <2>1, FS_Subset
    <2> QED
      BY <2>2, FS_CardinalityType
  <1>3. n = Cardinality(Inodes)
    OBVIOUS
  <1> HIDE DEF n
  <1> DEFINE S == {k \in 0 .. n : Done(k) \/ Cardinality(at[k]) >= k + 1}
  <1>4. 0 \in S
    <2>1. Cardinality(at[0]) = 1
      BY <1>1, FS_Singleton
    <2> QED
      BY <1>0, <2>1
  <1>5. ASSUME NEW k \in 1 .. n, k - 1 \in S PROVE k \in S
    <2>0. k \in 0 .. n /\ k - 1 \in 0 .. n
      BY <1>0
    <2>1. at[k] = at[k - 1] \cup Under(t, at[k - 1])
      BY <1>1
    <2>2. CASE Done(k - 1)
      <3>1. at[k] = at[k - 1]
        BY <2>1, <2>2
      <3> QED
        BY <2>0, <2>2, <3>1
    <2>3. CASE ~Done(k - 1)
      <3>1. at[k - 1] \subseteq at[k] /\ at[k - 1] # at[k]
        BY <2>1, <2>3
      <3>2. IsFiniteSet(at[k]) /\ Cardinality(at[k]) \in Nat /\ Cardinality(at[k - 1]) \in Nat
        BY <1>2, <2>0
      <3>3. /\ Cardinality(at[k - 1]) <= Cardinality(at[k])
            /\ Cardinality(at[k - 1]) # Cardinality(at[k])
        BY <3>1, <3>2, FS_Subset
      <3>4. Cardinality(at[k - 1]) >= (k - 1) + 1
        BY <1>5, <2>3
      <3> HIDE DEF Done
      <3> QED
        BY <2>0, <3>2, <3>3, <3>4
    <2> QED
      BY <2>2, <2>3
  <1> HIDE DEF S
  <1>6. n \in S
    BY <1>0, <1>4, <1>5, UpTo
  <1>7. Done(n)
    BY <1>0, <1>2, <1>6 DEF S
  <1> QED
    BY <1>3, <1>7

-----------------------------------------------------------------------------
(* What the operations on entries and inodes do to the views. *)

\* An image of a call that has not failed.
Good(s) == s \in Image /\ s.ok /\ Typed(s)

\* The inode and the entries of one number, in an image.
LEMMA NodeIs ==
    ASSUME NEW s \in Image, NEW i \in Inodes
    PROVE  /\ s.node[i] \in Record /\ s.ent[i] \in Map
           /\ s.node[i] = [type |-> s.node[i].type, links |-> s.node[i].links,
                           blocks |-> s.node[i].blocks, indexed |-> s.node[i].indexed]
           /\ s.node[i].type \in AnyType /\ s.node[i].links \in Nat
           /\ s.node[i].blocks \in Nat /\ s.node[i].indexed \in Flag
           /\ Type(s)[i] = s.node[i].type /\ Links(s)[i] = s.node[i].links
  BY ImageIs DEF Record, Type, Links

\* Entries that stay lead where they led.
LEMMA SameEntries ==
    ASSUME NEW s \in Image, NEW r \in Image, r.ent = s.ent
    PROVE  /\ Table(r) = Table(s) /\ Up(r) = Up(s) /\ Self(r) = Self(s)
           /\ Typed(s) /\ Type(r) = Type(s) => Typed(r)
  <1>1. Table(r) = Table(s) /\ Up(r) = Up(s) /\ Self(r) = Self(s)
    BY DEF Table, Up, Self, At
  <1>2. ASSUME Typed(s), Type(r) = Type(s) PROVE Typed(r)
    <2>1. ASSUME NEW i \in Inodes PROVE r.node[i].type = s.node[i].type
      <3>1. Type(r)[i] = r.node[i].type /\ Type(s)[i] = s.node[i].type
        BY DEF Type
      <3> QED
        BY <1>2, <3>1
    <2>2. \A e \in Inodes : \A n \in DOMAIN s.ent[e] : s.ent[e][n].ino \in Inodes
      BY ImageIs, MapIs DEF Entry
    <2> QED
      BY <1>2, <2>1, <2>2 DEF Typed
  <1> QED
    BY <1>1, <1>2

\* What dir_add_entry leaves: the entries m and the inode n of d, or a failure.
Entered(s, d, m, n, room) == [s EXCEPT !.ent[d] = m, !.node[d] = n, !.room = room]

EntriesWith(s, d, name, i) ==
    [x \in DOMAIN s.ent[d] \cup {name} |->
        IF x = name THEN [ino |-> i, type |-> s.node[i].type] ELSE s.ent[d][x]]

NodeWith(n, blocks, indexed) == [n EXCEPT !.blocks = blocks, !.indexed = indexed]

IndexedWith(n, cost) == n.indexed \/ (DirIndex /\ n.blocks = 1 /\ cost > 0)

LEMMA AddEntryIs ==
    ASSUME NEW s, NEW d, NEW name, NEW i, NEW cost
    PROVE  /\ cost > s.room => AddEntry(s, d, name, i, cost) = Failed(s)
           /\ ~(cost > s.room) =>
                 AddEntry(s, d, name, i, cost)
                   = Entered(s, d, EntriesWith(s, d, name, i),
                             NodeWith(s.node[d], s.node[d].blocks + cost, IndexedWith(s.node[d], cost)),
                             s.room - cost)
  <1> DEFINE full == DirIndex /\ s.node[d].blocks = 1 /\ cost > 0
             x == [s EXCEPT
                     !.ent[d] = [n \in DOMAIN @ \cup {name} |->
                                    IF n = name THEN [ino |-> i, type |-> s.node[i].type] ELSE @[n]],
                     !.node[d] = [s.node[d] EXCEPT !.blocks = @ + cost, !.indexed = @ \/ full],
                     !.room = @ - cost]
             y == Entered(s, d, EntriesWith(s, d, name, i),
                          NodeWith(s.node[d], s.node[d].blocks + cost, IndexedWith(s.node[d], cost)),
                          s.room - cost)
  <1>1. AddEntry(s, d, name, i, cost) = IF cost > s.room THEN Failed(s) ELSE x
    BY DEF AddEntry
  <1>2. x = y
    BY DEF Entered, EntriesWith, NodeWith, IndexedWith
  <1> HIDE DEF x
  <1> QED
    BY <1>1, <1>2

\* A record of an inode, field by field.
LEMMA RecordIs ==
    ASSUME NEW k \in Record
    PROVE  /\ k = [type |-> k.type, links |-> k.links, blocks |-> k.blocks, indexed |-> k.indexed]
           /\ k.type \in AnyType /\ k.links \in Nat /\ k.blocks \in Nat /\ k.indexed \in Flag
  BY DEF Record

\* The inode that dir_add_entry leaves.
LEMMA NodeWithIs ==
    ASSUME NEW k \in Record, NEW cost \in Nat,
           NEW n, n = NodeWith(k, k.blocks + cost, IndexedWith(k, cost))
    PROVE  n \in Record /\ n.type = k.type /\ n.links = k.links /\ n.blocks = k.blocks + cost
  <1> DEFINE b == k.blocks + cost
             w == IndexedWith(k, cost)
  <1>1. k = [type |-> k.type, links |-> k.links, blocks |-> k.blocks, indexed |-> k.indexed]
        /\ k.type \in AnyType /\ k.links \in Nat /\ k.blocks \in Nat /\ k.indexed \in Flag
    BY RecordIs
  <1>2. b \in Nat
    BY <1>1
  <1>3. w \in Flag
    <2>1. CASE DirIndex
      <3>1. Flag = BOOLEAN
        BY <2>1 DEF Flag
      <3> QED
        BY <3>1 DEF IndexedWith
    <2>2. CASE ~DirIndex
      <3>1. Flag = {FALSE} /\ k.indexed = FALSE
        BY <1>1, <2>2 DEF Flag
      <3> QED
        BY <2>2, <3>1 DEF IndexedWith
    <2> QED
      BY <2>1, <2>2
  <1>4. n = NodeWith(k, b, w)
    OBVIOUS
  <1> HIDE DEF b, w
  <1> DEFINE h == [type |-> k.type, links |-> k.links, blocks |-> b, indexed |-> k.indexed]
  <1>5. [k EXCEPT !.blocks = b] = h
    BY <1>1
  <1>6. [h EXCEPT !.indexed = w] = [type |-> k.type, links |-> k.links, blocks |-> b, indexed |-> w]
    OBVIOUS
  <1>7. n = [[k EXCEPT !.blocks = b] EXCEPT !.indexed = w]
    BY <1>4 DEF NodeWith
  <1> HIDE DEF h
  <1>8. n = [type |-> k.type, links |-> k.links, blocks |-> b, indexed |-> w]
    BY <1>5, <1>6, <1>7
  <1> QED
    BY <1>1, <1>2, <1>3, <1>8 DEF Record, b

\* dir_add_entry.
LEMMA AddEntryDoes ==
    ASSUME NEW s, Good(s), NEW d \in Inodes, NEW name \in AnyName, NEW i \in Inodes,
           NEW cost \in Nat, NEW r, r = AddEntry(s, d, name, i, cost), r.ok
    PROVE  Good(r) /\ Puts(s, r, d, name, i) /\ Type(r) = Type(s) /\ Links(r) = Links(s)
  <1> DEFINE e == [ino |-> i, type |-> s.node[i].type]
             m == EntriesWith(s, d, name, i)
             n == NodeWith(s.node[d], s.node[d].blocks + cost, IndexedWith(s.node[d], cost))
             ent == [s.ent EXCEPT ![d] = m]
             node == [s.node EXCEPT ![d] = n]
  <1>0. s \in Image /\ s.ok /\ Typed(s)
    BY DEF Good
  <1>1. ~(cost > s.room)
    <2>1. ~Failed(s).ok
      BY <1>0 DEF Failed, Image
    <2> QED
      BY <2>1, AddEntryIs
  <1>2. r = [s EXCEPT !.ent = ent, !.node = node, !.room = s.room - cost]
    <2>1. r = Entered(s, d, m, n, s.room - cost)
      BY <1>1, AddEntryIs
    <2> HIDE DEF m, n
    <2> QED
      BY <1>0, <2>1 DEF Entered, Image
  <1>3. e \in Entry
    BY <1>0, NodeIs DEF Entry
  <1>4. /\ DOMAIN m = DOMAIN s.ent[d] \cup {name} /\ m[name] = e
        /\ \A x \in DOMAIN s.ent[d] \ {name} : m[x] = s.ent[d][x]
    BY DEF EntriesWith
  <1>5. m \in Map
    <2>0. s.ent[d] \in Map
      BY <1>0, NodeIs
    <2>1. DOMAIN m \in SUBSET AnyName
      BY <1>4, <2>0, MapIs
    <2>2. \A x \in DOMAIN m : m[x] \in Entry
      BY <1>3, <1>4, <2>0, MapIs
    <2>3. m = [x \in DOMAIN m |-> m[x]]
      BY DEF EntriesWith
    <2> HIDE DEF m
    <2>4. m \in [DOMAIN m -> Entry]
      BY <2>2, <2>3
    <2> QED
      BY <2>1, <2>4, IsMap
  <1>6. n \in Record /\ n.type = s.node[d].type /\ n.links = s.node[d].links
    <2>1. s.node[d] \in Record
      BY <1>0, NodeIs
    <2>2. n = NodeWith(s.node[d], s.node[d].blocks + cost, IndexedWith(s.node[d], cost))
      OBVIOUS
    <2> HIDE DEF n
    <2> QED
      BY <2>1, <2>2, NodeWithIs
  <1> HIDE DEF m, n, e
  <1>7. ent \in [Inodes -> Map] /\ ent[d] = m /\ \A x \in Inodes \ {d} : ent[x] = s.ent[x]
    BY <1>0, <1>5, ImageIs
  <1>8. node \in [Inodes -> Record] /\ node[d] = n /\ \A x \in Inodes \ {d} : node[x] = s.node[x]
    BY <1>0, <1>6, ImageIs
  <1>9. s.room - cost \in Nat
    BY <1>0, <1>1, ImageIs
  <1> HIDE DEF ent, node
  <1>10. /\ r.ent = ent /\ r.node = node /\ r.room = s.room - cost /\ r.ok = s.ok
         /\ r \in Image
    BY <1>0, <1>2, <1>7, <1>8, <1>9 DEF Image
  <1>11. Type(r) = Type(s) /\ Links(r) = Links(s)
    BY <1>6, <1>8, <1>10 DEF Type, Links
  <1>12. Puts(s, r, d, name, i)
    BY <1>4, <1>7, <1>10 DEF Puts, e
  <1>13. Typed(r)
    <2>1. Views(s, r, d, name, i)
      BY <1>0, <1>10, <1>11, <1>12, PutsMeans
    <2> QED
      BY <1>0, <2>1 DEF Views
  <1> QED
    BY <1>0, <1>10, <1>11, <1>12, <1>13 DEF Good

\* dir_set_entry_target.
LEMMA SetEntryTargetDoes ==
    ASSUME NEW s, Good(s), NEW d \in Inodes, NEW name \in AnyName, NEW i \in Inodes,
           NEW r, r = SetEntryTarget(s, d, name, i), r.ok
    PROVE  Good(r) /\ Puts(s, r, d, name, i) /\ Type(r) = Type(s) /\ Links(r) = Links(s)
  <1> DEFINE e == [ino |-> i, type |-> s.node[i].type]
             m == [s.ent[d] EXCEPT ![name] = e]
             ent == [s.ent EXCEPT ![d] = m]
  <1>0. s \in Image /\ s.ok /\ Typed(s)
    BY DEF Good
  <1>1. Found(s, d, name)
    BY <1>0 DEF SetEntryTarget, Failed, Image
  <1>2. r = [s EXCEPT !.ent = ent]
    BY <1>0, <1>1 DEF SetEntryTarget, Image
  <1>3. e \in Entry
    BY <1>0, NodeIs DEF Entry
  <1>4. s.ent[d] \in Map /\ name \in DOMAIN s.ent[d]
    BY <1>0, <1>1, NodeIs DEF Found
  <1>5. /\ m \in Map /\ DOMAIN m = DOMAIN s.ent[d] /\ m[name] = e
        /\ \A x \in DOMAIN s.ent[d] \ {name} : m[x] = s.ent[d][x]
    BY <1>3, <1>4 DEF Map
  <1> HIDE DEF m, e
  <1>7. ent \in [Inodes -> Map] /\ ent[d] = m /\ \A x \in Inodes \ {d} : ent[x] = s.ent[x]
    BY <1>0, <1>5, ImageIs
  <1> HIDE DEF ent
  <1>10. r.ent = ent /\ r.node = s.node /\ r.ok = s.ok /\ r \in Image
    BY <1>0, <1>2, <1>7 DEF Image
  <1>11. Type(r) = Type(s) /\ Links(r) = Links(s)
    BY <1>10 DEF Type, Links
  <1>12. Puts(s, r, d, name, i)
    BY <1>4, <1>5, <1>7, <1>10 DEF Puts, e
  <1>13. Typed(r)
    <2>1. Views(s, r, d, name, i)
      BY <1>0, <1>10, <1>11, <1>12, PutsMeans
    <2> QED
      BY <1>0, <2>1 DEF Views
  <1> QED
    BY <1>0, <1>10, <1>11, <1>12, <1>13 DEF Good

\* A name goes.
LEMMA RemoveEntryDoes ==
    ASSUME NEW s, Good(s), NEW d \in Inodes, NEW name \in Names,
           NEW r, r = RemoveEntry(s, d, name), r.ok
    PROVE  /\ Good(r) /\ r.node = s.node /\ Type(r) = Type(s) /\ Links(r) = Links(s)
           /\ Table(r) = [Table(s) EXCEPT ![<<d, name>>] = 0]
           /\ Up(r) = Up(s) /\ Self(r) = Self(s)
           /\ \A e \in Inodes \ {d} : r.ent[e] = s.ent[e]
  <1> DEFINE D == DOMAIN s.ent[d] \ {name}
             m == Restrict(s.ent[d], D)
             ent == [s.ent EXCEPT ![d] = m]
  <1>0. s \in Image /\ s.ok /\ Typed(s)
    BY DEF Good
  <1>1. Found(s, d, name)
    BY <1>0 DEF RemoveEntry, Failed, Image
  <1>2. r = [s EXCEPT !.ent = ent]
    BY <1>0, <1>1 DEF RemoveEntry, Image
  <1>4. s.ent[d] \in Map
    BY <1>0, NodeIs
  <1>5. m \in Map /\ DOMAIN m = D /\ \A x \in D : m[x] = s.ent[d][x]
    <2>1. DOMAIN m = D /\ \A x \in D : m[x] = s.ent[d][x]
      BY DEF Restrict
    <2>2. D \in SUBSET AnyName /\ m \in [D -> Entry]
      BY <1>4, MapIs DEF Restrict
    <2> QED
      BY <2>1, <2>2, IsMap
  <1> HIDE DEF m
  <1>7. ent \in [Inodes -> Map] /\ ent[d] = m /\ \A x \in Inodes \ {d} : ent[x] = s.ent[x]
    BY <1>0, <1>5, ImageIs
  <1> HIDE DEF ent
  <1>10. r.ent = ent /\ r.node = s.node /\ r.ok = s.ok /\ r \in Image
    BY <1>0, <1>2, <1>7 DEF Image
  <1>11. Type(r) = Type(s) /\ Links(r) = Links(s)
    BY <1>10 DEF Type, Links
  <1>12. \A e \in Inodes : \A n : At(r, e, n) = IF e = d /\ n = name THEN 0 ELSE At(s, e, n)
    BY <1>5, <1>7, <1>10 DEF At
  <1>13. Up(r) = Up(s) /\ Self(r) = Self(s)
    BY <1>12, Constants DEF Up, Self
  <1>14. Table(r) = [Table(s) EXCEPT ![<<d, name>>] = 0]
    <2>1. \A q \in Slot : Table(r)[q] = IF q = <<d, name>> THEN 0 ELSE Table(s)[q]
      BY <1>12, SlotIs DEF Table
    <2> QED
      BY <1>0, <1>10, <2>1, ImageIs
  <1>15. Typed(r)
    BY <1>0, <1>5, <1>7, <1>10 DEF Typed
  <1> QED
    BY <1>0, <1>7, <1>10, <1>11, <1>13, <1>14, <1>15 DEF Good

\* r has the tree of s.
SameTree(s, r) ==
    /\ Good(r) /\ r.ent = s.ent /\ Type(r) = Type(s) /\ Links(r) = Links(s)
    /\ Table(r) = Table(s) /\ Up(r) = Up(s) /\ Self(r) = Self(s)

\* Two views at one inode.
LEMMA ViewAt ==
    ASSUME NEW s, NEW i \in Inodes
    PROVE  Type(s)[i] = s.node[i].type /\ Links(s)[i] = s.node[i].links
  BY DEF Type, Links

\* The node of one inode changes, and perhaps the room.
Renoded(s, r, i, n, room) == r = [s EXCEPT !.node[i] = n, !.room = room]

\* What that means for the views.
Changed(s, r, i, n) ==
    /\ r \in Image /\ r.ok = s.ok /\ r.ent = s.ent
    /\ Type(r) = [Type(s) EXCEPT ![i] = n.type]
    /\ Links(r) = [Links(s) EXCEPT ![i] = n.links]
    /\ \A x \in Inodes \ {i} : r.node[x] = s.node[x]

\* One node changes, and one place in the types and the counts with it.
LEMMA RenodedMeans ==
    ASSUME NEW s \in Image, NEW i \in Inodes, NEW n \in Record, NEW room \in Nat,
           NEW r, Renoded(s, r, i, n, room)
    PROVE  Changed(s, r, i, n)
  <1> DEFINE node == [s.node EXCEPT ![i] = n]
  <1>1. r = [s EXCEPT !.node = node, !.room = room]
    BY DEF Image, Renoded
  <1>2. node \in [Inodes -> Record] /\ node[i] = n /\ \A x \in Inodes \ {i} : node[x] = s.node[x]
    BY ImageIs
  <1> HIDE DEF node
  <1>3. r \in Image /\ r.ok = s.ok /\ r.ent = s.ent /\ r.node = node
    BY <1>1, <1>2 DEF Image
  <1>4. /\ \A x \in Inodes : Type(r)[x] = IF x = i THEN n.type ELSE Type(s)[x]
        /\ \A x \in Inodes : Links(r)[x] = IF x = i THEN n.links ELSE Links(s)[x]
    BY <1>2, <1>3, ViewAt
  <1>5. /\ Type(r) \in [Inodes -> AnyType] /\ Links(r) \in [Inodes -> Nat]
        /\ Type(s) \in [Inodes -> AnyType] /\ Links(s) \in [Inodes -> Nat]
    BY <1>3, ImageIs
  <1>6. Type(r) = [Type(s) EXCEPT ![i] = n.type]
    BY <1>4, <1>5
  <1>7. Links(r) = [Links(s) EXCEPT ![i] = n.links]
    BY <1>4, <1>5
  <1> QED
    BY <1>2, <1>3, <1>6, <1>7 DEF Changed

\* A view that is given the value it has.
LEMMA SameView ==
    ASSUME NEW s \in Image, NEW i \in Inodes
    PROVE  /\ [Type(s) EXCEPT ![i] = s.node[i].type] = Type(s)
           /\ [Links(s) EXCEPT ![i] = s.node[i].links] = Links(s)
  <1>1. Type(s) \in [Inodes -> AnyType] /\ Links(s) \in [Inodes -> Nat]
    BY ImageIs
  <1>2. Type(s)[i] = s.node[i].type /\ Links(s)[i] = s.node[i].links
    BY ViewAt
  <1> QED
    BY <1>1, <1>2

\* The blocks of an inode change.
LEMMA Reblocked ==
    ASSUME NEW s, Good(s), NEW i \in Inodes, NEW b \in Nat, NEW room \in Nat,
           NEW r, r = [s EXCEPT !.node[i].blocks = b, !.room = room]
    PROVE  SameTree(s, r)
  <1> DEFINE n == [s.node[i] EXCEPT !.blocks = b]
  <1>0. s \in Image /\ s.ok /\ Typed(s)
    BY DEF Good
  <1>1. n \in Record /\ n.type = s.node[i].type /\ n.links = s.node[i].links
    BY <1>0, NodeIs DEF Record
  <1>2. Renoded(s, r, i, n, room)
    BY <1>0 DEF Image, Renoded
  <1> HIDE DEF n
  <1>3. /\ r \in Image /\ r.ok = s.ok /\ r.ent = s.ent
        /\ Type(r) = [Type(s) EXCEPT ![i] = n.type]
        /\ Links(r) = [Links(s) EXCEPT ![i] = n.links]
    <2>1. n \in Record
      BY <1>1
    <2>2. Changed(s, r, i, n)
      BY <1>0, <1>2, <2>1, RenodedMeans
    <2> QED
      BY <2>2 DEF Changed
  <1>4. Type(r) = Type(s) /\ Links(r) = Links(s)
    BY <1>0, <1>1, <1>3, SameView
  <1> QED
    BY <1>0, <1>3, <1>4, SameEntries DEF SameTree, Good

\* The link count of an inode is k.
Recount(s, r, i, k) == r = [s EXCEPT !.node[i].links = k]

\* r has the tree of s but for the count of i.
Relinked(s, r, i, k) ==
    /\ Good(r) /\ r.ent = s.ent
    /\ Type(r) = Type(s) /\ Links(r) = [Links(s) EXCEPT ![i] = k]
    /\ Table(r) = Table(s) /\ Up(r) = Up(s) /\ Self(r) = Self(s)

\* A link count is set.
LEMMA RecountDoes ==
    ASSUME NEW s, Good(s), NEW i \in Inodes, NEW k \in Nat, NEW r, Recount(s, r, i, k)
    PROVE  Relinked(s, r, i, k)
  <1> DEFINE n == [s.node[i] EXCEPT !.links = k]
  <1>0. s \in Image /\ s.ok /\ Typed(s) /\ s.room \in Nat
    BY ImageIs DEF Good
  <1>1. n \in Record /\ n.type = s.node[i].type /\ n.links = k
    BY <1>0, NodeIs DEF Record
  <1>2. Renoded(s, r, i, n, s.room)
    BY <1>0 DEF Image, Renoded, Recount
  <1> HIDE DEF n
  <1>3. /\ r \in Image /\ r.ok = s.ok /\ r.ent = s.ent
        /\ Type(r) = [Type(s) EXCEPT ![i] = n.type]
        /\ Links(r) = [Links(s) EXCEPT ![i] = n.links]
    <2>1. n \in Record
      BY <1>1
    <2>2. Changed(s, r, i, n)
      BY <1>0, <1>2, <2>1, RenodedMeans
    <2> QED
      BY <2>2 DEF Changed
  <1>4. Type(r) = Type(s)
    BY <1>0, <1>1, <1>3, SameView
  <1> QED
    BY <1>0, <1>1, <1>3, <1>4, SameEntries DEF Good, Relinked

\* truncate_inode_impl gives blocks back, and nothing else.
LEMMA TruncateDoes ==
    ASSUME NEW s, Good(s), NEW i \in Inodes, NEW r, r = Truncate(s, i), r.ok
    PROVE  SameTree(s, r)
  <1>0. s \in Image /\ s.ok
    BY DEF Good
  <1>1. s.node[i].type # "fastlink"
    BY <1>0 DEF Truncate, Failed, Image
  <1>2. s.room + s.node[i].blocks \in Nat
    <2>1. s.node[i].blocks \in Nat
      BY <1>0, NodeIs
    <2>2. s.room \in Nat
      BY <1>0, ImageIs
    <2> QED
      BY <2>1, <2>2
  <1>3. r = [s EXCEPT !.node[i].blocks = 0, !.room = s.room + s.node[i].blocks]
    BY <1>0, <1>1 DEF Truncate, Image
  <1> QED
    BY <1>2, <1>3, Reblocked

\* write_symlink_target takes a block at most, and nothing else.
LEMMA FillDoes ==
    ASSUME NEW s, Good(s), NEW i \in Inodes, NEW type, NEW r, r = Fill(s, i, type), r.ok
    PROVE  SameTree(s, r)
  <1>0. s \in Image /\ s.ok
    BY DEF Good
  <1>1. CASE type # "slowlink"
    BY <1>0, <1>1 DEF Fill, SameTree
  <1>2. CASE type = "slowlink"
    <2>1. s.room # 0
      BY <1>0, <1>2 DEF Fill, Failed, Image
    <2>2. s.room - 1 \in Nat
      BY <1>0, <2>1, ImageIs
    <2>3. r = [s EXCEPT !.node[i].blocks = 1, !.room = s.room - 1]
      BY <1>0, <1>2, <2>1 DEF Fill
    <2> QED
      BY <2>2, <2>3, Reblocked
  <1> QED
    BY <1>1, <1>2

\* A node, and what it is, appear.
LEMMA CreateDoes ==
    ASSUME NEW s, Good(s), NEW type \in Types, NEW r, r = Create(s, type), r.ok,
           NEW i, i = Min(FreeInodes(s)),
           \A d \in Inodes : \A n \in DOMAIN s.ent[d] : Type(s)[s.ent[d][n].ino] # "none"
    PROVE  /\ i \in Inodes /\ Type(s)[i] = "none"
           /\ Good(r) /\ r.ent = s.ent
           /\ Type(r) = [Type(s) EXCEPT ![i] = type] /\ Links(r) = [Links(s) EXCEPT ![i] = 0]
           /\ Table(r) = Table(s) /\ Up(r) = Up(s) /\ Self(r) = Self(s)
  <1> DEFINE n == Node(type, 0, 0)
  <1>0. s \in Image /\ s.ok /\ Typed(s)
    BY DEF Good
  <1>1. FreeInodes(s) # {}
    BY <1>0 DEF Create, Failed, Image
  <1>2. i \in Inodes /\ s.node[i].type = "none"
    <2>1. FreeInodes(s) \in SUBSET Nat
      BY Constants DEF FreeInodes
    <2>2. i \in FreeInodes(s)
      BY <1>1, <2>1, LeastExists DEF Min
    <2> QED
      BY <2>2 DEF FreeInodes
  <1>3. n \in Record /\ n.type = type /\ n.links = 0
    <2>1. FALSE \in Flag
      BY DEF Flag
    <2> QED
      BY <2>1 DEF Record, Node, AnyType
  <1>4. Renoded(s, r, i, n, s.room) /\ s.room \in Nat
    BY <1>0, <1>1 DEF Create, Image, Renoded
  <1> HIDE DEF n
  <1>5. /\ r \in Image /\ r.ok = s.ok /\ r.ent = s.ent
        /\ Type(r) = [Type(s) EXCEPT ![i] = n.type]
        /\ Links(r) = [Links(s) EXCEPT ![i] = n.links]
        /\ \A x \in Inodes \ {i} : r.node[x] = s.node[x]
    <2>1. Changed(s, r, i, n)
      BY <1>0, <1>2, <1>3, <1>4, RenodedMeans
    <2> QED
      BY <2>1 DEF Changed
  <1>6. Typed(r)
    <2>1. \A x \in Inodes \ {i} : r.node[x].type = s.node[x].type
      BY <1>5
    <2>2. \A d \in Inodes : \A m \in DOMAIN s.ent[d] : s.ent[d][m].ino \in Inodes
      BY <1>0, ImageIs, MapIs DEF Entry
    <2>3. \A d \in Inodes : \A m \in DOMAIN s.ent[d] : s.ent[d][m].ino # i
      BY <1>2, ViewAt
    <2> QED
      BY <1>0, <1>5, <2>1, <2>2, <2>3 DEF Typed
  <1> QED
    BY <1>0, <1>2, <1>3, <1>5, <1>6, ViewAt, SameEntries DEF Good

\* An inode that no other names goes with its entries.
LEMMA ReleaseDoes ==
    ASSUME NEW s, Good(s), NEW i \in Inodes, NEW r, r = Release(s, i),
           \A d \in Inodes \ {i} : Up(s)[d] # i /\ Self(s)[d] # i,
           \A q \in Slot : q[1] # i => Table(s)[q] # i
    PROVE  /\ Good(r)
           /\ Type(r) = [Type(s) EXCEPT ![i] = "none"] /\ Links(r) = [Links(s) EXCEPT ![i] = 0]
           /\ \A q \in Slot : Table(r)[q] = IF q[1] = i THEN 0 ELSE Table(s)[q]
           /\ Up(r) = [Up(s) EXCEPT ![i] = 0] /\ Self(r) = [Self(s) EXCEPT ![i] = 0]
  <1> DEFINE e == <<>>
             ent == [s.ent EXCEPT ![i] = e]
             h == [s EXCEPT !.node[i] = NoNode, !.room = s.room]
  <1>0. s \in Image /\ s.ok /\ Typed(s) /\ s.room \in Nat
    BY ImageIs DEF Good
  <1>1. NoNode \in Record /\ NoNode.type = "none" /\ NoNode.links = 0
    <2>1. FALSE \in Flag
      BY DEF Flag
    <2> QED
      BY <2>1 DEF Record, Node, NoNode, AnyType
  <1>2. DOMAIN e = {} /\ e \in Map
    <2>1. DOMAIN e = {} /\ e \in [{} -> Entry]
      OBVIOUS
    <2> HIDE DEF e
    <2> QED
      BY <2>1, IsMap
  <1> HIDE DEF e
  <1>3. ent \in [Inodes -> Map] /\ ent[i] = e /\ \A x \in Inodes \ {i} : ent[x] = s.ent[x]
    BY <1>0, <1>2, ImageIs
  <1>4. r = [h EXCEPT !.ent = ent]
    BY <1>0 DEF Release, Image, e
  <1> HIDE DEF h, ent
  <1>5. /\ h \in Image /\ h.ok = s.ok /\ h.ent = s.ent
        /\ Type(h) = [Type(s) EXCEPT ![i] = "none"]
        /\ Links(h) = [Links(s) EXCEPT ![i] = 0]
        /\ \A x \in Inodes \ {i} : h.node[x] = s.node[x]
    <2>1. Renoded(s, h, i, NoNode, s.room)
      BY DEF Renoded, h
    <2>2. Changed(s, h, i, NoNode)
      BY <1>0, <1>1, <2>1, RenodedMeans
    <2> QED
      BY <1>1, <2>2 DEF Changed
  <1>6. r \in Image /\ r.ok /\ r.ent = ent /\ r.node = h.node
    BY <1>0, <1>3, <1>4, <1>5 DEF Image
  <1>7. Type(r) = Type(h) /\ Links(r) = Links(h)
    BY <1>6 DEF Type, Links
  <1>8. \A d \in Inodes : \A n : At(r, d, n) = IF d = i THEN 0 ELSE At(s, d, n)
    BY <1>2, <1>3, <1>6 DEF At
  <1>9. \A q \in Slot : Table(r)[q] = IF q[1] = i THEN 0 ELSE Table(s)[q]
    BY <1>8, SlotIs DEF Table
  <1>10. Up(r) = [Up(s) EXCEPT ![i] = 0] /\ Self(r) = [Self(s) EXCEPT ![i] = 0]
    BY <1>8 DEF Up, Self
  <1>11. \A d \in Inodes \ {i} : \A n \in DOMAIN s.ent[d] : s.ent[d][n].ino \in Inodes \ {i}
    <2> SUFFICES ASSUME NEW d \in Inodes \ {i}, NEW n \in DOMAIN s.ent[d]
                 PROVE  s.ent[d][n].ino \in Inodes \ {i}
      OBVIOUS
    <2>1. s.ent[d][n].ino \in Inodes /\ n \in AnyName /\ At(s, d, n) = s.ent[d][n].ino
      BY <1>0, NodeIs, MapIs DEF Entry, At
    <2>2. At(s, d, n) # i
      <3>1. n = DotDot => At(s, d, n) = Up(s)[d]
        BY DEF Up
      <3>2. n = Dot => At(s, d, n) = Self(s)[d]
        BY DEF Self
      <3>3. n \in Names => <<d, n>> \in Slot /\ <<d, n>>[1] = d /\ At(s, d, n) = Table(s)[<<d, n>>]
        BY SlotIs DEF Table
      <3> QED
        BY <2>1, <3>1, <3>2, <3>3 DEF AnyName
    <2> QED
      BY <2>1, <2>2
  <1>12. Typed(r)
    <2>1. \A x \in Inodes \ {i} : r.node[x].type = s.node[x].type
      BY <1>5, <1>6
    <2> QED
      BY <1>0, <1>2, <1>3, <1>6, <1>11, <2>1 DEF Typed
  <1> QED
    BY <1>5, <1>6, <1>7, <1>9, <1>10, <1>12 DEF Good

-----------------------------------------------------------------------------
(* What a call does to a sound image. *)

\* The image of a file system between two calls.
TreeOf(s) == Tree(Type(s), Links(s), Table(s), Up(s), Self(s))
Sound(s)  == Good(s) /\ TreeOf(s)

\* What r frees had one name in s, and no entries.
Frees(s, r) ==
    \A i \in Inodes : Type(s)[i] # "none" /\ Type(r)[i] = "none" =>
        Count(Table(s), i) = 1 /\ \A n \in Names : Table(s)[<<i, n>>] = 0

\* Every file has a name; without indices no directory is within itself.
Whole(s) ==
    /\ AllNamed(Type(s), Table(s))
    /\ ~DirIndex => NoLoop(Type(s), Up(s))

\* What every call does to a sound image, besides keeping it sound.
Keeps(s, r) == Frees(s, r) /\ (Whole(s) => Whole(r))

\* The dots lead to directories; entries are in directories and lead to what is in use.
LEMMA SoundIs ==
    ASSUME NEW s, Sound(s)
    PROVE  /\ s \in Image /\ s.ok /\ Typed(s) /\ Good(s)
           /\ Type(s) \in Typings /\ Links(s) \in Counts /\ Table(s) \in Tables
           /\ Up(s) \in Ups /\ Self(s) \in Ups
           /\ \A x \in Inodes : Up(s)[x] # 0 => Up(s)[x] \in Inodes /\ Type(s)[Up(s)[x]] = "dir"
           /\ \A x \in Inodes : Self(s)[x] # 0 => Self(s)[x] = x /\ Type(s)[x] = "dir"
           /\ \A q \in Slot : Table(s)[q] # 0 =>
                 /\ Table(s)[q] \in Inodes /\ Type(s)[Table(s)[q]] # "none"
                 /\ Type(s)[q[1]] = "dir"
           /\ \A x \in Inodes : \A n \in DOMAIN s.ent[x] :
                 Type(s)[x] = "dir" /\ Type(s)[s.ent[x][n].ino] # "none"
  <1>1. /\ s \in Image /\ s.ok /\ Typed(s) /\ Good(s)
        /\ Type(s) \in Typings /\ Links(s) \in Counts /\ Table(s) \in Tables
        /\ Up(s) \in Ups /\ Self(s) \in Ups
    BY DEF Sound, Good, TreeOf, Tree
  <1>2. \A q \in Slot : Table(s)[q] # 0 =>
            /\ Table(s)[q] \in Inodes /\ Type(s)[Table(s)[q]] # "none"
            /\ Type(s)[q[1]] = "dir"
    BY <1>1 DEF Sound, TreeOf, Tree, Leads, Tables
  <1>3. \A x \in Inodes : Self(s)[x] # 0 => Self(s)[x] = x /\ Type(s)[x] = "dir"
    BY DEF Sound, TreeOf, Tree, Dots
  <1>4. ASSUME NEW x \in Inodes, Up(s)[x] # 0
        PROVE  Up(s)[x] \in Inodes /\ Type(s)[Up(s)[x]] = "dir" /\ Type(s)[x] = "dir"
    <2>1. Up(s)[x] \in Inodes /\ Type(s)[x] = "dir"
      BY <1>1, <1>4 DEF Sound, TreeOf, Tree, Dots, Ups
    <2>2. CASE x = Root
      BY <2>1, <2>2 DEF Sound, TreeOf, Tree, Dots
    <2>3. CASE x # Root
      <3>1. PICK q \in Slot : Table(s)[q] = x /\ Up(s)[x] = q[1]
        BY <2>1, <2>3 DEF Sound, TreeOf, Tree, OneName
      <3> QED
        BY <1>2, <2>1, <3>1, Constants
    <2> QED
      BY <2>1, <2>2, <2>3
  <1>5. ASSUME NEW x \in Inodes, NEW n \in DOMAIN s.ent[x]
        PROVE  Type(s)[x] = "dir" /\ Type(s)[s.ent[x][n].ino] # "none"
    <2>1. s.ent[x][n].ino \in Inodes /\ n \in AnyName /\ At(s, x, n) = s.ent[x][n].ino
      BY <1>1, NodeIs, MapIs DEF Entry, At
    <2>2. At(s, x, n) # 0
      BY <2>1, Constants
    <2>3. CASE n = DotDot
      <3>1. At(s, x, n) = Up(s)[x]
        BY <2>3 DEF Up
      <3> QED
        BY <1>4, <2>1, <2>2, <3>1
    <2>4. CASE n = Dot
      <3>1. At(s, x, n) = Self(s)[x]
        BY <2>4 DEF Self
      <3> QED
        BY <1>3, <2>1, <2>2, <3>1
    <2>5. CASE n \in Names
      <3>1. <<x, n>> \in Slot /\ <<x, n>>[1] = x /\ At(s, x, n) = Table(s)[<<x, n>>]
        BY <2>5, SlotIs DEF Table
      <3> QED
        BY <1>2, <2>1, <2>2, <3>1
    <2> QED
      BY <2>1, <2>3, <2>4, <2>5 DEF AnyName
  <1> QED
    BY <1>1, <1>2, <1>3, <1>4, <1>5

\* A name that leads somewhere is found, and there is its target.
LEMMA NamedIs ==
    ASSUME NEW s, NEW d \in Inodes, NEW name \in Names
    PROVE  /\ <<d, name>> \in Slot /\ <<d, name>>[1] = d
           /\ Found(s, d, name) <=> name \in DOMAIN s.ent[d]
           /\ name \in DOMAIN s.ent[d] => Target(s, d, name) = Table(s)[<<d, name>>]
           /\ name \notin DOMAIN s.ent[d] => Table(s)[<<d, name>>] = 0
           /\ name \in Named(s, d) <=> name \in DOMAIN s.ent[d]
  BY SlotIs, Constants DEF Found, Target, Table, At, Named

\* In a sound image a name that is there leads to an inode, from a directory.
LEMMA NamedSound ==
    ASSUME NEW s, Sound(s), NEW d \in Inodes, NEW name \in Names
    PROVE  /\ Table(s)[<<d, name>>] # 0 <=> name \in DOMAIN s.ent[d]
           /\ name \in DOMAIN s.ent[d] =>
                 Table(s)[<<d, name>>] \in Inodes /\ Type(s)[d] = "dir"
  <1>1. name \in DOMAIN s.ent[d] => s.ent[d][name].ino \in Inodes
    BY SoundIs, NodeIs, MapIs DEF Entry
  <1> QED
    BY <1>1, NamedIs, SoundIs, Constants DEF Target

\* A step that keeps the tree keeps the image sound, and frees nothing.
LEMMA SameTreeSound ==
    ASSUME NEW s, Sound(s), NEW r, SameTree(s, r)
    PROVE  Sound(r) /\ Keeps(s, r)
  BY DEF Sound, SameTree, TreeOf, Keeps, Frees, Whole

\* No inode but i is touched, and i is gone or has another name.
Leaves(s, r, i) ==
    /\ \A x \in Inodes \ {i} : Type(r)[x] = Type(s)[x] /\ Up(r)[x] = Up(s)[x]
    /\ Type(r)[i] # "none" => /\ Type(r)[i] = Type(s)[i] /\ Up(r)[i] = Up(s)[i]
                             /\ \E o \in Slot : Table(r)[o] = i

\* The loss of one name leaves the rest within reach.
LEMMA LeavesWhole ==
    ASSUME NEW s, Sound(s), Whole(s), NEW q \in Slot, NEW i \in Inodes, Table(s)[q] = i,
           NEW r, Table(r) = [Table(s) EXCEPT ![q] = 0], Leaves(s, r, i)
    PROVE  Whole(r)
  <1>1. AllNamed(Type(r), Table(r))
    <2> SUFFICES ASSUME NEW x \in Inodes, Type(r)[x] \notin {"none", "dir"}
                 PROVE  \E o \in Slot : Table(r)[o] = x
      BY DEF AllNamed
    <2>1. CASE x = i
      BY <2>1 DEF Leaves
    <2>2. CASE x # i
      <3>1. Type(s)[x] \notin {"none", "dir"}
        BY <2>2 DEF Leaves
      <3>2. PICK o \in Slot : Table(s)[o] = x
        BY <3>1 DEF Whole, AllNamed
      <3>3. Table(s) \in Tables /\ o # q
        BY <2>2, <3>2, SoundIs
      <3> QED
        BY <3>2, <3>3 DEF Tables
    <2> QED
      BY <2>1, <2>2
  <1>2. ASSUME NoLoop(Type(s), Up(s)) PROVE NoLoop(Type(r), Up(r))
    <2> DEFINE A == {}
    <2>1. Upper(Up(s), A)
      BY DEF Upper
    <2>2. \A x \in Inodes \ {Root} : Type(r)[x] = "dir" => Type(s)[x] = "dir" /\ Up(r)[x] = Up(s)[x]
      BY DEF Leaves
    <2> HIDE DEF A
    <2> QED
      BY <1>2, <2>1, <2>2, NoLoopMoved
  <1> QED
    BY <1>1, <1>2 DEF Whole

\* unlink_impl, of the name of a file.
LEMMA DropNameDoes ==
    ASSUME NamesFitLinks, NEW s, Sound(s), NEW d \in Inodes, NEW name \in Names, NEW i \in Inodes,
           Table(s)[<<d, name>>] = i, Type(s)[i] # "dir", NEW r, r = DropName(s, d, name, i)
    PROVE  /\ r.ok /\ Sound(r) /\ Keeps(s, r) /\ Leaves(s, r, i)
           /\ Table(r) = [Table(s) EXCEPT ![<<d, name>>] = 0]
  <1> DEFINE q == <<d, name>>
             a == RemoveEntry(s, d, name)
             L == Links(s)
             t == [Table(s) EXCEPT ![q] = 0]
  <1>0. /\ s \in Image /\ s.ok /\ Good(s) /\ q \in Slot /\ q[1] = d /\ i # 0
        /\ Type(s) \in Typings /\ L \in Counts /\ Table(s) \in Tables
        /\ s.node[i].links = L[i] /\ Type(s)[i] # "none"
    BY SoundIs, SlotIs, ViewAt, Constants
  <1>1. a.ok
    BY <1>0, NamedSound, NamedIs DEF RemoveEntry, Image
  <1>2. /\ Good(a) /\ a.node = s.node /\ Type(a) = Type(s) /\ Links(a) = L
        /\ Table(a) = t /\ Up(a) = Up(s) /\ Self(a) = Self(s)
    BY <1>0, <1>1, RemoveEntryDoes
  <1>3. /\ L[i] # 0 /\ L[i] = Count(Table(s), i) /\ L[i] \in Nat
        /\ Tree(Type(s), [L EXCEPT ![i] = L[i] - 1], t, Up(s), Self(s))
    <2>1. /\ L[i] # 0 /\ L[i] = Count(Table(s), i)
          /\ Tree(Type(s), [L EXCEPT ![i] = L[i] - 1], t, Up(s), Self(s))
      BY <1>0, TreeDropName DEF Sound, TreeOf
    <2> QED
      BY <1>0, <2>1 DEF Counts
  <1>4. ASSUME Sound(r), Frees(s, r), Table(r) = t, Leaves(s, r, i)
        PROVE  r.ok /\ Keeps(s, r)
    <2>1. Whole(s) => Whole(r)
      <3> HIDE DEF q
      <3> QED
        BY <1>0, <1>4, LeavesWhole DEF q
    <2> QED
      BY <1>4, <2>1, SoundIs DEF Keeps
  <1> HIDE DEF a, t
  <1>5. Less(s.node[i].links) = L[i] - 1
    BY <1>0, <1>3 DEF Less
  <1>6. CASE L[i] = 1
    <2>1. r = Release(a, i)
      BY <1>1, <1>5, <1>6 DEF DropName, a
    <2>2. \A x \in Inodes \ {i} : Up(a)[x] # i /\ Self(a)[x] # i
      BY <1>0, <1>2, SoundIs
    <2>3. \A o \in Slot : Table(a)[o] # i
      <3>0. Count(Table(s), i) = 1 /\ Table(s)[q] = i
        BY <1>3, <1>6
      <3>1. \A o \in Slot : Table(s)[o] = i => o = q
        BY <1>0, <3>0, CountIs
      <3> QED
        BY <1>0, <1>2, <3>1 DEF t, Tables
    <2>4. /\ Good(r)
          /\ Type(r) = [Type(a) EXCEPT ![i] = "none"] /\ Links(r) = [Links(a) EXCEPT ![i] = 0]
          /\ \A o \in Slot : Table(r)[o] = IF o[1] = i THEN 0 ELSE Table(a)[o]
          /\ Up(r) = [Up(a) EXCEPT ![i] = 0] /\ Self(r) = [Self(a) EXCEPT ![i] = 0]
      BY <1>2, <2>1, <2>2, <2>3, ReleaseDoes
    <2>5. Up(r) = Up(s) /\ Self(r) = Self(s)
      <3>1. Up(s) \in Ups /\ Self(s) \in Ups /\ Up(s)[i] = 0 /\ Self(s)[i] = 0
        BY DEF Sound, TreeOf, Tree, Dots
      <3> QED
        BY <1>2, <2>4, <3>1 DEF Ups
    <2>6. Table(r) = t
      <3>1. \A o \in Slot : o[1] = i => Table(s)[o] = 0
        BY SoundIs
      <3>2. \A o \in Slot : o[1] = i => t[o] = 0
        BY <1>0, <3>1 DEF t, Tables
      <3>3. \A o \in Slot : Table(r)[o] = t[o]
        BY <1>2, <2>4, <3>2
      <3>4. Table(r) \in Tables /\ t \in Tables
        BY <1>2, <2>4, ImageIs DEF Good, Tables
      <3> QED
        BY <3>3, <3>4 DEF Tables
    <2>7. Tree([Type(s) EXCEPT ![i] = "none"], [L EXCEPT ![i] = L[i] - 1], t, Up(s), Self(s))
      <3>1. [L EXCEPT ![i] = L[i] - 1][i] = 0
        BY <1>0, <1>6 DEF Counts
      <3> QED
        BY <1>3, <3>1, TreeFree
    <2>8. [L EXCEPT ![i] = L[i] - 1] = [L EXCEPT ![i] = 0]
      BY <1>6
    <2>9. Sound(r)
      BY <1>2, <2>4, <2>5, <2>6, <2>7, <2>8 DEF Sound, TreeOf
    <2>10. \A x \in Inodes \ {i} : Type(r)[x] = Type(s)[x]
      BY <1>0, <1>2, <2>4 DEF Typings
    <2>11. \A n \in Names : Table(s)[<<i, n>>] = 0
      BY SoundIs, SlotIs
    <2>12. Frees(s, r)
      BY <1>3, <1>6, <2>10, <2>11 DEF Frees
    <2>13. Type(r)[i] = "none"
      BY <1>0, <1>2, <2>4 DEF Typings
    <2>14. Leaves(s, r, i)
      BY <2>5, <2>10, <2>13 DEF Leaves
    <2> QED
      BY <1>4, <2>6, <2>9, <2>12, <2>14 DEF t
  <1>7. CASE L[i] # 1
    <2>1. Recount(a, r, i, L[i] - 1) /\ L[i] - 1 \in Nat
      BY <1>1, <1>3, <1>5, <1>7 DEF DropName, a, Recount
    <2>2. /\ Good(r) /\ r.ent = a.ent
          /\ Type(r) = Type(a) /\ Links(r) = [Links(a) EXCEPT ![i] = L[i] - 1]
          /\ Table(r) = Table(a) /\ Up(r) = Up(a) /\ Self(r) = Self(a)
      BY <1>2, <2>1, RecountDoes DEF Relinked
    <2>3. Sound(r)
      BY <1>2, <1>3, <2>2 DEF Sound, TreeOf
    <2>4. Frees(s, r)
      BY <1>2, <2>2 DEF Frees
    <2>5. \E o \in Slot : t[o] = i
      <3>1. [L EXCEPT ![i] = L[i] - 1][i] = Count(t, i)
        BY <1>0, <1>3 DEF Tree, Linked
      <3>2. Count(t, i) # 0 /\ t \in Tables
        <4>1. Count(t, i) = L[i] - 1
          BY <1>0, <3>1 DEF Counts
        <4> QED
          BY <1>3, <1>7, <4>1 DEF Tree
      <3> QED
        BY <3>2, CountIs
    <2>6. Leaves(s, r, i)
      BY <1>2, <2>2, <2>5 DEF Leaves
    <2>7. Table(r) = t
      BY <1>2, <2>2
    <2> QED
      BY <1>4, <2>3, <2>4, <2>6, <2>7 DEF t
  <1> QED
    BY <1>6, <1>7

\* fuse_unlink_impl, of the name of a file.
LEMMA UnlinkDoes ==
    ASSUME NamesFitLinks, NEW s, Sound(s), NEW d \in Inodes, NEW name \in Names, NEW i \in Inodes,
           Table(s)[<<d, name>>] = i, Type(s)[i] # "dir", NEW r, r = Unlink(s, d, name), r.ok
    PROVE  /\ Sound(r) /\ Keeps(s, r) /\ Leaves(s, r, i)
           /\ Table(r) = [Table(s) EXCEPT ![<<d, name>>] = 0]
  <1> DEFINE a == IF s.node[i].links = 1 THEN Truncate(s, i) ELSE s
  <1>1. Target(s, d, name) = i
    BY NamedSound, NamedIs, Constants
  <1>2. a.ok /\ r = DropName(a, d, name, i)
    BY <1>1 DEF Unlink
  <1>3. SameTree(s, a)
    <2>1. Good(s)
      BY DEF Sound
    <2>2. CASE s.node[i].links = 1
      BY <1>2, <2>1, <2>2, TruncateDoes
    <2>3. CASE s.node[i].links # 1
      BY <2>1, <2>3 DEF SameTree
    <2> QED
      BY <2>2, <2>3
  <1> HIDE DEF a
  <1>4. Sound(a) /\ Type(a) = Type(s) /\ Table(a) = Table(s) /\ Up(a) = Up(s)
    BY <1>3, SameTreeSound DEF SameTree
  <1>5. /\ Sound(r) /\ Keeps(a, r) /\ Leaves(a, r, i)
        /\ Table(r) = [Table(a) EXCEPT ![<<d, name>>] = 0]
    BY <1>2, <1>4, DropNameDoes
  <1>6. Leaves(s, r, i)
    BY <1>4, <1>5 DEF Leaves
  <1>7. Keeps(s, r)
    BY <1>4, <1>5 DEF Keeps, Frees, Whole
  <1> QED
    BY <1>4, <1>5, <1>6, <1>7

\* dir_remove.
LEMMA DirRemoveDoes ==
    ASSUME NamesFitLinks, NEW s, Sound(s), NEW d \in Inodes, NEW name \in Names, NEW i \in Inodes,
           Table(s)[<<d, name>>] = i, Type(s)[i] = "dir", NEW r, r = DirRemove(s, d, name), r.ok
    PROVE  /\ Sound(r) /\ Keeps(s, r) /\ Leaves(s, r, i) /\ i # d
           /\ Table(r) = [Table(s) EXCEPT ![<<d, name>>] = 0]
  <1> DEFINE q == <<d, name>>
             a == RemoveEntry(s, d, name)
             b == Truncate(a, i)
             c == Release(b, i)
             T == Type(s)
             L == Links(s)
             t == [Table(s) EXCEPT ![q] = 0]
             v == [Up(s) EXCEPT ![i] = 0]
             g == [Self(s) EXCEPT ![i] = 0]
  <1>0. /\ s \in Image /\ s.ok /\ Good(s) /\ q \in Slot /\ q[1] = d /\ i # 0
        /\ T \in Typings /\ L \in Counts /\ Table(s) \in Tables /\ Up(s) \in Ups /\ Self(s) \in Ups
        /\ s.node[i].type = T[i]
    BY SoundIs, SlotIs, ViewAt, Constants
  <1>1. Target(s, d, name) = i /\ Found(s, d, name)
    BY <1>0, NamedSound, NamedIs
  <1>2. /\ Named(s, i) = {} /\ r = [c EXCEPT !.node[d].links = Less(@)]
    <2>1. Named(s, i) = {}
      BY <1>0, <1>1 DEF DirRemove, Failed, Image
    <2> QED
      BY <1>1, <2>1 DEF DirRemove
  <1>3. \A n \in Names : Table(s)[<<i, n>>] = 0
    BY <1>2, NamedIs
  <1>4. a.ok
    BY <1>0, <1>1 DEF RemoveEntry, Image
  <1>5. /\ Good(a) /\ a.node = s.node /\ Type(a) = T /\ Links(a) = L
        /\ Table(a) = t /\ Up(a) = Up(s) /\ Self(a) = Self(s)
    BY <1>0, <1>4, RemoveEntryDoes
  <1>6. i # d /\ L[d] # 0 /\ Count(Table(s), i) = 1
        /\ Tree([T EXCEPT ![i] = "none"], [L EXCEPT ![i] = 0, ![d] = @ - 1], t, v, g)
    <2>1. Tree(T, L, Table(s), Up(s), Self(s)) /\ Table(s)[q] = i /\ T[i] = "dir"
      BY DEF Sound, TreeOf
    <2>2. /\ i # q[1] /\ L[q[1]] # 0 /\ Count(Table(s), i) = 1
          /\ Tree([T EXCEPT ![i] = "none"], [L EXCEPT ![i] = 0, ![q[1]] = @ - 1], t, v, g)
      <3> HIDE DEF q, T, L
      <3> QED
        BY <1>0, <1>3, <2>1, TreeDropDir
    <2> QED
      BY <1>0, <2>2
  <1> HIDE DEF a
  <1>7. b.ok
    BY <1>0, <1>5 DEF Truncate, Good, Image
  <1>8. SameTree(a, b)
    BY <1>5, <1>7, TruncateDoes
  <1> HIDE DEF b
  <1>9. \A o \in Slot : Table(s)[o] = i => o = q
    BY <1>0, <1>6, CountIs
  <1>10. \A x \in Inodes \ {i} : Up(b)[x] # i /\ Self(b)[x] # i
    <2> SUFFICES ASSUME NEW x \in Inodes \ {i} PROVE Up(s)[x] # i /\ Self(s)[x] # i
      BY <1>5, <1>8 DEF SameTree
    <2>1. Self(s)[x] # i
      BY <1>0, SoundIs
    <2>2. ASSUME Up(s)[x] = i PROVE FALSE
      <3>1. T[x] = "dir" /\ x # Root
        BY <1>0, <2>2 DEF Sound, TreeOf, Tree, Dots, Leads
      <3>2. PICK o \in Slot : Table(s)[o] = x /\ Up(s)[x] = o[1]
        BY <3>1 DEF Sound, TreeOf, Tree, OneName
      <3>3. o = <<i, o[2]>> /\ o[2] \in Names
        BY <2>2, <3>2, SlotIs
      <3> QED
        BY <1>3, <3>2, <3>3, Constants
    <2> QED
      BY <2>1, <2>2
  <1>11. \A o \in Slot : o[1] # i => Table(b)[o] # i
    <2>1. Table(b) = t
      BY <1>5, <1>8 DEF SameTree
    <2>2. \A o \in Slot : t[o] # i
      BY <1>0, <1>9 DEF Tables
    <2> QED
      BY <2>1, <2>2
  <1> HIDE DEF t
  <1>12. /\ Good(c)
         /\ Type(c) = [T EXCEPT ![i] = "none"] /\ Links(c) = [L EXCEPT ![i] = 0]
         /\ \A o \in Slot : Table(c)[o] = IF o[1] = i THEN 0 ELSE Table(b)[o]
         /\ Up(c) = v /\ Self(c) = g
    <2>1. /\ Good(b) /\ Type(b) = T /\ Links(b) = L /\ Up(b) = Up(s) /\ Self(b) = Self(s)
      BY <1>5, <1>8 DEF SameTree
    <2> QED
      BY <1>10, <1>11, <2>1, ReleaseDoes
  <1> HIDE DEF c
  <1>13. Table(c) = t
    <2>1. \A o \in Slot : o[1] = i => t[o] = 0
      <3>1. \A o \in Slot : o[1] = i => Table(s)[o] = 0
        BY <1>3, SlotIs
      <3> QED
        BY <1>0, <3>1 DEF t, Tables
    <2>2. Table(b) = t
      BY <1>5, <1>8 DEF SameTree
    <2>3. \A o \in Slot : Table(c)[o] = t[o]
      BY <1>12, <2>1, <2>2
    <2>4. Table(c) \in Tables /\ t \in Tables
      BY <1>5, <1>12, ImageIs DEF Good, Tables
    <2> QED
      BY <2>3, <2>4 DEF Tables
  <1>14. Recount(c, r, d, L[d] - 1) /\ L[d] - 1 \in Nat
    <2>1. L[d] \in Nat /\ L[d] # 0
      BY <1>0, <1>6 DEF Counts
    <2>2. c.node[d].links = L[d]
      BY <1>0, <1>6, <1>12, ViewAt DEF Counts
    <2>3. Less(c.node[d].links) = L[d] - 1
      BY <2>1, <2>2 DEF Less
    <2> QED
      BY <1>2, <2>1, <2>3 DEF Recount
  <1>15. /\ Good(r)
         /\ Type(r) = Type(c) /\ Links(r) = [Links(c) EXCEPT ![d] = L[d] - 1]
         /\ Table(r) = Table(c) /\ Up(r) = Up(c) /\ Self(r) = Self(c)
    <2>1. Good(c)
      BY <1>12
    <2>2. Relinked(c, r, d, L[d] - 1)
      BY <1>14, <2>1, RecountDoes
    <2> QED
      BY <2>2 DEF Relinked
  <1>16. Links(r) = [L EXCEPT ![i] = 0, ![d] = @ - 1]
    BY <1>0, <1>6, <1>12, <1>15 DEF Counts
  <1>17. Sound(r)
    BY <1>6, <1>12, <1>13, <1>15, <1>16 DEF Sound, TreeOf
  <1>18. \A x \in Inodes \ {i} : Type(r)[x] = T[x]
    BY <1>0, <1>12, <1>15 DEF Typings
  <1>19. Frees(s, r)
    BY <1>3, <1>6, <1>18 DEF Frees
  <1>20. Leaves(s, r, i)
    <2>1. Type(r)[i] = "none"
      BY <1>0, <1>12, <1>15 DEF Typings
    <2>2. \A x \in Inodes \ {i} : Up(r)[x] = Up(s)[x]
      BY <1>0, <1>12, <1>15 DEF Ups
    <2> HIDE DEF T
    <2> QED
      BY <1>18, <2>1, <2>2 DEF Leaves, T
  <1>21. Table(r) = [Table(s) EXCEPT ![q] = 0]
    BY <1>13, <1>15 DEF t
  <1>22. Whole(s) => Whole(r)
    <2> HIDE DEF q
    <2> QED
      BY <1>0, <1>20, <1>21, LeavesWhole DEF q
  <1> QED
    BY <1>6, <1>17, <1>19, <1>20, <1>21, <1>22 DEF Keeps

\* The counts of a new directory and of its parent are set.
DirCounts(e, r, i, d) == r = [e EXCEPT !.node[i].links = 2, !.node[d].links = OneMore(@)]

\* link_impl succeeds when each of its steps does.
LinkSteps(s, d, i, a, r) ==
    LET b == AddEntry(a, i, Dot, i, 1)
        e == AddEntry(b, i, DotDot, d, 0)
    IN  /\ a.ok
        /\ IsDir(s, i) => b.ok /\ e.ok /\ DirCounts(e, r, i, d)
        /\ ~IsDir(s, i) => Recount(a, r, i, OneMore(a.node[i].links))

\* The steps of link_impl, when it succeeds.
LEMMA LinkIs ==
    ASSUME NEW s, NEW d, NEW name, NEW i, NEW cost, Link(s, d, name, i, cost).ok
    PROVE  LinkSteps(s, d, i, AddEntry(s, d, name, i, cost), Link(s, d, name, i, cost))
  <1> DEFINE a == AddEntry(s, d, name, i, cost)
             r == Link(s, d, name, i, cost)
             b == AddEntry(a, i, Dot, i, 1)
             e == AddEntry(b, i, DotDot, d, 0)
             Ends(t) == IF t.ok THEN AddEntry(t, i, DotDot, d, 0) ELSE t
             WithDirCounts(t) == IF ~t.ok THEN t
                    ELSE IF IsDir(s, i)
                    THEN [t EXCEPT !.node[i].links = 2, !.node[d].links = OneMore(@)]
                    ELSE [t EXCEPT !.node[i].links = OneMore(@)]
             Then(t) == IF t.ok /\ IsDir(s, i) THEN Ends(AddEntry(t, i, Dot, i, 1)) ELSE t
  <1>1. r = WithDirCounts(Then(a)) /\ r.ok
    BY DEF Link
  <1> HIDE DEF r
  <1>2. Then(a).ok
    BY <1>1
  <1>3. a.ok
    BY <1>2
  <1>4. CASE IsDir(s, i)
    <2>1. Then(a) = Ends(b)
      BY <1>3, <1>4
    <2>2. b.ok
      BY <1>2, <2>1
    <2>3. Then(a) = e
      BY <2>1, <2>2
    <2>4. r = [e EXCEPT !.node[i].links = 2, !.node[d].links = OneMore(@)]
      BY <1>1, <1>2, <1>4, <2>3
    <2> QED
      BY <1>2, <1>3, <1>4, <2>2, <2>3, <2>4 DEF LinkSteps, DirCounts, r
  <1>5. CASE ~IsDir(s, i)
    <2>1. Then(a) = a
      BY <1>5
    <2>2. r = [a EXCEPT !.node[i].links = OneMore(@)]
      BY <1>1, <1>3, <1>5, <2>1
    <2> QED
      BY <1>3, <1>5, <2>2 DEF LinkSteps, Recount, r
  <1> QED
    BY <1>4, <1>5

\* A file gets one more name.
LEMMA LinkFileDoes ==
    ASSUME NamesFitLinks, NEW s, Sound(s), NEW d \in Inodes, NEW name \in Names, NEW i \in Inodes,
           Type(s)[d] = "dir", ~Found(s, d, name), Type(s)[i] \notin {"none", "dir"},
           NEW cost \in Nat, NEW r, r = Link(s, d, name, i, cost), r.ok
    PROVE  /\ Sound(r) /\ Type(r) = Type(s) /\ Up(r) = Up(s)
           /\ Table(r) = [Table(s) EXCEPT ![<<d, name>>] = i]
  <1> DEFINE q == <<d, name>>
             a == AddEntry(s, d, name, i, cost)
             L == Links(s)
             t == [Table(s) EXCEPT ![q] = i]
  <1>0. /\ s \in Image /\ Good(s) /\ q \in Slot /\ q[1] = d /\ ~IsDir(s, i) /\ name \in AnyName
        /\ L \in Counts /\ Table(s)[q] = 0
    <2>1. s \in Image /\ Good(s) /\ q \in Slot /\ q[1] = d /\ L \in Counts
      BY SoundIs, SlotIs
    <2>2. ~IsDir(s, i)
      BY ViewAt DEF IsDir
    <2>3. Table(s)[q] = 0
      BY NamedIs
    <2> QED
      BY <2>1, <2>2, <2>3 DEF AnyName
  <1>1. a.ok /\ Recount(a, r, i, OneMore(a.node[i].links))
    <2>1. LinkSteps(s, d, i, a, r)
      BY LinkIs
    <2> QED
      BY <1>0, <2>1 DEF LinkSteps
  <1>2. Good(a) /\ Puts(s, a, d, name, i) /\ Type(a) = Type(s) /\ Links(a) = L
    BY <1>0, <1>1, AddEntryDoes
  <1>3. Table(a) = t /\ Up(a) = Up(s) /\ Self(a) = Self(s)
    <2>1. Views(s, a, d, name, i)
      BY <1>0, <1>2, PutsMeans DEF Good
    <2> QED
      BY <2>1 DEF Views
  <1>4. Tree(Type(s), [L EXCEPT ![i] = L[i] + 1], t, Up(s), Self(s))
    BY <1>0, TreeAddName DEF Sound, TreeOf
  <1> HIDE DEF a, t
  <1>5. OneMore(a.node[i].links) = L[i] + 1 /\ L[i] + 1 \in Nat
    <2>1. L[i] \in Nat /\ a.node[i].links = L[i]
      BY <1>0, <1>2, ViewAt DEF Counts
    <2>2. [L EXCEPT ![i] = L[i] + 1][i] = Count(t, i)
      BY <1>4 DEF Tree, Linked
    <2>3. L[i] + 1 = Count(t, i)
      BY <1>0, <2>2 DEF Counts
    <2>4. L[i] + 1 \in 0 .. LinkSpan - 1
      BY <2>3, Finite
    <2> QED
      BY <2>1, <2>4, Constants DEF OneMore
  <1>6. Recount(a, r, i, L[i] + 1)
    BY <1>1, <1>5
  <1>7. /\ Good(r)
        /\ Type(r) = Type(a) /\ Links(r) = [Links(a) EXCEPT ![i] = L[i] + 1]
        /\ Table(r) = Table(a) /\ Up(r) = Up(a) /\ Self(r) = Self(a)
    BY <1>2, <1>5, <1>6, RecountDoes DEF Relinked
  <1>8. Table(r) = [Table(s) EXCEPT ![<<d, name>>] = i]
    BY <1>3, <1>7 DEF t
  <1> QED
    BY <1>2, <1>3, <1>4, <1>7, <1>8 DEF Sound, TreeOf

\* The counts of a new directory and of its parent.
LEMMA DirCountsDo ==
    ASSUME NEW s, Good(s), NEW i \in Inodes, NEW d \in Inodes, i # d,
           OneMore(s.node[d].links) \in Nat, NEW r, DirCounts(s, r, i, d)
    PROVE  /\ Good(r) /\ Type(r) = Type(s)
           /\ Links(r) = [Links(s) EXCEPT ![i] = 2, ![d] = OneMore(@)]
           /\ Table(r) = Table(s) /\ Up(r) = Up(s) /\ Self(r) = Self(s)
  <1> DEFINE h == [s EXCEPT !.node[i].links = 2]
             k == OneMore(s.node[d].links)
  <1>0. s \in Image /\ Links(s) \in Counts
    BY ImageIs DEF Good, Counts
  <1>1. Recount(s, h, i, 2)
    BY DEF Recount
  <1>2. Relinked(s, h, i, 2)
    BY <1>1, RecountDoes
  <1>3. h.node[d] = s.node[d]
    BY <1>0 DEF Image
  <1>4. r = [h EXCEPT !.node[d].links = OneMore(h.node[d].links)]
    BY <1>0 DEF DirCounts, Image
  <1> HIDE DEF h
  <1>5. Recount(h, r, d, k) /\ k \in Nat
    BY <1>3, <1>4 DEF Recount
  <1>6. Good(h)
    BY <1>2 DEF Relinked
  <1>7. Relinked(h, r, d, k)
    BY <1>5, <1>6, RecountDoes
  <1>8. k = OneMore(Links(s)[d])
    BY ViewAt
  <1> HIDE DEF k
  <1>9. Links(r) = [[Links(s) EXCEPT ![i] = 2] EXCEPT ![d] = k]
    BY <1>2, <1>7 DEF Relinked
  <1>10. Links(r) = [Links(s) EXCEPT ![i] = 2, ![d] = OneMore(@)]
    BY <1>0, <1>8, <1>9 DEF Counts
  <1> QED
    BY <1>2, <1>7, <1>10 DEF Relinked

\* create_inode and link_impl: a new directory.
LEMMA NewDirDoes ==
    ASSUME NamesFitLinks, NEW s, Sound(s), NEW d \in Inodes, NEW name \in Names,
           Type(s)[d] = "dir", ~Found(s, d, name), NEW cost \in Nat,
           NEW c, c = Create(s, "dir"), c.ok, NEW i, i = Min(FreeInodes(s)),
           NEW r, r = Link(c, d, name, i, cost), r.ok
    PROVE  /\ Sound(r) /\ i \in Inodes /\ i # d /\ Type(r) = [Type(s) EXCEPT ![i] = "dir"]
           /\ Table(r) = [Table(s) EXCEPT ![<<d, name>>] = i] /\ Up(r) = [Up(s) EXCEPT ![i] = d]
  <1> DEFINE q == <<d, name>>
             a == AddEntry(c, d, name, i, cost)
             b == AddEntry(a, i, Dot, i, 1)
             e == AddEntry(b, i, DotDot, d, 0)
             T == Type(s)
             L == Links(s)
             R == [T EXCEPT ![i] = "dir"]
             M == [L EXCEPT ![i] = 0]
             t == [Table(s) EXCEPT ![q] = i]
             v == [Up(s) EXCEPT ![i] = d]
             g == [Self(s) EXCEPT ![i] = i]
  <1>0. /\ s \in Image /\ Good(s) /\ q \in Slot /\ q[1] = d
        /\ T \in Typings /\ L \in Counts /\ Table(s)[q] = 0
        /\ name \in AnyName /\ Dot \in AnyName /\ DotDot \in AnyName /\ "dir" \in Types
    BY SoundIs, SlotIs, NamedIs DEF AnyName, Types
  <1>1. /\ i \in Inodes /\ T[i] = "none" /\ Good(c) /\ Type(c) = R /\ Links(c) = M
        /\ Table(c) = Table(s) /\ Up(c) = Up(s) /\ Self(c) = Self(s)
    BY <1>0, SoundIs, CreateDoes
  <1>2. i # d /\ IsDir(c, i)
    BY <1>0, <1>1, ViewAt DEF IsDir, Typings
  <1>3. a.ok /\ b.ok /\ e.ok /\ DirCounts(e, r, i, d)
    <2>1. LinkSteps(c, d, i, a, r)
      BY LinkIs
    <2> QED
      BY <1>2, <2>1 DEF LinkSteps
  <1> HIDE DEF R, M
  <1>4. /\ Good(a) /\ Type(a) = R /\ Links(a) = M
        /\ Table(a) = t /\ Up(a) = Up(s) /\ Self(a) = Self(s)
    <2>1. Good(a) /\ Puts(c, a, d, name, i) /\ Type(a) = Type(c) /\ Links(a) = Links(c)
      BY <1>0, <1>1, <1>3, AddEntryDoes
    <2>2. Table(a) = [Table(c) EXCEPT ![q] = i] /\ Up(a) = Up(c) /\ Self(a) = Self(c)
      <3>1. Views(c, a, d, name, i)
        BY <1>0, <1>1, <2>1, PutsMeans DEF Good
      <3> QED
        BY <1>0, <3>1 DEF Views
    <2> QED
      BY <1>1, <2>1, <2>2
  <1> HIDE DEF a, t
  <1>5. /\ Good(b) /\ Type(b) = R /\ Links(b) = M
        /\ Table(b) = t /\ Up(b) = Up(s) /\ Self(b) = g
    <2>1. Good(b) /\ Puts(a, b, i, Dot, i) /\ Type(b) = Type(a) /\ Links(b) = Links(a)
      BY <1>0, <1>1, <1>3, <1>4, AddEntryDoes
    <2>2. Table(b) = Table(a) /\ Up(b) = Up(a) /\ Self(b) = [Self(a) EXCEPT ![i] = i]
      <3>1. Views(a, b, i, Dot, i)
        BY <1>0, <1>1, <1>4, <2>1, PutsMeans DEF Good
      <3> QED
        BY <1>0, <3>1 DEF Views
    <2> QED
      BY <1>4, <2>1, <2>2
  <1> HIDE DEF b, g
  <1>6. /\ Good(e) /\ Type(e) = R /\ Links(e) = M
        /\ Table(e) = t /\ Up(e) = v /\ Self(e) = g
    <2>1. Good(e) /\ Puts(b, e, i, DotDot, d) /\ Type(e) = Type(b) /\ Links(e) = Links(b)
      BY <1>0, <1>1, <1>3, <1>5, AddEntryDoes
    <2>2. Table(e) = Table(b) /\ Up(e) = [Up(b) EXCEPT ![i] = d] /\ Self(e) = Self(b)
      <3>1. Views(b, e, i, DotDot, d)
        BY <1>0, <1>1, <1>5, <2>1, PutsMeans DEF Good
      <3> QED
        BY <1>0, <3>1 DEF Views
    <2> QED
      BY <1>5, <2>1, <2>2
  <1> HIDE DEF e, v
  <1>7. Tree(R, [L EXCEPT ![i] = 2, ![d] = @ + 1], t, v, g)
    <2>1. Tree(T, L, Table(s), Up(s), Self(s)) /\ T[q[1]] = "dir"
      BY DEF Sound, TreeOf
    <2>2. WithDir(T, L, Table(s), Up(s), Self(s), i, q)
      <3> HIDE DEF T, L, q
      <3> QED
        BY <1>0, <1>1, <2>1, TreeNewDir
    <2> QED
      BY <1>0, <2>2 DEF R, t, v, g, WithDir
  <1>8. OneMore(L[d]) = L[d] + 1 /\ L[d] \in Nat
    <2>1. L[d] \in Nat /\ R[d] = "dir"
      BY <1>0, <1>2 DEF Counts, R, Typings
    <2>2. [L EXCEPT ![i] = 2, ![d] = @ + 1][d] = 2 + Subs(R, t, d)
      BY <1>7, <2>1 DEF Tree, Linked
    <2>3. L[d] + 1 = 2 + Subs(R, t, d)
      BY <1>0, <1>2, <2>2 DEF Counts
    <2>4. Subs(R, t, d) \in Nat /\ Subs(R, t, d) + 2 < LinkSpan
      BY Finite
    <2>5. L[d] + 1 \in 0 .. LinkSpan - 1
      BY <2>1, <2>3, <2>4, Constants
    <2> QED
      BY <2>1, <2>5, Constants DEF OneMore
  <1>9. e.node[d].links = L[d]
    BY <1>0, <1>2, <1>6, ViewAt DEF M, Counts
  <1>10. /\ Good(r) /\ Type(r) = Type(e)
         /\ Links(r) = [Links(e) EXCEPT ![i] = 2, ![d] = OneMore(@)]
         /\ Table(r) = Table(e) /\ Up(r) = Up(e) /\ Self(r) = Self(e)
    <2>1. OneMore(e.node[d].links) \in Nat
      BY <1>8, <1>9
    <2> QED
      BY <1>1, <1>2, <1>3, <1>6, <2>1, DirCountsDo
  <1>11. Links(r) = [L EXCEPT ![i] = 2, ![d] = @ + 1]
    BY <1>0, <1>1, <1>2, <1>6, <1>8, <1>10 DEF M, Counts
  <1>12. Sound(r) /\ Type(r) = R
    BY <1>6, <1>7, <1>10, <1>11 DEF Sound, TreeOf
  <1>13. Table(r) = t /\ Up(r) = v
    BY <1>6, <1>10
  <1> QED
    BY <1>1, <1>2, <1>12, <1>13 DEF R, t, v

\* fuse_create, fuse_mknod, fuse_mkdir and fuse_symlink.
LEMMA CreateNamedDoes ==
    ASSUME NamesFitLinks, NEW s, Sound(s), NEW d \in Inodes, NEW name \in Names, NEW type \in Types,
           Type(s)[d] = "dir", ~Found(s, d, name), NEW cost \in Nat,
           NEW c, c = Create(s, type), c.ok, NEW i, i = Min(FreeInodes(s)),
           NEW r, r = Fill(Link(c, d, name, i, cost), i, type), r.ok
    PROVE  Sound(r) /\ Keeps(s, r)
  <1> DEFINE h == Link(c, d, name, i, cost)
             T == Type(s)
             R == [T EXCEPT ![i] = type]
  <1>0. /\ s \in Image /\ Good(s) /\ T \in Typings
        /\ \A e \in Inodes : \A n \in DOMAIN s.ent[e] : T[s.ent[e][n].ino] # "none"
    BY SoundIs
  <1>1. /\ i \in Inodes /\ T[i] = "none" /\ Good(c) /\ c.ent = s.ent
        /\ Type(c) = R /\ Links(c) = [Links(s) EXCEPT ![i] = 0]
        /\ Table(c) = Table(s) /\ Up(c) = Up(s) /\ Self(c) = Self(s)
    BY <1>0, CreateDoes
  <1>2. h.ok
    BY DEF Fill
  <1> HIDE DEF h
  <1>3. /\ Sound(h) /\ Type(h) = R /\ Table(h) = [Table(s) EXCEPT ![<<d, name>>] = i]
        /\ type = "dir" => i # d /\ Up(h) = [Up(s) EXCEPT ![i] = d]
        /\ type # "dir" => Up(h) = Up(s)
    <2>1. CASE type = "dir"
      BY <1>2, <2>1, NewDirDoes DEF h
    <2>2. CASE type # "dir"
      <3>1. TreeOf(c)
        <4>1. WithFile(T, Links(s), Table(s), Up(s), Self(s), i, type)
          BY <1>1, <2>2, TreeNewFile DEF Sound, TreeOf
        <4> QED
          BY <1>1, <4>1 DEF TreeOf, WithFile
      <3>2. R[i] = type /\ R[d] = "dir" /\ type \notin {"none", "dir"}
        BY <1>0, <1>1, <2>2, Constants DEF Typings
      <3>3. name \notin DOMAIN c.ent[d]
        BY <1>1, NamedIs
      <3>4. ~Found(c, d, name)
        BY <3>3, NamedIs
      <3>5. Sound(c)
        BY <1>1, <3>1 DEF Sound
      <3>6. Type(c)[d] = "dir" /\ Type(c)[i] \notin {"none", "dir"}
        BY <1>1, <3>2
      <3>7. /\ Sound(h) /\ Type(h) = Type(c) /\ Up(h) = Up(c)
            /\ Table(h) = [Table(c) EXCEPT ![<<d, name>>] = i]
        <4>1. h = Link(c, d, name, i, cost)
          BY DEF h
        <4> HIDE DEF R, T
        <4> QED
          BY <1>1, <1>2, <3>4, <3>5, <3>6, <4>1, LinkFileDoes
      <3> QED
        BY <1>1, <2>2, <3>7
    <2> QED
      BY <2>1, <2>2
  <1>4. SameTree(h, r)
    <2>1. r = Fill(h, i, type)
      BY DEF h
    <2> QED
      BY <1>1, <1>3, <2>1, FillDoes DEF Sound
  <1>5. Sound(r) /\ Type(r) = R /\ Table(r) = Table(h) /\ Up(r) = Up(h)
    BY <1>3, <1>4, SameTreeSound DEF SameTree
  <1>6. Frees(s, r)
    BY <1>0, <1>1, <1>5, Constants DEF Frees, Typings
  <1>7. ASSUME AllNamed(T, Table(s)) PROVE AllNamed(R, Table(r))
    <2> DEFINE q == <<d, name>>
    <2>1. q \in Slot /\ Table(s)[q] = 0 /\ Table(s) \in Tables
      BY NamedIs, SoundIs
    <2>2. Table(r)[q] = i /\ \A o \in Slot : o # q => Table(r)[o] = Table(s)[o]
      BY <1>3, <1>5, <2>1 DEF Tables
    <2>3. \A x \in Inodes : x # i => R[x] = T[x]
      BY <1>0 DEF Typings
    <2> HIDE DEF q, R, T
    <2> SUFFICES ASSUME NEW x \in Inodes, R[x] \notin {"none", "dir"}
                 PROVE  \E o \in Slot : Table(r)[o] = x
      BY DEF AllNamed
    <2>4. CASE x = i
      BY <2>1, <2>2, <2>4
    <2>5. CASE x # i
      <3>1. PICK o \in Slot : Table(s)[o] = x
        BY <1>7, <2>3, <2>5 DEF AllNamed
      <3> QED
        BY <2>1, <2>2, <3>1, Constants
    <2> QED
      BY <2>4, <2>5
  <1>8. ASSUME NoLoop(T, Up(s)) PROVE NoLoop(R, Up(r))
    <2>0. Up(s) \in Ups /\ \A x \in Inodes : Up(s)[x] # i
      BY <1>1, SoundIs, Constants
    <2>1. CASE type = "dir"
      <3>1. i # d /\ Up(r) = [Up(s) EXCEPT ![i] = d] /\ R = [T EXCEPT ![i] = "dir"]
        BY <1>3, <1>5, <2>1
      <3>2. T \in Typings /\ i \in Inodes /\ NoLoop(T, Up(s))
        BY <1>0, <1>1, <1>8
      <3> HIDE DEF T, R
      <3>3. NoLoop([T EXCEPT ![i] = "dir"], [Up(s) EXCEPT ![i] = d])
        BY <2>0, <3>1, <3>2, NoLoopNew
      <3> QED
        BY <3>1, <3>3
    <2>2. CASE type # "dir"
      <3> DEFINE A == {}
      <3>1. Upper(Up(s), A)
        BY DEF Upper
      <3>2. \A x \in Inodes \ {Root} : R[x] = "dir" => T[x] = "dir" /\ Up(r)[x] = Up(s)[x]
        BY <1>0, <1>3, <1>5, <2>2 DEF Typings
      <3> HIDE DEF A, T, R
      <3> QED
        BY <1>8, <3>1, <3>2, NoLoopMoved
    <2> QED
      BY <2>1, <2>2
  <1>9. Whole(s) => Whole(r)
    BY <1>5, <1>7, <1>8 DEF Whole
  <1> QED
    BY <1>5, <1>6, <1>9 DEF Keeps

-----------------------------------------------------------------------------
(* Rename and exchange. *)

\* Without indices the look-up of ".." never fails, and leads to a directory.
LEMMA DotDotFound ==
    ASSUME NEW s, Sound(s), ~DirIndex, NEW d \in Inodes, Type(s)[d] = "dir"
    PROVE  /\ Found(s, d, DotDot) /\ Target(s, d, DotDot) = Up(s)[d]
           /\ Up(s)[d] \in Inodes /\ Type(s)[Up(s)[d]] = "dir"
  <1>1. Up(s)[d] # 0
    <2>1. CASE d = Root
      BY <2>1, Constants DEF Sound, TreeOf, Tree, Dots
    <2>2. CASE d # Root
      <3>1. PICK q \in Slot : Up(s)[d] = q[1]
        BY <2>2 DEF Sound, TreeOf, Tree, OneName
      <3> QED
        BY <3>1, SlotIs, Constants
    <2> QED
      BY <2>1, <2>2
  <1>2. Up(s)[d] = At(s, d, DotDot)
    BY DEF Up
  <1>3. DotDot \in DOMAIN s.ent[d] /\ Up(s)[d] = s.ent[d][DotDot].ino
    BY <1>1, <1>2 DEF At
  <1>4. s.node[d].indexed \in Flag
    BY SoundIs, NodeIs
  <1>5. ~s.node[d].indexed
    BY <1>4 DEF Flag
  <1>6. Up(s)[d] \in Inodes /\ Type(s)[Up(s)[d]] = "dir"
    BY <1>1, SoundIs
  <1> QED
    BY <1>3, <1>5, <1>6 DEF Found, Target

\* The walk of dir_is_ancestor is the way up (fuse_interface/mod.rs:708).
LEMMA ClimbIs ==
    ASSUME NamesFitLinks, NEW s, Sound(s), ~DirIndex, NEW e \in Inodes, Type(s)[e] = "dir"
    PROVE  \E up : /\ WayUp(Type(s), Up(s), up, Cardinality(Inodes)) /\ up[0] = e
                   /\ Climb(s, e) = {up[k] : k \in 0 .. Cardinality(Inodes)}
  <1> DEFINE n == Cardinality(Inodes)
             V == {x \in Inodes : Type(s)[x] = "dir"}
             next(x) == IF x = Root THEN Root ELSE Up(s)[x]
             F == [p \in (1 .. n) \X V |-> next(p[2])]
             up[k \in 0 .. n] ==
                IF k = 0 THEN e
                ELSE IF up[k - 1] = Root \/ ~Found(s, up[k - 1], DotDot) THEN up[k - 1]
                ELSE Target(s, up[k - 1], DotDot)
  <1>0. n \in Nat
    BY FS_CardinalityType DEF NamesFitLinks
  <1>1. \A x \in V : /\ next(x) \in V
                     /\ next(x) = IF x = Root \/ ~Found(s, x, DotDot) THEN x ELSE Target(s, x, DotDot)
    BY DotDotFound, Constants
  <1>2. \A k \in 1 .. n : \A x \in V : F[<<k, x>>] = next(x)
    OBVIOUS
  <1>3. \E f : f \in Stepwise(n, V, e, F)
    <2> HIDE DEF n, F, next
    <2>1. StaysIn(n, V, F)
      BY <1>1, <1>2 DEF StaysIn
    <2>2. e \in V
      OBVIOUS
    <2> HIDE DEF V
    <2> QED
      BY <1>0, <2>1, <2>2, StepwiseExists
  <1> HIDE DEF F
  <1>4. PICK f \in [0 .. n -> V] : f[0] = e /\ \A k \in 1 .. n : f[k] = F[<<k, f[k - 1]>>]
    BY <1>3 DEF Stepwise
  <1>5. \A k \in 1 .. n : f[k - 1] \in V /\ f[k] = next(f[k - 1])
    <2> HIDE DEF n, V, next
    <2> SUFFICES ASSUME NEW k \in 1 .. n PROVE f[k - 1] \in V /\ f[k] = next(f[k - 1])
      OBVIOUS
    <2>1. k - 1 \in 0 .. n
      BY <1>0
    <2>2. f[k - 1] \in V
      BY <1>4, <2>1
    <2>3. f[k] = F[<<k, f[k - 1]>>]
      BY <1>4
    <2> QED
      BY <1>2, <2>2, <2>3
  <1>6. WayUp(Type(s), Up(s), f, n)
    <2>1. f \in [0 .. n -> Inodes] /\ \A k \in 0 .. n : Type(s)[f[k]] = "dir"
      BY <1>4
    <2> HIDE DEF n, V
    <2>2. \A k \in 1 .. n : f[k] = IF f[k - 1] = Root THEN Root ELSE Up(s)[f[k - 1]]
      BY <1>5
    <2> QED
      BY <2>1, <2>2 DEF WayUp
  <1>7. f = [k \in 0 .. n |-> IF k = 0 THEN e
                              ELSE IF f[k - 1] = Root \/ ~Found(s, f[k - 1], DotDot) THEN f[k - 1]
                              ELSE Target(s, f[k - 1], DotDot)]
    <2> HIDE DEF n, V, next
    <2>1. \A k \in 1 .. n : f[k] = IF f[k - 1] = Root \/ ~Found(s, f[k - 1], DotDot) THEN f[k - 1]
                                   ELSE Target(s, f[k - 1], DotDot)
      BY <1>1, <1>5
    <2>2. \A k \in 0 .. n : k = 0 \/ k \in 1 .. n
      BY <1>0
    <2> QED
      BY <1>4, <2>1, <2>2
  <1>8. up = [k \in 0 .. n |-> IF k = 0 THEN e
                               ELSE IF up[k - 1] = Root \/ ~Found(s, up[k - 1], DotDot) THEN up[k - 1]
                               ELSE Target(s, up[k - 1], DotDot)]
    BY <1>7, Zenon
  <1>9. Climb(s, e) = {up[k] : k \in DOMAIN up}
    BY DEF Climb
  <1> HIDE DEF up
  <1>10. DOMAIN up = 0 .. n
    BY <1>8, Zenon
  <1>11. up[0] = f[0]
    <2>1. 0 \in 0 .. n
      BY <1>0
    <2> HIDE DEF n, V
    <2> QED
      BY <1>4, <1>8, <2>1
  <1>12. \A k \in 1 .. n : up[k] = IF up[k - 1] = Root \/ ~Found(s, up[k - 1], DotDot) THEN up[k - 1]
                                   ELSE Target(s, up[k - 1], DotDot)
    <2>1. \A k \in 1 .. n : k \in 0 .. n /\ k # 0
      BY <1>0
    <2> HIDE DEF n
    <2> QED
      BY <1>8, <2>1
  <1>13. 0 .. n \subseteq {k \in 0 .. n : up[k] = f[k]}
    <2> DEFINE S == {k \in 0 .. n : up[k] = f[k]}
    <2>1. 0 \in S
      BY <1>0, <1>11
    <2>2. \A k \in 1 .. n : k - 1 \in S => k \in S
      <3> HIDE DEF n, V, next
      <3> SUFFICES ASSUME NEW k \in 1 .. n, up[k - 1] = f[k - 1] PROVE k \in S
        OBVIOUS
      <3>1. up[k] = f[k]
        BY <1>1, <1>5, <1>12
      <3>2. k \in 0 .. n
        BY <1>0
      <3> QED
        BY <3>1, <3>2
    <2> HIDE DEF n, S
    <2>3. 0 .. n \subseteq S
      BY <1>0, <2>1, <2>2, UpTo
    <2> QED
      BY <2>3 DEF S
  <1>14. Climb(s, e) = {f[k] : k \in 0 .. n}
    <2> HIDE DEF n
    <2> QED
      BY <1>9, <1>10, <1>13
  <1> QED
    BY <1>4, <1>6, <1>14

\* Nothing that dir_is_ancestor meets is below where the walk begins, and ".."
\* does not lead out of it.
LEMMA ClimbIsUpper ==
    ASSUME NamesFitLinks, NEW s, Sound(s), ~DirIndex, NoLoop(Type(s), Up(s)),
           NEW e \in Inodes, Type(s)[e] = "dir"
    PROVE  /\ Upper(Up(s), Climb(s, e)) /\ e \in Climb(s, e)
           /\ \A i \in Inodes \ {Root} : Type(s)[i] = "dir" /\ Up(s)[i] = e => i \notin Climb(s, e)
  <1> DEFINE n == Cardinality(Inodes)
  <1>0. n \in Nat /\ IsFiniteSet(Inodes)
    BY FS_CardinalityType DEF NamesFitLinks
  <1>1. PICK up : WayUp(Type(s), Up(s), up, n) /\ up[0] = e /\ Climb(s, e) = {up[k] : k \in 0 .. n}
    BY ClimbIs
  <1>2. Upper(Up(s), Climb(s, e))
    BY <1>0, <1>1, WayUpIsUpper
  <1> HIDE DEF n
  <1>3. e \in Climb(s, e)
    <2>1. 0 \in 0 .. n
      BY <1>0
    <2> QED
      BY <1>1, <2>1
  <1>4. ASSUME NEW i \in Inodes \ {Root}, Up(s)[i] = e, i \in Climb(s, e)
        PROVE  FALSE
    <2>1. PICK k \in 0 .. n : i = up[k]
      BY <1>1, <1>4
    <2>2. 0 \in 0 .. k /\ up[k] # Root
      BY <2>1
    <2>3. Up(s)[up[k]] # up[0]
      BY <1>0, <1>1, <2>2, NoWayBack
    <2> QED
      BY <1>1, <1>4, <2>1, <2>3
  <1> QED
    BY <1>2, <1>3, <1>4

\* Counts go from d to e.
MovesCredit(s, r, d, e, n) ==
    /\ Good(r) /\ Type(r) = Type(s) /\ Table(r) = Table(s) /\ Up(r) = Up(s) /\ Self(r) = Self(s)
    /\ \A x \in Inodes : Links(r)[x] = IF x = d THEN Links(s)[x] - n
                                       ELSE IF x = e THEN Links(s)[x] + n ELSE Links(s)[x]

\* adjust_dir_links.
LEMMA AdjustLinksDoes ==
    ASSUME NEW s, Good(s), NEW d \in Inodes, NEW n \in Int, Links(s)[d] + n \in Nat,
           NEW r, r = AdjustLinks(s, d, n)
    PROVE  Relinked(s, r, d, Links(s)[d] + n)
  <1> DEFINE k == Links(s)[d] + n
  <1>1. Max({k, 0}) = k
    <2>1. k \in Nat
      OBVIOUS
    <2> HIDE DEF k
    <2>2. k \in {k, 0} /\ \A y \in {k, 0} : k >= y /\ (y >= k => y = k)
      BY <2>1
    <2> QED
      BY <2>2 DEF Max
  <1>2. s.node[d].links = Links(s)[d]
    BY ViewAt
  <1>3. Recount(s, r, d, k)
    BY <1>1, <1>2 DEF AdjustLinks, Recount
  <1> HIDE DEF k
  <1>4. k \in Nat
    BY DEF k
  <1>5. Relinked(s, r, d, k)
    BY <1>3, <1>4, RecountDoes
  <1> QED
    BY <1>5 DEF k

\* A directory that moves between parents takes its link with it.
LEMMA CreditMovesDoes ==
    ASSUME NEW s, Good(s), NEW d \in Inodes, NEW e \in Inodes, d # e, NEW n \in -1 .. 1,
           Links(s)[d] >= 2, Links(s)[e] >= 2, NEW r, r = CreditMoves(s, d, e, n)
    PROVE  MovesCredit(s, r, d, e, n)
  <1> DEFINE a == AdjustLinks(s, d, -n)
             L == Links(s)
  <1>1. s.ok /\ L \in Counts
    BY ImageIs DEF Good, Counts
  <1>2. L[d] \in Nat /\ L[e] \in Nat /\ L[d] + (-n) \in Nat /\ L[e] + n \in Nat
        /\ -n \in Int /\ n \in Int
    BY <1>1 DEF Counts
  <1>3. Relinked(s, a, d, L[d] + (-n))
    BY <1>2, AdjustLinksDoes
  <1>4. r = AdjustLinks(a, e, n)
    BY <1>1 DEF CreditMoves
  <1> HIDE DEF a, L
  <1>5. Good(a) /\ Links(a) = [L EXCEPT ![d] = L[d] + (-n)]
    BY <1>3 DEF Relinked, L
  <1>6. Links(a)[e] = L[e]
    BY <1>1, <1>5 DEF Counts
  <1>7. Relinked(a, r, e, Links(a)[e] + n)
    BY <1>2, <1>4, <1>5, <1>6, AdjustLinksDoes
  <1>8. Links(r) = [[L EXCEPT ![d] = L[d] + (-n)] EXCEPT ![e] = L[e] + n]
    BY <1>5, <1>6, <1>7 DEF Relinked
  <1>9. \A x \in Inodes : Links(r)[x] = IF x = d THEN L[x] - n
                                        ELSE IF x = e THEN L[x] + n ELSE L[x]
    BY <1>1, <1>2, <1>8 DEF Counts
  <1> QED
    BY <1>3, <1>7, <1>9 DEF MovesCredit, Relinked, L

\* ".." of a directory is set.
Repoints(s, r, i, e) ==
    /\ Good(r) /\ Type(r) = Type(s) /\ Links(r) = Links(s) /\ Table(r) = Table(s) /\ Self(r) = Self(s)
    /\ \A x \in Inodes : Up(r)[x] = IF x = i /\ Type(s)[x] = "dir" THEN e ELSE Up(s)[x]

\* ".." of what moved is set, when that is a directory.
LEMMA RepointedDoes ==
    ASSUME NEW s, Good(s), NEW i \in Inodes, NEW e \in Inodes, NEW r, r = Repointed(s, i, e), r.ok
    PROVE  Repoints(s, r, i, e)
  <1>0. s \in Image /\ s.ok /\ Up(s) \in Ups /\ DotDot \in AnyName /\ Type(s)[i] = s.node[i].type
    BY ImageIs, ViewAt DEF Good, Ups, AnyName
  <1>1. CASE Type(s)[i] = "dir"
    <2>1. r = SetEntryTarget(s, i, DotDot, e)
      BY <1>0, <1>1 DEF Repointed, IsDir
    <2>2. Good(r) /\ Puts(s, r, i, DotDot, e) /\ Type(r) = Type(s) /\ Links(r) = Links(s)
      BY <1>0, <2>1, SetEntryTargetDoes
    <2>3. Views(s, r, i, DotDot, e)
      BY <1>0, <2>2, PutsMeans DEF Good
    <2>4. Up(r) = [Up(s) EXCEPT ![i] = e] /\ Table(r) = Table(s) /\ Self(r) = Self(s)
      BY <2>3 DEF Views
    <2>5. \A x \in Inodes : Up(r)[x] = IF x = i /\ Type(s)[x] = "dir" THEN e ELSE Up(s)[x]
      BY <1>0, <1>1, <2>4 DEF Ups
    <2> QED
      BY <2>2, <2>4, <2>5 DEF Repoints
  <1>2. CASE Type(s)[i] # "dir"
    <2>1. r = s
      BY <1>0, <1>2 DEF Repointed, IsDir
    <2> QED
      BY <1>2, <2>1 DEF Repoints
  <1> QED
    BY <1>1, <1>2

\* The image whose names p and q lead where the other led is sound.
LEMMA Moved ==
    ASSUME NamesFitLinks, NEW s, Sound(s), NEW p \in Slot, NEW q \in Slot, p # q,
           Table(s)[p] # 0, Table(s)[p] # Table(s)[q], Type(s)[q[1]] = "dir",
           NEW r, Good(r), Type(r) = Type(s), Self(r) = Self(s),
           Sets([Table(s) EXCEPT ![p] = Table(s)[q]], Table(r), q, Table(s)[p]),
           UpsSwap(Type(s), Table(s), Up(s), Up(r), p, q),
           LinksSwap(Type(s), Table(s), Links(s), Links(r), p, q)
    PROVE  Sound(r)
  <1>1. Links(r) \in Counts /\ Up(r) \in Ups
    BY ImageIs DEF Good, Counts, Ups
  <1>2. Tree(Type(s), Links(s), Table(s), Up(s), Self(s))
    BY DEF Sound, TreeOf
  <1>3. Tree(Type(s), Links(r), Table(r), Up(r), Self(s))
    BY <1>1, <1>2, TreeSwap
  <1> QED
    BY <1>3 DEF Sound, TreeOf

\* ".." of a directory that p names.
LEMMA UpIs ==
    ASSUME NEW s, Sound(s), NEW p \in Slot, Table(s)[p] # 0, Type(s)[Table(s)[p]] = "dir"
    PROVE  Up(s)[Table(s)[p]] = p[1]
  <1>1. Table(s)[p] \in Inodes \ {Root}
    BY SoundIs DEF Sound, TreeOf, Tree, Leads
  <1>2. PICK o \in Slot : /\ Up(s)[Table(s)[p]] = o[1]
                          /\ \A x \in Slot : Table(s)[x] = Table(s)[p] => x = o
    BY <1>1 DEF Sound, TreeOf, Tree, OneName
  <1> QED
    BY <1>2

\* A directory has at least two links.
LEMMA LinksOfDir ==
    ASSUME NamesFitLinks, NEW s, Sound(s), NEW d \in Inodes, Type(s)[d] = "dir"
    PROVE  Links(s)[d] >= 2
  <1>1. Links(s)[d] = 2 + Subs(Type(s), Table(s), d)
    BY DEF Sound, TreeOf, Tree, Linked
  <1>2. Subs(Type(s), Table(s), d) \in Nat
    BY Finite
  <1> QED
    BY <1>1, <1>2

\* The old target of the new name goes, and nothing that the rename is about.
LEMMA ReplaceDoes ==
    ASSUME NamesFitLinks, NEW s, Sound(s), NEW p \in Slot, NEW e \in Inodes, NEW newname \in Names,
           Table(s)[p] # 0, Type(s)[e] = "dir",
           Found(s, e, newname) => Target(s, e, newname) # Table(s)[p],
           NEW r, r = Replace(s, Table(s)[p], e, newname), r.ok
    PROVE  /\ Sound(r) /\ Keeps(s, r)
           /\ Table(r)[p] = Table(s)[p] /\ Table(r)[<<e, newname>>] = 0
           /\ Type(r)[p[1]] = "dir" /\ Type(r)[e] = "dir"
           /\ Type(r)[Table(s)[p]] = Type(s)[Table(s)[p]]
           /\ \A x \in Inodes : Type(r)[x] # "none" => Type(r)[x] = Type(s)[x] /\ Up(r)[x] = Up(s)[x]
  <1> DEFINE i == Table(s)[p]
             q == <<e, newname>>
             j == Table(s)[q]
  <1>0. /\ s \in Image /\ s.ok /\ q \in Slot /\ q[1] = e /\ p[1] \in Inodes /\ Table(s) \in Tables
        /\ i \in Inodes /\ Type(s)[p[1]] = "dir" /\ Type(s)[i] # "none"
    BY SoundIs, SlotIs
  <1>1. CASE ~Found(s, e, newname)
    <2>1. r = s
      BY <1>1 DEF Replace
    <2>2. j = 0
      BY <1>1, NamedIs
    <2>3. Keeps(s, r)
      BY <2>1 DEF Frees, Keeps
    <2> QED
      BY <1>0, <2>1, <2>2, <2>3
  <1>2. CASE Found(s, e, newname)
    <2>1. j \in Inodes /\ Target(s, e, newname) = j /\ j # i
      BY <1>2, NamedSound, NamedIs
    <2>2. Type(s)[j] = s.node[j].type /\ Type(s)[i] = s.node[i].type
      BY <1>0, <2>1, ViewAt
    <2>3. IsDir(s, j) = IsDir(s, i)
      BY <1>0, <1>2, <2>1 DEF Replace, Failed, Image
    <2>4. /\ Sound(r) /\ Keeps(s, r) /\ Leaves(s, r, j) /\ j # e
          /\ Table(r) = [Table(s) EXCEPT ![q] = 0]
      <3>1. CASE Type(s)[j] = "dir"
        <4>1. r = DirRemove(s, e, newname)
          BY <1>2, <2>1, <2>2, <2>3, <3>1 DEF Replace, IsDir
        <4> QED
          BY <2>1, <3>1, <4>1, DirRemoveDoes
      <3>2. CASE Type(s)[j] # "dir"
        <4>1. r = Unlink(s, e, newname)
          BY <1>2, <2>1, <2>2, <2>3, <3>2 DEF Replace, IsDir
        <4> QED
          BY <2>1, <3>2, <4>1, UnlinkDoes
      <3> QED
        BY <3>1, <3>2
    <2>5. Table(r)[p] = i /\ Table(r)[q] = 0
      BY <1>0, <2>1, <2>4 DEF Tables
    <2>6. Type(r)[p[1]] = "dir"
      <3>1. Sound(r) /\ Table(r)[p] # 0
        BY <1>0, <2>4, <2>5, Constants
      <3> QED
        BY <1>0, <3>1, SoundIs
    <2>7. /\ \A x \in Inodes \ {j} : Type(r)[x] = Type(s)[x]
          /\ \A x \in Inodes : Type(r)[x] # "none" => Type(r)[x] = Type(s)[x] /\ Up(r)[x] = Up(s)[x]
      BY <2>4 DEF Leaves
    <2>8. Type(r)[e] = "dir" /\ Type(r)[i] = Type(s)[i]
      BY <1>0, <2>1, <2>4, <2>7
    <2> QED
      BY <2>4, <2>5, <2>6, <2>7, <2>8
  <1> QED
    BY <1>1, <1>2

\* fuse_rename_impl without an exchange succeeds when each of its steps does.
RenameSteps(s, d, name, e, newname, cost, r) ==
    LET i == Target(s, d, name)
        g == Replace(s, i, e, newname)
        a == AddEntry(g, e, newname, i, cost)
        k == RemoveEntry(a, d, name)
        w == Repointed(k, i, e)
    IN  \/ r = s
        \/ /\ ~(IsDir(s, i) /\ IsAncestor(s, i, e))
           /\ Found(s, e, newname) => Target(s, e, newname) # i
           /\ g.ok /\ a.ok /\ k.ok
           /\ d = e => r = k
           /\ d # e => w.ok /\ r = CreditMoves(w, d, e, AsSubDir(s, i))

\* The steps of fuse_rename_impl, when it succeeds.
LEMMA RenameIs ==
    ASSUME NEW s \in Image, NEW d, NEW name, NEW e, NEW newname, NEW noreplace, NEW cost,
           Rename(s, d, name, e, newname, noreplace, cost).ok
    PROVE  RenameSteps(s, d, name, e, newname, cost, Rename(s, d, name, e, newname, noreplace, cost))
  <1> DEFINE i == Target(s, d, name)
             g == Replace(s, i, e, newname)
             a == AddEntry(g, e, newname, i, cost)
             k == RemoveEntry(a, d, name)
             w == Repointed(k, i, e)
             r == Rename(s, d, name, e, newname, noreplace, cost)
             Put(t) == IF t.ok THEN AddEntry(t, e, newname, i, cost) ELSE t
             Drop(t) == IF t.ok THEN RemoveEntry(t, d, name) ELSE t
             z == Drop(Put(g))
  <1>0. Failed(s).ok = FALSE
    BY DEF Failed, Image
  <1>1. r = IF IsDir(s, i) /\ IsAncestor(s, i, e) THEN Failed(s)
            ELSE IF Found(s, e, newname) /\ noreplace THEN Failed(s)
            ELSE IF Found(s, e, newname) /\ Target(s, e, newname) = i THEN s
            ELSE IF d = e THEN z
            ELSE CreditMoves(Repointed(z, i, e), d, e, AsSubDir(s, i))
    BY DEF Rename
  <1> HIDE DEF r, z
  <1>2. r.ok
    BY DEF r
  <1>3. CASE r = s
    BY <1>3 DEF RenameSteps, r
  <1>4. CASE r # s
    <2>1. /\ Found(s, e, newname) => Target(s, e, newname) # i
          /\ ~(IsDir(s, i) /\ IsAncestor(s, i, e))
      BY <1>0, <1>1, <1>2, <1>4
    <2>2. /\ d = e => r = z
          /\ d # e => r = CreditMoves(Repointed(z, i, e), d, e, AsSubDir(s, i))
      BY <1>0, <1>1, <1>2, <1>4
    <2>3. d # e => Repointed(z, i, e).ok
      BY <1>2, <2>2 DEF CreditMoves
    <2>4. z.ok
      BY <1>2, <2>2, <2>3 DEF Repointed
    <2>5. Put(g).ok
      BY <2>4 DEF z
    <2>6. g.ok
      BY <2>5
    <2>7. a.ok /\ z = k
      BY <2>5, <2>6 DEF z
    <2> QED
      BY <2>1, <2>2, <2>3, <2>4, <2>6, <2>7 DEF RenameSteps, r
  <1> QED
    BY <1>3, <1>4

\* Entries of two names, one after the other.
LEMMA TwoNames ==
    ASSUME NEW t \in Tables, NEW p \in Slot, NEW q \in Slot, p # q,
           NEW i \in Inodes \cup {0}, NEW j \in Inodes \cup {0},
           NEW r, r = [[t EXCEPT ![p] = j] EXCEPT ![q] = i] \/ r = [[t EXCEPT ![q] = i] EXCEPT ![p] = j]
    PROVE  Sets([t EXCEPT ![p] = j], r, q, i)
  BY DEF Sets, Tables

\* What had a name has one after two names are moved.
LEMMA MovedNamesLead ==
    ASSUME NEW T, NEW t \in Tables, AllNamed(T, t), NEW p \in Slot, NEW q \in Slot, p # q,
           NEW r, Sets([t EXCEPT ![p] = t[q]], r, q, t[p])
    PROVE  AllNamed(T, r)
  <1>1. r[p] = t[q] /\ r[q] = t[p] /\ \A o \in Slot : o # p /\ o # q => r[o] = t[o]
    BY DEF Sets, Tables
  <1> SUFFICES ASSUME NEW x \in Inodes, T[x] \notin {"none", "dir"} PROVE \E o \in Slot : r[o] = x
    BY DEF AllNamed
  <1>2. PICK o \in Slot : t[o] = x
    BY DEF AllNamed
  <1> QED
    BY <1>1, <1>2

\* What dir_is_ancestor tells of a directory that is to move from d to e.
Tested(s, i, d, e) ==
    \A x \in Inodes : x = i /\ Type(s)[x] = "dir" => Up(s)[x] = d /\ x \notin Climb(s, e)

\* No directory is new, and none but i and j has a new parent: e, or d.
Goes(s, r, i, e, j, d) ==
    \A x \in Inodes : Type(r)[x] = "dir" =>
        /\ Type(s)[x] = "dir"
        /\ \/ Up(r)[x] = Up(s)[x]
           \/ x = i /\ Up(r)[x] = e
           \/ x = j /\ Up(r)[x] = d

\* Directories that are tested before they move end in no loop.
LEMMA TestedWhole ==
    ASSUME NamesFitLinks, NEW s, Sound(s), Whole(s), NEW d \in Inodes, NEW e \in Inodes,
           Type(s)[d] = "dir", Type(s)[e] = "dir", NEW i, NEW j, Tested(s, i, d, e), Tested(s, j, e, d),
           NEW r, AllNamed(Type(r), Table(r)), Goes(s, r, i, e, j, d)
    PROVE  Whole(r)
  <1>1. ASSUME ~DirIndex PROVE NoLoop(Type(r), Up(r))
    <2> DEFINE C == Climb(s, d) \cup Climb(s, e)
    <2>1. NoLoop(Type(s), Up(s))
      BY <1>1 DEF Whole
    <2>2. /\ Upper(Up(s), Climb(s, e)) /\ e \in Climb(s, e)
          /\ \A x \in Inodes \ {Root} : Type(s)[x] = "dir" /\ Up(s)[x] = e => x \notin Climb(s, e)
      BY <1>1, <2>1, ClimbIsUpper
    <2>3. /\ Upper(Up(s), Climb(s, d)) /\ d \in Climb(s, d)
          /\ \A x \in Inodes \ {Root} : Type(s)[x] = "dir" /\ Up(s)[x] = d => x \notin Climb(s, d)
      BY <1>1, <2>1, ClimbIsUpper
    <2>4. Upper(Up(s), C)
      BY <2>2, <2>3 DEF Upper
    <2>5. \A x \in Inodes \ {Root} : x = i /\ Type(s)[x] = "dir" => x \notin C
      BY <2>3 DEF Tested
    <2>6. \A x \in Inodes \ {Root} : x = j /\ Type(s)[x] = "dir" => x \notin C
      BY <2>2 DEF Tested
    <2>7. d \in C /\ e \in C
      BY <2>2, <2>3
    <2> HIDE DEF C
    <2>8. \A x \in Inodes \ {Root} : Type(r)[x] = "dir" =>
              Type(s)[x] = "dir" /\ (Up(r)[x] = Up(s)[x] \/ (Up(r)[x] \in C /\ x \notin C))
      BY <2>5, <2>6, <2>7 DEF Goes
    <2> QED
      BY <2>1, <2>4, <2>8, NoLoopMoved
  <1> QED
    BY <1>1 DEF Whole

\* What both kinds of rename do to "..", and to the counts, of a sound image s:
\* h has the names moved; in one directory that is all, between two ".." and
\* the counts follow.
MovedNames(s, h, p, q) ==
    /\ Good(h) /\ Type(h) = Type(s) /\ Links(h) = Links(s) /\ Up(h) = Up(s) /\ Self(h) = Self(s)
    /\ Sets([Table(s) EXCEPT ![p] = Table(s)[q]], Table(h), q, Table(s)[p])

\* Both names are in one directory: the tree is as with the names moved.
LEMMA WithinDirectory ==
    ASSUME NamesFitLinks, NEW s, Sound(s), NEW p \in Slot, NEW q \in Slot, p # q,
           Table(s)[p] # 0, Table(s)[p] # Table(s)[q], p[1] = q[1],
           NEW h, MovedNames(s, h, p, q)
    PROVE  Sound(h)
  <1>1. Type(s)[q[1]] = "dir"
    BY SoundIs
  <1>2. UpsSwap(Type(s), Table(s), Up(s), Up(h), p, q)
    <2>1. \A x \in Inodes : x = Table(s)[p] /\ Type(s)[x] = "dir" => Up(s)[x] = q[1]
      BY UpIs
    <2>2. \A x \in Inodes : x = Table(s)[q] /\ Type(s)[x] = "dir" => Up(s)[x] = p[1]
      BY UpIs, Constants
    <2> QED
      BY <2>1, <2>2 DEF MovedNames, UpsSwap
  <1>3. LinksSwap(Type(s), Table(s), Links(s), Links(h), p, q)
    <2>1. \A x \in Inodes : Links(s)[x] \in Nat
      BY SoundIs DEF Counts
    <2> QED
      BY <2>1 DEF MovedNames, LinksSwap
  <1> QED
    BY <1>1, <1>2, <1>3, Moved DEF MovedNames

\* w: h with ".." of both targets set; r: with the counts moved too.
LEMMA BetweenDirectories ==
    ASSUME NamesFitLinks, NEW s, Sound(s), NEW p \in Slot, NEW q \in Slot, p[1] # q[1],
           Table(s)[p] # 0, Table(s)[p] # Table(s)[q], Type(s)[q[1]] = "dir",
           NEW h, MovedNames(s, h, p, q),
           NEW w, Good(w), Type(w) = Type(h), Links(w) = Links(h), Table(w) = Table(h), Self(w) = Self(h),
           UpsSwap(Type(s), Table(s), Up(s), Up(w), p, q),
           NEW n, n = (IF IsSub(Type(s), Table(s)[p]) THEN 1 ELSE 0)
                      - (IF IsSub(Type(s), Table(s)[q]) THEN 1 ELSE 0),
           NEW r, r = CreditMoves(w, p[1], q[1], n)
    PROVE  Sound(r) /\ Type(r) = Type(s) /\ Table(r) = Table(w) /\ Up(r) = Up(w)
  <1>1. p[1] \in Inodes /\ q[1] \in Inodes /\ Type(s)[p[1]] = "dir" /\ p # q
    BY SoundIs, SlotIs
  <1>2. Links(w)[p[1]] >= 2 /\ Links(w)[q[1]] >= 2
    BY <1>1, LinksOfDir DEF MovedNames
  <1>3. MovesCredit(w, r, p[1], q[1], n)
    <2>1. n \in -1 .. 1
      OBVIOUS
    <2> QED
      BY <1>1, <1>2, <2>1, CreditMovesDoes
  <1>4. LinksSwap(Type(s), Table(s), Links(s), Links(r), p, q)
    <2>1. \A x \in Inodes : Links(s)[x] \in Nat
      BY SoundIs DEF Counts
    <2>2. \A x \in Inodes : Links(r)[x] = IF x = p[1] THEN Links(s)[x] - n
                                         ELSE IF x = q[1] THEN Links(s)[x] + n ELSE Links(s)[x]
      BY <1>3 DEF MovesCredit, MovedNames
    <2> QED
      BY <2>1, <2>2 DEF LinksSwap
  <1>5. /\ Good(r) /\ Type(r) = Type(s) /\ Self(r) = Self(s)
        /\ Sets([Table(s) EXCEPT ![p] = Table(s)[q]], Table(r), q, Table(s)[p])
        /\ UpsSwap(Type(s), Table(s), Up(s), Up(r), p, q)
    BY <1>3 DEF MovesCredit, MovedNames
  <1>6. Table(r) = Table(w) /\ Up(r) = Up(w)
    BY <1>3 DEF MovesCredit
  <1> QED
    BY <1>1, <1>4, <1>5, <1>6, Moved

\* fuse_rename_impl without an exchange.
LEMMA RenameDoes ==
    ASSUME NamesFitLinks, NEW s, Sound(s), NEW d \in Inodes, NEW e \in Inodes,
           NEW name \in Names, NEW newname \in Names, name \in Named(s, d), Type(s)[e] = "dir",
           NEW noreplace, NEW cost \in Nat,
           NEW r, r = Rename(s, d, name, e, newname, noreplace, cost), r.ok
    PROVE  Sound(r) /\ Keeps(s, r)
  <1> DEFINE p == <<d, name>>
             q == <<e, newname>>
             i == Table(s)[p]
             g == Replace(s, i, e, newname)
             a == AddEntry(g, e, newname, i, cost)
             k == RemoveEntry(a, d, name)
             w == Repointed(k, i, e)
  <1>0. /\ s \in Image /\ p \in Slot /\ q \in Slot /\ p[1] = d /\ q[1] = e
        /\ newname \in AnyName
        /\ i # 0 /\ i \in Inodes /\ Target(s, d, name) = i /\ Type(s)[d] = "dir"
    BY SoundIs, SlotIs, NamedIs, NamedSound DEF AnyName
  <1>1. RenameSteps(s, d, name, e, newname, cost, r)
    BY <1>0, RenameIs
  <1>2. CASE r = s
    BY <1>2 DEF Frees, Keeps
  <1>3. CASE r # s
    <2>1. /\ ~(IsDir(s, i) /\ IsAncestor(s, i, e))
          /\ Found(s, e, newname) => Target(s, e, newname) # i
          /\ g.ok /\ a.ok /\ k.ok
          /\ d = e => r = k
          /\ d # e => w.ok /\ r = CreditMoves(w, d, e, AsSubDir(s, i))
      BY <1>0, <1>1, <1>3 DEF RenameSteps
    <2>2. p # q
      BY <1>0, <2>1, NamedIs
    <2>3. /\ Sound(g) /\ Keeps(s, g) /\ Table(g)[p] = i /\ Table(g)[q] = 0
          /\ Type(g)[d] = "dir" /\ Type(g)[e] = "dir" /\ Type(g)[i] = Type(s)[i]
          /\ \A x \in Inodes : Type(g)[x] # "none" => Type(g)[x] = Type(s)[x] /\ Up(g)[x] = Up(s)[x]
      <3>1. g = Replace(s, Table(s)[p], e, newname) /\ g.ok
        BY <2>1
      <3>2. Found(s, e, newname) => Target(s, e, newname) # Table(s)[p]
        BY <2>1
      <3> HIDE DEF g, p
      <3> QED
        BY <1>0, <3>1, <3>2, ReplaceDoes
    <2>31. Tested(s, i, d, e) /\ Tested(s, 0, e, d)
      <3>1. ASSUME Type(s)[i] = "dir" PROVE Up(s)[i] = d /\ i \notin Climb(s, e)
        <4>1. Up(s)[i] = d
          BY <1>0, <3>1, UpIs
        <4>2. IsDir(s, i)
          BY <1>0, <3>1, ViewAt DEF IsDir
        <4> QED
          BY <2>1, <4>1, <4>2 DEF IsAncestor
      <3>2. Tested(s, 0, e, d)
        BY Constants DEF Tested
      <3> QED
        BY <3>1, <3>2 DEF Tested
    <2> HIDE DEF g
    <2>4. Good(g) /\ Table(g) \in Tables /\ g \in Image
      BY <2>3, SoundIs
    <2>5. Good(a) /\ Puts(g, a, e, newname, i) /\ Type(a) = Type(g) /\ Links(a) = Links(g)
      BY <1>0, <2>1, <2>4, AddEntryDoes
    <2>6. Table(a) = [Table(g) EXCEPT ![q] = i] /\ Up(a) = Up(g) /\ Self(a) = Self(g)
      <3>1. Views(g, a, e, newname, i)
        BY <1>0, <2>4, <2>5, PutsMeans DEF Good
      <3> QED
        BY <3>1 DEF Views
    <2> HIDE DEF a
    <2>7. /\ Good(k) /\ Type(k) = Type(a) /\ Links(k) = Links(a)
          /\ Table(k) = [Table(a) EXCEPT ![p] = 0] /\ Up(k) = Up(a) /\ Self(k) = Self(a)
      BY <2>1, <2>5, RemoveEntryDoes
    <2> HIDE DEF k
    <2>8. MovedNames(g, k, p, q)
      <3>1. Table(k) = [[Table(g) EXCEPT ![q] = i] EXCEPT ![p] = 0]
        BY <2>6, <2>7
      <3>2. Sets([Table(g) EXCEPT ![p] = 0], Table(k), q, i)
        <4> HIDE DEF p, q, i
        <4> QED
          BY <1>0, <2>2, <2>4, <3>1, TwoNames
      <3> QED
        BY <2>3, <2>5, <2>6, <2>7, <3>2 DEF MovedNames
    <2>81. ASSUME Whole(s), Table(r) = Table(k), Type(r) = Type(g),
                  \A x \in Inodes : Up(r)[x] = Up(g)[x] \/ (x = i /\ Up(r)[x] = e)
           PROVE  Whole(r)
      <3>1. AllNamed(Type(r), Table(r))
        <4>1. AllNamed(Type(g), Table(g))
          BY <2>3, <2>81 DEF Keeps, Whole
        <4>2. Sets([Table(g) EXCEPT ![p] = Table(g)[q]], Table(k), q, Table(g)[p])
          BY <2>8 DEF MovedNames
        <4> HIDE DEF p, q, i
        <4>3. AllNamed(Type(g), Table(k))
          BY <1>0, <2>2, <2>4, <4>1, <4>2, MovedNamesLead
        <4> QED
          BY <2>81, <4>3
      <3>2. Goes(s, r, i, e, 0, d)
        <4> HIDE DEF i
        <4> QED
          BY <2>3, <2>81 DEF Goes
      <3>3. Whole(s) /\ Type(s)[d] = "dir" /\ Type(s)[e] = "dir"
        BY <1>0, <2>81
      <3> HIDE DEF i
      <3> QED
        BY <2>31, <3>1, <3>2, <3>3, TestedWhole
    <2>9. CASE d = e
      <3>1. Sound(k)
        <4> HIDE DEF p, q, i
        <4> QED
          BY <1>0, <2>2, <2>3, <2>8, <2>9, WithinDirectory
      <3>2. r = k /\ Type(k) = Type(g) /\ Up(k) = Up(g)
        BY <2>1, <2>5, <2>6, <2>7, <2>9
      <3>3. Whole(s) => Whole(r)
        BY <2>81, <3>2
      <3>4. Frees(s, r)
        BY <2>3, <3>2 DEF Frees, Keeps
      <3> QED
        BY <3>1, <3>2, <3>3, <3>4 DEF Keeps
    <2>10. CASE d # e
      <3>1. w.ok /\ r = CreditMoves(w, d, e, AsSubDir(s, i))
        BY <2>1, <2>10
      <3>2. Repoints(k, w, i, e)
        BY <1>0, <2>7, <3>1, RepointedDoes
      <3> HIDE DEF w
      <3>3. UpsSwap(Type(g), Table(g), Up(g), Up(w), p, q)
        BY <1>0, <2>3, <2>5, <2>6, <2>7, <3>2, Constants DEF UpsSwap, Repoints
      <3>4. AsSubDir(s, i) = (IF IsSub(Type(g), Table(g)[p]) THEN 1 ELSE 0)
                                - (IF IsSub(Type(g), Table(g)[q]) THEN 1 ELSE 0)
        <4>1. IsDir(s, i) <=> IsSub(Type(g), i)
          BY <1>0, <2>3, ViewAt DEF IsDir, IsSub
        <4>2. ~IsSub(Type(g), 0)
          BY DEF IsSub
        <4> QED
          BY <2>3, <4>1, <4>2 DEF AsSubDir
      <3>5. Sound(r) /\ Type(r) = Type(g) /\ Table(r) = Table(w) /\ Up(r) = Up(w)
        <4>1. r = CreditMoves(w, p[1], q[1], AsSubDir(s, i))
          BY <1>0, <3>1
        <4>2. /\ Good(w) /\ Type(w) = Type(k) /\ Links(w) = Links(k) /\ Table(w) = Table(k)
              /\ Self(w) = Self(k)
          BY <3>2 DEF Repoints
        <4>3. /\ p[1] # q[1] /\ Table(g)[p] # 0 /\ Table(g)[p] # Table(g)[q]
              /\ Type(g)[q[1]] = "dir"
          BY <1>0, <2>3, <2>10
        <4> DEFINE n == AsSubDir(s, i)
        <4> HIDE DEF p, q, i, n
        <4> QED
          BY <1>0, <2>3, <2>8, <3>3, <3>4, <4>1, <4>2, <4>3, BetweenDirectories DEF n
      <3>6. Table(w) = Table(k) /\ \A x \in Inodes : Up(w)[x] = Up(g)[x] \/ (x = i /\ Up(w)[x] = e)
        <4>1. Up(k) = Up(g)
          BY <2>6, <2>7
        <4> HIDE DEF i
        <4> QED
          BY <3>2, <4>1 DEF Repoints
      <3>7. Whole(s) => Whole(r)
        BY <2>81, <3>5, <3>6
      <3>8. Frees(s, r)
        BY <2>3, <3>5 DEF Frees, Keeps
      <3> QED
        BY <3>5, <3>7, <3>8 DEF Keeps
    <2> QED
      BY <2>9, <2>10
  <1> QED
    BY <1>2, <1>3

\* A name that is there can be given another target.
Retargeted(s, r, d, name, i) ==
    /\ Good(r) /\ Type(r) = Type(s) /\ Links(r) = Links(s) /\ Up(r) = Up(s) /\ Self(r) = Self(s)
    /\ Table(r) = [Table(s) EXCEPT ![<<d, name>>] = i]
    /\ \A e \in Inodes : DOMAIN r.ent[e] = DOMAIN s.ent[e]

\* A name that is there gets another target.
LEMMA Retarget ==
    ASSUME NEW s, Good(s), NEW d \in Inodes, NEW name \in Names, name \in DOMAIN s.ent[d],
           NEW i \in Inodes, NEW r, r = SetEntryTarget(s, d, name, i)
    PROVE  Retargeted(s, r, d, name, i)
  <1>0. s \in Image /\ s.ok /\ name \in AnyName
    BY DEF Good, AnyName
  <1>1. r.ok
    BY <1>0, NamedIs DEF SetEntryTarget, Image
  <1>2. Good(r) /\ Puts(s, r, d, name, i) /\ Type(r) = Type(s) /\ Links(r) = Links(s)
    BY <1>0, <1>1, SetEntryTargetDoes
  <1>3. Views(s, r, d, name, i)
    BY <1>0, <1>2, PutsMeans DEF Good
  <1>4. \A e \in Inodes : DOMAIN r.ent[e] = DOMAIN s.ent[e]
    BY <1>2 DEF Puts
  <1> QED
    BY <1>2, <1>3, <1>4 DEF Views, Retargeted

\* rename_exchange.
LEMMA ExchangeDoes ==
    ASSUME NamesFitLinks, NEW s, Sound(s), NEW d \in Inodes, NEW e \in Inodes,
           NEW name \in Names, NEW newname \in Names, name \in Named(s, d), newname \in Named(s, e),
           NEW r, r = Exchange(s, d, name, e, newname), r.ok
    PROVE  Sound(r) /\ Keeps(s, r)
  <1> DEFINE p == <<d, name>>
             q == <<e, newname>>
             i == Table(s)[p]
             j == Table(s)[q]
             a == SetEntryTarget(s, d, name, j)
             b == SetEntryTarget(a, e, newname, i)
             x == Repointed(b, i, e)
             w == Repointed(x, j, d)
             n == AsSubDir(b, i) - AsSubDir(b, j)
  <1>0. /\ s \in Image /\ Good(s) /\ p \in Slot /\ q \in Slot /\ p[1] = d /\ q[1] = e
        /\ i \in Inodes /\ Target(s, d, name) = i /\ Type(s)[d] = "dir" /\ name \in DOMAIN s.ent[d]
        /\ j \in Inodes /\ Target(s, e, newname) = j /\ Type(s)[e] = "dir" /\ newname \in DOMAIN s.ent[e]
        /\ Table(s) \in Tables /\ 0 \notin Inodes
    BY SoundIs, SlotIs, NamedIs, NamedSound, Constants
  <1>1. \/ r = s
        \/ /\ i # j /\ r = (IF d = e THEN b ELSE CreditMoves(w, d, e, n))
           /\ ~(IsDir(s, i) /\ IsAncestor(s, i, e)) /\ ~(IsDir(s, j) /\ IsAncestor(s, j, d))
    <2>1. Failed(s).ok = FALSE
      BY <1>0 DEF Failed, Image
    <2>2. r = IF IsDir(s, i) /\ IsAncestor(s, i, e) THEN Failed(s)
              ELSE IF i = j THEN s
              ELSE IF IsDir(s, j) /\ IsAncestor(s, j, d) THEN Failed(s)
              ELSE IF d = e THEN b
              ELSE CreditMoves(w, d, e, n)
      <3> HIDE DEF i, j, p, q
      <3> QED
        BY <1>0 DEF Exchange, Swapped, Between
    <2> HIDE DEF i, j, b, w, n
    <2> QED
      BY <2>1, <2>2
  <1>2. CASE r = s
    BY <1>2 DEF Frees, Keeps
  <1>3. CASE r # s
    <2>1. /\ i # j /\ p # q /\ r = (IF d = e THEN b ELSE CreditMoves(w, d, e, n))
          /\ ~(IsDir(s, i) /\ IsAncestor(s, i, e)) /\ ~(IsDir(s, j) /\ IsAncestor(s, j, d))
      BY <1>1, <1>3
    <2>11. Tested(s, i, d, e) /\ Tested(s, j, e, d)
      <3>1. ASSUME Type(s)[i] = "dir" PROVE Up(s)[i] = d /\ i \notin Climb(s, e)
        <4>1. Up(s)[i] = d
          BY <1>0, <3>1, UpIs
        <4>2. IsDir(s, i)
          BY <1>0, <3>1, ViewAt DEF IsDir
        <4> QED
          BY <2>1, <4>1, <4>2 DEF IsAncestor
      <3>2. ASSUME Type(s)[j] = "dir" PROVE Up(s)[j] = e /\ j \notin Climb(s, d)
        <4>1. Up(s)[j] = e
          BY <1>0, <3>2, UpIs
        <4>2. IsDir(s, j)
          BY <1>0, <3>2, ViewAt DEF IsDir
        <4> QED
          BY <2>1, <4>1, <4>2 DEF IsAncestor
      <3> QED
        BY <3>1, <3>2 DEF Tested
    <2>2. /\ Good(a) /\ Type(a) = Type(s) /\ Links(a) = Links(s) /\ Up(a) = Up(s) /\ Self(a) = Self(s)
          /\ Table(a) = [Table(s) EXCEPT ![p] = j]
          /\ newname \in DOMAIN a.ent[e]
      <3>1. Retargeted(s, a, d, name, j)
        BY <1>0, Retarget
      <3> HIDE DEF a
      <3> QED
        BY <1>0, <3>1 DEF Retargeted
    <2> HIDE DEF a
    <2>3. /\ Good(b) /\ Type(b) = Type(a) /\ Links(b) = Links(a) /\ Up(b) = Up(a) /\ Self(b) = Self(a)
          /\ Table(b) = [Table(a) EXCEPT ![q] = i]
      <3>1. Retargeted(a, b, e, newname, i)
        BY <1>0, <2>2, Retarget
      <3> QED
        BY <3>1 DEF Retargeted
    <2> HIDE DEF b
    <2>4. MovedNames(s, b, p, q)
      <3>1. Table(b) = [[Table(s) EXCEPT ![p] = j] EXCEPT ![q] = i]
        BY <2>2, <2>3
      <3>2. Sets([Table(s) EXCEPT ![p] = j], Table(b), q, i)
        <4> HIDE DEF p, q, i, j
        <4> QED
          BY <1>0, <2>1, <3>1, TwoNames
      <3> QED
        BY <2>2, <2>3, <3>2 DEF MovedNames
    <2>41. ASSUME Whole(s), Table(r) = Table(b), Type(r) = Type(s),
                  \A y \in Inodes : \/ Up(r)[y] = Up(s)[y]
                                    \/ y = i /\ Up(r)[y] = e
                                    \/ y = j /\ Up(r)[y] = d
           PROVE  Whole(r)
      <3>1. AllNamed(Type(r), Table(r))
        <4>1. AllNamed(Type(s), Table(s))
          BY <2>41 DEF Whole
        <4>2. Sets([Table(s) EXCEPT ![p] = Table(s)[q]], Table(b), q, Table(s)[p])
          BY <2>4 DEF MovedNames
        <4> HIDE DEF p, q, i, j
        <4>3. AllNamed(Type(s), Table(b))
          BY <1>0, <2>1, <4>1, <4>2, MovedNamesLead
        <4> QED
          BY <2>41, <4>3
      <3>2. Goes(s, r, i, e, j, d)
        <4> HIDE DEF i, j
        <4> QED
          BY <2>41 DEF Goes
      <3>3. Whole(s) /\ Type(s)[d] = "dir" /\ Type(s)[e] = "dir"
        BY <1>0, <2>41
      <3> HIDE DEF i, j
      <3> QED
        BY <2>11, <3>1, <3>2, <3>3, TestedWhole
    <2>5. CASE d = e
      <3>1. Sound(b)
        <4>1. Table(s)[p] # 0 /\ Table(s)[p] # Table(s)[q] /\ p[1] = q[1]
          BY <1>0, <2>1, <2>5
        <4> HIDE DEF p, q, i, j
        <4> QED
          BY <1>0, <2>1, <2>4, <4>1, WithinDirectory
      <3>2. r = b /\ Type(b) = Type(s) /\ Up(b) = Up(s)
        BY <2>1, <2>2, <2>3, <2>5
      <3>3. Whole(s) => Whole(r)
        BY <2>41, <3>2
      <3> QED
        BY <3>1, <3>2, <3>3 DEF Frees, Keeps
    <2>6. CASE d # e
      <3>1. r = CreditMoves(w, d, e, n)
        BY <2>1, <2>6
      <3>2. w.ok
        <4> HIDE DEF w, n
        <4> QED
          BY <3>1 DEF CreditMoves
      <3>3. x.ok
        BY <3>2 DEF Repointed
      <3>4. Repoints(b, x, i, e)
        <4> HIDE DEF i, j
        <4> QED
          BY <1>0, <2>3, <3>3, RepointedDoes
      <3> HIDE DEF x
      <3>5. Repoints(x, w, j, d)
        <4>1. Good(x)
          BY <3>4 DEF Repoints
        <4> HIDE DEF i, j
        <4> QED
          BY <1>0, <3>2, <4>1, RepointedDoes
      <3> HIDE DEF w
      <3>51. \A y \in Inodes : Up(w)[y] = IF y = j /\ Type(s)[y] = "dir" THEN d
                                         ELSE IF y = i /\ Type(s)[y] = "dir" THEN e ELSE Up(s)[y]
        <4>1. /\ Type(b) = Type(s) /\ Type(x) = Type(s) /\ Up(b) = Up(s)
          BY <2>2, <2>3, <3>4 DEF Repoints
        <4> HIDE DEF i, j
        <4> QED
          BY <3>4, <3>5, <4>1 DEF Repoints
      <3>6. UpsSwap(Type(s), Table(s), Up(s), Up(w), p, q)
        BY <1>0, <2>1, <3>51 DEF UpsSwap
      <3>7. n = (IF IsSub(Type(s), Table(s)[p]) THEN 1 ELSE 0)
                   - (IF IsSub(Type(s), Table(s)[q]) THEN 1 ELSE 0)
        <4>0. Type(b) = Type(s)
          BY <2>2, <2>3
        <4>1. (IsDir(b, i) <=> IsSub(Type(s), i)) /\ (IsDir(b, j) <=> IsSub(Type(s), j))
          BY <1>0, <4>0, ViewAt DEF IsDir, IsSub
        <4> QED
          BY <4>1 DEF AsSubDir
      <3>8. Sound(r) /\ Type(r) = Type(s) /\ Table(r) = Table(w) /\ Up(r) = Up(w)
        <4>1. r = CreditMoves(w, p[1], q[1], n)
          BY <1>0, <3>1
        <4>2. /\ Good(w) /\ Type(w) = Type(b) /\ Links(w) = Links(b) /\ Table(w) = Table(b)
              /\ Self(w) = Self(b)
          BY <3>4, <3>5 DEF Repoints
        <4>3. /\ p[1] # q[1] /\ Table(s)[p] # 0 /\ Table(s)[p] # Table(s)[q]
              /\ Type(s)[q[1]] = "dir"
          BY <1>0, <2>1, <2>6
        <4> HIDE DEF p, q, i, j, n
        <4> QED
          BY <1>0, <2>4, <3>6, <3>7, <4>1, <4>2, <4>3, BetweenDirectories
      <3>9. Table(w) = Table(b)
        BY <3>4, <3>5 DEF Repoints
      <3>10. Whole(s) => Whole(r)
        <4> HIDE DEF i, j
        <4> QED
          BY <2>41, <3>51, <3>8, <3>9
      <3> QED
        BY <3>8, <3>10 DEF Frees, Keeps
    <2> QED
      BY <2>5, <2>6
  <1> QED
    BY <1>2, <1>3

-----------------------------------------------------------------------------
(* The calls, one step at a time. *)

\* What file_remove is about to unlink is there, and is a file.
Pending ==
    \/ removing = NoCall
    \/ \E d \in Inodes, name \in Names :
          /\ removing = <<d, name>>
          /\ Table(fs)[<<d, name>>] \in Inodes /\ Type(fs)[Table(fs)[<<d, name>>]] # "dir"

\* The inductive invariant.
IInv == Sound(fs) /\ Pending

\* journaled() keeps what a call made, or what there was.
LEMMA ReturnsDoes ==
    ASSUME NamesFitLinks, NEW s, Sound(s), NEW r, r.ok => Sound(r) /\ Keeps(s, r),
           NEW x, x = IF r.ok \/ ~Journaled THEN [r EXCEPT !.ok = TRUE] ELSE s
    PROVE  Sound(x) /\ Keeps(s, x)
  <1>1. CASE r.ok
    <2>1. r \in Image /\ r.ok
      BY <1>1, SoundIs
    <2>2. r.ok = TRUE
      BY <2>1, ImageIs
    <2>3. x = r
      BY <2>1, <2>2 DEF Image
    <2> QED
      BY <1>1, <2>3
  <1>2. CASE ~r.ok
    BY <1>2 DEF NamesFitLinks, Frees, Keeps
  <1> QED
    BY <1>1, <1>2

\* The blocks a new entry may cost.
LEMMA CostsAre ==
    ASSUME NEW s, NEW d, NEW cost \in Costs(s, d)
    PROVE  cost \in Nat
  BY DEF Costs

\* A directory, and what it names.
LEMMA DirIs ==
    ASSUME NEW s, Sound(s), NEW d \in Dirs(s)
    PROVE  /\ d \in Inodes /\ Type(s)[d] = "dir"
           /\ \A name \in Named(s, d) :
                 /\ name \in Names /\ name \in DOMAIN s.ent[d]
                 /\ Target(s, d, name) = Table(s)[<<d, name>>]
                 /\ Table(s)[<<d, name>>] \in Inodes
                 /\ IsDir(s, Target(s, d, name)) <=> Type(s)[Table(s)[<<d, name>>]] = "dir"
  <1>1. d \in Inodes /\ Type(s)[d] = "dir"
    BY ViewAt DEF Dirs, IsDir
  <1>2. ASSUME NEW name \in Named(s, d)
        PROVE  name \in Names /\ name \in DOMAIN s.ent[d]
    BY <1>1, SoundIs, NodeIs, MapIs DEF Named, AnyName
  <1>3. ASSUME NEW name \in Named(s, d)
        PROVE  /\ Target(s, d, name) = Table(s)[<<d, name>>]
               /\ Table(s)[<<d, name>>] \in Inodes
    BY <1>1, <1>2, NamedIs, NamedSound
  <1>4. ASSUME NEW name \in Named(s, d)
        PROVE  IsDir(s, Target(s, d, name)) <=> Type(s)[Table(s)[<<d, name>>]] = "dir"
    BY <1>3, ViewAt DEF IsDir
  <1> QED
    BY <1>1, <1>2, <1>3, <1>4

\* Every call, crash and return keeps the image sound, and frees what had its last name.
LEMMA StepDoes ==
    ASSUME NamesFitLinks, IInv, Next
    PROVE  Sound(fs') /\ Keeps(fs, fs') /\ Pending'
  <1>0. Sound(fs) /\ fs \in Image /\ Good(fs)
    BY SoundIs DEF IInv
  <1> DEFINE KeepsSound(r) == r.ok => Sound(r) /\ Keeps(fs, r)
  <1>1. ASSUME NEW r, KeepsSound(r), Returns(r), Idle
        PROVE  Sound(fs') /\ Keeps(fs, fs') /\ Pending'
    <2>1. Sound(fs') /\ Keeps(fs, fs')
      BY <1>0, <1>1, ReturnsDoes DEF Returns
    <2>2. removing' = NoCall
      BY <1>1 DEF Returns, Idle
    <2> QED
      BY <2>1, <2>2 DEF Pending
  <1>2. ASSUME NEW d \in Dirs(fs), NEW name \in Names, NEW type \in Types, NEW cost \in Costs(fs, d),
               CreateNamed(d, name, type, cost)
        PROVE  Sound(fs') /\ Keeps(fs, fs') /\ Pending'
    <2> DEFINE c == Create(fs, type)
               i == Min(FreeInodes(fs))
               r == Fill(Link(c, d, name, i, cost), i, type)
               x == IF c.ok THEN r ELSE c
    <2>1. Idle /\ ~Found(fs, d, name) /\ Returns(x)
      BY <1>2 DEF CreateNamed
    <2>2. d \in Inodes /\ Type(fs)[d] = "dir" /\ cost \in Nat
      BY <1>0, DirIs, CostsAre
    <2>3. c.ok /\ r.ok => Sound(r) /\ Keeps(fs, r)
      BY <1>0, <2>1, <2>2, CreateNamedDoes
    <2> HIDE DEF c, r
    <2>4. KeepsSound(x)
      BY <2>3
    <2> HIDE DEF x, KeepsSound
    <2> QED
      BY <1>1, <2>1, <2>4
  <1>3. ASSUME NEW i \in InUse(fs), NEW d \in Dirs(fs), NEW name \in Names, NEW cost \in Costs(fs, d),
               FuseLink(i, d, name, cost)
        PROVE  Sound(fs') /\ Keeps(fs, fs') /\ Pending'
    <2> DEFINE r == Link(fs, d, name, i, cost)
    <2>1. Idle /\ ~Found(fs, d, name) /\ ~IsDir(fs, i) /\ Returns(r)
      BY <1>3 DEF FuseLink
    <2>2. d \in Inodes /\ Type(fs)[d] = "dir" /\ cost \in Nat
      BY <1>0, DirIs, CostsAre
    <2>3. i \in Inodes /\ Type(fs)[i] \notin {"none", "dir"}
      BY <2>1, ViewAt DEF InUse, IsDir
    <2>4. r.ok => /\ Sound(r) /\ Type(r) = Type(fs) /\ Up(r) = Up(fs)
                  /\ Table(r) = [Table(fs) EXCEPT ![<<d, name>>] = i]
      BY <1>0, <2>1, <2>2, <2>3, LinkFileDoes
    <2>41. Table(fs)[<<d, name>>] = 0 /\ Table(fs) \in Tables
      BY <1>0, <2>1, <2>2, NamedIs, SoundIs
    <2> HIDE DEF r
    <2>42. ASSUME r.ok, Whole(fs) PROVE Whole(r)
      <3>1. \A o \in Slot : Table(fs)[o] # 0 => Table(r)[o] = Table(fs)[o]
        BY <2>4, <2>41, <2>42 DEF Tables
      <3>2. AllNamed(Type(r), Table(r))
        BY <2>4, <2>42, <3>1, Constants DEF Whole, AllNamed
      <3> QED
        BY <2>4, <2>42, <3>2 DEF Whole
    <2>5. KeepsSound(r)
      BY <2>4, <2>42 DEF Frees, Keeps
    <2> HIDE DEF KeepsSound
    <2> QED
      BY <1>1, <2>1, <2>5
  <1>4. ASSUME NEW d \in Dirs(fs), NEW name \in Named(fs, d), FuseUnlink(d, name)
        PROVE  Sound(fs') /\ Keeps(fs, fs') /\ Pending'
    <2> DEFINE r == Unlink(fs, d, name)
               i == Table(fs)[<<d, name>>]
    <2>1. Idle /\ ~IsDir(fs, Target(fs, d, name)) /\ Returns(r)
      BY <1>4 DEF FuseUnlink
    <2>2. d \in Inodes /\ name \in Names /\ i \in Inodes /\ Type(fs)[i] # "dir"
      BY <1>0, <2>1, DirIs
    <2>3. r.ok => Sound(r) /\ Keeps(fs, r)
      BY <1>0, <2>2, UnlinkDoes
    <2> HIDE DEF r
    <2>4. KeepsSound(r)
      BY <2>3
    <2> HIDE DEF KeepsSound
    <2> QED
      BY <1>1, <2>1, <2>4
  <1>5. ASSUME NEW d \in Dirs(fs), NEW name \in Named(fs, d), FuseRmdir(d, name)
        PROVE  Sound(fs') /\ Keeps(fs, fs') /\ Pending'
    <2> DEFINE r == DirRemove(fs, d, name)
               i == Table(fs)[<<d, name>>]
    <2>1. Idle /\ IsDir(fs, Target(fs, d, name)) /\ Returns(r)
      BY <1>5 DEF FuseRmdir
    <2>2. d \in Inodes /\ name \in Names /\ i \in Inodes /\ Type(fs)[i] = "dir"
      BY <1>0, <2>1, DirIs
    <2>3. r.ok => Sound(r) /\ Keeps(fs, r)
      BY <1>0, <2>2, DirRemoveDoes
    <2> HIDE DEF r
    <2>4. KeepsSound(r)
      BY <2>3
    <2> HIDE DEF KeepsSound
    <2> QED
      BY <1>1, <2>1, <2>4
  <1>6. ASSUME NEW d \in Dirs(fs), NEW name \in Named(fs, d), FileRemove(d, name)
        PROVE  Sound(fs') /\ Keeps(fs, fs') /\ Pending'
    <2> DEFINE i == Table(fs)[<<d, name>>]
    <2>1. /\ d \in Inodes /\ name \in Names /\ i \in Inodes /\ Type(fs)[i] # "dir"
          /\ Target(fs, d, name) = i
      BY <1>0, <1>6, DirIs DEF FileRemove
    <2>2. Truncate(fs, i).ok /\ fs' = Truncate(fs, i) /\ removing' = <<d, name>>
      BY <1>6, <2>1 DEF FileRemove
    <2>3. SameTree(fs, fs')
      BY <1>0, <2>1, <2>2, TruncateDoes
    <2>4. Sound(fs') /\ Keeps(fs, fs')
      BY <1>0, <2>3, SameTreeSound
    <2>5. Table(fs') = Table(fs) /\ Type(fs') = Type(fs)
      BY <2>3 DEF SameTree
    <2> QED
      BY <2>1, <2>2, <2>4, <2>5 DEF Pending
  <1>7. ASSUME NEW d \in Dirs(fs), NEW e \in Dirs(fs), NEW newname \in Names, NEW noreplace \in BOOLEAN,
               NEW name \in Named(fs, d), NEW cost \in Costs(fs, e),
               FuseRename(d, name, e, newname, noreplace, cost)
        PROVE  Sound(fs') /\ Keeps(fs, fs') /\ Pending'
    <2> DEFINE r == Rename(fs, d, name, e, newname, noreplace, cost)
    <2>1. Idle /\ Returns(r)
      BY <1>7 DEF FuseRename
    <2>2. /\ d \in Inodes /\ e \in Inodes /\ Type(fs)[e] = "dir" /\ name \in Names /\ cost \in Nat
      BY <1>0, DirIs, CostsAre
    <2>3. r.ok => Sound(r) /\ Keeps(fs, r)
      BY <1>0, <2>2, RenameDoes
    <2> HIDE DEF r
    <2>4. KeepsSound(r)
      BY <2>3
    <2> HIDE DEF KeepsSound
    <2> QED
      BY <1>1, <2>1, <2>4
  <1>8. ASSUME NEW d \in Dirs(fs), NEW e \in Dirs(fs), NEW name \in Named(fs, d),
               NEW newname \in Named(fs, e), FuseExchange(d, name, e, newname)
        PROVE  Sound(fs') /\ Keeps(fs, fs') /\ Pending'
    <2> DEFINE r == Exchange(fs, d, name, e, newname)
    <2>1. Idle /\ Returns(r)
      BY <1>8 DEF FuseExchange
    <2>2. d \in Inodes /\ e \in Inodes /\ name \in Names /\ newname \in Names
      BY <1>0, DirIs
    <2>3. r.ok => Sound(r) /\ Keeps(fs, r)
      BY <1>0, <2>2, ExchangeDoes
    <2> HIDE DEF r
    <2>4. KeepsSound(r)
      BY <2>3
    <2> HIDE DEF KeepsSound
    <2> QED
      BY <1>1, <2>1, <2>4
  <1>9. ASSUME NEW i \in Inodes, FuseWrite(i)
        PROVE  Sound(fs') /\ Keeps(fs, fs') /\ Pending'
    <2> DEFINE b == fs.node[i].blocks + 1
               r == [fs EXCEPT !.node[i].blocks = b, !.room = fs.room - 1]
    <2>1. Idle /\ Returns(r) /\ fs.room > 0
      BY <1>9 DEF FuseWrite
    <2>2. b \in Nat /\ fs.room - 1 \in Nat
      <3>1. fs.node[i].blocks \in Nat
        BY <1>0, NodeIs
      <3>2. fs.room \in Nat
        BY <1>0, ImageIs
      <3> QED
        BY <2>1, <3>1, <3>2
    <2> HIDE DEF b
    <2>3. SameTree(fs, r)
      BY <1>0, <2>2, Reblocked
    <2>4. KeepsSound(r)
      BY <1>0, <2>3, SameTreeSound
    <2> HIDE DEF r, KeepsSound
    <2> QED
      BY <1>1, <2>1, <2>4
  <1>10. ASSUME FileRemoveEnds
         PROVE  Sound(fs') /\ Keeps(fs, fs') /\ Pending'
    <2>1. removing # NoCall
      BY <1>10 DEF FileRemoveEnds, Idle
    <2>2. PICK d \in Inodes, name \in Names :
              /\ removing = <<d, name>>
              /\ Table(fs)[<<d, name>>] \in Inodes /\ Type(fs)[Table(fs)[<<d, name>>]] # "dir"
      BY <2>1 DEF IInv, Pending
    <2> DEFINE i == Table(fs)[<<d, name>>]
    <2>3. Target(fs, d, name) = i
      BY <1>0, <2>2, NamedSound, NamedIs, Constants
    <2>4. fs' = DropName(fs, d, name, i) /\ removing' = NoCall
      BY <1>10, <2>2, <2>3 DEF FileRemoveEnds
    <2>5. Sound(fs') /\ Keeps(fs, fs')
      BY <1>0, <2>2, <2>4, DropNameDoes
    <2> QED
      BY <2>4, <2>5 DEF Pending
  <1>11. ASSUME Crash
         PROVE  Sound(fs') /\ Keeps(fs, fs') /\ Pending'
    BY <1>0, <1>11 DEF Crash, Frees, Keeps, Pending
  <1> QED
    BY <1>2, <1>3, <1>4, <1>5, <1>6, <1>7, <1>8, <1>9, <1>10, <1>11 DEF Next

\* An empty file system is sound.
LEMMA InitDoes ==
    ASSUME NamesFitLinks, Init
    PROVE  IInv
  <1> DEFINE T == Type(fs)
             t == Table(fs)
             node == [i \in Inodes |-> IF i = Root THEN Node("dir", 2, 1) ELSE NoNode]
             ent == [i \in Inodes |-> IF i = Root THEN RootEntries ELSE <<>>]
  <1>1. fs = [node |-> node, ent |-> ent, room |-> Space - 1, ok |-> TRUE] /\ removing = NoCall
    BY DEF Init
  <1>2. Node("dir", 2, 1) \in Record /\ NoNode \in Record /\ Space - 1 \in Nat
    <2>1. FALSE \in Flag
      BY DEF Flag
    <2>2. Node("dir", 2, 1) \in Record /\ NoNode \in Record
      BY <2>1 DEF Node, NoNode, Record, AnyType, Types
    <2> QED
      BY <2>2, NamespaceConstants
  <1>3. /\ RootEntries \in Map /\ DOMAIN RootEntries = {Dot, DotDot}
        /\ \A n \in {Dot, DotDot} : RootEntries[n].ino = Root /\ RootEntries[n].type = "dir"
    <2>1. [ino |-> Root, type |-> "dir"] \in Entry
      BY Constants DEF Entry, AnyType, Types
    <2>2. {Dot, DotDot} \in SUBSET AnyName /\ RootEntries \in [{Dot, DotDot} -> Entry]
      BY <2>1 DEF AnyName, RootEntries
    <2>3. RootEntries \in Map
      BY <2>2, IsMap
    <2> QED
      BY <2>3 DEF RootEntries
  <1>4. <<>> \in Map /\ DOMAIN <<>> = {}
    <2> DEFINE e == <<>>
    <2>1. DOMAIN e = {} /\ e \in [{} -> Entry]
      OBVIOUS
    <2> HIDE DEF e
    <2>2. e \in Map
      BY <2>1, IsMap
    <2> QED
      BY <2>1, <2>2 DEF e
  <1>5. node \in [Inodes -> Record] /\ ent \in [Inodes -> Map]
    BY <1>2, <1>3, <1>4
  <1>6. /\ \A i \in Inodes : fs.node[i] = IF i = Root THEN Node("dir", 2, 1) ELSE NoNode
        /\ \A i \in Inodes : fs.ent[i] = IF i = Root THEN RootEntries ELSE <<>>
        /\ fs \in Image /\ fs.ok
    <2>1. fs.node = node /\ fs.ent = ent /\ fs.ok /\ fs \in Image
      BY <1>1, <1>2, <1>5 DEF Image
    <2> QED
      BY <2>1
  <1> HIDE DEF node, ent
  <1>7. \A i \in Inodes : /\ T[i] = IF i = Root THEN "dir" ELSE "none"
                          /\ Links(fs)[i] = IF i = Root THEN 2 ELSE 0
    BY <1>6, ViewAt DEF Node, NoNode
  <1>8. \A d \in Inodes : \A n : At(fs, d, n) = IF d = Root /\ n \in {Dot, DotDot} THEN Root ELSE 0
    BY <1>3, <1>4, <1>6 DEF At
  <1>9. /\ \A q \in Slot : t[q] = 0
        /\ \A d \in Inodes : /\ Up(fs)[d] = IF d = Root THEN Root ELSE 0
                             /\ Self(fs)[d] = IF d = Root THEN Root ELSE 0
    BY <1>8, SlotIs, Constants DEF Table, Up, Self
  <1>10. Typed(fs)
    <2>1. \A d \in Inodes : \A n \in DOMAIN fs.ent[d] : d = Root /\ n \in {Dot, DotDot}
      BY <1>3, <1>4, <1>6
    <2>2. \A n \in DOMAIN fs.ent[Root] :
             fs.ent[Root][n].ino = Root /\ fs.ent[Root][n].type = "dir"
      BY <1>3, <1>6, <2>1, Constants
    <2>3. fs.node[Root].type = "dir"
      BY <1>6, Constants DEF Node
    <2> QED
      BY <2>1, <2>2, <2>3 DEF Typed
  <1>11. T \in Typings /\ Links(fs) \in Counts /\ t \in Tables /\ Up(fs) \in Ups /\ Self(fs) \in Ups
    BY <1>6, ImageIs DEF Typings, Counts, Tables, Ups
  <1> HIDE DEF T, t
  <1>12. Linked(T, Links(fs), t)
    <2>1. Kids(T, t, Root) = {}
      BY <1>9, SlotIs, Constants DEF Kids, IsSub
    <2>2. Subs(T, t, Root) = 0
      BY <2>1, FS_EmptySet DEF Subs
    <2> QED
      BY <1>7, <2>2 DEF Linked
  <1>13. Leads(T, t) /\ OneName(T, t, Up(fs)) /\ Dots(T, Up(fs), Self(fs))
    BY <1>7, <1>9, Constants DEF Leads, OneName, Dots
  <1> QED
    BY <1>1, <1>6, <1>10, <1>11, <1>12, <1>13 DEF IInv, Sound, Good, TreeOf, Tree, Pending, T, t

\* It has a root, and nothing else.
LEMMA InitWhole ==
    ASSUME Init
    PROVE  Whole(fs)
  <1>1. \A i \in Inodes : Type(fs)[i] = IF i = Root THEN "dir" ELSE "none"
    BY ViewAt DEF Init, Node, NoNode
  <1>2. AllNamed(Type(fs), Table(fs))
    BY <1>1 DEF AllNamed
  <1>3. NoLoop(Type(fs), Up(fs))
    <2> SUFFICES ASSUME NEW S \in SUBSET (Inodes \ {Root}), NEW x \in S, Type(fs)[x] = "dir"
                 PROVE  FALSE
      BY DEF NoLoop
    <2> QED
      BY <1>1
  <1> QED
    BY <1>2, <1>3 DEF Whole

\* What the views say, said of the image.
LEMMA ViewsAre ==
    ASSUME Sound(fs)
    PROVE  /\ \A i \in Inodes : Type(fs)[i] = fs.node[i].type /\ Links(fs)[i] = fs.node[i].links
           /\ \A i \in Inodes : Places(i) = Slots(Table(fs), i)
           /\ \A d \in Dirs(fs) : SubDirs(d) = Kids(Type(fs), Table(fs), d)
           /\ \A i \in Inodes : (\A n \in Names : Table(fs)[<<i, n>>] = 0) => Named(fs, i) = {}
           /\ \A d \in Inodes : d \in Dirs(fs) <=> Type(fs)[d] = "dir"
  <1>1. \A i \in Inodes : Type(fs)[i] = fs.node[i].type /\ Links(fs)[i] = fs.node[i].links
    BY ViewAt
  <1>2. \A d \in Inodes : d \in Dirs(fs) <=> Type(fs)[d] = "dir"
    BY <1>1 DEF Dirs, IsDir
  <1>3. \A d \in Inodes : \A n \in Named(fs, d) : n \in Names
    BY SoundIs, NodeIs, MapIs DEF Named, AnyName
  <1>4. \A d \in Inodes, n \in Names :
            /\ n \in Named(fs, d) <=> Table(fs)[<<d, n>>] # 0
            /\ n \in Named(fs, d) => Target(fs, d, n) = Table(fs)[<<d, n>>]
    <2> SUFFICES ASSUME NEW d \in Inodes, NEW n \in Names
                 PROVE  /\ n \in Named(fs, d) <=> Table(fs)[<<d, n>>] # 0
                        /\ n \in Named(fs, d) => Target(fs, d, n) = Table(fs)[<<d, n>>]
      OBVIOUS
    <2>1. /\ n \in Named(fs, d) <=> n \in DOMAIN fs.ent[d]
          /\ n \in DOMAIN fs.ent[d] => Target(fs, d, n) = Table(fs)[<<d, n>>]
      BY NamedIs
    <2>2. Table(fs)[<<d, n>>] # 0 <=> n \in DOMAIN fs.ent[d]
      BY NamedSound
    <2> QED
      BY <2>1, <2>2
  <1>5. ASSUME NEW i \in Inodes PROVE Places(i) = Slots(Table(fs), i)
    <2>1. ASSUME NEW q \in Places(i) PROVE q \in Slots(Table(fs), i)
      <3>1. /\ q \in Dirs(fs) \X Names /\ q[2] \in Named(fs, q[1])
            /\ Target(fs, q[1], q[2]) = i
        BY DEF Places
      <3>2. q = <<q[1], q[2]>> /\ q[1] \in Inodes /\ q[2] \in Names /\ q \in Slot
        BY <3>1 DEF Dirs, Slot
      <3> QED
        BY <1>4, <3>1, <3>2 DEF Slots
    <2>2. ASSUME NEW q \in Slots(Table(fs), i) PROVE q \in Places(i)
      <3>1. q \in Slot /\ Table(fs)[q] = i
        BY DEF Slots
      <3>2. q = <<q[1], q[2]>> /\ q[1] \in Inodes /\ q[2] \in Names
        BY <3>1, SlotIs
      <3>3. q[1] \in Dirs(fs)
        BY <1>2, <3>1, <3>2, SoundIs, Constants
      <3>4. q[2] \in Named(fs, q[1]) /\ Target(fs, q[1], q[2]) = i
        BY <1>4, <3>1, <3>2, Constants
      <3>5. q \in Dirs(fs) \X Names
        BY <3>2, <3>3
      <3> QED
        BY <3>4, <3>5 DEF Places
    <2> QED
      BY <2>1, <2>2
  <1>6. ASSUME NEW d \in Dirs(fs) PROVE SubDirs(d) = Kids(Type(fs), Table(fs), d)
    <2>0. d \in Inodes
      BY DEF Dirs
    <2>1. \A n \in Names : <<d, n>> \in Slot
      BY <2>0, SlotIs
    <2>2. \A n \in Names : Table(fs)[<<d, n>>] # 0 =>
              (IsDir(fs, Table(fs)[<<d, n>>]) <=> Type(fs)[Table(fs)[<<d, n>>]] = "dir")
      BY <1>1, <2>1, SoundIs DEF IsDir
    <2>3. ASSUME NEW n \in Names
          PROVE  n \in Named(fs, d) /\ IsDir(fs, Target(fs, d, n))
                    <=> Table(fs)[<<d, n>>] # 0 /\ Type(fs)[Table(fs)[<<d, n>>]] = "dir"
      BY <1>4, <2>0, <2>2
    <2>4. SubDirs(d) = {n \in Names : n \in Named(fs, d) /\ IsDir(fs, Target(fs, d, n))}
      BY <1>3, <2>0 DEF SubDirs
    <2>5. Kids(Type(fs), Table(fs), d)
             = {n \in Names : Table(fs)[<<d, n>>] # 0 /\ Type(fs)[Table(fs)[<<d, n>>]] = "dir"}
      BY DEF Kids, IsSub
    <2> QED
      BY <2>3, <2>4, <2>5
  <1>7. \A i \in Inodes : (\A n \in Names : Table(fs)[<<i, n>>] = 0) => Named(fs, i) = {}
    BY <1>3, <1>4
  <1> QED
    BY <1>1, <1>2, <1>5, <1>6, <1>7

\* The invariants are what a sound image says.
LEMMA SoundMeans ==
    ASSUME NamesFitLinks, Sound(fs)
    PROVE  Inv /\ LinksExact
  <1>0. \A i \in Inodes : Links(fs)[i] = IF Type(fs)[i] = "dir" THEN 2 + Subs(Type(fs), Table(fs), i)
                                        ELSE IF Type(fs)[i] = "none" THEN 0 ELSE Count(Table(fs), i)
    BY DEF Sound, TreeOf, Tree, Linked
  <1>1. TypeOK
    <2>1. fs.ok /\ fs.room \in Nat
      BY SoundIs, ImageIs
    <2>2. ASSUME NEW i \in Inodes
          PROVE  /\ fs.node[i].type \in Types \cup {"none"}
                 /\ fs.node[i].links \in 0..(LinkSpan - 1)
                 /\ DOMAIN fs.ent[i] \subseteq Names \cup {Dot, DotDot}
      <3>0. fs \in Image
        BY SoundIs
      <3>1. fs.node[i].type \in AnyType /\ fs.ent[i] \in Map /\ fs.node[i].links = Links(fs)[i]
        BY <3>0, NodeIs
      <3>2. Links(fs)[i] \in 0 .. (LinkSpan - 1)
        <4>1. Count(Table(fs), i) \in 0 .. (LinkSpan - 1)
          BY Finite
        <4>2. 2 + Subs(Type(fs), Table(fs), i) \in 0 .. (LinkSpan - 1)
          <5>1. Subs(Type(fs), Table(fs), i) \in Nat /\ Subs(Type(fs), Table(fs), i) + 2 < LinkSpan
            BY Finite
          <5> QED
            BY <5>1, Constants
        <4>3. 0 \in 0 .. (LinkSpan - 1)
          BY Constants
        <4> QED
          BY <1>0, <4>1, <4>2, <4>3
      <3> QED
        BY <3>1, <3>2, MapIs DEF AnyType, AnyName
    <2> QED
      BY <2>1, <2>2 DEF TypeOK
  <1>2. EntriesAgree
    <2> SUFFICES ASSUME NEW d \in Dirs(fs), NEW n \in DOMAIN fs.ent[d]
                 PROVE  /\ Target(fs, d, n) \in InUse(fs)
                        /\ fs.ent[d][n].type = fs.node[Target(fs, d, n)].type
      BY DEF EntriesAgree
    <2>1. d \in Inodes /\ fs.ent[d][n].ino \in Inodes
      BY SoundIs, NodeIs, MapIs DEF Dirs, Entry
    <2>2. Type(fs)[fs.ent[d][n].ino] # "none"
      BY <2>1, SoundIs
    <2> QED
      BY <2>1, <2>2, ViewsAre, SoundIs DEF Target, InUse, Typed
  <1>3. DotDotIsParent
    <2> SUFFICES ASSUME NEW d \in Dirs(fs) \ {Root}
                 PROVE  \E p \in Places(d) : Places(d) = {p} /\ Target(fs, d, DotDot) = p[1]
      BY DEF DotDotIsParent
    <2>1. d \in Inodes /\ Type(fs)[d] = "dir" /\ Places(d) = Slots(Table(fs), d)
      BY ViewsAre DEF Dirs
    <2>2. PICK q \in Slot : /\ Table(fs)[q] = d /\ Up(fs)[d] = q[1]
                            /\ \A o \in Slot : Table(fs)[o] = d => o = q
      BY <2>1 DEF Sound, TreeOf, Tree, OneName
    <2>3. q \in Places(d) /\ Places(d) = {q}
      BY <2>1, <2>2 DEF Slots
    <2>4. Target(fs, d, DotDot) = q[1]
      <3>1. Up(fs)[d] = At(fs, d, DotDot) /\ q[1] # 0
        BY <2>1, SlotIs, Constants DEF Up
      <3> QED
        BY <2>2, <3>1 DEF At, Target
    <2> QED
      BY <2>3, <2>4
  <1>4. LinksExact
    <2> SUFFICES ASSUME NEW i \in InUse(fs)
                 PROVE  fs.node[i].links = IF IsDir(fs, i) THEN 2 + Cardinality(SubDirs(i))
                                           ELSE Cardinality(Places(i))
      BY DEF LinksExact
    <2>1. i \in Inodes /\ fs.node[i].type # "none"
      BY DEF InUse
    <2>2. CASE IsDir(fs, i)
      <3>1. i \in Dirs(fs) /\ Type(fs)[i] = "dir"
        BY <2>1, <2>2, ViewsAre DEF Dirs
      <3> QED
        BY <1>0, <2>1, <2>2, <3>1, ViewsAre DEF Subs
    <2>3. CASE ~IsDir(fs, i)
      <3>1. Type(fs)[i] \notin {"dir", "none"}
        BY <2>1, <2>3, ViewsAre DEF IsDir
      <3> QED
        BY <1>0, <2>1, <2>3, <3>1, ViewsAre DEF Count
    <2> QED
      BY <2>2, <2>3
  <1> QED
    BY <1>1, <1>2, <1>3, <1>4 DEF Inv

\* What the directories of a set name, as the walk below the root finds it.
LEMMA UnderIs ==
    ASSUME NEW s, Sound(s), NEW A \in SUBSET Inodes
    PROVE  UNION {{Target(s, d, m) : m \in Named(s, d)} : d \in A \cap Dirs(s)} = Under(Table(s), A)
  <1>1. ASSUME NEW d \in A \cap Dirs(s), NEW m \in Named(s, d)
        PROVE  Target(s, d, m) \in Under(Table(s), A)
    <2>1. /\ d \in Inodes /\ m \in Names /\ Target(s, d, m) = Table(s)[<<d, m>>]
          /\ Table(s)[<<d, m>>] \in Inodes
      BY DirIs
    <2>2. <<d, m>> \in Slot /\ <<d, m>>[1] \in A
      BY <2>1, SlotIs
    <2> QED
      BY <2>1, <2>2 DEF Under
  <1>2. ASSUME NEW x \in Under(Table(s), A)
        PROVE  \E d \in A \cap Dirs(s) : \E m \in Named(s, d) : x = Target(s, d, m)
    <2>1. PICK q \in Slot : q[1] \in A /\ Table(s)[q] = x /\ x \in Inodes
      BY DEF Under
    <2>2. q = <<q[1], q[2]>> /\ q[1] \in Inodes /\ q[2] \in Names
      BY SlotIs
    <2>3. Table(s)[q] # 0 /\ Type(s)[q[1]] = "dir"
      BY <2>1, SoundIs, Constants
    <2>4. q[1] \in Dirs(s)
      BY <2>2, <2>3, ViewAt DEF Dirs, IsDir
    <2>5. Table(s)[<<q[1], q[2]>>] = x /\ x # 0
      BY <2>1, <2>2, <2>3
    <2>6. q[2] \in Named(s, q[1]) /\ Target(s, q[1], q[2]) = x
      BY <2>2, <2>5, NamedSound, NamedIs
    <2> QED
      BY <2>1, <2>4, <2>6
  <1> QED
    BY <1>1, <1>2

\* What is below the root grows from it, directory by directory.
LEMMA BelowIs ==
    ASSUME NamesFitLinks, Sound(fs)
    PROVE  \E at : /\ Growing(Table(fs), at, Cardinality(Inodes))
                   /\ Below = at[Cardinality(Inodes)]
  <1> DEFINE n == Cardinality(Inodes)
             V == SUBSET Inodes
             t == Table(fs)
             F == [p \in (1 .. n) \X V |-> p[2] \cup Under(t, p[2])]
             In(A) == UNION {{Target(fs, d, m) : m \in Named(fs, d)} : d \in A \cap Dirs(fs)}
             at[k \in 0 .. n] == IF k = 0 THEN {Root} ELSE at[k - 1] \cup In(at[k - 1])
  <1>0. n \in Nat /\ {Root} \in V
    BY FS_CardinalityType, Constants DEF NamesFitLinks
  <1>1. \A A \in V : A \cup Under(t, A) \in V /\ In(A) = Under(t, A)
    BY UnderIs DEF Under
  <1>2. \A k \in 1 .. n : \A A \in V : F[<<k, A>>] = A \cup Under(t, A)
    OBVIOUS
  <1>3. \E f : f \in Stepwise(n, V, {Root}, F)
    <2> HIDE DEF n, F, V, t, In
    <2>1. StaysIn(n, V, F)
      BY <1>1, <1>2 DEF StaysIn
    <2> QED
      BY <1>0, <2>1, StepwiseExists
  <1> HIDE DEF F
  <1>4. PICK f \in [0 .. n -> V] : f[0] = {Root} /\ \A k \in 1 .. n : f[k] = F[<<k, f[k - 1]>>]
    BY <1>3 DEF Stepwise
  <1>5. \A k \in 1 .. n : f[k - 1] \in V /\ f[k] = f[k - 1] \cup Under(t, f[k - 1])
    <2> HIDE DEF n, V, t, In
    <2> SUFFICES ASSUME NEW k \in 1 .. n
                 PROVE  f[k - 1] \in V /\ f[k] = f[k - 1] \cup Under(t, f[k - 1])
      OBVIOUS
    <2>1. k - 1 \in 0 .. n
      BY <1>0
    <2>2. f[k - 1] \in V
      BY <1>4, <2>1
    <2>3. f[k] = F[<<k, f[k - 1]>>]
      BY <1>4
    <2> QED
      BY <1>2, <2>2, <2>3
  <1>6. Growing(t, f, n)
    <2> HIDE DEF n, t, In
    <2> QED
      BY <1>4, <1>5 DEF Growing
  <1>7. f = [k \in 0 .. n |-> IF k = 0 THEN {Root} ELSE f[k - 1] \cup In(f[k - 1])]
    <2> HIDE DEF n, V, t, In
    <2>1. \A k \in 1 .. n : f[k] = f[k - 1] \cup In(f[k - 1])
      BY <1>1, <1>5
    <2>2. \A k \in 0 .. n : k = 0 \/ k \in 1 .. n
      BY <1>0
    <2> QED
      BY <1>4, <2>1, <2>2
  <1>8. at = [k \in 0 .. n |-> IF k = 0 THEN {Root} ELSE at[k - 1] \cup In(at[k - 1])]
    BY <1>7, Zenon
  <1>9. Below = at[n]
    BY DEF Below
  <1> HIDE DEF at
  <1>10. 0 .. n \subseteq {k \in 0 .. n : at[k] = f[k]}
    <2> DEFINE S == {k \in 0 .. n : at[k] = f[k]}
    <2> HIDE DEF n, V, t, In
    <2>1. 0 \in 0 .. n /\ \A k \in 1 .. n : k \in 0 .. n /\ k # 0
      BY <1>0
    <2>2. at[0] = {Root} /\ \A k \in 1 .. n : at[k] = at[k - 1] \cup In(at[k - 1])
      BY <1>8, <2>1
    <2>3. 0 \in S
      BY <1>4, <2>1, <2>2
    <2>4. \A k \in 1 .. n : k - 1 \in S => k \in S
      <3> SUFFICES ASSUME NEW k \in 1 .. n, at[k - 1] = f[k - 1] PROVE k \in S
        OBVIOUS
      <3>1. at[k] = f[k]
        BY <1>1, <1>5, <2>2
      <3> QED
        BY <2>1, <3>1
    <2> HIDE DEF S
    <2>5. 0 .. n \subseteq S
      BY <1>0, <2>3, <2>4, UpTo
    <2> QED
      BY <2>5 DEF S
  <1>11. Below = f[n]
    <2>1. n \in 0 .. n
      BY <1>0
    <2> HIDE DEF n
    <2> QED
      BY <1>9, <1>10, <2>1
  <1> QED
    BY <1>6, <1>11

\* In a sound image where nothing leads back to itself and every file has a
\* name, what is in use is below the root.
LEMMA RootedMeans ==
    ASSUME NamesFitLinks, Sound(fs), NoLoop(Type(fs), Up(fs)), AllNamed(Type(fs), Table(fs))
    PROVE  Rooted
  <1> DEFINE n == Cardinality(Inodes)
             T == Type(fs)
             t == Table(fs)
  <1>0. n \in Nat /\ n \in 0 .. n /\ IsFiniteSet(Inodes)
    BY FS_CardinalityType DEF NamesFitLinks
  <1>1. PICK at : Growing(t, at, n) /\ Below = at[n]
    BY BelowIs
  <1>2. Under(t, Below) \subseteq Below
    BY <1>0, <1>1, GrownIsClosed
  <1>3. \A q \in Slot : t[q] # 0 => t[q] \in Inodes /\ T[t[q]] # "none" /\ T[q[1]] = "dir"
    BY SoundIs
  <1>4. T[Root] = "dir" /\ Root \in Inodes /\ 0 \notin Inodes
    BY Constants DEF Sound, TreeOf, Tree, Dots
  <1>5. \A i \in Inodes : i \in InUse(fs) <=> T[i] # "none"
    BY ViewAt DEF InUse
  <1> HIDE DEF n, T, t
  <1>6. \A q \in Slot : t[q] \in Inodes /\ q[1] \in Below => t[q] \in Below
    BY <1>2 DEF Under
  <1> DEFINE All == {x \in Inodes : T[x] # "none"}
             S == {k \in 0 .. n : Root \in at[k] /\ at[k] \subseteq All}
  <1>7. n \in S
    <2>1. 0 \in S
      BY <1>0, <1>1, <1>4 DEF Growing
    <2>2. ASSUME NEW k \in 1 .. n, k - 1 \in S PROVE k \in S
      <3>1. at[k] = at[k - 1] \cup Under(t, at[k - 1])
        BY <1>1 DEF Growing
      <3>2. Under(t, at[k - 1]) \subseteq All
        BY <1>3, <1>4 DEF Under
      <3>3. k \in 0 .. n
        BY <1>0
      <3> QED
        BY <2>2, <3>1, <3>2, <3>3
    <2> HIDE DEF S
    <2> QED
      BY <1>0, <2>1, <2>2, UpTo
  <1>8. Root \in Below /\ Below \subseteq All
    BY <1>1, <1>7
  <1>9. \A x \in Inodes : T[x] = "dir" => x \in Below
    <2> DEFINE O == {x \in Inodes : T[x] = "dir" /\ x \notin Below}
    <2> SUFFICES ASSUME O # {} PROVE FALSE
      OBVIOUS
    <2>1. O \in SUBSET (Inodes \ {Root}) /\ \A x \in O : T[x] = "dir"
      BY <1>8
    <2> HIDE DEF O
    <2>2. PICK x \in O : Up(fs)[x] \notin O
      BY <2>1 DEF NoLoop, T
    <2>3. PICK q \in Slot : t[q] = x /\ Up(fs)[x] = q[1]
      BY <2>1 DEF Sound, TreeOf, Tree, OneName, T, t
    <2>4. x \in Inodes /\ q[1] \in Inodes /\ T[q[1]] = "dir"
      BY <1>3, <1>4, <2>1, <2>3, SlotIs
    <2>5. q[1] \in Below
      BY <2>2, <2>3, <2>4 DEF O
    <2> QED
      BY <1>6, <2>3, <2>4, <2>5 DEF O
  <1>10. \A x \in Inodes : T[x] \notin {"none", "dir"} => x \in Below
    <2> SUFFICES ASSUME NEW x \in Inodes, T[x] \notin {"none", "dir"} PROVE x \in Below
      OBVIOUS
    <2>1. PICK q \in Slot : t[q] = x
      BY DEF AllNamed, T, t
    <2>2. q[1] \in Inodes /\ T[q[1]] = "dir"
      BY <1>3, <1>4, <2>1, SlotIs
    <2> QED
      BY <1>6, <1>9, <2>1, <2>2
  <1> QED
    BY <1>5, <1>8, <1>9, <1>10 DEF Rooted, InUse

-----------------------------------------------------------------------------
(* Sums. *)

\* g adds b up over every subset of S.
Adds(g, b, S) ==
    /\ b \in [S -> Nat] /\ g \in [SUBSET S -> Nat] /\ g[{}] = 0
    /\ \A A \in SUBSET S : \A x \in A : g[A] = g[A \ {x}] + b[x]

\* The sum when one summand is another.
LEMMA AddsOneOther ==
    ASSUME NEW S, NEW b, NEW g, Adds(g, b, S), NEW i \in S, NEW k \in Nat
    PROVE  \E h : Adds(h, [b EXCEPT ![i] = k], S) /\ h[S] + b[i] = g[S] + k
  <1> DEFINE c == [b EXCEPT ![i] = k]
             h == [A \in SUBSET S |-> IF i \in A THEN g[A \ {i}] + k ELSE g[A]]
  <1>1. /\ b \in [S -> Nat] /\ g \in [SUBSET S -> Nat] /\ g[{}] = 0
        /\ \A A \in SUBSET S : \A x \in A : g[A] = g[A \ {x}] + b[x]
    BY DEF Adds
  <1>2. c \in [S -> Nat] /\ c[i] = k /\ \A x \in S \ {i} : c[x] = b[x]
    BY <1>1
  <1>3. \A A \in SUBSET S : g[A] \in Nat /\ g[A \ {i}] \in Nat /\ A \ {i} \in SUBSET S
    BY <1>1
  <1>4. h \in [SUBSET S -> Nat] /\ \A A \in SUBSET S : h[A] = IF i \in A THEN g[A \ {i}] + k ELSE g[A]
    <2>1. \A A \in SUBSET S : (IF i \in A THEN g[A \ {i}] + k ELSE g[A]) \in Nat
      BY <1>3
    <2> QED
      BY <2>1
  <1> HIDE DEF h, c
  <1>5. h[{}] = 0
    <2>1. {} \in SUBSET S /\ i \notin {}
      OBVIOUS
    <2> QED
      BY <1>1, <1>4, <2>1
  <1>6. ASSUME NEW A \in SUBSET S, NEW x \in A PROVE h[A] = h[A \ {x}] + c[x]
    <2>0. A \ {x} \in SUBSET S /\ A \ {i} \in SUBSET S /\ x \in S
      OBVIOUS
    <2>1. CASE x = i
      <3>1. h[A] = g[A \ {i}] + k
        BY <1>4, <2>1
      <3>2. h[A \ {x}] = g[A \ {x}]
        BY <1>4, <2>0, <2>1
      <3>3. c[x] = k /\ A \ {x} = A \ {i}
        BY <1>2, <2>1
      <3> QED
        BY <3>1, <3>2, <3>3
    <2>2. CASE x # i /\ i \in A
      <3>1. h[A] = g[A \ {i}] + k
        BY <1>4, <2>2
      <3>2. h[A \ {x}] = g[(A \ {x}) \ {i}] + k
        BY <1>4, <2>0, <2>2
      <3>3. (A \ {x}) \ {i} = (A \ {i}) \ {x} /\ x \in A \ {i} /\ (A \ {i}) \ {x} \in SUBSET S
        BY <2>2
      <3>4. g[A \ {i}] = g[(A \ {i}) \ {x}] + b[x]
        BY <1>1, <2>0, <3>3
      <3>5. c[x] = b[x] /\ b[x] \in Nat /\ g[(A \ {i}) \ {x}] \in Nat
        BY <1>1, <1>2, <2>0, <2>2, <3>3
      <3> DEFINE o == g[(A \ {x}) \ {i}]
                 p == b[x]
      <3>6. h[A \ {x}] = o + k /\ c[x] = p /\ h[A] = (o + p) + k /\ o \in Nat /\ p \in Nat
        BY <3>1, <3>2, <3>3, <3>4, <3>5
      <3> HIDE DEF o, p
      <3>7. (o + p) + k = (o + k) + p
        BY <3>6
      <3> QED
        BY <3>6, <3>7
    <2>3. CASE i \notin A
      <3>1. h[A] = g[A] /\ h[A \ {x}] = g[A \ {x}] /\ c[x] = b[x]
        BY <1>2, <1>4, <2>0, <2>3
      <3> QED
        BY <1>1, <2>3, <3>1
    <2> QED
      BY <2>1, <2>2, <2>3
  <1>7. h[S] + b[i] = g[S] + k
    <2>1. S \in SUBSET S /\ h[S] = g[S \ {i}] + k /\ g[S] = g[S \ {i}] + b[i]
      BY <1>1, <1>4
    <2>2. g[S \ {i}] \in Nat /\ b[i] \in Nat
      BY <1>1, <1>3
    <2> QED
      BY <2>1, <2>2
  <1>8. Adds(h, c, S)
    BY <1>2, <1>4, <1>5, <1>6 DEF Adds
  <1> QED
    BY <1>7, <1>8 DEF c

\* What adds nothing can be left out of a sum.
LEMMA AddsLess ==
    ASSUME NEW S, IsFiniteSet(S), NEW b, NEW g, Adds(g, b, S),
           NEW T \in SUBSET S, \A x \in S \ T : b[x] = 0
    PROVE  g[S] = g[T]
  <1> DEFINE n == Cardinality(S \ T)
             R == {m \in Nat : \A A \in SUBSET S :
                        T \subseteq A /\ Cardinality(A \ T) = m => g[A] = g[T]}
  <1>1. /\ b \in [S -> Nat] /\ g \in [SUBSET S -> Nat]
        /\ \A A \in SUBSET S : \A x \in A : g[A] = g[A \ {x}] + b[x]
    BY DEF Adds
  <1>2. \A A \in SUBSET S : IsFiniteSet(A)
    BY FS_Subset
  <1>3. 0 \in R
    <2> SUFFICES ASSUME NEW A \in SUBSET S, T \subseteq A, Cardinality(A \ T) = 0 PROVE g[A] = g[T]
      OBVIOUS
    <2>1. A \ T \in SUBSET S
      OBVIOUS
    <2>2. A \ T = {}
      BY <1>2, <2>1, FS_EmptySet
    <2>3. A = T
      BY <2>2
    <2> QED
      BY <2>3
  <1>4. ASSUME NEW m \in Nat \ {0}, m - 1 \in R PROVE m \in R
    <2> SUFFICES ASSUME NEW A \in SUBSET S, T \subseteq A, Cardinality(A \ T) = m PROVE g[A] = g[T]
      OBVIOUS
    <2>1. IsFiniteSet(A \ T) /\ A \ T # {}
      <3>1. A \ T \in SUBSET S
        OBVIOUS
      <3> QED
        BY <1>2, <3>1, FS_EmptySet
    <2>2. PICK x \in A \ T : TRUE
      BY <2>1
    <2>3. Cardinality((A \ T) \ {x}) = m - 1 /\ (A \ T) \ {x} = (A \ {x}) \ T
      BY <2>1, <2>2, FS_RemoveElement
    <2>4. A \ {x} \in SUBSET S /\ T \subseteq A \ {x}
      BY <2>2
    <2>5. g[A \ {x}] = g[T]
      BY <1>4, <2>3, <2>4
    <2>6. g[A] = g[A \ {x}] + b[x] /\ b[x] = 0 /\ g[A \ {x}] \in Nat
      BY <1>1, <2>2, <2>4
    <2> QED
      BY <2>5, <2>6
  <1>5. n \in Nat
    <2>1. S \ T \in SUBSET S
      OBVIOUS
    <2> QED
      BY <1>2, <2>1, FS_CardinalityType
  <1> HIDE DEF n
  <1>6. 0 .. n \subseteq R
    <2> HIDE DEF R
    <2>1. \A k \in 1 .. n : k - 1 \in R => k \in R
      BY <1>4, <1>5
    <2> QED
      BY <1>3, <1>5, <2>1, UpTo
  <1>7. n \in R
    BY <1>5, <1>6
  <1> QED
    BY <1>7 DEF n

\* The sum that FoldSet computes over a set of inodes, one after the other.
FoldedBlocks(S, node) ==
    LET iter[A \in SUBSET S] ==
            IF A = {} THEN 0
            ELSE iter[A \ {CHOOSE x \in A : TRUE}] + node[CHOOSE x \in A : TRUE].blocks
    IN  iter[S]

\* It is the sum in any order.
LEMMA FoldedBlocksAre ==
    ASSUME NEW S, IsFiniteSet(S), NEW b, NEW g, Adds(g, b, S), NEW node,
           \A x \in S : b[x] = node[x].blocks
    PROVE  FoldedBlocks(S, node) = g[S]
  <1> DEFINE one(A) == CHOOSE x \in A : TRUE
             iter[A \in SUBSET S] ==
                 IF A = {} THEN 0 ELSE iter[A \ {one(A)}] + node[one(A)].blocks
             F(h) == [A \in SUBSET S |->
                         IF A = {} THEN 0 ELSE h[A \ {one(A)}] + node[one(A)].blocks]
  <1>1. iter = CHOOSE h : h = F(h)
    OBVIOUS
  <1>2. /\ b \in [S -> Nat] /\ g \in [SUBSET S -> Nat] /\ g[{}] = 0
        /\ \A A \in SUBSET S : \A x \in A : g[A] = g[A \ {x}] + b[x]
    BY DEF Adds
  <1>3. ASSUME NEW A \in SUBSET S
        PROVE  g[A] = IF A = {} THEN 0 ELSE g[A \ {one(A)}] + node[one(A)].blocks
    <2>1. CASE A # {}
      <3> DEFINE x == one(A)
      <3>1. x \in A
        BY <2>1
      <3> HIDE DEF x
      <3>2. g[A] = g[A \ {x}] + b[x] /\ b[x] = node[x].blocks
        BY <1>2, <3>1
      <3> QED
        BY <2>1, <3>2 DEF x
    <2> QED
      BY <1>2, <2>1
  <1>4. g = F(g)
    <2> HIDE DEF one
    <2> QED
      BY <1>2, <1>3
  <1>6. iter = F(iter)
    <2> HIDE DEF F
    <2> QED
      BY <1>1, <1>4
  <1> HIDE DEF iter
  <1>7. \A A \in SUBSET S : iter[A] = IF A = {} THEN 0 ELSE iter[A \ {one(A)}] + node[one(A)].blocks
    BY <1>6
  <1> DEFINE n == Cardinality(S)
             R == {m \in Nat : \A A \in SUBSET S : Cardinality(A) = m => iter[A] = g[A]}
  <1>8. \A A \in SUBSET S : IsFiniteSet(A)
    BY FS_Subset
  <1>9. 0 \in R
    <2> SUFFICES ASSUME NEW A \in SUBSET S, Cardinality(A) = 0 PROVE iter[A] = g[A]
      OBVIOUS
    <2>1. A = {}
      BY <1>8, FS_EmptySet
    <2> HIDE DEF one
    <2> QED
      BY <1>2, <1>7, <2>1
  <1>10. ASSUME NEW m \in Nat \ {0}, m - 1 \in R PROVE m \in R
    <2> SUFFICES ASSUME NEW A \in SUBSET S, Cardinality(A) = m PROVE iter[A] = g[A]
      OBVIOUS
    <2>1. A # {} /\ IsFiniteSet(A)
      BY <1>8, FS_EmptySet
    <2> DEFINE x == one(A)
    <2>2. x \in A
      BY <2>1
    <2>3. iter[A] = iter[A \ {x}] + node[x].blocks /\ g[A] = g[A \ {x}] + node[x].blocks
      BY <1>3, <1>7, <2>1
    <2> HIDE DEF x
    <2>4. A \ {x} \in SUBSET S /\ Cardinality(A \ {x}) = m - 1
      BY <2>1, <2>2, FS_RemoveElement
    <2>5. iter[A \ {x}] = g[A \ {x}]
      BY <1>10, <2>4
    <2> QED
      BY <2>3, <2>5
  <1>11. n \in Nat
    BY FS_CardinalityType
  <1> HIDE DEF n
  <1>12. n \in R
    <2> HIDE DEF R
    <2>1. \A k \in 1 .. n : k - 1 \in R => k \in R
      BY <1>10, <1>11
    <2> QED
      BY <1>9, <1>11, <2>1, UpTo
  <1>13. iter[S] = g[S]
    BY <1>12 DEF n
  <1> QED
    BY <1>13 DEF iter, FoldedBlocks

-----------------------------------------------------------------------------
(* Blocks. *)

\* The blocks of the inodes.
Blocks(s) == [i \in Inodes |-> s.node[i].blocks]

\* The parts of an image that blocks are in.
Stocked(s) ==
    /\ s = [node |-> s.node, ent |-> s.ent, room |-> s.room, ok |-> s.ok]
    /\ s.node \in [Inodes -> Record] /\ s.room \in Nat
    /\ \A i \in Inodes : s.node[i].type = "none" => s.node[i].blocks = 0

\* Every block is free or an inode's.
Tallied(s) ==
    Stocked(s) /\ \E g : Adds(g, Blocks(s), Inodes) /\ s.room + g[Inodes] = Space

\* What r is when the nodes and the room of s become node and room.
Holding(r, node, room) == r = [node |-> node, ent |-> r.ent, room |-> room, ok |-> r.ok]

\* The room pays for the blocks that i has more, or gets those that it has less.
Paid(s, i, b, room) == room + b = s.room + s.node[i].blocks

\* A record of an inode whose blocks, or whose links, are others.
LEMMA RecordWith ==
    ASSUME NEW k \in Record, NEW b \in Nat
    PROVE  /\ [k EXCEPT !.blocks = b] \in Record /\ [k EXCEPT !.blocks = b].type = k.type
           /\ [k EXCEPT !.blocks = b].blocks = b
           /\ [k EXCEPT !.links = b] \in Record /\ [k EXCEPT !.links = b].type = k.type
           /\ [k EXCEPT !.links = b].blocks = k.blocks
  <1>1. [k EXCEPT !.blocks = b]
          = [type |-> k.type, links |-> k.links, blocks |-> b, indexed |-> k.indexed]
    BY RecordIs
  <1>2. [k EXCEPT !.links = b]
          = [type |-> k.type, links |-> b, blocks |-> k.blocks, indexed |-> k.indexed]
    BY RecordIs
  <1> QED
    BY <1>1, <1>2, RecordIs DEF Record

\* Entries hold no blocks.
LEMMA TallySame ==
    ASSUME NEW s, Tallied(s), NEW r, Holding(r, s.node, s.room)
    PROVE  Tallied(r) /\ r.node = s.node
  <1>1. r.node = s.node /\ r.room = s.room
        /\ r = [node |-> r.node, ent |-> r.ent, room |-> r.room, ok |-> r.ok]
    BY DEF Holding
  <1>2. Stocked(r)
    BY <1>1 DEF Tallied, Stocked
  <1>3. Blocks(r) = Blocks(s)
    BY <1>1 DEF Blocks
  <1> QED
    BY <1>1, <1>2, <1>3 DEF Tallied

\* What an inode takes the room loses.
LEMMA TallyNode ==
    ASSUME NEW s, Tallied(s), NEW i \in Inodes, NEW n \in Record, NEW room \in Nat,
           n.type = "none" => n.blocks = 0, Paid(s, i, n.blocks, room),
           NEW r, Holding(r, [s.node EXCEPT ![i] = n], room)
    PROVE  Tallied(r) /\ r.node[i] = n /\ \A x \in Inodes \ {i} : r.node[x] = s.node[x]
  <1> DEFINE node == [s.node EXCEPT ![i] = n]
             b == s.node[i].blocks
             k == n.blocks
  <1>0. s.node \in [Inodes -> Record] /\ s.room \in Nat
        /\ \A x \in Inodes : s.node[x].type = "none" => s.node[x].blocks = 0
    BY DEF Tallied, Stocked
  <1>1. node \in [Inodes -> Record] /\ node[i] = n /\ \A x \in Inodes \ {i} : node[x] = s.node[x]
    BY <1>0
  <1>2. r.node = node /\ r.room = room
        /\ r = [node |-> r.node, ent |-> r.ent, room |-> r.room, ok |-> r.ok]
    BY DEF Holding
  <1> HIDE DEF node
  <1>3. Stocked(r)
    BY <1>0, <1>1, <1>2 DEF Stocked
  <1>4. Blocks(r) = [Blocks(s) EXCEPT ![i] = k]
    BY <1>1, <1>2 DEF Blocks
  <1>5. k \in Nat /\ b \in Nat /\ Blocks(s)[i] = b
    BY <1>0, RecordIs DEF Blocks
  <1>6. PICK g : Adds(g, Blocks(s), Inodes) /\ s.room + g[Inodes] = Space
    BY DEF Tallied
  <1>7. PICK h : Adds(h, [Blocks(s) EXCEPT ![i] = k], Inodes) /\ h[Inodes] + Blocks(s)[i] = g[Inodes] + k
    <2> HIDE DEF k
    <2> QED
      BY <1>5, <1>6, AddsOneOther
  <1>8. g[Inodes] \in Nat /\ h[Inodes] \in Nat
    BY <1>6, <1>7 DEF Adds
  <1>9. room + k = s.room + b
    BY DEF Paid
  <1> HIDE DEF k, b
  <1>10. room + h[Inodes] = Space
    BY <1>0, <1>5, <1>6, <1>7, <1>8, <1>9
  <1> QED
    BY <1>1, <1>2, <1>3, <1>4, <1>7, <1>10 DEF Tallied

\* Failed and ended calls hold what there was.
LEMMA TallyOk ==
    ASSUME NEW s, Tallied(s)
    PROVE  Tallied(Failed(s)) /\ Failed(s).node = s.node /\ Tallied([s EXCEPT !.ok = TRUE])
  <1>1. s = [node |-> s.node, ent |-> s.ent, room |-> s.room, ok |-> s.ok]
    BY DEF Tallied, Stocked
  <1>2. ASSUME NEW r, NEW ok, r = [s EXCEPT !.ok = ok] PROVE Tallied(r) /\ r.node = s.node
    <2>1. r = [node |-> s.node, ent |-> s.ent, room |-> s.room, ok |-> ok]
      BY <1>1, <1>2
    <2>2. Holding(r, s.node, s.room)
      BY <2>1 DEF Holding
    <2> QED
      BY <2>2, TallySame
  <1> QED
    BY <1>2 DEF Failed

\* The calls that only touch entries.
LEMMA EntriesTally ==
    ASSUME NEW s, Tallied(s), NEW d, NEW name, NEW i
    PROVE  /\ Tallied(RemoveEntry(s, d, name)) /\ RemoveEntry(s, d, name).node = s.node
           /\ Tallied(SetEntryTarget(s, d, name, i)) /\ SetEntryTarget(s, d, name, i).node = s.node
           /\ Tallied(Repointed(s, d, i))
  <1> DEFINE a == RemoveEntry(s, d, name)
  <1>0. s = [node |-> s.node, ent |-> s.ent, room |-> s.room, ok |-> s.ok]
    BY DEF Tallied, Stocked
  <1>1. Tallied(a) /\ a.node = s.node
    <2>1. CASE Found(s, d, name)
      <3>1. Holding(a, s.node, s.room)
        BY <1>0, <2>1 DEF Holding, RemoveEntry
      <3> HIDE DEF a
      <3> QED
        BY <3>1, TallySame
    <2>2. CASE ~Found(s, d, name)
      BY <2>2, TallyOk DEF RemoveEntry
    <2> QED
      BY <2>1, <2>2
  <1>2. ASSUME NEW n
        PROVE  Tallied(SetEntryTarget(s, d, n, i)) /\ SetEntryTarget(s, d, n, i).node = s.node
    <2> DEFINE b == SetEntryTarget(s, d, n, i)
    <2>1. CASE Found(s, d, n)
      <3>1. Holding(b, s.node, s.room)
        BY <1>0, <2>1 DEF Holding, SetEntryTarget
      <3> HIDE DEF b
      <3>2. Tallied(b) /\ b.node = s.node
        BY <3>1, TallySame
      <3> QED
        BY <3>2 DEF b
    <2>2. CASE ~Found(s, d, n)
      BY <2>2, TallyOk DEF SetEntryTarget
    <2> QED
      BY <2>1, <2>2
  <1> QED
    BY <1>1, <1>2 DEF Repointed

\* The types stay, and the nodes but one.
OnlyNode(s, r, i) ==
    /\ \A x \in Inodes : r.node[x].type = s.node[x].type
    /\ \A x \in Inodes \ {i} : r.node[x] = s.node[x]

\* A link count holds no blocks.
LEMMA RecountTally ==
    ASSUME NEW s, Tallied(s), NEW i \in Inodes, NEW k \in Nat, NEW r, Recount(s, r, i, k)
    PROVE  Tallied(r) /\ OnlyNode(s, r, i) /\ r.node[i].blocks = s.node[i].blocks
  <1> DEFINE n == [s.node[i] EXCEPT !.links = k]
  <1>0. /\ s = [node |-> s.node, ent |-> s.ent, room |-> s.room, ok |-> s.ok]
        /\ s.node \in [Inodes -> Record] /\ s.room \in Nat
        /\ s.node[i].type = "none" => s.node[i].blocks = 0
    BY DEF Tallied, Stocked
  <1>1. n \in Record /\ n.type = s.node[i].type /\ n.blocks = s.node[i].blocks
    BY <1>0, RecordWith
  <1>2. Holding(r, [s.node EXCEPT ![i] = n], s.room) /\ Paid(s, i, n.blocks, s.room)
    BY <1>0, <1>1 DEF Recount, Holding, Paid
  <1> HIDE DEF n
  <1>3. Tallied(r) /\ r.node[i] = n /\ \A x \in Inodes \ {i} : r.node[x] = s.node[x]
    BY <1>0, <1>1, <1>2, TallyNode
  <1> QED
    BY <1>1, <1>3 DEF OnlyNode

\* The blocks of an inode and the room change.
Reblocks(s, r, i, b, room) == r = [s EXCEPT !.node[i].blocks = b, !.room = room]

\* Blocks go from the room to an inode in use, or back.
LEMMA ReblockTally ==
    ASSUME NEW s, Tallied(s), NEW i \in Inodes, NEW b \in Nat, NEW room \in Nat,
           s.node[i].type = "none" => b = 0, Paid(s, i, b, room), NEW r, Reblocks(s, r, i, b, room)
    PROVE  Tallied(r) /\ OnlyNode(s, r, i) /\ r.node[i].blocks = b
  <1> DEFINE n == [s.node[i] EXCEPT !.blocks = b]
  <1>0. /\ s = [node |-> s.node, ent |-> s.ent, room |-> s.room, ok |-> s.ok]
        /\ s.node \in [Inodes -> Record]
    BY DEF Tallied, Stocked
  <1>1. n \in Record /\ n.type = s.node[i].type /\ n.blocks = b
    BY <1>0, RecordWith
  <1>2. Holding(r, [s.node EXCEPT ![i] = n], room)
    BY <1>0 DEF Holding, Reblocks
  <1>21. (n.type = "none" => n.blocks = 0) /\ Paid(s, i, n.blocks, room)
    BY <1>1
  <1> HIDE DEF n
  <1>3. Tallied(r) /\ r.node[i] = n /\ \A x \in Inodes \ {i} : r.node[x] = s.node[x]
    BY <1>1, <1>2, <1>21, TallyNode
  <1> QED
    BY <1>1, <1>3 DEF OnlyNode

\* truncate_inode_impl.
LEMMA TruncateTally ==
    ASSUME NEW s, Tallied(s), NEW i \in Inodes, NEW r, r = Truncate(s, i)
    PROVE  /\ Tallied(r) /\ OnlyNode(s, r, i)
           /\ s.node[i].type # "fastlink" => r.node[i].blocks = 0
  <1>0. s.node[i].blocks \in Nat /\ s.room \in Nat
    BY RecordIs DEF Tallied, Stocked
  <1>1. CASE s.node[i].type = "fastlink"
    BY <1>1, TallyOk DEF Truncate, OnlyNode
  <1>2. CASE s.node[i].type # "fastlink"
    <2>1. s = [node |-> s.node, ent |-> s.ent, room |-> s.room, ok |-> s.ok]
      BY DEF Tallied, Stocked
    <2> DEFINE room == s.room + s.node[i].blocks
    <2>2. Reblocks(s, r, i, 0, room)
      BY <1>2, <2>1 DEF Truncate, Reblocks
    <2>3. room \in Nat /\ Paid(s, i, 0, room) /\ 0 \in Nat
      BY <1>0 DEF Paid
    <2> HIDE DEF room
    <2>4. Tallied(r) /\ OnlyNode(s, r, i) /\ r.node[i].blocks = 0
      BY <2>2, <2>3, ReblockTally
    <2> QED
      BY <2>4
  <1> QED
    BY <1>1, <1>2

\* An inode goes that holds no blocks.
LEMMA ReleaseTally ==
    ASSUME NEW s, Tallied(s), NEW i \in Inodes, s.node[i].blocks = 0, NEW r, r = Release(s, i)
    PROVE  Tallied(r)
  <1>0. /\ s = [node |-> s.node, ent |-> s.ent, room |-> s.room, ok |-> s.ok]
        /\ s.node \in [Inodes -> Record] /\ s.room \in Nat
    BY DEF Tallied, Stocked
  <1>1. NoNode \in Record /\ NoNode.blocks = 0
    <2>1. FALSE \in Flag
      BY DEF Flag
    <2> QED
      BY <2>1 DEF Record, Node, NoNode, AnyType
  <1>2. Holding(r, [s.node EXCEPT ![i] = NoNode], s.room) /\ Paid(s, i, NoNode.blocks, s.room)
    BY <1>0, <1>1 DEF Release, Holding, Paid
  <1> QED
    BY <1>0, <1>1, <1>2, TallyNode

\* dir_add_entry.
LEMMA AddEntryTally ==
    ASSUME NEW s, Tallied(s), NEW d \in Inodes, s.node[d].type # "none", NEW name, NEW i,
           NEW cost \in Nat, NEW r, r = AddEntry(s, d, name, i, cost)
    PROVE  Tallied(r) /\ OnlyNode(s, r, d)
  <1> DEFINE m == EntriesWith(s, d, name, i)
             n == NodeWith(s.node[d], s.node[d].blocks + cost, IndexedWith(s.node[d], cost))
             room == s.room - cost
  <1>0. /\ s = [node |-> s.node, ent |-> s.ent, room |-> s.room, ok |-> s.ok]
        /\ s.node \in [Inodes -> Record] /\ s.room \in Nat
    BY DEF Tallied, Stocked
  <1>1. CASE cost > s.room
    <2>1. r = Failed(s)
      BY <1>1, AddEntryIs
    <2> QED
      BY <2>1, TallyOk DEF OnlyNode
  <1>2. CASE ~(cost > s.room)
    <2>1. r = Entered(s, d, m, n, room)
      BY <1>2, AddEntryIs
    <2>2. n \in Record /\ n.type = s.node[d].type /\ n.blocks = s.node[d].blocks + cost
      BY <1>0, NodeWithIs
    <2>3. room \in Nat /\ Paid(s, d, n.blocks, room)
      <3>1. s.node[d].blocks \in Nat
        BY <1>0, RecordIs
      <3>2. room \in Nat /\ room + (s.node[d].blocks + cost) = s.room + s.node[d].blocks
        BY <1>0, <1>2, <3>1
      <3> QED
        BY <2>2, <3>2 DEF Paid
    <2> HIDE DEF m, n, room
    <2>4. Holding(r, [s.node EXCEPT ![d] = n], room)
      BY <1>0, <2>1 DEF Entered, Holding
    <2>5. Tallied(r) /\ r.node[d] = n /\ \A x \in Inodes \ {d} : r.node[x] = s.node[x]
      BY <2>2, <2>3, <2>4, TallyNode
    <2> QED
      BY <2>2, <2>5 DEF OnlyNode
  <1> QED
    BY <1>1, <1>2

\* unlink_impl: the last name goes when the blocks are gone.
LEMMA DropNameTally ==
    ASSUME NEW s, Tallied(s), NEW d, NEW name, NEW i \in Inodes,
           s.node[i].links \in {0, 1} => s.node[i].blocks = 0
    PROVE  Tallied(DropName(s, d, name, i))
  <1> DEFINE a == RemoveEntry(s, d, name)
             k == Less(s.node[i].links)
             r == DropName(s, d, name, i)
  <1>1. Tallied(a) /\ a.node = s.node
    BY EntriesTally
  <1>2. s.node[i].links \in Nat
    BY RecordIs DEF Tallied, Stocked
  <1>3. k \in Nat /\ (k = 0 => s.node[i].links \in {0, 1})
    BY <1>2 DEF Less
  <1>4. r = IF ~a.ok THEN a ELSE IF k = 0 THEN Release(a, i) ELSE [a EXCEPT !.node[i].links = k]
    BY DEF DropName
  <1> HIDE DEF a, k, r
  <1>5. CASE ~a.ok
    BY <1>1, <1>4, <1>5 DEF r
  <1>6. CASE a.ok /\ k = 0
    <2>1. a.node[i].blocks = 0 /\ r = Release(a, i)
      BY <1>1, <1>3, <1>4, <1>6
    <2>2. Tallied(r)
      BY <1>1, <2>1, ReleaseTally
    <2> QED
      BY <2>2 DEF r
  <1>7. CASE a.ok /\ k # 0
    <2>1. Recount(a, r, i, k)
      BY <1>4, <1>7 DEF Recount
    <2>2. Tallied(r)
      BY <1>1, <1>3, <2>1, RecountTally
    <2> QED
      BY <2>2 DEF r
  <1> QED
    BY <1>5, <1>6, <1>7

\* A truncation that fails fails.
LEMMA TruncateOk ==
    ASSUME NEW s, Tallied(s), NEW i \in Inodes, Truncate(s, i).ok
    PROVE  s.node[i].type # "fastlink"
  <1>1. s = [node |-> s.node, ent |-> s.ent, room |-> s.room, ok |-> s.ok]
    BY DEF Tallied, Stocked
  <1>2. ~Failed(s).ok
    BY <1>1 DEF Failed
  <1> QED
    BY <1>2 DEF Truncate

\* fuse_unlink_impl.
LEMMA UnlinkTally ==
    ASSUME NEW s, Tallied(s), NEW d, NEW name, NEW i \in Inodes, Target(s, d, name) = i,
           s.node[i].links # 0
    PROVE  Tallied(Unlink(s, d, name))
  <1> DEFINE a == IF s.node[i].links = 1 THEN Truncate(s, i) ELSE s
  <1>1. Unlink(s, d, name) = IF a.ok THEN DropName(a, d, name, i) ELSE a
    BY DEF Unlink
  <1>2. Tallied(a) /\ (a.ok /\ a.node[i].links \in {0, 1} => a.node[i].blocks = 0)
    <2>1. CASE s.node[i].links = 1
      <3>1. a = Truncate(s, i)
        BY <2>1
      <3> QED
        BY <3>1, TruncateTally, TruncateOk
    <2>2. CASE s.node[i].links # 1
      BY <2>2
    <2> QED
      BY <2>1, <2>2
  <1> HIDE DEF a
  <1>3. a.ok => Tallied(DropName(a, d, name, i))
    BY <1>2, DropNameTally
  <1> QED
    BY <1>1, <1>2, <1>3

\* dir_remove.
LEMMA DirRemoveTally ==
    ASSUME NEW s, Tallied(s), NEW d \in Inodes, NEW name, NEW i \in Inodes, Target(s, d, name) = i,
           IsDir(s, i)
    PROVE  Tallied(DirRemove(s, d, name))
  <1> DEFINE a == RemoveEntry(s, d, name)
             b == Truncate(a, i)
             c == Release(b, i)
             k == Less(c.node[d].links)
             r == [c EXCEPT !.node[d].links = Less(@)]
  <1>1. DirRemove(s, d, name) = Failed(s) \/ DirRemove(s, d, name) = r
    BY DEF DirRemove
  <1>2. Tallied(a) /\ a.node[i].type = "dir"
    BY EntriesTally DEF IsDir
  <1>3. Tallied(b) /\ b.node[i].blocks = 0
    BY <1>2, TruncateTally
  <1>4. Recount(c, r, d, k)
    BY DEF Recount
  <1> HIDE DEF a, b
  <1>5. Tallied(c)
    BY <1>3, ReleaseTally
  <1> HIDE DEF c
  <1>6. k \in Nat
    <2>1. c.node[d].links \in Nat
      BY <1>5, RecordIs DEF Tallied, Stocked
    <2> QED
      BY <2>1 DEF Less
  <1> HIDE DEF k, r
  <1>7. Tallied(r)
    BY <1>4, <1>5, <1>6, RecountTally
  <1> QED
    BY <1>1, <1>7, TallyOk

\* A file with a name has a count.
LEMMA NamedCounts ==
    ASSUME NamesFitLinks, NEW s, Sound(s), NEW q \in Slot, NEW i \in Inodes, Table(s)[q] = i,
           Type(s)[i] # "dir"
    PROVE  s.node[i].links # 0
  <1>1. Table(s) \in Tables /\ i # 0
    BY SoundIs, Constants
  <1>2. Links(s)[i] = Count(Table(s), i)
    <2>1. Leads(Type(s), Table(s)) /\ Linked(Type(s), Links(s), Table(s))
      BY DEF Sound, TreeOf, Tree
    <2>2. Type(s)[i] # "none"
      BY <1>1, <2>1 DEF Leads
    <2> QED
      BY <2>1, <2>2 DEF Linked
  <1>3. Count(Table(s), i) # 0
    BY <1>1, CountIs
  <1>4. Links(s)[i] = s.node[i].links
    BY ViewAt
  <1> QED
    BY <1>2, <1>3, <1>4

\* What makes room for the new name of a rename.
LEMMA ReplaceTally ==
    ASSUME NamesFitLinks, NEW s, Sound(s), Tallied(s), NEW i, NEW e \in Inodes, NEW newname \in Names
    PROVE  Tallied(Replace(s, i, e, newname))
  <1> DEFINE q == <<e, newname>>
             j == Table(s)[q]
             r == Replace(s, i, e, newname)
  <1>1. CASE ~Found(s, e, newname)
    BY <1>1 DEF Replace
  <1>2. CASE Found(s, e, newname)
    <2>1. j \in Inodes /\ Target(s, e, newname) = j /\ q \in Slot
      BY <1>2, NamedSound, NamedIs, SlotIs
    <2>2. r = Failed(s) \/ (IsDir(s, j) /\ r = DirRemove(s, e, newname))
          \/ (~IsDir(s, j) /\ r = Unlink(s, e, newname))
      BY <1>2, <2>1 DEF Replace
    <2> HIDE DEF r
    <2>3. IsDir(s, j) => Tallied(DirRemove(s, e, newname))
      BY <2>1, DirRemoveTally
    <2>4. ASSUME ~IsDir(s, j) PROVE Tallied(Unlink(s, e, newname))
      <3>1. Type(s)[j] # "dir"
        BY <2>1, <2>4, ViewAt DEF IsDir
      <3>2. s.node[j].links # 0
        BY <2>1, <3>1, NamedCounts
      <3> QED
        BY <2>1, <3>2, UnlinkTally
    <2>5. Tallied(r)
      BY <2>2, <2>3, <2>4, TallyOk
    <2> QED
      BY <2>5 DEF r
  <1> QED
    BY <1>1, <1>2

\* adjust_dir_links.
LEMMA AdjustLinksTally ==
    ASSUME NEW s, Tallied(s), NEW d \in Inodes, NEW n \in Int
    PROVE  Tallied(AdjustLinks(s, d, n))
  <1> DEFINE m == s.node[d].links + n
             k == Max({m, 0})
             r == AdjustLinks(s, d, n)
  <1>1. m \in Int
    BY RecordIs DEF Tallied, Stocked
  <1>2. Recount(s, r, d, k)
    BY DEF AdjustLinks, Recount
  <1> HIDE DEF m
  <1>3. k \in Nat
    <2>1. CASE m \in Nat
      <3>1. m \in {m, 0} /\ \A y \in {m, 0} : m >= y
        BY <2>1
      <3>2. \A y \in {m, 0} : y >= m => y = m
        BY <2>1
      <3> QED
        BY <2>1, <3>1, <3>2 DEF Max
    <2>2. CASE m \notin Nat
      <3>1. 0 \in {m, 0} /\ \A y \in {m, 0} : 0 >= y /\ (y >= 0 => y = 0)
        BY <1>1, <2>2
      <3> QED
        BY <3>1 DEF Max
    <2> QED
      BY <2>1, <2>2
  <1> HIDE DEF k, r
  <1>4. Tallied(r)
    BY <1>2, <1>3, RecountTally
  <1> QED
    BY <1>4 DEF r

\* The credit of moving directories.
LEMMA CreditMovesTally ==
    ASSUME NEW s, Tallied(s), NEW d \in Inodes, NEW e \in Inodes, NEW n \in Int
    PROVE  Tallied(CreditMoves(s, d, e, n))
  <1>1. -n \in Int
    OBVIOUS
  <1> DEFINE a == AdjustLinks(s, d, -n)
  <1>2. Tallied(a)
    BY <1>1, AdjustLinksTally
  <1>3. CreditMoves(s, d, e, n) = IF s.ok THEN AdjustLinks(a, e, n) ELSE s
    BY DEF CreditMoves
  <1> HIDE DEF a
  <1> QED
    BY <1>2, <1>3, AdjustLinksTally

\* A count that wraps is a count.
LEMMA OneMoreIs ==
    ASSUME NEW n \in Nat
    PROVE  OneMore(n) \in Nat
  BY Constants, Division DEF OneMore

\* link_impl: a new directory takes a block, and the directory what its entry costs.
LEMMA LinkTally ==
    ASSUME NEW s, Tallied(s), NEW d \in Inodes, s.node[d].type # "none", NEW name,
           NEW i \in Inodes, s.node[i].type # "none", i # d, NEW cost \in Nat,
           NEW r, r = Link(s, d, name, i, cost), r.ok
    PROVE  /\ Tallied(r) /\ r.node[i].type = s.node[i].type
           /\ ~IsDir(s, i) => r.node[i].blocks = s.node[i].blocks
  <1> DEFINE a == AddEntry(s, d, name, i, cost)
             b == AddEntry(a, i, Dot, i, 1)
             e == AddEntry(b, i, DotDot, d, 0)
  <1>1. LinkSteps(s, d, i, a, r)
    BY LinkIs
  <1>2. /\ IsDir(s, i) => DirCounts(e, r, i, d)
        /\ ~IsDir(s, i) => Recount(a, r, i, OneMore(a.node[i].links))
    BY <1>1 DEF LinkSteps
  <1>3. Tallied(a) /\ OnlyNode(s, a, d)
    BY AddEntryTally
  <1> HIDE DEF a
  <1>4. CASE ~IsDir(s, i)
    <2>1. OneMore(a.node[i].links) \in Nat
      BY <1>3, OneMoreIs, RecordIs DEF Tallied, Stocked
    <2>2. Tallied(r) /\ OnlyNode(a, r, i) /\ r.node[i].blocks = a.node[i].blocks
      BY <1>2, <1>3, <1>4, <2>1, RecountTally
    <2> QED
      BY <1>3, <2>2 DEF OnlyNode
  <1>5. CASE IsDir(s, i)
    <2>1. a.node[i].type # "none"
      BY <1>3 DEF OnlyNode
    <2>2. Tallied(b) /\ OnlyNode(a, b, i)
      BY <1>3, <2>1, AddEntryTally
    <2> HIDE DEF b
    <2>3. b.node[i].type # "none"
      BY <2>1, <2>2 DEF OnlyNode
    <2>4. Tallied(e) /\ OnlyNode(b, e, i)
      BY <2>2, <2>3, AddEntryTally
    <2> HIDE DEF e
    <2> DEFINE h == [e EXCEPT !.node[i].links = 2]
               k == OneMore(h.node[d].links)
    <2>5. Tallied(h) /\ OnlyNode(e, h, i)
      <3>1. Recount(e, h, i, 2)
        BY DEF Recount
      <3> HIDE DEF h
      <3> QED
        BY <2>4, <3>1, RecountTally
    <2>6. Recount(h, r, d, k)
      <3>1. e = [node |-> e.node, ent |-> e.ent, room |-> e.room, ok |-> e.ok]
            /\ e.node \in [Inodes -> Record]
        BY <2>4 DEF Tallied, Stocked
      <3>2. h.node[d] = e.node[d]
        BY <3>1
      <3>3. r = [h EXCEPT !.node[d].links = OneMore(h.node[d].links)]
        BY <1>2, <1>5, <3>1, <3>2 DEF DirCounts
      <3> QED
        BY <3>3 DEF Recount
    <2> HIDE DEF h
    <2>7. k \in Nat
      BY <2>5, OneMoreIs, RecordIs DEF Tallied, Stocked
    <2> HIDE DEF k
    <2>8. Tallied(r) /\ OnlyNode(h, r, d)
      BY <2>5, <2>6, <2>7, RecountTally
    <2> QED
      BY <1>3, <1>5, <2>2, <2>4, <2>5, <2>8 DEF OnlyNode
  <1> QED
    BY <1>4, <1>5

\* fuse_create, fuse_mknod, fuse_mkdir, fuse_symlink.
LEMMA CreateNamedTally ==
    ASSUME NEW s, Sound(s), Tallied(s), NEW d \in Inodes, NEW name, NEW type \in Types,
           Type(s)[d] = "dir", NEW cost \in Nat,
           NEW c, c = Create(s, type), c.ok, NEW i, i = Min(FreeInodes(s)),
           NEW r, r = Fill(Link(c, d, name, i, cost), i, type), r.ok
    PROVE  Tallied(r)
  <1> DEFINE n == Node(type, 0, 0)
             h == Link(c, d, name, i, cost)
  <1>0. /\ Good(s) /\ s = [node |-> s.node, ent |-> s.ent, room |-> s.room, ok |-> s.ok]
        /\ s.node \in [Inodes -> Record] /\ s.room \in Nat
    BY SoundIs DEF Tallied, Stocked
  <1>1. i \in Inodes /\ Type(s)[i] = "none" /\ s.node[i].type = "none" /\ s.node[i].blocks = 0
    <2>1. i \in Inodes /\ Type(s)[i] = "none"
      BY <1>0, SoundIs, CreateDoes
    <2> QED
      BY <2>1, ViewAt DEF Tallied, Stocked
  <1>2. n \in Record /\ n.type = type /\ n.blocks = 0
    <2>1. FALSE \in Flag
      BY DEF Flag
    <2> QED
      BY <2>1 DEF Record, Node, AnyType
  <1>3. Holding(c, [s.node EXCEPT ![i] = n], s.room) /\ Paid(s, i, n.blocks, s.room)
    <2>1. ~Failed(s).ok
      BY <1>0 DEF Failed
    <2>2. c = [s EXCEPT !.node[i] = n]
      BY <2>1 DEF Create
    <2> HIDE DEF n
    <2> QED
      BY <1>0, <1>1, <1>2, <2>2 DEF Holding, Paid
  <1> HIDE DEF n
  <1>4. Tallied(c) /\ c.node[i] = n /\ \A x \in Inodes \ {i} : c.node[x] = s.node[x]
    BY <1>0, <1>1, <1>2, <1>3, TallyNode
  <1>5. s.node[d].type = "dir" /\ d # i
    BY <1>1, ViewAt
  <1>6. /\ c.node[d].type # "none" /\ c.node[i].type = type /\ c.node[i].blocks = 0
        /\ type # "none"
    BY <1>2, <1>4, <1>5, Constants
  <1>7. h.ok
    BY DEF Fill
  <1>8. /\ Tallied(h) /\ h.node[i].type = type
        /\ type = "slowlink" => h.node[i].blocks = 0
    <2>1. h = Link(c, d, name, i, cost) /\ (type = "slowlink" => ~IsDir(c, i))
      BY <1>6 DEF IsDir
    <2> HIDE DEF h
    <2> QED
      BY <1>1, <1>4, <1>5, <1>6, <1>7, <2>1, LinkTally
  <1>9. r = Fill(h, i, type)
    OBVIOUS
  <1> HIDE DEF h
  <1>10. CASE type = "slowlink"
    <2>1. h = [node |-> h.node, ent |-> h.ent, room |-> h.room, ok |-> h.ok] /\ h.room \in Nat
      BY <1>8 DEF Tallied, Stocked
    <2>2. ~Failed(h).ok
      BY <2>1 DEF Failed
    <2> DEFINE room == h.room - 1
    <2>3. h.room # 0 /\ Reblocks(h, r, i, 1, room)
      BY <1>7, <1>9, <1>10, <2>1, <2>2 DEF Fill, Reblocks
    <2>4. room \in Nat /\ Paid(h, i, 1, room) /\ 1 \in Nat
      BY <1>8, <1>10, <2>1, <2>3 DEF Paid
    <2> HIDE DEF room
    <2> QED
      BY <1>1, <1>6, <1>8, <2>3, <2>4, ReblockTally
  <1>11. CASE type # "slowlink"
    BY <1>8, <1>9, <1>11 DEF Fill
  <1> QED
    BY <1>10, <1>11

\* fuse_rename_impl without an exchange.
LEMMA RenameTally ==
    ASSUME NamesFitLinks, NEW s, Sound(s), Tallied(s), NEW d \in Inodes, NEW e \in Inodes,
           NEW name \in Names, NEW newname \in Names, name \in Named(s, d), Type(s)[e] = "dir",
           NEW noreplace, NEW cost \in Nat,
           NEW r, r = Rename(s, d, name, e, newname, noreplace, cost), r.ok
    PROVE  Tallied(r)
  <1> DEFINE p == <<d, name>>
             i == Table(s)[p]
             g == Replace(s, i, e, newname)
             a == AddEntry(g, e, newname, i, cost)
             k == RemoveEntry(a, d, name)
             w == Repointed(k, i, e)
             n == AsSubDir(s, i)
  <1>0. /\ s \in Image /\ p \in Slot /\ i # 0 /\ Target(s, d, name) = i
    BY SoundIs, SlotIs, NamedIs, NamedSound, Constants
  <1>1. RenameSteps(s, d, name, e, newname, cost, r)
    BY <1>0, RenameIs
  <1>2. CASE r # s
    <2>1. /\ Found(s, e, newname) => Target(s, e, newname) # i
          /\ g.ok /\ (r = k \/ r = CreditMoves(w, d, e, n))
      BY <1>0, <1>1, <1>2 DEF RenameSteps
    <2>2. Type(g)[e] = "dir"
      <3>1. g = Replace(s, Table(s)[p], e, newname)
        OBVIOUS
      <3>2. Found(s, e, newname) => Target(s, e, newname) # Table(s)[p]
        BY <2>1
      <3>3. g.ok /\ p \in Slot /\ Table(s)[p] # 0
        BY <1>0, <2>1
      <3> HIDE DEF g, p
      <3> QED
        BY <3>1, <3>2, <3>3, ReplaceDoes
    <2>3. Tallied(g)
      BY ReplaceTally
    <2> HIDE DEF g
    <2>4. Tallied(a)
      <3>1. g.node[e].type # "none"
        BY <2>2, ViewAt
      <3> QED
        BY <2>3, <3>1, AddEntryTally
    <2> HIDE DEF a
    <2>5. Tallied(k)
      BY <2>4, EntriesTally
    <2> HIDE DEF k
    <2>6. Tallied(w)
      BY <2>5, EntriesTally
    <2> HIDE DEF w
    <2>7. n \in Int
      BY DEF AsSubDir
    <2> HIDE DEF n
    <2> QED
      BY <2>1, <2>5, <2>6, <2>7, CreditMovesTally
  <1> QED
    BY <1>2

\* rename_exchange.
LEMMA ExchangeTally ==
    ASSUME NEW s, Tallied(s), NEW d \in Inodes, NEW e \in Inodes, NEW name, NEW newname
    PROVE  Tallied(Exchange(s, d, name, e, newname))
  <1> DEFINE i == Target(s, d, name)
             j == Target(s, e, newname)
             b == Swapped(s, d, name, i, e, newname, j)
             w == Repointed(Repointed(b, i, e), j, d)
             n == AsSubDir(b, i) - AsSubDir(b, j)
             r == Exchange(s, d, name, e, newname)
  <1>1. r = Failed(s) \/ r = s \/ r = b \/ r = CreditMoves(w, d, e, n)
    BY DEF Exchange, Between
  <1>2. Tallied(b)
    <2> HIDE DEF i, j
    <2> QED
      BY EntriesTally DEF Swapped
  <1>3. n \in Int
    BY DEF AsSubDir
  <1> HIDE DEF b, n
  <1>4. Tallied(w)
    <2> HIDE DEF i, j
    <2> QED
      BY <1>2, EntriesTally
  <1> HIDE DEF w, r
  <1>5. Tallied(r)
    BY <1>1, <1>2, <1>3, <1>4, TallyOk, CreditMovesTally
  <1> QED
    BY <1>5 DEF r

\* What file_remove is about to unlink holds no blocks.
Emptied ==
    removing # NoCall => fs.node[Target(fs, removing[1], removing[2])].blocks = 0

\* What BlocksConserved needs besides.
BIInv == IInv /\ Tallied(fs) /\ Emptied

\* Every call, crash and return accounts for every block.
LEMMA StepTallies ==
    ASSUME NamesFitLinks, BIInv, Next
    PROVE  Tallied(fs') /\ Emptied'
  <1>0. Sound(fs) /\ fs \in Image /\ Good(fs) /\ Tallied(fs)
    BY SoundIs DEF BIInv, IInv
  <1>1. ASSUME NEW r, r.ok => Tallied(r), Returns(r), Idle
        PROVE  Tallied(fs') /\ Emptied'
    <2>1. removing' = NoCall
      BY <1>1 DEF Returns, Idle
    <2>2. (r.ok /\ fs' = [r EXCEPT !.ok = TRUE]) \/ fs' = fs
      BY <1>1 DEF Returns, NamesFitLinks
    <2>3. r.ok => Tallied([r EXCEPT !.ok = TRUE])
      BY <1>1, TallyOk
    <2> QED
      BY <1>0, <2>1, <2>2, <2>3 DEF Emptied
  <1>2. ASSUME NEW d \in Dirs(fs), NEW name \in Names, NEW type \in Types, NEW cost \in Costs(fs, d),
               CreateNamed(d, name, type, cost)
        PROVE  Tallied(fs') /\ Emptied'
    <2> DEFINE c == Create(fs, type)
               i == Min(FreeInodes(fs))
               r == Fill(Link(c, d, name, i, cost), i, type)
               x == IF c.ok THEN r ELSE c
    <2>1. Idle /\ Returns(x)
      BY <1>2 DEF CreateNamed
    <2>2. d \in Inodes /\ Type(fs)[d] = "dir" /\ cost \in Nat
      BY <1>0, DirIs, CostsAre
    <2>3. c.ok /\ r.ok => Tallied(r)
      BY <1>0, <2>2, CreateNamedTally
    <2> HIDE DEF c, r
    <2>4. x.ok => Tallied(x)
      BY <2>3
    <2> HIDE DEF x
    <2> QED
      BY <1>1, <2>1, <2>4
  <1>3. ASSUME NEW i \in InUse(fs), NEW d \in Dirs(fs), NEW name \in Names, NEW cost \in Costs(fs, d),
               FuseLink(i, d, name, cost)
        PROVE  Tallied(fs') /\ Emptied'
    <2> DEFINE r == Link(fs, d, name, i, cost)
    <2>1. Idle /\ ~IsDir(fs, i) /\ Returns(r)
      BY <1>3 DEF FuseLink
    <2>2. /\ d \in Inodes /\ i \in Inodes /\ i # d /\ cost \in Nat
          /\ fs.node[d].type # "none" /\ fs.node[i].type # "none"
      BY <2>1, CostsAre DEF Dirs, InUse, IsDir
    <2>3. r.ok => Tallied(r)
      BY <1>0, <2>2, LinkTally
    <2> HIDE DEF r
    <2> QED
      BY <1>1, <2>1, <2>3
  <1>4. ASSUME NEW d \in Dirs(fs), NEW name \in Named(fs, d), FuseUnlink(d, name)
        PROVE  Tallied(fs') /\ Emptied'
    <2> DEFINE r == Unlink(fs, d, name)
               i == Table(fs)[<<d, name>>]
    <2>1. Idle /\ ~IsDir(fs, Target(fs, d, name)) /\ Returns(r)
      BY <1>4 DEF FuseUnlink
    <2>2. d \in Inodes /\ name \in Names /\ i \in Inodes /\ Type(fs)[i] # "dir" /\ Target(fs, d, name) = i
      BY <1>0, <2>1, DirIs
    <2>3. fs.node[i].links # 0
      BY <1>0, <2>2, SlotIs, NamedCounts
    <2>4. Tallied(r)
      BY <1>0, <2>2, <2>3, UnlinkTally
    <2> HIDE DEF r
    <2> QED
      BY <1>1, <2>1, <2>4
  <1>5. ASSUME NEW d \in Dirs(fs), NEW name \in Named(fs, d), FuseRmdir(d, name)
        PROVE  Tallied(fs') /\ Emptied'
    <2> DEFINE r == DirRemove(fs, d, name)
               i == Target(fs, d, name)
    <2>1. Idle /\ IsDir(fs, i) /\ Returns(r)
      BY <1>5 DEF FuseRmdir
    <2>2. d \in Inodes /\ i \in Inodes
      <3>1. d \in Inodes /\ i = Table(fs)[<<d, name>>] /\ Table(fs)[<<d, name>>] \in Inodes
        BY <1>0, DirIs
      <3> QED
        BY <3>1
    <2>3. Tallied(r)
      BY <1>0, <2>1, <2>2, DirRemoveTally
    <2> HIDE DEF r
    <2> QED
      BY <1>1, <2>1, <2>3
  <1>6. ASSUME NEW d \in Dirs(fs), NEW name \in Named(fs, d), FileRemove(d, name)
        PROVE  Tallied(fs') /\ Emptied'
    <2> DEFINE i == Target(fs, d, name)
    <2>1. Truncate(fs, i).ok /\ fs' = Truncate(fs, i) /\ removing' = <<d, name>>
      BY <1>6 DEF FileRemove
    <2>2. d \in Inodes /\ i \in Inodes
      <3>1. d \in Inodes /\ i = Table(fs)[<<d, name>>] /\ Table(fs)[<<d, name>>] \in Inodes
        BY <1>0, DirIs
      <3> QED
        BY <3>1
    <2>3. Tallied(fs') /\ fs'.node[i].blocks = 0
      BY <1>0, <2>1, <2>2, TruncateTally, TruncateOk
    <2>4. fs'.ent = fs.ent
      BY <1>0, <2>1, <2>2, TruncateDoes DEF SameTree
    <2>5. Target(fs', d, name) = i
      BY <2>4 DEF Target
    <2> QED
      BY <2>1, <2>3, <2>5 DEF Emptied
  <1>7. ASSUME NEW d \in Dirs(fs), NEW e \in Dirs(fs), NEW newname \in Names, NEW noreplace \in BOOLEAN,
               NEW name \in Named(fs, d), NEW cost \in Costs(fs, e),
               FuseRename(d, name, e, newname, noreplace, cost)
        PROVE  Tallied(fs') /\ Emptied'
    <2> DEFINE r == Rename(fs, d, name, e, newname, noreplace, cost)
    <2>1. Idle /\ Returns(r)
      BY <1>7 DEF FuseRename
    <2>2. /\ d \in Inodes /\ e \in Inodes /\ Type(fs)[e] = "dir" /\ name \in Names /\ cost \in Nat
      BY <1>0, DirIs, CostsAre
    <2>3. r.ok => Tallied(r)
      BY <1>0, <2>2, RenameTally
    <2> HIDE DEF r
    <2> QED
      BY <1>1, <2>1, <2>3
  <1>8. ASSUME NEW d \in Dirs(fs), NEW e \in Dirs(fs), NEW name \in Named(fs, d),
               NEW newname \in Named(fs, e), FuseExchange(d, name, e, newname)
        PROVE  Tallied(fs') /\ Emptied'
    <2> DEFINE r == Exchange(fs, d, name, e, newname)
    <2>1. Idle /\ Returns(r) /\ d \in Inodes /\ e \in Inodes
      BY <1>8 DEF FuseExchange, Dirs
    <2>2. Tallied(r)
      BY <1>0, <2>1, ExchangeTally
    <2> HIDE DEF r
    <2> QED
      BY <1>1, <2>1, <2>2
  <1>9. ASSUME NEW i \in Inodes, FuseWrite(i)
        PROVE  Tallied(fs') /\ Emptied'
    <2> DEFINE b == fs.node[i].blocks + 1
               room == fs.room - 1
               r == [fs EXCEPT !.node[i].blocks = b, !.room = room]
    <2>1. Idle /\ Returns(r) /\ fs.room > 0 /\ fs.node[i].type = "file"
      BY <1>9 DEF FuseWrite
    <2>2. fs.node[i].blocks \in Nat /\ fs.room \in Nat
      BY <1>0, NodeIs, ImageIs
    <2>3. b \in Nat /\ room \in Nat /\ Paid(fs, i, b, room)
      BY <2>1, <2>2 DEF Paid
    <2> HIDE DEF b, room
    <2>4. Reblocks(fs, r, i, b, room)
      BY DEF Reblocks
    <2> HIDE DEF r
    <2>5. Tallied(r)
      BY <1>0, <2>1, <2>3, <2>4, ReblockTally
    <2> QED
      BY <1>1, <2>1, <2>5
  <1>10. ASSUME FileRemoveEnds
         PROVE  Tallied(fs') /\ Emptied'
    <2> DEFINE i == Target(fs, removing[1], removing[2])
    <2>1. removing # NoCall /\ removing' = NoCall /\ fs' = DropName(fs, removing[1], removing[2], i)
      BY <1>10 DEF FileRemoveEnds, Idle
    <2>2. i \in Inodes
      <3>1. PICK d \in Inodes, name \in Names :
                removing = <<d, name>> /\ Table(fs)[<<d, name>>] \in Inodes
        BY <2>1 DEF BIInv, IInv, Pending
      <3>2. Target(fs, d, name) = Table(fs)[<<d, name>>]
        BY <1>0, <3>1, NamedSound, NamedIs, Constants
      <3> QED
        BY <3>1, <3>2
    <2>3. fs.node[i].blocks = 0
      BY <2>1 DEF BIInv, Emptied
    <2> HIDE DEF i
    <2> QED
      BY <1>0, <2>1, <2>2, <2>3, DropNameTally DEF Emptied
  <1>11. ASSUME Crash
         PROVE  Tallied(fs') /\ Emptied'
    BY <1>0, <1>11 DEF Crash, Emptied
  <1> QED
    BY <1>2, <1>3, <1>4, <1>5, <1>6, <1>7, <1>8, <1>9, <1>10, <1>11 DEF Next

\* An empty file system holds the block of its root.
LEMMA InitTallies ==
    ASSUME Init
    PROVE  Tallied(fs) /\ Emptied
  <1> DEFINE dir == Node("dir", 2, 1)
             b == [i \in Inodes |-> 0]
             g == [A \in SUBSET Inodes |-> 0]
  <1>1. /\ fs = [node |-> [i \in Inodes |-> IF i = Root THEN dir ELSE NoNode], ent |-> fs.ent,
                 room |-> Space - 1, ok |-> TRUE]
        /\ removing = NoCall
    BY DEF Init
  <1>2. /\ dir \in Record /\ dir.type = "dir" /\ dir.blocks = 1
        /\ NoNode \in Record /\ NoNode.type = "none" /\ NoNode.blocks = 0
    <2>1. FALSE \in Flag
      BY DEF Flag
    <2>2. "dir" \in AnyType /\ "none" \in AnyType
      BY DEF AnyType, Types
    <2> QED
      BY <2>1, <2>2 DEF Record, Node, NoNode
  <1> HIDE DEF dir
  <1>3. Root \in Inodes /\ Space \in Nat /\ Space - 1 \in Nat
    BY NamespaceConstants
  <1>4. /\ fs.node = [i \in Inodes |-> IF i = Root THEN dir ELSE NoNode] /\ fs.room = Space - 1
        /\ fs = [node |-> fs.node, ent |-> fs.ent, room |-> fs.room, ok |-> fs.ok]
    BY <1>1
  <1>5. Stocked(fs)
    BY <1>2, <1>3, <1>4 DEF Stocked
  <1>6. Blocks(fs) = [b EXCEPT ![Root] = 1]
    BY <1>2, <1>3, <1>4 DEF Blocks
  <1>7. Adds(g, b, Inodes)
    BY DEF Adds
  <1>8. g[Inodes] = 0 /\ b[Root] = 0
    BY <1>3
  <1> HIDE DEF g, b
  <1> DEFINE k == 1
  <1>9. PICK h : Adds(h, [b EXCEPT ![Root] = k], Inodes) /\ h[Inodes] + b[Root] = g[Inodes] + k
    <2>1. k \in Nat
      OBVIOUS
    <2> HIDE DEF k
    <2> QED
      BY <1>3, <1>7, <2>1, AddsOneOther
  <1>10. h[Inodes] \in Nat
    BY <1>9 DEF Adds
  <1>11. fs.room + h[Inodes] = Space
    BY <1>3, <1>4, <1>8, <1>9, <1>10
  <1> QED
    BY <1>1, <1>5, <1>6, <1>9, <1>11 DEF Tallied, Emptied

\* A tally is what BlocksConserved says.
LEMMA TallyMeans ==
    ASSUME IsFiniteSet(Inodes), Tallied(fs)
    PROVE  BlocksConserved
  <1> DEFINE S == InUse(fs)
             iter[A \in SUBSET S] ==
                 IF A = {} THEN 0
                 ELSE iter[A \ {CHOOSE x \in A : TRUE}] + fs.node[CHOOSE x \in A : TRUE].blocks
  <1>1. PICK g : Adds(g, Blocks(fs), Inodes) /\ fs.room + g[Inodes] = Space
    BY DEF Tallied
  <1>2. FoldSet(LAMBDA i, sum : sum + fs.node[i].blocks, 0, S) = iter[S]
    BY DEF FoldSet, MapThenFoldSet
  <1>3. S \in SUBSET Inodes /\ \A x \in Inodes \ S : Blocks(fs)[x] = 0
    BY DEF InUse, Blocks, Tallied, Stocked
  <1>4. g[Inodes] = g[S]
    <2> HIDE DEF S
    <2> QED
      BY <1>1, <1>3, AddsLess
  <1>5. iter[S] = FoldedBlocks(S, fs.node)
    BY DEF FoldedBlocks
  <1>6. IsFiniteSet(S)
    BY <1>3, FS_Subset
  <1> DEFINE c == [x \in S |-> Blocks(fs)[x]]
             f == [A \in SUBSET S |-> g[A]]
  <1>7. Adds(f, c, S)
    <2> HIDE DEF S
    <2>1. c \in [S -> Nat] /\ f \in [SUBSET S -> Nat]
      BY <1>1, <1>3 DEF Adds
    <2>2. f[{}] = 0
      BY <1>1 DEF Adds
    <2>3. ASSUME NEW A \in SUBSET S, NEW x \in A PROVE f[A] = f[A \ {x}] + c[x]
      BY <1>1, <1>3, <2>3 DEF Adds
    <2> QED
      BY <2>1, <2>2, <2>3 DEF Adds
  <1>8. \A x \in S : c[x] = fs.node[x].blocks
    BY <1>3 DEF Blocks
  <1>9. f[S] = g[S]
    OBVIOUS
  <1> HIDE DEF c, f, iter, S
  <1>10. iter[S] = f[S]
    BY <1>5, <1>6, <1>7, <1>8, FoldedBlocksAre
  <1> QED
    BY <1>1, <1>2, <1>4, <1>9, <1>10 DEF BlocksConserved, S

-----------------------------------------------------------------------------
(* The theorems. *)

\* The inductive invariant: what the image is, and what file_remove relies on
\* between its transactions (file.rs:681).
THEOREM IInvHolds ==
    ASSUME NamesFitLinks
    PROVE  Spec => []IInv
  <1>1. Init => IInv
    BY InitDoes
  <1>2. IInv /\ [Next]_vars => IInv'
    <2> SUFFICES ASSUME IInv, [Next]_vars PROVE IInv'
      OBVIOUS
    <2>1. CASE Next
      BY <2>1, StepDoes DEF IInv
    <2>2. CASE UNCHANGED vars
      BY <2>2 DEF vars, IInv, Pending
    <2> QED
      BY <2>1, <2>2
  <1> QED
    BY <1>1, <1>2, PTL DEF Spec

\* However the calls of file.rs, ext4.rs, dir.rs and fuse_interface/mod.rs are
\* made, fail and are cut short, every entry names an inode in use and holds its
\* type, and ".." of a directory leads to where its one name is.
THEOREM InvHolds ==
    ASSUME NamesFitLinks
    PROVE  Spec => []Inv
  <1>1. IInv => Inv
    BY SoundMeans DEF IInv
  <1> QED
    BY <1>1, IInvHolds, PTL

\* The link counts are those of the tree (file.rs:55, ext4.rs:301,
\* fuse_interface/mod.rs:771).
THEOREM LinksHold ==
    ASSUME NamesFitLinks
    PROVE  Spec => []LinksExact
  <1>1. IInv => LinksExact
    BY SoundMeans DEF IInv
  <1> QED
    BY <1>1, IInvHolds, PTL

\* What Rooted needs besides.
TIInv == IInv /\ Whole(fs)

\* Without directory indices every inode in use is below the root: no rename or
\* exchange that dir_is_ancestor lets pass (fuse_interface/mod.rs:708) detaches
\* a subtree into a loop, and no other call loses the last name of a file.
THEOREM RootedHolds ==
    ASSUME NamesFitLinks, ~DirIndex
    PROVE  Spec => []Rooted
  <1>1. Init => TIInv
    BY InitDoes, InitWhole DEF TIInv
  <1>2. TIInv /\ [Next]_vars => TIInv'
    <2> SUFFICES ASSUME TIInv, [Next]_vars PROVE TIInv'
      OBVIOUS
    <2>1. CASE Next
      BY <2>1, StepDoes DEF TIInv, IInv, Keeps
    <2>2. CASE UNCHANGED vars
      BY <2>2 DEF vars, TIInv, IInv, Pending
    <2> QED
      BY <2>1, <2>2
  <1>3. TIInv => Rooted
    BY RootedMeans DEF TIInv, IInv, Whole
  <1> QED
    BY <1>1, <1>2, <1>3, PTL DEF Spec

\* Every block is free or belongs to an inode in use: removals, renames that
\* replace and a crash between the two transactions of file_remove lose none
\* (file.rs:733, fuse_interface/mod.rs:297).
THEOREM BlocksHold ==
    ASSUME NamesFitLinks
    PROVE  Spec => []BlocksConserved
  <1>1. Init => BIInv
    BY InitDoes, InitTallies DEF BIInv
  <1>2. BIInv /\ [Next]_vars => BIInv'
    <2> SUFFICES ASSUME BIInv, [Next]_vars PROVE BIInv'
      OBVIOUS
    <2>1. CASE Next
      BY <2>1, StepDoes, StepTallies DEF BIInv, IInv
    <2>2. CASE UNCHANGED vars
      BY <2>2 DEF vars, BIInv, IInv, Pending, Emptied
    <2> QED
      BY <2>1, <2>2
  <1>3. BIInv => BlocksConserved
    BY TallyMeans DEF BIInv, NamesFitLinks
  <1> QED
    BY <1>1, <1>2, <1>3, PTL DEF Spec

\* No call frees an inode that another name leads to, or a directory with
\* entries (ext4.rs:304, dir.rs:580).
THEOREM FreedHolds ==
    ASSUME NamesFitLinks
    PROVE  Spec => FreedByLastName
  <1> DEFINE Freed == \A i \in InUse(fs) \ {j \in Inodes : fs'.node[j].type # "none"} :
                          Cardinality(Places(i)) = 1 /\ Named(fs, i) = {}
  <1>1. IInv /\ [Next]_vars => [Freed]_vars
    <2> SUFFICES ASSUME IInv, Next PROVE Freed
      OBVIOUS
    <2>1. Frees(fs, fs') /\ Sound(fs)
      BY StepDoes DEF IInv, Keeps
    <2> SUFFICES ASSUME NEW i \in InUse(fs), i \notin {j \in Inodes : fs'.node[j].type # "none"}
                 PROVE  Cardinality(Places(i)) = 1 /\ Named(fs, i) = {}
      OBVIOUS
    <2>2. i \in Inodes /\ fs.node[i].type # "none" /\ fs'.node[i].type = "none"
      BY DEF InUse
    <2>3. Type(fs)[i] # "none" /\ Type(fs')[i] = "none"
      BY <2>2, ViewAt
    <2>4. Count(Table(fs), i) = 1 /\ \A n \in Names : Table(fs)[<<i, n>>] = 0
      BY <2>1, <2>2, <2>3 DEF Frees
    <2> QED
      BY <2>1, <2>2, <2>4, ViewsAre DEF Count
  <1> QED
    BY <1>1, IInvHolds, PTL DEF Spec, FreedByLastName

=============================================================================
