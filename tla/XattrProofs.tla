--------------------------- MODULE XattrProofs ---------------------------
(***************************************************************************)
(* Proofs about Xattr, in five parts:                                      *)
(*  - lists: the loop of acl_permission, turned into the entry that        *)
(*    decides, grants what the rule of POSIX.1e grants, and a list clamped *)
(*    with its mode grants nothing the mode does not (Acl);                *)
(*  - sums: the units of a set of EA inodes depend on their records alone; *)
(*  - large values: a list cut and cut again is the list cut once, and the *)
(*    values that move to EA inodes read whole but for at most one, whose  *)
(*    write takes the last free block (CreateEasDoes);                     *)
(*  - steps: xattr_store and create_inode swap what one file refers to     *)
(*    for something nothing else refers to (Swap), so that a sound image   *)
(*    stays sound and the other files keep what they have;                 *)
(*  - the invariant IInv: what is read of a file is what it should have, up*)
(*    to a cut (ReadsAs), in a sound image; and the theorems.              *)
(***************************************************************************)
EXTENDS Xattr, FiniteSetTheorems, WellFoundedInduction, TLAPS

-----------------------------------------------------------------------------
(* Numbers. *)

\* A set of numbers has a least one.
LEMMA LeastExists ==
    ASSUME NEW S \in SUBSET Nat, S # {}
    PROVE  \E x \in S : \A y \in S : x <= y
  <1> DEFINE R == OpToRel(<, Nat)
  <1>1. \E x \in S : \A y \in S : ~(<<y, x>> \in R)
    <2>1. IsWellFoundedOn(R, Nat)
      BY NatLessThanWellFounded
    <2> HIDE DEF R
    <2> QED
      BY <2>1, WFMin
  <1>2. PICK x \in S : \A y \in S : ~(<<y, x>> \in R)
    BY <1>1
  <1>3. \A y \in S : x <= y
    <2> SUFFICES ASSUME NEW y \in S PROVE ~(y < x)
      OBVIOUS
    <2> SUFFICES ASSUME y < x PROVE FALSE
      OBVIOUS
    <2>1. y \in Nat /\ x \in Nat
      BY <1>2
    <2>2. <<y, x>> \in R
      BY <2>1 DEF OpToRel
    <2> QED
      BY <1>2, <2>2
  <1> QED
    BY <1>2, <1>3

\* A charge that is not negative stays what it is.
LEMMA MaxOfTwo ==
    ASSUME NEW n \in Nat
    PROVE  Max({n, 0}) = n
  <1>1. n \in {n, 0} /\ \A y \in {n, 0} : n >= y
    OBVIOUS
  <1>2. \A x \in {n, 0} : (\A y \in {n, 0} : x >= y) => x = n
    OBVIOUS
  <1>3. Max({n, 0}) \in {n, 0} /\ \A y \in {n, 0} : Max({n, 0}) >= y
    BY <1>1 DEF Max
  <1> QED
    BY <1>2, <1>3

\* The least free block is free.
LEMMA MinIsOne ==
    ASSUME NEW S \in SUBSET Nat, S # {}
    PROVE  Min(S) \in S
  BY LeastExists DEF Min

\* A set that has 0 and goes on up to n has all of them.
LEMMA UpTo ==
    ASSUME NEW n \in Nat, NEW S, 0 \in S, \A k \in 1 .. n : k - 1 \in S => k \in S
    PROVE  0 .. n \subseteq S
  <1> DEFINE bad == {k \in 0 .. n : k \notin S}
  <1> SUFFICES ASSUME bad # {} PROVE FALSE
    OBVIOUS
  <1>1. bad \in SUBSET Nat
    OBVIOUS
  <1> HIDE DEF bad
  <1>2. PICK k \in bad : \A y \in bad : k <= y
    BY <1>1, LeastExists
  <1>3. k \in 0 .. n /\ k \notin S /\ k # 0
    BY <1>2 DEF bad
  <1>4. k - 1 \in 0 .. n /\ ~(k <= k - 1)
    BY <1>3
  <1>5. k - 1 \in S
    BY <1>2, <1>4 DEF bad
  <1> QED
    BY <1>3, <1>5

-----------------------------------------------------------------------------
(* What acl_permission grants. *)

\* The entry whose turn it is ends the walk, and what it then answers; mine says
\* that it is an entry of a group of the caller.
IsMine(e, group, gid) == \/ e.tag = "group_obj" /\ gid = group
                         \/ e.tag = "group" /\ e.id = gid

IsOwn(e, owner, uid) == e.tag = "user_obj" /\ uid = owner

IsNamed(e, uid) == e.tag = "user" /\ e.id = uid

Turn(acl, owner, group, uid, gid, want, i, found, rest, restFound) ==
    IF IsOwn(acl[i], owner, uid) THEN want \subseteq acl[i].perm
    ELSE IF IsNamed(acl[i], uid) THEN want \subseteq Effective(acl, i)
    ELSE IF IsMine(acl[i], group, gid) THEN want \subseteq Effective(acl, i) \/ restFound
    ELSE IF acl[i].tag = "other" THEN ~found /\ want \subseteq acl[i].perm
    ELSE rest

\* The walk of Granted is a function that takes its turns.
Walks(acl, owner, group, uid, gid, want, h) ==
    \A found \in BOOLEAN :
        /\ ~h[Len(acl) + 1][found]
        /\ \A i \in 1 .. Len(acl) :
              h[i][found] = Turn(acl, owner, group, uid, gid, want, i, found,
                                 h[i + 1][found], h[i + 1][TRUE])

\* Whether the walk ends at entry i, and what the answer is there.
Ends(acl, owner, group, uid, gid, want, i) ==
    \/ IsOwn(acl[i], owner, uid)
    \/ IsNamed(acl[i], uid)
    \/ IsMine(acl[i], group, gid) /\ want \subseteq Effective(acl, i)
    \/ acl[i].tag = "other"

Answer(acl, owner, group, uid, gid, want, i, found) ==
    IF IsOwn(acl[i], owner, uid) THEN want \subseteq acl[i].perm
    ELSE IF IsNamed(acl[i], uid) THEN want \subseteq Effective(acl, i)
    ELSE IF IsMine(acl[i], group, gid) THEN TRUE
    ELSE ~found /\ want \subseteq acl[i].perm

\* The walk from entry i on grants: some entry ends it, none before does, and
\* the answer there is yes.
GrantsFrom(acl, owner, group, uid, gid, want, i, found) ==
    \E d \in i .. Len(acl) :
        /\ Ends(acl, owner, group, uid, gid, want, d)
        /\ \A j \in i .. d - 1 : ~Ends(acl, owner, group, uid, gid, want, j)
        /\ Answer(acl, owner, group, uid, gid, want, d,
                  found \/ \E j \in i .. d - 1 : IsMine(acl[j], group, gid))

\* One turn of that.
LEMMA GrantsFromTurn ==
    ASSUME NEW acl \in Seq(Entry), NEW owner, NEW group, NEW uid, NEW gid, NEW want,
           NEW i \in 1 .. Len(acl), NEW found \in BOOLEAN
    PROVE  GrantsFrom(acl, owner, group, uid, gid, want, i, found)
             <=> Turn(acl, owner, group, uid, gid, want, i, found,
                      GrantsFrom(acl, owner, group, uid, gid, want, i + 1, found),
                      GrantsFrom(acl, owner, group, uid, gid, want, i + 1, TRUE))
  <1> DEFINE E(j) == Ends(acl, owner, group, uid, gid, want, j)
             A(j, f) == Answer(acl, owner, group, uid, gid, want, j, f)
             M(j) == IsMine(acl[j], group, gid)
             G(k, f) == GrantsFrom(acl, owner, group, uid, gid, want, k, f)
  <1>0. Len(acl) \in Nat /\ i \in Nat
    OBVIOUS
  <1>1. CASE E(i)
    <2>1. G(i, found) <=> A(i, found)
      <3>1. ASSUME A(i, found) PROVE G(i, found)
        <4>1. i \in i .. Len(acl) /\ i .. i - 1 = {}
          BY <1>0
        <4>2. (found \/ \E j \in i .. i - 1 : M(j)) = found
          BY <4>1
        <4> HIDE DEF E, A, M
        <4>3. E(i) /\ (\A j \in i .. i - 1 : ~E(j)) /\ A(i, found \/ \E j \in i .. i - 1 : M(j))
          BY <1>1, <3>1, <4>1, <4>2
        <4> QED
          BY <4>1, <4>3 DEF GrantsFrom, E, A, M
      <3>2. ASSUME G(i, found) PROVE A(i, found)
        <4>1. PICK d \in i .. Len(acl) : /\ E(d) /\ \A j \in i .. d - 1 : ~E(j)
                                         /\ A(d, found \/ \E j \in i .. d - 1 : M(j))
          BY <3>2 DEF GrantsFrom
        <4> HIDE DEF E, A, M
        <4>2. d = i
          <5>1. i \notin i .. d - 1
            BY <1>1, <4>1
          <5> QED
            BY <1>0, <5>1
        <4>3. i .. i - 1 = {}
          BY <1>0
        <4>4. (found \/ \E j \in i .. d - 1 : M(j)) = found
          BY <4>2, <4>3
        <4> QED
          BY <4>1, <4>2, <4>4
      <3> QED
        BY <3>1, <3>2
    <2>2. A(i, found) <=> Turn(acl, owner, group, uid, gid, want, i, found, G(i + 1, found), G(i + 1, TRUE))
      <3> HIDE DEF G
      <3> QED
        BY <1>1 DEF Ends, Answer, Turn, IsMine, IsOwn, IsNamed
    <2> QED
      BY <2>1, <2>2
  <1>2. CASE ~E(i)
    <2> DEFINE f == found \/ M(i)
    <2>1. G(i, found) <=> G(i + 1, f)
      <3> HIDE DEF E, A, M
      <3>1. \A d \in i + 1 .. Len(acl) :
              /\ (\A j \in i .. d - 1 : ~E(j)) <=> (\A j \in i + 1 .. d - 1 : ~E(j))
              /\ (found \/ \E j \in i .. d - 1 : M(j)) <=> (f \/ \E j \in i + 1 .. d - 1 : M(j))
        <4> TAKE d \in i + 1 .. Len(acl)
        <4>1. i .. d - 1 = {i} \cup (i + 1 .. d - 1)
          BY <1>0
        <4> QED
          BY <1>2, <4>1
      <3>2. G(i, found) <=> \E d \in i .. Len(acl) : /\ E(d) /\ \A j \in i .. d - 1 : ~E(j)
                                                     /\ A(d, found \/ \E j \in i .. d - 1 : M(j))
        BY DEF GrantsFrom, E, A, M
      <3>3. G(i + 1, f) <=> \E d \in i + 1 .. Len(acl) : /\ E(d) /\ \A j \in i + 1 .. d - 1 : ~E(j)
                                                         /\ A(d, f \/ \E j \in i + 1 .. d - 1 : M(j))
        BY DEF GrantsFrom, E, A, M
      <3>4. ASSUME NEW d \in i + 1 .. Len(acl)
            PROVE  A(d, found \/ \E j \in i .. d - 1 : M(j)) <=> A(d, f \/ \E j \in i + 1 .. d - 1 : M(j))
        BY <3>1 DEF A, Answer
      <3>5. \A d \in i .. Len(acl) : E(d) => d \in i + 1 .. Len(acl)
        BY <1>0, <1>2
      <3>6. i + 1 .. Len(acl) \subseteq i .. Len(acl)
        BY <1>0
      <3> HIDE DEF G, f
      <3> QED
        BY <3>1, <3>2, <3>3, <3>4, <3>5, <3>6
    <2>2. f \in BOOLEAN
      BY DEF IsMine
    <2>3. CASE M(i)
      <3>1. f = TRUE
        BY <2>3
      <3>2. ~(want \subseteq Effective(acl, i)) /\ ~IsOwn(acl[i], owner, uid) /\ ~IsNamed(acl[i], uid)
        BY <1>2, <2>3 DEF Ends
      <3> HIDE DEF G
      <3>3. Turn(acl, owner, group, uid, gid, want, i, found, G(i + 1, found), G(i + 1, TRUE))
                <=> G(i + 1, TRUE)
        BY <2>3, <3>2 DEF Turn
      <3> HIDE DEF f
      <3>4. G(i, found) <=> Turn(acl, owner, group, uid, gid, want, i, found, G(i + 1, found), G(i + 1, TRUE))
        BY <2>1, <3>1, <3>3
      <3> QED
        BY <3>4 DEF G
    <2>4. CASE ~M(i)
      <3>1. f = found
        BY <2>4
      <3>2. acl[i].tag # "other" /\ ~IsOwn(acl[i], owner, uid) /\ ~IsNamed(acl[i], uid)
        BY <1>2 DEF Ends
      <3> HIDE DEF G
      <3>3. Turn(acl, owner, group, uid, gid, want, i, found, G(i + 1, found), G(i + 1, TRUE))
                <=> G(i + 1, found)
        BY <2>4, <3>2 DEF Turn
      <3> HIDE DEF f
      <3>4. G(i, found) <=> Turn(acl, owner, group, uid, gid, want, i, found, G(i + 1, found), G(i + 1, TRUE))
        BY <2>1, <3>1, <3>3
      <3> QED
        BY <3>4 DEF G
    <2> QED
      BY <2>3, <2>4
  <1> QED
    BY <1>1, <1>2

\* A function that takes the turns of the walk computes it.
LEMMA WalkGrants ==
    ASSUME NEW acl \in Seq(Entry), NEW owner, NEW group, NEW uid, NEW gid, NEW want, NEW h,
           Walks(acl, owner, group, uid, gid, want, h)
    PROVE  h[1][FALSE] <=> GrantsFrom(acl, owner, group, uid, gid, want, 1, FALSE)
  <1> DEFINE n == Len(acl)
             G(i, f) == GrantsFrom(acl, owner, group, uid, gid, want, i, f)
             R == {k \in 0 .. n : \A f \in BOOLEAN : h[n + 1 - k][f] <=> G(n + 1 - k, f)}
  <1>0. n \in Nat
    OBVIOUS
  <1>1. 0 \in R
    <2> SUFFICES ASSUME NEW f \in BOOLEAN PROVE h[n + 1][f] <=> G(n + 1, f)
      BY <1>0
    <2>2. ~h[n + 1][f]
      BY DEF Walks
    <2>3. ~G(n + 1, f)
      <3>1. n + 1 .. n = {}
        BY <1>0
      <3> QED
        BY <3>1 DEF GrantsFrom
    <2> QED
      BY <2>2, <2>3
  <1>2. ASSUME NEW k \in 1 .. n, k - 1 \in R PROVE k \in R
    <2> SUFFICES ASSUME NEW f \in BOOLEAN PROVE h[n + 1 - k][f] <=> G(n + 1 - k, f)
      BY <1>0
    <2> DEFINE i == n + 1 - k
    <2>1. i \in 1 .. n /\ i \in 1 .. n + 1 /\ ~(i > n) /\ n + 1 - (k - 1) = i + 1
      BY <1>0
    <2>2. \A e \in BOOLEAN : h[i + 1][e] <=> G(i + 1, e)
      BY <1>2, <2>1
    <2> HIDE DEF i, n
    <2>3. h[i][f] = Turn(acl, owner, group, uid, gid, want, i, f, h[i + 1][f], h[i + 1][TRUE])
      BY <2>1 DEF Walks, n
    <2>4. G(i, f) <=> Turn(acl, owner, group, uid, gid, want, i, f, G(i + 1, f), G(i + 1, TRUE))
      BY <2>1, GrantsFromTurn DEF n
    <2> HIDE DEF G
    <2>5. h[i][f] <=> G(i, f)
      BY <2>2, <2>3, <2>4 DEF Turn
    <2> QED
      BY <2>5 DEF i
  <1> HIDE DEF R, n
  <1>3. n \in R
    <2>1. n \in Nat /\ 0 \in R /\ \A k \in 1 .. n : k - 1 \in R => k \in R
      BY <1>0, <1>1, <1>2 DEF n
    <2>2. 0 .. n \subseteq R
      BY <2>1, UpTo
    <2> QED
      BY <2>1, <2>2
  <1>4. n + 1 - n = 1
    BY <1>0
  <1> QED
    BY <1>3, <1>4 DEF R

\* acl_permission in closed form.
LEMMA GrantedIs ==
    ASSUME NEW acl \in Seq(Entry), NEW owner, NEW group, NEW uid, NEW gid, NEW want
    PROVE  Granted(acl, owner, group, uid, gid, want)
             <=> GrantsFrom(acl, owner, group, uid, gid, want, 1, FALSE)
  <1> DEFINE T(h, i, f) == IF i > Len(acl) THEN FALSE
                           ELSE Turn(acl, owner, group, uid, gid, want, i, f, h[i + 1][f], h[i + 1][TRUE])
             F(h) == [i \in 1 .. Len(acl) + 1 |-> [f \in BOOLEAN |-> T(h, i, f)]]
             at[i \in 1 .. Len(acl) + 1] == [f \in BOOLEAN |-> T(at, i, f)]
             g == [i \in 1 .. Len(acl) + 1 |-> [f \in BOOLEAN |->
                      GrantsFrom(acl, owner, group, uid, gid, want, i, f)]]
  <1>1. at = CHOOSE h : h = F(h)
    OBVIOUS
  <1>2. g = F(g)
    <2>1. ASSUME NEW i \in 1 .. Len(acl) + 1, NEW f \in BOOLEAN
          PROVE  GrantsFrom(acl, owner, group, uid, gid, want, i, f) <=> T(g, i, f)
      <3>0. Len(acl) \in Nat
        OBVIOUS
      <3>1. CASE i > Len(acl)
        <4>1. i .. Len(acl) = {}
          BY <3>0, <3>1
        <4> QED
          BY <3>1, <4>1 DEF GrantsFrom
      <3>2. CASE ~(i > Len(acl))
        <4>1. i \in 1 .. Len(acl) /\ i + 1 \in 1 .. Len(acl) + 1
          BY <3>0, <3>2
        <4>2. \A e \in BOOLEAN : g[i + 1][e] = GrantsFrom(acl, owner, group, uid, gid, want, i + 1, e)
          BY <4>1
        <4>3. GrantsFrom(acl, owner, group, uid, gid, want, i, f)
                <=> Turn(acl, owner, group, uid, gid, want, i, f,
                      GrantsFrom(acl, owner, group, uid, gid, want, i + 1, f),
                      GrantsFrom(acl, owner, group, uid, gid, want, i + 1, TRUE))
          BY <4>1, GrantsFromTurn
        <4> HIDE DEF g
        <4> QED
          BY <3>2, <4>2, <4>3
      <3> QED
        BY <3>1, <3>2
    <2>2. ASSUME NEW i \in 1 .. Len(acl) + 1, NEW f \in BOOLEAN
          PROVE  GrantsFrom(acl, owner, group, uid, gid, want, i, f) = T(g, i, f)
      <3>1. GrantsFrom(acl, owner, group, uid, gid, want, i, f) \in BOOLEAN
        BY DEF GrantsFrom
      <3>2. T(g, i, f) \in BOOLEAN
        <4>1. CASE i > Len(acl)
          BY <4>1
        <4>2. CASE ~(i > Len(acl))
          <5>1. i + 1 \in 1 .. Len(acl) + 1
            BY <4>2
          <5>2. \A e \in BOOLEAN : g[i + 1][e] = GrantsFrom(acl, owner, group, uid, gid, want, i + 1, e)
            BY <5>1
          <5>3. \A e \in BOOLEAN : g[i + 1][e] \in BOOLEAN
            BY <5>2 DEF GrantsFrom
          <5> HIDE DEF g
          <5> QED
            BY <4>2, <5>3 DEF Turn
        <4> QED
          BY <4>1, <4>2
      <3> HIDE DEF T
      <3> QED
        BY <2>1, <3>1, <3>2
    <2> HIDE DEF T
    <2> QED
      BY <2>2
  <1>3. at = F(at)
    <2> HIDE DEF F
    <2> QED
      BY <1>1, <1>2
  <1>4. Granted(acl, owner, group, uid, gid, want) <=> at[1][FALSE]
    BY DEF Granted, Turn, IsMine, IsOwn, IsNamed
  <1> HIDE DEF at
  <1>5. Walks(acl, owner, group, uid, gid, want, at)
    <2>1. \A i \in 1 .. Len(acl) + 1 : at[i] = [f \in BOOLEAN |-> T(at, i, f)]
      BY <1>3
    <2> HIDE DEF T
    <2>2. \A i \in 1 .. Len(acl) + 1, f \in BOOLEAN : at[i][f] = T(at, i, f)
      BY <2>1
    <2>3. ASSUME NEW f \in BOOLEAN PROVE ~at[Len(acl) + 1][f]
      <3> DEFINE m == Len(acl) + 1
      <3>1. m \in 1 .. Len(acl) + 1 /\ m > Len(acl)
        OBVIOUS
      <3> HIDE DEF m
      <3>2. at[m][f] = T(at, m, f)
        BY <2>2, <3>1
      <3>3. ~T(at, m, f)
        BY <3>1 DEF T
      <3> QED
        BY <3>2, <3>3 DEF m
    <2>4. ASSUME NEW f \in BOOLEAN, NEW i \in 1 .. Len(acl)
          PROVE  at[i][f] = Turn(acl, owner, group, uid, gid, want, i, f, at[i + 1][f], at[i + 1][TRUE])
      <3>1. i \in 1 .. Len(acl) + 1 /\ ~(i > Len(acl))
        OBVIOUS
      <3>2. at[i][f] = T(at, i, f)
        BY <2>2, <3>1
      <3> QED
        BY <3>1, <3>2 DEF T
    <2> QED
      BY <2>3, <2>4 DEF Walks
  <1> QED
    BY <1>4, <1>5, WalkGrants

\* The place of a tag in a list.
Rank(tag) == CHOOSE r \in DOMAIN Tags : tag = Tags[r]

\* A tag has one place among the tags.
LEMMA RankIs ==
    /\ Rank("user_obj") = 1 /\ Rank("user") = 2 /\ Rank("group_obj") = 3
    /\ Rank("group") = 4 /\ Rank("mask") = 5 /\ Rank("other") = 6 /\ Rank("none") = 7
  <1>1. DOMAIN Tags = 1 .. 7
    BY DEF Tags
  <1>2. /\ Tags[1] = "user_obj" /\ Tags[2] = "user" /\ Tags[3] = "group_obj"
        /\ Tags[4] = "group" /\ Tags[5] = "mask" /\ Tags[6] = "other" /\ Tags[7] = "none"
    BY DEF Tags
  <1>3. \A r \in 1 .. 7 : r = 1 \/ r = 2 \/ r = 3 \/ r = 4 \/ r = 5 \/ r = 6 \/ r = 7
    OBVIOUS
  <1>4. ASSUME NEW k \in 1 .. 7 PROVE Rank(Tags[k]) = k
    BY <1>1, <1>2, <1>3 DEF Rank
  <1> QED
    BY <1>2, <1>4

\* The entries of a list come in the order of their tags.
LEMMA InOrder ==
    ASSUME NEW acl \in Seq(Entry), Ordered(acl),
           NEW i \in DOMAIN acl, NEW j \in DOMAIN acl, i < j
    PROVE  Rank(acl[i].tag) <= Rank(acl[j].tag)
  BY DEF Ordered, Rank

\* The tags there are.
TagSet == {"user_obj", "user", "group_obj", "group", "mask", "other", "none"}

LEMMA TagIs ==
    ASSUME NEW acl \in Seq(Entry), NEW i \in DOMAIN acl
    PROVE  /\ acl[i].tag \in TagSet
           /\ i \in 1 .. Len(acl) /\ Rank(acl[i].tag) \in 1 .. 7
  <1>1. acl[i] \in Entry /\ i \in 1 .. Len(acl)
    OBVIOUS
  <1>2. \A r \in DOMAIN Tags : Tags[r] \in TagSet
    BY DEF Tags, TagSet
  <1>3. acl[i].tag \in TagSet
    BY <1>1, <1>2 DEF Entry
  <1>4. Rank(acl[i].tag) \in 1 .. 7
    BY <1>3, RankIs DEF TagSet
  <1> QED
    BY <1>1, <1>3, <1>4

\* What decides, in closed form: the entry that ends the walk.
LEMMA Decided ==
    ASSUME NEW acl \in Seq(Entry), NEW owner, NEW group, NEW uid, NEW gid, NEW want,
           NEW d \in DOMAIN acl, Ends(acl, owner, group, uid, gid, want, d),
           \A j \in DOMAIN acl : j < d => ~Ends(acl, owner, group, uid, gid, want, j)
    PROVE  Granted(acl, owner, group, uid, gid, want)
             <=> Answer(acl, owner, group, uid, gid, want, d,
                        \E j \in DOMAIN acl : j < d /\ IsMine(acl[j], group, gid))
  <1> DEFINE E(j) == Ends(acl, owner, group, uid, gid, want, j)
             A(j, f) == Answer(acl, owner, group, uid, gid, want, j, f)
             M(j) == IsMine(acl[j], group, gid)
             found == \E j \in DOMAIN acl : j < d /\ M(j)
  <1>0. DOMAIN acl = 1 .. Len(acl) /\ Len(acl) \in Nat
    OBVIOUS
  <1>1. Granted(acl, owner, group, uid, gid, want)
          <=> \E e \in 1 .. Len(acl) : /\ E(e) /\ \A j \in 1 .. e - 1 : ~E(j)
                                       /\ A(e, FALSE \/ \E j \in 1 .. e - 1 : M(j))
    BY GrantedIs DEF GrantsFrom
  <1>2. E(d) /\ \A j \in DOMAIN acl : j < d => ~E(j)
    OBVIOUS
  <1> HIDE DEF E, M
  <1>3. ASSUME NEW e \in 1 .. Len(acl), E(e), \A j \in 1 .. e - 1 : ~E(j)
        PROVE  e = d
    <2>1. ~(d < e)
      BY <1>0, <1>2, <1>3
    <2>2. ~(e < d)
      BY <1>0, <1>2, <1>3
    <2> QED
      BY <1>0, <2>1, <2>2
  <1>4. \A j \in 1 .. d - 1 : j \in DOMAIN acl /\ j < d
    BY <1>0
  <1>5. (FALSE \/ \E j \in 1 .. d - 1 : M(j)) <=> found
    BY <1>0, <1>4
  <1>6. A(d, FALSE \/ \E j \in 1 .. d - 1 : M(j)) <=> A(d, found)
    BY <1>5 DEF Answer
  <1>7. d \in 1 .. Len(acl) /\ \A j \in 1 .. d - 1 : ~E(j)
    BY <1>0, <1>2, <1>4
  <1> HIDE DEF A, found
  <1>8. Granted(acl, owner, group, uid, gid, want) <=> A(d, found)
    BY <1>1, <1>2, <1>3, <1>6, <1>7
  <1> QED
    BY <1>8 DEF A, found, M

\* Where no entry decides, nothing is granted.
LEMMA NobodyDecides ==
    ASSUME NEW acl \in Seq(Entry), NEW owner, NEW group, NEW uid, NEW gid, NEW want,
           \A j \in DOMAIN acl : ~Ends(acl, owner, group, uid, gid, want, j)
    PROVE  ~Granted(acl, owner, group, uid, gid, want)
  <1>1. DOMAIN acl = 1 .. Len(acl)
    OBVIOUS
  <1> QED
    BY <1>1, GrantedIs DEF GrantsFrom

\* A list grants what the rule of POSIX.1e grants.
LEMMA GrantedIsPosix ==
    ASSUME NEW acl \in Seq(Entry), Ordered(acl),
           NEW owner, NEW group, NEW uid, NEW gid, NEW want
    PROVE  Granted(acl, owner, group, uid, gid, want)
             <=> PosixGrants(acl, owner, group, uid, gid, want)
  <1> DEFINE E(j) == Ends(acl, owner, group, uid, gid, want, j)
             users == {i \in Tagged(acl, "user") : acl[i].id = uid}
             groups == {i \in Tagged(acl, "group_obj") : gid = group} \cup
                       {i \in Tagged(acl, "group") : acl[i].id = gid}
             others == Tagged(acl, "other")
             tag(i) == acl[i].tag
  <1>0. /\ DOMAIN acl = 1 .. Len(acl) /\ DOMAIN acl \subseteq Nat
        /\ \A i, j \in DOMAIN acl : Rank(tag(i)) < Rank(tag(j)) => i < j
    <2>1. ASSUME NEW i \in DOMAIN acl, NEW j \in DOMAIN acl, Rank(tag(i)) < Rank(tag(j)) PROVE i < j
      <3>1. Rank(tag(i)) \in 1 .. 7 /\ Rank(tag(j)) \in 1 .. 7
        BY TagIs
      <3>2. i # j /\ i \in Nat /\ j \in Nat
        BY <2>1, <3>1
      <3>3. ~(j < i)
        <4> SUFFICES ASSUME j < i PROVE FALSE
          OBVIOUS
        <4>1. Rank(tag(j)) <= Rank(tag(i))
          BY InOrder
        <4> QED
          BY <2>1, <3>1, <4>1
      <3> QED
        BY <3>2, <3>3
    <2> QED
      BY <2>1
  <1>1. PICK u \in DOMAIN acl : Tagged(acl, "user_obj") = {u}
    BY DEF Ordered
  <1>2. \A i, j \in others : i = j
    BY DEF Ordered
  <1>3. /\ \A i \in DOMAIN acl : tag(i) = "user_obj" <=> i = u
        /\ \A i \in DOMAIN acl : tag(i) = "other" <=> i \in others
        /\ \A i \in DOMAIN acl : i \in users <=> IsNamed(acl[i], uid)
        /\ \A i \in DOMAIN acl : i \in groups <=> IsMine(acl[i], group, gid)
        /\ users \subseteq DOMAIN acl /\ groups \subseteq DOMAIN acl /\ others \subseteq DOMAIN acl
    BY <1>1 DEF Tagged, IsNamed, IsMine
  <1>4. \A i \in DOMAIN acl :
            E(i) <=> \/ uid = owner /\ i = u
                     \/ i \in users
                     \/ i \in groups /\ want \subseteq Effective(acl, i)
                     \/ i \in others
    BY <1>3 DEF Ends, IsOwn
  <1>5. /\ \A i \in users : u < i
        /\ \A i \in groups : u < i
        /\ \A i \in others : u < i
        /\ \A i \in users, j \in groups \cup others : i < j
        /\ \A i \in groups, j \in others : i < j
    <2>1. /\ \A i \in users : tag(i) = "user"
          /\ \A i \in groups : tag(i) \in {"group_obj", "group"}
          /\ \A i \in others : tag(i) = "other"
          /\ tag(u) = "user_obj"
      BY <1>3 DEF IsNamed, IsMine
    <2> HIDE DEF users, groups, others, tag
    <2>2. /\ \A i \in users : Rank(tag(i)) = 2
          /\ \A i \in groups : Rank(tag(i)) \in {3, 4}
          /\ \A i \in others : Rank(tag(i)) = 6
          /\ Rank(tag(u)) = 1
      BY <2>1, RankIs
    <2>3. users \subseteq DOMAIN acl /\ groups \subseteq DOMAIN acl /\ others \subseteq DOMAIN acl
      BY <1>3
    <2> QED
      BY <1>0, <2>2, <2>3
  <1> HIDE DEF E, tag
  <1>6. \A d \in DOMAIN acl : E(d) /\ (\A j \in DOMAIN acl : j < d => ~E(j)) =>
            (Granted(acl, owner, group, uid, gid, want)
               <=> Answer(acl, owner, group, uid, gid, want, d,
                          \E j \in DOMAIN acl : j < d /\ j \in groups))
    <2> TAKE d \in DOMAIN acl
    <2> HAVE E(d) /\ (\A j \in DOMAIN acl : j < d => ~E(j))
    <2>1. (\E j \in DOMAIN acl : j < d /\ IsMine(acl[j], group, gid))
            <=> (\E j \in DOMAIN acl : j < d /\ j \in groups)
      BY <1>3
    <2>2. Granted(acl, owner, group, uid, gid, want)
             <=> Answer(acl, owner, group, uid, gid, want, d,
                        \E j \in DOMAIN acl : j < d /\ IsMine(acl[j], group, gid))
      BY Decided DEF E
    <2> HIDE DEF groups
    <2> QED
      BY <2>1, <2>2 DEF Answer
  <1>7. CASE uid = owner
    <2>1. E(u) /\ \A j \in DOMAIN acl : j < u => ~E(j)
      BY <1>0, <1>4, <1>5, <1>7
    <2>2. Granted(acl, owner, group, uid, gid, want) <=> want \subseteq acl[u].perm
      BY <1>3, <1>6, <1>7, <2>1 DEF Answer, IsOwn, tag
    <2> QED
      BY <1>1, <1>7, <2>2 DEF PosixGrants
  <1>8. CASE uid # owner /\ users # {}
    <2>0. users \in SUBSET Nat
      BY <1>0, <1>3
    <2>1. PICK d \in users : \A j \in users : d <= j
      BY <1>8, <2>0, LeastExists
    <2>2. d \in DOMAIN acl /\ \A j \in users : j \in Nat
      BY <1>0, <1>3, <2>1
    <2>3. E(d) /\ \A j \in DOMAIN acl : j < d => ~E(j)
      BY <1>0, <1>4, <1>5, <1>8, <2>1, <2>2
    <2>4. IsNamed(acl[d], uid) /\ ~IsOwn(acl[d], owner, uid)
      BY <1>3, <1>8, <2>1, <2>2 DEF IsOwn
    <2>5. Granted(acl, owner, group, uid, gid, want) <=> want \subseteq Effective(acl, d)
      BY <1>6, <2>2, <2>3, <2>4 DEF Answer
    <2>6. {i \in users : \A j \in users : i <= j} = {d}
      BY <2>1, <2>2
    <2> QED
      BY <1>8, <2>5, <2>6 DEF PosixGrants
  <1>9. CASE uid # owner /\ users = {} /\ \E i \in groups : want \subseteq Effective(acl, i)
    <2> DEFINE grants == {i \in groups : want \subseteq Effective(acl, i)}
    <2>0. grants \in SUBSET Nat /\ grants # {}
      BY <1>0, <1>3, <1>9
    <2>1. PICK d \in grants : \A j \in grants : d <= j
      BY <2>0, LeastExists
    <2>2. d \in DOMAIN acl /\ d \in groups /\ want \subseteq Effective(acl, d)
      BY <1>3, <1>5, <2>1
    <2>3. E(d) /\ \A j \in DOMAIN acl : j < d => ~E(j)
      BY <1>0, <1>3, <1>4, <1>5, <1>9, <2>1, <2>2
    <2>4. IsMine(acl[d], group, gid) /\ ~IsNamed(acl[d], uid) /\ ~IsOwn(acl[d], owner, uid)
      BY <1>3, <1>9, <2>2 DEF IsOwn
    <2>5. Granted(acl, owner, group, uid, gid, want)
      BY <1>6, <2>2, <2>3, <2>4 DEF Answer
    <2> QED
      BY <1>9, <2>5 DEF PosixGrants
  <1>10. CASE uid # owner /\ users = {} /\ ~\E i \in groups : want \subseteq Effective(acl, i)
    <2>1. \A i \in DOMAIN acl : E(i) <=> i \in others
      BY <1>4, <1>10
    <2>2. CASE others = {}
      <3>1. ~Granted(acl, owner, group, uid, gid, want)
        BY <2>1, <2>2, NobodyDecides DEF E
      <3> QED
        BY <1>10, <2>2, <3>1 DEF PosixGrants
    <2>3. CASE others # {}
      <3>1. PICK o \in DOMAIN acl : others = {o}
        BY <1>2, <1>3, <2>3
      <3>2. E(o) /\ \A j \in DOMAIN acl : j < o => ~E(j)
        BY <1>0, <2>1, <3>1
      <3>3. /\ ~IsOwn(acl[o], owner, uid) /\ ~IsNamed(acl[o], uid) /\ ~IsMine(acl[o], group, gid)
        <4>1. o \notin groups /\ o \notin users
          BY <1>0, <1>3, <1>5, <3>1
        <4> QED
          BY <1>3, <1>10, <4>1 DEF IsOwn
      <3>4. (\E j \in DOMAIN acl : j < o /\ j \in groups) <=> groups # {}
        BY <1>3, <1>5, <3>1
      <3>5. Granted(acl, owner, group, uid, gid, want) <=> (groups = {} /\ want \subseteq acl[o].perm)
        <4> HIDE DEF groups, users, others
        <4> QED
          BY <1>6, <3>2, <3>3, <3>4 DEF Answer
      <3> QED
        BY <1>10, <3>1, <3>5 DEF PosixGrants
    <2> QED
      BY <2>2, <2>3
  <1> QED
    BY <1>7, <1>8, <1>9, <1>10

-----------------------------------------------------------------------------
(* What posix_acl_create_masq makes of a list. *)

\* The tags, the ids and the length are those of the list.
LEMMA MasqIs ==
    ASSUME NEW acl \in Seq(Entry), NEW mode \in ModeType
    PROVE  /\ Masq(acl, mode) \in Seq(Entry) /\ Len(Masq(acl, mode)) = Len(acl)
           /\ DOMAIN Masq(acl, mode) = DOMAIN acl
           /\ \A i \in DOMAIN acl : /\ Masq(acl, mode)[i].tag = acl[i].tag
                                    /\ Masq(acl, mode)[i].id = acl[i].id
           /\ \A i \in DOMAIN acl : acl[i].tag = "user_obj" =>
                  Masq(acl, mode)[i].perm = acl[i].perm \cap mode.user
           /\ \A i \in DOMAIN acl : acl[i].tag = "other" =>
                  Masq(acl, mode)[i].perm = acl[i].perm \cap mode.other
           /\ \A i \in GroupClass(acl) : Masq(acl, mode)[i].perm = acl[i].perm \cap mode.group
  <1> DEFINE clamp(i, P) == [acl[i] EXCEPT !.perm = @ \cap P]
             e(i) == IF acl[i].tag = "user_obj" THEN clamp(i, mode.user)
                     ELSE IF acl[i].tag = "other" THEN clamp(i, mode.other)
                     ELSE IF i \in GroupClass(acl) THEN clamp(i, mode.group)
                     ELSE acl[i]
             n == Len(acl)
  <1>0. n \in Nat /\ DOMAIN acl = 1 .. n /\ \A i \in DOMAIN acl : acl[i] \in Entry
    OBVIOUS
  <1>1. Masq(acl, mode) = [i \in 1 .. n |-> e(i)]
    BY <1>0 DEF Masq
  <1>2. ASSUME NEW i \in DOMAIN acl, NEW P
        PROVE  /\ clamp(i, P) \in Entry /\ clamp(i, P).tag = acl[i].tag /\ clamp(i, P).id = acl[i].id
               /\ clamp(i, P).perm = acl[i].perm \cap P
    <2>1. acl[i] \in Entry
      BY <1>0
    <2> QED
      BY <2>1 DEF Entry
  <1> HIDE DEF clamp
  <1>3. ASSUME NEW i \in DOMAIN acl
        PROVE  e(i) \in Entry /\ e(i).tag = acl[i].tag /\ e(i).id = acl[i].id
    BY <1>0, <1>2
  <1>4. \A i \in GroupClass(acl) : i \in DOMAIN acl /\ acl[i].tag \notin {"user_obj", "other"}
    BY DEF GroupClass, Tagged
  <1>5. /\ \A i \in DOMAIN acl : acl[i].tag = "user_obj" => e(i).perm = acl[i].perm \cap mode.user
        /\ \A i \in DOMAIN acl : acl[i].tag = "other" => e(i).perm = acl[i].perm \cap mode.other
        /\ \A i \in GroupClass(acl) : e(i).perm = acl[i].perm \cap mode.group
    BY <1>2, <1>4
  <1> HIDE DEF e, n
  <1>6. Masq(acl, mode) \in [1 .. n -> Entry]
    BY <1>0, <1>1, <1>3
  <1>7. Masq(acl, mode) \in Seq(Entry) /\ Len(Masq(acl, mode)) = n
    BY <1>0, <1>6
  <1>8. \A i \in DOMAIN acl : Masq(acl, mode)[i] = e(i)
    BY <1>0, <1>1
  <1>9. DOMAIN Masq(acl, mode) = DOMAIN acl
    BY <1>0, <1>6
  <1> QED
    BY <1>3, <1>4, <1>5, <1>7, <1>8, <1>9 DEF n

\* It is in order, or well formed, if the list is.
LEMMA MasqOrdered ==
    ASSUME NEW acl \in Seq(Entry), Ordered(acl), NEW mode \in ModeType
    PROVE  /\ Ordered(Masq(acl, mode))
           /\ WellFormed(acl) => WellFormed(Masq(acl, mode))
           /\ \A t : Tagged(Masq(acl, mode), t) = Tagged(acl, t)
           /\ GroupClass(Masq(acl, mode)) = GroupClass(acl)
  <1> DEFINE m == Masq(acl, mode)
  <1>1. DOMAIN m = DOMAIN acl /\ \A i \in DOMAIN acl : m[i].tag = acl[i].tag
    BY MasqIs
  <1> HIDE DEF m
  <1>2. \A t : Tagged(m, t) = Tagged(acl, t)
    BY <1>1 DEF Tagged
  <1>3. GroupClass(m) = GroupClass(acl)
    BY <1>2 DEF GroupClass
  <1>4. \A i, j \in DOMAIN m : i < j => Rank(m[i].tag) <= Rank(m[j].tag)
    BY <1>1, InOrder
  <1>5. Ordered(m)
    <2>1. \A i, j \in DOMAIN m : i < j =>
             (CHOOSE r \in DOMAIN Tags : m[i].tag = Tags[r])
               <= (CHOOSE r \in DOMAIN Tags : m[j].tag = Tags[r])
      BY <1>4 DEF Rank
    <2>2. /\ \E i \in DOMAIN m : Tagged(m, "user_obj") = {i}
          /\ \A t \in {"group_obj", "mask", "other"} : \A i, j \in Tagged(m, t) : i = j
      BY <1>1, <1>2 DEF Ordered
    <2> QED
      BY <2>1, <2>2 DEF Ordered
  <1>6. WellFormed(acl) => WellFormed(m)
    BY <1>2, <1>5 DEF WellFormed
  <1> QED
    BY <1>2, <1>3, <1>5, <1>6 DEF m

\* The new list is no wider than the new mode.
LEMMA MasqWithin ==
    ASSUME NEW acl \in Seq(Entry), WellFormed(acl), NEW mode \in ModeType,
           NEW uid, NEW gid, NEW want,
           Granted(Masq(acl, mode), Owner, Group, uid, gid, want)
    PROVE  want \subseteq ModeFor(MasqMode(acl, mode), Masq(acl, mode), uid, gid)
  <1> DEFINE m == Masq(acl, mode)
             c == MasqMode(acl, mode)
             users == {i \in Tagged(m, "user") : m[i].id = uid}
             groups == {i \in Tagged(m, "group_obj") : gid = Group} \cup
                       {i \in Tagged(m, "group") : m[i].id = gid}
  <1>1. /\ m \in Seq(Entry) /\ WellFormed(m) /\ Ordered(m) /\ DOMAIN m = DOMAIN acl
        /\ \A t : Tagged(m, t) = Tagged(acl, t)
        /\ GroupClass(m) = GroupClass(acl)
    BY MasqIs, MasqOrdered DEF WellFormed
  <1>0. /\ \A i, j \in Tagged(m, "mask") : i = j
        /\ \E i \in DOMAIN m : Tagged(m, "user_obj") = {i}
        /\ \E i \in DOMAIN m : Tagged(m, "group_obj") = {i}
        /\ \E i \in DOMAIN m : Tagged(m, "other") = {i}
    <2>1. \A i, j \in Tagged(m, "group_obj") : i = j
      BY <1>1 DEF Ordered
    <2>2. \A i, j \in Tagged(m, "other") : i = j
      BY <1>1 DEF Ordered
    <2>3. Tagged(m, "group_obj") # {} /\ Tagged(m, "other") # {}
      BY <1>1 DEF WellFormed
    <2>4. \A t : Tagged(m, t) \subseteq DOMAIN m
      BY DEF Tagged
    <2>5. \A i, j \in Tagged(m, "mask") : i = j
      BY <1>1 DEF Ordered
    <2>6. \E i \in DOMAIN m : Tagged(m, "user_obj") = {i}
      BY <1>1 DEF Ordered
    <2> QED
      BY <2>1, <2>2, <2>3, <2>4, <2>5, <2>6
  <1>2. /\ \A i \in Tagged(m, "user_obj") : m[i].perm = acl[i].perm \cap mode.user
        /\ \A i \in Tagged(m, "other") : m[i].perm = acl[i].perm \cap mode.other
        /\ \A i \in GroupClass(m) : m[i].perm = acl[i].perm \cap mode.group
    <2>1. \A i \in DOMAIN acl : /\ acl[i].tag = "user_obj" => m[i].perm = acl[i].perm \cap mode.user
                                /\ acl[i].tag = "other" => m[i].perm = acl[i].perm \cap mode.other
      BY MasqIs
    <2>2. \A i \in GroupClass(acl) : m[i].perm = acl[i].perm \cap mode.group
      BY MasqIs
    <2> HIDE DEF m
    <2>3. \A t : \A i \in Tagged(m, t) : i \in DOMAIN acl /\ acl[i].tag = t
      BY <1>1 DEF Tagged
    <2> QED
      BY <1>1, <2>1, <2>2, <2>3
  <1>3. /\ c.user = {p \in mode.user : \A i \in Tagged(acl, "user_obj") : p \in acl[i].perm}
        /\ c.group = {p \in mode.group : \A i \in GroupClass(acl) : p \in acl[i].perm}
        /\ c.other = {p \in mode.other : \A i \in Tagged(acl, "other") : p \in acl[i].perm}
    BY DEF MasqMode, Mode
  <1> HIDE DEF m, c
  <1>4. PosixGrants(m, Owner, Group, uid, gid, want)
    BY <1>1, GrantedIsPosix DEF m
  <1>5. PICK u \in DOMAIN m : Tagged(m, "user_obj") = {u}
    BY <1>0
  <1>6. PICK o \in DOMAIN m : Tagged(m, "other") = {o}
    BY <1>0
  <1>7. CASE uid = Owner
    <2>1. want \subseteq m[u].perm
      BY <1>4, <1>5, <1>7 DEF PosixGrants
    <2>2. m[u].perm = acl[u].perm \cap mode.user /\ Tagged(acl, "user_obj") = {u}
      BY <1>1, <1>2, <1>5
    <2>3. want \subseteq c.user
      BY <1>3, <2>1, <2>2
    <2> QED
      BY <1>7, <2>3 DEF ModeFor, m, c
  <1>8. ASSUME NEW i \in users \cup groups, want \subseteq Effective(m, i)
        PROVE  want \subseteq c.group
    <2>1. CASE Tagged(m, "mask") # {}
      <3>1. GroupClass(m) = Tagged(m, "mask")
        BY <2>1 DEF GroupClass
      <3>2. PICK k \in Tagged(m, "mask") : Tagged(m, "mask") = {k}
        <4>1. \A i1, i2 \in Tagged(m, "mask") : i1 = i2
          BY <1>0
        <4> QED
          BY <2>1, <4>1
      <3>3. want \subseteq m[k].perm
        BY <1>8, <3>2 DEF Effective
      <3>4. m[k].perm = acl[k].perm \cap mode.group /\ GroupClass(acl) = {k}
        BY <1>1, <1>2, <3>1, <3>2
      <3> QED
        BY <1>3, <3>3, <3>4
    <2>2. CASE Tagged(m, "mask") = {}
      <3>1. GroupClass(m) = Tagged(m, "group_obj")
        BY <2>2 DEF GroupClass
      <3>2. Tagged(m, "user") = {} /\ Tagged(m, "group") = {}
        BY <1>1, <2>2 DEF WellFormed
      <3>3. PICK k \in DOMAIN m : Tagged(m, "group_obj") = {k}
        BY <1>0
      <3>4. i = k
        BY <3>2, <3>3
      <3>5. want \subseteq m[k].perm
        BY <1>8, <3>4 DEF Effective
      <3>6. m[k].perm = acl[k].perm \cap mode.group /\ GroupClass(acl) = {k}
        BY <1>1, <1>2, <3>1, <3>3
      <3> QED
        BY <1>3, <3>5, <3>6
    <2> QED
      BY <2>1, <2>2
  <1>9. CASE uid # Owner /\ users # {}
    <2>1. \E i \in users : want \subseteq Effective(m, i)
      BY <1>4, <1>9 DEF PosixGrants
    <2>2. want \subseteq c.group
      BY <1>8, <2>1
    <2>3. InGroupClass(m, Group, uid, gid)
      BY <1>9 DEF InGroupClass
    <2> QED
      BY <1>9, <2>2, <2>3 DEF ModeFor, m, c
  <1>10. CASE uid # Owner /\ users = {} /\ groups # {}
    <2>1. \E i \in groups : want \subseteq Effective(m, i)
      BY <1>4, <1>10 DEF PosixGrants
    <2>2. want \subseteq c.group
      BY <1>8, <2>1
    <2>3. InGroupClass(m, Group, uid, gid)
      BY <1>10 DEF InGroupClass
    <2> QED
      BY <1>10, <2>2, <2>3 DEF ModeFor, m, c
  <1>11. CASE uid # Owner /\ users = {} /\ groups = {}
    <2>1. want \subseteq m[o].perm
      BY <1>4, <1>6, <1>11 DEF PosixGrants
    <2>2. m[o].perm = acl[o].perm \cap mode.other /\ Tagged(acl, "other") = {o}
      BY <1>1, <1>2, <1>6
    <2>3. want \subseteq c.other
      BY <1>3, <2>1, <2>2
    <2>4. ~InGroupClass(m, Group, uid, gid)
      <3>1. PICK k \in DOMAIN m : Tagged(m, "group_obj") = {k}
        BY <1>0
      <3> QED
        BY <1>11, <3>1 DEF InGroupClass
    <2> QED
      BY <1>11, <2>3, <2>4 DEF ModeFor, m, c
  <1> QED
    BY <1>7, <1>9, <1>10, <1>11

-----------------------------------------------------------------------------
(* Sums of units. *)

\* What FoldSet adds up, as UnitsOf does, over the records ea of a set of inodes.
UnitsIn(S, ea) ==
    LET iter[A \in SUBSET S] ==
            IF A = {} THEN 0
            ELSE iter[A \ {CHOOSE x \in A : TRUE}] + EaUnits(ea[CHOOSE x \in A : TRUE])
    IN  iter[S]

\* UnitsOf adds up what UnitsIn does.
LEMMA UnitsOfIs ==
    ASSUME NEW s, NEW S
    PROVE  UnitsOf(s, S) = UnitsIn(S, s.ea)
  BY DEF UnitsOf, UnitsIn, FoldSet, MapThenFoldSet

\* A function that adds up, one after the other, the units that b has.
One(A) == CHOOSE x \in A : TRUE

AddsUp(h, b, S) ==
    \A A \in SUBSET S : h[A] = IF A = {} THEN 0 ELSE h[A \ {One(A)}] + b[One(A)]

\* There is one.
LEMMA AddsUpExists ==
    ASSUME NEW S, IsFiniteSet(S), NEW b \in [S -> Nat]
    PROVE  \E h \in [SUBSET S -> Nat] : AddsUp(h, b, S)
  <1> DEFINE n == Cardinality(S)
             Step(h, A) == IF A = {} THEN 0 ELSE h[A \ {One(A)}] + b[One(A)]
             R == {m \in 0 .. n : \E h \in [SUBSET S -> Nat] :
                        \A A \in SUBSET S : Cardinality(A) <= m => h[A] = Step(h, A)}
  <1>0. n \in Nat /\ \A A \in SUBSET S : IsFiniteSet(A) /\ Cardinality(A) \in 0 .. n
    BY FS_Subset, FS_CardinalityType
  <1>1. 0 \in R
    <2> DEFINE h == [A \in SUBSET S |-> 0]
    <2>1. ASSUME NEW A \in SUBSET S, Cardinality(A) <= 0 PROVE h[A] = Step(h, A)
      <3>1. A = {}
        BY <1>0, <2>1, FS_EmptySet
      <3> QED
        BY <3>1
    <2>2. h \in [SUBSET S -> Nat]
      OBVIOUS
    <2> HIDE DEF h, Step
    <2> QED
      BY <1>0, <2>1, <2>2
  <1>2. ASSUME NEW m \in 1 .. n, m - 1 \in R PROVE m \in R
    <2>1. PICK h \in [SUBSET S -> Nat] :
              \A A \in SUBSET S : Cardinality(A) <= m - 1 => h[A] = Step(h, A)
      BY <1>2
    <2> DEFINE k == [A \in SUBSET S |-> IF Cardinality(A) <= m - 1 THEN h[A] ELSE Step(h, A)]
    <2>2. \A A \in SUBSET S : A # {} => /\ One(A) \in A /\ A \ {One(A)} \in SUBSET S
                                        /\ Cardinality(A \ {One(A)}) = Cardinality(A) - 1
      BY <1>0, FS_RemoveElement DEF One
    <2>3. \A A \in SUBSET S : Step(h, A) \in Nat
      BY <2>2
    <2>4. k \in [SUBSET S -> Nat]
      <3> HIDE DEF Step
      <3> QED
        BY <2>3
    <2>5. ASSUME NEW A \in SUBSET S, Cardinality(A) <= m PROVE k[A] = Step(k, A)
      <3>1. k[A] = Step(h, A)
        <4> HIDE DEF Step
        <4> QED
          BY <2>1
      <3>2. CASE A = {}
        BY <3>1, <3>2
      <3>3. CASE A # {}
        <4>1. Cardinality(A \ {One(A)}) <= m - 1 /\ A \ {One(A)} \in SUBSET S
          BY <1>0, <2>2, <2>5, <3>3
        <4>2. k[A \ {One(A)}] = h[A \ {One(A)}]
          BY <4>1
        <4> HIDE DEF k
        <4> QED
          BY <3>1, <3>3, <4>2
      <3> QED
        BY <3>2, <3>3
    <2> HIDE DEF k, Step
    <2> QED
      BY <2>4, <2>5
  <1> HIDE DEF R, n
  <1>3. n \in R
    <2>1. \A m \in 1 .. n : m - 1 \in R => m \in R
      BY <1>2
    <2> QED
      BY <1>0, <1>1, <2>1, UpTo
  <1>4. PICK h \in [SUBSET S -> Nat] :
            \A A \in SUBSET S : Cardinality(A) <= n => h[A] = Step(h, A)
    BY <1>3 DEF R
  <1>5. \A A \in SUBSET S : h[A] = Step(h, A)
    <2> HIDE DEF Step
    <2> QED
      BY <1>0, <1>4
  <1> QED
    BY <1>5 DEF AddsUp

\* There is only one.
LEMMA AddsUpOnce ==
    ASSUME NEW S, IsFiniteSet(S), NEW b \in [S -> Nat],
           NEW h, AddsUp(h, b, S), NEW k, AddsUp(k, b, S)
    PROVE  h[S] = k[S]
  <1> DEFINE n == Cardinality(S)
             R == {m \in 0 .. n : \A A \in SUBSET S : Cardinality(A) = m => h[A] = k[A]}
  <1>0. n \in Nat /\ \A A \in SUBSET S : IsFiniteSet(A) /\ Cardinality(A) \in 0 .. n
    BY FS_Subset, FS_CardinalityType
  <1>1. 0 \in R
    BY <1>0, FS_EmptySet DEF AddsUp
  <1>2. ASSUME NEW m \in 1 .. n, m - 1 \in R PROVE m \in R
    <2> SUFFICES ASSUME NEW A \in SUBSET S, Cardinality(A) = m PROVE h[A] = k[A]
      OBVIOUS
    <2>1. A # {}
      BY <1>0, FS_EmptySet
    <2>2. One(A) \in A /\ A \ {One(A)} \in SUBSET S
      BY <2>1 DEF One
    <2>3. Cardinality(A \ {One(A)}) = m - 1
      BY <1>0, <2>2, FS_RemoveElement
    <2>4. h[A \ {One(A)}] = k[A \ {One(A)}]
      BY <1>2, <2>2, <2>3
    <2> QED
      BY <2>1, <2>4 DEF AddsUp
  <1> HIDE DEF R, n
  <1>3. n \in R
    <2>1. \A m \in 1 .. n : m - 1 \in R => m \in R
      BY <1>2
    <2> QED
      BY <1>0, <1>1, <2>1, UpTo
  <1> QED
    BY <1>3 DEF R, n

\* The units that b says the inodes of S have are those of their records.
UnitsAre(b, S, ea) == \A x \in S : b[x] = EaUnits(ea[x])

\* The units of a set of inodes are their sum.
LEMMA UnitsInIs ==
    ASSUME NEW S, IsFiniteSet(S), NEW b \in [S -> Nat], NEW ea, UnitsAre(b, S, ea),
           NEW g \in [SUBSET S -> Nat], AddsUp(g, b, S)
    PROVE  UnitsIn(S, ea) = g[S]
  <1> DEFINE iter[A \in SUBSET S] ==
                 IF A = {} THEN 0 ELSE iter[A \ {One(A)}] + EaUnits(ea[One(A)])
             F(h) == [A \in SUBSET S |->
                         IF A = {} THEN 0 ELSE h[A \ {One(A)}] + EaUnits(ea[One(A)])]
  <1>1. iter = CHOOSE h : h = F(h)
    OBVIOUS
  <1>2. \A A \in SUBSET S : A # {} => b[One(A)] = EaUnits(ea[One(A)])
    BY DEF One, UnitsAre
  <1>3. g = F(g)
    BY <1>2 DEF AddsUp
  <1>4. iter = F(iter)
    <2> HIDE DEF F
    <2> QED
      BY <1>1, <1>3
  <1>5. UnitsIn(S, ea) = iter[S]
    BY DEF UnitsIn, iter, One
  <1> HIDE DEF iter
  <1>6. AddsUp(iter, b, S)
    BY <1>2, <1>4 DEF AddsUp
  <1> QED
    BY <1>5, <1>6, AddsUpOnce

\* Two images that have the same records in a set of inodes have the same units there.
LEMMA UnitsInSame ==
    ASSUME NEW S, IsFiniteSet(S), NEW ea, NEW fa,
           \A x \in S : ea[x] = fa[x] /\ EaUnits(ea[x]) \in Nat
    PROVE  UnitsIn(S, ea) = UnitsIn(S, fa) /\ UnitsIn(S, ea) \in Nat
  <1> DEFINE b == [x \in S |-> EaUnits(ea[x])]
  <1>1. b \in [S -> Nat] /\ UnitsAre(b, S, ea) /\ UnitsAre(b, S, fa)
    BY DEF UnitsAre
  <1> HIDE DEF b
  <1>2. PICK g \in [SUBSET S -> Nat] : AddsUp(g, b, S)
    BY <1>1, AddsUpExists
  <1>3. UnitsIn(S, ea) = g[S]
    BY <1>1, <1>2, UnitsInIs
  <1>4. UnitsIn(S, fa) = g[S]
    BY <1>1, <1>2, UnitsInIs
  <1> QED
    BY <1>2, <1>3, <1>4

\* No inodes have no units.
LEMMA UnitsInNone ==
    ASSUME NEW ea
    PROVE  UnitsIn({}, ea) = 0
  <1> DEFINE b == [x \in {} |-> 0]
             g == [A \in SUBSET {} |-> 0]
  <1>1. b \in [{} -> Nat] /\ g \in [SUBSET {} -> Nat] /\ g[{}] = 0
    OBVIOUS
  <1>2. AddsUp(g, b, {}) /\ UnitsAre(b, {}, ea)
    BY DEF AddsUp, UnitsAre
  <1> HIDE DEF b, g
  <1>3. UnitsIn({}, ea) = g[{}]
    BY <1>1, <1>2, UnitsInIs, FS_EmptySet
  <1> QED
    BY <1>1, <1>3

-----------------------------------------------------------------------------
(* Maps. *)

\* the maps from some of N to V
Parts(N, V) == UNION {[D -> V] : D \in SUBSET N}

\* A map from some of N to V, name by name.
LEMMA PartsIs ==
    ASSUME NEW N, NEW V, NEW f
    PROVE  f \in Parts(N, V) <=> /\ f = [x \in DOMAIN f |-> f[x]] /\ DOMAIN f \subseteq N
                                 /\ \A x \in DOMAIN f : f[x] \in V
  <1>1. ASSUME f \in Parts(N, V)
        PROVE  /\ f = [x \in DOMAIN f |-> f[x]] /\ DOMAIN f \subseteq N
               /\ \A x \in DOMAIN f : f[x] \in V
    BY <1>1 DEF Parts
  <1>2. ASSUME f = [x \in DOMAIN f |-> f[x]], DOMAIN f \subseteq N,
               \A x \in DOMAIN f : f[x] \in V
        PROVE  f \in Parts(N, V)
    <2>1. f \in [DOMAIN f -> V]
      BY <1>2
    <2> QED
      BY <1>2, <2>1 DEF Parts
  <1> QED
    BY <1>1, <1>2

\* Two maps with the same values are the same.
LEMMA PartsSame ==
    ASSUME NEW N, NEW V, NEW f \in Parts(N, V), NEW g \in Parts(N, V),
           DOMAIN f = DOMAIN g, \A x \in DOMAIN f : f[x] = g[x]
    PROVE  f = g
  <1>1. f = [x \in DOMAIN f |-> f[x]] /\ g = [x \in DOMAIN g |-> g[x]]
    BY PartsIs
  <1> QED
    BY <1>1

\* The empty map.
LEMMA NoneIsPart ==
    ASSUME NEW N, NEW V
    PROVE  <<>> \in Parts(N, V) /\ DOMAIN <<>> = {}
  <1>1. <<>> \in [{} -> V]
    OBVIOUS
  <1> QED
    BY <1>1 DEF Parts

\* A map without some names keeps the others.
LEMMA WithoutIs ==
    ASSUME NEW f, NEW S
    PROVE  /\ DOMAIN Without(f, S) = DOMAIN f \ S
           /\ \A x \in DOMAIN f \ S : Without(f, S)[x] = f[x]
  BY DEF Without, Restrict

\* It is a map still.
LEMMA WithoutIsPart ==
    ASSUME NEW N, NEW V, NEW f \in Parts(N, V), NEW S
    PROVE  Without(f, S) \in Parts(N, V)
  <1>1. /\ Without(f, S) = [x \in DOMAIN Without(f, S) |-> Without(f, S)[x]]
        /\ DOMAIN Without(f, S) = DOMAIN f \ S
        /\ \A x \in DOMAIN f \ S : Without(f, S)[x] = f[x]
    BY DEF Without, Restrict
  <1> QED
    BY <1>1, PartsIs

\* A map with one more name is one.
LEMMA PutIsPart ==
    ASSUME NEW N, NEW V, NEW f \in Parts(N, V), NEW n \in N, NEW v \in V
    PROVE  Put(f, n, v) \in Parts(N, V)
  <1>1. /\ Put(f, n, v) = [x \in DOMAIN Put(f, n, v) |-> Put(f, n, v)[x]]
        /\ DOMAIN Put(f, n, v) = DOMAIN f \cup {n}
        /\ \A x \in DOMAIN f \ {n} : Put(f, n, v)[x] = f[x]
        /\ Put(f, n, v)[n] = v
    BY DEF Put
  <1> QED
    BY <1>1, PartsIs

\* One map over another.
LEMMA OverIs ==
    ASSUME NEW f, NEW g
    PROVE  /\ DOMAIN Over(f, g) = DOMAIN f \cup DOMAIN g
           /\ \A x \in DOMAIN f : Over(f, g)[x] = f[x]
           /\ \A x \in DOMAIN g \ DOMAIN f : Over(f, g)[x] = g[x]
  BY DEF Over

\* It is a map still.
LEMMA OverIsPart ==
    ASSUME NEW N, NEW V, NEW f \in Parts(N, V), NEW g \in Parts(N, V)
    PROVE  Over(f, g) \in Parts(N, V)
  <1>1. /\ Over(f, g) = [x \in DOMAIN Over(f, g) |-> Over(f, g)[x]]
        /\ DOMAIN Over(f, g) = DOMAIN f \cup DOMAIN g
        /\ \A x \in DOMAIN f : Over(f, g)[x] = f[x]
        /\ \A x \in DOMAIN g \ DOMAIN f : Over(f, g)[x] = g[x]
    BY DEF Over
  <1> QED
    BY <1>1, PartsIs

-----------------------------------------------------------------------------
(* Lists that are cut. *)

\* the values files have: those of calls, what inheritance makes of them, and
\* what a short write leaves of them
Lists == {v \in Seq(Entry) : Ordered(v)}

\* how much a list may be cut: not before its first entry
Cuts == Nat \ {0}

\* the entries that come through whole lie before this one
LEMMA EdgeIs ==
    ASSUME NEW k \in Cuts
    PROVE  /\ k * BlockEntries \in Nat \ {0}
           /\ \A j \in Cuts : j <= k => j * BlockEntries <= k * BlockEntries
           /\ k <= k * BlockEntries /\ k * BlockSize = 8 * (k * BlockEntries)
  <1>1. BlockEntries \in Nat \ {0} /\ k \in Nat \ {0}
    BY XattrConstants DEF Cuts
  <1>2. \A a, b \in Nat : b # 0 => a <= a * b /\ a * b \in Nat
    OBVIOUS
  <1>3. \A a, b, c \in Nat : a <= b => a * c <= b * c
    OBVIOUS
  <1>4. k * BlockSize = 8 * (k * BlockEntries)
    BY <1>1 DEF BlockSize
  <1> QED
    BY <1>1, <1>2, <1>3, <1>4 DEF Cuts

\* An entry of a list that is cut.
LEMMA CutEntry ==
    ASSUME NEW v \in Seq(Entry), NEW k \in Cuts, NEW i \in DOMAIN v
    PROVE  /\ i < k * BlockEntries => Cut(v, k)[i] = v[i]
           /\ i = k * BlockEntries =>
                  Cut(v, k)[i] = [tag |-> v[i].tag, id |-> 0, perm |-> v[i].perm]
           /\ i > k * BlockEntries => Cut(v, k)[i] = [tag |-> "none", id |-> 0, perm |-> {}]
  <1>1. k * BlockEntries \in Nat /\ i \in Nat
    BY EdgeIs
  <1>2. v[i] \in Entry
    OBVIOUS
  <1> DEFINE c == k * BlockEntries
             e == v[i]
  <1>3. [e EXCEPT !.id = 0] = [tag |-> e.tag, id |-> 0, perm |-> e.perm]
    BY <1>2 DEF Entry
  <1>4. Cut(v, k)[i] = IF i < c THEN e ELSE IF i = c THEN [e EXCEPT !.id = 0]
                       ELSE [tag |-> "none", id |-> 0, perm |-> {}]
    BY DEF Cut
  <1> HIDE DEF c, e
  <1>5. /\ i < c => Cut(v, k)[i] = e
        /\ i = c => Cut(v, k)[i] = [tag |-> e.tag, id |-> 0, perm |-> e.perm]
        /\ i > c => Cut(v, k)[i] = [tag |-> "none", id |-> 0, perm |-> {}]
    BY <1>1, <1>3, <1>4 DEF c
  <1> QED
    BY <1>5 DEF c, e

\* A list that is cut has as many entries.
LEMMA CutLen ==
    ASSUME NEW v \in Seq(Entry), NEW k \in Cuts
    PROVE  Cut(v, k) \in Seq(Entry) /\ Len(Cut(v, k)) = Len(v) /\ DOMAIN Cut(v, k) = DOMAIN v
  <1> DEFINE u == Cut(v, k)
  <1>1. DOMAIN u = DOMAIN v /\ DOMAIN v = 1 .. Len(v) /\ Len(v) \in Nat /\ u = [i \in DOMAIN u |-> u[i]]
    BY DEF Cut
  <1>2. ASSUME NEW i \in DOMAIN v PROVE u[i] \in Entry
    <2>1. v[i] \in Entry /\ i \in Nat /\ k * BlockEntries \in Nat
      BY EdgeIs
    <2>2. "none" \in {Tags[r] : r \in DOMAIN Tags}
      BY DEF Tags
    <2>3. [tag |-> "none", id |-> 0, perm |-> {}] \in Entry
      BY <2>2 DEF Entry
    <2>4. [tag |-> v[i].tag, id |-> 0, perm |-> v[i].perm] \in Entry
      BY <2>1 DEF Entry
    <2>5. i < k * BlockEntries \/ i = k * BlockEntries \/ i > k * BlockEntries
      BY <2>1
    <2> QED
      BY <2>1, <2>3, <2>4, <2>5, CutEntry
  <1> HIDE DEF u
  <1>3. u \in [1 .. Len(v) -> Entry]
    BY <1>1, <1>2
  <1>4. u \in Seq(Entry) /\ Len(u) = Len(v)
    BY <1>1, <1>3
  <1> QED
    BY <1>1, <1>4 DEF u

\* The first entry of a list is the owner's.
LEMMA OwnerFirst ==
    ASSUME NEW v \in Lists
    PROVE  1 \in DOMAIN v /\ Tagged(v, "user_obj") = {1}
  <1>1. v \in Seq(Entry) /\ Ordered(v)
    BY DEF Lists
  <1>2. PICK i \in DOMAIN v : Tagged(v, "user_obj") = {i}
    BY <1>1 DEF Ordered
  <1>3. i \in 1 .. Len(v) /\ 1 \in DOMAIN v /\ v[i].tag = "user_obj"
    BY <1>1, <1>2 DEF Tagged
  <1>4. i = 1
    <2> SUFFICES ASSUME 1 < i PROVE FALSE
      BY <1>3
    <2>1. Rank(v[1].tag) <= Rank(v[i].tag) /\ Rank(v[1].tag) \in 1 .. 7 /\ v[1].tag \in TagSet
      BY <1>1, <1>3, InOrder, TagIs
    <2>2. v[1].tag = "user_obj"
      BY <1>3, <2>1, RankIs DEF TagSet
    <2>3. 1 \in Tagged(v, "user_obj")
      BY <1>3, <2>2 DEF Tagged
    <2> QED
      BY <1>2, <2>3
  <1> QED
    BY <1>2, <1>3, <1>4

\* It is in order still.
LEMMA CutIsList ==
    ASSUME NEW v \in Lists, NEW k \in Cuts
    PROVE  Cut(v, k) \in Lists /\ Len(Cut(v, k)) = Len(v)
  <1> DEFINE u == Cut(v, k)
  <1>1. v \in Seq(Entry) /\ Ordered(v)
    BY DEF Lists
  <1>2. u \in Seq(Entry) /\ Len(u) = Len(v) /\ DOMAIN u = DOMAIN v
    BY <1>1, CutLen
  <1>3. \A i \in DOMAIN v :
            /\ i <= k * BlockEntries => u[i].tag = v[i].tag
            /\ ~(i <= k * BlockEntries) => u[i].tag = "none"
    <2> TAKE i \in DOMAIN v
    <2>1. i \in Nat /\ k * BlockEntries \in Nat
      BY <1>1, EdgeIs
    <2> DEFINE c == k * BlockEntries
    <2>2. /\ i < c => u[i] = v[i]
          /\ i = c => u[i] = [tag |-> v[i].tag, id |-> 0, perm |-> v[i].perm]
          /\ i > c => u[i] = [tag |-> "none", id |-> 0, perm |-> {}]
      BY <1>1, CutEntry
    <2> HIDE DEF u, c
    <2>3. /\ i <= c => u[i].tag = v[i].tag
          /\ ~(i <= c) => u[i].tag = "none"
      BY <2>1, <2>2 DEF c
    <2> QED
      BY <2>3 DEF c
  <1>4. 1 \in DOMAIN v /\ Tagged(v, "user_obj") = {1} /\ v[1].tag = "user_obj"
    <2>1. 1 \in DOMAIN v /\ Tagged(v, "user_obj") = {1}
      BY OwnerFirst
    <2> QED
      BY <2>1 DEF Tagged
  <1>5. 1 <= k * BlockEntries
    BY EdgeIs
  <1> HIDE DEF u
  <1>6. \A t : t # "none" => Tagged(u, t) \subseteq Tagged(v, t)
    BY <1>2, <1>3 DEF Tagged
  <1>7. Tagged(u, "user_obj") = {1}
    <2>1. u[1].tag = "user_obj" /\ 1 \in DOMAIN u
      BY <1>2, <1>3, <1>4, <1>5
    <2>2. Tagged(u, "user_obj") \subseteq Tagged(v, "user_obj")
      BY <1>6
    <2>3. 1 \in Tagged(u, "user_obj")
      BY <2>1 DEF Tagged
    <2> QED
      BY <1>4, <2>2, <2>3
  <1>8. \A t \in {"group_obj", "mask", "other"} : \A i, j \in Tagged(u, t) : i = j
    <2> SUFFICES ASSUME NEW t \in {"group_obj", "mask", "other"} PROVE \A i, j \in Tagged(u, t) : i = j
      OBVIOUS
    <2>1. Tagged(u, t) \subseteq Tagged(v, t)
      BY <1>6
    <2>2. \A i, j \in Tagged(v, t) : i = j
      BY <1>1 DEF Ordered
    <2> QED
      BY <2>1, <2>2
  <1>9. ASSUME NEW i \in DOMAIN u, NEW j \in DOMAIN u, i < j
        PROVE  Rank(u[i].tag) <= Rank(u[j].tag)
    <2>1. i \in Nat /\ j \in Nat /\ i \in DOMAIN v /\ j \in DOMAIN v /\ k * BlockEntries \in Nat
      BY <1>1, <1>2, EdgeIs
    <2>2. Rank(u[i].tag) \in 1 .. 7 /\ Rank("none") = 7
      BY <1>2, TagIs, RankIs
    <2>3. CASE j <= k * BlockEntries
      <3>1. u[i].tag = v[i].tag /\ u[j].tag = v[j].tag
        BY <1>3, <1>9, <2>1, <2>3
      <3>2. Rank(v[i].tag) <= Rank(v[j].tag)
        BY <1>1, <1>9, <2>1, InOrder
      <3> QED
        BY <3>1, <3>2
    <2>4. CASE ~(j <= k * BlockEntries)
      <3>1. u[j].tag = "none"
        BY <1>3, <2>1, <2>4
      <3> QED
        BY <2>2, <3>1
    <2> QED
      BY <2>3, <2>4
  <1>10. Ordered(u)
    <2>1. \A i, j \in DOMAIN u : i < j =>
             (CHOOSE r \in DOMAIN Tags : u[i].tag = Tags[r])
               <= (CHOOSE r \in DOMAIN Tags : u[j].tag = Tags[r])
      BY <1>9 DEF Rank
    <2>2. \E i \in DOMAIN u : Tagged(u, "user_obj") = {i}
      BY <1>2, <1>4, <1>7
    <2> QED
      BY <1>8, <2>1, <2>2 DEF Ordered
  <1> QED
    BY <1>2, <1>10 DEF Lists, u

\* A list is as many pages as it takes.
LEMMA PagesIs ==
    ASSUME NEW v \in Lists
    PROVE  Pages(v) \in Cuts /\ ValueLen(v) <= Pages(v) * BlockSize
  <1> DEFINE n == Len(v)
             S == {k \in 1 .. n + 1 : ValueLen(v) <= k * BlockSize}
  <1>1. n \in Nat /\ n + 1 \in Cuts /\ ValueLen(v) = 4 + 8 * n
    BY DEF Lists, ValueLen, Cuts
  <1> HIDE DEF n
  <1>2. n + 1 <= (n + 1) * BlockEntries /\ (n + 1) * BlockSize = 8 * ((n + 1) * BlockEntries)
        /\ (n + 1) * BlockEntries \in Nat
    BY <1>1, EdgeIs
  <1>3. n + 1 \in S
    BY <1>1, <1>2
  <1>4. S # {} /\ S \in SUBSET Nat
    BY <1>1, <1>3
  <1>5. Pages(v) = Min(S)
    BY DEF Pages, n
  <1> HIDE DEF S
  <1>6. Min(S) \in S
    BY <1>4, MinIsOne
  <1> QED
    BY <1>1, <1>5, <1>6 DEF S, Cuts

\* With as many pages as it takes a list is whole.
LEMMA CutWhole ==
    ASSUME NEW v \in Lists, NEW k \in Cuts, Pages(v) <= k
    PROVE  Cut(v, k) = v
  <1> DEFINE c == k * BlockEntries
  <1>1. v \in Seq(Entry) /\ Len(v) \in Nat /\ DOMAIN v = 1 .. Len(v) /\ v = [i \in DOMAIN v |-> v[i]]
    BY DEF Lists
  <1>2. Pages(v) \in Cuts /\ 4 + 8 * Len(v) <= Pages(v) * BlockSize
    BY PagesIs DEF ValueLen
  <1>3. Pages(v) * BlockSize = 8 * (Pages(v) * BlockEntries) /\ Pages(v) * BlockEntries <= c
        /\ Pages(v) * BlockEntries \in Nat /\ c \in Nat
    BY <1>2, EdgeIs
  <1> HIDE DEF c
  <1>4. Len(v) < c
    BY <1>1, <1>2, <1>3
  <1>5. \A i \in DOMAIN v : i < c
    BY <1>1, <1>3, <1>4
  <1>6. \A i \in DOMAIN v : Cut(v, k)[i] = v[i]
    BY <1>1, <1>5, CutEntry DEF c
  <1>7. Cut(v, k) \in Seq(Entry) /\ DOMAIN Cut(v, k) = DOMAIN v
    BY <1>1, CutLen
  <1>8. Cut(v, k) = [i \in DOMAIN Cut(v, k) |-> Cut(v, k)[i]]
    BY <1>7
  <1> QED
    BY <1>1, <1>6, <1>7, <1>8

\* A list that is cut twice is cut at the shorter end.
LEMMA CutTwice ==
    ASSUME NEW v \in Lists, NEW j \in Cuts, NEW k \in Cuts
    PROVE  Cut(Cut(v, j), k) = Cut(v, IF j <= k THEN j ELSE k)
  <1> DEFINE u == Cut(v, j)
             l == IF j <= k THEN j ELSE k
             w == Cut(u, k)
             x == Cut(v, l)
             a == j * BlockEntries
             b == k * BlockEntries
             c == l * BlockEntries
  <1>1. v \in Seq(Entry) /\ l \in Cuts
    BY DEF Lists
  <1>2. u \in Seq(Entry) /\ DOMAIN u = DOMAIN v
    BY <1>1, CutLen
  <1>3. w \in Seq(Entry) /\ DOMAIN w = DOMAIN v
    BY <1>2, CutLen
  <1>4. x \in Seq(Entry) /\ DOMAIN x = DOMAIN v
    BY <1>1, CutLen
  <1>5. a \in Nat /\ b \in Nat /\ c = IF a <= b THEN a ELSE b
    <2>1. a \in Nat /\ b \in Nat
      BY EdgeIs
    <2>2. CASE j <= k
      BY <2>1, <2>2, EdgeIs
    <2>3. CASE ~(j <= k)
      <3>1. k <= j
        BY <2>3 DEF Cuts
      <3>2. b <= a
        BY <3>1, EdgeIs
      <3> QED
        BY <2>1, <2>3, <3>2
    <2> QED
      BY <2>2, <2>3
  <1>6. ASSUME NEW i \in DOMAIN v PROVE w[i] = x[i]
    <2> DEFINE none == [tag |-> "none", id |-> 0, perm |-> {}]
               half(e) == [tag |-> e.tag, id |-> 0, perm |-> e.perm]
    <2>1. i \in Nat
      BY <1>1
    <2>2. /\ i < a => u[i] = v[i]
          /\ i = a => u[i] = half(v[i])
          /\ i > a => u[i] = none
      BY <1>1, CutEntry
    <2>3. /\ i < b => w[i] = u[i]
          /\ i = b => w[i] = half(u[i])
          /\ i > b => w[i] = none
      BY <1>2, CutEntry
    <2>4. /\ i < c => x[i] = v[i]
          /\ i = c => x[i] = half(v[i])
          /\ i > c => x[i] = none
      BY <1>1, CutEntry
    <2>5. half(half(v[i])) = half(v[i]) /\ half(none) = none
      OBVIOUS
    <2> HIDE DEF u, w, x, a, b, c, none, half
    <2> QED
      BY <1>5, <2>1, <2>2, <2>3, <2>4, <2>5
  <1> HIDE DEF u, w, x
  <1>7. w = [i \in DOMAIN w |-> w[i]] /\ x = [i \in DOMAIN x |-> x[i]]
    BY <1>3, <1>4
  <1>8. w = x
    BY <1>3, <1>4, <1>6, <1>7
  <1> QED
    BY <1>8 DEF w, x, u

\* A list reads as another one up to some block.
IsCut(u, v) == \E k \in Cuts : u = Cut(v, k)

\* So it does as itself, and by way of a third one.
LEMMA IsCutSelf ==
    ASSUME NEW v \in Lists
    PROVE  IsCut(v, v)
  <1>1. Pages(v) \in Cuts /\ Pages(v) <= Pages(v)
    BY PagesIs DEF Cuts
  <1> QED
    BY <1>1, CutWhole DEF IsCut

LEMMA IsCutTwice ==
    ASSUME NEW v \in Lists, NEW u, NEW w, IsCut(u, v), IsCut(w, u)
    PROVE  IsCut(w, v)
  <1>1. PICK j \in Cuts : u = Cut(v, j)
    BY DEF IsCut
  <1>2. PICK k \in Cuts : w = Cut(u, k)
    BY DEF IsCut
  <1>3. w = Cut(v, IF j <= k THEN j ELSE k)
    BY <1>1, <1>2, CutTwice
  <1> QED
    BY <1>3 DEF IsCut

\* A map reads as another one, with values that are cut.
ReadsAs(c, a) == DOMAIN c = DOMAIN a /\ \A x \in DOMAIN a : IsCut(c[x], a[x])

Maps == Parts(AttrNames, Lists)

\* The values of a map.
LEMMA MapIs ==
    ASSUME NEW m \in Maps
    PROVE  DOMAIN m \subseteq AttrNames /\ \A x \in DOMAIN m : m[x] \in Lists
  BY PartsIs DEF Maps

\* So it does as itself, by way of a third one, and after both were changed in
\* the same way.
LEMMA ReadsAsSelf ==
    ASSUME NEW a \in Maps
    PROVE  ReadsAs(a, a)
  BY MapIs, IsCutSelf DEF ReadsAs

LEMMA ReadsAsTwice ==
    ASSUME NEW a \in Maps, NEW c, NEW d, ReadsAs(c, a), ReadsAs(d, c)
    PROVE  ReadsAs(d, a)
  <1>1. DOMAIN d = DOMAIN a
    BY DEF ReadsAs
  <1>2. ASSUME NEW x \in DOMAIN a PROVE IsCut(d[x], a[x])
    <2>1. a[x] \in Lists
      BY MapIs
    <2>2. IsCut(c[x], a[x]) /\ IsCut(d[x], c[x])
      BY DEF ReadsAs
    <2> QED
      BY <2>1, <2>2, IsCutTwice
  <1> QED
    BY <1>1, <1>2 DEF ReadsAs

LEMMA ReadsAsPut ==
    ASSUME NEW a, NEW c, ReadsAs(c, a), NEW n, NEW v \in Lists
    PROVE  ReadsAs(Put(c, n, v), Put(a, n, v))
  <1>1. IsCut(v, v)
    BY IsCutSelf
  <1> QED
    BY <1>1 DEF ReadsAs, Put

LEMMA ReadsAsWithout ==
    ASSUME NEW a, NEW c, ReadsAs(c, a), NEW S
    PROVE  ReadsAs(Without(c, S), Without(a, S))
  BY DEF ReadsAs, Without, Restrict

-----------------------------------------------------------------------------
(* Images. *)

\* an entry of a block has a value, or the EA inode that has it
Item == {i \in [val : Lists \cup {<<>>}, ea : EaInodes \cup {Inline}] : i.ea = Inline => i.val \in Lists}
Items == Parts(AttrNames, Item)

EaRec == [val : Lists, blocks : SUBSET Blocks]
Eas == Parts(EaInodes, EaRec)

FileRec == [live : BOOLEAN, mode : ModeType, body : Maps, block : Blocks \cup {NoBlock}, charge : Int]

Image == [file : [Files -> FileRec], block : Parts(Blocks, Items), ea : Eas, ok : BOOLEAN]

\* the blocks and inodes a file refers to, and those in use
Refs(s, o) == EasOf(s, o) \cup ({s.file[o].block} \ {NoBlock})
InUse(s) == DOMAIN s.block \cup DOMAIN s.ea

\* what a file refers to is there, and its attributes are in one place
Placed(s, o) ==
    /\ s.file[o].block \in DOMAIN s.block \cup {NoBlock}
    /\ EasOf(s, o) \subseteq DOMAIN s.ea
    /\ s.file[o].block # NoBlock => s.file[o].body = <<>> /\ Held(s, o) # <<>>

\* a live file is charged for it, another has nothing
Charged(s, o) ==
    IF s.file[o].live
    THEN s.file[o].charge = UnitsIn(EasOf(s, o), s.ea) + (IF s.file[o].block = NoBlock THEN 0 ELSE BlockUnits)
    ELSE s.file[o].block = NoBlock

Apart(s) == \A o, p \in Files : o # p => Refs(s, o) \cap Refs(s, p) = {}

\* gone: what removed files left
Accounted(s, gone) ==
    /\ InUse(s) = (UNION {Refs(s, o) : o \in Files}) \cup gone
    /\ \A o \in Files : Refs(s, o) \cap gone = {}

\* a block is for the attributes of a file or for one value
Disjoint(s) ==
    \A e \in DOMAIN s.ea :
        /\ s.ea[e].blocks \cap DOMAIN s.block = {}
        /\ \A f \in DOMAIN s.ea \ {e} : s.ea[e].blocks \cap s.ea[f].blocks = {}

Sound(s, gone) ==
    /\ s \in Image /\ s.ok /\ Disjoint(s)
    /\ \A o \in Files : Placed(s, o) /\ Charged(s, o)
    /\ Apart(s) /\ Accounted(s, gone)

\* What a step on file o does: it gives up what the file refers to, takes what
\* nothing else refers to, and leaves the rest alone.
Swap(s, r, o) ==
    /\ r \in Image /\ r.ok /\ Disjoint(r)
    /\ \A p \in Files \ {o} : r.file[p] = s.file[p]
    /\ \A b \in DOMAIN s.block \ Refs(s, o) : b \in DOMAIN r.block /\ r.block[b] = s.block[b]
    /\ \A e \in DOMAIN s.ea \ Refs(s, o) : e \in DOMAIN r.ea /\ r.ea[e] = s.ea[e]
    /\ InUse(r) = (InUse(s) \ Refs(s, o)) \cup Refs(r, o)
    /\ Refs(r, o) \cap (InUse(s) \ Refs(s, o)) = {}
    /\ Placed(r, o) /\ Charged(r, o)

\* The constants, as the proofs use them.
LEMMA NumbersApart ==
    /\ NoBlock \notin Blocks /\ Inline \notin EaInodes /\ Blocks \cap EaInodes = {}
    /\ BlockUnits \in Nat /\ Blocks \in SUBSET Nat
  BY XattrConstants DEF NoBlock, Inline

\* The units of an EA inode are a number.
LEMMA UnitsOfRec ==
    ASSUME NEW x \in EaRec
    PROVE  EaUnits(x) \in Nat
  <1>1. x.blocks \subseteq Blocks
    BY DEF EaRec
  <1>2. IsFiniteSet(x.blocks)
    BY <1>1, FS_Subset, XattrConstants
  <1>3. Cardinality(x.blocks) \in Nat
    BY <1>2, FS_CardinalityType
  <1>4. \A a, b \in Nat : a * b \in Nat
    OBVIOUS
  <1> QED
    BY <1>3, <1>4, NumbersApart DEF EaUnits

\* What is in use, one by one.
LEMMA AccountedIs ==
    ASSUME NEW s, NEW gone
    PROVE  Accounted(s, gone) <=>
               /\ gone \subseteq InUse(s)
               /\ \A o \in Files : Refs(s, o) \subseteq InUse(s) /\ Refs(s, o) \cap gone = {}
               /\ \A x \in InUse(s) \ gone : \E o \in Files : x \in Refs(s, o)
  <1> DEFINE all == UNION {Refs(s, o) : o \in Files}
  <1>1. \A x : x \in all <=> \E o \in Files : x \in Refs(s, o)
    OBVIOUS
  <1>2. Accounted(s, gone) <=> InUse(s) = all \cup gone /\ \A o \in Files : Refs(s, o) \cap gone = {}
    BY DEF Accounted
  <1> HIDE DEF all
  <1>3. ASSUME Accounted(s, gone), NEW o \in Files PROVE Refs(s, o) \subseteq InUse(s)
    BY <1>1, <1>2, <1>3
  <1>4. ASSUME Accounted(s, gone)
        PROVE  gone \subseteq InUse(s) /\ \A x \in InUse(s) \ gone : \E o \in Files : x \in Refs(s, o)
    BY <1>1, <1>2, <1>4
  <1>5. ASSUME gone \subseteq InUse(s), \A o \in Files : Refs(s, o) \subseteq InUse(s),
               \A x \in InUse(s) \ gone : \E o \in Files : x \in Refs(s, o)
        PROVE  InUse(s) = all \cup gone
    BY <1>1, <1>5
  <1> QED
    BY <1>2, <1>3, <1>4, <1>5

\* The block of a file and the inodes of its values.
LEMMA HeldIs ==
    ASSUME NEW s \in Image, NEW o \in Files, s.file[o].block \in DOMAIN s.block \cup {NoBlock}
    PROVE  Held(s, o) \in Items /\ (s.file[o].block = NoBlock => Held(s, o) = <<>>)
  <1>1. s.block \in Parts(Blocks, Items)
    BY DEF Image
  <1>2. <<>> \in Items
    BY NoneIsPart DEF Items
  <1> QED
    BY <1>1, <1>2, PartsIs DEF Held

\* The EA inodes of a file are finitely many, and those its entries name.
LEMMA EasAre ==
    ASSUME NEW s \in Image, NEW o \in Files, s.file[o].block \in DOMAIN s.block \cup {NoBlock}
    PROVE  /\ EasOf(s, o) \subseteq EaInodes /\ IsFiniteSet(EasOf(s, o))
           /\ s.file[o].block = NoBlock => EasOf(s, o) = {}
           /\ \A n \in DOMAIN Held(s, o) :
                 /\ Held(s, o)[n] \in Item
                 /\ Held(s, o)[n].ea # Inline => Held(s, o)[n].ea \in EasOf(s, o)
  <1>1. Held(s, o) \in Items /\ (s.file[o].block = NoBlock => DOMAIN Held(s, o) = {})
    BY HeldIs, NoneIsPart
  <1>2. \A n \in DOMAIN Held(s, o) : Held(s, o)[n] \in Item
    BY <1>1, PartsIs DEF Items
  <1>3. EasOf(s, o) \subseteq EaInodes
    BY <1>2 DEF EasOf, Item
  <1>4. IsFiniteSet(EasOf(s, o))
    BY <1>3, FS_Subset, XattrConstants
  <1> QED
    BY <1>1, <1>2, <1>3, <1>4 DEF EasOf

\* The units of a set of inodes in use.
LEMMA UnitsKept ==
    ASSUME NEW s \in Image, NEW ea, NEW S \in SUBSET DOMAIN s.ea, \A e \in S : ea[e] = s.ea[e]
    PROVE  UnitsIn(S, ea) = UnitsIn(S, s.ea) /\ UnitsIn(S, s.ea) \in Nat
  <1>1. s.ea \in Eas
    BY DEF Image
  <1>2. S \subseteq EaInodes /\ \A e \in S : s.ea[e] \in EaRec
    BY <1>1, PartsIs DEF Eas
  <1>3. IsFiniteSet(S)
    BY <1>2, FS_Subset, XattrConstants
  <1>4. \A e \in S : s.ea[e] = ea[e] /\ EaUnits(s.ea[e]) \in Nat
    BY <1>2, UnitsOfRec
  <1> HIDE DEF Image
  <1> QED
    BY <1>3, <1>4, UnitsInSame

\* What a file has, name by name.
LEMMA CollectedIs ==
    ASSUME NEW s \in Image, NEW o \in Files, Placed(s, o)
    PROVE  /\ Collected(s, o) \in Maps
           /\ DOMAIN Collected(s, o) = DOMAIN s.file[o].body \cup DOMAIN Held(s, o)
           /\ \A n \in DOMAIN s.file[o].body : Collected(s, o)[n] = s.file[o].body[n]
           /\ \A n \in DOMAIN Held(s, o) \ DOMAIN s.file[o].body :
                 Collected(s, o)[n] = IF Held(s, o)[n].ea = Inline THEN Held(s, o)[n].val
                                      ELSE s.ea[Held(s, o)[n].ea].val
  <1> DEFINE h == [n \in DOMAIN Held(s, o) |->
                     LET item == Held(s, o)[n]
                     IN  IF item.ea = Inline THEN item.val ELSE s.ea[item.ea].val]
  <1>1. s.file[o].body \in Maps /\ s.ea \in Eas
    BY DEF Image, FileRec
  <1>2. \A e \in DOMAIN s.ea : s.ea[e].val \in Lists
    <2>1. \A e \in DOMAIN s.ea : s.ea[e] \in EaRec
      BY <1>1, PartsIs DEF Eas
    <2> QED
      BY <2>1 DEF EaRec
  <1>3. Held(s, o) \in Items
    BY HeldIs DEF Placed
  <1>4. DOMAIN Held(s, o) \subseteq AttrNames
    BY <1>3, PartsIs DEF Items
  <1>5. \A n \in DOMAIN Held(s, o) : Held(s, o)[n] \in Item /\
            (Held(s, o)[n].ea # Inline => Held(s, o)[n].ea \in DOMAIN s.ea)
    BY EasAre DEF Placed
  <1>6. \A n \in DOMAIN Held(s, o) : h[n] \in Lists
    BY <1>2, <1>5 DEF Item
  <1>7. DOMAIN h = DOMAIN Held(s, o) /\ h = [n \in DOMAIN h |-> h[n]]
    OBVIOUS
  <1>8. \A n \in DOMAIN Held(s, o) :
            h[n] = IF Held(s, o)[n].ea = Inline THEN Held(s, o)[n].val ELSE s.ea[Held(s, o)[n].ea].val
    OBVIOUS
  <1>9. Collected(s, o) = Over(s.file[o].body, h)
    BY DEF Collected
  <1> HIDE DEF h
  <1>10. h \in Maps
    BY <1>4, <1>6, <1>7, PartsIs DEF Maps
  <1> DEFINE body == s.file[o].body
  <1>0. body \in Parts(AttrNames, Lists) /\ h \in Parts(AttrNames, Lists)
    BY <1>1, <1>10 DEF Maps
  <1> HIDE DEF body
  <1>11. Over(body, h) \in Parts(AttrNames, Lists)
    BY <1>0, OverIsPart
  <1>12. /\ DOMAIN Over(body, h) = DOMAIN body \cup DOMAIN h
         /\ \A n \in DOMAIN body : Over(body, h)[n] = body[n]
         /\ \A n \in DOMAIN h \ DOMAIN body : Over(body, h)[n] = h[n]
    BY OverIs
  <1>13. Collected(s, o) \in Maps
    BY <1>9, <1>11 DEF Maps, body
  <1> QED
    BY <1>7, <1>8, <1>9, <1>12, <1>13 DEF body

\* The names alone, a value of the body, and one of the block.
LEMMA CollectedNames ==
    ASSUME NEW s \in Image, NEW o \in Files, Placed(s, o)
    PROVE  /\ Collected(s, o) \in Maps
           /\ DOMAIN Collected(s, o) = DOMAIN s.file[o].body \cup DOMAIN Held(s, o)
  BY CollectedIs

LEMMA CollectedBody ==
    ASSUME NEW s \in Image, NEW o \in Files, Placed(s, o), NEW n \in DOMAIN s.file[o].body
    PROVE  Collected(s, o)[n] = s.file[o].body[n]
  BY CollectedIs

LEMMA CollectedHeld ==
    ASSUME NEW s \in Image, NEW o \in Files, Placed(s, o),
           NEW n \in DOMAIN Held(s, o), n \notin DOMAIN s.file[o].body
    PROVE  Collected(s, o)[n] = IF Held(s, o)[n].ea = Inline THEN Held(s, o)[n].val
                                ELSE s.ea[Held(s, o)[n].ea].val
  <1>1. n \in DOMAIN Held(s, o) \ DOMAIN s.file[o].body
    OBVIOUS
  <1> QED
    BY <1>1, CollectedIs

-----------------------------------------------------------------------------
(* Steps on one file. *)

\* The others keep what they have.
LEMMA SwapOthers ==
    ASSUME NEW s, NEW gone, Sound(s, gone), NEW r, NEW o \in Files, Swap(s, r, o),
           NEW p \in Files, p # o
    PROVE  /\ r.file[p] = s.file[p] /\ Held(r, p) = Held(s, p) /\ EasOf(r, p) = EasOf(s, p)
           /\ Refs(r, p) = Refs(s, p) /\ Collected(r, p) = Collected(s, p)
           /\ Placed(r, p) /\ Charged(r, p)
  <1>1. r.file[p] = s.file[p] /\ r \in Image /\ s \in Image
    BY DEF Swap, Sound
  <1>2. Placed(s, p) /\ Charged(s, p) /\ Refs(s, p) \cap Refs(s, o) = {}
    BY DEF Sound, Apart
  <1>3. s.file[p].block # NoBlock => s.file[p].block \in DOMAIN s.block \ Refs(s, o)
    BY <1>2 DEF Placed, Refs
  <1>4. s.file[p].block # NoBlock =>
            s.file[p].block \in DOMAIN r.block /\ r.block[s.file[p].block] = s.block[s.file[p].block]
    BY <1>3 DEF Swap
  <1>5. Held(r, p) = Held(s, p)
    BY <1>1, <1>4 DEF Held
  <1>6. EasOf(r, p) = EasOf(s, p)
    BY <1>5 DEF EasOf
  <1>7. Refs(r, p) = Refs(s, p)
    BY <1>1, <1>6 DEF Refs
  <1>8. EasOf(s, p) \subseteq DOMAIN s.ea \ Refs(s, o)
    BY <1>2 DEF Placed, Refs
  <1>9. \A e \in EasOf(s, p) : e \in DOMAIN r.ea /\ r.ea[e] = s.ea[e]
    BY <1>8 DEF Swap
  <1>10. Placed(r, p)
    <2>1. s.file[p].block \in DOMAIN r.block \cup {NoBlock}
      BY <1>2, <1>4 DEF Placed
    <2>2. EasOf(r, p) \subseteq DOMAIN r.ea
      BY <1>6, <1>9
    <2> QED
      BY <1>1, <1>2, <1>5, <2>1, <2>2 DEF Placed
  <1>11. Charged(r, p)
    <2>1. UnitsIn(EasOf(s, p), r.ea) = UnitsIn(EasOf(s, p), s.ea)
      BY <1>1, <1>2, <1>9, UnitsKept DEF Placed
    <2> QED
      BY <1>1, <1>2, <1>6, <2>1 DEF Charged
  <1>12. Collected(r, p) = Collected(s, p)
    <2>0. /\ DOMAIN Collected(s, p) = DOMAIN s.file[p].body \cup DOMAIN Held(s, p)
          /\ Collected(s, p) \in Maps
      BY <1>1, <1>2, CollectedNames
    <2>1. /\ DOMAIN Collected(r, p) = DOMAIN r.file[p].body \cup DOMAIN Held(r, p)
          /\ Collected(r, p) \in Maps
      BY <1>1, <1>10, CollectedNames
    <2>2. ASSUME NEW n \in DOMAIN Collected(s, p) PROVE Collected(r, p)[n] = Collected(s, p)[n]
      <3>1. CASE n \in DOMAIN s.file[p].body
        <4>0. n \in DOMAIN r.file[p].body
          BY <1>1, <3>1
        <4>1. Collected(r, p)[n] = r.file[p].body[n]
          BY <1>1, <1>10, <4>0, CollectedBody
        <4>2. Collected(s, p)[n] = s.file[p].body[n]
          BY <1>1, <1>2, <3>1, CollectedBody
        <4> QED
          BY <1>1, <4>1, <4>2
      <3>2. CASE n \notin DOMAIN s.file[p].body
        <4>1. n \in DOMAIN Held(s, p) \ DOMAIN s.file[p].body
          BY <2>0, <3>2
        <4>2. Held(s, p)[n].ea # Inline => r.ea[Held(s, p)[n].ea] = s.ea[Held(s, p)[n].ea]
          BY <1>1, <1>2, <1>9, <4>1, EasAre DEF Placed
        <4>3. Collected(s, p)[n] = IF Held(s, p)[n].ea = Inline THEN Held(s, p)[n].val
                                   ELSE s.ea[Held(s, p)[n].ea].val
          BY <1>1, <1>2, <4>1, CollectedHeld
        <4>4. Collected(r, p)[n] = IF Held(r, p)[n].ea = Inline THEN Held(r, p)[n].val
                                   ELSE r.ea[Held(r, p)[n].ea].val
          <5>1. n \in DOMAIN Held(r, p) /\ n \notin DOMAIN r.file[p].body
            BY <1>1, <1>5, <4>1
          <5> QED
            BY <1>1, <1>10, <5>1, CollectedHeld
        <4> QED
          BY <1>5, <4>2, <4>3, <4>4
      <3> QED
        BY <3>1, <3>2
    <2>3. DOMAIN Collected(r, p) = DOMAIN Collected(s, p)
      BY <1>1, <1>5, <2>0, <2>1
    <2> QED
      BY <2>0, <2>1, <2>2, <2>3, PartsSame DEF Maps
  <1> QED
    BY <1>1, <1>5, <1>6, <1>7, <1>10, <1>11, <1>12

\* The image stays sound, and what removed files left stays apart.
LEMMA SwapSound ==
    ASSUME NEW s, NEW gone, Sound(s, gone), NEW r, NEW o \in Files, Swap(s, r, o)
    PROVE  Sound(r, gone)
  <1>1. r \in Image /\ r.ok
    BY DEF Swap
  <1>0. Disjoint(r)
    BY DEF Swap
  <1>2. \A p \in Files : Placed(r, p) /\ Charged(r, p)
    <2>1. Placed(r, o) /\ Charged(r, o)
      BY DEF Swap
    <2> QED
      BY <2>1, SwapOthers
  <1>3. \A p \in Files : p # o => Refs(r, p) = Refs(s, p)
    BY SwapOthers
  <1>4. /\ InUse(r) = (InUse(s) \ Refs(s, o)) \cup Refs(r, o)
        /\ Refs(r, o) \cap (InUse(s) \ Refs(s, o)) = {}
    BY DEF Swap
  <1>5. /\ gone \subseteq InUse(s)
        /\ \A p \in Files : Refs(s, p) \subseteq InUse(s) /\ Refs(s, p) \cap gone = {}
        /\ \A x \in InUse(s) \ gone : \E p \in Files : x \in Refs(s, p)
        /\ \A p, q \in Files : p # q => Refs(s, p) \cap Refs(s, q) = {}
    BY AccountedIs DEF Sound, Apart
  <1>6. \A p \in Files : p # o => Refs(s, p) \subseteq InUse(s) \ Refs(s, o)
    BY <1>5
  <1>7. \A p \in Files : p # o => Refs(r, o) \cap Refs(r, p) = {}
    BY <1>3, <1>4, <1>6
  <1>8. Apart(r)
    <2> SUFFICES ASSUME NEW p \in Files, NEW q \in Files, p # q
                 PROVE  Refs(r, p) \cap Refs(r, q) = {}
      BY DEF Apart
    <2>1. CASE p = o
      BY <1>7, <2>1
    <2>2. CASE q = o
      BY <1>7, <2>2
    <2>3. CASE p # o /\ q # o
      BY <1>3, <1>5, <2>3
    <2> QED
      BY <2>1, <2>2, <2>3
  <1>9. gone \subseteq InUse(s) \ Refs(s, o)
    BY <1>5
  <1>10. \A p \in Files : Refs(r, p) \cap gone = {}
    BY <1>3, <1>4, <1>5, <1>9
  <1>11. ASSUME NEW x \in InUse(r) \ gone PROVE \E p \in Files : x \in Refs(r, p)
    <2>1. CASE x \in Refs(r, o)
      BY <2>1
    <2>2. CASE x \notin Refs(r, o)
      <3>1. x \in InUse(s) \ Refs(s, o)
        BY <1>4, <2>2
      <3>2. PICK p \in Files : x \in Refs(s, p)
        BY <1>5, <3>1
      <3> QED
        BY <1>3, <3>1, <3>2
    <2> QED
      BY <2>1, <2>2
  <1>12. gone \subseteq InUse(r)
    BY <1>4, <1>9
  <1>13. \A p \in Files : Refs(r, p) \subseteq InUse(r)
    BY <1>3, <1>4, <1>6
  <1>14. Accounted(r, gone)
    BY <1>10, <1>11, <1>12, <1>13, AccountedIs
  <1> QED
    BY <1>0, <1>1, <1>2, <1>8, <1>14 DEF Sound

-----------------------------------------------------------------------------
(* Writing the body, and freeing the block. *)

\* The others keep what they have, and the file its fields.
Leaves(s, r, o, gone) ==
    /\ Sound(r, gone)
    /\ \A p \in Files \ {o} : r.file[p] = s.file[p] /\ Collected(r, p) = Collected(s, p)
    /\ r.file[o].live = s.file[o].live /\ r.file[o].mode = s.file[o].mode

\* A swap on one file leaves the others.
LEMMA SwapLeaves ==
    ASSUME NEW s, NEW gone, Sound(s, gone), NEW r, NEW o \in Files, Swap(s, r, o),
           r.file[o].live = s.file[o].live, r.file[o].mode = s.file[o].mode
    PROVE  Leaves(s, r, o, gone)
  BY SwapSound, SwapOthers DEF Leaves

\* write_ibody_attrs: a file without a block has what is written to its body.
LEMMA WriteBodyDoes ==
    ASSUME NEW s, NEW gone, Sound(s, gone), NEW o \in Files, NEW m \in Maps,
           s.file[o].block = NoBlock \/ m = <<>>
    PROVE  /\ Leaves(s, WriteBody(s, o, m), o, gone)
           /\ WriteBody(s, o, m).file[o].body = m
           /\ WriteBody(s, o, m).file[o].block = s.file[o].block
           /\ s.file[o].block = NoBlock => Collected(WriteBody(s, o, m), o) = m
           /\ FreeBlocks(WriteBody(s, o, m)) = FreeBlocks(s)
  <1> DEFINE n == [s.file[o] EXCEPT !.body = m]
             r == WriteBody(s, o, m)
  <1>1. s \in Image /\ s.file[o] \in FileRec /\ s.ok
    BY DEF Sound, Image
  <1>2. /\ n \in FileRec /\ n.body = m /\ n.block = s.file[o].block /\ n.charge = s.file[o].charge
        /\ n.live = s.file[o].live /\ n.mode = s.file[o].mode
    BY <1>1 DEF FileRec
  <1>3. r = [s EXCEPT !.file[o] = n]
    BY <1>1 DEF WriteBody, Image, FileRec
  <1> HIDE DEF n, r
  <1>4. /\ r \in Image /\ r.ok /\ r.block = s.block /\ r.ea = s.ea
        /\ r.file[o] = n /\ \A p \in Files \ {o} : r.file[p] = s.file[p]
    BY <1>1, <1>2, <1>3 DEF Image
  <1>5. Held(r, o) = Held(s, o) /\ EasOf(r, o) = EasOf(s, o) /\ Refs(r, o) = Refs(s, o)
    <2>1. Held(r, o) = Held(s, o)
      BY <1>2, <1>4 DEF Held
    <2>2. EasOf(r, o) = EasOf(s, o)
      BY <2>1 DEF EasOf
    <2> QED
      BY <1>2, <1>4, <2>1, <2>2 DEF Refs
  <1>6. Placed(s, o) /\ Charged(s, o)
    BY DEF Sound
  <1>7. Placed(r, o)
    BY <1>2, <1>4, <1>5, <1>6 DEF Placed
  <1>8. Charged(r, o)
    BY <1>2, <1>4, <1>5, <1>6 DEF Charged
  <1>9. Refs(s, o) \subseteq InUse(s)
    BY AccountedIs DEF Sound
  <1>10. InUse(r) = InUse(s)
    BY <1>4 DEF InUse
  <1>0. Disjoint(r)
    BY <1>4 DEF Sound, Disjoint
  <1>11. Swap(s, r, o)
    BY <1>0, <1>4, <1>5, <1>7, <1>8, <1>9, <1>10 DEF Swap
  <1>12. Leaves(s, r, o, gone)
    BY <1>2, <1>4, <1>11, SwapLeaves
  <1>13. ASSUME s.file[o].block = NoBlock PROVE Collected(r, o) = m
    <2>1. DOMAIN Held(r, o) = {}
      BY <1>4, <1>2, <1>13, HeldIs, NoneIsPart
    <2>2. r.file[o].body = m
      BY <1>2, <1>4
    <2>3. Collected(r, o) \in Maps /\ DOMAIN Collected(r, o) = DOMAIN m
      BY <1>4, <1>7, <2>1, <2>2, CollectedNames
    <2>4. \A x \in DOMAIN m : Collected(r, o)[x] = m[x]
      BY <1>4, <1>7, <2>2, CollectedBody
    <2> QED
      BY <2>3, <2>4, PartsSame DEF Maps
  <1>14. FreeBlocks(r) = FreeBlocks(s)
    BY <1>4 DEF FreeBlocks
  <1> QED
    BY <1>2, <1>4, <1>12, <1>13, <1>14 DEF r

\* A file that is charged for another block.
LEMMA ChargeIs ==
    ASSUME NEW f \in FileRec, NEW b \in Blocks \cup {NoBlock}, NEW u \in Int
    PROVE  /\ Charge(f, b, u) \in FileRec
           /\ Charge(f, b, u).block = b /\ Charge(f, b, u).charge = u
           /\ Charge(f, b, u).body = f.body
           /\ Charge(f, b, u).live = f.live /\ Charge(f, b, u).mode = f.mode
  BY DEF FileRec, Charge

\* free_xattr_block: the block and its EA inodes are given back, the charge with them.
LEMMA FreeBlockDoes ==
    ASSUME NEW s, NEW gone, Sound(s, gone), NEW o \in Files, s.file[o].live, s.file[o].body = <<>>
    PROVE  Leaves(s, FreeBlock(s, o), o, gone) /\ Collected(FreeBlock(s, o), o) = <<>>
  <1>1. s \in Image /\ s.ok /\ Placed(s, o) /\ Charged(s, o)
    BY DEF Sound
  <1>2. s.file[o] \in FileRec
    BY <1>1 DEF Image
  <1>3. CASE s.file[o].block = NoBlock
    <2>1. FreeBlock(s, o) = s
      BY <1>3 DEF FreeBlock
    <2>2. DOMAIN Collected(s, o) = {} /\ Collected(s, o) \in Maps
      <3>1. DOMAIN Held(s, o) = {} /\ DOMAIN s.file[o].body = {}
        BY <1>1, <1>3, NoneIsPart DEF Held
      <3> QED
        BY <1>1, <3>1, CollectedNames
    <2>3. Collected(s, o) = <<>>
      BY <2>2, NoneIsPart, PartsSame DEF Maps
    <2> QED
      BY <2>1, <2>3 DEF Leaves
  <1>4. CASE s.file[o].block # NoBlock
    <2> DEFINE own == s.file[o].block
               units == UnitsOf(s, EasOf(s, o))
               charge == Max({s.file[o].charge - units, 0}) - BlockUnits
               n == Charge(s.file[o], NoBlock, charge)
               t == FreeEas(s, o)
               blocks == Without(s.block, {own})
               eas == Without(s.ea, EasOf(s, o))
               r == FreeBlock(s, o)
    <2>1. charge = 0
      <3>1. s.file[o].charge = units + BlockUnits
        BY <1>1, <1>4, UnitsOfIs DEF Charged
      <3>2. units \in Nat
        BY <1>1, UnitsKept, UnitsOfIs DEF Placed
      <3> HIDE DEF units
      <3>3. s.file[o].charge - units = BlockUnits
        BY <3>1, <3>2, NumbersApart
      <3>4. Max({s.file[o].charge - units, 0}) = BlockUnits
        BY <3>3, NumbersApart, MaxOfTwo
      <3> QED
        BY <3>4, NumbersApart
    <2>2. t = [s EXCEPT !.ea = eas]
      BY DEF FreeEas
    <2>3. r = [t EXCEPT !.block = blocks, !.file[o] = n]
      <3> DEFINE all == [t EXCEPT !.block = Without(@, {own}),
                                  !.file[o] = Charge(@, NoBlock, Max({@.charge - units, 0}) - BlockUnits)]
      <3>1. r = IF own = NoBlock THEN s ELSE all
        BY DEF FreeBlock
      <3>2. t.file = s.file /\ t.block = s.block
        BY <1>1, <2>2 DEF Image
      <3> HIDE DEF t, units
      <3>3. all = [t EXCEPT !.block = blocks, !.file[o] = n]
        BY <3>2
      <3> QED
        BY <1>4, <3>1, <3>3
    <2>4. /\ n \in FileRec /\ n.block = NoBlock /\ n.charge = 0 /\ n.body = <<>>
          /\ n.live = s.file[o].live /\ n.mode = s.file[o].mode
      <3>1. charge \in Int /\ NoBlock \in Blocks \cup {NoBlock}
        BY <2>1
      <3> DEFINE f == s.file[o]
      <3>2. f \in FileRec /\ f.body = <<>>
        BY <1>2
      <3> HIDE DEF charge, f
      <3>3. /\ Charge(f, NoBlock, charge) \in FileRec /\ Charge(f, NoBlock, charge).body = f.body
            /\ Charge(f, NoBlock, charge).block = NoBlock /\ Charge(f, NoBlock, charge).charge = charge
        BY <3>1, <3>2, ChargeIs
      <3>4. Charge(f, NoBlock, charge).live = f.live /\ Charge(f, NoBlock, charge).mode = f.mode
        BY <3>1, <3>2, ChargeIs
      <3> QED
        BY <2>1, <3>2, <3>3, <3>4 DEF f
    <2>5. blocks \in Parts(Blocks, Items) /\ eas \in Eas
      BY <1>1, WithoutIsPart DEF Image, Eas
    <2>6. /\ DOMAIN blocks = DOMAIN s.block \ {own} /\ DOMAIN eas = DOMAIN s.ea \ EasOf(s, o)
          /\ \A b \in DOMAIN s.block \ {own} : blocks[b] = s.block[b]
          /\ \A e \in DOMAIN s.ea \ EasOf(s, o) : eas[e] = s.ea[e]
      BY WithoutIs
    <2> HIDE DEF n, r, t, blocks, eas
    <2>7. /\ r \in Image /\ r.ok /\ r.block = blocks /\ r.ea = eas
          /\ r.file[o] = n /\ \A p \in Files \ {o} : r.file[p] = s.file[p]
      BY <1>1, <2>2, <2>3, <2>4, <2>5 DEF Image
    <2>8. Held(r, o) = <<>> /\ EasOf(r, o) = {} /\ Refs(r, o) = {}
      <3>1. Held(r, o) = <<>>
        BY <2>4, <2>7 DEF Held
      <3>2. EasOf(r, o) = {}
        BY <3>1, NoneIsPart DEF EasOf
      <3> QED
        BY <2>4, <2>7, <3>1, <3>2 DEF Refs
    <2>9. Placed(r, o)
      BY <2>4, <2>7, <2>8 DEF Placed
    <2>10. Charged(r, o)
      <3>1. UnitsIn({}, r.ea) = 0
        BY UnitsInNone
      <3> QED
        BY <2>4, <2>7, <2>8, <3>1 DEF Charged
    <2>11. Refs(s, o) = EasOf(s, o) \cup {own}
      BY <1>4 DEF Refs
    <2>12. DOMAIN s.block \subseteq Blocks /\ DOMAIN s.ea \subseteq EaInodes
      BY <1>1, PartsIs DEF Image, Eas
    <2>13. own \in Blocks /\ EasOf(s, o) \subseteq EaInodes
      BY <1>1, <1>4, <2>12 DEF Placed
    <2> HIDE DEF own
    <2>14. /\ DOMAIN s.block \ Refs(s, o) = DOMAIN s.block \ {own}
           /\ DOMAIN s.ea \ Refs(s, o) = DOMAIN s.ea \ EasOf(s, o)
      BY <2>11, <2>12, <2>13, NumbersApart
    <2>15. InUse(r) = InUse(s) \ Refs(s, o)
      BY <2>6, <2>7, <2>14 DEF InUse
    <2>0. Disjoint(r)
      BY <2>6, <2>7 DEF Sound, Disjoint
    <2>16. Swap(s, r, o)
      BY <2>0, <2>6, <2>7, <2>8, <2>9, <2>10, <2>14, <2>15 DEF Swap
    <2>17. Leaves(s, r, o, gone)
      BY <2>4, <2>7, <2>16, SwapLeaves
    <2>18. Collected(r, o) \in Maps /\ DOMAIN Collected(r, o) = {}
      <3>1. DOMAIN Held(r, o) = {} /\ DOMAIN r.file[o].body = {}
        BY <2>4, <2>7, <2>8, NoneIsPart
      <3> QED
        BY <2>7, <2>9, <3>1, CollectedNames
    <2>19. Collected(r, o) = <<>>
      BY <2>18, NoneIsPart, PartsSame DEF Maps
    <2> QED
      BY <2>17, <2>19 DEF r
  <1> QED
    BY <1>3, <1>4

-----------------------------------------------------------------------------
(* Large values. *)

\* The lesser of two.
LEMMA MinOfTwo ==
    ASSUME NEW a \in Nat, NEW b \in Nat
    PROVE  Min({a, b}) = IF a <= b THEN a ELSE b
  <1> DEFINE c == IF a <= b THEN a ELSE b
  <1>1. c \in {a, b} /\ \A y \in {a, b} : c <= y
    OBVIOUS
  <1>2. \A x \in {a, b} : (\A y \in {a, b} : x <= y) => x = c
    OBVIOUS
  <1>3. Min({a, b}) \in {a, b} /\ \A y \in {a, b} : Min({a, b}) <= y
    BY <1>1 DEF Min
  <1> QED
    BY <1>2, <1>3

\* A finite set has a subset of any size up to its own.
LEMMA SubsetOfSize ==
    ASSUME NEW S, IsFiniteSet(S), NEW k \in 0 .. Cardinality(S)
    PROVE  \E B \in SUBSET S : Cardinality(B) = k
  <1> DEFINE n == Cardinality(S)
             R == {i \in 0 .. n : \E B \in SUBSET S : Cardinality(B) = i}
  <1>1. n \in Nat
    BY FS_CardinalityType
  <1>2. 0 \in R
    BY <1>1, FS_EmptySet
  <1>3. ASSUME NEW i \in 1 .. n, i - 1 \in R PROVE i \in R
    <2>1. PICK B \in SUBSET S : Cardinality(B) = i - 1
      BY <1>3
    <2>2. IsFiniteSet(B) /\ B # S
      BY <1>1, <2>1, FS_Subset
    <2>3. PICK x \in S : x \notin B
      BY <2>2
    <2>4. Cardinality(B \cup {x}) = i
      <3>1. Cardinality(B \cup {x}) = Cardinality(B) + 1
        BY <2>2, <2>3, FS_AddElement
      <3> QED
        BY <1>1, <2>1, <3>1
    <2>5. B \cup {x} \in SUBSET S
      BY <2>3
    <2> QED
      BY <2>4, <2>5
  <1> HIDE DEF R, n
  <1>4. 0 .. n \subseteq R
    <2>1. \A i \in 1 .. n : i - 1 \in R => i \in R
      BY <1>3
    <2> QED
      BY <1>1, <1>2, <2>1, UpTo
  <1> QED
    BY <1>4 DEF R, n

\* The blocks a value gets: as many as it asks for, or all that are free.
LEMMA TakenAre ==
    ASSUME NEW free, IsFiniteSet(free), NEW k \in Nat
    PROVE  /\ Taken(free, k) \subseteq free /\ IsFiniteSet(Taken(free, k))
           /\ Cardinality(Taken(free, k)) = k \/ Taken(free, k) = free
  <1> DEFINE c == Cardinality(free)
             B == Taken(free, k)
  <1>1. c \in Nat
    BY FS_CardinalityType
  <1>2. Min({k, c}) = (IF k <= c THEN k ELSE c) /\ Min({k, c}) \in 0 .. c
    BY <1>1, MinOfTwo
  <1>3. \E A \in SUBSET free : Cardinality(A) = Min({k, c})
    <2> HIDE DEF c
    <2>1. \A j \in 0 .. c : \E A \in SUBSET free : Cardinality(A) = j
      BY SubsetOfSize DEF c
    <2> QED
      BY <1>2, <2>1
  <1>4. B \in SUBSET free /\ Cardinality(B) = Min({k, c})
    BY <1>3 DEF Taken
  <1> HIDE DEF B
  <1>5. IsFiniteSet(B) /\ (Cardinality(B) = c => B = free)
    BY <1>4, FS_Subset
  <1> QED
    BY <1>2, <1>4, <1>5 DEF B

\* The value that was stored for a name.
Stored(r, x) == r.img.ea[r.ea[x]].val

\* What has become of an image t when the values of m with a name in D have got
\* inodes: one that was free each, with the value up to some block.  As long as
\* a block is free all are whole, and one at most is not.
Made(t, r, D, m) ==
    /\ r.img \in Image /\ r.img.file = t.file /\ r.img.block = t.block
    /\ r.ea \in [D -> EaInodes \ DOMAIN t.ea]
    /\ \A x, y \in D : r.ea[x] = r.ea[y] => x = y
    /\ DOMAIN r.img.ea = DOMAIN t.ea \cup Range(r.ea)
    /\ \A e \in DOMAIN t.ea : r.img.ea[e] = t.ea[e]
    /\ Disjoint(r.img)
    /\ \A x \in D : IsCut(Stored(r, x), m[x])
    /\ FreeBlocks(r.img) # {} => \A x \in D : Stored(r, x) = m[x]
    /\ \A x, y \in D : Stored(r, x) # m[x] /\ Stored(r, y) # m[y] => x = y

\* An image and the inodes made, as the code passes them on.
Shape(r) == "img" \in DOMAIN r /\ "ea" \in DOMAIN r /\ "ok" \in DOMAIN r.img

\* An image that failed fails again.
LEMMA CreateEaShape ==
    ASSUME NEW r, Shape(r), NEW n, NEW v
    PROVE  /\ Shape(CreateEa(r, n, v))
           /\ CreateEa(r, n, v).img.ok => r.img.ok
  <1> DEFINE s == r.img
             e == Min(FreeInodes(s))
             data == Taken(FreeBlocks(s), Pages(v))
             rec == [val |-> Cut(v, Cardinality(data)), blocks |-> data]
             ea == Put(s.ea, e, rec)
             put == [s EXCEPT !.ea = ea]
             q == CreateEa(r, n, v)
  <1>1. q = IF ~s.ok \/ FreeInodes(s) = {} THEN [r EXCEPT !.img = Failed(s)]
            ELSE [img |-> IF data = {} THEN Failed(put) ELSE put, ea |-> Put(r.ea, n, e)]
    BY DEF CreateEa
  <1> HIDE DEF ea, data, q, e
  <1>2. DOMAIN put = DOMAIN s /\ DOMAIN Failed(s) = DOMAIN s /\ DOMAIN Failed(put) = DOMAIN put
    BY DEF Failed
  <1>3. "ok" \in DOMAIN s
    BY DEF Shape
  <1>4. ~Failed(s).ok
    BY <1>3 DEF Failed
  <1> DEFINE f == Failed(s)
             g == Failed(put)
             i == Put(r.ea, n, e)
  <1> HIDE DEF f, g, put, i
  <1>5. "ok" \in DOMAIN f /\ ~f.ok /\ "ok" \in DOMAIN put /\ "ok" \in DOMAIN g
    BY <1>2, <1>3, <1>4 DEF f, g
  <1>6. CASE ~s.ok \/ FreeInodes(s) = {}
    <2>1. q = [r EXCEPT !.img = f]
      BY <1>1, <1>6 DEF f
    <2>2. DOMAIN q = DOMAIN r /\ q.img = f
      BY <2>1 DEF Shape
    <2> QED
      BY <1>5, <2>2 DEF Shape, q
  <1>7. CASE s.ok /\ FreeInodes(s) # {}
    <2>1. q = [img |-> IF data = {} THEN g ELSE put, ea |-> i]
      BY <1>1, <1>7 DEF g, i
    <2>2. "img" \in DOMAIN q /\ "ea" \in DOMAIN q /\ (q.img = g \/ q.img = put)
      BY <2>1
    <2> QED
      BY <1>5, <1>7, <2>2 DEF Shape, q
  <1> QED
    BY <1>6, <1>7

\* create_ea_inode, when it succeeds: one more value is stored, and those before
\* it are whole.
LEMMA CreateEaDoes ==
    ASSUME NEW t \in Image, NEW r, Shape(r), NEW D, NEW m, Made(t, r, D, m),
           NEW n, n \notin D, m[n] \in Lists, CreateEa(r, n, m[n]).img.ok
    PROVE  /\ Made(t, CreateEa(r, n, m[n]), D \cup {n}, m)
           /\ \A x \in D : Stored(CreateEa(r, n, m[n]), x) = m[x]
  <1> DEFINE s == r.img
             v == m[n]
             e == Min(FreeInodes(s))
             data == Taken(FreeBlocks(s), Pages(v))
             rec == [val |-> Cut(v, Cardinality(data)), blocks |-> data]
             ea == Put(s.ea, e, rec)
             put == [s EXCEPT !.ea = ea]
             i == Put(r.ea, n, e)
             q == CreateEa(r, n, v)
  <1>1. s \in Image /\ s.ok /\ s.file = t.file /\ s.block = t.block
    BY CreateEaShape DEF Made
  <1>2. q = IF ~s.ok \/ FreeInodes(s) = {} THEN [r EXCEPT !.img = Failed(s)]
            ELSE [img |-> IF data = {} THEN Failed(put) ELSE put, ea |-> i]
    BY DEF CreateEa
  <1>3. FreeInodes(s) # {}
    <2> SUFFICES ASSUME FreeInodes(s) = {} PROVE FALSE
      OBVIOUS
    <2> DEFINE f == Failed(s)
    <2>1. ~f.ok
      BY <1>1 DEF Failed, Image
    <2> HIDE DEF f, data, put, i, q, e
    <2>2. q = [r EXCEPT !.img = f]
      BY <1>2 DEF f
    <2>3. q.img = f
      BY <2>2 DEF Shape
    <2> QED
      BY <2>1, <2>3 DEF q
  <1>4. data # {}
    <2> SUFFICES ASSUME data = {} PROVE FALSE
      OBVIOUS
    <2> DEFINE f == Failed(put)
    <2> HIDE DEF ea
    <2>1. ~f.ok
      BY <1>1 DEF Failed, Image
    <2> HIDE DEF f, data, put, i, q, e
    <2>2. q = [img |-> f, ea |-> i]
      BY <1>1, <1>2, <1>3 DEF f
    <2> QED
      BY <2>1, <2>2 DEF q
  <1>5. q.img = put /\ q.ea = i
    <2> HIDE DEF data, put, i, q, e
    <2> QED
      BY <1>1, <1>2, <1>3, <1>4
  \* the inode
  <1>6. e \in EaInodes /\ e \notin DOMAIN s.ea
    <2>1. FreeInodes(s) \in SUBSET Nat
      BY XattrConstants DEF FreeInodes
    <2>2. e \in FreeInodes(s)
      BY <1>3, <2>1, MinIsOne
    <2> HIDE DEF e
    <2> QED
      BY <2>2 DEF FreeInodes
  \* its blocks
  <1> DEFINE free == FreeBlocks(s)
             k == Cardinality(data)
  <1>7. IsFiniteSet(free) /\ free \subseteq Blocks
    <2>1. free \subseteq Blocks
      BY DEF FreeBlocks
    <2> HIDE DEF free
    <2> QED
      BY <2>1, FS_Subset, XattrConstants
  <1>8. v \in Lists /\ Pages(v) \in Cuts
    BY PagesIs
  <1> HIDE DEF v, free
  <1>9. data \subseteq free /\ IsFiniteSet(data) /\ (k = Pages(v) \/ data = free)
    <2>1. Pages(v) \in Nat
      BY <1>8 DEF Cuts
    <2> QED
      BY <1>7, <2>1, TakenAre DEF free
  <1> HIDE DEF data
  <1>10. k \in Cuts
    <2>1. k \in Nat /\ k # 0
      BY <1>4, <1>9, FS_CardinalityType, FS_EmptySet
    <2> QED
      BY <2>1 DEF Cuts
  <1> HIDE DEF k
  <1>11. rec \in EaRec /\ rec.blocks = data /\ IsCut(rec.val, v) /\ (rec.val # v => data = free)
    <2> DEFINE cut == Cut(v, k)
    <2>1. cut \in Lists /\ IsCut(cut, v)
      BY <1>8, <1>10, CutIsList DEF IsCut
    <2>2. cut # v => data = free
      <3> SUFFICES ASSUME k = Pages(v) PROVE cut = v
        BY <1>9
      <3>1. Pages(v) <= k
        BY <1>8 DEF Cuts
      <3> QED
        BY <1>8, <1>10, <3>1, CutWhole
    <2>3. data \in SUBSET Blocks
      BY <1>7, <1>9
    <2>4. rec = [val |-> cut, blocks |-> data]
      BY DEF k
    <2> HIDE DEF cut, rec
    <2> QED
      BY <2>1, <2>2, <2>3, <2>4 DEF EaRec
  <1> HIDE DEF rec, e
  \* the image
  <1>12. /\ ea \in Eas /\ DOMAIN ea = DOMAIN s.ea \cup {e} /\ ea[e] = rec
         /\ \A f \in DOMAIN s.ea : ea[f] = s.ea[f]
    <2>1. s.ea \in Parts(EaInodes, EaRec)
      BY <1>1 DEF Image, Eas
    <2>2. ea \in Parts(EaInodes, EaRec)
      BY <1>6, <1>11, <2>1, PutIsPart
    <2>3. /\ DOMAIN ea = DOMAIN s.ea \cup {e} /\ ea[e] = rec
          /\ \A f \in DOMAIN s.ea \ {e} : ea[f] = s.ea[f]
      <3> DEFINE c == s.ea
      <3> HIDE DEF c
      <3>1. /\ DOMAIN Put(c, e, rec) = DOMAIN c \cup {e} /\ Put(c, e, rec)[e] = rec
            /\ \A f \in DOMAIN c \ {e} : Put(c, e, rec)[f] = c[f]
        BY DEF Put
      <3> QED
        BY <3>1 DEF c
    <2> HIDE DEF ea
    <2> QED
      BY <1>6, <2>2, <2>3 DEF Eas
  <1> HIDE DEF ea
  <1>13. put \in Image /\ put.file = t.file /\ put.block = t.block /\ put.ea = ea
    BY <1>1, <1>12 DEF Image
  <1> HIDE DEF put
  <1>14. free = Blocks \ (DOMAIN s.block \cup UNION {s.ea[f].blocks : f \in DOMAIN s.ea})
    BY DEF free, FreeBlocks
  <1>15. /\ data \cap DOMAIN s.block = {}
         /\ \A f \in DOMAIN s.ea : data \cap s.ea[f].blocks = {}
    BY <1>9, <1>14
  <1>16. Disjoint(put)
    <2>1. Disjoint(s)
      BY DEF Made
    <2> SUFFICES ASSUME NEW f \in DOMAIN put.ea
                 PROVE  /\ put.ea[f].blocks \cap DOMAIN put.block = {}
                        /\ \A g \in DOMAIN put.ea \ {f} : put.ea[f].blocks \cap put.ea[g].blocks = {}
      BY DEF Disjoint
    <2>2. CASE f = e
      BY <1>1, <1>6, <1>11, <1>12, <1>13, <1>15, <2>2
    <2>3. CASE f # e
      <3>1. f \in DOMAIN s.ea /\ put.ea[f] = s.ea[f]
        BY <1>12, <1>13, <2>3
      <3>2. /\ s.ea[f].blocks \cap DOMAIN s.block = {}
            /\ \A g \in DOMAIN s.ea \ {f} : s.ea[f].blocks \cap s.ea[g].blocks = {}
        BY <2>1, <3>1 DEF Disjoint
      <3> HIDE DEF s
      <3> QED
        BY <1>1, <1>11, <1>12, <1>13, <1>15, <3>1, <3>2
    <2> QED
      BY <2>2, <2>3
  <1>17. FreeBlocks(put) = free \ data
    <2>1. FreeBlocks(put) = Blocks \ (DOMAIN put.block \cup UNION {put.ea[f].blocks : f \in DOMAIN put.ea})
      BY DEF FreeBlocks
    <2>2. UNION {put.ea[f].blocks : f \in DOMAIN put.ea}
            = (UNION {s.ea[f].blocks : f \in DOMAIN s.ea}) \cup data
      <3>1. \A f \in DOMAIN s.ea : put.ea[f].blocks = s.ea[f].blocks
        BY <1>12, <1>13
      <3>2. DOMAIN put.ea = DOMAIN s.ea \cup {e} /\ put.ea[e].blocks = data
        BY <1>11, <1>12, <1>13
      <3> HIDE DEF s
      <3> QED
        BY <3>1, <3>2
    <2> QED
      BY <1>1, <1>13, <1>14, <2>1, <2>2
  \* the inodes made
  <1>18. /\ r.ea \in [D -> EaInodes \ DOMAIN t.ea]
         /\ \A x, y \in D : r.ea[x] = r.ea[y] => x = y
         /\ DOMAIN s.ea = DOMAIN t.ea \cup Range(r.ea)
         /\ \A f \in DOMAIN t.ea : s.ea[f] = t.ea[f]
    BY DEF Made
  <1>19. \A x \in D : r.ea[x] \in DOMAIN s.ea /\ r.ea[x] # e
    <2>1. \A x \in D : r.ea[x] \in Range(r.ea)
      BY <1>18 DEF Range
    <2> QED
      BY <1>6, <1>18, <2>1
  <1>20. DOMAIN i = D \cup {n} /\ i[n] = e /\ \A x \in D : i[x] = r.ea[x]
    BY <1>18 DEF Put
  <1>21. i \in [D \cup {n} -> EaInodes \ DOMAIN t.ea]
    <2>1. i = [x \in DOMAIN i |-> i[x]]
      BY DEF Put
    <2>2. e \in EaInodes \ DOMAIN t.ea
      BY <1>6, <1>18
    <2> HIDE DEF i, s
    <2> QED
      BY <1>18, <1>20, <2>1, <2>2
  <1>22. Range(i) = Range(r.ea) \cup {e}
    <2>1. DOMAIN r.ea = D
      BY <1>18
    <2> HIDE DEF i
    <2> QED
      BY <1>20, <2>1 DEF Range
  <1> HIDE DEF i
  <1>23. \A x, y \in D \cup {n} : i[x] = i[y] => x = y
    BY <1>18, <1>19, <1>20
  <1>24. free # {} /\ \A x \in D : Stored(r, x) = m[x]
    <2>1. free # {}
      BY <1>4, <1>9
    <2> QED
      BY <2>1 DEF Made, free
  <1>25. Stored(q, n) = rec.val /\ \A x \in D : Stored(q, x) = m[x]
    <2>1. q.img.ea = ea
      BY <1>5, <1>13
    <2>2. \A x \in D : Stored(r, x) = s.ea[r.ea[x]].val
      BY DEF Stored
    <2> HIDE DEF q, s
    <2>3. Stored(q, n) = ea[e].val /\ \A x \in D : Stored(q, x) = ea[r.ea[x]].val
      BY <1>5, <1>20, <2>1 DEF Stored
    <2> QED
      BY <1>12, <1>19, <1>24, <2>2, <2>3
  <1> HIDE DEF q
  <1>26. \A x \in D \cup {n} : IsCut(Stored(q, x), m[x])
    <2>1. \A x \in D : IsCut(Stored(r, x), m[x])
      BY DEF Made
    <2> QED
      BY <1>11, <1>24, <1>25, <2>1 DEF v
  <1>27. FreeBlocks(q.img) # {} => \A x \in D \cup {n} : Stored(q, x) = m[x]
    <2>1. FreeBlocks(q.img) # {} => rec.val = v
      BY <1>5, <1>11, <1>17
    <2> QED
      BY <1>25, <2>1 DEF v
  <1>28. DOMAIN q.img.ea = DOMAIN t.ea \cup Range(q.ea) /\ \A f \in DOMAIN t.ea : q.img.ea[f] = t.ea[f]
    <2> HIDE DEF s
    <2> QED
      BY <1>5, <1>12, <1>13, <1>18, <1>22
  <1>29. \A x, y \in D \cup {n} : Stored(q, x) # m[x] /\ Stored(q, y) # m[y] => x = y
    BY <1>25
  <1>30. /\ q.img \in Image /\ q.img.file = t.file /\ q.img.block = t.block /\ Disjoint(q.img)
         /\ q.ea \in [D \cup {n} -> EaInodes \ DOMAIN t.ea]
         /\ \A x, y \in D \cup {n} : q.ea[x] = q.ea[y] => x = y
    BY <1>5, <1>13, <1>16, <1>21, <1>23
  <1>31. Made(t, q, D \cup {n}, m)
    BY <1>26, <1>27, <1>28, <1>29, <1>30 DEF Made
  <1> QED
    BY <1>25, <1>31 DEF q, v

\* The k-th name has its turn, of those in S.
Turned(m, S, k, r) == IF Names[k] \in S THEN CreateEa(r, Names[k], m[Names[k]]) ELSE r

Turns(t, m, S, h) ==
    /\ h[0] = [img |-> t, ea |-> <<>>]
    /\ \A k \in 1 .. Len(Names) : h[k] = Turned(m, S, k, h[k - 1])

TurnMap(t, m, S, h) ==
    [k \in 0 .. Len(Names) |-> IF k = 0 THEN [img |-> t, ea |-> <<>>] ELSE Turned(m, S, k, h[k - 1])]

\* There is a function that gives every name its turn.
LEMMA TurnsExist ==
    ASSUME NEW t, NEW m, NEW S
    PROVE  \E h : h = TurnMap(t, m, S, h)
  <1> DEFINE n == Len(Names)
             T(h, k) == IF k = 0 THEN [img |-> t, ea |-> <<>>] ELSE Turned(m, S, k, h[k - 1])
             R == {i \in 0 .. n : \E h : \A k \in 0 .. i : h[k] = T(h, k)}
  <1>0. n \in Nat
    BY XattrConstants
  <1> HIDE DEF n
  <1>1. 0 \in R
    <2> DEFINE none == [img |-> t, ea |-> <<>>]
               h == [k \in {0} |-> none]
    <2>1. h[0] = T(h, 0)
      OBVIOUS
    <2>2. 0 .. 0 = {0}
      OBVIOUS
    <2> HIDE DEF T, h
    <2>3. \A k \in 0 .. 0 : h[k] = T(h, k)
      BY <2>1, <2>2
    <2> QED
      BY <1>0, <2>3
  <1>2. ASSUME NEW i \in 1 .. n, i - 1 \in R PROVE i \in R
    <2>1. PICK h : \A k \in 0 .. i - 1 : h[k] = T(h, k)
      BY <1>2
    <2> DEFINE last == Turned(m, S, i, h[i - 1])
               g == [k \in 0 .. i |-> IF k = i THEN last ELSE h[k]]
    <2> HIDE DEF last
    <2>2. \A k \in 0 .. i - 1 : g[k] = h[k]
      BY <1>0
    <2>3. g[i] = last /\ i # 0 /\ i - 1 \in 0 .. i - 1
      BY <1>0
    <2> HIDE DEF g
    <2>4. T(g, i) = last
      BY <2>2, <2>3 DEF last
    <2>5. ASSUME NEW k \in 0 .. i - 1 PROVE g[k] = T(g, k)
      <3>1. g[k] = T(h, k)
        BY <2>1, <2>2
      <3>2. CASE k = 0
        BY <3>1, <3>2
      <3>3. CASE k # 0
        <4>1. k - 1 \in 0 .. i - 1
          BY <3>3, <1>0
        <4> QED
          BY <2>2, <3>1, <3>3, <4>1
      <3> QED
        BY <3>2, <3>3
    <2>6. \A k \in 0 .. i : k = i \/ k \in 0 .. i - 1
      BY <1>0
    <2> HIDE DEF T
    <2>7. \A k \in 0 .. i : g[k] = T(g, k)
      BY <2>3, <2>4, <2>5, <2>6
    <2> QED
      BY <1>0, <2>7
  <1> HIDE DEF R
  <1>3. n \in R
    <2>1. \A i \in 1 .. n : i - 1 \in R => i \in R
      BY <1>2
    <2> QED
      BY <1>0, <1>1, <2>1, UpTo
  <1>4. PICK h : \A k \in 0 .. n : h[k] = T(h, k)
    BY <1>3 DEF R
  <1> DEFINE g == [k \in 0 .. n |-> h[k]]
  <1>5. \A k \in 0 .. n : g[k] = h[k]
    OBVIOUS
  <1>6. ASSUME NEW k \in 0 .. n PROVE h[k] = T(g, k)
    <2>1. CASE k = 0
      BY <1>4, <2>1
    <2>2. CASE k # 0
      <3>1. k - 1 \in 0 .. n
        BY <1>0, <2>2
      <3> HIDE DEF g
      <3> QED
        BY <1>4, <1>5, <2>2, <3>1
    <2> QED
      BY <2>1, <2>2
  <1>7. g = [k \in 0 .. n |-> T(g, k)]
    <2>1. g = [k \in 0 .. n |-> h[k]]
      OBVIOUS
    <2> HIDE DEF g, T
    <2> QED
      BY <1>6, <2>1
  <1> HIDE DEF g
  <1> QED
    BY <1>7 DEF n, T, TurnMap

\* CreateEas gives every name but n its turn, and n the last one.
LEMMA CreateEasIs ==
    ASSUME NEW t, NEW m, NEW n
    PROVE  \E h : /\ Turns(t, m, Spilled(m) \ {n}, h)
                  /\ CreateEas(t, m, n) = IF n \in Spilled(m) THEN CreateEa(h[Len(Names)], n, m[n])
                                          ELSE h[Len(Names)]
  <1> DEFINE S == Spilled(m) \ {n}
             none == [img |-> t, ea |-> <<>>]
             upto[k \in 0 .. Len(Names)] ==
                 IF k = 0 THEN none
                 ELSE IF Names[k] \in S THEN CreateEa(upto[k - 1], Names[k], m[Names[k]])
                 ELSE upto[k - 1]
             F(h) == [k \in 0 .. Len(Names) |->
                         IF k = 0 THEN none
                         ELSE IF Names[k] \in S THEN CreateEa(h[k - 1], Names[k], m[Names[k]])
                         ELSE h[k - 1]]
  <1>1. upto = CHOOSE h : h = F(h)
    OBVIOUS
  <1>2. \E h : h = F(h)
    <2> HIDE DEF S
    <2>1. \E h : h = TurnMap(t, m, S, h)
      BY TurnsExist
    <2> QED
      BY <2>1 DEF Turned, TurnMap
  <1>3. upto = F(upto)
    <2> HIDE DEF F
    <2> QED
      BY <1>1, <1>2
  <1>4. CreateEas(t, m, n) = IF n \in Spilled(m) THEN CreateEa(upto[Len(Names)], n, m[n])
                             ELSE upto[Len(Names)]
    BY DEF CreateEas
  <1> HIDE DEF upto
  <1>5. Turns(t, m, S, upto)
    <2>1. Len(Names) \in Nat
      BY XattrConstants
    <2>2. upto[0] = none
      BY <1>3, <2>1
    <2>3. ASSUME NEW k \in 1 .. Len(Names) PROVE upto[k] = Turned(m, S, k, upto[k - 1])
      <3>1. k \in 0 .. Len(Names) /\ k # 0
        BY <2>1
      <3> HIDE DEF S, none
      <3> QED
        BY <1>3, <3>1 DEF Turned
    <2> QED
      BY <2>2, <2>3 DEF Turns
  <1> QED
    BY <1>4, <1>5

\* No value is stored at first.
LEMMA MadeNone ==
    ASSUME NEW t \in Image, Disjoint(t), NEW m, NEW r, r = [img |-> t, ea |-> <<>>]
    PROVE  Shape(r) /\ Made(t, r, {}, m)
  <1>1. r.img = t /\ r.ea = <<>> /\ "img" \in DOMAIN r /\ "ea" \in DOMAIN r
    OBVIOUS
  <1>2. "ok" \in DOMAIN t
    BY DEF Image
  <1>3. r.ea \in [{} -> EaInodes \ DOMAIN t.ea] /\ Range(r.ea) = {}
    BY <1>1, NoneIsPart DEF Range
  <1> QED
    BY <1>1, <1>2, <1>3 DEF Shape, Made

\* The large values, when all are stored: at most one is cut, and that is the
\* one the call is about if it is among them.
LEMMA CreateEasDoes ==
    ASSUME NEW t \in Image, Disjoint(t), NEW m \in Maps, NEW n, CreateEas(t, m, n).img.ok
    PROVE  /\ Made(t, CreateEas(t, m, n), Spilled(m), m)
           /\ n \in Spilled(m) => \A x \in Spilled(m) \ {n} : Stored(CreateEas(t, m, n), x) = m[x]
  <1> DEFINE big == Spilled(m)
             S == big \ {n}
             len == Len(Names)
             q == CreateEas(t, m, n)
             D(k) == {x \in S : \E i \in 1 .. k : Names[i] = x}
  <1>1. PICK h : Turns(t, m, S, h) /\ q = IF n \in big THEN CreateEa(h[len], n, m[n]) ELSE h[len]
    BY CreateEasIs
  <1>2. big \subseteq DOMAIN m /\ \A x \in big : m[x] \in Lists
    BY MapIs DEF Spilled
  <1>3. /\ len \in Nat /\ \A i, j \in 1 .. len : Names[i] = Names[j] => i = j
        /\ \A x \in AttrNames : \E i \in 1 .. len : Names[i] = x
    BY XattrConstants DEF IsInjective, AttrNames, Range
  <1>4. q.img.ok
    OBVIOUS
  <1> HIDE DEF big, len, q
  <1> DEFINE R == {k \in 0 .. len : /\ Shape(h[k])
                                    /\ h[k].img.ok => Made(t, h[k], D(k), m)}
  <1>5. 0 \in R
    <2>1. h[0] = [img |-> t, ea |-> <<>>]
      BY <1>1 DEF Turns
    <2>2. Shape(h[0]) /\ Made(t, h[0], {}, m)
      BY <2>1, MadeNone
    <2>3. D(0) = {}
      OBVIOUS
    <2> HIDE DEF D
    <2> QED
      BY <1>3, <2>2, <2>3
  <1>6. ASSUME NEW k \in 1 .. len, k - 1 \in R PROVE k \in R
    <2> DEFINE r == h[k - 1]
               x == Names[k]
    <2>1. h[k] = IF x \in S THEN CreateEa(r, x, m[x]) ELSE r
      BY <1>1 DEF Turns, Turned, len
    <2>2. Shape(r) /\ (r.img.ok => Made(t, r, D(k - 1), m))
      BY <1>6
    <2>3. D(k) = IF x \in S THEN D(k - 1) \cup {x} ELSE D(k - 1)
      <3>1. 1 .. k = (1 .. k - 1) \cup {k}
        BY <1>3
      <3> HIDE DEF S
      <3> QED
        BY <3>1
    <2>4. x \notin D(k - 1)
      <3>1. \A i \in 1 .. k - 1 : i \in 1 .. len /\ i # k
        BY <1>3
      <3> QED
        BY <1>3, <3>1
    <2> HIDE DEF D, r, x
    <2>5. CASE x \notin S
      BY <1>3, <2>1, <2>2, <2>3, <2>5
    <2>6. CASE x \in S
      <3>1. m[x] \in Lists
        BY <1>2, <2>6
      <3>2. Shape(h[k]) /\ (h[k].img.ok => r.img.ok)
        BY <2>1, <2>2, <2>6, CreateEaShape
      <3>3. ASSUME h[k].img.ok PROVE Made(t, h[k], D(k - 1) \cup {x}, m)
        <4>1. CreateEa(r, x, m[x]).img.ok /\ Made(t, r, D(k - 1), m)
          BY <2>1, <2>2, <2>6, <3>2, <3>3
        <4> QED
          BY <2>1, <2>2, <2>4, <2>6, <3>1, <4>1, CreateEaDoes
      <3>4. D(k) = D(k - 1) \cup {x}
        BY <2>3, <2>6
      <3>5. h[k].img.ok => Made(t, h[k], D(k), m)
        BY <3>3, <3>4
      <3>6. k \in 0 .. len
        BY <1>3
      <3> QED
        BY <3>2, <3>5, <3>6
    <2> QED
      BY <2>5, <2>6
  <1> HIDE DEF R
  <1>7. len \in R
    <2>1. \A k \in 1 .. len : k - 1 \in R => k \in R
      BY <1>6
    <2> QED
      BY <1>3, <1>5, <2>1, UpTo
  <1>8. D(len) = S
    <2>1. \A x \in S : x \in AttrNames
      BY <1>2, MapIs
    <2> HIDE DEF S
    <2> QED
      BY <1>3, <2>1
  <1> HIDE DEF D
  <1> DEFINE r == h[len]
  <1>9. Shape(r) /\ (r.img.ok => Made(t, r, S, m))
    BY <1>7, <1>8 DEF R
  <1> HIDE DEF r
  <1>10. CASE n \in big
    <2>1. q = CreateEa(r, n, m[n])
      BY <1>1, <1>10 DEF r
    <2>2. r.img.ok
      BY <1>4, <1>9, <2>1, CreateEaShape
    <2>3. m[n] \in Lists /\ n \notin S /\ S \cup {n} = big
      BY <1>2, <1>10
    <2> HIDE DEF S
    <2>4. Made(t, q, S \cup {n}, m) /\ \A x \in S : Stored(q, x) = m[x]
      BY <1>4, <1>9, <2>1, <2>2, <2>3, CreateEaDoes
    <2> QED
      BY <2>3, <2>4 DEF S, big, q
  <1>11. CASE n \notin big
    <2>1. q = r /\ S = big
      BY <1>1, <1>11 DEF r
    <2> QED
      BY <1>4, <1>9, <1>11, <2>1 DEF big, q
  <1> QED
    BY <1>10, <1>11

-----------------------------------------------------------------------------
(* Writing the block. *)

\* A file reads as m but for one value at most, which is cut as no block is left:
\* that of n if it is a large one.
Nearly(r, o, m, n) ==
    /\ ReadsAs(Collected(r, o), m)
    /\ \A x \in DOMAIN m : Collected(r, o)[x] # m[x] =>
          FreeBlocks(r) = {} /\ x \in Spilled(m) /\ (n \in Spilled(m) => x = n)
    /\ \A x, y \in DOMAIN m : Collected(r, o)[x] # m[x] /\ Collected(r, o)[y] # m[y] => x = y

\* A file that reads as m does.
LEMMA ExactIsNearly ==
    ASSUME NEW r, NEW o, NEW m \in Maps, NEW n, Collected(r, o) = m
    PROVE  Nearly(r, o, m, n)
  BY ReadsAsSelf DEF Nearly

\* free_block_ea_inodes gives back the inodes and nothing else.
LEMMA FreeEasDoes ==
    ASSUME NEW s \in Image, NEW o, Disjoint(s)
    PROVE  /\ FreeEas(s, o) \in Image /\ FreeEas(s, o).ok = s.ok
           /\ FreeEas(s, o).file = s.file /\ FreeEas(s, o).block = s.block
           /\ DOMAIN FreeEas(s, o).ea = DOMAIN s.ea \ EasOf(s, o)
           /\ \A e \in DOMAIN s.ea \ EasOf(s, o) : FreeEas(s, o).ea[e] = s.ea[e]
           /\ Disjoint(FreeEas(s, o))
  <1> DEFINE t == FreeEas(s, o)
             c == Without(s.ea, EasOf(s, o))
  <1>1. t = [s EXCEPT !.ea = c]
    BY DEF FreeEas
  <1>2. /\ c \in Eas /\ DOMAIN c = DOMAIN s.ea \ EasOf(s, o)
        /\ \A e \in DOMAIN s.ea \ EasOf(s, o) : c[e] = s.ea[e]
    <2>1. c \in Eas
      BY WithoutIsPart DEF Image, Eas
    <2> QED
      BY <2>1, WithoutIs
  <1> HIDE DEF t, c
  <1>3. t \in Image /\ t.ok = s.ok /\ t.file = s.file /\ t.block = s.block /\ t.ea = c
    BY <1>1, <1>2 DEF Image
  <1>4. Disjoint(t)
    BY <1>2, <1>3 DEF Disjoint
  <1> QED
    BY <1>2, <1>3, <1>4 DEF t

\* The block a file writes: its own, or one that is free.
LEMMA BlockForIs ==
    ASSUME NEW s, NEW o, s.file[o].block \in Blocks \cup {NoBlock},
           s.file[o].block = NoBlock => FreeBlocks(s) # {}
    PROVE  /\ BlockFor(s, o) \in Blocks /\ BlockFor(s, o) # NoBlock
           /\ s.file[o].block # NoBlock => BlockFor(s, o) = s.file[o].block
           /\ s.file[o].block = NoBlock => BlockFor(s, o) \in FreeBlocks(s)
  <1>1. CASE s.file[o].block # NoBlock
    BY <1>1 DEF BlockFor
  <1>2. CASE s.file[o].block = NoBlock
    <2>1. BlockFor(s, o) = Min(FreeBlocks(s)) /\ FreeBlocks(s) # {}
      BY <1>2 DEF BlockFor
    <2>2. FreeBlocks(s) \subseteq Blocks
      BY DEF FreeBlocks
    <2>3. Min(FreeBlocks(s)) \in FreeBlocks(s)
      BY <2>1, <2>2, NumbersApart, MinIsOne
    <2> QED
      BY <1>2, <2>1, <2>2, <2>3, NumbersApart
  <1> QED
    BY <1>1, <1>2

\* The entries that are written, of values and of the inodes ea that have them.
LEMMA ItemsHave ==
    ASSUME NEW m \in Maps, NEW ea \in [Spilled(m) -> EaInodes], NEW none \in {<<>>}, NEW items,
           DOMAIN items = DOMAIN m, items = [x \in DOMAIN items |-> items[x]],
           \A x \in Spilled(m) : items[x] = [val |-> none, ea |-> ea[x]],
           \A x \in DOMAIN m \ Spilled(m) : items[x] = [val |-> m[x], ea |-> Inline]
    PROVE  /\ items \in Items
           /\ \A x \in DOMAIN m \ Spilled(m) : items[x].val = m[x] /\ items[x].ea = Inline
           /\ \A x \in Spilled(m) : items[x].ea = ea[x] /\ items[x].ea # Inline
           /\ {items[x].ea : x \in DOMAIN items} \ {Inline} = Range(ea)
  <1> DEFINE big == Spilled(m)
  <1>1. big \subseteq DOMAIN m
    BY DEF Spilled
  <1>2. DOMAIN m \subseteq AttrNames /\ \A x \in DOMAIN m : m[x] \in Lists
    BY MapIs
  <1>3. \A x \in big : ea[x] \in EaInodes /\ ea[x] # Inline
    BY NumbersApart
  <1> HIDE DEF big
  <1>4. \A x \in DOMAIN m : items[x] \in Item
    <2> TAKE x \in DOMAIN m
    <2>1. CASE x \in big
      <3>1. items[x] = [val |-> none, ea |-> ea[x]]
        BY <2>1 DEF big
      <3> QED
        BY <1>3, <2>1, <3>1 DEF Item
    <2>2. CASE x \notin big
      <3>1. items[x] = [val |-> m[x], ea |-> Inline]
        BY <2>2 DEF big
      <3> QED
        BY <1>2, <3>1 DEF Item
    <2> QED
      BY <2>1, <2>2
  <1>5. items \in Items
    BY <1>2, <1>4, PartsIs DEF Items
  <1>6. \A x \in big : items[x].ea = ea[x] /\ items[x].ea # Inline
    <2> TAKE x \in big
    <2> DEFINE e == ea[x]
    <2>1. e # Inline
      BY <1>3
    <2> HIDE DEF e
    <2>2. items[x] = [val |-> none, ea |-> e]
      BY DEF big, e
    <2> QED
      BY <2>1, <2>2 DEF e
  <1>7. \A x \in DOMAIN m \ big : items[x].val = m[x] /\ items[x].ea = Inline
    BY DEF big
  <1>8. {items[x].ea : x \in DOMAIN items} \ {Inline} = Range(ea)
    <2>1. \A e \in Range(ea) : \E x \in big : e = ea[x]
      BY DEF Range, big
    <2>2. \A x \in big : ea[x] \in Range(ea)
      BY DEF Range, big
    <2> QED
      BY <1>1, <1>6, <1>7, <2>1, <2>2
  <1> QED
    BY <1>5, <1>6, <1>7, <1>8 DEF big

LEMMA ItemsAre ==
    ASSUME NEW m \in Maps, NEW ea \in [Spilled(m) -> EaInodes], NEW items,
           items = [x \in DOMAIN m |-> IF x \in Spilled(m) THEN [val |-> <<>>, ea |-> ea[x]]
                                       ELSE [val |-> m[x], ea |-> Inline]]
    PROVE  /\ items \in Items /\ DOMAIN items = DOMAIN m
           /\ \A x \in DOMAIN m \ Spilled(m) : items[x].val = m[x] /\ items[x].ea = Inline
           /\ \A x \in Spilled(m) : items[x].ea = ea[x] /\ items[x].ea # Inline
           /\ {items[x].ea : x \in DOMAIN items} \ {Inline} = Range(ea)
  <1> DEFINE none == <<>>
  <1>1. none \in {<<>>} /\ Spilled(m) \subseteq DOMAIN m
    BY DEF Spilled
  <1>2. items = [x \in DOMAIN m |-> IF x \in Spilled(m) THEN [val |-> none, ea |-> ea[x]]
                                    ELSE [val |-> m[x], ea |-> Inline]]
    OBVIOUS
  <1> HIDE DEF none
  <1>3. DOMAIN items = DOMAIN m /\ items = [x \in DOMAIN items |-> items[x]]
    BY <1>2
  <1>4. \A x \in Spilled(m) : items[x] = [val |-> none, ea |-> ea[x]]
    BY <1>1, <1>2
  <1>5. \A x \in DOMAIN m \ Spilled(m) : items[x] = [val |-> m[x], ea |-> Inline]
    BY <1>2
  <1> QED
    BY <1>1, <1>3, <1>4, <1>5, ItemsHave

\* write_block_attrs, when it succeeds: the file has the new values, one of them
\* cut perhaps, and is charged for a block and for their inodes; the old inodes
\* are given back.  A file that had no block has them whole: it took one last.
LEMMA WriteBlockDoes ==
    ASSUME NEW s, NEW gone, Sound(s, gone), NEW o \in Files, s.file[o].live, s.file[o].body = <<>>,
           NEW m \in Maps, m # <<>>, NEW n, WriteBlock(s, o, m, n).ok
    PROVE  /\ Leaves(s, WriteBlock(s, o, m, n), o, gone)
           /\ Nearly(WriteBlock(s, o, m, n), o, m, n)
           /\ s.file[o].block = NoBlock => Collected(WriteBlock(s, o, m, n), o) = m
  <1> DEFINE t == FreeEas(s, o)
             big == Spilled(m)
             made == CreateEas(t, m, n)
             put == made.img
             ea == made.ea
             units == UnitsOf(put, Range(ea)) - UnitsOf(s, EasOf(s, o))
             items == [x \in DOMAIN m |-> IF x \in Spilled(m) THEN [val |-> <<>>, ea |-> ea[x]]
                                          ELSE [val |-> m[x], ea |-> Inline]]
             own == s.file[o].block
             block == BlockFor(put, o)
             full == ~FitsBlock(m) \/ (own = NoBlock /\ FreeBlocks(put) = {})
             charge == s.file[o].charge + NewUnits(s, o) + units
             rec == Charge(s.file[o], block, charge)
             all == [put EXCEPT !.block = Put(@, block, items),
                                !.file[o] = Charge(@, block, @.charge + NewUnits(s, o) + units)]
             r == WriteBlock(s, o, m, n)
             blocks == Put(s.block, block, items)
  <1>1. s \in Image /\ s.ok /\ Disjoint(s) /\ Placed(s, o) /\ Charged(s, o)
    BY DEF Sound
  <1>2. s.file[o] \in FileRec /\ own \in Blocks \cup {NoBlock}
    BY <1>1 DEF Image, FileRec
  <1>3. r = IF ~put.ok THEN put ELSE IF full THEN Failed(put) ELSE all
    BY DEF WriteBlock
  <1>4. /\ t \in Image /\ t.file = s.file /\ t.block = s.block /\ Disjoint(t)
        /\ DOMAIN t.ea = DOMAIN s.ea \ EasOf(s, o)
        /\ \A e \in DOMAIN s.ea \ EasOf(s, o) : t.ea[e] = s.ea[e]
    BY <1>1, FreeEasDoes
  <1> HIDE DEF t
  <1>5. put.ok
    <2> HIDE DEF put, all, r
    <2> QED
      BY <1>3 DEF r
  <1>6. /\ Made(t, made, big, m)
        /\ n \in big => \A x \in big \ {n} : Stored(made, x) = m[x]
    BY <1>4, <1>5, CreateEasDoes
  <1> HIDE DEF made, big
  <1>7. put \in Image /\ put.file = s.file /\ put.block = s.block /\ Disjoint(put)
    BY <1>4, <1>6 DEF Made
  <1>8. ~full
    <2>1. ~Failed(put).ok
      BY <1>7 DEF Failed, Image
    <2> HIDE DEF full, put, all
    <2> QED
      BY <1>3, <1>5, <2>1
  <1>9. r = all
    <2> HIDE DEF full, put, all, r
    <2> QED
      BY <1>3, <1>5, <1>8
  \* the new inodes
  <1>10. /\ ea \in [big -> EaInodes \ DOMAIN t.ea]
         /\ \A x, y \in big : ea[x] = ea[y] => x = y
         /\ DOMAIN put.ea = DOMAIN t.ea \cup Range(ea)
         /\ \A e \in DOMAIN t.ea : put.ea[e] = t.ea[e]
    BY <1>6 DEF Made
  <1>11. Range(ea) \subseteq EaInodes /\ Range(ea) \cap DOMAIN t.ea = {}
    BY <1>10 DEF Range
  \* the block
  <1>12. DOMAIN s.block \subseteq Blocks /\ DOMAIN s.ea \subseteq EaInodes
    BY <1>1, PartsIs DEF Image, Eas
  <1>13. /\ block \in Blocks /\ block # NoBlock
         /\ own # NoBlock => block = own
         /\ own = NoBlock => block \in FreeBlocks(put)
    <2>1. put.file[o].block = own
      BY <1>7
    <2> HIDE DEF put, own
    <2> QED
      BY <1>2, <1>8, <2>1, BlockForIs DEF full
  <1> HIDE DEF full
  <1>14. own # NoBlock => own \in DOMAIN s.block
    BY <1>1 DEF Placed
  <1>15. FreeBlocks(put) = Blocks \ (DOMAIN s.block \cup UNION {put.ea[e].blocks : e \in DOMAIN put.ea})
    BY <1>7 DEF FreeBlocks
  <1>16. /\ own = NoBlock => block \notin DOMAIN s.block
         /\ \A e \in DOMAIN put.ea : block \notin put.ea[e].blocks
    <2>1. \A e \in DOMAIN put.ea : put.ea[e].blocks \cap DOMAIN s.block = {}
      BY <1>7 DEF Disjoint
    <2> HIDE DEF put, own, block
    <2> QED
      BY <1>13, <1>14, <1>15, <2>1
  \* the entries
  <1>17. /\ items \in Items /\ DOMAIN items = DOMAIN m
         /\ \A x \in DOMAIN m \ big : items[x].val = m[x] /\ items[x].ea = Inline
         /\ \A x \in big : items[x].ea = ea[x] /\ items[x].ea # Inline
         /\ {items[x].ea : x \in DOMAIN items} \ {Inline} = Range(ea)
    <2>1. ea \in [Spilled(m) -> EaInodes]
      BY <1>10 DEF big
    <2> HIDE DEF ea
    <2>2. PICK i : i = items
      OBVIOUS
    <2>3. /\ i \in Items /\ DOMAIN i = DOMAIN m
          /\ \A x \in DOMAIN m \ Spilled(m) : i[x].val = m[x] /\ i[x].ea = Inline
          /\ \A x \in Spilled(m) : i[x].ea = ea[x] /\ i[x].ea # Inline
          /\ {i[x].ea : x \in DOMAIN i} \ {Inline} = Range(ea)
      BY <2>1, <2>2, ItemsAre
    <2> HIDE DEF items
    <2> QED
      BY <2>2, <2>3 DEF big
  <1> HIDE DEF items, block
  <1>18. blocks \in Parts(Blocks, Items)
    BY <1>1, <1>13, <1>17, PutIsPart DEF Image
  <1>19. /\ DOMAIN blocks = DOMAIN s.block \cup {block} /\ blocks[block] = items
         /\ \A b \in DOMAIN s.block \ {block} : blocks[b] = s.block[b]
    BY DEF Put
  <1> HIDE DEF put, ea, blocks
  \* what it costs
  <1>20. charge \in Int /\ charge = UnitsIn(Range(ea), put.ea) + BlockUnits
    <2>1. UnitsOf(put, Range(ea)) = UnitsIn(Range(ea), put.ea) /\ UnitsIn(Range(ea), put.ea) \in Nat
      BY <1>7, <1>10, UnitsKept, UnitsOfIs
    <2>2. UnitsOf(s, EasOf(s, o)) = UnitsIn(EasOf(s, o), s.ea) /\ UnitsIn(EasOf(s, o), s.ea) \in Nat
      BY <1>1, UnitsKept, UnitsOfIs DEF Placed
    <2>3. s.file[o].charge = UnitsIn(EasOf(s, o), s.ea) + (IF own = NoBlock THEN 0 ELSE BlockUnits)
      BY <1>1 DEF Charged
    <2>4. NewUnits(s, o) = IF own = NoBlock THEN BlockUnits ELSE 0
      BY DEF NewUnits
    <2> DEFINE a == UnitsOf(put, Range(ea))
               b == UnitsOf(s, EasOf(s, o))
               c == s.file[o].charge
               d == NewUnits(s, o)
    <2>5. a \in Nat /\ b \in Nat /\ c + d = b + BlockUnits /\ c \in Int /\ d \in Int
      BY <2>1, <2>2, <2>3, <2>4, NumbersApart
    <2>6. charge = c + d + (a - b)
      OBVIOUS
    <2> HIDE DEF a, b, c, d, charge
    <2>7. charge \in Int /\ charge = a + BlockUnits
      BY <2>5, <2>6, NumbersApart
    <2> QED
      BY <2>1, <2>7 DEF a
  <1>21. all = [put EXCEPT !.block = blocks, !.file[o] = rec]
    <2> HIDE DEF units
    <2> QED
      BY <1>7 DEF blocks
  <1> HIDE DEF charge, all
  <1>22. /\ rec \in FileRec /\ rec.block = block /\ rec.charge = charge /\ rec.body = <<>>
         /\ rec.live = s.file[o].live /\ rec.mode = s.file[o].mode
    <2>1. block \in Blocks \cup {NoBlock} /\ charge \in Int
      BY <1>13, <1>20
    <2> DEFINE f == s.file[o]
    <2>2. f \in FileRec /\ f.body = <<>>
      BY <1>2
    <2> HIDE DEF f
    <2>3. /\ Charge(f, block, charge) \in FileRec /\ Charge(f, block, charge).block = block
          /\ Charge(f, block, charge).charge = charge
      BY <2>1, <2>2, ChargeIs
    <2>4. /\ Charge(f, block, charge).body = f.body
          /\ Charge(f, block, charge).live = f.live /\ Charge(f, block, charge).mode = f.mode
      BY <2>1, <2>2, ChargeIs
    <2> QED
      BY <2>2, <2>3, <2>4 DEF f
  <1> HIDE DEF rec, r
  \* the image
  <1>23. /\ r \in Image /\ r.ok /\ r.block = blocks /\ r.ea = put.ea
         /\ r.file[o] = rec /\ \A p \in Files \ {o} : r.file[p] = s.file[p]
    BY <1>5, <1>7, <1>9, <1>18, <1>21, <1>22 DEF Image
  <1>24. Held(r, o) = items
    BY <1>13, <1>19, <1>22, <1>23 DEF Held
  <1>25. EasOf(r, o) = Range(ea)
    BY <1>17, <1>24 DEF EasOf
  <1>26. Refs(r, o) = Range(ea) \cup {block}
    BY <1>13, <1>22, <1>23, <1>25 DEF Refs
  <1>27. Placed(r, o)
    <2>1. items # <<>>
      <3>1. DOMAIN m # {}
        BY NoneIsPart, PartsSame DEF Maps
      <3> QED
        BY <1>17, <3>1, NoneIsPart
    <2> QED
      BY <1>10, <1>19, <1>22, <1>23, <1>24, <1>25, <2>1 DEF Placed
  <1>28. Charged(r, o)
    BY <1>13, <1>20, <1>22, <1>23, <1>25 DEF Charged
  <1>29. Disjoint(r)
    <2> SUFFICES ASSUME NEW e \in DOMAIN put.ea
                 PROVE  /\ put.ea[e].blocks \cap DOMAIN blocks = {}
                        /\ \A f \in DOMAIN put.ea \ {e} : put.ea[e].blocks \cap put.ea[f].blocks = {}
      BY <1>23 DEF Disjoint
    <2>1. /\ put.ea[e].blocks \cap DOMAIN s.block = {}
          /\ \A f \in DOMAIN put.ea \ {e} : put.ea[e].blocks \cap put.ea[f].blocks = {}
      BY <1>7 DEF Disjoint
    <2> QED
      BY <1>16, <1>19, <2>1
  <1>30. Refs(s, o) = EasOf(s, o) \cup ({own} \ {NoBlock}) /\ EasOf(s, o) \subseteq EaInodes
    BY <1>1, <1>12 DEF Refs, Placed
  <1> HIDE DEF own
  <1>31. /\ DOMAIN s.block \ Refs(s, o) = DOMAIN s.block \ {own}
         /\ DOMAIN s.ea \ Refs(s, o) = DOMAIN s.ea \ EasOf(s, o)
    BY <1>2, <1>12, <1>30, NumbersApart
  <1>32. DOMAIN s.block \ {own} = DOMAIN s.block \ {block}
    BY <1>12, <1>13, <1>16, NumbersApart
  <1>33. InUse(r) = (InUse(s) \ Refs(s, o)) \cup Refs(r, o)
    BY <1>4, <1>10, <1>19, <1>23, <1>26, <1>31, <1>32 DEF InUse
  <1>34. Refs(r, o) \cap (InUse(s) \ Refs(s, o)) = {}
    <2>1. Range(ea) \cap (DOMAIN s.ea \ EasOf(s, o)) = {} /\ Range(ea) \subseteq EaInodes
      BY <1>4, <1>11
    <2> QED
      BY <1>12, <1>13, <1>26, <1>31, <1>32, <2>1, NumbersApart DEF InUse
  <1>35. Swap(s, r, o)
    <2>1. \A b \in DOMAIN s.block \ Refs(s, o) : b \in DOMAIN r.block /\ r.block[b] = s.block[b]
      BY <1>19, <1>23, <1>31, <1>32
    <2>2. \A e \in DOMAIN s.ea \ Refs(s, o) : e \in DOMAIN r.ea /\ r.ea[e] = s.ea[e]
      BY <1>4, <1>10, <1>23, <1>31
    <2> QED
      BY <1>23, <1>27, <1>28, <1>29, <1>33, <1>34, <2>1, <2>2 DEF Swap
  <1>36. Leaves(s, r, o, gone)
    BY <1>22, <1>23, <1>35, SwapLeaves
  \* what it reads as
  <1>37. /\ Collected(r, o) \in Maps /\ DOMAIN Collected(r, o) = DOMAIN m
         /\ \A x \in DOMAIN m \ big : Collected(r, o)[x] = m[x]
         /\ \A x \in big : Collected(r, o)[x] = Stored(made, x)
    <2>0. DOMAIN Held(r, o) = DOMAIN m /\ DOMAIN r.file[o].body = {}
      BY <1>17, <1>22, <1>23, <1>24, NoneIsPart
    <2>1. Collected(r, o) \in Maps /\ DOMAIN Collected(r, o) = DOMAIN m
      BY <1>23, <1>27, <2>0, CollectedNames
    <2>2. \A x \in DOMAIN m : Collected(r, o)[x] = IF items[x].ea = Inline THEN items[x].val
                                                   ELSE put.ea[items[x].ea].val
      <3>1. \A x \in DOMAIN m : x \in DOMAIN Held(r, o) /\ x \notin DOMAIN r.file[o].body
        BY <2>0
      <3>2. \A x \in DOMAIN m : Collected(r, o)[x] = IF Held(r, o)[x].ea = Inline THEN Held(r, o)[x].val
                                                     ELSE r.ea[Held(r, o)[x].ea].val
        BY <1>23, <1>27, <3>1, CollectedHeld
      <3> QED
        BY <1>23, <1>24, <3>2
    <2>3. \A x \in big : Stored(made, x) = put.ea[ea[x]].val
      BY DEF Stored, put, ea
    <2>4. big \subseteq DOMAIN m
      BY DEF big, Spilled
    <2>5. \A x \in DOMAIN m \ big : Collected(r, o)[x] = m[x]
      BY <1>17, <2>2
    <2>6. \A x \in big : Collected(r, o)[x] = Stored(made, x)
      BY <1>17, <2>2, <2>3, <2>4
    <2> QED
      BY <2>1, <2>5, <2>6
  <1>38. /\ \A x \in big : IsCut(Stored(made, x), m[x])
         /\ FreeBlocks(put) # {} => \A x \in big : Stored(made, x) = m[x]
         /\ \A x, y \in big : Stored(made, x) # m[x] /\ Stored(made, y) # m[y] => x = y
    BY <1>6 DEF Made, put
  <1>39. own = NoBlock => Collected(r, o) = m
    <2> SUFFICES ASSUME own = NoBlock PROVE Collected(r, o) = m
      OBVIOUS
    <2>1. \A x \in DOMAIN m : Collected(r, o)[x] = m[x]
      BY <1>13, <1>37, <1>38
    <2> QED
      BY <1>37, <2>1, PartsSame DEF Maps
  <1>40. ASSUME NEW x \in DOMAIN m, Collected(r, o)[x] # m[x]
         PROVE  FreeBlocks(r) = {} /\ x \in big /\ (n \in big => x = n)
    <2>1. x \in big /\ Stored(made, x) # m[x]
      BY <1>37, <1>40
    <2>2. FreeBlocks(put) = {} /\ own # NoBlock
      BY <1>13, <1>38, <2>1
    <2>3. DOMAIN r.block = DOMAIN s.block
      BY <1>13, <1>14, <1>19, <1>23, <2>2 DEF own
    <2>4. FreeBlocks(r) = Blocks \ (DOMAIN s.block \cup UNION {put.ea[e].blocks : e \in DOMAIN put.ea})
      BY <1>23, <2>3 DEF FreeBlocks
    <2>5. FreeBlocks(r) = {}
      BY <1>15, <2>2, <2>4
    <2> QED
      BY <1>6, <2>1, <2>5
  <1>41. Nearly(r, o, m, n)
    <2>1. \A x \in DOMAIN m \ big : IsCut(m[x], m[x])
      BY MapIs, IsCutSelf
    <2>2. \A x \in DOMAIN m : IsCut(Collected(r, o)[x], m[x])
      BY <1>37, <1>38, <2>1
    <2>3. \A x, y \in DOMAIN m : Collected(r, o)[x] # m[x] /\ Collected(r, o)[y] # m[y] => x = y
      BY <1>37, <1>38
    <2>4. \A x \in DOMAIN m : Collected(r, o)[x] # m[x] =>
              FreeBlocks(r) = {} /\ x \in Spilled(m) /\ (n \in Spilled(m) => x = n)
      BY <1>40 DEF big
    <2> QED
      BY <1>37, <2>2, <2>3, <2>4 DEF Nearly, ReadsAs
  <1> QED
    BY <1>36, <1>39, <1>41 DEF r, own

-----------------------------------------------------------------------------
(* Storing and setting. *)

\* Two steps on one file.
LEMMA LeavesTwice ==
    ASSUME NEW s, NEW t, NEW r, NEW o, NEW gone, Leaves(s, t, o, gone), Leaves(t, r, o, gone)
    PROVE  Leaves(s, r, o, gone)
  BY DEF Leaves

\* xattr_store, when it succeeds: the file has the attributes it is given, one of
\* them cut perhaps if it had a block.
LEMMA StoreDoes ==
    ASSUME NEW s, NEW gone, Sound(s, gone), NEW o \in Files, s.file[o].live,
           NEW m \in Maps, NEW n, Store(s, o, m, n).ok
    PROVE  /\ Leaves(s, Store(s, o, m, n), o, gone)
           /\ Nearly(Store(s, o, m, n), o, m, n)
           /\ s.file[o].block = NoBlock => Collected(Store(s, o, m, n), o) = m
  <1> DEFINE t == WriteBody(s, o, <<>>)
             r == Store(s, o, m, n)
  <1>1. <<>> \in Maps
    BY NoneIsPart DEF Maps
  <1>2. Leaves(s, t, o, gone) /\ t.file[o].body = <<>> /\ t.file[o].block = s.file[o].block
    BY <1>1, WriteBodyDoes
  <1>3. Sound(t, gone) /\ t.file[o].live
    BY <1>2 DEF Leaves
  <1>4. r = IF m = <<>> THEN FreeBlock(t, o)
            ELSE IF s.file[o].block = NoBlock /\ FitsBody(m) THEN WriteBody(s, o, m)
            ELSE WriteBlock(t, o, m, n)
    BY DEF Store
  <1>5. r.ok
    OBVIOUS
  <1> HIDE DEF t, r
  <1>6. CASE m = <<>>
    <2>1. Leaves(t, r, o, gone) /\ Collected(r, o) = m
      BY <1>2, <1>3, <1>4, <1>6, FreeBlockDoes
    <2> QED
      BY <1>2, <2>1, LeavesTwice, ExactIsNearly DEF r
  <1>7. CASE m # <<>> /\ s.file[o].block = NoBlock /\ FitsBody(m)
    <2>1. Leaves(s, r, o, gone) /\ Collected(r, o) = m
      BY <1>4, <1>7, WriteBodyDoes
    <2> QED
      BY <2>1, ExactIsNearly DEF r
  <1>8. CASE m # <<>> /\ ~(s.file[o].block = NoBlock /\ FitsBody(m))
    <2>1. r = WriteBlock(t, o, m, n)
      BY <1>4, <1>8
    <2>2. /\ Leaves(t, r, o, gone) /\ Nearly(r, o, m, n)
          /\ t.file[o].block = NoBlock => Collected(r, o) = m
      BY <1>2, <1>3, <1>5, <1>8, <2>1, WriteBlockDoes
    <2> QED
      BY <1>2, <2>2, LeavesTwice DEF r
  <1> QED
    BY <1>6, <1>7, <1>8

\* What a file has is a map of lists.
LEMMA CollectedIsMap ==
    ASSUME NEW s, NEW gone, Sound(s, gone), NEW o \in Files
    PROVE  Collected(s, o) \in Maps
  BY CollectedNames DEF Sound

\* xattr_set, when it succeeds: one attribute is set, the others stay.
LEMMA SetDoes ==
    ASSUME NEW s, NEW gone, Sound(s, gone), NEW o \in Files, s.file[o].live,
           NEW n \in AttrNames, NEW v \in Lists, Set(s, o, n, v).ok
    PROVE  /\ Leaves(s, Set(s, o, n, v), o, gone)
           /\ Nearly(Set(s, o, n, v), o, Put(Collected(s, o), n, v), n)
           /\ s.file[o].block = NoBlock => Collected(Set(s, o, n, v), o) = Put(Collected(s, o), n, v)
  <1> DEFINE m == Put(Collected(s, o), n, v)
  <1>1. m \in Maps
    BY CollectedIsMap, PutIsPart DEF Maps
  <1>2. Set(s, o, n, v) = Store(s, o, m, n)
    BY DEF Set, Sound
  <1> HIDE DEF m
  <1>3. /\ Leaves(s, Set(s, o, n, v), o, gone)
        /\ Nearly(Set(s, o, n, v), o, m, n)
        /\ s.file[o].block = NoBlock => Collected(Set(s, o, n, v), o) = m
    BY <1>1, <1>2, StoreDoes
  <1> QED
    BY <1>3 DEF m

\* The access list and the default list a directory inherits are equally long.
LongAlike(m) == {Access, Default} \subseteq DOMAIN m => Len(m[Access]) = Len(m[Default])

\* Two attributes are set, and the rest stays; the access list is whole.
LEMMA SetAllDoes ==
    ASSUME NEW s, NEW gone, Sound(s, gone), NEW o \in Files, s.file[o].live, s.file[o].block = NoBlock,
           NEW m \in Maps, DOMAIN m \subseteq {Access, Default}, LongAlike(m), SetAll(s, o, m).ok
    PROVE  /\ Leaves(s, SetAll(s, o, m), o, gone)
           /\ Nearly(SetAll(s, o, m), o, Over(m, Collected(s, o)), Default)
           /\ Access \in DOMAIN m => Collected(SetAll(s, o, m), o)[Access] = m[Access]
  <1> DEFINE t == IF Access \in DOMAIN m THEN Set(s, o, Access, m[Access]) ELSE s
             r == IF Default \in DOMAIN m THEN Set(t, o, Default, m[Default]) ELSE t
             c == Collected(s, o)
             d == Collected(t, o)
             e == Collected(r, o)
             w == Over(m, c)
  <1>1. SetAll(s, o, m) = r
    BY DEF SetAll
  <1>2. \A n \in DOMAIN m : m[n] \in Lists
    BY MapIs
  <1>3. {Access, Default} \subseteq AttrNames /\ Access # Default
    BY XattrConstants
  <1> HIDE DEF t
  <1>4. t.ok
    BY <1>1 DEF Set
  <1>5. /\ Leaves(s, t, o, gone)
        /\ Access \in DOMAIN m => d = Put(c, Access, m[Access])
        /\ Access \notin DOMAIN m => d = c
    <2>1. CASE Access \in DOMAIN m
      BY <1>2, <1>3, <1>4, <2>1, SetDoes DEF t
    <2>2. CASE Access \notin DOMAIN m
      BY <2>2 DEF t, Leaves
    <2> QED
      BY <2>1, <2>2
  <1>6. Sound(t, gone) /\ t.file[o].live
    BY <1>5 DEF Leaves
  <1>7. c \in Maps /\ d \in Maps
    BY <1>6, CollectedIsMap
  <1>8. w \in Maps
    BY <1>7, OverIsPart DEF Maps
  <1> HIDE DEF c, d, e
  <1>9. /\ DOMAIN d = DOMAIN c \cup (DOMAIN m \cap {Access})
        /\ \A n \in DOMAIN d : d[n] = IF n \in DOMAIN m \cap {Access} THEN m[n] ELSE c[n]
    <2>1. CASE Access \in DOMAIN m
      BY <1>5, <2>1 DEF Put
    <2>2. CASE Access \notin DOMAIN m
      BY <1>5, <2>2
    <2> QED
      BY <2>1, <2>2
  <1>10. DOMAIN w = DOMAIN m \cup DOMAIN c
         /\ \A n \in DOMAIN m \cup DOMAIN c : w[n] = IF n \in DOMAIN m THEN m[n] ELSE c[n]
    BY DEF Over
  <1> HIDE DEF w
  <1>11. CASE Default \in DOMAIN m
    <2> DEFINE u == Put(d, Default, m[Default])
    <2>1. r = Set(t, o, Default, m[Default])
      BY <1>11
    <2>2. r.ok
      BY <1>1
    <2> HIDE DEF r
    <2>3. Leaves(t, r, o, gone) /\ Nearly(r, o, u, Default)
      BY <1>2, <1>3, <1>6, <1>11, <2>1, <2>2, SetDoes DEF d
    <2>4. u = w
      <3>1. u \in Maps
        BY <1>2, <1>3, <1>7, <1>11, PutIsPart DEF Maps
      <3>2. DOMAIN u = DOMAIN d \cup {Default} /\ u[Default] = m[Default]
            /\ \A n \in DOMAIN d \ {Default} : u[n] = d[n]
        BY DEF Put
      <3> HIDE DEF u
      <3>3. DOMAIN u = DOMAIN w
        BY <1>9, <1>10, <1>11, <3>2
      <3>4. \A n \in DOMAIN u : u[n] = w[n]
        BY <1>9, <1>10, <1>11, <3>2
      <3> QED
        BY <1>8, <3>1, <3>3, <3>4, PartsSame DEF Maps
    <2> HIDE DEF u
    <2>5. ASSUME Access \in DOMAIN m PROVE e[Access] = m[Access]
      <3> SUFFICES ASSUME e[Access] # m[Access] PROVE FALSE
        OBVIOUS
      <3>1. w[Access] = m[Access] /\ w[Default] = m[Default] /\ {Access, Default} \subseteq DOMAIN w
        BY <1>10, <1>11, <2>5
      <3>2. Len(w[Access]) = Len(w[Default])
        BY <1>11, <2>5, <3>1 DEF LongAlike
      <3>3. Access \in Spilled(w) /\ (Default \in Spilled(w) => Access = Default)
        BY <2>3, <2>4, <3>1 DEF Nearly, e
      <3>4. Default \in Spilled(w)
        BY <3>1, <3>2, <3>3 DEF Spilled, ValueLen
      <3> QED
        BY <1>3, <3>3, <3>4
    <2> QED
      BY <1>1, <1>5, <2>3, <2>4, <2>5, LeavesTwice DEF c, w, e
  <1>12. CASE Default \notin DOMAIN m
    <2>1. r = t
      BY <1>12
    <2>2. d = w
      <3>1. DOMAIN d = DOMAIN w /\ \A n \in DOMAIN d : d[n] = w[n]
        BY <1>9, <1>10, <1>12
      <3> QED
        BY <1>7, <1>8, <3>1, PartsSame DEF Maps
    <2>3. Nearly(t, o, w, Default)
      BY <1>8, <2>2, ExactIsNearly DEF d
    <2>4. Access \in DOMAIN m => d[Access] = m[Access]
      BY <1>10, <2>2
    <2> QED
      BY <1>1, <1>5, <2>1, <2>3, <2>4 DEF c, d, w
  <1> QED
    BY <1>11, <1>12

\* The record of a new file.
LEMMA TakenIs ==
    ASSUME NEW body \in Maps, NEW mode \in ModeType, NEW n,
           n = [live |-> TRUE, mode |-> mode, body |-> body, block |-> NoBlock, charge |-> 0]
    PROVE  /\ n \in FileRec /\ n.body = body /\ n.block = NoBlock /\ n.charge = 0
           /\ n.live /\ n.mode = mode
  BY DEF FileRec

\* The record of a removed file.
LEMMA ZeroedIs ==
    ASSUME NEW body \in Maps, NEW mode \in ModeType, NEW n,
           n = [live |-> FALSE, mode |-> mode, body |-> body, block |-> NoBlock, charge |-> 0]
    PROVE  n \in FileRec /\ n.body = body /\ n.block = NoBlock /\ ~n.live
  BY DEF FileRec

\* A slot that a new file gets.
LEMMA NewSlotDoes ==
    ASSUME NEW s, NEW gone, Sound(s, gone), NEW o \in Files, ~s.file[o].live, NEW mode \in ModeType
    PROVE  /\ Swap(s, NewSlot(s, o, mode), o)
           /\ NewSlot(s, o, mode).file[o].live /\ NewSlot(s, o, mode).file[o].mode = mode
           /\ NewSlot(s, o, mode).file[o].block = NoBlock
           /\ DOMAIN Collected(NewSlot(s, o, mode), o) = DOMAIN s.file[o].body
  <1> DEFINE n == [s.file[o] EXCEPT !.live = TRUE, !.mode = mode, !.block = NoBlock, !.charge = 0]
             r == NewSlot(s, o, mode)
  <1>1. s \in Image /\ s.file[o] \in FileRec /\ s.ok
    BY DEF Sound, Image
  <1>2. /\ n \in FileRec /\ n.body = s.file[o].body /\ n.block = NoBlock /\ n.charge = 0
        /\ n.live /\ n.mode = mode
    <2> DEFINE body == s.file[o].body
    <2>1. n = [live |-> TRUE, mode |-> mode, body |-> body, block |-> NoBlock, charge |-> 0]
      <3> DEFINE f == s.file[o]
      <3>1. f \in FileRec /\ n = [f EXCEPT !.live = TRUE, !.mode = mode, !.block = NoBlock, !.charge = 0]
        BY <1>1
      <3> HIDE DEF f, n
      <3>2. n = [live |-> TRUE, mode |-> mode, body |-> f.body, block |-> NoBlock, charge |-> 0]
        BY <3>1 DEF FileRec
      <3> QED
        BY <3>2 DEF f
    <2>2. body \in Maps
      BY <1>1 DEF FileRec
    <2> HIDE DEF body, n
    <2>3. /\ n \in FileRec /\ n.body = body /\ n.block = NoBlock /\ n.charge = 0
          /\ n.live /\ n.mode = mode
      BY <2>1, <2>2, TakenIs
    <2> QED
      BY <2>3 DEF body
  <1>3. r = [s EXCEPT !.file[o] = n]
    BY DEF NewSlot
  <1> HIDE DEF n, r
  <1>4. /\ r \in Image /\ r.ok /\ r.block = s.block /\ r.ea = s.ea
        /\ r.file[o] = n /\ \A p \in Files \ {o} : r.file[p] = s.file[p]
    BY <1>1, <1>2, <1>3 DEF Image
  <1>5. s.file[o].block = NoBlock
    BY DEF Sound, Charged
  <1>6. /\ Held(r, o) = <<>> /\ EasOf(r, o) = {} /\ Refs(r, o) = {} /\ Refs(s, o) = {}
        /\ DOMAIN Held(r, o) = {}
    <2>1. Held(r, o) = <<>> /\ Held(s, o) = <<>>
      BY <1>2, <1>4, <1>5 DEF Held
    <2>2. EasOf(r, o) = {} /\ EasOf(s, o) = {}
      BY <2>1, NoneIsPart DEF EasOf
    <2> QED
      BY <1>2, <1>4, <1>5, <2>1, <2>2, NoneIsPart DEF Refs
  <1>7. Placed(r, o)
    BY <1>2, <1>4, <1>6 DEF Placed
  <1>8. Charged(r, o)
    <2>1. UnitsIn({}, r.ea) = 0
      BY UnitsInNone
    <2> QED
      BY <1>2, <1>4, <1>6, <2>1 DEF Charged
  <1>9. InUse(r) = InUse(s)
    BY <1>4 DEF InUse
  <1>0. Disjoint(r)
    BY <1>4 DEF Sound, Disjoint
  <1>10. Swap(s, r, o)
    BY <1>0, <1>4, <1>6, <1>7, <1>8, <1>9 DEF Swap
  <1>11. DOMAIN Collected(r, o) = DOMAIN s.file[o].body
    BY <1>2, <1>4, <1>6, <1>7, CollectedNames
  <1> QED
    BY <1>2, <1>4, <1>10, <1>11 DEF r

-----------------------------------------------------------------------------
(* The invariant. *)

\* Nothing is used by two or forgotten, every live file is charged for what it
\* uses, and it reads as what it should have, with values that are cut.
IInv ==
    /\ Sound(fs, lost)
    /\ attrs \in [Files -> Maps]
    /\ \A o \in Files : fs.file[o].live => ReadsAs(Collected(fs, o), attrs[o])

\* the values that a step cuts
CutNow(o) ==
    {n \in DOMAIN attrs'[o] :
        /\ fs'.file[o].live /\ Collected(fs', o)[n] # attrs'[o][n]
        /\ n \in DOMAIN Collected(fs, o) => Collected(fs', o)[n] # Collected(fs, o)[n]}

\* A step on file o cuts one at most, and none unless it leaves no block.
AtTheEnd(o) ==
    /\ \A p \in Files \ {o} : CutNow(p) = {}
    /\ \A x, y \in CutNow(o) : x = y /\ FreeBlocks(fs') = {}

\* A file that reads as before has nothing cut.
LEMMA UntouchedIsWhole ==
    ASSUME IInv, NEW p \in Files, fs'.file[p].live => fs.file[p].live,
           fs'.file[p].live => Collected(fs', p) = Collected(fs, p) /\ attrs'[p] = attrs[p]
    PROVE  CutNow(p) = {}
  <1> SUFFICES ASSUME NEW n \in CutNow(p) PROVE FALSE
    OBVIOUS
  <1>1. /\ n \in DOMAIN attrs'[p] /\ fs'.file[p].live
        /\ n \in DOMAIN Collected(fs, p) => Collected(fs', p)[n] # Collected(fs, p)[n]
    BY DEF CutNow
  <1>2. DOMAIN Collected(fs, p) = DOMAIN attrs[p]
    BY <1>1 DEF IInv, ReadsAs
  <1> QED
    BY <1>1, <1>2

\* A file that reads nearly as it should has one value cut at most, which is one
\* that does not read as it was to be stored.
LEMMA NearlyIsAtTheEnd ==
    ASSUME NEW o \in Files, NEW w, NEW n, Nearly(fs', o, w, n),
           \A x \in CutNow(o) : x \in DOMAIN w /\ Collected(fs', o)[x] # w[x]
    PROVE  \A x, y \in CutNow(o) : x = y /\ FreeBlocks(fs') = {}
  BY DEF Nearly

\* It holds at first.
LEMMA InitHolds ==
    Init => IInv
  <1> SUFFICES ASSUME Init PROVE IInv
    OBVIOUS
  <1>1. <<>> \in Maps /\ <<>> \in Parts(Blocks, Items) /\ <<>> \in Eas /\ DOMAIN <<>> = {}
    BY NoneIsPart DEF Maps, Eas
  <1>2. Mode({}, {}, {}) \in ModeType
    BY DEF Mode, ModeType
  <1>3. fs \in Image /\ fs.ok /\ fs.block = <<>> /\ fs.ea = <<>>
        /\ \A o \in Files : fs.file[o].block = NoBlock /\ fs.file[o].body = <<>> /\ fs.file[o].charge = 0
    <2> DEFINE rec(o) == [live |-> o = Top, mode |-> Mode({}, {}, {}),
                          body |-> <<>>, block |-> NoBlock, charge |-> 0]
               files == [o \in Files |-> rec(o)]
    <2>1. \A o \in Files : /\ rec(o) \in FileRec /\ rec(o).block = NoBlock /\ rec(o).body = <<>>
                           /\ rec(o).charge = 0
      BY <1>1, <1>2 DEF FileRec
    <2>2. fs = [file |-> files, block |-> <<>>, ea |-> <<>>, ok |-> TRUE]
      BY DEF Init
    <2> HIDE DEF rec
    <2>3. files \in [Files -> FileRec]
      BY <2>1
    <2>4. \A o \in Files : files[o] = rec(o)
      OBVIOUS
    <2> HIDE DEF files
    <2> QED
      BY <1>1, <2>1, <2>2, <2>3, <2>4 DEF Image
  <1>4. \A o \in Files : Held(fs, o) = <<>> /\ EasOf(fs, o) = {} /\ Refs(fs, o) = {}
    <2> TAKE o \in Files
    <2>1. Held(fs, o) = <<>>
      BY <1>3 DEF Held
    <2>2. EasOf(fs, o) = {}
      BY <1>1, <2>1 DEF EasOf
    <2> QED
      BY <1>3, <2>1, <2>2 DEF Refs
  <1>5. \A o \in Files : Placed(fs, o)
    BY <1>3, <1>4 DEF Placed
  <1>6. \A o \in Files : Charged(fs, o)
    <2> TAKE o \in Files
    <2>1. UnitsIn(EasOf(fs, o), fs.ea) = 0
      BY <1>4, UnitsInNone
    <2>2. fs.file[o].block = NoBlock /\ fs.file[o].charge = 0
      BY <1>3
    <2> QED
      BY <2>1, <2>2 DEF Charged
  <1>7. Apart(fs)
    BY <1>4 DEF Apart
  <1>8. Accounted(fs, lost)
    <2>1. lost = {} /\ InUse(fs) = {}
      BY <1>1, <1>3 DEF Init, InUse
    <2> QED
      BY <1>4, <2>1, AccountedIs
  <1>0. Disjoint(fs)
    BY <1>1, <1>3 DEF Disjoint
  <1>9. Sound(fs, lost)
    BY <1>0, <1>3, <1>5, <1>6, <1>7, <1>8 DEF Sound
  <1>10. attrs \in [Files -> Maps] /\ \A o \in Files : attrs[o] = <<>>
    BY <1>1 DEF Init
  <1>11. \A o \in Files : Collected(fs, o) = <<>>
    <2> TAKE o \in Files
    <2>0. Held(fs, o) = <<>> /\ fs.file[o].body = <<>> /\ Placed(fs, o)
      BY <1>3, <1>4, <1>5
    <2>1. Collected(fs, o) \in Maps /\ DOMAIN Collected(fs, o) = {}
      BY <1>1, <1>3, <2>0, CollectedNames
    <2> QED
      BY <1>1, <2>1, PartsSame DEF Maps
  <1>12. ReadsAs(<<>>, <<>>)
    BY <1>1, ReadsAsSelf
  <1> QED
    BY <1>9, <1>10, <1>11, <1>12 DEF IInv

\* What journaled() keeps: the image of a call that did its work, or nothing.
LEMMA ReturnsHolds ==
    ASSUME IInv, Journaled, NEW r, NEW o \in Files, NEW m \in Maps, Returns(r, o, m),
           r.ok => /\ Sound(r, lost) /\ ReadsAs(Collected(r, o), m)
                   /\ \A p \in Files \ {o} : r.file[p] = fs.file[p] /\ Collected(r, p) = Collected(fs, p)
    PROVE  /\ IInv'
           /\ ~r.ok => fs' = fs /\ attrs' = attrs
           /\ r.ok => fs' = r /\ attrs' = [attrs EXCEPT ![o] = m]
           /\ \A p \in Files \ {o} : fs'.file[p] = fs.file[p] /\ CutNow(p) = {}
           /\ ~r.ok => CutNow(o) = {}
  <1>1. CASE ~r.ok
    <2>1. fs' = fs /\ attrs' = attrs /\ lost' = lost
      BY <1>1 DEF Returns, Keep
    <2>2. \A p \in Files : CutNow(p) = {}
      BY <2>1, UntouchedIsWhole
    <2>3. IInv'
      BY <2>1 DEF IInv
    <2> QED
      BY <1>1, <2>1, <2>2, <2>3
  <1>2. CASE r.ok
    <2>1. r \in Image
      BY <1>2 DEF Sound
    <2>2. [r EXCEPT !.ok = TRUE] = r
      BY <1>2, <2>1 DEF Image
    <2>3. fs' = r /\ attrs' = [attrs EXCEPT ![o] = m] /\ lost' = lost
      BY <1>2, <2>2 DEF Returns, Keep
    <2>4. attrs' \in [Files -> Maps] /\ attrs'[o] = m /\ \A p \in Files \ {o} : attrs'[p] = attrs[p]
      BY <2>3 DEF IInv
    <2>5. \A p \in Files : r.file[p].live => ReadsAs(Collected(r, p), attrs'[p])
      BY <1>2, <2>4 DEF IInv
    <2>6. \A p \in Files \ {o} : fs'.file[p] = fs.file[p] /\ Collected(fs', p) = Collected(fs, p)
      BY <1>2, <2>3
    <2>7. \A p \in Files \ {o} : CutNow(p) = {}
      BY <2>4, <2>6, UntouchedIsWhole
    <2>8. IInv'
      BY <1>2, <2>3, <2>4, <2>5 DEF IInv
    <2> QED
      BY <1>2, <2>3, <2>6, <2>7, <2>8
  <1> QED
    BY <1>1, <1>2

\* xattr_set keeps it, and the files there are.
LEMMA XattrSetHolds ==
    ASSUME IInv, Journaled, NEW o \in Live, NEW n \in AttrNames, NEW v \in Values, NEW flag,
           XattrSet(o, n, v, flag)
    PROVE  IInv' /\ AtTheEnd(o) /\ \A p \in Files : fs'.file[p].live = fs.file[p].live
  <1> DEFINE r == Set(fs, o, n, v)
             m == Put(attrs[o], n, v)
             c == Collected(fs, o)
             w == Put(c, n, v)
  <1>1. o \in Files /\ fs.file[o].live /\ Sound(fs, lost) /\ ReadsAs(c, attrs[o]) /\ attrs[o] \in Maps
    BY DEF Live, IInv
  <1>2. v \in Lists
    BY XattrConstants DEF Lists, WellFormed
  <1>3. r.ok => Leaves(fs, r, o, lost) /\ Nearly(r, o, w, n)
    BY <1>1, <1>2, SetDoes
  <1>4. m \in Maps /\ ReadsAs(w, m)
    BY <1>1, <1>2, PutIsPart, ReadsAsPut DEF Maps
  <1>5. Returns(r, o, m)
    BY DEF XattrSet
  <1>6. DOMAIN m = DOMAIN w /\ w[n] = v /\ m[n] = v /\ \A x \in DOMAIN w \ {n} : x \in DOMAIN c /\ w[x] = c[x]
    BY <1>4 DEF Put, ReadsAs
  <1> HIDE DEF r, m, w
  <1>7. r.ok => ReadsAs(Collected(r, o), m)
    BY <1>3, <1>4, ReadsAsTwice DEF Nearly
  <1>8. /\ IInv' /\ (~r.ok => fs' = fs /\ CutNow(o) = {})
        /\ r.ok => fs' = r /\ attrs' = [attrs EXCEPT ![o] = m]
        /\ \A p \in Files \ {o} : fs'.file[p] = fs.file[p] /\ CutNow(p) = {}
    BY <1>1, <1>3, <1>4, <1>5, <1>7, ReturnsHolds DEF Leaves
  <1>9. ASSUME r.ok PROVE \A x, y \in CutNow(o) : x = y /\ FreeBlocks(fs') = {}
    <2>1. attrs'[o] = m
      BY <1>1, <1>8, <1>9 DEF IInv
    <2>2. ASSUME NEW x \in CutNow(o) PROVE x \in DOMAIN w /\ Collected(fs', o)[x] # w[x]
      <3>1. /\ x \in DOMAIN m /\ Collected(fs', o)[x] # m[x]
            /\ x \in DOMAIN c => Collected(fs', o)[x] # c[x]
        BY <2>1 DEF CutNow
      <3> HIDE DEF c
      <3> QED
        BY <1>6, <3>1
    <2>3. Nearly(fs', o, w, n)
      BY <1>3, <1>8, <1>9
    <2> QED
      BY <1>1, <2>2, <2>3, NearlyIsAtTheEnd
  <1>10. AtTheEnd(o)
    BY <1>8, <1>9 DEF AtTheEnd
  <1>11. \A p \in Files : fs'.file[p].live = fs.file[p].live
    BY <1>3, <1>8 DEF Leaves
  <1> QED
    BY <1>8, <1>10, <1>11

\* xattr_remove keeps it, and the files there are.
LEMMA XattrRemoveHolds ==
    ASSUME IInv, Journaled, NEW o \in Live, NEW n \in AttrNames, XattrRemove(o, n)
    PROVE  IInv' /\ AtTheEnd(o) /\ \A p \in Files : fs'.file[p].live = fs.file[p].live
  <1> DEFINE c == Collected(fs, o)
             m == Without(attrs[o], {n})
             w == Without(c, {n})
             r == Store(fs, o, w, n)
  <1>1. o \in Files /\ fs.file[o].live /\ Sound(fs, lost) /\ ReadsAs(c, attrs[o]) /\ attrs[o] \in Maps
    BY DEF Live, IInv
  <1>2. m \in Maps /\ w \in Maps /\ ReadsAs(w, m)
    BY <1>1, CollectedIsMap, WithoutIsPart, ReadsAsWithout DEF Maps
  <1>3. Returns(r, o, m)
    BY DEF XattrRemove
  <1>4. DOMAIN m = DOMAIN w /\ \A x \in DOMAIN w : x \in DOMAIN c /\ w[x] = c[x]
    BY <1>2 DEF Without, Restrict, ReadsAs
  <1> HIDE DEF m, w
  <1>5. r.ok => Leaves(fs, r, o, lost) /\ Nearly(r, o, w, n)
    BY <1>1, <1>2, StoreDoes
  <1> HIDE DEF r
  <1>6. r.ok => ReadsAs(Collected(r, o), m)
    BY <1>2, <1>5, ReadsAsTwice DEF Nearly
  <1>7. /\ IInv' /\ (~r.ok => fs' = fs /\ CutNow(o) = {})
        /\ r.ok => fs' = r /\ attrs' = [attrs EXCEPT ![o] = m]
        /\ \A p \in Files \ {o} : fs'.file[p] = fs.file[p] /\ CutNow(p) = {}
    BY <1>1, <1>2, <1>3, <1>5, <1>6, ReturnsHolds DEF Leaves
  <1>8. ASSUME r.ok PROVE \A x, y \in CutNow(o) : x = y /\ FreeBlocks(fs') = {}
    <2>1. attrs'[o] = m
      BY <1>1, <1>7, <1>8 DEF IInv
    <2>2. ASSUME NEW x \in CutNow(o) PROVE x \in DOMAIN w /\ Collected(fs', o)[x] # w[x]
      <3>1. x \in DOMAIN m /\ (x \in DOMAIN c => Collected(fs', o)[x] # c[x])
        BY <2>1 DEF CutNow
      <3> HIDE DEF c
      <3> QED
        BY <1>4, <3>1
    <2>3. Nearly(fs', o, w, n)
      BY <1>5, <1>7, <1>8
    <2> QED
      BY <1>1, <2>2, <2>3, NearlyIsAtTheEnd
  <1>9. AtTheEnd(o)
    BY <1>7, <1>8 DEF AtTheEnd
  <1>10. \A p \in Files : fs'.file[p].live = fs.file[p].live
    BY <1>5, <1>7 DEF Leaves
  <1> QED
    BY <1>7, <1>9, <1>10

\* What a new file gets: lists of the kind that calls set.
LEMMA InheritedIs ==
    ASSUME NEW m \in Maps, NEW mode \in ModeType, NEW isdir \in BOOLEAN
    PROVE  /\ NewMode(m, mode) \in ModeType
           /\ Inherited(m, mode, isdir) \in Maps
           /\ DOMAIN Inherited(m, mode, isdir) \subseteq {Access, Default}
           /\ LongAlike(Inherited(m, mode, isdir))
           /\ Access \in DOMAIN Inherited(m, mode, isdir) =>
                  /\ Default \in DOMAIN m /\ m[Default] \in Lists
                  /\ Inherited(m, mode, isdir)[Access] = Masq(m[Default], mode)
                  /\ NewMode(m, mode) = MasqMode(m[Default], mode)
  <1> DEFINE r == Inherited(m, mode, isdir)
             acl == m[Default]
  <1>1. NewMode(m, mode) \in ModeType
    <2>1. CASE Default \in DOMAIN m
      <3>1. NewMode(m, mode) = MasqMode(acl, mode)
        BY <2>1 DEF NewMode
      <3> HIDE DEF acl
      <3>2. MasqMode(acl, mode) \in ModeType
        BY DEF MasqMode, Mode, ModeType
      <3> QED
        BY <3>1, <3>2
    <2>2. CASE Default \notin DOMAIN m
      BY <2>2 DEF NewMode, Mode, ModeType
    <2> QED
      BY <2>1, <2>2
  <1>2. CASE Default \notin DOMAIN m
    <2>1. r = <<>>
      BY <1>2 DEF Inherited
    <2> QED
      BY <1>1, <2>1, NoneIsPart DEF Maps, LongAlike
  <1>3. CASE Default \in DOMAIN m
    <2>1. acl \in Lists
      BY <1>3, MapIs
    <2> DEFINE new == Masq(acl, mode)
               D == (IF SaysMore(acl) THEN {Access} ELSE {}) \cup (IF isdir THEN {Default} ELSE {})
    <2>2. new \in Lists /\ Len(new) = Len(acl)
      <3> HIDE DEF acl
      <3>1. acl \in Seq(Entry) /\ Ordered(acl)
        BY <2>1 DEF Lists
      <3>2. new \in Seq(Entry) /\ Len(new) = Len(acl)
        BY <3>1, MasqIs
      <3>3. Ordered(new)
        BY <3>1, MasqOrdered
      <3> QED
        BY <3>1, <3>2, <3>3 DEF Lists
    <2>3. r = [n \in D |-> IF n = Access THEN new ELSE acl]
      BY <1>3 DEF Inherited
    <2>4. D \subseteq {Access, Default} /\ {Access, Default} \subseteq AttrNames
      BY XattrConstants
    <2> HIDE DEF r, acl, new, D
    <2>5. r \in [D -> Lists]
      BY <2>1, <2>2, <2>3
    <2>6. r \in Maps /\ DOMAIN r = D
      BY <2>4, <2>5 DEF Maps, Parts
    <2>7. Access \in DOMAIN r => r[Access] = new
      BY <2>3
    <2>9. LongAlike(r)
      <3>1. Default \in DOMAIN r => r[Default] = acl
        BY <2>3, XattrConstants
      <3> QED
        BY <2>2, <2>7, <3>1 DEF LongAlike
    <2>8. NewMode(m, mode) = MasqMode(acl, mode)
      BY <1>3 DEF NewMode, acl
    <2> QED
      BY <1>1, <1>3, <2>1, <2>4, <2>6, <2>7, <2>8, <2>9 DEF r, acl, new
  <1> QED
    BY <1>2, <1>3

\* A new file: its attributes and its mode.
LEMMA CreateHolds ==
    ASSUME IInv, Journaled, NEW o \in Files, NEW mode \in Modes, NEW isdir \in BOOLEAN,
           Create(o, mode, isdir)
    PROVE  /\ IInv' /\ AtTheEnd(o) /\ ~fs.file[o].live
           /\ \A p \in Files \ {o} : fs'.file[p].live = fs.file[p].live
           /\ fs'.file[o].live =>
                  LET m == Collected(fs, Top)
                      more == Inherited(m, mode, isdir)
                  IN  /\ fs'.file[o].mode = NewMode(m, mode)
                      /\ \E c \in Maps : DOMAIN c = DOMAIN fs.file[o].body /\ attrs'[o] = Over(more, c)
                      /\ Access \in DOMAIN more => Collected(fs', o)[Access] = more[Access]
  <1> DEFINE m == Collected(fs, Top)
             now == NewMode(m, mode)
             more == Inherited(m, mode, isdir)
             slot == NewSlot(fs, o, now)
             c == Collected(slot, o)
             r == SetAll(slot, o, more)
             w == Over(more, c)
  <1>1. ~fs.file[o].live /\ Returns(r, o, w)
    BY DEF Create, Live
  <1>2. Sound(fs, lost) /\ Top \in Files /\ mode \in ModeType
    BY XattrConstants DEF IInv
  <1>3. m \in Maps
    BY <1>2, CollectedIsMap
  <1> HIDE DEF m
  <1>4. now \in ModeType /\ more \in Maps /\ DOMAIN more \subseteq {Access, Default} /\ LongAlike(more)
    BY <1>2, <1>3, InheritedIs
  <1> HIDE DEF now, more
  <1>5. /\ Swap(fs, slot, o) /\ slot.file[o].live /\ slot.file[o].mode = now
        /\ slot.file[o].block = NoBlock /\ DOMAIN c = DOMAIN fs.file[o].body
    BY <1>1, <1>2, <1>4, NewSlotDoes
  <1>6. Sound(slot, lost)
    BY <1>2, <1>5, SwapSound
  <1>7. \A p \in Files \ {o} : slot.file[p] = fs.file[p] /\ Collected(slot, p) = Collected(fs, p)
    BY <1>2, <1>5, SwapOthers
  <1> HIDE DEF slot
  <1>8. r.ok => /\ Leaves(slot, r, o, lost) /\ Nearly(r, o, w, Default)
                /\ Access \in DOMAIN more => Collected(r, o)[Access] = more[Access]
    BY <1>4, <1>5, <1>6, SetAllDoes
  <1>9. c \in Maps
    BY <1>6, CollectedIsMap
  <1> HIDE DEF c, r
  <1>10. w \in Maps
    BY <1>4, <1>9, OverIsPart DEF Maps
  <1> HIDE DEF w
  <1>11. r.ok => /\ Sound(r, lost) /\ ReadsAs(Collected(r, o), w)
                 /\ \A p \in Files \ {o} : r.file[p] = fs.file[p] /\ Collected(r, p) = Collected(fs, p)
    BY <1>7, <1>8 DEF Leaves, Nearly
  <1>12. /\ IInv' /\ (~r.ok => fs' = fs /\ CutNow(o) = {})
         /\ r.ok => fs' = r /\ attrs' = [attrs EXCEPT ![o] = w]
         /\ \A p \in Files \ {o} : fs'.file[p] = fs.file[p] /\ CutNow(p) = {}
    BY <1>1, <1>10, <1>11, ReturnsHolds
  <1>13. r.ok => attrs'[o] = w
    BY <1>12 DEF IInv
  <1>14. ASSUME r.ok PROVE \A x, y \in CutNow(o) : x = y /\ FreeBlocks(fs') = {}
    <2>1. \A x \in CutNow(o) : x \in DOMAIN w /\ Collected(fs', o)[x] # w[x]
      BY <1>13, <1>14 DEF CutNow
    <2>2. Nearly(fs', o, w, Default)
      BY <1>8, <1>12, <1>14
    <2> QED
      BY <2>1, <2>2, NearlyIsAtTheEnd
  <1>15. AtTheEnd(o)
    BY <1>12, <1>14 DEF AtTheEnd
  <1>16. ASSUME fs'.file[o].live
         PROVE  /\ fs'.file[o].mode = now /\ attrs'[o] = w
                /\ Access \in DOMAIN more => Collected(fs', o)[Access] = more[Access]
    <2>1. r.ok
      BY <1>1, <1>12, <1>16
    <2> QED
      BY <1>5, <1>8, <1>12, <1>13, <2>1 DEF Leaves
  <1>17. \A p \in Files \ {o} : fs'.file[p].live = fs.file[p].live
    BY <1>12
  <1> QED
    BY <1>1, <1>5, <1>9, <1>12, <1>15, <1>16, <1>17 DEF now, more, m, w

\* A removed file: what it referred to is left behind.
LEMMA RemoveHolds ==
    ASSUME IInv, NEW o \in Files, Remove(o)
    PROVE  /\ IInv' /\ AtTheEnd(o)
           /\ \A p \in Files : fs'.file[p].live => fs.file[p].live
  <1> DEFINE n == [fs.file[o] EXCEPT !.live = FALSE, !.mode = Mode({}, {}, {}),
                                     !.block = NoBlock, !.charge = 0]
  <1>1. Sound(fs, lost) /\ fs \in Image /\ fs.ok /\ fs.file[o] \in FileRec
    BY DEF IInv, Sound, Image
  <1>2. n \in FileRec /\ n.block = NoBlock /\ ~n.live
    <2> DEFINE body == fs.file[o].body
               none == Mode({}, {}, {})
    <2>1. n = [live |-> FALSE, mode |-> none, body |-> body, block |-> NoBlock, charge |-> 0]
      <3> DEFINE f == fs.file[o]
      <3>1. f \in FileRec /\ n = [f EXCEPT !.live = FALSE, !.mode = none, !.block = NoBlock, !.charge = 0]
        BY <1>1
      <3> HIDE DEF f, n, none
      <3>2. n = [live |-> FALSE, mode |-> none, body |-> f.body, block |-> NoBlock, charge |-> 0]
        BY <3>1 DEF FileRec
      <3> QED
        BY <3>2 DEF f
    <2>2. body \in Maps /\ none \in ModeType
      BY <1>1 DEF FileRec, Mode, ModeType
    <2> HIDE DEF body, none, n
    <2> QED
      BY <2>1, <2>2, ZeroedIs
  <1>3. fs' = [fs EXCEPT !.file[o] = n] /\ attrs' = [attrs EXCEPT ![o] = <<>>]
    BY DEF Remove
  <1>4. lost' = lost \cup Refs(fs, o)
    BY DEF Remove, Refs
  <1> HIDE DEF n
  <1>5. /\ fs' \in Image /\ fs'.ok /\ fs'.block = fs.block /\ fs'.ea = fs.ea
        /\ fs'.file[o] = n /\ \A p \in Files \ {o} : fs'.file[p] = fs.file[p]
    BY <1>1, <1>2, <1>3 DEF Image
  <1> DEFINE r == fs'
  <1> HIDE DEF r
  <1>6. /\ r \in Image /\ r.ok /\ r.block = fs.block /\ r.ea = fs.ea
        /\ r.file[o] = n /\ \A p \in Files \ {o} : r.file[p] = fs.file[p]
    BY <1>5 DEF r
  <1>7. Held(r, o) = <<>> /\ EasOf(r, o) = {} /\ Refs(r, o) = {}
    <2>1. Held(r, o) = <<>>
      BY <1>2, <1>6 DEF Held
    <2>2. EasOf(r, o) = {}
      BY <2>1, NoneIsPart DEF EasOf
    <2> QED
      BY <1>2, <1>6, <2>1, <2>2 DEF Refs
  <1>8. \A p \in Files \ {o} : /\ Held(r, p) = Held(fs, p) /\ EasOf(r, p) = EasOf(fs, p)
                               /\ Refs(r, p) = Refs(fs, p) /\ Collected(r, p) = Collected(fs, p)
    <2> TAKE p \in Files \ {o}
    <2>1. Held(r, p) = Held(fs, p)
      BY <1>6 DEF Held
    <2>2. EasOf(r, p) = EasOf(fs, p)
      BY <2>1 DEF EasOf
    <2>3. Refs(r, p) = Refs(fs, p)
      BY <1>6, <2>2 DEF Refs
    <2>4. r.file[p].body = fs.file[p].body /\ r.ea = fs.ea
      BY <1>6
    <2>5. Collected(r, p) = Collected(fs, p)
      BY <2>1, <2>4 DEF Collected
    <2> QED
      BY <2>1, <2>2, <2>3, <2>5
  <1>9. \A p \in Files : Placed(fs, p) /\ Charged(fs, p)
    BY <1>1 DEF Sound
  <1>10. \A p \in Files : Placed(r, p) /\ Charged(r, p)
    <2> TAKE p \in Files
    <2>1. CASE p = o
      BY <1>2, <1>6, <1>7, <2>1 DEF Placed, Charged
    <2>2. CASE p # o
      BY <1>6, <1>8, <1>9, <2>2 DEF Placed, Charged
    <2> QED
      BY <2>1, <2>2
  <1>11. /\ \A p, q \in Files : p # q => Refs(fs, p) \cap Refs(fs, q) = {}
         /\ lost \subseteq InUse(fs)
         /\ \A p \in Files : Refs(fs, p) \subseteq InUse(fs) /\ Refs(fs, p) \cap lost = {}
         /\ \A x \in InUse(fs) \ lost : \E p \in Files : x \in Refs(fs, p)
    BY <1>1, AccountedIs DEF Sound, Apart
  <1>12. Apart(r)
    BY <1>7, <1>8, <1>11 DEF Apart
  <1>13. Accounted(r, lost')
    <2>1. InUse(r) = InUse(fs)
      BY <1>6 DEF InUse
    <2>2. lost' \subseteq InUse(r)
      BY <1>4, <1>11, <2>1
    <2>3. \A p \in Files : Refs(r, p) \subseteq InUse(r) /\ Refs(r, p) \cap lost' = {}
      BY <1>4, <1>7, <1>8, <1>11, <2>1
    <2>4. \A x \in InUse(r) \ lost' : \E p \in Files : x \in Refs(r, p)
      BY <1>4, <1>8, <1>11, <2>1
    <2> QED
      BY <2>2, <2>3, <2>4, AccountedIs
  <1>0. Disjoint(r)
    BY <1>1, <1>6 DEF Sound, Disjoint
  <1>14. Sound(r, lost')
    BY <1>0, <1>6, <1>10, <1>12, <1>13 DEF Sound
  <1>15. /\ attrs' \in [Files -> Maps]
         /\ \A p \in Files : r.file[p].live => ReadsAs(Collected(r, p), attrs'[p])
    <2>1. <<>> \in Maps
      BY NoneIsPart DEF Maps
    <2> QED
      BY <1>2, <1>3, <1>6, <1>8, <2>1 DEF IInv
  <1>16. IInv'
    BY <1>14, <1>15 DEF IInv, r
  <1>17. \A p \in Files : r.file[p].live => fs.file[p].live
    BY <1>2, <1>6
  <1>18. \A p \in Files : CutNow(p) = {}
    <2> TAKE p \in Files
    <2>1. r.file[p].live => fs.file[p].live /\ p # o
      BY <1>2, <1>6
    <2>2. p # o => attrs'[p] = attrs[p]
      BY <1>3 DEF IInv
    <2> QED
      BY <1>8, <2>1, <2>2, UntouchedIsWhole DEF r
  <1> QED
    BY <1>16, <1>17, <1>18 DEF r, AtTheEnd

\* Every step keeps it.
LEMMA NextHolds ==
    ASSUME IInv, Journaled, [Next]_vars
    PROVE  IInv'
  <1>1. CASE \E o \in Live, n \in AttrNames, v \in Values, flag \in {"create", "replace"} :
                 XattrSet(o, n, v, flag)
    BY <1>1, XattrSetHolds
  <1>2. CASE \E o \in Live, n \in AttrNames : XattrRemove(o, n)
    BY <1>2, XattrRemoveHolds
  <1>3. CASE \E o \in Files, mode \in Modes, isdir \in BOOLEAN : Create(o, mode, isdir)
    BY <1>3, CreateHolds
  <1>4. CASE \E o \in Files : Remove(o)
    BY <1>4, RemoveHolds
  <1>5. CASE UNCHANGED vars
    BY <1>5 DEF vars, IInv
  <1> QED
    BY <1>1, <1>2, <1>3, <1>4, <1>5 DEF Next

-----------------------------------------------------------------------------
(* The theorems. *)

\* IInv is an invariant when a failed call leaves nothing (journaled(), ext4.rs:143).
THEOREM Invariance ==
    ASSUME Journaled
    PROVE  Spec => []IInv
  <1>1. IInv /\ [Next]_vars => IInv'
    BY NextHolds
  <1> QED
    BY <1>1, InitHolds, PTL DEF Spec

\* The attributes of every live file are in one place and its i_blocks counts
\* the block and the EA inodes they take (xattr.rs:488, 506, 572).
THEOREM InvHolds ==
    ASSUME Journaled
    PROVE  Spec => []Inv
  <1>1. ASSUME IInv PROVE Inv
    <2>1. fs \in Image /\ fs.ok /\ \A o \in Files : Placed(fs, o) /\ Charged(fs, o)
      BY <1>1 DEF IInv, Sound
    <2>2. /\ DOMAIN fs.block \subseteq Blocks /\ DOMAIN fs.ea \subseteq EaInodes
          /\ \A e \in DOMAIN fs.ea : fs.ea[e] \in EaRec
      BY <2>1, PartsIs DEF Image, Eas
    <2>3. TypeOK
      BY <2>1, <2>2 DEF TypeOK, Placed, EaRec
    <2>4. OnePlace
      BY <2>1 DEF OnePlace, Placed, Live
    <2>5. ChargeExact
      BY <2>1, UnitsOfIs DEF ChargeExact, Charged, Live
    <2> QED
      BY <2>3, <2>4, <2>5 DEF Inv
  <1> QED
    BY <1>1, Invariance, PTL

\* Every live file has the attributes that were set and not removed, and each
\* reads as it was set up to the end of some block, with zeros behind it, also
\* where several were cut one after the other (xattr.rs:503, 647).
THEOREM ReadsCutHolds ==
    ASSUME Journaled
    PROVE  Spec => []ReadsCut
  <1>1. ASSUME IInv PROVE ReadsCut
    <2> SUFFICES ASSUME NEW o \in Live
                 PROVE  /\ DOMAIN Collected(fs, o) = DOMAIN attrs[o]
                        /\ \A n \in DOMAIN attrs[o] :
                              \E k \in 1 .. Pages(attrs[o][n]) : Collected(fs, o)[n] = Cut(attrs[o][n], k)
      BY DEF ReadsCut
    <2>1. ReadsAs(Collected(fs, o), attrs[o]) /\ attrs[o] \in Maps
      BY <1>1 DEF IInv, Live
    <2>2. ASSUME NEW n \in DOMAIN attrs[o]
          PROVE  \E k \in 1 .. Pages(attrs[o][n]) : Collected(fs, o)[n] = Cut(attrs[o][n], k)
      <3> DEFINE v == attrs[o][n]
                 u == Collected(fs, o)[n]
      <3>1. v \in Lists /\ IsCut(u, v)
        BY <2>1, MapIs DEF ReadsAs
      <3> HIDE DEF u, v
      <3>2. PICK k \in Cuts : u = Cut(v, k)
        BY <3>1 DEF IsCut
      <3>3. Pages(v) \in Cuts
        BY <3>1, PagesIs
      <3>4. CASE k <= Pages(v)
        <4>1. k \in 1 .. Pages(v)
          BY <3>3, <3>4 DEF Cuts
        <4> QED
          BY <3>2, <4>1 DEF u, v
      <3>5. CASE ~(k <= Pages(v))
        <4>1. Pages(v) <= k /\ Pages(v) \in 1 .. Pages(v) /\ Pages(v) <= Pages(v)
          BY <3>3, <3>5 DEF Cuts
        <4>2. u = v /\ Cut(v, Pages(v)) = v
          BY <3>1, <3>2, <3>3, <4>1, CutWhole
        <4> QED
          BY <4>1, <4>2 DEF u, v
      <3> QED
        BY <3>4, <3>5
    <2> QED
      BY <2>1, <2>2 DEF ReadsAs
  <1> QED
    BY <1>1, Invariance, PTL

\* A value that takes one block, in the body, in the attribute block or in an
\* inode of its own, always reads as it was set: a short write cuts only values
\* of several blocks (xattr.rs:647, file.rs:503).
THEOREM OneBlockIsWhole ==
    ASSUME Journaled
    PROVE  Spec => [](\A o \in Live : \A n \in DOMAIN attrs[o] :
                         Pages(attrs[o][n]) = 1 => Collected(fs, o)[n] = attrs[o][n])
  <1>1. ASSUME IInv, NEW o \in Live, NEW n \in DOMAIN attrs[o], Pages(attrs[o][n]) = 1
        PROVE  Collected(fs, o)[n] = attrs[o][n]
    <2> DEFINE v == attrs[o][n]
               u == Collected(fs, o)[n]
    <2>1. ReadsAs(Collected(fs, o), attrs[o]) /\ attrs[o] \in Maps
      BY <1>1 DEF IInv, Live
    <2>2. v \in Lists /\ IsCut(u, v) /\ Pages(v) = 1
      BY <1>1, <2>1, MapIs DEF ReadsAs
    <2> HIDE DEF u, v
    <2>3. PICK k \in Cuts : u = Cut(v, k)
      BY <2>2 DEF IsCut
    <2>4. Pages(v) <= k
      BY <2>2 DEF Cuts
    <2> QED
      BY <2>2, <2>3, <2>4, CutWhole DEF u, v
  <1>2. IInv => \A o \in Live : \A n \in DOMAIN attrs[o] :
                   Pages(attrs[o][n]) = 1 => Collected(fs, o)[n] = attrs[o][n]
    BY <1>1
  <1> QED
    BY <1>2, Invariance, PTL

\* No call cuts two values, and none cuts one while a block is free: what was
\* stored before reads as before (xattr.rs:647, file.rs:503).
THEOREM CutsAtTheEndHolds ==
    ASSUME Journaled
    PROVE  Spec => CutsAtTheEnd
  <1> DEFINE cuts(o) == {n \in DOMAIN attrs'[o] :
                            /\ fs'.file[o].live /\ Collected(fs', o)[n] # attrs'[o][n]
                            /\ n \in DOMAIN Collected(fs, o) => Collected(fs', o)[n] # Collected(fs, o)[n]}
             Last == \A o, p \in Files : \A x \in cuts(o), y \in cuts(p) :
                        o = p /\ x = y /\ FreeBlocks(fs') = {}
  <1>1. ASSUME IInv, [Next]_vars PROVE Last
    <2>0. \A o : cuts(o) = CutNow(o)
      BY DEF CutNow
    <2> HIDE DEF cuts
    <2>1. ASSUME NEW q \in Files, AtTheEnd(q) PROVE Last
      <3> SUFFICES ASSUME NEW o \in Files, NEW p \in Files, NEW x \in cuts(o), NEW y \in cuts(p)
                   PROVE  o = p /\ x = y /\ FreeBlocks(fs') = {}
        OBVIOUS
      <3>1. x \in CutNow(o) /\ y \in CutNow(p)
        BY <2>0
      <3>2. o = q /\ p = q
        BY <2>1, <3>1 DEF AtTheEnd
      <3> QED
        BY <2>1, <3>1, <3>2 DEF AtTheEnd
    <2> HIDE DEF Last
    <2>2. CASE \E o \in Live, n \in AttrNames, v \in Values, flag \in {"create", "replace"} :
                   XattrSet(o, n, v, flag)
      BY <1>1, <2>1, <2>2, XattrSetHolds DEF Live
    <2>3. CASE \E o \in Live, n \in AttrNames : XattrRemove(o, n)
      BY <1>1, <2>1, <2>3, XattrRemoveHolds DEF Live
    <2>4. CASE \E o \in Files, mode \in Modes, isdir \in BOOLEAN : Create(o, mode, isdir)
      BY <1>1, <2>1, <2>4, CreateHolds
    <2>5. CASE \E o \in Files : Remove(o)
      BY <1>1, <2>1, <2>5, RemoveHolds
    <2>6. CASE UNCHANGED vars
      <3>1. \A p \in Files : CutNow(p) = {}
        <4>1. fs' = fs /\ attrs' = attrs
          BY <2>6 DEF vars
        <4> QED
          BY <1>1, <4>1, UntouchedIsWhole
      <3> QED
        BY <2>0, <3>1 DEF Last
    <2> QED
      BY <1>1, <2>2, <2>3, <2>4, <2>5, <2>6 DEF Next
  <1>2. IInv /\ [Next]_vars => [Last]_vars
    BY <1>1
  <1>3. CutsAtTheEnd <=> [][Last]_vars
    BY DEF CutsAtTheEnd
  <1> HIDE DEF Last
  <1> QED
    BY <1>2, <1>3, Invariance, PTL DEF Spec

\* No block and no EA inode is used by two files or freed while one uses it, what
\* nobody uses is what removed files left, and no block has data of two values or
\* attributes besides (xattr.rs:532, 587).
THEOREM OneOwnerHolds ==
    ASSUME Journaled
    PROVE  Spec => []OneOwner
  <1>1. ASSUME IInv PROVE OneOwner
    <2>0. \A e \in DOMAIN fs.ea :
             /\ fs.ea[e].blocks \cap DOMAIN fs.block = {}
             /\ \A f \in DOMAIN fs.ea \ {e} : fs.ea[e].blocks \cap fs.ea[f].blocks = {}
      BY <1>1 DEF IInv, Sound, Disjoint
    <2>1. Apart(fs) /\ Accounted(fs, lost) /\ \A o \in Files : Placed(fs, o) /\ Charged(fs, o)
      BY <1>1 DEF IInv, Sound
    <2>2. Live \subseteq Files /\ \A o \in Files \ Live : Refs(fs, o) = {}
      <3>1. ASSUME NEW o \in Files, ~fs.file[o].live PROVE Refs(fs, o) = {}
        <4>1. fs.file[o].block = NoBlock
          BY <2>1, <3>1 DEF Charged
        <4>2. EasOf(fs, o) = {}
          BY <4>1, NoneIsPart DEF EasOf, Held
        <4> QED
          BY <4>1, <4>2 DEF Refs
      <3> QED
        BY <3>1 DEF Live
    <2> DEFINE used == UNION {Refs(fs, o) : o \in Live}
    <2>3. \A x : x \in used <=> \E o \in Live : x \in Refs(fs, o)
      OBVIOUS
    <2> HIDE DEF used
    <2>4. used \cup lost = InUse(fs)
      <3>1. \A x \in used \cup lost : x \in InUse(fs)
        BY <2>1, <2>2, <2>3, AccountedIs
      <3>2. \A x \in InUse(fs) : x \in used \cup lost
        BY <2>1, <2>2, <2>3, AccountedIs
      <3> QED
        BY <3>1, <3>2
    <2>5. \A o, p \in Live : o # p => Refs(fs, o) \cap Refs(fs, p) = {}
      BY <2>1, <2>2 DEF Apart
    <2>6. \A o \in Live : Refs(fs, o) \cap lost = {}
      BY <2>1, <2>2, AccountedIs
    <2> QED
      BY <2>0, <2>4, <2>5, <2>6 DEF OneOwner, Refs, InUse, used
  <1> QED
    BY <1>1, Invariance, PTL

\* Every access list a live file has grants what POSIX.1e grants, for the entries
\* it has, to everybody who asks (acl.rs:126), lists that were inherited and
\* clamped and lists that were cut too.
THEOREM AccessIsPosixHolds ==
    ASSUME Journaled
    PROVE  Spec => []AccessIsPosix
  <1>1. ASSUME IInv PROVE AccessIsPosix
    <2>1. ASSUME NEW o \in Live, Access \in DOMAIN Collected(fs, o),
                 NEW uid \in Ids, NEW gid \in Ids, NEW p \in Wants
          PROVE  Granted(Collected(fs, o)[Access], Owner, Group, uid, gid, p) <=>
                     PosixGrants(Collected(fs, o)[Access], Owner, Group, uid, gid, p)
      <3>1. Collected(fs, o) \in Maps
        BY <1>1, CollectedIsMap DEF IInv, Live
      <3>2. Collected(fs, o)[Access] \in Lists
        BY <2>1, <3>1, PartsIs DEF Maps
      <3>3. Collected(fs, o)[Access] \in Seq(Entry) /\ Ordered(Collected(fs, o)[Access])
        BY <3>2 DEF Lists
      <3> QED
        BY <3>3, GrantedIsPosix
    <2> QED
      BY <2>1 DEF AccessIsPosix
  <1> QED
    BY <1>1, Invariance, PTL

\* A file that inherits an access list from a default list that was not cut, in a
\* slot that keeps no access list of a removed file, is created with a list that
\* grants nobody more than its mode (acl.rs:210).
THEOREM CreatedWithinModeHolds ==
    ASSUME Journaled
    PROVE  Spec => CreatedWithinMode
  <1> DEFINE Within(o) ==
                 /\ fs'.file[o].live /\ Access \in DOMAIN attrs'[o] \ DOMAIN fs.file[o].body
                 /\ WellFormed(Collected(fs, Top)[Default])
                 => \A uid, gid \in Ids, p \in Wants :
                         Grants(fs', o, uid, gid, p) =>
                             p \subseteq ModeFor(fs'.file[o].mode, Collected(fs', o)[Access], uid, gid)
  <1>1. ASSUME IInv, [Next]_vars, NEW o \in Files \ Live PROVE Within(o)
    <2>0. o \in Files /\ ~fs.file[o].live
      BY DEF Live
    <2>1. CASE \E q \in Live, n \in AttrNames, v \in Values, flag \in {"create", "replace"} :
                   XattrSet(q, n, v, flag)
      <3>1. fs'.file[o].live = fs.file[o].live
        BY <1>1, <2>0, <2>1, XattrSetHolds
      <3> QED
        BY <2>0, <3>1
    <2>2. CASE \E q \in Live, n \in AttrNames : XattrRemove(q, n)
      <3>1. fs'.file[o].live = fs.file[o].live
        BY <1>1, <2>0, <2>2, XattrRemoveHolds
      <3> QED
        BY <2>0, <3>1
    <2>3. CASE \E q \in Files, mode \in Modes, isdir \in BOOLEAN : Create(q, mode, isdir)
      <3>1. PICK q \in Files, mode \in Modes, isdir \in BOOLEAN : Create(q, mode, isdir)
        BY <2>3
      <3>2. CASE q # o
        <4>1. fs'.file[o].live = fs.file[o].live
          BY <1>1, <2>0, <3>1, <3>2, CreateHolds
        <4> QED
          BY <2>0, <4>1
      <3>3. CASE q = o
        <4> SUFFICES ASSUME fs'.file[o].live,
                            Access \in DOMAIN attrs'[o] \ DOMAIN fs.file[o].body,
                            WellFormed(Collected(fs, Top)[Default]),
                            NEW uid \in Ids, NEW gid \in Ids, NEW p \in Wants,
                            Grants(fs', o, uid, gid, p)
                     PROVE  p \subseteq ModeFor(fs'.file[o].mode, Collected(fs', o)[Access], uid, gid)
          OBVIOUS
        <4> DEFINE m == Collected(fs, Top)
                   more == Inherited(m, mode, isdir)
                   acl == m[Default]
        <4>1. /\ fs'.file[o].mode = NewMode(m, mode)
              /\ \E c \in Maps : DOMAIN c = DOMAIN fs.file[o].body /\ attrs'[o] = Over(more, c)
              /\ Access \in DOMAIN more => Collected(fs', o)[Access] = more[Access]
          BY <1>1, <3>1, <3>3, CreateHolds
        <4>2. PICK c \in Maps : DOMAIN c = DOMAIN fs.file[o].body /\ attrs'[o] = Over(more, c)
          BY <4>1
        <4>3. m \in Maps /\ mode \in ModeType
          BY <1>1, CollectedIsMap, XattrConstants DEF IInv
        <4>0. WellFormed(acl)
          OBVIOUS
        <4> HIDE DEF m
        <4>4. Access \in DOMAIN more /\ Collected(fs', o)[Access] = more[Access]
          <5> HIDE DEF more
          <5>1. DOMAIN Over(more, c) = DOMAIN more \cup DOMAIN c
            BY DEF Over
          <5> QED
            BY <4>1, <4>2, <5>1
        <4>5. /\ acl \in Lists /\ more[Access] = Masq(acl, mode)
              /\ NewMode(m, mode) = MasqMode(acl, mode)
          BY <4>3, <4>4, InheritedIs
        <4> HIDE DEF acl, more
        <4>6. acl \in Seq(Entry) /\ WellFormed(acl)
          BY <4>0, <4>5 DEF Lists
        <4>8. Granted(Masq(acl, mode), Owner, Group, uid, gid, p)
          BY <4>4, <4>5 DEF Grants
        <4>9. p \subseteq ModeFor(MasqMode(acl, mode), Masq(acl, mode), uid, gid)
          BY <4>3, <4>6, <4>8, MasqWithin
        <4> QED
          BY <4>1, <4>4, <4>5, <4>9
      <3> QED
        BY <3>2, <3>3
    <2>4. CASE \E q \in Files : Remove(q)
      <3>1. fs'.file[o].live => fs.file[o].live
        BY <1>1, <2>0, <2>4, RemoveHolds
      <3> QED
        BY <2>0, <3>1
    <2>5. CASE UNCHANGED vars
      BY <2>0, <2>5 DEF vars
    <2> QED
      BY <1>1, <2>1, <2>2, <2>3, <2>4, <2>5 DEF Next
  <1>2. IInv /\ [Next]_vars => [\A o \in Files \ Live : Within(o)]_vars
    BY <1>1
  <1> HIDE DEF Within
  <1> QED
    BY <1>2, Invariance, PTL DEF Spec, CreatedWithinMode, Within
=============================================================================
