-------------------------- MODULE DirectoryProofs --------------------------
(***************************************************************************)
(* A directory without an index, for every geometry of its blocks and      *)
(* names: the records of each block tile it, a look-up finds exactly what  *)
(* was added, and an enumeration that is resumed with its cookies while    *)
(* entries come and go neither misses nor repeats one that stays.          *)
(*                                                                         *)
(* The argument is about places.  An insertion cuts a record behind its    *)
(* name and an erasure merges one into the record before it: both leave    *)
(* every other entry at its offset.  So an entry has one place as long as  *)
(* it lives, and the cookies order the places.                             *)
(***************************************************************************)
EXTENDS Directory, FiniteSetTheorems, WellFoundedInduction, TLAPS

-----------------------------------------------------------------------------
(* Numbers. *)

\* A set of naturals that is not empty has a least element.
LEMMA LeastExists ==
    ASSUME NEW S \in SUBSET Nat, S # {}
    PROVE  \E x \in S : \A y \in S : x <= y
  <1> DEFINE R == OpToRel(<, Nat)
  <1>1. \E x \in S : \A y \in S : ~(<<y, x>> \in R)
    <2>1. IsWellFoundedOn(R, Nat)
      BY NatLessThanWellFounded
    <2> HIDE DEF R
    <2> QED
      BY <2>1, WFMin
  <1>2. PICK x \in S : \A y \in S : ~(<<y, x>> \in R)
    BY <1>1
  <1>3. \A y \in S : x <= y
    <2> SUFFICES ASSUME NEW y \in S PROVE ~(y < x)
      OBVIOUS
    <2> SUFFICES ASSUME y < x PROVE FALSE
      OBVIOUS
    <2>1. y \in Nat /\ x \in Nat
      BY <1>2
    <2>2. <<y, x>> \in R
      BY <2>1 DEF OpToRel
    <2> QED
      BY <1>2, <2>2
  <1> QED
    BY <1>2, <1>3


\* a block as a walk reads it
IsBlock(b) == b = [o \in DOMAIN b |-> b[o]] /\ Tiled(b)

\* the places of entries
At(d, k, o) == k \in DOMAIN d.blk /\ o \in Used(d.blk[k])

IsDir(d) == d = [blk |-> d.blk, idx |-> d.idx, levels |-> d.levels, ok |-> d.ok, self |-> d.self]

\* a directory without an index: blocks numbered from 0
LinearDir(d) ==
    /\ IsDir(d) /\ d.ok = TRUE /\ d.levels = 0
    /\ d.blk = [k \in DOMAIN d.blk |-> d.blk[k]]
    /\ \E n \in Nat : DOMAIN d.blk = 0..n
    /\ \A k \in DOMAIN d.blk : IsBlock(d.blk[k])

\* each entry has one place, and each place an entry
Means(d, ents) ==
    /\ ents = [n \in DOMAIN ents |-> ents[n]] /\ DOMAIN ents \subseteq AllNames
    /\ \A k, o : At(d, k, o) => /\ d.blk[k][o].name \in DOMAIN ents
                               /\ d.blk[k][o].ino = ents[d.blk[k][o].name]
    /\ \A n \in DOMAIN ents : \E k, o : At(d, k, o) /\ d.blk[k][o].name = n
    /\ \A k, o, l, p :
          At(d, k, o) /\ At(d, l, p) /\ d.blk[k][o].name = d.blk[l][p].name
              => k = l /\ o = p

IsReader(r) ==
    /\ r = [on |-> r.on, cookie |-> r.cookie, seen |-> r.seen, always |-> r.always]
    /\ r.on \in BOOLEAN

\* the cookie is no further than the end of the last block
Reach(d, cookie) ==
    \E n \in Nat : DOMAIN d.blk = 0..n /\ cookie \in 0..((n + 1) * End)

\* what an enumeration has returned stands before its cookie, what it owes behind
Cursor(d, ents, r) ==
    /\ r.cookie \in Nat
    /\ r.seen \subseteq DOMAIN ents /\ r.always \subseteq DOMAIN ents
    /\ \A k, o : At(d, k, o) =>
          /\ d.blk[k][o].name \in r.seen => Position(<<k, o>>) < r.cookie
          /\ d.blk[k][o].name \in r.always \ r.seen => Position(<<k, o>>) >= r.cookie


-----------------------------------------------------------------------------
(* Numbers. *)

\* A set of naturals that is not empty has a least element.
LEMMA LeastIsLeast ==
    ASSUME NEW S \in SUBSET Nat, S # {}
    PROVE  Least(S) \in S /\ \A y \in S : Least(S) <= y
  BY LeastExists DEF Least

-----------------------------------------------------------------------------
(* Blocks. *)

\* What a block's records are.
LEMMA RecordsOf ==
    ASSUME NEW b, Tiled(b)
    PROVE  /\ DOMAIN b \subseteq 0..(End - 1)
           /\ 0 \in DOMAIN b
           /\ \A o \in DOMAIN b :
                 /\ b[o] = Entry(b[o].ino, b[o].name, b[o].len)
                 /\ b[o].ino \in Inodes \cup {Unused}
                 /\ b[o].name \in AllNames
                 /\ b[o].len \in 1..End
                 /\ o + b[o].len \in DOMAIN b \cup {End}
  BY DEF Tiled, Record, Entry

\* The geometry of names in a form the provers see.
LEMMA Geometry ==
    /\ End \in Nat \ {0}
    /\ \A n \in AllNames : /\ Size[n] \in Nat \ {0}
                           /\ Need[n] \in Nat \ {0}
                           /\ Size[n] <= Need[n]
    /\ \A m, n \in AllNames : Size[m] + Need[n] <= End
    /\ Inodes \subseteq Nat \ {0}
    /\ Unused = 0
  BY NameGeometry DEF Unused

\* try_insert_to_existing_block cuts a record behind its name: the block stays
\* tiled, the new entry stands at an offset that was nobody's, and every record
\* keeps its offset, its name and its inode.
LEMMA InsertKeepsPlaces ==
    ASSUME NEW b, IsBlock(b), NEW name \in AllNames, NEW ino \in Inodes,
           NEW o \in Roomy(b, name),
           NEW c, c = InsertBehind(b, o, name, ino),
           NEW q, q = o + Size[b[o].name]
    PROVE  /\ IsBlock(c)
           /\ q \notin DOMAIN b
           /\ DOMAIN c = DOMAIN b \cup {q}
           /\ c[q].name = name /\ c[q].ino = ino
           /\ \A p \in DOMAIN b : c[p].name = b[p].name /\ c[p].ino = b[p].ino
  <1> DEFINE sz == Size[b[o].name]
  <1>1. Tiled(b)
    BY DEF IsBlock
  <1>2. /\ o \in DOMAIN b /\ b[o].ino # Unused
        /\ b[o].len - sz >= Need[name]
    BY DEF Roomy, Used
  <1>3. /\ sz \in Nat \ {0} /\ b[o].len \in 1..End /\ o \in 0..(End - 1)
        /\ Need[name] \in Nat \ {0} /\ Size[name] \in Nat \ {0} /\ Size[name] <= Need[name]
        /\ o + b[o].len \in DOMAIN b \cup {End}
    BY <1>1, <1>2, RecordsOf, Geometry
  <1>4. q \in 0..(End - 1) /\ o < q /\ q < o + b[o].len
    BY <1>1, <1>2, <1>3, RecordsOf, Geometry
  <1>5. \A p \in DOMAIN b : p # q /\ (p <= o \/ o + b[o].len <= p)
    BY <1>1, <1>2, <1>3, <1>4, Geometry DEF Tiled
  <1>6. /\ DOMAIN c = DOMAIN b \cup {q}
        /\ c = [p \in DOMAIN c |-> c[p]]
        /\ c[q] = Entry(ino, name, b[o].len - sz)
        /\ c[o] = [b[o] EXCEPT !.len = sz]
        /\ \A p \in DOMAIN b : p # o => c[p] = b[p]
    BY <1>2, <1>4, <1>5 DEF InsertBehind
  <1>7. c[o] = Entry(b[o].ino, b[o].name, sz)
    <2>1. b[o] = Entry(b[o].ino, b[o].name, b[o].len)
      BY <1>1, <1>2, RecordsOf
    <2> QED
      BY <1>6, <2>1 DEF Entry
  <1>8. \A p \in DOMAIN b : c[p].name = b[p].name /\ c[p].ino = b[p].ino
    BY <1>6, <1>7 DEF Entry
  <1>9. c[q].name = name /\ c[q].ino = ino /\ c[q].len = b[o].len - sz /\ c[o].len = sz
    BY <1>6, <1>7 DEF Entry
  <1>10. Tiled(c)
    <2>1. DOMAIN c \subseteq 0..(End - 1) /\ 0 \in DOMAIN c
      BY <1>1, <1>4, <1>6, RecordsOf
    <2> SUFFICES ASSUME NEW p \in DOMAIN c
                 PROVE  /\ c[p] \in Record
                        /\ p + c[p].len \in DOMAIN c \cup {End}
                        /\ p # 0 => \E r \in DOMAIN c : r + c[r].len = p
                        /\ \A r \in DOMAIN c : r <= p \/ p + c[p].len <= r
                        /\ c[p].ino # Unused => Size[c[p].name] <= c[p].len
      BY <2>1 DEF Tiled
    <2>2. b[o].ino \in Inodes \cup {Unused} /\ b[o].name \in AllNames
      BY <1>1, <1>2, RecordsOf
    <2>3. CASE p = q
      <3>1. c[q] \in Record
        BY <1>3, <1>4, <1>6, Geometry DEF Record, Entry
      <3>2. q + c[q].len = o + b[o].len
        BY <1>3, <1>9
      <3>3. \A r \in DOMAIN c : r <= q \/ o + b[o].len <= r
        BY <1>3, <1>4, <1>5, <1>6, <1>1, RecordsOf, Geometry
      <3>4. o + c[o].len = q /\ o \in DOMAIN c
        BY <1>2, <1>6, <1>9
      <3>5. Size[c[q].name] <= c[q].len
        BY <1>2, <1>3, <1>9
      <3>6. q + c[q].len \in DOMAIN c \cup {End}
        BY <3>2, <1>3, <1>6
      <3>7. \A r \in DOMAIN c : r <= q \/ q + c[q].len <= r
        BY <3>2, <3>3
      <3> QED
        BY <2>3, <3>1, <3>4, <3>5, <3>6, <3>7
    <2>4. CASE p = o
      <3>1. c[o] \in Record
        BY <1>3, <1>4, <1>7, <2>2, Geometry DEF Record, Entry
      <3>2. o # 0 => \E r \in DOMAIN b : r + b[r].len = o /\ r # o
        BY <1>1, <1>2, <1>3 DEF Tiled
      <3>3. o # 0 => \E r \in DOMAIN c : r + c[r].len = o
        BY <3>2, <1>6
      <3>4. \A r \in DOMAIN c : r <= o \/ o + c[o].len <= r
        BY <1>3, <1>4, <1>5, <1>6, <1>9, <1>1, RecordsOf, Geometry
      <3> QED
        BY <2>4, <3>1, <3>3, <3>4, <1>6, <1>8, <1>9, <1>2, <1>3
    <2>5. CASE p # q /\ p # o
      <3>1. p \in DOMAIN b /\ c[p] = b[p]
        BY <2>5, <1>6
      <3>2. /\ b[p] \in Record
            /\ p + b[p].len \in DOMAIN b \cup {End}
            /\ b[p].ino # Unused => Size[b[p].name] <= b[p].len
            /\ p <= o \/ o + b[o].len <= p
            /\ o <= p \/ p + b[p].len <= o
            /\ \A r \in DOMAIN b : r <= p \/ p + b[p].len <= r
        BY <3>1, <1>1, <1>2 DEF Tiled
      <3>3. p # 0 => \E r \in DOMAIN c : r + c[r].len = p
        <4> SUFFICES ASSUME p # 0 PROVE \E r \in DOMAIN c : r + c[r].len = p
          OBVIOUS
        <4>1. PICK r \in DOMAIN b : r + b[r].len = p
          BY <3>1, <1>1 DEF Tiled
        <4>2. CASE r = o
          <5>1. q + c[q].len = p
            BY <4>1, <4>2, <1>3, <1>9
          <5> QED
            BY <5>1, <1>6
        <4>3. CASE r # o
          BY <4>1, <4>3, <1>6
        <4> QED
          BY <4>2, <4>3
      <3>4. q <= p \/ p + b[p].len <= q
        BY <3>1, <3>2, <2>5, <1>1, <1>3, <1>4, RecordsOf, Geometry
      <3>5. \A r \in DOMAIN c : r <= p \/ p + c[p].len <= r
        <4>1. p + b[p].len <= q \/ q <= p
          BY <3>4
        <4> QED
          BY <4>1, <3>1, <3>2, <1>6
      <3> QED
        BY <3>1, <3>2, <3>3, <3>5, <1>6
    <2> QED
      BY <2>3, <2>4, <2>5
  <1> QED
    BY <1>5, <1>6, <1>8, <1>9, <1>10 DEF IsBlock

\* insert_to_new_block: one record that takes the whole block.
LEMMA FreshIsTiled ==
    ASSUME NEW name \in AllNames, NEW ino \in Inodes
    PROVE  /\ IsBlock(FreshBlock(name, ino))
           /\ DOMAIN FreshBlock(name, ino) = {0}
           /\ FreshBlock(name, ino)[0].name = name
           /\ FreshBlock(name, ino)[0].ino = ino
  <1> DEFINE c == FreshBlock(name, ino)
  <1>1. c = [o \in {0} |-> Entry(ino, name, End)]
    BY DEF FreshBlock
  <1>2. /\ c = [o \in DOMAIN c |-> c[o]] /\ DOMAIN c = {0}
        /\ c[0] = Entry(ino, name, End)
    BY <1>1
  <1>3. c[0].name = name /\ c[0].ino = ino /\ c[0].len = End
    BY <1>2 DEF Entry
  <1>4. c[0] \in Record
    BY <1>2, Geometry DEF Entry, Record
  <1>5. Size[name] <= End
    BY Geometry
  <1>6. Tiled(c)
    <2> HIDE DEF c
    <2> QED
      BY <1>2, <1>3, <1>4, <1>5, Geometry DEF Tiled
  <1> QED
    BY <1>2, <1>3, <1>6 DEF IsBlock

\* dir_set_entry_target: the inode of one record, and nothing else.
LEMMA RetargetKeepsPlaces ==
    ASSUME NEW b, IsBlock(b), NEW o \in Used(b), NEW ino \in Inodes,
           NEW c, c = RetargetAt(b, o, ino)
    PROVE  /\ IsBlock(c)
           /\ DOMAIN c = DOMAIN b
           /\ c[o].name = b[o].name /\ c[o].ino = ino
           /\ \A p \in DOMAIN b \ {o} : c[p] = b[p]
  <1>1. Tiled(b)
    BY DEF IsBlock
  <1>2. o \in DOMAIN b /\ b[o].ino # Unused
    BY DEF Used
  <1>3. /\ b[o] = Entry(b[o].ino, b[o].name, b[o].len)
        /\ b[o].name \in AllNames /\ b[o].len \in 1..End
    BY <1>1, <1>2, RecordsOf
  <1>4. /\ DOMAIN c = DOMAIN b
        /\ c = [p \in DOMAIN c |-> c[p]]
        /\ \A p \in DOMAIN b \ {o} : c[p] = b[p]
        /\ c[o] = [b[o] EXCEPT !.ino = ino]
    BY <1>2 DEF RetargetAt, IsBlock
  <1>5. c[o] = Entry(ino, b[o].name, b[o].len)
    BY <1>3, <1>4 DEF Entry
  <1>6. c[o].name = b[o].name /\ c[o].ino = ino /\ c[o].len = b[o].len
    BY <1>5 DEF Entry
  <1>7. c[o] \in Record
    BY <1>3, <1>5 DEF Entry, Record
  <1>8. \A p \in DOMAIN b : c[p].len = b[p].len /\ c[p].name = b[p].name
    BY <1>4, <1>6
  <1>9. \A p \in DOMAIN b : /\ c[p] \in Record
                            /\ Size[b[p].name] <= b[p].len \/ c[p].ino = Unused
    BY <1>1, <1>2, <1>4, <1>6, <1>7 DEF Tiled
  <1>10. Tiled(c)
    BY <1>1, <1>4, <1>8, <1>9 DEF Tiled
  <1> QED
    BY <1>4, <1>6, <1>10 DEF IsBlock

\* dir_remove_entry: the block stays tiled, the entry is gone and every other
\* one keeps its offset, its name and its inode.
LEMMA EraseKeepsPlaces ==
    ASSUME NEW b, IsBlock(b), NEW o \in Used(b),
           NEW c, c = EraseAt(b, o)
    PROVE  /\ IsBlock(c)
           /\ Used(c) = Used(b) \ {o}
           /\ \A p \in Used(c) : c[p].name = b[p].name /\ c[p].ino = b[p].ino
  <1>1. Tiled(b)
    BY DEF IsBlock
  <1>2. o \in DOMAIN b /\ b[o].ino # Unused
    BY DEF Used
  <1>3. \A p \in DOMAIN b : /\ b[p] = Entry(b[p].ino, b[p].name, b[p].len)
                            /\ b[p].ino \in Inodes \cup {Unused}
                            /\ b[p].name \in AllNames /\ b[p].len \in 1..End
                            /\ p \in 0..(End - 1)
    BY <1>1, RecordsOf
  <1>4. CASE o = 0
    <2>1. /\ DOMAIN c = DOMAIN b
          /\ c = [p \in DOMAIN c |-> c[p]]
          /\ \A p \in DOMAIN b \ {o} : c[p] = b[p]
          /\ c[o] = [b[o] EXCEPT !.ino = Unused]
      BY <1>2, <1>4 DEF EraseAt, IsBlock
    <2>2. c[o] = Entry(Unused, b[o].name, b[o].len)
      BY <1>2, <1>3, <2>1 DEF Entry
    <2>3. c[o].name = b[o].name /\ c[o].ino = Unused /\ c[o].len = b[o].len
      BY <2>2 DEF Entry
    <2>4. c[o] \in Record
      BY <1>2, <1>3, <2>2 DEF Entry, Record
    <2>5. \A p \in DOMAIN b : c[p].len = b[p].len /\ c[p].name = b[p].name
      BY <2>1, <2>3
    <2>6. \A p \in DOMAIN b : /\ c[p] \in Record
                              /\ c[p].ino # Unused => Size[b[p].name] <= b[p].len
      BY <1>1, <2>1, <2>3, <2>4 DEF Tiled
    <2>7. Tiled(c)
      <3>0. /\ DOMAIN b \subseteq 0..(End - 1) /\ 0 \in DOMAIN b
            /\ \A p \in DOMAIN b : p + b[p].len \in DOMAIN b \cup {End}
        BY <1>1 DEF Tiled
      <3>1. /\ DOMAIN c \subseteq 0..(End - 1) /\ 0 \in DOMAIN c
            /\ \A p \in DOMAIN c : p + c[p].len \in DOMAIN c \cup {End}
        BY <2>1, <2>5, <3>0
      <3>2. \A p \in DOMAIN c : p # 0 => \E m \in DOMAIN c : m + c[m].len = p
        BY <1>1, <2>1, <2>5 DEF Tiled
      <3>3. \A p, m \in DOMAIN c : m <= p \/ p + c[p].len <= m
        BY <1>1, <2>1, <2>5 DEF Tiled
      <3>4. \A p \in DOMAIN c : /\ c[p] \in Record
                                /\ c[p].ino # Unused => Size[c[p].name] <= c[p].len
        BY <2>1, <2>5, <2>6
      <3> QED
        BY <3>1, <3>2, <3>3, <3>4 DEF Tiled
    <2>8. Used(c) = Used(b) \ {o}
      <3>1. DOMAIN c = DOMAIN b /\ c[o].ino = Unused /\ \A p \in DOMAIN b \ {o} : c[p].ino = b[p].ino
        BY <2>1, <2>3
      <3> QED
        BY <3>1 DEF Used
    <2>9. \A p \in Used(c) : c[p].name = b[p].name /\ c[p].ino = b[p].ino
      BY <2>1, <2>8 DEF Used
    <2> QED
      BY <2>1, <2>7, <2>8, <2>9 DEF IsBlock
  <1>5. CASE o # 0
    <2> DEFINE r == Before(b, o)
    <2>1. r \in DOMAIN b /\ r + b[r].len = o
      BY <1>1, <1>2, <1>5 DEF Before, Tiled
    <2>2. r < o /\ r # o
      BY <1>2, <1>3, <2>1
    <2> HIDE DEF r
    <2>3. /\ DOMAIN c = DOMAIN b \ {o}
          /\ c = [p \in DOMAIN c |-> c[p]]
          /\ c[r] = [b[r] EXCEPT !.len = @ + b[o].len]
          /\ \A p \in DOMAIN c : p # r => c[p] = b[p]
      BY <1>2, <1>5, <2>1, <2>2 DEF EraseAt, r
    <2>4. c[r] = Entry(b[r].ino, b[r].name, b[r].len + b[o].len)
      <3>1. b[r] = Entry(b[r].ino, b[r].name, b[r].len)
        BY <1>3, <2>1
      <3> QED
        BY <2>3, <3>1 DEF Entry
    <2>5. /\ c[r].name = b[r].name /\ c[r].ino = b[r].ino
          /\ c[r].len = b[r].len + b[o].len
      BY <2>4 DEF Entry
    <2>6. r + c[r].len = o + b[o].len
      BY <1>2, <1>3, <2>1, <2>5
    <2>7. o + b[o].len \in DOMAIN c \cup {End}
      BY <1>1, <1>2, <1>3, <2>3 DEF Tiled
    <2>8. c[r].len \in 1..End
      <3>1. r + c[r].len <= End
        BY <1>3, <2>3, <2>6, <2>7, Geometry
      <3> QED
        BY <1>2, <1>3, <2>1, <2>5, <3>1, Geometry
    <2>9. \A p \in DOMAIN c : c[p].name = b[p].name /\ c[p].ino = b[p].ino
      BY <2>3, <2>5
    <2>10. Tiled(c)
      <3>1. DOMAIN c \subseteq 0..(End - 1) /\ 0 \in DOMAIN c
        BY <1>1, <1>5, <2>3 DEF Tiled
      <3> SUFFICES ASSUME NEW p \in DOMAIN c
                   PROVE  /\ c[p] \in Record
                          /\ p + c[p].len \in DOMAIN c \cup {End}
                          /\ p # 0 => \E t \in DOMAIN c : t + c[t].len = p
                          /\ \A t \in DOMAIN c : t <= p \/ p + c[p].len <= t
                          /\ c[p].ino # Unused => Size[c[p].name] <= c[p].len
        BY <3>1 DEF Tiled
      <3>2. p \in DOMAIN b /\ p # o
        BY <2>3
      <3>3. p # 0 => \E t \in DOMAIN c : t + c[t].len = p
        <4> SUFFICES ASSUME p # 0 PROVE \E t \in DOMAIN c : t + c[t].len = p
          OBVIOUS
        <4>1. PICK t \in DOMAIN b : t + b[t].len = p
          BY <1>1, <3>2 DEF Tiled
        <4>2. CASE t = o
          BY <2>1, <2>2, <2>3, <2>6, <4>1, <4>2
        <4>3. CASE t # o
          <5>1. t # r
            BY <2>1, <3>2, <4>1
          <5> QED
            BY <2>3, <4>1, <4>3, <5>1
        <4> QED
          BY <4>2, <4>3
      <3>4. CASE p = r
        <4>1. c[p] \in Record
          BY <1>3, <2>1, <2>4, <2>8, <3>4 DEF Entry, Record
        <4>2. Size[c[p].name] <= c[p].len \/ c[p].ino = Unused
          <5>1. Size[b[r].name] <= b[r].len \/ b[r].ino = Unused
            BY <1>1, <2>1 DEF Tiled
          <5>2. Size[b[r].name] \in Nat /\ b[r].len \in Nat /\ b[o].len \in Nat
            BY <1>2, <1>3, <2>1, Geometry
          <5> QED
            BY <2>5, <3>4, <5>1, <5>2
        <4>3. \A t \in DOMAIN c : t <= p \/ p + c[p].len <= t
          <5> SUFFICES ASSUME NEW t \in DOMAIN c PROVE t <= r \/ o + b[o].len <= t
            BY <2>6, <3>4
          <5>1. t \in DOMAIN b /\ t # o
            BY <2>3
          <5>2. t <= r \/ o <= t
            BY <1>1, <2>1, <5>1 DEF Tiled
          <5>3. t <= o \/ o + b[o].len <= t
            BY <1>1, <1>2, <5>1 DEF Tiled
          <5> QED
            BY <1>2, <1>3, <5>1, <5>2, <5>3
        <4> QED
          BY <2>6, <2>7, <3>3, <3>4, <4>1, <4>2, <4>3
      <3>5. CASE p # r
        <4>1. c[p] = b[p]
          BY <2>3, <3>5
        <4>2. /\ b[p] \in Record
              /\ p + b[p].len \in DOMAIN b \cup {End}
              /\ b[p].ino # Unused => Size[b[p].name] <= b[p].len
              /\ \A t \in DOMAIN b : t <= p \/ p + b[p].len <= t
              /\ r <= p \/ p + b[p].len <= r
          BY <1>1, <2>1, <3>2 DEF Tiled
        <4>3. p + b[p].len # o
          <5>1. p <= r \/ r + b[r].len <= p
            BY <1>1, <2>1, <3>2 DEF Tiled
          <5> QED
            BY <1>2, <1>3, <2>1, <3>2, <3>5, <4>2, <5>1
        <4> QED
          BY <2>3, <3>3, <4>1, <4>2, <4>3
      <3> QED
        BY <3>4, <3>5
    <2>11. Used(c) = Used(b) \ {o}
      BY <2>3, <2>9 DEF Used
    <2>12. \A p \in Used(c) : c[p].name = b[p].name /\ c[p].ino = b[p].ino
      BY <2>9 DEF Used
    <2> QED
      BY <2>3, <2>10, <2>11, <2>12 DEF IsBlock
  <1> QED
    BY <1>4, <1>5

-----------------------------------------------------------------------------
(* Directories. *)

\* A new version of one block.
LEMMA PutBlockIs ==
    ASSUME NEW d, IsDir(d), NEW n, NEW b, NEW e, e = PutBlock(d, n, b)
    PROVE  /\ IsDir(e) /\ e.ok = d.ok /\ e.levels = d.levels
           /\ e.blk = [k \in DOMAIN d.blk \cup {n} |-> IF k = n THEN b ELSE d.blk[k]]
  <1> DEFINE new == With(d.blk, n, b)
  <1>1. PutBlock(d, n, b) = [d EXCEPT !.blk = new]
    BY DEF PutBlock, IsDir
  <1> HIDE DEF new
  <1>2. PutBlock(d, n, b) = [blk |-> new, idx |-> d.idx, levels |-> d.levels, ok |-> d.ok, self |-> d.self]
    BY <1>1 DEF IsDir
  <1>3. new = [k \in DOMAIN d.blk \cup {n} |-> IF k = n THEN b ELSE d.blk[k]]
    BY DEF new, With
  <1> QED
    BY <1>2, <1>3 DEF IsDir

\* A failed addition that is not undone leaves the directory as it was.
LEMMA FailedIs ==
    ASSUME NEW d, IsDir(d), d.ok = TRUE
    PROVE  /\ Failed(d).ok = FALSE
           /\ [Failed(d) EXCEPT !.ok = TRUE] = d
           /\ [d EXCEPT !.ok = TRUE] = d
  BY Zenon DEF IsDir, Failed

\* The next block is the one behind the last.
LEMMA CountIs ==
    ASSUME NEW d, NEW n \in Nat, DOMAIN d.blk = 0..n
    PROVE  BlockCount(d) = n + 1
  BY FS_Interval DEF BlockCount

\* A new version of a block that is there.
LEMMA EditIs ==
    ASSUME NEW d, LinearDir(d), NEW k \in DOMAIN d.blk, NEW c, IsBlock(c),
           NEW e, e = PutBlock(d, k, c)
    PROVE  /\ LinearDir(e)
           /\ DOMAIN e.blk = DOMAIN d.blk /\ e.blk[k] = c
           /\ \A l \in DOMAIN d.blk : l # k => e.blk[l] = d.blk[l]
  <1>1. /\ IsDir(e) /\ e.ok = TRUE /\ e.levels = 0
        /\ e.blk = [l \in DOMAIN d.blk \cup {k} |-> IF l = k THEN c ELSE d.blk[l]]
    <2>1. IsDir(d) /\ d.ok = TRUE /\ d.levels = 0
      BY DEF LinearDir
    <2> QED
      BY <2>1, PutBlockIs
  <1>2. /\ DOMAIN e.blk = DOMAIN d.blk /\ e.blk[k] = c
        /\ \A l \in DOMAIN d.blk : l # k => e.blk[l] = d.blk[l]
    BY <1>1
  <1>3. \A l \in DOMAIN e.blk : IsBlock(e.blk[l])
    BY <1>2 DEF LinearDir
  <1>4. e.blk = [l \in DOMAIN e.blk |-> e.blk[l]]
    BY <1>1
  <1> QED
    BY <1>1, <1>2, <1>3, <1>4 DEF LinearDir

\* What an addition to a directory without an index does: it fails, or one place
\* more is taken by the new entry and every other entry is where it was.
Joins(d, r, name, ino) ==
  /\ DOMAIN d.blk \subseteq DOMAIN r.blk
  /\ \E k, q :
        /\ ~At(d, k, q) /\ At(r, k, q)
        /\ r.blk[k][q].name = name /\ r.blk[k][q].ino = ino
        /\ \A l, p : At(r, l, p) <=> At(d, l, p) \/ (l = k /\ p = q)
        /\ \A l, p : At(d, l, p) => /\ r.blk[l][p].name = d.blk[l][p].name
                                    /\ r.blk[l][p].ino = d.blk[l][p].ino

\* dir_add_entry without an index, whether a block has room or a new one is
\* appended.
LEMMA LinearAddEffect ==
    ASSUME NEW d, LinearDir(d), NEW name \in AllNames, NEW ino \in Inodes
    PROVE  LET r == LinearAdd(d, name, ino)
           IN  \/ r = Failed(d)
               \/ LinearDir(r) /\ Joins(d, r, name, ino)
  <1> DEFINE r == LinearAdd(d, name, ino)
             k == Least(WithRoom(d, name))
  <1>1. PICK n \in Nat : DOMAIN d.blk = 0..n
    BY DEF LinearDir
  <1>2. IsDir(d) /\ d.ok = TRUE /\ d.levels = 0 /\ \A l \in DOMAIN d.blk : IsBlock(d.blk[l])
    BY DEF LinearDir
  <1>3. ino # Unused
    BY Geometry
  <1>4. CASE WithRoom(d, name) # {}
    <2>1. k \in DOMAIN d.blk /\ Roomy(d.blk[k], name) # {}
      <3>1. WithRoom(d, name) \subseteq Nat
        BY <1>1 DEF WithRoom
      <3>2. k \in WithRoom(d, name)
        BY <1>4, <3>1, LeastIsLeast
      <3> QED
        BY <3>2 DEF WithRoom
    <2>2. PICK b : b = d.blk[k] /\ IsBlock(b)
      BY <1>2, <2>1
    <2>3. PICK o \in Roomy(b, name) : o = Least(Roomy(b, name))
      <3>1. Roomy(b, name) \subseteq Nat
        BY <2>2, RecordsOf DEF IsBlock, Roomy, Used
      <3> QED
        BY <2>1, <2>2, <3>1, LeastIsLeast
    <2>cut. PICK c : c = InsertBehind(b, o, name, ino)
      OBVIOUS
    <2>place. PICK q : q = o + Size[b[o].name]
      OBVIOUS
    <2>4. /\ IsBlock(c)
          /\ q \notin DOMAIN b
          /\ DOMAIN c = DOMAIN b \cup {q}
          /\ c[q].name = name /\ c[q].ino = ino
          /\ \A p \in DOMAIN b : c[p].name = b[p].name /\ c[p].ino = b[p].ino
      BY <2>2, <2>cut, <2>place, InsertKeepsPlaces
    <2>5. r = PutBlock(d, k, c)
      BY <1>4, <2>2, <2>3, <2>cut DEF LinearAdd, InsertEntry
    <2> HIDE DEF k, r
    <2>6. /\ LinearDir(r)
          /\ DOMAIN r.blk = DOMAIN d.blk /\ r.blk[k] = c
          /\ \A l \in DOMAIN d.blk : l # k => r.blk[l] = d.blk[l]
      BY <2>1, <2>4, <2>5, EditIs
    <2>7. Used(c) = Used(b) \cup {q}
      BY <1>3, <2>4 DEF Used
    <2>8. \A l, p : At(r, l, p) <=> At(d, l, p) \/ (l = k /\ p = q)
      BY <2>1, <2>2, <2>6, <2>7 DEF At
    <2>9. ~At(d, k, q)
      BY <2>2, <2>4 DEF At, Used
    <2>10. \A l, p : At(d, l, p) => /\ r.blk[l][p].name = d.blk[l][p].name
                                    /\ r.blk[l][p].ino = d.blk[l][p].ino
      BY <2>2, <2>4, <2>6 DEF At, Used
    <2> QED
      BY <2>4, <2>6, <2>8, <2>9, <2>10 DEF Joins, r
  <1>5. CASE WithRoom(d, name) = {} /\ CanAppend(d)
    <2> DEFINE c == FreshBlock(name, ino)
    <2>1. r = PutBlock(d, n + 1, c)
      BY <1>1, <1>5, CountIs DEF LinearAdd
    <2>2. /\ IsBlock(c) /\ DOMAIN c = {0}
          /\ c[0].name = name /\ c[0].ino = ino
      BY FreshIsTiled
    <2> HIDE DEF c, r
    <2>3. /\ IsDir(r) /\ r.ok = TRUE /\ r.levels = 0
          /\ r.blk = [l \in DOMAIN d.blk \cup {n + 1} |-> IF l = n + 1 THEN c ELSE d.blk[l]]
      BY <1>2, <2>1, PutBlockIs
    <2>4. n + 1 \notin DOMAIN d.blk
      BY <1>1
    <2>5. /\ DOMAIN r.blk = DOMAIN d.blk \cup {n + 1} /\ r.blk[n + 1] = c
          /\ \A l \in DOMAIN d.blk : r.blk[l] = d.blk[l]
      BY <2>3, <2>4
    <2>6. LinearDir(r)
      <3>1. DOMAIN r.blk = 0..(n + 1)
        BY <1>1, <2>5
      <3>2. \A l \in DOMAIN r.blk : IsBlock(r.blk[l])
        BY <1>2, <2>2, <2>5
      <3>3. r.blk = [l \in DOMAIN r.blk |-> r.blk[l]]
        BY <2>3
      <3>4. n + 1 \in Nat
        OBVIOUS
      <3> QED
        BY <2>3, <3>1, <3>2, <3>3, <3>4 DEF LinearDir
    <2>7. Used(c) = {0}
      BY <1>3, <2>2 DEF Used
    <2>8. \A l, p : At(r, l, p) <=> At(d, l, p) \/ (l = n + 1 /\ p = 0)
      BY <2>4, <2>5, <2>7 DEF At
    <2>9. ~At(d, n + 1, 0)
      BY <2>4 DEF At
    <2>10. \A l, p : At(d, l, p) => /\ r.blk[l][p].name = d.blk[l][p].name
                                    /\ r.blk[l][p].ino = d.blk[l][p].ino
      BY <2>5 DEF At
    <2> QED
      BY <2>2, <2>5, <2>6, <2>8, <2>9, <2>10 DEF Joins, r
  <1>6. CASE WithRoom(d, name) = {} /\ ~CanAppend(d)
    BY <1>6 DEF LinearAdd
  <1> QED
    BY <1>4, <1>5, <1>6

-----------------------------------------------------------------------------
(* What each call does to the entries and to an enumeration. *)

\* An entry that joins under a new name is one entry more.
LEMMA JoinMeans ==
    ASSUME NEW d, NEW ents, Means(d, ents), NEW r, NEW name \in AllNames, NEW ino,
           Joins(d, r, name, ino), name \notin DOMAIN ents
    PROVE  /\ Means(r, With(ents, name, ino))
           /\ \A rd : Cursor(d, ents, rd) => Cursor(r, With(ents, name, ino), rd)
  <1> DEFINE new == With(ents, name, ino)
  <1>1. PICK k, q :
          /\ ~At(d, k, q) /\ At(r, k, q)
          /\ r.blk[k][q].name = name /\ r.blk[k][q].ino = ino
          /\ \A l, p : At(r, l, p) <=> At(d, l, p) \/ (l = k /\ p = q)
          /\ \A l, p : At(d, l, p) => /\ r.blk[l][p].name = d.blk[l][p].name
                                      /\ r.blk[l][p].ino = d.blk[l][p].ino
    BY DEF Joins
  <1>2. /\ new = [n \in DOMAIN new |-> new[n]]
        /\ DOMAIN new = DOMAIN ents \cup {name}
        /\ new[name] = ino
        /\ \A n \in DOMAIN ents : new[n] = ents[n]
    BY DEF With
  <1> HIDE DEF new
  <1>3. Means(r, new)
    BY <1>1, <1>2 DEF Means
  <1>4. ASSUME NEW rd, Cursor(d, ents, rd) PROVE Cursor(r, new, rd)
    BY <1>1, <1>2, <1>4 DEF Cursor
  <1> QED
    BY <1>3, <1>4 DEF new

\* dir_remove_entry: the place of the name is free, and no other changes.
LEMMA EraseMeans ==
    ASSUME NEW d, LinearDir(d), NEW ents, Means(d, ents),
           NEW k, NEW o, At(d, k, o), NEW name, d.blk[k][o].name = name,
           NEW e, e = PutBlock(d, k, EraseAt(d.blk[k], o)),
           NEW new, new = [n \in DOMAIN ents \ {name} |-> ents[n]]
    PROVE  /\ LinearDir(e) /\ Means(e, new) /\ DOMAIN e.blk = DOMAIN d.blk
           /\ \A rd, now : /\ Cursor(d, ents, rd)
                           /\ now.cookie = rd.cookie
                           /\ now.seen = rd.seen \ {name}
                           /\ now.always = rd.always \ {name}
                           => Cursor(e, new, now)
  <1>1. PICK b : b = d.blk[k] /\ IsBlock(b) /\ k \in DOMAIN d.blk /\ o \in Used(b)
    BY DEF LinearDir, At
  <1>2. PICK c : c = EraseAt(b, o)
    OBVIOUS
  <1>3. /\ IsBlock(c)
        /\ Used(c) = Used(b) \ {o}
        /\ \A p \in Used(c) : c[p].name = b[p].name /\ c[p].ino = b[p].ino
    BY <1>1, <1>2, EraseKeepsPlaces
  <1>4. /\ LinearDir(e)
        /\ DOMAIN e.blk = DOMAIN d.blk /\ e.blk[k] = c
        /\ \A l \in DOMAIN d.blk : l # k => e.blk[l] = d.blk[l]
    BY <1>1, <1>2, <1>3, EditIs
  <1>5. \A l, p : At(e, l, p) <=> At(d, l, p) /\ ~(l = k /\ p = o)
    BY <1>1, <1>3, <1>4 DEF At
  <1>6. \A l, p : At(e, l, p) => /\ e.blk[l][p].name = d.blk[l][p].name
                                /\ e.blk[l][p].ino = d.blk[l][p].ino
    BY <1>1, <1>3, <1>4 DEF At
  <1>7. \A l, p : At(e, l, p) => d.blk[l][p].name # name
    BY <1>5 DEF Means
  <1>8. /\ new = [n \in DOMAIN new |-> new[n]]
        /\ DOMAIN new = DOMAIN ents \ {name}
        /\ \A n \in DOMAIN new : new[n] = ents[n]
    OBVIOUS
  <1>9. Means(e, new)
    <2>1. \A n \in DOMAIN new : \E l, p : At(e, l, p) /\ e.blk[l][p].name = n
      <3> SUFFICES ASSUME NEW n \in DOMAIN new
                   PROVE  \E l, p : At(e, l, p) /\ e.blk[l][p].name = n
        OBVIOUS
      <3>1. PICK l, p : At(d, l, p) /\ d.blk[l][p].name = n
        BY <1>8 DEF Means
      <3> QED
        BY <1>5, <1>6, <1>8, <3>1
    <2>2. \A l, p : At(e, l, p) => /\ e.blk[l][p].name \in DOMAIN new
                                  /\ e.blk[l][p].ino = new[e.blk[l][p].name]
      BY <1>5, <1>6, <1>7, <1>8 DEF Means
    <2>3. \A l, p, i, j :
             At(e, l, p) /\ At(e, i, j) /\ e.blk[l][p].name = e.blk[i][j].name
                 => l = i /\ p = j
      BY <1>5, <1>6 DEF Means
    <2>4. DOMAIN new \subseteq AllNames
      BY <1>8 DEF Means
    <2> QED
      BY <1>8, <2>1, <2>2, <2>3, <2>4 DEF Means
  <1>10. ASSUME NEW rd, NEW now, Cursor(d, ents, rd), now.cookie = rd.cookie,
                now.seen = rd.seen \ {name}, now.always = rd.always \ {name}
         PROVE  Cursor(e, new, now)
    BY <1>5, <1>6, <1>7, <1>8, <1>10 DEF Cursor
  <1> QED
    BY <1>4, <1>9, <1>10

\* dir_set_entry_target: the entry means another inode, at the same place.
LEMMA RetargetMeans ==
    ASSUME NEW d, LinearDir(d), NEW ents, Means(d, ents), NEW ino \in Inodes,
           NEW k, NEW o, At(d, k, o), NEW name, d.blk[k][o].name = name,
           NEW e, e = PutBlock(d, k, RetargetAt(d.blk[k], o, ino)),
           NEW new, new = [n \in DOMAIN new |-> new[n]], DOMAIN new = DOMAIN ents,
           new[name] = ino, \A n \in DOMAIN ents : n # name => new[n] = ents[n]
    PROVE  /\ LinearDir(e) /\ Means(e, new) /\ DOMAIN e.blk = DOMAIN d.blk
           /\ \A rd : Cursor(d, ents, rd) => Cursor(e, new, rd)
  <1>1. PICK b : b = d.blk[k] /\ IsBlock(b) /\ k \in DOMAIN d.blk /\ o \in Used(b)
    BY DEF LinearDir, At
  <1>2. PICK c : c = RetargetAt(b, o, ino)
    OBVIOUS
  <1>3. /\ IsBlock(c) /\ DOMAIN c = DOMAIN b
        /\ c[o].name = b[o].name /\ c[o].ino = ino
        /\ \A p \in DOMAIN b \ {o} : c[p] = b[p]
    BY <1>1, <1>2, RetargetKeepsPlaces
  <1>4. /\ LinearDir(e)
        /\ DOMAIN e.blk = DOMAIN d.blk /\ e.blk[k] = c
        /\ \A l \in DOMAIN d.blk : l # k => e.blk[l] = d.blk[l]
    BY <1>1, <1>2, <1>3, EditIs
  <1>5. ino # Unused
    BY Geometry
  <1>6. Used(c) = Used(b)
    BY <1>1, <1>3, <1>5 DEF Used
  <1>7. \A l, p : At(e, l, p) <=> At(d, l, p)
    BY <1>1, <1>4, <1>6 DEF At
  <1>8. /\ \A l, p : At(d, l, p) => e.blk[l][p].name = d.blk[l][p].name
        /\ \A l, p : At(d, l, p) /\ ~(l = k /\ p = o) => e.blk[l][p].ino = d.blk[l][p].ino
    BY <1>1, <1>3, <1>4 DEF At, Used
  <1>9. e.blk[k][o].ino = ino
    BY <1>1, <1>3, <1>4
  <1>10. /\ new = [n \in DOMAIN new |-> new[n]]
         /\ DOMAIN new = DOMAIN ents /\ name \in DOMAIN ents
         /\ new[name] = ino
         /\ \A n \in DOMAIN ents : n # name => new[n] = ents[n]
    BY DEF Means
  <1>11. \A l, p : At(d, l, p) /\ d.blk[l][p].name = name => l = k /\ p = o
    BY DEF Means
  <1>12. Means(e, new)
    <2>1. \A l, p : At(e, l, p) => /\ e.blk[l][p].name \in DOMAIN new
                                  /\ e.blk[l][p].ino = new[e.blk[l][p].name]
      <3> SUFFICES ASSUME NEW l, NEW p, At(d, l, p)
                   PROVE  /\ e.blk[l][p].name \in DOMAIN new
                          /\ e.blk[l][p].ino = new[e.blk[l][p].name]
        BY <1>7
      <3>1. /\ d.blk[l][p].name \in DOMAIN ents
            /\ d.blk[l][p].ino = ents[d.blk[l][p].name]
        BY DEF Means
      <3>2. CASE l = k /\ p = o
        BY <1>8, <1>9, <1>10, <3>2
      <3>3. CASE ~(l = k /\ p = o)
        BY <1>8, <1>10, <1>11, <3>1, <3>3
      <3> QED
        BY <3>2, <3>3
    <2>2. \A n \in DOMAIN new : \E l, p : At(e, l, p) /\ e.blk[l][p].name = n
      <3> SUFFICES ASSUME NEW n \in DOMAIN new
                   PROVE  \E l, p : At(e, l, p) /\ e.blk[l][p].name = n
        OBVIOUS
      <3>1. PICK l, p : At(d, l, p) /\ d.blk[l][p].name = n
        BY <1>10 DEF Means
      <3> QED
        BY <1>7, <1>8, <3>1
    <2>3. \A l, p, i, j :
             At(e, l, p) /\ At(e, i, j) /\ e.blk[l][p].name = e.blk[i][j].name
                 => l = i /\ p = j
      BY <1>7, <1>8 DEF Means
    <2>4. DOMAIN new \subseteq AllNames
      BY <1>10 DEF Means
    <2> QED
      BY <1>10, <2>1, <2>2, <2>3, <2>4 DEF Means
  <1>13. ASSUME NEW rd, Cursor(d, ents, rd) PROVE Cursor(e, new, rd)
    BY <1>7, <1>8, <1>10, <1>13 DEF Cursor
  <1> QED
    BY <1>4, <1>12, <1>13

-----------------------------------------------------------------------------
(* Positions: block after block, offset after offset. *)

\* A product of naturals is monotone.
LEMMA Times ==
    ASSUME NEW k \in Nat, NEW l \in Nat, k < l
    PROVE  /\ k * End \in Nat /\ l * End \in Nat
           /\ k * End + End <= l * End
  <1>1. End \in Nat
    BY Geometry
  <1>2. PICK m \in Nat : l = (k + 1) + m
    <2>1. l - (k + 1) \in Nat /\ l = (k + 1) + (l - (k + 1))
      OBVIOUS
    <2> QED
      BY <2>1
  <1>3. l * End = (k * End + End) + m * End
    BY <1>1, <1>2
  <1>4. k * End \in Nat /\ l * End \in Nat /\ m * End \in Nat
    BY <1>1
  <1> QED
    BY <1>1, <1>3, <1>4

\* A place has a position.
LEMMA PositionIs ==
    ASSUME NEW k \in Nat, NEW o \in 0..(End - 1)
    PROVE  /\ Position(<<k, o>>) = k * End + o
           /\ k * End \in Nat /\ Position(<<k, o>>) \in Nat
  <1>1. End \in Nat
    BY Geometry
  <1>2. k * End \in Nat
    BY <1>1
  <1> QED
    BY <1>1, <1>2 DEF Position

\* A record ends before the next block begins.
LEMMA BlocksInOrder ==
    ASSUME NEW k \in Nat, NEW l \in Nat, k < l,
           NEW o \in 0..(End - 1), NEW p \in 0..(End - 1),
           NEW n \in Nat, o + n <= End
    PROVE  Position(<<k, o>>) + n <= Position(<<l, p>>)
  <1>1. End \in Nat
    BY Geometry
  <1>2. k * End + End <= l * End /\ l * End \in Nat /\ k * End \in Nat
    BY Times
  <1>3. Position(<<k, o>>) = k * End + o /\ Position(<<l, p>>) = l * End + p
    BY PositionIs
  <1> QED
    BY <1>1, <1>2, <1>3

\* In one block offsets order the places.
LEMMA OffsetsInOrder ==
    ASSUME NEW k \in Nat, NEW o \in 0..(End - 1), NEW p \in 0..(End - 1),
           NEW n \in Nat, o + n <= p
    PROVE  Position(<<k, o>>) + n <= Position(<<k, p>>)
  <1>1. End \in Nat
    BY Geometry
  <1>2. /\ Position(<<k, o>>) = k * End + o /\ Position(<<k, p>>) = k * End + p
        /\ k * End \in Nat
    BY PositionIs
  <1> QED
    BY <1>1, <1>2

\* A directory that has its blocks still is as far.
LEMMA ReachKept ==
    ASSUME NEW d, LinearDir(d), NEW e, LinearDir(e), DOMAIN d.blk \subseteq DOMAIN e.blk,
           NEW cookie, Reach(d, cookie)
    PROVE  Reach(e, cookie)
  <1>1. PICK n \in Nat : DOMAIN d.blk = 0..n /\ cookie \in 0..((n + 1) * End)
    BY DEF Reach
  <1>2. PICK m \in Nat : DOMAIN e.blk = 0..m
    BY DEF LinearDir
  <1>3. n <= m
    BY <1>1, <1>2
  <1>4. (n + 1) * End \in Nat /\ (m + 1) * End \in Nat /\ (n + 1) * End <= (m + 1) * End
    <2>1. CASE n = m
      BY <2>1, Geometry
    <2>2. CASE n < m
      <3>1. n + 1 \in Nat /\ m + 1 \in Nat /\ n + 1 < m + 1
        BY <2>2
      <3> QED
        BY <3>1, Times, Geometry
    <2> QED
      BY <1>3, <2>1, <2>2
  <1>5. cookie \in 0..((m + 1) * End)
    BY <1>1, <1>4
  <1> QED
    BY <1>2, <1>5 DEF Reach

\* The first of some places.
LEMMA FirstIsFirst ==
    ASSUME NEW S, S # {}, \A p \in S : Position(p) \in Nat
    PROVE  First(S) \in S /\ \A q \in S : Position(First(S)) <= Position(q)
  <1> DEFINE T == {Position(p) : p \in S}
  <1>1. Least(T) \in T /\ \A y \in T : Least(T) <= y
    <2>1. T \in SUBSET Nat /\ T # {}
      OBVIOUS
    <2> HIDE DEF T
    <2> QED
      BY <2>1, LeastIsLeast
  <1>2. PICK p \in S : Position(p) = Least(T)
    BY <1>1
  <1>3. \A q \in S : Position(p) <= Position(q)
    BY <1>1, <1>2
  <1> QED
    BY <1>3 DEF First

\* What is known of a place.
LEMMA PlaceIs ==
    ASSUME NEW d, LinearDir(d), NEW k, NEW o, At(d, k, o)
    PROVE  /\ k \in Nat /\ o \in 0..(End - 1)
           /\ d.blk[k][o].len \in 1..End /\ o + d.blk[k][o].len <= End
           /\ Position(<<k, o>>) \in Nat
           /\ \A p : At(d, k, p) => p <= o \/ o + d.blk[k][o].len <= p
  <1>1. k \in Nat /\ k \in DOMAIN d.blk /\ Tiled(d.blk[k]) /\ o \in DOMAIN d.blk[k]
    <2>1. k \in DOMAIN d.blk /\ o \in DOMAIN d.blk[k]
      BY DEF At, Used
    <2>2. k \in Nat /\ IsBlock(d.blk[k])
      BY <2>1 DEF LinearDir
    <2> QED
      BY <2>1, <2>2 DEF IsBlock
  <1>2. /\ o \in 0..(End - 1) /\ d.blk[k][o].len \in 1..End
        /\ o + d.blk[k][o].len \in DOMAIN d.blk[k] \cup {End}
        /\ DOMAIN d.blk[k] \subseteq 0..(End - 1)
    BY <1>1, RecordsOf
  <1>3. o + d.blk[k][o].len <= End
    BY <1>2, Geometry
  <1>4. \A p : At(d, k, p) => p <= o \/ o + d.blk[k][o].len <= p
    BY <1>1 DEF Tiled, At, Used
  <1>5. Position(<<k, o>>) \in Nat
    BY <1>1, <1>2, PositionIs
  <1> QED
    BY <1>1, <1>2, <1>3, <1>4, <1>5

\* A place behind another is behind the whole record there.
LEMMA NextPlace ==
    ASSUME NEW d, LinearDir(d), NEW k, NEW o, At(d, k, o), NEW l, NEW p, At(d, l, p)
    PROVE  \/ k = l /\ o = p
           \/ Position(<<l, p>>) < Position(<<k, o>>)
           \/ Position(<<k, o>>) + d.blk[k][o].len <= Position(<<l, p>>)
  <1>n. PICK n : n = d.blk[k][o].len
    OBVIOUS
  <1>m. PICK m : m = d.blk[l][p].len
    OBVIOUS
  <1>1. /\ k \in Nat /\ o \in 0..(End - 1) /\ n \in 1..End /\ o + n <= End
        /\ Position(<<k, o>>) \in Nat
        /\ \A q : At(d, k, q) => q <= o \/ o + n <= q
    BY <1>n, PlaceIs
  <1>2. /\ l \in Nat /\ p \in 0..(End - 1) /\ m \in 1..End /\ p + m <= End
        /\ Position(<<l, p>>) \in Nat
    BY <1>m, PlaceIs
  <1>3. n \in Nat /\ m \in Nat
    BY <1>1, <1>2, Geometry
  <1>4. CASE k < l
    BY <1>n, <1>1, <1>2, <1>3, <1>4, BlocksInOrder
  <1>5. CASE l < k
    <2>1. Position(<<l, p>>) + m <= Position(<<k, o>>)
      BY <1>1, <1>2, <1>3, <1>5, BlocksInOrder
    <2> QED
      BY <1>1, <1>2, <1>3, <2>1
  <1>6. CASE k = l
    <2>1. CASE p < o
      <3>1. Position(<<k, p>>) + 1 <= Position(<<k, o>>)
        BY <1>1, <1>2, <1>6, <2>1, OffsetsInOrder
      <3> QED
        BY <1>1, <1>2, <1>6, <3>1
    <2>2. CASE o < p
      <3>1. o + n <= p
        BY <1>1, <1>2, <1>6, <2>2
      <3> QED
        BY <1>n, <1>1, <1>2, <1>3, <1>6, <3>1, OffsetsInOrder
    <2> QED
      BY <1>1, <1>2, <1>6, <2>1, <2>2
  <1> QED
    BY <1>1, <1>2, <1>n, <1>4, <1>5, <1>6

-----------------------------------------------------------------------------
(* Look-up. *)

\* The walk finds a name where its entry stands, and only there.
LEMMA LookUp ==
    ASSUME ~indexed, LinearDir(dir), Means(dir, entries), NEW name
    PROVE  /\ Found(dir, name) <=> name \in DOMAIN entries
           /\ \A p : p \in Places(dir, name) <=>
                 \E k, o : p = <<k, o>> /\ At(dir, k, o) /\ dir.blk[k][o].name = name
           /\ Found(dir, name) =>
                 \E k, o : /\ First(Places(dir, name)) = <<k, o>>
                          /\ At(dir, k, o) /\ dir.blk[k][o].name = name
  <1>1. \A p : p \in Places(dir, name) <=>
          \E k, o : p = <<k, o>> /\ At(dir, k, o) /\ dir.blk[k][o].name = name
    BY DEF Places, At, Named
  <1>2. Found(dir, name) <=> name \in DOMAIN entries
    <2>1. Found(dir, name) <=> \E k, o : At(dir, k, o) /\ dir.blk[k][o].name = name
      BY <1>1 DEF Found
    <2> QED
      BY <2>1 DEF Means
  <1>3. ASSUME Found(dir, name)
        PROVE  \E k, o : /\ First(Places(dir, name)) = <<k, o>>
                        /\ At(dir, k, o) /\ dir.blk[k][o].name = name
    <2>1. \A p \in Places(dir, name) : Position(p) \in Nat
      BY <1>1, PlaceIs
    <2>2. First(Places(dir, name)) \in Places(dir, name)
      BY <1>3, <2>1, FirstIsFirst DEF Found
    <2> QED
      BY <1>1, <2>2
  <1> QED
    BY <1>1, <1>2, <1>3

-----------------------------------------------------------------------------
(* The inductive invariant. *)

LinearInv ==
    /\ indexed \in BOOLEAN
    /\ IsReader(reader)
    /\ ~indexed => LinearDir(dir) /\ Means(dir, entries) /\ Reach(dir, reader.cookie)
    /\ ~indexed /\ reader.on => Cursor(dir, entries, reader)

\* The names and inodes a directory is made with.
LEMMA OwnNames ==
    /\ Dot \in AllNames /\ DotDot \in AllNames /\ Dot # DotDot
    /\ Self \in Inodes /\ Parent \in Inodes
    /\ Children \subseteq Inodes /\ Targets \subseteq Inodes
    /\ Names \subseteq AllNames
  BY DirectoryConstants DEF Dot, DotDot

\* link_impl makes a directory of one block with "." and "..".
LEMMA InitHolds == Init => LinearInv
  <1> SUFFICES ASSUME Init PROVE LinearInv
    OBVIOUS
  <1>1. PICK b : b = FreshBlock(Dot, Self)
    OBVIOUS
  <1>2. IsBlock(b) /\ DOMAIN b = {0} /\ b[0].name = Dot /\ b[0].ino = Self
    BY <1>1, FreshIsTiled, OwnNames
  <1>3. b[0].len = End
    BY <1>1 DEF FreshBlock, Entry
  <1>4. Self # Unused /\ Parent # Unused
    BY OwnNames, Geometry
  <1>5. Roomy(b, DotDot) = {0}
    <2>1. End - Size[Dot] >= Need[DotDot]
      BY OwnNames, Geometry
    <2> QED
      BY <1>2, <1>3, <1>4, <2>1 DEF Roomy, Used
  <1>6. Least(Roomy(b, DotDot)) = 0
    BY <1>5, LeastIsLeast
  <1>7. PICK c : c = InsertBehind(b, 0, DotDot, Parent)
    OBVIOUS
  <1>8. PICK q : q = 0 + Size[b[0].name]
    OBVIOUS
  <1>9. /\ IsBlock(c)
        /\ q \notin DOMAIN b
        /\ DOMAIN c = DOMAIN b \cup {q}
        /\ c[q].name = DotDot /\ c[q].ino = Parent
        /\ \A p \in DOMAIN b : c[p].name = b[p].name /\ c[p].ino = b[p].ino
    <2>1. PICK o : o = 0
      OBVIOUS
    <2>2. /\ o \in Roomy(b, DotDot) /\ DotDot \in AllNames /\ Parent \in Inodes
          /\ c = InsertBehind(b, o, DotDot, Parent) /\ q = o + Size[b[o].name]
      BY <2>1, <1>5, <1>7, <1>8, OwnNames
    <2> QED
      BY <1>2, <2>2, InsertKeepsPlaces
  <1>10. dir = [blk |-> [k \in {0} |-> c], idx |-> <<>>, levels |-> 0, ok |-> TRUE, self |-> Self]
    BY <1>1, <1>6, <1>7 DEF Init, NewDirectory, InsertEntry
  <1>11. /\ IsDir(dir) /\ dir.ok = TRUE /\ dir.levels = 0
         /\ dir.blk = [k \in {0} |-> c]
    BY <1>10 DEF IsDir
  <1>12. LinearDir(dir)
    <2>1. DOMAIN dir.blk = 0..0 /\ dir.blk[0] = c
      BY <1>11
    <2> QED
      BY <1>9, <1>11, <2>1 DEF LinearDir
  <1>13. \A k, o : At(dir, k, o) <=> k = 0 /\ o \in {0, q}
    BY <1>2, <1>4, <1>9, <1>11 DEF At, Used
  <1>14. /\ dir.blk[0][0].name = Dot /\ dir.blk[0][0].ino = Self
         /\ dir.blk[0][q].name = DotDot /\ dir.blk[0][q].ino = Parent
    BY <1>2, <1>9, <1>11
  <1>15. /\ entries = [n \in DOMAIN entries |-> entries[n]]
         /\ DOMAIN entries = {Dot, DotDot}
         /\ entries[Dot] = Self /\ entries[DotDot] = Parent
    BY OwnNames DEF Init
  <1>16. Means(dir, entries)
    <2>1. \A k, o : At(dir, k, o) => /\ dir.blk[k][o].name \in DOMAIN entries
                                    /\ dir.blk[k][o].ino = entries[dir.blk[k][o].name]
      BY <1>13, <1>14, <1>15
    <2>2. \A n \in DOMAIN entries : \E k, o : At(dir, k, o) /\ dir.blk[k][o].name = n
      BY <1>13, <1>14, <1>15
    <2>3. \A k, o, l, p :
             At(dir, k, o) /\ At(dir, l, p) /\ dir.blk[k][o].name = dir.blk[l][p].name
                 => k = l /\ o = p
      BY <1>13, <1>14, OwnNames
    <2> QED
      BY <1>15, <2>1, <2>2, <2>3, OwnNames DEF Means
  <1>17. IsReader(reader) /\ reader.on = FALSE
    BY DEF Init, IsReader
  <1>18. indexed = FALSE
    BY DEF Init
  <1>19. Reach(dir, reader.cookie)
    <2>1. DOMAIN dir.blk = 0..0 /\ reader.cookie = 0
      BY <1>11 DEF Init
    <2>2. (0 + 1) * End \in Nat
      BY Geometry
    <2> QED
      BY <2>1, <2>2 DEF Reach
  <1> QED
    BY <1>12, <1>16, <1>17, <1>18, <1>19 DEF LinearInv

\* A call that the reader does not make leaves it what it is.
LEMMA ReaderKept ==
    ASSUME IsReader(reader), NEW P \in BOOLEAN, reader' = [reader EXCEPT !.on = @ /\ P]
    PROVE  /\ IsReader(reader')
           /\ reader'.on => reader.on
           /\ reader'.cookie = reader.cookie
           /\ reader'.seen = reader.seen /\ reader'.always = reader.always
  BY Zenon DEF IsReader

\* dir_add_entry, by the walk, by a new block or by the change to an index.
LEMMA AddKeeps ==
    ASSUME LinearInv, NEW name \in Names, NEW ino \in Children, Add(name, ino)
    PROVE  LinearInv'
  <1> DEFINE r == AddEntry(dir, name, ino)
  <1>1. /\ ~Found(dir, name)
        /\ dir' = IF Lasts(r) THEN [r EXCEPT !.ok = TRUE] ELSE dir
        /\ indexed' = (indexed \/ (Converts(dir, name) /\ CanAppend(dir) /\ Lasts(r)))
        /\ entries' = IF r.ok THEN With(entries, name, ino) ELSE entries
        /\ reader' = [reader EXCEPT !.on = @ /\ (indexed' => Listing = "always")]
    BY DEF Add, Added
  <1> HIDE DEF r
  <1>2. indexed' \in BOOLEAN
    BY <1>1
  <1>3. /\ IsReader(reader')
        /\ reader'.on => reader.on
        /\ reader'.cookie = reader.cookie
        /\ reader'.seen = reader.seen /\ reader'.always = reader.always
    <2>1. (indexed' => Listing = "always") \in BOOLEAN /\ IsReader(reader)
      BY DEF LinearInv
    <2> QED
      BY <1>1, <2>1, ReaderKept
  <1>4. ASSUME ~indexed'
        PROVE  /\ LinearDir(dir') /\ Means(dir', entries') /\ DOMAIN dir.blk \subseteq DOMAIN dir'.blk
               /\ Cursor(dir, entries, reader) => Cursor(dir', entries', reader)
    <2>1. ~indexed /\ LinearDir(dir) /\ Means(dir, entries)
      BY <1>1, <1>4 DEF LinearInv
    <2>2. name \in AllNames /\ ino \in Inodes /\ name \notin DOMAIN entries
      BY <1>1, <2>1, LookUp, OwnNames
    <2>3. IsDir(dir) /\ dir.ok = TRUE
      BY <2>1 DEF LinearDir
    <2>4. ASSUME r = Failed(dir) PROVE dir' = dir /\ entries' = entries
      <3>1. r.ok = FALSE /\ [r EXCEPT !.ok = TRUE] = dir
        BY <2>3, <2>4, FailedIs
      <3> QED
        BY <1>1, <3>1
    <2>5. CASE ~Converts(dir, name)
      <3>1. r = LinearAdd(dir, name, ino)
        BY <2>1, <2>5 DEF AddEntry, r
      <3>2. CASE r = Failed(dir)
        BY <2>1, <2>4, <3>2
      <3>3. CASE LinearDir(r) /\ Joins(dir, r, name, ino)
        <4>1. IsDir(r) /\ r.ok = TRUE
          BY <3>3 DEF LinearDir
        <4>2. [r EXCEPT !.ok = TRUE] = r
          BY <4>1, FailedIs
        <4>3. dir' = r /\ entries' = With(entries, name, ino)
          BY <1>1, <4>1, <4>2 DEF Lasts
        <4>4. DOMAIN dir.blk \subseteq DOMAIN dir'.blk
          BY <3>3, <4>3 DEF Joins
        <4>5. name \in AllNames /\ name \notin DOMAIN entries /\ Means(dir, entries)
          BY <2>1, <2>2
        <4> QED
          BY <3>3, <4>3, <4>4, <4>5, JoinMeans
      <3> QED
        BY <2>1, <2>2, <3>1, <3>2, <3>3, LinearAddEffect
    <2>6. CASE Converts(dir, name) /\ ~CanAppend(dir)
      <3>1. Convert(dir) = Failed(dir)
        BY <2>6 DEF Convert
      <3>2. Failed(dir).ok = FALSE
        BY <2>3, FailedIs
      <3>3. r = Failed(dir)
        BY <2>1, <2>6, <3>1, <3>2 DEF AddEntry, ConvertAndAdd, r
      <3> QED
        BY <2>1, <2>4, <3>3
    <2>7. CASE Converts(dir, name) /\ CanAppend(dir)
      <3>1. ~Lasts(r)
        BY <1>1, <1>4, <2>7
      <3>2. dir' = dir /\ entries' = entries
        BY <1>1, <3>1 DEF Lasts
      <3> QED
        BY <2>1, <3>2
    <2> QED
      BY <2>5, <2>6, <2>7
  <1>5. ASSUME ~indexed', reader'.on PROVE Cursor(dir', entries', reader')
    <2>1. Cursor(dir, entries, reader)
      BY <1>1, <1>3, <1>5 DEF LinearInv
    <2>2. Cursor(dir', entries', reader)
      BY <1>4, <1>5, <2>1
    <2> QED
      BY <1>3, <2>2 DEF Cursor
  <1>6. ASSUME ~indexed' PROVE Reach(dir', reader'.cookie)
    <2>1. LinearDir(dir) /\ Reach(dir, reader.cookie)
      BY <1>1, <1>6 DEF LinearInv
    <2>2. LinearDir(dir') /\ DOMAIN dir.blk \subseteq DOMAIN dir'.blk
      BY <1>4, <1>6
    <2> QED
      BY <1>3, <2>1, <2>2, ReachKept
  <1> QED
    BY <1>2, <1>3, <1>4, <1>5, <1>6 DEF LinearInv

\* dir_remove_entry.
LEMMA RemoveKeeps ==
    ASSUME LinearInv, NEW name \in Names, RemoveEntry(name)
    PROVE  LinearInv'
  <1>1. indexed' = indexed
    BY DEF RemoveEntry
  <1>2. /\ IsReader(reader') /\ reader'.on = reader.on /\ reader'.cookie = reader.cookie
        /\ reader'.seen = reader.seen \ {name} /\ reader'.always = reader.always \ {name}
    <2>1. IsReader(reader)
      BY DEF LinearInv
    <2>2. reader' = [reader EXCEPT !.seen = @ \ {name}, !.always = @ \ {name}]
      BY DEF RemoveEntry
    <2> QED
      BY <2>1, <2>2, Zenon DEF IsReader
  <1>3. ASSUME ~indexed
        PROVE  /\ LinearDir(dir') /\ Means(dir', entries') /\ DOMAIN dir'.blk = DOMAIN dir.blk
               /\ Cursor(dir, entries, reader) => Cursor(dir', entries', reader')
    <2>1. LinearDir(dir) /\ Means(dir, entries)
      BY <1>3 DEF LinearInv
    <2>2. PICK k, o : /\ First(Places(dir, name)) = <<k, o>>
                      /\ At(dir, k, o) /\ dir.blk[k][o].name = name
      BY <1>3, <2>1, LookUp DEF RemoveEntry
    <2>3. /\ dir' = PutBlock(dir, k, EraseAt(dir.blk[k], o))
          /\ entries' = [n \in DOMAIN entries \ {name} |-> entries[n]]
      BY <2>2 DEF RemoveEntry
    <2> QED
      BY <1>2, <2>1, <2>2, <2>3, EraseMeans
  <1>4. ASSUME ~indexed PROVE Reach(dir', reader'.cookie)
    <2>1. LinearDir(dir) /\ Reach(dir, reader.cookie)
      BY <1>4 DEF LinearInv
    <2>2. LinearDir(dir') /\ DOMAIN dir'.blk = DOMAIN dir.blk
      BY <1>3, <1>4
    <2> QED
      BY <1>2, <2>1, <2>2, ReachKept
  <1> QED
    BY <1>1, <1>2, <1>3, <1>4 DEF LinearInv

\* dir_set_entry_target.
LEMMA RetargetKeeps ==
    ASSUME LinearInv, NEW name, NEW ino \in Targets, SetEntryTarget(name, ino)
    PROVE  LinearInv'
  <1>1. indexed' = indexed /\ reader' = reader
    BY DEF SetEntryTarget
  <1>2. ASSUME ~indexed
        PROVE  /\ LinearDir(dir') /\ Means(dir', entries') /\ DOMAIN dir'.blk = DOMAIN dir.blk
               /\ Cursor(dir, entries, reader) => Cursor(dir', entries', reader)
    <2>1. LinearDir(dir) /\ Means(dir, entries) /\ ino \in Inodes
      BY <1>2, OwnNames DEF LinearInv
    <2>2. PICK k, o : /\ First(Places(dir, name)) = <<k, o>>
                      /\ At(dir, k, o) /\ dir.blk[k][o].name = name
      BY <1>2, <2>1, LookUp DEF SetEntryTarget
    <2>3. /\ dir' = PutBlock(dir, k, RetargetAt(dir.blk[k], o, ino))
          /\ entries' = [entries EXCEPT ![name] = ino]
      BY <2>2 DEF SetEntryTarget
    <2>4. /\ LinearDir(dir') /\ Means(dir', entries') /\ DOMAIN dir'.blk = DOMAIN dir.blk
          /\ \A rd : Cursor(dir, entries, rd) => Cursor(dir', entries', rd)
      <3>1. name \in DOMAIN entries
        BY <2>1, <2>2 DEF Means
      <3>2. PICK new : new = entries'
        OBVIOUS
      <3>3. /\ new = [n \in DOMAIN new |-> new[n]] /\ DOMAIN new = DOMAIN entries
            /\ new[name] = ino
            /\ \A n \in DOMAIN entries : n # name => new[n] = entries[n]
        <4>1. new = [entries EXCEPT ![name] = ino]
          BY <2>3, <3>2
        <4> QED
          BY <3>1, <4>1
      <3>4. PICK e : e = dir'
        OBVIOUS
      <3>5. e = PutBlock(dir, k, RetargetAt(dir.blk[k], o, ino))
        BY <2>3, <3>4
      <3>6. LinearDir(dir) /\ Means(dir, entries) /\ At(dir, k, o) /\ dir.blk[k][o].name = name
        BY <2>1, <2>2
      <3>7. ino \in Inodes
        BY <2>1
      <3>8. LinearDir(e) /\ Means(e, new) /\ DOMAIN e.blk = DOMAIN dir.blk
        BY <3>3, <3>5, <3>6, <3>7, RetargetMeans
      <3>9. \A rd : Cursor(dir, entries, rd) => Cursor(e, new, rd)
        BY <3>3, <3>5, <3>6, <3>7, RetargetMeans
      <3> QED
        BY <3>2, <3>4, <3>8, <3>9
    <2> QED
      BY <2>4
  <1>3. ASSUME ~indexed PROVE Reach(dir', reader'.cookie)
    <2>1. LinearDir(dir) /\ Reach(dir, reader.cookie)
      BY <1>3 DEF LinearInv
    <2>2. LinearDir(dir') /\ DOMAIN dir'.blk = DOMAIN dir.blk
      BY <1>2, <1>3
    <2> QED
      BY <1>1, <2>1, <2>2, ReachKept
  <1> QED
    BY <1>1, <1>2, <1>3 DEF LinearInv

\* The cookie of an entry is behind it and in front of every later one.
LEMMA ReadDirKeeps ==
    ASSUME LinearInv, ReadDir
    PROVE  LinearInv'
  <1> DEFINE p == First(Behind(reader.cookie))
             e == dir.blk[p[1]][p[2]]
  <1>1. dir' = dir /\ indexed' = indexed /\ entries' = entries
    BY DEF ReadDir
  <1>2. IsReader(reader)
    BY DEF LinearInv
  <1>3. CASE Behind(reader.cookie) = {}
    <2>1. reader' = [on |-> FALSE, cookie |-> 0, seen |-> {}, always |-> {}]
      BY <1>3 DEF ReadDir
    <2>2. IsReader(reader') /\ reader'.on = FALSE
      BY <2>1 DEF IsReader
    <2>3. ASSUME ~indexed PROVE Reach(dir, 0)
      <3>1. PICK n \in Nat : DOMAIN dir.blk = 0..n
        BY <2>3 DEF LinearInv, LinearDir
      <3>2. (n + 1) * End \in Nat
        BY Geometry
      <3> QED
        BY <3>1, <3>2 DEF Reach
    <2> QED
      BY <1>1, <2>1, <2>2, <2>3 DEF LinearInv
  <1>4. CASE Behind(reader.cookie) # {}
    <2>1. reader' = [reader EXCEPT !.cookie = Position(p) + e.len,
                                   !.seen = @ \cup {e.name}]
      BY <1>4 DEF ReadDir
    <2> HIDE DEF e, p
    <2>2. /\ reader'.cookie = Position(p) + e.len /\ reader'.on = reader.on
          /\ reader'.seen = reader.seen \cup {e.name} /\ reader'.always = reader.always
          /\ reader' = [on |-> reader'.on, cookie |-> reader'.cookie,
                        seen |-> reader'.seen, always |-> reader'.always]
      BY <1>2, <2>1, Zenon DEF IsReader
    <2>5. IsReader(reader')
      BY <1>2, <2>2 DEF IsReader
    <2>3. CASE ~indexed
      <3>1. /\ LinearDir(dir) /\ Means(dir, entries) /\ reader.on
            /\ Cursor(dir, entries, reader) /\ reader.cookie \in Nat
        BY <2>3 DEF LinearInv, ReadDir, Cursor
      <3>2. \A q : q \in Behind(reader.cookie) <=>
              \E k, o : /\ q = <<k, o>> /\ At(dir, k, o)
                       /\ Position(<<k, o>>) >= reader.cookie
        <4> DEFINE W == UNION {{<<k, o>> : o \in Used(dir.blk[k])} : k \in DOMAIN dir.blk}
        <4>1. \A q : q \in W <=> \E k, o : q = <<k, o>> /\ At(dir, k, o)
          BY DEF At
        <4>2. Behind(reader.cookie) = {q \in W : Position(q) >= reader.cookie}
          BY DEF Behind
        <4> HIDE DEF W
        <4> QED
          BY <4>1, <4>2
      <3>3. /\ p \in Behind(reader.cookie)
            /\ \A q \in Behind(reader.cookie) : Position(p) <= Position(q)
        <4>1. \A q \in Behind(reader.cookie) : Position(q) \in Nat
          BY <3>1, <3>2, PlaceIs
        <4> QED
          BY <1>4, <4>1, FirstIsFirst DEF p
      <3>4. PICK k, o : /\ p = <<k, o>> /\ At(dir, k, o)
                        /\ Position(<<k, o>>) >= reader.cookie
        BY <3>2, <3>3
      <3>5. e = dir.blk[k][o]
        BY <3>4 DEF e
      <3>6. /\ e.len \in Nat \ {0} /\ Position(<<k, o>>) \in Nat
        BY <3>1, <3>4, <3>5, PlaceIs, Geometry
      <3>7. reader'.cookie \in Nat /\ reader'.cookie > Position(<<k, o>>)
        BY <2>2, <3>4, <3>6
      <3>8. reader'.seen \subseteq DOMAIN entries /\ reader'.always \subseteq DOMAIN entries
        BY <2>2, <3>1, <3>4, <3>5 DEF Cursor, Means
      <3>9. ASSUME NEW l, NEW q, At(dir, l, q), dir.blk[l][q].name \in reader'.seen
            PROVE  Position(<<l, q>>) < reader'.cookie
        <4>1. Position(<<l, q>>) \in Nat
          BY <3>1, <3>9, PlaceIs
        <4>2. CASE dir.blk[l][q].name = e.name
          BY <3>1, <3>4, <3>5, <3>7, <3>9, <4>2 DEF Means
        <4>3. CASE dir.blk[l][q].name \in reader.seen
          <5>1. Position(<<l, q>>) < reader.cookie
            BY <3>1, <3>9, <4>3 DEF Cursor
          <5> QED
            BY <3>1, <3>4, <3>6, <3>7, <4>1, <5>1
        <4> QED
          BY <2>2, <3>9, <4>2, <4>3
      <3>10. ASSUME NEW l, NEW q, At(dir, l, q),
                    dir.blk[l][q].name \in reader'.always \ reader'.seen
             PROVE  Position(<<l, q>>) >= reader'.cookie
        <4>1. Position(<<l, q>>) \in Nat
          BY <3>1, <3>10, PlaceIs
        <4>2. Position(<<l, q>>) >= reader.cookie
          BY <2>2, <3>1, <3>10 DEF Cursor
        <4>3. Position(<<k, o>>) <= Position(<<l, q>>)
          BY <3>2, <3>3, <3>4, <3>10, <4>2
        <4>4. ~(k = l /\ o = q)
          BY <2>2, <3>5, <3>10
        <4>5. Position(<<k, o>>) + e.len <= Position(<<l, q>>)
          BY <3>1, <3>4, <3>5, <3>6, <3>10, <4>1, <4>3, <4>4, NextPlace
        <4> QED
          BY <2>2, <3>4, <3>7, <4>1, <4>5
      <3>11. Cursor(dir, entries, reader')
        BY <3>7, <3>8, <3>9, <3>10 DEF Cursor
      <3>12. Reach(dir, reader'.cookie)
        <4>1. PICK n \in Nat : DOMAIN dir.blk = 0..n
          BY <3>1 DEF LinearDir
        <4>2. k \in 0..n /\ o \in 0..(End - 1) /\ e.len \in 1..End /\ o + e.len <= End
          BY <3>1, <3>4, <3>5, <4>1, PlaceIs DEF At
        <4>3. Position(<<k, o>>) = k * End + o /\ k * End \in Nat
          BY <4>2, PositionIs
        <4>4. k * End + End <= (n + 1) * End /\ (n + 1) * End \in Nat
          <5>1. k \in Nat /\ n + 1 \in Nat /\ k < n + 1
            BY <4>1, <4>2
          <5> QED
            BY <5>1, Times
        <4>5. reader'.cookie = (k * End + o) + e.len
          BY <2>2, <3>4, <4>3
        <4>6. reader'.cookie \in 0..((n + 1) * End)
          BY <4>2, <4>3, <4>4, <4>5, Geometry
        <4> QED
          BY <4>1, <4>6 DEF Reach
      <3> QED
        BY <1>1, <2>2, <3>1, <3>11, <3>12, <2>5 DEF LinearInv
    <2>4. CASE indexed
      BY <1>1, <2>4, <2>5 DEF LinearInv
    <2> QED
      BY <2>3, <2>4 DEF LinearInv
  <1> QED
    BY <1>3, <1>4

\* An enumeration begins at the first place.
LEMMA StartKeeps ==
    ASSUME LinearInv, StartListing
    PROVE  LinearInv'
  <1>1. dir' = dir /\ indexed' = indexed /\ entries' = entries
    BY DEF StartListing
  <1>2. reader' = [on |-> TRUE, cookie |-> 0, seen |-> {}, always |-> DOMAIN entries]
    BY DEF StartListing
  <1>3. /\ IsReader(reader') /\ reader'.cookie = 0
        /\ reader'.seen = {} /\ reader'.always = DOMAIN entries
    BY <1>2 DEF IsReader
  <1>4. ASSUME LinearDir(dir) PROVE Cursor(dir, entries, reader')
    <2>1. \A k, o : At(dir, k, o) => Position(<<k, o>>) \in Nat
      BY <1>4, PlaceIs
    <2>2. \A k, o : At(dir, k, o) => Position(<<k, o>>) >= 0
      BY <2>1
    <2> QED
      BY <1>3, <2>2 DEF Cursor
  <1>5. ASSUME ~indexed PROVE Reach(dir, 0)
    <2>1. PICK n \in Nat : DOMAIN dir.blk = 0..n
      BY <1>5 DEF LinearInv, LinearDir
    <2>2. (n + 1) * End \in Nat
      BY Geometry
    <2> QED
      BY <2>1, <2>2 DEF Reach
  <1> QED
    BY <1>1, <1>3, <1>4, <1>5 DEF LinearInv

\* Every step.
LEMMA NextKeeps == LinearInv /\ [Next]_vars => LinearInv'
  <1> SUFFICES ASSUME LinearInv, [Next]_vars PROVE LinearInv'
    OBVIOUS
  <1>1. CASE \E name \in Names, ino \in Children : Add(name, ino)
    BY <1>1, AddKeeps
  <1>2. CASE \E name \in Names : RemoveEntry(name)
    BY <1>2, RemoveKeeps
  <1>3. CASE \E name \in Names \cup {DotDot}, ino \in Targets : SetEntryTarget(name, ino)
    BY <1>3, RetargetKeeps
  <1>4. CASE StartListing
    BY <1>4, StartKeeps
  <1>5. CASE ReadDir
    BY <1>5, ReadDirKeeps
  <1>6. CASE UNCHANGED vars
    <2>1. dir' = dir /\ indexed' = indexed /\ entries' = entries /\ reader' = reader
      BY <1>6 DEF vars
    <2> QED
      BY <2>1 DEF LinearInv
  <1> QED
    BY <1>1, <1>2, <1>3, <1>4, <1>5, <1>6 DEF Next

\* LinearInv holds throughout.
THEOREM LinearInvariant == Spec => []LinearInv
  BY InitHolds, NextKeeps, PTL DEF Spec

-----------------------------------------------------------------------------
(* What follows. *)

\* Without an index the records tile every block: dir_add_entry and
\* dir_remove_entry leave no gap and no overlap behind (dir.rs:327, 431).
THEOREM LinearTiles == Spec => [](~indexed => RecordsTile)
  <1>1. LinearInv => (~indexed => RecordsTile)
    BY DEF LinearInv, LinearDir, IsBlock, RecordsTile
  <1> QED
    BY <1>1, LinearInvariant, PTL

\* Without an index a look-up finds what was added and not removed, with the
\* inode it was given last (dir.rs:31).
THEOREM LinearFindIsExact == Spec => [](~indexed => FindIsExact)
  <1>1. LinearInv => (~indexed => FindIsExact)
    <2> SUFFICES ASSUME LinearInv, ~indexed, NEW n \in Names
                 PROVE  /\ Found(dir, n) <=> n \in DOMAIN entries
                        /\ n \in DOMAIN entries => Find(dir, n) = entries[n]
      BY DEF FindIsExact
    <2>1. LinearDir(dir) /\ Means(dir, entries)
      BY DEF LinearInv
    <2>2. Found(dir, n) <=> n \in DOMAIN entries
      BY <2>1, LookUp
    <2>3. ASSUME n \in DOMAIN entries PROVE Find(dir, n) = entries[n]
      <3>1. PICK k, o : /\ First(Places(dir, n)) = <<k, o>>
                        /\ At(dir, k, o) /\ dir.blk[k][o].name = n
        BY <2>1, <2>2, <2>3, LookUp
      <3>2. Find(dir, n) = dir.blk[k][o].ino
        BY <3>1 DEF Find
      <3> QED
        BY <2>1, <3>1, <3>2 DEF Means
    <2> QED
      BY <2>2, <2>3
  <1> QED
    BY <1>1, LinearInvariant, PTL

\* Without an index a walk lists every entry once (dir.rs:155).
THEOREM LinearListedOnce == Spec => [](~indexed => ListedOnce)
  <1>1. LinearInv => (~indexed => ListedOnce)
    <2> SUFFICES ASSUME LinearInv, ~indexed, NEW n \in AllNames
                 PROVE  Cardinality(UNION {{<<k, o>> : o \in Named(dir.blk[k], n)} : k \in DOMAIN dir.blk})
                            = (IF n \in DOMAIN entries THEN 1 ELSE 0)
      BY DEF ListedOnce
    <2> DEFINE P == UNION {{<<k, o>> : o \in Named(dir.blk[k], n)} : k \in DOMAIN dir.blk}
    <2>1. LinearDir(dir) /\ Means(dir, entries)
      BY DEF LinearInv
    <2>2. \A p : p \in P <=> \E k, o : p = <<k, o>> /\ At(dir, k, o) /\ dir.blk[k][o].name = n
      BY DEF At, Named
    <2> HIDE DEF P
    <2>3. CASE n \in DOMAIN entries
      <3>1. PICK k, o : At(dir, k, o) /\ dir.blk[k][o].name = n
        BY <2>1, <2>3 DEF Means
      <3>2. P = {<<k, o>>}
        BY <2>1, <2>2, <3>1 DEF Means
      <3>3. Cardinality(P) = 1
        BY <3>2, FS_Singleton
      <3> QED
        BY <2>3, <3>3 DEF P
    <2>4. CASE n \notin DOMAIN entries
      <3>1. P = {}
        BY <2>1, <2>2, <2>4 DEF Means
      <3>2. Cardinality(P) = 0
        BY <3>1, FS_EmptySet
      <3> QED
        BY <2>4, <3>2 DEF P
    <2> QED
      BY <2>3, <2>4
  <1> QED
    BY <1>1, LinearInvariant, PTL

\* Without an index an enumeration resumed with its cookies returns each entry
\* that stays once, whatever is added, removed or repointed in between
\* (direntry.rs:31).
THEOREM LinearListingIsStable == Spec => [](~indexed => ListingIsStable)
  <1>1. LinearInv => (~indexed => ListingIsStable)
    <2> SUFFICES ASSUME LinearInv, ~indexed, reader.on
                 PROVE  /\ \A n \in reader.seen : Position(EntryAt(n)) < reader.cookie
                        /\ \A n \in reader.always \ reader.seen :
                              Position(EntryAt(n)) >= reader.cookie
      BY DEF ListingIsStable
    <2>1. LinearDir(dir) /\ Means(dir, entries) /\ Cursor(dir, entries, reader)
      BY DEF LinearInv
    <2>2. ASSUME NEW n \in DOMAIN entries
          PROVE  \E k, o : EntryAt(n) = <<k, o>> /\ At(dir, k, o) /\ dir.blk[k][o].name = n
      <3> DEFINE P == UNION {{<<k, o>> : o \in Named(dir.blk[k], n)} : k \in DOMAIN dir.blk}
      <3>1. \A p : p \in P <=> \E k, o : p = <<k, o>> /\ At(dir, k, o) /\ dir.blk[k][o].name = n
        BY DEF At, Named
      <3>2. EntryAt(n) = CHOOSE p \in P : TRUE
        BY DEF EntryAt
      <3> HIDE DEF P
      <3>3. P # {}
        <4>1. \E k, o : At(dir, k, o) /\ dir.blk[k][o].name = n
          BY <2>1, <2>2 DEF Means
        <4> QED
          BY <3>1, <4>1
      <3>4. EntryAt(n) \in P
        BY <3>2, <3>3
      <3> QED
        BY <3>1, <3>4
    <2>3. reader.seen \subseteq DOMAIN entries /\ reader.always \subseteq DOMAIN entries
      BY <2>1 DEF Cursor
    <2>4. ASSUME NEW n \in reader.seen PROVE Position(EntryAt(n)) < reader.cookie
      <3>1. PICK k, o : EntryAt(n) = <<k, o>> /\ At(dir, k, o) /\ dir.blk[k][o].name = n
        BY <2>2, <2>3
      <3> QED
        BY <2>1, <3>1 DEF Cursor
    <2>5. ASSUME NEW n \in reader.always \ reader.seen PROVE Position(EntryAt(n)) >= reader.cookie
      <3>1. PICK k, o : EntryAt(n) = <<k, o>> /\ At(dir, k, o) /\ dir.blk[k][o].name = n
        BY <2>2, <2>3
      <3> QED
        BY <2>1, <3>1 DEF Cursor
    <2> QED
      BY <2>4, <2>5
  <1> QED
    BY <1>1, LinearInvariant, PTL

\* Without an index the directory is sound: its blocks can be walked and each
\* entry is in one place (dir.rs:155, 327, 431).
THEOREM LinearSound == Spec => [](~indexed => Inv)
  <1>1. LinearInv => (~indexed => TypeOK)
    <2> SUFFICES ASSUME LinearInv, ~indexed PROVE TypeOK
      OBVIOUS
    <2>1. LinearDir(dir) /\ Means(dir, entries) /\ Reach(dir, reader.cookie)
      BY DEF LinearInv
    <2>2. PICK n \in Nat : DOMAIN dir.blk = 0..n /\ reader.cookie \in 0..((n + 1) * End)
      BY <2>1 DEF Reach
    <2>3. BlockCount(dir) = n + 1
      BY <2>2, CountIs
    <2>4. DOMAIN dir.blk = 0..(BlockCount(dir) - 1)
      BY <2>2, <2>3
    <2>5. dir.ok /\ indexed \in BOOLEAN /\ dir.levels \in 0..MaxLevels
      <3>1. dir.ok = TRUE /\ dir.levels = 0
        BY <2>1 DEF LinearDir
      <3>2. dir.ok
        BY <3>1, Zenon
      <3>3. 0 \in 0..MaxLevels
        BY DEF MaxLevels
      <3>4. indexed \in BOOLEAN
        BY Zenon DEF LinearInv
      <3> QED
        BY <3>1, <3>2, <3>3, <3>4, Zenon
    <2>6. DOMAIN entries \subseteq AllNames
      BY <2>1 DEF Means
    <2>7. reader.cookie \in 0..(BlockCount(dir) * End)
      BY <2>2, <2>3
    <2> QED
      BY <2>4, <2>5, <2>6, <2>7 DEF TypeOK
  <1>2. (~indexed => TypeOK) /\ (~indexed => RecordsTile) /\ (~indexed => ListedOnce)
            => (~indexed => Inv)
    BY DEF Inv
  <1> QED
    BY <1>1, <1>2, LinearInvariant, LinearTiles, LinearListedOnce, PTL
=============================================================================
