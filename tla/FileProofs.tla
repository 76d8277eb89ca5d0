----------------------------- MODULE FileProofs -----------------------------
(***************************************************************************)
(* Two tables of a file: its locks and its extents.                        *)
(*                                                                         *)
(* The lock table is free of conflicts for every set of files and owners   *)
(* and every length of the files.  The conjuncts of LocksInv need each     *)
(* other: a new lock replaces its owner's overlapping ones, so that what   *)
(* is left of the table still is what the owner was granted.               *)
(*                                                                         *)
(* The extent tree is searched exactly, whatever its depth and the size of *)
(* its nodes, if it is Ordered.  The search is two recursions, the halving *)
(* of a node's keys and the descent; each is shown to be defined by        *)
(* carrying a function that obeys it up to a width or a level, and what it *)
(* finds by induction on the same.                                         *)
(***************************************************************************)
EXTENDS FileLocks, ExtentTree, WellFoundedInduction, TLAPS

-----------------------------------------------------------------------------
(* Locks *)

\* The empty table satisfies the invariant.
LEMMA LocksInitInv == LocksInit => LocksInv
  BY DEF LocksInit, LocksInv, LocksTypeOK, NoConflict, OwnDisjoint, NoStaleLock

\* A range of bytes that a request names is one of bytes of the file.
LEMMA RangeOfBytes ==
    ASSUME NEW start \in Byte, NEW end \in start .. LastByte
    PROVE  end \in Byte /\ start <= end
  BY LastByteAssumption DEF Byte

\* The fields of a lock, and that its bytes are bytes of the file.
LEMMA LockFields ==
    ASSUME NEW l \in Lock
    PROVE  /\ l.owner \in Owner /\ l.start \in Byte /\ l.end \in Byte /\ l.typ \in Mode
           /\ l.start .. l.end \subseteq Byte
  <1>1. l.owner \in Owner /\ l.start \in Byte /\ l.end \in Byte /\ l.typ \in Mode
    BY DEF Lock
  <1> QED
    BY <1>1, LastByteAssumption DEF Byte

\* What an owner holds after a reply: the mode on the bytes of the range, and
\* what it held before on the others; other files and owners do not change.
LEMMA ReplyEffect ==
    ASSUME LocksTypeOK, NEW ino \in Inode, NEW owner \in Owner, NEW start \in Byte, NEW end \in Byte,
           NEW mode \in Mode \cup {"none"}, Reply(ino, owner, start, end, mode)
    PROVE  /\ held' \in [Inode -> [Owner -> [Byte -> Mode \cup {"none"}]]]
           /\ \A j \in Inode, o \in Owner, b \in Byte :
                 held'[j][o][b] = IF j = ino /\ o = owner /\ b \in start .. end
                                  THEN mode ELSE held[j][o][b]
  BY DEF LocksTypeOK, Reply

\* Removing an owner's locks in a range adds none, and leaves none of that
\* owner's that meets the range.
LEMMA WithoutEffect ==
    ASSUME LocksInv, NEW ino \in Inode, NEW owner \in Owner, NEW start \in Byte, NEW end \in Byte
    PROVE  /\ Without(ino, owner, start, end) \subseteq locks[ino]
           /\ \A l \in Without(ino, owner, start, end) :
                 l.owner = owner => ~Overlap(l, start, end)
  BY DEF Without

\* A lock is granted: the new lock meets no other owner's unless both read, and
\* none of its own owner's.
LEMMA SetLockInv ==
    ASSUME LocksInv, NEW ino \in Inode, NEW owner \in Owner, NEW start \in Byte,
           NEW end \in start .. LastByte, NEW typ \in Mode, SetLock(ino, owner, start, end, typ)
    PROVE  LocksInv'
  <1> DEFINE new == [owner |-> owner, start |-> start, end |-> end, typ |-> typ]
             kept == Without(ino, owner, start, end)
  <1>0. end \in Byte /\ start <= end
    BY RangeOfBytes
  <1>1. new \in Lock
    BY <1>0 DEF Lock
  <1>2. kept \subseteq locks[ino] /\ \A l \in kept : l.owner = owner => ~Overlap(l, start, end)
    BY <1>0, WithoutEffect
  <1>3. /\ locks' \in [Inode -> SUBSET Lock]
        /\ locks'[ino] = kept \cup {new}
        /\ \A j \in Inode : j # ino => locks'[j] = locks[j]
    BY <1>1, <1>2 DEF SetLock, LocksInv, LocksTypeOK
  <1>4. /\ held' \in [Inode -> [Owner -> [Byte -> Mode \cup {"none"}]]]
        /\ \A j \in Inode, o \in Owner, b \in Byte :
              held'[j][o][b] = IF j = ino /\ o = owner /\ b \in start .. end
                               THEN typ ELSE held[j][o][b]
    BY <1>0, ReplyEffect DEF SetLock, LocksInv
  <1>5. LocksTypeOK'
    BY <1>3, <1>4 DEF LocksTypeOK
  <1>6. \A l \in kept : /\ l \in Lock
                        /\ ~Conflicts(l, owner, start, end, typ)
    BY <1>2 DEF SetLock, LocksInv, LocksTypeOK
  <1>7. NoConflict'
    <2> SUFFICES ASSUME NEW j \in Inode, NEW l \in locks'[j], NEW m \in locks'[j],
                        l.owner # m.owner, Overlap(l, m.start, m.end)
                 PROVE  l.typ = "read" /\ m.typ = "read"
      BY DEF NoConflict, Overlap
    <2>1. CASE j # ino \/ (l \in kept /\ m \in kept)
      BY <2>1, <1>2, <1>3 DEF LocksInv, NoConflict
    <2>2. CASE j = ino /\ l = new /\ m \in kept
      BY <2>2, <1>0, <1>6, LockFields DEF Conflicts, Overlap, Byte, Mode
    <2>3. CASE j = ino /\ m = new /\ l \in kept
      BY <2>3, <1>0, <1>6, LockFields DEF Conflicts, Overlap, Byte, Mode
    <2> QED
      BY <2>1, <2>2, <2>3, <1>3
  <1>8. OwnDisjoint'
    <2> SUFFICES ASSUME NEW j \in Inode, NEW l \in locks'[j], NEW m \in locks'[j],
                        l.owner = m.owner, l # m
                 PROVE  ~Overlap(l, m.start, m.end)
      BY DEF OwnDisjoint, Overlap
    <2>1. CASE j # ino \/ (l \in kept /\ m \in kept)
      BY <2>1, <1>2, <1>3 DEF LocksInv, OwnDisjoint
    <2>2. CASE j = ino /\ l = new /\ m \in kept
      BY <2>2, <1>0, <1>2, <1>6, LockFields DEF Overlap, Byte
    <2>3. CASE j = ino /\ m = new /\ l \in kept
      BY <2>3, <1>2 DEF Overlap
    <2> QED
      BY <2>1, <2>2, <2>3, <1>3
  <1>9. NoStaleLock'
    <2> SUFFICES ASSUME NEW j \in Inode, NEW l \in locks'[j], NEW b \in l.start .. l.end
                 PROVE  held'[j][l.owner][b] = l.typ
      BY DEF NoStaleLock
    <2>1. l \in Lock /\ l.owner \in Owner /\ l.start \in Byte /\ l.end \in Byte /\ b \in Byte
      BY <1>3, LockFields
    <2>2. CASE j # ino
      <3>1. l \in locks[j] /\ held'[j][l.owner][b] = held[j][l.owner][b]
        BY <2>1, <2>2, <1>3, <1>4
      <3> QED
        BY <3>1 DEF LocksInv, NoStaleLock
    <2>3. CASE j = ino /\ l = new
      BY <2>1, <2>3, <1>4
    <2>4. CASE j = ino /\ l \in kept
      <3>1. l.owner = owner => b \notin start .. end
        BY <2>1, <2>4, <1>2, <1>0 DEF Overlap, Byte
      <3> QED
        BY <2>1, <2>4, <3>1, <1>2, <1>4 DEF LocksInv, NoStaleLock
    <2> QED
      BY <2>2, <2>3, <2>4, <1>3
  <1> QED
    BY <1>5, <1>7, <1>8, <1>9 DEF LocksInv

\* A range is given back: every lock of the owner that meets it goes.
LEMMA UnlockInv ==
    ASSUME LocksInv, NEW ino \in Inode, NEW owner \in Owner, NEW start \in Byte,
           NEW end \in start .. LastByte, Unlock(ino, owner, start, end)
    PROVE  LocksInv'
  <1> DEFINE kept == Without(ino, owner, start, end)
  <1>0. end \in Byte /\ start <= end
    BY RangeOfBytes
  <1>1. kept \subseteq locks[ino] /\ \A l \in kept : l.owner = owner => ~Overlap(l, start, end)
    BY <1>0, WithoutEffect
  <1>2. /\ locks' \in [Inode -> SUBSET Lock]
        /\ locks'[ino] = kept
        /\ \A j \in Inode : j # ino => locks'[j] = locks[j]
    BY <1>1 DEF Unlock, LocksInv, LocksTypeOK
  <1>3. /\ held' \in [Inode -> [Owner -> [Byte -> Mode \cup {"none"}]]]
        /\ \A j \in Inode, o \in Owner, b \in Byte :
              held'[j][o][b] = IF j = ino /\ o = owner /\ b \in start .. end
                               THEN "none" ELSE held[j][o][b]
    BY <1>0, ReplyEffect DEF Unlock, LocksInv
  <1>4. \A j \in Inode : locks'[j] \subseteq locks[j]
    BY <1>1, <1>2
  <1>5. LocksTypeOK' /\ NoConflict' /\ OwnDisjoint'
    BY <1>2, <1>3, <1>4 DEF LocksInv, LocksTypeOK, NoConflict, OwnDisjoint, Overlap
  <1>6. NoStaleLock'
    <2> SUFFICES ASSUME NEW j \in Inode, NEW l \in locks'[j], NEW b \in l.start .. l.end
                 PROVE  held'[j][l.owner][b] = l.typ
      BY DEF NoStaleLock
    <2>1. l \in Lock /\ l.owner \in Owner /\ l.start \in Byte /\ l.end \in Byte /\ b \in Byte
      BY <1>2, LockFields
    <2>2. j = ino /\ l.owner = owner => b \notin start .. end
      BY <2>1, <1>0, <1>1, <1>2 DEF Overlap, Byte
    <2>3. l \in locks[j] /\ held'[j][l.owner][b] = held[j][l.owner][b]
      BY <2>1, <2>2, <1>3, <1>4
    <2> QED
      BY <2>3 DEF LocksInv, NoStaleLock
  <1> QED
    BY <1>5, <1>6 DEF LocksInv

\* All locks of an owner go, and the owner knows it.
LEMMA ReleaseOwnerInv ==
    ASSUME LocksInv, NEW owner \in Owner, ReleaseOwner(owner)
    PROVE  LocksInv'
  <1>1. /\ locks' \in [Inode -> SUBSET Lock]
        /\ \A j \in Inode : locks'[j] = {l \in locks[j] : l.owner # owner}
    BY DEF ReleaseOwner, LocksInv, LocksTypeOK
  <1>2. /\ held' \in [Inode -> [Owner -> [Byte -> Mode \cup {"none"}]]]
        /\ \A j \in Inode, o \in Owner : o # owner => held'[j][o] = held[j][o]
    BY DEF ReleaseOwner, LocksInv, LocksTypeOK
  <1>3. LocksTypeOK' /\ NoConflict' /\ OwnDisjoint'
    BY <1>1, <1>2 DEF LocksInv, LocksTypeOK, NoConflict, OwnDisjoint, Overlap
  <1>4. NoStaleLock'
    BY <1>1, <1>2, LockFields DEF LocksInv, LocksTypeOK, NoStaleLock
  <1> QED
    BY <1>3, <1>4 DEF LocksInv

\* The invariant holds whatever owners lock, unlock and close, in any order.
THEOREM LocksInvHolds == LocksSpec => []LocksInv
  <1>1. LocksInv /\ [LocksNext]_lockVars => LocksInv'
    <2> SUFFICES ASSUME LocksInv, [LocksNext]_lockVars PROVE LocksInv'
      OBVIOUS
    <2>1. CASE UNCHANGED lockVars
      BY <2>1 DEF LocksInv, LocksTypeOK, NoConflict, OwnDisjoint, NoStaleLock, Overlap, lockVars
    <2>2. CASE LocksNext
      BY <2>2, SetLockInv, UnlockInv, ReleaseOwnerInv DEF LocksNext
    <2> QED
      BY <2>1, <2>2
  <1> QED
    BY LocksInitInv, <1>1, PTL DEF LocksSpec

\* No two owners hold conflicting locks in the table of fuse_setlk.
THEOREM ConflictFree == LocksSpec => []NoConflict
  <1>1. LocksInv => NoConflict
    BY DEF LocksInv
  <1> QED
    BY LocksInvHolds, <1>1, PTL

\* No lock is left in the table of what its owner unlocked or released.
THEOREM ReleaseIsComplete == LocksSpec => []NoStaleLock
  <1>1. LocksInv => NoStaleLock
    BY DEF LocksInv
  <1> QED
    BY LocksInvHolds, <1>1, PTL

-----------------------------------------------------------------------------
(* The search of the extent tree *)

\* A set of naturals that is not empty has a least element.
LEMMA LeastExists ==
    ASSUME NEW S \in SUBSET Nat, S # {}
    PROVE  \E x \in S : \A y \in S : x <= y
  <1> DEFINE R == OpToRel(<, Nat)
  <1>1. \E x \in S : \A y \in S : ~(<<y, x>> \in R)
    <2>1. IsWellFoundedOn(R, Nat)
      BY NatLessThanWellFounded
    <2> HIDE DEF R
    <2> QED
      BY <2>1, WFMin
  <1>2. PICK x \in S : \A y \in S : ~(<<y, x>> \in R)
    BY <1>1
  <1>3. \A y \in S : x <= y
    <2> SUFFICES ASSUME NEW y \in S, y < x PROVE FALSE
      OBVIOUS
    <2>1. y \in Nat /\ x \in Nat
      BY <1>2
    <2>2. <<y, x>> \in R
      BY <2>1 DEF OpToRel
    <2> QED
      BY <1>2, <2>2
  <1> QED
    BY <1>2, <1>3

\* What holds of 0, and of each number up to n whose predecessor it holds of,
\* holds up to n.
LEMMA UpTo ==
    ASSUME NEW n \in Nat, NEW S, 0 \in S, \A k \in 1 .. n : k - 1 \in S => k \in S
    PROVE  0 .. n \subseteq S
  <1> DEFINE bad == {k \in 0 .. n : k \notin S}
  <1> SUFFICES ASSUME bad # {} PROVE FALSE
    OBVIOUS
  <1>1. bad \in SUBSET Nat
    OBVIOUS
  <1> HIDE DEF bad
  <1>2. PICK k \in bad : \A y \in bad : k <= y
    BY <1>1, LeastExists
  <1>3. k \in 0 .. n /\ k \notin S /\ k # 0
    BY <1>2 DEF bad
  <1>4. k - 1 \in 0 .. n /\ ~(k <= k - 1)
    BY <1>3
  <1>5. k - 1 \in S
    BY <1>2, <1>4 DEF bad
  <1> QED
    BY <1>3, <1>5

\* The ranges of positions that the binary search of a node goes through.
Ranges(nd)  == (1 .. nd.n + 1) \X (0 .. nd.n)
Middle(r)   == r[1] + (r[2] - r[1]) \div 2
Width(r)    == r[2] + 1 - r[1]
LeftPart(r)  == <<r[1], Middle(r) - 1>>
RightPart(r) == <<Middle(r) + 1, r[2]>>

Halving(nd, l, g, r) ==
    IF r[1] > r[2] THEN r[1] - 1
    ELSE IF l < nd.ents[Middle(r)].lb THEN g[LeftPart(r)] ELSE g[RightPart(r)]

\* Both parts of a range are ranges and less wide.
LEMMA PartsOfRange ==
    ASSUME NEW nd, nd.n \in Nat, NEW r \in Ranges(nd)
    PROVE  /\ r[1] \in 1 .. nd.n + 1 /\ r[2] \in 0 .. nd.n
           /\ Width(r) \in Int /\ Width(r) <= nd.n
           /\ r[1] > r[2] => Width(r) <= 0
           /\ r[1] <= r[2] =>
                 /\ Middle(r) \in r[1] .. r[2] /\ Middle(r) \in 1 .. nd.n /\ Width(r) > 0
                 /\ LeftPart(r) \in Ranges(nd) /\ Width(LeftPart(r)) \in Int
                 /\ Width(LeftPart(r)) <= Width(r) - 1
                 /\ RightPart(r) \in Ranges(nd) /\ Width(RightPart(r)) \in Int
                 /\ Width(RightPart(r)) <= Width(r) - 1
  <1>1. r[1] \in 1 .. nd.n + 1 /\ r[2] \in 0 .. nd.n
    BY DEF Ranges
  <1>2. Width(r) \in Int /\ Width(r) <= nd.n /\ (r[1] > r[2] => Width(r) <= 0)
    BY <1>1 DEF Width
  <1>3. ASSUME r[1] <= r[2]
        PROVE  /\ Middle(r) \in r[1] .. r[2] /\ Middle(r) \in 1 .. nd.n /\ Width(r) > 0
               /\ LeftPart(r) \in Ranges(nd) /\ Width(LeftPart(r)) \in Int
               /\ Width(LeftPart(r)) <= Width(r) - 1
               /\ RightPart(r) \in Ranges(nd) /\ Width(RightPart(r)) \in Int
               /\ Width(RightPart(r)) <= Width(r) - 1
    <2>1. Middle(r) \in r[1] .. r[2]
      BY <1>1, <1>3 DEF Middle
    <2> QED
      BY <1>1, <1>3, <2>1 DEF Width, Ranges, LeftPart, RightPart
  <1> QED
    BY <1>1, <1>2, <1>3

\* There is a function that does what the binary search does.
LEMMA HalvingIsDefined ==
    ASSUME NEW nd, NEW l, nd.n \in Nat
    PROVE  \E f : f = [r \in Ranges(nd) |-> Halving(nd, l, f, r)]
  <1> DEFINE D == Ranges(nd)
             Up(k) == \E g : \A r \in D : Width(r) <= k => g[r] = Halving(nd, l, g, r)
             S == {k \in 0 .. nd.n : Up(k)}
  <1>1. ASSUME NEW g, NEW h, NEW k \in 0 .. nd.n,
               \A r \in D : Width(r) <= k => g[r] = h[r],
               NEW r \in D, Width(r) <= k + 1
        PROVE  Halving(nd, l, g, r) = Halving(nd, l, h, r)
    <2>1. r[1] \in Int /\ r[2] \in Int /\ Width(r) \in Int
      BY PartsOfRange
    <2>2. CASE r[1] > r[2]
      BY <2>2 DEF Halving
    <2>3. CASE r[1] <= r[2]
      <3>1. /\ LeftPart(r) \in D /\ Width(LeftPart(r)) <= k
            /\ RightPart(r) \in D /\ Width(RightPart(r)) <= k
        BY <1>1, <2>1, <2>3, PartsOfRange
      <3>2. g[LeftPart(r)] = h[LeftPart(r)] /\ g[RightPart(r)] = h[RightPart(r)]
        <4> HIDE DEF D
        <4> QED
          BY <1>1, <3>1
      <3> QED
        BY <3>2 DEF Halving
    <2> QED
      BY <2>1, <2>2, <2>3
  <1>2. 0 \in S
    <2> DEFINE g == [r \in D |-> r[1] - 1]
    <2>1. ASSUME NEW r \in D, Width(r) <= 0 PROVE g[r] = Halving(nd, l, g, r)
      <3>1. r[1] > r[2]
        BY <2>1, PartsOfRange
      <3> QED
        BY <3>1 DEF Halving
    <2> HIDE DEF g, D
    <2>2. Up(0)
      BY <2>1
    <2> QED
      BY <2>2
  <1>3. ASSUME NEW k \in 1 .. nd.n, k - 1 \in S PROVE k \in S
    <2>1. PICK g : \A r \in D : Width(r) <= k - 1 => g[r] = Halving(nd, l, g, r)
      BY <1>3
    <2> DEFINE h == [r \in D |-> Halving(nd, l, g, r)]
    <2>2. \A r \in D : h[r] = Halving(nd, l, g, r)
      OBVIOUS
    <2> HIDE DEF h, D
    <2>3. \A r \in D : Width(r) <= k - 1 => g[r] = h[r]
      BY <2>1, <2>2
    <2>4. k - 1 \in 0 .. nd.n /\ k - 1 + 1 = k
      OBVIOUS
    <2>5. ASSUME NEW r \in D, Width(r) <= k PROVE h[r] = Halving(nd, l, h, r)
      <3>1. Halving(nd, l, g, r) = Halving(nd, l, h, r)
        BY <1>1, <2>3, <2>4, <2>5
      <3> QED
        BY <2>2, <3>1
    <2>6. Up(k)
      BY <2>5
    <2> QED
      BY <2>6
  <1>4. nd.n \in S
    <2> HIDE DEF S
    <2>1. 0 .. nd.n \subseteq S
      BY <1>2, <1>3, UpTo
    <2> QED
      BY <2>1
  <1>5. PICK g : \A r \in D : Width(r) <= nd.n => g[r] = Halving(nd, l, g, r)
    BY <1>4
  <1> DEFINE h == [r \in D |-> Halving(nd, l, g, r)]
  <1>6. \A r \in D : g[r] = Halving(nd, l, g, r)
    BY <1>5, PartsOfRange
  <1>7. \A r \in D : h[r] = g[r]
    BY <1>6
  <1>8. ASSUME NEW r \in D PROVE Halving(nd, l, g, r) = Halving(nd, l, h, r)
    <2>1. Width(r) <= nd.n + 1 /\ nd.n \in 0 .. nd.n
      BY PartsOfRange
    <2>2. \A q \in D : Width(q) <= nd.n => g[q] = h[q]
      BY <1>7
    <2> HIDE DEF h, D
    <2> QED
      BY <1>1, <2>1, <2>2
  <1>9. h = [r \in D |-> Halving(nd, l, h, r)]
    BY <1>8
  <1> HIDE DEF h
  <1> QED
    BY <1>9

\* The binary search over the keys from the second slot on finds the last one
\* that is not larger, and the first slot if all are.
LEMMA NearestIs ==
    ASSUME NEW nd, NEW l \in Nat, nd.n \in Nat, nd.n > 0,
           \A j \in 1 .. nd.n : nd.ents[j].lb \in Nat,
           \A j \in 2 .. nd.n : \A k \in 2 .. j - 1 : nd.ents[k].lb <= nd.ents[j].lb
    PROVE  /\ Nearest(nd, l) \in 1 .. nd.n
           /\ Nearest(nd, l) > 1 => nd.ents[Nearest(nd, l)].lb <= l
           /\ \A j \in Nearest(nd, l) + 1 .. nd.n : l < nd.ents[j].lb
  <1> DEFINE n == nd.n
             D == Ranges(nd)
             f == CHOOSE g : g = [r \in D |-> Halving(nd, l, g, r)]
             Key(j) == nd.ents[j].lb
  <1>1. Nearest(nd, l) = IF n < 2 THEN 1 ELSE f[<<2, n>>]
    BY Zenon DEF Nearest, Halving, Middle, LeftPart, RightPart, Ranges
  <1>2. \A r \in D : f[r] = Halving(nd, l, f, r)
    <2> DEFINE F(g) == [r \in D |-> Halving(nd, l, g, r)]
    <2>1. f = F(f)
      <3>1. \E g : g = F(g)
        BY HalvingIsDefined
      <3> HIDE DEF F
      <3>2. f = CHOOSE g : g = F(g)
        BY DEF F
      <3> QED
        BY <3>1, <3>2
    <2> HIDE DEF f, D
    <2> QED
      BY <2>1
  <1> HIDE DEF f
  <1> DEFINE Exact(p) == /\ p \in 1 .. n
                         /\ p > 1 => Key(p) <= l
                         /\ \A j \in p + 1 .. n : l < Key(j)
             Pre(r) == /\ r[1] >= 2 /\ r[1] <= r[2] + 1
                       /\ r[1] > 2 => Key(r[1] - 1) <= l
                       /\ \A j \in r[2] + 1 .. n : l < Key(j)
             T == {k \in 0 .. n : \A r \in D : Pre(r) /\ Width(r) <= k => Exact(f[r])}
  <1>3. ASSUME NEW r \in D, Pre(r), r[1] > r[2] PROVE Exact(f[r])
    <2>1. f[r] = r[1] - 1 /\ r[1] \in 1 .. n + 1 /\ r[2] \in 0 .. n
      BY <1>2, <1>3, PartsOfRange DEF Halving
    <2>2. r[2] = r[1] - 1
      BY <1>3, <2>1
    <2> QED
      BY <1>3, <2>1, <2>2
  <1>4. 0 \in T
    <2> SUFFICES ASSUME NEW r \in D, Pre(r), Width(r) <= 0 PROVE Exact(f[r])
      OBVIOUS
    <2>1. r[1] > r[2]
      BY PartsOfRange
    <2> HIDE DEF D, Pre, Exact
    <2> QED
      BY <1>3, <2>1
  <1>5. ASSUME NEW k \in 1 .. n, k - 1 \in T PROVE k \in T
    <2> SUFFICES ASSUME NEW r \in D, Pre(r), Width(r) <= k PROVE Exact(f[r])
      OBVIOUS
    <2>1. CASE r[1] > r[2]
      <3> HIDE DEF D, Pre, Exact
      <3> QED
        BY <1>3, <2>1
    <2>2. CASE r[1] <= r[2]
      <3> DEFINE m == Middle(r)
      <3>1. /\ r[1] \in 1 .. n + 1 /\ r[2] \in 0 .. n /\ Width(r) \in Int
            /\ m \in r[1] .. r[2] /\ m \in 1 .. n
            /\ LeftPart(r) \in D /\ Width(LeftPart(r)) \in Int /\ Width(LeftPart(r)) <= Width(r) - 1
            /\ RightPart(r) \in D /\ Width(RightPart(r)) \in Int /\ Width(RightPart(r)) <= Width(r) - 1
        BY <2>2, PartsOfRange
      <3>2. /\ LeftPart(r)[1] = r[1] /\ LeftPart(r)[2] = m - 1
            /\ RightPart(r)[1] = m + 1 /\ RightPart(r)[2] = r[2]
        BY DEF LeftPart, RightPart
      <3> HIDE DEF m
      <3>3. CASE l < Key(m)
        <4>1. f[r] = f[LeftPart(r)]
          BY <1>2, <2>2, <3>1, <3>3 DEF Halving, m
        <4>2. ASSUME NEW j \in m .. n PROVE l < Key(j)
          BY <3>1, <3>3
        <4>3. Pre(LeftPart(r))
          BY <3>1, <3>2, <4>2
        <4>4. Width(LeftPart(r)) <= k - 1
          BY <3>1
        <4> HIDE DEF Pre, D, Exact
        <4>5. Exact(f[LeftPart(r)])
          BY <1>5, <3>1, <4>3, <4>4
        <4> QED
          BY <4>1, <4>5
      <3>4. CASE ~(l < Key(m))
        <4>1. f[r] = f[RightPart(r)]
          BY <1>2, <2>2, <3>1, <3>4 DEF Halving, m
        <4>2. Pre(RightPart(r))
          BY <3>1, <3>2, <3>4
        <4>3. Width(RightPart(r)) <= k - 1
          BY <3>1
        <4> HIDE DEF Pre, D, Exact
        <4>4. Exact(f[RightPart(r)])
          BY <1>5, <3>1, <4>2, <4>3
        <4> QED
          BY <4>1, <4>4
      <3> QED
        BY <3>3, <3>4
    <2> QED
      BY <2>1, <2>2, PartsOfRange
  <1>6. CASE n < 2
    BY <1>1, <1>6
  <1>7. CASE n >= 2
    <2> DEFINE r == <<2, n>>
    <2>1. r \in D /\ Pre(r) /\ Width(r) <= n
      BY <1>7 DEF Ranges, Width
    <2>2. n \in T
      <3> HIDE DEF T
      <3>1. 0 .. n \subseteq T
        BY <1>4, <1>5, UpTo
      <3> QED
        BY <3>1
    <2> HIDE DEF r, Pre, D, Exact
    <2>3. Exact(f[r])
      BY <2>1, <2>2
    <2> QED
      BY <1>1, <1>7, <2>3 DEF Exact, r
  <1> QED
    BY <1>6, <1>7

\* What the levels of a tree, what its nodes are to hold and the path of a search
\* are made of, from the level above.
NodesBelow(s, B) == {x.pb : x \in UNION {ToSet(NodeAt(s, b).ents) : b \in B}}

Child(s, t, j) ==
    LET nd == NodeAt(s, t.blk)
    IN  [blk  |-> nd.ents[j].pb,
         from |-> IF j = 1 THEN t.from ELSE nd.ents[j].lb,
         to   |-> IF j = nd.n THEN t.to ELSE nd.ents[j + 1].lb]

SpansBelow(s, T) == UNION {{Child(s, t, j) : j \in 1 .. NodeAt(s, t.blk).n} : t \in T}

WholeSpan == [blk |-> 0, from |-> 0, to |-> MaxBlocks]

FrameAt(s, b, l) == Frame(b, NodeAt(s, b), l)

PathBelow(s, l, p) == Append(p, FrameAt(s, Last(p).at.pb, l))

\* The levels are defined from the root down.
LEMMA LevelsAre ==
    ASSUME NEW s, s.mem.root.depth \in Nat
    PROVE  /\ Levels(s)[0] = {0}
           /\ \A d \in 1 .. s.mem.root.depth : Levels(s)[d] = NodesBelow(s, Levels(s)[d - 1])
  <1> DEFINE n == s.mem.root.depth
             Is(g, d) == g[d] = IF d = 0 THEN {0} ELSE NodesBelow(s, g[d - 1])
             F(g) == [d \in 0 .. n |-> IF d = 0 THEN {0} ELSE NodesBelow(s, g[d - 1])]
             S == {k \in 0 .. n : \E g : \A d \in 0 .. k : Is(g, d)}
  <1>1. 0 \in S
    <2> DEFINE g == [d \in 0 .. n |-> {0}]
    <2>1. \A d \in 0 .. 0 : Is(g, d)
      OBVIOUS
    <2> HIDE DEF g, Is
    <2> QED
      BY <2>1
  <1>2. ASSUME NEW k \in 1 .. n, k - 1 \in S PROVE k \in S
    <2>1. PICK g : \A d \in 0 .. k - 1 : Is(g, d)
      BY <1>2
    <2> DEFINE h == F(g)
    <2>2. ASSUME NEW d \in 0 .. n PROVE h[d] = IF d = 0 THEN {0} ELSE NodesBelow(s, g[d - 1])
      OBVIOUS
    <2> HIDE DEF h
    <2>3. \A d \in 0 .. k - 1 : h[d] = g[d]
      BY <2>1, <2>2
    <2>4. \A d \in 0 .. k : Is(h, d)
      BY <2>2, <2>3
    <2> HIDE DEF Is
    <2> QED
      BY <2>4
  <1>3. \E g : \A d \in 0 .. n : Is(g, d)
    <2> HIDE DEF S
    <2>1. 0 .. n \subseteq S
      BY <1>1, <1>2, UpTo
    <2>2. n \in S
      BY <2>1
    <2> QED
      BY <2>2 DEF S
  <1>4. \E g : g = F(g)
    <2>1. PICK g : \A d \in 0 .. n : Is(g, d)
      BY <1>3
    <2> DEFINE h == [d \in 0 .. n |-> g[d]]
    <2>2. h = F(h)
      BY <2>1
    <2> HIDE DEF h, F
    <2> QED
      BY <2>2
  <1> DEFINE f == CHOOSE g : g = F(g)
  <1>5. Levels(s) = f
    BY Zenon DEF Levels, NodesBelow
  <1>6. f = F(f)
    <2> HIDE DEF F
    <2> QED
      BY <1>4
  <1> HIDE DEF f
  <1>7. \A d \in 0 .. n : Is(f, d)
    BY <1>6
  <1> QED
    BY <1>5, <1>7

\* What the nodes are to hold is defined from the root down.
LEMMA SpansAre ==
    ASSUME NEW s, s.mem.root.depth \in Nat
    PROVE  /\ Spans(s)[0] = {WholeSpan}
           /\ \A d \in 1 .. s.mem.root.depth : Spans(s)[d] = SpansBelow(s, Spans(s)[d - 1])
  <1> DEFINE start == {WholeSpan}
             n == s.mem.root.depth
             Is(g, d) == g[d] = IF d = 0 THEN start ELSE SpansBelow(s, g[d - 1])
             F(g) == [d \in 0 .. n |-> IF d = 0 THEN start ELSE SpansBelow(s, g[d - 1])]
             S == {k \in 0 .. n : \E g : \A d \in 0 .. k : Is(g, d)}
  <1> HIDE DEF start
  <1>1. 0 \in S
    <2> DEFINE g == [d \in 0 .. n |-> start]
    <2>1. \A d \in 0 .. 0 : Is(g, d)
      OBVIOUS
    <2> HIDE DEF g, Is
    <2> QED
      BY <2>1
  <1>2. ASSUME NEW k \in 1 .. n, k - 1 \in S PROVE k \in S
    <2>1. PICK g : \A d \in 0 .. k - 1 : Is(g, d)
      BY <1>2
    <2> DEFINE h == F(g)
    <2>2. ASSUME NEW d \in 0 .. n PROVE h[d] = IF d = 0 THEN start ELSE SpansBelow(s, g[d - 1])
      OBVIOUS
    <2> HIDE DEF h
    <2>3. \A d \in 0 .. k - 1 : h[d] = g[d]
      BY <2>1, <2>2
    <2>4. \A d \in 0 .. k : Is(h, d)
      BY <2>2, <2>3
    <2> HIDE DEF Is
    <2> QED
      BY <2>4
  <1>3. \E g : \A d \in 0 .. n : Is(g, d)
    <2> HIDE DEF S
    <2>1. 0 .. n \subseteq S
      BY <1>1, <1>2, UpTo
    <2>2. n \in S
      BY <2>1
    <2> QED
      BY <2>2 DEF S
  <1>4. \E g : g = F(g)
    <2>1. PICK g : \A d \in 0 .. n : Is(g, d)
      BY <1>3
    <2> DEFINE h == [d \in 0 .. n |-> g[d]]
    <2>2. h = F(h)
      BY <2>1
    <2> HIDE DEF h, F
    <2> QED
      BY <2>2
  <1> DEFINE f == CHOOSE g : g = F(g)
  <1>5. Spans(s) = f
    BY Zenon DEF start, Spans, SpansBelow, Child, WholeSpan
  <1>6. f = F(f)
    <2> HIDE DEF F
    <2> QED
      BY <1>4
  <1> HIDE DEF f
  <1>7. \A d \in 0 .. n : Is(f, d)
    BY <1>6
  <1> QED
    BY <1>5, <1>7 DEF start

\* A search goes from the root down.
LEMMA PathIs ==
    ASSUME NEW s, NEW l, s.mem.root.depth \in Nat
    PROVE  \E path : /\ PathTo(s, l) = path[s.mem.root.depth]
                     /\ path[0] = <<FrameAt(s, 0, l)>>
                     /\ \A d \in 1 .. s.mem.root.depth : path[d] = PathBelow(s, l, path[d - 1])
  <1> DEFINE n == s.mem.root.depth
             Is(g, d) == g[d] = IF d = 0 THEN <<FrameAt(s, 0, l)>> ELSE PathBelow(s, l, g[d - 1])
             F(g) == [d \in 0 .. n |-> IF d = 0 THEN <<FrameAt(s, 0, l)>> ELSE PathBelow(s, l, g[d - 1])]
             S == {k \in 0 .. n : \E g : \A d \in 0 .. k : Is(g, d)}
  <1>1. 0 \in S
    <2> DEFINE g == [d \in 0 .. n |-> <<FrameAt(s, 0, l)>>]
    <2>1. \A d \in 0 .. 0 : Is(g, d)
      OBVIOUS
    <2> HIDE DEF g, Is
    <2> QED
      BY <2>1
  <1>2. ASSUME NEW k \in 1 .. n, k - 1 \in S PROVE k \in S
    <2>1. PICK g : \A d \in 0 .. k - 1 : Is(g, d)
      BY <1>2
    <2> DEFINE h == F(g)
    <2>2. ASSUME NEW d \in 0 .. n PROVE h[d] = IF d = 0 THEN <<FrameAt(s, 0, l)>> ELSE PathBelow(s, l, g[d - 1])
      OBVIOUS
    <2> HIDE DEF h
    <2>3. \A d \in 0 .. k - 1 : h[d] = g[d]
      BY <2>1, <2>2
    <2>4. \A d \in 0 .. k : Is(h, d)
      BY <2>2, <2>3
    <2> HIDE DEF Is
    <2> QED
      BY <2>4
  <1>3. \E g : \A d \in 0 .. n : Is(g, d)
    <2> HIDE DEF S
    <2>1. 0 .. n \subseteq S
      BY <1>1, <1>2, UpTo
    <2>2. n \in S
      BY <2>1
    <2> QED
      BY <2>2 DEF S
  <1>4. \E g : g = F(g)
    <2>1. PICK g : \A d \in 0 .. n : Is(g, d)
      BY <1>3
    <2> DEFINE h == [d \in 0 .. n |-> g[d]]
    <2>2. h = F(h)
      BY <2>1
    <2> HIDE DEF h, F
    <2> QED
      BY <2>2
  <1> DEFINE f == CHOOSE g : g = F(g)
  <1>5. PathTo(s, l) = f[n]
    BY Zenon DEF PathTo, PathBelow, FrameAt, NodeAt
  <1>6. f = F(f)
    <2> HIDE DEF F
    <2> QED
      BY <1>4
  <1> HIDE DEF f
  <1>7. \A d \in 0 .. n : Is(f, d)
    BY <1>6
  <1> QED
    BY <1>5, <1>7

Holds(t, l) == t.from <= l /\ l < t.to

Span == [blk : Nat, from : Nat, to : Nat]

\* What Ordered says of one node.
LEMMA NodeIsOrdered ==
    ASSUME NEW s, s.mem.root.depth \in Nat, Ordered(s),
           NEW d \in 0 .. s.mem.root.depth, NEW t \in Spans(s)[d]
    PROVE  LET nd == NodeAt(s, t.blk)
           IN  /\ nd.ents \in Seq(Slot) /\ nd.n = Len(nd.ents) /\ nd.n \in Nat
               /\ \A j \in 1 .. nd.n : /\ nd.ents[j] \in Slot
                                       /\ nd.ents[j].lb \in Nat /\ nd.ents[j].cnt \in Nat
                                       /\ nd.ents[j].pb \in Nat
               /\ d < s.mem.root.depth => KeysAscend(nd, t.from, t.to)
               /\ d = s.mem.root.depth => ExtentsAscend(nd, t.from, t.to)
  <1> DEFINE nd == NodeAt(s, t.blk)
  <1>1. /\ nd.ents \in Seq(Slot) /\ nd.n = Len(nd.ents)
        /\ IF d < s.mem.root.depth THEN KeysAscend(nd, t.from, t.to)
           ELSE ExtentsAscend(nd, t.from, t.to)
    BY Zenon DEF Ordered
  <1> HIDE DEF nd
  <1>2. nd.n \in Nat /\ \A j \in 1 .. nd.n : nd.ents[j] \in Slot
    BY <1>1
  <1>3. ASSUME NEW j \in 1 .. nd.n
        PROVE  nd.ents[j].lb \in Nat /\ nd.ents[j].cnt \in Nat /\ nd.ents[j].pb \in Nat
    BY <1>2 DEF Slot
  <1>4. /\ d < s.mem.root.depth => KeysAscend(nd, t.from, t.to)
        /\ d = s.mem.root.depth => ExtentsAscend(nd, t.from, t.to)
    BY <1>1
  <1> QED
    BY <1>1, <1>2, <1>3, <1>4 DEF nd

\* The span of a child, and its place in that of its parent.
LEMMA ChildIs ==
    ASSUME NEW s, s.mem.root.depth \in Nat, Ordered(s),
           NEW d \in 0 .. s.mem.root.depth - 1, NEW t \in Spans(s)[d], t \in Span,
           NEW j \in 1 .. NodeAt(s, t.blk).n
    PROVE  LET nd == NodeAt(s, t.blk)
               c  == Child(s, t, j)
           IN  /\ c \in Span /\ c.blk = nd.ents[j].pb
               /\ c.from = IF j = 1 THEN t.from ELSE nd.ents[j].lb
               /\ c.to = IF j = nd.n THEN t.to ELSE nd.ents[j + 1].lb
               /\ t.from <= c.from /\ c.to <= t.to
  <1> DEFINE nd == NodeAt(s, t.blk)
             c  == Child(s, t, j)
  <1>1. /\ c.blk = nd.ents[j].pb
        /\ c.from = IF j = 1 THEN t.from ELSE nd.ents[j].lb
        /\ c.to = IF j = nd.n THEN t.to ELSE nd.ents[j + 1].lb
        /\ c = [blk |-> c.blk, from |-> c.from, to |-> c.to]
    BY DEF Child
  <1>2. /\ nd.n \in Nat /\ \A i \in 1 .. nd.n : nd.ents[i].lb \in Nat /\ nd.ents[i].pb \in Nat
        /\ KeysAscend(nd, t.from, t.to)
    <2>1. d \in 0 .. s.mem.root.depth /\ d < s.mem.root.depth
      OBVIOUS
    <2> QED
      BY <2>1, NodeIsOrdered
  <1>3. t.blk \in Nat /\ t.from \in Nat /\ t.to \in Nat
    BY DEF Span
  <1> HIDE DEF nd, c
  <1>4. j \in 1 .. nd.n
    BY DEF nd
  <1>5. \A i \in 2 .. nd.n : t.from < nd.ents[i].lb /\ nd.ents[i].lb < t.to
    BY <1>2 DEF KeysAscend
  <1>6. c.blk \in Nat /\ c.from \in Nat /\ c.to \in Nat /\ t.from <= c.from /\ c.to <= t.to
    BY <1>1, <1>2, <1>3, <1>4, <1>5
  <1>7. c \in Span
    BY <1>1, <1>6 DEF Span
  <1> QED
    BY <1>1, <1>6, <1>7 DEF nd, c

\* Spans are made of numbers.
LEMMA SpansTyped ==
    ASSUME NEW s, s.mem.root.depth \in Nat, Ordered(s)
    PROVE  \A d \in 0 .. s.mem.root.depth : Spans(s)[d] \subseteq Span
  <1> DEFINE n == s.mem.root.depth
             S == {d \in 0 .. n : Spans(s)[d] \subseteq Span}
  <1>1. 0 \in S
    <2>1. WholeSpan \in Span
      BY ExtentTreeAssumption DEF WholeSpan, Span
    <2> QED
      BY <2>1, SpansAre
  <1>2. ASSUME NEW d \in 1 .. n, d - 1 \in S PROVE d \in S
    <2>1. d - 1 \in 0 .. n - 1
      OBVIOUS
    <2>2. Spans(s)[d] = SpansBelow(s, Spans(s)[d - 1])
      BY SpansAre
    <2>3. ASSUME NEW c \in Spans(s)[d] PROVE c \in Span
      <3>1. PICK t \in Spans(s)[d - 1] : \E j \in 1 .. NodeAt(s, t.blk).n : c = Child(s, t, j)
        BY <2>2 DEF SpansBelow
      <3>2. t \in Span
        BY <1>2
      <3> QED
        BY <2>1, <3>1, <3>2, ChildIs
    <2> QED
      BY <2>3
  <1> HIDE DEF S
  <1>3. 0 .. n \subseteq S
    BY <1>1, <1>2, UpTo
  <1> QED
    BY <1>3 DEF S

\* No span reaches past the last logical block there may be.
LEMMA SpansEnd ==
    ASSUME NEW s, s.mem.root.depth \in Nat, Ordered(s)
    PROVE  \A d \in 0 .. s.mem.root.depth : \A t \in Spans(s)[d] : t.to <= MaxBlocks
  <1> DEFINE n == s.mem.root.depth
             S == {d \in 0 .. n : \A t \in Spans(s)[d] : t.to <= MaxBlocks}
  <1>1. 0 \in S
    <2>1. WholeSpan.to <= MaxBlocks
      BY ExtentTreeAssumption DEF WholeSpan
    <2>2. Spans(s)[0] = {WholeSpan}
      BY SpansAre
    <2> QED
      BY <2>1, <2>2
  <1>2. ASSUME NEW d \in 1 .. n, d - 1 \in S PROVE d \in S
    <2>1. d - 1 \in 0 .. n - 1 /\ d - 1 \in 0 .. n
      OBVIOUS
    <2>2. Spans(s)[d] = SpansBelow(s, Spans(s)[d - 1])
      BY SpansAre
    <2>3. ASSUME NEW c \in Spans(s)[d] PROVE c.to <= MaxBlocks
      <3>1. PICK t \in Spans(s)[d - 1] : \E j \in 1 .. NodeAt(s, t.blk).n : c = Child(s, t, j)
        BY <2>2 DEF SpansBelow
      <3>2. t \in Span /\ t.to <= MaxBlocks
        BY <1>2, <2>1, SpansTyped
      <3>3. c \in Span /\ c.to <= t.to
        BY <2>1, <3>1, <3>2, ChildIs
      <3> QED
        BY <3>2, <3>3, ExtentTreeAssumption DEF Span
    <2> QED
      BY <2>3
  <1> HIDE DEF S
  <1>3. 0 .. n \subseteq S
    BY <1>1, <1>2, UpTo
  <1> QED
    BY <1>3 DEF S

\* An index node divides what it is to hold: a block is to be in the child that the
\* binary search finds, and in no other.
LEMMA ChildFound ==
    ASSUME NEW s, s.mem.root.depth \in Nat, Ordered(s),
           NEW d \in 0 .. s.mem.root.depth - 1, NEW t \in Spans(s)[d],
           NEW l \in Nat, Holds(t, l)
    PROVE  LET p == Nearest(NodeAt(s, t.blk), l)
           IN  /\ NodeAt(s, t.blk).n > 0 /\ p \in 1 .. NodeAt(s, t.blk).n
               /\ Holds(Child(s, t, p), l)
               /\ \A j \in 1 .. NodeAt(s, t.blk).n : Holds(Child(s, t, j), l) => j = p
  <1> DEFINE nd == NodeAt(s, t.blk)
             p  == Nearest(nd, l)
  <1>1. d \in 0 .. s.mem.root.depth /\ d < s.mem.root.depth
    OBVIOUS
  <1>2. /\ nd.n \in Nat /\ \A i \in 1 .. nd.n : nd.ents[i].lb \in Nat
        /\ KeysAscend(nd, t.from, t.to)
    BY <1>1, NodeIsOrdered
  <1>3. t \in Span
    BY <1>1, SpansTyped
  <1>4. \A j \in 1 .. nd.n : /\ Child(s, t, j).from = IF j = 1 THEN t.from ELSE nd.ents[j].lb
                             /\ Child(s, t, j).to = IF j = nd.n THEN t.to ELSE nd.ents[j + 1].lb
    BY <1>3, ChildIs
  <1> HIDE DEF nd
  <1>5. nd.n > 0 /\ \A j \in 2 .. nd.n : \A k \in 2 .. j - 1 : nd.ents[k].lb < nd.ents[j].lb
    BY <1>2 DEF KeysAscend
  <1>6. \A j \in 2 .. nd.n : \A k \in 2 .. j - 1 : nd.ents[k].lb <= nd.ents[j].lb
    BY <1>2, <1>5
  <1>7. /\ p \in 1 .. nd.n
        /\ p > 1 => nd.ents[p].lb <= l
        /\ \A j \in p + 1 .. nd.n : l < nd.ents[j].lb
    BY <1>2, <1>5, <1>6, NearestIs
  <1> HIDE DEF p
  <1>8. Holds(Child(s, t, p), l)
    BY <1>2, <1>3, <1>4, <1>7 DEF Holds, Span
  <1>9. ASSUME NEW j \in 1 .. nd.n, Holds(Child(s, t, j), l) PROVE j = p
    <2>1. j # 1 => nd.ents[j].lb <= l
      BY <1>4, <1>9 DEF Holds
    <2>2. j # nd.n => l < nd.ents[j + 1].lb
      BY <1>4, <1>9 DEF Holds
    <2>3. ~(j > p)
      BY <1>2, <1>7, <2>1
    <2>4. ASSUME j < p PROVE FALSE
      <3>1. p > 1 /\ j # nd.n /\ j + 1 \in 2 .. nd.n /\ j + 1 <= p
        BY <1>2, <1>7, <2>4
      <3>2. nd.ents[j + 1].lb <= nd.ents[p].lb
        BY <1>2, <1>6, <1>7, <3>1
      <3> QED
        BY <1>2, <1>7, <2>2, <3>1, <3>2
    <2> QED
      BY <1>2, <1>7, <2>3, <2>4
  <1> QED
    BY <1>5, <1>7, <1>8, <1>9 DEF nd, p

\* The nodes of an ordered tree are those with a span.
LEMMA NodesHaveSpans ==
    ASSUME NEW s, s.mem.root.depth \in Nat, Ordered(s)
    PROVE  \A d \in 0 .. s.mem.root.depth : Levels(s)[d] = {t.blk : t \in Spans(s)[d]}
  <1> DEFINE n == s.mem.root.depth
             S == {d \in 0 .. n : Levels(s)[d] = {t.blk : t \in Spans(s)[d]}}
  <1>1. 0 \in S
    <2>1. WholeSpan.blk = 0
      BY DEF WholeSpan
    <2>2. Levels(s)[0] = {0} /\ Spans(s)[0] = {WholeSpan}
      BY LevelsAre, SpansAre
    <2>3. ASSUME NEW b PROVE b \in {t.blk : t \in Spans(s)[0]} <=> b = 0
      BY <2>1, <2>2
    <2>4. Levels(s)[0] = {t.blk : t \in Spans(s)[0]}
      BY <2>2, <2>3
    <2> QED
      BY <2>4
  <1>2. ASSUME NEW d \in 1 .. n, d - 1 \in S PROVE d \in S
    <2> DEFINE T == Spans(s)[d - 1]
    <2>1. d - 1 \in 0 .. n - 1 /\ d - 1 \in 0 .. n
      OBVIOUS
    <2>2. /\ Spans(s)[d] = SpansBelow(s, T)
          /\ Levels(s)[d] = NodesBelow(s, Levels(s)[d - 1])
          /\ Levels(s)[d - 1] = {t.blk : t \in T}
      BY <1>2, SpansAre, LevelsAre
    <2>3. ASSUME NEW t \in T
          PROVE  /\ t \in Span
                 /\ NodeAt(s, t.blk).ents \in Seq(Slot) /\ NodeAt(s, t.blk).n = Len(NodeAt(s, t.blk).ents)
      BY <2>1, SpansTyped, NodeIsOrdered
    <2>4. ASSUME NEW t \in T, NEW j \in 1 .. NodeAt(s, t.blk).n
          PROVE  Child(s, t, j).blk = NodeAt(s, t.blk).ents[j].pb
      BY DEF Child
    <2> HIDE DEF T, n
    <2>5. ASSUME NEW b \in Levels(s)[d] PROVE \E c \in Spans(s)[d] : b = c.blk
      <3>1. PICK a \in Levels(s)[d - 1] : \E x \in ToSet(NodeAt(s, a).ents) : b = x.pb
        BY <2>2 DEF NodesBelow
      <3>2. PICK t \in T : a = t.blk
        BY <2>2
      <3>3. PICK x \in ToSet(NodeAt(s, t.blk).ents) : b = x.pb
        BY <3>1, <3>2
      <3>4. PICK j \in DOMAIN NodeAt(s, t.blk).ents : x = NodeAt(s, t.blk).ents[j]
        BY <3>3 DEF ToSet
      <3>5. j \in 1 .. NodeAt(s, t.blk).n
        BY <2>3, <3>4
      <3>6. Child(s, t, j) \in Spans(s)[d]
        BY <2>2, <3>5 DEF SpansBelow
      <3> QED
        BY <2>4, <3>3, <3>4, <3>5, <3>6
    <2>6. ASSUME NEW c \in Spans(s)[d] PROVE c.blk \in Levels(s)[d]
      <3>1. PICK t \in T : \E j \in 1 .. NodeAt(s, t.blk).n : c = Child(s, t, j)
        BY <2>2 DEF SpansBelow
      <3>2. PICK j \in 1 .. NodeAt(s, t.blk).n : c = Child(s, t, j)
        BY <3>1
      <3>3. j \in DOMAIN NodeAt(s, t.blk).ents
        BY <2>3
      <3>4. NodeAt(s, t.blk).ents[j] \in ToSet(NodeAt(s, t.blk).ents)
        BY <3>3 DEF ToSet
      <3>5. t.blk \in Levels(s)[d - 1]
        BY <2>2
      <3> QED
        BY <2>2, <2>4, <3>2, <3>4, <3>5 DEF NodesBelow
    <2> QED
      BY <2>5, <2>6 DEF n
  <1> HIDE DEF S
  <1>3. 0 .. n \subseteq S
    BY <1>1, <1>2, UpTo
  <1> QED
    BY <1>3 DEF S

\* The frames a search of block l can meet.
Frames(s, l) == {FrameAt(s, b, l) : b \in Nat}

\* A search is at node b in level d, past index nodes that have entries.
IsAt(s, l, p, d, b) ==
    /\ p \in Seq(Frames(s, l)) /\ Len(p) = d + 1
    /\ p[d + 1] = FrameAt(s, b, l)
    /\ \A k \in 1 .. d : p[k].n > 0

\* A search of an ordered tree ends at the leaf that is to hold the block.
LEMMA DescentEnds ==
    ASSUME NEW s, s.mem.root.depth \in Nat, Ordered(s), NEW l \in 0 .. MaxBlocks - 1
    PROVE  /\ \E t \in Spans(s)[s.mem.root.depth] : Holds(t, l)
           /\ \A t \in Spans(s)[s.mem.root.depth] :
                 Holds(t, l) => IsAt(s, l, PathTo(s, l), s.mem.root.depth, t.blk)
  <1> DEFINE n == s.mem.root.depth
  <1>1. PICK path : /\ PathTo(s, l) = path[n]
                    /\ path[0] = <<FrameAt(s, 0, l)>>
                    /\ \A d \in 1 .. n : path[d] = PathBelow(s, l, path[d - 1])
    BY PathIs
  <1>2. l \in Nat
    BY ExtentTreeAssumption
  <1> DEFINE Good(d) == /\ \E t \in Spans(s)[d] : Holds(t, l)
                        /\ \A t \in Spans(s)[d] : Holds(t, l) => IsAt(s, l, path[d], d, t.blk)
             S == {d \in 0 .. n : Good(d)}
  <1>3. 0 \in S
    <2>1. Holds(WholeSpan, l) /\ WholeSpan.blk = 0
      BY <1>2, ExtentTreeAssumption DEF Holds, WholeSpan
    <2>2. FrameAt(s, 0, l) \in Frames(s, l)
      BY DEF Frames
    <2>3. IsAt(s, l, path[0], 0, 0)
      <3> DEFINE x == FrameAt(s, 0, l)
                 X == Frames(s, l)
      <3> HIDE DEF x, X
      <3>1. x \in X
        BY <2>2 DEF x, X
      <3>2. <<x>> \in Seq(X) /\ Len(<<x>>) = 1 /\ <<x>>[1] = x
        BY <3>1
      <3> QED
        BY <1>1, <3>2 DEF IsAt, x, X
    <2>4. Spans(s)[0] = {WholeSpan}
      BY SpansAre
    <2>5. \A t \in Spans(s)[0] : t.blk = 0 /\ Holds(t, l)
      BY <2>1, <2>4
    <2>6. \E t \in Spans(s)[0] : Holds(t, l)
      BY <2>1, <2>4
    <2>7. Good(0)
      BY <2>3, <2>5, <2>6
    <2>8. 0 \in 0 .. n
      OBVIOUS
    <2> HIDE DEF Good, n
    <2> QED
      BY <2>7, <2>8
  <1>4. ASSUME NEW d \in 1 .. n, d - 1 \in S PROVE d \in S
    <2> DEFINE T == Spans(s)[d - 1]
    <2>1. d - 1 \in 0 .. n - 1 /\ d - 1 \in 0 .. n /\ d - 1 + 1 = d
      OBVIOUS
    <2>2. Spans(s)[d] = SpansBelow(s, T)
      BY SpansAre
    <2>3. \A t \in T : t \in Span
      BY <2>1, SpansTyped
    <2>4. Good(d - 1)
      BY <1>4
    <2>5. ASSUME NEW t \in T, Holds(t, l)
          PROVE  LET p == Nearest(NodeAt(s, t.blk), l)
                 IN  /\ NodeAt(s, t.blk).n > 0 /\ p \in 1 .. NodeAt(s, t.blk).n
                     /\ Holds(Child(s, t, p), l)
                     /\ \A j \in 1 .. NodeAt(s, t.blk).n : Holds(Child(s, t, j), l) => j = p
      BY <1>2, <2>1, <2>5, ChildFound
    <2>6. \E c \in Spans(s)[d] : Holds(c, l)
      <3>1. PICK t \in T : Holds(t, l)
        BY <2>4
      <3> DEFINE p == Nearest(NodeAt(s, t.blk), l)
      <3>2. p \in 1 .. NodeAt(s, t.blk).n /\ Holds(Child(s, t, p), l)
        BY <2>5, <3>1
      <3> HIDE DEF p, T
      <3>3. Child(s, t, p) \in Spans(s)[d]
        BY <2>2, <3>2 DEF SpansBelow
      <3> QED
        BY <3>2, <3>3
    <2>7. ASSUME NEW c \in Spans(s)[d], Holds(c, l) PROVE IsAt(s, l, path[d], d, c.blk)
      <3>1. PICK t \in T : \E j \in 1 .. NodeAt(s, t.blk).n : c = Child(s, t, j)
        BY <2>2 DEF SpansBelow
      <3>2. PICK j \in 1 .. NodeAt(s, t.blk).n : c = Child(s, t, j)
        BY <3>1
      <3>3. /\ c \in Span /\ c.blk = NodeAt(s, t.blk).ents[j].pb
            /\ t.from <= c.from /\ c.to <= t.to
        BY <2>1, <2>3, <3>2, ChildIs
      <3>4. t.from \in Nat /\ t.to \in Nat /\ c.from \in Nat /\ c.to \in Nat /\ c.blk \in Nat
        BY <2>3, <3>3 DEF Span
      <3>5. Holds(t, l)
        BY <1>2, <2>7, <3>3, <3>4 DEF Holds
      <3>6. j = Nearest(NodeAt(s, t.blk), l) /\ NodeAt(s, t.blk).n > 0
        BY <2>5, <2>7, <3>2, <3>5
      <3> DEFINE q == path[d - 1]
                 y == FrameAt(s, c.blk, l)
      <3>7. IsAt(s, l, q, d - 1, t.blk)
        BY <2>4, <3>5
      <3>8. q \in Seq(Frames(s, l)) /\ Len(q) = d /\ q[d] = FrameAt(s, t.blk, l)
            /\ \A k \in 1 .. d - 1 : q[k].n > 0
        BY <2>1, <3>7 DEF IsAt
      <3>9. q[d].n = NodeAt(s, t.blk).n /\ q[d].at.pb = c.blk
        BY <3>3, <3>6, <3>8 DEF FrameAt, Frame
      <3>10. path[d] = Append(q, y)
        BY <1>1, <3>8, <3>9 DEF PathBelow, Last
      <3>11. y \in Frames(s, l)
        BY <3>4 DEF Frames
      <3>12. \A k \in 1 .. d : q[k].n > 0
        BY <3>6, <3>8, <3>9
      <3> DEFINE X == Frames(s, l)
      <3> HIDE DEF q, y, X
      <3>13. /\ Append(q, y) \in Seq(X) /\ Len(Append(q, y)) = d + 1
             /\ Append(q, y)[d + 1] = y
             /\ \A k \in 1 .. d : Append(q, y)[k] = q[k]
        BY <3>8, <3>11 DEF X
      <3> QED
        BY <3>10, <3>12, <3>13 DEF IsAt, X, y
    <2>8. Good(d)
      BY <2>6, <2>7
    <2> HIDE DEF Good
    <2> QED
      BY <2>8
  <1>5. n \in S
    <2> HIDE DEF S
    <2>1. 0 .. n \subseteq S
      BY <1>3, <1>4, UpTo
    <2> QED
      BY <2>1
  <1> QED
    BY <1>1, <1>5

\* The encoding of a length is read as a natural number.
LEMMA LengthIsNat ==
    ASSUME NEW x, x.cnt \in Nat, x.lb \in Nat
    PROVE  ActualLen(x) \in Nat /\ EndOf(x) \in Nat /\ x.lb <= EndOf(x)
  <1>1. ActualLen(x) \in Nat
    BY ExtentTreeAssumption DEF ActualLen, Unwritten
  <1> QED
    BY <1>1 DEF EndOf

\* The keys of a leaf in order ascend.
LEMMA AscendingKeys ==
    ASSUME NEW nd, NEW from, NEW to, nd.n \in Nat, ExtentsAscend(nd, from, to),
           \A i \in 1 .. nd.n : nd.ents[i].lb \in Nat /\ nd.ents[i].cnt \in Nat
    PROVE  \A i \in 2 .. nd.n : \A k \in 2 .. i - 1 : nd.ents[k].lb <= nd.ents[i].lb
  <1> SUFFICES ASSUME NEW i \in 2 .. nd.n, NEW k \in 2 .. i - 1
               PROVE  nd.ents[k].lb <= nd.ents[i].lb
    OBVIOUS
  <1>1. k \in 1 .. nd.n /\ i \in 1 .. nd.n /\ k \in 1 .. i - 1
    OBVIOUS
  <1>2. EndOf(nd.ents[k]) \in Nat /\ nd.ents[k].lb <= EndOf(nd.ents[k])
    BY <1>1, LengthIsNat
  <1>3. EndOf(nd.ents[k]) <= nd.ents[i].lb
    BY <1>1 DEF ExtentsAscend
  <1> QED
    BY <1>1, <1>2, <1>3

\* A leaf's search ends at the extent that covers the block.
LEMMA ExtentFound ==
    ASSUME NEW s, s.mem.root.depth \in Nat, Ordered(s), NEW l \in Nat,
           NEW t \in Spans(s)[s.mem.root.depth],
           NEW j \in 1 .. NodeAt(s, t.blk).n, Covers(NodeAt(s, t.blk).ents[j], l)
    PROVE  /\ NodeAt(s, t.blk).n > 0 /\ Nearest(NodeAt(s, t.blk), l) = j
           /\ Holds(t, l)
  <1> DEFINE nd == NodeAt(s, t.blk)
             p  == Nearest(nd, l)
             n  == s.mem.root.depth
  <1>1. t \in Span /\ n \in 0 .. n
    BY SpansTyped
  <1>2. /\ nd.n \in Nat
        /\ \A i \in 1 .. nd.n : nd.ents[i].lb \in Nat /\ nd.ents[i].cnt \in Nat
        /\ ExtentsAscend(nd, t.from, t.to)
    BY <1>1, NodeIsOrdered
  <1>3. t.from \in Nat /\ t.to \in Nat
    BY <1>1 DEF Span
  <1> HIDE DEF nd
  <1>4. j \in 1 .. nd.n /\ nd.n > 0 /\ nd.ents[j].lb <= l /\ l < EndOf(nd.ents[j])
    BY <1>2 DEF nd, Covers
  <1>5. \A i \in 1 .. nd.n : EndOf(nd.ents[i]) \in Nat /\ nd.ents[i].lb <= EndOf(nd.ents[i])
    BY <1>2, LengthIsNat
  <1>6. \A i \in 1 .. nd.n : \A k \in 1 .. i - 1 : EndOf(nd.ents[k]) <= nd.ents[i].lb
    BY <1>2 DEF ExtentsAscend
  <1>7. \A i \in 2 .. nd.n : \A k \in 2 .. i - 1 : nd.ents[k].lb <= nd.ents[i].lb
    BY <1>2, AscendingKeys
  <1>8. /\ p \in 1 .. nd.n
        /\ p > 1 => nd.ents[p].lb <= l
        /\ \A i \in p + 1 .. nd.n : l < nd.ents[i].lb
    BY <1>2, <1>4, <1>7, NearestIs
  <1> HIDE DEF p
  <1>9. ~(j > p)
    BY <1>2, <1>4, <1>8
  <1>10. ~(j < p)
    <2> SUFFICES ASSUME j < p PROVE FALSE
      OBVIOUS
    <2>1. j \in 1 .. p - 1 /\ p > 1
      BY <1>4, <1>8
    <2>2. EndOf(nd.ents[j]) <= nd.ents[p].lb
      BY <1>6, <1>8, <2>1
    <2> QED
      BY <1>2, <1>4, <1>5, <1>8, <2>1, <2>2
  <1>11. Holds(t, l)
    <2>1. t.from <= nd.ents[j].lb /\ EndOf(nd.ents[j]) <= t.to
      BY <1>2, <1>4 DEF ExtentsAscend
    <2> QED
      BY <1>2, <1>3, <1>4, <1>5, <2>1 DEF Holds
  <1> QED
    BY <1>4, <1>8, <1>9, <1>10, <1>11 DEF nd, p

\* What a search reads at the leaf it ends at.
LEMMA StateAtLeaf ==
    ASSUME NEW s, s.mem.root.depth \in Nat, NEW l, NEW b,
           IsAt(s, l, PathTo(s, l), s.mem.root.depth, b), NodeAt(s, b).n \in Nat
    PROVE  LET nd == NodeAt(s, b)
               x  == nd.ents[Nearest(nd, l)]
           IN  State(s, l) =
                 IF nd.n = 0 THEN [pb |-> 0, unwritten |-> FALSE]
                 ELSE [pb |-> IF Covers(x, l) THEN x.pb + (l - x.lb) ELSE 0,
                       unwritten |-> Unwritten(x)]
  <1> DEFINE nd == NodeAt(s, b)
             x  == nd.ents[Nearest(nd, l)]
             p  == PathTo(s, l)
             d  == s.mem.root.depth
  <1> HIDE DEF p
  <1>1. Len(p) = d + 1 /\ p[d + 1] = FrameAt(s, b, l) /\ \A k \in 1 .. d : p[k].n > 0
    BY DEF IsAt, p
  <1>2. Last(p) = FrameAt(s, b, l)
    BY <1>1 DEF Last
  <1>3. Last(p).n = nd.n /\ (nd.n # 0 => Last(p).at = x)
    BY <1>2 DEF FrameAt, Frame
  <1>4. Found(p)
    <2>1. Len(p) - 1 = d
      BY <1>1
    <2>2. \A k \in 1 .. Len(p) - 1 : p[k].n > 0
      BY <1>1, <2>1
    <2> HIDE DEF d
    <2> QED
      BY <2>2 DEF Found
  <1>5. State(s, l) = StateAlong(p, l)
    BY DEF State, p
  <1> HIDE DEF nd, x
  <1>6. StateAlong(p, l) = IF nd.n = 0 THEN [pb |-> 0, unwritten |-> FALSE]
                 ELSE [pb |-> IF Covers(x, l) THEN x.pb + (l - x.lb) ELSE 0,
                       unwritten |-> Unwritten(x)]
    BY <1>3, <1>4 DEF StateAlong
  <1> QED
    BY <1>5, <1>6 DEF nd, x

\* The slots of an ordered tree are those of the leaves' spans.
LEMMA SlotsAre ==
    ASSUME NEW s, s.mem.root.depth \in Nat, Ordered(s)
    PROVE  /\ \A t \in Slots(s) : \E u \in Spans(s)[s.mem.root.depth] :
                 \E j \in 1 .. NodeAt(s, u.blk).n : t.x = NodeAt(s, u.blk).ents[j]
           /\ \A u \in Spans(s)[s.mem.root.depth] : \A j \in 1 .. NodeAt(s, u.blk).n :
                 \E t \in Slots(s) : t.x = NodeAt(s, u.blk).ents[j]
  <1> DEFINE n == s.mem.root.depth
             Of(b) == {[leaf |-> b, at |-> j, x |-> NodeAt(s, b).ents[j]] : j \in DOMAIN NodeAt(s, b).ents}
  <1>1. n \in 0 .. n /\ Levels(s)[n] = {t.blk : t \in Spans(s)[n]}
    BY NodesHaveSpans
  <1>2. Slots(s) = UNION {Of(b) : b \in Levels(s)[n]}
    BY Zenon DEF Slots
  <1>3. ASSUME NEW u \in Spans(s)[n]
        PROVE  DOMAIN NodeAt(s, u.blk).ents = 1 .. NodeAt(s, u.blk).n
    <2>1. NodeAt(s, u.blk).ents \in Seq(Slot) /\ NodeAt(s, u.blk).n = Len(NodeAt(s, u.blk).ents)
      BY <1>1, NodeIsOrdered
    <2> QED
      BY <2>1
  <1>4. ASSUME NEW t \in Slots(s)
        PROVE  \E u \in Spans(s)[n] : \E j \in 1 .. NodeAt(s, u.blk).n : t.x = NodeAt(s, u.blk).ents[j]
    <2>1. PICK b \in Levels(s)[n] : t \in Of(b)
      <3> HIDE DEF Of
      <3> QED
        BY <1>2
    <2>2. PICK u \in Spans(s)[n] : b = u.blk
      BY <1>1
    <2>3. PICK j \in DOMAIN NodeAt(s, b).ents : t = [leaf |-> b, at |-> j, x |-> NodeAt(s, b).ents[j]]
      BY <2>1
    <2>4. t.x = NodeAt(s, b).ents[j]
      BY <2>3
    <2> QED
      BY <1>3, <2>2, <2>3, <2>4
  <1>5. ASSUME NEW u \in Spans(s)[n], NEW j \in 1 .. NodeAt(s, u.blk).n
        PROVE  \E t \in Slots(s) : t.x = NodeAt(s, u.blk).ents[j]
    <2> DEFINE b == u.blk
               t == [leaf |-> b, at |-> j, x |-> NodeAt(s, b).ents[j]]
    <2>1. b \in Levels(s)[n]
      BY <1>1
    <2>2. t \in Of(b) /\ t.x = NodeAt(s, u.blk).ents[j]
      BY <1>3
    <2> HIDE DEF t, Of, b
    <2> QED
      BY <1>2, <2>1, <2>2
  <1> QED
    BY <1>4, <1>5

\* Whatever the depth of a tree and the sizes of its nodes, a tree in order is
\* searched exactly: find_extent reaches every block of every extent, with its
\* mark, and get_pblock_idx takes no hole for a block.
THEOREM OrderedIsSearched ==
    ASSUME NEW s, s.mem.root.depth \in Nat, Ordered(s)
    PROVE  /\ Searchable(s)
           /\ \A l \in 0 .. MaxBlocks - 1 : IsMapped(s, l) => \E t \in Slots(s) : Covers(t.x, l)
  <1> DEFINE n == s.mem.root.depth
  <1>1. n \in 0 .. n
    OBVIOUS
  <1>2. ASSUME NEW t \in Slots(s), NEW l \in t.x.lb .. EndOf(t.x) - 1
        PROVE  State(s, l) = [pb |-> t.x.pb + (l - t.x.lb), unwritten |-> Unwritten(t.x)]
    <2>1. PICK u \in Spans(s)[n] : \E j \in 1 .. NodeAt(s, u.blk).n : t.x = NodeAt(s, u.blk).ents[j]
      BY SlotsAre
    <2>2. PICK j \in 1 .. NodeAt(s, u.blk).n : t.x = NodeAt(s, u.blk).ents[j]
      BY <2>1
    <2>3. /\ NodeAt(s, u.blk).n \in Nat /\ t.x.lb \in Nat /\ t.x.cnt \in Nat
          /\ ExtentsAscend(NodeAt(s, u.blk), u.from, u.to)
      BY <1>1, <2>2, NodeIsOrdered
    <2>4. EndOf(t.x) \in Nat
      BY <2>3, LengthIsNat
    <2>5. l \in Nat /\ Covers(t.x, l)
      BY <2>3, <2>4 DEF Covers
    <2>6. NodeAt(s, u.blk).n > 0 /\ Nearest(NodeAt(s, u.blk), l) = j /\ Holds(u, l)
      BY <2>2, <2>5, ExtentFound
    <2>7. l \in 0 .. MaxBlocks - 1
      <3>1. u \in Span /\ l < u.to
        BY <1>1, <2>6, SpansTyped DEF Holds
      <3>2. u.to <= MaxBlocks
        BY <1>1, SpansEnd
      <3> QED
        BY <2>5, <3>1, <3>2, ExtentTreeAssumption DEF Span
    <2>8. IsAt(s, l, PathTo(s, l), n, u.blk)
      BY <2>6, <2>7, DescentEnds
    <2> QED
      BY <2>2, <2>3, <2>5, <2>6, <2>8, StateAtLeaf
  <1>3. ASSUME NEW l \in 0 .. MaxBlocks - 1, IsMapped(s, l)
        PROVE  \E t \in Slots(s) : Covers(t.x, l)
    <2>1. PICK u \in Spans(s)[n] : Holds(u, l)
      BY DescentEnds
    <2>2. IsAt(s, l, PathTo(s, l), n, u.blk)
      BY <2>1, DescentEnds
    <2> DEFINE nd == NodeAt(s, u.blk)
               p  == Nearest(nd, l)
    <2>3. /\ nd.n \in Nat /\ ExtentsAscend(nd, u.from, u.to)
          /\ \A i \in 1 .. nd.n : nd.ents[i].lb \in Nat /\ nd.ents[i].cnt \in Nat
      BY <1>1, NodeIsOrdered
    <2>4. State(s, l).pb # 0
      BY <1>3 DEF IsMapped
    <2> DEFINE x == nd.ents[p]
    <2>5. nd.n # 0 /\ Covers(x, l)
      <3>1. State(s, l) =
              IF nd.n = 0 THEN [pb |-> 0, unwritten |-> FALSE]
              ELSE [pb |-> IF Covers(x, l) THEN x.pb + (l - x.lb) ELSE 0,
                    unwritten |-> Unwritten(x)]
        BY <2>2, <2>3, StateAtLeaf
      <3> HIDE DEF x, nd
      <3> QED
        BY <2>4, <3>1
    <2>6. p \in 1 .. nd.n
      <3>1. l \in Nat
        BY ExtentTreeAssumption
      <3> HIDE DEF nd
      <3>2. p \in 1 .. nd.n
        BY <2>3, <2>5, <3>1, AscendingKeys, NearestIs
      <3> QED
        BY <3>2
    <2>7. PICK t \in Slots(s) : t.x = nd.ents[p]
      BY <2>6, SlotsAre
    <2> QED
      BY <2>5, <2>7
  <1> QED
    BY <1>2, <1>3 DEF Searchable

=============================================================================
