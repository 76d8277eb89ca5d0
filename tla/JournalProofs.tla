--------------------------- MODULE JournalProofs ---------------------------
(***************************************************************************)
(* The journal, for every geometry, log and crash.                         *)
(*                                                                         *)
(* Part one: the write-capturing device.  Who reads through it sees its    *)
(* own writes, and the inner device keeps the state a failure returns to.  *)
(* ReadsOwnWrites is not inductive.  After a failure it needs InnerIsOld   *)
(* and that the outermost end is the one that leaves the failed state;     *)
(* after a commit, that the blocks handed over are the staged ones.        *)
(*                                                                         *)
(* Part two: recovery.  ReplayIsExact is not inductive.  It needs that the *)
(* log holds the live transactions and nothing that could pass for one     *)
(* more (Held), so that the scan finds exactly these; what the replay      *)
(* loops have done of them so far (Replayed) and left alone (Kept); and    *)
(* that nothing is written before the revoke blocks are known to be good   *)
(* (Careful).                                                              *)
(***************************************************************************)
EXTENDS JournalDevice, JournalRecovery, SequenceTheorems, WellFoundedInduction, TLAPS

-----------------------------------------------------------------------------
(* Numbers. *)

\* Quotient and remainder.
LEMMA Division ==
    ASSUME NEW n \in Nat, NEW m \in Nat \ {0}
    PROVE  n \div m \in Nat /\ n % m \in 0 .. m - 1 /\ n = (n \div m) * m + (n % m)
  OBVIOUS

\* They are the only ones.
LEMMA DivisionIsUnique ==
    ASSUME NEW m \in Nat \ {0}, NEW g \in Nat, NEW i \in 0 .. m - 1
    PROVE  (g * m + i) \div m = g /\ (g * m + i) % m = i
  OBVIOUS

\* A set of naturals that is not empty has a least element.
LEMMA LeastExists ==
    ASSUME NEW S \in SUBSET Nat, S # {}
    PROVE  \E x \in S : \A y \in S : x <= y
  <1> DEFINE R == OpToRel(<, Nat)
  <1>1. \E x \in S : \A y \in S : ~(<<y, x>> \in R)
    <2>1. IsWellFoundedOn(R, Nat)
      BY NatLessThanWellFounded
    <2> HIDE DEF R
    <2> QED
      BY <2>1, WFMin
  <1>2. PICK x \in S : \A y \in S : ~(<<y, x>> \in R)
    BY <1>1
  <1>3. \A y \in S : x <= y
    <2> SUFFICES ASSUME NEW y \in S PROVE ~(y < x)
      OBVIOUS
    <2> SUFFICES ASSUME y < x PROVE FALSE
      OBVIOUS
    <2>1. y \in Nat /\ x \in Nat
      BY <1>2
    <2>2. <<y, x>> \in R
      BY <2>1 DEF OpToRel
    <2> QED
      BY <1>2, <2>2
  <1> QED
    BY <1>2, <1>3

\* What holds of 0, and of each number up to n whose predecessor it holds of,
\* holds up to n.
LEMMA UpTo ==
    ASSUME NEW n \in Nat, NEW S, 0 \in S, \A k \in 1 .. n : k - 1 \in S => k \in S
    PROVE  0 .. n \subseteq S
  <1> DEFINE bad == {k \in 0 .. n : k \notin S}
  <1> SUFFICES ASSUME bad # {} PROVE FALSE
    OBVIOUS
  <1>1. bad \in SUBSET Nat
    OBVIOUS
  <1> HIDE DEF bad
  <1>2. PICK k \in bad : \A y \in bad : k <= y
    BY <1>1, LeastExists
  <1>3. k \in 0 .. n /\ k \notin S /\ k # 0
    BY <1>2 DEF bad
  <1>4. k - 1 \in 0 .. n /\ ~(k <= k - 1)
    BY <1>3
  <1>5. k - 1 \in S
    BY <1>2, <1>4 DEF bad
  <1> QED
    BY <1>3, <1>5

\* The functions on 0 .. n that begin with a and go on by F.
Stepwise(n, V, a, F) ==
    {f \in [0 .. n -> V] : f[0] = a /\ \A k \in 1 .. n : f[k] = F[<<k, f[k - 1]>>]}

StaysIn(n, V, F) == \A k \in 1 .. n : \A v \in V : F[<<k, v>>] \in V

\* A function is defined by its first value and its steps.
LEMMA StepwiseExists ==
    ASSUME NEW n \in Nat, NEW V, NEW a \in V, NEW F, StaysIn(n, V, F)
    PROVE  \E f : f \in Stepwise(n, V, a, F)
  <1> DEFINE Is(f, m) == /\ f \in [0 .. m -> V] /\ f[0] = a
                         /\ \A k \in 1 .. m : f[k] = F[<<k, f[k - 1]>>]
             S == {m \in 0 .. n : \E f \in [0 .. m -> V] : Is(f, m)}
  <1>1. 0 \in S
    <2> DEFINE f == [k \in 0 .. 0 |-> a]
    <2>1. Is(f, 0) /\ f \in [0 .. 0 -> V]
      OBVIOUS
    <2> HIDE DEF f, Is
    <2>2. \E h \in [0 .. 0 -> V] : Is(h, 0)
      BY <2>1
    <2> QED
      BY <2>2
  <1>2. ASSUME NEW m \in 1 .. n, m - 1 \in S
        PROVE  m \in S
    <2>1. PICK f \in [0 .. m - 1 -> V] : Is(f, m - 1)
      BY <1>2
    <2> DEFINE g == [k \in 0 .. m |-> IF k = m THEN F[<<m, f[m - 1]>>] ELSE f[k]]
    <2>2. f[m - 1] \in V
      OBVIOUS
    <2>3. F[<<m, f[m - 1]>>] \in V
      BY <2>2 DEF StaysIn
    <2>4. g \in [0 .. m -> V] /\ g[0] = a
      BY <2>1, <2>3
    <2>5. ASSUME NEW k \in 1 .. m
          PROVE  g[k] = F[<<k, g[k - 1]>>]
      <3>1. g[k - 1] = f[k - 1]
        OBVIOUS
      <3>2. CASE k = m
        <4>1. g[k] = F[<<m, f[m - 1]>>]
          BY <3>2
        <4> HIDE DEF g
        <4> QED
          BY <3>1, <3>2, <4>1
      <3>3. CASE k # m
        <4>1. k \in 1 .. m - 1 /\ g[k] = f[k]
          BY <3>3
        <4> QED
          BY <2>1, <3>1, <4>1
      <3> QED
        BY <3>2, <3>3
    <2> HIDE DEF g
    <2>6. Is(g, m)
      BY <2>4, <2>5
    <2> QED
      BY <2>4, <2>6
  <1> HIDE DEF S
  <1>3. n \in S
    BY <1>1, <1>2, UpTo
  <1> QED
    BY <1>3 DEF S, Stepwise

\* A set of naturals with an upper bound that is not empty has a greatest element.
LEMMA GreatestExists ==
    ASSUME NEW S \in SUBSET Nat, S # {}, NEW n \in Nat, \A x \in S : x <= n
    PROVE  \E x \in S : \A y \in S : y <= x
  <1> DEFINE up == {n - x : x \in S}
  <1>1. up \in SUBSET Nat
    OBVIOUS
  <1>a. up # {}
    <2>1. PICK x : x \in S
      OBVIOUS
    <2>2. n - x \in up
      BY <2>1
    <2> QED
      BY <2>2
  <1>2. PICK u \in up : \A v \in up : u <= v
    <2> HIDE DEF up
    <2> QED
      BY <1>1, <1>a, LeastExists
  <1>3. PICK x \in S : u = n - x
    BY <1>2
  <1>4. \A y \in S : y <= x
    <2> SUFFICES ASSUME NEW y \in S PROVE y <= x
      OBVIOUS
    <2>1. n - y \in up
      OBVIOUS
    <2>2. n - x <= n - y
      BY <1>2, <1>3, <2>1
    <2> QED
      BY <2>2
  <1> QED
    BY <1>4

-----------------------------------------------------------------------------
(* The device: positions and blocks. *)

Image == [Position -> Byte]

\* Every position is in a block, at an offset of it.
LEMMA Split ==
    ASSUME NEW p \in Position
    PROVE  /\ BlockOf(p) \in BlockNo
           /\ Intra(p) \in 0 .. BlockSize - 1
           /\ PositionOf(BlockOf(p), Intra(p)) = p
  <1> USE DeviceGeometry
  <1>1. p \in Nat /\ p < BlockSize * NBlocks
    BY DEF Position
  <1>2. /\ BlockOf(p) \in Nat
        /\ Intra(p) \in 0 .. BlockSize - 1
        /\ p = BlockOf(p) * BlockSize + Intra(p)
    BY <1>1, Division DEF BlockOf, Intra
  <1>3. BlockOf(p) < NBlocks
    <2>1. SUFFICES ASSUME BlockOf(p) >= NBlocks PROVE FALSE
      BY <1>2
    <2>2. BlockOf(p) * BlockSize >= NBlocks * BlockSize
      BY <1>2, <2>1
    <2> QED
      BY <1>1, <1>2, <2>2
  <1> QED
    BY <1>2, <1>3 DEF BlockNo, PositionOf

\* Every offset of a block is a position.
LEMMA Join ==
    ASSUME NEW b \in BlockNo, NEW i \in 0 .. BlockSize - 1
    PROVE  PositionOf(b, i) \in Position
  <1> USE DeviceGeometry
  <1>1. b \in Nat /\ i \in Nat /\ b + 1 <= NBlocks /\ i < BlockSize
    BY DEF BlockNo
  <1>2. (b + 1) * BlockSize <= NBlocks * BlockSize
    BY <1>1
  <1>3. b * BlockSize \in Nat /\ (b + 1) * BlockSize = b * BlockSize + BlockSize
    BY <1>1
  <1> QED
    BY <1>1, <1>2, <1>3 DEF Position, PositionOf

-----------------------------------------------------------------------------
(* Transactions. *)

\* What it is to be a transaction.
LEMMA IsBlocks ==
    ASSUME NEW t
    PROVE  t \in Blocks <=> /\ DOMAIN t \subseteq BlockNo
                            /\ t \in [DOMAIN t -> [0 .. BlockSize - 1 -> Byte]]
  BY DEF Blocks

\* The empty transaction is one.
LEMMA EmptyIsBlocks == NoBlocks \in Blocks /\ NoBlocks # None /\ DOMAIN NoBlocks = {}
  <1>1. NoBlocks \in [{} -> [0 .. BlockSize - 1 -> Byte]] /\ DOMAIN NoBlocks = {}
    BY DEF NoBlocks
  <1> QED
    BY <1>1, IsBlocks, NoneIsNoTransaction

\* A transaction over an image is an image.
LEMMA OverlaidIsImage ==
    ASSUME inner \in Image, NEW t \in Blocks
    PROVE  Overlaid(t) \in Image
  <1> SUFFICES ASSUME NEW p \in Position
               PROVE  (IF BlockOf(p) \in DOMAIN t THEN t[BlockOf(p)][Intra(p)] ELSE inner[p]) \in Byte
    BY DEF Overlaid, Image
  <1>1. CASE BlockOf(p) \in DOMAIN t
    BY <1>1, IsBlocks, Split
  <1>2. CASE BlockOf(p) \notin DOMAIN t
    BY <1>2 DEF Image
  <1> QED
    BY <1>1, <1>2

\* The empty transaction changes nothing.
LEMMA OverlaidByNone ==
    ASSUME inner \in Image
    PROVE  Overlaid(NoBlocks) = inner
  BY EmptyIsBlocks DEF Overlaid, Image

-----------------------------------------------------------------------------
(* A write. *)

\* The arguments of a write.
LEMMA WrittenBytes ==
    ASSUME NEW off \in Position, NEW len \in 1 .. MaxWrite, NEW bytes \in [1 .. len -> Byte],
           off + len - 1 \in Position
    PROVE  /\ Len(bytes) = len
           /\ off .. off + Len(bytes) - 1 \subseteq Position
           /\ \A p \in Position : InRange(p, off, bytes) => bytes[p - off + 1] \in Byte
  <1> USE DeviceGeometry
  <1>1. len \in Nat /\ off \in Nat
    BY DEF Position
  <1>2. bytes \in Seq(Byte)
    BY <1>1, SeqDef
  <1>3. Len(bytes) = len
    BY <1>1, <1>2, LenProperties
  <1>4. off .. off + Len(bytes) - 1 \subseteq Position
    BY <1>1, <1>3 DEF Position
  <1>5. ASSUME NEW p \in Position, InRange(p, off, bytes)
        PROVE  bytes[p - off + 1] \in Byte
    <2>1. p \in Int /\ off <= p /\ p <= off + len - 1
      BY <1>3, <1>5 DEF InRange, Position
    <2>2. p - off + 1 \in 1 .. len
      BY <1>1, <2>1
    <2> QED
      BY <2>2
  <1> QED
    BY <1>3, <1>4, <1>5

\* An image with bytes laid over it is an image.
LEMMA LaidIsImage ==
    ASSUME NEW f \in Image, NEW off \in Position, NEW len \in 1 .. MaxWrite,
           NEW bytes \in [1 .. len -> Byte], off + len - 1 \in Position
    PROVE  Laid(f, off, bytes) \in Image
  BY WrittenBytes DEF Laid, Image

\* The block a write merges with.
LEMMA BaseBlockIs ==
    ASSUME inner \in Image, txn \in Blocks, NEW b \in BlockNo
    PROVE  BaseBlock(b) \in [0 .. BlockSize - 1 -> Byte]
  <1>1. CASE b \in DOMAIN txn
    BY <1>1, IsBlocks DEF BaseBlock
  <1>2. CASE b \notin DOMAIN txn
    <2>1. InnerBlock(b) \in [0 .. BlockSize - 1 -> Byte]
      BY Join DEF InnerBlock, Image
    <2> QED
      BY <1>2, <2>1 DEF BaseBlock
  <1> QED
    BY <1>1, <1>2

\* A merged block.
LEMMA MergedIs ==
    ASSUME inner \in Image, txn \in Blocks, NEW off \in Position, NEW len \in 1 .. MaxWrite,
           NEW bytes \in [1 .. len -> Byte], off + len - 1 \in Position, NEW b \in BlockNo
    PROVE  Merged(b, off, bytes) \in [0 .. BlockSize - 1 -> Byte]
  <1> SUFFICES ASSUME NEW i \in 0 .. BlockSize - 1
               PROVE  (IF InRange(PositionOf(b, i), off, bytes)
                       THEN bytes[PositionOf(b, i) - off + 1] ELSE BaseBlock(b)[i]) \in Byte
    BY DEF Merged
  <1>1. PositionOf(b, i) \in Position
    BY Join
  <1> QED
    BY <1>1, WrittenBytes, BaseBlockIs

\* What staging does to the device seen through the transaction.
LEMMA StagedIs ==
    ASSUME inner \in Image, txn \in Blocks, NEW off \in Position, NEW len \in 1 .. MaxWrite,
           NEW bytes \in [1 .. len -> Byte], off + len - 1 \in Position
    PROVE  /\ Staged(off, bytes) \in Blocks
           /\ Overlaid(Staged(off, bytes)) = Laid(Overlaid(txn), off, bytes)
  <1> DEFINE touched == {BlockOf(p) : p \in off .. off + Len(bytes) - 1}
             new == [b \in DOMAIN txn \cup touched |->
                        IF b \in touched THEN Merged(b, off, bytes) ELSE txn[b]]
  <1>1. Staged(off, bytes) = new
    BY DEF Staged
  <1>2. touched \subseteq BlockNo
    BY WrittenBytes, Split
  <1>3. \A b \in touched : Merged(b, off, bytes) \in [0 .. BlockSize - 1 -> Byte]
    BY <1>2, MergedIs
  <1>4. /\ DOMAIN new = DOMAIN txn \cup touched
        /\ \A b \in DOMAIN txn \cup touched :
               new[b] = IF b \in touched THEN Merged(b, off, bytes) ELSE txn[b]
    OBVIOUS
  <1>5. \A p \in Position : BlockOf(p) \notin touched => ~InRange(p, off, bytes)
    BY DEF InRange
  <1>6. Staged(off, bytes) \in Blocks
    <2> HIDE DEF touched
    <2>1. DOMAIN txn \subseteq BlockNo /\ txn \in [DOMAIN txn -> [0 .. BlockSize - 1 -> Byte]]
      BY IsBlocks
    <2>2. new \in [DOMAIN txn \cup touched -> [0 .. BlockSize - 1 -> Byte]]
      BY <1>3, <2>1
    <2> HIDE DEF new
    <2> QED
      BY <1>1, <1>2, <1>4, <2>1, <2>2, IsBlocks
  <1> HIDE DEF touched, new
  <1>7. ASSUME NEW p \in Position
        PROVE  Overlaid(new)[p] = Laid(Overlaid(txn), off, bytes)[p]
    <2>1. Laid(Overlaid(txn), off, bytes)[p] =
              IF InRange(p, off, bytes) THEN bytes[p - off + 1] ELSE Overlaid(txn)[p]
      BY DEF Laid
    <2>2. /\ Overlaid(new)[p] = IF BlockOf(p) \in DOMAIN new
                                THEN new[BlockOf(p)][Intra(p)] ELSE inner[p]
          /\ Overlaid(txn)[p] = IF BlockOf(p) \in DOMAIN txn
                                THEN txn[BlockOf(p)][Intra(p)] ELSE inner[p]
      BY DEF Overlaid
    <2>3. CASE BlockOf(p) \in touched
      <3>1. new[BlockOf(p)][Intra(p)] = Merged(BlockOf(p), off, bytes)[Intra(p)]
        BY <1>4, <2>3
      <3>2. Merged(BlockOf(p), off, bytes)[Intra(p)] =
                IF InRange(p, off, bytes) THEN bytes[p - off + 1] ELSE BaseBlock(BlockOf(p))[Intra(p)]
        BY Split DEF Merged
      <3>3. BaseBlock(BlockOf(p))[Intra(p)] = Overlaid(txn)[p]
        <4>1. InnerBlock(BlockOf(p))[Intra(p)] = inner[p]
          BY Split DEF InnerBlock
        <4> QED
          BY <2>2, <4>1 DEF BaseBlock
      <3> QED
        BY <1>4, <2>1, <2>2, <2>3, <3>1, <3>2, <3>3
    <2>4. CASE BlockOf(p) \notin touched
      BY <1>4, <1>5, <2>1, <2>2, <2>4
    <2> QED
      BY <2>3, <2>4
  <1>8. Overlaid(new) = Laid(Overlaid(txn), off, bytes)
    BY <1>7 DEF Overlaid, Laid
  <1> QED
    BY <1>1, <1>6, <1>8

-----------------------------------------------------------------------------
(* The sequence of saved images. *)

\* begin pushes an image.
LEMMA Pushed ==
    ASSUME NEW s \in Seq(Image), NEW f \in Image
    PROVE  /\ Append(s, f) \in Seq(Image)
           /\ Len(Append(s, f)) = Len(s) + 1
           /\ Append(s, f)[1] = IF Len(s) = 0 THEN f ELSE s[1]
  BY AppendProperties, LenProperties

\* end pops one.
LEMMA Popped ==
    ASSUME NEW s \in Seq(Image), Len(s) > 0
    PROVE  /\ s[Len(s)] \in Image
           /\ SubSeq(s, 1, Len(s) - 1) \in Seq(Image)
           /\ Len(SubSeq(s, 1, Len(s) - 1)) = Len(s) - 1
           /\ Len(s) > 1 => SubSeq(s, 1, Len(s) - 1)[1] = s[1]
  <1>1. Len(s) \in Nat
    BY LenProperties
  <1>2. \A i \in 1 .. Len(s) - 1 : s[i] \in Image
    BY <1>1, ElementOfSeq
  <1>3. s[Len(s)] \in Image
    BY <1>1, ElementOfSeq
  <1> DEFINE n == Len(s) - 1
  <1>4. n \in Nat /\ \A i \in 1 .. n : s[i] \in Image
    BY <1>1, <1>2
  <1>5. Len(s) = n + 1
    BY <1>1
  <1> HIDE DEF n
  <1>6. /\ SubSeq(s, 1, n) \in Seq(Image)
        /\ Len(SubSeq(s, 1, n)) = n
    BY <1>4, SubSeqProperties
  <1>7. n > 0 => SubSeq(s, 1, n)[1] = s[1]
    BY <1>4, SubSeqProperties
  <1> QED
    BY <1>3, <1>5, <1>6, <1>7 DEF n

-----------------------------------------------------------------------------
(* The device: its invariant is inductive. *)

\* The device opens transparent.
LEMMA InitInv == Init => Inv
  <1> SUFFICES ASSUME Init PROVE Inv
    OBVIOUS
  <1>1. saved \in Seq(Image) /\ Len(saved) = 0
    BY EmptySeq DEF Init
  <1>2. /\ inner \in Image /\ mirror \in Image /\ txn = None /\ pending = None
        /\ depth = 0 /\ doomed = FALSE
    BY DEF Init, Image
  <1>3. depth \in 0 .. MaxDepth /\ ~(depth > 0)
    BY <1>2, DeviceGeometry
  <1>4. TypeOK
    BY <1>1, <1>2, <1>3 DEF TypeOK, Open, Image
  <1> QED
    BY <1>3, <1>4 DEF Init, Inv, InnerIsOld, LayersAgree, Open, Running

\* A write, captured or not.
LEMMA WritePreserves ==
    ASSUME Inv, NEW off \in Position, NEW len \in 1 .. MaxWrite, NEW bytes \in [1 .. len -> Byte],
           off + len - 1 \in Position, WriteOffset(off, bytes)
    PROVE  Inv'
  <1> USE DEF Image
  <1>0. inner \in Image /\ mirror \in Image
    BY DEF Inv, TypeOK
  <1>1. UNCHANGED <<depth, pending, doomed, saved>> /\ Running
    BY DEF WriteOffset
  <1>2. mirror' = Laid(mirror, off, bytes) /\ mirror' \in Image
    BY <1>0, LaidIsImage DEF WriteOffset
  <1>3. CASE Open
    <2>1. txn \in Blocks
      BY <1>3 DEF Inv, TypeOK, Open
    <2>2. txn' = Staged(off, bytes) /\ inner' = inner
      BY <1>3 DEF WriteOffset
    <2>3. txn' \in Blocks /\ txn' # None
      BY <1>0, <2>1, <2>2, StagedIs, NoneIsNoTransaction
    <2>4. Overlaid(txn)' = Overlaid(txn')
      BY <2>2 DEF Overlaid
    <2>5. mirror' = Overlaid(txn)'
      BY <1>0, <1>1, <1>2, <1>3, <2>1, <2>2, <2>4, StagedIs DEF Inv, LayersAgree
    <2>6. TypeOK'
      BY <1>1, <1>2, <1>3, <2>2, <2>3 DEF Inv, TypeOK, Open
    <2>7. InnerIsOld'
      BY <1>1, <2>2 DEF Inv, InnerIsOld
    <2>8. LayersAgree'
      BY <1>1, <2>3, <2>5 DEF Inv, LayersAgree, Running, Open
    <2> QED
      BY <2>6, <2>7, <2>8 DEF Inv
  <1>4. CASE ~Open
    <2>1. txn' = txn /\ inner' = Laid(inner, off, bytes)
      BY <1>4 DEF WriteOffset
    <2>2. inner' \in Image
      BY <1>0, <2>1, LaidIsImage
    <2>3. mirror = inner /\ depth = 0
      BY <1>1, <1>4 DEF Inv, LayersAgree, TypeOK
    <2>4. TypeOK'
      BY <1>1, <1>2, <2>1, <2>2 DEF Inv, TypeOK, Open
    <2>5. InnerIsOld' /\ LayersAgree'
      BY <1>1, <1>2, <1>4, <2>1, <2>3 DEF Inv, InnerIsOld, LayersAgree, Running, Open
    <2> QED
      BY <2>4, <2>5 DEF Inv
  <1> QED
    BY <1>3, <1>4

\* The begin of an operation.
LEMMA BeginPreserves == ASSUME Inv, Begin PROVE Inv'
  <1> USE DEF Image
  <1>0. /\ inner \in Image /\ mirror \in Image /\ saved \in Seq(Image)
        /\ depth \in Nat /\ Len(saved) = depth
    BY DEF Inv, TypeOK
  <1>1. /\ UNCHANGED <<inner, pending, doomed, mirror>> /\ Running
        /\ depth' = depth + 1 /\ depth < MaxDepth
        /\ saved' = Append(saved, mirror)
        /\ txn' = IF depth = 0 THEN NoBlocks ELSE txn
    BY DEF Begin
  <1>2. /\ saved' \in Seq(Image) /\ Len(saved') = depth'
        /\ saved'[1] = IF depth = 0 THEN mirror ELSE saved[1]
    BY <1>0, <1>1, Pushed
  <1>3. txn' \in Blocks /\ txn' # None
    BY <1>0, <1>1, EmptyIsBlocks, NoneIsNoTransaction DEF Inv, TypeOK, Open
  <1>4. Overlaid(txn)' = Overlaid(txn')
    BY <1>1 DEF Overlaid
  <1>5. mirror = Overlaid(txn') /\ (depth = 0 => mirror = inner)
    <2>1. CASE depth = 0
      BY <1>0, <1>1, <2>1, OverlaidByNone DEF Inv, LayersAgree, TypeOK
    <2>2. CASE depth # 0
      BY <1>0, <1>1, <2>2 DEF Inv, LayersAgree, TypeOK
    <2> QED
      BY <2>1, <2>2
  <1>6. TypeOK'
    BY <1>0, <1>1, <1>2, <1>3, DeviceGeometry DEF Inv, TypeOK, Open
  <1>7. InnerIsOld'
    BY <1>0, <1>1, <1>2, <1>5 DEF Inv, InnerIsOld
  <1>8. LayersAgree'
    BY <1>1, <1>3, <1>4, <1>5 DEF Inv, LayersAgree, Running, Open
  <1> QED
    BY <1>6, <1>7, <1>8 DEF Inv

\* The end of an operation, successful or not.
LEMMA EndPreserves == ASSUME Inv, NEW ok \in BOOLEAN, End(ok) PROVE Inv'
  <1> USE DEF Image
  <1>0. /\ inner \in Image /\ mirror \in Image /\ saved \in Seq(Image)
        /\ depth \in Nat /\ depth <= MaxDepth /\ depth > 0 /\ Len(saved) = depth
        /\ pending = None /\ Open /\ txn \in Blocks /\ inner = saved[1]
    BY DeviceGeometry DEF Inv, TypeOK, End, InnerIsOld, Open
  <1>1. /\ inner' = inner /\ depth' = depth - 1 /\ (doomed => ~ok)
        /\ mirror' = IF ok THEN mirror ELSE saved[Len(saved)]
        /\ saved' = SubSeq(saved, 1, Len(saved) - 1)
    BY DEF End
  <1>2. /\ mirror' \in Image /\ saved' \in Seq(Image) /\ Len(saved') = depth'
        /\ depth > 1 => saved'[1] = saved[1]
    BY <1>0, <1>1, Popped
  <1>3. \A t : Overlaid(t)' = Overlaid(t')
    BY <1>1 DEF Overlaid
  <1>4. InnerIsOld'
    BY <1>0, <1>1, <1>2 DEF InnerIsOld
  <1>5. ok => mirror = Overlaid(txn)
    BY <1>0, <1>1 DEF Inv, LayersAgree, Running
  <1>6. CASE depth > 1
    <2>1. UNCHANGED <<txn, pending>> /\ doomed' = ~ok
      BY <1>6 DEF End
    <2>2. TypeOK'
      BY <1>0, <1>1, <1>2, <1>6, <2>1, DeviceGeometry DEF Inv, TypeOK, Open
    <2>3. Overlaid(txn)' = Overlaid(txn)
      BY <1>1, <2>1 DEF Overlaid
    <2>4. Running' => mirror' = Overlaid(txn)' /\ Open'
      <3>1. Running' => ok /\ txn' # None
        BY <1>0, <2>1 DEF Running, Open
      <3>2. ok => mirror' = Overlaid(txn)
        BY <1>1, <1>5
      <3> QED
        BY <2>3, <3>1, <3>2 DEF Open
    <2>5. LayersAgree'
      <3>1. depth' > 0 /\ pending' = None
        BY <1>0, <1>1, <1>6, <2>1
      <3> QED
        BY <2>4, <3>1 DEF LayersAgree
    <2> QED
      BY <1>4, <2>2, <2>5 DEF Inv
  <1>7. CASE depth = 1
    <2>1. /\ txn' = None /\ doomed' = FALSE
          /\ pending' = IF ok /\ txn # NoBlocks THEN txn ELSE None
      BY <1>7 DEF End
    <2>2. TypeOK'
      <3>1. depth' \in 0 .. MaxDepth /\ ~(depth' > 0)
        BY <1>0, <1>1, <1>7, DeviceGeometry
      <3>2. pending' = None \/ pending' \in Blocks
        BY <1>0, <2>1
      <3>3. inner' \in Image
        BY <1>0, <1>1
      <3> QED
        BY <1>2, <2>1, <3>1, <3>2, <3>3 DEF TypeOK, Open
    <2>3. CASE ok /\ txn # NoBlocks
      <3>1. Overlaid(pending)' = Overlaid(txn)
        BY <1>1, <2>1, <2>3 DEF Overlaid
      <3>2. pending' # None /\ mirror' = Overlaid(pending)' /\ depth' = 0
        BY <1>0, <1>1, <1>5, <1>7, <2>1, <2>3, <3>1 DEF Open
      <3>3. LayersAgree'
        BY <2>1, <3>2 DEF LayersAgree, Running
      <3> QED
        BY <1>4, <2>2, <3>3 DEF Inv
    <2>4. CASE ~(ok /\ txn # NoBlocks)
      <3>1. mirror' = inner
        BY <1>0, <1>1, <1>5, <1>7, <2>4, OverlaidByNone
      <3>2. LayersAgree'
        BY <1>1, <2>1, <2>4, <3>1 DEF LayersAgree, Running, Open
      <3> QED
        BY <1>4, <2>2, <3>2 DEF Inv
    <2> QED
      BY <2>3, <2>4
  <1> QED
    BY <1>0, <1>6, <1>7

\* The commit.
LEMMA CheckpointPreserves == ASSUME Inv, Checkpoint PROVE Inv'
  <1> USE DEF Image
  <1>1. /\ pending # None /\ pending \in Blocks /\ depth = 0 /\ ~doomed /\ txn = None
        /\ mirror = Overlaid(pending) /\ inner \in Image
    BY DEF Inv, TypeOK, LayersAgree, Checkpoint, Open
  <1>2. /\ inner' = Overlaid(pending) /\ pending' = None
        /\ UNCHANGED <<txn, depth, doomed, mirror, saved>>
    BY DEF Checkpoint, Overlaid
  <1>3. inner' \in Image
    BY <1>1, <1>2, OverlaidIsImage
  <1>4. TypeOK'
    BY <1>1, <1>2, <1>3 DEF Inv, TypeOK, Open
  <1>5. InnerIsOld' /\ LayersAgree'
    BY <1>1, <1>2 DEF InnerIsOld, LayersAgree, Running, Open
  <1> QED
    BY <1>4, <1>5 DEF Inv

\* A step that changes nothing.
LEMMA StutterPreserves == ASSUME Inv, UNCHANGED vars PROVE Inv'
  <1>1. Overlaid(txn)' = Overlaid(txn) /\ Overlaid(pending)' = Overlaid(pending)
    BY DEF vars, Overlaid
  <1> QED
    BY <1>1 DEF vars, Inv, TypeOK, Open, InnerIsOld, LayersAgree, Running

\* What is staged and what the inner device holds always make up what callers
\* have written and not lost to a failure (device.rs), for every geometry.
THEOREM InvHolds == Spec => []Inv
  <1>1. Inv /\ [Next]_vars => Inv'
    BY WritePreserves, BeginPreserves, EndPreserves, CheckpointPreserves, StutterPreserves DEF Next
  <1> QED
    BY InitInv, <1>1, PTL DEF Spec

\* read_offset returns the writes made through the device, those of failed
\* operations excepted.
THEOREM OwnWritesRead == Spec => []ReadsOwnWrites
  <1>1. ASSUME Inv PROVE ReadsOwnWrites
    <2>1. SUFFICES ASSUME Running, NEW off \in Position, NEW len \in 1 .. MaxWrite,
                          off + len - 1 \in Position, NEW k \in 1 .. len
                   PROVE  ReadOffset(off, len)[k] = mirror[off + k - 1]
      BY DEF ReadsOwnWrites
    <2> DEFINE p == off + k - 1
    <2>2. p \in Position
      BY <2>1, DeviceGeometry DEF Position
    <2>3. ReadOffset(off, len)[k] =
              IF Open /\ BlockOf(p) \in DOMAIN txn THEN txn[BlockOf(p)][Intra(p)] ELSE inner[p]
      BY DEF ReadOffset
    <2>4. mirror = IF Open THEN Overlaid(txn) ELSE inner
      BY <1>1, <2>1 DEF Inv, LayersAgree
    <2> HIDE DEF p
    <2>5. Overlaid(txn)[p] =
              IF BlockOf(p) \in DOMAIN txn THEN txn[BlockOf(p)][Intra(p)] ELSE inner[p]
      BY <2>2 DEF Overlaid
    <2>6. ReadOffset(off, len)[k] = mirror[p]
      BY <2>3, <2>4, <2>5
    <2> QED
      BY <2>6 DEF p
  <1> QED
    BY InvHolds, <1>1, PTL

-----------------------------------------------------------------------------
(* Recovery: places in the log. *)

Area == MaxLen - First

\* The area behind the superblock is not empty.
LEMMA AreaIs == Area \in Nat \ {0} /\ First \in Nat \ {0} /\ MaxLen = First + Area
  BY LogGeometry DEF Area

\* A position of the log has a slot.
LEMMA SlotIn ==
    ASSUME NEW p \in Nat
    PROVE  Slot(p) \in BodySlot /\ Slot(p) \in LogSlot /\ Slot(p) = First + (p % Area)
  <1>1. Slot(p) = First + (p % Area)
    BY AreaIs DEF Slot, Ahead, Area
  <1>2. p % Area \in 0 .. Area - 1
    BY AreaIs, Division
  <1> HIDE DEF Area
  <1> QED
    BY <1>1, <1>2, AreaIs DEF BodySlot, LogSlot

\* A slot has a position.
LEMMA SlotBack ==
    ASSUME NEW c \in BodySlot
    PROVE  c - First \in Nat /\ Slot(c - First) = c
  <1>1. c - First \in 0 .. Area - 1 /\ c \in Nat
    BY AreaIs DEF BodySlot
  <1>2. (0 * Area + (c - First)) % Area = c - First
    BY <1>1, AreaIs, DivisionIsUnique
  <1>3. 0 * Area + (c - First) = c - First
    BY <1>1, AreaIs
  <1>4. (c - First) % Area = c - First
    BY <1>2, <1>3
  <1> HIDE DEF Area
  <1>5. c - First \in Nat /\ First + (c - First) = c
    BY <1>1, AreaIs
  <1>6. Slot(c - First) = First + ((c - First) % Area)
    BY <1>5, SlotIn
  <1> QED
    BY <1>4, <1>5, <1>6

\* The cursor moves along the positions.
LEMMA SlotAhead ==
    ASSUME NEW p \in Nat, NEW k \in Nat
    PROVE  Ahead(Slot(p), k) = Slot(p + k)
  <1> DEFINE a == p \div Area
             x == p % Area
             c == (x + k) \div Area
             y == (x + k) % Area
  <1>1. a \in Nat /\ x \in 0 .. Area - 1 /\ p = a * Area + x
    BY AreaIs, Division
  <1>2. x + k \in Nat
    BY <1>1, AreaIs
  <1>3. c \in Nat /\ y \in 0 .. Area - 1 /\ x + k = c * Area + y
    BY <1>2, AreaIs, Division
  <1>4. Slot(p) = First + x
    BY SlotIn
  <1>5. Ahead(Slot(p), k) = First + y
    <2>1. Slot(p) - First + k = x + k
      BY <1>1, <1>4, AreaIs
    <2>2. Ahead(Slot(p), k) = First + ((Slot(p) - First + k) % Area)
      BY DEF Ahead, Area
    <2> HIDE DEF x, Area
    <2> QED
      BY <2>1, <2>2 DEF y
  <1>6. p + k = (a + c) * Area + y
    <2> HIDE DEF a, x, c, y, Area
    <2>1. (a + c) * Area = a * Area + c * Area
      BY <1>1, <1>3, AreaIs
    <2>2. a * Area \in Nat /\ c * Area \in Nat
      BY <1>1, <1>3, AreaIs
    <2> QED
      BY <1>1, <1>3, <2>1, <2>2, AreaIs
  <1>7. (p + k) % Area = y
    <2> HIDE DEF a, x, c, y, Area
    <2>1. a + c \in Nat
      BY <1>1, <1>3
    <2> QED
      BY <1>3, <1>6, <2>1, AreaIs, DivisionIsUnique
  <1>8. p + k \in Nat
    OBVIOUS
  <1> HIDE DEF a, x, c, y, Area
  <1> QED
    BY <1>5, <1>7, <1>8, SlotIn

\* The slot any number of blocks ahead is one of the area.
LEMMA AheadIn ==
    ASSUME NEW c \in BodySlot, NEW k \in Nat
    PROVE  Ahead(c, k) \in BodySlot
  <1>1. c - First \in Nat /\ c = Slot(c - First)
    BY SlotBack
  <1>2. Ahead(c, k) = Slot(c - First + k) /\ c - First + k \in Nat
    BY <1>1, SlotAhead
  <1> QED
    BY <1>2, SlotIn

\* wrap_log_block, one block on.
LEMMA AdvanceIs ==
    ASSUME NEW c \in BodySlot
    PROVE  Advance(c) = Ahead(c, 1)
  <1> DEFINE x == c - First
  <1>1. x \in 0 .. Area - 1 /\ c = First + x
    BY AreaIs DEF BodySlot
  <1>2. Ahead(c, 1) = First + ((x + 1) % Area)
    BY DEF Ahead, Area
  <1>3. CASE x + 1 = Area
    <2>1. (1 * Area + 0) % Area = 0
      BY AreaIs, DivisionIsUnique
    <2>2. (x + 1) % Area = 0
      BY <1>3, <2>1, AreaIs
    <2>3. Advance(c) = First
      BY <1>1, <1>3, AreaIs DEF Advance
    <2> QED
      BY <1>2, <2>2, <2>3, AreaIs
  <1>4. CASE x + 1 # Area
    <2>1. (0 * Area + (x + 1)) % Area = x + 1
      BY <1>1, <1>4, AreaIs, DivisionIsUnique
    <2>2. (x + 1) % Area = x + 1
      BY <1>1, <2>1, AreaIs
    <2>3. Advance(c) = c + 1
      BY <1>1, <1>4, AreaIs DEF Advance
    <2> QED
      BY <1>1, <1>2, <2>2, <2>3, AreaIs
  <1> QED
    BY <1>3, <1>4

\* Positions less than the length of the area apart have different slots.
LEMMA SlotApart ==
    ASSUME NEW p \in Nat, NEW q \in Nat, p < q, q - p < Area
    PROVE  Slot(p) # Slot(q)
  <1> SUFFICES ASSUME Slot(p) = Slot(q) PROVE FALSE
    OBVIOUS
  <1> DEFINE a == p \div Area
             b == q \div Area
             x == p % Area
             y == q % Area
  <1>1. a \in Nat /\ x \in 0 .. Area - 1 /\ p = a * Area + x
    BY AreaIs, Division
  <1>2. b \in Nat /\ y \in 0 .. Area - 1 /\ q = b * Area + y
    BY AreaIs, Division
  <1>3. Slot(p) = First + x /\ Slot(q) = First + y
    BY SlotIn
  <1> HIDE DEF a, b, x, y, Area
  <1>4. x = y
    BY <1>1, <1>2, <1>3, AreaIs
  <1>5. q - p = b * Area - a * Area /\ a * Area \in Nat /\ b * Area \in Nat
    BY <1>1, <1>2, <1>4, AreaIs
  <1>6. b > a
    <2> SUFFICES ASSUME b <= a PROVE FALSE
      BY <1>1, <1>2
    <2>1. b * Area <= a * Area
      BY <1>1, <1>2, AreaIs
    <2> QED
      BY <1>5, <2>1
  <1>7. b * Area >= (a + 1) * Area
    BY <1>1, <1>2, <1>6, AreaIs
  <1>8. (a + 1) * Area = a * Area + Area
    BY <1>1, AreaIs
  <1> QED
    BY <1>5, <1>7, <1>8, AreaIs

-----------------------------------------------------------------------------
(* Blocks and transactions. *)

Seqno   == 0 .. SeqWrap - 1
TagType == [block : Block, escaped : BOOLEAN]

LogBlock == DataBlock \cup [kind : {"escaped"}, of : DataBlock]
              \cup [kind : {"descriptor"}, seq : Seqno, tags : Seq(TagType)]
              \cup [kind : {"revoke"}, seq : Seqno, blocks : SUBSET Block, ok : BOOLEAN]
              \cup [kind : {"commit"}, seq : Seqno, ok : BOOLEAN]

Txn == [seq : Seqno, at : Nat, order : Orders, data : DataBlock,
        revokes : SUBSET Block, split : BOOLEAN]

\* The fields of a block by its kind.
LEMMA Kinds ==
    ASSUME NEW x \in LogBlock
    PROVE  /\ x.kind \in {"data", "escaped", "descriptor", "revoke", "commit"}
           /\ x.kind = "descriptor" => x.seq \in Seqno /\ x.tags \in Seq(TagType)
           /\ x.kind = "revoke" => x.seq \in Seqno /\ x.blocks \in SUBSET Block /\ x.ok \in BOOLEAN
           /\ x.kind = "commit" => x.seq \in Seqno /\ x.ok \in BOOLEAN
  BY DEF LogBlock, DataBlock, Seqno

\* What is logged of a block is not read as a log block, and read back as it was.
LEMMA Escaping ==
    ASSUME NEW d \in DataBlock
    PROVE  /\ Escape(d) \in LogBlock /\ Escape(d).kind \in {"data", "escaped"}
           /\ Unescape(Escape(d), HasMagic(d)) = d
           /\ HasMagic(d) \in BOOLEAN
  <1>1. CASE d.kind = "commit"
    BY <1>1 DEF Escape, Unescape, HasMagic, LogBlock
  <1>2. CASE d.kind = "data"
    BY <1>2 DEF Escape, Unescape, HasMagic, LogBlock
  <1>3. d.kind = "commit" \/ d.kind = "data"
    BY DEF DataBlock
  <1> QED
    BY <1>1, <1>2, <1>3

\* A function on 1 .. n is a sequence.
LEMMA FunctionIsSeq ==
    ASSUME NEW n \in Nat, NEW S, NEW f \in [1 .. n -> S]
    PROVE  f \in Seq(S) /\ Len(f) = n /\ DOMAIN f = 1 .. n
  BY SeqDef

\* A sequence of one element.
LEMMA One ==
    ASSUME NEW S, NEW x \in S
    PROVE  <<x>> \in Seq(S) /\ Len(<<x>>) = 1 /\ <<x>>[1] = x
  OBVIOUS

\* The fields of a transaction.
LEMMA TxnFields ==
    ASSUME NEW t \in Txn
    PROVE  /\ t.seq \in Seqno /\ t.at \in Nat /\ t.order \in Seq(Block) /\ t.data \in DataBlock
           /\ t.revokes \in SUBSET Block /\ t.split \in BOOLEAN
           /\ Len(t.order) \in Nat /\ DOMAIN t.order = 1 .. Len(t.order)
           /\ \A k \in 1 .. Len(t.order) : t.order[k] \in Block
  <1>1. t.order \in Seq(Block)
    BY RecoveryBounds DEF Txn
  <1> QED
    BY <1>1 DEF Txn

\* The tags of a transaction.
LEMMA TagsAre ==
    ASSUME NEW t \in Txn
    PROVE  /\ Tags(t) \in Seq(TagType) /\ Len(Tags(t)) = Len(t.order)
           /\ \A k \in 1 .. Len(t.order) : Tags(t)[k] = Tag(t.order[k], t.data) /\ Tags(t)[k] \in TagType
  <1>1. \A k \in 1 .. Len(t.order) : Tag(t.order[k], t.data) \in TagType
    BY TxnFields, Escaping DEF Tag, TagType
  <1>2. Tags(t) \in [1 .. Len(t.order) -> TagType]
    BY <1>1, TxnFields DEF Tags
  <1>3. \A k \in 1 .. Len(t.order) : Tags(t)[k] = Tag(t.order[k], t.data)
    BY TxnFields DEF Tags
  <1> HIDE DEF TagType
  <1> QED
    BY <1>1, <1>2, <1>3, FunctionIsSeq, TxnFields

\* Its descriptors and data: one descriptor for each block, or one for all.
LEMMA SplitIs ==
    ASSUME NEW t \in Txn, t.split
    PROVE  /\ DescriptorsAndData(t) \in Seq(LogBlock)
           /\ Len(DescriptorsAndData(t)) = 2 * Len(t.order)
           /\ \A k \in 1 .. Len(t.order) :
                 /\ DescriptorsAndData(t)[2 * k - 1] = Descriptor(t.seq, <<Tags(t)[k]>>)
                 /\ DescriptorsAndData(t)[2 * k] = Escape(t.data)
  <1> DEFINE n == Len(t.order)
             D(k) == Descriptor(t.seq, <<Tags(t)[k]>>)
             E == Escape(t.data)
             d == [j \in 1 .. 2 * n |-> IF j % 2 = 1 THEN D((j + 1) \div 2) ELSE E]
  <1>1. DescriptorsAndData(t) = d
    BY DEF DescriptorsAndData
  <1>2. n \in Nat
    BY TxnFields
  <1>3. ASSUME NEW k \in 1 .. n PROVE D(k) \in LogBlock
    <2>1. <<Tags(t)[k]>> \in Seq(TagType)
      BY TagsAre, One
    <2> HIDE DEF TagType
    <2> QED
      BY <2>1, TxnFields DEF Descriptor, LogBlock
  <1>4. E \in LogBlock
    BY TxnFields, Escaping
  <1> HIDE DEF D, E, n
  <1>5. ASSUME NEW j \in 1 .. 2 * n PROVE d[j] \in LogBlock
    <2>1. CASE j % 2 = 1
      <3>1. (j + 1) \div 2 \in 1 .. n
        BY <1>2, <2>1
      <3> QED
        BY <2>1, <3>1, <1>3
    <2> QED
      BY <2>1, <1>4
  <1>6. d \in Seq(LogBlock) /\ Len(d) = 2 * n
    <2>1. 2 * n \in Nat /\ d \in [1 .. 2 * n -> LogBlock]
      BY <1>2, <1>5
    <2> HIDE DEF d
    <2> QED
      BY <2>1, FunctionIsSeq
  <1>7. ASSUME NEW k \in 1 .. n
        PROVE  d[2 * k - 1] = D(k) /\ d[2 * k] = E
    <2>1. 2 * k - 1 \in 1 .. 2 * n /\ 2 * k \in 1 .. 2 * n
      BY <1>2
    <2>2. (2 * k - 1) % 2 = 1 /\ (2 * k) % 2 = 0 /\ ((2 * k - 1) + 1) \div 2 = k
      BY <1>2
    <2> QED
      BY <2>1, <2>2
  <1> HIDE DEF d
  <1> QED
    BY <1>1, <1>6, <1>7 DEF D, E, n

\* With one descriptor for all, the blocks follow it.
LEMMA UnsplitIs ==
    ASSUME NEW t \in Txn, ~t.split, t.order # <<>>
    PROVE  /\ DescriptorsAndData(t) \in Seq(LogBlock)
           /\ Len(DescriptorsAndData(t)) = Len(t.order) + 1
           /\ DescriptorsAndData(t)[1] = Descriptor(t.seq, Tags(t))
           /\ \A k \in 1 .. Len(t.order) : DescriptorsAndData(t)[k + 1] = Escape(t.data)
  <1> DEFINE n == Len(t.order)
             D == Descriptor(t.seq, Tags(t))
             E == Escape(t.data)
             c == [k \in DOMAIN t.order |-> E]
  <1>1. DescriptorsAndData(t) = <<D>> \o c
    BY DEF DescriptorsAndData
  <1>2. n \in Nat /\ DOMAIN t.order = 1 .. n
    BY TxnFields
  <1>3. D \in LogBlock
    BY TxnFields, TagsAre DEF Descriptor, LogBlock
  <1>4. E \in LogBlock
    BY TxnFields, Escaping
  <1> HIDE DEF D, E, n
  <1>5. c \in Seq(LogBlock) /\ Len(c) = n /\ \A k \in 1 .. n : c[k] = E
    <2>1. c \in [1 .. n -> LogBlock] /\ \A k \in 1 .. n : c[k] = E
      BY <1>2, <1>4
    <2> HIDE DEF c
    <2> QED
      BY <1>2, <2>1, FunctionIsSeq
  <1>6. <<D>> \in Seq(LogBlock) /\ Len(<<D>>) = 1 /\ <<D>>[1] = D
    BY <1>3, One
  <1> DEFINE u == <<D>>
  <1> HIDE DEF c, u
  <1>7. /\ u \o c \in Seq(LogBlock) /\ Len(u \o c) = Len(u) + Len(c)
        /\ \A i \in 1 .. Len(u) + Len(c) : (u \o c)[i] = IF i <= Len(u) THEN u[i] ELSE c[i - Len(u)]
    BY <1>5, <1>6, ConcatProperties DEF u
  <1>8. Len(u) = 1 /\ u[1] = D
    BY <1>6 DEF u
  <1>9. (u \o c)[1] = D
    BY <1>2, <1>5, <1>7, <1>8
  <1>10. ASSUME NEW k \in 1 .. n PROVE (u \o c)[k + 1] = E
    <2>1. k + 1 \in 1 .. Len(u) + Len(c) /\ ~(k + 1 <= Len(u)) /\ k + 1 - Len(u) = k
      BY <1>2, <1>5, <1>8
    <2> QED
      BY <1>5, <1>7, <2>1
  <1> QED
    BY <1>1, <1>5, <1>7, <1>8, <1>9, <1>10 DEF u, D, E, n

\* The blocks before its descriptors.
Head0(t) == IF t.revokes = {} THEN 0 ELSE 1

\* All its blocks.
LEMMA LayoutIs ==
    ASSUME NEW t \in Txn
    PROVE  /\ Layout(t) \in Seq(LogBlock)
           /\ Head0(t) \in 0 .. 1
           /\ DescriptorsAndData(t) \in Seq(LogBlock)
           /\ Size(t) = Head0(t) + Len(DescriptorsAndData(t)) + 1
           /\ Size(t) \in Nat \ {0}
           /\ t.revokes # {} => Layout(t)[1] = Revoke(t.seq, t.revokes)
           /\ \A j \in 1 .. Len(DescriptorsAndData(t)) :
                 Layout(t)[Head0(t) + j] = DescriptorsAndData(t)[j]
           /\ Layout(t)[Size(t)] = Commit(t.seq)
  <1> DEFINE r == IF t.revokes = {} THEN <<>> ELSE <<Revoke(t.seq, t.revokes)>>
             d == DescriptorsAndData(t)
             c == <<Commit(t.seq)>>
  <1>1. r \in Seq(LogBlock) /\ Len(r) = Head0(t) /\ (t.revokes # {} => r[1] = Revoke(t.seq, t.revokes))
    <2>1. Revoke(t.seq, t.revokes) \in LogBlock
      BY TxnFields DEF Revoke, LogBlock
    <2> HIDE DEF LogBlock
    <2> QED
      BY <2>1 DEF Head0
  <1>2. d \in Seq(LogBlock)
    <2>1. CASE t.order = <<>> /\ ~t.split
      BY <2>1 DEF DescriptorsAndData
    <2> QED
      BY <2>1, SplitIs, UnsplitIs
  <1>3. c \in Seq(LogBlock) /\ Len(c) = 1 /\ c[1] = Commit(t.seq)
    <2>1. Commit(t.seq) \in LogBlock
      BY TxnFields DEF Commit, LogBlock
    <2> HIDE DEF LogBlock
    <2> QED
      BY <2>1
  <1>4. Layout(t) = (r \o d) \o c
    BY DEF Layout
  <1>5. Head0(t) \in 0 .. 1 /\ (t.revokes # {} => Head0(t) = 1)
    BY DEF Head0
  <1> HIDE DEF r, d, c, LogBlock
  <1>6. /\ r \o d \in Seq(LogBlock) /\ Len(r \o d) = Len(r) + Len(d)
        /\ \A i \in 1 .. Len(r) + Len(d) : (r \o d)[i] = IF i <= Len(r) THEN r[i] ELSE d[i - Len(r)]
    BY <1>1, <1>2, ConcatProperties
  <1> DEFINE b == r \o d
  <1> HIDE DEF b
  <1>7. /\ b \o c \in Seq(LogBlock) /\ Len(b \o c) = Len(b) + Len(c)
        /\ \A i \in 1 .. Len(b) + Len(c) : (b \o c)[i] = IF i <= Len(b) THEN b[i] ELSE c[i - Len(b)]
    <2>1. b \in Seq(LogBlock)
      BY <1>6 DEF b
    <2> QED
      BY <2>1, <1>3, ConcatProperties
  <1>8. Len(d) \in Nat /\ Len(r) \in Nat
    BY <1>1, <1>2, LenProperties
  <1>9. Layout(t) = b \o c /\ Size(t) = Len(b \o c)
    BY <1>4 DEF Size, b
  <1>10. Len(b) = Head0(t) + Len(d)
    BY <1>1, <1>6 DEF b
  <1>11. Size(t) = Head0(t) + Len(d) + 1
    BY <1>3, <1>5, <1>7, <1>8, <1>9, <1>10
  <1>12. ASSUME NEW i \in 1 .. Len(b) PROVE (b \o c)[i] = b[i]
    BY <1>3, <1>5, <1>7, <1>8, <1>10
  <1>13. t.revokes # {} => (b \o c)[1] = Revoke(t.seq, t.revokes)
    <2> SUFFICES ASSUME t.revokes # {} PROVE (b \o c)[1] = Revoke(t.seq, t.revokes)
      OBVIOUS
    <2>1. 1 \in 1 .. Len(b) /\ 1 \in 1 .. Len(r) + Len(d) /\ 1 <= Len(r)
      BY <1>1, <1>5, <1>8, <1>10
    <2>2. b[1] = r[1]
      BY <1>6, <2>1 DEF b
    <2> QED
      BY <1>1, <1>12, <2>1, <2>2
  <1>14. ASSUME NEW j \in 1 .. Len(d) PROVE (b \o c)[Head0(t) + j] = d[j]
    <2>1. Head0(t) + j \in 1 .. Len(b) /\ Head0(t) + j \in 1 .. Len(r) + Len(d)
          /\ ~(Head0(t) + j <= Len(r)) /\ Head0(t) + j - Len(r) = j
      BY <1>1, <1>5, <1>8, <1>10
    <2>2. PICK i \in 1 .. Len(b) : i = Head0(t) + j
      BY <2>1
    <2>3. b[i] = IF i <= Len(r) THEN r[i] ELSE d[i - Len(r)]
      BY <1>6, <2>1, <2>2 DEF b
    <2>a. ~(i <= Len(r)) /\ i - Len(r) = j
      BY <1>1, <1>5, <1>8, <2>2
    <2>4. b[i] = d[j]
      BY <2>3, <2>a
    <2> QED
      BY <1>12, <2>2, <2>4
  <1>15. (b \o c)[Size(t)] = Commit(t.seq)
    <2> DEFINE z == Size(t)
    <2>1. Len(b) \in Nat /\ Len(c) = 1
      BY <1>3, <1>5, <1>8, <1>10
    <2>2. z = Len(b) + 1
      BY <1>10, <1>11
    <2> HIDE DEF z
    <2>3. z \in 1 .. Len(b) + Len(c) /\ ~(z <= Len(b)) /\ z - Len(b) = 1
      BY <2>1, <2>2
    <2>4. (b \o c)[z] = c[1]
      BY <1>7, <2>3
    <2> QED
      BY <1>3, <2>4 DEF z
  <1>16. Size(t) \in Nat \ {0}
    BY <1>5, <1>8, <1>11
  <1>17. Layout(t) \in Seq(LogBlock)
    BY <1>7, <1>9
  <1>18. \A j \in 1 .. Len(d) : Layout(t)[Head0(t) + j] = d[j]
    BY <1>9, <1>14
  <1> QED
    BY <1>2, <1>5, <1>9, <1>11, <1>13, <1>15, <1>16, <1>17, <1>18 DEF d

-----------------------------------------------------------------------------
(* The walk. *)

Logged   == [block : Block, slot : BodySlot, escaped : BOOLEAN]
Found    == [seq : Seqno, blocks : Seq(Logged), revokes : Seq(BodySlot)]
WalkType == [cursor : BodySlot, seq : Seqno, blocks : Seq(Logged), revokes : Seq(BodySlot),
             txns : Seq(Found), stop : BOOLEAN]

GoodLog(lg) == \A s \in BodySlot : lg[s] \in LogBlock

\* Wrapping around at 2^32.
LEMMA Successor ==
    ASSUME NEW s \in Seqno
    PROVE  SeqSucc(s) \in Seqno /\ (s + 1 < SeqWrap => SeqSucc(s) = s + 1)
  <1>1. SeqWrap \in Nat \ {0} /\ s \in Nat /\ s + 1 \in Nat
    BY LogGeometry DEF Seqno
  <1>2. (s + 1) % SeqWrap \in 0 .. SeqWrap - 1
    BY <1>1, Division
  <1>3. ASSUME s + 1 < SeqWrap PROVE (s + 1) % SeqWrap = s + 1
    <2>1. s + 1 \in 0 .. SeqWrap - 1
      BY <1>1, <1>3
    <2>2. (0 * SeqWrap + (s + 1)) % SeqWrap = s + 1
      BY <1>1, <2>1, DivisionIsUnique
    <2> QED
      BY <1>1, <2>2
  <1> QED
    BY <1>2, <1>3 DEF SeqSucc, Seqno

\* What a step of the walk does, field by field.
LEMMA DescriptorDoes ==
    ASSUME NEW w \in WalkType, NEW b, b.tags \in Seq(TagType)
    PROVE  LET v == WalkDescriptor(w, b)
               n == Len(b.tags)
           IN  /\ v \in WalkType
               /\ v.cursor = Ahead(w.cursor, n + 1) /\ v.seq = w.seq /\ v.txns = w.txns
               /\ v.revokes = w.revokes /\ v.stop = w.stop
               /\ Len(v.blocks) = Len(w.blocks) + n
               /\ \A k \in 1 .. Len(w.blocks) : v.blocks[k] = w.blocks[k]
               /\ \A k \in 1 .. n : v.blocks[Len(w.blocks) + k] =
                     [block |-> b.tags[k].block, slot |-> Ahead(w.cursor, k),
                      escaped |-> b.tags[k].escaped]
  <1> DEFINE n == Len(b.tags)
             e(k) == [block |-> b.tags[k].block, slot |-> Ahead(w.cursor, k),
                      escaped |-> b.tags[k].escaped]
             more == [k \in 1 .. n |-> e(k)]
             old == w.blocks
             cur == Ahead(w.cursor, n + 1)
             v == WalkDescriptor(w, b)
  <1>1. n \in Nat
    OBVIOUS
  <1>2. ASSUME NEW k \in 1 .. n PROVE e(k) \in Logged
    <2>1. b.tags[k] \in TagType
      BY ElementOfSeq
    <2>2. k \in Nat /\ w.cursor \in BodySlot
      BY DEF WalkType
    <2>3. Ahead(w.cursor, k) \in BodySlot
      BY <2>2, AheadIn
    <2> QED
      BY <2>1, <2>3 DEF TagType, Logged
  <1>3. cur \in BodySlot
    <2>1. n + 1 \in Nat /\ w.cursor \in BodySlot
      BY <1>1 DEF WalkType
    <2> QED
      BY <2>1, AheadIn
  <1>4. v = [w EXCEPT !.blocks = old \o more, !.cursor = cur]
    BY DEF WalkDescriptor
  <1>5. old \in Seq(Logged)
    BY DEF WalkType
  <1>6. more \in Seq(Logged) /\ Len(more) = n /\ \A k \in 1 .. n : more[k] = e(k)
    <2>1. more \in [1 .. n -> Logged] /\ \A k \in 1 .. n : more[k] = e(k)
      BY <1>2
    <2> HIDE DEF more, n, e, Logged
    <2> QED
      BY <1>1, <2>1, FunctionIsSeq
  <1> HIDE DEF more, n, e, cur, v
  <1> DEFINE all == old \o more
  <1>7. all \in Seq(Logged) /\ Len(all) = Len(old) + n
    BY <1>5, <1>6, ConcatProperties
  <1>8. \A k \in 1 .. Len(old) : all[k] = old[k]
    BY <1>1, <1>5, <1>6, ConcatProperties, LenProperties
  <1>9. \A k \in 1 .. n : all[Len(old) + k] = e(k)
    <2> SUFFICES ASSUME NEW k \in 1 .. n PROVE all[Len(old) + k] = e(k)
      OBVIOUS
    <2>1. Len(old) \in Nat
      BY <1>5, LenProperties
    <2>2. PICK i \in 1 .. Len(old) + Len(more) : i = Len(old) + k
      BY <1>1, <1>6, <2>1
    <2>3. all[i] = IF i <= Len(old) THEN old[i] ELSE more[i - Len(old)]
      BY <1>5, <1>6, ConcatProperties
    <2>4. ~(i <= Len(old)) /\ i - Len(old) = k
      BY <1>1, <2>1, <2>2
    <2> QED
      BY <1>6, <2>2, <2>3, <2>4
  <1> HIDE DEF all, old
  <1>10. v.blocks = all /\ v.cursor = cur /\ v.seq = w.seq /\ v.txns = w.txns
         /\ v.revokes = w.revokes /\ v.stop = w.stop
    BY <1>4 DEF WalkType, all, old
  <1>11. v \in WalkType
    BY <1>3, <1>4, <1>7 DEF WalkType, all, old
  <1> QED
    BY <1>7, <1>8, <1>9, <1>10, <1>11 DEF n, e, cur, v, old

\* A revoke block's slot is kept, to be read once the scan is over.
LEMMA RevokeDoes ==
    ASSUME NEW w \in WalkType
    PROVE  LET v == WalkRevoke(w)
           IN  /\ v \in WalkType
               /\ v.cursor = Ahead(w.cursor, 1) /\ v.seq = w.seq /\ v.txns = w.txns
               /\ v.blocks = w.blocks /\ v.stop = w.stop
               /\ v.revokes = Append(w.revokes, w.cursor)
  <1> DEFINE cur == Advance(w.cursor)
             rs == Append(w.revokes, w.cursor)
             v == WalkRevoke(w)
  <1>1. w.cursor \in BodySlot
    BY DEF WalkType
  <1>2. cur = Ahead(w.cursor, 1) /\ cur \in BodySlot
    BY <1>1, AdvanceIs, AheadIn
  <1>3. rs \in Seq(BodySlot)
    <2>1. w.revokes \in Seq(BodySlot)
      BY DEF WalkType
    <2> QED
      BY <1>1, <2>1, AppendProperties
  <1>4. v = [w EXCEPT !.revokes = rs, !.cursor = cur]
    BY DEF WalkRevoke
  <1> HIDE DEF cur, rs, v
  <1>5. v \in WalkType
    BY <1>2, <1>3, <1>4 DEF WalkType
  <1>6. /\ v.cursor = cur /\ v.seq = w.seq /\ v.txns = w.txns /\ v.blocks = w.blocks
        /\ v.stop = w.stop /\ v.revokes = rs
    BY <1>4 DEF WalkType
  <1> QED
    BY <1>2, <1>5, <1>6 DEF v, rs

\* A commit block ends the transaction, one that is not to be trusted the scan.
LEMMA CommitDoes ==
    ASSUME NEW w \in WalkType
    PROVE  LET v == WalkCommit(w)
           IN  /\ v \in WalkType
               /\ v.cursor = Ahead(w.cursor, 1) /\ v.seq = SeqSucc(w.seq)
               /\ v.txns = Append(w.txns, [seq |-> w.seq, blocks |-> w.blocks, revokes |-> w.revokes])
               /\ v.blocks = <<>> /\ v.revokes = <<>> /\ v.stop = w.stop
  <1> DEFINE cur == Advance(w.cursor)
             got == [seq |-> w.seq, blocks |-> w.blocks, revokes |-> w.revokes]
             ts == Append(w.txns, got)
             nxt == SeqSucc(w.seq)
             v == WalkCommit(w)
  <1>1. w.cursor \in BodySlot /\ w.seq \in Seqno
    BY DEF WalkType
  <1>2. cur = Ahead(w.cursor, 1) /\ cur \in BodySlot
    BY <1>1, AdvanceIs, AheadIn
  <1>3. nxt \in Seqno
    BY <1>1, Successor
  <1>4. got \in Found
    BY DEF WalkType, Found
  <1>5. ts \in Seq(Found)
    <2>1. w.txns \in Seq(Found)
      BY DEF WalkType
    <2> QED
      BY <1>4, <2>1, AppendProperties
  <1>6. v = [w EXCEPT !.txns = ts, !.blocks = <<>>, !.revokes = <<>>, !.seq = nxt, !.cursor = cur]
    BY DEF WalkCommit
  <1> HIDE DEF cur, ts, nxt, v
  <1>7. <<>> \in Seq(Logged) /\ <<>> \in Seq(BodySlot)
    OBVIOUS
  <1>8. v \in WalkType
    BY <1>2, <1>3, <1>5, <1>6, <1>7 DEF WalkType
  <1>9. /\ v.cursor = cur /\ v.seq = nxt /\ v.txns = ts /\ v.blocks = <<>>
        /\ v.stop = w.stop /\ v.revokes = <<>>
    BY <1>6 DEF WalkType
  <1> QED
    BY <1>2, <1>8, <1>9 DEF v, ts, nxt

\* A stopped walk stays as it is.
LEMMA StopDoes ==
    ASSUME NEW w \in WalkType
    PROVE  /\ WalkStop(w) \in WalkType
           /\ WalkStop(w).txns = w.txns /\ WalkStop(w).seq = w.seq
  BY DEF WalkStop, WalkType

\* The walk stays among such states.
LEMMA StepStays ==
    ASSUME NEW lg, GoodLog(lg), NEW w \in WalkType
    PROVE  WalkStep(lg, w) \in WalkType
  <1>1. w.cursor \in BodySlot
    BY DEF WalkType
  <1>2. lg[w.cursor] \in LogBlock
    BY <1>1 DEF GoodLog
  <1>3. WalkStop(w) \in WalkType /\ WalkRevoke(w) \in WalkType /\ WalkCommit(w) \in WalkType
    BY StopDoes, RevokeDoes, CommitDoes
  <1>4. ASSUME lg[w.cursor].kind = "descriptor"
        PROVE  WalkDescriptor(w, lg[w.cursor]) \in WalkType
    BY <1>2, <1>4, Kinds, DescriptorDoes
  <1> HIDE DEF WalkType
  <1> QED
    BY <1>3, <1>4 DEF WalkStep

\* The states of the walk, one after the other.
LEMMA WalkIs ==
    ASSUME NEW lg, GoodLog(lg), NEW sb, sb.start \in BodySlot, sb.seq \in Seqno
    PROVE  /\ Walk(lg, sb) \in [0 .. MaxLen -> WalkType]
           /\ Walk(lg, sb)[0] = WalkStart(sb)
           /\ \A n \in 1 .. MaxLen : Walk(lg, sb)[n] = WalkStep(lg, Walk(lg, sb)[n - 1])
  <1> DEFINE F == [p \in (1 .. MaxLen) \X WalkType |-> WalkStep(lg, p[2])]
             It(w) == WalkStep(lg, w)
             Is(f) == f = [n \in 0 .. MaxLen |-> IF n = 0 THEN WalkStart(sb) ELSE Eager(It, f[n - 1])]
  <1>1. MaxLen \in Nat
    BY LogGeometry
  <1>2. WalkStart(sb) \in WalkType
    BY DEF WalkStart, WalkType
  <1>3. ASSUME NEW k \in 1 .. MaxLen, NEW v \in WalkType
        PROVE  F[<<k, v>>] = WalkStep(lg, v) /\ F[<<k, v>>] \in WalkType
    BY StepStays
  <1>4. \A x : Eager(It, x) = It(x)
    BY DEF Eager
  <1>5. Walk(lg, sb) = CHOOSE f : Is(f)
    BY DEF Walk
  <1> HIDE DEF F, WalkType
  <1>6. StaysIn(MaxLen, WalkType, F)
    BY <1>3 DEF StaysIn
  <1>7. PICK g : g \in Stepwise(MaxLen, WalkType, WalkStart(sb), F)
    BY <1>1, <1>2, <1>6, StepwiseExists
  <1>8. g \in [0 .. MaxLen -> WalkType] /\ g[0] = WalkStart(sb)
        /\ \A k \in 1 .. MaxLen : g[k] = F[<<k, g[k - 1]>>]
    BY <1>7 DEF Stepwise
  <1>9. ASSUME NEW k \in 1 .. MaxLen PROVE g[k] = It(g[k - 1])
    <2>1. k - 1 \in 0 .. MaxLen
      BY <1>1
    <2>2. g[k - 1] \in WalkType
      BY <1>8, <2>1
    <2> QED
      BY <1>3, <1>8, <2>2
  <1> HIDE DEF It
  <1>10. Is(g)
    <2>1. ASSUME NEW k \in 0 .. MaxLen, k # 0 PROVE g[k] = Eager(It, g[k - 1])
      <3>1. k \in 1 .. MaxLen
        BY <1>1, <2>1
      <3> QED
        BY <1>4, <1>9, <3>1
    <2> QED
      BY <1>8, <2>1
  <1>11. Is(Walk(lg, sb))
    <2> HIDE DEF Is
    <2> QED
      BY <1>5, <1>10
  <1> DEFINE h == Walk(lg, sb)
  <1> HIDE DEF h
  <1>12. Is(h)
    BY <1>11 DEF h
  <1>13. h[0] = WalkStart(sb) /\ \A n \in 1 .. MaxLen : h[n] = It(h[n - 1])
    <2>1. h[0] = WalkStart(sb)
      BY <1>1, <1>12
    <2>2. ASSUME NEW n \in 1 .. MaxLen PROVE h[n] = Eager(It, h[n - 1])
      <3>1. n \in 0 .. MaxLen /\ n # 0
        BY <1>1
      <3> QED
        BY <1>12, <3>1
    <2> QED
      BY <1>4, <2>1, <2>2
  <1>14. DOMAIN h = 0 .. MaxLen /\ h = [n \in 0 .. MaxLen |-> h[n]]
    BY <1>12
  <1>15. \A n \in 0 .. MaxLen : h[n] \in WalkType
    <2> DEFINE S == {n \in 0 .. MaxLen : h[n] \in WalkType}
    <2>1. 0 \in S
      BY <1>1, <1>2, <1>13
    <2>2. ASSUME NEW k \in 1 .. MaxLen, k - 1 \in S PROVE k \in S
      <3>1. h[k - 1] \in WalkType /\ h[k] = It(h[k - 1]) /\ k \in 0 .. MaxLen
        BY <1>1, <1>13, <2>2
      <3> QED
        BY <3>1, StepStays DEF It
    <2> HIDE DEF S
    <2>3. 0 .. MaxLen \subseteq S
      BY <1>1, <2>1, <2>2, UpTo
    <2> QED
      BY <2>3 DEF S
  <1> QED
    BY <1>13, <1>14, <1>15 DEF h, It

-----------------------------------------------------------------------------
(* The log and the transactions in it. *)

\* A block that is there as it was written, a revoke block's checksum excepted.
SameBlock(x, y) == x = y \/ (y.kind = "revoke" /\ x = [y EXCEPT !.ok = FALSE])

\* The transactions follow each other.
Chained ==
    /\ live \in Seq(Txn)
    /\ \A i \in 1 .. Len(live) - 1 :
          /\ live[i + 1].at = live[i].at + Size(live[i])
          /\ live[i + 1].seq = live[i].seq + 1
    /\ live # <<>> => live[Len(live)].seq + 1 < SeqWrap
    /\ live # <<>> => LogHead - live[1].at <= Area

\* Their blocks are in the log.
Stored ==
    \A i \in 1 .. Len(live) : \A j \in 1 .. Size(live[i]) :
        SameBlock(log[Slot(live[i].at + j - 1)], Layout(live[i])[j])

\* No commit block carries the number n or a later one; and one with a bad
\* checksum is known to be bad.
Below(n) == \A s \in BodySlot : log[s].kind = "commit" =>
                (log[s].ok => log[s].seq < n) /\ (~log[s].ok => HasCsum)

\* A transaction in the log is one.
LEMMA LiveIs ==
    ASSUME Chained, NEW i \in 1 .. Len(live)
    PROVE  live[i] \in Txn /\ live[i].at \in Nat /\ live[i].seq \in Seqno
           /\ Size(live[i]) \in Nat \ {0} /\ i \in Nat
  <1>1. live[i] \in Txn
    BY ElementOfSeq DEF Chained
  <1> QED
    BY <1>1, TxnFields, LayoutIs

\* Later transactions are further on, and carry greater numbers.
LEMMA Ordered ==
    ASSUME Chained, NEW i \in 1 .. Len(live), NEW m \in 1 .. Len(live), i < m
    PROVE  live[i].at + Size(live[i]) <= live[m].at /\ live[i].seq < live[m].seq
  <1> DEFINE P(k) == live[i].at + Size(live[i]) <= live[k].at /\ live[i].seq < live[k].seq
             S == {d \in 0 .. Len(live) : i + 1 + d <= Len(live) => P(i + 1 + d)}
  <1>1. Len(live) \in Nat
    BY DEF Chained
  <1>2. ASSUME NEW k \in 1 .. Len(live) - 1
        PROVE  /\ live[k + 1].at = live[k].at + Size(live[k]) /\ live[k + 1].seq = live[k].seq + 1
               /\ live[k].at \in Nat /\ Size(live[k]) \in Nat \ {0} /\ live[k].seq \in Nat
    <2>1. k \in 1 .. Len(live)
      BY <1>1
    <2> QED
      BY <2>1, LiveIs DEF Chained, Seqno
  <1>3. 0 \in S
    <2>1. i + 1 <= Len(live) => P(i + 1)
      <3> SUFFICES ASSUME i + 1 <= Len(live) PROVE P(i + 1)
        OBVIOUS
      <3>1. i \in 1 .. Len(live) - 1
        BY <1>1
      <3> QED
        BY <1>2, <3>1
    <2>2. i + 1 + 0 = i + 1
      BY <1>1
    <2> HIDE DEF P
    <2> QED
      BY <1>1, <2>1, <2>2
  <1>4. ASSUME NEW d \in 1 .. Len(live), d - 1 \in S
        PROVE  d \in S
    <2> SUFFICES ASSUME i + 1 + d <= Len(live) PROVE P(i + 1 + d)
      BY <1>1
    <2> DEFINE k == i + d
    <2>1. k \in 1 .. Len(live) - 1 /\ i + 1 + (d - 1) = k /\ i + 1 + d = k + 1
      BY <1>1
    <2> HIDE DEF k
    <2>2. P(k)
      <3> HIDE DEF P
      <3> QED
        BY <1>1, <1>4, <2>1
    <2>3. P(k + 1)
      <3>1. /\ live[k + 1].at = live[k].at + Size(live[k]) /\ live[k + 1].seq = live[k].seq + 1
            /\ live[k].at \in Nat /\ Size(live[k]) \in Nat /\ live[k].seq \in Nat
        BY <1>2, <2>1
      <3>2. live[i].seq \in Nat /\ live[i].at \in Nat /\ Size(live[i]) \in Nat
        BY LiveIs DEF Seqno
      <3>3. live[i].at + Size(live[i]) <= live[k].at /\ live[i].seq < live[k].seq
        BY <2>2
      <3>4. live[i].at + Size(live[i]) <= live[k + 1].at
        BY <3>1, <3>2, <3>3
      <3>5. live[i].seq < live[k + 1].seq
        BY <3>1, <3>2, <3>3
      <3> QED
        BY <3>4, <3>5
    <2> HIDE DEF P
    <2> QED
      BY <2>1, <2>3
  <1> HIDE DEF S
  <1>5. 0 .. Len(live) \subseteq S
    BY <1>1, <1>3, <1>4, UpTo
  <1>6. m - i - 1 \in 0 .. Len(live)
    BY <1>1
  <1>7. m - i - 1 \in S /\ i + 1 + (m - i - 1) = m
    BY <1>1, <1>5, <1>6
  <1>8. P(m)
    <2> HIDE DEF P
    <2> QED
      BY <1>1, <1>7 DEF S
  <1> QED
    BY <1>8

\* All of them end before the head of the log.
LEMMA EndsBefore ==
    ASSUME Chained, NEW i \in 1 .. Len(live)
    PROVE  /\ live # <<>> /\ LogHead \in Nat
           /\ live[i].at + Size(live[i]) <= LogHead
           /\ live[1].at <= live[i].at
           /\ LogHead - live[1].at <= Area
           /\ 1 \in 1 .. Len(live) /\ Len(live) \in 1 .. Len(live)
  <1>1. Len(live) \in Nat \ {0} /\ live # <<>>
    BY DEF Chained
  <1>2. 1 \in 1 .. Len(live) /\ Len(live) \in 1 .. Len(live)
    BY <1>1
  <1>3. LogHead = live[Len(live)].at + Size(live[Len(live)])
    BY <1>1 DEF LogHead
  <1>4. live[i].at + Size(live[i]) <= LogHead /\ LogHead \in Nat
    <2>1. /\ live[i].at \in Nat /\ Size(live[i]) \in Nat
          /\ live[Len(live)].at \in Nat /\ Size(live[Len(live)]) \in Nat
      BY <1>2, LiveIs
    <2>2. CASE i < Len(live)
      <3>1. live[i].at + Size(live[i]) <= live[Len(live)].at
        BY <1>2, <2>2, Ordered
      <3> QED
        BY <1>3, <2>1, <3>1
    <2>3. CASE i = Len(live)
      BY <1>3, <2>1, <2>3
    <2> QED
      BY <1>1, <2>2, <2>3
  <1>5. live[1].at <= live[i].at
    <2>1. live[i].at \in Nat /\ live[1].at \in Nat /\ Size(live[1]) \in Nat
      BY <1>2, LiveIs
    <2>2. CASE i > 1
      <3>1. live[1].at + Size(live[1]) <= live[i].at
        BY <1>2, <2>2, Ordered
      <3> QED
        BY <2>1, <3>1
    <2> QED
      BY <2>1, <2>2
  <1>6. LogHead - live[1].at <= Area
    BY <1>1 DEF Chained
  <1> QED
    BY <1>1, <1>2, <1>4, <1>5, <1>6

-----------------------------------------------------------------------------
(* The walk over them. *)

\* What the walk makes of the first c blocks of a transaction, of its revokes,
\* and of all of it.
Collects(bs, c, t) ==
    /\ Len(bs) = c
    /\ \A k \in 1 .. c : bs[k].block = t.order[k] /\ Unescape(log[bs[k].slot], bs[k].escaped) = t.data

Revokes(rs, t) ==
    /\ \A k \in 1 .. Len(rs) : log[rs[k]].seq = t.seq /\ log[rs[k]].blocks = t.revokes
    /\ t.revokes # {} => rs # <<>>

Decodes(d, t) ==
    d.seq = t.seq /\ Collects(d.blocks, Len(t.order), t) /\ Revokes(d.revokes, t)

DecodedTo(ds, n) == Len(ds) = n /\ \A m \in 1 .. n : Decodes(ds[m], live[m])

\* The blocks that c of them and their descriptors take.
Taken(t, c) == IF t.split THEN 2 * c ELSE IF c = 0 THEN 0 ELSE c + 1

\* The walk at the beginning of transaction i, and in it, having read c blocks.
Begins(w, i) ==
    /\ ~w.stop /\ w.cursor = Slot(live[i].at) /\ w.seq = live[i].seq
    /\ w.blocks = <<>> /\ w.revokes = <<>>
    /\ DecodedTo(w.txns, i - 1)

Within(w, i, c) ==
    /\ ~w.stop /\ w.cursor = Slot(live[i].at + Head0(live[i]) + Taken(live[i], c))
    /\ w.seq = live[i].seq
    /\ Collects(w.blocks, c, live[i]) /\ Revokes(w.revokes, live[i])
    /\ live[i].split \/ c \in {0, Len(live[i].order)}
    /\ DecodedTo(w.txns, i - 1)

\* Where it is then.
Place(i, c) == live[i].at + Head0(live[i]) + Taken(live[i], c)

\* n iterations have taken it at least n blocks on its way.
OnWay(w, n) ==
    \E i \in 1 .. Len(live) :
        \/ Begins(w, i) /\ n <= live[i].at - live[1].at
        \/ \E c \in 0 .. Len(live[i].order) :
              Within(w, i, c) /\ n <= Place(i, c) - live[1].at

Past(w) == w.seq = NextSeq /\ DecodedTo(w.txns, Len(live))

\* The block at an offset of a transaction.
LEMMA BlockAt ==
    ASSUME Chained, Stored, NEW i \in 1 .. Len(live), NEW j \in Nat, j < Size(live[i])
    PROVE  SameBlock(log[Slot(live[i].at + j)], Layout(live[i])[j + 1])
  <1>1. Size(live[i]) \in Nat /\ live[i].at \in Nat
    BY LiveIs
  <1>2. j + 1 \in 1 .. Size(live[i]) /\ live[i].at + (j + 1) - 1 = live[i].at + j
    BY <1>1
  <1>3. SameBlock(log[Slot(live[i].at + (j + 1) - 1)], Layout(live[i])[j + 1])
    BY <1>2 DEF Stored
  <1> QED
    BY <1>2, <1>3

\* Two offsets of a transaction.
LEMMA DataAt ==
    ASSUME Chained, Stored, NEW i \in 1 .. Len(live), NEW j \in 1 .. Len(DescriptorsAndData(live[i]))
    PROVE  SameBlock(log[Slot(live[i].at + Head0(live[i]) + (j - 1))], DescriptorsAndData(live[i])[j])
  <1> DEFINE t == live[i]
             d == DescriptorsAndData(t)
             o == Head0(t) + (j - 1)
  <1>1. t \in Txn /\ t.at \in Nat
    BY LiveIs
  <1>2. d \in Seq(LogBlock) /\ Len(d) \in Nat
    BY <1>1, LayoutIs, LenProperties
  <1>3. Head0(t) \in 0 .. 1 /\ Size(t) = Head0(t) + Len(d) + 1 /\ Layout(t)[Head0(t) + j] = d[j]
    BY <1>1, LayoutIs
  <1>4. o \in Nat /\ o < Size(t) /\ o + 1 = Head0(t) + j /\ t.at + o = t.at + Head0(t) + (j - 1)
    BY <1>1, <1>2, <1>3
  <1> HIDE DEF o
  <1>5. SameBlock(log[Slot(t.at + o)], Layout(t)[o + 1])
    BY <1>4, BlockAt
  <1> QED
    BY <1>3, <1>4, <1>5

\* All the tags take all the descriptors and blocks.
LEMMA TakenAll ==
    ASSUME NEW t \in Txn
    PROVE  /\ Taken(t, Len(t.order)) = Len(DescriptorsAndData(t))
           /\ \A c \in 0 .. Len(t.order) : Taken(t, c) \in Nat
  <1>1. Len(t.order) \in Nat
    BY TxnFields
  <1>2. CASE t.split
    BY <1>1, <1>2, SplitIs DEF Taken
  <1>3. CASE ~t.split /\ t.order # <<>>
    <2>1. Len(t.order) # 0
      BY <1>3, TxnFields, EmptySeq
    <2> QED
      BY <1>1, <1>3, <2>1, UnsplitIs DEF Taken
  <1>4. CASE ~t.split /\ t.order = <<>>
    BY <1>4 DEF Taken, DescriptorsAndData
  <1> QED
    BY <1>2, <1>3, <1>4

\* A decoded transaction more.
LEMMA DecodesMore ==
    ASSUME NEW ds \in Seq(Found), NEW d \in Found, NEW i \in 1 .. Len(live), Chained,
           DecodedTo(ds, i - 1), Decodes(d, live[i])
    PROVE  DecodedTo(Append(ds, d), i)
  <1> DEFINE e == Append(ds, d)
  <1>1. i \in Nat /\ Len(ds) = i - 1
    BY LiveIs DEF DecodedTo
  <1>2. Len(e) = i /\ e[i] = d /\ \A m \in 1 .. i - 1 : e[m] = ds[m]
    BY <1>1, AppendProperties
  <1> HIDE DEF e
  <1>3. ASSUME NEW m \in 1 .. i PROVE Decodes(e[m], live[m])
    <2>1. CASE m = i
      BY <1>2, <2>1
    <2>2. CASE m # i
      <3>1. m \in 1 .. i - 1
        BY <1>1, <2>2
      <3> QED
        BY <1>2, <3>1 DEF DecodedTo
    <2> QED
      BY <2>1, <2>2
  <1> QED
    BY <1>2, <1>3 DEF DecodedTo, e

\* The revoke block is read.
LEMMA BeginsSteps ==
    ASSUME Chained, Stored, NEW w \in WalkType, NEW i \in 1 .. Len(live), Begins(w, i),
           live[i].revokes # {}
    PROVE  Within(WalkStep(log, w), i, 0)
  <1> DEFINE t == live[i]
             v == WalkRevoke(w)
             y == Revoke(t.seq, t.revokes)
             x == log[w.cursor]
  <1>1. t \in Txn /\ t.at \in Nat /\ Size(t) \in Nat \ {0}
    BY LiveIs
  <1>2. Head0(t) = 1 /\ Layout(t)[1] = y
    BY <1>1, LayoutIs DEF Head0
  <1>3. SameBlock(x, y)
    <2>1. 0 \in Nat /\ 0 < Size(live[i])
      BY <1>1
    <2>2. SameBlock(log[Slot(t.at + 0)], Layout(t)[0 + 1])
      BY <2>1, BlockAt
    <2>3. t.at + 0 = t.at /\ 0 + 1 = 1
      BY <1>1
    <2> QED
      BY <1>2, <2>2, <2>3 DEF Begins
  <1>4. x.kind = "revoke" /\ x.seq = t.seq /\ x.blocks = t.revokes
    BY <1>3 DEF SameBlock, Revoke
  <1>5. WalkStep(log, w) = v
    BY <1>4 DEF WalkStep, HasMagic, Begins
  <1>6. /\ v.cursor = Ahead(w.cursor, 1) /\ v.seq = w.seq /\ v.txns = w.txns
        /\ v.blocks = w.blocks /\ v.stop = w.stop /\ v.revokes = Append(w.revokes, w.cursor)
    BY RevokeDoes
  <1> HIDE DEF v, x, y
  <1>7. v.cursor = Slot(t.at + Head0(t) + Taken(t, 0))
    <2>1. Ahead(Slot(t.at), 1) = Slot(t.at + 1)
      BY <1>1, SlotAhead
    <2>2. Taken(t, 0) = 0 /\ t.at + Head0(t) + 0 = t.at + 1
      BY <1>1, <1>2 DEF Taken
    <2> QED
      BY <1>6, <2>1, <2>2 DEF Begins
  <1>8. Collects(v.blocks, 0, t)
    BY <1>6 DEF Begins, Collects
  <1>9. Revokes(v.revokes, t)
    <2>1. v.revokes = Append(<<>>, w.cursor)
      BY <1>6 DEF Begins
    <2>2. Len(v.revokes) = 1 /\ v.revokes[1] = w.cursor /\ v.revokes # <<>>
      BY <2>1
    <2> QED
      BY <1>4, <2>2 DEF Revokes, x
  <1> QED
    BY <1>5, <1>6, <1>7, <1>8, <1>9 DEF Begins, Within

\* A transaction without revokes begins with its first descriptor.
LEMMA BeginsWithin ==
    ASSUME Chained, NEW w, NEW i \in 1 .. Len(live), Begins(w, i), live[i].revokes = {}
    PROVE  Within(w, i, 0)
  <1>1. live[i].at \in Nat /\ Head0(live[i]) = 0 /\ Taken(live[i], 0) = 0
    BY LiveIs DEF Head0, Taken
  <1>2. live[i].at + Head0(live[i]) + Taken(live[i], 0) = live[i].at
    BY <1>1
  <1>3. Collects(w.blocks, 0, live[i]) /\ Revokes(w.revokes, live[i])
    BY DEF Begins, Collects, Revokes
  <1> QED
    BY <1>2, <1>3 DEF Begins, Within

\* The tags of a descriptor are read with the blocks behind it.
LEMMA CollectsMore ==
    ASSUME NEW t \in Txn, NEW w \in WalkType, NEW b, b.tags \in Seq(TagType), NEW c \in Nat,
           c + Len(b.tags) <= Len(t.order), Collects(w.blocks, c, t),
           \A k \in 1 .. Len(b.tags) : b.tags[k] = Tag(t.order[c + k], t.data),
           \A k \in 1 .. Len(b.tags) : log[Ahead(w.cursor, k)] = Escape(t.data)
    PROVE  Collects(WalkDescriptor(w, b).blocks, c + Len(b.tags), t)
  <1> DEFINE v == WalkDescriptor(w, b)
             n == Len(b.tags)
             Good(k) == v.blocks[k].block = t.order[k]
                        /\ Unescape(log[v.blocks[k].slot], v.blocks[k].escaped) = t.data
             e(k) == [block |-> b.tags[k].block, slot |-> Ahead(w.cursor, k),
                      escaped |-> b.tags[k].escaped]
  <1>0. /\ Len(v.blocks) = Len(w.blocks) + n
        /\ \A k \in 1 .. Len(w.blocks) : v.blocks[k] = w.blocks[k]
        /\ \A k \in 1 .. n : v.blocks[Len(w.blocks) + k] = e(k)
    BY DescriptorDoes
  <1>20. n \in Nat
    BY LenProperties
  <1> HIDE DEF v
  <1>1. Len(w.blocks) = c /\ Len(v.blocks) = c + n
    BY <1>0 DEF Collects
  <1>2. ASSUME NEW k \in 1 .. c PROVE Good(k)
    <2>1. v.blocks[k] = w.blocks[k]
      BY <1>0, <1>1
    <2> QED
      BY <2>1 DEF Collects
  <1>3. ASSUME NEW k \in 1 .. n PROVE Good(c + k)
    <2>1. v.blocks[c + k] = e(k)
      BY <1>0, <1>1
    <2>2. b.tags[k] = Tag(t.order[c + k], t.data)
      OBVIOUS
    <2>3. b.tags[k].block = t.order[c + k] /\ b.tags[k].escaped = HasMagic(t.data)
      BY <2>2 DEF Tag
    <2>4. log[Ahead(w.cursor, k)] = Escape(t.data)
      OBVIOUS
    <2>5. Unescape(Escape(t.data), HasMagic(t.data)) = t.data
      BY TxnFields, Escaping
    <2>6. /\ v.blocks[c + k].block = b.tags[k].block /\ v.blocks[c + k].slot = Ahead(w.cursor, k)
          /\ v.blocks[c + k].escaped = b.tags[k].escaped
      BY <2>1
    <2> QED
      BY <2>3, <2>4, <2>5, <2>6
  <1> HIDE DEF Good, n
  <1>4. ASSUME NEW k \in 1 .. c + n PROVE Good(k)
    <2>1. CASE k <= c
      <3>1. k \in 1 .. c
        BY <2>1
      <3> QED
        BY <1>2, <3>1
    <2>2. CASE ~(k <= c)
      <3>1. k - c \in 1 .. n /\ c + (k - c) = k
        BY <1>20, <2>2
      <3> QED
        BY <1>3, <3>1
    <2> QED
      BY <1>20, <2>1, <2>2
  <1> QED
    BY <1>1, <1>4 DEF Collects, Good, v, n

\* A descriptor with one tag is read.
LEMMA SplitSteps ==
    ASSUME Chained, Stored, NEW w \in WalkType, NEW i \in 1 .. Len(live),
           NEW c \in 0 .. Len(live[i].order), Within(w, i, c), c < Len(live[i].order), live[i].split
    PROVE  Within(WalkStep(log, w), i, c + 1)
  <1> DEFINE t == live[i]
             n == Len(t.order)
             d == DescriptorsAndData(t)
             y == Descriptor(t.seq, <<Tags(t)[c + 1]>>)
             x == log[w.cursor]
             v == WalkDescriptor(w, x)
             p == t.at + Head0(t)
  <1>1. t \in Txn /\ t.at \in Nat /\ n \in Nat /\ c \in Nat /\ c + 1 \in 1 .. n
    BY LiveIs, TxnFields
  <1>2. p \in Nat
    BY <1>1, LayoutIs
  <1>3. Len(d) = 2 * n /\ d[2 * (c + 1) - 1] = y /\ d[2 * (c + 1)] = Escape(t.data)
    BY <1>1, SplitIs
  <1>4. Tags(t)[c + 1] = Tag(t.order[c + 1], t.data) /\ Tags(t)[c + 1] \in TagType
    BY <1>1, TagsAre
  <1>5. Taken(t, c) = 2 * c /\ Taken(t, c + 1) = 2 * c + 2
    BY <1>1 DEF Taken
  <1>6. w.cursor = Slot(p + 2 * c)
    BY <1>5 DEF Within
  <1>7. SameBlock(x, y)
    <2>1. 2 * (c + 1) - 1 \in 1 .. Len(d) /\ (2 * (c + 1) - 1) - 1 = 2 * c
      BY <1>1, <1>3
    <2>2. SameBlock(log[Slot(p + ((2 * (c + 1) - 1) - 1))], d[2 * (c + 1) - 1])
      BY <2>1, DataAt
    <2> QED
      BY <1>3, <1>6, <2>1, <2>2
  <1>8. log[Slot(p + 2 * c + 1)] = Escape(t.data)
    <2>1. 2 * (c + 1) \in 1 .. Len(d) /\ p + (2 * (c + 1) - 1) = p + 2 * c + 1
      BY <1>1, <1>2, <1>3
    <2>2. SameBlock(log[Slot(p + (2 * (c + 1) - 1))], d[2 * (c + 1)])
      BY <2>1, DataAt
    <2>3. Escape(t.data).kind \in {"data", "escaped"}
      BY <1>1, TxnFields, Escaping
    <2> QED
      BY <1>3, <2>1, <2>2, <2>3 DEF SameBlock
  <1>9. x.kind = "descriptor" /\ x.seq = t.seq /\ x.tags = <<Tags(t)[c + 1]>>
    BY <1>7 DEF SameBlock, Descriptor
  <1>10. WalkStep(log, w) = v
    BY <1>9 DEF WalkStep, HasMagic, Within
  <1> DEFINE g == <<Tags(t)[c + 1]>>
  <1>11. g \in Seq(TagType) /\ Len(g) = 1 /\ g[1] = Tag(t.order[c + 1], t.data)
    BY <1>4
  <1> HIDE DEF g, x, y, d, p, t, v, TagType
  <1>12. x.tags = g
    BY <1>9 DEF g
  <1>20. x.tags \in Seq(TagType) /\ Len(x.tags) = 1
    BY <1>11, <1>12
  <1>13. /\ v \in WalkType
         /\ v.cursor = Ahead(w.cursor, Len(x.tags) + 1) /\ v.seq = w.seq /\ v.txns = w.txns
         /\ v.revokes = w.revokes /\ v.stop = w.stop
    BY <1>20, DescriptorDoes DEF v
  <1>14. Ahead(w.cursor, 1) = Slot(p + 2 * c + 1) /\ Ahead(w.cursor, 2) = Slot(p + 2 * c + 2)
    <2>1. 1 \in Nat /\ 2 \in Nat /\ p + 2 * c \in Nat
      BY <1>1, <1>2
    <2> QED
      BY <1>6, <2>1, SlotAhead
  <1>15. Collects(v.blocks, c + 1, t)
    <2>1. \A k \in 1 .. Len(x.tags) : x.tags[k] = Tag(t.order[c + k], t.data)
      BY <1>20, <1>11, <1>12
    <2>2. \A k \in 1 .. Len(x.tags) : log[Ahead(w.cursor, k)] = Escape(t.data)
      BY <1>20, <1>8, <1>14
    <2>3. Collects(w.blocks, c, t)
      BY DEF Within, t
    <2>4. c + Len(x.tags) <= Len(t.order)
      BY <1>20, <1>1
    <2>5. Collects(v.blocks, c + Len(x.tags), t)
      BY <1>1, <1>20, <2>1, <2>2, <2>3, <2>4, CollectsMore DEF v
    <2> QED
      BY <1>20, <2>5
  <1>16. v.cursor = Slot(t.at + Head0(t) + Taken(t, c + 1))
    <2>1. p + 2 * c + 2 = p + (2 * c + 2) /\ Len(x.tags) + 1 = 2
      BY <1>1, <1>2, <1>20
    <2> QED
      BY <1>5, <1>13, <1>14, <2>1 DEF p
  <1> QED
    BY <1>10, <1>13, <1>15, <1>16 DEF Within, t

\* The descriptor of all the tags is read.
LEMMA UnsplitSteps ==
    ASSUME Chained, Stored, NEW w \in WalkType, NEW i \in 1 .. Len(live),
           Within(w, i, 0), 0 < Len(live[i].order), ~live[i].split
    PROVE  Within(WalkStep(log, w), i, Len(live[i].order))
  <1> DEFINE t == live[i]
             n == Len(t.order)
             d == DescriptorsAndData(t)
             y == Descriptor(t.seq, Tags(t))
             x == log[w.cursor]
             v == WalkDescriptor(w, x)
             p == t.at + Head0(t)
             g == Tags(t)
  <1>1. t \in Txn /\ t.at \in Nat /\ n \in Nat \ {0}
    BY LiveIs, TxnFields
  <1>2. p \in Nat
    BY <1>1, LayoutIs
  <1>3. Len(d) = n + 1 /\ d[1] = y /\ \A k \in 1 .. n : d[k + 1] = Escape(t.data)
    <2>1. t.order # <<>>
      BY <1>1
    <2> QED
      BY <1>1, <2>1, UnsplitIs
  <1>4. g \in Seq(TagType) /\ Len(g) = n /\ \A k \in 1 .. n : g[k] = Tag(t.order[k], t.data)
    BY <1>1, TagsAre
  <1>5. Taken(t, 0) = 0 /\ Taken(t, n) = n + 1
    BY <1>1 DEF Taken
  <1>6. w.cursor = Slot(p)
    <2>1. p + 0 = p
      BY <1>2
    <2> QED
      BY <1>5, <2>1 DEF Within
  <1>7. SameBlock(x, y)
    <2>1. 1 \in 1 .. Len(d) /\ p + (1 - 1) = p
      BY <1>1, <1>2, <1>3
    <2>2. SameBlock(log[Slot(p + (1 - 1))], d[1])
      BY <2>1, DataAt
    <2> QED
      BY <1>3, <1>6, <2>1, <2>2
  <1>8. ASSUME NEW k \in 1 .. n PROVE log[Slot(p + k)] = Escape(t.data)
    <2>1. k + 1 \in 1 .. Len(d) /\ p + ((k + 1) - 1) = p + k
      BY <1>1, <1>2, <1>3
    <2>2. SameBlock(log[Slot(p + ((k + 1) - 1))], d[k + 1])
      BY <2>1, DataAt
    <2>3. Escape(t.data).kind \in {"data", "escaped"}
      BY <1>1, TxnFields, Escaping
    <2> QED
      BY <1>3, <2>1, <2>2, <2>3 DEF SameBlock
  <1>9. x.kind = "descriptor" /\ x.seq = t.seq /\ x.tags = g
    BY <1>7 DEF SameBlock, Descriptor
  <1>10. WalkStep(log, w) = v
    BY <1>9 DEF WalkStep, HasMagic, Within
  <1> HIDE DEF g, x, y, d, p, t, v, TagType
  <1>20. x.tags \in Seq(TagType) /\ Len(x.tags) = n
    BY <1>4, <1>9
  <1>13. /\ v \in WalkType
         /\ v.cursor = Ahead(w.cursor, Len(x.tags) + 1) /\ v.seq = w.seq /\ v.txns = w.txns
         /\ v.revokes = w.revokes /\ v.stop = w.stop
    BY <1>20, DescriptorDoes DEF v
  <1>14. ASSUME NEW k \in Nat PROVE Ahead(w.cursor, k) = Slot(p + k)
    BY <1>2, <1>6, SlotAhead
  <1>15. Collects(v.blocks, 0 + Len(x.tags), t)
    <2> DEFINE c == 0
    <2>1. \A k \in 1 .. Len(x.tags) : x.tags[k] = Tag(t.order[c + k], t.data)
      BY <1>1, <1>20, <1>4, <1>9
    <2>2. \A k \in 1 .. Len(x.tags) : log[Ahead(w.cursor, k)] = Escape(t.data)
      BY <1>1, <1>20, <1>8, <1>14
    <2>3. Collects(w.blocks, c, t)
      BY DEF Within, t
    <2>4. c + Len(x.tags) <= Len(t.order) /\ c \in Nat
      BY <1>1, <1>20
    <2> HIDE DEF c, n
    <2>5. Collects(v.blocks, c + Len(x.tags), t)
      BY <1>1, <1>20, <2>1, <2>2, <2>3, <2>4, CollectsMore DEF v
    <2> QED
      BY <2>5 DEF c
  <1>16. v.cursor = Slot(t.at + Head0(t) + Taken(t, n))
    <2>1. n + 1 \in Nat /\ Len(x.tags) + 1 = n + 1
      BY <1>1, <1>20
    <2> QED
      BY <1>5, <1>13, <1>14, <2>1 DEF p
  <1>17. Collects(v.blocks, n, t)
    <2>1. 0 + Len(x.tags) = n
      BY <1>1, <1>20
    <2> QED
      BY <1>15, <2>1
  <1> QED
    BY <1>10, <1>13, <1>16, <1>17 DEF Within, t

\* The commit block is read.
LEMMA CommitRead ==
    ASSUME Chained, Stored, NEW w \in WalkType, NEW i \in 1 .. Len(live),
           Within(w, i, Len(live[i].order))
    PROVE  /\ WalkStep(log, w) = WalkCommit(w)
           /\ DecodedTo(WalkStep(log, w).txns, i)
           /\ WalkStep(log, w).cursor = Slot(live[i].at + Size(live[i]))
           /\ live[i].at + Head0(live[i]) + Taken(live[i], Len(live[i].order)) + 1
                = live[i].at + Size(live[i])
  <1> DEFINE t == live[i]
             n == Len(t.order)
             v == WalkCommit(w)
             y == Commit(t.seq)
             x == log[w.cursor]
             o == Head0(t) + Taken(t, n)
             got == [seq |-> w.seq, blocks |-> w.blocks, revokes |-> w.revokes]
  <1>1. t \in Txn /\ t.at \in Nat /\ Size(t) \in Nat \ {0}
    BY LiveIs
  <1>2. o \in Nat /\ Size(t) = o + 1 /\ Layout(t)[Size(t)] = y
    <2>1. Head0(t) \in 0 .. 1 /\ Taken(t, n) = Len(DescriptorsAndData(t))
      BY <1>1, LayoutIs, TakenAll
    <2>2. Len(DescriptorsAndData(t)) \in Nat /\ Size(t) = Head0(t) + Len(DescriptorsAndData(t)) + 1
          /\ Layout(t)[Size(t)] = y
      BY <1>1, LayoutIs, LenProperties
    <2> QED
      BY <2>1, <2>2
  <1>3. t.at + Head0(t) + Taken(t, n) = t.at + o
    <2>1. Head0(t) \in 0 .. 1 /\ Taken(t, n) \in Nat
      <3>1. n \in 0 .. Len(t.order)
        BY <1>1, TxnFields
      <3> QED
        BY <1>1, <3>1, LayoutIs, TakenAll
    <2> QED
      BY <1>1, <2>1
  <1> HIDE DEF o
  <1>4. x = y
    <2>1. SameBlock(log[Slot(t.at + o)], Layout(t)[o + 1])
      BY <1>1, <1>2, BlockAt
    <2>2. w.cursor = Slot(t.at + o)
      BY <1>3 DEF Within
    <2> QED
      BY <1>2, <2>1, <2>2 DEF SameBlock, Commit
  <1>5. WalkStep(log, w) = v
    BY <1>4 DEF WalkStep, HasMagic, Within, Commit
  <1>6. v.cursor = Ahead(w.cursor, 1) /\ v.txns = Append(w.txns, got)
    BY CommitDoes
  <1>7. got \in Found /\ w.txns \in Seq(Found)
    BY DEF WalkType, Found
  <1>8. Decodes(got, t)
    BY DEF Within, Decodes
  <1> HIDE DEF got, v, x, y
  <1>9. DecodedTo(v.txns, i)
    BY <1>6, <1>7, <1>8, DecodesMore DEF Within
  <1>10. v.cursor = Slot(t.at + Size(t))
    <2>0. t.at + o \in Nat /\ 1 \in Nat /\ (t.at + o) + 1 = t.at + Size(t)
      BY <1>1, <1>2
    <2>1. Ahead(Slot(t.at + o), 1) = Slot((t.at + o) + 1)
      BY <2>0, SlotAhead
    <2> QED
      BY <1>3, <1>6, <2>0, <2>1 DEF Within
  <1>11. t.at + o + 1 = t.at + Size(t)
    BY <1>1, <1>2
  <1> QED
    BY <1>3, <1>5, <1>9, <1>10, <1>11 DEF v

\* Behind a commit block the next transaction begins, or nothing more counts.
LEMMA CommitSteps ==
    ASSUME Chained, Stored, NEW w \in WalkType, NEW i \in 1 .. Len(live),
           Within(w, i, Len(live[i].order))
    PROVE  /\ i < Len(live) => Begins(WalkStep(log, w), i + 1)
           /\ i = Len(live) => Past(WalkStep(log, w))
  <1> DEFINE v == WalkStep(log, w)
  <1>1. /\ v = WalkCommit(w) /\ DecodedTo(v.txns, i)
        /\ v.cursor = Slot(live[i].at + Size(live[i]))
    BY CommitRead
  <1>2. v.seq = SeqSucc(live[i].seq) /\ v.blocks = <<>> /\ v.revokes = <<>> /\ ~v.stop
    BY <1>1, CommitDoes DEF Within
  <1>3. live[i].seq \in Seqno /\ i \in Nat /\ Len(live) \in Nat
    BY LiveIs DEF Chained
  <1> HIDE DEF v
  <1>4. ASSUME i < Len(live) PROVE Begins(v, i + 1)
    <2>1. i \in 1 .. Len(live) - 1 /\ i + 1 \in 1 .. Len(live) /\ (i + 1) - 1 = i
      BY <1>3, <1>4
    <2>2. live[i + 1].at = live[i].at + Size(live[i]) /\ live[i + 1].seq = live[i].seq + 1
      BY <2>1 DEF Chained
    <2>3. live[i + 1].seq \in Seqno
      BY <2>1, LiveIs
    <2>4. live[i].seq + 1 < SeqWrap
      BY <2>2, <2>3, LogGeometry DEF Seqno
    <2>5. v.seq = live[i + 1].seq
      BY <1>2, <1>3, <2>2, <2>4, Successor
    <2> QED
      BY <1>1, <1>2, <2>1, <2>2, <2>5 DEF Begins
  <1>5. ASSUME i = Len(live) PROVE Past(v)
    <2>1. live # <<>>
      BY EndsBefore
    <2> QED
      BY <1>1, <1>2, <1>5, <2>1 DEF Past, NextSeq
  <1> QED
    BY <1>4, <1>5 DEF v

\* After the last transaction no commit block counts.
LEMMA PastSteps ==
    ASSUME GoodLog(log), Below(NextSeq), NEW w \in WalkType, Past(w)
    PROVE  Past(WalkStep(log, w))
  <1> DEFINE x == log[w.cursor]
  <1>1. w.cursor \in BodySlot /\ w.seq \in Seqno /\ w.seq = NextSeq
    BY DEF WalkType, Past
  <1>2. x \in LogBlock
    BY <1>1 DEF GoodLog
  <1>3. ASSUME x.kind = "commit", x.seq = w.seq PROVE HasCsum /\ ~x.ok
    <2>1. x.ok \in BOOLEAN
      BY <1>2, <1>3, Kinds
    <2>2. ~x.ok
      BY <1>1, <1>3 DEF Below, Seqno
    <2> QED
      BY <1>1, <1>3, <2>2 DEF Below
  <1>4. WalkStop(w).txns = w.txns /\ WalkStop(w).seq = w.seq
    BY StopDoes
  <1>5. WalkRevoke(w).txns = w.txns /\ WalkRevoke(w).seq = w.seq
    BY RevokeDoes
  <1>6. x.kind = "descriptor" => /\ WalkDescriptor(w, x).txns = w.txns
                                 /\ WalkDescriptor(w, x).seq = w.seq
    BY <1>2, Kinds, DescriptorDoes
  <1>7. x.kind \in {"data", "escaped", "descriptor", "revoke", "commit"}
    BY <1>2, Kinds
  <1>8. WalkStep(log, w).txns = w.txns /\ WalkStep(log, w).seq = w.seq
    <2>1. \/ WalkStep(log, w) = WalkStop(w)
          \/ WalkStep(log, w) = WalkRevoke(w)
          \/ WalkStep(log, w) = WalkDescriptor(w, x) /\ x.kind = "descriptor"
      BY <1>3, <1>7 DEF WalkStep, HasMagic
    <2> QED
      BY <1>4, <1>5, <1>6, <2>1
  <1> QED
    BY <1>8 DEF Past

\* The places of a transaction.
LEMMA PlaceIs ==
    ASSUME Chained, NEW i \in 1 .. Len(live), NEW c \in 0 .. Len(live[i].order)
    PROVE  Place(i, c) \in Nat
  <1>1. live[i] \in Txn /\ live[i].at \in Nat /\ Head0(live[i]) \in 0 .. 1
    BY LiveIs, LayoutIs
  <1>2. Taken(live[i], c) \in Nat
    BY <1>1, TakenAll
  <1> QED
    BY <1>1, <1>2 DEF Place

\* No block read: only the revoke block, if any, is behind.
LEMMA PlaceZero ==
    ASSUME Chained, NEW i \in 1 .. Len(live)
    PROVE  Place(i, 0) = live[i].at + Head0(live[i])
  <1>1. live[i] \in Txn /\ live[i].at \in Nat /\ Head0(live[i]) \in 0 .. 1
    BY LiveIs, LayoutIs
  <1>2. Taken(live[i], 0) = 0
    BY DEF Taken
  <1> QED
    BY <1>1, <1>2 DEF Place

\* With a descriptor for each, every block read takes two.
LEMMA PlaceSplit ==
    ASSUME Chained, NEW i \in 1 .. Len(live), NEW c \in Nat, live[i].split
    PROVE  Place(i, c + 1) = Place(i, c) + 2
  <1>1. live[i].at \in Nat /\ Head0(live[i]) \in 0 .. 1
    BY LiveIs, LayoutIs
  <1>2. Taken(live[i], c) = 2 * c /\ Taken(live[i], c + 1) = 2 * c + 2
    BY DEF Taken
  <1> DEFINE h == Head0(live[i])
             a == live[i].at
  <1>3. Place(i, c) = a + h + 2 * c /\ Place(i, c + 1) = a + h + (2 * c + 2)
    BY <1>2 DEF Place
  <1> HIDE DEF h, a
  <1>4. h \in Nat /\ a \in Nat
    BY <1>1 DEF h, a
  <1> QED
    BY <1>3, <1>4

\* With one descriptor, a block more than those read.
LEMMA PlaceUnsplit ==
    ASSUME Chained, NEW i \in 1 .. Len(live), NEW c \in Nat, ~live[i].split, c # 0
    PROVE  Place(i, c) = Place(i, 0) + c + 1
  <1>1. live[i].at \in Nat /\ Head0(live[i]) \in 0 .. 1
    BY LiveIs, LayoutIs
  <1>2. Taken(live[i], c) = c + 1
    BY DEF Taken
  <1>3. Place(i, 0) = live[i].at + Head0(live[i])
    BY PlaceZero
  <1> DEFINE h == Head0(live[i])
             a == live[i].at
  <1>4. Place(i, 0) = a + h /\ Place(i, c) = a + h + (c + 1) /\ h \in Nat /\ a \in Nat
    BY <1>1, <1>2, <1>3 DEF Place
  <1> HIDE DEF h, a
  <1> QED
    BY <1>4

\* Behind all its blocks but the last.
LEMMA PlaceAll ==
    ASSUME Chained, NEW i \in 1 .. Len(live)
    PROVE  Place(i, Len(live[i].order)) + 1 = live[i].at + Size(live[i])
  <1> DEFINE t == live[i]
             d == DescriptorsAndData(t)
  <1>1. t \in Txn /\ t.at \in Nat
    BY LiveIs
  <1>2. Head0(t) \in 0 .. 1 /\ d \in Seq(LogBlock) /\ Size(t) = Head0(t) + Len(d) + 1
    BY <1>1, LayoutIs
  <1>3. Taken(t, Len(t.order)) = Len(d) /\ Len(d) \in Nat
    BY <1>1, <1>2, TakenAll, LenProperties
  <1>4. Place(i, Len(t.order)) = t.at + Head0(t) + Len(d)
    BY <1>3 DEF Place
  <1> HIDE DEF t, d
  <1> QED
    BY <1>1, <1>2, <1>3, <1>4 DEF t

\* The commit block is always still ahead.
LEMMA PlaceLast ==
    ASSUME Chained, NEW i \in 1 .. Len(live), NEW c \in 0 .. Len(live[i].order)
    PROVE  Place(i, c) + 1 <= live[i].at + Size(live[i])
  <1> DEFINE m == Len(live[i].order)
             p == live[i].at + Head0(live[i])
  <1>1. m \in Nat /\ p \in Nat /\ c \in Nat
    <2>1. live[i] \in Txn /\ live[i].at \in Nat /\ Head0(live[i]) \in 0 .. 1
      BY LiveIs, LayoutIs
    <2> QED
      BY <2>1, TxnFields
  <1>2. m \in 0 .. m /\ Place(i, m) + 1 = live[i].at + Size(live[i])
    BY <1>1, PlaceAll
  <1>3. Place(i, c) = p + Taken(live[i], c) /\ Place(i, m) = p + Taken(live[i], m)
    BY DEF Place
  <1>4. Taken(live[i], c) \in Nat /\ Taken(live[i], m) \in Nat
    BY <1>2, LiveIs, TakenAll
  <1>5. Taken(live[i], c) <= Taken(live[i], m)
    BY <1>1 DEF Taken
  <1> DEFINE tc == Taken(live[i], c)
             tm == Taken(live[i], m)
  <1>6. Place(i, c) = p + tc /\ Place(i, m) = p + tm /\ tc \in Nat /\ tm \in Nat /\ tc <= tm
    BY <1>3, <1>4, <1>5
  <1> HIDE DEF p, tc, tm
  <1> QED
    BY <1>1, <1>2, <1>6

\* Within a transaction it is on its way.
LEMMA OnItsWay ==
    ASSUME NEW w, NEW n, NEW i \in 1 .. Len(live), NEW c \in 0 .. Len(live[i].order),
           Within(w, i, c), n <= Place(i, c) - live[1].at
    PROVE  OnWay(w, n)
  BY DEF OnWay

\* So it is where one begins.
LEMMA OnItsWayAt ==
    ASSUME NEW w, NEW n, NEW i \in 1 .. Len(live), Begins(w, i), n <= live[i].at - live[1].at
    PROVE  OnWay(w, n)
  BY DEF OnWay

\* Every iteration gets further.
LEMMA WithinGoesOn ==
    ASSUME Chained, Stored, NEW w \in WalkType, NEW n \in Nat, NEW i \in 1 .. Len(live),
           NEW c \in 0 .. Len(live[i].order), Within(w, i, c), n <= Place(i, c) - live[1].at
    PROVE  OnWay(WalkStep(log, w), n + 1) \/ Past(WalkStep(log, w))
  <1> DEFINE v == WalkStep(log, w)
             m == Len(live[i].order)
  <1>1. live[1].at \in Nat /\ m \in Nat /\ i \in Nat /\ Len(live) \in Nat
    <2>1. 1 \in 1 .. Len(live)
      BY EndsBefore
    <2> QED
      BY <2>1, LiveIs, TxnFields DEF Chained
  <1>2. Place(i, c) \in Nat
    BY PlaceIs
  <1> SUFFICES OnWay(v, n + 1) \/ Past(v)
    OBVIOUS
  <1> HIDE DEF v
  <1>3. CASE c = m
    <2>1. /\ i < Len(live) => Begins(v, i + 1)
          /\ i = Len(live) => Past(v)
      BY <1>3, CommitSteps DEF v
    <2>2. CASE i < Len(live)
      <3>1. i \in 1 .. Len(live) - 1 /\ i + 1 \in 1 .. Len(live)
        BY <1>1, <2>2
      <3>2. live[i + 1].at = live[i].at + Size(live[i])
        BY <3>1 DEF Chained
      <3>3. Place(i, m) + 1 = live[i].at + Size(live[i])
        BY PlaceAll
      <3> DEFINE p == Place(i, c)
                 a == live[1].at
      <3>4. live[i + 1].at = p + 1 /\ p \in Nat /\ a \in Nat /\ n <= p - a
        BY <1>1, <1>2, <1>3, <3>2, <3>3
      <3> HIDE DEF p, a
      <3>5. n + 1 <= live[i + 1].at - a
        BY <3>4
      <3> QED
        <4>1. PICK e \in 1 .. Len(live) : e = i + 1
          BY <3>1
        <4>2. PICK k : k = n + 1
          OBVIOUS
        <4>3. Begins(v, e) /\ k <= live[e].at - live[1].at
          BY <2>1, <2>2, <3>5, <4>1, <4>2 DEF a
        <4>4. OnWay(v, k)
          BY <4>3, OnItsWayAt
        <4> QED
          BY <4>2, <4>4
    <2>3. i < Len(live) \/ i = Len(live)
      BY <1>1
    <2> QED
      BY <2>1, <2>2, <2>3
  <1>4. CASE c < m /\ live[i].split
    <2>1. Within(v, i, c + 1)
      BY <1>4, SplitSteps DEF v
    <2>0. c \in Nat /\ c + 1 \in 0 .. m
      BY <1>1, <1>4
    <2>2. Place(i, c + 1) = Place(i, c) + 2
      BY <1>4, <2>0, PlaceSplit
    <2> DEFINE p == Place(i, c)
               a == live[1].at
    <2>3. Place(i, c + 1) = p + 2 /\ p \in Nat /\ a \in Nat /\ n <= p - a
      BY <1>1, <1>2, <2>2
    <2> HIDE DEF p, a
    <2>4. n + 1 <= Place(i, c + 1) - a
      BY <2>3
    <2>5. n + 1 <= Place(i, c + 1) - live[1].at
      BY <2>4 DEF a
    <2> HIDE DEF m
    <2>6. PICK e \in 0 .. m : e = c + 1
      BY <2>0
    <2>7. PICK k : k = n + 1
      OBVIOUS
    <2>8. Within(v, i, e) /\ k <= Place(i, e) - live[1].at
      BY <2>1, <2>5, <2>6, <2>7
    <2>9. OnWay(v, k)
      BY <2>8, OnItsWay DEF m
    <2> QED
      BY <2>7, <2>9
  <1>5. CASE c < m /\ ~live[i].split
    <2>1. c = 0 /\ 0 < m
      BY <1>1, <1>5 DEF Within
    <2>2. Within(v, i, m)
      BY <1>5, <2>1, UnsplitSteps DEF v
    <2>3. Place(i, m) = Place(i, 0) + m + 1 /\ m \in 0 .. m
      BY <1>1, <1>5, <2>1, PlaceUnsplit
    <2> DEFINE p == Place(i, c)
               a == live[1].at
    <2>4. Place(i, m) = p + m + 1 /\ p \in Nat /\ a \in Nat /\ n <= p - a
      BY <1>1, <1>2, <2>1, <2>3
    <2> HIDE DEF p, a
    <2>5. n + 1 <= Place(i, m) - a
      BY <1>1, <2>4
    <2>6. n + 1 <= Place(i, m) - live[1].at
      BY <2>5 DEF a
    <2>7. PICK k : k = n + 1
      OBVIOUS
    <2> HIDE DEF m
    <2>8. PICK e \in 0 .. m : e = m
      BY <2>3
    <2>9. OnWay(v, k)
      <3>1. Within(v, i, e) /\ k <= Place(i, e) - live[1].at
        BY <2>2, <2>6, <2>7, <2>8
      <3> QED
        BY <3>1, OnItsWay DEF m
    <2> QED
      BY <2>7, <2>9
  <1>6. c < m \/ c = m
    BY <1>1
  <1> QED
    BY <1>3, <1>4, <1>5, <1>6

\* From anywhere on its way the walk goes on, or has read everything.
LEMMA WayGoesOn ==
    ASSUME Chained, Stored, NEW w \in WalkType, NEW n \in Nat, OnWay(w, n)
    PROVE  OnWay(WalkStep(log, w), n + 1) \/ Past(WalkStep(log, w))
  <1> DEFINE v == WalkStep(log, w)
  <1>1. PICK i \in 1 .. Len(live) :
            \/ Begins(w, i) /\ n <= live[i].at - live[1].at
            \/ \E c \in 0 .. Len(live[i].order) :
                  Within(w, i, c) /\ n <= Place(i, c) - live[1].at
    BY DEF OnWay
  <1>2. ASSUME NEW c \in 0 .. Len(live[i].order), Within(w, i, c), n <= Place(i, c) - live[1].at
        PROVE  OnWay(v, n + 1) \/ Past(v)
    BY <1>2, WithinGoesOn
  <1>3. /\ live[1].at \in Nat /\ live[i].at \in Nat /\ 0 \in 0 .. Len(live[i].order)
        /\ Place(i, 0) = live[i].at + Head0(live[i])
    <2>1. 1 \in 1 .. Len(live)
      BY EndsBefore
    <2>2. Len(live[i].order) \in Nat
      BY LiveIs, TxnFields
    <2> QED
      BY <2>1, <2>2, LiveIs, PlaceZero
  <1> HIDE DEF v
  <1>4. ASSUME Begins(w, i), n <= live[i].at - live[1].at
        PROVE  OnWay(v, n + 1) \/ Past(v)
    <2> DEFINE x == live[i].at
               a == live[1].at
    <2>0. x \in Nat /\ a \in Nat /\ n <= x - a
      BY <1>3, <1>4
    <2>1. CASE live[i].revokes = {}
      <3>1. Within(w, i, 0) /\ Head0(live[i]) = 0
        BY <1>4, <2>1, BeginsWithin DEF Head0
      <3>2. Place(i, 0) = live[i].at
        BY <1>3, <3>1
      <3>3. n <= Place(i, 0) - live[1].at
        BY <1>4, <3>2
      <3> QED
        BY <1>2, <1>3, <3>1, <3>3
    <2>2. CASE live[i].revokes # {}
      <3>1. Within(v, i, 0) /\ Head0(live[i]) = 1
        BY <1>4, <2>2, BeginsSteps DEF v, Head0
      <3>2. Place(i, 0) = x + 1
        BY <1>3, <3>1
      <3> HIDE DEF x, a
      <3>3. n + 1 <= Place(i, 0) - a
        BY <2>0, <3>2
      <3>4. n + 1 <= Place(i, 0) - live[1].at
        BY <3>3 DEF a
      <3> QED
        BY <1>3, <3>1, <3>4, OnItsWay
    <2> QED
      BY <2>1, <2>2
  <1> QED
    BY <1>1, <1>2, <1>4 DEF v

\* The journal superblock tells where the transactions begin.
Tailed == jsb.seq \in Seqno /\ (live # <<>> => jsb.start = Slot(live[1].at) /\ jsb.seq = live[1].seq)

\* The scan finds exactly the transactions that are in the log.
LEMMA ScanIs ==
    ASSUME GoodLog(log), Chained, Stored, Below(NextSeq), Tailed,
           jsb.start \in {0} \cup BodySlot
    PROVE  /\ DecodedTo(Scan(log, jsb), Len(live))
           /\ Scan(log, jsb) \in Seq(Found)
  <1>1. CASE jsb.start = 0
    <2>1. live = <<>>
      <3> SUFFICES ASSUME live # <<>> PROVE FALSE
        OBVIOUS
      <3>1. Len(live) \in Nat \ {0} /\ 1 \in 1 .. Len(live)
        BY DEF Chained
      <3>2. Slot(live[1].at) \in BodySlot
        BY <3>1, LiveIs, SlotIn
      <3> QED
        BY <1>1, <3>2, AreaIs DEF Tailed, BodySlot
    <2>2. Scan(log, jsb) = <<>> /\ Len(live) = 0
      BY <1>1, <2>1 DEF Scan
    <2> QED
      BY <2>2 DEF DecodedTo
  <1>2. CASE jsb.start \in BodySlot
    <2> DEFINE w == Walk(log, jsb)
               S == {n \in 0 .. MaxLen : OnWay(w[n], n) \/ Past(w[n])}
    <2>1. /\ w \in [0 .. MaxLen -> WalkType] /\ w[0] = WalkStart(jsb)
          /\ \A n \in 1 .. MaxLen : w[n] = WalkStep(log, w[n - 1])
      BY <1>2, WalkIs DEF Tailed
    <2>2. MaxLen \in Nat /\ jsb.start # 0
      BY <1>2, LogGeometry, AreaIs DEF BodySlot
    <2>3. Scan(log, jsb) = w[MaxLen].txns
      BY <2>2 DEF Scan
    <2> HIDE DEF w
    <2>4. 0 \in S
      <3>0. 0 \in 0 .. MaxLen
        BY <2>2
      <3> DEFINE a == WalkStart(jsb)
      <3>1. /\ a.stop = FALSE /\ a.cursor = jsb.start /\ a.seq = jsb.seq
            /\ a.blocks = <<>> /\ a.revokes = <<>> /\ a.txns = <<>>
        BY DEF WalkStart
      <3>2. DecodedTo(a.txns, 0)
        BY <3>1 DEF DecodedTo
      <3> HIDE DEF a
      <3>3. CASE live = <<>>
        <4>1. Len(live) = 0 /\ NextSeq = jsb.seq
          BY <3>3 DEF NextSeq
        <4>2. Past(a)
          BY <3>1, <3>2, <4>1 DEF Past
        <4> QED
          BY <2>1, <3>0, <4>2 DEF a
      <3>4. CASE live # <<>>
        <4>1. 1 \in 1 .. Len(live) /\ live[1].at \in Nat
          <5>1. Len(live) \in Nat \ {0}
            BY <3>4 DEF Chained
          <5>2. 1 \in 1 .. Len(live)
            BY <5>1
          <5> QED
            BY <5>2, LiveIs
        <4>2. Begins(a, 1)
          <5>1. 1 - 1 = 0
            OBVIOUS
          <5> QED
            BY <3>1, <3>2, <3>4, <5>1 DEF Begins, Tailed
        <4>3. 0 <= live[1].at - live[1].at
          BY <4>1
        <4>4. OnWay(a, 0)
          BY <4>1, <4>2, <4>3 DEF OnWay
        <4> QED
          BY <2>1, <3>0, <4>4 DEF a
      <3> QED
        BY <3>3, <3>4
    <2>5. ASSUME NEW n \in 1 .. MaxLen, n - 1 \in S
          PROVE  n \in S
      <3>1. n - 1 \in Nat /\ n - 1 \in 0 .. MaxLen /\ n \in 0 .. MaxLen /\ (n - 1) + 1 = n
        BY <2>2
      <3>2. w[n - 1] \in WalkType /\ w[n] = WalkStep(log, w[n - 1])
        BY <2>1, <3>1
      <3>3. CASE OnWay(w[n - 1], n - 1)
        <4>1. OnWay(w[n], (n - 1) + 1) \/ Past(w[n])
          BY <3>1, <3>2, <3>3, WayGoesOn
        <4> QED
          BY <3>1, <4>1
      <3>4. CASE Past(w[n - 1])
        BY <3>1, <3>2, <3>4, PastSteps
      <3> QED
        BY <2>5, <3>3, <3>4
    <2> HIDE DEF S
    <2>6. MaxLen \in S
      <3>1. 0 .. MaxLen \subseteq S
        BY <2>2, <2>4, <2>5, UpTo
      <3> QED
        BY <2>2, <3>1
    <2>7. ASSUME OnWay(w[MaxLen], MaxLen) PROVE FALSE
      <3>1. PICK i \in 1 .. Len(live) :
                \/ MaxLen <= live[i].at - live[1].at
                \/ \E c \in 0 .. Len(live[i].order) :
                      Within(w[MaxLen], i, c) /\ MaxLen <= Place(i, c) - live[1].at
        BY <2>7 DEF OnWay
      <3> DEFINE x == live[i].at
                 z == Size(live[i])
                 a == live[1].at
      <3>2. /\ x \in Nat /\ z \in Nat \ {0} /\ x + z <= LogHead
            /\ LogHead - a <= Area /\ a \in Nat /\ LogHead \in Nat
        BY LiveIs, EndsBefore
      <3>3. MaxLen <= x - a \/ MaxLen <= x + z - 1 - a
        <4>1. CASE MaxLen <= live[i].at - live[1].at
          BY <4>1
        <4>2. ASSUME NEW c \in 0 .. Len(live[i].order), Within(w[MaxLen], i, c),
                     MaxLen <= Place(i, c) - live[1].at
              PROVE  MaxLen <= x + z - 1 - a
          <5>1. Place(i, c) + 1 <= x + z
            BY PlaceLast
          <5>2. Place(i, c) \in Nat
            BY PlaceIs
          <5> HIDE DEF x, z
          <5> QED
            BY <2>2, <3>2, <4>2, <5>1, <5>2
        <4> QED
          BY <3>1, <4>1, <4>2
      <3> HIDE DEF x, z, a, Area
      <3> QED
        BY <3>2, <3>3, AreaIs
    <2>8. Past(w[MaxLen])
      BY <2>6, <2>7 DEF S
    <2>9. w[MaxLen] \in WalkType
      BY <2>1, <2>2
    <2> QED
      BY <2>3, <2>8, <2>9 DEF Past, WalkType
  <1> QED
    BY <1>1, <1>2

-----------------------------------------------------------------------------
(* The revoke table. *)

RevokeSeqs(b) == {log[s].seq : s \in {x \in RevokeSlots(txns) : b \in log[x].blocks}}

\* The sequence numbers that revoke a block are those of the transactions that do.
LEMMA RevokeSeqsAre ==
    ASSUME Chained, txns \in Seq(Found), DecodedTo(txns, Len(live)), NEW b
    PROVE  RevokeSeqs(b) = {live[j].seq : j \in {m \in 1 .. Len(live) : b \in live[m].revokes}}
  <1> DEFINE T == {live[j].seq : j \in {m \in 1 .. Len(live) : b \in live[m].revokes}}
  <1>1. DOMAIN txns = 1 .. Len(live)
    BY DEF DecodedTo
  <1>2. ASSUME NEW m \in 1 .. Len(live)
        PROVE  /\ txns[m].revokes \in Seq(BodySlot)
               /\ Revokes(txns[m].revokes, live[m])
    <2>1. txns[m] \in Found
      BY <1>1, ElementOfSeq
    <2> QED
      BY <2>1 DEF DecodedTo, Decodes, Found
  <1>3. ASSUME NEW q \in RevokeSeqs(b) PROVE q \in T
    <2>1. PICK s \in RevokeSlots(txns) : q = log[s].seq /\ b \in log[s].blocks
      BY DEF RevokeSeqs
    <2>2. PICK m \in 1 .. Len(live) : s \in ToSet(txns[m].revokes)
      BY <1>1, <2>1 DEF RevokeSlots
    <2>3. PICK k \in DOMAIN txns[m].revokes : s = txns[m].revokes[k]
      BY <2>2 DEF ToSet
    <2>4. k \in 1 .. Len(txns[m].revokes)
      BY <1>2, <2>3
    <2>5. log[s].seq = live[m].seq /\ log[s].blocks = live[m].revokes
      BY <1>2, <2>3, <2>4 DEF Revokes
    <2> QED
      BY <2>1, <2>5
  <1>4. ASSUME NEW q \in T PROVE q \in RevokeSeqs(b)
    <2>1. PICK m \in 1 .. Len(live) : q = live[m].seq /\ b \in live[m].revokes
      OBVIOUS
    <2> DEFINE rs == txns[m].revokes
    <2>2. rs \in Seq(BodySlot) /\ rs # <<>> /\ Revokes(rs, live[m])
      BY <1>2, <2>1 DEF Revokes
    <2>3. 1 \in 1 .. Len(rs) /\ 1 \in DOMAIN rs
      <3> HIDE DEF rs
      <3> QED
        BY <2>2, EmptySeq, LenProperties
    <2>4. rs[1] \in RevokeSlots(txns)
      BY <1>1, <2>3 DEF RevokeSlots, ToSet
    <2>5. log[rs[1]].seq = q /\ b \in log[rs[1]].blocks
      BY <2>1, <2>2, <2>3 DEF Revokes
    <2> HIDE DEF rs
    <2> QED
      BY <2>4, <2>5 DEF RevokeSeqs
  <1> HIDE DEF T
  <1>5. RevokeSeqs(b) = T
    BY <1>3, <1>4
  <1> QED
    BY <1>5 DEF T

\* Replay skips what the same or a later transaction revokes.
LEMMA RevokedIs ==
    ASSUME Chained, txns \in Seq(Found), DecodedTo(txns, Len(live)), NEW b,
           NEW i \in 1 .. Len(live)
    PROVE  IsRevoked(RevokeTable(log, txns), b, live[i].seq)
             <=> \E j \in i .. Len(live) : b \in live[j].revokes
  <1> DEFINE tab == RevokeTable(log, txns)
             S == RevokeSeqs(b)
  <1>1. b \in DOMAIN tab <=> S # {}
    BY DEF RevokeTable, RevokeSeqs
  <1>2. S # {} => tab[b] = CHOOSE q \in S : \A r \in S : r <= q
    <2>1. S # {} => b \in UNION {log[s].blocks : s \in RevokeSlots(txns)}
      BY DEF RevokeSeqs
    <2> QED
      BY <2>1 DEF RevokeTable, RevokeSeqs
  <1>3. S = {live[j].seq : j \in {m \in 1 .. Len(live) : b \in live[m].revokes}}
    BY RevokeSeqsAre
  <1>4. SeqWrap \in Nat /\ Len(live) \in Nat /\ live[i].seq \in Nat
    BY LogGeometry, LiveIs DEF Chained, Seqno
  <1>5. \A j \in 1 .. Len(live) : live[j].seq \in Nat /\ live[j].seq <= SeqWrap
    BY <1>4, LiveIs DEF Seqno
  <1> HIDE DEF S, tab
  <1>6. S \in SUBSET Nat /\ \A x \in S : x <= SeqWrap
    BY <1>3, <1>5
  <1>7. S # {} => tab[b] \in S /\ \A r \in S : r <= tab[b]
    <2> SUFFICES ASSUME S # {} PROVE tab[b] \in S /\ \A r \in S : r <= tab[b]
      OBVIOUS
    <2>1. \E q \in S : \A r \in S : r <= q
      BY <1>4, <1>6, GreatestExists
    <2> QED
      BY <1>2, <2>1
  <1>8. ASSUME NEW j \in i .. Len(live), b \in live[j].revokes
        PROVE  b \in DOMAIN tab /\ tab[b] >= live[i].seq
    <2>1. j \in 1 .. Len(live)
      BY <1>4
    <2>2. live[j].seq \in S
      BY <1>3, <1>8, <2>1
    <2>3. live[i].seq <= live[j].seq
      <3>1. CASE i < j
        BY <1>5, <2>1, <3>1, Ordered
      <3>2. CASE i = j
        BY <1>4, <3>2
      <3> QED
        BY <1>4, <2>1, <3>1, <3>2
    <2>4. live[j].seq <= tab[b] /\ tab[b] \in Nat
      BY <1>6, <1>7, <2>2
    <2>5. live[j].seq \in Nat
      BY <1>5, <2>1
    <2> QED
      BY <1>1, <1>4, <2>2, <2>3, <2>4, <2>5
  <1>9. ASSUME b \in DOMAIN tab, tab[b] >= live[i].seq
        PROVE  \E j \in i .. Len(live) : b \in live[j].revokes
    <2>1. tab[b] \in S
      BY <1>1, <1>7, <1>9
    <2>2. PICK j \in 1 .. Len(live) : tab[b] = live[j].seq /\ b \in live[j].revokes
      BY <1>3, <2>1
    <2>3. ~(j < i)
      <3> SUFFICES ASSUME j < i PROVE FALSE
        OBVIOUS
      <3>1. live[j].seq < live[i].seq
        BY Ordered
      <3>2. live[j].seq \in Nat
        BY <1>5
      <3> QED
        BY <1>4, <1>9, <2>2, <3>1, <3>2
    <2>4. j \in i .. Len(live)
      BY <2>3
    <2> QED
      BY <2>2, <2>4
  <1> QED
    BY <1>8, <1>9 DEF IsRevoked, tab

\* A copy of a block that no same or later transaction revokes has a last
\* writer, and that one is replayed.
HasCopy(b) == \E i \in 1 .. Len(live) : Survives(i, b)

\* If anyone writes b and nobody revokes it from then on, there is a copy to keep.
LEMMA LastWriter ==
    ASSUME Chained, NEW b, NEW i \in 1 .. Len(live), b \in Range(live[i].order),
           \A j \in i .. Len(live) : b \notin live[j].revokes
    PROVE  HasCopy(b)
  <1> DEFINE S == {m \in i .. Len(live) : b \in Range(live[m].order)}
  <1>1. Len(live) \in Nat /\ i \in S /\ S \in SUBSET Nat /\ \A x \in S : x <= Len(live)
    BY DEF Chained
  <1>2. PICK m \in S : \A y \in S : y <= m
    <2> HIDE DEF S
    <2> QED
      BY <1>1, GreatestExists
  <1>3. m \in 1 .. Len(live) /\ m \in i .. Len(live) /\ b \in Range(live[m].order)
    BY <1>1, <1>2
  <1>4. \A j \in m .. Len(live) : b \notin live[j].revokes
    <2>1. \A j \in m .. Len(live) : j \in i .. Len(live)
      BY <1>3
    <2> QED
      BY <2>1
  <1>5. ASSUME NEW j \in m + 1 .. Len(live) PROVE b \notin Range(live[j].order)
    <2>1. j \in i .. Len(live) /\ ~(j <= m)
      BY <1>3
    <2> QED
      BY <1>2, <2>1
  <1> QED
    BY <1>3, <1>4, <1>5 DEF Survives, HasCopy

\* There is one copy to keep at most.
LEMMA OneCopy ==
    ASSUME NEW b, NEW i \in 1 .. Len(live), NEW j \in 1 .. Len(live), Len(live) \in Nat,
           Survives(i, b), Survives(j, b)
    PROVE  i = j
  <1>1. ASSUME NEW x \in 1 .. Len(live), NEW y \in 1 .. Len(live), Survives(x, b), Survives(y, b), x < y
        PROVE  FALSE
    <2>1. y \in x + 1 .. Len(live)
      BY <1>1
    <2> QED
      BY <1>1, <2>1 DEF Survives
  <1>2. ~(i < j)
    BY <1>1
  <1>3. ~(j < i)
    BY <1>1
  <1> QED
    BY <1>2, <1>3

-----------------------------------------------------------------------------
(* Recovery: the invariant. *)

Superblock == [kind : {"jsb"}, seq : Seqno, start : {0} \cup BodySlot]

\* Types.
Shape ==
    /\ log = [s \in LogSlot |-> log[s]] /\ GoodLog(log)
    /\ jsb \in Superblock
    /\ home \in [Block -> DataBlock] /\ atCrash \in [Block -> DataBlock]
    /\ phase \in {"running", "dirty", "replaying", "clean", "failed"}
    /\ txns \in Seq(Found)
    /\ at \in [txn : Nat \ {0}, block : Nat \ {0}]
    /\ count \in [txns : Nat, crashes : Nat]

\* The log holds the live transactions, and nothing that could be taken for
\* the next one.
Held ==
    /\ Chained /\ Stored /\ Below(NextSeq)
    /\ NextSeq <= FirstSeq + count.txns /\ count.txns <= MaxTxns
    /\ phase # "clean" => Tailed
    /\ phase = "clean" => jsb.seq = NextSeq

\* Blocks that no transaction is to write are as the crash left them.
Kept == phase \in {"dirty", "replaying", "clean"} =>
            \A b \in Block : ~HasCopy(b) => home[b] = atCrash[b]

\* Blocks before the position of the replay loops are as they are to be.
Reached(i, b) == \/ i < at.txn
                 \/ i = at.txn /\ (\E k \in 1 .. Len(live[i].order) : k < at.block /\ live[i].order[k] = b)

Replayed == phase \in {"replaying", "clean"} =>
    \A b \in Block, i \in 1 .. Len(live) :
        Survives(i, b) /\ (phase = "replaying" => Reached(i, b)) => home[b] = live[i].data

\* The scan finds transactions, and the revoke blocks among them are good.
Trusted == Scan(log, jsb) # <<>> /\ ~RevokeTableFails(log, Scan(log, jsb))

\* Recovery writes only after it has found that out.
Careful ==
    /\ phase = "dirty" => (home = atCrash \/ Trusted)
    /\ phase = "replaying" => Trusted /\ live # <<>> /\ DecodedTo(txns, Len(live))
    /\ phase # "replaying" => at = LoopStart
    /\ phase = "failed" => home = atCrash /\ jsb.start # 0

IInv == Shape /\ Held /\ Kept /\ Replayed /\ Careful

\* What the log holds stays while only the home blocks and the phase change.
LEMMA HeldStays ==
    ASSUME Held, UNCHANGED <<log, jsb, live, count>>,
           phase' = "clean" => jsb.seq = NextSeq, phase' # "clean" => Tailed
    PROVE  Held'
  <1>1. NextSeq' = NextSeq /\ LogHead' = LogHead
    BY DEF NextSeq, LogHead
  <1>2. Chained'
    BY <1>1 DEF Held, Chained
  <1>3. Stored'
    BY DEF Held, Stored
  <1>4. Below(NextSeq)'
    BY <1>1 DEF Held, Below
  <1>5. Tailed' = Tailed
    BY DEF Tailed
  <1> QED
    BY <1>1, <1>2, <1>3, <1>4, <1>5 DEF Held

\* What the scan finds.
LEMMA Found1 ==
    ASSUME Shape, Held, phase # "clean"
    PROVE  DecodedTo(Scan(log, jsb), Len(live)) /\ Scan(log, jsb) \in Seq(Found)
  <1>1. jsb.start \in {0} \cup BodySlot
    BY DEF Shape, Superblock
  <1> QED
    BY <1>1, ScanIs DEF Shape, Held

\* The scan finds the transactions, or nothing to replay, or refuses.
LEMMA ScanKeeps ==
    ASSUME IInv, RecoverScan
    PROVE  IInv'
  <1> DEFINE found == Scan(log, jsb)
  <1>1. phase = "dirty" /\ UNCHANGED <<log, jsb, home, live, at, atCrash, count>>
    BY DEF RecoverScan
  <1>2. DecodedTo(found, Len(live)) /\ found \in Seq(Found)
    BY <1>1, Found1 DEF IInv
  <1>3. \/ found = <<>> /\ phase' = "clean" /\ txns' = txns
        \/ found # <<>> /\ RevokeTableFails(log, found) /\ phase' = "failed" /\ txns' = txns
        \/ found # <<>> /\ ~RevokeTableFails(log, found) /\ phase' = "replaying" /\ txns' = found
    BY DEF RecoverScan
  <1>4. found = <<>> <=> live = <<>>
    <2>1. Len(found) = Len(live) /\ live \in Seq(Txn)
      BY <1>2 DEF DecodedTo, IInv, Held, Chained
    <2> HIDE DEF found
    <2> QED
      BY <1>2, <2>1, EmptySeq
  <1>5. Len(live) \in Nat /\ (live = <<>> => Len(live) = 0)
    BY DEF IInv, Held, Chained
  <1>6. Shape'
    <2>1. txns' \in Seq(Found) /\ phase' \in {"running", "dirty", "replaying", "clean", "failed"}
      BY <1>2, <1>3 DEF IInv, Shape
    <2> QED
      BY <1>1, <2>1 DEF IInv, Shape, GoodLog
  <1>7. Held'
    <2>1. Tailed
      BY <1>1 DEF IInv, Held
    <2>2. phase' = "clean" => jsb.seq = NextSeq
      BY <1>3, <1>4 DEF NextSeq
    <2> QED
      BY <1>1, <2>1, <2>2, HeldStays DEF IInv
  <1>8. \A i, b : Survives(i, b)' <=> Survives(i, b)
    BY <1>1 DEF Survives
  <1>9. Kept'
    BY <1>1, <1>8 DEF IInv, Kept, HasCopy
  <1>10. Replayed'
    <2>1. CASE phase' = "clean"
      <3>1. 1 .. Len(live) = {}
        BY <1>3, <1>4, <1>5, <2>1
      <3> QED
        BY <1>1, <3>1 DEF Replayed
    <2>2. CASE phase' = "replaying"
      <3>1. at.txn = 1 /\ at.block = 1
        BY <1>1 DEF IInv, Careful, LoopStart
      <3>2. ASSUME NEW b, NEW i \in 1 .. Len(live) PROVE ~Reached(i, b)
        BY <1>5, <3>1 DEF Reached
      <3>3. ASSUME NEW b, NEW i PROVE Reached(i, b)' <=> Reached(i, b)
        BY <1>1 DEF Reached
      <3> QED
        BY <1>1, <2>2, <3>2, <3>3 DEF Replayed
    <2>3. CASE phase' = "failed"
      BY <2>3 DEF Replayed
    <2> QED
      BY <1>3, <2>1, <2>2, <2>3
  <1>11. Careful'
    <2>1. at' = LoopStart
      BY <1>1 DEF IInv, Careful
    <2>2. Trusted' = Trusted
      BY <1>1 DEF Trusted
    <2>3. CASE phase' = "clean"
      BY <2>1, <2>3 DEF Careful
    <2>4. CASE phase' = "failed"
      <3>1. ~Trusted
        BY <1>3, <2>4 DEF Trusted
      <3>2. home = atCrash
        BY <1>1, <3>1 DEF IInv, Careful
      <3>3. jsb.start # 0
        BY <1>3, <2>4 DEF Scan
      <3> QED
        BY <1>1, <2>1, <2>4, <3>2, <3>3 DEF Careful
    <2>5. CASE phase' = "replaying"
      <3>1. Trusted
        BY <1>3, <2>5 DEF Trusted
      <3>2. live # <<>> /\ txns' = found
        BY <1>3, <1>4, <2>5
      <3>3. DecodedTo(txns, Len(live))'
        BY <1>1, <1>2, <3>2 DEF DecodedTo, Decodes, Collects, Revokes
      <3> QED
        BY <1>1, <2>2, <2>5, <3>1, <3>2, <3>3 DEF Careful
    <2> QED
      BY <1>3, <2>3, <2>4, <2>5
  <1> QED
    BY <1>6, <1>7, <1>9, <1>10, <1>11 DEF IInv

\* The replay's block is a block of the transaction.
LEMMA ReplaysWhat ==
    ASSUME IInv, phase = "replaying", at.txn \in DOMAIN txns, at.block \in DOMAIN txns[at.txn].blocks
    PROVE  LET i == at.txn
               lb == txns[at.txn].blocks[at.block]
           IN  /\ i \in 1 .. Len(live) /\ at.block \in 1 .. Len(live[i].order)
               /\ lb.block = live[i].order[at.block] /\ lb.block \in Block
               /\ Copy(lb) = live[i].data /\ live[i].data \in DataBlock
               /\ txns[at.txn].seq = live[i].seq
  <1>1. DecodedTo(txns, Len(live)) /\ Chained /\ txns \in Seq(Found)
    BY DEF IInv, Careful, Shape, Held
  <1> DEFINE i == at.txn
             k == at.block
             bs == txns[i].blocks
  <1>2. DOMAIN txns = 1 .. Len(live)
    BY <1>1 DEF DecodedTo
  <1>3. i \in 1 .. Len(live)
    BY <1>2
  <1>4. Decodes(txns[i], live[i])
    BY <1>1, <1>3 DEF DecodedTo
  <1>5. txns[i] \in Found
    BY <1>1, <1>2, <1>3, ElementOfSeq
  <1>6. bs \in Seq(Logged)
    BY <1>5 DEF Found
  <1>7. Collects(bs, Len(live[i].order), live[i]) /\ txns[i].seq = live[i].seq
    BY <1>4 DEF Decodes
  <1> DEFINE lb == bs[k]
  <1>8. k \in 1 .. Len(live[i].order)
    BY <1>6, <1>7 DEF Collects
  <1>9. lb.block = live[i].order[k] /\ Unescape(log[lb.slot], lb.escaped) = live[i].data
    BY <1>7, <1>8 DEF Collects
  <1>10. live[i] \in Txn
    BY <1>1, <1>3, LiveIs
  <1>11. live[i].order[k] \in Block /\ live[i].data \in DataBlock
    BY <1>8, <1>10, TxnFields
  <1> QED
    BY <1>3, <1>7, <1>8, <1>9, <1>11 DEF Copy

\* A block is replayed, or left out as revoked.
LEMMA BlockKeeps ==
    ASSUME IInv, RecoverBlock
    PROVE  IInv'
  <1> DEFINE i == at.txn
             k == at.block
             lb == txns[at.txn].blocks[at.block]
             c == lb.block
             t == live[i]
             skip == IsRevoked(RevokeTable(log, txns), lb.block, txns[at.txn].seq)
  <1>1. /\ phase = "replaying" /\ UNCHANGED <<log, jsb, live, phase, txns, atCrash, count>>
        /\ at.txn \in DOMAIN txns /\ at.block \in DOMAIN txns[at.txn].blocks
        /\ home' = IF skip THEN home ELSE [home EXCEPT ![c] = Copy(lb)]
        /\ at' = [at EXCEPT !.block = @ + 1]
    BY DEF RecoverBlock
  <1>2. /\ i \in 1 .. Len(live) /\ k \in 1 .. Len(t.order) /\ c = t.order[k] /\ c \in Block
        /\ Copy(lb) = t.data /\ t.data \in DataBlock /\ txns[at.txn].seq = t.seq
    BY <1>1, ReplaysWhat
  <1>3. skip <=> \E j \in i .. Len(live) : c \in live[j].revokes
    <2>1. Chained /\ txns \in Seq(Found) /\ DecodedTo(txns, Len(live))
      BY <1>1 DEF IInv, Shape, Held, Careful
    <2> QED
      BY <1>2, <2>1, RevokedIs
  <1>4. /\ home \in [Block -> DataBlock] /\ at \in [txn : Nat \ {0}, block : Nat \ {0}]
        /\ Chained /\ live \in Seq(Txn) /\ Len(live) \in Nat
    BY DEF IInv, Shape, Held, Chained
  <1> HIDE DEF i, k, c, t, skip, lb
  <1>5. /\ home' \in [Block -> DataBlock]
        /\ \A b \in Block : b # c => home'[b] = home[b]
        /\ skip => home' = home
        /\ ~skip => home'[c] = t.data
    BY <1>1, <1>2, <1>4
  <1>6. at' \in [txn : Nat \ {0}, block : Nat \ {0}] /\ at'.txn = i /\ at'.block = k + 1
    BY <1>1, <1>4 DEF i, k
  <1>7. c \in Range(live[i].order)
    <2>1. live[i] \in Txn
      BY <1>2, <1>4, LiveIs
    <2>2. k \in DOMAIN live[i].order
      BY <1>2, <2>1, TxnFields DEF t
    <2> QED
      BY <1>2, <2>2 DEF t, Range
  <1>8. ~skip => HasCopy(c)
    BY <1>2, <1>3, <1>4, <1>7, LastWriter
  <1>9. ASSUME NEW b, NEW j PROVE Survives(j, b)' <=> Survives(j, b)
    BY <1>1 DEF Survives
  <1>10. Shape'
    BY <1>1, <1>5, <1>6 DEF IInv, Shape, GoodLog
  <1>11. Held'
    BY <1>1, HeldStays DEF IInv, Held
  <1>12. Kept'
    <2> SUFFICES ASSUME NEW b \in Block, ~HasCopy(b)' PROVE home'[b] = atCrash'[b]
      BY DEF Kept
    <2>1. ~HasCopy(b)
      BY <1>1, <1>9 DEF HasCopy
    <2>2. home[b] = atCrash[b]
      BY <1>1, <2>1 DEF IInv, Kept
    <2>3. home'[b] = home[b]
      BY <1>5, <1>8, <2>1
    <2> QED
      BY <1>1, <2>2, <2>3
  <1>13. Replayed'
    <2> SUFFICES ASSUME NEW b \in Block, NEW j \in 1 .. Len(live), Survives(j, b), Reached(j, b)'
                 PROVE  home'[b] = live[j].data
      BY <1>1, <1>9 DEF Replayed
    <2>1. CASE j = i /\ b = c
      <3>1. ~skip
        BY <1>3, <2>1 DEF Survives
      <3> QED
        BY <1>5, <2>1, <3>1 DEF t
    <2>2. CASE j = i /\ b # c
      <3>1. PICK m \in 1 .. Len(live[j].order) : m < k + 1 /\ live[j].order[m] = b
        BY <1>1, <1>2, <1>6, <2>2 DEF Reached
      <3>2. m < k
        <4>1. m # k
          BY <1>2, <2>2, <3>1 DEF t
        <4> QED
          BY <1>2, <3>1, <4>1
      <3>3. Reached(j, b)
        BY <2>2, <3>1, <3>2 DEF Reached, i, k
      <3> QED
        BY <1>1, <1>5, <2>2, <3>3 DEF IInv, Replayed
    <2>3. CASE j # i
      <3>1. j < i
        BY <1>6, <2>3 DEF Reached
      <3>2. Reached(j, b)
        BY <3>1 DEF Reached, i
      <3>3. home[b] = live[j].data
        BY <1>1, <3>2 DEF IInv, Replayed
      <3>4. b # c
        <4>1. i \in j + 1 .. Len(live)
          BY <1>2, <3>1
        <4> QED
          BY <1>7, <4>1 DEF Survives
      <3> QED
        BY <1>5, <3>3, <3>4
    <2> QED
      BY <2>1, <2>2, <2>3
  <1>14. Careful'
    <2>1. Trusted' = Trusted
      BY <1>1 DEF Trusted
    <2>2. DecodedTo(txns, Len(live))' = DecodedTo(txns, Len(live))
      BY <1>1 DEF DecodedTo, Decodes, Collects, Revokes
    <2> QED
      BY <1>1, <2>1, <2>2 DEF IInv, Careful
  <1> QED
    BY <1>10, <1>11, <1>12, <1>13, <1>14 DEF IInv

\* The replay goes on to the next transaction.
LEMMA TxnKeeps ==
    ASSUME IInv, RecoverTxn
    PROVE  IInv'
  <1> DEFINE i == at.txn
  <1>1. /\ phase = "replaying" /\ UNCHANGED <<log, jsb, home, live, phase, txns, atCrash, count>>
        /\ at.txn \in DOMAIN txns /\ at.block \notin DOMAIN txns[at.txn].blocks
        /\ at' = [txn |-> at.txn + 1, block |-> 1]
    BY DEF RecoverTxn
  <1>2. /\ at \in [txn : Nat \ {0}, block : Nat \ {0}] /\ at.block \in Nat \ {0} /\ i \in Nat \ {0}
        /\ Chained /\ live \in Seq(Txn) /\ Len(live) \in Nat
    BY DEF IInv, Shape, Held, Chained
  <1>3. at' \in [txn : Nat \ {0}, block : Nat \ {0}] /\ at'.txn = i + 1
    BY <1>1, <1>2
  <1>4. i \in 1 .. Len(live) /\ Len(live[i].order) < at.block
    <2>1. DecodedTo(txns, Len(live)) /\ txns \in Seq(Found)
      BY <1>1 DEF IInv, Careful, Shape
    <2>2. i \in 1 .. Len(live) /\ txns[i] \in Found
      BY <1>1, <2>1, ElementOfSeq DEF DecodedTo
    <2>3. Collects(txns[i].blocks, Len(live[i].order), live[i])
      BY <2>1, <2>2 DEF DecodedTo, Decodes
    <2>4. txns[i].blocks \in Seq(Logged)
      BY <2>2 DEF Found
    <2>5. Len(live[i].order) \in Nat
      BY <1>2, <2>2, LiveIs, TxnFields
    <2> QED
      BY <1>1, <1>2, <2>2, <2>3, <2>4, <2>5 DEF Collects
  <1> HIDE DEF i
  <1>5. ASSUME NEW b, NEW j PROVE Survives(j, b)' <=> Survives(j, b)
    BY <1>1 DEF Survives
  <1>6. Shape'
    BY <1>1, <1>3 DEF IInv, Shape, GoodLog
  <1>7. Held'
    BY <1>1, HeldStays DEF IInv, Held
  <1>8. Kept'
    BY <1>1, <1>5 DEF IInv, Kept, HasCopy
  <1>9. Replayed'
    <2> SUFFICES ASSUME NEW b \in Block, NEW j \in 1 .. Len(live), Survives(j, b), Reached(j, b)'
                 PROVE  home[b] = live[j].data
      BY <1>1, <1>5 DEF Replayed
    <2>1. j = i \/ j < i
      <3>1. j < i + 1 \/ j = i + 1
        BY <1>3 DEF Reached
      <3>2. CASE j = i + 1
        <4>1. at'.block = 1
          BY <1>1
        <4>2. ~(j < at'.txn)
          BY <1>2, <1>3, <3>2
        <4>3. PICK k \in 1 .. Len(live'[j].order) : k < at'.block
          BY <4>2 DEF Reached
        <4> QED
          BY <4>1, <4>3
      <3> QED
        BY <1>2, <3>1, <3>2
    <2>2. Reached(j, b)
      <3>1. CASE j = i
        <4>1. live[i] \in Txn
          BY <1>2, <1>4, LiveIs
        <4>2. PICK k \in DOMAIN live[i].order : live[i].order[k] = b
          BY <3>1 DEF Survives, Range
        <4>3. k \in 1 .. Len(live[i].order) /\ k < at.block
          BY <1>2, <1>4, <4>1, <4>2, TxnFields
        <4> QED
          BY <3>1, <4>2, <4>3 DEF Reached, i
      <3>2. CASE j < i
        BY <3>2 DEF Reached, i
      <3> QED
        BY <2>1, <3>1, <3>2
    <2> QED
      BY <1>1, <2>2 DEF IInv, Replayed
  <1>10. Careful'
    <2>1. Trusted' = Trusted
      BY <1>1 DEF Trusted
    <2>2. DecodedTo(txns, Len(live))' = DecodedTo(txns, Len(live))
      BY <1>1 DEF DecodedTo, Decodes, Collects, Revokes
    <2> QED
      BY <1>1, <2>1, <2>2 DEF IInv, Careful
  <1> QED
    BY <1>6, <1>7, <1>8, <1>9, <1>10 DEF IInv

\* The journal is cleared once everything is replayed.
LEMMA ClearKeeps ==
    ASSUME IInv, RecoverClear
    PROVE  IInv'
  <1> DEFINE n == Len(live)
             last == LastSequence(jsb, txns)
             q == SeqSucc(last)
  <1>1. /\ phase = "replaying" /\ UNCHANGED <<log, home, live, atCrash, count>>
        /\ at.txn \notin DOMAIN txns /\ phase' = "clean" /\ txns' = <<>> /\ at' = LoopStart
        /\ jsb' = [kind |-> "jsb", seq |-> q, start |-> 0]
    BY DEF RecoverClear, JournalSb
  <1>2. /\ DecodedTo(txns, n) /\ live # <<>> /\ Chained /\ live \in Seq(Txn) /\ n \in Nat \ {0}
        /\ at.txn \in Nat \ {0} /\ txns \in Seq(Found)
    BY <1>1 DEF IInv, Shape, Held, Chained, Careful
  <1>3. q = NextSeq /\ q \in Seqno
    <2>1. Len(txns) = n /\ n \in 1 .. n
      BY <1>2 DEF DecodedTo
    <2>2. txns # <<>>
      BY <1>2, <2>1
    <2>3. txns[n].seq = live[n].seq
      BY <1>2, <2>1 DEF DecodedTo, Decodes
    <2>4. last = live[n].seq
      BY <2>1, <2>2, <2>3 DEF LastSequence
    <2>5. live[n].seq \in Seqno
      BY <1>2, <2>1, LiveIs
    <2> QED
      BY <1>2, <2>4, <2>5, Successor DEF NextSeq
  <1> HIDE DEF q, last
  <1>4. NextSeq' = NextSeq /\ LogHead' = LogHead /\ jsb'.seq = q
    BY <1>1, <1>2 DEF NextSeq, LogHead
  <1>5. ASSUME NEW b, NEW j PROVE Survives(j, b)' <=> Survives(j, b)
    BY <1>1 DEF Survives
  <1>6. Shape'
    <2>1. jsb' \in Superblock
      BY <1>1, <1>3 DEF Superblock
    <2>2. txns' \in Seq(Found) /\ at' \in [txn : Nat \ {0}, block : Nat \ {0}]
      BY <1>1 DEF LoopStart
    <2> QED
      BY <1>1, <2>1, <2>2 DEF IInv, Shape, GoodLog
  <1>7. Held'
    <2>1. Chained'
      BY <1>1, <1>4 DEF IInv, Held, Chained
    <2>2. Stored'
      BY <1>1 DEF IInv, Held, Stored
    <2>3. Below(NextSeq)'
      BY <1>1, <1>4 DEF IInv, Held, Below
    <2> QED
      BY <1>1, <1>3, <1>4, <2>1, <2>2, <2>3 DEF IInv, Held
  <1>8. Kept'
    BY <1>1, <1>5 DEF IInv, Kept, HasCopy
  <1>9. Replayed'
    <2> SUFFICES ASSUME NEW b \in Block, NEW j \in 1 .. Len(live), Survives(j, b)
                 PROVE  home[b] = live[j].data
      BY <1>1, <1>5 DEF Replayed
    <2>1. j < at.txn
      BY <1>1, <1>2 DEF DecodedTo
    <2> QED
      BY <1>1, <2>1 DEF IInv, Replayed, Reached
  <1>10. Careful'
    BY <1>1 DEF Careful
  <1> QED
    BY <1>6, <1>7, <1>8, <1>9, <1>10 DEF IInv

\* The writer takes the recovered image over.
LEMMA RemountKeeps ==
    ASSUME IInv, Remount
    PROVE  IInv'
  <1>1. /\ phase = "clean" /\ phase' = "running" /\ live' = <<>>
        /\ UNCHANGED <<log, jsb, home, txns, at, atCrash, count>>
    BY DEF Remount
  <1>2. NextSeq' = NextSeq /\ jsb.seq \in Seqno
    BY <1>1 DEF NextSeq, IInv, Held, Shape, Superblock
  <1>3. Shape'
    BY <1>1 DEF IInv, Shape, GoodLog
  <1>4. Len(live') = 0
    BY <1>1
  <1>5. Held'
    <2>1. Chained'
      BY <1>1, <1>4 DEF Chained
    <2>2. Stored'
      BY <1>4 DEF Stored
    <2>3. Below(NextSeq)'
      BY <1>1, <1>2 DEF IInv, Held, Below
    <2>4. Tailed'
      BY <1>1, <1>2 DEF Tailed
    <2> QED
      BY <1>1, <1>2, <2>1, <2>2, <2>3, <2>4 DEF IInv, Held
  <1>6. Kept' /\ Replayed'
    BY <1>1 DEF Kept, Replayed
  <1>7. Careful'
    BY <1>1 DEF IInv, Careful
  <1> QED
    BY <1>3, <1>5, <1>6, <1>7 DEF IInv

\* A revoked block is used anew: replay would not have written it.
LEMMA ReuseKeeps ==
    ASSUME IInv, NEW c \in Block, KernelReuse(c)
    PROVE  IInv'
  <1>1. /\ phase = "running" /\ home' = [home EXCEPT ![c] = Reused]
        /\ UNCHANGED <<log, jsb, live, phase, txns, at, atCrash, count>>
    BY DEF KernelReuse
  <1>2. home' \in [Block -> DataBlock]
    <2>1. Reused \in DataBlock
      <3>1. MaxTxns + 1 \in Nat
        BY RecoveryBounds
      <3>2. [kind |-> "data", txn |-> MaxTxns + 1] \in [kind : {"data"}, txn : Nat]
        BY <3>1
      <3> QED
        BY <3>2 DEF Reused, DataBlock
    <2> HIDE DEF DataBlock
    <2> QED
      BY <1>1, <2>1 DEF IInv, Shape
  <1>3. Shape'
    BY <1>1, <1>2 DEF IInv, Shape, GoodLog
  <1>4. Held'
    BY <1>1, HeldStays DEF IInv, Held
  <1>5. Kept' /\ Replayed'
    BY <1>1 DEF Kept, Replayed
  <1>6. Careful'
    BY <1>1 DEF IInv, Careful
  <1> QED
    BY <1>3, <1>4, <1>5, <1>6 DEF IInv

\* A revoke block that has rotted is still the one that was written.
LEMMA RotIs ==
    ASSUME NEW x, NEW y \in LogBlock, SameBlock(x, y), x.kind = "revoke"
    PROVE  SameBlock([x EXCEPT !.ok = FALSE], y)
  <1>1. y.kind = "revoke"
    BY DEF SameBlock
  <1>2. y \in [kind : {"revoke"}, seq : Seqno, blocks : SUBSET Block, ok : BOOLEAN]
    BY <1>1 DEF LogBlock, DataBlock
  <1>3. [x EXCEPT !.ok = FALSE] = [y EXCEPT !.ok = FALSE]
    BY <1>2 DEF SameBlock
  <1> QED
    BY <1>1, <1>3 DEF SameBlock

\* A crash, in recovery too: what is replayed is replayed again.
LEMMA CrashKeeps ==
    ASSUME IInv, NEW rot \in {{}} \cup {{s} : s \in RevokeSlot}, Crash(rot)
    PROVE  IInv'
  <1>1. /\ phase \in {"running", "replaying"} /\ phase' = "dirty" /\ txns' = <<>> /\ at' = LoopStart
        /\ rot # {} => phase = "running"
        /\ log' = [s \in LogSlot |-> IF s \in rot THEN [log[s] EXCEPT !.ok = FALSE] ELSE log[s]]
        /\ atCrash' = IF phase = "running" THEN home ELSE atCrash
        /\ count' = [count EXCEPT !.crashes = @ + 1]
        /\ UNCHANGED <<jsb, home, live>>
    BY DEF Crash
  <1>2. count' \in [txns : Nat, crashes : Nat] /\ count'.txns = count.txns
    BY <1>1 DEF IInv, Shape
  <1>3. BodySlot \subseteq LogSlot
    BY LogGeometry DEF BodySlot, LogSlot
  <1>4. ASSUME NEW s \in BodySlot
        PROVE  \/ log'[s] = log[s]
               \/ log[s].kind = "revoke" /\ log'[s] = [log[s] EXCEPT !.ok = FALSE]
    BY <1>1, <1>3 DEF RevokeSlot
  <1>5. ASSUME NEW s \in BodySlot PROVE log[s] \in LogBlock
    BY DEF IInv, Shape, GoodLog
  <1>6. ASSUME NEW x \in LogBlock, x.kind = "revoke"
        PROVE  [x EXCEPT !.ok = FALSE] \in LogBlock /\ [x EXCEPT !.ok = FALSE].kind = "revoke"
    <2>1. x \in [kind : {"revoke"}, seq : Seqno, blocks : SUBSET Block, ok : BOOLEAN]
      BY <1>6 DEF LogBlock, DataBlock
    <2>2. [x EXCEPT !.ok = FALSE] \in [kind : {"revoke"}, seq : Seqno, blocks : SUBSET Block, ok : BOOLEAN]
      BY <2>1
    <2> QED
      BY <2>1, <2>2 DEF LogBlock
  <1>7. Shape'
    <2>1. GoodLog(log')
      <3>1. ASSUME NEW s \in BodySlot PROVE log'[s] \in LogBlock
        <4>1. log[s] \in LogBlock
          BY <1>5
        <4>2. CASE log[s].kind = "revoke" /\ log'[s] = [log[s] EXCEPT !.ok = FALSE]
          <5>1. [log[s] EXCEPT !.ok = FALSE] \in LogBlock
            BY <1>6, <4>1, <4>2
          <5> QED
            BY <4>2, <5>1
        <4>3. CASE log'[s] = log[s]
          BY <4>1, <4>3
        <4> QED
          BY <1>4, <4>2, <4>3
      <3> QED
        BY <3>1 DEF GoodLog
    <2>2. log' = [s \in LogSlot |-> log'[s]]
      BY <1>1
    <2>3. txns' \in Seq(Found) /\ at' \in [txn : Nat \ {0}, block : Nat \ {0}]
      BY <1>1 DEF LoopStart
    <2>4. atCrash' \in [Block -> DataBlock]
      BY <1>1 DEF IInv, Shape
    <2> QED
      BY <1>1, <1>2, <2>1, <2>2, <2>3, <2>4 DEF IInv, Shape
  <1>8. NextSeq' = NextSeq /\ LogHead' = LogHead
    BY <1>1 DEF NextSeq, LogHead
  <1>9. Held'
    <2>1. Chained'
      BY <1>1, <1>8 DEF IInv, Held, Chained
    <2>2. Stored'
      <3> SUFFICES ASSUME NEW i \in 1 .. Len(live), NEW j \in 1 .. Size(live[i])
                   PROVE  SameBlock(log'[Slot(live[i].at + j - 1)], Layout(live[i])[j])
        BY <1>1 DEF Stored
      <3> DEFINE p == live[i].at + j - 1
                 s == Slot(p)
                 y == Layout(live[i])[j]
      <3>1. SameBlock(log[s], y)
        BY DEF IInv, Held, Stored
      <3>2. live[i] \in Txn /\ live[i].at \in Nat /\ Size(live[i]) \in Nat
        BY LiveIs DEF IInv, Held
      <3>3. p \in Nat
        BY <3>2
      <3>4. y \in LogBlock
        <4>1. Layout(live[i]) \in Seq(LogBlock)
          BY <3>2, LayoutIs
        <4> HIDE DEF LogBlock
        <4> QED
          BY <4>1, ElementOfSeq DEF Size
      <3>5. s \in BodySlot
        BY <3>3, SlotIn
      <3> HIDE DEF p, s, y
      <3>6. SameBlock(log'[s], y)
        <4>1. CASE log'[s] = log[s]
          BY <3>1, <4>1
        <4>2. CASE log[s].kind = "revoke" /\ log'[s] = [log[s] EXCEPT !.ok = FALSE]
          <5> DEFINE x == log[s]
          <5>1. SameBlock(x, y) /\ x.kind = "revoke"
            BY <3>1, <4>2
          <5> HIDE DEF x
          <5>2. SameBlock([x EXCEPT !.ok = FALSE], y)
            BY <3>4, <5>1, RotIs
          <5> QED
            BY <4>2, <5>2 DEF x
        <4> QED
          BY <1>4, <3>5, <4>1, <4>2
      <3> QED
        BY <3>6 DEF p, s, y
    <2>3. Below(NextSeq)'
      <3> SUFFICES ASSUME NEW s \in BodySlot, log'[s].kind = "commit"
                   PROVE  (log'[s].ok => log'[s].seq < NextSeq) /\ (~log'[s].ok => HasCsum)
        BY <1>8 DEF Below
      <3>1. log'[s] = log[s]
        BY <1>4, <1>5, <1>6
      <3> QED
        BY <3>1 DEF IInv, Held, Below
    <2>4. Tailed'
      BY <1>1 DEF IInv, Held, Tailed
    <2> QED
      BY <1>1, <1>2, <1>8, <2>1, <2>2, <2>3, <2>4 DEF IInv, Held
  <1>10. ASSUME NEW b, NEW j PROVE Survives(j, b)' <=> Survives(j, b)
    BY <1>1 DEF Survives
  <1>11. Kept'
    BY <1>1, <1>10 DEF IInv, Kept, HasCopy
  <1>12. Replayed'
    BY <1>1 DEF Replayed
  <1>13. Careful'
    <2>1. CASE phase = "running"
      BY <1>1, <2>1 DEF Careful
    <2>2. CASE phase = "replaying"
      <3>1. log' = log
        BY <1>1, <2>2 DEF IInv, Shape
      <3>2. Trusted' = Trusted
        BY <1>1, <3>1 DEF Trusted
      <3> QED
        BY <1>1, <2>2, <3>2 DEF IInv, Careful
    <2> QED
      BY <1>1, <2>1, <2>2
  <1> QED
    BY <1>7, <1>9, <1>11, <1>12, <1>13 DEF IInv

\* The oldest transaction leaves the log once its blocks are home.
LEMMA CheckpointKeeps ==
    ASSUME IInv, KernelCheckpoint
    PROVE  IInv'
  <1> DEFINE n == Len(live)
             t == live[1]
             q == SeqSucc(t.seq)
             e == t.at + Size(t)
  <1>1. /\ phase = "running" /\ live # <<>>
        /\ home' = [b \in Block |-> IF Survives(1, b) THEN t.data ELSE home[b]]
        /\ jsb' = [kind |-> "jsb", seq |-> q, start |-> Slot(e)]
        /\ live' = Tail(live)
        /\ UNCHANGED <<log, phase, txns, at, atCrash, count>>
    BY DEF KernelCheckpoint, JournalSb
  <1>2. Chained /\ live \in Seq(Txn) /\ n \in Nat \ {0} /\ 1 \in 1 .. n /\ n \in 1 .. n
    BY <1>1 DEF IInv, Held, Chained
  <1>3. t \in Txn /\ t.at \in Nat /\ Size(t) \in Nat \ {0} /\ t.seq \in Seqno /\ t.data \in DataBlock
    BY <1>2, LiveIs, TxnFields
  <1>4. Slot(e) \in BodySlot /\ q \in Seqno
    <2>1. e \in Nat
      BY <1>3
    <2> QED
      BY <1>3, <2>1, SlotIn, Successor
  <1> HIDE DEF e, q
  <1>5. /\ live' \in Seq(Txn) /\ Len(live') = n - 1
        /\ \A i \in 1 .. n - 1 : live'[i] = live[i + 1] /\ i \in 1 .. n /\ i + 1 \in 1 .. n
    BY <1>1, <1>2, HeadTailProperties
  <1>6. Shape'
    <2>1. home' \in [Block -> DataBlock]
      <3> HIDE DEF t
      <3> QED
        BY <1>1, <1>3 DEF IInv, Shape
    <2>2. jsb' \in Superblock
      BY <1>1, <1>4 DEF Superblock
    <2> QED
      BY <1>1, <2>1, <2>2 DEF IInv, Shape, GoodLog
  <1>7. CASE n = 1
    <2>1. Len(live') = 0 /\ live' = <<>>
      BY <1>5, <1>7, EmptySeq
    <2>2. NextSeq' = NextSeq
      BY <1>1, <1>7, <2>1 DEF NextSeq, q
    <2>3. Held'
      <3>1. Chained'
        <4>1. 1 .. Len(live') - 1 = {}
          BY <2>1
        <4> QED
          BY <1>5, <2>1, <4>1 DEF Chained
      <3>2. Stored'
        BY <2>1 DEF Stored
      <3>3. Below(NextSeq)'
        BY <1>1, <2>2 DEF IInv, Held, Below
      <3>4. Tailed'
        BY <1>1, <1>4, <2>1 DEF Tailed
      <3> QED
        BY <1>1, <2>2, <3>1, <3>2, <3>3, <3>4 DEF IInv, Held
    <2> QED
      BY <1>1, <1>6, <2>3 DEF IInv, Kept, Replayed, Careful
  <1>8. CASE n > 1
    <2>1. /\ live' # <<>> /\ Len(live') = n - 1 /\ 1 \in 1 .. n - 1 /\ n - 1 \in 1 .. n - 1
          /\ live'[1] = live[2] /\ live'[n - 1] = live[n]
      <3>1. 1 \in 1 .. n - 1 /\ n - 1 \in 1 .. n - 1 /\ 1 + 1 = 2 /\ (n - 1) + 1 = n /\ n - 1 # 0
        BY <1>2, <1>8
      <3>2. live' # <<>>
        BY <1>5, <3>1, EmptySeq
      <3> QED
        BY <1>5, <3>1, <3>2
    <2>2. NextSeq' = NextSeq /\ LogHead' = LogHead
      BY <1>1, <2>1 DEF NextSeq, LogHead
    <2>3. live[2].at = e /\ live[2].seq = q
      <3>1. 1 \in 1 .. n - 1 /\ 1 + 1 = 2 /\ 2 \in 1 .. n
        BY <1>2, <1>8
      <3>2. live[2].at = e /\ live[2].seq = t.seq + 1
        BY <1>2, <3>1 DEF Chained, e
      <3>3. live[2].seq \in Seqno
        BY <1>2, <3>1, LiveIs
      <3>4. t.seq + 1 < SeqWrap
        BY <1>3, <3>2, <3>3, LogGeometry DEF Seqno
      <3> QED
        BY <1>3, <3>2, <3>4, Successor DEF q
    <2>4. Chained'
      <3>1. ASSUME NEW i \in 1 .. (n - 1) - 1
            PROVE  live'[i + 1].at = live'[i].at + Size(live'[i]) /\ live'[i + 1].seq = live'[i].seq + 1
        <4>1. /\ i \in 1 .. n - 1 /\ i + 1 \in 1 .. n - 1
          BY <1>2
        <4>2. live'[i] = live[i + 1] /\ live'[i + 1] = live[(i + 1) + 1]
          BY <1>5, <4>1
        <4> QED
          BY <1>2, <4>1, <4>2 DEF Chained
      <3>2. live'[Len(live')].seq + 1 < SeqWrap
        BY <1>1, <1>2, <2>1 DEF Chained
      <3>3. LogHead' - live'[1].at <= Area
        <4>1. 2 \in 1 .. n
          BY <1>2, <1>8
        <4>2. /\ t.at + Size(t) <= live[2].at /\ LogHead \in Nat /\ live[2].at \in Nat
              /\ LogHead - t.at <= Area
          BY <1>2, <1>8, <4>1, Ordered, EndsBefore, LiveIs
        <4> DEFINE a == t.at
                   z == Size(t)
                   y == live[2].at
        <4>3. /\ a + z <= y /\ LogHead \in Nat /\ a \in Nat /\ z \in Nat /\ y \in Nat
              /\ LogHead - a <= Area
          BY <1>3, <4>2
        <4> HIDE DEF a, z, y, Area
        <4>4. LogHead - y <= Area
          BY <4>3, AreaIs
        <4> QED
          BY <2>1, <2>2, <4>4 DEF y
      <3> QED
        BY <1>5, <3>1, <3>2, <3>3 DEF Chained
    <2>5. Stored'
      <3> SUFFICES ASSUME NEW i \in 1 .. n - 1, NEW j \in 1 .. Size(live'[i])
                   PROVE  SameBlock(log[Slot(live'[i].at + j - 1)], Layout(live'[i])[j])
        BY <1>1, <1>5 DEF Stored
      <3>1. live'[i] = live[i + 1] /\ i + 1 \in 1 .. n
        BY <1>5
      <3> QED
        BY <3>1 DEF IInv, Held, Stored
    <2>6. Below(NextSeq)'
      BY <1>1, <2>2 DEF IInv, Held, Below
    <2>7. Tailed'
      BY <1>1, <1>4, <2>1, <2>3 DEF Tailed
    <2>8. Held'
      BY <1>1, <2>2, <2>4, <2>5, <2>6, <2>7 DEF IInv, Held
    <2> QED
      BY <1>1, <1>6, <2>8 DEF IInv, Kept, Replayed, Careful
  <1>9. n = 1 \/ n > 1
    <2>1. n \in Nat /\ n # 0
      BY <1>2
    <2> HIDE DEF n
    <2> QED
      BY <2>1
  <1> QED
    BY <1>7, <1>8, <1>9

-----------------------------------------------------------------------------
(* The kernel writes a transaction. *)

\* The slots of n positions, n at most the length of the area, are different.
LEMMA WrittenIs ==
    ASSUME NEW p \in Nat, NEW n \in Nat, n <= Area, NEW bs, DOMAIN bs = 1 .. n, NEW i \in 1 .. n
    PROVE  Written(p, bs)[Slot(p + i - 1)] = bs[i]
  <1> DEFINE s == Slot(p + i - 1)
             K == {k \in DOMAIN bs : Slot(p + k - 1) = s}
  <1>1. s \in LogSlot
    <2>1. p + i - 1 \in Nat
      OBVIOUS
    <2> QED
      BY <2>1, SlotIn
  <1>2. ASSUME NEW k \in K PROVE k = i
    <2> DEFINE x == p + k - 1
               y == p + i - 1
    <2>1. k \in 1 .. n /\ x \in Nat /\ y \in Nat /\ Slot(x) = Slot(y)
      OBVIOUS
    <2>2. x - y < Area /\ y - x < Area
      <3>1. x - y = k - i /\ y - x = i - k
        BY <2>1
      <3> HIDE DEF Area, x, y
      <3> QED
        BY <2>1, <3>1, AreaIs
    <2> HIDE DEF Area, K
    <2>3. x = y
      <3> HIDE DEF x, y
      <3>1. ~(x < y)
        BY <2>1, <2>2, SlotApart
      <3>2. ~(y < x)
        BY <2>1, <2>2, SlotApart
      <3> QED
        BY <2>1, <3>1, <3>2
    <2> QED
      BY <2>1, <2>3
  <1>3. i \in K
    OBVIOUS
  <1>4. Written(p, bs)[s] = bs[CHOOSE k \in K : TRUE]
    BY <1>1, <1>3 DEF Written
  <1> HIDE DEF K, s
  <1>5. (CHOOSE k \in K : TRUE) = i
    BY <1>2, <1>3
  <1> QED
    BY <1>4, <1>5 DEF s

\* Slots that are not written keep their blocks.
LEMMA WrittenElse ==
    ASSUME NEW p \in Nat, NEW n \in Nat, NEW bs, DOMAIN bs = 1 .. n, NEW s \in LogSlot,
           \A i \in 1 .. n : Slot(p + i - 1) # s
    PROVE  Written(p, bs)[s] = log[s]
  BY DEF Written

\* A slot holds what it held or one of the blocks written.
LEMMA WrittenFrom ==
    ASSUME NEW p \in Nat, NEW n \in Nat, NEW bs, DOMAIN bs = 1 .. n, NEW s \in LogSlot
    PROVE  Written(p, bs)[s] = log[s] \/ \E i \in 1 .. n : Written(p, bs)[s] = bs[i]
  <1> DEFINE K == {k \in DOMAIN bs : Slot(p + k - 1) = s}
  <1>1. K = {} => Written(p, bs)[s] = log[s]
    BY DEF Written
  <1>2. K # {} => Written(p, bs)[s] = bs[CHOOSE k \in K : TRUE]
    BY DEF Written
  <1>3. K \subseteq 1 .. n
    OBVIOUS
  <1> HIDE DEF K
  <1>4. K # {} => (CHOOSE k \in K : TRUE) \in 1 .. n
    BY <1>3
  <1> QED
    BY <1>1, <1>2, <1>4

\* Only the last block of a transaction is a commit block.
LEMMA NoCommit ==
    ASSUME NEW t \in Txn, NEW j \in 1 .. Size(t), j # Size(t)
    PROVE  Layout(t)[j].kind # "commit"
  <1> DEFINE d == DescriptorsAndData(t)
             h == Head0(t)
             n == Len(t.order)
             E == Escape(t.data)
  <1>1. /\ h \in 0 .. 1 /\ d \in Seq(LogBlock) /\ Size(t) = h + Len(d) + 1
        /\ t.revokes # {} => Layout(t)[1] = Revoke(t.seq, t.revokes)
        /\ \A k \in 1 .. Len(d) : Layout(t)[h + k] = d[k]
    BY LayoutIs
  <1>2. Len(d) \in Nat /\ n \in Nat
    BY <1>1, TxnFields, LenProperties
  <1>3. E.kind \in {"data", "escaped"}
    BY TxnFields, Escaping
  <1>4. ASSUME NEW k \in 1 .. Len(d) PROVE d[k].kind # "commit"
    <2> HIDE DEF E
    <2>1. CASE t.split
      <3>1. /\ Len(d) = 2 * n
            /\ \A c \in 1 .. n : d[2 * c - 1] = Descriptor(t.seq, <<Tags(t)[c]>>) /\ d[2 * c] = E
        BY <2>1, SplitIs DEF E
      <3>2. \E c \in 1 .. n : k = 2 * c - 1 \/ k = 2 * c
        <4>1. k = 2 * (k \div 2) + (k % 2) /\ k % 2 \in 0 .. 1 /\ k \div 2 \in Nat
          BY Division
        <4>2. CASE k % 2 = 0
          <5>1. k \div 2 \in 1 .. n /\ k = 2 * (k \div 2)
            BY <1>2, <3>1, <4>1, <4>2
          <5> QED
            BY <5>1
        <4>3. CASE k % 2 = 1
          <5>1. (k \div 2) + 1 \in 1 .. n /\ k = 2 * ((k \div 2) + 1) - 1
            BY <1>2, <3>1, <4>1, <4>3
          <5> QED
            BY <5>1
        <4> QED
          BY <4>1, <4>2, <4>3
      <3> QED
        <4>1. PICK c \in 1 .. n : k = 2 * c - 1 \/ k = 2 * c
          BY <3>2
        <4>2. CASE k = 2 * c - 1
          <5>1. d[k] = Descriptor(t.seq, <<Tags(t)[c]>>)
            BY <3>1, <4>2
          <5> QED
            BY <5>1 DEF Descriptor
        <4>3. CASE k = 2 * c
          <5>1. d[k] = E
            BY <3>1, <4>3
          <5> QED
            BY <1>3, <5>1
        <4> QED
          BY <4>1, <4>2, <4>3
    <2>2. CASE ~t.split /\ t.order # <<>>
      <3>1. /\ Len(d) = n + 1 /\ d[1] = Descriptor(t.seq, Tags(t))
            /\ \A c \in 1 .. n : d[c + 1] = E
        BY <2>2, UnsplitIs DEF E
      <3>2. CASE k = 1
        BY <3>1, <3>2 DEF Descriptor
      <3>3. CASE k # 1
        <4>1. k - 1 \in 1 .. n /\ (k - 1) + 1 = k
          BY <1>2, <3>1, <3>3
        <4>2. d[(k - 1) + 1] = E
          BY <3>1, <4>1
        <4> QED
          BY <1>3, <4>1, <4>2
      <3> QED
        BY <3>2, <3>3
    <2>3. CASE ~t.split /\ t.order = <<>>
      <3>1. d = <<>>
        BY <2>3 DEF DescriptorsAndData
      <3> QED
        BY <3>1
    <2> QED
      BY <2>1, <2>2, <2>3
  <1> HIDE DEF d, E
  <1>5. CASE j <= h
    <2>1. j = 1 /\ h = 1
      BY <1>1, <1>5
    <2>2. t.revokes # {}
      BY <2>1 DEF Head0
    <2> QED
      BY <1>1, <2>1, <2>2 DEF Revoke
  <1>6. CASE ~(j <= h)
    <2> HIDE DEF h
    <2>1. j - h \in 1 .. Len(d) /\ h + (j - h) = j
      BY <1>1, <1>2, <1>6
    <2>2. Layout(t)[h + (j - h)] = d[j - h]
      BY <1>1, <2>1
    <2> QED
      BY <1>4, <2>1, <2>2
  <1> QED
    BY <1>5, <1>6

\* Where the next transaction goes, and its number.
LEMMA HeadIs ==
    ASSUME Shape, Held
    PROVE  /\ LogHead \in Nat /\ LogTail \in Nat /\ LogTail <= LogHead
           /\ live # <<>> => LogTail = live[1].at
           /\ NextSeq \in Seqno
           /\ live \in Seq(Txn) /\ Len(live) \in Nat
           /\ live = <<>> => Len(live) = 0
           /\ live # <<>> => Len(live) \in 1 .. Len(live) /\ 1 \in 1 .. Len(live)
           /\ live # <<>> => NextSeq = live[Len(live)].seq + 1
  <1>1. Chained /\ live \in Seq(Txn) /\ Len(live) \in Nat
    BY DEF Held, Chained
  <1>2. CASE live = <<>>
    <2>1. NextSeq = jsb.seq /\ LogTail = LogHead /\ Len(live) = 0
      BY <1>2 DEF NextSeq, LogTail
    <2>2. LogHead \in Nat
      <3>1. jsb.start = 0 \/ jsb.start \in BodySlot
        BY DEF Shape, Superblock
      <3>2. jsb.start \in BodySlot => jsb.start - First \in Nat
        BY SlotBack
      <3> QED
        BY <1>2, <3>1, <3>2 DEF LogHead
    <2> QED
      BY <1>1, <1>2, <2>1, <2>2 DEF Shape, Superblock
  <1>3. CASE live # <<>>
    <2>1. Len(live) \in 1 .. Len(live) /\ 1 \in 1 .. Len(live)
      <3>1. Len(live) # 0
        BY <1>1, <1>3, EmptySeq
      <3> QED
        BY <1>1, <3>1
    <2>2. live[Len(live)].seq \in Seqno /\ live[Len(live)].seq + 1 < SeqWrap
      BY <1>1, <1>3, <2>1, LiveIs DEF Chained
    <2>3. NextSeq = live[Len(live)].seq + 1 /\ NextSeq \in Seqno
      BY <1>3, <2>2, Successor DEF NextSeq
    <2>4. LogHead \in Nat /\ live[1].at \in Nat /\ live[1].at <= LogHead
      <3>1. live[1].at + Size(live[1]) <= LogHead /\ LogHead \in Nat
        BY <1>1, <2>1, EndsBefore
      <3>2. live[1].at \in Nat /\ Size(live[1]) \in Nat
        BY <1>1, <2>1, LiveIs
      <3> QED
        BY <3>1, <3>2
    <2>5. LogTail = live[1].at
      BY <1>3 DEF LogTail
    <2> QED
      BY <1>1, <1>3, <2>1, <2>3, <2>4, <2>5
  <1> QED
    BY <1>2, <1>3

\* What has been written of transaction t: n of its blocks, the last one torn or not.
PartOf(bs, n, t) ==
    /\ DOMAIN bs = 1 .. n /\ n \in 1 .. Size(t)
    /\ \A i \in 1 .. n : \/ bs[i] = Layout(t)[i]
                         \/ i = Size(t) /\ HasCsum /\ bs[i] = [Commit(t.seq) EXCEPT !.ok = FALSE]

\* There is room for it.
Fits(t) == t \in Txn /\ t.at = LogHead /\ t.seq = NextSeq /\ LogHead + Size(t) - LogTail <= Area

\* The blocks of the transactions in the log stay.
LEMMA StoredStays ==
    ASSUME Shape, Held, NEW t, Fits(t), NEW n, NEW bs, PartOf(bs, n, t),
           NEW i \in 1 .. Len(live), NEW j \in 1 .. Size(live[i])
    PROVE  SameBlock(Written(LogHead, bs)[Slot(live[i].at + j - 1)], Layout(live[i])[j])
  <1> DEFINE p == live[i].at + j - 1
  <1>1. SameBlock(log[Slot(p)], Layout(live[i])[j])
    BY DEF Held, Stored
  <1>2. /\ Chained /\ live[i].at \in Nat /\ Size(live[i]) \in Nat
        /\ live[i].at + Size(live[i]) <= LogHead /\ live[1].at <= live[i].at
        /\ LogHead \in Nat /\ live # <<>> /\ 1 \in 1 .. Len(live)
    BY LiveIs, EndsBefore DEF Held
  <1>3. LogTail = live[1].at /\ LogTail \in Nat
    BY <1>2, HeadIs
  <1>4. Size(t) \in Nat /\ n \in Nat /\ n <= Size(t) /\ DOMAIN bs = 1 .. n
    BY LayoutIs DEF Fits, PartOf
  <1> DEFINE a == live[i].at
             z == Size(live[i])
             y == Size(t)
  <1>5. p \in Nat /\ p < LogHead /\ LogTail <= p
    <2>1. a \in Nat /\ z \in Nat /\ a + z <= LogHead /\ LogTail <= a /\ j \in 1 .. z /\ p = a + j - 1
      BY <1>2, <1>3
    <2> HIDE DEF a, z, p
    <2> QED
      BY <1>2, <1>3, <2>1
  <1> HIDE DEF p, a, z, y
  <1>6. ASSUME NEW k \in 1 .. n PROVE Slot(LogHead + k - 1) # Slot(p)
    <2> DEFINE q == LogHead + k - 1
    <2>1. LogHead + y - LogTail <= Area /\ y \in Nat /\ n <= y
      BY <1>4 DEF Fits, y
    <2>2. q \in Nat /\ p < q /\ q - p < Area
      <3> HIDE DEF Area
      <3> QED
        BY <1>2, <1>3, <1>4, <1>5, <2>1, AreaIs
    <2> HIDE DEF q
    <2>3. Slot(p) # Slot(q)
      BY <1>5, <2>2, SlotApart
    <2> QED
      BY <2>3 DEF q
  <1>7. Slot(p) \in LogSlot
    BY <1>5, SlotIn
  <1>8. Written(LogHead, bs)[Slot(p)] = log[Slot(p)]
    BY <1>2, <1>4, <1>6, <1>7, WrittenElse
  <1> QED
    BY <1>1, <1>8 DEF p

\* The log stays well formed, and holds no commit block that counts but the new
\* transaction's own.
LEMMA WrittenGood ==
    ASSUME Shape, Held, NEW t, Fits(t), NEW n, NEW bs, PartOf(bs, n, t), NEW s \in BodySlot
    PROVE  /\ Written(LogHead, bs)[s] \in LogBlock
           /\ Written(LogHead, bs)[s].kind = "commit" =>
                 \/ Written(LogHead, bs)[s] = log[s]
                 \/ Written(LogHead, bs)[s] = bs[n] /\ n = Size(t)
  <1> DEFINE x == Written(LogHead, bs)[s]
  <1>1. n \in Nat /\ DOMAIN bs = 1 .. n /\ LogHead \in Nat /\ s \in LogSlot /\ Size(t) \in Nat
        /\ t \in Txn
    BY HeadIs, LayoutIs, LogGeometry DEF Fits, PartOf, BodySlot, LogSlot
  <1>2. x = log[s] \/ \E i \in 1 .. n : x = bs[i]
    BY <1>1, WrittenFrom
  <1> HIDE DEF x
  <1>3. CASE x = log[s]
    BY <1>3 DEF Shape, GoodLog, x
  <1>4. ASSUME NEW i \in 1 .. n, x = bs[i]
        PROVE  x \in LogBlock /\ (x.kind = "commit" => i = n /\ n = Size(t))
    <2>1. i \in 1 .. Size(t)
      BY <1>1 DEF PartOf
    <2>2. CASE bs[i] = Layout(t)[i]
      <3>1. Layout(t)[i] \in LogBlock
        <4>1. Layout(t) \in Seq(LogBlock)
          BY <1>1, LayoutIs
        <4> HIDE DEF LogBlock
        <4> QED
          BY <2>1, <4>1, ElementOfSeq DEF Size
      <3>2. i # Size(t) => x.kind # "commit"
        BY <1>1, <1>4, <2>1, <2>2, NoCommit
      <3>3. i = Size(t) => n = Size(t)
        BY <1>1, <2>1 DEF PartOf
      <3> QED
        BY <1>4, <2>2, <3>1, <3>2, <3>3
    <2>3. CASE i = Size(t) /\ bs[i] = [Commit(t.seq) EXCEPT !.ok = FALSE]
      <3>1. n = Size(t)
        BY <1>1, <2>3 DEF PartOf
      <3>2. t.seq \in Seqno
        BY <1>1, TxnFields
      <3>3. x = [kind |-> "commit", seq |-> t.seq, ok |-> FALSE]
        BY <1>4, <2>3 DEF Commit
      <3>4. x \in LogBlock
        BY <3>2, <3>3 DEF LogBlock
      <3> QED
        BY <2>3, <3>1, <3>4
    <2> QED
      BY <2>2, <2>3 DEF PartOf
  <1> QED
    BY <1>2, <1>3, <1>4 DEF x

\* The whole transaction is in the log.
LEMMA WholeStored ==
    ASSUME Shape, Held, NEW t, Fits(t), NEW bs, bs = Layout(t), NEW j \in 1 .. Size(t)
    PROVE  Written(LogHead, bs)[Slot(t.at + j - 1)] = Layout(t)[j]
  <1> DEFINE n == Size(t)
  <1>1. t \in Txn /\ n \in Nat /\ t.at = LogHead /\ LogHead \in Nat /\ LogTail \in Nat
        /\ LogTail <= LogHead /\ LogHead + n - LogTail <= Area
    BY LayoutIs, HeadIs DEF Fits
  <1>2. DOMAIN bs = 1 .. n
    <2>1. Layout(t) \in Seq(LogBlock)
      BY <1>1, LayoutIs
    <2> HIDE DEF LogBlock
    <2> QED
      BY <2>1, LenProperties DEF Size
  <1> HIDE DEF n
  <1>3. n <= Area
    <2> HIDE DEF Area
    <2> QED
      BY <1>1, AreaIs
  <1>4. j \in 1 .. n
    BY DEF n
  <1> QED
    BY <1>1, <1>2, <1>3, <1>4, WrittenIs

\* How an append ends: with all of the transaction, or in a crash with part of it.
Whole(t, bs) ==
    /\ bs = Layout(t) /\ live' = Append(live, t)
    /\ count' = [count EXCEPT !.txns = @ + 1] /\ phase' = phase /\ atCrash' = atCrash

Cut(t, n, bs) ==
    /\ n = Size(t) => HasCsum /\ bs[n] = [Commit(t.seq) EXCEPT !.ok = FALSE]
    /\ count' = [txns |-> count.txns + 1, crashes |-> count.crashes + 1]
    /\ phase' = "dirty" /\ atCrash' = home /\ live' = live

Appends(t, n, bs) ==
    /\ Fits(t) /\ PartOf(bs, n, t) /\ log' = Written(LogHead, bs)
    /\ Whole(t, bs) \/ Cut(t, n, bs)

\* What is appended is a transaction.
LEMMA NewTxn ==
    ASSUME Shape, Held, NEW order \in Orders, NEW revokes \in SUBSET Block,
           NEW data \in Contents(count.txns + 1, NextSeq), NEW split \in BOOLEAN
    PROVE  [seq |-> NextSeq, at |-> LogHead, order |-> order, data |-> data,
            revokes |-> revokes, split |-> split] \in Txn
  <1>1. NextSeq \in Seqno /\ LogHead \in Nat /\ count.txns + 1 \in Nat
    BY HeadIs DEF Shape
  <1>2. data \in DataBlock
    <2>1. [kind |-> "data", txn |-> count.txns + 1] \in [kind : {"data"}, txn : Nat]
      BY <1>1
    <2>2. [kind |-> "commit", seq |-> NextSeq, ok |-> TRUE]
            \in [kind : {"commit"}, seq : 0 .. SeqWrap - 1, ok : {TRUE}]
      BY <1>1 DEF Seqno
    <2>3. \/ data = [kind |-> "data", txn |-> count.txns + 1]
          \/ data = [kind |-> "commit", seq |-> NextSeq, ok |-> TRUE]
      BY DEF Contents, Commit
    <2> QED
      BY <2>1, <2>2, <2>3 DEF DataBlock
  <1> HIDE DEF DataBlock
  <1> QED
    BY <1>1, <1>2 DEF Txn

\* All or some of its blocks are written, the last one perhaps torn.
LEMMA AppendIs ==
    ASSUME Shape, Held, NEW order \in Orders, NEW revokes \in SUBSET Block,
           NEW data \in Contents(count.txns + 1, NextSeq), NEW split \in BOOLEAN,
           NEW reach \in 1 .. MaxLen, NEW torn \in BOOLEAN,
           KernelAppend(order, data, revokes, split, reach, torn)
    PROVE  \E t, bs : Appends(t, reach, bs)
  <1> DEFINE t == [seq |-> NextSeq, at |-> LogHead, order |-> order, data |-> data,
                   revokes |-> revokes, split |-> split]
             all == Layout(t)
             size == Size(t)
             part == SubSeq(all, 1, reach)
             bs == IF torn THEN [part EXCEPT ![size].ok = FALSE] ELSE part
  <1>1. t \in Txn
    BY NewTxn
  <1>2. t.seq = NextSeq /\ t.at = LogHead
    OBVIOUS
  <1>3. /\ LogHead + size - LogTail <= MaxLen - First
        /\ reach \in 1 .. size
        /\ torn => reach = size /\ HasCsum
        /\ log' = Written(LogHead, bs)
    BY DEF KernelAppend
  <1>4. \/ /\ reach = size /\ ~torn
           /\ live' = Append(live, t)
           /\ count' = [count EXCEPT !.txns = @ + 1]
           /\ UNCHANGED <<phase, atCrash>>
        \/ /\ ~(reach = size /\ ~torn)
           /\ count' = [txns |-> count.txns + 1, crashes |-> count.crashes + 1]
           /\ phase' = "dirty" /\ atCrash' = home
           /\ UNCHANGED live
    BY DEF KernelAppend
  <1> HIDE DEF t
  <1>5. all \in Seq(LogBlock) /\ Len(all) = size /\ size \in Nat \ {0} /\ all[size] = Commit(t.seq)
    BY <1>1, LayoutIs DEF Size
  <1> HIDE DEF all, size, LogBlock
  <1>6. /\ part \in Seq(LogBlock) /\ Len(part) = reach
        /\ \A i \in 1 .. reach : part[i] = all[i]
    BY <1>3, <1>5, SubSeqProperties
  <1>7. reach = size => part = all
    <2> SUFFICES ASSUME reach = size PROVE part = all
      OBVIOUS
    <2> HIDE DEF part
    <2> QED
      BY <1>5, <1>6, SeqEqual
  <1>8. DOMAIN part = 1 .. reach
    BY <1>6, LenProperties
  <1> HIDE DEF part
  <1>9. CASE ~torn
    <2>1. bs = part
      BY <1>9
    <2> HIDE DEF bs
    <2>2. PartOf(bs, reach, t)
      BY <1>3, <1>6, <1>8, <2>1 DEF PartOf, all, size
    <2>3. Fits(t)
      BY <1>1, <1>2, <1>3 DEF Fits, Area, size
    <2>4. Whole(t, bs) \/ Cut(t, reach, bs)
      <3>1. CASE reach = size
        BY <1>4, <1>7, <1>9, <2>1, <3>1 DEF Whole, all
      <3>2. CASE reach # size
        BY <1>4, <3>2 DEF Cut, size
      <3> QED
        BY <3>1, <3>2
    <2> QED
      BY <1>3, <2>2, <2>3, <2>4 DEF Appends
  <1>10. CASE torn
    <2>1. bs = [part EXCEPT ![size].ok = FALSE] /\ reach = size /\ HasCsum
      BY <1>3, <1>10
    <2>a. size \in DOMAIN part
      BY <1>5, <1>8, <2>1
    <2>b. bs = [i \in DOMAIN part |-> IF i = size THEN [part[size] EXCEPT !.ok = FALSE] ELSE part[i]]
      BY <2>1, <2>a
    <2>2. bs[size] = [part[size] EXCEPT !.ok = FALSE] /\ DOMAIN bs = 1 .. size
          /\ \A i \in 1 .. size : i # size => bs[i] = part[i]
      <3> HIDE DEF bs
      <3> QED
        BY <1>8, <2>1, <2>a, <2>b
    <2> HIDE DEF bs
    <2>3. bs[size] = [Commit(t.seq) EXCEPT !.ok = FALSE]
      <3>1. size \in 1 .. reach
        BY <1>5, <2>1
      <3> QED
        BY <1>5, <1>6, <2>2, <3>1
    <2>4. PartOf(bs, reach, t)
      BY <1>3, <1>6, <2>1, <2>2, <2>3 DEF PartOf, all, size
    <2>5. Fits(t)
      BY <1>1, <1>2, <1>3 DEF Fits, Area, size
    <2>6. Cut(t, reach, bs)
      BY <1>4, <1>10, <2>1, <2>3 DEF Cut, size
    <2> QED
      BY <1>3, <2>4, <2>5, <2>6 DEF Appends
  <1> QED
    BY <1>9, <1>10

\* The numbers of all transactions there may be are in order.
NoWrap == FirstSeq + MaxTxns < SeqWrap

\* A transaction appended, whole or cut short by a crash.
LEMMA AppendKeeps ==
    ASSUME IInv, NoWrap, NEW order \in Orders, NEW revokes \in SUBSET Block,
           NEW data \in Contents(count.txns + 1, NextSeq), NEW split \in BOOLEAN,
           NEW reach \in 1 .. MaxLen, NEW torn \in BOOLEAN,
           KernelAppend(order, data, revokes, split, reach, torn)
    PROVE  IInv'
  <1>1. /\ phase = "running" /\ count.txns < MaxTxns
        /\ jsb' = [jsb EXCEPT !.start = IF live = <<>> THEN Slot(LogHead) ELSE @]
        /\ UNCHANGED <<home, txns, at>>
    BY DEF KernelAppend
  <1>2. PICK t, bs : Appends(t, reach, bs)
    BY AppendIs DEF IInv
  <1> DEFINE n == reach
  <1>3. Fits(t) /\ PartOf(bs, n, t) /\ log' = Written(LogHead, bs) /\ (Whole(t, bs) \/ Cut(t, n, bs))
    BY <1>2 DEF Appends
  <1>4. /\ LogHead \in Nat /\ LogTail \in Nat /\ LogTail <= LogHead
        /\ live # <<>> => LogTail = live[1].at
        /\ NextSeq \in Seqno /\ live \in Seq(Txn) /\ Len(live) \in Nat
        /\ live = <<>> => Len(live) = 0
        /\ live # <<>> => Len(live) \in 1 .. Len(live) /\ 1 \in 1 .. Len(live)
        /\ live # <<>> => NextSeq = live[Len(live)].seq + 1
    BY HeadIs DEF IInv
  <1>5. t \in Txn /\ t.at = LogHead /\ t.seq = NextSeq /\ Size(t) \in Nat \ {0}
        /\ LogHead + Size(t) - LogTail <= Area
    BY <1>3, LayoutIs DEF Fits
  <1>6. count \in [txns : Nat, crashes : Nat] /\ jsb \in Superblock
    BY DEF IInv, Shape
  <1>7. count' \in [txns : Nat, crashes : Nat] /\ count'.txns = count.txns + 1
    BY <1>3, <1>6 DEF Whole, Cut
  <1>8. NextSeq + 1 <= FirstSeq + count'.txns /\ count'.txns <= MaxTxns /\ NextSeq + 1 < SeqWrap
    <2> DEFINE c == count.txns
    <2>1. c \in Nat /\ NextSeq <= FirstSeq + c /\ c < MaxTxns /\ count'.txns = c + 1
      BY <1>1, <1>6, <1>7 DEF IInv, Held
    <2>2. NextSeq \in Nat /\ FirstSeq \in Nat /\ MaxTxns \in Nat /\ SeqWrap \in Nat
          /\ FirstSeq + MaxTxns < SeqWrap
      BY <1>4, RecoveryBounds, LogGeometry DEF Seqno, NoWrap
    <2> HIDE DEF c
    <2> QED
      BY <2>1, <2>2
  <1>9. ASSUME NEW s \in BodySlot
        PROVE  /\ log'[s] \in LogBlock
               /\ log'[s].kind = "commit" => log'[s] = log[s] \/ (log'[s] = bs[n] /\ n = Size(t))
    BY <1>3, WrittenGood DEF IInv
  <1>10. jsb' \in Superblock /\ jsb'.seq = jsb.seq
         /\ (live = <<>> => jsb'.start = Slot(LogHead)) /\ (live # <<>> => jsb' = jsb)
    <2>1. Slot(LogHead) \in BodySlot
      BY <1>4, SlotIn
    <2> QED
      BY <1>1, <1>6, <2>1 DEF Superblock
  <1>11. Shape'
    <2>1. GoodLog(log')
      BY <1>9 DEF GoodLog
    <2>2. log' = [s \in LogSlot |-> log'[s]]
      BY <1>3 DEF Written
    <2>3. phase' \in {"running", "dirty", "replaying", "clean", "failed"}
          /\ atCrash' \in [Block -> DataBlock]
      BY <1>1, <1>3 DEF IInv, Shape, Whole, Cut
    <2> QED
      BY <1>1, <1>7, <1>10, <2>1, <2>2, <2>3 DEF IInv, Shape
  <1>12. ASSUME NEW i \in 1 .. Len(live), NEW j \in 1 .. Size(live[i])
         PROVE  SameBlock(log'[Slot(live[i].at + j - 1)], Layout(live[i])[j])
    BY <1>3, StoredStays DEF IInv
  <1>13. CASE Whole(t, bs)
    <2> DEFINE m == Len(live)
    <2>1. /\ bs = Layout(t) /\ live' = Append(live, t) /\ phase' = "running" /\ atCrash' = atCrash
      BY <1>1, <1>13 DEF Whole
    <2>2. /\ live' \in Seq(Txn) /\ Len(live') = m + 1 /\ live'[m + 1] = t
          /\ \A i \in 1 .. m : live'[i] = live[i]
      BY <1>4, <1>5, <2>1, AppendProperties
    <2>3. live' # <<>>
      BY <1>4, <2>2, EmptySeq
    <2>4. LogHead' = LogHead + Size(t) /\ NextSeq' = NextSeq + 1
      <3>1. live'[Len(live')] = t
        BY <2>2
      <3>2. NextSeq' = SeqSucc(t.seq)
        BY <2>3, <3>1 DEF NextSeq
      <3> QED
        BY <1>4, <1>5, <1>8, <2>3, <3>1, <3>2, Successor DEF LogHead
    <2>5. Chained'
      <3>1. ASSUME NEW i \in 1 .. m
            PROVE  live'[i + 1].at = live'[i].at + Size(live'[i]) /\ live'[i + 1].seq = live'[i].seq + 1
        <4>1. CASE i = m
          <5>1. live # <<>> /\ live'[i] = live[m] /\ live'[i + 1] = t
            BY <1>4, <2>2, <4>1
          <5>2. LogHead = live[m].at + Size(live[m]) /\ NextSeq = live[m].seq + 1
            BY <1>4, <5>1 DEF LogHead
          <5> QED
            BY <1>5, <5>1, <5>2
        <4>2. CASE i # m
          <5>1. i \in 1 .. m - 1 /\ i + 1 \in 1 .. m
            BY <1>4, <4>2
          <5>2. live'[i] = live[i] /\ live'[i + 1] = live[i + 1]
            BY <2>2, <5>1
          <5> QED
            BY <5>1, <5>2 DEF IInv, Held, Chained
        <4> QED
          BY <4>1, <4>2
      <3>2. live'[Len(live')].seq + 1 < SeqWrap
        BY <1>5, <1>8, <2>2
      <3>3. LogHead' - live'[1].at <= Area
        <4>1. live'[1].at = LogTail
          <5>1. CASE live = <<>>
            BY <1>4, <1>5, <2>2, <5>1 DEF LogTail
          <5>2. CASE live # <<>>
            BY <1>4, <2>2, <5>2
          <5> QED
            BY <5>1, <5>2
        <4> QED
          <5> DEFINE x == LogHead'
                     y == live'[1].at
                     h == LogHead + Size(t)
          <5>1. x = h
            BY <2>4
          <5>3. y = LogTail
            BY <4>1
          <5>4. h - LogTail <= Area
            BY <1>4, <1>5
          <5>2. x - y <= Area
            <6> HIDE DEF x, y, h
            <6> QED
              BY <5>1, <5>3, <5>4
          <5> QED
            BY <5>2
      <3>4. Len(live') - 1 = m
        BY <1>4, <2>2
      <3> QED
        BY <2>2, <3>1, <3>2, <3>3, <3>4 DEF Chained
    <2>6. Stored'
      <3> SUFFICES ASSUME NEW i \in 1 .. m + 1, NEW j \in 1 .. Size(live'[i])
                   PROVE  SameBlock(log'[Slot(live'[i].at + j - 1)], Layout(live'[i])[j])
        BY <2>2 DEF Stored
      <3>1. CASE i = m + 1
        <4>1. live'[i] = t
          BY <2>2, <3>1
        <4>2. j \in 1 .. Size(t)
          BY <4>1
        <4>3. log'[Slot(t.at + j - 1)] = Layout(t)[j]
          BY <1>3, <2>1, <4>2, WholeStored DEF IInv
        <4> QED
          BY <4>1, <4>3 DEF SameBlock
      <3>2. CASE i # m + 1
        <4>1. i \in 1 .. m
          BY <1>4, <3>2
        <4>2. live'[i] = live[i]
          BY <2>2, <4>1
        <4> QED
          BY <1>12, <4>1, <4>2
      <3> QED
        BY <3>1, <3>2
    <2>7. Below(NextSeq)'
      <3> SUFFICES ASSUME NEW s \in BodySlot, log'[s].kind = "commit"
                   PROVE  (log'[s].ok => log'[s].seq < NextSeq + 1) /\ (~log'[s].ok => HasCsum)
        BY <2>4 DEF Below
      <3>1. CASE log'[s] = log[s]
        <4>1. (log[s].ok => log[s].seq < NextSeq) /\ (~log[s].ok => HasCsum) /\ log[s].seq \in Nat
          <5>1. log[s] \in LogBlock
            BY DEF IInv, Shape, GoodLog
          <5>2. log[s].seq \in Seqno
            BY <3>1, <5>1, Kinds
          <5> QED
            BY <3>1, <5>2 DEF IInv, Held, Below, Seqno
        <4>2. NextSeq \in Nat
          BY <1>4 DEF Seqno
        <4> QED
          BY <3>1, <4>1, <4>2
      <3>2. CASE log'[s] = bs[n] /\ n = Size(t)
        <4>1. log'[s] = [kind |-> "commit", seq |-> NextSeq, ok |-> TRUE]
          BY <1>5, <2>1, <3>2, LayoutIs DEF Commit
        <4>2. NextSeq \in Nat
          BY <1>4 DEF Seqno
        <4> QED
          BY <4>1, <4>2
      <3> QED
        BY <1>9, <3>1, <3>2
    <2>8. Tailed'
      <3>1. CASE live = <<>>
        <4>1. live'[1] = t /\ NextSeq = jsb.seq
          BY <1>4, <2>2, <3>1 DEF NextSeq
        <4> QED
          BY <1>4, <1>5, <1>10, <3>1, <4>1 DEF Tailed
      <3>2. CASE live # <<>>
        <4>1. live'[1] = live[1]
          BY <1>4, <2>2, <3>2
        <4> QED
          BY <1>1, <1>10, <3>2, <4>1 DEF IInv, Held, Tailed
      <3> QED
        BY <3>1, <3>2
    <2>9. Held'
      BY <1>8, <2>1, <2>4, <2>5, <2>6, <2>7, <2>8 DEF Held
    <2> QED
      BY <1>1, <1>11, <2>1, <2>9 DEF IInv, Kept, Replayed, Careful
  <1>14. CASE Cut(t, n, bs)
    <2>1. /\ n = Size(t) => HasCsum /\ bs[n] = [Commit(t.seq) EXCEPT !.ok = FALSE]
          /\ phase' = "dirty" /\ atCrash' = home /\ live' = live
      BY <1>14 DEF Cut
    <2>2. NextSeq' = NextSeq
      BY <1>10, <2>1 DEF NextSeq
    <2>3. Chained'
      <3>1. live # <<>> => LogHead' = LogHead
        BY <2>1 DEF LogHead
      <3> QED
        BY <2>1, <3>1 DEF IInv, Held, Chained
    <2>4. Stored'
      BY <1>12, <2>1 DEF Stored
    <2>5. Below(NextSeq)'
      <3> SUFFICES ASSUME NEW s \in BodySlot, log'[s].kind = "commit"
                   PROVE  (log'[s].ok => log'[s].seq < NextSeq) /\ (~log'[s].ok => HasCsum)
        BY <2>2 DEF Below
      <3>1. CASE log'[s] = log[s]
        BY <3>1 DEF IInv, Held, Below
      <3>2. CASE log'[s] = bs[n] /\ n = Size(t)
        <4>1. log'[s] = [kind |-> "commit", seq |-> t.seq, ok |-> FALSE] /\ HasCsum
          BY <2>1, <3>2 DEF Commit
        <4> QED
          BY <4>1
      <3> QED
        BY <1>9, <3>1, <3>2
    <2>6. Tailed'
      <3>1. CASE live = <<>>
        BY <1>10, <2>1, <3>1 DEF Tailed, Superblock
      <3>2. CASE live # <<>>
        BY <1>1, <1>10, <2>1, <3>2 DEF IInv, Held, Tailed
      <3> QED
        BY <3>1, <3>2
    <2>7. Held'
      <3>1. NextSeq' <= FirstSeq + count'.txns
        <4>1. NextSeq \in Nat /\ FirstSeq \in Nat /\ count'.txns \in Nat
          BY <1>4, <1>7, RecoveryBounds DEF Seqno
        <4> QED
          BY <1>8, <2>2, <4>1
      <3> QED
        BY <1>8, <2>1, <2>2, <2>3, <2>4, <2>5, <2>6, <3>1 DEF Held
    <2>8. Kept' /\ Replayed' /\ Careful'
      BY <1>1, <2>1 DEF IInv, Kept, Replayed, Careful
    <2> QED
      BY <1>11, <2>7, <2>8 DEF IInv
  <1> QED
    BY <1>3, <1>13, <1>14

-----------------------------------------------------------------------------
(* Recovery: the theorems. *)

\* The fresh journal is empty.
LEMMA RecoveryBegins == RecoveryInit => IInv
  <1> SUFFICES ASSUME RecoveryInit PROVE IInv
    OBVIOUS
  <1>1. /\ log = [s \in LogSlot |-> Blank] /\ jsb = [kind |-> "jsb", seq |-> FirstSeq, start |-> 0]
        /\ home = [b \in Block |-> Blank] /\ live = <<>> /\ phase = "running" /\ txns = <<>>
        /\ at = LoopStart /\ atCrash = home /\ count = [txns |-> 0, crashes |-> 0]
    BY DEF RecoveryInit, JournalSb
  <1>2. Blank \in DataBlock /\ Blank \in LogBlock /\ Blank.kind = "data"
    <2>1. [kind |-> "data", txn |-> 0] \in [kind : {"data"}, txn : Nat]
      OBVIOUS
    <2> QED
      BY <2>1 DEF Blank, DataBlock, LogBlock
  <1>3. BodySlot \subseteq LogSlot
    BY LogGeometry DEF BodySlot, LogSlot
  <1>4. \A s \in BodySlot : log[s] = Blank
    BY <1>1, <1>3
  <1>5. FirstSeq \in Seqno /\ FirstSeq \in Nat /\ MaxTxns \in Nat
    BY RecoveryBounds DEF Seqno
  <1>6. Shape
    <2>1. log = [s \in LogSlot |-> log[s]]
      BY <1>1
    <2>2. GoodLog(log)
      BY <1>2, <1>4 DEF GoodLog
    <2>3. jsb \in Superblock
      BY <1>1, <1>5 DEF Superblock
    <2>4. home \in [Block -> DataBlock]
      BY <1>1, <1>2
    <2>5. at \in [txn : Nat \ {0}, block : Nat \ {0}] /\ count \in [txns : Nat, crashes : Nat]
      BY <1>1 DEF LoopStart
    <2>6. txns \in Seq(Found)
      BY <1>1
    <2> QED
      BY <1>1, <2>1, <2>2, <2>3, <2>4, <2>5, <2>6 DEF Shape
  <1>7. NextSeq = FirstSeq /\ Len(live) = 0
    BY <1>1 DEF NextSeq
  <1>8. Held
    <2>1. Chained
      BY <1>1, <1>7 DEF Chained
    <2>2. Stored
      BY <1>7 DEF Stored
    <2>3. Below(NextSeq)
      BY <1>2, <1>4 DEF Below
    <2>4. Tailed
      BY <1>1, <1>5 DEF Tailed
    <2>5. count.txns = 0 /\ NextSeq <= FirstSeq + count.txns
      BY <1>1, <1>5, <1>7
    <2> QED
      BY <1>1, <1>5, <2>1, <2>2, <2>3, <2>4, <2>5 DEF Held
  <1> QED
    BY <1>1, <1>6, <1>8 DEF IInv, Kept, Replayed, Careful

\* A step that changes nothing.
LEMMA RecoveryStays == ASSUME IInv, UNCHANGED recoveryVars PROVE IInv'
  <1>1. UNCHANGED <<log, jsb, home, live, phase, txns, at, atCrash, count>>
    BY DEF recoveryVars
  <1>2. Shape'
    BY <1>1 DEF IInv, Shape, GoodLog
  <1>3. Held'
    BY <1>1, HeldStays DEF IInv, Held
  <1>4. ASSUME NEW b, NEW j PROVE Survives(j, b)' <=> Survives(j, b)
    BY <1>1 DEF Survives
  <1>5. Kept'
    BY <1>1, <1>4 DEF IInv, Kept, HasCopy
  <1>6. ASSUME NEW b, NEW j PROVE Reached(j, b)' <=> Reached(j, b)
    BY <1>1 DEF Reached
  <1>7. Replayed'
    BY <1>1, <1>4, <1>6 DEF IInv, Replayed
  <1>8. Careful'
    <2>1. Trusted' = Trusted
      BY <1>1 DEF Trusted
    <2>2. DecodedTo(txns, Len(live))' = DecodedTo(txns, Len(live))
      BY <1>1 DEF DecodedTo, Decodes, Collects, Revokes
    <2> QED
      BY <1>1, <2>1, <2>2 DEF IInv, Careful
  <1> QED
    BY <1>2, <1>3, <1>5, <1>7, <1>8 DEF IInv

\* Every step of the writer and of recovery.
LEMMA RecoveryStep == ASSUME NoWrap, IInv, [RecoveryNext]_recoveryVars PROVE IInv'
  <1>1. CASE UNCHANGED recoveryVars
    BY <1>1, RecoveryStays
  <1>2. CASE Kernel
    <2>1. CASE \E order \in Orders, revokes \in SUBSET Block, data \in Contents(count.txns + 1, NextSeq),
                  split, torn \in BOOLEAN, reach \in 1 .. MaxLen :
                      KernelAppend(order, data, revokes, split, reach, torn)
      BY <2>1, AppendKeeps
    <2>2. CASE KernelCheckpoint
      BY <2>2, CheckpointKeeps
    <2>3. CASE \E b \in Block : KernelReuse(b)
      BY <2>3, ReuseKeeps
    <2>4. CASE \E rot \in {{}} \cup {{s} : s \in RevokeSlot} : Crash(rot)
      BY <2>4, CrashKeeps
    <2>5. CASE Remount
      BY <2>5, RemountKeeps
    <2> QED
      BY <1>2, <2>1, <2>2, <2>3, <2>4, <2>5 DEF Kernel
  <1>3. CASE Recover
    BY <1>3, ScanKeeps, BlockKeeps, TxnKeeps, ClearKeeps DEF Recover
  <1> QED
    BY <1>1, <1>2, <1>3 DEF RecoveryNext

\* The log holds the live transactions, the scan reads them back, and recovery
\* is where the invariant says, whatever crashes come between.
THEOREM RecoveryInvariance == ASSUME NoWrap PROVE RecoverySpec => []IInv
  <1>1. IInv /\ [RecoveryNext]_recoveryVars => IInv'
    BY RecoveryStep
  <1> QED
    BY RecoveryBegins, <1>1, PTL DEF RecoverySpec

\* What recover leaves in the home blocks is what the committed transactions in
\* the log say, for every log, crash and crash in recovery.
THEOREM ReplayIsExactHolds == ASSUME NoWrap PROVE RecoverySpec => []ReplayIsExact
  <1>1. ASSUME IInv PROVE ReplayIsExact
    <2> SUFFICES ASSUME phase = "clean", NEW b \in Block PROVE home[b] = Wanted(b)
      BY DEF ReplayIsExact
    <2> DEFINE keep == {i \in DOMAIN live : Survives(i, b)}
    <2>1. Len(live) \in Nat /\ DOMAIN live = 1 .. Len(live)
      BY <1>1 DEF IInv, Held, Chained
    <2>2. CASE keep = {}
      <3>1. ~HasCopy(b)
        BY <2>1, <2>2 DEF HasCopy
      <3> QED
        BY <1>1, <2>2, <3>1 DEF IInv, Kept, Wanted
    <2>3. CASE keep # {}
      <3>1. PICK i \in keep : TRUE
        BY <2>3
      <3>2. ASSUME NEW j \in keep PROVE j = i
        BY <2>1, <3>1, OneCopy
      <3>3. home[b] = live[i].data
        BY <1>1, <2>1, <3>1 DEF IInv, Replayed
      <3> HIDE DEF keep
      <3>4. (CHOOSE j \in keep : TRUE) = i
        BY <2>3, <3>2
      <3>5. Wanted(b) = live[CHOOSE j \in keep : TRUE].data
        BY <2>3 DEF Wanted, keep
      <3> QED
        BY <3>3, <3>4, <3>5
    <2> QED
      BY <2>2, <2>3
  <1> QED
    BY RecoveryInvariance, <1>1, PTL

\* The types, and that after recovery no complete transaction in the log carries
\* the number the next one will take.
THEOREM RecoveryInvHolds == ASSUME NoWrap PROVE RecoverySpec => []RecoveryInv
  <1>1. ASSUME IInv PROVE RecoveryInv
    <2>1. RecoveryTypeOK
      <3>1. DOMAIN log = LogSlot
        BY <1>1 DEF IInv, Shape
      <3>2. jsb.kind = "jsb" /\ jsb.seq \in 0 .. SeqWrap - 1 /\ jsb.start \in {0} \cup BodySlot
        BY <1>1 DEF IInv, Shape, Superblock, Seqno
      <3>3. ASSUME NEW i \in DOMAIN live PROVE live[i].order \in Seq(Block) /\ live[i].revokes \subseteq Block
        <4>1. Chained /\ i \in 1 .. Len(live)
          BY <1>1 DEF IInv, Held, Chained
        <4>2. live[i] \in Txn
          BY <4>1, LiveIs
        <4> QED
          BY <4>2, TxnFields
      <3>4. ASSUME NEW i \in DOMAIN txns, NEW lb \in Range(txns[i].blocks) PROVE lb.block \in Block
        <4>1. txns \in Seq(Found) /\ i \in 1 .. Len(txns)
          BY <1>1 DEF IInv, Shape
        <4>2. txns[i] \in Found
          BY <4>1, ElementOfSeq
        <4>3. txns[i].blocks \in Seq(Logged)
          BY <4>2 DEF Found
        <4>4. PICK k \in DOMAIN txns[i].blocks : lb = txns[i].blocks[k]
          BY DEF Range
        <4>5. k \in 1 .. Len(txns[i].blocks)
          BY <4>3, <4>4
        <4>6. lb \in Logged
          <5> HIDE DEF Logged
          <5> QED
            BY <4>3, <4>4, <4>5, ElementOfSeq
        <4> QED
          BY <4>6 DEF Logged
      <3> QED
        BY <1>1, <3>1, <3>2, <3>3, <3>4 DEF IInv, Shape, RecoveryTypeOK
    <2>2. SequenceIsFresh
      <3> SUFFICES ASSUME phase = "clean", NEW s \in BodySlot, log[s].kind = "commit", log[s].ok
                   PROVE  log[s].seq # jsb.seq
        BY DEF SequenceIsFresh
      <3>1. log[s].seq < NextSeq /\ jsb.seq = NextSeq
        BY <1>1 DEF IInv, Held, Below
      <3>2. log[s].seq \in Nat
        <4>1. log[s] \in LogBlock
          BY <1>1 DEF IInv, Shape, GoodLog
        <4> QED
          BY <4>1, Kinds DEF Seqno
      <3> QED
        BY <3>1, <3>2
    <2> QED
      BY <2>1, <2>2 DEF RecoveryInv
  <1> QED
    BY RecoveryInvariance, <1>1, PTL

-----------------------------------------------------------------------------
(* Recovery: refusing.  This does not depend on the order of the numbers. *)

Refuses ==
    /\ log = [s \in LogSlot |-> log[s]]
    /\ phase = "dirty" => (home = atCrash \/ Trusted)
    /\ phase = "replaying" => Trusted
    /\ phase = "failed" => home = atCrash /\ jsb.start # 0

\* No step of either takes this away.
LEMMA RefusesStep == ASSUME Refuses, [RecoveryNext]_recoveryVars PROVE Refuses'
  <1>1. (log' = log /\ jsb' = jsb) => Trusted' = Trusted
    BY DEF Trusted
  <1>2. CASE UNCHANGED recoveryVars
    BY <1>1, <1>2 DEF Refuses, recoveryVars
  <1>3. CASE Kernel
    <2>1. ASSUME NEW order, NEW data, NEW revokes, NEW split, NEW reach, NEW torn,
                 KernelAppend(order, data, revokes, split, reach, torn)
          PROVE  Refuses'
      <3>1. log' = [s \in LogSlot |-> log'[s]]
        <4>1. ASSUME NEW p, NEW blocks
              PROVE  Written(p, blocks) = [s \in LogSlot |-> Written(p, blocks)[s]]
          BY DEF Written
        <4> DEFINE new  == [seq |-> NextSeq, at |-> LogHead, order |-> order, data |-> data,
                            revokes |-> revokes, split |-> split]
                   part == SubSeq(Layout(new), 1, reach)
                   blks == IF torn THEN [part EXCEPT ![Size(new)].ok = FALSE] ELSE part
        <4>2. log' = Written(LogHead, blks)
          BY <2>1, Zenon DEF KernelAppend
        <4> HIDE DEF blks
        <4>3. Written(LogHead, blks) = [s \in LogSlot |-> Written(LogHead, blks)[s]]
          BY <4>1
        <4> QED
          BY <4>2, <4>3
      <3>2. phase = "running" /\ home' = home
            /\ (phase' = phase \/ (phase' = "dirty" /\ atCrash' = home))
        BY <2>1 DEF KernelAppend
      <3> QED
        BY <3>1, <3>2 DEF Refuses
    <2>2. CASE KernelCheckpoint
      BY <2>2 DEF KernelCheckpoint, Refuses
    <2>3. CASE \E b \in Block : KernelReuse(b)
      BY <2>3 DEF KernelReuse, Refuses
    <2>4. ASSUME NEW rot, Crash(rot) PROVE Refuses'
      <3>1. /\ phase' = "dirty" /\ home' = home /\ jsb' = jsb
            /\ log' = [s \in LogSlot |-> IF s \in rot THEN [log[s] EXCEPT !.ok = FALSE] ELSE log[s]]
            /\ atCrash' = IF phase = "running" THEN home ELSE atCrash
            /\ phase \in {"running", "replaying"} /\ (rot # {} => phase = "running")
        BY <2>4 DEF Crash
      <3>2. log' = [s \in LogSlot |-> log'[s]]
        BY <3>1
      <3>3. CASE phase = "running"
        BY <3>1, <3>2, <3>3 DEF Refuses
      <3>4. CASE phase = "replaying"
        <4>1. log' = log
          BY <3>1, <3>4 DEF Refuses
        <4> QED
          BY <1>1, <3>1, <3>2, <3>4, <4>1 DEF Refuses
      <3> QED
        BY <3>1, <3>3, <3>4
    <2>5. CASE Remount
      BY <2>5 DEF Remount, Refuses
    <2> QED
      BY <1>3, <2>1, <2>2, <2>3, <2>4, <2>5 DEF Kernel
  <1>4. CASE Recover
    <2>1. CASE RecoverScan
      <3> DEFINE found == Scan(log, jsb)
      <3>1. phase = "dirty" /\ UNCHANGED <<log, jsb, home, atCrash>>
        BY <2>1 DEF RecoverScan
      <3>2. \/ phase' = "clean"
            \/ found # <<>> /\ RevokeTableFails(log, found) /\ phase' = "failed"
            \/ found # <<>> /\ ~RevokeTableFails(log, found) /\ phase' = "replaying"
        BY <2>1 DEF RecoverScan
      <3>3. phase' = "failed" => ~Trusted /\ jsb.start # 0
        BY <3>2 DEF Trusted, Scan
      <3>4. phase' = "replaying" => Trusted
        BY <3>2 DEF Trusted
      <3> HIDE DEF found
      <3> QED
        BY <1>1, <3>1, <3>2, <3>3, <3>4 DEF Refuses
    <2>2. CASE RecoverBlock
      BY <1>1, <2>2 DEF RecoverBlock, Refuses
    <2>3. CASE RecoverTxn
      BY <1>1, <2>3 DEF RecoverTxn, Refuses
    <2>4. CASE RecoverClear
      BY <2>4 DEF RecoverClear, Refuses
    <2> QED
      BY <1>4, <2>1, <2>2, <2>3, <2>4 DEF Recover
  <1> QED
    BY <1>2, <1>3, <1>4 DEF RecoveryNext

\* A log whose revoke blocks cannot be trusted is refused before the first home
\* write, whatever the log holds.
THEOREM RefusedUntouched == RecoverySpec => []FailsBeforeWriting
  <1>1. RecoveryInit => Refuses
    BY DEF RecoveryInit, Refuses
  <1>2. Refuses /\ [RecoveryNext]_recoveryVars => Refuses'
    BY RefusesStep
  <1>3. Refuses => FailsBeforeWriting
    BY DEF Refuses, FailsBeforeWriting
  <1> QED
    BY <1>1, <1>2, <1>3, PTL DEF RecoverySpec

=============================================================================
