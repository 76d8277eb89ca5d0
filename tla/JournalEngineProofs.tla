------------------------- MODULE JournalEngineProofs -------------------------
(***************************************************************************)
(* The journaling engine, for every set of blocks and images, every log    *)
(* that holds a transaction, every nesting and every crash.                *)
(*                                                                         *)
(* NoStaleCommit says what a scan of the durable log finds, and is not     *)
(* inductive: whether the commit block the engine writes next is the only  *)
(* one that counts depends on every number that is in the log already      *)
(* (Numbers) and on the transaction a counting one belongs to being whole  *)
(* (Sealed); what the next flush or crash makes of the disk depends on     *)
(* what is in the write cache (Unflushed) and on how far the engine is     *)
(* (Phases).  The proof goes along the data: the order of the blocks, the  *)
(* body, what the walk of the scan does at each of its blocks, what the    *)
(* revoke table and the replay make of a transaction found; then the disk  *)
(* after any subset of the cached writes; then the engine, step by step.   *)
(*                                                                         *)
(* From the same invariant the engine implements JournalProtocol: the home *)
(* blocks, the body at s_first and the commit blocks of any disk a flush   *)
(* or a crash makes are read as the protocol reads them.  With the facts   *)
(* JournalProtocolProofs proves of the protocol it then implements         *)
(* TxnStore.                                                               *)
(***************************************************************************)
EXTENDS Journal, SequenceTheorems, FiniteSetTheorems, WellFoundedInduction, TLAPS

-----------------------------------------------------------------------------
(* Numbers and functions. *)

\* Quotient and remainder.
LEMMA Division ==
    ASSUME NEW n \in Nat, NEW m \in Nat \ {0}
    PROVE  n \div m \in Nat /\ n % m \in 0 .. m - 1 /\ n = (n \div m) * m + (n % m)
  OBVIOUS

\* They are the only ones.
LEMMA DivisionIsUnique ==
    ASSUME NEW m \in Nat \ {0}, NEW g \in Nat, NEW i \in 0 .. m - 1
    PROVE  (g * m + i) \div m = g /\ (g * m + i) % m = i
  OBVIOUS

\* A set of naturals that is not empty has a least element.
LEMMA LeastExists ==
    ASSUME NEW S \in SUBSET Nat, S # {}
    PROVE  \E x \in S : \A y \in S : x <= y
  <1> DEFINE R == OpToRel(<, Nat)
  <1>1. \E x \in S : \A y \in S : ~(<<y, x>> \in R)
    <2>1. IsWellFoundedOn(R, Nat)
      BY NatLessThanWellFounded
    <2> HIDE DEF R
    <2> QED
      BY <2>1, WFMin
  <1>2. PICK x \in S : \A y \in S : ~(<<y, x>> \in R)
    BY <1>1
  <1>3. \A y \in S : x <= y
    <2> SUFFICES ASSUME NEW y \in S PROVE ~(y < x)
      OBVIOUS
    <2> SUFFICES ASSUME y < x PROVE FALSE
      OBVIOUS
    <2>1. y \in Nat /\ x \in Nat
      BY <1>2
    <2>2. <<y, x>> \in R
      BY <2>1 DEF OpToRel
    <2> QED
      BY <1>2, <2>2
  <1> QED
    BY <1>2, <1>3

\* What holds of 0, and of each number up to n whose predecessor it holds of,
\* holds up to n.
LEMMA UpTo ==
    ASSUME NEW n \in Nat, NEW S, 0 \in S, \A k \in 1 .. n : k - 1 \in S => k \in S
    PROVE  0 .. n \subseteq S
  <1> DEFINE bad == {k \in 0 .. n : k \notin S}
  <1> SUFFICES ASSUME bad # {} PROVE FALSE
    OBVIOUS
  <1>1. bad \in SUBSET Nat
    OBVIOUS
  <1> HIDE DEF bad
  <1>2. PICK k \in bad : \A y \in bad : k <= y
    BY <1>1, LeastExists
  <1>3. k \in 0 .. n /\ k \notin S /\ k # 0
    BY <1>2 DEF bad
  <1>4. k - 1 \in 0 .. n /\ ~(k <= k - 1)
    BY <1>3
  <1>5. k - 1 \in S
    BY <1>2, <1>4 DEF bad
  <1> QED
    BY <1>3, <1>5

\* The functions on 0 .. n that begin with a and go on by F.
Stepwise(n, V, a, F) ==
    {f \in [0 .. n -> V] : f[0] = a /\ \A k \in 1 .. n : f[k] = F[<<k, f[k - 1]>>]}

StaysIn(n, V, F) == \A k \in 1 .. n : \A v \in V : F[<<k, v>>] \in V

\* A function is defined by its first value and its steps.
LEMMA StepwiseExists ==
    ASSUME NEW n \in Nat, NEW V, NEW a \in V, NEW F, StaysIn(n, V, F)
    PROVE  \E f : f \in Stepwise(n, V, a, F)
  <1> DEFINE Is(f, m) == /\ f \in [0 .. m -> V] /\ f[0] = a
                         /\ \A k \in 1 .. m : f[k] = F[<<k, f[k - 1]>>]
             S == {m \in 0 .. n : \E f \in [0 .. m -> V] : Is(f, m)}
  <1>1. 0 \in S
    <2> DEFINE f == [k \in 0 .. 0 |-> a]
    <2>1. Is(f, 0) /\ f \in [0 .. 0 -> V]
      OBVIOUS
    <2> HIDE DEF f, Is
    <2>2. \E h \in [0 .. 0 -> V] : Is(h, 0)
      BY <2>1
    <2> QED
      BY <2>2
  <1>2. ASSUME NEW m \in 1 .. n, m - 1 \in S
        PROVE  m \in S
    <2>1. PICK f \in [0 .. m - 1 -> V] : Is(f, m - 1)
      BY <1>2
    <2> DEFINE g == [k \in 0 .. m |-> IF k = m THEN F[<<m, f[m - 1]>>] ELSE f[k]]
    <2>2. f[m - 1] \in V
      OBVIOUS
    <2>3. F[<<m, f[m - 1]>>] \in V
      BY <2>2 DEF StaysIn
    <2>4. g \in [0 .. m -> V] /\ g[0] = a
      BY <2>1, <2>3
    <2>5. ASSUME NEW k \in 1 .. m
          PROVE  g[k] = F[<<k, g[k - 1]>>]
      <3>1. g[k - 1] = f[k - 1]
        OBVIOUS
      <3>2. CASE k = m
        <4>1. g[k] = F[<<m, f[m - 1]>>]
          BY <3>2
        <4> HIDE DEF g
        <4> QED
          BY <3>1, <3>2, <4>1
      <3>3. CASE k # m
        <4>1. k \in 1 .. m - 1 /\ g[k] = f[k]
          BY <3>3
        <4> QED
          BY <2>1, <3>1, <4>1
      <3> QED
        BY <3>2, <3>3
    <2> HIDE DEF g
    <2>6. Is(g, m)
      BY <2>4, <2>5
    <2> QED
      BY <2>4, <2>6
  <1> HIDE DEF S
  <1>3. n \in S
    BY <1>1, <1>2, UpTo
  <1> QED
    BY <1>3 DEF S, Stepwise

\* A set of naturals with an upper bound that is not empty has a greatest element.
LEMMA GreatestExists ==
    ASSUME NEW S \in SUBSET Nat, S # {}, NEW n \in Nat, \A x \in S : x <= n
    PROVE  \E x \in S : \A y \in S : y <= x
  <1> DEFINE up == {n - x : x \in S}
  <1>1. up \in SUBSET Nat
    OBVIOUS
  <1>5. up # {}
    <2>1. PICK x : x \in S
      OBVIOUS
    <2>2. n - x \in up
      BY <2>1
    <2> QED
      BY <2>2
  <1>2. PICK u \in up : \A v \in up : u <= v
    <2> HIDE DEF up
    <2> QED
      BY <1>1, <1>5, LeastExists
  <1>3. PICK x \in S : u = n - x
    BY <1>2
  <1>4. \A y \in S : y <= x
    <2> SUFFICES ASSUME NEW y \in S PROVE y <= x
      OBVIOUS
    <2>1. n - y \in up
      OBVIOUS
    <2>2. n - x <= n - y
      BY <1>2, <1>3, <2>1
    <2> QED
      BY <2>2
  <1> QED
    BY <1>4


-----------------------------------------------------------------------------
(* The invariant. *)

Area  == MaxLen - First
Seqno == 0 .. SeqWrap - 1

\* Contents of home blocks, and of log blocks.
SuperBlock  == [kind : {"super"}, recover : BOOLEAN, image : Image]
HomeType(b) == IF b = SbBlock THEN SuperBlock ELSE Image
TagType     == [block : Home, escaped : BOOLEAN]
PlainBlock  == {i \in Image : ~HasMagic(i)} \cup SuperBlock \cup {Torn} \cup [kind : {"escaped"}, of : Image]
LogBlock    == PlainBlock \cup [kind : {"descriptor"}, seq : Seqno, tags : Seq(TagType)]
                 \cup [kind : {"revoke"}, seq : Seqno, blocks : SUBSET Freed, ok : {TRUE}]
                 \cup [kind : {"commit"}, seq : Seqno, ok : {TRUE}]

\* A transaction, and one that is being committed.
IsTxn(t) == /\ t = [seq |-> t.seq, blocks |-> t.blocks, revokes |-> t.revokes]
            /\ t.seq \in Seqno /\ t.revokes \in SUBSET Freed
            /\ t.blocks = [b \in DOMAIN t.blocks |-> t.blocks[b]]
            /\ DOMAIN t.blocks \in SUBSET Home /\ IsFiniteSet(DOMAIN t.blocks)
            /\ \A b \in DOMAIN t.blocks : t.blocks[b] \in HomeType(b)
IsReady(t) == /\ IsTxn(t)
              /\ SbBlock \in DOMAIN t.blocks /\ t.blocks[SbBlock].recover
              /\ Cardinality(DOMAIN t.blocks) <= Capacity

\* Its body is in the log; so is its commit block.
BodyLogged(t) == \A k \in 1 .. Len(Body(t)) : disk[LogAddr(First + k - 1)] = Body(t)[k]
Logged(t)     == BodyLogged(t) /\ disk[LogAddr(First + Len(Body(t)))] = Commit(t.seq)

LogSeq == disk[LogAddr(0)].seq
Active == disk[LogAddr(0)].start = First

\* A commit block of the current number is in the log.
HasCommit == \E s \in BodySlot : /\ disk[LogAddr(s)].kind = "commit"
                                 /\ disk[LogAddr(s)].seq = LogSeq

DiskType ==
    /\ disk = [a \in Addr |-> disk[a]]
    /\ disk[LogAddr(0)] \in [kind : {"jsb"}, seq : Seqno, start : {0, First}]
    /\ disk[HomeAddr(SbBlock)] \in SuperBlock
    /\ \A b \in Data : disk[HomeAddr(b)] \in Image \cup {Torn}
    /\ \A s \in BodySlot : disk[LogAddr(s)] \in LogBlock

Preparing  == {"write_body", "flush_body"}
Activating == {"mark_active", "flush_active"}
Sealing    == {"write_commit", "flush_commit"}
Flagging   == {"set_recover", "flush_recover"}
Applying   == {"checkpoint", "flush_checkpoint", "mark_clean", "flush_clean"}
Replaying  == {"flush_replay", "clear_journal", "flush_clear"}
Ending     == {"clear_recover", "flush_done"}
Pipeline   == Preparing \cup Activating \cup Sealing \cup Flagging \cup Applying

\* A transaction has been begun with the current number.
Taken == depth > 0 \/ pc \in Pipeline \/ HasCommit

\* The numbers in the log.
Numbers ==
    /\ count \in [txns : Nat, crashes : Nat] /\ count.txns <= MaxTxns
    /\ Unwrapped(LogSeq) <= FirstSeq + count.txns
    /\ Taken => Unwrapped(LogSeq) < FirstSeq + count.txns
    /\ \A s \in BodySlot : disk[LogAddr(s)].kind \in {"descriptor", "commit"}
                               => Unwrapped(disk[LogAddr(s)].seq) <= Unwrapped(LogSeq)

\* One that counts is that of a whole transaction.
Sealed == HasCommit => Active /\ \E t : IsReady(t) /\ t.seq = LogSeq /\ Logged(t)

\* What is on disk at each step.
Phases ==
    /\ pc \in {"running", "off"} \cup Pipeline \cup Replaying \cup Ending
    /\ depth \in 0 .. MaxDepth /\ (depth > 0 => pc = "running")
    /\ IsTxn(txn)
    /\ depth > 0 \/ pc \in Pipeline => txn.seq = LogSeq
    /\ pc \in Pipeline => IsReady(txn)
    /\ pc \in {"running"} \cup Preparing \cup Activating \cup Sealing \cup Ending => ~HasCommit
    /\ pc \in Activating \cup Sealing => BodyLogged(txn)
    /\ pc \in Sealing \cup Flagging \cup Applying => Active
    /\ pc \in Flagging \cup Applying => Logged(txn)
    /\ pc \in Applying => disk[HomeAddr(SbBlock)].recover
    /\ pc \in Replaying => HasCommit

\* What is written and not flushed.
LogWrites(slots, g(_)) == [a \in {LogAddr(s) : s \in slots} |-> g(a[2])]
JsbWrite(seq, start)   == LET g(s) == JournalSb(seq, start) IN LogWrites({0}, g)
HomeImage(f)           == [a \in {HomeAddr(b) : b \in DOMAIN f} |-> f[a[2]]]
RecoverWrite(on) == HomeImage([b \in {SbBlock} |-> [disk[HomeAddr(SbBlock)] EXCEPT !.recover = on]])

Unflushed ==
    /\ pc \in {"running", "off", "write_body", "mark_active", "write_commit", "set_recover",
               "checkpoint", "mark_clean", "clear_recover", "clear_journal"} => cache = Empty
    /\ pc = "flush_body" =>
          cache = LET g(s) == Body(txn)[s - First + 1]
                  IN  LogWrites(First .. First + Len(Body(txn)) - 1, g)
    /\ pc = "flush_active" => cache = JsbWrite(txn.seq, First)
    /\ pc = "flush_commit" =>
          cache = LET g(s) == Commit(txn.seq) IN LogWrites({First + Len(Body(txn))}, g)
    /\ pc = "flush_recover" => cache = RecoverWrite(TRUE)
    /\ pc = "flush_checkpoint" => cache = HomeImage(txn.blocks)
    /\ pc = "flush_clean" => cache = JsbWrite(SeqSucc(txn.seq), 0)
    /\ pc = "flush_done" => cache = RecoverWrite(FALSE)
    /\ pc = "flush_replay" => cache = HomeImage(HomeWrites(DiskLog, Committed))
    /\ pc = "flush_clear" => cache = JsbWrite(SeqSucc(LogSeq), 0)

IInv == DiskType /\ Numbers /\ Sealed /\ Phases /\ Unflushed


-----------------------------------------------------------------------------
(* Places in the log. *)

\* The log area, in numbers (LogGeometry).
LEMMA AreaIs == Area \in Nat \ {0} /\ First \in Nat \ {0} /\ MaxLen = First + Area
  BY LogGeometry DEF Area

\* The log cursor stays in the log area (scan, mod.rs:180).
LEMMA AheadIn ==
    ASSUME NEW c \in BodySlot, NEW k \in Nat
    PROVE  Ahead(c, k) \in BodySlot
  <1> DEFINE p == c - First + k
  <1>1. p \in Nat
    BY AreaIs DEF BodySlot
  <1>2. p % Area \in 0 .. Area - 1
    BY <1>1, AreaIs, Division
  <1>3. Ahead(c, k) = First + (p % Area)
    BY DEF Ahead, Area
  <1> HIDE DEF p, Area
  <1> QED
    BY <1>2, <1>3, AreaIs DEF BodySlot

\* A transaction does not reach the end of the area.
LEMMA AheadFirst ==
    ASSUME NEW k \in 0 .. Area - 1
    PROVE  Ahead(First, k) = First + k /\ First + k \in BodySlot
  <1>1. k \in Nat /\ First - First + k = k
    BY AreaIs
  <1>2. (0 * Area + k) % Area = k /\ 0 * Area + k = k
    BY <1>1, AreaIs, DivisionIsUnique
  <1>3. Ahead(First, k) = First + (k % Area)
    BY <1>1 DEF Ahead, Area
  <1>4. k % Area = k
    BY <1>2
  <1> HIDE DEF Area
  <1> QED
    BY <1>3, <1>4, AreaIs DEF BodySlot

\* One block further is one block ahead.
LEMMA AdvanceIs ==
    ASSUME NEW c \in BodySlot
    PROVE  Advance(c) = Ahead(c, 1)
  <1> DEFINE x == c - First
  <1>1. x \in 0 .. Area - 1 /\ c = First + x
    BY AreaIs DEF BodySlot
  <1>2. Ahead(c, 1) = First + ((x + 1) % Area)
    BY DEF Ahead, Area
  <1>3. CASE x + 1 = Area
    <2>1. (1 * Area + 0) % Area = 0 /\ 1 * Area + 0 = Area
      BY AreaIs, DivisionIsUnique
    <2>2. (x + 1) % Area = 0
      BY <1>3, <2>1
    <2>3. Advance(c) = First
      BY <1>1, <1>3, AreaIs DEF Advance
    <2> QED
      BY <1>2, <2>2, <2>3, AreaIs
  <1>4. CASE x + 1 # Area
    <2>1. PICK i \in 0 .. Area - 1 : i = x + 1
      BY <1>1, <1>4, AreaIs
    <2>2. (0 * Area + i) % Area = i /\ 0 * Area + i = i
      BY <2>1, AreaIs, DivisionIsUnique
    <2>3. (x + 1) % Area = x + 1
      BY <2>1, <2>2
    <2>4. Advance(c) = c + 1
      BY <1>1, <1>4, AreaIs DEF Advance
    <2> QED
      BY <1>1, <1>2, <2>3, <2>4, AreaIs
  <1> QED
    BY <1>3, <1>4

\* The log body and the journal superblock are apart.
LEMMA SlotsAre ==
    /\ BodySlot \subseteq LogSlot /\ 0 \in LogSlot /\ 0 \notin BodySlot /\ First \in BodySlot
    /\ BodySlot \subseteq Nat
  BY AreaIs DEF BodySlot, LogSlot

\* The home blocks are numbers, that of the superblock among them.
LEMMA HomeIs == Home \in SUBSET Nat /\ SbBlock \in Home /\ Data \in SUBSET Home
                /\ (\A b \in Data : b # SbBlock)
  BY JournalBounds DEF Home, SbBlock

\* Addresses are different.
LEMMA Addresses ==
    /\ \A s, r : LogAddr(s) = LogAddr(r) => s = r
    /\ \A b, c : HomeAddr(b) = HomeAddr(c) => b = c
    /\ \A s, b : LogAddr(s) # HomeAddr(b)
    /\ \A s : LogAddr(s)[2] = s /\ HomeAddr(s)[2] = s
    /\ \A s \in LogSlot : LogAddr(s) \in Addr
    /\ \A b \in Home : HomeAddr(b) \in Addr
  BY DEF LogAddr, HomeAddr, Addr

\* The number of a block as it counts on, and the one after it.
LEMMA Counting ==
    ASSUME NEW s \in Seqno
    PROVE  /\ Unwrapped(s) \in FirstSeq .. FirstSeq + SeqWrap - 1
           /\ SeqSucc(s) \in Seqno
           /\ Unwrapped(s) + 1 < FirstSeq + SeqWrap => Unwrapped(SeqSucc(s)) = Unwrapped(s) + 1
  <1>1. SeqWrap \in Nat /\ 1 < SeqWrap /\ s \in Nat /\ s < SeqWrap /\ FirstSeq \in Nat /\ FirstSeq < SeqWrap
    BY LogGeometry, JournalBounds DEF Seqno
  <1>2. Unwrapped(s) \in FirstSeq .. FirstSeq + SeqWrap - 1
    BY <1>1 DEF Unwrapped
  <1>3. CASE s + 1 < SeqWrap
    <2>1. PICK i \in 0 .. SeqWrap - 1 : i = s + 1
      BY <1>1, <1>3
    <2>3. SeqWrap \in Nat \ {0} /\ 0 \in Nat
      BY <1>1
    <2>4. (0 * SeqWrap + i) % SeqWrap = i
      BY <2>3, DivisionIsUnique
    <2>5. 0 * SeqWrap + i = i
      BY <2>3
    <2>2. SeqSucc(s) = s + 1
      BY <2>1, <2>4, <2>5 DEF SeqSucc
    <2> QED
      BY <1>1, <1>2, <1>3, <2>2 DEF Unwrapped, Seqno
  <1>4. CASE s + 1 = SeqWrap
    <2>1. (1 * SeqWrap + 0) % SeqWrap = 0 /\ 1 * SeqWrap + 0 = s + 1
      BY <1>1, <1>4, DivisionIsUnique
    <2>2. SeqSucc(s) = 0
      BY <2>1 DEF SeqSucc
    <2> QED
      BY <1>1, <1>2, <1>4, <2>2 DEF Unwrapped, Seqno
  <1> QED
    BY <1>1, <1>3, <1>4

\* Different numbers are counted apart.
LEMMA CountedApart ==
    ASSUME NEW s \in Seqno, NEW r \in Seqno, Unwrapped(s) = Unwrapped(r)
    PROVE  s = r
  BY LogGeometry, JournalBounds DEF Unwrapped, Seqno

-----------------------------------------------------------------------------
(* Blocks. *)

\* The fields of a log block by its kind.
LEMMA Kinds ==
    ASSUME NEW x \in LogBlock
    PROVE  /\ x.kind # "jsb"
           /\ x.kind = "descriptor" => x.seq \in Seqno /\ x.tags \in Seq(TagType)
           /\ x.kind = "revoke" => x.seq \in Seqno /\ x.blocks \in SUBSET Freed /\ x.ok = TRUE
           /\ x.kind = "commit" => x.seq \in Seqno /\ x.ok = TRUE
  <1>1. CASE x \in {i \in Image : ~HasMagic(i)}
    BY <1>1 DEF HasMagic
  <1>2. CASE x \in SuperBlock \cup {Torn} \cup [kind : {"escaped"}, of : Image]
    BY <1>2 DEF SuperBlock, Torn
  <1> HIDE DEF TagType
  <1>3. CASE x \in [kind : {"descriptor"}, seq : Seqno, tags : Seq(TagType)]
    BY <1>3
  <1>4. CASE x \in [kind : {"revoke"}, seq : Seqno, blocks : SUBSET Freed, ok : {TRUE}]
    BY <1>4
  <1>5. CASE x \in [kind : {"commit"}, seq : Seqno, ok : {TRUE}]
    BY <1>5
  <1> QED
    BY <1>1, <1>2, <1>3, <1>4, <1>5 DEF LogBlock, PlainBlock

\* What is logged of a block is not read as a log block, and read back as it was.
LEMMA Escaping ==
    ASSUME NEW b \in Home, NEW i \in HomeType(b)
    PROVE  /\ Escape(i) \in PlainBlock /\ Escape(i) \in LogBlock
           /\ Unescape(Escape(i), HasMagic(i)) = i
           /\ HasMagic(i) \in BOOLEAN
  <1>1. HasMagic(i) \in BOOLEAN
    BY DEF HasMagic
  <1>2. i \in Image \/ i \in SuperBlock
    BY DEF HomeType
  <1>3. CASE HasMagic(i)
    <2>1. i \in Image
      BY <1>2, <1>3 DEF HasMagic, SuperBlock
    <2>2. Escape(i) = [kind |-> "escaped", of |-> i]
      BY <1>3 DEF Escape
    <2>3. Escape(i).of = i
      BY <2>2
    <2>4. Escape(i) \in [kind : {"escaped"}, of : Image]
      BY <2>1, <2>2
    <2>5. Escape(i) \in PlainBlock /\ Escape(i) \in LogBlock
      BY <2>4 DEF PlainBlock, LogBlock
    <2>6. Unescape(Escape(i), HasMagic(i)) = i
      BY <1>3, <2>3 DEF Unescape
    <2> QED
      BY <1>1, <2>5, <2>6
  <1>4. CASE ~HasMagic(i)
    BY <1>1, <1>2, <1>4 DEF Escape, Unescape, PlainBlock, LogBlock
  <1> QED
    BY <1>3, <1>4

\* A plain block is none that a walk stops for.
LEMMA PlainIs ==
    ASSUME NEW x \in PlainBlock
    PROVE  x \in LogBlock /\ ~HasMagic(x) /\ x.kind \notin {"descriptor", "revoke", "commit"}
  <1>1. x \in LogBlock
    BY DEF LogBlock
  <1>2. CASE x \in {i \in Image : ~HasMagic(i)}
    BY <1>1, <1>2 DEF HasMagic
  <1>3. CASE x \in SuperBlock
    BY <1>1, <1>3 DEF SuperBlock, HasMagic
  <1>4. CASE x = Torn
    BY <1>1, <1>4 DEF Torn, HasMagic
  <1>5. CASE x \in [kind : {"escaped"}, of : Image]
    BY <1>1, <1>5 DEF HasMagic
  <1> QED
    BY <1>2, <1>3, <1>4, <1>5 DEF PlainBlock

\* A function on 1 .. n is a sequence.
LEMMA FunctionIsSeq ==
    ASSUME NEW n \in Nat, NEW S, NEW f \in [1 .. n -> S]
    PROVE  f \in Seq(S) /\ Len(f) = n /\ DOMAIN f = 1 .. n
  BY SeqDef

\* A sequence of one.
LEMMA One ==
    ASSUME NEW S, NEW x \in S
    PROVE  <<x>> \in Seq(S) /\ Len(<<x>>) = 1 /\ <<x>>[1] = x
  OBVIOUS


-----------------------------------------------------------------------------
(* A transaction and its body. *)

Ascending(f, n) == \A i, j \in 1 .. n : i < j => f[i] < f[j]

\* A finite set of numbers can be enumerated in order.
LEMMA OrderExists ==
    ASSUME NEW S \in SUBSET Nat, IsFiniteSet(S)
    PROVE  \E f \in [1 .. Cardinality(S) -> S] : Ascending(f, Cardinality(S))
  <1> DEFINE N == Cardinality(S)
             Done(n) == \A U \in SUBSET S : Cardinality(U) = n => \E f \in [1 .. n -> U] : Ascending(f, n)
             good == {n \in 0 .. N : Done(n)}
  <1>1. N \in Nat
    BY FS_CardinalityType
  <1>2. 0 \in good
    <2>1. ASSUME NEW U \in SUBSET S PROVE \E f \in [1 .. 0 -> U] : Ascending(f, 0)
      <3> DEFINE f == [k \in 1 .. 0 |-> 0]
      <3>1. f \in [1 .. 0 -> U] /\ Ascending(f, 0)
        BY DEF Ascending
      <3> HIDE DEF f
      <3> QED
        BY <3>1
    <2> QED
      BY <1>1, <2>1
  <1>3. ASSUME NEW n \in 1 .. N, n - 1 \in good
        PROVE  n \in good
    <2> SUFFICES ASSUME NEW U \in SUBSET S, Cardinality(U) = n
                 PROVE  \E f \in [1 .. n -> U] : Ascending(f, n)
      BY <1>1
    <2>1. IsFiniteSet(U) /\ U # {}
      <3>1. IsFiniteSet(U)
        BY FS_Subset
      <3>2. Cardinality({}) = 0 /\ n # 0
        BY <1>1, FS_EmptySet
      <3> QED
        BY <3>1, <3>2
    <2>2. PICK m \in U : \A y \in U : m <= y
      <3>1. U \in SUBSET Nat
        OBVIOUS
      <3> QED
        BY <2>1, <3>1, LeastExists
    <2> DEFINE V == U \ {m}
    <2>3. Cardinality(V) = n - 1 /\ V \in SUBSET S
      BY <2>1, <2>2, FS_RemoveElement
    <2>4. PICK g \in [1 .. n - 1 -> V] : Ascending(g, n - 1)
      BY <1>3, <2>3
    <2> DEFINE f == [k \in 1 .. n |-> IF k = 1 THEN m ELSE g[k - 1]]
    <2>5. ASSUME NEW k \in 1 .. n, k # 1 PROVE k - 1 \in 1 .. n - 1 /\ g[k - 1] \in V
      <3>1. k - 1 \in 1 .. n - 1
        BY <1>1, <2>5
      <3> QED
        BY <2>4, <3>1
    <2>6. f \in [1 .. n -> U]
      BY <2>5
    <2>7. ASSUME NEW i \in 1 .. n, NEW j \in 1 .. n, i < j PROVE f[i] < f[j]
      <3>1. j # 1 /\ f[j] = g[j - 1] /\ g[j - 1] \in V /\ j - 1 \in 1 .. n - 1
        BY <1>1, <2>5, <2>7
      <3>2. CASE i = 1
        <4>1. f[i] = m /\ m <= g[j - 1] /\ m # g[j - 1] /\ m \in Nat /\ g[j - 1] \in Nat
          BY <2>2, <3>1, <3>2
        <4> QED
          BY <3>1, <4>1
      <3>3. CASE i # 1
        <4>1. f[i] = g[i - 1] /\ i - 1 \in 1 .. n - 1 /\ i - 1 < j - 1
          BY <1>1, <2>5, <2>7, <3>3
        <4>2. g[i - 1] < g[j - 1]
          BY <2>4, <3>1, <4>1 DEF Ascending
        <4> QED
          BY <3>1, <4>1, <4>2
      <3> QED
        BY <3>2, <3>3
    <2> HIDE DEF f
    <2> QED
      BY <2>6, <2>7 DEF Ascending
  <1> HIDE DEF good
  <1>4. N \in good
    BY <1>1, <1>2, <1>3, UpTo
  <1> QED
    BY <1>4 DEF good

\* A finite set of numbers has an order, and each of its numbers has one place in it
\* (the BTreeMap of the transaction, mod.rs:348).
LEMMA OrderIs ==
    ASSUME NEW S \in SUBSET Nat, IsFiniteSet(S)
    PROVE  /\ Cardinality(S) \in Nat
           /\ Order(S) \in [1 .. Cardinality(S) -> S]
           /\ \A i, j \in 1 .. Cardinality(S) : i # j => Order(S)[i] # Order(S)[j]
           /\ \A b \in S : \E k \in 1 .. Cardinality(S) : Order(S)[k] = b
  <1> DEFINE n == Cardinality(S)
             Is(f) == \A i, j \in DOMAIN f : i < j => f[i] < f[j]
             o == Order(S)
  <1>1. n \in Nat
    BY FS_CardinalityType
  <1>2. PICK f \in [1 .. n -> S] : Ascending(f, n)
    BY OrderExists
  <1>3. Is(f)
    BY <1>2 DEF Ascending
  <1>4. Order(S) = CHOOSE g \in [1 .. n -> S] : Is(g)
    BY DEF Order
  <1>5. Order(S) \in [1 .. n -> S] /\ Is(Order(S))
    <2> HIDE DEF Is, n
    <2> QED
      BY <1>3, <1>4
  <1> HIDE DEF n, o
  <1>6. o \in [1 .. n -> S] /\ \A i, j \in 1 .. n : i < j => o[i] < o[j]
    BY <1>5 DEF o
  <1>7. ASSUME NEW i \in 1 .. n, NEW j \in 1 .. n, i # j PROVE o[i] # o[j]
    <2>1. o[i] \in S /\ o[j] \in S
      BY <1>6
    <2>2. \A x \in S : x \in Nat
      OBVIOUS
    <2>3. i \in Nat /\ j \in Nat
      BY <1>1
    <2>4. o[i] \in Nat /\ o[j] \in Nat /\ i \in Nat /\ j \in Nat
      BY <2>1, <2>2, <2>3
    <2> QED
      BY <1>6, <1>7, <2>4
  <1>8. \A b \in S : \E k \in 1 .. n : o[k] = b
    <2>1. o \in Injection(1 .. n, S)
      BY <1>6, <1>7 DEF Injection, IsInjective
    <2>2. Cardinality(1 .. n) = n
      BY <1>1, FS_Interval
    <2>3. o \in Surjection(1 .. n, S)
      BY <2>1, <2>2, FS_Injection DEF n
    <2> QED
      BY <2>3 DEF Surjection
  <1> QED
    BY <1>1, <1>6, <1>7, <1>8 DEF n, o

\* The blocks a transaction's tags are for, in order.
Tagged(t)  == Order(DOMAIN t.blocks)
TagsOf(t)  == [k \in DOMAIN Tagged(t) |-> Tag(Tagged(t)[k], t.blocks[Tagged(t)[k]])]
SizeOf(t)  == Cardinality(DOMAIN t.blocks)
Revokes(t) == IF t.revokes = {} THEN 0 ELSE 1

\* The blocks a descriptor names, with the copies behind it, are those of the transaction.
LEMMA TaggedIs ==
    ASSUME NEW t, IsTxn(t)
    PROVE  /\ SizeOf(t) \in Nat
           /\ Tagged(t) \in [1 .. SizeOf(t) -> Home]
           /\ \A k \in 1 .. SizeOf(t) : Tagged(t)[k] \in DOMAIN t.blocks
           /\ \A i, j \in 1 .. SizeOf(t) : i # j => Tagged(t)[i] # Tagged(t)[j]
           /\ \A b \in DOMAIN t.blocks : \E k \in 1 .. SizeOf(t) : Tagged(t)[k] = b
           /\ TagsOf(t) \in Seq(TagType) /\ Len(TagsOf(t)) = SizeOf(t)
           /\ \A k \in 1 .. SizeOf(t) : /\ TagsOf(t)[k].block = Tagged(t)[k]
                                        /\ TagsOf(t)[k].escaped = HasMagic(t.blocks[Tagged(t)[k]])
                                        /\ t.blocks[Tagged(t)[k]] \in HomeType(Tagged(t)[k])
  <1> DEFINE S == DOMAIN t.blocks
             n == Cardinality(S)
             o == Order(S)
  <1>1. S \in SUBSET Home /\ IsFiniteSet(S) /\ S \in SUBSET Nat
    BY HomeIs DEF IsTxn
  <1>2. /\ n \in Nat /\ o \in [1 .. n -> S]
        /\ \A i, j \in 1 .. n : i # j => o[i] # o[j]
        /\ \A b \in S : \E k \in 1 .. n : o[k] = b
    <2> HIDE DEF S
    <2> QED
      BY <1>1, OrderIs
  <1>3. \A b \in S : t.blocks[b] \in HomeType(b)
    BY DEF IsTxn
  <1> DEFINE tg(k) == Tag(o[k], t.blocks[o[k]])
  <1>4. ASSUME NEW k \in 1 .. n
        PROVE  /\ tg(k) \in TagType /\ tg(k).block = o[k]
               /\ tg(k).escaped = HasMagic(t.blocks[o[k]])
               /\ t.blocks[o[k]] \in HomeType(o[k])
    <2>1. o[k] \in S /\ o[k] \in Home /\ t.blocks[o[k]] \in HomeType(o[k])
      BY <1>1, <1>2, <1>3
    <2>2. HasMagic(t.blocks[o[k]]) \in BOOLEAN
      BY <2>1, Escaping
    <2> QED
      BY <2>1, <2>2 DEF Tag, TagType
  <1>5. TagsOf(t) = [k \in 1 .. n |-> tg(k)] /\ Tagged(t) = o /\ SizeOf(t) = n
    <2>1. DOMAIN o = 1 .. n
      BY <1>2
    <2> QED
      BY <2>1 DEF TagsOf, Tagged, SizeOf
  <1>6. TagsOf(t) \in [1 .. n -> TagType] /\ \A k \in 1 .. n : TagsOf(t)[k] = tg(k)
    BY <1>4, <1>5
  <1>7. TagsOf(t) \in Seq(TagType) /\ Len(TagsOf(t)) = n
    <2> HIDE DEF TagType, n
    <2> QED
      BY <1>2, <1>6, FunctionIsSeq
  <1>8. o \in [1 .. n -> Home]
    BY <1>1, <1>2
  <1> QED
    BY <1>2, <1>4, <1>5, <1>6, <1>7, <1>8

\* The blocks of the body: a descriptor, the logged copies, a revoke block.
LEMMA BodyIs ==
    ASSUME NEW t, IsTxn(t)
    PROVE  /\ Body(t) \in Seq(LogBlock) /\ Len(Body(t)) = 1 + SizeOf(t) + Revokes(t)
           /\ Revokes(t) \in 0 .. 1
           /\ Body(t)[1] = Descriptor(t.seq, TagsOf(t))
           /\ \A k \in 1 .. SizeOf(t) : Body(t)[1 + k] = Escape(t.blocks[Tagged(t)[k]])
           /\ t.revokes # {} => Body(t)[2 + SizeOf(t)] = Revoke(t.seq, t.revokes)
  <1> DEFINE n == SizeOf(t)
             D == Descriptor(t.seq, TagsOf(t))
             e(k) == Escape(t.blocks[Tagged(t)[k]])
             c == [k \in DOMAIN Tagged(t) |-> e(k)]
             r == IF t.revokes = {} THEN <<>> ELSE <<Revoke(t.seq, t.revokes)>>
             m == Revokes(t)
  <1>1. Body(t) = (<<D>> \o c) \o r
    BY DEF Body, Tagged, TagsOf
  <1>2. t.seq \in Seqno /\ t.revokes \in SUBSET Freed
    BY DEF IsTxn
  <1>3. n \in Nat /\ DOMAIN Tagged(t) = 1 .. n
    BY TaggedIs
  <1>4. D \in LogBlock
    <2>1. TagsOf(t) \in Seq(TagType)
      BY TaggedIs
    <2> HIDE DEF TagType
    <2> QED
      BY <1>2, <2>1 DEF Descriptor, LogBlock
  <1>5. ASSUME NEW k \in 1 .. n PROVE e(k) \in LogBlock
    <2>1. Tagged(t)[k] \in Home /\ t.blocks[Tagged(t)[k]] \in HomeType(Tagged(t)[k])
      BY TaggedIs
    <2> QED
      BY <2>1, Escaping
  <1>6. c \in Seq(LogBlock) /\ Len(c) = n /\ \A k \in 1 .. n : c[k] = e(k)
    <2>1. c \in [1 .. n -> LogBlock] /\ \A k \in 1 .. n : c[k] = e(k)
      BY <1>3, <1>5
    <2> HIDE DEF c, LogBlock, e, n
    <2> QED
      BY <1>3, <2>1, FunctionIsSeq
  <1>7. r \in Seq(LogBlock) /\ Len(r) = m /\ (t.revokes # {} => r[1] = Revoke(t.seq, t.revokes))
    <2>1. Revoke(t.seq, t.revokes) \in LogBlock
      BY <1>2 DEF Revoke, LogBlock
    <2> HIDE DEF LogBlock
    <2> QED
      BY <2>1 DEF Revokes
  <1>8. m \in 0 .. 1 /\ (t.revokes # {} => m = 1)
    BY DEF Revokes
  <1> DEFINE u == <<D>>
             b == u \o c
  <1>9. u \in Seq(LogBlock) /\ Len(u) = 1 /\ u[1] = D
    BY <1>4, One
  <1> HIDE DEF D, c, r, e, n, u, m
  <1>10. /\ b \in Seq(LogBlock) /\ Len(b) = 1 + n
         /\ \A i \in 1 .. 1 + n : b[i] = IF i <= 1 THEN u[i] ELSE c[i - 1]
    BY <1>6, <1>9, ConcatProperties
  <1> HIDE DEF b
  <1>11. /\ b \o r \in Seq(LogBlock) /\ Len(b \o r) = 1 + n + m
         /\ \A i \in 1 .. 1 + n + m : (b \o r)[i] = IF i <= 1 + n THEN b[i] ELSE r[i - (1 + n)]
    <2>1. /\ b \o r \in Seq(LogBlock) /\ Len(b \o r) = Len(b) + Len(r)
          /\ \A i \in 1 .. Len(b) + Len(r) : (b \o r)[i] = IF i <= Len(b) THEN b[i] ELSE r[i - Len(b)]
      BY <1>7, <1>10, ConcatProperties
    <2> QED
      BY <1>7, <1>10, <2>1
  <1>12. (b \o r)[1] = D
    BY <1>3, <1>8, <1>9, <1>10, <1>11
  <1>13. ASSUME NEW k \in 1 .. n PROVE (b \o r)[1 + k] = e(k)
    <2>1. PICK i \in 1 .. 1 + n : i = 1 + k
      BY <1>3
    <2>2. i \in 1 .. 1 + n + m /\ i <= 1 + n /\ ~(i <= 1) /\ i - 1 = k
      BY <1>3, <1>8, <2>1
    <2> QED
      BY <1>6, <1>10, <1>11, <2>1, <2>2
  <1>14. ASSUME t.revokes # {} PROVE (b \o r)[2 + n] = Revoke(t.seq, t.revokes)
    <2>1. 2 + n \in 1 .. 1 + n + m /\ ~(2 + n <= 1 + n) /\ (2 + n) - (1 + n) = 1
      BY <1>3, <1>8, <1>14
    <2> QED
      BY <1>7, <1>11, <1>14, <2>1
  <1>15. Body(t) = b \o r
    BY <1>1 DEF b, u
  <1> QED
    BY <1>8, <1>11, <1>12, <1>13, <1>14, <1>15 DEF D, e, n, m


-----------------------------------------------------------------------------
(* The walk. *)

\* Ahead twice is ahead once.
LEMMA AheadFrom ==
    ASSUME NEW j \in Nat, NEW k \in Nat, j + k < Area
    PROVE  Ahead(First + j, k) = First + j + k
  <1>1. j + k \in 0 .. Area - 1 /\ (First + j) - First + k = j + k
    BY AreaIs
  <1>2. (0 * Area + (j + k)) % Area = j + k /\ 0 * Area + (j + k) = j + k
    BY <1>1, AreaIs, DivisionIsUnique
  <1>3. Ahead(First + j, k) = First + ((j + k) % Area)
    BY <1>1 DEF Ahead, Area
  <1>4. (j + k) % Area = j + k
    BY <1>2
  <1> HIDE DEF Area
  <1> QED
    BY <1>1, <1>3, <1>4, AreaIs

Entry    == [block : Home, slot : BodySlot, escaped : BOOLEAN]
Found    == [seq : Seqno, blocks : Seq(Entry), revokes : Seq(BodySlot)]
WalkType == [cursor : BodySlot, seq : Seqno, blocks : Seq(Entry), revokes : Seq(BodySlot),
             txns : Seq(Found), stop : BOOLEAN]

GoodLog(lg) == \A s \in BodySlot : lg[s] \in LogBlock

\* What a step of the walk does, field by field.
LEMMA DescriptorDoes ==
    ASSUME NEW w \in WalkType, NEW b, b.tags \in Seq(TagType)
    PROVE  LET v == WalkDescriptor(w, b)
               n == Len(b.tags)
           IN  /\ v \in WalkType
               /\ v.cursor = Ahead(w.cursor, n + 1) /\ v.seq = w.seq /\ v.txns = w.txns
               /\ v.revokes = w.revokes /\ v.stop = w.stop
               /\ Len(v.blocks) = Len(w.blocks) + n
               /\ \A k \in 1 .. Len(w.blocks) : v.blocks[k] = w.blocks[k]
               /\ \A k \in 1 .. n : v.blocks[Len(w.blocks) + k] =
                     [block |-> b.tags[k].block, slot |-> Ahead(w.cursor, k),
                      escaped |-> b.tags[k].escaped]
  <1> DEFINE n == Len(b.tags)
             e(k) == [block |-> b.tags[k].block, slot |-> Ahead(w.cursor, k),
                      escaped |-> b.tags[k].escaped]
             more == [k \in 1 .. n |-> e(k)]
             old == w.blocks
             cur == Ahead(w.cursor, n + 1)
             v == WalkDescriptor(w, b)
  <1>1. n \in Nat
    OBVIOUS
  <1>2. ASSUME NEW k \in 1 .. n PROVE e(k) \in Entry
    <2>1. b.tags[k] \in TagType
      BY ElementOfSeq
    <2>2. k \in Nat /\ w.cursor \in BodySlot
      BY DEF WalkType
    <2>3. Ahead(w.cursor, k) \in BodySlot
      BY <2>2, AheadIn
    <2> QED
      BY <2>1, <2>3 DEF TagType, Entry
  <1>3. cur \in BodySlot
    <2>1. n + 1 \in Nat /\ w.cursor \in BodySlot
      BY <1>1 DEF WalkType
    <2> QED
      BY <2>1, AheadIn
  <1>4. v = [w EXCEPT !.blocks = old \o more, !.cursor = cur]
    BY DEF WalkDescriptor
  <1>5. old \in Seq(Entry)
    BY DEF WalkType
  <1>6. more \in Seq(Entry) /\ Len(more) = n /\ \A k \in 1 .. n : more[k] = e(k)
    <2>1. more \in [1 .. n -> Entry] /\ \A k \in 1 .. n : more[k] = e(k)
      BY <1>2
    <2> HIDE DEF more, n, e, Entry
    <2> QED
      BY <1>1, <2>1, FunctionIsSeq
  <1> HIDE DEF more, n, e, cur, v
  <1> DEFINE all == old \o more
  <1>7. all \in Seq(Entry) /\ Len(all) = Len(old) + n
    BY <1>5, <1>6, ConcatProperties
  <1>8. \A k \in 1 .. Len(old) : all[k] = old[k]
    BY <1>1, <1>5, <1>6, ConcatProperties, LenProperties
  <1>9. \A k \in 1 .. n : all[Len(old) + k] = e(k)
    <2> SUFFICES ASSUME NEW k \in 1 .. n PROVE all[Len(old) + k] = e(k)
      OBVIOUS
    <2>1. Len(old) \in Nat
      BY <1>5, LenProperties
    <2>2. PICK i \in 1 .. Len(old) + Len(more) : i = Len(old) + k
      BY <1>1, <1>6, <2>1
    <2>3. all[i] = IF i <= Len(old) THEN old[i] ELSE more[i - Len(old)]
      BY <1>5, <1>6, ConcatProperties
    <2>4. ~(i <= Len(old)) /\ i - Len(old) = k
      BY <1>1, <2>1, <2>2
    <2> QED
      BY <1>6, <2>2, <2>3, <2>4
  <1> HIDE DEF all, old
  <1>10. v.blocks = all /\ v.cursor = cur /\ v.seq = w.seq /\ v.txns = w.txns
         /\ v.revokes = w.revokes /\ v.stop = w.stop
    BY <1>4 DEF WalkType, all, old
  <1>11. v \in WalkType
    BY <1>3, <1>4, <1>7 DEF WalkType, all, old
  <1> QED
    BY <1>7, <1>8, <1>9, <1>10, <1>11 DEF n, e, cur, v, old

\* The walk at a revoke block.
LEMMA RevokeDoes ==
    ASSUME NEW w \in WalkType
    PROVE  LET v == WalkRevoke(w)
           IN  /\ v \in WalkType
               /\ v.cursor = Ahead(w.cursor, 1) /\ v.seq = w.seq /\ v.txns = w.txns
               /\ v.blocks = w.blocks /\ v.stop = w.stop
               /\ v.revokes = Append(w.revokes, w.cursor)
  <1> DEFINE cur == Advance(w.cursor)
             rs == Append(w.revokes, w.cursor)
             v == WalkRevoke(w)
  <1>1. w.cursor \in BodySlot
    BY DEF WalkType
  <1>2. cur = Ahead(w.cursor, 1) /\ cur \in BodySlot
    BY <1>1, AdvanceIs, AheadIn
  <1>3. rs \in Seq(BodySlot)
    <2>1. w.revokes \in Seq(BodySlot)
      BY DEF WalkType
    <2> QED
      BY <1>1, <2>1, AppendProperties
  <1>4. v = [w EXCEPT !.revokes = rs, !.cursor = cur]
    BY DEF WalkRevoke
  <1> HIDE DEF cur, rs, v
  <1>5. v \in WalkType
    BY <1>2, <1>3, <1>4 DEF WalkType
  <1>6. /\ v.cursor = cur /\ v.seq = w.seq /\ v.txns = w.txns /\ v.blocks = w.blocks
        /\ v.stop = w.stop /\ v.revokes = rs
    BY <1>4 DEF WalkType
  <1> QED
    BY <1>2, <1>5, <1>6 DEF v, rs

\* The walk at a commit block of the expected number.
LEMMA CommitDoes ==
    ASSUME NEW w \in WalkType
    PROVE  LET v == WalkCommit(w)
           IN  /\ v \in WalkType
               /\ v.cursor = Ahead(w.cursor, 1) /\ v.seq = SeqSucc(w.seq)
               /\ v.txns = Append(w.txns, [seq |-> w.seq, blocks |-> w.blocks, revokes |-> w.revokes])
               /\ v.blocks = <<>> /\ v.revokes = <<>> /\ v.stop = w.stop
  <1> DEFINE cur == Advance(w.cursor)
             got == [seq |-> w.seq, blocks |-> w.blocks, revokes |-> w.revokes]
             ts == Append(w.txns, got)
             nxt == SeqSucc(w.seq)
             v == WalkCommit(w)
  <1>1. w.cursor \in BodySlot /\ w.seq \in Seqno
    BY DEF WalkType
  <1>2. cur = Ahead(w.cursor, 1) /\ cur \in BodySlot
    BY <1>1, AdvanceIs, AheadIn
  <1>3. nxt \in Seqno
    BY <1>1, Counting
  <1>4. got \in Found
    BY DEF WalkType, Found
  <1>5. ts \in Seq(Found)
    <2>1. w.txns \in Seq(Found)
      BY DEF WalkType
    <2> QED
      BY <1>4, <2>1, AppendProperties
  <1>6. v = [w EXCEPT !.txns = ts, !.blocks = <<>>, !.revokes = <<>>, !.seq = nxt, !.cursor = cur]
    BY DEF WalkCommit
  <1> HIDE DEF cur, ts, nxt, v
  <1>7. <<>> \in Seq(Entry) /\ <<>> \in Seq(BodySlot)
    OBVIOUS
  <1>8. v \in WalkType
    BY <1>2, <1>3, <1>5, <1>6, <1>7 DEF WalkType
  <1>9. /\ v.cursor = cur /\ v.seq = nxt /\ v.txns = ts /\ v.blocks = <<>>
        /\ v.stop = w.stop /\ v.revokes = <<>>
    BY <1>6 DEF WalkType
  <1> QED
    BY <1>2, <1>8, <1>9 DEF v, ts, nxt

\* The walk at a block that is none of the log of the expected number.
LEMMA StopDoes ==
    ASSUME NEW w \in WalkType
    PROVE  /\ WalkStop(w) \in WalkType
           /\ WalkStop(w).txns = w.txns /\ WalkStop(w).seq = w.seq
  BY DEF WalkStop, WalkType

\* The walk stays among such states.
LEMMA StepStays ==
    ASSUME NEW lg, GoodLog(lg), NEW w \in WalkType
    PROVE  WalkStep(lg, w) \in WalkType
  <1>1. w.cursor \in BodySlot
    BY DEF WalkType
  <1>2. lg[w.cursor] \in LogBlock
    BY <1>1 DEF GoodLog
  <1>3. WalkStop(w) \in WalkType /\ WalkRevoke(w) \in WalkType /\ WalkCommit(w) \in WalkType
    BY StopDoes, RevokeDoes, CommitDoes
  <1>4. ASSUME lg[w.cursor].kind = "descriptor"
        PROVE  WalkDescriptor(w, lg[w.cursor]) \in WalkType
    BY <1>2, <1>4, Kinds, DescriptorDoes
  <1> HIDE DEF WalkType
  <1> QED
    BY <1>3, <1>4 DEF WalkStep

\* The states of the walk, one after the other.
LEMMA WalkIs ==
    ASSUME NEW lg, GoodLog(lg), NEW sb, sb.start \in BodySlot, sb.seq \in Seqno
    PROVE  /\ Walk(lg, sb) \in [0 .. MaxLen -> WalkType]
           /\ Walk(lg, sb)[0] = WalkStart(sb)
           /\ \A n \in 1 .. MaxLen : Walk(lg, sb)[n] = WalkStep(lg, Walk(lg, sb)[n - 1])
  <1> DEFINE F == [p \in (1 .. MaxLen) \X WalkType |-> WalkStep(lg, p[2])]
             It(w) == WalkStep(lg, w)
             Is(f) == f = [n \in 0 .. MaxLen |-> IF n = 0 THEN WalkStart(sb) ELSE Eager(It, f[n - 1])]
  <1>1. MaxLen \in Nat
    BY LogGeometry
  <1>2. WalkStart(sb) \in WalkType
    BY DEF WalkStart, WalkType
  <1>3. ASSUME NEW k \in 1 .. MaxLen, NEW v \in WalkType
        PROVE  F[<<k, v>>] = WalkStep(lg, v) /\ F[<<k, v>>] \in WalkType
    BY StepStays
  <1>4. \A x : Eager(It, x) = It(x)
    BY DEF Eager
  <1>5. Walk(lg, sb) = CHOOSE f : Is(f)
    BY DEF Walk
  <1> HIDE DEF F, WalkType
  <1>6. StaysIn(MaxLen, WalkType, F)
    BY <1>3 DEF StaysIn
  <1>7. PICK g : g \in Stepwise(MaxLen, WalkType, WalkStart(sb), F)
    BY <1>1, <1>2, <1>6, StepwiseExists
  <1>8. g \in [0 .. MaxLen -> WalkType] /\ g[0] = WalkStart(sb)
        /\ \A k \in 1 .. MaxLen : g[k] = F[<<k, g[k - 1]>>]
    BY <1>7 DEF Stepwise
  <1>9. ASSUME NEW k \in 1 .. MaxLen PROVE g[k] = It(g[k - 1])
    <2>1. k - 1 \in 0 .. MaxLen
      BY <1>1
    <2>2. g[k - 1] \in WalkType
      BY <1>8, <2>1
    <2> QED
      BY <1>3, <1>8, <2>2
  <1> HIDE DEF It
  <1>10. Is(g)
    <2>1. ASSUME NEW k \in 0 .. MaxLen, k # 0 PROVE g[k] = Eager(It, g[k - 1])
      <3>1. k \in 1 .. MaxLen
        BY <1>1, <2>1
      <3> QED
        BY <1>4, <1>9, <3>1
    <2> QED
      BY <1>8, <2>1
  <1>11. Is(Walk(lg, sb))
    <2> HIDE DEF Is
    <2> QED
      BY <1>5, <1>10
  <1> DEFINE h == Walk(lg, sb)
  <1> HIDE DEF h
  <1>12. Is(h)
    BY <1>11 DEF h
  <1>13. h[0] = WalkStart(sb) /\ \A n \in 1 .. MaxLen : h[n] = It(h[n - 1])
    <2>1. h[0] = WalkStart(sb)
      BY <1>1, <1>12
    <2>2. ASSUME NEW n \in 1 .. MaxLen PROVE h[n] = Eager(It, h[n - 1])
      <3>1. n \in 0 .. MaxLen /\ n # 0
        BY <1>1
      <3> QED
        BY <1>12, <3>1
    <2> QED
      BY <1>4, <2>1, <2>2
  <1>14. DOMAIN h = 0 .. MaxLen /\ h = [n \in 0 .. MaxLen |-> h[n]]
    BY <1>12
  <1>15. \A n \in 0 .. MaxLen : h[n] \in WalkType
    <2> DEFINE S == {n \in 0 .. MaxLen : h[n] \in WalkType}
    <2>1. 0 \in S
      BY <1>1, <1>2, <1>13
    <2>2. ASSUME NEW k \in 1 .. MaxLen, k - 1 \in S PROVE k \in S
      <3>1. h[k - 1] \in WalkType /\ h[k] = It(h[k - 1]) /\ k \in 0 .. MaxLen
        BY <1>1, <1>13, <2>2
      <3> QED
        BY <3>1, StepStays DEF It
    <2> HIDE DEF S
    <2>3. 0 .. MaxLen \subseteq S
      BY <1>1, <2>1, <2>2, UpTo
    <2> QED
      BY <2>3 DEF S
  <1> QED
    BY <1>13, <1>14, <1>15 DEF h, It


\* Without a commit block of the number looked for nothing is found.
LEMMA ScanEmpty ==
    ASSUME NEW lg, GoodLog(lg), NEW sb, sb.start \in {0, First}, sb.seq \in Seqno,
           \A s \in BodySlot : lg[s].kind = "commit" => lg[s].seq # sb.seq
    PROVE  Scan(lg, sb) = <<>>
  <1>1. CASE sb.start = 0
    BY <1>1 DEF Scan
  <1>2. CASE sb.start # 0
    <2>1. sb.start \in BodySlot
      BY <1>2, SlotsAre
    <2> DEFINE h == Walk(lg, sb)
               S == {n \in 0 .. MaxLen : h[n].seq = sb.seq /\ h[n].txns = <<>>}
    <2>2. /\ h \in [0 .. MaxLen -> WalkType] /\ h[0] = WalkStart(sb)
          /\ \A n \in 1 .. MaxLen : h[n] = WalkStep(lg, h[n - 1])
      BY <2>1, WalkIs
    <2>3. Scan(lg, sb) = h[MaxLen].txns
      BY <1>2 DEF Scan
    <2> HIDE DEF h
    <2>4. MaxLen \in Nat
      BY AreaIs
    <2>5. 0 \in S
      BY <2>2, <2>4 DEF WalkStart
    <2>6. ASSUME NEW n \in 1 .. MaxLen, n - 1 \in S
          PROVE  n \in S
      <3> DEFINE w == h[n - 1]
                 b == lg[w.cursor]
      <3>1. w \in WalkType /\ w.seq = sb.seq /\ w.txns = <<>> /\ h[n] = WalkStep(lg, w)
        BY <2>2, <2>6
      <3>2. w.cursor \in BodySlot /\ b \in LogBlock
        BY <3>1 DEF WalkType, GoodLog
      <3> HIDE DEF w
      <3>3. CASE h[n] = WalkStop(w)
        BY <2>4, <3>1, <3>3, StopDoes
      <3>4. CASE b.kind = "descriptor" /\ h[n] = WalkDescriptor(w, b)
        <4>1. b.tags \in Seq(TagType)
          BY <3>2, <3>4, Kinds
        <4> HIDE DEF b
        <4>2. WalkDescriptor(w, b).seq = w.seq /\ WalkDescriptor(w, b).txns = w.txns
          <5> HIDE DEF WalkType, TagType
          <5> QED
            BY <3>1, <4>1, DescriptorDoes
        <4> QED
          BY <2>4, <3>1, <3>4, <4>2
      <3>5. CASE h[n] = WalkRevoke(w)
        BY <2>4, <3>1, <3>5, RevokeDoes
      <3>6. ~(b.kind = "commit" /\ b.seq = w.seq)
        BY <3>1, <3>2
      <3>7. HasMagic(b) => b.kind \in {"descriptor", "revoke", "commit", "jsb"}
        BY DEF HasMagic
      <3>8. h[n] = WalkStep(lg, w)
        BY <3>1
      <3> QED
        BY <3>3, <3>4, <3>5, <3>6, <3>7, <3>8 DEF WalkStep
    <2> HIDE DEF S
    <2>7. 0 .. MaxLen \subseteq S
      BY <2>4, <2>5, <2>6, UpTo
    <2>8. MaxLen \in S
      BY <2>4, <2>7
    <2> QED
      BY <2>3, <2>8 DEF S
  <1> QED
    BY <1>1, <1>2


\* A transaction that is committed fits in the log, with its commit block.
LEMMA BodyFits ==
    ASSUME NEW t, IsReady(t)
    PROVE  /\ IsTxn(t) /\ SizeOf(t) \in Nat /\ 0 < SizeOf(t)
           /\ Revokes(t) \in 0 .. 1
           /\ Len(Body(t)) = 1 + SizeOf(t) + Revokes(t)
           /\ Len(Body(t)) < Area /\ Len(Body(t)) \in Nat /\ SizeOf(t) + 2 < Area
  <1>1. IsTxn(t) /\ SbBlock \in DOMAIN t.blocks /\ SizeOf(t) <= Capacity
    BY DEF IsReady, SizeOf
  <1>2. SizeOf(t) \in Nat /\ Revokes(t) \in 0 .. 1 /\ Len(Body(t)) = 1 + SizeOf(t) + Revokes(t)
    BY <1>1, TaggedIs, BodyIs
  <1>3. SizeOf(t) # 0
    <2>1. IsFiniteSet(DOMAIN t.blocks)
      BY <1>1 DEF IsTxn
    <2>2. DOMAIN t.blocks # {}
      BY <1>1
    <2> QED
      BY <2>1, <2>2, FS_EmptySet DEF SizeOf
  <1>4. Capacity \in Nat /\ Capacity + 3 <= Area
    BY JournalBounds, LogHoldsTransaction DEF Area
  <1> QED
    BY <1>1, <1>2, <1>3, <1>4, AreaIs

\* The transaction the walk makes of it.
Entries(t) == [k \in 1 .. SizeOf(t) |-> [block |-> Tagged(t)[k], slot |-> First + k,
                                         escaped |-> HasMagic(t.blocks[Tagged(t)[k]])]]
RevokeSlot(t) == IF t.revokes = {} THEN <<>> ELSE <<First + 1 + SizeOf(t)>>
FoundIn(t) == [seq |-> t.seq, blocks |-> Entries(t), revokes |-> RevokeSlot(t)]

InLog(lg, t) == /\ \A k \in 1 .. Len(Body(t)) : lg[First + k - 1] = Body(t)[k]
                /\ lg[First + Len(Body(t))] = Commit(t.seq)

\* The blocks of the transaction in the log.
LEMMA InLogIs ==
    ASSUME NEW lg, NEW t, IsReady(t), InLog(lg, t)
    PROVE  /\ lg[First] = Descriptor(t.seq, TagsOf(t))
           /\ \A k \in 1 .. SizeOf(t) : lg[First + k] = Escape(t.blocks[Tagged(t)[k]])
           /\ t.revokes # {} => lg[First + 1 + SizeOf(t)] = Revoke(t.seq, t.revokes)
           /\ lg[First + 1 + SizeOf(t) + Revokes(t)] = Commit(t.seq)
  <1> DEFINE n == SizeOf(t)
             m == Len(Body(t))
             B == Body(t)
  <1>1. n \in Nat /\ Revokes(t) \in 0 .. 1 /\ m = 1 + n + Revokes(t) /\ First \in Nat
        /\ (t.revokes # {} => Revokes(t) = 1)
    BY BodyFits, AreaIs DEF Revokes
  <1>2. /\ B[1] = Descriptor(t.seq, TagsOf(t))
        /\ \A k \in 1 .. n : B[1 + k] = Escape(t.blocks[Tagged(t)[k]])
        /\ t.revokes # {} => B[2 + n] = Revoke(t.seq, t.revokes)
    BY BodyFits, BodyIs
  <1>3. /\ \A k \in 1 .. m : lg[First + k - 1] = B[k]
        /\ lg[First + m] = Commit(t.seq)
    BY DEF InLog
  <1> HIDE DEF n, m, B
  <1>4. lg[First] = B[1]
    <2>1. 1 \in 1 .. m /\ First + 1 - 1 = First
      BY <1>1
    <2> QED
      BY <1>3, <2>1
  <1>5. ASSUME NEW k \in 1 .. n PROVE lg[First + k] = B[1 + k]
    <2>1. PICK j \in 1 .. m : j = 1 + k
      BY <1>1
    <2>2. First + j - 1 = First + k
      BY <1>1, <2>1
    <2> QED
      BY <1>3, <2>1, <2>2
  <1>6. t.revokes # {} => lg[First + 1 + n] = B[2 + n]
    <2> SUFFICES ASSUME t.revokes # {} PROVE lg[First + 1 + n] = B[2 + n]
      OBVIOUS
    <2>1. PICK j \in 1 .. m : j = 2 + n
      BY <1>1
    <2>2. First + j - 1 = First + 1 + n
      BY <1>1, <2>1
    <2> QED
      BY <1>3, <2>1, <2>2
  <1>7. First + m = First + 1 + n + Revokes(t)
    BY <1>1
  <1> QED
    BY <1>2, <1>3, <1>4, <1>5, <1>6, <1>7 DEF n, m, B

\* The walk over them.
LEMMA WalkPasses ==
    ASSUME NEW lg, GoodLog(lg), NEW sb, sb.start = First, sb.seq \in Seqno,
           NEW t, IsReady(t), t.seq = sb.seq, InLog(lg, t)
    PROVE  \E i \in 0 .. MaxLen :
              LET w == Walk(lg, sb)[i]
              IN  /\ w \in WalkType /\ w.seq = SeqSucc(t.seq) /\ w.txns = <<FoundIn(t)>>
  <1> DEFINE n == SizeOf(t)
             h == Walk(lg, sb)
             w0 == WalkStart(sb)
             w1 == WalkDescriptor(w0, lg[First])
             w2 == WalkRevoke(w1)
             D == Descriptor(t.seq, TagsOf(t))
  <1>1. /\ h \in [0 .. MaxLen -> WalkType] /\ h[0] = w0
        /\ \A i \in 1 .. MaxLen : h[i] = WalkStep(lg, h[i - 1])
    <2>1. sb.start \in BodySlot
      BY SlotsAre
    <2> QED
      BY <2>1, WalkIs
  <1>2. n \in Nat /\ 0 < n /\ n + 2 < Area
    BY BodyFits
  <1>3. 1 \in 1 .. MaxLen /\ 2 \in 1 .. MaxLen /\ 3 \in 1 .. MaxLen /\ 0 \in 0 .. MaxLen
    BY <1>2, AreaIs
  <1>4. /\ lg[First] = D
        /\ t.revokes # {} => lg[First + 1 + n] = Revoke(t.seq, t.revokes)
        /\ lg[First + 1 + n + Revokes(t)] = Commit(t.seq)
    BY InLogIs
  <1>5. TagsOf(t) \in Seq(TagType) /\ Len(TagsOf(t)) = n
        /\ \A k \in 1 .. n : /\ TagsOf(t)[k].block = Tagged(t)[k]
                             /\ TagsOf(t)[k].escaped = HasMagic(t.blocks[Tagged(t)[k]])
    BY BodyFits, TaggedIs
  <1>6. D.kind = "descriptor" /\ D.seq = t.seq /\ D.tags = TagsOf(t) /\ HasMagic(D)
    BY DEF Descriptor, HasMagic
  <1>7. w0 \in WalkType /\ w0.cursor = First /\ w0.seq = t.seq /\ w0.blocks = <<>> /\ w0.revokes = <<>>
        /\ w0.txns = <<>> /\ w0.stop = FALSE
    <2>1. w0 \in WalkType
      BY <1>1, <1>3
    <2> QED
      BY <2>1 DEF WalkStart
  <1> HIDE DEF h, D, w0, n
  <1>8. h[1] = w1
    <2>1. h[1] = WalkStep(lg, w0)
      BY <1>1, <1>3
    <2> QED
      BY <2>1, <1>4, <1>6, <1>7 DEF WalkStep
  <1>9. Ahead(First, n + 1) = First + 1 + n /\ First + 1 + n \in BodySlot
        /\ \A k \in 1 .. n : Ahead(First, k) = First + k
    <2>1. n + 1 \in 0 .. Area - 1 /\ \A k \in 1 .. n : k \in 0 .. Area - 1
      BY <1>2, AreaIs
    <2>2. First + (n + 1) = First + 1 + n
      BY <1>2, AreaIs
    <2> QED
      BY <2>1, <2>2, AheadFirst
  <1>10. /\ w1 \in WalkType /\ w1.cursor = First + 1 + n /\ w1.seq = t.seq /\ w1.txns = <<>>
         /\ w1.revokes = <<>> /\ w1.stop = FALSE /\ Len(w1.blocks) = n
         /\ \A k \in 1 .. n : w1.blocks[k] =
               [block |-> TagsOf(t)[k].block, slot |-> Ahead(First, k), escaped |-> TagsOf(t)[k].escaped]
    <2>1. D.tags \in Seq(TagType)
      BY <1>5, <1>6
    <2>2. /\ w1 \in WalkType
          /\ w1.cursor = Ahead(w0.cursor, Len(D.tags) + 1) /\ w1.seq = w0.seq /\ w1.txns = w0.txns
          /\ w1.revokes = w0.revokes /\ w1.stop = w0.stop
          /\ Len(w1.blocks) = Len(w0.blocks) + Len(D.tags)
          /\ \A k \in 1 .. Len(D.tags) : w1.blocks[Len(w0.blocks) + k] =
                 [block |-> D.tags[k].block, slot |-> Ahead(w0.cursor, k),
                  escaped |-> D.tags[k].escaped]
      <3>1. w1 = WalkDescriptor(w0, D)
        BY <1>4
      <3> HIDE DEF WalkType, TagType, w1
      <3>2. w0 \in WalkType
        BY <1>7
      <3>3. LET v == WalkDescriptor(w0, D)
                m == Len(D.tags)
            IN  /\ v \in WalkType /\ v.cursor = Ahead(w0.cursor, m + 1) /\ v.seq = w0.seq
                /\ v.txns = w0.txns /\ v.revokes = w0.revokes /\ v.stop = w0.stop
                /\ Len(v.blocks) = Len(w0.blocks) + m
                /\ \A k \in 1 .. Len(w0.blocks) : v.blocks[k] = w0.blocks[k]
                /\ \A k \in 1 .. m : v.blocks[Len(w0.blocks) + k] =
                      [block |-> D.tags[k].block, slot |-> Ahead(w0.cursor, k),
                       escaped |-> D.tags[k].escaped]
        BY <2>1, <3>2, DescriptorDoes, ZenonT(60)
      <3> QED
        BY <3>1, <3>3
    <2>3. Len(D.tags) = n /\ Len(w0.blocks) = 0 /\ \A k \in 1 .. n : 0 + k = k
      BY <1>2, <1>5, <1>6, <1>7
    <2> HIDE DEF w1
    <2> QED
      BY <1>2, <1>6, <1>7, <1>9, <2>2, <2>3
  <1>11. w1.blocks = Entries(t)
    <2>1. w1.blocks \in Seq(Entry)
      BY <1>10 DEF WalkType
    <2> DEFINE bs == w1.blocks
    <2> HIDE DEF w1
    <2>2. bs = [k \in 1 .. n |-> bs[k]]
      <3>1. bs \in [1 .. Len(bs) -> Entry]
        BY <2>1
      <3> HIDE DEF bs
      <3> QED
        BY <1>10, <3>1 DEF bs
    <2>3. \A k \in 1 .. n : bs[k] = [block |-> Tagged(t)[k], slot |-> First + k,
                                     escaped |-> HasMagic(t.blocks[Tagged(t)[k]])]
      BY <1>5, <1>9, <1>10
    <2> HIDE DEF bs
    <2> QED
      BY <2>2, <2>3 DEF Entries, n, bs
  <1> DEFINE found(w, rs) == [seq |-> t.seq, blocks |-> w.blocks, revokes |-> rs]
  <1>12. CASE t.revokes = {}
    <2>1. lg[First + 1 + n] = Commit(t.seq)
      <3>1. First + 1 + n + 0 = First + 1 + n
        BY <1>2, AreaIs
      <3> QED
        BY <1>4, <1>12, <3>1 DEF Revokes
    <2>2. Commit(t.seq).kind = "commit" /\ Commit(t.seq).seq = t.seq /\ Commit(t.seq).ok = TRUE
          /\ HasMagic(Commit(t.seq))
      BY DEF Commit, HasMagic
    <2> HIDE DEF w1
    <2>3. h[2] = WalkCommit(w1)
      <3>1. h[2] = WalkStep(lg, w1)
        BY <1>1, <1>3, <1>8
      <3> QED
        BY <1>10, <2>1, <2>2, <3>1 DEF WalkStep
    <2>4. WalkCommit(w1) \in WalkType /\ WalkCommit(w1).seq = SeqSucc(w1.seq)
          /\ WalkCommit(w1).txns = Append(w1.txns, [seq |-> w1.seq, blocks |-> w1.blocks, revokes |-> w1.revokes])
      <3> HIDE DEF WalkType
      <3> QED
        BY <1>10, CommitDoes
    <2>5. Append(<<>>, FoundIn(t)) = <<FoundIn(t)>>
      OBVIOUS
    <2>6. FoundIn(t) = [seq |-> t.seq, blocks |-> Entries(t), revokes |-> <<>>]
      BY <1>12 DEF FoundIn, RevokeSlot
    <2>7. 2 \in 0 .. MaxLen
      BY <1>3
    <2> QED
      BY <1>10, <1>11, <2>3, <2>4, <2>5, <2>6, <2>7 DEF h
  <1>13. CASE t.revokes # {}
    <2>1. lg[First + 1 + n] = Revoke(t.seq, t.revokes)
          /\ lg[First + 2 + n] = Commit(t.seq)
      <3>1. First + 1 + n + 1 = First + 2 + n
        BY <1>2, AreaIs
      <3> QED
        BY <1>4, <1>13, <3>1 DEF Revokes
    <2>2. Commit(t.seq).kind = "commit" /\ Commit(t.seq).seq = t.seq /\ Commit(t.seq).ok = TRUE
          /\ HasMagic(Commit(t.seq))
      BY DEF Commit, HasMagic
    <2>3. Revoke(t.seq, t.revokes).kind = "revoke" /\ Revoke(t.seq, t.revokes).seq = t.seq
          /\ HasMagic(Revoke(t.seq, t.revokes))
      BY DEF Revoke, HasMagic
    <2> HIDE DEF w1
    <2>4. h[2] = w2
      <3>1. h[2] = WalkStep(lg, w1)
        BY <1>1, <1>3, <1>8
      <3> QED
        BY <1>10, <2>1, <2>3, <3>1 DEF WalkStep
    <2>5. w2 \in WalkType /\ w2.cursor = Ahead(w1.cursor, 1) /\ w2.seq = w1.seq /\ w2.txns = w1.txns
          /\ w2.blocks = w1.blocks /\ w2.stop = w1.stop /\ w2.revokes = Append(w1.revokes, w1.cursor)
      <3> HIDE DEF WalkType
      <3> QED
        BY <1>10, RevokeDoes
    <2>6. w2.cursor = First + 2 + n
      <3> DEFINE j == 1 + n
      <3>1. j \in Nat /\ j + 1 < Area /\ First + j = First + 1 + n /\ First + j + 1 = First + 2 + n
        BY <1>2, AreaIs
      <3>2. Ahead(First + j, 1) = First + j + 1
        <4> HIDE DEF j
        <4> QED
          BY <3>1, AheadFrom
      <3> QED
        BY <1>10, <2>5, <3>1, <3>2
    <2>7. w2.revokes = <<First + 1 + n>>
      BY <1>10, <2>5
    <2> HIDE DEF w2
    <2>8. h[3] = WalkCommit(w2)
      <3>1. h[3] = WalkStep(lg, w2)
        BY <1>1, <1>3, <2>4
      <3> QED
        BY <1>10, <2>1, <2>2, <2>5, <2>6, <3>1 DEF WalkStep
    <2>9. WalkCommit(w2) \in WalkType /\ WalkCommit(w2).seq = SeqSucc(w2.seq)
          /\ WalkCommit(w2).txns = Append(w2.txns, [seq |-> w2.seq, blocks |-> w2.blocks, revokes |-> w2.revokes])
      <3> HIDE DEF WalkType
      <3> QED
        BY <2>5, CommitDoes
    <2>10. Append(<<>>, FoundIn(t)) = <<FoundIn(t)>>
      OBVIOUS
    <2>11. FoundIn(t) = [seq |-> t.seq, blocks |-> Entries(t), revokes |-> <<First + 1 + n>>]
      BY <1>13 DEF FoundIn, RevokeSlot, n
    <2>12. 3 \in 0 .. MaxLen
      BY <1>3
    <2> QED
      BY <1>10, <1>11, <2>5, <2>7, <2>8, <2>9, <2>10, <2>11, <2>12 DEF h
  <1> QED
    BY <1>12, <1>13

\* Nothing more is found behind it, so recovery finds it and it alone.
LEMMA ScanWhole ==
    ASSUME NEW lg, GoodLog(lg), NEW sb, sb.start = First, sb.seq \in Seqno,
           NEW t, IsReady(t), t.seq = sb.seq, InLog(lg, t),
           \A s \in BodySlot : lg[s].kind \in {"descriptor", "commit"} => lg[s].seq # SeqSucc(t.seq)
    PROVE  Scan(lg, sb) = <<FoundIn(t)>>
  <1> DEFINE h == Walk(lg, sb)
             next == SeqSucc(t.seq)
             found == <<FoundIn(t)>>
  <1>1. /\ h \in [0 .. MaxLen -> WalkType]
        /\ \A n \in 1 .. MaxLen : h[n] = WalkStep(lg, h[n - 1])
    <2>1. sb.start \in BodySlot
      BY SlotsAre
    <2> QED
      BY <2>1, WalkIs
  <1>2. PICK m \in 0 .. MaxLen : h[m] \in WalkType /\ h[m].seq = next /\ h[m].txns = found
    BY WalkPasses
  <1>3. Scan(lg, sb) = h[MaxLen].txns
    BY AreaIs DEF Scan
  <1>4. MaxLen \in Nat
    BY AreaIs
  <1> HIDE DEF h, next, found
  <1> DEFINE S == {k \in 0 .. MaxLen - m : h[m + k].seq = next /\ h[m + k].txns = found}
  <1>5. 0 \in S
    BY <1>2, <1>4
  <1>6. ASSUME NEW k \in 1 .. MaxLen - m, k - 1 \in S
        PROVE  k \in S
    <2>1. PICK n \in 1 .. MaxLen : n = m + k
      BY <1>4
    <2>2. n - 1 = m + (k - 1) /\ n - 1 \in 0 .. MaxLen /\ k \in 0 .. MaxLen - m
      BY <1>4, <2>1
    <2> DEFINE w == h[n - 1]
               b == lg[w.cursor]
    <2>3. w \in WalkType /\ w.seq = next /\ w.txns = found /\ h[n] = WalkStep(lg, w)
      BY <1>1, <1>6, <2>2
    <2>4. w.cursor \in BodySlot /\ b \in LogBlock
      BY <2>3 DEF WalkType, GoodLog
    <2> SUFFICES h[n].seq = next /\ h[n].txns = found
      BY <2>1, <2>2
    <2> HIDE DEF w
    <2>5. CASE h[n] = WalkStop(w)
      BY <2>3, <2>5, StopDoes
    <2>6. CASE h[n] = WalkRevoke(w)
      BY <2>3, <2>6, RevokeDoes
    <2>7. ~(b.kind = "descriptor" /\ b.seq = w.seq) /\ ~(b.kind = "commit" /\ b.seq = w.seq)
      BY <2>3, <2>4 DEF next
    <2>8. HasMagic(b) => b.kind \in {"descriptor", "revoke", "commit", "jsb"}
      BY DEF HasMagic
    <2> HIDE DEF WalkType
    <2> QED
      BY <2>3, <2>5, <2>6, <2>7, <2>8 DEF WalkStep
  <1> HIDE DEF S
  <1>7. MaxLen - m \in S
    <2>1. MaxLen - m \in Nat
      BY <1>4
    <2>2. 0 .. MaxLen - m \subseteq S
      BY <1>5, <1>6, <2>1, UpTo
    <2> QED
      BY <2>1, <2>2
  <1>8. h[m + (MaxLen - m)].txns = found
    BY <1>7 DEF S
  <1>9. m + (MaxLen - m) = MaxLen
    BY <1>4
  <1> QED
    BY <1>3, <1>8, <1>9 DEF found


-----------------------------------------------------------------------------
(* What recovery writes. *)

\* The revoke table of a transaction found in the log holds its revokes (mod.rs:511).
LEMMA RevokesFound ==
    ASSUME NEW lg, NEW t, IsReady(t), InLog(lg, t)
    PROVE  /\ RevokeSlots(<<FoundIn(t)>>) = IF t.revokes = {} THEN {} ELSE {First + 1 + SizeOf(t)}
           /\ \A b : IsRevoked(RevokeTable(lg, <<FoundIn(t)>>), b, t.seq) <=> b \in t.revokes
           /\ ~RevokeTableFails(lg, <<FoundIn(t)>>)
  <1> DEFINE txns == <<FoundIn(t)>>
             slots == RevokeSlots(txns)
             r == First + 1 + SizeOf(t)
             table == RevokeTable(lg, txns)
             seqs(b) == {lg[s].seq : s \in {x \in slots : b \in lg[x].blocks}}
  <1>1. DOMAIN txns = {1} /\ txns[1].revokes = RevokeSlot(t)
    BY DEF FoundIn
  <1>2. slots = IF t.revokes = {} THEN {} ELSE {r}
    <2>1. slots = ToSet(RevokeSlot(t))
      <3> HIDE DEF txns
      <3>1. {ToSet(txns[i].revokes) : i \in DOMAIN txns} = {ToSet(RevokeSlot(t))}
        BY <1>1
      <3> QED
        BY <3>1 DEF RevokeSlots
    <2>2. CASE t.revokes = {}
      BY <2>1, <2>2 DEF RevokeSlot, ToSet
    <2>3. CASE t.revokes # {}
      BY <2>1, <2>3 DEF RevokeSlot, ToSet
    <2> QED
      BY <2>2, <2>3
  <1>3. t.revokes # {} => /\ lg[r].seq = t.seq /\ lg[r].blocks = t.revokes /\ lg[r].ok = TRUE
    <2> SUFFICES ASSUME t.revokes # {}
                 PROVE  lg[r].seq = t.seq /\ lg[r].blocks = t.revokes /\ lg[r].ok = TRUE
      OBVIOUS
    <2>1. lg[r] = Revoke(t.seq, t.revokes)
      BY InLogIs
    <2> HIDE DEF r
    <2> QED
      BY <2>1 DEF Revoke
  <1>4. t.seq \in Nat
    <2>1. t.seq \in Seqno
      BY DEF IsReady, IsTxn
    <2> QED
      BY <2>1, LogGeometry DEF Seqno
  <1>5. table = [b \in UNION {lg[s].blocks : s \in slots} |->
                   CHOOSE q \in seqs(b) : \A x \in seqs(b) : x <= q]
    BY DEF RevokeTable
  <1> HIDE DEF txns, slots, r, table
  <1>6. UNION {lg[s].blocks : s \in slots} = t.revokes
    <2>1. CASE t.revokes = {}
      BY <1>2, <2>1
    <2>2. CASE t.revokes # {}
      BY <1>2, <1>3, <2>2
    <2> QED
      BY <2>1, <2>2
  <1>7. DOMAIN table = t.revokes
    BY <1>5, <1>6
  <1>8. ASSUME NEW b \in t.revokes PROVE table[b] = t.seq
    <2>1. seqs(b) = {t.seq}
      BY <1>2, <1>3
    <2>2. table[b] = CHOOSE q \in seqs(b) : \A x \in seqs(b) : x <= q
      BY <1>5, <1>6
    <2> HIDE DEF seqs
    <2>3. \E q \in seqs(b) : \A x \in seqs(b) : x <= q
      BY <1>4, <2>1
    <2>4. table[b] \in seqs(b)
      BY <2>2, <2>3
    <2> QED
      BY <2>1, <2>4
  <1>9. ASSUME NEW b PROVE IsRevoked(table, b, t.seq) <=> b \in t.revokes
    <2>1. CASE b \in t.revokes
      BY <1>4, <1>7, <1>8, <2>1 DEF IsRevoked
    <2>2. CASE b \notin t.revokes
      BY <1>7, <2>2 DEF IsRevoked
    <2> QED
      BY <2>1, <2>2
  <1>10. ~RevokeTableFails(lg, txns)
    <2>1. \A s \in slots : lg[s].ok = TRUE
      BY <1>2, <1>3
    <2> QED
      BY <2>1 DEF RevokeTableFails, slots
  <1> QED
    BY <1>2, <1>9, <1>10 DEF txns, slots, r, table

\* The blocks of the transaction, but for those it revokes, as they were staged.
LEMMA WritesAre ==
    ASSUME NEW lg, NEW t, IsReady(t), InLog(lg, t)
    PROVE  /\ DOMAIN HomeWrites(lg, <<FoundIn(t)>>) = DOMAIN t.blocks \ t.revokes
           /\ \A b \in DOMAIN t.blocks \ t.revokes :
                 HomeWrites(lg, <<FoundIn(t)>>)[b] = t.blocks[b]
           /\ HomeWrites(lg, <<FoundIn(t)>>) =
                 [b \in DOMAIN t.blocks \ t.revokes |-> t.blocks[b]]
  <1> DEFINE n == SizeOf(t)
             txns == <<FoundIn(t)>>
             table == RevokeTable(lg, txns)
             E == Entries(t)
             C(b) == Copies(lg, txns, b)
             last(b) == CHOOSE p \in C(b) : \A q \in C(b) : q[1] < p[1] \/ (q[1] = p[1] /\ q[2] <= p[2])
             data(p) == LET lb == txns[p[1]].blocks[p[2]]
                        IN  Unescape(lg[lb.slot], lb.escaped)
             logged == UNION {{lb.block : lb \in Range(txns[i].blocks)} : i \in DOMAIN txns}
             HW == HomeWrites(lg, txns)
  <1>1. DOMAIN txns = {1} /\ txns[1].blocks = E /\ txns[1].seq = t.seq
    BY DEF FoundIn
  <1>2. /\ n \in Nat /\ IsTxn(t)
        /\ DOMAIN E = 1 .. n
        /\ \A k \in 1 .. n : /\ E[k].block = Tagged(t)[k] /\ E[k].slot = First + k
                             /\ E[k].escaped = HasMagic(t.blocks[Tagged(t)[k]])
    BY BodyFits DEF Entries
  <1>3. /\ \A k \in 1 .. n : Tagged(t)[k] \in DOMAIN t.blocks
        /\ \A i, j \in 1 .. n : i # j => Tagged(t)[i] # Tagged(t)[j]
        /\ \A b \in DOMAIN t.blocks : \E k \in 1 .. n : Tagged(t)[k] = b
        /\ \A k \in 1 .. n : t.blocks[Tagged(t)[k]] \in HomeType(Tagged(t)[k])
        /\ \A k \in 1 .. n : Tagged(t)[k] \in Home
    BY <1>2, TaggedIs
  <1>4. \A b : IsRevoked(table, b, t.seq) <=> b \in t.revokes
    BY RevokesFound
  <1>5. HW = [b \in {c \in logged : C(c) # {}} |-> data(last(b))]
    BY DEF HomeWrites
  <1>6. \A b : C(b) = {p \in UNION {{i} \X DOMAIN txns[i].blocks : i \in DOMAIN txns} :
                         /\ txns[p[1]].blocks[p[2]].block = b
                         /\ ~IsRevoked(table, b, txns[p[1]].seq)}
    BY DEF Copies
  <1>7. logged = {Tagged(t)[k] : k \in 1 .. n}
    <2> HIDE DEF txns, n, E
    <2>1. {{lb.block : lb \in Range(txns[i].blocks)} : i \in DOMAIN txns}
             = {{lb.block : lb \in Range(E)}}
      BY <1>1
    <2>2. logged = {lb.block : lb \in Range(E)}
      BY <2>1
    <2>3. Range(E) = {E[k] : k \in 1 .. n}
      BY <1>2 DEF Range
    <2>4. {lb.block : lb \in {E[k] : k \in 1 .. n}} = {Tagged(t)[k] : k \in 1 .. n}
      <3>1. {lb.block : lb \in {E[k] : k \in 1 .. n}} = {E[k].block : k \in 1 .. n}
        OBVIOUS
      <3> QED
        BY <1>2, <3>1
    <2> QED
      BY <2>2, <2>3, <2>4
  <1> HIDE DEF txns, table, E, n, logged, HW
  <1>8. UNION {{i} \X DOMAIN txns[i].blocks : i \in DOMAIN txns} = {1} \X (1 .. n)
    <2>1. {{i} \X DOMAIN txns[i].blocks : i \in DOMAIN txns} = {{1} \X (1 .. n)}
      BY <1>1, <1>2
    <2> QED
      BY <2>1
  <1>9. ASSUME NEW b
        PROVE  C(b) = {p \in {1} \X (1 .. n) : Tagged(t)[p[2]] = b /\ b \notin t.revokes}
    <2>1. C(b) = {p \in {1} \X (1 .. n) : /\ txns[p[1]].blocks[p[2]].block = b
                                         /\ ~IsRevoked(table, b, txns[p[1]].seq)}
      BY <1>6, <1>8
    <2>2. ASSUME NEW p \in {1} \X (1 .. n)
          PROVE  /\ txns[p[1]].blocks[p[2]].block = Tagged(t)[p[2]]
                 /\ IsRevoked(table, b, txns[p[1]].seq) <=> b \in t.revokes
      <3>1. p[1] = 1 /\ p[2] \in 1 .. n
        OBVIOUS
      <3>2. txns[p[1]].blocks[p[2]] = E[p[2]] /\ txns[p[1]].seq = t.seq
        BY <1>1, <3>1
      <3> QED
        BY <1>2, <1>4, <3>1, <3>2
    <2> QED
      BY <2>1, <2>2
  <1> HIDE DEF C
  <1>10. ASSUME NEW b \in DOMAIN t.blocks \ t.revokes
         PROVE  b \in logged /\ C(b) # {} /\ data(last(b)) = t.blocks[b]
    <2>1. PICK k \in 1 .. n : Tagged(t)[k] = b
      BY <1>3
    <2>2. k \in Nat
      BY <1>2
    <2>3. ASSUME NEW p \in C(b) PROVE p = <<1, k>>
      <3>1. p \in {1} \X (1 .. n) /\ Tagged(t)[p[2]] = b
        BY <1>9
      <3>2. p[2] = k
        BY <1>3, <2>1, <3>1
      <3> QED
        BY <3>1, <3>2
    <2>4. <<1, k>> \in C(b)
      BY <1>9, <2>1
    <2>5. C(b) = {<<1, k>>}
      BY <2>3, <2>4
    <2> DEFINE top == <<1, k>>
               Is(p) == \A q \in C(b) : q[1] < p[1] \/ (q[1] = p[1] /\ q[2] <= p[2])
    <2>6. Is(top)
      BY <2>2, <2>5
    <2>7. last(b) = top
      <3>1. last(b) = CHOOSE p \in C(b) : Is(p)
        OBVIOUS
      <3> HIDE DEF Is, top, last
      <3>2. top \in C(b)
        BY <2>4 DEF top
      <3>3. last(b) \in C(b)
        BY <2>6, <3>1, <3>2
      <3> QED
        BY <2>5, <3>3 DEF top
    <2> HIDE DEF last
    <2>8. last(b)[1] = 1 /\ last(b)[2] = k
      BY <2>7
    <2>9. txns[last(b)[1]].blocks[last(b)[2]] = E[k]
      BY <1>1, <2>8
    <2>10. data(last(b)) = Unescape(lg[First + k], HasMagic(t.blocks[b]))
      BY <1>2, <2>1, <2>9
    <2>11. lg[First + k] = Escape(t.blocks[b])
      <3>1. \A j \in 1 .. n : lg[First + j] = Escape(t.blocks[Tagged(t)[j]])
        BY InLogIs DEF n
      <3> QED
        BY <2>1, <3>1
    <2>12. Unescape(Escape(t.blocks[b]), HasMagic(t.blocks[b])) = t.blocks[b]
      <3>1. t.blocks[b] \in HomeType(b) /\ b \in Home
        BY <1>3, <2>1
      <3> QED
        BY <3>1, Escaping
    <2>13. data(last(b)) = t.blocks[b]
      <3> HIDE DEF data
      <3> QED
        BY <2>10, <2>11, <2>12
    <2>14. b \in logged /\ C(b) # {}
      BY <1>7, <2>1, <2>5
    <2> QED
      BY <2>13, <2>14
  <1>11. ASSUME NEW b \in logged, C(b) # {} PROVE b \in DOMAIN t.blocks \ t.revokes
    <2>1. PICK p : p \in C(b)
      BY <1>11
    <2>2. p \in {1} \X (1 .. n) /\ Tagged(t)[p[2]] = b /\ b \notin t.revokes
      BY <1>9, <2>1
    <2> QED
      BY <1>3, <2>2
  <1> HIDE DEF data, last
  <1>12. {c \in logged : C(c) # {}} = DOMAIN t.blocks \ t.revokes
    BY <1>10, <1>11
  <1>13. HW = [b \in DOMAIN t.blocks \ t.revokes |-> data(last(b))]
    BY <1>5, <1>12
  <1>14. DOMAIN HW = DOMAIN t.blocks \ t.revokes
         /\ \A b \in DOMAIN t.blocks \ t.revokes : HW[b] = t.blocks[b]
    BY <1>10, <1>13
  <1>15. HW = [b \in DOMAIN t.blocks \ t.revokes |-> t.blocks[b]]
    BY <1>10, <1>13
  <1> QED
    BY <1>14, <1>15 DEF HW, txns

-----------------------------------------------------------------------------
(* The log on disk. *)

\* The durable log, slot by slot.
LEMMA DiskLogIs ==
    ASSUME DiskType
    PROVE  /\ GoodLog(DiskLog)
           /\ \A s \in LogSlot : DiskLog[s] = disk[LogAddr(s)]
           /\ \A s \in BodySlot : DiskLog[s] = disk[LogAddr(s)] /\ disk[LogAddr(s)] \in LogBlock
           /\ disk[LogAddr(0)].start \in {0, First} /\ LogSeq \in Seqno
           /\ disk[LogAddr(0)].kind = "jsb"
  <1>1. \A s \in LogSlot : DiskLog[s] = disk[LogAddr(s)]
    BY DEF DiskLog
  <1>2. \A s \in BodySlot : DiskLog[s] = disk[LogAddr(s)]
    BY <1>1, SlotsAre
  <1>3. \A s \in BodySlot : disk[LogAddr(s)] \in LogBlock
    BY DEF DiskType
  <1>4. disk[LogAddr(0)] \in [kind : {"jsb"}, seq : Seqno, start : {0, First}]
    BY DEF DiskType
  <1> QED
    BY <1>1, <1>2, <1>3, <1>4 DEF GoodLog, LogSeq

\* A transaction logged on disk is one in the durable log.
LEMMA LoggedInLog ==
    ASSUME DiskType, NEW t, IsReady(t), Logged(t)
    PROVE  InLog(DiskLog, t)
  <1>1. Len(Body(t)) \in Nat /\ Len(Body(t)) < Area
    BY BodyFits
  <1>2. ASSUME NEW k \in 0 .. Len(Body(t)) PROVE DiskLog[First + k] = disk[LogAddr(First + k)]
    <2>1. k \in 0 .. Area - 1
      BY <1>1, AreaIs
    <2>2. First + k \in BodySlot
      BY <2>1, AheadFirst
    <2> QED
      BY <2>2, DiskLogIs
  <1>3. ASSUME NEW k \in 1 .. Len(Body(t)) PROVE DiskLog[First + k - 1] = disk[LogAddr(First + k - 1)]
    <2>1. k - 1 \in 0 .. Len(Body(t)) /\ First + (k - 1) = First + k - 1
      BY <1>1, AreaIs
    <2>2. DiskLog[First + (k - 1)] = disk[LogAddr(First + (k - 1))]
      BY <1>2, <2>1
    <2> QED
      BY <2>1, <2>2
  <1>4. DiskLog[First + Len(Body(t))] = disk[LogAddr(First + Len(Body(t)))]
    BY <1>1, <1>2
  <1> QED
    BY <1>3, <1>4 DEF InLog, Logged, BodyLogged

\* The number after the current one is not in the log yet.
LEMMA NextUnused ==
    ASSUME MaxTxns < SeqWrap, DiskType, Numbers, Taken
    PROVE  /\ \A s \in BodySlot : disk[LogAddr(s)].kind \in {"descriptor", "commit"}
                                     => disk[LogAddr(s)].seq # SeqSucc(LogSeq)
           /\ SeqSucc(LogSeq) \in Seqno
           /\ Unwrapped(SeqSucc(LogSeq)) = Unwrapped(LogSeq) + 1
           /\ Unwrapped(LogSeq) \in Nat /\ count.txns \in Nat /\ FirstSeq \in Nat
  <1>1. LogSeq \in Seqno
    BY DiskLogIs
  <1>2. count.txns \in Nat /\ count.txns <= MaxTxns /\ Unwrapped(LogSeq) <= FirstSeq + count.txns
        /\ Unwrapped(LogSeq) < FirstSeq + count.txns
    BY DEF Numbers
  <1>3. SeqWrap \in Nat /\ FirstSeq \in Nat /\ MaxTxns \in Nat
    BY LogGeometry, JournalBounds
  <1>4. /\ Unwrapped(LogSeq) \in FirstSeq .. FirstSeq + SeqWrap - 1
        /\ SeqSucc(LogSeq) \in Seqno
        /\ Unwrapped(LogSeq) + 1 < FirstSeq + SeqWrap => Unwrapped(SeqSucc(LogSeq)) = Unwrapped(LogSeq) + 1
    BY <1>1, Counting
  <1>5. Unwrapped(LogSeq) \in Nat
    BY <1>3, <1>4
  <1>7. Unwrapped(LogSeq) + 1 < FirstSeq + SeqWrap
    BY <1>2, <1>3, <1>5
  <1>8. ASSUME NEW s \in BodySlot, disk[LogAddr(s)].kind \in {"descriptor", "commit"}
        PROVE  disk[LogAddr(s)].seq # SeqSucc(LogSeq)
    <2>1. Unwrapped(disk[LogAddr(s)].seq) <= Unwrapped(LogSeq)
      BY <1>8 DEF Numbers
    <2> QED
      BY <1>4, <1>5, <1>7, <2>1
  <1> QED
    BY <1>2, <1>3, <1>4, <1>5, <1>7, <1>8


-----------------------------------------------------------------------------
(* What recovery finds. *)

\* With no commit block of the current number, the scan finds nothing (mod.rs:180).
LEMMA FindsNothing ==
    ASSUME DiskType, ~HasCommit
    PROVE  Committed = <<>>
  <1>1. \A s \in BodySlot : DiskLog[s].kind = "commit" => DiskLog[s].seq # disk[LogAddr(0)].seq
    BY DiskLogIs DEF HasCommit, LogSeq
  <1>2. GoodLog(DiskLog) /\ disk[LogAddr(0)].start \in {0, First} /\ disk[LogAddr(0)].seq \in Seqno
    BY DiskLogIs DEF LogSeq
  <1> QED
    BY <1>1, <1>2, ScanEmpty DEF Committed

\* With a whole transaction of the current number in an active log, the scan finds it and no more.
LEMMA FindsWhole ==
    ASSUME MaxTxns < SeqWrap, DiskType, Numbers, Taken, Active,
           NEW t, IsReady(t), t.seq = LogSeq, Logged(t)
    PROVE  Committed = <<FoundIn(t)>>
  <1>1. InLog(DiskLog, t)
    BY LoggedInLog
  <1>2. \A s \in BodySlot : DiskLog[s].kind \in {"descriptor", "commit"} => DiskLog[s].seq # SeqSucc(t.seq)
    BY DiskLogIs, NextUnused
  <1>3. GoodLog(DiskLog) /\ disk[LogAddr(0)].start = First /\ disk[LogAddr(0)].seq \in Seqno
        /\ t.seq = disk[LogAddr(0)].seq
    BY DiskLogIs DEF LogSeq, Active
  <1> QED
    BY <1>1, <1>2, <1>3, ScanWhole DEF Committed

\* A transaction that is in the log with its commit block.
LEMMA LoggedCommits ==
    ASSUME NEW t, IsReady(t), t.seq = LogSeq, Logged(t)
    PROVE  HasCommit
  <1>1. Len(Body(t)) \in 0 .. Area - 1
    BY BodyFits, AreaIs
  <1>2. First + Len(Body(t)) \in BodySlot
    BY <1>1, AheadFirst
  <1>3. disk[LogAddr(First + Len(Body(t)))] = Commit(t.seq)
    BY DEF Logged
  <1> QED
    BY <1>2, <1>3 DEF HasCommit, Commit

-----------------------------------------------------------------------------
(* The writes that reach the disk, with a flush or in a crash. *)

Landed(kept, torn) == [a \in Addr |-> IF a \in torn THEN Torn
                                      ELSE IF a \in kept THEN cache[a] ELSE disk[a]]
Lands(kept, torn) == /\ kept \in SUBSET DOMAIN cache /\ torn \in SUBSET (kept \cap Tearable)
                     /\ disk' = Landed(kept, torn)

\* An address is that of a log slot or of a home block.
LEMMA AddrIs ==
    ASSUME NEW a \in Addr
    PROVE  (\E s \in LogSlot : a = LogAddr(s)) \/ (\E b \in Home : a = HomeAddr(b))
  BY DEF Addr

\* Nothing is written to the log.
LEMMA HomeLands ==
    ASSUME DiskType, NEW kept, NEW torn, Lands(kept, torn),
           NEW f, DOMAIN f \in SUBSET Home, cache = HomeImage(f),
           \A b \in DOMAIN f : f[b] \in HomeType(b)
    PROVE  /\ DiskType'
           /\ \A s \in LogSlot : disk'[LogAddr(s)] = disk[LogAddr(s)]
           /\ \A b \in Home : kept = DOMAIN cache /\ torn = {}
                  => disk'[HomeAddr(b)] = IF b \in DOMAIN f THEN f[b] ELSE disk[HomeAddr(b)]
           /\ \/ disk'[HomeAddr(SbBlock)] = disk[HomeAddr(SbBlock)]
              \/ SbBlock \in DOMAIN f /\ disk'[HomeAddr(SbBlock)] = f[SbBlock]
           /\ \A b \in Home : \/ disk'[HomeAddr(b)] = disk[HomeAddr(b)]
                              \/ b \in DOMAIN f /\ disk'[HomeAddr(b)] \in {f[b], Torn}
  <1>1. /\ kept \in SUBSET DOMAIN cache /\ torn \in SUBSET (kept \cap Tearable)
        /\ disk' = [a \in Addr |-> IF a \in torn THEN Torn ELSE IF a \in kept THEN cache[a] ELSE disk[a]]
    BY DEF Lands, Landed
  <1>2. DOMAIN cache = {HomeAddr(b) : b \in DOMAIN f}
    BY DEF HomeImage
  <1>3. ASSUME NEW b \in DOMAIN f PROVE cache[HomeAddr(b)] = f[b]
    <2>1. HomeAddr(b)[2] = b /\ HomeAddr(b) \in {HomeAddr(c) : c \in DOMAIN f}
      BY Addresses
    <2> QED
      BY <2>1 DEF HomeImage
  <1>4. ASSUME NEW s \in LogSlot PROVE disk'[LogAddr(s)] = disk[LogAddr(s)]
    <2>1. LogAddr(s) \in Addr /\ LogAddr(s) \notin DOMAIN cache
      BY <1>2, Addresses
    <2> QED
      BY <1>1, <2>1
  <1>5. ASSUME NEW b \in Home
        PROVE  /\ disk'[HomeAddr(b)] = disk[HomeAddr(b)] \/ (b \in DOMAIN f /\ disk'[HomeAddr(b)] = f[b])
                    \/ (b # SbBlock /\ b \in DOMAIN f /\ disk'[HomeAddr(b)] = Torn)
               /\ kept = DOMAIN cache /\ torn = {}
                    => disk'[HomeAddr(b)] = IF b \in DOMAIN f THEN f[b] ELSE disk[HomeAddr(b)]
    <2>1. HomeAddr(b) \in Addr
      BY Addresses
    <2>2. HomeAddr(b) \in DOMAIN cache <=> b \in DOMAIN f
      BY <1>2, Addresses
    <2>3. HomeAddr(SbBlock) \notin torn
      BY <1>1 DEF Tearable
    <2> QED
      BY <1>1, <1>3, <2>1, <2>2, <2>3
  <1>6. DiskType'
    <2>1. disk' = [a \in Addr |-> disk'[a]]
      BY <1>1
    <2>2. disk'[LogAddr(0)] \in [kind : {"jsb"}, seq : Seqno, start : {0, First}]
      BY <1>4, SlotsAre DEF DiskType
    <2>3. \A s \in BodySlot : disk'[LogAddr(s)] \in LogBlock
      BY <1>4, SlotsAre DEF DiskType
    <2>4. disk'[HomeAddr(SbBlock)] \in SuperBlock
      BY <1>5, HomeIs DEF DiskType, HomeType
    <2>5. \A b \in Data : disk'[HomeAddr(b)] \in Image \cup {Torn}
      BY <1>5, HomeIs DEF DiskType, HomeType
    <2> QED
      BY <2>1, <2>2, <2>3, <2>4, <2>5 DEF DiskType
  <1>7. \/ disk'[HomeAddr(SbBlock)] = disk[HomeAddr(SbBlock)]
        \/ SbBlock \in DOMAIN f /\ disk'[HomeAddr(SbBlock)] = f[SbBlock]
    <2>1. SbBlock \in Home
      BY HomeIs
    <2>2. \A b \in Home : \/ disk'[HomeAddr(b)] = disk[HomeAddr(b)]
                          \/ b \in DOMAIN f /\ disk'[HomeAddr(b)] = f[b]
                          \/ b # SbBlock
      BY <1>5
    <2> QED
      BY <2>1, <2>2
  <1>8. \A b \in Home : kept = DOMAIN cache /\ torn = {}
            => disk'[HomeAddr(b)] = IF b \in DOMAIN f THEN f[b] ELSE disk[HomeAddr(b)]
    BY <1>5
  <1>9. \A b \in Home : \/ disk'[HomeAddr(b)] = disk[HomeAddr(b)]
                        \/ b \in DOMAIN f /\ disk'[HomeAddr(b)] \in {f[b], Torn}
    BY <1>5
  <1> QED
    BY <1>4, <1>6, <1>7, <1>8, <1>9

SlotAddrs(slots) == {LogAddr(s) : s \in slots}

\* Blocks of the log body are written.
LEMMA LogLands ==
    ASSUME DiskType, NEW kept, NEW torn, Lands(kept, torn),
           NEW slots \in SUBSET BodySlot, DOMAIN cache = SlotAddrs(slots),
           \A s \in slots : cache[LogAddr(s)] \in LogBlock
    PROVE  /\ DiskType'
           /\ disk'[LogAddr(0)] = disk[LogAddr(0)]
           /\ \A b \in Home : disk'[HomeAddr(b)] = disk[HomeAddr(b)]
           /\ \A s \in BodySlot : \/ disk'[LogAddr(s)] = disk[LogAddr(s)]
                                  \/ s \in slots /\ disk'[LogAddr(s)] \in {cache[LogAddr(s)], Torn}
           /\ \A s \in BodySlot : kept = DOMAIN cache /\ torn = {}
                  => disk'[LogAddr(s)] = IF s \in slots THEN cache[LogAddr(s)] ELSE disk[LogAddr(s)]
  <1>1. /\ kept \in SUBSET DOMAIN cache /\ torn \in SUBSET (kept \cap Tearable)
        /\ disk' = [a \in Addr |-> IF a \in torn THEN Torn ELSE IF a \in kept THEN cache[a] ELSE disk[a]]
    BY DEF Lands, Landed
  <1>2. ASSUME NEW b \in Home PROVE disk'[HomeAddr(b)] = disk[HomeAddr(b)]
    <2>1. HomeAddr(b) \in Addr /\ HomeAddr(b) \notin DOMAIN cache
      BY Addresses DEF SlotAddrs
    <2> QED
      BY <1>1, <2>1
  <1>3. disk'[LogAddr(0)] = disk[LogAddr(0)]
    <2>1. LogAddr(0) \in Addr /\ LogAddr(0) \notin DOMAIN cache
      BY Addresses, SlotsAre DEF SlotAddrs
    <2> QED
      BY <1>1, <2>1
  <1>4. ASSUME NEW s \in BodySlot
        PROVE  /\ \/ disk'[LogAddr(s)] = disk[LogAddr(s)]
                  \/ s \in slots /\ disk'[LogAddr(s)] \in {cache[LogAddr(s)], Torn}
               /\ kept = DOMAIN cache /\ torn = {}
                     => disk'[LogAddr(s)] = IF s \in slots THEN cache[LogAddr(s)] ELSE disk[LogAddr(s)]
    <2>1. LogAddr(s) \in Addr
      BY Addresses, SlotsAre
    <2>2. LogAddr(s) \in DOMAIN cache <=> s \in slots
      BY Addresses DEF SlotAddrs
    <2> QED
      BY <1>1, <2>1, <2>2
  <1>5. DiskType'
    <2>1. disk' = [a \in Addr |-> disk'[a]]
      BY <1>1
    <2>2. \A s \in BodySlot : disk'[LogAddr(s)] \in LogBlock
      <3>1. Torn \in LogBlock
        BY DEF LogBlock, PlainBlock
      <3>2. \A s \in BodySlot : disk[LogAddr(s)] \in LogBlock
        BY DEF DiskType
      <3> QED
        BY <1>4, <3>1, <3>2
    <2>3. disk'[LogAddr(0)] \in [kind : {"jsb"}, seq : Seqno, start : {0, First}]
      BY <1>3 DEF DiskType
    <2>4. disk'[HomeAddr(SbBlock)] \in SuperBlock /\ \A b \in Data : disk'[HomeAddr(b)] \in Image \cup {Torn}
      BY <1>2, HomeIs DEF DiskType
    <2> QED
      BY <2>1, <2>2, <2>3, <2>4 DEF DiskType
  <1> QED
    BY <1>2, <1>3, <1>4, <1>5

\* The journal superblock is written.
LEMMA JsbLands ==
    ASSUME DiskType, NEW kept, NEW torn, Lands(kept, torn),
           NEW seq \in Seqno, NEW start \in {0, First}, cache = JsbWrite(seq, start)
    PROVE  /\ DiskType'
           /\ \A s \in BodySlot : disk'[LogAddr(s)] = disk[LogAddr(s)]
           /\ \A b \in Home : disk'[HomeAddr(b)] = disk[HomeAddr(b)]
           /\ disk'[LogAddr(0)] = disk[LogAddr(0)] \/ disk'[LogAddr(0)] = JournalSb(seq, start)
           /\ kept = DOMAIN cache => disk'[LogAddr(0)] = JournalSb(seq, start)
  <1>1. /\ kept \in SUBSET DOMAIN cache /\ torn \in SUBSET (kept \cap Tearable)
        /\ disk' = [a \in Addr |-> IF a \in torn THEN Torn ELSE IF a \in kept THEN cache[a] ELSE disk[a]]
    BY DEF Lands, Landed
  <1>2. DOMAIN cache = {LogAddr(0)} /\ cache[LogAddr(0)] = JournalSb(seq, start)
    <2>1. cache = [a \in {LogAddr(s) : s \in {0}} |-> JournalSb(seq, start)]
      BY DEF JsbWrite, LogWrites
    <2>2. {LogAddr(s) : s \in {0}} = {LogAddr(0)}
      OBVIOUS
    <2> QED
      BY <2>1, <2>2
  <1>3. ASSUME NEW b \in Home PROVE disk'[HomeAddr(b)] = disk[HomeAddr(b)]
    <2>1. HomeAddr(b) \in Addr /\ HomeAddr(b) \notin DOMAIN cache
      BY <1>2, Addresses
    <2> QED
      BY <1>1, <2>1
  <1>4. ASSUME NEW s \in BodySlot PROVE disk'[LogAddr(s)] = disk[LogAddr(s)]
    <2>1. LogAddr(s) \in Addr /\ LogAddr(s) \notin DOMAIN cache
      BY <1>2, Addresses, SlotsAre
    <2> QED
      BY <1>1, <2>1
  <1>5. /\ disk'[LogAddr(0)] = disk[LogAddr(0)] \/ disk'[LogAddr(0)] = JournalSb(seq, start)
        /\ kept = DOMAIN cache => disk'[LogAddr(0)] = JournalSb(seq, start)
    <2>1. LogAddr(0) \in Addr /\ LogAddr(0) \notin torn
      BY <1>1, Addresses, SlotsAre DEF Tearable
    <2> QED
      BY <1>1, <1>2, <2>1
  <1>6. DiskType'
    <2>1. disk' = [a \in Addr |-> disk'[a]]
      BY <1>1
    <2>2. \A s \in BodySlot : disk'[LogAddr(s)] \in LogBlock
      BY <1>4 DEF DiskType
    <2>3. disk'[LogAddr(0)] \in [kind : {"jsb"}, seq : Seqno, start : {0, First}]
      BY <1>5 DEF DiskType, JournalSb
    <2>4. disk'[HomeAddr(SbBlock)] \in SuperBlock /\ \A b \in Data : disk'[HomeAddr(b)] \in Image \cup {Torn}
      BY <1>3, HomeIs DEF DiskType
    <2> QED
      BY <2>1, <2>2, <2>3, <2>4 DEF DiskType
  <1> QED
    BY <1>3, <1>4, <1>5, <1>6

\* The invariant, as far as it is about the log alone.
OnDisk == /\ DiskType
          /\ Unwrapped(LogSeq) <= FirstSeq + count.txns
          /\ HasCommit => Unwrapped(LogSeq) < FirstSeq + count.txns
          /\ \A s \in BodySlot : disk[LogAddr(s)].kind \in {"descriptor", "commit"}
                                     => Unwrapped(disk[LogAddr(s)].seq) <= Unwrapped(LogSeq)
          /\ Sealed

\* The log as it was.
LogKept == /\ disk'[LogAddr(0)] = disk[LogAddr(0)]
           /\ \A s \in BodySlot : disk'[LogAddr(s)] = disk[LogAddr(s)]

\* What is said of the log stays while the log does.
LEMMA KeptLog ==
    ASSUME LogKept
    PROVE  /\ LogSeq' = LogSeq /\ (Active' <=> Active) /\ (HasCommit' <=> HasCommit)
           /\ \A t : IsReady(t) => (BodyLogged(t)' <=> BodyLogged(t)) /\ (Logged(t)' <=> Logged(t))
           /\ \A s \in BodySlot : disk'[LogAddr(s)] = disk[LogAddr(s)]
  <1>1. disk'[LogAddr(0)] = disk[LogAddr(0)]
    BY SlotsAre DEF LogKept
  <1>2. \A s \in BodySlot : disk'[LogAddr(s)] = disk[LogAddr(s)]
    BY SlotsAre DEF LogKept
  <1>3. LogSeq' = LogSeq /\ (Active' <=> Active)
    BY <1>1 DEF LogSeq, Active
  <1>4. HasCommit' <=> HasCommit
    BY <1>2, <1>3 DEF HasCommit
  <1>5. ASSUME NEW t, IsReady(t)
        PROVE  (BodyLogged(t)' <=> BodyLogged(t)) /\ (Logged(t)' <=> Logged(t))
    <2>1. Len(Body(t)) \in Nat /\ Len(Body(t)) < Area
      BY <1>5, BodyFits
    <2>2. ASSUME NEW k \in 0 .. Len(Body(t))
          PROVE  disk'[LogAddr(First + k)] = disk[LogAddr(First + k)]
      <3>1. k \in 0 .. Area - 1
        BY <2>1, AreaIs
      <3>2. First + k \in BodySlot
        BY <3>1, AheadFirst
      <3> QED
        BY <1>2, <3>2
    <2>3. ASSUME NEW k \in 1 .. Len(Body(t))
          PROVE  disk'[LogAddr(First + k - 1)] = disk[LogAddr(First + k - 1)]
      <3>1. k - 1 \in 0 .. Len(Body(t)) /\ First + (k - 1) = First + k - 1
        BY <2>1, AreaIs
      <3> QED
        BY <2>2, <3>1
    <2>4. BodyLogged(t)' <=> BodyLogged(t)
      BY <2>3 DEF BodyLogged
    <2>5. disk'[LogAddr(First + Len(Body(t)))] = disk[LogAddr(First + Len(Body(t)))]
      BY <2>1, <2>2
    <2> QED
      BY <2>4, <2>5 DEF Logged
  <1> QED
    BY <1>2, <1>3, <1>4, <1>5

\* The part of the invariant about the disk stays while the log does.
LEMMA KeptOnDisk ==
    ASSUME OnDisk, LogKept, DiskType', count'.txns = count.txns
    PROVE  OnDisk'
  <1>1. /\ LogSeq' = LogSeq /\ (Active' <=> Active) /\ (HasCommit' <=> HasCommit)
        /\ \A t : IsReady(t) => (BodyLogged(t)' <=> BodyLogged(t)) /\ (Logged(t)' <=> Logged(t))
        /\ \A s \in BodySlot : disk'[LogAddr(s)] = disk[LogAddr(s)]
    BY KeptLog
  <1>2. Sealed'
    <2>1. ASSUME HasCommit PROVE Active /\ \E t : IsReady(t) /\ t.seq = LogSeq /\ Logged(t)
      BY <2>1 DEF OnDisk, Sealed
    <2>2. ASSUME HasCommit'
          PROVE  Active' /\ \E t : IsReady(t) /\ t.seq = LogSeq' /\ Logged(t)'
      <3>1. PICK t : IsReady(t) /\ t.seq = LogSeq /\ Logged(t)
        BY <1>1, <2>1, <2>2
      <3> QED
        BY <1>1, <2>1, <2>2, <3>1
    <2> QED
      BY <2>2 DEF Sealed
  <1> QED
    BY <1>1, <1>2 DEF OnDisk


\* The part of the invariant about the disk.
LEMMA InvOnDisk == ASSUME IInv PROVE OnDisk
  BY DEF IInv, OnDisk, Numbers, Taken

\* The number looked for is the same, and still without a commit block.
LEMMA NotSealed ==
    ASSUME OnDisk, DiskType', LogSeq' = LogSeq, ~HasCommit', count'.txns = count.txns,
           \A s \in BodySlot : disk'[LogAddr(s)].kind \in {"descriptor", "commit"}
               => Unwrapped(disk'[LogAddr(s)].seq) <= Unwrapped(LogSeq)
    PROVE  OnDisk'
  <1>1. Sealed'
    BY DEF Sealed
  <1> QED
    BY <1>1 DEF OnDisk

\* No block of a body is a commit block, and its descriptor carries the number.
LEMMA BodyKinds ==
    ASSUME NEW t, IsReady(t), NEW k \in 1 .. Len(Body(t))
    PROVE  /\ Body(t)[k] \in LogBlock /\ Body(t)[k].kind # "commit"
           /\ Body(t)[k].kind = "descriptor" => Body(t)[k].seq = t.seq
  <1> DEFINE n == SizeOf(t)
             x == Body(t)[k]
  <1>1. IsTxn(t) /\ n \in Nat /\ Revokes(t) \in 0 .. 1 /\ Len(Body(t)) = 1 + n + Revokes(t)
        /\ (Revokes(t) = 1 => t.revokes # {})
    BY BodyFits DEF Revokes
  <1>2. /\ Body(t) \in Seq(LogBlock)
        /\ Body(t)[1] = Descriptor(t.seq, TagsOf(t))
        /\ \A j \in 1 .. n : Body(t)[1 + j] = Escape(t.blocks[Tagged(t)[j]])
        /\ t.revokes # {} => Body(t)[2 + n] = Revoke(t.seq, t.revokes)
    BY <1>1, BodyIs
  <1>3. x \in LogBlock
    <2> HIDE DEF LogBlock
    <2> QED
      BY <1>2
  <1>4. CASE k = 1
    <2>1. x = Descriptor(t.seq, TagsOf(t))
      BY <1>2, <1>4
    <2> HIDE DEF x
    <2>2. x.kind = "descriptor" /\ x.seq = t.seq
      BY <2>1 DEF Descriptor
    <2> QED
      BY <1>3, <2>2 DEF x
  <1>5. CASE k \in 2 .. n + 1
    <2>1. PICK j \in 1 .. n : k = 1 + j
      <3>1. k - 1 \in 1 .. n /\ k = 1 + (k - 1)
        BY <1>1, <1>5
      <3> QED
        BY <3>1
    <2>2. x = Escape(t.blocks[Tagged(t)[j]])
      BY <1>2, <2>1
    <2>3. Tagged(t)[j] \in Home /\ t.blocks[Tagged(t)[j]] \in HomeType(Tagged(t)[j])
      BY <1>1, TaggedIs
    <2>4. x \in PlainBlock
      BY <2>2, <2>3, Escaping
    <2> HIDE DEF x
    <2>5. x.kind \notin {"descriptor", "revoke", "commit"}
      BY <2>4, PlainIs
    <2> QED
      BY <1>3, <2>5 DEF x
  <1>6. CASE k = 2 + n /\ t.revokes # {}
    <2>1. x = Revoke(t.seq, t.revokes)
      BY <1>2, <1>6
    <2> HIDE DEF x
    <2>2. x.kind = "revoke"
      BY <2>1 DEF Revoke
    <2> QED
      BY <1>3, <2>2 DEF x
  <1> HIDE DEF n
  <1>7. k = 1 \/ k \in 2 .. n + 1 \/ (k = 2 + n /\ t.revokes # {})
    BY <1>1
  <1> QED
    BY <1>4, <1>5, <1>6, <1>7

\* Steps 3 and 4, of which a crash may leave a part.
LEMMA BodyLands ==
    ASSUME IInv, pc = "flush_body", NEW kept, NEW torn, Lands(kept, torn), count'.txns = count.txns
    PROVE  /\ OnDisk' /\ ~HasCommit' /\ LogSeq' = LogSeq
           /\ kept = DOMAIN cache /\ torn = {}
                  => \A k \in 1 .. Len(Body(txn)) : disk'[LogAddr(First + k - 1)] = Body(txn)[k]
           /\ disk'[LogAddr(0)] = disk[LogAddr(0)]
           /\ \A b \in Home : disk'[HomeAddr(b)] = disk[HomeAddr(b)]
           /\ \A s \in BodySlot : disk'[LogAddr(s)].kind = "commit" => disk'[LogAddr(s)] = disk[LogAddr(s)]
  <1> DEFINE m == Len(Body(txn))
             slots == First .. First + m - 1
  <1>1. IsReady(txn) /\ txn.seq = LogSeq /\ ~HasCommit
    BY DEF IInv, Phases, Pipeline, Preparing
  <1>2. DiskType /\ OnDisk
    BY InvOnDisk DEF OnDisk
  <1>3. m \in Nat /\ m < Area /\ First \in Nat
    BY <1>1, BodyFits, AreaIs
  <1>4. slots \in SUBSET BodySlot
    BY <1>3, AreaIs DEF BodySlot
  <1>5. DOMAIN cache = SlotAddrs(slots)
        /\ \A s \in slots : cache[LogAddr(s)] = Body(txn)[s - First + 1]
    <2> DEFINE g(s) == Body(txn)[s - First + 1]
    <2>1. cache = [a \in {LogAddr(s) : s \in slots} |-> g(a[2])]
      BY DEF IInv, Unflushed, LogWrites
    <2> HIDE DEF g, slots
    <2>2. DOMAIN cache = {LogAddr(s) : s \in slots}
      BY <2>1
    <2>3. ASSUME NEW s \in slots PROVE cache[LogAddr(s)] = g(s)
      <3>1. LogAddr(s) \in {LogAddr(r) : r \in slots} /\ LogAddr(s)[2] = s
        BY Addresses
      <3> QED
        BY <2>1, <3>1
    <2> QED
      BY <2>2, <2>3 DEF g, SlotAddrs
  <1>6. ASSUME NEW s \in slots
        PROVE  /\ s - First + 1 \in 1 .. m
               /\ cache[LogAddr(s)] \in LogBlock /\ cache[LogAddr(s)].kind # "commit"
               /\ cache[LogAddr(s)].kind = "descriptor" => cache[LogAddr(s)].seq = LogSeq
    <2>1. PICK k \in 1 .. m : k = s - First + 1
      BY <1>3
    <2>2. Body(txn)[k] \in LogBlock /\ Body(txn)[k].kind # "commit"
          /\ (Body(txn)[k].kind = "descriptor" => Body(txn)[k].seq = txn.seq)
      BY <1>1, BodyKinds
    <2> QED
      BY <1>1, <1>5, <2>1, <2>2
  <1> HIDE DEF slots
  <1>7. /\ DiskType' /\ disk'[LogAddr(0)] = disk[LogAddr(0)]
        /\ \A b \in Home : disk'[HomeAddr(b)] = disk[HomeAddr(b)]
        /\ \A s \in BodySlot : \/ disk'[LogAddr(s)] = disk[LogAddr(s)]
                               \/ s \in slots /\ disk'[LogAddr(s)] \in {cache[LogAddr(s)], Torn}
        /\ \A s \in BodySlot : kept = DOMAIN cache /\ torn = {}
               => disk'[LogAddr(s)] = IF s \in slots THEN cache[LogAddr(s)] ELSE disk[LogAddr(s)]
    BY <1>2, <1>4, <1>5, <1>6, LogLands
  <1>8. LogSeq' = LogSeq
    BY <1>7 DEF LogSeq
  <1>9. ASSUME NEW s \in BodySlot, disk'[LogAddr(s)] # disk[LogAddr(s)]
        PROVE  /\ disk'[LogAddr(s)].kind # "commit"
               /\ disk'[LogAddr(s)].kind = "descriptor" => disk'[LogAddr(s)].seq = LogSeq
    BY <1>6, <1>7, <1>9 DEF Torn
  <1>10. ~HasCommit'
    BY <1>1, <1>8, <1>9 DEF HasCommit
  <1>11. ASSUME NEW s \in BodySlot, disk'[LogAddr(s)].kind \in {"descriptor", "commit"}
         PROVE  Unwrapped(disk'[LogAddr(s)].seq) <= Unwrapped(LogSeq)
    <2>1. Unwrapped(LogSeq) <= Unwrapped(LogSeq)
      <3>1. Unwrapped(LogSeq) \in FirstSeq .. FirstSeq + SeqWrap - 1 /\ FirstSeq \in Nat /\ SeqWrap \in Nat
        BY <1>2, DiskLogIs, Counting, LogGeometry, JournalBounds
      <3> QED
        BY <3>1
    <2>2. CASE disk'[LogAddr(s)] # disk[LogAddr(s)]
      BY <1>9, <1>11, <2>1, <2>2
    <2>3. CASE disk'[LogAddr(s)] = disk[LogAddr(s)]
      BY <1>2, <1>11, <2>3 DEF OnDisk
    <2> QED
      BY <2>2, <2>3
  <1>12. OnDisk'
    BY <1>2, <1>7, <1>8, <1>10, <1>11, NotSealed
  <1>13. ASSUME kept = DOMAIN cache, torn = {}, NEW k \in 1 .. m
         PROVE  disk'[LogAddr(First + k - 1)] = Body(txn)[k]
    <2>1. PICK s \in slots : s = First + k - 1
      BY <1>3 DEF slots
    <2>2. s - First + 1 = k /\ s \in BodySlot
      BY <1>3, <1>4, <2>1
    <2> QED
      BY <1>5, <1>7, <1>13, <2>1, <2>2
  <1> QED
    BY <1>7, <1>8, <1>9, <1>10, <1>12, <1>13

\* Step 5.
LEMMA ActiveLands ==
    ASSUME IInv, pc = "flush_active", NEW kept, NEW torn, Lands(kept, torn), count'.txns = count.txns
    PROVE  /\ OnDisk' /\ ~HasCommit' /\ LogSeq' = LogSeq
           /\ \A s \in BodySlot : disk'[LogAddr(s)] = disk[LogAddr(s)]
           /\ kept = DOMAIN cache => Active'
           /\ \A b \in Home : disk'[HomeAddr(b)] = disk[HomeAddr(b)]
           /\ disk'[LogAddr(0)] = disk[LogAddr(0)] \/ Active'
  <1>1. IsReady(txn) /\ txn.seq = LogSeq /\ ~HasCommit
    BY DEF IInv, Phases, Pipeline, Activating
  <1>2. DiskType /\ OnDisk
    BY InvOnDisk DEF OnDisk
  <1>3. LogSeq \in Seqno /\ First \in {0, First}
    BY <1>2, DiskLogIs
  <1>4. cache = JsbWrite(LogSeq, First)
    BY <1>1 DEF IInv, Unflushed
  <1>5. /\ DiskType'
        /\ \A s \in BodySlot : disk'[LogAddr(s)] = disk[LogAddr(s)]
        /\ \A b \in Home : disk'[HomeAddr(b)] = disk[HomeAddr(b)]
        /\ disk'[LogAddr(0)] = disk[LogAddr(0)] \/ disk'[LogAddr(0)] = JournalSb(LogSeq, First)
        /\ kept = DOMAIN cache => disk'[LogAddr(0)] = JournalSb(LogSeq, First)
    BY <1>2, <1>3, <1>4, JsbLands
  <1>6. LogSeq' = LogSeq
    BY <1>5 DEF LogSeq, JournalSb
  <1>7. ~HasCommit'
    BY <1>1, <1>5, <1>6 DEF HasCommit
  <1>8. OnDisk'
    <2>1. \A s \in BodySlot : disk'[LogAddr(s)].kind \in {"descriptor", "commit"}
               => Unwrapped(disk'[LogAddr(s)].seq) <= Unwrapped(LogSeq)
      BY <1>2, <1>5 DEF OnDisk
    <2> QED
      BY <1>2, <1>5, <1>6, <1>7, <2>1, NotSealed
  <1>9. (kept = DOMAIN cache => Active') /\ (disk'[LogAddr(0)] = disk[LogAddr(0)] \/ Active')
    BY <1>5 DEF Active, JournalSb
  <1> QED
    BY <1>5, <1>6, <1>7, <1>8, <1>9

\* Step 6.
LEMMA CommitLands ==
    ASSUME IInv, pc = "flush_commit", NEW kept, NEW torn, Lands(kept, torn), count'.txns = count.txns
    PROVE  /\ OnDisk' /\ LogSeq' = LogSeq /\ Active'
           /\ \A k \in 1 .. Len(Body(txn)) : disk'[LogAddr(First + k - 1)] = Body(txn)[k]
           /\ kept = DOMAIN cache /\ torn = {}
                  => disk'[LogAddr(First + Len(Body(txn)))] = Commit(txn.seq)
           /\ disk'[LogAddr(0)] = disk[LogAddr(0)]
           /\ \A b \in Home : disk'[HomeAddr(b)] = disk[HomeAddr(b)]
           /\ \A s \in BodySlot : disk'[LogAddr(s)].kind = "commit"
                  => disk'[LogAddr(s)] = disk[LogAddr(s)] \/ disk'[LogAddr(s)].seq = LogSeq
  <1> DEFINE m == Len(Body(txn))
             at == First + m
             slots == {at}
  <1>1. IsReady(txn) /\ txn.seq = LogSeq /\ ~HasCommit /\ Active /\ BodyLogged(txn)
    BY DEF IInv, Phases, Pipeline, Sealing
  <1>2. DiskType /\ OnDisk
    BY InvOnDisk DEF OnDisk
  <1>3. m \in Nat /\ m < Area /\ First \in Nat
    BY <1>1, BodyFits, AreaIs
  <1>4. slots \in SUBSET BodySlot
    BY <1>3, AreaIs DEF BodySlot
  <1>5. DOMAIN cache = SlotAddrs(slots)
        /\ \A s \in slots : cache[LogAddr(s)] = Commit(LogSeq)
    <2> DEFINE g(s) == Commit(txn.seq)
    <2>1. cache = [a \in {LogAddr(s) : s \in slots} |-> g(a[2])]
      BY DEF IInv, Unflushed, LogWrites
    <2> HIDE DEF slots
    <2> QED
      BY <1>1, <2>1 DEF SlotAddrs
  <1>6. Commit(LogSeq) \in LogBlock /\ Commit(LogSeq).kind = "commit" /\ Commit(LogSeq).seq = LogSeq
    <2>1. LogSeq \in Seqno
      BY <1>2, DiskLogIs
    <2> QED
      BY <2>1 DEF Commit, LogBlock
  <1>7. \A s \in slots : cache[LogAddr(s)] \in LogBlock
    BY <1>5, <1>6
  <1>8. /\ DiskType' /\ disk'[LogAddr(0)] = disk[LogAddr(0)]
        /\ \A b \in Home : disk'[HomeAddr(b)] = disk[HomeAddr(b)]
        /\ \A s \in BodySlot : \/ disk'[LogAddr(s)] = disk[LogAddr(s)]
                               \/ s \in slots /\ disk'[LogAddr(s)] \in {cache[LogAddr(s)], Torn}
        /\ \A s \in BodySlot : kept = DOMAIN cache /\ torn = {}
               => disk'[LogAddr(s)] = IF s \in slots THEN cache[LogAddr(s)] ELSE disk[LogAddr(s)]
    <2> HIDE DEF slots
    <2> QED
      BY <1>2, <1>4, <1>5, <1>7, LogLands
  <1>9. LogSeq' = LogSeq /\ Active'
    BY <1>1, <1>8 DEF LogSeq, Active
  <1>10. ASSUME NEW s \in BodySlot, s # at PROVE disk'[LogAddr(s)] = disk[LogAddr(s)]
    BY <1>8, <1>10
  <1>11. disk'[LogAddr(at)] \in {disk[LogAddr(at)], Commit(LogSeq), Torn} /\ at \in BodySlot
         /\ (kept = DOMAIN cache /\ torn = {} => disk'[LogAddr(at)] = Commit(LogSeq))
    BY <1>4, <1>5, <1>8
  <1> HIDE DEF at, slots
  <1>12. ASSUME NEW k \in 1 .. m PROVE disk'[LogAddr(First + k - 1)] = Body(txn)[k]
    <2>1. PICK s : s = First + k - 1
      OBVIOUS
    <2>2. s \in BodySlot /\ s # at
      BY <1>3, <2>1, AreaIs DEF at, BodySlot
    <2>3. disk[LogAddr(s)] = Body(txn)[k]
      BY <1>1, <2>1 DEF BodyLogged
    <2> QED
      BY <1>10, <2>1, <2>2, <2>3
  <1>13. Unwrapped(LogSeq) < FirstSeq + count.txns /\ Unwrapped(LogSeq) <= Unwrapped(LogSeq)
    <2>1. Unwrapped(LogSeq) < FirstSeq + count.txns
      BY DEF IInv, Numbers, Taken, Pipeline, Sealing
    <2>2. Unwrapped(LogSeq) \in FirstSeq .. FirstSeq + SeqWrap - 1 /\ FirstSeq \in Nat /\ SeqWrap \in Nat
      BY <1>2, DiskLogIs, Counting, LogGeometry, JournalBounds
    <2> QED
      BY <2>1, <2>2
  <1>14. ASSUME NEW s \in BodySlot, disk'[LogAddr(s)].kind \in {"descriptor", "commit"}
         PROVE  Unwrapped(disk'[LogAddr(s)].seq) <= Unwrapped(LogSeq)
    <2>1. CASE disk'[LogAddr(s)] = disk[LogAddr(s)]
      BY <1>2, <1>14, <2>1 DEF OnDisk
    <2>2. CASE disk'[LogAddr(s)] = Commit(LogSeq)
      BY <1>6, <1>13, <2>2
    <2>3. CASE disk'[LogAddr(s)] = Torn
      BY <1>14, <2>3 DEF Torn
    <2> QED
      BY <1>10, <1>11, <2>1, <2>2, <2>3
  <1>15. OnDisk'
    <2>1. CASE disk'[LogAddr(at)] = Commit(LogSeq)
      <3>1. PICK t : t = txn
        OBVIOUS
      <3>2. BodyLogged(t)'
        BY <1>12, <3>1 DEF BodyLogged
      <3>3. Logged(t)'
        BY <1>1, <2>1, <3>1, <3>2 DEF Logged, at
      <3>4. IsReady(t) /\ t.seq = LogSeq'
        BY <1>1, <1>9, <3>1
      <3>5. Sealed'
        BY <1>9, <3>3, <3>4 DEF Sealed
      <3> QED
        BY <1>2, <1>8, <1>9, <1>13, <1>14, <3>5 DEF OnDisk
    <2>2. CASE disk'[LogAddr(at)] # Commit(LogSeq)
      <3>1. disk'[LogAddr(at)].kind = "commit" => disk'[LogAddr(at)] = disk[LogAddr(at)]
        BY <1>11, <2>2 DEF Torn
      <3>2. ~HasCommit'
        BY <1>1, <1>9, <1>10, <3>1 DEF HasCommit
      <3> QED
        BY <1>2, <1>8, <1>9, <1>14, <3>2, NotSealed
    <2> QED
      BY <2>1, <2>2
  <1>16. kept = DOMAIN cache /\ torn = {} => disk'[LogAddr(First + m)] = Commit(txn.seq)
    BY <1>1, <1>11 DEF at
  <1>17. ASSUME NEW s \in BodySlot, disk'[LogAddr(s)].kind = "commit"
         PROVE  disk'[LogAddr(s)] = disk[LogAddr(s)] \/ disk'[LogAddr(s)].seq = LogSeq
    BY <1>6, <1>10, <1>11, <1>17 DEF Torn
  <1> QED
    BY <1>8, <1>9, <1>12, <1>15, <1>16, <1>17

\* The log is marked empty, with the next number: step 8, and the end of a replay.
LEMMA CleanLands ==
    ASSUME MaxTxns < SeqWrap, IInv, Taken, cache = JsbWrite(SeqSucc(LogSeq), 0),
           NEW kept, NEW torn, Lands(kept, torn), count'.txns = count.txns
    PROVE  /\ OnDisk'
           /\ \A s \in BodySlot : disk'[LogAddr(s)] = disk[LogAddr(s)]
           /\ \A b \in Home : disk'[HomeAddr(b)] = disk[HomeAddr(b)]
           /\ disk'[LogAddr(0)] = disk[LogAddr(0)] \/ disk'[LogAddr(0)] = JournalSb(SeqSucc(LogSeq), 0)
           /\ disk'[LogAddr(0)] = JournalSb(SeqSucc(LogSeq), 0) => ~HasCommit'
           /\ kept = DOMAIN cache => disk'[LogAddr(0)] = JournalSb(SeqSucc(LogSeq), 0)
  <1> DEFINE next == SeqSucc(LogSeq)
  <1>1. DiskType /\ OnDisk /\ Numbers
    BY InvOnDisk DEF OnDisk, IInv
  <1>2. /\ \A s \in BodySlot : disk[LogAddr(s)].kind \in {"descriptor", "commit"}
                                   => disk[LogAddr(s)].seq # next
        /\ next \in Seqno /\ Unwrapped(next) = Unwrapped(LogSeq) + 1
        /\ Unwrapped(LogSeq) \in Nat /\ count.txns \in Nat /\ FirstSeq \in Nat
    BY <1>1, NextUnused
  <1>3. Unwrapped(LogSeq) < FirstSeq + count.txns
    BY <1>1 DEF Numbers
  <1>4. 0 \in {0, First}
    OBVIOUS
  <1> HIDE DEF next
  <1>5. cache = JsbWrite(next, 0)
    BY DEF next
  <1>6. /\ DiskType'
        /\ \A s \in BodySlot : disk'[LogAddr(s)] = disk[LogAddr(s)]
        /\ \A b \in Home : disk'[HomeAddr(b)] = disk[HomeAddr(b)]
        /\ disk'[LogAddr(0)] = disk[LogAddr(0)] \/ disk'[LogAddr(0)] = JournalSb(next, 0)
        /\ kept = DOMAIN cache => disk'[LogAddr(0)] = JournalSb(next, 0)
    BY <1>1, <1>2, <1>4, <1>5, JsbLands
  <1>7. ASSUME disk'[LogAddr(0)] = JournalSb(next, 0)
        PROVE  ~HasCommit' /\ OnDisk'
    <2>1. LogSeq' = next
      BY <1>7 DEF LogSeq, JournalSb
    <2>2. ~HasCommit'
      BY <1>2, <1>6, <2>1 DEF HasCommit
    <2>3. Sealed'
      BY <2>2 DEF Sealed
    <2>4. ASSUME NEW s \in BodySlot, disk'[LogAddr(s)].kind \in {"descriptor", "commit"}
          PROVE  Unwrapped(disk'[LogAddr(s)].seq) <= Unwrapped(next)
      <3> DEFINE u == Unwrapped(disk[LogAddr(s)].seq)
      <3>1. disk[LogAddr(s)].seq \in Seqno
        BY <1>1, <1>6, <2>4, DiskLogIs, Kinds
      <3>2. u \in Nat
        BY <1>2, <3>1, Counting
      <3>3. u <= Unwrapped(LogSeq)
        BY <1>1, <1>6, <2>4 DEF Numbers
      <3> HIDE DEF u
      <3>4. u <= Unwrapped(next)
        BY <1>2, <3>2, <3>3
      <3> QED
        BY <1>6, <3>4 DEF u
    <2>5. Unwrapped(next) <= FirstSeq + count.txns
      BY <1>2, <1>3
    <2> QED
      BY <1>6, <2>1, <2>2, <2>3, <2>4, <2>5 DEF OnDisk
  <1>8. ASSUME disk'[LogAddr(0)] = disk[LogAddr(0)]
        PROVE  OnDisk'
    <2>1. LogKept
      BY <1>6, <1>8 DEF LogKept
    <2> QED
      BY <1>1, <1>6, <2>1, KeptOnDisk
  <1> QED
    BY <1>6, <1>7, <1>8 DEF next


\* The RECOVER flag is written.
LEMMA RecoverLands ==
    ASSUME DiskType, NEW on \in BOOLEAN, cache = RecoverWrite(on), NEW kept, NEW torn, Lands(kept, torn)
    PROVE  /\ DiskType' /\ LogKept
           /\ kept = DOMAIN cache /\ torn = {}
                  => disk'[HomeAddr(SbBlock)] = [disk[HomeAddr(SbBlock)] EXCEPT !.recover = on]
           /\ disk'[HomeAddr(SbBlock)] \in {disk[HomeAddr(SbBlock)],
                                            [disk[HomeAddr(SbBlock)] EXCEPT !.recover = on]}
           /\ \A b \in Data : disk'[HomeAddr(b)] = disk[HomeAddr(b)]
  <1> DEFINE s == [disk[HomeAddr(SbBlock)] EXCEPT !.recover = on]
             f == [b \in {SbBlock} |-> s]
  <1>1. cache = HomeImage(f)
    BY DEF RecoverWrite
  <1>2. s \in SuperBlock
    <2>1. disk[HomeAddr(SbBlock)] \in SuperBlock
      BY DEF DiskType
    <2> QED
      BY <2>1 DEF SuperBlock
  <1> HIDE DEF s
  <1>3. DOMAIN f = {SbBlock} /\ f[SbBlock] = s
    OBVIOUS
  <1> HIDE DEF f
  <1>4. DOMAIN f \in SUBSET Home /\ \A b \in DOMAIN f : f[b] \in HomeType(b)
    BY <1>2, <1>3, HomeIs DEF HomeType
  <1>5. /\ DiskType'
        /\ \A r \in LogSlot : disk'[LogAddr(r)] = disk[LogAddr(r)]
        /\ \A b \in Home : kept = DOMAIN cache /\ torn = {}
               => disk'[HomeAddr(b)] = IF b \in DOMAIN f THEN f[b] ELSE disk[HomeAddr(b)]
        /\ \/ disk'[HomeAddr(SbBlock)] = disk[HomeAddr(SbBlock)]
           \/ SbBlock \in DOMAIN f /\ disk'[HomeAddr(SbBlock)] = f[SbBlock]
        /\ \A b \in Home : \/ disk'[HomeAddr(b)] = disk[HomeAddr(b)]
                           \/ b \in DOMAIN f /\ disk'[HomeAddr(b)] \in {f[b], Torn}
    BY <1>1, <1>4, HomeLands
  <1>6. LogKept
    BY <1>5, SlotsAre DEF LogKept
  <1>7. ASSUME kept = DOMAIN cache, torn = {}
        PROVE  disk'[HomeAddr(SbBlock)] = s
    BY <1>3, <1>5, <1>7, HomeIs
  <1>8. disk'[HomeAddr(SbBlock)] \in {disk[HomeAddr(SbBlock)], s}
    BY <1>3, <1>5
  <1>9. \A b \in Data : disk'[HomeAddr(b)] = disk[HomeAddr(b)]
    BY <1>3, <1>5, HomeIs
  <1> QED
    BY <1>5, <1>6, <1>7, <1>8, <1>9 DEF s

\* Step 7.
LEMMA CheckpointLands ==
    ASSUME IInv, pc = "flush_checkpoint", NEW kept, NEW torn, Lands(kept, torn)
    PROVE  /\ DiskType' /\ LogKept /\ disk'[HomeAddr(SbBlock)].recover
           /\ \A b \in Home : kept = DOMAIN cache /\ torn = {}
                  => disk'[HomeAddr(b)] = IF b \in DOMAIN txn.blocks THEN txn.blocks[b]
                                          ELSE disk[HomeAddr(b)]
           /\ \A b \in Home : \/ disk'[HomeAddr(b)] = disk[HomeAddr(b)]
                              \/ /\ b \in DOMAIN txn.blocks
                                 /\ disk'[HomeAddr(b)] \in {txn.blocks[b], Torn}
  <1> DEFINE f == txn.blocks
  <1>1. IsReady(txn) /\ disk[HomeAddr(SbBlock)].recover
    BY DEF IInv, Phases, Pipeline, Applying
  <1>2. /\ DOMAIN f \in SUBSET Home /\ (\A b \in DOMAIN f : f[b] \in HomeType(b))
        /\ SbBlock \in DOMAIN f /\ f[SbBlock].recover
    BY <1>1 DEF IsReady, IsTxn
  <1>3. cache = HomeImage(f) /\ DiskType
    BY DEF IInv, Unflushed
  <1> HIDE DEF f
  <1>4. /\ DiskType'
        /\ \A r \in LogSlot : disk'[LogAddr(r)] = disk[LogAddr(r)]
        /\ \A b \in Home : kept = DOMAIN cache /\ torn = {}
               => disk'[HomeAddr(b)] = IF b \in DOMAIN f THEN f[b] ELSE disk[HomeAddr(b)]
        /\ \/ disk'[HomeAddr(SbBlock)] = disk[HomeAddr(SbBlock)]
           \/ SbBlock \in DOMAIN f /\ disk'[HomeAddr(SbBlock)] = f[SbBlock]
        /\ \A b \in Home : \/ disk'[HomeAddr(b)] = disk[HomeAddr(b)]
                           \/ b \in DOMAIN f /\ disk'[HomeAddr(b)] \in {f[b], Torn}
    BY <1>2, <1>3, HomeLands
  <1>5. LogKept
    BY <1>4, SlotsAre DEF LogKept
  <1>6. disk'[HomeAddr(SbBlock)].recover
    BY <1>1, <1>2, <1>4
  <1> QED
    BY <1>4, <1>5, <1>6 DEF f

\* The transaction that a commit block is of.
LEMMA TheSealed ==
    ASSUME MaxTxns < SeqWrap, IInv, HasCommit
    PROVE  Active /\ Taken /\ \E t : IsReady(t) /\ t.seq = LogSeq /\ Logged(t) /\ Committed = <<FoundIn(t)>>
  <1>1. Active /\ Taken /\ DiskType /\ Numbers
    BY DEF IInv, Sealed, Taken
  <1>2. PICK t : IsReady(t) /\ t.seq = LogSeq /\ Logged(t)
    BY DEF IInv, Sealed
  <1>3. Committed = <<FoundIn(t)>>
    BY <1>1, <1>2, FindsWhole
  <1> QED
    BY <1>1, <1>2, <1>3

\* The writes of recovery.
LEMMA ReplayLands ==
    ASSUME MaxTxns < SeqWrap, IInv, pc = "flush_replay", NEW kept, NEW torn, Lands(kept, torn),
           NEW t, IsReady(t), Logged(t), Committed = <<FoundIn(t)>>
    PROVE  /\ DiskType' /\ LogKept
           /\ \A b \in Home : kept = DOMAIN cache /\ torn = {}
                  => disk'[HomeAddr(b)] = IF b \in DOMAIN t.blocks \ t.revokes THEN t.blocks[b]
                                          ELSE disk[HomeAddr(b)]
           /\ \A b \in Home : \/ disk'[HomeAddr(b)] = disk[HomeAddr(b)]
                              \/ /\ b \in DOMAIN t.blocks \ t.revokes
                                 /\ disk'[HomeAddr(b)] \in {t.blocks[b], Torn}
  <1> DEFINE f == HomeWrites(DiskLog, Committed)
  <1>1. DiskType
    BY DEF IInv
  <1>2. /\ DOMAIN f = DOMAIN t.blocks \ t.revokes
        /\ \A b \in DOMAIN f : f[b] = t.blocks[b]
    <2>1. InLog(DiskLog, t)
      BY <1>1, LoggedInLog
    <2>2. f = HomeWrites(DiskLog, <<FoundIn(t)>>)
      OBVIOUS
    <2> HIDE DEF f
    <2>3. f = [b \in DOMAIN t.blocks \ t.revokes |-> t.blocks[b]]
      BY <2>1, <2>2, WritesAre
    <2> QED
      BY <2>3
  <1>3. DOMAIN f \in SUBSET Home /\ \A b \in DOMAIN f : f[b] \in HomeType(b)
    BY <1>2 DEF IsReady, IsTxn
  <1>4. cache = HomeImage(f)
    BY DEF IInv, Unflushed
  <1> HIDE DEF f
  <1>5. /\ DiskType'
        /\ \A r \in LogSlot : disk'[LogAddr(r)] = disk[LogAddr(r)]
        /\ \A b \in Home : kept = DOMAIN cache /\ torn = {}
               => disk'[HomeAddr(b)] = IF b \in DOMAIN f THEN f[b] ELSE disk[HomeAddr(b)]
        /\ \A b \in Home : \/ disk'[HomeAddr(b)] = disk[HomeAddr(b)]
                           \/ b \in DOMAIN f /\ disk'[HomeAddr(b)] \in {f[b], Torn}
    BY <1>1, <1>3, <1>4, HomeLands
  <1>6. LogKept
    BY <1>5, SlotsAre DEF LogKept
  <1> QED
    BY <1>2, <1>5, <1>6

-----------------------------------------------------------------------------
(* Crash. *)

Flushing == DOMAIN AfterFlush

\* Whatever a crash leaves of the writes under way.
LEMMA CrashLands ==
    ASSUME MaxTxns < SeqWrap, IInv, NEW kept, NEW torn, Lands(kept, torn), count'.txns = count.txns
    PROVE  OnDisk'
  <1>1. DiskType /\ OnDisk
    BY InvOnDisk DEF OnDisk
  <1>2. CASE cache = Empty
    <2>1. kept = {} /\ torn = {}
      BY <1>2 DEF Lands, Empty
    <2>2. disk' = [a \in Addr |-> disk[a]]
      BY <2>1 DEF Lands, Landed
    <2>3. disk' = disk
      BY <1>1, <2>2 DEF DiskType
    <2>4. LogKept /\ DiskType'
      BY <1>1, <2>3 DEF LogKept, DiskType
    <2> QED
      BY <1>1, <2>4, KeptOnDisk
  <1>3. CASE pc = "flush_body"
    BY <1>3, BodyLands
  <1>4. CASE pc = "flush_active"
    BY <1>4, ActiveLands
  <1>5. CASE pc = "flush_commit"
    BY <1>5, CommitLands
  <1>6. CASE pc \in {"flush_recover", "flush_done"}
    <2>1. PICK on \in BOOLEAN : cache = RecoverWrite(on)
      BY <1>6 DEF IInv, Unflushed
    <2>2. DiskType' /\ LogKept
      BY <1>1, <2>1, RecoverLands
    <2> QED
      BY <1>1, <2>2, KeptOnDisk
  <1>7. CASE pc = "flush_checkpoint"
    <2>1. DiskType' /\ LogKept
      BY <1>7, CheckpointLands
    <2> QED
      BY <1>1, <2>1, KeptOnDisk
  <1>8. CASE pc = "flush_replay"
    <2>1. HasCommit
      BY <1>8 DEF IInv, Phases, Replaying
    <2>2. PICK t : IsReady(t) /\ Logged(t) /\ Committed = <<FoundIn(t)>>
      BY <2>1, TheSealed
    <2>3. DiskType' /\ LogKept
      BY <1>8, <2>2, ReplayLands
    <2> QED
      BY <1>1, <2>3, KeptOnDisk
  <1>9. CASE pc \in {"flush_clean", "flush_clear"}
    <2>1. Taken /\ cache = JsbWrite(SeqSucc(LogSeq), 0)
      BY <1>9 DEF IInv, Phases, Unflushed, Taken, Pipeline, Applying, Replaying
    <2> QED
      BY <2>1, CleanLands
  <1>10. \/ cache = Empty
         \/ pc \in {"flush_body", "flush_active", "flush_commit", "flush_recover", "flush_done",
                    "flush_checkpoint", "flush_replay", "flush_clean", "flush_clear"}
    BY DEF IInv, Phases, Unflushed, Pipeline, Preparing, Activating, Sealing, Flagging, Applying,
           Replaying, Ending
  <1> QED
    BY <1>2, <1>3, <1>4, <1>5, <1>6, <1>7, <1>8, <1>9, <1>10

\* The transaction of an idle engine is one.
LEMMA IdleIs == IsTxn(Idle)
  <1>1. DOMAIN Idle.blocks = {} /\ Idle.seq = FirstSeq /\ Idle.revokes = {} /\ Idle.blocks = Empty
    BY DEF Idle, Empty
  <1>2. FirstSeq \in Seqno
    BY JournalBounds DEF Seqno
  <1>3. IsFiniteSet({})
    BY FS_EmptySet
  <1>4. Empty = [b \in {} |-> Empty[b]]
    BY DEF Empty
  <1> QED
    BY <1>1, <1>2, <1>3, <1>4 DEF IsTxn, Idle

\* A crash, whatever it keeps and tears.
LEMMA CrashKeeps ==
    ASSUME MaxTxns < SeqWrap, IInv, Fail
    PROVE  IInv'
  <1>1. PICK kept \in SUBSET DOMAIN cache : \E torn \in SUBSET (kept \cap Tearable) : Crash(kept, torn)
    BY DEF Fail
  <1>2. PICK torn \in SUBSET (kept \cap Tearable) : Crash(kept, torn)
    BY <1>1
  <1>3. Lands(kept, torn)
    BY <1>2 DEF Crash, Lands, Landed
  <1>4. /\ cache' = Empty /\ txn' = Idle /\ depth' = 0 /\ pc' = "off"
        /\ count' = [count EXCEPT !.crashes = @ + 1]
    BY <1>2 DEF Crash
  <1>5. count \in [txns : Nat, crashes : Nat] /\ count.txns <= MaxTxns
    BY DEF IInv, Numbers
  <1>6. count' \in [txns : Nat, crashes : Nat] /\ count'.txns = count.txns
    BY <1>4, <1>5
  <1>7. OnDisk'
    BY <1>3, <1>6, CrashLands
  <1>8. Numbers'
    <2>1. Taken' => HasCommit'
      BY <1>4 DEF Taken, Pipeline, Preparing, Activating, Sealing, Flagging, Applying
    <2> QED
      BY <1>5, <1>6, <1>7, <2>1 DEF Numbers, OnDisk
  <1>9. Phases'
    <2>1. 0 \in 0 .. MaxDepth
      BY JournalBounds
    <2>2. IsTxn(txn)'
      BY <1>4, IdleIs DEF IsTxn
    <2> QED
      BY <1>4, <2>1, <2>2 DEF Phases, Pipeline, Preparing, Activating, Sealing, Flagging, Applying,
           Replaying, Ending
  <1>10. Unflushed'
    BY <1>4 DEF Unflushed
  <1> QED
    BY <1>7, <1>8, <1>9, <1>10 DEF IInv, OnDisk


-----------------------------------------------------------------------------
(* Flush. *)

\* The cache holds blocks of the device.
LEMMA CacheIs ==
    ASSUME MaxTxns < SeqWrap, IInv
    PROVE  DOMAIN cache \in SUBSET Addr
  <1> DEFINE ofLog(slots) == {LogAddr(s) : s \in slots}
             ofHome(S) == {HomeAddr(b) : b \in S}
  <1>1. \A slots : slots \in SUBSET LogSlot => ofLog(slots) \in SUBSET Addr
    BY DEF Addr
  <1>2. \A S : S \in SUBSET Home => ofHome(S) \in SUBSET Addr
    BY DEF Addr
  <1>3. /\ \A seq, start : DOMAIN JsbWrite(seq, start) = ofLog({0})
        /\ \A on : DOMAIN RecoverWrite(on) = ofHome({SbBlock})
        /\ \A f : DOMAIN HomeImage(f) = ofHome(DOMAIN f)
    BY DEF JsbWrite, LogWrites, RecoverWrite, HomeImage
  <1>4. {0} \in SUBSET LogSlot /\ {SbBlock} \in SUBSET Home
    BY SlotsAre, HomeIs
  <1> HIDE DEF ofLog, ofHome
  <1>5. CASE cache = Empty
    BY <1>5 DEF Empty
  <1>6. CASE pc \in {"flush_active", "flush_clean", "flush_clear"}
    <2>1. \E seq, start : cache = JsbWrite(seq, start)
      BY <1>6 DEF IInv, Unflushed
    <2> QED
      BY <1>1, <1>3, <1>4, <2>1
  <1>7. CASE pc \in {"flush_recover", "flush_done"}
    <2>1. \E on : cache = RecoverWrite(on)
      BY <1>7 DEF IInv, Unflushed
    <2> QED
      BY <1>2, <1>3, <1>4, <2>1
  <1>8. CASE pc = "flush_checkpoint"
    <2>1. cache = HomeImage(txn.blocks)
      BY <1>8 DEF IInv, Unflushed
    <2>2. DOMAIN txn.blocks \in SUBSET Home
      BY DEF IInv, Phases, IsTxn
    <2> QED
      BY <1>2, <1>3, <2>1, <2>2
  <1>9. CASE pc = "flush_replay"
    <2>1. cache = HomeImage(HomeWrites(DiskLog, Committed))
      BY <1>9 DEF IInv, Unflushed
    <2>2. HasCommit /\ DiskType
      BY <1>9 DEF IInv, Phases, Replaying
    <2>3. PICK t : IsReady(t) /\ Logged(t) /\ Committed = <<FoundIn(t)>>
      BY <2>2, TheSealed
    <2>4. DOMAIN HomeWrites(DiskLog, <<FoundIn(t)>>) = DOMAIN t.blocks \ t.revokes
      BY <2>2, <2>3, LoggedInLog, WritesAre
    <2>5. DOMAIN t.blocks \in SUBSET Home
      BY <2>3 DEF IsReady, IsTxn
    <2> QED
      BY <1>2, <1>3, <2>1, <2>3, <2>4, <2>5
  <1>10. CASE pc \in {"flush_body", "flush_commit"}
    <2>1. IsReady(txn)
      BY <1>10 DEF IInv, Phases, Pipeline, Preparing, Sealing
    <2>2. Len(Body(txn)) \in Nat /\ Len(Body(txn)) < Area
      BY <2>1, BodyFits
    <2> DEFINE m == Len(Body(txn))
               slots == First .. First + m - 1
               last == {First + m}
    <2>3. slots \in SUBSET LogSlot /\ last \in SUBSET LogSlot
      BY <2>2, AreaIs DEF LogSlot
    <2>4. DOMAIN cache = ofLog(slots) \/ DOMAIN cache = ofLog(last)
      <3>1. CASE pc = "flush_body"
        <4> DEFINE g(s) == Body(txn)[s - First + 1]
        <4>1. cache = LogWrites(slots, g)
          BY <3>1 DEF IInv, Unflushed
        <4> HIDE DEF slots
        <4>2. DOMAIN cache = {LogAddr(s) : s \in slots}
          BY <4>1 DEF LogWrites
        <4> QED
          BY <4>2 DEF ofLog
      <3>2. CASE pc = "flush_commit"
        <4> DEFINE g(s) == Commit(txn.seq)
        <4>1. cache = LogWrites(last, g)
          BY <3>2 DEF IInv, Unflushed
        <4> HIDE DEF last
        <4>2. DOMAIN cache = {LogAddr(s) : s \in last}
          BY <4>1 DEF LogWrites
        <4> QED
          BY <4>2 DEF ofLog
      <3> QED
        BY <1>10, <3>1, <3>2
    <2> HIDE DEF slots, last
    <2> QED
      BY <1>1, <2>3, <2>4
  <1>11. \/ cache = Empty
         \/ pc \in {"flush_body", "flush_active", "flush_commit", "flush_recover", "flush_done",
                    "flush_checkpoint", "flush_replay", "flush_clean", "flush_clear"}
    BY DEF IInv, Phases, Unflushed, Pipeline, Preparing, Activating, Sealing, Flagging, Applying,
           Replaying, Ending
  <1> QED
    BY <1>5, <1>6, <1>7, <1>8, <1>9, <1>10, <1>11

\* A flush is a crash that keeps and tears nothing less than all.
LEMMA FlushLands ==
    ASSUME MaxTxns < SeqWrap, IInv, Flush
    PROVE  /\ Lands(DOMAIN cache, {}) /\ cache' = Empty /\ depth' = depth /\ count' = count
           /\ count'.txns = count.txns
           /\ depth = 0 /\ DiskType /\ OnDisk /\ pc' = AfterFlush[pc] /\ pc \in DOMAIN AfterFlush
           /\ pc # "flush_done" => txn' = txn
  <1>1. pc \in DOMAIN AfterFlush /\ disk' = Over(disk, cache)
    BY DEF Flush
  <1>2. depth = 0
    <2>1. pc # "running"
      BY <1>1 DEF AfterFlush
    <2> QED
      BY <2>1, JournalBounds DEF IInv, Phases
  <1>3. DiskType /\ OnDisk
    BY InvOnDisk DEF OnDisk
  <1>4. DOMAIN disk = Addr
    BY <1>3 DEF DiskType
  <1>5. DOMAIN cache \in SUBSET Addr
    BY CacheIs
  <1>6. Lands(DOMAIN cache, {})
    BY <1>1, <1>4, <1>5 DEF Lands, Landed, Over
  <1> QED
    BY <1>1, <1>2, <1>3, <1>6 DEF Flush

\* The numbers after a flush that leaves the engine idle.
LEMMA FlushedNumbers ==
    ASSUME IInv, OnDisk', count' = count, depth' = 0, pc' \notin Pipeline
    PROVE  Numbers'
  <1>1. Taken' => HasCommit'
    BY DEF Taken
  <1> QED
    BY <1>1 DEF Numbers, OnDisk, IInv

\* The numbers while one transaction is on its way.
LEMMA PipelineNumbers ==
    ASSUME IInv, OnDisk', count' = count, LogSeq' = LogSeq, Taken
    PROVE  Numbers'
  BY DEF Numbers, OnDisk, IInv


\* The body is durable.
LEMMA FlushBody ==
    ASSUME MaxTxns < SeqWrap, IInv, Flush, pc = "flush_body"
    PROVE  IInv'
  <1>1. Lands(DOMAIN cache, {}) /\ cache' = Empty /\ depth' = 0 /\ count' = count /\ txn' = txn
        /\ count'.txns = count.txns
    BY FlushLands
  <1>2. pc' = "mark_active"
    BY FlushLands DEF AfterFlush
  <1>3. /\ OnDisk' /\ ~HasCommit' /\ LogSeq' = LogSeq
        /\ \A k \in 1 .. Len(Body(txn)) : disk'[LogAddr(First + k - 1)] = Body(txn)[k]
    BY <1>1, BodyLands
  <1>4. IsReady(txn) /\ txn.seq = LogSeq /\ Taken
    BY DEF IInv, Phases, Taken, Pipeline, Preparing
  <1>5. Numbers'
    BY <1>1, <1>3, <1>4, PipelineNumbers
  <1>6. BodyLogged(txn)'
    BY <1>1, <1>3 DEF BodyLogged
  <1>7. IsReady(txn)' /\ IsTxn(txn)'
    BY <1>1, <1>4 DEF IsReady, IsTxn
  <1>8. Phases'
    BY <1>1, <1>2, <1>3, <1>4, <1>6, <1>7, JournalBounds DEF Phases, Pipeline, Preparing, Activating, Sealing,
       Flagging, Applying, Replaying, Ending
  <1>9. Unflushed'
    BY <1>1, <1>2 DEF Unflushed
  <1> QED
    BY <1>3, <1>5, <1>8, <1>9 DEF IInv, OnDisk

\* The active journal superblock is durable.
LEMMA FlushActive ==
    ASSUME MaxTxns < SeqWrap, IInv, Flush, pc = "flush_active"
    PROVE  IInv'
  <1>1. Lands(DOMAIN cache, {}) /\ cache' = Empty /\ depth' = 0 /\ count' = count /\ txn' = txn
        /\ count'.txns = count.txns
    BY FlushLands
  <1>2. pc' = "write_commit"
    BY FlushLands DEF AfterFlush
  <1>3. /\ OnDisk' /\ ~HasCommit' /\ LogSeq' = LogSeq /\ Active'
        /\ \A s \in BodySlot : disk'[LogAddr(s)] = disk[LogAddr(s)]
    BY <1>1, ActiveLands
  <1>4. IsReady(txn) /\ txn.seq = LogSeq /\ Taken /\ BodyLogged(txn)
    BY DEF IInv, Phases, Taken, Pipeline, Activating
  <1>5. Numbers'
    BY <1>1, <1>3, <1>4, PipelineNumbers
  <1>6. BodyLogged(txn)'
    <2>1. Len(Body(txn)) \in Nat /\ Len(Body(txn)) < Area
      BY <1>4, BodyFits
    <2>2. ASSUME NEW k \in 1 .. Len(Body(txn)) PROVE disk'[LogAddr(First + k - 1)] = Body(txn)[k]
      <3>1. First + k - 1 \in BodySlot
        BY <2>1, AreaIs DEF BodySlot
      <3> QED
        BY <1>3, <1>4, <3>1 DEF BodyLogged
    <2> QED
      BY <1>1, <2>2 DEF BodyLogged
  <1>7. IsReady(txn)' /\ IsTxn(txn)'
    BY <1>1, <1>4 DEF IsReady, IsTxn
  <1>8. Phases'
    BY <1>1, <1>2, <1>3, <1>4, <1>6, <1>7, JournalBounds DEF Phases, Pipeline, Preparing, Activating, Sealing,
       Flagging, Applying, Replaying, Ending
  <1>9. Unflushed'
    BY <1>1, <1>2 DEF Unflushed
  <1> QED
    BY <1>3, <1>5, <1>8, <1>9 DEF IInv, OnDisk

\* The commit block is durable.
LEMMA FlushCommit ==
    ASSUME MaxTxns < SeqWrap, IInv, Flush, pc = "flush_commit"
    PROVE  IInv'
  <1>1. Lands(DOMAIN cache, {}) /\ cache' = Empty /\ depth' = 0 /\ count' = count /\ txn' = txn
        /\ count'.txns = count.txns
    BY FlushLands
  <1>2. pc' = "set_recover"
    BY FlushLands DEF AfterFlush
  <1>3. /\ OnDisk' /\ LogSeq' = LogSeq /\ Active'
        /\ \A k \in 1 .. Len(Body(txn)) : disk'[LogAddr(First + k - 1)] = Body(txn)[k]
        /\ disk'[LogAddr(First + Len(Body(txn)))] = Commit(txn.seq)
    BY <1>1, CommitLands
  <1>4. IsReady(txn) /\ txn.seq = LogSeq /\ Taken
    BY DEF IInv, Phases, Taken, Pipeline, Sealing
  <1>5. Numbers'
    BY <1>1, <1>3, <1>4, PipelineNumbers
  <1>6. Logged(txn)'
    <2>1. BodyLogged(txn)'
      BY <1>1, <1>3 DEF BodyLogged
    <2> QED
      BY <1>1, <1>3, <2>1 DEF Logged
  <1>7. IsReady(txn)' /\ IsTxn(txn)'
    BY <1>1, <1>4 DEF IsReady, IsTxn
  <1>8. Phases'
    BY <1>1, <1>2, <1>3, <1>4, <1>6, <1>7, JournalBounds DEF Phases, Pipeline, Preparing, Activating, Sealing,
       Flagging, Applying, Replaying, Ending
  <1>9. Unflushed'
    BY <1>1, <1>2 DEF Unflushed
  <1> QED
    BY <1>3, <1>5, <1>8, <1>9 DEF IInv, OnDisk

\* A flush that the log has no part in, while the transaction is in it.
LEMMA FlushHome ==
    ASSUME MaxTxns < SeqWrap, IInv, Flush, pc \in {"flush_recover", "flush_checkpoint"}
    PROVE  IInv'
  <1>1. Lands(DOMAIN cache, {}) /\ cache' = Empty /\ depth' = 0 /\ count' = count /\ txn' = txn
        /\ count'.txns = count.txns /\ DiskType /\ OnDisk
    BY FlushLands
  <1>2. pc' \in {"checkpoint", "mark_clean"}
    BY FlushLands DEF AfterFlush
  <1>3. DiskType' /\ LogKept /\ disk'[HomeAddr(SbBlock)].recover
    <2>1. CASE pc = "flush_recover"
      <3>1. cache = RecoverWrite(TRUE)
        BY <2>1 DEF IInv, Unflushed
      <3>2. /\ DiskType' /\ LogKept
            /\ disk'[HomeAddr(SbBlock)] = [disk[HomeAddr(SbBlock)] EXCEPT !.recover = TRUE]
        BY <1>1, <3>1, RecoverLands
      <3>3. disk[HomeAddr(SbBlock)] \in SuperBlock
        BY <1>1 DEF DiskType
      <3> QED
        BY <3>2, <3>3 DEF SuperBlock
    <2>2. CASE pc = "flush_checkpoint"
      BY <1>1, <2>2, CheckpointLands
    <2> QED
      BY <2>1, <2>2
  <1>4. OnDisk' /\ LogSeq' = LogSeq /\ (Active' <=> Active)
        /\ \A t : IsReady(t) => (Logged(t)' <=> Logged(t))
    BY <1>1, <1>3, KeptOnDisk, KeptLog
  <1>5. IsReady(txn) /\ txn.seq = LogSeq /\ Taken /\ Active /\ Logged(txn)
    BY DEF IInv, Phases, Taken, Pipeline, Flagging, Applying
  <1>6. Numbers'
    BY <1>1, <1>4, <1>5, PipelineNumbers
  <1>7. Logged(txn)'
    <2>1. PICK t : t = txn
      OBVIOUS
    <2>2. Logged(t)'
      BY <1>4, <1>5, <2>1
    <2>3. t = txn'
      BY <1>1, <2>1
    <2> QED
      BY <2>2, <2>3 DEF Logged, BodyLogged
  <1>8. IsReady(txn)' /\ IsTxn(txn)'
    BY <1>1, <1>5 DEF IsReady, IsTxn
  <1>9. Phases'
    BY <1>1, <1>2, <1>3, <1>4, <1>5, <1>7, <1>8, JournalBounds DEF Phases, Pipeline, Preparing, Activating,
       Sealing, Flagging, Applying, Replaying, Ending
  <1>10. Unflushed'
    BY <1>1, <1>2 DEF Unflushed
  <1> QED
    BY <1>4, <1>6, <1>9, <1>10 DEF IInv, OnDisk

\* The end of a replay's writes, and of the whole.
LEMMA FlushReplay ==
    ASSUME MaxTxns < SeqWrap, IInv, Flush, pc = "flush_replay"
    PROVE  IInv'
  <1>1. Lands(DOMAIN cache, {}) /\ cache' = Empty /\ depth' = 0 /\ count' = count /\ txn' = txn
        /\ count'.txns = count.txns /\ DiskType /\ OnDisk
    BY FlushLands
  <1>2. pc' = "clear_journal"
    BY FlushLands DEF AfterFlush
  <1>3. HasCommit
    BY DEF IInv, Phases, Replaying
  <1>4. PICK t : IsReady(t) /\ Logged(t) /\ Committed = <<FoundIn(t)>>
    BY <1>3, TheSealed
  <1>5. DiskType' /\ LogKept
    BY <1>1, <1>4, ReplayLands
  <1>6. OnDisk' /\ LogSeq' = LogSeq /\ HasCommit'
    BY <1>1, <1>3, <1>5, KeptOnDisk, KeptLog
  <1>7. Numbers'
    <2>1. Taken
      BY <1>3 DEF Taken
    <2> QED
      BY <1>1, <1>6, <2>1, PipelineNumbers
  <1>8. IsTxn(txn)'
    BY <1>1 DEF IInv, Phases, IsTxn
  <1>9. Phases'
    BY <1>1, <1>2, <1>6, <1>8, JournalBounds DEF Phases, Pipeline, Preparing, Activating, Sealing,
       Flagging, Applying, Replaying, Ending
  <1>10. Unflushed'
    BY <1>1, <1>2 DEF Unflushed
  <1> QED
    BY <1>6, <1>7, <1>9, <1>10 DEF IInv, OnDisk

\* The clean journal superblock is durable, after a checkpoint or a replay.
LEMMA FlushClean ==
    ASSUME MaxTxns < SeqWrap, IInv, Flush, pc \in {"flush_clean", "flush_clear"}
    PROVE  IInv'
  <1>1. Lands(DOMAIN cache, {}) /\ cache' = Empty /\ depth' = 0 /\ count' = count /\ txn' = txn
        /\ count'.txns = count.txns
    BY FlushLands
  <1>2. pc' = "clear_recover"
    BY FlushLands DEF AfterFlush
  <1>3. Taken /\ cache = JsbWrite(SeqSucc(LogSeq), 0)
    BY DEF IInv, Phases, Unflushed, Taken, Pipeline, Applying, Replaying
  <1>4. OnDisk' /\ ~HasCommit'
    BY <1>1, <1>3, CleanLands
  <1>5. Numbers'
    <2>1. pc' \notin Pipeline
      BY <1>2 DEF Pipeline, Preparing, Activating, Sealing, Flagging, Applying
    <2> QED
      BY <1>1, <1>4, <2>1, FlushedNumbers
  <1>6. IsTxn(txn)'
    BY <1>1 DEF IInv, Phases, IsTxn
  <1>7. Phases'
    BY <1>1, <1>2, <1>4, <1>6, JournalBounds DEF Phases, Pipeline, Preparing, Activating, Sealing,
       Flagging, Applying, Replaying, Ending
  <1>8. Unflushed'
    BY <1>1, <1>2 DEF Unflushed
  <1> QED
    BY <1>4, <1>5, <1>7, <1>8 DEF IInv, OnDisk

\* The cleared recover flag is durable.
LEMMA FlushDone ==
    ASSUME MaxTxns < SeqWrap, IInv, Flush, pc = "flush_done"
    PROVE  IInv'
  <1>1. Lands(DOMAIN cache, {}) /\ cache' = Empty /\ depth' = 0 /\ count' = count
        /\ count'.txns = count.txns /\ DiskType /\ OnDisk
    BY FlushLands
  <1>2. pc' = "running" /\ txn' = Idle
    BY FlushLands DEF AfterFlush, Flush
  <1>3. ~HasCommit /\ cache = RecoverWrite(FALSE)
    BY DEF IInv, Phases, Unflushed, Ending
  <1>4. DiskType' /\ LogKept
    BY <1>1, <1>3, RecoverLands
  <1>5. OnDisk' /\ ~HasCommit'
    BY <1>1, <1>3, <1>4, KeptOnDisk, KeptLog
  <1>6. Numbers'
    <2>1. pc' \notin Pipeline
      BY <1>2 DEF Pipeline, Preparing, Activating, Sealing, Flagging, Applying
    <2> QED
      BY <1>1, <1>5, <2>1, FlushedNumbers
  <1>7. IsTxn(txn)'
    BY <1>2, IdleIs DEF IsTxn
  <1>8. Phases'
    BY <1>1, <1>2, <1>5, <1>7, JournalBounds DEF Phases, Pipeline, Preparing, Activating, Sealing,
       Flagging, Applying, Replaying, Ending
  <1>9. Unflushed'
    BY <1>1, <1>2 DEF Unflushed
  <1> QED
    BY <1>5, <1>6, <1>8, <1>9 DEF IInv, OnDisk

\* A flush.
LEMMA FlushKeeps ==
    ASSUME MaxTxns < SeqWrap, IInv, Flush
    PROVE  IInv'
  <1>1. pc \in {"flush_body", "flush_active", "flush_commit", "flush_recover", "flush_done",
                "flush_checkpoint", "flush_replay", "flush_clean", "flush_clear"}
    BY DEF Flush, AfterFlush
  <1> QED
    BY <1>1, FlushBody, FlushActive, FlushCommit, FlushHome, FlushReplay, FlushClean, FlushDone


-----------------------------------------------------------------------------
(* Writes into the cache. *)

\* Writes into an empty cache.
LEMMA OverEmpty ==
    ASSUME NEW g
    PROVE  Over(Empty, g) = [x \in DOMAIN g |-> g[x]]
  BY DEF Over, Empty

\* A phase goes on while the disk, the transaction and the depth stay.
LEMMA SamePhase ==
    ASSUME IInv, UNCHANGED <<disk, txn, depth, count>>,
           NEW G \in {Preparing, Activating, Sealing, Flagging, Applying, Replaying, Ending},
           pc \in G, pc' \in G
    PROVE  DiskType' /\ Numbers' /\ Sealed' /\ Phases'
  <1>1. DiskType' /\ LogKept /\ OnDisk
    BY InvOnDisk DEF IInv, DiskType, LogKept
  <1>2. OnDisk' /\ LogSeq' = LogSeq /\ (HasCommit' <=> HasCommit) /\ (Active' <=> Active)
        /\ \A t : IsReady(t) => (BodyLogged(t)' <=> BodyLogged(t)) /\ (Logged(t)' <=> Logged(t))
    BY <1>1, KeptOnDisk, KeptLog
  <1>3. pc \in Pipeline <=> pc' \in Pipeline
    BY DEF Pipeline, Preparing, Activating, Sealing, Flagging, Applying, Replaying, Ending
  <1>4. Numbers'
    BY <1>1, <1>2, <1>3 DEF IInv, Numbers, Taken, OnDisk
  <1>5. IsTxn(txn)' /\ (IsReady(txn) => IsReady(txn)')
    BY DEF IInv, Phases, IsTxn, IsReady
  <1>6. IsReady(txn) /\ BodyLogged(txn) => BodyLogged(txn)'
    BY DEF BodyLogged
  <1>7. IsReady(txn) /\ Logged(txn) => Logged(txn)'
    BY DEF Logged, BodyLogged
  <1>8. Phases
    BY DEF IInv
  <1>9. Phases'
    BY <1>2, <1>3, <1>5, <1>6, <1>7, <1>8 DEF Phases, Pipeline, Preparing, Activating, Sealing,
       Flagging, Applying, Replaying, Ending
  <1> QED
    BY <1>2, <1>4, <1>9 DEF OnDisk

\* The journal superblock is written.
LEMMA JsbCached ==
    ASSUME cache = Empty, NEW seq, NEW start, WriteJsb(seq, start)
    PROVE  cache' = JsbWrite(seq, start)
  <1> DEFINE g == [s \in {0} |-> JournalSb(seq, start)]
             h == [a \in {LogAddr(s) : s \in DOMAIN g} |-> g[a[2]]]
  <1>1. cache' = Over(Empty, h)
    BY DEF WriteJsb, WriteLog, WriteBlocks
  <1>2. cache' = [a \in {LogAddr(s) : s \in DOMAIN g} |-> g[a[2]]]
    BY <1>1, OverEmpty
  <1>3. {LogAddr(s) : s \in DOMAIN g} = {LogAddr(0)} /\ {LogAddr(s) : s \in {0}} = {LogAddr(0)}
    OBVIOUS
  <1>4. LogAddr(0)[2] = 0 /\ g[0] = JournalSb(seq, start)
    BY Addresses
  <1> HIDE DEF g, h
  <1>5. cache' = [a \in {LogAddr(0)} |-> JournalSb(seq, start)]
    BY <1>2, <1>3, <1>4
  <1>6. JsbWrite(seq, start) = [a \in {LogAddr(0)} |-> JournalSb(seq, start)]
    BY <1>3 DEF JsbWrite, LogWrites
  <1> QED
    BY <1>5, <1>6

\* Home blocks are written.
LEMMA HomeCached ==
    ASSUME cache = Empty, NEW f, WriteHome(f)
    PROVE  cache' = HomeImage(f)
  <1> DEFINE h == [a \in {HomeAddr(b) : b \in DOMAIN f} |-> f[a[2]]]
  <1>1. cache' = Over(Empty, h)
    BY DEF WriteHome, WriteBlocks
  <1>2. cache' = h
    BY <1>1, OverEmpty
  <1> QED
    BY <1>2 DEF HomeImage

\* The recover flag is written.
LEMMA RecoverCached ==
    ASSUME cache = Empty, disk' = disk, NEW on \in BOOLEAN, WriteRecover(on)
    PROVE  cache' = RecoverWrite(on)'
  <1>1. VisibleSuper = disk[HomeAddr(SbBlock)]
    BY DEF VisibleSuper, Visible, Empty
  <1> DEFINE f == [b \in {SbBlock} |-> [disk[HomeAddr(SbBlock)] EXCEPT !.recover = on]]
  <1>2. WriteHome(f)
    BY <1>1 DEF WriteRecover
  <1>3. cache' = HomeImage(f)
    <2> HIDE DEF f
    <2> QED
      BY <1>2, HomeCached
  <1>4. RecoverWrite(on)' = HomeImage(f)
    BY DEF RecoverWrite, HomeImage
  <1> QED
    BY <1>3, <1>4

\* The engine's caches while it is at work.
LEMMA Quiet ==
    ASSUME IInv, pc \in {"running", "off", "write_body", "mark_active", "write_commit", "set_recover",
                         "checkpoint", "mark_clean", "clear_recover", "clear_journal"}
    PROVE  /\ cache = Empty /\ VisibleLog = DiskLog /\ VisibleJsb = disk[LogAddr(0)]
           /\ \A b : Visible(HomeAddr(b)) = disk[HomeAddr(b)]
  <1>1. cache = Empty
    BY DEF IInv, Unflushed
  <1>2. \A a : Visible(a) = disk[a]
    BY <1>1 DEF Visible, Empty
  <1> QED
    BY <1>1, <1>2 DEF VisibleLog, DiskLog, VisibleJsb

\* The body is written, each block into a slot of its own.
LEMMA BodyCached ==
    ASSUME cache = Empty, IsReady(txn), WriteBody
    PROVE  cache' = LET g(s) == Body(txn)[s - First + 1]
                    IN  LogWrites(First .. First + Len(Body(txn)) - 1, g)
  <1> DEFINE body == Body(txn)
             m == Len(body)
             slots(s) == {k \in DOMAIN body : Ahead(First, k - 1) = s}
             S == {Ahead(First, k - 1) : k \in DOMAIN body}
             w == [s \in S |-> body[CHOOSE k \in slots(s) : \A j \in slots(s) : j <= k]]
             R == First .. First + m - 1
             g(s) == body[s - First + 1]
  <1>1. m \in Nat /\ m < Area /\ First \in Nat /\ Area \in Nat
    BY BodyFits, AreaIs
  <1>2. DOMAIN body = 1 .. m
    <2>1. body \in Seq(LogBlock)
      BY BodyFits, BodyIs
    <2> HIDE DEF LogBlock, body
    <2> QED
      BY <2>1 DEF m
  <1>3. ASSUME NEW k \in 1 .. m PROVE Ahead(First, k - 1) = First + (k - 1)
    <2>1. k - 1 \in 0 .. Area - 1
      BY <1>1
    <2> QED
      BY <2>1, AheadFirst
  <1>4. WriteLog(w)
    BY DEF WriteBody
  <1> HIDE DEF body, m
  <1>5. S = R
    <2>1. ASSUME NEW k \in 1 .. m PROVE Ahead(First, k - 1) \in R
      BY <1>1, <1>3
    <2>2. ASSUME NEW s \in R PROVE s \in S
      <3>1. PICK k \in 1 .. m : k - 1 = s - First /\ s = First + (k - 1)
        <4>1. (s - First) + 1 \in 1 .. m /\ ((s - First) + 1) - 1 = s - First /\ s = First + (s - First)
          BY <1>1
        <4> QED
          BY <4>1
      <3> QED
        BY <1>2, <1>3, <3>1
    <2> QED
      BY <1>2, <2>1, <2>2
  <1>6. ASSUME NEW s \in R
        PROVE  w[s] = g(s)
    <2>1. PICK k \in 1 .. m : k = s - First + 1
      BY <1>1
    <2>2. slots(s) = {k}
      <3>1. ASSUME NEW j \in 1 .. m PROVE Ahead(First, j - 1) = s <=> j = k
        BY <1>1, <1>3, <2>1
      <3> QED
        BY <1>2, <3>1
    <2> DEFINE Is(j) == \A i \in slots(s) : i <= j
               c == CHOOSE j \in slots(s) : Is(j)
    <2>3. Is(k)
      BY <1>1, <2>2
    <2>4. c \in slots(s)
      <3> HIDE DEF Is
      <3> QED
        BY <2>2, <2>3
    <2>5. w[s] = body[c]
      BY <1>5
    <2> HIDE DEF c, w, slots
    <2>6. c = k
      BY <2>2, <2>4
    <2> QED
      BY <2>1, <2>5, <2>6
  <1>7. DOMAIN w = R
    BY <1>5
  <1> HIDE DEF w, g, R, S, slots
  <1> DEFINE h == [a \in {LogAddr(s) : s \in DOMAIN w} |-> w[a[2]]]
  <1>8. cache' = Over(Empty, h)
    BY <1>4 DEF WriteLog, WriteBlocks
  <1>9. cache' = h
    BY <1>8, OverEmpty
  <1>10. h = [a \in {LogAddr(s) : s \in R} |-> g(a[2])]
    <2>1. ASSUME NEW a \in {LogAddr(s) : s \in R} PROVE w[a[2]] = g(a[2])
      <3>1. PICK s \in R : a = LogAddr(s)
        BY <2>1
      <3>2. a[2] = s
        BY <3>1, Addresses
      <3> QED
        BY <1>6, <3>2
    <2> QED
      BY <1>7, <2>1
  <1> QED
    BY <1>9, <1>10 DEF LogWrites, g, R, m, body


-----------------------------------------------------------------------------
(* The steps of commit and recovery. *)

\* Steps 3 and 4 of a commit.
LEMMA WriteBodyKeeps ==
    ASSUME IInv, WriteBody
    PROVE  IInv'
  <1>1. pc = "write_body" /\ pc' = "flush_body" /\ UNCHANGED <<disk, txn, depth, count>>
    BY DEF WriteBody, Step
  <1>2. cache = Empty /\ IsReady(txn)
    BY <1>1, Quiet DEF IInv, Phases, Pipeline, Preparing
  <1>3. DiskType' /\ Numbers' /\ Sealed' /\ Phases'
    BY <1>1, SamePhase DEF Preparing
  <1>4. cache' = LET g(s) == Body(txn)[s - First + 1]
                 IN  LogWrites(First .. First + Len(Body(txn)) - 1, g)
    BY <1>2, BodyCached
  <1>5. Unflushed'
    BY <1>1, <1>4 DEF Unflushed, LogWrites
  <1> QED
    BY <1>3, <1>5 DEF IInv

\* Step 5.
LEMMA MarkActiveKeeps ==
    ASSUME IInv, MarkActive
    PROVE  IInv'
  <1>1. pc = "mark_active" /\ pc' = "flush_active" /\ UNCHANGED <<disk, txn, depth, count>>
        /\ WriteJsb(txn.seq, First)
    BY DEF MarkActive, Step
  <1>2. cache' = JsbWrite(txn.seq, First)
    BY <1>1, Quiet, JsbCached
  <1>3. DiskType' /\ Numbers' /\ Sealed' /\ Phases'
    BY <1>1, SamePhase DEF Activating
  <1>4. Unflushed'
    BY <1>1, <1>2 DEF Unflushed, JsbWrite, LogWrites
  <1> QED
    BY <1>3, <1>4 DEF IInv

\* Step 6.
LEMMA WriteCommitKeeps ==
    ASSUME IInv, WriteCommit
    PROVE  IInv'
  <1> DEFINE m == Len(Body(txn))
             at == First + m
             w == [s \in {Ahead(First, m)} |-> Commit(txn.seq)]
             h == [a \in {LogAddr(s) : s \in DOMAIN w} |-> w[a[2]]]
  <1>1. pc = "write_commit" /\ pc' = "flush_commit" /\ UNCHANGED <<disk, txn, depth, count>>
        /\ WriteLog(w)
    BY DEF WriteCommit, Step
  <1>2. cache = Empty /\ IsReady(txn)
    BY <1>1, Quiet DEF IInv, Phases, Pipeline, Sealing
  <1>3. DiskType' /\ Numbers' /\ Sealed' /\ Phases'
    BY <1>1, SamePhase DEF Sealing
  <1>4. Ahead(First, m) = at
    <2>1. m \in 0 .. Area - 1
      BY <1>2, BodyFits, AreaIs
    <2> QED
      BY <2>1, AheadFirst
  <1>5. cache' = h
    <2>1. cache' = Over(Empty, h)
      BY <1>1, <1>2 DEF WriteLog, WriteBlocks
    <2> QED
      BY <2>1, OverEmpty
  <1>6. cache' = [a \in {LogAddr(s) : s \in {at}} |-> Commit(txn.seq)]
    <2>1. DOMAIN w = {at} /\ w[at] = Commit(txn.seq)
      BY <1>4
    <2>2. LogAddr(at)[2] = at
      BY Addresses
    <2> HIDE DEF w, at
    <2>3. {LogAddr(s) : s \in DOMAIN w} = {LogAddr(at)} /\ {LogAddr(s) : s \in {at}} = {LogAddr(at)}
      BY <2>1
    <2> QED
      BY <1>5, <2>1, <2>2, <2>3
  <1>7. Unflushed'
    BY <1>1, <1>6 DEF Unflushed, LogWrites
  <1> QED
    BY <1>3, <1>7 DEF IInv

\* Step 6b.
LEMMA SetRecoverKeeps ==
    ASSUME IInv, SetRecover
    PROVE  IInv'
  <1>1. pc = "set_recover" /\ pc' = "flush_recover" /\ UNCHANGED <<disk, txn, depth, count>>
    BY DEF SetRecover, Step
  <1>2. PICK on \in BOOLEAN : on = TRUE
    OBVIOUS
  <1>3. WriteRecover(on)
    BY <1>2 DEF SetRecover, WriteRecover
  <1>4. cache' = RecoverWrite(on)'
    BY <1>1, <1>3, Quiet, RecoverCached
  <1>5. DiskType' /\ Numbers' /\ Sealed' /\ Phases'
    BY <1>1, SamePhase DEF Flagging
  <1>6. Unflushed'
    BY <1>1, <1>2, <1>4 DEF Unflushed, RecoverWrite
  <1> QED
    BY <1>5, <1>6 DEF IInv

\* Step 8b.
LEMMA ClearRecoverKeeps ==
    ASSUME IInv, ClearRecover
    PROVE  IInv'
  <1>1. pc = "clear_recover" /\ pc' = "flush_done" /\ UNCHANGED <<disk, txn, depth, count>>
    BY DEF ClearRecover, Step
  <1>2. PICK on \in BOOLEAN : on = FALSE
    OBVIOUS
  <1>3. WriteRecover(on)
    BY <1>2 DEF ClearRecover, WriteRecover
  <1>4. cache' = RecoverWrite(on)'
    BY <1>1, <1>3, Quiet, RecoverCached
  <1>5. DiskType' /\ Numbers' /\ Sealed' /\ Phases'
    BY <1>1, SamePhase DEF Ending
  <1>6. Unflushed'
    BY <1>1, <1>2, <1>4 DEF Unflushed, RecoverWrite
  <1> QED
    BY <1>5, <1>6 DEF IInv

\* Step 7.
LEMMA CheckpointKeeps ==
    ASSUME IInv, Checkpoint
    PROVE  IInv'
  <1>1. pc = "checkpoint" /\ pc' = "flush_checkpoint" /\ UNCHANGED <<disk, txn, depth, count>>
        /\ WriteHome(txn.blocks)
    BY DEF Checkpoint, Step
  <1>2. cache' = HomeImage(txn.blocks)
    BY <1>1, Quiet, HomeCached
  <1>3. DiskType' /\ Numbers' /\ Sealed' /\ Phases'
    BY <1>1, SamePhase DEF Applying
  <1>4. Unflushed'
    BY <1>1, <1>2 DEF Unflushed, HomeImage
  <1> QED
    BY <1>3, <1>4 DEF IInv

\* Step 8.
LEMMA MarkCleanKeeps ==
    ASSUME IInv, MarkClean
    PROVE  IInv'
  <1>1. pc = "mark_clean" /\ pc' = "flush_clean" /\ UNCHANGED <<disk, txn, depth, count>>
        /\ WriteJsb(SeqSucc(txn.seq), 0)
    BY DEF MarkClean, Step
  <1>2. cache' = JsbWrite(SeqSucc(txn.seq), 0)
    BY <1>1, Quiet, JsbCached
  <1>3. DiskType' /\ Numbers' /\ Sealed' /\ Phases'
    BY <1>1, SamePhase DEF Applying
  <1>4. Unflushed'
    BY <1>1, <1>2 DEF Unflushed, JsbWrite, LogWrites
  <1> QED
    BY <1>3, <1>4 DEF IInv

\* The journal is cleared after a replay.
LEMMA ClearJournalKeeps ==
    ASSUME MaxTxns < SeqWrap, IInv, ClearJournal
    PROVE  IInv'
  <1>1. pc = "clear_journal" /\ pc' = "flush_clear" /\ UNCHANGED <<disk, txn, depth, count>>
        /\ WriteJsb(SeqSucc(LastSequence(VisibleJsb, Scan(VisibleLog, VisibleJsb))), 0)
    BY DEF ClearJournal, Step
  <1>2. cache = Empty /\ VisibleLog = DiskLog /\ VisibleJsb = disk[LogAddr(0)]
    BY <1>1, Quiet
  <1>3. HasCommit
    BY <1>1 DEF IInv, Phases, Replaying
  <1>4. PICK t : t.seq = LogSeq /\ Committed = <<FoundIn(t)>>
    BY <1>3, TheSealed
  <1>5. LastSequence(disk[LogAddr(0)], <<FoundIn(t)>>) = LogSeq
    <2>1. <<FoundIn(t)>> # <<>> /\ <<FoundIn(t)>>[Len(<<FoundIn(t)>>)].seq = t.seq
      BY DEF FoundIn
    <2> QED
      BY <1>4, <2>1 DEF LastSequence
  <1>6. WriteJsb(SeqSucc(LogSeq), 0)
    BY <1>1, <1>2, <1>4, <1>5 DEF Committed
  <1>7. cache' = JsbWrite(SeqSucc(LogSeq), 0)
    BY <1>2, <1>6, JsbCached
  <1>8. DiskType' /\ Numbers' /\ Sealed' /\ Phases'
    BY <1>1, SamePhase DEF Replaying
  <1>9. Unflushed'
    BY <1>1, <1>7 DEF Unflushed, JsbWrite, LogWrites, LogSeq
  <1> QED
    BY <1>8, <1>9 DEF IInv

\* Recovery writes what it found.
LEMMA ReplayKeeps ==
    ASSUME MaxTxns < SeqWrap, IInv, Replay
    PROVE  IInv'
  <1>1. pc = "off" /\ UNCHANGED <<disk, txn, depth, count>>
        /\ (LET txns == Scan(VisibleLog, VisibleJsb)
            IN  IF txns = <<>> THEN pc' = "running" /\ UNCHANGED cache
                ELSE pc' = "flush_replay" /\ WriteHome(HomeWrites(VisibleLog, txns)))
    BY DEF Replay
  <1>2. cache = Empty /\ VisibleLog = DiskLog /\ VisibleJsb = disk[LogAddr(0)]
    BY <1>1, Quiet
  <1>3. IF Committed = <<>> THEN pc' = "running" /\ cache' = cache
        ELSE pc' = "flush_replay" /\ WriteHome(HomeWrites(DiskLog, Committed))
    BY <1>1, <1>2 DEF Committed
  <1>4. DiskType' /\ LogKept /\ OnDisk /\ DiskType
    BY <1>1, InvOnDisk DEF IInv, DiskType, LogKept
  <1>5. OnDisk' /\ LogSeq' = LogSeq /\ (HasCommit' <=> HasCommit)
    BY <1>1, <1>4, KeptOnDisk, KeptLog
  <1>6. depth = 0 /\ pc' \in {"running", "flush_replay"}
    <2>1. pc # "running"
      BY <1>1
    <2> QED
      BY <1>3, <2>1, JournalBounds DEF IInv, Phases
  <1>7. Numbers'
    <2>1. pc' \notin Pipeline
      BY <1>6 DEF Pipeline, Preparing, Activating, Sealing, Flagging, Applying
    <2> QED
      BY <1>1, <1>5, <1>6, <2>1, FlushedNumbers
  <1>8. Committed = <<>> <=> ~HasCommit
    <2>1. ASSUME HasCommit PROVE Committed # <<>>
      <3>1. PICK t : Committed = <<FoundIn(t)>>
        BY <2>1, TheSealed
      <3> QED
        BY <3>1
    <2> QED
      BY <1>4, <2>1, FindsNothing
  <1>9. IsTxn(txn)'
    BY <1>1 DEF IInv, Phases, IsTxn
  <1>10. Phases'
    BY <1>1, <1>3, <1>5, <1>6, <1>8, <1>9, JournalBounds DEF Phases, Pipeline, Preparing, Activating, Sealing,
       Flagging, Applying, Replaying, Ending
  <1>11. Unflushed'
    <2>1. CASE Committed = <<>>
      BY <1>2, <1>3, <2>1 DEF Unflushed
    <2>2. CASE Committed # <<>>
      <3>1. cache' = HomeImage(HomeWrites(DiskLog, Committed))
        BY <1>2, <1>3, <2>2, HomeCached
      <3>2. DiskLog' = DiskLog /\ Committed' = Committed
        BY <1>1 DEF DiskLog, Committed
      <3> QED
        BY <1>3, <2>2, <3>1, <3>2 DEF Unflushed, HomeImage
    <2> QED
      BY <2>1, <2>2
  <1> QED
    BY <1>5, <1>7, <1>10, <1>11 DEF IInv, OnDisk


-----------------------------------------------------------------------------
(* The operations' steps. *)

\* While no commit is under way only the transaction, the depth and the counts move.
LEMMA RunningKeeps ==
    ASSUME IInv, pc = "running", UNCHANGED <<disk, cache, pc>>,
           depth' \in 0 .. MaxDepth, IsTxn(txn)', depth' > 0 => txn'.seq = LogSeq,
           count' \in [txns : Nat, crashes : Nat], count'.txns <= MaxTxns,
           count.txns <= count'.txns, depth' > 0 => depth > 0 \/ count.txns < count'.txns
    PROVE  IInv'
  <1>1. DiskType' /\ LogKept /\ DiskType /\ ~HasCommit /\ cache = Empty
    BY Quiet DEF IInv, DiskType, LogKept, Phases
  <1>2. LogSeq' = LogSeq /\ (HasCommit' <=> HasCommit)
    BY <1>1, KeptLog
  <1>3. Numbers'
    <2>1. Unwrapped(LogSeq) \in Nat
      BY <1>1, Counting, JournalBounds, LogGeometry DEF DiskType, LogSeq, Seqno
    <2>2. count.txns \in Nat /\ count'.txns \in Nat /\ FirstSeq \in Nat
      BY JournalBounds, LogGeometry DEF IInv, Numbers
    <2>3. Unwrapped(LogSeq) <= FirstSeq + count'.txns
      BY <2>1, <2>2 DEF IInv, Numbers
    <2>4. Taken' => depth' > 0
      BY <1>1, <1>2 DEF Taken, Pipeline, Preparing, Activating, Sealing, Flagging, Applying
    <2>5. depth' > 0 => Unwrapped(LogSeq) < FirstSeq + count'.txns
      <3>1. CASE depth > 0
        <4>1. Taken
          BY <3>1 DEF Taken
        <4> QED
          BY <4>1, <2>1, <2>2 DEF IInv, Numbers
      <3>2. CASE count.txns < count'.txns
        BY <3>2, <2>1, <2>2 DEF IInv, Numbers
      <3> QED
        BY <3>1, <3>2
    <2>6. \A s \in BodySlot : disk'[LogAddr(s)].kind \in {"descriptor", "commit"}
              => Unwrapped(disk'[LogAddr(s)].seq) <= Unwrapped(LogSeq)
      BY DEF IInv, Numbers
    <2> QED
      BY <1>2, <2>3, <2>4, <2>5, <2>6 DEF Numbers
  <1>4. Sealed'
    BY <1>1, <1>2 DEF Sealed
  <1>5. Phases'
    BY <1>1, <1>2 DEF Phases, Pipeline, Preparing, Activating, Sealing, Flagging, Applying, Replaying, Ending
  <1>6. Unflushed'
    BY <1>1 DEF Unflushed
  <1> QED
    BY <1>1, <1>3, <1>4, <1>5, <1>6 DEF IInv

\* An operation begins.
LEMMA BeginKeeps ==
    ASSUME IInv, Begin
    PROVE  IInv'
  <1>1. pc = "running" /\ UNCHANGED <<disk, cache, pc>> /\ depth < MaxDepth /\ depth' = depth + 1
    BY DEF Begin
  <1>2. depth \in 0 .. MaxDepth /\ depth' \in 1 .. MaxDepth /\ depth' > 0
        /\ count \in [txns : Nat, crashes : Nat] /\ count.txns <= MaxTxns /\ MaxTxns \in Nat
    BY <1>1, JournalBounds DEF IInv, Phases, Numbers
  <1>3. CASE depth = 0
    <2>1. count.txns < MaxTxns /\ count' = [count EXCEPT !.txns = @ + 1]
          /\ txn' = [seq |-> VisibleJsb.seq, blocks |-> Empty, revokes |-> {}]
      BY <1>3 DEF Begin
    <2>2. count' \in [txns : Nat, crashes : Nat] /\ count'.txns = count.txns + 1
      BY <1>2, <2>1
    <2>3. txn'.seq = LogSeq /\ LogSeq \in Seqno
      BY <1>1, <2>1, Quiet DEF LogSeq, IInv, DiskType
    <2>4. IsTxn(txn')
      <3>1. Empty = [b \in DOMAIN Empty |-> Empty[b]] /\ DOMAIN Empty = {} /\ IsFiniteSet({})
        BY FS_EmptySet DEF Empty
      <3>2. txn' = [seq |-> LogSeq, blocks |-> Empty, revokes |-> {}]
        BY <2>1, <2>3
      <3> QED
        BY <2>3, <3>1, <3>2 DEF IsTxn
    <2>5. IsTxn(txn)'
      BY <2>4 DEF IsTxn
    <2> QED
      BY <1>1, <1>2, <2>1, <2>2, <2>3, <2>5, RunningKeeps
  <1>4. CASE depth # 0
    <2>1. UNCHANGED <<txn, count>> /\ depth > 0
      BY <1>2, <1>4 DEF Begin
    <2>2. IsTxn(txn)' /\ txn'.seq = LogSeq
      BY <2>1 DEF IInv, Phases, IsTxn
    <2> QED
      BY <1>1, <1>2, <2>1, <2>2, RunningKeeps
  <1> QED
    BY <1>3, <1>4

\* A block is staged.
LEMMA StagedIs ==
    ASSUME NEW t, IsTxn(t), NEW b \in Home, NEW v \in HomeType(b), NEW f, DOMAIN f = {b}, f[b] = v,
           NEW u, u = [t EXCEPT !.blocks = Over(t.blocks, f)]
    PROVE  IsTxn(u) /\ u.seq = t.seq /\ b \in DOMAIN u.blocks
  <1> DEFINE blocks == Over(t.blocks, f)
  <1>1. DOMAIN blocks = DOMAIN t.blocks \cup {b}
    BY DEF Over
  <1>2. \A c \in DOMAIN blocks : blocks[c] = IF c = b THEN v ELSE t.blocks[c]
    BY DEF Over
  <1>3. blocks = [c \in DOMAIN blocks |-> blocks[c]]
    BY DEF Over
  <1>4. u = [seq |-> t.seq, blocks |-> blocks, revokes |-> t.revokes]
    <2> HIDE DEF blocks
    <2>1. t = [seq |-> t.seq, blocks |-> t.blocks, revokes |-> t.revokes]
      BY DEF IsTxn
    <2>2. u = [t EXCEPT !.blocks = blocks]
      BY DEF blocks
    <2>3. PICK q, k, r : t = [seq |-> q, blocks |-> k, revokes |-> r] /\ q = t.seq /\ r = t.revokes
      BY <2>1
    <2> QED
      BY <2>2, <2>3
  <1> HIDE DEF blocks
  <1>5. IsFiniteSet(DOMAIN blocks)
    BY <1>1, FS_AddElement DEF IsTxn
  <1>6. \A c \in DOMAIN blocks : blocks[c] \in HomeType(c)
    BY <1>1, <1>2 DEF IsTxn
  <1> QED
    BY <1>1, <1>2, <1>3, <1>4, <1>5, <1>6 DEF IsTxn

\* The superblock as the running operation reads it.
LEMMA SuperRead ==
    ASSUME IInv, pc = "running"
    PROVE  ReadBlock(SbBlock) \in SuperBlock
  <1>1. Visible(HomeAddr(SbBlock)) \in SuperBlock
    BY Quiet DEF IInv, DiskType
  <1>2. SbBlock \in DOMAIN txn.blocks => txn.blocks[SbBlock] \in SuperBlock
    BY DEF IInv, Phases, IsTxn, HomeType
  <1> QED
    BY <1>1, <1>2 DEF ReadBlock

\* A block is staged.
LEMMA StageKeeps ==
    ASSUME IInv, NEW b \in Home, NEW image \in Image, Stage(b, image)
    PROVE  IInv'
  <1>1. pc = "running" /\ UNCHANGED <<disk, cache, depth, pc, count>> /\ depth > 0
    BY DEF Stage
  <1> DEFINE w == IF b = SbBlock THEN [ReadBlock(b) EXCEPT !.image = image] ELSE image
  <1>2. w \in HomeType(b)
    <2>1. CASE b = SbBlock
      <3>1. PICK r \in SuperBlock : r = ReadBlock(SbBlock)
        BY <1>1, SuperRead
      <3>2. [r EXCEPT !.image = image] \in SuperBlock
        BY DEF SuperBlock
      <3> QED
        BY <2>1, <3>1, <3>2 DEF HomeType
    <2>2. CASE b # SbBlock
      BY <2>2 DEF HomeType
    <2> QED
      BY <2>1, <2>2
  <1>3. txn' = [txn EXCEPT !.blocks = Over(txn.blocks, [x \in {b} |-> w])]
    BY DEF Stage
  <1> HIDE DEF w
  <1>4. IsTxn(txn) /\ txn.seq = LogSeq
    BY <1>1 DEF IInv, Phases
  <1>5. PICK v, t, u, f : v \in HomeType(b) /\ v = w /\ t = txn /\ u = txn' /\ f = [x \in {b} |-> v]
    BY <1>2
  <1>6. IsTxn(u) /\ u.seq = t.seq
    <2>1. u = [t EXCEPT !.blocks = Over(t.blocks, f)] /\ IsTxn(t) /\ DOMAIN f = {b} /\ f[b] = v
      BY <1>3, <1>4, <1>5
    <2> QED
      BY <1>5, <2>1, StagedIs
  <1>7. IsTxn(txn)' /\ txn'.seq = LogSeq
    BY <1>4, <1>5, <1>6 DEF IsTxn
  <1>8. depth \in 0 .. MaxDepth /\ count \in [txns : Nat, crashes : Nat] /\ count.txns <= MaxTxns
    BY DEF IInv, Phases, Numbers
  <1> QED
    BY <1>1, <1>7, <1>8, RunningKeeps

\* A block is revoked.
LEMMA RevokeKeeps ==
    ASSUME IInv, NEW b \in Freed, RevokeBlock(b)
    PROVE  IInv'
  <1>1. pc = "running" /\ UNCHANGED <<disk, cache, depth, pc, count>> /\ depth > 0
        /\ txn' = [txn EXCEPT !.revokes = @ \cup {b}]
    BY DEF RevokeBlock
  <1>2. IsTxn(txn) /\ txn.seq = LogSeq
    BY <1>1 DEF IInv, Phases
  <1>3. PICK q, k, r : txn = [seq |-> q, blocks |-> k, revokes |-> r]
    BY <1>2 DEF IsTxn
  <1>4. txn' = [seq |-> q, blocks |-> k, revokes |-> r \cup {b}]
    BY <1>1, <1>3
  <1>5. q \in Seqno /\ r \in SUBSET Freed /\ k = [c \in DOMAIN k |-> k[c]] /\ DOMAIN k \in SUBSET Home
        /\ IsFiniteSet(DOMAIN k) /\ (\A c \in DOMAIN k : k[c] \in HomeType(c)) /\ q = LogSeq
    BY <1>2, <1>3 DEF IsTxn
  <1>6. IsTxn(txn')
    BY <1>4, <1>5 DEF IsTxn
  <1>7. IsTxn(txn)' /\ txn'.seq = LogSeq
    BY <1>4, <1>5, <1>6 DEF IsTxn
  <1>8. depth \in 0 .. MaxDepth /\ count \in [txns : Nat, crashes : Nat] /\ count.txns <= MaxTxns
    BY DEF IInv, Phases, Numbers
  <1> QED
    BY <1>1, <1>7, <1>8, RunningKeeps

\* An operation ends.
LEMMA EndKeeps ==
    ASSUME IInv, NEW ok \in BOOLEAN, End(ok)
    PROVE  IInv'
  <1>1. pc = "running" /\ UNCHANGED <<disk, cache, count>> /\ depth > 0 /\ depth' = depth - 1
    BY DEF End
  <1>2. depth \in 0 .. MaxDepth /\ count \in [txns : Nat, crashes : Nat] /\ count.txns <= MaxTxns
        /\ IsTxn(txn) /\ txn.seq = LogSeq /\ depth' \in 0 .. MaxDepth
    BY <1>1, JournalBounds DEF IInv, Phases, Numbers
  <1>3. CASE depth > 1
    <2>1. UNCHANGED <<txn, pc>>
      BY <1>3 DEF End
    <2>2. IsTxn(txn)' /\ txn'.seq = LogSeq
      BY <1>2, <2>1 DEF IsTxn
    <2> QED
      BY <1>1, <1>2, <2>1, <2>2, RunningKeeps
  <1>4. CASE depth = 1 /\ txn' = Idle /\ UNCHANGED pc
    <2>1. IsTxn(txn)'
      BY <1>4, IdleIs DEF IsTxn
    <2> QED
      BY <1>1, <1>2, <1>4, <2>1, RunningKeeps
  <1>5. CASE depth = 1 /\ pc' = "write_body" /\ txn' = [txn EXCEPT !.blocks = Journaled]
             /\ Cardinality(DOMAIN Journaled) <= Capacity
    <2> DEFINE w == [ReadBlock(SbBlock) EXCEPT !.recover = TRUE]
    <2>1. w \in HomeType(SbBlock) /\ w.recover
      <3>1. PICK r \in SuperBlock : r = ReadBlock(SbBlock)
        BY <1>1, SuperRead
      <3>2. [r EXCEPT !.recover = TRUE] \in SuperBlock /\ [r EXCEPT !.recover = TRUE].recover
        BY DEF SuperBlock
      <3> QED
        BY <3>1, <3>2 DEF HomeType
    <2>2. Journaled = Over(txn.blocks, [x \in {SbBlock} |-> w])
      BY DEF Journaled
    <2> HIDE DEF w
    <2>3. PICK v, t, u, f : v \in HomeType(SbBlock) /\ v = w /\ t = txn /\ u = txn' /\ f = [x \in {SbBlock} |-> v]
      BY <2>1
    <2>4. IsTxn(u) /\ u.seq = t.seq /\ SbBlock \in DOMAIN u.blocks
      <3>1. u = [t EXCEPT !.blocks = Over(t.blocks, f)] /\ IsTxn(t)
        BY <1>2, <1>5, <2>2, <2>3
      <3>2. PICK b \in Home : b = SbBlock
        BY HomeIs
      <3>3. v \in HomeType(b) /\ DOMAIN f = {b} /\ f[b] = v
        BY <2>3, <3>2
      <3>4. IsTxn(u)
        BY <3>1, <3>3, StagedIs
      <3>5. u.seq = t.seq
        BY <3>1, <3>3, StagedIs
      <3>6. b \in DOMAIN u.blocks
        BY <3>1, <3>3, StagedIs
      <3> QED
        BY <3>2, <3>4, <3>5, <3>6
    <2>5. u.blocks = Journaled
      <3>1. PICK q, k, r : t = [seq |-> q, blocks |-> k, revokes |-> r]
        BY <1>2, <2>3 DEF IsTxn
      <3>2. PICK j : j = Journaled
        OBVIOUS
      <3>3. u = [t EXCEPT !.blocks = j]
        BY <1>5, <2>3, <3>2
      <3> QED
        BY <3>1, <3>2, <3>3
    <2>6. IsReady(u)
      <3>1. Journaled[SbBlock] = w
        BY <2>2 DEF Over
      <3> QED
        BY <1>5, <2>1, <2>4, <2>5, <3>1 DEF IsReady
    <2>7. IsReady(txn)' /\ IsTxn(txn)' /\ txn'.seq = LogSeq
      BY <1>2, <2>3, <2>4, <2>6 DEF IsReady, IsTxn
    <2>8. DiskType' /\ LogKept /\ DiskType /\ ~HasCommit /\ cache = Empty /\ OnDisk
      BY <1>1, Quiet, InvOnDisk DEF IInv, DiskType, LogKept, Phases
    <2>9. LogSeq' = LogSeq /\ (HasCommit' <=> HasCommit) /\ OnDisk'
      BY <1>1, <2>8, KeptLog, KeptOnDisk
    <2>10. Numbers'
      <3>1. Taken
        BY <1>1 DEF Taken
      <3> QED
        BY <1>1, <2>9, <3>1, PipelineNumbers
    <2>11. depth' = 0 /\ depth' \in 0 .. MaxDepth
      BY <1>2, <1>5, <1>1
    <2>12. Phases'
      BY <1>5, <2>7, <2>8, <2>9, <2>11 DEF Phases, Pipeline, Preparing, Activating, Sealing, Flagging, Applying,
         Replaying, Ending
    <2>13. Unflushed'
      BY <1>1, <1>5, <2>8 DEF Unflushed
    <2> QED
      BY <2>8, <2>9, <2>10, <2>12, <2>13 DEF IInv, OnDisk
  <1> QED
    BY <1>1, <1>2, <1>3, <1>4, <1>5 DEF End


-----------------------------------------------------------------------------
(* The invariant. *)

\* A fresh file system.
LEMMA InitInv == ASSUME Init PROVE IInv
  <1>1. disk = [a \in Addr |-> IF a = LogAddr(0) THEN JournalSb(FirstSeq, 0)
                               ELSE IF a = HomeAddr(SbBlock) THEN Super(FALSE, InitImage)
                               ELSE InitImage]
        /\ cache = Empty /\ txn = Idle /\ depth = 0 /\ pc = "running"
        /\ count = [txns |-> 0, crashes |-> 0]
    BY DEF Init
  <1>2. disk[LogAddr(0)] = JournalSb(FirstSeq, 0)
    BY <1>1, Addresses, SlotsAre
  <1>3. disk[HomeAddr(SbBlock)] = Super(FALSE, InitImage)
    BY <1>1, Addresses, HomeIs
  <1>4. \A b \in Data : disk[HomeAddr(b)] = InitImage
    BY <1>1, Addresses, HomeIs
  <1>5. \A s \in BodySlot : disk[LogAddr(s)] = InitImage
    BY <1>1, Addresses, SlotsAre
  <1>6. FirstSeq \in Seqno /\ FirstSeq \in Nat /\ MaxTxns \in Nat /\ MaxDepth \in Nat
    BY JournalBounds, LogGeometry DEF Seqno
  <1>7. InitImage \in LogBlock /\ InitImage.kind \notin {"descriptor", "commit"}
    BY JournalBounds DEF LogBlock, PlainBlock, HasMagic
  <1>8. DiskType
    <2>1. disk[LogAddr(0)] \in [kind : {"jsb"}, seq : Seqno, start : {0, First}]
      BY <1>2, <1>6 DEF JournalSb
    <2>2. disk[HomeAddr(SbBlock)] \in SuperBlock
      BY <1>3, JournalBounds DEF Super, SuperBlock
    <2>3. disk = [a \in Addr |-> disk[a]]
      BY <1>1
    <2>4. \A b \in Data : disk[HomeAddr(b)] \in Image \cup {Torn}
      BY <1>4, JournalBounds
    <2>5. \A s \in BodySlot : disk[LogAddr(s)] \in LogBlock
      BY <1>5, <1>7
    <2> QED
      BY <2>1, <2>2, <2>3, <2>4, <2>5 DEF DiskType
  <1>9. LogSeq = FirstSeq
    BY <1>2 DEF LogSeq, JournalSb
  <1>10. ~HasCommit
    BY <1>5, <1>7 DEF HasCommit
  <1>11. Numbers
    <2>1. Unwrapped(LogSeq) = FirstSeq
      BY <1>6, <1>9 DEF Unwrapped
    <2>2. count \in [txns : Nat, crashes : Nat] /\ count.txns = 0
      BY <1>1
    <2>3. ~Taken
      BY <1>1, <1>10 DEF Taken, Pipeline, Preparing, Activating, Sealing, Flagging, Applying
    <2> QED
      BY <1>5, <1>6, <1>7, <2>1, <2>2, <2>3 DEF Numbers
  <1>12. Sealed
    BY <1>10 DEF Sealed
  <1>13. Phases
    BY <1>1, <1>6, <1>10, IdleIs DEF Phases, Pipeline, Preparing, Activating, Sealing, Flagging, Applying,
       Replaying, Ending
  <1>14. Unflushed
    BY <1>1 DEF Unflushed
  <1> QED
    BY <1>8, <1>11, <1>12, <1>13, <1>14 DEF IInv

\* Nothing changes.
LEMMA StutterKeeps ==
    ASSUME IInv, UNCHANGED vars
    PROVE  IInv'
  <1>1. UNCHANGED <<disk, cache, txn, depth, pc, count>>
    BY DEF vars
  <1>2. DiskType' /\ LogKept /\ OnDisk
    BY <1>1, InvOnDisk DEF IInv, DiskType, LogKept
  <1>3. OnDisk' /\ LogSeq' = LogSeq /\ (HasCommit' <=> HasCommit) /\ (Active' <=> Active)
        /\ \A t : IsReady(t) => (BodyLogged(t)' <=> BodyLogged(t)) /\ (Logged(t)' <=> Logged(t))
    BY <1>1, <1>2, KeptOnDisk, KeptLog
  <1>4. Numbers'
    BY <1>1, <1>2, <1>3 DEF IInv, Numbers, Taken, OnDisk
  <1>5. Phases'
    <2>1. IsTxn(txn)' /\ (IsReady(txn) => IsReady(txn)')
      BY <1>1 DEF IInv, Phases, IsTxn, IsReady
    <2>2. IsReady(txn) /\ BodyLogged(txn) => BodyLogged(txn)'
      BY <1>1 DEF BodyLogged
    <2>3. IsReady(txn) /\ Logged(txn) => Logged(txn)'
      BY <1>1 DEF Logged, BodyLogged
    <2>4. Phases
      BY DEF IInv
    <2> QED
      BY <1>1, <1>3, <2>1, <2>2, <2>3, <2>4 DEF Phases, Pipeline, Preparing, Activating, Sealing, Flagging,
         Applying, Replaying, Ending
  <1>6. DiskLog' = DiskLog /\ Committed' = Committed
    BY <1>1 DEF DiskLog, Committed
  <1>7. Unflushed'
    <2>1. Unflushed
      BY DEF IInv
    <2>2. CASE pc = "flush_body"
      BY <1>1, <2>1, <2>2 DEF Unflushed, LogWrites
    <2>3. CASE pc \in {"flush_active", "flush_clean", "flush_clear"}
      BY <1>1, <1>3, <2>1, <2>3 DEF Unflushed, JsbWrite, LogWrites
    <2>4. CASE pc = "flush_commit"
      BY <1>1, <2>1, <2>4 DEF Unflushed, LogWrites
    <2>8. ASSUME NEW on \in BOOLEAN PROVE RecoverWrite(on)' = RecoverWrite(on)
      <3>1. PICK d : d = disk[HomeAddr(SbBlock)] /\ d = disk'[HomeAddr(SbBlock)]
        BY <1>1
      <3> DEFINE f == [b \in {SbBlock} |-> [d EXCEPT !.recover = on]]
      <3>2. RecoverWrite(on) = HomeImage(f)
        BY <3>1 DEF RecoverWrite
      <3>3. RecoverWrite(on)' = HomeImage(f)
        BY <3>1 DEF RecoverWrite, HomeImage
      <3> QED
        BY <3>2, <3>3
    <2>5. CASE pc = "flush_recover"
      <3>1. PICK on \in BOOLEAN : on = TRUE
        OBVIOUS
      <3>2. cache' = RecoverWrite(on)'
        BY <1>1, <2>1, <2>5, <2>8, <3>1 DEF Unflushed, RecoverWrite
      <3> QED
        BY <1>1, <2>5, <3>1, <3>2 DEF Unflushed, RecoverWrite
    <2>9. CASE pc = "flush_done"
      <3>1. PICK on \in BOOLEAN : on = FALSE
        OBVIOUS
      <3>2. cache' = RecoverWrite(on)'
        BY <1>1, <2>1, <2>9, <2>8, <3>1 DEF Unflushed, RecoverWrite
      <3> QED
        BY <1>1, <2>9, <3>1, <3>2 DEF Unflushed, RecoverWrite
    <2>6. CASE pc \in {"flush_checkpoint", "flush_replay"}
      BY <1>1, <1>6, <2>1, <2>6 DEF Unflushed, HomeImage
    <2>7. CASE pc \notin {"flush_body", "flush_active", "flush_clean", "flush_clear", "flush_commit",
                          "flush_recover", "flush_done", "flush_checkpoint", "flush_replay"}
      BY <1>1, <2>1, <2>7 DEF Unflushed
    <2> QED
      BY <2>2, <2>3, <2>4, <2>5, <2>9, <2>6, <2>7
  <1> QED
    BY <1>3, <1>4, <1>5, <1>7 DEF IInv, OnDisk

\* What is on disk and in the write cache at every step of commit_with_crash
\* (mod.rs:300) and of recovery (mod.rs:558), whatever a crash keeps or tears: the
\* journal superblock, the commit block and the body it seals tell one story, and no
\* commit block carries a number that is still to come.  MaxTxns < SeqWrap: a number of
\* 32 bits is not used a second time.
THEOREM Invariance ==
    ASSUME MaxTxns < SeqWrap
    PROVE  Spec => []IInv
  <1>1. Init => IInv
    BY InitInv
  <1>2. IInv /\ [Next]_vars => IInv'
    <2> SUFFICES ASSUME IInv, [Next]_vars PROVE IInv'
      OBVIOUS
    <2>1. CASE Operation
      <3>1. CASE Begin
        BY <3>1, BeginKeeps
      <3>2. ASSUME NEW b \in Home, NEW image \in Image, Stage(b, image) PROVE IInv'
        BY <3>2, StageKeeps
      <3>3. ASSUME NEW b \in Freed, RevokeBlock(b) PROVE IInv'
        BY <3>3, RevokeKeeps
      <3> QED
        BY <2>1, <3>1, <3>2, <3>3 DEF Operation
    <2>2. CASE Finish
      BY <2>2, EndKeeps DEF Finish
    <2>3. CASE Engine
      BY <2>3, WriteBodyKeeps, MarkActiveKeeps, WriteCommitKeeps, SetRecoverKeeps, CheckpointKeeps,
         MarkCleanKeeps, ClearRecoverKeeps, ReplayKeeps, ClearJournalKeeps, FlushKeeps DEF Engine
    <2>4. CASE Fail
      BY <2>4, CrashKeeps
    <2>5. CASE UNCHANGED vars
      BY <2>5, StutterKeeps
    <2> QED
      BY <2>1, <2>2, <2>3, <2>4, <2>5 DEF Next
  <1> QED
    BY <1>1, <1>2, PTL DEF Spec

\* The invariant the runs check is part of the inductive one.
LEMMA InvFollows ==
    ASSUME MaxTxns < SeqWrap, IInv
    PROVE  Inv
  <1>1. TypeOK
    <2>1. DOMAIN disk = Addr
      BY DEF IInv, DiskType
    <2>2. DOMAIN cache \subseteq Addr
      BY CacheIs
    <2>3. disk[LogAddr(0)] \in {JournalSb(s, start) : s \in 0 .. SeqWrap - 1, start \in {0, First}}
      BY DEF IInv, DiskType, Seqno, JournalSb
    <2>4. disk[HomeAddr(SbBlock)] \in [kind : {"super"}, recover : BOOLEAN, image : Image]
      BY DEF IInv, DiskType, SuperBlock
    <2>5. \A b \in Data : disk[HomeAddr(b)] \in Image \cup {Torn}
      BY DEF IInv, DiskType
    <2>6. txn.seq \in 0 .. SeqWrap - 1 /\ DOMAIN txn.blocks \subseteq Home /\ txn.revokes \subseteq Freed
          /\ depth \in 0 .. MaxDepth
      BY DEF IInv, Phases, IsTxn, Seqno
    <2>7. pc \in {"running", "off", "write_body", "mark_active", "write_commit", "set_recover",
                  "checkpoint", "mark_clean", "clear_recover", "clear_journal"} \cup DOMAIN AfterFlush
      BY DEF IInv, Phases, AfterFlush, Pipeline, Preparing, Activating, Sealing, Flagging, Applying,
         Replaying, Ending
    <2> QED
      BY <2>1, <2>2, <2>3, <2>4, <2>5, <2>6, <2>7 DEF TypeOK
  <1>2. NoStaleCommit
    <2>1. pc = "running" \/ Committing => ~HasCommit
      BY DEF IInv, Phases, Committing, Preparing, Activating, Sealing
    <2> QED
      BY <2>1, FindsNothing DEF IInv, NoStaleCommit
  <1>3. CheckpointUnderRecover
    BY DEF IInv, Phases, CheckpointUnderRecover, Applying
  <1> QED
    BY <1>1, <1>2, <1>3 DEF Inv

\* No earlier transaction's commit block, and no file-system block that looks like one,
\* is taken for the running transaction's; the recover flag covers the checkpoint
\* (mod.rs:497, 589, s_sequence; mod.rs:324-350, step 6b).
THEOREM InvHolds ==
    ASSUME MaxTxns < SeqWrap
    PROVE  Spec => []Inv
  BY Invariance, InvFollows, PTL

-----------------------------------------------------------------------------
(* The protocol's view of the log and of a transaction. *)

\* A home block as an image; no image is the one of a block that is not written.
LEMMA ImagesAre ==
    /\ \A b \in Home : \A v \in HomeType(b) : ImageOf(v) \in Image
    /\ \A v \in SuperBlock : ImageOf(v) = v.image
    /\ \A v \in Image : ImageOf(v) = v /\ v # Unwritten /\ v # Torn
    /\ ImageOf(Torn) = Torn /\ Torn \notin Image /\ Unwritten \notin Image /\ Unwritten # Torn
  <1>1. \A v \in SuperBlock : ImageOf(v) = v.image /\ v.image \in Image
    BY DEF SuperBlock, ImageOf
  <1>2. \A v \in Image : v.kind \notin {"super", "torn", "none"}
    BY JournalBounds
  <1>3. Torn.kind = "torn" /\ Unwritten.kind = "none"
    BY DEF Torn, Unwritten
  <1>4. \A v \in Image : ImageOf(v) = v /\ v # Unwritten /\ v # Torn
    BY <1>2, <1>3 DEF ImageOf
  <1>5. Torn # Unwritten /\ ImageOf(Torn) = Torn
    BY <1>3 DEF ImageOf
  <1> QED
    BY <1>1, <1>4, <1>5 DEF HomeType

\* The writes of a transaction, block by block.
LEMMA WritesOf ==
    ASSUME NEW f, \A b \in DOMAIN f : b \in Home => f[b] \in HomeType(b)
    PROVE  /\ ImagesOf(f) \in [Home -> Image \cup {Unwritten}]
           /\ \A b \in Home : ImagesOf(f)[b] = IF b \in DOMAIN f THEN ImageOf(f[b]) ELSE Unwritten
           /\ \A b \in Home : ImagesOf(f)[b] # Unwritten <=> b \in DOMAIN f
  <1>1. \A b \in Home : ImagesOf(f)[b] = IF b \in DOMAIN f THEN ImageOf(f[b]) ELSE Unwritten
    BY DEF ImagesOf
  <1>2. \A b \in Home : b \in DOMAIN f => ImageOf(f[b]) \in Image
    BY ImagesAre
  <1>3. ImagesOf(f) = [b \in Home |-> IF b \in DOMAIN f THEN ImageOf(f[b]) ELSE Unwritten]
    BY DEF ImagesOf
  <1>4. ImagesOf(f) \in [Home -> Image \cup {Unwritten}]
    BY <1>2, <1>3
  <1> QED
    BY <1>1, <1>2, <1>4, ImagesAre

\* What BodyIn makes of any log.
LEMMA BodyInIs ==
    ASSUME NEW lg, GoodLog(lg)
    PROVE  /\ BodyIn(lg) = [seq |-> BodyIn(lg).seq, writes |-> BodyIn(lg).writes]
           /\ BodyIn(lg).writes \in [Home -> Image \cup {Unwritten}]
           /\ BodyIn(lg).seq = IF lg[First].kind = "descriptor" THEN Unwrapped(lg[First].seq) ELSE FirstSeq
  <1> DEFINE d == lg[First]
             W(b) == IF Named(d.tags, b)
                     THEN LoggedImage(lg, Ahead(First, TagAt(d.tags, b)), d.tags[TagAt(d.tags, b)].escaped)
                     ELSE Unwritten
             w == [b \in Home |-> W(b)]
  <1>1. InitImage \in Image
    BY JournalBounds
  <1>2. \A s, e : LoggedImage(lg, s, e) \in Image
    BY <1>1 DEF LoggedImage
  <1>3. \A b \in Home : W(b) \in Image \cup {Unwritten}
    BY <1>2
  <1>4. w \in [Home -> Image \cup {Unwritten}] /\ NoWrites \in [Home -> Image \cup {Unwritten}]
    <2> HIDE DEF W
    <2> QED
      BY <1>3 DEF NoWrites
  <1>5. BodyIn(lg) = IF d.kind # "descriptor" THEN [seq |-> FirstSeq, writes |-> NoWrites]
                     ELSE [seq |-> Unwrapped(d.seq), writes |-> w]
    BY DEF BodyIn
  <1> HIDE DEF w, d
  <1>6. CASE d.kind # "descriptor"
    BY <1>4, <1>5, <1>6 DEF d
  <1>7. CASE d.kind = "descriptor"
    BY <1>4, <1>5, <1>7 DEF d
  <1> QED
    BY <1>6, <1>7

\* A logged copy, read back.
LEMMA LoggedCopy ==
    ASSUME NEW b \in Home, NEW i \in HomeType(b), NEW lg, NEW s, lg[s] = Escape(i)
    PROVE  LoggedImage(lg, s, HasMagic(i)) = ImageOf(i)
  <1>1. ImageOf(i) \in Image
    BY ImagesAre
  <1>2. CASE HasMagic(i)
    <2>1. lg[s].kind = "escaped" /\ lg[s].of = i
      BY <1>2 DEF Escape
    <2> QED
      BY <1>1, <1>2, <2>1 DEF LoggedImage, Unescape
  <1>3. CASE ~HasMagic(i)
    <2>1. lg[s] = i /\ HasMagic(i) = FALSE
      BY <1>3 DEF Escape, HasMagic
    <2> QED
      BY <1>1, <2>1 DEF LoggedImage
  <1> QED
    BY <1>2, <1>3

\* A log whose first slots hold the body of a transaction reads as that transaction.
LEMMA BodyReads ==
    ASSUME NEW lg, NEW t, IsReady(t),
           \A k \in 1 .. Len(Body(t)) : lg[First + k - 1] = Body(t)[k]
    PROVE  BodyIn(lg) = [seq |-> Unwrapped(t.seq), writes |-> ImagesOf(t.blocks)]
  <1>1. IsTxn(t) /\ SizeOf(t) \in Nat /\ 0 < SizeOf(t) /\ SizeOf(t) + 2 < Area
        /\ Len(Body(t)) = 1 + SizeOf(t) + Revokes(t) /\ Revokes(t) \in 0 .. 1
    BY BodyFits
  <1>2. First \in Nat /\ Area \in Nat
    BY AreaIs
  <1>3. PICK n \in Nat : n = SizeOf(t)
    BY <1>1
  <1>4. lg[First] = Descriptor(t.seq, TagsOf(t))
    <2>1. 1 \in 1 .. Len(Body(t)) /\ First + 1 - 1 = First
      BY <1>1, <1>2
    <2> QED
      BY <1>1, <2>1, BodyIs
  <1>5. ASSUME NEW k \in 1 .. n
        PROVE  lg[First + k] = Escape(t.blocks[Tagged(t)[k]])
    <2>1. 1 + k \in 1 .. Len(Body(t)) /\ First + (1 + k) - 1 = First + k
      BY <1>1, <1>2, <1>3
    <2>2. lg[First + k] = Body(t)[1 + k]
      BY <2>1
    <2> QED
      BY <1>1, <1>3, <2>2, BodyIs
  <1>6. lg[First].kind = "descriptor" /\ lg[First].seq = t.seq /\ lg[First].tags = TagsOf(t)
    BY <1>4 DEF Descriptor
  <1>7. PICK tags : tags = TagsOf(t)
    OBVIOUS
  <1>8. DOMAIN tags = 1 .. n
    BY <1>1, <1>3, <1>7, TaggedIs
  <1>9. ASSUME NEW b \in Home
        PROVE  (IF Named(tags, b) THEN LoggedImage(lg, Ahead(First, TagAt(tags, b)), tags[TagAt(tags, b)].escaped)
                ELSE Unwritten) = ImagesOf(t.blocks)[b]
    <2>1. ImagesOf(t.blocks)[b] = IF b \in DOMAIN t.blocks THEN ImageOf(t.blocks[b]) ELSE Unwritten
      BY DEF ImagesOf
    <2>2. Named(tags, b) <=> b \in DOMAIN t.blocks
      <3>1. \A k \in 1 .. n : tags[k].block = Tagged(t)[k] /\ Tagged(t)[k] \in DOMAIN t.blocks
        BY <1>1, <1>3, <1>7, TaggedIs
      <3>2. \A c \in DOMAIN t.blocks : \E k \in 1 .. n : Tagged(t)[k] = c
        BY <1>1, <1>3, TaggedIs
      <3>3. PICK order, S : order = Tagged(t) /\ S = DOMAIN t.blocks
        OBVIOUS
      <3>4. /\ \A k \in 1 .. n : tags[k].block = order[k] /\ order[k] \in S
            /\ \A c \in S : \E k \in 1 .. n : order[k] = c
        BY <3>1, <3>2, <3>3
      <3>5. Named(tags, b) <=> \E k \in 1 .. n : tags[k].block = b
        BY <1>8 DEF Named
      <3>6. Named(tags, b) <=> b \in S
        BY <3>4, <3>5
      <3> QED
        BY <3>3, <3>6
    <2>3. CASE b \in DOMAIN t.blocks
      <3>1. PICK k \in 1 .. n : k = TagAt(tags, b) /\ tags[k].block = b
        BY <1>8, <2>2, <2>3 DEF Named, TagAt
      <3>2. Tagged(t)[k] = b /\ tags[k].escaped = HasMagic(t.blocks[b]) /\ t.blocks[b] \in HomeType(b)
        BY <1>1, <1>3, <1>7, <3>1, TaggedIs
      <3>3. Ahead(First, k) = First + k
        <4>1. PICK z, a : z = SizeOf(t) /\ a = Area
          OBVIOUS
        <4>2. z \in Nat /\ z + 2 < a /\ a \in Nat /\ k \in 1 .. z
          BY <1>1, <1>2, <1>3, <4>1
        <4>3. k \in 0 .. a - 1
          BY <4>2
        <4> QED
          BY <4>1, <4>3, AheadFirst
      <3>4. lg[Ahead(First, k)] = Escape(t.blocks[b])
        BY <1>5, <3>2, <3>3
      <3>5. LoggedImage(lg, Ahead(First, k), tags[k].escaped) = ImageOf(t.blocks[b])
        BY <3>2, <3>4, LoggedCopy
      <3> QED
        BY <2>1, <2>2, <2>3, <3>1, <3>5
    <2>4. CASE b \notin DOMAIN t.blocks
      BY <2>1, <2>2, <2>4
    <2> QED
      BY <2>3, <2>4
  <1> DEFINE W(b) == IF Named(tags, b)
                     THEN LoggedImage(lg, Ahead(First, TagAt(tags, b)), tags[TagAt(tags, b)].escaped)
                     ELSE Unwritten
  <1>10. BodyIn(lg) = [seq |-> Unwrapped(t.seq), writes |-> [b \in Home |-> W(b)]]
    BY <1>6, <1>7 DEF BodyIn
  <1>11. [b \in Home |-> W(b)] = ImagesOf(t.blocks)
    <2>1. \A b \in Home : W(b) = ImagesOf(t.blocks)[b]
      BY <1>9
    <2>2. ImagesOf(t.blocks) = [b \in Home |-> ImagesOf(t.blocks)[b]]
      BY DEF ImagesOf
    <2> HIDE DEF W
    <2> QED
      BY <2>1, <2>2
  <1> QED
    BY <1>10, <1>11

LEMMA CommitsAre ==
    ASSUME NEW lg
    PROVE  /\ \A s \in BodySlot : lg[s].kind = "commit" => Unwrapped(lg[s].seq) \in CommitsIn(lg)
           /\ \A n \in CommitsIn(lg) : \E s \in BodySlot : lg[s].kind = "commit" /\ n = Unwrapped(lg[s].seq)
  BY DEF CommitsIn

\* The commit blocks of a log whose commit blocks another one has, but for one number.
LEMMA CommitsGrow ==
    ASSUME NEW lg, NEW mg, NEW n,
           \A s \in BodySlot : mg[s].kind = "commit" => mg[s] = lg[s] \/ Unwrapped(mg[s].seq) = n
    PROVE  CommitsIn(mg) \in SUBSET (CommitsIn(lg) \cup {n})
  <1> SUFFICES ASSUME NEW x \in CommitsIn(mg), x # n PROVE x \in CommitsIn(lg)
    OBVIOUS
  <1>1. PICK s \in BodySlot : mg[s].kind = "commit" /\ x = Unwrapped(mg[s].seq)
    BY CommitsAre
  <1>2. mg[s] = lg[s]
    BY <1>1
  <1> QED
    BY <1>1, <1>2, CommitsAre

\* The slots of the view are those of the disk.
LEMMA BodyLogIs ==
    /\ \A s \in BodySlot : BodyLog[s] = disk[LogAddr(s)]
    /\ DiskType => GoodLog(BodyLog)
  BY DEF BodyLog, DiskType, GoodLog

LEMMA SameLog ==
    ASSUME \A s \in BodySlot : disk'[LogAddr(s)] = disk[LogAddr(s)]
    PROVE  ProtocolBody' = ProtocolBody /\ ProtocolCommits' = ProtocolCommits
  <1>1. BodyLog' = BodyLog
    BY DEF BodyLog
  <1> QED
    BY <1>1 DEF ProtocolBody, ProtocolCommits

LEMMA SameJsb ==
    ASSUME disk'[LogAddr(0)] = disk[LogAddr(0)]
    PROVE  ProtocolJsb' = ProtocolJsb
  BY DEF ProtocolJsb

\* Home blocks that keep their images.
LEMMA SameHome ==
    ASSUME \A b \in Home : ImageOf(disk'[HomeAddr(b)]) = ImageOf(disk[HomeAddr(b)])
    PROVE  ProtocolHome' = ProtocolHome
  BY DEF ProtocolHome

\* The body of a transaction that is in the log.
LEMMA LoggedBody ==
    ASSUME NEW t, IsReady(t), BodyLogged(t)
    PROVE  ProtocolBody = [seq |-> Unwrapped(t.seq), writes |-> ImagesOf(t.blocks)]
  <1>1. PICK lg : lg = BodyLog
    OBVIOUS
  <1>2. ASSUME NEW k \in 1 .. Len(Body(t)) PROVE lg[First + k - 1] = Body(t)[k]
    <2>1. PICK s : s = First + k - 1
      OBVIOUS
    <2>2. s \in BodySlot
      BY <2>1, BodyFits, AreaIs DEF BodySlot
    <2>3. lg[s] = disk[LogAddr(s)]
      BY <1>1, <2>2, BodyLogIs
    <2> QED
      BY <2>1, <2>3 DEF BodyLogged
  <1> QED
    BY <1>1, <1>2, BodyReads DEF ProtocolBody

\* The same, once a step has written it.
LEMMA BodyWritten ==
    ASSUME NEW t, IsReady(t), \A k \in 1 .. Len(Body(t)) : disk'[LogAddr(First + k - 1)] = Body(t)[k]
    PROVE  ProtocolBody' = [seq |-> Unwrapped(t.seq), writes |-> ImagesOf(t.blocks)]
  <1>1. PICK lg : lg = BodyLog'
    OBVIOUS
  <1>2. ASSUME NEW k \in 1 .. Len(Body(t)) PROVE lg[First + k - 1] = Body(t)[k]
    <2>1. PICK s : s = First + k - 1
      OBVIOUS
    <2>2. s \in BodySlot
      BY <2>1, BodyFits, AreaIs DEF BodySlot
    <2>3. lg[s] = disk'[LogAddr(s)]
      BY <1>1, <2>2 DEF BodyLog
    <2> QED
      BY <2>1, <2>3
  <1> QED
    BY <1>1, <1>2, BodyReads DEF ProtocolBody

\* The number of the log, counted on.
LEMMA JsbIs ==
    ASSUME DiskType
    PROVE  /\ ProtocolJsb = [seq |-> Unwrapped(LogSeq), dirty |-> disk[LogAddr(0)].start # 0]
           /\ ProtocolJsb.seq \in Nat /\ FirstSeq \in Nat /\ FirstSeq <= ProtocolJsb.seq
           /\ (Active => ProtocolJsb.dirty = TRUE) /\ (~Active => ProtocolJsb.dirty = FALSE)
  <1>1. LogSeq \in Seqno /\ disk[LogAddr(0)].start \in {0, First}
    BY DiskLogIs
  <1>2. Unwrapped(LogSeq) \in FirstSeq .. FirstSeq + SeqWrap - 1 /\ FirstSeq \in Nat
    BY <1>1, Counting, JournalBounds
  <1>3. ProtocolJsb = [seq |-> Unwrapped(LogSeq), dirty |-> disk[LogAddr(0)].start # 0]
    BY DEF ProtocolJsb, LogSeq
  <1>4. ProtocolJsb.seq = Unwrapped(LogSeq)
    BY <1>3
  <1>5. PICK n : n = Unwrapped(LogSeq)
    OBVIOUS
  <1>6. n \in Nat /\ FirstSeq <= n
    BY <1>2, <1>5, LogGeometry
  <1>7. disk[LogAddr(0)].start # 0 <=> Active
    BY <1>1, AreaIs DEF Active
  <1>8. (Active => ProtocolJsb.dirty = TRUE) /\ (~Active => ProtocolJsb.dirty = FALSE)
    BY <1>7 DEF ProtocolJsb
  <1> QED
    BY <1>2, <1>3, <1>4, <1>5, <1>6, <1>8

\* A commit block of the current number is one of the protocol's current number.
LEMMA CommitCounts ==
    ASSUME DiskType
    PROVE  HasCommit <=> ProtocolJsb.seq \in ProtocolCommits
  <1>1. PICK lg : lg = BodyLog
    OBVIOUS
  <1>2. \A s \in BodySlot : lg[s] = disk[LogAddr(s)] /\ lg[s] \in LogBlock
    BY <1>1, BodyLogIs DEF DiskType
  <1>3. ProtocolCommits = CommitsIn(lg) /\ ProtocolJsb.seq = Unwrapped(LogSeq) /\ LogSeq \in Seqno
    BY <1>1, JsbIs, DiskLogIs DEF ProtocolCommits
  <1>4. ASSUME HasCommit PROVE Unwrapped(LogSeq) \in CommitsIn(lg)
    <2>1. PICK s \in BodySlot : lg[s].kind = "commit" /\ lg[s].seq = LogSeq
      BY <1>2, <1>4 DEF HasCommit
    <2> QED
      BY <2>1, CommitsAre
  <1>5. ASSUME Unwrapped(LogSeq) \in CommitsIn(lg) PROVE HasCommit
    <2>1. PICK s \in BodySlot : lg[s].kind = "commit" /\ Unwrapped(LogSeq) = Unwrapped(lg[s].seq)
      BY <1>5, CommitsAre
    <2>2. lg[s].seq \in Seqno
      BY <1>2, <2>1, Kinds
    <2>3. lg[s].seq = LogSeq
      BY <1>3, <2>1, <2>2, CountedApart
    <2> QED
      BY <1>2, <2>1, <2>3 DEF HasCommit
  <1> QED
    BY <1>3, <1>4, <1>5

\* What recovery replays is what the protocol does.
LEMMA Replays ==
    ASSUME MaxTxns < SeqWrap, IInv
    PROVE  /\ Protocol!Replayable <=> HasCommit
           /\ HasCommit <=> Committed # <<>>
  <1>1. DiskType
    BY DEF IInv
  <1>2. HasCommit <=> ProtocolJsb.seq \in ProtocolCommits
    BY <1>1, CommitCounts
  <1>3. ASSUME HasCommit PROVE Protocol!Replayable /\ Committed # <<>>
    <2>1. PICK t : IsReady(t) /\ t.seq = LogSeq /\ Logged(t) /\ Committed = <<FoundIn(t)>>
      BY <1>3, TheSealed
    <2>2. Active
      BY <1>3, TheSealed
    <2>3. ProtocolBody.seq = Unwrapped(LogSeq)
      BY <2>1, LoggedBody DEF Logged
    <2>4. ProtocolJsb = [seq |-> Unwrapped(LogSeq), dirty |-> disk[LogAddr(0)].start # 0]
      BY <1>1, JsbIs
    <2>5. ProtocolJsb.seq = Unwrapped(LogSeq)
      BY <2>4
    <2>6. ProtocolJsb.dirty = TRUE
      BY <1>1, <2>2, JsbIs
    <2>7. Protocol!Replayable
      BY <1>2, <1>3, <2>3, <2>5, <2>6 DEF Protocol!Replayable
    <2> QED
      BY <2>1, <2>7
  <1>4. ASSUME ~HasCommit PROVE Committed = <<>>
    BY <1>1, <1>4, FindsNothing
  <1>5. Protocol!Replayable => HasCommit
    BY <1>2 DEF Protocol!Replayable
  <1> QED
    BY <1>3, <1>4, <1>5

-----------------------------------------------------------------------------
(* The protocol's view of the disk after any part of the writes under way.   *)

\* The running transaction, as the protocol has it.
View(t) == [seq |-> Unwrapped(t.seq), writes |-> ImagesOf(t.blocks)]

LEMMA HomeTyped ==
    ASSUME DiskType
    PROVE  /\ ProtocolHome \in [Home -> Image \cup {Torn}]
           /\ \A b \in Home : ProtocolHome[b] = ImageOf(disk[HomeAddr(b)])
  <1>1. ASSUME NEW b \in Home PROVE ImageOf(disk[HomeAddr(b)]) \in Image \cup {Torn}
    <2>1. CASE b = SbBlock
      BY <2>1, ImagesAre DEF DiskType, SuperBlock
    <2>2. CASE b # SbBlock
      BY <2>2, ImagesAre DEF DiskType, Home
    <2> QED
      BY <2>1, <2>2
  <1> QED
    BY <1>1 DEF ProtocolHome

\* Blocks of the file system are written, or some of them, or parts of them.
LEMMA HomeView ==
    ASSUME DiskType, DiskType', NEW f, \A b \in DOMAIN f : b \in Home => f[b] \in HomeType(b),
           \A b \in Home : \/ disk'[HomeAddr(b)] = disk[HomeAddr(b)]
                           \/ b \in DOMAIN f /\ disk'[HomeAddr(b)] \in {f[b], Torn}
    PROVE  /\ ProtocolHome' \in [Home -> Image \cup {Torn}]
           /\ \A b \in Home : \/ ProtocolHome'[b] = ProtocolHome[b]
                              \/ ImagesOf(f)[b] # Unwritten /\ ProtocolHome'[b] \in {ImagesOf(f)[b], Torn}
           /\ (\A b \in Home : disk'[HomeAddr(b)] = IF b \in DOMAIN f THEN f[b] ELSE disk[HomeAddr(b)])
                  => ProtocolHome' = Protocol!Over(ProtocolHome, ImagesOf(f))
  <1>1. \A b \in Home : ProtocolHome[b] = ImageOf(disk[HomeAddr(b)])
    BY HomeTyped
  <1>2. /\ ProtocolHome' = [b \in Home |-> ImageOf(disk'[HomeAddr(b)])]
        /\ \A b \in Home : ProtocolHome'[b] = ImageOf(disk'[HomeAddr(b)])
    BY DEF ProtocolHome
  <1>3. ProtocolHome' \in [Home -> Image \cup {Torn}]
    <2>1. ASSUME NEW b \in Home PROVE ImageOf(disk'[HomeAddr(b)]) \in Image \cup {Torn}
      <3>1. CASE b = SbBlock
        BY <3>1, ImagesAre DEF DiskType, SuperBlock
      <3>2. CASE b # SbBlock
        BY <3>2, ImagesAre DEF DiskType, Home
      <3> QED
        BY <3>1, <3>2
    <2> QED
      BY <1>2, <2>1
  <1>4. \A b \in Home : ImagesOf(f)[b] = IF b \in DOMAIN f THEN ImageOf(f[b]) ELSE Unwritten
    BY WritesOf
  <1>5. \A b \in Home : ImagesOf(f)[b] # Unwritten <=> b \in DOMAIN f
    BY WritesOf
  <1>6. ASSUME NEW b \in Home
        PROVE  \/ ProtocolHome'[b] = ProtocolHome[b]
               \/ ImagesOf(f)[b] # Unwritten /\ ProtocolHome'[b] \in {ImagesOf(f)[b], Torn}
    <2>1. CASE disk'[HomeAddr(b)] = disk[HomeAddr(b)]
      BY <1>1, <1>2, <2>1
    <2>2. CASE b \in DOMAIN f /\ disk'[HomeAddr(b)] \in {f[b], Torn}
      BY <1>2, <1>4, <1>5, <2>2, ImagesAre
    <2> QED
      BY <2>1, <2>2
  <1>7. ASSUME \A b \in Home : disk'[HomeAddr(b)] = IF b \in DOMAIN f THEN f[b] ELSE disk[HomeAddr(b)]
        PROVE  ProtocolHome' = Protocol!Over(ProtocolHome, ImagesOf(f))
    <2>1. \A b \in Home : ProtocolHome'[b] = IF ImagesOf(f)[b] = Unwritten THEN ProtocolHome[b]
                                             ELSE ImagesOf(f)[b]
      BY <1>1, <1>2, <1>4, <1>5, <1>7
    <2> QED
      BY <1>2, <2>1 DEF Protocol!Over
  <1> QED
    BY <1>3, <1>6, <1>7

LEMMA BodyView ==
    ASSUME IInv, pc = "flush_body", NEW kept, NEW torn, Lands(kept, torn), count'.txns = count.txns
    PROVE  /\ ProtocolHome' = ProtocolHome /\ ProtocolJsb' = ProtocolJsb
           /\ ProtocolCommits' \in SUBSET ProtocolCommits
           /\ ProtocolBody' \in [seq : 0 .. Unwrapped(txn.seq), writes : Protocol!Writes]
           /\ kept = DOMAIN cache /\ torn = {} => ProtocolBody' = View(txn)
  <1>1. IsReady(txn) /\ txn.seq = LogSeq /\ DiskType
    BY DEF IInv, Phases, Pipeline, Preparing
  <1>2. /\ OnDisk' /\ LogSeq' = LogSeq
        /\ kept = DOMAIN cache /\ torn = {}
               => \A k \in 1 .. Len(Body(txn)) : disk'[LogAddr(First + k - 1)] = Body(txn)[k]
        /\ disk'[LogAddr(0)] = disk[LogAddr(0)]
        /\ \A b \in Home : disk'[HomeAddr(b)] = disk[HomeAddr(b)]
        /\ \A s \in BodySlot : disk'[LogAddr(s)].kind = "commit" => disk'[LogAddr(s)] = disk[LogAddr(s)]
    BY BodyLands
  <1>3. ProtocolHome' = ProtocolHome /\ ProtocolJsb' = ProtocolJsb
    BY <1>2, SameHome, SameJsb
  <1>4. PICK lg, mg : lg = BodyLog /\ mg = BodyLog'
    OBVIOUS
  <1>5. /\ \A s \in BodySlot : lg[s] = disk[LogAddr(s)] /\ mg[s] = disk'[LogAddr(s)]
        /\ GoodLog(mg)
    BY <1>2, <1>4 DEF BodyLog, OnDisk, DiskType, GoodLog
  <1>6. ProtocolCommits' \in SUBSET ProtocolCommits
    <2>1. \A s \in BodySlot : mg[s].kind = "commit" => mg[s] = lg[s]
      BY <1>2, <1>5
    <2>2. CommitsIn(mg) \in SUBSET CommitsIn(lg)
      BY <2>1, CommitsAre
    <2> QED
      BY <1>4, <2>2 DEF ProtocolCommits
  <1>7. ProtocolBody' \in [seq : 0 .. Unwrapped(txn.seq), writes : Protocol!Writes]
    <2>1. PICK n : n = Unwrapped(LogSeq)
      OBVIOUS
    <2>2. n \in Nat /\ FirstSeq \in Nat /\ FirstSeq <= n
      BY <1>1, <2>1, JsbIs
    <2>3. BodyIn(mg).seq \in 0 .. n
      <3>1. CASE mg[First].kind = "descriptor"
        <4>1. First \in BodySlot
          BY SlotsAre
        <4>2. mg[First].seq \in Seqno
          BY <1>5, <3>1, <4>1, Kinds DEF GoodLog
        <4>3. Unwrapped(mg[First].seq) <= n
          BY <1>2, <1>5, <2>1, <3>1, <4>1 DEF OnDisk
        <4>4. PICK u : u = Unwrapped(mg[First].seq)
          OBVIOUS
        <4>5. u \in FirstSeq .. FirstSeq + SeqWrap - 1 /\ SeqWrap \in Nat
          BY <4>2, <4>4, Counting, LogGeometry
        <4>6. u \in 0 .. n
          BY <2>2, <4>3, <4>4, <4>5
        <4> QED
          BY <1>5, <3>1, <4>4, <4>6, BodyInIs
      <3>2. CASE mg[First].kind # "descriptor"
        BY <1>5, <2>2, <3>2, BodyInIs
      <3> QED
        BY <3>1, <3>2
    <2>4. /\ BodyIn(mg) = [seq |-> BodyIn(mg).seq, writes |-> BodyIn(mg).writes]
          /\ BodyIn(mg).writes \in Protocol!Writes
      BY <1>5, BodyInIs DEF Protocol!Writes
    <2>5. BodyIn(mg) \in [seq : 0 .. n, writes : Protocol!Writes]
      BY <2>3, <2>4
    <2> QED
      BY <1>1, <1>4, <2>1, <2>5 DEF ProtocolBody
  <1>8. ASSUME kept = DOMAIN cache, torn = {} PROVE ProtocolBody' = View(txn)
    <2>1. PICK t : t = txn
      OBVIOUS
    <2>2. \A k \in 1 .. Len(Body(t)) : disk'[LogAddr(First + k - 1)] = Body(t)[k]
      BY <1>2, <1>8, <2>1
    <2> QED
      BY <1>1, <2>1, <2>2, BodyWritten DEF View
  <1> QED
    BY <1>3, <1>6, <1>7, <1>8

LEMMA ActiveView ==
    ASSUME IInv, pc = "flush_active", NEW kept, NEW torn, Lands(kept, torn), count'.txns = count.txns
    PROVE  /\ ProtocolHome' = ProtocolHome /\ ProtocolBody' = ProtocolBody
           /\ ProtocolCommits' = ProtocolCommits
           /\ ProtocolJsb' \in {ProtocolJsb, Protocol!Dirty(Unwrapped(txn.seq))}
           /\ kept = DOMAIN cache => ProtocolJsb' = Protocol!Dirty(Unwrapped(txn.seq))
  <1>1. txn.seq = LogSeq
    BY DEF IInv, Phases, Pipeline, Activating
  <1>2. /\ OnDisk' /\ LogSeq' = LogSeq
        /\ \A s \in BodySlot : disk'[LogAddr(s)] = disk[LogAddr(s)]
        /\ kept = DOMAIN cache => Active'
        /\ \A b \in Home : disk'[HomeAddr(b)] = disk[HomeAddr(b)]
        /\ disk'[LogAddr(0)] = disk[LogAddr(0)] \/ Active'
    BY ActiveLands
  <1>3. ASSUME Active' PROVE ProtocolJsb' = Protocol!Dirty(Unwrapped(txn.seq))
    <2>1. disk'[LogAddr(0)].start # 0
      BY <1>3, AreaIs DEF Active
    <2>2. ProtocolJsb' = [seq |-> Unwrapped(LogSeq'), dirty |-> disk'[LogAddr(0)].start # 0]
      BY DEF ProtocolJsb, LogSeq
    <2> QED
      BY <1>1, <1>2, <2>1, <2>2 DEF Protocol!Dirty
  <1> QED
    BY <1>2, <1>3, SameHome, SameLog, SameJsb

LEMMA CommitView ==
    ASSUME IInv, pc = "flush_commit", NEW kept, NEW torn, Lands(kept, torn), count'.txns = count.txns
    PROVE  /\ ProtocolHome' = ProtocolHome /\ ProtocolJsb' = ProtocolJsb /\ ProtocolBody' = ProtocolBody
           /\ ProtocolCommits' \in SUBSET (ProtocolCommits \cup {Unwrapped(txn.seq)})
           /\ kept = DOMAIN cache /\ torn = {} => Unwrapped(txn.seq) \in ProtocolCommits'
  <1>1. IsReady(txn) /\ txn.seq = LogSeq /\ BodyLogged(txn)
    BY DEF IInv, Phases, Pipeline, Sealing
  <1>2. /\ \A k \in 1 .. Len(Body(txn)) : disk'[LogAddr(First + k - 1)] = Body(txn)[k]
        /\ kept = DOMAIN cache /\ torn = {}
               => disk'[LogAddr(First + Len(Body(txn)))] = Commit(txn.seq)
        /\ disk'[LogAddr(0)] = disk[LogAddr(0)]
        /\ \A b \in Home : disk'[HomeAddr(b)] = disk[HomeAddr(b)]
        /\ \A s \in BodySlot : disk'[LogAddr(s)].kind = "commit"
               => disk'[LogAddr(s)] = disk[LogAddr(s)] \/ disk'[LogAddr(s)].seq = LogSeq
    BY CommitLands
  <1>3. ProtocolHome' = ProtocolHome /\ ProtocolJsb' = ProtocolJsb
    BY <1>2, SameHome, SameJsb
  <1>4. ProtocolBody' = ProtocolBody
    <2>1. PICK t : t = txn
      OBVIOUS
    <2>2. \A k \in 1 .. Len(Body(t)) : disk'[LogAddr(First + k - 1)] = Body(t)[k]
      BY <1>2, <2>1
    <2>3. IsReady(t) /\ BodyLogged(t)
      BY <1>1, <2>1
    <2> QED
      BY <2>2, <2>3, BodyWritten, LoggedBody
  <1>5. PICK lg, mg : lg = BodyLog /\ mg = BodyLog'
    OBVIOUS
  <1>6. \A s \in BodySlot : lg[s] = disk[LogAddr(s)] /\ mg[s] = disk'[LogAddr(s)]
    BY <1>5 DEF BodyLog
  <1>7. PICK n : n = Unwrapped(txn.seq)
    OBVIOUS
  <1>8. \A s \in BodySlot : mg[s].kind = "commit" => mg[s] = lg[s] \/ Unwrapped(mg[s].seq) = n
    BY <1>1, <1>2, <1>6, <1>7
  <1>9. CommitsIn(mg) \in SUBSET (CommitsIn(lg) \cup {n})
    BY <1>8, CommitsGrow
  <1>10. ASSUME kept = DOMAIN cache, torn = {} PROVE n \in CommitsIn(mg)
    <2>1. PICK s : s = First + Len(Body(txn))
      OBVIOUS
    <2>2. s \in BodySlot
      BY <1>1, <2>1, BodyFits, AreaIs DEF BodySlot
    <2>3. mg[s] = Commit(txn.seq)
      BY <1>2, <1>6, <1>10, <2>1, <2>2
    <2>4. mg[s].kind = "commit" /\ n = Unwrapped(mg[s].seq)
      BY <1>7, <2>3 DEF Commit
    <2> QED
      BY <2>2, <2>4, CommitsAre
  <1> QED
    BY <1>3, <1>4, <1>5, <1>7, <1>9, <1>10 DEF ProtocolCommits

LEMMA FlagView ==
    ASSUME IInv, pc \in {"flush_recover", "flush_done"}, NEW kept, NEW torn, Lands(kept, torn)
    PROVE  /\ ProtocolHome' = ProtocolHome /\ ProtocolBody' = ProtocolBody
           /\ ProtocolCommits' = ProtocolCommits /\ ProtocolJsb' = ProtocolJsb
  <1>1. DiskType
    BY DEF IInv
  <1>2. PICK on \in BOOLEAN : cache = RecoverWrite(on)
    BY DEF IInv, Unflushed
  <1>3. /\ LogKept
        /\ disk'[HomeAddr(SbBlock)] \in {disk[HomeAddr(SbBlock)],
                                         [disk[HomeAddr(SbBlock)] EXCEPT !.recover = on]}
        /\ \A b \in Data : disk'[HomeAddr(b)] = disk[HomeAddr(b)]
    BY <1>1, <1>2, RecoverLands
  <1>4. ImageOf(disk'[HomeAddr(SbBlock)]) = ImageOf(disk[HomeAddr(SbBlock)])
    <2>1. PICK s \in SuperBlock : s = disk[HomeAddr(SbBlock)]
      BY <1>1 DEF DiskType
    <2>2. [s EXCEPT !.recover = on] \in SuperBlock /\ [s EXCEPT !.recover = on].image = s.image
      BY DEF SuperBlock
    <2>3. ImageOf([s EXCEPT !.recover = on]) = ImageOf(s)
      BY <2>2, ImagesAre
    <2> QED
      BY <1>3, <2>1, <2>3
  <1>5. \A b \in Home : ImageOf(disk'[HomeAddr(b)]) = ImageOf(disk[HomeAddr(b)])
    BY <1>3, <1>4 DEF Home
  <1> QED
    BY <1>3, <1>5, SameHome, SameLog, SameJsb DEF LogKept

LEMMA CheckpointView ==
    ASSUME IInv, pc = "flush_checkpoint", NEW kept, NEW torn, Lands(kept, torn)
    PROVE  /\ ProtocolBody' = ProtocolBody /\ ProtocolCommits' = ProtocolCommits
           /\ ProtocolJsb' = ProtocolJsb
           /\ ProtocolHome' \in [Home -> Image \cup {Torn}]
           /\ \A b \in Home : \/ ProtocolHome'[b] = ProtocolHome[b]
                              \/ /\ ImagesOf(txn.blocks)[b] # Unwritten
                                 /\ ProtocolHome'[b] \in {ImagesOf(txn.blocks)[b], Torn}
           /\ kept = DOMAIN cache /\ torn = {}
                  => ProtocolHome' = Protocol!Over(ProtocolHome, ImagesOf(txn.blocks))
  <1>1. DiskType /\ IsReady(txn)
    BY DEF IInv, Phases, Pipeline, Applying
  <1>2. PICK f : f = txn.blocks
    OBVIOUS
  <1>3. /\ DiskType' /\ LogKept
        /\ \A b \in Home : kept = DOMAIN cache /\ torn = {}
               => disk'[HomeAddr(b)] = IF b \in DOMAIN f THEN f[b] ELSE disk[HomeAddr(b)]
        /\ \A b \in Home : \/ disk'[HomeAddr(b)] = disk[HomeAddr(b)]
                           \/ b \in DOMAIN f /\ disk'[HomeAddr(b)] \in {f[b], Torn}
    BY <1>2, CheckpointLands
  <1>4. \A b \in DOMAIN f : b \in Home => f[b] \in HomeType(b)
    BY <1>1, <1>2 DEF IsReady, IsTxn
  <1>5. /\ ProtocolHome' \in [Home -> Image \cup {Torn}]
        /\ \A b \in Home : \/ ProtocolHome'[b] = ProtocolHome[b]
                           \/ ImagesOf(f)[b] # Unwritten /\ ProtocolHome'[b] \in {ImagesOf(f)[b], Torn}
        /\ (\A b \in Home : disk'[HomeAddr(b)] = IF b \in DOMAIN f THEN f[b] ELSE disk[HomeAddr(b)])
               => ProtocolHome' = Protocol!Over(ProtocolHome, ImagesOf(f))
    BY <1>1, <1>3, <1>4, HomeView
  <1>6. ProtocolBody' = ProtocolBody /\ ProtocolCommits' = ProtocolCommits /\ ProtocolJsb' = ProtocolJsb
    BY <1>3, SameLog, SameJsb DEF LogKept
  <1>7. kept = DOMAIN cache /\ torn = {} => ProtocolHome' = Protocol!Over(ProtocolHome, ImagesOf(f))
    BY <1>3, <1>5
  <1> QED
    BY <1>2, <1>5, <1>6, <1>7

LEMMA CleanView ==
    ASSUME MaxTxns < SeqWrap, IInv, pc \in {"flush_clean", "flush_clear"},
           NEW kept, NEW torn, Lands(kept, torn), count'.txns = count.txns
    PROVE  /\ ProtocolHome' = ProtocolHome /\ ProtocolBody' = ProtocolBody
           /\ ProtocolCommits' = ProtocolCommits
           /\ ProtocolJsb' \in {ProtocolJsb, Protocol!CleanAt(ProtocolJsb.seq + 1)}
           /\ kept = DOMAIN cache => ProtocolJsb' = Protocol!CleanAt(ProtocolJsb.seq + 1)
           /\ pc = "flush_clean" => Unwrapped(txn.seq) = ProtocolJsb.seq
  <1>1. DiskType /\ Numbers
    BY DEF IInv
  <1>2. Taken /\ cache = JsbWrite(SeqSucc(LogSeq), 0)
    BY DEF IInv, Phases, Unflushed, Taken, Pipeline, Applying, Replaying
  <1>3. /\ \A s \in BodySlot : disk'[LogAddr(s)] = disk[LogAddr(s)]
        /\ \A b \in Home : disk'[HomeAddr(b)] = disk[HomeAddr(b)]
        /\ disk'[LogAddr(0)] = disk[LogAddr(0)] \/ disk'[LogAddr(0)] = JournalSb(SeqSucc(LogSeq), 0)
        /\ kept = DOMAIN cache => disk'[LogAddr(0)] = JournalSb(SeqSucc(LogSeq), 0)
    BY <1>2, CleanLands
  <1>4. Unwrapped(SeqSucc(LogSeq)) = Unwrapped(LogSeq) + 1 /\ ProtocolJsb.seq = Unwrapped(LogSeq)
    BY <1>1, <1>2, NextUnused, JsbIs
  <1>5. ASSUME disk'[LogAddr(0)] = JournalSb(SeqSucc(LogSeq), 0)
        PROVE  ProtocolJsb' = Protocol!CleanAt(ProtocolJsb.seq + 1)
    <2>1. disk'[LogAddr(0)].seq = SeqSucc(LogSeq) /\ disk'[LogAddr(0)].start = 0
      BY <1>5 DEF JournalSb
    <2>2. ProtocolJsb' = [seq |-> Unwrapped(disk'[LogAddr(0)].seq), dirty |-> disk'[LogAddr(0)].start # 0]
      BY DEF ProtocolJsb
    <2> QED
      BY <1>4, <2>1, <2>2 DEF Protocol!CleanAt
  <1>6. pc = "flush_clean" => txn.seq = LogSeq
    BY DEF IInv, Phases, Pipeline, Applying
  <1>7. ProtocolHome' = ProtocolHome /\ ProtocolBody' = ProtocolBody /\ ProtocolCommits' = ProtocolCommits
    BY <1>3, SameHome, SameLog
  <1> QED
    BY <1>3, <1>4, <1>5, <1>6, <1>7, SameJsb

\* A replay writes what is in the body: no file-system block of the model is revoked.
LEMMA ReplayView ==
    ASSUME MaxTxns < SeqWrap, Freed \cap Home = {}, IInv, pc = "flush_replay",
           NEW kept, NEW torn, Lands(kept, torn)
    PROVE  /\ ProtocolBody' = ProtocolBody /\ ProtocolCommits' = ProtocolCommits
           /\ ProtocolJsb' = ProtocolJsb
           /\ ProtocolHome' \in [Home -> Image \cup {Torn}]
           /\ \A b \in Home : \/ ProtocolHome'[b] = ProtocolHome[b]
                              \/ /\ ProtocolBody.writes[b] # Unwritten
                                 /\ ProtocolHome'[b] \in {ProtocolBody.writes[b], Torn}
           /\ kept = DOMAIN cache /\ torn = {}
                  => ProtocolHome' = Protocol!Over(ProtocolHome, ProtocolBody.writes)
  <1>1. DiskType /\ HasCommit
    BY DEF IInv, Phases, Replaying
  <1>2. PICK t : IsReady(t) /\ Logged(t) /\ Committed = <<FoundIn(t)>>
    BY <1>1, TheSealed
  <1>3. PICK f : f = t.blocks
    OBVIOUS
  <1>4. /\ DOMAIN t.blocks \ t.revokes = DOMAIN f
        /\ \A b \in DOMAIN f : b \in Home => f[b] \in HomeType(b)
    BY <1>2, <1>3 DEF IsReady, IsTxn
  <1>5. /\ DiskType' /\ LogKept
        /\ \A b \in Home : kept = DOMAIN cache /\ torn = {}
               => disk'[HomeAddr(b)] = IF b \in DOMAIN f THEN f[b] ELSE disk[HomeAddr(b)]
        /\ \A b \in Home : \/ disk'[HomeAddr(b)] = disk[HomeAddr(b)]
                           \/ b \in DOMAIN f /\ disk'[HomeAddr(b)] \in {f[b], Torn}
    BY <1>2, <1>3, <1>4, ReplayLands
  <1>6. /\ ProtocolHome' \in [Home -> Image \cup {Torn}]
        /\ \A b \in Home : \/ ProtocolHome'[b] = ProtocolHome[b]
                           \/ ImagesOf(f)[b] # Unwritten /\ ProtocolHome'[b] \in {ImagesOf(f)[b], Torn}
        /\ (\A b \in Home : disk'[HomeAddr(b)] = IF b \in DOMAIN f THEN f[b] ELSE disk[HomeAddr(b)])
               => ProtocolHome' = Protocol!Over(ProtocolHome, ImagesOf(f))
    BY <1>1, <1>4, <1>5, HomeView
  <1>7. ProtocolBody' = ProtocolBody /\ ProtocolCommits' = ProtocolCommits /\ ProtocolJsb' = ProtocolJsb
    BY <1>5, SameLog, SameJsb DEF LogKept
  <1>8. ProtocolBody.writes = ImagesOf(f)
    BY <1>2, <1>3, LoggedBody DEF Logged
  <1>9. kept = DOMAIN cache /\ torn = {} => ProtocolHome' = Protocol!Over(ProtocolHome, ImagesOf(f))
    BY <1>5, <1>6
  <1> QED
    BY <1>6, <1>7, <1>8, <1>9

-----------------------------------------------------------------------------
(* The engine's steps are the protocol's. *)

\* The protocol's transaction while it carries one, and while it does not.
LEMMA Carried ==
    /\ ProtocolPc \in {"open", "body", "active", "commit", "checkpoint", "clean"} => ProtocolTxn = View(txn)
    /\ ProtocolPc \notin {"open", "body", "active", "commit", "checkpoint", "clean"}
           => ProtocolTxn = Protocol!NoTxn
  BY DEF ProtocolTxn, View, Protocol!NoTxn, NoWrites

LEMMA CarriedNext ==
    /\ ProtocolPc' \in {"open", "body", "active", "commit", "checkpoint", "clean"}
           => ProtocolTxn' = [seq |-> Unwrapped(txn'.seq), writes |-> ImagesOf(txn'.blocks)]
    /\ ProtocolPc' \notin {"open", "body", "active", "commit", "checkpoint", "clean"}
           => ProtocolTxn' = Protocol!NoTxn
  BY DEF ProtocolTxn, Protocol!NoTxn, NoWrites

\* A step of the engine that the protocol does not see.
LEMMA Unseen ==
    ASSUME ProtocolHome' = ProtocolHome, ProtocolBody' = ProtocolBody,
           ProtocolCommits' = ProtocolCommits, ProtocolJsb' = ProtocolJsb,
           ProtocolPc' = ProtocolPc, UNCHANGED <<txn.seq, txn.blocks>>
    PROVE  UNCHANGED Protocol!vars
  <1>1. ProtocolTxn' = ProtocolTxn
    BY DEF ProtocolTxn
  <1> QED
    BY <1>1 DEF Protocol!vars

LEMMA SameDisk ==
    ASSUME disk' = disk
    PROVE  /\ ProtocolHome' = ProtocolHome /\ ProtocolBody' = ProtocolBody
           /\ ProtocolCommits' = ProtocolCommits /\ ProtocolJsb' = ProtocolJsb
  BY SameHome, SameLog, SameJsb

\* Writes that are not flushed yet.
LEMMA WritesUnseen ==
    ASSUME \/ WriteBody \/ MarkActive \/ WriteCommit \/ SetRecover \/ Checkpoint
           \/ MarkClean \/ ClearRecover \/ ClearJournal
    PROVE  UNCHANGED Protocol!vars
  <1>1. disk' = disk /\ txn' = txn
    BY DEF WriteBody, MarkActive, WriteCommit, SetRecover, Checkpoint, MarkClean, ClearRecover, ClearJournal
  <1>2. ProtocolPc' = ProtocolPc
    <2>1. CASE WriteBody
      BY <2>1 DEF WriteBody, Step, ProtocolPc
    <2>2. CASE MarkActive
      BY <2>2 DEF MarkActive, Step, ProtocolPc
    <2>3. CASE WriteCommit
      BY <2>3 DEF WriteCommit, Step, ProtocolPc
    <2>4. CASE SetRecover
      BY <2>4 DEF SetRecover, Step, ProtocolPc
    <2>5. CASE Checkpoint
      BY <2>5 DEF Checkpoint, Step, ProtocolPc
    <2>6. CASE MarkClean
      BY <2>6 DEF MarkClean, Step, ProtocolPc
    <2>7. CASE ClearRecover
      BY <2>7 DEF ClearRecover, Step, ProtocolPc
    <2>8. CASE ClearJournal
      BY <2>8 DEF ClearJournal, Step, ProtocolPc
    <2> QED
      BY <2>1, <2>2, <2>3, <2>4, <2>5, <2>6, <2>7, <2>8
  <1> QED
    BY <1>1, <1>2, SameDisk, Unseen

\* A flush makes the writes of the step durable.
LEMMA FlushFollows ==
    ASSUME MaxTxns < SeqWrap, Freed \cap Home = {}, IInv, Flush
    PROVE  Protocol!Next \/ UNCHANGED Protocol!vars
  <1>1. PICK kept, torn : kept = DOMAIN cache /\ torn = {}
    OBVIOUS
  <1>2. /\ Lands(kept, torn) /\ count'.txns = count.txns /\ depth = 0 /\ depth' = 0
        /\ pc' = AfterFlush[pc] /\ pc \in DOMAIN AfterFlush
        /\ pc # "flush_done" => txn' = txn
    BY <1>1, FlushLands
  <1>3. CASE pc = "flush_body"
    <2>1. pc' = "mark_active" /\ txn' = txn
      BY <1>2, <1>3 DEF AfterFlush
    <2>2. ProtocolPc = "body" /\ ProtocolPc' = "active"
      BY <1>3, <2>1 DEF ProtocolPc
    <2>3. ProtocolTxn = View(txn) /\ ProtocolTxn' = ProtocolTxn
      BY <2>1, <2>2, Carried, CarriedNext DEF View
    <2>4. Protocol!LogBody
      BY <1>1, <1>2, <1>3, <2>2, <2>3, BodyView DEF Protocol!LogBody
    <2> QED
      BY <2>4 DEF Protocol!Next
  <1>4. CASE pc = "flush_active"
    <2>1. pc' = "write_commit" /\ txn' = txn
      BY <1>2, <1>4 DEF AfterFlush
    <2>2. ProtocolPc = "active" /\ ProtocolPc' = "commit"
      BY <1>4, <2>1 DEF ProtocolPc
    <2>3. ProtocolTxn = View(txn) /\ ProtocolTxn' = ProtocolTxn
      BY <2>1, <2>2, Carried, CarriedNext DEF View
    <2>4. ProtocolTxn.seq = Unwrapped(txn.seq)
      BY <2>3 DEF View
    <2>5. Protocol!MarkActive
      BY <1>1, <1>2, <1>4, <2>2, <2>3, <2>4, ActiveView DEF Protocol!MarkActive
    <2> QED
      BY <2>5 DEF Protocol!Next
  <1>5. CASE pc = "flush_commit"
    <2>1. pc' = "set_recover" /\ txn' = txn
      BY <1>2, <1>5 DEF AfterFlush
    <2>2. ProtocolPc = "commit" /\ ProtocolPc' = "checkpoint"
      BY <1>5, <2>1 DEF ProtocolPc
    <2>3. ProtocolTxn = View(txn) /\ ProtocolTxn' = ProtocolTxn
      BY <2>1, <2>2, Carried, CarriedNext DEF View
    <2>4. ProtocolTxn.seq = Unwrapped(txn.seq)
      BY <2>3 DEF View
    <2>5. /\ ProtocolHome' = ProtocolHome /\ ProtocolJsb' = ProtocolJsb /\ ProtocolBody' = ProtocolBody
          /\ ProtocolCommits' \in SUBSET (ProtocolCommits \cup {ProtocolTxn.seq})
          /\ ProtocolTxn.seq \in ProtocolCommits'
      BY <1>1, <1>2, <1>5, <2>4, CommitView
    <2>6. PICK old : old = ProtocolCommits' \cap ProtocolCommits
      OBVIOUS
    <2>7. old \in SUBSET ProtocolCommits /\ ProtocolCommits' = old \cup {ProtocolTxn.seq}
      BY <2>5, <2>6
    <2>8. Protocol!WriteCommit
      BY <2>2, <2>3, <2>5, <2>7 DEF Protocol!WriteCommit
    <2> QED
      BY <2>8 DEF Protocol!Next
  <1>6. CASE pc \in {"flush_recover", "flush_done"}
    <2>1. UNCHANGED <<ProtocolHome, ProtocolBody, ProtocolCommits, ProtocolJsb>>
      BY <1>2, <1>6, FlagView
    <2>2. ProtocolPc' = ProtocolPc
      <3>1. CASE pc = "flush_recover"
        <4>1. pc' = "checkpoint"
          BY <1>2, <3>1 DEF AfterFlush
        <4> QED
          BY <3>1, <4>1 DEF ProtocolPc
      <3>2. CASE pc = "flush_done"
        <4>1. pc' = "running" /\ ~(depth' > 0)
          BY <1>2, <3>2 DEF AfterFlush
        <4> QED
          BY <3>2, <4>1 DEF ProtocolPc
      <3> QED
        BY <1>6, <3>1, <3>2
    <2>3. ProtocolTxn' = ProtocolTxn
      <3>1. CASE pc = "flush_recover"
        BY <1>2, <2>2, <3>1 DEF ProtocolTxn
      <3>2. CASE pc = "flush_done"
        <4>1. ProtocolPc = "idle"
          BY <3>2 DEF ProtocolPc
        <4> QED
          BY <2>2, <4>1, Carried, CarriedNext
      <3> QED
        BY <1>6, <3>1, <3>2
    <2> QED
      BY <2>1, <2>2, <2>3 DEF Protocol!vars
  <1>7. CASE pc = "flush_checkpoint"
    <2>1. pc' = "mark_clean" /\ txn' = txn
      BY <1>2, <1>7 DEF AfterFlush
    <2>2. ProtocolPc = "checkpoint" /\ ProtocolPc' = "clean"
      BY <1>7, <2>1 DEF ProtocolPc
    <2>3. ProtocolTxn = View(txn) /\ ProtocolTxn' = ProtocolTxn
      BY <2>1, <2>2, Carried, CarriedNext DEF View
    <2>4. ProtocolTxn.writes = ImagesOf(txn.blocks)
      BY <2>3 DEF View
    <2>5. Protocol!Checkpoint
      BY <1>1, <1>2, <1>7, <2>2, <2>3, <2>4, CheckpointView DEF Protocol!Checkpoint
    <2> QED
      BY <2>5 DEF Protocol!Next
  <1>8. CASE pc = "flush_clean"
    <2>1. pc' = "clear_recover" /\ txn' = txn
      BY <1>2, <1>8 DEF AfterFlush
    <2>2. ProtocolPc = "clean" /\ ProtocolPc' = "idle"
      BY <1>8, <2>1 DEF ProtocolPc
    <2>3. ProtocolTxn = View(txn) /\ ProtocolTxn' = Protocol!NoTxn
      BY <2>2, Carried, CarriedNext
    <2>4. ProtocolTxn.seq = Unwrapped(txn.seq)
      BY <2>3 DEF View
    <2>5. Protocol!MarkClean
      BY <1>1, <1>2, <1>8, <2>2, <2>3, <2>4, CleanView DEF Protocol!MarkClean
    <2> QED
      BY <2>5 DEF Protocol!Next
  <1>9. CASE pc = "flush_replay"
    <2>1. pc' = "clear_journal"
      BY <1>2, <1>9 DEF AfterFlush
    <2>2. ProtocolPc = "replay" /\ ProtocolPc' = "clear"
      BY <1>9, <2>1 DEF ProtocolPc
    <2>3. ProtocolTxn' = ProtocolTxn
      BY <2>2, Carried, CarriedNext
    <2>4. Protocol!Replay
      BY <1>1, <1>2, <1>9, <2>2, <2>3, ReplayView DEF Protocol!Replay
    <2> QED
      BY <2>4 DEF Protocol!Next
  <1>10. CASE pc = "flush_clear"
    <2>1. pc' = "clear_recover"
      BY <1>2, <1>10 DEF AfterFlush
    <2>2. ProtocolPc = "clear" /\ ProtocolPc' = "idle"
      BY <1>10, <2>1 DEF ProtocolPc
    <2>3. ProtocolTxn' = ProtocolTxn
      BY <2>2, Carried, CarriedNext
    <2>4. Protocol!ClearJournal
      BY <1>1, <1>2, <1>10, <2>2, <2>3, CleanView DEF Protocol!ClearJournal
    <2> QED
      BY <2>4 DEF Protocol!Next
  <1> QED
    BY <1>2, <1>3, <1>4, <1>5, <1>6, <1>7, <1>8, <1>9, <1>10 DEF AfterFlush

\* The scan of a recovery.
LEMMA ReplayFollows ==
    ASSUME MaxTxns < SeqWrap, IInv, Replay
    PROVE  Protocol!Scan
  <1>1. pc = "off" /\ disk' = disk /\ txn' = txn /\ depth' = depth
    BY DEF Replay
  <1>2. depth = 0
    BY <1>1, JournalBounds DEF IInv, Phases
  <1>3. VisibleLog = DiskLog /\ VisibleJsb = disk[LogAddr(0)]
    BY <1>1, Quiet
  <1>4. Scan(VisibleLog, VisibleJsb) = Committed
    BY <1>3 DEF Committed
  <1>5. pc' = IF Committed = <<>> THEN "running" ELSE "flush_replay"
    <2>1. \E txns \in {Committed} : IF txns = <<>> THEN pc' = "running" ELSE pc' = "flush_replay"
      BY <1>4 DEF Replay
    <2> QED
      BY <2>1
  <1>6. ProtocolPc' = IF Committed = <<>> THEN "idle" ELSE "replay"
    <2>1. ~(depth' > 0)
      BY <1>1, <1>2
    <2>2. CASE Committed = <<>>
      <3>1. pc' = "running"
        BY <1>5, <2>2
      <3> QED
        BY <2>1, <2>2, <3>1 DEF ProtocolPc
    <2>3. CASE Committed # <<>>
      <3>1. pc' = "flush_replay"
        BY <1>5, <2>3
      <3> QED
        BY <2>3, <3>1 DEF ProtocolPc
    <2> QED
      BY <2>2, <2>3
  <1>7. ProtocolPc = "off"
    BY <1>1 DEF ProtocolPc
  <1>8. ProtocolTxn' = ProtocolTxn
    BY <1>6, <1>7, Carried, CarriedNext
  <1>9. Protocol!Replayable <=> Committed # <<>>
    BY Replays
  <1>10. UNCHANGED <<ProtocolHome, ProtocolBody, ProtocolCommits, ProtocolJsb>>
    BY <1>1, SameDisk
  <1> QED
    BY <1>6, <1>7, <1>8, <1>9, <1>10 DEF Protocol!Scan

\* journal_begin.
LEMMA BeginFollows ==
    ASSUME IInv, Begin
    PROVE  Protocol!Begin \/ UNCHANGED Protocol!vars
  <1>1. pc = "running" /\ pc' = pc /\ disk' = disk /\ depth' = depth + 1 /\ depth \in Nat
    BY JournalBounds DEF Begin, IInv, Phases
  <1>2. depth' > 0
    BY <1>1
  <1>3. ProtocolPc' = "open"
    BY <1>1, <1>2 DEF ProtocolPc
  <1>4. UNCHANGED <<ProtocolHome, ProtocolBody, ProtocolCommits, ProtocolJsb>>
    BY <1>1, SameDisk
  <1>5. CASE depth = 0
    <2>1. ProtocolPc = "idle"
      BY <1>1, <1>5 DEF ProtocolPc
    <2>2. VisibleJsb = disk[LogAddr(0)] /\ DiskType
      BY <1>1, Quiet DEF IInv
    <2>3. count.txns < MaxTxns /\ txn' = [seq |-> LogSeq, blocks |-> Empty, revokes |-> {}]
      BY <1>5, <2>2 DEF Begin, LogSeq
    <2>4. ProtocolJsb.seq = Unwrapped(LogSeq) /\ ProtocolJsb.seq \in Nat /\ FirstSeq \in Nat
      BY <2>2, JsbIs
    <2>5. ProtocolJsb.seq < FirstSeq + MaxTxns
      <3>1. ProtocolJsb.seq <= FirstSeq + count.txns /\ count.txns \in Nat /\ MaxTxns \in Nat
        BY <2>4, JournalBounds DEF IInv, Numbers
      <3> QED
        BY <2>3, <2>4, <3>1
    <2>6. ImagesOf(Empty) = NoWrites
      BY DEF ImagesOf, Empty, NoWrites
    <2>7. ProtocolTxn' = [seq |-> ProtocolJsb.seq, writes |-> NoWrites]
      BY <1>3, <2>3, <2>4, <2>6, CarriedNext
    <2>8. Protocol!Begin
      BY <1>3, <1>4, <2>1, <2>5, <2>7 DEF Protocol!Begin, Protocol!NoTxn, NoWrites
    <2> QED
      BY <2>8
  <1>6. CASE depth # 0
    <2>1. ProtocolPc = "open" /\ txn' = txn
      BY <1>1, <1>6 DEF Begin, ProtocolPc
    <2> QED
      BY <1>3, <1>4, <2>1, Unseen
  <1> QED
    BY <1>5, <1>6

\* A block staged is a write of the protocol's transaction.
LEMMA StagedView ==
    ASSUME NEW t, IsTxn(t), NEW b \in Home, NEW v, NEW g, DOMAIN g = {b}, g[b] = v
    PROVE  ImagesOf(Over(t.blocks, g)) = [ImagesOf(t.blocks) EXCEPT ![b] = ImageOf(v)]
  <1>1. PICK f : f = t.blocks
    OBVIOUS
  <1>2. DOMAIN Over(f, g) = DOMAIN f \cup {b}
        /\ \A x \in DOMAIN f \cup {b} : Over(f, g)[x] = IF x = b THEN v ELSE f[x]
    BY DEF Over
  <1>3. PICK h : h = Over(f, g)
    OBVIOUS
  <1>4. \A x \in Home : ImagesOf(h)[x] = IF x = b THEN ImageOf(v) ELSE ImagesOf(f)[x]
    BY <1>2, <1>3 DEF ImagesOf
  <1>5. ImagesOf(h) = [x \in Home |-> ImagesOf(h)[x]] /\ ImagesOf(f) = [x \in Home |-> ImagesOf(f)[x]]
    BY DEF ImagesOf
  <1>6. ImagesOf(h) = [ImagesOf(f) EXCEPT ![b] = ImageOf(v)]
    BY <1>4, <1>5
  <1> QED
    BY <1>1, <1>3, <1>6

\* write_offset.
LEMMA StageFollows ==
    ASSUME IInv, NEW b \in Home, NEW image \in Image, Stage(b, image)
    PROVE  Protocol!Stage(b, image)
  <1>1. pc = "running" /\ pc' = pc /\ disk' = disk /\ depth' = depth /\ depth > 0
    BY DEF Stage
  <1>2. ProtocolPc = "open" /\ ProtocolPc' = "open"
    BY <1>1 DEF ProtocolPc
  <1>3. UNCHANGED <<ProtocolHome, ProtocolBody, ProtocolCommits, ProtocolJsb>>
    BY <1>1, SameDisk
  <1>4. PICK t : t = txn
    OBVIOUS
  <1>5. IsTxn(t)
    BY <1>4 DEF IInv, Phases
  <1>6. PICK v : v = IF b = SbBlock THEN [ReadBlock(b) EXCEPT !.image = image] ELSE image
    OBVIOUS
  <1>7. ImageOf(v) = image
    <2>1. CASE b = SbBlock
      <3>1. PICK s \in SuperBlock : s = ReadBlock(b)
        BY <1>1, <2>1, SuperRead
      <3>2. v \in SuperBlock /\ v.image = image
        BY <1>6, <2>1, <3>1 DEF SuperBlock
      <3> QED
        BY <3>2, ImagesAre
    <2>2. CASE b # SbBlock
      BY <1>6, <2>2, ImagesAre
    <2> QED
      BY <2>1, <2>2
  <1>8. PICK g : g = [x \in {b} |-> v]
    OBVIOUS
  <1>9. DOMAIN g = {b} /\ g[b] = v
    BY <1>8
  <1>10. txn' = [t EXCEPT !.blocks = Over(t.blocks, g)]
    <2>1. txn' = [txn EXCEPT !.blocks = Over(txn.blocks, [x \in {b} |-> v])]
      <3>1. [x \in {b} |-> IF b = SbBlock THEN [ReadBlock(b) EXCEPT !.image = image] ELSE image]
               = [x \in {b} |-> v]
        BY <1>6
      <3> QED
        BY <3>1 DEF Stage
    <2> QED
      BY <1>4, <1>8, <2>1
  <1>11. txn'.seq = t.seq /\ txn'.blocks = Over(t.blocks, g)
    BY <1>5, <1>10 DEF IsTxn
  <1>12. ImagesOf(txn'.blocks) = [ImagesOf(t.blocks) EXCEPT ![b] = image]
    BY <1>5, <1>7, <1>9, <1>11, StagedView
  <1>13. ProtocolTxn = View(t)
    BY <1>2, <1>4, Carried
  <1>14. ProtocolTxn' = [seq |-> Unwrapped(t.seq), writes |-> [ImagesOf(t.blocks) EXCEPT ![b] = image]]
    BY <1>2, <1>11, <1>12, CarriedNext
  <1>15. ProtocolTxn' = [ProtocolTxn EXCEPT !.writes[b] = image]
    <2>1. PICK w : w = ImagesOf(t.blocks)
      OBVIOUS
    <2> QED
      BY <1>13, <1>14, <2>1 DEF View
  <1> QED
    BY <1>2, <1>3, <1>15 DEF Protocol!Stage

LEMMA RevokeUnseen ==
    ASSUME IInv, NEW b \in Freed, RevokeBlock(b)
    PROVE  UNCHANGED Protocol!vars
  <1>1. pc' = pc /\ disk' = disk /\ depth' = depth
    BY DEF RevokeBlock
  <1>2. PICK t : t = txn
    OBVIOUS
  <1>3. txn' = [t EXCEPT !.revokes = t.revokes \cup {b}] /\ IsTxn(t)
    BY <1>2 DEF RevokeBlock, IInv, Phases
  <1>4. txn'.seq = txn.seq /\ txn'.blocks = txn.blocks
    BY <1>2, <1>3 DEF IsTxn
  <1>5. ProtocolPc' = ProtocolPc
    BY <1>1 DEF ProtocolPc
  <1> QED
    BY <1>1, <1>4, <1>5, SameDisk, Unseen

\* The superblock a commit logs is the staged one, or the one on disk.
LEMMA JournaledView ==
    ASSUME IInv, pc = "running", depth > 0
    PROVE  ImagesOf(Journaled) =
              [ImagesOf(txn.blocks) EXCEPT ![SbBlock] = IF ImagesOf(txn.blocks)[SbBlock] = Unwritten
                                                        THEN ProtocolHome[SbBlock] ELSE @]
  <1>1. PICK t : t = txn
    OBVIOUS
  <1>2. IsTxn(t) /\ SbBlock \in Home /\ DiskType
    BY <1>1, HomeIs DEF IInv, Phases
  <1>3. PICK s \in SuperBlock : s = ReadBlock(SbBlock)
    BY SuperRead
  <1>4. PICK v : v = [s EXCEPT !.recover = TRUE]
    OBVIOUS
  <1>5. v \in SuperBlock /\ v.image = s.image
    BY <1>4 DEF SuperBlock
  <1>6. ImageOf(v) = ImageOf(s)
    BY <1>5, ImagesAre
  <1>7. PICK g : g = [b \in {SbBlock} |-> [ReadBlock(b) EXCEPT !.recover = TRUE]]
    OBVIOUS
  <1>8. DOMAIN g = {SbBlock} /\ g[SbBlock] = v
    BY <1>3, <1>4, <1>7
  <1>9. Journaled = Over(t.blocks, g)
    BY <1>1, <1>7 DEF Journaled
  <1>10. ImagesOf(Journaled) = [ImagesOf(t.blocks) EXCEPT ![SbBlock] = ImageOf(s)]
    BY <1>2, <1>6, <1>8, <1>9, StagedView
  <1>11. \A b \in DOMAIN t.blocks : b \in Home => t.blocks[b] \in HomeType(b)
    BY <1>2 DEF IsTxn
  <1>12. /\ ImagesOf(t.blocks)[SbBlock] # Unwritten <=> SbBlock \in DOMAIN t.blocks
         /\ ImagesOf(t.blocks)[SbBlock] = IF SbBlock \in DOMAIN t.blocks THEN ImageOf(t.blocks[SbBlock])
                                          ELSE Unwritten
    <2>1. PICK f : f = t.blocks
      OBVIOUS
    <2> QED
      BY <1>2, <1>11, <2>1, WritesOf
  <1>13. ImageOf(s) = IF ImagesOf(t.blocks)[SbBlock] = Unwritten THEN ProtocolHome[SbBlock]
                      ELSE ImagesOf(t.blocks)[SbBlock]
    <2>1. CASE SbBlock \in DOMAIN t.blocks
      <3>1. s = t.blocks[SbBlock]
        BY <1>1, <1>3, <2>1 DEF ReadBlock
      <3> QED
        BY <1>12, <2>1, <3>1
    <2>2. CASE SbBlock \notin DOMAIN t.blocks
      <3>1. s = disk[HomeAddr(SbBlock)]
        BY <1>1, <1>3, <2>2, Quiet DEF ReadBlock
      <3>2. ProtocolHome[SbBlock] = ImageOf(s)
        BY <1>2, <3>1, HomeTyped
      <3> QED
        BY <1>12, <2>2, <3>2
    <2> QED
      BY <2>1, <2>2
  <1>14. PICK w : w = ImagesOf(t.blocks)
    OBVIOUS
  <1> QED
    BY <1>1, <1>10, <1>13, <1>14

\* journal_end.
LEMMA EndFollows ==
    ASSUME IInv, NEW ok \in BOOLEAN, End(ok)
    PROVE  Protocol!Submit \/ Protocol!Discard \/ UNCHANGED Protocol!vars
  <1>1. pc = "running" /\ disk' = disk /\ depth' = depth - 1 /\ depth > 0 /\ depth \in Nat
    BY JournalBounds DEF End, IInv, Phases
  <1>2. ProtocolPc = "open" /\ ProtocolTxn = View(txn)
    <2>1. ProtocolPc = "open"
      BY <1>1 DEF ProtocolPc
    <2> QED
      BY <2>1, Carried
  <1>3. UNCHANGED <<ProtocolHome, ProtocolBody, ProtocolCommits, ProtocolJsb>>
    BY <1>1, SameDisk
  <1>4. CASE depth > 1
    <2>1. txn' = txn /\ pc' = pc /\ depth' > 0
      BY <1>1, <1>4 DEF End
    <2>2. ProtocolPc' = "open"
      BY <1>1, <2>1 DEF ProtocolPc
    <2> QED
      BY <1>2, <1>3, <2>1, <2>2, Unseen
  <1>5. CASE ~(depth > 1)
    <2>1. ~(depth' > 0)
      BY <1>1, <1>5
    <2>2. \/ txn' = [txn EXCEPT !.blocks = Journaled] /\ pc' = "write_body"
          \/ txn' = Idle /\ pc' = "running"
      BY <1>1, <1>5 DEF End
    <2>3. CASE txn' = [txn EXCEPT !.blocks = Journaled] /\ pc' = "write_body"
      <3>1. ProtocolPc' = "body"
        BY <2>3 DEF ProtocolPc
      <3>2. PICK t, j : t = txn /\ j = Journaled
        OBVIOUS
      <3>3. txn' = [t EXCEPT !.blocks = j] /\ IsTxn(t)
        BY <2>3, <3>2 DEF IInv, Phases
      <3>4. txn'.seq = t.seq /\ txn'.blocks = j
        BY <3>3 DEF IsTxn
      <3>5. PICK w, n : w = ImagesOf(t.blocks) /\ n = Unwrapped(t.seq)
        OBVIOUS
      <3>6. ProtocolTxn = [seq |-> n, writes |-> w]
        BY <1>2, <3>2, <3>5 DEF View
      <3>7. ImagesOf(j) = [w EXCEPT ![SbBlock] = IF w[SbBlock] = Unwritten THEN ProtocolHome[SbBlock] ELSE @]
        BY <1>1, <3>2, <3>5, JournaledView
      <3>8. ProtocolTxn' = [seq |-> n, writes |-> ImagesOf(j)]
        BY <3>1, <3>4, <3>5, CarriedNext
      <3>9. ProtocolTxn' = [ProtocolTxn EXCEPT !.writes[SbBlock] = IF @ = Unwritten THEN ProtocolHome[SbBlock]
                                                                 ELSE @]
        BY <3>6, <3>7, <3>8
      <3>10. Protocol!Submit
        BY <1>2, <1>3, <3>1, <3>9 DEF Protocol!Submit
      <3> QED
        BY <3>10
    <2>4. CASE txn' = Idle /\ pc' = "running"
      <3>1. ProtocolPc' = "idle"
        BY <2>1, <2>4 DEF ProtocolPc
      <3>2. ProtocolTxn' = Protocol!NoTxn
        BY <3>1, CarriedNext
      <3>3. Protocol!Discard
        BY <1>2, <1>3, <3>1, <3>2 DEF Protocol!Discard
      <3> QED
        BY <3>3
    <2> QED
      BY <2>2, <2>3, <2>4
  <1> QED
    BY <1>4, <1>5

\* A crash.
LEMMA CrashFollows ==
    ASSUME MaxTxns < SeqWrap, Freed \cap Home = {}, IInv, Fail
    PROVE  Protocol!Crash
  <1>1. PICK kept \in SUBSET DOMAIN cache : \E torn \in SUBSET (kept \cap Tearable) : Crash(kept, torn)
    BY DEF Fail
  <1>2. PICK torn \in SUBSET (kept \cap Tearable) : Crash(kept, torn)
    BY <1>1
  <1>3. Lands(kept, torn) /\ pc' = "off" /\ pc # "off"
    BY <1>2 DEF Crash, Lands, Landed
  <1>4. count'.txns = count.txns
    <2>1. count \in [txns : Nat, crashes : Nat] /\ count' = [count EXCEPT !.crashes = @ + 1]
      BY <1>2 DEF Crash, IInv, Numbers
    <2> QED
      BY <2>1
  <1>5. ProtocolPc' = "off"
    BY <1>3 DEF ProtocolPc
  <1>6. Protocol!Lost
    BY <1>5, CarriedNext DEF Protocol!Lost
  <1>7. CASE pc = "flush_body"
    <2>1. ProtocolPc = "body"
      BY <1>7 DEF ProtocolPc
    <2>2. ProtocolTxn.seq = Unwrapped(txn.seq)
      BY <2>1, Carried DEF View
    <2>3. Protocol!CrashInBody
      BY <1>3, <1>4, <1>6, <1>7, <2>1, <2>2, BodyView DEF Protocol!CrashInBody
    <2> QED
      BY <2>3 DEF Protocol!Crash
  <1>8. CASE pc = "flush_active"
    <2>1. ProtocolPc = "active"
      BY <1>8 DEF ProtocolPc
    <2>2. ProtocolTxn.seq = Unwrapped(txn.seq)
      BY <2>1, Carried DEF View
    <2>3. /\ UNCHANGED <<ProtocolHome, ProtocolBody, ProtocolCommits>>
          /\ ProtocolJsb' \in {ProtocolJsb, Protocol!Dirty(ProtocolTxn.seq)}
      BY <1>3, <1>4, <1>8, <2>2, ActiveView
    <2>4. Protocol!CrashAtJsb \/ Protocol!CrashElsewhere
      BY <1>6, <2>1, <2>3 DEF Protocol!CrashAtJsb, Protocol!CrashElsewhere
    <2> QED
      BY <2>4 DEF Protocol!Crash
  <1>9. CASE pc = "flush_commit"
    <2>1. ProtocolPc = "commit"
      BY <1>9 DEF ProtocolPc
    <2>2. ProtocolTxn.seq = Unwrapped(txn.seq)
      BY <2>1, Carried DEF View
    <2>3. Protocol!CrashInCommit
      BY <1>3, <1>4, <1>6, <1>9, <2>1, <2>2, CommitView DEF Protocol!CrashInCommit
    <2> QED
      BY <2>3 DEF Protocol!Crash
  <1>10. CASE pc = "flush_checkpoint"
    <2>1. ProtocolPc = "checkpoint"
      BY <1>10 DEF ProtocolPc
    <2>2. ProtocolTxn.writes = ImagesOf(txn.blocks)
      BY <2>1, Carried DEF View
    <2>3. Protocol!CrashAtHome(ProtocolTxn.writes)
      BY <1>3, <1>6, <1>10, <2>2, CheckpointView DEF Protocol!CrashAtHome
    <2>4. Protocol!CrashInCheckpoint
      BY <2>1, <2>3 DEF Protocol!CrashInCheckpoint
    <2> QED
      BY <2>4 DEF Protocol!Crash
  <1>11. CASE pc = "flush_replay"
    <2>1. ProtocolPc = "replay"
      BY <1>11 DEF ProtocolPc
    <2>2. Protocol!CrashAtHome(ProtocolBody.writes)
      BY <1>3, <1>6, <1>11, ReplayView DEF Protocol!CrashAtHome
    <2>3. Protocol!CrashInReplay
      BY <2>1, <2>2 DEF Protocol!CrashInReplay
    <2> QED
      BY <2>3 DEF Protocol!Crash
  <1>12. CASE pc \in {"flush_clean", "flush_clear"}
    <2>1. /\ UNCHANGED <<ProtocolHome, ProtocolBody, ProtocolCommits>>
          /\ ProtocolJsb' \in {ProtocolJsb, Protocol!CleanAt(ProtocolJsb.seq + 1)}
          /\ pc = "flush_clean" => Unwrapped(txn.seq) = ProtocolJsb.seq
      BY <1>3, <1>4, <1>12, CleanView
    <2>2. CASE pc = "flush_clean"
      <3>1. ProtocolPc = "clean"
        BY <2>2 DEF ProtocolPc
      <3>2. ProtocolTxn.seq = ProtocolJsb.seq
        BY <2>1, <2>2, <3>1, Carried DEF View
      <3>3. Protocol!CrashAtJsb \/ Protocol!CrashElsewhere
        BY <1>6, <2>1, <3>1, <3>2 DEF Protocol!CrashAtJsb, Protocol!CrashElsewhere
      <3> QED
        BY <3>3 DEF Protocol!Crash
    <2>3. CASE pc = "flush_clear"
      <3>1. ProtocolPc = "clear"
        BY <2>3 DEF ProtocolPc
      <3>2. Protocol!CrashAtJsb \/ Protocol!CrashElsewhere
        BY <1>6, <2>1, <3>1 DEF Protocol!CrashAtJsb, Protocol!CrashElsewhere
      <3> QED
        BY <3>2 DEF Protocol!Crash
    <2> QED
      BY <1>12, <2>2, <2>3
  <1>13. CASE pc \in {"flush_recover", "flush_done"}
    <2>1. ProtocolPc # "off"
      BY <1>13 DEF ProtocolPc
    <2>2. UNCHANGED <<ProtocolHome, ProtocolBody, ProtocolCommits, ProtocolJsb>>
      BY <1>3, <1>13, FlagView
    <2>3. Protocol!CrashElsewhere
      BY <1>6, <2>1, <2>2 DEF Protocol!CrashElsewhere
    <2> QED
      BY <2>3 DEF Protocol!Crash
  <1>14. CASE pc \in {"running", "write_body", "mark_active", "write_commit", "set_recover",
                      "checkpoint", "mark_clean", "clear_recover", "clear_journal"}
    <2>1. ProtocolPc # "off"
      <3>1. CASE pc = "running"
        BY <3>1 DEF ProtocolPc
      <3>2. CASE pc # "running"
        BY <1>14, <3>2 DEF ProtocolPc
      <3> QED
        BY <3>1, <3>2
    <2>2. disk' = disk
      <3>1. cache = Empty
        BY <1>14, Quiet
      <3>2. kept = {} /\ torn = {}
        BY <1>1, <1>2, <3>1 DEF Empty
      <3>3. disk = [a \in Addr |-> disk[a]]
        BY DEF IInv, DiskType
      <3>4. disk' = [a \in Addr |-> disk[a]]
        BY <1>3, <3>2 DEF Lands, Landed
      <3> QED
        BY <3>3, <3>4
    <2>3. Protocol!CrashElsewhere
      BY <1>6, <2>1, <2>2, SameDisk DEF Protocol!CrashElsewhere
    <2> QED
      BY <2>3 DEF Protocol!Crash
  <1> QED
    BY <1>3, <1>7, <1>8, <1>9, <1>10, <1>11, <1>12, <1>13, <1>14
    DEF IInv, Phases, Pipeline, Preparing, Activating, Sealing, Flagging, Applying, Replaying, Ending

\* A file system that was just made.
LEMMA InitFollows == ASSUME Init PROVE Protocol!Init
  <1>1. /\ pc = "running" /\ depth = 0
        /\ disk = [a \in Addr |-> IF a = LogAddr(0) THEN JournalSb(FirstSeq, 0)
                                  ELSE IF a = HomeAddr(SbBlock) THEN Super(FALSE, InitImage)
                                  ELSE InitImage]
    BY DEF Init
  <1>2. /\ disk[LogAddr(0)] = JournalSb(FirstSeq, 0)
        /\ \A s \in BodySlot : disk[LogAddr(s)] = InitImage
        /\ \A b \in Home : disk[HomeAddr(b)] = IF b = SbBlock THEN Super(FALSE, InitImage) ELSE InitImage
    <2>1. /\ \A s \in LogSlot : LogAddr(s) \in Addr /\ LogAddr(s) # HomeAddr(SbBlock)
          /\ \A b \in Home : HomeAddr(b) \in Addr /\ HomeAddr(b) # LogAddr(0)
      BY Addresses
    <2>2. disk[LogAddr(0)] = JournalSb(FirstSeq, 0)
      BY <1>1, <2>1, SlotsAre
    <2>3. \A s \in BodySlot : disk[LogAddr(s)] = InitImage
      BY <1>1, <2>1, SlotsAre, Addresses
    <2>4. \A b \in Home : disk[HomeAddr(b)] = IF b = SbBlock THEN Super(FALSE, InitImage) ELSE InitImage
      BY <1>1, <2>1, Addresses
    <2> QED
      BY <2>2, <2>3, <2>4
  <1>3. InitImage \in Image /\ InitImage.kind \notin {"descriptor", "commit"} /\ First \in BodySlot
    BY JournalBounds, SlotsAre DEF HasMagic
  <1>4. ProtocolHome = [b \in Home |-> InitImage]
    <2>1. ASSUME NEW b \in Home PROVE ImageOf(disk[HomeAddr(b)]) = InitImage
      <3>1. CASE b = SbBlock
        BY <1>2, <3>1 DEF Super, ImageOf
      <3>2. CASE b # SbBlock
        BY <1>2, <1>3, <3>2, ImagesAre
      <3> QED
        BY <3>1, <3>2
    <2> QED
      BY <2>1 DEF ProtocolHome
  <1>5. PICK lg : lg = BodyLog
    OBVIOUS
  <1>6. \A s \in BodySlot : lg[s] = InitImage
    BY <1>2, <1>5, BodyLogIs
  <1>7. ProtocolBody = Protocol!NoTxn
    <2>1. BodyIn(lg) = [seq |-> FirstSeq, writes |-> NoWrites]
      BY <1>3, <1>6 DEF BodyIn
    <2> QED
      BY <1>5, <2>1 DEF ProtocolBody, Protocol!NoTxn, NoWrites
  <1>8. ProtocolCommits = {}
    <2>1. CommitsIn(lg) = {}
      BY <1>3, <1>6, CommitsAre
    <2> QED
      BY <1>5, <2>1 DEF ProtocolCommits
  <1>9. ProtocolJsb = Protocol!CleanAt(FirstSeq)
    <2>1. disk[LogAddr(0)].seq = FirstSeq /\ disk[LogAddr(0)].start = 0
      BY <1>2 DEF JournalSb
    <2>2. Unwrapped(FirstSeq) = FirstSeq
      BY JournalBounds, LogGeometry DEF Unwrapped
    <2> QED
      BY <2>1, <2>2 DEF ProtocolJsb, Protocol!CleanAt
  <1>10. ProtocolPc = "idle"
    BY <1>1 DEF ProtocolPc
  <1>11. ProtocolTxn = Protocol!NoTxn
    BY <1>10, Carried
  <1> QED
    BY <1>4, <1>7, <1>8, <1>9, <1>10, <1>11 DEF Protocol!Init

LEMMA NextFollows ==
    ASSUME MaxTxns < SeqWrap, Freed \cap Home = {}, IInv, [Next]_vars
    PROVE  [Protocol!Next]_(Protocol!vars)
  <1>1. CASE Operation
    <2>1. CASE Begin
      BY <2>1, BeginFollows DEF Protocol!Next
    <2>2. ASSUME NEW b \in Home, NEW image \in Image, Stage(b, image) PROVE Protocol!Next
      BY <2>2, StageFollows DEF Protocol!Next
    <2>3. ASSUME NEW b \in Freed, RevokeBlock(b) PROVE UNCHANGED Protocol!vars
      BY <2>3, RevokeUnseen
    <2> QED
      BY <1>1, <2>1, <2>2, <2>3 DEF Operation
  <1>2. CASE Finish
    <2>1. PICK ok \in BOOLEAN : End(ok)
      BY <1>2 DEF Finish
    <2> QED
      BY <2>1, EndFollows DEF Protocol!Next
  <1>3. CASE Engine
    <2>1. CASE Replay
      BY <2>1, ReplayFollows DEF Protocol!Next
    <2>2. CASE Flush
      BY <2>2, FlushFollows
    <2> QED
      BY <1>3, <2>1, <2>2, WritesUnseen DEF Engine
  <1>4. CASE Fail
    BY <1>4, CrashFollows DEF Protocol!Next
  <1>5. CASE UNCHANGED vars
    <2>1. disk' = disk /\ txn' = txn /\ pc' = pc /\ depth' = depth
      BY <1>5 DEF vars
    <2>2. ProtocolPc' = ProtocolPc
      BY <2>1 DEF ProtocolPc
    <2> QED
      BY <2>1, <2>2, SameDisk, Unseen
  <1> QED
    BY <1>1, <1>2, <1>3, <1>4, <1>5 DEF Next

\* Block by block and write by write, the engine follows the commit protocol: what a flush
\* makes durable is what the protocol's step does, and what a crash leaves of it is among
\* what the protocol's crash may leave (mod.rs:300 commit_with_crash, mod.rs:558 recover).
THEOREM ImplementsProtocol ==
    ASSUME MaxTxns < SeqWrap, Freed \cap Home = {}
    PROVE  Spec => ProtocolFollowed
  <1>1. Init => Protocol!Init
    BY InitFollows
  <1>2. IInv /\ [Next]_vars => [Protocol!Next]_(Protocol!vars)
    BY NextFollows
  <1>3. Spec => []IInv
    BY Invariance
  <1> QED
    BY <1>1, <1>2, <1>3, PTL DEF Spec, ProtocolFollowed, Protocol!Spec

-----------------------------------------------------------------------------
(* The transactional store. *)

\* What is proved of the protocol, of the engine's view of itself.
Proved == INSTANCE JournalProtocolProofs WITH
    Block <- Home, Value <- Image, Start <- [b \in Home |-> InitImage], None <- Unwritten,
    MaxSeq <- FirstSeq + MaxTxns,
    home <- ProtocolHome, body <- ProtocolBody, commits <- ProtocolCommits, jsb <- ProtocolJsb,
    txn <- ProtocolTxn, pc <- ProtocolPc

LEMMA ConstantsOfProtocol == Proved!ProtocolConstants
  <1>1. [b \in Home |-> InitImage] \in [Home -> Image]
    BY JournalBounds
  <1>2. SbBlock \in Home /\ FirstSeq \in Nat /\ FirstSeq + MaxTxns \in Nat
    BY HomeIs, JournalBounds, LogGeometry
  <1>3. Unwritten \notin Image /\ Torn \notin Image /\ Unwritten # Torn
    BY ImagesAre
  <1> QED
    BY <1>1, <1>2, <1>3 DEF Proved!ProtocolConstants

\* The protocol's invariant, and its steps as the store's.
LEMMA ProtocolInit ==
    ASSUME Init
    PROVE  Proved!Inv /\ Proved!Store!SInit
  <1>1. Protocol!Init
    BY InitFollows
  <1>2. Proved!Init
    BY <1>1 DEF Protocol!Init, Proved!Init, Protocol!NoTxn, Proved!NoTxn, Protocol!CleanAt, Proved!CleanAt
  <1>3. Proved!Init => Proved!Inv
    BY ConstantsOfProtocol, Proved!InitInv DEF Proved!ProtocolConstants
  <1>4. Proved!Init => Proved!Store!SInit
    BY ConstantsOfProtocol, Proved!StoreInit DEF Proved!ProtocolConstants
  <1> QED
    BY <1>2, <1>3, <1>4

\* The protocol the engine follows is the one the facts are about.
LEMMA SameProtocol ==
    ASSUME [Protocol!Next]_(Protocol!vars)
    PROVE  [Proved!Next]_(Proved!vars)
  <1>1. CASE UNCHANGED Protocol!vars
    BY <1>1 DEF Protocol!vars, Proved!vars
  <1>2. CASE Protocol!Begin \/ Protocol!Discard \/ Protocol!Submit
    BY <1>2 DEF Protocol!Begin, Protocol!Discard, Protocol!Submit, Protocol!NoTxn,
       Proved!Begin, Proved!Discard, Proved!Submit, Proved!NoTxn, Proved!Next
  <1>3. ASSUME NEW b \in Home, NEW v \in Image, Protocol!Stage(b, v) PROVE Proved!Next
    <2>1. Proved!Stage(b, v)
      BY <1>3 DEF Protocol!Stage, Proved!Stage
    <2> QED
      BY <2>1 DEF Proved!Next
  <1>4. CASE Protocol!LogBody \/ Protocol!MarkActive \/ Protocol!WriteCommit
    BY <1>4 DEF Protocol!LogBody, Protocol!MarkActive, Protocol!WriteCommit, Protocol!Dirty,
       Proved!LogBody, Proved!MarkActive, Proved!WriteCommit, Proved!Dirty, Proved!Next
  <1>5. CASE Protocol!Checkpoint
    BY <1>5 DEF Protocol!Checkpoint, Protocol!Over, Proved!Checkpoint, Proved!Over, Proved!Next
  <1>6. CASE Protocol!MarkClean
    BY <1>6 DEF Protocol!MarkClean, Protocol!CleanAt, Protocol!NoTxn,
       Proved!MarkClean, Proved!CleanAt, Proved!NoTxn, Proved!Next
  <1>7. CASE Protocol!Scan
    BY <1>7 DEF Protocol!Scan, Protocol!Replayable, Proved!Scan, Proved!Replayable, Proved!Next
  <1>8. CASE Protocol!Replay
    BY <1>8 DEF Protocol!Replay, Protocol!Over, Proved!Replay, Proved!Over, Proved!Next
  <1>9. CASE Protocol!ClearJournal
    BY <1>9 DEF Protocol!ClearJournal, Protocol!CleanAt, Proved!ClearJournal, Proved!CleanAt, Proved!Next
  <1>10. CASE Protocol!Crash
    <2>1. Protocol!Lost => Proved!Lost
      BY DEF Protocol!Lost, Proved!Lost, Protocol!NoTxn, Proved!NoTxn
    <2>2. ASSUME NEW w, Protocol!CrashAtHome(w) PROVE Proved!CrashAtHome(w)
      BY <2>1, <2>2 DEF Protocol!CrashAtHome, Proved!CrashAtHome
    <2>3. Protocol!CrashInBody => Proved!CrashInBody
      BY <2>1 DEF Protocol!CrashInBody, Proved!CrashInBody, Protocol!Writes, Proved!Writes
    <2>4. Protocol!CrashInCommit => Proved!CrashInCommit
      BY <2>1 DEF Protocol!CrashInCommit, Proved!CrashInCommit
    <2>5. Protocol!CrashInCheckpoint => Proved!CrashInCheckpoint
      BY <2>2 DEF Protocol!CrashInCheckpoint, Proved!CrashInCheckpoint
    <2>6. Protocol!CrashInReplay => Proved!CrashInReplay
      BY <2>2 DEF Protocol!CrashInReplay, Proved!CrashInReplay
    <2>7. Protocol!CrashAtJsb => Proved!CrashAtJsb
      BY <2>1 DEF Protocol!CrashAtJsb, Proved!CrashAtJsb, Protocol!Dirty, Proved!Dirty,
         Protocol!CleanAt, Proved!CleanAt
    <2>8. Protocol!CrashElsewhere => Proved!CrashElsewhere
      BY <2>1 DEF Protocol!CrashElsewhere, Proved!CrashElsewhere
    <2>9. Proved!Crash
      BY <1>10, <2>3, <2>4, <2>5, <2>6, <2>7, <2>8 DEF Protocol!Crash, Proved!Crash
    <2> QED
      BY <2>9 DEF Proved!Next
  <1> QED
    BY <1>1, <1>2, <1>3, <1>4, <1>5, <1>6, <1>7, <1>8, <1>9, <1>10 DEF Protocol!Next

LEMMA ProtocolNext ==
    ASSUME MaxTxns < SeqWrap, Freed \cap Home = {}, IInv, Proved!Inv, [Next]_vars
    PROVE  Proved!Inv' /\ [Proved!Store!SNext]_(Proved!Store!svars)
  <1>1. [Proved!Next]_(Proved!vars)
    BY NextFollows, SameProtocol
  <1>2. Proved!Inv /\ [Proved!Next]_(Proved!vars) => Proved!Inv'
    BY ConstantsOfProtocol, Proved!StepInv DEF Proved!ProtocolConstants
  <1>3. Proved!Inv /\ Proved!Inv' /\ [Proved!Next]_(Proved!vars)
            => [Proved!Store!SNext]_(Proved!Store!svars)
    BY ConstantsOfProtocol, Proved!StoreNext DEF Proved!ProtocolConstants
  <1> QED
    BY <1>1, <1>2, <1>3

\* No block is staged when no transaction is open or being committed.
Settled == pc \in {"off"} \cup Replaying \/ (pc = "running" /\ depth = 0) => txn.blocks = Empty

LEMMA SettledInit == Init => Settled
  BY DEF Init, Idle, Settled

LEMMA SettledNext ==
    ASSUME IInv, Settled, [Next]_vars
    PROVE  Settled'
  <1>1. depth \in Nat
    BY JournalBounds DEF IInv, Phases
  <1>2. CASE Operation
    <2>1. pc' = "running" /\ depth' > 0
      <3>1. CASE Begin
        BY <1>1, <3>1 DEF Begin
      <3>2. CASE ~Begin
        BY <1>1, <1>2, <3>2 DEF Operation, Stage, RevokeBlock
      <3> QED
        BY <3>1, <3>2
    <2> QED
      BY <2>1 DEF Settled, Replaying
  <1>3. CASE Finish
    <2>1. PICK ok \in BOOLEAN : End(ok)
      BY <1>3 DEF Finish
    <2>2. \/ pc' = "running" /\ depth' > 0
          \/ pc' = "write_body"
          \/ txn' = Idle
      BY <1>1, <2>1 DEF End
    <2> QED
      BY <2>2 DEF Settled, Replaying, Idle
  <1>4. CASE Engine
    <2>1. CASE WriteBody \/ MarkActive \/ WriteCommit \/ SetRecover \/ Checkpoint \/ MarkClean \/ ClearRecover
      BY <2>1 DEF WriteBody, MarkActive, WriteCommit, SetRecover, Checkpoint, MarkClean, ClearRecover, Step,
         Settled, Replaying
    <2>2. CASE ClearJournal
      BY <2>2 DEF ClearJournal, Step, Settled, Replaying
    <2>3. CASE Replay
      BY <2>3 DEF Replay, Settled, Replaying
    <2>4. CASE Flush
      <3>1. pc \in DOMAIN AfterFlush /\ pc' = AfterFlush[pc]
            /\ txn' = IF pc = "flush_done" THEN Idle ELSE txn
        BY <2>4 DEF Flush
      <3>2. CASE pc = "flush_done"
        BY <3>1, <3>2 DEF Settled, Idle
      <3>3. CASE pc \in {"flush_replay", "flush_clear"}
        BY <3>1, <3>3 DEF Settled, Replaying
      <3>4. CASE pc \notin {"flush_done", "flush_replay", "flush_clear"}
        BY <3>1, <3>4 DEF AfterFlush, Settled, Replaying
      <3> QED
        BY <3>2, <3>3, <3>4
    <2> QED
      BY <1>4, <2>1, <2>2, <2>3, <2>4 DEF Engine
  <1>5. CASE Fail
    BY <1>5 DEF Fail, Crash, Settled, Idle
  <1>6. CASE UNCHANGED vars
    BY <1>6 DEF vars, Settled
  <1> QED
    BY <1>2, <1>3, <1>4, <1>5, <1>6 DEF Next

\* What recovery would leave is what it would leave in the protocol.
LEMMA RecoveredIs ==
    ASSUME MaxTxns < SeqWrap, Freed \cap Home = {}, IInv
    PROVE  Recovered = Proved!Recovered
  <1> DEFINE After(w) == [b \in Home |-> ImageOf(IF b \in DOMAIN w THEN w[b] ELSE disk[HomeAddr(b)])]
             Writes(txns) == HomeWrites(DiskLog, txns)
  <1>1. \A x : Eager(After, x) = After(x)
    BY DEF Eager
  <1>2. \A x : Eager(Writes, x) = Writes(x)
    BY DEF Eager
  <1>3. Recovered = Eager(After, Eager(Writes, Committed))
    BY DEF Recovered
  <1>4. PICK h : h = HomeWrites(DiskLog, Committed)
    OBVIOUS
  <1>5. Recovered = After(h)
    <2>1. Writes(Committed) = h
      BY <1>4
    <2> HIDE DEF After, Writes
    <2> QED
      BY <1>1, <1>2, <1>3, <2>1
  <1>6. DiskType
    BY DEF IInv
  <1>7. /\ ProtocolHome = [b \in Home |-> ProtocolHome[b]]
        /\ \A b \in Home : ProtocolHome[b] = ImageOf(disk[HomeAddr(b)])
    BY DEF ProtocolHome
  <1>8. Proved!Replayable <=> HasCommit
    BY Replays DEF Protocol!Replayable, Proved!Replayable
  <1>9. CASE HasCommit
    <2>1. PICK t : IsReady(t) /\ Logged(t) /\ Committed = <<FoundIn(t)>>
      BY <1>9, TheSealed
    <2>2. InLog(DiskLog, t)
      BY <1>6, <2>1, LoggedInLog
    <2>3. PICK f : f = t.blocks
      OBVIOUS
    <2>4. /\ DOMAIN t.blocks \ t.revokes = DOMAIN f
          /\ \A b \in DOMAIN f : b \in Home => f[b] \in HomeType(b)
      BY <2>1, <2>3 DEF IsReady, IsTxn
    <2>5. h = [b \in DOMAIN f |-> f[b]]
      <3>1. PICK found, w : found = <<FoundIn(t)>> /\ w = HomeWrites(DiskLog, found)
        OBVIOUS
      <3>2. w = [b \in DOMAIN t.blocks \ t.revokes |-> t.blocks[b]]
        BY <2>1, <2>2, <3>1, WritesAre
      <3>3. h = w
        BY <1>4, <2>1, <3>1
      <3> QED
        BY <2>3, <2>4, <3>2, <3>3
    <2>6. ProtocolBody.writes = ImagesOf(f)
      BY <2>1, <2>3, LoggedBody DEF Logged
    <2>7. \A b \in Home : /\ ImagesOf(f)[b] = IF b \in DOMAIN f THEN ImageOf(f[b]) ELSE Unwritten
                          /\ ImagesOf(f)[b] # Unwritten <=> b \in DOMAIN f
      BY <2>4, WritesOf
    <2>8. \A b \in Home : After(h)[b] = IF ImagesOf(f)[b] = Unwritten THEN ProtocolHome[b] ELSE ImagesOf(f)[b]
      BY <1>7, <2>5, <2>7
    <2>9. After(h) = Proved!Over(ProtocolHome, ImagesOf(f))
      BY <2>8 DEF Proved!Over
    <2> QED
      BY <1>5, <1>8, <1>9, <2>6, <2>9 DEF Proved!Recovered
  <1>10. CASE ~HasCommit
    <2>1. Committed = <<>>
      BY <1>10, Replays
    <2>2. DOMAIN h = {}
      <3>1. PICK lg, txns : lg = DiskLog /\ txns = Committed
        OBVIOUS
      <3>2. DOMAIN txns = {}
        BY <2>1, <3>1
      <3>3. DOMAIN HomeWrites(lg, txns) = {}
        BY <3>2 DEF HomeWrites
      <3> QED
        BY <1>4, <3>1, <3>3
    <2>3. \A b \in Home : After(h)[b] = ProtocolHome[b]
      BY <1>7, <2>2
    <2>4. After(h) = ProtocolHome
      BY <1>7, <2>3
    <2> QED
      BY <1>5, <1>8, <1>10, <2>4 DEF Proved!Recovered
  <1> QED
    BY <1>9, <1>10

\* What the running operation reads is what the protocol has it read.
LEMMA ReadsAre ==
    ASSUME IInv, pc = "running" \/ Committing, NEW b \in Home
    PROVE  ImageOf(ReadBlock(b)) = IF ImagesOf(txn.blocks)[b] = Unwritten THEN ProtocolHome[b]
                                   ELSE ImagesOf(txn.blocks)[b]
  <1>1. Visible(HomeAddr(b)) = disk[HomeAddr(b)]
    <2>1. CASE pc \in {"running", "write_body", "mark_active", "write_commit"}
      BY <2>1, Quiet
    <2>2. CASE pc = "flush_body"
      <3>1. PICK S : DOMAIN cache = {LogAddr(s) : s \in S}
        BY <2>2 DEF IInv, Unflushed, LogWrites
      <3>2. HomeAddr(b) \notin DOMAIN cache
        BY <3>1 DEF LogAddr, HomeAddr
      <3> QED
        BY <3>2 DEF Visible
    <2>3. CASE pc = "flush_active"
      <3>1. PICK S : DOMAIN cache = {LogAddr(s) : s \in S}
        BY <2>3 DEF IInv, Unflushed, JsbWrite, LogWrites
      <3>2. HomeAddr(b) \notin DOMAIN cache
        BY <3>1 DEF LogAddr, HomeAddr
      <3> QED
        BY <3>2 DEF Visible
    <2>4. CASE pc = "flush_commit"
      <3>1. PICK S : DOMAIN cache = {LogAddr(s) : s \in S}
        BY <2>4 DEF IInv, Unflushed, LogWrites
      <3>2. HomeAddr(b) \notin DOMAIN cache
        BY <3>1 DEF LogAddr, HomeAddr
      <3> QED
        BY <3>2 DEF Visible
    <2> QED
      BY <2>1, <2>2, <2>3, <2>4 DEF Committing
  <1>2. PICK f : f = txn.blocks
    OBVIOUS
  <1>3. \A x \in DOMAIN f : x \in Home => f[x] \in HomeType(x)
    BY <1>2 DEF IInv, Phases, IsTxn
  <1>4. /\ ImagesOf(f)[b] = IF b \in DOMAIN f THEN ImageOf(f[b]) ELSE Unwritten
        /\ ImagesOf(f)[b] # Unwritten <=> b \in DOMAIN f
    BY <1>3, WritesOf
  <1>5. ProtocolHome[b] = ImageOf(disk[HomeAddr(b)])
    BY DEF ProtocolHome
  <1>6. ReadBlock(b) = IF b \in DOMAIN f THEN f[b] ELSE disk[HomeAddr(b)]
    BY <1>1, <1>2 DEF ReadBlock
  <1> QED
    BY <1>2, <1>4, <1>5, <1>6

\* A commit that is durable and clean, and only its RECOVER flag is left to clear:
\* the engine has not returned, the protocol has.
Acked == pc \in Ending /\ txn.blocks # Empty

\* The store that the engine implements and the one that its protocol does.
SameStore ==
    /\ Recovered = Proved!Recovered
    /\ AbstractView = Proved!AbstractView
    /\ AbstractPhase = IF Acked THEN "applied" ELSE Proved!AbstractPhase
    /\ Acked => Proved!AbstractPhase = "idle" /\ Proved!AbstractView = Proved!Recovered

LEMMA ViewIs ==
    ASSUME MaxTxns < SeqWrap, Freed \cap Home = {}, IInv, Settled
    PROVE  AbstractView = Proved!AbstractView
  <1>1. Recovered = Proved!Recovered
    BY RecoveredIs
  <1>2. ASSUME pc = "running" \/ Committing
        PROVE  AbstractView = Proved!Over(ProtocolHome, ImagesOf(txn.blocks))
    <2>1. AbstractView = [b \in Home |-> ImageOf(ReadBlock(b))]
      BY <1>2 DEF AbstractView
    <2>2. \A b \in Home : ImageOf(ReadBlock(b)) = IF ImagesOf(txn.blocks)[b] = Unwritten THEN ProtocolHome[b]
                                                  ELSE ImagesOf(txn.blocks)[b]
      BY <1>2, ReadsAre
    <2> QED
      BY <2>1, <2>2 DEF Proved!Over
  <1>3. depth \in Nat /\ (depth > 0 => pc = "running")
    BY JournalBounds DEF IInv, Phases
  <1>4. CASE (pc = "running" /\ depth > 0) \/ Committing
    <2>1. ProtocolPc \in {"open", "body", "active", "commit"}
      <3>1. CASE pc = "running" /\ depth > 0
        BY <3>1 DEF ProtocolPc
      <3>2. CASE pc \in {"write_body", "flush_body"}
        BY <3>2 DEF ProtocolPc
      <3>3. CASE pc \in {"mark_active", "flush_active"}
        BY <3>3 DEF ProtocolPc
      <3>4. CASE pc \in {"write_commit", "flush_commit"}
        BY <3>4 DEF ProtocolPc
      <3> QED
        BY <1>4, <3>1, <3>2, <3>3, <3>4 DEF Committing
    <2>2. ProtocolTxn = View(txn)
      BY <2>1, Carried
    <2>3. ProtocolTxn.writes = ImagesOf(txn.blocks)
      BY <2>2 DEF View
    <2> QED
      BY <1>2, <1>4, <2>1, <2>3 DEF Proved!AbstractView
  <1>5. CASE pc = "running" /\ ~(depth > 0)
    <2>1. ProtocolPc = "idle"
      BY <1>5 DEF ProtocolPc
    <2>2. depth = 0
      BY <1>3, <1>5
    <2>3. txn.blocks = Empty
      BY <1>5, <2>2 DEF Settled
    <2>4. PICK f : f = txn.blocks
      OBVIOUS
    <2>5. DOMAIN f = {}
      BY <2>3, <2>4 DEF Empty
    <2>6. \A b \in Home : ImagesOf(f)[b] = Unwritten
      BY <2>5 DEF ImagesOf
    <2>7. Proved!Over(ProtocolHome, ImagesOf(f)) = [b \in Home |-> ProtocolHome[b]]
      BY <2>6 DEF Proved!Over
    <2>8. ProtocolHome = [b \in Home |-> ProtocolHome[b]]
      BY DEF ProtocolHome
    <2>9. ~HasCommit
      BY <1>5 DEF IInv, Phases
    <2>10. ~Proved!Replayable
      BY <2>9, Replays DEF Protocol!Replayable, Proved!Replayable
    <2>11. Proved!AbstractView = ProtocolHome
      BY <2>1, <2>10 DEF Proved!AbstractView, Proved!Recovered
    <2> QED
      BY <1>2, <1>5, <2>4, <2>7, <2>8, <2>11
  <1>6. CASE pc # "running" /\ ~Committing
    <2>1. AbstractView = Recovered
      BY <1>6 DEF AbstractView
    <2>2. ProtocolPc \notin {"open", "body", "active", "commit"}
      <3>1. CASE pc \in Flagging \cup Applying
        BY <3>1 DEF ProtocolPc, Flagging, Applying
      <3>2. CASE pc \in Replaying
        BY <3>2 DEF ProtocolPc, Replaying
      <3>3. CASE pc \in Ending
        BY <3>3 DEF ProtocolPc, Ending
      <3>4. CASE pc = "off"
        BY <3>4 DEF ProtocolPc
      <3> QED
        BY <1>6, <3>1, <3>2, <3>3, <3>4 DEF IInv, Phases, Pipeline, Committing, Preparing, Activating, Sealing
    <2> QED
      BY <1>1, <2>1, <2>2 DEF Proved!AbstractView
  <1> QED
    BY <1>4, <1>5, <1>6

LEMMA PhaseIs ==
    ASSUME IInv, Settled
    PROVE  /\ AbstractPhase = IF Acked THEN "applied" ELSE Proved!AbstractPhase
           /\ Acked => ProtocolPc = "idle"
  <1>1. depth \in Nat /\ (depth > 0 => pc = "running")
    BY JournalBounds DEF IInv, Phases
  <1>2. pc \in Pipeline => txn.blocks # Empty
    <2> SUFFICES ASSUME pc \in Pipeline PROVE txn.blocks # Empty
      OBVIOUS
    <2>1. SbBlock \in DOMAIN txn.blocks
      BY DEF IInv, Phases, IsReady
    <2> QED
      BY <2>1 DEF Empty
  <1>3. CASE pc = "running" /\ depth > 0
    <2>1. ProtocolPc = "open"
      BY <1>3 DEF ProtocolPc
    <2> QED
      BY <1>3, <2>1 DEF AbstractPhase, Proved!AbstractPhase, Acked, Ending
  <1>4. CASE pc = "running" /\ ~(depth > 0)
    <2>1. ProtocolPc = "idle"
      BY <1>4 DEF ProtocolPc
    <2> QED
      BY <1>4, <2>1 DEF AbstractPhase, Proved!AbstractPhase, Acked, Ending, Committing, Applied
  <1>5. CASE Committing
    <2>1. ProtocolPc \in {"body", "active", "commit"}
      <3>1. CASE pc \in {"write_body", "flush_body"}
        BY <3>1 DEF ProtocolPc
      <3>2. CASE pc \in {"mark_active", "flush_active"}
        BY <3>2 DEF ProtocolPc
      <3>3. CASE pc \in {"write_commit", "flush_commit"}
        BY <3>3 DEF ProtocolPc
      <3> QED
        BY <1>5, <3>1, <3>2, <3>3 DEF Committing
    <2>2. ~Acked /\ pc # "running"
      BY <1>5 DEF Acked, Ending, Committing
    <2>3. Proved!AbstractPhase = "committing"
      BY <2>1 DEF Proved!AbstractPhase
    <2> QED
      BY <1>1, <1>5, <2>2, <2>3 DEF AbstractPhase
  <1>6. CASE pc \in Flagging \cup Applying
    <2>1. ProtocolPc \in {"checkpoint", "clean"}
      <3>1. CASE pc \in {"set_recover", "flush_recover", "checkpoint", "flush_checkpoint"}
        BY <3>1 DEF ProtocolPc
      <3>2. CASE pc \in {"mark_clean", "flush_clean"}
        BY <3>2 DEF ProtocolPc
      <3> QED
        BY <1>6, <3>1, <3>2 DEF Flagging, Applying
    <2>2. ~Acked /\ pc # "running" /\ ~Committing /\ txn.blocks # Empty
      BY <1>2, <1>6 DEF Acked, Ending, Committing, Flagging, Applying, Pipeline
    <2>3. Proved!AbstractPhase = "applied"
      BY <2>1 DEF Proved!AbstractPhase
    <2>4. depth = 0 /\ ~(depth > 0)
      BY <1>1, <2>2
    <2> QED
      BY <2>2, <2>3, <2>4 DEF AbstractPhase, Applied
  <1>7. CASE pc \in Replaying \cup {"off"}
    <2>1. ProtocolPc \in {"off", "replay", "clear"}
      <3>1. CASE pc = "off"
        BY <3>1 DEF ProtocolPc
      <3>2. CASE pc = "flush_replay"
        BY <3>2 DEF ProtocolPc
      <3>3. CASE pc \in {"clear_journal", "flush_clear"}
        BY <3>3 DEF ProtocolPc
      <3> QED
        BY <1>7, <3>1, <3>2, <3>3 DEF Replaying
    <2>2. ~Acked /\ pc # "running" /\ ~Committing /\ txn.blocks = Empty
      BY <1>7 DEF Acked, Ending, Committing, Replaying, Settled
    <2>3. Proved!AbstractPhase = "idle"
      BY <2>1 DEF Proved!AbstractPhase
    <2> QED
      BY <1>1, <2>2, <2>3 DEF AbstractPhase, Applied
  <1>8. CASE pc \in Ending
    <2>1. ProtocolPc = "idle"
      BY <1>8 DEF ProtocolPc, Ending
    <2>2. pc # "running" /\ ~Committing
      BY <1>8 DEF Ending, Committing
    <2>3. Proved!AbstractPhase = "idle"
      BY <2>1 DEF Proved!AbstractPhase
    <2>4. depth = 0 /\ ~(depth > 0)
      BY <1>1, <2>2
    <2> QED
      BY <1>8, <2>1, <2>2, <2>3, <2>4 DEF AbstractPhase, Applied, Acked
  <1> QED
    BY <1>3, <1>4, <1>5, <1>6, <1>7, <1>8 DEF IInv, Phases, Pipeline, Committing, Preparing, Activating, Sealing

LEMMA StoreIs ==
    ASSUME MaxTxns < SeqWrap, Freed \cap Home = {}, IInv, Settled
    PROVE  SameStore
  <1>1. Acked => ProtocolPc = "idle"
    BY PhaseIs
  <1>2. Acked => Proved!AbstractPhase = "idle" /\ Proved!AbstractView = Proved!Recovered
    BY <1>1 DEF Proved!AbstractPhase, Proved!AbstractView
  <1> QED
    BY <1>2, RecoveredIs, ViewIs, PhaseIs DEF SameStore

\* An acknowledgement comes from the last flush of a commit, and after it comes
\* no transaction before the engine has returned.
LEMMA AckedNext ==
    ASSUME IInv, Settled, [Next]_vars
    PROVE  /\ Acked' => Acked \/ pc = "flush_clean"
           /\ Acked => Proved!AbstractPhase' = "idle"
  <1>1. depth \in Nat /\ (depth > 0 => pc = "running")
    BY JournalBounds DEF IInv, Phases
  <1>2. CASE Operation \/ Finish
    <2>1. pc = "running" /\ pc' \in {"running", "write_body"}
      <3>1. CASE Operation
        BY <3>1 DEF Operation, Begin, Stage, RevokeBlock
      <3>2. CASE Finish
        <4>1. PICK ok \in BOOLEAN : End(ok)
          BY <3>2 DEF Finish
        <4> QED
          BY <4>1 DEF End
      <3> QED
        BY <1>2, <3>1, <3>2
    <2> QED
      BY <2>1 DEF Acked, Ending
  <1>3. CASE Engine
    <2>1. CASE WriteBody \/ MarkActive \/ WriteCommit \/ SetRecover \/ Checkpoint \/ MarkClean \/ ClearJournal \/ Replay
      <3>1. pc \notin Ending /\ pc' \notin Ending
        <4>1. CASE Replay
          BY <4>1 DEF Replay, Ending
        <4>2. CASE ~Replay
          BY <2>1, <4>2 DEF WriteBody, MarkActive, WriteCommit, SetRecover, Checkpoint, MarkClean, ClearJournal,
             Step, Ending
        <4> QED
          BY <4>1, <4>2
      <3> QED
        BY <3>1 DEF Acked
    <2>2. CASE ClearRecover
      <3>1. pc = "clear_recover" /\ pc' = "flush_done" /\ txn' = txn
        BY <2>2 DEF ClearRecover, Step
      <3>2. ProtocolPc' = "idle"
        BY <3>1 DEF ProtocolPc
      <3> QED
        BY <3>1, <3>2 DEF Acked, Ending, Proved!AbstractPhase
    <2>3. CASE Flush
      <3>1. /\ pc \in DOMAIN AfterFlush /\ pc' = AfterFlush[pc] /\ depth' = depth
            /\ txn' = IF pc = "flush_done" THEN Idle ELSE txn
        BY <2>3 DEF Flush
      <3>2. CASE pc = "flush_done"
        <4>1. pc' = "running" /\ ~(depth' > 0)
          BY <1>1, <3>1, <3>2 DEF AfterFlush
        <4>2. ProtocolPc' = "idle"
          BY <4>1 DEF ProtocolPc
        <4> QED
          BY <4>1, <4>2 DEF Acked, Ending, Proved!AbstractPhase
      <3>3. CASE pc = "flush_clear"
        <4>1. txn'.blocks = Empty
          BY <3>1, <3>3 DEF Settled, Replaying
        <4> QED
          BY <3>3, <4>1 DEF Acked, Ending
      <3>4. CASE pc \notin {"flush_done", "flush_clear", "flush_clean"}
        <4>1. pc \notin Ending /\ pc' \notin Ending
          BY <3>1, <3>4 DEF AfterFlush, Ending
        <4> QED
          BY <4>1 DEF Acked
      <3>5. CASE pc = "flush_clean"
        BY <3>5 DEF Acked, Ending
      <3> QED
        BY <3>2, <3>3, <3>4, <3>5
    <2> QED
      BY <1>3, <2>1, <2>2, <2>3 DEF Engine
  <1>4. CASE Fail
    <2>1. pc' = "off"
      BY <1>4 DEF Fail, Crash
    <2>2. ProtocolPc' = "off"
      BY <2>1 DEF ProtocolPc
    <2> QED
      BY <2>1, <2>2 DEF Acked, Ending, Proved!AbstractPhase
  <1>5. CASE UNCHANGED vars
    <2>1. UNCHANGED <<pc, depth>> /\ txn' = txn
      BY <1>5 DEF vars
    <2>2. ProtocolPc' = ProtocolPc
      BY <2>1 DEF ProtocolPc
    <2>3. Acked => ProtocolPc = "idle"
      BY PhaseIs
    <2> QED
      BY <2>1, <2>2, <2>3 DEF Acked, Proved!AbstractPhase
  <1> QED
    BY <1>2, <1>3, <1>4, <1>5 DEF Next

\* A step of the store over equal stores is a step of the other one.
LEMMA StoreStep ==
    ASSUME Proved!Inv, SameStore, SameStore', [Proved!Store!SNext]_(Proved!Store!svars),
           Acked' => Acked \/ Proved!AbstractPhase = "applied",
           Acked => Proved!AbstractPhase' = "idle"
    PROVE  [Store!SNext]_(Store!svars)
  <1>1. PICK st, vw, ph : st = Proved!Recovered /\ vw = Proved!AbstractView /\ ph = Proved!AbstractPhase
    OBVIOUS
  <1>2. PICK st2, vw2, ph2 : st2 = Proved!Recovered' /\ vw2 = Proved!AbstractView' /\ ph2 = Proved!AbstractPhase'
    OBVIOUS
  <1>3. Recovered = st /\ AbstractView = vw /\ Recovered' = st2 /\ AbstractView' = vw2
    BY <1>1, <1>2 DEF SameStore
  <1>4. /\ AbstractPhase = IF Acked THEN "applied" ELSE ph
        /\ AbstractPhase' = IF Acked' THEN "applied" ELSE ph2
        /\ Acked => ph = "idle" /\ vw = st
        /\ Acked' => ph2 = "idle" /\ vw2 = st2
    BY <1>1, <1>2 DEF SameStore
  <1>5. /\ Acked' => Acked \/ ph = "applied"
        /\ Acked => ph2 = "idle"
    BY <1>1, <1>2
  <1>6. \/ ph = "idle" /\ ph2 = "open" /\ st2 = st /\ vw2 = vw
        \/ ph = "open" /\ ph2 = "idle" /\ vw2 = st /\ st2 = st
        \/ ph = "open" /\ ph2 = "committing" /\ st2 = st /\ vw2 = vw
        \/ ph = "committing" /\ ph2 = "applied" /\ st2 = vw /\ vw2 = vw
        \/ ph = "applied" /\ ph2 = "idle" /\ st2 = st /\ vw2 = vw
        \/ (st2 = st \/ (ph = "committing" /\ st2 = vw)) /\ vw2 = st2 /\ ph2 = "idle"
        \/ \E b \in Home, v \in Image : ph = "open" /\ vw2 = [vw EXCEPT ![b] = v] /\ st2 = st /\ ph2 = ph
        \/ st2 = st /\ vw2 = vw /\ ph2 = ph
    BY <1>1, <1>2 DEF Proved!Store!SNext, Proved!Store!svars, Proved!Store!Open, Proved!Store!Abort,
       Proved!Store!Submit, Proved!Store!Apply, Proved!Store!Acknowledge, Proved!Store!Crash, Proved!Store!Put
  <1>7. CASE ~Acked /\ ~Acked'
    <2>1. AbstractPhase = ph /\ AbstractPhase' = ph2
      BY <1>4, <1>7
    <2> QED
      BY <1>3, <1>6, <2>1 DEF Store!SNext, Store!svars, Store!Open, Store!Abort, Store!Submit, Store!Apply,
         Store!Acknowledge, Store!Crash, Store!Put
  <1>8. CASE Acked'
    <2>1. AbstractPhase = "applied" /\ AbstractPhase' = "applied"
      BY <1>4, <1>5, <1>8
    <2>2. ph = "applied" => vw = st
      BY <1>1 DEF Proved!AbstractPhase, Proved!AbstractView
    <2>3. st2 = st /\ vw2 = st /\ vw = st
      BY <1>4, <1>5, <1>6, <1>8, <2>2
    <2> QED
      BY <1>3, <2>1, <2>3 DEF Store!svars
  <1>9. CASE Acked /\ ~Acked'
    <2>1. AbstractPhase' = "idle" /\ st2 = st /\ vw2 = st2
      BY <1>4, <1>5, <1>6, <1>9
    <2> QED
      BY <1>3, <2>1 DEF Store!SNext, Store!Crash
  <1> QED
    BY <1>7, <1>8, <1>9

\* The engine implements the transactional store: whatever the crash, recovery
\* leaves all of a transaction or none of it, every acknowledged one and no
\* aborted one, and operations read the committed state and their own writes
\* (mod.rs:300 commit_with_crash, mod.rs:558 recover, device.rs:52 begin/end),
\* for every set of blocks and images, log, transaction and crash, under the
\* hypotheses of ImplementsProtocol.
THEOREM ImplementsStore ==
    ASSUME MaxTxns < SeqWrap, Freed \cap Home = {}
    PROVE  Spec => StoreImplemented
  <1>1. Init => Settled /\ Proved!Inv
    BY SettledInit, ProtocolInit
  <1>2. ASSUME Init PROVE Store!SInit
    <2>1. SameStore /\ pc = "running"
      BY <1>1, <1>2, InitInv, StoreIs DEF Init
    <2>2. Proved!Store!SInit /\ ~Acked
      BY <1>2, <2>1, ProtocolInit DEF Acked, Ending
    <2> QED
      BY <2>1, <2>2 DEF SameStore, Store!SInit, Proved!Store!SInit
  <1>3. ASSUME IInv, Settled, [Next]_vars PROVE Settled'
    BY <1>3, SettledNext
  <1>4. ASSUME IInv, Proved!Inv, [Next]_vars PROVE Proved!Inv'
    BY <1>4, ProtocolNext
  <1>5. IInv /\ Settled => SameStore
    BY StoreIs
  <1>6. ASSUME IInv, Settled, Proved!Inv, SameStore, SameStore', [Next]_vars
        PROVE  [Store!SNext]_(Store!svars)
    <2>1. [Proved!Store!SNext]_(Proved!Store!svars)
      BY <1>6, ProtocolNext
    <2>2. /\ Acked' => Acked \/ pc = "flush_clean"
          /\ Acked => Proved!AbstractPhase' = "idle"
      BY <1>6, AckedNext
    <2>3. pc = "flush_clean" => Proved!AbstractPhase = "applied"
      BY DEF ProtocolPc, Proved!AbstractPhase
    <2> QED
      BY <1>6, <2>1, <2>2, <2>3, StoreStep
  <1>7. Spec => []IInv
    BY Invariance
  <1> QED
    BY <1>1, <1>2, <1>3, <1>4, <1>5, <1>6, <1>7, PTL DEF Spec, StoreImplemented, Store!SSpec

=============================================================================
