----------------------------- MODULE ExtentTree -----------------------------
(***************************************************************************)
(* The extent tree of one inode (ext4_impls/extents.rs and the node types  *)
(* of ext4_defs/extents.rs): search, insertion with splits and growth, and *)
(* removal, as operators on a record of everything an operation reads and  *)
(* writes:                                                                 *)
(*                                                                         *)
(*   mem   the inode of the caller's Ext4InodeRef: size in blocks, root    *)
(*   ino   the inode on disk, a copy of mem at the last write_back_inode   *)
(*   node  the content of the blocks, as the code reads them for nodes     *)
(*   used  the blocks of the pool that are allocated                       *)
(*   err   "" or the error the operation returns                           *)
(*   end   the block a write got to                                        *)
(*                                                                         *)
(* A node is [depth, n, ents]: n is the header's entries_count, ents the   *)
(* slots, of which a removal may leave more than n.  Extents and indexes   *)
(* are both 12-byte slots, here [lb, cnt, pb]; an index has cnt = 0.  The  *)
(* count of an extent is the encoded block_count, with the unwritten mark. *)
(* Block numbers of the pool are positive; 0 stands for the inode body, as *)
(* pblock_of_node does.  Positions are 1-based.                            *)
(***************************************************************************)
EXTENDS Integers, Sequences, FiniteSets, SequencesExt, FiniteSetsExt

CONSTANTS
    RootMax,     \* entries of the root, 4
    NodeMax,     \* entries of a node block, (block size - 12) / 12
    InitMax,     \* EXT_INIT_MAX_LEN, 32768
    MaxBlocks,   \* EXT_MAX_BLOCKS, above every logical block
    Pool,        \* the blocks the allocator can give this file
    LoopBound    \* passes of extent_remove_space's loop that are followed

\* The code tells a leaf block from a root by its larger capacity, and adds
\* an entry to a node just filled from a full root.
ASSUME ExtentTreeAssumption ==
    /\ RootMax \in Nat \ {0} /\ NodeMax \in Nat /\ NodeMax > RootMax
    /\ InitMax \in Nat /\ InitMax > 1
    /\ MaxBlocks \in Nat /\ LoopBound \in Nat
    /\ Pool \subseteq Nat \ {0} /\ IsFiniteSet(Pool)

Zero  == [lb |-> 0, cnt |-> 0, pb |-> 0]
Empty == [depth |-> 0, n |-> 0, ents |-> <<>>]

Full(depth, ents) == [depth |-> depth, n |-> Len(ents), ents |-> ents]
Visible(nd)       == SubSeq(nd.ents, 1, nd.n)

-----------------------------------------------------------------------------
(* Extents *)

Unwritten(x) == x.cnt > InitMax
ActualLen(x) == IF Unwritten(x) THEN x.cnt - InitMax ELSE x.cnt
EndOf(x)     == x.lb + ActualLen(x)          \* the first block past it
Covers(x, l) == x.lb <= l /\ l < EndOf(x)

\* block_count |= EXT_INIT_MAX_LEN, a power of two that bounds every length.
Encoded(len, unwritten) == IF unwritten /\ len < InitMax THEN len + InitMax ELSE len

Extent(lb, len, unwritten, pb) == [lb |-> lb, cnt |-> Encoded(len, unwritten), pb |-> pb]
Index(lb, pb)                  == [lb |-> lb, cnt |-> 0, pb |-> pb]

CanMerge(x, y) ==
    /\ Unwritten(x) = Unwritten(y)
    /\ EndOf(x) = y.lb
    /\ ActualLen(x) + ActualLen(y) <= InitMax
    /\ x.pb + ActualLen(x) = y.pb

Merged(x, y) == Extent(x.lb, ActualLen(x) + ActualLen(y), Unwritten(x), x.pb)

-----------------------------------------------------------------------------
(* Searching *)

NodeAt(s, b) == IF b = 0 THEN s.mem.root ELSE s.node[b]

\* The binary search over the keys of a node, from its second slot on.
Nearest(nd, l) ==
    LET f[r \in (1 .. nd.n + 1) \X (0 .. nd.n)] ==
          LET lo == r[1]
              hi == r[2]
              m  == lo + (hi - lo) \div 2
          IN  IF lo > hi THEN lo - 1
              ELSE IF l < nd.ents[m].lb THEN f[<<lo, m - 1>>] ELSE f[<<m + 1, hi>>]
    IN  IF nd.n < 2 THEN 1 ELSE f[<<2, nd.n>>]

Frame(b, nd, l) ==
    [blk |-> b, n |-> nd.n, pos |-> Nearest(nd, l),
     at |-> IF nd.n = 0 THEN Zero ELSE nd.ents[Nearest(nd, l)]]

\* The frames from the root down to the leaf of block l.
PathTo(s, l) ==
    LET path[d \in 0 .. s.mem.root.depth] ==
          IF d = 0 THEN <<Frame(0, s.mem.root, l)>>
          ELSE LET child == Last(path[d - 1]).at.pb
               IN  Append(path[d - 1], Frame(child, NodeAt(s, child), l))
    IN  path[s.mem.root.depth]

\* find_extent fails with ENOENT at an index node without entries.
Found(p) == \A k \in 1 .. Len(p) - 1 : p[k].n > 0

\* get_pblock_state and get_pblock_idx: the physical block, 0 for a hole, and
\* the mark of the extent the search ends at, even if l lies past it.
StateAlong(p, l) ==
    LET x == Last(p).at IN
    IF ~Found(p) \/ Last(p).n = 0 THEN [pb |-> 0, unwritten |-> FALSE]
    ELSE [pb |-> IF Covers(x, l) THEN x.pb + (l - x.lb) ELSE 0, unwritten |-> Unwritten(x)]

State(s, l)    == StateAlong(PathTo(s, l), l)
IsMapped(s, l) == State(s, l).pb # 0

-----------------------------------------------------------------------------
(* What a tree holds *)

Slot == [lb : Nat, cnt : Nat, pb : Nat]

\* The nodes of a tree, level by level, 0 being the root.
Levels(s) ==
    LET at[d \in 0 .. s.mem.root.depth] ==
          IF d = 0 THEN {0}
          ELSE {x.pb : x \in UNION {ToSet(NodeAt(s, b).ents) : b \in at[d - 1]}}
    IN  at

\* Every extent of a tree, with its leaf and place.
Slots(s) ==
    UNION {LET ents == NodeAt(s, b).ents
           IN  {[leaf |-> b, at |-> j, x |-> ents[j]] : j \in DOMAIN ents}
           : b \in Levels(s)[s.mem.root.depth]}

\* The nodes level by level, each with the blocks of the file it is to hold:
\* those from its own key, or its parent's first block, to the next key.
Spans(s) ==
    LET Child(t, j) ==
          LET nd == NodeAt(s, t.blk)
          IN  [blk  |-> nd.ents[j].pb,
               from |-> IF j = 1 THEN t.from ELSE nd.ents[j].lb,
               to   |-> IF j = nd.n THEN t.to ELSE nd.ents[j + 1].lb]
        at[d \in 0 .. s.mem.root.depth] ==
          IF d = 0 THEN {[blk |-> 0, from |-> 0, to |-> MaxBlocks]}
          ELSE UNION {{Child(t, j) : j \in 1 .. NodeAt(s, t.blk).n} : t \in at[d - 1]}
    IN  at

\* Keys that divide what an index node is to hold, and extents one after the
\* other in what a leaf is to hold.
KeysAscend(nd, from, to) ==
    /\ nd.n > 0
    /\ \A j \in 2 .. nd.n : /\ from < nd.ents[j].lb /\ nd.ents[j].lb < to
                            /\ \A k \in 2 .. j - 1 : nd.ents[k].lb < nd.ents[j].lb

ExtentsAscend(nd, from, to) ==
    \A j \in 1 .. nd.n : /\ from <= nd.ents[j].lb /\ EndOf(nd.ents[j]) <= to
                         /\ \A k \in 1 .. j - 1 : EndOf(nd.ents[k]) <= nd.ents[j].lb

Ordered(s) ==
    \A d \in 0 .. s.mem.root.depth : \A t \in Spans(s)[d] :
        LET nd == NodeAt(s, t.blk)
        IN  /\ nd.ents \in Seq(Slot) /\ nd.n = Len(nd.ents)
            /\ IF d < s.mem.root.depth THEN KeysAscend(nd, t.from, t.to)
               ELSE ExtentsAscend(nd, t.from, t.to)

\* Every block of every extent is found by the search from the root, whatever
\* splits, growth and new leftmost keys lie behind it (find_extent against
\* insert_index_at_level and correct_parent_index).
Searchable(s) ==
    \A t \in Slots(s) : \A l \in t.x.lb .. EndOf(t.x) - 1 :
        State(s, l) = [pb |-> t.x.pb + (l - t.x.lb), unwritten |-> Unwritten(t.x)]

-----------------------------------------------------------------------------
(* The steps every operation is made of *)

Failed(s, e)  == [s EXCEPT !.err = e]

\* Op(s)?, in the code's notation.
Then(s, Op(_)) == IF s.err # "" THEN s ELSE Op(s)

WrittenBack(s) == [s EXCEPT !.ino = s.mem]       \* write_back_inode

\* Mutation: only the first block of a range is freed.
GivenOne(s, B) == WrittenBack([s EXCEPT !.used = @ \ {Min(B)}])

\* The allocator and the free both charge the inode and write it back.
FreeBlocks(s)  == Pool \ s.used
NextFree(s)    == Min(FreeBlocks(s))
Taken(s, B)    == WrittenBack([s EXCEPT !.used = @ \cup B])
Given(s, B)    == WrittenBack([s EXCEPT !.used = @ \ B])

SetRoot(s, nd)    == [s EXCEPT !.mem.root = nd]
SetNode(s, b, nd) == IF b = 0 THEN SetRoot(s, nd) ELSE [s EXCEPT !.node[b] = nd]

\* The place of a new slot: before the first larger key.
WithSlot(ents, x) ==
    InsertAt(ents, 1 + Cardinality({i \in DOMAIN ents : \A j \in 1 .. i : ents[j].lb <= x.lb}), x)

\* The root's slots move into a block of their own, which the root then indexes.
GrowInDepth(s) ==
    IF FreeBlocks(s) = {} THEN Failed(s, "ENOSPC")
    ELSE LET b    == NextFree(s)
             r    == s.mem.root
             key  == IF r.n > 0 THEN r.ents[1].lb ELSE 0
         IN  WrittenBack(SetRoot(SetNode(Taken(s, {b}), b, Full(r.depth, Visible(r))),
                                 Full(r.depth + 1, <<Index(key, b)>>)))

\* Mutation: a new leftmost block leaves the keys above as they are.
CorrectNothing(s, p, k, lb) == s

\* The keys above a leaf whose first block changed, while each is a leftmost one.
CorrectParentIndex(s, p, k, lb) ==
    LET levels   == {j \in 1 .. k : \A i \in j + 1 .. k : p[i].pos = 1}
        fix(nd, j) == [nd EXCEPT !.ents[p[j].pos].lb = lb]
        blocks   == [s EXCEPT !.node = [b \in DOMAIN s.node |->
                        IF \E j \in levels : p[j].blk = b
                        THEN fix(s.node[b], CHOOSE j \in levels : p[j].blk = b)
                        ELSE s.node[b]]]
    IN  IF 1 \in levels THEN WrittenBack(SetRoot(blocks, fix(s.mem.root, 1))) ELSE blocks

-----------------------------------------------------------------------------
(* Insertion *)

\* node_max_entries: what is left of a block behind the header.
Fits(count) == count <= NodeMax

\* Mutation: the slot in the middle stays in the lower half, too.
LowerHalfAndOne(ents) == SubSeq(ents, 1, (Len(ents) \div 2) + 1)

\* The halves a full node is split into.
LowerHalf(ents) == SubSeq(ents, 1, Len(ents) \div 2)
UpperHalf(ents) == SubSeq(ents, (Len(ents) \div 2) + 1, Len(ents))

AddIndexToRoot(s, x) ==
    LET r == s.mem.root
        AddBelow(g) ==
          LET c == g.mem.root.ents[1].pb
          IN  SetNode(g, c, Full(g.node[c].depth, WithSlot(Visible(g.node[c]), x)))
    IN  IF r.n < RootMax
        THEN WrittenBack(SetRoot(s, Full(r.depth, WithSlot(Visible(r), x))))
        ELSE Then(GrowInDepth(s), AddBelow)

\* insert_index_at_level, from level k of the path up to the root.
InsertIndex(s, p, k, x) ==
    LET Half(c, b) ==
          LET nd  == c.s.node[b]
              all == WithSlot(Visible(nd), c.x)
              new == NextFree(c.s)
          IN  IF Fits(Len(all))
              THEN [c EXCEPT !.s = SetNode(c.s, b, Full(nd.depth, all)), !.up = FALSE]
              ELSE IF FreeBlocks(c.s) = {}
              THEN [c EXCEPT !.s = Failed(c.s, "ENOSPC"), !.up = FALSE]
              ELSE [s  |-> SetNode(SetNode(Taken(c.s, {new}),
                                b,   Full(nd.depth, LowerHalf(all))),
                                new, Full(nd.depth, UpperHalf(all))),
                    x  |-> Index(UpperHalf(all)[1].lb, new),
                    up |-> TRUE]
        Level(c, frame) ==
          IF ~c.up THEN c
          ELSE IF frame.blk = 0 THEN [c EXCEPT !.s = AddIndexToRoot(c.s, c.x), !.up = FALSE]
          ELSE Half(c, frame.blk)
    IN  FoldLeft(Level, [s |-> s, x |-> x, up |-> TRUE], Reverse(SubSeq(p, 1, k))).s

SplitLeaf(s, p, x) ==
    LET leaf == Last(p).blk
        old  == Visible(s.node[leaf])
        all  == WithSlot(old, x)
        new  == NextFree(s)
        two  == SetNode(SetNode(Taken(s, {new}),
                    leaf, Full(0, LowerHalf(all))),
                    new,  Full(0, UpperHalf(all)))
        keys == IF all[1].lb < old[1].lb
                THEN CorrectParentIndex(two, p, Len(p) - 1, all[1].lb) ELSE two
    IN  IF FreeBlocks(s) = {} THEN Failed(s, "ENOSPC")
        ELSE InsertIndex(keys, p, Len(p) - 1, Index(UpperHalf(all)[1].lb, new))

\* insert_new_extent: the leaf has room.
InsertNewExtent(s, p, x) ==
    LET leaf == Last(p).blk
        old  == Visible(NodeAt(s, leaf))
        new  == SetNode(s, leaf, Full(0, WithSlot(old, x)))
    IN  IF leaf = 0 THEN WrittenBack(new)
        ELSE IF old # <<>> => x.lb >= old[1].lb THEN new
        ELSE CorrectParentIndex(new, p, Len(p) - 1, x.lb)

\* insert_extent, but for a full root leaf.  A merge in the root changes the
\* inode in memory only.  The attempts to merge with the slots next to the found
\* one cannot succeed: a search ends at the last key that is not larger, so the
\* left one never applies, and the right one reads the slot from block 0.
InsertInLeaf(s, p, x) ==
    LET leaf == Last(p)
    IN  IF ~Found(p) THEN Failed(s, "ENOENT")
        ELSE IF leaf.n > 0 /\ CanMerge(leaf.at, x)
        THEN SetNode(s, leaf.blk,
                     [NodeAt(s, leaf.blk) EXCEPT !.ents[leaf.pos] = Merged(leaf.at, x)])
        ELSE IF IF leaf.blk = 0 THEN leaf.n < RootMax ELSE Fits(leaf.n + 1)
        THEN InsertNewExtent(s, p, x)
        ELSE SplitLeaf(s, p, x)

\* A full root leaf is pushed down first.
InsertExtent(s, x) ==
    LET r    == s.mem.root
        full == /\ r.depth = 0 /\ r.n = RootMax
                /\ ~CanMerge(r.ents[Nearest(r, x.lb)], x)
        Insert(t) == InsertInLeaf(t, PathTo(t, x.lb), x)
    IN  Then(IF full THEN GrowInDepth(s) ELSE s, Insert)

=============================================================================
