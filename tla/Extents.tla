------------------------------ MODULE Extents ------------------------------
(***************************************************************************)
(* One inode's block mapping under the calls that change it: write_at and  *)
(* truncate_inode (ext4_impls/file.rs), append_inode_pblk (inode.rs) and   *)
(* fuse_fallocate (fuse_interface/mod.rs), each as one step, in units of   *)
(* whole blocks.  A call reads the inode from the disk, works on its copy  *)
(* and on the node blocks, and returns with the copy in its hand: what it  *)
(* did not write back is lost to the next call.                            *)
(***************************************************************************)
EXTENDS ExtentRemoval

CONSTANTS
    MaxLblk,      \* logical blocks of the file: 0 .. MaxLblk - 1
    Taken0,       \* the sets of pool blocks other files may hold at the start
    Lengths,      \* how many blocks a call may name
    Ops,          \* the calls that are made
    MaxCalls,     \* how many
    Journaled,    \* whether a failing call leaves no trace (an aborted
                  \* transaction), or what it did so far
    OnlyHandled   \* keep to the removals that meet Handled below

Lblk == 0 .. MaxLblk - 1

ASSUME ExtentsAssumption ==
    /\ MaxLblk \in Nat /\ MaxLblk < MaxBlocks
    /\ Lengths \subseteq Nat \ {0}
    /\ \A B \in Taken0 : B \subseteq Pool
    /\ Journaled \in BOOLEAN /\ OnlyHandled \in BOOLEAN

VARIABLES
    ino,     \* the inode on disk
    node,    \* the node blocks
    used,    \* the pool blocks that are allocated
    call,    \* the last call: [op, from, to, end, err, mem], end being the block
             \* a write got to, mem the call's copy of the inode at its return
    calls    \* the calls made
vars == <<ino, node, used, call, calls>>

\* get_inode_ref: what a call starts from.
Opened == [mem |-> ino, ino |-> ino, node |-> node, used |-> used, err |-> "", end |-> 0]

NewInode(dir) == [dir |-> dir, size |-> 0, root |-> Empty]

Init ==
    /\ \E dir \in BOOLEAN : ino = NewInode(dir)
    /\ node = [b \in Pool |-> Empty]
    /\ used \in Taken0
    /\ calls = 0
    /\ call = [op |-> "create", from |-> 0, to |-> 0, end |-> 0, err |-> "", mem |-> ino]

-----------------------------------------------------------------------------
(* Mapping runs of blocks *)

\* Where the run of members of S that begins with l ends, at e the latest.
RunEnd(l, e, S) == Min({m \in l + 1 .. e : m = e \/ m \notin S})

Ascending(B, count) ==
    [i \in 1 .. Min({count, Cardinality(B)}) |->
        CHOOSE b \in B : Cardinality({c \in B : c < b}) = i - 1]

\* The extents over allocated blocks: a physically contiguous run each, and no
\* longer than the encoding of its kind can tell.
ExtentsOver(blocks, lb, unwritten) ==
    LET longest == IF unwritten THEN InitMax - 1 ELSE InitMax
        Grow(xs, b) ==
          LET x == Last(xs)  len == ActualLen(x) IN
          IF xs # <<>> /\ x.pb + len = b /\ len < longest
          THEN [xs EXCEPT ![Len(xs)] = Extent(x.lb, len + 1, unwritten, x.pb)]
          ELSE Append(xs, Extent(IF xs = <<>> THEN lb ELSE EndOf(x), 1, unwritten, b))
    IN  FoldLeft(Grow, <<>>, blocks)

\* map_inode_pblk_batch: what could be allocated is mapped from lb on.
MapBatch(s, lb, count, unwritten) ==
    LET Insert(t, x) == IF t.err # "" THEN t ELSE InsertExtent(t, x)
        Bare(B) == [Taken(s, B) EXCEPT !.node = [b \in DOMAIN @ |-> IF b \in B THEN Empty ELSE @[b]]]
        Map(blocks) ==
          [got |-> Len(blocks),
           s   |-> IF blocks = <<>> THEN s
                   ELSE FoldLeft(Insert, Bare(ToSet(blocks)), ExtentsOver(blocks, lb, unwritten))]
    IN  Map(Ascending(FreeBlocks(s), count))

\* Fill the runs of holes in a .. e - 1, up to the first that comes up short.
\* Blocks from `size` on are taken for holes unseen.
Fill(s, a, e, size, unwritten) ==
    LET IsHole(t, l) == l >= size \/ ~IsMapped(t, l)
        Filled(l, stop, m) ==
          [s    |-> m.s,
           next |-> stop,
           end  |-> IF m.got < stop - l THEN l + m.got ELSE e]
        FillRun(c, l, stop) == Filled(l, stop, MapBatch(c.s, l, stop - l, unwritten))
        Step(c, l) ==
          IF c.s.err # "" \/ l < c.next \/ c.end < e \/ ~IsHole(c.s, l) THEN c
          ELSE FillRun(c, l, RunEnd(l, e, {m \in l .. e - 1 : IsHole(c.s, m)}))
    IN  FoldLeft(Step, [s |-> s, next |-> a, end |-> e], [i \in 1 .. e - a |-> a + i - 1])

-----------------------------------------------------------------------------
(* The removals the code gets right: strictly inside an extent, or within  *)
(* one leaf, where either no slot goes whole and a slot cut in front does  *)
(* not follow others, or the last slots go and others stay.                *)
Handled(s, p, from, to) ==
    LET d     == Len(p)
        leaf  == Last(p)
        ents  == NodeAt(s, leaf.blk).ents
        gone  == {i \in 1 .. leaf.n : from <= ents[i].lb /\ EndOf(ents[i]) - 1 <= to}
        front == {i \in 1 .. leaf.n : from <= ents[i].lb /\ ents[i].lb <= to} \ gone
        last  == \A k \in 1 .. d - 1 : p[k].pos = p[k].n
    IN  /\ Found(p) /\ leaf.n > 0
        /\ \/ leaf.at.lb < from /\ to < EndOf(leaf.at) - 1
           \/ /\ \A l \in Lblk : from <= l /\ l <= to /\ IsMapped(s, l)
                                    => Last(PathTo(s, l)).blk = leaf.blk
              /\ \A k \in 1 .. d - 2 : ~MoreToRemove(s, p[k], to)
              /\ front # {} => leaf.pos = 1 /\ d = 1
              /\ gone # {} => /\ gone = Min(gone) .. leaf.n
                              /\ last /\ (d > 1 => Min(gone) > 1)

Removed(s, from, to) ==
    IF OnlyHandled /\ ~Handled(s, PathTo(s, from), from, to) THEN Failed(s, "unhandled")
    ELSE RemoveSpace(s, from, to)

-----------------------------------------------------------------------------
(* The calls *)

SetSize(s, size) == WrittenBack([s EXCEPT !.mem.size = size])

\* Mutation: preallocated blocks are written as they are.
ConvertNothing(s, a, e) == s

\* Preallocated blocks in the range become holes, run by run.
Convert(s, a, e) ==
    LET IsMarked(t, l) == State(t, l).unwritten
        MadeHole(c, l, stop) == [s |-> Removed(c.s, l, stop - 1), next |-> stop]
        Step(c, l) ==
          IF c.s.err # "" \/ l < c.next \/ ~IsMarked(c.s, l) THEN c
          ELSE MadeHole(c, l, RunEnd(l, e, {m \in l .. e - 1 : IsMarked(c.s, m)}))
    IN  FoldLeft(Step, [s |-> s, next |-> a], [i \in 1 .. e - a |-> a + i - 1]).s

\* A write that finds blocks for a part of its range only is cut to it.
Written(s, a, e) ==
    LET Store(t) ==
          IF t.end <= a THEN Failed(t, "ENOSPC")
          ELSE IF \E l \in a .. t.end - 1 : ~Found(PathTo(t, l)) THEN Failed(t, "EIO")
          ELSE IF t.end > s.mem.size THEN SetSize(t, t.end)
          ELSE t
        Shortened(f)   == Then([f.s EXCEPT !.end = f.end], Store)
        FillIn(t) == Shortened(Fill(t, a, e, s.mem.size, FALSE))
    IN  Then(Convert(s, a, e), FillIn)

Preallocated(s, a, e, keep) ==
    LET Sized(t) == IF ~keep /\ e > s.mem.size THEN SetSize(t, e) ELSE t
        Whole(f) == Then(IF f.s.err = "" /\ f.end < e THEN Failed(f.s, "ENOSPC") ELSE f.s, Sized)
    IN  Whole(Fill(s, a, e, MaxBlocks, TRUE))

Punched(s, a, e) == Then(Removed(s, a, e - 1), WrittenBack)

Truncated(s, size) ==
    LET Sized(t) == SetSize(t, size) IN Then(Removed(s, size, MaxBlocks), Sized)

Appended(s) ==
    LET b == NextFree(s)
        Sized(t) == SetSize(t, s.mem.size + 1)
    IN  IF FreeBlocks(s) = {} THEN Failed(s, "ENOSPC")
        ELSE Then(InsertExtent(Taken(s, {b}), Extent(s.mem.size, 1, FALSE, b)), Sized)

\* The call ends.  The bytes of blocks that are not allocated are forgotten.
Return(op, from, to, s) ==
    LET back == Journaled /\ s.err # "" IN
    /\ s.err # "unhandled"
    /\ calls' = calls + 1
    /\ ino'  = IF back THEN ino ELSE s.ino
    /\ used' = IF back THEN used ELSE s.used
    /\ node' = IF back THEN node
               ELSE [b \in Pool |-> IF b \in s.used THEN s.node[b] ELSE Empty]
    /\ call' = [op |-> op, from |-> from, to |-> to, end |-> s.end, err |-> s.err, mem |-> s.mem]

Write(a, e)     == Return("write", a, e, Written(Opened, a, e))
Fallocate(a, e) == Return("fallocate", a, e, Preallocated(Opened, a, e, FALSE))
Reserve(a, e)   == Return("reserve", a, e, Preallocated(Opened, a, e, TRUE))
Punch(a, e)     == Return("punch", a, e, Punched(Opened, a, e))

Truncate(size) ==
    /\ size < ino.size
    /\ Return("truncate", size, MaxLblk, Truncated(Opened, size))

\* Directories only grow by blocks that are appended.
Append1 ==
    /\ ino.dir
    /\ ino.size < MaxLblk
    /\ Return("append", ino.size, ino.size + 1, Appended(Opened))

Next ==
    /\ calls < MaxCalls
    /\ \/ /\ ~ino.dir
          /\ \E a \in Lblk : \E e \in {a + len : len \in Lengths} \cap (1 .. MaxLblk) :
               \/ "write"     \in Ops /\ Write(a, e)
               \/ "fallocate" \in Ops /\ Fallocate(a, e)
               \/ "reserve"   \in Ops /\ Reserve(a, e)
               \/ "punch"     \in Ops /\ Punch(a, e)
       \/ "truncate" \in Ops /\ \E size \in Lblk : Truncate(size)
       \/ "append"   \in Ops /\ Append1

Spec == Init /\ [][Next]_vars

-----------------------------------------------------------------------------
(* Properties *)

Tree(i, nd)  == [mem |-> i, node |-> nd]
MapOf(i, nd) == [l \in Lblk |-> State(Tree(i, nd), l)]

NodeBlocks(i, nd) == UNION {Levels(Tree(i, nd))[d] : d \in 1 .. i.root.depth}

Data(x) == Physical(x, x.lb .. EndOf(x) - 1)

Blocks(i, nd) == NodeBlocks(i, nd) \cup UNION {Data(t.x) : t \in Slots(Tree(i, nd))}

\* Shape: counts tell the slots there are and stay within the node's capacity.
TypeOK ==
    /\ used \subseteq Pool
    /\ ino.size \in 0 .. MaxLblk
    /\ ino.root.n = Len(ino.root.ents) /\ ino.root.n <= RootMax
    /\ \A b \in Pool : node[b].n = Len(node[b].ents) /\ node[b].n <= NodeMax
    /\ Blocks(ino, node) \subseteq Pool

\* Every block the tree refers to is allocated, and no two of its slots, index
\* or extent, refer to the same one: splits, growth and frees never leave a
\* block with two uses (split_leaf, ext_grow_indepth, ext_remove_leaf).
NoSharing ==
    LET slots == Slots(Tree(ino, node)) IN
    /\ Blocks(ino, node) \subseteq used
    /\ \A t, u \in slots : t # u => Data(t.x) \cap Data(u.x) = {}
    /\ \A t \in slots : Data(t.x) \cap NodeBlocks(ino, node) = {}

Same(x, y) == x.pb = y.pb /\ (x.pb # 0 => x.unwritten = y.unwritten)

\* What a call that succeeds may do to the mapping.
Promised(c, old, new) ==
    \A l \in Lblk :
       IF l < c.from \/ l >= c.to THEN Same(old[l], new[l])
       ELSE CASE c.op \in {"punch", "truncate"} -> new[l].pb = 0
              [] c.op = "write" /\ l >= c.end ->        \* a short write
                   Same(old[l], new[l]) \/ (old[l].unwritten /\ new[l].pb = 0)
              [] c.op = "append" \/ (c.op = "write" /\ l < c.end) ->
                   /\ new[l].pb # 0 /\ ~new[l].unwritten
                   /\ old[l].pb # 0 /\ ~old[l].unwritten => Same(old[l], new[l])
              [] c.op \in {"fallocate", "reserve"} ->
                   IF old[l].pb # 0 THEN Same(old[l], new[l])
                   ELSE new[l].pb # 0 /\ new[l].unwritten

\* A call maps, converts or unmaps the blocks it names, keeps what is written,
\* and touches no other block of the file, however the tree is rebuilt on the
\* way (write_at, fuse_fallocate, truncate_inode, append_inode_pblk).
CallIsExact ==
    [][call'.err = "" => Promised(call', MapOf(ino, node), MapOf(call'.mem, node'))]_vars

\* A call that succeeds leaves no allocated block outside its tree but those
\* left behind before it: what it allocated it holds, what it dropped it freed.
NoLeak ==
    [][call'.err = "" => used' \ Blocks(call'.mem, node') = used \ Blocks(ino, node)]_vars

\* "the unwritten parts outside the write range survive (extent_remove_space
\* splits around them)", src/src/ext4_impls/file.rs.
UnwrittenSurvives ==
    [][call'.op = "write" /\ call'.err = "" =>
         \A l \in Lblk \ (call'.from .. call'.to - 1) :
            LET old == MapOf(ino, node)[l] IN
            old.pb # 0 /\ old.unwritten => Same(old, MapOf(call'.mem, node')[l])]_vars

\* "Ensure every logical block the write touches is mapped to a physical block,
\* allocating any holes. A hole can lie *below* EOF" (write_at_impl, file.rs:467):
\* what a call maps is there for the next one, which reads the inode from disk.
MappingIsSaved ==
    [][call'.err = "" => MapOf(ino', node') = MapOf(call'.mem, node')]_vars

\* "rest of the extents will be removed", extent_remove_space on a range up to
\* past the last extent, which is how truncate_inode calls it.
CutIsComplete ==
    [][call'.op = "truncate" =>
         /\ call'.err = ""
         /\ \A l \in call'.from .. MaxLblk - 1 : MapOf(call'.mem, node')[l].pb = 0]_vars

\* What holds between any two calls: every node's entries are in order below their
\* parent's, so the search of find_extent reaches them.
Inv == TypeOK /\ Ordered(Opened) /\ Searchable(Opened)

=============================================================================
