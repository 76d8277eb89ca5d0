------------------------------- MODULE Htree -------------------------------
(***************************************************************************)
(* The hash index of a directory (htree.rs) as operators on a directory.   *)
(*                                                                         *)
(* A directory is a record: blk, its blocks by logical number, each the    *)
(* records a linear walk sees; idx, the entries of those blocks that are   *)
(* index blocks; levels, the indirect levels the root tells; ok, FALSE     *)
(* once a step failed.  An index entry holds a hash and a block; the hash  *)
(* of the first means nothing, its place holds count and limit.            *)
(***************************************************************************)
EXTENDS DirBlock, SequencesExt

CONSTANTS
    Hash,       \* per name: its directory hash
    RootLimit,  \* entries of the root of the index
    NodeLimit,  \* entries of any other index block
    LargeDir,   \* the large_dir feature: one more level
    MaxBlocks   \* blocks the directory can grow to before the disk is full

ASSUME HashGeometry ==
    /\ Hash \in [AllNames -> Nat]
    /\ {RootLimit, NodeLimit, MaxBlocks} \subseteq Nat \ {0}
    /\ LargeDir \in BOOLEAN

MaxLevels == IF LargeDir THEN 2 ELSE 1

BlockCount(d) == Cardinality(DOMAIN d.blk)

Failed(d) == [d EXCEPT !.ok = FALSE]

\* append_inode_pblk: the new block is the last one, or there is none
CanAppend(d) == BlockCount(d) < MaxBlocks
PutBlock(d, n, b) == [d EXCEPT !.blk = With(@, n, b)]
PutIndex(d, n, ents) == [d EXCEPT !.idx = With(@, n, ents)]

Down(h, b) == [hash |-> h, to |-> b]

\* what a walk over an index node sees: one unused record
NodeRecords == [o \in {0} |-> Entry(Unused, Dot, End)]

-----------------------------------------------------------------------------
(* Descent *)

\* DxBlock::lookup: up to the first entry with a larger hash
Child(ents, h) ==
    LET larger == {i \in 2..Len(ents) : h < ents[i].hash}
    IN  ents[IF larger = {} THEN Len(ents) ELSE Least(larger) - 1].to

\* dx_probe_frames_hash: the index blocks from the root down
Frames(d, h) ==
    LET at[l \in 0..d.levels] ==
            IF l = 0 THEN 0 ELSE Child(d.idx[at[l - 1]], h)
    IN  [i \in 1..(d.levels + 1) |-> at[i - 1]]

\* dx_probe
LeafOf(d, h) == Child(d.idx[Last(Frames(d, h))], h)

-----------------------------------------------------------------------------
(* dx_read_leaf_entries: the used records in their order *)

Items(b) ==
    LET real == {o \in Used(b) : b[o].name \notin {Dot, DotDot}}
        order == SetToSortSeq(real, LAMBDA o, p : o < p)
    IN  [i \in 1..Len(order) |-> b[order[i]]]

\* the items by hash, those with one hash as they were
ByHash(b) ==
    LET real == {o \in Used(b) : b[o].name \notin {Dot, DotDot}}
        order == SetToSortSeq(real,
                    LAMBDA o, p : \/ Hash[b[o].name] < Hash[b[p].name]
                                  \/ Hash[b[o].name] = Hash[b[p].name] /\ o < p)
    IN  [i \in 1..Len(order) |-> b[order[i]]]

\* Mutation: a leaf is split in the middle, whatever the hashes there.
LowerHalfAnyhow(hashes) == Len(hashes) \div 2

\* how many of a sorted sequence of hashes stay in the lower half: one hash is
\* not divided; 0 when all are equal
LowerHalf(hashes) ==
    LET half == Len(hashes) \div 2
        cuts == {m \in 1..(Len(hashes) - 1) : hashes[m] # hashes[m + 1]}
        above == {m \in cuts : m >= half}
    IN  IF cuts = {} THEN 0
        ELSE IF above # {} THEN Least(above)
        ELSE CHOOSE m \in cuts : \A k \in cuts : k <= m

-----------------------------------------------------------------------------
(* dx_convert_to_htree *)

DotDotOf(b) == LET o == CHOOSE o \in Named(b, DotDot) : TRUE IN b[o].ino

RootRecords(d) ==
    LET dot == Size[Dot]
    IN  [o \in {0, dot} |->
            IF o = 0 THEN Entry(d.self, Dot, dot)
            ELSE Entry(DotDotOf(d.blk[0]), DotDot, End - dot)]

Convert(d) ==
    IF ~CanAppend(d) THEN Failed(d)
    ELSE LET leaf == BlockCount(d)
         IN  [d EXCEPT
                !.blk = With(With(@, leaf, Pack(Items(d.blk[0]))), 0, RootRecords(d)),
                !.idx = [n \in {0} |-> <<Down(0, leaf)>>],
                !.levels = 0]

-----------------------------------------------------------------------------
(* dx_add_to_index and below.  What is being registered is a record: the   *)
(* directory, the path of index blocks, the level to insert at, and the    *)
(* entry; level 0 means that it is done.                                   *)

Limit(node) == IF node = 0 THEN RootLimit ELSE NodeLimit

WithEntry(ents, e) ==
    LET larger == {i \in 2..Len(ents) : ents[i].hash > e.hash}
    IN  InsertAt(ents, IF larger = {} THEN Len(ents) + 1 ELSE Least(larger), e)

\* dx_split_node
SplitNode(r) ==
    LET node == r.frames[r.level]
        ents == WithEntry(r.d.idx[node], r.entry)
        mid == LowerHalf([i \in 1..Len(ents) |-> IF i = 1 THEN 0 ELSE ents[i].hash])
        new == BlockCount(r.d)
    IN  IF mid = 0 \/ ~CanAppend(r.d) THEN [r EXCEPT !.d.ok = FALSE, !.level = 0]
        ELSE [r EXCEPT
                !.d = PutBlock(
                        PutIndex(PutIndex(@, node, SubSeq(ents, 1, mid)),
                                 new, SubSeq(ents, mid + 1, Len(ents))),
                        new, NodeRecords),
                !.level = @ - 1,
                !.entry = Down(ents[mid + 1].hash, new)]

\* dx_grow_depth
GrowDepth(d) ==
    LET new == BlockCount(d)
    IN  IF d.levels >= MaxLevels \/ ~CanAppend(d) THEN Failed(d)
        ELSE [PutBlock(PutIndex(PutIndex(d, new, d.idx[0]), 0, <<Down(0, new)>>),
                       new, NodeRecords)
                EXCEPT !.levels = @ + 1]

\* a root without room: a level more, and a new try at the end of the new path
GrowAndRetry(r, d) ==
    IF ~d.ok THEN [r EXCEPT !.d = d, !.level = 0]
    ELSE [r EXCEPT !.d = d, !.frames = Frames(d, r.entry.hash), !.level = d.levels + 1]

\* one call of dx_add_to_index up to the next
RegisterStep(r) ==
    LET node == r.frames[r.level]
    IN  IF r.level = 0 THEN r
        ELSE IF Len(r.d.idx[node]) < Limit(node)
        THEN [r EXCEPT !.d = PutIndex(@, node, WithEntry(@.idx[node], r.entry)),
                       !.level = 0]
        ELSE IF r.level = 1 THEN GrowAndRetry(r, GrowDepth(r.d))
        ELSE SplitNode(r)

\* no registration makes more calls: down to the root, a level more, and down again
RegisterCalls == 2 * (MaxLevels + 1) + 1

Register(d, frames, e) ==
    LET start == [d |-> d, frames |-> frames, level |-> Len(frames), entry |-> e]
        r[i \in 0..RegisterCalls] == IF i = 0 THEN start ELSE RegisterStep(r[i - 1])
    IN  r[RegisterCalls].d

-----------------------------------------------------------------------------
(* dx_split_leaf, with the registration of the new leaf *)

\* Mutation: the old leaf keeps what was moved.
SplitAtKeeping(d, frames, leaf, items, mid) ==
    LET new == BlockCount(d)
        upper == Pack(SubSeq(items, mid + 1, Len(items)))
    IN  Register(PutBlock(d, new, upper), frames,
                 Down(Hash[items[mid + 1].name], new))

SplitAt(d, frames, leaf, items, mid) ==
    LET new == BlockCount(d)
        lower == Pack(SubSeq(items, 1, mid))
        upper == Pack(SubSeq(items, mid + 1, Len(items)))
    IN  Register(PutBlock(PutBlock(d, leaf, lower), new, upper), frames,
                 Down(Hash[items[mid + 1].name], new))

SplitLeaf(d, frames, leaf, items) ==
    LET mid == LowerHalf([i \in 1..Len(items) |-> Hash[items[i].name]])
    IN  IF Len(items) < 2 \/ mid = 0 \/ ~CanAppend(d) THEN Failed(d)
        ELSE SplitAt(d, frames, leaf, items, mid)

\* try_insert_to_existing_block on a leaf of the index
IntoLeaf(d, leaf, name, ino) ==
    IF Roomy(d.blk[leaf], name) = {} THEN Failed(d)
    ELSE PutBlock(d, leaf, InsertEntry(d.blk[leaf], name, ino))

\* dx_add_entry: the leaf, or once more after it was split
IndexedAdd(d, name, ino) ==
    LET leaf == LeafOf(d, Hash[name])
        Again(s) == IF s.ok THEN IntoLeaf(s, LeafOf(s, Hash[name]), name, ino) ELSE s
    IN  IF Roomy(d.blk[leaf], name) # {} THEN IntoLeaf(d, leaf, name, ino)
        ELSE Again(SplitLeaf(d, Frames(d, Hash[name]), leaf, ByHash(d.blk[leaf])))
=============================================================================
