------------------------------- MODULE Balloc -------------------------------
(***************************************************************************)
(* The block allocator, src/ext4_impls/balloc.rs: block groups with a      *)
(* bitmap and a free count each, the free count of the superblock, the     *)
(* block counts of the inodes, and the functions that allocate one block,  *)
(* a batch of blocks, and free a range.                                    *)
(*                                                                         *)
(* An operation runs to its end before the next one begins, so each        *)
(* function is one action.  Blocks of files that are not followed here are *)
(* in Preused.  What mke2fs puts on the image is external.  Left out is    *)
(* balloc_alloc_block_from, which no operation of the crate reaches.       *)
(***************************************************************************)
EXTENDS Integers, FiniteSets, FiniteSetsExt

CONSTANTS BlocksCount,      \* s_blocks_count
          BlocksPerGroup,   \* s_blocks_per_group
          FirstDataBlock,   \* s_first_data_block: 1 with 1 KiB blocks, else 0
          MetaBlocks,       \* a superblock copy and its group descriptors
          Word,             \* the near search ends at a multiple of this (64)
          Tables,           \* per group, its bitmap and inode-table blocks
          Preused,          \* blocks of other files
          Uninit,           \* groups whose bitmap mke2fs did not write
          Inode,            \* the inodes that allocate here
          Caller,           \* the allocation functions in use
          Goal,             \* goals callers pass to balloc_alloc_block
          None

\* balloc.rs computes the number of groups without s_first_data_block.
GroupCount == (BlocksCount + BlocksPerGroup - 1) \div BlocksPerGroup
Group  == 0 .. GroupCount - 1
Index  == 0 .. BlocksPerGroup - 1
Device == FirstDataBlock .. BlocksCount - 1

ASSUME Geometry ==
    /\ BlocksPerGroup \in Nat \ {0} /\ Word \in Nat \ {0}
    /\ FirstDataBlock \in {0, 1} /\ BlocksCount \in Nat /\ MetaBlocks \in Nat \ {0}
    /\ Tables \in [Group -> SUBSET Device] /\ Preused \subseteq Device
    /\ Caller \subseteq {"one", "batch"} /\ Goal \subseteq Device

VARIABLES bitmap,   \* per group, the set bits of its block bitmap
          gfree,    \* per group, its free-blocks count
          sbfree,   \* the superblock's free-blocks count
          owned,    \* per inode, the blocks it was given and has not freed
          blocks,   \* per inode, its block count in file-system blocks
          result    \* outcome of the last call: "ok", "enospc", "short"

vars == <<bitmap, gfree, sbfree, owned, blocks, result>>

-----------------------------------------------------------------------------
(* Addresses. *)

Based(b)   == IF FirstDataBlock # 0 /\ b # 0 THEN b - 1 ELSE b
GroupOf(b) == Based(b) \div BlocksPerGroup        \* get_bgid_of_block
IndexOf(b) == Based(b) % BlocksPerGroup           \* addr_to_idx_bg

Address(i, g) == BlocksPerGroup * g + i + (IF FirstDataBlock # 0 THEN 1 ELSE 0)
FirstOf(g)    == Address(0, g)                    \* get_block_of_bgid

-----------------------------------------------------------------------------
(* Reserved blocks: those of the zones get_system_zone lists. *)

IsPowerOf(n, base) == \E k \in 1 .. n : n = base ^ k

HasSuper(g) == g = 0 \/ IsPowerOf(g, 3) \/ IsPowerOf(g, 5) \/ IsPowerOf(g, 7)

Copy(g) == FirstOf(g) .. FirstOf(g) + MetaBlocks - 1

SystemZone == UNION {Tables[g] \cup (IF HasSuper(g) THEN Copy(g) ELSE {}) : g \in Group}

\* The blocks of the file system's own: Linux puts a copy in group 1 as well.
System == UNION {Tables[g] \cup (IF g = 1 \/ HasSuper(g) THEN Copy(g) ELSE {}) : g \in Group}

Reserved(i, g) == Address(i, g) \in SystemZone

-----------------------------------------------------------------------------
Usable == Device \ (System \cup Preused)

\* A bitmap that mke2fs leaves to be written later is one of a group without
\* blocks in use but those get_system_zone knows.
ASSUME UninitGroups ==
    \A g \in Uninit \cap Group : \A i \in Index : Address(i, g) \in Usable \/ Reserved(i, g)

\* mke2fs: a bitmap has the bits of used blocks set, and of those past the end
\* of the device; an uninitialised one has none.  The counts are right in both.
Init ==
    /\ bitmap = [g \in Group |-> IF g \in Uninit THEN {}
                                 ELSE {i \in Index : Address(i, g) \notin Usable}]
    /\ gfree = [g \in Group |-> Cardinality({i \in Index : Address(i, g) \in Usable})]
    /\ sbfree = Cardinality(Usable)
    /\ owned = [f \in Inode |-> {}]
    /\ blocks = [f \in Inode |-> 0]
    /\ result = "ok"

Least(m, S) == {x \in S : Cardinality({y \in S : y < x}) < m}
First(S) == IF S = {} THEN None ELSE CHOOSE x \in S : \A y \in S : x <= y

InGroup(bits, g) == {p[2] : p \in {q \in bits : q[1] = g}}

\* Mutation: the free count of the superblock is computed from the copy that
\* open() made, which is what the comment of read_super_block warns of.
TakeCached(f, bits) ==
    /\ bitmap' = [g \in Group |-> bitmap[g] \cup InGroup(bits, g)]
    /\ gfree' = [g \in Group |-> gfree[g] - Cardinality(InGroup(bits, g))]
    /\ sbfree' = Cardinality(Usable) - Cardinality(bits)
    /\ blocks' = [blocks EXCEPT ![f] = @ + Cardinality(bits)]
    /\ owned' = [owned EXCEPT ![f] = @ \cup {Address(p[2], p[1]) : p \in bits}]

\* Give the blocks at these positions, pairs of group and index, to inode f.
Take(f, bits) ==
    /\ bitmap' = [g \in Group |-> bitmap[g] \cup InGroup(bits, g)]
    /\ gfree' = [g \in Group |-> gfree[g] - Cardinality(InGroup(bits, g))]
    /\ sbfree' = sbfree - Cardinality(bits)
    /\ blocks' = [blocks EXCEPT ![f] = @ + Cardinality(bits)]
    /\ owned' = [owned EXCEPT ![f] = @ \cup {Address(p[2], p[1]) : p \in bits}]

-----------------------------------------------------------------------------
(* balloc_alloc_block *)

Clear(g) == Index \ bitmap[g]

\* Clear bits behind the goal, up to the next multiple of Word.
Near(g, idx) ==
    LET end == ((idx + Word - 1) \div Word) * Word
    IN  {i \in Clear(g) : idx < i /\ i < end /\ ~Reserved(i, g)}

\* The bit a group offers: the goal itself, one near it, or the first clear bit
\* from the goal on; a reserved one there makes the group offer nothing.
Choice(g, idx) ==
    LET first == First({i \in Clear(g) : i >= idx})
    IN  IF idx \in Clear(g) /\ ~Reserved(idx, g) THEN idx
        ELSE IF Near(g, idx) # {} THEN First(Near(g, idx))
        ELSE IF first # None /\ ~Reserved(first, g) THEN first
        ELSE None

\* Groups in the order of the search, from group `start' on, k = 1 first.
Turn(start, k) == (start + k - 1) % GroupCount

\* One block for inode f, from the first group with free blocks that offers one.
\* The goal's index is kept for the other groups too.
AllocBlock(f, goal) ==
    /\ "one" \in Caller
    /\ LET start == IF goal = None THEN 0 ELSE GroupOf(goal)
           idx   == IF goal = None THEN 0 ELSE IndexOf(goal)
           offers == {k \in 1 .. GroupCount : /\ gfree[Turn(start, k)] # 0
                                              /\ Choice(Turn(start, k), idx) # None}
           g == Turn(start, First(offers))
       IN  IF offers = {}
           THEN result' = "enospc" /\ UNCHANGED <<bitmap, gfree, sbfree, owned, blocks>>
           ELSE result' = "ok" /\ Take(f, {<<g, Choice(g, idx)>>})

-----------------------------------------------------------------------------
(* balloc_alloc_block_batch *)

Open(g) == {i \in Clear(g) : ~Reserved(i, g)}

\* What the k-th group of a batch adds to the positions found before: its first
\* open blocks, no more than are still asked for and than its free count says.
Found(start, count, k, before) ==
    LET g == Turn(start, k)
        m == Min({count - Cardinality(before), gfree[g]})
    IN  {<<g, i>> : i \in Least(m, Open(g))}

\* Mutation: the batch looks at all groups but the last.
GotAllButLast(start, count) ==
    LET got[k \in 0 .. GroupCount] ==
            IF k = 0 THEN {} ELSE got[k - 1] \cup Found(start, count, k, got[k - 1])
    IN  got[GroupCount - 1]

\* The positions a batch finds, group by group.
Got(start, count) ==
    LET got[k \in 0 .. GroupCount] ==
            IF k = 0 THEN {} ELSE got[k - 1] \cup Found(start, count, k, got[k - 1])
    IN  got[GroupCount]

\* A start beyond the last group means group 0.  What was found is taken, all
\* of the request or less.
AllocBatch(f, start, count) ==
    /\ "batch" \in Caller
    /\ \E got \in {Got(IF start \in Group THEN start ELSE 0, count)} :
          /\ Take(f, got)
          /\ result' = IF Cardinality(got) < count THEN "short" ELSE "ok"

-----------------------------------------------------------------------------
(* balloc_free_blocks *)

\* Mutation: the rest of a range is taken to be in the group of its first block.
FreedOneGroup(start, count) == {<<GroupOf(start), IndexOf(start) + j>> : j \in 0 .. count - 1}

\* The positions of the range, cut at the ends of groups.
Freed(start, count) ==
    LET room(b) == BlocksPerGroup - IndexOf(b)
        last == GroupOf(start + count - 1) - GroupOf(start)
        at[k \in 0 .. last] == IF k = 0 THEN start ELSE at[k - 1] + room(at[k - 1])
        size(k) == Min({start + count - at[k], room(at[k])})
    IN  UNION {{<<GroupOf(at[k]), IndexOf(at[k]) + j>> : j \in 0 .. size(k) - 1} : k \in 0 .. last}

FreeBlocks(f, start, count) ==
    /\ start .. start + count - 1 \subseteq owned[f]
    /\ \E bits \in {Freed(start, count)} :
          /\ bitmap' = [g \in Group |-> bitmap[g] \ InGroup(bits, g)]
          /\ gfree' = [g \in Group |-> gfree[g] + Cardinality(InGroup(bits, g))]
          /\ sbfree' = sbfree + Cardinality(bits)
          /\ blocks' = [blocks EXCEPT ![f] = @ - Cardinality(bits)]
    /\ owned' = [owned EXCEPT ![f] = @ \ (start .. start + count - 1)]
    /\ result' = "ok"

-----------------------------------------------------------------------------
Next == \E f \in Inode :
    \/ \E goal \in Goal \cup {None} : AllocBlock(f, goal)
    \/ \E start \in 0 .. GroupCount, count \in 1 .. Cardinality(Usable) : AllocBatch(f, start, count)
    \/ \E start \in owned[f], count \in 1 .. Cardinality(owned[f]) : FreeBlocks(f, start, count)

Spec == Init /\ [][Next]_vars

-----------------------------------------------------------------------------
(* Properties. *)

\* Types of the variables; a count that wrapped below zero is none of them.
TypeOK ==
    /\ bitmap \in [Group -> SUBSET Index]
    /\ gfree \in [Group -> 0 .. BlocksPerGroup]
    /\ sbfree \in 0 .. BlocksCount
    /\ owned \in [Inode -> SUBSET (0 .. BlocksCount)]
    /\ blocks \in [Inode -> 0 .. BlocksCount]
    /\ result \in {"ok", "enospc", "short"}

Held == UNION {owned[f] : f \in Inode}

\* The bitmaps say of every block that files may use whether a file has it, and
\* no block has two owners: nothing is given twice, nothing that was freed is lost
\* and a free range clears no bit of a neighbour (balloc.rs:378 balloc_free_blocks).
BitmapIsExact ==
    /\ \A f, h \in Inode : f # h => owned[f] \cap owned[h] = {}
    /\ \A g \in Group : \A i \in Index :
          Address(i, g) \in Device \ System =>
              (i \in bitmap[g] <=> Address(i, g) \in Held \cup Preused)

\* The three kinds of counts follow from who holds what (balloc.rs:347
\* update_free_block_counts): a group's, the superblock's, each inode's.
CountsAgree ==
    /\ \A g \in Group : gfree[g] = Cardinality({i \in Index : Address(i, g) \in Usable \ Held})
    /\ sbfree = Cardinality(Usable \ Held)
    /\ \A f \in Inode : blocks[f] = Cardinality(owned[f])

\* No file is given a block of the file system's own: "Block allocator now checks
\* for system reserved blocks before allocation" (README.md:170; balloc.rs:449).
NoSystemBlock == Held \cap System = {}

\* A batch is cut short only when no block is left: map_inode_pblk_batch takes the
\* shorter answer for a file system that is near-full (inode.rs:289, balloc.rs:506).
ShortIsTrue == result = "short" => Usable \subseteq Held

\* A clear bit is that of a block the allocators skip or may give away: no other
\* is ever offered (is_system_reserved_block), the positions past the end of the
\* device and the copies it does not know included.
ClearIsFree ==
    /\ Held \subseteq Usable
    /\ \A g \in Group : \A i \in Clear(g) : Address(i, g) \in Usable \/ Reserved(i, g)

\* What holds between any two calls: bits, owners and counts agree.
Inv == TypeOK /\ BitmapIsExact /\ ClearIsFree /\ CountsAgree /\ NoSystemBlock /\ ShortIsTrue

=============================================================================
