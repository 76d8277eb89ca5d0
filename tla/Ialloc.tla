------------------------------- MODULE Ialloc -------------------------------
(***************************************************************************)
(* The inode allocator, src/ext4_impls/ialloc.rs: the inode bitmap of each *)
(* group, its count of free inodes, of directories and of inode-table      *)
(* entries never used, and the free count of the superblock.  What mke2fs  *)
(* puts on the image is external.                                          *)
(***************************************************************************)
EXTENDS Integers, FiniteSets, FiniteSetsExt

CONSTANTS InodeGroups,      \* number of groups balloc.rs computes
          InodesPerGroup,   \* s_inodes_per_group
          TotalInodes,      \* s_inodes_count
          FirstInode        \* inodes below this one are reserved

InodeGroup == 0 .. InodeGroups - 1
InodeIndex == 0 .. InodesPerGroup - 1
InodeNo == 1 .. TotalInodes

ASSUME InodeGeometry ==
    /\ InodeGroups \in Nat \ {0} /\ InodesPerGroup \in Nat \ {0}
    /\ TotalInodes \in 1 .. InodeGroups * InodesPerGroup
    /\ FirstInode \in InodeNo /\ FirstInode <= InodesPerGroup

VARIABLES ibitmap,  \* per group, the set bits of its inode bitmap
          ifree,    \* per group, its free-inodes count
          dirs,     \* per group, its used-directories count
          unused,   \* per group, the inodes at the end of its table never used
          sbifree,  \* the superblock's free-inodes count
          files,    \* inodes given to files and special files
          folders,  \* inodes given to directories
          iresult   \* outcome of the last call: "ok", "enospc"

iallocVars == <<ibitmap, ifree, dirs, unused, sbifree, files, folders, iresult>>

-----------------------------------------------------------------------------
AtLeastZero(n) == Max({n, 0})        \* saturating_sub

Number(i, g) == g * InodesPerGroup + i + 1

\* Mutation: inode numbers are taken to begin with 0.
IndexOfInodeFromZero(n) == n % InodesPerGroup

GroupOfInode(n) == AtLeastZero(n - 1) \div InodesPerGroup    \* get_bgid_of_inode
IndexOfInode(n) == AtLeastZero(n - 1) % InodesPerGroup       \* inode_to_bgidx

\* get_inodes_in_group_cnt: the last group has the rest.
InodesIn(g) == IF g + 1 < InodeGroups THEN InodesPerGroup
               ELSE AtLeastZero(TotalInodes - (InodeGroups - 1) * InodesPerGroup)

RealIn(g) == {i \in InodeIndex : Number(i, g) \in InodeNo}
ReservedIn(g) == {i \in RealIn(g) : Number(i, g) < FirstInode}

\* mke2fs: the reserved inodes and the bits past the end are set.
IallocInit ==
    /\ ibitmap = [g \in InodeGroup |-> ReservedIn(g) \cup (InodeIndex \ RealIn(g))]
    /\ ifree = [g \in InodeGroup |-> Cardinality(RealIn(g) \ ReservedIn(g))]
    /\ dirs = [g \in InodeGroup |-> 0]
    /\ unused = [g \in InodeGroup |-> Cardinality(RealIn(g) \ ReservedIn(g))]
    /\ sbifree = TotalInodes - (FirstInode - 1)
    /\ files = {}
    /\ folders = {}
    /\ iresult = "ok"

-----------------------------------------------------------------------------
(* ialloc_alloc_inode *)

FindClear(g) == {i \in 0 .. InodesIn(g) - 1 : i \notin ibitmap[g]}

\* Mutation: the area of unused entries shrinks up to the new inode, not past it.
StillUnusedOffByOne(g, i) ==
    IF i >= AtLeastZero(InodesIn(g) - unused[g]) THEN AtLeastZero(InodesIn(g) - i) ELSE unused[g]

\* The unused tail of the inode table ends behind an inode allocated in it.
StillUnused(g, i) ==
    IF i >= AtLeastZero(InodesIn(g) - unused[g]) THEN AtLeastZero(InodesIn(g) - (i + 1))
                                                 ELSE unused[g]

\* Mutation: the last group that has inodes is not looked at.
OffersNotLast == {g \in InodeGroup \ {InodeGroups - 2} : ifree[g] > 0 /\ FindClear(g) # {}}

\* Groups that have an inode to give: the count says so and the bitmap too.
Offers == {g \in InodeGroup : ifree[g] > 0 /\ FindClear(g) # {}}

AllocInode(isDir) ==
    IF Offers = {}
    THEN iresult' = "enospc" /\ UNCHANGED <<ibitmap, ifree, dirs, unused, sbifree, files, folders>>
    ELSE \E g \in {Min(Offers)} : \E i \in {Min(FindClear(g))} :
            /\ ibitmap' = [ibitmap EXCEPT ![g] = @ \cup {i}]
            /\ ifree' = [ifree EXCEPT ![g] = @ - 1]
            /\ dirs' = [dirs EXCEPT ![g] = IF isDir THEN @ + 1 ELSE @]
            /\ unused' = [unused EXCEPT ![g] = StillUnused(g, i)]
            /\ sbifree' = AtLeastZero(sbifree - 1)
            /\ files' = IF isDir THEN files ELSE files \cup {Number(i, g)}
            /\ folders' = IF isDir THEN folders \cup {Number(i, g)} ELSE folders
            /\ iresult' = "ok"

-----------------------------------------------------------------------------
(* ialloc_free_inode: the callers pass an inode they own and what it was. *)

\* Mutation: a directory is freed like a file.
FreeInodeAsFile(n, isDir) ==
    /\ n \in (IF isDir THEN folders ELSE files)
    /\ ibitmap' = [ibitmap EXCEPT ![GroupOfInode(n)] = @ \ {IndexOfInode(n)}]
    /\ ifree' = [ifree EXCEPT ![GroupOfInode(n)] = @ + 1]
    /\ sbifree' = sbifree + 1
    /\ files' = files \ {n}
    /\ folders' = folders \ {n}
    /\ iresult' = "ok"
    /\ UNCHANGED <<dirs, unused>>

FreeInode(n, isDir) ==
    /\ n \in (IF isDir THEN folders ELSE files)
    /\ ibitmap' = [ibitmap EXCEPT ![GroupOfInode(n)] = @ \ {IndexOfInode(n)}]
    /\ ifree' = [ifree EXCEPT ![GroupOfInode(n)] = @ + 1]
    /\ dirs' = [dirs EXCEPT ![GroupOfInode(n)] = IF isDir THEN AtLeastZero(@ - 1) ELSE @]
    /\ sbifree' = sbifree + 1
    /\ files' = files \ {n}
    /\ folders' = folders \ {n}
    /\ iresult' = "ok"
    /\ UNCHANGED unused

-----------------------------------------------------------------------------
IallocNext == \E isDir \in BOOLEAN : \/ AllocInode(isDir)
                               \/ \E n \in InodeNo : FreeInode(n, isDir)

IallocSpec == IallocInit /\ [][IallocNext]_iallocVars

-----------------------------------------------------------------------------
(* Properties. *)

\* Types of the variables.
IallocTypeOK ==
    /\ ibitmap \in [InodeGroup -> SUBSET InodeIndex]
    /\ ifree \in [InodeGroup -> 0 .. InodesPerGroup]
    /\ dirs \in [InodeGroup -> 0 .. InodesPerGroup]
    /\ unused \in [InodeGroup -> 0 .. InodesPerGroup]
    /\ sbifree \in 0 .. TotalInodes
    /\ files \subseteq InodeNo /\ folders \subseteq InodeNo
    /\ iresult \in {"ok", "enospc"}

InUse == files \cup folders
FreeInodes == (FirstInode .. TotalInodes) \ InUse
OfGroup(S, g) == {n \in S : (n - 1) \div InodesPerGroup = g}

\* Reserved inodes are never handed out, nor numbers past the last inode: nobody
\* has one, and no free clears the bit of one (inode.rs:14, ialloc.rs:27).
ReservedKept ==
    /\ InUse \subseteq FirstInode .. TotalInodes
    /\ \A g \in InodeGroup : ReservedIn(g) \cup (InodeIndex \ RealIn(g)) \subseteq ibitmap[g]

\* An inode's bit is set exactly while somebody has the inode, so none is given
\* twice: freeing one "hands a live inode back out" (inode.rs:14) when it clears
\* the bit of another.
InodeBitmapIsExact ==
    /\ files \cap folders = {}
    /\ \A g \in InodeGroup : \A i \in RealIn(g) \ ReservedIn(g) :
          i \in ibitmap[g] <=> Number(i, g) \in InUse

\* The counts follow from who holds what: free inodes of a group and of the
\* file system, directories of a group (ialloc.rs:48-72, 108-122).
InodeCountsAgree ==
    /\ \A g \in InodeGroup : /\ ifree[g] = Cardinality(OfGroup(FreeInodes, g))
                        /\ dirs[g] = Cardinality(OfGroup(folders, g))
    /\ sbifree = Cardinality(FreeInodes)

\* Whoever reads the image and skips the unused tails of the inode tables misses
\* no inode in use (ialloc.rs:61-66, itable_unused).
UnusedTailIsUnused ==
    \A g \in InodeGroup : \A i \in RealIn(g) :
        Number(i, g) \in InUse => i < InodesIn(g) - unused[g]

\* An allocation fails only when every inode is in use (ialloc.rs:13-15).
EnospcIsTrue == iresult = "enospc" => FreeInodes = {}

\* All of it: bitmaps, counts, unused tails and owners tell one story after every
\* allocation and every free (ialloc.rs:13-125).
IallocInv == /\ IallocTypeOK
             /\ ReservedKept
             /\ InodeBitmapIsExact
             /\ InodeCountsAgree
             /\ UnusedTailIsUnused
             /\ EnospcIsTrue

=============================================================================
