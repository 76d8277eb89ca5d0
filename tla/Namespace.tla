----------------------------- MODULE Namespace -----------------------------
(***************************************************************************)
(* The tree of directories and files: creation, hard links, removal,       *)
(* rename and exchange (file.rs, ext4.rs, dir.rs, fuse_interface/mod.rs),  *)
(* and the link counts and blocks they keep.                               *)
(*                                                                         *)
(* A directory is here what Directory shows it to be, a map from names to  *)
(* entries, whose look-up misses "." and ".." once the directory has an    *)
(* index.  The image is a record: node, per inode number; ent, the entries *)
(* per directory; room, the free blocks; ok, FALSE once a step failed.  A  *)
(* call computes an image; journaled() keeps it, or, when the call failed, *)
(* what was there before.                                                  *)
(***************************************************************************)
EXTENDS Integers, FiniteSets, FiniteSetsExt, Functions

CONSTANTS
    Inodes,     \* inode numbers
    Root,       \* ROOT_INODE
    Names,      \* names besides "." and ".."
    Space,      \* blocks of the file system for directories and files
    Full,       \* bound: the fewest entries that may leave a directory without room
    FileBlocks, \* bound: blocks of a file
    LinkSpan,   \* links_count wraps here: 2^16
    DirIndex,   \* the dir_index feature
    Journaled   \* a failed call leaves nothing

ASSUME NamespaceConstants ==
    /\ Inodes \subseteq Nat \ {0} /\ Root \in Inodes /\ {".", ".."} \cap Names = {}
    /\ {Space, Full, FileBlocks, LinkSpan} \subseteq Nat \ {0}
    /\ {DirIndex, Journaled} \subseteq BOOLEAN

VARIABLES
    fs,        \* the image
    removing   \* file_remove between its two transactions: what it unlinks

vars == <<fs, removing>>

Dot == "."
DotDot == ".."
NoCall == <<>>

Types == {"file", "dir", "special", "slowlink", "fastlink"}

Node(type, links, blocks) ==
    [type |-> type, links |-> links, blocks |-> blocks, indexed |-> FALSE]

\* the all-zero slot of an inode that is not in use
NoNode == Node("none", 0, 0)

InUse(s) == {i \in Inodes : s.node[i].type # "none"}
IsDir(s, i) == s.node[i].type = "dir"
Dirs(s) == {i \in Inodes : IsDir(s, i)}
Named(s, d) == DOMAIN s.ent[d] \ {Dot, DotDot}
Target(s, d, name) == s.ent[d][name].ino

Failed(s) == [s EXCEPT !.ok = FALSE]

\* what dir_find_entry finds
Found(s, d, name) ==
    /\ name \in DOMAIN s.ent[d]
    /\ s.node[d].indexed => name \in Names

-----------------------------------------------------------------------------
(* Entries *)

\* the blocks dir_add_entry may append: the first of a new directory, one more
\* when none has room, a leaf and its split when there is or will be an index
Costs(s, d) ==
    LET blocks == s.node[d].blocks
    IN  IF blocks = 0 THEN {1}
        ELSE IF Cardinality(DOMAIN s.ent[d]) < Full THEN {0}
        ELSE IF s.node[d].indexed \/ (DirIndex /\ blocks = 1) THEN 0..2
        ELSE 0..1

\* dir_add_entry; a directory of one block that is full gets an index
AddEntry(s, d, name, i, cost) ==
    LET full == DirIndex /\ s.node[d].blocks = 1 /\ cost > 0
    IN  IF cost > s.room THEN Failed(s)
        ELSE [s EXCEPT
                !.ent[d] = [n \in DOMAIN @ \cup {name} |->
                               IF n = name THEN [ino |-> i, type |-> s.node[i].type]
                               ELSE @[n]],
                !.node[d] = [s.node[d] EXCEPT !.blocks = @ + cost, !.indexed = @ \/ full],
                !.room = @ - cost]

\* dir_remove_entry
RemoveEntry(s, d, name) ==
    IF ~Found(s, d, name) THEN Failed(s)
    ELSE [s EXCEPT !.ent[d] = Restrict(@, DOMAIN @ \ {name})]

\* Mutation: the entry keeps the file type it was added with.
SetEntryInode(s, d, name, i) ==
    IF ~Found(s, d, name) THEN Failed(s)
    ELSE [s EXCEPT !.ent[d][name].ino = i]

\* dir_set_entry_target
SetEntryTarget(s, d, name, i) ==
    IF ~Found(s, d, name) THEN Failed(s)
    ELSE [s EXCEPT !.ent[d][name] = [ino |-> i, type |-> s.node[i].type]]

-----------------------------------------------------------------------------
(* Inodes *)

\* alloc_inode with create_inode: the lowest that is free
FreeInodes(s) == {i \in Inodes : s.node[i].type = "none"}

Create(s, type) ==
    IF FreeInodes(s) = {} THEN Failed(s)
    ELSE LET i == Min(FreeInodes(s)) IN [s EXCEPT !.node[i] = Node(type, 0, 0)]

\* truncate_inode to nothing.  The target of a short symbolic link is taken for
\* an extent tree, whose look-up runs off its end: the call never returns.
Truncate(s, i) ==
    IF s.node[i].type = "fastlink" THEN Failed(s)
    ELSE [s EXCEPT !.room = @ + s.node[i].blocks, !.node[i].blocks = 0]

\* the slot is zeroed and its bit cleared
Release(s, i) == [s EXCEPT !.node[i] = NoNode, !.ent[i] = <<>>]

Less(n) == IF n = 0 THEN 0 ELSE n - 1
OneMore(n) == (n + 1) % LinkSpan

\* link_impl: a directory gets its first block with "." and ".."
Link(s, d, name, i, cost) ==
    LET Dots(t) == IF t.ok THEN AddEntry(t, i, DotDot, d, 0) ELSE t
        Count(t) == IF ~t.ok THEN t
                    ELSE IF IsDir(s, i)
                    THEN [t EXCEPT !.node[i].links = 2, !.node[d].links = OneMore(@)]
                    ELSE [t EXCEPT !.node[i].links = OneMore(@)]
        Then(t) == IF t.ok /\ IsDir(s, i) THEN Dots(AddEntry(t, i, Dot, i, 1)) ELSE t
    IN  Count(Then(AddEntry(s, d, name, i, cost)))

\* the rest of the creation of a slow symbolic link: one block for its target
Fill(s, i, type) ==
    IF type # "slowlink" \/ ~s.ok THEN s
    ELSE IF s.room = 0 THEN Failed(s)
    ELSE [s EXCEPT !.node[i].blocks = 1, !.room = @ - 1]

\* unlink_impl
DropName(s, d, name, i) ==
    LET r == RemoveEntry(s, d, name)
        links == Less(s.node[i].links)
    IN  IF ~r.ok THEN r
        ELSE IF links = 0 THEN Release(r, i)
        ELSE [r EXCEPT !.node[i].links = links]

\* Mutation: the blocks of the file are not freed.
UnlinkOnly(s, d, name) == DropName(s, d, name, Target(s, d, name))

\* fuse_unlink_impl
Unlink(s, d, name) ==
    LET i == Target(s, d, name)
        Then(t) == IF t.ok THEN DropName(t, d, name, i) ELSE t
    IN  Then(IF s.node[i].links = 1 THEN Truncate(s, i) ELSE s)

\* Mutation: a directory is removed with what is in it.
DirRemoveAny(s, d, name) ==
    LET i == Target(s, d, name)
    IN  [Release(Truncate(RemoveEntry(s, d, name), i), i)
            EXCEPT !.node[d].links = Less(@)]

\* dir_remove
DirRemove(s, d, name) ==
    LET i == Target(s, d, name)
    IN  IF Named(s, i) # {} THEN Failed(s)
        ELSE [Release(Truncate(RemoveEntry(s, d, name), i), i)
                EXCEPT !.node[d].links = Less(@)]

-----------------------------------------------------------------------------
(* Rename *)

\* dir_is_ancestor: the walk by ".." from start; TRUE when it meets ancestor
Climb(s, start) ==
    LET up[n \in 0..Cardinality(Inodes)] ==
            IF n = 0 THEN start
            ELSE IF up[n - 1] = Root \/ ~Found(s, up[n - 1], DotDot) THEN up[n - 1]
            ELSE Target(s, up[n - 1], DotDot)
    IN  {up[n] : n \in DOMAIN up}

IsAncestor(s, ancestor, start) == ancestor \in Climb(s, start)

AdjustLinks(s, d, delta) == [s EXCEPT !.node[d].links = Max({@ + delta, 0})]

\* what makes room for the new name: unlink or dir_remove of the old one
Replace(s, i, e, newname) ==
    LET j == Target(s, e, newname)
    IN  IF ~Found(s, e, newname) THEN s
        ELSE IF IsDir(s, j) # IsDir(s, i) THEN Failed(s)
        ELSE IF IsDir(s, j) THEN DirRemove(s, e, newname)
        ELSE Unlink(s, e, newname)

\* Mutation: only the new parent's count is written.
CreditMovesTo(s, d, e, n) == IF s.ok THEN AdjustLinks(s, e, n) ELSE s

\* n links of subdirectories go from d to e
CreditMoves(s, d, e, n) ==
    IF s.ok THEN AdjustLinks(AdjustLinks(s, d, -n), e, n) ELSE s

\* a directory has a new parent
Repointed(s, i, e) ==
    IF s.ok /\ IsDir(s, i) THEN SetEntryTarget(s, i, DotDot, e) ELSE s

AsSubDir(s, i) == IF IsDir(s, i) THEN 1 ELSE 0

\* fuse_rename_impl without RENAME_EXCHANGE
Rename(s, d, name, e, newname, noreplace, cost) ==
    LET i == Target(s, d, name)
        Drop(t) == IF t.ok THEN RemoveEntry(t, d, name) ELSE t
        Put(t) == IF t.ok THEN AddEntry(t, e, newname, i, cost) ELSE t
    IN  IF IsDir(s, i) /\ IsAncestor(s, i, e) THEN Failed(s)
        ELSE IF Found(s, e, newname) /\ noreplace THEN Failed(s)
        ELSE IF Found(s, e, newname) /\ Target(s, e, newname) = i THEN s
        ELSE IF d = e THEN Drop(Put(Replace(s, i, e, newname)))
        ELSE CreditMoves(Repointed(Drop(Put(Replace(s, i, e, newname))), i, e),
                         d, e, AsSubDir(s, i))

Swapped(s, d, name, i, e, newname, j) ==
    SetEntryTarget(SetEntryTarget(s, d, name, j), e, newname, i)

\* what an exchange between two directories changes besides the entries
Between(s, d, i, e, j) ==
    CreditMoves(Repointed(Repointed(s, i, e), j, d),
                d, e, AsSubDir(s, i) - AsSubDir(s, j))

\* Mutation: only the first of the two directories is tested for a loop.
ExchangeUntested(s, d, name, e, newname) ==
    LET i == Target(s, d, name)
        j == Target(s, e, newname)
        swapped == Swapped(s, d, name, i, e, newname, j)
    IN  IF IsDir(s, i) /\ IsAncestor(s, i, e) THEN Failed(s)
        ELSE IF i = j THEN s
        ELSE IF d = e THEN swapped
        ELSE Between(swapped, d, i, e, j)

\* rename_exchange: each of the two takes the place of the other
Exchange(s, d, name, e, newname) ==
    LET i == Target(s, d, name)
        j == Target(s, e, newname)
        swapped == Swapped(s, d, name, i, e, newname, j)
    IN  IF IsDir(s, i) /\ IsAncestor(s, i, e) THEN Failed(s)
        ELSE IF i = j THEN s
        ELSE IF IsDir(s, j) /\ IsAncestor(s, j, d) THEN Failed(s)
        ELSE IF d = e THEN swapped
        ELSE Between(swapped, d, i, e, j)

-----------------------------------------------------------------------------
(* The calls.  What they check themselves is in the operators above; what   *)
(* stands here as a guard is checked by who calls them.                     *)

\* journaled(): what a call leaves
Returns(r) ==
    /\ fs' = IF r.ok \/ ~Journaled THEN [r EXCEPT !.ok = TRUE] ELSE fs
    /\ UNCHANGED removing

Idle == removing = NoCall

\* fuse_create, fuse_mknod, fuse_mkdir, fuse_symlink
CreateNamed(d, name, type, cost) ==
    /\ Idle /\ ~Found(fs, d, name)
    /\ LET i == Min(FreeInodes(fs))
           Then(c) == IF c.ok THEN Fill(Link(c, d, name, i, cost), i, type) ELSE c
       IN  Returns(Then(Create(fs, type)))

FuseLink(i, d, name, cost) ==
    /\ Idle /\ ~Found(fs, d, name) /\ ~IsDir(fs, i)
    /\ Returns(Link(fs, d, name, i, cost))

FuseUnlink(d, name) ==
    /\ Idle /\ ~IsDir(fs, Target(fs, d, name))
    /\ Returns(Unlink(fs, d, name))

FuseRmdir(d, name) ==
    /\ Idle /\ IsDir(fs, Target(fs, d, name))
    /\ Returns(DirRemove(fs, d, name))

FuseRename(d, name, e, newname, noreplace, cost) ==
    /\ Idle
    /\ Returns(Rename(fs, d, name, e, newname, noreplace, cost))

FuseExchange(d, name, e, newname) ==
    /\ Idle
    /\ Returns(Exchange(fs, d, name, e, newname))

\* fuse_write of one block more
FuseWrite(i) ==
    /\ Idle /\ fs.node[i].type = "file" /\ fs.node[i].blocks < FileBlocks
    /\ fs.room > 0
    /\ Returns([fs EXCEPT !.node[i].blocks = @ + 1, !.room = @ - 1])

\* file_remove: one transaction to truncate, one to unlink, a crash between
FileRemove(d, name) ==
    /\ Idle
    /\ LET i == Target(fs, d, name)
       IN  /\ ~IsDir(fs, i) /\ fs.node[i].links = 1
           /\ Truncate(fs, i).ok
           /\ fs' = Truncate(fs, i)
           /\ removing' = <<d, name>>

FileRemoveEnds ==
    /\ ~Idle
    /\ fs' = DropName(fs, removing[1], removing[2],
                      Target(fs, removing[1], removing[2]))
    /\ removing' = NoCall

Crash ==
    /\ ~Idle
    /\ removing' = NoCall
    /\ UNCHANGED fs

-----------------------------------------------------------------------------
RootEntries ==
    [n \in {Dot, DotDot} |-> [ino |-> Root, type |-> "dir"]]

Init ==
    /\ fs = [node |-> [i \in Inodes |-> IF i = Root THEN Node("dir", 2, 1) ELSE NoNode],
             ent |-> [i \in Inodes |-> IF i = Root THEN RootEntries ELSE <<>>],
             room |-> Space - 1,
             ok |-> TRUE]
    /\ removing = NoCall

Next ==
    \/ \E d \in Dirs(fs), name \in Names, type \in Types :
          \E cost \in Costs(fs, d) : CreateNamed(d, name, type, cost)
    \/ \E i \in InUse(fs), d \in Dirs(fs), name \in Names :
          \E cost \in Costs(fs, d) : FuseLink(i, d, name, cost)
    \/ \E d \in Dirs(fs) : \E name \in Named(fs, d) :
          \/ FuseUnlink(d, name)
          \/ FuseRmdir(d, name)
          \/ FileRemove(d, name)
    \/ \E d, e \in Dirs(fs), newname \in Names, noreplace \in BOOLEAN :
          \E name \in Named(fs, d), cost \in Costs(fs, e) :
             FuseRename(d, name, e, newname, noreplace, cost)
    \/ \E d, e \in Dirs(fs) : \E name \in Named(fs, d), newname \in Named(fs, e) :
          FuseExchange(d, name, e, newname)
    \/ \E i \in Inodes : FuseWrite(i)
    \/ FileRemoveEnds
    \/ Crash

Spec == Init /\ [][Next]_vars

-----------------------------------------------------------------------------
(* Properties *)

\* The shape of the image.
TypeOK ==
    /\ fs.ok /\ fs.room \in Nat
    /\ \A i \in Inodes :
          /\ fs.node[i].type \in Types \cup {"none"}
          /\ fs.node[i].links \in 0..(LinkSpan - 1)
          /\ DOMAIN fs.ent[i] \subseteq Names \cup {Dot, DotDot}

Places(i) == {p \in Dirs(fs) \X Names :
                 /\ p[2] \in Named(fs, p[1])
                 /\ Target(fs, p[1], p[2]) = i}

SubDirs(d) == {n \in Named(fs, d) : IsDir(fs, Target(fs, d, n))}

\* The link count of a file is the number of names it has, that of a directory
\* 2 and its subdirectories (file.rs:55, ext4.rs:301, dir.rs:596,
\* fuse_interface/mod.rs:771): no rename, exchange or removal loses one, so that
\* no inode is freed while it is named, or kept when it is not.
LinksExact ==
    \A i \in InUse(fs) :
        fs.node[i].links = IF IsDir(fs, i) THEN 2 + Cardinality(SubDirs(i))
                           ELSE Cardinality(Places(i))

\* Every entry names an inode that is in use, and holds its type
\* (dir.rs:505): the type goes with the target when names are swapped.
EntriesAgree ==
    \A d \in Dirs(fs) : \A n \in DOMAIN fs.ent[d] :
        /\ Target(fs, d, n) \in InUse(fs)
        /\ fs.ent[d][n].type = fs.node[Target(fs, d, n)].type

\* A directory has one name, and its ".." is where that name is
\* (fuse_interface/mod.rs:770, 863).
DotDotIsParent ==
    \A d \in Dirs(fs) \ {Root} :
        \E p \in Places(d) : Places(d) = {p} /\ Target(fs, d, DotDot) = p[1]

\* The tree as its entries tell it: a name leads to an inode in use of the type
\* it gives, and ".." leads back to where the name of a directory is.
Inv == TypeOK /\ EntriesAgree /\ DotDotIsParent

\* the inodes below the root
Below ==
    LET at[n \in 0..Cardinality(Inodes)] ==
            IF n = 0 THEN {Root}
            ELSE at[n - 1] \cup
                 UNION {{Target(fs, d, m) : m \in Named(fs, d)} :
                            d \in at[n - 1] \cap Dirs(fs)}
    IN  at[Cardinality(Inodes)]

\* Every inode in use is below the root: no rename detaches a subtree into a
\* loop (fuse_interface/mod.rs:708).
Rooted == InUse(fs) = Below

\* Every block is free or belongs to an inode in use: what a removed name held
\* is given back (file.rs:733, fuse_interface/mod.rs:297).
BlocksConserved ==
    fs.room + FoldSet(LAMBDA i, sum : sum + fs.node[i].blocks, 0, InUse(fs)) = Space

\* An inode is freed only when its one name goes, a directory only when it is
\* empty (ext4.rs:304, dir.rs:580): a rename that replaces a name included.
FreedByLastName ==
    [][\A i \in InUse(fs) \ {j \in Inodes : fs'.node[j].type # "none"} :
          Cardinality(Places(i)) = 1 /\ Named(fs, i) = {}]_vars
=============================================================================
