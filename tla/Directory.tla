----------------------------- MODULE Directory -----------------------------
(***************************************************************************)
(* One directory: the calls that add, remove and retarget entries          *)
(* (dir_add_entry, dir_remove_entry, dir_set_entry_target), the look-up    *)
(* that its callers make, and an enumeration that a reader resumes with    *)
(* the cookies it was given while the directory changes.                   *)
(*                                                                         *)
(* entries is no state of the code: what the directory means to a caller,  *)
(* from the calls that succeeded.                                          *)
(***************************************************************************)
EXTENDS Htree

CONSTANTS
    Names,       \* names of entries besides "." and ".."
    Self,        \* the inode number of the directory
    Parent,      \* the inode number of the directory it is made in
    Children,    \* the inode numbers that entries are added for
    Targets,     \* the inode numbers that entries are repointed to
    Features,    \* the values of the dir_index feature to start with
    MaxChanges,  \* bound: entries removed or retargeted
    Journaled,   \* a failed call leaves nothing, as journaled() arranges
    Listing,     \* bound: a reader is at work "always" or in a "linear" directory
    ListFrom     \* bound: the entries there are when it starts

ASSUME DirectoryConstants ==
    /\ AllNames = Names \cup {Dot, DotDot}
    /\ {Dot, DotDot} \cap Names = {}
    /\ Inodes = {Self, Parent} \cup Children \cup Targets
    /\ Features \subseteq BOOLEAN
    /\ MaxChanges \in Nat
    /\ Journaled \in BOOLEAN
    /\ Listing \in {"linear", "always"}
    /\ ListFrom \in Nat

VARIABLES
    dir,        \* the blocks of the directory, a record of Htree
    indexed,    \* the INDEX flag of its inode
    dir_index,  \* the dir_index feature of the file system
    entries,    \* name -> inode
    changes,    \* how many entries were removed or retargeted
    reader      \* an enumeration: its cookie, what it saw, what was there all along

vars == <<dir, indexed, dir_index, entries, changes, reader>>

-----------------------------------------------------------------------------
(* dir_find_entry: by the index when there is one, where an absent name is *)
(* final; block after block otherwise                                      *)

Places(d, name) ==
    LET blocks == IF indexed THEN {LeafOf(d, Hash[name])} ELSE DOMAIN d.blk
    IN  UNION {{<<k, o>> : o \in Named(d.blk[k], name)} : k \in blocks}

Position(place) == place[1] * End + place[2]

First(places) == CHOOSE p \in places : \A q \in places : Position(p) <= Position(q)

Found(d, name) == Places(d, name) # {}

Find(d, name) == LET p == First(Places(d, name)) IN d.blk[p[1]][p[2]].ino

-----------------------------------------------------------------------------
(* dir_add_entry *)

WithRoom(d, name) == {k \in DOMAIN d.blk : Roomy(d.blk[k], name) # {}}

LinearAdd(d, name, ino) ==
    LET k == Least(WithRoom(d, name))
        new == BlockCount(d)
    IN  IF WithRoom(d, name) # {}
        THEN PutBlock(d, k, InsertEntry(d.blk[k], name, ino))
        ELSE IF CanAppend(d) THEN PutBlock(d, new, FreshBlock(name, ino))
        ELSE Failed(d)

ConvertAndAdd(d, name, ino) ==
    LET Then(c) == IF c.ok THEN IndexedAdd(c, name, ino) ELSE c
    IN  Then(Convert(d))

\* a full directory of one block gets an index
Converts(d, name) ==
    dir_index /\ ~indexed /\ BlockCount(d) = 1 /\ WithRoom(d, name) = {}

AddEntry(d, name, ino) ==
    IF indexed THEN IndexedAdd(d, name, ino)
    ELSE IF Converts(d, name) THEN ConvertAndAdd(d, name, ino)
    ELSE LinearAdd(d, name, ino)

\* what a call leaves: nothing when it failed and is undone
Lasts(r) == r.ok \/ ~Journaled

Added(r, name, ino) ==
    /\ dir' = IF Lasts(r) THEN [r EXCEPT !.ok = TRUE] ELSE dir
    /\ indexed' = (indexed \/ (Converts(dir, name) /\ CanAppend(dir) /\ Lasts(r)))
    /\ entries' = IF r.ok THEN With(entries, name, ino) ELSE entries
    /\ reader' = [reader EXCEPT !.on = @ /\ (indexed' => Listing = "always")]
    /\ UNCHANGED <<dir_index, changes>>

\* callers look the name up before they add it
Add(name, ino) ==
    /\ ~Found(dir, name)
    /\ Added(AddEntry(dir, name, ino), name, ino)

-----------------------------------------------------------------------------
(* dir_remove_entry and dir_set_entry_target *)

Change == changes < MaxChanges /\ changes' = changes + 1

RemoveEntry(name) ==
    /\ Change
    /\ Found(dir, name)
    /\ LET p == First(Places(dir, name))
       IN  dir' = PutBlock(dir, p[1], EraseAt(dir.blk[p[1]], p[2]))
    /\ entries' = [n \in DOMAIN entries \ {name} |-> entries[n]]
    /\ reader' = [reader EXCEPT !.seen = @ \ {name}, !.always = @ \ {name}]
    /\ UNCHANGED <<indexed, dir_index>>

SetEntryTarget(name, ino) ==
    /\ Change
    /\ Found(dir, name)
    /\ LET p == First(Places(dir, name))
       IN  dir' = PutBlock(dir, p[1], RetargetAt(dir.blk[p[1]], p[2], ino))
    /\ entries' = [entries EXCEPT ![name] = ino]
    /\ UNCHANGED <<indexed, dir_index, reader>>

-----------------------------------------------------------------------------
(* dir_entries_with_offset_from, one entry at a time *)

Behind(pos) ==
    {p \in UNION {{<<k, o>> : o \in Used(dir.blk[k])} : k \in DOMAIN dir.blk} :
        Position(p) >= pos}

Listable == indexed => Listing = "always"

StartListing ==
    /\ Listable /\ ~reader.on
    /\ Cardinality(DOMAIN entries) = ListFrom
    /\ reader' = [on |-> TRUE, cookie |-> 0, seen |-> {}, always |-> DOMAIN entries]
    /\ UNCHANGED <<dir, indexed, dir_index, entries, changes>>

\* Mutation: the cookie is the position of the entry itself.
ReadDirAgain ==
    /\ Listable /\ reader.on
    /\ LET p == First(Behind(reader.cookie))
           e == dir.blk[p[1]][p[2]]
       IN  reader' = IF Behind(reader.cookie) = {}
                     THEN [on |-> FALSE, cookie |-> 0, seen |-> {}, always |-> {}]
                     ELSE [reader EXCEPT !.cookie = Position(p),
                                         !.seen = @ \cup {e.name}]
    /\ UNCHANGED <<dir, indexed, dir_index, entries, changes>>

ReadDir ==
    /\ Listable /\ reader.on
    /\ LET p == First(Behind(reader.cookie))
           e == dir.blk[p[1]][p[2]]
       IN  reader' = IF Behind(reader.cookie) = {}
                     THEN [on |-> FALSE, cookie |-> 0, seen |-> {}, always |-> {}]
                     ELSE [reader EXCEPT !.cookie = Position(p) + e.len,
                                         !.seen = @ \cup {e.name}]
    /\ UNCHANGED <<dir, indexed, dir_index, entries, changes>>

-----------------------------------------------------------------------------
(* link_impl gives a new directory "." and ".." *)

NewDirectory ==
    [blk |-> [k \in {0} |->
                InsertEntry(FreshBlock(Dot, Self), DotDot, Parent)],
     idx |-> <<>>, levels |-> 0, ok |-> TRUE, self |-> Self]

Init ==
    /\ dir_index \in Features
    /\ dir = NewDirectory
    /\ indexed = FALSE
    /\ entries = [n \in {Dot, DotDot} |-> IF n = Dot THEN Self ELSE Parent]
    /\ changes = 0
    /\ reader = [on |-> FALSE, cookie |-> 0, seen |-> {}, always |-> {}]

Next ==
    \/ \E name \in Names, ino \in Children : Add(name, ino)
    \/ \E name \in Names : RemoveEntry(name)
    \/ \E name \in Names \cup {DotDot}, ino \in Targets : SetEntryTarget(name, ino)
    \/ StartListing
    \/ ReadDir

Spec == Init /\ [][Next]_vars

-----------------------------------------------------------------------------
(* Properties *)

\* The shape of the state.
TypeOK ==
    /\ dir.ok /\ indexed \in BOOLEAN /\ dir.levels \in 0..MaxLevels
    /\ DOMAIN dir.blk = 0..(BlockCount(dir) - 1)
    /\ DOMAIN entries \subseteq AllNames
    /\ reader.cookie \in 0..(BlockCount(dir) * End)

\* The records of every block follow each other without a gap or an overlap up
\* to the tail, and none is shorter than its name needs: a walk over the block
\* sees every entry (dir.rs:111, 400, 457, htree.rs:466).
RecordsTile ==
    \A k \in DOMAIN dir.blk :
        k \notin DOMAIN dir.idx => Tiled(dir.blk[k])

\* A look-up finds exactly the names that were added and not removed, with the
\* inode they were given last, by the index as by the walk (dir.rs:31,
\* htree.rs:323): no split of a leaf or a node hides or moves a name from
\* where its hash leads.
FindIsExact ==
    \A n \in Names :
        /\ Found(dir, n) <=> n \in DOMAIN entries
        /\ n \in DOMAIN entries => Find(dir, n) = entries[n]

\* A walk over all the blocks lists each entry once, "." and ".." with the
\* others (dir.rs:155): what is moved to another block does not stay behind.
ListedOnce ==
    \A n \in AllNames :
        Cardinality(UNION {{<<k, o>> : o \in Named(dir.blk[k], n)} : k \in DOMAIN dir.blk})
            = (IF n \in DOMAIN entries THEN 1 ELSE 0)

EntryAt(n) ==
    CHOOSE p \in UNION {{<<k, o>> : o \in Named(dir.blk[k], n)} : k \in DOMAIN dir.blk} : TRUE

\* An enumeration resumed with its cookie returns what is there all along
\* exactly once: what it has returned lies before the cookie, the rest behind
\* (direntry.rs:31).
ListingIsStable ==
    reader.on =>
        /\ \A n \in reader.seen : Position(EntryAt(n)) < reader.cookie
        /\ \A n \in reader.always \ reader.seen :
              Position(EntryAt(n)) >= reader.cookie

\* What holds between any two calls: the blocks can be walked, and a walk finds
\* each entry in one place, however records were split, merged and moved.
Inv == TypeOK /\ RecordsTile /\ ListedOnce

\* ".." is found in every directory (dir.rs:31): a move of the directory
\* repoints it, and the test for loops climbs by it.
DotDotIsFound == Found(dir, DotDot)
=============================================================================
