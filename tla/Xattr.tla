------------------------------- MODULE Xattr -------------------------------
(***************************************************************************)
(* Extended attributes (xattr.rs): a file keeps its attributes in the      *)
(* bytes of its inode record behind the fields, or in one block of its     *)
(* own; a value as large as a block goes to an inode of its own (an EA     *)
(* inode), whose data takes blocks, and as many as are left if they are    *)
(* too few.  A new file inherits access control lists from its directory   *)
(* (acl.rs).                                                               *)
(*                                                                         *)
(* The image is a record: file, per inode number; block, the contents of   *)
(* the attribute blocks in use; ea, the values of the EA inodes in use, as *)
(* they read back, and the blocks they have; ok, FALSE once a step failed. *)
(* A call computes an image, and journaled() keeps it or what was there    *)
(* before.                                                                 *)
(*                                                                         *)
(* attrs and lost are no state of the code: the attributes each file       *)
(* should have, and the blocks and EA inodes that removed files left.      *)
(***************************************************************************)
EXTENDS Acl, FiniteSets, FiniteSetsExt, Functions

CONSTANTS
    Files,       \* inode numbers of files and directories
    Top,         \* the directory the others are made in
    Access,      \* "system.posix_acl_access"
    Default,     \* "system.posix_acl_default"
    Names,       \* attribute names, Access and Default among them, as entries are sorted
    Values,      \* attribute values, all of them access control lists
    EntryLen,    \* per name: entry_len
    BodyRoom,    \* bytes of the inode body for attributes, 0: none
    BlockRoom,   \* bytes of a block behind its header
    BlockEntries, \* list entries of 8 bytes in one block
    Blocks,      \* the blocks there are for attributes and large values
    BlockUnits,  \* i_blocks of one block
    EaInodes,    \* the inodes there are for values
    EaFeature,   \* the ea_inode feature
    Modes,       \* modes that calls make files with
    Umask,       \* permissions the caller's umask takes from a mode
    Owner,       \* the user and the group that files belong to
    Group,
    Ids,         \* users and groups that ask for access
    Journaled    \* a failed call leaves nothing

NoBlock == 0
Inline == 0

AttrNames == Range(Names)

\* bytes of a list: a version, then its entries
ValueLen(v) == 4 + 8 * Len(v)
BlockSize == 8 * BlockEntries

ASSUME XattrConstants ==
    /\ Files \cup EaInodes \cup Blocks \subseteq Nat \ {0}
    /\ Top \in Files /\ (Files \cup Blocks) \cap EaInodes = {}
    /\ Access # Default /\ {Access, Default} \subseteq AttrNames
    /\ EntryLen \in [AttrNames -> Nat \ {0}]
    /\ {BodyRoom, BlockRoom, BlockUnits} \subseteq Nat
    /\ BlockEntries \in Nat \ {0} /\ BlockRoom < BlockSize
    /\ Values \subseteq Seq(Entry) /\ \A v \in Values : WellFormed(v)
    /\ Modes \cup {Umask} \subseteq ModeType
    /\ Names \in Seq(AttrNames) /\ IsInjective(Names)
    /\ IsFiniteSet(EaInodes) /\ IsFiniteSet(Blocks)
    /\ {EaFeature, Journaled} \subseteq BOOLEAN

VARIABLES
    fs,     \* the image
    attrs,  \* per file: name -> value
    lost    \* blocks and EA inodes no live file refers to

vars == <<fs, attrs, lost>>

Failed(s) == [s EXCEPT !.ok = FALSE]

\* maps: without some names, with one more, and one that goes before another
Without(f, S) == Restrict(f, DOMAIN f \ S)
Put(f, n, v) == [x \in DOMAIN f \cup {n} |-> IF x = n THEN v ELSE f[x]]
Over(f, g) == [x \in DOMAIN f \cup DOMAIN g |-> IF x \in DOMAIN f THEN f[x] ELSE g[x]]

\* the entries of the block of a file: a value, or the inode that has it
Held(s, o) == IF s.file[o].block = NoBlock THEN <<>> ELSE s.block[s.file[o].block]

EasOf(s, o) == {Held(s, o)[n].ea : n \in DOMAIN Held(s, o)} \ {Inline}

\* xattr_collect, as xattr_get reads it: the body first
Collected(s, o) ==
    Over(s.file[o].body,
         [n \in DOMAIN Held(s, o) |->
             LET item == Held(s, o)[n]
             IN  IF item.ea = Inline THEN item.val ELSE s.ea[item.ea].val])

-----------------------------------------------------------------------------
(* Room *)

Bytes(m, spilled) ==
    FoldSet(LAMBDA n, sum : sum + EntryLen[n] + (IF n \in spilled THEN 0 ELSE ValueLen(m[n])),
            4, DOMAIN m)

\* serialize_region and serialize_block find room
FitsBody(m) == BodyRoom > 0 /\ Bytes(m, {}) <= BodyRoom

Spilled(m) == {n \in DOMAIN m : EaFeature /\ ValueLen(m[n]) >= BlockSize}

FitsBlock(m) == Bytes(m, Spilled(m)) <= BlockRoom

-----------------------------------------------------------------------------
(* Large values *)

FreeInodes(s) == EaInodes \ DOMAIN s.ea

FreeBlocks(s) == Blocks \ (DOMAIN s.block \cup UNION {s.ea[e].blocks : e \in DOMAIN s.ea})

\* the blocks that a list takes, and as many of those that are free as there are
Pages(v) == Min({k \in 1..(Len(v) + 1) : ValueLen(v) <= k * BlockSize})

Taken(free, k) ==
    CHOOSE B \in SUBSET free : Cardinality(B) = Min({k, Cardinality(free)})

\* What a list reads as whose first k blocks were written, zeros behind them:
\* a block ends between the tag and the id of an entry.
Cut(v, k) ==
    [i \in DOMAIN v |->
        IF i < k * BlockEntries THEN v[i]
        ELSE IF i = k * BlockEntries THEN [v[i] EXCEPT !.id = 0]
        ELSE [tag |-> "none", id |-> 0, perm |-> {}]]

\* Mutation: the last block, not full, is not counted.
CreateEaRounded(r, n, v) ==
    LET s == r.img
        e == Min(FreeInodes(s))
        data == Taken(FreeBlocks(s), ValueLen(v) \div BlockSize)
        put == [s EXCEPT !.ea = Put(@, e, [val |-> Cut(v, Cardinality(data)), blocks |-> data])]
    IN  IF ~s.ok \/ FreeInodes(s) = {} THEN [r EXCEPT !.img = Failed(s)]
        ELSE [img |-> IF data = {} THEN Failed(put) ELSE put, ea |-> Put(r.ea, n, e)]

\* create_ea_inode: an inode and, of the blocks of the value, as many as are
\* free; none is an error, too few is not
CreateEa(r, n, v) ==
    LET s == r.img
        e == Min(FreeInodes(s))
        data == Taken(FreeBlocks(s), Pages(v))
        put == [s EXCEPT !.ea = Put(@, e, [val |-> Cut(v, Cardinality(data)), blocks |-> data])]
    IN  IF ~s.ok \/ FreeInodes(s) = {} THEN [r EXCEPT !.img = Failed(s)]
        ELSE [img |-> IF data = {} THEN Failed(put) ELSE put, ea |-> Put(r.ea, n, e)]

\* Inodes for the large values: in the order of their names, n last, which the
\* call is about.
CreateEas(s, m, n) ==
    LET none == [img |-> s, ea |-> <<>>]
        upto[k \in 0..Len(Names)] ==
            IF k = 0 THEN none
            ELSE IF Names[k] \in Spilled(m) \ {n} THEN CreateEa(upto[k - 1], Names[k], m[Names[k]])
            ELSE upto[k - 1]
    IN  IF n \in Spilled(m) THEN CreateEa(upto[Len(Names)], n, m[n]) ELSE upto[Len(Names)]

-----------------------------------------------------------------------------
(* The block *)

EaUnits(inode) == BlockUnits * Cardinality(inode.blocks)

UnitsOf(s, inodes) == FoldSet(LAMBDA e, sum : sum + EaUnits(s.ea[e]), 0, inodes)

\* i_file_acl and i_blocks of a file
Charge(file, block, units) == [file EXCEPT !.block = block, !.charge = units]

\* Mutation: the inodes of the old values stay in use.
FreeEasNot(s, o) == s

\* free_block_ea_inodes
FreeEas(s, o) == [s EXCEPT !.ea = Without(@, EasOf(s, o))]

\* Mutation: the owner is still charged for the values.
FreeBlockCharged(s, o) ==
    IF s.file[o].block = NoBlock THEN s
    ELSE [FreeEas(s, o) EXCEPT
            !.block = Without(@, {s.file[o].block}),
            !.file[o] = Charge(@, NoBlock, Max({@.charge - BlockUnits, 0}))]

\* free_xattr_block
FreeBlock(s, o) ==
    LET units == UnitsOf(s, EasOf(s, o))
    IN  IF s.file[o].block = NoBlock THEN s
        ELSE [FreeEas(s, o) EXCEPT
                !.block = Without(@, {s.file[o].block}),
                !.file[o] = Charge(@, NoBlock, Max({@.charge - units, 0}) - BlockUnits)]

\* the block of the file, or a new one that it is charged for
BlockFor(s, o) ==
    IF s.file[o].block # NoBlock THEN s.file[o].block ELSE Min(FreeBlocks(s))

NewUnits(s, o) == IF s.file[o].block = NoBlock THEN BlockUnits ELSE 0

\* write_block_attrs: the block is written anew, with new inodes for large values
WriteBlock(s, o, m, n) ==
    LET made == CreateEas(FreeEas(s, o), m, n)
        put == made.img
        units == UnitsOf(put, Range(made.ea)) - UnitsOf(s, EasOf(s, o))
        items == [x \in DOMAIN m |-> IF x \in Spilled(m) THEN [val |-> <<>>, ea |-> made.ea[x]]
                                    ELSE [val |-> m[x], ea |-> Inline]]
    IN  IF ~put.ok THEN put
        ELSE IF ~FitsBlock(m) \/ (s.file[o].block = NoBlock /\ FreeBlocks(put) = {}) THEN Failed(put)
        ELSE [put EXCEPT
                !.block = Put(@, BlockFor(put, o), items),
                !.file[o] = Charge(@, BlockFor(put, o), @.charge + NewUnits(s, o) + units)]

\* write_ibody_attrs
WriteBody(s, o, m) == [s EXCEPT !.file[o].body = m]

\* Mutation: the body keeps what now lives in the block.
StoreTwice(s, o, m, n) ==
    IF m = <<>> THEN FreeBlock(WriteBody(s, o, <<>>), o)
    ELSE IF s.file[o].block = NoBlock /\ FitsBody(m) THEN WriteBody(s, o, m)
    ELSE WriteBlock(s, o, m, n)

\* xattr_store: the body while there is no block, then the block
Store(s, o, m, n) ==
    IF m = <<>> THEN FreeBlock(WriteBody(s, o, <<>>), o)
    ELSE IF s.file[o].block = NoBlock /\ FitsBody(m) THEN WriteBody(s, o, m)
    ELSE WriteBlock(WriteBody(s, o, <<>>), o, m, n)

Set(s, o, n, v) == IF s.ok THEN Store(s, o, Put(Collected(s, o), n, v), n) ELSE s

-----------------------------------------------------------------------------
(* Inheritance: posix_acl_create *)

NewMode(m, mode) ==
    IF Default \in DOMAIN m THEN MasqMode(m[Default], mode)
    ELSE Mode(mode.user \ Umask.user, mode.group \ Umask.group, mode.other \ Umask.other)

\* what a new file gets besides its mode
Inherited(m, mode, isdir) ==
    IF Default \notin DOMAIN m THEN <<>>
    ELSE [n \in (IF SaysMore(m[Default]) THEN {Access} ELSE {})
                 \cup (IF isdir THEN {Default} ELSE {}) |->
             IF n = Access THEN Masq(m[Default], mode) ELSE m[Default]]

\* the access ACL is set first
SetAll(s, o, m) ==
    LET One(t, n) == IF n \in DOMAIN m THEN Set(t, o, n, m[n]) ELSE t
    IN  One(One(s, Access), Default)

-----------------------------------------------------------------------------
(* The calls *)

Live == {o \in Files : fs.file[o].live}

Keep(r) == r.ok \/ ~Journaled

\* journaled(): what a call leaves, and what it should have left
Returns(r, o, m) ==
    /\ fs' = IF Keep(r) THEN [r EXCEPT !.ok = TRUE] ELSE fs
    /\ attrs' = IF r.ok THEN [attrs EXCEPT ![o] = m] ELSE attrs
    /\ UNCHANGED lost

\* xattr_set with XATTR_CREATE or XATTR_REPLACE; with neither it does what the
\* one of them does that is not refused
XattrSet(o, n, v, flag) ==
    /\ flag = "create" => n \notin DOMAIN Collected(fs, o)
    /\ flag = "replace" => n \in DOMAIN Collected(fs, o)
    /\ Returns(Set(fs, o, n, v), o, Put(attrs[o], n, v))

XattrRemove(o, n) ==
    /\ n \in DOMAIN Collected(fs, o)
    /\ Returns(Store(fs, o, Without(Collected(fs, o), {n}), n), o, Without(attrs[o], {n}))

\* create_inode: the fields are written, not the body of the record
NewSlot(s, o, mode) ==
    [s EXCEPT !.file[o] = [@ EXCEPT !.live = TRUE, !.mode = mode, !.block = NoBlock, !.charge = 0]]

\* a call that makes a file or directory in Top
Create(o, mode, isdir) ==
    LET slot == NewSlot(fs, o, NewMode(Collected(fs, Top), mode))
        more == Inherited(Collected(fs, Top), mode, isdir)
    IN  /\ o \notin Live
        /\ Returns(SetAll(slot, o, more), o, Over(more, Collected(slot, o)))

\* unlink_impl, dir_remove: the fields are zeroed, the block is not given back
Remove(o) ==
    /\ o \in Live \ {Top}
    /\ fs' = [fs EXCEPT !.file[o] = [@ EXCEPT !.live = FALSE, !.mode = Mode({}, {}, {}),
                                              !.block = NoBlock, !.charge = 0]]
    /\ attrs' = [attrs EXCEPT ![o] = <<>>]
    /\ lost' = lost \cup EasOf(fs, o) \cup ({fs.file[o].block} \ {NoBlock})

-----------------------------------------------------------------------------
Init ==
    /\ fs = [file |-> [o \in Files |-> [live |-> o = Top, mode |-> Mode({}, {}, {}),
                                        body |-> <<>>, block |-> NoBlock, charge |-> 0]],
             block |-> <<>>, ea |-> <<>>, ok |-> TRUE]
    /\ attrs = [o \in Files |-> <<>>]
    /\ lost = {}

Next ==
    \/ \E o \in Live, n \in AttrNames, v \in Values, flag \in {"create", "replace"} : XattrSet(o, n, v, flag)
    \/ \E o \in Live, n \in AttrNames : XattrRemove(o, n)
    \/ \E o \in Files, mode \in Modes, isdir \in BOOLEAN : Create(o, mode, isdir)
    \/ \E o \in Files : Remove(o)

Spec == Init /\ [][Next]_vars

-----------------------------------------------------------------------------
(* Properties *)

\* The shape of the image.
TypeOK ==
    /\ fs.ok
    /\ DOMAIN fs.block \subseteq Blocks /\ DOMAIN fs.ea \subseteq EaInodes
    /\ \A o \in Files : fs.file[o].block \in DOMAIN fs.block \cup {NoBlock}
    /\ \A e \in DOMAIN fs.ea : fs.ea[e].blocks \subseteq Blocks

\* "the crate must read it back" (tests/block_size_harness.rs:1553): a file has
\* the attributes that were set and not removed, each with the value it was
\* given last, wherever it is stored.  create_ea_inode drops the count that
\* write_at returns (xattr.rs:647), so that a value whose blocks do not suffice
\* is stored short and the call succeeds.
ReadsExact == \A o \in Live : Collected(fs, o) = attrs[o]

\* A file has the attributes that were set and not removed, and each reads as
\* the value it was given last up to the end of some block, with zeros from
\* there on (xattr.rs:503, 647): never another value, never an older one, and
\* a value that goes into no inode of its own always whole.
ReadsCut ==
    \A o \in Live :
        /\ DOMAIN Collected(fs, o) = DOMAIN attrs[o]
        /\ \A n \in DOMAIN attrs[o] :
              \E k \in 1..Pages(attrs[o][n]) : Collected(fs, o)[n] = Cut(attrs[o][n], k)

\* A value is cut only by the call that takes the last free block, and no call
\* cuts two: otherwise each reads as before the call or as it was set (xattr.rs:647,
\* file.rs:503).
CutsAtTheEnd ==
    [][LET cuts(o) == {n \in DOMAIN attrs'[o] :
                          /\ fs'.file[o].live /\ Collected(fs', o)[n] # attrs'[o][n]
                          /\ n \in DOMAIN Collected(fs, o) => Collected(fs', o)[n] # Collected(fs, o)[n]}
       IN  \A o, p \in Files : \A x \in cuts(o), y \in cuts(p) :
              o = p /\ x = y /\ FreeBlocks(fs') = {}]_vars

\* A block or EA inode in use belongs to one live file, or is one that a
\* removed file left behind, and a block holds the attributes of one file or
\* data of one value; nothing is freed twice or used by two (xattr.rs:532, 587).
OneOwner ==
    LET Refs(o) == EasOf(fs, o) \cup ({fs.file[o].block} \ {NoBlock})
    IN  /\ (UNION {Refs(o) : o \in Live}) \cup lost = DOMAIN fs.block \cup DOMAIN fs.ea
        /\ \A o, p \in Live : o # p => Refs(o) \cap Refs(p) = {}
        /\ \A o \in Live : Refs(o) \cap lost = {}
        /\ \A e \in DOMAIN fs.ea :
              /\ fs.ea[e].blocks \cap DOMAIN fs.block = {}
              /\ \A f \in DOMAIN fs.ea \ {e} : fs.ea[e].blocks \cap fs.ea[f].blocks = {}

\* The attribute block and the blocks of the EA inodes that a file uses are
\* charged to it, nothing else of the kind (xattr.rs:572).
ChargeExact ==
    \A o \in Live :
        fs.file[o].charge = UnitsOf(fs, EasOf(fs, o)) +
            (IF fs.file[o].block = NoBlock THEN 0 ELSE BlockUnits)

\* The attributes of a file are in one place, and a block holds at least one
\* (xattr.rs:488, 506).
OnePlace ==
    \A o \in Live : fs.file[o].block # NoBlock =>
        fs.file[o].body = <<>> /\ Held(fs, o) # <<>>

\* Where attributes are and what they cost: one place per file, and i_blocks says
\* what it takes.
Inv == TypeOK /\ OnePlace /\ ChargeExact

Wants == SUBSET UNION {m.user \cup m.group \cup m.other : m \in Modes}

\* acl_access_check; without a list the mode decides, and this says nothing
Grants(s, o, uid, gid, want) ==
    Granted(Collected(s, o)[Access], Owner, Group, uid, gid, want)

\* An access list, a cut one too, grants what the rule of POSIX.1e grants for
\* the entries it still has (acl.rs:126): the first user entry that matches
\* decides, one of the groups must grant it all, and a group that matched is
\* not overridden by the others' entry.
AccessIsPosix ==
    \A o \in Live : Access \in DOMAIN Collected(fs, o) =>
        LET acl == Collected(fs, o)[Access]
        IN  \A uid, gid \in Ids, p \in Wants :
                Granted(acl, Owner, Group, uid, gid, p) <=> PosixGrants(acl, Owner, Group, uid, gid, p)

ModeFor(mode, acl, uid, gid) ==
    IF uid = Owner THEN mode.user
    ELSE IF InGroupClass(acl, Group, uid, gid) THEN mode.group
    ELSE mode.other

\* A new file that inherits an access list is open to its owner and to others
\* as its mode says, and to the group class no wider than its mode says
\* (acl.rs:210): list and mode are clamped together, and the list is stored
\* whole.  This is about slots that keep no access list of a removed file, and
\* directories whose default list was not cut: one that lost its mask is clamped
\* at the owning group.
CreatedWithinMode ==
    [][\A o \in Files \ Live :
          /\ fs'.file[o].live /\ Access \in DOMAIN attrs'[o] \ DOMAIN fs.file[o].body
          /\ WellFormed(Collected(fs, Top)[Default])
          => \A uid, gid \in Ids, p \in Wants :
                  Grants(fs', o, uid, gid, p) =>
                      p \subseteq ModeFor(fs'.file[o].mode, Collected(fs', o)[Access], uid, gid)]_vars

\* A new file has no attributes but those it inherits: the slot of a removed
\* inode is all zero (ext4.rs:306).
CreatedBare ==
    [][\A o \in Files \ Live : fs'.file[o].live =>
          \E mode \in Modes, isdir \in BOOLEAN :
              Collected(fs', o) = Inherited(Collected(fs, Top), mode, isdir)]_vars
=============================================================================
