# A TLA+ development of ext4_rs

`ext4_rs` is a user-space ext4 implementation in Rust: a library that reads and
writes ext4 images through a `BlockDevice`, with a FUSE-shaped interface on top
and a `data=journal` jbd2 engine below.  This directory holds TLA+ modules that
model it, TLC configurations that check them on small instances, and TLAPS
proofs about the protocol at its core.  Source references are `file:line` of
`src/src/ext4_impls/` unless a longer path is given.

## 1. The system

| part | state it keeps | operations | talks to |
|---|---|---|---|
| **Journal engine** `journal/mod.rs` | the log blocks, the journal superblock (`s_start`, `s_sequence`), the RECOVER flag of the ext4 superblock | `commit_with_crash`, `scan`, `build_revoke_table`, `recover` | block device, superblock |
| **Journal device** `journal/device.rs`, `transaction.rs` | nesting depth, the running transaction: staged blocks, revokes | `begin`, `end`, `read_offset`, `write_offset`, `revoke`, `flush` | wraps the block device every other part uses |
| **jbd2 format** `ext4_defs/journal.rs` | none | parse and emit of descriptor, tag, revoke, commit and journal superblock | engine |
| **File-system object** `ext4.rs` | cached superblock, system zones, lock table, engine | `open`, `open_and_recover`, `open_journaled`, `journal_begin/end`, `journaled` | all parts |
| **Block allocator** `balloc.rs`, `utils/bitmap.rs` | block bitmaps, group and superblock free counts, inode block counts | allocate one, from a group, a batch; free a range | superblock, groups |
| **Inode allocator** `ialloc.rs` | inode bitmaps, free counts, used directories, `itable_unused` | allocate, free | superblock, groups |
| **Inodes** `inode.rs`, `ext4_defs/inode.rs` | inode table | load, write back with checksum, map and append blocks | extents, allocator |
| **Extent tree** `extents.rs`, `ext4_defs/extents.rs` | the tree in the inode and its index and leaf blocks | find, insert, grow, split, remove a range, convert unwritten | allocator |
| **Directories** `dir.rs`, `htree.rs`, `direntry.rs` | records of directory blocks, the hash index | find, add, remove, list; split a leaf, grow the index | inodes |
| **Namespace and file data** `file.rs`, `fuse_interface/mod.rs` | link counts, sizes | create, link, unlink, rename, truncate, read, write, fallocate, copy range | everything above |
| **Extended attributes, ACLs** `xattr.rs`, `acl.rs` | entries in the inode, an attribute block or an attribute inode | get, set, list, remove | allocators, file data |
| **File locks** `fuse_interface/mod.rs` | the lock table | `getlk`, `setlk`, release on flush and release | none |
| **Utilities, command line** | none | paths, CRC, errors, the `main` shell, a file-backed device | |

Nothing here runs concurrently inside the library: an operation runs to its end,
and an interleaving of operations is a sequence of them.  What makes the system
hard is **failure** (a crash between any two writes, with unflushed writes
lost, kept or torn; an operation that fails half way; ENOSPC) and **long
sequences of legal calls** over several structures that must agree (bitmaps,
counts, extents, directory records).

What makes each part correct:

- *journal*: a transaction is on disk whole or not at all, an acknowledged one
  survives, an aborted one leaves nothing; recovery is exact and can be
  interrupted; old log contents are never taken for new ones; the RECOVER flag
  announces a log that must be replayed;
- *journal device*: an operation reads its own writes and the disk does not
  change before the commit;
- *allocators*: no block or inode has two owners, no system block is handed out,
  bitmaps and the three kinds of counts agree, ENOSPC only when nothing is free;
- *extents*: the tree means a function from logical to physical blocks; insert,
  split and remove change it at exactly the blocks they are asked to;
- *directories*: the records of a block always tile it; a name is there once; a
  look-up, by the walk or by the index, finds exactly what is there; an
  enumeration resumed with a cookie misses and repeats nothing;
- *namespace*: link counts equal the entries that name an inode; every inode in use
  is below the root; no operation loses or keeps a block or inode wrongly;
- *attributes*: a file reads what was set last, whole, wherever it is stored, owns what
  holds it and is charged for that; a list grants what POSIX says, and a new file
  is no more open than its mode;
- *locks*: two owners never hold conflicting locks.

`PROJECT.json` lists the hazards with the line where each one bites and the
properties that would catch it.

## 2. The modules

    TxnStore            what journaling promises: an atomic transactional store
       ^  refines
    JournalProtocol     the protocol: what is durable after each flush      <- JournalProtocolProofs
       ^  refines (ProtocolFollowed)
    Journal             every write and flush, on a disk with a write cache <- JournalEngineProofs
       extends JournalLog
    JournalRecovery     recovery of logs another writer left                <- JournalProofs
       extends JournalLog
    JournalDevice       the running transaction, byte by byte               <- JournalProofs

    Balloc              block bitmaps, counts, owners                       <- AllocatorProofs
    Ialloc              inode bitmaps, counts, owners                       <- AllocatorProofs
    Extents             the calls that change one inode's block mapping
       extends ExtentRemoval    extent_remove_space and all under it
       extends ExtentTree       search, insertion, splits, growth           <- FileProofs
    Directory           one directory, and a reader of it                   <- DirectoryProofs
       extends Htree            the hash index: probe, splits, growth
       extends DirBlock         the records of a block
    Namespace           the tree: links, removal, rename, exchange          <- NamespaceProofs
    Xattr               attributes: body, block, EA inodes                  <- XattrProofs
       extends Acl              access control lists
    FileLocks           the POSIX lock table                                <- FileProofs

- **JournalLog** holds the log as data and the pure functions of `mod.rs` over
  it: the cyclic cursor, `scan` (`Walk`, a recursive function with `s_maxlen`
  iterations), the revoke table, and what the writes of `recover` leave in the home
  blocks.  A block is a record whose `kind` stands for its first bytes; a file-system block
  may hold the image of a commit block, which is what the ESCAPE flag is for.
- **JournalRecovery** runs `recover` over every log that a writer with several
  transactions in flight can leave.  The writer is the kernel's jbd2, external
  to the repository: it appends transactions (revoke block, one or several
  descriptors, data, commit), checkpoints the oldest, reuses revoked blocks in
  place and crashes with part of a transaction on disk.  `RecoverScan`,
  `RecoverBlock`, `RecoverTxn` and `RecoverClear` are the code: the scan with the revoke
  table, a turn of the inner and of the outer loop of the replay, and the cleared
  journal.  `txns` is what the scan found and `at` where the loops are.
- **Journal** is the engine: `Begin`, `Stage`, `RevokeBlock`, `End` are
  `journal_begin`, `write_offset`, `revoke` and `journal_end`; `WriteBody` to
  `ClearRecover` are the steps 3 to 8b of `commit_with_crash`, each followed by
  `Flush`; `Replay` and `ClearJournal` are `recover`.  `disk` is what is stable,
  `cache` the writes since the last flush; `Crash(kept, torn)` keeps any subset
  of them and may tear any block but the two superblocks.
- **JournalProtocol** is the same protocol one level up, in terms of what is
  durable: one action per flush, and crash actions for the states between two
  flushes.  A crash while the body is written may leave *any* body.  It is
  parameterised by the blocks and the values; what is proved of it carries over to the
  engine.
- **TxnStore** is the promise: `Put` in an open transaction, `Submit`, then
  `Apply` whole or `Crash` to one of the two states.
- **JournalDevice** models `read_offset`, `write_offset`, `begin` and `end` on
  bytes, with the block-wise read-modify-write of `write_offset`, against a
  `mirror` disk that every write of the operation goes to directly.

- **Balloc**: per group the set of set bits and the free count, the superblock's
  free count, per inode its block count and (`owned`) the blocks it was given;
  `AllocBlock`, `AllocBatch` and `FreeBlocks` are the functions of
  `balloc.rs` that operations reach, whole.  `SystemZone` is what `get_system_zone` lists,
  `System` what an ext4 image really keeps there.  A group in `Uninit` is one whose
  bitmap mke2fs did not write (BLOCK_UNINIT, a flag the code does not look at).
- **Ialloc**: the same for inodes, with directory counts and `itable_unused`.
  `InodesIn` is `get_inodes_in_group_cnt`; since the number of groups is computed
  without `s_first_data_block`, there may be one group too many, with no inodes.
- **ExtentTree**, **ExtentRemoval**: the functions of `extents.rs` as operators on
  a record of all an operation reads and writes: the inode in the caller's hand
  (`mem`), the inode on disk (`ino`), the node blocks, the allocated blocks.
  `write_back_inode` is `ino := mem` and happens where the code does it, so an
  operator that changes the root and does not write it back shows.  A search path
  is read once and keeps the headers, positions and slots it was read with, like
  `SearchPath`; `RemoveLoop` is the loop of `extent_remove_space` at the levels of
  such a path.  `MoreToRemove` reads the last key of the root from block 0 of the
  device, as `more_to_rm` does, and takes it for zero.
- **Extents**: one file or directory, and one action per call: `Write` is
  `write_at` (preallocated blocks of the range become holes, holes are filled, the
  size follows), `Fallocate`, `Reserve` and `Punch` the modes of
  `fuse_fallocate`, `Truncate` is `truncate_inode`, `Append1` is
  `append_inode_pblk`.  Offsets and sizes are whole blocks; the bytes of a block
  are not modelled.  `call` keeps what the last call was and the copy of the
  inode it held when it returned.  The allocator gives the lowest free blocks
  of `Pool`, which is what the batch allocation does in a group (`Balloc`).
- **FileLocks**: the lock table of `fuse_setlk` as a set of locks per file, and
  `held`, no state of the code: what each owner knows it holds, byte by byte, from
  the replies it got.  `ReleaseOwner` is flush and release.

- **DirBlock**: a block is a function from the offsets of its records to the
  records; `InsertEntry` cuts the first record with room behind its name
  (`try_insert_to_existing_block`), `EraseAt` merges a record into the one before it or
  leaves it unused when it is the first (`dir_remove_entry`), `Pack` is
  `dx_write_leaf`.  `Size` and `Need` are the two lengths the code computes for a
  name: what a record needs and what must be free to insert it, which differ
  (`Ext4FakeDirEntry` and `Ext4DirEntry`).
- **Htree**: a directory with its index as a record of blocks and index entries, and
  each function of `htree.rs` as an operator on it: `Convert`, `Frames`, `SplitLeaf`,
  `SplitNode`, `GrowDepth`, and `Register`, the calls of `dx_add_to_index` up to the
  root.  A hash is a number per name.
- **Directory**: `dir` are the blocks, `entries` what callers were told; `Add`,
  `RemoveEntry` and `SetEntryTarget` are the calls, `reader` an enumeration by
  `dir_entries_with_offset_from`, one entry at a time, with any change in between.
- **Namespace**: `fs` is the image at the level of inodes and entries: a directory
  is what `Directory` shows it to be, a map from names to entries whose look-up
  misses "." and ".." once it has an index.  One action per call of the interface;
  an action computes what the handler leaves, and `Returns` keeps it or, when it
  failed, what was there (`journaled`).  `FileRemove` and `FileRemoveEnds` are the
  two transactions of `file_remove`, with `Crash` between them.  Truncation to nothing frees
  all blocks, which `Extents` shows for one extent; the target of a fast
  symbolic link is taken for an extent tree by `truncate_inode`, as in the code,
  and the call fails.
- **Acl**: a list as a sequence of tagged entries; `Masq`, `MasqMode` and `SaysMore` are
  `posix_acl_create_masq`, `Granted` is `acl_permission` entry by entry, and
  `PosixGrants` the rule it is checked against.
- **Xattr**: per file the body's attributes, the block, the EA inodes of its large
  values with their data blocks, and the units it is charged; `Store` is `xattr_store`,
  `Create` is a creation with `posix_acl_create`, `Remove` what an unlink does to them.  `attrs`
  and `lost` are no state of the code: what each file should have, and what
  removed files left behind (`unlink_impl` frees no attribute block).  `CreateEa` is
  `create_ea_inode` with the write of the value: it takes as many of the value's blocks as
  are free (`Taken`), fails when there is none, and goes on when there are too few.  An EA
  inode holds what its value reads as: `Cut(v, k)` is the list `v` after a write of its first
  `k` blocks, the entry that a block ends in without its id, and entries of zeros behind
  it, whose tag `acl.rs` passes over.  Attribute blocks and values compete for one set `Blocks`.

The allocators, the extents, the directories, the tree, the attributes and the
lock table are models of their own: each operation of the library runs over the
journal device as over a disk, which is what `JournalDevice` and `Journal` show
it may do.  `Extents` takes from `Balloc` that an allocated block is a free one, and
`Namespace` takes from `Directory` what a look-up finds and what an addition costs.

`MC*` modules name the constants of the runs.  Definitions preceded by a
"Mutation:" comment are plausible bugs of the definition that follows; they are
part of no specification and show which property notices the bug.

## 3. The runs

| run | checks | result |
|---|---|---|
| `recovery` | `RecoveryInv` (types, `SequenceIsFresh`), `ReplayIsExact`, `FailsBeforeWriting`, `RecoveryEnds` over 2 kernel transactions of up to 2 blocks (`Orders`), 2 crashes, a log of 6 slots | holds |
| `engine` | `Inv` (types, `NoStaleCommit`, `CheckpointUnderRecover`), `StoreImplemented`, `ProtocolFollowed` (the engine refines `JournalProtocol`), `EngineReturns`: 2 transactions, nesting 2, 2 crashes, ENOSPC, a block that looks like a commit block, sequence wrap | holds |
| `protocol` | `Inv` (the inductive invariant), `NoTornBlock`, `StoreImplemented` | holds |
| `device` | `Inv` (the inductive invariant: types, `InnerIsOld`, `LayersAgree`), `ReadsOwnWrites`: 2 blocks of 2 bytes, writes of up to 3 bytes, nesting 2 | holds |
| `balloc` | `Inv` (the inductive invariant: types, `CountsAgree`, `NoSystemBlock`, `ClearIsFree` and the two that follow), `BitmapIsExact`, `ShortIsTrue`: 5 groups of 6 blocks (the last short), first block 1, a superblock copy in an uninitialised group, 2 inodes, goals and batches | holds |
| `ialloc` | `IallocInv` (the inductive invariant), `InodeBitmapIsExact`, `UnusedTailIsUnused`, `EnospcIsTrue`: 2 groups of 4 inodes and the extra group | holds |
| `locks` | `LocksInv` (the inductive invariant: types, `OwnDisjoint`, `NoStaleLock`), `NoConflict`: 2 owners, 2 files of 2 bytes | holds |
| `extents` | `Inv` (types, `Ordered`, `Searchable`), `NoSharing`, `CallIsExact`, `NoLeak`: 4 calls on 8 logical blocks, root of 2 and nodes of 3 entries | holds |
| `directory` | `Inv` (types, `RecordsTile`, `ListedOnce`), `FindIsExact`, `ListingIsStable`: 5 names of two lengths, two with one hash, blocks of 5 units, 7 blocks, 2 removals or retargets, with and without dir_index | holds |
| `namespace` | `Inv` (types, `EntriesAgree`, `DotDotIsParent`), `LinksExact`, `Rooted`, `BlocksConserved`, `FreedByLastName`: 4 inodes, 2 names, 6 blocks | holds |
| `xattr` | `Inv` (types, `OnePlace`, `ChargeExact`), `ReadsCut`, `OneOwner`, `AccessIsPosix`, `CreatedWithinMode`, `CutsAtTheEnd`: 2 files, 2 attributes, lists of 3, 5 and 11 entries, 4 blocks of 9 entries, 2 EA inodes | holds |
| `extents_convert` | `UnwrittenSurvives`: a write keeps the preallocation outside its range | **violated**, the finding below |

**Bounds.**  Two transactions are the smallest number with an old commit block
in the log, a revoke of an earlier copy, and a sequence to confuse; two crashes
give a crash during recovery from a crash.  Two data blocks next to the
superblock give a checkpoint that can stop half way and blocks on both sides of
the superblock copy.  Six log slots make two transactions of `JournalRecovery`
wrap around the end of the log.  A descriptor of two tags (`Capacity = 2`) makes
a transaction over both data blocks fail with ENOSPC.  `SeqWrap` (8 or 16) stands for 2^32 and is crossed by the runs that
start next to it.  Two blocks of two bytes and writes of up to three have every
alignment case: within, across, partial at either end.
The images of the allocators are the smallest on which a freed range crosses a
group's end, the last group is short, a group has nothing free, and blocks of the
file system's own lie first in a group, with `Word` (4) in place of 64 for the end
of the near search.  Two inodes or owners are enough for a double owner or a
conflict.  A file of two bytes has locks that contain, meet and avoid each other.
The whole reachable space is finite, so these runs have no other bound.

`extents` has a root of two and nodes of three entries where the code has 4 and 84
or more: eight logical blocks over a pool in which every other block is taken then
make a tree of depth two with a split of a leaf, of an internal node and a root
that is pushed down, and runs of free blocks long enough for extents of two and
three.  Two to eight blocks a call, four calls; trees with an internal split are
three calls deep.  `InitMax` (16) is more than the blocks of a file, so
that no extent reaches the longest length.  `LoopBound` (10) is more than twice the
passes that the loop of a removal that ends makes in a tree of depth two.  The
view leaves out `call`, of which no guard and no invariant speaks.  `Journaled`
says that a call that fails leaves nothing, as `journaled` arranges.

`OnlyHandled` keeps `extents` to the removals that the code gets right, defined by
`Handled`: strictly inside one extent; or within one leaf, with slots that are cut
at an end, or the last slots of the leaf gone and others left.  A call that would
do another removal is not made.  What the other removals do is what
`extents_convert` and the observations on extents show, where `OnlyHandled` is off.
Without that bound the tree is soon one that means nothing, and no property of the
insertions could be stated of it.

`directory` has blocks in which two names of the longer kind fit beside "." and
"..", a root of two index entries and nodes of three: five names make a leaf split,
a node split, a second level, and a leaf of one hash only, which cannot be split.
`MaxBlocks` (7) is where the disk is full; `MaxChanges` bounds removals and
retargets.  A reader is at work in a linear directory (`Listing = "linear"`) and
starts once all names are there (`ListFrom`), the longest listing there is.

`namespace` has three inodes besides the root: two directories in each other and
a file, or two directories side by side, which every rename, loop and exchange
needs; six blocks are too few for all of it, so that every call meets a full disk.
A directory with `Full` (3) entries or more may or may not need a block for the next
one, as the lengths of the names decide.  `LinkSpan` is 2^16.

`xattr` has a body that holds the short list alone, and a block that holds the middle one
alone, or the short one and the entry of a long one: two short ones, or the middle one and
any other, do not fit, and that call fails.  The long list takes an inode and two
blocks of its own, and ends in the second with its mask.  Four blocks are an attribute
block, one such value and half of the next, or two attribute blocks and one value: a
second value, or a second file, meets a full disk after none or one of its blocks, and both
values of a file may end up short.  EA inodes run out as well.  (With five blocks two files
have values in EA inodes at once; the properties but `AccessIsPosix` hold there too, in 1.4
million states, more than the run should take.)  Three ids are the owner, someone named, and
anybody else.

**Fairness.**  `WF_vars(Engine)` and `WF_vars(Recover)`: the code is sequential
and waits for nothing, and an image is opened again after a crash.  No fairness
is assumed of operations or of crashes; crashes are bounded in number.
Deadlock is not checked where the bounds on transactions end a behaviour.

**Finding.**  `ext_remove_leaf` lowers a leaf's count for each extent that goes whole,
and leaves the slots where they are (`extents.rs:1169`, `1195`): with two
preallocated extents, a write to the first drops the second, and the freed block
of the first stays mapped and unwritten.

**Observations without a run**, met while modelling, all but those marked (read)
with a counterexample of TLC:

- *Journal.*  Revoke sequences are compared as plain `u32` (`journal/mod.rs:569`)
  although sequences wrap: a log that spans the wrap loses a committed block
  (`MCJournalRecovery` with `FirstSeq = 15`, `SeqWrap = 16` violates
  `ReplayIsExact`).  The RECOVER flag becomes durable one flush after the commit
  block, so "any crash in the commit→checkpoint window leaves RECOVER set on disk"
  (`journal/mod.rs:458`) does not hold for a crash between the two.  (read)
  `recover()` returns at `journal/mod.rs:560` for a clean journal without clearing
  RECOVER, so a crash between the last two flushes of a commit leaves the flag
  set.  (read) A nested `journal_end(false)` discards nothing
  (`journal/device.rs:63`); every caller passes the failure on.
- *Block allocator.*  `ext4_bg_has_super` (`balloc.rs:722`) forgets group 1, which
  holds a superblock copy; with its bitmap uninitialised the copy is given to a file
  (`MCBalloc` without the assumption `UninitGroups`, with `Uninit = {1}` and the other
  groups full, violates `NoSystemBlock`).  A reserved block at the first clear bit makes
  `balloc_alloc_block` give up the whole group, and report ENOSPC with blocks free
  (`balloc.rs:179`).  (read) `balloc_alloc_block` keeps the goal's index for the
  other groups and misses free blocks before it (`balloc.rs:194`); no caller passes a
  goal.  (read) `balloc_alloc_block_from` does not ask whether a clear bit is
  reserved (`balloc.rs:275`); no operation reaches it.
- *Locks.*  Unlocking part of a lock removes all of it (`fuse_interface/mod.rs:1146`),
  so another owner is granted bytes the first still holds (`MCFileLocks` with one file of three bytes
  violates `ByteExclusion`).
- *Extents.*  A block that merges with an extent of the root is added to the caller's
  copy of the inode (`extents.rs:150`), and `write_at` writes the inode back when the
  file grows only (`file.rs:626`): a write into a hole below the end that merges
  is lost, and its block with it (`MCExtents` with a free pool and writes of one
  block violates `MappingIsSaved`).  `extent_remove_space` does not remove what lies
  behind the first leaf it finds, nor the right slots of that one: a truncate of a
  file of several extents leaves blocks mapped past the end (`OnlyHandled = FALSE`
  violates `CutIsComplete`); of several leaves, to zero, it does not end and
  frees blocks twice.  Two unwritten extents may merge up to `EXT_INIT_MAX_LEN`
  (`extents.rs:292`), a length whose encoding has no unwritten mark, so that the
  blocks' old contents become file data (`MCExtents` with `InitMax = 4`: a fallocate
  of four adjacent blocks, one at a time, gives a written extent).  A punch at the
  front of a leaf's first extent leaves the key above it (`ext_correct_indexes` changes the
  path's copy only, `extents.rs:1356`); a later run that crosses that key goes into
  the left leaf, its end is not found, and `write_at` writes the data to block
  0 of the device.  Without a journal a write that fails for want of space in a node leaves extents
  behind the end of the file, which "are always unmapped" for the next write
  (`file.rs:470`) and are mapped a second time.  A punch or truncate of an
  empty tree panics (`extents.rs:870`).  A short write
  loses the preallocation of the part it did not write.  (read)
  `append_inode_pblk_batch` and `get_last_extent` take block numbers from the
  wrong place (`inode.rs:444`); nothing reaches them.  (read) A merge in a leaf
  and a cut inside one do not refresh the block's checksum (`extents.rs:355`, `904`).
- *Directories.*  A conversion to an index and a split of a leaf move entries, and an
  enumeration that goes on behind them misses or repeats some, although "positions
  are stable across insertions and deletions" (`ext4_defs/direntry.rs:36`;
  `Listing = "always"` violates `ListingIsStable`).  With large_dir, `dx_add_to_index`
  grows the index and then inserts an entry for a *node* into the last node of the
  new path, among entries for leaves (`htree.rs:694`; `LargeDir = TRUE`,
  `NodeLimit = 2` and seven names violate `FindIsExact`).  Without a journal, a leaf
  that is split when the index cannot grow loses the names of its upper half
  (`Journaled = FALSE`, `MaxBlocks = 4`).  ".." is not found in an indexed directory
  (`dir.rs:47`, `DotDotIsFound` of `Directory`): a rename of one to another parent fails, and the
  test for loops stops climbing there, so that a directory can be moved below itself
  (`MCNamespace` with `DirIndex = TRUE`, `Space = 7` violates `Rooted`), after which that
  test does not end for what is in the loop.  (read) The first record of a block,
  once removed, is not used again until the block goes.  (read) Leaves that
  continue a hash (bit 0 of the next index entry), as the kernel writes them, are not followed.
- *Namespace.*  The removal of the last name of a fast symbolic link, by unlink or a
  rename over it, takes its target for an extent tree and panics.  `links_count` has 16 bits
  and nothing refuses one more (`file.rs:61`; `LinkSpan = 3` violates `LinksExact`, and
  frees an inode that has names).  A crash between the two transactions of `file_remove` leaves an
  empty file with its name.  Without a journal a call that fails half way leaves what
  it did.  (read) `dir_mk` and `fuse_setattr` drop the result of the operation
  (`ext4.rs:279`, `fuse_interface/mod.rs:56`): a failed one looks like success.
- *Attributes.*  A large value may be stored short by a call that succeeds.  `create_ea_inode`
  drops the count that `write_at` returns (`xattr.rs:647`), and `write_at_impl` reports an error
  only when it found no block at all (`file.rs:503`, `671`): on a disk that fills up inside
  the value the entry keeps the whole length and `xattr_collect` fills up with zeros
  (`xattr.rs:316`).  Where the owner has an attribute block already nothing reports ENOSPC,
  and the journal commits the call, although "the crate must read it back"
  (`tests/block_size_harness.rs:1553`).  `ReadsExact` of `Xattr`, which says so, is
  violated with the constants of `xattr`.  Two consequences, each with a counterexample: a
  list that loses its mask grants those it names more than the list that was set; and as
  every change writes the block anew, with all large values, a call on one attribute can cut
  another, whole so far, to make room for the zeros of one cut before (a third name, blocks
  of 128 bytes and a list of 18 entries).  `ReadsCut` and `CutsAtTheEnd` say what is left of the
  promise.  The body of a freed inode record keeps its attributes: "reset the slot to the all-zero unused state" (`ext4.rs:306`) writes the fields alone, so the next file in
  the slot has them (`CreatedBare` of `Xattr` is violated).  An unlink frees neither the
  attribute block nor the EA inodes (`lost` is never empty again).  A value shorter
  than a block that does not fit into one is refused although "a value that can't
  share the block goes into its own inode" (`xattr.rs:551`).  Without a journal, a
  rewrite of the block that fails leaves references to inodes already freed.  (read)
  Reference counts of blocks the kernel shares are not looked at.  (read) chmod does
  not change the access list, nor setting the list the mode.

## 4. What is proved

### The commit protocol

`JournalProtocolProofs` proves, for every set of blocks and values, every start
state and every bound on sequence numbers:

- `InvHolds`: `Spec => []Inv`, and with it `TypeCorrect`;
- `WholeBlocks`: no home block is torn while the file system is open;
- `ImplementsStore`: the protocol implements `TxnStore`.

The argument: what recovery would leave (`Recovered`) is a function of the durable
state, and it may change at one step only, the one that makes the commit block
durable.  That needs to know that the body on disk is the running transaction's
by then (`CommitInv`), that no commit block with the current sequence number is
in the log before (`SequenceInv`, without which `MarkActive` over old log contents
could itself commit something), and that a block the checkpoint tore is one that
replay writes again (`TornInv`).  None of these is inductive alone; their
conjunction `Inv` is.  There is one lemma per action for the invariant and
one per group of actions for the refinement.

The assumptions are those on the constants in `JournalProtocol`: the superblock
is one of the blocks, "no write" and "torn" are not values, and sequence numbers
are unbounded naturals, i.e. the proof says nothing about a wrap within one log;
`Journal` crosses the wrap under TLC.

### The engine

`JournalEngineProofs` proves for every set of blocks and of images (images of jbd2
blocks among them), every log that holds a transaction, any nesting, any number of
crashes and any torn writes:

- `InvHolds`: `Inv`, with `NoStaleCommit` and `CheckpointUnderRecover`;
- `Invariance`: the inductive invariant `IInv`;
- `ImplementsProtocol`: the engine implements `JournalProtocol`, write by write
  (`ProtocolFollowed`);
- `ImplementsStore`: the engine implements `TxnStore` (`StoreImplemented`): recovery leaves
  all of a transaction or none of it, every acknowledged one and no aborted one.

`NoStaleCommit` is about what a scan of the whole durable log finds, and an engine
that goes on from one commit to the next leaves old descriptors, data and commit
blocks in it.  `IInv` has five parts.  `Numbers`: counted on past the wrap, the numbers
in the log are not larger than that of the journal superblock, which is smaller than
that of the next transaction.  `Sealed`: a commit block of the current number is in the log only with
an active journal superblock and a whole transaction in front of it.  `Phases`: what is
durable at each step, `Logged` (the body, block by block, and its commit block) from the
commit block's flush to the checkpoint's.  `Unflushed`: the write cache, exactly.
`DiskType`: what may be where; a home block is torn, a log block anything a commit
can leave.

The proof goes along the data.  A finite set of block numbers has the one order of the
`BTreeMap` (`OrderIs`); `Body` is the descriptor with a tag for each, the copies, the revoke
block (`BodyIs`), and it fits (`BodyFits`, from `LogHoldsTransaction`).  A walk
that meets no commit block of the current number finds nothing, whatever the log
holds (`FindsNothing`); over a logged body it comes to the commit block with exactly
that transaction (`WalkPasses`, `ScanWhole`), and past it to nothing more, since no
larger number is in the log (`FindsWhole`).  What is replayed of it is the staged
blocks without the revoked ones, unescaped (`WritesAre`).  Then come the writes: for each kind of
block in the cache, what the disk is after any subset of them, torn or not
(`HomeLands`, `LogLands`, `JsbLands`); from these what a crash leaves at each step (`BodyLands` to
`ReplayLands`), and a flush is the case in which everything is kept.

The refinement reads the disk as the protocol does.  `ProtocolBody` is what the descriptor
at `s_first` and the blocks behind it say (`BodyIn`), and `BodyReads` is that a logged
body reads as the staged images, through order, tags and escaping; `ProtocolCommits` are
the commit blocks anywhere in the log.  Next come the same facts after any part of the
cached writes (`BodyView` to `ReplayView`): a body written in part reads as some body of
a number used before, a commit block overwrites an old one at most, a torn home block is
one the body has.  From these a flush is the protocol's step (`FlushFollows`), a crash
one of its crashes (`CrashFollows`), and the writes before the flush are stutters
(`WritesUnseen`).  `Replays` is the link to recovery: the scan finds a transaction exactly
when the protocol says `Replayable`.

For the store, the facts of `JournalProtocolProofs` are instantiated at this reading
(`Proved`), so the protocol's invariant holds of it (`ProtocolNext`), and what is left is
that both levels mean the same contents (`SameStore`): the recovered ones (`RecoveredIs`:
the replay of the log against the writes of the body), those an operation reads (`ViewIs`),
and the phase.  They differ in one place: the protocol has acknowledged a commit
when the journal is clean, the engine when RECOVER is cleared too (`Acked`), so there the
engine's acknowledgement comes later (`StoreStep`).

The refinement has a second hypothesis, `Freed \cap Home = {}`: no transaction revokes a block
that some transaction writes.  Nothing in `src/src` calls `JournalDevice::revoke` (`device.rs:90`); its one
caller is a test (`tests/journal_harness.rs:714`), which revokes a block nobody writes.
With such a revoke in a transaction recovery would skip a block the
protocol replays.  `InvHolds` and `Invariance` do without it.

The hypothesis of all four is `MaxTxns < SeqWrap`: at most 2^32 - 1 transactions are begun, so no
number is used twice; from which number they begin, and whether they cross the wrap,
does not matter.  It is needed: nothing erases a commit block before its slot is
written again.  Of the images the proof assumes that mkfs left no jbd2 block in the
log (`JournalBounds`).

### The journal device

The first part of `JournalProofs` proves for every block size, device size, set of bytes and
depth of nesting that `Inv` and `ReadsOwnWrites` always hold: a read of any range
returns what was written, at any alignment, through the device, the writes of
operations that failed excepted.  `LayersAgree` is the invariant: what the staged
blocks (`Overlaid`) make of the inner device is the mirror's bytes, position by
position, while a transaction runs, and the inner device is the mirror when none
does.  The core is that `WriteOffset`, which fills a block from the lower layer and
then patches it, changes the overlaid bytes at exactly the positions of the write,
the first and last block of a range included (`Merged`).  The only assumption is
that the value for "no transaction" is not a block.

### Recovery

The second part of `JournalProofs` proves for every size of log, every set of blocks and of
orders to log them in, any number of transactions and of crashes, with and without
checksums:

- `ReplayIsExactHolds`: after recovery each home block holds what the committed
  transactions say of it, and what the crash left there if they say nothing;
- `RecoveryInvHolds`: the sequence number it goes on with is that of no whole
  transaction in the log (`SequenceIsFresh`), and the types;
- `RefusedUntouched`: a recovery refused because of a bad revoke block has written
  nothing, and the log still is there;
- `RecoveryInvariance`: the inductive invariant `IInv`.

`ReplayIsExact` speaks of the end of a recovery alone; `IInv` says what makes it true on
the way there.  `Held` is about the log: the live transactions follow each other in it
(`Chained`), their blocks are where they belong, the checksums of revoke blocks
excepted (`Stored`), and no commit block that counts carries the next sequence number
or a later one (`Below`), so that neither a transaction cut short nor the remains of an
earlier turn around the log can pass for one more.  `Replayed` says that every copy to
keep that the loops have passed is at home, `Kept` that a block without such a copy is
as the crash left it, and `Careful` that nothing was written before the revoke blocks
were found good.

From `Held` follows what the scan finds (`ScanIs`): exactly the live transactions.  The
walk over the log is at the beginning of a transaction, or has read so many of its
blocks, or is past all of them (`OnWay`, `Past`); each iteration takes it on
(`WayGoesOn`), and as no transaction takes more blocks than the log has, `s_maxlen`
iterations are enough.  A lemma for each kind of block says what an iteration does with
it; positions are counted on past the end of the log, and two that are less than its
length apart have different slots (`SlotApart`), which is where the wrap of the cursor
is dealt with.  That the revoke table, a map to the latest sequence number, tells what
the transactions revoke is `RevokedIs`.  Then a block is skipped at a turn of the
replay if and only if its copy is not one to keep or a later one follows, and what a
crash in the middle undoes is only the position of the loops (`CrashKeeps`).  For the
writer the core is `WrittenGood` and `WholeStored`: an append writes to slots that no live
transaction has.

The hypothesis is `NoWrap`: the sequence numbers from that of the fresh journal on, as
many as there are transactions, stay below 2^32.  It is needed: across a wrap the code
compares revoke sequences as plain integers, and the observations name an instance in
which a committed block is lost.  `RefusedUntouched` has no such hypothesis.  Its
invariant (`Refuses`) needs nothing of what the log holds.  The other assumptions are that
the log has a block behind its superblock (`LogGeometry`), and that transactions and
crashes are finitely many (`RecoveryBounds`), as many as one likes.

### The block allocator

The first part of `AllocatorProofs` proves for every geometry, every set of tables and of blocks in use
and any number of inodes that `Inv` (types, `BitmapIsExact`, `ClearIsFree`,
`CountsAgree`, `NoSystemBlock`, `ShortIsTrue`) always holds.  Every operation moves a
set of *positions*, pairs of group and index, and two lemmas say what that does:
`TakeKeeps`, when the blocks at them are free, and `GiveBackKeeps`, when they are
the inode's own; the counts follow because addresses are one to one
(`AddressIsOneToOne`).  What is left is that the functions compute such sets.
`ClearIsFree` is what the other invariants lack: a clear bit that is not reserved
is the bit of a free block (`OpenIsFree`), those past the end of the device and in
bitmaps never written included.  For a batch, `GotIsFree` goes along the turns: what was found
stays found, no group has two turns, and a group from which not as many as asked
for were taken gave all it had, so a short batch took every free block, since every
group has a turn.  For a freed range, `FreedIs` shows that its pieces begin at the
range's start and at each group's first block after it, and together are the
positions of the range.  These recursive functions are dealt with by the lemmas on
numbers that the module begins with: such a function exists (`StepwiseExists`), and
what holds at its start and is kept by its steps holds up to its end (`UpTo`, by the
least counterexample), so that no induction scheme is needed.  Other proof modules
begin with the ones of these lemmas they cite.

The assumptions are the geometry and `UninitGroups`: a bitmap mke2fs left unwritten
is one of a group in which nothing is in use but what `get_system_zone` lists.  The
code does not look at BLOCK_UNINIT, so it depends on it; where it fails is the first
observation on the block allocator above.

### The inode allocator

Its second part proves for every number of groups, inodes per group and inodes that
`InodeBitmapIsExact`, `ReservedKept`, `InodeCountsAgree`, `UnusedTailIsUnused` and
`EnospcIsTrue` always hold.  The inductive invariant is the conjunction of them
with `IallocTypeOK`; none is inductive alone.  That the bit `ialloc_alloc_inode` finds
belongs to a free inode takes `InodeBitmapIsExact` and `ReservedKept`; that ENOSPC is
true takes `InodeCountsAgree` (the group of a free inode has a count above zero) and
the arithmetic of `get_inodes_in_group_cnt`; that no count leaves its range takes
that it counts a set of inodes of one group (`GroupIsSmall`).  The lemmas on
positions (`PositionOfNumber`, `NumberOfPosition`) say that the number an
allocation computes and the bit a free computes are inverse to each other.  The
only assumption is the geometry (`InodeGeometry`): no more inodes than bits, the
reserved ones in the first group.  Callers free an inode they hold, as what it
was; a caller that freed something else would not be this model's.

### The lock table

`FileProofs` proves `NoConflict` and `NoStaleLock` for every number of
files, owners and bytes, together with `OwnDisjoint`: a new lock is added only
when no other owner's conflicts with it, and only after all of its owner's that
meet it are gone, so what stays in the table still is what was granted.

### The search of the extent tree

`FileProofs` also proves `OrderedIsSearched`: of a tree that is `Ordered`, whatever its
depth, the sizes of its nodes and the lengths of its extents, `find_extent` finds every
block of every extent, with the block and the mark of its extent (`Searchable`), and
`get_pblock_idx` takes no hole for a block.  `Ordered` says that the keys of an index node
divide the blocks it is to hold, which are those between its own key and its neighbour's,
and that the extents of a leaf follow one another within its own; `extents` checks that
the calls keep it.  The first key of a node is not asked for anything: the search begins
with the second.

The search is two recursions, the halving of a node's keys (`NearestIs`) and the descent
(`DescentEnds`).  The prover knows neither function to exist, so each is first carried as
one that obeys its definition up to a width, or down to a level, and shown to be extended by
one more (`HalvingIsDefined`, `PathIs`); the invariants of both are then inductions on the
same number, by least counterexample.

### Linear directories

`DirectoryProofs` proves, for every set of names, record lengths, block size and
disk, that `Inv`, `FindIsExact` and `ListingIsStable` hold as long as the directory
has no index (`~indexed`), whatever is added, removed and repointed and whenever
the reader goes on.  `LinearInv` is the invariant: the records of each block tile it
(`LinearDir`), each entry of `entries` has one place and each used record is one of
them (`Means`), and what the reader has seen stands before its cookie, what it owes
behind (`Cursor`).  The core are two lemmas on blocks, `InsertKeepsPlaces` and
`EraseKeepsPlaces`: an insertion cuts a record behind its name, an erasure merges
one into the record before, and every other entry stays at its offset.  `NextPlace`
says that the next record begins where the one just read ends, so that no entry
lies between the old and the new cookie.  The assumptions are `NameGeometry` and
`DirectoryConstants`; above all that any two names fit into one block
(`Size[m] + Need[n] <= End`), as names of up to 255 bytes do in a block of 1 KiB.

### The namespace

`NamespaceProofs` proves, for every number of inodes, names and blocks, with and
without directory indexes, that `Inv` (`TypeOK`, `EntriesAgree`, `DotDotIsParent`) and
`LinksExact` always hold and that no step violates `FreedByLastName`: creation, links,
removal, rename over a name or not, exchange, and a `file_remove` with a crash
between its transactions.  The invariant is `Sound`, with what `file_remove` relies on
in between (`Pending`).  `Sound` says of five *views* of an image (the types, the link
counts, what each name leads to, ".." and ".") that they are those of one tree
(`Tree`).  Beyond the properties of the run it has that a name leads from a directory
only, never to the root, that what is not in use has no dots, and that each entry
holds its inode's type: an inode that is used again would otherwise start with the
entries or the ".." of the one before.
`SlotCounts` says how a changed name moves the counts, and six lemmas what
the changes that calls are made of do to a tree (`TreeNewFile` to `TreeSwap`).  An
exchange and a rename are one lemma: a rename exchanges a name with one that leads
nowhere.  In the code the counts follow a rename of a directory in up to four steps
(`fuse_interface/mod.rs:770`); `LinksSwap` is what they add up to, also when both
parents are one or the target was a directory (`ReplaceDoes`).

`Rooted`, that every inode in use hangs below the root, is proved for file systems
without directory indexes.  It takes two more facts, `Whole`: every file in use has a name,
and no set of directories without the root is closed under ".." (`NoLoop`).  The
second is what `dir_is_ancestor` guards: without loops the walk by ".." ends at the
root after as many steps as there are inodes (`WayUpIsUpper`), what it meets is a
set that ".." does not lead out of (`ClimbIsUpper`), and a directory outside of it
closes no loop by moving to where the walk began (`NoLoopMoved`).  An exchange moves
two directories, which is why both are tested (`TestedWhole`).  That the root reaches
everything follows: the set of what is below it, as `Below` builds it, is closed
after that many rounds (`GrownIsClosed`), and what were left out would be a loop or a
file without a name (`RootedMeans`).  The hypothesis `~DirIndex` is needed: in a
directory with an index the look-up of ".." fails, the walk stops there, and
the test of a rename no longer sees the ancestors above it.

`BlocksConserved`, that every block is free or an inode's, is a property of the
operations and not of the tree, so its proof goes by operation: `Tallied` holds
before and after each of them, also inside a call and when it fails.  It says that
what is not in use holds no blocks and that some function `g` adds the blocks up over
every set of inodes (`Adds`), which makes the order of `FoldSet` irrelevant
(`FoldedBlocksAre`), lets one summand change (`AddsOneOther`, `TallyNode`), and leaves
out the inodes that hold nothing (`AddsLess`).  The tree is needed in two places.  An inode is
released when its last name goes, so its blocks must be gone by then: `fuse_unlink`
truncates when the count is 1, and the count of a named file is never 0
(`NamedCounts`), a case that `unlink_impl` would treat like 1.  And `file_remove`
relies between its transactions on the blocks being gone (`Emptied`).

The assumptions are those on the constants, and `NamesFitLinks`: inodes and names
are finite and fewer than `LinkSpan` allows, so that no count wraps, and the file
system is `Journaled`.  Inside a call the image is no tree, so without the
second a call that fails half way leaves none, as the observations say.

### Extended attributes and access control lists

`XattrProofs` proves, for every number of files, names, values, blocks and EA inodes
and every size of them, that `Inv` (one place per file, `i_blocks` exact), `ReadsCut`,
`OneOwner` and `AccessIsPosix` always hold, that no creation violates
`CreatedWithinMode` and no call `CutsAtTheEnd`, and that a value of one block is always
whole (`OneBlockIsWhole`).  The invariant `IInv` is that what `xattr_collect` reads of a file is
what it should have but for cuts (`ReadsAs`), and that the image is `Sound`: a file's
attributes are in its body or in its block, never in both (`Placed`), its blocks and EA
inodes are charged to it (`Charged`) and to nobody else (`Apart`), those that belong to
nobody are the ones removed files left (`Accounted`), and no block has data of two values or
attributes besides (`Disjoint`).  `ReadsCut` alone is not inductive: a call on
one file leaves the others' attributes alone only because the blocks it frees and the
EA inodes and blocks it takes are not theirs.

Every change a call makes is one to a single file: it gives up what it had and takes
what was free or its own.  `SwapOthers` and `SwapSound` say that such a change leaves
all other files as they were and the image sound, and `WriteBodyDoes`, `FreeBlockDoes`,
`WriteBlockDoes` and `StoreDoes` that the steps of `xattr_store` are such changes, in
the order in which the code makes them: the old value inodes go before the new ones
are chosen, so the new ones may be the same inodes.  `UnitsInSame` is why the charge
is exact in between, when the old contents are still referred to.  A creation stores
up to two lists one after the other (`SetAllDoes`) and gives up all when the second
does not fit.

`CreateEasDoes` goes through the large values of a block one by one.  Each takes as many
blocks as are left; the first that gets too few leaves none, so that the next one gets
none and the call fails: at most one is cut, and then by the last free block.  A value that
was cut before is stored as it reads, at its full length, and may be cut again.  `CutTwice`
says that the result is a cut of the value as it was set, at the smaller of the two lengths,
which makes `ReadsAs` carry over from call to call.  `CutIsList` says that a list stays one
in order when it is cut, with its owner's entry, without which nothing could be said of what
such a list grants.

For the lists, `GrantedIsPosix` shows that the walk of `acl_permission` over the entries,
which stops at the first entry that decides, grants what the rule grants, with the
group entries and the mask; it is an induction along the entries, downwards.
`MasqWithin` says that `posix_acl_create_masq` leaves no entry wider than the mode it is
given, and `MasqOrdered` that the list stays in order, and one the kernel accepts if it was,
on which the first lemma depends.  A default list that was cut may have lost its mask, and then
the mode's group bits clamp its owning group and not those it names: `CreatedWithinMode`
leaves those out.

The hypothesis is `Journaled`: `xattr_store` frees the old value inodes before it knows that
the new contents fit, and a call that fails there leaves references to inodes already
freed, as the observations say; with journaling the call's transaction is dropped.

### Only model-checked

`Extents` (its `Inv`, but for what `OrderedIsSearched` says, `NoSharing`, and what each call does),
indexed directories, and the two liveness properties, `RecoveryEnds` and
`EngineReturns` (of `Namespace`, `Rooted` fails where directories have indexes; of `Xattr`,
`CreatedBare` is the finding).  Liveness is outside what the prover does.  Induction schemes are too; the
recursive functions over an interval of numbers in `Balloc`, `JournalLog` and
`Namespace`, and over sets by their cardinality in `Namespace`, are dealt with by least
counterexamples, which does not reach those over structures: the descent of an index
(`Frames`).

## 5. Assumptions

- `BlockDevice::flush` is a write barrier.  The trait's default does nothing
  (`ext4_defs/block.rs:9`); the file-backed device of `main.rs` syncs the file.
- The ext4 and journal superblocks fit in a sector and are written whole; every
  other block may be torn.
- The log holds a descriptor with all its tags, its data, a revoke and a commit
  block (`LogHoldsTransaction`).  The code checks the number of tags only.
- A checksum fails exactly on blocks that rotted or were torn.
- A bitmap that mke2fs left unwritten is one of a group without blocks in use but those
  `get_system_zone` lists (`UninitGroups`).
- Group descriptors have 64 bytes and META_BG is off; a bitmap is the set of its
  set bits and its byte-wise search the least clear bit.
- An operation passes the failure of one nested in it on (`JournalDevice`).
- A caller frees blocks and inodes it holds; lock ranges are not empty.
- No name of a file is "." or ".." (`NamespaceConstants`).  A caller names neither, and, as the
  kernel's VFS does, links no directory, unlinks no directory and removes no file as one.
- A block that holds an entry is not corrupt: the guards of the code against
  zero lengths are never taken.  The hash in an index orders names; its arithmetic plays no part.
- Attribute lists that are set are ones that the kernel's `posix_acl_valid` accepts; values and
  names have the lengths given, and the files' attribute blocks are not shared.
- The data of a value fits the extents in its inode: one in so many pieces that it needs
  an index block, and may lack that one, is not modelled in `Xattr` (`Extents` has the case).
  Nothing but attributes takes blocks of `Blocks`.
- Block 0 of the device reads as zero where `more_to_rm` looks for a key, as the boot
  block of an image of 1 KiB blocks does and the padding before the superblock of
  the others; a freed block's old contents are not read again as a node.
- The `CrashPoint` hooks of the tests are subsumed: a crash may come anywhere.

## 6. Not modelled

- **File data** (`read_at`, unaligned writes, `copy_file_range`, `lseek`): what a file
  reads is a function of its mapping, which `Extents` models, and of the bytes of
  its blocks, which it does not.  The next step would be a module of bytes over
  `Extents`.
- **Two callers of one `JournalDevice`**: the front ends make one call at a time; the device
  itself would mix their transactions by depth alone (`journal/device.rs:52`).
- **Rot of committed log blocks**: replay compares neither the checksum of a
  descriptor nor of a tag (`journal/mod.rs:226`).
- **setattr, statfs, ioctl, poll, bmap** of the interface: they copy fields, or say
  that they are not supported.
- **Paths** (`generic_open`, `utils/path.rs`): a path is a sequence of look-ups.
- **The block and inode UNINIT flags** (`ext4_defs/block_group.rs:16`): a second mount by
  Linux, which would rebuild such a bitmap, is not modelled.
- The arithmetic of CRCs and hashes, the byte layout of structures, the command
  line, the file-backed device, wording of errors.

Proofs worth adding: the calls of `Extents` keep `Ordered`, with splits and growth; `CanMerge`,
`Merged` and `Cut` keep the blocks an extent means.
