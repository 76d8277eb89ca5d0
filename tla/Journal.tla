------------------------------- MODULE Journal -------------------------------
(***************************************************************************)
(* The journaling engine on a disk with a volatile write cache: the        *)
(* running transaction JournalDevice collects, the commit protocol of      *)
(* Journal::commit_with_crash, and recovery when the image is opened again *)
(* after a crash.                                                          *)
(*                                                                         *)
(* A crash may come between any two steps.  It keeps any subset of the     *)
(* block writes issued since the last flush and may tear a block of the    *)
(* log body or of the file system; the two superblocks fit in a sector and *)
(* are assumed to be written whole.  Block writes with no flush and no     *)
(* read between them are one step: every order and every prefix of them is *)
(* among the subsets a crash may keep.                                     *)
(***************************************************************************)
EXTENDS JournalLog

CONSTANTS Data,        \* file-system blocks other than the one of the superblock
          Image,       \* contents of a file-system block
          InitImage,   \* contents of every block at mkfs
          Freed,       \* blocks a transaction may revoke
          Capacity,    \* tags one descriptor block has room for
          FirstSeq,    \* s_sequence at mkfs
          MaxDepth,    \* bound: nesting of journaled operations
          MaxTxns,     \* bound: transactions begun
          MaxCrashes   \* bound: crashes

ASSUME JournalBounds ==
    /\ Data \subseteq Nat \ {0} /\ Freed \subseteq Nat
    /\ InitImage \in Image /\ ~HasMagic(InitImage)
    /\ \A i \in Image : i.kind \notin {"super", "torn", "none"}
    /\ Capacity \in Nat /\ FirstSeq \in 0 .. SeqWrap - 1
    /\ MaxDepth \in Nat /\ MaxTxns \in Nat /\ MaxCrashes \in Nat

\* The descriptor, the blocks it has tags for, a revoke and a commit block fit
\* in the log.  The code relies on it: it checks the number of tags only.
ASSUME LogHoldsTransaction == Capacity + 3 <= MaxLen - First

VARIABLES disk,    \* what is on stable storage
          cache,   \* writes since the last flush
          txn,     \* running transaction: h_sequence, staged blocks, revokes
          depth,   \* nesting depth of journal_begin
          pc,      \* where the engine is
          count    \* transactions begun and crashes so far

vars == <<disk, cache, txn, depth, pc, count>>

-----------------------------------------------------------------------------
(* The disk. *)

SbBlock == 0                             \* block of the ext4 superblock
Home    == {SbBlock} \cup Data
LogAddr(s)  == <<"log", s>>
HomeAddr(b) == <<"home", b>>
Addr == {LogAddr(s) : s \in LogSlot} \cup {HomeAddr(b) : b \in Home}

\* The superblock: the RECOVER flag, and the rest (free counts) as an image.
Super(recover, image) == [kind |-> "super", recover |-> recover, image |-> image]
Torn == [kind |-> "torn"]

\* Functions that are changed at the points of another one.
Over(f, g) == [x \in DOMAIN f \cup DOMAIN g |-> IF x \in DOMAIN g THEN g[x] ELSE f[x]]
Empty == [x \in {} |-> Torn]

Visible(a) == IF a \in DOMAIN cache THEN cache[a] ELSE disk[a]

VisibleLog   == [s \in LogSlot |-> Visible(LogAddr(s))]
VisibleJsb   == Visible(LogAddr(0))
VisibleSuper == Visible(HomeAddr(SbBlock))

\* Write the blocks g names, by address; write the journal superblock's
\* s_sequence and s_start; set or clear RECOVER in the live ext4 superblock.
WriteBlocks(g) == cache' = Over(cache, g)
WriteLog(g)    == WriteBlocks([a \in {LogAddr(s) : s \in DOMAIN g} |-> g[a[2]]])
WriteHome(g)   == WriteBlocks([a \in {HomeAddr(b) : b \in DOMAIN g} |-> g[a[2]]])
WriteJsb(seq, start) == WriteLog([s \in {0} |-> JournalSb(seq, start)])
WriteRecover(on) == WriteHome([b \in {SbBlock} |-> [VisibleSuper EXCEPT !.recover = on]])

\* Blocks longer than a sector, which a crash may tear.
Tearable == Addr \ {LogAddr(0), HomeAddr(SbBlock)}

-----------------------------------------------------------------------------
Idle == [seq |-> FirstSeq, blocks |-> Empty, revokes |-> {}]

Init ==
    /\ disk = [a \in Addr |-> IF a = LogAddr(0) THEN JournalSb(FirstSeq, 0)
                              ELSE IF a = HomeAddr(SbBlock) THEN Super(FALSE, InitImage)
                              ELSE InitImage]
    /\ cache = Empty
    /\ txn = Idle
    /\ depth = 0
    /\ pc = "running"
    /\ count = [txns |-> 0, crashes |-> 0]

(* The operations' side: journal_begin, write_offset, revoke, journal_end. *)

\* The outermost begin opens a transaction at the live s_sequence; a nested
\* one joins it.
Begin ==
    /\ pc = "running"
    /\ depth < MaxDepth
    /\ IF depth = 0
       THEN /\ count.txns < MaxTxns
            /\ count' = [count EXCEPT !.txns = @ + 1]
            /\ txn' = [seq |-> VisibleJsb.seq, blocks |-> Empty, revokes |-> {}]
       ELSE UNCHANGED <<txn, count>>
    /\ depth' = depth + 1
    /\ UNCHANGED <<disk, cache, pc>>

\* A block as the running operation reads it: the staged copy comes first.
ReadBlock(b) == IF b \in DOMAIN txn.blocks THEN txn.blocks[b] ELSE Visible(HomeAddr(b))

Stage(b, image) ==
    /\ pc = "running"
    /\ depth > 0
    /\ txn' = [txn EXCEPT !.blocks =
                  Over(@, [x \in {b} |-> IF b = SbBlock THEN [ReadBlock(b) EXCEPT !.image = image]
                                         ELSE image])]
    /\ UNCHANGED <<disk, cache, depth, pc, count>>

RevokeBlock(b) ==
    /\ pc = "running"
    /\ depth > 0
    /\ txn' = [txn EXCEPT !.revokes = @ \cup {b}]
    /\ UNCHANGED <<disk, cache, depth, pc, count>>

\* The blocks commit logs and checkpoints: the staged ones and the superblock,
\* from disk when it is not staged, with RECOVER set.
Journaled == Over(txn.blocks, [b \in {SbBlock} |-> [ReadBlock(b) EXCEPT !.recover = TRUE]])

\* The outermost end commits the transaction, unless the operation failed, the
\* transaction is empty or its tags do not fit in one descriptor (ENOSPC).
End(ok) ==
    /\ pc = "running"
    /\ depth > 0
    /\ depth' = depth - 1
    /\ IF depth > 1 THEN UNCHANGED <<txn, pc>>
       ELSE IF /\ ok
               /\ DOMAIN txn.blocks # {} \/ txn.revokes # {}
               /\ Cardinality(DOMAIN Journaled) <= Capacity
            THEN /\ txn' = [txn EXCEPT !.blocks = Journaled]
                 /\ pc' = "write_body"
            ELSE /\ txn' = Idle
                 /\ UNCHANGED pc
    /\ UNCHANGED <<disk, cache, count>>

-----------------------------------------------------------------------------
(* commit_with_crash *)

Step(from, to) == pc = from /\ pc' = to

\* The blocks of a transaction in the order of the BTreeMap.
Order(S) == CHOOSE order \in [1 .. Cardinality(S) -> S] :
                \A i, j \in DOMAIN order : i < j => order[i] < order[j]

\* The log body of a transaction, from s_first on.
Body(t) ==
    LET order == Order(DOMAIN t.blocks)
        tags  == [k \in DOMAIN order |-> Tag(order[k], t.blocks[order[k]])]
        data  == [k \in DOMAIN order |-> Escape(t.blocks[order[k]])]
        revoke == IF t.revokes = {} THEN <<>> ELSE <<Revoke(t.seq, t.revokes)>>
    IN  <<Descriptor(t.seq, tags)>> \o data \o revoke

\* Steps 3 and 4.  A block of the body that is written later wins a slot.
WriteBody ==
    /\ Step("write_body", "flush_body")
    /\ \E body \in {Body(txn)} :
          LET slots(s) == {k \in DOMAIN body : Ahead(First, k - 1) = s}
          IN  WriteLog([s \in {Ahead(First, k - 1) : k \in DOMAIN body} |->
                           body[CHOOSE k \in slots(s) : \A j \in slots(s) : j <= k]])
    /\ UNCHANGED <<disk, txn, depth, count>>
\* Mutation: no flush between step 5 and the commit block.
MarkActiveUnflushed ==
    /\ Step("mark_active", "write_commit")
    /\ WriteJsb(txn.seq, First)
    /\ UNCHANGED <<disk, txn, depth, count>>

\* Step 5: s_start = s_first, s_sequence = the transaction's.
MarkActive ==
    /\ Step("mark_active", "flush_active")
    /\ WriteJsb(txn.seq, First)
    /\ UNCHANGED <<disk, txn, depth, count>>

\* Step 6: the commit block, in the slot after the body.
WriteCommit ==
    /\ Step("write_commit", "flush_commit")
    /\ WriteLog([s \in {Ahead(First, Len(Body(txn)))} |-> Commit(txn.seq)])
    /\ UNCHANGED <<disk, txn, depth, count>>

\* Step 6b: RECOVER in the live superblock.
SetRecover ==
    /\ Step("set_recover", "flush_recover")
    /\ WriteRecover(TRUE)
    /\ UNCHANGED <<disk, txn, depth, count>>

\* Step 7: every block to its home.
Checkpoint ==
    /\ Step("checkpoint", "flush_checkpoint")
    /\ WriteHome(txn.blocks)
    /\ UNCHANGED <<disk, txn, depth, count>>
\* Mutation: the clean journal keeps the sequence number just committed.
MarkCleanSameSeq ==
    /\ Step("mark_clean", "flush_clean")
    /\ WriteJsb(txn.seq, 0)
    /\ UNCHANGED <<disk, txn, depth, count>>

\* Step 8: s_start = 0, s_sequence = the next one.
MarkClean ==
    /\ Step("mark_clean", "flush_clean")
    /\ WriteJsb(SeqSucc(txn.seq), 0)
    /\ UNCHANGED <<disk, txn, depth, count>>

\* Step 8b: RECOVER off.
ClearRecover ==
    /\ Step("clear_recover", "flush_done")
    /\ WriteRecover(FALSE)
    /\ UNCHANGED <<disk, txn, depth, count>>

-----------------------------------------------------------------------------
(* Crash, and open_journaled with Journal::recover. *)

\* The machine stops: memory is lost, and of the cached writes those in `kept'
\* reach the disk, those in `torn' in part.
Crash(kept, torn) ==
    /\ pc # "off"
    /\ count.crashes < MaxCrashes
    /\ disk' = [a \in Addr |-> IF a \in torn THEN Torn ELSE IF a \in kept THEN cache[a] ELSE disk[a]]
    /\ cache' = Empty
    /\ txn' = Idle
    /\ depth' = 0
    /\ pc' = "off"
    /\ count' = [count EXCEPT !.crashes = @ + 1]
\* Mutation: a journal with nothing committed in it is refused.
ReplayRefusesEmpty ==
    /\ pc = "off"
    /\ \E txns \in {Scan(VisibleLog, VisibleJsb)} :
          /\ txns # <<>>
          /\ WriteHome(HomeWrites(VisibleLog, txns))
    /\ pc' = "flush_replay"
    /\ UNCHANGED <<disk, txn, depth, count>>

\* SCAN: nothing committed, and open returns with the journal as it is;
\* otherwise the committed transactions are written home.
Replay ==
    /\ pc = "off"
    /\ \E txns \in {Scan(VisibleLog, VisibleJsb)} :
          IF txns = <<>> THEN pc' = "running" /\ UNCHANGED cache
          ELSE /\ ~RevokeTableFails(VisibleLog, txns)
               /\ WriteHome(HomeWrites(VisibleLog, txns))
               /\ pc' = "flush_replay"
    /\ UNCHANGED <<disk, txn, depth, count>>

\* s_start = 0, s_sequence = last committed + 1.
ClearJournal ==
    /\ Step("clear_journal", "flush_clear")
    /\ WriteJsb(SeqSucc(LastSequence(VisibleJsb, Scan(VisibleLog, VisibleJsb))), 0)
    /\ UNCHANGED <<disk, txn, depth, count>>
\* Mutation: steps 7 and 8 change places.
AfterFlushCleanFirst ==
    [flush_body |-> "mark_active", flush_active |-> "write_commit",
     flush_commit |-> "set_recover", flush_recover |-> "mark_clean",
     flush_clean |-> "checkpoint", flush_checkpoint |-> "clear_recover", flush_done |-> "running",
     flush_replay |-> "clear_journal", flush_clear |-> "clear_recover"]

\* block_device.flush(), at the end of each of the steps.
AfterFlush == [flush_body |-> "mark_active", flush_active |-> "write_commit",
               flush_commit |-> "set_recover", flush_recover |-> "checkpoint",
               flush_checkpoint |-> "mark_clean", flush_clean |-> "clear_recover",
               flush_done |-> "running",
               flush_replay |-> "clear_journal", flush_clear |-> "clear_recover"]

Flush ==
    /\ pc \in DOMAIN AfterFlush
    /\ disk' = Over(disk, cache)
    /\ cache' = Empty
    /\ pc' = AfterFlush[pc]
    /\ txn' = IF pc = "flush_done" THEN Idle ELSE txn
    /\ UNCHANGED <<depth, count>>

-----------------------------------------------------------------------------
Operation == \/ Begin
             \/ \E b \in Home, image \in Image : Stage(b, image)
             \/ \E b \in Freed : RevokeBlock(b)

Finish == \E ok \in BOOLEAN : End(ok)

Engine == \/ WriteBody \/ MarkActive \/ WriteCommit \/ SetRecover \/ Checkpoint
          \/ MarkClean \/ ClearRecover \/ Replay \/ ClearJournal \/ Flush

Fail == \E kept \in SUBSET DOMAIN cache : \E torn \in SUBSET (kept \cap Tearable) : Crash(kept, torn)

Next == Operation \/ Finish \/ Engine \/ Fail

\* The engine runs on, and the image is opened again after a crash.
Spec == Init /\ [][Next]_vars /\ WF_vars(Engine)

-----------------------------------------------------------------------------
(* Properties. *)

\* Types of the variables.
TypeOK ==
    /\ DOMAIN disk = Addr /\ DOMAIN cache \subseteq Addr
    /\ disk[LogAddr(0)] \in {JournalSb(s, start) : s \in 0 .. SeqWrap - 1, start \in {0, First}}
    /\ disk[HomeAddr(SbBlock)] \in [kind : {"super"}, recover : BOOLEAN, image : Image]
    /\ \A b \in Data : disk[HomeAddr(b)] \in Image \cup {Torn}
    /\ txn.seq \in 0 .. SeqWrap - 1 /\ DOMAIN txn.blocks \subseteq Home /\ txn.revokes \subseteq Freed
    /\ depth \in 0 .. MaxDepth
    /\ pc \in {"running", "off", "write_body", "mark_active", "write_commit", "set_recover",
               "checkpoint", "mark_clean", "clear_recover", "clear_journal"} \cup DOMAIN AfterFlush

\* The committed transactions a recovery of the durable log would find.
DiskLog   == [s \in LogSlot |-> disk[LogAddr(s)]]
Committed == Scan(DiskLog, disk[LogAddr(0)])

ImageOf(b) == IF b.kind = "super" THEN b.image ELSE b

\* What the file system holds once the durable log is replayed.
Recovered ==
    LET After(writes) == [b \in Home |-> ImageOf(IF b \in DOMAIN writes THEN writes[b]
                                                ELSE disk[HomeAddr(b)])]
        Writes(txns) == HomeWrites(DiskLog, txns)
    IN  Eager(After, Eager(Writes, Committed))

Committing == pc \in {"write_body", "flush_body", "mark_active", "flush_active",
                      "write_commit", "flush_commit"}
Applied == depth = 0 /\ txn.blocks # Empty /\ pc # "running" /\ ~Committing

AbstractPhase == IF depth > 0 THEN "open"
                 ELSE IF Committing THEN "committing"
                 ELSE IF Applied THEN "applied" ELSE "idle"

AbstractView == IF pc = "running" \/ Committing THEN [b \in Home |-> ImageOf(ReadBlock(b))]
                ELSE Recovered

Store == INSTANCE TxnStore WITH Block <- Home, Value <- Image,
                                Start <- [b \in Home |-> InitImage],
                                store <- Recovered, view <- AbstractView,
                                phase <- AbstractPhase

\* The engine implements the transactional store: whatever the crash, recovery
\* leaves all of a transaction or none, every acknowledged one and no aborted
\* one, and operations read the committed state and their own writes
\* (mod.rs:300 commit_with_crash, mod.rs:558 recover, device.rs:52 begin/end).
StoreImplemented == Store!SSpec

\* The protocol's view of the engine: the flush the engine is heading for, the
\* body at s_first as its descriptor names it, the sequence numbers of the
\* commit blocks, all of them counted on where the code's wrap.
Unwrapped(seq) == IF seq < FirstSeq THEN seq + SeqWrap ELSE seq

ProtocolPc ==
    CASE pc = "running" -> IF depth > 0 THEN "open" ELSE "idle"
      [] pc \in {"write_body", "flush_body"} -> "body"
      [] pc \in {"mark_active", "flush_active"} -> "active"
      [] pc \in {"write_commit", "flush_commit"} -> "commit"
      [] pc \in {"set_recover", "flush_recover", "checkpoint", "flush_checkpoint"} -> "checkpoint"
      [] pc \in {"mark_clean", "flush_clean"} -> "clean"
      [] pc \in {"clear_recover", "flush_done"} -> "idle"
      [] pc = "off" -> "off"
      [] pc = "flush_replay" -> "replay"
      [] pc \in {"clear_journal", "flush_clear"} -> "clear"

Unwritten  == [kind |-> "none"]
NoWrites   == [b \in Home |-> Unwritten]
ImagesOf(blocks) == [b \in Home |-> IF b \in DOMAIN blocks THEN ImageOf(blocks[b]) ELSE Unwritten]

ProtocolTxn == IF ProtocolPc \in {"open", "body", "active", "commit", "checkpoint", "clean"}
               THEN [seq |-> Unwrapped(txn.seq), writes |-> ImagesOf(txn.blocks)]
               ELSE [seq |-> FirstSeq, writes |-> NoWrites]

\* The body at s_first and the commit blocks, in a log.  A logged copy is taken as
\* an image, whatever its slot holds.
LoggedImage(log, slot, escaped) ==
    LET b == log[slot]
        image == ImageOf(IF b.kind = "escaped" /\ escaped THEN Unescape(b, TRUE) ELSE b)
    IN  IF image \in Image THEN image ELSE InitImage

Named(tags, b) == \E k \in DOMAIN tags : tags[k].block = b
TagAt(tags, b) == CHOOSE k \in DOMAIN tags : tags[k].block = b

BodyIn(log) ==
    LET d == log[First]
    IN  IF d.kind # "descriptor" THEN [seq |-> FirstSeq, writes |-> NoWrites]
        ELSE [seq |-> Unwrapped(d.seq),
              writes |-> [b \in Home |->
                  IF Named(d.tags, b)
                  THEN LoggedImage(log, Ahead(First, TagAt(d.tags, b)),
                                   d.tags[TagAt(d.tags, b)].escaped)
                  ELSE Unwritten]]

CommitsIn(log) == {Unwrapped(log[s].seq) : s \in {t \in BodySlot : log[t].kind = "commit"}}

BodyLog         == [s \in BodySlot |-> disk[LogAddr(s)]]
ProtocolBody    == BodyIn(BodyLog)
ProtocolHome    == [b \in Home |-> ImageOf(disk[HomeAddr(b)])]
ProtocolCommits == CommitsIn(BodyLog)
ProtocolJsb     == [seq |-> Unwrapped(disk[LogAddr(0)].seq), dirty |-> disk[LogAddr(0)].start # 0]

Protocol == INSTANCE JournalProtocol WITH
    Block <- Home, Value <- Image, Start <- [b \in Home |-> InitImage], None <- Unwritten,
    MaxSeq <- FirstSeq + MaxTxns,
    home <- ProtocolHome, body <- ProtocolBody, commits <- ProtocolCommits, jsb <- ProtocolJsb,
    txn <- ProtocolTxn, pc <- ProtocolPc

\* Block by block, write by write, the engine follows the protocol that
\* JournalProtocol states (and proves atomic): nothing durable changes outside
\* of the step it belongs to, and recovery finds a transaction exactly when the
\* protocol has one (mod.rs:300 commit_with_crash, mod.rs:180 scan).
ProtocolFollowed == Protocol!Spec

\* Until the running transaction's own commit block is durable the log holds
\* nothing to replay: no commit block an earlier transaction left behind, and no
\* file-system block that looks like one, is ever taken for its commit block (mod.rs:497 and 589, s_sequence).
NoStaleCommit == pc = "running" \/ Committing => Committed = <<>>

\* While the checkpoint of a commit overwrites home blocks the RECOVER flag is
\* on disk, the superblock copy among the checkpointed blocks included
\* (mod.rs:324-350, step 6b).
CheckpointUnderRecover ==
    pc \in {"checkpoint", "flush_checkpoint", "mark_clean", "flush_clean"} =>
        disk[HomeAddr(SbBlock)].recover

\* A commit, an abort or a recovery under way ends with the file system open: the
\* engine waits for nothing (mod.rs:300 commit_with_crash, mod.rs:558 recover).
EngineReturns == pc # "running" ~> pc = "running"

\* What holds between any two writes of the engine: nothing of a transaction that
\* is not committed can be replayed, and the recover flag covers the checkpoint.
Inv == TypeOK /\ NoStaleCommit /\ CheckpointUnderRecover

=============================================================================
