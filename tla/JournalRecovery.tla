--------------------------- MODULE JournalRecovery ---------------------------
(***************************************************************************)
(* Recovery of a log another writer left behind: Journal::scan,            *)
(* build_revoke_table and recover, run over logs that hold several         *)
(* transactions, revokes and a partial tail, written by the kernel's jbd2. *)
(* The writer is external to this repository and is modelled by the format *)
(* of what it writes; recovery is the code of journal/mod.rs.              *)
(*                                                                         *)
(* Writes reach the device in order here.  The write cache and the flushes *)
(* are in Journal.tla.                                                     *)
(***************************************************************************)
EXTENDS JournalLog

CONSTANTS Block,      \* home blocks of the file system
          Orders,     \* sequences of blocks, as a transaction may log them
          FirstSeq,   \* s_sequence of the fresh journal
          MaxTxns,    \* bound: transactions the kernel commits
          MaxCrashes  \* bound: crashes

ASSUME RecoveryBounds == /\ FirstSeq \in 0 .. SeqWrap - 1 /\ MaxTxns \in Nat /\ MaxCrashes \in Nat
                         /\ Orders \subseteq Seq(Block)

VARIABLES log,      \* contents of the log blocks
          jsb,      \* the journal superblock: s_sequence, s_start
          home,     \* contents of the home blocks
          live,     \* committed, not yet checkpointed transactions, oldest first
          phase,    \* "running" (kernel), "dirty", "replaying", "clean", "failed"
          txns,     \* scan.txns of the recovery under way
          at,       \* its next transaction, and the next block of that one
          atCrash,  \* home blocks as the crash left them
          count     \* transactions and crashes so far

recoveryVars == <<log, jsb, home, live, phase, txns, at, atCrash, count>>

Blank  == [kind |-> "data", txn |-> 0]
Reused == [kind |-> "data", txn |-> MaxTxns + 1]

\* What a transaction writes: ordinary contents, or the image of a commit
\* block carrying the next sequence number.
Contents(n, s) == {[kind |-> "data", txn |-> n], Commit(s)}

LoopStart == [txn |-> 1, block |-> 1]

RecoveryInit ==
    /\ log = [s \in LogSlot |-> Blank]
    /\ jsb = JournalSb(FirstSeq, 0)
    /\ home = [b \in Block |-> Blank]
    /\ live = <<>>
    /\ phase = "running"
    /\ txns = <<>>
    /\ at = LoopStart
    /\ atCrash = home
    /\ count = [txns |-> 0, crashes |-> 0]

-----------------------------------------------------------------------------
(* The external writer. *)

\* A transaction is a record: its sequence number, where it begins in the log,
\* the order its blocks are logged in, what it writes to them, the blocks it
\* revokes, and whether it takes a descriptor for each block.  It begins `at'
\* blocks after s_first, counted on past the end of the area.
Slot(p) == Ahead(First, p)

Tags(t) == [k \in DOMAIN t.order |-> Tag(t.order[k], t.data)]

\* Its blocks: the revoke block, then the writes under one descriptor or, when
\* there are too many tags for one, several.
DescriptorsAndData(t) ==
    IF t.split
    THEN [j \in 1 .. 2 * Len(t.order) |->
             IF j % 2 = 1 THEN Descriptor(t.seq, <<Tags(t)[(j + 1) \div 2]>>) ELSE Escape(t.data)]
    ELSE IF t.order = <<>> THEN <<>>
    ELSE <<Descriptor(t.seq, Tags(t))>> \o [k \in DOMAIN t.order |-> Escape(t.data)]

Layout(t) == (IF t.revokes = {} THEN <<>> ELSE <<Revoke(t.seq, t.revokes)>>)
                \o DescriptorsAndData(t) \o <<Commit(t.seq)>>

Size(t) == Len(Layout(t))

\* Where the next transaction begins, and the sequence number it carries.
LogHead == IF live # <<>> THEN live[Len(live)].at + Size(live[Len(live)])
           ELSE IF jsb.start = 0 THEN 0 ELSE jsb.start - First
LogTail == IF live # <<>> THEN live[1].at ELSE LogHead
NextSeq == IF live # <<>> THEN SeqSucc(live[Len(live)].seq) ELSE jsb.seq

\* A sequence of blocks written from position p on.
Written(p, blocks) ==
    [s \in LogSlot |-> LET k == {i \in DOMAIN blocks : Slot(p + i - 1) = s}
                       IN  IF k = {} THEN log[s] ELSE blocks[CHOOSE i \in k : TRUE]]

\* The kernel appends a transaction to the log.  `reach' of its blocks reach
\* the disk; when that is not all of them, or the commit block is torn, the
\* machine has crashed.
KernelAppend(order, data, revokes, split, reach, torn) ==
    LET txn  == [seq |-> NextSeq, at |-> LogHead, order |-> order, data |-> data,
                 revokes |-> revokes, split |-> split]
        all  == Layout(txn)
        size == Size(txn)
        part == SubSeq(all, 1, reach)
    IN  /\ phase = "running"
        /\ count.txns < MaxTxns
        /\ order # <<>> \/ revokes # {}
        /\ split => Len(order) > 1
        /\ LogHead + size - LogTail <= MaxLen - First
        /\ reach \in 1 .. size
        /\ torn => reach = size /\ HasCsum
        /\ log' = Written(LogHead, IF torn THEN [part EXCEPT ![size].ok = FALSE] ELSE part)
        /\ jsb' = [jsb EXCEPT !.start = IF live = <<>> THEN Slot(LogHead) ELSE @]
        /\ IF reach = size /\ ~torn
           THEN /\ live' = Append(live, txn)
                /\ count' = [count EXCEPT !.txns = @ + 1]
                /\ UNCHANGED <<phase, atCrash>>
           ELSE /\ count.crashes < MaxCrashes
                /\ count' = [txns |-> count.txns + 1, crashes |-> count.crashes + 1]
                /\ phase' = "dirty"
                /\ atCrash' = home
                /\ UNCHANGED live
        /\ UNCHANGED <<home, txns, at>>

\* Whether transaction i's copy of b is the one to keep: it is the last to
\* write b, and neither it nor a later one revokes b.
Survives(i, b) == /\ b \in Range(live[i].order)
                  /\ \A j \in i .. Len(live) : b \notin live[j].revokes
                  /\ \A j \in i + 1 .. Len(live) : b \notin Range(live[j].order)

\* The kernel checkpoints the oldest transaction and moves the tail past it.
KernelCheckpoint ==
    /\ phase = "running"
    /\ live # <<>>
    /\ home' = [b \in Block |-> IF Survives(1, b) THEN live[1].data ELSE home[b]]
    /\ jsb' = JournalSb(SeqSucc(live[1].seq), Slot(live[1].at + Size(live[1])))
    /\ live' = Tail(live)
    /\ UNCHANGED <<log, phase, txns, at, atCrash, count>>

\* A block a committed transaction revoked is reused and written in place.
KernelReuse(b) ==
    /\ phase = "running"
    /\ \E i \in DOMAIN live : /\ b \in live[i].revokes
                              /\ \A j \in i + 1 .. Len(live) : b \notin Range(live[j].order)
    /\ home[b] # Reused
    /\ home' = [home EXCEPT ![b] = Reused]
    /\ UNCHANGED <<log, jsb, live, phase, txns, at, atCrash, count>>

\* The machine crashes; a revoke block of the log may have rotted.
RevokeSlot == {s \in BodySlot : log[s].kind = "revoke"}

Crash(rot) ==
    /\ phase \in {"running", "replaying"}
    /\ count.crashes < MaxCrashes
    /\ rot # {} => phase = "running" /\ HasCsum
    /\ log' = [s \in LogSlot |-> IF s \in rot THEN [log[s] EXCEPT !.ok = FALSE] ELSE log[s]]
    /\ phase' = "dirty"
    /\ txns' = <<>>
    /\ at' = LoopStart
    /\ atCrash' = IF phase = "running" THEN home ELSE atCrash
    /\ count' = [count EXCEPT !.crashes = @ + 1]
    /\ UNCHANGED <<jsb, home, live>>

-----------------------------------------------------------------------------
(* Journal::recover *)

\* What a logged block is replayed as.
Copy(lb) == Unescape(log[lb.slot], lb.escaped)

\* Mutation: the checksum of a revoke block is looked at when its transaction's
\* turn to be replayed has come.
RecoverScanLate ==
    LET found == Scan(log, jsb)
    IN  /\ phase = "dirty"
        /\ phase' = IF found = <<>> THEN "clean"
                    ELSE IF RevokeTableFails(log, found) THEN "failed" ELSE "replaying"
        /\ txns' = IF phase' = "replaying" THEN found ELSE txns
        /\ home' = IF phase' # "failed" THEN home
                   ELSE [b \in Block |-> LET copies == {lb \in Range(found[1].blocks) : lb.block = b}
                                         IN  IF copies = {} THEN home[b]
                                             ELSE Copy(CHOOSE lb \in copies : TRUE)]
        /\ UNCHANGED <<log, jsb, live, at, atCrash, count>>

\* Mutation: a bad revoke block makes recovery start over.
RecoverScanRetries ==
    LET found == Scan(log, jsb)
    IN  /\ phase = "dirty"
        /\ ~(found # <<>> /\ RevokeTableFails(log, found))
        /\ phase' = IF found = <<>> THEN "clean" ELSE "replaying"
        /\ txns' = found
        /\ UNCHANGED <<log, jsb, home, live, at, atCrash, count>>

\* SCAN and the revoke table.  An empty scan returns at once and leaves the
\* journal superblock as it is; a bad revoke block returns EIO.
RecoverScan ==
    LET found == Scan(log, jsb)
    IN  /\ phase = "dirty"
        /\ \/ /\ found = <<>>
              /\ phase' = "clean"
              /\ UNCHANGED txns
           \/ /\ found # <<>> /\ RevokeTableFails(log, found)
              /\ phase' = "failed"
              /\ UNCHANGED txns
           \/ /\ found # <<>> /\ ~RevokeTableFails(log, found)
              /\ phase' = "replaying"
              /\ txns' = found
        /\ UNCHANGED <<log, jsb, home, live, at, atCrash, count>>

\* The replay loops: a block, revoked or written to its home; and on to the next
\* transaction.
RecoverBlock ==
    /\ phase = "replaying"
    /\ at.txn \in DOMAIN txns /\ at.block \in DOMAIN txns[at.txn].blocks
    /\ LET lb == txns[at.txn].blocks[at.block]
       IN  home' = IF IsRevoked(RevokeTable(log, txns), lb.block, txns[at.txn].seq) THEN home
                   ELSE [home EXCEPT ![lb.block] = Copy(lb)]
    /\ at' = [at EXCEPT !.block = @ + 1]
    /\ UNCHANGED <<log, jsb, live, phase, txns, atCrash, count>>

RecoverTxn ==
    /\ phase = "replaying"
    /\ at.txn \in DOMAIN txns /\ at.block \notin DOMAIN txns[at.txn].blocks
    /\ at' = [txn |-> at.txn + 1, block |-> 1]
    /\ UNCHANGED <<log, jsb, home, live, phase, txns, atCrash, count>>

\* Mutation: the cleared journal keeps the last committed sequence number.
RecoverClearSameSeq ==
    /\ phase = "replaying"
    /\ at.txn \notin DOMAIN txns
    /\ jsb' = JournalSb(LastSequence(jsb, txns), 0)
    /\ phase' = "clean"
    /\ txns' = <<>> /\ at' = LoopStart
    /\ UNCHANGED <<log, home, live, atCrash, count>>

\* s_start = 0, s_sequence = last committed + 1.
RecoverClear ==
    /\ phase = "replaying"
    /\ at.txn \notin DOMAIN txns
    /\ jsb' = JournalSb(SeqSucc(LastSequence(jsb, txns)), 0)
    /\ phase' = "clean"
    /\ txns' = <<>> /\ at' = LoopStart
    /\ UNCHANGED <<log, home, live, atCrash, count>>

\* The recovered image goes back to the kernel.
Remount ==
    /\ phase = "clean"
    /\ phase' = "running"
    /\ live' = <<>>
    /\ UNCHANGED <<log, jsb, home, txns, at, atCrash, count>>

Kernel == \/ \E order \in Orders, revokes \in SUBSET Block, data \in Contents(count.txns + 1, NextSeq),
                split, torn \in BOOLEAN, reach \in 1 .. MaxLen :
                    KernelAppend(order, data, revokes, split, reach, torn)
          \/ KernelCheckpoint
          \/ \E b \in Block : KernelReuse(b)
          \/ \E rot \in {{}} \cup {{s} : s \in RevokeSlot} : Crash(rot)
          \/ Remount

Recover == RecoverScan \/ RecoverBlock \/ RecoverTxn \/ RecoverClear

RecoveryNext == Kernel \/ Recover

RecoverySpec == RecoveryInit /\ [][RecoveryNext]_recoveryVars /\ WF_recoveryVars(Recover)

-----------------------------------------------------------------------------
(* Properties. *)

DataBlock == [kind : {"data"}, txn : Nat] \cup [kind : {"commit"}, seq : 0 .. SeqWrap - 1, ok : {TRUE}]

\* Types of the variables.
RecoveryTypeOK ==
    /\ DOMAIN log = LogSlot
    /\ jsb.kind = "jsb" /\ jsb.seq \in 0 .. SeqWrap - 1 /\ jsb.start \in {0} \cup BodySlot
    /\ home \in [Block -> DataBlock]
    /\ \A i \in DOMAIN live : live[i].order \in Seq(Block) /\ live[i].revokes \subseteq Block
    /\ phase \in {"running", "dirty", "replaying", "clean", "failed"}
    /\ \A i \in DOMAIN txns : \A lb \in Range(txns[i].blocks) : lb.block \in Block
    /\ at \in [txn : Nat \ {0}, block : Nat \ {0}]
    /\ atCrash \in [Block -> DataBlock]

\* What a home block must hold once the committed transactions are replayed:
\* the last write of it that no same or later transaction revokes, and
\* otherwise what the crash left there.
Wanted(b) ==
    LET keep == {i \in DOMAIN live : Survives(i, b)}
    IN  IF keep = {} THEN atCrash[b] ELSE live[CHOOSE i \in keep : TRUE].data

\* Recovery brings every home block to the state the committed transactions
\* define: nothing lost, nothing half applied, no uncommitted tail applied, no
\* revoked copy written over a block reused since (mod.rs:558 recover).
ReplayIsExact == phase = "clean" => \A b \in Block : home[b] = Wanted(b)

\* When a revoke block cannot be trusted recovery touches no home block and
\* leaves the log to be inspected (mod.rs:523 build_revoke_table).
FailsBeforeWriting == phase = "failed" => home = atCrash /\ jsb.start # 0

\* After recovery the next transaction takes a sequence number that no
\* complete transaction in the log carries, so a later scan cannot take an old
\* commit block for a new one (mod.rs:589, s_sequence = last + 1).
SequenceIsFresh ==
    phase = "clean" => \A s \in BodySlot : log[s].kind = "commit" /\ log[s].ok => log[s].seq # jsb.seq

\* A dirty journal ends up replayed or refused, however often the machine
\* crashes meanwhile (crashes are finite).
RecoveryEnds == phase \in {"dirty", "replaying"} ~> phase \in {"clean", "failed"}

\* The state of a recovery that may stop and begin again at any step.
RecoveryInv == RecoveryTypeOK /\ SequenceIsFresh

=============================================================================
