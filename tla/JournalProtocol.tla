--------------------------- MODULE JournalProtocol ---------------------------
(***************************************************************************)
(* The commit and recovery protocol of the journal by itself: which of the *)
(* durable facts changes at which flush, and what a crash before that      *)
(* flush may leave.  The log is what recovery makes of it: the body at     *)
(* s_first, and the sequence numbers of the commit blocks anywhere in the  *)
(* log.  A step writes its blocks and flushes them; a crash in the step    *)
(* keeps any part of them.                                                 *)
(*                                                                         *)
(* Journal.tla, with the log block by block, implements this module, and   *)
(* this module implements TxnStore.tla.                                    *)
(***************************************************************************)
EXTENDS Integers

CONSTANTS Block,     \* file-system blocks
          SbBlock,   \* the one of the ext4 superblock
          Value,     \* contents of a block
          Start,     \* their contents at mkfs
          FirstSeq,  \* s_sequence at mkfs
          None,      \* a block that a transaction does not write
          Torn,      \* contents of a block a crash tore
          MaxSeq     \* bound: sequence numbers the transactions take

ASSUME ProtocolConstants ==
    /\ Start \in [Block -> Value] /\ SbBlock \in Block
    /\ FirstSeq \in Nat /\ MaxSeq \in Nat
    /\ None \notin Value /\ Torn \notin Value /\ None # Torn

VARIABLES home,     \* contents of the file-system blocks
          body,     \* descriptor and data at s_first: a sequence number and writes
          commits,  \* sequence numbers of the commit blocks in the log
          jsb,      \* journal superblock: s_sequence, and whether s_start # 0
          txn,      \* the running transaction
          pc        \* where the engine is

vars == <<home, body, commits, jsb, txn, pc>>

Writes == [Block -> Value \cup {None}]
Txn    == [seq : Nat, writes : Writes]
NoTxn  == [seq |-> FirstSeq, writes |-> [b \in Block |-> None]]

\* Blocks f overwritten by the writes w.
Over(f, w) == [b \in Block |-> IF w[b] = None THEN f[b] ELSE w[b]]

\* Recovery finds a committed transaction: the journal is dirty, the body at
\* s_first is of the expected sequence and so is a commit block.
Replayable == jsb.dirty /\ body.seq = jsb.seq /\ jsb.seq \in commits

Dirty(seq)   == [seq |-> seq, dirty |-> TRUE]
CleanAt(seq) == [seq |-> seq, dirty |-> FALSE]

Init ==
    /\ home = Start
    /\ body = NoTxn
    /\ commits = {}
    /\ jsb = CleanAt(FirstSeq)
    /\ txn = NoTxn
    /\ pc = "idle"

-----------------------------------------------------------------------------
(* journal_begin, the writes of the operation, journal_end. *)

Begin ==
    /\ pc = "idle"
    /\ jsb.seq < MaxSeq
    /\ txn' = [NoTxn EXCEPT !.seq = jsb.seq]
    /\ pc' = "open"
    /\ UNCHANGED <<home, body, commits, jsb>>

Stage(b, v) ==
    /\ pc = "open"
    /\ txn' = [txn EXCEPT !.writes[b] = v]
    /\ UNCHANGED <<home, body, commits, jsb, pc>>

Discard ==
    /\ pc = "open"
    /\ txn' = NoTxn
    /\ pc' = "idle"
    /\ UNCHANGED <<home, body, commits, jsb>>

\* Step 2b.  The superblock is logged as well, from disk if it is not staged.
Submit ==
    /\ pc = "open"
    /\ txn' = [txn EXCEPT !.writes[SbBlock] = IF @ = None THEN home[SbBlock] ELSE @]
    /\ pc' = "body"
    /\ UNCHANGED <<home, body, commits, jsb>>

-----------------------------------------------------------------------------
(* commit_with_crash, one action for each flush. *)

\* Steps 3 and 4.  The body overwrites some of the old commit blocks.
LogBody ==
    /\ pc = "body"
    /\ body' = txn
    /\ commits' \in SUBSET commits
    /\ pc' = "active"
    /\ UNCHANGED <<home, jsb, txn>>
\* Mutation: the commit block is never written.
MarkActiveNoCommit ==
    /\ pc = "active"
    /\ jsb' = Dirty(txn.seq)
    /\ pc' = "checkpoint"
    /\ UNCHANGED <<home, body, commits, txn>>

\* Step 5.
MarkActive ==
    /\ pc = "active"
    /\ jsb' = Dirty(txn.seq)
    /\ pc' = "commit"
    /\ UNCHANGED <<home, body, commits, txn>>

\* Step 6.  The commit block too may overwrite an old one.
WriteCommit ==
    /\ pc = "commit"
    /\ commits' \in {old \cup {txn.seq} : old \in SUBSET commits}
    /\ pc' = "checkpoint"
    /\ UNCHANGED <<home, body, jsb, txn>>

\* Step 7.
Checkpoint ==
    /\ pc = "checkpoint"
    /\ home' = Over(home, txn.writes)
    /\ pc' = "clean"
    /\ UNCHANGED <<body, commits, jsb, txn>>
\* Mutation: the sequence number is used again.
MarkCleanSameSeq ==
    /\ pc = "clean"
    /\ jsb' = CleanAt(txn.seq)
    /\ txn' = NoTxn
    /\ pc' = "idle"
    /\ UNCHANGED <<home, body, commits>>

\* Step 8.
MarkClean ==
    /\ pc = "clean"
    /\ jsb' = CleanAt(txn.seq + 1)
    /\ txn' = NoTxn
    /\ pc' = "idle"
    /\ UNCHANGED <<home, body, commits>>

-----------------------------------------------------------------------------
(* Journal::recover *)

Scan ==
    /\ pc = "off"
    /\ pc' = IF Replayable THEN "replay" ELSE "idle"
    /\ UNCHANGED <<home, body, commits, jsb, txn>>
\* Mutation: replay leaves the superblock alone.
ReplayNoSuper ==
    /\ pc = "replay"
    /\ home' = [Over(home, body.writes) EXCEPT ![SbBlock] = home[SbBlock]]
    /\ pc' = "clear"
    /\ UNCHANGED <<body, commits, jsb, txn>>

Replay ==
    /\ pc = "replay"
    /\ home' = Over(home, body.writes)
    /\ pc' = "clear"
    /\ UNCHANGED <<body, commits, jsb, txn>>

ClearJournal ==
    /\ pc = "clear"
    /\ jsb' = CleanAt(jsb.seq + 1)
    /\ pc' = "idle"
    /\ UNCHANGED <<home, body, commits, txn>>

-----------------------------------------------------------------------------
(* A crash: memory is lost, and what the step under way was writing may      *)
(* have reached the disk or not, a block of the file system also in part.    *)

Lost == txn' = NoTxn /\ pc' = "off"

\* A half-written body may read as anything of a sequence number used so far.
CrashInBody ==
    /\ pc = "body"
    /\ body' \in [seq : 0 .. txn.seq, writes : Writes]
    /\ commits' \in SUBSET commits
    /\ UNCHANGED <<home, jsb>>
    /\ Lost

CrashInCommit ==
    /\ pc = "commit"
    /\ commits' \in SUBSET (commits \cup {txn.seq})
    /\ UNCHANGED <<home, body, jsb>>
    /\ Lost

CrashAtHome(writes) ==
    /\ home' \in [Block -> Value \cup {Torn}]
    /\ \A b \in Block : home'[b] = home[b] \/ (writes[b] # None /\ home'[b] \in {writes[b], Torn})
    /\ UNCHANGED <<body, commits, jsb>>
    /\ Lost

CrashInCheckpoint == pc = "checkpoint" /\ CrashAtHome(txn.writes)
CrashInReplay     == pc = "replay" /\ CrashAtHome(body.writes)

CrashAtJsb ==
    /\ \/ pc = "active" /\ jsb' = Dirty(txn.seq)
       \/ pc = "clean"  /\ jsb' = CleanAt(txn.seq + 1)
       \/ pc = "clear"  /\ jsb' = CleanAt(jsb.seq + 1)
    /\ UNCHANGED <<home, body, commits>>
    /\ Lost

CrashElsewhere ==
    /\ pc # "off"
    /\ UNCHANGED <<home, body, commits, jsb>>
    /\ Lost

Crash == \/ CrashInBody \/ CrashInCommit \/ CrashInCheckpoint \/ CrashInReplay
         \/ CrashAtJsb \/ CrashElsewhere

-----------------------------------------------------------------------------
Next == \/ Begin \/ Discard \/ Submit
        \/ \E b \in Block, v \in Value : Stage(b, v)
        \/ LogBody \/ MarkActive \/ WriteCommit \/ Checkpoint \/ MarkClean
        \/ Scan \/ Replay \/ ClearJournal \/ Crash

Spec == Init /\ [][Next]_vars

-----------------------------------------------------------------------------
(* Properties. *)

\* Types of the variables.
TypeOK ==
    /\ home \in [Block -> Value \cup {Torn}]
    /\ body \in Txn
    /\ commits \in SUBSET Nat
    /\ jsb \in [seq : Nat, dirty : BOOLEAN]
    /\ txn \in Txn
    /\ pc \in {"idle", "open", "body", "active", "commit", "checkpoint", "clean",
               "off", "replay", "clear"}

\* The file system as a recovery of the durable state would leave it.
Recovered == IF Replayable THEN Over(home, body.writes) ELSE home

\* The engine has the file system open and no commit block of the running
\* transaction is out yet.
Uncommitted == pc \in {"idle", "open", "body", "active", "commit"}

\* No commit block of the current sequence number is in the log before the
\* running transaction writes its own, none of a later one ever.
SequenceInv ==
    /\ \A s \in commits : s <= jsb.seq
    /\ Uncommitted => jsb.seq \notin commits
    /\ jsb.seq \in commits => Replayable

\* What of the running transaction is durable, phase by phase.
CommitInv ==
    /\ pc \in {"open", "body", "active", "commit", "checkpoint", "clean"} => txn.seq = jsb.seq
    /\ pc \in {"active", "commit", "checkpoint", "clean"} => body = txn
    /\ pc = "commit" => jsb.dirty
    /\ pc \in {"checkpoint", "clean", "replay", "clear"} => Replayable
    /\ pc \in {"clean", "clear"} => Over(home, body.writes) = home

\* A torn block of the file system is one that the next recovery writes again.
TornInv == \A b \in Block : home[b] = Torn => Replayable /\ body.writes[b] # None
                                           /\ pc \in {"off", "replay", "clear"}

\* The invariant the protocol keeps at every step (mod.rs:423-512, the order of
\* the flushes of commit_with_crash; mod.rs:558, recover).
Inv == TypeOK /\ SequenceInv /\ CommitInv /\ TornInv

\* Whatever the crash, recovery ends with every block whole (mod.rs:558).
NoTornBlock == pc \notin {"off", "replay"} => \A b \in Block : home[b] # Torn

AbstractPhase == CASE pc = "open" -> "open"
                   [] pc \in {"body", "active", "commit"} -> "committing"
                   [] pc \in {"checkpoint", "clean"} -> "applied"
                   [] OTHER -> "idle"

AbstractView == IF pc \in {"open", "body", "active", "commit"} THEN Over(home, txn.writes)
                ELSE Recovered

Store == INSTANCE TxnStore WITH store <- Recovered, view <- AbstractView, phase <- AbstractPhase

\* The protocol implements the transactional store: recovery finds every
\* acknowledged transaction whole, an unacknowledged one whole or not at all,
\* an aborted one not at all (mod.rs:442, "After this flush the txn is durably
\* committed").
StoreImplemented == Store!SSpec

=============================================================================
