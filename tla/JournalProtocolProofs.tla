------------------------ MODULE JournalProtocolProofs ------------------------
(***************************************************************************)
(* Proofs about JournalProtocol: its invariant is inductive, recovery      *)
(* leaves no torn block, and the protocol implements TxnStore.             *)
(***************************************************************************)
EXTENDS JournalProtocol, TLAPS

(* Overwriting the blocks of a function.                                   *)

\* What Over holds at a block, and that it is a function on the blocks.
LEMMA OverAt ==
    ASSUME NEW f, NEW w, NEW b \in Block
    PROVE  Over(f, w)[b] = IF w[b] = None THEN f[b] ELSE w[b]
BY DEF Over

\* Replaying writes over whole and torn blocks yields whole and torn blocks.
LEMMA OverType ==
    ASSUME NEW f \in [Block -> Value \cup {Torn}], NEW w \in Writes
    PROVE  Over(f, w) \in [Block -> Value \cup {Torn}]
BY DEF Over, Writes

\* Replaying the same writes twice is replaying them once.
LEMMA OverTwice ==
    ASSUME NEW f, NEW w
    PROVE  Over(Over(f, w), w) = Over(f, w)
BY DEF Over

\* A transaction without writes.
LEMMA NoTxnType == NoTxn \in Txn
BY ProtocolConstants DEF NoTxn, Txn, Writes

-----------------------------------------------------------------------------
(* Type correctness. *)

LEMMA InitType == Init => TypeOK
BY ProtocolConstants, NoTxnType DEF Init, TypeOK, CleanAt

LEMMA StepType == Inv /\ [Next]_vars => TypeOK'
<1> SUFFICES ASSUME Inv, [Next]_vars PROVE TypeOK'
    OBVIOUS
<1>0. TypeOK
    BY DEF Inv
<1> USE DEF TypeOK
<1>1. CASE Begin
    BY <1>0, <1>1, ProtocolConstants DEF Begin, NoTxn, Txn, Writes
<1>2. CASE Discard
    BY <1>0, <1>2, NoTxnType DEF Discard
<1>3. CASE Submit
  <2>1. home[SbBlock] \in Value
    BY <1>0, <1>3, ProtocolConstants DEF Submit, Inv, TornInv
  <2>2. txn' \in Txn
    BY <1>0, <1>3, <2>1, ProtocolConstants DEF Submit, Txn, Writes
  <2> QED
    BY <1>0, <1>3, <2>2 DEF Submit
<1>4. ASSUME NEW b \in Block, NEW v \in Value, Stage(b, v) PROVE TypeOK'
    BY <1>0, <1>4 DEF Stage, Txn, Writes
<1>5. CASE LogBody
    BY <1>0, <1>5 DEF LogBody
<1>6. CASE MarkActive
    BY <1>0, <1>6 DEF MarkActive, Dirty, Txn
<1>7. CASE WriteCommit
    BY <1>0, <1>7 DEF WriteCommit, Txn
<1>8. CASE Checkpoint
    BY <1>0, <1>8, OverType DEF Checkpoint, Txn
<1>9. CASE MarkClean
    BY <1>0, <1>9, NoTxnType DEF MarkClean, CleanAt, Txn
<1>10. CASE Scan
    BY <1>0, <1>10 DEF Scan
<1>11. CASE Replay
    BY <1>0, <1>11, OverType DEF Replay, Txn
<1>12. CASE ClearJournal
    BY <1>0, <1>12 DEF ClearJournal, CleanAt
<1>13. CASE CrashInBody
    BY <1>0, <1>13, NoTxnType DEF CrashInBody, Lost, Txn
<1>14. CASE CrashInCommit
    BY <1>0, <1>14, NoTxnType DEF CrashInCommit, Lost, Txn
<1>15. CASE CrashInCheckpoint
    BY <1>0, <1>15, NoTxnType DEF CrashInCheckpoint, CrashAtHome, Lost
<1>16. CASE CrashInReplay
    BY <1>0, <1>16, NoTxnType DEF CrashInReplay, CrashAtHome, Lost
<1>17. CASE CrashAtJsb
  <2>1. /\ txn.seq \in Nat /\ jsb.seq \in Nat
        /\ txn' = NoTxn /\ pc' = "off"
        /\ UNCHANGED <<home, body, commits>>
    BY <1>0, <1>17 DEF CrashAtJsb, Lost, Txn
  <2>2. jsb' \in [seq : Nat, dirty : BOOLEAN]
    <3>1. CASE pc = "active" /\ jsb' = Dirty(txn.seq)
      BY <2>1, <3>1 DEF Dirty
    <3>2. CASE pc = "clean" /\ jsb' = CleanAt(txn.seq + 1)
      BY <2>1, <3>2 DEF CleanAt
    <3>3. CASE pc = "clear" /\ jsb' = CleanAt(jsb.seq + 1)
      BY <2>1, <3>3 DEF CleanAt
    <3> QED
      BY <1>0, <1>17, <3>1, <3>2, <3>3 DEF CrashAtJsb
  <2> QED
    BY <1>0, <2>1, <2>2, NoTxnType
<1>18. CASE CrashElsewhere
    BY <1>0, <1>18, NoTxnType DEF CrashElsewhere, Lost
<1>19. CASE UNCHANGED vars
    BY <1>0, <1>19 DEF vars
<1> QED
    BY <1>0, <1>1, <1>2, <1>3, <1>4, <1>5, <1>6, <1>7, <1>8, <1>9, <1>10, <1>11, <1>12, <1>13,
       <1>14, <1>15, <1>16, <1>17, <1>18, <1>19 DEF Next, Crash

-----------------------------------------------------------------------------
(* The invariant.  Each step is proved from the conjuncts that matter to it. *)

LEMMA InitInv == Init => Inv
<1> SUFFICES ASSUME Init PROVE Inv
    OBVIOUS
<1>1. TypeOK
    BY InitType
<1>2. SequenceInv /\ CommitInv
    BY DEF Init, SequenceInv, CommitInv, CleanAt
<1>3. TornInv
    BY ProtocolConstants DEF Init, TornInv
<1> QED
    BY <1>1, <1>2, <1>3 DEF Inv

\* Steps of the running transaction that leave the disk alone.
LEMMA OperationInv ==
    ASSUME Inv, TypeOK',
           Begin \/ Discard \/ Submit \/ (\E b \in Block, v \in Value : Stage(b, v))
    PROVE  Inv'
<1>1. UNCHANGED <<home, body, commits, jsb>> /\ pc \in {"idle", "open"} /\ pc' \in {"idle", "open", "body"}
    BY DEF Begin, Discard, Submit, Stage
<1>2. SequenceInv'
    BY <1>1 DEF Inv, SequenceInv, Uncommitted, Replayable
<1>3. TornInv'
    BY <1>1 DEF Inv, TornInv
<1>4. pc' \in {"open", "body"} => txn'.seq = jsb'.seq
  <2>1. CASE Begin
    BY <1>1, <2>1 DEF Begin, NoTxn
  <2>2. CASE Discard
    BY <2>2 DEF Discard
  <2>3. CASE Submit
    BY <1>1, <2>3 DEF Submit, Inv, CommitInv, TypeOK, Txn
  <2>4. ASSUME NEW b \in Block, NEW v \in Value, Stage(b, v) PROVE txn'.seq = jsb'.seq
    BY <1>1, <2>4 DEF Stage, Inv, CommitInv, TypeOK, Txn
  <2> QED
    BY <2>1, <2>2, <2>3, <2>4
<1>5. CommitInv'
    BY <1>1, <1>4 DEF CommitInv
<1> QED
    BY <1>2, <1>3, <1>5 DEF Inv

LEMMA LogBodyInv == ASSUME Inv, TypeOK', LogBody PROVE Inv'
<1>1. SequenceInv'
    BY DEF Inv, LogBody, SequenceInv, Uncommitted
<1>2. CommitInv'
    BY DEF Inv, LogBody, CommitInv
<1>3. TornInv'
    BY DEF Inv, LogBody, TornInv
<1> QED
    BY <1>1, <1>2, <1>3 DEF Inv

LEMMA MarkActiveInv == ASSUME Inv, TypeOK', MarkActive PROVE Inv'
<1>1. jsb'.seq = jsb.seq /\ jsb'.dirty
    BY DEF Inv, CommitInv, MarkActive, Dirty
<1>2. SequenceInv'
    BY <1>1 DEF Inv, MarkActive, SequenceInv, Uncommitted
<1>3. CommitInv'
    BY <1>1 DEF Inv, MarkActive, CommitInv
<1>4. TornInv'
    BY DEF Inv, MarkActive, TornInv
<1> QED
    BY <1>2, <1>3, <1>4 DEF Inv

LEMMA WriteCommitInv == ASSUME Inv, TypeOK', WriteCommit PROVE Inv'
<1>1. txn.seq = jsb.seq /\ body = txn /\ jsb.dirty
    BY DEF Inv, CommitInv, WriteCommit
<1>2. jsb.seq \in commits' /\ commits' \subseteq commits \cup {jsb.seq}
    BY <1>1 DEF WriteCommit
<1>3. Replayable'
    BY <1>1, <1>2 DEF WriteCommit, Replayable
<1>4. SequenceInv'
    BY <1>2, <1>3 DEF Inv, WriteCommit, SequenceInv, Uncommitted, TypeOK
<1>5. CommitInv'
    BY <1>1, <1>3 DEF WriteCommit, CommitInv
<1>6. TornInv'
    BY DEF Inv, WriteCommit, TornInv
<1> QED
    BY <1>4, <1>5, <1>6 DEF Inv

\* Blocks overwritten with a transaction's values are whole if the others were.
LEMMA OverWhole ==
    ASSUME NEW w \in Writes, NEW b \in Block, home[b] = Torn => w[b] # None
    PROVE  Over(home, w)[b] # Torn
BY ProtocolConstants, OverAt DEF Writes

LEMMA CheckpointInv == ASSUME Inv, TypeOK', Checkpoint PROVE Inv'
<1>1. txn.seq = jsb.seq /\ body = txn /\ Replayable
    BY DEF Inv, CommitInv, Checkpoint
<1>2. Replayable'
    BY <1>1 DEF Checkpoint, Replayable
<1>3. Over(home', body'.writes) = home'
    BY <1>1, OverTwice DEF Checkpoint
<1>4. SequenceInv'
    BY <1>2 DEF Inv, Checkpoint, SequenceInv, Uncommitted
<1>5. CommitInv'
    BY <1>1, <1>2, <1>3 DEF Checkpoint, CommitInv
<1>6. TornInv'
  <2> SUFFICES ASSUME NEW b \in Block PROVE home'[b] # Torn
    BY DEF TornInv
  <2>1. home[b] # Torn
    BY DEF Inv, TornInv, Checkpoint
  <2> QED
    BY <2>1, OverWhole DEF Checkpoint, Inv, TypeOK, Txn
<1> QED
    BY <1>4, <1>5, <1>6 DEF Inv

\* After s_sequence moves past the last commit block, none carries its value.
LEMMA SequenceMoves ==
    ASSUME Inv, jsb' = CleanAt(jsb.seq + 1), UNCHANGED commits
    PROVE  /\ jsb'.seq = jsb.seq + 1
           /\ \A s \in commits' : s < jsb'.seq
BY DEF Inv, SequenceInv, CleanAt, TypeOK

LEMMA MarkCleanInv == ASSUME Inv, TypeOK', MarkClean PROVE Inv'
<1>1. jsb' = CleanAt(jsb.seq + 1) /\ UNCHANGED <<home, body, commits>> /\ pc' = "idle"
    BY DEF Inv, CommitInv, MarkClean
<1>2. SequenceInv'
    BY <1>1, SequenceMoves DEF SequenceInv, TypeOK
<1>3. CommitInv'
    BY <1>1 DEF CommitInv
<1>4. TornInv'
    BY <1>1 DEF Inv, TornInv, MarkClean
<1> QED
    BY <1>2, <1>3, <1>4 DEF Inv

LEMMA ScanInv == ASSUME Inv, TypeOK', Scan PROVE Inv'
<1>1. UNCHANGED <<home, body, commits, jsb>>
    BY DEF Scan
<1>2. SequenceInv'
    BY <1>1 DEF Inv, Scan, SequenceInv, Uncommitted, Replayable
<1>3. CommitInv'
    BY <1>1 DEF Scan, CommitInv, Replayable
<1>4. TornInv'
    BY <1>1 DEF Inv, Scan, TornInv, Replayable
<1> QED
    BY <1>2, <1>3, <1>4 DEF Inv

LEMMA ReplayInv == ASSUME Inv, TypeOK', Replay PROVE Inv'
<1>1. Replayable /\ UNCHANGED <<body, commits, jsb>>
    BY DEF Inv, CommitInv, Replay
<1>2. Replayable'
    BY <1>1 DEF Replayable
<1>3. SequenceInv'
    BY <1>1, <1>2 DEF Inv, Replay, SequenceInv, Uncommitted
<1>4. CommitInv'
    BY <1>2, OverTwice DEF Replay, CommitInv
<1>5. TornInv'
  <2> SUFFICES ASSUME NEW b \in Block PROVE home'[b] # Torn
    BY DEF TornInv
  <2> QED
    BY OverWhole DEF Replay, Inv, TornInv, TypeOK, Txn
<1> QED
    BY <1>3, <1>4, <1>5 DEF Inv

LEMMA ClearJournalInv == ASSUME Inv, TypeOK', ClearJournal PROVE Inv'
<1>1. jsb' = CleanAt(jsb.seq + 1) /\ UNCHANGED <<home, body, commits>> /\ pc' = "idle"
    BY DEF ClearJournal
<1>2. SequenceInv'
    BY <1>1, SequenceMoves DEF SequenceInv, TypeOK
<1>3. CommitInv'
    BY <1>1 DEF CommitInv
<1>4. TornInv'
  <2> SUFFICES ASSUME NEW b \in Block PROVE home[b] # Torn
    BY <1>1 DEF TornInv
  <2>1. Over(home, body.writes) = home
    BY DEF Inv, CommitInv, ClearJournal
  <2>2. Over(home, body.writes)[b] # Torn
    BY OverWhole DEF Inv, TornInv, TypeOK, Txn
  <2> QED
    BY <2>1, <2>2
<1> QED
    BY <1>2, <1>3, <1>4 DEF Inv

LEMMA CrashInv == ASSUME Inv, TypeOK', Crash PROVE Inv'
<1>0. pc' = "off"
    BY DEF Crash, CrashInBody, CrashInCommit, CrashInCheckpoint, CrashInReplay, CrashAtHome,
           CrashAtJsb, CrashElsewhere, Lost
<1>1. CommitInv'
    BY <1>0 DEF CommitInv
<1>2. CASE CrashInBody
  <2>1. SequenceInv'
    BY <1>0, <1>2 DEF CrashInBody, Inv, SequenceInv, Uncommitted
  <2>2. TornInv'
    BY <1>2 DEF CrashInBody, Inv, TornInv
  <2> QED
    BY <1>1, <2>1, <2>2 DEF Inv
<1>3. CASE CrashInCommit
  <2>1. txn.seq = jsb.seq /\ body = txn /\ jsb.dirty
    BY <1>3 DEF Inv, CommitInv, CrashInCommit
  <2>2. SequenceInv'
    BY <1>0, <1>3, <2>1 DEF CrashInCommit, Inv, SequenceInv, Uncommitted, Replayable, TypeOK
  <2>3. TornInv'
    BY <1>3 DEF CrashInCommit, Inv, TornInv
  <2> QED
    BY <1>1, <2>2, <2>3 DEF Inv
<1>4. CASE CrashInCheckpoint \/ CrashInReplay
  <2>1. Replayable /\ UNCHANGED <<body, commits, jsb>>
    BY <1>4 DEF CrashInCheckpoint, CrashInReplay, CrashAtHome, Inv, CommitInv
  <2>2. Replayable'
    BY <2>1 DEF Replayable
  <2>3. SequenceInv'
    BY <1>0, <2>1, <2>2 DEF Inv, SequenceInv, Uncommitted
  <2>4. \A b \in Block : home'[b] = home[b] \/ body.writes[b] # None
    BY <1>4 DEF CrashInCheckpoint, CrashInReplay, CrashAtHome, Inv, CommitInv
  <2>5. TornInv'
    BY <1>0, <2>1, <2>2, <2>4 DEF Inv, TornInv
  <2> QED
    BY <1>1, <2>3, <2>5 DEF Inv
<1>5. CASE CrashAtJsb
  <2>1. UNCHANGED <<home, body, commits>> /\ pc \in {"active", "clean", "clear"}
    BY <1>5 DEF CrashAtJsb
  <2>2. CASE pc = "active"
    <3>1. jsb'.seq = jsb.seq
      BY <1>5, <2>2 DEF CrashAtJsb, Dirty, Inv, CommitInv
    <3>2. SequenceInv'
      BY <1>0, <2>1, <2>2, <3>1 DEF Inv, SequenceInv, Uncommitted
    <3>3. TornInv'
      BY <2>1, <2>2 DEF Inv, TornInv
    <3> QED
      BY <1>1, <3>2, <3>3 DEF Inv
  <2>3. CASE pc \in {"clean", "clear"}
    <3>1. jsb' = CleanAt(jsb.seq + 1)
      BY <1>5, <2>3 DEF CrashAtJsb, Inv, CommitInv
    <3>2. SequenceInv'
      BY <1>0, <2>1, <3>1, SequenceMoves DEF SequenceInv, Uncommitted, TypeOK
    <3>3. TornInv'
      <4> SUFFICES ASSUME NEW b \in Block PROVE home[b] # Torn
        BY <2>1 DEF TornInv
      <4>1. Over(home, body.writes) = home
        BY <2>3 DEF Inv, CommitInv
      <4>2. Over(home, body.writes)[b] # Torn
        BY OverWhole DEF Inv, TornInv, TypeOK, Txn
      <4> QED
        BY <4>1, <4>2
    <3> QED
      BY <1>1, <3>2, <3>3 DEF Inv
  <2> QED
    BY <2>1, <2>2, <2>3
<1>6. CASE CrashElsewhere
  <2>1. UNCHANGED <<home, body, commits, jsb>>
    BY <1>6 DEF CrashElsewhere
  <2>2. SequenceInv'
    BY <1>0, <2>1 DEF Inv, SequenceInv, Uncommitted, Replayable
  <2>3. TornInv'
    BY <1>0, <2>1 DEF Inv, TornInv, Replayable
  <2> QED
    BY <1>1, <2>2, <2>3 DEF Inv
<1> QED
    BY <1>2, <1>3, <1>4, <1>5, <1>6 DEF Crash

LEMMA StepInv == Inv /\ [Next]_vars => Inv'
<1> SUFFICES ASSUME Inv, [Next]_vars PROVE Inv'
    OBVIOUS
<1>1. TypeOK'
    BY StepType
<1>2. CASE UNCHANGED vars
    BY <1>1, <1>2 DEF vars, Inv, SequenceInv, CommitInv, TornInv, Uncommitted, Replayable
<1>3. CASE Next
    BY <1>1, <1>3, OperationInv, LogBodyInv, MarkActiveInv, WriteCommitInv, CheckpointInv,
       MarkCleanInv, ScanInv, ReplayInv, ClearJournalInv, CrashInv DEF Next
<1> QED
    BY <1>2, <1>3

\* The protocol keeps its invariant: at most the running transaction's commit
\* block carries the current sequence number, the body it commits is complete,
\* and a torn block is one recovery will write again (commit_with_crash, recover).
THEOREM InvHolds == Spec => []Inv
BY InitInv, StepInv, PTL DEF Spec

\* Every variable keeps its type.
THEOREM TypeCorrect == Spec => []TypeOK
BY InvHolds, PTL DEF Inv

\* Once recovery has replayed, and at every point of normal running, no block
\* of the file system is torn (recover, the replay loop).
THEOREM WholeBlocks == Spec => []NoTornBlock
<1>1. Inv => NoTornBlock
  <2> SUFFICES ASSUME Inv, pc \notin {"off", "replay"}, NEW b \in Block PROVE home[b] # Torn
    BY DEF NoTornBlock
  <2>1. CASE pc # "clear"
    BY <2>1 DEF Inv, TornInv
  <2>2. CASE pc = "clear"
    <3>1. Over(home, body.writes) = home
      BY <2>2 DEF Inv, CommitInv
    <3>2. Over(home, body.writes)[b] # Torn
      BY OverWhole DEF Inv, TornInv, TypeOK, Txn
    <3> QED
      BY <3>1, <3>2
  <2> QED
    BY <2>1, <2>2
<1> QED
    BY <1>1, InvHolds, PTL

-----------------------------------------------------------------------------
(* The protocol implements the transactional store. *)

\* Before the commit block is out recovery would leave the blocks as they are.
LEMMA RecoveredUncommitted ==
    ASSUME Inv, Uncommitted
    PROVE  Recovered = home
BY DEF Inv, SequenceInv, Replayable, Recovered

\* Afterwards it would leave them with the writes of the body.
LEMMA RecoveredCommitted ==
    ASSUME Replayable
    PROVE  Recovered = Over(home, body.writes)
BY DEF Recovered

\* Steps within one phase of the store change nothing the store shows.
LEMMA StutterSteps ==
    ASSUME Inv, Inv', LogBody \/ MarkActive \/ Checkpoint \/ Scan \/ Replay \/ ClearJournal
    PROVE  UNCHANGED Store!svars
<1>1. CASE LogBody \/ MarkActive
  <2>1. Uncommitted /\ Uncommitted' /\ UNCHANGED <<home, txn>>
    BY <1>1 DEF LogBody, MarkActive, Uncommitted
  <2>2. Recovered = home /\ Recovered' = home'
    BY <2>1, RecoveredUncommitted DEF Inv, SequenceInv, Replayable, Recovered
  <2>3. AbstractPhase' = AbstractPhase /\ AbstractView' = AbstractView
    BY <1>1, <2>1 DEF LogBody, MarkActive, AbstractPhase, AbstractView, Over
  <2> QED
    BY <2>1, <2>2, <2>3 DEF Store!svars
<1>2. CASE Checkpoint
  <2>1. body = txn /\ Replayable
    BY <1>2 DEF Inv, CommitInv, Checkpoint
  <2>2. Replayable' /\ body' = body
    BY <1>2, <2>1 DEF Checkpoint, Replayable
  <2>3. Recovered' = Recovered
    BY <1>2, <2>1, <2>2, OverTwice DEF Checkpoint, Recovered
  <2> QED
    BY <1>2, <2>3 DEF Checkpoint, AbstractPhase, AbstractView, Store!svars
<1>3. CASE Scan
  <2>1. Recovered' = Recovered
    BY <1>3 DEF Scan, Recovered, Replayable, Over
  <2>2. pc = "off" /\ pc' \in {"replay", "idle"}
    BY <1>3 DEF Scan
  <2> QED
    BY <2>1, <2>2 DEF AbstractPhase, AbstractView, Store!svars
<1>4. CASE Replay
  <2>1. Replayable /\ Replayable' /\ body' = body
    BY <1>4 DEF Replay, Inv, CommitInv, Replayable
  <2>2. Recovered' = Recovered
    BY <1>4, <2>1, OverTwice DEF Replay, Recovered
  <2> QED
    BY <1>4, <2>2 DEF Replay, AbstractPhase, AbstractView, Store!svars
<1>5. CASE ClearJournal
  <2>1. Recovered = home
    BY <1>5 DEF ClearJournal, Inv, CommitInv, Recovered
  <2>2. Recovered' = home'
    BY <1>5 DEF ClearJournal, CleanAt, Recovered, Replayable
  <2> QED
    BY <1>5, <2>1, <2>2 DEF ClearJournal, AbstractPhase, AbstractView, Store!svars
<1> QED
    BY <1>1, <1>2, <1>3, <1>4, <1>5

\* The steps of the operation and of the commit block are the store's.
LEMMA StoreSteps ==
    ASSUME Inv, Inv',
           \/ Begin \/ Discard \/ Submit \/ WriteCommit \/ MarkClean
           \/ \E b \in Block, v \in Value : Stage(b, v)
    PROVE  Store!SNext
<1>1. CASE Begin
  <2>1. Uncommitted /\ Uncommitted' /\ UNCHANGED home /\ pc = "idle" /\ pc' = "open"
    BY <1>1 DEF Begin, Uncommitted
  <2>2. Recovered = home /\ Recovered' = home'
    BY <2>1, RecoveredUncommitted DEF Inv, SequenceInv, Replayable, Recovered
  <2>3. Over(home', txn'.writes) = home'
    BY <1>1, <2>1 DEF Begin, NoTxn, Over, Inv, TypeOK
  <2>4. Store!Open
    BY <2>1, <2>2, <2>3 DEF Store!Open, AbstractPhase, AbstractView
  <2> QED
    BY <2>4 DEF Store!SNext
<1>2. CASE Discard
  <2>1. Uncommitted /\ UNCHANGED <<home, body, commits, jsb>> /\ pc = "open" /\ pc' = "idle"
    BY <1>2 DEF Discard, Uncommitted
  <2>2. Recovered' = Recovered
    BY <2>1 DEF Recovered, Replayable, Over
  <2>3. Store!Abort
    BY <2>1, <2>2 DEF Store!Abort, AbstractPhase, AbstractView
  <2> QED
    BY <2>3 DEF Store!SNext
<1>3. CASE Submit
  <2>1. UNCHANGED <<home, body, commits, jsb>> /\ pc = "open" /\ pc' = "body"
    BY <1>3 DEF Submit
  <2>2. Recovered' = Recovered
    BY <2>1 DEF Recovered, Replayable, Over
  <2>3. txn'.writes = [txn.writes EXCEPT ![SbBlock] =
                           IF txn.writes[SbBlock] = None THEN home[SbBlock] ELSE txn.writes[SbBlock]]
    BY <1>3 DEF Submit, Inv, TypeOK, Txn
  <2>4. \A b \in Block : (IF txn'.writes[b] = None THEN home[b] ELSE txn'.writes[b])
                         = (IF txn.writes[b] = None THEN home[b] ELSE txn.writes[b])
    BY <2>3 DEF Inv, TypeOK, Txn, Writes
  <2>5. Over(home', txn'.writes) = Over(home, txn.writes)
    BY <2>1, <2>4 DEF Over
  <2>6. Store!Submit
    BY <2>1, <2>2, <2>5 DEF Store!Submit, AbstractPhase, AbstractView
  <2> QED
    BY <2>6 DEF Store!SNext
<1>4. CASE WriteCommit
  <2>1. body = txn /\ Replayable' /\ UNCHANGED <<home, body>>
    BY <1>4 DEF Inv, CommitInv, WriteCommit
  <2>2. Recovered' = Over(home, txn.writes)
    BY <2>1 DEF Recovered, Over
  <2>3. Store!Apply
    BY <1>4, <2>2 DEF WriteCommit, Store!Apply, AbstractPhase, AbstractView
  <2> QED
    BY <2>3 DEF Store!SNext
<1>5. CASE MarkClean
  <2>1. Recovered = home
    BY <1>5 DEF MarkClean, Inv, CommitInv, Recovered
  <2>2. Recovered' = home'
    BY <1>5 DEF MarkClean, CleanAt, Recovered, Replayable
  <2>3. Store!Acknowledge
    BY <1>5, <2>1, <2>2 DEF MarkClean, Store!Acknowledge, AbstractPhase, AbstractView
  <2> QED
    BY <2>3 DEF Store!SNext
<1>6. ASSUME NEW b \in Block, NEW v \in Value, Stage(b, v)
      PROVE  Store!SNext
  <2>1. UNCHANGED <<home, body, commits, jsb>> /\ pc = "open" /\ pc' = "open"
    BY <1>6 DEF Stage
  <2>2. Recovered' = Recovered
    BY <2>1 DEF Recovered, Replayable, Over
  <2>3. v # None
    BY ProtocolConstants
  <2>4. txn.writes \in Writes /\ txn'.writes = [txn.writes EXCEPT ![b] = v]
    BY <1>6 DEF Stage, Inv, TypeOK, Txn
  <2>5. Over(home', txn'.writes) = [Over(home, txn.writes) EXCEPT ![b] = v]
    BY <2>1, <2>3, <2>4 DEF Over, Writes
  <2>6. Store!Put(b, v)
    BY <2>1, <2>2, <2>5 DEF Store!Put, AbstractPhase, AbstractView
  <2> QED
    BY <2>6 DEF Store!SNext
<1> QED
    BY <1>1, <1>2, <1>3, <1>4, <1>5, <1>6

\* A crash leaves the store as it was or, during a commit, with all its writes.
LEMMA CrashSteps ==
    ASSUME Inv, Inv', Crash
    PROVE  Store!SNext
<1>0. pc # "off" /\ pc' = "off"
    BY DEF Crash, CrashInBody, CrashInCommit, CrashInCheckpoint, CrashInReplay, CrashAtHome,
           CrashAtJsb, CrashElsewhere, Lost
<1>1. AbstractPhase' = "idle" /\ AbstractView' = Recovered'
    BY <1>0 DEF AbstractPhase, AbstractView
<1>2. \/ Recovered' = Recovered
      \/ AbstractPhase = "committing" /\ Recovered' = AbstractView
  <2>1. CASE CrashInBody
    <3>1. Recovered = home /\ UNCHANGED <<home, jsb>>
      BY <2>1, RecoveredUncommitted DEF CrashInBody, Uncommitted
    <3>2. ~Replayable'
      BY <2>1 DEF CrashInBody, Inv, SequenceInv, Uncommitted, Replayable
    <3> QED
      BY <3>1, <3>2 DEF Recovered
  <2>2. CASE CrashInCommit
    <3>1. Recovered = home /\ UNCHANGED <<home, body>> /\ body = txn
      BY <2>2, RecoveredUncommitted DEF CrashInCommit, Uncommitted, Inv, CommitInv
    <3>2. AbstractPhase = "committing" /\ AbstractView = Over(home, txn.writes)
      BY <2>2 DEF CrashInCommit, AbstractPhase, AbstractView
    <3>3. Recovered' = home \/ Recovered' = Over(home, txn.writes)
      BY <3>1 DEF Recovered, Over
    <3> QED
      BY <3>1, <3>2, <3>3
  <2>3. CASE CrashInCheckpoint \/ CrashInReplay
    <3>1. Replayable /\ UNCHANGED <<body, commits, jsb>>
      BY <2>3 DEF CrashInCheckpoint, CrashInReplay, CrashAtHome, Inv, CommitInv
    <3>2. Replayable'
      BY <3>1 DEF Replayable
    <3>3. \A b \in Block : home'[b] = home[b] \/ body.writes[b] # None
      BY <2>3 DEF CrashInCheckpoint, CrashInReplay, CrashAtHome, Inv, CommitInv
    <3>4. Over(home', body'.writes) = Over(home, body.writes)
      BY <3>1, <3>3 DEF Over
    <3> QED
      BY <3>1, <3>2, <3>4 DEF Recovered
  <2>4. CASE CrashAtJsb
    <3>1. UNCHANGED <<home, body, commits>> /\ pc \in {"active", "clean", "clear"}
      BY <2>4 DEF CrashAtJsb
    <3>2. CASE pc = "active"
      <4>1. jsb'.seq = jsb.seq
        BY <2>4, <3>2 DEF CrashAtJsb, Dirty, Inv, CommitInv
      <4>2. jsb.seq \notin commits
        BY <3>2 DEF Inv, SequenceInv, Uncommitted
      <4> QED
        BY <3>1, <4>1, <4>2 DEF Recovered, Replayable
    <3>3. CASE pc \in {"clean", "clear"}
      <4>1. ~jsb'.dirty
        BY <2>4, <3>3 DEF CrashAtJsb, CleanAt
      <4>2. Over(home, body.writes) = home
        BY <3>3 DEF Inv, CommitInv
      <4> QED
        BY <3>1, <4>1, <4>2 DEF Recovered, Replayable
    <3> QED
      BY <3>1, <3>2, <3>3
  <2>5. CASE CrashElsewhere
    <3>1. UNCHANGED <<home, body, commits, jsb>>
      BY <2>5 DEF CrashElsewhere
    <3> QED
      BY <3>1 DEF Recovered, Replayable, Over
  <2> QED
    BY <2>1, <2>2, <2>3, <2>4, <2>5 DEF Crash
<1>3. Store!Crash
    BY <1>1, <1>2 DEF Store!Crash
<1> QED
    BY <1>3 DEF Store!SNext

LEMMA StoreInit == Init => Store!SInit
BY DEF Init, Store!SInit, Recovered, Replayable, CleanAt, AbstractPhase, AbstractView

LEMMA StoreNext == Inv /\ Inv' /\ [Next]_vars => [Store!SNext]_Store!svars
<1> SUFFICES ASSUME Inv, Inv', [Next]_vars PROVE [Store!SNext]_Store!svars
    OBVIOUS
<1>1. CASE UNCHANGED vars
    BY <1>1 DEF vars, Store!svars, Recovered, Replayable, Over, AbstractPhase, AbstractView
<1>2. CASE Next
    BY <1>2, StutterSteps, StoreSteps, CrashSteps DEF Next
<1> QED
    BY <1>1, <1>2

\* Every behaviour of the protocol, crashes included, is one of the store: what
\* commit_with_crash acknowledged is there after any crash and recovery, what it
\* had not is there whole or not at all, and what was discarded is not there.
THEOREM ImplementsStore == Spec => StoreImplemented
<1>1. Inv /\ Inv' /\ [Next]_vars => [Store!SNext]_Store!svars
    BY StoreNext
<1>2. Init => Store!SInit
    BY StoreInit
<1> QED
    BY <1>1, <1>2, InvHolds, PTL DEF Spec, StoreImplemented, Store!SSpec

=============================================================================
