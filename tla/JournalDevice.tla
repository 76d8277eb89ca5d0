---------------------------- MODULE JournalDevice ----------------------------
(***************************************************************************)
(* The write-capturing block device (journal/device.rs) byte by byte:      *)
(* writes of any offset and length are collected as whole blocks, reads    *)
(* see them, nested operations share one transaction, and the outermost    *)
(* journal_end hands the transaction to the commit or drops it.  Each call *)
(* holds the device's mutex from beginning to end and is one action.  An   *)
(* operation passes the failure of a nested one on, as every caller does.  *)
(***************************************************************************)
EXTENDS Integers, Sequences

CONSTANTS BlockSize, NBlocks,   \* geometry of the device
          Byte,                 \* values of a byte
          None,                 \* no transaction
          MaxWrite,             \* bound: length of one write
          MaxDepth              \* bound: nesting of operations

ASSUME DeviceGeometry == /\ BlockSize \in Nat \ {0} /\ NBlocks \in Nat \ {0}
                         /\ MaxWrite \in Nat /\ MaxDepth \in Nat

BlockNo == 0 .. NBlocks - 1

\* Transactions: blocks by number, a block being a function from its offsets.
Blocks == UNION {[B -> [0 .. BlockSize - 1 -> Byte]] : B \in SUBSET BlockNo}

ASSUME NoneIsNoTransaction == None \notin Blocks

VARIABLES inner,    \* bytes of the backing device
          txn,      \* state.txn: the staged blocks by number, or None
          depth,    \* state.depth
          pending,  \* the transaction end() returned and commit has still to write
          doomed,   \* a nested operation failed and its callers are returning
          mirror,   \* what the device should read as
          saved     \* mirror at each journal_begin still open

vars == <<inner, txn, depth, pending, doomed, mirror, saved>>

Position == 0 .. BlockSize * NBlocks - 1

BlockOf(p) == p \div BlockSize
Intra(p)   == p % BlockSize
PositionOf(b, i) == b * BlockSize + i

NoBlocks == [b \in {} |-> <<>>]

InnerBlock(b) == [i \in 0 .. BlockSize - 1 |-> inner[PositionOf(b, i)]]

Init ==
    /\ inner \in [Position -> Byte]
    /\ txn = None /\ depth = 0 /\ pending = None
    /\ doomed = FALSE
    /\ mirror = inner
    /\ saved = <<>>

Open == txn # None

-----------------------------------------------------------------------------
\* Bytes off .. off + len - 1: the inner device's, overlaid with staged blocks.
ReadOffset(off, len) ==
    [k \in 1 .. len |->
        LET p == off + k - 1
        IN  IF Open /\ BlockOf(p) \in DOMAIN txn THEN txn[BlockOf(p)][Intra(p)] ELSE inner[p]]
\* Mutation: a second write to a block starts from the device's copy again.
BaseBlockInner(b) == InnerBlock(b)

\* The block a write starts from: the staged copy, or the whole block from the device.
BaseBlock(b) == IF b \in DOMAIN txn THEN txn[b] ELSE InnerBlock(b)

InRange(p, off, bytes) == p \in off .. off + Len(bytes) - 1

\* The device f with bytes written at off.
Laid(f, off, bytes) ==
    [p \in Position |-> IF InRange(p, off, bytes) THEN bytes[p - off + 1] ELSE f[p]]

\* Block b with its part of bytes merged in.
Merged(b, off, bytes) ==
    [i \in 0 .. BlockSize - 1 |->
        IF InRange(PositionOf(b, i), off, bytes) THEN bytes[PositionOf(b, i) - off + 1]
        ELSE BaseBlock(b)[i]]

\* Every block the range touches is merged and staged.
Staged(off, bytes) ==
    LET touched == {BlockOf(p) : p \in off .. off + Len(bytes) - 1}
    IN  [b \in DOMAIN txn \cup touched |-> IF b \in touched THEN Merged(b, off, bytes) ELSE txn[b]]

\* The operation runs: it is not returning from a failure, nor committing.
Running == pending = None /\ ~doomed
\* Mutation: captured writes reach the device as well.
WriteOffsetThrough(off, bytes) ==
    /\ Running
    /\ txn' = IF Open THEN Staged(off, bytes) ELSE txn
    /\ inner' = Laid(inner, off, bytes)
    /\ mirror' = Laid(mirror, off, bytes)
    /\ UNCHANGED <<depth, pending, doomed, saved>>

WriteOffset(off, bytes) ==
    /\ Running
    /\ IF Open THEN txn' = Staged(off, bytes) /\ UNCHANGED inner
               ELSE inner' = Laid(inner, off, bytes) /\ UNCHANGED txn
    /\ mirror' = Laid(mirror, off, bytes)
    /\ UNCHANGED <<depth, pending, doomed, saved>>

\* The outermost begin makes a new transaction, a nested one joins it.
Begin ==
    /\ Running
    /\ depth < MaxDepth
    /\ txn' = IF depth = 0 THEN NoBlocks ELSE txn
    /\ depth' = depth + 1
    /\ saved' = Append(saved, mirror)
    /\ UNCHANGED <<inner, pending, doomed, mirror>>

\* journal_end(ok).  end() returns the transaction when the outermost level
\* closes; it is committed, unless it is empty or the operation failed.
End(ok) ==
    /\ pending = None
    /\ depth > 0
    /\ doomed => ~ok
    /\ depth' = depth - 1
    /\ IF depth > 1
       THEN /\ doomed' = ~ok
            /\ UNCHANGED <<txn, pending>>
       ELSE /\ txn' = None
            /\ pending' = IF ok /\ txn # NoBlocks THEN txn ELSE None
            /\ doomed' = FALSE
    /\ mirror' = IF ok THEN mirror ELSE saved[Len(saved)]
    /\ saved' = SubSeq(saved, 1, Len(saved) - 1)
    /\ UNCHANGED inner

\* The commit writes the blocks through the device, now transparent.
Checkpoint ==
    /\ pending # None
    /\ inner' = [p \in Position |->
                    IF BlockOf(p) \in DOMAIN pending THEN pending[BlockOf(p)][Intra(p)] ELSE inner[p]]
    /\ pending' = None
    /\ UNCHANGED <<txn, depth, doomed, mirror, saved>>

Next == \/ \E off \in Position : \E len \in 1 .. MaxWrite : \E bytes \in [1 .. len -> Byte] :
              off + len - 1 \in Position /\ WriteOffset(off, bytes)
        \/ Begin
        \/ \E ok \in BOOLEAN : End(ok)
        \/ Checkpoint

Spec == Init /\ [][Next]_vars

-----------------------------------------------------------------------------
(* Properties. *)

\* Types of the variables.
TypeOK ==
    /\ inner \in [Position -> Byte] /\ mirror \in [Position -> Byte]
    /\ txn = None \/ txn \in Blocks
    /\ pending = None \/ pending \in Blocks
    /\ depth \in 0 .. MaxDepth
    /\ saved \in Seq([Position -> Byte]) /\ Len(saved) = depth
    /\ Open <=> depth > 0
    /\ doomed \in BOOLEAN

\* Whoever reads through the device sees every write made through it and, of
\* the operations that failed, none: merged, unaligned and spanning writes, the
\* writes of nested operations, and the blocks the commit puts in place
\* included (device.rs:96-155; ext4.rs:145, "On `ok == false` the running
\* transaction is discarded").
ReadsOwnWrites ==
    Running => \A off \in Position : \A len \in 1 .. MaxWrite :
        off + len - 1 \in Position =>
            \A k \in 1 .. len : ReadOffset(off, len)[k] = mirror[off + k - 1]

\* While operations run, the inner device holds the state before the outermost
\* began, to be found there after a failure (device.rs:25-30, journal_end at ext4.rs:148).
InnerIsOld == depth > 0 => inner = saved[1]

\* The device with the blocks of transaction t over it.
Overlaid(t) ==
    [p \in Position |-> IF BlockOf(p) \in DOMAIN t THEN t[BlockOf(p)][Intra(p)] ELSE inner[p]]

\* The staged blocks, and after the outermost end the blocks to be committed,
\* hold all that distinguishes the inner device from what callers see; a failure
\* is passed on while an operation is left, and a commit comes after the last.
LayersAgree ==
    /\ Running => mirror = IF Open THEN Overlaid(txn) ELSE inner
    /\ pending # None => depth = 0 /\ ~doomed /\ mirror = Overlaid(pending)
    /\ doomed => depth > 0

\* What holds between any two calls on the device.
Inv == TypeOK /\ InnerIsOld /\ LayersAgree

=============================================================================
