----------------------------- MODULE JournalLog -----------------------------
(***************************************************************************)
(* The on-disk jbd2 log as src/ext4_defs/journal.rs lays it out and        *)
(* src/ext4_impls/journal/mod.rs reads it: the kinds of log block, the     *)
(* cyclic log cursor, the SCAN walk, the revoke table and the list of      *)
(* writes that recovery makes.  Pure operators, no state.                  *)
(*                                                                         *)
(* A log block is a record whose field `kind' stands for the first bytes   *)
(* of the block.  Descriptor, revoke and commit blocks start with the jbd2 *)
(* magic and carry h_sequence in `seq'; everything else does not start     *)
(* with the magic.  A file-system block may hold anything, the image of a  *)
(* jbd2 block included, which is what escaping is for.                     *)
(***************************************************************************)
EXTENDS Integers, Sequences, FiniteSets, SequencesExt

CONSTANTS First,     \* s_first: first log block after the journal superblock
          MaxLen,    \* s_maxlen: number of blocks of the journal
          SeqWrap,    \* sequence numbers are unsigned and wrap at SeqWrap (2^32)
          HasCsum    \* CSUM_V2 or CSUM_V3 is set in the journal superblock

ASSUME LogGeometry == /\ First \in Nat /\ MaxLen \in Nat /\ SeqWrap \in Nat
                      /\ 0 < First /\ First < MaxLen /\ 1 < SeqWrap
                      /\ HasCsum \in BOOLEAN

LogSlot == 0 .. MaxLen - 1          \* slot 0 holds the journal superblock
BodySlot == First .. MaxLen - 1

SeqSucc(s) == (s + 1) % SeqWrap                     \* u32::wrapping_add(1)
SeqPred(s) == (s + SeqWrap - 1) % SeqWrap            \* u32::wrapping_sub(1)

\* The log cursor: one block further, back to s_first at the end of the area.
Advance(c) == IF c + 1 >= MaxLen THEN First ELSE c + 1

\* Op(x), in a form in which TLC evaluates x once.
Eager(Op(_), x) == CHOOSE r \in {Op(y) : y \in {x}} : TRUE

-----------------------------------------------------------------------------
(* Log blocks.  `ok' says whether the block checksum verifies. *)

Descriptor(s, tags) == [kind |-> "descriptor", seq |-> s, tags |-> tags]
Revoke(s, blocks)   == [kind |-> "revoke", seq |-> s, blocks |-> blocks, ok |-> TRUE]
Commit(s)           == [kind |-> "commit", seq |-> s, ok |-> TRUE]
JournalSb(s, start) == [kind |-> "jsb", seq |-> s, start |-> start]

\* h_magic of the block is JBD2_MAGIC_NUMBER.
HasMagic(b) == b.kind \in {"descriptor", "revoke", "commit", "jsb"}

\* The logged copy of a block that starts with the magic has its first four
\* bytes zeroed; replay puts the magic back when the tag carries ESCAPE.
Escape(b)   == IF HasMagic(b) THEN [kind |-> "escaped", of |-> b] ELSE b

Unescape(b, escaped) == IF escaped THEN b.of ELSE b

Tag(block, b) == [block |-> block, escaped |-> HasMagic(b)]

-----------------------------------------------------------------------------
(* Journal::scan *)

\* The walk's accumulators before the first block is read.
WalkStart(jsb) == [cursor |-> jsb.start, seq |-> jsb.seq,
                   blocks |-> <<>>, revokes |-> <<>>, txns |-> <<>>, stop |-> FALSE]

\* The cursor advanced k times.  The data block of a descriptor's k-th tag is
\* the k-th block after the descriptor.
Ahead(c, k) == First + ((c - First + k) % (MaxLen - First))

WalkDescriptor(w, b) ==
    LET n == Len(b.tags)
    IN  [w EXCEPT !.blocks = @ \o [k \in 1 .. n |->
                                     [block   |-> b.tags[k].block,
                                      slot    |-> Ahead(w.cursor, k),
                                      escaped |-> b.tags[k].escaped]],
                  !.cursor = Ahead(w.cursor, n + 1)]

WalkRevoke(w) == [w EXCEPT !.revokes = Append(@, w.cursor), !.cursor = Advance(@)]

WalkCommit(w) ==
    [w EXCEPT !.txns    = Append(@, [seq |-> w.seq, blocks |-> w.blocks, revokes |-> w.revokes]),
              !.blocks  = <<>>,
              !.revokes = <<>>,
              !.seq     = SeqSucc(@),
              !.cursor  = Advance(@)]

WalkStop(w) == [w EXCEPT !.stop = TRUE]

\* One iteration of the loop: the walk ends at a block without the magic, at a
\* block of another sequence and at a commit block whose checksum fails.
WalkStep(log, w) ==
    LET b == log[w.cursor]
    IN  IF w.stop \/ ~HasMagic(b) \/ b.kind = "jsb" THEN WalkStop(w)
        ELSE IF b.seq # w.seq THEN WalkStop(w)
        ELSE IF b.kind = "descriptor" THEN WalkDescriptor(w, b)
        ELSE IF b.kind = "revoke" THEN WalkRevoke(w)
        ELSE IF HasCsum /\ ~b.ok THEN WalkStop(w)
        ELSE WalkCommit(w)

\* The state of the walk after n iterations; there are at most s_maxlen.
Walk(log, jsb) ==
    LET Iteration(w) == WalkStep(log, w)
        walk[n \in 0 .. MaxLen] == IF n = 0 THEN WalkStart(jsb) ELSE Eager(Iteration, walk[n - 1])
    IN  walk

\* The committed transactions in log order; none when s_start = 0 (clean).
Scan(log, jsb) == IF jsb.start = 0 THEN <<>> ELSE Walk(log, jsb)[MaxLen].txns

\* Sequence of the last committed transaction.
LastSequence(jsb, txns) == IF txns = <<>> THEN SeqPred(jsb.seq) ELSE txns[Len(txns)].seq

-----------------------------------------------------------------------------
(* Journal::build_revoke_table and the replay loop of Journal::recover *)

RevokeSlots(txns) == UNION {ToSet(txns[i].revokes) : i \in DOMAIN txns}

\* A revoke block whose checksum fails aborts recovery.
RevokeTableFails(log, txns) == HasCsum /\ \E s \in RevokeSlots(txns) : ~log[s].ok

\* Block number -> highest sequence, as plain integers, that revokes it.
RevokeTable(log, txns) ==
    LET slots  == RevokeSlots(txns)
        seqs(b) == {log[s].seq : s \in {t \in slots : b \in log[t].blocks}}
    IN  [b \in UNION {log[s].blocks : s \in slots} |->
            CHOOSE q \in seqs(b) : \A r \in seqs(b) : r <= q]
\* Mutation: a transaction's own revokes are ignored.
IsRevokedLater(table, block, seq) == block \in DOMAIN table /\ table[block] > seq

\* Replay skips a block that this or a later transaction revokes.
IsRevoked(table, block, seq) == block \in DOMAIN table /\ table[block] >= seq

\* The logged blocks, by transaction and place, that are replayed to block b.
Copies(log, txns, b) ==
    LET table == RevokeTable(log, txns)
    IN  {p \in UNION {{i} \X DOMAIN txns[i].blocks : i \in DOMAIN txns} :
            /\ txns[p[1]].blocks[p[2]].block = b
            /\ ~IsRevoked(table, b, txns[p[1]].seq)}

\* What the replay leaves in the blocks it writes: transactions and their blocks
\* are taken in order, and the last write of a block wins.
HomeWrites(log, txns) ==
    LET last(b) == CHOOSE p \in Copies(log, txns, b) :
                       \A q \in Copies(log, txns, b) : q[1] < p[1] \/ (q[1] = p[1] /\ q[2] <= p[2])
        data(p) == LET lb == txns[p[1]].blocks[p[2]]
                   IN  Unescape(log[lb.slot], lb.escaped)
        logged  == UNION {{lb.block : lb \in Range(txns[i].blocks)} : i \in DOMAIN txns}
    IN  [b \in {c \in logged : Copies(log, txns, c) # {}} |-> data(last(b))]

=============================================================================
