----------------------------- MODULE MCJournal -----------------------------
(* Instances of Journal for TLC.  One of the two images a block may be     *)
(* given is that of a commit block carrying the second transaction's       *)
(* sequence number.                                                        *)
EXTENDS Journal

MCTwoBlocks == {1, 2}
MCFreed     == {7}

Ordinary == [kind |-> "data", val |-> 0]
MCImage  == {Ordinary, Commit(SeqSucc(FirstSeq))}

=============================================================================
