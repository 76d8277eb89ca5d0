------------------------- MODULE MCJournalProtocol -------------------------
(* Two blocks with two contents each and up to two transactions.           *)
EXTENDS JournalProtocol

MCBlock == {1, 2}
MCValue == {"a", "b"}
MCStart == [b \in MCBlock |-> "a"]

=============================================================================
