------------------------- MODULE MCJournalRecovery -------------------------
(* Instances of JournalRecovery for TLC: two home blocks, a log of seven   *)
(* blocks, so that the second transaction may wrap around its end.         *)
EXTENDS JournalRecovery

MCBlock == {1, 2}
MCOrders == {<<>>, <<1>>, <<2>>, <<1, 2>>}

=============================================================================
