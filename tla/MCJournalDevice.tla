--------------------------- MODULE MCJournalDevice ---------------------------
(* Two blocks of two bytes; a byte has two values.                          *)
EXTENDS JournalDevice

=============================================================================
