---------------------------- MODULE MCDirectory ----------------------------
(* Constants of the runs of Directory. *)
EXTENDS Directory

\* "e" is shorter than the others; the hashes of "b" and "c" collide
MCSize == [n \in AllNames |-> IF n \in {"e", Dot, DotDot} THEN 1 ELSE 2]
MCNeed == [n \in AllNames |-> MCSize[n] + 1]
MCHash == [n \in AllNames |->
              CASE n = "a" -> 6 [] n = "b" -> 2 [] n = "c" -> 2 [] n = "d" -> 8
                [] n = "e" -> 4 [] n = "f" -> 10 [] OTHER -> 5]
=============================================================================
