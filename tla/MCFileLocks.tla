---------------------------- MODULE MCFileLocks ----------------------------
(* Two owners on files of a few bytes. *)
EXTENDS FileLocks, TLC

Symmetry == Permutations(Owner) \cup Permutations(Inode)

=============================================================================
