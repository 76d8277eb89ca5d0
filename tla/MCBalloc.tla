------------------------------ MODULE MCBalloc ------------------------------
(* Small images for the block allocator: 1 KiB blocks, groups of six, the  *)
(* last one short, tables packed into group 0, superblock copies in groups *)
(* 1 and 3.  The blocks around the end of group 1 are free.                *)
EXTENDS Balloc, TLC

MCTables == (0 :> {3}) @@ (1 :> {4}) @@ (2 :> {5}) @@ (3 :> {6}) @@ (4 :> {25})

MCPreused == {9, 10, 16, 17, 18, 26, 27}
MCUninit  == {3}

MCGoal == {8, 14, 22}

=============================================================================
