----------------------------- MODULE MCExtents -----------------------------
(* A file and a directory on a pool whose free blocks are scattered, so that *)
(* a call makes single-block extents and runs of two and three.              *)
EXTENDS Extents

MCPool  == 1 .. 20
MCTaken == {{2, 4, 6, 8, 11, 14, 17}, {2, 4, 6, 8, 10, 12, 14}}

\* For the files of one extent: nothing is taken.
MCFree == {{}}

\* The last call is looked at by the action properties only.
MCView == <<ino, node, used, calls>>
=============================================================================
