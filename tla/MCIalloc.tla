------------------------------ MODULE MCIalloc ------------------------------
(* Two groups of four inodes, of which the first is reserved, and the group *)
(* the code counts past the end of the device.                              *)
EXTENDS Ialloc

=============================================================================
