------------------------------ MODULE MCXattr ------------------------------
(* Constants of the run of Xattr: blocks of 72 bytes.  The short list fits  *)
(* into the body with its entry, the middle one into a block, alone; the long*)
(* one takes two blocks of its own.                                         *)
EXTENDS Xattr

MCNames == <<Access, Default>>
MCEntryLen == [n \in Range(MCNames) |-> 16]

E(tag, id, perm) == [tag |-> tag, id |-> id, perm |-> perm]
Times(k, e) == [i \in 1..k |-> e]

\* mode bits alone, a list that names a user, and one that names groups too
MCShort == <<E("user_obj", 0, {"r", "w"}), E("group_obj", 0, {"r"}), E("other", 0, {})>>
MCMiddle == <<E("user_obj", 0, {"r", "w"}), E("user", 2, {"r", "w"}),
              E("group_obj", 0, {"r"}), E("mask", 0, {"r", "w"}), E("other", 0, {})>>
MCLong == <<E("user_obj", 0, {"r"}), E("user", 2, {"w"})>> \o Times(2, E("user", 3, {"r"})) \o
          <<E("group_obj", 0, {})>> \o Times(4, E("group", 2, {"r", "w"})) \o
          <<E("mask", 0, {"r"}), E("other", 0, {"r", "w"})>>

MCValues == {MCShort, MCMiddle, MCLong}
MCModes == {Mode({"w"}, {"r"}, {})}
MCUmask == Mode({}, {"r"}, {})
=============================================================================
