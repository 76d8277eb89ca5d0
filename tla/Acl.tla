-------------------------------- MODULE Acl --------------------------------
(***************************************************************************)
(* Access control lists (acl.rs): what a default list makes of the mode    *)
(* and the access list of a new file, and what an access list grants.      *)
(*                                                                         *)
(* A list is a sequence of entries with a tag, permissions and, for a      *)
(* named user or group, an id; a mode has the permissions of its classes.  *)
(* An entry of zeros has a tag that is none of the six, and is passed over. *)
(***************************************************************************)
EXTENDS Integers, Sequences

\* the tags in the order of a list, the one of zeros last
Tags == <<"user_obj", "user", "group_obj", "group", "mask", "other", "none">>

Mode(user, group, other) == [user |-> user, group |-> group, other |-> other]

\* a list is a sequence of them; perm, of what ACL_RWX has bits for
Entry == [tag : {Tags[r] : r \in DOMAIN Tags}, id : Nat, perm : SUBSET {"r", "w", "x"}]

ModeType == [user : SUBSET {"r", "w", "x"}, group : SUBSET {"r", "w", "x"}, other : SUBSET {"r", "w", "x"}]

Tagged(acl, tag) == {i \in DOMAIN acl : acl[i].tag = tag}

\* a list with its entries in order, of those there may be one of
Ordered(acl) ==
    /\ \E i \in DOMAIN acl : Tagged(acl, "user_obj") = {i}
    /\ \A tag \in {"group_obj", "mask", "other"} : \A i, j \in Tagged(acl, tag) : i = j
    /\ LET Rank(i) == CHOOSE r \in DOMAIN Tags : acl[i].tag = Tags[r]
       IN  \A i, j \in DOMAIN acl : i < j => Rank(i) <= Rank(j)

\* one that also has what a list must have: a mask when it names someone
WellFormed(acl) ==
    /\ Ordered(acl) /\ Tagged(acl, "none") = {}
    /\ Tagged(acl, "group_obj") # {} /\ Tagged(acl, "other") # {}
    /\ Tagged(acl, "user") \cup Tagged(acl, "group") # {} => Tagged(acl, "mask") # {}

-----------------------------------------------------------------------------
(* posix_acl_create_masq *)

\* the entry the group bits of the mode stand for
GroupClass(acl) ==
    IF Tagged(acl, "mask") # {} THEN Tagged(acl, "mask") ELSE Tagged(acl, "group_obj")

\* Mutation: the group bits clamp the owning group although there is a mask.
MasqGroupObj(acl, mode) ==
    [i \in DOMAIN acl |->
        IF acl[i].tag = "user_obj" THEN [acl[i] EXCEPT !.perm = @ \cap mode.user]
        ELSE IF acl[i].tag = "other" THEN [acl[i] EXCEPT !.perm = @ \cap mode.other]
        ELSE IF acl[i].tag = "group_obj" THEN [acl[i] EXCEPT !.perm = @ \cap mode.group]
        ELSE acl[i]]

\* the list of the new file
Masq(acl, mode) ==
    [i \in DOMAIN acl |->
        IF acl[i].tag = "user_obj" THEN [acl[i] EXCEPT !.perm = @ \cap mode.user]
        ELSE IF acl[i].tag = "other" THEN [acl[i] EXCEPT !.perm = @ \cap mode.other]
        ELSE IF i \in GroupClass(acl) THEN [acl[i] EXCEPT !.perm = @ \cap mode.group]
        ELSE acl[i]]

\* its mode
MasqMode(acl, mode) ==
    LET Clamp(S, bits) == {p \in bits : \A i \in S : p \in acl[i].perm}
    IN  Mode(Clamp(Tagged(acl, "user_obj"), mode.user),
             Clamp(GroupClass(acl), mode.group),
             Clamp(Tagged(acl, "other"), mode.other))

\* not_equiv: the list says more than mode bits can
SaysMore(acl) ==
    \E i \in DOMAIN acl : acl[i].tag \in {"user", "group", "mask"}

-----------------------------------------------------------------------------
(* acl_permission *)

Effective(acl, i) ==
    {p \in acl[i].perm : \A m \in Tagged(acl, "mask") : p \in acl[m].perm}

\* Mutation: who is refused as a group is looked at again as anybody else.
GrantedThrough(acl, owner, group, uid, gid, want) ==
    LET at[i \in 1..(Len(acl) + 1)] ==
            IF i > Len(acl) THEN FALSE
            ELSE LET e == acl[i]
                     grants == want \subseteq Effective(acl, i)
                     mine == \/ e.tag = "group_obj" /\ gid = group
                             \/ e.tag = "group" /\ e.id = gid
                 IN  IF e.tag = "user_obj" /\ uid = owner THEN want \subseteq e.perm
                     ELSE IF e.tag = "user" /\ e.id = uid THEN grants
                     ELSE IF mine THEN grants \/ at[i + 1]
                     ELSE IF e.tag = "other" THEN want \subseteq e.perm
                     ELSE at[i + 1]
    IN  at[1]

\* entry by entry, whether one of a group has matched before
Granted(acl, owner, group, uid, gid, want) ==
    LET at[i \in 1..(Len(acl) + 1)] == [found \in BOOLEAN |->
            IF i > Len(acl) THEN FALSE
            ELSE LET e == acl[i]
                     grants == want \subseteq Effective(acl, i)
                     mine == \/ e.tag = "group_obj" /\ gid = group
                             \/ e.tag = "group" /\ e.id = gid
                 IN  IF e.tag = "user_obj" /\ uid = owner THEN want \subseteq e.perm
                     ELSE IF e.tag = "user" /\ e.id = uid THEN grants
                     ELSE IF mine THEN grants \/ at[i + 1][TRUE]
                     ELSE IF e.tag = "other" THEN ~found /\ want \subseteq e.perm
                     ELSE at[i + 1][found]]
    IN  at[1][FALSE]

\* who is neither the owner nor anybody else
InGroupClass(acl, group, uid, gid) ==
    \/ \E i \in Tagged(acl, "user") : acl[i].id = uid
    \/ gid = group
    \/ \E i \in Tagged(acl, "group") : acl[i].id = gid

\* The rule of POSIX.1e: the owner, a named user, a group that is the file's or
\* is named, and everybody else, in this order; of two entries for one user the
\* first counts.
PosixGrants(acl, owner, group, uid, gid, want) ==
    LET users == {i \in Tagged(acl, "user") : acl[i].id = uid}
        groups == {i \in Tagged(acl, "group_obj") : gid = group} \cup
                  {i \in Tagged(acl, "group") : acl[i].id = gid}
        first == {i \in users : \A j \in users : i <= j}
    IN  IF uid = owner THEN \E i \in Tagged(acl, "user_obj") : want \subseteq acl[i].perm
        ELSE IF users # {} THEN \E i \in first : want \subseteq Effective(acl, i)
        ELSE IF groups # {} THEN \E i \in groups : want \subseteq Effective(acl, i)
        ELSE \E i \in Tagged(acl, "other") : want \subseteq acl[i].perm
=============================================================================
