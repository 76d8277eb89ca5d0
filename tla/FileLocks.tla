----------------------------- MODULE FileLocks -----------------------------
(***************************************************************************)
(* The POSIX lock table of src/fuse_interface/mod.rs: setlk, and the       *)
(* release of an owner's locks on flush and release of an open file.       *)
(*                                                                         *)
(* The table of a file is a list in the code; its order only decides which *)
(* of several conflicts getlk shows, and it is a set here.  `held' is no   *)
(* state of the code: it is what each owner knows from the replies it got, *)
(* read as POSIX record locks, byte by byte.                               *)
(***************************************************************************)
EXTENDS Integers

CONSTANTS Inode,      \* files that are locked
          Owner,      \* lock owners
          LastByte    \* the last byte a range may have

ASSUME LastByteAssumption == LastByte \in Nat

Byte == 0 .. LastByte
Mode == {"read", "write"}          \* F_RDLCK, F_WRLCK
Lock == [owner : Owner, start : Byte, end : Byte, typ : Mode]

VARIABLES locks,   \* per file, the locks in the table
          held     \* per file, owner and byte: the mode the owner was granted

lockVars == <<locks, held>>

LocksInit ==
    /\ locks = [ino \in Inode |-> {}]
    /\ held = [ino \in Inode |-> [o \in Owner |-> [b \in Byte |-> "none"]]]

-----------------------------------------------------------------------------
\* Mutation: a range that begins with the last byte of a lock does not meet it.
OverlapExclusive(l, start, end) == start < l.end /\ l.start <= end

Overlap(l, start, end) == start <= l.end /\ l.start <= end

\* Mutation: only the type of the request is looked at, not the lock's.
ConflictsIfWriting(l, owner, start, end, typ) ==
    l.owner # owner /\ Overlap(l, start, end) /\ typ = "write"

Conflicts(l, owner, start, end, typ) ==       \* lock_conflict, for one lock
    /\ l.owner # owner
    /\ Overlap(l, start, end)
    /\ typ = "write" \/ l.typ = "write"

\* lock_remove_owner_range
Without(ino, owner, start, end) ==
    {l \in locks[ino] : ~(l.owner = owner /\ Overlap(l, start, end))}

Reply(ino, owner, start, end, mode) ==
    held' = [held EXCEPT ![ino][owner] =
                [b \in Byte |-> IF b \in start .. end THEN mode ELSE @[b]]]

\* fuse_setlk with F_RDLCK or F_WRLCK; a conflict is EAGAIN and changes nothing.
SetLock(ino, owner, start, end, typ) ==
    /\ \A l \in locks[ino] : ~Conflicts(l, owner, start, end, typ)
    /\ locks' = [locks EXCEPT ![ino] = Without(ino, owner, start, end)
                    \cup {[owner |-> owner, start |-> start, end |-> end, typ |-> typ]}]
    /\ Reply(ino, owner, start, end, typ)

\* fuse_setlk with F_UNLCK
Unlock(ino, owner, start, end) ==
    /\ locks' = [locks EXCEPT ![ino] = Without(ino, owner, start, end)]
    /\ Reply(ino, owner, start, end, "none")

\* locks_release_owner, from fuse_flush and fuse_release
ReleaseOwner(owner) ==
    /\ locks' = [ino \in Inode |-> {l \in locks[ino] : l.owner # owner}]
    /\ held' = [ino \in Inode |-> [held[ino] EXCEPT ![owner] = [b \in Byte |-> "none"]]]

LocksNext == \E owner \in Owner :
    \/ ReleaseOwner(owner)
    \/ \E ino \in Inode, start \in Byte : \E end \in start .. LastByte :
          \/ Unlock(ino, owner, start, end)
          \/ \E typ \in Mode : SetLock(ino, owner, start, end, typ)

LocksSpec == LocksInit /\ [][LocksNext]_lockVars

-----------------------------------------------------------------------------
(* Properties. *)

\* Types of the variables.
LocksTypeOK ==
    /\ locks \in [Inode -> SUBSET Lock]
    /\ held \in [Inode -> [Owner -> [Byte -> Mode \cup {"none"}]]]

\* Locks of two owners that share a byte are both read locks (mod.rs:1102, "A
\* read/write request must not clash with another owner's lock").
NoConflict ==
    \A ino \in Inode : \A l, m \in locks[ino] :
        l.owner # m.owner /\ Overlap(l, m.start, m.end) => l.typ = "read" /\ m.typ = "read"

\* An owner's locks never share a byte, however they were replaced, upgraded or
\* split before: each byte has one mode (mod.rs:1110, "upgrade/replace").
OwnDisjoint ==
    \A ino \in Inode : \A l, m \in locks[ino] :
        l.owner = m.owner /\ l # m => ~Overlap(l, m.start, m.end)

\* No lock outlives its release: whatever the table has, its owner was granted
\* and has not given back since, on any byte of it and in this mode ("leaves no
\* stale locks", mod.rs:965).
NoStaleLock ==
    \A ino \in Inode : \A l \in locks[ino] :
        \A b \in l.start .. l.end : held[ino][l.owner][b] = l.typ

\* All of it: what SetLock, Unlock and ReleaseOwner together keep of the table.
\* The parts need each other: that a replaced lock leaves nothing behind takes the
\* locks of an owner to be disjoint, and that takes every lock to be in `held'.
LocksInv == LocksTypeOK /\ NoConflict /\ OwnDisjoint /\ NoStaleLock

\* Two owners never hold one byte unless both read it: what a "POSIX file lock"
\* (mod.rs:1073) is for.
ByteExclusion ==
    \A ino \in Inode, o, p \in Owner : \A b \in Byte :
        o # p /\ held[ino][o][b] = "write" => held[ino][p][b] = "none"

=============================================================================
