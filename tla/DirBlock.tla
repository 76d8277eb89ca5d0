------------------------------ MODULE DirBlock ------------------------------
(***************************************************************************)
(* A directory block of dir.rs: records of variable length that follow     *)
(* each other from byte 0 to the tail of the block.  A record holds an     *)
(* inode number (0: unused), a name and its length; what lies behind the   *)
(* name up to the end of the record is free.                               *)
(*                                                                         *)
(* A block is a function from the offsets of its records to the records.   *)
(* Tiled says that this is what a walk over the block from offset 0 reads. *)
(***************************************************************************)
EXTENDS Integers, Sequences

CONSTANTS
    AllNames,   \* the names, "." and ".." among them
    Inodes,     \* inode numbers of entries
    End,        \* the bytes of a block in front of its tail
    Size,       \* per name: the bytes a record needs (header, name, padding)
    Need        \* per name: the bytes that must be free to insert it

Dot == "."
DotDot == ".."
Unused == 0

ASSUME NameGeometry ==
    /\ End \in Nat \ {0}
    /\ Inodes \subseteq Nat \ {0}
    /\ {Dot, DotDot} \subseteq AllNames
    /\ Size \in [AllNames -> Nat \ {0}]
    /\ Need \in [AllNames -> Nat \ {0}]
    /\ \A n \in AllNames : Size[n] <= Need[n]
    /\ \A m, n \in AllNames : Size[m] + Need[n] <= End

Record == [ino : Inodes \cup {Unused}, name : AllNames, len : 1..End]

Entry(ino, name, len) == [ino |-> ino, name |-> name, len |-> len]

Used(b) == {o \in DOMAIN b : b[o].ino # Unused}

\* a function with one more value, or another one
With(f, x, v) == [y \in DOMAIN f \cup {x} |-> IF y = x THEN v ELSE f[y]]

Named(b, name) == {o \in Used(b) : b[o].name = name}

Least(S) == CHOOSE o \in S : \A p \in S : o <= p

-----------------------------------------------------------------------------
(* try_insert_to_existing_block: the first used record with enough free    *)
(* space is cut behind its name; unused records are passed over.           *)

Roomy(b, name) ==
    {o \in Used(b) : b[o].len - Size[b[o].name] >= Need[name]}

InsertBehind(b, o, name, ino) ==
    LET sz == Size[b[o].name]
    IN  [p \in DOMAIN b \cup {o + sz} |->
            IF p = o + sz THEN Entry(ino, name, b[o].len - sz)
            ELSE IF p = o THEN [b[o] EXCEPT !.len = sz]
            ELSE b[p]]

InsertEntry(b, name, ino) == InsertBehind(b, Least(Roomy(b, name)), name, ino)

\* insert_to_new_block: one record that takes the whole block
FreshBlock(name, ino) == [o \in {0} |-> Entry(ino, name, End)]

-----------------------------------------------------------------------------
(* dir_remove_entry: the record becomes unused; it is merged into the one  *)
(* before it, unless it is the first of its block.                         *)

Before(b, o) == CHOOSE p \in DOMAIN b : p + b[p].len = o

EraseAt(b, o) ==
    IF o = 0 THEN [b EXCEPT ![0].ino = Unused]
    ELSE LET before == Before(b, o)
         IN  [p \in DOMAIN b \ {o} |->
                 IF p = before THEN [b[p] EXCEPT !.len = @ + b[o].len]
                 ELSE b[p]]

\* dir_set_entry_target
RetargetAt(b, o, ino) == [b EXCEPT ![o].ino = ino]

-----------------------------------------------------------------------------
(* dx_write_leaf: the items follow each other, each as short as it can be, *)
(* the last one reaches to the tail.                                       *)

Pack(items) ==
    IF items = <<>> THEN [o \in {0} |-> Entry(Unused, Dot, End)]
    ELSE LET start[i \in 1..Len(items)] ==
                 IF i = 1 THEN 0
                 ELSE start[i - 1] + Size[items[i - 1].name]
             Item(o) == CHOOSE i \in 1..Len(items) : start[i] = o
             len(i) == IF i = Len(items) THEN End - start[i]
                       ELSE Size[items[i].name]
         IN  [o \in {start[i] : i \in 1..Len(items)} |->
                 LET i == Item(o)
                 IN  Entry(items[i].ino, items[i].name, len(i))]

-----------------------------------------------------------------------------
(* The records tile the block: the first is at 0, each is followed by      *)
(* another or the tail, none begins inside another, and each used one has  *)
(* room for its name.                                                      *)

Tiled(b) ==
    /\ DOMAIN b \subseteq 0..(End - 1)
    /\ 0 \in DOMAIN b
    /\ \A o \in DOMAIN b :
          /\ b[o] \in Record
          /\ o + b[o].len \in DOMAIN b \cup {End}
          /\ o # 0 => \E p \in DOMAIN b : p + b[p].len = o
          /\ \A p \in DOMAIN b : p <= o \/ o + b[o].len <= p
          /\ b[o].ino # Unused => Size[b[o].name] <= b[o].len
=============================================================================
