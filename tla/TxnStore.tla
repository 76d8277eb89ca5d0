------------------------------ MODULE TxnStore ------------------------------
(***************************************************************************)
(* What journaling promises to the operations of the file system: a store  *)
(* of blocks that one transaction at a time changes, all of its writes or  *)
(* none.  A transaction that was acknowledged survives every crash; one    *)
(* that was still committing survives whole or not at all; one that was    *)
(* open or aborted leaves nothing behind.                                  *)
(***************************************************************************)

CONSTANTS Block,    \* block numbers
          Value,    \* contents of a block
          Start     \* contents of the blocks when the store is made

VARIABLES store,    \* the durable contents
          view,     \* the contents as the running operation reads them
          phase     \* "idle", "open", "committing", "applied"

svars == <<store, view, phase>>

SInit == store = Start /\ view = store /\ phase = "idle"

Open == phase = "idle" /\ phase' = "open" /\ UNCHANGED <<store, view>>

Put(b, v) ==
    /\ phase = "open"
    /\ view' = [view EXCEPT ![b] = v]
    /\ UNCHANGED <<store, phase>>

\* The operation failed, or changed nothing: its writes are gone.
Abort == phase = "open" /\ phase' = "idle" /\ view' = store /\ UNCHANGED store

Submit == phase = "open" /\ phase' = "committing" /\ UNCHANGED <<store, view>>

Apply == phase = "committing" /\ phase' = "applied" /\ store' = view /\ UNCHANGED view

Acknowledge == phase = "applied" /\ phase' = "idle" /\ UNCHANGED <<store, view>>

\* A crash in the middle of a commit decides it one way or the other.
Crash ==
    /\ \/ store' = store
       \/ phase = "committing" /\ store' = view
    /\ view' = store'
    /\ phase' = "idle"

SNext == \/ Open \/ Abort \/ Submit \/ Apply \/ Acknowledge \/ Crash
         \/ \E b \in Block, v \in Value : Put(b, v)

SSpec == SInit /\ [][SNext]_svars

=============================================================================
