---------------------------- MODULE MCNamespace ----------------------------
(* Constants of the runs of Namespace. *)
EXTENDS Namespace
=============================================================================
