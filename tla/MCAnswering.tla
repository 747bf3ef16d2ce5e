---------------------------- MODULE MCAnswering ----------------------------
(* Small instances of Answering. *)
EXTENDS Answering, TLC

CONSTANTS s1, p1
=============================================================================
