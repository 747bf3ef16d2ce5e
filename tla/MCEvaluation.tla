---------------------------- MODULE MCEvaluation ----------------------------
(* Small instances of Evaluation. *)
EXTENDS Evaluation, TLC

(* A smoke set and a real one that reuse the id 1 (runner.py:50). *)
MCSets == <<(1 :> "smoke"), (1 :> "real" @@ 2 :> "real2")>>

(* One set of one question. *)
MCSmallSet == <<(1 :> "a")>>
=============================================================================
