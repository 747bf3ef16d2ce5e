---------------------------- MODULE MCIngestion ----------------------------
(* Small instances of Ingestion. *)
EXTENDS Ingestion, TLC

CONSTANTS d1, d2, u1, u2, u3, s1

(* Two chunks by fixed windows, one structural; d2 is a blank document. *)
MCChunksOf == [d \in Docs |->
  IF d = d2 THEN [s \in Strategies |-> {}]
            ELSE [s \in Strategies |-> IF s = "fixed_500" THEN {1, 2} ELSE {3}]]

UploadSymmetry == Permutations(Uploads)
=============================================================================
