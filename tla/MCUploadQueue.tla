--------------------------- MODULE MCUploadQueue ---------------------------
(* Small instances of UploadQueue. *)
EXTENDS UploadQueue, TLC

CONSTANTS d1, u1, u2

MCChunksOf == [d \in Docs |->
  [s \in Strategies |-> IF s = "fixed_500" THEN {1, 2} ELSE {3}]]
=============================================================================
