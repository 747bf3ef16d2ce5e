--------------------------- MODULE DocumentIndex ---------------------------
(***************************************************************************)
(* What ingestion promises to search and to the document list, with no     *)
(* word about requests, tasks, statuses in between, crashes or retries: a  *)
(* file is registered once; the chunks of one strategy appear together;    *)
(* only stored chunks get a vector; a document is announced only when all  *)
(* its chunks have one; nothing stored is ever taken back.                 *)
(***************************************************************************)
EXTENDS Naturals

CONSTANTS Docs, Strategies, ChunksOf

VARIABLES
  registered,   \* documents the list shows
  stored,       \* stored[d]: chunks lexical search can return
  indexed,      \* indexed[d]: chunks vector search can return
  announced     \* documents shown as ready

vars == <<registered, stored, indexed, announced>>

Init ==
  /\ registered = {}
  /\ stored = [d \in Docs |-> {}]
  /\ indexed = [d \in Docs |-> {}]
  /\ announced = {}

Register(d) ==
  /\ d \notin registered
  /\ registered' = registered \cup {d}
  /\ UNCHANGED <<stored, indexed, announced>>

StoreStrategy(d, s) ==
  /\ d \in registered
  /\ stored' = [stored EXCEPT ![d] = @ \cup ChunksOf[d][s]]
  /\ UNCHANGED <<registered, indexed, announced>>

IndexBatch(d) ==
  /\ d \in registered
  /\ \E batch \in SUBSET stored[d] : indexed' = [indexed EXCEPT ![d] = @ \cup batch]
  /\ UNCHANGED <<registered, stored, announced>>

Announce(d) ==
  /\ d \in registered
  /\ \A s \in Strategies : ChunksOf[d][s] \subseteq indexed[d]
  /\ announced' = announced \cup {d}
  /\ UNCHANGED <<registered, stored, indexed>>

(* A second run of the pipeline shows the document in progress again. *)
Withdraw(d) ==
  /\ d \in announced
  /\ announced' = announced \ {d}
  /\ UNCHANGED <<registered, stored, indexed>>

Next ==
  \E d \in Docs :
    \/ Register(d)
    \/ \E s \in Strategies : StoreStrategy(d, s)
    \/ IndexBatch(d)
    \/ Announce(d)
    \/ Withdraw(d)

Spec == Init /\ [][Next]_vars
=============================================================================
