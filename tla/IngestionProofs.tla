-------------------------- MODULE IngestionProofs --------------------------
(***************************************************************************)
(* Proofs about Ingestion, for any number of documents, uploads, scripts,  *)
(* chunks and faults, and about UploadQueue, the page in front of it, for  *)
(* any number of items and other callers.  The page only adds to           *)
(* Ingestion, so everything proved of ingestion holds with it; what is new *)
(* rests on a document staying searchable between the moment a reply was   *)
(* written and the moment it is shown.                                     *)
(***************************************************************************)
EXTENDS UploadQueue, TLAPS


LEMMA AllChunksUnion ==
  ASSUME NEW d \in Docs
  PROVE  AllChunks(d) = ChunksOf[d]["fixed_500"] \cup ChunksOf[d]["structural"]
BY DEF AllChunks, Strategies

LEMMA ChunksAreNumbers ==
  ASSUME NEW d \in Docs, NEW s \in Strategies
  PROVE  ChunksOf[d][s] \subseteq Nat
BY IngestionAssumption

(* A flushed row is a row again. *)
LEMMA FlushType ==
  ASSUME TypeOK, NEW c \in Callers, NEW new \in Rows, Flush(c, new)
  PROVE  row' \in [Docs -> Rows] /\ view' \in [Callers -> Rows]
<1>1. doc[c] \in Docs
  BY DEF TypeOK
<1>2. row[doc[c]] \in Rows
  BY <1>1 DEF TypeOK
<1>. QED  BY <1>1, <1>2 DEF TypeOK, Flush, Rows

LEMMA TypeInit == Init => TypeOK
BY IngestionAssumption DEF Init, TypeOK, Absent, Row, Rows, Labels, Outcomes

(* Types are preserved by every step. *)
LEMMA TypeStep == TypeOK /\ [Next]_vars => TypeOK'
<1>. SUFFICES ASSUME TypeOK, [Next]_vars PROVE TypeOK'
  OBVIOUS
<1>. USE IngestionAssumption
<1>0. /\ Row("pending", "None") \in Rows /\ Row("parsing", "None") \in Rows
      /\ Row("embedding", "None") \in Rows /\ Row("ready", "None") \in Rows
      /\ \A code \in Codes : Row("failed", code) \in Rows
  BY DEF Row, Rows, InFlight
<1>1. ASSUME NEW c \in Callers, Refuse(c) PROVE TypeOK'
  BY <1>1 DEF Refuse, TypeOK, Goto, table, Labels, Outcomes
<1>2. ASSUME NEW c \in Callers, Lookup(c) PROVE TypeOK'
  BY <1>2 DEF Lookup, Known, TypeOK, Goto, table, Labels, Asking
<1>3. ASSUME NEW c \in Callers, Insert(c) PROVE TypeOK'
  BY <1>0, <1>3 DEF Insert, Known, TypeOK, Goto, Labels, Asking
<1>4. ASSUME NEW c \in Callers, Refresh(c) PROVE TypeOK'
  BY <1>4 DEF Refresh, TypeOK, Goto, table, Labels, Asking
<1>5. ASSUME NEW c \in Callers, KeepFile(c) PROVE TypeOK'
  BY <1>5 DEF KeepFile, TypeOK, Goto, table, Labels, Asking
<1>6. ASSUME NEW c \in Callers, Respond(c) PROVE TypeOK'
  BY <1>6 DEF Respond, TypeOK, Goto, table, Labels, Working, UploadOutcome, Outcomes
<1>7. ASSUME NEW c \in Callers, Continue(c) PROVE TypeOK'
  BY <1>7 DEF Continue, TypeOK, Goto, table, Labels, Working
<1>8. ASSUME NEW c \in Callers, Load(c) PROVE TypeOK'
  BY <1>8 DEF Load, TypeOK, Goto, table, Labels, Working
<1>9. ASSUME NEW c \in Callers, StartParsing(c) PROVE TypeOK'
  BY <1>0, <1>9, FlushType DEF StartParsing, TypeOK, Goto, Labels, Working, Running
<1>10. ASSUME NEW c \in Callers, Parsed(c) PROVE TypeOK'
  BY <1>10 DEF Parsed, TypeOK, Goto, table, Labels, Working, Running
<1>11. ASSUME NEW c \in Callers, NEW s \in Strategies, InsertChunks(c, s) PROVE TypeOK'
  BY <1>11, ChunksAreNumbers DEF InsertChunks, TypeOK, Goto, Labels, Working, Running
<1>12. ASSUME NEW c \in Callers, StartEmbedding(c) PROVE TypeOK'
  BY <1>0, <1>12, FlushType DEF StartEmbedding, TypeOK, Goto, Labels, Working, Running
<1>13. ASSUME NEW c \in Callers, ChunksMissingEmbeddings(c) PROVE TypeOK'
  BY <1>13 DEF ChunksMissingEmbeddings, TypeOK, Goto, table, Labels, Working, Running
<1>14. ASSUME NEW c \in Callers, EmbedBatch(c) PROVE TypeOK'
  BY <1>14 DEF EmbedBatch, Batch, TypeOK, Goto, Labels, Working, Running
<1>15. ASSUME NEW c \in Callers, FinishReady(c) PROVE TypeOK'
  BY <1>0, <1>15, FlushType DEF FinishReady, TypeOK, Goto, Labels
<1>16. ASSUME NEW c \in Callers, Fail(c) PROVE TypeOK'
  BY <1>0, <1>16, FlushType DEF Fail, Raises, Codes, TypeOK, Labels
<1>17. ASSUME NEW who \in SUBSET Callers, Lose(who) PROVE TypeOK'
  BY <1>17 DEF Lose, TypeOK, table, Labels
<1>18. CASE UNCHANGED vars
  BY <1>18 DEF vars, table, TypeOK
<1>. QED
  BY <1>1, <1>2, <1>3, <1>4, <1>5, <1>6, <1>7, <1>8, <1>9, <1>10, <1>11, <1>12,
     <1>13, <1>14, <1>15, <1>16, <1>17, <1>18
     DEF Next, Ask, Process, ServerCrash, Interrupted, Callers

(* Type correctness of ingestion, for all values of the constants. *)
THEOREM TypeCorrect == Spec => []TypeOK
BY TypeInit, TypeStep, PTL DEF Spec

-----------------------------------------------------------------------------
(***************************************************************************)
(* Where a caller stands says what is stored.  Chunks and vectors only     *)
(* grow and never exceed what the strategies cut, so what one caller has   *)
(* established no other can undo: the invariant needs no mutual exclusion. *)
(***************************************************************************)
Bounded ==
  /\ \A d \in Docs : embedded[d] \subseteq chunks[d] /\ chunks[d] \subseteq AllChunks(d)
  /\ \A c \in Callers : todo[c] \subseteq chunks[doc[c]]

FixedStored ==
  \A c \in Callers : pc[c] \in {"structural", "embedding", "collecting", "storing"}
    => ChunksOf[doc[c]]["fixed_500"] \subseteq chunks[doc[c]]

BothStored ==
  \A c \in Callers : pc[c] \in {"embedding", "collecting", "storing"}
    => chunks[doc[c]] = AllChunks(doc[c])

MissingIsTodo ==
  \A c \in Callers : pc[c] = "storing" => chunks[doc[c]] \ embedded[doc[c]] \subseteq todo[c]

(* A status or an error_code that was ever readable stays true of the chunks. *)
ViewIsSearchable ==
  \A c \in Callers : view[c].status = "ready" => Searchable(doc[c])

EmbeddingCodeIsChunked ==
  \A d \in Docs : row[d].error = "embedding_failed" => chunks[d] = AllChunks(d)

StoreInv ==
  /\ Bounded
  /\ FixedStored
  /\ BothStored
  /\ MissingIsTodo
  /\ ReadyIsSearchable
  /\ ViewIsSearchable
  /\ DuplicateIsSearchable
  /\ EmbeddingCodeIsChunked

LEMMA StoreInit == Init => StoreInv
BY SMTT(60) DEF Init, StoreInv, Bounded, FixedStored, BothStored, MissingIsTodo, ReadyIsSearchable,
       ViewIsSearchable, DuplicateIsSearchable, EmbeddingCodeIsChunked, Absent, Row

LEMMA StoreStep == TypeOK /\ StoreInv /\ [Next]_vars => StoreInv'
<1>. SUFFICES ASSUME TypeOK, StoreInv, [Next]_vars PROVE StoreInv'
  OBVIOUS
<1>. USE AllChunksUnion DEF TypeOK, StoreInv, Bounded, FixedStored, BothStored, MissingIsTodo,
         ReadyIsSearchable, ViewIsSearchable, DuplicateIsSearchable, EmbeddingCodeIsChunked,
         Searchable, Strategies
<1>1. ASSUME NEW c \in Callers, Refuse(c) PROVE StoreInv'
  BY <1>1 DEF Refuse, table, Goto
<1>2. ASSUME NEW c \in Callers, Lookup(c) PROVE StoreInv'
  BY <1>2 DEF Lookup, Known, table, Goto
<1>3. ASSUME NEW c \in Callers, Insert(c) PROVE StoreInv'
  BY <1>3 DEF Insert, Known, Goto, Row
<1>4. ASSUME NEW c \in Callers, Refresh(c) PROVE StoreInv'
  BY <1>4 DEF Refresh, table, Goto
<1>5. ASSUME NEW c \in Callers, KeepFile(c) PROVE StoreInv'
  BY <1>5 DEF KeepFile, table, Goto
<1>6. ASSUME NEW c \in Callers, Respond(c) PROVE StoreInv'
  BY <1>6 DEF Respond, UploadOutcome, table, Goto
<1>7. ASSUME NEW c \in Callers, Continue(c) PROVE StoreInv'
  BY <1>7 DEF Continue, table, Goto
<1>8. ASSUME NEW c \in Callers, Load(c) PROVE StoreInv'
  BY <1>8 DEF Load, table, Goto
<1>9. ASSUME NEW c \in Callers, StartParsing(c) PROVE StoreInv'
  BY <1>9 DEF StartParsing, Flush, Row, Goto
<1>10. ASSUME NEW c \in Callers, Parsed(c) PROVE StoreInv'
  BY <1>10 DEF Parsed, table, Goto
<1>11. ASSUME NEW c \in Callers, NEW s \in Strategies, InsertChunks(c, s) PROVE StoreInv'
  BY <1>11 DEF InsertChunks, Goto
<1>12. ASSUME NEW c \in Callers, StartEmbedding(c) PROVE StoreInv'
  BY <1>12 DEF StartEmbedding, Flush, Row, Goto
<1>13. ASSUME NEW c \in Callers, ChunksMissingEmbeddings(c) PROVE StoreInv'
  BY <1>13 DEF ChunksMissingEmbeddings, table, Goto
<1>14. ASSUME NEW c \in Callers, EmbedBatch(c) PROVE StoreInv'
  BY <1>14 DEF EmbedBatch, Batch, Goto
<1>15. ASSUME NEW c \in Callers, FinishReady(c) PROVE StoreInv'
  <2>1. Searchable(doc[c])
    <3>1. chunks[doc[c]] = AllChunks(doc[c]) /\ doc[c] \in Docs
      BY <1>15 DEF FinishReady, Goto
    <3>2. chunks[doc[c]] \subseteq embedded[doc[c]]
      BY <1>15 DEF FinishReady, Goto
    <3>3. embedded[doc[c]] \subseteq chunks[doc[c]]
      BY <3>1
    <3>. QED  BY ONLY <3>1, <3>2, <3>3 DEF Searchable
  <2>2. \A d \in Docs : row'[d].status = "ready" => row[d].status = "ready" \/ d = doc[c]
    BY <1>15 DEF FinishReady, Flush, Row
  <2>3. \A d \in Docs : row'[d].error = "embedding_failed" => row[d].error = "embedding_failed"
    BY <1>15 DEF FinishReady, Flush, Row
  <2>4. \A e \in Callers : view'[e].status = "ready" => view[e].status = "ready" \/ e = c
    BY <1>15 DEF FinishReady, Flush, Row
  <2>5. Bounded' /\ FixedStored' /\ BothStored' /\ MissingIsTodo'
    BY <1>15 DEF FinishReady, Goto
  <2>. QED  BY <1>15, <2>1, <2>2, <2>3, <2>4, <2>5 DEF FinishReady
<1>16. ASSUME NEW c \in Callers, Fail(c) PROVE StoreInv'
  BY <1>16 DEF Fail, Raises, Codes, Flush, Row
<1>17. ASSUME NEW who \in SUBSET Callers, Lose(who) PROVE StoreInv'
  BY <1>17 DEF Lose, table
<1>18. CASE UNCHANGED vars
  BY <1>18 DEF vars, table
<1>. QED
  BY <1>1, <1>2, <1>3, <1>4, <1>5, <1>6, <1>7, <1>8, <1>9, <1>10, <1>11, <1>12,
     <1>13, <1>14, <1>15, <1>16, <1>17, <1>18
     DEF Next, Ask, Process, ServerCrash, Interrupted, Callers
LEMMA StoreInvariant == Spec => [](TypeOK /\ StoreInv)
<1>1. TypeOK /\ StoreInv /\ [Next]_vars => (TypeOK /\ StoreInv)'
  BY TypeStep, StoreStep
<1>. QED  BY TypeInit, StoreInit, <1>1, PTL DEF Spec

(* A document shown as ready has all its chunks stored and embedded, with   *)
(* any number of parallel runs, crashes and resumptions (ingestion.py 132). *)
THEOREM ReadyDocumentsAreSearchable == Spec => []ReadyIsSearchable
BY StoreInvariant, PTL DEF StoreInv

(* An upload answered "duplicate" is about a document that is searchable    *)
(* then and from then on (documents.py 112).                                *)
THEOREM DuplicatesAreSearchable == Spec => []DuplicateIsSearchable
BY StoreInvariant, PTL DEF StoreInv

(* A document marked embedding_failed has all its chunks (ingestion.py 191). *)
THEOREM EmbeddingFailuresAreChunked == Spec => []EmbeddingFailedIsChunked
<1>1. StoreInv => EmbeddingFailedIsChunked
  BY DEF StoreInv, EmbeddingCodeIsChunked, EmbeddingFailedIsChunked, Row
<1>. QED  BY StoreInvariant, <1>1, PTL

-----------------------------------------------------------------------------
(***************************************************************************)
(* Who owns a row.  A pending row belongs to the caller that inserted it;  *)
(* a row being parsed or embedded to some caller inside process_document.  *)
(* The last writer of an in-flight status is never done: its next write    *)
(* is never elided, because its own view of the row is not that status.    *)
(***************************************************************************)
OwnersKnown ==
  \A c \in Callers :
    /\ created[c] => Known(doc[c])
    /\ pc[c] \in (Asking \ {"inserting"}) \cup Working => Known(doc[c])

ViewsLag ==
  \A c \in Callers : view[c].status \in {"parsing", "embedding", "ready", "failed"}
    => row[doc[c]].status \notin {"absent", "pending"}

RunningView ==
  \A c \in Callers :
    /\ pc[c] \in {"parsing", "fixed_500", "structural", "embedding"} => view[c].status = "parsing"
    /\ pc[c] \in {"collecting", "storing"} => view[c].status = "embedding"

PendingOwned ==
  \A d \in Docs : faults = 0 /\ row[d].status = "pending" =>
    \E c \in Callers : /\ doc[c] = d /\ created[c]
                       /\ pc[c] \in {"refreshing", "keeping_file", "deciding", "queued", "starting"}

RunningOwned ==
  \A d \in Docs : faults = 0 /\ row[d].status \in {"parsing", "embedding"} =>
    \E c \in Callers : doc[c] = d /\ pc[c] \in Running

OwnInv ==
  /\ OwnersKnown
  /\ ViewsLag
  /\ RunningView
  /\ PendingOwned
  /\ RunningOwned
  /\ CreatedOnce

LEMMA OwnInit == Init => OwnInv
BY DEF Init, OwnInv, OwnersKnown, ViewsLag, RunningView, PendingOwned, RunningOwned, CreatedOnce,
       Absent, Row, Asking, Working, Running, Known

LEMMA OwnStep == TypeOK /\ OwnInv /\ [Next]_vars => OwnInv'
<1>. SUFFICES ASSUME TypeOK, OwnInv, [Next]_vars PROVE OwnInv'
  OBVIOUS
<1>. USE DEF TypeOK, OwnInv, OwnersKnown, ViewsLag, RunningView, PendingOwned, RunningOwned,
         CreatedOnce, Known, Row, Asking, Working, Running, Strategies
<1>1. ASSUME NEW c \in Callers, Refuse(c) PROVE OwnInv'
  BY <1>1 DEF Refuse, table, Goto
<1>2. ASSUME NEW c \in Callers, Lookup(c) PROVE OwnInv'
  BY <1>2 DEF Lookup, table, Goto
<1>3. ASSUME NEW c \in Callers, Insert(c) PROVE OwnInv'
  <2>. /\ doc' = doc /\ view' = view /\ faults' = faults
       /\ pc' = [pc EXCEPT ![c] = "refreshing"] /\ pc[c] = "inserting"
    BY <1>3 DEF Insert, Goto
  <2>1. CASE Known(doc[c])
    <3>1. row' = row
      BY <1>3, <2>1 DEF Insert
    <3>2. created' = [created EXCEPT ![c] = FALSE]
      BY <1>3, <2>1 DEF Insert
    <3>3. PendingOwned' /\ RunningOwned'
      <4>1. \A e \in Callers : pc[e] # "inserting" => e # c /\ pc'[e] = pc[e] /\ created'[e] = created[e]
        BY ZenonT(60), <3>2
      <4>2. ASSUME NEW d \in Docs, faults = 0, row[d].status = "pending"
            PROVE  \E e \in Callers : /\ doc[e] = d /\ created'[e]
                     /\ pc'[e] \in {"refreshing", "keeping_file", "deciding", "queued", "starting"}
        <5>1. PICK e \in Callers : /\ doc[e] = d /\ created[e]
                     /\ pc[e] \in {"refreshing", "keeping_file", "deciding", "queued", "starting"}
          BY <4>2
        <5>. QED  BY <5>1, <4>1
      <4>3. RunningOwned'
        BY <3>1, <4>1
      <4>. QED  BY <3>1, <4>2, <4>3
    <3>4. OwnersKnown' /\ CreatedOnce'
      BY <2>1, <3>1, <3>2
    <3>. QED  BY <3>1, <3>3, <3>4
  <2>2. CASE ~ Known(doc[c])
    <3>1. row' = [row EXCEPT ![doc[c]] = Row("pending", "None")]
      BY <1>3, <2>2 DEF Insert
    <3>2. created' = [created EXCEPT ![c] = TRUE]
      BY <1>3, <2>2 DEF Insert
    <3>3. \A d \in Docs \ {doc[c]} : row'[d] = row[d]
      BY <3>1
    <3>4. row'[doc[c]].status = "pending"
      BY <3>1
    <3>5. PendingOwned' /\ RunningOwned'
      BY <3>2, <3>3, <3>4
    <3>6. OwnersKnown' /\ ViewsLag' /\ RunningView' /\ CreatedOnce'
      BY <2>2, <3>2, <3>3, <3>4
    <3>. QED  BY <3>5, <3>6
  <2>. QED  BY <2>1, <2>2
<1>4. ASSUME NEW c \in Callers, Refresh(c) PROVE OwnInv'
  BY <1>4 DEF Refresh, table, Goto
<1>5. ASSUME NEW c \in Callers, KeepFile(c) PROVE OwnInv'
  BY <1>5 DEF KeepFile, table, Goto
<1>6. ASSUME NEW c \in Callers, Respond(c) PROVE OwnInv'
  BY <1>6 DEF Respond, UploadOutcome, table, Goto
<1>7. ASSUME NEW c \in Callers, Continue(c) PROVE OwnInv'
  BY <1>7 DEF Continue, table, Goto
<1>8. ASSUME NEW c \in Callers, Load(c) PROVE OwnInv'
  BY <1>8 DEF Load, table, Goto
<1>9. ASSUME NEW c \in Callers, StartParsing(c) PROVE OwnInv'
  BY <1>9 DEF StartParsing, Flush, Goto
<1>10. ASSUME NEW c \in Callers, Parsed(c) PROVE OwnInv'
  BY <1>10 DEF Parsed, table, Goto
<1>11. ASSUME NEW c \in Callers, NEW s \in Strategies, InsertChunks(c, s) PROVE OwnInv'
  BY <1>11 DEF InsertChunks, Goto
<1>12. ASSUME NEW c \in Callers, StartEmbedding(c) PROVE OwnInv'
  BY <1>12 DEF StartEmbedding, Flush, Goto
<1>13. ASSUME NEW c \in Callers, ChunksMissingEmbeddings(c) PROVE OwnInv'
  BY <1>13 DEF ChunksMissingEmbeddings, table, Goto
<1>14. ASSUME NEW c \in Callers, EmbedBatch(c) PROVE OwnInv'
  BY <1>14 DEF EmbedBatch, Batch, Goto
<1>15. ASSUME NEW c \in Callers, FinishReady(c) PROVE OwnInv'
  <2>. /\ doc' = doc /\ created' = created /\ faults' = faults
       /\ pc' = [pc EXCEPT ![c] = "done"] /\ pc[c] = "storing"
       /\ view' = [view EXCEPT ![c] = Row("ready", "None")]
    BY <1>15 DEF FinishReady, Flush, Goto
  <2>1. row'[doc[c]].status = "ready"
    BY <1>15 DEF FinishReady, Flush
  <2>2. \A d \in Docs \ {doc[c]} : row'[d] = row[d]
    BY <1>15 DEF FinishReady, Flush
  <2>3. OwnersKnown' /\ ViewsLag' /\ RunningView' /\ CreatedOnce'
    BY SMTT(60), <2>1, <2>2
  <2>4. PendingOwned'
    BY <2>1, <2>2
  <2>5. RunningOwned'
    BY <2>1, <2>2
  <2>. QED  BY <2>3, <2>4, <2>5
<1>16. ASSUME NEW c \in Callers, Fail(c) PROVE OwnInv'
  BY <1>16 DEF Fail, Raises, Codes, Flush
<1>17. ASSUME NEW who \in SUBSET Callers, Lose(who) PROVE OwnInv'
  BY <1>17 DEF Lose, table
<1>18. CASE UNCHANGED vars
  BY <1>18 DEF vars, table
<1>. HIDE DEF TypeOK, OwnInv
<1>. QED
  BY <1>1, <1>2, <1>3, <1>4, <1>5, <1>6, <1>7, <1>8, <1>9, <1>10, <1>11, <1>12,
     <1>13, <1>14, <1>15, <1>16, <1>17, <1>18
     DEF Next, Ask, Process, ServerCrash, Interrupted, Callers

LEMMA OwnInvariant == Spec => [](TypeOK /\ OwnInv)
<1>1. TypeOK /\ OwnInv /\ [Next]_vars => (TypeOK /\ OwnInv)'
  BY TypeStep, OwnStep
<1>. QED  BY TypeInit, OwnInit, <1>1, PTL DEF Spec

(* One caller alone is told that it created a document (ingestion.py 112).  *)
THEOREM DocumentsAreCreatedOnce == Spec => []CreatedOnce
BY OwnInvariant, PTL DEF OwnInv

(* Without faults a row in flight always has a caller at work on it.        *)
THEOREM NoDocumentIsOrphaned == Spec => []NoOrphans
<1>1. OwnInv => NoOrphans
  BY DEF OwnInv, PendingOwned, RunningOwned, NoOrphans, InFlight, Busy, Asking, Working, Running
<1>. QED  BY OwnInvariant, <1>1, PTL
-----------------------------------------------------------------------------
(***************************************************************************)
(* Refinement: registered and announced, as DocumentIndex sees them.       *)
(***************************************************************************)
Registered == {d \in Docs : Known(d)}
Announced == {d \in Docs : row[d].status = "ready"}

(* A write of a status other than ready withdraws the document, if anything. *)
LEMMA FlushWithdraws ==
  ASSUME TypeOK, OwnInv, NEW c \in Callers, Known(doc[c]), NEW new \in Rows,
         new.status \notin {"ready", "absent"}, Flush(c, new),
         UNCHANGED <<chunks, embedded>>
  PROVE  [Index!Next]_Index!vars
<1>. doc[c] \in Docs
  BY DEF TypeOK
<1>1. \A d \in Docs \ {doc[c]} : row'[d] = row[d]
  BY DEF Flush, TypeOK
<1>2. row'[doc[c]].status \in {row[doc[c]].status, new.status}
  BY DEF Flush, TypeOK
<1>3. Registered' = Registered
  BY <1>1, <1>2 DEF Registered, Known
<1>4. CASE Announced' = Announced
  BY <1>3, <1>4 DEF Index!vars, Registered, Announced
<1>5. CASE doc[c] \in Announced /\ Announced' = Announced \ {doc[c]}
  BY <1>3, <1>5 DEF Index!Next, Index!Withdraw, Registered, Announced
<1>. QED  BY <1>1, <1>2, <1>4, <1>5 DEF Announced

LEMMA RefinementStep ==
  TypeOK /\ StoreInv /\ OwnInv /\ [Next]_vars => [Index!Next]_Index!vars
<1>. SUFFICES ASSUME TypeOK, StoreInv, OwnInv, [Next]_vars PROVE [Index!Next]_Index!vars
  OBVIOUS
<1>0. \A c \in Callers : doc[c] \in Docs
  BY DEF TypeOK
<1>1. ASSUME NEW c \in Callers, Insert(c) PROVE [Index!Next]_Index!vars
  <2>1. CASE Known(doc[c])
    BY <1>1, <2>1 DEF Insert, Index!vars, Known, TypeOK
  <2>2. CASE ~ Known(doc[c])
    <3>1. /\ row' = [row EXCEPT ![doc[c]] = Row("pending", "None")]
          /\ UNCHANGED <<chunks, embedded>>
      BY <1>1, <2>2 DEF Insert
    <3>2. Registered' = Registered \cup {doc[c]} /\ Announced' = Announced
      BY <1>0, <2>2, <3>1 DEF Registered, Announced, Known, Row, TypeOK
    <3>3. doc[c] \notin Registered
      BY <2>2 DEF Registered
    <3>. QED  BY <1>0, <3>1, <3>2, <3>3 DEF Index!Next, Index!Register, Registered, Announced
  <2>. QED  BY <2>1, <2>2
<1>2. ASSUME NEW c \in Callers, StartParsing(c) PROVE [Index!Next]_Index!vars
  <2>1. Known(doc[c]) /\ Row("parsing", "None") \in Rows
    BY <1>2 DEF StartParsing, Goto, OwnInv, OwnersKnown, Working, Row, Rows, InFlight
  <2>. QED  BY <1>2, <2>1, FlushWithdraws DEF StartParsing, Row
<1>3. ASSUME NEW c \in Callers, StartEmbedding(c) PROVE [Index!Next]_Index!vars
  <2>1. Known(doc[c]) /\ Row("embedding", "None") \in Rows
    BY <1>3 DEF StartEmbedding, Goto, OwnInv, OwnersKnown, Working, Running, Row, Rows, InFlight
  <2>. QED  BY <1>3, <2>1, FlushWithdraws DEF StartEmbedding, Row
<1>4. ASSUME NEW c \in Callers, Fail(c) PROVE [Index!Next]_Index!vars
  <2>1. PICK code \in Codes : Raises(c, code) /\ Flush(c, Row("failed", code))
    BY <1>4 DEF Fail
  <2>2. Known(doc[c]) /\ Row("failed", code) \in Rows
    BY <2>1 DEF Raises, OwnInv, OwnersKnown, Working, Running, Row, Rows
  <2>. QED  BY <1>4, <2>1, <2>2, FlushWithdraws DEF Fail, Row
<1>5. ASSUME NEW c \in Callers, NEW s \in Strategies, InsertChunks(c, s)
      PROVE  [Index!Next]_Index!vars
  <2>1. Known(doc[c])
    BY <1>5 DEF InsertChunks, Goto, OwnInv, OwnersKnown, Working, Running, Strategies
  <2>. QED  BY <1>0, <1>5, <2>1 DEF InsertChunks, Index!Next, Index!StoreStrategy, Known
<1>6. ASSUME NEW c \in Callers, EmbedBatch(c) PROVE [Index!Next]_Index!vars
  <2>1. Known(doc[c])
    BY <1>6 DEF EmbedBatch, Goto, OwnInv, OwnersKnown, Working, Running
  <2>2. Batch(todo[c]) \in SUBSET chunks[doc[c]]
    BY DEF Batch, StoreInv, Bounded
  <2>3. embedded' = [embedded EXCEPT ![doc[c]] = @ \cup Batch(todo[c])] /\ UNCHANGED <<row, chunks>>
    BY <1>6 DEF EmbedBatch
  <2>. QED  BY <1>0, <2>1, <2>2, <2>3 DEF Index!Next, Index!IndexBatch, Known
<1>7. ASSUME NEW c \in Callers, FinishReady(c) PROVE [Index!Next]_Index!vars
  <2>1. Known(doc[c]) /\ view[c].status = "embedding"
    BY <1>7 DEF FinishReady, Goto, OwnInv, OwnersKnown, RunningView, Working, Running
  <2>2. chunks[doc[c]] \subseteq embedded[doc[c]] /\ chunks[doc[c]] = AllChunks(doc[c])
    BY <1>7 DEF FinishReady, Goto, StoreInv, MissingIsTodo, BothStored
  <2>3. \A s \in Strategies : ChunksOf[doc[c]][s] \subseteq embedded[doc[c]]
    BY <2>2 DEF AllChunks
  <2>4. /\ \A d \in Docs \ {doc[c]} : row'[d] = row[d]
        /\ row'[doc[c]].status = "ready"
    BY <1>0, <1>7, <2>1 DEF FinishReady, Flush, Row, TypeOK
  <2>5. /\ Registered' = Registered /\ Announced' = Announced \cup {doc[c]}
        /\ doc[c] \in Registered /\ UNCHANGED <<chunks, embedded>>
    BY <1>0, <1>7, <2>1, <2>4 DEF FinishReady, Registered, Announced, Known
  <2>. QED  BY <1>0, <2>3, <2>5 DEF Index!Next, Index!Announce, Registered, Announced
<1>8. ASSUME UNCHANGED table PROVE UNCHANGED Index!vars
  BY <1>8 DEF table, Index!vars, Known
<1>9. ASSUME NEW c \in Callers, Refuse(c) \/ Interrupted(c) PROVE UNCHANGED Index!vars
  BY <1>8, <1>9 DEF Refuse, Interrupted, Lose
<1>10. ASSUME NEW c \in Callers, Ask(c) PROVE [Index!Next]_Index!vars
  BY <1>1, <1>8, <1>10 DEF Ask, Lookup, Refresh, KeepFile, Respond, Continue
<1>11. ASSUME NEW c \in Callers, Process(c) PROVE [Index!Next]_Index!vars
  <2>1. CASE Load(c) \/ Parsed(c) \/ ChunksMissingEmbeddings(c)
    BY <1>8, <2>1 DEF Load, Parsed, ChunksMissingEmbeddings
  <2>. QED  BY <1>2, <1>3, <1>4, <1>5, <1>6, <1>7, <1>11, <2>1 DEF Process
<1>12. ASSUME ServerCrash PROVE UNCHANGED Index!vars
  BY <1>8, <1>12 DEF ServerCrash, Lose
<1>. QED  BY <1>8, <1>9, <1>10, <1>11, <1>12 DEF Next, vars, table

(* Ingestion implements DocumentIndex: search and the document list never    *)
(* observe a step the promise does not allow.                                *)
THEOREM IngestionImplementsIndex == Spec => ImplementsIndex
<1>1. Init => Index!Init
  BY DEF Init, Index!Init, Known, Absent, Row
<1>. QED  BY <1>1, RefinementStep, StoreInvariant, OwnInvariant, PTL
          DEF Spec, ImplementsIndex, Index!Spec

-----------------------------------------------------------------------------
(* The page's queue. *)


LEMMA MineAreCallers == Mine \subseteq Uploads /\ Mine \subseteq Callers
BY UploadQueueAssumption DEF Callers

(* Every step of the page is a step of ingestion or invisible to it. *)
LEMMA PageStepIsIngestion == [PageNext]_allVars => [Next]_vars
<1>. SUFFICES ASSUME [PageNext]_allVars PROVE [Next]_vars
  OBVIOUS
<1>1. ASSUME NEW u \in Mine, AnswerPost(u) PROVE Next
  BY <1>1, MineAreCallers DEF AnswerPost, Next, Ask
<1>2. ASSUME NEW u \in Mine, Add(u) \/ Browse(u) \/ CallFails(u) PROVE UNCHANGED vars
  BY <1>2 DEF Add, Browse, Received, Polled, Repeat, AnswerGet, CallFails
<1>3. ASSUME clearFinished \/ Destroy PROVE UNCHANGED vars
  BY <1>3 DEF clearFinished, Destroy
<1>. QED  BY <1>1, <1>2, <1>3 DEF PageNext, Backend, allVars

(* The page's specification implies ingestion's. *)
LEMMA PageRunsIngestion == PageSpec => Spec
<1>1. PageInit => Init
  BY DEF PageInit
<1>. QED  BY <1>1, PageStepIsIngestion, PTL DEF PageSpec, Spec

IngestionInv == TypeOK /\ StoreInv /\ OwnInv

LEMMA PageIngestionInvariant == PageSpec => []IngestionInv
BY PageRunsIngestion, StoreInvariant, OwnInvariant, PTL DEF IngestionInv

(* What is known stays known, what can be searched stays searchable: both    *)
(* are facts about DocumentIndex, which ingestion implements.               *)
LEMMA SearchableStays ==
  ASSUME IngestionInv, IngestionInv', [Next]_vars, NEW d \in Docs
  PROVE  /\ Known(d) => Known(d)'
         /\ Searchable(d) => Searchable(d)'
<1>1. [Index!Next]_Index!vars
  BY RefinementStep DEF IngestionInv
<1>2. chunks \in [Docs -> SUBSET Nat] /\ embedded \in [Docs -> SUBSET Nat]
  BY DEF IngestionInv, TypeOK
<1>. DEFINE Grows == /\ chunks[d] \subseteq chunks'[d] /\ embedded[d] \subseteq embedded'[d]
                    /\ Registered \subseteq Registered'
<1>3. Grows
  <2>1. ASSUME NEW e \in Docs, Index!Register(e) PROVE Grows
    BY <2>1 DEF Index!Register, Registered
  <2>2. ASSUME NEW e \in Docs, NEW s \in Strategies, Index!StoreStrategy(e, s) PROVE Grows
    BY <1>2, <2>2 DEF Index!StoreStrategy, Registered
  <2>3. ASSUME NEW e \in Docs, Index!IndexBatch(e) PROVE Grows
    BY <1>2, <2>3 DEF Index!IndexBatch, Registered
  <2>4. ASSUME NEW e \in Docs, Index!Announce(e) \/ Index!Withdraw(e) PROVE Grows
    BY <2>4 DEF Index!Announce, Index!Withdraw, Registered
  <2>5. CASE UNCHANGED Index!vars
    BY <2>5 DEF Index!vars, Registered
  <2>. HIDE DEF Grows
  <2>. QED  BY <1>1, <2>1, <2>2, <2>3, <2>4, <2>5 DEF Index!Next
<1>4. embedded'[d] \subseteq chunks'[d] /\ chunks'[d] \subseteq AllChunks(d)
  BY DEF IngestionInv, StoreInv, Bounded, AllChunks
<1>. QED  BY <1>2, <1>3, <1>4 DEF Registered, Searchable, AllChunks

-----------------------------------------------------------------------------
(* A caller decides on a row it has read. *)
ViewLoaded ==
  \A c \in Callers : pc[c] \in {"keeping_file", "deciding"} => view[c].status # "absent"

LEMMA ViewLoadedStep == IngestionInv /\ ViewLoaded /\ [Next]_vars => ViewLoaded'
<1>. SUFFICES ASSUME TypeOK, OwnersKnown, ViewLoaded, [Next]_vars PROVE ViewLoaded'
  BY DEF IngestionInv, OwnInv
<1>. USE DEF ViewLoaded, TypeOK, Goto, table, Strategies
<1>1. ASSUME NEW c \in Callers, Refuse(c) PROVE ViewLoaded'
  BY <1>1 DEF Refuse
<1>2. ASSUME NEW c \in Callers, Ask(c) PROVE ViewLoaded'
  BY <1>2 DEF Ask, Lookup, Insert, Refresh, KeepFile, Respond, Continue, Known, OwnersKnown, Asking
<1>3. ASSUME NEW c \in Callers, Process(c) PROVE ViewLoaded'
  BY <1>3 DEF Process, Load, StartParsing, Parsed, InsertChunks, StartEmbedding,
              ChunksMissingEmbeddings, EmbedBatch, FinishReady, Fail, Raises, Flush
<1>4. ASSUME NEW who \in SUBSET Callers, Lose(who) PROVE ViewLoaded'
  BY <1>4 DEF Lose
<1>5. CASE UNCHANGED vars
  BY <1>5 DEF vars
<1>. QED  BY <1>1, <1>2, <1>3, <1>4, <1>5 DEF Next, ServerCrash, Interrupted, Callers

-----------------------------------------------------------------------------
(***************************************************************************)
(* The invariant of the page: a reply speaks of a row that exists; one     *)
(* that says ready speaks of a document that can be searched.              *)
(***************************************************************************)
Answered == {"created", "duplicate", "in_progress", "retrying"}

ItemOK(u) ==
  /\ reply[u] \in Statuses \/ call[u] \in {"get", "delay"} => Known(doc[u])
  /\ call[u] \in {"none", "delay"} => reply[u] = "none"
  /\ call[u] = "post" /\ reply[u] \in Statuses => outcome[u] \in Answered
  /\ reply[u] = "ready" => Searchable(doc[u])
  /\ state[u] \in {"ready", "duplicate"} => Searchable(doc[u])
  /\ call[u] # "none" <=> (open /\ state[u] \in Active)

PageInv ==
  /\ PageTypeOK
  /\ ViewLoaded
  /\ \A u \in Mine : ItemOK(u)

LEMMA PageInvInit == PageInit => PageInv
BY DEF PageInit, Init, PageInv, PageTypeOK, ViewLoaded, ItemOK, Statuses, InFlight, Active,
       Messages, Calls

(* An item whose own fields do not change stays all right, whatever runs.   *)
LEMMA ItemUntouched ==
  ASSUME IngestionInv, IngestionInv', PageInv, [Next]_vars, NEW u \in Mine,
         state'[u] = state[u], call'[u] = call[u], reply'[u] = reply[u],
         outcome'[u] = outcome[u] \/ call[u] # "post", open' = open, doc' = doc
  PROVE  ItemOK(u)'
<1>1. doc[u] \in Docs
  BY MineAreCallers DEF IngestionInv, TypeOK
<1>2. (Known(doc[u]) => Known(doc[u])') /\ (Searchable(doc[u]) => Searchable(doc[u])')
  BY <1>1, SearchableStays
<1>. QED  BY <1>2 DEF PageInv, ItemOK

LEMMA DocConstant == [Next]_vars => doc' = doc
BY DEF Next, vars, Refuse, Ask, Lookup, Insert, Refresh, KeepFile, Respond, Continue,
       Process, Load, StartParsing, Parsed, InsertChunks, StartEmbedding,
       ChunksMissingEmbeddings, EmbedBatch, FinishReady, Fail, ServerCrash, Interrupted, Lose, table

(* The steps in the browser leave ingestion alone and change one item. *)
LEMMA BrowserStep ==
  ASSUME IngestionInv, PageInv, UNCHANGED vars, NEW u \in Mine,
         Add(u) \/ Received(u) \/ Polled(u) \/ Repeat(u) \/ AnswerGet(u) \/ CallFails(u)
  PROVE  PageInv'
<1>. USE DEF PageInv, PageTypeOK, ItemOK, Statuses, Calls, Messages, Active, Finished, patch
<1>1. ViewLoaded'
  BY DEF ViewLoaded, vars, table
<1>2. \A v \in Mine : Known(doc[v])' = Known(doc[v]) /\ Searchable(doc[v])' = Searchable(doc[v])
  BY DEF Known, Searchable, AllChunks, vars, table
<1>3. DuplicateIsSearchable /\ ReadyIsSearchable /\ outcome' = outcome /\ doc' = doc
  BY DEF IngestionInv, StoreInv, vars
<1>4. u \in Callers /\ doc[u] \in Docs /\ row[doc[u]].status \in Statuses \cup {"absent"}
  BY MineAreCallers DEF IngestionInv, TypeOK, Rows, InFlight
<1>5. CASE Add(u)
  <2>1. PageTypeOK'
    BY <1>5 DEF Add
  <2>2. \A v \in Mine : ItemOK(v)'
    <3>1. \A v \in Mine \ {u} : state'[v] = state[v] /\ call'[v] = call[v] /\ reply'[v] = reply[v]
      BY <1>5 DEF Add
    <3>2. open' = open /\ reply'[u] = reply[u] /\ state'[u] \in {"rejected", "uploading"}
          /\ (call'[u] # "none" <=> state'[u] = "uploading") /\ call'[u] \in {"none", "post"}
          /\ open /\ call[u] = "none"
      BY <1>5 DEF Add
    <3>3. reply[u] \notin Statuses
      BY <3>2 DEF InFlight
    <3>. QED  BY <1>2, <1>3, <3>1, <3>2, <3>3
  <2>. QED  BY <1>1, <2>1, <2>2
<1>6. CASE Received(u)
  <2>1. call[u] = "post" /\ reply[u] \in Statuses /\ outcome[u] \in Answered
    BY <1>6 DEF Received
  <2>2. outcome[u] = "duplicate" => Searchable(doc[u])
    BY <1>3, <1>4 DEF DuplicateIsSearchable
  <2>. QED  BY <1>1, <1>2, <1>3, <1>6, <2>1, <2>2 DEF Received, Answered
<1>7. CASE Polled(u)
  BY <1>1, <1>2, <1>3, <1>7 DEF Polled, TERMINAL
<1>8. CASE Repeat(u)
  BY <1>1, <1>2, <1>3, <1>8 DEF Repeat
<1>9. CASE AnswerGet(u)
  <2>1. Known(doc[u]) /\ reply' = [reply EXCEPT ![u] = row[doc[u]].status]
    BY <1>9 DEF AnswerGet
  <2>2. row[doc[u]].status \in Statuses /\ (row[doc[u]].status = "ready" => Searchable(doc[u]))
    BY <1>3, <1>4, <2>1 DEF Known, ReadyIsSearchable
  <2>3. /\ UNCHANGED <<state, shown, message, call, open>>
        /\ \A v \in Mine \ {u} : reply'[v] = reply[v]
        /\ reply'[u] = row[doc[u]].status /\ call[u] = "get"
    BY <1>9, <2>1 DEF AnswerGet
  <2>4. PageTypeOK'
    BY <2>1, <2>2, <2>3
  <2>5. \A v \in Mine : ItemOK(v)'
    BY <1>2, <1>3, <2>1, <2>2, <2>3
  <2>. QED  BY <1>1, <2>4, <2>5
<1>10. CASE CallFails(u)
  BY <1>1, <1>2, <1>3, <1>10 DEF CallFails, InFlight
<1>. QED  BY <1>5, <1>6, <1>7, <1>8, <1>9, <1>10

LEMMA PageInvStep ==
  IngestionInv /\ IngestionInv' /\ PageInv /\ [PageNext]_allVars => PageInv'
<1>. SUFFICES ASSUME IngestionInv, IngestionInv', PageInv, [PageNext]_allVars PROVE PageInv'
  OBVIOUS
<1>1. [Next]_vars /\ doc' = doc
  BY PageStepIsIngestion, DocConstant
<1>2. ViewLoaded'
  BY <1>1, ViewLoadedStep DEF PageInv
<1>3. ASSUME NEW u \in Mine, Add(u) \/ Browse(u) \/ CallFails(u) PROVE PageInv'
  <2>1. UNCHANGED vars
    BY <1>3 DEF Add, Browse, Received, Polled, Repeat, AnswerGet, CallFails
  <2>. QED  BY <1>3, <2>1, BrowserStep DEF Browse
<1>4. ASSUME NEW u \in Mine, AnswerPost(u) PROVE PageInv'
  <2>1. /\ UNCHANGED <<state, call, open>>
        /\ \A v \in Mine \ {u} : reply'[v] = reply[v] /\ outcome'[v] = outcome[v]
        /\ call[u] # "post" => reply'[u] = reply[u]
    BY <1>4, MineAreCallers DEF AnswerPost, Refuse, Respond, PageInv, PageTypeOK, IngestionInv, TypeOK
  <2>2. \A v \in Mine \ {u} : ItemOK(v)'
    BY <1>1, <2>1, ItemUntouched
  <2>3. PageTypeOK'
    <3>1. pc[u] = "deciding" => view[u].status \in Statuses
      BY MineAreCallers DEF PageInv, ViewLoaded, IngestionInv, TypeOK, Rows, Statuses
    <3>. QED  BY <1>4, <3>1 DEF AnswerPost, Respond, Goto, PageInv, PageTypeOK
  <2>4. CASE call[u] # "post"
    <3>1. ItemOK(u)'
      BY <1>1, <2>1, <2>4, ItemUntouched
    <3>. QED  BY <1>2, <2>2, <2>3, <3>1 DEF PageInv
  <2>5. CASE call[u] = "post" /\ Refuse(u) /\ reply' = [reply EXCEPT ![u] = "error"]
    <3>1. Known(doc[u])' = Known(doc[u]) /\ Searchable(doc[u])' = Searchable(doc[u])
      BY <2>5 DEF Refuse, table, Searchable, AllChunks, Known
    <3>2. state'[u] = state[u] /\ call'[u] = "post" /\ open' = open
      BY <2>1, <2>5
    <3>3. reply'[u] = "error" /\ reply'[u] \notin Statuses
      BY <2>5 DEF PageInv, PageTypeOK, Statuses, InFlight
    <3>4. ItemOK(u)'
      BY <2>5, <3>1, <3>2, <3>3 DEF PageInv, ItemOK
    <3>. QED  BY <1>2, <2>2, <2>3, <3>4 DEF PageInv
  <2>6. CASE call[u] = "post" /\ Respond(u) /\ reply' = [reply EXCEPT ![u] = view[u].status]
    <3>1. Known(doc[u]) /\ (view[u].status = "ready" => Searchable(doc[u]))
      BY <2>6, MineAreCallers DEF Respond, Goto, IngestionInv, OwnInv, OwnersKnown, Asking,
                                  StoreInv, ViewIsSearchable
    <3>2. outcome'[u] \in Answered
      BY <2>6, MineAreCallers DEF Respond, UploadOutcome, Answered, IngestionInv, TypeOK
    <3>3. reply'[u] = view[u].status
      BY <2>6 DEF PageInv, PageTypeOK
    <3>4. Known(doc[u])' = Known(doc[u]) /\ Searchable(doc[u])' = Searchable(doc[u])
      BY <2>6 DEF Respond, table, Searchable, AllChunks, Known
    <3>5. state'[u] = state[u] /\ call'[u] = "post" /\ open' = open
      BY <2>1, <2>6
    <3>6. ItemOK(u)'
      BY <2>6, <3>1, <3>2, <3>3, <3>4, <3>5 DEF PageInv, ItemOK, Active, Statuses, InFlight
    <3>. QED  BY <1>2, <2>2, <2>3, <3>6 DEF PageInv
  <2>. QED  BY <1>4, <2>4, <2>5, <2>6 DEF AnswerPost
<1>5. ASSUME UNCHANGED page, \A u \in Mine : outcome'[u] = outcome[u] PROVE PageInv'
  <2>1. \A u \in Mine : ItemOK(u)'
    BY <1>1, <1>5, ItemUntouched DEF page
  <2>. QED  BY <1>2, <1>5, <2>1 DEF PageInv, PageTypeOK, page
<1>6. ASSUME UNCHANGED vars
      PROVE  \A u \in Mine : /\ Known(doc[u])' = Known(doc[u])
                            /\ Searchable(doc[u])' = Searchable(doc[u])
                            /\ outcome'[u] = outcome[u]
  BY <1>6 DEF Known, Searchable, AllChunks, vars, table
<1>7. CASE clearFinished
  <2>1. PageTypeOK'
    BY <1>7 DEF clearFinished, PageInv, PageTypeOK
  <2>2. \A u \in Mine : ItemOK(u)'
    BY <1>6, <1>7 DEF clearFinished, PageInv, PageTypeOK, ItemOK, Finished, Active
  <2>. QED  BY <1>2, <2>1, <2>2 DEF PageInv
<1>8. CASE Destroy
  <2>1. PageTypeOK'
    BY <1>8 DEF Destroy, PageInv, PageTypeOK, Calls
  <2>2. \A u \in Mine : ItemOK(u)'
    BY <1>6, <1>8 DEF Destroy, PageInv, PageTypeOK, ItemOK, Statuses, InFlight
  <2>. QED  BY <1>2, <2>1, <2>2 DEF PageInv
<1>9. ASSUME UNCHANGED allVars \/ Backend PROVE PageInv'
  BY <1>5, <1>9 DEF allVars, vars, Backend
<1>. QED  BY <1>3, <1>4, <1>7, <1>8, <1>9 DEF PageNext

LEMMA PageInvariant == PageSpec => [](IngestionInv /\ PageInv)
<1>1. PageInit => PageInv
  BY PageInvInit
<1>. QED  BY <1>1, PageIngestionInvariant, PageInvStep, PTL DEF PageSpec

(* Type correctness of the upload panel. *)
THEOREM PageTypeCorrect == PageSpec => []PageTypeOK
<1>1. PageInv => PageTypeOK
  BY DEF PageInv
<1>. QED  BY <1>1, PageInvariant, PTL

(* What an item shows as ready or as a duplicate can be searched            *)
(* (upload-queue.ts 149-190 over documents.py 96-136).                      *)
THEOREM ItemsAreSearchable == PageSpec => []FinishedItemsAreSearchable
<1>1. PageInv => FinishedItemsAreSearchable
  BY DEF PageInv, ItemOK, FinishedItemsAreSearchable
<1>. QED  BY <1>1, PageInvariant, PTL

(* An item is followed exactly while it is not finished and the page is     *)
(* open (upload-queue.ts 87-89, 149-195).                                   *)
THEOREM ItemsAreFollowed == PageSpec => []FollowedWhileActive
<1>1. PageInv => FollowedWhileActive
  BY DEF PageInv, ItemOK, FollowedWhileActive
<1>. QED  BY <1>1, PageInvariant, PTL

(* No late reply touches a finished item (upload-queue.ts 171-190).         *)
THEOREM FinishedStaysFinal == PageSpec => FinishedIsFinal
<1>. DEFINE Final == \A u \in Mine : state[u] \in Finished =>
                       state'[u] \in {state[u], "cleared"} /\ message'[u] = message[u]
<1>1. ASSUME PageInv, [PageNext]_allVars PROVE Final
  <2>1. \A u \in Mine : state[u] \in Finished => call[u] = "none"
    BY <1>1 DEF PageInv, ItemOK, Active, Finished
  <2>2. ASSUME NEW v \in Mine, Add(v) \/ Browse(v) \/ CallFails(v) \/ AnswerPost(v) PROVE Final
    BY <1>1, <2>1, <2>2 DEF Add, Browse, Received, Polled, Repeat, AnswerGet, CallFails,
                            AnswerPost, patch, PageInv, PageTypeOK, Finished
  <2>3. CASE clearFinished \/ Destroy \/ Backend \/ UNCHANGED allVars
    BY <1>1, <2>3 DEF clearFinished, Destroy, Backend, page, allVars, PageInv, PageTypeOK
  <2>. QED  BY <1>1, <2>2, <2>3 DEF PageNext
<1>. QED  BY <1>1, PageInvariant, PTL DEF PageSpec, FinishedIsFinal
=============================================================================
