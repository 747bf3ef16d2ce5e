----------------------------- MODULE Ingestion -----------------------------
(***************************************************************************)
(* How an uploaded file becomes a searchable document                      *)
(* (services/ingestion.py, api/v1/documents.py, scripts/ingest_corpus.py). *)
(*                                                                         *)
(* A document is known by its tenant and the hash of its content; Docs are *)
(* those keys.  Callers are POST /documents requests, whose slow half runs *)
(* as a background task after the response, and runs of the corpus script, *)
(* which runs both halves itself.  They share nothing but the database.    *)
(* Every COMMIT is a step of its own, and so is every await between a read *)
(* of the row and the decision taken on it: in between, other callers run. *)
(***************************************************************************)
EXTENDS Naturals, FiniteSets

CONSTANTS
  Docs,       \* (tenant, content hash) pairs
  Uploads,    \* POST /documents requests, each made at most once
  Scripts,    \* runs of the corpus script, each on one file
  ChunksOf,   \* ChunksOf[d][s]: the chunks strategy s cuts document d into
  BatchSize,  \* EMBEDDING_BATCH_SIZE
  MaxFaults   \* bound on crashes and database errors

Strategies == {"fixed_500", "structural"}

ASSUME IngestionAssumption ==
  /\ Uploads \cap Scripts = {}
  /\ BatchSize \in Nat \ {0}
  /\ MaxFaults \in Nat
  /\ ChunksOf \in [Docs -> [Strategies -> SUBSET Nat]]

Callers == Uploads \cup Scripts

VARIABLES
  row,        \* row[d]: the committed documents row of d, or Absent
  chunks,     \* chunks[d]: its committed chunks rows
  embedded,   \* embedded[d]: those with an embeddings row for the model
  pc,         \* pc[c]: where caller c stands
  doc,        \* doc[c]: the file it is about
  created,    \* created[c]: did it insert the row
  view,       \* view[c]: status and error_code of the Document object its session holds
  todo,       \* todo[c]: the chunks it still has to embed
  outcome,    \* outcome[c]: what the upload was answered
  faults      \* crashes and database errors so far

table == <<row, chunks, embedded>>
vars == <<row, chunks, embedded, pc, doc, created, view, todo, outcome, faults>>

InFlight == {"pending", "parsing", "embedding"}
Codes == {"parse_timeout", "parse_failed", "embedding_failed"}

(* "None" is SQL NULL: an error_code nobody wrote. *)
Row(status, error) == [status |-> status, error |-> error]
Absent == Row("absent", "None")
Rows == [status : InFlight \cup {"absent", "ready", "failed"}, error : Codes \cup {"None"}]

(* Is there a row for d? *)
Known(d) == row[d].status # "absent"

AllChunks(d) == UNION {ChunksOf[d][s] : s \in Strategies}

(* The labels of process_document, one per commit or long await; a task    *)
(* that is scheduled, or has not written its first status yet, comes first. *)
Running == {"parsing", "fixed_500", "structural", "embedding", "collecting", "storing"}
Working == {"queued", "starting"} \cup Running
Asking == {"inserting", "refreshing", "keeping_file", "deciding"}
Labels == {"idle", "done", "lost"} \cup Asking \cup Working

Init ==
  /\ row = [d \in Docs |-> Absent]
  /\ chunks = [d \in Docs |-> {}]
  /\ embedded = [d \in Docs |-> {}]
  /\ pc = [c \in Callers |-> "idle"]
  /\ doc \in [Callers -> Docs]
  /\ created = [c \in Callers |-> FALSE]
  /\ view = [c \in Callers |-> Absent]
  /\ todo = [c \in Callers |-> {}]
  /\ outcome = [c \in Callers |-> "None"]
  /\ faults = 0

Goto(c, from, to) ==
  /\ pc[c] = from
  /\ pc' = [pc EXCEPT ![c] = to]

(***************************************************************************)
(* A commit of the Document object: the UPDATE names only the columns      *)
(* whose value differs from the one the session last loaded or wrote       *)
(* (expire_on_commit is off, so a commit reloads nothing).                 *)
(***************************************************************************)
Flush(c, new) ==
  /\ row' = [row EXCEPT ![doc[c]] =
       [status |-> IF new.status = view[c].status THEN @.status ELSE new.status,
        error  |-> IF new.error = view[c].error THEN @.error ELSE new.error]]
  /\ view' = [view EXCEPT ![c] = new]

-----------------------------------------------------------------------------
(* The synchronous half: upload_document and ingest_document. *)

(* Wrong suffix, or inspect_upload refused the file: nothing is stored. *)
Refuse(c) ==
  /\ c \in Uploads
  /\ Goto(c, "idle", "done")
  /\ outcome' = [outcome EXCEPT ![c] = "refused"]
  /\ UNCHANGED <<table, doc, created, view, todo, faults>>

(* get_or_create_document: look the row up by tenant and hash. *)
Lookup(c) ==
  /\ Goto(c, "idle", IF Known(doc[c]) THEN "keeping_file" ELSE "inserting")
  /\ view' = [view EXCEPT ![c] = IF Known(doc[c]) THEN row[doc[c]] ELSE @]
  /\ UNCHANGED <<table, doc, created, todo, outcome, faults>>

(* Mutant: the loser of the race keeps believing its own insert. *)
InsertNeverLoses(c) ==
  /\ Goto(c, "inserting", "refreshing")
  /\ row' = [row EXCEPT ![doc[c]] = IF Known(doc[c]) THEN @ ELSE Row("pending", "None")]
  /\ created' = [created EXCEPT ![c] = TRUE]
  /\ UNCHANGED <<chunks, embedded, doc, view, todo, outcome, faults>>

(* INSERT ... "pending"; uq_doc_tenant_hash refuses the second of a race. *)
Insert(c) ==
  /\ Goto(c, "inserting", "refreshing")
  /\ row' = [row EXCEPT ![doc[c]] = IF Known(doc[c]) THEN @ ELSE Row("pending", "None")]
  /\ created' = [created EXCEPT ![c] = ~ Known(doc[c])]
  /\ UNCHANGED <<chunks, embedded, doc, view, todo, outcome, faults>>

(* session.refresh for the winner, the second SELECT for the loser. *)
Refresh(c) ==
  /\ Goto(c, "refreshing", "keeping_file")
  /\ view' = [view EXCEPT ![c] = row[doc[c]]]
  /\ UNCHANGED <<table, doc, created, todo, outcome, faults>>

(* store_document_file swallows an OSError; what it stores is not modelled *)
(* here, but the status read before this await is acted on after it.       *)
KeepFile(c) ==
  /\ Goto(c, "keeping_file", "deciding")
  /\ UNCHANGED <<table, doc, created, view, todo, outcome, faults>>

(* Mutant: whatever is known and did not fail is a duplicate. *)
UploadOutcomeTooEager(c) ==
  IF created[c] THEN "created"
  ELSE IF view[c].status # "failed" THEN "duplicate"
  ELSE "retrying"

UploadOutcome(c) ==
  IF created[c] THEN "created"
  ELSE IF view[c].status = "ready" THEN "duplicate"
  ELSE IF view[c].status \in InFlight THEN "in_progress"
  ELSE "retrying"

(* Mutant: only a retry is scheduled. *)
RespondOnlyRetries(c) ==
  LET answer == UploadOutcome(c) IN
  /\ c \in Uploads
  /\ Goto(c, "deciding", IF answer = "retrying" THEN "queued" ELSE "done")
  /\ outcome' = [outcome EXCEPT ![c] = answer]
  /\ UNCHANGED <<table, doc, created, view, todo, faults>>

(* The response of upload_document, and the background task it schedules. *)
Respond(c) ==
  LET answer == UploadOutcome(c) IN
  /\ c \in Uploads
  /\ Goto(c, "deciding", IF answer \in {"created", "retrying"} THEN "queued" ELSE "done")
  /\ outcome' = [outcome EXCEPT ![c] = answer]
  /\ UNCHANGED <<table, doc, created, view, todo, faults>>

(* ingest_document goes on with the very object it looked up. *)
Continue(c) ==
  /\ c \in Scripts
  /\ Goto(c, "deciding", IF view[c].status = "ready" THEN "done" ELSE "starting")
  /\ UNCHANGED <<table, doc, created, view, todo, outcome, faults>>

-----------------------------------------------------------------------------
(* The slow half: _process_in_background and process_document. *)

(* session.get in the task's own session. *)
Load(c) ==
  /\ Goto(c, "queued", IF row[doc[c]].status = "ready" THEN "done" ELSE "starting")
  /\ view' = [view EXCEPT ![c] = row[doc[c]]]
  /\ UNCHANGED <<table, doc, created, todo, outcome, faults>>

StartParsing(c) ==
  /\ Goto(c, "starting", "parsing")
  /\ Flush(c, Row("parsing", "None"))
  /\ UNCHANGED <<chunks, embedded, doc, created, todo, outcome, faults>>

Parsed(c) ==
  /\ Goto(c, "parsing", "fixed_500")
  /\ UNCHANGED <<table, doc, created, view, todo, outcome, faults>>

(* One strategy's rows in one transaction, ON CONFLICT DO NOTHING. *)
InsertChunks(c, s) ==
  /\ Goto(c, s, IF s = "fixed_500" THEN "structural" ELSE "embedding")
  /\ chunks' = [chunks EXCEPT ![doc[c]] = @ \cup ChunksOf[doc[c]][s]]
  /\ UNCHANGED <<row, embedded, doc, created, view, todo, outcome, faults>>

StartEmbedding(c) ==
  /\ Goto(c, "embedding", "collecting")
  /\ Flush(c, Row("embedding", "None"))
  /\ UNCHANGED <<chunks, embedded, doc, created, todo, outcome, faults>>

(* _chunks_missing_embeddings: whoever inserted them. *)
ChunksMissingEmbeddings(c) ==
  /\ Goto(c, "collecting", "storing")
  /\ todo' = [todo EXCEPT ![c] = chunks[doc[c]] \ embedded[doc[c]]]
  /\ UNCHANGED <<table, doc, created, view, outcome, faults>>

(* The first BatchSize chunks in order. *)
Batch(set) == {k \in set : Cardinality({j \in set : j < k}) < BatchSize}

(* Mutant: the loop over the batches ends after the first. *)
EmbedFirstBatch(c) ==
  /\ todo[c] # {}
  /\ Goto(c, "storing", "storing")
  /\ embedded' = [embedded EXCEPT ![doc[c]] = @ \cup Batch(todo[c])]
  /\ todo' = [todo EXCEPT ![c] = {}]
  /\ UNCHANGED <<row, chunks, doc, created, view, outcome, faults>>

EmbedBatch(c) ==
  /\ todo[c] # {}
  /\ Goto(c, "storing", "storing")
  /\ embedded' = [embedded EXCEPT ![doc[c]] = @ \cup Batch(todo[c])]
  /\ todo' = [todo EXCEPT ![c] = @ \ Batch(@)]
  /\ UNCHANGED <<row, chunks, doc, created, view, outcome, faults>>

(* Mutant: ready before the embeddings are stored. *)
FinishReadyEarly(c) ==
  /\ Goto(c, "storing", "done")
  /\ Flush(c, Row("ready", "None"))
  /\ UNCHANGED <<chunks, embedded, doc, created, todo, outcome, faults>>

FinishReady(c) ==
  /\ todo[c] = {}
  /\ Goto(c, "storing", "done")
  /\ Flush(c, Row("ready", "None"))
  /\ UNCHANGED <<chunks, embedded, doc, created, todo, outcome, faults>>

(* Mutant: error_code is set to embedding_failed before the chunks are in. *)
RaisesTooEarly(c, code) ==
  \/ pc[c] = "parsing" /\ code \in {"parse_failed", "parse_timeout"}
  \/ pc[c] \in {"fixed_500", "structural", "storing"} /\ code = "embedding_failed"

(* What can be raised at each label, with the error_code then in force: the *)
(* parser, a chunking strategy, or the embedder when it has a batch to do.  *)
Raises(c, code) ==
  \/ pc[c] = "parsing" /\ code \in {"parse_failed", "parse_timeout"}
  \/ pc[c] \in {"fixed_500", "structural"} /\ code = "parse_failed"
  \/ pc[c] = "storing" /\ todo[c] # {} /\ code = "embedding_failed"

(* Mutant: the failure is logged and the row left as it was. *)
FailUnmarked(c) ==
  \E code \in Codes :
    /\ Raises(c, code)
    /\ pc' = [pc EXCEPT ![c] = "done"]
    /\ todo' = [todo EXCEPT ![c] = {}]
    /\ UNCHANGED <<table, doc, created, view, outcome, faults>>

(* except Exception: mark failed, commit, re-raise. *)
Fail(c) ==
  \E code \in Codes :
    /\ Raises(c, code)
    /\ pc' = [pc EXCEPT ![c] = "done"]
    /\ Flush(c, Row("failed", code))
    /\ todo' = [todo EXCEPT ![c] = {}]
    /\ UNCHANGED <<chunks, embedded, doc, created, outcome, faults>>

-----------------------------------------------------------------------------
(* Faults: what no except clause gets to handle. *)

Busy(c) == pc[c] \in Asking \cup Working

Lose(who) ==
  /\ faults < MaxFaults
  /\ \E c \in who : Busy(c)
  /\ faults' = faults + 1
  /\ pc' = [c \in Callers |-> IF c \in who /\ Busy(c) THEN "lost" ELSE pc[c]]
  /\ todo' = [c \in Callers |-> IF c \in who /\ Busy(c) THEN {} ELSE todo[c]]
  /\ UNCHANGED <<table, doc, created, view, outcome>>

(* The server process dies with its requests and background tasks. *)
ServerCrash == Lose(Uploads)

(* The script is interrupted; or the database refuses a statement, and the *)
(* handler's own commit then fails on the aborted transaction too.         *)
Interrupted(c) == Lose({c})

-----------------------------------------------------------------------------
Ask(c) ==
  \/ Lookup(c) \/ Insert(c) \/ Refresh(c) \/ KeepFile(c) \/ Respond(c) \/ Continue(c)

Process(c) ==
  \/ Load(c) \/ StartParsing(c) \/ Parsed(c)
  \/ \E s \in Strategies : InsertChunks(c, s)
  \/ StartEmbedding(c) \/ ChunksMissingEmbeddings(c) \/ EmbedBatch(c)
  \/ FinishReady(c) \/ Fail(c)

Next ==
  \/ \E c \in Callers : Refuse(c) \/ Ask(c) \/ Process(c) \/ Interrupted(c)
  \/ ServerCrash

Spec == Init /\ [][Next]_vars

(***************************************************************************)
(* An event loop runs every task that can run, so a caller that has        *)
(* started goes on; whether anyone starts is up to the outside.            *)
(***************************************************************************)
Fairness == \A c \in Callers : WF_vars(Busy(c) /\ (Ask(c) \/ Process(c)))

FairSpec == Spec /\ Fairness

-----------------------------------------------------------------------------
Outcomes == {"None", "refused", "created", "duplicate", "in_progress", "retrying"}

(* Every variable has its type; a row counts at most MaxFaults faults. *)
TypeOK ==
  /\ row \in [Docs -> Rows]
  /\ chunks \in [Docs -> SUBSET Nat]
  /\ embedded \in [Docs -> SUBSET Nat]
  /\ pc \in [Callers -> Labels]
  /\ doc \in [Callers -> Docs]
  /\ created \in [Callers -> BOOLEAN]
  /\ view \in [Callers -> Rows]
  /\ todo \in [Callers -> SUBSET Nat]
  /\ outcome \in [Callers -> Outcomes]
  /\ faults \in 0 .. MaxFaults

Searchable(d) == chunks[d] = AllChunks(d) /\ embedded[d] = AllChunks(d)

(* A document shown as ready has every chunk of both strategies stored and  *)
(* embedded, whatever crashed, failed or ran twice on the way: "marked      *)
(* ready with gaps" is what process_document's docstring rules out.         *)
ReadyIsSearchable == \A d \in Docs : row[d].status = "ready" => Searchable(d)

(* "duplicate: already ingested, nothing to do" is true when it is said,    *)
(* although the status it rests on was read before the file was stored.     *)
DuplicateIsSearchable ==
  \A c \in Callers : outcome[c] = "duplicate" => Searchable(doc[c])

(* Of all uploads and scripts racing to insert the same new file, one alone *)
(* is told that it created it, and one alone is answered 201.               *)
CreatedOnce ==
  \A c1, c2 \in Callers :
    created[c1] /\ created[c2] /\ doc[c1] = doc[c2] => c1 = c2

(* A document that is marked embedding_failed was parsed: all its chunks    *)
(* are there, so the retry only embeds.                                     *)
EmbeddingFailedIsChunked ==
  \A d \in Docs :
    row[d] = Row("failed", "embedding_failed") => chunks[d] = AllChunks(d)

(* Without a crash or a database error nobody is left behind: a row in      *)
(* flight has a caller that still has to write its next status.             *)
NoOrphans ==
  \A d \in Docs :
    faults = 0 /\ row[d].status \in InFlight => \E c \in Callers : doc[c] = d /\ Busy(c)

(* Once the faults are over, a document somebody processes ends as ready or *)
(* failed; with the corpus script as that somebody this is how a document   *)
(* left in flight by a crash is resumed.                                    *)
Settles ==
  \A c \in Callers :
    (pc[c] \in Working /\ faults = MaxFaults) ~> row[doc[c]].status \in {"ready", "failed"}

Index == INSTANCE DocumentIndex WITH
  registered <- {d \in Docs : Known(d)},
  stored     <- chunks,
  indexed    <- embedded,
  announced  <- {d \in Docs : row[d].status = "ready"}

(* Every step of ingestion is a step of what DocumentIndex promises, or is  *)
(* invisible to it.                                                         *)
ImplementsIndex == Index!Spec

(* ARCHITECTURE.md, Ingestion: the same file is never processed twice, not  *)
(* even when it arrives again while the first copy is being processed.      *)
NeverInParallel ==
  \A c1, c2 \in Uploads :
    c1 # c2 /\ doc[c1] = doc[c2] => ~ (pc[c1] \in Running /\ pc[c2] \in Running)
=============================================================================
