# Normeon: formal verification

Normeon answers questions about German technical standards from uploaded PDF
and DOCX files: a FastAPI backend over PostgreSQL with pgvector, an Angular
frontend, and an evaluation harness. This directory holds TLA+ models of the
parts where steps of several actors interleave, its pure algorithms as operators,
the TLC configurations that check both, and TLAPS proofs of the properties that
matter most. Paths below
are relative to the repository; `app/` stands for `backend/src/app/`.

    tlc -workers 2 -config MCIngestion.cfg MCIngestion.tla   # one run
    tlapm IngestionProofs.tla                                # one proof module

`PROJECT.json` lists the components, runs, mutants, findings, hazards and
theorems, and maps every definition to the lines it models.

## 1. Inventory

The backend is one process with one event loop. Request handlers, background
tasks and streamed responses are coroutines of it: they interleave at every
`await` and nowhere else. Parsing, reranking, local embedding and file writes
run on threads of the default executor. The maintenance scripts are processes
of their own. What they all share is the database.

| Component | State it keeps | Operations | Model |
|---|---|---|---|
| Document ingestion (`services/ingestion.py`, `api/v1/documents.py`, `scripts/ingest_corpus.py`) | rows of `documents`, `chunks`, `embeddings`; the `Document` object of each session | upload, background processing, the script's run | `Ingestion`, `DocumentIndex` |
| Rate limits (`core/rate_limit.py`) | queues of hit times per rule and client, in memory | let through, refuse, sweep | `RateLimit` |
| Answering (`services/generation.py`, `api/v1/chat.py`, `core/streaming.py`, `services/budget.py`, `services/query_log.py`) | generator, retrieval task, heartbeat wrapper, response; rows of `query_logs` | ask, prepare, stream, abstain, log, heartbeat, close | `Answering`, `AnswerProtocol` |
| Tenant scope and database sessions (`db/session.py`, `api/deps.py`, migration 0004) | sessions, their transactions, the pool's connections with role and tenant setting | check out, enter the scope, commit, roll back, close | `TenantSessions` |
| Upload panel (`frontend/.../upload-queue.ts`) | items with state, status and message; one subscription each | add, answer, poll, clear, leave | `UploadQueue` |
| Chat page (`chat-session.ts`, `chat-page.ts`, `api/chat.ts`) and sign-in (`core/auth.ts`, `core/auth-http.ts`) | current request and its controller, what is shown; the session | ask, cancel, leave, events; sign in, sign out, 401 | `ChatSession` |
| Evaluation (`scripts/run_matrix.py`, `eval/runner.py`, `eval/scoring.py`) | checkpoint, report and scores, as files | run, append, resume, report, judge, rescore | `Evaluation` |
| Retrieval and reranking (`services/retrieval/`, `domain/fusion.py`, `adapters/reranker/`) | scores in SQLite | rank, fuse, rerank, select | `Retrieval` |
| Context, citations, conflicts (`domain/`, `chat/answer-segments.ts`) | none | number sources, validate markers, show, compare versions | `Citations` |
| Parsing (`adapters/parsing/`) | none | blocks of a PDF or DOCX | `Parsing` |
| Chunking, normalisation (`domain/chunking.py`, `domain/normalization.py`, `services/chunks.py`, `scripts/backfill_chunk_regions.py`) | none; rows of `chunks` | cut, link, backfill, show around; normal form, codes | `Chunking`, `Normalization` |
| The evaluation's numbers (`eval/metrics.py`, `stats.py`, `matrix.py`, `agreement.py`, `chart.py`) | none | rates, intervals, tables, kappa, sample | `EvalMetrics` |
| Clients of the models (`adapters/llm/openai_compatible.py`, `adapters/embedding/gemini.py`, `scripts/embed_missing.py`) | attempt, deadline; rows of `embeddings` | call, retry, read the stream, embed in batches | `ModelClients` |
| The page's SSE reader (`api/sse.ts`) | rest of a chunk | cut into frames | `SseFrames` |
| Requests (`core/limits.py`, `core/request_context.py`, `core/security.py`, `api/deps.py`, the reading endpoints) | none | admit, answer documents and statistics | `Requests` |
| Document storage (`adapters/storage/local.py`) | files | save aside and replace, read | left out |
| Metrics, logging, traces, the other pages, the PDF viewer | none that decides anything | - | left out |
| Migrations, seed data, deployment | - | run by hand or at start | left out (0004's policies are in `TenantSessions`) |

How they meet. The upload panel sends `POST /documents` and then reads
`GET /documents/{id}` until the status is terminal; the POST's handler schedules
the background task that moves the row from `pending` through `parsing` and
`embedding` to `ready` or `failed`. Both chat endpoints first pass the rate
limit and the daily cap, which counts `query_logs`; the answer writes one row
there. Every handler that touches data has a tenant session of the pool, and a
question has an unscoped one besides.

### What is hard, and what must hold

*Ingestion.* The answer to an upload rests on a status read before the file was
stored. Two uploads of a failed file both see `failed`. The script processes
whatever is not ready, a document in work included. A commit writes only the
columns its session believes changed, so runs on one row mix their columns. A
crash leaves a row in flight; a database error also defeats the commit that
should mark the row failed. Whatever happens, *a ready document is searchable in
full*, "duplicate" is true when it is said, one caller alone has created a
document, and without faults nobody leaves a row in flight behind.

*Rate limits.* A hit leaves its window, is popped or is swept at different
moments; the clock is a float, Retry-After whole seconds. *No window holds more
than the limit*, a client that waits as told is let through, refusals do not
extend themselves, memory follows the active clients.

*Answering.* The generator runs only while its next event is awaited, its
retrieval runs on its own, a heartbeat may be on its way when an event arrives,
and the client may leave at any moment. *A response ends with done or error*,
done is complete, nothing works on for a client that has gone, the row is
written before done is heard, and the cap is overshot by concurrent questions
alone.

*Sessions.* The scope is local to a transaction and services commit in the
middle of a request; connections are reused by other tenants and by unscoped
sessions. *A statement reaches its session's tenant and no other*, and the daily
cap counts everybody. Questions and uploads hold one connection while they wait
for a second.

*Upload panel.* Replies are older than the screen, calls fail, the page is left.
*What is shown as ready or duplicate is searchable*, an item is followed exactly
while it is active, and a finished item stays as it is.

*Chat page.* A request outlives its page, its cancellation and its last event, and
delivers what is buffered; the next question is asked meanwhile, and every call of
the page may end the login. *A page shows what its own question wrote and nothing
else*, waiting ends, and a refused login does not come back.

*Evaluation.* The program is killed anywhere, within an append, a character or a
write of a file too; what an earlier run left may be of other questions, of failed
ones, older than the answers, or unreadable. *A finished report has the current
questions and the scores of exactly its answers*, errors are retried, and a kill costs
at most two answers, unless it leaves a file that nobody can read.

*Algorithms.* Most of what an answer rests on is sequential code whose mistakes are
silent: a word that no chunk holds, a requirement code spelt otherwise in the index
than in the question, a marker that names no source, a cache or a resumed batch
that gives a chunk another one's number, a report whose rates count other questions
than its table.

## 2. The modules

| Module | What it is |
|---|---|
| `Ingestion` | the whole path of a file, for any number of uploads, scripts and documents |
| `DocumentIndex` | abstract: what ingestion promises to search and to the document list |
| `IngestionProofs` | safety of both, and the refinement |
| `UploadQueue` | EXTENDS `Ingestion`: the browser's panel in front of it |
| `Answering` | questions, streamed and plain, and the daily cap |
| `AnswerProtocol` | abstract: the order of events a client may see, and the log |
| `AnsweringProofs` | its safety and the refinement |
| `ChatSession`, `ChatSessionProofs` | the chat page's exchange with the backend, and the login it is made under |
| `Evaluation`, `EvaluationProofs` | the evaluation of one configuration, killed and run again |
| `RateLimit`, `RateLimitProofs` | the sliding windows |
| `TenantSessions`, `TenantSessionsProofs` | database sessions over the connection pool |
| `Retrieval`, `Citations`, `Parsing`, `Chunking`, `Normalization`, `EvalMetrics`, `ModelClients`, `SseFrames`, `Requests` | the pure algorithms, as operators |
| `Ordering` | sorted lists, selections by a condition, lists without repetitions and totals, for those |
| `Algorithms` | calls them with every input of a set, and what their callers rely on |
| `AlgorithmsProofs` | `Retrieval`, `ModelClients`, `SseFrames` and `Requests` proved, for inputs of any size |
| `AnswersProofs` | `Citations`, `Ordering`, `EvalMetrics`, `Chunking` and `Parsing` proved, likewise |
| `MC...` | constants and symmetry sets of the TLC runs |

Operators whose comment says "A plausible mistake, for a mutant" are not part of a
model. Each is a plausible bug, used in place of the definition that follows it to see that a
property notices.

### Ingestion

`row[d]`, `chunks[d]` and `embedded[d]` are the committed tables, for documents
named by tenant and content hash. A caller is an upload (its request, then its
background task) or a run of the corpus script; `pc[c]` is its place. The labels
are the commits and the awaits between a read and the decision taken on it:
`Lookup`, `Insert`, `Refresh` are `get_or_create_document`; `KeepFile` the await of
`store_document_file`; `Respond` and `Continue` what upload and script do with the
status they hold; `Load` the `session.get` of the background task; `StartParsing`
to `FinishReady` the commits of `process_document`, `Fail` its `except`. `view[c]` is
what the session's `Document` object says, and `Flush` is the UPDATE SQLAlchemy
sends: only the columns that differ from `view`, since `expire_on_commit` is off.
Chunks are numbers; `ChunksOf[d][s]` is what strategy `s` makes of `d`, shared
chunks (ON CONFLICT DO NOTHING) and blank documents included.

Faults are `ServerCrash`, which takes all uploads with it, and `Interrupted`, which
takes one caller: an interrupted script, or a database error, after which the
handler's own commit is refused too.

### UploadQueue

An item is one upload of `Ingestion`. `call[u]` is what its subscription waits for
(the POST, a status read, the delay), `reply[u]` what the server answered and the
browser has not read yet. `Backend` is any step of `Ingestion` but the answer to
one of this page's POSTs, which is `AnswerPost`. `CallFails` is an error of the
connection at any moment; `Destroy` leaves the page, which aborts calls but not
what the server has begun. Callbacks in the browser are atomic.

### Answering

`gen[r]` is the place of `generate_answer_stream` (or `generate_answer`) between two
yields or awaits, `prep[r]` that of the task `_prepare`, `consumer[r]` that of `sse()`
around `with_heartbeat`. An event passes from `slot` (yielded) through `holding`
(in `sse()`'s hand) to `last` (received). The generator runs only while there is a
pending `__anext__` (`Pending`), and goes on while a heartbeat is sent, as
`asyncio.wait` leaves the pending fetch alone. `Close` is the cascade of
`aclose()`. `OverBudget` and `Ask` are `ensure_daily_budget`; `today` are the rows
since midnight. `Midnight` empties it, `Crash` ends all requests and leaves the rows.
A plain question is answered at once; that its client leaves is not noticed.

### RateLimit

One request is one step, since the middleware does not await between the clock
and its verdict. `Swept`, `Remaining` and `Put` are the sweep, the `popleft` loop and
the `defaultdict`. `admitted` and `promise` are history: what was let through by
this process, and when the last refusal told the client to come back.

### TenantSessions

`at[r]` is the session a request uses, `state[s]` and `conn[s]` where a session stands
and the connection its transaction holds, `role[c]` and `tenant[c]` the settings in
force on a connection. `Checkout` is the first statement of a transaction, after
which `_enter_tenant_scope` runs (`EnterRole`, `EnterTenant`); `EndTransactions` undoes
what was LOCAL. `saw[s]` records what the statements of a session could reach, by
the policies of migration 0004. `OpenSecond` leaves the first transaction open, as
the daily limit's count and the upload's lookup do; `End` closes a request's
sessions after its response, background tasks included.

The connecting role is the tables' owner, as in the deployment: `deploy/start.sh`
runs the migrations with the connection the app then uses.

### ChatSession

A request goes through `connecting`, `open`, `closing` and `settled`; `Current(r)` is
`ask`'s `current()`: it is its visit's controller and not aborted. Every visit of the
page has a `ChatSession` of its own, so `home[r]` says to whose signals a request
writes, and `wrote` who wrote what is shown. `Progress`, `Done`, `Error`, `Break` and `End` are
the ways the loop of `ask` goes on or ends, current or not; `Close` is the `finally` after
the stream was cancelled. `LeavePage` aborts nothing, as the code does. Logins are
numbered; `Token` is `auth.token()`, which drops an expired session; `SignOut` is
what any 401 does to whatever session there is by then. A late 401 may thus end a
newer login: `RefusedSessionIsOver` says only that a refused one never returns.

### Evaluation

The files are `ckpt[s]` (lines of the set's checkpoint), `report` and `scored`; the
process holds `task`, `runs` and `merged`, and loses them in a `Crash`. `CrashInAppend` leaves
part of a line, or all of it but its end, and `AppendLine` then makes one line of it and
the next that cannot be parsed. A part may end inside a character (`cut`): the file
is then no UTF-8 and not `Readable`, and `RunEvaluation`, which decodes all of it before it
looks at a line, is not possible until somebody takes the line out (`Repaired`). `Split` are
the answers with U+2028, U+2029 or U+0085, which are written as they are: `splitlines`
makes several lines of such a run, none of which can be parsed, and the question is
asked again. `recorded` counts the answers that a checkpoint can give back
(`GivesBack`). `OpenReport`/`CloseReport` and `Judge`/`CloseScores` are the two
halves of `write_text`. `SwitchSet` is the operator with another questions file: a report
is known by its ids only (`_covers`), a checkpoint by ids and texts. `recorded` is
history, and starts anew when the checkpoint is removed.

### The algorithms

`Algorithms` has one action, a call: `subject` names the algorithm and `input` is a
member of `Inputs[subject]`. `Inputs` is a bounded set for TLC and any set for the
proofs: assumptions say of which kind the inputs of a subject are. A property relates results of several operators (the
ranking with and without the cache, a text cut in every way, the same tenant with
and without the others' rows, the table and the report), so that it does not
restate one of them. Data is abstracted to what the algorithms tell apart:

- `Retrieval`: a branch is any ranking; scores are integers by a common multiple.
- `Citations`: texts are sequences of brackets, digits, blanks and words.
- `Parsing`: a page is boxes with sizes and texts; what pdfplumber, python-docx and
  Tesseract find is the input.
- `Chunking`: words are numbers, or all alike; a row is stored once per content. The
  backfill is given another parse of the document (`input.again`), since it parses
  without OCR: blocks of scanned pages, or all of it, may be missing there.
- `Normalization`: words, numbers, separators; what the regular expressions join.
- `EvalMetrics`: rates are fractions, a resample is given. Reciprocal ranks and shares
  of a question's chunks are integers by `Scale`, a multiple of every rank. Tables are
  `table[row][column]`.
- `ModelClients`: a server is a sequence of outcomes with the time each took.
- `SseFrames`: field names, texts and the two characters that end lines.
- `Requests`: a request is what its headers and token say; tables are sets of rows.
  `Identified` is of what the application answers. The 500 for an exception that no
  handler takes is sent by the framework outside of the request id's middleware and
  carries none (`main.py:59-60`, `request_context.py:58-66`): a path the model has not.

## 3. The runs

| Run | Instance | Distinct states | Shows |
|---|---|---|---|
| `ingestion` | 2 documents (one blank), 2 uploads, 1 script, 1 fault, fair | 252k | safety with every race for a new, failed or abandoned file; `DocumentIndex` is implemented; once the faults are over, what is processed settles |
| `ingestion_parallel` | 1 document, 3 uploads, no fault | violation | two runs of one file at once |
| `upload_queue` | 2 items for one file, 1 fault, fair | 230k | the panel's safety; without faults every item ends |
| `upload_queue_failed` | 2 items, no fault | violation | a retry shown as failed by the old status |
| `answering` | 1 streamed and 1 plain question, cap 1, 2 tokens, 1 midnight, 1 crash, fair | 217k | endings, completeness, no orphaned work, how soft the cap is, `AnswerProtocol` is implemented, every question is answered |
| `rate_limit` | 1 client, 2 rules of different windows, 7 ticks | 49k | windows, promises, refusals, memory |
| `tenant_sessions` | a read, a question and another tenant's upload, 2 connections, fair | 33k | isolation, clean connections; a standstill is resolved by the timeout |
| `tenant_sessions_torn_down` | a question and an upload | violation | an upload holds two connections |
| `chat_session` | 2 questions, 2 visits, 2 logins, 1 other call, 1 event before the last, fair | 564k | only the current request writes; waiting ends; a refused login is over |
| `evaluation` | 2 sets that share an id, 2 answers, 2 at once, 1 crash, fair | 481k | reports, retries, what a crash costs, and that the command finishes unless a file cannot be read |
| `evaluation_torn` | 1 question, 1 crash, fair | violation | a checkpoint torn inside a character, or a torn report, stops every later run |
| `algorithms` | 25 subjects, 96,900 calls | 97k | what the callers of each algorithm rely on |

### Bounds, and why they are enough

- `MaxFaults` 1: a fault may hit any caller at any point, and the uploads and the
  script that come after it meet what it left. A second one meets the same
  states: a lost caller leaves nothing but the tables.
- Two uploads and a script: one caller to fail, two to race for what it left, the
  script not looking at an outcome. Three uploads in the violations, which are
  shown without a script. Three chunks, one batch of two: a strategy with
  several batches, and a batch that is not full.
- `MaxTime` 7 with windows of 3 and 4 ticks and two ticks a second: a window
  passes twice, and hits fall on whole and on half seconds. Queues are kept per rule and
  client, so that two rules are two keys; clients that share a rule are in the
  proofs. `SweepAt` 0 makes
  every request sweep that finds anything to sweep.
- A streamed and a plain question with a cap of one: the second one may come
  while the first is at work, or after it. `MaxTokens` 2: first, further and last token. `MaxDays` 1: the requests at work
  over one midnight. `MaxCrashes` 1: at any point; what a second one would meet
  are idle requests.
- Two connections and two requests that each need two: the smallest standstill.
  The read reuses connections between them; a login's session is like the first
  one of a question. A session may run any number
  of transactions: nothing bounds them.
- Two questions, visits and logins: one to be late and one to be disturbed by it.
  `MaxEvents` 1: an event that is neither the first news of a stream nor its outcome.
  `MaxCalls` 1: one call more than the questions that may meet a 401.
- A set of one question and one of two that reuses its id, two answers and an error:
  stale runs, scores and reports of each kind. `MaxLines` 2 lets a question fail, be
  retried and fail again, and then ends the failing. One of the two answers is in
  `Split`. `MaxCrashes` 1 at any point; the proofs are for any number.
- The inputs of `algorithms` are in `MCAlgorithms`. They are as long as it takes to
  reach each branch of the code: three rankings of three ids with ties, four pieces of
  an answer, five of a text or stream, three blocks or chunks, five pages where
  running headers need a share of them, three responses of a server, three tries.
  `Scale` is 12: ranks up to 4 divide it.
- Symmetry is used for interchangeable uploads in `ingestion_parallel`, and in no run
  with a liveness property.

Deadlock is not checked where everything may be answered and done: every caller
or request is made once, a report is torn, or a call has been made. `RateLimit` never
stops (a restart is always possible), nor does the chat page.

### Fairness

- `Ingestion!Fairness`: a caller that has begun goes on, since the event loop runs
  every task that is ready and parsing and embedding have timeouts or end. Nobody
  is obliged to begin. Fairness over a caller is for its steps together, so an
  outcome (a parser that fails, say) is never forced.
- `UploadQueue!PageFairness`: besides, a POST arrives unless it is aborted or fails,
  status reads are answered, and the browser runs its callbacks.
- `Answering!FairSpec` has `ConsumerFairness` alone: the event loop gets round to the
  consumer and `with_heartbeat` wakes after 15 seconds. `GoneClientStopsWork` needs no
  more, which is its point. `EveryQuestionIsAnswered` has `WorkFairness` as its premise:
  generator, retrieval and model do not hang; they have timeouts of their own.
- `ChatSession!FairSpec`: the network delivers or the connection breaks. The user is
  obliged to nothing.
- `Evaluation!FairSpec`: the command is run again until it is done; the judge and the
  model answer, well or not. `EventuallyDone` leaves out what torn scores, a torn report
  or a checkpoint that cannot be decoded end, for good: while a file is being written
  it counts as torn, but only what stays torn is left out.
- `TenantSessions!Fairness`: the pool lends or gives up after its timeout (weak
  fairness); a request that gets its connections again and again ends (strong
  fairness: handlers have finitely many transactions). A request that waits for
  a connection is not obliged to end: that is what the timeout is for.

## 4. What the violations say

Each of these runs checks a sentence of the repository's own and finds a
behaviour of the code against it.

- `NeverInParallel` (docs/ARCHITECTURE.md:32-34, `ingestion.py:84-86`). A failed file
  uploaded twice is scheduled twice when the second lookup comes before the first
  task's `parsing`. The results stay right (`ReadyIsSearchable` and the refinement hold
  in these very states); the work is done twice and the status may step back.
- `FailedIsOver` (`upload-queue.ts:47-48`). The first status read after a retry can
  still return the old `failed`, and ends the polling.
- `RequestIsTornDown` (`documents.py:150-151`). Background tasks run before the
  request's dependencies are closed; the request's session keeps its connection.
- `RunAgainAfterCrash` (`run_matrix.py:37`, "Just run the same command again after a
  crash"). Two ways, which are two findings. A kill in an append, in the middle of a
  character, leaves a checkpoint that is no UTF-8; `runner.py:75` decodes the whole file
  outside the `try` that skips "an unparsable line (the process died mid-write)"
  (`runner.py:70-71`), so that every later run of this question set dies of it and
  every answer in it is out of reach. This is the trace TLC prints. A kill between the
  opening and the writing of a report or of its scores leaves a file that every later
  run fails to parse. Both last until somebody repairs the file by hand.

One sentence more is against the code, and a passing run says by how much:

- `normalize_de` is "Idempotent" (`normalization.py:51`; `test_normalization.py:69` is
  named for it). `R  79` becomes `r 79` and that `r79`. `NormalizationSettles` says that a
  second round changes something exactly if a reference is `Stretched` (over a line
  end or over more than one blank), and that a third changes nothing. A reference
  that a line's end divides is thus indexed in another form than a question's `R 79` is
  looked up in; `SpellingsAgree` is about the spellings that a pattern finds.

Met while modelling, and in no run, since no sentence of the repository speaks
against it or since its abstraction would be the whole argument:

- `error_code` is cleared by the first commit of a run alone; a run that goes on after
  another one failed leaves `ready` beside `parse_failed` (`documents.py:39-40` says
  null unless failed). One failed status read ends the polling of an item
  (`upload-queue.ts:71-72`).
- `min_interval_s` spaces the starts of questions by the lock they queue on; after a
  long wait for the semaphore several may start in a bunch.
- The backfill of regions parses without OCR (`backfill_chunk_regions.py:33`), ingestion
  with it: what a scanned page has moves the ends of the chunks around it, which are
  then not found again and stay without regions. They never get those of other
  words (`BackfillGivesRegions`).
- Running headers are recognised by their place alone: what stands at one place of
  more than three pages in five is left out, whatever it says.
- A PDF heading without a code keeps the section before it, a DOCX heading without
  one is its own section.
- The percentile interval cuts its lower end off and rounds the upper one.
- `cost_usd_per_query` of the statistics divides the known costs by all questions.
- While the PDF viewer awaits `getPage`, moving on cannot cancel it; the old page is
  then drawn over the new one.
- A stream of the model that ends without `[DONE]` counts as complete.

## 5. What is proved

For every value of the constants that the `ASSUME`s allow, without any bound but
those constants:

- **Ingestion.** Its type, `ReadyIsSearchable`, `DuplicateIsSearchable` and
  `EmbeddingFailedIsChunked` follow from `StoreInv`, which says what the tables hold
  at each label: past `fixed_500` one strategy is stored, past `structural` both,
  and at `storing` everything stored is embedded or in `todo`. That `ready` is stable
  is not needed (it is not); that nothing stored is taken back is. `CreatedOnce` and
  `NoOrphans` follow from `OwnInv`: a row in flight that no fault touched has an
  owner, because a caller's `view` only lags behind the row (`ViewsLag`).
  `IngestionImplementsIndex` shows step by step that `Ingestion` refines `DocumentIndex`;
  a `Flush` may take a document out of `announced`, never put one in unless all its
  chunks are embedded.
- **RateLimit.** All five properties follow from `IInv`: for each key the queue is a
  suffix of what was admitted, what is missing from it has expired, admissions are
  in order and `limit` apart by a window, and a promise is no earlier than the
  expiry of the hit it was computed from. Sweep, pop and append each have a lemma
  that says they keep this.
- **UploadQueue.** `PageInv` relates every item to its call and its reply;
  `ItemsAreSearchable` needs that what a reply said stays true while it travels, which
  is had from the refinement: a searchable document stays searchable because
  `DocumentIndex` never takes back what was stored (`SearchableStays`). `ItemsAreFollowed`
  and `FinishedStaysFinal` follow from the same invariant.
- **TenantSessions.** `TenantsStayApart` and `PoolStaysClean` by one invariant: the
  settings of a connection follow from where the session that holds it stands
  (`Entered`), and one that nobody holds has none.

- **Answering.** Requests meet only in the cap, so the invariant is one of each request
  (`Local`) and one of the cap. `Local` reads off the generator's place which event is
  the latest on its way (`Latest`), what is logged, how many tokens are in flight
  (`Counted`) and who may still be working (`Working`). From it follow
  `ResponsesEndWithOutcome`, `AnswersAreComplete` and `NobodyIsServedInVain`, and with it
  each step is a step of `AnswerProtocol` or none (`AnsweringImplementsProtocol`). `CapIsSoft`
  counts today's rows together with the requests at work: only `Ask` adds to them, and
  it raises `peak`, or the cap is not reached.
- **ChatSession.** `ShownIsCurrent`, `StatusTrue` and `FinishedStaysFinished` need that a visit's
  controller belongs to it (`Owned`), that a waiting page has a live one (`Waiting`) and
  that a live request that is not aborted is its visit's controller (`Running`); then a
  late event of any other request is not current and is ignored. `RefusedSessionsAreOver`
  needs only that logins are numbered in the order they are made.
- **Evaluation.** `Inv` says that what is held, written and about to be written are runs
  of exactly the questions asked. `ErrorsRetried` follows from it alone.
  `DoneReportsAreWhole` needs `SetsAreToldApart` besides, the hypothesis that no two
  question sets have the same ids: that is what the code's look at a report assumes, and
  without it the theorem is false. `CrashesCostAtMostTwo` keeps accounts (`Cost`): the answers lost
  and the debt of an unended last line (two if it is whole, one if not) never exceed
  two per crash; an append pays the debt (`AppendCosts`), and only a crash makes one. Only
  the last line of a checkpoint can be cut inside a character (`CutLast`, `Cuts`): nothing is
  appended after it, since no run gets past reading it. The accounts are of the
  checkpoint with that line removed, which is what the theorem says of such a kill.
  `FilesAssumption` says that a missing or torn file is not a report, which TLC
  evaluates like the other assumptions.

- **Search, clients, streams and requests** (`AlgorithmsProofs`). `SearchSound`,
  `ClientsBounded` and `RequestsConfined` are the invariants TLC checks on `MCAlgorithms`'
  inputs, for inputs of any size. Each rests on theorems about the operators alone:
  - *Folds.* The model computes along sequences with folds of the community modules,
    which are functions on subsets of positions chosen by a recursive definition. That
    such a function exists is an induction (`IterationExists`), as is what it
    preserves. The library's induction theorems take an operator as a parameter and
    cannot be used; `InductionUpTo` and `FiniteInduction` say the same of a set, from the
    well-foundedness of `<` (`WFMin`). So every fold has a *trace*, what it has after
    each element (`CompleteTrace`, `SplitTrace`, ...), and a property of the fold is an
    induction along its trace.
  - *Fusion.* `StableBest` is a permutation that keeps what is ahead ahead: entries are
    counted, and no two have the same number ahead of them (`StableBestIs`). A score is a sum of
    quotients of one common multiple (`PartsAre`, `CommonMultipleIs`), so whoever is ahead in
    every ranking that found the other has at least its sum (`LeadersScore`), and if the
    sums are the same appears first (`LeadersAppearFirst`): `AgreementIsRewarded`, for any
    number of rankings and any weights, zero included.
  - *Branches.* Extending a list by what it has not yet keeps it and repeats nothing
    (`ExtendedIs`), and a longer extension only adds at the end (`ExtendedGrows`). With
    that each mode fills the budget (`BudgetIsTheSame`) and a larger `k` adds at the end
    (`LargerAddsAtTheEnd`).
  - *Reranking and context.* `CacheDoesNotShow` compares the scores the two rank by.
    `ContextIsFilledGreedily` follows what is chosen after each chunk (`SelectTrace`,
    `TurnKeeps`): whatever is left out had a twin chosen before it, did not fit, or came
    after something that did not.
  - *Calls.* `AttemptIs` says what one attempt costs and when there is another;
    `CompletionIsBounded` sums that up over the trace. `StreamEnds` needs `InTime`: no
    line but a delta puts the deadline off.
  - *readSse.* `FramesOfText` compares any cut with the reading piece by piece
    (`PieceByPiece`). A CR at the end of a chunk is held back, so that after k pieces the
    reader is where the piecewise one was before that CR (`View`), and a chunk takes it
    from one view to a later one (`ChunkMovesOn`). No line of data is in two frames, since
    what the reader holds and has delivered never exceeds what came (`DataIsReadOnce`).
  - *embed_missing.* A batch keeps what is there and adds at least one vector
    (`BatchIs`); stopping after m batches and doing n more is the same trace as doing
    m + n (`ResumesWhereItWas`).
  - *Tables.* `CountedByKey`: counting a finite set by a key of its elements counts
    each once. The list's counts and the statistics' buckets are two uses of it. A chunk's
    document and neighbours, looked up without the tenant, are the tenant's because of
    the keys (`OthersDoNotCount`). That
    the newest questions are well defined is `NewestExists`, by `FiniteInduction`.

  Their assumptions are the kinds of the inputs (TLC evaluates them): `SearchesAreTyped`,
  where a branch finds each chunk once (a query of one table, ordered and limited) and
  weights and limits are natural numbers (the code's weights are floats; a common factor
  makes any rational ones natural and leaves the order as it is); `CallsAreAnswered`,
  the server's answers are at least one more than the retries, whatever they are;
  `StreamsAreTyped`; and `RequestsAreTyped`, where a database keeps the keys of its schema
  (`Database`: an id is of one document, a chunk belongs to a document), and a chunk
  has the tenant of its document, which ingestion writes and no key enforces.

- **Answers** (`AnswersProofs`, on the lemmas above). `AnswersSound` is `AnswersAreSound`
  for a text, a context and a list of sources of any length:
  - *Selections.* Whatever takes elements out of a list is `At`, the list at some places
    in their order. `InOrder` is the only map that ascends through a finite set of
    numbers (`InOrderAscends`, `OnlyInOrderAscends`), so a selection of a selection is
    one selection (`AtOfAt`), and neighbours that are all taken stay neighbours
    (`RunIsKept`).
  - *Markers.* Markers do not overlap (`MatchesAreApart`). Stripping a name takes out
    marks only (`ProseKept`) and leaves every other marker (`KeptMatch`, `StripKeeps`).
    It may make a new one of a marker that stood inside another (the code strips once),
    and only then: this is `Nested`, and where there is none before there is none after
    (`NestedIs`, `NoHole`). `StrippedOfAll` goes along the
    names, `MarkersResolve` over the whole check.
  - *Pieces.* After each chip, what is shown is the text up to its end (`ShowsUpTo`,
    `OnePieceMore`), so that at the end it is the text (`TextIsShownWhole`).
  - *Conflicts.* The labels of a code are its versions, each once (`LabelsAre`), since
    `Distinct` loses and repeats nothing.

  `AnswersAreTyped` gives the kinds of those inputs.

- **Numbers** (`AnswersProofs`, too). `NumbersSound` is `NumbersAreSound` for reports, tables
  and comparisons of any size:
  - *Totals.* A total is a fold over a finite set. `TotalAdds` says that it is the sum,
    one element at a time; the rest (a total is monotone, splits over a partition, does
    not depend on names or order, vanishes only if all of it does) is `FiniteInduction`
    on that. A mean is a total over a count (`MeanIs`), so that a rate compares with
    another one by comparing sets: `GoldBearingIs`, `RanIs`, `CitedIs` say which.
  - *Order.* `Ascending` is sorted, and the only sorted rearrangement there is
    (`AscendingSorts`, `SortedGrows`, `SameInOrder`). A percentile lies between two of
    its elements (`PercentileIs`), so that a greater one is no less (`PercentilesGrow`),
    it does not depend on the order the latencies were measured in, and the total time
    is no less than its phases (`LatenciesOrdered`).
  - *Comparison.* The pairs are the questions both know, whichever of the two lists
    they are read from (`CommonIs`, `DiffsAre`), so that changing the sides negates the
    difference and every resample (`NegatedSamples`). The interval cuts its lower
    end off and rounds the upper one, half to even (`IntervalPlaces`): it has few samples
    outside (`IntervalEncloses`), and an interval above zero stays on one side of zero when
    negated, though its ends are not those of the other (`NegatedInterval`).
  - *Winners.* Rates are compared by cross-multiplication, which is an order on fractions
    with positive denominators (`BeatsIs`); so there is a best of finitely many
    (`BestExists`), and the winners of a column are those nobody beats (`BestIs`).
  - *Tables.* Every column is about the questions of its configuration (`RowsAre`,
    `ColumnsAreWon`), and the categories' counts add up to those of all
    (`CategoriesSplit`, `CategoriesSum`), in the table and in the chart.
  - *Raters.* Expected agreement is a sum of products of counts that never exceeds the
    square of all (`ChanceIs`) and reaches it only if both always say one thing
    (`BeyondChance`).

  `MeasuresAreTyped` gives the kinds of those inputs: a report has one run and one score
  of each question (ids are unique by the loader), no phase takes longer than the whole
  (the runner times them within it), outcomes are in the order of the question set, and
  raters have rated the same answers. That questions and compared outcomes are of one
  category, and those of tables of two, is what the properties' inputs vary, not what
  the code needs. `ScaleIsPositive` is about `Scale`.

- **Chunks** (`AnswersProofs`). `ChunksSound` is `ChunksAreSound`, a part of
  `IndexIsSound`, for documents of any length and any floor, ceiling, window and overlap:
  - *Slices.* Everything the chunker has is a slice of the document's words: a block's
    words, a section's, a chunk's. Slices next to each other join (`SlicesJoin`), a slice of a
    slice is one (`SliceOfSlice`), and flattening and slicing undo each other
    (`FlattenIsSliced`, `SlicesFlatten`). So what is claimed of words is arithmetic on
    the places where slices end.
  - *Windows.* They start one step apart and the last alone reaches the end
    (`WindowsAre`); the step is from one word to a whole window (`StepIs`), so two
    neighbours share what the window is longer than the step (`WindowsCover`).
  - *Sections.* Three folds, each with the trace of its first k elements: grouping
    (`Covers`: the sections have the words so far), merging (`Merging`: what is merged
    and what waits have them, and nothing merged is below the floor) and cutting
    (`Chunked`: the chunks have them, a later piece points to the first one of its
    section). The section that is left over is the last one (`Floored`, `Heads`).
  - *Pages.* The least and the greatest page of a chunk are those of its first and last
    word because the words are in page order (`DocumentIsPaged`), and that holds because
    the blocks are.
  - *Rows.* A row is stored for the first chunk of each content (`InsertedAre`). The
    backfill, over any emptied rows and with the chunks of any other parse, has after k
    of them given each row the regions of the first with its content, if there is one
    (`FilledUpTo`, `PlacesNext`); if the parses agree, that chunk is the one the row was
    stored for (`FilledAsStored`).

  `DocumentsAreTyped` gives the kinds of documents, in both parses: blocks in the order of their pages,
  as both parsers return them (`PagesSound` proves it of PDFs, a DOCX has one page), a
  floor not above the ceiling (100 and 800 in the code) and an overlap that is a
  percentage.

- **Pages** (`AnswersProofs`). `PagesSound` is `PagesAreSound`, another part of
  `IndexIsSound`, for PDFs of any number of pages, with any texts, tables and OCR readings:
  - *One page.* What is taken of it are the blocks of its texts that no table covers and
    of its tables with a row, or those of OCR (`TextBlocksAre`, `TableBlocksAre`, `LayerIs`);
    sorting by the top edge loses none and changes no length (`ByTopIs`), so what OCR is
    compared with is what is kept (`OcrAdds`).
  - *All pages.* Put together they are in order because each block has its page's number
    (`PagesAreRead`). `FilterIs` leaves out what repeats and keeps the order; titles and
    paths change nothing else (`PathsAre`). `ParsedFrom` joins the three.
  - *What is missing.* A block has its source on its page at the same place
    (`BlockIsOnPage`), so the pages that blocks at a place come from are some of those
    that have something there: a text that is missing stands at a place of many pages
    (`MissingRepeats`), and one that stands there on all pages is missing
    (`HeadersAreLeftOut`).

  `PagesAreTyped` says what PyMuPDF and OCR return: texts and tables with boxes. The
  headings and section paths are in no conjunct of `PagesAreSound`; `FormatsAgree` is
  about them.

The types (`TypeCorrect`, `PageTypeCorrect`) are proved of the seven modules with
state and no longer model-checked. Only model-checked: liveness (`Settles`, `ItemsFinish`,
`GoneClientStopsWork`, `EveryQuestionIsAnswered`, `EveryRequestEnds`, `WaitingEnds`,
`EventuallyDone`), which the prover's backends do not handle under fairness, and
the rest of `IndexIsSound`, which is about the two formats and normalisation
(`FormatsAgree`, `SpellingsAgree`, `NormalizationSettles`, `CodesAreIndexed`). No module
uses a recursive operator.

## 6. What is left out

Inside the modelled parts: `page_count` and versions of a document; the temporary file
that is parsed; what `inspect_upload` looks at; the wording of prompts and answers;
metrics and traces; a reranking that is in its thread already and cannot be stopped;
worker threads that a timed-out parser keeps; the panel's byte progress and its
`changed` event; the loss of a pooled connection; `min_interval_s` of the evaluation,
which only delays; several configurations in a row, which share no file. Requests
without a rate limit rule are no step of `RateLimit`. Parent links, regions and
`embed_missing` are in `Chunking` and `ModelClients`, as results and not as steps of
`Ingestion`.

Whole components:

- Document storage: a save returns for a file that is there, else writes aside and
  moves. What is left to check is `os.replace`.
- The cross-encoder, the local embedder, pdfplumber, python-docx, Tesseract, pdf.js
  and the SQL ranking are libraries or the database: any result they may have is an
  input or a choice.
- Logging, metrics and traces decide nothing. The pages besides chat and upload, and
  the PDF viewer, render what they get.
- Migrations, seed data and deployment are run by hand or by the build. The policies
  of 0004 are in `TenantSessions`.

## 7. Plan

Done: everything in section 2. What would come next:

1. `DocumentStorage` and the executor's threads beside `Ingestion`: concurrent saves of
   one file, and how many timed-out parsers it takes to stop the others.
2. `embed_missing` and the region backfill as processes beside `Ingestion`.
3. The PDF viewer's drawing, if a model of what pdf.js promises for one canvas is found.
4. `ChatSession` on top of `AnswerProtocol` as `UploadQueue` is on top of `Ingestion`, so that what
   a page shows is related to what was logged.
5. Proofs of what is left of `IndexIsSound`: an induction over the matches of one pattern
   for the normal form, and a comparison of two sorted lists of blocks for the formats.
