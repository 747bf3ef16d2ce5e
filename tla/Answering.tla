----------------------------- MODULE Answering -----------------------------
(***************************************************************************)
(* How a question is answered (services/generation.py, api/v1/chat.py,     *)
(* core/streaming.py, services/budget.py).                                 *)
(*                                                                         *)
(* A streamed answer is the work of three coroutines: the generator        *)
(* generate_answer_stream, which runs only while somebody awaits its next  *)
(* event; its retrieval, a task of its own; and the consumer, that is the  *)
(* response body sse() around with_heartbeat, which hands every event to   *)
(* the client.  The daily cap couples all requests through query_logs.     *)
(***************************************************************************)
EXTENDS Naturals, FiniteSets

CONSTANTS
  Streams,     \* requests to POST /chat/stream
  Plain,       \* requests to POST /chat
  DailyLimit,  \* settings.daily_question_limit; 0 is no cap
  MaxTokens,   \* bound on the deltas of one answer
  MaxDays,     \* bound on midnights
  MaxCrashes   \* bound on crashes of the server

ASSUME AnsweringAssumption ==
  /\ Streams \cap Plain = {}
  /\ IsFiniteSet(Streams \cup Plain)
  /\ DailyLimit \in Nat /\ MaxTokens \in Nat /\ MaxDays \in Nat /\ MaxCrashes \in Nat

Requests == Streams \cup Plain

VARIABLES
  gen,        \* gen[r]: where the generator (or generate_answer) stands
  prep,       \* prep[r]: where _prepare stands
  reranking,  \* reranking[r]: the asyncio.Event set when reranking starts
  llm,        \* llm[r]: the model's response, "none", "open" or "closed"
  slot,       \* slot[r]: the event the generator yielded, not yet collected
  consumer,   \* consumer[r]: where sse() and with_heartbeat stand
  holding,    \* holding[r]: the event sse() has in hand
  connected,  \* connected[r]: the client is still there
  last,       \* last[r]: the last event the client received
  tokens,     \* tokens[r]: deltas the model produced
  got,        \* got[r]: tokens the client received
  rows,       \* the requests with a query_logs row
  today,      \* those of them written since midnight
  peak,       \* the most requests ever at work at once
  days,       \* midnights so far
  crashes     \* crashes so far

generator == <<gen, prep, reranking, llm, slot, tokens>>
delivery == <<consumer, holding, connected, last, got>>
counters == <<peak, days, crashes>>
vars == <<generator, delivery, rows, today, counters>>

Stages == {"retrieving", "reranking", "generating"}
Terminal == {"done", "error"}
Events == Stages \cup {"sources", "token"} \cup Terminal

(* The labels of the generator, then those of generate_answer. *)
Preparing == {"waiting_rerank", "awaiting_prep"}
Logging == {"logging_abstention", "logging"}
StreamLabels == {"start", "prepare", "sources_next", "calling", "streaming",
                 "abstention_token", "abstention_done"} \cup Preparing \cup Logging
PlainLabels == {"plain_prepare", "plain_call", "plain_waiting", "plain_logging"}
Labels == {"idle", "end"} \cup StreamLabels \cup PlainLabels

Running == {"retrieving", "reranking"}

(* The consumer's labels while the response is under way. *)
Open == {"waiting", "checking", "sending"}

Init ==
  /\ gen = [r \in Requests |-> "idle"]
  /\ prep = [r \in Requests |-> "none"]
  /\ reranking = [r \in Requests |-> FALSE]
  /\ llm = [r \in Requests |-> "none"]
  /\ slot = [r \in Requests |-> "none"]
  /\ consumer = [r \in Requests |-> "idle"]
  /\ holding = [r \in Requests |-> "none"]
  /\ connected = [r \in Requests |-> TRUE]
  /\ last = [r \in Requests |-> "none"]
  /\ tokens = [r \in Requests |-> 0]
  /\ got = [r \in Requests |-> 0]
  /\ rows = {}
  /\ today = {}
  /\ peak = 0
  /\ days = 0
  /\ crashes = 0

(* A request that passed the cap and whose response is not complete. *)
AtWork == {r \in Requests : consumer[r] \in Open}

-----------------------------------------------------------------------------
(* The daily cap: ensure_daily_budget before the handler runs. *)

(* Mutant: one question too many. *)
WithinBudgetOrAtIt == DailyLimit = 0 \/ Cardinality(today) <= DailyLimit

WithinBudget == DailyLimit = 0 \/ Cardinality(today) < DailyLimit

OverBudget(r) ==
  /\ consumer[r] = "idle"
  /\ ~ WithinBudget
  /\ consumer' = [consumer EXCEPT ![r] = "refused"]
  /\ UNCHANGED <<generator, holding, connected, last, got, rows, today, counters>>

Ask(r) ==
  /\ consumer[r] = "idle"
  /\ WithinBudget
  /\ consumer' = [consumer EXCEPT ![r] = "waiting"]
  /\ gen' = [gen EXCEPT ![r] = IF r \in Streams THEN "start" ELSE "plain_prepare"]
  /\ prep' = [prep EXCEPT ![r] = IF r \in Streams THEN @ ELSE "retrieving"]
  /\ peak' = IF Cardinality(AtWork) + 1 > peak THEN Cardinality(AtWork) + 1 ELSE peak
  /\ UNCHANGED <<reranking, llm, slot, tokens, holding, connected, last, got,
                 rows, today, days, crashes>>

-----------------------------------------------------------------------------
(* The generator.  It runs only while with_heartbeat has a pending          *)
(* __anext__: from the moment the consumer waits until it collects what was *)
(* yielded, heartbeats included.                                            *)

Pending(r) == slot[r] = "none" /\ (consumer[r] = "waiting" \/ holding[r] = "heartbeat")

Runs(r, from) == r \in Streams /\ Pending(r) /\ gen[r] = from

(* Run up to the next yield, or only to the next await. *)
Yield(r, event, to) ==
  /\ slot' = [slot EXCEPT ![r] = event]
  /\ gen' = [gen EXCEPT ![r] = to]

Await(r, to) ==
  /\ gen' = [gen EXCEPT ![r] = to]
  /\ UNCHANGED slot

Begin(r) ==
  /\ Runs(r, "start")
  /\ Yield(r, "retrieving", "prepare")
  /\ UNCHANGED <<prep, reranking, llm, tokens, delivery, rows, today, counters>>

StartPreparing(r) ==
  /\ Runs(r, "prepare")
  /\ prep' = [prep EXCEPT ![r] = "retrieving"]
  /\ Await(r, "waiting_rerank")
  /\ UNCHANGED <<reranking, llm, tokens, delivery, rows, today, counters>>

(* asyncio.wait returns: reranking has begun or _prepare is over. *)
ReportRerank(r) ==
  /\ Runs(r, "waiting_rerank")
  /\ reranking[r] \/ prep[r] \notin Running
  /\ IF reranking[r] THEN Yield(r, "reranking", "awaiting_prep") ELSE Await(r, "awaiting_prep")
  /\ UNCHANGED <<prep, reranking, llm, tokens, delivery, rows, today, counters>>

(* Mutant: only failures of the model become error events. *)
PreparedOrStuck(r) ==
  /\ Runs(r, "awaiting_prep")
  /\ \/ prep[r] = "answerable" /\ Yield(r, "sources", "sources_next")
     \/ prep[r] = "weak" /\ Await(r, "logging_abstention")
  /\ UNCHANGED <<prep, reranking, llm, tokens, delivery, rows, today, counters>>

(* await preparing: its result, or its exception as an error event. *)
Prepared(r) ==
  /\ Runs(r, "awaiting_prep")
  /\ \/ prep[r] = "answerable" /\ Yield(r, "sources", "sources_next")
     \/ prep[r] = "weak" /\ Await(r, "logging_abstention")
     \/ prep[r] = "failed" /\ Yield(r, "error", "end")
  /\ UNCHANGED <<prep, reranking, llm, tokens, delivery, rows, today, counters>>

(* _log_query commits, or its exception becomes an error event. *)
Log(r) ==
  /\ rows' = rows \cup {r}
  /\ today' = today \cup {r}

NoLog == UNCHANGED <<rows, today>>

Abstain(r) ==
  /\ Runs(r, "logging_abstention")
  /\ \/ Log(r) /\ Yield(r, "sources", "abstention_token")
     \/ NoLog /\ Yield(r, "error", "end")
  /\ UNCHANGED <<prep, reranking, llm, tokens, delivery, counters>>

AbstentionToken(r) ==
  /\ Runs(r, "abstention_token")
  /\ Yield(r, "token", "abstention_done")
  /\ tokens' = [tokens EXCEPT ![r] = @ + 1]
  /\ UNCHANGED <<prep, reranking, llm, delivery, rows, today, counters>>

AbstentionDone(r) ==
  /\ Runs(r, "abstention_done")
  /\ Yield(r, "done", "end")
  /\ UNCHANGED <<prep, reranking, llm, tokens, delivery, rows, today, counters>>

ReportGenerating(r) ==
  /\ Runs(r, "sources_next")
  /\ Yield(r, "generating", "calling")
  /\ UNCHANGED <<prep, reranking, llm, tokens, delivery, rows, today, counters>>

Call(r) ==
  /\ Runs(r, "calling")
  /\ llm' = [llm EXCEPT ![r] = "open"]
  /\ Await(r, "streaming")
  /\ UNCHANGED <<prep, reranking, tokens, delivery, rows, today, counters>>

Token(r) ==
  /\ Runs(r, "streaming")
  /\ tokens[r] < MaxTokens
  /\ tokens' = [tokens EXCEPT ![r] = @ + 1]
  /\ Yield(r, "token", "streaming")
  /\ UNCHANGED <<prep, reranking, llm, delivery, rows, today, counters>>

(* The model's stream ends, or fails by an error or a timeout. *)
EndOfAnswer(r) ==
  /\ Runs(r, "streaming")
  /\ llm' = [llm EXCEPT ![r] = "closed"]
  /\ Await(r, "logging") \/ Yield(r, "error", "end")
  /\ UNCHANGED <<prep, reranking, tokens, delivery, rows, today, counters>>

(* Mutant: a commit that fails is swallowed. *)
LogAnswerIfPossible(r) ==
  /\ Runs(r, "logging")
  /\ Log(r) \/ NoLog
  /\ Yield(r, "done", "end")
  /\ UNCHANGED <<prep, reranking, llm, tokens, delivery, counters>>

LogAnswer(r) ==
  /\ Runs(r, "logging")
  /\ \/ Log(r) /\ Yield(r, "done", "end")
     \/ NoLog /\ Yield(r, "error", "end")
  /\ UNCHANGED <<prep, reranking, llm, tokens, delivery, counters>>

-----------------------------------------------------------------------------
(* _prepare, a task of its own once started. *)

Retrieved(r) ==
  /\ prep[r] = "retrieving"
  /\ prep' = [prep EXCEPT ![r] = "reranking"]
  /\ reranking' = [reranking EXCEPT ![r] = r \in Streams]
  /\ UNCHANGED <<gen, llm, slot, tokens, delivery, rows, today, counters>>

(* The best score reaches the threshold, or it does not. *)
Reranked(r) ==
  /\ prep[r] = "reranking"
  /\ \E result \in {"answerable", "weak"} : prep' = [prep EXCEPT ![r] = result]
  /\ UNCHANGED <<gen, reranking, llm, slot, tokens, delivery, rows, today, counters>>

PrepareFails(r) ==
  /\ prep[r] \in Running
  /\ prep' = [prep EXCEPT ![r] = "failed"]
  /\ UNCHANGED <<gen, reranking, llm, slot, tokens, delivery, rows, today, counters>>

-----------------------------------------------------------------------------
(* The consumer: with_heartbeat and sse(). *)

Collect(r) ==
  /\ consumer[r] = "waiting"
  /\ slot[r] # "none"
  /\ holding' = [holding EXCEPT ![r] = slot[r]]
  /\ slot' = [slot EXCEPT ![r] = "none"]
  /\ consumer' = [consumer EXCEPT ![r] = "checking"]
  /\ UNCHANGED <<gen, prep, reranking, llm, tokens, connected, last, got, rows, today, counters>>

(* Mutant: an event that comes with the timeout is dropped. *)
HeartbeatInstead(r) ==
  /\ r \in Streams
  /\ consumer[r] = "waiting"
  /\ holding' = [holding EXCEPT ![r] = "heartbeat"]
  /\ slot' = [slot EXCEPT ![r] = "none"]
  /\ consumer' = [consumer EXCEPT ![r] = "checking"]
  /\ UNCHANGED <<gen, prep, reranking, llm, tokens, connected, last, got, rows, today, counters>>

(* Mutant: wait_for, which cancels the fetch whose time is up. *)
HeartbeatByWaitFor(r) ==
  /\ r \in Streams
  /\ consumer[r] = "waiting"
  /\ slot[r] = "none"
  /\ holding' = [holding EXCEPT ![r] = "heartbeat"]
  /\ consumer' = [consumer EXCEPT ![r] = "checking"]
  /\ gen' = [gen EXCEPT ![r] = "end"]
  /\ prep' = [prep EXCEPT ![r] = IF @ \in Running THEN "cancelled" ELSE @]
  /\ llm' = [llm EXCEPT ![r] = IF @ = "open" THEN "closed" ELSE @]
  /\ UNCHANGED <<slot, reranking, tokens, connected, last, got, rows, today, counters>>

(* interval seconds without an event. *)
Heartbeat(r) ==
  /\ r \in Streams
  /\ consumer[r] = "waiting"
  /\ slot[r] = "none"
  /\ holding' = [holding EXCEPT ![r] = "heartbeat"]
  /\ consumer' = [consumer EXCEPT ![r] = "checking"]
  /\ UNCHANGED <<generator, connected, last, got, rows, today, counters>>

(* Mutant: the task of the retrieval is left to itself. *)
CloseGeneratorOnly(r) ==
  /\ prep' = prep
  /\ llm' = [llm EXCEPT ![r] = IF gen[r] = "streaming" THEN "closed" ELSE @]
  /\ \/ NoLog
     \/ gen[r] \in Logging /\ Pending(r) /\ Log(r)
  /\ gen' = [gen EXCEPT ![r] = "end"]
  /\ slot' = [slot EXCEPT ![r] = "none"]

(***************************************************************************)
(* events.aclose() and what it cascades to: the pending __anext__ is       *)
(* cancelled, the generator's finally clauses cancel the retrieval or      *)
(* close the model's response.  A commit that is cancelled may have been   *)
(* done already.                                                           *)
(***************************************************************************)
CloseGenerator(r) ==
  /\ prep' = [prep EXCEPT ![r] = IF gen[r] \in Preparing /\ @ \in Running THEN "cancelled" ELSE @]
  /\ llm' = [llm EXCEPT ![r] = IF gen[r] = "streaming" THEN "closed" ELSE @]
  /\ \/ NoLog
     \/ gen[r] \in Logging /\ Pending(r) /\ Log(r)
  /\ gen' = [gen EXCEPT ![r] = "end"]
  /\ slot' = [slot EXCEPT ![r] = "none"]

Close(r) ==
  /\ CloseGenerator(r)
  /\ consumer' = [consumer EXCEPT ![r] = "closed"]
  /\ holding' = [holding EXCEPT ![r] = "none"]
  /\ UNCHANGED <<reranking, tokens, connected, last, got, counters>>

(* Mutant: heartbeats are sent on without looking. *)
CheckEventsOnly(r) ==
  /\ consumer[r] = "checking"
  /\ \/ /\ connected[r] \/ holding[r] = "heartbeat"
        /\ consumer' = [consumer EXCEPT ![r] = "sending"]
        /\ UNCHANGED <<generator, holding, connected, last, got, rows, today, counters>>
     \/ ~ connected[r] /\ holding[r] # "heartbeat" /\ Close(r)

(* request.is_disconnected(), heartbeat or not. *)
Check(r) ==
  /\ consumer[r] = "checking"
  /\ \/ /\ connected[r]
        /\ consumer' = [consumer EXCEPT ![r] = "sending"]
        /\ UNCHANGED <<generator, holding, connected, last, got, rows, today, counters>>
     \/ ~ connected[r] /\ Close(r)

(* What is written to a connection that is gone is lost. *)
Send(r) ==
  LET arrives == connected[r] /\ holding[r] # "heartbeat" IN
  /\ consumer[r] = "sending"
  /\ last' = [last EXCEPT ![r] = IF arrives THEN holding[r] ELSE @]
  /\ got' = [got EXCEPT ![r] = IF arrives /\ holding[r] = "token" THEN @ + 1 ELSE @]
  /\ consumer' = [consumer EXCEPT ![r] = "waiting"]
  /\ holding' = [holding EXCEPT ![r] = "none"]
  /\ UNCHANGED <<generator, connected, rows, today, counters>>

(* The generator returned: so does the response. *)
Finish(r) ==
  /\ consumer[r] = "waiting"
  /\ gen[r] = "end"
  /\ slot[r] = "none"
  /\ consumer' = [consumer EXCEPT ![r] = "finished"]
  /\ UNCHANGED <<generator, holding, connected, last, got, rows, today, counters>>

(* The framework may cancel the response of a client that has gone. *)
Abort(r) ==
  /\ r \in Streams
  /\ consumer[r] \in Open
  /\ ~ connected[r]
  /\ Close(r)

-----------------------------------------------------------------------------
(* generate_answer: the same work without events; its client is answered    *)
(* once, and its going away is not noticed.                                 *)

PlainRuns(r, from) == r \in Plain /\ gen[r] = from /\ consumer[r] = "waiting"

Respond(r, event) ==
  /\ gen' = [gen EXCEPT ![r] = "end"]
  /\ last' = [last EXCEPT ![r] = IF connected[r] THEN event ELSE @]

PlainPrepared(r) ==
  /\ PlainRuns(r, "plain_prepare")
  /\ \/ prep[r] = "answerable" /\ gen' = [gen EXCEPT ![r] = "plain_call"] /\ UNCHANGED last
     \/ prep[r] = "weak" /\ gen' = [gen EXCEPT ![r] = "plain_logging"] /\ UNCHANGED last
     \/ prep[r] = "failed" /\ Respond(r, "error")
  /\ UNCHANGED <<prep, reranking, llm, slot, tokens, consumer, holding, connected, got,
                 rows, today, counters>>

PlainCall(r) ==
  /\ PlainRuns(r, "plain_call")
  /\ gen' = [gen EXCEPT ![r] = "plain_waiting"]
  /\ llm' = [llm EXCEPT ![r] = "open"]
  /\ UNCHANGED <<prep, reranking, slot, tokens, delivery, rows, today, counters>>

PlainCompleted(r) ==
  /\ PlainRuns(r, "plain_waiting")
  /\ llm' = [llm EXCEPT ![r] = "closed"]
  /\ \/ gen' = [gen EXCEPT ![r] = "plain_logging"] /\ UNCHANGED last
     \/ Respond(r, "error")
  /\ UNCHANGED <<prep, reranking, slot, tokens, consumer, holding, connected, got,
                 rows, today, counters>>

PlainLog(r) ==
  /\ PlainRuns(r, "plain_logging")
  /\ \/ Log(r) /\ Respond(r, "done")
     \/ NoLog /\ Respond(r, "error")
  /\ UNCHANGED <<prep, reranking, llm, slot, tokens, consumer, holding, connected, got, counters>>

-----------------------------------------------------------------------------
(* The outside. *)

Disconnect(r) ==
  /\ consumer[r] \in Open
  /\ connected[r]
  /\ connected' = [connected EXCEPT ![r] = FALSE]
  /\ UNCHANGED <<generator, consumer, holding, last, got, rows, today, counters>>

Midnight ==
  /\ days < MaxDays
  /\ days' = days + 1
  /\ today' = {}
  /\ UNCHANGED <<generator, delivery, rows, peak, crashes>>

(* The process dies with all its requests; query_logs stays. *)
Crash ==
  /\ crashes < MaxCrashes
  /\ crashes' = crashes + 1
  /\ gen' = [r \in Requests |-> IF r \in AtWork THEN "end" ELSE gen[r]]
  /\ prep' = [r \in Requests |-> IF prep[r] \in Running THEN "cancelled" ELSE prep[r]]
  /\ llm' = [r \in Requests |-> IF llm[r] = "open" THEN "closed" ELSE llm[r]]
  /\ slot' = [r \in Requests |-> "none"]
  /\ consumer' = [r \in Requests |-> IF r \in AtWork THEN "closed" ELSE consumer[r]]
  /\ holding' = [r \in Requests |-> "none"]
  /\ connected' = [r \in Requests |-> connected[r] /\ r \notin AtWork]
  /\ UNCHANGED <<reranking, tokens, last, got, rows, today, peak, days>>

-----------------------------------------------------------------------------
Generate(r) ==
  \/ Begin(r) \/ StartPreparing(r) \/ ReportRerank(r) \/ Prepared(r)
  \/ Abstain(r) \/ AbstentionToken(r) \/ AbstentionDone(r)
  \/ ReportGenerating(r) \/ Call(r) \/ Token(r) \/ EndOfAnswer(r) \/ LogAnswer(r)

Prepare(r) == Retrieved(r) \/ Reranked(r) \/ PrepareFails(r)

Consume(r) == Collect(r) \/ Heartbeat(r) \/ Check(r) \/ Send(r) \/ Finish(r)

AnswerAtOnce(r) == PlainPrepared(r) \/ PlainCall(r) \/ PlainCompleted(r) \/ PlainLog(r)

Next ==
  \/ \E r \in Requests :
       OverBudget(r) \/ Ask(r) \/ Generate(r) \/ Prepare(r) \/ Consume(r) \/ Abort(r)
       \/ AnswerAtOnce(r) \/ Disconnect(r)
  \/ Midnight
  \/ Crash

Spec == Init /\ [][Next]_vars

(***************************************************************************)
(* The event loop always gets round to the consumer, and a heartbeat is    *)
(* due after 15 seconds.  That much holds even if retrieval and the model  *)
(* hang; both have timeouts, though: WorkFairness.                          *)
(***************************************************************************)
ConsumerFairness == \A r \in Requests : WF_vars(Consume(r))

WorkFairness ==
  /\ \A r \in Streams : WF_vars(Generate(r))
  /\ \A r \in Requests : WF_vars(Prepare(r))
  /\ \A r \in Plain : WF_vars(AnswerAtOnce(r))

FairSpec == Spec /\ ConsumerFairness

-----------------------------------------------------------------------------
(* Every variable has its type. *)
TypeOK ==
  /\ gen \in [Requests -> Labels]
  /\ prep \in [Requests -> Running \cup {"none", "answerable", "weak", "failed", "cancelled"}]
  /\ reranking \in [Requests -> BOOLEAN]
  /\ llm \in [Requests -> {"none", "open", "closed"}]
  /\ slot \in [Requests -> Events \cup {"none"}]
  /\ consumer \in [Requests -> Open \cup {"idle", "refused", "closed", "finished"}]
  /\ holding \in [Requests -> Events \cup {"none", "heartbeat"}]
  /\ connected \in [Requests -> BOOLEAN]
  /\ last \in [Requests -> Events \cup {"none"}]
  /\ tokens \in [Requests -> Nat]
  /\ got \in [Requests -> Nat]
  /\ rows \subseteq Requests
  /\ today \subseteq rows
  /\ peak \in Nat
  /\ days \in 0 .. MaxDays
  /\ crashes \in 0 .. MaxCrashes

(* "An SSE client must never see a silently dead connection": a response    *)
(* that is over, to a client that is still there, ended with done or error. *)
EndsWithOutcome ==
  \A r \in Requests : consumer[r] = "finished" /\ connected[r] => last[r] \in Terminal

(* The draft the client put together is the answer that was generated and   *)
(* logged: no token is lost to a heartbeat.                                 *)
DoneIsComplete ==
  \A r \in Streams : last[r] = "done" => got[r] = tokens[r]

(* Once a stream's response is over, for whatever reason, neither its       *)
(* retrieval nor the model works on for nobody (a reranking that is in its  *)
(* thread already cannot be stopped; nobody waits for it any more).         *)
NothingRunsForNobody ==
  \A r \in Streams :
    consumer[r] \in {"closed", "finished"} => prep[r] \notin Running /\ llm[r] # "open"

(* The cap is soft: only requests that were at work at the same time can    *)
(* overshoot it, and never by more than there were.                         *)
SoftCap ==
  DailyLimit > 0 /\ today # {} => Cardinality(today) < DailyLimit + peak

(* A client that has gone is noticed at the next heartbeat at the latest,   *)
(* even if neither the retrieval nor the model ever says another word.      *)
GoneClientStopsWork ==
  \A r \in Streams :
    (consumer[r] \in Open /\ ~ connected[r]) ~>
      (consumer[r] \notin Open /\ prep[r] \notin Running /\ llm[r] # "open")

(* Every question that was let in is answered with done or error, unless    *)
(* its client goes away, if what it waits for does not hang.                *)
EveryQuestionIsAnswered ==
  WorkFairness =>
    \A r \in Requests :
      (consumer[r] \in Open) ~> (last[r] \in Terminal \/ ~ connected[r])

Protocol == INSTANCE AnswerProtocol WITH logged <- rows

(* What the clients see, and what is logged, is what AnswerProtocol allows. *)
ImplementsProtocol == Protocol!Spec
=============================================================================
