---------------------------- MODULE ModelClients ----------------------------
(***************************************************************************)
(* The calls to the models' servers: complete and stream of                *)
(* adapters/llm/openai_compatible.py with their retries and deadlines, and *)
(* the retries of adapters/embedding/gemini.py.                            *)
(*                                                                         *)
(* What a server does is a sequence of outcomes; a call is a fold over it  *)
(* that counts attempts and time.  limit holds the settings.               *)
(***************************************************************************)
EXTENDS Integers, Sequences, FiniteSets, SequencesExt

(* _is_transient.  "read" is a connection that breaks within a response,   *)
(* "4xx" any client error but 429.                                         *)
Transient == {"429", "5xx", "timeout", "connect", "protocol"}

ErrorOf(kind) ==
  CASE kind = "timeout" -> "llm_timeout"
    [] kind = "bad_json" -> "untyped"
    [] OTHER -> "llm_unavailable"

(* An attempt that outruns call_deadline is a timeout. *)
KindOf(limit, r) == IF r.took > limit.deadline THEN "timeout" ELSE r.kind

(* The settings of a completion and what an attempt meets. *)
CompletionLimit == [deadline : Nat, retries : Nat, retryAfter : Nat, backoff : Nat]
CompletionResponse == [kind : STRING, took : Nat, after : Int]

Backoff(n, cap) == Min({2 ^ (n - 1), cap})

(* after is the Retry-After of a 429 in the same unit, -1 without a usable one. *)
Wait(limit, kind, after, attempt) ==
  IF kind = "429" /\ after >= 0 THEN Min({after, limit.retryAfter})
  ELSE Backoff(attempt, limit.backoff)

Attempt(limit, acc, r) ==
  LET kind == KindOf(limit, r)
      attempts == acc.attempts + 1
      elapsed == acc.elapsed + Min({r.took, limit.deadline})
  IN IF acc.result # "trying" THEN acc
     ELSE IF kind \in Transient /\ attempts <= limit.retries
     THEN [result |-> "trying", attempts |-> attempts,
           elapsed |-> elapsed + Wait(limit, kind, r.after, attempts)]
     ELSE [result |-> IF kind = "ok" THEN "ok" ELSE ErrorOf(kind),
           attempts |-> attempts, elapsed |-> elapsed]

(* complete, of a server that would answer the attempts so. *)
Complete(limit, responses) ==
  FoldLeft(LAMBDA acc, r : Attempt(limit, acc, r),
           [result |-> "trying", attempts |-> 0, elapsed |-> 0], responses)

-----------------------------------------------------------------------------
(* stream: after the headers, lines that come after so many ticks.  due is *)
(* the time left to the next delta; httpx's own timeout bounds each read.  *)
StreamLimit == [first : Nat, idle : Nat, read : Nat]
LineKinds == {"headers", "keepalive", "delta", "done", "end", "broken", "bad_json"}
StreamLine == [kind : LineKinds, after : Nat]

NextLine(limit, acc, line) ==
  LET wait == Min({acc.due, limit.read})
      late == line.after > wait
      spent == acc.elapsed + Min({line.after, wait})
      next == [acc EXCEPT !.elapsed = spent, !.due = @ - line.after]
  IN IF acc.result # "open" THEN acc
     ELSE IF late THEN [acc EXCEPT !.result = "llm_timeout", !.elapsed = spent]
     ELSE CASE line.kind = "delta" ->
                 [next EXCEPT !.due = limit.idle, !.deltas = Append(@, spent)]
            [] line.kind \in {"keepalive", "headers"} -> next
            [] line.kind \in {"done", "end"} -> [next EXCEPT !.result = "complete"]
            [] line.kind = "broken" -> [next EXCEPT !.result = "llm_unavailable"]
            [] line.kind = "bad_json" -> [next EXCEPT !.result = "untyped"]

(* After the last line of the sequence the server is silent. *)
Stream(limit, lines) ==
  LET all == FoldLeft(LAMBDA acc, l : NextLine(limit, acc, l),
                      [result |-> "open", elapsed |-> 0, due |-> limit.first, deltas |-> <<>>],
                      lines)
  IN IF all.result # "open" THEN all
     ELSE [all EXCEPT !.result = "llm_timeout",
                      !.elapsed = @ + Min({all.due, limit.read})]

-----------------------------------------------------------------------------
(* The embedder: only statuses are retried, an exception is not; every     *)
(* batch of texts is one such call.                                        *)
PostLimit == [retries : Nat, retryAfter : Nat]
PostResponse == [kind : STRING, took : Nat, after : Int]
Retryable == {"429", "5xx"}

WaitSeconds(after, cap, attempt) == IF after >= 0 THEN Min({after, cap}) ELSE 2 ^ attempt

Post(limit, acc, r) ==
  IF acc.result # "trying" THEN acc
  ELSE IF r.kind \in Retryable /\ acc.attempts < limit.retries
  THEN [result |-> "trying", attempts |-> acc.attempts + 1,
        elapsed |-> acc.elapsed + r.took + WaitSeconds(r.after, limit.retryAfter, acc.attempts + 1)]
  ELSE [result |-> IF r.kind = "ok" THEN "ok" ELSE "failed",
        attempts |-> acc.attempts + 1, elapsed |-> acc.elapsed + r.took]

PostAll(limit, responses) ==
  FoldLeft(LAMBDA acc, r : Post(limit, acc, r),
           [result |-> "trying", attempts |-> 0, elapsed |-> 0], responses)

BatchesOf(texts, batch) ==
  [b \in 1 .. (Len(texts) + batch - 1) \div batch |->
    SubSeq(texts, (b - 1) * batch + 1, Min({b * batch, Len(texts)}))]

(* _embed: the vectors of the texts, batch by batch. *)
Embed(texts, batch, vector) ==
  LET parts == BatchesOf(texts, batch)
  IN FlattenSeq([b \in DOMAIN parts |-> [i \in DOMAIN parts[b] |-> vector[parts[b][i]]]])

(* embed_missing.py, ended after so many batches: each takes the first of  *)
(* the chunks that have no vector yet and commits theirs.  ids are the     *)
(* chunks in the order of the query, vectors a function of those that have *)
(* one.                                                                    *)
WithoutVector(ids, vectors) ==
  FoldLeft(LAMBDA q, id : IF id \in DOMAIN vectors THEN q ELSE Append(q, id), <<>>, ids)

EmbedBatch(ids, vectors, batch, vector) ==
  LET missing == WithoutVector(ids, vectors)
      taken == SubSeq(missing, 1, Min({batch, Len(missing)}))
      computed == Embed(taken, batch, vector)
  IN [id \in DOMAIN vectors \cup ToSet(taken) |->
       IF id \in DOMAIN vectors THEN vectors[id]
       ELSE computed[CHOOSE i \in DOMAIN taken : taken[i] = id]]

EmbedMissing(ids, vectors, batch, vector, batches) ==
  FoldLeft(LAMBDA acc, b : EmbedBatch(ids, acc, batch, vector), vectors,
           [b \in 1..batches |-> b])
=============================================================================
