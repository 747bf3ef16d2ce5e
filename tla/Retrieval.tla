------------------------------ MODULE Retrieval ------------------------------
(***************************************************************************)
(* What a question is answered from: the rankings of the three search      *)
(* branches, Reciprocal Rank Fusion, reranking and the selection of the    *)
(* context (services/retrieval/, domain/fusion.py).  Everything here is a  *)
(* pure operator.                                                          *)
(*                                                                         *)
(* A branch is the ranking PostgreSQL computes of the tenant's matching    *)
(* chunks, each chunk once; what matches and how well is not modelled.     *)
(* Scores are exact: w / (k + rank) is scaled to an integer, where the     *)
(* code adds floats and may tell two equal sums of three terms apart.      *)
(***************************************************************************)
EXTENDS Ordering, TLC

Cut(q, k) == SubSeq(q, 1, Min({k, Len(q)}))

-----------------------------------------------------------------------------
(* Reciprocal Rank Fusion of any number of rankings. *)

(* The 1-based position that counts: the first one. *)
Rank(ranking, d) == Min({i \in DOMAIN ranking : ranking[i] = d})

(* A multiple of every k + rank that can occur. *)
CommonMultiple(rankings, k) ==
  FoldLeft(LAMBDA m, i : m * (k + i), 1,
           [i \in 1..Max({Len(rankings[b]) : b \in DOMAIN rankings}) |-> i])

RrfScore(rankings, weights, k, d) ==
  LET part == [b \in {b \in DOMAIN rankings : Contains(rankings[b], d)} |->
                weights[b] * (CommonMultiple(rankings, k) \div (k + Rank(rankings[b], d)))]
  IN MapThenSumSet(LAMBDA b : part[b], DOMAIN part)

Rrf(rankings, weights, k) ==
  LET found == Distinct(FlattenSeq(rankings))
  IN StableBest(found, [d \in ToSet(found) |-> RrfScore(rankings, weights, k, d)])

(* The k nearest chunks: the index is scanned on until it has that many of *)
(* the tenant's, and what it finds is sorted again.                        *)
VectorSearch(branch, k) == Cut(branch[1], k)

(* Vector, full-text and trigram hits, k of each, fused, the best top. *)
HybridSearch(branch, weights, rrfK, k, top) ==
  Cut(Rrf([b \in DOMAIN branch |-> Cut(branch[b], k)], weights, rrfK), top)

(* hits, then what more has that they have not. *)
Extended(hits, more) ==
  FoldLeft(LAMBDA all, d : IF Contains(hits, d) THEN all ELSE Append(all, d), hits, more)

(* A plausible mistake, for a mutant. *)
FtsSearchUncut(branch, k) == Extended(Cut(branch[2], k), Cut(branch[3], k))

(* The full-text hits, then those the trigram branch adds. *)
FtsSearch(branch, k) == Cut(Extended(Cut(branch[2], k), Cut(branch[3], k)), k)

(* The first phase of retrieve_context: the reranker's candidates. *)
Candidates(mode, branch, weights, rrfK, k) ==
  CASE mode = "vector" -> VectorSearch(branch, k)
    [] mode = "fts"    -> FtsSearch(branch, k)
    [] mode = "hybrid" -> HybridSearch(branch, weights, rrfK, k, k)

(* The second: the cross-encoder's best, by its score of each. *)
Rerank(candidates, score, top) == Cut(StableBest(candidates, score), top)

-----------------------------------------------------------------------------
(* The contents no score is stored of. *)
Missing(cache, chunks) == {c.content : c \in ToSet(chunks)} \ DOMAIN cache

(* CachingReranker: cache is a function of the contents scored before, for *)
(* one query.  Chunks with the same content share a score, and the inner   *)
(* reranker, inner, sees each missing content once, in one batch.          *)
CachedRerank(inner, cache, chunks, top) ==
  LET missing == Missing(cache, chunks)
      known == [t \in DOMAIN cache \cup missing |->
                 IF t \in DOMAIN cache THEN cache[t] ELSE inner[t]]
  IN [hits   |-> IF chunks = <<>> THEN <<>>
                 ELSE Cut(StableBest(chunks, [c \in ToSet(chunks) |-> known[c.content]]), top),
      cache  |-> known,
      scored |-> missing]

-----------------------------------------------------------------------------
(* The third: chunks are records of a document, a section ("" when the     *)
(* chunk has none) and a number of words.                                  *)
SameSection(c, d) ==
  c.section # "" /\ c.section = d.section /\ c.document = d.document

Words(chunks) == FoldLeft(LAMBDA n, c : n + c.words, 0, chunks)

(* One chunk of _select_context's loop; "full" is its break. *)
SelectNext(budget, acc, c) ==
  IF acc.full \/ \E i \in DOMAIN acc.chunks : SameSection(c, acc.chunks[i])
  THEN acc
  ELSE IF acc.chunks # <<>> /\ Words(acc.chunks) + c.words > budget
  THEN [acc EXCEPT !.full = TRUE]
  ELSE [acc EXCEPT !.chunks = Append(@, c)]

SelectContext(chunks, budget) ==
  FoldLeft(LAMBDA acc, c : SelectNext(budget, acc, c),
           [chunks |-> <<>>, full |-> FALSE], chunks).chunks

(* retrieve_context after its first phase; chunk gives an id's chunk and   *)
(* score the reranker's score of it.                                       *)
RetrieveContext(fused, score, top, budget, chunk) ==
  SelectContext(Rerank([i \in DOMAIN fused |-> chunk[fused[i]]], score, top), budget)

(* POST /search: one of the branches, all of them fused, or the pipeline,  *)
(* whose k is what is kept of the reranked chunks; limits are the settings.*)
Search(mode, branch, limits, k, score, chunk) ==
  LET hybrid(top) == HybridSearch(branch, limits.weights, limits.rrfK, limits.candidates, top)
      hits == CASE mode = "fts"    -> FtsSearch(branch, k)
                [] mode = "hybrid" -> hybrid(k)
                [] OTHER           -> VectorSearch(branch, k)
  IN IF mode = "pipeline"
     THEN RetrieveContext(hybrid(limits.top), score, k, limits.budget, chunk)
     ELSE [i \in DOMAIN hits |-> chunk[hits[i]]]
=============================================================================
