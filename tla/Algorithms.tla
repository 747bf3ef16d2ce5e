----------------------------- MODULE Algorithms -----------------------------
(***************************************************************************)
(* The backend's and the page's pure algorithms called with every input of *)
(* a bounded set, and what their callers rely on.  subject names what is   *)
(* called, input is the call; Inputs gives each subject its inputs.        *)
(***************************************************************************)
EXTENDS Retrieval, Citations, Parsing, Chunking, Normalization, EvalMetrics, Requests, SseFrames,
        ModelClients

CONSTANT Inputs

ASSUME InputsAreSets == \A s \in DOMAIN Inputs : Inputs[s] # {}

(* A branch finds each chunk once; weights and limits are numbers.         *)
ASSUME SearchesAreTyped ==
  /\ "fusion" \in DOMAIN Inputs => \A x \in Inputs["fusion"] :
       /\ x.rankings \in Seq(Seq(STRING)) /\ x.k \in Nat
       /\ x.weights \in [DOMAIN x.rankings -> Nat]
  /\ "search" \in DOMAIN Inputs => \A x \in Inputs["search"] :
       /\ x.mode \in {"vector", "fts", "hybrid"} /\ x.k \in Nat
       /\ x.branch \in [1..3 -> Seq(Nat)] /\ \A b \in 1..3 : IsInjective(x.branch[b])
  /\ "rerank" \in DOMAIN Inputs => \A x \in Inputs["rerank"] : x.top \in Nat
  /\ "context" \in DOMAIN Inputs => \A x \in Inputs["context"] :
       /\ x.chunks \in Seq([document : Nat, section : STRING, words : Nat])
       /\ x.budget \in Nat
  /\ "api_search" \in DOMAIN Inputs => \A x \in Inputs["api_search"] :
       /\ x.mode \in {"vector", "fts", "hybrid", "pipeline"} /\ x.score \in [1..3 -> Int]
       /\ x.branch \in [1..3 -> Seq(1..3)] /\ \A b \in 1..3 : IsInjective(x.branch[b])

(* A stream is made of pieces, lines and times of the server's choice.     *)
ASSUME StreamsAreTyped ==
  /\ "stream" \in DOMAIN Inputs => Inputs["stream"] \subseteq Seq(STRING)
  /\ "deltas" \in DOMAIN Inputs => \A x \in Inputs["deltas"] :
       x \in [limit : StreamLimit, lines : Seq(StreamLine)]

(* The server answers every attempt of a call, whatever it answers.        *)
ASSUME CallsAreAnswered ==
  /\ "complete" \in DOMAIN Inputs => \A x \in Inputs["complete"] :
       /\ x \in [limit : CompletionLimit, responses : Seq(CompletionResponse)]
       /\ Len(x.responses) > x.limit.retries
  /\ "embedding" \in DOMAIN Inputs => \A x \in Inputs["embedding"] :
       /\ x \in [limit : PostLimit, responses : Seq(PostResponse)]
       /\ Len(x.responses) > x.limit.retries
  /\ "batches" \in DOMAIN Inputs => \A x \in Inputs["batches"] :
       x \in [texts : Seq(Nat), batch : Nat \ {0}]

(* A request comes from anyone at any time; a database keeps its keys.     *)
ASSUME RequestsAreTyped ==
  /\ "request" \in DOMAIN Inputs => \A x \in Inputs["request"] :
       x \in [request : Request, route : [needs : {"nobody", "user", "admin"}], role : STRING,
              login : STRING, secret : STRING, now : Int]
  /\ "database" \in DOMAIN Inputs => \A x \in Inputs["database"] : x.db \in Database

(* An answer is any text; a source names codes and at most one version; a  *)
(* question that was asked reports one of three phases, or none yet.       *)
ASSUME AnswersAreTyped ==
  /\ "answer" \in DOMAIN Inputs => \A x \in Inputs["answer"] : x.answer \in Seq(STRING)
  /\ "steps" \in DOMAIN Inputs => \A x \in Inputs["steps"] :
       x.status \in {"streaming", "done", "error", "cancelled"} /\ x.reached \in 0..3
  /\ "conflicts" \in DOMAIN Inputs => \A x \in Inputs["conflicts"] :
       x \in Seq([version : STRING, codes : SUBSET STRING])

(* A report has one run and one score of each of its questions, all of one *)
(* category; no phase takes longer than the whole, and Scale is a multiple *)
(* of every rank.  Outcomes keep the question set's order, which is that   *)
(* of the ids; two raters rate the same answers.                           *)
ASSUME MeasuresAreTyped ==
  /\ "report" \in DOMAIN Inputs => \A x \in Inputs["report"] :
       LET ids == {q.id : q \in ToSet(x.questions)}
       IN /\ x.questions \in Seq(Question) /\ x.questions # <<>>
          /\ \A i, j \in DOMAIN x.questions : x.questions[i].id = x.questions[j].id => i = j
          /\ \A q \in ToSet(x.questions) : q.category = "a"
          /\ x.runs \in [ids -> QuestionRun] /\ x.scores \in [ids -> Score]
          /\ \A id \in ids :
               LET run == x.runs[id]
               IN /\ run.ms.retrieval <= run.ms.total /\ run.ms.generation <= run.ms.total
                  /\ \A n \in DOMAIN run.retrieved : Scale % n = 0
  /\ "table" \in DOMAIN Inputs => \A x \in Inputs["table"] :
       /\ x \in Seq(Seq(GoldOutcome)) /\ x # <<>>
       /\ \A outcomes \in ToSet(x) : \A i, j \in DOMAIN outcomes :
            /\ outcomes[i].category \in {"a", "b"}
            /\ outcomes[i].id = outcomes[j].id => i = j
  /\ "latencies" \in DOMAIN Inputs => \A x \in Inputs["latencies"] :
       x \in Seq(Nat) /\ x # <<>>
  /\ "paired" \in DOMAIN Inputs => \A x \in Inputs["paired"] :
       /\ \A outcomes \in {x.baseline, x.candidate} :
            /\ outcomes \in Seq(GoldOutcome)
            /\ \A i \in DOMAIN outcomes : outcomes[i].category = "a"
            /\ \A i, j \in DOMAIN outcomes : i < j => outcomes[i].id < outcomes[j].id
       /\ \A n \in DOMAIN x.candidate :
            x.draws[n] \in Seq([1..n -> 1..n]) /\ x.draws[n] # <<>>
       /\ x.confidence \in 1..999
  /\ "raters" \in DOMAIN Inputs => \A x \in Inputs["raters"] :
       x.a \in Seq(Nat) /\ x.b \in Seq(Nat) /\ Len(x.a) = Len(x.b) /\ x.a # <<>>

(* A document's blocks come in the order of its pages, also those of       *)
(* another parse, without OCR; the floor and the ceiling of a section are  *)
(* settings, the one below the other.                                      *)
ASSUME DocumentsAreTyped ==
  /\ "windows" \in DOMAIN Inputs => \A x \in Inputs["windows"] :
       x.blocks \in Seq(Block) /\ x.window \in Nat \ {0} /\ x.overlap \in 0..100
  /\ "sections" \in DOMAIN Inputs => \A x \in Inputs["sections"] :
       /\ x.blocks \in Seq(Block)
       /\ \A i, j \in DOMAIN x.blocks : i < j => x.blocks[i].page <= x.blocks[j].page
       /\ x.again \in Seq(Block)
       /\ \A i, j \in DOMAIN x.again : i < j => x.again[i].page <= x.again[j].page
       /\ x.floor \in Nat \ {0} /\ x.ceiling \in Nat /\ x.floor <= x.ceiling

(* Pages as the PDF library and OCR give them. *)
ASSUME PagesAreTyped ==
  "pdf" \in DOMAIN Inputs => \A x \in Inputs["pdf"] : x.pages \in Seq(Page) /\ x.minChars \in Nat

VARIABLES subject, input
vars == <<subject, input>>

Init == subject = "none" /\ input = <<>>

Call(s, x) == subject' = s /\ input' = x

Next == subject = "none" /\ \E s \in DOMAIN Inputs : \E x \in Inputs[s] : Call(s, x)

Spec == Init /\ [][Next]_vars

Increasing(q) == \A i, j \in DOMAIN q : i < j => q[i] < q[j]

-----------------------------------------------------------------------------
(* Retrieval. *)

(* Fusion loses and repeats nothing, and a chunk that is ahead of another  *)
(* in every branch that found the other is ahead of it after fusion, with  *)
(* any weights, ties and repeated ids included.                            *)
FusionRewardsAgreement ==
  subject = "fusion" =>
    LET ranks == input.rankings
        fused == Rrf(ranks, input.weights, input.k)
        in(b, d) == Contains(ranks[b], d)
        ahead(d, e) == \A b \in DOMAIN ranks :
                         in(b, e) => in(b, d) /\ Rank(ranks[b], d) < Rank(ranks[b], e)
    IN /\ ToSet(fused) = UNION {ToSet(ranks[b]) : b \in DOMAIN ranks}
       /\ IsInjective(fused)
       /\ \A d, e \in ToSet(fused) :
            d # e /\ ahead(d, e) => Rank(fused, d) < Rank(fused, e)

(* The reranker gets as many candidates in every mode as the mode's        *)
(* branches can give it, never more than candidate_k and none twice, so    *)
(* that modes differ only in which chunks fill the budget; and the trigram *)
(* branch of the full-text mode displaces no full-text hit.                *)
SameBudgetInEveryMode ==
  subject = "search" =>
    LET found == Candidates(input.mode, input.branch, <<1, 1, 1>>, 60, input.k)
        used == CASE input.mode = "vector" -> {1}
                  [] input.mode = "fts" -> {2, 3}
                  [] input.mode = "hybrid" -> 1..3
        offered == UNION {ToSet(Cut(input.branch[b], input.k)) : b \in used}
    IN /\ IsInjective(found) /\ ToSet(found) \subseteq offered
       /\ Len(found) = Min({input.k, Cardinality(offered)})
       /\ input.mode = "fts" => IsPrefix(Cut(input.branch[2], input.k), found)

(* Whatever the cache holds of earlier scores, the ranking is the one the  *)
(* reranker alone gives, ties included; nothing is scored that is known,   *)
(* and the same question again scores nothing and ranks the same.          *)
CacheIsTransparent ==
  subject = "rerank" =>
    LET cache == Restrict(input.score, input.known)
        best == [c \in ToSet(input.chunks) |-> input.score[c.content]]
        first == CachedRerank(input.score, cache, input.chunks, input.top)
        again == CachedRerank(input.score, first.cache, input.chunks, input.top)
    IN /\ first.hits = Rerank(input.chunks, best, input.top)
       /\ first.scored \cap input.known = {}
       /\ again.scored = {} /\ again.hits = first.hits

(* Each chunk with its place. *)
Ranked(chunks) ==
  [i \in DOMAIN chunks |-> [rank |-> i, document |-> chunks[i].document,
                            section |-> chunks[i].section, words |-> chunks[i].words]]

(* The context keeps the order, the best chunk and the budget (unless that *)
(* chunk alone breaks it), takes one chunk of a section of a document, and *)
(* leaves out only repeated sections and what comes once it is full.       *)
ContextIsGreedy ==
  subject = "context" =>
    LET chunks == Ranked(input.chunks)
        context == SelectContext(chunks, input.budget)
        twins(c, d) == /\ c.section # "" /\ c.rank # d.rank
                       /\ <<c.document, c.section>> = <<d.document, d.section>>
        repeated(c) == \E d \in ToSet(context) : twins(c, d)
        tooLong(c) == Words(context) + c.words > input.budget
    IN /\ Increasing([i \in DOMAIN context |-> context[i].rank])
       /\ ToSet(context) \subseteq ToSet(chunks)
       /\ chunks # <<>> => context # <<>> /\ context[1] = chunks[1]
       /\ Words(context) <= input.budget \/ Len(context) = 1
       /\ \A c, d \in ToSet(context) : ~twins(c, d)
       /\ \A c \in ToSet(chunks) \ ToSet(context) :
            \/ repeated(c)
            \/ \E d \in ToSet(chunks) \ ToSet(context) :
                 d.rank <= c.rank /\ ~repeated(d) /\ tooLong(d)

(* In every mode of POST /search a larger k only adds at the end, and      *)
(* shows nothing twice; the pipeline shows of the fused candidates only.   *)
MoreAddsAtTheEnd ==
  subject = "api_search" =>
    LET limits == [candidates |-> 2, top |-> 3, weights |-> <<1, 1, 1>>, rrfK |-> 60,
                   budget |-> 4]
        chunk == [i \in 1..3 |-> [id |-> i, document |-> 1, words |-> i,
                                  section |-> IF i = 3 THEN "" ELSE "a"]]
        score == [c \in {chunk[i] : i \in 1..3} |-> input.score[c.id]]
        hits(mode, k) == Search(mode, input.branch, limits, k, score, chunk)
    IN /\ \A k \in 1..2 : IsPrefix(hits(input.mode, k), hits(input.mode, k + 1))
       /\ IsInjective(hits(input.mode, 3)) /\ Len(hits(input.mode, 3)) <= 3
       /\ ToSet(hits("pipeline", 3)) \subseteq ToSet(hits("hybrid", 3))

-----------------------------------------------------------------------------
(* Citations. *)

(* A marker between the brackets of another: removing it forms a new one.  *)
Nested(t) ==
  \E p \in Matches(t), i \in DOMAIN t :
    i < p[1] /\ t[i] = "[S" /\ \A j \in i + 1 .. p[1] - 1 : t[j] \in Digits \cup {" "}

(* The words of a text. *)
Prose(t) == At(t, {i \in DOMAIN t : t[i] \notin Digits \cup {"[S", "]", " "}})

(* Every marker left in a finished answer names a source it was offered,   *)
(* and none is left of the others; an answer is either the abstention or   *)
(* cites something; removing markers loses none of its words.  Texts with  *)
(* a marker inside another are outside this: the code strips only once.    *)
EveryMarkerResolves ==
  subject = "answer" =>
    LET sources == BuildContext(input.chunks)
        result == ExtractAndValidate(input.answer, sources)
        cited == {c.marker : c \in ToSet(result.citations)}
    IN /\ cited \subseteq DOMAIN sources
       /\ result.answer = Abstention \/ result.citations # <<>>
       /\ ~Nested(input.answer) => ToSet(Markers(result.answer)) = cited
       /\ \/ result.answer = Abstention
          \/ Prose(result.answer) = Prose(input.answer)

(* The page shows the answer's text whole and in order, with a chip for    *)
(* every known marker and for nothing else.                                *)
AnswerIsShownWhole ==
  subject = "answer" =>
    LET known == DOMAIN BuildContext(input.chunks)
        shown == SegmentAnswer(input.answer, known)
        chips == {i \in DOMAIN shown : shown[i].kind = "citation"}
    IN /\ FlattenSeq([i \in DOMAIN shown |-> shown[i].text]) = input.answer
       /\ Cardinality(chips) = Cardinality({p \in Matches(input.answer) :
                                              NameAt(input.answer, p) \in known})
       /\ \A i \in chips : \E m \in known :
            shown[i].text = <<"[S">> \o m \o <<"]">>
       /\ \A i \in 1 .. Len(shown) - 1 :
            shown[i].kind = "citation" \/ shown[i + 1].kind = "citation"

(* The steps shown of a question are complete ones, then at most one that  *)
(* runs or was stopped, then pending ones; a finished answer has them all. *)
ProgressIsOneStep ==
  subject = "steps" =>
    LET steps == StageProgress(input.status, input.reached)
        current == {i \in DOMAIN steps : steps[i] \in {"active", "stopped"}}
    IN /\ Cardinality(current) <= 1
       /\ \A i, j \in DOMAIN steps : i < j =>
            ~(steps[i] = "pending" /\ steps[j] # "pending")
              /\ (steps[j] = "complete" => steps[i] = "complete")
       /\ (current = {}) = (input.status = "done" \/ input.reached = 0)
       /\ input.status # "streaming" => \A i \in DOMAIN steps : steps[i] # "active"

(* A code is reported exactly when two versions of a specification name    *)
(* it, with each of these versions once, whatever the order of the sources.*)
ConflictsAreComplete ==
  subject = "conflicts" =>
    LET conflicts == FindVersionConflicts(input)
        versions(c) == {s.version : s \in {r \in ToSet(input) : c \in r.codes}} \ {""}
        codes == UNION {s.codes : s \in ToSet(input)}
    IN /\ DOMAIN conflicts = {c \in codes : Cardinality(versions(c)) >= 2}
       /\ \A c \in DOMAIN conflicts :
            ToSet(conflicts[c]) = versions(c) /\ IsInjective(conflicts[c])

-----------------------------------------------------------------------------
(* Parsing. *)

(* A PDF's blocks come in the order of pages and of tops.  A text is       *)
(* missing only because a table covers it, OCR read its page better, or    *)
(* blocks stand at its place on more than three pages in five; what stands *)
(* at one place of all pages of several is missing, and a table's text is  *)
(* not read twice.  Tables are even.                                       *)
PagesAreReadInOrder ==
  subject = "pdf" =>
    LET parsed == ParsePdf(input.pages, input.ocr, input.minChars)
        blocks == parsed.blocks
        covered(n, t) == \E x \in ToSet(input.pages[n].tables) : BoxInside(x.box, t.box)
        at(n, t) == \E x \in ToSet(input.pages[n].texts \o input.pages[n].tables
                                     \o input.pages[n].ocr) : Anchor(x) = Anchor(t)
        pagesWith(t) == {n \in DOMAIN input.pages : at(n, t)}
        kept(n, t) == \E b \in ToSet(blocks) :
                        b.page = n /\ b.kind = "text" /\ <<b.box, b.text>> = <<t.box, t.text>>
        free(n, t) == n \notin parsed.ocr_pages /\ t.text.chars > 0 /\ ~covered(n, t)
    IN /\ \A i, j \in DOMAIN blocks : i < j =>
            \/ blocks[i].page < blocks[j].page
            \/ blocks[i].page = blocks[j].page /\ blocks[i].box[2] <= blocks[j].box[2]
       /\ \A n \in DOMAIN input.pages : \A t \in ToSet(input.pages[n].texts) :
            /\ free(n, t) /\ ~kept(n, t) =>
                 Cardinality(pagesWith(t)) >= 2
                   /\ 5 * Cardinality(pagesWith(t)) > 3 * Len(input.pages)
            /\ /\ Len(input.pages) >= 2
               /\ \A m \in DOMAIN input.pages :
                    t \in ToSet(input.pages[m].texts) /\ free(m, t)
               => ~kept(n, t)
            /\ covered(n, t) /\ n \notin parsed.ocr_pages => ~kept(n, t)
       /\ \A b \in ToSet(blocks) : b.kind = "table" =>
            \A r \in DOMAIN b.rows : Len(b.rows[r]) = Len(b.rows[1])

(* OCR is asked only for a page with too little text, and never leaves it  *)
(* with less.                                                              *)
OcrOnlyAdds ==
  subject = "pdf" =>
    \A n \in DOMAIN input.pages :
      LET read(ocr) == PageChars(PageBlocks(input.pages[n], n, ocr, input.minChars))
      IN /\ read(TRUE) >= read(FALSE)
         /\ read(FALSE) >= input.minChars => read(TRUE) = read(FALSE)

(* Blocks as the chunker takes them: what a block says is its words; where *)
(* it stands is not compared. *)
Chunkable(blocks) ==
  [i \in DOMAIN blocks |->
    [path |-> blocks[i].path, title |-> blocks[i].title, page |-> blocks[i].page, box |-> i,
     words |-> IF blocks[i].kind = "table"
               THEN LET cells == FlattenSeq(blocks[i].rows)
                    IN [c \in DOMAIN cells |-> ToString(cells[c])]
               ELSE <<blocks[i].text.id>>]]

(* A numbered text with headings, paragraphs and tables is cut into the    *)
(* same chunks, of the same sections, whether it comes as a PDF (one page, *)
(* headings in larger type or not) or as a DOCX; a heading is in the       *)
(* section it opens.                                                       *)
FormatsAgree ==
  subject = "outline" =>
    LET item(i) == input.items[i]
        box(i) == <<50, 20 * i, 500, 20 * i + 10>>
        texts == SelectSeq([i \in DOMAIN input.items |-> i], LAMBDA i : item(i).kind = "text")
        tables == SelectSeq([i \in DOMAIN input.items |-> i], LAMBDA i : item(i).kind = "table")
        size(i) == IF item(i).heading THEN input.size ELSE 10
        page == [texts |-> [k \in DOMAIN texts |->
                   [box |-> box(texts[k]), size |-> size(texts[k]), text |-> item(texts[k]).text]],
                 tables |-> [k \in DOMAIN tables |->
                   [box |-> box(tables[k]), rows |-> item(tables[k]).rows]],
                 ocr |-> <<>>]
        chunks(blocks) ==
          LET all == StructuralChunks(Chunkable(blocks), 2, 2)
          IN [i \in DOMAIN all |-> <<all[i].content, all[i].path, all[i].parent>>]
        pdf == ParsePdf(<<page>>, FALSE, 50).blocks
    IN /\ chunks(pdf) = chunks(ParseDocx(input.items))
       /\ \A b \in ToSet(pdf) : b.title => b.path = b.text.code

-----------------------------------------------------------------------------
(* Chunking. *)

(* Fixed windows: every word is in one, in order; neighbours share the     *)
(* configured overlap, and no window is part of the one before it.         *)
EveryWordIsChunked ==
  subject = "windows" =>
    LET words == FlattenWords(input.blocks)
        chunks == FixedChunks(input.blocks, input.window, input.overlap)
        body(i) == chunks[i].content[2]
        shared == input.window - Step(input.window, input.overlap)
        fresh(i) == IF i = 1 THEN body(1) ELSE SubSeq(body(i), shared + 1, Len(body(i)))
    IN /\ FlattenSeq([i \in DOMAIN chunks |-> fresh(i)]) = Texts(words)
       /\ \A i \in DOMAIN chunks : Len(body(i)) <= input.window
       /\ \A i \in 2 .. Len(chunks) :
            /\ Len(body(i)) > shared
            /\ SubSeq(body(i), 1, shared)
                 = SubSeq(body(i - 1), Len(body(i - 1)) - shared + 1, Len(body(i - 1)))

(* Sections: the bodies of the chunks in a row are the document's words,   *)
(* none is longer than the ceiling, only the last section may be below the *)
(* floor, and the pages of a chunk are those of its words.                 *)
SectionsPartition ==
  subject = "sections" =>
    LET chunks == StructuralChunks(input.blocks, input.floor, input.ceiling)
        body(i) == chunks[i].content[2]
        from(i) == 1 + Total([j \in 1 .. i - 1 |-> Len(body(j))])
        words == FlattenWords(input.blocks)
    IN /\ FlattenSeq([i \in DOMAIN chunks |-> body(i)]) = Texts(words)
       /\ \A i \in DOMAIN chunks :
            /\ Len(body(i)) \in 1 .. input.ceiling
            /\ chunks[i].parent = None /\ Len(body(i)) < input.floor => i = Len(chunks)
            /\ chunks[i].pages = <<words[from(i)].page,
                                   words[from(i) + Len(body(i)) - 1].page>>

(* The stored row of a section's later piece points to the row of its      *)
(* first piece, unless that one was not stored because its text is stored  *)
(* elsewhere: then it points to none.  Ingesting again changes nothing.    *)
StoredChunksAreLinked ==
  subject = "sections" =>
    LET chunks == StructuralChunks(input.blocks, input.floor, input.ceiling)
        rows == InsertChunks(chunks, <<>>)
    IN /\ \A o \in DOMAIN rows :
            IF chunks[o].parent \in DOMAIN rows
            THEN /\ rows[o].parent = chunks[o].parent
                 /\ rows[rows[o].parent].parent = None
                 /\ rows[rows[o].parent].path = rows[o].path
            ELSE rows[o].parent = None
       /\ {rows[o].content : o \in DOMAIN rows} = {c.content : c \in ToSet(chunks)}
       /\ InsertChunks(chunks, rows) = rows

(* The regions of the first of these chunks with a row's content.          *)
RegionsFor(row, chunks) ==
  LET same == {i \in DOMAIN chunks : chunks[i].content = row.content}
  IN IF same = {} THEN <<>> ELSE chunks[Min(same)].regions

(* Filling the regions of some rows later, from a parse without OCR        *)
(* (backfill_chunk_regions.py:33), gives each of them the places of its    *)
(* own words in that parse, none if the parse cuts them otherwise, and     *)
(* changes nothing else.  If both parses agree these are the regions that  *)
(* ingestion would have stored; of a document with scanned pages some rows *)
(* may be left without any.                                                *)
BackfillGivesRegions ==
  subject = "sections" =>
    LET rows == InsertChunks(StructuralChunks(input.blocks, input.floor, input.ceiling), <<>>)
        again == StructuralChunks(input.again, input.floor, input.ceiling)
        old(E) == [o \in DOMAIN rows |->
                    IF o \in E THEN [rows[o] EXCEPT !.regions = <<>>] ELSE rows[o]]
        new(E) == [o \in DOMAIN rows |->
                    IF o \in E THEN [rows[o] EXCEPT !.regions = RegionsFor(rows[o], again)]
                    ELSE rows[o]]
    IN \A E \in SUBSET DOMAIN rows :
         Backfill(again, old(E)) = new(E) /\ (input.again = input.blocks => new(E) = rows)

(* What is shown around a cited chunk has no gap: every row stored between *)
(* a neighbour and the chunk is shown, and the chunk is a neighbour of its *)
(* neighbours.                                                             *)
ContextHasNoGaps ==
  subject = "sections" =>
    LET rows == InsertChunks(StructuralChunks(input.blocks, input.floor, input.ceiling), <<>>)
        near(o) == Neighbours(rows, o, 1)
    IN \A o, p \in DOMAIN rows :
         /\ p \in near(o).before <=> o \in near(p).after
         /\ p \in near(o).before =>
              \A q \in DOMAIN rows : p < q /\ q < o => q \in near(o).before

-----------------------------------------------------------------------------
(* Normalisation. *)

(* A separator inside a reference: a code, R and a number, or UN and that. *)
InReference(t, i) ==
  /\ i - 1 \in DOMAIN t /\ i + 1 \in DOMAIN t /\ t[i] \in Optional /\ Boundary(t, i - 1)
  /\ \/ t[i - 1] \in {"UN", "LH"} /\ t[i + 1] = "3.2.1"
     \/ t[i - 1] = "R" /\ t[i + 1] \in Numbers
     \/ /\ t[i - 1] = "UN" /\ t[i + 1] = "R" /\ i + 2 \in DOMAIN t
        /\ \/ t[i + 2] \in Numbers
           \/ t[i + 2] \in Optional /\ i + 3 \in DOMAIN t /\ t[i + 3] \in Numbers

(* A reference is one token with a separator in it and without: leaving it *)
(* out changes nothing of the text's normal form, so a question meets the  *)
(* index whichever of these spellings each of them used.                   *)
SpellingsAgree ==
  subject = "text" =>
    \A i \in {j \in DOMAIN input : InReference(input, j)} :
      NormalizeDe(PiecesWithout(input, {i})) = NormalizeDe(input)

(* A norm reference that no pattern finds, until its white space has       *)
(* become one blank: there is a line's end or a second blank in it.        *)
Stretched(t) ==
  LET wide(i) == AfterGap(t, i) \cup {j \in i .. Len(t) + 1 : \A k \in i .. j - 1 : t[k] \in Blank}
      norms == {m \in Spots(t) :
                  /\ Boundary(t, m[1])
                  /\ \/ Lower(t[m[1]]) = "un" /\ m[2] \in wide(m[1] + 1)
                     \/ m[2] = m[1]
                  /\ Lower(t[m[2]]) = "r" /\ m[3] \in wide(m[2] + 1) /\ t[m[3]] \in Numbers}
  IN norms \ (UnNorms(t) \cup BareNorms(t)) # {}

(* normalization.py:51 says "Idempotent: normalize_de(normalize_de(x)) ==  *)
(* normalize_de(x)", which test_normalization.py:69 tries on one text.  It *)
(* is so exactly where no reference is Stretched: "R  79" becomes "r 79",  *)
(* and that "r79".  Twice is always enough.                                *)
NormalizationSettles ==
  subject = "text" =>
    LET once == NormalizeDe(input)
        twice == NormalizeDe(once)
    IN NormalizeDe(twice) = twice /\ (twice # once <=> Stretched(input))

(* Every code the conflict check extracts is a word of its own in the      *)
(* normal form of the text, in the same spelling.                          *)
CodesAreIndexed ==
  subject = "text" =>
    LET normal == NormalizeDe(input)
    IN \A c \in ExtractAllCodes(input) :
         \E i \in DOMAIN normal :
           /\ i + Len(c) - 1 <= Len(normal) /\ SubSeq(normal, i, i + Len(c) - 1) = c
           /\ Boundary(normal, i)
           /\ i + Len(c) - 1 = Len(normal) \/ normal[i + Len(c)] \in Separators

-----------------------------------------------------------------------------
(* The evaluation's numbers.  All questions of a call have one category.   *)

(* The report's rates and its per-question outcomes count the same         *)
(* questions: recall is the share of gold hits, no reciprocal rank exceeds *)
(* it, and it is zero exactly when precision is.                           *)
RecallIsShareOfHits ==
  subject = "report" =>
    LET questions == input.questions
        outcomes == QuestionOutcomes(questions, input.runs, input.scores)
        recall == RecallAtK(questions, input.runs)
        mrr == MeanReciprocalRank(questions, input.runs)
        precision == PrecisionAtK(questions, input.runs)
    IN /\ recall = RateOf(outcomes, "a", "gold_hit")
       /\ recall # Nothing => /\ mrr[2] = recall[2] /\ mrr[1] <= Scale * recall[1]
                              /\ (mrr[1] = 0) = (recall[1] = 0)
       /\ precision # Nothing => (precision[1] = 0) = (recall[1] = 0)

(* The report's other rates count the questions that ran, each once:       *)
(* every one is either to be abstained from or to be answered, accuracy    *)
(* is that of the per-question outcomes, and (when everything retrieved is *)
(* cited) a citation is right exactly where recall has a hit.              *)
RatesCountRuns ==
  subject = "report" =>
    LET questions == input.questions
        runs == input.runs
        outcomes == QuestionOutcomes(questions, runs, input.scores)
        over(rate) == IF rate = Nothing THEN 0 ELSE rate[2]
        hits(rate) == IF rate = Nothing THEN 0 ELSE rate[1]
        ran == {id \in DOMAIN runs : ~runs[id].error}
    IN /\ over(AbstentionRate(questions, runs, TRUE))
            + over(AbstentionRate(questions, runs, FALSE)) = Cardinality(ran)
       /\ AnswerAccuracy(input.scores) = RateOf(outcomes, "a", "correct")
       /\ over(CitationPrecision(questions, runs))
            = Total([id \in ran |-> Len(runs[id].citations)])
       /\ (\A id \in ran : runs[id].citations = runs[id].retrieved) =>
            (hits(CitationPrecision(questions, runs)) > 0) = (hits(RecallAtK(questions, runs)) > 0)

(* A report has metrics unless all of it failed; every run is an error or  *)
(* counts, the whole is never faster than a phase of it, and in the table  *)
(* of the report and of its first question every column that has a value   *)
(* has a winner no row beats.                                              *)
ReportIsWhole ==
  subject = "report" =>
    LET metrics(ids) ==
          ComputeMetrics(At(input.questions, {i \in DOMAIN input.questions : input.questions[i].id \in ids}),
                         Restrict(input.runs, ids), Restrict(input.scores, ids))
        whole == metrics(DOMAIN input.runs)
        both == <<whole, metrics({input.questions[1].id})>>
        rows == At(both, {i \in DOMAIN both : both[i] # Nothing})
        table == OverallTable(rows)
        beats(c, v, w) == IF c \in HigherIsBetter THEN Below(w, v) ELSE Below(v, w)
    IN /\ (whole = Nothing) = (\A id \in DOMAIN input.runs : input.runs[id].error)
       /\ whole # Nothing =>
            /\ \A p \in {50, 95}, phase \in {"retrieval", "generation"} :
                 whole.latency[p][phase] <= whole.latency[p].total
            /\ whole.n_errors < whole.n_questions
            /\ whole.hallucinated_citation_rate[2] = whole.n_questions - whole.n_errors
       /\ \A c \in HigherIsBetter \cup LowerIsBetter :
            LET valued == {r \in DOMAIN rows : table[r][c].value # Nothing}
                won == {r \in DOMAIN rows : table[r][c].winner}
            IN /\ won \subseteq valued /\ (won = {}) = (valued = {})
               /\ \A r \in won, u \in valued :
                    ~beats(c, table[u][c].value, table[r][c].value)

(* Without answers the retrieval alone has the numbers the evaluation gives*)
(* it, when none of its questions failed there.                            *)
RetrievalAloneAgrees ==
  subject = "report" /\ (\A id \in DOMAIN input.runs : ~input.runs[id].error) =>
    LET row == RetrievalRow(input.questions,
                              [id \in DOMAIN input.runs |-> input.runs[id].retrieved])
    IN /\ row.recall_at_k = RecallAtK(input.questions, input.runs)
       /\ row.mrr = MeanReciprocalRank(input.questions, input.runs)
       /\ row.precision_at_k = PrecisionAtK(input.questions, input.runs)
       /\ row.hits # <<>> => row.recall_at_k = <<Total(row.hits), Len(row.hits)>>

(* The category table splits the overall rate: hits and questions add up   *)
(* to it, every category shown has a winner, and none is beaten; the chart *)
(* splits it the same way.  The sample for the human takes of every        *)
(* category that has questions.                                            *)
CategoriesAddUp ==
  subject = "table" =>
    LET table == CategoryTable(input, {"a", "b"}, "gold_hit")
        cells(r) == {c \in DOMAIN table[r] : table[r][c].rate # Nothing}
        known(r) == Known(input[r], "gold_hit")
        chart(r) == RecallCells(input[r], {"a", "b"})
        sample == SelectHumanReviewSample(input[1], <<"b", "a">>, 1)
    IN /\ \A r \in DOMAIN input : \A c \in DOMAIN chart(r) \ {"all"} :
            chart(r)[c] = table[r][c].rate
       /\ \A r \in DOMAIN input : DOMAIN chart(r) # {} => "all" \in DOMAIN chart(r)
            /\ chart(r)["all"][2] = Cardinality(known(r))
       /\ {q.category : q \in ToSet(sample)} = {q.category : q \in ToSet(input[1])}
       /\ \A r \in DOMAIN input :
            /\ Total([c \in cells(r) |-> table[r][c].rate[2]]) = Cardinality(known(r))
            /\ Total([c \in cells(r) |-> table[r][c].rate[1]])
                 = Cardinality({o \in known(r) : o.gold_hit = "hit"})
       /\ \A c \in DOMAIN table[1] :
            \E r \in DOMAIN input :
              /\ table[r][c].winner
              /\ \A u \in DOMAIN input : table[u][c].rate # Nothing =>
                   ~Below(table[r][c].rate, table[u][c].rate)

(* A percentile lies between the extremes, grows with p, does not depend   *)
(* on the order of the values, and leaves at least its share below it.     *)
PercentilesAreOrdered ==
  subject = "latencies" =>
    LET at(p) == Percentile(input, p)
        below(p) == {i \in DOMAIN input : 100 * input[i] <= at(p)}
    IN /\ at(0) = 100 * Min(ToSet(input)) /\ at(100) = 100 * Max(ToSet(input))
       /\ at(0) <= at(50) /\ at(50) <= at(95) /\ at(95) <= at(100)
       /\ Percentile(Reverse(input), 95) = at(95)
       /\ 2 * Cardinality(below(50)) >= Len(input)

(* Exchanging baseline and candidate negates a paired difference, and over *)
(* the same questions it is the difference of the two rates.  Its interval *)
(* leaves out few of the resamples on either side, and is the difference   *)
(* itself where all questions differ alike; a gain that is marked would be *)
(* marked as a loss the other way round (not the converse: the upper end   *)
(* of the interval is rounded, the lower one cut off).                     *)
PairedIsADifference ==
  subject = "paired" =>
    LET paired(b, c) == Paired(b, c, "gold_hit", input.draws, input.confidence)
        pair == paired(input.baseline, input.candidate)
        mirror == paired(input.candidate, input.baseline)
        pairs == Pairs(input.baseline, input.candidate, "gold_hit")
        ids(outcomes) == {o.id : o \in Known(outcomes, "gold_hit")}
        rate(outcomes) == RateOf(outcomes, "a", "gold_hit")
        rows == <<input.baseline, input.candidate>>
        table == PairedTable(rows, 1, "gold_hit", input.draws, input.confidence)
        drawn == input.draws[Len(pairs)]
        gain(d) == Total([k \in DOMAIN drawn[d] |-> pairs[drawn[d][k]][2] - pairs[drawn[d][k]][1]])
        few(D) == 2000 * Cardinality(D) <= (1000 - input.confidence) * (Len(drawn) - 1) + 1000
    IN /\ (pair = Nothing) = (ids(input.baseline) \cap ids(input.candidate) = {})
       /\ pair # Nothing =>
            /\ mirror.diff = <<-pair.diff[1], pair.diff[2]>>
            /\ pair.ci[1] <= pair.ci[2]
            /\ few({d \in DOMAIN drawn : gain(d) < pair.ci[1]})
            /\ few({d \in DOMAIN drawn : gain(d) > pair.ci[2]})
            /\ (\A p \in ToSet(pairs) : p[2] - p[1] = pairs[1][2] - pairs[1][1]) =>
                 pair.ci = <<pair.diff[1], pair.diff[1]>>
            /\ pair.ci[1] > 0 => Significant(mirror)
            /\ table[2].marked = (pair.ci[1] > 0 \/ pair.ci[2] < 0)
       /\ ids(input.baseline) = ids(input.candidate) /\ pair # Nothing =>
            pair.diff = <<rate(input.candidate)[1] - rate(input.baseline)[1], pair.diff[2]>>

(* Kappa is one exactly for raters who always agree, never more than their *)
(* raw agreement, and the same whoever is called the first.                *)
KappaMeasuresAgreement ==
  subject = "raters" =>
    LET kappa == CohensKappa(input.a, input.b)
    IN /\ Equal(kappa, <<1, 1>>) = (input.a = input.b)
       /\ kappa[2] > 0 /\ ~Below(PercentAgreement(input.a, input.b), kappa)
       /\ Equal(kappa, CohensKappa(input.b, input.a))

-----------------------------------------------------------------------------
(* Streams and calls to the models. *)

(* text, cut after the places of cuts. *)
CutBefore(parts, text, cuts, i) ==
  IF i - 1 \in cuts \/ parts = <<>>
  THEN Append(parts, <<text[i]>>)
  ELSE Append(Front(parts), Append(Last(parts), text[i]))

CutAt(text, cuts) ==
  FoldLeft(LAMBDA parts, i : CutBefore(parts, text, cuts, i), <<>>, [i \in DOMAIN text |-> i])

(* The page reads the same frames however the network cuts the stream, and *)
(* no line of data is in two frames.                                       *)
FramesDoNotDependOnChunking ==
  subject = "stream" =>
    LET frames == ReadSse(<<input>>)
        data == FlattenSeq([i \in DOMAIN frames |-> frames[i].data])
    IN /\ \A cuts \in SUBSET (1 .. Len(input) - 1) : ReadSse(CutAt(input, cuts)) = frames
       /\ Len(data) <= Cardinality({i \in DOMAIN input : input[i] = "data:"})

(* A completion ends within its attempts, deadlines and longest waits,     *)
(* whatever Retry-After the server asks for; it is tried again only after  *)
(* what may pass, and it succeeds only by its last attempt.                *)
RetriesStayBounded ==
  subject = "complete" =>
    LET limit == input.limit
        call == Complete(limit, input.responses)
        kind(i) == KindOf(limit, input.responses[i])
    IN /\ call.result # "trying" /\ call.attempts \in 1 .. limit.retries + 1
       /\ call.elapsed <= call.attempts * limit.deadline
                            + (call.attempts - 1) * Max({limit.retryAfter, limit.backoff})
       /\ \A i \in 1 .. call.attempts - 1 : kind(i) \in Transient
       /\ (call.result = "ok") = (kind(call.attempts) = "ok")
       /\ kind(call.attempts) \in Transient => call.attempts = limit.retries + 1

(* A stream always ends: the server may be silent for the first deadline,  *)
(* then between two deltas for the idle one, keep-alives or not; and it is *)
(* complete only after its last line.                                      *)
SilentStreamEnds ==
  subject = "deltas" =>
    LET limit == input.limit
        stream == Stream(limit, input.lines)
        at(i) == IF i = 0 THEN 0 ELSE stream.deltas[i]
        bound(i) == IF i = 1 THEN limit.first ELSE limit.idle
    IN /\ stream.result # "open"
       /\ \A i \in 1 .. Len(stream.deltas) : at(i) - at(i - 1) <= bound(i)
       /\ stream.elapsed - at(Len(stream.deltas)) <= bound(Len(stream.deltas) + 1)
       /\ stream.result = "complete" =>
            \E i \in DOMAIN input.lines : input.lines[i].kind \in {"done", "end"}

(* The embedder tries a batch no more often than configured and never      *)
(* again after an answer that is not worth it.                             *)
EmbeddingIsTriedEnough ==
  subject = "embedding" =>
    LET call == PostAll(input.limit, input.responses)
        kind(i) == input.responses[i].kind
    IN /\ call.result # "trying" /\ call.attempts \in 1 .. input.limit.retries + 1
       /\ \A i \in 1 .. call.attempts - 1 : kind(i) \in Retryable
       /\ (call.result = "ok") = (kind(call.attempts) = "ok")

(* The n-th vector is the n-th text's, at every batch size.                *)
VectorsBelongToTexts ==
  subject = "batches" =>
    Embed(input.texts, input.batch, [t \in ToSet(input.texts) |-> <<t>>])
      = [i \in DOMAIN input.texts |-> <<input.texts[i]>>]

(* Filling in missing vectors may stop after any batch and start again: it *)
(* then goes on where it was, recomputes nothing, and gives each chunk the *)
(* vector of its own text.                                                 *)
EmbeddingResumes ==
  subject = "batches" =>
    LET all == [id \in ToSet(input.texts) |-> <<id>>]
        done(vectors, n) == EmbedMissing(input.texts, vectors, input.batch, all, n)
        start == [id \in ToSet(input.texts) \cap {2} |-> <<0>>]
    IN /\ done(<<>>, Len(input.texts)) = all
       /\ \A m, n \in 0..2 : done(done(start, m), n) = done(start, m + n)
       /\ \A n \in 0..3, id \in DOMAIN start : done(start, n)[id] = <<0>>

-----------------------------------------------------------------------------
(* Requests. *)

(* A login's token opens the routes of its user's role, in its user's      *)
(* tenant, from the login until it expires or the secret changes; nothing  *)
(* else opens them, no body over the limit gets to one, and what the       *)
(* application answers carries a usable request id.                        *)
RequestsAreAdmitted ==
  subject = "request" =>
    LET settings == [ttl |-> 2, secret |-> "now", issuer |-> "normeon"]
        limits == [upload |-> 3, request |-> 1]
        users == {[email |-> "a", tenant |-> 1, role |-> input.role,
                   password |-> HashPassword("right")]}
        token == IF input.login = "none" THEN NoToken
                 ELSE Login([settings EXCEPT !.secret = input.secret], users, "a",
                            input.login, 1)
        request == input.request
        response == Respond(settings, limits, input.route, request, token, input.now,
                            [acceptable |-> TRUE, name |-> "fresh"])
        open == /\ input.login = "right" /\ input.role \in Roles
                /\ input.secret = "now" /\ input.now \in 1..2
    IN /\ response.id.acceptable
       /\ response.status = 200 =>
            /\ request.method = "POST" => request.length <= BodyLimit(limits, request.path)
            /\ input.route.needs # "nobody" =>
                 open /\ response.caller.tenant = 1 /\ response.caller.role = input.role
            /\ input.route.needs = "admin" => input.role = "admin"
       /\ open /\ request.method = "GET" =>
            response.status = IF input.route.needs = "admin" /\ input.role # "admin"
                              THEN 403 ELSE 200

(* Another tenant's documents, chunks and questions change no answer: what *)
(* a route finds by a key alone is the caller's own                        *)
(* (services/chunks.py:42-56).                                             *)
OthersAreInvisible ==
  subject = "database" =>
    LET db == input.db
        alone == [rows \in DOMAIN db |-> OfTenant(db[rows], input.tenant)]
    IN /\ ListDocuments(db, input.tenant) = ListDocuments(alone, input.tenant)
       /\ Stats(db, input.tenant, 2, 4, 2) = Stats(alone, input.tenant, 2, 4, 2)
       /\ \A id \in 1..3 :
            /\ DocumentStatus(db, input.tenant, id) = DocumentStatus(alone, input.tenant, id)
            /\ DocumentFile(db, input.store, input.tenant, id)
                 = DocumentFile(alone, input.store, input.tenant, id)
       /\ \A chunk \in db.chunks : \A window \in 0..1 :
            ChunkContext(db, input.tenant, chunk, window)
              = ChunkContext(alone, input.tenant, chunk, window)

(* The list and the statistics count the same documents and chunks; a PDF  *)
(* that can be shown is one of the list; the latest questions are the      *)
(* window's; and a question costs no more, on the average, than those do   *)
(* whose cost is known.                                                    *)
StatisticsCountTheList ==
  subject = "database" =>
    LET db == input.db
        list == ListDocuments(db, input.tenant)
        stats == Stats(db, input.tenant, 2, 4, 2)
        known == {q \in OfTenant(db.queries, input.tenant) : q.at >= 2 /\ q.cost # Nothing}
        priced == <<Total([q \in known |-> q.cost[1]]), Cardinality(known)>>
    IN /\ Total(stats.documents) = Cardinality(list)
       /\ Total([d \in list |-> Total(d.chunks)]) = stats.chunks
       /\ \A id \in 1..3 : DocumentFile(db, input.store, input.tenant, id).status = 200 =>
            \E d \in list : d.id = id
       /\ Len(stats.recent) = Min({2, stats.queries})
       /\ \A q \in ToSet(stats.recent) : q.tenant = input.tenant /\ q.at >= 2
       /\ known # {} => ~Below(priced, stats.cost_usd_per_query)

-----------------------------------------------------------------------------
(* What the callers of each part rely on, together. *)

(* A question is answered from the right chunks: fusion, budget, cache and *)
(* context (services/retrieval/, adapters/reranker/, domain/fusion.py).    *)
SearchIsSound ==
  /\ FusionRewardsAgreement /\ SameBudgetInEveryMode
  /\ CacheIsTransparent /\ ContextIsGreedy /\ MoreAddsAtTheEnd

(* An answer cites what it was offered and is shown as it is               *)
(* (domain/citations.py, domain/conflicts.py, chat/answer-segments.ts).    *)
AnswersAreSound ==
  EveryMarkerResolves /\ AnswerIsShownWhole /\ ProgressIsOneStep /\ ConflictsAreComplete

(* A PDF is read in order, and OCR never leaves less (adapters/parsing/).  *)
PagesAreSound == PagesAreReadInOrder /\ OcrOnlyAdds

(* Every word of a document is in its chunks, in linked rows               *)
(* (domain/chunking.py, services/ingestion.py, services/chunks.py).        *)
ChunksAreSound ==
  /\ EveryWordIsChunked /\ SectionsPartition /\ StoredChunksAreLinked
  /\ BackfillGivesRegions /\ ContextHasNoGaps

(* The index holds every word of a document, in linked rows and in the     *)
(* form a question is looked up in (adapters/parsing/, domain/chunking.py, *)
(* domain/normalization.py, services/ingestion.py, services/chunks.py).    *)
IndexIsSound ==
  /\ PagesAreSound /\ FormatsAgree /\ ChunksAreSound
  /\ SpellingsAgree /\ NormalizationSettles /\ CodesAreIndexed

(* The evaluation's numbers agree with each other (eval/metrics.py,        *)
(* eval/stats.py, eval/matrix.py, eval/agreement.py, eval/chart.py).       *)
NumbersAreSound ==
  /\ RecallIsShareOfHits /\ RatesCountRuns /\ ReportIsWhole /\ RetrievalAloneAgrees
  /\ CategoriesAddUp /\ PercentilesAreOrdered
  /\ PairedIsADifference /\ KappaMeasuresAgreement

(* Every call to a model's server and every stream ends within its bounds  *)
(* and delivers each thing once, in order (adapters/llm/,                  *)
(* adapters/embedding/, scripts/embed_missing.py, api/sse.ts).             *)
ClientsAreBounded ==
  /\ FramesDoNotDependOnChunking /\ RetriesStayBounded /\ SilentStreamEnds
  /\ EmbeddingIsTriedEnough /\ VectorsBelongToTexts /\ EmbeddingResumes

(* Every request is answered within its caller's rights and tenant, and    *)
(* its answers agree with each other (core/limits.py, core/security.py,    *)
(* core/request_context.py, api/v1/).                                      *)
RequestsAreConfined ==
  RequestsAreAdmitted /\ OthersAreInvisible /\ StatisticsCountTheList
=============================================================================
