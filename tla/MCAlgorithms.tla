---------------------------- MODULE MCAlgorithms ----------------------------
(* Small inputs for every algorithm of Algorithms. *)
EXTENDS Algorithms

Upto(S, n) == UNION {[1..k -> S] : k \in 0..n}
Rankings(S, n) == {q \in Upto(S, n) : IsInjective(q)}

Fusions ==
  [rankings : Rankings({"a", "b", "c"}, 3) \X Rankings({"a", "b", "c"}, 3)
                \X Rankings({"a", "b", "c"}, 2),
   weights : {<<1, 1, 1>>, <<2, 0, 1>>}, k : {1}]
  \cup [rankings : Upto({"a", "b"}, 3) \X Upto({"a", "b"}, 3), weights : {<<1, 1>>}, k : {60}]

Searches ==
  [mode : {"vector", "fts", "hybrid"}, k : 1..3,
   branch : Rankings(1..3, 3) \X Rankings(1..3, 2) \X {<<>>, <<1>>, <<3, 2>>}]

Reranks ==
  [chunks : {[i \in DOMAIN q |-> [rank |-> i, content |-> q[i]]] : q \in Upto({"x", "y", "z"}, 3)},
   score : [{"x", "y", "z"} -> 1..2], known : SUBSET {"x", "y", "z"}, top : 2..3]

Contexts ==
  [chunks : Upto([document : 1..2, section : {"", "a"}, words : 1..3], 3), budget : {2, 4}]

Answers ==
  [answer : {FlattenSeq(q) : q \in Upto({<<"[S", "1", "]">>, <<"[S", "9", "]">>,
               <<"[S", "1", "2", "]">>, <<" ">>, <<"w">>, <<"[S">>, <<"9", "]">>}, 4)},
   chunks : {<<"c1">>, <<"c1", "c2">>}]

Conflicts == Upto([version : {"", "A", "B"}, codes : SUBSET {"c", "d"}], 3)

ApiSearches ==
  [mode : {"vector", "fts", "hybrid", "pipeline"}, score : [1..3 -> 1..2],
   branch : Rankings(1..3, 3) \X Rankings(1..3, 2) \X {<<>>, <<3, 2>>}]

Progress == [status : {"streaming", "done", "error", "cancelled"}, reached : 0..3]

(* Pages with a running header, a body that starts at one of two places, a *)
(* table that may cover a text, and a scan.                                *)
Text(lead, code, id, chars) == [lead |-> lead, code |-> code, id |-> id, chars |-> chars]
Printed(top, size, text) == [box |-> <<50, top, 500, top + 10>>, size |-> size, text |-> text]
Header == Printed(11, 8, Text("none", <<>>, "header", 4))
Heading == Printed(60, 12, Text("number", <<"1">>, "heading", 4))
Body(top, n) == Printed(top, 10, Text("none", <<>>, ToString(n), n))
Covered == Printed(202, 10, Text("none", <<>>, "cell", 2))
Grid(rows) == [box |-> <<50, 200, 500, 260>>, rows |-> rows]
Sheets ==
  [texts : {<<>>, <<Header>>, <<Body(100, 8), Header>>, <<Header, Heading, Body(140, 8)>>,
            <<Body(100, 2), Covered>>},
   tables : {<<>>, <<Grid(<<>>)>>, <<Grid(<<<<1, 2>>, <<3>>, <<1, 1, 1>>>>)>>},
   ocr : {<<>>, <<Body(30, 15)>>}]
Pdfs == [pages : Upto(Sheets, 2), ocr : {TRUE}, minChars : {5}]
          \cup [pages : [1..3 -> {s \in Sheets : s.tables = <<>> /\ s.ocr = <<>>}],
                ocr : {FALSE}, minChars : {5}]
          \cup [pages : [1..5 -> [texts : {<<Body(100, 8), Header>>, <<Body(100, 8)>>},
                                 tables : {<<>>}, ocr : {<<>>}]],
                ocr : {FALSE}, minChars : {5}]

Items ==
  [kind : {"text"}, heading : {TRUE},
   text : {Text("number", <<"1">>, "h1", 3), Text("number", <<"1", "2">>, "h2", 3)}]
  \cup [kind : {"text"}, heading : {FALSE},
        text : {Text("none", <<>>, "p", 5), Text("none", <<>>, "", 0)}]
  \cup [kind : {"table"}, rows : {<<>>, <<<<2, 1>>, <<3>>>>}]
Outlines == [items : Upto(Items, 4), size : {10, 12}]

(* Block i of a document is on page i; its words differ, or all are alike. *)
BlockAt(i, kind, same) ==
  [path |-> kind.path, title |-> kind.title, page |-> i, box |-> i,
   words |-> [j \in 1 .. kind.n |-> IF same THEN <<>> ELSE <<i, j>>]]

Windowed ==
  [blocks : {<<BlockAt(1, [path |-> <<>>, title |-> FALSE, n |-> a], FALSE),
               BlockAt(2, [path |-> <<"1">>, title |-> FALSE, n |-> b], FALSE)>> :
               a \in 0..6, b \in 0..6},
   window : 2..4, overlap : {0, 15, 50}]

BlockedTexts ==
  {[i \in DOMAIN q |-> BlockAt(i, q[i], same)] : <<q, same>> \in
     Upto([path : {<<>>, <<"1">>, <<"1", "1">>}, title : {FALSE}, n : {0, 1, 3}]
            \cup [path : {<<"1">>, <<"1", "1">>}, title : {TRUE}, n : {1}], 3)
       \X BOOLEAN}

(* Without OCR a scanned page has no blocks. *)
WithoutPage(blocks, scanned) == SelectSeq(blocks, LAMBDA b : b.page # scanned)
Sectioned ==
  {[blocks |-> d, again |-> WithoutPage(d, scanned), floor |-> 2, ceiling |-> 2] :
     <<d, scanned>> \in BlockedTexts \X (0..3)}

Spaced ==
  {t \in Upto({"UN", "R", "LH", "79", "3.2.1", " ", "\n", "-"}, 5) :
     \A i \in 1 .. Len(t) - 1 : t[i] \in Numbers => t[i + 1] \in Separators}

(* Two questions; a run that failed retrieved nothing. *)
Places == [document : {"d"}, section : {<<1>>, <<1, 2>>}, page : {0}]
            \cup [document : {"e"}, section : {<<>>}, page : {2}]
Chunks == {[document |-> "d", section |-> <<1, 2, 3>>, first |-> 1, last |-> 1],
           [document |-> "e", section |-> <<2>>, first |-> 3, last |-> 4],
           [document |-> "e", section |-> <<>>, first |-> 4, last |-> 5]}
Golds == {{}} \cup {{g} : g \in Places}
Runs == [error : {FALSE}, retrieved : Upto(Chunks, 2)] \cup [error : {TRUE}, retrieved : {<<>>}]
QuestionOf(id, gold) == [id |-> id, gold |-> gold, abstain |-> gold = {}, category |-> "a"]
(* Everything retrieved is cited, and nothing retrieved is an abstention. *)
Ran(r) ==
  LET n == Len(r.retrieved)
  IN [citations |-> r.retrieved, abstained |-> n = 0, invented |-> n,
      ms |-> IF r.error THEN [retrieval |-> 0, generation |-> 0, total |-> 0]
             ELSE [retrieval |-> n + 1, generation |-> 3 - n, total |-> 4],
      cost |-> IF n = 0 THEN Nothing ELSE <<n>>] @@ r
Reports ==
  {[questions |-> <<QuestionOf(1, g), QuestionOf(2, h)>>,
    runs |-> 1 :> Ran(r) @@ 2 :> Ran(s),
    scores |-> 1 :> [layer1 |-> TRUE, judge |-> "0"] @@ 2 :> [layer1 |-> FALSE, judge |-> "1"]] :
    g \in Golds, h \in Golds, r \in Runs, s \in Runs}

Outcomes == {q \in Upto([id : 1..3, category : {"a"}, gold_hit : {"hit", "miss", "none"}], 3) :
               \A i, j \in DOMAIN q : i < j => q[i].id < q[j].id}
(* Of n differences: all drawn once, the first only, the last only, all.   *)
Draws == [n \in 1..3 |-> <<[i \in 1..n |-> i], [i \in 1..n |-> 1], [i \in 1..n |-> n],
                           [i \in 1..n |-> (i % n) + 1]>>]
Comparisons == [baseline : Outcomes, candidate : Outcomes, draws : {Draws}, confidence : {500}]

Tables == {q \in Upto([id : 1..2, category : {"a", "b"}, gold_hit : {"hit", "miss", "none"}], 2) :
             \A i, j \in DOMAIN q : i < j => q[i].id < q[j].id}
Latencies == Upto({1, 2, 5}, 5) \ {<<>>}

Raters == UNION {[a : [1..n -> 0..2], b : [1..n -> 0..2]] : n \in 1..3}

Sse == Upto({CR, LF, "data:", "x"}, 5)

Deadlines == [deadline |-> 3, retries |-> 2, retryAfter |-> 2, backoff |-> 2]
Responses == [kind : {"ok", "5xx", "read"}, took : {1, 4}, after : {-1}]
               \cup [kind : {"429"}, took : {1}, after : {-1, 1, 5}]
Completions == [limit : {Deadlines}, responses : [1..3 -> Responses]]

Lines == [kind : {"headers", "keepalive", "delta", "done", "end", "broken"}, after : {1, 3}]
Streams == [limit : {[first |-> 4, idle |-> 2, read |-> 3]}, lines : Upto(Lines, 3)]

Embeddings == [limit : {[retries |-> 2, retryAfter |-> 2]},
               responses : [1..3 -> [kind : {"ok", "429", "5xx", "4xx"}, took : {1}, after : {-1, 5}]]]
Batches == [texts : {[i \in 1..n |-> i] : n \in 0..7}, batch : 1..4]

Asked ==
  [id : {[acceptable |-> FALSE, name |-> "none"], [acceptable |-> TRUE, name |-> "r1"]},
   method : {"GET"}, path : {"documents"}, length : {NoLength}, chunked : {FALSE}]
  \cup [id : {[acceptable |-> TRUE, name |-> "r1"]}, method : {"POST"},
        path : {"documents", "chat"}, length : {NoLength, NotANumber, 1, 2, 3, 4},
        chunked : BOOLEAN]
Requested ==
  [request : Asked, route : [needs : {"nobody", "user", "admin"}], role : {"admin", "reader", "gone"},
   login : {"none", "right", "wrong"}, secret : {"now", "before"}, now : 0..3]

Documents ==
  {[id |-> 1, tenant |-> 1, kind |-> "pdf", status |-> "ready"],
   [id |-> 2, tenant |-> 1, kind |-> "docx", status |-> "embedding"],
   [id |-> 3, tenant |-> 2, kind |-> "pdf", status |-> "failed"]}
Queries ==
  {[tenant |-> 1, at |-> 1, abstained |-> FALSE, ms |-> 9, cost |-> <<4>>],
   [tenant |-> 1, at |-> 2, abstained |-> TRUE, ms |-> 2, cost |-> Nothing],
   [tenant |-> 2, at |-> 3, abstained |-> FALSE, ms |-> 7, cost |-> <<9>>],
   [tenant |-> 1, at |-> 3, abstained |-> FALSE, ms |-> 5, cost |-> <<2>>],
   [tenant |-> 1, at |-> 4, abstained |-> FALSE, ms |-> 1, cost |-> <<3>>]}
ChunksOf(D) ==
  {[document |-> d.id, tenant |-> d.tenant, strategy |-> s, ordinal |-> o] :
     d \in D, s \in {"structural", "fixed_500"}, o \in 1..2}
Databases ==
  [db : {[documents |-> D, chunks |-> ChunksOf(E), queries |-> Q] :
           <<D, E, Q>> \in {t \in (SUBSET Documents) \X (SUBSET Documents) \X (SUBSET Queries) :
                              t[2] \subseteq t[1]}},
   tenant : 1..2, store : {{}, {1, 2, 3}}]

MCInputs ==
  [fusion |-> Fusions, search |-> Searches, api_search |-> ApiSearches, rerank |-> Reranks, context |-> Contexts,
   answer |-> Answers, steps |-> Progress, conflicts |-> Conflicts,
   pdf |-> Pdfs, outline |-> Outlines, windows |-> Windowed,
   sections |-> Sectioned, text |-> Spaced,
   report |-> Reports, paired |-> Comparisons, table |-> Tables \X Tables,
   latencies |-> Latencies, raters |-> Raters, stream |-> Sse,
   complete |-> Completions, deltas |-> Streams, embedding |-> Embeddings, batches |-> Batches,
   request |-> Requested, database |-> Databases]
=============================================================================
