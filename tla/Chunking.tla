------------------------------ MODULE Chunking ------------------------------
(***************************************************************************)
(* How a parsed document becomes stored chunks: the two strategies of      *)
(* domain/chunking.py, the insert and the parent links of                  *)
(* services/ingestion.py, the later filling of regions                     *)
(* (scripts/backfill_chunk_regions.py) and the neighbours shown around a   *)
(* cited chunk (services/chunks.py).  Pure operators.                      *)
(*                                                                         *)
(* A document is a sequence of blocks [path, title, page, box, words]:     *)
(* path is the section code as a sequence of its parts (<<>> for none),    *)
(* title says whether the block is a heading, box is its place on the      *)
(* page.  A region is the page and the place of a block.                   *)
(* Ordinals start at 1 here, at 0 in the code.                             *)
(***************************************************************************)
EXTENDS Ordering

None == 0

(* A word is given by its letters. *)
Block == [path : Seq(STRING), title : BOOLEAN, page : Nat, box : Nat,
          words : Seq(Seq(Nat))]

(* _flatten_words: each word with its block. *)
WordsOf(blocks, b) ==
  [i \in DOMAIN blocks[b].words |->
    [text |-> blocks[b].words[i], page |-> blocks[b].page,
     path |-> blocks[b].path, region |-> <<blocks[b].page, blocks[b].box>>]]

FlattenWords(blocks) == FlattenSeq([b \in DOMAIN blocks |-> WordsOf(blocks, b)])

Texts(words) == [i \in DOMAIN words |-> words[i].text]

Regions(words) == Distinct([i \in DOMAIN words |-> words[i].region])

(* A chunk of these words; its content is what the hash is taken of. *)
ChunkOf(words, breadcrumb, path, parent) ==
  [content |-> <<breadcrumb, Texts(words)>>,
   pages   |-> <<Min({w.page : w \in ToSet(words)}), Max({w.page : w \in ToSet(words)})>>,
   path    |-> path,
   parent  |-> parent,
   regions |-> Regions(words)]

-----------------------------------------------------------------------------
(* fixed_500.  round() halves to even; overlap is a percentage. *)
Step(window, overlap) ==
  LET n == window * (100 - overlap)
      up == n % 100 > 50 \/ (n % 100 = 50 /\ (n \div 100) % 2 = 1)
  IN Max({1, (n \div 100) + (IF up THEN 1 ELSE 0)})

(* The windows <<first, last>>; the one that reaches the end is the last. *)
Windows(total, window, step) ==
  LET count == CHOOSE n \in 1..total :
                 /\ (n - 1) * step + window >= total
                 /\ \A m \in 1 .. n - 1 : (m - 1) * step + window < total
  IN IF total = 0 THEN <<>>
     ELSE [i \in 1..count |-> <<(i - 1) * step + 1, Min({(i - 1) * step + window, total})>>]

FixedChunks(blocks, window, overlap) ==
  LET words == FlattenWords(blocks)
      cut == Windows(Len(words), window, Step(window, overlap))
  IN [i \in DOMAIN cut |->
       ChunkOf(SubSeq(words, cut[i][1], cut[i][2]), <<>>, words[cut[i][1]].path, None)]

-----------------------------------------------------------------------------
(* structural.  A section is a path with the words of its blocks. *)
Section(path, words) == [path |-> path, words |-> words]

NextBlock(blocks, groups, b) ==
  LET same == groups # <<>> /\ Last(groups).path = blocks[b].path
      before == IF same THEN Last(groups).words ELSE <<>>
  IN Append(IF same THEN Front(groups) ELSE groups,
            Section(blocks[b].path, before \o WordsOf(blocks, b)))

GroupIntoLeafSections(blocks) ==
  FoldLeft(LAMBDA groups, b : NextBlock(blocks, groups, b), <<>>, [b \in DOMAIN blocks |-> b])

(* A section below the floor joins the next one and takes its path; what   *)
(* is left at the end stays small.                                         *)
MergeNext(floor, acc, g) ==
  LET current == Section(g.path, acc.pending \o g.words)
  IN IF Len(current.words) < floor
     THEN [acc EXCEPT !.pending = current.words, !.path = g.path, !.waits = TRUE]
     ELSE [merged |-> Append(acc.merged, current), pending |-> <<>>,
           path |-> <<>>, waits |-> FALSE]

MergeSmallSections(groups, floor) ==
  LET all == FoldLeft(LAMBDA acc, g : MergeNext(floor, acc, g),
                      [merged |-> <<>>, pending |-> <<>>, path |-> <<>>, waits |-> FALSE], groups)
  IN all.merged \o (IF all.waits THEN <<Section(all.path, all.pending)>> ELSE <<>>)

(* The headings of a path and of its ancestors, each the first of its code. *)
HeadingOf(blocks, code) ==
  LET titles == {b \in DOMAIN blocks : blocks[b].title /\ code # <<>> /\ blocks[b].path = code}
  IN IF titles = {} THEN <<>> ELSE <<blocks[Min(titles)].words>>

Breadcrumb(blocks, path) ==
  FlattenSeq([i \in DOMAIN path |-> HeadingOf(blocks, SubSeq(path, 1, i))])

(* One section's pieces; all but the first point to the first. *)
Pieces(blocks, section, ceiling, ordinal) ==
  LET n == (Len(section.words) + ceiling - 1) \div ceiling
  IN [i \in 1..n |->
       ChunkOf(SubSeq(section.words, (i - 1) * ceiling + 1, Min({i * ceiling, Len(section.words)})),
               Breadcrumb(blocks, section.path), section.path,
               IF i = 1 THEN None ELSE ordinal)]

StructuralChunks(blocks, floor, ceiling) ==
  FoldLeft(LAMBDA chunks, section :
             chunks \o Pieces(blocks, section, ceiling, Len(chunks) + 1),
           <<>>, MergeSmallSections(GroupIntoLeafSections(blocks), floor))

-----------------------------------------------------------------------------
(* The rows of one document and strategy, by their ordinal.  Of chunks     *)
(* with the same content the first is stored, and none that is stored      *)
(* already.  parent is the ordinal of the row parent_id names.             *)
Stored(chunks, rows) ==
  LET new == {o \in DOMAIN chunks :
                /\ \A p \in 1 .. o - 1 : chunks[p].content # chunks[o].content
                /\ \A p \in DOMAIN rows : rows[p].content # chunks[o].content}
  IN [o \in DOMAIN rows \cup new |->
       IF o \in DOMAIN rows THEN rows[o] ELSE [chunks[o] EXCEPT !.parent = None]]

(* A plausible mistake, for a mutant. *)
ParentPrevious(rows, chunks, o) ==
  IF o \in DOMAIN chunks /\ chunks[o].parent # None /\ o - 1 \in DOMAIN rows
  THEN o - 1 ELSE rows[o].parent

ParentId(rows, chunks, o) ==
  IF o \in DOMAIN chunks /\ chunks[o].parent \in DOMAIN rows
  THEN chunks[o].parent ELSE rows[o].parent

InsertChunks(chunks, rows) ==
  LET all == Stored(chunks, rows)
  IN [o \in DOMAIN all |-> [all[o] EXCEPT !.parent = ParentId(all, chunks, o)]]

(* _backfill: every chunk in turn fills the rows of its content that have  *)
(* no regions yet.  The chunks are those of another parse, without OCR     *)
(* (backfill_chunk_regions.py:33): not always those that were stored.      *)
Fill(rows, chunk) ==
  [o \in DOMAIN rows |->
    IF rows[o].content = chunk.content /\ rows[o].regions = <<>>
    THEN [rows[o] EXCEPT !.regions = chunk.regions] ELSE rows[o]]

Backfill(chunks, rows) == FoldLeft(Fill, rows, chunks)

(* get_chunk_context: the rows before and after a chunk of one document and *)
(* strategy, by their ordinals; who may ask for it is ChunkContext's.       *)
Neighbours(rows, o, window) ==
  [before |-> {p \in DOMAIN rows : p < o /\ o - p <= window},
   after  |-> {p \in DOMAIN rows : p > o /\ p - o <= window}]
=============================================================================
