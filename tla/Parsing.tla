------------------------------- MODULE Parsing -------------------------------
(***************************************************************************)
(* What a PDF page or a DOCX body becomes: blocks in reading order, with   *)
(* tables as Markdown, running headers left out, headings found and every  *)
(* block given the section it stands in (adapters/parsing/pdf.py and       *)
(* docx.py).  Pure operators.                                              *)
(*                                                                         *)
(* A text is a record [lead, code, chars, id]: what it begins with         *)
(* ("number" and a space, "glued" for a number without one, "paragraph"    *)
(* for a paragraph sign with its number, else "none"), the number's parts, *)
(* its length and what tells it from other texts.  A box is <<left, top,   *)
(* right, bottom>> in whole points.  A table's rows are sequences of       *)
(* cells, a cell is its text's length.                                     *)
(***************************************************************************)
EXTENDS Ordering

Tolerance == 2
Grouping == 5
NoPath == <<>>

-----------------------------------------------------------------------------
(* Tables: every row is cut or filled to the header's width. *)
Widened(row, width) == [c \in 1..width |-> IF c \in DOMAIN row THEN row[c] ELSE 0]

TableToMarkdown(rows) == [r \in DOMAIN rows |-> Widened(rows[r], Len(rows[1]))]

(* A line is its cells between bars; the rule under the header has three   *)
(* dashes a cell; lines are joined by line feeds.                          *)
Line(cells) == 1 + Total([c \in DOMAIN cells |-> cells[c] + 3])

MarkdownChars(rows) ==
  IF rows = <<>> THEN 0
  ELSE Line([c \in DOMAIN rows[1] |-> 3]) + Total([r \in DOMAIN rows |-> 1 + Line(rows[r])])

Chars(b) == IF b.kind = "table" THEN MarkdownChars(b.rows) ELSE b.text.chars

PageChars(blocks) == Total([i \in DOMAIN blocks |-> Chars(blocks[i])])

-----------------------------------------------------------------------------
(* A page [texts, tables, ocr]: the text layer's items and the recognised  *)
(* ones are [box, size, text], the tables [box, rows].                     *)
Box == Int \X Int \X Int \X Int
Reading == [lead : STRING, code : Seq(STRING), id : STRING, chars : Nat]
Item == [box : Box, size : Nat, text : Reading]
Page == [texts : Seq(Item), tables : Seq([box : Box, rows : Seq(Seq(Nat))]), ocr : Seq(Item)]

BoxInside(outer, inner) ==
  /\ \A side \in {1, 2} : inner[side] >= outer[side] - Tolerance
  /\ \A side \in {3, 4} : inner[side] <= outer[side] + Tolerance

ExtractTextBlocks(items, page, tables) ==
  LET kept(item) == /\ item.text.chars > 0
                    /\ \A t \in ToSet(tables) : ~BoxInside(t.box, item.box)
      blocks == At(items, {i \in DOMAIN items : kept(items[i])})
  IN [i \in DOMAIN blocks |->
       [kind |-> "text", page |-> page, box |-> blocks[i].box, size |-> blocks[i].size,
        text |-> blocks[i].text, title |-> FALSE, path |-> NoPath]]

(* A table without rows makes no block, but its box still takes texts.     *)
ExtractTables(tables, page) ==
  LET full == At(tables, {i \in DOMAIN tables : tables[i].rows # <<>>})
  IN [i \in DOMAIN full |->
       [kind |-> "table", page |-> page, box |-> full[i].box, size |-> 0,
        rows |-> TableToMarkdown(full[i].rows), title |-> FALSE, path |-> NoPath]]

(* Sorted by the top edge, in place where that is equal. *)
ByTop(blocks) == StableBest(blocks, [b \in ToSet(blocks) |-> -b.box[2]])

(* A page with little text is read by OCR, when there is one, and the      *)
(* longer reading is taken.                                                *)
Layer(page, n) ==
  ExtractTextBlocks(page.texts, n, page.tables) \o ExtractTables(page.tables, n)

ReadByOcr(page, n, ocr, minChars) ==
  /\ ocr /\ PageChars(Layer(page, n)) < minChars
  /\ PageChars(ExtractTextBlocks(page.ocr, n, <<>>)) > PageChars(Layer(page, n))

PageBlocks(page, n, ocr, minChars) ==
  ByTop(IF ReadByOcr(page, n, ocr, minChars)
        THEN ExtractTextBlocks(page.ocr, n, <<>>) ELSE Layer(page, n))

-----------------------------------------------------------------------------
(* A header or footer is whatever stands at one place, to a few points, of *)
(* more than three pages in five; its text is not looked at.               *)
Anchor(b) ==
  [side \in {1, 2} |-> (b.box[side] + Grouping \div 2) \div Grouping]

FilterRepeatedHeadersFooters(blocks, pageCount) ==
  LET pages(a) == {b.page : b \in {c \in ToSet(blocks) : Anchor(c) = a}}
      repeated(b) == /\ Cardinality(pages(Anchor(b))) >= 2
                     /\ 5 * Cardinality(pages(Anchor(b))) > 3 * pageCount
  IN IF pageCount < 2 THEN blocks
     ELSE At(blocks, {i \in DOMAIN blocks : ~repeated(blocks[i])})

(* Twice the median of the sizes above 0. *)
MedianSize(blocks) ==
  LET sized == SelectSeq(blocks, LAMBDA b : b.kind = "text" /\ b.size > 0)
      sizes == SortSeq([i \in DOMAIN sized |-> sized[i].size], LAMBDA a, b : a < b)
      n == Len(sizes)
  IN IF n = 0 THEN 0 ELSE sizes[(n + 1) \div 2] + sizes[n \div 2 + 1]

DetectTitles(blocks) ==
  LET median == MedianSize(blocks)
      heads(b) == /\ b.kind = "text"
                  /\ 2 * b.size > median \/ b.text.lead \in {"number", "paragraph"}
  IN [i \in DOMAIN blocks |-> [blocks[i] EXCEPT !.title = heads(blocks[i])]]

Titles(blocks) == {i \in DOMAIN blocks : blocks[i].title}

(* The blocks with the path of the last title that gives one; code is that *)
(* of each title.                                                          *)
WithPaths(blocks, code) ==
  LET giving == {j \in Titles(blocks) : code[j] # NoPath}
      path(i) == IF giving \cap 1..i = {} THEN NoPath ELSE code[Max(giving \cap 1..i)]
  IN [i \in DOMAIN blocks |-> [blocks[i] EXCEPT !.path = path(i)]]

PdfSectionCode(text) ==
  CASE text.lead = "number" -> text.code
    [] text.lead = "paragraph" -> <<"§">> \o text.code
    [] OTHER -> NoPath

ParsePdf(pages, ocr, minChars) ==
  LET read == FlattenSeq([n \in DOMAIN pages |-> PageBlocks(pages[n], n, ocr, minChars)])
      blocks == DetectTitles(FilterRepeatedHeadersFooters(read, Len(pages)))
  IN [blocks |-> WithPaths(blocks, [i \in Titles(blocks) |-> PdfSectionCode(blocks[i].text)]),
      ocr_pages |-> {n \in DOMAIN pages : ReadByOcr(pages[n], n, ocr, minChars)}]

-----------------------------------------------------------------------------
(* A DOCX is a sequence of paragraphs [kind, heading, text] and tables     *)
(* [kind, rows]; everything is on page 1.  A heading without a number is   *)
(* its own path.                                                           *)
DocxSectionCode(text) ==
  IF text.lead \in {"number", "glued"} THEN text.code ELSE <<text.id>>

DocxBlocks(items) ==
  LET kept == SelectSeq(items, LAMBDA x : IF x.kind = "table" THEN x.rows # <<>>
                                          ELSE x.text.chars > 0)
  IN [i \in DOMAIN kept |->
       IF kept[i].kind = "table"
       THEN [kind |-> "table", page |-> 1, title |-> FALSE, path |-> NoPath,
             rows |-> TableToMarkdown(kept[i].rows)]
       ELSE [kind |-> "text", page |-> 1, title |-> kept[i].heading, path |-> NoPath,
             text |-> kept[i].text]]

ParseDocx(items) ==
  LET blocks == DocxBlocks(items)
  IN WithPaths(blocks, [i \in Titles(blocks) |-> DocxSectionCode(blocks[i].text)])
=============================================================================
