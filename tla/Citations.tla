------------------------------ MODULE Citations ------------------------------
(***************************************************************************)
(* The markers of an answer: which ones the model may cite                 *)
(* (domain/context.py), what is left of its text when the others are       *)
(* removed (domain/citations.py), how the page shows it                    *)
(* (chat/answer-segments.ts), and on which requirement codes the sources   *)
(* disagree (domain/conflicts.py).                                         *)
(*                                                                         *)
(* A text is a sequence of pieces: "[S", a digit, "]", " ", the abstention *)
(* and other words.  A marker is named by its sequence of digits.          *)
(***************************************************************************)
EXTENDS Ordering

Digits == {"1", "2", "9"}
Abstention == <<"NICHT_GEFUNDEN">>

(* build_context numbers the chunks in their order (fewer than ten here).  *)
(* Inside a document's text the brackets of what looks like a marker are   *)
(* replaced, so that only the block's own header reads [S1].               *)
BuildContext(chunks) ==
  LET name == <<"1", "2", "3", "4", "5", "6", "7", "8", "9">>
      number(m) == CHOOSE i \in DOMAIN chunks : m = <<name[i]>>
  IN [m \in {<<name[i]>> : i \in DOMAIN chunks} |-> chunks[number(m)]]

(* The places <<i, j>> of t that match \[S\d+\]. *)
Matches(t) ==
  {p \in (DOMAIN t) \X (DOMAIN t) :
     /\ t[p[1]] = "[S" /\ t[p[2]] = "]" /\ p[1] + 1 < p[2]
     /\ \A i \in p[1] + 1 .. p[2] - 1 : t[i] \in Digits}

(* Matches, from left to right. *)
LeftToRight(matches) ==
  LET starts == InOrder({p[1] : p \in matches})
  IN [k \in DOMAIN starts |-> CHOOSE p \in matches : p[1] = starts[k]]

NameAt(t, p) == SubSeq(t, p[1] + 1, p[2] - 1)

(* The distinct markers of a text, as they first appear. *)
Markers(t) ==
  LET matches == LeftToRight(Matches(t))
  IN Distinct([k \in DOMAIN matches |-> NameAt(t, matches[k])])

(* t without the pieces at these places. *)
Without(t, places) == At(t, DOMAIN t \ places)

(* A plausible mistake, for a mutant. *)
StripFirst(t, m) ==
  LET first == CHOOSE p \in Matches(t) : /\ NameAt(t, p) = m
                                         /\ \A q \in Matches(t) : NameAt(t, q) = m => p[1] <= q[1]
  IN Without(t, first[1] .. first[2])

(* Every occurrence of one marker goes, and a blank before it. *)
StripMarker(t, m) ==
  Without(t, UNION {p[1] .. p[2] \cup (IF p[1] > 1 /\ t[p[1] - 1] = " "
                                       THEN {p[1] - 1} ELSE {})
                    : p \in {q \in Matches(t) : NameAt(t, q) = m}})

Trim(t) ==
  LET ink == {i \in DOMAIN t : t[i] # " "}
  IN IF ink = {} THEN <<>> ELSE SubSeq(t, Min(ink), Max(ink))

(* sources is a function of the offered markers.  A citation is shown with *)
(* the source's chunk.                                                     *)
ExtractAndValidate(answer, sources) ==
  LET markers == Markers(answer)
      offered == {i \in DOMAIN markers : markers[i] \in DOMAIN sources}
      valid == At(markers, offered)
      invented == Without(markers, offered)
      cleaned == Trim(FoldLeft(StripMarker, answer, invented))
      abstains == cleaned # Abstention /\ valid = <<>>
  IN [answer    |-> IF abstains THEN Abstention ELSE cleaned,
      citations |-> [i \in DOMAIN valid |-> [marker |-> valid[i],
                                             chunk  |-> sources[valid[i]]]],
      invented  |-> invented]

(* segmentAnswer: the chips, and between them the text as it stands. *)
SegmentAnswer(t, known) ==
  LET chips == LeftToRight({p \in Matches(t) : NameAt(t, p) \in known})
      text(i, j) == IF i > j THEN <<>>
                    ELSE <<[kind |-> "text", text |-> SubSeq(t, i, j)]>>
      next(acc, p) ==
        [out  |-> acc.out \o text(acc.last + 1, p[1] - 1)
                    \o <<[kind |-> "citation", text |-> SubSeq(t, p[1], p[2])]>>,
         last |-> p[2]]
      all == FoldLeft(next, [out |-> <<>>, last |-> 0], chips)
  IN all.out \o text(all.last + 1, Len(t))

(* stage-progress.ts: the phases of a question as steps; reached is the    *)
(* position of the last one reported, 0 for none.                          *)
Steps == <<"retrieving", "reranking", "generating">>

StepState(status, reached, i) ==
  IF status = "done" \/ i < reached THEN "complete"
  ELSE CASE i > reached -> "pending"
         [] i = reached -> IF status = "streaming" THEN "active" ELSE "stopped"

StageProgress(status, reached) == [i \in DOMAIN Steps |-> StepState(status, reached, i)]

-----------------------------------------------------------------------------
(* The sources in their order, each with a version ("" for none) and the   *)
(* codes its text names.                                                   *)
LabelsOf(sources, code) ==
  LET labelled == At(sources, {i \in DOMAIN sources : /\ sources[i].version # ""
                                                     /\ code \in sources[i].codes})
  IN Distinct([k \in DOMAIN labelled |-> labelled[k].version])

FindVersionConflicts(sources) ==
  LET codes == UNION {s.codes : s \in ToSet(sources)}
  IN [c \in {d \in codes : Len(LabelsOf(sources, d)) >= 2} |-> LabelsOf(sources, c)]
=============================================================================
