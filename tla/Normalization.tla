---------------------------- MODULE Normalization ----------------------------
(***************************************************************************)
(* domain/normalization.py: how an indexed text and a question are brought *)
(* to one form, so that a code or norm reference is one token however it   *)
(* was written, and which requirement codes a text names.                  *)
(*                                                                         *)
(* A text is a sequence of pieces: words, numbers and separators.  Pieces  *)
(* without a separator between them are one word ("R", "79" is R79); a     *)
(* number is always the end of its word.                                   *)
(***************************************************************************)
EXTENDS Ordering

Blank == {" ", "\n"}
Optional == {" ", "-"}
Separators == Blank \cup Optional
Numbers == {"79", "3.2.1"}
Upper == {"UN", "R", "LH"}

Lower(p) == CASE p = "UN" -> "un" [] p = "R" -> "r" [] p = "LH" -> "lh" [] OTHER -> p
Letters(p) == IF Lower(p) = "r" THEN 1 ELSE 2

PiecesWithout(t, places) == At(t, DOMAIN t \ places)

(* \b before the piece at i. *)
Boundary(t, i) == i = 1 \/ t[i - 1] \in Separators

(* The ends of [ \-]? at i. *)
AfterGap(t, i) == {i} \cup (IF i \in DOMAIN t /\ t[i] \in Optional THEN {i + 1} ELSE {})

(* A match is <<i, j, n>>: its letters begin at i and end at j, its number *)
(* is at n.                                                                *)
Spots(t) == (DOMAIN t) \X (DOMAIN t) \X (DOMAIN t)

(* The matches of _REQUIREMENT_CODE: two to four capital letters, then a   *)
(* dotted number.                                                          *)
Codes(t) ==
  {m \in Spots(t) :
     /\ m[1] <= m[2] /\ Boundary(t, m[1])
     /\ \A k \in m[1] .. m[2] : t[k] \in Upper
     /\ MapThenSumSet(LAMBDA k : Letters(t[k]), m[1] .. m[2]) \in 2..4
     /\ m[3] \in AfterGap(t, m[2] + 1) /\ t[m[3]] = "3.2.1"}

(* Of _UN_ECE_NORM, in any case: un, then r and a number. *)
UnNorms(t) ==
  {m \in Spots(t) :
     /\ Lower(t[m[1]]) = "un" /\ Boundary(t, m[1])
     /\ m[2] \in AfterGap(t, m[1] + 1) /\ Lower(t[m[2]]) = "r"
     /\ m[3] \in AfterGap(t, m[2] + 1) /\ t[m[3]] \in Numbers}

(* Of _BARE_R_NORM: r and a number. *)
BareNorms(t) ==
  {m \in Spots(t) :
     /\ m[1] = m[2] /\ Lower(t[m[1]]) = "r" /\ Boundary(t, m[1])
     /\ m[3] \in AfterGap(t, m[1] + 1) /\ t[m[3]] \in Numbers}

(* Every match loses its separators. *)
Collapse(t, matches) ==
  PiecesWithout(t, {p \in DOMAIN t :
                      t[p] \in Separators /\ \E m \in matches : p \in m[1] .. m[3]})

(* Runs of white space become one blank, none at the ends. *)
CollapseBlanks(t) ==
  LET ink == {i \in DOMAIN t : t[i] \notin Blank}
      kept == {i \in DOMAIN t : t[i] \in Blank => /\ i - 1 \in ink
                                                /\ \E j \in ink : j > i}
      one == PiecesWithout(t, DOMAIN t \ kept)
  IN [i \in DOMAIN one |-> IF one[i] \in Blank THEN " " ELSE one[i]]

NormalizeDe(text) ==
  LET codes == Collapse(text, Codes(text))
      un == Collapse(codes, UnNorms(codes))
      bare == Collapse(un, BareNorms(un))
  IN CollapseBlanks([i \in DOMAIN bare |-> Lower(bare[i])])

(* The code a match stands for, in the normal form. *)
CodeOf(t, m) == [k \in 1 .. m[2] - m[1] + 2 |->
                  IF k = m[2] - m[1] + 2 THEN t[m[3]] ELSE Lower(t[m[1] + k - 1])]

ExtractAllCodes(text) == {CodeOf(text, m) : m \in Codes(text)}
=============================================================================
