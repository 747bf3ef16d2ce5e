------------------------------ MODULE Ordering ------------------------------
(***************************************************************************)
(* Python's sorted lists, sums, comprehensions with a condition and lists  *)
(* without repetitions, as the algorithms use them.                        *)
(***************************************************************************)
EXTENDS Integers, Sequences, FiniteSets, SequencesExt

(* The sum of a function's values. *)
Total(f) == MapThenSumSet(LAMBDA x : f[x], DOMAIN f)

(* q without the repetitions, in the order of first appearance. *)
Distinct(q) ==
  FoldLeft(LAMBDA seen, x : IF Contains(seen, x) THEN seen ELSE Append(seen, x), <<>>, q)

(* The entries, scores with places, that come before e: better ones, ties  *)
(* as they came.                                                           *)
Ahead(entries, e) ==
  {f \in entries : f.score > e.score \/ (f.score = e.score /\ f.place < e.place)}

(* Python's sorted(..., reverse=True): the n-th has n - 1 ahead of it. *)
StableBest(q, score) ==
  LET entries == {[score |-> score[q[i]], place |-> i] : i \in DOMAIN q}
      nth(n) == CHOOSE e \in entries : Cardinality(Ahead(entries, e)) = n - 1
  IN [n \in DOMAIN q |-> q[nth(n).place]]

(* Python's sorted(...) of numbers. *)
Ascending(q) == StableBest(q, [x \in ToSet(q) |-> -x])

(* The numbers of a finite set in their order: the n-th has n - 1 below it. *)
InOrder(S) ==
  [n \in 1 .. Cardinality(S) |-> CHOOSE i \in S : Cardinality({j \in S : j < i}) = n - 1]

(* The elements of q at these places, as they come in q. *)
At(q, places) ==
  LET order == InOrder(places) IN [n \in DOMAIN order |-> q[order[n]]]
=============================================================================
