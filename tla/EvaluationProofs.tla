-------------------------- MODULE EvaluationProofs --------------------------
(***************************************************************************)
(* Proofs about Evaluation, for any question sets, answers, concurrency    *)
(* and number of crashes.  Two arguments: what the program holds, what it  *)
(* wrote and what it is about to write are runs of exactly the questions   *)
(* it was given; a checkpoint whose last line is unended is the debt of    *)
(* one crash that the next append pays; and only a last line can be cut.   *)
(***************************************************************************)
EXTENDS Evaluation, FiniteSetTheorems, SequenceTheorems, TLAPS

PCs == {"idle", "running", "writing", "written", "scoring", "writing_scores", "done"}
Finishing == PCs \ {"idle", "running"}

-----------------------------------------------------------------------------
(* Functions on some of the ids. *)
LEMMA PartialIntro ==
  ASSUME NEW S, NEW D \in SUBSET Ids, NEW f \in [D -> S] PROVE f \in Partial(S)
BY DEF Partial

LEMMA PartialElim ==
  ASSUME NEW S, NEW f \in Partial(S)
  PROVE  /\ DOMAIN f \subseteq Ids /\ f \in [DOMAIN f -> S]
         /\ \A q \in DOMAIN f : f[q] \in S
BY DEF Partial

(* No question at all. *)
LEMMA EmptyPartial == ASSUME NEW S PROVE <<>> \in Partial(S) /\ DOMAIN <<>> = {}
<1>1. <<>> \in Seq(S) /\ Len(<<>>) = 0 BY EmptySeq
<1>2. <<>> \in [1..0 -> S] BY <1>1, LenProperties
<1>3. 1..0 = {} OBVIOUS
<1>4. <<>> \in [{} -> S] BY <1>2, <1>3
<1>5. QED BY <1>4, PartialIntro

(* A set's ids are ids, its texts texts. *)
LEMMA WantedIds ==
  ASSUME NEW s \in DOMAIN Sets
  PROVE  DOMAIN Sets[s] \subseteq Ids /\ \A q \in DOMAIN Sets[s] : Sets[s][q] \in Texts
BY DEF Ids, Texts

(* A file that holds runs or scores is there and whole. *)
LEMMA WholeFiles ==
  ASSUME NEW f \in Partial(RunSet) \cup Partial(ScoreSet) PROVE f # Absent /\ f # Torn
BY FilesAssumption

-----------------------------------------------------------------------------
(* The checkpoint's lines. *)
LastOf(lines, k, q, i) ==
  /\ lines[i].id = q /\ lines[i].whole
  /\ \A j \in i + 1 .. k : lines[j].id = q => ~lines[j].whole

KeptTo(lines, k, q) ==
  \E i \in 1 .. k : LastOf(lines, k, q, i) /\ lines[i].run.answer # Failed

Kept(lines, q) == KeptTo(lines, Len(lines), q)

(* What a run resumes from: the last whole run of each question, unless it *)
(* failed.                                                                 *)
LEMMA LoadIs ==
  ASSUME NEW lines \in Seq(LineSet), NEW wanted
  PROVE  /\ \A q : q \in DOMAIN LoadCheckpoint(lines, wanted)
                    <=> q \in wanted /\ Kept(lines, q)
         /\ \A q \in DOMAIN LoadCheckpoint(lines, wanted) :
              \E i \in 1 .. Len(lines) :
                /\ LoadCheckpoint(lines, wanted)[q] = lines[i].run
                /\ lines[i].id = q /\ lines[i].whole /\ lines[i].run.answer # Failed
<1> DEFINE last(q) == {i \in DOMAIN lines : LastOf(lines, Len(lines), q, i)}
           good == {q \in wanted : \E i \in last(q) : lines[i].run.answer # Failed}
<1>1. DOMAIN lines = 1 .. Len(lines) /\ Len(lines) \in Nat BY LenProperties
<1>2. LoadCheckpoint(lines, wanted) = [q \in good |-> lines[CHOOSE i \in last(q) : TRUE].run]
  BY DEF LoadCheckpoint, LastOf
<1>3. good = {q \in wanted : Kept(lines, q)} BY <1>1 DEF Kept, KeptTo
<1>4. ASSUME NEW q \in good
      PROVE  \E i \in 1 .. Len(lines) :
                /\ lines[CHOOSE k \in last(q) : TRUE].run = lines[i].run
                /\ lines[i].id = q /\ lines[i].whole /\ lines[i].run.answer # Failed
  <2>1. PICK i \in last(q) : lines[i].run.answer # Failed OBVIOUS
  <2>2. ASSUME NEW k \in last(q) PROVE k = i
    <3>1. k \in 1 .. Len(lines) /\ i \in 1 .. Len(lines) BY <1>1
    <3>2. ~(k < i) BY <3>1 DEF LastOf
    <3>3. ~(i < k) BY <3>1 DEF LastOf
    <3>4. QED BY <3>1, <3>2, <3>3
  <2>3. (CHOOSE k \in last(q) : TRUE) = i BY <2>1, <2>2
  <2>4. QED BY <1>1, <2>1, <2>3 DEF LastOf
<1>5. QED BY <1>2, <1>3, <1>4

(* All lines but the last. *)
LEMMA FrontIs ==
  ASSUME NEW lines \in Seq(LineSet), Len(lines) > 0
  PROVE  /\ Front(lines) \in Seq(LineSet) /\ Len(Front(lines)) = Len(lines) - 1
         /\ \A i \in 1 .. Len(lines) - 1 : Front(lines)[i] = lines[i]
<1> DEFINE n == Len(lines)
<1>1. n \in Nat /\ n > 0 BY LenProperties
<1>2. 1 \in Int /\ n - 1 \in Int /\ \A i \in 1 .. n - 1 : lines[i] \in LineSet
  BY <1>1, ElementOfSeq
<1>3. /\ SubSeq(lines, 1, n - 1) \in Seq(LineSet)
      /\ Len(SubSeq(lines, 1, n - 1)) = IF 1 <= n - 1 THEN (n - 1) - 1 + 1 ELSE 0
      /\ \A i \in 1 .. (n - 1) - 1 + 1 : SubSeq(lines, 1, n - 1)[i] = lines[1 + i - 1]
  BY <1>2, SubSeqProperties
<1>4. Front(lines) = SubSeq(lines, 1, n - 1) BY DEF Front
<1>5. Len(Front(lines)) = n - 1
  <2>1. (IF 1 <= n - 1 THEN (n - 1) - 1 + 1 ELSE 0) = n - 1
    <3> HIDE DEF n
    <3>1. QED BY <1>1
  <2>2. QED BY <1>3, <1>4, <2>1
<1>6. ASSUME NEW i \in 1 .. n - 1 PROVE Front(lines)[i] = lines[i]
  <2>1. i \in 1 .. (n - 1) - 1 + 1 /\ 1 + i - 1 = i BY <1>1
  <2>2. QED BY <1>3, <1>4, <2>1
<1>7. QED BY <1>3, <1>4, <1>5, <1>6

(* A line that lands on an unended one. *)
Joined(last, line) == [line EXCEPT !.whole = FALSE, !.cut = @ \/ last.cut]

LEMMA JoinedIs ==
  ASSUME NEW last \in LineSet, NEW line \in LineSet
  PROVE  LET new == Joined(last, line)
         IN /\ new \in LineSet /\ ~new.whole /\ new.ended = line.ended
            /\ new.cut = (line.cut \/ last.cut)
BY DEF Joined, LineSet

(* What an append leaves of the lines before it. *)
LEMMA AppendIs ==
  ASSUME NEW lines \in Seq(LineSet), NEW line \in LineSet
  PROVE  LET new == AppendLine(lines, line)
             n == Len(lines)
         IN /\ new \in Seq(LineSet) /\ n \in Nat
            /\ (n = 0 \/ lines[n].ended) =>
                 /\ Len(new) = n + 1 /\ new[n + 1] = line
                 /\ \A i \in 1 .. n : new[i] = lines[i]
            /\ (n > 0 /\ ~lines[n].ended) =>
                 /\ Len(new) = n /\ new[n] = Joined(lines[n], line)
                 /\ \A i \in 1 .. n - 1 : new[i] = lines[i]
<1> DEFINE n == Len(lines)
<1>1. n \in Nat /\ (lines = <<>>) = (n = 0) BY EmptySeq, LenProperties
<1>2. CASE n = 0 \/ lines[n].ended
  <2>1. AppendLine(lines, line) = Append(lines, line)
    BY <1>1, <1>2 DEF AppendLine, Last
  <2>2. QED BY <1>1, <1>2, <2>1
<1>3. CASE n > 0 /\ ~lines[n].ended
  <2>1. AppendLine(lines, line) = Append(Front(lines), Joined(lines[n], line))
    BY <1>1, <1>3 DEF AppendLine, Last, Joined
  <2>2. /\ Front(lines) \in Seq(LineSet) /\ Len(Front(lines)) = n - 1
        /\ \A i \in 1 .. n - 1 : Front(lines)[i] = lines[i]
    BY <1>3, FrontIs
  <2>3. lines[n] \in LineSet BY <1>1, <1>3, ElementOfSeq
  <2>4. Joined(lines[n], line) \in LineSet BY <2>3, JoinedIs
  <2>5. QED BY <1>1, <1>3, <2>1, <2>2, <2>4
<1>4. QED BY <1>1, <1>2, <1>3

(* One more line decides about its own question if it is whole. *)
LEMMA KeptStep ==
  ASSUME NEW lines, NEW k \in Nat, NEW q
  PROVE  KeptTo(lines, k + 1, q) <=>
           IF lines[k + 1].id = q /\ lines[k + 1].whole
           THEN lines[k + 1].run.answer # Failed
           ELSE KeptTo(lines, k, q)
<1>1. CASE lines[k + 1].id = q /\ lines[k + 1].whole
  <2>1. ASSUME NEW i \in 1 .. k + 1, LastOf(lines, k + 1, q, i) PROVE i = k + 1
    BY <1>1, <2>1 DEF LastOf
  <2>2. LastOf(lines, k + 1, q, k + 1) BY <1>1 DEF LastOf
  <2>3. k + 1 \in 1 .. k + 1 OBVIOUS
  <2>4. QED BY <1>1, <2>1, <2>2, <2>3 DEF KeptTo
<1>2. CASE ~(lines[k + 1].id = q /\ lines[k + 1].whole)
  <2>1. ASSUME NEW i \in 1 .. k
        PROVE  LastOf(lines, k + 1, q, i) <=> LastOf(lines, k, q, i)
    BY <1>2 DEF LastOf
  <2>2. ~LastOf(lines, k + 1, q, k + 1) BY <1>2 DEF LastOf
  <2>3. \A i : i \in 1 .. k + 1 <=> i \in 1 .. k \/ i = k + 1 OBVIOUS
  <2>4. QED BY <1>2, <2>1, <2>2, <2>3 DEF KeptTo
<1>3. QED BY <1>1, <1>2

LEMMA KeptSame ==
  ASSUME NEW a, NEW b, NEW k \in Nat, NEW q, \A i \in 1 .. k : a[i] = b[i]
  PROVE  KeptTo(a, k, q) <=> KeptTo(b, k, q)
<1>1. ASSUME NEW i \in 1 .. k
      PROVE  LastOf(a, k, q, i) <=> LastOf(b, k, q, i)
  BY DEF LastOf
<1>2. QED BY <1>1 DEF KeptTo

(* What an unended last line may still cost: its own question, if the line *)
(* is whole, and that of the next line, which lands on it.                 *)
Debt(lines) ==
  LET n == Len(lines)
  IN IF n = 0 \/ lines[n].ended THEN 0 ELSE IF lines[n].whole THEN 2 ELSE 1

(* Its question had not been answered before. *)
Unsettled(lines) ==
  LET n == Len(lines)
  IN n > 0 /\ ~lines[n].ended /\ lines[n].whole => ~KeptTo(lines, n - 1, lines[n].id)

(* An append undoes the answers to the questions in a set X only, and pays *)
(* for them from the debt of its file.                                     *)
LEMMA AppendCosts ==
  ASSUME NEW lines \in Seq(LineSet), NEW line \in LineSet,
         GivesBack(line.run.answer) => line.whole \/ ~line.ended,
         Unsettled(lines), ~Kept(lines, line.id)
  PROVE  LET new == AppendLine(lines, line) IN
         /\ Unsettled(new)
         /\ \A q : Kept(new, q) /\ q # line.id => Kept(lines, q)
         /\ \E X : /\ IsFiniteSet(X)
                  /\ Cardinality(X) + Debt(new) <= Debt(lines) + (IF line.ended THEN 0 ELSE 2)
                  /\ \A q : ~Kept(new, q) /\ q \notin X =>
                       ~Kept(lines, q) /\ (q = line.id => ~GivesBack(line.run.answer))
<1> DEFINE new == AppendLine(lines, line)
           n == Len(lines)
<1>1. /\ new \in Seq(LineSet) /\ n \in Nat
      /\ (n = 0 \/ lines[n].ended) =>
           /\ Len(new) = n + 1 /\ new[n + 1] = line
           /\ \A i \in 1 .. n : new[i] = lines[i]
      /\ (n > 0 /\ ~lines[n].ended) =>
           /\ Len(new) = n /\ new[n] = Joined(lines[n], line)
           /\ \A i \in 1 .. n - 1 : new[i] = lines[i]
  BY AppendIs
<1> HIDE DEF new
<1>2. IsFiniteSet({}) /\ Cardinality({}) = 0 BY FS_EmptySet
<1>3. IsFiniteSet({line.id}) /\ Cardinality({line.id}) = 1 BY FS_Singleton
<1>4. ~KeptTo(lines, n, line.id) BY DEF Kept
<1>5. CASE n = 0 \/ lines[n].ended
  <2> DEFINE X == IF line.whole \/ line.ended THEN {} ELSE {line.id}
  <2>1. Len(new) = n + 1 /\ new[n + 1] = line /\ \A i \in 1 .. n : new[i] = lines[i]
    BY <1>1, <1>5
  <2>2. ASSUME NEW q
        PROVE  /\ KeptTo(new, n, q) <=> KeptTo(lines, n, q)
               /\ Kept(new, q) <=> IF line.id = q /\ line.whole
                                  THEN line.run.answer # Failed ELSE KeptTo(lines, n, q)
    <3>1. KeptTo(new, n, q) <=> KeptTo(lines, n, q) BY <1>1, <2>1, KeptSame
    <3>2. Kept(new, q) <=> KeptTo(new, n + 1, q) BY <2>1 DEF Kept
    <3>3. KeptTo(new, n + 1, q) <=> IF new[n + 1].id = q /\ new[n + 1].whole
                                    THEN new[n + 1].run.answer # Failed
                                    ELSE KeptTo(new, n, q)
      BY <1>1, KeptStep
    <3>4. QED BY <2>1, <3>1, <3>2, <3>3
  <2>3. Unsettled(new)
    <3>1. Len(new) - 1 = n BY <1>1, <2>1
    <3>2. ~KeptTo(new, Len(new) - 1, line.id) BY <1>4, <2>2, <3>1
    <3>3. QED BY <2>1, <3>2 DEF Unsettled
  <2>4. \A q : Kept(new, q) /\ q # line.id => Kept(lines, q) BY <2>2 DEF Kept
  <2>5. \A q : ~Kept(new, q) /\ q \notin X =>
               ~Kept(lines, q) /\ (q = line.id => ~GivesBack(line.run.answer))
    BY <1>4, <2>2 DEF Kept, GivesBack
  <2>6. IsFiniteSet(X) /\ Cardinality(X) = IF line.whole \/ line.ended THEN 0 ELSE 1
    BY <1>2, <1>3
  <2>7. Debt(lines) = 0 BY <1>5 DEF Debt
  <2>8. Debt(new) = IF line.ended THEN 0 ELSE IF line.whole THEN 2 ELSE 1
    <3>1. Len(new) # 0 BY <1>1, <2>1
    <3>2. new[Len(new)] = line BY <2>1
    <3>3. QED BY <3>1, <3>2 DEF Debt
  <2>9. Cardinality(X) + Debt(new) <= Debt(lines) + (IF line.ended THEN 0 ELSE 2)
    <3> HIDE DEF X
    <3>1. QED BY <2>6, <2>7, <2>8
  <2>10. QED BY <2>3, <2>4, <2>5, <2>6, <2>9 DEF new
<1>6. CASE n > 0 /\ ~lines[n].ended
  <2> DEFINE last == lines[n]
             X == IF last.whole THEN {line.id, last.id} ELSE {line.id}
  <2>1. /\ Len(new) = n /\ n - 1 \in Nat /\ (n - 1) + 1 = n
        /\ ~new[n].whole /\ new[n].ended = line.ended
        /\ \A i \in 1 .. n - 1 : new[i] = lines[i]
    <3>1. Len(new) = n /\ new[n] = Joined(lines[n], line) /\ lines[n] \in LineSet
      BY <1>1, <1>6, ElementOfSeq
    <3>2. ~new[n].whole /\ new[n].ended = line.ended BY <3>1, JoinedIs
    <3>3. QED BY <1>1, <1>6, <3>1, <3>2
  <2>2. ASSUME NEW q
        PROVE  /\ Kept(new, q) <=> KeptTo(lines, n - 1, q)
               /\ Kept(lines, q) <=> IF last.id = q /\ last.whole
                                    THEN last.run.answer # Failed ELSE KeptTo(lines, n - 1, q)
    <3>1. KeptTo(new, n - 1, q) <=> KeptTo(lines, n - 1, q) BY <2>1, KeptSame
    <3>2. KeptTo(new, (n - 1) + 1, q) <=> IF new[(n - 1) + 1].id = q /\ new[(n - 1) + 1].whole
                                          THEN new[(n - 1) + 1].run.answer # Failed
                                          ELSE KeptTo(new, n - 1, q)
      BY <2>1, KeptStep
    <3>3. KeptTo(lines, (n - 1) + 1, q) <=>
            IF lines[(n - 1) + 1].id = q /\ lines[(n - 1) + 1].whole
            THEN lines[(n - 1) + 1].run.answer # Failed
            ELSE KeptTo(lines, n - 1, q)
      BY <2>1, KeptStep
    <3>4. Kept(new, q) <=> KeptTo(new, n, q) BY <2>1 DEF Kept
    <3>5. Kept(lines, q) <=> KeptTo(lines, n, q) BY DEF Kept
    <3> HIDE DEF n
    <3>6. QED BY <2>1, <3>1, <3>2, <3>3, <3>4, <3>5
  <2>3. Unsettled(new) BY <2>1 DEF Unsettled
  <2>4. last.whole => ~KeptTo(lines, n - 1, last.id) BY <1>6 DEF Unsettled
  <2>5. \A q : Kept(new, q) /\ q # line.id => Kept(lines, q) BY <2>2, <2>4
  <2>6. \A q : ~Kept(new, q) /\ q \notin X =>
               ~Kept(lines, q) /\ (q = line.id => ~GivesBack(line.run.answer))
    BY <2>2
  <2>7. IsFiniteSet(X) /\ Cardinality(X) \in Nat
        /\ Cardinality(X) <= (IF last.whole THEN 2 ELSE 1)
    <3>1. {line.id, last.id} = {line.id} \cup {last.id} OBVIOUS
    <3>2. /\ IsFiniteSet({line.id} \cup {last.id})
          /\ Cardinality({line.id} \cup {last.id}) =
               IF last.id \in {line.id} THEN Cardinality({line.id}) ELSE Cardinality({line.id}) + 1
      BY <1>3, FS_AddElement
    <3>3. Cardinality({line.id, last.id}) \in {1, 2} BY <1>3, <3>1, <3>2
    <3>4. QED BY <1>3, <3>1, <3>2, <3>3
  <2>8. Debt(lines) = IF last.whole THEN 2 ELSE 1 BY <1>6 DEF Debt
  <2>9. Debt(new) = IF line.ended THEN 0 ELSE 1 BY <1>6, <2>1 DEF Debt
  <2>10. Cardinality(X) + Debt(new) <= Debt(lines) + (IF line.ended THEN 0 ELSE 2)
    <3> HIDE DEF X
    <3>1. QED BY <2>7, <2>8, <2>9
  <2>11. QED BY <2>3, <2>5, <2>6, <2>7, <2>10 DEF new
<1>7. QED BY <1>1, <1>5, <1>6

-----------------------------------------------------------------------------
(* The invariant. *)
Lines ==
  \A s \in DOMAIN Sets : \A i \in 1 .. Len(ckpt[s]) : ckpt[s][i].whole =>
    /\ ckpt[s][i].id \in DOMAIN Sets[s]
    /\ ckpt[s][i].run.text = Sets[s][ckpt[s][i].id]

Tasks ==
  pc = "running" =>
    DOMAIN task = Wanted /\ DOMAIN runs = {q \in Wanted : task[q] \in {"kept", "finished"}}

Whole == pc \in Finishing => DOMAIN runs = Wanted

Retried ==
  pc # "idle" => \A q \in DOMAIN runs :
    runs[q].answer = Failed => q \in DOMAIN task /\ task[q] = "finished"

Written == pc \in {"written", "scoring", "writing_scores", "done"} => report = runs

Agrees(scores) ==
  DOMAIN runs \subseteq DOMAIN scores
    /\ \A q \in DOMAIN runs : scores[q].answer = runs[q].answer

Scoring ==
  /\ pc = "writing_scores" => Agrees(merged)
  /\ pc = "done" => scored \notin {Absent, Torn} /\ Agrees(scored)

Inv == TypeOK /\ Lines /\ Tasks /\ Whole /\ Retried /\ Written /\ Scoring

(* What is held and what is written down are the questions as they were    *)
(* asked.                                                                  *)
AsAsked(r, s) == \A q \in DOMAIN r : r[q].text = Sets[s][q]

TextInv ==
  /\ pc # "idle" => AsAsked(runs, set)
  /\ report \notin {Absent, Torn} =>
       \E s \in DOMAIN Sets : DOMAIN report = DOMAIN Sets[s] /\ AsAsked(report, s)

(* The initial states. *)
LEMMA InitInv == Init => Inv /\ TextInv
<1> SUFFICES ASSUME Init PROVE Inv /\ TextInv OBVIOUS
<1>1. <<>> \in Seq(LineSet) BY EmptySeq
<1>2. TypeOK BY <1>1, EmptyPartial, BoundsAssumption DEF Init, TypeOK
<1>3. Lines
  <2>1. \A s \in DOMAIN Sets : Len(ckpt[s]) = 0 BY EmptySeq DEF Init
  <2>2. 1 .. 0 = {} OBVIOUS
  <2>3. QED BY <2>1, <2>2 DEF Lines
<1>4. QED
  BY <1>2, <1>3 DEF Init, Inv, TextInv, Tasks, Whole, Retried, Written, Scoring, Finishing

(* Nothing is held by a program that does not run. *)
LEMMA IdleStep ==
  ASSUME Inv, pc' = "idle", task' = <<>>, runs' = <<>>, merged' = <<>>,
         set' \in DOMAIN Sets, UNCHANGED <<report, scored>>, crashes' \in 0..MaxCrashes,
         ckpt' \in [DOMAIN Sets -> Seq(LineSet)], Lines',
         recorded' \in [DOMAIN Sets -> SUBSET Ids]
  PROVE  Inv'
<1>1. TypeOK' BY EmptyPartial DEF Inv, TypeOK
<1>2. QED BY <1>1 DEF Inv, Tasks, Whole, Retried, Written, Scoring, Finishing

LEMMA SwitchSetStep == ASSUME Inv, NEW s \in DOMAIN Sets, SwitchSet(s) PROVE Inv'
<1>1. Lines' BY DEF SwitchSet, Inv, Lines
<1>2. QED BY <1>1, IdleStep DEF SwitchSet, Inv, TypeOK

LEMMA CannotReadScoresStep == ASSUME Inv, CannotReadScores PROVE Inv'
<1>1. Lines' BY DEF CannotReadScores, Inv, Lines
<1>2. QED BY <1>1, IdleStep DEF CannotReadScores, Inv, TypeOK

LEMMA CrashStep == ASSUME Inv, Crash PROVE Inv'
<1>1. Lines' BY DEF Crash, Inv, Lines
<1>2. crashes' \in 0..MaxCrashes BY BoundsAssumption DEF Crash, Die, Inv, TypeOK
<1>3. QED BY <1>1, <1>2, IdleStep DEF Crash, Die, Inv, TypeOK

(* A run of a question of the current set, and its line. *)
LEMMA RunIs ==
  ASSUME set \in DOMAIN Sets, NEW q \in Wanted, NEW a \in Answers \cup {Failed},
         NEW w \in BOOLEAN, NEW e \in BOOLEAN, NEW c \in BOOLEAN
  PROVE  /\ Run(q, a) \in RunSet /\ Run(q, a).text = Sets[set][q] /\ Run(q, a).answer = a
         /\ Line(q, a, w, e, c) \in LineSet
         /\ Line(q, a, w, e, c).id = q /\ Line(q, a, w, e, c).run = Run(q, a)
         /\ Line(q, a, w, e, c).whole = (w /\ a \notin Split)
         /\ Line(q, a, w, e, c).ended = e /\ Line(q, a, w, e, c).cut = c
<1>1. q \in Ids /\ Sets[set][q] \in Texts BY WantedIds DEF Wanted
<1>2. QED BY <1>1 DEF Run, RunSet, Line, LineSet

(* An append of such a line keeps the checkpoints well formed. *)
LEMMA AppendLines ==
  ASSUME Inv, NEW q \in Wanted, NEW a \in Answers \cup {Failed},
         NEW w \in BOOLEAN, NEW e \in BOOLEAN, NEW c \in BOOLEAN,
         ckpt' = [ckpt EXCEPT ![set] = AppendLine(@, Line(q, a, w, e, c))]
  PROVE  ckpt' \in [DOMAIN Sets -> Seq(LineSet)] /\ Lines'
<1> DEFINE old == ckpt[set]
           line == Line(q, a, w, e, c)
           new == AppendLine(old, line)
           n == Len(old)
<1>1. set \in DOMAIN Sets /\ old \in Seq(LineSet) BY DEF Inv, TypeOK
<1>2. /\ line \in LineSet /\ line.id \in DOMAIN Sets[set]
      /\ line.run.text = Sets[set][line.id]
  BY SMTT(60), <1>1, RunIs DEF Wanted
<1> HIDE DEF line
<1>3. /\ new \in Seq(LineSet) /\ n \in Nat
      /\ (n = 0 \/ old[n].ended) =>
           /\ Len(new) = n + 1 /\ new[n + 1] = line
           /\ \A i \in 1 .. n : new[i] = old[i]
      /\ (n > 0 /\ ~old[n].ended) =>
           /\ Len(new) = n /\ new[n] = Joined(old[n], line)
           /\ \A i \in 1 .. n - 1 : new[i] = old[i]
  BY ZenonT(60), <1>1, <1>2, AppendIs
<1>4. ckpt' = [ckpt EXCEPT ![set] = new] /\ ckpt \in [DOMAIN Sets -> Seq(LineSet)]
  BY DEF Inv, TypeOK, line
<1>5. \A i \in 1 .. n : old[i].whole =>
        old[i].id \in DOMAIN Sets[set] /\ old[i].run.text = Sets[set][old[i].id]
  BY <1>1 DEF Inv, Lines
<1> HIDE DEF new, old, n
<1>6. ASSUME NEW i \in 1 .. Len(new), new[i].whole
      PROVE  new[i].id \in DOMAIN Sets[set] /\ new[i].run.text = Sets[set][new[i].id]
  <2>1. CASE n = 0 \/ old[n].ended
    <3>1. CASE i = n + 1 BY <3>1, <2>1, <1>2, <1>3
    <3>2. CASE i # n + 1
      <4>1. i \in 1 .. n BY <2>1, <3>2, <1>3
      <4>2. QED BY <4>1, <2>1, <1>3, <1>5, <1>6
    <3>3. QED BY <3>1, <3>2
  <2>2. CASE n > 0 /\ ~old[n].ended
    <3>1. ~new[n].whole
      <4>1. old[n] \in LineSet BY <2>2, <1>1, <1>3, ElementOfSeq DEF n
      <4>2. QED BY <2>2, <4>1, <1>2, <1>3, JoinedIs
    <3>2. i \in 1 .. n - 1 BY <3>1, <2>2, <1>3, <1>6
    <3>3. QED BY <3>2, <2>2, <1>3, <1>5, <1>6
  <2>3. QED BY <2>1, <2>2, <1>3
<1>7. ckpt' \in [DOMAIN Sets -> Seq(LineSet)] BY <1>3, <1>4
<1>8. Lines'
  <2> SUFFICES ASSUME NEW s \in DOMAIN Sets, NEW i \in 1 .. Len(ckpt'[s]), ckpt'[s][i].whole
               PROVE  /\ ckpt'[s][i].id \in DOMAIN Sets[s]
                      /\ ckpt'[s][i].run.text = Sets[s][ckpt'[s][i].id]
    BY DEF Lines
  <2>1. CASE s = set BY <2>1, <1>1, <1>4, <1>6
  <2>2. CASE s # set BY <2>2, <1>4 DEF Inv, Lines
  <2>3. QED BY <2>1, <2>2
<1>9. QED BY <1>7, <1>8

LEMMA CrashInAppendStep ==
  ASSUME Inv, NEW q \in DOMAIN task, NEW a \in Answers \cup {Failed},
         NEW whole \in BOOLEAN, NEW cut \in BOOLEAN, CrashInAppend(q, a, whole, cut)
  PROVE  Inv'
<1>1. q \in Wanted /\ q \in Ids /\ set \in DOMAIN Sets
  BY WantedIds DEF CrashInAppend, Inv, TypeOK, Tasks, Wanted
<1>2. ckpt' \in [DOMAIN Sets -> Seq(LineSet)] /\ Lines'
  BY <1>1, AppendLines DEF CrashInAppend
<1>3. crashes' \in 0..MaxCrashes BY BoundsAssumption DEF CrashInAppend, Die, Inv, TypeOK
<1>4. recorded' \in [DOMAIN Sets -> SUBSET Ids]
  BY <1>1 DEF CrashInAppend, Inv, TypeOK
<1>5. QED BY <1>1, <1>2, <1>3, <1>4, IdleStep DEF CrashInAppend, Die

(* A reusable report holds a run without an error for every question. *)
LEMMA ReuseStep == ASSUME Inv, Reuse PROVE Inv'
<1>1. /\ set \in DOMAIN Sets /\ report \in Partial(RunSet) /\ DOMAIN report = Wanted
      /\ \A q \in DOMAIN report : report[q].answer # Failed
  BY DEF Reuse, Reusable, Covers, HasErrors, Inv, TypeOK
<1>2. task' \in [Wanted -> {"kept"}] /\ Wanted \in SUBSET Ids
  BY <1>1, WantedIds DEF Reuse, Wanted
<1>3. task' \in Partial({"queued", "running", "kept", "finished"})
  <2>1. task' \in [Wanted -> {"queued", "running", "kept", "finished"}] BY <1>2
  <2>2. QED BY <1>2, <2>1, PartialIntro
<1>4. TypeOK' BY <1>1, <1>3, EmptyPartial DEF Reuse, Inv, TypeOK
<1>5. Lines' BY DEF Reuse, Inv, Lines
<1>6. Tasks' /\ Whole' /\ Retried' /\ Written' /\ Scoring'
  BY <1>1 DEF Reuse, Tasks, Whole, Retried, Written, Scoring, Wanted
<1>7. QED BY <1>4, <1>5, <1>6 DEF Inv

(* What a checkpoint gives back is a run of each of its questions. *)
LEMMA LoadTypes ==
  ASSUME Inv
  PROVE  LET done == LoadCheckpoint(ckpt[set], Wanted) IN
         /\ done \in Partial(RunSet) /\ DOMAIN done \subseteq Wanted
         /\ \A q \in DOMAIN done : done[q].answer # Failed
         /\ AsAsked(done, set)
<1> DEFINE lines == ckpt[set]
           done == LoadCheckpoint(lines, Wanted)
<1>1. set \in DOMAIN Sets /\ lines \in Seq(LineSet) BY DEF Inv, TypeOK
<1>2. Wanted \subseteq Ids BY <1>1, WantedIds DEF Wanted
<1>3. /\ DOMAIN done \subseteq Wanted
      /\ \A q \in DOMAIN done : \E i \in 1 .. Len(lines) :
           /\ done[q] = lines[i].run
           /\ lines[i].id = q /\ lines[i].whole /\ lines[i].run.answer # Failed
  <2> HIDE DEF lines
  <2>1. /\ \A q : q \in DOMAIN LoadCheckpoint(lines, Wanted)
                    <=> q \in Wanted /\ Kept(lines, q)
        /\ \A q \in DOMAIN LoadCheckpoint(lines, Wanted) : \E i \in 1 .. Len(lines) :
             /\ LoadCheckpoint(lines, Wanted)[q] = lines[i].run
             /\ lines[i].id = q /\ lines[i].whole /\ lines[i].run.answer # Failed
    BY <1>1, LoadIs
  <2>2. QED BY <2>1
<1>4. done = [q \in DOMAIN done |-> done[q]] BY DEF LoadCheckpoint
<1> HIDE DEF done
<1>5. ASSUME NEW q \in DOMAIN done
      PROVE  done[q] \in RunSet /\ done[q].answer # Failed /\ done[q].text = Sets[set][q]
  <2>1. PICK i \in 1 .. Len(lines) : /\ done[q] = lines[i].run /\ lines[i].id = q
                                     /\ lines[i].whole /\ lines[i].run.answer # Failed
    BY <1>3
  <2>2. lines[i] \in LineSet BY <1>1, ElementOfSeq
  <2>3. lines[i].run.text = Sets[set][q] BY <1>1, <2>1 DEF Inv, Lines
  <2>4. QED BY <2>1, <2>2, <2>3 DEF LineSet
<1>6. done \in Partial(RunSet)
  <2>1. done \in [DOMAIN done -> RunSet] BY <1>4, <1>5
  <2>2. DOMAIN done \in SUBSET Ids BY <1>2, <1>3
  <2>3. QED BY <2>1, <2>2, PartialIntro
<1>7. AsAsked(done, set) BY <1>5 DEF AsAsked
<1>8. QED BY <1>3, <1>5, <1>6, <1>7 DEF done

LEMMA RunEvaluationStep == ASSUME Inv, RunEvaluation PROVE Inv'
<1> DEFINE done == LoadCheckpoint(ckpt[set], Wanted)
<1>1. /\ done \in Partial(RunSet) /\ DOMAIN done \subseteq Wanted
      /\ \A q \in DOMAIN done : done[q].answer # Failed
  BY LoadTypes
<1>2. /\ pc' = "running" /\ runs' = done /\ merged' = <<>>
      /\ task' = [q \in Wanted |-> IF q \in DOMAIN done THEN "kept" ELSE "queued"]
      /\ UNCHANGED <<set, ckpt, report, scored, crashes, recorded>>
  BY DEF RunEvaluation
<1> HIDE DEF done
<1>3. Wanted \in SUBSET Ids BY WantedIds DEF Inv, TypeOK, Wanted
<1>4. task' \in Partial({"queued", "running", "kept", "finished"})
  <2>1. task' \in [Wanted -> {"queued", "running", "kept", "finished"}] BY <1>2
  <2>2. QED BY <1>3, <2>1, PartialIntro
<1>5. TypeOK' BY <1>1, <1>2, <1>4, EmptyPartial DEF Inv, TypeOK
<1>6. Lines' BY <1>2 DEF Inv, Lines
<1>7. Tasks' BY <1>1, <1>2 DEF Tasks, Wanted
<1>8. Retried' BY <1>1, <1>2 DEF Retried
<1>9. Whole' /\ Written' /\ Scoring' BY <1>2 DEF Whole, Finishing, Written, Scoring
<1>10. QED BY <1>5, <1>6, <1>7, <1>8, <1>9 DEF Inv

(* A task's new state. *)
LEMMA TaskTypes ==
  ASSUME Inv, NEW q \in DOMAIN task, NEW t \in {"queued", "running", "kept", "finished"},
         task' = [task EXCEPT ![q] = t]
  PROVE  /\ task' \in Partial({"queued", "running", "kept", "finished"})
         /\ DOMAIN task' = DOMAIN task
         /\ \A p \in DOMAIN task : task'[p] = IF p = q THEN t ELSE task[p]
<1>1. /\ DOMAIN task \subseteq Ids
      /\ task \in [DOMAIN task -> {"queued", "running", "kept", "finished"}]
  <2>1. task \in Partial({"queued", "running", "kept", "finished"}) BY DEF Inv, TypeOK
  <2>2. QED BY <2>1, PartialElim
<1>2. task' \in [DOMAIN task -> {"queued", "running", "kept", "finished"}] BY <1>1
<1>3. QED BY <1>1, <1>2, PartialIntro

LEMMA StartQuestionStep ==
  ASSUME Inv, NEW q \in DOMAIN task, StartQuestion(q) PROVE Inv'
<1>1. /\ task' \in Partial({"queued", "running", "kept", "finished"})
      /\ DOMAIN task' = DOMAIN task
      /\ \A p \in DOMAIN task : task'[p] = IF p = q THEN "running" ELSE task[p]
  BY TaskTypes DEF StartQuestion
<1>2. /\ pc = "running" /\ pc' = "running" /\ task[q] = "queued"
      /\ UNCHANGED <<set, ckpt, report, scored, runs, merged, crashes, recorded>>
  BY DEF StartQuestion
<1>3. TypeOK' BY <1>1, <1>2 DEF Inv, TypeOK
<1>4. Lines' BY <1>2 DEF Inv, Lines
<1>5. Tasks' BY <1>1, <1>2 DEF Inv, Tasks, Wanted
<1>6. Retried' BY <1>1, <1>2 DEF Inv, Retried
<1>7. Whole' /\ Written' /\ Scoring' BY <1>2 DEF Whole, Finishing, Written, Scoring
<1>8. QED BY <1>3, <1>4, <1>5, <1>6, <1>7 DEF Inv

LEMMA FinishQuestionStep ==
  ASSUME Inv, NEW q \in DOMAIN task, NEW a \in Answers \cup {Failed}, FinishQuestion(q, a)
  PROVE  Inv'
<1>1. /\ task' \in Partial({"queued", "running", "kept", "finished"})
      /\ DOMAIN task' = DOMAIN task
      /\ \A p \in DOMAIN task : task'[p] = IF p = q THEN "finished" ELSE task[p]
  BY TaskTypes DEF FinishQuestion
<1>2. /\ pc = "running" /\ pc' = "running" /\ task[q] = "running"
      /\ UNCHANGED <<set, report, scored, merged, crashes>>
      /\ runs' = [p \in DOMAIN runs \cup {q} |-> IF p = q THEN Run(q, a) ELSE runs[p]]
  BY DEF FinishQuestion
<1>3. q \in Wanted /\ DOMAIN task = Wanted /\ Wanted \subseteq Ids /\ set \in DOMAIN Sets
      /\ DOMAIN runs = {p \in Wanted : task[p] \in {"kept", "finished"}}
  BY <1>2, WantedIds DEF Inv, TypeOK, Tasks, Wanted
<1>4. ckpt' \in [DOMAIN Sets -> Seq(LineSet)] /\ Lines'
  BY <1>3, AppendLines DEF FinishQuestion
<1>5. Run(q, a) \in RunSet BY <1>3, RunIs
<1>6. DOMAIN runs' = DOMAIN runs \cup {q}
      /\ \A p \in DOMAIN runs' : runs'[p] = IF p = q THEN Run(q, a) ELSE runs[p]
  BY <1>2
<1>7. runs' \in Partial(RunSet)
  <2>1. runs \in Partial(RunSet) BY DEF Inv, TypeOK
  <2>2. DOMAIN runs \subseteq Ids /\ \A p \in DOMAIN runs : runs[p] \in RunSet
    BY <2>1, PartialElim
  <2>3. runs' \in [DOMAIN runs \cup {q} -> RunSet] BY <1>2, <1>5, <2>2
  <2>4. QED BY <1>3, <2>2, <2>3, PartialIntro
<1>8. recorded' \in [DOMAIN Sets -> SUBSET Ids] BY <1>3 DEF FinishQuestion, Inv, TypeOK
<1>9. TypeOK' BY <1>1, <1>2, <1>4, <1>7, <1>8 DEF Inv, TypeOK
<1>10. Tasks' BY <1>1, <1>2, <1>3, <1>6 DEF Tasks, Wanted
<1>11. Retried' BY <1>1, <1>2, <1>3, <1>6 DEF Inv, Retried
<1>12. Whole' /\ Written' /\ Scoring' BY <1>2 DEF Whole, Finishing, Written, Scoring
<1>13. QED BY <1>4, <1>9, <1>10, <1>11, <1>12 DEF Inv

LEMMA OpenReportStep == ASSUME Inv, OpenReport PROVE Inv'
<1>1. TypeOK' BY DEF OpenReport, memory, Inv, TypeOK
<1>2. Lines' BY DEF OpenReport, Inv, Lines
<1>3. Tasks' /\ Whole' /\ Retried' /\ Written' /\ Scoring'
  BY DEF OpenReport, AllFinished, memory, Inv, Tasks, Whole, Retried, Written, Scoring, Wanted
<1>4. QED BY <1>1, <1>2, <1>3 DEF Inv

LEMMA CloseReportStep == ASSUME Inv, CloseReport PROVE Inv'
<1>1. TypeOK' BY DEF CloseReport, memory, Inv, TypeOK
<1>2. Lines' BY DEF CloseReport, Inv, Lines
<1>3. Tasks' /\ Whole' /\ Retried' /\ Written' /\ Scoring'
  BY DEF CloseReport, memory, Inv, Tasks, Whole, Finishing, PCs, Retried, Written, Scoring, Wanted
<1>4. QED BY <1>1, <1>2, <1>3 DEF Inv

LEMMA UnlinkCheckpointStep == ASSUME Inv, UnlinkCheckpoint PROVE Inv'
<1>1. set \in DOMAIN Sets /\ <<>> \in Seq(LineSet) /\ Len(<<>>) = 0 /\ 1 .. 0 = {}
  BY EmptySeq DEF Inv, TypeOK
<1>2. TypeOK' BY <1>1 DEF UnlinkCheckpoint, memory, Inv, TypeOK
<1>3. Lines'
  <2>1. CASE ckpt' = ckpt BY <2>1 DEF Inv, Lines
  <2>2. CASE ckpt' = [ckpt EXCEPT ![set] = <<>>]
    <3>1. \A s \in DOMAIN Sets : ckpt'[s] = IF s = set THEN <<>> ELSE ckpt[s]
      BY <2>2 DEF Inv, TypeOK
    <3>2. QED BY <1>1, <3>1 DEF Inv, Lines
  <2>3. QED BY <2>1, <2>2 DEF UnlinkCheckpoint
<1>4. Tasks' /\ Whole' /\ Retried' /\ Written' /\ Scoring'
  BY DEF UnlinkCheckpoint, memory, Inv, Tasks, Whole, Finishing, PCs, Retried, Written,
         Scoring, Wanted
<1>5. QED BY <1>2, <1>3, <1>4 DEF Inv

(* New scores for the stale answers, the old ones for the others. *)
LEMMA JudgeStep == ASSUME Inv, NEW ok \in SUBSET Ids, Judge(ok) PROVE Inv'
<1> DEFINE old == IF scored = Absent THEN <<>> ELSE scored
           stale == Stale(runs, old)
<1>1. old \in Partial(ScoreSet)
  BY EmptyPartial DEF Judge, Inv, TypeOK
<1>2. \A q \in DOMAIN runs \ stale : q \in DOMAIN old /\ old[q].answer = runs[q].answer
  BY DEF Stale
<1>3. runs \in Partial(RunSet) BY DEF Inv, TypeOK
<1>4. DOMAIN runs \subseteq Ids /\ \A q \in DOMAIN runs : runs[q] \in RunSet
  BY <1>3, PartialElim
<1>5. \A q \in DOMAIN old : old[q] \in ScoreSet BY <1>1, PartialElim
<1>6. CASE scored # Absent /\ stale = {}
  <2>1. pc = "scoring" /\ pc' = "done" /\ scored # Torn /\ old = scored
        /\ UNCHANGED <<scored, merged, set, ckpt, report, task, runs, crashes, recorded>>
    BY <1>6 DEF Judge
  <2>2. TypeOK' BY <2>1 DEF Inv, TypeOK
  <2>3. Agrees(scored) BY <1>2, <1>6, <2>1 DEF Agrees
  <2>4. Scoring' BY <1>6, <2>1, <2>3 DEF Scoring, Agrees
  <2>5. Lines' /\ Tasks' /\ Whole' /\ Retried' /\ Written'
    BY <2>1 DEF Inv, Lines, Tasks, Whole, Finishing, PCs, Retried, Written, Wanted
  <2>6. QED BY <2>2, <2>4, <2>5 DEF Inv
<1>7. CASE ~(scored # Absent /\ stale = {})
  <2>1. /\ pc = "scoring" /\ pc' = "writing_scores" /\ scored' = Torn
        /\ UNCHANGED <<set, ckpt, report, task, runs, crashes, recorded>>
        /\ merged' = [q \in DOMAIN runs |->
                       IF q \in stale
                       THEN [text |-> runs[q].text, answer |-> runs[q].answer, judged |-> q \in ok]
                       ELSE old[q]]
    BY <1>7 DEF Judge
  <2> HIDE DEF old, stale
  <2>2. /\ DOMAIN merged' = DOMAIN runs
        /\ \A q \in DOMAIN runs :
             merged'[q] \in ScoreSet /\ merged'[q].answer = runs[q].answer
    BY <1>2, <1>4, <1>5, <2>1 DEF RunSet, ScoreSet
  <2>3. merged' \in Partial(ScoreSet)
    <3>1. merged' \in [DOMAIN runs -> ScoreSet] BY <2>1, <2>2
    <3>2. QED BY <1>4, <3>1, PartialIntro
  <2>4. TypeOK' BY <2>1, <2>3 DEF Inv, TypeOK
  <2>5. Scoring' BY <2>1, <2>2 DEF Scoring, Agrees
  <2>6. Lines' /\ Tasks' /\ Whole' /\ Retried' /\ Written'
    BY <2>1 DEF Inv, Lines, Tasks, Whole, Finishing, PCs, Retried, Written, Wanted
  <2>7. QED BY <2>4, <2>5, <2>6 DEF Inv
<1>8. QED BY <1>6, <1>7

LEMMA CloseScoresStep == ASSUME Inv, CloseScores PROVE Inv'
<1>1. merged \in Partial(ScoreSet) BY DEF Inv, TypeOK
<1>2. TypeOK' BY <1>1, EmptyPartial DEF CloseScores, Inv, TypeOK
<1>3. scored' \notin {Absent, Torn} BY <1>1, WholeFiles DEF CloseScores
<1>4. Scoring' BY <1>3 DEF CloseScores, Inv, Scoring, Agrees
<1>5. Lines' /\ Tasks' /\ Whole' /\ Retried' /\ Written'
  BY DEF CloseScores, Inv, Lines, Tasks, Whole, Finishing, PCs, Retried, Written, Wanted
<1>6. QED BY <1>2, <1>4, <1>5 DEF Inv

(* Every step keeps the invariant. *)
LEMMA NextInv == Inv /\ [Next]_vars => Inv'
<1> SUFFICES ASSUME Inv, [Next]_vars PROVE Inv' OBVIOUS
<1>1. CASE Work
  BY <1>1, ReuseStep, RunEvaluationStep, StartQuestionStep, FinishQuestionStep,
     OpenReportStep, CloseReportStep, UnlinkCheckpointStep, JudgeStep, CloseScoresStep,
     CannotReadScoresStep DEF Work
<1>2. CASE \E s \in DOMAIN Sets : SwitchSet(s) BY <1>2, SwitchSetStep
<1>3. CASE Crash BY <1>3, CrashStep
<1>4. CASE \E q \in DOMAIN task, a \in Answers \cup {Failed}, whole, cut \in BOOLEAN :
             CrashInAppend(q, a, whole, cut)
  BY <1>4, CrashInAppendStep
<1>5. CASE UNCHANGED vars
  BY <1>5 DEF vars, Inv, TypeOK, Lines, Tasks, Whole, Retried, Written, Scoring, Agrees, Wanted
<1>6. QED BY <1>1, <1>2, <1>3, <1>4, <1>5 DEF Next
-----------------------------------------------------------------------------
(* What is held and written stays as it was asked.  Reuse is the one step  *)
(* that takes a report for the current set's by its ids alone.             *)
LEMMA ReuseText == ASSUME Inv, TextInv, SetsAreToldApart, Reuse PROVE TextInv'
<1>1. /\ set \in DOMAIN Sets /\ report \notin {Absent, Torn} /\ DOMAIN report = DOMAIN Sets[set]
      /\ runs' = report /\ set' = set /\ report' = report
  BY DEF Reuse, Reusable, Covers, Inv, TypeOK, Wanted
<1>2. PICK s \in DOMAIN Sets : DOMAIN report = DOMAIN Sets[s] /\ AsAsked(report, s)
  BY <1>1 DEF TextInv
<1>3. Sets[s] = Sets[set] BY <1>1, <1>2 DEF SetsAreToldApart
<1>4. AsAsked(report, set) BY <1>2, <1>3 DEF AsAsked
<1>5. QED BY <1>1, <1>2, <1>4 DEF TextInv, AsAsked

LEMMA RunEvaluationText == ASSUME Inv, TextInv, RunEvaluation PROVE TextInv'
<1>1. AsAsked(LoadCheckpoint(ckpt[set], Wanted), set) BY LoadTypes
<1>2. runs' = LoadCheckpoint(ckpt[set], Wanted) /\ set' = set /\ report' = report
  BY DEF RunEvaluation
<1>3. AsAsked(runs, set)' BY <1>1, <1>2 DEF AsAsked
<1>4. QED BY <1>2, <1>3 DEF TextInv, AsAsked

LEMMA FinishQuestionText ==
  ASSUME Inv, TextInv, NEW q \in DOMAIN task, NEW a \in Answers \cup {Failed},
         FinishQuestion(q, a)
  PROVE  TextInv'
<1>1. q \in Wanted /\ set \in DOMAIN Sets BY DEF FinishQuestion, Inv, TypeOK, Tasks
<1>2. Run(q, a).text = Sets[set][q] BY DEF Run
<1>3. /\ pc = "running" /\ set' = set /\ report' = report
      /\ runs' = [p \in DOMAIN runs \cup {q} |-> IF p = q THEN Run(q, a) ELSE runs[p]]
  BY DEF FinishQuestion
<1>4. AsAsked(runs, set) BY <1>3 DEF TextInv
<1>5. AsAsked(runs, set)' BY <1>2, <1>3, <1>4 DEF AsAsked
<1>6. QED BY <1>3, <1>5 DEF TextInv, AsAsked

LEMMA CloseReportText == ASSUME Inv, TextInv, CloseReport PROVE TextInv'
<1>1. /\ set \in DOMAIN Sets /\ DOMAIN runs = DOMAIN Sets[set] /\ AsAsked(runs, set)
      /\ set' = set /\ runs' = runs /\ report' = runs
  BY DEF CloseReport, memory, Inv, TypeOK, Whole, Finishing, PCs, TextInv, Wanted
<1>2. QED BY <1>1 DEF TextInv, AsAsked

(* Steps that read or write neither. *)
LEMMA IdleText ==
  ASSUME TextInv, pc' = "idle", report' = report PROVE TextInv'
BY DEF TextInv, AsAsked

LEMMA SameText ==
  ASSUME TextInv, pc # "idle", report' = report \/ report' = Torn,
         UNCHANGED <<set, runs>>
  PROVE  TextInv'
BY DEF TextInv, AsAsked

LEMMA NextText ==
  SetsAreToldApart => (Inv /\ TextInv /\ [Next]_vars => TextInv')
<1> SUFFICES ASSUME SetsAreToldApart, Inv, TextInv, [Next]_vars PROVE TextInv' OBVIOUS
<1>1. CASE Reuse BY <1>1, ReuseText
<1>2. CASE RunEvaluation BY <1>2, RunEvaluationText
<1>3. ASSUME NEW q \in DOMAIN task, StartQuestion(q) PROVE TextInv'
  BY <1>3, SameText DEF StartQuestion
<1>4. ASSUME NEW q \in DOMAIN task, NEW a \in Answers \cup {Failed}, FinishQuestion(q, a)
      PROVE  TextInv'
  BY <1>4, FinishQuestionText
<1>5. CASE OpenReport BY <1>5, SameText DEF OpenReport, memory
<1>6. CASE CloseReport BY <1>6, CloseReportText
<1>7. CASE UnlinkCheckpoint BY <1>7, SameText DEF UnlinkCheckpoint, memory
<1>8. ASSUME NEW ok \in SUBSET Ids, Judge(ok) PROVE TextInv'
  BY <1>8, SameText DEF Judge
<1>9. CASE CloseScores BY <1>9, SameText DEF CloseScores
<1>10. CASE CannotReadScores BY <1>10, IdleText DEF CannotReadScores
<1>11. CASE \E s \in DOMAIN Sets : SwitchSet(s) BY <1>11, IdleText DEF SwitchSet
<1>12. CASE Crash BY <1>12, IdleText DEF Crash, Die
<1>13. CASE \E q \in DOMAIN task, a \in Answers \cup {Failed}, whole, cut \in BOOLEAN :
              CrashInAppend(q, a, whole, cut)
  BY <1>13, IdleText DEF CrashInAppend, Die
<1>14. CASE UNCHANGED vars BY <1>14 DEF vars, TextInv, AsAsked
<1>15. QED
  BY <1>1, <1>2, <1>3, <1>4, <1>5, <1>6, <1>7, <1>8, <1>9, <1>10, <1>11, <1>12, <1>13, <1>14
     DEF Next, Work

-----------------------------------------------------------------------------
(* Every answer lost is paid for by a crash, two by each.                  *)
Lost(s) == {q \in recorded[s] : ~Kept(ckpt[s], q)}

Accounted(s) ==
  /\ Unsettled(ckpt[s])
  /\ IsFiniteSet(recorded[s])
  /\ Cardinality(Lost(s)) + Debt(ckpt[s]) <= 2 * crashes

Unanswered ==
  pc = "running" => \A q \in DOMAIN task :
    task[q] \in {"queued", "running"} => ~Kept(ckpt[set], q)

Cost == Unanswered /\ \A s \in DOMAIN Sets : Accounted(s)

(* An empty checkpoint with nothing recorded owes nothing. *)
LEMMA NothingOwed ==
  ASSUME NEW s \in DOMAIN Sets, ckpt[s] = <<>>, recorded[s] = {}, crashes \in Nat
  PROVE  Accounted(s)
<1>1. Len(<<>>) = 0 BY EmptySeq
<1>2. Unsettled(ckpt[s]) /\ Debt(ckpt[s]) = 0 BY <1>1 DEF Unsettled, Debt
<1>3. Lost(s) = {} BY DEF Lost
<1>4. QED BY <1>2, <1>3, FS_EmptySet DEF Accounted

LEMMA InitCost == Init => Cost
<1> SUFFICES ASSUME Init PROVE Cost OBVIOUS
<1>1. \A s \in DOMAIN Sets : Accounted(s) BY NothingOwed DEF Init
<1>2. Unanswered BY DEF Init, Unanswered
<1>3. QED BY <1>1, <1>2 DEF Cost

(* Nothing is lost by a step that leaves the checkpoints alone. *)
LEMMA SameAccounts ==
  ASSUME Inv, Cost, NEW s \in DOMAIN Sets, ckpt'[s] = ckpt[s], recorded'[s] = recorded[s],
         crashes' \in Nat, crashes' >= crashes
  PROVE  Accounted(s)'
<1>1. Accounted(s) BY DEF Cost
<1>2. Lost(s)' = Lost(s) BY DEF Lost
<1>3. Cardinality(Lost(s)) \in Nat BY <1>1, FS_Subset, FS_CardinalityType DEF Accounted, Lost
<1>4. Debt(ckpt[s]) \in {0, 1, 2} BY DEF Debt
<1>5. crashes \in Nat BY BoundsAssumption DEF Inv, TypeOK
<1>6. Cardinality(Lost(s)) + Debt(ckpt[s]) <= 2 * crashes' BY <1>1, <1>3, <1>4, <1>5 DEF Accounted
<1>7. QED BY <1>1, <1>2, <1>6 DEF Accounted

(* One more line, ended or torn by a crash. *)
LEMMA AppendCost ==
  ASSUME Inv, Cost, pc = "running", NEW q \in DOMAIN task, task[q] = "running",
         NEW a \in Answers \cup {Failed},
         NEW w \in BOOLEAN, NEW e \in BOOLEAN, NEW c \in BOOLEAN, w \/ ~e,
         ckpt' = [ckpt EXCEPT ![set] = AppendLine(@, Line(q, a, w, e, c))],
         recorded' = [recorded EXCEPT ![set] = IF GivesBack(a) THEN @ \cup {q} ELSE @],
         crashes' = IF e THEN crashes ELSE crashes + 1
  PROVE  /\ \A s \in DOMAIN Sets : Accounted(s)'
         /\ \A p \in DOMAIN task \ {q} : task[p] \in {"queued", "running"} =>
              ~Kept(ckpt'[set], p)
<1> DEFINE old == ckpt[set]
           line == Line(q, a, w, e, c)
           new == AppendLine(old, line)
<1>1. /\ set \in DOMAIN Sets /\ old \in Seq(LineSet) /\ crashes \in Nat
      /\ ckpt \in [DOMAIN Sets -> Seq(LineSet)] /\ recorded \in [DOMAIN Sets -> SUBSET Ids]
  BY BoundsAssumption DEF Inv, TypeOK
<1>2. q \in Wanted BY DEF Inv, Tasks
<1>3. /\ line \in LineSet /\ line.id = q /\ line.run.answer = a /\ line.ended = e
      /\ GivesBack(a) => line.whole \/ ~line.ended
  <2>1. line \in LineSet BY <1>1, <1>2, RunIs DEF Wanted
  <2>2. QED BY <2>1 DEF Line, Run, GivesBack
<1> HIDE DEF line
<1>4. Unsettled(old) /\ ~Kept(old, q) BY <1>1 DEF Cost, Accounted, Unanswered
<1>5. /\ Unsettled(new)
      /\ \A p : Kept(new, p) /\ p # q => Kept(old, p)
      /\ \E X : /\ IsFiniteSet(X)
               /\ Cardinality(X) + Debt(new) <= Debt(old) + (IF e THEN 0 ELSE 2)
               /\ \A p : ~Kept(new, p) /\ p \notin X =>
                    ~Kept(old, p) /\ (p = q => ~GivesBack(a))
  <2> HIDE DEF old
  <2>1. /\ Unsettled(new)
        /\ \A p : Kept(new, p) /\ p # line.id => Kept(old, p)
        /\ \E X : /\ IsFiniteSet(X)
                 /\ Cardinality(X) + Debt(new) <= Debt(old) + (IF line.ended THEN 0 ELSE 2)
                 /\ \A p : ~Kept(new, p) /\ p \notin X =>
                      ~Kept(old, p) /\ (p = line.id => ~GivesBack(line.run.answer))
    BY <1>1, <1>3, <1>4, AppendCosts
  <2>2. QED BY <1>3, <2>1
<1>6. ckpt' = [ckpt EXCEPT ![set] = new] BY DEF line
<1> HIDE DEF new, old
<1>7. /\ ckpt'[set] = new
      /\ recorded'[set] = IF GivesBack(a) THEN recorded[set] \cup {q} ELSE recorded[set]
  BY <1>1, <1>6
<1>8. ASSUME NEW s \in DOMAIN Sets, s = set PROVE Accounted(s)'
  <2>1. PICK X : /\ IsFiniteSet(X)
                 /\ Cardinality(X) + Debt(new) <= Debt(old) + (IF e THEN 0 ELSE 2)
                 /\ \A p : ~Kept(new, p) /\ p \notin X =>
                      ~Kept(old, p) /\ (p = q => ~GivesBack(a))
    BY <1>5
  <2> DEFINE lost == {p \in recorded[set] : ~Kept(old, p)}
             after == {p \in recorded'[set] : ~Kept(new, p)}
  <2>2. after \subseteq lost \cup X BY <1>7, <2>1
  <2>3. /\ IsFiniteSet(recorded[set])
        /\ Cardinality(lost) + Debt(old) <= 2 * crashes
    BY <1>1 DEF Cost, Accounted, Lost, old
  <2>4. IsFiniteSet(recorded'[set]) BY <1>7, <2>3, FS_AddElement
  <2>5. lost \in SUBSET recorded[set] OBVIOUS
  <2> HIDE DEF lost, after
  <2>6. IsFiniteSet(lost) /\ Cardinality(lost) \in Nat BY <2>3, <2>5, FS_Subset, FS_CardinalityType
  <2>7. Cardinality(X) \in Nat /\ Cardinality(lost \cap X) \in Nat
    <3>1. lost \cap X \in SUBSET X OBVIOUS
    <3>2. QED BY <2>1, <3>1, FS_Subset, FS_CardinalityType
  <2>8. /\ IsFiniteSet(lost \cup X)
        /\ Cardinality(lost \cup X) = Cardinality(lost) + Cardinality(X) - Cardinality(lost \cap X)
    BY <2>1, <2>6, FS_Union
  <2>9. Cardinality(after) \in Nat /\ Cardinality(after) <= Cardinality(lost \cup X)
    BY <2>2, <2>8, FS_Subset, FS_CardinalityType
  <2>10. Debt(old) \in {0, 1, 2} /\ Debt(new) \in {0, 1, 2} BY DEF Debt
  <2>11. Cardinality(after) + Debt(new) <= 2 * crashes'
    <3> DEFINE extra == IF e THEN 0 ELSE 2
    <3>1. 2 * crashes' = 2 * crashes + extra /\ extra \in Nat BY <1>1
    <3>2. Cardinality(X) + Debt(new) <= Debt(old) + extra BY <2>1
    <3> HIDE DEF extra
    <3>3. Cardinality(after) <= Cardinality(lost) + Cardinality(X) BY <2>6, <2>7, <2>8, <2>9
    <3>4. Cardinality(after) + Debt(new) <= Cardinality(lost) + Debt(old) + extra
      BY <2>6, <2>7, <2>9, <2>10, <3>1, <3>2, <3>3
    <3>5. ASSUME NEW b \in Nat, NEW d \in Nat, NEW l \in Nat, NEW o \in Nat,
                 NEW x \in Nat, NEW k \in Nat, NEW m \in Nat,
                 l + o <= b, d = b + x, k + m <= l + o + x
          PROVE  k + m <= d
      BY <3>5
    <3>6. 2 * crashes \in Nat /\ 2 * crashes' \in Nat BY <1>1
    <3>7. QED BY SMTT(60), <2>3, <2>6, <2>9, <2>10, <3>1, <3>4, <3>5, <3>6
  <2>12. Lost(s)' = after BY <1>7, <1>8 DEF Lost, after
  <2>13. ckpt'[s] = new /\ recorded'[s] = recorded'[set] BY <1>7, <1>8
  <2>14. QED BY <1>5, <2>4, <2>11, <2>12, <2>13 DEF Accounted
<1>9. ASSUME NEW s \in DOMAIN Sets, s # set PROVE Accounted(s)'
  <2>1. ckpt'[s] = ckpt[s] /\ recorded'[s] = recorded[s] BY <1>1, <1>6, <1>9
  <2>2. QED BY <1>1, <2>1, SameAccounts
<1>10. ASSUME NEW p \in DOMAIN task \ {q}, task[p] \in {"queued", "running"}
       PROVE  ~Kept(ckpt'[set], p)
  <2>1. ~Kept(old, p) BY <1>10 DEF Cost, Unanswered, old
  <2>2. QED BY <1>5, <1>7, <2>1
<1>11. QED BY <1>8, <1>9, <1>10

LEMMA FinishQuestionCost ==
  ASSUME Inv, Cost, NEW q \in DOMAIN task, NEW a \in Answers \cup {Failed}, FinishQuestion(q, a)
  PROVE  Cost'
<1>1. /\ \A s \in DOMAIN Sets : Accounted(s)'
      /\ \A p \in DOMAIN task \ {q} : task[p] \in {"queued", "running"} =>
           ~Kept(ckpt'[set], p)
  BY AppendCost DEF FinishQuestion
<1>2. /\ task' = [task EXCEPT ![q] = "finished"] /\ set' = set
      /\ DOMAIN task' = DOMAIN task
      /\ \A p \in DOMAIN task : task'[p] = IF p = q THEN "finished" ELSE task[p]
  BY TaskTypes DEF FinishQuestion
<1>3. Unanswered' BY <1>1, <1>2 DEF Unanswered
<1>4. QED BY <1>1, <1>3 DEF Cost

LEMMA CrashInAppendCost ==
  ASSUME Inv, Cost, NEW q \in DOMAIN task, NEW a \in Answers \cup {Failed},
         NEW whole \in BOOLEAN, NEW cut \in BOOLEAN, CrashInAppend(q, a, whole, cut)
  PROVE  Cost'
<1>1. \A s \in DOMAIN Sets : Accounted(s)' BY AppendCost DEF CrashInAppend, Die
<1>2. Unanswered' BY DEF CrashInAppend, Die, Unanswered
<1>3. QED BY <1>1, <1>2 DEF Cost

LEMMA RunEvaluationCost == ASSUME Inv, Cost, RunEvaluation PROVE Cost'
<1> DEFINE done == LoadCheckpoint(ckpt[set], Wanted)
<1>1. set \in DOMAIN Sets /\ ckpt[set] \in Seq(LineSet) /\ crashes \in Nat
  BY BoundsAssumption DEF Inv, TypeOK
<1>2. /\ task' = [q \in Wanted |-> IF q \in DOMAIN done THEN "kept" ELSE "queued"]
      /\ UNCHANGED <<set, ckpt, crashes, recorded>>
  BY DEF RunEvaluation
<1>3. \A s \in DOMAIN Sets : Accounted(s)' BY <1>1, <1>2, SameAccounts
<1> HIDE DEF done
<1>4. ASSUME NEW q \in Wanted, Kept(ckpt[set], q) PROVE task'[q] = "kept"
  <2>1. \A p : p \in DOMAIN done <=> p \in Wanted /\ Kept(ckpt[set], p)
    BY <1>1, LoadIs DEF done
  <2>2. QED BY <1>2, <1>4, <2>1
<1>5. Unanswered' BY <1>2, <1>4 DEF Unanswered
<1>6. QED BY <1>3, <1>5 DEF Cost

LEMMA UnlinkCheckpointCost == ASSUME Inv, Cost, UnlinkCheckpoint PROVE Cost'
<1>1. /\ crashes \in Nat /\ set \in DOMAIN Sets
      /\ ckpt \in [DOMAIN Sets -> Seq(LineSet)] /\ recorded \in [DOMAIN Sets -> SUBSET Ids]
  BY BoundsAssumption DEF Inv, TypeOK
<1>2. Unanswered' BY DEF UnlinkCheckpoint, Unanswered
<1>3. CASE UNCHANGED <<ckpt, recorded>>
  <2>1. \A s \in DOMAIN Sets : Accounted(s)'
    BY <1>1, <1>3, SameAccounts DEF UnlinkCheckpoint
  <2>2. QED BY <1>2, <2>1 DEF Cost
<1>4. CASE ckpt' = [ckpt EXCEPT ![set] = <<>>] /\ recorded' = [recorded EXCEPT ![set] = {}]
  <2>1. crashes' = crashes BY DEF UnlinkCheckpoint
  <2>2. ASSUME NEW s \in DOMAIN Sets, s = set PROVE Accounted(s)'
    <3>1. Len(<<>>) = 0 BY EmptySeq
    <3>2. ckpt'[s] = <<>> /\ recorded'[s] = {} BY <1>1, <1>4, <2>2
    <3>3. Unsettled(ckpt'[s]) /\ Debt(ckpt'[s]) = 0 BY <3>1, <3>2 DEF Unsettled, Debt
    <3>4. Lost(s)' = {} BY <3>2 DEF Lost
    <3>5. IsFiniteSet({}) /\ Cardinality({}) = 0 BY FS_EmptySet
    <3>6. QED BY <1>1, <2>1, <3>2, <3>3, <3>4, <3>5 DEF Accounted
  <2>3. ASSUME NEW s \in DOMAIN Sets, s # set PROVE Accounted(s)'
    <3>1. ckpt'[s] = ckpt[s] /\ recorded'[s] = recorded[s] BY <1>1, <1>4, <2>3
    <3>2. QED BY <1>1, <2>1, <3>1, SameAccounts
  <2>4. QED BY <1>2, <2>2, <2>3 DEF Cost
<1>5. QED BY <1>3, <1>4 DEF UnlinkCheckpoint

LEMMA StartQuestionCost ==
  ASSUME Inv, Cost, NEW q \in DOMAIN task, StartQuestion(q) PROVE Cost'
<1>1. crashes \in Nat BY BoundsAssumption DEF Inv, TypeOK
<1>2. \A s \in DOMAIN Sets : Accounted(s)' BY <1>1, SameAccounts DEF StartQuestion
<1>3. DOMAIN task' = DOMAIN task
      /\ \A p \in DOMAIN task : task'[p] = IF p = q THEN "running" ELSE task[p]
  BY TaskTypes DEF StartQuestion
<1>4. Unanswered' BY <1>3 DEF StartQuestion, Cost, Unanswered
<1>5. QED BY <1>2, <1>4 DEF Cost

(* Steps of a program that asks nothing. *)
LEMMA OtherCost ==
  ASSUME Inv, Cost, UNCHANGED <<ckpt, recorded>>, pc' # "running",
         crashes' = crashes \/ crashes' = crashes + 1
  PROVE  Cost'
<1>1. crashes \in Nat BY BoundsAssumption DEF Inv, TypeOK
<1>2. \A s \in DOMAIN Sets : Accounted(s)' BY <1>1, SameAccounts
<1>3. QED BY <1>2 DEF Cost, Unanswered

LEMMA NextCost == Inv /\ Cost /\ [Next]_vars => Cost'
<1> SUFFICES ASSUME Inv, Cost, [Next]_vars PROVE Cost' OBVIOUS
<1>1. CASE RunEvaluation BY <1>1, RunEvaluationCost
<1>2. CASE \E q \in DOMAIN task : StartQuestion(q) BY <1>2, StartQuestionCost
<1>3. CASE \E q \in DOMAIN task : \E a \in Answers \cup {Failed} : FinishQuestion(q, a)
  BY <1>3, FinishQuestionCost
<1>4. CASE UnlinkCheckpoint BY <1>4, UnlinkCheckpointCost
<1>5. CASE \E q \in DOMAIN task, a \in Answers \cup {Failed}, whole, cut \in BOOLEAN :
             CrashInAppend(q, a, whole, cut)
  BY <1>5, CrashInAppendCost
<1>6. CASE Reuse \/ OpenReport \/ CloseReport \/ CloseScores \/ CannotReadScores
  BY <1>6, OtherCost DEF Reuse, OpenReport, CloseReport, CloseScores, CannotReadScores
<1>7. CASE \E ok \in SUBSET Ids : Judge(ok) BY <1>7, OtherCost DEF Judge
<1>8. CASE \E s \in DOMAIN Sets : SwitchSet(s) BY <1>8, OtherCost DEF SwitchSet
<1>9. CASE Crash BY <1>9, OtherCost DEF Crash, Die
<1>10. CASE UNCHANGED vars
  <2>1. crashes \in Nat BY BoundsAssumption DEF Inv, TypeOK
  <2>2. \A s \in DOMAIN Sets : Accounted(s)' BY <1>10, <2>1, SameAccounts DEF vars
  <2>3. Unanswered' BY <1>10 DEF vars, Cost, Unanswered
  <2>4. QED BY <2>2, <2>3 DEF Cost
<1>11. QED
  BY <1>1, <1>2, <1>3, <1>4, <1>5, <1>6, <1>7, <1>8, <1>9, <1>10 DEF Next, Work

-----------------------------------------------------------------------------
(* Only the last line of a checkpoint may be cut inside a character, and   *)
(* that line is lost; a run that appends could read its checkpoint.        *)
CutLast(lines) ==
  \A i \in 1 .. Len(lines) : lines[i].cut => i = Len(lines) /\ ~lines[i].whole

Cuts ==
  /\ \A s \in DOMAIN Sets : CutLast(ckpt[s])
  /\ pc = "running" => Readable(ckpt[set])

LEMMA AppendCuts ==
  ASSUME NEW lines \in Seq(LineSet), NEW line \in LineSet, Readable(lines),
         line.cut => ~line.whole
  PROVE  /\ CutLast(AppendLine(lines, line))
         /\ ~line.cut => Readable(AppendLine(lines, line))
<1> DEFINE new == AppendLine(lines, line)
           n == Len(lines)
<1>1. /\ new \in Seq(LineSet) /\ n \in Nat
      /\ (n = 0 \/ lines[n].ended) =>
           /\ Len(new) = n + 1 /\ new[n + 1] = line
           /\ \A i \in 1 .. n : new[i] = lines[i]
      /\ (n > 0 /\ ~lines[n].ended) =>
           /\ Len(new) = n /\ new[n] = Joined(lines[n], line)
           /\ \A i \in 1 .. n - 1 : new[i] = lines[i]
  BY AppendIs
<1>2. DOMAIN new = 1 .. Len(new) /\ \A i \in 1 .. n : ~lines[i].cut
  BY <1>1, LenProperties DEF Readable
<1> HIDE DEF new
<1>3. \A i \in 1 .. Len(new) :
        new[i].cut => i = Len(new) /\ ~new[i].whole /\ line.cut
  <2>1. CASE n = 0 \/ lines[n].ended
    <3>1. Len(new) = n + 1 /\ new[n + 1] = line /\ \A i \in 1 .. n : new[i] = lines[i]
      BY <1>1, <2>1
    <3>2. \A i \in 1 .. n + 1 : i \in 1 .. n \/ i = n + 1 BY <1>1
    <3> HIDE DEF n
    <3>3. QED BY <1>2, <3>1, <3>2
  <2>2. CASE n > 0 /\ ~lines[n].ended
    <3>1. n \in 1 .. n /\ lines[n] \in LineSet BY <1>1, <2>2, ElementOfSeq
    <3>2. ~lines[n].cut BY <1>2, <3>1
    <3>3. /\ ~Joined(lines[n], line).whole
          /\ Joined(lines[n], line).cut = (line.cut \/ lines[n].cut)
      BY <3>1, JoinedIs
    <3>4. /\ Len(new) = n /\ new[n] = Joined(lines[n], line)
          /\ \A i \in 1 .. n - 1 : new[i] = lines[i]
      BY <1>1, <2>2
    <3>5. \A i \in 1 .. n : i \in 1 .. n - 1 \/ i = n BY <1>1
    <3> HIDE DEF n
    <3>6. QED BY <1>2, <3>2, <3>3, <3>4, <3>5
  <2>3. QED BY <1>1, <2>1, <2>2
<1>4. QED BY <1>2, <1>3 DEF CutLast, Readable, new

(* Steps that leave the checkpoints alone. *)
LEMMA SameCuts ==
  ASSUME Cuts, ckpt' = ckpt, pc' = "running" => pc = "running" /\ set' = set
  PROVE  Cuts'
BY DEF Cuts, CutLast, Readable

LEMMA AppendCutsStep ==
  ASSUME Inv, Cuts, pc = "running", NEW q \in DOMAIN task, NEW a \in Answers \cup {Failed},
         NEW w \in BOOLEAN, NEW e \in BOOLEAN, NEW c \in BOOLEAN, ~(w /\ c),
         ckpt' = [ckpt EXCEPT ![set] = AppendLine(@, Line(q, a, w, e, c))],
         set' = set, pc' = "running" => ~c
  PROVE  Cuts'
<1> DEFINE line == Line(q, a, w, e, c)
           new == AppendLine(ckpt[set], line)
<1>1. /\ set \in DOMAIN Sets /\ ckpt[set] \in Seq(LineSet)
      /\ ckpt \in [DOMAIN Sets -> Seq(LineSet)] /\ q \in Wanted
  BY DEF Inv, TypeOK, Tasks
<1>2. line \in LineSet /\ line.cut = c /\ (line.cut => ~line.whole)
  <2>1. line \in LineSet /\ line.whole = (w /\ a \notin Split) /\ line.cut = c
    BY <1>1, RunIs
  <2>2. QED BY <2>1
<1>3. Readable(ckpt[set]) BY DEF Cuts
<1>4. ckpt' = [ckpt EXCEPT ![set] = new] OBVIOUS
<1> HIDE DEF line
<1>5. CutLast(new) /\ (~line.cut => Readable(new)) BY <1>1, <1>2, <1>3, AppendCuts
<1> HIDE DEF new
<1>6. \A s \in DOMAIN Sets : ckpt'[s] = IF s = set THEN new ELSE ckpt[s] BY <1>1, <1>4
<1>7. \A s \in DOMAIN Sets : CutLast(ckpt'[s]) BY <1>5, <1>6 DEF Cuts
<1>8. pc' = "running" => Readable(ckpt'[set']) BY <1>1, <1>2, <1>5, <1>6
<1>9. QED BY <1>7, <1>8 DEF Cuts, CutLast, Readable

LEMMA UnlinkCuts == ASSUME Inv, Cuts, UnlinkCheckpoint PROVE Cuts'
<1>1. CASE UNCHANGED <<ckpt, recorded>> BY <1>1, SameCuts DEF UnlinkCheckpoint
<1>2. CASE ckpt' = [ckpt EXCEPT ![set] = <<>>]
  <2>1. Len(<<>>) = 0 /\ 1 .. 0 = {} BY EmptySeq
  <2>2. \A s \in DOMAIN Sets : ckpt'[s] = IF s = set THEN <<>> ELSE ckpt[s]
    BY <1>2 DEF Inv, TypeOK
  <2>3. \A s \in DOMAIN Sets : CutLast(ckpt'[s]) BY <2>1, <2>2 DEF Cuts, CutLast
  <2>4. QED BY <2>3 DEF UnlinkCheckpoint, Cuts, CutLast
<1>3. QED BY <1>1, <1>2 DEF UnlinkCheckpoint

LEMMA InitCuts == Init => Cuts
<1>1. Len(<<>>) = 0 /\ 1 .. 0 = {} BY EmptySeq
<1>2. QED BY <1>1 DEF Init, Cuts, CutLast

LEMMA NextCuts == Inv /\ Cuts /\ [Next]_vars => Cuts'
<1> SUFFICES ASSUME Inv, Cuts, [Next]_vars PROVE Cuts' OBVIOUS
<1>1. CASE RunEvaluation BY <1>1 DEF RunEvaluation, Cuts, CutLast, Readable
<1>2. ASSUME NEW q \in DOMAIN task, NEW a \in Answers \cup {Failed}, FinishQuestion(q, a)
      PROVE  Cuts'
  BY <1>2, AppendCutsStep DEF FinishQuestion
<1>3. ASSUME NEW q \in DOMAIN task, NEW a \in Answers \cup {Failed},
             NEW whole \in BOOLEAN, NEW cut \in BOOLEAN, CrashInAppend(q, a, whole, cut)
      PROVE  Cuts'
  BY <1>3, AppendCutsStep DEF CrashInAppend, Die
<1>4. CASE UnlinkCheckpoint BY <1>4, UnlinkCuts
<1>5. CASE \E q \in DOMAIN task : StartQuestion(q) BY <1>5, SameCuts DEF StartQuestion
<1>6. CASE Reuse \/ OpenReport \/ CloseReport \/ CloseScores \/ CannotReadScores
  BY <1>6, SameCuts DEF Reuse, OpenReport, CloseReport, CloseScores, CannotReadScores
<1>7. CASE \E ok \in SUBSET Ids : Judge(ok) BY <1>7, SameCuts DEF Judge
<1>8. CASE \E s \in DOMAIN Sets : SwitchSet(s) BY <1>8, SameCuts DEF SwitchSet
<1>9. CASE Crash BY <1>9, SameCuts DEF Crash, Die
<1>10. CASE UNCHANGED vars BY <1>10, SameCuts DEF vars
<1>11. QED
  BY <1>1, <1>2, <1>3, <1>4, <1>5, <1>6, <1>7, <1>8, <1>9, <1>10 DEF Next, Work

(* Without a last line that is cut a checkpoint can be read, and gives     *)
(* back what it gave.                                                      *)
LEMMA RepairedIs ==
  ASSUME NEW lines \in Seq(LineSet), CutLast(lines)
  PROVE  /\ Repaired(lines) \in Seq(LineSet) /\ Readable(Repaired(lines))
         /\ \A q : Kept(Repaired(lines), q) <=> Kept(lines, q)
<1> DEFINE n == Len(lines)
<1>1. n \in Nat /\ DOMAIN lines = 1 .. n BY LenProperties
<1>2. CASE Readable(lines) BY <1>2 DEF Repaired
<1>3. CASE ~Readable(lines)
  <2> DEFINE front == Front(lines)
  <2>1. PICK i \in 1 .. n : lines[i].cut BY <1>1, <1>3 DEF Readable
  <2>2. n > 0 /\ n - 1 \in Nat /\ (n - 1) + 1 = n /\ ~lines[n].whole
    <3>1. i = n /\ ~lines[i].whole BY <2>1 DEF CutLast
    <3>2. n > 0 /\ n - 1 \in Nat /\ (n - 1) + 1 = n BY <1>1, <2>1
    <3>3. QED BY <3>1, <3>2
  <2>3. /\ Repaired(lines) = front /\ front \in Seq(LineSet) /\ Len(front) = n - 1
        /\ \A k \in 1 .. n - 1 : front[k] = lines[k]
    BY <1>3, <2>2, FrontIs DEF Repaired
  <2> HIDE DEF front
  <2>4. DOMAIN front = 1 .. n - 1 BY <2>3, LenProperties
  <2>5. ASSUME NEW k \in 1 .. n - 1 PROVE ~lines[k].cut
    <3>1. k \in 1 .. n /\ k # n
      <4> HIDE DEF n
      <4>1. QED BY <1>1
    <3>2. QED BY <3>1 DEF CutLast
  <2>6. Readable(front) BY <2>3, <2>4, <2>5 DEF Readable
  <2>7. ASSUME NEW q PROVE Kept(front, q) <=> Kept(lines, q)
    <3>1. KeptTo(front, n - 1, q) <=> KeptTo(lines, n - 1, q) BY <2>2, <2>3, KeptSame
    <3>2. KeptTo(lines, (n - 1) + 1, q) <=>
            IF lines[(n - 1) + 1].id = q /\ lines[(n - 1) + 1].whole
            THEN lines[(n - 1) + 1].run.answer # Failed
            ELSE KeptTo(lines, n - 1, q)
      BY <2>2, KeptStep
    <3>3. Kept(front, q) <=> KeptTo(front, n - 1, q) BY <2>3 DEF Kept
    <3>4. Kept(lines, q) <=> KeptTo(lines, n, q) BY DEF Kept
    <3> HIDE DEF n
    <3>5. QED BY <2>2, <3>1, <3>2, <3>3, <3>4
  <2>8. QED BY <2>3, <2>6, <2>7
<1>4. QED BY <1>2, <1>3

-----------------------------------------------------------------------------
LEMMA Invariance == Spec => []Inv
<1>1. Init => Inv BY InitInv
<1>2. QED BY <1>1, NextInv, PTL DEF Spec

-----------------------------------------------------------------------------
(* Every file of a run and everything the program holds has its type: no   *)
(* part of it is of a question that no set asks.                           *)
THEOREM TypeCorrect == Spec => []TypeOK
<1>1. Inv => TypeOK BY DEF Inv
<1>2. QED BY <1>1, Invariance, PTL

(* A finished command reports an error only of a question it asked itself  *)
(* (runner.py:67-72, run_matrix.py:151).                                   *)
THEOREM ErrorsRetried == Spec => []ErrorsAreRetried
<1>1. Inv => ErrorsAreRetried
  <2> SUFFICES ASSUME Inv, pc = "done", NEW q \in Wanted, report[q].answer = Failed
               PROVE  task[q] = "finished"
    BY DEF ErrorsAreRetried
  <2>1. report = runs /\ DOMAIN runs = Wanted BY DEF Inv, Written, Whole, Finishing, PCs
  <2>2. QED BY <2>1 DEF Inv, Retried
<1>2. QED BY <1>1, Invariance, PTL

(* A finished command has a whole report of the current questions and the  *)
(* scores of exactly these answers (run_matrix.py:133, scoring.py:202), if *)
(* no two question sets share their ids: a report is recognised by them.   *)
THEOREM DoneReportsAreWhole ==
  ASSUME SetsAreToldApart PROVE Spec => []DoneIsWhole
<1>1. Inv /\ TextInv => DoneIsWhole
  <2> SUFFICES ASSUME Inv, TextInv, pc = "done" PROVE DoneIsWhole BY DEF DoneIsWhole
  <2>1. /\ report = runs /\ DOMAIN runs = Wanted /\ scored \notin {Absent, Torn}
        /\ DOMAIN runs \subseteq DOMAIN scored
        /\ \A q \in DOMAIN runs : scored[q].answer = runs[q].answer
    BY DEF Inv, Written, Whole, Finishing, PCs, Scoring, Agrees
  <2>2. report \notin {Absent, Torn}
    <3>1. runs \in Partial(RunSet) BY DEF Inv, TypeOK
    <3>2. QED BY <2>1, <3>1, WholeFiles
  <2>3. \A q \in DOMAIN runs : runs[q].text = Sets[set][q] BY DEF TextInv, AsAsked
  <2>4. QED BY <2>1, <2>2, <2>3 DEF DoneIsWhole
<1>2. Init => Inv /\ TextInv BY InitInv
<1>3. Inv /\ TextInv /\ [Next]_vars => Inv' /\ TextInv' BY NextInv, NextText, SetsAreToldApart
<1>4. QED BY <1>1, <1>2, <1>3, PTL DEF Spec

(* However often and wherever the program is killed, a kill costs at most  *)
(* two of the answers already paid for, once a line that was cut inside a  *)
(* character is removed: such a line is always the last one, and nothing   *)
(* else makes a checkpoint unreadable (runner.py:75, 91-94).               *)
THEOREM CrashesCostAtMostTwo == Spec => []CrashCostsAtMostTwo
<1>1. Inv /\ Cost /\ Cuts => CrashCostsAtMostTwo
  <2> SUFFICES ASSUME Inv, Cost, Cuts, NEW s \in DOMAIN Sets
               PROVE  LET lines == Repaired(ckpt[s])
                      IN /\ Readable(lines)
                         /\ Cardinality(recorded[s] \ DOMAIN LoadCheckpoint(lines, Ids))
                              <= 2 * crashes
    BY DEF CrashCostsAtMostTwo
  <2> DEFINE lines == Repaired(ckpt[s])
  <2>1. ckpt[s] \in Seq(LineSet) /\ recorded[s] \subseteq Ids /\ crashes \in Nat
    BY BoundsAssumption DEF Inv, TypeOK
  <2>2. /\ lines \in Seq(LineSet) /\ Readable(lines)
        /\ \A q : Kept(lines, q) <=> Kept(ckpt[s], q)
    BY <2>1, RepairedIs DEF Cuts
  <2> HIDE DEF lines
  <2>3. \A q : q \in DOMAIN LoadCheckpoint(lines, Ids) <=> q \in Ids /\ Kept(lines, q)
    BY <2>2, LoadIs
  <2>4. recorded[s] \ DOMAIN LoadCheckpoint(lines, Ids) = Lost(s) BY <2>1, <2>2, <2>3 DEF Lost
  <2>5. Accounted(s) BY DEF Cost
  <2>6. Cardinality(Lost(s)) \in Nat BY <2>5, FS_Subset, FS_CardinalityType DEF Accounted, Lost
  <2>7. Debt(ckpt[s]) \in {0, 1, 2} BY DEF Debt
  <2>8. Cardinality(Lost(s)) <= 2 * crashes BY <2>1, <2>5, <2>6, <2>7 DEF Accounted
  <2>9. QED BY <2>2, <2>4, <2>8 DEF lines
<1>2. Init => Inv /\ Cost /\ Cuts BY InitInv, InitCost, InitCuts
<1>3. Inv /\ Cost /\ Cuts /\ [Next]_vars => Inv' /\ Cost' /\ Cuts'
  BY NextInv, NextCost, NextCuts
<1>4. QED BY <1>1, <1>2, <1>3, PTL DEF Spec
=============================================================================
