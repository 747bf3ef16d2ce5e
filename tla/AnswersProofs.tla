---------------------------- MODULE AnswersProofs ----------------------------
(***************************************************************************)
(* What Algorithms says of answers, of the evaluation's numbers, of chunks *)
(* and of pages, proved for every text, context and list of sources, every *)
(* report, table and comparison, and every document: AnswersAreSound, on   *)
(* the operators of Citations and Ordering, NumbersAreSound, on those of   *)
(* EvalMetrics, ChunksAreSound, on those of Chunking, and PagesAreSound,   *)
(* on those of Parsing, with the lemmas of AlgorithmsProofs.               *)
(***************************************************************************)
EXTENDS AlgorithmsProofs

-----------------------------------------------------------------------------
(* Markers of a text. *)

Marks == Digits \cup {"[S", "]", " "}

(* The names of a text's markers. *)
Names(t) == {NameAt(t, p) : p \in Matches(t)}

(* a..b in t is a marker. *)
IsMatch(t, a, b) ==
  /\ a \in 1 .. Len(t) /\ b \in 1 .. Len(t) /\ t[a] = "[S" /\ t[b] = "]" /\ a + 1 < b
  /\ \A i \in a + 1 .. b - 1 : t[i] \in Digits

(* Matches holds the markers, as pairs of places. *)
LEMMA MatchesAre ==
  ASSUME NEW V, NEW t \in Seq(V)
  PROVE  /\ \A p \in Matches(t) : p = <<p[1], p[2]>> /\ IsMatch(t, p[1], p[2])
         /\ \A a, b : IsMatch(t, a, b) => <<a, b>> \in Matches(t)
<1>1. DOMAIN t = 1 .. Len(t) BY LenProperties
<1>. QED BY <1>1 DEF Matches, IsMatch

(* Every place of a marker holds a mark other than a blank. *)
LEMMA MarkersAreMarks ==
  ASSUME NEW V, NEW t \in Seq(V), NEW a, NEW b, IsMatch(t, a, b), NEW i \in a..b
  PROVE  i \in 1 .. Len(t) /\ t[i] \in Marks /\ t[i] # " "
<1>1. a \in Int /\ b \in Int /\ Len(t) \in Nat /\ i \in Int BY LenProperties DEF IsMatch
<1>2. i = a \/ i = b \/ i \in a + 1 .. b - 1 BY <1>1
<1>3. i \in 1 .. Len(t) BY <1>1 DEF IsMatch
<1>. QED BY <1>2, <1>3 DEF IsMatch, Marks, Digits

(* Markers do not overlap. *)
LEMMA MatchesAreApart ==
  ASSUME NEW V, NEW t \in Seq(V), NEW a, NEW b, IsMatch(t, a, b), NEW c, NEW d, IsMatch(t, c, d)
  PROVE  (a = c /\ b = d) \/ b < c \/ d < a
<1>1. a \in Int /\ b \in Int /\ c \in Int /\ d \in Int /\ a + 1 < b /\ c + 1 < d
  BY LenProperties DEF IsMatch
<1>2. t[a] = "[S" /\ t[b] = "]" /\ t[c] = "[S" /\ t[d] = "]" /\ "[S" \notin Digits /\ "]" \notin Digits
  BY DEF IsMatch, Digits
<1>3. a \notin c + 1 .. d - 1 /\ b \notin c + 1 .. d - 1 /\ c \notin a + 1 .. b - 1 /\ d \notin a + 1 .. b - 1
  BY <1>2 DEF IsMatch
<1>4. a # d /\ b # c BY <1>2
<1>. QED BY <1>1, <1>3, <1>4

(* A marker's name. *)
LEMMA NameIs ==
  ASSUME NEW V, NEW t \in Seq(V), NEW a, NEW b, IsMatch(t, a, b)
  PROVE  /\ NameAt(t, <<a, b>>) \in Seq(V) /\ Len(NameAt(t, <<a, b>>)) = b - a - 1
         /\ \A i \in 1 .. b - a - 1 : NameAt(t, <<a, b>>)[i] = t[a + i]
<1> DEFINE u == SubSeq(t, a + 1, b - 1)
           x == a + 1
           y == b - 1
<1>1. a \in Int /\ b \in Int /\ a + 1 < b /\ Len(t) \in Nat /\ 1 <= a /\ b <= Len(t)
  BY LenProperties DEF IsMatch
<1>2. x \in Int /\ y \in Int /\ x <= y /\ \A i \in x..y : t[i] \in V
  <2>1. \A i \in x..y : i \in 1 .. Len(t) BY <1>1
  <2>. QED BY <1>1, <2>1, ElementOfSeq
<1>3. NameAt(t, <<a, b>>) = SubSeq(t, x, y) BY DEF NameAt
<1>4. SubSeq(t, x, y) \in Seq(V) /\ Len(SubSeq(t, x, y)) = (IF x <= y THEN y - x + 1 ELSE 0)
      /\ \A i \in 1 .. y - x + 1 : SubSeq(t, x, y)[i] = t[x + i - 1]
  <2>. HIDE DEF x, y
  <2>. QED BY <1>2, SubSeqProperties
<1>5. y - x + 1 = b - a - 1 /\ \A i \in 1 .. b - a - 1 : x + i - 1 = a + i BY <1>1
<1>. QED BY <1>2, <1>3, <1>4, <1>5

(* Two with the same digits have the same name. *)
LEMMA SameName ==
  ASSUME NEW V, NEW t \in Seq(V), NEW a, NEW b, IsMatch(t, a, b),
         NEW u \in Seq(V), NEW c, NEW d, IsMatch(u, c, d),
         b - a = d - c, \A i \in 1 .. b - a - 1 : t[a + i] = u[c + i]
  PROVE  NameAt(t, <<a, b>>) = NameAt(u, <<c, d>>)
<1> DEFINE x == NameAt(t, <<a, b>>)
           y == NameAt(u, <<c, d>>)
           n == b - a - 1
<1>1. x \in Seq(V) /\ Len(x) = n /\ \A i \in 1..n : x[i] = t[a + i] BY NameIs
<1>2. y \in Seq(V) /\ Len(y) = n /\ \A i \in 1..n : y[i] = u[c + i]
  <2>1. d - c - 1 = n BY DEF IsMatch
  <2>2. y \in Seq(V) /\ Len(y) = d - c - 1 /\ \A i \in 1 .. d - c - 1 : y[i] = u[c + i]
    BY NameIs
  <2>. QED BY <2>1, <2>2
<1>. HIDE DEF x, y, n
<1>3. \A i \in 1..n : x[i] = y[i] BY <1>1, <1>2 DEF n
<1>4. x \in [1..n -> V] /\ y \in [1..n -> V] BY <1>1, <1>2, LenProperties
<1>5. x = y
  <2>1. x = [i \in 1..n |-> x[i]] /\ y = [i \in 1..n |-> y[i]] BY <1>4
  <2>. QED BY ONLY <1>3, <2>1
<1>. QED BY <1>5 DEF x, y

-----------------------------------------------------------------------------
(* Markers in their order. *)

(* c runs through the n markers of M from left to right. *)
Lined(c, n, M) ==
  /\ n \in Nat /\ c \in [1..n -> M]
  /\ \A j, k \in 1..n : j < k => c[j][2] < c[k][1]
  /\ \A p \in M : \E k \in 1..n : c[k] = p

(* LeftToRight lines up markers that do not overlap. *)
LEMMA LeftToRightIs ==
  ASSUME NEW V, NEW t \in Seq(V), NEW M \in SUBSET Matches(t)
  PROVE  /\ IsFiniteSet(M) /\ Lined(LeftToRight(M), Cardinality(M), M)
         /\ DOMAIN LeftToRight(M) = 1 .. Cardinality(M)
<1> DEFINE S == {p[1] : p \in M}
           e == InOrder(S)
           n == Cardinality(S)
           f == [p \in M |-> p[1]]
           c == LeftToRight(M)
<1>1. \A p \in M : p = <<p[1], p[2]>> /\ IsMatch(t, p[1], p[2]) BY MatchesAre
<1>2. \A p, q \in M : p[1] \in Int /\ p[2] \in Int /\ p[1] < p[2]
                       /\ (p = q \/ p[2] < q[1] \/ q[2] < p[1])
  <2>1. \A p \in M : p[1] \in Int /\ p[2] \in Int /\ p[1] < p[2] BY <1>1 DEF IsMatch
  <2>2. \A p, q \in M : p = q \/ p[2] < q[1] \/ q[2] < p[1]
    <3>. SUFFICES ASSUME NEW p \in M, NEW q \in M PROVE p = q \/ p[2] < q[1] \/ q[2] < p[1]
      OBVIOUS
    <3>1. (p[1] = q[1] /\ p[2] = q[2]) \/ p[2] < q[1] \/ q[2] < p[1] BY <1>1, MatchesAreApart
    <3>. QED BY <1>1, <3>1
  <2>. QED BY <2>1, <2>2
<1>3. \A p, q \in M : p[1] = q[1] => p = q BY <1>2
<1>4. S \in SUBSET Int /\ IsFiniteSet(S)
  <2>1. \A p \in M : p[1] \in 1 .. Len(t) BY <1>1 DEF IsMatch
  <2>2. Len(t) \in Nat BY LenProperties
  <2>3. IsFiniteSet(1 .. Len(t)) BY <2>2, FS_Interval
  <2>4. S \in SUBSET (1 .. Len(t)) BY <2>1
  <2>5. IsFiniteSet(S) BY <2>3, <2>4, FS_Subset
  <2>. QED BY <2>4, <2>5
<1>5. f \in [M -> S] /\ (\A i \in S : \E p \in M : f[p] = i) /\ \A p \in M : f[p] = p[1] OBVIOUS
<1>6. Ascends(e, n, S) BY <1>4, InOrderAscends
<1>. HIDE DEF f, e, n, S
<1>7. n \in Nat /\ e \in [1..n -> S] /\ (\A j, k \in 1..n : j < k => e[j] < e[k])
      /\ \A i \in S : \E k \in 1..n : e[k] = i
  BY <1>6 DEF Ascends
<1>8. c = [k \in 1..n |-> CHOOSE p \in M : p[1] = e[k]]
  <2>1. DOMAIN e = 1..n BY <1>7
  <2>. QED BY <2>1 DEF LeftToRight, e, S
<1>. HIDE DEF c
<1>9. \A k \in 1..n : c[k] \in M /\ c[k][1] = e[k]
  <2>. SUFFICES ASSUME NEW k \in 1..n PROVE c[k] \in M /\ c[k][1] = e[k] OBVIOUS
  <2>1. PICK p \in M : p[1] = e[k] BY SMTT(60), <1>5, <1>7
  <2>. QED BY <1>8, <2>1
<1>10. c \in [1..n -> M]
  <2>1. c = [k \in 1..n |-> c[k]] BY <1>8
  <2>. QED BY <1>9, <2>1
<1>11. \A p \in M : \E k \in 1..n : c[k] = p
  <2>. SUFFICES ASSUME NEW p \in M PROVE \E k \in 1..n : c[k] = p OBVIOUS
  <2>1. PICK k \in 1..n : e[k] = p[1] BY <1>5, <1>7
  <2>. QED BY <1>3, <1>9, <2>1
<1>12. \A j, k \in 1..n : j < k => c[j][2] < c[k][1]
  <2>. SUFFICES ASSUME NEW j \in 1..n, NEW k \in 1..n, j < k PROVE c[j][2] < c[k][1] OBVIOUS
  <2>1. c[j][1] < c[k][1] BY <1>7, <1>9
  <2>. QED BY SMTT(60), <1>2, <1>9, <2>1
<1>13. IsFiniteSet(1..n) /\ Cardinality(1..n) = n BY <1>7, FS_Interval
<1>14. \A j, k \in 1..n : c[j] = c[k] => j = k
  <2>. SUFFICES ASSUME NEW j \in 1..n, NEW k \in 1..n, c[j] = c[k], j < k PROVE FALSE BY <1>7
  <2>. QED BY <1>2, <1>9, <1>12
<1>15. IsFiniteSet(M) /\ Cardinality(M) = n BY ONLY <1>10, <1>11, <1>13, <1>14, ImageOf
<1>. QED BY <1>7, <1>10, <1>11, <1>12, <1>15 DEF Lined, c

(* Markers gives each name once. *)
LEMMA MarkersAre ==
  ASSUME NEW V, NEW t \in Seq(V)
  PROVE  /\ Markers(t) \in Seq(Seq(V)) /\ IsInjective(Markers(t))
         /\ ToSet(Markers(t)) = Names(t)
<1> DEFINE M == Matches(t)
           c == LeftToRight(M)
           n == Cardinality(M)
           W == Seq(V)
           q == [k \in DOMAIN c |-> NameAt(t, c[k])]
<1>1. Lined(c, n, M) /\ DOMAIN c = 1..n BY LeftToRightIs
<1>. HIDE DEF c, n
<1>2. n \in Nat /\ c \in [1..n -> M] /\ \A p \in M : \E k \in 1..n : c[k] = p BY <1>1 DEF Lined
<1>3. \A p \in M : NameAt(t, p) \in W BY MatchesAre, NameIs
<1>. HIDE DEF M, W
<1>4. q \in [1..n -> W] /\ \A k \in 1..n : q[k] = NameAt(t, c[k]) BY <1>1, <1>2, <1>3
<1>5. Markers(t) = Distinct(q) BY DEF Markers, c, M
<1>. HIDE DEF q
<1>6. q \in Seq(W) /\ DOMAIN q = 1..n BY <1>2, <1>4, SeqDef
<1>7. ToSet(q) = {NameAt(t, p) : p \in M} BY <1>2, <1>4, <1>6 DEF ToSet
<1>8. Distinct(q) \in Seq(W) /\ IsInjective(Distinct(q)) /\ ToSet(Distinct(q)) = ToSet(q)
  BY <1>6, DistinctIs
<1>. QED BY <1>5, <1>7, <1>8 DEF Names, M, W

-----------------------------------------------------------------------------
(* Markers of a selection u of t: e gives its places in t. *)

Moved(u, x, y, t, a, b) ==
  IsMatch(u, x, y) /\ IsMatch(t, a, b) /\ NameAt(u, <<x, y>>) = NameAt(t, <<a, b>>)

Stays(u, t, e, n, a, b) ==
  \E x, y \in 1..n : Moved(u, x, y, t, a, b) /\ e[x] = a /\ e[y] = b

(* A marker of t that is kept is one of u. *)
LEMMA KeptMatch ==
  ASSUME NEW V, NEW t \in Seq(V), NEW K \in SUBSET DOMAIN t, NEW u, NEW e, NEW n,
         Chosen(u, t, e, n, K, V), NEW a, NEW b, IsMatch(t, a, b), a..b \subseteq K
  PROVE  Stays(u, t, e, n, a, b)
<1>1. /\ n \in Nat /\ e \in [1..n -> K] /\ (\A i \in K : \E k \in 1..n : e[k] = i)
      /\ u \in Seq(V) /\ Len(u) = n /\ \A k \in 1..n : u[k] = t[e[k]]
  BY DEF Chosen, Ascends
<1>2. /\ a \in Int /\ b \in Int /\ a + 1 < b /\ t[a] = "[S" /\ t[b] = "]"
      /\ \A i \in a + 1 .. b - 1 : t[i] \in Digits
  BY DEF IsMatch
<1> DEFINE d == b - a
<1>3. d \in Nat /\ a + d = b /\ 1 < d /\ a \in K /\ \A i \in 1 .. d - 1 : a + i \in a + 1 .. b - 1
  BY <1>2
<1>4. PICK x \in 1..n : e[x] = a BY <1>1, <1>3
<1>. HIDE DEF d
<1>5. \A j \in 0..d : x + j \in 1..n /\ e[x + j] = a + j
  <2>1. e[x] .. e[x] + d \subseteq K BY <1>3, <1>4
  <2>2. d \in Nat BY <1>3
  <2>3. InARow(e, n, x, d) BY <2>1, <2>2, RunIsKept
  <2>. QED BY <1>4, <2>3 DEF InARow
<1> DEFINE y == x + d
<1>6. y \in 1..n /\ e[y] = b /\ x + 1 < y /\ y - x = d
  <2>1. d \in 0..d BY <1>3
  <2>2. x + d \in 1..n /\ e[x + d] = a + d BY <1>5, <2>1
  <2>. QED BY <1>3, <2>2
<1>7. \A i \in 1 .. d - 1 : u[x + i] = t[a + i] /\ t[a + i] \in Digits
  <2>. SUFFICES ASSUME NEW i \in 1 .. d - 1 PROVE u[x + i] = t[a + i] /\ t[a + i] \in Digits
    OBVIOUS
  <2>1. i \in 0..d BY <1>3
  <2>2. x + i \in 1..n /\ e[x + i] = a + i BY <1>5, <2>1
  <2>. QED BY <1>1, <1>2, <1>3, <2>2
<1>8. \A i \in x + 1 .. y - 1 : u[i] \in Digits
  <2>. SUFFICES ASSUME NEW i \in x + 1 .. y - 1 PROVE u[i] \in Digits OBVIOUS
  <2>1. i - x \in 1 .. d - 1 /\ x + (i - x) = i BY <1>3
  <2>. QED BY <1>7, <2>1
<1>. HIDE DEF y
<1>9. IsMatch(u, x, y) BY <1>1, <1>2, <1>4, <1>6, <1>8 DEF IsMatch
<1>10. NameAt(u, <<x, y>>) = NameAt(t, <<a, b>>)
  <2>1. y - x = b - a /\ \A i \in 1 .. y - x - 1 : u[x + i] = t[a + i] BY <1>6, <1>7 DEF d
  <2>2. u \in Seq(V) BY <1>1
  <2>. QED BY <1>9, <2>1, <2>2, SameName
<1>. QED BY <1>4, <1>6, <1>9, <1>10 DEF Stays, Moved

(* A marker of u with nothing taken out of it is one of t. *)
LEMMA OldMatch ==
  ASSUME NEW V, NEW t \in Seq(V), NEW K \in SUBSET DOMAIN t, NEW u, NEW e, NEW n,
         Chosen(u, t, e, n, K, V), NEW x, NEW y, IsMatch(u, x, y), e[x] .. e[y] \subseteq K
  PROVE  x \in 1..n /\ y \in 1..n /\ Moved(u, x, y, t, e[x], e[y])
<1>1. /\ n \in Nat /\ e \in [1..n -> K] /\ (\A k, l \in 1..n : k < l => e[k] < e[l])
      /\ u \in Seq(V) /\ Len(u) = n /\ \A k \in 1..n : u[k] = t[e[k]]
  BY DEF Chosen, Ascends
<1>2. /\ x \in 1..n /\ y \in 1..n /\ x + 1 < y /\ u[x] = "[S" /\ u[y] = "]"
      /\ \A i \in x + 1 .. y - 1 : u[i] \in Digits
  BY <1>1 DEF IsMatch
<1> DEFINE a == e[x]
           b == e[y]
           d == b - a
<1>3. a \in 1 .. Len(t) /\ b \in 1 .. Len(t) /\ a < b
  <2>1. K \in SUBSET (1 .. Len(t)) BY LenProperties
  <2>2. a \in K /\ b \in K BY <1>1, <1>2
  <2>3. x < y BY <1>2
  <2>4. a < b BY <1>1, <1>2, <2>3
  <2>. QED BY <2>1, <2>2, <2>4
<1>4. d \in Nat /\ a + d = b
  <2>1. Len(t) \in Nat BY LenProperties
  <2>. HIDE DEF a, b
  <2>. QED BY <1>3, <2>1
<1>. HIDE DEF d
<1>5. \A j \in 0..d : x + j \in 1..n /\ e[x + j] = a + j
  <2>1. e[x] .. e[x] + d \subseteq K BY <1>4
  <2>2. d \in Nat /\ x \in 1..n BY <1>2, <1>4
  <2>3. InARow(e, n, x, d) BY <2>1, <2>2, RunIsKept
  <2>. QED BY <2>3 DEF InARow
<1>6. x + d = y
  <2>1. x + d \in 1..n /\ e[x + d] = b BY <1>4, <1>5
  <2>2. a \in Int /\ b \in Int BY <1>3
  <2>3. ~(x + d < y) /\ ~(y < x + d)
    <3>. HIDE DEF a
    <3>. QED BY <1>1, <1>2, <2>1, <2>2
  <2>. QED BY <1>1, <1>2, <2>1, <2>3
<1>. HIDE DEF a, b
<1>7. a + 1 < b /\ d = y - x /\ d = b - a /\ a \in Int /\ b \in Int
  BY <1>1, <1>2, <1>3, <1>4, <1>6
<1>8. \A i \in 1 .. d - 1 : u[x + i] = t[a + i] /\ u[x + i] \in Digits
  <2>. SUFFICES ASSUME NEW i \in 1 .. d - 1 PROVE u[x + i] = t[a + i] /\ u[x + i] \in Digits
    OBVIOUS
  <2>1. i \in 0..d /\ x + i \in x + 1 .. y - 1 BY <1>1, <1>2, <1>4, <1>7
  <2>2. x + i \in 1..n /\ e[x + i] = a + i BY <1>5, <2>1
  <2>. QED BY <1>1, <1>2, <2>1, <2>2
<1>9. \A i \in a + 1 .. b - 1 : t[i] \in Digits
  <2>. SUFFICES ASSUME NEW i \in a + 1 .. b - 1 PROVE t[i] \in Digits OBVIOUS
  <2>1. i - a \in 1 .. d - 1 /\ a + (i - a) = i BY <1>7
  <2>. QED BY <1>8, <2>1
<1>10. t[a] = "[S" /\ t[b] = "]" BY <1>1, <1>2 DEF a, b
<1>11. IsMatch(t, a, b) BY <1>3, <1>7, <1>9, <1>10 DEF IsMatch
<1>12. NameAt(u, <<x, y>>) = NameAt(t, <<a, b>>)
  <2>1. y - x = b - a /\ \A i \in 1 .. y - x - 1 : u[x + i] = t[a + i] BY <1>7, <1>8
  <2>2. u \in Seq(V) BY <1>1
  <2>. QED BY <1>11, <2>1, <2>2, SameName
<1>. QED BY <1>2, <1>11, <1>12 DEF a, b, Moved

-----------------------------------------------------------------------------
(* What is left when places are taken out. *)

(* The words stay when every place that holds one does. *)
LEMMA ProseKept ==
  ASSUME NEW V, NEW t \in Seq(V), NEW K \in SUBSET DOMAIN t, NEW u, NEW e, NEW n,
         Chosen(u, t, e, n, K, V), \A i \in DOMAIN t \ K : t[i] \in Marks
  PROVE  Prose(u) = Prose(t)
<1> DEFINE J == {k \in 1..n : u[k] \notin Marks}
           I == {i \in DOMAIN t : t[i] \notin Marks}
<1>1. /\ n \in Nat /\ e \in [1..n -> K] /\ (\A i \in K : \E k \in 1..n : e[k] = i)
      /\ DOMAIN u = 1..n /\ \A k \in 1..n : u[k] = t[e[k]]
  BY DEF Chosen, Ascends
<1>2. At(u, J) = At(t, {e[j] : j \in J})
  <2>1. J \in SUBSET (1..n) OBVIOUS
  <2>. HIDE DEF J
  <2>. QED BY ONLY <2>1, t \in Seq(V), K \in SUBSET DOMAIN t, Chosen(u, t, e, n, K, V), AtOfAt
<1>3. {e[j] : j \in J} = I
  <2>1. \A j \in J : e[j] \in I BY <1>1
  <2>2. \A i \in I : \E j \in J : e[j] = i
    <3>. SUFFICES ASSUME NEW i \in I PROVE \E j \in J : e[j] = i OBVIOUS
    <3>1. i \in K OBVIOUS
    <3>2. PICK k \in 1..n : e[k] = i BY <1>1, <3>1
    <3>. QED BY <1>1, <3>2
  <2>. HIDE DEF I, J
  <2>. QED BY <2>1, <2>2
<1>4. Prose(u) = At(u, J) /\ Prose(t) = At(t, I) BY <1>1 DEF Prose, Marks
<1>. QED BY <1>2, <1>3, <1>4

(* What StripMarker takes out. *)
Stripped(t, m) ==
  UNION {p[1] .. p[2] \cup (IF p[1] > 1 /\ t[p[1] - 1] = " " THEN {p[1] - 1} ELSE {})
         : p \in {q \in Matches(t) : NameAt(t, q) = m}}

(* It is the name's markers, each with the blank before it, if any. *)
LEMMA StrippedAre ==
  ASSUME NEW V, NEW t \in Seq(V), NEW m
  PROVE  /\ \A i \in Stripped(t, m) : \E a, b :
              /\ IsMatch(t, a, b) /\ NameAt(t, <<a, b>>) = m
              /\ i \in a..b \/ (i = a - 1 /\ 1 <= i /\ t[i] = " ")
         /\ \A a, b : IsMatch(t, a, b) /\ NameAt(t, <<a, b>>) = m => a..b \subseteq Stripped(t, m)
<1>1. ASSUME NEW i \in Stripped(t, m)
      PROVE  \E a, b : /\ IsMatch(t, a, b) /\ NameAt(t, <<a, b>>) = m
                       /\ i \in a..b \/ (i = a - 1 /\ 1 <= i /\ t[i] = " ")
  <2>1. PICK p \in Matches(t) :
          /\ NameAt(t, p) = m
          /\ i \in p[1] .. p[2] \cup (IF p[1] > 1 /\ t[p[1] - 1] = " " THEN {p[1] - 1} ELSE {})
    BY DEF Stripped
  <2>2. p = <<p[1], p[2]>> /\ IsMatch(t, p[1], p[2]) BY MatchesAre
  <2>3. p[1] \in Int BY <2>2 DEF IsMatch
  <2>4. i \in p[1] .. p[2] \/ (p[1] > 1 /\ t[p[1] - 1] = " " /\ i = p[1] - 1) BY <2>1
  <2>5. i \in p[1] .. p[2] \/ (i = p[1] - 1 /\ 1 <= i /\ t[i] = " ")
    <3>1. CASE i \in p[1] .. p[2] BY <3>1
    <3>2. CASE p[1] > 1 /\ t[p[1] - 1] = " " /\ i = p[1] - 1
      <4>1. t[i] = " " BY <3>2
      <4>2. p[1] > 1 /\ i = p[1] - 1 BY <3>2
      <4>3. 1 <= i BY ONLY <2>3, <4>2
      <4>. QED BY <4>1, <4>2, <4>3
    <3>. QED BY <2>4, <3>1, <3>2
  <2>. QED BY <2>1, <2>2, <2>5
<1>2. ASSUME NEW a, NEW b, IsMatch(t, a, b), NameAt(t, <<a, b>>) = m
      PROVE  a..b \subseteq Stripped(t, m)
  <2>1. <<a, b>> \in Matches(t) BY <1>2, MatchesAre
  <2> DEFINE p == <<a, b>>
  <2>2. p[1] = a /\ p[2] = b /\ p \in {q \in Matches(t) : NameAt(t, q) = m} BY <1>2, <2>1
  <2>. HIDE DEF p
  <2>3. p[1] .. p[2] \subseteq Stripped(t, m) BY ZenonT(60), <2>2 DEF Stripped
  <2>. QED BY <2>2, <2>3
<1>. QED BY <1>1, <1>2

(* It is all marks, and the rest is what is left. *)
LEMMA StripIs ==
  ASSUME NEW V, NEW t \in Seq(V), NEW m
  PROVE  LET K == DOMAIN t \ Stripped(t, m)
         IN /\ Chosen(StripMarker(t, m), t, InOrder(K), Cardinality(K), K, V)
            /\ \A i \in Stripped(t, m) : i \in 1 .. Len(t) /\ t[i] \in Marks
            /\ \A i \in DOMAIN t \ K : t[i] \in Marks
<1> DEFINE K == DOMAIN t \ Stripped(t, m)
<1>1. K \in SUBSET DOMAIN t OBVIOUS
<1>2. StripMarker(t, m) = At(t, K) BY DEF StripMarker, Without, Stripped
<1>3. \A i \in Stripped(t, m) : i \in 1 .. Len(t) /\ t[i] \in Marks
  <2>. SUFFICES ASSUME NEW i \in Stripped(t, m) PROVE i \in 1 .. Len(t) /\ t[i] \in Marks
    OBVIOUS
  <2>1. PICK a, b : /\ IsMatch(t, a, b)
                    /\ i \in a..b \/ (i = a - 1 /\ 1 <= i /\ t[i] = " ")
    BY StrippedAre
  <2>2. CASE i \in a..b BY <2>1, <2>2, MarkersAreMarks
  <2>3. CASE i = a - 1 /\ 1 <= i /\ t[i] = " "
    <3>1. a \in 1 .. Len(t) /\ Len(t) \in Nat BY <2>1, LenProperties DEF IsMatch
    <3>2. i = a - 1 /\ 1 <= i BY <2>3
    <3>3. i \in 1 .. Len(t) BY ONLY <3>1, <3>2
    <3>4. t[i] \in Marks BY <2>3 DEF Marks
    <3>. QED BY <3>3, <3>4
  <2>. QED BY <2>1, <2>2, <2>3
<1>4. Chosen(At(t, K), t, InOrder(K), Cardinality(K), K, V)
  <2>. HIDE DEF K
  <2>. QED BY <1>1, AtIs
<1>. QED BY <1>2, <1>3, <1>4

(* From a "[S" on, only digits and blanks up to y. *)
Opens(t, x, y) ==
  /\ x \in 1 .. Len(t) /\ y \in 1 .. Len(t) /\ x < y /\ t[x] = "[S"
  /\ \A z \in x + 1 .. y - 1 : t[z] \in Digits \cup {" "}

(* A nested marker is a marker within an opening one. *)
LEMMA NestedIs ==
  ASSUME NEW V, NEW t \in Seq(V)
  PROVE  Nested(t) <=> \E i, a, b : IsMatch(t, a, b) /\ Opens(t, i, a)
<1>1. DOMAIN t = 1 .. Len(t) /\ Len(t) \in Nat BY LenProperties
<1>2. ASSUME Nested(t) PROVE \E i, a, b : IsMatch(t, a, b) /\ Opens(t, i, a)
  <2>1. PICK p \in Matches(t), i \in DOMAIN t :
          i < p[1] /\ t[i] = "[S" /\ \A j \in i + 1 .. p[1] - 1 : t[j] \in Digits \cup {" "}
    BY <1>2 DEF Nested
  <2>2. IsMatch(t, p[1], p[2]) BY MatchesAre
  <2>3. Opens(t, i, p[1]) BY <1>1, <2>1, <2>2 DEF Opens, IsMatch
  <2>. QED BY <2>2, <2>3
<1>3. ASSUME NEW i, NEW a, NEW b, IsMatch(t, a, b), Opens(t, i, a) PROVE Nested(t)
  <2> DEFINE p == <<a, b>>
  <2>1. p \in Matches(t) /\ p[1] = a BY <1>3, MatchesAre
  <2>. HIDE DEF p
  <2>2. i \in DOMAIN t /\ i < p[1] /\ t[i] = "[S" /\ \A j \in i + 1 .. p[1] - 1 : t[j] \in Digits \cup {" "}
    BY <1>1, <1>3, <2>1 DEF Opens
  <2>. QED BY <2>1, <2>2 DEF Nested
<1>. QED BY <1>2, <1>3

(* Nothing is taken out after a "[S" that opens a marker of what is left:  *)
(* the first marker to go would have stood inside another.                 *)
LEMMA NoHole ==
  ASSUME NEW V, NEW t \in Seq(V), ~Nested(t), NEW m, NEW K, K = DOMAIN t \ Stripped(t, m),
         NEW u, NEW e, NEW n, Chosen(u, t, e, n, K, V), NEW x, NEW y, Opens(u, x, y)
  PROVE  e[x] .. e[y] \subseteq K
<1>1. /\ n \in Nat /\ e \in [1..n -> K] /\ (\A k, l \in 1..n : k < l => e[k] < e[l])
      /\ (\A i \in K : \E k \in 1..n : e[k] = i)
      /\ u \in Seq(V) /\ Len(u) = n /\ \A k \in 1..n : u[k] = t[e[k]]
  BY DEF Chosen, Ascends
<1>2. x \in 1..n /\ y \in 1..n /\ x < y /\ u[x] = "[S" /\ \A z \in x + 1 .. y - 1 : u[z] \in Digits \cup {" "}
  BY <1>1 DEF Opens
<1>3. DOMAIN t = 1 .. Len(t) /\ Len(t) \in Nat BY LenProperties
<1>4. \A i \in K : i \in 1 .. Len(t) /\ i \notin Stripped(t, m) BY <1>3
<1>5. e[x] \in 1 .. Len(t) /\ e[y] \in 1 .. Len(t) /\ e[x] \in K /\ e[y] \in K /\ e[x] < e[y]
  BY <1>1, <1>2, <1>4
<1> DEFINE G == {i \in e[x] .. e[y] : i \notin K}
<1>. SUFFICES ASSUME G # {} PROVE FALSE OBVIOUS
<1>6. G \in SUBSET Nat BY <1>3, <1>5
<1>7. PICK r \in G : \A i \in G : r <= i
  <2>. HIDE DEF G
  <2>. QED BY <1>6, MinIs
<1>8. r \in Stripped(t, m) /\ r \in Nat /\ e[x] < r /\ r < e[y]
  <2>1. r \in e[x] .. e[y] /\ r \notin K /\ r \in Nat BY <1>6
  <2>2. r # e[x] /\ r # e[y] BY <1>5, <2>1
  <2>3. r \in 1 .. Len(t) BY <1>3, <1>5, <2>1
  <2>4. r \in Stripped(t, m) BY <1>3, <2>1, <2>3
  <2>. QED BY <1>5, <2>1, <2>2, <2>4
<1>9. \A i \in e[x] .. r - 1 : i \in K
  <2>. SUFFICES ASSUME NEW i \in e[x] .. r - 1, i \notin K PROVE FALSE OBVIOUS
  <2>1. i \in e[x] .. e[y] /\ i < r BY <1>5, <1>8
  <2>. QED BY <1>7, <1>8, <2>1
<1>10. \A i \in e[x] + 1 .. r - 1 : t[i] \in Digits \cup {" "}
  <2>. SUFFICES ASSUME NEW i \in e[x] + 1 .. r - 1 PROVE t[i] \in Digits \cup {" "} OBVIOUS
  <2>1. i \in K /\ i \in Int /\ e[x] < i /\ i < e[y] BY <1>5, <1>8, <1>9
  <2>2. PICK z \in 1..n : e[z] = i BY <1>1, <2>1
  <2>3. ~(z < x) /\ z # x /\ ~(y < z) /\ z # y
    <3>1. e[x] \in Int /\ e[y] \in Int /\ e[x] < i /\ i < e[y] /\ i \in Int BY <1>5, <2>1
    <3>2. (z < x => e[z] < e[x]) /\ (y < z => e[y] < e[z]) BY <1>1, <1>2
    <3>. QED BY ONLY <2>2, <3>1, <3>2
  <2>4. z \in x + 1 .. y - 1
    <3>0. n \in Nat /\ x \in 1..n /\ y \in 1..n /\ z \in 1..n BY <1>1, <1>2
    <3>1. x \in Int /\ y \in Int /\ z \in Int BY ONLY <3>0
    <3>. QED BY ONLY <2>3, <3>1
  <2>. QED BY <1>1, <1>2, <2>2, <2>4
<1>11. PICK a, b : /\ IsMatch(t, a, b) /\ NameAt(t, <<a, b>>) = m
                   /\ r \in a..b \/ (r = a - 1 /\ 1 <= r /\ t[r] = " ")
  BY <1>8, StrippedAre
<1>12. a \in 1 .. Len(t) /\ b \in 1 .. Len(t) /\ a < b
  <2>1. a \in 1 .. Len(t) /\ b \in 1 .. Len(t) /\ a + 1 < b BY <1>11 DEF IsMatch
  <2>. QED BY <2>1
<1>13. a..b \subseteq Stripped(t, m) BY <1>11, StrippedAre
<1>14. r = a \/ (r = a - 1 /\ t[r] = " ")
  <2>. SUFFICES ASSUME r \in a..b, r # a PROVE FALSE BY <1>11
  <2>1. r - 1 \in a..b /\ r - 1 \in e[x] .. r - 1 BY <1>5, <1>8, <1>12
  <2>. QED BY <1>4, <1>9, <1>13, <2>1
<1>15. t[e[x]] = "[S" /\ e[x] < a
  <2>1. e[x] \in Int /\ a \in Int /\ r \in Int /\ e[x] < r BY <1>5, <1>8, <1>12
  <2>2. r = a \/ r = a - 1 BY <1>14
  <2>3. e[x] < a BY ONLY <2>1, <2>2
  <2>. QED BY <1>1, <1>2, <2>3
<1>16. \A i \in e[x] + 1 .. a - 1 : t[i] \in Digits \cup {" "}
  <2>. SUFFICES ASSUME NEW i \in e[x] + 1 .. a - 1 PROVE t[i] \in Digits \cup {" "} OBVIOUS
  <2>1. e[x] \in Int /\ a \in Int /\ r \in Int BY <1>5, <1>8, <1>12
  <2>2. r = a \/ r = a - 1 BY <1>14
  <2>3. i \in e[x] + 1 .. r - 1 \/ (i = r /\ r # a) BY ONLY <2>1, <2>2, i \in e[x] + 1 .. a - 1
  <2>. QED BY <1>10, <1>14, <2>3
<1>17. Opens(t, e[x], a) BY <1>5, <1>12, <1>15, <1>16 DEF Opens
<1>. QED BY <1>11, <1>17, NestedIs

(* Taking one name's markers out of a text that has none inside another    *)
(* takes that name away, and leaves it without one inside another.         *)
LEMMA StripKeeps ==
  ASSUME NEW V, NEW t \in Seq(V), NEW m
  PROVE  /\ StripMarker(t, m) \in Seq(V) /\ Prose(StripMarker(t, m)) = Prose(t)
         /\ ~Nested(t) => /\ Names(StripMarker(t, m)) = Names(t) \ {m}
                          /\ ~Nested(StripMarker(t, m))
<1> DEFINE u == StripMarker(t, m)
           K == DOMAIN t \ Stripped(t, m)
           e == InOrder(K)
           n == Cardinality(K)
<1>1. /\ Chosen(u, t, e, n, K, V) /\ \A i \in DOMAIN t \ K : t[i] \in Marks BY StripIs
<1>2. K \in SUBSET DOMAIN t /\ K = DOMAIN t \ Stripped(t, m) OBVIOUS
<1>. HIDE DEF u, e, n, K
<1>3. Prose(u) = Prose(t) BY <1>1, <1>2, ProseKept
<1>4. /\ n \in Nat /\ e \in [1..n -> K] /\ u \in Seq(V) /\ Len(u) = n
      /\ (\A k, l \in 1..n : k < l => e[k] < e[l]) /\ \A k \in 1..n : u[k] = t[e[k]]
  BY <1>1 DEF Chosen, Ascends
<1>5. DOMAIN t = 1 .. Len(t) /\ Len(t) \in Nat BY LenProperties
<1>6. ASSUME NEW a, NEW b, IsMatch(t, a, b), NameAt(t, <<a, b>>) # m
      PROVE  NameAt(t, <<a, b>>) \in Names(u)
  <2>1. \A i \in a..b : i \in K
    <3>. SUFFICES ASSUME NEW i \in a..b, i \notin K PROVE FALSE OBVIOUS
    <3>1. i \in 1 .. Len(t) /\ t[i] # " " BY <1>6, MarkersAreMarks
    <3>2. i \in Stripped(t, m) BY <1>2, <1>5, <3>1
    <3>3. PICK c, d : /\ IsMatch(t, c, d) /\ NameAt(t, <<c, d>>) = m
                      /\ i \in c..d \/ (i = c - 1 /\ 1 <= i /\ t[i] = " ")
      BY <3>2, StrippedAre
    <3>4. i \in c..d BY <3>1, <3>3
    <3>5. b < c \/ d < a BY <1>6, <3>3, MatchesAreApart
    <3>6. a \in 1 .. Len(t) /\ b \in 1 .. Len(t) /\ c \in 1 .. Len(t) /\ d \in 1 .. Len(t)
      BY <1>6, <3>3 DEF IsMatch
    <3>7. a \in Int /\ b \in Int /\ c \in Int /\ d \in Int BY <1>5, <3>6
    <3>8. i \in a..b OBVIOUS
    <3>. QED BY ONLY <3>4, <3>5, <3>7, <3>8
  <2>2. PICK x, y : IsMatch(u, x, y) /\ NameAt(u, <<x, y>>) = NameAt(t, <<a, b>>)
    <3>1. a..b \subseteq K /\ IsMatch(t, a, b) /\ Chosen(u, t, e, n, K, V) BY <1>1, <1>6, <2>1
    <3>2. t \in Seq(V) /\ K \in SUBSET DOMAIN t BY <1>2
    <3>3. Stays(u, t, e, n, a, b) BY ONLY <3>1, <3>2, KeptMatch
    <3>. QED BY <3>3 DEF Stays, Moved
  <2>3. <<x, y>> \in Matches(u) BY <1>4, <2>2, MatchesAre
  <2>. QED BY <2>2, <2>3 DEF Names
<1>7. ASSUME ~Nested(t), NEW x, NEW y, IsMatch(u, x, y)
      PROVE  /\ x \in 1..n /\ y \in 1..n /\ IsMatch(t, e[x], e[y])
             /\ NameAt(u, <<x, y>>) = NameAt(t, <<e[x], e[y]>>) /\ NameAt(u, <<x, y>>) # m
  <2>1. Opens(u, x, y)
    <3>1. /\ x \in 1 .. Len(u) /\ y \in 1 .. Len(u) /\ x + 1 < y /\ u[x] = "[S"
          /\ \A i \in x + 1 .. y - 1 : u[i] \in Digits
      BY <1>7 DEF IsMatch
    <3>2. x < y BY <1>4, <3>1
    <3>. QED BY <3>1, <3>2 DEF Opens
  <2>2. e[x] .. e[y] \subseteq K BY <1>1, <1>2, <1>7, <2>1, NoHole
  <2>3. /\ x \in 1..n /\ y \in 1..n /\ IsMatch(t, e[x], e[y])
        /\ NameAt(u, <<x, y>>) = NameAt(t, <<e[x], e[y]>>)
    <3>1. e[x] .. e[y] \subseteq K /\ IsMatch(u, x, y) /\ Chosen(u, t, e, n, K, V)
      BY <1>1, <1>7, <2>2
    <3>2. t \in Seq(V) /\ K \in SUBSET DOMAIN t BY <1>2
    <3>3. x \in 1..n /\ y \in 1..n /\ Moved(u, x, y, t, e[x], e[y]) BY ONLY <3>1, <3>2, OldMatch
    <3>. QED BY <3>3 DEF Moved
  <2>4. NameAt(t, <<e[x], e[y]>>) # m
    <3>. SUFFICES ASSUME NameAt(t, <<e[x], e[y]>>) = m PROVE FALSE OBVIOUS
    <3>1. e[x] .. e[y] \subseteq Stripped(t, m) BY <2>3, StrippedAre
    <3>2. e[x] \in Int /\ e[y] \in Int /\ e[x] + 1 < e[y] BY <1>5, <2>3 DEF IsMatch
    <3>3. e[x] \in e[x] .. e[y] BY <3>2
    <3>. QED BY <1>2, <2>2, <3>1, <3>3
  <2>. QED BY <2>3, <2>4
<1>8. ASSUME ~Nested(t) PROVE Names(u) = Names(t) \ {m}
  <2>1. ASSUME NEW w \in Names(u) PROVE w \in Names(t) /\ w # m
    <3>1. PICK p \in Matches(u) : w = NameAt(u, p) BY DEF Names
    <3>2. p = <<p[1], p[2]>> /\ IsMatch(u, p[1], p[2]) BY <1>4, MatchesAre
    <3>3. IsMatch(t, e[p[1]], e[p[2]]) /\ w = NameAt(t, <<e[p[1]], e[p[2]]>>) /\ w # m
      BY <1>7, <1>8, <3>1, <3>2
    <3>4. <<e[p[1]], e[p[2]]>> \in Matches(t) BY <3>3, MatchesAre
    <3>. QED BY <3>3, <3>4 DEF Names
  <2>2. ASSUME NEW w \in Names(t), w # m PROVE w \in Names(u)
    <3>1. PICK p \in Matches(t) : w = NameAt(t, p) BY DEF Names
    <3>2. p = <<p[1], p[2]>> /\ IsMatch(t, p[1], p[2]) BY MatchesAre
    <3>. QED BY <1>6, <2>2, <3>1, <3>2
  <2>. QED BY <2>1, <2>2
<1>9. ASSUME ~Nested(t), Nested(u) PROVE FALSE
  <2>1. PICK i, x, y : IsMatch(u, x, y) /\ Opens(u, i, x) BY <1>4, <1>9, NestedIs
  <2>2. x \in 1..n /\ y \in 1..n /\ IsMatch(t, e[x], e[y]) BY <1>7, <1>9, <2>1
  <2>3. e[i] .. e[x] \subseteq K BY <1>1, <1>2, <1>9, <2>1, NoHole
  <2>4. i \in 1..n /\ i < x /\ u[i] = "[S" /\ \A z \in i + 1 .. x - 1 : u[z] \in Digits \cup {" "}
    BY <1>4, <2>1 DEF Opens
  <2>5. e[i] \in 1 .. Len(t) /\ e[x] \in 1 .. Len(t) /\ e[i] < e[x] /\ t[e[i]] = "[S"
    BY <1>2, <1>4, <1>5, <2>2, <2>4
  <2> DEFINE d == e[x] - e[i]
  <2>6. d \in Nat /\ e[i] + d = e[x] /\ e[i] .. e[i] + d \subseteq K BY <1>5, <2>3, <2>5
  <2>. HIDE DEF d
  <2>7. InARow(e, n, i, d)
    <3>1. d \in Nat /\ i \in 1..n /\ e[i] .. e[i] + d \subseteq K BY <2>4, <2>6
    <3>. QED BY <1>1, <1>2, <3>1, RunIsKept
  <2>8. \A j \in e[i] + 1 .. e[x] - 1 : t[j] \in Digits \cup {" "}
    <3>. SUFFICES ASSUME NEW j \in e[i] + 1 .. e[x] - 1 PROVE t[j] \in Digits \cup {" "} OBVIOUS
    <3> DEFINE k == j - e[i]
    <3>1. k \in 0..d /\ k > 0 /\ e[i] + k = j /\ j < e[x] BY <1>5, <2>5, <2>6
    <3>2. i + k \in 1..n /\ e[i + k] = j BY <2>7, <3>1 DEF InARow
    <3>3. i + k < x
      <4>. HIDE DEF k
      <4>1. ~(x < i + k) /\ x # i + k BY <1>4, <1>5, <2>2, <2>5, <3>1, <3>2
      <4>. QED BY <1>4, <2>2, <3>2, <4>1
    <3>4. i + k \in i + 1 .. x - 1
      <4>1. k \in Int /\ k > 0 BY <2>6, <3>1
      <4>3. n \in Nat /\ x \in 1..n /\ i \in 1..n BY <1>4, <2>2, <2>4
      <4>2. i \in Int /\ x \in Int BY ONLY <4>3
      <4>. HIDE DEF k
      <4>. QED BY ONLY <3>3, <4>1, <4>2
    <3>. QED BY <1>4, <2>4, <3>2, <3>4
  <2>9. Opens(t, e[i], e[x]) BY <2>5, <2>8 DEF Opens
  <2>. QED BY <1>9, <2>2, <2>9, NestedIs
<1>. QED BY <1>3, <1>4, <1>8, <1>9 DEF u

(* Trim takes blanks only, and none between two marks. *)
LEMMA TrimKeeps ==
  ASSUME NEW V, NEW t \in Seq(V)
  PROVE  Trim(t) \in Seq(V) /\ Prose(Trim(t)) = Prose(t) /\ Names(Trim(t)) = Names(t)
<1> DEFINE ink == {i \in DOMAIN t : t[i] # " "}
<1>1. DOMAIN t = 1 .. Len(t) /\ Len(t) \in Nat BY LenProperties
<1>2. CASE ink = {}
  <2> DEFINE none == <<>>
  <2>1. Trim(t) = none /\ none \in Seq(V) /\ Len(none) = 0 /\ DOMAIN none = {}
    <3>1. Trim(t) = none BY <1>2 DEF Trim
    <3>2. none \in Seq(V) /\ Len(none) = 0 /\ DOMAIN none = {} OBVIOUS
    <3>. QED BY <3>1, <3>2
  <2>2. \A s \in Seq(V) : (\A i \in DOMAIN s : s[i] = " ") => Prose(s) = At(s, {}) /\ Names(s) = {}
    <3>. SUFFICES ASSUME NEW s \in Seq(V), \A i \in DOMAIN s : s[i] = " "
                  PROVE  Prose(s) = At(s, {}) /\ Names(s) = {}
      OBVIOUS
    <3>1. {i \in DOMAIN s : s[i] \notin Digits \cup {"[S", "]", " "}} = {} OBVIOUS
    <3>2. Matches(s) = {}
      <4>. SUFFICES ASSUME NEW p \in Matches(s) PROVE FALSE OBVIOUS
      <4>1. p[1] \in DOMAIN s /\ s[p[1]] = "[S" BY DEF Matches
      <4>. QED BY <4>1
    <3>. QED BY <3>1, <3>2 DEF Prose, Names
  <2>3. InOrder({}) = [k \in 1..0 |-> CHOOSE i \in {} : Cardinality({j \in {} : j < i}) = k - 1]
    BY FS_EmptySet DEF InOrder
  <2>4. DOMAIN InOrder({}) = {} BY <2>3
  <2>5. At(none, {}) = At(t, {}) BY <2>4 DEF At
  <2>6. Prose(none) = At(none, {}) /\ Names(none) = {} BY <2>1, <2>2
  <2>7. Prose(t) = At(t, {}) /\ Names(t) = {}
    <3>1. \A i \in DOMAIN t : t[i] = " " BY <1>2
    <3>. QED BY <2>2, <3>1
  <2>. QED BY <2>1, <2>5, <2>6, <2>7
<1>3. CASE ink # {}
  <2> DEFINE a == Min(ink)
             b == Max(ink)
             K == a..b
             u == SubSeq(t, a, b)
             n == b - a + 1
             e == [k \in 1..n |-> a + k - 1]
  <2>1. ink \in SUBSET Nat /\ IsFiniteSet(ink)
    <3> DEFINE L == 1 .. Len(t)
    <3>1. ink \in SUBSET L BY <1>1
    <3>2. IsFiniteSet(L) /\ L \in SUBSET Nat BY <1>1, FS_Interval
    <3>. HIDE DEF L, ink
    <3>3. IsFiniteSet(ink) BY <3>1, <3>2, FS_Subset
    <3>. QED BY <3>1, <3>2, <3>3
  <2>2. a \in ink /\ b \in ink /\ \A i \in ink : a <= i /\ i <= b
    <3>. HIDE DEF ink
    <3>. QED BY <1>3, <2>1, MinIs, MaxOfNumbers
  <2>3. a \in 1 .. Len(t) /\ b \in a .. Len(t)
    <3>1. a \in 1 .. Len(t) /\ b \in 1 .. Len(t) /\ a <= b BY <1>1, <2>2
    <3>. HIDE DEF a, b
    <3>. QED BY <1>1, <3>1
  <2>4. Trim(t) = u BY <1>3 DEF Trim
  <2>. HIDE DEF a, b
  <2>5. Chosen(u, t, e, n, K, V) BY <2>3, SubSeqIsAt
  <2>6. K \in SUBSET DOMAIN t BY <1>1, <2>3
  <2>. HIDE DEF u, n, e
  <2>7. \A i \in DOMAIN t \ K : t[i] = " "
    <3>. SUFFICES ASSUME NEW i \in DOMAIN t, i \notin K, i \in ink PROVE FALSE OBVIOUS
    <3>1. a <= i /\ i <= b BY <2>2
    <3>2. i \in 1 .. Len(t) BY <1>1
    <3>3. a \in Int /\ b \in Int /\ i \in Int BY ONLY <1>1, <2>3, <3>2
    <3>4. i \in a..b BY ONLY <3>1, <3>3
    <3>. QED BY <3>4
  <2>8. Prose(u) = Prose(t)
    <3>1. \A i \in DOMAIN t \ K : t[i] \in Marks BY <2>7 DEF Marks
    <3>. HIDE DEF K
    <3>. QED BY <2>5, <2>6, <3>1, ProseKept
  <2>. HIDE DEF K, ink
  <2>9. /\ n \in Nat /\ e \in [1..n -> K] /\ u \in Seq(V) /\ Len(u) = n
    BY <2>5 DEF Chosen, Ascends
  <2>10. ASSUME NEW w \in Names(u) PROVE w \in Names(t)
    <3>1. PICK p \in Matches(u) : w = NameAt(u, p) BY DEF Names
    <3>2. p = <<p[1], p[2]>> /\ IsMatch(u, p[1], p[2]) BY <2>9, MatchesAre
    <3> DEFINE x == p[1]
               y == p[2]
    <3>3. x \in 1..n /\ y \in 1..n BY <2>9, <3>2 DEF IsMatch
    <3>4. e[x] .. e[y] \subseteq K
      <4>1. e[x] \in a..b /\ e[y] \in a..b BY <2>9, <3>3 DEF K
      <4>2. a \in Int /\ b \in Int BY <1>1, <2>3
      <4>. QED BY ONLY <4>1, <4>2 DEF K
    <3>5. x \in 1..n /\ y \in 1..n /\ Moved(u, x, y, t, e[x], e[y])
      <4>. HIDE DEF x, y
      <4>1. IsMatch(u, x, y) BY <3>2 DEF x, y
      <4>. QED BY <2>5, <2>6, <3>4, <4>1, OldMatch
    <3>6. IsMatch(t, e[x], e[y]) /\ w = NameAt(t, <<e[x], e[y]>>) BY <3>1, <3>2, <3>5 DEF Moved
    <3>7. <<e[x], e[y]>> \in Matches(t) BY <3>6, MatchesAre
    <3>. QED BY <3>6, <3>7 DEF Names
  <2>11. ASSUME NEW w \in Names(t) PROVE w \in Names(u)
    <3>1. PICK p \in Matches(t) : w = NameAt(t, p) BY DEF Names
    <3>2. p = <<p[1], p[2]>> /\ IsMatch(t, p[1], p[2]) BY MatchesAre
    <3> DEFINE c == p[1]
               d == p[2]
    <3>3. c..d \subseteq K
      <4>. SUFFICES ASSUME NEW i \in c..d, i \notin K PROVE FALSE OBVIOUS
      <4>1. i \in 1 .. Len(t) /\ t[i] # " " BY <3>2, MarkersAreMarks
      <4>. QED BY <1>1, <2>7, <4>1
    <3>. HIDE DEF c, d
    <3>4. IsMatch(t, c, d) /\ w = NameAt(t, <<c, d>>) BY <3>1, <3>2 DEF c, d
    <3>5. Stays(u, t, e, n, c, d) BY <2>5, <2>6, <3>3, <3>4, KeptMatch
    <3>6. PICK x, y : IsMatch(u, x, y) /\ NameAt(u, <<x, y>>) = w BY <3>4, <3>5 DEF Stays, Moved
    <3>7. <<x, y>> \in Matches(u) BY <2>9, <3>6, MatchesAre
    <3>. QED BY <3>6, <3>7 DEF Names
  <2>12. Names(u) = Names(t) BY <2>10, <2>11
  <2>. QED BY <2>4, <2>8, <2>9, <2>12
<1>. QED BY <1>2, <1>3

(* f strips t of the names in q, one after the other. *)
Strips(f, t, q, n, V) ==
  /\ f \in [0..n -> Seq(V)] /\ f[0] = t /\ FoldLeft(StripMarker, t, q) = f[n]
  /\ \A i \in 1..n : f[i] = StripMarker(f[i - 1], q[i])

(* There is such an f. *)
LEMMA StripTrace ==
  ASSUME NEW V, NEW n \in Nat, NEW t \in Seq(V), NEW q, DOMAIN q = 1..n
  PROVE  \E f : Strips(f, t, q, n, V)
<1> DEFINE X == Seq(V)
           base == t
           step == [p \in X \X (1..n) |-> StripMarker(p[1], q[p[2]])]
           Is(g) == g = [s \in SUBSET (1..n) |->
                          IF s = {} THEN base ELSE StripMarker(g[s \ {Max(s)}], q[Max(s)])]
           it == CHOOSE h : Is(h)
<1>1. \A a \in X : \A i \in 1..n : step[<<a, i>>] = StripMarker(a, q[i]) OBVIOUS
<1>2. step \in [X \X (1..n) -> X]
  <2>1. \A a \in X : \A i \in 1..n : StripMarker(a, q[i]) \in X BY StripKeeps
  <2>. HIDE DEF X
  <2>. QED BY <2>1
<1>3. FoldLeft(StripMarker, t, q) = it[1..n] BY DEF FoldLeft, MapThenFoldSet
<1>4. base \in X OBVIOUS
<1>. HIDE DEF step
<1>. HIDE DEF X, base
<1>5. PICK g \in [SUBSET (1..n) -> X] : Iterates(g, n, base, step)
  BY <1>2, <1>4, IterationExists DEF HasIterate
<1>6. ASSUME NEW s \in SUBSET (1..n), s # {}
      PROVE  g[s] = StripMarker(g[s \ {Max(s)}], q[Max(s)])
  <2>1. Max(s) \in 1..n /\ g[s \ {Max(s)}] \in X BY Zenon, <1>6, MaxOfUpTo
  <2>2. g[s] = step[<<g[s \ {Max(s)}], Max(s)>>] BY <1>5, <1>6 DEF Iterates
  <2>. QED BY <1>1, <2>1, <2>2
<1>7. Is(it)
  <2>1. Is(g) BY <1>5, <1>6 DEF Iterates
  <2>. QED BY Zenon, <2>1
<1>. HIDE DEF it
<1>8. Folded(it, n, X, base, step)
  <2>1. \A s \in SUBSET (1..n) :
          it[s] = IF s = {} THEN base ELSE StripMarker(it[s \ {Max(s)}], q[Max(s)])
    BY Zenon, <1>7
  <2>2. \A s \in SUBSET (1..n) : s # {} => Max(s) \in 1..n BY Zenon, MaxOfUpTo
  <2>. QED BY <1>1, <2>1, <2>2 DEF Folded
<1>9. PICK f : Follows(f, n, X, base, step) /\ f[n] = it[1..n]
  <2>1. Traced(n, X, base, step, it[1..n]) BY <1>2, <1>4, <1>8, FoldFollows
  <2>. QED BY <2>1 DEF Traced
<1>10. \A i \in 1..n : f[i - 1] \in X BY <1>9 DEF Follows
<1>11. f \in [0..n -> X] /\ \A i \in 1..n : f[i] = StripMarker(f[i - 1], q[i])
  BY <1>1, <1>9, <1>10 DEF Follows
<1>12. f[0] = base /\ FoldLeft(StripMarker, t, q) = f[n] BY <1>3, <1>9 DEF Follows
<1>13. Strips(f, t, q, n, V) BY <1>11, <1>12 DEF Strips, X, base
<1>. QED BY <1>13

(* What stripping names one after the other leaves. *)
LEMMA StrippedOfAll ==
  ASSUME NEW V, NEW t \in Seq(V), NEW W, NEW q \in Seq(W)
  PROVE  LET u == FoldLeft(StripMarker, t, q)
         IN /\ u \in Seq(V) /\ Prose(u) = Prose(t)
            /\ ~Nested(t) => Names(u) = Names(t) \ ToSet(q)
<1> DEFINE n == Len(q)
<1>1. n \in Nat /\ DOMAIN q = 1..n BY LenProperties
<1>. HIDE DEF n
<1>2. PICK f : Strips(f, t, q, n, V) BY <1>1, StripTrace
<1>3. /\ f \in [0..n -> Seq(V)] /\ f[0] = t /\ FoldLeft(StripMarker, t, q) = f[n]
      /\ \A i \in 1..n : f[i] = StripMarker(f[i - 1], q[i])
  BY <1>2 DEF Strips
<1> DEFINE Gone(i) == {q[j] : j \in 1..i}
           S == {i \in 0..n : /\ Prose(f[i]) = Prose(t)
                              /\ ~Nested(t) => ~Nested(f[i]) /\ Names(f[i]) = Names(t) \ Gone(i)}
<1>4. 0 \in S BY <1>1, <1>3
<1>5. ASSUME NEW i \in 1..n, i - 1 \in S PROVE i \in S
  <2>1. i - 1 \in 0..n /\ i \in 0..n /\ f[i - 1] \in Seq(V) /\ f[i] = StripMarker(f[i - 1], q[i])
    BY <1>1, <1>3
  <2>2. /\ Prose(f[i]) = Prose(f[i - 1])
        /\ ~Nested(f[i - 1]) => Names(f[i]) = Names(f[i - 1]) \ {q[i]} /\ ~Nested(f[i])
    BY <2>1, StripKeeps
  <2>3. Gone(i) = Gone(i - 1) \cup {q[i]}
    <3>1. \A j : j \in 1..i <=> j \in 1 .. i - 1 \/ j = i BY <1>1
    <3>. QED BY <3>1
  <2>4. Prose(f[i - 1]) = Prose(t) /\ (~Nested(t) => ~Nested(f[i - 1]) /\ Names(f[i - 1]) = Names(t) \ Gone(i - 1))
    BY <1>5
  <2>. HIDE DEF Gone
  <2>5. ~Nested(t) => ~Nested(f[i]) /\ Names(f[i]) = Names(t) \ Gone(i) BY <2>2, <2>3, <2>4
  <2>. QED BY <2>1, <2>2, <2>4, <2>5
<1>6. \A i \in 0..n : i \in S
  <2>. HIDE DEF S
  <2>. QED BY <1>1, <1>4, <1>5, InductionUpTo
<1>7. n \in S BY <1>1, <1>6
<1>8. Gone(n) = ToSet(q) BY <1>1 DEF ToSet
<1>9. f[n] \in Seq(V) BY <1>1, <1>3
<1>. QED BY <1>3, <1>7, <1>8, <1>9

(* What is taken of a sequence, and what is left of it. *)
LEMMA AtGives ==
  ASSUME NEW V, NEW q \in Seq(V), NEW K \in SUBSET DOMAIN q
  PROVE  /\ At(q, K) \in Seq(V) /\ Len(At(q, K)) = Cardinality(K)
         /\ ToSet(At(q, K)) = {q[i] : i \in K}
<1> DEFINE u == At(q, K)
           e == InOrder(K)
           n == Cardinality(K)
<1>1. Chosen(u, q, e, n, K, V) BY AtIs
<1>. HIDE DEF u, e, n
<1>2. /\ u \in Seq(V) /\ Len(u) = n /\ DOMAIN u = 1..n /\ e \in [1..n -> K]
      /\ (\A i \in K : \E k \in 1..n : e[k] = i) /\ \A k \in 1..n : u[k] = q[e[k]]
  BY <1>1 DEF Chosen, Ascends
<1>3. ToSet(u) = {q[i] : i \in K} BY <1>2 DEF ToSet
<1>. QED BY <1>2, <1>3 DEF u, n

(* The abstention has no marker. *)
LEMMA AbstentionHasNone == Names(Abstention) = {}
<1>1. Abstention \in Seq({"NICHT_GEFUNDEN"}) /\ Len(Abstention) = 1 BY DEF Abstention
<1>2. Matches(Abstention) = {}
  <2>. SUFFICES ASSUME NEW p \in Matches(Abstention) PROVE FALSE OBVIOUS
  <2>1. IsMatch(Abstention, p[1], p[2]) BY <1>1, MatchesAre
  <2>2. p[1] \in 1..1 /\ p[2] \in 1..1 /\ p[1] + 1 < p[2] BY <1>1, <2>1 DEF IsMatch
  <2>. QED BY ONLY <2>2
<1>. QED BY <1>2 DEF Names

(* A validated answer: cited are its citations' markers. *)
Resolves(answer, sources) ==
  LET result == ExtractAndValidate(answer, sources)
      cited == {c.marker : c \in ToSet(result.citations)}
  IN /\ cited \subseteq DOMAIN sources
     /\ result.answer = Abstention \/ result.citations # <<>>
     /\ ~Nested(answer) => ToSet(Markers(result.answer)) = cited
     /\ \/ result.answer = Abstention
        \/ Prose(result.answer) = Prose(answer)

(* Whatever an answer says and whichever sources it was offered, what is   *)
(* left of it cites only those, all of its markers do if none stood inside *)
(* another, and only markers and blanks are gone (domain/citations.py).    *)
THEOREM MarkersResolve ==
  ASSUME NEW V, NEW answer \in Seq(V), NEW sources
  PROVE  Resolves(answer, sources)
<1> DEFINE markers == Markers(answer)
           offered == {i \in DOMAIN markers : markers[i] \in DOMAIN sources}
           valid == At(markers, offered)
           invented == Without(markers, offered)
           left == FoldLeft(StripMarker, answer, invented)
           cleaned == Trim(left)
           abstains == cleaned # Abstention /\ valid = <<>>
           citations == [i \in DOMAIN valid |-> [marker |-> valid[i], chunk |-> sources[valid[i]]]]
           result == ExtractAndValidate(answer, sources)
           cited == {c.marker : c \in ToSet(result.citations)}
           W == Seq(V)
           lost == DOMAIN markers \ offered
<1>1. result.answer = (IF abstains THEN Abstention ELSE cleaned) /\ result.citations = citations
  BY DEF ExtractAndValidate
<1>2. markers \in Seq(W) /\ ToSet(markers) = Names(answer) BY MarkersAre
<1>3. offered \in SUBSET DOMAIN markers /\ lost \in SUBSET DOMAIN markers /\ invented = At(markers, lost)
  BY DEF Without
<1>. HIDE DEF markers, W
<1>4. valid \in Seq(W) /\ ToSet(valid) = {markers[i] : i \in offered}
  <2>. HIDE DEF offered
  <2>. QED BY <1>2, <1>3, AtGives
<1>5. invented \in Seq(W) /\ ToSet(invented) = {markers[i] : i \in lost}
  <2>. HIDE DEF offered, lost, invented
  <2>. QED BY <1>2, <1>3, AtGives
<1>6. /\ ToSet(valid) \subseteq DOMAIN sources
      /\ Names(answer) \ ToSet(invented) = ToSet(valid)
  <2>1. Names(answer) = {markers[i] : i \in DOMAIN markers} BY <1>2 DEF ToSet
  <2>. HIDE DEF valid, invented
  <2>. QED BY <1>4, <1>5, <2>1
<1>7. cited = ToSet(valid)
  <2>1. DOMAIN citations = DOMAIN valid /\ \A i \in DOMAIN valid : citations[i].marker = valid[i]
    OBVIOUS
  <2>2. cited = {c.marker : c \in ToSet(citations)} BY <1>1
  <2>. HIDE DEF citations, valid, cited
  <2>3. ToSet(citations) = {citations[i] : i \in DOMAIN valid} /\ ToSet(valid) = {valid[i] : i \in DOMAIN valid}
    BY <2>1 DEF ToSet
  <2>. QED BY <2>1, <2>2, <2>3
<1>. HIDE DEF offered, lost, valid, invented, result, cited
<1>8. /\ left \in Seq(V) /\ Prose(left) = Prose(answer)
      /\ ~Nested(answer) => Names(left) = Names(answer) \ ToSet(invented)
  BY <1>5, StrippedOfAll
<1>. HIDE DEF left
<1>9. /\ cleaned \in Seq(V) /\ Prose(cleaned) = Prose(answer)
      /\ ~Nested(answer) => Names(cleaned) = ToSet(valid)
  BY <1>6, <1>8, TrimKeeps
<1>. HIDE DEF cleaned
<1>10. valid = <<>> <=> ToSet(valid) = {}
  <2>1. DOMAIN valid = 1 .. Len(valid) /\ Len(valid) \in Nat BY <1>4, LenProperties
  <2>2. ToSet(valid) = {valid[i] : i \in DOMAIN valid} BY DEF ToSet
  <2>3. valid = <<>> => DOMAIN valid = {} OBVIOUS
  <2>4. Len(valid) = 0 => valid = <<>> BY <1>4, EmptySeq
  <2>5. Len(valid) # 0 => 1 \in DOMAIN valid BY <2>1
  <2>. QED BY <2>2, <2>3, <2>4, <2>5
<1>11. result.answer = Abstention \/ result.citations # <<>>
  <2>. SUFFICES ASSUME ~abstains, cleaned # Abstention PROVE citations # <<>> BY <1>1
  <2>1. valid # <<>> OBVIOUS
  <2>2. DOMAIN valid # {} BY <1>10, <2>1 DEF ToSet
  <2>3. DOMAIN citations = DOMAIN valid OBVIOUS
  <2>. HIDE DEF citations
  <2>. QED BY <2>2, <2>3
<1>12. ~Nested(answer) => ToSet(Markers(result.answer)) = cited
  <2>. SUFFICES ASSUME ~Nested(answer) PROVE ToSet(Markers(result.answer)) = ToSet(valid)
    BY <1>7
  <2>1. CASE abstains
    <3>1. Abstention \in Seq({"NICHT_GEFUNDEN"}) BY DEF Abstention
    <3>2. ToSet(Markers(Abstention)) = {} BY <3>1, MarkersAre, AbstentionHasNone
    <3>. QED BY <1>1, <1>10, <2>1, <3>2
  <2>2. CASE ~abstains
    <3>1. ToSet(Markers(cleaned)) = Names(cleaned) BY <1>9, MarkersAre
    <3>. QED BY <1>1, <1>9, <2>2, <3>1
  <2>. QED BY <2>1, <2>2
<1>13. result.answer = Abstention \/ Prose(result.answer) = Prose(answer) BY <1>1, <1>9
<1>. QED BY <1>6, <1>7, <1>11, <1>12, <1>13 DEF Resolves, result, cited

-----------------------------------------------------------------------------
(* A text as it is shown. *)

Piece(V) == [kind : {"text", "citation"}, text : Seq(V)]
TextsOf(out) == [i \in DOMAIN out |-> out[i].text]
Chips(out) == {i \in DOMAIN out : out[i].kind = "citation"}
EndsInChip(out) == out = <<>> \/ out[Len(out)].kind = "citation"

(* out shows the first j pieces of t, with k of the markers M as chips. *)
ShowsUpTo(out, t, j, k, M, V) ==
  /\ out \in Seq(Piece(V)) /\ FlattenSeq(TextsOf(out)) = SubSeq(t, 1, j)
  /\ IsFiniteSet(Chips(out)) /\ Cardinality(Chips(out)) = k
  /\ \A i \in Chips(out) : \E p \in M : out[i].text = SubSeq(t, p[1], p[2])
  /\ \A i \in 1 .. Len(out) - 1 : out[i].kind = "citation" \/ out[i + 1].kind = "citation"

(* x is the next piece. *)
Continues(x, out, t, j, l, M) ==
  /\ x.text = SubSeq(t, j + 1, l)
  /\ \/ x.kind = "text" /\ EndsInChip(out)
     \/ x.kind = "citation" /\ \E p \in M : x.text = SubSeq(t, p[1], p[2])

(* One more piece shows as much more of the text. *)
LEMMA OnePieceMore ==
  ASSUME NEW V, NEW t \in Seq(V), NEW M, NEW k \in Nat, NEW out,
         NEW j \in 0 .. Len(t), NEW l \in j .. Len(t), ShowsUpTo(out, t, j, k, M, V),
         NEW x \in Piece(V), Continues(x, out, t, j, l, M)
  PROVE  ShowsUpTo(out \o <<x>>, t, l, k + (IF x.kind = "citation" THEN 1 ELSE 0), M, V)
<1> DEFINE more == Append(out, x)
           n == Len(out)
           c == IF x.kind = "citation" THEN 1 ELSE 0
           Q == Piece(V)
           xs == TextsOf(out)
<1>1. out \in Seq(Q) /\ x \in Q BY DEF ShowsUpTo
<1>. HIDE DEF Q
<1>2. more = out \o <<x>> BY <1>1, AppendIsConcat
<1>3. /\ n \in Nat /\ DOMAIN out = 1..n /\ more \in Seq(Q) /\ Len(more) = n + 1 /\ DOMAIN more = 1 .. n + 1
      /\ more[n + 1] = x /\ \A i \in 1..n : more[i] = out[i]
  BY <1>1, AppendIs
<1>. HIDE DEF n, more
<1>4. /\ FlattenSeq(xs) = SubSeq(t, 1, j) /\ IsFiniteSet(Chips(out)) /\ Cardinality(Chips(out)) = k
      /\ (\A i \in Chips(out) : \E p \in M : out[i].text = SubSeq(t, p[1], p[2]))
      /\ \A i \in 1 .. n - 1 : out[i].kind = "citation" \/ out[i + 1].kind = "citation"
  BY DEF ShowsUpTo, n
<1>5. xs \in Seq(Seq(V)) /\ x.text \in Seq(V) /\ DOMAIN xs = 1..n /\ Len(xs) = n
  <2>1. \A i \in 1..n : out[i].text \in Seq(V)
    <3>1. \A i \in 1..n : out[i] \in Q BY <1>1, <1>3, ElementOfSeq DEF n
    <3>. QED BY <3>1 DEF Q, Piece
  <2> DEFINE W == Seq(V)
  <2>. HIDE DEF W
  <2>2. xs = [i \in 1..n |-> out[i].text] /\ \A i \in 1..n : out[i].text \in W
    BY <1>3, <2>1 DEF TextsOf, W
  <2>3. xs \in [1..n -> W] BY <2>2
  <2>4. xs \in Seq(W) BY <1>3, <2>3, SeqDef
  <2>5. x.text \in Seq(V) BY DEF Piece
  <2>6. DOMAIN xs = 1..n BY <2>2
  <2>7. Len(xs) = n BY <1>3, <2>4, <2>6, LenProperties
  <2>. QED BY <2>4, <2>5, <2>6, <2>7 DEF W
<1>6. TextsOf(more) = Append(xs, x.text)
  <2> DEFINE ys == Append(xs, x.text)
  <2>1. /\ ys \in Seq(Seq(V)) /\ Len(ys) = n + 1 /\ DOMAIN ys = 1 .. n + 1
        /\ ys[n + 1] = x.text /\ \A i \in 1..n : ys[i] = xs[i]
    BY <1>5, AppendIs
  <2>2. \A i \in 1..n : xs[i] = out[i].text BY <1>3 DEF TextsOf
  <2>. HIDE DEF ys, xs
  <2>3. \A i \in 1 .. n + 1 : i = n + 1 \/ i \in 1..n BY <1>3
  <2>4. \A i \in 1 .. n + 1 : ys[i] = more[i].text BY <1>3, <2>1, <2>2, <2>3
  <2>5. ys = [i \in 1 .. n + 1 |-> ys[i]]
    <3>1. ys \in [1 .. n + 1 -> Seq(V)] BY <2>1, LenProperties
    <3>. QED BY <3>1
  <2>6. TextsOf(more) = [i \in 1 .. n + 1 |-> more[i].text] BY <1>3 DEF TextsOf
  <2>. QED BY <2>4, <2>5, <2>6 DEF ys
<1>7. FlattenSeq(TextsOf(more)) = SubSeq(t, 1, l)
  <2>1. FlattenSeq(TextsOf(more)) = FlattenSeq(xs) \o x.text BY <1>5, <1>6, FlattenAppend
  <2>2. x.text = SubSeq(t, j + 1, l) BY DEF Continues
  <2>3. SubSeq(t, 1, j) \o SubSeq(t, j + 1, l) = SubSeq(t, 1, l)
    <3>1. 1 \in 1 .. Len(t) + 1 /\ j \in 1 - 1 .. Len(t) /\ l \in j .. Len(t) BY LenProperties
    <3>. QED BY <3>1, ConcatAdjacentSubSeq
  <2>. QED BY <1>4, <2>1, <2>2, <2>3
<1>8. Chips(more) = Chips(out) \cup (IF x.kind = "citation" THEN {n + 1} ELSE {})
  <2>1. \A i \in 1 .. n + 1 : i = n + 1 \/ i \in 1..n BY <1>3
  <2>2. \A i \in 1..n : i \in 1 .. n + 1 BY <1>3
  <2>3. n + 1 \in 1 .. n + 1 BY <1>3
  <2>4. \A i : i \in Chips(more) <=> i \in 1 .. n + 1 /\ more[i].kind = "citation"
    BY <1>3 DEF Chips
  <2>5. \A i : i \in Chips(out) <=> i \in 1..n /\ out[i].kind = "citation" BY <1>3 DEF Chips
  <2>. QED BY <1>3, <2>1, <2>2, <2>3, <2>4, <2>5
<1>9. n + 1 \notin Chips(out) BY <1>3 DEF Chips
<1>10. IsFiniteSet(Chips(more)) /\ Cardinality(Chips(more)) = k + c
  <2>1. CASE x.kind = "citation"
    <3>1. Chips(more) = Chips(out) \cup {n + 1} /\ c = 1 BY <1>8, <2>1
    <3> DEFINE S == Chips(out)
               y == n + 1
    <3>2. IsFiniteSet(S) /\ y \notin S BY <1>4, <1>9
    <3>. HIDE DEF S, y
    <3>3. IsFiniteSet(S \cup {y}) /\ Cardinality(S \cup {y}) = Cardinality(S) + 1
      BY <3>2, FS_AddElement
    <3>. QED BY <1>4, <3>1, <3>3 DEF S, y
  <2>2. CASE x.kind # "citation" BY <1>4, <1>8, <2>2
  <2>. QED BY <2>1, <2>2
<1>11. \A i \in Chips(more) : \E p \in M : more[i].text = SubSeq(t, p[1], p[2])
  <2>. SUFFICES ASSUME NEW i \in Chips(more) PROVE \E p \in M : more[i].text = SubSeq(t, p[1], p[2])
    OBVIOUS
  <2>1. CASE i \in Chips(out)
    <3>1. i \in 1..n BY <1>3, <2>1 DEF Chips
    <3>. QED BY <1>3, <1>4, <2>1, <3>1
  <2>2. CASE i = n + 1 /\ x.kind = "citation" BY <1>3, <2>2 DEF Continues
  <2>. QED BY <1>8, <2>1, <2>2
<1>12. \A i \in 1 .. n + 1 - 1 : more[i].kind = "citation" \/ more[i + 1].kind = "citation"
  <2>. SUFFICES ASSUME NEW i \in 1 .. n + 1 - 1
                PROVE  more[i].kind = "citation" \/ more[i + 1].kind = "citation"
    OBVIOUS
  <2>1. i \in 1..n /\ (i = n \/ (i \in 1 .. n - 1 /\ i + 1 \in 1..n)) BY <1>3
  <2>2. CASE i \in 1 .. n - 1 /\ i + 1 \in 1..n BY <1>3, <1>4, <2>1, <2>2
  <2>3. CASE i = n
    <3>1. out # <<>> BY <1>3, <2>1, <2>3 DEF n
    <3>2. more[i] = out[n] /\ more[i + 1] = x BY <1>3, <2>1, <2>3
    <3>3. x.kind = "citation" \/ out[n].kind = "citation" BY <3>1 DEF Continues, EndsInChip, n
    <3>. QED BY <3>2, <3>3
  <2>. QED BY <2>1, <2>2, <2>3
<1>13. ShowsUpTo(more, t, l, k + c, M, V) BY <1>3, <1>7, <1>10, <1>11, <1>12 DEF ShowsUpTo, Q
<1>. QED BY <1>2, <1>13

(* The text from i to j, if there is any. *)
Plain(t, i, j) == IF i > j THEN <<>> ELSE <<[kind |-> "text", text |-> SubSeq(t, i, j)]>>

(* f shows t chip by chip. *)
Segments(f, t, known, c, n, V) ==
  /\ f \in [0..n -> [out : Seq(Piece(V)), last : Nat]] /\ f[0] = [out |-> <<>>, last |-> 0]
  /\ \A i \in 1..n : f[i] = [out  |-> f[i - 1].out \o Plain(t, f[i - 1].last + 1, c[i][1] - 1)
                                       \o <<[kind |-> "citation", text |-> SubSeq(t, c[i][1], c[i][2])]>>,
                             last |-> c[i][2]]
  /\ SegmentAnswer(t, known) = f[n].out \o Plain(t, f[n].last + 1, Len(t))

(* What is cut out of a text can be shown. *)
LEMMA CutsArePieces ==
  ASSUME NEW V, NEW t \in Seq(V), NEW i \in Nat \ {0}, NEW j \in 0 .. Len(t)
  PROVE  SubSeq(t, i, j) \in Seq(V) /\ Plain(t, i, j) \in Seq(Piece(V))
         /\ [kind |-> "citation", text |-> SubSeq(t, i, j)] \in Piece(V)
<1>1. \A k \in i..j : t[k] \in V
  <2>1. \A k \in i..j : k \in 1 .. Len(t) BY LenProperties
  <2>. QED BY <2>1, ElementOfSeq
<1>2. i \in Int /\ j \in Int BY LenProperties
<1>3. SubSeq(t, i, j) \in Seq(V) BY <1>1, <1>2, SubSeqProperties
<1>4. /\ [kind |-> "citation", text |-> SubSeq(t, i, j)] \in Piece(V)
      /\ [kind |-> "text", text |-> SubSeq(t, i, j)] \in Piece(V)
  BY <1>3 DEF Piece
<1>5. Plain(t, i, j) \in Seq(Piece(V))
  <2> DEFINE x == [kind |-> "text", text |-> SubSeq(t, i, j)]
             Q == Piece(V)
  <2>1. x \in Q BY <1>4
  <2>. HIDE DEF x, Q
  <2>2. <<x>> \in Seq(Q) /\ <<>> \in Seq(Q) BY <2>1, Alone
  <2>. QED BY <2>2 DEF Plain, x, Q
<1>. QED BY <1>3, <1>4, <1>5

ChipsOf(t, known) == LeftToRight({p \in Matches(t) : NameAt(t, p) \in known})

(* There is such an f. *)
LEMMA SegmentTrace ==
  ASSUME NEW V, NEW t \in Seq(V), NEW known, NEW n \in Nat,
         DOMAIN ChipsOf(t, known) = 1..n,
         \A i \in 1..n : IsMatch(t, ChipsOf(t, known)[i][1], ChipsOf(t, known)[i][2])
  PROVE  \E f : Segments(f, t, known, ChipsOf(t, known), n, V)
<1> DEFINE c == ChipsOf(t, known)
<1>. HIDE DEF c
<1>0. DOMAIN c = 1..n /\ \A i \in 1..n : IsMatch(t, c[i][1], c[i][2]) BY DEF c
<1> DEFINE X == [out : Seq(Piece(V)), last : Nat]
           base == [out |-> <<>>, last |-> 0]
           chip(p) == [kind |-> "citation", text |-> SubSeq(t, p[1], p[2])]
           next(acc, p) == [out  |-> acc.out \o Plain(t, acc.last + 1, p[1] - 1) \o <<chip(p)>>,
                            last |-> p[2]]
           step == [p \in X \X (1..n) |-> next(p[1], c[p[2]])]
           D == DOMAIN c
           Is(g) == g = [s \in SUBSET D |->
                          IF s = {} THEN base ELSE next(g[s \ {Max(s)}], c[Max(s)])]
           it == CHOOSE h : Is(h)
<1>1. \A a \in X : \A i \in 1..n : step[<<a, i>>] = next(a, c[i]) OBVIOUS
<1>2. step \in [X \X (1..n) -> X]
  <2>1. \A a \in X : \A i \in 1..n : next(a, c[i]) \in X
    <3>. SUFFICES ASSUME NEW a \in X, NEW i \in 1..n PROVE next(a, c[i]) \in X OBVIOUS
    <3> DEFINE x == c[i][1]
               y == c[i][2]
               q == Plain(t, a.last + 1, x - 1)
               z == chip(c[i])
               Q == Piece(V)
    <3>1. x \in 1 .. Len(t) /\ y \in 1 .. Len(t) /\ x \in Nat \ {0} /\ y \in Nat /\ Len(t) \in Nat
      BY <1>0, LenProperties DEF IsMatch
    <3>2. x - 1 \in 0 .. Len(t) /\ y \in 0 .. Len(t) /\ a.last + 1 \in Nat \ {0}
      BY SMTT(60), <3>1
    <3>3. q \in Seq(Q) /\ z \in Q BY <3>1, <3>2, CutsArePieces
    <3>4. a.out \in Seq(Q) OBVIOUS
    <3>. HIDE DEF q, z, Q
    <3>5. a.out \o q \o <<z>> \in Seq(Q) BY <3>3, <3>4, Alone, ConcatProperties
    <3>. QED BY <3>1, <3>5 DEF q, z, Q
  <2>. HIDE DEF X, next
  <2>. QED BY <2>1
<1>3. SegmentAnswer(t, known) = it[D].out \o Plain(t, it[D].last + 1, Len(t))
  BY Zenon DEF SegmentAnswer, FoldLeft, MapThenFoldSet, Plain, c, ChipsOf
<1>14. D = 1..n BY <1>0
<1>. HIDE DEF D
<1>4. base \in X OBVIOUS
<1>. HIDE DEF step, next
<1>. HIDE DEF X, base
<1>5. PICK g \in [SUBSET (1..n) -> X] : Iterates(g, n, base, step)
  BY <1>2, <1>4, IterationExists DEF HasIterate
<1>6. ASSUME NEW s \in SUBSET (1..n), s # {}
      PROVE  g[s] = next(g[s \ {Max(s)}], c[Max(s)])
  <2>1. Max(s) \in 1..n /\ g[s \ {Max(s)}] \in X BY Zenon, <1>6, MaxOfUpTo
  <2>2. g[s] = step[<<g[s \ {Max(s)}], Max(s)>>] BY <1>5, <1>6 DEF Iterates
  <2>. QED BY <1>1, <2>1, <2>2
<1>7. Is(it)
  <2>1. Is(g) BY <1>5, <1>6, <1>14 DEF Iterates
  <2>. QED BY Zenon, <2>1
<1>. HIDE DEF it
<1>8. Folded(it, n, X, base, step)
  <2>0. \A s \in SUBSET D :
          it[s] = IF s = {} THEN base ELSE next(it[s \ {Max(s)}], c[Max(s)])
    BY Zenon, <1>7
  <2>1. \A s \in SUBSET (1..n) :
          it[s] = IF s = {} THEN base ELSE next(it[s \ {Max(s)}], c[Max(s)])
    BY <1>14, <2>0
  <2>2. \A s \in SUBSET (1..n) : s # {} => Max(s) \in 1..n BY Zenon, MaxOfUpTo
  <2>. QED BY <1>1, <2>1, <2>2 DEF Folded
<1>9. PICK f : Follows(f, n, X, base, step) /\ f[n] = it[1..n]
  <2>1. Traced(n, X, base, step, it[1..n]) BY <1>2, <1>4, <1>8, FoldFollows
  <2>. QED BY <2>1 DEF Traced
<1>10. \A i \in 1..n : f[i - 1] \in X BY <1>9 DEF Follows
<1>11. f \in [0..n -> X] /\ \A i \in 1..n : f[i] = next(f[i - 1], c[i])
  BY <1>1, <1>9, <1>10 DEF Follows
<1>12. f[0] = base /\ SegmentAnswer(t, known) = f[n].out \o Plain(t, f[n].last + 1, Len(t))
  BY <1>3, <1>9, <1>14 DEF Follows
<1>13. Segments(f, t, known, c, n, V) BY <1>11, <1>12 DEF Segments, X, base, next
<1>. QED BY <1>13 DEF c

(* The text in between, if there is any. *)
LEMMA PlainAdded ==
  ASSUME NEW V, NEW t \in Seq(V), NEW M, NEW k \in Nat, NEW out,
         NEW j \in 0 .. Len(t), NEW l \in j .. Len(t), ShowsUpTo(out, t, j, k, M, V), EndsInChip(out)
  PROVE  ShowsUpTo(out \o Plain(t, j + 1, l), t, l, k, M, V)
<1>1. Len(t) \in Nat BY LenProperties
<1>2. CASE l = j
  <2>1. Plain(t, j + 1, l) = <<>> BY <1>1, <1>2 DEF Plain
  <2>2. out \in Seq(Piece(V)) BY DEF ShowsUpTo
  <2>. QED BY <1>2, <2>1, <2>2, ConcatEmptySeq
<1>3. CASE l # j
  <2> DEFINE x == [kind |-> "text", text |-> SubSeq(t, j + 1, l)]
  <2>1. Plain(t, j + 1, l) = <<x>>
    <3>1. ~(j + 1 > l) BY <1>1, <1>3
    <3>. QED BY <3>1 DEF Plain
  <2>2. x \in Piece(V)
    <3>1. j + 1 \in Nat \ {0} /\ l \in 0 .. Len(t) BY <1>1
    <3>2. SubSeq(t, j + 1, l) \in Seq(V) BY <3>1, CutsArePieces
    <3>. QED BY <3>2 DEF Piece
  <2>3. x.kind = "text" /\ Continues(x, out, t, j, l, M) BY DEF Continues
  <2>. HIDE DEF x
  <2>4. ShowsUpTo(out \o <<x>>, t, l, k + (IF x.kind = "citation" THEN 1 ELSE 0), M, V)
    BY <2>2, <2>3, OnePieceMore
  <2>5. k + (IF x.kind = "citation" THEN 1 ELSE 0) = k BY <2>3
  <2>. QED BY <2>1, <2>4, <2>5
<1>. QED BY <1>2, <1>3

(* An answer's text is shown whole. *)
ShownWhole(t, known) ==
  LET shown == SegmentAnswer(t, known)
      M == {p \in Matches(t) : NameAt(t, p) \in known}
      chips == {i \in DOMAIN shown : shown[i].kind = "citation"}
  IN /\ FlattenSeq([i \in DOMAIN shown |-> shown[i].text]) = t
     /\ Cardinality(chips) = Cardinality(M)
     /\ \A i \in chips : \E m \in known : shown[i].text = <<"[S">> \o m \o <<"]">>
     /\ \A i \in 1 .. Len(shown) - 1 :
          shown[i].kind = "citation" \/ shown[i + 1].kind = "citation"

(* A marker is its name between brackets. *)
LEMMA MarkerIs ==
  ASSUME NEW V, NEW t \in Seq(V), NEW a, NEW b, IsMatch(t, a, b)
  PROVE  SubSeq(t, a, b) = <<"[S">> \o NameAt(t, <<a, b>>) \o <<"]">>
<1>1. a \in 1 .. Len(t) /\ b \in 1 .. Len(t) /\ t[a] = "[S" /\ t[b] = "]" /\ a + 1 < b
  BY DEF IsMatch
<1>2. Len(t) \in Nat BY LenProperties
<1>3. b \in a .. Len(t) /\ a + 1 \in 1 .. Len(t) /\ b \in a + 1 .. Len(t) /\ a \in 1 .. Len(t)
  BY <1>1, <1>2
<1>4. SubSeq(t, a, b) = <<t[a]>> \o SubSeq(t, a + 1, b) BY <1>3, SubSeqRecursiveFirst
<1>5. SubSeq(t, a + 1, b) = SubSeq(t, a + 1, b - 1) \o <<t[b]>> BY <1>3, SubSeqRecursiveSecond
<1>6. NameAt(t, <<a, b>>) = SubSeq(t, a + 1, b - 1) /\ NameAt(t, <<a, b>>) \in Seq(V)
  BY NameIs DEF NameAt
<1>7. <<t[a]>> \in Seq(V) /\ <<t[b]>> \in Seq(V)
  <2>1. t[a] \in V /\ t[b] \in V BY <1>1, ElementOfSeq
  <2>. QED BY <2>1, Alone
<1>8. (<<t[a]>> \o NameAt(t, <<a, b>>)) \o <<t[b]>> = <<t[a]>> \o (NameAt(t, <<a, b>>) \o <<t[b]>>)
  BY <1>6, <1>7, ConcatAssociative
<1>. QED BY <1>1, <1>4, <1>5, <1>6, <1>8

(* Whatever an answer says, the page shows all of it in order, with a chip *)
(* for each marker of a known source and text never cut without one        *)
(* (chat/answer-segments.ts).                                              *)
THEOREM TextIsShownWhole ==
  ASSUME NEW V, NEW t \in Seq(V), NEW known
  PROVE  ShownWhole(t, known)
<1> DEFINE M == {p \in Matches(t) : NameAt(t, p) \in known}
           c == ChipsOf(t, known)
           n == Cardinality(M)
           l == Len(t)
<1>1. IsFiniteSet(M) /\ Lined(c, n, M) /\ DOMAIN c = 1..n BY LeftToRightIs DEF ChipsOf
<1>2. l \in Nat BY LenProperties
<1>3. \A p \in M : p = <<p[1], p[2]>> /\ IsMatch(t, p[1], p[2]) /\ NameAt(t, p) \in known
  BY MatchesAre
<1>. HIDE DEF M, n, c, l
<1>4. n \in Nat /\ c \in [1..n -> M] /\ \A j, k \in 1..n : j < k => c[j][2] < c[k][1]
  BY <1>1 DEF Lined
<1>5. \A i \in 1..n : c[i] \in M /\ IsMatch(t, c[i][1], c[i][2]) BY <1>3, <1>4
<1>6. PICK f : Segments(f, t, known, c, n, V) BY <1>1, <1>4, <1>5, SegmentTrace DEF c
<1> DEFINE R == [out : Seq(Piece(V)), last : Nat]
<1>7. /\ f \in [0..n -> R] /\ f[0] = [out |-> <<>>, last |-> 0]
      /\ \A i \in 1..n : f[i] = [out  |-> f[i - 1].out \o Plain(t, f[i - 1].last + 1, c[i][1] - 1)
                                           \o <<[kind |-> "citation", text |-> SubSeq(t, c[i][1], c[i][2])]>>,
                                 last |-> c[i][2]]
      /\ SegmentAnswer(t, known) = f[n].out \o Plain(t, f[n].last + 1, l)
  BY <1>6 DEF Segments, l
<1> DEFINE S == {i \in 0..n : /\ f[i].last = (IF i = 0 THEN 0 ELSE c[i][2])
                              /\ f[i].last \in 0..l
                              /\ ShowsUpTo(f[i].out, t, f[i].last, i, M, V) /\ EndsInChip(f[i].out)}
<1>8. 0 \in S
  <2> DEFINE none == <<>>
  <2>1. f[0].out = none /\ f[0].last = 0 /\ EndsInChip(none) BY <1>7 DEF EndsInChip
  <2>2. none \in Seq(Piece(V)) /\ Len(none) = 0 /\ DOMAIN none = {} OBVIOUS
  <2>3. TextsOf(none) = <<>> BY <2>2 DEF TextsOf
  <2>4. FlattenSeq(<<>>) = <<>>
    <3>1. <<>> \in Seq(Seq({})) /\ <<>> \in Seq({}) OBVIOUS
    <3>. QED BY <3>1, FlattenAppend
  <2>5. SubSeq(t, 1, 0) = <<>> BY SubSeqEmpty
  <2>6. Chips(none) = {} BY <2>2 DEF Chips
  <2>7. ShowsUpTo(none, t, 0, 0, M, V)
    <3>1. IsFiniteSet(Chips(none)) /\ Cardinality(Chips(none)) = 0 BY <2>6, FS_EmptySet
    <3>2. FlattenSeq(TextsOf(none)) = SubSeq(t, 1, 0) BY <2>3, <2>4, <2>5
    <3>3. 1 .. Len(none) - 1 = {} BY <2>2
    <3>. HIDE DEF none
    <3>. QED BY <2>2, <2>6, <3>1, <3>2, <3>3 DEF ShowsUpTo
  <2>. QED BY <1>2, <1>4, <2>1, <2>7
<1>9. ASSUME NEW i \in 1..n, i - 1 \in S PROVE i \in S
  <2> DEFINE j == f[i - 1].last
             a == c[i][1]
             b == c[i][2]
             out == f[i - 1].out
             k == i - 1
             mid == out \o Plain(t, j + 1, a - 1)
             x == [kind |-> "citation", text |-> SubSeq(t, a, b)]
  <2>1. /\ j = (IF k = 0 THEN 0 ELSE c[k][2]) /\ j \in 0..l
        /\ ShowsUpTo(out, t, j, k, M, V) /\ EndsInChip(out)
    BY <1>9
  <2>2. c[i] \in M /\ a \in 1..l /\ b \in 1..l /\ a + 1 < b BY <1>5 DEF IsMatch, l
  <2>3. j < a
    <3>1. CASE k = 0 BY <2>1, <2>2, <3>1
    <3>2. CASE k # 0
      <4>1. k \in 1..n /\ k < i BY <1>4, <3>2
      <4>. QED BY <1>4, <2>1, <3>2, <4>1
    <3>. QED BY <3>1, <3>2
  <2>4. f[i] = [out |-> mid \o <<x>>, last |-> b] BY <1>7
  <2>5. k \in Nat /\ i = k + 1 /\ i \in 0..n BY <1>4
  <2>. HIDE DEF j, a, b, out, k
  <2>6. a - 1 \in j..l /\ a - 1 \in 0..l /\ b \in a - 1 .. l /\ a \in Nat \ {0} /\ b \in 0..l
    BY <1>2, <2>1, <2>2, <2>3
  <2>7. ShowsUpTo(mid, t, a - 1, k, M, V)
    <3>1. j \in 0 .. Len(t) /\ a - 1 \in j .. Len(t) BY <2>1, <2>6 DEF l
    <3>. QED BY <2>1, <2>5, <3>1, PlainAdded
  <2>8. x \in Piece(V) BY <2>6, CutsArePieces DEF l
  <2>9. Continues(x, mid, t, a - 1, b, M)
    <3>1. a - 1 + 1 = a BY <2>6
    <3>. QED BY <2>2, <3>1 DEF Continues, a, b
  <2>10. x.kind = "citation" OBVIOUS
  <2>. HIDE DEF x, mid
  <2>11. ShowsUpTo(mid \o <<x>>, t, b, i, M, V)
    <3>1. a - 1 \in 0 .. Len(t) /\ b \in a - 1 .. Len(t) BY <2>6 DEF l
    <3>2. ShowsUpTo(mid \o <<x>>, t, b, k + (IF x.kind = "citation" THEN 1 ELSE 0), M, V)
      BY <2>5, <2>7, <2>8, <2>9, <3>1, OnePieceMore
    <3>. QED BY <2>5, <2>10, <3>2
  <2>12. EndsInChip(mid \o <<x>>)
    <3> DEFINE Q == Piece(V)
    <3>1. mid \in Seq(Q) /\ x \in Q BY <2>7, <2>8 DEF ShowsUpTo
    <3>. HIDE DEF Q
    <3>2. Append(mid, x) = mid \o <<x>> BY <3>1, AppendIsConcat
    <3>3. Len(Append(mid, x)) = Len(mid) + 1 /\ Append(mid, x)[Len(mid) + 1] = x
      BY <3>1, AppendProperties
    <3>. QED BY <2>10, <3>2, <3>3 DEF EndsInChip
  <2>13. f[i].last = b /\ f[i].out = mid \o <<x>> /\ i # 0 BY <2>4, <2>5
  <2>14. b = c[i][2] BY DEF b
  <2>. QED BY <2>5, <2>6, <2>11, <2>12, <2>13, <2>14
<1>10. \A i \in 0..n : i \in S
  <2>. HIDE DEF S
  <2>. QED BY <1>4, <1>8, <1>9, InductionUpTo
<1> DEFINE shown == SegmentAnswer(t, known)
<1>11. ShowsUpTo(shown, t, l, n, M, V)
  <2> DEFINE j == f[n].last
             out == f[n].out
  <2>1. n \in S BY <1>4, <1>10
  <2>2. j \in 0..l /\ ShowsUpTo(out, t, j, n, M, V) /\ EndsInChip(out) BY <2>1
  <2>3. shown = out \o Plain(t, j + 1, l) BY <1>7
  <2>. HIDE DEF j, out, shown
  <2>4. j \in 0 .. Len(t) /\ l \in j .. Len(t) BY <1>2, <2>2 DEF l
  <2>5. ShowsUpTo(out \o Plain(t, j + 1, l), t, l, n, M, V) BY <1>4, <2>2, <2>4, PlainAdded
  <2>. QED BY <2>3, <2>5
<1>. HIDE DEF shown
<1>12. FlattenSeq([i \in DOMAIN shown |-> shown[i].text]) = t
  <2>1. SubSeq(t, 1, l) = t BY SubSeqFull DEF l
  <2>. QED BY <1>11, <2>1 DEF ShowsUpTo, TextsOf
<1>13. Cardinality(Chips(shown)) = n BY <1>11 DEF ShowsUpTo
<1>14. \A i \in Chips(shown) : \E m \in known : shown[i].text = <<"[S">> \o m \o <<"]">>
  <2>. SUFFICES ASSUME NEW i \in Chips(shown)
                PROVE  \E m \in known : shown[i].text = <<"[S">> \o m \o <<"]">>
    OBVIOUS
  <2>1. PICK p \in M : shown[i].text = SubSeq(t, p[1], p[2]) BY <1>11 DEF ShowsUpTo
  <2>2. SubSeq(t, p[1], p[2]) = <<"[S">> \o NameAt(t, <<p[1], p[2]>>) \o <<"]">>
    <3>1. IsMatch(t, p[1], p[2]) BY <1>3
    <3> DEFINE a == p[1]
               b == p[2]
    <3>. HIDE DEF a, b
    <3>2. IsMatch(t, a, b) BY <3>1 DEF a, b
    <3>3. SubSeq(t, a, b) = <<"[S">> \o NameAt(t, <<a, b>>) \o <<"]">> BY <3>2, MarkerIs
    <3>. QED BY <3>3 DEF a, b
  <2>3. NameAt(t, <<p[1], p[2]>>) \in known BY <1>3
  <2>. QED BY <2>1, <2>2, <2>3
<1>15. \A i \in 1 .. Len(shown) - 1 : shown[i].kind = "citation" \/ shown[i + 1].kind = "citation"
  BY <1>11 DEF ShowsUpTo
<1>. QED BY <1>12, <1>13, <1>14, <1>15 DEF ShownWhole, Chips, M, n, shown

(* At most one step runs or was stopped, and it comes between those that   *)
(* are complete and those that wait (chat/stage-progress.ts).              *)
LEMMA ProgressOfCalls == InputsStayCalls => ProgressIsOneStep
<1>. SUFFICES ASSUME InputsStayCalls, subject = "steps" PROVE ProgressIsOneStep
  BY DEF ProgressIsOneStep
<1>1. input.status \in {"streaming", "done", "error", "cancelled"} /\ input.reached \in 0..3
  BY AnswersAreTyped DEF InputsStayCalls
<1> DEFINE status == input.status
           reached == input.reached
           steps == StageProgress(status, reached)
           current == {i \in DOMAIN steps : steps[i] \in {"active", "stopped"}}
<1>2. steps = [i \in 1..3 |-> StepState(status, reached, i)] BY DEF StageProgress, Steps
<1>. HIDE DEF status, reached, steps
<1>3. status \in {"streaming", "done", "error", "cancelled"} /\ reached \in 0..3
  BY <1>1 DEF status, reached
<1>4. /\ DOMAIN steps = 1..3
      /\ \A i \in 1..3 : steps[i] = IF status = "done" \/ i < reached THEN "complete"
                                    ELSE IF i > reached THEN "pending"
                                    ELSE IF status = "streaming" THEN "active" ELSE "stopped"
  <2>1. DOMAIN steps = 1..3 /\ \A i \in 1..3 : steps[i] = StepState(status, reached, i) BY <1>2
  <2>2. \A i \in 1..3 : StepState(status, reached, i) =
                          IF status = "done" \/ i < reached THEN "complete"
                          ELSE IF i > reached THEN "pending"
                          ELSE IF status = "streaming" THEN "active" ELSE "stopped"
    BY <1>3 DEF StepState
  <2>. QED BY <2>1, <2>2
<1>5. current = IF status = "done" \/ reached = 0 THEN {} ELSE {reached} BY <1>3, <1>4
<1>6. Cardinality(current) <= 1
  <2>. HIDE DEF current
  <2>1. Cardinality({}) = 0 /\ Cardinality({reached}) = 1 BY FS_EmptySet, FS_Singleton
  <2>2. current = {} \/ current = {reached} BY <1>5
  <2>. QED BY <2>1, <2>2
<1>7. \A i, j \in 1..3 : i < j => /\ ~(steps[i] = "pending" /\ steps[j] # "pending")
                                  /\ (steps[j] = "complete" => steps[i] = "complete")
  BY <1>3, <1>4
<1>8. status # "streaming" => \A i \in 1..3 : steps[i] # "active" BY <1>4
<1>9. (current = {}) = (status = "done" \/ reached = 0) BY <1>5
<1>. QED BY <1>4, <1>6, <1>7, <1>8, <1>9 DEF ProgressIsOneStep, status, reached, steps

-----------------------------------------------------------------------------
(* Conflicts of versions. *)

Source == [version : STRING, codes : SUBSET STRING]
VersionsOf(sources, c) == {s.version : s \in {r \in ToSet(sources) : c \in r.codes}} \ {""}

(* A code's labels are its versions, each once. *)
LEMMA LabelsAre ==
  ASSUME NEW sources \in Seq(Source), NEW c
  PROVE  /\ IsInjective(LabelsOf(sources, c)) /\ ToSet(LabelsOf(sources, c)) = VersionsOf(sources, c)
         /\ Len(LabelsOf(sources, c)) = Cardinality(VersionsOf(sources, c))
<1> DEFINE K == {i \in DOMAIN sources : sources[i].version # "" /\ c \in sources[i].codes}
           u == At(sources, K)
           q == [k \in DOMAIN u |-> u[k].version]
           labels == Distinct(q)
           n == Len(u)
<1>1. K \in SUBSET DOMAIN sources OBVIOUS
<1>2. u \in Seq(Source) /\ ToSet(u) = {sources[i] : i \in K}
  <2>. HIDE DEF K
  <2>. QED BY <1>1, AtGives
<1>3. LabelsOf(sources, c) = labels BY DEF LabelsOf
<1>. HIDE DEF u
<1>4. n \in Nat /\ DOMAIN u = 1..n /\ \A k \in 1..n : u[k] \in Source
  BY <1>2, LenProperties, ElementOfSeq
<1>. HIDE DEF n
<1>5. q \in [1..n -> STRING] BY <1>4 DEF Source
<1>6. q \in Seq(STRING) /\ DOMAIN q = 1..n BY <1>4, <1>5, SeqDef
<1>7. ToSet(q) = VersionsOf(sources, c)
  <2>1. ToSet(q) = {x.version : x \in ToSet(u)} BY <1>4 DEF ToSet
  <2>2. ToSet(sources) = {sources[i] : i \in DOMAIN sources} BY DEF ToSet
  <2>3. \A v : v \in {x.version : x \in ToSet(u)} <=> \E i \in K : v = sources[i].version
    BY <1>2
  <2>4. \A v : v \in VersionsOf(sources, c) <=>
          v # "" /\ \E i \in DOMAIN sources : c \in sources[i].codes /\ v = sources[i].version
    BY <2>2 DEF VersionsOf
  <2>5. \A v : (\E i \in K : v = sources[i].version) <=>
          v # "" /\ \E i \in DOMAIN sources : c \in sources[i].codes /\ v = sources[i].version
    OBVIOUS
  <2>. HIDE DEF q, K
  <2>. QED BY <2>1, <2>3, <2>4, <2>5
<1>. HIDE DEF q
<1>8. labels \in Seq(STRING) /\ IsInjective(labels) /\ ToSet(labels) = ToSet(q)
  BY <1>6, DistinctIs
<1>9. Cardinality(ToSet(labels)) = Len(labels) BY <1>8, InjectiveSize
<1>. QED BY <1>3, <1>7, <1>8, <1>9

(* Every disagreement is reported, and nothing else (domain/conflicts.py). *)
LEMMA ConflictsOfCalls == InputsStayCalls => ConflictsAreComplete
<1>. SUFFICES ASSUME InputsStayCalls, subject = "conflicts" PROVE ConflictsAreComplete
  BY DEF ConflictsAreComplete
<1>1. input \in Seq(Source) BY AnswersAreTyped DEF InputsStayCalls, Source
<1> DEFINE conflicts == FindVersionConflicts(input)
           codes == UNION {s.codes : s \in ToSet(input)}
<1>2. /\ DOMAIN conflicts = {d \in codes : Len(LabelsOf(input, d)) >= 2}
      /\ \A c \in DOMAIN conflicts : conflicts[c] = LabelsOf(input, c)
  BY DEF FindVersionConflicts
<1>3. \A c : /\ IsInjective(LabelsOf(input, c)) /\ ToSet(LabelsOf(input, c)) = VersionsOf(input, c)
             /\ Len(LabelsOf(input, c)) = Cardinality(VersionsOf(input, c))
  BY <1>1, LabelsAre
<1>. HIDE DEF conflicts, codes
<1>4. DOMAIN conflicts = {d \in codes : Cardinality(VersionsOf(input, d)) >= 2} BY <1>2, <1>3
<1>5. \A c \in DOMAIN conflicts : ToSet(conflicts[c]) = VersionsOf(input, c) /\ IsInjective(conflicts[c])
  BY <1>2, <1>3
<1>. QED BY <1>4, <1>5 DEF ConflictsAreComplete, VersionsOf, conflicts, codes

-----------------------------------------------------------------------------
(* The answers among the calls. *)

(* Every marker of an answer resolves, and it is shown whole. *)
LEMMA AnswersOfCalls == InputsStayCalls => EveryMarkerResolves /\ AnswerIsShownWhole
<1>. SUFFICES ASSUME InputsStayCalls, subject = "answer" PROVE EveryMarkerResolves /\ AnswerIsShownWhole
  BY DEF EveryMarkerResolves, AnswerIsShownWhole
<1>1. input.answer \in Seq(STRING) BY AnswersAreTyped DEF InputsStayCalls
<1>2. Resolves(input.answer, BuildContext(input.chunks)) BY <1>1, MarkersResolve
<1>3. ShownWhole(input.answer, DOMAIN BuildContext(input.chunks)) BY <1>1, TextIsShownWhole
<1>4. EveryMarkerResolves BY <1>2 DEF EveryMarkerResolves, Resolves
<1>5. AnswerIsShownWhole BY <1>3 DEF AnswerIsShownWhole, ShownWhole
<1>. QED BY <1>4, <1>5

(* An answer cites what it was offered and is shown as it is, and every    *)
(* disagreement of its sources is reported (domain/citations.py,           *)
(* domain/conflicts.py, chat/answer-segments.ts, chat/stage-progress.ts).  *)
THEOREM AnswersSound == Spec => []AnswersAreSound
<1>1. InputsStayCalls => AnswersAreSound
  BY AnswersOfCalls, ProgressOfCalls, ConflictsOfCalls DEF AnswersAreSound
<1>. QED BY <1>1, CallsAreInputs, PTL

-----------------------------------------------------------------------------
(* Two raters. *)

(* What a sequence holds is finite. *)
LEMMA ToSetIsFinite ==
  ASSUME NEW V, NEW q \in Seq(V)
  PROVE  IsFiniteSet(ToSet(q)) /\ ToSet(q) \in SUBSET V
<1> DEFINE n == Len(q)
           f == [i \in 1..n |-> q[i]]
<1>1. n \in Nat /\ DOMAIN q = 1..n /\ \A i \in 1..n : q[i] \in V BY LenProperties, ElementOfSeq
<1>2. ToSet(q) = {q[i] : i \in 1..n} BY <1>1 DEF ToSet
<1>3. IsFiniteSet(1..n) BY <1>1, FS_Interval
<1>. HIDE DEF n
<1>4. f \in [1..n -> ToSet(q)] /\ \A y \in ToSet(q) : \E i \in 1..n : f[i] = y BY <1>2
<1>. HIDE DEF f
<1>5. IsFiniteSet(ToSet(q)) BY <1>3, <1>4, ImageOf
<1>. QED BY <1>1, <1>2, <1>5

(* The labels' counts are numbers, and sum up to the length. *)
Counted(a, L) ==
  /\ \A l : IsFiniteSet({i \in DOMAIN a : a[i] = l}) /\ CountOf(a, l) \in 0 .. Len(a)
  /\ \A l : CountOf(a, l) = Len(a) => \A i \in DOMAIN a : a[i] = l
  /\ \A i \in DOMAIN a : CountOf(a, a[i]) >= 1
  /\ Total([l \in L |-> CountOf(a, l)]) = Len(a)

LEMMA CountsSum ==
  ASSUME NEW V, NEW a \in Seq(V), NEW L, IsFiniteSet(L), ToSet(a) \subseteq L
  PROVE  Counted(a, L)
<1> DEFINE n == Len(a)
           D == 1..n
           at(l) == {i \in D : a[i] = l}
           key == [i \in D |-> a[i]]
           f == [l \in L |-> CountOf(a, l)]
<1>1. n \in Nat /\ DOMAIN a = D /\ \A i \in D : a[i] \in L BY LenProperties DEF ToSet
<1>2. IsFiniteSet(D) /\ Cardinality(D) = n BY <1>1, FS_Interval
<1>. HIDE DEF D, n
<1>3. \A l : at(l) \in SUBSET D /\ CountOf(a, l) = Cardinality(at(l)) BY <1>1 DEF CountOf
<1>4. \A l : IsFiniteSet(at(l)) /\ CountOf(a, l) \in 0..n /\ (CountOf(a, l) = n => at(l) = D)
  <2>. SUFFICES ASSUME NEW l
                PROVE  IsFiniteSet(at(l)) /\ CountOf(a, l) \in 0..n /\ (CountOf(a, l) = n => at(l) = D)
    OBVIOUS
  <2> DEFINE A == at(l)
  <2>1. A \in SUBSET D /\ CountOf(a, l) = Cardinality(A) BY <1>3
  <2>. HIDE DEF A
  <2>2. IsFiniteSet(A) /\ Cardinality(A) \in Nat /\ Cardinality(A) <= n /\ (Cardinality(A) = n => A = D)
    BY <1>2, <2>1, FS_Subset, FS_CardinalityType
  <2>. QED BY <1>1, <2>1, <2>2 DEF A
<1>5. ASSUME NEW i \in D PROVE CountOf(a, a[i]) >= 1
  <2> DEFINE A == at(a[i])
  <2>1. i \in A /\ IsFiniteSet(A) /\ CountOf(a, a[i]) = Cardinality(A) BY <1>3, <1>4
  <2>. HIDE DEF A
  <2>2. Cardinality(A) \in Nat /\ Cardinality(A) # 0 BY <2>1, FS_CardinalityType, FS_EmptySet
  <2>. QED BY <2>1, <2>2
<1>6. key \in [D -> L] BY <1>1
<1>7. \A l \in L : f[l] = Cardinality({i \in D : key[i] = l})
  <2>1. \A l : {i \in D : key[i] = l} = at(l) OBVIOUS
  <2>. HIDE DEF key, at
  <2>. QED BY <1>3, <2>1
<1>8. f \in [L -> Nat]
  <2>1. \A l : CountOf(a, l) \in 0..n BY <1>4
  <2>2. \A l : CountOf(a, l) \in Nat BY ONLY <1>1, <2>1
  <2>. QED BY <2>2
<1>. HIDE DEF key, f
<1>9. Total(f) = Cardinality(D) BY SMTT(60), <1>2, <1>6, <1>7, <1>8, CountedByKey
<1>10. \A l : CountOf(a, l) = n => \A i \in D : a[i] = l BY <1>4
<1>11. \A l : IsFiniteSet({i \in DOMAIN a : a[i] = l}) /\ CountOf(a, l) \in 0 .. Len(a)
  BY <1>1, <1>4 DEF n
<1>. QED BY <1>1, <1>2, <1>5, <1>9, <1>10, <1>11 DEF Counted, f, n

(* The agreement by chance, times the square of the length. *)
Chance(a, b) == Total([l \in ToSet(a) \cup ToSet(b) |-> CountOf(a, l) * CountOf(b, l)])

(* It is whole only where all labels of both are the same. *)
LEMMA ChanceIs ==
  ASSUME NEW V, NEW a \in Seq(V), NEW b \in Seq(V), Len(a) = Len(b)
  PROVE  /\ Chance(a, b) \in Nat /\ Chance(a, b) <= Len(a) * Len(a)
         /\ Chance(a, b) = Len(a) * Len(a) => a = b
         /\ Chance(b, a) = Chance(a, b)
<1> DEFINE n == Len(a)
           L == ToSet(a) \cup ToSet(b)
           ca == [l \in L |-> CountOf(a, l)]
           f == [l \in L |-> CountOf(a, l) * CountOf(b, l)]
           g == [l \in L |-> n * CountOf(a, l)]
<1>1. n \in Nat /\ DOMAIN a = 1..n /\ DOMAIN b = 1..n BY LenProperties
<1>2. IsFiniteSet(L) /\ ToSet(a) \subseteq L /\ ToSet(b) \subseteq L BY ToSetIsFinite, FS_Union
<1>. HIDE DEF L
<1>3. Counted(a, L) /\ Counted(b, L) BY <1>2, CountsSum
<1>. HIDE DEF n
<1>4. \A l : CountOf(a, l) \in 0..n /\ CountOf(b, l) \in 0..n BY <1>3 DEF Counted, n
<1>5. Total(ca) = n BY <1>3 DEF Counted, n
<1>6. ca \in [L -> Int] /\ \A l \in L : g[l] = n * ca[l] BY <1>1, <1>4
<1>7. \A l : /\ CountOf(a, l) * CountOf(b, l) \in Nat /\ n * CountOf(a, l) \in Nat
             /\ CountOf(a, l) * CountOf(b, l) <= n * CountOf(a, l)
             /\ CountOf(a, l) >= 1 /\ CountOf(b, l) < n => CountOf(a, l) * CountOf(b, l) < n * CountOf(a, l)
  <2>. SUFFICES ASSUME NEW x \in 0..n, NEW y \in 0..n
                PROVE  /\ x * y \in Nat /\ n * x \in Nat /\ x * y <= n * x
                       /\ x >= 1 /\ y < n => x * y < n * x
    BY <1>4
  <2>1. x \in Nat /\ y \in Nat /\ y <= n BY <1>1
  <2>2. x * y <= x * n /\ x * n = n * x BY <1>1, <2>1, ProductGrows
  <2>3. ASSUME x >= 1, y < n PROVE x * y < n * x
    <3>1. n - 1 \in Nat /\ y <= n - 1 BY <1>1, <2>1, <2>3
    <3>2. x * y <= x * (n - 1) BY <2>1, <3>1, ProductGrows
    <3>3. x * (n - 1) = x * n - x BY <1>1, <2>1
    <3>4. x * y \in Int /\ x * n \in Int BY <1>1, <2>1
    <3>. QED BY <2>1, <2>2, <2>3, <3>2, <3>3, <3>4
  <2>. QED BY <1>1, <2>1, <2>2, <2>3
<1>8. f \in [L -> Nat] /\ g \in [L -> Nat] /\ \A l \in L : f[l] <= g[l] BY <1>7
<1>9. \A l \in L : f[l] = CountOf(a, l) * CountOf(b, l) /\ g[l] = n * CountOf(a, l) OBVIOUS
<1>10. g \in [L -> Int] BY <1>8
<1>. HIDE DEF f, g, ca
<1>11. Total(g) = n * n
  <2>1. Times(g, n, ca, L) BY <1>1, <1>6, <1>10 DEF Times
  <2>2. Total(g) = n * Total(ca) BY <1>2, <2>1, TotalTimes
  <2>. QED BY <1>5, <2>2
<1>12. Total(f) \in Nat /\ Total(f) <= Total(g)
  <2>1. L \in SUBSET L OBVIOUS
  <2>. QED BY <1>2, <1>8, <2>1, TotalGrows, TotalIsNat
<1>13. ASSUME Total(f) = n * n PROVE a = b
  <2>1. ASSUME NEW i \in 1..n PROVE a[i] = b[i]
    <3> DEFINE l == a[i]
    <3>1. l \in L /\ CountOf(a, l) >= 1
      <4>1. l \in ToSet(a) BY <1>1 DEF ToSet
      <4>2. CountOf(a, l) >= 1 BY <1>1, <1>3 DEF Counted
      <4>. QED BY <1>2, <4>1, <4>2
    <3>. HIDE DEF l
    <3>2. CountOf(b, l) = n
      <4>. SUFFICES ASSUME CountOf(b, l) # n PROVE FALSE OBVIOUS
      <4>1. CountOf(b, l) < n BY <1>1, <1>4
      <4>2. f[l] < g[l] BY <1>7, <1>9, <3>1, <4>1
      <4>3. Total(f) < Total(g) BY <1>2, <1>8, <3>1, <4>2, TotalIsLess
      <4>. QED BY <1>11, <1>12, <1>13, <4>3
    <3>3. b[i] = l BY <1>1, <1>3, <3>2 DEF Counted, n
    <3>. QED BY <3>3 DEF l
  <2>2. a \in [1..n -> V] /\ b \in [1..n -> V] BY <1>1, LenProperties
  <2>3. a = [i \in 1..n |-> a[i]] /\ b = [i \in 1..n |-> b[i]] BY <2>2
  <2>. QED BY ONLY <2>1, <2>3
<1>14. Chance(a, b) = Total(f) BY DEF Chance, f, L
<1>15. Chance(b, a) = Total(f)
  <2>1. ToSet(b) \cup ToSet(a) = L BY DEF L
  <2>2. \A l \in L : CountOf(b, l) * CountOf(a, l) = CountOf(a, l) * CountOf(b, l) BY <1>1, <1>4
  <2>3. [l \in L |-> CountOf(b, l) * CountOf(a, l)] = f BY <2>2 DEF f
  <2>. QED BY <2>1, <2>3 DEF Chance
<1>. QED BY <1>11, <1>12, <1>13, <1>14, <1>15 DEF n

(* Agreement beyond chance, in whole numbers. *)
LEMMA BeyondChance ==
  ASSUME NEW n \in Nat \ {0}, NEW k \in 0..n, NEW c \in Nat, c < n * n
  PROVE  /\ n * n - c > 0 /\ ~(k * (n * n - c) < (n * k - c) * n)
         /\ ((n * k - c) * 1 = 1 * (n * n - c)) <=> k = n
<1>1. k \in Nat /\ k <= n /\ n * n \in Int /\ n * k \in Int /\ k * n = n * k OBVIOUS
<1>2. c * k <= c * n BY <1>1, ProductGrows
<1>3. k * (n * n - c) = (n * k) * n - c * k /\ (n * k - c) * n = (n * k) * n - c * n BY <1>1
<1>4. k < n => n * k < n * n
  <2>. SUFFICES ASSUME k < n PROVE n * k < n * n OBVIOUS
  <2>1. n * k <= n * (n - 1) /\ n * (n - 1) = n * n - n BY <1>1, ProductGrows
  <2>. QED BY <1>1, <2>1
<1> DEFINE X == (n * k) * n
           Y == c * k
           Z == c * n
<1>5. X \in Int /\ Y \in Int /\ Z \in Int BY <1>1
<1>6. ~(X - Y < X - Z)
  <2>. HIDE DEF X, Y, Z
  <2>1. Y <= Z BY <1>2 DEF Y, Z
  <2>. QED BY <1>5, <2>1
<1>7. ~(k * (n * n - c) < (n * k - c) * n) BY <1>3, <1>6
<1>8. ((n * k - c) * 1 = 1 * (n * n - c)) <=> n * k = n * n BY <1>1
<1>. QED BY <1>1, <1>4, <1>7, <1>8

(* Kappa is one exactly for raters who agree, and never more than their    *)
(* agreement (eval/agreement.py).                                          *)
LEMMA KappaOfCalls == InputsStayCalls => KappaMeasuresAgreement
<1>. SUFFICES ASSUME InputsStayCalls, subject = "raters" PROVE KappaMeasuresAgreement
  BY DEF KappaMeasuresAgreement
<1> DEFINE a == input.a
           b == input.b
           n == Len(a)
           same == {i \in DOMAIN a : a[i] = b[i]}
           k == Cardinality(same)
           c == Chance(a, b)
<1>1. a \in Seq(Nat) /\ b \in Seq(Nat) /\ Len(a) = Len(b) /\ a # <<>>
  BY MeasuresAreTyped DEF InputsStayCalls
<1>. HIDE DEF a, b
<1>2. n \in Nat /\ n # 0 /\ DOMAIN a = 1..n /\ DOMAIN b = 1..n BY <1>1, LenProperties, EmptySeq
<1>3. c \in Nat /\ c <= n * n /\ (c = n * n => a = b) /\ Chance(b, a) = c BY <1>1, ChanceIs
<1>. HIDE DEF c, n
<1>4. /\ k \in 0..n /\ (k = n <=> a = b)
  <2>1. same \in SUBSET (1..n) /\ IsFiniteSet(1..n) /\ Cardinality(1..n) = n
    BY <1>2, FS_Interval
  <2>2. same = 1..n <=> a = b
    <3>1. ASSUME same = 1..n PROVE a = b
      <4>1. \A i \in 1..n : a[i] = b[i] BY <3>1
      <4>2. a = [i \in 1..n |-> a[i]] /\ b = [i \in 1..n |-> b[i]]
        <5>1. a \in [1..n -> Nat] /\ b \in [1..n -> Nat] BY <1>1, <1>2, LenProperties
        <5>. QED BY <5>1
      <4>. QED BY ONLY <4>1, <4>2
    <3>2. ASSUME a = b PROVE same = 1..n BY <1>2, <3>2
    <3>. QED BY <3>1, <3>2
  <2>. HIDE DEF same
  <2>3. Cardinality(same) \in Nat /\ Cardinality(same) <= n /\ (Cardinality(same) = n => same = 1..n)
    BY <2>1, FS_Subset, FS_CardinalityType
  <2>4. same = 1..n => k = n BY <2>1
  <2>5. k \in 0..n BY <1>2, <2>3
  <2>. QED BY <2>2, <2>3, <2>4, <2>5
<1>5. {i \in DOMAIN b : b[i] = a[i]} = same BY <1>2
<1>. HIDE DEF same
<1>6. PercentAgreement(a, b) = <<k, n>> /\ PercentAgreement(b, a) = <<k, n>>
  BY <1>1, <1>5 DEF PercentAgreement, same, k, n
<1>. HIDE DEF k
<1> DEFINE kappa == IF c = n * n THEN <<1, 1>> ELSE <<n * k - c, n * n - c>>
<1>7. CohensKappa(a, b) = kappa
  <2>1. c = Total([l \in ToSet(a) \cup ToSet(b) |-> CountOf(a, l) * CountOf(b, l)])
    BY DEF c, Chance
  <2>. QED BY <1>6, <2>1 DEF CohensKappa, n
<1>8. CohensKappa(b, a) = kappa
  <2>1. c = Total([l \in ToSet(b) \cup ToSet(a) |-> CountOf(b, l) * CountOf(a, l)])
    BY <1>3 DEF Chance
  <2>2. Len(b) = n BY <1>1 DEF n
  <2>. QED BY <1>6, <2>1, <2>2 DEF CohensKappa
<1>. HIDE DEF kappa
<1>11. ASSUME Equal(kappa, <<1, 1>>) <=> a = b, kappa[2] > 0, ~Below(<<k, n>>, kappa), Equal(kappa, kappa)
       PROVE  KappaMeasuresAgreement
  <2>1. /\ Equal(CohensKappa(input.a, input.b), <<1, 1>>) = (input.a = input.b)
        /\ CohensKappa(input.a, input.b)[2] > 0
        /\ ~Below(PercentAgreement(input.a, input.b), CohensKappa(input.a, input.b))
        /\ Equal(CohensKappa(input.a, input.b), CohensKappa(input.b, input.a))
    BY <1>6, <1>7, <1>8, <1>11 DEF a, b, Equal
  <2>. QED BY <2>1 DEF KappaMeasuresAgreement
<1>9. CASE c = n * n
  <2>1. kappa = <<1, 1>> /\ a = b /\ k = n BY <1>3, <1>4, <1>9 DEF kappa
  <2>2. ~Below(<<n, n>>, <<1, 1>>) /\ Equal(<<1, 1>>, <<1, 1>>) BY <1>2 DEF Below, Equal
  <2>. QED BY <1>11, <2>1, <2>2
<1>10. CASE c # n * n
  <2> DEFINE x == n * k - c
             y == n * n - c
  <2>1. y > 0 /\ ~(k * y < x * n) /\ ((x * 1 = 1 * y) <=> k = n)
    <3>1. c < n * n BY <1>2, <1>3, <1>10
    <3>2. n \in Nat \ {0} BY <1>2
    <3>. QED BY ONLY <1>3, <1>4, <3>1, <3>2, BeyondChance
  <2>2. kappa = <<x, y>> BY <1>10 DEF kappa
  <2>. HIDE DEF x, y
  <2>3. kappa[1] = x /\ kappa[2] = y BY <2>2
  <2>4. Equal(kappa, <<1, 1>>) <=> a = b BY <1>4, <2>1, <2>3 DEF Equal
  <2>5. ~Below(<<k, n>>, kappa) BY <2>1, <2>3 DEF Below
  <2>6. Equal(kappa, kappa) BY DEF Equal
  <2>. QED BY <1>11, <2>1, <2>3, <2>4, <2>5, <2>6
<1>. QED BY <1>9, <1>10

(* The least and the greatest come first and last in order. *)
LEMMA OrderEnds ==
  ASSUME NEW n \in Nat \ {0}, NEW q \in Seq(Nat), Len(q) = n, NEW o, NEW p, Sorts(o, p, q, n)
  PROVE  o[1] = Min(ToSet(q)) /\ o[n] = Max(ToSet(q))
<1>1. DOMAIN q = 1..n /\ \A i \in 1..n : q[i] \in Nat BY LenProperties, ElementOfSeq
<1>2. /\ \A k \in 1..n : o[k] = q[p[k]] /\ p[k] \in 1..n
      /\ \A i \in 1..n : \E k \in 1..n : p[k] = i
      /\ \A k, l \in 1..n : k <= l => o[k] <= o[l]
  BY DEF Sorts
<1>3. 1 \in 1..n /\ n \in 1..n /\ \A k \in 1..n : 1 <= k /\ k <= n OBVIOUS
<1> DEFINE S == ToSet(q)
<1>4. S = {q[i] : i \in 1..n} BY <1>1 DEF ToSet
<1>5. IsFiniteSet(S) /\ S \in SUBSET Nat /\ S # {}
  <2>1. q[1] \in S BY <1>3, <1>4
  <2>. QED BY <2>1, ToSetIsFinite
<1>6. o[1] \in S /\ o[n] \in S /\ \A x \in S : o[1] <= x /\ x <= o[n]
  <2>1. ASSUME NEW k \in 1..n PROVE o[k] \in S
    <3>1. o[k] = q[p[k]] /\ p[k] \in 1..n BY <1>2
    <3>. QED BY <1>4, <3>1
  <2>2. ASSUME NEW x \in S PROVE o[1] <= x /\ x <= o[n]
    <3>1. PICK i \in 1..n : x = q[i] BY <1>4
    <3>2. PICK k \in 1..n : p[k] = i BY <1>2
    <3>3. x = o[k] BY <1>2, <3>1, <3>2
    <3>4. o[1] <= o[k] /\ o[k] <= o[n] BY <1>2, <1>3
    <3>. QED BY <3>3, <3>4
  <2>. QED BY <1>3, <2>1, <2>2
<1>. HIDE DEF S
<1>7. Min(S) \in S /\ Max(S) \in S /\ (\A x \in S : Min(S) <= x) /\ \A x \in S : x <= Max(S)
  BY <1>5, MinIs, MaxOfNumbers
<1>8. o[1] \in Nat /\ o[n] \in Nat /\ Min(S) \in Nat /\ Max(S) \in Nat BY <1>5, <1>6, <1>7
<1>9. o[1] <= Min(S) /\ Min(S) <= o[1] /\ o[n] <= Max(S) /\ Max(S) <= o[n] BY <1>6, <1>7
<1>10. o[1] = Min(S) /\ o[n] = Max(S) BY ONLY <1>8, <1>9
<1>. QED BY <1>10 DEF S

(* v is q with its places exchanged in pairs. *)
Mirrors(q, s, v, n) ==
  s \in [1..n -> 1..n] /\ (\A i \in 1..n : s[s[i]] = i) /\ \A i \in 1..n : q[s[i]] = v[i]

(* Numbers in another order are the same in order. *)
LEMMA SameInOrder ==
  ASSUME NEW n, NEW o, NEW p, NEW q, Sorts(o, p, q, n), NEW u, NEW r, NEW v, Sorts(u, r, v, n),
         NEW s, Mirrors(q, s, v, n)
  PROVE  o = u
<1>0. s \in [1..n -> 1..n] /\ (\A i \in 1..n : s[s[i]] = i) /\ \A i \in 1..n : q[s[i]] = v[i]
  BY DEF Mirrors
<1>1. /\ n \in Nat /\ DOMAIN q = 1..n /\ DOMAIN v = 1..n
      /\ o \in [1..n -> Int] /\ u \in [1..n -> Int] /\ p \in [1..n -> 1..n] /\ r \in [1..n -> 1..n]
  BY DEF Sorts
<1>2. \A i \in 1..n : q[i] \in Int /\ v[i] \in Int
  <2>a. (\A i \in 1..n : \E k \in 1..n : p[k] = i) /\ \A k \in 1..n : o[k] = q[p[k]]
    BY DEF Sorts
  <2>b. (\A i \in 1..n : \E k \in 1..n : r[k] = i) /\ \A k \in 1..n : u[k] = v[r[k]]
    BY DEF Sorts
  <2>1. \A i \in 1..n : \E k \in 1..n : p[k] = i /\ o[k] = q[i] BY <2>a
  <2>2. \A i \in 1..n : \E k \in 1..n : r[k] = i /\ u[k] = v[i] BY <2>b
  <2>. QED BY <1>1, <2>1, <2>2
<1>3. \A i, j \in 1..n : s[i] = s[j] => i = j BY <1>0
<1>4. \A i \in 1..n : q[s[i]] <= v[i] /\ v[s[i]] <= q[i] BY <1>0, <1>2
<1>5. LieUnder(q, s, v, n) BY <1>0, <1>3, <1>4 DEF LieUnder
<1>6. LieUnder(v, s, q, n) BY <1>0, <1>3, <1>4 DEF LieUnder
<1>7. \A k \in 1..n : o[k] <= u[k] BY <1>5, SortedGrows
<1>8. \A k \in 1..n : u[k] <= o[k] BY <1>6, SortedGrows
<1>9. \A k \in 1..n : u[k] = o[k] BY <1>1, <1>7, <1>8
<1>. QED BY <1>1, <1>9

LEMMA PercentileIs ==
  ASSUME NEW n \in Nat \ {0}, NEW q \in Seq(Int), Len(q) = n, NEW p \in 0..100
  PROVE  /\ Percentile(q, p) = Between(Ascending(q), (n - 1) * p)
         /\ (n - 1) * p \in 0..100 * (n - 1) /\ Climbs(Ascending(q), n)
<1>1. q \in [1..n -> Int] BY LenProperties
<1>2. PICK s : Sorts(Ascending(q), s, q, n) BY <1>1, AscendingSorts
<1>3. Climbs(Ascending(q), n) BY <1>2 DEF Sorts, Climbs
<1>4. (n - 1) * p \in 0..100 * (n - 1)
  <2> DEFINE m == n - 1
  <2>1. m \in Nat /\ p \in Nat /\ 100 \in Nat /\ p <= 100 OBVIOUS
  <2>. HIDE DEF m
  <2>2. m * p <= m * 100 /\ m * p \in Nat BY <2>1, ProductGrows
  <2>3. m * p \in 0..100 * m BY <2>1, <2>2
  <2>. QED BY <2>3 DEF m
<1>. QED BY <1>3, <1>4 DEF Percentile, Between

(* Of any integers a greater percentile is no less, though each lies       *)
(* between two of them (eval/metrics.py, _percentile).                     *)
THEOREM PercentilesGrow ==
  ASSUME NEW n \in Nat \ {0}, NEW q \in Seq(Int), Len(q) = n, NEW a \in 0..100, NEW b \in 0..100, a <= b
  PROVE  Percentile(q, a) <= Percentile(q, b) /\ Percentile(q, a) \in Int /\ Percentile(q, b) \in Int
<1>1. /\ Percentile(q, a) = Between(Ascending(q), (n - 1) * a)
      /\ Percentile(q, b) = Between(Ascending(q), (n - 1) * b)
      /\ (n - 1) * a \in 0..100 * (n - 1) /\ (n - 1) * b \in 0..100 * (n - 1)
      /\ Climbs(Ascending(q), n)
  BY ZenonT(40), PercentileIs
<1>2. (n - 1) * a <= (n - 1) * b
  <2> DEFINE m == n - 1
  <2>1. m \in Nat /\ a \in Nat /\ b \in Nat OBVIOUS
  <2>. HIDE DEF m
  <2>2. m * a <= m * b BY <2>1, ProductGrows
  <2>. QED BY <2>2 DEF m
<1> DEFINE o == Ascending(q)
           r == (n - 1) * a
           s == (n - 1) * b
<1>. HIDE DEF o, r, s
<1>3. Climbs(o, n) /\ r \in 0..100 * (n - 1) /\ s \in 0..100 * (n - 1) /\ r <= s
  BY <1>1, <1>2 DEF o, r, s
<1>4. Between(o, r) <= Between(o, s) BY <1>3, BetweenGrows
<1>5. Between(o, r) \in Int /\ Between(o, s) \in Int BY <1>3, BetweenIs
<1>. QED BY <1>1, <1>4, <1>5 DEF o, r, s

(* The percentiles of the code (eval/metrics.py's _percentile) are ordered.*)
LEMMA PercentilesOfCalls == InputsStayCalls => PercentilesAreOrdered
<1>. SUFFICES ASSUME InputsStayCalls, subject = "latencies" PROVE PercentilesAreOrdered
  BY DEF PercentilesAreOrdered
<1> DEFINE q == input
           n == Len(q)
           o == Ascending(q)
           at(x) == Percentile(q, x)
<1>1. q \in Seq(Nat) /\ q # <<>> BY MeasuresAreTyped DEF InputsStayCalls
<1>. HIDE DEF q
<1>2. n \in Nat \ {0} /\ DOMAIN q = 1..n /\ q \in [1..n -> Int] /\ \A i \in 1..n : q[i] \in Nat
  BY <1>1, LenProperties, EmptySeq, ElementOfSeq
<1>3. q \in Seq(Int) BY <1>2, SeqDef
<1>4. PICK p : Sorts(o, p, q, n) BY <1>2, AscendingSorts
<1>. HIDE DEF n, o
<1>5. \A x \in 0..100 : /\ at(x) = Between(o, (n - 1) * x) /\ (n - 1) * x \in 0..100 * (n - 1)
                        /\ Climbs(o, n)
  BY <1>2, <1>3, PercentileIs DEF n, o
<1>6. at(0) = 100 * o[1] /\ at(100) = 100 * o[n]
  <2>1. /\ (n - 1) * 0 = 0 /\ (n - 1) * 100 = 100 * (n - 1)
        /\ 0 \in 0..100 /\ 100 \in 0..100 /\ 0 \in 0..100 * (n - 1)
        /\ 100 * (n - 1) \in 0..100 * (n - 1)
    BY <1>2
  <2>2. 0 \div 100 = 0 /\ 0 % 100 = 0 /\ 1 + 0 = 1 OBVIOUS
  <2>3. (100 * (n - 1)) \div 100 = n - 1 /\ (100 * (n - 1)) % 100 = 0 /\ 1 + (n - 1) = n BY <1>2
  <2>4. Climbs(o, n) BY <1>5, <2>1
  <2>5. Between(o, 0) = 100 * o[1] BY <2>1, <2>2, <2>4, BetweenIs
  <2> DEFINE r == 100 * (n - 1)
  <2>6. r \in 0..100 * (n - 1) /\ r \div 100 = n - 1 /\ r % 100 = 0 BY <2>1, <2>3
  <2>. HIDE DEF r
  <2>7. Between(o, r) = 100 * o[1 + (n - 1)]
    <3>1. Between(o, r) = 100 * o[1 + r \div 100] BY <2>4, <2>6, BetweenIs
    <3>. QED BY <2>6, <3>1
  <2>8. Between(o, r) = 100 * o[n] BY <2>3, <2>7
  <2>9. at(0) = Between(o, (n - 1) * 0) /\ at(100) = Between(o, (n - 1) * 100) BY <1>5, <2>1
  <2>10. at(0) = Between(o, 0) /\ at(100) = Between(o, r) BY <2>1, <2>9 DEF r
  <2>. QED BY <2>5, <2>8, <2>10
<1>7. o[1] = Min(ToSet(q)) /\ o[n] = Max(ToSet(q)) BY <1>1, <1>2, <1>4, OrderEnds DEF n
<1>8. at(0) <= at(50) /\ at(50) <= at(95) /\ at(95) <= at(100) /\ at(50) \in Int
  <2>1. 0 \in 0..100 /\ 50 \in 0..100 /\ 95 \in 0..100 /\ 100 \in 0..100 OBVIOUS
  <2>2. 0 <= 50 /\ 50 <= 95 /\ 95 <= 100 OBVIOUS
  <2>. QED BY ZenonT(40), <1>2, <1>3, <2>1, <2>2, PercentilesGrow DEF n
<1>9. Percentile(Reverse(q), 95) = at(95)
  <2> DEFINE v == Reverse(q)
             s == [i \in 1..n |-> n - i + 1]
  <2>1. v = [i \in 1..n |-> q[n - i + 1]] BY <1>2 DEF Reverse, n
  <2>2. \A i \in 1..n : n - i + 1 \in 1..n /\ n - (n - i + 1) + 1 = i BY <1>2
  <2>3. s \in [1..n -> 1..n] /\ \A i \in 1..n : s[s[i]] = i /\ v[i] = q[s[i]] BY <2>1, <2>2
  <2>4. v \in [1..n -> Int] BY <1>2, <2>1, <2>2
  <2>5. v \in Seq(Int) /\ Len(v) = n
    <3>1. v \in Seq(Int) BY <1>2, <2>4, SeqDef
    <3>. QED BY <1>2, <2>4, <3>1, LenProperties
  <2>. HIDE DEF v, s
  <2>6. PICK r : Sorts(Ascending(v), r, v, n) BY <1>2, <2>4, AscendingSorts
  <2>7. o = Ascending(v)
    <3>1. Mirrors(q, s, v, n) BY <2>3 DEF Mirrors
    <3>. QED BY <1>4, <2>6, <3>1, SameInOrder
  <2>8. 95 \in 0..100 OBVIOUS
  <2>9. Percentile(v, 95) = Between(Ascending(v), (n - 1) * 95)
    BY <1>2, <2>5, <2>8, PercentileIs
  <2>. QED BY <1>5, <2>7, <2>8, <2>9 DEF v
<1>10. 2 * Cardinality({i \in DOMAIN q : 100 * q[i] <= at(50)}) >= n
  <2> DEFINE r == (n - 1) * 50
             k == 1 + r \div 100
             B == {i \in DOMAIN q : 100 * q[i] <= at(50)}
  <2>1. 50 \in 0..100 OBVIOUS
  <2>2. at(50) = Between(o, r) /\ r \in 0..100 * (n - 1) /\ Climbs(o, n) BY <1>5, <2>1
  <2>3. r \div 100 \in Int /\ k \in 1..n /\ r = 100 * (r \div 100) + (r % 100) /\ r % 100 \in 0..99
    <3>. HIDE DEF r
    <3>. QED BY <1>2, <2>2, RanksNextTo
  <2>4. 100 * o[k] <= at(50)
    <3>. HIDE DEF r
    <3>. QED BY <2>2, BetweenIs
  <2>5. 2 * k >= n
    <3>1. r = 50 * (n - 1) BY <1>2
    <3>2. r \div 100 \in Int BY <2>3
    <3>. QED BY <1>2, <2>3, <3>1, <3>2
  <2>6. o[k] \in Int BY <2>2, <2>3 DEF Climbs
  <2>. HIDE DEF k, r
  <2>7. IsFiniteSet(UpTo(q, o[k])) /\ Cardinality(UpTo(q, o[k])) \in k..n
    <3>1. Nth(o, q, n) BY <1>4, NthIs
    <3>. QED BY <2>3, <3>1 DEF Nth
  <2>8. UpTo(q, o[k]) \subseteq B
    <3>. SUFFICES ASSUME NEW i \in UpTo(q, o[k]) PROVE i \in B OBVIOUS
    <3>1. i \in 1..n /\ q[i] <= o[k] /\ q[i] \in Int BY <1>2 DEF UpTo
    <3>2. 100 * q[i] <= at(50) BY ONLY <1>8, <2>4, <2>6, <3>1
    <3>. QED BY <1>2, <3>1, <3>2
  <2>9. IsFiniteSet(B)
    <3>1. B \subseteq 1..n /\ IsFiniteSet(1..n) BY <1>2, FS_Interval
    <3>. QED BY <3>1, FS_Subset
  <2>. HIDE DEF B
  <2>10. Cardinality(UpTo(q, o[k])) <= Cardinality(B) /\ Cardinality(B) \in Nat
    BY <2>8, <2>9, FS_Subset, FS_CardinalityType
  <2>11. 2 * Cardinality(B) >= n
    <3>1. k \in Int /\ n \in Int /\ Cardinality(UpTo(q, o[k])) \in Int /\ k <= Cardinality(UpTo(q, o[k]))
      BY <1>2, <2>3, <2>7
    <3>. QED BY ONLY <2>5, <2>10, <3>1
  <2>. QED BY <2>11 DEF B
<1>. HIDE DEF at
<1>11. /\ Percentile(q, 0) = 100 * Min(ToSet(q)) /\ Percentile(q, 100) = 100 * Max(ToSet(q))
       /\ Percentile(q, 0) <= Percentile(q, 50) /\ Percentile(q, 50) <= Percentile(q, 95)
       /\ Percentile(q, 95) <= Percentile(q, 100) /\ Percentile(Reverse(q), 95) = Percentile(q, 95)
       /\ 2 * Cardinality({i \in DOMAIN q : 100 * q[i] <= Percentile(q, 50)}) >= Len(q)
  BY <1>6, <1>7, <1>8, <1>9, <1>10 DEF at, n
<1>. QED BY <1>11 DEF q, PercentilesAreOrdered

-----------------------------------------------------------------------------
(* Paired outcomes. *)

(* Outcomes as a paired comparison has them. *)
Recorded(q) ==
  /\ q \in Seq(GoldOutcome) /\ \A i \in DOMAIN q : q[i].category = "a"
  /\ \A i, j \in DOMAIN q : i < j => q[i].id < q[j].id

(* The questions whose outcome is known, their outcomes and their hits. *)
KnownIds(q) == {o.id : o \in Known(q, "gold_hit")}
OutcomesOf(q, id) == {o \in Known(q, "gold_hit") : o.id = id}
OutcomeOf(q, id) == CHOOSE o \in OutcomesOf(q, id) : TRUE
HitOf(q, id) == AsNumber(OutcomeOf(q, id)["gold_hit"] = "hit")

(* An outcome is found by its question. *)
LEMMA OutcomeIs ==
  ASSUME NEW q, Recorded(q)
  PROVE  /\ IsFiniteSet(KnownIds(q)) /\ KnownIds(q) \in SUBSET Nat
         /\ \A x \in Known(q, "gold_hit") : x.id \in KnownIds(q) /\ OutcomeOf(q, x.id) = x
         /\ \A id \in KnownIds(q) : OutcomeOf(q, id) \in Known(q, "gold_hit") /\ OutcomeOf(q, id).id = id
         /\ \A id : OutcomesOf(q, id) # {} <=> id \in KnownIds(q)
<1>1. /\ q \in Seq(GoldOutcome) /\ \A i \in DOMAIN q : q[i].category = "a"
      /\ \A i, j \in DOMAIN q : i < j => q[i].id < q[j].id
  BY DEF Recorded
<1> DEFINE n == Len(q)
<1>2. n \in Nat /\ DOMAIN q = 1..n /\ \A i \in 1..n : q[i] \in GoldOutcome /\ q[i].id \in Nat
  <2>1. n \in Nat /\ DOMAIN q = 1..n BY <1>1, LenProperties
  <2>2. \A i \in 1..n : q[i] \in GoldOutcome BY <1>1, <2>1, ElementOfSeq
  <2>3. \A o \in GoldOutcome : o.id \in Nat BY DEF GoldOutcome
  <2>. QED BY <2>1, <2>2, <2>3
<1>. HIDE DEF n
<1>3. ToSet(q) = {q[i] : i \in 1..n} /\ IsFiniteSet(ToSet(q))
  <2>1. IsFiniteSet(ToSet(q)) BY <1>1, ToSetIsFinite
  <2>. QED BY <1>2, <2>1 DEF ToSet
<1> DEFINE K == Known(q, "gold_hit")
<1>4. IsFiniteSet(K) /\ K \subseteq ToSet(q)
  <2>1. K \subseteq ToSet(q) BY DEF Known
  <2>. QED BY <1>3, <2>1, FS_Subset
<1>5. \A x, y \in K : x.id = y.id => x = y
  <2>. SUFFICES ASSUME NEW x \in K, NEW y \in K, x.id = y.id PROVE x = y OBVIOUS
  <2>1. PICK i \in 1..n : x = q[i] BY <1>3, <1>4
  <2>2. PICK j \in 1..n : y = q[j] BY <1>3, <1>4
  <2>3. q[i].id \in Nat /\ q[j].id \in Nat /\ q[i].id = q[j].id BY <1>2, <2>1, <2>2
  <2>4. ~(i < j) /\ ~(j < i) BY <1>1, <1>2, <2>3
  <2>5. i = j BY <2>4
  <2>. QED BY <2>1, <2>2, <2>5
<1>6. KnownIds(q) = {o.id : o \in K} BY DEF KnownIds
<1>7. \A id : OutcomesOf(q, id) = {o \in K : o.id = id} BY DEF OutcomesOf
<1>8. \A x \in K : x.id \in Nat BY <1>2, <1>3, <1>4
<1>. HIDE DEF K
<1>9. IsFiniteSet(KnownIds(q)) /\ KnownIds(q) \in SUBSET Nat
  <2> DEFINE R == KnownIds(q)
             f == [x \in K |-> x.id]
  <2>1. f \in [K -> R] /\ \A y \in R : \E x \in K : f[x] = y BY <1>6
  <2>2. R \in SUBSET Nat BY <1>6, <1>8
  <2>. HIDE DEF R, f
  <2>3. IsFiniteSet(R) BY <1>4, <2>1, ImageOf
  <2>. QED BY <2>2, <2>3 DEF R
<1>10. \A id : OutcomesOf(q, id) # {} <=> id \in KnownIds(q) BY <1>6, <1>7
<1>11. \A id \in KnownIds(q) : OutcomeOf(q, id) \in K /\ OutcomeOf(q, id).id = id
  BY <1>7, <1>10 DEF OutcomeOf
<1>12. \A x \in K : x.id \in KnownIds(q) /\ OutcomeOf(q, x.id) = x BY <1>5, <1>6, <1>11
<1>. QED BY <1>9, <1>10, <1>11, <1>12 DEF K

(* The pairs are those of the common questions, in order. *)
PairsOf(b, c) ==
  LET common == KnownIds(b) \cap KnownIds(c)
  IN [k \in 1 .. Cardinality(common) |->
       <<HitOf(b, InOrder(common)[k]), HitOf(c, InOrder(common)[k])>>]

LEMMA PairsAre ==
  ASSUME NEW b, NEW c, Recorded(b), Recorded(c)
  PROVE  Pairs(b, c, "gold_hit") = PairsOf(b, c)
<1> DEFINE I == KnownIds(b) \cap KnownIds(c)
           K == {i \in DOMAIN c : c[i]["gold_hit"] # "none" /\ OutcomesOf(b, c[i].id) # {}}
           both == At(c, K)
           e == InOrder(K)
           n == Cardinality(K)
           f == [k \in 1..n |-> both[k].id]
<1>1. c \in Seq(GoldOutcome) /\ \A i, j \in DOMAIN c : i < j => c[i].id < c[j].id
  BY DEF Recorded
<1>2. Chosen(both, c, e, n, K, GoldOutcome)
  <2>. HIDE DEF K
  <2>1. K \in SUBSET DOMAIN c BY DEF K
  <2>. QED BY <1>1, <2>1, AtIs
<1>. HIDE DEF both, e, n
<1>3. /\ n \in Nat /\ e \in [1..n -> K] /\ (\A k, l \in 1..n : k < l => e[k] < e[l])
      /\ (\A i \in K : \E k \in 1..n : e[k] = i) /\ DOMAIN both = 1..n
      /\ \A k \in 1..n : both[k] = c[e[k]]
  BY <1>2 DEF Chosen, Ascends
<1>4. \A i \in DOMAIN c : i \in K <=> c[i] \in Known(c, "gold_hit") /\ c[i].id \in KnownIds(b)
  <2>1. \A i \in DOMAIN c : c[i]["gold_hit"] # "none" <=> c[i] \in Known(c, "gold_hit")
    BY DEF Known, ToSet
  <2>2. \A i \in DOMAIN c : OutcomesOf(b, c[i].id) # {} <=> c[i].id \in KnownIds(b) BY OutcomeIs
  <2>. QED BY <2>1, <2>2
<1>5. \A i \in K : i \in DOMAIN c OBVIOUS
<1>. HIDE DEF K
<1>6. \A k \in 1..n : /\ e[k] \in K /\ e[k] \in DOMAIN c /\ both[k] \in Known(c, "gold_hit")
                      /\ both[k].id \in KnownIds(b) /\ both[k].id \in KnownIds(c)
                      /\ OutcomeOf(c, both[k].id) = both[k]
  <2>1. \A k \in 1..n : /\ e[k] \in K /\ e[k] \in DOMAIN c /\ both[k] \in Known(c, "gold_hit")
                        /\ both[k].id \in KnownIds(b)
    BY <1>3, <1>4, <1>5
  <2>2. \A x \in Known(c, "gold_hit") : x.id \in KnownIds(c) /\ OutcomeOf(c, x.id) = x
    BY OutcomeIs
  <2>. QED BY <2>1, <2>2
<1>7. Ascends(f, n, I)
  <2>1. f \in [1..n -> I] BY <1>6
  <2>2. ASSUME NEW k \in 1..n, NEW l \in 1..n, k < l PROVE f[k] < f[l]
    <3>1. e[k] < e[l] /\ e[k] \in DOMAIN c /\ e[l] \in DOMAIN c BY <1>3, <1>6, <2>2
    <3>2. c[e[k]].id < c[e[l]].id BY <1>1, <3>1
    <3>. QED BY <1>3, <3>2
  <2>3. ASSUME NEW id \in I PROVE \E k \in 1..n : f[k] = id
    <3>1. PICK x \in Known(c, "gold_hit") : x.id = id BY DEF KnownIds
    <3>2. PICK i \in DOMAIN c : c[i] = x BY <3>1 DEF Known, ToSet
    <3>3. i \in K BY <1>4, <3>1, <3>2
    <3>4. PICK k \in 1..n : e[k] = i BY <1>3, <3>3
    <3>5. f[k] = id BY <1>3, <3>1, <3>2, <3>4
    <3>. QED BY <3>5
  <2>. HIDE DEF f, I
  <2>. QED BY <1>3, <2>1, <2>2, <2>3 DEF Ascends
<1>8. n = Cardinality(I) /\ InOrder(I) = f
  <2>1. I \in SUBSET Int
    <3>1. KnownIds(b) \in SUBSET Nat BY OutcomeIs
    <3>. QED BY <3>1
  <2>. HIDE DEF I, f
  <2>. QED BY <1>7, <2>1, OnlyInOrderAscends
<1>9. PairsOf(b, c) = [k \in 1..n |-> <<HitOf(b, f[k]), HitOf(c, f[k])>>]
  <2>. HIDE DEF f
  <2>. QED BY <1>8 DEF PairsOf
<1>10. Pairs(b, c, "gold_hit")
         = [k \in 1..n |-> <<AsNumber(OutcomeOf(b, both[k].id)["gold_hit"] = "hit"),
                             AsNumber(both[k]["gold_hit"] = "hit")>>]
  <2>1. \A id : OutcomesOf(b, id) = {x \in Known(b, "gold_hit") : x.id = id} BY DEF OutcomesOf
  <2>2. both = At(c, {i \in DOMAIN c : c[i]["gold_hit"] # "none"
                        /\ {x \in Known(b, "gold_hit") : x.id = c[i].id} # {}})
    BY <2>1 DEF both, K
  <2> DEFINE pick(k) == CHOOSE x \in {x \in Known(b, "gold_hit") : x.id = both[k].id} : TRUE
  <2>3. Pairs(b, c, "gold_hit")
          = [k \in DOMAIN both |-> <<AsNumber(pick(k)["gold_hit"] = "hit"),
                                    AsNumber(both[k]["gold_hit"] = "hit")>>]
    BY <2>2 DEF Pairs
  <2>4. ASSUME NEW k \in 1..n PROVE pick(k) = OutcomeOf(b, both[k].id)
    BY DEF OutcomeOf, OutcomesOf
  <2>. HIDE DEF pick
  <2>5. \A k \in 1..n : pick(k) = OutcomeOf(b, both[k].id) BY <2>4
  <2>. QED BY ONLY ZenonT(40), <1>3, <2>3, <2>5
<1>11. \A k \in 1..n : /\ f[k] = both[k].id /\ HitOf(b, f[k]) = AsNumber(OutcomeOf(b, both[k].id)["gold_hit"] = "hit")
                       /\ HitOf(c, f[k]) = AsNumber(both[k]["gold_hit"] = "hit")
  BY <1>6 DEF HitOf
<1>. HIDE DEF f
<1>. QED BY <1>9, <1>10, <1>11

-----------------------------------------------------------------------------
(* The bootstrap's interval. *)

(* Where the interval of m resamples, tail thousandths off, begins and ends.*)
Lowest(m, tail) == 1 + (tail * (m - 1)) \div 2000
Highest(m, tail) == 1 + RoundHalfEven((2000 - tail) * (m - 1), 2000)

LEMMA TwoThousands ==
  ASSUME NEW r \in Int
  PROVE  r % 2000 \in 0..1999 /\ r \div 2000 \in Int /\ r = 2000 * (r \div 2000) + (r % 2000)
<1>1. r = 2000 * (r \div 2000) + (r % 2000) OBVIOUS
<1>2. r % 2000 \in 0..1999 /\ r \div 2000 \in Int OBVIOUS
<1>. QED BY ONLY <1>1, <1>2

(* v is about a two thousandth of a. *)
RoundsTo(v, a) ==
  /\ v \in Int /\ a \div 2000 <= v /\ 2000 * v >= a - 1000 /\ 2000 * v <= a + 1000
  /\ (a % 2000 = 0 => v = a \div 2000)

LEMMA Rounded ==
  ASSUME NEW a \in Nat
  PROVE  RoundsTo(RoundHalfEven(a, 2000), a)
<1> DEFINE d == a \div 2000
           f == a % 2000
           up == \/ 2 * f > 2000
                 \/ 2 * f = 2000 /\ d % 2 = 1
<1>1. f \in 0..1999 /\ d \in Int /\ a = 2000 * d + f
  <2>1. a \in Int OBVIOUS
  <2>. QED BY <2>1, TwoThousands
<1>2. RoundHalfEven(a, 2000) = d + (IF up THEN 1 ELSE 0) BY DEF RoundHalfEven
<1>3. up => 2 * f >= 2000 BY <1>1
<1>4. ~up => 2 * f <= 2000 BY <1>1
<1>. HIDE DEF d, f, up
<1>5. CASE up BY <1>1, <1>2, <1>3, <1>5 DEF d, f, RoundsTo
<1>6. CASE ~up BY <1>1, <1>2, <1>4, <1>6 DEF d, f, RoundsTo
<1>. QED BY <1>5, <1>6

PlacedAt(x, y, t, m) ==
  /\ x \in 1..m /\ y \in 1..m /\ x <= y /\ x + y <= m + 1 /\ t \in Nat
  /\ 2000 * (x - 1) <= t /\ 2000 * (m - y) <= t + 1000

LEMMA IntervalPlaces ==
  ASSUME NEW m \in Nat \ {0}, NEW tail \in 1..999
  PROVE  PlacedAt(Lowest(m, tail), Highest(m, tail), tail * (m - 1), m)
<1> DEFINE last == m - 1
           t == tail * last
           a == (2000 - tail) * last
           u == t \div 2000
           w == t % 2000
           v == RoundHalfEven(a, 2000)
<1>1. last \in Nat /\ tail \in Nat /\ tail <= 999 /\ m = last + 1 OBVIOUS
<1>. HIDE DEF last
<1>2. t \in Nat /\ t <= 999 * last
  <2>1. last * tail <= last * 999 BY <1>1, ProductGrows
  <2>2. last * tail = t /\ last * 999 = 999 * last /\ t \in Nat BY <1>1
  <2>. QED BY <2>1, <2>2
<1>3. a = 2000 * last - t BY <1>1
<1>. HIDE DEF t, a
<1>4. a \in Nat BY <1>1, <1>2, <1>3
<1>5. w \in 0..1999 /\ u \in Int /\ t = 2000 * u + w
  <2>1. t \in Int BY <1>2
  <2>. QED BY <2>1, TwoThousands
<1>6. v \in Int /\ a \div 2000 <= v /\ 2000 * v >= a - 1000 /\ 2000 * v <= a + 1000
      /\ (a % 2000 = 0 => v = a \div 2000)
  <2>1. RoundsTo(v, a) BY <1>4, Rounded
  <2>. QED BY <2>1 DEF RoundsTo
<1>7. a % 2000 \in 0..1999 /\ a \div 2000 \in Int /\ a = 2000 * (a \div 2000) + (a % 2000)
  <2>1. a \in Int BY <1>4
  <2>. QED BY <2>1, TwoThousands
<1>8. Lowest(m, tail) = 1 + u /\ Highest(m, tail) = 1 + v BY DEF Lowest, Highest, t, a, last
<1>. HIDE DEF u, w, v
<1> DEFINE d == a \div 2000
           f == a % 2000
<1>9. /\ f \in 0..1999 /\ d \in Int /\ a = 2000 * d + f /\ d <= v /\ (f = 0 => v = d)
  BY <1>6, <1>7
<1>. HIDE DEF d, f
<1>10. u >= 0 /\ u <= last /\ u <= d BY ONLY SMTT(60), <1>1, <1>2, <1>3, <1>5, <1>9
<1>11. v <= last /\ u + v <= last
  <2>1. CASE w = 0 BY ONLY <1>1, <1>2, <1>3, <1>5, <1>6, <1>9, <1>10, <2>1
  <2>2. CASE w # 0 BY ONLY SMTT(60), <1>1, <1>2, <1>3, <1>5, <1>6, <1>9, <1>10, <2>2
  <2>. QED BY <2>1, <2>2
<1>12. 2000 * u <= t /\ 2000 * (last - v) <= t + 1000 /\ u <= v
  BY ONLY <1>1, <1>2, <1>3, <1>5, <1>6, <1>9, <1>10
<1>13. 1 + u - 1 = u /\ m - (1 + v) = last - v /\ tail * (m - 1) = t
  <2>1. tail * (m - 1) = t BY DEF t, last
  <2>. QED BY <1>1, <1>5, <1>6, <2>1
<1>14. PlacedAt(1 + u, 1 + v, t, m)
  BY <1>1, <1>2, <1>5, <1>6, <1>10, <1>11, <1>12, <1>13 DEF PlacedAt
<1>. QED BY <1>8, <1>13, <1>14

(* The interval of samples, and few outside. *)
Encloses(x, y, q, m, tail) ==
  /\ x \in Int /\ y \in Int /\ x <= y
  /\ \E i \in 1..m : x = q[i]
  /\ \E i \in 1..m : y = q[i]
  /\ 2000 * Cardinality({i \in 1..m : q[i] < x}) <= tail * (m - 1) + 1000
  /\ 2000 * Cardinality({i \in 1..m : q[i] > y}) <= tail * (m - 1) + 1000

(* For any number of resamples and any confidence, the interval's ends are *)
(* two of them, in order, and at most half the rest of the confidence, up  *)
(* to rounding, is left out on either side (eval/stats.py).                *)
THEOREM IntervalEncloses ==
  ASSUME NEW m \in Nat \ {0}, NEW tail \in 1..999, NEW q, NEW o, NEW p, Sorts(o, p, q, m)
  PROVE  Encloses(o[Lowest(m, tail)], o[Highest(m, tail)], q, m, tail)
<1> DEFINE x == Lowest(m, tail)
           y == Highest(m, tail)
           t == tail * (m - 1)
<1>0. PlacedAt(x, y, t, m) BY ZenonT(40), IntervalPlaces
<1>. HIDE DEF x, y, t
<1>1. /\ x \in 1..m /\ y \in 1..m /\ x <= y /\ t \in Nat /\ 2000 * (x - 1) <= t
      /\ 2000 * (m - y) <= t + 1000
  BY <1>0 DEF PlacedAt
<1>2. /\ DOMAIN q = 1..m /\ o \in [1..m -> Int] /\ p \in [1..m -> 1..m]
      /\ (\A k \in 1..m : o[k] = q[p[k]]) /\ (\A k, l \in 1..m : k <= l => o[k] <= o[l])
      /\ \A i \in 1..m : \E k \in 1..m : p[k] = i
  BY ZenonT(40) DEF Sorts
<1>3. o[x] \in Int /\ o[y] \in Int /\ o[x] <= o[y]
  <2>1. o[x] \in Int BY <1>1, <1>2
  <2>2. o[y] \in Int BY <1>1, <1>2
  <2>3. o[x] <= o[y] BY <1>1, <1>2
  <2>. QED BY <2>1, <2>2, <2>3
<1>4. (\E i \in 1..m : o[x] = q[i]) /\ \E i \in 1..m : o[y] = q[i]
  <2>1. o[x] = q[p[x]] /\ p[x] \in 1..m /\ o[y] = q[p[y]] /\ p[y] \in 1..m
    <3>1. o[x] = q[p[x]] /\ p[x] \in 1..m
      <4>1. x \in 1..m BY <1>1
      <4>2. p[x] \in 1..m BY ONLY ZenonT(40), <1>2, <4>1
      <4>3. o[x] = q[p[x]] BY ONLY ZenonT(40), <1>2, <4>1
      <4>. QED BY <4>2, <4>3
    <3>2. o[y] = q[p[y]] /\ p[y] \in 1..m
      <4>1. y \in 1..m BY <1>1
      <4>2. p[y] \in 1..m BY ONLY ZenonT(40), <1>2, <4>1
      <4>3. o[y] = q[p[y]] BY ONLY ZenonT(40), <1>2, <4>1
      <4>. QED BY <4>2, <4>3
    <3>. QED BY <3>1, <3>2
  <2>. QED BY <2>1
<1>5. Nth(o, q, m) BY NthIs
<1>6. 2000 * Cardinality({i \in 1..m : q[i] < o[x]}) <= t + 1000
  <2> DEFINE A == Under(q, o[x])
  <2>1. A = {i \in 1..m : q[i] < o[x]} BY <1>2 DEF Under
  <2>2. Cardinality(A) \in Nat /\ Cardinality(A) < x BY <1>1, <1>5 DEF Nth
  <2>. HIDE DEF A
  <2>3. x \in Int BY <1>1
  <2>4. 2000 * Cardinality(A) <= t + 1000 BY ONLY <1>1, <2>2, <2>3
  <2>. QED BY <2>1, <2>4
<1>7. 2000 * Cardinality({i \in 1..m : q[i] > o[y]}) <= t + 1000
  <2> DEFINE A == UpTo(q, o[y])
             B == {i \in 1..m : q[i] > o[y]}
  <2>1. A \in SUBSET (1..m) /\ B = (1..m) \ A
    <3>1. A \in SUBSET (1..m) BY <1>2 DEF UpTo
    <3>2. \A i \in 1..m : q[i] \in Int
      <4>. SUFFICES ASSUME NEW i \in 1..m PROVE q[i] \in Int OBVIOUS
      <4>1. PICK k \in 1..m : p[k] = i BY <1>2
      <4>2. q[i] = o[k] BY <1>2, <4>1
      <4>. QED BY <1>2, <4>2
    <3>3. \A i \in 1..m : q[i] > o[y] <=> ~(q[i] <= o[y]) BY <1>3, <3>2
    <3>4. A = {i \in 1..m : q[i] <= o[y]} BY <1>2 DEF UpTo
    <3>. QED BY <3>1, <3>3, <3>4
  <2>2. IsFiniteSet(A) /\ Cardinality(A) \in y..m BY <1>1, <1>5 DEF Nth
  <2>. HIDE DEF A, B
  <2>3. IsFiniteSet(1..m) /\ Cardinality(1..m) = m BY FS_Interval
  <2>4. Cardinality(B) = Cardinality(1..m) - Cardinality((1..m) \cap A)
    BY ZenonT(40), <2>1, <2>3, FS_Difference
  <2>5. (1..m) \cap A = A BY ZenonT(40), <2>1
  <2>a. y \in Int
    BY <1>1
  <2>b. Cardinality(A) \in Int /\ y <= Cardinality(A)
    BY <2>2, <2>a
  <2>6. y \in Int /\ Cardinality(A) \in Int /\ y <= Cardinality(A) /\ Cardinality(B) = m - Cardinality(A)
    BY <2>3, <2>4, <2>5, <2>a, <2>b

  <2>7. 2000 * Cardinality(B) <= t + 1000 BY ONLY m \in Nat \ {0}, <1>1, <2>6
  <2>. QED BY <2>7 DEF B
<1>8. Encloses(o[x], o[y], q, m, tail) BY <1>3, <1>4, <1>6, <1>7 DEF Encloses, t
<1>. QED BY <1>8 DEF x, y

(* If all but few samples gain, the negated ones lose. *)
LEMMA NegatedInterval ==
  ASSUME NEW m \in Nat \ {0}, NEW tail \in 1..999, NEW q, NEW o, NEW p, Sorts(o, p, q, m),
         NEW v, NEW u, NEW r, Sorts(u, r, v, m), \A i \in 1..m : v[i] = -q[i],
         o[Lowest(m, tail)] > 0
  PROVE  u[Highest(m, tail)] < 0
<1> DEFINE x == Lowest(m, tail)
           y == Highest(m, tail)
<1>0. PlacedAt(x, y, tail * (m - 1), m) BY ZenonT(40), IntervalPlaces
<1>1. x \in 1..m /\ y \in 1..m /\ x + y <= m + 1 BY <1>0 DEF PlacedAt
<1>2. o[x] > 0 OBVIOUS
<1>. HIDE DEF x, y
<1>. SUFFICES ASSUME ~(u[y] < 0) PROVE FALSE BY DEF y
<1>3. DOMAIN q = 1..m /\ DOMAIN v = 1..m /\ o \in [1..m -> Int] /\ u \in [1..m -> Int]
  BY DEF Sorts
<1>4. \A i \in 1..m : q[i] \in Int
  <2>. SUFFICES ASSUME NEW i \in 1..m PROVE q[i] \in Int OBVIOUS
  <2>1. PICK k \in 1..m : p[k] = i BY DEF Sorts
  <2>2. q[i] = o[k]
    <3>1. \A l \in 1..m : o[l] = q[p[l]] BY DEF Sorts
    <3>. QED BY <2>1, <3>1
  <2>. QED BY <1>3, <2>2
<1> DEFINE A == Under(q, o[x])
           B == Under(v, u[y])
<1>5. Nth(o, q, m) /\ Nth(u, v, m) BY NthIs
<1>6. /\ IsFiniteSet(A) /\ Cardinality(A) \in Nat /\ Cardinality(A) < x
      /\ IsFiniteSet(B) /\ Cardinality(B) \in Nat /\ Cardinality(B) < y
  BY <1>1, <1>5 DEF Nth
<1>7. A \cup B = 1..m
  <2>1. A \subseteq 1..m /\ B \subseteq 1..m BY <1>3 DEF Under
  <2>2. ASSUME NEW i \in 1..m PROVE i \in A \/ i \in B
    <3>1. q[i] \in Int /\ v[i] = -q[i] /\ o[x] \in Int /\ u[y] \in Int
      BY ZenonT(40), <1>1, <1>3, <1>4
    <3>2. q[i] < o[x] \/ v[i] < u[y] BY <1>2, <3>1
    <3>. QED BY <1>3, <3>2 DEF Under
  <2>. QED BY <2>1, <2>2
<1>. HIDE DEF A, B
<1>8. Cardinality(A \cup B) <= Cardinality(A) + Cardinality(B)
  <2>1. Cardinality(A \cup B) = Cardinality(A) + Cardinality(B) - Cardinality(A \cap B)
    BY <1>6, FS_Union
  <2>2. Cardinality(A \cap B) \in Nat
    <3>1. IsFiniteSet(A \cap B) BY <1>6, FS_Intersection
    <3>. QED BY <3>1, FS_CardinalityType
  <2>. QED BY <1>6, <2>1, <2>2
<1>9. Cardinality(1..m) = m BY FS_Interval
<1>10. m <= Cardinality(A) + Cardinality(B) BY <1>7, <1>8, <1>9
<1>11. x \in Int /\ y \in Int BY <1>1
<1>. QED BY ONLY m \in Nat \ {0}, <1>1, <1>6, <1>10, <1>11

(* There are at most as many questions as outcomes. *)
LEMMA FewKnown ==
  ASSUME NEW q, Recorded(q)
  PROVE  IsFiniteSet(KnownIds(q)) /\ Cardinality(KnownIds(q)) <= Len(q)
<1> DEFINE n == Len(q)
           K == Known(q, "gold_hit")
           J == {i \in 1..n : q[i] \in K}
           R == KnownIds(q)
           f == [i \in J |-> q[i].id]
<1>1. n \in Nat /\ DOMAIN q = 1..n BY LenProperties DEF Recorded
<1>2. f \in [J -> R] /\ \A y \in R : \E i \in J : f[i] = y
  <2>1. \A x \in K : x.id \in R BY OutcomeIs
  <2>2. f \in [J -> R] BY <2>1
  <2>3. ASSUME NEW y \in R PROVE \E i \in J : f[i] = y
    <3>1. PICK x \in K : x.id = y BY DEF KnownIds
    <3>2. PICK i \in 1..n : q[i] = x BY <1>1, <3>1 DEF Known, ToSet
    <3>3. i \in J /\ f[i] = y BY <3>1, <3>2
    <3>. QED BY <3>3
  <2>. QED BY <2>2, <2>3
<1>3. IsFiniteSet(1..n) /\ Cardinality(1..n) = n /\ J \subseteq 1..n
  <2>1. J \subseteq 1..n OBVIOUS
  <2>. HIDE DEF J, n
  <2>. QED BY <1>1, <2>1, FS_Interval
<1>. HIDE DEF n, J, R, f
<1>4. IsFiniteSet(J) /\ Cardinality(J) <= n BY <1>3, FS_Subset
<1>5. f \in Surjection(J, R) BY <1>2 DEF Surjection
<1>6. IsFiniteSet(R) /\ Cardinality(R) <= Cardinality(J) BY <1>4, <1>5, FS_Surjection
<1>7. Cardinality(R) \in Nat /\ Cardinality(J) \in Nat BY <1>4, <1>6, FS_CardinalityType
<1>8. IsFiniteSet(R) /\ Cardinality(R) <= n BY <1>1, <1>4, <1>6, <1>7
<1>. QED BY <1>8 DEF R, n

(* The common questions, and the differences of their outcomes. *)
Common(b, c) == KnownIds(b) \cap KnownIds(c)
CountCommon(b, c) == Cardinality(Common(b, c))
DiffsOf(b, c) ==
  [k \in 1 .. CountCommon(b, c) |->
    HitOf(c, InOrder(Common(b, c))[k]) - HitOf(b, InOrder(Common(b, c))[k])]

LEMMA CommonIs ==
  ASSUME NEW b, NEW c, Recorded(b), Recorded(c)
  PROVE  /\ CountCommon(b, c) \in Nat /\ Ascends(InOrder(Common(b, c)), CountCommon(b, c), Common(b, c))
         /\ (CountCommon(b, c) = 0 <=> Common(b, c) = {}) /\ Common(c, b) = Common(b, c)
         /\ CountCommon(b, c) <= Len(b) /\ CountCommon(b, c) <= Len(c)
<1> DEFINE I == Common(b, c)
<1>1. /\ IsFiniteSet(KnownIds(b)) /\ KnownIds(b) \in SUBSET Nat /\ Cardinality(KnownIds(b)) <= Len(b)
      /\ IsFiniteSet(KnownIds(c)) /\ KnownIds(c) \in SUBSET Nat /\ Cardinality(KnownIds(c)) <= Len(c)
  BY FewKnown, OutcomeIs
<1>2. I \subseteq KnownIds(b) /\ I \subseteq KnownIds(c) /\ Common(c, b) = I BY DEF Common
<1>3. Len(b) \in Nat /\ Len(c) \in Nat BY LenProperties DEF Recorded
<1>. HIDE DEF I
<1>4. /\ IsFiniteSet(I) /\ Cardinality(I) <= Cardinality(KnownIds(b))
      /\ Cardinality(I) <= Cardinality(KnownIds(c))
  BY <1>1, <1>2, FS_Subset
<1>5. /\ Cardinality(I) \in Nat /\ Cardinality(KnownIds(b)) \in Nat
      /\ Cardinality(KnownIds(c)) \in Nat /\ (Cardinality(I) = 0 <=> I = {})
  BY <1>1, <1>4, FS_CardinalityType, FS_EmptySet
<1>6. Cardinality(I) <= Len(b) /\ Cardinality(I) <= Len(c) BY ONLY <1>1, <1>3, <1>4, <1>5
<1>7. I \in SUBSET Int BY <1>1, <1>2
<1>8. Ascends(InOrder(I), Cardinality(I), I) BY <1>4, <1>7, InOrderAscends
<1>. QED BY <1>2, <1>5, <1>6, <1>8 DEF I, CountCommon

LEMMA HitIs == \A q, id : HitOf(q, id) \in {0, 1}
  BY DEF HitOf, AsNumber

LEMMA DiffsAre ==
  ASSUME NEW b, NEW c, Recorded(b), Recorded(c)
  PROVE  /\ DiffsOf(b, c) \in [1 .. CountCommon(b, c) -> Int]
         /\ DiffsOf(c, b) \in [1 .. CountCommon(b, c) -> Int] /\ CountCommon(c, b) = CountCommon(b, c)
         /\ \A k \in 1 .. CountCommon(b, c) : DiffsOf(c, b)[k] = -DiffsOf(b, c)[k]
<1> DEFINE n == CountCommon(b, c)
           S == InOrder(Common(b, c))
<1>1. CountCommon(c, b) = n /\ Common(c, b) = Common(b, c) BY CommonIs DEF CountCommon
<1>2. /\ DiffsOf(b, c) = [k \in 1..n |-> HitOf(c, S[k]) - HitOf(b, S[k])]
      /\ DiffsOf(c, b) = [k \in 1..n |-> HitOf(b, S[k]) - HitOf(c, S[k])]
  BY <1>1 DEF DiffsOf
<1>3. \A k \in 1..n : HitOf(b, S[k]) \in Int /\ HitOf(c, S[k]) \in Int
  <2>1. \A q, id : HitOf(q, id) \in Int BY HitIs
  <2>. QED BY <2>1
<1>. HIDE DEF n, S
<1>4. \A k \in 1..n : HitOf(c, S[k]) - HitOf(b, S[k]) \in Int /\ HitOf(b, S[k]) - HitOf(c, S[k]) \in Int
  BY <1>3
<1>5. \A k \in 1..n : HitOf(b, S[k]) - HitOf(c, S[k]) = -(HitOf(c, S[k]) - HitOf(b, S[k]))
  BY <1>3
<1>6. DiffsOf(b, c) \in [1..n -> Int] /\ DiffsOf(c, b) \in [1..n -> Int] BY <1>2, <1>4
<1>7. \A k \in 1..n : DiffsOf(c, b)[k] = -DiffsOf(b, c)[k] BY <1>2, <1>5
<1>. QED BY <1>1, <1>6, <1>7 DEF n

(* The sums of the resamples. *)
SamplesOf(f, D) == [d \in DOMAIN D |-> Total([k \in DOMAIN D[d] |-> f[D[d][k]]])]

SampleOf(f, t, n) == [k \in 1..n |-> f[t[k]]]

(* Resamples of n values. *)
Resamples(D, n) == D \in Seq([1..n -> 1..n]) /\ D # <<>>

LEMMA SamplesAre ==
  ASSUME NEW n \in Nat, NEW f \in [1..n -> Int], NEW D, Resamples(D, n)
  PROVE  /\ Len(D) \in Nat \ {0} /\ DOMAIN D = 1 .. Len(D) /\ SamplesOf(f, D) \in [1 .. Len(D) -> Int]
         /\ \A d \in DOMAIN D : D[d] \in [1..n -> 1..n]
         /\ \A d \in DOMAIN D : SamplesOf(f, D)[d] = Total(SampleOf(f, D[d], n))
<1> DEFINE m == Len(D)
<1>1. D \in Seq([1..n -> 1..n]) /\ D # <<>> BY DEF Resamples
<1>2. m \in Nat \ {0} /\ DOMAIN D = 1..m BY <1>1, LenProperties, EmptySeq
<1>3. \A d \in 1..m : D[d] \in [1..n -> 1..n] BY <1>1, <1>2, ElementOfSeq
<1>. HIDE DEF m
<1>4. ASSUME NEW d \in 1..m
      PROVE  SamplesOf(f, D)[d] = Total(SampleOf(f, D[d], n)) /\ SamplesOf(f, D)[d] \in Int
  <2> DEFINE h == SampleOf(f, D[d], n)
  <2>1. D[d] \in [1..n -> 1..n] BY <1>3
  <2>2. h \in [1..n -> Int] BY <2>1 DEF SampleOf
  <2>3. SamplesOf(f, D)[d] = Total(h) BY <1>2, <2>1 DEF SamplesOf, SampleOf
  <2>. HIDE DEF h
  <2>4. IsFiniteSet(1..n) BY FS_Interval
  <2>5. Adds(h, 1..n) BY <2>2, <2>4, TotalAdds
  <2>6. Total(h) \in Int BY <2>5 DEF Adds
  <2>. QED BY <2>3, <2>6 DEF h
<1>5. SamplesOf(f, D) \in [1..m -> Int]
  <2>1. SamplesOf(f, D) = [d \in 1..m |-> SamplesOf(f, D)[d]] BY <1>2 DEF SamplesOf
  <2>2. \A d \in 1..m : SamplesOf(f, D)[d] \in Int BY <1>4
  <2>. QED BY ONLY <2>1, <2>2
<1>. QED BY <1>2, <1>3, <1>4, <1>5 DEF m

(* The thousandths off at both ends together. *)
LeftOut(confidence) == 1000 - confidence

(* The interval, and what _paired gives. *)
IntervalOf(f, D, confidence) ==
  LET o == Ascending(SamplesOf(f, D))
  IN <<o[Lowest(Len(D), LeftOut(confidence))], o[Highest(Len(D), LeftOut(confidence))]>>

LEMMA PairedIs ==
  ASSUME NEW b, NEW c, Recorded(b), Recorded(c), NEW draws, NEW confidence,
         CountCommon(b, c) # 0 => Resamples(draws[CountCommon(b, c)], CountCommon(b, c))
  PROVE  Paired(b, c, "gold_hit", draws, confidence) =
           IF CountCommon(b, c) = 0 THEN Nothing
           ELSE [diff |-> <<Total(DiffsOf(b, c)), CountCommon(b, c)>>,
                 ci |-> IntervalOf(DiffsOf(b, c), draws[CountCommon(b, c)], confidence)]
<1> DEFINE n == CountCommon(b, c)
           S == InOrder(Common(b, c))
           pairs == Pairs(b, c, "gold_hit")
           diffs == [i \in DOMAIN pairs |-> pairs[i][2] - pairs[i][1]]
           D == draws[n]
<1>1. n \in Nat BY CommonIs
<1>2. pairs = [k \in 1..n |-> <<HitOf(b, S[k]), HitOf(c, S[k])>>]
  BY PairsAre DEF PairsOf, CountCommon, Common
<1>3. diffs = DiffsOf(b, c)
  <2>1. DiffsOf(b, c) = [k \in 1..n |-> HitOf(c, S[k]) - HitOf(b, S[k])] BY DEF DiffsOf
  <2>. HIDE DEF pairs, n, S
  <2>2. DOMAIN pairs = 1..n /\ \A k \in 1..n : pairs[k][2] = HitOf(c, S[k]) /\ pairs[k][1] = HitOf(b, S[k])
    BY <1>2
  <2>. QED BY <2>1, <2>2
<1>4. DiffsOf(b, c) \in [1..n -> Int] BY DiffsAre
<1>5. Paired(b, c, "gold_hit", draws, confidence) =
        IF pairs = <<>> THEN Nothing
        ELSE [diff |-> <<Total(diffs), Len(diffs)>>,
              ci |-> BootstrapCI(diffs, draws[Len(diffs)], confidence)]
  BY DEF Paired
<1>. HIDE DEF pairs, diffs, n, S, D
<1>6. diffs \in Seq(Int) /\ Len(diffs) = n /\ DOMAIN diffs = 1..n
  <2>1. diffs \in Seq(Int) BY <1>1, <1>3, <1>4, SeqDef
  <2>. QED BY <1>1, <1>3, <1>4, <2>1, LenProperties
<1>7. CASE n = 0
  <2>1. pairs = <<>> BY <1>2, <1>7
  <2>. QED BY <1>5, <1>7, <2>1 DEF n
<1>8. CASE n # 0
  <2>1. 1 \in 1..n /\ 1 \in DOMAIN pairs /\ 1 \in DOMAIN diffs BY <1>1, <1>2, <1>6, <1>8
  <2>2. pairs # <<>> /\ diffs # <<>> BY <2>1
  <2>3. Resamples(D, n) BY <1>8 DEF n, D
  <2>4. /\ Len(D) \in Nat \ {0} /\ DOMAIN D = 1 .. Len(D) /\ SamplesOf(diffs, D) \in [1 .. Len(D) -> Int]
    BY <1>1, <1>3, <1>4, <2>3, SamplesAre
  <2> DEFINE q == SamplesOf(diffs, D)
  <2>5. q \in Seq(Int) /\ Len(q) = Len(D)
    <3>1. q \in Seq(Int) BY <2>4, SeqDef
    <3>. QED BY <2>4, <3>1, LenProperties
  <2>6. BootstrapCI(diffs, D, confidence) = PercentileInterval(q, confidence)
    BY <2>2 DEF BootstrapCI, SamplesOf
  <2>. HIDE DEF q
  <2>7. PercentileInterval(q, confidence) =
          <<Ascending(q)[Lowest(Len(D), 1000 - confidence)],
            Ascending(q)[Highest(Len(D), 1000 - confidence)]>>
    BY <2>5 DEF PercentileInterval, Lowest, Highest
  <2>8. BootstrapCI(diffs, D, confidence) = IntervalOf(diffs, D, confidence)
    BY <2>6, <2>7 DEF IntervalOf, q, LeftOut
  <2>9. Paired(b, c, "gold_hit", draws, confidence) =
          [diff |-> <<Total(diffs), n>>, ci |-> IntervalOf(diffs, D, confidence)]
    BY <1>5, <1>6, <2>2, <2>8 DEF D
  <2>. QED BY <1>3, <1>8, <2>9 DEF D, n
<1>. QED BY <1>7, <1>8

(* h is the sum of f and g. *)
Plus(h, f, g, S) ==
  f \in [S -> Int] /\ g \in [S -> Int] /\ h \in [S -> Int] /\ \A x \in S : h[x] = f[x] + g[x]

LEMMA TotalOfPlus ==
  ASSUME NEW S, IsFiniteSet(S), NEW h, NEW f, NEW g, Plus(h, f, g, S)
  PROVE  Total(h) = Total(f) + Total(g)
<1>1. f \in [S -> Int] /\ g \in [S -> Int] /\ h \in [S -> Int] /\ \A x \in S : h[x] = f[x] + g[x]
  BY DEF Plus
<1>. QED BY <1>1, TotalPlus

(* h is f with its elements named by p. *)
Renames(p, h, f, S, R) ==
  /\ p \in [S -> R] /\ (\A y \in R : \E x \in S : p[x] = y)
  /\ (\A x, y \in S : p[x] = p[y] => x = y)
  /\ f \in [R -> Int] /\ h \in [S -> Int] /\ \A x \in S : h[x] = f[p[x]]

LEMMA TotalOfRenamed ==
  ASSUME NEW S, IsFiniteSet(S), NEW R, NEW p, NEW h, NEW f, Renames(p, h, f, S, R)
  PROVE  Total(h) = Total(f)
<1>1. /\ p \in [S -> R] /\ (\A y \in R : \E x \in S : p[x] = y)
      /\ (\A x, y \in S : p[x] = p[y] => x = y)
      /\ f \in [R -> Int] /\ h \in [S -> Int] /\ \A x \in S : h[x] = f[p[x]]
  BY DEF Renames
<1>. QED BY <1>1, TotalRenamed

(* g is -f, and f is everywhere c. *)
Negates(g, f, n) ==
  n \in Nat /\ f \in [1..n -> Int] /\ g \in [1..n -> Int] /\ \A k \in 1..n : g[k] = -f[k]
Alike(f, c, n) == n \in Nat /\ f \in [1..n -> Int] /\ c \in Int /\ \A k \in 1..n : f[k] = c

(* The samples of the negated differences are the negated samples. *)
LEMMA NegatedSamples ==
  ASSUME NEW n, NEW f, NEW g, Negates(g, f, n), NEW D, Resamples(D, n)
  PROVE  \A d \in 1 .. Len(D) : SamplesOf(g, D)[d] = -SamplesOf(f, D)[d]
<1>. SUFFICES ASSUME NEW d \in 1 .. Len(D) PROVE SamplesOf(g, D)[d] = -SamplesOf(f, D)[d]
  OBVIOUS
<1>0. n \in Nat /\ f \in [1..n -> Int] /\ g \in [1..n -> Int] /\ \A k \in 1..n : g[k] = -f[k]
  BY DEF Negates
<1>1. DOMAIN D = 1 .. Len(D) /\ \A e \in DOMAIN D : D[e] \in [1..n -> 1..n] BY <1>0, SamplesAre
<1> DEFINE t == D[d]
           h == SampleOf(f, t, n)
           w == SampleOf(g, t, n)
<1>2. t \in [1..n -> 1..n] BY <1>1
<1>3. SamplesOf(f, D)[d] = Total(h) BY ZenonT(40), <1>0, <1>1, SamplesAre
<1>4. SamplesOf(g, D)[d] = Total(w) BY ZenonT(40), <1>0, <1>1, SamplesAre
<1>. HIDE DEF t
<1>5. h \in [1..n -> Int] /\ w \in [1..n -> Int] /\ \A k \in 1..n : w[k] = -h[k]
  BY <1>0, <1>2 DEF SampleOf
<1>. HIDE DEF h, w
<1>6. Times(w, -1, h, 1..n)
  <2>1. \A k \in 1..n : h[k] \in Int BY <1>5
  <2>2. \A k \in 1..n : w[k] = (-1) * h[k] BY <1>5, <2>1
  <2>. QED BY <1>5, <2>2 DEF Times
<1>7. IsFiniteSet(1..n) BY <1>0, FS_Interval
<1>8. Total(w) = (-1) * Total(h) BY <1>6, <1>7, TotalTimes
<1>9. Total(h) \in Int
  <2>1. Adds(h, 1..n) BY <1>5, <1>7, TotalAdds
  <2>. QED BY <2>1 DEF Adds
<1>. QED BY <1>3, <1>4, <1>8, <1>9

(* Equal differences give equal samples. *)
LEMMA SamplesAlike ==
  ASSUME NEW n, NEW f, NEW c, Alike(f, c, n), NEW D, Resamples(D, n)
  PROVE  \A d \in 1 .. Len(D) : SamplesOf(f, D)[d] = Total(f)
<1>. SUFFICES ASSUME NEW d \in 1 .. Len(D) PROVE SamplesOf(f, D)[d] = Total(f) OBVIOUS
<1>0. n \in Nat /\ f \in [1..n -> Int] /\ c \in Int /\ \A k \in 1..n : f[k] = c BY DEF Alike
<1>1. DOMAIN D = 1 .. Len(D) /\ \A e \in DOMAIN D : D[e] \in [1..n -> 1..n] BY <1>0, SamplesAre
<1> DEFINE t == D[d]
           h == SampleOf(f, t, n)
<1>2. t \in [1..n -> 1..n] BY <1>1
<1>3. SamplesOf(f, D)[d] = Total(h) BY <1>0, <1>1, SamplesAre
<1>. HIDE DEF t
<1>4. h = [k \in 1..n |-> c] /\ f = [k \in 1..n |-> c]
  <2>1. \A k \in 1..n : f[t[k]] = c BY <1>0, <1>2
  <2>. QED BY <1>0, <2>1 DEF SampleOf
<1>. QED BY <1>3, <1>4

(* A rate's hits, question by question. *)
LEMMA RateIs ==
  ASSUME NEW q, Recorded(q), NEW I, I = KnownIds(q), I # {}
  PROVE  RateOf(q, "a", "gold_hit")[1] = Total([k \in 1 .. Cardinality(I) |-> HitOf(q, InOrder(I)[k])])
<1> DEFINE n == Cardinality(I)
           S == InOrder(I)
           K == Known(q, "gold_hit")
           f == [o \in K |-> AsNumber(o["gold_hit"] = "hit")]
           h == [k \in 1..n |-> HitOf(q, S[k])]
           p == [k \in 1..n |-> OutcomeOf(q, S[k])]
<1>1. /\ IsFiniteSet(I) /\ I \in SUBSET Nat
      /\ \A x \in K : x.id \in I /\ OutcomeOf(q, x.id) = x
      /\ \A id \in I : OutcomeOf(q, id) \in K /\ OutcomeOf(q, id).id = id
  BY OutcomeIs
<1>2. Ascends(S, n, I)
  <2>1. I \in SUBSET Int BY <1>1
  <2>. QED BY <1>1, <2>1, InOrderAscends
<1>. HIDE DEF S, n
<1>3. /\ n \in Nat /\ S \in [1..n -> I] /\ (\A k, l \in 1..n : k < l => S[k] < S[l])
      /\ \A i \in I : \E k \in 1..n : S[k] = i
  BY <1>2 DEF Ascends
<1>4. p \in [1..n -> K] /\ \A k \in 1..n : p[k].id = S[k] BY <1>1, <1>3
<1>5. \A y \in K : \E k \in 1..n : p[k] = y
  <2>. SUFFICES ASSUME NEW y \in K PROVE \E k \in 1..n : p[k] = y OBVIOUS
  <2>1. PICK k \in 1..n : S[k] = y.id BY <1>1, <1>3
  <2>2. p[k] = y BY <1>1, <2>1
  <2>. QED BY <2>2
<1>6. \A k, l \in 1..n : p[k] = p[l] => k = l
  <2>. SUFFICES ASSUME NEW k \in 1..n, NEW l \in 1..n, p[k] = p[l] PROVE k = l OBVIOUS
  <2>1. S[k] = S[l] /\ S[k] \in Nat /\ S[l] \in Nat BY <1>1, <1>3, <1>4
  <2>2. ~(k < l) /\ ~(l < k) BY <1>3, <2>1
  <2>3. k \in Int /\ l \in Int BY <1>3
  <2>. QED BY ONLY <2>2, <2>3
<1>7. f \in [K -> Int] /\ h \in [1..n -> Int] /\ \A k \in 1..n : h[k] = f[p[k]]
  <2>1. f \in [K -> Int] BY DEF AsNumber
  <2>2. \A k \in 1..n : h[k] \in Int
    <3>1. \A id : HitOf(q, id) \in Int BY HitIs
    <3>. QED BY <3>1
  <2>3. \A k \in 1..n : h[k] = f[p[k]] BY <1>4 DEF HitOf
  <2>. QED BY <2>1, <2>2, <2>3
<1>8. RateOf(q, "a", "gold_hit")[1] = Total(f)
  <2>1. {o \in K : o.category = "a"} = K
    <3>1. \A o \in K : o.category = "a" BY DEF Known, ToSet, Recorded
    <3>. QED BY <3>1
  <2>2. K # {} BY DEF KnownIds
  <2>3. DOMAIN f = K OBVIOUS
  <2>4. RateOf(q, "a", "gold_hit") = MeanOf([o \in K |-> AsNumber(o["gold_hit"] = "hit")])
    BY <2>1 DEF RateOf
  <2>. QED BY <2>2, <2>3, <2>4 DEF MeanOf
<1>9. IsFiniteSet(1..n) BY <1>3, FS_Interval
<1>. HIDE DEF p, f, h, K
<1>10. Total(h) = Total(f)
  <2>1. Renames(p, h, f, 1..n, K) BY <1>4, <1>5, <1>6, <1>7 DEF Renames
  <2>. QED BY <1>9, <2>1, TotalOfRenamed
<1>. QED BY <1>8, <1>10 DEF h, n, S

(* Over the same questions the difference is that of the rates. *)
LEMMA DiffIsOfRates ==
  ASSUME NEW b, NEW c, Recorded(b), Recorded(c), KnownIds(b) = KnownIds(c), Common(b, c) # {}
  PROVE  Total(DiffsOf(b, c)) = RateOf(c, "a", "gold_hit")[1] - RateOf(b, "a", "gold_hit")[1]
<1> DEFINE I == Common(b, c)
           n == CountCommon(b, c)
           S == InOrder(I)
           hb == [k \in 1..n |-> HitOf(b, S[k])]
           hc == [k \in 1..n |-> HitOf(c, S[k])]
           f == DiffsOf(b, c)
<1>1. I = KnownIds(b) /\ I = KnownIds(c) /\ n = Cardinality(I) /\ n \in Nat
  <2>1. n \in Nat BY CommonIs
  <2>. QED BY <2>1 DEF Common, CountCommon
<1>2. RateOf(b, "a", "gold_hit")[1] = Total(hb) /\ RateOf(c, "a", "gold_hit")[1] = Total(hc)
  BY <1>1, RateIs
<1>3. hb \in [1..n -> Int] /\ hc \in [1..n -> Int]
  <2>1. \A q, id : HitOf(q, id) \in Int BY HitIs
  <2>. QED BY <2>1
<1>4. f \in [1..n -> Int] BY DiffsAre
<1>5. \A k \in 1..n : f[k] = hc[k] - hb[k] BY DEF DiffsOf
<1>. HIDE DEF hb, hc, f, n
<1>6. \A k \in 1..n : hc[k] = hb[k] + f[k]
  <2>. SUFFICES ASSUME NEW k \in 1..n PROVE hc[k] = hb[k] + f[k] OBVIOUS
  <2>1. hb[k] \in Int /\ hc[k] \in Int /\ f[k] = hc[k] - hb[k] BY <1>3, <1>5
  <2>. QED BY <2>1
<1>7. IsFiniteSet(1..n) BY <1>1, FS_Interval
<1>8. Total(hc) = Total(hb) + Total(f)
  <2>1. Plus(hc, hb, f, 1..n) BY <1>3, <1>4, <1>6 DEF Plus
  <2>. QED BY <1>7, <2>1, TotalOfPlus
<1>9. Adds(hb, 1..n) /\ Adds(f, 1..n) BY <1>3, <1>4, <1>7, TotalAdds
<1>10. Total(hb) \in Int /\ Total(f) \in Int BY <1>9 DEF Adds
<1>. QED BY <1>2, <1>8, <1>10 DEF f

(* What holds of the interval of the differences f, whose negation is g. *)
Interval(x, y, q, m, tail) ==
  Encloses(x[1], x[2], q, m, tail) /\ (x[1] > 0 => y[2] < 0)

LEMMA IntervalIs ==
  ASSUME NEW n, NEW f, NEW g, Negates(g, f, n), NEW D, Resamples(D, n),
         NEW confidence, confidence \in 1..999
  PROVE  Interval(IntervalOf(f, D, confidence), IntervalOf(g, D, confidence),
                  SamplesOf(f, D), Len(D), LeftOut(confidence))
<1> DEFINE m == Len(D)
           tail == LeftOut(confidence)
           q == SamplesOf(f, D)
           v == SamplesOf(g, D)
           o == Ascending(q)
           u == Ascending(v)
<1>0. n \in Nat /\ f \in [1..n -> Int] /\ g \in [1..n -> Int] BY DEF Negates
<1>1. m \in Nat \ {0} /\ q \in [1..m -> Int] /\ v \in [1..m -> Int] BY <1>0, SamplesAre
<1>2. tail \in 1..999 BY DEF LeftOut
<1>3. \A d \in 1..m : v[d] = -q[d] BY NegatedSamples
<1>4. IntervalOf(f, D, confidence) = <<o[Lowest(m, tail)], o[Highest(m, tail)]>>
  BY DEF IntervalOf
<1>5. IntervalOf(g, D, confidence) = <<u[Lowest(m, tail)], u[Highest(m, tail)]>>
  BY DEF IntervalOf
<1>. HIDE DEF m, tail, q, v
<1>6. m \in Nat BY <1>1
<1>7. PICK p : Sorts(o, p, q, m) BY <1>1, <1>6, AscendingSorts
<1>8. PICK r : Sorts(u, r, v, m) BY <1>1, <1>6, AscendingSorts
<1>. HIDE DEF o, u
<1>9. Encloses(o[Lowest(m, tail)], o[Highest(m, tail)], q, m, tail)
  BY ZenonT(40), <1>1, <1>2, <1>7, IntervalEncloses
<1>10. o[Lowest(m, tail)] > 0 => u[Highest(m, tail)] < 0
  BY ZenonT(40), <1>1, <1>2, <1>3, <1>7, <1>8, NegatedInterval
<1>. QED BY <1>4, <1>5, <1>9, <1>10 DEF m, tail, q, Interval

(* A paired comparison is a difference (_paired of eval/matrix.py). *)
LEMMA PairedOfCalls == InputsStayCalls => PairedIsADifference
<1>. SUFFICES ASSUME InputsStayCalls, subject = "paired" PROVE PairedIsADifference
  BY DEF PairedIsADifference
<1> DEFINE b == input.baseline
           c == input.candidate
           confidence == input.confidence
           draws == input.draws
           n == CountCommon(b, c)
           D == draws[n]
           m == Len(D)
           f == DiffsOf(b, c)
           g == DiffsOf(c, b)
           q == SamplesOf(f, D)
           pairs == Pairs(b, c, "gold_hit")
           S == InOrder(Common(b, c))
           pair == Paired(b, c, "gold_hit", draws, confidence)
           mirror == Paired(c, b, "gold_hit", draws, confidence)
           ids(outcomes) == {o.id : o \in Known(outcomes, "gold_hit")}
           drawn == draws[Len(pairs)]
           gain(d) == Total([k \in DOMAIN drawn[d] |-> pairs[drawn[d][k]][2] - pairs[drawn[d][k]][1]])
           few(C) == 2000 * Cardinality(C) <= (1000 - confidence) * (Len(drawn) - 1) + 1000
           rows == <<b, c>>
           table == PairedTable(rows, 1, "gold_hit", draws, confidence)
           rate(outcomes) == RateOf(outcomes, "a", "gold_hit")
<1>1. /\ \A outcomes \in {b, c} :
            /\ outcomes \in Seq(GoldOutcome)
            /\ \A i \in DOMAIN outcomes : outcomes[i].category = "a"
            /\ \A i, j \in DOMAIN outcomes : i < j => outcomes[i].id < outcomes[j].id
      /\ \A k \in DOMAIN c : draws[k] \in Seq([1..k -> 1..k]) /\ draws[k] # <<>>
      /\ confidence \in 1..999
  BY ZenonT(40), MeasuresAreTyped DEF InputsStayCalls
<1>. HIDE DEF b, c, confidence, draws
<1>2. Recorded(b) /\ Recorded(c) BY <1>1 DEF Recorded
<1>3. /\ n \in Nat /\ (n = 0 <=> Common(b, c) = {}) /\ n <= Len(c) /\ CountCommon(c, b) = n
      /\ f \in [1..n -> Int] /\ g \in [1..n -> Int] /\ \A k \in 1..n : g[k] = -f[k]
  BY <1>2, CommonIs, DiffsAre
<1>4. n # 0 => Resamples(D, n)
  <2>1. DOMAIN c = 1..Len(c) /\ Len(c) \in Nat BY <1>2, LenProperties DEF Recorded
  <2>2. n # 0 => n \in DOMAIN c BY <1>3, <2>1
  <2>. QED BY ZenonT(40), <1>1, <2>2 DEF Resamples
<1>5. pair = IF n = 0 THEN Nothing
             ELSE [diff |-> <<Total(f), n>>, ci |-> IntervalOf(f, D, confidence)]
  BY <1>2, <1>4, PairedIs
<1>6. mirror = IF n = 0 THEN Nothing
               ELSE [diff |-> <<Total(g), n>>, ci |-> IntervalOf(g, D, confidence)]
  BY <1>2, <1>3, <1>4, PairedIs
<1>7. pairs = [k \in 1..n |-> <<HitOf(b, S[k]), HitOf(c, S[k])>>]
  BY <1>2, PairsAre DEF PairsOf, CountCommon, Common
<1>8. \A k \in 1..n : pairs[k][2] - pairs[k][1] = f[k]
  <2>1. f = [k \in 1..n |-> HitOf(c, S[k]) - HitOf(b, S[k])] BY DEF DiffsOf
  <2>. HIDE DEF f, n, S, pairs
  <2>. QED BY <1>7, <2>1
<1>9. Len(pairs) = n /\ DOMAIN pairs = 1..n
  <2> DEFINE V == {<<HitOf(b, S[k]), HitOf(c, S[k])>> : k \in 1..n}
  <2>. HIDE DEF pairs, n, S
  <2>1. pairs \in [1..n -> V] /\ n \in Nat BY <1>3, <1>7
  <2>. HIDE DEF V
  <2>2. pairs \in Seq(V) BY <2>1, SeqDef
  <2>. QED BY <2>1, <2>2, LenProperties
<1>10. ids(b) \cap ids(c) = Common(b, c) /\ ids(b) = KnownIds(b) /\ ids(c) = KnownIds(c)
  BY DEF Common, KnownIds
<1>11. (pair = Nothing) = (ids(b) \cap ids(c) = {})
  <2>. HIDE DEF n, pair, D, f, ids
  <2>1. n # 0 => pair # Nothing
    <3>. SUFFICES ASSUME n # 0, pair = Nothing PROVE FALSE OBVIOUS
    <3>1. pair = [diff |-> <<Total(f), n>>, ci |-> IntervalOf(f, D, confidence)] BY <1>5
    <3>2. "ci" \in DOMAIN pair BY <3>1
    <3>3. DOMAIN pair = {} BY DEF Nothing
    <3>. QED BY <3>2, <3>3
  <2>2. n = 0 => pair = Nothing BY <1>5
  <2>. QED BY <1>3, <1>10, <2>1, <2>2
<1>12. ASSUME n # 0
       PROVE  /\ mirror.diff = <<-pair.diff[1], pair.diff[2]>>
              /\ pair.ci[1] <= pair.ci[2]
              /\ few({d \in DOMAIN drawn : gain(d) < pair.ci[1]})
              /\ few({d \in DOMAIN drawn : gain(d) > pair.ci[2]})
              /\ (\A p \in ToSet(pairs) : p[2] - p[1] = pairs[1][2] - pairs[1][1]) =>
                   pair.ci = <<pair.diff[1], pair.diff[1]>>
              /\ pair.ci[1] > 0 => Significant(mirror)
              /\ table[2].marked = (pair.ci[1] > 0 \/ pair.ci[2] < 0)
  <2> DEFINE x == IntervalOf(f, D, confidence)
             y == IntervalOf(g, D, confidence)
             tail == LeftOut(confidence)
  <2>1. pair.diff = <<Total(f), n>> /\ pair.ci = x /\ mirror.diff = <<Total(g), n>> /\ mirror.ci = y
    BY <1>5, <1>6, <1>12
  <2>2. Encloses(x[1], x[2], q, m, tail) /\ (x[1] > 0 => y[2] < 0)
    <3>1. Resamples(D, n) BY <1>4, <1>12
    <3>2. confidence \in 1..999 BY <1>1
    <3>3. Negates(g, f, n) BY <1>3 DEF Negates
    <3>. HIDE DEF f, g, n, D
    <3>4. Interval(IntervalOf(f, D, confidence), IntervalOf(g, D, confidence),
                   SamplesOf(f, D), Len(D), LeftOut(confidence))
      BY ONLY ZenonT(40), <3>1, <3>2, <3>3, IntervalIs
    <3>. QED BY <3>4 DEF Interval
  <2>3. /\ m \in Nat \ {0} /\ DOMAIN D = 1..m /\ q \in [1..m -> Int]
        /\ \A d \in DOMAIN D : D[d] \in [1..n -> 1..n]
        /\ \A d \in DOMAIN D : q[d] = Total(SampleOf(f, D[d], n))
    <3>1. Resamples(D, n) BY <1>4, <1>12
    <3>. HIDE DEF f, n, D
    <3>. QED BY ZenonT(40), <1>3, <3>1, SamplesAre
  <2>4. drawn = D BY <1>9
  <2>5. \A d \in 1..m : gain(d) = q[d]
    <3>. SUFFICES ASSUME NEW d \in 1..m PROVE gain(d) = q[d] OBVIOUS
    <3>1. D[d] \in [1..n -> 1..n] /\ q[d] = Total(SampleOf(f, D[d], n)) BY <2>3
    <3> DEFINE t == D[d]
    <3>2. gain(d) = Total([k \in DOMAIN t |-> pairs[t[k]][2] - pairs[t[k]][1]]) BY <2>4
    <3>. HIDE DEF pairs, f, n, gain, q, D, t
    <3>3. t \in [1..n -> 1..n] BY <3>1 DEF t
    <3>4. [k \in DOMAIN t |-> pairs[t[k]][2] - pairs[t[k]][1]] = SampleOf(f, t, n)
      BY <1>8, <3>3 DEF SampleOf
    <3>. QED BY <3>1, <3>2, <3>4 DEF t
  <2>6. pair.diff = <<Total(f), n>> /\ -pair.diff[1] = Total(g) /\ Total(f) \in Int
    <3>1. IsFiniteSet(1..n) BY <1>3, FS_Interval
    <3>. HIDE DEF f, g, n
    <3>2. Adds(f, 1..n) BY <1>3, <3>1, TotalAdds
    <3>3. Total(f) \in Int BY <3>2 DEF Adds
    <3>4. Times(g, -1, f, 1..n)
      <4>1. \A k \in 1..n : f[k] \in Int /\ g[k] = -f[k] BY <1>3
      <4>2. \A k \in 1..n : g[k] = (-1) * f[k] BY <4>1
      <4>. QED BY <1>3, <4>2 DEF Times
    <3>5. Total(g) = (-1) * Total(f) BY <3>1, <3>4, TotalTimes
    <3>. HIDE DEF pair
    <3>. QED BY <2>1, <3>3, <3>5
  <2>7. mirror.diff = <<-pair.diff[1], pair.diff[2]>>
    <3>. HIDE DEF mirror, pair, f, g, n
    <3>. QED BY <2>1, <2>6
  <2>. HIDE DEF x, y
  <2>8. /\ x[1] \in Int /\ x[2] \in Int /\ x[1] <= x[2] /\ (\E i \in 1..m : x[1] = q[i])
        /\ (\E i \in 1..m : x[2] = q[i])
        /\ 2000 * Cardinality({i \in 1..m : q[i] < x[1]}) <= tail * (m - 1) + 1000
        /\ 2000 * Cardinality({i \in 1..m : q[i] > x[2]}) <= tail * (m - 1) + 1000
    BY <2>2 DEF Encloses
  <2>9. /\ few({d \in DOMAIN drawn : gain(d) < pair.ci[1]})
        /\ few({d \in DOMAIN drawn : gain(d) > pair.ci[2]})
    <3>. HIDE DEF gain, drawn, q, D, pair
    <3> DEFINE A == {d \in DOMAIN drawn : gain(d) < pair.ci[1]}
               B == {d \in DOMAIN drawn : gain(d) > pair.ci[2]}
               less == {i \in 1..m : q[i] < x[1]}
               more == {i \in 1..m : q[i] > x[2]}
    <3>1. A = less BY <2>1, <2>3, <2>4, <2>5
    <3>2. B = more BY <2>1, <2>3, <2>4, <2>5
    <3>3. Len(drawn) = m BY <2>4
    <3>4. /\ 2000 * Cardinality(less) <= tail * (m - 1) + 1000
          /\ 2000 * Cardinality(more) <= tail * (m - 1) + 1000
      BY <2>8
    <3>. HIDE DEF A, B, less, more, tail, m
    <3>5. /\ 2000 * Cardinality(A) <= tail * (Len(drawn) - 1) + 1000
          /\ 2000 * Cardinality(B) <= tail * (Len(drawn) - 1) + 1000
      BY ONLY <3>1, <3>2, <3>3, <3>4
    <3>6. few(A) /\ few(B) BY <3>5 DEF tail, LeftOut
    <3>. HIDE DEF few
    <3>. QED BY <3>6 DEF A, B
  <2>10. (\A p \in ToSet(pairs) : p[2] - p[1] = pairs[1][2] - pairs[1][1]) =>
           pair.ci = <<pair.diff[1], pair.diff[1]>>
    <3>. SUFFICES ASSUME \A p \in ToSet(pairs) : p[2] - p[1] = pairs[1][2] - pairs[1][1]
                  PROVE  pair.ci = <<pair.diff[1], pair.diff[1]>>
      OBVIOUS
    <3>1. \A k \in 1..n : pairs[k][2] - pairs[k][1] = pairs[1][2] - pairs[1][1]
      <4>. HIDE DEF pairs, n
      <4>1. \A k \in 1..n : pairs[k] \in ToSet(pairs) BY <1>9 DEF ToSet
      <4>. QED BY <4>1
    <3>2. \A k \in 1..n : f[k] = f[1]
      <4>. HIDE DEF pairs, n, f
      <4>1. 1 \in 1..n BY <1>3, <1>12
      <4>. QED BY <1>8, <3>1, <4>1
    <3>3. \A d \in 1..m : q[d] = Total(f)
      <4>1. Resamples(D, n) BY <1>4, <1>12
      <4>. HIDE DEF n, f, D
      <4>2. f[1] \in Int BY <1>3, <1>12
      <4>3. Alike(f, f[1], n) BY <1>3, <3>2, <4>2 DEF Alike
      <4>. QED BY <4>1, <4>3, SamplesAlike
    <3>4. x[1] = Total(f) /\ x[2] = Total(f)
      <4>. HIDE DEF m, q, f
      <4>. QED BY <2>8, <3>3
    <3>5. x = <<x[1], x[2]>> BY DEF x, IntervalOf
    <3>. HIDE DEF pair, f, n
    <3>. QED BY <2>1, <3>4, <3>5
  <2>11. pair # Nothing /\ mirror # Nothing
    <3>. HIDE DEF pair, mirror
    <3>1. "ci" \in DOMAIN pair /\ "ci" \in DOMAIN mirror
      <4>1. DOMAIN pair = {"diff", "ci"} /\ DOMAIN mirror = {"diff", "ci"} BY <1>5, <1>6, <1>12
      <4>. QED BY <4>1
    <3>. QED BY <3>1 DEF Nothing
  <2>12. pair.ci[1] > 0 => Significant(mirror)
    <3>. HIDE DEF pair, mirror
    <3>. QED BY <2>1, <2>2, <2>11 DEF Significant
  <2>13. table[2].marked = (pair.ci[1] > 0 \/ pair.ci[2] < 0)
    <3>1. b # <<>> /\ c # <<>>
      <4>1. n <= Len(b) /\ n <= Len(c) /\ Len(b) \in Nat /\ Len(c) \in Nat
        BY <1>2, CommonIs, LenProperties DEF Recorded
      <4>2. Len(b) # 0 /\ Len(c) # 0
        <5>. HIDE DEF n
        <5>. QED BY <1>3, <1>12, <4>1
      <4>. QED BY <4>2, EmptySeq
    <3>2. DOMAIN rows = {1, 2} /\ rows[1] = b /\ rows[2] = c OBVIOUS
    <3>. HIDE DEF rows
    <3>3. 2 \in {u \in DOMAIN rows \ {1} : rows[1] # <<>> /\ rows[u] # <<>>} BY <3>1, <3>2
    <3>4. table[2] = [paired |-> Paired(rows[1], rows[2], "gold_hit", draws, confidence),
                      marked |-> Significant(Paired(rows[1], rows[2], "gold_hit", draws, confidence))]
      BY <3>3 DEF PairedTable
    <3>5. table[2].marked = Significant(pair) BY <3>2, <3>4
    <3>. HIDE DEF pair, table
    <3>. QED BY <2>11, <3>5 DEF Significant
  <2>. HIDE DEF pair, mirror, few, gain, drawn, pairs, table
  <2>. QED BY <2>1, <2>7, <2>8, <2>9, <2>10, <2>12, <2>13
<1>13. pair # Nothing => n # 0 BY <1>5
<1>14. ids(b) = ids(c) /\ pair # Nothing => pair.diff = <<rate(c)[1] - rate(b)[1], pair.diff[2]>>
  <2>. SUFFICES ASSUME ids(b) = ids(c), pair # Nothing
                PROVE  pair.diff = <<rate(c)[1] - rate(b)[1], pair.diff[2]>>
    OBVIOUS
  <2>1. n # 0 /\ KnownIds(b) = KnownIds(c) /\ Common(b, c) # {} BY <1>3, <1>10, <1>13
  <2>2. Total(f) = rate(c)[1] - rate(b)[1] BY <1>2, <2>1, DiffIsOfRates
  <2>3. pair.diff = <<Total(f), n>> BY <1>5, <2>1
  <2>. HIDE DEF f, n, rate, pair
  <2>. QED BY <2>2, <2>3
<1>. HIDE DEF pair, mirror, few, gain, drawn, pairs, table, ids, rate
<1>15. /\ (pair = Nothing) = (ids(b) \cap ids(c) = {})
       /\ pair # Nothing =>
            /\ mirror.diff = <<-pair.diff[1], pair.diff[2]>>
            /\ pair.ci[1] <= pair.ci[2]
            /\ few({d \in DOMAIN drawn : gain(d) < pair.ci[1]})
            /\ few({d \in DOMAIN drawn : gain(d) > pair.ci[2]})
            /\ (\A p \in ToSet(pairs) : p[2] - p[1] = pairs[1][2] - pairs[1][1]) =>
                 pair.ci = <<pair.diff[1], pair.diff[1]>>
            /\ pair.ci[1] > 0 => Significant(mirror)
            /\ table[2].marked = (pair.ci[1] > 0 \/ pair.ci[2] < 0)
       /\ ids(b) = ids(c) /\ pair # Nothing =>
            pair.diff = <<rate(c)[1] - rate(b)[1], pair.diff[2]>>
  BY <1>11, <1>12, <1>13, <1>14
<1>. QED BY ONLY ZenonT(40), <1>15 DEF PairedIsADifference, pair, mirror, few, gain, drawn, pairs, rows, table, ids, rate,
                           b, c, draws, confidence

-----------------------------------------------------------------------------
(* Means. *)

(* The mean v of f over S. *)
IsMean(v, f, S) ==
  /\ v = (IF S = {} THEN Nothing ELSE <<Total(f), Cardinality(S)>>)
  /\ Total(f) \in Int /\ Cardinality(S) \in Nat /\ (S = {} <=> Cardinality(S) = 0)
  /\ (v = Nothing <=> S = {})

LEMMA MeanIs ==
  ASSUME NEW S, IsFiniteSet(S), NEW f, f \in [S -> Int]
  PROVE  IsMean(MeanOf(f), f, S)
<1>1. DOMAIN f = S OBVIOUS
<1>2. Adds(f, S) BY TotalAdds
<1>3. Total(f) \in Int BY <1>2 DEF Adds
<1>4. Cardinality(S) \in Nat /\ (S = {} <=> Cardinality(S) = 0)
  BY FS_CardinalityType, FS_EmptySet
<1>5. <<Total(f), Cardinality(S)>> # <<>> OBVIOUS
<1>6. MeanOf(f) = (IF S = {} THEN Nothing ELSE <<Total(f), Cardinality(S)>>) BY <1>1 DEF MeanOf
<1>7. MeanOf(f) = Nothing <=> S = {} BY <1>5, <1>6 DEF Nothing
<1>. QED BY <1>3, <1>4, <1>6, <1>7 DEF IsMean

(* Renaming changes no mean. *)
LEMMA MeanOfRenamed ==
  ASSUME NEW S, IsFiniteSet(S), NEW R, NEW p, NEW h, NEW f, Renames(p, h, f, S, R)
  PROVE  MeanOf(h) = MeanOf(f)
<1>1. /\ p \in [S -> R] /\ (\A y \in R : \E x \in S : p[x] = y)
      /\ (\A x, y \in S : p[x] = p[y] => x = y)
      /\ f \in [R -> Int] /\ h \in [S -> Int]
  BY DEF Renames
<1>2. Total(h) = Total(f) BY TotalOfRenamed
<1>3. Cardinality(R) = Cardinality(S) BY <1>1, ImageOf
<1>4. DOMAIN f = R /\ DOMAIN h = S /\ (S = {} <=> R = {}) BY <1>1
<1>. QED BY <1>2, <1>3, <1>4 DEF MeanOf

(* A total of naturals is zero when all are. *)
LEMMA TotalIsZero ==
  ASSUME NEW S, IsFiniteSet(S), NEW f, f \in [S -> Nat]
  PROVE  Total(f) \in Nat /\ (Total(f) = 0 <=> \A x \in S : f[x] = 0)
<1> DEFINE zero == [x \in S |-> 0]
<1>1. zero \in [S -> Nat] /\ zero \in [S -> Int] /\ \A x \in S : zero[x] = 0 OBVIOUS
<1>2. Total(f) \in Nat BY TotalIsNat
<1>3. Total(zero) = 0
  <2>. HIDE DEF zero
  <2>1. Total(zero) = 0 * Cardinality(S) /\ Cardinality(S) \in Nat BY <1>1, TotalAlike
  <2>. QED BY <2>1
<1>4. (\A x \in S : f[x] = 0) => f = zero OBVIOUS
<1>. HIDE DEF zero
<1>5. ASSUME NEW c \in S, f[c] # 0 PROVE Total(f) # 0
  <2>1. \A x \in S : zero[x] <= f[x]
    <3>1. \A x \in S : f[x] \in Nat OBVIOUS
    <3>. QED BY <1>1, <3>1
  <2>2. zero[c] < f[c] BY <1>1, <1>5
  <2>3. Total(zero) < Total(f) BY <1>1, <2>1, <2>2, TotalIsLess
  <2>. QED BY <1>2, <1>3, <2>3
<1>. QED BY <1>2, <1>3, <1>4, <1>5

-----------------------------------------------------------------------------
(* Reports. *)

IdsOf(questions) == {q.id : q \in ToSet(questions)}

(* A report's questions, runs and scores. *)
Reported(questions, runs, scores) ==
  /\ questions \in Seq(Question) /\ questions # <<>>
  /\ \A i, j \in DOMAIN questions : questions[i].id = questions[j].id => i = j
  /\ \A q \in ToSet(questions) : q.category = "a"
  /\ runs \in [IdsOf(questions) -> QuestionRun] /\ scores \in [IdsOf(questions) -> Score]
  /\ \A id \in IdsOf(questions) :
       /\ runs[id].ms.retrieval <= runs[id].ms.total /\ runs[id].ms.generation <= runs[id].ms.total
       /\ \A n \in DOMAIN runs[id].retrieved : Scale % n = 0

(* What follows for a set Q of questions. *)
Report(Q, runs, scores) ==
  /\ IsFiniteSet(Q) /\ Q # {} /\ Q \subseteq Question
  /\ \A q, r \in Q : q.id = r.id => q = r
  /\ DOMAIN runs = {q.id : q \in Q} /\ DOMAIN scores = DOMAIN runs /\ IsFiniteSet(DOMAIN runs)
  /\ \A id \in DOMAIN runs : runs[id] \in QuestionRun /\ scores[id] \in Score

LEMMA ReportIs ==
  ASSUME NEW questions, NEW runs, NEW scores, Reported(questions, runs, scores)
  PROVE  Report(ToSet(questions), runs, scores)
<1> DEFINE Q == ToSet(questions)
           n == Len(questions)
<1>1. /\ questions \in Seq(Question) /\ questions # <<>>
      /\ \A i, j \in DOMAIN questions : questions[i].id = questions[j].id => i = j
      /\ runs \in [IdsOf(questions) -> QuestionRun] /\ scores \in [IdsOf(questions) -> Score]
  BY DEF Reported
<1>2. n \in Nat /\ n # 0 /\ DOMAIN questions = 1..n BY <1>1, LenProperties, EmptySeq
<1>3. IsFiniteSet(Q) /\ Q \subseteq Question BY <1>1, ToSetIsFinite
<1>4. Q = {questions[i] : i \in 1..n} BY <1>2 DEF ToSet
<1>5. Q # {}
  <2>1. 1 \in 1..n BY <1>2
  <2>. QED BY <1>4, <2>1
<1>6. \A q, r \in Q : q.id = r.id => q = r BY <1>1, <1>2, <1>4
<1>7. IdsOf(questions) = {q.id : q \in Q} BY DEF IdsOf
<1>8. IsFiniteSet(IdsOf(questions))
  <2> DEFINE R == IdsOf(questions)
             f == [q \in Q |-> q.id]
  <2>1. f \in [Q -> R] /\ \A y \in R : \E q \in Q : f[q] = y BY <1>7
  <2>. HIDE DEF R, f, Q
  <2>2. IsFiniteSet(R) BY <1>3, <2>1, ImageOf
  <2>. QED BY <2>2 DEF R
<1>9. DOMAIN runs = IdsOf(questions) /\ DOMAIN scores = IdsOf(questions) BY <1>1
<1>10. \A id \in IdsOf(questions) : runs[id] \in QuestionRun /\ scores[id] \in Score BY <1>1
<1>. HIDE DEF Q
<1>. QED BY <1>3, <1>5, <1>6, <1>7, <1>8, <1>9, <1>10 DEF Report, Q

(* The gold-bearing ones. *)
LEMMA GoldBearingIs ==
  ASSUME NEW questions, NEW runs, NEW scores, Reported(questions, runs, scores)
  PROVE  /\ IsFiniteSet(GoldBearing(questions, runs)) /\ GoldBearing(questions, runs) \subseteq ToSet(questions)
         /\ \A q \in ToSet(questions) :
              q \in GoldBearing(questions, runs) <=> q.gold # {} /\ ~runs[q.id].error
<1>1. Report(ToSet(questions), runs, scores) BY ReportIs
<1>2. \A q \in ToSet(questions) : q.id \in DOMAIN runs BY <1>1 DEF Report
<1>3. GoldBearing(questions, runs) \subseteq ToSet(questions) BY DEF GoldBearing
<1>4. IsFiniteSet(GoldBearing(questions, runs)) BY <1>1, <1>3, FS_Subset DEF Report
<1>. QED BY <1>2, <1>3, <1>4 DEF GoldBearing

(* The ranks of a question's gold sources among its run's chunks. *)
LEMMA GoldRanksAre ==
  ASSUME NEW questions, NEW runs, NEW scores, Reported(questions, runs, scores),
         NEW q \in ToSet(questions)
  PROVE  /\ runs[q.id].retrieved \in Seq(Record) /\ Len(runs[q.id].retrieved) \in Nat
         /\ DOMAIN runs[q.id].retrieved = 1 .. Len(runs[q.id].retrieved)
         /\ GoldRanks(q, runs) \subseteq 1 .. Len(runs[q.id].retrieved)
         /\ IsFiniteSet(GoldRanks(q, runs)) /\ Cardinality(GoldRanks(q, runs)) \in Nat
         /\ (Cardinality(GoldRanks(q, runs)) = 0 <=> GoldRanks(q, runs) = {})
         /\ \A k \in 1 .. Len(runs[q.id].retrieved) : k <= Scale /\ Scale \div k \in Nat \ {0}
<1> DEFINE u == runs[q.id].retrieved
           n == Len(u)
           G == GoldRanks(q, runs)
<1>1. q.id \in IdsOf(questions) BY DEF IdsOf
<1>2. runs[q.id] \in QuestionRun /\ \A k \in DOMAIN u : Scale % k = 0 BY <1>1 DEF Reported
<1>3. u \in Seq(Record) BY <1>2 DEF QuestionRun
<1>. HIDE DEF u
<1>4. n \in Nat /\ DOMAIN u = 1..n BY <1>3, LenProperties
<1>5. G \subseteq 1..n BY <1>4 DEF GoldRanks, u
<1>6. IsFiniteSet(1..n) BY <1>4, FS_Interval
<1>. HIDE DEF G
<1>7. IsFiniteSet(G) /\ Cardinality(G) \in Nat /\ (Cardinality(G) = 0 <=> G = {})
  BY <1>5, <1>6, FS_Subset, FS_CardinalityType, FS_EmptySet
<1>8. ASSUME NEW k \in 1..n PROVE k <= Scale /\ Scale \div k \in Nat \ {0}
  <2>1. k \in Nat \ {0} /\ Scale \in Nat \ {0} /\ Scale % k = 0 BY <1>2, <1>4, ScaleIsPositive
  <2>2. Scale \div k \in Nat /\ Scale = k * (Scale \div k) + (Scale % k) BY <2>1
  <2> DEFINE s == Scale \div k
  <2>3. Scale = k * s
    <3>1. k * s \in Nat BY <2>1, <2>2
    <3>. HIDE DEF s
    <3>. QED BY <2>1, <2>2, <3>1 DEF s
  <2>. HIDE DEF s
  <2>4. s # 0 BY <2>1, <2>3
  <2>5. k * 1 <= k * s
    <3>1. s \in Nat /\ 1 <= s /\ k \in Nat BY <2>1, <2>2, <2>4 DEF s
    <3>. QED BY <3>1, ProductGrows
  <2>6. k <= Scale BY <2>1, <2>3, <2>5
  <2>. QED BY <2>2, <2>4, <2>6 DEF s
<1>. QED BY <1>3, <1>4, <1>5, <1>7, <1>8 DEF u, G

(* All of a sequence. *)
LEMMA AtAll ==
  ASSUME NEW V, NEW q, q \in Seq(V)
  PROVE  At(q, DOMAIN q) = q
<1> DEFINE n == Len(q)
           K == DOMAIN q
           e == [k \in 1..n |-> k]
<1>1. n \in Nat /\ K = 1..n /\ q = [k \in 1..n |-> q[k]] BY LenProperties
<1>. HIDE DEF n, K
<1>2. Ascends(e, n, K) BY <1>1 DEF Ascends
<1>3. K \in SUBSET Int /\ \A k \in 1..n : e[k] = k BY <1>1
<1>. HIDE DEF e
<1>4. At(q, K) = [k \in 1..n |-> q[e[k]]] BY <1>2, <1>3, AtIsAscent
<1>5. At(q, K) = [k \in 1..n |-> q[k]] BY <1>3, <1>4
<1>. QED BY <1>1, <1>5 DEF K

(* The outcome of a question. *)
GoldHitOf(q, runs) ==
  IF q.gold = {} \/ runs[q.id].error THEN "none" ELSE IF GoldRanks(q, runs) # {} THEN "hit" ELSE "miss"
OutcomeFor(q, runs, scores) ==
  [id |-> q.id, category |-> q.category,
   correct |-> IF IsCorrect(scores[q.id]) THEN "hit" ELSE "miss", gold_hit |-> GoldHitOf(q, runs)]

LEMMA OutcomesAre ==
  ASSUME NEW questions, NEW runs, NEW scores, Reported(questions, runs, scores)
  PROVE  ToSet(QuestionOutcomes(questions, runs, scores))
           = {OutcomeFor(q, runs, scores) : q \in ToSet(questions)}
<1> DEFINE K == {i \in DOMAIN questions : questions[i].id \in DOMAIN scores}
           n == Len(questions)
           outcome(q) == [id |-> q.id, category |-> q.category,
                          correct |-> IF IsCorrect(scores[q.id]) THEN "hit" ELSE "miss",
                          gold_hit |-> IF q.gold = {} \/ q.id \notin DOMAIN runs THEN "none"
                                       ELSE IF runs[q.id].error THEN "none"
                                       ELSE IF GoldRanks(q, runs) # {} THEN "hit" ELSE "miss"]
<1>1. questions \in Seq(Question) BY DEF Reported
<1>2. n \in Nat /\ DOMAIN questions = 1..n BY <1>1, LenProperties
<1>3. \A i \in 1..n : questions[i] \in ToSet(questions) BY <1>2 DEF ToSet
<1>4. \A q \in ToSet(questions) : q.id \in DOMAIN runs /\ q.id \in DOMAIN scores
  <2>1. Report(ToSet(questions), runs, scores) BY ReportIs
  <2>. QED BY <2>1 DEF Report
<1>5. K = DOMAIN questions BY <1>2, <1>3, <1>4
<1>6. At(questions, K) = questions BY <1>1, <1>5, AtAll
<1>7. QuestionOutcomes(questions, runs, scores) = [i \in DOMAIN questions |-> outcome(questions[i])]
  <2> DEFINE scored == At(questions, K)
  <2>1. QuestionOutcomes(questions, runs, scores) = [i \in DOMAIN scored |-> outcome(scored[i])]
    BY DEF QuestionOutcomes
  <2>. HIDE DEF outcome, K
  <2>. QED BY <1>6, <2>1
<1>8. \A q \in ToSet(questions) : outcome(q) = OutcomeFor(q, runs, scores)
  <2>. SUFFICES ASSUME NEW q \in ToSet(questions) PROVE outcome(q) = OutcomeFor(q, runs, scores)
    OBVIOUS
  <2>1. q.id \in DOMAIN runs BY <1>4
  <2>. QED BY <2>1 DEF OutcomeFor, GoldHitOf
<1>. HIDE DEF outcome, K
<1>9. ToSet(QuestionOutcomes(questions, runs, scores)) = {outcome(questions[i]) : i \in 1..n}
  BY <1>2, <1>7 DEF ToSet
<1>10. ToSet(questions) = {questions[i] : i \in 1..n} BY <1>2 DEF ToSet
<1>11. {outcome(questions[i]) : i \in 1..n} = {OutcomeFor(q, runs, scores) : q \in ToSet(questions)}
  <2>1. \A i \in 1..n : outcome(questions[i]) = OutcomeFor(questions[i], runs, scores)
    BY <1>3, <1>8
  <2>. QED BY <1>10, <2>1
<1>. QED BY <1>9, <1>11

(* Its rates are means over the questions. *)
LEMMA RatesOfOutcomes ==
  ASSUME NEW questions, NEW runs, NEW scores, Reported(questions, runs, scores)
  PROVE  /\ RateOf(QuestionOutcomes(questions, runs, scores), "a", "gold_hit")
              = MeanOf([q \in GoldBearing(questions, runs) |-> AsNumber(GoldRanks(q, runs) # {})])
         /\ RateOf(QuestionOutcomes(questions, runs, scores), "a", "correct")
              = MeanOf([q \in ToSet(questions) |-> AsNumber(IsCorrect(scores[q.id]))])
<1> DEFINE Q == ToSet(questions)
           outcomes == QuestionOutcomes(questions, runs, scores)
           out(q) == OutcomeFor(q, runs, scores)
<1>1. ToSet(outcomes) = {out(q) : q \in Q} BY OutcomesAre
<1>2. /\ IsFiniteSet(Q) /\ \A q, r \in Q : q.id = r.id => q = r BY ReportIs DEF Report
<1>3. \A q \in Q : q.category = "a" BY DEF Reported
<1>4. \A q \in Q : /\ out(q).id = q.id /\ out(q).category = "a"
                   /\ out(q)["correct"] = (IF IsCorrect(scores[q.id]) THEN "hit" ELSE "miss")
                   /\ out(q)["gold_hit"] = GoldHitOf(q, runs)
  BY <1>3 DEF OutcomeFor
<1>. HIDE DEF out, outcomes
<1>5. \A q, r \in Q : out(q) = out(r) => q = r BY <1>2, <1>4
<1>6. RateOf(outcomes, "a", "gold_hit")
        = MeanOf([q \in GoldBearing(questions, runs) |-> AsNumber(GoldRanks(q, runs) # {})])
  <2> DEFINE S == GoldBearing(questions, runs)
             R == Known(outcomes, "gold_hit")
             f == [o \in R |-> AsNumber(o["gold_hit"] = "hit")]
             h == [q \in S |-> AsNumber(GoldRanks(q, runs) # {})]
             p == [q \in S |-> out(q)]
  <2>1. /\ IsFiniteSet(S) /\ S \subseteq Q
        /\ \A q \in Q : q \in S <=> q.gold # {} /\ ~runs[q.id].error
    BY GoldBearingIs
  <2>2. \A q \in Q : /\ (q \in S <=> GoldHitOf(q, runs) # "none")
                     /\ (q \in S => (GoldHitOf(q, runs) = "hit" <=> GoldRanks(q, runs) # {}))
    <3>. HIDE DEF S
    <3>. QED BY <2>1 DEF GoldHitOf
  <2>. HIDE DEF S
  <2>3. \A x \in R : x \in ToSet(outcomes) /\ x["gold_hit"] # "none" BY DEF Known
  <2>4. \A x \in ToSet(outcomes) : x["gold_hit"] # "none" => x \in R BY DEF Known
  <2>5. p \in [S -> R]
    <3>1. ASSUME NEW q \in S PROVE out(q) \in R
      <4>1. out(q) \in ToSet(outcomes) /\ out(q)["gold_hit"] # "none" BY <1>1, <1>4, <2>1, <2>2
      <4>. QED BY <2>4, <4>1
    <3>. QED BY <3>1
  <2>6. \A y \in R : \E q \in S : p[q] = y
    <3>. SUFFICES ASSUME NEW y \in R PROVE \E q \in S : p[q] = y OBVIOUS
    <3>1. PICK q \in Q : out(q) = y BY <1>1, <2>3
    <3>2. q \in S BY <1>4, <2>2, <2>3, <3>1
    <3>. QED BY <3>1, <3>2
  <2>7. \A q, r \in S : p[q] = p[r] => q = r BY <1>5, <2>1
  <2>8. \A q \in S : h[q] = f[p[q]]
    <3>. SUFFICES ASSUME NEW q \in S PROVE h[q] = f[p[q]] OBVIOUS
    <3>1. p[q] \in R /\ p[q]["gold_hit"] = GoldHitOf(q, runs) BY <1>4, <2>1, <2>5
    <3>2. f[p[q]] = AsNumber(GoldHitOf(q, runs) = "hit") BY <3>1
    <3>3. GoldHitOf(q, runs) = "hit" <=> GoldRanks(q, runs) # {} BY <2>1, <2>2
    <3>. QED BY <3>2, <3>3 DEF AsNumber
  <2>9. f \in [R -> Int] /\ h \in [S -> Int] BY DEF AsNumber
  <2>10. {o \in R : o.category = "a"} = R BY <1>1, <1>4, <2>3
  <2>11. RateOf(outcomes, "a", "gold_hit") = MeanOf(f) BY <2>10 DEF RateOf
  <2>. HIDE DEF R, f, h, p
  <2>12. Renames(p, h, f, S, R) BY <2>5, <2>6, <2>7, <2>8, <2>9 DEF Renames
  <2>13. MeanOf(h) = MeanOf(f) BY <2>1, <2>12, MeanOfRenamed
  <2>. QED BY <2>11, <2>13 DEF h, S
<1>7. RateOf(outcomes, "a", "correct")
        = MeanOf([q \in Q |-> AsNumber(IsCorrect(scores[q.id]))])
  <2> DEFINE R == Known(outcomes, "correct")
             f == [o \in R |-> AsNumber(o["correct"] = "hit")]
             h == [q \in Q |-> AsNumber(IsCorrect(scores[q.id]))]
             p == [q \in Q |-> out(q)]
  <2>1. R = {out(q) : q \in Q}
    <3>1. R = {o \in ToSet(outcomes) : o["correct"] # "none"} BY DEF Known
    <3>2. \A o \in ToSet(outcomes) : o["correct"] # "none" BY <1>1, <1>4
    <3>. QED BY <1>1, <3>1, <3>2
  <2>2. p \in [Q -> R] /\ (\A y \in R : \E q \in Q : p[q] = y) /\ \A q, r \in Q : p[q] = p[r] => q = r
    <3>. HIDE DEF R
    <3>. QED BY <1>5, <2>1
  <2>3. \A q \in Q : h[q] = f[p[q]]
    <3>. SUFFICES ASSUME NEW q \in Q PROVE h[q] = f[p[q]] OBVIOUS
    <3>1. p[q] \in R /\ p[q]["correct"] = (IF IsCorrect(scores[q.id]) THEN "hit" ELSE "miss")
      BY <1>4, <2>2
    <3>2. f[p[q]] = AsNumber(p[q]["correct"] = "hit") BY <3>1
    <3>. QED BY <3>1, <3>2 DEF AsNumber
  <2>4. f \in [R -> Int] /\ h \in [Q -> Int] BY DEF AsNumber
  <2>5. {o \in R : o.category = "a"} = R BY <1>4, <2>1
  <2>6. RateOf(outcomes, "a", "correct") = MeanOf(f) BY <2>5 DEF RateOf
  <2>. HIDE DEF R, f, h, p, Q
  <2>7. Renames(p, h, f, Q, R) BY <2>2, <2>3, <2>4 DEF Renames
  <2>8. MeanOf(h) = MeanOf(f) BY <1>2, <2>7, MeanOfRenamed
  <2>. QED BY <2>6, <2>8 DEF h
<1>. QED BY <1>6, <1>7 DEF outcomes

(* Recall, reciprocal ranks and precision (eval/metrics.py). *)
RanksAgree(questions, runs) ==
  LET recall == RecallAtK(questions, runs)
      mrr == MeanReciprocalRank(questions, runs)
      precision == PrecisionAtK(questions, runs)
  IN /\ recall # Nothing => /\ mrr[2] = recall[2] /\ mrr[1] <= Scale * recall[1]
                            /\ (mrr[1] = 0) = (recall[1] = 0)
     /\ precision # Nothing => (precision[1] = 0) = (recall[1] = 0)

LEMMA RanksOfReports ==
  ASSUME NEW questions, NEW runs, NEW scores, Reported(questions, runs, scores)
  PROVE  RanksAgree(questions, runs)
<1> DEFINE S == GoldBearing(questions, runs)
           ranks(q) == GoldRanks(q, runs)
           u(q) == runs[q.id].retrieved
           W == {q \in S : u(q) # <<>>}
           hit == [q \in S |-> AsNumber(ranks(q) # {})]
           rr == [q \in S |-> IF ranks(q) = {} THEN 0 ELSE Scale \div Min(ranks(q))]
           share == [q \in W |-> (Scale * Cardinality(ranks(q))) \div Len(u(q))]
           recall == RecallAtK(questions, runs)
           mrr == MeanReciprocalRank(questions, runs)
           precision == PrecisionAtK(questions, runs)
<1>1. IsFiniteSet(S) /\ S \subseteq ToSet(questions) BY GoldBearingIs
<1>2. recall = MeanOf(hit) /\ mrr = MeanOf(rr) /\ precision = MeanOf(share)
  BY DEF RecallAtK, MeanReciprocalRank, PrecisionAtK
<1>3. ASSUME NEW q \in S
      PROVE  /\ Len(u(q)) \in Nat /\ u(q) \in Seq(Record) /\ IsFiniteSet(ranks(q))
             /\ ranks(q) \subseteq 1 .. Len(u(q)) /\ Cardinality(ranks(q)) \in Nat
             /\ (Cardinality(ranks(q)) = 0 <=> ranks(q) = {})
             /\ \A k \in 1 .. Len(u(q)) : k <= Scale /\ Scale \div k \in Nat \ {0}
  <2>1. q \in ToSet(questions) BY <1>1
  <2>. HIDE DEF S
  <2>. QED BY <2>1, GoldRanksAre
<1>4. ASSUME NEW q \in S
      PROVE  /\ hit[q] \in {0, 1} /\ (hit[q] = 0 <=> ranks(q) = {})
             /\ rr[q] \in Nat /\ rr[q] <= Scale * hit[q] /\ (rr[q] = 0 <=> ranks(q) = {})
  <2> DEFINE G == ranks(q)
             low == Min(G)
  <2>1. hit[q] = AsNumber(G # {}) /\ rr[q] = IF G = {} THEN 0 ELSE Scale \div low OBVIOUS
  <2>2. hit[q] \in {0, 1} /\ (hit[q] = 0 <=> G = {}) BY <2>1 DEF AsNumber
  <2>3. /\ G \subseteq 1 .. Len(u(q)) /\ Len(u(q)) \in Nat
        /\ \A k \in 1 .. Len(u(q)) : k <= Scale /\ Scale \div k \in Nat \ {0}
    BY <1>3
  <2>. HIDE DEF S, G, hit, rr, u, low
  <2>4. CASE G = {}
    <3>1. rr[q] = 0 /\ hit[q] = 0 /\ Scale \in Nat BY <2>1, <2>2, <2>4, ScaleIsPositive
    <3>. QED BY <2>2, <2>4, <3>1 DEF G
  <2>5. CASE G # {}
    <3>1. G \in SUBSET Nat BY <2>3
    <3>2. low \in G BY <2>5, <3>1, MinIs DEF low
    <3>3. low \in 1 .. Len(u(q)) /\ low \in Nat \ {0} BY <2>3, <3>2
    <3>4. rr[q] = Scale \div low /\ hit[q] = 1 /\ Scale \in Nat
      BY <2>1, <2>2, <2>5, ScaleIsPositive
    <3>5. rr[q] \in Nat \ {0} BY <2>3, <3>3, <3>4
    <3>6. Scale \div low <= Scale
      <4>1. Scale \div low <= Scale \div 1
        <5>1. 1 \in Nat \ {0} /\ 1 <= low BY <3>3
        <5>. QED BY <3>3, <3>4, <5>1, QuotientShrinks
      <4>2. Scale \div 1 = Scale BY <3>4
      <4>. QED BY <4>1, <4>2
    <3>7. rr[q] <= Scale * hit[q] BY <3>4, <3>6
    <3>. QED BY <2>2, <2>5, <3>5, <3>7 DEF G
  <2>. QED BY <2>4, <2>5
<1>5. hit \in [S -> Nat] /\ hit \in [S -> Int] /\ rr \in [S -> Nat] /\ rr \in [S -> Int]
  <2>1. \A q \in S : hit[q] \in {0, 1} /\ rr[q] \in Nat BY <1>4
  <2>2. \A q \in S : hit[q] \in Nat BY <2>1
  <2>3. hit = [q \in S |-> hit[q]] /\ rr = [q \in S |-> rr[q]] OBVIOUS
  <2>. HIDE DEF hit, rr, S
  <2>4. hit \in [S -> Nat] /\ rr \in [S -> Nat] BY <2>1, <2>2, <2>3
  <2>. QED BY <2>4
<1>6. ASSUME NEW q \in W
      PROVE  q \in S /\ share[q] \in Nat /\ (share[q] = 0 <=> ranks(q) = {})
  <2> DEFINE n == Len(u(q))
             g == Cardinality(ranks(q))
  <2>1. q \in S /\ u(q) # <<>> /\ share[q] = (Scale * g) \div n OBVIOUS
  <2>2. /\ n \in Nat /\ g \in Nat /\ (g = 0 <=> ranks(q) = {}) /\ u(q) \in Seq(Record)
        /\ \A k \in 1..n : k <= Scale
    BY <1>3, <2>1
  <2>. HIDE DEF S, ranks, u, share
  <2>3. n # 0 BY <2>1, <2>2, EmptySeq
  <2>. HIDE DEF n, g
  <2>4. Scale \in Nat /\ n \in Nat \ {0} /\ n <= Scale
    <3>1. n \in 1..n BY <2>2, <2>3
    <3>. QED BY <2>2, <2>3, <3>1, ScaleIsPositive
  <2>5. CASE g = 0
    <3>1. Scale * g = 0 /\ 0 \div n = 0 BY <2>4, <2>5
    <3>. QED BY <2>1, <2>2, <2>5, <3>1
  <2>6. CASE g # 0
    <3> DEFINE s == Scale * g
    <3>1. Scale * 1 <= Scale * g
      <4>1. 1 <= g BY <2>2, <2>6
      <4>. QED BY <2>2, <2>4, <4>1, ProductGrows
    <3>2. s \in Nat /\ n <= s BY <2>2, <2>4, <3>1
    <3>. HIDE DEF s
    <3>3. s \div n \in Nat \ {0}
      <4>1. s \div s <= s \div n /\ s \div n \in Nat BY <2>4, <3>2, QuotientShrinks
      <4>2. s \div s = 1 BY <2>4, <3>2
      <4>. QED BY <4>1, <4>2
    <3>4. share[q] \in Nat \ {0} BY <2>1, <3>3 DEF s
    <3>. QED BY <2>1, <2>2, <2>6, <3>4
  <2>. QED BY <2>5, <2>6
<1>7. share \in [W -> Nat] /\ share \in [W -> Int]
  <2>1. \A q \in W : share[q] \in Nat BY <1>6
  <2>2. share = [q \in W |-> share[q]] OBVIOUS
  <2>. HIDE DEF W, share
  <2>3. share \in [W -> Nat] BY <2>1, <2>2
  <2>. QED BY <2>3
<1>8. \A q \in S : ranks(q) # {} => q \in W
  <2>. SUFFICES ASSUME NEW q \in S, ranks(q) # {}, u(q) = <<>> PROVE FALSE OBVIOUS
  <2>1. ranks(q) \subseteq 1 .. Len(u(q)) /\ Len(u(q)) = 0
    <3>1. ranks(q) \subseteq 1 .. Len(u(q)) BY <1>3
    <3>. QED BY <3>1
  <2>. QED BY <2>1
<1>9. IsFiniteSet(W) /\ W \subseteq S
  <2>1. W \subseteq S OBVIOUS
  <2>. HIDE DEF W, S
  <2>. QED BY <1>1, <2>1, FS_Subset
<1>10. IsMean(recall, hit, S) /\ IsMean(mrr, rr, S) /\ IsMean(precision, share, W)
  <2>. HIDE DEF S, W, hit, rr, share, recall, mrr, precision
  <2>. QED BY <1>1, <1>2, <1>5, <1>7, <1>9, MeanIs
<1>. HIDE DEF S, W, hit, rr, share, recall, mrr, precision
<1>11. /\ Total(hit) \in Nat /\ (Total(hit) = 0 <=> \A q \in S : hit[q] = 0)
       /\ Total(rr) \in Nat /\ (Total(rr) = 0 <=> \A q \in S : rr[q] = 0)
       /\ Total(share) \in Nat /\ (Total(share) = 0 <=> \A q \in W : share[q] = 0)
  BY <1>1, <1>5, <1>7, <1>9, TotalIsZero
<1>12. Total(hit) = 0 <=> \A q \in S : ranks(q) = {} BY <1>4, <1>11
<1>13. Total(rr) = 0 <=> \A q \in S : ranks(q) = {} BY <1>4, <1>11
<1>14. Total(share) = 0 <=> \A q \in S : ranks(q) = {} BY <1>6, <1>8, <1>9, <1>11
<1>15. Total(rr) <= Scale * Total(hit)
  <2> DEFINE g == [q \in S |-> Scale * hit[q]]
  <2>1. \A q \in S : hit[q] \in Nat /\ rr[q] \in Nat /\ rr[q] <= Scale * hit[q] BY <1>4
  <2>2. Scale \in Nat BY ScaleIsPositive
  <2>3. \A q \in S : g[q] = Scale * hit[q] /\ g[q] \in Nat BY <2>1, <2>2
  <2>4. g \in [S -> Nat] /\ g \in [S -> Int]
    <3>1. g = [q \in S |-> g[q]] OBVIOUS
    <3>. HIDE DEF g
    <3>2. g \in [S -> Nat] BY <2>3, <3>1
    <3>. QED BY <3>2
  <2>. HIDE DEF g
  <2>5. Times(g, Scale, hit, S) BY <1>5, <2>2, <2>3, <2>4 DEF Times
  <2>6. Total(g) = Scale * Total(hit) BY <1>1, <2>5, TotalTimes
  <2>7. \A q \in S : rr[q] <= g[q] BY <2>1, <2>3
  <2>8. Total(rr) <= Total(g)
    <3>1. S \in SUBSET S OBVIOUS
    <3>. QED BY <1>1, <1>5, <2>4, <2>7, <3>1, TotalGrows
  <2>. QED BY <2>6, <2>8
<1>16. recall # Nothing => /\ mrr[2] = recall[2] /\ mrr[1] <= Scale * recall[1]
                           /\ (mrr[1] = 0) = (recall[1] = 0)
  <2>. SUFFICES ASSUME recall # Nothing PROVE /\ mrr[2] = recall[2] /\ mrr[1] <= Scale * recall[1]
                                              /\ (mrr[1] = 0) = (recall[1] = 0)
    OBVIOUS
  <2>1. recall = <<Total(hit), Cardinality(S)>> /\ mrr = <<Total(rr), Cardinality(S)>>
    BY <1>10 DEF IsMean
  <2>2. recall[1] = Total(hit) /\ mrr[1] = Total(rr) /\ mrr[2] = recall[2] BY <2>1
  <2>. QED BY <1>12, <1>13, <1>15, <2>2
<1>17. precision # Nothing => (precision[1] = 0) = (recall[1] = 0)
  <2>. SUFFICES ASSUME precision # Nothing PROVE (precision[1] = 0) = (recall[1] = 0) OBVIOUS
  <2>1. W # {} /\ S # {} BY <1>9, <1>10 DEF IsMean
  <2>2. recall = <<Total(hit), Cardinality(S)>> /\ precision = <<Total(share), Cardinality(W)>>
    BY <1>10, <2>1 DEF IsMean
  <2>. QED BY <1>12, <1>14, <2>2
<1>. QED BY <1>16, <1>17 DEF RanksAgree, recall, mrr, precision

(* A call for a report has a report's questions, runs and scores. *)
LEMMA CallsAreReported ==
  ASSUME InputsStayCalls, subject = "report"
  PROVE  Reported(input.questions, input.runs, input.scores)
<1>1. LET ids == {q.id : q \in ToSet(input.questions)}
      IN /\ input.questions \in Seq(Question) /\ input.questions # <<>>
         /\ \A i, j \in DOMAIN input.questions : input.questions[i].id = input.questions[j].id => i = j
         /\ \A q \in ToSet(input.questions) : q.category = "a"
         /\ input.runs \in [ids -> QuestionRun] /\ input.scores \in [ids -> Score]
         /\ \A id \in ids :
              LET run == input.runs[id]
              IN /\ run.ms.retrieval <= run.ms.total /\ run.ms.generation <= run.ms.total
                 /\ \A n \in DOMAIN run.retrieved : Scale % n = 0
  BY MeasuresAreTyped DEF InputsStayCalls
<1>. QED BY <1>1 DEF Reported, IdsOf

LEMMA RecallOfCalls == InputsStayCalls => RecallIsShareOfHits
<1>. SUFFICES ASSUME InputsStayCalls, subject = "report" PROVE RecallIsShareOfHits
  BY DEF RecallIsShareOfHits
<1> DEFINE questions == input.questions
           runs == input.runs
           scores == input.scores
<1>1. Reported(questions, runs, scores) BY CallsAreReported
<1>. HIDE DEF questions, runs, scores
<1>2. RecallAtK(questions, runs) = RateOf(QuestionOutcomes(questions, runs, scores), "a", "gold_hit")
  BY <1>1, RatesOfOutcomes DEF RecallAtK
<1>3. RanksAgree(questions, runs) BY <1>1, RanksOfReports
<1>. QED BY <1>2, <1>3 DEF RecallIsShareOfHits, RanksAgree, questions, runs, scores

(* What a rate counts, and what it counts it over. *)
Over(rate) == IF rate = Nothing THEN 0 ELSE rate[2]
Hits(rate) == IF rate = Nothing THEN 0 ELSE rate[1]

LEMMA CountsOfMean ==
  ASSUME NEW S, IsFiniteSet(S), NEW f, f \in [S -> Int]
  PROVE  Over(MeanOf(f)) = Cardinality(S) /\ Hits(MeanOf(f)) = Total(f)
<1> DEFINE v == MeanOf(f)
<1>1. IsMean(v, f, S) BY MeanIs
<1>2. S = {} => Total(f) = 0 /\ Cardinality(S) = 0
  <2>1. Adds(f, S) BY TotalAdds
  <2>. QED BY <2>1, FS_EmptySet DEF Adds
<1>. HIDE DEF v
<1>3. ASSUME S = {} PROVE Over(v) = Cardinality(S) /\ Hits(v) = Total(f)
  BY <1>1, <1>2, <1>3 DEF IsMean, Over, Hits
<1>4. ASSUME S # {} PROVE Over(v) = Cardinality(S) /\ Hits(v) = Total(f)
  <2>1. v # Nothing /\ v = <<Total(f), Cardinality(S)>> BY <1>1, <1>4 DEF IsMean
  <2>2. v[1] = Total(f) /\ v[2] = Cardinality(S) BY <2>1
  <2>. QED BY <2>1, <2>2 DEF Over, Hits
<1>. QED BY <1>3, <1>4 DEF v

(* The questions that ran, and their runs. *)
RanOf(Q, runs) == {q \in Q : ~runs[q.id].error}

LEMMA RanIs ==
  ASSUME NEW Q, NEW runs, NEW scores, Report(Q, runs, scores)
  PROVE  /\ IsFiniteSet(RanOf(Q, runs)) /\ IsFiniteSet(Answered(runs)) /\ Answered(runs) \subseteq DOMAIN runs
         /\ Cardinality(Answered(runs)) = Cardinality(RanOf(Q, runs))
         /\ \A q \in RanOf(Q, runs) : q \in Q /\ q.id \in Answered(runs)
         /\ \A id \in Answered(runs) : \E q \in RanOf(Q, runs) : q.id = id
         /\ \A q \in Q : q \in RanOf(Q, runs) <=> ~runs[q.id].error
<1> DEFINE R == RanOf(Q, runs)
           A == Answered(runs)
           f == [q \in R |-> q.id]
<1>1. /\ IsFiniteSet(Q) /\ \A q, r \in Q : q.id = r.id => q = r
      /\ DOMAIN runs = {q.id : q \in Q} /\ IsFiniteSet(DOMAIN runs)
  BY DEF Report
<1>2. /\ \A q : q \in R <=> q \in Q /\ ~runs[q.id].error
      /\ \A id : id \in A <=> id \in DOMAIN runs /\ ~runs[id].error
      /\ R \subseteq Q /\ A \subseteq DOMAIN runs
  BY DEF RanOf, Answered
<1>. HIDE DEF R, A
<1>3. f \in [R -> A] /\ (\A y \in A : \E q \in R : f[q] = y) /\ \A q, r \in R : f[q] = f[r] => q = r
  BY <1>1, <1>2
<1>4. IsFiniteSet(R) /\ IsFiniteSet(A) BY <1>1, <1>2, FS_Subset
<1>. HIDE DEF f
<1>5. Cardinality(A) = Cardinality(R) BY <1>3, <1>4, ImageOf
<1>. QED BY <1>1, <1>2, <1>4, <1>5 DEF R, A

(* Abstention is right or wrong of every question that ran. *)
LEMMA AbstentionsCount ==
  ASSUME NEW questions, NEW runs, NEW scores, Reported(questions, runs, scores)
  PROVE  Over(AbstentionRate(questions, runs, TRUE)) + Over(AbstentionRate(questions, runs, FALSE))
           = Cardinality(Answered(runs))
<1> DEFINE Q == ToSet(questions)
           R == RanOf(Q, runs)
           S(should) == {q \in Q : q.abstain = should /\ q.id \in DOMAIN runs /\ ~runs[q.id].error}
           f(should) == [q \in S(should) |-> AsNumber(runs[q.id].abstained)]
<1>1. Report(Q, runs, scores) BY ReportIs
<1>2. /\ IsFiniteSet(Q) /\ IsFiniteSet(R) /\ Cardinality(Answered(runs)) = Cardinality(R)
      /\ \A q \in Q : q \in R <=> ~runs[q.id].error
      /\ \A q \in R : q \in Q
  BY <1>1, RanIs DEF Report
<1>3. \A q \in Q : q.id \in DOMAIN runs /\ q.abstain \in BOOLEAN BY <1>1 DEF Report, Question
<1>4. ASSUME NEW should \in BOOLEAN
      PROVE  /\ IsFiniteSet(S(should)) /\ f(should) \in [S(should) -> Int]
             /\ AbstentionRate(questions, runs, should) = MeanOf(f(should))
  <2>1. S(should) \subseteq Q OBVIOUS
  <2>2. IsFiniteSet(S(should)) BY <1>2, <2>1, FS_Subset
  <2>3. f(should) \in [S(should) -> Int] BY DEF AsNumber
  <2>. QED BY <2>2, <2>3 DEF AbstentionRate
<1>5. ASSUME NEW should \in BOOLEAN
      PROVE  Over(AbstentionRate(questions, runs, should)) = Cardinality(S(should))
  <2> DEFINE T == S(should)
             g == f(should)
  <2>1. IsFiniteSet(T) /\ g \in [T -> Int] /\ AbstentionRate(questions, runs, should) = MeanOf(g)
    BY <1>4
  <2>. HIDE DEF T, g
  <2>2. Over(MeanOf(g)) = Cardinality(T) BY <2>1, CountsOfMean
  <2>. QED BY <2>1, <2>2 DEF T
<1> DEFINE T == S(TRUE)
           F == S(FALSE)
<1>6. R = T \cup F /\ T \cap F = {}
  <2>1. \A q \in Q : q \in R <=> (q \in T \/ q \in F)
    <3>. HIDE DEF R
    <3>. QED BY <1>2, <1>3
  <2>2. T \subseteq Q /\ F \subseteq Q /\ R \subseteq Q
    <3>. HIDE DEF R
    <3>. QED BY <1>2
  <2>3. T \cap F = {} OBVIOUS
  <2>. HIDE DEF R, T, F
  <2>. QED BY <2>1, <2>2, <2>3
<1>7. IsFiniteSet(T) /\ IsFiniteSet(F) BY <1>4
<1>8. /\ Over(AbstentionRate(questions, runs, TRUE)) = Cardinality(T)
      /\ Over(AbstentionRate(questions, runs, FALSE)) = Cardinality(F)
  BY <1>5
<1>. HIDE DEF R, T, F
<1>9. Cardinality(R) = Cardinality(T) + Cardinality(F)
  <2>1. Cardinality(T \cup F) = Cardinality(T) + Cardinality(F) - Cardinality(T \cap F)
    BY <1>7, FS_Union
  <2>2. Cardinality(T) \in Nat /\ Cardinality(F) \in Nat /\ Cardinality({}) = 0
    BY <1>7, FS_CardinalityType, FS_EmptySet
  <2>3. Cardinality(T \cap F) = 0 BY <1>6, <2>2
  <2>4. Cardinality(R) = Cardinality(T \cup F) BY <1>6
  <2>. QED BY <2>1, <2>2, <2>3, <2>4
<1>. QED BY <1>2, <1>8, <1>9

(* Accuracy is that of the outcomes. *)
LEMMA AccuracyOfOutcomes ==
  ASSUME NEW questions, NEW runs, NEW scores, Reported(questions, runs, scores)
  PROVE  AnswerAccuracy(scores) = RateOf(QuestionOutcomes(questions, runs, scores), "a", "correct")
<1> DEFINE Q == ToSet(questions)
           D == DOMAIN scores
           h == [q \in Q |-> AsNumber(IsCorrect(scores[q.id]))]
           f == [id \in D |-> AsNumber(IsCorrect(scores[id]))]
           p == [q \in Q |-> q.id]
<1>1. /\ IsFiniteSet(Q) /\ D = {q.id : q \in Q} /\ \A q, r \in Q : q.id = r.id => q = r
  BY ReportIs DEF Report
<1>2. RateOf(QuestionOutcomes(questions, runs, scores), "a", "correct") = MeanOf(h)
  BY RatesOfOutcomes
<1>3. AnswerAccuracy(scores) = MeanOf(f) BY DEF AnswerAccuracy
<1>4. f \in [D -> Int] /\ h \in [Q -> Int] BY DEF AsNumber
<1>5. \A q \in Q : h[q] = f[p[q]]
  <2>. HIDE DEF Q, D
  <2>. QED BY <1>1
<1>6. p \in [Q -> D] /\ (\A y \in D : \E q \in Q : p[q] = y) /\ \A q, r \in Q : p[q] = p[r] => q = r
  <2>. HIDE DEF Q, D
  <2>. QED BY <1>1
<1>. HIDE DEF Q, D, h, f, p
<1>7. Renames(p, h, f, Q, D) BY <1>4, <1>5, <1>6 DEF Renames
<1>. QED BY <1>1, <1>2, <1>3, <1>7, MeanOfRenamed

(* The citations of the questions that ran, and what is right of them. *)
CitedOf(R, runs) == UNION {{q} \X DOMAIN runs[q.id].citations : q \in R}
RightOf(R, runs) ==
  [c \in CitedOf(R, runs) |-> AsNumber(MatchesGold(c[1], runs[c[1].id].citations[c[2]]))]

LEMMA CitedIs ==
  ASSUME NEW Q, NEW runs, NEW scores, Report(Q, runs, scores)
  PROVE  /\ IsFiniteSet(CitedOf(RanOf(Q, runs), runs))
         /\ \A c \in CitedOf(RanOf(Q, runs), runs) :
              c[1] \in RanOf(Q, runs) /\ c[2] \in 1 .. Len(runs[c[1].id].citations) /\ c = <<c[1], c[2]>>
         /\ \A q \in RanOf(Q, runs) :
              /\ runs[q.id].citations \in Seq(Record) /\ Len(runs[q.id].citations) \in Nat
              /\ \A k \in 1 .. Len(runs[q.id].citations) : <<q, k>> \in CitedOf(RanOf(Q, runs), runs)
<1> DEFINE R == RanOf(Q, runs)
           T == CitedOf(R, runs)
           d(q) == DOMAIN runs[q.id].citations
           W == {{q} \X d(q) : q \in R}
<1>1. IsFiniteSet(R) /\ \A q \in R : q.id \in DOMAIN runs
  <2>1. IsFiniteSet(R) /\ Answered(runs) \subseteq DOMAIN runs /\ \A q \in R : q.id \in Answered(runs)
    BY RanIs
  <2>. QED BY <2>1
<1>2. ASSUME NEW q \in R
      PROVE  /\ runs[q.id].citations \in Seq(Record) /\ Len(runs[q.id].citations) \in Nat
             /\ d(q) = 1 .. Len(runs[q.id].citations) /\ IsFiniteSet(d(q))
  <2>1. runs[q.id] \in QuestionRun BY <1>1 DEF Report
  <2>2. runs[q.id].citations \in Seq(Record) BY <2>1 DEF QuestionRun
  <2>3. /\ Len(runs[q.id].citations) \in Nat /\ d(q) = 1 .. Len(runs[q.id].citations)
    BY <2>2, LenProperties
  <2>4. IsFiniteSet(1 .. Len(runs[q.id].citations))
    <3> DEFINE n == Len(runs[q.id].citations)
    <3>1. n \in Int /\ 1 \in Int BY <2>3
    <3>. HIDE DEF n
    <3>2. IsFiniteSet(1..n) BY <3>1, FS_Interval
    <3>. QED BY <3>2 DEF n
  <2>. QED BY <2>2, <2>3, <2>4
<1>3. T = UNION W BY DEF CitedOf
<1>. HIDE DEF R, T
<1>4. IsFiniteSet(W)
  <2> DEFINE f == [q \in R |-> {q} \X d(q)]
  <2>1. f \in [R -> W] /\ \A y \in W : \E q \in R : f[q] = y OBVIOUS
  <2>. HIDE DEF f, W
  <2>. QED BY <1>1, <2>1, ImageOf
<1>5. \A w \in W : IsFiniteSet(w)
  <2>1. ASSUME NEW q \in R PROVE IsFiniteSet({q} \X d(q))
    <3> DEFINE e == d(q)
    <3>1. IsFiniteSet({q}) /\ IsFiniteSet(e) BY <1>2, FS_Singleton
    <3>. HIDE DEF e
    <3>2. IsFiniteSet({q} \X e) BY <3>1, FS_Product
    <3>. QED BY <3>2 DEF e
  <2>. QED BY <2>1
<1>6. IsFiniteSet(T)
  <2>. HIDE DEF W
  <2>. QED BY <1>3, <1>4, <1>5, FS_UNION
<1>7. ASSUME NEW c \in T
      PROVE  c[1] \in R /\ c[2] \in 1 .. Len(runs[c[1].id].citations) /\ c = <<c[1], c[2]>>
  <2>1. PICK q \in R : c \in {q} \X d(q) BY <1>3
  <2>2. c[1] = q /\ c[2] \in d(q) /\ c = <<c[1], c[2]>> BY <2>1
  <2>. QED BY <1>2, <2>2
<1>8. ASSUME NEW q \in R, NEW k \in 1 .. Len(runs[q.id].citations)
      PROVE  <<q, k>> \in T
  <2>1. k \in d(q) BY <1>2
  <2>2. <<q, k>> \in {q} \X d(q) BY <2>1
  <2>3. {q} \X d(q) \in W OBVIOUS
  <2>. QED BY <1>3, <2>2, <2>3
<1>. QED BY <1>2, <1>6, <1>7, <1>8 DEF R, T

(* Precision counts them all, each once. *)
LEMMA CitationsCount ==
  ASSUME NEW questions, NEW runs, NEW scores, Reported(questions, runs, scores)
  PROVE  /\ CitationPrecision(questions, runs) = MeanOf(RightOf(RanOf(ToSet(questions), runs), runs))
         /\ Over(CitationPrecision(questions, runs))
              = Total([id \in Answered(runs) |-> Len(runs[id].citations)])
         /\ Hits(CitationPrecision(questions, runs)) = Total(RightOf(RanOf(ToSet(questions), runs), runs))
<1> DEFINE Q == ToSet(questions)
           R == RanOf(Q, runs)
           A == Answered(runs)
           T == CitedOf(R, runs)
           right == RightOf(R, runs)
           key == [c \in T |-> c[1].id]
           f == [id \in A |-> Len(runs[id].citations)]
<1>1. Report(Q, runs, scores) BY ReportIs
<1>2. /\ IsFiniteSet(T)
      /\ \A c \in T : c[1] \in R /\ c[2] \in 1 .. Len(runs[c[1].id].citations) /\ c = <<c[1], c[2]>>
      /\ \A q \in R :
              /\ runs[q.id].citations \in Seq(Record) /\ Len(runs[q.id].citations) \in Nat
              /\ \A k \in 1 .. Len(runs[q.id].citations) : <<q, k>> \in T
  BY <1>1, CitedIs
<1>3. /\ IsFiniteSet(A) /\ \A q \in R : q \in Q /\ q.id \in A
      /\ \A id \in A : \E q \in R : q.id = id
  BY <1>1, RanIs
<1>4. \A q, r \in Q : q.id = r.id => q = r BY <1>1 DEF Report
<1>5. CitationPrecision(questions, runs) = MeanOf(right)
  <2> DEFINE ran == {q \in Q : q.id \in DOMAIN runs /\ ~runs[q.id].error}
             cited == UNION {{q} \X DOMAIN runs[q.id].citations : q \in ran}
             g == [c \in cited |-> AsNumber(MatchesGold(c[1], runs[c[1].id].citations[c[2]]))]
  <2>1. CitationPrecision(questions, runs) = MeanOf(g) BY DEF CitationPrecision
  <2>2. \A q \in Q : q.id \in DOMAIN runs BY <1>1 DEF Report
  <2>3. ran = R BY <2>2 DEF RanOf
  <2>4. cited = T BY <2>3 DEF CitedOf
  <2>5. g = right
    <3>. HIDE DEF cited
    <3>. QED BY <2>4 DEF RightOf
  <2>. QED BY <2>1, <2>5
<1>6. right \in [T -> Int] BY DEF RightOf, AsNumber
<1>7. Over(MeanOf(right)) = Cardinality(T) /\ Hits(MeanOf(right)) = Total(right)
  <2>. HIDE DEF right, T
  <2>. QED BY <1>2, <1>6, CountsOfMean
<1>. HIDE DEF R, A, T
<1>8. key \in [T -> A] BY <1>2, <1>3
<1>9. f \in [A -> Nat] BY <1>2, <1>3
<1>10. ASSUME NEW id \in A PROVE f[id] = Cardinality({c \in T : key[c] = id})
  <2>1. PICK q \in R : q.id = id BY <1>3
  <2> DEFINE n == Len(runs[id].citations)
             C == {c \in T : key[c] = id}
             g == [k \in 1..n |-> <<q, k>>]
  <2>2. n \in Nat /\ IsFiniteSet(1..n) /\ Cardinality(1..n) = n /\ f[id] = n
    <3>1. n \in Nat /\ f[id] = n BY <1>2, <2>1
    <3>. HIDE DEF n
    <3>2. IsFiniteSet(1..n) /\ Cardinality(1..n) = (IF 1 > n THEN 0 ELSE n - 1 + 1)
      BY <3>1, FS_Interval
    <3>. QED BY <3>1, <3>2
  <2>3. ASSUME NEW k \in 1..n PROVE <<q, k>> \in C
    <3>1. <<q, k>> \in T BY <1>2, <2>1
    <3>2. key[<<q, k>>] = id BY <2>1, <3>1
    <3>. QED BY <3>1, <3>2
  <2>4. ASSUME NEW c \in C PROVE \E k \in 1..n : <<q, k>> = c
    <3>1. c \in T /\ c[1].id = id /\ c[1] \in R BY <1>2
    <3>2. c[1] = q BY <1>3, <1>4, <2>1, <3>1
    <3>3. c[2] \in 1..n /\ c = <<q, c[2]>> BY <1>2, <2>1, <3>1, <3>2
    <3>. QED BY <3>3
  <2>5. g \in [1..n -> C] /\ (\A c \in C : \E k \in 1..n : g[k] = c) /\ \A k, l \in 1..n : g[k] = g[l] => k = l
    <3>. HIDE DEF n, C
    <3>1. \A k, l \in 1..n : <<q, k>> = <<q, l>> => k = l OBVIOUS
    <3>2. \A k \in 1..n : g[k] = <<q, k>> OBVIOUS
    <3>3. g \in [1..n -> C] BY <2>3
    <3>. HIDE DEF g
    <3>. QED BY <2>4, <3>1, <3>2, <3>3
  <2>. HIDE DEF n, C, g
  <2>6. Cardinality(C) = Cardinality(1..n) BY ZenonT(40), <2>2, <2>5, ImageOf
  <2>. QED BY <2>2, <2>6 DEF C
<1>. HIDE DEF key, f, right
<1>11. Total(f) = Cardinality(T)
  <2>1. \A id \in A : f[id] = Cardinality({c \in T : key[c] = id}) BY <1>10
  <2>2. IsFiniteSet(T) /\ IsFiniteSet(A) BY <1>2, <1>3
  <2>. QED BY ONLY <1>8, <1>9, <2>1, <2>2, CountedByKey
<1>. QED BY <1>5, <1>7, <1>11 DEF f, A, right, R

(* Where all retrieved is cited, a citation is right where recall has a    *)
(* hit.                                                                    *)
LEMMA CitationsHit ==
  ASSUME NEW questions, NEW runs, NEW scores, Reported(questions, runs, scores),
         \A id \in Answered(runs) : runs[id].citations = runs[id].retrieved
  PROVE  Hits(CitationPrecision(questions, runs)) > 0 <=> Hits(RecallAtK(questions, runs)) > 0
<1> DEFINE Q == ToSet(questions)
           R == RanOf(Q, runs)
           T == CitedOf(R, runs)
           right == RightOf(R, runs)
           S == GoldBearing(questions, runs)
           hit == [q \in S |-> AsNumber(GoldRanks(q, runs) # {})]
<1>1. Report(Q, runs, scores) BY ReportIs
<1>2. /\ IsFiniteSet(T)
      /\ \A c \in T : c[1] \in R /\ c[2] \in 1 .. Len(runs[c[1].id].citations)
      /\ \A q \in R : \A k \in 1 .. Len(runs[q.id].citations) : <<q, k>> \in T
  BY <1>1, CitedIs
<1>3. /\ \A q \in Q : q \in R <=> ~runs[q.id].error
      /\ \A q \in R : q \in Q /\ q.id \in Answered(runs)
  BY <1>1, RanIs
<1>4. /\ IsFiniteSet(S) /\ S \subseteq Q
      /\ \A q \in Q : q \in S <=> q.gold # {} /\ ~runs[q.id].error
  BY GoldBearingIs
<1>5. Hits(CitationPrecision(questions, runs)) = Total(right) BY CitationsCount
<1>6. RecallAtK(questions, runs) = MeanOf(hit) BY DEF RecallAtK
<1>7. /\ right \in [T -> Nat] /\ hit \in [S -> Nat] /\ hit \in [S -> Int]
  BY DEF RightOf, AsNumber
<1>8. \A c \in T : right[c] = 0 <=> ~MatchesGold(c[1], runs[c[1].id].citations[c[2]])
  BY DEF RightOf, AsNumber
<1>9. \A q \in S : hit[q] = 0 <=> GoldRanks(q, runs) = {} BY DEF AsNumber
<1>. HIDE DEF Q, R, T, right, S, hit
<1>10. Hits(RecallAtK(questions, runs)) = Total(hit) BY <1>4, <1>6, <1>7, CountsOfMean
<1>11. /\ Total(right) \in Nat /\ (Total(right) = 0 <=> \A c \in T : right[c] = 0)
       /\ Total(hit) \in Nat /\ (Total(hit) = 0 <=> \A q \in S : hit[q] = 0)
  BY <1>2, <1>4, <1>7, TotalIsZero
<1>12. ASSUME NEW c \in T, right[c] # 0 PROVE \E q \in S : hit[q] # 0
  <2> DEFINE q == c[1]
             k == c[2]
  <2>1. q \in R /\ q \in Q /\ runs[q.id].citations = runs[q.id].retrieved BY <1>2, <1>3
  <2>2. MatchesGold(q, runs[q.id].retrieved[k]) BY <1>8, <1>12, <2>1
  <2>3. q.gold # {} BY <2>2 DEF MatchesGold
  <2>4. q \in S BY <1>3, <1>4, <2>1, <2>3
  <2>5. k \in DOMAIN runs[q.id].retrieved
    <3>1. k \in 1 .. Len(runs[q.id].retrieved) BY <1>2, <2>1
    <3>2. DOMAIN runs[q.id].retrieved = 1 .. Len(runs[q.id].retrieved)
      BY <2>1, GoldRanksAre DEF Q
    <3>. QED BY <3>1, <3>2
  <2>6. k \in GoldRanks(q, runs) BY <2>2, <2>5 DEF GoldRanks
  <2>. QED BY <1>9, <2>4, <2>6
<1>13. ASSUME NEW q \in S, hit[q] # 0 PROVE \E c \in T : right[c] # 0
  <2>1. q \in Q /\ q \in R /\ runs[q.id].citations = runs[q.id].retrieved BY <1>3, <1>4
  <2>2. PICK k \in GoldRanks(q, runs) : TRUE BY <1>9, <1>13
  <2>3. MatchesGold(q, runs[q.id].retrieved[k]) BY <2>2 DEF GoldRanks
  <2>4. k \in 1 .. Len(runs[q.id].retrieved) BY <2>1, <2>2, GoldRanksAre DEF Q
  <2> DEFINE c == <<q, k>>
  <2>5. c \in T /\ c[1] = q /\ c[2] = k BY <1>2, <2>1, <2>4
  <2>. HIDE DEF c
  <2>6. right[c] # 0 BY <1>8, <2>1, <2>3, <2>5
  <2>. QED BY <2>5, <2>6
<1>14. Total(right) = 0 <=> Total(hit) = 0 BY <1>11, <1>12, <1>13
<1>. QED BY <1>5, <1>10, <1>11, <1>14

LEMMA RatesOfCalls == InputsStayCalls => RatesCountRuns
<1>. SUFFICES ASSUME InputsStayCalls, subject = "report" PROVE RatesCountRuns
  BY DEF RatesCountRuns
<1> DEFINE questions == input.questions
           runs == input.runs
           scores == input.scores
           A == Answered(runs)
<1>1. Reported(questions, runs, scores) BY CallsAreReported
<1>2. A = {id \in DOMAIN runs : ~runs[id].error} BY DEF Answered
<1>. HIDE DEF questions, runs, scores, A
<1>3. Over(AbstentionRate(questions, runs, TRUE)) + Over(AbstentionRate(questions, runs, FALSE))
        = Cardinality(A)
  BY <1>1, AbstentionsCount DEF A
<1>4. AnswerAccuracy(scores) = RateOf(QuestionOutcomes(questions, runs, scores), "a", "correct")
  BY <1>1, AccuracyOfOutcomes
<1>5. Over(CitationPrecision(questions, runs)) = Total([id \in A |-> Len(runs[id].citations)])
  BY <1>1, CitationsCount DEF A
<1>6. (\A id \in A : runs[id].citations = runs[id].retrieved) =>
         (Hits(CitationPrecision(questions, runs)) > 0) = (Hits(RecallAtK(questions, runs)) > 0)
  <2>. SUFFICES ASSUME \A id \in A : runs[id].citations = runs[id].retrieved
                PROVE (Hits(CitationPrecision(questions, runs)) > 0) = (Hits(RecallAtK(questions, runs)) > 0)
    OBVIOUS
  <2>1. Hits(CitationPrecision(questions, runs)) > 0 <=> Hits(RecallAtK(questions, runs)) > 0
    BY <1>1, CitationsHit DEF A
  <2>. QED BY <2>1
<1>7. RatesCountRuns =
        LET over(rate) == IF rate = Nothing THEN 0 ELSE rate[2]
            hits(rate) == IF rate = Nothing THEN 0 ELSE rate[1]
        IN (/\ over(AbstentionRate(questions, runs, TRUE))
                + over(AbstentionRate(questions, runs, FALSE)) = Cardinality(A)
            /\ AnswerAccuracy(scores) = RateOf(QuestionOutcomes(questions, runs, scores), "a", "correct")
            /\ over(CitationPrecision(questions, runs)) = Total([id \in A |-> Len(runs[id].citations)])
            /\ (\A id \in A : runs[id].citations = runs[id].retrieved) =>
                (hits(CitationPrecision(questions, runs)) > 0) = (hits(RecallAtK(questions, runs)) > 0))
  BY ONLY <1>2, subject = "report" DEF RatesCountRuns, questions, runs, scores
<1>8. /\ Over(AbstentionRate(questions, runs, TRUE))
          + Over(AbstentionRate(questions, runs, FALSE)) = Cardinality(A)
      /\ Over(CitationPrecision(questions, runs)) = Total([id \in A |-> Len(runs[id].citations)])
      /\ (\A id \in A : runs[id].citations = runs[id].retrieved) =>
            (Hits(CitationPrecision(questions, runs)) > 0) = (Hits(RecallAtK(questions, runs)) > 0)
  BY <1>3, <1>5, <1>6
<1>. QED BY ONLY <1>4, <1>7, <1>8 DEF Over, Hits

(* The line of a table without answers (run_retrieval_eval.py). *)
AskedOf(questions) == At(questions, {i \in DOMAIN questions : questions[i].gold # {}})
AloneOf(questions, retrieved) ==
  [id \in {q.id : q \in ToSet(AskedOf(questions))} |-> [error |-> FALSE, retrieved |-> retrieved[id]]]

(* The questions asked, each once. *)
LEMMA AskedIs ==
  ASSUME NEW questions, NEW runs, NEW scores, Reported(questions, runs, scores)
  PROVE  /\ Len(AskedOf(questions)) \in Nat
         /\ AskedOf(questions) \in [1 .. Len(AskedOf(questions)) -> {q \in ToSet(questions) : q.gold # {}}]
         /\ ToSet(AskedOf(questions)) = {q \in ToSet(questions) : q.gold # {}}
         /\ \A q \in {q \in ToSet(questions) : q.gold # {}} :
              \E i \in 1 .. Len(AskedOf(questions)) : AskedOf(questions)[i] = q
         /\ \A i, j \in 1 .. Len(AskedOf(questions)) : AskedOf(questions)[i] = AskedOf(questions)[j] => i = j
<1> DEFINE K == {i \in DOMAIN questions : questions[i].gold # {}}
           asked == AskedOf(questions)
           G == {q \in ToSet(questions) : q.gold # {}}
           n == Len(questions)
           m == Cardinality(K)
           e == InOrder(K)
<1>1. /\ questions \in Seq(Question)
      /\ \A i, j \in DOMAIN questions : questions[i].id = questions[j].id => i = j
  BY DEF Reported
<1>2. n \in Nat /\ DOMAIN questions = 1..n BY <1>1, LenProperties
<1>3. asked = At(questions, K) /\ K \subseteq DOMAIN questions BY DEF AskedOf
<1>4. {questions[i] : i \in K} = G BY <1>2 DEF ToSet
<1>. HIDE DEF K, G, asked, n
<1>5. IsFiniteSet(K) /\ Chosen(asked, questions, e, m, K, Question) BY <1>1, <1>3, AtIs
<1>6. asked \in Seq(Question) /\ Len(asked) = m /\ ToSet(asked) = G
  <2>1. /\ At(questions, K) \in Seq(Question) /\ Len(At(questions, K)) = Cardinality(K)
        /\ ToSet(At(questions, K)) = {questions[i] : i \in K}
    BY <1>1, <1>3, AtGives
  <2>. QED BY <1>3, <1>4, <2>1
<1>7. m \in Nat /\ DOMAIN asked = 1..m /\ Len(asked) \in Nat BY <1>6, LenProperties
<1>8. /\ e \in [1..m -> K] /\ (\A k, l \in 1..m : e[k] = e[l] => k = l)
      /\ \A k \in 1..m : asked[k] = questions[e[k]]
  <2>. HIDE DEF e, m
  <2>1. /\ Ascends(e, m, K) /\ \A k \in 1..m : asked[k] = questions[e[k]] BY <1>5 DEF Chosen
  <2>2. e \in [1..m -> K] /\ \A k, l \in 1..m : k < l => e[k] < e[l] BY <2>1 DEF Ascends
  <2>3. \A k, l \in 1..m : e[k] = e[l] => k = l
    <3>. SUFFICES ASSUME NEW k \in 1..m, NEW l \in 1..m, e[k] = e[l], k # l PROVE FALSE OBVIOUS
    <3>1. e[k] \in Int /\ e[l] \in Int BY <1>2, <1>3, <2>2
    <3>2. k < l \/ l < k BY <1>7
    <3>. QED BY <2>2, <3>1, <3>2
  <2>. QED BY <2>1, <2>2, <2>3
<1>9. \A k, l \in 1..m : asked[k] = asked[l] => k = l
  <2>. HIDE DEF e, m
  <2>1. \A i, j \in K : questions[i] = questions[j] => i = j BY <1>1, <1>3
  <2>. QED BY <1>8, <2>1
<1>10. asked \in [1..m -> G] /\ \A q \in G : \E i \in 1..m : asked[i] = q
  <2>1. ToSet(asked) = {asked[i] : i \in 1..m} BY <1>7 DEF ToSet
  <2>2. asked = [i \in 1..m |-> asked[i]] BY <1>6, <1>7
  <2>. HIDE DEF m
  <2>. QED BY <1>6, <2>1, <2>2
<1>. HIDE DEF m
<1>11. /\ Len(asked) \in Nat /\ asked \in [1 .. Len(asked) -> G]
       /\ ToSet(asked) = G
       /\ \A q \in G : \E i \in 1 .. Len(asked) : asked[i] = q
       /\ \A i, j \in 1 .. Len(asked) : asked[i] = asked[j] => i = j
  BY <1>6, <1>7, <1>9, <1>10
<1>. QED BY <1>11 DEF asked, G

(* What retrieval alone measures is what the report does. *)
LEMMA AloneIs ==
  ASSUME NEW questions, NEW runs, NEW scores, Reported(questions, runs, scores),
         \A id \in DOMAIN runs : ~runs[id].error, NEW retrieved,
         retrieved = [id \in DOMAIN runs |-> runs[id].retrieved], NEW alone, alone = AloneOf(questions, retrieved)
  PROVE  /\ GoldBearing(questions, runs) = ToSet(AskedOf(questions))
         /\ GoldBearing(AskedOf(questions), alone) = GoldBearing(questions, runs)
         /\ \A q \in GoldBearing(questions, runs) :
              /\ GoldRanks(q, alone) = GoldRanks(q, runs) /\ alone[q.id].retrieved = runs[q.id].retrieved
              /\ GoldBearing(<<q>>, alone) = {q}
<1> DEFINE Q == ToSet(questions)
           G == {q \in Q : q.gold # {}}
           asked == AskedOf(questions)
<1>1. Report(Q, runs, scores) BY ReportIs
<1>2. ToSet(asked) = G BY AskedIs
<1>3. DOMAIN runs = {q.id : q \in Q} BY <1>1 DEF Report
<1>. HIDE DEF asked
<1>4. alone = [id \in {q.id : q \in G} |-> [error |-> FALSE, retrieved |-> retrieved[id]]]
  BY <1>2 DEF AloneOf, asked
<1>5. ASSUME NEW q \in G
      PROVE  /\ q \in Q /\ q.id \in DOMAIN alone /\ ~alone[q.id].error
             /\ alone[q.id].retrieved = runs[q.id].retrieved
  <2>1. q \in Q /\ q.id \in {r.id : r \in G} OBVIOUS
  <2>2. q.id \in DOMAIN runs BY <1>3, <2>1
  <2>3. alone[q.id] = [error |-> FALSE, retrieved |-> retrieved[q.id]] /\ q.id \in DOMAIN alone
    BY <1>4, <2>1
  <2>. QED BY <2>1, <2>2, <2>3
<1>6. GoldBearing(questions, runs) = G
  <2>1. \A q \in Q : q.id \in DOMAIN runs /\ ~runs[q.id].error BY <1>3
  <2>. QED BY <2>1 DEF GoldBearing
<1>7. GoldBearing(asked, alone) = G
  <2>1. GoldBearing(asked, alone) = {q \in G : q.gold # {} /\ q.id \in DOMAIN alone /\ ~alone[q.id].error}
    BY <1>2 DEF GoldBearing
  <2>2. \A q \in G : q.gold # {} /\ q.id \in DOMAIN alone /\ ~alone[q.id].error BY <1>5
  <2>. HIDE DEF G
  <2>. QED BY <2>1, <2>2
<1>8. ASSUME NEW q \in G
      PROVE  GoldRanks(q, alone) = GoldRanks(q, runs) /\ GoldBearing(<<q>>, alone) = {q}
  <2>1. GoldRanks(q, alone) = GoldRanks(q, runs) BY <1>5 DEF GoldRanks
  <2>2. ToSet(<<q>>) = {q} BY DEF ToSet
  <2>3. GoldBearing(<<q>>, alone) = {r \in {q} : r.gold # {} /\ r.id \in DOMAIN alone /\ ~alone[r.id].error}
    BY <2>2 DEF GoldBearing
  <2>4. q.gold # {} OBVIOUS
  <2>5. q.id \in DOMAIN alone /\ ~alone[q.id].error BY <1>5
  <2>. HIDE DEF G
  <2>. QED BY <2>1, <2>3, <2>4, <2>5
<1>. HIDE DEF G
<1>. QED BY <1>2, <1>5, <1>6, <1>7, <1>8 DEF asked

(* A question's own hit. *)
LEMMA HitAlone ==
  ASSUME NEW q, NEW alone, GoldBearing(<<q>>, alone) = {q}
  PROVE  RecallAtK(<<q>>, alone) = <<1, 1>> <=> GoldRanks(q, alone) # {}
<1> DEFINE f == [x \in {q} |-> AsNumber(GoldRanks(x, alone) # {})]
           c == AsNumber(GoldRanks(q, alone) # {})
<1>1. RecallAtK(<<q>>, alone) = MeanOf(f) BY DEF RecallAtK
<1>2. f \in [{q} -> Int] /\ c \in Int /\ (\A x \in {q} : f[x] = c) /\ (c = 1 <=> GoldRanks(q, alone) # {})
  BY DEF AsNumber
<1>3. IsFiniteSet({q}) /\ Cardinality({q}) = 1 BY FS_Singleton
<1>. HIDE DEF f, c
<1>4. Total(f) = c * Cardinality({q}) BY <1>2, <1>3, TotalAlike
<1>5. Total(f) = c BY <1>2, <1>3, <1>4
<1>6. IsMean(MeanOf(f), f, {q}) BY <1>2, <1>3, MeanIs
<1>7. MeanOf(f) = <<c, 1>> BY <1>3, <1>5, <1>6 DEF IsMean
<1>. QED BY <1>1, <1>2, <1>7

LEMMA AloneOfCalls == InputsStayCalls => RetrievalAloneAgrees
<1>. SUFFICES ASSUME InputsStayCalls, subject = "report", \A id \in DOMAIN input.runs : ~input.runs[id].error
              PROVE RetrievalAloneAgrees
  BY DEF RetrievalAloneAgrees
<1> DEFINE questions == input.questions
           runs == input.runs
           scores == input.scores
           retrieved == [id \in DOMAIN runs |-> runs[id].retrieved]
           row == RetrievalRow(questions, retrieved)
           asked == AskedOf(questions)
           alone == AloneOf(questions, retrieved)
           S == GoldBearing(questions, runs)
           n == Len(asked)
           hit == [q \in S |-> AsNumber(GoldRanks(q, runs) # {})]
           hits == [i \in DOMAIN asked |-> AsNumber(RecallAtK(<<asked[i]>>, alone) = <<1, 1>>)]
<1>1. Reported(questions, runs, scores) /\ \A id \in DOMAIN runs : ~runs[id].error
  BY CallsAreReported
<1>2. row = [hits |-> hits, recall_at_k |-> RecallAtK(asked, alone),
             mrr |-> MeanReciprocalRank(asked, alone), precision_at_k |-> PrecisionAtK(asked, alone)]
  BY DEF RetrievalRow, AskedOf, AloneOf
<1>. HIDE DEF questions, runs, scores
<1>3. /\ S = ToSet(asked) /\ GoldBearing(asked, alone) = S
      /\ \A q \in S :
           /\ GoldRanks(q, alone) = GoldRanks(q, runs) /\ alone[q.id].retrieved = runs[q.id].retrieved
           /\ GoldBearing(<<q>>, alone) = {q}
  <2>. HIDE DEF retrieved, alone
  <2>1. retrieved = [id \in DOMAIN runs |-> runs[id].retrieved] /\ alone = AloneOf(questions, retrieved)
    BY DEF retrieved, alone
  <2>. QED BY <1>1, <2>1, AloneIs
<1>4. /\ n \in Nat /\ asked \in [1..n -> S] /\ (\A q \in S : \E i \in 1..n : asked[i] = q)
      /\ \A i, j \in 1..n : asked[i] = asked[j] => i = j
  <2>1. ToSet(asked) = {q \in ToSet(questions) : q.gold # {}} BY <1>1, AskedIs
  <2> DEFINE G == {q \in ToSet(questions) : q.gold # {}}
  <2>2. /\ n \in Nat /\ asked \in [1..n -> G] /\ (\A q \in G : \E i \in 1..n : asked[i] = q)
        /\ \A i, j \in 1..n : asked[i] = asked[j] => i = j
    BY <1>1, AskedIs
  <2>3. S = G BY <1>3, <2>1
  <2>. HIDE DEF S, G, asked, n
  <2>. QED BY <2>2, <2>3
<1>5. IsFiniteSet(S) BY <1>1, GoldBearingIs
<1>. HIDE DEF retrieved, row, asked, alone, S, n
<1>6. RecallAtK(asked, alone) = RecallAtK(questions, runs)
  <2>1. RecallAtK(asked, alone) = MeanOf([q \in S |-> AsNumber(GoldRanks(q, alone) # {})])
    BY <1>3 DEF RecallAtK
  <2>2. [q \in S |-> AsNumber(GoldRanks(q, alone) # {})] = hit BY <1>3
  <2>. QED BY <2>1, <2>2 DEF RecallAtK, S
<1>7. MeanReciprocalRank(asked, alone) = MeanReciprocalRank(questions, runs)
  <2> DEFINE rr(u) == [q \in S |-> IF GoldRanks(q, u) = {} THEN 0 ELSE Scale \div Min(GoldRanks(q, u))]
  <2>1. MeanReciprocalRank(asked, alone) = MeanOf(rr(alone)) BY <1>3 DEF MeanReciprocalRank
  <2>2. MeanReciprocalRank(questions, runs) = MeanOf(rr(runs)) BY DEF MeanReciprocalRank, S
  <2>3. rr(alone) = rr(runs) BY <1>3
  <2>. QED BY <2>1, <2>2, <2>3
<1>8. PrecisionAtK(asked, alone) = PrecisionAtK(questions, runs)
  <2> DEFINE W(u) == {q \in S : u[q.id].retrieved # <<>>}
             share(u) == [q \in W(u) |-> (Scale * Cardinality(GoldRanks(q, u))) \div Len(u[q.id].retrieved)]
  <2>1. PrecisionAtK(asked, alone) = MeanOf(share(alone)) BY <1>3 DEF PrecisionAtK
  <2>2. PrecisionAtK(questions, runs) = MeanOf(share(runs)) BY DEF PrecisionAtK, S
  <2>3. W(alone) = W(runs) BY <1>3
  <2>4. \A q \in W(runs) : GoldRanks(q, alone) = GoldRanks(q, runs) /\ alone[q.id].retrieved = runs[q.id].retrieved
    BY <1>3
  <2>5. share(alone) = share(runs)
    <3> DEFINE V == W(runs)
    <3>1. W(alone) = V /\ \A q \in V : GoldRanks(q, alone) = GoldRanks(q, runs)
                                      /\ alone[q.id].retrieved = runs[q.id].retrieved
      BY <2>3, <2>4
    <3>. HIDE DEF W
    <3>. QED BY <3>1
  <2>. QED BY <2>1, <2>2, <2>5
<1>9. DOMAIN asked = 1..n BY <1>4
<1>10. ASSUME NEW i \in 1..n PROVE hits[i] = hit[asked[i]]
  <2> DEFINE q == asked[i]
  <2>1. q \in S BY <1>4
  <2>. HIDE DEF q
  <2>2. GoldBearing(<<q>>, alone) = {q} /\ GoldRanks(q, alone) = GoldRanks(q, runs)
    BY <1>3, <2>1
  <2>3. RecallAtK(<<q>>, alone) = <<1, 1>> <=> GoldRanks(q, runs) # {} BY <2>2, HitAlone
  <2>4. hit[q] = AsNumber(GoldRanks(q, runs) # {}) BY <2>1
  <2>5. hits[i] = AsNumber(RecallAtK(<<q>>, alone) = <<1, 1>>) BY <1>9 DEF q
  <2>6. hits[i] = hit[q] BY <2>3, <2>4, <2>5 DEF AsNumber
  <2>. QED BY <2>6 DEF q
<1>11. hits \in [1..n -> Int] /\ hit \in [S -> Int] /\ DOMAIN hits = 1..n BY <1>9 DEF AsNumber
<1>12. RecallAtK(questions, runs) = MeanOf(hit) BY DEF RecallAtK, S
<1>. HIDE DEF hit, hits
<1>13. hits # <<>> => RecallAtK(questions, runs) = <<Total(hits), Len(hits)>>
  <2>. SUFFICES ASSUME hits # <<>> PROVE RecallAtK(questions, runs) = <<Total(hits), Len(hits)>>
    OBVIOUS
  <2>1. IsFiniteSet(1..n) /\ Cardinality(1..n) = n /\ Len(hits) = n
    <3>1. IsFiniteSet(1..n) /\ Cardinality(1..n) = IF 1 > n THEN 0 ELSE n - 1 + 1
      BY <1>4, FS_Interval
    <3>2. hits \in Seq(Int) /\ Len(hits) = n BY <1>4, <1>11
    <3>. QED BY <1>4, <3>1, <3>2
  <2>2. Renames(asked, hits, hit, 1..n, S) BY <1>4, <1>10, <1>11 DEF Renames
  <2>3. Total(hits) = Total(hit) BY <2>1, <2>2, TotalOfRenamed
  <2>4. Cardinality(S) = n BY <1>4, <2>1, ImageOf
  <2>5. S # {}
    <3>1. n # 0
      <4>. SUFFICES ASSUME n = 0 PROVE FALSE OBVIOUS
      <4>1. hits \in Seq(Int) /\ Len(hits) = 0 BY <1>4, <1>11
      <4>. QED BY <4>1, EmptySeq
    <3>2. 1 \in 1..n BY <1>4, <3>1
    <3>. QED BY <1>4, <3>2
  <2>6. IsMean(MeanOf(hit), hit, S) BY <1>5, <1>11, MeanIs
  <2>. QED BY <1>12, <2>1, <2>3, <2>4, <2>5, <2>6 DEF IsMean
<1>14. /\ row.recall_at_k = RecallAtK(questions, runs)
       /\ row.mrr = MeanReciprocalRank(questions, runs)
       /\ row.precision_at_k = PrecisionAtK(questions, runs)
       /\ row.hits # <<>> => row.recall_at_k = <<Total(row.hits), Len(row.hits)>>
  BY <1>2, <1>6, <1>7, <1>8, <1>13
<1>. QED BY ONLY <1>14 DEF RetrievalAloneAgrees, row, retrieved, questions, runs

(* Fractions in order. *)
Fraction == Int \X (Nat \ {0})
Beats(higher, v, w) == IF higher THEN Below(w, v) ELSE Below(v, w)

LEMMA TimesPositive ==
  ASSUME NEW x \in Int, NEW y \in Int, NEW d \in Nat \ {0}
  PROVE  x * d \in Int /\ y * d \in Int /\ (x < y <=> x * d < y * d)
<1>1. x * d \in Int /\ y * d \in Int /\ (y - x) * d = y * d - x * d OBVIOUS
<1> DEFINE z == y - x
<1>2. z \in Int /\ (x < y <=> z > 0) OBVIOUS
<1>3. z > 0 <=> z * d > 0
  <2>. HIDE DEF z
  <2>1. CASE z > 0
    <3>1. z - 1 \in Nat /\ (z - 1) * d \in Nat /\ z * d = (z - 1) * d + d BY <1>2, <2>1
    <3> DEFINE p == (z - 1) * d
    <3>. HIDE DEF p
    <3>2. z * d > 0 BY <3>1 DEF p
    <3>. QED BY <2>1, <3>2
  <2>2. CASE z <= 0
    <3>1. 0 - z \in Nat /\ (0 - z) * d \in Nat /\ z * d = 0 - (0 - z) * d BY <1>2, <2>2
    <3> DEFINE p == (0 - z) * d
    <3>. HIDE DEF p
    <3>2. z * d <= 0 BY <3>1 DEF p
    <3>. QED BY <1>2, <1>1, <2>2, <3>2 DEF z
  <2>. QED BY <1>2, <2>1, <2>2
<1>. QED BY <1>1, <1>2, <1>3

(* Less is what a step of products shows: a / b < c / d < e / f. *)
LEMMA BelowFollows ==
  ASSUME NEW u \in Fraction, NEW v \in Fraction, NEW w \in Fraction, Below(u, v), Below(v, w)
  PROVE  Below(u, w)
<1> DEFINE a == u[1]
           b == u[2]
           c == v[1]
           d == v[2]
           e == w[1]
           f == w[2]
<1>1. a \in Int /\ c \in Int /\ e \in Int /\ b \in Nat \ {0} /\ d \in Nat \ {0} /\ f \in Nat \ {0}
  BY DEF Fraction
<1>2. a * d < c * b /\ c * f < e * d BY DEF Below
<1>. HIDE DEF a, b, c, d, e, f
<1>3. a * d \in Int /\ c * b \in Int /\ c * f \in Int /\ e * d \in Int /\ a * f \in Int /\ e * b \in Int
  BY <1>1
<1>4. (a * d) * f < (c * b) * f BY <1>1, <1>2, <1>3, TimesPositive
<1>5. (c * f) * b < (e * d) * b BY <1>1, <1>2, <1>3, TimesPositive
<1>6. (a * d) * f = (a * f) * d /\ (c * b) * f = (c * f) * b /\ (e * d) * b = (e * b) * d
  BY <1>1
<1>7. (a * f) * d \in Int /\ (c * f) * b \in Int /\ (e * b) * d \in Int BY <1>1
<1>8. (a * f) * d < (e * b) * d BY <1>4, <1>5, <1>6, <1>7
<1>9. a * f < e * b BY <1>1, <1>3, <1>8, TimesPositive
<1>. QED BY <1>9 DEF Below, a, b, e, f

LEMMA EqualIsAlike ==
  ASSUME NEW u \in Fraction, NEW v \in Fraction, NEW w \in Fraction, Equal(v, w)
  PROVE  (Below(u, v) => Below(u, w)) /\ (Below(v, u) => Below(w, u))
<1> DEFINE a == u[1]
           b == u[2]
           c == v[1]
           d == v[2]
           e == w[1]
           f == w[2]
<1>1. a \in Int /\ c \in Int /\ e \in Int /\ b \in Nat \ {0} /\ d \in Nat \ {0} /\ f \in Nat \ {0}
  BY DEF Fraction
<1>2. c * f = e * d BY DEF Equal
<1>3. /\ (Below(u, v) <=> a * d < c * b) /\ (Below(u, w) <=> a * f < e * b)
      /\ (Below(v, u) <=> c * b < a * d) /\ (Below(w, u) <=> e * b < a * f)
  BY DEF Below
<1>. HIDE DEF a, b, c, d, e, f
<1>4. a * d \in Int /\ c * b \in Int /\ c * f \in Int /\ e * d \in Int /\ a * f \in Int /\ e * b \in Int
  BY <1>1
<1>5. (a * d) * f = (a * f) * d /\ (c * b) * f = (c * f) * b /\ (e * d) * b = (e * b) * d
  BY <1>1
<1>6. (c * b) * f = (e * b) * d BY <1>2, <1>5
<1>7. a * d < c * b => a * f < e * b
  <2>1. a * d < c * b <=> (a * d) * f < (c * b) * f BY <1>1, <1>4, TimesPositive
  <2>2. a * f < e * b <=> (a * f) * d < (e * b) * d BY <1>1, <1>4, TimesPositive
  <2>. QED BY <1>5, <1>6, <2>1, <2>2
<1>8. c * b < a * d => e * b < a * f
  <2>1. c * b < a * d <=> (c * b) * f < (a * d) * f BY <1>1, <1>4, TimesPositive
  <2>2. e * b < a * f <=> (e * b) * d < (a * f) * d BY <1>1, <1>4, TimesPositive
  <2>. QED BY <1>5, <1>6, <2>1, <2>2
<1>. QED BY <1>3, <1>7, <1>8

(* Beating is an order, and equal fractions beat and are beaten alike. *)
LEMMA BeatsIs ==
  ASSUME NEW higher \in BOOLEAN
  PROVE  /\ \A u, v, w \in Fraction : Beats(higher, u, v) /\ Beats(higher, v, w) => Beats(higher, u, w)
         /\ \A v \in Fraction : ~Beats(higher, v, v) /\ Equal(v, v)
         /\ \A u, v, w \in Fraction : Equal(v, w) /\ Beats(higher, u, v) => Beats(higher, u, w)
<1>1. \A u, v, w \in Fraction : Below(u, v) /\ Below(v, w) => Below(u, w) BY BelowFollows
<1>2. \A v \in Fraction : ~Below(v, v) /\ Equal(v, v)
  <2>. SUFFICES ASSUME NEW v \in Fraction PROVE ~Below(v, v) /\ Equal(v, v) OBVIOUS
  <2> DEFINE p == v[1] * v[2]
  <2>1. v[1] \in Int /\ v[2] \in Int BY DEF Fraction
  <2>2. p \in Int BY <2>1
  <2>3. (Below(v, v) <=> p < p) /\ (Equal(v, v) <=> p = p) BY DEF Below, Equal
  <2>. HIDE DEF p
  <2>. QED BY <2>2, <2>3
<1>3. \A u, v, w \in Fraction : Equal(v, w) => (Below(u, v) => Below(u, w)) /\ (Below(v, u) => Below(w, u))
  BY EqualIsAlike
<1>. QED BY <1>1, <1>2, <1>3 DEF Beats

(* Finitely many have a best. *)
LEMMA BestExists ==
  ASSUME NEW P, IsFiniteSet(P), P # {}, P \subseteq Fraction, NEW higher \in BOOLEAN
  PROVE  \E v \in P : \A w \in P : ~Beats(higher, w, v)
<1> DEFINE G == {T \in SUBSET P : T # {} => \E v \in T : \A w \in T : ~Beats(higher, w, v)}
<1>1. {} \in G OBVIOUS
<1>2. \A T \in SUBSET P : T # {} /\ (\A x \in T : T \ {x} \in G) => T \in G
  <2>. SUFFICES ASSUME NEW T \in SUBSET P, T # {}, \A x \in T : T \ {x} \in G
                PROVE  \E v \in T : \A w \in T : ~Beats(higher, w, v)
    OBVIOUS
  <2>1. PICK x \in T : TRUE OBVIOUS
  <2>2. x \in Fraction /\ ~Beats(higher, x, x) /\ T \subseteq Fraction BY BeatsIs
  <2>3. CASE T \ {x} = {}
    <3>1. \A w \in T : w = x BY <2>3
    <3>. QED BY <2>2, <3>1
  <2>4. CASE T \ {x} # {}
    <3>1. PICK v \in T \ {x} : \A w \in T \ {x} : ~Beats(higher, w, v) BY <2>4
    <3>2. CASE Beats(higher, x, v)
      <4>1. \A w \in T \ {x} : ~Beats(higher, w, x) BY <2>2, <3>1, <3>2, BeatsIs
      <4>. QED BY <2>2, <4>1
    <3>3. CASE ~Beats(higher, x, v) BY <3>1, <3>3
    <3>. QED BY <3>2, <3>3
  <2>. QED BY <2>3, <2>4
<1>. HIDE DEF G
<1>3. \A T \in SUBSET P : T \in G BY ONLY <1>1, <1>2, IsFiniteSet(P), FiniteInduction
<1>4. P \in G BY <1>3
<1>. QED BY <1>4 DEF G

(* The winners of a column. *)
Winners(values, higher) == {r \in DOMAIN values : Wins(values[r], Best(values, higher))}
Valued(values) == {r \in DOMAIN values : values[r] # Nothing}
WellWon(values, higher) ==
  /\ Winners(values, higher) \subseteq Valued(values)
  /\ Winners(values, higher) = {} <=> Valued(values) = {}
  /\ Best(values, higher) = Nothing <=> Valued(values) = {}
  /\ \A r \in Winners(values, higher), u \in Valued(values) : ~Beats(higher, values[u], values[r])

(* A column of a table with any rows marks a winner if it has a value, and *)
(* only winners that no other row beats (eval/matrix.py, _best).           *)
THEOREM BestIs ==
  ASSUME NEW values, IsFiniteSet(DOMAIN values), NEW higher \in BOOLEAN,
         \A r \in DOMAIN values : values[r] # Nothing => values[r] \in Fraction
  PROVE  WellWon(values, higher)
<1> DEFINE best == Best(values, higher)
           P == {values[r] : r \in DOMAIN values} \ {Nothing}
           V == Valued(values)
           W == Winners(values, higher)
<1>1. /\ P = {values[r] : r \in V} /\ V \subseteq DOMAIN values
      /\ \A r \in DOMAIN values : r \in V <=> values[r] # Nothing
  BY DEF Valued
<1>2. \A r \in DOMAIN values : r \in W <=> r \in V /\ Equal(values[r], best)
  BY <1>1 DEF Winners, Wins
<1>3. W \subseteq V BY <1>2 DEF Winners
<1>4. P \subseteq Fraction BY <1>1
<1>5. IsFiniteSet(P)
  <2> DEFINE f == [r \in V |-> values[r]]
  <2>1. IsFiniteSet(V) BY <1>1, FS_Subset
  <2>2. f \in [V -> P] /\ \A y \in P : \E r \in V : f[r] = y
    <3>. HIDE DEF P, V
    <3>. QED BY <1>1
  <2>. HIDE DEF f, P, V
  <2>. QED BY <2>1, <2>2, ImageOf
<1>6. /\ P = {} => best = Nothing
      /\ P # {} => best = CHOOSE v \in P : \A w \in P : ~Beats(higher, w, v)
  BY DEF Best, Beats
<1>7. <<>> \notin Fraction
  <2>. SUFFICES ASSUME <<>> \in Fraction PROVE FALSE OBVIOUS
  <2>1. DOMAIN <<>> = 1..2 /\ DOMAIN <<>> = {} BY DEF Fraction
  <2>. QED BY <2>1
<1>. HIDE DEF best, P, V, W
<1>8. P # {} => best \in P /\ best \in Fraction /\ \A w \in P : ~Beats(higher, w, best)
  <2>. SUFFICES ASSUME P # {} PROVE best \in P /\ best \in Fraction /\ \A w \in P : ~Beats(higher, w, best)
    OBVIOUS
  <2>1. \E v \in P : \A w \in P : ~Beats(higher, w, v) BY <1>4, <1>5, BestExists
  <2>. QED BY <1>4, <1>6, <2>1
<1>9. P = {} <=> V = {} BY <1>1
<1>10. best = Nothing <=> V = {} BY <1>6, <1>7, <1>8, <1>9 DEF Nothing
<1>11. V # {} => W # {}
  <2>. SUFFICES ASSUME V # {} PROVE W # {} OBVIOUS
  <2>1. best \in P /\ best \in Fraction BY <1>8, <1>9
  <2>2. PICK r \in V : values[r] = best BY <1>1, <2>1
  <2>3. Equal(values[r], best) BY <2>1, <2>2, BeatsIs
  <2>. QED BY <1>1, <1>2, <2>2, <2>3
<1>12. ASSUME NEW r \in W, NEW u \in V PROVE ~Beats(higher, values[u], values[r])
  <2>1. r \in V /\ Equal(values[r], best) /\ values[r] \in P /\ values[u] \in P
    BY <1>1, <1>2, <1>3
  <2>2. values[r] \in Fraction /\ values[u] \in Fraction /\ best \in Fraction /\ ~Beats(higher, values[u], best)
    BY <1>4, <1>8, <2>1
  <2>. QED BY <2>1, <2>2, BeatsIs
<1>13. WellWon(values, higher) <=>
         /\ W \subseteq V
         /\ W = {} <=> V = {}
         /\ best = Nothing <=> V = {}
         /\ \A r \in W, u \in V : ~Beats(higher, values[u], values[r])
  BY DEF WellWon, best, V, W
<1>. QED BY <1>3, <1>10, <1>11, <1>12, <1>13

(* The members of a finite set, in some order. *)
LEMMA SetToSeqIs ==
  ASSUME NEW S, IsFiniteSet(S)
  PROVE  /\ Cardinality(S) \in Nat /\ SetToSeq(S) \in [1 .. Cardinality(S) -> S]
         /\ (Cardinality(S) = 0 <=> S = {})
<1> DEFINE n == Cardinality(S)
<1>1. n \in Nat /\ ExistsBijection(1..n, S) /\ (n = 0 <=> S = {})
  BY FS_CardinalityType, FS_EmptySet
<1>. HIDE DEF n
<1>2. \E f \in [1..n -> S] : IsInjective(f) BY <1>1 DEF ExistsBijection, Bijection, Injection
<1>3. SetToSeq(S) = CHOOSE f \in [1..n -> S] : IsInjective(f) BY DEF SetToSeq, n
<1>4. SetToSeq(S) \in [1..n -> S] BY <1>2, <1>3
<1>. QED BY <1>1, <1>4 DEF n

(* The milliseconds of a phase, of the runs that did not fail. *)
MsOf(runs, phase) ==
  [i \in DOMAIN SetToSeq(Answered(runs)) |-> runs[SetToSeq(Answered(runs))[i]].ms[phase]]
Phases == {"retrieval", "generation", "total"}

LEMMA MsAre ==
  ASSUME NEW questions, NEW runs, NEW scores, Reported(questions, runs, scores), Answered(runs) # {},
         NEW n, n = Cardinality(Answered(runs)), NEW phase \in Phases
  PROVE  /\ n \in Nat \ {0} /\ MsOf(runs, phase) \in Seq(Int) /\ Len(MsOf(runs, phase)) = n
         /\ MsOf(runs, phase) \in [1..n -> Int]
         /\ \A i \in 1..n : MsOf(runs, phase)[i] <= MsOf(runs, "total")[i]
<1> DEFINE A == Answered(runs)
           s == SetToSeq(A)
           ms == MsOf(runs, phase)
<1>1. IsFiniteSet(A) /\ A \subseteq DOMAIN runs /\ DOMAIN runs = IdsOf(questions)
  <2>1. Report(ToSet(questions), runs, scores) BY ReportIs
  <2>2. IsFiniteSet(A) /\ A \subseteq DOMAIN runs BY <2>1, RanIs
  <2>. QED BY <2>2 DEF Reported
<1>2. n \in Nat \ {0} /\ s \in [1..n -> A]
  <2>. HIDE DEF A
  <2>1. Cardinality(A) \in Nat /\ SetToSeq(A) \in [1 .. Cardinality(A) -> A] /\ (Cardinality(A) = 0 <=> A = {})
    BY <1>1, SetToSeqIs
  <2>. QED BY <2>1 DEF A
<1>. HIDE DEF A, s
<1>3. \A id \in A : /\ runs[id].ms.retrieval \in Nat /\ runs[id].ms.generation \in Nat /\ runs[id].ms.total \in Nat
                    /\ runs[id].ms.retrieval <= runs[id].ms.total /\ runs[id].ms.generation <= runs[id].ms.total
  <2>. SUFFICES ASSUME NEW id \in A
                PROVE /\ runs[id].ms.retrieval \in Nat /\ runs[id].ms.generation \in Nat /\ runs[id].ms.total \in Nat
                      /\ runs[id].ms.retrieval <= runs[id].ms.total /\ runs[id].ms.generation <= runs[id].ms.total
    OBVIOUS
  <2>1. id \in IdsOf(questions) BY <1>1
  <2>2. /\ runs[id] \in QuestionRun
        /\ runs[id].ms.retrieval <= runs[id].ms.total /\ runs[id].ms.generation <= runs[id].ms.total
    BY <2>1 DEF Reported
  <2>3. runs[id].ms \in [retrieval : Nat, generation : Nat, total : Nat] BY <2>2 DEF QuestionRun
  <2>. QED BY <2>2, <2>3
<1>4. \A id \in A : runs[id].ms[phase] \in Int /\ runs[id].ms[phase] <= runs[id].ms["total"]
  BY <1>3 DEF Phases
<1>5. DOMAIN s = 1..n /\ \A i \in 1..n : s[i] \in A BY <1>2
<1>6. /\ ms = [i \in 1..n |-> runs[s[i]].ms[phase]]
      /\ MsOf(runs, "total") = [i \in 1..n |-> runs[s[i]].ms["total"]]
  BY <1>5 DEF MsOf, s, A
<1>7. ms \in [1..n -> Int] /\ \A i \in 1..n : ms[i] <= MsOf(runs, "total")[i]
  BY <1>4, <1>5, <1>6
<1>8. ms \in Seq(Int) /\ Len(ms) = n
  <2>. HIDE DEF ms
  <2>. QED BY <1>2, <1>7
<1>. QED BY <1>2, <1>7, <1>8

(* No phase takes longer than the whole. *)
LEMMA LatenciesOrdered ==
  ASSUME NEW questions, NEW runs, NEW scores, Reported(questions, runs, scores), Answered(runs) # {},
         NEW phase \in Phases, NEW p \in {50, 95}
  PROVE  /\ LatencyPercentiles(runs)[p][phase] \in Int
         /\ LatencyPercentiles(runs)[p][phase] <= LatencyPercentiles(runs)[p]["total"]
<1> DEFINE n == Cardinality(Answered(runs))
           q == MsOf(runs, phase)
           v == MsOf(runs, "total")
           o == Ascending(q)
           u == Ascending(v)
           r == (n - 1) * p
<1>1. /\ n \in Nat \ {0} /\ q \in Seq(Int) /\ Len(q) = n /\ q \in [1..n -> Int]
      /\ \A i \in 1..n : q[i] <= v[i]
  BY MsAre
<1>2. v \in Seq(Int) /\ Len(v) = n /\ v \in [1..n -> Int]
  <2>1. "total" \in Phases BY DEF Phases
  <2>. QED BY <2>1, MsAre
<1>3. LatencyPercentiles(runs)[p][phase] = Percentile(q, p) /\ LatencyPercentiles(runs)[p]["total"] = Percentile(v, p)
  <2> DEFINE answered == SetToSeq(Answered(runs))
             of(ph) == [i \in DOMAIN answered |-> runs[answered[i]].ms[ph]]
  <2>1. LatencyPercentiles(runs) = [x \in {50, 95} |-> [ph \in Phases |-> Percentile(of(ph), x)]]
    BY DEF LatencyPercentiles, Phases
  <2>2. \A ph : of(ph) = MsOf(runs, ph) BY DEF MsOf
  <2>. HIDE DEF of
  <2>3. LatencyPercentiles(runs)[p] = [ph \in Phases |-> Percentile(of(ph), p)] BY <2>1
  <2>4. "total" \in Phases BY DEF Phases
  <2>. QED BY <2>2, <2>3, <2>4
<1>4. p \in 0..100 OBVIOUS
<1>. HIDE DEF n, q, v
<1>5. Percentile(q, p) = Between(o, r) /\ Climbs(o, n) BY ZenonT(40), <1>1, <1>4, PercentileIs
<1>6. Percentile(v, p) = Between(u, r) /\ Climbs(u, n) /\ r \in 0..100 * (n - 1)
  BY ZenonT(40), <1>1, <1>2, <1>4, PercentileIs
<1>7. \A k \in 1..n : o[k] <= u[k]
  <2>1. PICK a : Sorts(o, a, q, n) BY <1>1, AscendingSorts
  <2>2. PICK b : Sorts(u, b, v, n) BY <1>1, <1>2, AscendingSorts
  <2> DEFINE s == [i \in 1..n |-> i]
  <2>3. LieUnder(q, s, v, n) BY <1>1 DEF LieUnder
  <2>. HIDE DEF o, u, s
  <2>. QED BY <2>1, <2>2, <2>3, SortedGrows
<1>. HIDE DEF o, u, r
<1>8. Between(o, r) <= Between(u, r) /\ Between(o, r) \in Int
  BY <1>5, <1>6, <1>7, BetweenIs, BetweenFollows
<1>. QED BY <1>3, <1>5, <1>6, <1>8

(* Means are fractions. *)
Rate(v) == v = Nothing \/ v \in Fraction

LEMMA MeansAreRates ==
  ASSUME NEW S, IsFiniteSet(S), NEW f, f \in [S -> Int]
  PROVE  Rate(MeanOf(f))
<1>1. IsMean(MeanOf(f), f, S) BY MeanIs
<1>2. CASE S = {} BY <1>1, <1>2 DEF IsMean, Rate
<1>3. CASE S # {}
  <2>1. /\ MeanOf(f) = <<Total(f), Cardinality(S)>> /\ Total(f) \in Int
        /\ Cardinality(S) \in Nat \ {0}
    BY <1>1, <1>3 DEF IsMean
  <2>2. MeanOf(f) \in Int \X (Nat \ {0}) BY <2>1
  <2>. QED BY <2>2 DEF Rate, Fraction
<1>. QED BY <1>2, <1>3

LEMMA RanksAreRates ==
  ASSUME NEW questions, NEW runs, NEW scores, Reported(questions, runs, scores)
  PROVE  /\ Rate(RecallAtK(questions, runs)) /\ Rate(MeanReciprocalRank(questions, runs))
         /\ Rate(PrecisionAtK(questions, runs))
<1> DEFINE S == GoldBearing(questions, runs)
           ranks(q) == GoldRanks(q, runs)
           u(q) == runs[q.id].retrieved
           W == {q \in S : u(q) # <<>>}
           hit == [q \in S |-> AsNumber(ranks(q) # {})]
           rr == [q \in S |-> IF ranks(q) = {} THEN 0 ELSE Scale \div Min(ranks(q))]
           share == [q \in W |-> (Scale * Cardinality(ranks(q))) \div Len(u(q))]
<1>1. IsFiniteSet(S) /\ S \subseteq ToSet(questions) BY GoldBearingIs
<1>2. /\ RecallAtK(questions, runs) = MeanOf(hit) /\ MeanReciprocalRank(questions, runs) = MeanOf(rr)
      /\ PrecisionAtK(questions, runs) = MeanOf(share)
  BY DEF RecallAtK, MeanReciprocalRank, PrecisionAtK
<1>3. ASSUME NEW q \in S
      PROVE  /\ Len(u(q)) \in Nat /\ (Len(u(q)) = 0 => u(q) = <<>>) /\ ranks(q) \subseteq 1 .. Len(u(q))
             /\ Cardinality(ranks(q)) \in Nat
             /\ \A k \in 1 .. Len(u(q)) : Scale \div k \in Nat
  <2>1. q \in ToSet(questions) BY <1>1
  <2>2. /\ u(q) \in Seq(Record) /\ Len(u(q)) \in Nat /\ ranks(q) \subseteq 1 .. Len(u(q))
        /\ Cardinality(ranks(q)) \in Nat
        /\ \A k \in 1 .. Len(u(q)) : Scale \div k \in Nat
    BY <2>1, GoldRanksAre
  <2>. HIDE DEF u
  <2>. QED BY <2>2, EmptySeq
<1>. HIDE DEF S, ranks, u
<1>4. hit \in [S -> Int] BY DEF AsNumber
<1>5. rr \in [S -> Int]
  <2>1. ASSUME NEW q \in S, ranks(q) # {} PROVE Scale \div Min(ranks(q)) \in Int
    <3>1. ranks(q) \in SUBSET Nat BY <1>3
    <3>2. Min(ranks(q)) \in ranks(q) BY <2>1, <3>1, MinIs
    <3>. QED BY <1>3, <3>2
  <2>. QED BY <2>1
<1>6. IsFiniteSet(W)
  <2>1. W \subseteq S OBVIOUS
  <2>. HIDE DEF W
  <2>. QED BY <1>1, <2>1, FS_Subset
<1>7. share \in [W -> Int]
  <2>1. ASSUME NEW q \in W PROVE (Scale * Cardinality(ranks(q))) \div Len(u(q)) \in Int
    <3> DEFINE m == Len(u(q))
               g == Cardinality(ranks(q))
    <3>1. m \in Nat /\ m # 0 /\ g \in Nat BY <1>3
    <3>. HIDE DEF m, g
    <3>2. Scale * g \in Nat BY <3>1, ScaleIsPositive
    <3> DEFINE s == Scale * g
    <3>. HIDE DEF s
    <3>3. s \div m \in Int BY <3>1, <3>2 DEF s
    <3>. QED BY <3>3 DEF s, m, g
  <2>. HIDE DEF W
  <2>. QED BY <2>1
<1>. HIDE DEF W, hit, rr, share
<1>8. Rate(MeanOf(hit)) /\ Rate(MeanOf(rr)) /\ Rate(MeanOf(share))
  BY <1>1, <1>4, <1>5, <1>6, <1>7, MeansAreRates
<1>. QED BY <1>2, <1>8

LEMMA SharesAreRates ==
  ASSUME NEW questions, NEW runs, NEW scores, Reported(questions, runs, scores)
  PROVE  /\ Rate(CitationPrecision(questions, runs)) /\ Rate(HallucinatedCitationRate(runs))
         /\ Rate(AnswerAccuracy(scores)) /\ Rate(CostPerQueryAvg(runs))
         /\ \A should \in BOOLEAN : Rate(AbstentionRate(questions, runs, should))
<1> DEFINE Q == ToSet(questions)
           R == RanOf(Q, runs)
           D == DOMAIN runs
<1>1. Report(Q, runs, scores) BY ReportIs
<1>2. /\ IsFiniteSet(Q) /\ IsFiniteSet(D) /\ DOMAIN scores = D
      /\ \A id \in D : runs[id] \in QuestionRun
  BY <1>1 DEF Report
<1>3. Rate(CitationPrecision(questions, runs))
  <2> DEFINE T == CitedOf(R, runs)
             right == RightOf(R, runs)
  <2>1. CitationPrecision(questions, runs) = MeanOf(right) BY CitationsCount
  <2>2. IsFiniteSet(T) BY <1>1, CitedIs
  <2>3. right \in [T -> Int] BY DEF RightOf, AsNumber
  <2>. HIDE DEF T, right
  <2>. QED BY <2>1, <2>2, <2>3, MeansAreRates
<1>4. Rate(HallucinatedCitationRate(runs))
  <2> DEFINE A == Answered(runs)
             f == [id \in A |-> runs[id].invented]
  <2>1. IsFiniteSet(A) /\ A \subseteq D BY <1>1, RanIs
  <2>2. f \in [A -> Int]
    <3>. HIDE DEF A
    <3>1. \A id \in A : runs[id].invented \in Nat BY <1>2, <2>1 DEF QuestionRun
    <3>. QED BY <3>1
  <2>3. HallucinatedCitationRate(runs) = MeanOf(f) BY DEF HallucinatedCitationRate
  <2>. HIDE DEF A, f
  <2>. QED BY <2>1, <2>2, <2>3, MeansAreRates
<1>5. Rate(AnswerAccuracy(scores))
  <2> DEFINE f == [id \in DOMAIN scores |-> AsNumber(IsCorrect(scores[id]))]
  <2>1. f \in [D -> Int] /\ AnswerAccuracy(scores) = MeanOf(f)
    BY <1>2 DEF AnswerAccuracy, AsNumber
  <2>. HIDE DEF f, D
  <2>. QED BY <1>2, <2>1, MeansAreRates
<1>6. Rate(CostPerQueryAvg(runs))
  <2> DEFINE C == {id \in D : runs[id].cost # Nothing}
             f == [id \in C |-> runs[id].cost[1]]
  <2>1. C \subseteq D OBVIOUS
  <2>2. CostPerQueryAvg(runs) = MeanOf(f) BY DEF CostPerQueryAvg
  <2>3. ASSUME NEW id \in C PROVE runs[id].cost[1] \in Int
    <3>1. runs[id].cost \in [1..1 -> Nat] BY <1>2 DEF QuestionRun
    <3>2. 1 \in 1..1 OBVIOUS
    <3>. QED BY <3>1, <3>2
  <2>. HIDE DEF C, D
  <2>4. f \in [C -> Int] /\ IsFiniteSet(C) BY <1>2, <2>1, <2>3, FS_Subset
  <2>. HIDE DEF f
  <2>. QED BY <2>2, <2>4, MeansAreRates
<1>7. ASSUME NEW should \in BOOLEAN PROVE Rate(AbstentionRate(questions, runs, should))
  <2> DEFINE S == {q \in Q : q.abstain = should /\ q.id \in DOMAIN runs /\ ~runs[q.id].error}
             f == [q \in S |-> AsNumber(runs[q.id].abstained)]
  <2>1. S \subseteq Q OBVIOUS
  <2>2. f \in [S -> Int] /\ AbstentionRate(questions, runs, should) = MeanOf(f)
    BY DEF AbstentionRate, AsNumber
  <2>. HIDE DEF S, f, Q
  <2>3. IsFiniteSet(S) BY <1>2, <2>1, FS_Subset
  <2>. QED BY <2>2, <2>3, MeansAreRates
<1>. QED BY <1>3, <1>4, <1>5, <1>6, <1>7

(* The columns of a row are rates, and a report has a row unless all of it *)
(* failed.                                                                 *)
Columns == HigherIsBetter \cup LowerIsBetter
Row(m) == m # Nothing => \A c \in Columns : Rate(Value(m, c))

LEMMA MetricsAre ==
  ASSUME NEW questions, NEW runs, NEW scores, Reported(questions, runs, scores),
         NEW m, m = ComputeMetrics(questions, runs, scores)
  PROVE  /\ m = Nothing <=> Answered(runs) = {}
         /\ m # Nothing =>
              /\ m.n_questions = Cardinality(DOMAIN runs) /\ m.n_errors = Cardinality(DOMAIN runs \ Answered(runs))
              /\ m.hallucinated_citation_rate = HallucinatedCitationRate(runs)
              /\ m.latency = LatencyPercentiles(runs)
         /\ Row(m)
<1>1. CASE Answered(runs) = {} BY <1>1 DEF ComputeMetrics, Row
<1>2. CASE Answered(runs) # {}
  <2>1. m = [n_questions |-> Cardinality(DOMAIN runs),
             n_errors |-> Cardinality(DOMAIN runs \ Answered(runs)),
             n_judge_errors |-> Cardinality({id \in DOMAIN scores : scores[id].judge = "error"}),
             recall_at_k |-> RecallAtK(questions, runs),
             mrr |-> MeanReciprocalRank(questions, runs),
             precision_at_k |-> PrecisionAtK(questions, runs),
             citation_precision |-> CitationPrecision(questions, runs),
             hallucinated_citation_rate |-> HallucinatedCitationRate(runs),
             answer_accuracy |-> AnswerAccuracy(scores),
             correct_abstention_rate |-> AbstentionRate(questions, runs, TRUE),
             false_abstention_rate |-> AbstentionRate(questions, runs, FALSE),
             latency |-> LatencyPercentiles(runs),
             cost_per_query_avg |-> CostPerQueryAvg(runs),
             outcomes |-> QuestionOutcomes(questions, runs, scores)]
    BY <1>2 DEF ComputeMetrics
  <2>2. m # Nothing
    <3>1. "mrr" \in DOMAIN m /\ DOMAIN Nothing = {} BY <2>1 DEF Nothing
    <3>. QED BY <3>1
  <2>3. /\ m.n_questions = Cardinality(DOMAIN runs) /\ m.n_errors = Cardinality(DOMAIN runs \ Answered(runs))
        /\ m.hallucinated_citation_rate = HallucinatedCitationRate(runs)
        /\ m.latency = LatencyPercentiles(runs)
    BY <2>1
  <2>4. /\ m["recall_at_k"] = RecallAtK(questions, runs) /\ m["mrr"] = MeanReciprocalRank(questions, runs)
        /\ m["precision_at_k"] = PrecisionAtK(questions, runs)
        /\ m["citation_precision"] = CitationPrecision(questions, runs)
        /\ m["hallucinated_citation_rate"] = HallucinatedCitationRate(runs)
        /\ m["answer_accuracy"] = AnswerAccuracy(scores)
        /\ m["correct_abstention_rate"] = AbstentionRate(questions, runs, TRUE)
        /\ m["false_abstention_rate"] = AbstentionRate(questions, runs, FALSE)
        /\ m["cost_per_query_avg"] = CostPerQueryAvg(runs)
    BY <2>1
  <2>5. \A c \in Columns \ {"latency_p50_total", "latency_p95_total"} : Rate(m[c])
    <3>1. /\ Rate(m["recall_at_k"]) /\ Rate(m["mrr"]) /\ Rate(m["precision_at_k"])
      BY <2>4, RanksAreRates
    <3>2. /\ Rate(m["citation_precision"]) /\ Rate(m["hallucinated_citation_rate"])
          /\ Rate(m["answer_accuracy"]) /\ Rate(m["cost_per_query_avg"])
          /\ Rate(m["correct_abstention_rate"]) /\ Rate(m["false_abstention_rate"])
      BY <2>4, SharesAreRates
    <3>3. \A c \in Columns \ {"latency_p50_total", "latency_p95_total"} :
             c \in {"recall_at_k", "mrr", "precision_at_k", "citation_precision", "hallucinated_citation_rate",
                    "answer_accuracy", "cost_per_query_avg", "correct_abstention_rate", "false_abstention_rate"}
      BY DEF Columns, HigherIsBetter, LowerIsBetter
    <3>. QED BY ONLY <3>1, <3>2, <3>3
  <2>6. \A c \in Columns \ {"latency_p50_total", "latency_p95_total"} : Value(m, c) = m[c]
    BY DEF Value
  <2>7. \A p \in {50, 95} : Rate(<<m.latency[p]["total"], 1>>)
    <3>. SUFFICES ASSUME NEW p \in {50, 95} PROVE Rate(<<m.latency[p]["total"], 1>>) OBVIOUS
    <3>1. "total" \in Phases BY DEF Phases
    <3>2. LatencyPercentiles(runs)[p]["total"] \in Int BY <1>2, <3>1, LatenciesOrdered
    <3> DEFINE x == m.latency[p]["total"]
    <3>3. x \in Int BY <2>3, <3>2
    <3>. HIDE DEF x
    <3>4. <<x, 1>> \in Int \X (Nat \ {0}) BY <3>3
    <3>. QED BY <3>4 DEF Rate, Fraction, x
  <2>8. /\ Value(m, "latency_p50_total") = <<m.latency[50]["total"], 1>>
        /\ Value(m, "latency_p95_total") = <<m.latency[95]["total"], 1>>
    BY DEF Value
  <2>9. \A c \in Columns : Rate(Value(m, c)) BY <2>5, <2>6, <2>7, <2>8
  <2>. QED BY <1>2, <2>2, <2>3, <2>9 DEF Row
<1>. QED BY <1>1, <1>2

(* A report of some questions only. *)
PartOfQuestions(questions, ids) == At(questions, {i \in DOMAIN questions : questions[i].id \in ids})

LEMMA FirstIsReported ==
  ASSUME NEW questions, NEW runs, NEW scores, Reported(questions, runs, scores),
         NEW ids, ids = {questions[1].id}
  PROVE  Reported(PartOfQuestions(questions, ids), Restrict(runs, ids), Restrict(scores, ids))
<1> DEFINE K == {i \in DOMAIN questions : questions[i].id \in ids}
           part == PartOfQuestions(questions, ids)
           first == questions[1]
           n == Len(questions)
<1>1. /\ questions \in Seq(Question) /\ questions # <<>>
      /\ \A i, j \in DOMAIN questions : questions[i].id = questions[j].id => i = j
      /\ \A q \in ToSet(questions) : q.category = "a"
      /\ runs \in [IdsOf(questions) -> QuestionRun] /\ scores \in [IdsOf(questions) -> Score]
      /\ \A id \in IdsOf(questions) :
           /\ runs[id].ms.retrieval <= runs[id].ms.total /\ runs[id].ms.generation <= runs[id].ms.total
           /\ \A k \in DOMAIN runs[id].retrieved : Scale % k = 0
  BY DEF Reported
<1>2. n \in Nat /\ n # 0 /\ DOMAIN questions = 1..n BY <1>1, LenProperties, EmptySeq
<1>3. 1 \in DOMAIN questions BY <1>2
<1>4. K = {1} BY <1>1, <1>3
<1>5. first \in ToSet(questions) /\ first.id \in IdsOf(questions)
  <2>1. first \in ToSet(questions) BY <1>3 DEF ToSet
  <2>. QED BY <2>1 DEF IdsOf
<1>6. part \in Seq(Question) /\ Len(part) = 1 /\ ToSet(part) = {first}
  <2>1. /\ At(questions, K) \in Seq(Question) /\ Len(At(questions, K)) = Cardinality(K)
        /\ ToSet(At(questions, K)) = {questions[i] : i \in K}
    <3>1. K \subseteq DOMAIN questions OBVIOUS
    <3>. HIDE DEF K
    <3>. QED BY <1>1, <3>1, AtGives
  <2>2. part = At(questions, K) BY DEF PartOfQuestions
  <2>. HIDE DEF K, part
  <2>3. Cardinality(K) = 1 /\ {questions[i] : i \in K} = {first} BY <1>4, FS_Singleton
  <2>. QED BY <2>1, <2>2, <2>3
<1>7. DOMAIN part = 1..1 /\ part # <<>>
  <2>. HIDE DEF part
  <2>. QED BY <1>6, LenProperties, EmptySeq
<1>8. IdsOf(part) = ids
  <2>1. IdsOf(part) = {q.id : q \in {first}} BY <1>6 DEF IdsOf
  <2>. QED BY <2>1
<1>9. /\ Restrict(runs, ids) \in [ids -> QuestionRun] /\ Restrict(scores, ids) \in [ids -> Score]
      /\ \A id \in ids : Restrict(runs, ids)[id] = runs[id] /\ id \in IdsOf(questions)
  BY <1>1, <1>5 DEF Restrict
<1>. HIDE DEF part, first, n
<1>10. \A i, j \in DOMAIN part : part[i].id = part[j].id => i = j BY <1>7
<1>11. \A q \in ToSet(part) : q.category = "a" BY <1>1, <1>5, <1>6
<1>12. \A id \in ids :
         /\ Restrict(runs, ids)[id].ms.retrieval <= Restrict(runs, ids)[id].ms.total
         /\ Restrict(runs, ids)[id].ms.generation <= Restrict(runs, ids)[id].ms.total
         /\ \A k \in DOMAIN Restrict(runs, ids)[id].retrieved : Scale % k = 0
  BY <1>1, <1>9
<1>13. Reported(part, Restrict(runs, ids), Restrict(scores, ids))
  BY <1>6, <1>7, <1>8, <1>9, <1>10, <1>11, <1>12 DEF Reported
<1>. QED BY <1>13 DEF part

LEMMA AllOfReport ==
  ASSUME NEW questions, NEW runs, NEW scores, Reported(questions, runs, scores),
         NEW ids, ids = DOMAIN runs
  PROVE  /\ PartOfQuestions(questions, ids) = questions
         /\ Restrict(runs, ids) = runs /\ Restrict(scores, ids) = scores
<1>1. /\ questions \in Seq(Question) /\ runs \in [IdsOf(questions) -> QuestionRun]
      /\ scores \in [IdsOf(questions) -> Score] /\ ids = IdsOf(questions)
  BY DEF Reported
<1>2. Restrict(runs, ids) = runs /\ Restrict(scores, ids) = scores BY <1>1 DEF Restrict
<1>3. \A i \in DOMAIN questions : questions[i].id \in ids BY <1>1 DEF IdsOf, ToSet
<1>4. {i \in DOMAIN questions : questions[i].id \in ids} = DOMAIN questions BY <1>3
<1>5. At(questions, DOMAIN questions) = questions BY <1>1, AtAll
<1>. QED BY <1>2, <1>4, <1>5 DEF PartOfQuestions

(* The rows of a table are those that have metrics. *)
RowsOf(both) == At(both, {i \in DOMAIN both : both[i] # Nothing})

LEMMA RowsAre ==
  ASSUME NEW a, NEW b, Row(a), Row(b), NEW rows, rows = RowsOf(<<a, b>>)
  PROVE  IsFiniteSet(DOMAIN rows) /\ \A r \in DOMAIN rows, c \in Columns : Rate(Value(rows[r], c))
<1> DEFINE both == <<a, b>>
           V == {a, b}
           K == {i \in DOMAIN both : both[i] # Nothing}
<1>1. both \in Seq(V) /\ DOMAIN both = 1..2 /\ both[1] = a /\ both[2] = b OBVIOUS
<1>2. K \subseteq DOMAIN both /\ \A i \in K : both[i] # Nothing /\ both[i] \in V
  <2>1. \A i \in 1..2 : i = 1 \/ i = 2 OBVIOUS
  <2>. QED BY <1>1, <2>1
<1>3. rows = At(both, K) BY DEF RowsOf
<1>. HIDE DEF both, K
<1>4. /\ rows \in Seq(V) /\ ToSet(rows) = {both[i] : i \in K}
  <2>1. /\ At(both, K) \in Seq(V) /\ ToSet(At(both, K)) = {both[i] : i \in K}
    BY <1>1, <1>2, AtGives
  <2>. QED BY <1>3, <2>1
<1>5. Len(rows) \in Nat /\ DOMAIN rows = 1 .. Len(rows) BY <1>4, LenProperties
<1>6. IsFiniteSet(DOMAIN rows)
  <2> DEFINE n == Len(rows)
  <2>1. n \in Int /\ DOMAIN rows = 1..n BY <1>5
  <2>. HIDE DEF n
  <2>. QED BY <2>1, FS_Interval
<1>7. ASSUME NEW r \in DOMAIN rows, NEW c \in Columns PROVE Rate(Value(rows[r], c))
  <2>1. rows[r] \in ToSet(rows) BY DEF ToSet
  <2>2. PICK i \in K : rows[r] = both[i] BY <1>4, <2>1
  <2>3. rows[r] # Nothing /\ (rows[r] = a \/ rows[r] = b) BY <1>2, <2>2
  <2>4. Row(rows[r]) BY <2>3
  <2>. QED BY <2>3, <2>4 DEF Row
<1>. QED BY <1>6, <1>7

(* A column of the table. *)
ColumnOf(table, rows, c) ==
  LET valued == {r \in DOMAIN rows : table[r][c].value # Nothing}
      won == {r \in DOMAIN rows : table[r][c].winner}
      beats(v, w) == IF c \in HigherIsBetter THEN Below(w, v) ELSE Below(v, w)
  IN /\ won \subseteq valued /\ (won = {}) = (valued = {})
     /\ \A r \in won, u \in valued : ~beats(table[u][c].value, table[r][c].value)

LEMMA ColumnsAreWon ==
  ASSUME NEW rows, IsFiniteSet(DOMAIN rows), NEW c \in Columns, \A r \in DOMAIN rows : Rate(Value(rows[r], c))
  PROVE  ColumnOf(OverallTable(rows), rows, c)
<1> DEFINE table == OverallTable(rows)
           R == DOMAIN rows
           values == [r \in R |-> Value(rows[r], c)]
           higher == c \in HigherIsBetter
           valued == {r \in R : table[r][c].value # Nothing}
           won == {r \in R : table[r][c].winner}
<1>1. \A r \in R : /\ table[r][c].value = values[r]
                   /\ table[r][c].winner = Wins(values[r], Best(values, higher))
  <2> DEFINE best(d) == Best([r \in R |-> Value(rows[r], d)], d \in HigherIsBetter)
             cell(r, d) == [value |-> Value(rows[r], d), winner |-> Wins(Value(rows[r], d), best(d))]
  <2>1. table = [r \in R |-> [d \in Columns |-> cell(r, d)]] BY DEF OverallTable, Columns
  <2>. HIDE DEF cell, table
  <2>2. \A r \in R : table[r][c] = cell(r, c) BY <2>1
  <2>3. \A r \in R : cell(r, c) = [value |-> values[r], winner |-> Wins(values[r], Best(values, higher))]
    BY DEF cell
  <2>. HIDE DEF values, higher
  <2>4. \A r \in R : /\ cell(r, c).value = values[r]
                     /\ cell(r, c).winner = Wins(values[r], Best(values, higher))
    BY <2>3
  <2>. QED BY <2>2, <2>4
<1>2. DOMAIN values = R /\ \A r \in R : values[r] # Nothing => values[r] \in Fraction
  BY DEF Rate
<1>3. higher \in BOOLEAN OBVIOUS
<1>. HIDE DEF table, values, higher
<1>4. WellWon(values, higher) BY <1>2, <1>3, BestIs
<1>5. valued = Valued(values) BY <1>1, <1>2 DEF Valued
<1>6. won = Winners(values, higher)
  <2>1. \A r \in R : table[r][c].winner <=> Wins(values[r], Best(values, higher)) BY <1>1
  <2>. QED BY <1>2, <2>1 DEF Winners
<1>. HIDE DEF valued, won
<1>7. /\ won \subseteq valued /\ (won = {} <=> valued = {})
      /\ \A r \in won, u \in valued : ~Beats(higher, values[u], values[r])
  BY <1>4, <1>5, <1>6 DEF WellWon
<1>8. won \subseteq R /\ valued \subseteq R BY DEF won, valued
<1>9. ASSUME NEW r \in won, NEW u \in valued
      PROVE  ~(IF c \in HigherIsBetter THEN Below(table[r][c].value, table[u][c].value)
                                       ELSE Below(table[u][c].value, table[r][c].value))
  <2>1. table[r][c].value = values[r] /\ table[u][c].value = values[u] BY <1>1, <1>8
  <2>2. ~Beats(higher, values[u], values[r]) BY <1>7
  <2>3. ~(IF c \in HigherIsBetter THEN Below(values[r], values[u]) ELSE Below(values[u], values[r]))
    BY <2>2 DEF Beats, higher
  <2>. QED BY <2>1, <2>3
<1>10. won \subseteq valued /\ (won = {}) = (valued = {}) BY <1>7
<1>11. /\ won \subseteq valued /\ (won = {}) = (valued = {})
       /\ \A r \in won, u \in valued :
            ~(IF c \in HigherIsBetter THEN Below(table[r][c].value, table[u][c].value)
                                      ELSE Below(table[u][c].value, table[r][c].value))
  BY <1>9, <1>10
<1>. QED BY ONLY <1>11 DEF ColumnOf, won, valued, table

(* What ran is what was measured. *)
WholeOf(whole, runs) ==
  /\ (whole = Nothing) = (\A id \in DOMAIN runs : runs[id].error)
  /\ whole # Nothing =>
       /\ \A p \in {50, 95}, phase \in {"retrieval", "generation"} :
            whole.latency[p][phase] <= whole.latency[p].total
       /\ whole.n_errors < whole.n_questions
       /\ whole.hallucinated_citation_rate[2] = whole.n_questions - whole.n_errors

LEMMA WholeIs ==
  ASSUME NEW questions, NEW runs, NEW scores, Reported(questions, runs, scores),
         NEW whole, whole = ComputeMetrics(questions, runs, scores)
  PROVE  WholeOf(whole, runs)
<1> DEFINE A == Answered(runs)
           D == DOMAIN runs
           f == [id \in A |-> runs[id].invented]
<1>1. /\ whole = Nothing <=> A = {}
      /\ whole # Nothing =>
           /\ whole.n_questions = Cardinality(D) /\ whole.n_errors = Cardinality(D \ A)
           /\ whole.hallucinated_citation_rate = HallucinatedCitationRate(runs)
           /\ whole.latency = LatencyPercentiles(runs)
  BY MetricsAre
<1>2. A = {id \in D : ~runs[id].error} BY DEF Answered
<1>3. A = {} <=> \A id \in D : runs[id].error BY <1>2
<1>4. IsFiniteSet(D) /\ IsFiniteSet(A) /\ A \subseteq D /\ \A id \in D : runs[id] \in QuestionRun
  <2>1. Report(ToSet(questions), runs, scores) BY ReportIs
  <2>. QED BY <2>1, RanIs DEF Report
<1>5. (whole = Nothing) = (\A id \in D : runs[id].error) BY <1>1, <1>3
<1>6. ASSUME whole # Nothing
      PROVE  /\ \A p \in {50, 95}, phase \in {"retrieval", "generation"} :
                  whole.latency[p][phase] <= whole.latency[p].total
             /\ whole.n_errors < whole.n_questions
             /\ whole.hallucinated_citation_rate[2] = whole.n_questions - whole.n_errors
  <2>1. A # {} BY <1>1, <1>6
  <2>2. ASSUME NEW p \in {50, 95}, NEW phase \in {"retrieval", "generation"}
        PROVE  whole.latency[p][phase] <= whole.latency[p].total
    <3>1. phase \in Phases BY DEF Phases
    <3>2. LatencyPercentiles(runs)[p][phase] <= LatencyPercentiles(runs)[p]["total"]
      BY <2>1, <3>1, LatenciesOrdered
    <3>. QED BY <1>1, <1>6, <3>2
  <2>. HIDE DEF A, D
  <2>3. Cardinality(D) \in Nat /\ Cardinality(A) \in Nat /\ Cardinality(A) # 0
    BY <1>4, <2>1, FS_CardinalityType, FS_EmptySet
  <2>4. Cardinality(D \ A) = Cardinality(D) - Cardinality(A)
    <3>1. D \cap A = A BY <1>4
    <3>2. Cardinality(D \ A) = Cardinality(D) - Cardinality(D \cap A) BY <1>4, FS_Difference
    <3>. QED BY <3>1, <3>2
  <2>5. HallucinatedCitationRate(runs)[2] = Cardinality(A)
    <3>1. HallucinatedCitationRate(runs) = MeanOf(f) BY DEF HallucinatedCitationRate, A
    <3>2. f \in [A -> Int]
      <4>1. \A id \in A : runs[id].invented \in Nat BY <1>4 DEF QuestionRun
      <4>. QED BY <4>1
    <3>. HIDE DEF f
    <3>3. IsMean(MeanOf(f), f, A) BY <1>4, <3>2, MeanIs
    <3>4. MeanOf(f) = <<Total(f), Cardinality(A)>> BY <2>1, <3>3 DEF IsMean
    <3>. QED BY <3>1, <3>4
  <2>6. whole.n_errors < whole.n_questions BY <1>1, <1>6, <2>3, <2>4
  <2>7. whole.hallucinated_citation_rate[2] = whole.n_questions - whole.n_errors
    BY <1>1, <1>6, <2>3, <2>4, <2>5
  <2>. QED BY <2>2, <2>6, <2>7
<1>. QED BY <1>5, <1>6 DEF WholeOf

LEMMA ReportOfCalls == InputsStayCalls => ReportIsWhole
<1>. SUFFICES ASSUME InputsStayCalls, subject = "report" PROVE ReportIsWhole
  BY Zenon DEF ReportIsWhole
<1> DEFINE questions == input.questions
           runs == input.runs
           scores == input.scores
           metrics(ids) == ComputeMetrics(PartOfQuestions(questions, ids), Restrict(runs, ids), Restrict(scores, ids))
           whole == metrics(DOMAIN runs)
           first == metrics({questions[1].id})
           rows == RowsOf(<<whole, first>>)
           table == OverallTable(rows)
<1>1. Reported(questions, runs, scores) BY CallsAreReported
<1>. HIDE DEF questions, runs, scores
<1>2. whole = ComputeMetrics(questions, runs, scores)
  <2> DEFINE ids == DOMAIN runs
  <2>1. ids = DOMAIN runs OBVIOUS
  <2>. HIDE DEF ids
  <2>2. /\ PartOfQuestions(questions, ids) = questions
        /\ Restrict(runs, ids) = runs /\ Restrict(scores, ids) = scores
    BY <1>1, <2>1, AllOfReport
  <2>. QED BY <2>1, <2>2
<1>3. Row(whole) /\ WholeOf(whole, runs)
  <2>. HIDE DEF whole
  <2>. QED BY <1>1, <1>2, MetricsAre, WholeIs
<1>4. Row(first)
  <2> DEFINE ids == {questions[1].id}
             part == PartOfQuestions(questions, ids)
             partRuns == Restrict(runs, ids)
             partScores == Restrict(scores, ids)
  <2>1. Reported(part, partRuns, partScores)
    <3> HIDE DEF ids
    <3>1. ids = {questions[1].id} BY DEF ids
    <3>. QED BY <1>1, <3>1, FirstIsReported
  <2>2. first = ComputeMetrics(part, partRuns, partScores) OBVIOUS
  <2>. HIDE DEF first, part, partRuns, partScores
  <2>. QED BY <2>1, <2>2, MetricsAre
<1>5. IsFiniteSet(DOMAIN rows) /\ \A r \in DOMAIN rows, c \in Columns : Rate(Value(rows[r], c))
  <2>1. rows = RowsOf(<<whole, first>>) OBVIOUS
  <2>. HIDE DEF rows, whole, first
  <2>. QED BY <1>3, <1>4, <2>1, RowsAre
<1>. HIDE DEF metrics, rows
<1>6. ASSUME NEW c \in Columns PROVE ColumnOf(table, rows, c)
  <2>1. \A r \in DOMAIN rows : Rate(Value(rows[r], c)) BY <1>5
  <2>. QED BY <1>5, <2>1, ColumnsAreWon
<1>. HIDE DEF table
<1>7. ASSUME NEW c \in Columns
      PROVE  LET valued == {r \in DOMAIN rows : table[r][c].value # Nothing}
                 won == {r \in DOMAIN rows : table[r][c].winner}
             IN /\ won \subseteq valued /\ (won = {}) = (valued = {})
                /\ \A r \in won, u \in valued :
                     ~(IF c \in HigherIsBetter THEN Below(table[r][c].value, table[u][c].value)
                                               ELSE Below(table[u][c].value, table[r][c].value))
  BY <1>6 DEF ColumnOf
<1>8. /\ (whole = Nothing) = (\A id \in DOMAIN runs : runs[id].error)
      /\ whole # Nothing =>
           /\ \A p \in {50, 95}, phase \in {"retrieval", "generation"} :
                whole.latency[p][phase] <= whole.latency[p].total
           /\ whole.n_errors < whole.n_questions
           /\ whole.hallucinated_citation_rate[2] = whole.n_questions - whole.n_errors
  <2>. HIDE DEF whole
  <2>. QED BY <1>3 DEF WholeOf
<1>9. \A c \in Columns :
         LET valued == {r \in DOMAIN rows : table[r][c].value # Nothing}
             won == {r \in DOMAIN rows : table[r][c].winner}
         IN /\ won \subseteq valued /\ (won = {}) = (valued = {})
            /\ \A r \in won, u \in valued :
                 ~(IF c \in HigherIsBetter THEN Below(table[r][c].value, table[u][c].value)
                                           ELSE Below(table[u][c].value, table[r][c].value))
  BY <1>7
<1>. QED BY ONLY ZenonT(40), <1>8, <1>9
     DEF ReportIsWhole, whole, first, metrics, PartOfQuestions, rows, RowsOf, table, Columns, questions, runs, scores

(* The outcomes of a row of the category table. *)
Categorized(q) == q \in Seq(GoldOutcome) /\ \A i \in DOMAIN q : q[i].category \in {"a", "b"}
KnownIn(q, c) == {o \in Known(q, "gold_hit") : o.category = c}
HitsOf(S) == {o \in S : o.gold_hit = "hit"}

LEMMA KnownAre ==
  ASSUME NEW q, Categorized(q)
  PROVE  /\ IsFiniteSet(Known(q, "gold_hit"))
         /\ \A o \in Known(q, "gold_hit") : o.category \in {"a", "b"}
<1>1. IsFiniteSet(ToSet(q)) BY ToSetIsFinite DEF Categorized
<1>2. Known(q, "gold_hit") \subseteq ToSet(q) BY DEF Known
<1>3. IsFiniteSet(Known(q, "gold_hit")) BY <1>1, <1>2, FS_Subset
<1>4. \A o \in ToSet(q) : o.category \in {"a", "b"} BY DEF Categorized, ToSet
<1>. QED BY <1>2, <1>3, <1>4

(* The share of hits of some outcomes. *)
ShareOf(S) == MeanOf([o \in S |-> AsNumber(o.gold_hit = "hit")])
SharesAs(v, S) ==
  /\ Rate(v) /\ (v = Nothing <=> S = {})
  /\ v # Nothing => v[1] = Cardinality(HitsOf(S)) /\ v[2] = Cardinality(S)

LEMMA ShareIs ==
  ASSUME NEW S, IsFiniteSet(S)
  PROVE  SharesAs(ShareOf(S), S)
<1> DEFINE f == [o \in S |-> AsNumber(o.gold_hit = "hit")]
           v == ShareOf(S)
<1>1. v = MeanOf(f) BY DEF ShareOf
<1>2. f \in [S -> {0, 1}] /\ f \in [S -> Int] /\ \A o \in S : f[o] = 1 <=> o.gold_hit = "hit"
  BY DEF AsNumber
<1>3. {o \in S : f[o] = 1} = HitsOf(S) BY <1>2 DEF HitsOf
<1>. HIDE DEF f, v
<1>4. Total(f) = Cardinality(HitsOf(S))
  <2>1. Total(f) = Cardinality({o \in S : f[o] = 1}) BY <1>2, TotalCounts
  <2>. QED BY <1>3, <2>1
<1>5. Rate(v) /\ IsMean(v, f, S) BY <1>1, <1>2, MeansAreRates, MeanIs
<1>6. v # Nothing => v = <<Total(f), Cardinality(S)>> BY <1>5 DEF IsMean
<1>7. v = Nothing <=> S = {} BY <1>5 DEF IsMean
<1>8. v # Nothing => v[1] = Cardinality(HitsOf(S)) /\ v[2] = Cardinality(S) BY <1>4, <1>6
<1>. QED BY <1>5, <1>7, <1>8 DEF SharesAs, v

LEMMA RateInIs ==
  ASSUME NEW q, NEW c
  PROVE  RateOf(q, c, "gold_hit") = ShareOf(KnownIn(q, c))
BY DEF RateOf, ShareOf, KnownIn

(* The outcomes of the categories are those of the row. *)
LEMMA CategoriesSplit ==
  ASSUME NEW K, IsFiniteSet(K), NEW C, IsFiniteSet(C), \A o \in K : o.category \in C,
         NEW f, f \in [C -> Nat], \A c \in C : f[c] = Cardinality({o \in K : o.category = c})
  PROVE  Total(f) = Cardinality(K)
<1> DEFINE key == [o \in K |-> o.category]
<1>1. key \in [K -> C] OBVIOUS
<1>2. \A c \in C : {o \in K : key[o] = c} = {o \in K : o.category = c} OBVIOUS
<1>3. \A c \in C : f[c] = Cardinality({o \in K : key[o] = c}) BY <1>2
<1>. HIDE DEF key
<1>. QED BY ONLY IsFiniteSet(K), IsFiniteSet(C), <1>1, <1>3, f \in [C -> Nat], CountedByKey

LEMMA CategoriesSum ==
  ASSUME NEW q, Categorized(q), NEW C, C \subseteq {"a", "b"},
         \A c \in {"a", "b"} : c \in C <=> KnownIn(q, c) # {}
  PROVE  /\ Total([c \in C |-> RateOf(q, c, "gold_hit")[2]]) = Cardinality(Known(q, "gold_hit"))
         /\ Total([c \in C |-> RateOf(q, c, "gold_hit")[1]]) = Cardinality(HitsOf(Known(q, "gold_hit")))
<1> DEFINE K == Known(q, "gold_hit")
           H == HitsOf(K)
           rate(c) == RateOf(q, c, "gold_hit")
           f == [c \in C |-> rate(c)[2]]
           g == [c \in C |-> rate(c)[1]]
<1>1. IsFiniteSet(K) /\ \A o \in K : o.category \in {"a", "b"} BY KnownAre
<1>2. \A c : KnownIn(q, c) = {o \in K : o.category = c} BY DEF KnownIn
<1>3. H \subseteq K /\ \A c : HitsOf(KnownIn(q, c)) = {o \in H : o.category = c}
  BY <1>2 DEF HitsOf
<1>. HIDE DEF K, H, rate
<1>4. IsFiniteSet(H) /\ IsFiniteSet(C)
  <2>1. IsFiniteSet({"a", "b"})
    <3>1. IsFiniteSet({"a"}) /\ IsFiniteSet({"b"}) BY FS_Singleton
    <3>2. {"a", "b"} = {"a"} \cup {"b"} OBVIOUS
    <3>3. IsFiniteSet({"a"} \cup {"b"}) BY <3>1, FS_Union
    <3>. QED BY <3>2, <3>3
  <2> DEFINE D == {"a", "b"}
  <2>2. IsFiniteSet(D) /\ C \in SUBSET D BY <2>1
  <2>. HIDE DEF D
  <2>. QED BY <1>1, <1>3, <2>2, FS_Subset
<1>5. \A o \in K : o.category \in C
  <2>. SUFFICES ASSUME NEW o \in K PROVE o.category \in C OBVIOUS
  <2>1. o \in KnownIn(q, o.category) BY <1>2
  <2>. QED BY <1>1, <2>1
<1>6. ASSUME NEW c \in C
      PROVE  /\ IsFiniteSet(KnownIn(q, c)) /\ rate(c)[2] = Cardinality({o \in K : o.category = c})
             /\ rate(c)[1] = Cardinality({o \in H : o.category = c})
             /\ rate(c)[1] \in Nat /\ rate(c)[2] \in Nat
  <2> DEFINE S == KnownIn(q, c)
             T == HitsOf(S)
  <2>1. S \subseteq K /\ S # {} /\ T \subseteq S BY <1>2 DEF HitsOf
  <2>2. rate(c) = ShareOf(S) BY RateInIs DEF rate
  <2>. HIDE DEF S, T
  <2>3. IsFiniteSet(S) /\ IsFiniteSet(T) BY <1>1, <2>1, FS_Subset
  <2>4. SharesAs(rate(c), S) BY <2>2, <2>3, ShareIs
  <2>5. rate(c)[1] = Cardinality(T) /\ rate(c)[2] = Cardinality(S) BY <2>1, <2>4 DEF SharesAs, T
  <2>6. Cardinality(T) \in Nat /\ Cardinality(S) \in Nat BY <2>3, FS_CardinalityType
  <2>7. S = {o \in K : o.category = c} /\ T = {o \in H : o.category = c} BY <1>2, <1>3 DEF S, T
  <2>. QED BY <2>3, <2>5, <2>6, <2>7 DEF S
<1>7. f \in [C -> Nat] /\ g \in [C -> Nat] BY <1>6
<1>8. /\ \A c \in C : f[c] = Cardinality({o \in K : o.category = c})
      /\ \A c \in C : g[c] = Cardinality({o \in H : o.category = c})
  BY <1>6
<1>9. \A o \in H : o.category \in C BY <1>3, <1>5
<1>. HIDE DEF f, g
<1>10. Total(f) = Cardinality(K) BY ONLY <1>1, <1>4, <1>5, <1>7, <1>8, CategoriesSplit
<1>11. Total(g) = Cardinality(H) BY ONLY <1>4, <1>7, <1>8, <1>9, CategoriesSplit
<1>. QED BY <1>10, <1>11 DEF f, g, rate, K, H

(* A row of the chart. *)
LEMMA ChartIs ==
  ASSUME NEW q, Categorized(q), NEW chart, chart = RecallCells(q, {"a", "b"})
  PROVE  /\ \A c \in DOMAIN chart \ {"all"} :
              c \in {"a", "b"} /\ KnownIn(q, c) # {} /\ chart[c] = RateOf(q, c, "gold_hit")
         /\ DOMAIN chart # {} => "all" \in DOMAIN chart /\ chart["all"][2] = Cardinality(Known(q, "gold_hit"))
<1> DEFINE K == Known(q, "gold_hit")
           of(key) == {o \in K : key \in {"all", o.category}}
           keys == {k \in {"all"} \cup {"a", "b"} : of(k) # {}}
<1>1. chart = [key \in keys |-> ShareOf(of(key))] BY DEF RecallCells, ShareOf
<1>2. IsFiniteSet(K) /\ \A o \in K : o.category \in {"a", "b"} BY KnownAre
<1>3. of("all") = K /\ \A k : of(k) \subseteq K OBVIOUS
<1>4. of("a") = KnownIn(q, "a") /\ of("b") = KnownIn(q, "b") BY DEF KnownIn
<1>5. /\ "all" \in keys <=> of("all") # {}
      /\ \A k \in keys : of(k) # {} /\ (k = "all" \/ k = "a" \/ k = "b")
  OBVIOUS
<1>. HIDE DEF of, keys, K
<1>6. DOMAIN chart = keys /\ \A k \in keys : chart[k] = ShareOf(of(k)) BY <1>1
<1>7. ASSUME NEW c \in DOMAIN chart \ {"all"}
      PROVE  c \in {"a", "b"} /\ KnownIn(q, c) # {} /\ chart[c] = RateOf(q, c, "gold_hit")
  <2>1. c \in {"a", "b"} /\ of(c) # {} BY <1>5, <1>6
  <2>2. of(c) = KnownIn(q, c) BY <1>4, <2>1
  <2>. QED BY <1>6, <2>1, <2>2, RateInIs
<1>8. ASSUME DOMAIN chart # {}
      PROVE  "all" \in DOMAIN chart /\ chart["all"][2] = Cardinality(K)
  <2>1. K # {} /\ "all" \in keys BY <1>3, <1>5, <1>6, <1>8
  <2>2. chart["all"] = ShareOf(K) BY <1>3, <1>6, <2>1
  <2>3. SharesAs(chart["all"], K) BY <1>2, <2>2, ShareIs
  <2>4. chart["all"][2] = Cardinality(K) BY <2>1, <2>3 DEF SharesAs
  <2>. QED BY <1>6, <2>1, <2>4
<1>. QED BY <1>7, <1>8 DEF K

(* The first of a category for the human. *)
OfCategory(q, c) == At(q, {i \in DOMAIN q : q[i].category = c})
FirstOf(u) == SubSeq(u, 1, Min({1, Len(u)}))

LEMMA FirstIs ==
  ASSUME NEW q, Categorized(q), NEW c
  PROVE  /\ FirstOf(OfCategory(q, c)) \in Seq(GoldOutcome)
         /\ \A o \in ToSet(FirstOf(OfCategory(q, c))) : o.category = c
         /\ (\E o \in ToSet(q) : o.category = c) => ToSet(FirstOf(OfCategory(q, c))) # {}
         /\ ToSet(FirstOf(OfCategory(q, c))) \subseteq ToSet(q)
<1> DEFINE K == {i \in DOMAIN q : q[i].category = c}
           u == OfCategory(q, c)
           n == Len(u)
           m == Min({1, n})
           v == FirstOf(u)
<1>1. q \in Seq(GoldOutcome) /\ K \subseteq DOMAIN q BY DEF Categorized
<1>2. u = At(q, K) BY DEF OfCategory
<1>3. \A i \in K : q[i].category = c OBVIOUS
<1>4. (\E o \in ToSet(q) : o.category = c) => K # {} BY DEF ToSet
<1>. HIDE DEF K, u
<1>5. u \in Seq(GoldOutcome) /\ ToSet(u) = {q[i] : i \in K} BY <1>1, <1>2, AtGives
<1>6. n \in Nat /\ DOMAIN u = 1..n /\ \A k \in 1..n : u[k] \in GoldOutcome
  BY <1>5, LenProperties, ElementOfSeq
<1>7. \A k \in 1..n : u[k].category = c
  <2>. SUFFICES ASSUME NEW k \in 1..n PROVE u[k].category = c OBVIOUS
  <2>1. u[k] \in ToSet(u) BY <1>6 DEF ToSet
  <2>. QED BY <1>3, <1>5, <2>1
<1>13. ToSet(u) \subseteq ToSet(q) /\ \A k \in 1..n : u[k] \in ToSet(u)
  <2>1. ToSet(u) \subseteq ToSet(q) BY <1>1, <1>5 DEF ToSet
  <2>. QED BY <1>6, <2>1 DEF ToSet
<1>8. K # {} => n # 0
  <2>. SUFFICES ASSUME K # {}, n = 0 PROVE FALSE OBVIOUS
  <2>1. ToSet(u) = {} BY <1>6 DEF ToSet
  <2>. QED BY <1>5, <2>1
<1>. HIDE DEF n
<1>9. m = (IF 1 <= n THEN 1 ELSE n) BY <1>6, PairBounds
<1>. HIDE DEF m
<1>10. v = SubSeq(u, 1, m) BY DEF FirstOf, m, n
<1>11. CASE n = 0
  <2>1. m = 0 BY <1>9, <1>11
  <2>2. v = <<>> BY <1>5, <1>10, <2>1
  <2>3. ToSet(v) = {} BY <2>2 DEF ToSet
  <2>4. v \in Seq(GoldOutcome) BY <2>2
  <2>. QED BY <1>4, <1>8, <1>11, <2>3, <2>4 DEF u
<1>12. CASE n # 0
  <2>1. m = 1 /\ 1 \in 1..n BY <1>6, <1>9, <1>12
  <2>2. v = <<u[1]>>
    <3>1. v \in Seq(GoldOutcome) /\ Len(v) = 1 /\ v[1] = u[1]
      <4>1. v = SubSeq(u, 1, 1) BY <1>10, <2>1
      <4>2. 1 \in 1 .. Len(u) + 1 /\ 1 - 1 \in 1 - 1 .. Len(u) /\ 1 \in 1 - 1 .. Len(u)
        BY <1>6, <2>1 DEF n
      <4>3. Len(SubSeq(u, 1, 1)) = 1 /\ SubSeq(u, 1, 1) \in Seq(GoldOutcome) BY <1>5, <4>2
      <4>4. SubSeq(u, 1, 1)[1] = u[1] BY <1>5, <4>2
      <4>. QED BY <4>1, <4>3, <4>4
    <3>. HIDE DEF v
    <3>2. DOMAIN v = 1..1 /\ v = [i \in 1..1 |-> v[i]] BY <3>1
    <3>3. v = [i \in 1..1 |-> u[1]] BY <3>1, <3>2
    <3>. QED BY <3>3
  <2>3. ToSet(v) = {u[1]} /\ u[1] \in GoldOutcome /\ u[1].category = c
    <3>1. ToSet(<<u[1]>>) = {u[1]} BY DEF ToSet
    <3>. QED BY <1>6, <1>7, <2>1, <2>2, <3>1
  <2>4. v \in Seq(GoldOutcome) BY <2>2, <2>3
  <2>5. ToSet(v) \subseteq ToSet(q) BY <1>13, <2>1, <2>3
  <2>. QED BY <2>3, <2>4, <2>5 DEF u
<1>. QED BY <1>11, <1>12

LEMMA SampleIs ==
  ASSUME NEW q, Categorized(q)
  PROVE  {o.category : o \in ToSet(SelectHumanReviewSample(q, <<"b", "a">>, 1))} = {o.category : o \in ToSet(q)}
<1> DEFINE A == FirstOf(OfCategory(q, "b"))
           B == FirstOf(OfCategory(q, "a"))
           sample == SelectHumanReviewSample(q, <<"b", "a">>, 1)
           V == GoldOutcome
           cats == <<"b", "a">>
           of(i) == FirstOf(OfCategory(q, cats[i]))
           xs == [i \in DOMAIN cats |-> of(i)]
<1>1. /\ A \in Seq(V) /\ (\A o \in ToSet(A) : o.category = "b")
      /\ (\E o \in ToSet(q) : o.category = "b") => ToSet(A) # {}
  BY FirstIs
<1>2. /\ B \in Seq(V) /\ (\A o \in ToSet(B) : o.category = "a")
      /\ (\E o \in ToSet(q) : o.category = "a") => ToSet(B) # {}
  BY FirstIs
<1>3. sample = FlattenSeq(xs) BY DEF SelectHumanReviewSample, FirstOf, OfCategory
<1>4. xs = <<A, B>>
  <2>1. of(1) = A /\ of(2) = B OBVIOUS
  <2>2. DOMAIN cats = 1..2 OBVIOUS
  <2>3. xs = [i \in 1..2 |-> of(i)] BY <2>2
  <2>. HIDE DEF xs, of, A, B
  <2>4. \A i \in 1..2 : i = 1 \/ i = 2 OBVIOUS
  <2>5. [i \in 1..2 |-> of(i)] = <<of(1), of(2)>> BY <2>4
  <2>. QED BY <2>1, <2>3, <2>5
<1>. HIDE DEF A, B, xs, of, sample, V
<1>5. FlattenSeq(<<A, B>>) = A \o B
  <2> DEFINE none == <<>>
             one == <<A>>
  <2>1. none \in Seq(Seq(V)) /\ one \in Seq(Seq(V)) /\ one = Append(none, A) /\ <<A, B>> = Append(one, B)
    BY <1>1
  <2>. HIDE DEF one
  <2>2. FlattenSeq(<<A, B>>) = FlattenSeq(one) \o B BY <1>2, <2>1, FlattenAppend
  <2>3. FlattenSeq(one) = <<>> \o A
    <3>1. FlattenSeq(Append(none, A)) = FlattenSeq(none) \o A
      <4>. HIDE DEF none
      <4>. QED BY <1>1, <2>1, FlattenAppend
    <3>2. FlattenSeq(<<>>) = <<>> BY <2>1, <1>1, FlattenAppend
    <3>. QED BY <2>1, <3>1, <3>2
  <2>4. <<>> \o A = A BY <1>1
  <2>. QED BY <2>2, <2>3, <2>4
<1>6. ToSet(A \o B) = ToSet(A) \cup ToSet(B) BY <1>1, <1>2, SetOfConcat
<1>7. \A o \in ToSet(q) : o.category = "a" \/ o.category = "b" BY DEF Categorized, ToSet
<1>8. ToSet(sample) = ToSet(A) \cup ToSet(B) BY <1>3, <1>4, <1>5, <1>6
<1>9. \A o \in ToSet(A) \cup ToSet(B) : o \in ToSet(q)
  <2>1. ToSet(A) \subseteq ToSet(q) /\ ToSet(B) \subseteq ToSet(q) BY FirstIs DEF A, B
  <2>. QED BY <2>1
<1>. QED BY <1>1, <1>2, <1>7, <1>8, <1>9 DEF sample

(* The rows of a category table. *)
Tabled(rows) == rows \in Seq(Seq(GoldOutcome)) /\ rows # <<>> /\ \A r \in DOMAIN rows : Categorized(rows[r])
RatesOf(rows, c) == [r \in DOMAIN rows |-> RateOf(rows[r], c, "gold_hit")]
ShownOf(rows) == {c \in {"a", "b"} : Best(RatesOf(rows, c), TRUE) # Nothing}

TableOf(table, rows) ==
  /\ IsFiniteSet(DOMAIN rows) /\ 1 \in DOMAIN rows
  /\ \A r \in DOMAIN rows :
       /\ DOMAIN table[r] = ShownOf(rows)
       /\ \A c \in ShownOf(rows) :
            /\ table[r][c].rate = RateOf(rows[r], c, "gold_hit")
            /\ table[r][c].winner <=> r \in Winners(RatesOf(rows, c), TRUE)
  /\ \A c \in {"a", "b"} :
       /\ WellWon(RatesOf(rows, c), TRUE)
       /\ \A r \in DOMAIN rows : RateOf(rows[r], c, "gold_hit") = Nothing <=> KnownIn(rows[r], c) = {}

LEMMA TableIs ==
  ASSUME NEW rows, Tabled(rows), NEW table, table = CategoryTable(rows, {"a", "b"}, "gold_hit")
  PROVE  TableOf(table, rows)
<1> DEFINE R == DOMAIN rows
           rate(r, c) == RateOf(rows[r], c, "gold_hit")
           values(c) == RatesOf(rows, c)
           shown == ShownOf(rows)
           n == Len(rows)
<1>1. n \in Nat /\ n # 0 /\ R = 1..n BY LenProperties, EmptySeq DEF Tabled
<1>2. IsFiniteSet(R) /\ 1 \in R
  <2>. HIDE DEF n, R
  <2>1. IsFiniteSet(1..n) BY <1>1, FS_Interval
  <2>. QED BY <1>1, <2>1
<1>3. \A c : values(c) = [r \in R |-> rate(r, c)] BY DEF RatesOf
<1>4. shown = {c \in {"a", "b"} : Best(values(c), TRUE) # Nothing} BY DEF ShownOf
<1>5. table = [r \in R |-> [c \in shown |-> [rate |-> rate(r, c), winner |-> Wins(rate(r, c), Best(values(c), TRUE))]]]
  <2> DEFINE best(c) == Best([r \in R |-> rate(r, c)], TRUE)
  <2>1. \A c : best(c) = Best(values(c), TRUE) BY <1>3
  <2>2. table = [r \in R |-> [c \in {d \in {"a", "b"} : best(d) # Nothing} |->
                   [rate |-> rate(r, c), winner |-> Wins(rate(r, c), best(c))]]]
    BY DEF CategoryTable
  <2>. HIDE DEF best, values, rate, shown
  <2>3. {d \in {"a", "b"} : best(d) # Nothing} = shown BY <1>4, <2>1
  <2>. QED BY <2>1, <2>2, <2>3
<1>6. ASSUME NEW r \in R, NEW c
      PROVE  Rate(rate(r, c)) /\ (rate(r, c) = Nothing <=> KnownIn(rows[r], c) = {})
  <2> DEFINE S == KnownIn(rows[r], c)
  <2>1. Categorized(rows[r]) BY DEF Tabled
  <2>2. IsFiniteSet(Known(rows[r], "gold_hit")) BY <2>1, KnownAre
  <2>3. IsFiniteSet(S)
    <3>1. S \subseteq Known(rows[r], "gold_hit") BY DEF KnownIn
    <3>. HIDE DEF S
    <3>. QED BY <2>2, <3>1, FS_Subset
  <2>4. rate(r, c) = ShareOf(S) BY RateInIs
  <2>. HIDE DEF S, rate
  <2>5. SharesAs(ShareOf(S), S) BY <2>3, ShareIs
  <2>. QED BY <2>4, <2>5 DEF SharesAs, S
<1>. HIDE DEF R, rate, shown
<1>7. ASSUME NEW c PROVE WellWon(values(c), TRUE)
  <2> DEFINE v == values(c)
  <2>1. DOMAIN v = R /\ \A r \in DOMAIN v : v[r] # Nothing => v[r] \in Fraction
    BY <1>3, <1>6 DEF Rate
  <2>. HIDE DEF v, values
  <2>2. TRUE \in BOOLEAN /\ IsFiniteSet(DOMAIN v) BY <1>2, <2>1
  <2>3. WellWon(v, TRUE) BY <2>1, <2>2, BestIs
  <2>. QED BY <2>3 DEF v
<1>8. ASSUME NEW r \in R
      PROVE  /\ DOMAIN table[r] = shown
             /\ \A c \in shown : /\ table[r][c].rate = rate(r, c)
                                 /\ table[r][c].winner <=> r \in Winners(values(c), TRUE)
  <2>1. table[r] = [c \in shown |-> [rate |-> rate(r, c), winner |-> Wins(rate(r, c), Best(values(c), TRUE))]]
    BY <1>5
  <2>2. ASSUME NEW c \in shown
        PROVE  /\ table[r][c].rate = rate(r, c)
               /\ table[r][c].winner <=> r \in Winners(values(c), TRUE)
    <3>1. table[r][c] = [rate |-> rate(r, c), winner |-> Wins(rate(r, c), Best(values(c), TRUE))]
      BY <2>1
    <3>2. table[r][c].rate = rate(r, c) /\ table[r][c].winner = Wins(rate(r, c), Best(values(c), TRUE))
      <4> DEFINE w == Wins(rate(r, c), Best(values(c), TRUE))
                 x == rate(r, c)
      <4>1. table[r][c] = [rate |-> x, winner |-> w] BY <3>1
      <4>. HIDE DEF w, x
      <4>2. table[r][c].rate = x /\ table[r][c].winner = w BY <4>1
      <4>. QED BY <4>2 DEF w, x
    <3>3. r \in Winners(values(c), TRUE) <=> Wins(rate(r, c), Best(values(c), TRUE))
      <4>1. DOMAIN values(c) = R /\ values(c)[r] = rate(r, c) BY <1>3
      <4>. HIDE DEF values
      <4>. QED BY <4>1 DEF Winners
    <3>. HIDE DEF values
    <3>. QED BY <3>2, <3>3
  <2>. QED BY <2>1, <2>2
<1>. QED BY <1>2, <1>6, <1>7, <1>8 DEF R, rate, shown, TableOf

(* Every category shown has winners that none beats. *)
LEMMA ShownIsWon ==
  ASSUME NEW rows, Tabled(rows), NEW c \in ShownOf(rows)
  PROVE  \E r \in DOMAIN rows :
           /\ r \in Winners(RatesOf(rows, c), TRUE)
           /\ \A u \in DOMAIN rows : RateOf(rows[u], c, "gold_hit") # Nothing =>
                ~Below(RateOf(rows[r], c, "gold_hit"), RateOf(rows[u], c, "gold_hit"))
<1> DEFINE values == RatesOf(rows, c)
<1>1. c \in {"a", "b"} /\ Best(values, TRUE) # Nothing BY DEF ShownOf
<1>2. WellWon(values, TRUE)
  <2>1. TableOf(CategoryTable(rows, {"a", "b"}, "gold_hit"), rows) BY TableIs
  <2>. QED BY <1>1, <2>1 DEF TableOf
<1>3. DOMAIN values = DOMAIN rows /\ \A r \in DOMAIN rows : values[r] = RateOf(rows[r], c, "gold_hit")
  BY DEF RatesOf
<1>. HIDE DEF values
<1>4. Valued(values) # {} /\ Winners(values, TRUE) # {} BY <1>1, <1>2 DEF WellWon
<1>5. PICK r \in Winners(values, TRUE) : TRUE BY <1>4
<1>6. r \in DOMAIN rows BY <1>3, <1>5 DEF Winners
<1>7. ASSUME NEW u \in DOMAIN rows, values[u] # Nothing PROVE ~Below(values[r], values[u])
  <2>1. u \in Valued(values) BY <1>3, <1>7 DEF Valued
  <2>2. ~Beats(TRUE, values[u], values[r]) BY <1>2, <1>5, <2>1 DEF WellWon
  <2>. QED BY <2>2 DEF Beats
<1>. QED BY <1>3, <1>5, <1>6, <1>7 DEF values

LEMMA CategoriesOfCalls == InputsStayCalls => CategoriesAddUp
<1>. SUFFICES ASSUME InputsStayCalls, subject = "table" PROVE CategoriesAddUp
  BY DEF CategoriesAddUp
<1> DEFINE rows == input
           R == DOMAIN rows
           table == CategoryTable(rows, {"a", "b"}, "gold_hit")
           shown == ShownOf(rows)
           rate(r, c) == RateOf(rows[r], c, "gold_hit")
           cells(r) == {c \in DOMAIN table[r] : table[r][c].rate # Nothing}
           known(r) == Known(rows[r], "gold_hit")
           chart(r) == RecallCells(rows[r], {"a", "b"})
           sample == SelectHumanReviewSample(rows[1], <<"b", "a">>, 1)
<1>1. Tabled(rows)
  <2>1. /\ rows \in Seq(Seq(GoldOutcome)) /\ rows # <<>>
        /\ \A outcomes \in ToSet(rows) : \A i, j \in DOMAIN outcomes : outcomes[i].category \in {"a", "b"}
    BY MeasuresAreTyped DEF InputsStayCalls
  <2>. HIDE DEF rows
  <2>2. ASSUME NEW r \in DOMAIN rows PROVE Categorized(rows[r])
    <3>1. rows[r] \in ToSet(rows) /\ rows[r] \in Seq(GoldOutcome)
      BY <2>1, LenProperties, ElementOfSeq DEF ToSet
    <3>. QED BY <2>1, <3>1 DEF Categorized
  <2>. QED BY <2>1, <2>2 DEF Tabled
<1>. HIDE DEF rows
<1>2. /\ 1 \in R
      /\ \A r \in R :
           /\ DOMAIN table[r] = shown
           /\ \A c \in shown :
                /\ table[r][c].rate = rate(r, c)
                /\ table[r][c].winner <=> r \in Winners(RatesOf(rows, c), TRUE)
      /\ \A c \in {"a", "b"} :
           /\ WellWon(RatesOf(rows, c), TRUE)
           /\ \A r \in R : rate(r, c) = Nothing <=> KnownIn(rows[r], c) = {}
  <2>. HIDE DEF table
  <2>1. table = CategoryTable(rows, {"a", "b"}, "gold_hit") BY DEF table
  <2>2. TableOf(table, rows) BY <1>1, <2>1, TableIs
  <2>. QED BY <2>2 DEF TableOf
<1>3. \A r \in R : Categorized(rows[r]) BY <1>1 DEF Tabled
<1>4. shown \subseteq {"a", "b"} /\ \A c \in {"a", "b"} : c \in shown <=> \E r \in R : KnownIn(rows[r], c) # {}
  <2>1. shown = {c \in {"a", "b"} : Best(RatesOf(rows, c), TRUE) # Nothing} BY DEF ShownOf
  <2>2. ASSUME NEW c \in {"a", "b"} PROVE c \in shown <=> \E r \in R : KnownIn(rows[r], c) # {}
    <3>1. WellWon(RatesOf(rows, c), TRUE) /\ \A r \in R : rate(r, c) = Nothing <=> KnownIn(rows[r], c) = {}
      BY <1>2
    <3>2. Best(RatesOf(rows, c), TRUE) = Nothing <=> Valued(RatesOf(rows, c)) = {}
      BY <3>1 DEF WellWon
    <3>3. Valued(RatesOf(rows, c)) = {r \in R : rate(r, c) # Nothing} BY DEF Valued, RatesOf
    <3>. HIDE DEF shown, rate, R
    <3>. QED BY <2>1, <3>1, <3>2, <3>3
  <2>. HIDE DEF shown
  <2>. QED BY <2>1, <2>2
<1>. HIDE DEF R, table, shown, rate
<1>5. \A r \in R : \A c \in DOMAIN chart(r) \ {"all"} : chart(r)[c] = table[r][c].rate
  <2>. SUFFICES ASSUME NEW r \in R, NEW c \in DOMAIN chart(r) \ {"all"} PROVE chart(r)[c] = table[r][c].rate
    OBVIOUS
  <2> DEFINE ch == chart(r)
  <2>1. c \in DOMAIN ch \ {"all"} /\ Categorized(rows[r]) /\ ch = RecallCells(rows[r], {"a", "b"})
    BY <1>3
  <2>. HIDE DEF ch, chart
  <2>2. c \in {"a", "b"} /\ KnownIn(rows[r], c) # {} /\ ch[c] = RateOf(rows[r], c, "gold_hit")
    BY <2>1, ChartIs
  <2>3. c \in shown BY <1>4, <2>2
  <2>4. table[r][c].rate = rate(r, c) BY <1>2, <2>3
  <2>. QED BY <2>2, <2>4 DEF rate, ch
<1>6. \A r \in R : DOMAIN chart(r) # {} => "all" \in DOMAIN chart(r)
                                             /\ chart(r)["all"][2] = Cardinality(known(r))
  <2>. SUFFICES ASSUME NEW r \in R, DOMAIN chart(r) # {}
                PROVE "all" \in DOMAIN chart(r) /\ chart(r)["all"][2] = Cardinality(known(r))
    OBVIOUS
  <2> DEFINE ch == chart(r)
  <2>1. DOMAIN ch # {} /\ Categorized(rows[r]) /\ ch = RecallCells(rows[r], {"a", "b"}) BY <1>3
  <2>. HIDE DEF ch, chart
  <2>2. "all" \in DOMAIN ch /\ ch["all"][2] = Cardinality(Known(rows[r], "gold_hit"))
    BY <2>1, ChartIs
  <2>. QED BY <2>2 DEF ch
<1>7. {q.category : q \in ToSet(sample)} = {q.category : q \in ToSet(rows[1])}
  BY <1>2, <1>3, SampleIs
<1>8. \A r \in R :
         /\ Total([c \in cells(r) |-> table[r][c].rate[2]]) = Cardinality(known(r))
         /\ Total([c \in cells(r) |-> table[r][c].rate[1]]) = Cardinality({o \in known(r) : o.gold_hit = "hit"})
  <2>. SUFFICES ASSUME NEW r \in R
                PROVE /\ Total([c \in cells(r) |-> table[r][c].rate[2]]) = Cardinality(known(r))
                      /\ Total([c \in cells(r) |-> table[r][c].rate[1]])
                           = Cardinality({o \in known(r) : o.gold_hit = "hit"})
    OBVIOUS
  <2> DEFINE C == cells(r)
  <2>1. C = {c \in shown : rate(r, c) # Nothing}
    <3>1. DOMAIN table[r] = shown /\ \A c \in shown : table[r][c].rate = rate(r, c) BY <1>2
    <3>. QED BY <3>1
  <2>2. C \subseteq {"a", "b"} /\ \A c \in C : table[r][c].rate = rate(r, c)
    <3>. HIDE DEF C, cells
    <3>. QED BY <1>2, <1>4, <2>1
  <2>. HIDE DEF C, cells
  <2>3. \A c \in {"a", "b"} : c \in C <=> KnownIn(rows[r], c) # {} BY <1>2, <1>4, <2>1
  <2>4. /\ Total([c \in C |-> RateOf(rows[r], c, "gold_hit")[2]]) = Cardinality(Known(rows[r], "gold_hit"))
        /\ Total([c \in C |-> RateOf(rows[r], c, "gold_hit")[1]]) = Cardinality(HitsOf(Known(rows[r], "gold_hit")))
    BY <1>3, <2>2, <2>3, CategoriesSum
  <2>5. /\ [c \in C |-> table[r][c].rate[2]] = [c \in C |-> RateOf(rows[r], c, "gold_hit")[2]]
        /\ [c \in C |-> table[r][c].rate[1]] = [c \in C |-> RateOf(rows[r], c, "gold_hit")[1]]
    BY <2>2 DEF rate
  <2>6. HitsOf(Known(rows[r], "gold_hit")) = {o \in known(r) : o.gold_hit = "hit"} BY DEF HitsOf
  <2>7. /\ Total([c \in C |-> table[r][c].rate[2]]) = Cardinality(known(r))
        /\ Total([c \in C |-> table[r][c].rate[1]]) = Cardinality({o \in known(r) : o.gold_hit = "hit"})
    BY <2>4, <2>5, <2>6
  <2>. QED BY <2>7 DEF C
<1>9. \A c \in DOMAIN table[1] : \E r \in R :
         /\ table[r][c].winner
         /\ \A u \in R : table[u][c].rate # Nothing => ~Below(table[r][c].rate, table[u][c].rate)
  <2>. SUFFICES ASSUME NEW c \in DOMAIN table[1]
                PROVE \E r \in R :
                        /\ table[r][c].winner
                        /\ \A u \in R : table[u][c].rate # Nothing => ~Below(table[r][c].rate, table[u][c].rate)
    OBVIOUS
  <2>1. c \in shown BY <1>2
  <2>2. PICK r \in DOMAIN rows :
           /\ r \in Winners(RatesOf(rows, c), TRUE)
           /\ \A u \in DOMAIN rows : RateOf(rows[u], c, "gold_hit") # Nothing =>
                ~Below(RateOf(rows[r], c, "gold_hit"), RateOf(rows[u], c, "gold_hit"))
    BY <1>1, <2>1, ShownIsWon DEF shown
  <2>3. r \in R /\ r \in Winners(RatesOf(rows, c), TRUE)
        /\ \A u \in R : rate(u, c) # Nothing => ~Below(rate(r, c), rate(u, c))
    BY <2>2 DEF R, rate
  <2>4. \A u \in R : table[u][c].rate = rate(u, c) BY <1>2, <2>1
  <2>5. table[r][c].winner BY <1>2, <2>1, <2>3
  <2>6. \A u \in R : table[u][c].rate # Nothing => ~Below(table[r][c].rate, table[u][c].rate)
    BY <2>3, <2>4
  <2>. QED BY <2>3, <2>5, <2>6
<1>. QED BY ONLY <1>5, <1>6, <1>7, <1>8, <1>9
     DEF CategoriesAddUp, rows, R, table, cells, known, chart, sample

(* Of every report, table and comparison: its numbers are those of its     *)
(* questions and runs (eval/metrics.py, matrix.py, agreement.py).          *)
THEOREM NumbersSound == Spec => []NumbersAreSound
<1>1. InputsStayCalls => NumbersAreSound
  BY RecallOfCalls, RatesOfCalls, ReportOfCalls, AloneOfCalls, CategoriesOfCalls, PercentilesOfCalls,
     PairedOfCalls, KappaOfCalls DEF NumbersAreSound
<1>. QED BY <1>1, CallsAreInputs, PTL

-----------------------------------------------------------------------------
(* The sections of a document. *)

(* The sections, with their words. *)
Sect == [path : Seq(STRING), words : Seq(Word)]

(* All but the last of a sequence, and the last. *)
LEMMA FrontIs ==
  ASSUME NEW V, NEW g \in Seq(V), g # <<>>
  PROVE  /\ Len(g) \in Nat \ {0} /\ DOMAIN g = 1 .. Len(g) /\ Last(g) = g[Len(g)] /\ Last(g) \in V
         /\ Front(g) \in Seq(V) /\ Len(Front(g)) = Len(g) - 1 /\ \A i \in 1 .. Len(g) - 1 : Front(g)[i] = g[i]
<1> DEFINE n == Len(g)
           f == Front(g)
<1>1. n \in Nat /\ DOMAIN g = 1..n /\ n # 0 BY LenProperties, EmptySeq
<1>2. \A i \in 1..n : g[i] \in V BY <1>1, ElementOfSeq
<1>3. Last(g) = g[n] BY DEF Last
<1>4. f = SubSeq(g, 1, n - 1) BY DEF Front
<1>. HIDE DEF n, f
<1>5. f \in Seq(V) /\ Len(f) = IF 1 <= n - 1 THEN (n - 1) - 1 + 1 ELSE 0
  <2>1. 1 \in Int /\ n - 1 \in Int /\ \A k \in 1 .. n - 1 : g[k] \in V BY <1>1, <1>2
  <2>. QED BY <1>4, <2>1, SubSeqProperties
<1>6. \A k \in 1 .. (n - 1) - 1 + 1 : f[k] = g[1 + k - 1]
  <2>1. 1 \in Int /\ n - 1 \in Int /\ \A k \in 1 .. n - 1 : g[k] \in V BY <1>1, <1>2
  <2>. QED BY <1>4, <2>1, SubSeqProperties
<1>7. \A k \in 1 .. n - 1 : k \in 1 .. (n - 1) - 1 + 1 /\ 1 + k - 1 = k BY <1>1
<1>8. \A k \in 1 .. n - 1 : f[k] = g[k] BY <1>6, <1>7
<1>9. Len(f) = n - 1 BY <1>1, <1>5
<1>10. g[n] \in V BY <1>1, <1>2
<1>. QED BY <1>1, <1>3, <1>5, <1>8, <1>9, <1>10 DEF n, f

(* The sections' words, one after the other, are the first k of w. *)
Bounded(u, g, w, k) ==
  /\ u \in [0 .. Len(g) -> Nat] /\ u[0] = 0 /\ u[Len(g)] = k
  /\ \A i \in 1 .. Len(g) : Slice(g[i].words, w, u[i - 1], u[i], Word)

(* They end somewhere. *)
Covers(g, w, k) == g \in Seq(Sect) /\ \E u : Bounded(u, g, w, k)

(* No sections have no words. *)
LEMMA NothingCovers == ASSUME NEW w PROVE Covers(<<>>, w, 0)
<1> DEFINE u == [i \in 0..0 |-> 0]
<1>1. <<>> \in Seq(Sect) /\ Len(<<>>) = 0 /\ 1..0 = {} OBVIOUS
<1>2. u \in [0..0 -> Nat] /\ u[0] = 0 OBVIOUS
<1>. HIDE DEF u
<1>3. Bounded(u, <<>>, w, 0) BY <1>1, <1>2 DEF Bounded
<1>. QED BY <1>1, <1>3 DEF Covers

(* A section is added. *)
LEMMA SectionCovers ==
  ASSUME NEW g, NEW w, NEW k, Covers(g, w, k), NEW x, NEW m, Slice(x, w, k, m, Word), NEW p \in Seq(STRING)
  PROVE  Covers(Append(g, Section(p, x)), w, m)
<1> DEFINE n == Len(g)
           s == Section(p, x)
           h == Append(g, s)
<1>1. PICK u : Bounded(u, g, w, k) BY DEF Covers
<1>2. g \in Seq(Sect) /\ x \in Seq(Word) /\ m \in Nat BY DEF Covers, Slice
<1>3. s \in Sect /\ s.words = x BY <1>2 DEF Section, Sect
<1>. HIDE DEF s
<1>4. n \in Nat /\ h \in Seq(Sect) /\ Len(h) = n + 1 /\ h[n + 1] = s /\ \A i \in 1..n : h[i] = g[i]
  BY <1>2, <1>3, AppendIs
<1>. HIDE DEF h
<1>5. u \in [0..n -> Nat] /\ u[0] = 0 /\ u[n] = k /\ \A i \in 1..n : Slice(g[i].words, w, u[i - 1], u[i], Word)
  BY <1>1 DEF Bounded
<1>. HIDE DEF n
<1> DEFINE v == [i \in 0 .. n + 1 |-> IF i <= n THEN u[i] ELSE m]
<1>6. v \in [0 .. n + 1 -> Nat] /\ v[n + 1] = m /\ \A i \in 0..n : v[i] = u[i]
  BY <1>2, <1>4, <1>5
<1>. HIDE DEF v
<1>7. ASSUME NEW i \in 1 .. n + 1 PROVE Slice(h[i].words, w, v[i - 1], v[i], Word)
  <2>1. CASE i = n + 1
    <3>1. h[i].words = x /\ v[i] = m BY <1>3, <1>4, <1>6, <2>1
    <3>2. i - 1 = n /\ n \in 0..n BY <1>4, <2>1
    <3>3. v[i - 1] = k BY <1>5, <1>6, <3>2
    <3>. QED BY <3>1, <3>3
  <2>2. CASE i # n + 1
    <3>1. i \in 1..n /\ i \in 0..n /\ i - 1 \in 0..n BY <1>4, <2>2
    <3>2. h[i] = g[i] /\ v[i] = u[i] /\ v[i - 1] = u[i - 1] BY <1>4, <1>6, <3>1
    <3>3. Slice(g[i].words, w, u[i - 1], u[i], Word) BY <1>5, <3>1
    <3>. QED BY <3>2, <3>3
  <2>. QED BY <2>1, <2>2
<1>8. v[0] = 0 BY <1>4, <1>5, <1>6
<1>9. Bounded(v, h, w, m) BY <1>4, <1>6, <1>7, <1>8 DEF Bounded
<1>. QED BY <1>4, <1>9 DEF Covers, h, s

(* The last one is taken away. *)
LEMMA FrontCovers ==
  ASSUME NEW g, NEW w, NEW k, Covers(g, w, k), g # <<>>
  PROVE  \E j \in Nat : Covers(Front(g), w, j) /\ Slice(Last(g).words, w, j, k, Word)
<1> DEFINE n == Len(g)
           f == Front(g)
<1>1. PICK u : Bounded(u, g, w, k) BY DEF Covers
<1>2. g \in Seq(Sect) BY DEF Covers
<1>3. /\ n \in Nat \ {0} /\ Last(g) = g[n]
      /\ f \in Seq(Sect) /\ Len(f) = n - 1 /\ \A i \in 1 .. n - 1 : f[i] = g[i]
  BY <1>2, FrontIs
<1>4. u \in [0..n -> Nat] /\ u[0] = 0 /\ u[n] = k /\ \A i \in 1..n : Slice(g[i].words, w, u[i - 1], u[i], Word)
  BY <1>1 DEF Bounded
<1>. HIDE DEF n, f
<1> DEFINE v == [i \in 0 .. n - 1 |-> u[i]]
<1>5. v \in [0 .. n - 1 -> Nat] /\ v[0] = 0 /\ v[n - 1] = u[n - 1] /\ u[n - 1] \in Nat
  BY <1>3, <1>4
<1>6. ASSUME NEW i \in 1 .. n - 1 PROVE Slice(f[i].words, w, v[i - 1], v[i], Word)
  <2>1. i \in 1..n /\ i \in 0 .. n - 1 /\ i - 1 \in 0 .. n - 1 BY <1>3
  <2>2. f[i] = g[i] /\ v[i] = u[i] /\ v[i - 1] = u[i - 1] BY <1>3, <2>1
  <2>3. Slice(g[i].words, w, u[i - 1], u[i], Word) BY <1>4, <2>1
  <2>. QED BY <2>2, <2>3
<1>. HIDE DEF v
<1>7. Bounded(v, f, w, u[n - 1]) BY <1>3, <1>5, <1>6 DEF Bounded
<1>8. Covers(f, w, u[n - 1]) BY <1>3, <1>7 DEF Covers
<1>9. Slice(g[n].words, w, u[n - 1], k, Word)
  <2>1. n \in 1..n BY <1>3
  <2>2. Slice(g[n].words, w, u[n - 1], u[n], Word) BY <1>4, <2>1
  <2>. QED BY <1>4, <2>2
<1>. QED BY <1>3, <1>5, <1>8, <1>9 DEF f

(* A block's words go to the last section or begin a new one. *)
LEMMA NextBlockCovers ==
  ASSUME NEW blocks \in Seq(Block), NEW b \in DOMAIN blocks, NEW g, NEW w, NEW k, NEW m,
         Covers(g, w, k), Slice(WordsOf(blocks, b), w, k, m, Word)
  PROVE  Covers(NextBlock(blocks, g, b), w, m)
<1> DEFINE p == blocks[b].path
           x == WordsOf(blocks, b)
<1>1. p \in Seq(STRING)
  <2>1. blocks[b] \in Block BY LenProperties, ElementOfSeq
  <2>. QED BY <2>1 DEF Block
<1>2. CASE g # <<>> /\ Last(g).path = p
  <2>1. PICK j \in Nat : Covers(Front(g), w, j) /\ Slice(Last(g).words, w, j, k, Word)
    BY <1>2, FrontCovers
  <2>2. Slice(Last(g).words \o x, w, j, m, Word) BY <2>1, SlicesJoin
  <2>3. NextBlock(blocks, g, b) = Append(Front(g), Section(p, Last(g).words \o x))
    BY <1>2 DEF NextBlock
  <2>. HIDE DEF p, x
  <2>4. Covers(Append(Front(g), Section(p, Last(g).words \o x)), w, m)
    BY <1>1, <2>1, <2>2, SectionCovers
  <2>. QED BY <2>3, <2>4
<1>3. CASE ~(g # <<>> /\ Last(g).path = p)
  <2>1. NextBlock(blocks, g, b) = Append(g, Section(p, <<>> \o x)) BY <1>3 DEF NextBlock
  <2>2. Slice(x, w, k, m, Word) /\ x \in Seq(Word) BY DEF Slice
  <2>. HIDE DEF p, x
  <2>3. <<>> \o x = x BY <2>2, ConcatEmptySeq
  <2>4. Covers(Append(g, Section(p, x)), w, m) BY <1>1, <2>2, SectionCovers
  <2>. QED BY <2>1, <2>3, <2>4
<1>. QED BY <1>2, <1>3

(* The sections stay sections. *)
LEMMA NextBlockIsTyped ==
  ASSUME NEW blocks \in Seq(Block), NEW b \in DOMAIN blocks, NEW g \in Seq(Sect)
  PROVE  NextBlock(blocks, g, b) \in Seq(Sect)
<1> DEFINE p == blocks[b].path
           x == WordsOf(blocks, b)
           same == g # <<>> /\ Last(g).path = p
           before == IF same THEN Last(g).words ELSE <<>>
           front == IF same THEN Front(g) ELSE g
<1>1. p \in Seq(STRING)
  <2>1. blocks[b] \in Block BY LenProperties, ElementOfSeq
  <2>. QED BY <2>1 DEF Block
<1>2. x \in Seq(Word) BY WordsOfBlock
<1>3. front \in Seq(Sect) /\ before \in Seq(Word)
  <2>1. CASE same
    <3>1. Front(g) \in Seq(Sect) /\ Last(g) \in Sect BY <2>1, FrontIs
    <3>. QED BY <2>1, <3>1 DEF Sect
  <2>2. CASE ~same BY <2>2
  <2>. QED BY <2>1, <2>2
<1>4. NextBlock(blocks, g, b) = Append(front, Section(p, before \o x)) BY DEF NextBlock
<1>. HIDE DEF p, x, before, front
<1>5. before \o x \in Seq(Word) BY <1>2, <1>3, ConcatProperties
<1>6. Section(p, before \o x) \in Sect BY <1>1, <1>5 DEF Section, Sect
<1>. QED BY <1>3, <1>4, <1>6, AppendIs

(* f has the sections after each block. *)
SectionsGrow(f, blocks) ==
  /\ f \in [0 .. Len(blocks) -> Seq(Sect)] /\ f[0] = <<>>
  /\ \A b \in 1 .. Len(blocks) : f[b] = NextBlock(blocks, f[b - 1], b)
  /\ GroupIntoLeafSections(blocks) = f[Len(blocks)]

(* SectionsGrow is a fold over the blocks. *)
LEMMA GroupTrace ==
  ASSUME NEW blocks \in Seq(Block)
  PROVE  \E f : SectionsGrow(f, blocks)
<1> DEFINE n == Len(blocks)
           X == Seq(Sect)
           base == <<>>
           q == [b \in DOMAIN blocks |-> b]
           step == [p \in X \X (1..n) |-> NextBlock(blocks, p[1], q[p[2]])]
           Is(g) == g = [s \in SUBSET (1..n) |->
                          IF s = {} THEN base ELSE NextBlock(blocks, g[s \ {Max(s)}], q[Max(s)])]
           it == CHOOSE h : Is(h)
<1>0. n \in Nat /\ DOMAIN blocks = 1..n BY LenProperties
<1>1. \A a \in X : \A i \in 1..n : step[<<a, i>>] = NextBlock(blocks, a, q[i]) OBVIOUS
<1>2. step \in [X \X (1..n) -> X]
  <2>1. \A a \in X : \A i \in 1..n : NextBlock(blocks, a, q[i]) \in X BY <1>0, NextBlockIsTyped
  <2>. HIDE DEF X, q
  <2>. QED BY <2>1
<1>3. GroupIntoLeafSections(blocks) = it[1..n]
  <2>1. DOMAIN q = 1..n BY <1>0
  <2>2. FoldLeft(LAMBDA groups, b : NextBlock(blocks, groups, b), <<>>, q) = it[1..n]
    <3>. HIDE DEF q, n
    <3>. QED BY <2>1 DEF FoldLeft, MapThenFoldSet
  <2>. QED BY <2>2 DEF GroupIntoLeafSections
<1>4. base \in X OBVIOUS
<1>. HIDE DEF step
<1>. HIDE DEF X, base, n
<1>5. PICK g \in [SUBSET (1..n) -> X] : Iterates(g, n, base, step)
  BY <1>0, <1>2, <1>4, IterationExists DEF HasIterate
<1>6. ASSUME NEW s \in SUBSET (1..n), s # {}
      PROVE  g[s] = NextBlock(blocks, g[s \ {Max(s)}], q[Max(s)])
  <2>1. Max(s) \in 1..n /\ g[s \ {Max(s)}] \in X BY Zenon, <1>0, <1>6, MaxOfUpTo
  <2>2. g[s] = step[<<g[s \ {Max(s)}], Max(s)>>] BY <1>5, <1>6 DEF Iterates
  <2>. QED BY <1>1, <2>1, <2>2
<1>7. Is(it)
  <2>1. Is(g) BY <1>5, <1>6 DEF Iterates
  <2>. QED BY Zenon, <2>1
<1>. HIDE DEF it
<1>8. Folded(it, n, X, base, step)
  <2>1. \A s \in SUBSET (1..n) :
          it[s] = IF s = {} THEN base ELSE NextBlock(blocks, it[s \ {Max(s)}], q[Max(s)])
    BY Zenon, <1>7
  <2>2. \A s \in SUBSET (1..n) : s # {} => Max(s) \in 1..n BY Zenon, <1>0, MaxOfUpTo
  <2>. QED BY <1>1, <2>1, <2>2 DEF Folded
<1>9. PICK f : Follows(f, n, X, base, step) /\ f[n] = it[1..n]
  <2>1. Traced(n, X, base, step, it[1..n]) BY <1>0, <1>2, <1>4, <1>8, FoldFollows
  <2>. QED BY <2>1 DEF Traced
<1>10. \A i \in 1..n : f[i - 1] \in X BY <1>0, <1>9 DEF Follows
<1>11. \A i \in 1..n : q[i] = i BY <1>0
<1>12. f \in [0..n -> X] /\ \A i \in 1..n : f[i] = NextBlock(blocks, f[i - 1], i)
  <2>1. f \in [0..n -> X] /\ \A i \in 1..n : f[i] = step[<<f[i - 1], i>>] BY <1>9 DEF Follows
  <2>2. \A i \in 1..n : step[<<f[i - 1], i>>] = NextBlock(blocks, f[i - 1], q[i]) BY <1>1, <1>10
  <2>. HIDE DEF q
  <2>. QED BY <1>11, <2>1, <2>2
<1>13. f[0] = base /\ GroupIntoLeafSections(blocks) = f[n] BY <1>3, <1>9 DEF Follows
<1>14. SectionsGrow(f, blocks) BY <1>12, <1>13 DEF SectionsGrow, X, base, n
<1>. QED BY <1>14

(* The sections have the document's words. *)
LEMMA GroupsCover ==
  ASSUME NEW blocks \in Seq(Block)
  PROVE  LET w == FlattenWords(blocks) IN w \in Seq(Word) /\ Covers(GroupIntoLeafSections(blocks), w, Len(w))
<1> DEFINE w == FlattenWords(blocks)
           n == Len(blocks)
           xs == [b \in DOMAIN blocks |-> WordsOf(blocks, b)]
<1>1. PICK f : SectionsGrow(f, blocks) BY GroupTrace
<1>2. n \in Nat /\ DOMAIN blocks = 1..n BY LenProperties
<1>3. Sliced(xs, w, n, Word) BY DocumentIsSliced
<1>4. w \in Seq(Word) BY <1>3 DEF Sliced
<1>. HIDE DEF w
<1>5. PICK e : Ends(e, xs, w, n, Word) /\ e[n] = Len(w) BY <1>3 DEF Sliced
<1>6. e[0] = 0 /\ \A i \in 1..n : Slice(WordsOf(blocks, i), w, e[i - 1], e[i], Word)
  BY <1>2, <1>5 DEF Ends
<1>7. f[0] = <<>> /\ (\A b \in 1..n : f[b] = NextBlock(blocks, f[b - 1], b))
      /\ GroupIntoLeafSections(blocks) = f[n]
  BY <1>1 DEF SectionsGrow
<1>. HIDE DEF n
<1> DEFINE S == {i \in 0..n : Covers(f[i], w, e[i])}
<1>8. 0 \in S BY <1>2, <1>6, <1>7, NothingCovers
<1>9. ASSUME NEW i \in 1..n, i - 1 \in S PROVE i \in S
  <2>1. Covers(f[i - 1], w, e[i - 1]) /\ Slice(WordsOf(blocks, i), w, e[i - 1], e[i], Word)
        /\ i \in DOMAIN blocks
    BY <1>2, <1>6, <1>9
  <2>2. Covers(NextBlock(blocks, f[i - 1], i), w, e[i]) BY <2>1, NextBlockCovers
  <2>. QED BY <1>7, <2>2
<1>10. \A i \in 0..n : i \in S
  <2>1. \A i \in 1..n : i - 1 \in S => i \in S BY <1>9
  <2>. HIDE DEF S
  <2>. QED BY <1>2, <1>8, <2>1, InductionUpTo
<1>11. Covers(f[n], w, e[n]) BY <1>2, <1>10
<1>. QED BY <1>4, <1>5, <1>7, <1>11 DEF w

-----------------------------------------------------------------------------
(* Small sections join the next. *)

(* What is merged and what waits. *)
Merge == [merged : Seq(Sect), pending : Seq(Word), path : Seq(STRING), waits : BOOLEAN]

(* None of these is below the floor, but for the last when but is 1. *)
Floored(g, floor, but) == \A i \in 1 .. Len(g) - but : Len(g[i].words) >= floor

(* After k words. *)
Merging(acc, w, floor, k) ==
  /\ acc \in Merge /\ Floored(acc.merged, floor, 0) /\ (acc.waits \/ acc.pending = <<>>)
  /\ \E j \in Nat : Covers(acc.merged, w, j) /\ Slice(acc.pending, w, j, k, Word)

(* A section added may be small if it is the last. *)
LEMMA FloorOfMore ==
  ASSUME NEW floor \in Nat, NEW g \in Seq(Sect), NEW s \in Sect, Floored(g, floor, 0)
  PROVE  /\ Append(g, s) \in Seq(Sect) /\ Floored(Append(g, s), floor, 1)
         /\ Len(s.words) >= floor => Floored(Append(g, s), floor, 0)
<1> DEFINE n == Len(g)
           h == Append(g, s)
<1>1. n \in Nat /\ h \in Seq(Sect) /\ Len(h) = n + 1 /\ h[n + 1] = s /\ \A i \in 1..n : h[i] = g[i]
  BY AppendIs
<1>2. \A i \in 1..n : Len(g[i].words) >= floor BY <1>1 DEF Floored
<1>. HIDE DEF h, n
<1>3. \A i \in 1..n : Len(h[i].words) >= floor BY <1>1, <1>2
<1>4. Floored(h, floor, 1) BY <1>1, <1>3 DEF Floored
<1>5. ASSUME Len(s.words) >= floor PROVE Floored(h, floor, 0)
  <2>1. \A i \in 1 .. n + 1 : i \in 1..n \/ i = n + 1 BY <1>1
  <2>2. \A i \in 1 .. n + 1 : Len(h[i].words) >= floor BY <1>1, <1>3, <1>5, <2>1
  <2>. QED BY <1>1, <2>2 DEF Floored
<1>. QED BY <1>1, <1>4, <1>5 DEF h

(* It stays such. *)
LEMMA MergeNextIsTyped ==
  ASSUME NEW floor \in Nat, NEW acc \in Merge, NEW s \in Sect
  PROVE  MergeNext(floor, acc, s) \in Merge
<1> DEFINE x == acc.pending \o s.words
           now == Section(s.path, x)
<1>1. acc.merged \in Seq(Sect) /\ acc.pending \in Seq(Word) /\ s.words \in Seq(Word) /\ s.path \in Seq(STRING)
  BY DEF Merge, Sect
<1>2. x \in Seq(Word) BY <1>1, ConcatProperties
<1>. HIDE DEF x
<1>3. now \in Sect /\ now.words = x BY <1>1, <1>2 DEF Section, Sect
<1>4. Append(acc.merged, now) \in Seq(Sect)
  <2>. HIDE DEF now
  <2>. QED BY <1>1, <1>3, AppendIs
<1>5. MergeNext(floor, acc, s) =
        IF Len(x) < floor
        THEN [acc EXCEPT !.pending = x, !.path = s.path, !.waits = TRUE]
        ELSE [merged |-> Append(acc.merged, now), pending |-> <<>>, path |-> <<>>, waits |-> FALSE]
  BY <1>3 DEF MergeNext, x
<1>. HIDE DEF now
<1>6. [acc EXCEPT !.pending = x, !.path = s.path, !.waits = TRUE] \in Merge
  BY <1>1, <1>2 DEF Merge
<1>7. [merged |-> Append(acc.merged, now), pending |-> <<>>, path |-> <<>>, waits |-> FALSE] \in Merge
  BY <1>4 DEF Merge
<1>. QED BY <1>5, <1>6, <1>7

(* A section more (_merge_small_sections). *)
LEMMA MergeNextKeeps ==
  ASSUME NEW floor \in Nat, NEW acc, NEW w, NEW k, NEW m, Merging(acc, w, floor, k), NEW s \in Sect,
         Slice(s.words, w, k, m, Word)
  PROVE  Merging(MergeNext(floor, acc, s), w, floor, m)
<1> DEFINE x == acc.pending \o s.words
           now == Section(s.path, x)
           next == MergeNext(floor, acc, s)
<1>1. /\ acc \in Merge /\ Floored(acc.merged, floor, 0) BY DEF Merging
<1>2. PICK j \in Nat : Covers(acc.merged, w, j) /\ Slice(acc.pending, w, j, k, Word)
  BY DEF Merging
<1>3. Slice(x, w, j, m, Word) BY <1>2, SlicesJoin
<1>4. next \in Merge BY <1>1, MergeNextIsTyped
<1>5. s.path \in Seq(STRING) /\ acc.merged \in Seq(Sect) /\ x \in Seq(Word) /\ m \in Nat
      /\ w \in Seq(Word) /\ m <= Len(w)
  BY <1>1, <1>3 DEF Merge, Sect, Slice
<1>. HIDE DEF x
<1>6. now \in Sect /\ now.words = x BY <1>5 DEF Section, Sect
<1>7. next = IF Len(x) < floor
             THEN [acc EXCEPT !.pending = x, !.path = s.path, !.waits = TRUE]
             ELSE [merged |-> Append(acc.merged, now), pending |-> <<>>, path |-> <<>>, waits |-> FALSE]
  BY <1>6 DEF MergeNext, x
<1>8. CASE Len(x) < floor
  <2>1. next.merged = acc.merged /\ next.pending = x /\ next.waits BY <1>1, <1>7, <1>8 DEF Merge
  <2>. HIDE DEF next
  <2>2. Floored(next.merged, floor, 0) /\ Covers(next.merged, w, j) /\ Slice(next.pending, w, j, m, Word)
    BY <1>1, <1>2, <1>3, <2>1
  <2>. QED BY <1>4, <2>1, <2>2 DEF Merging, next
<1>9. CASE ~(Len(x) < floor)
  <2>1. next.merged = Append(acc.merged, now) /\ next.pending = <<>> BY <1>7, <1>9
  <2>2. Covers(Append(acc.merged, now), w, m) BY <1>2, <1>3, <1>5, SectionCovers
  <2>3. Len(x) \in Nat BY <1>5, LenProperties
  <2>. HIDE DEF next, now
  <2>4. Len(now.words) >= floor BY <1>6, <1>9, <2>3
  <2>5. Floored(Append(acc.merged, now), floor, 0) BY <1>1, <1>5, <1>6, <2>4, FloorOfMore
  <2>6. Slice(<<>>, w, m, m, Word)
    <3>1. <<>> \in Seq(Word) /\ Len(<<>>) = m - m /\ m <= m /\ 1 .. m - m = {} BY <1>5
    <3>. QED BY <1>5, <3>1 DEF Slice
  <2>7. Floored(next.merged, floor, 0) /\ Covers(next.merged, w, m) /\ Slice(next.pending, w, m, m, Word)
    BY <2>1, <2>2, <2>5, <2>6
  <2>. QED BY <1>4, <1>5, <2>1, <2>7 DEF Merging, next
<1>. QED BY <1>8, <1>9

(* Nothing is merged yet. *)
MergeBase == [merged |-> <<>>, pending |-> <<>>, path |-> <<>>, waits |-> FALSE]

(* All sections are. *)
MergedWith(groups, floor) == FoldLeft(LAMBDA acc, g : MergeNext(floor, acc, g), MergeBase, groups)

(* f has what is merged after each section. *)
Gathering(f, groups, floor) ==
  /\ f \in [0 .. Len(groups) -> Merge] /\ f[0] = MergeBase
  /\ \A i \in 1 .. Len(groups) : f[i] = MergeNext(floor, f[i - 1], groups[i])
  /\ MergedWith(groups, floor) = f[Len(groups)]

(* Merging is a fold over the sections. *)
LEMMA MergeTrace ==
  ASSUME NEW floor \in Nat, NEW groups \in Seq(Sect)
  PROVE  \E f : Gathering(f, groups, floor)
<1> DEFINE n == Len(groups)
           X == Merge
           base == MergeBase
           step == [p \in X \X (1..n) |-> MergeNext(floor, p[1], groups[p[2]])]
           Is(g) == g = [s \in SUBSET (1..n) |->
                          IF s = {} THEN base ELSE MergeNext(floor, g[s \ {Max(s)}], groups[Max(s)])]
           it == CHOOSE h : Is(h)
<1>0. n \in Nat /\ DOMAIN groups = 1..n /\ \A i \in 1..n : groups[i] \in Sect
  BY LenProperties, ElementOfSeq
<1>1. \A a \in X : \A i \in 1..n : step[<<a, i>>] = MergeNext(floor, a, groups[i]) OBVIOUS
<1>2. step \in [X \X (1..n) -> X]
  <2>1. \A a \in X : \A i \in 1..n : MergeNext(floor, a, groups[i]) \in X
    BY <1>0, MergeNextIsTyped
  <2>. HIDE DEF X
  <2>. QED BY <2>1
<1>3. MergedWith(groups, floor) = it[1..n]
  <2>. HIDE DEF n, base
  <2>1. FoldLeft(LAMBDA acc, g : MergeNext(floor, acc, g), base, groups) = it[1..n]
    BY <1>0 DEF FoldLeft, MapThenFoldSet
  <2>. QED BY <2>1 DEF MergedWith, base
<1>4. base \in X BY DEF Merge, MergeBase
<1>. HIDE DEF step
<1>. HIDE DEF X, base, n
<1>5. PICK g \in [SUBSET (1..n) -> X] : Iterates(g, n, base, step)
  BY <1>0, <1>2, <1>4, IterationExists DEF HasIterate
<1>6. ASSUME NEW s \in SUBSET (1..n), s # {}
      PROVE  g[s] = MergeNext(floor, g[s \ {Max(s)}], groups[Max(s)])
  <2>1. Max(s) \in 1..n /\ g[s \ {Max(s)}] \in X BY Zenon, <1>0, <1>6, MaxOfUpTo
  <2>2. g[s] = step[<<g[s \ {Max(s)}], Max(s)>>] BY <1>5, <1>6 DEF Iterates
  <2>. QED BY <1>1, <2>1, <2>2
<1>7. Is(it)
  <2>1. Is(g) BY <1>5, <1>6 DEF Iterates
  <2>. QED BY Zenon, <2>1
<1>. HIDE DEF it
<1>8. Folded(it, n, X, base, step)
  <2>1. \A s \in SUBSET (1..n) :
          it[s] = IF s = {} THEN base ELSE MergeNext(floor, it[s \ {Max(s)}], groups[Max(s)])
    BY Zenon, <1>7
  <2>2. \A s \in SUBSET (1..n) : s # {} => Max(s) \in 1..n BY Zenon, <1>0, MaxOfUpTo
  <2>. QED BY <1>1, <2>1, <2>2 DEF Folded
<1>9. PICK f : Follows(f, n, X, base, step) /\ f[n] = it[1..n]
  <2>1. Traced(n, X, base, step, it[1..n]) BY <1>0, <1>2, <1>4, <1>8, FoldFollows
  <2>. QED BY <2>1 DEF Traced
<1>10. \A i \in 1..n : f[i - 1] \in X BY <1>0, <1>9 DEF Follows
<1>11. f \in [0..n -> X] /\ \A i \in 1..n : f[i] = MergeNext(floor, f[i - 1], groups[i])
  BY <1>1, <1>9, <1>10 DEF Follows
<1>12. f[0] = base /\ MergedWith(groups, floor) = f[n] BY <1>3, <1>9 DEF Follows
<1>13. Gathering(f, groups, floor) BY <1>11, <1>12 DEF Gathering, X, base, n
<1>. QED BY <1>13

(* The sections that are cut: the document's words in order, all but the   *)
(* last not below the floor.                                               *)
LEMMA MergedSectionsAre ==
  ASSUME NEW floor \in Nat, NEW groups, NEW w, Covers(groups, w, Len(w)), w \in Seq(Word)
  PROVE  Covers(MergeSmallSections(groups, floor), w, Len(w))
         /\ Floored(MergeSmallSections(groups, floor), floor, 1)
<1> DEFINE n == Len(groups)
<1>1. groups \in Seq(Sect) BY DEF Covers
<1>2. n \in Nat /\ \A i \in 1..n : groups[i] \in Sect BY <1>1, LenProperties, ElementOfSeq
<1>3. PICK f : Gathering(f, groups, floor) BY <1>1, MergeTrace
<1>4. PICK u : Bounded(u, groups, w, Len(w)) BY DEF Covers
<1>5. /\ f[0] = MergeBase /\ (\A i \in 1..n : f[i] = MergeNext(floor, f[i - 1], groups[i]))
      /\ MergedWith(groups, floor) = f[n]
  BY <1>3 DEF Gathering
<1>6. u[0] = 0 /\ u[n] = Len(w) /\ \A i \in 1..n : Slice(groups[i].words, w, u[i - 1], u[i], Word)
  BY <1>4 DEF Bounded
<1>. HIDE DEF n
<1> DEFINE S == {i \in 0..n : Merging(f[i], w, floor, u[i])}
<1>7. 0 \in S
  <2>1. MergeBase \in Merge /\ MergeBase.merged = <<>> /\ MergeBase.pending = <<>>
    BY DEF Merge, MergeBase
  <2>2. Covers(<<>>, w, 0) /\ Slice(<<>>, w, 0, 0, Word) BY NothingCovers, SliceLength
  <2>3. Floored(<<>>, floor, 0) BY DEF Floored
  <2>4. Merging(MergeBase, w, floor, 0) BY <2>1, <2>2, <2>3 DEF Merging
  <2>. QED BY <1>2, <1>5, <1>6, <2>4
<1>8. ASSUME NEW i \in 1..n, i - 1 \in S PROVE i \in S
  <2>1. Merging(f[i - 1], w, floor, u[i - 1]) /\ Slice(groups[i].words, w, u[i - 1], u[i], Word)
        /\ groups[i] \in Sect
    BY <1>2, <1>6, <1>8
  <2>2. Merging(MergeNext(floor, f[i - 1], groups[i]), w, floor, u[i]) BY <2>1, MergeNextKeeps
  <2>. QED BY <1>5, <2>2
<1>9. \A i \in 0..n : i \in S
  <2>1. \A i \in 1..n : i - 1 \in S => i \in S BY <1>8
  <2>. HIDE DEF S
  <2>. QED BY <1>2, <1>7, <2>1, InductionUpTo
<1> DEFINE all == MergedWith(groups, floor)
<1>10. Merging(all, w, floor, Len(w)) BY <1>2, <1>5, <1>6, <1>9
<1>11. MergeSmallSections(groups, floor) =
         all.merged \o (IF all.waits THEN <<Section(all.path, all.pending)>> ELSE <<>>)
  BY DEF MergeSmallSections, MergedWith, MergeBase
<1>. HIDE DEF all
<1>12. all \in Merge /\ Floored(all.merged, floor, 0) /\ (all.waits \/ all.pending = <<>>)
  BY <1>10 DEF Merging
<1>13. PICK j \in Nat : Covers(all.merged, w, j) /\ Slice(all.pending, w, j, Len(w), Word)
  BY <1>10 DEF Merging
<1>14. all.merged \in Seq(Sect) /\ all.path \in Seq(STRING) /\ all.pending \in Seq(Word)
  BY <1>12 DEF Merge
<1>15. CASE all.waits
  <2> DEFINE s == Section(all.path, all.pending)
  <2>1. s \in Sect BY <1>14 DEF Section, Sect
  <2>2. Covers(Append(all.merged, s), w, Len(w)) BY <1>13, <1>14, SectionCovers
  <2>3. MergeSmallSections(groups, floor) = all.merged \o <<s>> BY <1>11, <1>15
  <2>. HIDE DEF s
  <2>4. Append(all.merged, s) = all.merged \o <<s>> BY <1>14, <2>1, AppendIsConcat
  <2>5. Floored(Append(all.merged, s), floor, 1) BY <1>12, <1>14, <2>1, FloorOfMore
  <2>. QED BY <2>2, <2>3, <2>4, <2>5
<1>16. CASE ~all.waits
  <2>1. MergeSmallSections(groups, floor) = all.merged \o <<>> BY <1>11, <1>16
  <2>2. all.merged \o <<>> = all.merged BY <1>14, ConcatEmptySeq
  <2>3. Len(all.pending) = 0 BY <1>12, <1>16
  <2>4. j = Len(w)
    <3>1. Len(all.pending) = Len(w) - j /\ Len(w) \in Nat BY <1>13, LenProperties DEF Slice
    <3>. QED BY <2>3, <3>1
  <2>5. Floored(all.merged, floor, 1)
    <3>1. Len(all.merged) \in Nat BY <1>14, LenProperties
    <3>. QED BY <1>12, <3>1 DEF Floored
  <2>. QED BY <1>13, <2>1, <2>2, <2>4, <2>5
<1>. QED BY <1>15, <1>16

-----------------------------------------------------------------------------
(* The pages of a document's words. *)

(* The first k words are in the order of their pages. *)
Paged(w, k) == \A i, j \in 1..k : i <= j => w[i].page <= w[j].page

(* Their pages are those of the first n blocks. *)
PagesOf(w, k, blocks, n) == \A i \in 1..k : \E c \in 1..n : w[i].page = blocks[c].page

(* Blocks that are in the order of their pages have words that are. *)
LEMMA DocumentIsPaged ==
  ASSUME NEW blocks \in Seq(Block), \A i, j \in DOMAIN blocks : i < j => blocks[i].page <= blocks[j].page
  PROVE  Paged(FlattenWords(blocks), Len(FlattenWords(blocks)))
<1> DEFINE w == FlattenWords(blocks)
           n == Len(blocks)
           xs == [b \in DOMAIN blocks |-> WordsOf(blocks, b)]
<1>1. n \in Nat /\ DOMAIN blocks = 1..n /\ \A b \in 1..n : blocks[b] \in Block
  BY LenProperties, ElementOfSeq
<1>2. \A b \in 1..n : blocks[b].page \in Nat BY <1>1 DEF Block
<1>3. Sliced(xs, w, n, Word) BY DocumentIsSliced
<1>. HIDE DEF w
<1>4. PICK e : Ends(e, xs, w, n, Word) /\ e[n] = Len(w) BY <1>3 DEF Sliced
<1>5. e \in [0..n -> Nat] /\ e[0] = 0 /\ \A i \in 1..n : Slice(WordsOf(blocks, i), w, e[i - 1], e[i], Word)
  BY <1>1, <1>4 DEF Ends
<1>. HIDE DEF n
<1>6. ASSUME NEW b \in 1..n, NEW i \in 1 .. e[b], ~(i <= e[b - 1])
      PROVE  w[i].page = blocks[b].page
  <2> DEFINE x == WordsOf(blocks, b)
             j == i - e[b - 1]
  <2>1. /\ x \in Seq(Word) /\ e[b - 1] \in Nat /\ e[b] \in Nat
        /\ Len(x) = e[b] - e[b - 1] /\ \A l \in 1 .. e[b] - e[b - 1] : x[l] = w[e[b - 1] + l]
    BY <1>5 DEF Slice
  <2>2. \A l \in DOMAIN x : x[l].page = blocks[b].page BY <1>1, WordsOfBlock
  <2>3. DOMAIN x = 1 .. Len(x) BY <2>1, LenProperties
  <2>4. j \in 1 .. e[b] - e[b - 1] /\ e[b - 1] + j = i BY <1>6, <2>1
  <2>. HIDE DEF x, j
  <2>5. x[j] = w[i] /\ j \in DOMAIN x BY <2>1, <2>3, <2>4
  <2>. QED BY <2>2, <2>5
<1> DEFINE S == {b \in 0..n : Paged(w, e[b]) /\ PagesOf(w, e[b], blocks, b)}
<1>7. 0 \in S
  <2>1. 1..0 = {} OBVIOUS
  <2>. QED BY <1>1, <1>5, <2>1 DEF Paged, PagesOf
<1>8. ASSUME NEW b \in 1..n, b - 1 \in S PROVE b \in S
  <2>1. Paged(w, e[b - 1]) /\ PagesOf(w, e[b - 1], blocks, b - 1) BY <1>8
  <2>2. e[b - 1] \in Nat /\ e[b] \in Nat /\ b \in 1..n BY <1>1, <1>5
  <2>3. ASSUME NEW i \in 1 .. e[b], i <= e[b - 1]
        PROVE  \E c \in 1 .. b - 1 : w[i].page = blocks[c].page /\ c \in 1..n /\ c < b
    <3>1. i \in 1 .. e[b - 1] BY <2>2, <2>3
    <3>2. PICK c \in 1 .. b - 1 : w[i].page = blocks[c].page BY <2>1, <3>1 DEF PagesOf
    <3>3. c \in 1..n /\ c < b BY <1>1
    <3>. QED BY <3>2, <3>3
  <2>4. PagesOf(w, e[b], blocks, b)
    <3>1. ASSUME NEW i \in 1 .. e[b] PROVE \E c \in 1..b : w[i].page = blocks[c].page
      <4>1. CASE i <= e[b - 1]
        <5>1. PICK c \in 1 .. b - 1 : w[i].page = blocks[c].page BY <2>3, <4>1
        <5>. QED BY <5>1
      <4>2. CASE ~(i <= e[b - 1])
        <5>1. w[i].page = blocks[b].page /\ b \in 1..b BY <1>6, <4>2
        <5>. QED BY <5>1
      <4>. QED BY <4>1, <4>2
    <3>. QED BY <3>1 DEF PagesOf
  <2>5. ASSUME NEW i \in 1 .. e[b], NEW j \in 1 .. e[b], i <= j PROVE w[i].page <= w[j].page
    <3>1. CASE j <= e[b - 1]
      <4>1. i \in 1 .. e[b - 1] /\ j \in 1 .. e[b - 1] BY <2>2, <2>5, <3>1
      <4>. QED BY <2>1, <2>5, <4>1 DEF Paged
    <3>2. CASE ~(j <= e[b - 1])
      <4>1. w[j].page = blocks[b].page BY <1>6, <3>2
      <4>2. CASE i <= e[b - 1]
        <5>1. PICK c \in 1 .. b - 1 : w[i].page = blocks[c].page /\ c \in 1..n /\ c < b
          BY <2>3, <4>2
        <5>2. blocks[c].page <= blocks[b].page BY <1>1, <5>1
        <5>. QED BY <4>1, <5>1, <5>2
      <4>3. CASE ~(i <= e[b - 1])
        <5>1. w[i].page = blocks[b].page BY <1>6, <4>3
        <5>. QED BY <1>2, <4>1, <5>1
      <4>. QED BY <4>2, <4>3
    <3>. QED BY <3>1, <3>2
  <2>. QED BY <1>1, <2>4, <2>5 DEF Paged
<1>9. \A b \in 0..n : b \in S
  <2>1. \A b \in 1..n : b - 1 \in S => b \in S BY <1>8
  <2>. HIDE DEF S
  <2>. QED BY <1>1, <1>7, <2>1, InductionUpTo
<1>10. Paged(w, e[n]) BY <1>1, <1>9
<1>. QED BY <1>4, <1>10 DEF w

-----------------------------------------------------------------------------
(* The chunks of a section. *)

(* The breadcrumbs a document can have. *)
Crumbs(blocks) == {Breadcrumb(blocks, path) : path \in Seq(STRING)}

(* Its chunks. *)
Chunk(blocks) ==
  [content : Crumbs(blocks) \X Seq(Seq(Nat)), pages : Nat \X Nat, path : Seq(STRING), parent : Nat,
   regions : Seq(Nat \X Nat)]

(* Some words' pages and regions. *)
LEMMA WordsHave ==
  ASSUME NEW x \in Seq(Word), x # <<>>
  PROVE  LET P == {u.page : u \in ToSet(x)}
         IN /\ P \in SUBSET Nat /\ IsFiniteSet(P) /\ P # {} /\ Len(x) \in Nat \ {0}
            /\ P = {x[i].page : i \in 1 .. Len(x)}
            /\ Regions(x) \in Seq(Nat \X Nat) /\ Regions(x) # <<>>
<1> DEFINE n == Len(x)
           P == {u.page : u \in ToSet(x)}
           R == [i \in 1..n |-> x[i].region]
           pg == [i \in 1..n |-> x[i].page]
<1>1. n \in Nat \ {0} /\ DOMAIN x = 1..n /\ \A i \in 1..n : x[i] \in Word
  BY LenProperties, EmptySeq, ElementOfSeq
<1>2. \A i \in 1..n : x[i].page \in Nat /\ x[i].region \in Nat \X Nat BY <1>1 DEF Word
<1>3. ToSet(x) = {x[i] : i \in 1..n} BY <1>1 DEF ToSet
<1>. HIDE DEF n
<1>4. P = {x[i].page : i \in 1..n} BY <1>3
<1>5. P \in SUBSET Nat /\ P # {}
  <2>1. 1 \in 1..n BY <1>1
  <2>2. x[1].page \in P BY <1>4, <2>1
  <2>3. \A y \in P : y \in Nat BY <1>2, <1>4
  <2>. QED BY <2>2, <2>3
<1>6. IsFiniteSet(P)
  <2> DEFINE I == 1..n
  <2>1. IsFiniteSet(I) BY <1>1, FS_Interval
  <2>2. P = {pg[i] : i \in I} BY <1>4
  <2>3. pg \in [I -> P] /\ \A y \in P : \E i \in I : pg[i] = y BY <1>4
  <2>. HIDE DEF I, P, pg
  <2>4. pg \in Surjection(I, P) BY <2>3 DEF Surjection
  <2>. QED BY <2>1, <2>4, FS_Surjection
<1>7. R \in Seq(Nat \X Nat) /\ Len(R) = n BY <1>1, <1>2
<1>8. Regions(x) = Distinct(R) BY <1>1 DEF Regions
<1>9. Regions(x) \in Seq(Nat \X Nat) /\ Regions(x) # <<>>
  <2>1. R[1] \in ToSet(R)
    <3>1. DOMAIN R = 1..n /\ 1 \in 1..n BY <1>1
    <3>. QED BY <3>1 DEF ToSet
  <2>. HIDE DEF R
  <2>2. Distinct(R) \in Seq(Nat \X Nat) /\ ToSet(Distinct(R)) = ToSet(R) BY <1>7, DistinctIs
  <2>3. ToSet(<<>>) = {} BY DEF ToSet
  <2>. QED BY <1>8, <2>1, <2>2, <2>3
<1>. QED BY <1>1, <1>4, <1>5, <1>6, <1>9 DEF n

(* Words make one. *)
LEMMA ChunkIsTyped ==
  ASSUME NEW blocks, NEW x \in Seq(Word), x # <<>>, NEW path \in Seq(STRING), NEW parent \in Nat
  PROVE  ChunkOf(x, Breadcrumb(blocks, path), path, parent) \in Chunk(blocks)
<1> DEFINE P == {u.page : u \in ToSet(x)}
           crumb == Breadcrumb(blocks, path)
<1>1. P \in SUBSET Nat /\ IsFiniteSet(P) /\ P # {} /\ Regions(x) \in Seq(Nat \X Nat)
  BY WordsHave
<1>2. crumb \in Crumbs(blocks) BY DEF Crumbs
<1>3. Texts(x) \in Seq(Seq(Nat)) BY TextsAre
<1>4. ChunkOf(x, crumb, path, parent) =
        [content |-> <<crumb, Texts(x)>>, pages |-> <<Min(P), Max(P)>>, path |-> path, parent |-> parent,
         regions |-> Regions(x)]
  BY DEF ChunkOf
<1>. HIDE DEF P, crumb
<1>5. Min(P) \in Nat /\ Max(P) \in Nat BY <1>1, MinIs, MaxOfNumbers
<1>6. ChunkOf(x, crumb, path, parent) \in Chunk(blocks)
  BY <1>1, <1>2, <1>3, <1>4, <1>5 DEF Chunk
<1>. QED BY <1>6 DEF crumb

(* A chunk of the words after the first a up to the b-th. *)
ChunkIs(c, w, a, b, path, parent) ==
  /\ a \in Nat /\ b \in Nat /\ a < b
  /\ Slice(c.content[2], Texts(w), a, b, Seq(Nat))
  /\ c.pages = <<w[a + 1].page, w[b].page>> /\ c.regions # <<>> /\ c.path = path /\ c.parent = parent

(* Words of one place in the document make it. *)
LEMMA ChunkOfSlice ==
  ASSUME NEW w \in Seq(Word), Paged(w, Len(w)), NEW x, NEW a, NEW b, Slice(x, w, a, b, Word), a < b,
         NEW crumb, NEW path, NEW parent
  PROVE  ChunkIs(ChunkOf(x, crumb, path, parent), w, a, b, path, parent)
<1> DEFINE P == {u.page : u \in ToSet(x)}
           n == b - a
           c == ChunkOf(x, crumb, path, parent)
<1>1. /\ x \in Seq(Word) /\ a \in Nat /\ b \in Nat /\ b <= Len(w)
      /\ Len(x) = n /\ \A j \in 1..n : x[j] = w[a + j]
  BY DEF Slice
<1>2. x # <<>> /\ Len(w) \in Nat
  <2>1. Len(<<>>) = 0 OBVIOUS
  <2>. QED BY <1>1, <2>1, LenProperties
<1>3. P \in SUBSET Nat /\ IsFiniteSet(P) /\ P # {} /\ P = {x[i].page : i \in 1 .. Len(x)} /\ Regions(x) # <<>>
  BY <1>1, <1>2, WordsHave
<1>4. /\ c.content[2] = Texts(x) /\ c.pages = <<Min(P), Max(P)>> /\ c.regions = Regions(x)
      /\ c.path = path /\ c.parent = parent
  BY DEF ChunkOf
<1>5. \A j \in 1..n : a + 1 <= a + j /\ a + j <= b /\ a + j \in 1 .. Len(w) /\ a + 1 \in 1 .. Len(w)
      /\ b \in 1 .. Len(w)
  BY <1>1, <1>2
<1>6. n \in Nat \ {0} /\ 1 \in 1..n /\ n \in 1..n /\ a + n = b BY <1>1
<1>7. \A j \in 1..n : x[j].page = w[a + j].page BY <1>1
<1>. HIDE DEF c
<1>8. P = {x[i].page : i \in 1..n} BY <1>1, <1>3
<1>. HIDE DEF P, n
<1>9. w[a + 1].page \in P /\ w[b].page \in P BY <1>6, <1>7, <1>8
<1>10. \A y \in P : w[a + 1].page <= y /\ y <= w[b].page BY <1>5, <1>7, <1>8 DEF Paged
<1>11. Min(P) = w[a + 1].page
  <2>1. Min(P) \in P /\ \A y \in P : Min(P) <= y BY <1>3, MinIs
  <2>2. Min(P) \in Nat /\ w[a + 1].page \in Nat /\ Min(P) <= w[a + 1].page /\ w[a + 1].page <= Min(P)
    BY <1>3, <1>9, <1>10, <2>1
  <2>. QED BY ONLY <2>2
<1>12. Max(P) = w[b].page
  <2>1. Max(P) \in P /\ \A y \in P : y <= Max(P) BY <1>3, MaxOfNumbers
  <2>2. Max(P) \in Nat /\ w[b].page \in Nat /\ Max(P) <= w[b].page /\ w[b].page <= Max(P)
    BY <1>3, <1>9, <1>10, <2>1
  <2>. QED BY ONLY <2>2
<1>13. Slice(Texts(x), Texts(w), a, b, Seq(Nat)) BY TextsOfSlice
<1>14. ChunkIs(c, w, a, b, path, parent) BY <1>1, <1>3, <1>4, <1>11, <1>12, <1>13 DEF ChunkIs
<1>. QED BY <1>14 DEF c

(* Where a section of this size is cut. *)
PiecesCutAt(z, n, size, ceiling) ==
  /\ n \in Nat /\ z \in [0..n -> Nat] /\ z[0] = 0 /\ z[n] = size
  /\ \A i \in 1..n : z[i - 1] < z[i] /\ z[i] - z[i - 1] <= ceiling /\ z[i] <= size
  /\ \A floor \in Nat \ {0} : floor <= ceiling =>
       /\ size >= floor => \A i \in 1..n : i = 1 => z[1] >= floor
       /\ size < floor => n <= 1

(* The pieces of a section. *)
PiecesAre(P, blocks, s, z, n, ordinal) ==
  /\ P \in Seq(Chunk(blocks)) /\ Len(P) = n
  /\ \A i \in 1..n : P[i] = ChunkOf(SubSeq(s.words, z[i - 1] + 1, z[i]), Breadcrumb(blocks, s.path), s.path,
                                    IF i = 1 THEN None ELSE ordinal)

(* A section is cut so (_structural_chunks). *)
LEMMA SectionPiecesExist ==
  ASSUME NEW blocks, NEW s \in Sect, NEW ceiling \in Nat \ {0}, NEW ordinal \in Nat
  PROVE  \E z, n : PiecesCutAt(z, n, Len(s.words), ceiling)
         /\ PiecesAre(Pieces(blocks, s, ceiling, ordinal), blocks, s, z, n, ordinal)
<1> DEFINE size == Len(s.words)
           n == (size + ceiling - 1) \div ceiling
           z == [i \in 0..n |-> IF i = n THEN size ELSE i * ceiling]
           P == Pieces(blocks, s, ceiling, ordinal)
<1>1. s.words \in Seq(Word) /\ s.path \in Seq(STRING) BY DEF Sect
<1>2. size \in Nat BY <1>1, LenProperties
<1>3. P = [i \in 1..n |->
             ChunkOf(SubSeq(s.words, (i - 1) * ceiling + 1, Min({i * ceiling, size})),
                     Breadcrumb(blocks, s.path), s.path, IF i = 1 THEN None ELSE ordinal)]
  BY DEF Pieces
<1>. HIDE DEF P, size
<1>4. /\ n \in Nat /\ (n - 1) * ceiling < size /\ size <= n * ceiling /\ (size = 0 <=> n = 0)
      /\ \A i \in 1..n : (i - 1) * ceiling \in Nat /\ (i - 1) * ceiling < size
      /\ \A i \in 1 .. n - 1 : i * ceiling \in Nat /\ i * ceiling < size
  BY <1>2, BatchCount
<1>. HIDE DEF n
<1>5. \A i \in Nat : i * ceiling \in Nat OBVIOUS
<1>6. \A i \in 1..n : i * ceiling = (i - 1) * ceiling + ceiling BY <1>4
<1>7. 0 * ceiling = 0 /\ 1 * ceiling = ceiling OBVIOUS
<1> DEFINE at(i) == i * ceiling
<1>8. /\ (\A i \in 1..n : at(i) = at(i - 1) + ceiling) /\ (\A i \in Nat : at(i) \in Nat) /\ at(0) = 0
      /\ at(1) = ceiling
      /\ (n - 1 \in Nat => at(n - 1) < size) /\ size <= at(n)
      /\ (\A i \in 1..n : at(i - 1) < size) /\ \A i \in 1 .. n - 1 : at(i) < size
  BY <1>4, <1>5, <1>6, <1>7
<1>9. z = [i \in 0..n |-> IF i = n THEN size ELSE at(i)] OBVIOUS
<1>10. P = [i \in 1..n |->
              ChunkOf(SubSeq(s.words, at(i - 1) + 1, Min({at(i), size})),
                      Breadcrumb(blocks, s.path), s.path, IF i = 1 THEN None ELSE ordinal)]
  BY <1>3
<1>. HIDE DEF at, z
<1>11. \A i \in 0..n : z[i] = IF i = n THEN size ELSE at(i) BY <1>9
<1>12. z \in [0..n -> Nat] /\ z[0] = 0 /\ z[n] = size
  <2>1. \A i \in 0..n : z[i] \in Nat BY <1>2, <1>8, <1>11
  <2>2. z[0] = 0 BY <1>2, <1>4, <1>8, <1>11
  <2>. QED BY <1>4, <1>9, <1>11, <2>1, <2>2
<1>13. ASSUME NEW i \in 1..n
       PROVE  /\ z[i - 1] = at(i - 1) /\ z[i - 1] < z[i] /\ z[i] - z[i - 1] <= ceiling /\ z[i] <= size
              /\ Min({at(i), size}) = z[i]
  <2> DEFINE Q == {at(i), size}
  <2>1. i - 1 \in 0..n /\ i - 1 # n /\ i \in 0..n /\ i \in Nat /\ i - 1 \in Nat BY <1>4
  <2>2. z[i - 1] = at(i - 1) /\ at(i - 1) \in Nat /\ at(i) \in Nat /\ at(i) = at(i - 1) + ceiling
        /\ at(i - 1) < size
    BY <1>8, <1>11, <2>1
  <2>3. z[i] = IF i = n THEN size ELSE at(i) BY <1>11, <2>1
  <2>4. Q \in SUBSET Nat /\ Q # {} BY <1>2, <2>2
  <2>5. Min(Q) \in {at(i), size} /\ Min(Q) <= at(i) /\ Min(Q) <= size
    <3>1. at(i) \in Q /\ size \in Q OBVIOUS
    <3>2. Min(Q) \in Q /\ \A y \in Q : Min(Q) <= y
      <4>. HIDE DEF Q
      <4>. QED BY <2>4, MinIs
    <3>. QED BY <3>1, <3>2
  <2>. HIDE DEF Q
  <2>6. CASE i = n BY <1>2, <1>8, <2>2, <2>3, <2>5, <2>6 DEF Q
  <2>7. CASE i # n
    <3>1. i \in 1 .. n - 1 BY <1>4, <2>7
    <3>2. at(i) < size BY <1>8, <3>1
    <3>. QED BY <1>2, <2>2, <2>3, <2>5, <2>7, <3>2 DEF Q
  <2>. QED BY <2>6, <2>7
<1>14. ASSUME NEW floor \in Nat \ {0}, floor <= ceiling
       PROVE  /\ size >= floor => \A i \in 1..n : i = 1 => z[1] >= floor
              /\ size < floor => n <= 1
  <2>1. ASSUME 1 \in 1..n, size >= floor PROVE z[1] >= floor
    <3>1. z[1] = IF 1 = n THEN size ELSE at(1) BY <1>11, <2>1
    <3>. QED BY <1>8, <1>14, <2>1, <3>1
  <2>2. ASSUME size < floor, ~(n <= 1) PROVE FALSE
    <3>1. 1 \in 1 .. n - 1 BY <1>4, <2>2
    <3>2. at(1) < size BY <1>8, <3>1
    <3>. QED BY <1>2, <1>8, <1>14, <2>2, <3>2
  <2>. QED BY <2>1, <2>2
<1>15. PiecesCutAt(z, n, size, ceiling) BY <1>4, <1>12, <1>13, <1>14 DEF PiecesCutAt
<1> DEFINE C(i) == ChunkOf(SubSeq(s.words, z[i - 1] + 1, z[i]), Breadcrumb(blocks, s.path), s.path,
                           IF i = 1 THEN None ELSE ordinal)
<1>16. P = [i \in 1..n |-> C(i)] BY <1>10, <1>13
<1>17. ASSUME NEW i \in 1..n PROVE C(i) \in Chunk(blocks)
  <2> DEFINE x == SubSeq(s.words, z[i - 1] + 1, z[i])
             parent == IF i = 1 THEN None ELSE ordinal
  <2>1. z[i - 1] \in Nat /\ z[i] \in Nat /\ z[i - 1] < z[i] /\ z[i] <= size
    <3>1. i \in 0..n /\ i - 1 \in 0..n BY <1>4
    <3>. QED BY <1>12, <1>13, <3>1
  <2>2. Slice(s.words, s.words, 0, size, Word) BY <1>1, SliceLength DEF size
  <2>3. Slice(x, s.words, 0 + z[i - 1], 0 + z[i], Word)
    <3>1. z[i - 1] <= z[i] /\ z[i] <= size - 0 BY <1>2, <2>1
    <3>. QED BY <2>1, <2>2, <3>1, SliceOfSlice
  <2>. HIDE DEF x
  <2>4. x \in Seq(Word) /\ Len(x) # 0 BY <2>1, <2>3 DEF Slice
  <2>5. x # <<>> BY <2>4
  <2>6. parent \in Nat BY DEF None
  <2>. HIDE DEF parent
  <2>7. ChunkOf(x, Breadcrumb(blocks, s.path), s.path, parent) \in Chunk(blocks)
    BY <1>1, <2>4, <2>5, <2>6, ChunkIsTyped
  <2>. QED BY <2>7 DEF x, parent
<1>18. P \in Seq(Chunk(blocks)) /\ Len(P) = n /\ \A i \in 1..n : P[i] = C(i)
  <2>. HIDE DEF C
  <2>. QED BY <1>4, <1>16, <1>17
<1>19. PiecesAre(P, blocks, s, z, n, ordinal) BY <1>18 DEF PiecesAre
<1>. QED BY <1>15, <1>19 DEF P, size

-----------------------------------------------------------------------------
(* The chunks of all sections. *)

(* A later piece points to the first one of its section. *)
Linked(c) ==
  \A i \in 1 .. Len(c) :
    \/ c[i].parent = None
    \/ c[i].parent \in 1 .. Len(c) /\ c[c[i].parent].parent = None /\ c[c[i].parent].path = c[i].path

(* c's bodies are the first k words of w. *)
Chunked(v, c, blocks, w, k, ceiling) ==
  /\ c \in Seq(Chunk(blocks)) /\ v \in [0 .. Len(c) -> Nat] /\ v[0] = 0 /\ v[Len(c)] = k /\ Linked(c)
  /\ \A i \in 1 .. Len(c) : ChunkIs(c[i], w, v[i - 1], v[i], c[i].path, c[i].parent)
     /\ v[i] - v[i - 1] <= ceiling

(* No section is below the floor, unless it may be and is the last. *)
Heads(c, v, floor, small) ==
  \A i \in 1 .. Len(c) : c[i].parent = None /\ v[i] - v[i - 1] < floor => small /\ i = Len(c)

(* They end somewhere, and no small section is left before them. *)
HasChunks(c, blocks, w, k, floor, ceiling, small) ==
  \E v : Chunked(v, c, blocks, w, k, ceiling) /\ Heads(c, v, floor, small)

(* The pieces of one more section. *)
LEMMA PiecesFollow ==
  ASSUME NEW blocks, NEW w \in Seq(Word), Paged(w, Len(w)), NEW k, NEW m, NEW floor \in Nat \ {0},
         NEW ceiling \in Nat, floor <= ceiling, NEW c, NEW v, Chunked(v, c, blocks, w, k, ceiling), Heads(c,
         v, floor, FALSE),
         NEW s \in Sect, Slice(s.words, w, k, m, Word)
  PROVE  HasChunks(c \o Pieces(blocks, s, ceiling, Len(c) + 1), blocks, w, m, floor, ceiling,
         Len(s.words) < floor)
<1> DEFINE N == Len(c)
           P == Pieces(blocks, s, ceiling, N + 1)
           d == c \o P
           size == Len(s.words)
<1>1. /\ c \in Seq(Chunk(blocks)) /\ v \in [0..N -> Nat] /\ v[0] = 0 /\ v[N] = k /\ Linked(c)
      /\ \A i \in 1..N : ChunkIs(c[i], w, v[i - 1], v[i], c[i].path, c[i].parent) /\ v[i] - v[i - 1] <= ceiling
  BY DEF Chunked
<1>2. N \in Nat /\ k \in Nat /\ m \in Nat /\ size = m - k /\ k <= m
  BY <1>1, LenProperties DEF Slice
<1>3. ceiling \in Nat \ {0} /\ N + 1 \in Nat BY <1>2
<1>4. PICK z, n : PiecesCutAt(z, n, size, ceiling) /\ PiecesAre(P, blocks, s, z, n, N + 1)
  BY <1>3, SectionPiecesExist
<1>5. /\ n \in Nat /\ z \in [0..n -> Nat] /\ z[0] = 0 /\ z[n] = size
      /\ \A i \in 1..n : z[i - 1] < z[i] /\ z[i] - z[i - 1] <= ceiling /\ z[i] <= size
  BY <1>4 DEF PiecesCutAt
<1>6. /\ size >= floor => \A i \in 1..n : i = 1 => z[1] >= floor
      /\ size < floor => n <= 1
  BY <1>4 DEF PiecesCutAt
<1>7. /\ P \in Seq(Chunk(blocks)) /\ Len(P) = n
      /\ \A i \in 1..n : P[i] = ChunkOf(SubSeq(s.words, z[i - 1] + 1, z[i]), Breadcrumb(blocks, s.path), s.path,
                                        IF i = 1 THEN None ELSE N + 1)
  BY <1>4 DEF PiecesAre
<1>. HIDE DEF P
<1>8. /\ d \in Seq(Chunk(blocks)) /\ Len(d) = N + n
      /\ \A i \in 1 .. N + n : d[i] = IF i <= N THEN c[i] ELSE P[i - N]
  BY <1>1, <1>7, ConcatProperties
<1>. HIDE DEF d, N, size
<1>9. \A i \in 1..N : d[i] = c[i] BY <1>2, <1>5, <1>8
<1>10. ASSUME NEW i \in 1..n PROVE N + i \in 1 .. N + n /\ d[N + i] = P[i]
  <2>1. N + i \in 1 .. N + n /\ ~(N + i <= N) /\ (N + i) - N = i BY <1>2, <1>5
  <2>. QED BY <1>8, <2>1
<1>11. ASSUME NEW i \in 1 .. N + n, i \notin 1..N PROVE i - N \in 1..n /\ N + (i - N) = i
  BY <1>2, <1>5, <1>11
<1> DEFINE x == [i \in 0 .. N + n |-> IF i <= N THEN v[i] ELSE k + z[i - N]]
<1>12. \A i \in 0..N : i \in 0 .. N + n /\ x[i] = v[i] /\ v[i] \in Nat BY <1>1, <1>2, <1>5
<1>13. ASSUME NEW i \in 0..n PROVE N + i \in 0 .. N + n /\ x[N + i] = k + z[i] /\ z[i] \in Nat
  <2>1. N + i \in 0 .. N + n /\ z[i] \in Nat BY <1>2, <1>5
  <2>2. CASE i = 0 BY <1>1, <1>2, <1>5, <1>12, <2>2
  <2>3. CASE i # 0
    <3>1. ~(N + i <= N) /\ (N + i) - N = i BY <1>2, <1>5, <2>3
    <3>. QED BY <2>1, <3>1
  <2>. QED BY <2>1, <2>2, <2>3
<1>14. x \in [0 .. N + n -> Nat]
  <2>1. ASSUME NEW i \in 0 .. N + n PROVE x[i] \in Nat
    <3>1. CASE i \in 0..N BY <1>12, <3>1
    <3>2. CASE i \notin 0..N
      <4>1. i - N \in 0..n /\ N + (i - N) = i BY <1>2, <1>5, <3>2
      <4>2. x[i] = k + z[i - N] /\ z[i - N] \in Nat BY <1>13, <4>1
      <4>. QED BY <1>2, <4>2
    <3>. QED BY <3>1, <3>2
  <2>2. x = [i \in 0 .. N + n |-> x[i]] OBVIOUS
  <2>. HIDE DEF x
  <2>. QED BY <2>1, <2>2
<1>. HIDE DEF x
<1>15. x[0] = 0 /\ x[N + n] = m
  <2>1. x[0] = v[0] BY <1>2, <1>12
  <2>2. x[N + n] = k + z[n] BY <1>5, <1>13
  <2>. QED BY <1>1, <1>2, <1>5, <2>1, <2>2
<1>16. ASSUME NEW i \in 1..n
       PROVE  /\ ChunkIs(d[N + i], w, x[N + i - 1], x[N + i], s.path, IF i = 1 THEN None ELSE N + 1)
              /\ x[N + i] - x[N + i - 1] = z[i] - z[i - 1] /\ z[i] - z[i - 1] <= ceiling
              /\ d[N + i].path = s.path /\ d[N + i].parent = IF i = 1 THEN None ELSE N + 1
  <2> DEFINE y == SubSeq(s.words, z[i - 1] + 1, z[i])
             parent == IF i = 1 THEN None ELSE N + 1
  <2>1. i \in 0..n /\ i - 1 \in 0..n /\ N + (i - 1) = N + i - 1 BY <1>2, <1>5
  <2>2. z[i - 1] \in Nat /\ z[i] \in Nat /\ z[i - 1] < z[i] /\ z[i] <= m - k /\ z[i - 1] <= z[i]
        /\ z[i] - z[i - 1] <= ceiling
    <3>1. z[i - 1] \in Nat /\ z[i] \in Nat /\ z[i - 1] < z[i] /\ z[i] <= size /\ z[i] - z[i - 1] <= ceiling
      BY <1>5, <2>1
    <3>. QED BY <1>2, <3>1
  <2>3. x[N + i] = k + z[i] /\ x[N + i - 1] = k + z[i - 1]
    <3>1. x[N + (i - 1)] = k + z[i - 1] /\ x[N + i] = k + z[i] BY <1>13, <2>1
    <3>. QED BY <2>1, <3>1
  <2>4. Slice(y, w, k + z[i - 1], k + z[i], Word) BY <2>2, SliceOfSlice
  <2>5. d[N + i] = ChunkOf(y, Breadcrumb(blocks, s.path), s.path, parent) BY <1>7, <1>10
  <2>. HIDE DEF y, parent
  <2>6. k + z[i - 1] < k + z[i] /\ x[N + i] - x[N + i - 1] = z[i] - z[i - 1]
    BY SMTT(60), <1>2, <2>2, <2>3
  <2>7. ChunkIs(ChunkOf(y, Breadcrumb(blocks, s.path), s.path, parent), w, k + z[i - 1], k + z[i], s.path,
        parent)
    BY <2>4, <2>6, ChunkOfSlice
  <2>8. ChunkIs(d[N + i], w, x[N + i - 1], x[N + i], s.path, parent) BY <2>3, <2>5, <2>7
  <2>9. d[N + i].path = s.path /\ d[N + i].parent = parent BY <2>8 DEF ChunkIs
  <2>. QED BY <2>2, <2>6, <2>8, <2>9 DEF parent
<1>17. ASSUME NEW i \in 1 .. N + n
       PROVE  /\ ChunkIs(d[i], w, x[i - 1], x[i], d[i].path, d[i].parent) /\ x[i] - x[i - 1] <= ceiling
              /\ \/ d[i].parent = None
                 \/ d[i].parent \in 1 .. N + n /\ d[d[i].parent].parent = None
                    /\ d[d[i].parent].path = d[i].path
              /\ d[i].parent = None /\ x[i] - x[i - 1] < floor => size < floor /\ i = N + n
  <2>1. CASE i \in 1..N
    <3>1. d[i] = c[i] /\ x[i] = v[i] /\ x[i - 1] = v[i - 1]
      <4>1. i \in 0..N /\ i - 1 \in 0..N BY <1>2, <2>1
      <4>. QED BY <1>9, <1>12, <2>1, <4>1
    <3>2. ChunkIs(c[i], w, v[i - 1], v[i], c[i].path, c[i].parent) /\ v[i] - v[i - 1] <= ceiling
      BY <1>1, <2>1
    <3>3. \/ c[i].parent = None
          \/ c[i].parent \in 1..N /\ c[c[i].parent].parent = None /\ c[c[i].parent].path = c[i].path
      BY <1>1, <2>1 DEF Linked, N
    <3>4. \A q \in 1..N : q \in 1 .. N + n BY <1>2, <1>5
    <3>5. \/ d[i].parent = None
          \/ d[i].parent \in 1 .. N + n /\ d[d[i].parent].parent = None /\ d[d[i].parent].path = d[i].path
      BY <1>9, <3>1, <3>3, <3>4
    <3>6. ~(c[i].parent = None /\ v[i] - v[i - 1] < floor) BY <2>1 DEF Heads, N
    <3>. QED BY <3>1, <3>2, <3>5, <3>6
  <2>2. CASE i \notin 1..N
    <3>1. PICK j \in 1..n : N + j = i BY <1>11, <2>2
    <3>2. /\ ChunkIs(d[i], w, x[i - 1], x[i], s.path, IF j = 1 THEN None ELSE N + 1)
          /\ x[i] - x[i - 1] = z[j] - z[j - 1] /\ z[j] - z[j - 1] <= ceiling
          /\ d[i].path = s.path /\ d[i].parent = IF j = 1 THEN None ELSE N + 1
      <4>1. /\ ChunkIs(d[N + j], w, x[N + j - 1], x[N + j], s.path, IF j = 1 THEN None ELSE N + 1)
            /\ x[N + j] - x[N + j - 1] = z[j] - z[j - 1] /\ z[j] - z[j - 1] <= ceiling
            /\ d[N + j].path = s.path /\ d[N + j].parent = IF j = 1 THEN None ELSE N + 1
        BY <1>16
      <4>2. N + j = i /\ N + j - 1 = i - 1 BY <1>2, <1>5, <3>1
      <4>. QED BY ONLY <4>1, <4>2
    <3>3. ChunkIs(d[i], w, x[i - 1], x[i], d[i].path, d[i].parent) /\ x[i] - x[i - 1] <= ceiling
      BY <3>2
    <3>4. 1 \in 1..n /\ N + 1 \in 1 .. N + n BY <1>2, <1>5, <3>1
    <3>5. d[N + 1].parent = None /\ d[N + 1].path = s.path BY <1>16, <3>4
    <3>6. N + 1 # None BY <1>2 DEF None
    <3>7. \/ d[i].parent = None
          \/ d[i].parent \in 1 .. N + n /\ d[d[i].parent].parent = None /\ d[d[i].parent].path = d[i].path
      BY <3>2, <3>4, <3>5
    <3>8. ASSUME d[i].parent = None, x[i] - x[i - 1] < floor PROVE size < floor /\ i = N + n
      <4>1. j = 1 BY <3>2, <3>6, <3>8
      <4>2. z[1] - z[0] < floor /\ z[0] = 0 /\ z[1] \in Nat
        <5>1. 1 \in 0..n /\ 1 - 1 = 0 BY <1>5, <3>4
        <5>. QED BY <1>5, <3>2, <3>8, <4>1, <5>1
      <4>3. ~(size >= floor)
        <5>1. ~(z[1] >= floor) BY <4>2
        <5>. QED BY <1>6, <3>4, <5>1
      <4>4. size < floor BY <1>2, <4>3
      <4>5. n = 1 BY <1>5, <1>6, <3>4, <4>4
      <4>. QED BY <3>1, <4>1, <4>4, <4>5
    <3>. QED BY <3>3, <3>7, <3>8
  <2>. QED BY <2>1, <2>2
<1>18. Linked(d) BY <1>8, <1>17 DEF Linked
<1>19. Chunked(x, d, blocks, w, m, ceiling) BY <1>8, <1>14, <1>15, <1>17, <1>18 DEF Chunked
<1>20. Heads(d, x, floor, size < floor) BY <1>8, <1>17 DEF Heads
<1>21. HasChunks(d, blocks, w, m, floor, ceiling, size < floor) BY <1>19, <1>20 DEF HasChunks
<1>. QED BY <1>21 DEF d, P, N, size

(* The chunks of some sections. *)
ChunksOver(blocks, ceiling, q) ==
  FoldLeft(LAMBDA chunks, section : chunks \o Pieces(blocks, section, ceiling, Len(chunks) + 1), <<>>, q)

(* f has the chunks after each section. *)
ChunksGrow(f, blocks, ceiling, q) ==
  /\ f \in [0 .. Len(q) -> Seq(Chunk(blocks))] /\ f[0] = <<>>
  /\ \A i \in 1 .. Len(q) : f[i] = f[i - 1] \o Pieces(blocks, q[i], ceiling, Len(f[i - 1]) + 1)
  /\ ChunksOver(blocks, ceiling, q) = f[Len(q)]

(* Cutting is a fold over the sections. *)
LEMMA ChunksTrace ==
  ASSUME NEW blocks, NEW ceiling \in Nat \ {0}, NEW q \in Seq(Sect)
  PROVE  \E f : ChunksGrow(f, blocks, ceiling, q)
<1> DEFINE n == Len(q)
           X == Seq(Chunk(blocks))
           base == <<>>
           next(a, i) == a \o Pieces(blocks, q[i], ceiling, Len(a) + 1)
           step == [p \in X \X (1..n) |-> p[1] \o Pieces(blocks, q[p[2]], ceiling, Len(p[1]) + 1)]
           Is(g) == g = [s \in SUBSET (1..n) |->
                          IF s = {} THEN base
                          ELSE g[s \ {Max(s)}] \o Pieces(blocks, q[Max(s)], ceiling, Len(g[s \ {Max(s)}]) + 1)]
           it == CHOOSE h : Is(h)
<1>0. n \in Nat /\ DOMAIN q = 1..n /\ \A i \in 1..n : q[i] \in Sect
  BY LenProperties, ElementOfSeq
<1>1. \A a \in X : \A i \in 1..n : step[<<a, i>>] = next(a, i) OBVIOUS
<1>2. step \in [X \X (1..n) -> X]
  <2>1. ASSUME NEW a \in X, NEW i \in 1..n PROVE next(a, i) \in X
    <3> DEFINE P == Pieces(blocks, q[i], ceiling, Len(a) + 1)
    <3>1. Len(a) + 1 \in Nat BY LenProperties
    <3>2. \E z, l : PiecesCutAt(z, l, Len(q[i].words), ceiling) /\ PiecesAre(P, blocks, q[i], z, l, Len(a) + 1)
      BY <1>0, <3>1, SectionPiecesExist
    <3>3. P \in X BY <3>2 DEF PiecesAre
    <3>. HIDE DEF P
    <3>4. a \o P \in X BY <3>3, ConcatProperties
    <3>. QED BY <3>4 DEF P
  <2>2. \A a \in X : \A i \in 1..n : next(a, i) \in X BY <2>1
  <2>. HIDE DEF X
  <2>. QED BY <2>2
<1>3. ChunksOver(blocks, ceiling, q) = it[1..n]
  <2>. HIDE DEF n, base
  <2>1. FoldLeft(LAMBDA chunks, section : chunks \o Pieces(blocks, section, ceiling, Len(chunks) + 1), base,
        q) = it[1..n]
    BY <1>0 DEF FoldLeft, MapThenFoldSet
  <2>. QED BY <2>1 DEF ChunksOver, base
<1>4. base \in X OBVIOUS
<1>. HIDE DEF step
<1>. HIDE DEF X, base, n
<1>5. PICK g \in [SUBSET (1..n) -> X] : Iterates(g, n, base, step)
  BY <1>0, <1>2, <1>4, IterationExists DEF HasIterate
<1>6. ASSUME NEW s \in SUBSET (1..n), s # {}
      PROVE  g[s] = next(g[s \ {Max(s)}], Max(s))
  <2>1. Max(s) \in 1..n /\ g[s \ {Max(s)}] \in X BY Zenon, <1>0, <1>6, MaxOfUpTo
  <2>2. g[s] = step[<<g[s \ {Max(s)}], Max(s)>>] BY <1>5, <1>6 DEF Iterates
  <2>. HIDE DEF next
  <2>. QED BY <1>1, <2>1, <2>2
<1>7. Is(it)
  <2>1. Is(g) BY <1>5, <1>6 DEF Iterates
  <2>. QED BY Zenon, <2>1
<1>. HIDE DEF it
<1>8. Folded(it, n, X, base, step)
  <2>1. \A s \in SUBSET (1..n) :
          it[s] = IF s = {} THEN base ELSE next(it[s \ {Max(s)}], Max(s))
    BY Zenon, <1>7
  <2>2. \A s \in SUBSET (1..n) : s # {} => Max(s) \in 1..n BY Zenon, <1>0, MaxOfUpTo
  <2>. HIDE DEF next
  <2>. QED BY <1>1, <2>1, <2>2 DEF Folded
<1>9. PICK f : Follows(f, n, X, base, step) /\ f[n] = it[1..n]
  <2>1. Traced(n, X, base, step, it[1..n]) BY <1>0, <1>2, <1>4, <1>8, FoldFollows
  <2>. QED BY <2>1 DEF Traced
<1>10. \A i \in 1..n : f[i - 1] \in X BY <1>0, <1>9 DEF Follows
<1>11. f \in [0..n -> X] /\ \A i \in 1..n : f[i] = next(f[i - 1], i)
  <2>1. f \in [0..n -> X] /\ \A i \in 1..n : f[i] = step[<<f[i - 1], i>>] BY <1>9 DEF Follows
  <2>. HIDE DEF next
  <2>2. \A i \in 1..n : step[<<f[i - 1], i>>] = next(f[i - 1], i) BY <1>1, <1>10
  <2>. QED BY <2>1, <2>2
<1>12. f[0] = base /\ ChunksOver(blocks, ceiling, q) = f[n] BY <1>3, <1>9 DEF Follows
<1>13. ChunksGrow(f, blocks, ceiling, q) BY <1>11, <1>12 DEF ChunksGrow, X, base, n
<1>. QED BY <1>13

(* They have the words of the sections. *)
LEMMA ChunksOverAre ==
  ASSUME NEW blocks, NEW w \in Seq(Word), Paged(w, Len(w)), NEW floor \in Nat \ {0},
         NEW ceiling \in Nat, floor <= ceiling, NEW q, Covers(q, w, Len(w)), Floored(q, floor, 1)
  PROVE  HasChunks(ChunksOver(blocks, ceiling, q), blocks, w, Len(w), floor, ceiling, TRUE)
<1> DEFINE n == Len(q)
<1>1. q \in Seq(Sect) BY DEF Covers
<1>2. n \in Nat /\ \A i \in 1..n : q[i] \in Sect BY <1>1, LenProperties, ElementOfSeq
<1>3. ceiling \in Nat \ {0} OBVIOUS
<1>4. PICK f : ChunksGrow(f, blocks, ceiling, q) BY <1>1, <1>3, ChunksTrace
<1>5. /\ f[0] = <<>> /\ ChunksOver(blocks, ceiling, q) = f[n]
      /\ \A i \in 1..n : f[i] = f[i - 1] \o Pieces(blocks, q[i], ceiling, Len(f[i - 1]) + 1)
  BY <1>4 DEF ChunksGrow
<1>6. PICK u : Bounded(u, q, w, Len(w)) BY DEF Covers
<1>7. u[0] = 0 /\ u[n] = Len(w) /\ \A i \in 1..n : Slice(q[i].words, w, u[i - 1], u[i], Word)
  BY <1>6 DEF Bounded
<1>8. \A i \in 1 .. n - 1 : Len(q[i].words) >= floor BY DEF Floored
<1>. HIDE DEF n
<1> DEFINE S == {i \in 0..n : HasChunks(f[i], blocks, w, u[i], floor, ceiling, i = n)}
<1>9. 0 \in S
  <2> DEFINE v == [i \in 0..0 |-> 0]
  <2>1. v \in [0..0 -> Nat] /\ v[0] = 0 /\ <<>> \in Seq(Chunk(blocks)) /\ Len(<<>>) = 0 /\ 1..0 = {}
    OBVIOUS
  <2>. HIDE DEF v
  <2>2. Chunked(v, <<>>, blocks, w, 0, ceiling) BY <2>1 DEF Chunked, Linked
  <2>3. Heads(<<>>, v, floor, 0 = n) BY <2>1 DEF Heads
  <2>4. HasChunks(<<>>, blocks, w, 0, floor, ceiling, 0 = n) BY <2>2, <2>3 DEF HasChunks
  <2>. QED BY <1>2, <1>5, <1>7, <2>4
<1>10. ASSUME NEW i \in 1..n, i - 1 \in S PROVE i \in S
  <2> DEFINE c == f[i - 1]
             small == Len(q[i].words) < floor
  <2>1. HasChunks(c, blocks, w, u[i - 1], floor, ceiling, i - 1 = n) BY <1>10
  <2>2. PICK v : Chunked(v, c, blocks, w, u[i - 1], ceiling) /\ Heads(c, v, floor, i - 1 = n)
    BY <2>1 DEF HasChunks
  <2>3. i - 1 # n BY <1>2
  <2>4. Heads(c, v, floor, FALSE) BY <2>2, <2>3 DEF Heads
  <2>5. q[i] \in Sect /\ Slice(q[i].words, w, u[i - 1], u[i], Word) BY <1>2, <1>7
  <2>6. HasChunks(c \o Pieces(blocks, q[i], ceiling, Len(c) + 1), blocks, w, u[i], floor, ceiling, small)
    BY <2>2, <2>4, <2>5, PiecesFollow
  <2>7. f[i] = c \o Pieces(blocks, q[i], ceiling, Len(c) + 1) BY <1>5
  <2>8. small => i = n
    <3>1. CASE i \in 1 .. n - 1
      <4>1. Len(q[i].words) >= floor /\ Len(q[i].words) \in Nat
        BY <1>8, <2>5, <3>1, LenProperties DEF Slice
      <4>. QED BY <4>1
    <3>2. CASE i \notin 1 .. n - 1 BY <1>2, <3>2
    <3>. QED BY <3>1, <3>2
  <2>. HIDE DEF small, c
  <2>9. HasChunks(f[i], blocks, w, u[i], floor, ceiling, small) BY <2>6, <2>7
  <2>10. PICK x : Chunked(x, f[i], blocks, w, u[i], ceiling) /\ Heads(f[i], x, floor, small)
    BY <2>9 DEF HasChunks
  <2>11. Heads(f[i], x, floor, i = n) BY <2>8, <2>10 DEF Heads
  <2>12. HasChunks(f[i], blocks, w, u[i], floor, ceiling, i = n) BY <2>10, <2>11 DEF HasChunks
  <2>. QED BY <2>12
<1>11. \A i \in 0..n : i \in S
  <2>1. \A i \in 1..n : i - 1 \in S => i \in S BY <1>10
  <2>. HIDE DEF S
  <2>. QED BY <1>2, <1>9, <2>1, InductionUpTo
<1>12. HasChunks(f[n], blocks, w, u[n], floor, ceiling, n = n) BY <1>2, <1>11
<1>13. (n = n) = TRUE OBVIOUS
<1>. QED BY <1>5, <1>7, <1>12, <1>13

(* A document's chunks. *)
LEMMA StructuralChunksAre ==
  ASSUME NEW blocks \in Seq(Block), \A i, j \in DOMAIN blocks : i < j => blocks[i].page <= blocks[j].page,
         NEW floor \in Nat \ {0}, NEW ceiling \in Nat, floor <= ceiling
  PROVE  LET w == FlattenWords(blocks)
         IN w \in Seq(Word) /\ HasChunks(StructuralChunks(blocks, floor, ceiling), blocks, w, Len(w), floor,
         ceiling, TRUE)
<1> DEFINE w == FlattenWords(blocks)
           groups == GroupIntoLeafSections(blocks)
           q == MergeSmallSections(groups, floor)
<1>1. w \in Seq(Word) /\ Covers(groups, w, Len(w)) BY GroupsCover
<1>2. Paged(w, Len(w)) BY DocumentIsPaged
<1>3. StructuralChunks(blocks, floor, ceiling) = ChunksOver(blocks, ceiling, q)
  BY DEF StructuralChunks, ChunksOver
<1>. HIDE DEF w, groups
<1>4. Covers(q, w, Len(w)) /\ Floored(q, floor, 1) BY <1>1, MergedSectionsAre
<1>. HIDE DEF q
<1>5. HasChunks(ChunksOver(blocks, ceiling, q), blocks, w, Len(w), floor, ceiling, TRUE)
  BY <1>1, <1>2, <1>4, ChunksOverAre
<1>. QED BY <1>1, <1>3, <1>5 DEF w

-----------------------------------------------------------------------------
(* What is claimed of the chunks of a document (Algorithms). *)

(* Lengths add up to where they end. *)
LEMMA TotalTelescopes ==
  ASSUME NEW n \in Nat, NEW v \in [0..n -> Nat], v[0] = 0, NEW len \in [1..n -> Nat],
         \A i \in 1..n : len[i] = v[i] - v[i - 1]
  PROVE  \A i \in 0..n : Total([j \in 1..i |-> len[j]]) = v[i]
<1> DEFINE I == 1..n
<1>1. IsFiniteSet(I) /\ len \in [I -> Int] BY FS_Interval
<1>2. \A i \in 0..n : 1..i \in SUBSET I /\ [j \in 1..i |-> len[j]] = Part(len, 1..i) BY DEF Part
<1>. HIDE DEF I
<1>3. /\ Total(Part(len, {})) = 0
      /\ \A T \in SUBSET I : \A x \in T : Total(Part(len, T)) = len[x] + Total(Part(len, T \ {x}))
  BY <1>1, PartAdds
<1> DEFINE S == {i \in 0..n : Total(Part(len, 1..i)) = v[i]}
<1>4. 0 \in S
  <2>1. 1..0 = {} OBVIOUS
  <2>. QED BY <1>3, <2>1
<1>5. ASSUME NEW i \in 1..n, i - 1 \in S PROVE i \in S
  <2>1. i \in 0..n /\ i \in 1..i /\ (1..i) \ {i} = 1 .. i - 1 /\ v[i] \in Nat /\ v[i - 1] \in Nat
    <3>1. i \in 0..n /\ i - 1 \in 0..n OBVIOUS
    <3>2. i \in Nat \ {0} OBVIOUS
    <3>3. i \in 1..i /\ (1..i) \ {i} = 1 .. i - 1 BY ONLY <3>2
    <3>. QED BY <3>1, <3>3
  <2>2. Total(Part(len, 1 .. i - 1)) = v[i - 1] BY <1>5
  <2>3. Total(Part(len, 1..i)) = len[i] + Total(Part(len, (1..i) \ {i})) BY <1>2, <1>3, <2>1
  <2>4. Total(Part(len, 1..i)) = len[i] + v[i - 1] BY <2>1, <2>2, <2>3
  <2>5. len[i] + v[i - 1] = v[i] BY <2>1
  <2>. QED BY <2>1, <2>4, <2>5
<1>6. \A i \in 0..n : i \in S
  <2>1. \A i \in 1..n : i - 1 \in S => i \in S BY <1>5
  <2>. HIDE DEF S
  <2>. QED BY <1>4, <2>1, InductionUpTo
<1>. QED BY <1>2, <1>6

(* What SectionsPartition claims of the chunks c of the words w. *)
Partitioned(c, w, t, floor, ceiling) ==
  LET body(i) == c[i].content[2]
      from(i) == 1 + Total([j \in 1 .. i - 1 |-> Len(body(j))])
  IN /\ FlattenSeq([i \in DOMAIN c |-> body(i)]) = t
     /\ \A i \in DOMAIN c :
          /\ Len(body(i)) \in 1..ceiling
          /\ c[i].parent = None /\ Len(body(i)) < floor => i = Len(c)
          /\ c[i].pages = <<w[from(i)].page, w[from(i) + Len(body(i)) - 1].page>>

(* Chunks that end so have it. *)
LEMMA ChunksPartition ==
  ASSUME NEW blocks, NEW w \in Seq(Word), NEW floor \in Nat \ {0}, NEW ceiling \in Nat, NEW c,
         HasChunks(c, blocks, w, Len(w), floor, ceiling, TRUE)
  PROVE  Partitioned(c, w, Texts(w), floor, ceiling)
<1> DEFINE n == Len(c)
           t == Texts(w)
           B == [i \in 1..n |-> c[i].content[2]]
           len == [i \in 1..n |-> Len(B[i])]
<1>1. PICK v : Chunked(v, c, blocks, w, Len(w), ceiling) /\ Heads(c, v, floor, TRUE)
  BY DEF HasChunks
<1>2. /\ c \in Seq(Chunk(blocks)) /\ v \in [0..n -> Nat] /\ v[0] = 0 /\ v[n] = Len(w)
      /\ \A i \in 1..n : ChunkIs(c[i], w, v[i - 1], v[i], c[i].path, c[i].parent) /\ v[i] - v[i - 1] <= ceiling
  BY <1>1 DEF Chunked
<1>3. n \in Nat /\ DOMAIN c = 1..n BY <1>2, LenProperties
<1>4. \A i \in 1..n : c[i].parent = None /\ v[i] - v[i - 1] < floor => i = n BY <1>1 DEF Heads
<1>5. t \in Seq(Seq(Nat)) /\ Len(t) = Len(w) BY TextsAre
<1>6. \A i \in 1..n : /\ Slice(c[i].content[2], t, v[i - 1], v[i], Seq(Nat)) /\ v[i - 1] < v[i]
                      /\ v[i - 1] \in Nat /\ v[i] \in Nat /\ c[i].pages = <<w[v[i - 1] + 1].page, w[v[i]].page>>
  BY <1>2 DEF ChunkIs
<1>. HIDE DEF t, n
<1>7. \A i \in 1..n : B[i] = c[i].content[2] /\ Slice(B[i], t, v[i - 1], v[i], Seq(Nat)) BY <1>6
<1>. HIDE DEF B
<1>8. \A i \in 1..n : B[i] \in Seq(Seq(Nat)) /\ Len(B[i]) = v[i] - v[i - 1] /\ v[i] - v[i - 1] \in Nat
  BY <1>6, <1>7 DEF Slice
<1>9. B \in [1..n -> Seq(Seq(Nat))] BY <1>8 DEF B
<1>10. FlattenSeq(B) = t
  <2>1. Ends(v, B, t, n, Seq(Nat)) BY <1>2, <1>7 DEF Ends
  <2>2. Sliced(B, t, n, Seq(Nat)) BY <1>2, <1>5, <2>1 DEF Sliced
  <2>. QED BY <1>3, <1>9, <2>2, SlicesFlatten
<1>11. len \in [1..n -> Nat] /\ \A i \in 1..n : len[i] = v[i] - v[i - 1] BY <1>8
<1>12. \A i \in 0..n : Total([j \in 1..i |-> len[j]]) = v[i]
  <2>. HIDE DEF len
  <2>. QED BY <1>2, <1>3, <1>11, TotalTelescopes
<1>13. ASSUME NEW i \in 1..n
       PROVE  /\ Total([j \in 1 .. i - 1 |-> Len(c[j].content[2])]) = v[i - 1]
              /\ Len(c[i].content[2]) = v[i] - v[i - 1]
  <2>1. i - 1 \in 0..n /\ \A j \in 1 .. i - 1 : j \in 1..n BY <1>3
  <2>2. [j \in 1 .. i - 1 |-> Len(c[j].content[2])] = [j \in 1 .. i - 1 |-> len[j]]
    BY <1>7, <2>1
  <2>. HIDE DEF len
  <2>. QED BY <1>7, <1>8, <1>12, <2>1, <2>2
<1>14. ASSUME NEW i \in 1..n
       PROVE  LET body(j) == c[j].content[2]
                  from(j) == 1 + Total([l \in 1 .. j - 1 |-> Len(body(l))])
              IN /\ Len(body(i)) \in 1..ceiling
                 /\ c[i].parent = None /\ Len(body(i)) < floor => i = Len(c)
                 /\ c[i].pages = <<w[from(i)].page, w[from(i) + Len(body(i)) - 1].page>>
  <2> DEFINE T == Total([j \in 1 .. i - 1 |-> Len(c[j].content[2])])
             L == Len(c[i].content[2])
  <2>1. T = v[i - 1] /\ L = v[i] - v[i - 1] BY <1>13
  <2>2. v[i - 1] < v[i] /\ v[i - 1] \in Nat /\ v[i] \in Nat
        /\ c[i].pages = <<w[v[i - 1] + 1].page, w[v[i]].page>>
    BY <1>6
  <2>3. v[i] - v[i - 1] <= ceiling BY <1>2
  <2>. HIDE DEF T, L
  <2>4. L \in 1..ceiling /\ 1 + T = v[i - 1] + 1 /\ 1 + T + L - 1 = v[i]
    <3> DEFINE a == v[i - 1]
               b == v[i]
    <3>1. T = a /\ L = b - a /\ a < b /\ a \in Nat /\ b \in Nat /\ b - a <= ceiling
      BY <2>1, <2>2, <2>3
    <3>. HIDE DEF a, b
    <3>2. L \in 1..ceiling /\ 1 + T = a + 1 /\ 1 + T + L - 1 = b BY ONLY <3>1, ceiling \in Nat
    <3>. QED BY <3>2 DEF a, b
  <2>5. c[i].parent = None /\ L < floor => i = n BY <1>4, <2>1
  <2>6. c[i].pages = <<w[1 + T].page, w[1 + T + L - 1].page>> BY <2>2, <2>4
  <2>. QED BY <2>4, <2>5, <2>6 DEF T, L, n
<1>15. FlattenSeq([i \in DOMAIN c |-> c[i].content[2]]) = t
  <2>1. B = [i \in DOMAIN c |-> c[i].content[2]] BY <1>3 DEF B
  <2>. QED BY <1>10, <2>1
<1>16. Partitioned(c, w, t, floor, ceiling) BY <1>3, <1>14, <1>15 DEF Partitioned
<1>. QED BY <1>16 DEF t

-----------------------------------------------------------------------------
(* The rows of a document's chunks. *)

(* The chunks that are stored: the first of each content. *)
FirstOrdinals(c) == {o \in 1 .. Len(c) : \A p \in 1 .. o - 1 : c[p].content # c[o].content}

(* A chunk's row: its parent is kept if it is stored. *)
RowOf(c, o) == [c[o] EXCEPT !.parent = IF c[o].parent \in FirstOrdinals(c) THEN c[o].parent ELSE None]

(* Every content is stored once. *)
LEMMA ContentIsStored ==
  ASSUME NEW V, NEW c \in Seq(V), NEW o \in 1 .. Len(c)
  PROVE  \E p \in FirstOrdinals(c) : c[p].content = c[o].content
<1> DEFINE S == {p \in 1 .. Len(c) : c[p].content = c[o].content}
           m == Min(S)
<1>1. Len(c) \in Nat BY LenProperties
<1>2. S \in SUBSET Nat /\ o \in S
  <2>1. S \subseteq 1 .. Len(c) OBVIOUS
  <2>. HIDE DEF S
  <2>2. S \in SUBSET Nat BY <1>1, <2>1
  <2>. QED BY <2>2 DEF S
<1>3. m \in S /\ \A y \in S : m <= y
  <2>. HIDE DEF S
  <2>. QED BY <1>2, MinIs
<1>. HIDE DEF m
<1>4. m \in 1 .. Len(c) /\ c[m].content = c[o].content BY <1>3
<1>5. ASSUME NEW p \in 1 .. m - 1 PROVE c[p].content # c[m].content
  <2>1. p \in 1 .. Len(c) /\ ~(m <= p) BY <1>1, <1>4
  <2>2. p \notin S BY <1>3, <2>1
  <2>. QED BY <1>4, <2>1, <2>2
<1>6. m \in FirstOrdinals(c) BY <1>4, <1>5 DEF FirstOrdinals
<1>. QED BY <1>4, <1>6

(* Ingesting into no rows. *)
StoredRowsAre(rows, blocks, c) ==
  /\ rows = [o \in FirstOrdinals(c) |-> RowOf(c, o)] /\ DOMAIN rows = FirstOrdinals(c)
  /\ \A o \in FirstOrdinals(c) :
       /\ o \in 1 .. Len(c) /\ rows[o] \in Chunk(blocks) /\ c[o] \in Chunk(blocks)
       /\ rows[o].content = c[o].content /\ rows[o].path = c[o].path /\ rows[o].regions = c[o].regions
       /\ rows[o].parent = IF c[o].parent \in FirstOrdinals(c) THEN c[o].parent ELSE None

(* They are those (_insert_chunks). *)
LEMMA InsertedAre ==
  ASSUME NEW blocks, NEW c \in Seq(Chunk(blocks))
  PROVE  StoredRowsAre(InsertChunks(c, <<>>), blocks, c)
<1> DEFINE F == FirstOrdinals(c)
           all == Stored(c, <<>>)
           rows == InsertChunks(c, <<>>)
<1>1. Len(c) \in Nat /\ DOMAIN c = 1 .. Len(c) /\ \A o \in 1 .. Len(c) : c[o] \in Chunk(blocks)
  BY LenProperties, ElementOfSeq
<1>2. DOMAIN <<>> = {} OBVIOUS
<1>3. all = [o \in F |-> [c[o] EXCEPT !.parent = None]]
  <2>1. {o \in DOMAIN c : /\ \A p \in 1 .. o - 1 : c[p].content # c[o].content
                          /\ \A p \in DOMAIN <<>> : <<>>[p].content # c[o].content} = F
    BY <1>1, <1>2 DEF FirstOrdinals
  <2>. QED BY <1>2, <2>1 DEF Stored
<1>4. F \subseteq 1 .. Len(c) BY DEF FirstOrdinals
<1>. HIDE DEF F, all
<1>5. \A o \in F : c[o] \in Chunk(blocks) /\ o \in DOMAIN c BY <1>1, <1>4
<1>6. \A o \in F : all[o].parent = None /\ all[o] = [c[o] EXCEPT !.parent = None]
  BY <1>3, <1>5 DEF Chunk
<1>7. rows = [o \in F |-> [all[o] EXCEPT !.parent = ParentId(all, c, o)]]
  BY <1>3 DEF InsertChunks, all
<1>8. \A o \in F : ParentId(all, c, o) = IF c[o].parent \in F THEN c[o].parent ELSE None
  BY <1>3, <1>5, <1>6 DEF ParentId
<1>9. ASSUME NEW o \in F PROVE [all[o] EXCEPT !.parent = ParentId(all, c, o)] = RowOf(c, o)
  <2>1. [all[o] EXCEPT !.parent = ParentId(all, c, o)] =
          [c[o] EXCEPT !.parent = IF c[o].parent \in F THEN c[o].parent ELSE None]
    BY <1>5, <1>6, <1>8 DEF Chunk
  <2>. QED BY <2>1 DEF RowOf, F
<1>10. rows = [o \in F |-> RowOf(c, o)] BY <1>7, <1>9
<1>. HIDE DEF rows
<1>11. ASSUME NEW o \in F
       PROVE  /\ o \in 1 .. Len(c) /\ rows[o] \in Chunk(blocks) /\ c[o] \in Chunk(blocks)
              /\ rows[o].content = c[o].content /\ rows[o].path = c[o].path /\ rows[o].regions = c[o].regions
              /\ rows[o].parent = IF c[o].parent \in F THEN c[o].parent ELSE None
  <2> DEFINE q == IF c[o].parent \in F THEN c[o].parent ELSE None
  <2>1. c[o] \in Chunk(blocks) /\ o \in 1 .. Len(c) BY <1>4, <1>5
  <2>2. q \in Nat BY <2>1 DEF Chunk, None
  <2>3. rows[o] = [c[o] EXCEPT !.parent = q] BY <1>10 DEF RowOf, F
  <2>. HIDE DEF q
  <2>4. rows[o] \in Chunk(blocks) /\ rows[o].parent = q BY <2>1, <2>2, <2>3 DEF Chunk
  <2>5. rows[o].content = c[o].content /\ rows[o].path = c[o].path /\ rows[o].regions = c[o].regions
    BY <2>1, <2>3 DEF Chunk
  <2>. QED BY <2>1, <2>4, <2>5 DEF q
<1>12. StoredRowsAre(rows, blocks, c) BY <1>10, <1>11 DEF StoredRowsAre, F
<1>. QED BY <1>12 DEF rows

(* What StoredChunksAreLinked claims of them. *)
RowsLinked(c, rows) ==
  /\ \A o \in DOMAIN rows :
       IF c[o].parent \in DOMAIN rows
       THEN /\ rows[o].parent = c[o].parent
            /\ rows[rows[o].parent].parent = None
            /\ rows[rows[o].parent].path = rows[o].path
       ELSE rows[o].parent = None
  /\ {rows[o].content : o \in DOMAIN rows} = {u.content : u \in ToSet(c)}
  /\ InsertChunks(c, rows) = rows

(* They have it. *)
LEMMA RowsAreLinked ==
  ASSUME NEW blocks, NEW c \in Seq(Chunk(blocks)), Linked(c), NEW rows, StoredRowsAre(rows, blocks, c)
  PROVE  RowsLinked(c, rows)
<1> DEFINE F == FirstOrdinals(c)
<1>1. /\ DOMAIN rows = F /\ rows = [o \in F |-> RowOf(c, o)]
      /\ \A o \in F :
           /\ o \in 1 .. Len(c) /\ rows[o] \in Chunk(blocks) /\ c[o] \in Chunk(blocks)
           /\ rows[o].content = c[o].content /\ rows[o].path = c[o].path /\ rows[o].regions = c[o].regions
           /\ rows[o].parent = IF c[o].parent \in F THEN c[o].parent ELSE None
  BY DEF StoredRowsAre
<1>2. Len(c) \in Nat /\ DOMAIN c = 1 .. Len(c) /\ \A o \in 1 .. Len(c) : c[o] \in Chunk(blocks)
  BY LenProperties, ElementOfSeq
<1>3. \A o \in 1 .. Len(c) : \E p \in F : c[p].content = c[o].content BY ContentIsStored
<1>4. \A o \in 1 .. Len(c) :
        \/ c[o].parent = None
        \/ c[o].parent \in 1 .. Len(c) /\ c[c[o].parent].parent = None /\ c[c[o].parent].path = c[o].path
  BY DEF Linked
<1>5. None \notin F BY DEF FirstOrdinals, None
<1>. HIDE DEF F
<1>6. ASSUME NEW o \in F
      PROVE  IF c[o].parent \in F
             THEN /\ rows[o].parent = c[o].parent
                  /\ rows[rows[o].parent].parent = None
                  /\ rows[rows[o].parent].path = rows[o].path
             ELSE rows[o].parent = None
  <2>1. CASE c[o].parent \in F
    <3> DEFINE p == c[o].parent
    <3>1. p \in F /\ p # None /\ rows[o].parent = p /\ rows[o].path = c[o].path
      BY <1>1, <1>5, <2>1
    <3>2. c[p].parent = None /\ c[p].path = c[o].path BY <1>1, <1>4, <3>1
    <3>. HIDE DEF p
    <3>3. rows[p].parent = None /\ rows[p].path = c[p].path BY <1>1, <1>5, <3>1, <3>2
    <3>. QED BY <2>1, <3>1, <3>2, <3>3 DEF p
  <2>2. CASE c[o].parent \notin F BY <1>1, <2>2
  <2>. QED BY <2>1, <2>2
<1>7. {rows[o].content : o \in F} = {u.content : u \in ToSet(c)}
  <2>1. ToSet(c) = {c[o] : o \in 1 .. Len(c)} BY <1>2 DEF ToSet
  <2>2. {u.content : u \in ToSet(c)} = {c[o].content : o \in 1 .. Len(c)} BY <2>1
  <2>3. {rows[o].content : o \in F} = {c[o].content : o \in F} BY <1>1
  <2>4. {c[o].content : o \in F} = {c[o].content : o \in 1 .. Len(c)}
    <3>1. \A o \in F : o \in 1 .. Len(c) BY <1>1
    <3>. QED BY <1>3, <3>1
  <2>. QED BY <2>2, <2>3, <2>4
<1>8. Stored(c, rows) = rows
  <2> DEFINE new == {o \in DOMAIN c : /\ \A p \in 1 .. o - 1 : c[p].content # c[o].content
                                      /\ \A p \in DOMAIN rows : rows[p].content # c[o].content}
  <2>1. new = {}
    <3>1. ASSUME NEW o \in new PROVE FALSE
      <4>1. o \in 1 .. Len(c) /\ \A p \in F : rows[p].content # c[o].content BY <1>1, <1>2
      <4>2. PICK p \in F : c[p].content = c[o].content BY <1>3, <4>1
      <4>3. rows[p].content = c[o].content BY <1>1, <4>2
      <4>. QED BY <4>1, <4>3
    <3>. QED BY <3>1
  <2>2. Stored(c, rows) = [o \in DOMAIN rows \cup new |->
                            IF o \in DOMAIN rows THEN rows[o] ELSE [c[o] EXCEPT !.parent = None]]
    BY DEF Stored
  <2>. HIDE DEF new
  <2>3. Stored(c, rows) = [o \in F |-> rows[o]] BY <1>1, <2>1, <2>2
  <2>4. rows = [o \in F |-> rows[o]] BY <1>1
  <2>. QED BY <2>3, <2>4
<1>9. InsertChunks(c, rows) = rows
  <2>1. InsertChunks(c, rows) = [o \in F |-> [rows[o] EXCEPT !.parent = ParentId(rows, c, o)]]
    BY <1>1, <1>8 DEF InsertChunks
  <2>2. ASSUME NEW o \in F PROVE [rows[o] EXCEPT !.parent = ParentId(rows, c, o)] = rows[o]
    <3>1. ParentId(rows, c, o) = rows[o].parent BY <1>1 DEF ParentId
    <3>2. rows[o] \in Chunk(blocks) BY <1>1
    <3>. QED BY <3>1, <3>2 DEF Chunk
  <2>3. InsertChunks(c, rows) = [o \in F |-> rows[o]] BY <2>1, <2>2
  <2>4. rows = [o \in F |-> rows[o]] BY <1>1
  <2>. QED BY <2>3, <2>4
<1>. QED BY <1>1, <1>6, <1>7, <1>9 DEF RowsLinked

(* The neighbours of rows whose ordinals are numbers. *)
NoGaps(rows) ==
  LET near(o) == Neighbours(rows, o, 1)
  IN \A o, p \in DOMAIN rows :
       /\ p \in near(o).before <=> o \in near(p).after
       /\ p \in near(o).before =>
            \A q \in DOMAIN rows : p < q /\ q < o => q \in near(o).before

(* Rows have it (services/chunks.py). *)
LEMMA NeighboursHaveNoGaps == ASSUME NEW rows, DOMAIN rows \subseteq Nat PROVE NoGaps(rows)
<1>1. \A o : /\ Neighbours(rows, o, 1).before = {p \in DOMAIN rows : p < o /\ o - p <= 1}
             /\ Neighbours(rows, o, 1).after = {p \in DOMAIN rows : p > o /\ p - o <= 1}
  BY DEF Neighbours
<1>2. ASSUME NEW o \in DOMAIN rows, NEW p \in DOMAIN rows
      PROVE  /\ p \in Neighbours(rows, o, 1).before <=> o \in Neighbours(rows, p, 1).after
             /\ p \in Neighbours(rows, o, 1).before =>
                  \A q \in DOMAIN rows : p < q /\ q < o => q \in Neighbours(rows, o, 1).before
  <2>1. o \in Nat /\ p \in Nat OBVIOUS
  <2>2. p \in Neighbours(rows, o, 1).before <=> p < o /\ o - p <= 1 BY <1>1
  <2>3. o \in Neighbours(rows, p, 1).after <=> o > p /\ o - p <= 1 BY <1>1
  <2>4. (p < o /\ o - p <= 1) <=> (o > p /\ o - p <= 1) BY <2>1
  <2>5. ASSUME p < o, o - p <= 1, NEW q \in DOMAIN rows, p < q, q < o PROVE FALSE BY <2>1, <2>5
  <2>. QED BY <2>2, <2>3, <2>4, <2>5
<1>. QED BY <1>2 DEF NoGaps

-----------------------------------------------------------------------------
(* The regions filled later. *)

(* A row with these regions. *)
Relocated(row, r) == [row EXCEPT !.regions = r]

(* It is a row. *)
LEMMA RelocatedIs ==
  ASSUME NEW V, NEW row \in Chunk(V), NEW r \in Seq(Nat \X Nat), NEW r1
  PROVE  /\ Relocated(row, r) \in Chunk(V) /\ Relocated(row, r1).content = row.content
         /\ Relocated(row, r1).regions = r1 /\ Relocated(Relocated(row, r1), r) = Relocated(row, r)
         /\ Relocated(row, row.regions) = row /\ row.regions \in Seq(Nat \X Nat)
<1> DEFINE R == Seq(Nat \X Nat)
           C == Crumbs(V) \X Seq(Seq(Nat))
<1>1. r \in R OBVIOUS
<1>2. row \in [content : C, pages : Nat \X Nat, path : Seq(STRING), parent : Nat, regions : R]
  BY DEF Chunk
<1>. HIDE DEF R, C
<1>3. Relocated(row, r) \in [content : C, pages : Nat \X Nat, path : Seq(STRING), parent : Nat, regions : R]
  BY <1>1, <1>2 DEF Relocated
<1>4. Relocated(row, r) \in Chunk(V) BY <1>3 DEF Chunk, R, C
<1>5. Relocated(row, r1).content = row.content /\ Relocated(row, r1).regions = r1 BY <1>2 DEF Relocated
<1>6. Relocated(Relocated(row, r1), r) = Relocated(row, r) /\ Relocated(row, row.regions) = row BY <1>2 DEF Relocated
<1>. QED BY <1>2, <1>4, <1>5, <1>6 DEF R

(* Filling leaves rows what they are. *)
LEMMA FillIsTyped ==
  ASSUME NEW V, NEW W, NEW F, NEW a \in [F -> Chunk(V)], NEW u \in Chunk(W)
  PROVE  Fill(a, u) \in [F -> Chunk(V)]
<1>1. u.regions \in Seq(Nat \X Nat) BY DEF Chunk
<1>2. \A o \in F : a[o] \in Chunk(V) /\ Relocated(a[o], u.regions) \in Chunk(V) BY <1>1, RelocatedIs
<1>3. Fill(a, u) = [o \in F |-> IF a[o].content = u.content /\ a[o].regions = <<>>
                                THEN Relocated(a[o], u.regions) ELSE a[o]]
  BY DEF Fill, Relocated
<1>. QED BY <1>2, <1>3

(* f has the rows after each chunk. *)
FillsAlong(f, old, c, F, V) ==
  /\ f \in [0 .. Len(c) -> [F -> Chunk(V)]] /\ f[0] = old
  /\ \A i \in 1 .. Len(c) : f[i] = Fill(f[i - 1], c[i])
  /\ Backfill(c, old) = f[Len(c)]

(* The backfill is a fold over the chunks. *)
LEMMA BackfillTrace ==
  ASSUME NEW V, NEW W, NEW F, NEW old \in [F -> Chunk(V)], NEW c \in Seq(Chunk(W))
  PROVE  \E f : FillsAlong(f, old, c, F, V)
<1> DEFINE n == Len(c)
           X == [F -> Chunk(V)]
           base == old
           step == [p \in X \X (1..n) |-> Fill(p[1], c[p[2]])]
           Is(g) == g = [s \in SUBSET (1..n) |->
                          IF s = {} THEN base ELSE Fill(g[s \ {Max(s)}], c[Max(s)])]
           it == CHOOSE h : Is(h)
<1>0. n \in Nat /\ DOMAIN c = 1..n /\ \A i \in 1..n : c[i] \in Chunk(W)
  BY LenProperties, ElementOfSeq
<1>1. \A a \in X : \A i \in 1..n : step[<<a, i>>] = Fill(a, c[i]) OBVIOUS
<1>2. step \in [X \X (1..n) -> X]
  <2>1. \A a \in X : \A i \in 1..n : Fill(a, c[i]) \in X BY <1>0, FillIsTyped
  <2>. HIDE DEF X
  <2>. QED BY <2>1
<1>3. Backfill(c, old) = it[1..n]
  <2>. HIDE DEF n
  <2>. QED BY <1>0 DEF Backfill, FoldLeft, MapThenFoldSet
<1>4. base \in X OBVIOUS
<1>. HIDE DEF step
<1>. HIDE DEF X, base, n
<1>5. PICK g \in [SUBSET (1..n) -> X] : Iterates(g, n, base, step)
  BY <1>0, <1>2, <1>4, IterationExists DEF HasIterate
<1>6. ASSUME NEW s \in SUBSET (1..n), s # {}
      PROVE  g[s] = Fill(g[s \ {Max(s)}], c[Max(s)])
  <2>1. Max(s) \in 1..n /\ g[s \ {Max(s)}] \in X BY Zenon, <1>0, <1>6, MaxOfUpTo
  <2>2. g[s] = step[<<g[s \ {Max(s)}], Max(s)>>] BY <1>5, <1>6 DEF Iterates
  <2>. QED BY <1>1, <2>1, <2>2
<1>7. Is(it)
  <2>1. Is(g) BY <1>5, <1>6 DEF Iterates
  <2>. QED BY Zenon, <2>1
<1>. HIDE DEF it
<1>8. Folded(it, n, X, base, step)
  <2>1. \A s \in SUBSET (1..n) : it[s] = IF s = {} THEN base ELSE Fill(it[s \ {Max(s)}], c[Max(s)])
    BY Zenon, <1>7
  <2>2. \A s \in SUBSET (1..n) : s # {} => Max(s) \in 1..n BY Zenon, <1>0, MaxOfUpTo
  <2>. QED BY <1>1, <2>1, <2>2 DEF Folded
<1>9. PICK f : Follows(f, n, X, base, step) /\ f[n] = it[1..n]
  <2>1. Traced(n, X, base, step, it[1..n]) BY <1>0, <1>2, <1>4, <1>8, FoldFollows
  <2>. QED BY <2>1 DEF Traced
<1>10. \A i \in 1..n : f[i - 1] \in X BY SMTT(60), <1>0, <1>9 DEF Follows
<1>11. f \in [0..n -> X] /\ \A i \in 1..n : f[i] = Fill(f[i - 1], c[i])
  BY <1>1, <1>9, <1>10 DEF Follows
<1>12. f[0] = base /\ Backfill(c, old) = f[n] BY <1>3, <1>9 DEF Follows
<1>13. FillsAlong(f, old, c, F, V) BY <1>11, <1>12 DEF FillsAlong, X, base, n
<1>. QED BY <1>13

(* The regions of the first of the first k chunks with this content. *)
PlacesIn(c, x, k) ==
  LET same == {i \in 1..k : c[i].content = x}
  IN IF same = {} THEN <<>> ELSE c[Min(same)].regions

(* One more chunk counts if none did before. *)
LEMMA PlacesNext ==
  ASSUME NEW c, NEW x, NEW k \in Nat \ {0}, \A i \in 1..k : c[i].regions # <<>>
  PROVE  PlacesIn(c, x, k) = IF c[k].content = x /\ PlacesIn(c, x, k - 1) = <<>> THEN c[k].regions
                          ELSE PlacesIn(c, x, k - 1)
<1> DEFINE A == {i \in 1 .. k - 1 : c[i].content = x}
           B == {i \in 1..k : c[i].content = x}
<1>1. /\ PlacesIn(c, x, k - 1) = IF A = {} THEN <<>> ELSE c[Min(A)].regions
      /\ PlacesIn(c, x, k) = IF B = {} THEN <<>> ELSE c[Min(B)].regions
  BY DEF PlacesIn
<1>2. A \in SUBSET Nat /\ B \in SUBSET Nat /\ A = B \cap 1 .. k - 1 /\ B \subseteq 1..k
      /\ (k \in B <=> c[k].content = x)
  OBVIOUS
<1>. HIDE DEF A, B
<1>3. CASE A = {}
  <2>4. \A i \in 1..k : i = k \/ i \in 1 .. k - 1 OBVIOUS
  <2>1. \A i \in B : i = k BY ONLY <1>2, <1>3, <2>4
  <2>2. CASE B = {} BY <1>1, <1>2, <1>3, <2>2
  <2>3. CASE B # {}
    <3>1. Min(B) = k /\ k \in B BY <1>2, <2>1, <2>3, MinIs
    <3>. QED BY <1>1, <1>2, <1>3, <2>3, <3>1
  <2>. QED BY <2>2, <2>3
<1>4. CASE A # {}
  <2>1. Min(A) \in A /\ \A y \in A : Min(A) <= y BY <1>2, <1>4, MinIs
  <2>2. B # {} BY <1>2, <1>4
  <2>3. Min(B) \in B /\ \A y \in B : Min(B) <= y BY <1>2, <2>2, MinIs
  <2>4. Min(B) <= Min(A) /\ Min(A) \in 1 .. k - 1 /\ Min(B) \in Nat BY <1>2, <2>1, <2>3
  <2>5. Min(B) \in A BY <1>2, <2>3, <2>4
  <2>6. Min(A) = Min(B)
    <3>1. Min(A) <= Min(B) /\ Min(A) \in Nat BY <2>1, <2>4, <2>5
    <3>. QED BY ONLY <2>4, <3>1
  <2>7. c[Min(A)].regions # <<>> BY <2>4
  <2>. QED BY <1>1, <1>4, <2>2, <2>6, <2>7
<1>. QED BY <1>3, <1>4

(* The rows after the first k chunks. *)
FilledUpTo(rows, E, c, k) ==
  [o \in DOMAIN rows |-> IF o \in E THEN Relocated(rows[o], PlacesIn(c, rows[o].content, k)) ELSE rows[o]]

(* One more chunk fills the rows of its content (backfill_chunk_regions.py). *)
LEMMA FillNext ==
  ASSUME NEW V, NEW F, NEW rows \in [F -> Chunk(V)], \A o \in F : rows[o].regions # <<>>, NEW W,
         NEW c \in Seq(Chunk(W)), \A i \in 1 .. Len(c) : c[i].regions # <<>>, NEW E, NEW k \in 1 .. Len(c)
  PROVE  Fill(FilledUpTo(rows, E, c, k - 1), c[k]) = FilledUpTo(rows, E, c, k)
<1> DEFINE a == FilledUpTo(rows, E, c, k - 1)
           b == FilledUpTo(rows, E, c, k)
           found(o, j) == PlacesIn(c, rows[o].content, j)
<1>1. /\ a = [o \in F |-> IF o \in E THEN Relocated(rows[o], found(o, k - 1)) ELSE rows[o]]
      /\ b = [o \in F |-> IF o \in E THEN Relocated(rows[o], found(o, k)) ELSE rows[o]]
  BY DEF FilledUpTo
<1>2. Len(c) \in Nat /\ c[k] \in Chunk(W) BY LenProperties, ElementOfSeq
<1>3. k \in Nat \ {0} /\ (\A i \in 1..k : c[i].regions # <<>>) /\ c[k].regions \in Seq(Nat \X Nat)
  <2>1. k \in Nat \ {0} /\ \A i \in 1..k : i \in 1 .. Len(c) BY ONLY <1>2, k \in 1 .. Len(c)
  <2>2. \A u \in Chunk(W) : u.regions \in Seq(Nat \X Nat) BY DEF Chunk
  <2>. QED BY <1>2, <2>1, <2>2
<1>. HIDE DEF a, b
<1>4. Fill(a, c[k]) = [o \in F |-> IF a[o].content = c[k].content /\ a[o].regions = <<>>
                                   THEN Relocated(a[o], c[k].regions) ELSE a[o]]
  BY <1>1 DEF Fill, Relocated
<1>5. ASSUME NEW o \in F
      PROVE  (IF a[o].content = c[k].content /\ a[o].regions = <<>>
              THEN Relocated(a[o], c[k].regions) ELSE a[o]) = b[o]
  <2> DEFINE row == rows[o]
             r == found(o, k - 1)
             s == found(o, k)
  <2>1. row \in Chunk(V) /\ row.regions # <<>> OBVIOUS
  <2>2. a[o] = (IF o \in E THEN Relocated(row, r) ELSE row) /\ b[o] = IF o \in E THEN Relocated(row, s) ELSE row
    BY <1>1
  <2>3. s = IF c[k].content = row.content /\ r = <<>> THEN c[k].regions ELSE r BY <1>3, PlacesNext
  <2>. HIDE DEF row, r, s, found
  <2>4. /\ Relocated(row, r).content = row.content /\ Relocated(row, r).regions = r
        /\ Relocated(Relocated(row, r), c[k].regions) = Relocated(row, c[k].regions)
    BY <1>3, <2>1, RelocatedIs
  <2>. QED BY <2>1, <2>2, <2>3, <2>4
<1>6. Fill(a, c[k]) = [o \in F |-> b[o]] BY <1>4, <1>5
<1>7. b = [o \in F |-> b[o]] BY <1>1
<1>8. Fill(a, c[k]) = b BY <1>6, <1>7
<1>. QED BY <1>8 DEF a, b

(* A backfill gives each row what the chunks have of its content. *)
LEMMA BackfillFinds ==
  ASSUME NEW V, NEW F, NEW rows \in [F -> Chunk(V)], \A o \in F : rows[o].regions # <<>>, NEW W,
         NEW c \in Seq(Chunk(W)), \A i \in 1 .. Len(c) : c[i].regions # <<>>, NEW E
  PROVE  Backfill(c, [o \in F |-> IF o \in E THEN Relocated(rows[o], <<>>) ELSE rows[o]])
           = FilledUpTo(rows, E, c, Len(c))
<1> DEFINE n == Len(c)
           old == [o \in F |-> IF o \in E THEN Relocated(rows[o], <<>>) ELSE rows[o]]
<1>1. n \in Nat BY LenProperties
<1>2. old \in [F -> Chunk(V)]
  <2>1. <<>> \in Seq(Nat \X Nat) OBVIOUS
  <2>2. \A o \in F : Relocated(rows[o], <<>>) \in Chunk(V) BY <2>1, RelocatedIs
  <2>. QED BY <2>2
<1>3. old = FilledUpTo(rows, E, c, 0)
  <2>1. \A x : PlacesIn(c, x, 0) = <<>> BY DEF PlacesIn
  <2>. QED BY <2>1 DEF FilledUpTo
<1>. HIDE DEF old
<1>4. PICK f : FillsAlong(f, old, c, F, V) BY <1>2, BackfillTrace
<1>5. f[0] = old /\ (\A i \in 1..n : f[i] = Fill(f[i - 1], c[i])) /\ Backfill(c, old) = f[n]
  BY <1>4 DEF FillsAlong
<1> DEFINE S == {k \in 0..n : f[k] = FilledUpTo(rows, E, c, k)}
<1>. HIDE DEF n
<1>6. 0 \in S BY <1>1, <1>3, <1>5
<1>7. ASSUME NEW k \in 1..n, k - 1 \in S PROVE k \in S
  <2>1. f[k - 1] = FilledUpTo(rows, E, c, k - 1) /\ k \in 1 .. Len(c) BY <1>7 DEF n
  <2>2. Fill(FilledUpTo(rows, E, c, k - 1), c[k]) = FilledUpTo(rows, E, c, k) BY <2>1, FillNext
  <2>3. f[k] = Fill(f[k - 1], c[k]) BY <1>5
  <2>4. f[k] = FilledUpTo(rows, E, c, k) BY <2>1, <2>2, <2>3
  <2>. QED BY <2>4
<1>8. \A k \in 0..n : k \in S
  <2>1. \A k \in 1..n : k - 1 \in S => k \in S BY <1>7
  <2>. HIDE DEF S
  <2>. QED BY <1>1, <1>6, <2>1, InductionUpTo
<1>9. f[n] = FilledUpTo(rows, E, c, n) BY <1>1, <1>8
<1>. QED BY <1>5, <1>9 DEF old, n

(* From the chunks the rows were stored of, it gives the stored regions. *)
LEMMA FilledAsStored ==
  ASSUME NEW blocks, NEW c, Len(c) \in Nat, NEW rows, StoredRowsAre(rows, blocks, c), NEW E
  PROVE  FilledUpTo(rows, E, c, Len(c)) = rows
<1> DEFINE F == FirstOrdinals(c)
<1>1. DOMAIN rows = F /\ rows = [o \in F |-> RowOf(c, o)] BY DEF StoredRowsAre
<1>2. ASSUME NEW o \in F PROVE Relocated(rows[o], PlacesIn(c, rows[o].content, Len(c))) = rows[o]
  <2> DEFINE B == {i \in 1 .. Len(c) : c[i].content = c[o].content}
  <2>1. /\ o \in 1 .. Len(c) /\ rows[o] \in Chunk(blocks) /\ rows[o].content = c[o].content
        /\ rows[o].regions = c[o].regions
    BY DEF StoredRowsAre
  <2>2. \A p \in 1 .. o - 1 : p \notin B BY DEF FirstOrdinals
  <2>3. o \in B /\ B \subseteq 1 .. Len(c) BY <2>1
  <2>4. PlacesIn(c, rows[o].content, Len(c)) = c[Min(B)].regions BY <2>1, <2>3 DEF PlacesIn
  <2>. HIDE DEF B, F
  <2>5. Min(B) = o
    <3>1. B \in SUBSET Nat /\ B # {} BY <2>3
    <3>2. Min(B) \in B /\ Min(B) <= o BY <2>3, <3>1, MinIs
    <3>3. ~(Min(B) \in 1 .. o - 1) /\ Min(B) \in 1 .. Len(c) BY <2>2, <2>3, <3>2
    <3>. QED BY ONLY <2>1, <3>2, <3>3, Len(c) \in Nat
  <2>6. Relocated(rows[o], rows[o].regions) = rows[o]
    <3>1. <<>> \in Seq(Nat \X Nat) OBVIOUS
    <3>. QED BY <2>1, <3>1, RelocatedIs
  <2>. QED BY <2>1, <2>4, <2>5, <2>6
<1>. HIDE DEF F
<1>3. FilledUpTo(rows, E, c, Len(c)) = [o \in F |-> rows[o]] BY <1>1, <1>2 DEF FilledUpTo
<1>4. rows = [o \in F |-> rows[o]] BY SMTT(60), <1>1
<1>. QED BY <1>3, <1>4

(* What is claimed of it, from the chunks of another parse; agree says that *)
(* this parse is the one that was stored.                                   *)
BackfillGives(rows, F, again, agree) ==
  LET old(E) == [o \in F |-> IF o \in E THEN [rows[o] EXCEPT !.regions = <<>>] ELSE rows[o]]
      new(E) == [o \in F |->
                  IF o \in E THEN [rows[o] EXCEPT !.regions = RegionsFor(rows[o], again)] ELSE rows[o]]
  IN \A E \in SUBSET F :
       Backfill(again, old(E)) = new(E) /\ (agree => new(E) = rows)

(* The rows of a document have it. *)
LEMMA BackfillIs ==
  ASSUME NEW blocks, NEW c \in Seq(Chunk(blocks)), \A i \in 1 .. Len(c) : c[i].regions # <<>>,
         NEW rows, StoredRowsAre(rows, blocks, c), NEW others, NEW again \in Seq(Chunk(others)),
         \A i \in 1 .. Len(again) : again[i].regions # <<>>, NEW agree, agree => again = c
  PROVE  BackfillGives(rows, DOMAIN rows, again, agree)
<1> DEFINE F == FirstOrdinals(c)
           n == Len(again)
<1>1. DOMAIN rows = F /\ rows = [o \in F |-> RowOf(c, o)]
      /\ \A o \in F : rows[o] \in Chunk(blocks) /\ rows[o].regions # <<>>
  BY DEF StoredRowsAre
<1>2. n \in Nat /\ Len(c) \in Nat /\ DOMAIN again = 1..n BY LenProperties
<1>3. rows \in [F -> Chunk(blocks)] BY <1>1
<1>. HIDE DEF F, n
<1>4. \A x : RegionsFor(x, again) = PlacesIn(again, x.content, n) BY <1>2 DEF RegionsFor, PlacesIn
<1>5. ASSUME NEW E
      PROVE  /\ Backfill(again, [o \in F |-> IF o \in E THEN Relocated(rows[o], <<>>) ELSE rows[o]])
                  = FilledUpTo(rows, E, again, n)
             /\ agree => FilledUpTo(rows, E, again, n) = rows
  <2>1. Backfill(again, [o \in F |-> IF o \in E THEN Relocated(rows[o], <<>>) ELSE rows[o]])
          = FilledUpTo(rows, E, again, n)
    BY <1>1, <1>3, BackfillFinds DEF n
  <2>2. ASSUME agree PROVE FilledUpTo(rows, E, again, n) = rows BY <1>2, <2>2, FilledAsStored DEF n
  <2>. QED BY <2>1, <2>2
<1>6. \A E : FilledUpTo(rows, E, again, n)
               = [o \in F |-> IF o \in E THEN Relocated(rows[o], RegionsFor(rows[o], again)) ELSE rows[o]]
  BY <1>1, <1>4 DEF FilledUpTo
<1>. HIDE DEF Relocated
<1>7. ASSUME NEW E \in SUBSET F
      PROVE  LET old == [o \in F |-> IF o \in E THEN Relocated(rows[o], <<>>) ELSE rows[o]]
                 new == [o \in F |-> IF o \in E THEN Relocated(rows[o], RegionsFor(rows[o], again))
                                     ELSE rows[o]]
             IN Backfill(again, old) = new /\ (agree => new = rows)
  BY <1>5, <1>6
<1>8. BackfillGives(rows, F, again, agree) BY ONLY <1>7 DEF BackfillGives, Relocated
<1>. QED BY <1>1, <1>8

-----------------------------------------------------------------------------
(* The theorem. *)

(* Of the fixed windows. *)
LEMMA WindowsOfCalls == InputsStayCalls => EveryWordIsChunked
<1>. SUFFICES ASSUME InputsStayCalls, subject = "windows" PROVE EveryWordIsChunked
  BY DEF EveryWordIsChunked
<1>1. input.blocks \in Seq(Block) /\ input.window \in Nat \ {0} /\ input.overlap \in 0..100
  BY DocumentsAreTyped DEF InputsStayCalls
<1>2. WordsInChunks(FixedChunks(input.blocks, input.window, input.overlap), Texts(FlattenWords(input.blocks)),
                    input.window, input.window - Step(input.window, input.overlap))
  BY <1>1, FixedChunksAre
<1>. QED BY ZenonT(60), <1>2 DEF WordsInChunks, EveryWordIsChunked

(* Of the sections. *)
LEMMA SectionsOfCalls ==
  InputsStayCalls =>
    SectionsPartition /\ StoredChunksAreLinked /\ BackfillGivesRegions /\ ContextHasNoGaps
<1>. SUFFICES ASSUME InputsStayCalls, subject = "sections"
              PROVE  SectionsPartition /\ StoredChunksAreLinked /\ BackfillGivesRegions
                     /\ ContextHasNoGaps
  BY DEF SectionsPartition, StoredChunksAreLinked, BackfillGivesRegions, ContextHasNoGaps
<1> DEFINE blocks == input.blocks
           w == FlattenWords(blocks)
           c == StructuralChunks(blocks, input.floor, input.ceiling)
           rows == InsertChunks(c, <<>>)
           others == input.again
           again == StructuralChunks(others, input.floor, input.ceiling)
<1>1. /\ blocks \in Seq(Block) /\ \A i, j \in DOMAIN blocks : i < j => blocks[i].page <= blocks[j].page
      /\ others \in Seq(Block) /\ \A i, j \in DOMAIN others : i < j => others[i].page <= others[j].page
      /\ input.floor \in Nat \ {0} /\ input.ceiling \in Nat /\ input.floor <= input.ceiling
  BY DocumentsAreTyped DEF InputsStayCalls
<1>2. w \in Seq(Word) /\ HasChunks(c, blocks, w, Len(w), input.floor, input.ceiling, TRUE)
  BY ONLY <1>1, StructuralChunksAre
<1> DEFINE u == FlattenWords(others)
<1>13. HasChunks(again, others, u, Len(u), input.floor, input.ceiling, TRUE)
  BY ONLY <1>1, StructuralChunksAre
<1>14. others = blocks => again = c OBVIOUS
<1>. HIDE DEF w, c, u, again
<1>3. Partitioned(c, w, Texts(w), input.floor, input.ceiling) BY <1>1, <1>2, ChunksPartition
<1>4. PICK v : Chunked(v, c, blocks, w, Len(w), input.ceiling) BY <1>2 DEF HasChunks
<1>5. c \in Seq(Chunk(blocks)) /\ Linked(c) /\ \A i \in 1 .. Len(c) : c[i].regions # <<>>
  BY <1>4 DEF Chunked, ChunkIs
<1>15. again \in Seq(Chunk(others)) /\ \A i \in 1 .. Len(again) : again[i].regions # <<>>
  BY <1>13 DEF HasChunks, Chunked, ChunkIs
<1>6. StoredRowsAre(rows, blocks, c) BY <1>5, InsertedAre
<1>. HIDE DEF rows
<1>7. RowsLinked(c, rows) /\ BackfillGives(rows, DOMAIN rows, again, others = blocks)
  BY <1>5, <1>6, <1>14, <1>15, RowsAreLinked, BackfillIs
<1>8. NoGaps(rows)
  <2>1. DOMAIN rows \subseteq Nat
    BY SMTT(60), <1>5, <1>6, LenProperties DEF StoredRowsAre, FirstOrdinals
  <2>. QED BY <2>1, NeighboursHaveNoGaps
<1>9. SectionsPartition BY <1>3 DEF Partitioned, SectionsPartition, c, w
<1>10. StoredChunksAreLinked BY <1>7 DEF RowsLinked, StoredChunksAreLinked, c, rows
<1>11. BackfillGivesRegions
  BY <1>7 DEF BackfillGives, BackfillGivesRegions, c, rows, again
<1>12. ContextHasNoGaps
  <2>1. rows = InsertChunks(StructuralChunks(input.blocks, input.floor, input.ceiling), <<>>)
    BY DEF rows, c
  <2>. QED BY <1>8, <2>1 DEF NoGaps, ContextHasNoGaps
<1>. QED BY <1>9, <1>10, <1>11, <1>12

(* Of every document: its chunks have its words in order, its rows are     *)
(* linked, are given later the places of their words in a parse without    *)
(* OCR, if they are found there, and are shown with their neighbours       *)
(* (domain/chunking.py, services/ingestion.py, services/chunks.py).        *)
THEOREM ChunksSound == Spec => []ChunksAreSound
<1>1. InputsStayCalls => ChunksAreSound BY WindowsOfCalls, SectionsOfCalls DEF ChunksAreSound
<1>. QED BY <1>1, CallsAreInputs, PTL

-----------------------------------------------------------------------------
(* The blocks of a page. *)

TextsOn(n) ==
  [kind : {"text"}, page : {n}, box : Box, size : Nat, text : Reading, title : {FALSE}, path : {NoPath}]

TablesOn(n) ==
  [kind : {"table"}, page : {n}, box : Box, size : {0}, rows : Seq(Seq(Nat)), title : {FALSE},
   path : {NoPath}]

BlocksOn(n) == TextsOn(n) \cup TablesOn(n)

Table == [box : Box, rows : Seq(Seq(Nat))]

(* The block of a text, and of a table. *)
TextBlock(x, n) ==
  [kind |-> "text", page |-> n, box |-> x.box, size |-> x.size, text |-> x.text, title |-> FALSE,
   path |-> NoPath]

TableBlock(x, n) ==
  [kind |-> "table", page |-> n, box |-> x.box, size |-> 0, rows |-> TableToMarkdown(x.rows),
   title |-> FALSE, path |-> NoPath]

Uncovered(x, tables) == x.text.chars > 0 /\ \A t \in ToSet(tables) : ~BoxInside(t.box, x.box)

(* The blocks of texts: those with a character that no table covers. *)
LEMMA TextBlocksAre ==
  ASSUME NEW items \in Seq(Item), NEW n, NEW tables
  PROVE  /\ ExtractTextBlocks(items, n, tables) \in Seq(TextsOn(n))
         /\ ToSet(ExtractTextBlocks(items, n, tables)) =
              {TextBlock(x, n) : x \in {y \in ToSet(items) : Uncovered(y, tables)}}
<1> DEFINE K == {i \in DOMAIN items : Uncovered(items[i], tables)}
           u == At(items, K)
           e == InOrder(K)
           c == Cardinality(K)
           B == [i \in DOMAIN u |-> TextBlock(u[i], n)]
<1>1. ExtractTextBlocks(items, n, tables) = B BY DEF ExtractTextBlocks, Uncovered, TextBlock
<1>2. Chosen(u, items, e, c, K, Item) BY AtIs
<1>. HIDE DEF u, e, c
<1>3. /\ c \in Nat /\ e \in [1..c -> K] /\ (\A i \in K : \E k \in 1..c : e[k] = i)
      /\ u \in Seq(Item) /\ Len(u) = c /\ DOMAIN u = 1..c /\ \A k \in 1..c : u[k] = items[e[k]]
  BY <1>2 DEF Chosen, Ascends
<1>4. \A k \in 1..c : u[k] \in Item BY <1>3, ElementOfSeq
<1>5. \A x \in Item : TextBlock(x, n) \in TextsOn(n) BY DEF Item, TextBlock, TextsOn
<1>6. B \in Seq(TextsOn(n)) BY <1>3, <1>4, <1>5
<1>7. ToSet(B) = {TextBlock(u[k], n) : k \in 1..c} BY <1>3 DEF ToSet
<1>8. {u[k] : k \in 1..c} = {y \in ToSet(items) : Uncovered(y, tables)}
  <2>1. \A k \in 1..c : u[k] \in ToSet(items) /\ Uncovered(u[k], tables) BY <1>3 DEF ToSet
  <2>2. ASSUME NEW y \in ToSet(items), Uncovered(y, tables) PROVE \E k \in 1..c : u[k] = y
    <3>1. PICK i \in K : items[i] = y BY <2>2 DEF ToSet
    <3>. QED BY <1>3, <3>1
  <2>. HIDE DEF K
  <2>. QED BY <2>1, <2>2
<1>. QED BY <1>1, <1>6, <1>7, <1>8

(* And of tables: those that have a row. *)
LEMMA TableBlocksAre ==
  ASSUME NEW tables \in Seq(Table), NEW n
  PROVE  /\ ExtractTables(tables, n) \in Seq(TablesOn(n))
         /\ \A b \in ToSet(ExtractTables(tables, n)) : \E t \in ToSet(tables) : b = TableBlock(t, n)
<1> DEFINE K == {i \in DOMAIN tables : tables[i].rows # <<>>}
           u == At(tables, K)
           e == InOrder(K)
           c == Cardinality(K)
           B == [i \in DOMAIN u |-> TableBlock(u[i], n)]
<1>1. ExtractTables(tables, n) = B BY DEF ExtractTables, TableBlock
<1>2. Chosen(u, tables, e, c, K, Table) BY AtIs
<1>. HIDE DEF u, e, c
<1>3. /\ c \in Nat /\ e \in [1..c -> K]
      /\ u \in Seq(Table) /\ Len(u) = c /\ DOMAIN u = 1..c /\ \A k \in 1..c : u[k] = tables[e[k]]
  BY <1>2 DEF Chosen, Ascends
<1>4. \A k \in 1..c : u[k] \in Table /\ u[k] \in ToSet(tables) /\ u[k].rows # <<>>
  <2>1. \A k \in 1..c : u[k] \in Table BY <1>3, ElementOfSeq
  <2>2. \A k \in 1..c : e[k] \in DOMAIN tables /\ tables[e[k]].rows # <<>> BY <1>3
  <2>. QED BY <1>3, <2>1, <2>2 DEF ToSet
<1>5. ASSUME NEW x \in Table, x.rows # <<>> PROVE TableBlock(x, n) \in TablesOn(n)
  <2>1. x.rows \in Seq(Seq(Nat)) /\ x.box \in Box BY DEF Table
  <2>2. x.rows[1] \in Seq(Nat) /\ Len(x.rows[1]) \in Nat /\ Len(x.rows) \in Nat /\ DOMAIN x.rows = 1 .. Len(x.rows)
    BY <1>5, <2>1, LenProperties, EmptySeq, ElementOfSeq
  <2>3. \A r \in 1 .. Len(x.rows) : Widened(x.rows[r], Len(x.rows[1])) \in Seq(Nat)
    <3>1. SUFFICES ASSUME NEW r \in 1 .. Len(x.rows) PROVE Widened(x.rows[r], Len(x.rows[1])) \in Seq(Nat)
      OBVIOUS
    <3>2. x.rows[r] \in Seq(Nat) BY <2>1, <2>2, ElementOfSeq
    <3>3. \A k \in DOMAIN x.rows[r] : x.rows[r][k] \in Nat BY <3>2
    <3>. QED BY <2>2, <3>3 DEF Widened
  <2>4. TableToMarkdown(x.rows) \in Seq(Seq(Nat)) BY <2>2, <2>3 DEF TableToMarkdown
  <2>. QED BY <2>1, <2>4 DEF TableBlock, TablesOn
<1>6. B \in Seq(TablesOn(n)) BY <1>3, <1>4, <1>5
<1>. QED BY <1>1, <1>3, <1>4, <1>6 DEF ToSet

(* A block has some characters. *)
LEMMA CharsAre == ASSUME NEW n, NEW b \in BlocksOn(n) PROVE Chars(b) \in Nat
<1>1. ASSUME NEW q \in Seq(Nat) PROVE Line(q) \in Nat
  <2> DEFINE f == [c \in DOMAIN q |-> q[c] + 3]
  <2>1. Len(q) \in Nat /\ DOMAIN q = 1 .. Len(q) /\ \A c \in DOMAIN q : q[c] \in Nat
    BY LenProperties, ElementOfSeq
  <2>2. IsFiniteSet(DOMAIN q) BY <2>1, FS_Interval
  <2>3. f \in [DOMAIN q -> Nat] BY <2>1
  <2>4. Line(q) = 1 + Total(f) BY DEF Line
  <2>. HIDE DEF f
  <2>5. Total(f) \in Nat BY <2>2, <2>3, TotalIsNat
  <2>. QED BY <2>4, <2>5
<1>2. ASSUME NEW rows \in Seq(Seq(Nat)) PROVE MarkdownChars(rows) \in Nat
  <2>1. /\ Len(rows) \in Nat /\ DOMAIN rows = 1 .. Len(rows) /\ IsFiniteSet(DOMAIN rows)
        /\ \A r \in DOMAIN rows : rows[r] \in Seq(Nat)
    BY LenProperties, ElementOfSeq, FS_Interval
  <2>2. \A r \in DOMAIN rows : Line(rows[r]) \in Nat BY <1>1, <2>1
  <2>3. [r \in DOMAIN rows |-> 1 + Line(rows[r])] \in [DOMAIN rows -> Nat] BY <2>2
  <2>4. Total([r \in DOMAIN rows |-> 1 + Line(rows[r])]) \in Nat BY <2>1, <2>3, TotalIsNat
  <2>5. rows # <<>> => Line([c \in DOMAIN rows[1] |-> 3]) \in Nat
    <3>1. SUFFICES ASSUME rows # <<>> PROVE [c \in DOMAIN rows[1] |-> 3] \in Seq(Nat) BY <1>1
    <3>2. rows[1] \in Seq(Nat) BY <2>1, <3>1, EmptySeq
    <3>3. Len(rows[1]) \in Nat /\ DOMAIN rows[1] = 1 .. Len(rows[1]) BY <3>2, LenProperties
    <3>. QED BY <3>3
  <2>. QED BY <2>4, <2>5 DEF MarkdownChars
<1>3. CASE b \in TextsOn(n) BY <1>3 DEF TextsOn, Reading, Chars
<1>4. CASE b \in TablesOn(n) BY <1>2, <1>4 DEF TablesOn, Chars
<1>. QED BY <1>3, <1>4 DEF BlocksOn

(* A page sorted has the same blocks, from top to bottom. *)
LEMMA ByTopIs ==
  ASSUME NEW n, NEW q \in Seq(BlocksOn(n))
  PROVE  /\ ByTop(q) \in Seq(BlocksOn(n)) /\ ToSet(ByTop(q)) = ToSet(q)
         /\ \A i, j \in DOMAIN ByTop(q) : i < j => ByTop(q)[i].box[2] <= ByTop(q)[j].box[2]
         /\ PageChars(q) \in Nat /\ PageChars(ByTop(q)) = PageChars(q)
<1> DEFINE l == Len(q)
           top == [b \in ToSet(q) |-> -b.box[2]]
           s == ByTop(q)
<1>1. l \in Nat /\ DOMAIN q = 1..l /\ IsFiniteSet(1..l) /\ \A i \in 1..l : q[i] \in BlocksOn(n)
  BY LenProperties, ElementOfSeq, FS_Interval
<1>2. \A i \in 1..l : q[i].box[2] \in Int /\ q[i] \in ToSet(q) /\ top[q[i]] = -q[i].box[2]
  BY <1>1 DEF BlocksOn, TextsOn, TablesOn, Box, ToSet
<1>3. s = StableBest(q, top) BY DEF ByTop
<1>. HIDE DEF top, l, s
<1>4. PICK p : Orders(p, q, top)
  <2>1. \A i \in 1..l : top[q[i]] \in Int BY <1>2
  <2>. QED BY <1>1, <2>1, StableBestSorts
<1>5. /\ p \in [1..l -> 1..l] /\ s = [m \in 1..l |-> q[p[m]]]
      /\ \A i, j \in 1..l : p[i] = p[j] => i = j
      /\ \A i \in 1..l : \E m \in 1..l : p[m] = i
      /\ \A m, k \in 1..l : m < k => top[q[p[m]]] >= top[q[p[k]]]
  <2>1. \A i \in 1..l : top[q[i]] \in Int BY <1>2
  <2>2. /\ p \in [1..l -> 1..l] /\ s = [m \in 1..l |-> q[p[m]]]
        /\ \A i, j \in 1..l : p[i] = p[j] => i = j
        /\ \A i \in 1..l : \E m \in 1..l : p[m] = i
        /\ \A m, k \in 1..l : m < k => \/ top[q[p[m]]] > top[q[p[k]]]
                                       \/ top[q[p[m]]] = top[q[p[k]]] /\ p[m] < p[k]
    BY <1>1, <1>3, <1>4 DEF Orders
  <2>3. \A m \in 1..l : top[q[p[m]]] \in Int BY <2>1, <2>2
  <2> DEFINE at(m) == top[q[p[m]]]
  <2>4. /\ \A m \in 1..l : at(m) \in Int
        /\ \A m, k \in 1..l : m < k => at(m) > at(k) \/ at(m) = at(k)
    BY <2>2, <2>3
  <2>. HIDE DEF at
  <2>5. \A m, k \in 1..l : m < k => at(m) >= at(k) BY <2>4
  <2>. QED BY <2>2, <2>5 DEF at
<1>6. s \in Seq(BlocksOn(n)) /\ DOMAIN s = 1..l BY SMTT(60), <1>1, <1>5
<1>7. ToSet(s) = ToSet(q) BY <1>1, <1>5 DEF ToSet
<1>8. \A i, j \in 1..l : i < j => s[i].box[2] <= s[j].box[2]
  <2>1. SUFFICES ASSUME NEW i \in 1..l, NEW j \in 1..l, i < j PROVE s[i].box[2] <= s[j].box[2]
    OBVIOUS
  <2>2. p[i] \in 1..l /\ p[j] \in 1..l /\ s[i] = q[p[i]] /\ s[j] = q[p[j]] /\ top[q[p[i]]] >= top[q[p[j]]]
    BY <1>5, <2>1
  <2>3. /\ q[p[i]].box[2] \in Int /\ top[q[p[i]]] = -q[p[i]].box[2]
        /\ q[p[j]].box[2] \in Int /\ top[q[p[j]]] = -q[p[j]].box[2]
    BY <1>2, <2>2
  <2> DEFINE a == q[p[i]].box[2]
             b == q[p[j]].box[2]
  <2>4. a \in Int /\ b \in Int /\ -a >= -b /\ s[i].box[2] = a /\ s[j].box[2] = b BY <2>2, <2>3
  <2>. HIDE DEF a, b
  <2>. QED BY <2>4
<1> DEFINE f == [i \in 1..l |-> Chars(q[i])]
           h == [m \in 1..l |-> Chars(s[m])]
<1>9. f \in [1..l -> Nat] /\ h \in [1..l -> Nat] /\ \A m \in 1..l : h[m] = f[p[m]]
  <2>1. \A i \in 1..l : Chars(q[i]) \in Nat BY <1>1, CharsAre
  <2>. QED BY <1>5, <2>1
<1>10. PageChars(q) = Total(f) /\ PageChars(s) = Total(h) BY <1>1, <1>6 DEF PageChars
<1>. HIDE DEF f, h
<1>11. Total(f) \in Nat BY <1>1, <1>9, TotalIsNat
<1>12. f \in [1..l -> Int] /\ h \in [1..l -> Int] BY <1>9
<1>13. Total(h) = Total(f)
  <2>1. Renames(p, h, f, 1..l, 1..l) BY <1>5, <1>9, <1>12 DEF Renames
  <2>. QED BY <1>1, <2>1, TotalOfRenamed
<1>. QED BY <1>6, <1>7, <1>8, <1>10, <1>11, <1>13 DEF s

(* The blocks of a page's layer, and what is taken of the page. *)
LEMMA LayerIs ==
  ASSUME NEW page \in Page, NEW n
  PROVE  /\ Layer(page, n) \in Seq(BlocksOn(n)) /\ ExtractTextBlocks(page.ocr, n, <<>>) \in Seq(BlocksOn(n))
         /\ ToSet(Layer(page, n)) =
              ToSet(ExtractTextBlocks(page.texts, n, page.tables)) \cup ToSet(ExtractTables(page.tables, n))
<1> DEFINE x == ExtractTextBlocks(page.texts, n, page.tables)
           y == ExtractTables(page.tables, n)
           z == ExtractTextBlocks(page.ocr, n, <<>>)
<1>1. page.texts \in Seq(Item) /\ page.tables \in Seq(Table) /\ page.ocr \in Seq(Item)
  BY DEF Page, Table
<1>2. x \in Seq(TextsOn(n)) /\ y \in Seq(TablesOn(n)) /\ z \in Seq(TextsOn(n))
  BY <1>1, TextBlocksAre, TableBlocksAre
<1>3. Layer(page, n) = x \o y BY DEF Layer
<1>. HIDE DEF x, y, z
<1>4. x \in Seq(BlocksOn(n)) /\ y \in Seq(BlocksOn(n)) /\ z \in Seq(BlocksOn(n))
  <2>1. \A q \in Seq(TextsOn(n)) \cup Seq(TablesOn(n)) : Len(q) \in Nat /\ q \in [1 .. Len(q) -> BlocksOn(n)]
    BY LenProperties, ElementOfSeq DEF BlocksOn
  <2>. QED BY SMTT(60), <1>2, <2>1
<1>5. x \o y \in Seq(BlocksOn(n)) /\ ToSet(x \o y) = ToSet(x) \cup ToSet(y) BY <1>4, SetOfConcat
<1>. QED BY <1>3, <1>4, <1>5 DEF x, y, z

(* OCR leaves no less, and is not asked where there is enough. *)
LEMMA OcrAdds ==
  ASSUME NEW page \in Page, NEW n, NEW m \in Nat
  PROVE  LET read(ocr) == PageChars(PageBlocks(page, n, ocr, m))
         IN read(TRUE) >= read(FALSE) /\ (read(FALSE) >= m => read(TRUE) = read(FALSE))
<1> DEFINE x == Layer(page, n)
           z == ExtractTextBlocks(page.ocr, n, <<>>)
<1>1. x \in Seq(BlocksOn(n)) /\ z \in Seq(BlocksOn(n)) BY LayerIs
<1>2. /\ PageChars(x) \in Nat /\ PageChars(z) \in Nat
      /\ PageChars(ByTop(x)) = PageChars(x) /\ PageChars(ByTop(z)) = PageChars(z)
  BY <1>1, ByTopIs
<1>3. /\ PageBlocks(page, n, FALSE, m) = ByTop(x)
      /\ PageBlocks(page, n, TRUE, m) = IF PageChars(x) < m /\ PageChars(z) > PageChars(x) THEN ByTop(z) ELSE ByTop(x)
  BY DEF PageBlocks, ReadByOcr
<1>. HIDE DEF x, z
<1> DEFINE before == PageChars(PageBlocks(page, n, FALSE, m))
           after == PageChars(PageBlocks(page, n, TRUE, m))
           a == PageChars(x)
           c == PageChars(z)
<1>4. a \in Nat /\ c \in Nat /\ before = a /\ after = IF a < m /\ c > a THEN c ELSE a
  BY <1>2, <1>3
<1>. HIDE DEF before, after, a, c
<1>5. after >= before /\ (before >= m => after = before) BY <1>4
<1>. QED BY <1>5 DEF before, after

(* All blocks of all pages. *)
Blocks == UNION {BlocksOn(n) : n \in Nat}

PageOrdered(w) ==
  \A i, j \in DOMAIN w : i < j => \/ w[i].page < w[j].page
                                  \/ w[i].page = w[j].page /\ w[i].box[2] <= w[j].box[2]

(* The blocks are all blocks of the pages, in their order. *)
PagesRead(w, pages, ocr, m) ==
  /\ w \in Seq(Blocks) /\ PageOrdered(w)
  /\ ToSet(w) = UNION {ToSet(PageBlocks(pages[n], n, ocr, m)) : n \in DOMAIN pages}

(* What is taken of a page is of that page, from top to bottom. *)
LEMMA PageIs ==
  ASSUME NEW page \in Page, NEW n, NEW ocr, NEW m
  PROVE  /\ PageBlocks(page, n, ocr, m) \in Seq(BlocksOn(n))
         /\ \A i, j \in DOMAIN PageBlocks(page, n, ocr, m) :
              i < j => PageBlocks(page, n, ocr, m)[i].box[2] <= PageBlocks(page, n, ocr, m)[j].box[2]
         /\ ToSet(PageBlocks(page, n, ocr, m)) =
              IF ReadByOcr(page, n, ocr, m) THEN ToSet(ExtractTextBlocks(page.ocr, n, <<>>))
              ELSE ToSet(ExtractTextBlocks(page.texts, n, page.tables)) \cup ToSet(ExtractTables(page.tables, n))
<1> DEFINE q == IF ReadByOcr(page, n, ocr, m) THEN ExtractTextBlocks(page.ocr, n, <<>>) ELSE Layer(page, n)
<1>1. q \in Seq(BlocksOn(n)) /\ PageBlocks(page, n, ocr, m) = ByTop(q) BY LayerIs DEF PageBlocks
<1>2. ToSet(q) = IF ReadByOcr(page, n, ocr, m) THEN ToSet(ExtractTextBlocks(page.ocr, n, <<>>))
                 ELSE ToSet(ExtractTextBlocks(page.texts, n, page.tables)) \cup ToSet(ExtractTables(page.tables, n))
  BY LayerIs
<1>. HIDE DEF q
<1>3. /\ ByTop(q) \in Seq(BlocksOn(n)) /\ ToSet(ByTop(q)) = ToSet(q)
      /\ \A i, j \in DOMAIN ByTop(q) : i < j => ByTop(q)[i].box[2] <= ByTop(q)[j].box[2]
  BY <1>1, ByTopIs
<1>. QED BY <1>1, <1>2, <1>3

LEMMA PagesAreRead ==
  ASSUME NEW pages \in Seq(Page), NEW ocr, NEW m
  PROVE  PagesRead(FlattenSeq([n \in DOMAIN pages |-> PageBlocks(pages[n], n, ocr, m)]), pages, ocr, m)
<1> DEFINE c == Len(pages)
           B(n) == PageBlocks(pages[n], n, ocr, m)
           xs == [n \in DOMAIN pages |-> B(n)]
           w == FlattenSeq(xs)
<1>1. c \in Nat /\ DOMAIN pages = 1..c /\ \A n \in 1..c : pages[n] \in Page
  BY LenProperties, ElementOfSeq
<1>. HIDE DEF c
<1>2. ASSUME NEW n \in 1..c
      PROVE  B(n) \in Seq(BlocksOn(n)) /\ \A i, j \in DOMAIN B(n) : i < j => B(n)[i].box[2] <= B(n)[j].box[2]
  BY <1>1, PageIs
<1>3. ASSUME NEW n \in 1..c
      PROVE  /\ Len(B(n)) \in Nat /\ DOMAIN B(n) = 1 .. Len(B(n)) /\ B(n) \in Seq(Blocks)
             /\ \A i \in DOMAIN B(n) : B(n)[i] \in BlocksOn(n) /\ B(n)[i].page = n
  <2> DEFINE b == B(n)
  <2>1. b \in Seq(BlocksOn(n)) /\ n \in Nat BY <1>1, <1>2
  <2>. HIDE DEF b
  <2>2. Len(b) \in Nat /\ DOMAIN b = 1 .. Len(b) /\ \A i \in DOMAIN b : b[i] \in BlocksOn(n)
    BY <2>1, LenProperties, ElementOfSeq
  <2>3. \A x \in BlocksOn(n) : x.page = n /\ x \in Blocks
    BY <2>1 DEF BlocksOn, TextsOn, TablesOn, Blocks
  <2>4. b \in Seq(Blocks) BY <2>1, <2>2, <2>3
  <2>. QED BY <2>2, <2>3, <2>4 DEF b
<1>. HIDE DEF B
<1>4. xs \in [1..c -> Seq(Blocks)] /\ \A n \in 1..c : xs[n] = B(n) BY <1>1, <1>3
<1>. HIDE DEF xs, w
<1>5. Sliced(xs, w, c, Blocks) BY <1>1, <1>4, FlattenIsSliced DEF w
<1>6. PICK e : Ends(e, xs, w, c, Blocks) /\ e[c] = Len(w) BY <1>5 DEF Sliced
<1>7. /\ \A i \in 1 .. Len(w) : \E b \in 1..c : e[b - 1] < i /\ i <= e[b]
      /\ \A b \in 0..c : \A d \in 0..b : e[d] <= e[b]
  BY <1>1, <1>6, PlacesOfSlices
<1>8. /\ e \in [0..c -> Nat] /\ w \in Seq(Blocks) /\ DOMAIN w = 1 .. Len(w) /\ Len(w) \in Nat
      /\ \A n \in 1..c : /\ e[n - 1] \in Nat /\ e[n] \in Nat /\ e[n] <= Len(w) /\ Len(B(n)) = e[n] - e[n - 1]
                         /\ \A k \in 1 .. e[n] - e[n - 1] : B(n)[k] = w[e[n - 1] + k]
  <2>1. w \in Seq(Blocks) /\ e \in [0..c -> Nat] BY <1>5, <1>6 DEF Sliced, Ends
  <2>2. ASSUME NEW n \in 1..c PROVE Slice(B(n), w, e[n - 1], e[n], Blocks)
    BY <1>4, <1>6 DEF Ends
  <2>. QED BY <2>1, <2>2, LenProperties DEF Slice
<1>9. ASSUME NEW n \in 1..c, NEW i \in 1 .. Len(w), e[n - 1] < i, i <= e[n]
      PROVE  i - e[n - 1] \in DOMAIN B(n) /\ w[i] = B(n)[i - e[n - 1]] /\ w[i].page = n
  <2>1. i - e[n - 1] \in 1 .. e[n] - e[n - 1] /\ e[n - 1] + (i - e[n - 1]) = i BY <1>8, <1>9
  <2>2. i - e[n - 1] \in DOMAIN B(n) /\ w[i] = B(n)[i - e[n - 1]] BY <1>3, <1>8, <2>1
  <2>. QED BY <1>3, <2>2
<1>10. ASSUME NEW i \in 1 .. Len(w), NEW j \in 1 .. Len(w), i < j
       PROVE  w[i].page < w[j].page \/ (w[i].page = w[j].page /\ w[i].box[2] <= w[j].box[2])
  <2>1. PICK n \in 1..c : e[n - 1] < i /\ i <= e[n] BY <1>7
  <2>2. PICK k \in 1..c : e[k - 1] < j /\ j <= e[k] BY <1>7
  <2>3. w[i].page = n /\ w[j].page = k BY <1>9, <2>1, <2>2
  <2>4. ~(k < n)
    <3>1. SUFFICES ASSUME k < n PROVE FALSE OBVIOUS
    <3>2. n - 1 \in 0..c /\ k \in 0 .. n - 1 BY <1>1, <3>1
    <3>3. e[k] <= e[n - 1] /\ e[k] \in Nat /\ e[n - 1] \in Nat BY <1>7, <1>8, <3>2
    <3>. QED BY <1>10, <2>1, <2>2, <3>3
  <2>5. CASE n = k
    <3> DEFINE a == i - e[n - 1]
               b == j - e[n - 1]
    <3>1. a \in DOMAIN B(n) /\ w[i] = B(n)[a] /\ b \in DOMAIN B(n) /\ w[j] = B(n)[b]
      BY <1>9, <2>1, <2>2, <2>5
    <3>2. a < b BY <1>8, <1>10
    <3>3. w[i].box[2] <= w[j].box[2] BY <1>2, <3>1, <3>2
    <3>. QED BY <2>3, <2>5, <3>3
  <2>. QED BY <1>1, <2>3, <2>4, <2>5
<1>11. ToSet(w) = UNION {ToSet(B(n)) : n \in 1..c}
  <2>1. ASSUME NEW i \in 1 .. Len(w) PROVE \E n \in 1..c : w[i] \in ToSet(B(n))
    <3>1. PICK n \in 1..c : e[n - 1] < i /\ i <= e[n] BY <1>7
    <3>. QED BY <1>9, <3>1 DEF ToSet
  <2>2. ASSUME NEW n \in 1..c, NEW x \in ToSet(B(n)) PROVE x \in ToSet(w)
    <3>1. PICK k \in 1 .. e[n] - e[n - 1] : B(n)[k] = x BY <1>3, <1>8 DEF ToSet
    <3>2. e[n - 1] + k \in 1 .. Len(w) /\ w[e[n - 1] + k] = x BY <1>8, <3>1
    <3>. QED BY <1>8, <3>2 DEF ToSet
  <2>3. ToSet(w) = {w[i] : i \in 1 .. Len(w)} BY <1>8 DEF ToSet
  <2>. QED BY <2>1, <2>2, <2>3
<1>12. PageOrdered(w) BY <1>8, <1>10 DEF PageOrdered
<1>13. UNION {ToSet(B(n)) : n \in 1..c} = UNION {ToSet(PageBlocks(pages[n], n, ocr, m)) : n \in DOMAIN pages}
  BY <1>1 DEF B
<1>14. PagesRead(w, pages, ocr, m) BY <1>8, <1>11, <1>12, <1>13 DEF PagesRead
<1>15. w = FlattenSeq([n \in DOMAIN pages |-> PageBlocks(pages[n], n, ocr, m)]) BY DEF w, xs, B
<1>. QED BY <1>14, <1>15

(* What stands at one place of the pages. *)
PagesAt(w, a) == {b.page : b \in {c \in ToSet(w) : Anchor(c) = a}}

Repeats(b, w, c) ==
  Cardinality(PagesAt(w, Anchor(b))) >= 2 /\ 5 * Cardinality(PagesAt(w, Anchor(b))) > 3 * c

(* Leaving out what repeats leaves the rest in order. *)
LEMMA FilterIs ==
  ASSUME NEW w \in Seq(Blocks), PageOrdered(w), NEW c
  PROVE  LET f == FilterRepeatedHeadersFooters(w, c)
         IN /\ f \in Seq(Blocks) /\ PageOrdered(f)
            /\ ToSet(f) = {b \in ToSet(w) : c < 2 \/ ~Repeats(b, w, c)}
<1>1. CASE c < 2 BY <1>1 DEF FilterRepeatedHeadersFooters
<1>2. CASE ~(c < 2)
  <2> DEFINE K == {i \in DOMAIN w : ~Repeats(w[i], w, c)}
             f == At(w, K)
             e == InOrder(K)
             n == Cardinality(K)
  <2>1. FilterRepeatedHeadersFooters(w, c) = f
    BY <1>2 DEF FilterRepeatedHeadersFooters, Repeats, PagesAt
  <2>2. Chosen(f, w, e, n, K, Blocks) BY AtIs
  <2>. HIDE DEF f, e, n
  <2>3. /\ n \in Nat /\ e \in [1..n -> K] /\ (\A k, l \in 1..n : k < l => e[k] < e[l])
        /\ (\A i \in K : \E k \in 1..n : e[k] = i) /\ f \in Seq(Blocks) /\ DOMAIN f = 1..n
        /\ \A k \in 1..n : f[k] = w[e[k]]
    BY <2>2 DEF Chosen, Ascends
  <2>4. PageOrdered(f)
    <3>1. \A k \in 1..n : e[k] \in DOMAIN w BY <2>3
    <3>. HIDE DEF K
    <3>. QED BY SMTT(60), <2>3, <3>1 DEF PageOrdered
  <2>5. ToSet(f) = {b \in ToSet(w) : ~Repeats(b, w, c)}
    <3>1. \A k \in 1..n : e[k] \in DOMAIN w /\ ~Repeats(w[e[k]], w, c) BY <2>3
    <3>2. \A i \in DOMAIN w : ~Repeats(w[i], w, c) => \E k \in 1..n : e[k] = i BY <2>3
    <3>. HIDE DEF K
    <3>3. ASSUME NEW b \in ToSet(f) PROVE b \in ToSet(w) /\ ~Repeats(b, w, c)
      <4>1. PICK k \in 1..n : b = w[e[k]] BY <2>3 DEF ToSet
      <4>. QED BY <3>1, <4>1 DEF ToSet
    <3>4. ASSUME NEW b \in ToSet(w), ~Repeats(b, w, c) PROVE b \in ToSet(f)
      <4>1. PICK i \in DOMAIN w : b = w[i] BY DEF ToSet
      <4>2. PICK k \in 1..n : e[k] = i BY <3>2, <3>4, <4>1
      <4>3. k \in DOMAIN f /\ f[k] = b BY <2>3, <4>1, <4>2
      <4>. QED BY <4>3 DEF ToSet
    <3>. QED BY <3>3, <3>4
  <2>. QED BY <1>2, <2>1, <2>3, <2>4, <2>5
<1>. QED BY <1>1, <1>2

(* Titles and paths change nothing else of a block. *)
SameBlock(c, b) ==
  /\ c.kind = b.kind /\ c.page = b.page /\ c.box = b.box
  /\ b.kind = "text" => c.text = b.text
  /\ b.kind = "table" => c.rows = b.rows

LEMMA PathsAre ==
  ASSUME NEW f \in Seq(Blocks), NEW code
  PROVE  LET blocks == WithPaths(DetectTitles(f), code)
         IN DOMAIN blocks = DOMAIN f /\ \A i \in DOMAIN f : SameBlock(blocks[i], f[i])
<1> DEFINE t == DetectTitles(f)
           blocks == WithPaths(t, code)
<1>1. PICK title : t = [i \in DOMAIN f |-> [f[i] EXCEPT !.title = title[i]]]
  <2> DEFINE heads(b) == /\ b.kind = "text"
                         /\ 2 * b.size > MedianSize(f) \/ b.text.lead \in {"number", "paragraph"}
             title == [i \in DOMAIN f |-> heads(f[i])]
  <2>1. t = [i \in DOMAIN f |-> [f[i] EXCEPT !.title = heads(f[i])]] BY DEF DetectTitles
  <2>2. \A i \in DOMAIN f : title[i] = heads(f[i]) OBVIOUS
  <2>. HIDE DEF heads, title
  <2>3. t = [i \in DOMAIN f |-> [f[i] EXCEPT !.title = title[i]]] BY <2>1, <2>2, Zenon
  <2>. QED BY ONLY <2>3
<1>. HIDE DEF t
<1>2. PICK path : blocks = [i \in DOMAIN t |-> [t[i] EXCEPT !.path = path[i]]]
  <2> DEFINE giving == {j \in Titles(t) : code[j] # NoPath}
             of(i) == IF giving \cap 1..i = {} THEN NoPath ELSE code[Max(giving \cap 1..i)]
             path == [i \in DOMAIN t |-> of(i)]
  <2>1. blocks = [i \in DOMAIN t |-> [t[i] EXCEPT !.path = of(i)]] BY DEF WithPaths
  <2>2. \A i \in DOMAIN t : path[i] = of(i) OBVIOUS
  <2>. HIDE DEF of, path
  <2>3. blocks = [i \in DOMAIN t |-> [t[i] EXCEPT !.path = path[i]]] BY <2>1, <2>2, Zenon
  <2>. QED BY ONLY <2>3
<1>. HIDE DEF blocks
<1>3. ASSUME NEW i \in DOMAIN f PROVE SameBlock(blocks[i], f[i])
  <2> DEFINE b == f[i]
             h == title[i]
             p == path[i]
             c == [b EXCEPT !.title = h]
             d == [c EXCEPT !.path = p]
  <2>1. blocks[i] = d BY <1>1, <1>2
  <2>2. b \in Blocks BY ElementOfSeq, LenProperties
  <2>. HIDE DEF b, h, p
  <2>3. PICK n \in Nat : b \in TextsOn(n) \/ b \in TablesOn(n) BY <2>2 DEF Blocks, BlocksOn
  <2>. HIDE DEF c, d
  <2>4. CASE b \in TextsOn(n)
    <3>1. /\ b.kind = "text"
          /\ b = [kind |-> b.kind, page |-> b.page, box |-> b.box, size |-> b.size,
                  text |-> b.text, title |-> b.title, path |-> b.path]
      BY <2>4 DEF TextsOn
    <3>2. c = [kind |-> b.kind, page |-> b.page, box |-> b.box, size |-> b.size,
               text |-> b.text, title |-> h, path |-> b.path]
      BY <3>1 DEF c
    <3>3. d = [kind |-> b.kind, page |-> b.page, box |-> b.box, size |-> b.size,
               text |-> b.text, title |-> h, path |-> p]
      BY <3>2 DEF d
    <3>4. d.kind = b.kind /\ d.page = b.page /\ d.box = b.box /\ d.text = b.text BY ONLY <3>3
    <3>5. b.kind = "text" BY ONLY <3>1
    <3>. QED BY ONLY <2>1, <3>4, <3>5 DEF SameBlock, b
  <2>5. CASE b \in TablesOn(n)
    <3>1. /\ b.kind = "table"
          /\ b = [kind |-> b.kind, page |-> b.page, box |-> b.box, size |-> b.size,
                  rows |-> b.rows, title |-> b.title, path |-> b.path]
      BY <2>5 DEF TablesOn
    <3>2. c = [kind |-> b.kind, page |-> b.page, box |-> b.box, size |-> b.size,
               rows |-> b.rows, title |-> h, path |-> b.path]
      BY <3>1 DEF c
    <3>3. d = [kind |-> b.kind, page |-> b.page, box |-> b.box, size |-> b.size,
               rows |-> b.rows, title |-> h, path |-> p]
      BY <3>2 DEF d
    <3>4. d.kind = b.kind /\ d.page = b.page /\ d.box = b.box /\ d.rows = b.rows BY ONLY <3>3
    <3>5. b.kind = "table" BY ONLY <3>1
    <3>. QED BY ONLY <2>1, <3>4, <3>5 DEF SameBlock, b
  <2>. QED BY <2>3, <2>4, <2>5
<1>4. DOMAIN blocks = DOMAIN f BY <1>1, <1>2
<1>. QED BY <1>3, <1>4 DEF blocks, t

(* The blocks are f's with their titles and paths, f is w without what     *)
(* repeats, and w is what is read of the pages.                            *)
ParsedFrom(blocks, f, w, pages, ocr, m) ==
  /\ PagesRead(w, pages, ocr, m) /\ f \in Seq(Blocks) /\ PageOrdered(f)
  /\ ToSet(f) = {b \in ToSet(w) : Len(pages) < 2 \/ ~Repeats(b, w, Len(pages))}
  /\ DOMAIN blocks = DOMAIN f /\ \A i \in DOMAIN f : SameBlock(blocks[i], f[i])

LEMMA PdfIs ==
  ASSUME NEW pages \in Seq(Page), NEW ocr, NEW m
  PROVE  \E f, w : ParsedFrom(ParsePdf(pages, ocr, m).blocks, f, w, pages, ocr, m)
<1> DEFINE c == Len(pages)
           w == FlattenSeq([n \in DOMAIN pages |-> PageBlocks(pages[n], n, ocr, m)])
           f == FilterRepeatedHeadersFooters(w, c)
           t == DetectTitles(f)
           code == [i \in Titles(t) |-> PdfSectionCode(t[i].text)]
           blocks == WithPaths(DetectTitles(f), code)
<1>1. PagesRead(w, pages, ocr, m) BY PagesAreRead
<1>2. ParsePdf(pages, ocr, m).blocks = blocks BY DEF ParsePdf
<1>. HIDE DEF w, c, code
<1>3. w \in Seq(Blocks) /\ PageOrdered(w) BY <1>1 DEF PagesRead
<1>4. f \in Seq(Blocks) /\ PageOrdered(f) /\ ToSet(f) = {b \in ToSet(w) : c < 2 \/ ~Repeats(b, w, c)}
  BY <1>3, FilterIs
<1>. HIDE DEF f
<1>5. DOMAIN blocks = DOMAIN f /\ \A i \in DOMAIN f : SameBlock(blocks[i], f[i])
  BY <1>4, PathsAre
<1>. HIDE DEF blocks
<1>6. ParsedFrom(blocks, f, w, pages, ocr, m) BY <1>1, <1>4, <1>5 DEF ParsedFrom, c
<1>. QED BY <1>2, <1>6

(* What a block of a page is made of. *)
MadeOf(b, page, n, ocr, m) ==
  IF ReadByOcr(page, n, ocr, m) THEN \E x \in ToSet(page.ocr) : b = TextBlock(x, n)
  ELSE \/ \E x \in ToSet(page.texts) : Uncovered(x, page.tables) /\ b = TextBlock(x, n)
       \/ \E x \in ToSet(page.tables) : b = TableBlock(x, n)

LEMMA BlockIsMade ==
  ASSUME NEW page \in Page, NEW n, NEW ocr, NEW m, NEW b \in ToSet(PageBlocks(page, n, ocr, m))
  PROVE  MadeOf(b, page, n, ocr, m)
<1>1. page.texts \in Seq(Item) /\ page.tables \in Seq(Table) /\ page.ocr \in Seq(Item)
  BY DEF Page, Table
<1>2. CASE ReadByOcr(page, n, ocr, m)
  <2>1. b \in ToSet(ExtractTextBlocks(page.ocr, n, <<>>)) BY <1>2, PageIs
  <2>2. PICK x \in ToSet(page.ocr) : b = TextBlock(x, n) BY <1>1, <2>1, TextBlocksAre
  <2>. QED BY <1>2, <2>2 DEF MadeOf
<1>3. CASE ~ReadByOcr(page, n, ocr, m)
  <2>1. \/ b \in ToSet(ExtractTextBlocks(page.texts, n, page.tables))
        \/ b \in ToSet(ExtractTables(page.tables, n))
    BY <1>3, PageIs
  <2>2. ASSUME b \in ToSet(ExtractTextBlocks(page.texts, n, page.tables))
        PROVE  \E x \in ToSet(page.texts) : Uncovered(x, page.tables) /\ b = TextBlock(x, n)
    BY <1>1, <2>2, TextBlocksAre
  <2>3. ASSUME b \in ToSet(ExtractTables(page.tables, n))
        PROVE  \E x \in ToSet(page.tables) : b = TableBlock(x, n)
    BY <1>1, <2>3, TableBlocksAre
  <2>. QED BY <1>3, <2>1, <2>2, <2>3 DEF MadeOf
<1>. QED BY <1>2, <1>3

LEMMA TextIsBlock ==
  ASSUME NEW page \in Page, NEW n, NEW ocr, NEW m, ~ReadByOcr(page, n, ocr, m),
         NEW x \in ToSet(page.texts), Uncovered(x, page.tables)
  PROVE  TextBlock(x, n) \in ToSet(PageBlocks(page, n, ocr, m))
<1>1. page.texts \in Seq(Item) BY DEF Page
<1>2. TextBlock(x, n) \in ToSet(ExtractTextBlocks(page.texts, n, page.tables))
  BY <1>1, TextBlocksAre
<1>. QED BY <1>2, PageIs

(* The pages that have something at a place. *)
PagesHaving(pages, a) ==
  {n \in DOMAIN pages :
     \E x \in ToSet(pages[n].texts \o pages[n].tables \o pages[n].ocr) : Anchor(x) = a}

(* A block is on one of the pages, which has its source at its place. *)
LEMMA BlockIsOnPage ==
  ASSUME NEW pages \in Seq(Page), NEW ocr, NEW m, NEW w, PagesRead(w, pages, ocr, m),
         NEW b \in ToSet(w)
  PROVE  /\ b.page \in DOMAIN pages /\ b.page \in PagesHaving(pages, Anchor(b))
         /\ MadeOf(b, pages[b.page], b.page, ocr, m)
<1>1. PICK n \in DOMAIN pages : b \in ToSet(PageBlocks(pages[n], n, ocr, m)) BY DEF PagesRead
<1>2. pages[n] \in Page BY ElementOfSeq, LenProperties
<1>3. MadeOf(b, pages[n], n, ocr, m) BY <1>1, <1>2, BlockIsMade
<1> DEFINE p == pages[n]
<1>4. p.texts \in Seq(Item \cup Table) /\ p.tables \in Seq(Item \cup Table) /\ p.ocr \in Seq(Item \cup Table)
  <2>1. p.texts \in Seq(Item) /\ p.tables \in Seq(Table) /\ p.ocr \in Seq(Item)
    BY <1>2 DEF Page, Table
  <2>. QED BY <2>1, LenProperties, ElementOfSeq
<1>. HIDE DEF p
<1>5. ToSet(p.texts \o p.tables \o p.ocr) = ToSet(p.texts) \cup ToSet(p.tables) \cup ToSet(p.ocr)
  <2>1. /\ p.texts \o p.tables \in Seq(Item \cup Table)
        /\ ToSet(p.texts \o p.tables) = ToSet(p.texts) \cup ToSet(p.tables)
    BY <1>4, SetOfConcat
  <2> DEFINE q == p.texts \o p.tables
  <2>2. q \in Seq(Item \cup Table) BY <2>1
  <2>. HIDE DEF q
  <2>3. ToSet(q \o p.ocr) = ToSet(q) \cup ToSet(p.ocr) BY <1>4, <2>2, SetOfConcat
  <2>. QED BY SMTT(60), <2>1, <2>3 DEF q
<1>6. \E x \in ToSet(p.texts) \cup ToSet(p.tables) \cup ToSet(p.ocr) :
        b = TextBlock(x, n) \/ b = TableBlock(x, n)
  BY <1>3 DEF MadeOf, p
<1>7. PICK x \in ToSet(p.texts \o p.tables \o p.ocr) : b = TextBlock(x, n) \/ b = TableBlock(x, n)
  BY <1>5, <1>6
<1>8. b.page = n /\ b.box = x.box BY <1>7 DEF TextBlock, TableBlock
<1>9. Anchor(x) = Anchor(b) BY <1>8 DEF Anchor
<1>10. n \in PagesHaving(pages, Anchor(b)) BY <1>7, <1>9 DEF PagesHaving, p
<1>. QED BY <1>3, <1>8, <1>10

LEMMA PlacesAreFound ==
  ASSUME NEW pages \in Seq(Page), NEW ocr, NEW m, NEW w, PagesRead(w, pages, ocr, m), NEW a
  PROVE  /\ PagesAt(w, a) \subseteq PagesHaving(pages, a)
         /\ IsFiniteSet(PagesHaving(pages, a)) /\ Cardinality(PagesHaving(pages, a)) \in Nat
         /\ Cardinality(PagesAt(w, a)) \in Nat
         /\ Cardinality(PagesAt(w, a)) <= Cardinality(PagesHaving(pages, a))
<1>1. PagesAt(w, a) \subseteq PagesHaving(pages, a) BY BlockIsOnPage DEF PagesAt
<1>2. IsFiniteSet(DOMAIN pages) BY LenProperties, FS_Interval
<1>3. PagesHaving(pages, a) \subseteq DOMAIN pages BY DEF PagesHaving
<1>4. IsFiniteSet(PagesHaving(pages, a)) BY <1>2, <1>3, FS_Subset
<1>. QED BY <1>1, <1>4, FS_Subset, FS_CardinalityType

(* A table's rows are as wide as its first. *)
LEMMA TablesAreEven ==
  ASSUME NEW x \in Table, NEW n, NEW r \in DOMAIN TableBlock(x, n).rows
  PROVE  Len(TableBlock(x, n).rows[r]) = Len(TableBlock(x, n).rows[1])
<1> DEFINE rows == x.rows
           w == Len(rows[1])
           e == TableToMarkdown(rows)
<1>1. rows \in Seq(Seq(Nat)) /\ TableBlock(x, n).rows = e BY DEF Table, TableBlock
<1>. HIDE DEF rows
<1>2. r \in DOMAIN rows /\ DOMAIN rows = 1 .. Len(rows) /\ Len(rows) \in Nat
  BY <1>1, LenProperties DEF TableToMarkdown
<1>3. 1 \in DOMAIN rows BY <1>2
<1>4. w \in Nat BY <1>1, <1>3, ElementOfSeq, LenProperties
<1>5. e[r] = Widened(rows[r], w) /\ e[1] = Widened(rows[1], w) BY <1>2, <1>3 DEF TableToMarkdown
<1>. HIDE DEF w, e
<1>6. \A row : Len(Widened(row, w)) = w BY <1>4 DEF Widened
<1>. QED BY <1>1, <1>5, <1>6

(* PagesAreReadInOrder of one reading. *)
ReadInOrder(blocks) ==
  \A i, j \in DOMAIN blocks : i < j => \/ blocks[i].page < blocks[j].page
                                       \/ blocks[i].page = blocks[j].page /\ blocks[i].box[2] <= blocks[j].box[2]

UnderTable(page, t) == \E x \in ToSet(page.tables) : BoxInside(x.box, t.box)

IsRead(blocks, n, t) ==
  \E b \in ToSet(blocks) : b.page = n /\ b.kind = "text" /\ <<b.box, b.text>> = <<t.box, t.text>>

Free(pages, n, t, ocr, m) ==
  ~ReadByOcr(pages[n], n, ocr, m) /\ t.text.chars > 0 /\ ~UnderTable(pages[n], t)

(* A block that is left has its like before titles and paths. *)
LEMMA LikeOfBlock ==
  ASSUME NEW blocks, NEW f, NEW w, NEW pages, NEW ocr, NEW m, ParsedFrom(blocks, f, w, pages, ocr, m),
         NEW c \in ToSet(blocks)
  PROVE  \E b \in ToSet(f) : SameBlock(c, b)
<1>1. PICK i \in DOMAIN f : c = blocks[i] BY DEF ParsedFrom, ToSet
<1>2. SameBlock(blocks[i], f[i]) /\ f[i] \in ToSet(f) BY DEF ParsedFrom, ToSet
<1>. QED BY <1>1, <1>2

(* Of a text nothing covers: it stands where blocks of many pages do. *)
LEMMA MissingRepeats ==
  ASSUME NEW blocks, NEW f, NEW w, NEW pages \in Seq(Page), NEW ocr, NEW m,
         ParsedFrom(blocks, f, w, pages, ocr, m), NEW n \in DOMAIN pages,
         NEW t \in ToSet(pages[n].texts), Free(pages, n, t, ocr, m), ~IsRead(blocks, n, t)
  PROVE  /\ Cardinality(PagesHaving(pages, Anchor(t))) >= 2
         /\ 5 * Cardinality(PagesHaving(pages, Anchor(t))) > 3 * Len(pages)
<1> DEFINE b == TextBlock(t, n)
<1>1. b \in ToSet(w)
  <2>1. Uncovered(t, pages[n].tables) /\ pages[n] \in Page
    BY ElementOfSeq, LenProperties DEF Free, UnderTable, Uncovered
  <2>2. b \in ToSet(PageBlocks(pages[n], n, ocr, m)) BY <2>1, TextIsBlock DEF Free
  <2>. QED BY <2>2 DEF ParsedFrom, PagesRead
<1>2. b.kind = "text" /\ b.page = n /\ b.box = t.box /\ b.text = t.text BY DEF TextBlock
<1>. HIDE DEF b
<1>3. ~(b \in ToSet(f))
  <2>. SUFFICES ASSUME b \in ToSet(f) PROVE FALSE OBVIOUS
  <2>1. PICK i \in DOMAIN f : b = f[i] BY DEF ToSet
  <2>2. SameBlock(blocks[i], b) /\ blocks[i] \in ToSet(blocks) BY <2>1 DEF ParsedFrom, ToSet
  <2>. QED BY <1>2, <2>2 DEF SameBlock, IsRead
<1>4. Repeats(b, w, Len(pages)) BY <1>1, <1>3 DEF ParsedFrom
<1>5. Anchor(b) = Anchor(t) BY <1>2 DEF Anchor
<1> DEFINE a == Anchor(t)
           k == Cardinality(PagesAt(w, a))
           h == Cardinality(PagesHaving(pages, a))
<1>6. k >= 2 /\ 5 * k > 3 * Len(pages) BY <1>4, <1>5 DEF Repeats
<1>7. k \in Nat /\ h \in Nat /\ k <= h BY PlacesAreFound DEF ParsedFrom
<1>8. Len(pages) \in Nat BY LenProperties
<1>. HIDE DEF k, h, a
<1>9. h >= 2 /\ 5 * h > 3 * Len(pages) BY <1>6, <1>7, <1>8
<1>. QED BY <1>9 DEF h, a

(* What stands at one place of all pages of several is left out. *)
LEMMA HeadersAreLeftOut ==
  ASSUME NEW blocks, NEW f, NEW w, NEW pages \in Seq(Page), NEW ocr, NEW m,
         ParsedFrom(blocks, f, w, pages, ocr, m), NEW n \in DOMAIN pages, NEW t, Len(pages) >= 2,
         \A k \in DOMAIN pages : t \in ToSet(pages[k].texts) /\ Free(pages, k, t, ocr, m)
  PROVE  ~IsRead(blocks, n, t)
<1>. SUFFICES ASSUME IsRead(blocks, n, t) PROVE FALSE OBVIOUS
<1>1. PICK c \in ToSet(blocks) : c.box = t.box BY DEF IsRead
<1>2. PICK b \in ToSet(f) : SameBlock(c, b) BY LikeOfBlock
<1>3. b.box = t.box BY <1>1, <1>2 DEF SameBlock
<1>4. Anchor(b) = Anchor(t) BY <1>3 DEF Anchor
<1>5. ~Repeats(b, w, Len(pages)) BY LenProperties DEF ParsedFrom
<1>6. ASSUME NEW k \in DOMAIN pages PROVE k \in PagesAt(w, Anchor(t))
  <2> DEFINE d == TextBlock(t, k)
  <2>1. Uncovered(t, pages[k].tables) /\ pages[k] \in Page /\ t \in ToSet(pages[k].texts)
    BY ElementOfSeq, LenProperties DEF Free, UnderTable, Uncovered
  <2>2. d \in ToSet(PageBlocks(pages[k], k, ocr, m)) BY <2>1, TextIsBlock DEF Free
  <2>3. d \in ToSet(w) BY <2>2 DEF ParsedFrom, PagesRead
  <2>4. d.page = k /\ d.box = t.box BY DEF TextBlock
  <2>. HIDE DEF d
  <2>5. Anchor(d) = Anchor(t) BY <2>4 DEF Anchor
  <2>. QED BY <2>3, <2>4, <2>5 DEF PagesAt
<1>7. PagesAt(w, Anchor(t)) \subseteq DOMAIN pages BY PlacesAreFound DEF ParsedFrom, PagesHaving
<1>8. DOMAIN pages = 1 .. Len(pages) /\ Len(pages) \in Nat BY LenProperties
<1>9. PagesAt(w, Anchor(t)) = 1 .. Len(pages) BY <1>6, <1>7, <1>8
<1>10. Cardinality(1 .. Len(pages)) = Len(pages) BY <1>8, FS_Interval
<1> DEFINE k == Len(pages)
<1>11. k \in Nat /\ k >= 2 /\ Cardinality(PagesAt(w, Anchor(b))) = k BY <1>4, <1>8, <1>9, <1>10
<1>. HIDE DEF k
<1>12. k >= 2 /\ 5 * k > 3 * k BY <1>11
<1>. QED BY <1>5, <1>11, <1>12 DEF Repeats, k

(* What a table covers is not read as a text. *)
LEMMA CoveredIsLeftOut ==
  ASSUME NEW blocks, NEW f, NEW w, NEW pages \in Seq(Page), NEW ocr, NEW m,
         ParsedFrom(blocks, f, w, pages, ocr, m), NEW n \in DOMAIN pages,
         NEW t, UnderTable(pages[n], t), ~ReadByOcr(pages[n], n, ocr, m)
  PROVE  ~IsRead(blocks, n, t)
<1>. SUFFICES ASSUME IsRead(blocks, n, t) PROVE FALSE OBVIOUS
<1>1. PICK c \in ToSet(blocks) : c.page = n /\ c.kind = "text" /\ c.box = t.box BY DEF IsRead
<1>2. PICK b \in ToSet(f) : SameBlock(c, b) BY LikeOfBlock
<1>3. b.page = n /\ b.kind = "text" /\ b.box = t.box BY <1>1, <1>2 DEF SameBlock
<1>4. b \in ToSet(w) /\ PagesRead(w, pages, ocr, m) BY DEF ParsedFrom
<1>5. MadeOf(b, pages[n], n, ocr, m) BY <1>3, <1>4, BlockIsOnPage
<1>6. \A x : TableBlock(x, n).kind = "table" BY DEF TableBlock
<1>7. PICK x \in ToSet(pages[n].texts) : Uncovered(x, pages[n].tables) /\ b = TextBlock(x, n)
  BY <1>3, <1>5, <1>6 DEF MadeOf
<1>8. x.box = t.box BY <1>3, <1>7 DEF TextBlock
<1>. QED BY <1>7, <1>8 DEF Uncovered, UnderTable

(* And all tables are even. *)
LEMMA BlocksAreEven ==
  ASSUME NEW blocks, NEW f, NEW w, NEW pages \in Seq(Page), NEW ocr, NEW m,
         ParsedFrom(blocks, f, w, pages, ocr, m), NEW c \in ToSet(blocks), c.kind = "table",
         NEW r \in DOMAIN c.rows
  PROVE  Len(c.rows[r]) = Len(c.rows[1])
<1>1. PICK b \in ToSet(f) : SameBlock(c, b) BY LikeOfBlock
<1>2. b.kind = "table" /\ b.rows = c.rows BY <1>1 DEF SameBlock
<1>3. b \in ToSet(w) /\ PagesRead(w, pages, ocr, m) BY DEF ParsedFrom
<1>4. b.page \in DOMAIN pages /\ MadeOf(b, pages[b.page], b.page, ocr, m) BY <1>3, BlockIsOnPage
<1> DEFINE n == b.page
           p == pages[n]
<1>5. p \in Page /\ n = b.page BY <1>4, ElementOfSeq, LenProperties
<1>. HIDE DEF n, p
<1>6. \A x : TextBlock(x, n).kind = "text" BY DEF TextBlock
<1>7. PICK x \in ToSet(p.tables) : b = TableBlock(x, n) BY <1>2, <1>4, <1>6 DEF MadeOf, p, n
<1>8. x \in Table
  <2>1. p.tables \in Seq(Table) BY <1>5 DEF Page, Table
  <2>. QED BY <2>1, ElementOfSeq, LenProperties DEF ToSet
<1>. QED BY <1>2, <1>7, <1>8, TablesAreEven

(* Of the pages (adapters/parsing/pdf.py). *)
LEMMA PagesOfCalls == InputsStayCalls => PagesAreReadInOrder
<1>. SUFFICES ASSUME InputsStayCalls, subject = "pdf" PROVE PagesAreReadInOrder
  BY DEF PagesAreReadInOrder
<1> DEFINE pages == input.pages
           ocr == input.ocr
           m == input.minChars
           parsed == ParsePdf(pages, ocr, m)
           blocks == parsed.blocks
<1>1. pages \in Seq(Page) BY PagesAreTyped DEF InputsStayCalls
<1>2. PICK f, w : ParsedFrom(blocks, f, w, pages, ocr, m) BY <1>1, PdfIs
<1>3. \A n \in DOMAIN pages : n \notin parsed.ocr_pages <=> ~ReadByOcr(pages[n], n, ocr, m)
  BY DEF ParsePdf
<1>. HIDE DEF parsed, blocks, pages, ocr, m
<1>4. ReadInOrder(blocks)
  <2>1. ASSUME NEW i \in DOMAIN f PROVE blocks[i].page = f[i].page /\ blocks[i].box = f[i].box
    BY <1>2 DEF ParsedFrom, SameBlock
  <2>2. DOMAIN blocks = DOMAIN f /\ PageOrdered(f) BY <1>2 DEF ParsedFrom
  <2>. QED BY <2>1, <2>2 DEF ReadInOrder, PageOrdered
<1>5. ASSUME NEW n \in DOMAIN pages, NEW t \in ToSet(pages[n].texts)
      PROVE  /\ Free(pages, n, t, ocr, m) /\ ~IsRead(blocks, n, t) =>
                  /\ Cardinality(PagesHaving(pages, Anchor(t))) >= 2
                  /\ 5 * Cardinality(PagesHaving(pages, Anchor(t))) > 3 * Len(pages)
             /\ Len(pages) >= 2 /\ (\A k \in DOMAIN pages : t \in ToSet(pages[k].texts) /\ Free(pages, k, t, ocr, m))
                  => ~IsRead(blocks, n, t)
             /\ UnderTable(pages[n], t) /\ ~ReadByOcr(pages[n], n, ocr, m) => ~IsRead(blocks, n, t)
  BY <1>1, <1>2, MissingRepeats, HeadersAreLeftOut, CoveredIsLeftOut
<1>6. \A b \in ToSet(blocks) : b.kind = "table" => \A r \in DOMAIN b.rows : Len(b.rows[r]) = Len(b.rows[1])
  BY <1>1, <1>2, BlocksAreEven
<1>7. \A t : {n \in DOMAIN pages :
                \E x \in ToSet(pages[n].texts \o pages[n].tables \o pages[n].ocr) : Anchor(x) = Anchor(t)}
             = PagesHaving(pages, Anchor(t))
  BY DEF PagesHaving
<1>. QED BY <1>3, <1>4, <1>5, <1>6, <1>7 DEF PagesAreReadInOrder, ReadInOrder, Free, UnderTable, IsRead, blocks, parsed,
                                             pages, ocr, m

(* Of OCR. *)
LEMMA OcrOfCalls == InputsStayCalls => OcrOnlyAdds
<1>. SUFFICES ASSUME InputsStayCalls, subject = "pdf", NEW n \in DOMAIN input.pages
              PROVE  LET read(ocr) == PageChars(PageBlocks(input.pages[n], n, ocr, input.minChars))
                     IN read(TRUE) >= read(FALSE) /\ (read(FALSE) >= input.minChars => read(TRUE) = read(FALSE))
  BY DEF OcrOnlyAdds
<1>1. input.pages[n] \in Page /\ input.minChars \in Nat
  BY PagesAreTyped, ElementOfSeq, LenProperties DEF InputsStayCalls
<1>. QED BY <1>1, OcrAdds

(* A PDF's blocks come in the order of its pages and tops, none is missing *)
(* without a reason, none is read twice, and OCR never leaves less         *)
(* (adapters/parsing/pdf.py).                                              *)
THEOREM PagesSound == Spec => []PagesAreSound
<1>1. InputsStayCalls => PagesAreSound BY PagesOfCalls, OcrOfCalls DEF PagesAreSound
<1>. QED BY <1>1, CallsAreInputs, PTL
=============================================================================
