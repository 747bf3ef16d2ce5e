-------------------------- MODULE AlgorithmsProofs --------------------------
(***************************************************************************)
(* Proofs about what the backend and the page compute when they search,    *)
(* call a model's server, embed texts, read a stream of events, admit a    *)
(* request or answer from the database: for rankings, texts, streams,      *)
(* answers and databases of any size.                                      *)
(*                                                                         *)
(* What is computed along a sequence is a fold.  A fold over n elements is *)
(* a function on the subsets of 1..n; that function exists, by induction   *)
(* on n, so that each fold has a trace: what it has after each element.    *)
(* A property of the fold is then an induction along its trace.  The last  *)
(* sections are what AnswersProofs needs of selections, slices and windows.*)
(***************************************************************************)
EXTENDS Algorithms, TLAPS, FiniteSetTheorems, SequenceTheorems, WellFoundedInduction

-----------------------------------------------------------------------------
(* Induction over the numbers and along a fold.  The library's induction   *)
(* theorems take an operator; well-foundedness of < gives the same for sets. *)

(* A set with zero and every successor has every number. *)
LEMMA InductionOnNat == ASSUME NEW S \in SUBSET Nat, 0 \in S, \A n \in S : n + 1 \in S PROVE S = Nat
<1> DEFINE T == Nat \ S
<1> SUFFICES ASSUME T # {} PROVE FALSE
  OBVIOUS
<1>1. PICK x \in T : \A y \in T : ~ (<<y, x>> \in OpToRel(<,Nat))
  BY NatLessThanWellFounded, WFMin
<1>2. \A y \in T : ~(y < x) BY <1>1 DEF OpToRel
<1>3. x # 0 /\ x - 1 \in Nat /\ x - 1 \notin T BY <1>2
<1> QED BY <1>3

(* The same up to a bound, for what is shown of every number up to it. *)
LEMMA InductionUpTo == ASSUME NEW n \in Nat, NEW S, 0 \in S, \A i \in 1..n : i - 1 \in S => i \in S
  PROVE \A i \in 0..n : i \in S
<1> DEFINE T == {i \in Nat : i <= n => i \in S}
<1>1. 0 \in T OBVIOUS
<1>2. \A i \in T : i + 1 \in T
  <2>. SUFFICES ASSUME NEW i \in T, i + 1 <= n PROVE i + 1 \in S OBVIOUS
  <2>1. i + 1 \in 1..n /\ (i + 1) - 1 \in S OBVIOUS
  <2>. QED BY <2>1
<1>3. T = Nat
  <2>. HIDE DEF T
  <2>1. T \in SUBSET Nat BY DEF T
  <2>. QED BY <1>1, <1>2, <2>1, InductionOnNat
<1>. QED BY <1>3

(* The greatest of some positions is one of them, and none is beyond it. *)
LEMMA MaxOfUpTo == ASSUME NEW n \in Nat, NEW s \in SUBSET (1..n), s # {}
  PROVE Max(s) \in s /\ \A x \in s : x <= Max(s)
<1> DEFINE B == {i \in Nat : \A x \in s : x <= n - i}
<1>2. 0 \in B OBVIOUS
<1>3. \E i \in B : i + 1 \notin B
  <2>. SUFFICES ASSUME \A i \in B : i + 1 \in B PROVE FALSE OBVIOUS
  <2>1. B = Nat BY <1>2, InductionOnNat
  <2>2. \A x \in s : x <= n - n BY <2>1
  <2>3. PICK x \in s : x \in 1..n OBVIOUS
  <2>. QED BY <2>2, <2>3
<1>4. PICK i \in B : i + 1 \notin B BY <1>3
<1>5. n - i \in s /\ \A x \in s : x <= n - i BY <1>4
<1>. QED BY <1>5 DEF Max

(* What is greatest among some positions is their Max. *)
LEMMA MaxIs == ASSUME NEW n \in Nat, NEW s \in SUBSET (1..n), NEW m \in s, \A x \in s : x <= m
  PROVE Max(s) = m
<1>1. Max(s) \in s /\ m <= Max(s) BY MaxOfUpTo
<1>2. \A x, y \in 1..n : x <= y /\ y <= x => x = y OBVIOUS
<1>3. Max(s) \in 1..n /\ m \in 1..n /\ Max(s) <= m BY <1>1
<1>. QED BY ONLY <1>1, <1>2, <1>3

(* The greatest of the first i positions, and those before it. *)
LEMMA MaxUpTo == ASSUME NEW n \in Nat, NEW i \in 1..n
  PROVE /\ 1..i \in SUBSET (1..n) /\ 1..i # {}
        /\ Max(1..i) = i /\ (1..i) \ {i} = 1 .. i - 1
<1>1. i \in Nat /\ 1..i \in SUBSET (1..i) /\ i \in 1..i /\ \A x \in 1..i : x <= i OBVIOUS
<1>2. Max(1..i) = i BY <1>1, MaxIs
<1>. QED BY <1>2

(* g[s] is what step makes of base along the positions in s, in order: the *)
(* function a fold of the community modules is defined by.                 *)
Iterates(g, n, base, step) ==
  \A s \in SUBSET (1..n) : g[s] = IF s = {} THEN base ELSE step[<<g[s \ {Max(s)}], Max(s)>>]

(* There is such a function. *)
HasIterate(X, n, base, step) == \E g \in [SUBSET (1..n) -> X] : Iterates(g, n, base, step)

(* Every step on a set of values can be iterated. *)
LEMMA IterationExists == ASSUME NEW n \in Nat, NEW X, NEW base \in X, NEW step \in [X \X (1..n) -> X]
  PROVE HasIterate(X, n, base, step)
<1> DEFINE K == {k \in 0..n : HasIterate(X, k, base, step)}
<1>1. 0 \in K
  <2>1. SUBSET (1..0) = {{}} OBVIOUS
  <2>. DEFINE z == [s \in {{}} |-> base]
  <2>2. z \in [SUBSET (1..0) -> X] BY <2>1
  <2>3. Iterates(z, 0, base, step) BY <2>1 DEF Iterates
  <2>. HIDE DEF z
  <2>4. HasIterate(X, 0, base, step) BY <2>2, <2>3 DEF HasIterate
  <2>. QED BY <2>4
<1>2. ASSUME NEW k \in 0 .. n - 1, HasIterate(X, k, base, step) PROVE HasIterate(X, k + 1, base, step)
  <2>1. PICK g \in [SUBSET (1..k) -> X] : Iterates(g, k, base, step) BY <1>2 DEF HasIterate
  <2>. HIDE DEF K
  <2> DEFINE h == [s \in SUBSET (1..k+1) |-> IF k + 1 \in s THEN step[<<g[s \ {k+1}], k + 1>>] ELSE g[s]]
  <2>2. \A s \in SUBSET (1..k+1) : k + 1 \notin s => s \in SUBSET (1..k) OBVIOUS
  <2>3. \A s \in SUBSET (1..k+1) : k + 1 \in s => s \ {k+1} \in SUBSET (1..k) /\ Max(s) = k + 1
    <3>. SUFFICES ASSUME NEW s \in SUBSET (1..k+1), k + 1 \in s PROVE s \ {k+1} \in SUBSET (1..k) /\ Max(s) = k + 1
      OBVIOUS
    <3>1. \A x \in s : x <= k + 1 OBVIOUS
    <3>2. Max(s) = k + 1 BY <3>1, k + 1 \in Nat, MaxIs
    <3>. QED BY <3>2
  <2>4. \A s \in SUBSET (1..k+1) : k + 1 \notin s => h[s] = g[s] BY ONLY <2>2
  <2>5. \A s \in SUBSET (1..k+1) : k + 1 \in s => h[s] = step[<<g[s \ {k+1}], k + 1>>] OBVIOUS
  <2>6. h \in [SUBSET (1..k+1) -> X] BY <2>2, <2>3
  <2>. HIDE DEF h
  <2>7. Iterates(h, k + 1, base, step)
    <3>. SUFFICES ASSUME NEW s \in SUBSET (1..k+1) PROVE h[s] = IF s = {} THEN base ELSE step[<<h[s \ {Max(s)}], Max(s)>>]
      BY DEF Iterates
    <3>1. CASE k + 1 \in s
      <4>1. h[s \ {k+1}] = g[s \ {k+1}] BY <2>4
      <4>. QED BY <3>1, <4>1, <2>3, <2>5
    <3>2. CASE k + 1 \notin s
      <4>1. s \in SUBSET (1..k) /\ h[s] = g[s] BY <3>2, <2>2, <2>4
      <4>2. h[s \ {Max(s)}] = g[s \ {Max(s)}] BY <3>2, <2>4
      <4>3. g[s] = IF s = {} THEN base ELSE step[<<g[s \ {Max(s)}], Max(s)>>]
        BY <4>1, <2>1 DEF Iterates
      <4>. QED BY ONLY <4>1, <4>2, <4>3
    <3>. QED BY <3>1, <3>2
  <2>. QED BY <2>6, <2>7 DEF HasIterate
<1>3. \A i \in 1..n : i - 1 \in K => i \in K BY <1>2
<1>4. \A i \in 0..n : i \in K
  <2>. HIDE DEF K
  <2>. QED BY <1>1, <1>3, InductionUpTo
<1>. QED BY <1>4

(* What is iterated stays in a set that each step keeps. *)
LEMMA IteratesInto ==
  ASSUME NEW n \in Nat, NEW X, NEW it, it[{}] \in X,
         \A i \in 1..n : it[1 .. i - 1] \in X => it[1..i] \in X
  PROVE  [i \in 0..n |-> it[1..i]] \in [0..n -> X]
<1> DEFINE S == {j \in 0..n : it[1..j] \in X}
<1>1. 1..0 = {} /\ 0 \in S OBVIOUS
<1>2. \A i \in 1..n : i - 1 \in S => i \in S OBVIOUS
<1>3. \A i \in 0..n : i \in S
  <2>. HIDE DEF S
  <2>. QED BY <1>1, <1>2, InductionUpTo
<1>. QED BY <1>3

(* f is a trace of step: what it has after each of 1..n. *)
Follows(f, n, X, base, step) ==
  f \in [0..n -> X] /\ f[0] = base /\ \A i \in 1..n : f[i] = step[<<f[i - 1], i>>]

(* There is one that ends in last. *)
Traced(n, X, base, step, last) == \E f : Follows(f, n, X, base, step) /\ f[n] = last

(* it folds step from base. *)
Folded(it, n, X, base, step) ==
  /\ it[{}] = base
  /\ \A s \in SUBSET (1..n) : s # {} /\ it[s \ {Max(s)}] \in X =>
       it[s] = step[<<it[s \ {Max(s)}], Max(s)>>]

(* What a fold is along 1..i, for each i, is a trace. *)
LEMMA FoldFollows ==
  ASSUME NEW n \in Nat, NEW X, NEW base \in X, NEW step \in [X \X (1..n) -> X],
         NEW it, Folded(it, n, X, base, step)
  PROVE  Traced(n, X, base, step, it[1..n])
<1>1. ASSUME NEW i \in 1..n, it[1 .. i - 1] \in X
      PROVE  it[1..i] = step[<<it[1 .. i - 1], i>>] /\ it[1..i] \in X
  <2>1. 1..i \in SUBSET (1..n) /\ 1..i # {} /\ Max(1..i) = i /\ (1..i) \ {Max(1..i)} = 1 .. i - 1
    BY MaxUpTo
  <2>2. it[(1..i) \ {Max(1..i)}] \in X BY ONLY <1>1, <2>1
  <2>3. it[1..i] = step[<<it[(1..i) \ {Max(1..i)}], Max(1..i)>>] BY <2>1, <2>2 DEF Folded
  <2>. QED BY <1>1, <2>1, <2>3
<1>2. \A i \in 1..n : it[1 .. i - 1] \in X => it[1..i] \in X BY <1>1
<1> DEFINE f == [i \in 0..n |-> it[1..i]]
<1>3. f \in [0..n -> X] BY <1>2, IteratesInto DEF Folded
<1>4. 1..0 = {} /\ f[0] = base /\ f[n] = it[1..n] BY DEF Folded
<1>5. \A i \in 1..n : f[i] = it[1..i] /\ f[i - 1] = it[1 .. i - 1] /\ i - 1 \in 0..n OBVIOUS
<1>. HIDE DEF f
<1>6. \A i \in 1..n : f[i] = step[<<f[i - 1], i>>] BY <1>1, <1>3, <1>5
<1>7. Follows(f, n, X, base, step) BY <1>3, <1>4, <1>6 DEF Follows
<1>. QED BY <1>4, <1>7 DEF Traced

(* The lesser and the greater of two. *)
LEMMA PairBounds ==
  ASSUME NEW a \in Int, NEW b \in Int
  PROVE  /\ Min({a, b}) = IF a <= b THEN a ELSE b
         /\ Max({a, b}) = IF a >= b THEN a ELSE b
<1>1. \A m \in {a, b} : (\A y \in {a, b} : m <= y) => m = IF a <= b THEN a ELSE b OBVIOUS
<1>2. \A m \in {a, b} : (\A y \in {a, b} : m >= y) => m = IF a >= b THEN a ELSE b OBVIOUS
<1>3. \E m \in {a, b} : \A y \in {a, b} : m <= y OBVIOUS
<1>4. \E m \in {a, b} : \A y \in {a, b} : m >= y OBVIOUS
<1>. QED BY <1>1, <1>2, <1>3, <1>4 DEF Min, Max

(* A power of two is a number. *)
LEMMA PowersOfTwo == ASSUME NEW n \in Nat PROVE 2 ^ n \in Nat
<1>1. IsFiniteSet(1..n) /\ Cardinality(1..n) = n BY FS_Interval
<1>2. IsFiniteSet(SUBSET (1..n)) /\ Cardinality(SUBSET (1..n)) = 2 ^ n BY <1>1, FS_SUBSET
<1>. QED BY <1>2, FS_CardinalityType

(* A sequence of one. *)
LEMMA Alone ==
  ASSUME NEW V, NEW z \in V
  PROVE  <<z>> \in Seq(V) /\ Len(<<z>>) = 1 /\ <<z>>[1] = z
OBVIOUS

(* One element cut out of a sequence. *)
LEMMA OneOf ==
  ASSUME NEW V, NEW s \in Seq(V), NEW k \in 1 .. Len(s)
  PROVE  SubSeq(s, k, k) = <<s[k]>>
<1>1. k \in Int /\ k \in k .. Len(s) /\ k + 1 \in Int /\ k < k + 1 /\ s[k] \in V OBVIOUS
<1>2. SubSeq(s, k + 1, k) = <<>> BY <1>1, SubSeqEmpty
<1>3. SubSeq(s, k, k) = <<s[k]>> \o SubSeq(s, k + 1, k) BY <1>1, SubSeqRecursiveFirst
<1> DEFINE one == <<s[k]>>
<1>4. one \in Seq(V) BY <1>1, Alone
<1>. HIDE DEF one
<1>5. one \o <<>> = one BY <1>4, ConcatEmptySeq
<1>. QED BY <1>2, <1>3, <1>5 DEF one

-----------------------------------------------------------------------------
(* complete. *)

(* f is the trace of a completion: what it has after each answer. *)
Completes(limit, q, n, X, base) ==
  \E f \in [0..n -> X] :
    /\ f[0] = base /\ \A i \in 1..n : f[i] = Attempt(limit, f[i - 1], q[i])
    /\ base = [result |-> "trying", attempts |-> 0, elapsed |-> 0] => Complete(limit, q) = f[n]

(* A completion has a trace. *)
LEMMA CompleteTrace ==
  ASSUME NEW limit, NEW q, NEW n \in Nat, DOMAIN q = 1..n, NEW X, NEW base \in X,
         \A a \in X : \A i \in 1..n : Attempt(limit, a, q[i]) \in X
  PROVE  Completes(limit, q, n, X, base)
<1> DEFINE step == [p \in X \X (1..n) |-> Attempt(limit, p[1], q[p[2]])]
           Is(g) == g = [s \in SUBSET (1..n) |->
                          IF s = {} THEN base ELSE Attempt(limit, g[s \ {Max(s)}], q[Max(s)])]
<1>1. step \in [X \X (1..n) -> X] /\ \A a \in X : \A i \in 1..n : step[<<a, i>>] = Attempt(limit, a, q[i])
  OBVIOUS
<1>. HIDE DEF step
<1>2. PICK g \in [SUBSET (1..n) -> X] : Iterates(g, n, base, step)
  BY <1>1, IterationExists DEF HasIterate
<1>3. ASSUME NEW s \in SUBSET (1..n), s # {}
      PROVE  g[s] = Attempt(limit, g[s \ {Max(s)}], q[Max(s)])
  <2>1. Max(s) \in 1..n /\ g[s \ {Max(s)}] \in X BY <1>3, MaxOfUpTo
  <2>. QED BY <1>1, <1>2, <1>3, <2>1 DEF Iterates
<1> DEFINE it == CHOOSE h : Is(h)
<1>4. Is(it)
  <2>1. Is(g) BY <1>2, <1>3 DEF Iterates
  <2>. QED BY <2>1
<1>5. base = [result |-> "trying", attempts |-> 0, elapsed |-> 0] => Complete(limit, q) = it[1..n]
  BY DEF Complete, FoldLeft, MapThenFoldSet
<1>. HIDE DEF it
<1>6. Folded(it, n, X, base, step) BY <1>1, <1>4, MaxOfUpTo DEF Folded
<1>7. PICK f : Follows(f, n, X, base, step) /\ f[n] = it[1..n]
  <2>1. Traced(n, X, base, step, it[1..n]) BY <1>1, <1>6, FoldFollows
  <2>. QED BY <2>1 DEF Traced
<1>8. f \in [0..n -> X] /\ f[0] = base /\ \A i \in 1..n : f[i] = Attempt(limit, f[i - 1], q[i])
  <2>1. \A i \in 1..n : f[i - 1] \in X BY <1>7 DEF Follows
  <2>. QED BY <1>1, <1>7, <2>1 DEF Follows
<1>. QED BY <1>5, <1>7, <1>8 DEF Completes

(* How a completion may stand, and what it holds. *)
Results == {"trying", "ok", "llm_timeout", "untyped", "llm_unavailable"}

(* A completion under way or over. *)
Completing == [result : Results, attempts : Nat, elapsed : Nat]

(* No wait is longer than the longest configured one. *)
LEMMA WaitIsBounded ==
  ASSUME NEW limit \in CompletionLimit, NEW kind, NEW after \in Int, NEW n \in Nat \ {0}
  PROVE  /\ Wait(limit, kind, after, n) \in Nat
         /\ Wait(limit, kind, after, n) <= Max({limit.retryAfter, limit.backoff})
<1>1. 2 ^ (n - 1) \in Nat BY n - 1 \in Nat, PowersOfTwo
<1>2. limit.retryAfter \in Nat /\ limit.backoff \in Nat BY DEF CompletionLimit
<1> DEFINE p == 2 ^ (n - 1)
<1>. HIDE DEF p
<1>3. p \in Nat /\ Min({p, limit.backoff}) = IF p <= limit.backoff THEN p ELSE limit.backoff
  BY <1>1, <1>2, PairBounds DEF p
<1>4. Min({after, limit.retryAfter}) = IF after <= limit.retryAfter THEN after ELSE limit.retryAfter
  BY <1>2, PairBounds
<1>5. Max({limit.retryAfter, limit.backoff}) = IF limit.retryAfter >= limit.backoff THEN limit.retryAfter ELSE limit.backoff
  BY <1>2, limit.retryAfter \in Int, limit.backoff \in Int, PairBounds
<1>6. Wait(limit, kind, after, n) = IF kind = "429" /\ after >= 0 THEN Min({after, limit.retryAfter}) ELSE Min({p, limit.backoff})
  BY DEF Wait, Backoff, p
<1>. QED BY <1>2, <1>3, <1>4, <1>5, <1>6

(* One attempt costs its deadline and a wait; it goes on only after what may *)
(* pass, while attempts are left.                                          *)
LEMMA AttemptIs ==
  ASSUME NEW limit \in CompletionLimit, NEW acc \in Completing, NEW r \in CompletionResponse
  PROVE  LET next == Attempt(limit, acc, r)
             kind == KindOf(limit, r)
             M == Max({limit.retryAfter, limit.backoff})
         IN /\ next \in Completing
            /\ acc.result # "trying" => next = acc
            /\ acc.result = "trying" =>
                 /\ next.attempts = acc.attempts + 1
                 /\ next.elapsed <= acc.elapsed + limit.deadline
                                      + IF next.result = "trying" THEN M ELSE 0
                 /\ (next.result = "trying") = (kind \in Transient /\ next.attempts <= limit.retries)
                 /\ (next.result = "ok") = (kind = "ok")
<1> DEFINE next == Attempt(limit, acc, r)
           kind == KindOf(limit, r)
           n == acc.attempts + 1
           e == acc.elapsed + Min({r.took, limit.deadline})
           w == Wait(limit, kind, r.after, n)
           M == Max({limit.retryAfter, limit.backoff})
<1>1. /\ acc.attempts \in Nat /\ acc.elapsed \in Nat /\ acc.result \in Results
      /\ limit.deadline \in Nat /\ r.took \in Nat /\ r.after \in Int /\ n \in Nat \ {0}
  BY DEF Completing, CompletionLimit, CompletionResponse
<1>2. e \in Nat /\ e <= acc.elapsed + limit.deadline BY <1>1, PairBounds
<1>3. w \in Nat /\ w <= M BY <1>1, WaitIsBounded
<1>4. ErrorOf(kind) \in Results /\ ErrorOf(kind) # "trying" /\ ErrorOf(kind) # "ok"
  BY DEF ErrorOf, Results
<1>5. M \in Nat
  BY limit.retryAfter \in Int, limit.backoff \in Int, PairBounds DEF CompletionLimit
<1>6. next = IF acc.result # "trying" THEN acc
             ELSE IF kind \in Transient /\ n <= limit.retries
             THEN [result |-> "trying", attempts |-> n, elapsed |-> e + w]
             ELSE [result |-> IF kind = "ok" THEN "ok" ELSE ErrorOf(kind), attempts |-> n, elapsed |-> e]
  BY DEF Attempt
<1>7. kind \in Transient => kind # "ok" BY DEF Transient
<1>. HIDE DEF next, kind, n, e, w, M
<1>8. CASE acc.result # "trying" BY <1>6, <1>8 DEF next
<1>9. CASE acc.result = "trying" /\ kind \in Transient /\ n <= limit.retries
  <2>1. next = [result |-> "trying", attempts |-> n, elapsed |-> e + w] BY <1>6, <1>9
  <2>2. next \in Completing BY <2>1, <1>1, <1>2, <1>3 DEF Completing, Results
  <2>. QED BY <2>1, <2>2, <1>1, <1>2, <1>3, <1>5, <1>7, <1>9 DEF next, kind, n, M
<1>10. CASE acc.result = "trying" /\ ~(kind \in Transient /\ n <= limit.retries)
  <2>1. next = [result |-> IF kind = "ok" THEN "ok" ELSE ErrorOf(kind), attempts |-> n, elapsed |-> e]
    BY <1>6, <1>10
  <2>2. next \in Completing BY <2>1, <1>1, <1>2, <1>4 DEF Completing, Results
  <2>. QED BY <2>1, <2>2, <1>1, <1>2, <1>4, <1>10 DEF next, kind, n, M
<1>. QED BY <1>8, <1>9, <1>10

(* Whatever the server answers, and whatever Retry-After it asks for, a    *)
(* completion (OpenAICompatibleClient.complete) ends within its attempts and *)
(* their deadlines and waits, and succeeds only by its last attempt.       *)
THEOREM CompletionIsBounded ==
  ASSUME NEW limit \in CompletionLimit, NEW rs \in Seq(CompletionResponse), Len(rs) > limit.retries
  PROVE  LET call == Complete(limit, rs)
             kind(i) == KindOf(limit, rs[i])
         IN /\ call.result # "trying" /\ call.attempts \in 1 .. limit.retries + 1
            /\ call.elapsed <= call.attempts * limit.deadline
                                 + (call.attempts - 1) * Max({limit.retryAfter, limit.backoff})
            /\ \A i \in 1 .. call.attempts - 1 : kind(i) \in Transient
            /\ (call.result = "ok") = (kind(call.attempts) = "ok")
            /\ kind(call.attempts) \in Transient => call.attempts = limit.retries + 1
<1> DEFINE n == Len(rs)
           M == Max({limit.retryAfter, limit.backoff})
           D == limit.deadline
           kind(i) == KindOf(limit, rs[i])
           base == [result |-> "trying", attempts |-> 0, elapsed |-> 0]
<1>1. n \in Nat /\ DOMAIN rs = 1..n /\ base \in Completing /\ \A i \in 1..n : rs[i] \in CompletionResponse
  BY DEF Completing, Results
<1>2. M \in Nat /\ D \in Nat /\ limit.retries \in Nat
  BY limit.retryAfter \in Int, limit.backoff \in Int, PairBounds DEF CompletionLimit
<1>3. \A a \in Completing : \A i \in 1..n : Attempt(limit, a, rs[i]) \in Completing
  BY <1>1, AttemptIs
<1>4. Completes(limit, rs, n, Completing, base)
  <2>. HIDE DEF n, base
  <2>. QED BY <1>1, <1>3, CompleteTrace
<1>5. PICK f \in [0..n -> Completing] :
        /\ f[0] = base /\ \A i \in 1..n : f[i] = Attempt(limit, f[i - 1], rs[i])
        /\ Complete(limit, rs) = f[n]
  BY <1>4 DEF Completes
<1>. HIDE DEF n, M, D
<1> DEFINE Tried(i) ==
             /\ f[i].result = "trying" => /\ f[i].attempts = i /\ i <= limit.retries
                                          /\ f[i].elapsed <= i * D + i * M
                                          /\ \A j \in 1..i : kind(j) \in Transient
             /\ f[i].result # "trying" =>
                  /\ f[i].attempts \in 1 .. limit.retries + 1
                  /\ f[i].elapsed <= f[i].attempts * D + (f[i].attempts - 1) * M
                  /\ \A j \in 1 .. f[i].attempts - 1 : kind(j) \in Transient
                  /\ (f[i].result = "ok") = (kind(f[i].attempts) = "ok")
                  /\ kind(f[i].attempts) \in Transient => f[i].attempts = limit.retries + 1
           Good == {i \in 0..n : Tried(i)}
<1>6. 0 \in Good BY <1>1, <1>2, <1>5
<1>7. ASSUME NEW i \in 1..n, i - 1 \in Good PROVE i \in Good
  <2> DEFINE a == f[i - 1]
             b == f[i]
  <2>1. a \in Completing /\ b = Attempt(limit, a, rs[i]) /\ Tried(i - 1) BY <1>1, <1>5, <1>7
  <2>2. /\ b \in Completing
        /\ a.result # "trying" => b = a
        /\ a.result = "trying" =>
             /\ b.attempts = a.attempts + 1
             /\ b.elapsed <= a.elapsed + D + IF b.result = "trying" THEN M ELSE 0
             /\ (b.result = "trying") = (kind(i) \in Transient /\ b.attempts <= limit.retries)
             /\ (b.result = "ok") = (kind(i) = "ok")
    BY <2>1, <1>1, AttemptIs DEF D, M
  <2>3. CASE a.result # "trying" BY <2>1, <2>2, <2>3
  <2>4. CASE a.result = "trying"
    <3>1. /\ a.attempts = i - 1 /\ i - 1 <= limit.retries
          /\ a.elapsed <= (i - 1) * D + (i - 1) * M
          /\ \A j \in 1 .. i - 1 : kind(j) \in Transient
      BY <2>1, <2>4
    <3>2. /\ b.attempts = i /\ b.elapsed \in Nat /\ a.elapsed \in Nat
          /\ b.elapsed <= a.elapsed + D + IF b.result = "trying" THEN M ELSE 0
          /\ (b.result = "trying") = (kind(i) \in Transient /\ i <= limit.retries)
          /\ (b.result = "ok") = (kind(i) = "ok")
      BY <1>1, <2>1, <2>2, <2>4, <3>1 DEF Completing, Results
    <3>. HIDE DEF a, b, kind
    <3>3. i * D = (i - 1) * D + D /\ i * M = (i - 1) * M + M BY <1>1, <1>2
    <3>4. (i - 1) * D \in Int /\ (i - 1) * M \in Int BY <1>1, <1>2
    <3>5. b.result = "trying" => b.elapsed <= i * D + i * M
      <4> DEFINE x == (i - 1) * D
                 y == (i - 1) * M
      <4>. HIDE DEF x, y
      <4>. QED BY <3>1, <3>2, <3>3, <3>4, <1>2 DEF x, y
    <3>6. b.result # "trying" => b.elapsed <= i * D + (i - 1) * M
      <4> DEFINE x == (i - 1) * D
                 y == (i - 1) * M
      <4>. HIDE DEF x, y
      <4>. QED BY <3>1, <3>2, <3>3, <3>4, <1>2 DEF x, y
    <3>7. \A j \in 1..i : j = i \/ j \in 1 .. i - 1 BY <1>1
    <3>8. b.result = "trying" => \A j \in 1..i : kind(j) \in Transient BY <3>1, <3>2, <3>7
    <3>9. i \in 0..n /\ i \in 1 .. limit.retries + 1
      <4>1. i - 1 <= limit.retries BY Zenon, <3>1
      <4>. QED BY <1>1, <1>2, <4>1
    <3>10. CASE b.result = "trying"
      <4>1. i <= limit.retries BY Zenon, <3>2, <3>10
      <4>. HIDE DEF D, M
      <4>2. Tried(i) BY <3>2, <3>5, <3>8, <3>10, <4>1 DEF b
      <4>. QED BY <3>9, <4>2
    <3>11. CASE b.result # "trying"
      <4>1. kind(i) \in Transient => ~(i <= limit.retries) BY Zenon, <3>2, <3>11
      <4>2. kind(i) \in Transient => i = limit.retries + 1 BY <3>9, <4>1, <1>2
      <4>. HIDE DEF D, M
      <4>3. Tried(i) BY <3>1, <3>2, <3>6, <3>9, <3>11, <4>2 DEF b
      <4>. QED BY <3>9, <4>3
    <3>. QED BY <3>10, <3>11
  <2>. QED BY <2>3, <2>4
<1>8. n \in Good
  <2>. HIDE DEF Good
  <2>1. \A i \in 1..n : i - 1 \in Good => i \in Good BY <1>7
  <2>2. \A i \in 0..n : i \in Good BY <1>1, <1>6, <2>1, InductionUpTo
  <2>. QED BY <1>1, <2>2
<1>9. f[n].result # "trying" BY <1>8, <1>2 DEF n
<1>. QED BY <1>5, <1>8, <1>9 DEF M, D

-----------------------------------------------------------------------------
(* stream. *)

(* f is the trace of a stream: what it has after each line. *)
Streamed(limit, q, n, X, base) ==
  \E f \in [0..n -> X] :
    /\ f[0] = base /\ \A i \in 1..n : f[i] = NextLine(limit, f[i - 1], q[i])
    /\ FoldLeft(LAMBDA acc, l : NextLine(limit, acc, l), base, q) = f[n]

(* A stream has a trace. *)
LEMMA StreamTrace ==
  ASSUME NEW limit, NEW q, NEW n \in Nat, DOMAIN q = 1..n, NEW X, NEW base \in X,
         \A a \in X : \A i \in 1..n : NextLine(limit, a, q[i]) \in X
  PROVE  Streamed(limit, q, n, X, base)
<1> DEFINE step == [p \in X \X (1..n) |-> NextLine(limit, p[1], q[p[2]])]
           Is(g) == g = [s \in SUBSET (1..n) |->
                          IF s = {} THEN base ELSE NextLine(limit, g[s \ {Max(s)}], q[Max(s)])]
<1>1. step \in [X \X (1..n) -> X] /\ \A a \in X : \A i \in 1..n : step[<<a, i>>] = NextLine(limit, a, q[i])
  OBVIOUS
<1>. HIDE DEF step
<1>2. PICK g \in [SUBSET (1..n) -> X] : Iterates(g, n, base, step)
  BY <1>1, IterationExists DEF HasIterate
<1>3. ASSUME NEW s \in SUBSET (1..n), s # {}
      PROVE  g[s] = NextLine(limit, g[s \ {Max(s)}], q[Max(s)])
  <2>1. Max(s) \in 1..n /\ g[s \ {Max(s)}] \in X BY <1>3, MaxOfUpTo
  <2>. QED BY <1>1, <1>2, <1>3, <2>1 DEF Iterates
<1> DEFINE it == CHOOSE h : Is(h)
<1>4. Is(it)
  <2>1. Is(g) BY <1>2, <1>3 DEF Iterates
  <2>. QED BY <2>1
<1>5. FoldLeft(LAMBDA acc, l : NextLine(limit, acc, l), base, q) = it[1..n]
  BY DEF FoldLeft, MapThenFoldSet
<1>. HIDE DEF it
<1>6. Folded(it, n, X, base, step) BY <1>1, <1>4, MaxOfUpTo DEF Folded
<1>7. PICK f : Follows(f, n, X, base, step) /\ f[n] = it[1..n]
  <2>1. Traced(n, X, base, step, it[1..n]) BY <1>1, <1>6, FoldFollows
  <2>. QED BY <2>1 DEF Traced
<1>8. f \in [0..n -> X] /\ f[0] = base /\ \A i \in 1..n : f[i] = NextLine(limit, f[i - 1], q[i])
  <2>1. \A i \in 1..n : f[i - 1] \in X BY <1>7 DEF Follows
  <2>. QED BY <1>1, <1>7, <2>1 DEF Follows
<1>. QED BY <1>5, <1>7, <1>8 DEF Streamed

(* A stream under way or over. *)
Streaming ==
  [result : {"open", "complete", "llm_timeout", "llm_unavailable", "untyped"},
   elapsed : Nat, due : Nat, deltas : Seq(Nat)]

(* The deadline of the k-th delta. *)
Due(limit, k) == IF k = 1 THEN limit.first ELSE limit.idle

(* When the k-th delta came. *)
Came(acc, k) == IF k = 0 THEN 0 ELSE acc.deltas[k]

(* Every delta came by its deadline, and the next one still can, or the    *)
(* stream is over.                                                         *)
InTime(limit, acc) ==
  /\ \A k \in 1 .. Len(acc.deltas) : Came(acc, k) - Came(acc, k - 1) <= Due(limit, k)
  /\ LET open == acc.elapsed - Came(acc, Len(acc.deltas))
     IN /\ open <= Due(limit, Len(acc.deltas) + 1)
        /\ acc.result = "open" => open + acc.due <= Due(limit, Len(acc.deltas) + 1)

(* A line that carries no delta puts no deadline off. *)
LEMMA SameDeltasInTime ==
  ASSUME NEW limit \in StreamLimit, NEW acc \in Streaming, NEW next \in Streaming,
         next.deltas = acc.deltas, InTime(limit, acc), acc.result = "open",
         next.elapsed <= acc.elapsed + acc.due,
         next.result = "open" => next.elapsed + next.due <= acc.elapsed + acc.due
  PROVE  InTime(limit, next)
<1> DEFINE L == Len(acc.deltas)
<1>1. \A k : Came(next, k) = Came(acc, k) BY DEF Came
<1>2. \A k \in 1..L : Came(next, k) - Came(next, k - 1) <= Due(limit, k) BY <1>1 DEF InTime
<1>3. /\ L \in Nat /\ Came(acc, L) \in Nat /\ Due(limit, L + 1) \in Nat
      /\ acc.elapsed \in Nat /\ acc.due \in Nat /\ next.elapsed \in Nat /\ next.due \in Nat
  BY DEF Came, Due, Streaming, StreamLimit
<1>4. /\ acc.elapsed - Came(acc, L) + acc.due <= Due(limit, L + 1)
      /\ Len(next.deltas) = L /\ Came(next, L) = Came(acc, L)
  BY <1>1 DEF InTime
<1>. QED BY <1>2, <1>3, <1>4 DEF InTime

(* Every line keeps the deltas in time. *)
LEMMA LineIsInTime ==
  ASSUME NEW limit \in StreamLimit, NEW acc \in Streaming, NEW line \in StreamLine
  PROVE  LET next == NextLine(limit, acc, line)
         IN /\ next \in Streaming
            /\ InTime(limit, acc) => InTime(limit, next)
            /\ next.result = "complete" => acc.result = "complete" \/ line.kind \in {"done", "end"}
<1> DEFINE wait == Min({acc.due, limit.read})
           spent == acc.elapsed + Min({line.after, wait})
           next == NextLine(limit, acc, line)
           L == Len(acc.deltas)
<1>1. /\ limit.first \in Nat /\ limit.idle \in Nat /\ limit.read \in Nat
      /\ acc.elapsed \in Nat /\ acc.due \in Nat /\ acc.deltas \in Seq(Nat) /\ L \in Nat
      /\ line.kind \in LineKinds /\ line.after \in Nat
      /\ acc = [result |-> acc.result, elapsed |-> acc.elapsed, due |-> acc.due, deltas |-> acc.deltas]
  BY DEF StreamLimit, Streaming, StreamLine
<1>2. wait = IF acc.due <= limit.read THEN acc.due ELSE limit.read
  BY <1>1, acc.due \in Int, limit.read \in Int, PairBounds
<1>3. wait \in Nat /\ wait <= acc.due BY <1>1, <1>2
<1>. HIDE DEF wait
<1>4. spent = acc.elapsed + IF line.after <= wait THEN line.after ELSE wait
  BY <1>1, <1>3, line.after \in Int, wait \in Int, PairBounds
<1>. HIDE DEF spent
<1>5. spent \in Nat /\ spent <= acc.elapsed + acc.due /\ spent >= acc.elapsed
  BY <1>1, <1>3, <1>4
<1>6. /\ Came(acc, L) \in Nat /\ Due(limit, L + 1) \in Nat
      /\ \A k \in 0..L : Came(acc, k) \in Nat
  BY <1>1 DEF Came, Due
<1>7. CASE acc.result # "open" BY <1>7 DEF NextLine
<1>8. CASE acc.result = "open" /\ line.after > wait
  <2>1. next = [acc EXCEPT !.result = "llm_timeout", !.elapsed = spent]
    BY <1>8 DEF NextLine, wait, spent
  <2>2. next = [result |-> "llm_timeout", elapsed |-> spent, due |-> acc.due, deltas |-> acc.deltas]
    BY <2>1, <1>1
  <2>. HIDE DEF next
  <2>3. next \in Streaming BY <2>2, <1>1, <1>5 DEF Streaming
  <2>4. InTime(limit, acc) => InTime(limit, next) BY <2>2, <2>3, <1>5, <1>8, SameDeltasInTime
  <2>. QED BY <2>2, <2>3, <2>4 DEF next
<1>9. CASE acc.result = "open" /\ ~(line.after > wait) /\ line.kind = "delta"
  <2>1. next = [result |-> "open", elapsed |-> spent, due |-> limit.idle, deltas |-> Append(acc.deltas, spent)]
    BY <1>1, <1>9 DEF NextLine, wait, spent
  <2>. HIDE DEF next
  <2>2. next \in Streaming BY <2>1, <1>1, <1>5 DEF Streaming
  <2>3. Len(next.deltas) = L + 1 /\ Came(next, L + 1) = spent /\ \A k \in 0..L : Came(next, k) = Came(acc, k)
    BY <2>1, <1>1, <1>5 DEF Came
  <2>4. ASSUME InTime(limit, acc) PROVE InTime(limit, next)
    <3>1. spent - Came(acc, L) <= Due(limit, L + 1) BY <2>4, <1>1, <1>5, <1>6, <1>9 DEF InTime
    <3>2. \A k \in 1..L : Came(acc, k) - Came(acc, k - 1) <= Due(limit, k) BY <2>4 DEF InTime
    <3>3. ASSUME NEW k \in 1 .. L + 1 PROVE Came(next, k) - Came(next, k - 1) <= Due(limit, k)
      <4>1. k - 1 \in 0..L /\ (k \in 1..L \/ k = L + 1) /\ L + 1 - 1 = L BY <1>1
      <4>. QED BY <4>1, <3>1, <3>2, <2>3
    <3>4. Due(limit, L + 1 + 1) = limit.idle BY <1>1 DEF Due
    <3>5. next.elapsed = spent /\ next.due = limit.idle /\ spent - spent = 0 /\ 0 + limit.idle = limit.idle
      BY <2>1, <1>1, <1>5
    <3>. QED BY <3>3, <3>4, <3>5, <2>3, <1>1 DEF InTime
  <2>. QED BY <2>1, <2>2, <2>4 DEF next
<1>10. CASE acc.result = "open" /\ ~(line.after > wait) /\ line.kind # "delta"
  <2>1. PICK r \in {"open", "complete", "llm_unavailable", "untyped"} :
          /\ next = [result |-> r, elapsed |-> spent, due |-> acc.due - line.after, deltas |-> acc.deltas]
          /\ r = "complete" => line.kind \in {"done", "end"}
    BY <1>1, <1>10 DEF NextLine, wait, spent, LineKinds
  <2>. HIDE DEF next
  <2>2. acc.due - line.after \in Nat /\ spent = acc.elapsed + line.after
    BY <1>1, <1>3, <1>4, <1>10
  <2>3. next \in Streaming BY <2>1, <2>2, <1>1, <1>5 DEF Streaming
  <2>4. next.elapsed + next.due <= acc.elapsed + acc.due BY <2>1, <2>2, <1>1
  <2>5. InTime(limit, acc) => InTime(limit, next)
    BY <2>1, <2>3, <2>4, <1>5, <1>10, SameDeltasInTime
  <2>. QED BY <2>1, <2>3, <2>5 DEF next
<1>. QED BY <1>7, <1>8, <1>9, <1>10

(* A stream of any length (OpenAICompatibleClient.stream) is over within the *)
(* first deadline and then the idle one after each delta, whatever else the *)
(* server sends, and is complete only after its last line.                 *)
THEOREM StreamEnds ==
  ASSUME NEW limit \in StreamLimit, NEW lines \in Seq(StreamLine)
  PROVE  LET stream == Stream(limit, lines)
             at(i) == IF i = 0 THEN 0 ELSE stream.deltas[i]
             bound(i) == IF i = 1 THEN limit.first ELSE limit.idle
         IN /\ stream.result # "open"
            /\ \A i \in 1 .. Len(stream.deltas) : at(i) - at(i - 1) <= bound(i)
            /\ stream.elapsed - at(Len(stream.deltas)) <= bound(Len(stream.deltas) + 1)
            /\ stream.result = "complete" =>
                 \E i \in DOMAIN lines : lines[i].kind \in {"done", "end"}
<1> DEFINE n == Len(lines)
           base == [result |-> "open", elapsed |-> 0, due |-> limit.first, deltas |-> <<>>]
           stream == Stream(limit, lines)
<1>1. n \in Nat /\ DOMAIN lines = 1..n /\ \A i \in 1..n : lines[i] \in StreamLine OBVIOUS
<1>2. base \in Streaming /\ limit.first \in Nat /\ limit.idle \in Nat /\ limit.read \in Nat
  BY DEF Streaming, StreamLimit
<1>3. \A a \in Streaming : \A i \in 1..n : NextLine(limit, a, lines[i]) \in Streaming
  BY <1>1, LineIsInTime
<1>4. Streamed(limit, lines, n, Streaming, base)
  <2>. HIDE DEF n, base
  <2>. QED BY <1>1, <1>2, <1>3, StreamTrace
<1>5. PICK f \in [0..n -> Streaming] :
        /\ f[0] = base /\ \A i \in 1..n : f[i] = NextLine(limit, f[i - 1], lines[i])
        /\ stream = IF f[n].result # "open" THEN f[n]
                    ELSE [f[n] EXCEPT !.result = "llm_timeout",
                                      !.elapsed = @ + Min({f[n].due, limit.read})]
  BY <1>4 DEF Streamed, Stream
<1> DEFINE all == f[n]
<1>6. stream = IF all.result # "open" THEN all
               ELSE [all EXCEPT !.result = "llm_timeout", !.elapsed = @ + Min({all.due, limit.read})]
  BY <1>5
<1>. HIDE DEF n
<1> DEFINE Good == {i \in 0..n : /\ InTime(limit, f[i])
                                 /\ f[i].result = "complete" => \E j \in 1..i : lines[j].kind \in {"done", "end"}}
<1>7. 0 \in Good
  <2>1. f[0] = base /\ 1..0 = {} /\ 0 + 1 = 1 BY <1>5
  <2>3. base.deltas = <<>> /\ base.result = "open" /\ base.elapsed = 0 /\ base.due = limit.first
    OBVIOUS
  <2>. HIDE DEF base
  <2>4. Len(base.deltas) = 0 BY <2>3
  <2>2. InTime(limit, base) BY <2>1, <2>3, <2>4, <1>2 DEF InTime, Came, Due
  <2>5. 0 \in 0..n /\ InTime(limit, f[0]) /\ f[0].result # "complete" BY <2>1, <2>2, <2>3, <1>1
  <2>. QED BY <2>5
<1>8. ASSUME NEW i \in 1..n, i - 1 \in Good PROVE i \in Good
  <2>1. f[i - 1] \in Streaming /\ f[i] = NextLine(limit, f[i - 1], lines[i]) /\ lines[i] \in StreamLine
    <3>1. i - 1 \in 0..n BY <1>1
    <3>. QED BY <3>1, <1>1, <1>5
  <2>2. /\ InTime(limit, f[i - 1]) => InTime(limit, f[i])
        /\ f[i].result = "complete" => f[i - 1].result = "complete" \/ lines[i].kind \in {"done", "end"}
    BY <2>1, LineIsInTime
  <2>. QED BY <1>1, <1>8, <2>2
<1>9. n \in Good
  <2>. HIDE DEF Good
  <2>1. \A i \in 1..n : i - 1 \in Good => i \in Good BY <1>8
  <2>2. \A i \in 0..n : i \in Good BY <1>1, <1>7, <2>1, InductionUpTo
  <2>. QED BY <1>1, <2>2
<1>10. /\ all \in Streaming /\ InTime(limit, all)
       /\ all.result = "complete" => \E j \in DOMAIN lines : lines[j].kind \in {"done", "end"}
  BY <1>1, <1>5, <1>9
<1>. HIDE DEF all, stream
<1>11. stream.result # "open" /\ stream.deltas = all.deltas /\ InTime(limit, stream)
       /\ (stream.result = "complete" => all.result = "complete")
  <2>1. CASE all.result # "open" BY <2>1, <1>6, <1>10
  <2>2. CASE all.result = "open"
    <3> DEFINE w == Min({all.due, limit.read})
    <3>1. all.due \in Nat /\ all.elapsed \in Nat /\ all.deltas \in Seq(Nat)
      BY <1>10 DEF Streaming
    <3>2. w \in Nat /\ w <= all.due
      BY SMTT(60), <3>1, <1>2, all.due \in Int, limit.read \in Int, PairBounds
    <3>. HIDE DEF w
    <3>3. stream = [result |-> "llm_timeout", elapsed |-> all.elapsed + w, due |-> all.due, deltas |-> all.deltas]
      BY <2>2, <1>6, <1>10 DEF Streaming, w
    <3>4. stream \in Streaming BY <3>1, <3>2, <3>3 DEF Streaming
    <3>7. InTime(limit, stream) BY <2>2, <3>1, <3>2, <3>3, <3>4, <1>10, SameDeltasInTime
    <3>. QED BY <3>3, <3>7
  <2>. QED BY <2>1, <2>2
<1>. QED BY <1>10, <1>11 DEF InTime, Came, Due, stream

-----------------------------------------------------------------------------
(* The embedder's call. *)

(* f is the trace of an embedder's call. *)
Posts(limit, q, n, X, base) ==
  \E f \in [0..n -> X] :
    /\ f[0] = base /\ \A i \in 1..n : f[i] = Post(limit, f[i - 1], q[i])
    /\ base = [result |-> "trying", attempts |-> 0, elapsed |-> 0] => PostAll(limit, q) = f[n]

(* An embedder's call has a trace. *)
LEMMA PostTrace ==
  ASSUME NEW limit, NEW q, NEW n \in Nat, DOMAIN q = 1..n, NEW X, NEW base \in X,
         \A a \in X : \A i \in 1..n : Post(limit, a, q[i]) \in X
  PROVE  Posts(limit, q, n, X, base)
<1> DEFINE step == [p \in X \X (1..n) |-> Post(limit, p[1], q[p[2]])]
           Is(g) == g = [s \in SUBSET (1..n) |->
                          IF s = {} THEN base ELSE Post(limit, g[s \ {Max(s)}], q[Max(s)])]
<1>1. step \in [X \X (1..n) -> X] /\ \A a \in X : \A i \in 1..n : step[<<a, i>>] = Post(limit, a, q[i])
  OBVIOUS
<1>. HIDE DEF step
<1>2. PICK g \in [SUBSET (1..n) -> X] : Iterates(g, n, base, step)
  BY <1>1, IterationExists DEF HasIterate
<1>3. ASSUME NEW s \in SUBSET (1..n), s # {}
      PROVE  g[s] = Post(limit, g[s \ {Max(s)}], q[Max(s)])
  <2>1. Max(s) \in 1..n /\ g[s \ {Max(s)}] \in X BY <1>3, MaxOfUpTo
  <2>. QED BY <1>1, <1>2, <1>3, <2>1 DEF Iterates
<1> DEFINE it == CHOOSE h : Is(h)
<1>4. Is(it)
  <2>1. Is(g) BY <1>2, <1>3 DEF Iterates
  <2>. QED BY <2>1
<1>5. base = [result |-> "trying", attempts |-> 0, elapsed |-> 0] => PostAll(limit, q) = it[1..n]
  BY DEF PostAll, FoldLeft, MapThenFoldSet
<1>. HIDE DEF it
<1>6. Folded(it, n, X, base, step) BY <1>1, <1>4, MaxOfUpTo DEF Folded
<1>7. PICK f : Follows(f, n, X, base, step) /\ f[n] = it[1..n]
  <2>1. Traced(n, X, base, step, it[1..n]) BY <1>1, <1>6, FoldFollows
  <2>. QED BY <2>1 DEF Traced
<1>8. f \in [0..n -> X] /\ f[0] = base /\ \A i \in 1..n : f[i] = Post(limit, f[i - 1], q[i])
  <2>1. \A i \in 1..n : f[i - 1] \in X BY <1>7 DEF Follows
  <2>. QED BY <1>1, <1>7, <2>1 DEF Follows
<1>. QED BY <1>5, <1>7, <1>8 DEF Posts

(* An embedder's call under way or over. *)
Posting == [result : {"trying", "ok", "failed"}, attempts : Nat, elapsed : Nat]

(* One attempt goes on only after a status that is retried. *)
LEMMA PostIs ==
  ASSUME NEW limit \in PostLimit, NEW acc \in Posting, NEW r \in PostResponse
  PROVE  LET next == Post(limit, acc, r)
         IN /\ next \in Posting
            /\ acc.result # "trying" => next = acc
            /\ acc.result = "trying" =>
                 /\ next.attempts = acc.attempts + 1
                 /\ (next.result = "trying")
                      = (r.kind \in Retryable /\ next.attempts <= limit.retries)
                 /\ (next.result = "ok") = (r.kind = "ok")
<1> DEFINE next == Post(limit, acc, r)
           n == acc.attempts + 1
           w == WaitSeconds(r.after, limit.retryAfter, n)
<1>1. /\ acc.attempts \in Nat /\ acc.elapsed \in Nat /\ n \in Nat
      /\ limit.retries \in Nat /\ limit.retryAfter \in Nat /\ r.took \in Nat /\ r.after \in Int
  BY DEF Posting, PostLimit, PostResponse
<1>2. w \in Nat
  <2>1. 2 ^ n \in Nat BY <1>1, PowersOfTwo
  <2>2. Min({r.after, limit.retryAfter}) = IF r.after <= limit.retryAfter THEN r.after ELSE limit.retryAfter
    BY <1>1, limit.retryAfter \in Int, PairBounds
  <2>. HIDE DEF n
  <2>. QED BY <1>1, <2>1, <2>2 DEF WaitSeconds
<1>3. "ok" \notin Retryable BY DEF Retryable
<1>. HIDE DEF w
<1>4. CASE acc.result # "trying" BY <1>4 DEF Post
<1>5. CASE acc.result = "trying" /\ r.kind \in Retryable /\ acc.attempts < limit.retries
  <2>1. next = [result |-> "trying", attempts |-> n, elapsed |-> acc.elapsed + r.took + w]
    BY <1>5 DEF Post, w
  <2>. HIDE DEF next
  <2>2. next \in Posting BY <2>1, <1>1, <1>2 DEF Posting
  <2>. QED BY <2>1, <2>2, <1>1, <1>3, <1>5 DEF next
<1>6. CASE acc.result = "trying" /\ ~(r.kind \in Retryable /\ acc.attempts < limit.retries)
  <2>1. next = [result |-> IF r.kind = "ok" THEN "ok" ELSE "failed", attempts |-> n, elapsed |-> acc.elapsed + r.took]
    BY <1>6 DEF Post
  <2>. HIDE DEF next
  <2>2. next \in Posting BY <2>1, <1>1 DEF Posting
  <2>. QED BY <2>1, <2>2, <1>1, <1>3, <1>6 DEF next
<1>. QED BY <1>4, <1>5, <1>6

(* Whatever the server answers, a batch (GeminiEmbedder._post) is tried no *)
(* more often than configured, and again only after a status worth it.     *)
THEOREM PostsAreEnough ==
  ASSUME NEW limit \in PostLimit, NEW rs \in Seq(PostResponse), Len(rs) > limit.retries
  PROVE  LET call == PostAll(limit, rs)
             kind(i) == rs[i].kind
         IN /\ call.result # "trying" /\ call.attempts \in 1 .. limit.retries + 1
            /\ \A i \in 1 .. call.attempts - 1 : kind(i) \in Retryable
            /\ (call.result = "ok") = (kind(call.attempts) = "ok")
<1> DEFINE n == Len(rs)
           base == [result |-> "trying", attempts |-> 0, elapsed |-> 0]
<1>1. n \in Nat /\ DOMAIN rs = 1..n /\ base \in Posting /\ \A i \in 1..n : rs[i] \in PostResponse
  BY DEF Posting
<1>2. limit.retries \in Nat BY DEF PostLimit
<1>3. \A a \in Posting : \A i \in 1..n : Post(limit, a, rs[i]) \in Posting BY <1>1, PostIs
<1>4. Posts(limit, rs, n, Posting, base)
  <2>. HIDE DEF n, base
  <2>. QED BY <1>1, <1>3, PostTrace
<1>5. PICK f \in [0..n -> Posting] :
        /\ f[0] = base /\ \A i \in 1..n : f[i] = Post(limit, f[i - 1], rs[i])
        /\ PostAll(limit, rs) = f[n]
  BY <1>4 DEF Posts
<1>. HIDE DEF n
<1> DEFINE Tried(i) ==
             /\ f[i].result = "trying" => /\ f[i].attempts = i /\ i <= limit.retries
                                          /\ \A j \in 1..i : rs[j].kind \in Retryable
             /\ f[i].result # "trying" =>
                  /\ f[i].attempts \in 1 .. limit.retries + 1
                  /\ \A j \in 1 .. f[i].attempts - 1 : rs[j].kind \in Retryable
                  /\ (f[i].result = "ok") = (rs[f[i].attempts].kind = "ok")
           Good == {i \in 0..n : Tried(i)}
<1>6. 0 \in Good BY <1>1, <1>2, <1>5
<1>7. ASSUME NEW i \in 1..n, i - 1 \in Good PROVE i \in Good
  <2> DEFINE a == f[i - 1]
             b == f[i]
  <2>1. a \in Posting /\ b = Post(limit, a, rs[i]) /\ Tried(i - 1) /\ rs[i] \in PostResponse
    BY <1>1, <1>5, <1>7
  <2>2. /\ a.result # "trying" => b = a
        /\ a.result = "trying" =>
             /\ b.attempts = a.attempts + 1
             /\ (b.result = "trying") = (rs[i].kind \in Retryable /\ b.attempts <= limit.retries)
             /\ (b.result = "ok") = (rs[i].kind = "ok")
    BY <2>1, PostIs
  <2>3. CASE a.result # "trying" BY <2>1, <2>2, <2>3
  <2>4. CASE a.result = "trying"
    <3>1. /\ a.attempts = i - 1 /\ i - 1 <= limit.retries
          /\ \A j \in 1 .. i - 1 : rs[j].kind \in Retryable
      BY <2>1, <2>4
    <3>2. /\ b.attempts = i
          /\ (b.result = "trying") = (rs[i].kind \in Retryable /\ i <= limit.retries)
          /\ (b.result = "ok") = (rs[i].kind = "ok")
      BY <1>1, <2>2, <2>4, <3>1
    <3>3. \A j \in 1..i : j = i \/ j \in 1 .. i - 1 BY <1>1
    <3>. HIDE DEF a, b
    <3>4. b.result = "trying" => \A j \in 1..i : rs[j].kind \in Retryable BY <3>1, <3>2, <3>3
    <3>. QED BY <3>1, <3>2, <3>4, <1>1, <1>2 DEF b
  <2>. QED BY <2>3, <2>4
<1>8. n \in Good
  <2>. HIDE DEF Good
  <2>1. \A i \in 1..n : i - 1 \in Good => i \in Good BY <1>7
  <2>2. \A i \in 0..n : i \in Good BY <1>1, <1>6, <2>1, InductionUpTo
  <2>. QED BY <1>1, <2>2
<1>9. f[n].result # "trying" BY <1>8, <1>2 DEF n
<1>. QED BY <1>5, <1>8, <1>9

-----------------------------------------------------------------------------
(* Batches of texts. *)

(* g[i] is the first i sequences, one after the other. *)
Flattens(seqs, n, g) ==
  /\ n > 0 => g[1] = seqs[1]
  /\ \A i \in 2..n : g[i] = g[i - 1] \o seqs[i]
  /\ n > 0 => FlattenSeq(seqs) = g[n]

(* There is such a g. *)
HasFlat(V, seqs, n) == \E g \in [1..n -> Seq(V)] : Flattens(seqs, n, g)

(* Every sequence of sequences has one. *)
LEMMA FlatExists ==
  ASSUME NEW V, NEW n \in Nat \ {0}, NEW seqs \in [1..n -> Seq(V)]
  PROVE  HasFlat(V, seqs, n)
<1> DEFINE X == Seq(V)
           base == <<>>
           step == [p \in X \X (1..n) |-> IF p[2] = 1 THEN seqs[1] ELSE p[1] \o seqs[p[2]]]
<1>1. Len(seqs) = n OBVIOUS
<1>2. step \in [X \X (1..n) -> X] OBVIOUS
<1>3. \A a \in X : \A i \in 1..n : step[<<a, i>>] = IF i = 1 THEN seqs[1] ELSE a \o seqs[i]
  OBVIOUS
<1>4. base \in X OBVIOUS
<1>. HIDE DEF step, base, X
<1>5. PICK h \in [SUBSET (1..n) -> X] : Iterates(h, n, base, step)
  BY <1>2, <1>4, IterationExists DEF HasIterate
<1> DEFINE g == [i \in 1..n |-> h[1..i]]
<1>6. g \in [1..n -> X]
  <2>1. \A i \in 1..n : 1..i \in SUBSET (1..n) OBVIOUS
  <2>. QED BY <2>1, <1>5
<1>7. ASSUME NEW i \in 1..n PROVE g[i] = IF i = 1 THEN seqs[1] ELSE g[i - 1] \o seqs[i]
  <2>1. 1..i \in SUBSET (1..n) /\ 1 .. i - 1 \in SUBSET (1..n) /\ 1..i # {}
    <3>1. 1 .. i - 1 \subseteq 1..n OBVIOUS
    <3>. QED BY <3>1, MaxUpTo
  <2>2. h[1..i] = step[<<h[1 .. i - 1], i>>] BY <1>5, <2>1, MaxUpTo DEF Iterates
  <2>3. h[1 .. i - 1] \in X BY <1>5, <2>1
  <2>4. h[1..i] = IF i = 1 THEN seqs[1] ELSE h[1 .. i - 1] \o seqs[i]
    BY SMTT(60), <1>3, <2>2, <2>3
  <2>5. g[i] = h[1..i] /\ (i # 1 => g[i - 1] = h[1 .. i - 1]) OBVIOUS
  <2>. HIDE DEF g
  <2>. QED BY <2>4, <2>5
<1> DEFINE Is(f) == f = [i \in 1 .. Len(seqs) |-> IF i = 1 THEN seqs[i] ELSE f[i - 1] \o seqs[i]]
           it == CHOOSE f : Is(f)
<1>8. Is(it)
  <2>1. Is(g)
    <3>1. \A i \in 1..n : g[i] = IF i = 1 THEN seqs[i] ELSE g[i - 1] \o seqs[i] BY <1>7
    <3>2. g = [i \in 1..n |-> g[i]] BY <1>6
    <3>. HIDE DEF g
    <3>. QED BY <3>1, <3>2, <1>1
  <2>. QED BY ZenonT(60), <2>1
<1>9. FlattenSeq(seqs) = it[n] BY <1>1 DEF FlattenSeq
<1>. HIDE DEF it
<1>10. \A i \in 1..n : it[i] = IF i = 1 THEN seqs[1] ELSE it[i - 1] \o seqs[i] BY <1>8, <1>1
<1> DEFINE S == {i \in 0..n : i = 0 \/ it[i] \in X}
<1>11. it \in [1..n -> X]
  <2>1. 0 \in S OBVIOUS
  <2>2. \A i \in 1..n : i - 1 \in S => i \in S
    <3>. SUFFICES ASSUME NEW i \in 1..n, i - 1 \in S PROVE it[i] \in X OBVIOUS
    <3>1. CASE i = 1 BY <3>1, <1>10 DEF X
    <3>2. CASE i # 1
      <4>1. it[i - 1] \in Seq(V) /\ seqs[i] \in Seq(V) BY <3>2 DEF X
      <4>2. it[i] = it[i - 1] \o seqs[i] BY <3>2, <1>10
      <4>. QED BY <4>1, <4>2 DEF X
    <3>. QED BY <3>1, <3>2
  <2>3. \A i \in 0..n : i \in S
    <3>. HIDE DEF S
    <3>. QED BY <2>1, <2>2, InductionUpTo
  <2>4. \A i \in 1..n : it[i] \in X BY <2>3
  <2>5. it = [i \in 1..n |-> it[i]] BY <1>8, <1>1
  <2>. QED BY <2>4, <2>5
<1>12. Flattens(seqs, n, it)
  <2>1. it[1] = seqs[1] BY <1>10
  <2>2. ASSUME NEW i \in 2..n PROVE it[i] = it[i - 1] \o seqs[i] BY <1>10, i \in 1..n, i # 1
  <2>. QED BY <2>1, <2>2, <1>9 DEF Flattens
<1>. QED BY <1>11, <1>12 DEF HasFlat, X

(* How many batches there are, and where each begins. *)
LEMMA BatchCount ==
  ASSUME NEW L \in Nat, NEW batch \in Nat \ {0}
  PROVE  LET K == (L + batch - 1) \div batch
         IN /\ K \in Nat /\ (K - 1) * batch < L /\ L <= K * batch
            /\ (L = 0 <=> K = 0)
            /\ \A b \in 1..K : (b - 1) * batch \in Nat /\ (b - 1) * batch < L
            /\ \A b \in 1 .. K - 1 : b * batch \in Nat /\ b * batch < L
<1> DEFINE K == (L + batch - 1) \div batch
<1>1. K \in Int /\ K * batch <= L + batch - 1 /\ L + batch - 1 < (K + 1) * batch OBVIOUS
<1>. HIDE DEF K
<1>2. (K - 1) * batch = K * batch - batch /\ (K + 1) * batch = K * batch + batch /\ K * batch \in Int
  BY <1>1
<1>3. (K - 1) * batch < L /\ L <= K * batch BY <1>1, <1>2
<1>4. K >= 0
  <2>1. K < 0 => K * batch < 0 BY <1>1
  <2>. QED BY <1>1, <1>3, <2>1
<1>5. L = 0 <=> K = 0
  <2>1. K > 0 => (K - 1) * batch >= 0 BY <1>1
  <2>. QED BY <1>1, <1>3, <1>4, <2>1
<1>6. ASSUME NEW b \in 1..K PROVE (b - 1) * batch \in Nat /\ (b - 1) * batch < L
  <2>1. (b - 1) * batch + (K - b) * batch = (K - 1) * batch BY <1>1
  <2>2. (b - 1) * batch \in Nat /\ (K - b) * batch \in Nat BY <1>1
  <2>. QED BY <2>1, <2>2, <1>3
<1>7. ASSUME NEW b \in 1 .. K - 1 PROVE b * batch \in Nat /\ b * batch < L
  <2>1. b + 1 \in 1..K /\ b + 1 - 1 = b BY <1>1
  <2>. QED BY <2>1, <1>6
<1>. QED BY <1>1, <1>3, <1>4, <1>5, <1>6, <1>7 DEF K

(* The n-th vector (GeminiEmbedder._embed) is the n-th text's, for any texts *)
(* and any size of the batches.                                            *)
THEOREM EmbedIs ==
  ASSUME NEW T, NEW texts \in Seq(T), NEW batch \in Nat \ {0}, NEW vector
  PROVE  Embed(texts, batch, vector) = [i \in DOMAIN texts |-> vector[texts[i]]]
<1> DEFINE L == Len(texts)
           K == (L + batch - 1) \div batch
           V == {vector[texts[i]] : i \in 1..L}
           all == [i \in 1..L |-> vector[texts[i]]]
           start(b) == (b - 1) * batch
           end(b) == Min({b * batch, L})
           parts == BatchesOf(texts, batch)
           seqs == [b \in DOMAIN parts |-> [i \in DOMAIN parts[b] |-> vector[parts[b][i]]]]
<1>1. L \in Nat /\ DOMAIN texts = 1..L /\ texts = [i \in 1..L |-> texts[i]] OBVIOUS
<1>2. /\ K \in Nat /\ L <= K * batch
      /\ (L = 0 <=> K = 0)
      /\ \A b \in 1..K : start(b) \in Nat /\ start(b) < L
      /\ \A b \in 1 .. K - 1 : b * batch \in Nat /\ b * batch < L
  BY <1>1, BatchCount
<1>3. parts = [b \in 1..K |-> SubSeq(texts, start(b) + 1, end(b))] BY DEF BatchesOf
<1>. HIDE DEF L, K
<1>4. ASSUME NEW b \in 1..K
      PROVE  /\ start(b) \in Nat /\ end(b) \in Nat /\ start(b) < end(b) /\ end(b) <= L
             /\ b # K => end(b) = start(b + 1)
             /\ b = K => end(b) = L
  <2>1. start(b) + batch = b * batch /\ b * batch \in Int /\ L \in Int /\ start(b) \in Nat /\ start(b) < L
    BY <1>1, <1>2
  <2>2. end(b) = IF b * batch <= L THEN b * batch ELSE L BY <2>1, PairBounds
  <2>3. b # K => b * batch < L BY <1>2
  <2>4. start(b + 1) = b * batch BY b + 1 - 1 = b
  <2>. HIDE DEF start, end
  <2>. QED BY SMTT(60), <2>1, <2>2, <2>3, <2>4, <1>2
<1>. HIDE DEF start, end
<1>5. ASSUME NEW b \in 1..K
      PROVE  /\ seqs[b] \in Seq(V) /\ Len(seqs[b]) = end(b) - start(b)
             /\ \A i \in 1 .. end(b) - start(b) : seqs[b][i] = all[start(b) + i]
  <2> DEFINE s == start(b)
             e == end(b)
  <2>1. s \in Nat /\ e \in Nat /\ s < e /\ e <= L BY <1>4
  <2>2. parts[b] = SubSeq(texts, s + 1, e) /\ DOMAIN parts = 1..K BY <1>3
  <2>. HIDE DEF s, e, parts
  <2>3. parts[b] = [i \in 1 .. e - s |-> texts[s + i]]
    <3>1. SubSeq(texts, s + 1, e) = [i \in 1 .. e - (s + 1) + 1 |-> texts[i + (s + 1) - 1]]
      BY <2>1
    <3>2. \A i \in 1 .. e - s : texts[i + (s + 1) - 1] = texts[s + i] BY <2>1
    <3>3. 1 .. e - (s + 1) + 1 = 1 .. e - s BY <2>1
    <3>. QED BY <3>1, <3>2, <3>3, <2>2
  <2>4. seqs[b] = [i \in 1 .. e - s |-> vector[texts[s + i]]] BY <2>2, <2>3
  <2>5. \A i \in 1 .. e - s : s + i \in 1..L BY <2>1, <1>1
  <2>. HIDE DEF seqs
  <2>6. \A i \in 1 .. e - s : seqs[b][i] = all[s + i] /\ seqs[b][i] \in V BY <2>4, <2>5
  <2>7. e - s \in Nat BY <2>1
  <2>8. seqs[b] \in Seq(V) /\ Len(seqs[b]) = e - s
    <3> DEFINE m == e - s
    <3>1. m \in Nat /\ DOMAIN seqs[b] = 1..m /\ seqs[b] = [i \in 1..m |-> seqs[b][i]]
      BY <2>4, <2>7
    <3>2. \A i \in 1..m : seqs[b][i] \in V BY <2>6
    <3>. HIDE DEF m, V
    <3>3. seqs[b] \in [1..m -> V] BY ONLY <3>1, <3>2
    <3>4. seqs[b] \in Seq(V) /\ Len(seqs[b]) = m BY ONLY <3>1, <3>3
    <3>. QED BY <3>4 DEF m
  <2>. QED BY <2>6, <2>8 DEF s, e
<1>6. DOMAIN seqs = 1..K /\ Embed(texts, batch, vector) = FlattenSeq(seqs) BY <1>3 DEF Embed
<1>. HIDE DEF seqs, parts
<1>7. CASE K = 0
  <2>1. Len(seqs) = 0 /\ L = 0 BY <1>2, <1>6, <1>7
  <2>2. Embed(texts, batch, vector) = seqs BY <1>6, <2>1 DEF FlattenSeq
  <2>3. seqs = [i \in DOMAIN texts |-> vector[texts[i]]] BY <1>1, <1>3, <1>7, <2>1 DEF seqs
  <2>. QED BY <2>2, <2>3
<1>8. CASE K # 0
  <2>. HIDE DEF V, all
  <2>1. K \in Nat \ {0} /\ seqs \in [1..K -> Seq(V)]
    <3>1. seqs = [b \in 1..K |-> seqs[b]] BY <1>3 DEF seqs
    <3>. QED BY <3>1, <1>2, <1>5, <1>8
  <2>2. HasFlat(V, seqs, K) BY <2>1, FlatExists
  <2>3. PICK g \in [1..K -> Seq(V)] : Flattens(seqs, K, g) BY <2>2 DEF HasFlat
  <2> DEFINE Whole(b) == Len(g[b]) = end(b) /\ \A i \in 1 .. end(b) : g[b][i] = all[i]
             Good == {b \in 0..K : b = 0 \/ Whole(b)}
  <2>4. ASSUME NEW b \in 1..K, b - 1 \in Good PROVE b \in Good
    <3>1. CASE b = 1
      <4>1. start(1) = 0 BY <1>1, <1>2, <2>1 DEF start
      <4>2. Len(seqs[1]) = end(1) - 0 /\ \A i \in 1 .. end(1) - 0 : seqs[1][i] = all[0 + i]
        BY <1>5, <3>1, <4>1
      <4>3. end(1) \in Nat BY <1>4, <3>1
      <4>4. g[1] = seqs[1] BY <2>1, <2>3 DEF Flattens
      <4>. QED BY <4>2, <4>3, <4>4, <3>1
    <3>2. CASE b # 1
      <4>1. b - 1 \in 1..K /\ b \in 2..K /\ b - 1 # K /\ b - 1 + 1 = b BY <2>1, <3>2
      <4>2. end(b - 1) = start(b) /\ end(b) \in Nat /\ start(b) \in Nat /\ start(b) < end(b)
        BY <4>1, <1>4
      <4>3. g[b] = g[b - 1] \o seqs[b] BY <4>1, <2>3 DEF Flattens
      <4>4. g[b - 1] \in Seq(V) /\ Len(g[b - 1]) = start(b) /\ \A i \in 1 .. start(b) : g[b - 1][i] = all[i]
        BY <4>1, <4>2, <2>4, <2>1
      <4>5. /\ seqs[b] \in Seq(V) /\ Len(seqs[b]) = end(b) - start(b)
            /\ \A i \in 1 .. end(b) - start(b) : seqs[b][i] = all[start(b) + i]
        BY <1>5
      <4> DEFINE s == start(b)
                 e == end(b)
                 left == g[b - 1]
                 right == seqs[b]
      <4>6. s \in Nat /\ e \in Nat /\ s < e BY <4>2
      <4>7. g[b] = left \o right BY <4>3
      <4>. HIDE DEF s, e, left, right
      <4>8. Len(left) = s /\ Len(right) = e - s /\ left \in Seq(V) /\ right \in Seq(V)
        BY <4>4, <4>5 DEF s, e, left, right
      <4>9. Len(left \o right) = e BY <4>6, <4>8
      <4>10. ASSUME NEW i \in 1..e PROVE (left \o right)[i] = all[i]
        <5>1. CASE i <= s BY <5>1, <4>4, <4>6, <4>8 DEF s, left
        <5>2. CASE i > s
          <6>1. i - s \in 1 .. e - s /\ s + (i - s) = i BY <5>2, <4>6
          <6>2. (left \o right)[i] = right[i - s] BY <5>2, <4>6, <4>8
          <6>3. right[i - s] = all[s + (i - s)] BY <6>1, <4>5 DEF s, e, right
          <6>. QED BY <6>1, <6>2, <6>3
        <5>3. i <= s \/ i > s BY <4>6
        <5>. QED BY ONLY <5>1, <5>2, <5>3
      <4>. QED BY <4>7, <4>9, <4>10 DEF e
    <3>. QED BY <3>1, <3>2
  <2>5. K \in Good
    <3>. HIDE DEF Good
    <3>1. 0 \in Good BY <2>1 DEF Good
    <3>2. \A b \in 1..K : b - 1 \in Good => b \in Good BY <2>4
    <3>3. \A b \in 0..K : b \in Good BY <2>1, <3>1, <3>2, InductionUpTo
    <3>. QED BY <2>1, <3>3
  <2>6. g[K] \in Seq(V) /\ Len(g[K]) = L /\ \A i \in 1..L : g[K][i] = all[i]
    BY <2>5, <2>1, <1>4, <1>8
  <2>7. g[K] = all
    <3>1. g[K] = [i \in 1..L |-> g[K][i]]
      <4>1. g[K] \in [1 .. Len(g[K]) -> V] BY <2>6, LenProperties
      <4>. QED BY <4>1, <2>6
    <3>2. all = [i \in 1..L |-> all[i]] BY DEF all
    <3>. QED BY <3>1, <3>2, <2>6
  <2>8. Embed(texts, batch, vector) = g[K] BY <1>6, <2>1, <2>3 DEF Flattens
  <2>. QED BY <2>7, <2>8, <1>1 DEF all
<1>. QED BY <1>7, <1>8

-----------------------------------------------------------------------------
(* embed_missing. *)

(* f is the trace of the selection of the chunks without a vector. *)
Filtered(vectors, q, n, X, base) ==
  \E f \in [0..n -> X] :
    /\ f[0] = base /\ \A i \in 1..n : f[i] = (IF q[i] \in DOMAIN vectors THEN f[i - 1] ELSE Append(f[i - 1], q[i]))
    /\ base = <<>> => WithoutVector(q, vectors) = f[n]

(* The selection has a trace. *)
LEMMA WithoutVectorTrace ==
  ASSUME NEW vectors, NEW q, NEW n \in Nat, DOMAIN q = 1..n, NEW X, NEW base \in X,
         \A a \in X : \A i \in 1..n : (IF q[i] \in DOMAIN vectors THEN a ELSE Append(a, q[i])) \in X
  PROVE  Filtered(vectors, q, n, X, base)
<1> DEFINE step == [p \in X \X (1..n) |-> (IF q[p[2]] \in DOMAIN vectors THEN p[1] ELSE Append(p[1], q[p[2]]))]
           Is(g) == g = [s \in SUBSET (1..n) |->
                          IF s = {} THEN base ELSE (IF q[Max(s)] \in DOMAIN vectors THEN g[s \ {Max(s)}] ELSE Append(g[s \ {Max(s)}], q[Max(s)]))]
<1>1. step \in [X \X (1..n) -> X] /\ \A a \in X : \A i \in 1..n : step[<<a, i>>] = (IF q[i] \in DOMAIN vectors THEN a ELSE Append(a, q[i]))
  OBVIOUS
<1>. HIDE DEF step
<1>2. PICK g \in [SUBSET (1..n) -> X] : Iterates(g, n, base, step)
  BY <1>1, IterationExists DEF HasIterate
<1>3. ASSUME NEW s \in SUBSET (1..n), s # {}
      PROVE  g[s] = (IF q[Max(s)] \in DOMAIN vectors THEN g[s \ {Max(s)}] ELSE Append(g[s \ {Max(s)}], q[Max(s)]))
  <2>1. Max(s) \in 1..n /\ g[s \ {Max(s)}] \in X BY ZenonT(60), <1>3, MaxOfUpTo
  <2>. QED BY <1>1, <1>2, <1>3, <2>1 DEF Iterates
<1> DEFINE it == CHOOSE h : Is(h)
<1>4. Is(it)
  <2>1. Is(g) BY <1>2, <1>3 DEF Iterates
  <2>. QED BY ZenonT(60), <2>1
<1>5. base = <<>> => WithoutVector(q, vectors) = it[1..n]
  BY DEF WithoutVector, FoldLeft, MapThenFoldSet
<1>. HIDE DEF it
<1>6. Folded(it, n, X, base, step) BY <1>1, <1>4, MaxOfUpTo DEF Folded
<1>7. PICK f : Follows(f, n, X, base, step) /\ f[n] = it[1..n]
  <2>1. Traced(n, X, base, step, it[1..n]) BY <1>1, <1>6, FoldFollows
  <2>. QED BY <2>1 DEF Traced
<1>8. f \in [0..n -> X] /\ f[0] = base /\ \A i \in 1..n : f[i] = (IF q[i] \in DOMAIN vectors THEN f[i - 1] ELSE Append(f[i - 1], q[i]))
  <2>1. \A i \in 1..n : f[i - 1] \in X BY <1>7 DEF Follows
  <2>. QED BY <1>1, <1>7, <2>1 DEF Follows
<1>. QED BY <1>5, <1>7, <1>8 DEF Filtered

(* f is the trace of filling in vectors, batch after batch. *)
EmbedsBatches(ids, batch, vector, q, n, X, base) ==
  \E f \in [0..n -> X] :
    /\ f[0] = base /\ \A i \in 1..n : f[i] = EmbedBatch(ids, f[i - 1], batch, vector)
    /\ q = [b \in 1..n |-> b] => EmbedMissing(ids, base, batch, vector, n) = f[n]

(* Filling in vectors has a trace. *)
LEMMA EmbedTrace ==
  ASSUME NEW ids, NEW batch, NEW vector, NEW q, NEW n \in Nat, DOMAIN q = 1..n, NEW X, NEW base \in X,
         \A a \in X : \A i \in 1..n : EmbedBatch(ids, a, batch, vector) \in X
  PROVE  EmbedsBatches(ids, batch, vector, q, n, X, base)
<1> DEFINE step == [p \in X \X (1..n) |-> EmbedBatch(ids, p[1], batch, vector)]
           Is(g) == g = [s \in SUBSET (1..n) |->
                          IF s = {} THEN base ELSE EmbedBatch(ids, g[s \ {Max(s)}], batch, vector)]
<1>1. step \in [X \X (1..n) -> X] /\ \A a \in X : \A i \in 1..n : step[<<a, i>>] = EmbedBatch(ids, a, batch, vector)
  OBVIOUS
<1>. HIDE DEF step
<1>2. PICK g \in [SUBSET (1..n) -> X] : Iterates(g, n, base, step)
  BY <1>1, IterationExists DEF HasIterate
<1>3. ASSUME NEW s \in SUBSET (1..n), s # {}
      PROVE  g[s] = EmbedBatch(ids, g[s \ {Max(s)}], batch, vector)
  <2>1. Max(s) \in 1..n /\ g[s \ {Max(s)}] \in X BY <1>3, MaxOfUpTo
  <2>. QED BY <1>1, <1>2, <1>3, <2>1 DEF Iterates
<1> DEFINE it == CHOOSE h : Is(h)
<1>4. Is(it)
  <2>1. Is(g) BY <1>2, <1>3 DEF Iterates
  <2>. QED BY <2>1
<1>5. q = [b \in 1..n |-> b] => EmbedMissing(ids, base, batch, vector, n) = it[1..n]
  BY DEF EmbedMissing, FoldLeft, MapThenFoldSet
<1>. HIDE DEF it
<1>6. Folded(it, n, X, base, step) BY <1>1, <1>4, MaxOfUpTo DEF Folded
<1>7. PICK f : Follows(f, n, X, base, step) /\ f[n] = it[1..n]
  <2>1. Traced(n, X, base, step, it[1..n]) BY <1>1, <1>6, FoldFollows
  <2>. QED BY <2>1 DEF Traced
<1>8. f \in [0..n -> X] /\ f[0] = base /\ \A i \in 1..n : f[i] = EmbedBatch(ids, f[i - 1], batch, vector)
  <2>1. \A i \in 1..n : f[i - 1] \in X BY <1>7 DEF Follows
  <2>. QED BY <1>1, <1>7, <2>1 DEF Follows
<1>. QED BY <1>5, <1>7, <1>8 DEF EmbedsBatches

(* The chunks selected are those without a vector. *)
LEMMA WithoutVectorIs ==
  ASSUME NEW T, NEW ids \in Seq(T), NEW vectors
  PROVE  /\ WithoutVector(ids, vectors) \in Seq(T)
         /\ ToSet(WithoutVector(ids, vectors)) = ToSet(ids) \ DOMAIN vectors
<1> DEFINE n == Len(ids)
           X == Seq(T)
<1>1. n \in Nat /\ DOMAIN ids = 1..n /\ \A i \in 1..n : ids[i] \in T OBVIOUS
<1>2. <<>> \in X /\ \A a \in X : \A i \in 1..n :
        (IF ids[i] \in DOMAIN vectors THEN a ELSE Append(a, ids[i])) \in X
  BY <1>1
<1>3. Filtered(vectors, ids, n, X, <<>>)
  <2>. HIDE DEF n, X
  <2>. QED BY <1>1, <1>2, WithoutVectorTrace
<1>4. PICK f \in [0..n -> X] :
        /\ f[0] = <<>>
        /\ \A i \in 1..n : f[i] = IF ids[i] \in DOMAIN vectors THEN f[i - 1] ELSE Append(f[i - 1], ids[i])
        /\ WithoutVector(ids, vectors) = f[n]
  BY <1>3 DEF Filtered
<1>. HIDE DEF n
<1> DEFINE Good == {i \in 0..n : ToSet(f[i]) = {ids[j] : j \in 1..i} \ DOMAIN vectors}
<1>5. 0 \in Good BY <1>1, <1>4 DEF ToSet
<1>6. ASSUME NEW i \in 1..n, i - 1 \in Good PROVE i \in Good
  <2>1. {ids[j] : j \in 1..i} = {ids[j] : j \in 1 .. i - 1} \cup {ids[i]}
    <3>1. \A j \in 1..i : j \in 1 .. i - 1 \/ j = i BY <1>1
    <3>2. i \in 1..i /\ \A j \in 1 .. i - 1 : j \in 1..i BY <1>1
    <3>. QED BY <3>1, <3>2
  <2>2. i - 1 \in 0..n /\ f[i - 1] \in Seq(T) /\ ids[i] \in T
    <3>1. i - 1 \in 0..n BY <1>1
    <3>. QED BY <3>1, <1>1
  <2>3. ToSet(Append(f[i - 1], ids[i])) = ToSet(f[i - 1]) \cup {ids[i]}
    <3> DEFINE q == f[i - 1]
               x == ids[i]
               m == Len(q)
    <3>. HIDE DEF q, x
    <3>1. q \in Seq(T) /\ m \in Nat /\ DOMAIN q = 1..m /\ DOMAIN Append(q, x) = 1 .. m + 1
      BY <2>2 DEF q, x
    <3>2. Append(q, x)[m + 1] = x /\ \A j \in 1..m : Append(q, x)[j] = q[j]
      BY <2>2, <3>1 DEF q, x
    <3>. HIDE DEF m
    <3>3. \A j \in 1 .. m + 1 : j \in 1..m \/ j = m + 1 BY <3>1
    <3>4. m + 1 \in 1 .. m + 1 /\ \A j \in 1..m : j \in 1 .. m + 1 BY <3>1
    <3>5. ToSet(Append(q, x)) = ToSet(q) \cup {x} BY <3>1, <3>2, <3>3, <3>4 DEF ToSet
    <3>. QED BY <3>5 DEF q, x
  <2>. QED BY <1>4, <1>6, <2>1, <2>3
<1>7. n \in Good
  <2>. HIDE DEF Good
  <2>1. \A i \in 1..n : i - 1 \in Good => i \in Good BY <1>6
  <2>2. \A i \in 0..n : i \in Good BY <1>1, <1>5, <2>1, InductionUpTo
  <2>. QED BY <1>1, <2>2
<1>. QED BY <1>1, <1>4, <1>7 DEF ToSet

(* Vectors of some of the chunks. *)
Vectors(ids, V) == UNION {[D -> V] : D \in SUBSET ToSet(ids)}

(* A batch keeps every vector there is, adds those of its own texts, and   *)
(* adds at least one while any is missing.                                 *)
LEMMA BatchIs ==
  ASSUME NEW ids \in Seq(Nat), NEW batch \in Nat \ {0}, NEW V,
         NEW all \in [ToSet(ids) -> V], NEW v \in Vectors(ids, V)
  PROVE  LET next == EmbedBatch(ids, v, batch, all)
         IN /\ next \in Vectors(ids, V) /\ DOMAIN v \subseteq DOMAIN next
            /\ \A id \in DOMAIN next : next[id] = IF id \in DOMAIN v THEN v[id] ELSE all[id]
            /\ DOMAIN v # ToSet(ids) => DOMAIN next # DOMAIN v
<1> DEFINE missing == WithoutVector(ids, v)
           m == Min({batch, Len(missing)})
           taken == SubSeq(missing, 1, m)
           computed == Embed(taken, batch, all)
           next == EmbedBatch(ids, v, batch, all)
<1>1. missing \in Seq(Nat) /\ ToSet(missing) = ToSet(ids) \ DOMAIN v BY WithoutVectorIs
<1>. HIDE DEF missing
<1>2. m \in Nat /\ m <= Len(missing) /\ (Len(missing) # 0 => m # 0)
  <2>1. Len(missing) \in Nat /\ Len(missing) \in Int /\ batch \in Int BY <1>1
  <2>2. m = IF batch <= Len(missing) THEN batch ELSE Len(missing) BY <2>1, PairBounds
  <2>. HIDE DEF m
  <2>. QED BY <2>1, <2>2
<1>. HIDE DEF m
<1>3. taken \in Seq(Nat) /\ Len(taken) = m /\ \A i \in 1..m : taken[i] = missing[i]
  BY <1>1, <1>2
<1>. HIDE DEF taken
<1>4. computed = [i \in 1..m |-> all[taken[i]]] BY <1>3, EmbedIs
<1>. HIDE DEF computed
<1>5. next = [id \in DOMAIN v \cup ToSet(taken) |->
               IF id \in DOMAIN v THEN v[id] ELSE computed[CHOOSE i \in DOMAIN taken : taken[i] = id]]
  BY DEF EmbedBatch, missing, m, taken, computed
<1>6. ToSet(taken) \subseteq ToSet(ids) \ DOMAIN v BY <1>1, <1>2, <1>3 DEF ToSet
<1>7. ASSUME NEW id \in ToSet(taken) PROVE computed[CHOOSE i \in DOMAIN taken : taken[i] = id] = all[id]
  <2> DEFINE i == CHOOSE i \in DOMAIN taken : taken[i] = id
  <2>1. i \in DOMAIN taken /\ taken[i] = id BY DEF ToSet
  <2>. HIDE DEF i
  <2>2. i \in 1..m BY <2>1, <1>3
  <2>3. computed[i] = all[id] BY <2>1, <2>2, <1>4
  <2>. QED BY <2>3 DEF i
<1>. HIDE DEF next
<1>8. DOMAIN next = DOMAIN v \cup ToSet(taken) BY <1>5
<1>9. \A id \in DOMAIN next : next[id] = IF id \in DOMAIN v THEN v[id] ELSE all[id]
  BY <1>5, <1>7, <1>8
<1>10. DOMAIN v \in SUBSET ToSet(ids) /\ v \in [DOMAIN v -> V] BY DEF Vectors
<1>11. next \in Vectors(ids, V)
  <2>1. \A id \in DOMAIN next : next[id] \in V BY <1>6, <1>8, <1>9, <1>10
  <2>2. DOMAIN next \in SUBSET ToSet(ids) BY <1>6, <1>8, <1>10
  <2>3. next \in [DOMAIN next -> V] BY <2>1, <1>5, <1>8
  <2>. QED BY <2>2, <2>3 DEF Vectors
<1>12. ASSUME DOMAIN v # ToSet(ids) PROVE DOMAIN next # DOMAIN v
  <2>1. ToSet(missing) # {} BY <1>1, <1>10, <1>12
  <2>2. 1 \in 1..m BY <2>1, <1>1, <1>2 DEF ToSet
  <2>3. taken[1] \in ToSet(taken) BY <2>2, <1>3 DEF ToSet
  <2>. QED BY <2>3, <1>6, <1>8
<1>. QED BY <1>8, <1>9, <1>11, <1>12 DEF next

(* Filling in from any stored vectors has a trace of stored vectors. *)
LEMMA ResumeTrace ==
  ASSUME NEW ids \in Seq(Nat), NEW batch \in Nat \ {0}, NEW V,
         NEW all \in [ToSet(ids) -> V], NEW base \in Vectors(ids, V), NEW n \in Nat
  PROVE  EmbedsBatches(ids, batch, all, [b \in 1..n |-> b], n, Vectors(ids, V), base)
<1> DEFINE q == [b \in 1..n |-> b]
<1>1. DOMAIN q = 1..n OBVIOUS
<1>2. \A a \in Vectors(ids, V) : \A i \in 1..n : EmbedBatch(ids, a, batch, all) \in Vectors(ids, V)
  BY BatchIs
<1>. HIDE DEF q
<1>3. EmbedsBatches(ids, batch, all, q, n, Vectors(ids, V), base) BY <1>1, <1>2, EmbedTrace
<1>. QED BY <1>3 DEF q

(* Filling in missing vectors (scripts/embed_missing.py) that is stopped after *)
(* any number of batches and started again goes on where it was.           *)
THEOREM ResumesWhereItWas ==
  ASSUME NEW ids \in Seq(Nat), NEW batch \in Nat \ {0}, NEW V,
         NEW all \in [ToSet(ids) -> V], NEW base \in Vectors(ids, V), NEW m \in Nat, NEW n \in Nat
  PROVE  EmbedMissing(ids, EmbedMissing(ids, base, batch, all, m), batch, all, n)
           = EmbedMissing(ids, base, batch, all, m + n)
<1> DEFINE X == Vectors(ids, V)
           Next1(a) == EmbedBatch(ids, a, batch, all)
<1>1. PICK f \in [0..m -> X] :
        /\ f[0] = base /\ \A i \in 1..m : f[i] = Next1(f[i - 1])
        /\ EmbedMissing(ids, base, batch, all, m) = f[m]
  <2>1. EmbedsBatches(ids, batch, all, [b \in 1..m |-> b], m, X, base) BY ResumeTrace
  <2>. QED BY <2>1 DEF EmbedsBatches
<1>2. f[m] \in X OBVIOUS
<1>3. PICK g \in [0..n -> X] :
        /\ g[0] = f[m] /\ \A i \in 1..n : g[i] = Next1(g[i - 1])
        /\ EmbedMissing(ids, f[m], batch, all, n) = g[n]
  <2> DEFINE x == f[m]
  <2>. HIDE DEF x
  <2>1. EmbedsBatches(ids, batch, all, [b \in 1..n |-> b], n, X, x) BY <1>2, ResumeTrace DEF x
  <2>. QED BY <2>1 DEF EmbedsBatches, x
<1>4. PICK h \in [0 .. m + n -> X] :
        /\ h[0] = base /\ \A i \in 1 .. m + n : h[i] = Next1(h[i - 1])
        /\ EmbedMissing(ids, base, batch, all, m + n) = h[m + n]
  <2> DEFINE k == m + n
  <2>1. k \in Nat OBVIOUS
  <2>. HIDE DEF k
  <2>2. EmbedsBatches(ids, batch, all, [b \in 1..k |-> b], k, X, base) BY <2>1, ResumeTrace
  <2>. QED BY <2>2 DEF EmbedsBatches, k
<1>. HIDE DEF X, Next1
<1>5. h[m] = f[m]
  <2> DEFINE S == {i \in 0..m : h[i] = f[i]}
  <2>1. 0 \in S BY <1>1, <1>4
  <2>2. ASSUME NEW i \in 1..m, i - 1 \in S PROVE i \in S
    <3>1. i \in 1 .. m + n OBVIOUS
    <3>. QED BY <2>2, <3>1, <1>1, <1>4
  <2>3. \A i \in 0..m : i \in S
    <3>. HIDE DEF S
    <3>1. \A i \in 1..m : i - 1 \in S => i \in S BY <2>2
    <3>. QED BY <2>1, <3>1, InductionUpTo
  <2>. QED BY <2>3
<1>6. h[m + n] = g[n]
  <2> DEFINE S == {i \in 0..n : h[m + i] = g[i]}
  <2>1. 0 \in S BY <1>3, <1>5
  <2>2. ASSUME NEW i \in 1..n, i - 1 \in S PROVE i \in S
    <3>1. m + i \in 1 .. m + n /\ m + i - 1 = m + (i - 1) OBVIOUS
    <3>2. h[m + i] = Next1(h[m + (i - 1)]) BY <3>1, <1>4
    <3>. QED BY <2>2, <3>2, <1>3
  <2>3. \A i \in 0..n : i \in S
    <3>. HIDE DEF S
    <3>1. \A i \in 1..n : i - 1 \in S => i \in S BY <2>2
    <3>. QED BY <2>1, <3>1, InductionUpTo
  <2>. QED BY <2>3
<1>. QED BY <1>1, <1>3, <1>4, <1>6

(* It recomputes no vector, gives each chunk the vector of its own text, and *)
(* leaves none out once it has had enough batches.                         *)
THEOREM KeepsVectors ==
  ASSUME NEW ids \in Seq(Nat), NEW batch \in Nat \ {0}, NEW V,
         NEW all \in [ToSet(ids) -> V], NEW base \in Vectors(ids, V), NEW n \in Nat
  PROVE  LET now == EmbedMissing(ids, base, batch, all, n)
         IN /\ now \in Vectors(ids, V) /\ DOMAIN base \subseteq DOMAIN now
            /\ \A id \in DOMAIN now : now[id] = IF id \in DOMAIN base THEN base[id] ELSE all[id]
            /\ n >= Len(ids) => DOMAIN now = ToSet(ids)
<1> DEFINE X == Vectors(ids, V)
           Ids == ToSet(ids)
           L == Len(ids)
<1>1. PICK f \in [0..n -> X] :
        /\ f[0] = base /\ \A i \in 1..n : f[i] = EmbedBatch(ids, f[i - 1], batch, all)
        /\ EmbedMissing(ids, base, batch, all, n) = f[n]
  <2>1. EmbedsBatches(ids, batch, all, [b \in 1..n |-> b], n, X, base) BY ResumeTrace
  <2>. QED BY <2>1 DEF EmbedsBatches
<1>2. IsFiniteSet(Ids) /\ Cardinality(Ids) <= L
  <2>1. L \in Nat /\ DOMAIN ids = 1..L OBVIOUS
  <2>2. IsFiniteSet(1..L) /\ Cardinality(1..L) = L
    <3>. HIDE DEF L
    <3>. QED BY <2>1, FS_Interval
  <2>3. ids \in Surjection(1..L, Ids)
    <3>1. ids \in [1..L -> Ids] BY <2>1 DEF ToSet
    <3>. QED BY <3>1, <2>1 DEF ToSet, Surjection
  <2>. QED BY <2>2, <2>3, FS_Surjection
<1>3. \A v \in X : DOMAIN v \in SUBSET Ids BY DEF Vectors
<1>4. \A v \in X : IsFiniteSet(DOMAIN v) /\ Cardinality(DOMAIN v) \in Nat
  BY <1>2, <1>3, FS_Subset, FS_CardinalityType
<1> DEFINE Good == {i \in 0..n :
             /\ DOMAIN base \subseteq DOMAIN f[i]
             /\ \A id \in DOMAIN f[i] : f[i][id] = IF id \in DOMAIN base THEN base[id] ELSE all[id]
             /\ DOMAIN f[i] = Ids \/ Cardinality(DOMAIN f[i]) >= i}
<1>5. 0 \in Good
  <2>1. 0 \in 0..n /\ Cardinality(DOMAIN base) >= 0 BY <1>4
  <2>. QED BY <1>1, <2>1
<1>6. ASSUME NEW i \in 1..n, i - 1 \in Good PROVE i \in Good
  <2> DEFINE v == f[i - 1]
             w == f[i]
  <2>1. i - 1 \in 0..n /\ v \in X /\ w \in X /\ w = EmbedBatch(ids, v, batch, all)
    <3>1. i - 1 \in 0..n OBVIOUS
    <3>. QED BY <3>1, <1>1
  <2>2. /\ DOMAIN base \subseteq DOMAIN v
        /\ \A id \in DOMAIN v : v[id] = IF id \in DOMAIN base THEN base[id] ELSE all[id]
        /\ DOMAIN v = Ids \/ Cardinality(DOMAIN v) >= i - 1
    BY <1>6
  <2>. HIDE DEF v, w
  <2>3. /\ DOMAIN v \subseteq DOMAIN w
        /\ \A id \in DOMAIN w : w[id] = IF id \in DOMAIN v THEN v[id] ELSE all[id]
        /\ DOMAIN v # Ids => DOMAIN w # DOMAIN v
    BY <2>1, BatchIs
  <2>4. DOMAIN w = Ids \/ Cardinality(DOMAIN w) >= i
    <3>1. CASE DOMAIN v = Ids BY <3>1, <2>1, <2>3, <1>3
    <3>2. CASE DOMAIN v # Ids
      <4>1. Cardinality(DOMAIN v) < Cardinality(DOMAIN w)
        <5>1. IsFiniteSet(DOMAIN w) BY <2>1, <1>4
        <5>2. Cardinality(DOMAIN v) \in Nat /\ Cardinality(DOMAIN w) \in Nat BY <2>1, <1>4
        <5>3. DOMAIN v \in SUBSET DOMAIN w /\ DOMAIN w # DOMAIN v BY <3>2, <2>3
        <5>4. Cardinality(DOMAIN v) <= Cardinality(DOMAIN w) /\ Cardinality(DOMAIN w) # Cardinality(DOMAIN v)
          BY <5>1, <5>3, FS_Subset
        <5>. QED BY <5>2, <5>4
      <4>. QED BY <4>1, <3>2, <2>1, <2>2, <1>4
    <3>. QED BY <3>1, <3>2
  <2>5. \A id \in DOMAIN w : w[id] = IF id \in DOMAIN base THEN base[id] ELSE all[id]
    BY <2>2, <2>3
  <2>6. DOMAIN base \subseteq DOMAIN w BY <2>2, <2>3
  <2>. QED BY <2>4, <2>5, <2>6 DEF w
<1>7. n \in Good
  <2>. HIDE DEF Good
  <2>1. \A i \in 1..n : i - 1 \in Good => i \in Good BY <1>6
  <2>2. \A i \in 0..n : i \in Good BY <1>5, <2>1, InductionUpTo
  <2>. QED BY <2>2
<1> DEFINE now == f[n]
<1>8. now \in X OBVIOUS
<1>9. /\ DOMAIN base \subseteq DOMAIN now
      /\ \A id \in DOMAIN now : now[id] = IF id \in DOMAIN base THEN base[id] ELSE all[id]
      /\ DOMAIN now = Ids \/ Cardinality(DOMAIN now) >= n
  BY <1>7
<1>. HIDE DEF now
<1>10. n >= L => DOMAIN now = Ids
  <2>. SUFFICES ASSUME n >= L, DOMAIN now # Ids PROVE FALSE OBVIOUS
  <2>1. DOMAIN now \in SUBSET Ids BY <1>3, <1>8
  <2>2. Cardinality(DOMAIN now) <= Cardinality(Ids) /\ Cardinality(Ids) # Cardinality(DOMAIN now)
    <3>. HIDE DEF Ids
    <3>. QED BY <2>1, <1>2, FS_Subset
  <2>3. Cardinality(DOMAIN now) \in Nat /\ Cardinality(Ids) \in Nat /\ L \in Nat
    BY <1>2, <1>4, <1>8, FS_CardinalityType
  <2>. QED BY <2>2, <2>3, <1>2, <1>9
<1>. QED BY <1>1, <1>8, <1>9, <1>10 DEF now

-----------------------------------------------------------------------------
(* readSse: what it is made of. *)

(* A text is a sequence of pieces; what the reader keeps of it. *)
Text == Seq(STRING)

(* The frames read so far. *)
Frames == Seq([event : Text, data : Seq(Text)])

(* All that readSse keeps between two chunks. *)
ReaderState == [buffer : Text, event : Text, data : Seq(Text), frames : Frames]

(* Whole lines, and the start of the next. *)
Split == [lines : Seq(Text), rest : Text]

(* f is the trace of splitting a text into lines. *)
Splits(text, q, n, X, base) ==
  \E f \in [0..n -> X] :
    /\ f[0] = base /\ \A i \in 1..n : f[i] = NextPiece(f[i - 1], text, q[i])
    /\ base = [lines |-> <<>>, rest |-> <<>>] /\ q = [i \in DOMAIN text |-> i] => SplitLines(text) = f[n]

(* Splitting has a trace. *)
LEMMA SplitTrace ==
  ASSUME NEW text, NEW q, NEW n \in Nat, DOMAIN q = 1..n, NEW X, NEW base \in X,
         \A a \in X : \A i \in 1..n : NextPiece(a, text, q[i]) \in X
  PROVE  Splits(text, q, n, X, base)
<1> DEFINE step == [p \in X \X (1..n) |-> NextPiece(p[1], text, q[p[2]])]
           Is(g) == g = [s \in SUBSET (1..n) |->
                          IF s = {} THEN base ELSE NextPiece(g[s \ {Max(s)}], text, q[Max(s)])]
<1>1. step \in [X \X (1..n) -> X] /\ \A a \in X : \A i \in 1..n : step[<<a, i>>] = NextPiece(a, text, q[i])
  OBVIOUS
<1>. HIDE DEF step
<1>2. PICK g \in [SUBSET (1..n) -> X] : Iterates(g, n, base, step)
  BY <1>1, IterationExists DEF HasIterate
<1>3. ASSUME NEW s \in SUBSET (1..n), s # {}
      PROVE  g[s] = NextPiece(g[s \ {Max(s)}], text, q[Max(s)])
  <2>1. Max(s) \in 1..n /\ g[s \ {Max(s)}] \in X BY <1>3, MaxOfUpTo
  <2>. QED BY <1>1, <1>2, <1>3, <2>1 DEF Iterates
<1> DEFINE it == CHOOSE h : Is(h)
<1>4. Is(it)
  <2>1. Is(g) BY <1>2, <1>3 DEF Iterates
  <2>. QED BY <2>1
<1>5. base = [lines |-> <<>>, rest |-> <<>>] /\ q = [i \in DOMAIN text |-> i] => SplitLines(text) = it[1..n]
  BY DEF SplitLines, FoldLeft, MapThenFoldSet
<1>. HIDE DEF it
<1>6. Folded(it, n, X, base, step) BY <1>1, <1>4, MaxOfUpTo DEF Folded
<1>7. PICK f : Follows(f, n, X, base, step) /\ f[n] = it[1..n]
  <2>1. Traced(n, X, base, step, it[1..n]) BY <1>1, <1>6, FoldFollows
  <2>. QED BY <2>1 DEF Traced
<1>8. f \in [0..n -> X] /\ f[0] = base /\ \A i \in 1..n : f[i] = NextPiece(f[i - 1], text, q[i])
  <2>1. \A i \in 1..n : f[i - 1] \in X BY <1>7 DEF Follows
  <2>. QED BY <1>1, <1>7, <2>1 DEF Follows
<1>. QED BY <1>5, <1>7, <1>8 DEF Splits

(* f is the trace of taking lines. *)
Takes(q, n, X, base) ==
  \E f \in [0..n -> X] :
    /\ f[0] = base /\ \A i \in 1..n : f[i] = TakeLine(f[i - 1], q[i])
    /\ TakeLines(base, q) = f[n]

(* Taking lines has a trace. *)
LEMMA TakeTrace ==
  ASSUME NEW q, NEW n \in Nat, DOMAIN q = 1..n, NEW X, NEW base \in X,
         \A a \in X : \A i \in 1..n : TakeLine(a, q[i]) \in X
  PROVE  Takes(q, n, X, base)
<1> DEFINE step == [p \in X \X (1..n) |-> TakeLine(p[1], q[p[2]])]
           Is(g) == g = [s \in SUBSET (1..n) |->
                          IF s = {} THEN base ELSE TakeLine(g[s \ {Max(s)}], q[Max(s)])]
<1>1. step \in [X \X (1..n) -> X] /\ \A a \in X : \A i \in 1..n : step[<<a, i>>] = TakeLine(a, q[i])
  OBVIOUS
<1>. HIDE DEF step
<1>2. PICK g \in [SUBSET (1..n) -> X] : Iterates(g, n, base, step)
  BY <1>1, IterationExists DEF HasIterate
<1>3. ASSUME NEW s \in SUBSET (1..n), s # {}
      PROVE  g[s] = TakeLine(g[s \ {Max(s)}], q[Max(s)])
  <2>1. Max(s) \in 1..n /\ g[s \ {Max(s)}] \in X BY <1>3, MaxOfUpTo
  <2>. QED BY <1>1, <1>2, <1>3, <2>1 DEF Iterates
<1> DEFINE it == CHOOSE h : Is(h)
<1>4. Is(it)
  <2>1. Is(g) BY <1>2, <1>3 DEF Iterates
  <2>. QED BY <2>1
<1>5. TakeLines(base, q) = it[1..n] BY DEF TakeLines, FoldLeft, MapThenFoldSet
<1>. HIDE DEF it
<1>6. Folded(it, n, X, base, step) BY <1>1, <1>4, MaxOfUpTo DEF Folded
<1>7. PICK f : Follows(f, n, X, base, step) /\ f[n] = it[1..n]
  <2>1. Traced(n, X, base, step, it[1..n]) BY <1>1, <1>6, FoldFollows
  <2>. QED BY <2>1 DEF Traced
<1>8. f \in [0..n -> X] /\ f[0] = base /\ \A i \in 1..n : f[i] = TakeLine(f[i - 1], q[i])
  <2>1. \A i \in 1..n : f[i - 1] \in X BY <1>7 DEF Follows
  <2>. QED BY <1>1, <1>7, <2>1 DEF Follows
<1>. QED BY <1>5, <1>7, <1>8 DEF Takes

(* f is the trace of reading chunks. *)
Reads(q, n, X, base) ==
  \E f \in [0..n -> X] :
    /\ f[0] = base /\ \A i \in 1..n : f[i] = ReadChunk(f[i - 1], q[i])
    /\ ReadChunks(base, q) = f[n]

(* Reading chunks has a trace. *)
LEMMA ReadTrace ==
  ASSUME NEW q, NEW n \in Nat, DOMAIN q = 1..n, NEW X, NEW base \in X,
         \A a \in X : \A i \in 1..n : ReadChunk(a, q[i]) \in X
  PROVE  Reads(q, n, X, base)
<1> DEFINE step == [p \in X \X (1..n) |-> ReadChunk(p[1], q[p[2]])]
           Is(g) == g = [s \in SUBSET (1..n) |->
                          IF s = {} THEN base ELSE ReadChunk(g[s \ {Max(s)}], q[Max(s)])]
<1>1. step \in [X \X (1..n) -> X] /\ \A a \in X : \A i \in 1..n : step[<<a, i>>] = ReadChunk(a, q[i])
  OBVIOUS
<1>. HIDE DEF step
<1>2. PICK g \in [SUBSET (1..n) -> X] : Iterates(g, n, base, step)
  BY <1>1, IterationExists DEF HasIterate
<1>3. ASSUME NEW s \in SUBSET (1..n), s # {}
      PROVE  g[s] = ReadChunk(g[s \ {Max(s)}], q[Max(s)])
  <2>1. Max(s) \in 1..n /\ g[s \ {Max(s)}] \in X BY <1>3, MaxOfUpTo
  <2>. QED BY <1>1, <1>2, <1>3, <2>1 DEF Iterates
<1> DEFINE it == CHOOSE h : Is(h)
<1>4. Is(it)
  <2>1. Is(g) BY <1>2, <1>3 DEF Iterates
  <2>. QED BY <2>1
<1>5. ReadChunks(base, q) = it[1..n] BY DEF ReadChunks, FoldLeft, MapThenFoldSet
<1>. HIDE DEF it
<1>6. Folded(it, n, X, base, step) BY <1>1, <1>4, MaxOfUpTo DEF Folded
<1>7. PICK f : Follows(f, n, X, base, step) /\ f[n] = it[1..n]
  <2>1. Traced(n, X, base, step, it[1..n]) BY <1>1, <1>6, FoldFollows
  <2>. QED BY <2>1 DEF Traced
<1>8. f \in [0..n -> X] /\ f[0] = base /\ \A i \in 1..n : f[i] = ReadChunk(f[i - 1], q[i])
  <2>1. \A i \in 1..n : f[i - 1] \in X BY <1>7 DEF Follows
  <2>. QED BY <1>1, <1>7, <2>1 DEF Follows
<1>. QED BY <1>5, <1>7, <1>8 DEF Reads

(* The state with another buffer. *)
With(s, b) == [buffer |-> b, event |-> s.event, data |-> s.data, frames |-> s.frames]

(* Only the buffer differs. *)
LEMMA WithIs ==
  ASSUME NEW s \in ReaderState, NEW b
  PROVE  /\ [s EXCEPT !.buffer = b] = With(s, b) /\ s = With(s, s.buffer)
         /\ b \in Text => With(s, b) \in ReaderState
         /\ \A c : With(With(s, b), c) = With(s, c)
<1>1. s = [buffer |-> s.buffer, event |-> s.event, data |-> s.data, frames |-> s.frames]
  BY DEF ReaderState
<1>2. b \in Text => With(s, b) \in ReaderState BY DEF With, ReaderState
<1>3. \A c : With(With(s, b), c) = With(s, c) BY DEF With
<1>4. [s EXCEPT !.buffer = b] = With(s, b) BY <1>1 DEF With
<1>. QED BY <1>1, <1>2, <1>3, <1>4 DEF With

(* What a line does to the reader. *)
LEMMA TakeLineIs ==
  ASSUME NEW s \in ReaderState, NEW line \in Text
  PROVE  /\ TakeLine(s, line) \in ReaderState
         /\ TakeLine(s, line) =
              IF line = <<>>
              THEN [buffer |-> s.buffer, event |-> <<>>, data |-> <<>>,
                    frames |-> IF s.data = <<>> THEN s.frames
                               ELSE Append(s.frames, [event |-> s.event, data |-> s.data])]
              ELSE [buffer |-> s.buffer,
                    event |-> IF line[1] # "data:" /\ line[1] = "event:" THEN Tail(line) ELSE s.event,
                    data |-> IF line[1] = "data:" THEN Append(s.data, Tail(line)) ELSE s.data,
                    frames |-> s.frames]
<1>1. /\ s.buffer \in Text /\ s.event \in Text /\ s.data \in Seq(Text) /\ s.frames \in Frames
      /\ s = [buffer |-> s.buffer, event |-> s.event, data |-> s.data, frames |-> s.frames]
  BY DEF ReaderState
<1>2. CASE line = <<>> /\ s.data = <<>>
  <2>1. TakeLine(s, line) = [buffer |-> s.buffer, event |-> <<>>, data |-> <<>>, frames |-> s.frames]
    BY <1>1, <1>2 DEF TakeLine
  <2>2. <<>> \in Text /\ <<>> \in Seq(Text) BY DEF Text
  <2>. QED BY <1>1, <1>2, <2>1, <2>2 DEF ReaderState
<1>3. CASE line = <<>> /\ s.data # <<>>
  <2> DEFINE more == Append(s.frames, [event |-> s.event, data |-> s.data])
  <2>1. TakeLine(s, line) = [buffer |-> s.buffer, event |-> <<>>, data |-> <<>>, frames |-> more]
    BY <1>1, <1>3 DEF TakeLine
  <2>2. <<>> \in Text /\ <<>> \in Seq(Text) /\ more \in Frames BY <1>1 DEF Text, Frames
  <2>3. TakeLine(s, line) \in ReaderState BY <1>1, <2>1, <2>2 DEF ReaderState
  <2>. QED BY <1>3, <2>1, <2>3
<1>4. CASE line # <<>> /\ line[1] = "data:"
  <2> DEFINE more == Append(s.data, Tail(line))
  <2>1. TakeLine(s, line) = [buffer |-> s.buffer, event |-> s.event, data |-> more, frames |-> s.frames]
    BY <1>1, <1>4 DEF TakeLine
  <2>2. more \in Seq(Text) BY <1>1, <1>4 DEF Text
  <2>3. TakeLine(s, line) \in ReaderState BY <1>1, <2>1, <2>2 DEF ReaderState
  <2>. QED BY <1>4, <2>1, <2>3
<1>5. CASE line # <<>> /\ line[1] # "data:" /\ line[1] = "event:"
  <2>1. TakeLine(s, line) = [buffer |-> s.buffer, event |-> Tail(line), data |-> s.data, frames |-> s.frames]
    BY <1>1, <1>5 DEF TakeLine
  <2>2. Tail(line) \in Text BY <1>5 DEF Text
  <2>3. TakeLine(s, line) \in ReaderState BY <1>1, <2>1, <2>2 DEF ReaderState
  <2>. QED BY <1>5, <2>1, <2>3
<1>6. CASE line # <<>> /\ line[1] # "data:" /\ line[1] # "event:"
  <2>1. TakeLine(s, line) = s BY <1>6 DEF TakeLine
  <2>. QED BY <1>1, <1>6, <2>1
<1>. QED BY <1>2, <1>3, <1>4, <1>5, <1>6

(* A line does not touch the buffer. *)
LEMMA TakeLineWith ==
  ASSUME NEW s \in ReaderState, NEW line \in Text, NEW b \in Text
  PROVE  TakeLine(With(s, b), line) = With(TakeLine(s, line), b)
<1> DEFINE t == With(s, b)
<1>1. t \in ReaderState /\ t.event = s.event /\ t.data = s.data /\ t.frames = s.frames /\ t.buffer = b
  BY WithIs DEF With
<1>. HIDE DEF t
<1>2. TakeLine(t, line) =
        IF line = <<>>
        THEN [buffer |-> b, event |-> <<>>, data |-> <<>>,
              frames |-> IF s.data = <<>> THEN s.frames
                         ELSE Append(s.frames, [event |-> s.event, data |-> s.data])]
        ELSE [buffer |-> b,
              event |-> IF line[1] # "data:" /\ line[1] = "event:" THEN Tail(line) ELSE s.event,
              data |-> IF line[1] = "data:" THEN Append(s.data, Tail(line)) ELSE s.data,
              frames |-> s.frames]
  BY <1>1, TakeLineIs
<1> DEFINE x == TakeLine(s, line)
<1>3. x = IF line = <<>>
          THEN [buffer |-> s.buffer, event |-> <<>>, data |-> <<>>,
                frames |-> IF s.data = <<>> THEN s.frames
                           ELSE Append(s.frames, [event |-> s.event, data |-> s.data])]
          ELSE [buffer |-> s.buffer,
                event |-> IF line[1] # "data:" /\ line[1] = "event:" THEN Tail(line) ELSE s.event,
                data |-> IF line[1] = "data:" THEN Append(s.data, Tail(line)) ELSE s.data,
                frames |-> s.frames]
  BY TakeLineIs
<1>. HIDE DEF x
<1>4. TakeLine(t, line) = With(x, b)
  <2>1. CASE line = <<>> BY <1>2, <1>3, <2>1 DEF With
  <2>2. CASE line # <<>> BY <1>2, <1>3, <2>2 DEF With
  <2>. QED BY <2>1, <2>2
<1>. QED BY <1>4 DEF t, x

(* Lines are taken one by one. *)
LEMMA TakeLinesAppend ==
  ASSUME NEW s \in ReaderState, NEW lines \in Seq(Text), NEW line \in Text
  PROVE  /\ TakeLines(s, lines) \in ReaderState
         /\ TakeLines(s, <<>>) = s
         /\ TakeLines(s, Append(lines, line)) = TakeLine(TakeLines(s, lines), line)
<1> DEFINE n == Len(lines)
           more == Append(lines, line)
<1>1. n \in Nat /\ DOMAIN lines = 1..n /\ \A i \in 1..n : lines[i] \in Text OBVIOUS
<1>2. more \in Seq(Text) /\ DOMAIN more = 1 .. n + 1 /\ more[n + 1] = line /\ \A i \in 1..n : more[i] = lines[i]
  OBVIOUS
<1>3. \A i \in 1 .. n + 1 : more[i] \in Text BY <1>2
<1>. HIDE DEF n, more
<1>4. PICK f \in [0..n -> ReaderState] :
        f[0] = s /\ (\A i \in 1..n : f[i] = TakeLine(f[i - 1], lines[i])) /\ TakeLines(s, lines) = f[n]
  <2>1. \A a \in ReaderState : \A i \in 1..n : TakeLine(a, lines[i]) \in ReaderState
    BY <1>1, TakeLineIs
  <2>2. Takes(lines, n, ReaderState, s) BY <1>1, <2>1, TakeTrace
  <2>. QED BY <2>2 DEF Takes
<1>5. PICK g \in [0 .. n + 1 -> ReaderState] :
        g[0] = s /\ (\A i \in 1 .. n + 1 : g[i] = TakeLine(g[i - 1], more[i])) /\ TakeLines(s, more) = g[n + 1]
  <2> DEFINE k == n + 1
  <2>1. k \in Nat /\ DOMAIN more = 1..k BY <1>1, <1>2
  <2>2. \A a \in ReaderState : \A i \in 1..k : TakeLine(a, more[i]) \in ReaderState
    BY <1>3, TakeLineIs
  <2>. HIDE DEF k
  <2>3. Takes(more, k, ReaderState, s) BY <2>1, <2>2, TakeTrace
  <2>. QED BY <2>3 DEF Takes, k
<1>6. TakeLines(s, <<>>) = s
  <2>1. Takes(<<>>, 0, ReaderState, s)
    <3>1. DOMAIN <<>> = 1..0 /\ 1..0 = {} OBVIOUS
    <3> DEFINE e == <<>>
    <3>2. \A a \in ReaderState : \A i \in 1..0 : TakeLine(a, e[i]) \in ReaderState BY <3>1
    <3>. HIDE DEF e
    <3>3. Takes(e, 0, ReaderState, s) BY <3>1, <3>2, TakeTrace DEF e
    <3>. QED BY <3>3 DEF e
  <2>. QED BY <2>1 DEF Takes
<1> DEFINE S == {i \in 0..n : g[i] = f[i]}
<1>7. \A i \in 0..n : i \in S
  <2>1. 0 \in S BY <1>1, <1>4, <1>5
  <2>2. ASSUME NEW i \in 1..n, i - 1 \in S PROVE i \in S
    <3>1. i \in 1 .. n + 1 BY <1>1
    <3>. QED BY <2>2, <3>1, <1>2, <1>4, <1>5
  <2>3. \A i \in 1..n : i - 1 \in S => i \in S BY <2>2
  <2>. HIDE DEF S
  <2>. QED BY <1>1, <2>1, <2>3, InductionUpTo
<1>8. n \in 0..n /\ n + 1 \in 1 .. n + 1 /\ n + 1 - 1 = n BY <1>1
<1>9. g[n] = f[n] /\ f[n] \in ReaderState BY <1>7, <1>8
<1>10. g[n + 1] = TakeLine(g[n], line) BY <1>5, <1>8, <1>2
<1>. QED BY <1>4, <1>5, <1>6, <1>9, <1>10 DEF more

-----------------------------------------------------------------------------
(* The reading of a text piece by piece, which every cut of it follows. *)

(* One piece of the stream, read on its own. *)
ReadPiece(s, text, i) ==
  IF text[i] = LF /\ i > 1 /\ text[i - 1] = CR THEN s
  ELSE IF text[i] \in {CR, LF} THEN With(TakeLine(s, s.buffer), <<>>)
  ELSE With(s, Append(s.buffer, text[i]))

(* What has been read after each piece of text. *)
PieceByPiece(e, text) ==
  /\ e \in [0 .. Len(text) -> ReaderState] /\ e[0] = NothingRead
  /\ \A i \in 1 .. Len(text) : e[i] = ReadPiece(e[i - 1], text, i)

(* There is such an e. *)
HasPieces(text) == \E e : PieceByPiece(e, text)

(* A piece leaves a reader's state. *)
LEMMA ReadPieceIsTyped ==
  ASSUME NEW text \in Text, NEW i \in 1 .. Len(text), NEW s \in ReaderState
  PROVE  ReadPiece(s, text, i) \in ReaderState
<1>1. s.buffer \in Text /\ text[i] \in STRING BY DEF ReaderState, Text
<1>2. TakeLine(s, s.buffer) \in ReaderState /\ <<>> \in Text /\ Append(s.buffer, text[i]) \in Text
  <2>1. TakeLine(s, s.buffer) \in ReaderState BY <1>1, TakeLineIs
  <2>. QED BY <1>1, <2>1 DEF Text
<1>. QED BY <1>2, WithIs DEF ReadPiece

(* Every text can be read piece by piece. *)
LEMMA PiecesExist == ASSUME NEW text \in Text PROVE HasPieces(text)
<1> DEFINE n == Len(text)
           X == ReaderState
           step == [p \in X \X (1..n) |-> ReadPiece(p[1], text, p[2])]
<1>1. n \in Nat /\ NothingRead \in X BY DEF NothingRead, ReaderState, Text, Frames
<1>2. step \in [X \X (1..n) -> X] BY ReadPieceIsTyped
<1>3. \A a \in X : \A i \in 1..n : step[<<a, i>>] = ReadPiece(a, text, i) OBVIOUS
<1>. HIDE DEF step, X, n
<1>4. PICK h \in [SUBSET (1..n) -> X] : Iterates(h, n, NothingRead, step)
  BY <1>1, <1>2, IterationExists DEF HasIterate
<1> DEFINE e == [i \in 0..n |-> h[1..i]]
<1>5. \A i \in 0..n : 1..i \in SUBSET (1..n) BY <1>1
<1>6. e \in [0..n -> X] BY <1>4, <1>5
<1>7. e[0] = NothingRead
  <2>1. 1..0 = {} /\ 0 \in 0..n BY <1>1
  <2>. QED BY <2>1, <1>4 DEF Iterates
<1>8. ASSUME NEW i \in 1..n PROVE e[i] = ReadPiece(e[i - 1], text, i)
  <2>1. i - 1 \in 0..n /\ i \in 0..n BY <1>1
  <2>2. h[1..i] = step[<<h[1 .. i - 1], i>>] BY <1>1, <1>4, <1>5, <2>1, MaxUpTo DEF Iterates
  <2>3. h[1 .. i - 1] \in X BY <1>4, <1>5, <2>1
  <2>. QED BY <1>3, <2>1, <2>2, <2>3
<1>. HIDE DEF e
<1>9. PieceByPiece(e, text) BY <1>6, <1>7, <1>8 DEF PieceByPiece, n, X
<1>. QED BY <1>9 DEF HasPieces

(* No end of a line is kept in the buffer. *)
LEMMA BufferIsOneLine ==
  ASSUME NEW text \in Text, NEW e, PieceByPiece(e, text)
  PROVE  \A i \in 0 .. Len(text) : \A j \in 1 .. Len(e[i].buffer) : e[i].buffer[j] \notin {CR, LF}
<1> DEFINE n == Len(text)
           S == {i \in 0..n : \A j \in 1 .. Len(e[i].buffer) : e[i].buffer[j] \notin {CR, LF}}
<1>1. n \in Nat /\ e \in [0..n -> ReaderState] /\ e[0] = NothingRead BY DEF PieceByPiece
<1>2. 0 \in S BY <1>1 DEF NothingRead
<1>3. ASSUME NEW i \in 1..n, i - 1 \in S PROVE i \in S
  <2>1. i - 1 \in 0..n /\ i \in 0..n /\ e[i] = ReadPiece(e[i - 1], text, i) /\ text[i] \in STRING
    BY <1>1 DEF PieceByPiece, Text
  <2> DEFINE b == e[i - 1].buffer
  <2>2. b \in Seq(STRING) /\ \A j \in 1 .. Len(b) : b[j] \notin {CR, LF}
    BY <1>1, <1>3, <2>1 DEF ReaderState, Text
  <2>3. e[i].buffer = b \/ e[i].buffer = <<>> \/ (text[i] \notin {CR, LF} /\ e[i].buffer = Append(b, text[i]))
    BY <2>1 DEF ReadPiece, With
  <2>. HIDE DEF b
  <2>4. \A j \in 1 .. Len(e[i].buffer) : e[i].buffer[j] \notin {CR, LF}
    <3>1. CASE e[i].buffer = b BY <2>2, <3>1
    <3>2. CASE e[i].buffer = <<>> BY <3>2
    <3>3. CASE text[i] \notin {CR, LF} /\ e[i].buffer = Append(b, text[i]) BY <2>1, <2>2, <3>3
    <3>. QED BY <2>3, <3>1, <3>2, <3>3
  <2>. QED BY <2>1, <2>4
<1>4. \A i \in 1..n : i - 1 \in S => i \in S BY <1>3
<1>5. \A i \in 0..n : i \in S
  <2>. HIDE DEF S, n
  <2>. QED BY <1>1, <1>2, <1>4, InductionUpTo
<1>. QED BY <1>5

(* A piece that ends no line is added to the rest. *)
LEMMA NextPieceIsTyped ==
  ASSUME NEW text \in Text, NEW i \in 1 .. Len(text), NEW a \in Split
  PROVE  /\ NextPiece(a, text, i) \in Split
         /\ text[i] \notin {CR, LF} =>
              NextPiece(a, text, i) = [lines |-> a.lines, rest |-> Append(a.rest, text[i])]
<1>1. /\ a.lines \in Seq(Text) /\ a.rest \in Text /\ text[i] \in STRING
      /\ a = [lines |-> a.lines, rest |-> a.rest]
  BY DEF Split, Text
<1>2. Append(a.lines, a.rest) \in Seq(Text) /\ <<>> \in Text /\ Append(a.rest, text[i]) \in Text
  BY <1>1 DEF Text
<1>3. [a EXCEPT !.rest = Append(@, text[i])] = [lines |-> a.lines, rest |-> Append(a.rest, text[i])]
  <2> DEFINE z == Append(a.rest, text[i])
  <2>. HIDE DEF z
  <2>1. [a EXCEPT !.rest = z] = [lines |-> a.lines, rest |-> z] BY <1>1
  <2>. QED BY <2>1 DEF z
<1>. QED BY <1>1, <1>2, <1>3 DEF NextPiece, Split

(* SplitLines goes on from the line it was in. *)
LEMMA SplitResumes ==
  ASSUME NEW text \in Text, NEW e, PieceByPiece(e, text),
         NEW a \in 0 .. Len(text), NEW b \in a .. Len(text), NEW x \in Text,
         ~(a >= 1 /\ a < b /\ text[a] = CR /\ text[a + 1] = LF)
  PROVE  LET w == e[a].buffer \o SubSeq(text, a + 1, b)
         IN /\ SplitLines(w) \in Split
            /\ SplitLines(w).rest = e[b].buffer
            /\ TakeLines(With(e[a], x), SplitLines(w).lines) = With(e[b], x)
<1> DEFINE n == Len(text)
           u == e[a].buffer
           r == Len(u)
           c == SubSeq(text, a + 1, b)
           w == u \o c
           m == r + (b - a)
           base == [lines |-> <<>>, rest |-> <<>>]
<1>1. n \in Nat /\ e \in [0..n -> ReaderState] /\ \A i \in 1..n : e[i] = ReadPiece(e[i - 1], text, i) /\ text[i] \in STRING
  BY DEF PieceByPiece, Text
<1>2. u \in Text /\ r \in Nat /\ a \in Nat /\ b \in Nat /\ a <= b /\ b <= n /\ e[a] \in ReaderState
  <2>1. a \in Nat /\ b \in Nat /\ a <= b /\ b <= n /\ a \in 0..n BY <1>1
  <2>2. e[a] \in ReaderState BY <1>1, <2>1
  <2>3. u \in Seq(STRING) BY <2>2 DEF ReaderState, Text
  <2>. QED BY <2>1, <2>2, <2>3 DEF Text
<1>3. \A j \in 1..r : u[j] \notin {CR, LF} BY BufferIsOneLine
<1>4. c \in Text /\ Len(c) = b - a /\ \A t \in 1 .. b - a : c[t] = text[a + t]
  BY <1>1, <1>2 DEF Text
<1>. HIDE DEF u, c, n
<1>5. /\ w \in Text /\ Len(w) = m /\ m \in Nat /\ DOMAIN w = 1..m
      /\ \A j \in 1..r : w[j] = u[j]
      /\ \A t \in 1 .. b - a : w[r + t] = text[a + t]
  <2>1. u \in Seq(STRING) /\ c \in Seq(STRING) BY <1>2, <1>4 DEF Text
  <2>2. w \in Seq(STRING) /\ Len(w) = m BY <1>4, <2>1
  <2>3. m \in Nat /\ DOMAIN w = 1..m BY <1>2, <2>2
  <2>4. \A j \in 1..r : w[j] = u[j] BY <2>1
  <2>5. ASSUME NEW t \in 1 .. b - a PROVE w[r + t] = c[t]
    <3>1. r + t \in 1..m /\ r + t > r /\ r + t - r = t BY <1>2
    <3>. QED BY <1>4, <2>1, <2>2, <3>1
  <2>. HIDE DEF w, m
  <2>. QED BY <1>4, <2>2, <2>3, <2>4, <2>5 DEF Text
<1>. HIDE DEF w
<1>6. PICK v \in [0..m -> Split] :
        /\ v[0] = base /\ \A i \in 1..m : v[i] = NextPiece(v[i - 1], w, i)
        /\ SplitLines(w) = v[m]
  <2> DEFINE q == [i \in DOMAIN w |-> i]
  <2>1. DOMAIN q = 1..m /\ \A i \in 1..m : q[i] = i BY <1>5
  <2>2. base \in Split BY DEF Split, Text
  <2>3. q = [i \in DOMAIN w |-> i] OBVIOUS
  <2>4. base = [lines |-> <<>>, rest |-> <<>>] OBVIOUS
  <2>. HIDE DEF q, base, m
  <2>5. \A s \in Split : \A i \in 1..m : NextPiece(s, w, q[i]) \in Split
    BY <1>5, <2>1, NextPieceIsTyped
  <2>6. Splits(w, q, m, Split, base) BY <1>5, <2>1, <2>2, <2>5, SplitTrace
  <2>. QED BY <2>1, <2>3, <2>4, <2>6 DEF Splits
<1>7. \A i \in 0..m : v[i] \in Split BY <1>6
<1> DEFINE A == {j \in 0..r : v[j] = [lines |-> <<>>, rest |-> SubSeq(u, 1, j)]}
<1>8. r \in A
  <2>1. 0 \in A BY <1>2, <1>6 DEF Text
  <2>2. ASSUME NEW j \in 1..r, j - 1 \in A PROVE j \in A
    <3>1. j \in 1..m /\ j \in 1 .. Len(w) /\ w[j] = u[j] /\ w[j] \notin {CR, LF}
      BY <1>2, <1>3, <1>5
    <3>2. v[j] = NextPiece(v[j - 1], w, j) /\ v[j - 1] \in Split /\ v[j - 1] = [lines |-> <<>>, rest |-> SubSeq(u, 1, j - 1)]
      BY SMTT(60), <1>6, <2>2, <3>1
    <3>3. v[j] = [lines |-> <<>>, rest |-> Append(SubSeq(u, 1, j - 1), u[j])]
      <4>1. v[j] = [lines |-> v[j - 1].lines, rest |-> Append(v[j - 1].rest, w[j])]
        BY <1>5, <3>1, <3>2, NextPieceIsTyped
      <4>2. v[j - 1].lines = <<>> /\ v[j - 1].rest = SubSeq(u, 1, j - 1) BY <3>2
      <4>. QED BY <3>1, <4>1, <4>2
    <3>4. Append(SubSeq(u, 1, j - 1), u[j]) = SubSeq(u, 1, j) BY <1>2 DEF Text
    <3>5. j \in 0..r OBVIOUS
    <3>. QED BY <3>3, <3>4, <3>5
  <2>3. \A j \in 1..r : j - 1 \in A => j \in A BY <2>2
  <2>4. \A j \in 0..r : j \in A
    <3>. HIDE DEF A, r
    <3>. QED BY <1>2, <2>1, <2>3, InductionUpTo
  <2>5. r \in 0..r BY <1>2
  <2>. QED BY <2>4, <2>5
<1>9. v[r] = [lines |-> <<>>, rest |-> u]
  <2>1. SubSeq(u, 1, r) = u BY <1>2 DEF Text
  <2>. QED BY <1>8, <2>1
<1>. HIDE DEF A
<1> DEFINE k == b - a
           s == With(e[a], x)
           B == {t \in 0..k : v[r + t].rest = e[a + t].buffer /\ TakeLines(s, v[r + t].lines) = With(e[a + t], x)}
<1>10. s \in ReaderState /\ k \in Nat BY <1>2, WithIs
<1>11. 0 \in B
  <2>1. TakeLines(s, <<>>) = s
    <3>1. <<>> \in Seq(Text) /\ <<>> \in Text BY DEF Text
    <3>. HIDE DEF s
    <3>. QED BY <3>1, <1>10, TakeLinesAppend
  <2>2. r + 0 = r /\ a + 0 = a BY <1>2
  <2>. QED BY <1>9, <1>10, <2>1, <2>2 DEF u
<1>12. ASSUME NEW t \in 1..k, t - 1 \in B PROVE t \in B
  <2> DEFINE i == r + t
             y == v[i - 1]
             p == e[a + t - 1]
  <2>1. i \in 1..m /\ i - 1 \in 0..m /\ i - 1 = r + (t - 1) /\ t - 1 \in 0..k /\ a + t - 1 = a + (t - 1)
    BY <1>2, <1>5
  <2>2. a + t \in 1..n /\ (a + t) - 1 \in 0..n /\ (a + t) - 1 = a + t - 1
    <3>1. t \in Nat /\ t >= 1 /\ t <= b - a BY <1>2
    <3>. HIDE DEF k
    <3>. QED BY <1>1, <1>2, <3>1
  <2>3. y \in Split /\ p \in ReaderState /\ y.rest = p.buffer /\ TakeLines(s, y.lines) = With(p, x)
    BY <1>1, <1>7, <1>12, <2>1, <2>2
  <2>4. v[i] = NextPiece(y, w, i) /\ e[a + t] = ReadPiece(p, text, a + t)
    BY <1>1, <1>6, <2>1, <2>2
  <2>5. w[i] = text[a + t] BY <1>5
  <2>6. (i > 1 /\ w[i] = LF /\ w[i - 1] = CR) <=> (a + t > 1 /\ text[a + t] = LF /\ text[a + t - 1] = CR)
    <3>1. CASE t = 1
      <4>1. r >= 1 => w[r] # CR BY <1>2, <1>3, <1>5
      <4>2. i = r + 1 /\ i - 1 = r /\ a + t = a + 1 /\ a + t - 1 = a /\ a < b BY <3>1, <1>2
      <4>. QED BY <1>2, <4>1, <4>2, <2>5
    <3>2. CASE t # 1
      <4>1. t - 1 \in 1 .. b - a BY <3>2
      <4>2. w[r + (t - 1)] = text[a + (t - 1)] BY <1>5, <4>1
      <4>. QED BY <1>2, <2>1, <2>5, <3>2, <4>2
    <3>. QED BY <3>1, <3>2
  <2>. HIDE DEF i, y, p, s, k
  <2>7. /\ y.lines \in Seq(Text) /\ y.rest \in Text /\ p.buffer \in Text /\ w[i] \in STRING
        /\ y = [lines |-> y.lines, rest |-> y.rest]
    BY <1>1, <2>2, <2>3, <2>5 DEF Split, ReaderState
  <2>8. CASE i > 1 /\ w[i] = LF /\ w[i - 1] = CR
    <3>1. v[i] = y /\ e[a + t] = p BY <2>4, <2>6, <2>8 DEF NextPiece, ReadPiece
    <3>. QED BY <2>3, <3>1 DEF i, k
  <2>9. CASE ~(i > 1 /\ w[i] = LF /\ w[i - 1] = CR) /\ w[i] \in {CR, LF}
    <3>1. v[i] = [lines |-> Append(y.lines, y.rest), rest |-> <<>>] BY <2>4, <2>9 DEF NextPiece
    <3>2. e[a + t] = With(TakeLine(p, p.buffer), <<>>) BY <2>4, <2>5, <2>6, <2>9 DEF ReadPiece
    <3>3. TakeLines(s, Append(y.lines, y.rest)) = TakeLine(With(p, x), y.rest)
      BY <1>10, <2>3, <2>7, TakeLinesAppend
    <3>4. TakeLine(With(p, x), y.rest) = With(TakeLine(p, p.buffer), x)
      BY <2>3, <2>7, TakeLineWith
    <3>5. TakeLine(p, p.buffer) \in ReaderState /\ <<>> \in Text
      <4>1. TakeLine(p, p.buffer) \in ReaderState BY <2>3, <2>7, TakeLineIs
      <4>. QED BY <4>1 DEF Text
    <3>6. With(e[a + t], x) = With(TakeLine(p, p.buffer), x) /\ e[a + t].buffer = <<>>
      BY <3>2 DEF With
    <3>7. v[i].rest = e[a + t].buffer /\ TakeLines(s, v[i].lines) = With(e[a + t], x)
      BY <3>1, <3>3, <3>4, <3>6
    <3>. QED BY <3>7 DEF i, k
  <2>10. CASE w[i] \notin {CR, LF}
    <3>1. v[i] = [lines |-> y.lines, rest |-> Append(y.rest, w[i])]
      <4>1. i \in 1 .. Len(w) BY <1>5, <2>1
      <4>. QED BY <1>5, <2>3, <2>4, <2>10, <4>1, NextPieceIsTyped
    <3>2. e[a + t] = With(p, Append(p.buffer, w[i])) BY <2>4, <2>5, <2>10 DEF ReadPiece
    <3>3. With(e[a + t], x) = With(p, x) /\ e[a + t].buffer = Append(p.buffer, w[i])
      BY <3>2 DEF With
    <3>4. v[i].rest = e[a + t].buffer /\ TakeLines(s, v[i].lines) = With(e[a + t], x)
      BY <2>3, <3>1, <3>3
    <3>. QED BY <3>4 DEF i, k
  <2>. QED BY <2>8, <2>9, <2>10
<1>13. \A t \in 1..k : t - 1 \in B => t \in B BY <1>12
<1>14. \A t \in 0..k : t \in B
  <2>. HIDE DEF B, k
  <2>. QED BY <1>10, <1>11, <1>13, InductionUpTo
<1>15. r + k = m /\ a + k = b /\ k \in 0..k BY <1>2, <1>10
<1>16. v[m].rest = e[b].buffer /\ TakeLines(s, v[m].lines) = With(e[b], x) /\ v[m] \in Split
  <2>1. k \in B BY <1>14, <1>15
  <2>2. m \in 0..m BY <1>5
  <2>. QED BY <2>1, <2>2, <1>7, <1>15
<1>. QED BY <1>6, <1>16 DEF w, u, c

-----------------------------------------------------------------------------
(* A chunk, read after what came before it. *)

(* Splitting gives lines and a rest. *)
LEMMA SplitLinesIsTyped == ASSUME NEW w \in Text PROVE SplitLines(w) \in Split
<1> DEFINE m == Len(w)
           q == [i \in DOMAIN w |-> i]
           base == [lines |-> <<>>, rest |-> <<>>]
<1>1. m \in Nat /\ DOMAIN q = 1..m /\ \A i \in 1..m : q[i] = i BY DEF Text
<1>2. base \in Split BY DEF Split, Text
<1>3. q = [i \in DOMAIN w |-> i] /\ base = [lines |-> <<>>, rest |-> <<>>] OBVIOUS
<1>4. \A s \in Split : \A i \in 1..m : NextPiece(s, w, q[i]) \in Split BY <1>1, NextPieceIsTyped
<1>. HIDE DEF q, base, m
<1>5. Splits(w, q, m, Split, base) BY <1>1, <1>2, <1>4, SplitTrace
<1>6. m \in 0..m BY <1>1
<1>. QED BY <1>3, <1>5, <1>6 DEF Splits

(* Only a CR at the very end is held back. *)
LEMMA HeldIs ==
  ASSUME NEW w \in Text
  PROVE  /\ Held(w) = IF Len(w) > 0 /\ w[Len(w)] = CR THEN <<CR>> ELSE <<>>
         /\ Held(w) \in Text /\ Len(Held(w)) \in 0..Len(w)
<1>1. w \in Seq(STRING) /\ Len(w) \in Nat BY DEF Text
<1>2. Held(w) = IF Len(w) > 0 /\ w[Len(w)] = CR THEN <<CR>> ELSE <<>>
  <2>1. w # <<>> <=> Len(w) > 0 BY <1>1
  <2>. QED BY <2>1 DEF Held, Last
<1>3. CASE Len(w) > 0 /\ w[Len(w)] = CR
  <2>1. CR \in STRING BY <1>1, <1>3
  <2>2. <<CR>> \in Seq(STRING) /\ Len(<<CR>>) = 1 BY <2>1, Alone
  <2>. QED BY <1>1, <1>2, <1>3, <2>2 DEF Text
<1>4. CASE ~(Len(w) > 0 /\ w[Len(w)] = CR)
  <2>1. Held(w) = <<>> BY <1>2, <1>4
  <2>2. <<>> \in Seq(STRING) /\ Len(<<>>) = 0 OBVIOUS
  <2>3. Len(Held(w)) = 0 /\ Held(w) \in Seq(STRING) BY <2>1, <2>2
  <2>. QED BY <1>1, <1>2, <1>4, <2>3 DEF Text
<1>. QED BY <1>3, <1>4

(* What reading a chunk does, in parts. *)
LEMMA ReadChunkIs ==
  ASSUME NEW s \in ReaderState, NEW chunk \in Text
  PROVE  LET buffer == s.buffer \o chunk
             split == SplitLines(SubSeq(buffer, 1, Len(buffer) - Len(Held(buffer))))
         IN /\ buffer \in Text /\ split \in Split
            /\ ReadChunk(s, chunk) = TakeLines(With(s, split.rest \o Held(buffer)), split.lines)
            /\ With(s, split.rest \o Held(buffer)) \in ReaderState
<1> DEFINE buffer == s.buffer \o chunk
           held == Held(buffer)
           w == SubSeq(buffer, 1, Len(buffer) - Len(held))
           split == SplitLines(w)
<1>1. buffer \in Text BY DEF Text, ReaderState
<1>2. held \in Text /\ Len(held) \in 0..Len(buffer) BY <1>1, HeldIs
<1>3. w \in Text
  <2>. HIDE DEF buffer, held
  <2>1. buffer \in Seq(STRING) /\ Len(buffer) \in Nat /\ Len(held) \in Nat /\ Len(buffer) - Len(held) \in 0..Len(buffer)
    BY <1>1, <1>2 DEF Text
  <2>2. \A i \in 1 .. Len(buffer) - Len(held) : buffer[i] \in STRING BY <2>1
  <2>. QED BY <2>1, <2>2 DEF Text
<1>4. split \in Split
  <2>. HIDE DEF w
  <2>. QED BY <1>3, SplitLinesIsTyped
<1>5. split.rest \o held \in Text
  <2>. HIDE DEF split, held
  <2>. QED BY <1>2, <1>4 DEF Split, Text
<1>6. ReadChunk(s, chunk) = TakeLines([s EXCEPT !.buffer = split.rest \o held], split.lines)
  BY DEF ReadChunk
<1>. HIDE DEF split, held
<1>7. [s EXCEPT !.buffer = split.rest \o held] = With(s, split.rest \o held) /\ With(s, split.rest \o held) \in ReaderState
  BY <1>5, WithIs
<1>. QED BY <1>1, <1>4, <1>6, <1>7 DEF split, held

(* A chunk leaves a reader's state. *)
LEMMA ReadChunkIsTyped ==
  ASSUME NEW s \in ReaderState, NEW chunk \in Text
  PROVE  ReadChunk(s, chunk) \in ReaderState
<1> DEFINE buffer == s.buffer \o chunk
           split == SplitLines(SubSeq(buffer, 1, Len(buffer) - Len(Held(buffer))))
           t == With(s, split.rest \o Held(buffer))
<1>1. split \in Split /\ ReadChunk(s, chunk) = TakeLines(t, split.lines) /\ t \in ReaderState
  BY ReadChunkIs
<1>. HIDE DEF t, split
<1>2. split.lines \in Seq(Text) /\ <<>> \in Text BY <1>1 DEF Split, Text
<1>. QED BY <1>1, <1>2, TakeLinesAppend

(* Chunks are read one by one. *)
LEMMA ReadChunksAppend ==
  ASSUME NEW s \in ReaderState, NEW chunks \in Seq(Text), NEW chunk \in Text
  PROVE  /\ ReadChunks(s, chunks) \in ReaderState
         /\ ReadChunks(s, <<>>) = s
         /\ ReadChunks(s, Append(chunks, chunk)) = ReadChunk(ReadChunks(s, chunks), chunk)
<1> DEFINE n == Len(chunks)
           more == Append(chunks, chunk)
<1>1. n \in Nat /\ DOMAIN chunks = 1..n /\ \A i \in 1..n : chunks[i] \in Text OBVIOUS
<1>2. more \in Seq(Text) /\ DOMAIN more = 1 .. n + 1 /\ more[n + 1] = chunk /\ \A i \in 1..n : more[i] = chunks[i]
  OBVIOUS
<1>3. \A i \in 1 .. n + 1 : more[i] \in Text BY <1>2
<1>. HIDE DEF n, more
<1>4. PICK f \in [0..n -> ReaderState] :
        f[0] = s /\ (\A i \in 1..n : f[i] = ReadChunk(f[i - 1], chunks[i])) /\ ReadChunks(s, chunks) = f[n]
  <2>1. \A a \in ReaderState : \A i \in 1..n : ReadChunk(a, chunks[i]) \in ReaderState
    BY <1>1, ReadChunkIsTyped
  <2>2. Reads(chunks, n, ReaderState, s) BY <1>1, <2>1, ReadTrace
  <2>. QED BY <2>2 DEF Reads
<1>5. PICK g \in [0 .. n + 1 -> ReaderState] :
        g[0] = s /\ (\A i \in 1 .. n + 1 : g[i] = ReadChunk(g[i - 1], more[i])) /\ ReadChunks(s, more) = g[n + 1]
  <2> DEFINE k == n + 1
  <2>1. k \in Nat /\ DOMAIN more = 1..k BY <1>1, <1>2
  <2>2. \A a \in ReaderState : \A i \in 1..k : ReadChunk(a, more[i]) \in ReaderState
    BY <1>3, ReadChunkIsTyped
  <2>. HIDE DEF k
  <2>3. Reads(more, k, ReaderState, s) BY <2>1, <2>2, ReadTrace
  <2>. QED BY <2>3 DEF Reads, k
<1>6. ReadChunks(s, <<>>) = s
  <2>1. Reads(<<>>, 0, ReaderState, s)
    <3>1. DOMAIN <<>> = 1..0 /\ 1..0 = {} OBVIOUS
    <3> DEFINE e == <<>>
    <3>2. \A a \in ReaderState : \A i \in 1..0 : ReadChunk(a, e[i]) \in ReaderState BY <3>1
    <3>. HIDE DEF e
    <3>3. Reads(e, 0, ReaderState, s) BY <3>1, <3>2, ReadTrace DEF e
    <3>. QED BY <3>3 DEF e
  <2>. QED BY <2>1 DEF Reads
<1> DEFINE S == {i \in 0..n : g[i] = f[i]}
<1>7. \A i \in 0..n : i \in S
  <2>1. 0 \in S BY <1>1, <1>4, <1>5
  <2>2. ASSUME NEW i \in 1..n, i - 1 \in S PROVE i \in S
    <3>1. i \in 1 .. n + 1 BY <1>1
    <3>. QED BY <2>2, <3>1, <1>2, <1>4, <1>5
  <2>3. \A i \in 1..n : i - 1 \in S => i \in S BY <2>2
  <2>. HIDE DEF S
  <2>. QED BY <1>1, <2>1, <2>3, InductionUpTo
<1>8. n \in 0..n /\ n + 1 \in 1 .. n + 1 /\ n + 1 - 1 = n BY <1>1
<1>9. g[n] = f[n] /\ f[n] \in ReaderState BY <1>7, <1>8
<1>10. g[n + 1] = ReadChunk(g[n], chunk) BY <1>5, <1>8, <1>2
<1>. QED BY <1>4, <1>5, <1>6, <1>9, <1>10 DEF more

(* A CR at the end of what has come waits for what follows it. *)
Tip(text, k) == IF k > 0 /\ text[k] = CR THEN 1 ELSE 0

(* How much of the first k pieces can be read without knowing the next. *)
Whole(text, k) == k - Tip(text, k)

(* The reader after the first k pieces, however they came. *)
View(e, text, k) ==
  With(e[Whole(text, k)],
       e[Whole(text, k)].buffer \o (IF Tip(text, k) = 1 THEN <<CR>> ELSE <<>>))

(* It is a reader's state whose buffer is the rest of the text. *)
LEMMA ViewIs ==
  ASSUME NEW text \in Text, NEW e, PieceByPiece(e, text), NEW k \in 0 .. Len(text)
  PROVE  /\ Tip(text, k) \in {0, 1} /\ Whole(text, k) \in 0 .. Len(text)
         /\ View(e, text, k) \in ReaderState
         /\ View(e, text, k).buffer
              = e[Whole(text, k)].buffer \o SubSeq(text, Whole(text, k) + 1, k)
<1> DEFINE h == Tip(text, k)
           u == e[k - h].buffer
<1>1. h \in {0, 1} /\ (h = 1 <=> k > 0 /\ text[k] = CR) /\ k \in Nat /\ Len(text) \in Nat
  BY DEF Tip, Text
<1>2. k - h \in 0 .. Len(text)
  <2>. HIDE DEF h
  <2>. QED BY <1>1
<1>3. e[k - h] \in ReaderState /\ u \in Seq(STRING)
  <2>1. e[k - h] \in ReaderState BY <1>2 DEF PieceByPiece
  <2>. QED BY <2>1 DEF ReaderState, Text
<1>4. (IF h = 1 THEN <<CR>> ELSE <<>>) = SubSeq(text, k - h + 1, k)
  <2>. HIDE DEF h
  <2>1. CASE h = 1
    <3>1. text[k] = CR /\ k \in 1 .. Len(text) /\ k - h + 1 = k BY <1>1, <2>1
    <3>2. text \in Seq(STRING) BY DEF Text
    <3>3. SubSeq(text, k, k) = <<text[k]>> BY <3>1, <3>2, OneOf
    <3>. QED BY <2>1, <3>1, <3>3
  <2>2. CASE h = 0
    <3>1. k - h + 1 = k + 1 BY <1>1, <2>2
    <3>2. SubSeq(text, k + 1, k) = <<>> BY <1>1 DEF Text
    <3>. QED BY <2>2, <3>1, <3>2
  <2>. QED BY <1>1, <2>1, <2>2
<1> DEFINE c == SubSeq(text, k - h + 1, k)
<1>5. c \in Seq(STRING)
  <2>1. text \in Seq(STRING) /\ k - h + 1 \in Int BY <1>1 DEF Text
  <2>2. \A i \in k - h + 1 .. k : text[i] \in STRING
    <3>. HIDE DEF h
    <3>. QED BY <1>1, <1>2, <2>1
  <2>. HIDE DEF h
  <2>. QED BY <2>1, <2>2, <1>1, <1>2
<1>6. View(e, text, k) = With(e[k - h], u \o c) BY <1>4 DEF View, Whole
<1>. HIDE DEF u, c, h
<1>7. u \o c \in Text BY <1>3, <1>5 DEF Text
<1>8. View(e, text, k) \in ReaderState BY <1>3, <1>6, <1>7, WithIs
<1>9. View(e, text, k).buffer = u \o c BY <1>6 DEF With
<1>. QED BY <1>1, <1>2, <1>8, <1>9 DEF u, c, h, Whole

(* A sequence without its last element. *)
LEMMA WithoutLast ==
  ASSUME NEW V, NEW w \in Seq(V), NEW z \in V
  PROVE  LET more == w \o <<z>>
         IN /\ more \in Seq(V) /\ Len(more) = Len(w) + 1 /\ more[Len(more)] = z
            /\ SubSeq(more, 1, Len(more) - 1) = w
<1> DEFINE more == w \o <<z>>
           one == <<z>>
           f == SubSeq(more, 1, Len(more) - 1)
<1>1. one \in Seq(V) /\ Len(one) = 1 /\ one[1] = z BY Alone
<1>2. /\ more \in Seq(V) /\ Len(more) = Len(w) + 1 /\ Len(w) \in Nat
      /\ \A i \in 1 .. Len(w) + 1 : more[i] = IF i <= Len(w) THEN w[i] ELSE one[i - Len(w)]
  <2>. HIDE DEF one
  <2>1. more = w \o one BY DEF one
  <2>. HIDE DEF more
  <2>2. Len(w) \in Nat BY LenProperties
  <2>3. w \o one \in Seq(V) /\ Len(w \o one) = Len(w) + 1 BY <1>1, ConcatProperties
  <2>4. \A i \in 1 .. Len(w) + Len(one) : (w \o one)[i] = IF i <= Len(w) THEN w[i] ELSE one[i - Len(w)]
    BY ConcatProperties, <1>1
  <2>. QED BY <1>1, <2>1, <2>2, <2>3, <2>4
<1>. HIDE DEF more, one
<1>3. more[Len(more)] = z
  <2>1. Len(w) + 1 \in 1 .. Len(w) + 1 /\ ~(Len(w) + 1 <= Len(w)) /\ (Len(w) + 1) - Len(w) = 1
    BY <1>2
  <2>. QED BY <1>1, <1>2, <2>1
<1>4. f \in Seq(V) /\ Len(f) = Len(w) /\ \A i \in 1 .. Len(w) : f[i] = w[i]
  <2>1. Len(more) - 1 = Len(w) BY <1>2
  <2>2. \A i \in 1 .. Len(w) : more[i] = w[i] /\ more[i] \in V BY <1>2
  <2>3. SubSeq(more, 1, Len(w)) \in Seq(V) /\ Len(SubSeq(more, 1, Len(w))) = IF 1 <= Len(w) THEN Len(w) - 1 + 1 ELSE 0
    BY <1>2, <2>2, SubSeqProperties
  <2>4. \A i \in 1 .. Len(w) - 1 + 1 : SubSeq(more, 1, Len(w))[i] = more[1 + i - 1]
    BY <1>2, <2>2, SubSeqProperties
  <2>. QED BY <1>2, <2>1, <2>2, <2>3, <2>4
<1>5. f = w
  <2>. HIDE DEF f
  <2>. QED BY <1>4, SeqEqual
<1>. QED BY <1>2, <1>3, <1>5 DEF more

(* Joining texts is associative. *)
LEMMA TextsJoin ==
  ASSUME NEW s \in Seq(STRING), NEW t \in Seq(STRING), NEW u \in Seq(STRING)
  PROVE  (s \o t) \o u = s \o (t \o u)
BY ConcatAssociative

(* A chunk takes the reader from what it had read to what it has read then. *)
LEMMA ChunkMovesOn ==
  ASSUME NEW text \in Text, NEW e, PieceByPiece(e, text),
         NEW k \in 0 .. Len(text), NEW m \in k .. Len(text)
  PROVE  ReadChunk(View(e, text, k), SubSeq(text, k + 1, m)) = View(e, text, m)
<1>0. /\ View(e, text, k) \in ReaderState
      /\ View(e, text, k).buffer = e[Whole(text, k)].buffer \o SubSeq(text, Whole(text, k) + 1, k)
  BY ViewIs
<1> DEFINE n == Len(text)
           h == Tip(text, k)
           g == Tip(text, m)
           a == k - h
           b == m - g
           u == e[a].buffer
           s == View(e, text, k)
           chunk == SubSeq(text, k + 1, m)
           c == SubSeq(text, a + 1, m)
           buffer == s.buffer \o chunk
           held == IF g = 1 THEN <<CR>> ELSE <<>>
           w == u \o SubSeq(text, a + 1, b)
<1>1. n \in Nat /\ text \in Seq(STRING) /\ k \in Nat /\ m \in Nat /\ k <= m /\ m <= n /\ m \in 0..n
  BY DEF Text
<1>2. /\ h \in {0, 1} /\ (h = 1 <=> k > 0 /\ text[k] = CR)
      /\ g \in {0, 1} /\ (g = 1 <=> m > 0 /\ text[m] = CR)
  BY DEF Tip
<1>. HIDE DEF h, g
<1>3. a \in 0..n /\ a <= k /\ a \in Nat BY <1>1, <1>2
<1>4. a <= b /\ b \in 0..n /\ b \in a..n /\ b \in Nat
  <2>1. CASE g = 0 BY <1>1, <1>2, <1>3, <2>1
  <2>2. CASE g = 1 /\ h = 1 BY <1>1, <1>2, <1>3, <2>2
  <2>3. CASE g = 1 /\ h = 0
    <3>1. k # m BY <1>2, <2>3
    <3>. QED BY <1>1, <1>2, <2>3, <3>1
  <2>. QED BY <1>2, <2>1, <2>2, <2>3
<1>5. e[a] \in ReaderState /\ e[b] \in ReaderState /\ u \in Seq(STRING) /\ e[b].buffer \in Seq(STRING)
  <2>1. e[a] \in ReaderState /\ e[b] \in ReaderState BY <1>3, <1>4 DEF PieceByPiece
  <2>. QED BY <2>1 DEF ReaderState, Text
<1>6. s \in ReaderState /\ s.buffer = u \o SubSeq(text, a + 1, k) BY <1>0 DEF h, Whole
<1>7. /\ chunk \in Seq(STRING) /\ c \in Seq(STRING) /\ SubSeq(text, a + 1, k) \in Seq(STRING)
      /\ SubSeq(text, a + 1, b) \in Seq(STRING)
  <2>1. \A i \in 1..n : text[i] \in STRING BY <1>1
  <2>2. (\A i \in k + 1 .. m : text[i] \in STRING) /\ k + 1 \in Int /\ m \in Int BY <2>1, <1>1
  <2>3. (\A i \in a + 1 .. m : text[i] \in STRING) /\ a + 1 \in Int BY <2>1, <1>1, <1>3
  <2>4. (\A i \in a + 1 .. k : text[i] \in STRING) /\ k \in Int BY <2>1, <1>1, <1>3
  <2>5. (\A i \in a + 1 .. b : text[i] \in STRING) /\ b \in Int BY <2>1, <1>1, <1>3, <1>4
  <2>. HIDE DEF a, b
  <2>6. chunk \in Seq(STRING) BY <2>2, SubSeqProperties
  <2>7. c \in Seq(STRING) BY <2>2, <2>3, SubSeqProperties
  <2>8. SubSeq(text, a + 1, k) \in Seq(STRING) BY <2>3, <2>4, SubSeqProperties
  <2>9. SubSeq(text, a + 1, b) \in Seq(STRING) BY <2>3, <2>5, SubSeqProperties
  <2>. QED BY <2>6, <2>7, <2>8, <2>9
<1>8. buffer = u \o c
  <2>1. SubSeq(text, a + 1, k) \o chunk = c
    <3>1. a + 1 \in 1 .. n + 1 /\ k \in (a + 1) - 1 .. n /\ m \in k .. n BY <1>1, <1>3
    <3>. HIDE DEF a
    <3>. QED BY <1>1, <3>1, ConcatAdjacentSubSeq
  <2> DEFINE d == SubSeq(text, a + 1, k)
  <2>2. buffer = (u \o d) \o chunk BY <1>6
  <2>3. d \in Seq(STRING) /\ d \o chunk = c BY <1>7, <2>1
  <2>. HIDE DEF d, u, chunk, c, buffer
  <2>4. u \in Seq(STRING) /\ chunk \in Seq(STRING) BY <1>5, <1>7
  <2>5. (u \o d) \o chunk = u \o (d \o chunk) BY <2>3, <2>4, TextsJoin
  <2>. QED BY <2>2, <2>3, <2>5
<1>9. Held(buffer) = held /\ SubSeq(buffer, 1, Len(buffer) - Len(held)) = w
  <2>0. buffer \in Seq(STRING)
    <3>. HIDE DEF u, c, buffer
    <3>. QED BY <1>5, <1>7, <1>8, ConcatProperties
  <2>1. Len(buffer) \in Nat /\ buffer \in Text
    <3>. HIDE DEF buffer
    <3>. QED BY <2>0 DEF Text
  <2>2. CASE g = 1
    <3>1. /\ m \in 1..n /\ text[m] = CR /\ b = m - 1 /\ held = <<text[m]>> /\ text[m] \in STRING
          /\ a + 1 \in 1..n /\ m \in a + 1 .. n /\ Len(held) = 1
      <4>1. m \in 1..n /\ text[m] = CR /\ b = m - 1 /\ held = <<text[m]>> /\ text[m] \in STRING
        BY <1>1, <1>2, <2>2
      <4>2. Len(held) = 1 BY <4>1, Alone
      <4>. QED BY <1>1, <1>3, <1>4, <4>1, <4>2
    <3> DEFINE d == SubSeq(text, a + 1, b)
               one == <<text[m]>>
    <3>2. c = d \o one BY <1>1, <3>1, SubSeqRecursiveSecond
    <3>3. one \in Seq(STRING) /\ d \in Seq(STRING) BY <1>7, <3>1, Alone
    <3>4. w = u \o d /\ held = one BY <3>1
    <3>5. w \in Seq(STRING) /\ buffer = w \o one
      <4>. HIDE DEF u, c, d, w, one, buffer
      <4>1. w \in Seq(STRING) BY <1>5, <3>3, <3>4, ConcatProperties
      <4>2. u \o (d \o one) = (u \o d) \o one
        <5>1. u \in Seq(STRING) BY <1>5
        <5>. QED BY <5>1, <3>3, TextsJoin
      <4>. QED BY <1>8, <3>2, <3>4, <4>1, <4>2
    <3>. HIDE DEF w, held, buffer
    <3>6. Len(buffer) = Len(w) + 1 /\ buffer[Len(buffer)] = CR /\ SubSeq(buffer, 1, Len(buffer) - 1) = w
      BY <3>1, <3>5, WithoutLast
    <3>7. Len(buffer) > 0 BY <3>5, <3>6, LenProperties
    <3>8. Held(buffer) = <<CR>> BY <2>1, <3>6, <3>7, HeldIs
    <3>9. held = <<CR>> BY <3>1
    <3>. QED BY <3>1, <3>6, <3>8, <3>9
  <2>3. CASE g = 0
    <3>1. held = <<>> /\ b = m /\ w = u \o c BY <1>1, <2>3
    <3>2. ~(Len(buffer) > 0 /\ buffer[Len(buffer)] = CR)
      <4>1. CASE a = m
        <5>1. c = <<>> /\ buffer = u
          <6>1. a + 1 \in Int /\ m \in Int /\ m < a + 1 BY <1>1, <1>3, <4>1
          <6>2. c = <<>> BY <6>1, SubSeqEmpty
          <6>. HIDE DEF u, c, buffer
          <6>. QED BY <1>5, <1>8, <6>2, ConcatEmptySeq
        <5>2. \A j \in 1 .. Len(u) : u[j] \notin {CR, LF} BY <1>3, BufferIsOneLine
        <5>. HIDE DEF u, buffer
        <5>. QED BY <2>1, <5>1, <5>2
      <4>2. CASE a < m
        <5>1. Len(c) = m - a /\ c[m - a] = text[m]
          <6>1. \A i \in a + 1 .. m : text[i] \in STRING BY <1>1, <1>3
          <6>2. a + 1 \in Int /\ m \in Int /\ a + 1 <= m /\ m - (a + 1) + 1 = m - a /\ m - a \in 1 .. m - a /\ (a + 1) + (m - a) - 1 = m
            BY <1>1, <1>3, <4>2
          <6>. HIDE DEF a
          <6>3. Len(c) = m - a BY <6>1, <6>2, SubSeqProperties
          <6>4. \A i \in 1 .. m - (a + 1) + 1 : c[i] = text[a + 1 + i - 1]
            BY <6>1, <6>2, SubSeqProperties
          <6>. QED BY <6>2, <6>3, <6>4
        <5>2. Len(buffer) = Len(u) + Len(c) /\ buffer[Len(u) + Len(c)] = c[Len(c)]
          <6>1. Len(u) \in Nat /\ Len(c) \in Nat /\ Len(c) > 0
            <7>1. m - a \in Nat /\ m - a > 0 BY <1>1, <1>3, <4>2
            <7>2. Len(u) \in Nat
              <8>. HIDE DEF u
              <8>. QED BY <1>5, LenProperties
            <7>. QED BY <5>1, <7>1, <7>2
          <6>. HIDE DEF u, c, buffer
          <6>2. Len(u) + Len(c) \in 1 .. Len(u) + Len(c) /\ ~(Len(u) + Len(c) <= Len(u)) /\ (Len(u) + Len(c)) - Len(u) = Len(c)
            BY <6>1
          <6>3. Len(u \o c) = Len(u) + Len(c) BY <1>5, <1>7, ConcatProperties
          <6>4. \A i \in 1 .. Len(u) + Len(c) : (u \o c)[i] = IF i <= Len(u) THEN u[i] ELSE c[i - Len(u)]
            BY <1>5, <1>7, ConcatProperties
          <6>. QED BY <1>8, <6>2, <6>3, <6>4
        <5>3. buffer[Len(buffer)] = text[m] BY <5>1, <5>2
        <5>4. m > 0 => text[m] # CR BY <1>2, <2>3
        <5>5. m > 0
          <6>. HIDE DEF a
          <6>. QED BY <1>1, <1>3, <4>2
        <5>. QED BY <5>3, <5>4, <5>5
      <4>3. a = m \/ a < m
        <5>. HIDE DEF a
        <5>. QED BY <1>1, <1>3
      <4>. QED BY <4>1, <4>2, <4>3
    <3>3. Held(buffer) = <<>>
      <4>. HIDE DEF buffer
      <4>. QED BY <2>1, <3>2, HeldIs
    <3>4. Len(held) = 0 /\ Len(buffer) - Len(held) = Len(buffer)
      <4>. HIDE DEF buffer
      <4>1. Len(<<>>) = 0 OBVIOUS
      <4>. QED BY <2>1, <3>1, <4>1
    <3>5. SubSeq(buffer, 1, Len(buffer)) = buffer
      <4>. HIDE DEF buffer
      <4>. QED BY <2>0, SubSeqFull
    <3>. QED BY <1>8, <3>1, <3>3, <3>4, <3>5
  <2>. QED BY <1>2, <2>2, <2>3
<1>10. ~(a >= 1 /\ a < b /\ text[a] = CR /\ text[a + 1] = LF)
  <2>1. CR # LF BY DEF CR, LF
  <2>2. CASE h = 0 BY <1>1, <1>2, <2>2
  <2>3. CASE h = 1
    <3>1. a + 1 = k /\ text[k] = CR BY <1>1, <1>2, <2>3
    <3>. QED BY <2>1, <3>1
  <2>. QED BY <1>2, <2>2, <2>3
<1> DEFINE split == SplitLines(w)
           x == split.rest \o held
<1>11. /\ chunk \in Text
       /\ ReadChunk(s, chunk) = TakeLines(With(s, x), split.lines)
       /\ With(s, x) \in ReaderState
  <2>1. chunk \in Text BY <1>7 DEF Text
  <2> DEFINE y == SplitLines(SubSeq(buffer, 1, Len(buffer) - Len(Held(buffer))))
  <2>2. /\ ReadChunk(s, chunk) = TakeLines(With(s, y.rest \o Held(buffer)), y.lines)
        /\ With(s, y.rest \o Held(buffer)) \in ReaderState
    <3>. HIDE DEF s, chunk
    <3>. QED BY <1>6, <2>1, ReadChunkIs
  <2>3. y = split /\ Held(buffer) = held
    <3>. HIDE DEF buffer, w, held
    <3>. QED BY <1>9
  <2>. HIDE DEF y, split, held, buffer, s, chunk
  <2>. QED BY <2>1, <2>2, <2>3
<1>12. x \in Text /\ With(s, x) = With(e[a], x)
  <2>1. With(s, x) = With(e[a], x) BY DEF With, View, Whole, h
  <2>2. x = With(s, x).buffer BY DEF With
  <2>. HIDE DEF s, x
  <2>3. x \in Text BY <1>11, <2>2 DEF ReaderState
  <2>. QED BY <2>1, <2>3
<1>13. split.rest = e[b].buffer /\ TakeLines(With(e[a], x), split.lines) = With(e[b], x)
  <2>. HIDE DEF x, a, b
  <2>. QED BY <1>3, <1>4, <1>10, <1>12, SplitResumes DEF n
<1>14. With(e[b], x) = View(e, text, m)
  <2>1. x = e[b].buffer \o held BY <1>13
  <2>. HIDE DEF x
  <2>. QED BY SMTT(60), <2>1 DEF View, Whole, g
<1>. HIDE DEF s, x, split, chunk
<1>15. ReadChunk(s, chunk) = View(e, text, m) BY <1>11, <1>12, <1>13, <1>14
<1>. QED BY <1>15 DEF s, chunk

-----------------------------------------------------------------------------
(* Any cut of the text. *)

(* f is the trace of cutting a text. *)
Cuts(text, cuts, q, n, X, base) ==
  \E f \in [0..n -> X] :
    /\ f[0] = base /\ \A i \in 1..n : f[i] = CutBefore(f[i - 1], text, cuts, q[i])
    /\ base = <<>> /\ q = [i \in DOMAIN text |-> i] => CutAt(text, cuts) = f[n]

(* Cutting has a trace. *)
LEMMA CutTrace ==
  ASSUME NEW text, NEW cuts, NEW q, NEW n \in Nat, DOMAIN q = 1..n, NEW X, NEW base \in X,
         \A a \in X : \A i \in 1..n : CutBefore(a, text, cuts, q[i]) \in X
  PROVE  Cuts(text, cuts, q, n, X, base)
<1> DEFINE step == [p \in X \X (1..n) |-> CutBefore(p[1], text, cuts, q[p[2]])]
           Is(g) == g = [s \in SUBSET (1..n) |->
                          IF s = {} THEN base ELSE CutBefore(g[s \ {Max(s)}], text, cuts, q[Max(s)])]
<1>1. step \in [X \X (1..n) -> X] /\ \A a \in X : \A i \in 1..n : step[<<a, i>>] = CutBefore(a, text, cuts, q[i])
  OBVIOUS
<1>. HIDE DEF step
<1>2. PICK g \in [SUBSET (1..n) -> X] : Iterates(g, n, base, step)
  BY <1>1, IterationExists DEF HasIterate
<1>3. ASSUME NEW s \in SUBSET (1..n), s # {}
      PROVE  g[s] = CutBefore(g[s \ {Max(s)}], text, cuts, q[Max(s)])
  <2>1. Max(s) \in 1..n /\ g[s \ {Max(s)}] \in X BY <1>3, MaxOfUpTo
  <2>. QED BY <1>1, <1>2, <1>3, <2>1 DEF Iterates
<1> DEFINE it == CHOOSE h : Is(h)
<1>4. Is(it)
  <2>1. Is(g) BY <1>2, <1>3 DEF Iterates
  <2>. QED BY <2>1
<1>5. base = <<>> /\ q = [i \in DOMAIN text |-> i] => CutAt(text, cuts) = it[1..n]
  BY DEF CutAt, FoldLeft, MapThenFoldSet
<1>. HIDE DEF it
<1>6. Folded(it, n, X, base, step) BY <1>1, <1>4, MaxOfUpTo DEF Folded
<1>7. PICK f : Follows(f, n, X, base, step) /\ f[n] = it[1..n]
  <2>1. Traced(n, X, base, step, it[1..n]) BY <1>1, <1>6, FoldFollows
  <2>. QED BY <2>1 DEF Traced
<1>8. f \in [0..n -> X] /\ f[0] = base /\ \A i \in 1..n : f[i] = CutBefore(f[i - 1], text, cuts, q[i])
  <2>1. \A i \in 1..n : f[i - 1] \in X BY <1>7 DEF Follows
  <2>. QED BY <1>1, <1>7, <2>1 DEF Follows
<1>. QED BY <1>5, <1>7, <1>8 DEF Cuts

(* Before the first piece nothing has been read. *)
LEMMA ViewOfNothing ==
  ASSUME NEW text, NEW e, PieceByPiece(e, text)
  PROVE  View(e, text, 0) = NothingRead /\ NothingRead \in ReaderState
<1>1. Tip(text, 0) = 0 /\ Whole(text, 0) = 0 /\ e[0] = NothingRead
  BY DEF Tip, Whole, PieceByPiece
<1>2. NothingRead = [buffer |-> <<>>, event |-> <<>>, data |-> <<>>, frames |-> <<>>]
  BY DEF NothingRead
<1>3. NothingRead \in ReaderState BY <1>2 DEF ReaderState, Text, Frames
<1>4. NothingRead.buffer = <<>> /\ <<>> \o <<>> = <<>> BY <1>2
<1>5. With(NothingRead, <<>>) = NothingRead BY <1>2 DEF With
<1>6. View(e, text, 0) = With(NothingRead, <<>>)
  <2> DEFINE r == NothingRead.buffer
             c == IF Tip(text, 0) = 1 THEN <<CR>> ELSE <<>>
  <2>1. View(e, text, 0) = With(NothingRead, r \o c) BY <1>1 DEF View
  <2>2. c = <<>> /\ r = <<>> BY <1>1, <1>4
  <2>3. r \o c = <<>> BY <1>4, <2>2
  <2>. HIDE DEF r, c
  <2>. QED BY <2>1, <2>3
<1>. QED BY <1>3, <1>5, <1>6

(* The parts a text is cut into, after i of its pieces. *)
PartsUpTo(e, text, i) ==
  {p \in Seq(Text) : \/ i = 0 /\ p = <<>>
                     \/ /\ i > 0 /\ p # <<>>
                        /\ \E k \in 0..i : /\ ReadChunks(NothingRead, Front(p)) = View(e, text, k)
                                           /\ Last(p) = SubSeq(text, k + 1, i)}

(* Parts of the first pieces are read as those pieces. *)
LEMMA PartsReadAsWhole ==
  ASSUME NEW text \in Text, NEW e, PieceByPiece(e, text), NEW i \in 0 .. Len(text),
         NEW p \in PartsUpTo(e, text, i)
  PROVE  ReadChunks(NothingRead, p) = View(e, text, i)
<1>1. p \in Seq(Text) /\ <<>> \in Text /\ NothingRead \in ReaderState /\ View(e, text, 0) = NothingRead
  BY ViewOfNothing DEF PartsUpTo, Text
<1>2. CASE p = <<>>
  <2>1. i = 0 BY <1>2 DEF PartsUpTo
  <2>2. ReadChunks(NothingRead, <<>>) = NothingRead BY <1>1, ReadChunksAppend
  <2>. QED BY <1>1, <1>2, <2>1, <2>2
<1>3. CASE p # <<>>
  <2>1. PICK k \in 0..i : /\ ReadChunks(NothingRead, Front(p)) = View(e, text, k)
                          /\ Last(p) = SubSeq(text, k + 1, i)
    BY <1>3 DEF PartsUpTo
  <2>2. Front(p) \in Seq(Text) /\ Last(p) \in Text /\ p = Append(Front(p), Last(p))
    BY <1>1, <1>3 DEF Front, Last
  <2>3. ReadChunks(NothingRead, Append(Front(p), Last(p))) = ReadChunk(ReadChunks(NothingRead, Front(p)), Last(p))
    BY <1>1, <2>2, ReadChunksAppend
  <2>4. k \in 0 .. Len(text) /\ i \in k .. Len(text) BY DEF Text
  <2>5. ReadChunk(View(e, text, k), SubSeq(text, k + 1, i)) = View(e, text, i)
    BY <2>4, ChunkMovesOn
  <2>. QED BY <2>1, <2>2, <2>3, <2>5
<1>. QED BY <1>2, <1>3

(* The next piece makes a part of its own, or the last part longer. *)
LEMMA CutKeepsParts ==
  ASSUME NEW text \in Text, NEW e, PieceByPiece(e, text), NEW cuts, NEW i \in 1 .. Len(text),
         NEW p \in PartsUpTo(e, text, i - 1)
  PROVE  CutBefore(p, text, cuts, i) \in PartsUpTo(e, text, i)
<1> DEFINE x == text[i]
<1>1. p \in Seq(Text) /\ text \in Seq(STRING) /\ x \in STRING /\ i - 1 \in 0 .. Len(text) /\ Len(text) \in Nat /\ i - 1 \in Nat
  BY DEF PartsUpTo, Text
<1>2. CASE i - 1 \in cuts \/ p = <<>>
  <2> DEFINE one == <<x>>
             more == Append(p, one)
  <2>1. one \in Text BY <1>1, Alone DEF Text
  <2>2. one = SubSeq(text, i - 1 + 1, i)
    <3>1. i - 1 + 1 = i /\ SubSeq(text, i, i) = <<text[i]>> BY <1>1, OneOf
    <3>. QED BY <3>1
  <2>. HIDE DEF one
  <2>3. more \in Seq(Text) /\ more # <<>> /\ Front(more) = p /\ Last(more) = one
    BY <1>1, <2>1 DEF Front, Last
  <2>4. ReadChunks(NothingRead, p) = View(e, text, i - 1) BY <1>1, PartsReadAsWhole
  <2>5. CutBefore(p, text, cuts, i) = more BY <1>2 DEF CutBefore, one
  <2>. HIDE DEF more
  <2>6. i > 0 /\ i - 1 \in 0..i BY <1>1
  <2>. QED BY <2>2, <2>3, <2>4, <2>5, <2>6 DEF PartsUpTo
<1>3. CASE ~(i - 1 \in cuts \/ p = <<>>)
  <2>1. PICK k \in 0 .. i - 1 : /\ ReadChunks(NothingRead, Front(p)) = View(e, text, k)
                                /\ Last(p) = SubSeq(text, k + 1, i - 1)
    BY <1>3 DEF PartsUpTo
  <2> DEFINE c == Append(Last(p), x)
             f == Front(p)
             more == Append(f, c)
  <2>2. f \in Seq(Text) /\ Last(p) \in Seq(STRING) BY <1>1, <1>3 DEF Front, Last, Text
  <2>3. c \in Text
    <3> DEFINE z == Last(p)
    <3>1. x \in STRING /\ z \in Seq(STRING) BY <1>1, <2>2
    <3>. HIDE DEF x, z
    <3>2. Append(z, x) \in Seq(STRING) BY <3>1, AppendProperties
    <3>. QED BY <3>2 DEF Text, z
  <2>4. c = SubSeq(text, k + 1, i)
    <3>1. k + 1 \in 1 .. Len(text) /\ i \in k + 1 .. Len(text) BY <1>1
    <3>2. SubSeq(text, k + 1, i) = SubSeq(text, k + 1, i - 1) \o <<x>>
      BY <1>1, <3>1, SubSeqRecursiveSecond
    <3>3. c = Last(p) \o <<x>>
      <4>. HIDE DEF x
      <4>. QED BY <1>1, <2>2, AppendIsConcat
    <3>. QED BY <2>1, <3>2, <3>3
  <2>5. CutBefore(p, text, cuts, i) = more BY <1>3 DEF CutBefore
  <2>. HIDE DEF c, f, x
  <2>6. more \in Seq(Text) /\ more # <<>> /\ Front(more) = f /\ Last(more) = c
    BY <2>2, <2>3 DEF Front, Last
  <2>. HIDE DEF more
  <2>7. i > 0 /\ k \in 0..i BY <1>1
  <2>8. ReadChunks(NothingRead, f) = View(e, text, k) BY <2>1 DEF f
  <2>. QED BY <2>4, <2>5, <2>6, <2>7, <2>8 DEF PartsUpTo
<1>. QED BY <1>2, <1>3

(* Reading a text cut anywhere is reading it whole. *)
LEMMA CutsDoNotShow ==
  ASSUME NEW text \in Text, NEW e, PieceByPiece(e, text)
  PROVE  /\ ReadSse(<<text>>) = View(e, text, Len(text)).frames
         /\ \A cuts : ReadSse(CutAt(text, cuts)) = View(e, text, Len(text)).frames
<1> DEFINE n == Len(text)
<1>1. n \in Nat /\ n \in 0..n /\ text \in Seq(STRING) BY DEF Text
<1>2. ReadSse(<<text>>) = View(e, text, n).frames
  <2>1. <<>> \in Seq(Text) /\ <<text>> = Append(<<>>, text) /\ NothingRead \in ReaderState /\ NothingRead = View(e, text, 0)
    BY ViewOfNothing
  <2>2. ReadChunks(NothingRead, <<>>) = NothingRead BY <2>1, ReadChunksAppend
  <2>3. ReadChunks(NothingRead, Append(<<>>, text)) = ReadChunk(ReadChunks(NothingRead, <<>>), text)
    BY <2>1, ReadChunksAppend
  <2>4. ReadChunk(View(e, text, 0), SubSeq(text, 0 + 1, n)) = View(e, text, n)
    <3>1. 0 \in 0 .. Len(text) /\ Len(text) \in 0 .. Len(text) BY <1>1
    <3>. QED BY <3>1, ChunkMovesOn
  <2>5. SubSeq(text, 0 + 1, n) = text BY <1>1
  <2>6. ReadChunks(NothingRead, <<text>>) = View(e, text, n) BY <2>1, <2>2, <2>3, <2>4, <2>5
  <2>. QED BY <2>6 DEF ReadSse
<1>3. ASSUME NEW cuts PROVE ReadSse(CutAt(text, cuts)) = View(e, text, n).frames
  <2> DEFINE q == [i \in DOMAIN text |-> i]
             base == <<>>
             X == UNION {PartsUpTo(e, text, i) : i \in 0..n}
             Y == Seq(Text)
  <2>1. DOMAIN q = 1..n /\ \A i \in 1..n : q[i] = i BY <1>1
  <2>2. base \in Y /\ base \in PartsUpTo(e, text, 0) BY DEF PartsUpTo
  <2>3. \A p \in Y : \A i \in 1..n : CutBefore(p, text, cuts, i) \in Y
    <3>. SUFFICES ASSUME NEW p \in Seq(Text), NEW i \in 1..n PROVE CutBefore(p, text, cuts, i) \in Seq(Text)
      OBVIOUS
    <3> DEFINE x == text[i]
    <3>1. x \in STRING BY <1>1
    <3>. HIDE DEF x
    <3>2. <<x>> \in Text BY <3>1, Alone DEF Text
    <3>3. CASE p = <<>> \/ i - 1 \in cuts
      <4> DEFINE one == <<x>>
      <4>1. CutBefore(p, text, cuts, i) = Append(p, one) BY <3>3 DEF CutBefore, x
      <4>2. one \in Text BY <3>2
      <4>. HIDE DEF one
      <4>. QED BY <4>1, <4>2
    <3>4. CASE ~(p = <<>> \/ i - 1 \in cuts)
      <4>1. Front(p) \in Seq(Text) /\ Last(p) \in Seq(STRING) BY <3>4 DEF Front, Last, Text
      <4>2. Append(Last(p), x) \in Text
        <5> DEFINE z == Last(p)
        <5>1. z \in Seq(STRING) BY <4>1
        <5>. HIDE DEF z
        <5>2. Append(z, x) \in Seq(STRING) BY <3>1, <5>1, AppendProperties
        <5>. QED BY <5>2 DEF Text, z
      <4> DEFINE y == Append(Last(p), x)
      <4>3. CutBefore(p, text, cuts, i) = Append(Front(p), y) BY <3>4 DEF CutBefore, x
      <4>. HIDE DEF y
      <4>. QED BY <4>1, <4>2, <4>3 DEF y
    <3>. QED BY <3>3, <3>4
  <2>4. q = [i \in DOMAIN text |-> i] /\ base = <<>> OBVIOUS
  <2>. HIDE DEF q, base, Y, n
  <2>5. \A p \in Y : \A i \in 1..n : CutBefore(p, text, cuts, q[i]) \in Y BY <2>1, <2>3
  <2>6. Cuts(text, cuts, q, n, Y, base) BY <1>1, <2>1, <2>2, <2>5, CutTrace
  <2>7. PICK f \in [0..n -> Y] : /\ f[0] = base /\ \A i \in 1..n : f[i] = CutBefore(f[i - 1], text, cuts, q[i])
                                 /\ CutAt(text, cuts) = f[n]
    BY <2>4, <2>6 DEF Cuts
  <2> DEFINE Good == {i \in 0..n : f[i] \in PartsUpTo(e, text, i)}
  <2>8. 0 \in Good BY <1>1, <2>2, <2>7
  <2>9. ASSUME NEW i \in 1..n, i - 1 \in Good PROVE i \in Good
    <3>1. f[i - 1] \in PartsUpTo(e, text, i - 1) /\ i \in 0..n BY <2>9
    <3>2. CutBefore(f[i - 1], text, cuts, i) \in PartsUpTo(e, text, i)
      BY <3>1, CutKeepsParts DEF n
    <3>. QED BY <2>1, <2>7, <3>1, <3>2
  <2>10. \A i \in 1..n : i - 1 \in Good => i \in Good BY <2>9
  <2>11. \A i \in 0..n : i \in Good
    <3>. HIDE DEF Good
    <3>. QED BY <1>1, <2>8, <2>10, InductionUpTo
  <2>12. f[n] \in PartsUpTo(e, text, n) BY <1>1, <2>11
  <2>13. ReadChunks(NothingRead, CutAt(text, cuts)) = View(e, text, n)
    <3> DEFINE p == f[n]
    <3>1. n \in 0 .. Len(text) /\ p \in PartsUpTo(e, text, n) BY <1>1, <2>12 DEF n
    <3>. HIDE DEF p
    <3>2. ReadChunks(NothingRead, p) = View(e, text, n) BY <3>1, PartsReadAsWhole
    <3>. QED BY <2>7, <3>2 DEF p
  <2>. QED BY <2>13 DEF ReadSse
<1>. QED BY <1>2, <1>3

-----------------------------------------------------------------------------
(* The lines of data. *)

(* A sequence and one more. *)
LEMMA AppendIs ==
  ASSUME NEW V, NEW s \in Seq(V), NEW x \in V
  PROVE  LET more == Append(s, x)
             n == Len(s)
         IN /\ n \in Nat /\ DOMAIN s = 1..n /\ s \in [1..n -> V]
            /\ more \in Seq(V) /\ Len(more) = n + 1 /\ DOMAIN more = 1 .. n + 1
            /\ more \in [1 .. n + 1 -> V]
            /\ more[n + 1] = x /\ \A i \in 1..n : more[i] = s[i]
<1> DEFINE more == Append(s, x)
           n == Len(s)
<1>1. n \in Nat /\ DOMAIN s = 1..n /\ s \in [1..n -> V] BY LenProperties
<1>2. more \in Seq(V) /\ Len(more) = n + 1 /\ more[n + 1] = x /\ \A i \in 1..n : more[i] = s[i]
  BY AppendProperties
<1>. HIDE DEF more
<1>3. DOMAIN more = 1 .. Len(more) /\ more \in [1 .. Len(more) -> V] BY <1>2, LenProperties
<1>. QED BY <1>1, <1>2, <1>3 DEF more

(* Joining a sequence of sequences and one more. *)
LEMMA FlattenAppend ==
  ASSUME NEW V, NEW xs \in Seq(Seq(V)), NEW x \in Seq(V)
  PROVE  /\ FlattenSeq(xs) \in Seq(V) /\ FlattenSeq(<<>>) = <<>>
         /\ FlattenSeq(Append(xs, x)) = FlattenSeq(xs) \o x
<1> DEFINE n == Len(xs)
           k == n + 1
           more == Append(xs, x)
           W == Seq(V)
<1>1. n \in Nat /\ xs \in [1..n -> W] /\ DOMAIN xs = 1..n OBVIOUS
<1>2. /\ more \in [1..k -> W] /\ Len(more) = k /\ more[k] = x
      /\ \A i \in 1..n : more[i] = xs[i]
  <2>. HIDE DEF W
  <2>1. xs \in Seq(W) /\ x \in W BY DEF W
  <2>. QED BY <2>1, AppendIs
<1>3. FlattenSeq(<<>>) = <<>> BY DEF FlattenSeq
<1>. HIDE DEF more
<1>4. PICK g \in [1..k -> W] : g[1] = more[1] /\ (\A i \in 2..k : g[i] = g[i - 1] \o more[i]) /\ FlattenSeq(more) = g[k]
  <2>1. k \in Nat \ {0} /\ k > 0 BY <1>1
  <2>. HIDE DEF k
  <2>2. HasFlat(V, more, k) BY <1>2, <2>1, FlatExists
  <2>. QED BY <2>1, <2>2 DEF HasFlat, Flattens
<1>5. CASE n = 0
  <2>1. xs = <<>> /\ k = 1 BY <1>5
  <2>2. FlattenSeq(more) = x BY <1>2, <1>4, <2>1
  <2>3. <<>> \o x = x /\ <<>> \in Seq(V) OBVIOUS
  <2>. QED BY <1>3, <2>1, <2>2, <2>3 DEF more
<1>6. CASE n # 0
  <2>1. n \in Nat \ {0} /\ n > 0 BY <1>1, <1>6
  <2>. HIDE DEF n
  <2>2. HasFlat(V, xs, n) BY <1>1, <2>1, FlatExists
  <2>3. PICK f \in [1..n -> W] : f[1] = xs[1] /\ (\A i \in 2..n : f[i] = f[i - 1] \o xs[i]) /\ FlattenSeq(xs) = f[n]
    BY <2>1, <2>2 DEF HasFlat, Flattens
  <2> DEFINE S == {i \in 0..n : i = 0 \/ g[i] = f[i]}
  <2>4. \A i \in 1..n : i - 1 \in S => i \in S
    <3>. SUFFICES ASSUME NEW i \in 1..n, i - 1 \in S PROVE g[i] = f[i] OBVIOUS
    <3>1. CASE i = 1 BY <1>2, <1>4, <2>3, <3>1
    <3>2. CASE i # 1
      <4>1. i \in 2..n /\ i \in 2..k /\ i - 1 # 0 /\ more[i] = xs[i]
        BY SMTT(60), <1>2, <3>2, <2>1
      <4>. QED BY <1>4, <2>3, <4>1
    <3>. QED BY <3>1, <3>2
  <2>5. \A i \in 0..n : i \in S
    <3>1. 0 \in S BY <2>1
    <3>. HIDE DEF S
    <3>. QED BY <2>1, <2>4, <3>1, InductionUpTo
  <2>6. g[n] = f[n] /\ f[n] \in Seq(V) BY <2>1, <2>3, <2>5
  <2>7. g[k] = g[n] \o x
    <3>1. k \in 2..k /\ k - 1 = n BY <2>1
    <3>. QED BY <1>2, <1>4, <3>1
  <2>. QED BY <1>3, <1>4, <2>3, <2>6, <2>7 DEF more
<1>. QED BY <1>1, <1>5, <1>6

(* The lines of data a state holds: in its frames, in the frame that grows, *)
(* and in the line that is not at its end.                                  *)
Delivered(frames) == Len(FlattenSeq([i \in DOMAIN frames |-> frames[i].data]))

(* One if the line at the end of what came is one of data. *)
Begun(buffer) == IF buffer # <<>> /\ buffer[1] = "data:" THEN 1 ELSE 0

(* The lines of data among the first i pieces. *)
Offered(text, i) == Cardinality({j \in 1..i : text[j] = "data:"})

(* A frame more delivers its own lines. *)
LEMMA DeliveredGrows ==
  ASSUME NEW frames \in Frames, NEW f \in [event : Text, data : Seq(Text)]
  PROVE  /\ Delivered(frames) \in Nat /\ Delivered(<<>>) = 0
         /\ Delivered(Append(frames, f)) = Delivered(frames) + Len(f.data)
<1> DEFINE W == Seq(Text)
           R == [event : Text, data : W]
           datas == [i \in DOMAIN frames |-> frames[i].data]
           more == Append(frames, f)
           n == Len(frames)
<1>1. /\ n \in Nat /\ DOMAIN frames = 1..n /\ \A i \in 1..n : frames[i] \in R
      /\ DOMAIN more = 1 .. n + 1 /\ more[n + 1] = f /\ \A i \in 1..n : more[i] = frames[i]
  <2>. HIDE DEF R
  <2>1. frames \in Seq(R) /\ f \in R BY DEF Frames, R
  <2>2. /\ n \in Nat /\ DOMAIN frames = 1..n /\ frames \in [1..n -> R]
        /\ DOMAIN more = 1 .. n + 1 /\ more[n + 1] = f /\ \A i \in 1..n : more[i] = frames[i]
    BY <2>1, AppendIs
  <2>. QED BY <2>2
<1>2. f.data \in W /\ \A i \in 1..n : frames[i].data \in W BY <1>1
<1>. HIDE DEF W
<1>3. datas \in [1..n -> W] BY <1>1, <1>2
<1>4. datas \in Seq(W) /\ Len(datas) = n BY <1>1, <1>3
<1>5. [i \in DOMAIN more |-> more[i].data] = Append(datas, f.data)
  <2> DEFINE l == [i \in DOMAIN more |-> more[i].data]
             r == Append(datas, f.data)
  <2>1. l \in [1 .. n + 1 -> W] BY <1>1, <1>2
  <2>2. r \in [1 .. n + 1 -> W]
    <3>. HIDE DEF datas
    <3>. QED BY <1>2, <1>4, AppendIs
  <2>3. \A i \in 1 .. n + 1 : l[i] = r[i]
    <3>1. \A i \in 1..n : l[i] = frames[i].data /\ datas[i] = frames[i].data BY <1>1
    <3>2. l[n + 1] = f.data BY <1>1
    <3>. HIDE DEF l, datas
    <3>3. (\A i \in 1..n : r[i] = datas[i]) /\ r[n + 1] = f.data BY <1>2, <1>4
    <3>. HIDE DEF r
    <3>4. \A i \in 1 .. n + 1 : i \in 1..n \/ i = n + 1 BY <1>1
    <3>. QED BY <3>1, <3>2, <3>3, <3>4
  <2>. HIDE DEF l, r
  <2>4. l = r BY <2>1, <2>2, <2>3
  <2>. QED BY <2>4 DEF l, r
<1> DEFINE x == f.data
<1>6. FlattenSeq(datas) \in Seq(Text) /\ FlattenSeq(<<>>) = <<>> /\ FlattenSeq(Append(datas, x)) = FlattenSeq(datas) \o x
  <2>. HIDE DEF datas, x
  <2>1. datas \in Seq(Seq(Text)) /\ x \in Seq(Text) BY <1>2, <1>4 DEF W, x
  <2>. QED BY <2>1, FlattenAppend
<1>7. Len(FlattenSeq(datas)) \in Nat
  <2>. HIDE DEF datas
  <2>. QED BY <1>6, LenProperties
<1>8. Len(FlattenSeq(datas) \o x) = Len(FlattenSeq(datas)) + Len(x)
  <2> DEFINE d == FlattenSeq(datas)
  <2>1. d \in Seq(Text) /\ x \in Seq(Text) BY <1>2, <1>6 DEF W
  <2>. HIDE DEF d, x
  <2>2. Len(d \o x) = Len(d) + Len(x) BY <2>1, ConcatProperties
  <2>. QED BY <2>2 DEF d
<1>9. Delivered(<<>>) = 0
  <2> DEFINE z == <<>>
             zs == [i \in DOMAIN z |-> z[i].data]
  <2>1. zs = <<>> OBVIOUS
  <2>. HIDE DEF zs
  <2>2. Len(FlattenSeq(zs)) = 0 BY <1>6, <2>1
  <2>. QED BY <2>2 DEF zs, Delivered
<1>. QED BY <1>5, <1>6, <1>7, <1>8, <1>9 DEF Delivered

(* A piece more offers at most one line. *)
LEMMA OfferedGrows ==
  ASSUME NEW text, NEW i \in Nat
  PROVE  /\ Offered(text, i) \in Nat /\ Offered(text, 0) = 0
         /\ Offered(text, i + 1) = Offered(text, i) + (IF text[i + 1] = "data:" THEN 1 ELSE 0)
<1> DEFINE D(k) == {j \in 1..k : text[j] = "data:"}
<1>1. IsFiniteSet(D(i)) /\ Cardinality(D(i)) \in Nat
  <2>1. IsFiniteSet(1..i) /\ D(i) \subseteq 1..i BY FS_Interval
  <2>. HIDE DEF D
  <2>2. IsFiniteSet(D(i)) BY <2>1, FS_Subset
  <2>. QED BY <2>2, FS_CardinalityType
<1>2. D(0) = {} /\ Cardinality({}) = 0
  <2>1. D(0) = {} OBVIOUS
  <2>. QED BY <2>1, FS_EmptySet
<1>3. CASE text[i + 1] = "data:"
  <2>1. D(i + 1) = D(i) \cup {i + 1} /\ i + 1 \notin D(i) BY <1>3
  <2>. HIDE DEF D
  <2>2. Cardinality(D(i + 1)) = Cardinality(D(i)) + 1 BY <1>1, <2>1, FS_AddElement
  <2>. QED BY <1>1, <1>2, <1>3, <2>2 DEF Offered, D
<1>4. CASE text[i + 1] # "data:"
  <2>1. D(i + 1) = D(i) BY <1>4
  <2>. QED BY <1>1, <1>2, <1>4, <2>1 DEF Offered
<1>. QED BY <1>3, <1>4

(* All the lines of data a state holds. *)
DataLines(s) == Delivered(s.frames) + Len(s.data) + Begun(s.buffer)

(* They are a number. *)
LEMMA StateLines ==
  ASSUME NEW s \in ReaderState
  PROVE  /\ Delivered(s.frames) \in Nat /\ Len(s.data) \in Nat /\ Begun(s.buffer) \in {0, 1}
         /\ DataLines(s) \in Nat
<1>1. s.frames \in Frames /\ s.data \in Seq(Text) BY DEF ReaderState
<1>2. Delivered(s.frames) \in Nat
  <2> DEFINE f == [event |-> <<>>, data |-> <<>>]
  <2>1. f \in [event : Text, data : Seq(Text)] BY DEF Text
  <2>. HIDE DEF f
  <2>. QED BY <1>1, <2>1, DeliveredGrows
<1>3. Len(s.data) \in Nat BY <1>1
<1>4. Begun(s.buffer) \in {0, 1} BY DEF Begun
<1>. QED BY <1>2, <1>3, <1>4 DEF DataLines

(* Taking a line adds no line of data. *)
LEMMA LineKeepsData ==
  ASSUME NEW s \in ReaderState
  PROVE  LET t == With(TakeLine(s, s.buffer), <<>>)
         IN t \in ReaderState /\ DataLines(t) <= DataLines(s)
<1> DEFINE line == s.buffer
           x == TakeLine(s, line)
           t == With(x, <<>>)
<1>1. line \in Text /\ s.data \in Seq(Text) /\ s.frames \in Frames /\ s.event \in Text /\ <<>> \in Text
  BY DEF ReaderState, Text
<1>2. /\ x \in ReaderState
      /\ x = IF line = <<>>
             THEN [buffer |-> s.buffer, event |-> <<>>, data |-> <<>>,
                   frames |-> IF s.data = <<>> THEN s.frames
                              ELSE Append(s.frames, [event |-> s.event, data |-> s.data])]
             ELSE [buffer |-> s.buffer,
                   event |-> IF line[1] # "data:" /\ line[1] = "event:" THEN Tail(line) ELSE s.event,
                   data |-> IF line[1] = "data:" THEN Append(s.data, Tail(line)) ELSE s.data,
                   frames |-> s.frames]
  BY <1>1, TakeLineIs
<1>. HIDE DEF x, line
<1>3. t \in ReaderState /\ t.frames = x.frames /\ t.data = x.data /\ t.buffer = <<>>
  BY <1>1, <1>2, WithIs DEF With
<1>. HIDE DEF t
<1>4. Delivered(s.frames) \in Nat /\ Len(s.data) \in Nat /\ Begun(s.buffer) \in {0, 1}
  BY StateLines
<1>5. DataLines(t) = Delivered(x.frames) + Len(x.data)
  <2>1. Begun(<<>>) = 0 BY DEF Begun
  <2>2. Delivered(t.frames) \in Nat /\ Len(t.data) \in Nat BY <1>3, StateLines
  <2>. QED BY <1>3, <2>1, <2>2 DEF DataLines
<1>6. DataLines(t) <= DataLines(s)
  <2>1. DataLines(s) = Delivered(s.frames) + Len(s.data) + Begun(s.buffer) BY DEF DataLines
  <2>2. CASE line = <<>> /\ s.data = <<>>
    <3>1. x.frames = s.frames /\ x.data = <<>> /\ Len(<<>>) = 0 BY <1>2, <2>2
    <3>. QED BY <1>3, <1>4, <1>5, <3>1, <2>1
  <2>3. CASE line = <<>> /\ s.data # <<>>
    <3> DEFINE f == [event |-> s.event, data |-> s.data]
    <3>1. x.frames = Append(s.frames, f) /\ x.data = <<>> /\ Len(<<>>) = 0 BY <1>2, <2>3
    <3>2. f \in [event : Text, data : Seq(Text)] /\ f.data = s.data BY <1>1
    <3>. HIDE DEF f
    <3>3. Delivered(x.frames) = Delivered(s.frames) + Len(s.data)
      BY <1>1, <3>1, <3>2, DeliveredGrows
    <3>. QED BY <1>3, <1>4, <1>5, <3>1, <3>3, <2>1
  <2>4. CASE line # <<>> /\ line[1] = "data:"
    <3> DEFINE y == Tail(line)
    <3>1. x.frames = s.frames /\ x.data = Append(s.data, y) BY <1>2, <2>4
    <3>2. y \in Text BY <1>1, <2>4 DEF Text
    <3>. HIDE DEF y
    <3>3. Len(Append(s.data, y)) = Len(s.data) + 1 BY <1>1, <3>2, AppendProperties
    <3>4. Begun(s.buffer) = 1 BY <2>4 DEF Begun, line
    <3>. QED BY <1>3, <1>4, <1>5, <3>1, <3>3, <3>4, <2>1
  <2>5. CASE line # <<>> /\ line[1] # "data:"
    <3>1. x.frames = s.frames /\ x.data = s.data BY <1>2, <2>5
    <3>. QED BY <1>3, <1>4, <1>5, <3>1, <2>1
  <2>. QED BY <2>2, <2>3, <2>4, <2>5
<1>. QED BY <1>3, <1>6 DEF t, x, line

(* No line of data is read twice. *)
LEMMA DataIsReadOnce ==
  ASSUME NEW text \in Text, NEW e, PieceByPiece(e, text)
  PROVE  \A i \in 0 .. Len(text) : e[i] \in ReaderState /\ DataLines(e[i]) <= Offered(text, i)
<1> DEFINE n == Len(text)
           S == {i \in 0..n : DataLines(e[i]) <= Offered(text, i)}
<1>1. /\ n \in Nat /\ e \in [0..n -> ReaderState] /\ e[0] = NothingRead
      /\ \A i \in 1..n : e[i] = ReadPiece(e[i - 1], text, i)
      /\ \A i \in 1..n : text[i] \in STRING
  BY DEF PieceByPiece, Text
<1>. HIDE DEF n
<1>2. 0 \in S
  <2>1. DataLines(NothingRead) = 0
    <3>1. NothingRead.buffer = <<>> /\ NothingRead.data = <<>> /\ NothingRead.frames = <<>>
      BY DEF NothingRead
    <3>2. Delivered(<<>>) = 0
      <4> DEFINE f == [event |-> <<>>, data |-> <<>>]
                 fs == <<>>
      <4>1. f \in [event : Text, data : Seq(Text)] /\ fs \in Frames BY DEF Text, Frames
      <4>. HIDE DEF f, fs
      <4>. QED BY <4>1, DeliveredGrows
    <3>3. Begun(<<>>) = 0 /\ Len(<<>>) = 0 BY DEF Begun
    <3>. QED BY <3>1, <3>2, <3>3 DEF DataLines
  <2>2. Offered(text, 0) \in Nat BY OfferedGrows
  <2>. QED BY <1>1, <2>1, <2>2
<1>3. ASSUME NEW i \in 1..n, i - 1 \in S PROVE i \in S
  <2> DEFINE s == e[i - 1]
             t == e[i]
             c == text[i]
             k == i - 1
  <2>1. k \in 0..n /\ k \in Nat /\ i \in 0..n /\ k + 1 = i BY <1>1
  <2>2. s \in ReaderState /\ t = ReadPiece(s, text, i) /\ DataLines(s) <= Offered(text, k) /\ c \in STRING
    BY <1>1, <1>3, <2>1
  <2>3. /\ Offered(text, k) \in Nat
        /\ Offered(text, i) = Offered(text, k) + (IF c = "data:" THEN 1 ELSE 0)
    BY <2>1, OfferedGrows
  <2>4. DataLines(s) \in Nat /\ s.buffer \in Text /\ <<>> \in Text
    BY <2>2, StateLines DEF ReaderState, Text
  <2>. HIDE DEF s, t, c, k
  <2>5. DataLines(t) \in Nat /\ DataLines(t) <= DataLines(s) + (IF c = "data:" THEN 1 ELSE 0)
    <3>1. CASE t = s BY <2>4, <3>1
    <3>2. CASE t = With(TakeLine(s, s.buffer), <<>>)
      <4>1. t \in ReaderState /\ DataLines(t) <= DataLines(s) BY <2>2, <3>2, LineKeepsData
      <4>2. DataLines(t) \in Nat BY <4>1, StateLines
      <4>. QED BY <2>4, <4>1, <4>2
    <3>3. CASE t = With(s, Append(s.buffer, c))
      <4> DEFINE b == Append(s.buffer, c)
      <4>1. b \in Text /\ b # <<>> /\ b[1] = IF s.buffer = <<>> THEN c ELSE s.buffer[1]
        <5>1. s.buffer \in Seq(STRING) /\ c \in STRING BY <2>2, <2>4 DEF Text
        <5> DEFINE u == s.buffer
        <5>. HIDE DEF u
        <5>2. /\ Append(u, c) \in Seq(STRING) /\ Append(u, c) # <<>> /\ Append(u, c)[Len(u) + 1] = c
              /\ \A j \in 1 .. Len(u) : Append(u, c)[j] = u[j]
          BY <5>1, AppendProperties DEF u
        <5>3. Len(u) \in Nat /\ (u = <<>> <=> Len(u) = 0) BY <5>1 DEF u
        <5>4. CASE u = <<>>
          <6>1. Len(u) + 1 = 1 BY <5>3, <5>4
          <6>. QED BY <5>2, <5>4, <6>1 DEF u, Text
        <5>5. CASE u # <<>>
          <6>1. 1 \in 1 .. Len(u) BY <5>3, <5>5
          <6>. QED BY <5>2, <5>5, <6>1 DEF u, Text
        <5>. QED BY <5>4, <5>5
      <4>. HIDE DEF b
      <4>2. t.frames = s.frames /\ t.data = s.data /\ t.buffer = b BY <3>3 DEF With, b
      <4>3. Begun(b) <= Begun(s.buffer) + (IF c = "data:" THEN 1 ELSE 0) /\ Begun(b) \in {0, 1}
        BY <4>1 DEF Begun
      <4>4. Delivered(s.frames) \in Nat /\ Len(s.data) \in Nat /\ Begun(s.buffer) \in {0, 1}
        BY <2>2, StateLines
      <4>5. DataLines(t) = Delivered(s.frames) + Len(s.data) + Begun(b) /\ DataLines(s) = Delivered(s.frames) + Len(s.data) + Begun(s.buffer)
        BY <4>2 DEF DataLines
      <4>. QED BY <4>3, <4>4, <4>5
    <3>4. t = s \/ t = With(TakeLine(s, s.buffer), <<>>) \/ t = With(s, Append(s.buffer, c))
      BY <2>2 DEF ReadPiece, c
    <3>. QED BY <3>1, <3>2, <3>3, <3>4
  <2>6. DataLines(t) <= Offered(text, i) BY <2>2, <2>3, <2>4, <2>5
  <2>. QED BY <2>1, <2>6 DEF t
<1>4. \A i \in 1..n : i - 1 \in S => i \in S BY <1>3
<1>5. \A i \in 0..n : i \in S
  <2>. HIDE DEF S
  <2>. QED BY <1>1, <1>2, <1>4, InductionUpTo
<1>. QED BY <1>1, <1>5 DEF n

(* readSse reads the same frames of a text of any length however it is cut, *)
(* and delivers no line of data twice.                                     *)
THEOREM FramesOfText ==
  ASSUME NEW text \in Text
  PROVE  LET frames == ReadSse(<<text>>)
             data == FlattenSeq([i \in DOMAIN frames |-> frames[i].data])
         IN /\ \A cuts : ReadSse(CutAt(text, cuts)) = frames
            /\ Len(data) <= Cardinality({i \in DOMAIN text : text[i] = "data:"})
<1> DEFINE n == Len(text)
           frames == ReadSse(<<text>>)
<1>1. PICK e : PieceByPiece(e, text) BY PiecesExist DEF HasPieces
<1>2. frames = View(e, text, n).frames /\ \A cuts : ReadSse(CutAt(text, cuts)) = View(e, text, n).frames
  BY <1>1, CutsDoNotShow
<1>. HIDE DEF frames
<1>3. Delivered(frames) <= Offered(text, n)
  <2> DEFINE h == Tip(text, n)
             b == n - h
  <2>1. n \in Nat /\ n \in 0..n /\ h \in {0, 1} /\ Whole(text, n) \in 0..n
    BY <1>1, ViewIs DEF Text
  <2>2. View(e, text, n).frames = e[Whole(text, n)].frames /\ Whole(text, n) = b
    BY DEF View, With, Whole
  <2>. HIDE DEF h
  <2>3. b \in 0..n /\ b \in Nat BY <2>1, <2>2
  <2>4. e[b] \in ReaderState /\ DataLines(e[b]) <= Offered(text, b)
    BY <1>1, <2>3, DataIsReadOnce
  <2>5. Delivered(e[b].frames) <= DataLines(e[b]) /\ Delivered(e[b].frames) \in Nat /\ DataLines(e[b]) \in Nat
    <3>1. Delivered(e[b].frames) \in Nat /\ Len(e[b].data) \in Nat /\ Begun(e[b].buffer) \in {0, 1}
      BY <2>4, StateLines
    <3>. QED BY <3>1 DEF DataLines
  <2>6. Offered(text, b) \in Nat /\ Offered(text, n) \in Nat /\ Offered(text, b) <= Offered(text, n)
    <3>1. CASE h = 0 BY <2>1, <3>1, OfferedGrows
    <3>2. CASE h = 1
      <4>1. b + 1 = n BY <2>1, <3>2
      <4>2. /\ Offered(text, b) \in Nat
            /\ Offered(text, b + 1) = Offered(text, b) + (IF text[b + 1] = "data:" THEN 1 ELSE 0)
        <5>. HIDE DEF b
        <5>. QED BY <2>3, OfferedGrows
      <4>. QED BY <4>1, <4>2
    <3>. QED BY <2>1, <3>1, <3>2
  <2>. QED BY <1>2, <2>2, <2>4, <2>5, <2>6
<1>4. DOMAIN text = 1..n BY DEF Text
<1>5. \A cuts : ReadSse(CutAt(text, cuts)) = frames BY <1>2
<1>. QED BY <1>3, <1>4, <1>5 DEF Delivered, Offered, frames

-----------------------------------------------------------------------------
(* Sums and counts over finite sets. *)

(* Induction over the subsets of a finite set. *)
LEMMA FiniteInduction ==
  ASSUME NEW S, IsFiniteSet(S), NEW G, {} \in G,
         \A T \in SUBSET S : T # {} /\ (\A x \in T : T \ {x} \in G) => T \in G
  PROVE  \A T \in SUBSET S : T \in G
<1> DEFINE n == Cardinality(S)
           K == {k \in 0..n : \A T \in SUBSET S : Cardinality(T) = k => T \in G}
<1>1. n \in Nat /\ \A T \in SUBSET S : IsFiniteSet(T) /\ Cardinality(T) \in 0..n
  BY FS_Subset, FS_CardinalityType
<1>2. 0 \in K BY <1>1, FS_EmptySet
<1>3. ASSUME NEW k \in 1..n, k - 1 \in K PROVE k \in K
  <2>. SUFFICES ASSUME NEW T \in SUBSET S, Cardinality(T) = k PROVE T \in G OBVIOUS
  <2>1. T # {}
    <3>1. Cardinality({}) = 0 /\ k # 0 BY <1>1, FS_EmptySet
    <3>. QED BY <3>1
  <2>2. \A x \in T : Cardinality(T \ {x}) = k - 1 /\ T \ {x} \in SUBSET S
    BY <1>1, FS_RemoveElement
  <2>. QED BY <1>3, <2>1, <2>2
<1>4. \A k \in 1..n : k - 1 \in K => k \in K BY <1>3
<1>5. \A k \in 0..n : k \in K
  <2>. HIDE DEF K, n
  <2>. QED BY <1>1, <1>2, <1>4, InductionUpTo
<1>. QED BY <1>1, <1>5

(* The sums that Total goes through, from the empty set to the whole domain. *)
Sums(g, f, S) ==
  \A s \in SUBSET S : g[s] = IF s = {} THEN 0
                             ELSE f[CHOOSE x \in s : TRUE] + g[s \ {CHOOSE x \in s : TRUE}]

(* There are such sums of up to n elements. *)
HasSums(V, f, S, n) ==
  \E g \in [{s \in SUBSET S : Cardinality(s) <= n} -> V] :
    \A s \in {s \in SUBSET S : Cardinality(s) <= n} :
      g[s] = IF s = {} THEN 0
             ELSE f[CHOOSE x \in s : TRUE] + g[s \ {CHOOSE x \in s : TRUE}]

(* Any numbers have sums. *)
LEMMA SumsExist ==
  ASSUME NEW V \in {Nat, Int}, NEW S, IsFiniteSet(S), NEW f \in [S -> V]
  PROVE  \E g \in [SUBSET S -> V] : Sums(g, f, S)
<1> DEFINE n == Cardinality(S)
           P(k) == {s \in SUBSET S : Cardinality(s) <= k}
           one(s) == CHOOSE x \in s : TRUE
           K == {k \in 0..n : HasSums(V, f, S, k)}
<1>0. 0 \in V /\ \A a, b \in V : a + b \in V OBVIOUS
<1>1. /\ n \in Nat
      /\ \A T \in SUBSET S : /\ IsFiniteSet(T) /\ Cardinality(T) \in 0..n
                             /\ (T = {} <=> Cardinality(T) = 0)
  BY FS_Subset, FS_CardinalityType, FS_EmptySet
<1>2. ASSUME NEW s \in SUBSET S, s # {}
      PROVE  /\ one(s) \in s /\ s \ {one(s)} \in SUBSET S
             /\ Cardinality(s \ {one(s)}) = Cardinality(s) - 1
  <2>1. one(s) \in s BY <1>2
  <2>. HIDE DEF one
  <2>. QED BY <1>1, <2>1, FS_RemoveElement
<1>3. 0 \in K
  <2>1. P(0) = {{}} BY <1>1
  <2> DEFINE g == [s \in P(0) |-> 0]
  <2>2. g \in [P(0) -> V] /\ \A s \in P(0) : s = {} /\ g[s] = 0 BY <1>0, <2>1
  <2>. HIDE DEF g
  <2>3. HasSums(V, f, S, 0) BY <2>2 DEF HasSums
  <2>. QED BY <1>1, <2>3
<1>4. ASSUME NEW k \in 1..n, k - 1 \in K PROVE k \in K
  <2>1. PICK g \in [P(k - 1) -> V] :
          \A s \in P(k - 1) : g[s] = IF s = {} THEN 0 ELSE f[one(s)] + g[s \ {one(s)}]
    BY <1>4 DEF HasSums
  <2>2. k \in Nat /\ \A s \in P(k) : s # {} => s \ {one(s)} \in P(k - 1)
    <3>. HIDE DEF one, n
    <3>. QED BY <1>1, <1>2
  <2> DEFINE h == [s \in P(k) |-> IF s = {} THEN 0 ELSE f[one(s)] + g[s \ {one(s)}]]
  <2>3. \A s \in P(k) : h[s] = IF s = {} THEN 0 ELSE f[one(s)] + g[s \ {one(s)}] BY DEF h
  <2>4. h \in [P(k) -> V]
    <3>1. \A s \in P(k) : (IF s = {} THEN 0 ELSE f[one(s)] + g[s \ {one(s)}]) \in V
      <4>. SUFFICES ASSUME NEW s \in P(k), s # {} PROVE f[one(s)] + g[s \ {one(s)}] \in V
        OBVIOUS
      <4>1. one(s) \in S /\ s \ {one(s)} \in P(k - 1) BY <1>2, <2>2
      <4>. HIDE DEF one, P
      <4>. QED BY <1>0, <2>1, <4>1
    <3>. HIDE DEF P, one
    <3>. QED BY <3>1
  <2>5. \A s \in P(k - 1) : s \in P(k) /\ h[s] = g[s]
    <3>1. \A s \in P(k - 1) : s \in P(k) BY <1>1
    <3>. HIDE DEF P, one, h
    <3>. QED BY <2>1, <2>3, <3>1
  <2>. HIDE DEF h
  <2>6. \A s \in P(k) : h[s] = IF s = {} THEN 0 ELSE f[one(s)] + h[s \ {one(s)}]
    <3>. HIDE DEF P, one
    <3>. QED BY <2>2, <2>3, <2>5
  <2>7. HasSums(V, f, S, k) BY <2>4, <2>6 DEF HasSums
  <2>. QED BY <2>7
<1>5. \A k \in 1..n : k - 1 \in K => k \in K BY <1>4
<1>6. \A k \in 0..n : k \in K
  <2>. HIDE DEF K, n
  <2>. QED BY <1>1, <1>3, <1>5, InductionUpTo
<1>7. HasSums(V, f, S, n) /\ P(n) = SUBSET S
  <2>1. n \in 0..n BY <1>1
  <2>2. P(n) = SUBSET S BY <1>1
  <2>. QED BY <1>6, <2>1, <2>2
<1>. QED BY <1>7 DEF HasSums, Sums

(* Total is one of them. *)
HasTotal(f, S) == \E g \in [SUBSET S -> Nat] : Sums(g, f, S) /\ Total(f) = g[S]

(* Total is a fold over the domain. *)
LEMMA TotalIs ==
  ASSUME NEW S, IsFiniteSet(S), NEW f \in [S -> Nat]
  PROVE  HasTotal(f, S)
<1>1. PICK g \in [SUBSET S -> Nat] : Sums(g, f, S) BY SumsExist
<1> DEFINE Is(h) == h = [s \in SUBSET S |-> IF s = {} THEN 0
                             ELSE f[CHOOSE x \in s : TRUE] + h[s \ {CHOOSE x \in s : TRUE}]]
           it == CHOOSE h : Is(h)
<1>2. Is(it)
  <2>1. Is(g) BY <1>1 DEF Sums
  <2>. QED BY <2>1
<1>3. DOMAIN f = S OBVIOUS
<1>4. Total(f) = it[S] BY <1>3 DEF Total, MapThenSumSet, MapThenFoldSet
<1>. HIDE DEF it
<1>5. Sums(it, f, S) BY <1>2 DEF Sums
<1> DEFINE G == {s \in SUBSET S : it[s] \in Nat}
<1>6. \A T \in SUBSET S : T \in G
  <2>1. {} \in G
    <3>1. {} \in SUBSET S /\ it[{}] = 0 BY <1>5 DEF Sums
    <3>. QED BY <3>1
  <2>2. ASSUME NEW T \in SUBSET S, T # {}, \A x \in T : T \ {x} \in G PROVE T \in G
    <3> DEFINE x == CHOOSE x \in T : TRUE
    <3>1. x \in T BY <2>2
    <3>2. it[T] = f[x] + it[T \ {x}] BY <1>5, <2>2 DEF Sums
    <3>. HIDE DEF x
    <3>3. f[x] \in Nat /\ it[T \ {x}] \in Nat BY <2>2, <3>1
    <3>. QED BY <3>2, <3>3
  <2>3. \A T \in SUBSET S : T # {} /\ (\A x \in T : T \ {x} \in G) => T \in G BY <2>2
  <2>. HIDE DEF G
  <2>. QED BY <2>1, <2>3, FiniteInduction
<1>7. it \in [SUBSET S -> Nat]
  <2>1. it = [s \in SUBSET S |-> it[s]] BY <1>2
  <2>. QED BY <1>6, <2>1
<1>. QED BY <1>4, <1>5, <1>7 DEF HasTotal

(* A total of numbers is a number. *)
LEMMA TotalIsNat == ASSUME NEW S, IsFiniteSet(S), NEW f \in [S -> Nat] PROVE Total(f) \in Nat
<1>1. S \in SUBSET S OBVIOUS
<1>2. PICK g \in [SUBSET S -> Nat] : Sums(g, f, S) /\ Total(f) = g[S] BY TotalIs DEF HasTotal
<1>. QED BY <1>1, <1>2

(* Counting a finite set by a key of its elements counts each once. *)
LEMMA CountedByKey ==
  ASSUME NEW T, IsFiniteSet(T), NEW S, IsFiniteSet(S), NEW key \in [T -> S],
         NEW f \in [S -> Nat], \A x \in S : f[x] = Cardinality({y \in T : key[y] = x})
  PROVE  Total(f) = Cardinality(T)
<1> DEFINE Of(s) == {y \in T : key[y] \in s}
<1>1. PICK g \in [SUBSET S -> Nat] : Sums(g, f, S) /\ Total(f) = g[S] BY TotalIs DEF HasTotal
<1> DEFINE G == {s \in SUBSET S : g[s] = Cardinality(Of(s))}
<1>2. \A s : IsFiniteSet(Of(s)) /\ Cardinality(Of(s)) \in Nat
  <2>. SUFFICES ASSUME NEW s PROVE IsFiniteSet(Of(s)) /\ Cardinality(Of(s)) \in Nat OBVIOUS
  <2> DEFINE O == Of(s)
  <2>1. O \in SUBSET T OBVIOUS
  <2>. HIDE DEF O
  <2>. QED BY <2>1, FS_Subset, FS_CardinalityType DEF O
<1>3. {} \in G
  <2>1. Of({}) = {} OBVIOUS
  <2>. HIDE DEF Of
  <2>. QED BY <1>1, <2>1, FS_EmptySet DEF Sums
<1>4. ASSUME NEW s \in SUBSET S, s # {}, \A x \in s : s \ {x} \in G PROVE s \in G
  <2> DEFINE x == CHOOSE x \in s : TRUE
             A == {y \in T : key[y] = x}
             B == Of(s \ {x})
  <2>1. x \in s BY <1>4
  <2>2. g[s] = f[x] + g[s \ {x}] BY <1>1, <1>4 DEF Sums
  <2>. HIDE DEF x
  <2>3. f[x] = Cardinality(A) /\ g[s \ {x}] = Cardinality(B) BY <1>4, <2>1
  <2>4. Of(s) = A \cup B /\ A \cap B = {} BY <2>1
  <2>5. IsFiniteSet(A) /\ IsFiniteSet(B)
    <3>1. A = Of({x}) OBVIOUS
    <3>. HIDE DEF A, Of
    <3>. QED BY <1>2, <3>1
  <2>6. Cardinality(A) \in Nat /\ Cardinality(B) \in Nat
    <3>. HIDE DEF A, B, Of
    <3>. QED BY <2>5, FS_CardinalityType
  <2>. HIDE DEF A, B, Of
  <2>7. Cardinality(A \cup B) = Cardinality(A) + Cardinality(B) - Cardinality(A \cap B)
    BY <2>5, FS_Union
  <2>8. Cardinality(A \cap B) = 0 BY <2>4, FS_EmptySet
  <2>9. g[s] = Cardinality(A \cup B) BY <2>2, <2>3, <2>6, <2>7, <2>8
  <2>. QED BY <2>4, <2>9
<1>5. \A s \in SUBSET S : s # {} /\ (\A x \in s : s \ {x} \in G) => s \in G BY <1>4
<1>6. S \in G
  <2>1. \A s \in SUBSET S : s \in G
    <3>. HIDE DEF G
    <3>. QED BY <1>3, <1>5, FiniteInduction
  <2>. QED BY <2>1
<1>7. Of(S) = T OBVIOUS
<1>. QED BY <1>1, <1>6, <1>7

-----------------------------------------------------------------------------
(* The newest questions first. *)

(* q is the set Q, newest first. *)
Newest(q, Q) ==
  /\ q \in [1 .. Cardinality(Q) -> Q]
  /\ IsInjective(q) /\ \A i, j \in DOMAIN q : i < j => q[i].at >= q[j].at

(* Q has such an order. *)
HasNewest(Q) == \E q : Newest(q, Q)

(* Some question is the oldest. *)
LEMMA OldestExists ==
  ASSUME NEW T, T # {}, \A q \in T : q.at \in Nat
  PROVE  \E x \in T : \A y \in T : x.at <= y.at
<1> DEFINE A == {y.at : y \in T}
<1>1. A # {} /\ A \subseteq Nat OBVIOUS
<1>2. PICK a \in A : \A b \in A : ~ (<<b, a>> \in OpToRel(<,Nat))
  <2>. HIDE DEF A
  <2>. QED BY <1>1, NatLessThanWellFounded, WFMin
<1>3. \A b \in A : ~(b < a) BY <1>1, <1>2 DEF OpToRel
<1>4. PICK x \in T : x.at = a OBVIOUS
<1>5. \A y \in T : ~(y.at < x.at) BY <1>3, <1>4
<1>. QED BY <1>5

(* Any finite set of questions has such an order. *)
LEMMA NewestExists ==
  ASSUME NEW Q, IsFiniteSet(Q), \A q \in Q : q.at \in Nat
  PROVE  HasNewest(Q)
<1> DEFINE G == {T \in SUBSET Q : HasNewest(T)}
<1>1. {} \in G
  <2>1. Cardinality({}) = 0 /\ 1..0 = {} BY FS_EmptySet
  <2> DEFINE e == [i \in {} |-> i]
             Z == {}
  <2>2. e \in [1 .. Cardinality(Z) -> Z] /\ DOMAIN e = {} BY <2>1
  <2>. HIDE DEF e, Z
  <2>3. Newest(e, Z) BY <2>2 DEF Newest, IsInjective
  <2>4. HasNewest({}) BY <2>3 DEF HasNewest, Z
  <2>. QED BY <2>4
<1>2. ASSUME NEW T \in SUBSET Q, T # {}, \A x \in T : T \ {x} \in G PROVE T \in G
  <2>1. PICK x \in T : \A y \in T : x.at <= y.at BY <1>2, OldestExists
  <2> DEFINE R == T \ {x}
             n == Cardinality(T)
  <2>2. PICK p : Newest(p, R) BY <1>2, <2>1 DEF HasNewest
  <2>3. n \in Nat /\ n > 0 /\ Cardinality(R) = n - 1
    <3>1. IsFiniteSet(T) BY FS_Subset
    <3>2. n \in Nat /\ n # 0 BY <1>2, <3>1, FS_CardinalityType, FS_EmptySet
    <3>3. Cardinality(R) = n - 1 BY <2>1, <3>1, FS_RemoveElement
    <3>. HIDE DEF n
    <3>. QED BY <3>2, <3>3
  <2>. HIDE DEF n
  <2>4. /\ p \in [1 .. n - 1 -> R] /\ DOMAIN p = 1 .. n - 1
        /\ IsInjective(p) /\ \A i, j \in 1 .. n - 1 : i < j => p[i].at >= p[j].at
    BY <2>2, <2>3 DEF Newest
  <2> DEFINE q == [i \in 1..n |-> IF i = n THEN x ELSE p[i]]
  <2>5. \A i \in 1..n : i # n => i \in 1 .. n - 1 BY <2>3
  <2>6. q \in [1..n -> T] BY <2>1, <2>4, <2>5
  <2>7. q[n] = x /\ n \in 1..n /\ \A i \in 1..n : i # n => q[i] = p[i] /\ p[i] \in R
    BY <2>3, <2>4, <2>5
  <2>. HIDE DEF q
  <2>8. IsInjective(q)
    <3>1. DOMAIN q = 1..n BY <2>6
    <3>2. ASSUME NEW i \in 1..n, NEW j \in 1..n, q[i] = q[j] PROVE i = j
      <4>1. CASE i = n \/ j = n BY <2>7, <3>2, <4>1
      <4>2. CASE i # n /\ j # n BY <2>4, <2>5, <2>7, <3>2, <4>2 DEF IsInjective
      <4>. QED BY <4>1, <4>2
    <3>. QED BY <3>1, <3>2 DEF IsInjective
  <2>9. ASSUME NEW i \in 1..n, NEW j \in 1..n, i < j PROVE q[i].at >= q[j].at
    <3>1. i # n /\ i \in 1 .. n - 1 BY <2>3, <2>9
    <3>2. q[i] = p[i] /\ p[i] \in T BY <2>7, <3>1
    <3>3. CASE j = n
      <4>1. q[j] = x /\ x.at <= p[i].at /\ x.at \in Nat /\ p[i].at \in Nat
        BY <2>1, <2>7, <3>2, <3>3
      <4>. QED BY <3>2, <4>1
    <3>4. CASE j # n BY <2>4, <2>5, <2>7, <2>9, <3>1, <3>2, <3>4
    <3>. QED BY <3>3, <3>4
  <2>10. Newest(q, T) BY <2>6, <2>8, <2>9 DEF Newest, n
  <2>. QED BY <2>10 DEF HasNewest
<1>3. \A T \in SUBSET Q : T # {} /\ (\A x \in T : T \ {x} \in G) => T \in G BY <1>2
<1>4. \A T \in SUBSET Q : T \in G
  <2>. HIDE DEF G
  <2>. QED BY <1>1, <1>3, FiniteInduction
<1>. QED BY <1>4

(* The order the statistics use is one. *)
LEMMA NewestFirstIs ==
  ASSUME NEW Q, IsFiniteSet(Q), \A q \in Q : q.at \in Nat
  PROVE  Newest(NewestFirst(Q), Q)
<1> DEFINE P(q) == IsInjective(q) /\ \A i, j \in DOMAIN q : i < j => q[i].at >= q[j].at
<1>1. PICK q : Newest(q, Q) BY NewestExists DEF HasNewest
<1>2. q \in [1 .. Cardinality(Q) -> Q] /\ P(q) BY <1>1 DEF Newest
<1>3. NewestFirst(Q) = CHOOSE q1 \in [1 .. Cardinality(Q) -> Q] : P(q1) BY DEF NewestFirst
<1>. HIDE DEF P
<1>4. NewestFirst(Q) \in [1 .. Cardinality(Q) -> Q] /\ P(NewestFirst(Q)) BY <1>2, <1>3
<1>. QED BY <1>4 DEF Newest, P

-----------------------------------------------------------------------------
(* The list of documents. *)

(* No row of another tenant changes the list, the statistics, a document's *)
(* status or its file (api/v1/documents.py, api/v1/admin.py) or a chunk in *)
(* its place (services/chunks.py), in any database.                        *)
THEOREM OthersDoNotCount ==
  ASSUME NEW db \in Database, NEW tenant, NEW store, NEW hours, NEW now, NEW recent, NEW id, NEW chunk,
         NEW window
  PROVE  LET alone == [rows \in DOMAIN db |-> OfTenant(db[rows], tenant)]
         IN /\ ListDocuments(db, tenant) = ListDocuments(alone, tenant)
            /\ Stats(db, tenant, hours, now, recent) = Stats(alone, tenant, hours, now, recent)
            /\ DocumentStatus(db, tenant, id) = DocumentStatus(alone, tenant, id)
            /\ DocumentFile(db, store, tenant, id) = DocumentFile(alone, store, tenant, id)
            /\ ChunkContext(db, tenant, chunk, window) = ChunkContext(alone, tenant, chunk, window)
<1> DEFINE alone == [rows \in DOMAIN db |-> OfTenant(db[rows], tenant)]
<1>1. "documents" \in DOMAIN db /\ "chunks" \in DOMAIN db /\ "queries" \in DOMAIN db
  BY DEF Database
<1>2. \A rows : OfTenant(OfTenant(rows, tenant), tenant) = OfTenant(rows, tenant)
  BY DEF OfTenant
<1>3. /\ alone.documents = OfTenant(db.documents, tenant)
      /\ alone.chunks = OfTenant(db.chunks, tenant)
      /\ alone.queries = OfTenant(db.queries, tenant)
  BY <1>1
<1>. HIDE DEF alone
<1>4. /\ OfTenant(alone.documents, tenant) = OfTenant(db.documents, tenant)
      /\ OfTenant(alone.chunks, tenant) = OfTenant(db.chunks, tenant)
      /\ OfTenant(alone.queries, tenant) = OfTenant(db.queries, tenant)
  BY <1>2, <1>3
<1>5. ListDocuments(db, tenant) = ListDocuments(alone, tenant) BY <1>4 DEF ListDocuments
<1>6. Stats(db, tenant, hours, now, recent) = Stats(alone, tenant, hours, now, recent)
  BY <1>4 DEF Stats
<1>7. FindDocument(db, tenant, id) = FindDocument(alone, tenant, id) BY <1>4 DEF FindDocument
<1>8. DocumentStatus(db, tenant, id) = DocumentStatus(alone, tenant, id)
  BY <1>7 DEF DocumentStatus
<1>9. DocumentFile(db, store, tenant, id) = DocumentFile(alone, store, tenant, id)
  BY <1>7 DEF DocumentFile
<1>10. ChunkContext(db, tenant, chunk, window) = ChunkContext(alone, tenant, chunk, window)
  <2> DEFINE owner(b) == {d \in b.documents : d.id = chunk.document}
             near(b) == {c \in b.chunks \ {chunk} :
                          /\ c.document = chunk.document /\ c.strategy = chunk.strategy
                          /\ c.ordinal \in chunk.ordinal - window .. chunk.ordinal + window}
  <2>1. CASE chunk \notin OfTenant(db.chunks, tenant) BY <1>4, <2>1 DEF ChunkContext
  <2>2. CASE chunk \in OfTenant(db.chunks, tenant)
    <3>1. \A d \in db.documents : d.id = chunk.document => d.tenant = tenant
      BY <2>2 DEF OfTenant, Database
    <3>2. \A c \in db.chunks : c.document = chunk.document => c.tenant = tenant
      BY <3>1 DEF Database
    <3>3. owner(db) = owner(alone) BY <1>3, <3>1 DEF OfTenant
    <3>4. near(db) = near(alone) BY <1>3, <3>2 DEF OfTenant
    <3>. QED BY <1>4, <3>3, <3>4 DEF ChunkContext
  <2>. QED BY <2>1, <2>2
<1>. QED BY <1>5, <1>6, <1>8, <1>9, <1>10 DEF alone

(* What a finite set is mapped onto is finite, and as large if nothing is  *)
(* mapped together.                                                        *)
LEMMA ImageOf ==
  ASSUME NEW T, IsFiniteSet(T), NEW S, NEW f \in [T -> S], \A y \in S : \E x \in T : f[x] = y
  PROVE  /\ IsFiniteSet(S)
         /\ (\A x, y \in T : f[x] = f[y] => x = y) => Cardinality(S) = Cardinality(T)
<1>1. f \in Surjection(T, S) BY DEF Surjection
<1>2. (\A x, y \in T : f[x] = f[y] => x = y) => f \in Injection(T, S)
  BY DEF Injection, IsInjective
<1>. QED BY <1>1, <1>2, FS_Surjection

(* The chunks of a document. *)
ChunksIn(C, d) == {c \in C : c.document = d.id}

(* The strategies it is chunked by. *)
Strategies(C, d) == {c.strategy : c \in ChunksIn(C, d)}

(* Its entry in the list. *)
Entry(C, d) ==
  [id |-> d.id, status |-> d.status,
   chunks |-> [s \in Strategies(C, d) |-> Cardinality({c \in ChunksIn(C, d) : c.strategy = s})]]

(* An entry counts its document's chunks, each in one strategy. *)
LEMMA EntryCounts ==
  ASSUME NEW C, IsFiniteSet(C), NEW d
  PROVE  /\ Entry(C, d).id = d.id
         /\ IsFiniteSet(ChunksIn(C, d)) /\ Cardinality(ChunksIn(C, d)) \in Nat
         /\ Total(Entry(C, d).chunks) = Cardinality(ChunksIn(C, d))
<1> DEFINE T == ChunksIn(C, d)
           S == Strategies(C, d)
           key == [c \in T |-> c.strategy]
           f == [s \in S |-> Cardinality({c \in T : c.strategy = s})]
<1>1. IsFiniteSet(T) /\ Cardinality(T) \in Nat
  <2>1. T \in SUBSET C BY DEF ChunksIn
  <2>. HIDE DEF T
  <2>. QED BY <2>1, FS_Subset, FS_CardinalityType
<1>2. key \in [T -> S] /\ \A y \in S : \E x \in T : key[x] = y BY DEF Strategies
<1>3. \A c \in T : key[c] = c.strategy OBVIOUS
<1>4. IsFiniteSet(S)
  <2>. HIDE DEF T, S, key
  <2>. QED BY <1>1, <1>2, ImageOf
<1>5. \A s \in S : f[s] = Cardinality({c \in T : key[c] = s})
  <2>. SUFFICES ASSUME NEW s \in S PROVE f[s] = Cardinality({c \in T : key[c] = s}) OBVIOUS
  <2>1. f[s] = Cardinality({c \in T : c.strategy = s}) OBVIOUS
  <2>2. {c \in T : c.strategy = s} = {c \in T : key[c] = s} BY <1>3
  <2>. QED BY <2>1, <2>2
<1>6. f \in [S -> Nat]
  <2>1. \A s \in S : Cardinality({c \in T : c.strategy = s}) \in Nat
    <3>. SUFFICES ASSUME NEW s \in S PROVE Cardinality({c \in T : c.strategy = s}) \in Nat
      OBVIOUS
    <3> DEFINE A == {c \in T : c.strategy = s}
    <3>1. A \in SUBSET T OBVIOUS
    <3>. HIDE DEF A, T
    <3>2. Cardinality(A) \in Nat BY <1>1, <3>1, FS_Subset, FS_CardinalityType
    <3>. QED BY <3>2 DEF A
  <2>. HIDE DEF T, S
  <2>. QED BY <2>1
<1>7. Entry(C, d).id = d.id /\ Entry(C, d).chunks = f BY DEF Entry
<1>. HIDE DEF f, key, S, T
<1>8. Total(f) = Cardinality(T) BY <1>1, <1>2, <1>4, <1>5, <1>6, CountedByKey
<1>. QED BY <1>1, <1>7, <1>8 DEF T

(* The list has the entry of every document of the tenant. *)
LEMMA ListIs ==
  ASSUME NEW db, NEW tenant
  PROVE  ListDocuments(db, tenant)
           = {Entry(OfTenant(db.chunks, tenant), d) : d \in OfTenant(db.documents, tenant)}
BY DEF ListDocuments, Entry, ChunksIn, Strategies

(* The list has one entry per document, and its counts add up to the       *)
(* tenant's chunks.                                                        *)
LEMMA ListCounts ==
  ASSUME NEW db \in Database, NEW tenant
  PROVE  LET list == ListDocuments(db, tenant)
         IN /\ IsFiniteSet(list)
            /\ Cardinality(list) = Cardinality(OfTenant(db.documents, tenant))
            /\ Total([d \in list |-> Total(d.chunks)]) = Cardinality(OfTenant(db.chunks, tenant))
<1> DEFINE D == OfTenant(db.documents, tenant)
           C == OfTenant(db.chunks, tenant)
           list == ListDocuments(db, tenant)
           entry == [d \in D |-> Entry(C, d)]
           f == [e \in list |-> Total(e.chunks)]
           owner == [c \in C |-> entry[CHOOSE d \in D : d.id = c.document]]
<1>1. IsFiniteSet(D) /\ IsFiniteSet(C)
  <2>1. D \in SUBSET db.documents /\ C \in SUBSET db.chunks BY DEF OfTenant
  <2>2. IsFiniteSet(db.documents) /\ IsFiniteSet(db.chunks) BY DEF Database
  <2>. HIDE DEF D, C
  <2>. QED BY <2>1, <2>2, FS_Subset
<1>2. \A d, e \in D : d.id = e.id => d = e BY DEF Database, OfTenant
<1>3. \A c \in C : \E d \in D : d.id = c.document BY DEF Database, OfTenant
<1>4. list = {Entry(C, d) : d \in D} BY ListIs
<1>. HIDE DEF D, C, list
<1>5. entry \in [D -> list] /\ \A e \in list : \E d \in D : entry[d] = e BY <1>4
<1>6. \A d \in D : /\ entry[d].id = d.id /\ Cardinality(ChunksIn(C, d)) \in Nat
                   /\ Total(entry[d].chunks) = Cardinality(ChunksIn(C, d))
  BY <1>1, EntryCounts
<1>. HIDE DEF entry
<1>7. IsFiniteSet(list) /\ Cardinality(list) = Cardinality(D)
  <2>1. \A x, y \in D : entry[x] = entry[y] => x = y BY <1>2, <1>6
  <2>. QED BY <1>1, <1>5, <2>1, ImageOf
<1>8. \A c \in C : \E d \in D : d.id = c.document /\ owner[c] = entry[d] BY <1>3
<1>9. owner \in [C -> list] BY <1>3, <1>5
<1>. HIDE DEF owner
<1> DEFINE N(e) == Cardinality({c \in C : owner[c] = e})
<1>10. \A e \in list : f[e] = N(e) /\ f[e] \in Nat
  <2>1. ASSUME NEW d \in D PROVE f[entry[d]] = N(entry[d]) /\ f[entry[d]] \in Nat
    <3>1. {c \in C : owner[c] = entry[d]} = ChunksIn(C, d)
      <4>1. ASSUME NEW c \in C PROVE owner[c] = entry[d] <=> c.document = d.id
        <5>1. PICK e \in D : e.id = c.document /\ owner[c] = entry[e] BY <1>8
        <5>. QED BY <1>2, <1>6, <5>1
      <4>. QED BY <4>1 DEF ChunksIn
    <3>2. entry[d] \in list BY <1>5
    <3>3. f[entry[d]] = Total(entry[d].chunks) BY <3>2
    <3>. HIDE DEF f
    <3>. QED BY <1>6, <3>1, <3>3
  <2>. HIDE DEF f, N
  <2>. QED BY <1>5, <2>1
<1>11. f \in [list -> Nat] BY <1>10
<1>12. Total(f) = Cardinality(C)
  <2>. HIDE DEF f
  <2>. QED BY <1>1, <1>7, <1>9, <1>10, <1>11, CountedByKey
<1>. QED BY <1>7, <1>12 DEF D, C, list

-----------------------------------------------------------------------------
(* The statistics. *)

(* Every document is in one bucket of the statistics. *)
LEMMA BucketsCount ==
  ASSUME NEW D, IsFiniteSet(D)
  PROVE  Total([b \in {"ready", "processing", "failed"} |-> Cardinality({d \in D : Bucket(d.status) = b})])
           = Cardinality(D)
<1> DEFINE S == {"ready", "processing", "failed"}
           f == [b \in S |-> Cardinality({d \in D : Bucket(d.status) = b})]
           key == [d \in D |-> Bucket(d.status)]
<1>1. key \in [D -> S] BY DEF Bucket
<1>2. IsFiniteSet(S)
  <2>1. IsFiniteSet({"ready"}) BY FS_Singleton
  <2>2. IsFiniteSet({"ready"} \cup {"processing"}) BY <2>1, FS_AddElement
  <2>3. IsFiniteSet(({"ready"} \cup {"processing"}) \cup {"failed"}) BY <2>2, FS_AddElement
  <2>4. S = ({"ready"} \cup {"processing"}) \cup {"failed"} OBVIOUS
  <2>. QED BY <2>3, <2>4
<1> DEFINE N(b) == Cardinality({d \in D : Bucket(d.status) = b})
           M(b) == Cardinality({d \in D : key[d] = b})
<1>3. \A b \in S : f[b] = N(b) OBVIOUS
<1>4. \A b \in S : N(b) = M(b) /\ N(b) \in Nat
  <2>. SUFFICES ASSUME NEW b \in S PROVE N(b) = M(b) /\ N(b) \in Nat OBVIOUS
  <2> DEFINE A == {d \in D : Bucket(d.status) = b}
  <2>1. A = {d \in D : key[d] = b} OBVIOUS
  <2>2. A \in SUBSET D OBVIOUS
  <2>3. Cardinality(A) \in Nat
    <3>. HIDE DEF A
    <3>. QED BY <2>2, FS_Subset, FS_CardinalityType
  <2>. QED BY <2>1, <2>3
<1>5. f \in [S -> Nat]
  <2>1. f = [b \in S |-> N(b)] OBVIOUS
  <2>. HIDE DEF N, S, f
  <2>. QED BY <1>4, <2>1
<1>6. \A b \in S : f[b] = M(b)
  <2>. HIDE DEF f, N, M, S
  <2>. QED BY <1>3, <1>4
<1>7. Total(f) = Cardinality(D)
  <2>. HIDE DEF f, S, key
  <2>. QED BY <1>1, <1>2, <1>5, <1>6, CountedByKey
<1>. QED BY <1>7

(* Products keep the order. *)
LEMMA ProductGrows == ASSUME NEW a \in Nat, NEW b \in Nat, NEW c \in Nat, b <= c PROVE a * b <= a * c
<1>1. c - b \in Nat /\ c = b + (c - b) OBVIOUS
<1>2. a * (c - b) \in Nat BY <1>1
<1>3. a * c = a * b + a * (c - b) BY <1>1
<1>. QED BY <1>2, <1>3

(* What the statistics are, for sets of typed rows. *)
LEMMA StatsAgree ==
  ASSUME NEW Q, IsFiniteSet(Q), Q \subseteq Query,
         NEW D, IsFiniteSet(D), NEW C, NEW recent \in Nat
  PROVE  LET stats == StatsOf(Q, D, C, recent)
             known == {q \in Q : q.cost # Nothing}
             priced == <<Total([q \in known |-> q.cost[1]]), Cardinality(known)>>
         IN /\ Total(stats.documents) = Cardinality(D)
            /\ stats.chunks = Cardinality(C)
            /\ Len(stats.recent) = Min({recent, stats.queries})
            /\ ToSet(stats.recent) \subseteq Q
            /\ known # {} => ~Below(priced, stats.cost_usd_per_query)
<1> DEFINE stats == StatsOf(Q, D, C, recent)
           known == {q \in Q : q.cost # Nothing}
           cost == [q \in known |-> q.cost[1]]
           total == Total(cost)
           newest == NewestFirst(Q)
           n == Cardinality(Q)
<1>1. /\ stats.queries = n /\ stats.chunks = Cardinality(C)
      /\ stats.cost_usd_per_query = IF Q = {} THEN Nothing ELSE <<total, n>>
      /\ stats.documents = [b \in {"ready", "processing", "failed"} |->
                             Cardinality({d \in D : Bucket(d.status) = b})]
      /\ stats.recent = SubSeq(newest, 1, Min({recent, Len(newest)}))
  BY DEF StatsOf
<1>. HIDE DEF stats
<1>2. Total(stats.documents) = Cardinality(D) BY <1>1, BucketsCount
<1>3. n \in Nat BY FS_CardinalityType
<1>4. newest \in [1..n -> Q] /\ newest \in Seq(Q) /\ Len(newest) = n
  <2>1. \A q \in Q : q.at \in Nat BY DEF Query
  <2>2. newest \in [1..n -> Q] BY <2>1, NewestFirstIs DEF Newest
  <2>. HIDE DEF newest, n
  <2>. QED BY <1>3, <2>2
<1>5. Len(stats.recent) = Min({recent, n}) /\ ToSet(stats.recent) \subseteq Q
  <2> DEFINE m == Min({recent, n})
  <2>1. m \in 0..n
    <3>1. recent \in Int /\ n \in Int BY <1>3
    <3>. HIDE DEF n
    <3>2. m = IF recent <= n THEN recent ELSE n BY <3>1, PairBounds
    <3>. QED BY <1>3, <3>2
  <2>2. stats.recent = SubSeq(newest, 1, m) BY <1>1, <1>4
  <2>. HIDE DEF m, n, newest
  <2>3. m \in Nat /\ 1 \in Int /\ \A i \in 1..m : newest[i] \in Q BY <1>3, <1>4, <2>1
  <2>4. SubSeq(newest, 1, m) \in Seq(Q) /\ Len(SubSeq(newest, 1, m)) = m
    BY <2>3, SubSeqProperties
  <2>5. \A i \in DOMAIN stats.recent : stats.recent[i] \in Q BY <2>2, <2>4, LenProperties
  <2>. QED BY <2>2, <2>4, <2>5 DEF ToSet, m
<1>6. ASSUME known # {} PROVE ~Below(<<total, Cardinality(known)>>, stats.cost_usd_per_query)
  <2> DEFINE k == Cardinality(known)
  <2>1. IsFiniteSet(known) /\ k \in Nat /\ k <= n
    <3>1. known \in SUBSET Q OBVIOUS
    <3>. HIDE DEF known
    <3>. QED BY <3>1, FS_Subset, FS_CardinalityType
  <2>2. cost \in [known -> Nat]
    <3>1. \A q \in known : q.cost[1] \in Nat BY DEF Query
    <3>. QED BY <3>1
  <2>3. total \in Nat
    <3>. HIDE DEF cost, known
    <3>. QED BY <2>1, <2>2, TotalIsNat
  <2>4. Q # {} /\ stats.cost_usd_per_query = <<total, n>> BY <1>1, <1>6
  <2>. HIDE DEF total, k, n
  <2>5. total * k <= total * n /\ total * k \in Nat /\ total * n \in Nat
    BY <1>3, <2>1, <2>3, ProductGrows
  <2>6. Below(<<total, k>>, <<total, n>>) <=> total * n < total * k BY DEF Below
  <2>7. ~Below(<<total, k>>, <<total, n>>) BY <2>5, <2>6
  <2>. QED BY <2>4, <2>7 DEF k
<1>. QED BY <1>1, <1>2, <1>5, <1>6 DEF stats

-----------------------------------------------------------------------------
(* Requests. *)

(* A document that can be shown is in the list. *)
LEMMA ShownIsListed ==
  ASSUME NEW db, NEW store, NEW tenant, NEW id, DocumentFile(db, store, tenant, id).status = 200
  PROVE  \E d \in ListDocuments(db, tenant) : d.id = id
<1>1. FindDocument(db, tenant, id) # {} BY DEF DocumentFile
<1>2. PICK d \in OfTenant(db.documents, tenant) : d.id = id BY <1>1 DEF FindDocument
<1> DEFINE C == OfTenant(db.chunks, tenant)
<1>3. Entry(C, d) \in ListDocuments(db, tenant) /\ Entry(C, d).id = id BY <1>2, ListIs DEF Entry
<1>. QED BY <1>3

(* What StatisticsCountTheList asks of a database. *)
CountsAgree(db, tenant, store) ==
  LET list == ListDocuments(db, tenant)
      stats == Stats(db, tenant, 2, 4, 2)
      known == {q \in OfTenant(db.queries, tenant) : q.at >= 2 /\ q.cost # Nothing}
      priced == <<Total([q \in known |-> q.cost[1]]), Cardinality(known)>>
  IN /\ Total(stats.documents) = Cardinality(list)
     /\ Total([d \in list |-> Total(d.chunks)]) = stats.chunks
     /\ \A id \in 1..3 : DocumentFile(db, store, tenant, id).status = 200 =>
          \E d \in list : d.id = id
     /\ Len(stats.recent) = Min({2, stats.queries})
     /\ \A q \in ToSet(stats.recent) : q.tenant = tenant /\ q.at >= 2
     /\ known # {} => ~Below(priced, stats.cost_usd_per_query)

(* The list and the statistics of a tenant agree with each other, in any   *)
(* database that keeps its keys.                                           *)
THEOREM StatisticsCount ==
  ASSUME NEW db \in Database, NEW tenant, NEW store
  PROVE  CountsAgree(db, tenant, store)
<1> DEFINE list == ListDocuments(db, tenant)
           stats == Stats(db, tenant, 2, 4, 2)
           known == {q \in OfTenant(db.queries, tenant) : q.at >= 2 /\ q.cost # Nothing}
           priced == <<Total([q \in known |-> q.cost[1]]), Cardinality(known)>>
           Q == {q \in OfTenant(db.queries, tenant) : q.at >= 2}
           D == OfTenant(db.documents, tenant)
           C == OfTenant(db.chunks, tenant)
<1>1. /\ db.queries \subseteq Query /\ IsFiniteSet(db.queries)
      /\ IsFiniteSet(db.documents) /\ IsFiniteSet(db.chunks)
  BY DEF Database
<1>2. IsFiniteSet(Q) /\ Q \subseteq Query /\ IsFiniteSet(D) /\ \A q \in Q : q.tenant = tenant /\ q.at >= 2
  <2>1. Q \in SUBSET db.queries /\ D \in SUBSET db.documents /\ \A q \in Q : q.tenant = tenant /\ q.at >= 2
    BY DEF OfTenant
  <2>. HIDE DEF Q, D
  <2>. QED BY <1>1, <2>1, FS_Subset
<1>3. stats = StatsOf(Q, D, C, 2) BY DEF Stats
<1>4. known = {q \in Q : q.cost # Nothing} OBVIOUS
<1>5. Cardinality(list) = Cardinality(D) /\ Total([d \in list |-> Total(d.chunks)]) = Cardinality(C)
  BY ListCounts
<1>6. \A id \in 1..3 : DocumentFile(db, store, tenant, id).status = 200 => \E d \in list : d.id = id
  BY ShownIsListed
<1>. HIDE DEF Q, D, C, stats, list
<1> DEFINE s == StatsOf(Q, D, C, 2)
           k == {q \in Q : q.cost # Nothing}
<1>7. /\ Total(s.documents) = Cardinality(D)
      /\ s.chunks = Cardinality(C)
      /\ Len(s.recent) = Min({2, s.queries})
      /\ ToSet(s.recent) \subseteq Q
      /\ k # {} => ~Below(<<Total([q \in k |-> q.cost[1]]), Cardinality(k)>>, s.cost_usd_per_query)
  BY <1>2, StatsAgree
<1>8. s = stats /\ k = known BY <1>3, <1>4
<1>. HIDE DEF s, k, known
<1>9. known # {} => ~Below(priced, stats.cost_usd_per_query) BY <1>7, <1>8
<1>10. /\ Total(stats.documents) = Cardinality(list)
       /\ Total([d \in list |-> Total(d.chunks)]) = stats.chunks
       /\ Len(stats.recent) = Min({2, stats.queries})
       /\ \A q \in ToSet(stats.recent) : q.tenant = tenant /\ q.at >= 2
  BY <1>2, <1>5, <1>7, <1>8
<1>. QED BY <1>6, <1>9, <1>10 DEF CountsAgree, stats, list, known

(* No body over the limit passes, and a GET has none to refuse. *)
LEMMA BodyIsLimited ==
  ASSUME NEW request \in Request, NEW limits \in [upload : Nat, request : Nat]
  PROVE  /\ BodyStatus(limits, request) = 200 /\ request.method = "POST" =>
              request.length <= BodyLimit(limits, request.path)
         /\ request.method = "GET" => BodyStatus(limits, request) = 200
<1>1. BodyLimit(limits, request.path) \in Nat /\ request.length \in Int
  BY DEF BodyLimit, Request
<1>2. ASSUME request.method = "POST", BodyStatus(limits, request) = 200
      PROVE  request.length <= BodyLimit(limits, request.path)
  <2>1. request.method \in {"POST", "PUT", "PATCH"} BY <1>2
  <2>2. CASE request.length = NoLength BY <1>1, <2>2 DEF NoLength
  <2>3. CASE request.length = NotANumber BY <1>1, <2>3 DEF NotANumber
  <2>4. CASE request.length # NoLength /\ request.length # NotANumber
    <3>1. BodyStatus(limits, request) = IF request.length > BodyLimit(limits, request.path) THEN 413 ELSE 200
      BY <2>1, <2>4 DEF BodyStatus
    <3>. QED BY <1>1, <1>2, <3>1
  <2>. QED BY <2>2, <2>3, <2>4
<1>3. ASSUME request.method = "GET" PROVE BodyStatus(limits, request) = 200
  <2>1. request.method \notin {"POST", "PUT", "PATCH"} BY <1>3
  <2>. QED BY <2>1 DEF BodyStatus
<1>. QED BY <1>2, <1>3

(* Whom a token of a login stands for later: whoever logged in with the     *)
(* right password, until the token expires, while the secret is the same.  *)
StandsForLogin(issued, known, now, role, password, ttl, issuer) ==
  LET settings == [ttl |-> ttl, secret |-> known, issuer |-> issuer]
      users == {[email |-> "a", tenant |-> 1, role |-> role,
                 password |-> HashPassword("right")]}
      token == IF password = "none" THEN NoToken
               ELSE Login([settings EXCEPT !.secret = issued], users, "a", password, 1)
      open == /\ password = "right" /\ role \in Roles
              /\ issued = known /\ now \in 1 .. ttl
  IN DecodeAccessToken(settings, token, now)
       = IF open THEN [user |-> "a", tenant |-> 1, role |-> role] ELSE NoToken

(* So it is for every role, password, time and lifetime. *)
LEMMA TokenStandsForLogin ==
  ASSUME NEW issued, NEW known, NEW now \in Int, NEW role, NEW password,
         NEW ttl \in Nat, NEW issuer
  PROVE  StandsForLogin(issued, known, now, role, password, ttl, issuer)
<1> DEFINE settings == [ttl |-> ttl, secret |-> known, issuer |-> issuer]
           then == [settings EXCEPT !.secret = issued]
           u == [email |-> "a", tenant |-> 1, role |-> role, password |-> HashPassword("right")]
           users == {u}
           token == IF password = "none" THEN NoToken ELSE Login(then, users, "a", password, 1)
           open == password = "right" /\ role \in Roles /\ issued = known /\ now \in 1 .. ttl
           found == {x \in users : /\ x.email = "a" /\ VerifyPassword(password, x.password)
                                   /\ x.role \in Roles}
<1>1. VerifyPassword(password, HashPassword("right")) <=> password = "right"
  <2>1. HashPassword("right").of = "right" /\ HashPassword(password).of = password
    BY DEF HashPassword
  <2>. QED BY <2>1 DEF VerifyPassword
<1>2. /\ then.ttl = ttl /\ then.secret = issued /\ then.issuer = issuer
      /\ settings.ttl = ttl /\ settings.secret = known /\ settings.issuer = issuer
  OBVIOUS
<1>3. u.email = "a" /\ u.tenant = 1 /\ u.role = role /\ u.password = HashPassword("right")
  OBVIOUS
<1>. HIDE DEF u, then, settings
<1> DEFINE goal == DecodeAccessToken(settings, token, now)
                      = IF open THEN [user |-> "a", tenant |-> 1, role |-> role] ELSE NoToken
<1>4. ASSUME password = "right", role \in Roles PROVE goal
  <2>1. found = {u} BY <1>1, <1>3, <1>4
  <2>2. (CHOOSE x \in found : TRUE) = u /\ found # {} BY <2>1
  <2> DEFINE t == [user |-> "a", tenant |-> 1, role |-> role, iat |-> 1,
                   exp |-> 1 + ttl, secret |-> issued, iss |-> issuer]
  <2>3. token = t
    <3>1. token = Login(then, users, "a", password, 1) BY <1>4
    <3>2. Login(then, users, "a", password, 1)
            = IF found = {} THEN NoToken ELSE CreateAccessToken(then, CHOOSE x \in found : TRUE, 1)
      BY DEF Login
    <3>3. CreateAccessToken(then, u, 1) = t BY <1>2, <1>3 DEF CreateAccessToken
    <3>. HIDE DEF found, token, t
    <3>. QED BY <2>2, <3>1, <3>2, <3>3
  <2>4. /\ t # NoToken /\ t.secret = issued /\ t.iss = issuer /\ t.iat = 1 /\ t.exp = 1 + ttl
        /\ t.role = role /\ t.user = "a" /\ t.tenant = 1
    <3>1. DOMAIN t # DOMAIN <<>>
      <4>1. "user" \in DOMAIN t /\ DOMAIN <<>> = {} OBVIOUS
      <4>. QED BY <4>1
    <3>2. t # NoToken BY <3>1 DEF NoToken
    <3>. QED BY <3>2
  <2>. HIDE DEF t, token
  <2>5. (1 <= now /\ now < 1 + ttl) <=> now \in 1 .. ttl OBVIOUS
  <2>6. DecodeAccessToken(settings, t, now)
          = IF issued = known /\ 1 <= now /\ now < 1 + ttl THEN [user |-> "a", tenant |-> 1, role |-> role] ELSE NoToken
    BY <1>2, <1>4, <2>4 DEF DecodeAccessToken
  <2>. QED BY <1>4, <2>3, <2>5, <2>6
<1>5. ASSUME ~(password = "right" /\ role \in Roles) PROVE goal
  <2>1. found = {} BY <1>1, <1>3, <1>5
  <2>2. Login(then, users, "a", password, 1) = NoToken BY <2>1 DEF Login
  <2>3. token = NoToken BY <2>2
  <2>4. DecodeAccessToken(settings, NoToken, now) = NoToken BY DEF DecodeAccessToken
  <2>. HIDE DEF found
  <2>. HIDE DEF token
  <2>. QED BY <1>5, <2>3, <2>4
<1>. QED BY <1>4, <1>5 DEF StandsForLogin, settings, then, u

(* What RequestsAreAdmitted asks of a request. *)
RightlyAnswered(request, route, role, login, secret, now) ==
  LET settings == [ttl |-> 2, secret |-> "now", issuer |-> "normeon"]
      limits == [upload |-> 3, request |-> 1]
      users == {[email |-> "a", tenant |-> 1, role |-> role,
                 password |-> HashPassword("right")]}
      token == IF login = "none" THEN NoToken
               ELSE Login([settings EXCEPT !.secret = secret], users, "a", login, 1)
      response == Respond(settings, limits, route, request, token, now,
                          [acceptable |-> TRUE, name |-> "fresh"])
      open == /\ login = "right" /\ role \in Roles
              /\ secret = "now" /\ now \in 1..2
  IN /\ response.id.acceptable
     /\ response.status = 200 =>
          /\ request.method = "POST" => request.length <= BodyLimit(limits, request.path)
          /\ route.needs # "nobody" =>
               open /\ response.caller.tenant = 1 /\ response.caller.role = role
          /\ route.needs = "admin" => role = "admin"
     /\ open /\ request.method = "GET" =>
          response.status = IF route.needs = "admin" /\ role # "admin" THEN 403 ELSE 200

(* A route of any kind answers exactly those whom a login's token entitles, *)
(* at any time, and refuses every body over the limit.                     *)
THEOREM AdmissionIsRight ==
  ASSUME NEW request \in Request, NEW route, route.needs \in {"nobody", "user", "admin"},
         NEW role, NEW login, NEW secret, NEW now \in Int
  PROVE  RightlyAnswered(request, route, role, login, secret, now)
<1> DEFINE settings == [ttl |-> 2, secret |-> "now", issuer |-> "normeon"]
           limits == [upload |-> 3, request |-> 1]
           users == {[email |-> "a", tenant |-> 1, role |-> role,
                      password |-> HashPassword("right")]}
           token == IF login = "none" THEN NoToken
                    ELSE Login([settings EXCEPT !.secret = secret], users, "a", login, 1)
           fresh == [acceptable |-> TRUE, name |-> "fresh"]
           response == Respond(settings, limits, route, request, token, now, fresh)
           open == login = "right" /\ role \in Roles /\ secret = "now" /\ now \in 1..2
           caller == DecodeAccessToken(settings, token, now)
           someone == [user |-> "a", tenant |-> 1, role |-> role]
           body == BodyStatus(limits, request)
           status == IF body # 200 THEN body ELSE Admitted(route, caller)
<1>1. caller = IF open THEN someone ELSE NoToken
  <2>1. 2 \in Nat OBVIOUS
  <2>2. StandsForLogin(secret, "now", now, role, login, 2, "normeon")
    BY <2>1, TokenStandsForLogin
  <2>. QED BY <2>2 DEF StandsForLogin
<1>2. someone # NoToken /\ someone.tenant = 1 /\ someone.role = role
  <2>1. "user" \in DOMAIN someone /\ DOMAIN <<>> = {} OBVIOUS
  <2>2. someone # <<>> BY <2>1
  <2>. QED BY <2>2 DEF NoToken
<1>3. limits \in [upload : Nat, request : Nat] OBVIOUS
<1>4. response = [id |-> IF request.id.acceptable THEN request.id ELSE fresh,
                  status |-> status, caller |-> IF status = 200 THEN caller ELSE NoToken]
  BY DEF Respond, Identified
<1>5. fresh.acceptable OBVIOUS
<1>. HIDE DEF caller, someone, limits, settings, users, token, fresh, response
<1>6. /\ body = 200 /\ request.method = "POST" => request.length <= BodyLimit(limits, request.path)
      /\ request.method = "GET" => body = 200
  BY <1>3, BodyIsLimited
<1>7. Admitted(route, caller) = IF route.needs = "nobody" THEN 200
                                ELSE IF caller = NoToken THEN 401
                                ELSE IF route.needs = "admin" /\ caller.role # "admin" THEN 403
                                ELSE 200
  BY DEF Admitted
<1>8. /\ response.status = status /\ (status = 200 => response.caller = caller)
      /\ response.id.acceptable
  BY <1>4, <1>5 DEF Request
<1>. HIDE DEF body
<1>9. ASSUME status = 200
      PROVE  /\ request.method = "POST" => request.length <= BodyLimit(limits, request.path)
             /\ route.needs # "nobody" =>
                  open /\ response.caller.tenant = 1 /\ response.caller.role = role
             /\ route.needs = "admin" => role = "admin"
  <2>1. body = 200 /\ Admitted(route, caller) = 200 BY <1>9
  <2>2. route.needs # "nobody" => caller # NoToken BY <1>7, <2>1
  <2>3. route.needs = "admin" => caller.role = "admin" BY <1>7, <2>1, <2>2
  <2>. QED BY <1>1, <1>2, <1>6, <1>8, <1>9, <2>1, <2>2, <2>3
<1>10. ASSUME open, request.method = "GET"
       PROVE  status = IF route.needs = "admin" /\ role # "admin" THEN 403 ELSE 200
  <2>1. body = 200 /\ caller # NoToken /\ caller.role = role BY <1>1, <1>2, <1>6, <1>10
  <2>2. status = Admitted(route, caller) BY <2>1
  <2>. HIDE DEF status
  <2>. QED BY <1>7, <2>1, <2>2
<1>. QED BY <1>8, <1>9, <1>10 DEF RightlyAnswered, response, limits, settings, token, users, fresh

-----------------------------------------------------------------------------
(* Searching. *)

(* The first n elements of q. *)
Begins(c, q, n, V) ==
  /\ n \in Nat /\ n <= Len(q)
  /\ c \in Seq(V) /\ Len(c) = n /\ DOMAIN c = 1..n /\ \A i \in 1..n : c[i] = q[i]

(* Cut keeps the first k, or all. *)
LEMMA CutIs ==
  ASSUME NEW V, NEW q \in Seq(V), NEW k \in Nat
  PROVE  Begins(Cut(q, k), q, IF k <= Len(q) THEN k ELSE Len(q), V)
<1> DEFINE n == Len(q)
           m == IF k <= n THEN k ELSE n
<1>1. n \in Nat /\ \A i \in 1..n : q[i] \in V BY LenProperties, ElementOfSeq
<1>2. Cut(q, k) = SubSeq(q, 1, m)
  <2>1. Min({k, n}) = m
    <3>. HIDE DEF n
    <3>. QED BY <1>1, PairBounds
  <2>. QED BY <2>1 DEF Cut
<1>3. m \in Nat /\ m <= n /\ \A i \in 1..m : q[i] \in V BY <1>1
<1> DEFINE c == Cut(q, k)
<1>. HIDE DEF m, n
<1>4. c \in Seq(V) /\ Len(c) = (IF 1 <= m THEN m - 1 + 1 ELSE 0) /\ \A i \in 1 .. m - 1 + 1 : c[i] = q[1 + i - 1]
  BY <1>2, <1>3, SubSeqProperties
<1>. HIDE DEF c
<1>5. Len(c) = m /\ m - 1 + 1 = m /\ \A i \in 1..m : 1 + i - 1 = i BY <1>3, <1>4
<1>6. DOMAIN c = 1..m BY <1>4, <1>5, LenProperties
<1>. QED BY <1>3, <1>4, <1>5, <1>6 DEF Begins, c, m, n

-----------------------------------------------------------------------------
(* p puts q in order: better scores first, and ties as they came. *)
Orders(p, q, score) ==
  /\ p \in [DOMAIN q -> DOMAIN q]
  /\ StableBest(q, score) = [m \in DOMAIN q |-> q[p[m]]]
  /\ \A i, j \in DOMAIN q : p[i] = p[j] => i = j
  /\ \A i \in DOMAIN q : \E m \in DOMAIN q : p[m] = i
  /\ \A m, l \in DOMAIN q : m < l =>
       \/ score[q[p[m]]] > score[q[p[l]]]
       \/ score[q[p[m]]] = score[q[p[l]]] /\ p[m] < p[l]

(* Taking as the n-th the one with n - 1 ahead of it sorts. *)
LEMMA StableBestSorts ==
  ASSUME NEW n \in Nat, NEW q, DOMAIN q = 1..n, NEW score, \A i \in 1..n : score[q[i]] \in Int
  PROVE  \E p : Orders(p, q, score)
<1> DEFINE e == [i \in 1..n |-> [score |-> score[q[i]], place |-> i]]
           E == {[score |-> score[q[i]], place |-> i] : i \in DOMAIN q}
           before(j, i) == score[q[j]] > score[q[i]] \/ (score[q[j]] = score[q[i]] /\ j < i)
           c == [i \in 1..n |-> Cardinality(Ahead(E, e[i]))]
<1>1. /\ e \in [1..n -> E] /\ \A f \in E : \E i \in 1..n : e[i] = f
      /\ \A i, j \in 1..n : e[i] = e[j] => i = j
      /\ \A i \in 1..n : e[i].place = i /\ e[i].score = score[q[i]]
  OBVIOUS
<1>2. IsFiniteSet(E) /\ Cardinality(E) = n
  <2>1. IsFiniteSet(1..n) /\ Cardinality(1..n) = n BY FS_Interval
  <2>. HIDE DEF e, E
  <2>2. /\ e \in [1..n -> E] /\ \A f \in E : \E i \in 1..n : e[i] = f
        /\ \A i, j \in 1..n : e[i] = e[j] => i = j
    BY <1>1
  <2>3. IsFiniteSet(E) /\ Cardinality(E) = Cardinality(1..n) BY ONLY <2>1, <2>2, ImageOf
  <2>. QED BY <2>1, <2>3
<1>3. \A i, j \in 1..n : e[j] \in Ahead(E, e[i]) <=> before(j, i) BY <1>1 DEF Ahead
<1>. HIDE DEF e, E
<1>4. \A i \in 1..n : Ahead(E, e[i]) \in SUBSET E BY DEF Ahead
<1>5. \A i \in 1..n : IsFiniteSet(Ahead(E, e[i])) /\ c[i] \in Nat
  BY <1>2, <1>4, FS_Subset, FS_CardinalityType
<1>6. ASSUME NEW i \in 1..n PROVE c[i] <= n - 1
  <2> DEFINE R == E \ {e[i]}
             A == Ahead(E, e[i])
  <2>1. ~before(i, i) OBVIOUS
  <2>2. e[i] \notin A BY <1>3, <2>1
  <2>3. A \in SUBSET R BY <1>4, <2>2
  <2>4. IsFiniteSet(R) /\ Cardinality(R) = n - 1 BY <1>1, <1>2, FS_RemoveElement
  <2>5. c[i] = Cardinality(A) OBVIOUS
  <2>. HIDE DEF R, A, c
  <2>. QED BY <2>3, <2>4, <2>5, FS_Subset
<1>7. ASSUME NEW i \in 1..n, NEW j \in 1..n, before(i, j) PROVE c[i] < c[j]
  <2> DEFINE A == Ahead(E, e[i])
             B == Ahead(E, e[j])
             M == A \cup {e[i]}
  <2>1. ~before(i, i) /\ \A l \in 1..n : before(l, i) => before(l, j) BY <1>7
  <2>2. e[i] \notin A /\ e[i] \in B BY <1>3, <1>7, <2>1
  <2>3. A \subseteq B
    <3>. SUFFICES ASSUME NEW f \in A PROVE f \in B OBVIOUS
    <3>1. PICK l \in 1..n : e[l] = f BY <1>1, <1>4
    <3>. HIDE DEF before
    <3>. QED BY <1>3, <2>1, <3>1
  <2>4. M \in SUBSET B BY <2>2, <2>3
  <2>5. IsFiniteSet(A) /\ IsFiniteSet(B) /\ c[i] = Cardinality(A) /\ c[j] = Cardinality(B) /\ c[i] \in Nat /\ c[j] \in Nat
    BY <1>5
  <2>. HIDE DEF A, B, c, before
  <2>6. IsFiniteSet(M) /\ Cardinality(M) = Cardinality(A) + 1 BY <2>2, <2>5, FS_AddElement
  <2>. HIDE DEF M
  <2>7. Cardinality(M) <= Cardinality(B) BY <2>4, <2>5, FS_Subset
  <2>. QED BY <2>5, <2>6, <2>7
<1>8. \A i, j \in 1..n : i = j \/ before(i, j) \/ before(j, i) OBVIOUS
<1> DEFINE at == [i \in 1..n |-> c[i] + 1]
<1>9. at \in [1..n -> 1..n]
  <2>. HIDE DEF c
  <2>. QED BY <1>5, <1>6
<1>10. ASSUME NEW i \in 1..n, NEW j \in 1..n, at[i] = at[j] PROVE i = j
  <2>1. at[i] = c[i] + 1 /\ at[j] = c[j] + 1 /\ c[i] \in Nat /\ c[j] \in Nat BY <1>5
  <2>. HIDE DEF c, at, before
  <2>2. ~(c[i] < c[j]) /\ ~(c[j] < c[i])
    <3>1. \A x, y \in Nat : x + 1 = y + 1 => ~(x < y) /\ ~(y < x) OBVIOUS
    <3>2. c[i] + 1 = c[j] + 1 BY ONLY <1>10, <2>1
    <3>. QED BY <2>1, <3>1, <3>2
  <2>. QED BY <1>7, <1>8, <2>2
<1>. HIDE DEF at
<1>11. \A m \in 1..n : \E i \in 1..n : at[i] = m
  <2>1. at \in Injection(1..n, 1..n) BY <1>9, <1>10 DEF Injection, IsInjective
  <2>2. IsFiniteSet(1..n) BY FS_Interval
  <2>3. at \in Surjection(1..n, 1..n) BY <2>1, <2>2, FS_Injection
  <2>. QED BY <2>3 DEF Surjection
<1> DEFINE nth(m) == CHOOSE f \in E : Cardinality(Ahead(E, f)) = m - 1
           p == [m \in 1..n |-> nth(m).place]
<1>12. ASSUME NEW m \in 1..n PROVE p[m] \in 1..n /\ at[p[m]] = m
  <2>1. PICK i \in 1..n : at[i] = m BY <1>11
  <2>2. e[i] \in E /\ Cardinality(Ahead(E, e[i])) = m - 1
    <3>1. at[i] = c[i] + 1 /\ c[i] = Cardinality(Ahead(E, e[i])) /\ c[i] \in Nat BY <1>5 DEF at
    <3>. HIDE DEF c
    <3>. QED BY <1>1, <2>1, <3>1
  <2>3. nth(m) \in E /\ Cardinality(Ahead(E, nth(m))) = m - 1 BY <2>2
  <2>. HIDE DEF nth
  <2>4. PICK j \in 1..n : e[j] = nth(m) BY <1>1, <2>3
  <2>5. p[m] = j BY <1>1, <2>4
  <2>6. at[j] = c[j] + 1 /\ c[j] = m - 1 BY <2>3, <2>4 DEF at
  <2>. HIDE DEF p, c
  <2>. QED BY <2>5, <2>6
<1>13. p \in [1..n -> 1..n]
  <2>1. p = [m \in 1..n |-> p[m]] OBVIOUS
  <2>. HIDE DEF p
  <2>. QED BY <1>12, <2>1
<1>14. StableBest(q, score) = [m \in 1..n |-> q[p[m]]] BY DEF StableBest, E
<1>. HIDE DEF p
<1>15. \A i, j \in 1..n : p[i] = p[j] => i = j BY <1>12
<1>16. \A i \in 1..n : \E m \in 1..n : p[m] = i
  <2>. SUFFICES ASSUME NEW i \in 1..n PROVE p[at[i]] = i /\ at[i] \in 1..n OBVIOUS
  <2>1. at[i] \in 1..n BY <1>9
  <2>2. p[at[i]] \in 1..n /\ at[p[at[i]]] = at[i] BY <1>12, <2>1
  <2>. QED BY <1>10, <2>1, <2>2
<1>17. ASSUME NEW m \in 1..n, NEW l \in 1..n, m < l PROVE before(p[m], p[l])
  <2>1. p[m] \in 1..n /\ p[l] \in 1..n /\ at[p[m]] = m /\ at[p[l]] = l BY <1>12
  <2>2. at[p[m]] = c[p[m]] + 1 /\ at[p[l]] = c[p[l]] + 1 /\ c[p[m]] \in Nat /\ c[p[l]] \in Nat
    BY <1>5, <2>1 DEF at
  <2>. HIDE DEF before, c
  <2>3. ~(p[m] = p[l]) /\ ~(c[p[l]] < c[p[m]]) BY SMTT(60), <1>17, <2>1, <2>2
  <2>. QED BY <1>7, <1>8, <2>1, <2>3
<1>18. Orders(p, q, score) BY <1>13, <1>14, <1>15, <1>16, <1>17 DEF Orders
<1>. QED BY <1>18

-----------------------------------------------------------------------------
(* Whatever the cache holds, the ranking is that of the reranker alone. *)
THEOREM CacheDoesNotShow ==
  ASSUME NEW score, NEW known, NEW chunks, NEW top \in Nat
  PROVE  LET cache == Restrict(score, known)
             best == [c \in ToSet(chunks) |-> score[c.content]]
             first == CachedRerank(score, cache, chunks, top)
             again == CachedRerank(score, first.cache, chunks, top)
         IN /\ first.hits = Rerank(chunks, best, top)
            /\ first.scored \cap known = {}
            /\ again.scored = {} /\ again.hits = first.hits
<1> DEFINE cache == Restrict(score, known)
           best == [c \in ToSet(chunks) |-> score[c.content]]
           first == CachedRerank(score, cache, chunks, top)
           again == CachedRerank(score, first.cache, chunks, top)
           texts == {c.content : c \in ToSet(chunks)}
           now == [t \in known \cup texts |-> score[t]]
           hits == IF chunks = <<>> THEN <<>> ELSE Cut(StableBest(chunks, best), top)
<1>1. DOMAIN cache = known /\ \A t \in known : cache[t] = score[t] BY DEF Restrict
<1>. HIDE DEF cache
<1>2. Missing(cache, chunks) = texts \ known /\ known \cup (texts \ known) = known \cup texts
  BY <1>1 DEF Missing
<1>3. [t \in known \cup texts |-> IF t \in known THEN cache[t] ELSE score[t]] = now BY <1>1
<1>4. [c \in ToSet(chunks) |-> now[c.content]] = best OBVIOUS
<1>5. first.cache = now /\ first.scored = texts \ known /\ first.hits = hits
  <2>. HIDE DEF texts, best
  <2>1. first.cache = [t \in known \cup texts |-> IF t \in known THEN cache[t] ELSE score[t]] /\ first.scored = texts \ known
    BY <1>1, <1>2 DEF CachedRerank
  <2>2. first.hits = IF chunks = <<>> THEN <<>> ELSE Cut(StableBest(chunks, [c \in ToSet(chunks) |-> first.cache[c.content]]), top)
    BY DEF CachedRerank
  <2>. QED BY <1>3, <1>4, <2>1, <2>2
<1>. HIDE DEF first
<1>6. again.scored = {} /\ again.hits = hits
  <2>1. DOMAIN now = known \cup texts /\ Missing(now, chunks) = {} /\ DOMAIN now \cup {} = DOMAIN now
    BY DEF Missing
  <2>2. [t \in DOMAIN now |-> IF t \in DOMAIN now THEN now[t] ELSE score[t]] = now OBVIOUS
  <2>. HIDE DEF now, best
  <2>3. again.cache = now /\ again.scored = {} BY <1>5, <2>1, <2>2 DEF CachedRerank
  <2>4. again.hits = IF chunks = <<>> THEN <<>> ELSE Cut(StableBest(chunks, [c \in ToSet(chunks) |-> again.cache[c.content]]), top)
    BY DEF CachedRerank
  <2>. QED BY <1>4, <2>3, <2>4
<1>7. hits = Rerank(chunks, best, top)
  <2>1. CASE chunks = <<>>
    <3>1. StableBest(<<>>, best) = <<>> BY DEF StableBest
    <3>2. <<>> \in Seq({}) /\ Len(<<>>) = 0 BY EmptySeq
    <3>3. Begins(Cut(<<>>, top), <<>>, IF top <= Len(<<>>) THEN top ELSE Len(<<>>), {})
      BY <3>2, CutIs
    <3>4. Cut(<<>>, top) = <<>>
      <4>1. \A s \in Seq({}) : s # <<>> => Len(s) # 0 BY EmptySeq
      <4>. QED BY <3>2, <3>3, <4>1 DEF Begins
    <3>. QED BY <2>1, <3>1, <3>4 DEF Rerank
  <2>2. CASE chunks # <<>> BY <2>2 DEF Rerank
  <2>. QED BY <2>1, <2>2
<1>. QED BY <1>5, <1>6, <1>7 DEF first, cache

(* Two traces that take the same steps up to m have the same there. *)
LEMMA SameTrace ==
  ASSUME NEW m \in Nat, NEW f, NEW g, f[0] = g[0],
         \A i \in 1..m : f[i - 1] = g[i - 1] => f[i] = g[i]
  PROVE  \A i \in 0..m : f[i] = g[i]
<1> DEFINE S == {i \in 0..m : f[i] = g[i]}
<1>1. 0 \in S /\ \A i \in 1..m : i - 1 \in S => i \in S OBVIOUS
<1>2. \A i \in 0..m : i \in S
  <2>. HIDE DEF S
  <2>. QED BY <1>1, InductionUpTo
<1>. QED BY <1>2

-----------------------------------------------------------------------------
(* The context. *)

(* f is the trace of the words of q: how many there are up to each place. *)
Counts(f, q, n) ==
  /\ f \in [0..n -> Nat] /\ f[0] = 0 /\ \A i \in 1..n : f[i] = f[i - 1] + q[i].words
  /\ Words(q) = f[n]

(* The words are counted along the chunks. *)
LEMMA WordsTrace ==
  ASSUME NEW q, NEW n \in Nat, DOMAIN q = 1..n, \A i \in 1..n : q[i].words \in Nat
  PROVE  \E f : Counts(f, q, n)
<1> DEFINE base == 0
           step == [p \in Nat \X (1..n) |-> p[1] + q[p[2]].words]
           Is(g) == g = [s \in SUBSET (1..n) |->
                          IF s = {} THEN base ELSE g[s \ {Max(s)}] + q[Max(s)].words]
           it == CHOOSE h : Is(h)
<1>1. step \in [Nat \X (1..n) -> Nat] /\ \A a \in Nat : \A i \in 1..n : step[<<a, i>>] = a + q[i].words
  OBVIOUS
<1>2. base = 0 => Words(q) = it[1..n] BY DEF Words, FoldLeft, MapThenFoldSet
<1>. HIDE DEF step, base
<1>3. base \in Nat BY DEF base
<1>4. PICK g \in [SUBSET (1..n) -> Nat] : Iterates(g, n, base, step)
  BY <1>1, <1>3, IterationExists DEF HasIterate
<1>5. ASSUME NEW s \in SUBSET (1..n), s # {}
      PROVE  g[s] = g[s \ {Max(s)}] + q[Max(s)].words
  <2>1. Max(s) \in 1..n /\ g[s \ {Max(s)}] \in Nat BY Zenon, <1>5, MaxOfUpTo
  <2>2. g[s] = step[<<g[s \ {Max(s)}], Max(s)>>] BY <1>4, <1>5 DEF Iterates
  <2>. QED BY <1>1, <2>1, <2>2
<1>6. Is(it)
  <2>1. Is(g) BY <1>4, <1>5 DEF Iterates
  <2>. QED BY Zenon, <2>1
<1>. HIDE DEF it
<1>7. Folded(it, n, Nat, base, step)
  <2>1. \A s \in SUBSET (1..n) : it[s] = IF s = {} THEN base ELSE it[s \ {Max(s)}] + q[Max(s)].words
    BY Zenon, <1>6
  <2>2. \A s \in SUBSET (1..n) : s # {} => Max(s) \in 1..n BY Zenon, MaxOfUpTo
  <2>. QED BY <1>1, <2>1, <2>2 DEF Folded
<1>8. PICK f : Follows(f, n, Nat, base, step) /\ f[n] = it[1..n]
  <2>1. Traced(n, Nat, base, step, it[1..n]) BY <1>1, <1>3, <1>7, FoldFollows
  <2>. QED BY <2>1 DEF Traced
<1>9. \A i \in 1..n : f[i - 1] \in Nat BY <1>8 DEF Follows
<1>10. Counts(f, q, n) BY <1>1, <1>2, <1>8, <1>9 DEF Follows, Counts, base
<1>. QED BY <1>10

(* No chunks have no words. *)
LEMMA WordsOfNothing == Words(<<>>) = 0
<1> DEFINE e == <<>>
<1>1. DOMAIN e = 1..0 /\ 1..0 = {} /\ 0 \in Nat OBVIOUS
<1>2. \A i \in 1..0 : e[i].words \in Nat BY <1>1
<1>. HIDE DEF e
<1>3. \E h : Counts(h, e, 0) BY <1>1, <1>2, WordsTrace
<1>. QED BY <1>3 DEF Counts, e

(* The words of some chunks and one more. *)
LEMMA WordsAppend ==
  ASSUME NEW C, \A c \in C : c.words \in Nat, NEW q \in Seq(C), NEW c \in C
  PROVE  /\ Words(q) \in Nat /\ Words(<<>>) = 0
         /\ Words(Append(q, c)) = Words(q) + c.words
<1> DEFINE n == Len(q)
           more == Append(q, c)
<1>1. /\ n \in Nat /\ DOMAIN q = 1..n /\ \A i \in 1..n : q[i] \in C
      /\ DOMAIN more = 1 .. n + 1 /\ more[n + 1] = c /\ \A i \in 1..n : more[i] = q[i]
  BY AppendIs
<1>. HIDE DEF n, more
<1>2. PICK f : Counts(f, q, n) BY <1>1, WordsTrace
<1>3. PICK g : Counts(g, more, n + 1)
  <2>1. n + 1 \in Nat /\ \A i \in 1 .. n + 1 : more[i].words \in Nat BY <1>1
  <2>. QED BY <1>1, <2>1, WordsTrace
<1>4. Words(<<>>) = 0 BY WordsOfNothing
<1>5. \A i \in 0..n : f[i] = g[i]
  <2>1. f[0] = g[0] BY <1>2, <1>3 DEF Counts
  <2>2. \A i \in 1..n : f[i - 1] = g[i - 1] => f[i] = g[i]
    <3>. SUFFICES ASSUME NEW i \in 1..n, f[i - 1] = g[i - 1] PROVE f[i] = g[i] OBVIOUS
    <3>1. i \in 1 .. n + 1 /\ more[i] = q[i] BY <1>1
    <3>. QED BY <1>2, <1>3, <3>1 DEF Counts
  <2>3. n \in Nat BY <1>1
  <2>. QED BY ZenonT(40), <2>1, <2>2, <2>3, SameTrace
<1>6. n \in 0..n /\ n + 1 \in 1 .. n + 1 /\ n + 1 - 1 = n BY <1>1
<1>7. g[n + 1] = g[n] + c.words BY <1>1, <1>3, <1>6 DEF Counts
<1>8. Words(more) = g[n + 1] /\ Words(q) = f[n] /\ f[n] \in Nat BY <1>2, <1>3, <1>6 DEF Counts
<1>. QED BY <1>4, <1>5, <1>6, <1>7, <1>8 DEF more

(* What has been selected of chunks of C, and whether there is room. *)
Selection(C) == [chunks : Seq(C), full : BOOLEAN]

(* f is the trace of the selection. *)
Selects(f, q, n, C, budget) ==
  /\ f \in [0..n -> Selection(C)] /\ f[0] = [chunks |-> <<>>, full |-> FALSE]
  /\ \A i \in 1..n : f[i] = SelectNext(budget, f[i - 1], q[i])
  /\ SelectContext(q, budget) = f[n].chunks

(* One chunk's turn. *)
LEMMA SelectNextIs ==
  ASSUME NEW C, NEW a \in Selection(C), NEW c \in C, NEW budget
  PROVE  /\ SelectNext(budget, a, c) \in Selection(C)
         /\ \/ /\ SelectNext(budget, a, c) = a
               /\ a.full \/ \E i \in 1 .. Len(a.chunks) : SameSection(c, a.chunks[i])
            \/ /\ SelectNext(budget, a, c) = [chunks |-> a.chunks, full |-> TRUE]
               /\ ~a.full /\ \A i \in 1 .. Len(a.chunks) : ~SameSection(c, a.chunks[i])
               /\ a.chunks # <<>> /\ Words(a.chunks) + c.words > budget
            \/ /\ SelectNext(budget, a, c) = [chunks |-> Append(a.chunks, c), full |-> FALSE]
               /\ ~a.full /\ \A i \in 1 .. Len(a.chunks) : ~SameSection(c, a.chunks[i])
               /\ a.chunks = <<>> \/ ~(Words(a.chunks) + c.words > budget)
<1> DEFINE q == a.chunks
<1>1. a = [chunks |-> q, full |-> a.full] /\ q \in Seq(C) /\ a.full \in BOOLEAN BY DEF Selection
<1>2. Append(q, c) \in Seq(C) /\ DOMAIN q = 1 .. Len(q) BY <1>1, AppendIs
<1>. HIDE DEF q
<1> DEFINE same == \E i \in 1 .. Len(q) : SameSection(c, q[i])
           over == Words(q) + c.words > budget
<1>3. SelectNext(budget, a, c) =
        IF a.full \/ same THEN a
        ELSE IF q # <<>> /\ over THEN [a EXCEPT !.full = TRUE] ELSE [a EXCEPT !.chunks = Append(q, c)]
  BY <1>2 DEF SelectNext, q
<1>4. [a EXCEPT !.full = TRUE] = [chunks |-> q, full |-> TRUE]
  <2> DEFINE yes == TRUE
  <2>. HIDE DEF yes
  <2>1. [a EXCEPT !.full = yes] = [chunks |-> q, full |-> yes] BY <1>1
  <2>. QED BY Zenon, <2>1 DEF yes
<1>5. [a EXCEPT !.chunks = Append(q, c)] = [chunks |-> Append(q, c), full |-> a.full]
  <2> DEFINE more == Append(q, c)
  <2>. HIDE DEF more
  <2>1. [a EXCEPT !.chunks = more] = [chunks |-> more, full |-> a.full] BY <1>1
  <2>. QED BY <2>1 DEF more
<1>6. [chunks |-> q, full |-> TRUE] \in Selection(C) /\ [chunks |-> Append(q, c), full |-> a.full] \in Selection(C)
  BY <1>1, <1>2 DEF Selection
<1>. HIDE DEF over
<1>7. CASE a.full \/ same BY <1>3, <1>7 DEF q
<1>8. CASE ~a.full /\ ~same
  <2>1. a.full = FALSE BY <1>1, <1>8
  <2>2. CASE q # <<>> /\ over
    <3>1. SelectNext(budget, a, c) = [chunks |-> q, full |-> TRUE] BY <1>3, <1>4, <1>8, <2>2
    <3>. QED BY <1>6, <1>8, <2>2, <3>1 DEF q, over
  <2>3. CASE ~(q # <<>> /\ over)
    <3>1. SelectNext(budget, a, c) = [chunks |-> Append(q, c), full |-> FALSE]
      BY <1>3, <1>5, <1>8, <2>1, <2>3
    <3>. QED BY <1>6, <1>8, <2>1, <2>3, <3>1 DEF q, over
  <2>. QED BY <2>2, <2>3
<1>. QED BY <1>7, <1>8

(* The selection has a trace. *)
HasSelection(q, n, C, budget) == \E f : Selects(f, q, n, C, budget)

(* The chunks are selected one after the other. *)
LEMMA SelectTrace ==
  ASSUME NEW C, NEW q, NEW n \in Nat, DOMAIN q = 1..n, \A i \in 1..n : q[i] \in C, NEW budget
  PROVE  HasSelection(q, n, C, budget)
<1> DEFINE base == [chunks |-> <<>>, full |-> FALSE]
           X == Selection(C)
           step == [p \in X \X (1..n) |-> SelectNext(budget, p[1], q[p[2]])]
           Is(g) == g = [s \in SUBSET (1..n) |->
                          IF s = {} THEN base ELSE SelectNext(budget, g[s \ {Max(s)}], q[Max(s)])]
           it == CHOOSE h : Is(h)
<1>1. \A a \in X : \A i \in 1..n : SelectNext(budget, a, q[i]) \in X BY SelectNextIs
<1>2. base \in X BY EmptySeq DEF Selection
<1>3. SelectContext(q, budget) = it[1..n].chunks BY DEF SelectContext, FoldLeft, MapThenFoldSet
<1>. HIDE DEF base, X
<1>4. step \in [X \X (1..n) -> X] /\ \A a \in X : \A i \in 1..n : step[<<a, i>>] = SelectNext(budget, a, q[i])
  BY <1>1
<1>. HIDE DEF step
<1>5. PICK g \in [SUBSET (1..n) -> X] : Iterates(g, n, base, step)
  BY <1>2, <1>4, IterationExists DEF HasIterate
<1>6. ASSUME NEW s \in SUBSET (1..n), s # {}
      PROVE  g[s] = SelectNext(budget, g[s \ {Max(s)}], q[Max(s)])
  <2>1. Max(s) \in 1..n /\ g[s \ {Max(s)}] \in X BY Zenon, <1>6, MaxOfUpTo
  <2>2. g[s] = step[<<g[s \ {Max(s)}], Max(s)>>] BY <1>5, <1>6 DEF Iterates
  <2>. QED BY <1>4, <2>1, <2>2
<1>7. Is(it)
  <2>1. Is(g) BY <1>5, <1>6 DEF Iterates
  <2>. QED BY Zenon, <2>1
<1>. HIDE DEF it
<1>8. Folded(it, n, X, base, step)
  <2>1. \A s \in SUBSET (1..n) : it[s] = IF s = {} THEN base ELSE SelectNext(budget, it[s \ {Max(s)}], q[Max(s)])
    BY Zenon, <1>7
  <2>2. \A s \in SUBSET (1..n) : s # {} => Max(s) \in 1..n BY Zenon, MaxOfUpTo
  <2>. QED BY <1>4, <2>1, <2>2 DEF Folded
<1>9. PICK f : Follows(f, n, X, base, step) /\ f[n] = it[1..n]
  <2>1. Traced(n, X, base, step, it[1..n]) BY <1>2, <1>4, <1>8, FoldFollows
  <2>. QED BY <2>1 DEF Traced
<1>10. \A i \in 1..n : f[i - 1] \in X BY <1>9 DEF Follows
<1>11. Selects(f, q, n, C, budget) BY <1>3, <1>4, <1>9, <1>10 DEF Follows, Selects, base, X
<1>. QED BY <1>11 DEF HasSelection

-----------------------------------------------------------------------------
(* Chunks with their places, which these words and sections belong to. *)
RankedChunk == [rank : Nat, document : Nat, section : STRING, words : Nat]

(* The j-th chunk is in the context, or its section is. *)
Placed(q, context, j) ==
  \E a \in 1 .. Len(context) : context[a] = q[j] \/ SameSection(q[j], context[a])

(* What is selected of the first i chunks: in their order, the best one,   *)
(* within the budget, of each section once; what is not in it is repeated  *)
(* or comes once it is full.                                               *)
Kept(q, budget, i, acc) ==
  LET context == acc.chunks
      m == Len(context)
  IN /\ \A a \in 1..m : context[a].rank \in 1..i /\ context[a] = q[context[a].rank]
     /\ \A a, b \in 1..m : a < b => context[a].rank < context[b].rank
     /\ i >= 1 => m >= 1 /\ context[1].rank = 1
     /\ Words(context) <= budget \/ m = 1
     /\ \A a, b \in 1..m : a # b => ~SameSection(context[a], context[b])
     /\ ~acc.full => \A j \in 1..i : Placed(q, context, j)
     /\ acc.full => \E l \in 1..i : /\ ~Placed(q, context, l) /\ Words(context) + q[l].words > budget
                                    /\ \A j \in 1 .. l - 1 : Placed(q, context, j)

(* A chunk's turn keeps that. *)
LEMMA TurnKeeps ==
  ASSUME NEW q \in Seq(RankedChunk), NEW budget \in Nat, NEW i \in 1 .. Len(q), q[i].rank = i,
         NEW acc \in Selection(RankedChunk), Kept(q, budget, i - 1, acc)
  PROVE  Kept(q, budget, i, SelectNext(budget, acc, q[i]))
<1> DEFINE c == q[i]
           s == acc.chunks
           m == Len(s)
           next == SelectNext(budget, acc, c)
<1>1. /\ i \in Nat /\ i >= 1 /\ c \in RankedChunk /\ c.rank = i
      /\ s \in Seq(RankedChunk) /\ m \in Nat /\ acc.full \in BOOLEAN
      /\ \A a \in 1..m : s[a] \in RankedChunk
  BY ElementOfSeq, LenProperties DEF Selection
<1>2. Words(s) \in Nat /\ c.words \in Nat
  <2>1. \A d \in RankedChunk : d.words \in Nat BY DEF RankedChunk
  <2>. HIDE DEF s
  <2>. QED BY <1>1, <2>1, WordsAppend
<1>. HIDE DEF next
<1>. SUFFICES Kept(q, budget, i, next) BY DEF next
<1>3. CASE next = acc /\ acc.full
  <2>1. PICK l \in 1 .. i - 1 : /\ ~Placed(q, s, l) /\ Words(s) + q[l].words > budget
                                /\ \A j \in 1 .. l - 1 : Placed(q, s, j)
    BY <1>3 DEF Kept
  <2>2. i - 1 >= 1 /\ l \in 1..i BY <1>1, <2>1
  <2>3. \A a \in 1..m : s[a].rank \in 1..i BY <1>1 DEF Kept
  <2>4. next.chunks = s /\ next.full BY <1>3
  <2>. HIDE DEF s
  <2>. QED BY <2>1, <2>2, <2>3, <2>4 DEF Kept, s
<1>4. CASE next = acc /\ ~acc.full /\ \E a \in 1..m : SameSection(c, s[a])
  <2>1. PICK a \in 1..m : SameSection(c, s[a]) BY <1>4
  <2>2. s[a].rank \in 1 .. i - 1 /\ \A b \in 1..m : s[b].rank \in 1..i BY <1>1 DEF Kept
  <2>3. i - 1 >= 1 BY <1>1, <2>2
  <2>4. Placed(q, s, i) /\ \A j \in 1..i : j = i \/ j \in 1 .. i - 1 BY <1>1, <2>1 DEF Placed
  <2>5. \A j \in 1..i : Placed(q, s, j) BY <1>4, <2>4 DEF Kept
  <2>6. next.chunks = s /\ ~next.full BY <1>4
  <2>. HIDE DEF s
  <2>. QED BY <2>2, <2>3, <2>5, <2>6 DEF Kept, s
<1>5. CASE /\ next = [chunks |-> s, full |-> TRUE]
           /\ ~acc.full /\ \A a \in 1..m : ~SameSection(c, s[a])
           /\ s # <<>> /\ Words(s) + c.words > budget
  <2>1. ~Placed(q, s, i)
    <3>1. \A a \in 1..m : s[a].rank \in 1 .. i - 1 BY DEF Kept
    <3>. QED BY <1>1, <1>5, <3>1 DEF Placed
  <2>2. \A j \in 1 .. i - 1 : Placed(q, s, j) BY <1>5 DEF Kept
  <2>3. m >= 1 BY <1>1, <1>5, EmptySeq
  <2>4. s[1].rank \in 1 .. i - 1 /\ \A b \in 1..m : s[b].rank \in 1..i BY <1>1, <2>3 DEF Kept
  <2>5. i - 1 >= 1 BY <1>1, <2>4
  <2>6. next.chunks = s /\ next.full BY <1>5
  <2>7. \E l \in 1..i : /\ ~Placed(q, s, l) /\ Words(s) + q[l].words > budget
                        /\ \A j \in 1 .. l - 1 : Placed(q, s, j)
    BY <1>1, <1>5, <2>1, <2>2
  <2>. HIDE DEF s, c
  <2>. QED BY <2>4, <2>5, <2>6, <2>7 DEF Kept, s
<1>6. CASE /\ next = [chunks |-> Append(s, c), full |-> FALSE]
           /\ ~acc.full /\ \A a \in 1..m : ~SameSection(c, s[a])
           /\ s = <<>> \/ ~(Words(s) + c.words > budget)
  <2> DEFINE t == Append(s, c)
  <2>1. /\ Len(t) = m + 1 /\ t[m + 1] = c /\ \A a \in 1..m : t[a] = s[a] BY <1>1, AppendIs
  <2>2. Words(t) = Words(s) + c.words
    <3>1. \A d \in RankedChunk : d.words \in Nat BY DEF RankedChunk
    <3>. HIDE DEF s, c
    <3>. QED BY <1>1, <3>1, WordsAppend
  <2>3. next.chunks = t /\ ~next.full BY <1>6
  <2>. HIDE DEF t, s, c, m
  <2>4. \A a \in 1 .. m + 1 : a = m + 1 \/ a \in 1..m BY <1>1
  <2>5. \A a \in 1..m : s[a].rank \in 1 .. i - 1 /\ s[a] = q[s[a].rank] BY DEF Kept, s, m
  <2>6. \A a \in 1 .. m + 1 : t[a].rank \in 1..i /\ t[a] = q[t[a].rank]
    <3>. SUFFICES ASSUME NEW a \in 1 .. m + 1 PROVE t[a].rank \in 1..i /\ t[a] = q[t[a].rank]
      OBVIOUS
    <3>1. CASE a = m + 1 BY <1>1, <2>1, <3>1 DEF c
    <3>2. CASE a \in 1..m
      <4>1. t[a] = s[a] /\ s[a].rank \in 1 .. i - 1 /\ s[a] = q[s[a].rank] BY <2>1, <2>5, <3>2
      <4>. QED BY <1>1, <4>1
    <3>. QED BY <2>4, <3>1, <3>2
  <2>7. \A a, b \in 1 .. m + 1 : a < b => t[a].rank < t[b].rank
    <3>. SUFFICES ASSUME NEW a \in 1 .. m + 1, NEW b \in 1 .. m + 1, a < b PROVE t[a].rank < t[b].rank
      OBVIOUS
    <3>1. a \in 1..m BY <1>1
    <3>2. t[a] = s[a] /\ s[a].rank \in 1 .. i - 1 BY <2>1, <2>5, <3>1
    <3>3. CASE b = m + 1 BY <1>1, <2>1, <3>2, <3>3
    <3>4. CASE b \in 1..m
      <4>1. s[a].rank < s[b].rank BY <3>1, <3>4 DEF Kept, s, m
      <4>. QED BY <2>1, <3>2, <3>4, <4>1
    <3>. QED BY <2>4, <3>3, <3>4
  <2>8. m + 1 >= 1 /\ t[1].rank = 1
    <3>1. CASE m = 0
      <4>1. i = 1
        <5>1. ~(i - 1 >= 1) BY <1>1, <3>1 DEF Kept, s, m
        <5>. QED BY <1>1, <5>1
      <4>. QED BY <1>1, <2>1, <3>1, <4>1
    <3>2. CASE m # 0
      <4>1. 1 \in 1..m BY <1>1, <3>2
      <4>2. i - 1 >= 1 BY <1>1, <2>5, <4>1
      <4>3. s[1].rank = 1 BY <4>2 DEF Kept, s
      <4>. QED BY <1>1, <2>1, <4>1, <4>3
    <3>. QED BY <3>1, <3>2
  <2>9. Words(t) <= budget \/ m + 1 = 1
    <3>1. CASE s = <<>>
      <4>1. m = 0 BY <3>1, EmptySeq DEF m
      <4>. QED BY <4>1
    <3>2. CASE ~(Words(s) + c.words > budget) BY <1>2, <2>2, <3>2
    <3>. QED BY <1>6, <3>1, <3>2
  <2>10. \A a, b \in 1 .. m + 1 : a # b => ~SameSection(t[a], t[b])
    <3>. SUFFICES ASSUME NEW a \in 1 .. m + 1, NEW b \in 1 .. m + 1, a # b PROVE ~SameSection(t[a], t[b])
      OBVIOUS
    <3>1. \A d \in 1..m : ~SameSection(c, s[d]) /\ ~SameSection(s[d], c)
      <4>1. \A x, y : SameSection(x, y) => SameSection(y, x) BY DEF SameSection
      <4>. QED BY <1>6, <4>1
    <3>2. CASE a \in 1..m /\ b \in 1..m
      <4>1. ~SameSection(s[a], s[b]) BY <3>2 DEF Kept, s, m
      <4>. QED BY <2>1, <3>2, <4>1
    <3>3. CASE a = m + 1 /\ b \in 1..m BY <2>1, <3>1, <3>3
    <3>4. CASE a \in 1..m /\ b = m + 1 BY <2>1, <3>1, <3>4
    <3>. QED BY <2>4, <3>2, <3>3, <3>4
  <2>11. \A j \in 1..i : Placed(q, t, j)
    <3>. SUFFICES ASSUME NEW j \in 1..i PROVE Placed(q, t, j) OBVIOUS
    <3>1. CASE j = i
      <4>1. m + 1 \in 1 .. Len(t) /\ t[m + 1] = q[j] BY <1>1, <2>1, <3>1 DEF c
      <4>. QED BY <4>1 DEF Placed
    <3>2. CASE j \in 1 .. i - 1
      <4>1. PICK a \in 1..m : s[a] = q[j] \/ SameSection(q[j], s[a])
        BY <1>6, <3>2 DEF Kept, Placed, s, m
      <4>2. a \in 1 .. Len(t) /\ t[a] = s[a] BY <1>1, <2>1, <4>1
      <4>. QED BY <4>1, <4>2 DEF Placed
    <3>. QED BY <1>1, <3>1, <3>2
  <2>. QED BY <2>1, <2>3, <2>6, <2>7, <2>8, <2>9, <2>10, <2>11 DEF Kept
<1>7. \/ next = acc /\ acc.full
      \/ next = acc /\ ~acc.full /\ \E a \in 1..m : SameSection(c, s[a])
      \/ /\ next = [chunks |-> s, full |-> TRUE]
         /\ ~acc.full /\ \A a \in 1..m : ~SameSection(c, s[a])
         /\ s # <<>> /\ Words(s) + c.words > budget
      \/ /\ next = [chunks |-> Append(s, c), full |-> FALSE]
         /\ ~acc.full /\ \A a \in 1..m : ~SameSection(c, s[a])
         /\ s = <<>> \/ ~(Words(s) + c.words > budget)
  <2>. HIDE DEF c
  <2>1. \/ /\ SelectNext(budget, acc, c) = acc
           /\ acc.full \/ \E a \in 1 .. Len(acc.chunks) : SameSection(c, acc.chunks[a])
        \/ /\ SelectNext(budget, acc, c) = [chunks |-> acc.chunks, full |-> TRUE]
           /\ ~acc.full /\ \A a \in 1 .. Len(acc.chunks) : ~SameSection(c, acc.chunks[a])
           /\ acc.chunks # <<>> /\ Words(acc.chunks) + c.words > budget
        \/ /\ SelectNext(budget, acc, c) = [chunks |-> Append(acc.chunks, c), full |-> FALSE]
           /\ ~acc.full /\ \A a \in 1 .. Len(acc.chunks) : ~SameSection(c, acc.chunks[a])
           /\ acc.chunks = <<>> \/ ~(Words(acc.chunks) + c.words > budget)
    BY <1>1, SelectNextIs
  <2>. QED BY <2>1 DEF next
<1>. HIDE DEF s, c, m
<1>. QED BY <1>3, <1>4, <1>5, <1>6, <1>7

(* Filling the context keeps what a chunk's turn keeps. *)
LEMMA SelectionKeeps ==
  ASSUME NEW q \in Seq(RankedChunk), \A i \in 1 .. Len(q) : q[i].rank = i, NEW budget \in Nat
  PROVE  \E acc \in Selection(RankedChunk) :
           Kept(q, budget, Len(q), acc) /\ acc.chunks = SelectContext(q, budget)
<1> DEFINE n == Len(q)
<1>1. n \in Nat /\ DOMAIN q = 1..n /\ \A i \in 1..n : q[i] \in RankedChunk
  BY LenProperties, ElementOfSeq
<1>2. PICK f : Selects(f, q, n, RankedChunk, budget)
  <2>. HIDE DEF n
  <2>1. HasSelection(q, n, RankedChunk, budget) BY <1>1, SelectTrace
  <2>. QED BY <2>1 DEF HasSelection
<1>3. /\ f \in [0..n -> Selection(RankedChunk)] /\ f[0] = [chunks |-> <<>>, full |-> FALSE]
      /\ \A i \in 1..n : f[i] = SelectNext(budget, f[i - 1], q[i])
      /\ SelectContext(q, budget) = f[n].chunks
  BY <1>2 DEF Selects
<1> DEFINE S == {i \in 0..n : Kept(q, budget, i, f[i])}
<1>4. 0 \in S
  <2>1. f[0].chunks = <<>> /\ ~f[0].full /\ Len(<<>>) = 0 BY <1>3
  <2>2. Words(<<>>) = 0 BY WordsOfNothing
  <2>3. Kept(q, budget, 0, f[0]) BY <2>1, <2>2 DEF Kept
  <2>. QED BY <1>1, <2>3
<1>5. ASSUME NEW i \in 1..n, i - 1 \in S PROVE i \in S
  <2>1. f[i - 1] \in Selection(RankedChunk) /\ Kept(q, budget, i - 1, f[i - 1]) /\ q[i].rank = i
    BY <1>1, <1>3, <1>5
  <2>2. Kept(q, budget, i, SelectNext(budget, f[i - 1], q[i])) BY <2>1, TurnKeeps
  <2>. QED BY <1>1, <1>3, <2>2
<1>6. \A i \in 0..n : i \in S
  <2>1. \A i \in 1..n : i - 1 \in S => i \in S BY <1>5
  <2>2. n \in Nat BY <1>1
  <2>. HIDE DEF S, n
  <2>. QED BY <1>4, <2>1, <2>2, InductionUpTo
<1>7. n \in 0..n /\ n \in S BY <1>1, <1>6
<1>. QED BY <1>3, <1>7

(* A context of the chunks of items, as the callers rely on it. *)
FilledGreedily(items, budget) ==
  LET chunks == Ranked(items)
      context == SelectContext(chunks, budget)
      twins(c, d) == /\ c.section # "" /\ c.rank # d.rank
                     /\ <<c.document, c.section>> = <<d.document, d.section>>
      repeated(c) == \E d \in ToSet(context) : twins(c, d)
      tooLong(c) == Words(context) + c.words > budget
  IN /\ Increasing([i \in DOMAIN context |-> context[i].rank])
     /\ ToSet(context) \subseteq ToSet(chunks)
     /\ chunks # <<>> => context # <<>> /\ context[1] = chunks[1]
     /\ Words(context) <= budget \/ Len(context) = 1
     /\ \A c, d \in ToSet(context) : ~twins(c, d)
     /\ \A c \in ToSet(chunks) \ ToSet(context) :
          \/ repeated(c)
          \/ \E d \in ToSet(chunks) \ ToSet(context) :
               d.rank <= c.rank /\ ~repeated(d) /\ tooLong(d)

(* The context keeps the order, the best chunk and the budget, and leaves  *)
(* out only repeated sections and what comes once it is full.              *)
THEOREM ContextIsFilledGreedily ==
  ASSUME NEW items \in Seq([document : Nat, section : STRING, words : Nat]), NEW budget \in Nat
  PROVE  FilledGreedily(items, budget)
<1> DEFINE q == Ranked(items)
           n == Len(items)
           context == SelectContext(q, budget)
           m == Len(context)
           twins(c, d) == /\ c.section # "" /\ c.rank # d.rank
                          /\ <<c.document, c.section>> = <<d.document, d.section>>
           repeated(c) == \E d \in ToSet(context) : twins(c, d)
           tooLong(c) == Words(context) + c.words > budget
<1>1. /\ n \in Nat /\ DOMAIN q = 1..n /\ q \in [1..n -> RankedChunk]
      /\ \A i \in 1..n : q[i].rank = i
  <2>1. n \in Nat /\ DOMAIN items = 1..n /\ \A i \in 1..n : items[i] \in [document : Nat, section : STRING, words : Nat]
    BY LenProperties, ElementOfSeq
  <2>. HIDE DEF n
  <2>. QED BY <2>1 DEF Ranked, RankedChunk
<1>2. q \in Seq(RankedChunk) /\ Len(q) = n
  <2>. HIDE DEF q, n
  <2>1. q \in Seq(RankedChunk) BY <1>1, SeqDef
  <2>. QED BY <1>1, <2>1, LenProperties
<1>. HIDE DEF q, n
<1>3. PICK acc \in Selection(RankedChunk) : Kept(q, budget, n, acc) /\ acc.chunks = context
  BY <1>1, <1>2, SelectionKeeps
<1>4. context \in Seq(RankedChunk) /\ m \in Nat /\ DOMAIN context = 1..m /\ \A a \in 1..m : context[a] \in RankedChunk
  <2>1. context \in Seq(RankedChunk) BY <1>3 DEF Selection
  <2>. HIDE DEF context
  <2>. QED BY <2>1, LenProperties, ElementOfSeq
<1>. HIDE DEF context
<1>5. ToSet(context) = {context[a] : a \in 1..m} /\ ToSet(q) = {q[j] : j \in 1..n}
  BY <1>1, <1>4 DEF ToSet
<1>. HIDE DEF m
<1>6. /\ \A a \in 1..m : context[a].rank \in 1..n /\ context[a] = q[context[a].rank]
      /\ \A a, b \in 1..m : a < b => context[a].rank < context[b].rank
      /\ n >= 1 => m >= 1 /\ context[1].rank = 1
      /\ Words(context) <= budget \/ m = 1
      /\ \A a, b \in 1..m : a # b => ~SameSection(context[a], context[b])
      /\ ~acc.full => \A j \in 1..n : Placed(q, context, j)
      /\ acc.full => \E l \in 1..n : /\ ~Placed(q, context, l) /\ Words(context) + q[l].words > budget
                                     /\ \A j \in 1 .. l - 1 : Placed(q, context, j)
  BY <1>3 DEF Kept, m
<1>7. Increasing([i \in DOMAIN context |-> context[i].rank]) BY <1>4, <1>6 DEF Increasing
<1>8. ToSet(context) \subseteq ToSet(q) BY <1>5, <1>6
<1>9. q # <<>> => context # <<>> /\ context[1] = q[1]
  <2>. SUFFICES ASSUME q # <<>> PROVE context # <<>> /\ context[1] = q[1] OBVIOUS
  <2>1. n >= 1 BY <1>1, <1>2, EmptySeq
  <2>2. 1 \in 1..m BY <1>4, <1>6, <2>1
  <2>3. context # <<>> BY <1>4, <2>2
  <2>. QED BY <1>6, <2>1, <2>2, <2>3
<1>10. Words(context) <= budget \/ Len(context) = 1 BY <1>6 DEF m
<1>11. \A c, d : twins(c, d) => SameSection(c, d) BY DEF SameSection
<1>12. \A c, d : SameSection(c, d) /\ c.rank # d.rank => twins(c, d) BY DEF SameSection
<1>13. \A c, d \in ToSet(context) : ~twins(c, d)
  <2>. SUFFICES ASSUME NEW a \in 1..m, NEW b \in 1..m PROVE ~twins(context[a], context[b])
    BY <1>5
  <2>1. CASE a = b BY <2>1
  <2>2. CASE a # b
    <3>. HIDE DEF twins
    <3>. QED BY <1>6, <1>11, <2>2
  <2>. QED BY <2>1, <2>2
<1>14. ASSUME NEW j \in 1..n, q[j] \notin ToSet(context), Placed(q, context, j) PROVE repeated(q[j])
  <2>1. PICK a \in 1..m : SameSection(q[j], context[a]) BY <1>5, <1>14 DEF Placed, m
  <2>2. context[a].rank # j BY <1>5, <1>6, <1>14
  <2>3. q[j].rank # context[a].rank BY <1>1, <2>2
  <2>4. twins(q[j], context[a])
    <3>. HIDE DEF twins
    <3>. QED BY <1>12, <2>1, <2>3
  <2>. HIDE DEF twins
  <2>. QED BY <1>5, <2>4
<1>15. ASSUME NEW l \in 1..n, ~Placed(q, context, l) PROVE q[l] \notin ToSet(context) /\ ~repeated(q[l])
  <2>1. q[l] \notin ToSet(context) BY <1>5, <1>15 DEF Placed, m
  <2>2. \A a \in 1..m : ~SameSection(q[l], context[a]) BY <1>15 DEF Placed, m
  <2>. HIDE DEF twins
  <2>. QED BY <1>5, <1>11, <2>1, <2>2
<1>16. ASSUME NEW c \in ToSet(q) \ ToSet(context)
       PROVE  \/ repeated(c)
              \/ \E d \in ToSet(q) \ ToSet(context) : d.rank <= c.rank /\ ~repeated(d) /\ tooLong(d)
  <2>1. PICK j \in 1..n : q[j] = c BY <1>5
  <2>. HIDE DEF repeated
  <2>2. CASE Placed(q, context, j) BY <1>14, <2>1, <2>2
  <2>3. CASE ~Placed(q, context, j)
    <3>1. acc.full BY <1>6, <2>3
    <3>2. PICK l \in 1..n : /\ ~Placed(q, context, l) /\ Words(context) + q[l].words > budget
                            /\ \A i \in 1 .. l - 1 : Placed(q, context, i)
      BY <1>6, <3>1
    <3>3. ~(j \in 1 .. l - 1) BY <2>3, <3>2
    <3>4. l <= j BY <1>1, <3>3
    <3>5. q[l] \in ToSet(q) \ ToSet(context) /\ ~repeated(q[l]) BY <1>5, <1>15, <3>2
    <3>6. q[l].rank <= c.rank BY <1>1, <2>1, <3>4
    <3>. QED BY <3>2, <3>5, <3>6
  <2>. QED BY <2>2, <2>3
<1>. QED BY <1>7, <1>8, <1>9, <1>10, <1>13, <1>16 DEF FilledGreedily, context, q

(* t starts with s. *)
Starts(s, t) == Len(s) <= Len(t) /\ \A i \in 1 .. Len(s) : s[i] = t[i]

(* It is a prefix then. *)
LEMMA StartsWith ==
  ASSUME NEW V, NEW s \in Seq(V), NEW t \in Seq(V), Starts(s, t)
  PROVE  IsPrefix(s, t)
<1> DEFINE k == Len(s)
           a == SubSeq(s, 1, k)
           b == SubSeq(t, 1, k)
<1>1. k \in Nat /\ k <= Len(t) /\ Len(t) \in Nat /\ (\A i \in 1..k : s[i] = t[i])
      /\ (\A i \in 1..k : s[i] \in V /\ t[i] \in V)
  BY LenProperties, ElementOfSeq DEF Starts
<1>. HIDE DEF k
<1>2. a \in Seq(V) /\ Len(a) = (IF 1 <= k THEN k - 1 + 1 ELSE 0) /\ \A i \in 1 .. k - 1 + 1 : a[i] = s[1 + i - 1]
  BY <1>1, SubSeqProperties
<1>3. b \in Seq(V) /\ Len(b) = (IF 1 <= k THEN k - 1 + 1 ELSE 0) /\ \A i \in 1 .. k - 1 + 1 : b[i] = t[1 + i - 1]
  BY <1>1, SubSeqProperties
<1>4. k - 1 + 1 = k /\ (IF 1 <= k THEN k - 1 + 1 ELSE 0) = k /\ \A i \in 1..k : 1 + i - 1 = i
  BY <1>1
<1>. HIDE DEF a, b
<1>5. Len(a) = Len(b) /\ \A i \in 1 .. Len(a) : a[i] = b[i] BY <1>1, <1>2, <1>3, <1>4
<1>6. a = b BY <1>2, <1>3, <1>5, SeqEqual
<1>. QED BY <1>1, <1>6 DEF IsPrefix, a, b, k

(* s and then x. *)
LEMMA AppendNew ==
  ASSUME NEW V, NEW s \in Seq(V), NEW x \in V, IsInjective(s), ~Contains(s, x)
  PROVE  /\ Append(s, x) \in Seq(V) /\ IsInjective(Append(s, x))
         /\ ToSet(Append(s, x)) = ToSet(s) \cup {x}
         /\ Starts(s, Append(s, x))
<1> DEFINE n == Len(s)
           more == Append(s, x)
<1>1. /\ n \in Nat /\ DOMAIN s = 1..n /\ more \in Seq(V) /\ Len(more) = n + 1 /\ DOMAIN more = 1 .. n + 1
      /\ more[n + 1] = x /\ \A i \in 1..n : more[i] = s[i]
  BY AppendIs
<1>2. \A i \in 1..n : s[i] # x BY DEF Contains
<1>. HIDE DEF more
<1>3. Starts(s, more) BY <1>1 DEF Starts
<1>. HIDE DEF n
<1>4. IsInjective(more) BY <1>1, <1>2 DEF IsInjective
<1>5. ToSet(more) = ToSet(s) \cup {x}
  <2>1. n + 1 \in 1 .. n + 1 /\ \A i \in 1 .. n + 1 : i \in 1..n \/ i = n + 1 BY <1>1
  <2>. QED BY <1>1, <2>1 DEF ToSet
<1>. QED BY <1>1, <1>3, <1>4, <1>5 DEF more

(* f gathers what it has not yet of more. *)
Gathers(f, more, n, V) ==
  /\ f \in [0..n -> Seq(V)] /\ \A i \in 1..n : more[i] \in V
  /\ \A i \in 1..n : f[i] = IF Contains(f[i - 1], more[i]) THEN f[i - 1] ELSE Append(f[i - 1], more[i])

(* What it has after i of them: each once, after what it had before. *)
Gathered(f, more, i) ==
  /\ IsInjective(f[i])
  /\ ToSet(f[i]) = ToSet(f[0]) \cup {more[j] : j \in 1..i}
  /\ \A j \in 0..i : Starts(f[j], f[i])

(* One more element is gathered. *)
LEMMA GatherOne ==
  ASSUME NEW V, NEW n \in Nat, NEW f, NEW more, NEW i \in 1..n,
         f \in [0..n -> Seq(V)], more[i] \in V,
         f[i] = IF Contains(f[i - 1], more[i]) THEN f[i - 1] ELSE Append(f[i - 1], more[i]),
         Gathered(f, more, i - 1)
  PROVE  Gathered(f, more, i)
<1>1. f[i - 1] \in Seq(V) /\ f[i] \in Seq(V) /\ \A j \in 0..n : f[j] \in Seq(V) /\ Len(f[j]) \in Nat
  BY LenProperties
<1>2. IsInjective(f[i]) /\ ToSet(f[i]) = ToSet(f[i - 1]) \cup {more[i]} /\ Starts(f[i - 1], f[i])
  <2>1. CASE Contains(f[i - 1], more[i])
    <3>1. more[i] \in ToSet(f[i - 1])
      <4>1. DOMAIN f[i - 1] = 1 .. Len(f[i - 1]) BY <1>1, LenProperties
      <4>. QED BY <2>1, <4>1 DEF Contains, ToSet
    <3>2. Starts(f[i - 1], f[i - 1]) BY <1>1 DEF Starts
    <3>. QED BY <2>1, <3>1, <3>2 DEF Gathered
  <2>2. CASE ~Contains(f[i - 1], more[i])
    <3>1. IsInjective(f[i - 1]) BY DEF Gathered
    <3>. QED BY <1>1, <2>2, <3>1, AppendNew
  <2>. QED BY <2>1, <2>2
<1>3. {more[j] : j \in 1..i} = {more[j] : j \in 1 .. i - 1} \cup {more[i]}
  <2>1. i \in 1..i /\ \A j \in 1..i : j \in 1 .. i - 1 \/ j = i OBVIOUS
  <2>2. \A j \in 1 .. i - 1 : j \in 1..i OBVIOUS
  <2>. QED BY <2>1, <2>2
<1>4. ToSet(f[i]) = ToSet(f[0]) \cup {more[j] : j \in 1..i} BY <1>2, <1>3 DEF Gathered
<1>5. \A j \in 0..i : Starts(f[j], f[i])
  <2>. SUFFICES ASSUME NEW j \in 0..i PROVE Starts(f[j], f[i]) OBVIOUS
  <2>1. CASE j = i
    <3>1. Len(f[i]) \in Nat BY <1>1
    <3>2. Starts(f[i], f[i]) BY <3>1 DEF Starts
    <3>. QED BY <2>1, <3>2
  <2>2. CASE j # i
    <3>1. j \in 0 .. i - 1 /\ j \in 0..n BY <2>2
    <3>2. Starts(f[j], f[i - 1]) BY <3>1 DEF Gathered
    <3>3. Len(f[j]) \in Nat /\ Len(f[i - 1]) \in Nat /\ Len(f[i]) \in Nat BY <1>1, <3>1
    <3>. QED BY <1>2, <3>2, <3>3 DEF Starts
  <2>. QED BY <2>1, <2>2
<1>. QED BY <1>2, <1>4, <1>5 DEF Gathered

(* All of them are. *)
LEMMA GatheredUpTo ==
  ASSUME NEW V, NEW n \in Nat, NEW f, NEW more, Gathers(f, more, n, V), IsInjective(f[0])
  PROVE  \A i \in 0..n : Gathered(f, more, i)
<1> DEFINE S == {i \in 0..n : Gathered(f, more, i)}
<1>1. Gathered(f, more, 0)
  <2>1. 0..0 = {0} /\ 1..0 = {} /\ Len(f[0]) \in Nat BY LenProperties DEF Gathers
  <2>. QED BY <2>1 DEF Gathered, Starts
<1>2. \A i \in 1..n : i - 1 \in S => i \in S
  <2>. SUFFICES ASSUME NEW i \in 1..n, i - 1 \in S PROVE i \in S OBVIOUS
  <2>1. /\ f \in [0..n -> Seq(V)] /\ more[i] \in V
        /\ f[i] = IF Contains(f[i - 1], more[i]) THEN f[i - 1] ELSE Append(f[i - 1], more[i])
    BY DEF Gathers
  <2>2. Gathered(f, more, i - 1) OBVIOUS
  <2>3. Gathered(f, more, i) BY <2>1, <2>2, GatherOne
  <2>. QED BY <2>3
<1>3. 0 \in S BY <1>1
<1>4. \A i \in 0..n : i \in S
  <2>. HIDE DEF S
  <2>. QED BY <1>2, <1>3, InductionUpTo
<1>. QED BY <1>4

(* f is the trace of extending hits by what more has that they have not. *)
Extends(f, hits, more, n, V) ==
  /\ f \in [0..n -> Seq(V)] /\ f[0] = hits
  /\ \A i \in 1..n : f[i] = IF Contains(hits, more[i]) THEN f[i - 1] ELSE Append(f[i - 1], more[i])
  /\ Extended(hits, more) = f[n]

(* Extended is a fold over more. *)
LEMMA ExtendedTrace ==
  ASSUME NEW V, NEW n \in Nat, NEW hits \in Seq(V), NEW more, DOMAIN more = 1..n, \A i \in 1..n : more[i] \in V
  PROVE  \E f : Extends(f, hits, more, n, V)
<1> DEFINE X == Seq(V)
           base == hits
           step == [p \in X \X (1..n) |-> IF Contains(hits, more[p[2]]) THEN p[1] ELSE Append(p[1], more[p[2]])]
           Is(g) == g = [s \in SUBSET (1..n) |->
                          IF s = {} THEN base
                          ELSE IF Contains(hits, more[Max(s)]) THEN g[s \ {Max(s)}]
                               ELSE Append(g[s \ {Max(s)}], more[Max(s)])]
           it == CHOOSE h : Is(h)
<1>1. \A a \in X : \A i \in 1..n : step[<<a, i>>] = IF Contains(hits, more[i]) THEN a ELSE Append(a, more[i])
  OBVIOUS
<1>2. step \in [X \X (1..n) -> X]
  <2>1. \A a \in X : \A i \in 1..n : Append(a, more[i]) \in X BY AppendIs
  <2>. HIDE DEF X
  <2>. QED BY <2>1
<1>3. Extended(hits, more) = it[1..n] BY DEF Extended, FoldLeft, MapThenFoldSet
<1>. HIDE DEF step, base
<1>4. base \in X BY DEF base
<1>. HIDE DEF X
<1>5. PICK g \in [SUBSET (1..n) -> X] : Iterates(g, n, base, step)
  BY <1>2, <1>4, IterationExists DEF HasIterate
<1>6. ASSUME NEW s \in SUBSET (1..n), s # {}
      PROVE  g[s] = IF Contains(hits, more[Max(s)]) THEN g[s \ {Max(s)}] ELSE Append(g[s \ {Max(s)}], more[Max(s)])
  <2>1. Max(s) \in 1..n /\ g[s \ {Max(s)}] \in X BY Zenon, <1>6, MaxOfUpTo
  <2>2. g[s] = step[<<g[s \ {Max(s)}], Max(s)>>] BY <1>5, <1>6 DEF Iterates
  <2>. QED BY <1>1, <2>1, <2>2
<1>7. Is(it)
  <2>1. Is(g) BY <1>5, <1>6 DEF Iterates
  <2>. QED BY Zenon, <2>1
<1>. HIDE DEF it
<1>8. Folded(it, n, X, base, step)
  <2>1. \A s \in SUBSET (1..n) :
          it[s] = IF s = {} THEN base
                  ELSE IF Contains(hits, more[Max(s)]) THEN it[s \ {Max(s)}]
                       ELSE Append(it[s \ {Max(s)}], more[Max(s)])
    BY Zenon, <1>7
  <2>2. \A s \in SUBSET (1..n) : s # {} => Max(s) \in 1..n BY Zenon, MaxOfUpTo
  <2>. QED BY <1>1, <2>1, <2>2 DEF Folded
<1>9. PICK f : Follows(f, n, X, base, step) /\ f[n] = it[1..n]
  <2>1. Traced(n, X, base, step, it[1..n]) BY <1>2, <1>4, <1>8, FoldFollows
  <2>. QED BY <2>1 DEF Traced
<1>10. \A i \in 1..n : f[i - 1] \in X BY <1>9 DEF Follows
<1>11. Extends(f, hits, more, n, V) BY <1>1, <1>3, <1>9, <1>10 DEF Follows, Extends, base, X
<1>. QED BY <1>11

(* It gathers what more has, if that repeats nothing. *)
LEMMA ExtendedGathers ==
  ASSUME NEW V, NEW n \in Nat, NEW hits \in Seq(V), NEW more, DOMAIN more = 1..n, \A i \in 1..n : more[i] \in V,
         IsInjective(hits), IsInjective(more), NEW f, Extends(f, hits, more, n, V)
  PROVE  \A i \in 0..n : Gathered(f, more, i)
<1> DEFINE S == {i \in 0..n : Gathered(f, more, i)}
<1>1. f[0] = hits /\ Len(f[0]) \in Nat /\ DOMAIN hits = 1 .. Len(hits)
  BY LenProperties DEF Extends
<1>2. Gathered(f, more, 0)
  <2>1. 0..0 = {0} /\ 1..0 = {} OBVIOUS
  <2>. QED BY <1>1, <2>1 DEF Gathered, Starts
<1>3. ASSUME NEW i \in 1..n, i - 1 \in S PROVE i \in S
  <2>1. Gathered(f, more, i - 1) /\ f \in [0..n -> Seq(V)] /\ more[i] \in V BY <1>3 DEF Extends
  <2>2. f[i - 1] \in Seq(V) /\ DOMAIN f[i - 1] = 1 .. Len(f[i - 1]) BY <2>1, LenProperties
  <2>3. more[i] \notin {more[j] : j \in 1 .. i - 1} BY DEF IsInjective
  <2>4. Contains(f[i - 1], more[i]) <=> Contains(hits, more[i])
    <3>1. more[i] \in ToSet(f[i - 1]) <=> more[i] \in ToSet(hits)
      BY <1>1, <2>1, <2>3 DEF Gathered
    <3>. QED BY <1>1, <2>2, <3>1 DEF Contains, ToSet
  <2>5. f[i] = IF Contains(f[i - 1], more[i]) THEN f[i - 1] ELSE Append(f[i - 1], more[i])
    BY <2>4 DEF Extends
  <2>6. Gathered(f, more, i) BY <2>1, <2>5, GatherOne
  <2>. QED BY <2>6
<1>4. \A i \in 0..n : i \in S
  <2>1. \A i \in 1..n : i - 1 \in S => i \in S BY <1>3
  <2>2. 0 \in S BY <1>2
  <2>. HIDE DEF S
  <2>. QED BY <2>1, <2>2, InductionUpTo
<1>. QED BY <1>4

(* The same for the elements of a sequence, each once. *)
Distinguishes(f, q, n, V) == Gathers(f, q, n, V) /\ f[0] = <<>> /\ Distinct(q) = f[n]

(* Distinct is a fold over q. *)
LEMMA DistinctTrace ==
  ASSUME NEW V, NEW n \in Nat, NEW q, DOMAIN q = 1..n, \A i \in 1..n : q[i] \in V
  PROVE  \E f : Distinguishes(f, q, n, V)
<1> DEFINE X == Seq(V)
           base == <<>>
           step == [p \in X \X (1..n) |-> IF Contains(p[1], q[p[2]]) THEN p[1] ELSE Append(p[1], q[p[2]])]
           Is(g) == g = [s \in SUBSET (1..n) |->
                          IF s = {} THEN base
                          ELSE IF Contains(g[s \ {Max(s)}], q[Max(s)]) THEN g[s \ {Max(s)}]
                               ELSE Append(g[s \ {Max(s)}], q[Max(s)])]
           it == CHOOSE h : Is(h)
<1>1. \A a \in X : \A i \in 1..n : step[<<a, i>>] = IF Contains(a, q[i]) THEN a ELSE Append(a, q[i])
  OBVIOUS
<1>2. step \in [X \X (1..n) -> X]
  <2>1. \A a \in X : \A i \in 1..n : Append(a, q[i]) \in X BY AppendIs
  <2>. HIDE DEF X
  <2>. QED BY <2>1
<1>3. Distinct(q) = it[1..n] BY DEF Distinct, FoldLeft, MapThenFoldSet
<1>4. base \in X OBVIOUS
<1>. HIDE DEF step
<1>. HIDE DEF X, base
<1>5. PICK g \in [SUBSET (1..n) -> X] : Iterates(g, n, base, step)
  BY <1>2, <1>4, IterationExists DEF HasIterate
<1>6. ASSUME NEW s \in SUBSET (1..n), s # {}
      PROVE  g[s] = IF Contains(g[s \ {Max(s)}], q[Max(s)]) THEN g[s \ {Max(s)}] ELSE Append(g[s \ {Max(s)}], q[Max(s)])
  <2>1. Max(s) \in 1..n /\ g[s \ {Max(s)}] \in X BY Zenon, <1>6, MaxOfUpTo
  <2>2. g[s] = step[<<g[s \ {Max(s)}], Max(s)>>] BY <1>5, <1>6 DEF Iterates
  <2>. QED BY <1>1, <2>1, <2>2
<1>7. Is(it)
  <2>1. Is(g) BY <1>5, <1>6 DEF Iterates
  <2>. QED BY Zenon, <2>1
<1>. HIDE DEF it
<1>8. Folded(it, n, X, base, step)
  <2>1. \A s \in SUBSET (1..n) :
          it[s] = IF s = {} THEN base
                  ELSE IF Contains(it[s \ {Max(s)}], q[Max(s)]) THEN it[s \ {Max(s)}]
                       ELSE Append(it[s \ {Max(s)}], q[Max(s)])
    BY Zenon, <1>7
  <2>2. \A s \in SUBSET (1..n) : s # {} => Max(s) \in 1..n BY Zenon, MaxOfUpTo
  <2>. QED BY <1>1, <2>1, <2>2 DEF Folded
<1>9. PICK f : Follows(f, n, X, base, step) /\ f[n] = it[1..n]
  <2>1. Traced(n, X, base, step, it[1..n]) BY <1>2, <1>4, <1>8, FoldFollows
  <2>. QED BY <2>1 DEF Traced
<1>10. \A i \in 1..n : f[i - 1] \in X BY <1>9 DEF Follows
<1>11. f \in [0..n -> X] /\ \A i \in 1..n : f[i] = IF Contains(f[i - 1], q[i]) THEN f[i - 1] ELSE Append(f[i - 1], q[i])
  BY <1>1, <1>9, <1>10 DEF Follows
<1>12. f[0] = base /\ Distinct(q) = f[n] BY <1>3, <1>9 DEF Follows
<1>13. Distinguishes(f, q, n, V) BY <1>11, <1>12 DEF Distinguishes, Gathers, X, base
<1>. QED BY <1>13

(* What a sequence contains. *)
LEMMA ContainsIs ==
  ASSUME NEW V, NEW q \in Seq(V), NEW x
  PROVE  Contains(q, x) <=> x \in ToSet(q)
<1>1. DOMAIN q = 1 .. Len(q) BY LenProperties
<1>. QED BY <1>1 DEF Contains, ToSet

(* A sequence that repeats nothing is as long as its set is large. *)
LEMMA InjectiveSize ==
  ASSUME NEW V, NEW q \in Seq(V), IsInjective(q)
  PROVE  IsFiniteSet(ToSet(q)) /\ Cardinality(ToSet(q)) = Len(q)
<1> DEFINE n == Len(q)
           S == ToSet(q)
<1>1. n \in Nat /\ DOMAIN q = 1..n /\ q \in [1..n -> V] BY LenProperties
<1>2. q \in [1..n -> S] /\ (\A y \in S : \E i \in 1..n : q[i] = y) /\ \A i, j \in 1..n : q[i] = q[j] => i = j
  BY <1>1 DEF IsInjective, ToSet
<1>3. IsFiniteSet(1..n) /\ Cardinality(1..n) = n BY <1>1, FS_Interval
<1>. HIDE DEF n, S
<1>4. IsFiniteSet(S) /\ Cardinality(S) = Cardinality(1..n) BY ONLY <1>2, <1>3, ImageOf
<1>. QED BY <1>3, <1>4 DEF n, S

(* A sequence that is cut. *)
LEMMA CutKeeps ==
  ASSUME NEW V, NEW q \in Seq(V), NEW k \in Nat
  PROVE  /\ Cut(q, k) \in Seq(V) /\ Len(Cut(q, k)) = IF k <= Len(q) THEN k ELSE Len(q)
         /\ Starts(Cut(q, k), q) /\ ToSet(Cut(q, k)) \subseteq ToSet(q)
         /\ IsInjective(q) => IsInjective(Cut(q, k))
<1> DEFINE n == IF k <= Len(q) THEN k ELSE Len(q)
           c == Cut(q, k)
<1>1. Begins(c, q, n, V) BY CutIs
<1>2. Len(q) \in Nat /\ DOMAIN q = 1 .. Len(q) BY LenProperties
<1>. HIDE DEF n, c
<1>3. /\ n \in Nat /\ n <= Len(q) /\ c \in Seq(V) /\ Len(c) = n /\ DOMAIN c = 1..n
      /\ \A i \in 1..n : c[i] = q[i] /\ i \in DOMAIN q
  BY <1>1, <1>2 DEF Begins
<1>4. Starts(c, q) /\ ToSet(c) \subseteq ToSet(q) /\ (IsInjective(q) => IsInjective(c))
  BY <1>3 DEF Starts, ToSet, IsInjective
<1>. QED BY <1>3, <1>4 DEF n, c

(* Cutting later what starts with it. *)
LEMMA CutLater ==
  ASSUME NEW V, NEW s \in Seq(V), NEW t \in Seq(V), NEW k \in Nat, NEW l \in Nat, k <= l,
         Starts(Cut(s, k), t)
  PROVE  Starts(Cut(s, k), Cut(t, l))
<1>1. Begins(Cut(s, k), s, IF k <= Len(s) THEN k ELSE Len(s), V) BY CutIs
<1>2. Begins(Cut(t, l), t, IF l <= Len(t) THEN l ELSE Len(t), V) BY CutIs
<1>3. Len(s) \in Nat /\ Len(t) \in Nat BY LenProperties
<1>4. Len(Cut(s, k)) <= k /\ Len(Cut(s, k)) \in Nat BY <1>1, <1>3 DEF Begins
<1>5. Len(Cut(s, k)) <= Len(t) /\ \A i \in 1 .. Len(Cut(s, k)) : Cut(s, k)[i] = t[i]
  BY DEF Starts
<1>. HIDE DEF Starts
<1>6. Len(Cut(s, k)) <= Len(Cut(t, l)) BY <1>2, <1>3, <1>4, <1>5 DEF Begins
<1>7. \A i \in 1 .. Len(Cut(s, k)) : Cut(t, l)[i] = t[i]
  BY <1>2, <1>3, <1>4, <1>5, <1>6 DEF Begins
<1>. QED BY <1>5, <1>6, <1>7 DEF Starts

-----------------------------------------------------------------------------
(* The full-text branch. *)

(* all is what the two branches found: each chunk once, full text first. *)
Found(all, hits, more, V) ==
  /\ all \in Seq(V) /\ IsInjective(all)
  /\ ToSet(all) = ToSet(hits) \cup ToSet(more) /\ Starts(hits, all)

(* Extending by distinct chunks finds those of both. *)
LEMMA ExtendedIs ==
  ASSUME NEW V, NEW hits \in Seq(V), NEW more \in Seq(V), IsInjective(hits), IsInjective(more)
  PROVE  Found(Extended(hits, more), hits, more, V)
<1> DEFINE n == Len(more)
<1>1. n \in Nat /\ DOMAIN more = 1..n /\ \A i \in 1..n : more[i] \in V
  BY LenProperties, ElementOfSeq
<1>2. ToSet(more) = {more[j] : j \in 1..n} BY <1>1 DEF ToSet
<1>. HIDE DEF n
<1>3. PICK f : Extends(f, hits, more, n, V) BY <1>1, ExtendedTrace
<1>4. \A i \in 0..n : Gathered(f, more, i) BY <1>1, <1>3, ExtendedGathers
<1>5. 0 \in 0..n /\ n \in 0..n BY <1>1
<1>6. f[n] = Extended(hits, more) /\ f[0] = hits /\ f[n] \in Seq(V) BY <1>3, <1>5 DEF Extends
<1>. QED BY <1>2, <1>4, <1>5, <1>6 DEF Gathered, Found

(* Extending by more later only adds at the end. *)
LEMMA ExtendedGrows ==
  ASSUME NEW V, NEW hits \in Seq(V), NEW less \in Seq(V), NEW more \in Seq(V),
         IsInjective(hits), IsInjective(more), Starts(less, more)
  PROVE  Starts(Extended(hits, less), Extended(hits, more))
<1> DEFINE m == Len(less)
           n == Len(more)
<1>1. /\ m \in Nat /\ DOMAIN less = 1..m /\ \A i \in 1..m : less[i] \in V
      /\ n \in Nat /\ DOMAIN more = 1..n /\ \A i \in 1..n : more[i] \in V
  BY LenProperties, ElementOfSeq
<1>2. m <= n /\ \A i \in 1..m : less[i] = more[i] BY DEF Starts
<1>. HIDE DEF m, n
<1>3. PICK f : Extends(f, hits, less, m, V) BY <1>1, ExtendedTrace
<1>4. PICK g : Extends(g, hits, more, n, V) BY <1>1, ExtendedTrace
<1>5. f[0] = g[0] /\ \A i \in 1..m : f[i - 1] = g[i - 1] => f[i] = g[i]
  <2>1. \A i \in 1..m : i \in 1..n BY <1>1, <1>2
  <2>2. f[0] = g[0] BY <1>3, <1>4 DEF Extends
  <2>. QED BY <1>2, <1>3, <1>4, <2>1, <2>2 DEF Extends
<1>6. \A i \in 0..m : f[i] = g[i]
  <2>1. m \in Nat BY <1>1
  <2>. QED BY ZenonT(40), <1>5, <2>1, SameTrace
<1>7. m \in 0..m /\ m \in 0..n /\ n \in 0..n BY <1>1, <1>2
<1>8. Gathered(g, more, n)
  <2>1. \A i \in 0..n : Gathered(g, more, i) BY <1>1, <1>4, ExtendedGathers
  <2>. QED BY <1>7, <2>1
<1>9. f[m] = Extended(hits, less) /\ g[n] = Extended(hits, more) BY <1>3, <1>4 DEF Extends
<1>. QED BY <1>6, <1>7, <1>8, <1>9 DEF Gathered

(* What the full-text mode finds. *)
LEMMA FtsIs ==
  ASSUME NEW V, NEW branch, branch[2] \in Seq(V), branch[3] \in Seq(V),
         IsInjective(branch[2]), IsInjective(branch[3]), NEW k \in Nat
  PROVE  LET hits == Cut(branch[2], k)
             all == Extended(hits, Cut(branch[3], k))
         IN /\ FtsSearch(branch, k) = Cut(all, k) /\ Found(all, hits, Cut(branch[3], k), V)
            /\ Starts(hits, FtsSearch(branch, k))
<1> DEFINE hits == Cut(branch[2], k)
           more == Cut(branch[3], k)
           all == Extended(hits, more)
<1>1. hits \in Seq(V) /\ more \in Seq(V) /\ IsInjective(hits) /\ IsInjective(more) /\ Len(hits) <= k /\ Len(hits) \in Nat
  <2>1. Len(branch[2]) \in Nat BY LenProperties
  <2>. QED BY <2>1, CutKeeps
<1>2. FtsSearch(branch, k) = Cut(all, k) BY DEF FtsSearch
<1>. HIDE DEF hits, more
<1>3. Found(all, hits, more, V) BY <1>1, ExtendedIs
<1>. HIDE DEF all
<1>4. Begins(Cut(all, k), all, IF k <= Len(all) THEN k ELSE Len(all), V)
  BY <1>3, CutIs DEF Found
<1>5. Starts(hits, all) /\ Len(all) \in Nat BY <1>3, LenProperties DEF Found
<1>6. Starts(hits, Cut(all, k)) BY <1>1, <1>4, <1>5 DEF Begins, Starts
<1>. QED BY <1>2, <1>3, <1>6 DEF all, hits, more

(* Finding more only adds at the end. *)
LEMMA FtsGrows ==
  ASSUME NEW V, NEW branch, branch[2] \in Seq(V), branch[3] \in Seq(V),
         IsInjective(branch[2]), IsInjective(branch[3]), NEW k \in Nat
  PROVE  Starts(FtsSearch(branch, k), FtsSearch(branch, k + 1))
<1> DEFINE l == k + 1
           full == branch[2]
           trigram == branch[3]
           hits(i) == Cut(full, i)
           all(i) == Extended(hits(i), Cut(trigram, i))
<1>1. l \in Nat /\ Len(full) \in Nat BY LenProperties
<1>2. \A i \in {k, l} : /\ FtsSearch(branch, i) = Cut(all(i), i) /\ all(i) \in Seq(V)
                        /\ Starts(hits(i), all(i)) /\ Starts(hits(i), FtsSearch(branch, i))
  <2>. SUFFICES ASSUME NEW i \in Nat
                PROVE  /\ FtsSearch(branch, i) = Cut(all(i), i) /\ all(i) \in Seq(V)
                       /\ Starts(hits(i), all(i)) /\ Starts(hits(i), FtsSearch(branch, i))
    BY <1>1
  <2>. QED BY FtsIs DEF Found
<1>3. \A i \in {k, l} : /\ hits(i) \in Seq(V) /\ Len(hits(i)) = (IF i <= Len(full) THEN i ELSE Len(full))
                        /\ \A j \in 1 .. Len(hits(i)) : hits(i)[j] = full[j]
  <2>. SUFFICES ASSUME NEW i \in Nat
                PROVE  /\ hits(i) \in Seq(V) /\ Len(hits(i)) = (IF i <= Len(full) THEN i ELSE Len(full))
                       /\ \A j \in 1 .. Len(hits(i)) : hits(i)[j] = full[j]
    BY <1>1
  <2>1. Starts(hits(i), full) BY CutKeeps
  <2>. QED BY <2>1, CutKeeps DEF Starts
<1>4. Starts(Cut(trigram, k), Cut(trigram, l)) /\ Cut(trigram, k) \in Seq(V) /\ Cut(trigram, l) \in Seq(V)
      /\ IsInjective(Cut(trigram, l)) /\ IsInjective(hits(l))
  <2>1. \A q \in Seq(V) : IsInjective(q) => /\ Cut(q, k) \in Seq(V) /\ Starts(Cut(q, k), q)
                                             /\ Cut(q, l) \in Seq(V) /\ IsInjective(Cut(q, l))
    BY <1>1, CutKeeps
  <2>2. k <= l OBVIOUS
  <2>. HIDE DEF l
  <2>3. Starts(Cut(trigram, k), trigram) BY <2>1
  <2>4. Starts(Cut(trigram, k), Cut(trigram, l)) BY <1>1, <2>2, <2>3, CutLater
  <2>. QED BY <2>1, <2>4
<1>5. CASE l <= Len(full)
  <2>1. Len(hits(k)) = k /\ Len(hits(l)) = l BY <1>1, <1>3, <1>5
  <2>2. Begins(Cut(all(k), k), all(k), IF k <= Len(all(k)) THEN k ELSE Len(all(k)), V)
    BY <1>2, CutIs
  <2>3. Len(all(k)) \in Nat BY <1>2, LenProperties
  <2>. HIDE DEF all, hits
  <2>4. Len(FtsSearch(branch, k)) = k BY <1>2, <2>1, <2>2, <2>3 DEF Begins, Starts
  <2>5. \A j \in 1..k : FtsSearch(branch, k)[j] = full[j] BY <1>2, <1>3, <2>1 DEF Starts
  <2>6. l <= Len(FtsSearch(branch, l)) /\ \A j \in 1..l : FtsSearch(branch, l)[j] = full[j]
    BY <1>2, <1>3, <2>1 DEF Starts
  <2>7. FtsSearch(branch, l) \in Seq(V) BY <1>1, <1>2, CutKeeps
  <2>8. Len(FtsSearch(branch, l)) \in Nat BY <2>7, LenProperties
  <2>. QED BY <2>4, <2>5, <2>6, <2>8 DEF Starts
<1>6. CASE ~(l <= Len(full))
  <2>1. hits(k) = hits(l)
    <3>1. Min({k, Len(full)}) = Len(full) /\ Min({l, Len(full)}) = Len(full)
      <4>1. Len(full) <= k BY <1>1, <1>6
      <4>. QED BY <1>1, <1>6, <4>1, PairBounds
    <3>. QED BY <3>1 DEF Cut
  <2>2. Starts(all(k), all(l))
    <3>1. hits(k) \in Seq(V) /\ IsInjective(hits(k)) BY <1>3, <1>4, <2>1
    <3>2. Starts(Extended(hits(k), Cut(trigram, k)), Extended(hits(k), Cut(trigram, l)))
      <4>. HIDE DEF hits, l, trigram
      <4>. QED BY <1>4, <3>1, ExtendedGrows
    <3>. QED BY <2>1, <3>2
  <2>3. Starts(Cut(all(k), k), all(k)) /\ all(k) \in Seq(V) /\ all(l) \in Seq(V)
    BY <1>2, CutKeeps
  <2>. HIDE DEF all, hits
  <2>4. Starts(Cut(all(k), k), all(l))
    <3>1. Len(Cut(all(k), k)) \in Nat /\ Len(all(k)) \in Nat /\ Len(all(l)) \in Nat
      BY <2>3, CutKeeps, LenProperties
    <3>. QED BY <2>2, <2>3, <3>1 DEF Starts
  <2>5. k <= l OBVIOUS
  <2>. HIDE DEF l
  <2>6. Starts(Cut(all(k), k), Cut(all(l), l)) BY <1>1, <2>3, <2>4, <2>5, CutLater
  <2>. QED BY <1>2, <2>6 DEF l
<1>. QED BY <1>5, <1>6 DEF l

(* What the first m elements of the flattened xs come from: each from a    *)
(* place of one of the first n, after what is before it there.             *)
ComesFrom(flat, xs, n, m) ==
  \E b \in 1..n : \E i \in 1 .. Len(xs[b]) :
    /\ flat[m] = xs[b][i]
    /\ \A j \in 1 .. i - 1 : \E l \in 1 .. m - 1 : flat[l] = xs[b][j]

(* flat is the first n of xs, one after the other. *)
Flat(flat, xs, n, V) ==
  /\ flat \in Seq(V)
  /\ \A m \in 1 .. Len(flat) : ComesFrom(flat, xs, n, m)
  /\ \A b \in 1..n : \A i \in 1 .. Len(xs[b]) : \E m \in 1 .. Len(flat) : flat[m] = xs[b][i]

(* One more sequence is put after the others. *)
LEMMA FlatAppend ==
  ASSUME NEW V, NEW xs, NEW n \in Nat \ {0}, xs[n] \in Seq(V), NEW flat, Flat(flat, xs, n - 1, V)
  PROVE  Flat(flat \o xs[n], xs, n, V)
<1> DEFINE x == xs[n]
           c == flat \o x
           a == Len(flat)
           z == Len(x)
<1>1. flat \in Seq(V) /\ x \in Seq(V) BY DEF Flat
<1>2. a \in Nat /\ z \in Nat BY <1>1, LenProperties
<1>3. /\ c \in Seq(V) /\ Len(c) = a + z
      /\ \A i \in 1 .. a + z : c[i] = IF i <= a THEN flat[i] ELSE x[i - a]
  BY <1>1, ConcatProperties
<1>. HIDE DEF c
<1>4. \A i \in 1..a : c[i] = flat[i] /\ i \in 1 .. a + z BY <1>2, <1>3
<1>5. \A i \in 1..z : c[a + i] = x[i] /\ a + i \in 1 .. a + z
  <2>1. \A i \in 1..z : a + i \in 1 .. a + z /\ ~(a + i <= a) /\ a + i - a = i BY <1>2
  <2>. QED BY <1>3, <2>1
<1>6. ASSUME NEW m \in 1 .. a + z PROVE ComesFrom(c, xs, n, m)
  <2>1. CASE m \in 1..a
    <3>1. ComesFrom(flat, xs, n - 1, m) BY <2>1 DEF Flat
    <3>2. PICK b \in 1 .. n - 1 : \E i \in 1 .. Len(xs[b]) :
            flat[m] = xs[b][i] /\ \A j \in 1 .. i - 1 : \E l \in 1 .. m - 1 : flat[l] = xs[b][j]
      BY <3>1 DEF ComesFrom
    <3>3. PICK i \in 1 .. Len(xs[b]) :
            flat[m] = xs[b][i] /\ \A j \in 1 .. i - 1 : \E l \in 1 .. m - 1 : flat[l] = xs[b][j]
      BY <3>2
    <3>4. b \in 1..n /\ c[m] = flat[m] /\ \A l \in 1 .. m - 1 : c[l] = flat[l]
      <4>1. \A l \in 1 .. m - 1 : l \in 1..a BY <1>2, <2>1
      <4>. QED BY <1>4, <2>1, <4>1
    <3>. QED BY <3>3, <3>4 DEF ComesFrom
  <2>2. CASE m \notin 1..a
    <3> DEFINE i == m - a
    <3>1. i \in 1..z /\ m = a + i /\ n \in 1..n BY <1>2, <2>2
    <3>2. c[m] = x[i] BY <1>5, <3>1
    <3>3. \A j \in 1 .. i - 1 : a + j \in 1 .. m - 1 /\ c[a + j] = x[j]
      <4>1. \A j \in 1 .. i - 1 : j \in 1..z /\ a + j \in 1 .. m - 1 BY <1>2, <3>1
      <4>. QED BY <1>5, <4>1
    <3>. HIDE DEF i
    <3>. QED BY <3>1, <3>2, <3>3 DEF ComesFrom
  <2>. QED BY <2>1, <2>2
<1>7. ASSUME NEW b \in 1..n, NEW i \in 1 .. Len(xs[b]) PROVE \E m \in 1 .. a + z : c[m] = xs[b][i]
  <2>1. CASE b = n BY <1>5, <2>1
  <2>2. CASE b # n
    <3>1. b \in 1 .. n - 1 BY <2>2
    <3>2. PICK m \in 1..a : flat[m] = xs[b][i] BY <3>1 DEF Flat
    <3>. QED BY <1>4, <3>2
  <2>. QED BY <2>1, <2>2
<1>. QED BY ZenonT(40), <1>3, <1>6, <1>7 DEF Flat, c

(* FlattenSeq does so. *)
LEMMA FlattenIs ==
  ASSUME NEW V, NEW xs \in Seq(Seq(V))
  PROVE  Flat(FlattenSeq(xs), xs, Len(xs), V)
<1> DEFINE n == Len(xs)
<1>1. n \in Nat /\ xs \in [1..n -> Seq(V)] /\ DOMAIN xs = 1..n BY LenProperties
<1>2. CASE n = 0
  <2>1. xs = <<>> BY <1>2, EmptySeq
  <2>2. FlattenSeq(xs) = <<>> /\ <<>> \in Seq(V) /\ Len(<<>>) = 0
    <3>1. FlattenSeq(<<>>) = <<>> BY DEF FlattenSeq
    <3>. QED BY <2>1, <3>1, EmptySeq
  <2>3. Flat(<<>>, xs, 0, V) BY <2>2 DEF Flat
  <2>. QED BY <1>2, <2>2, <2>3
<1>3. CASE n # 0
  <2>. HIDE DEF n
  <2>1. HasFlat(V, xs, n)
    <3>1. n \in Nat \ {0} BY <1>1, <1>3
    <3>2. xs \in [1..n -> Seq(V)] BY <1>1
    <3>. QED BY <3>1, <3>2, FlatExists
  <2>2. PICK g \in [1..n -> Seq(V)] : Flattens(xs, n, g) BY <2>1 DEF HasFlat
  <2> DEFINE S == {i \in 0..n : i = 0 \/ Flat(g[i], xs, i, V)}
  <2>3. ASSUME NEW i \in 1..n, i - 1 \in S PROVE i \in S
    <3>1. xs[i] \in Seq(V) /\ i \in Nat \ {0} BY <1>1
    <3>2. CASE i = 1
      <4>1. g[1] = xs[1] BY <1>1, <1>3, <2>2 DEF Flattens
      <4>2. Flat(<<>>, xs, 0, V)
        <5>1. <<>> \in Seq(V) /\ Len(<<>>) = 0 BY EmptySeq
        <5>. QED BY <5>1 DEF Flat
      <4>3. Flat(<<>> \o xs[1], xs, 1, V)
        <5>1. 1 \in Nat \ {0} /\ 1 - 1 = 0 /\ xs[1] \in Seq(V) BY <3>1, <3>2
        <5> DEFINE none == <<>>
        <5>2. Flat(none, xs, 1 - 1, V) BY <4>2, <5>1
        <5>. HIDE DEF none
        <5>3. Flat(none \o xs[1], xs, 1, V) BY <5>1, <5>2, FlatAppend
        <5>. QED BY <5>3 DEF none
      <4>4. <<>> \o xs[1] = xs[1] BY <3>1, <3>2, ConcatEmptySeq
      <4>. QED BY <3>2, <4>1, <4>3, <4>4
    <3>3. CASE i # 1
      <4>1. i - 1 # 0 /\ i \in 2..n BY <3>3
      <4>2. Flat(g[i - 1], xs, i - 1, V) BY <2>3, <4>1
      <4>3. g[i] = g[i - 1] \o xs[i] BY <2>2, <4>1 DEF Flattens
      <4>. HIDE DEF S
      <4>4. Flat(g[i], xs, i, V) BY <3>1, <4>2, <4>3, FlatAppend
      <4>. QED BY <4>4 DEF S
    <3>. QED BY <3>2, <3>3
  <2>4. \A i \in 0..n : i \in S
    <3>1. 0 \in S /\ n \in Nat BY <1>1
    <3>2. \A i \in 1..n : i - 1 \in S => i \in S BY <2>3
    <3>. HIDE DEF S
    <3>. QED BY <3>1, <3>2, InductionUpTo
  <2>5. n \in S
    <3>1. n \in 0..n BY <1>1
    <3>. HIDE DEF S
    <3>. QED BY <2>4, <3>1
  <2>6. FlattenSeq(xs) = g[n] BY <1>1, <1>3, <2>2 DEF Flattens
  <2>. QED BY <1>3, <2>5, <2>6 DEF n
<1>. QED BY <1>2, <1>3

(* The least of some numbers. *)
LEMMA MinIs ==
  ASSUME NEW S \in SUBSET Nat, S # {}
  PROVE  Min(S) \in S /\ \A y \in S : Min(S) <= y
<1>1. PICK x \in S : \A y \in S : ~ (<<y, x>> \in OpToRel(<,Nat))
  BY NatLessThanWellFounded, WFMin
<1>2. \A y \in S : ~(y < x) BY <1>1 DEF OpToRel
<1>3. \A y \in S : x <= y BY <1>2
<1>. QED BY <1>3 DEF Min

(* Rank is the first place. *)
LEMMA RankIs ==
  ASSUME NEW V, NEW q \in Seq(V), NEW d, Contains(q, d)
  PROVE  /\ Rank(q, d) \in 1 .. Len(q) /\ q[Rank(q, d)] = d
         /\ \A i \in 1 .. Len(q) : q[i] = d => Rank(q, d) <= i
         /\ IsInjective(q) => \A i \in 1 .. Len(q) : q[i] = d => Rank(q, d) = i
<1> DEFINE S == {i \in DOMAIN q : q[i] = d}
           r == Min(S)
<1>1. Len(q) \in Nat /\ DOMAIN q = 1 .. Len(q) BY LenProperties
<1>2. S \in SUBSET Nat /\ S # {} BY <1>1 DEF Contains
<1>3. r \in S /\ \A i \in S : r <= i
  <2>. HIDE DEF S
  <2>. QED BY <1>2, MinIs
<1>4. Rank(q, d) = r BY DEF Rank
<1>. HIDE DEF r
<1>5. r \in 1 .. Len(q) /\ q[r] = d /\ \A i \in 1 .. Len(q) : q[i] = d => r <= i BY <1>1, <1>3
<1>6. IsInjective(q) => \A i \in 1 .. Len(q) : q[i] = d => r = i BY <1>1, <1>5 DEF IsInjective
<1>. QED BY <1>4, <1>5, <1>6

(* Distinct keeps what there is, once, and the order of first appearances: *)
(* d, when each e comes after some d, comes first.                         *)
LEMMA DistinctIs ==
  ASSUME NEW V, NEW q \in Seq(V)
  PROVE  /\ Distinct(q) \in Seq(V) /\ IsInjective(Distinct(q)) /\ ToSet(Distinct(q)) = ToSet(q)
         /\ \A d, e : (\A m \in 1 .. Len(q) : q[m] = e => \E l \in 1 .. m - 1 : q[l] = d) =>
              \A x, y \in DOMAIN Distinct(q) : Distinct(q)[x] = d /\ Distinct(q)[y] = e => x < y
<1> DEFINE n == Len(q)
           found == Distinct(q)
<1>1. n \in Nat /\ DOMAIN q = 1..n /\ \A i \in 1..n : q[i] \in V BY LenProperties, ElementOfSeq
<1>. HIDE DEF n
<1>2. PICK f : Distinguishes(f, q, n, V) BY <1>1, DistinctTrace
<1>3. Gathers(f, q, n, V) /\ f[0] = <<>> /\ found = f[n] BY <1>2 DEF Distinguishes
<1>. HIDE DEF found
<1>4. \A i \in 0..n : Gathered(f, q, i)
  <2>1. IsInjective(f[0])
    <3>1. DOMAIN <<>> = {} OBVIOUS
    <3>. QED BY <1>3, <3>1 DEF IsInjective
  <2>2. n \in Nat BY <1>1
  <2>. QED BY <1>3, <2>1, <2>2, GatheredUpTo
<1>5. n \in 0..n /\ found \in Seq(V)
  <2>1. n \in 0..n BY <1>1
  <2>. QED BY <1>3, <2>1 DEF Gathers
<1>6. \A i \in 0..n : ToSet(f[i]) = {q[j] : j \in 1..i}
  <2>1. ToSet(f[0]) = {}
    <3>1. DOMAIN <<>> = {} OBVIOUS
    <3>. QED BY <1>3, <3>1 DEF ToSet
  <2>. QED BY <1>4, <2>1 DEF Gathered
<1>7. IsInjective(found) /\ ToSet(found) = ToSet(q)
  <2>1. ToSet(q) = {q[j] : j \in 1..n} BY <1>1 DEF ToSet
  <2>. QED BY <1>3, <1>4, <1>5, <1>6, <2>1 DEF Gathered
<1>8. ASSUME NEW d, NEW e, \A m \in 1..n : q[m] = e => \E l \in 1 .. m - 1 : q[l] = d,
             NEW x \in DOMAIN found, NEW y \in DOMAIN found, found[x] = d, found[y] = e
      PROVE  x < y
  <2>1. DOMAIN found = 1 .. Len(found) /\ Len(found) \in Nat BY <1>5, LenProperties
  <2>2. Contains(q, e)
    <3>1. e \in ToSet(found) BY <1>8 DEF ToSet
    <3>. QED BY <1>7, <3>1, ContainsIs
  <2> DEFINE m == Rank(q, e)
  <2>3. m \in 1..n /\ q[m] = e /\ \A i \in 1..n : q[i] = e => m <= i BY <2>2, RankIs DEF n
  <2>. HIDE DEF m
  <2>4. PICK l \in 1 .. m - 1 : q[l] = d BY <1>8, <2>3
  <2>5. m - 1 \in 0..n /\ \A j \in 1 .. m - 1 : q[j] # e BY <1>1, <2>3
  <2> DEFINE s == f[m - 1]
  <2>6. s \in Seq(V) /\ ToSet(s) = {q[j] : j \in 1 .. m - 1} /\ Starts(s, found)
    <3>1. s \in Seq(V) /\ Gathered(f, q, n) BY <1>3, <1>4, <1>5, <2>5 DEF Gathers
    <3>2. Starts(s, found)
      <4>1. \A j \in 0..n : Starts(f[j], f[n]) BY <3>1 DEF Gathered
      <4>. QED BY <1>3, <2>5, <4>1
    <3>. QED BY <1>6, <2>5, <3>1, <3>2
  <2>. HIDE DEF s
  <2>7. DOMAIN s = 1 .. Len(s) /\ Len(s) \in Nat BY <2>6, LenProperties
  <2>8. PICK i \in 1 .. Len(s) : s[i] = d
    <3>1. d \in ToSet(s) BY <2>4, <2>6
    <3>. QED BY <2>7, <3>1 DEF ToSet
  <2>9. \A j \in 1 .. Len(s) : s[j] # e
    <3>1. e \notin ToSet(s) BY <2>5, <2>6
    <3>. QED BY <2>7, <3>1 DEF ToSet
  <2>10. Len(s) <= Len(found) /\ \A j \in 1 .. Len(s) : s[j] = found[j] BY <2>6 DEF Starts
  <2>11. found[i] = d /\ i \in DOMAIN found BY <2>1, <2>7, <2>8, <2>10
  <2>12. x = i BY <1>7, <1>8, <2>11 DEF IsInjective
  <2>13. ~(y \in 1 .. Len(s)) BY <1>8, <2>9, <2>10
  <2>. QED BY <2>1, <2>7, <2>8, <2>12, <2>13
<1>. QED BY <1>5, <1>7, <1>8 DEF found, n

-----------------------------------------------------------------------------
(* What StableBest makes of a sequence that repeats nothing. *)
LEMMA StableBestIs ==
  ASSUME NEW V, NEW q \in Seq(V), NEW score, \A x \in ToSet(q) : score[x] \in Int
  PROVE  LET best == StableBest(q, score)
         IN /\ best \in Seq(V) /\ Len(best) = Len(q) /\ ToSet(best) = ToSet(q)
            /\ IsInjective(q) =>
                 /\ IsInjective(best)
                 /\ \A i, j \in DOMAIN q : i < j /\ score[q[i]] >= score[q[j]] =>
                      \A x, y \in DOMAIN best : best[x] = q[i] /\ best[y] = q[j] => x < y
<1> DEFINE n == Len(q)
           best == StableBest(q, score)
<1>1. n \in Nat /\ DOMAIN q = 1..n /\ \A i \in 1..n : q[i] \in V BY LenProperties, ElementOfSeq
<1>2. \A i \in 1..n : score[q[i]] \in Int BY <1>1 DEF ToSet
<1>3. PICK p : Orders(p, q, score)
  <2>. HIDE DEF n
  <2>. QED BY <1>1, <1>2, StableBestSorts
<1>4. /\ p \in [1..n -> 1..n] /\ best = [m \in 1..n |-> q[p[m]]]
      /\ \A i, j \in 1..n : p[i] = p[j] => i = j
      /\ \A i \in 1..n : \E m \in 1..n : p[m] = i
      /\ \A m, l \in 1..n : m < l => \/ score[q[p[m]]] > score[q[p[l]]]
                                     \/ score[q[p[m]]] = score[q[p[l]]] /\ p[m] < p[l]
  BY <1>1, <1>3 DEF Orders
<1>. HIDE DEF n, best
<1>5. DOMAIN best = 1..n /\ \A m \in 1..n : best[m] = q[p[m]] /\ best[m] \in V BY <1>1, <1>4
<1>6. best \in [1..n -> V] BY <1>1, <1>4
<1>7. best \in Seq(V) /\ Len(best) = n
  <2>1. best \in Seq(V) BY <1>1, <1>6, SeqDef
  <2>. QED BY <1>1, <1>5, <2>1, LenProperties
<1>8. ToSet(best) = ToSet(q)
  <2>1. ToSet(best) \subseteq ToSet(q) BY <1>1, <1>4, <1>5 DEF ToSet
  <2>2. ToSet(q) \subseteq ToSet(best)
    <3>. SUFFICES ASSUME NEW i \in 1..n PROVE q[i] \in ToSet(best) BY <1>1 DEF ToSet
    <3>1. PICK m \in 1..n : p[m] = i BY <1>4
    <3>2. best[m] = q[i] BY <1>5, <3>1
    <3>. QED BY <1>5, <3>2 DEF ToSet
  <2>. QED BY <2>1, <2>2
<1>9. ASSUME IsInjective(q) PROVE IsInjective(best)
  <2>1. \A i, j \in 1..n : q[i] = q[j] => i = j BY <1>1, <1>9 DEF IsInjective
  <2>. SUFFICES ASSUME NEW x \in 1..n, NEW y \in 1..n, best[x] = best[y] PROVE x = y
    BY <1>5 DEF IsInjective
  <2>2. p[x] \in 1..n /\ p[y] \in 1..n /\ q[p[x]] = q[p[y]] BY <1>4, <1>5
  <2>3. p[x] = p[y] BY <2>1, <2>2
  <2>. QED BY <1>4, <2>3
<1>10. ASSUME IsInjective(q), NEW i \in 1..n, NEW j \in 1..n, i < j, score[q[i]] >= score[q[j]],
              NEW x \in 1..n, NEW y \in 1..n, best[x] = q[i], best[y] = q[j]
       PROVE  x < y
  <2>1. p[x] = i /\ p[y] = j
    <3>1. p[x] \in 1..n /\ p[y] \in 1..n /\ q[p[x]] = q[i] /\ q[p[y]] = q[j]
      BY ZenonT(40), <1>4, <1>5, <1>10
    <3>. QED BY <1>1, <1>10, <3>1 DEF IsInjective
  <2>2. x # y BY <1>10, <2>1
  <2>3. ~(y < x)
    <3>. SUFFICES ASSUME y < x PROVE FALSE OBVIOUS
    <3>1. score[q[j]] > score[q[i]] \/ (score[q[j]] = score[q[i]] /\ j < i) BY <1>4, <2>1
    <3>. QED BY <1>2, <1>10, <3>1
  <2>. QED BY <2>2, <2>3
<1>. QED BY <1>1, <1>5, <1>7, <1>8, <1>9, <1>10 DEF best, n

(* The sums may take any element first. *)
AnyFirst(g, f, S) == \A s \in SUBSET S : \A x \in s : g[s] = f[x] + g[s \ {x}]

(* Sums do. *)
LEMMA SumsAny ==
  ASSUME NEW S, IsFiniteSet(S), NEW f \in [S -> Int], NEW g \in [SUBSET S -> Int], Sums(g, f, S)
  PROVE  AnyFirst(g, f, S)
<1> DEFINE G == {s \in SUBSET S : \A x \in s : g[s] = f[x] + g[s \ {x}]}
<1>1. {} \in G OBVIOUS
<1>2. ASSUME NEW T \in SUBSET S, T # {}, \A x \in T : T \ {x} \in G PROVE T \in G
  <2>. SUFFICES ASSUME NEW x \in T PROVE g[T] = f[x] + g[T \ {x}] OBVIOUS
  <2> DEFINE c == CHOOSE y \in T : TRUE
  <2>1. c \in T /\ g[T] = f[c] + g[T \ {c}] BY <1>2 DEF Sums
  <2>. HIDE DEF c
  <2>2. CASE x = c BY <2>1, <2>2
  <2>3. CASE x # c
    <3> DEFINE A == T \ {c}
               B == T \ {x}
               R == T \ {c, x}
    <3>1. A \in G /\ B \in G /\ x \in A /\ c \in B /\ A \ {x} = R /\ B \ {c} = R /\ R \in SUBSET S
      BY <1>2, <2>1, <2>3
    <3>. HIDE DEF A, B, R
    <3>2. g[A] = f[x] + g[R] /\ g[B] = f[c] + g[R] BY <3>1
    <3>3. f[x] \in Int /\ f[c] \in Int /\ g[R] \in Int BY <2>1, <3>1
    <3>4. g[T] = f[c] + g[A] BY <2>1 DEF A
    <3>5. g[T] = f[x] + g[B] BY <3>2, <3>3, <3>4
    <3>. QED BY <3>5 DEF B
  <2>. QED BY <2>2, <2>3
<1>3. \A T \in SUBSET S : T # {} /\ (\A x \in T : T \ {x} \in G) => T \in G BY <1>2
<1>4. \A T \in SUBSET S : T \in G
  <2>. HIDE DEF G
  <2>. QED BY <1>1, <1>3, FiniteInduction
<1>. QED BY <1>4 DEF AnyFirst

(* More and greater numbers have the greater total. *)
LEMMA TotalGrows ==
  ASSUME NEW T, IsFiniteSet(T), NEW S \in SUBSET T, NEW f \in [S -> Nat], NEW g \in [T -> Nat],
         \A x \in S : f[x] <= g[x]
  PROVE  Total(f) <= Total(g)
<1>1. IsFiniteSet(S) /\ S \in SUBSET S /\ T \in SUBSET T BY FS_Subset
<1>2. PICK h \in [SUBSET S -> Nat] : Sums(h, f, S) /\ Total(f) = h[S]
  BY <1>1, TotalIs DEF HasTotal
<1>3. PICK k \in [SUBSET T -> Nat] : Sums(k, g, T) /\ Total(g) = k[T] BY TotalIs DEF HasTotal
<1> DEFINE G == {s \in SUBSET S : h[s] <= k[s]}
<1>4. \A s \in SUBSET S : s \in G
  <2>1. {} \in G BY <1>2, <1>3 DEF Sums
  <2>2. ASSUME NEW s \in SUBSET S, s # {}, \A x \in s : s \ {x} \in G PROVE s \in G
    <3> DEFINE c == CHOOSE x \in s : TRUE
               r == s \ {c}
    <3>1. c \in s /\ h[s] = f[c] + h[r] /\ k[s] = g[c] + k[r]
      <4>1. s \in SUBSET T OBVIOUS
      <4>2. c \in s BY <2>2
      <4>3. h[s] = f[c] + h[r] BY <1>2, <2>2 DEF Sums
      <4>4. k[s] = g[c] + k[r] BY <1>3, <2>2, <4>1 DEF Sums
      <4>. QED BY <4>2, <4>3, <4>4
    <3>2. r \in SUBSET S /\ r \in SUBSET T /\ r \in G BY <2>2, <3>1
    <3>. HIDE DEF c, r
    <3>3. h[r] <= k[r] /\ f[c] <= g[c] /\ h[r] \in Nat /\ k[r] \in Nat /\ f[c] \in Nat /\ g[c] \in Nat
      BY <3>1, <3>2
    <3>4. h[s] <= k[s] BY <3>1, <3>3
    <3>. QED BY <3>4
  <2>3. \A s \in SUBSET S : s # {} /\ (\A x \in s : s \ {x} \in G) => s \in G BY <2>2
  <2>. HIDE DEF G
  <2>. QED BY <1>1, <2>1, <2>3, FiniteInduction
<1>9. \A s \in SUBSET T : \A x \in s : k[s] = g[x] + k[s \ {x}]
  <2>1. IsFiniteSet(T) /\ g \in [T -> Nat] /\ k \in [SUBSET T -> Nat] /\ Sums(k, g, T) BY <1>3
  <2>2. AnyFirst(k, g, T) BY <2>1, SumsAny
  <2>. QED BY <2>2 DEF AnyFirst
<1> DEFINE H == {t \in SUBSET T : k[t \cap S] <= k[t]}
<1>5. \A t \in SUBSET T : t \in H
  <2>1. {} \in H
    <3>1. {} \cap S = {} /\ k[{}] \in Nat OBVIOUS
    <3>. QED BY <3>1
  <2>2. ASSUME NEW t \in SUBSET T, t # {}, \A x \in t : t \ {x} \in H PROVE t \in H
    <3>1. PICK c \in t : TRUE BY <2>2
    <3> DEFINE r == t \ {c}
               a == t \cap S
               b == r \cap S
    <3>2. r \in SUBSET T /\ r \in H /\ a \in SUBSET T /\ b \in SUBSET T BY <2>2
    <3>3. k[t] = g[c] + k[r] BY <1>9
    <3>4. c \in S => c \in a /\ a \ {c} = b OBVIOUS
    <3>5. c \notin S => a = b OBVIOUS
    <3>6. k[b] <= k[r] BY <3>2
    <3>. HIDE DEF r, a, b
    <3>7. k[a] \in Nat /\ k[b] \in Nat /\ k[r] \in Nat /\ g[c] \in Nat BY <3>2
    <3>8. c \in S => k[a] = g[c] + k[b] BY <1>9, <3>2, <3>4
    <3>9. k[a] <= k[t] BY <3>3, <3>5, <3>6, <3>7, <3>8
    <3>. QED BY <3>9 DEF a
  <2>3. \A t \in SUBSET T : t # {} /\ (\A x \in t : t \ {x} \in H) => t \in H BY <2>2
  <2>. HIDE DEF H
  <2>. QED BY <2>1, <2>3, FiniteInduction
<1>6. T \cap S = S OBVIOUS
<1>7. h[S] <= k[S] /\ k[S] <= k[T] BY <1>1, <1>4, <1>5, <1>6
<1>8. h[S] \in Nat /\ k[S] \in Nat /\ k[T] \in Nat BY <1>1
<1>. QED BY <1>2, <1>3, <1>7, <1>8

(* The greatest of some numbers. *)
LEMMA MaxOfNumbers ==
  ASSUME NEW S \in SUBSET Nat, IsFiniteSet(S), S # {}
  PROVE  Max(S) \in S /\ \A x \in S : x <= Max(S)
<1> DEFINE G == {s \in SUBSET S : s = {} \/ \E m \in s : \A x \in s : x <= m}
<1>1. {} \in G OBVIOUS
<1>2. ASSUME NEW T \in SUBSET S, T # {}, \A x \in T : T \ {x} \in G PROVE T \in G
  <2>1. PICK c \in T : TRUE BY <1>2
  <2>2. CASE T \ {c} = {}
    <3>1. \A x \in T : x <= c BY <2>2
    <3>. QED BY <3>1
  <2>3. CASE T \ {c} # {}
    <3>1. PICK m \in T \ {c} : \A x \in T \ {c} : x <= m BY <1>2, <2>3
    <3>2. m \in Nat /\ c \in Nat OBVIOUS
    <3>3. CASE c <= m
      <4>1. \A x \in T : x <= m BY <3>1, <3>3
      <4>. QED BY <4>1
    <3>4. CASE ~(c <= m)
      <4>1. \A x \in T : x <= c BY <3>1, <3>2, <3>4
      <4>. QED BY <4>1
    <3>. QED BY <3>3, <3>4
  <2>. QED BY <2>2, <2>3
<1>3. \A T \in SUBSET S : T # {} /\ (\A x \in T : T \ {x} \in G) => T \in G BY <1>2
<1>4. S \in G
  <2>1. S \in SUBSET S OBVIOUS
  <2>. HIDE DEF G
  <2>. QED BY <1>1, <1>3, <2>1, FiniteInduction
<1>5. \E m \in S : \A x \in S : m >= x BY <1>4
<1>6. Max(S) \in S /\ \A x \in S : Max(S) >= x BY <1>5 DEF Max
<1>. QED BY <1>6

(* The longer the divisor, the less there is of it. *)
LEMMA QuotientShrinks ==
  ASSUME NEW m \in Nat, NEW a \in Nat \ {0}, NEW b \in Nat, a <= b
  PROVE  m \div a \in Nat /\ m \div b \in Nat /\ m \div b <= m \div a
<1> DEFINE q == m \div b
           r == m \div a
<1>1. q \in Nat /\ r \in Nat OBVIOUS
<1>2. b * q <= m /\ m < a * r + a OBVIOUS
<1>3. a * q <= b * q BY <1>1, ProductGrows
<1>. HIDE DEF q, r
<1>4. ASSUME r < q PROVE FALSE
  <2>1. r + 1 <= q BY <1>1, <1>4
  <2>2. a * (r + 1) <= a * q BY <1>1, <2>1, ProductGrows
  <2>3. a * (r + 1) = a * r + a BY <1>1
  <2> DEFINE x == a * r
             y == a * q
             z == b * q
  <2>4. x \in Int /\ y \in Int /\ z \in Int BY <1>1
  <2>5. z <= m /\ m < x + a /\ y <= z /\ x + a <= y BY <1>2, <1>3, <2>2, <2>3
  <2>. HIDE DEF x, y, z
  <2>. QED BY <2>4, <2>5
<1>5. q <= r BY <1>1, <1>4
<1>. QED BY <1>1, <1>5 DEF q, r

(* The common multiple is a number. *)
LEMMA CommonMultipleIs ==
  ASSUME NEW V, NEW xs \in Seq(Seq(V)), xs # <<>>, NEW k \in Nat
  PROVE  CommonMultiple(xs, k) \in Nat
<1> DEFINE L == {Len(xs[b]) : b \in DOMAIN xs}
           n == Max(L)
<1>1. Len(xs) \in Nat /\ DOMAIN xs = 1 .. Len(xs) /\ (\A b \in 1 .. Len(xs) : xs[b] \in Seq(V)) /\ 1 \in 1 .. Len(xs)
  <2>1. Len(xs) # 0 /\ Len(xs) \in Nat BY EmptySeq, LenProperties
  <2>2. DOMAIN xs = 1 .. Len(xs) /\ \A b \in 1 .. Len(xs) : xs[b] \in Seq(V)
    BY LenProperties, ElementOfSeq
  <2>. QED BY <2>1, <2>2
<1>2. \A b \in 1 .. Len(xs) : Len(xs[b]) \in Nat BY <1>1, LenProperties
<1>3. n \in Nat
  <2>1. IsFiniteSet(L)
    <3> DEFINE f == [b \in DOMAIN xs |-> Len(xs[b])]
    <3>1. f \in [DOMAIN xs -> L] /\ \A y \in L : \E b \in DOMAIN xs : f[b] = y OBVIOUS
    <3>2. IsFiniteSet(DOMAIN xs) BY <1>1, FS_Interval
    <3>. HIDE DEF f, L
    <3>. QED BY <3>1, <3>2, ImageOf
  <2>2. L \in SUBSET Nat /\ L # {} BY <1>1, <1>2
  <2>. HIDE DEF L
  <2>3. n \in L BY <2>1, <2>2, MaxOfNumbers
  <2>. QED BY <2>2, <2>3
<1>4. CommonMultiple(xs, k) = FoldLeft(LAMBDA m, i : m * (k + i), 1, [i \in 1..n |-> i])
  BY DEF CommonMultiple
<1>. HIDE DEF n
<1> DEFINE places == [i \in 1..n |-> i]
           base == 1
           step == [p \in Nat \X (1..n) |-> p[1] * (k + places[p[2]])]
           Is(g) == g = [s \in SUBSET (1..n) |->
                          IF s = {} THEN base ELSE g[s \ {Max(s)}] * (k + places[Max(s)])]
           it == CHOOSE h : Is(h)
<1>5. DOMAIN places = 1..n /\ \A i \in 1..n : places[i] \in Nat OBVIOUS
<1>6. CommonMultiple(xs, k) = it[1..n]
  <2>. HIDE DEF places
  <2>1. FoldLeft(LAMBDA m, i : m * (k + i), 1, places) = it[1..n]
    BY <1>5 DEF FoldLeft, MapThenFoldSet
  <2>. QED BY <1>4, <2>1 DEF places
<1>. HIDE DEF places
<1>7. /\ step \in [Nat \X (1..n) -> Nat]
      /\ \A a \in Nat : \A i \in 1..n : step[<<a, i>>] = a * (k + places[i])
  <2>1. \A a \in Nat : \A i \in 1..n : a * (k + places[i]) \in Nat BY <1>5
  <2>. QED BY <2>1
<1>. HIDE DEF step, base
<1>8. base \in Nat BY DEF base
<1>9. PICK g \in [SUBSET (1..n) -> Nat] : Iterates(g, n, base, step)
  BY <1>3, <1>7, <1>8, IterationExists DEF HasIterate
<1>10. ASSUME NEW s \in SUBSET (1..n), s # {}
      PROVE  g[s] = g[s \ {Max(s)}] * (k + places[Max(s)])
  <2>1. Max(s) \in 1..n /\ g[s \ {Max(s)}] \in Nat BY Zenon, <1>3, <1>10, MaxOfUpTo
  <2>2. g[s] = step[<<g[s \ {Max(s)}], Max(s)>>] BY <1>9, <1>10 DEF Iterates
  <2>. QED BY Zenon, <1>7, <2>1, <2>2
<1>11. Is(it)
  <2>1. Is(g)
    <3>1. \A s \in SUBSET (1..n) : g[s] = IF s = {} THEN base ELSE g[s \ {Max(s)}] * (k + places[Max(s)])
      <4>1. g[{}] = base
        <5>1. {} \in SUBSET (1..n) OBVIOUS
        <5>. QED BY Zenon, <1>9, <5>1 DEF Iterates
      <4>. QED BY Zenon, <1>10, <4>1
    <3>2. g = [s \in SUBSET (1..n) |-> g[s]] BY Zenon
    <3>. QED BY Zenon, <3>1, <3>2
  <2>. QED BY Zenon, <2>1
<1>. HIDE DEF it
<1>12. Folded(it, n, Nat, base, step)
  <2>1. \A s \in SUBSET (1..n) : it[s] = IF s = {} THEN base ELSE it[s \ {Max(s)}] * (k + places[Max(s)])
    BY Zenon, <1>11
  <2>2. \A s \in SUBSET (1..n) : s # {} => Max(s) \in 1..n BY Zenon, <1>3, MaxOfUpTo
  <2>3. it[{}] = base
    <3>1. {} \in SUBSET (1..n) OBVIOUS
    <3>. QED BY Zenon, <2>1, <3>1
  <2>4. \A s \in SUBSET (1..n) : s # {} /\ it[s \ {Max(s)}] \in Nat => it[s] = step[<<it[s \ {Max(s)}], Max(s)>>]
    BY Zenon, <1>7, <2>1, <2>2
  <2>. QED BY <2>3, <2>4 DEF Folded
<1>13. PICK f : Follows(f, n, Nat, base, step) /\ f[n] = it[1..n]
  <2>1. Traced(n, Nat, base, step, it[1..n]) BY <1>3, <1>7, <1>8, <1>12, FoldFollows
  <2>. QED BY <2>1 DEF Traced
<1>14. n \in 0..n BY <1>3
<1>. QED BY <1>6, <1>13, <1>14 DEF Follows

(* What each ranking that found d adds to its score. *)
Parts(xs, weights, k, d) ==
  [b \in {b \in DOMAIN xs : Contains(xs[b], d)} |-> weights[b] * (CommonMultiple(xs, k) \div (k + Rank(xs[b], d)))]

(* They add up to it. *)
AddsUp(xs, weights, k, d) ==
  /\ Parts(xs, weights, k, d) \in [{b \in DOMAIN xs : Contains(xs[b], d)} -> Nat]
  /\ IsFiniteSet({b \in DOMAIN xs : Contains(xs[b], d)})
  /\ RrfScore(xs, weights, k, d) = Total(Parts(xs, weights, k, d))
  /\ RrfScore(xs, weights, k, d) \in Nat

(* Each part is a number, and so is the score. *)
LEMMA PartsAre ==
  ASSUME NEW V, NEW xs \in Seq(Seq(V)), xs # <<>>, NEW weights \in [DOMAIN xs -> Nat], NEW k \in Nat, NEW d
  PROVE  AddsUp(xs, weights, k, d)
<1> DEFINE S == {b \in DOMAIN xs : Contains(xs[b], d)}
           m == CommonMultiple(xs, k)
           parts == Parts(xs, weights, k, d)
<1>1. Len(xs) \in Nat /\ DOMAIN xs = 1 .. Len(xs) /\ \A b \in 1 .. Len(xs) : xs[b] \in Seq(V)
  BY LenProperties, ElementOfSeq
<1>2. m \in Nat BY CommonMultipleIs
<1>3. \A b \in S : Rank(xs[b], d) \in Nat \ {0}
  <2>. SUFFICES ASSUME NEW b \in S PROVE Rank(xs[b], d) \in Nat \ {0} OBVIOUS
  <2>1. xs[b] \in Seq(V) /\ Contains(xs[b], d) BY <1>1
  <2>2. Rank(xs[b], d) \in 1 .. Len(xs[b]) /\ Len(xs[b]) \in Nat BY <2>1, RankIs, LenProperties
  <2>. QED BY <2>2
<1>. HIDE DEF m
<1>4. \A b \in S : weights[b] * (m \div (k + Rank(xs[b], d))) \in Nat
  <2>. SUFFICES ASSUME NEW b \in S PROVE weights[b] * (m \div (k + Rank(xs[b], d))) \in Nat
    OBVIOUS
  <2> DEFINE a == k + Rank(xs[b], d)
             w == weights[b]
  <2>1. a \in Nat \ {0} /\ w \in Nat BY <1>3
  <2>. HIDE DEF a, w
  <2>2. m \div a \in Nat
    <3>1. a \in Nat /\ a <= a BY <2>1
    <3>. QED BY <1>2, <2>1, <3>1, QuotientShrinks
  <2>3. \A x \in Nat : w * x \in Nat BY <2>1
  <2>. QED BY <2>2, <2>3 DEF a, w
<1>5. parts \in [S -> Nat] BY <1>4 DEF Parts, m
<1>6. IsFiniteSet(S)
  <2>1. IsFiniteSet(1 .. Len(xs)) /\ S \in SUBSET (1 .. Len(xs)) BY <1>1, FS_Interval
  <2>. HIDE DEF S
  <2>. QED BY <2>1, FS_Subset
<1>7. RrfScore(xs, weights, k, d) = Total(parts) BY DEF RrfScore, Total, Parts
<1>. HIDE DEF parts
<1>8. Total(parts) \in Nat BY <1>5, <1>6, TotalIsNat
<1>. QED BY <1>5, <1>6, <1>7, <1>8 DEF parts, AddsUp

(* d comes first wherever e is. *)
Leads(xs, d, e) ==
  \A b \in DOMAIN xs : Contains(xs[b], e) => Contains(xs[b], d) /\ Rank(xs[b], d) < Rank(xs[b], e)

(* It has the better score then. *)
LEMMA LeadersScore ==
  ASSUME NEW V, NEW xs \in Seq(Seq(V)), xs # <<>>, NEW weights \in [DOMAIN xs -> Nat], NEW k \in Nat,
         NEW d, NEW e, Leads(xs, d, e)
  PROVE  RrfScore(xs, weights, k, e) <= RrfScore(xs, weights, k, d)
<1> DEFINE In(x) == {b \in DOMAIN xs : Contains(xs[b], x)}
           m == CommonMultiple(xs, k)
           S == In(e)
           T == In(d)
           f == Parts(xs, weights, k, e)
           g == Parts(xs, weights, k, d)
<1>1. /\ f \in [S -> Nat] /\ IsFiniteSet(S) /\ RrfScore(xs, weights, k, e) = Total(f)
      /\ g \in [T -> Nat] /\ IsFiniteSet(T) /\ RrfScore(xs, weights, k, d) = Total(g)
  <2>1. AddsUp(xs, weights, k, d) /\ AddsUp(xs, weights, k, e) BY PartsAre
  <2>. QED BY <2>1 DEF AddsUp
<1>2. S \in SUBSET T BY DEF Leads
<1>3. m \in Nat BY CommonMultipleIs
<1>4. \A b \in S : f[b] = weights[b] * (m \div (k + Rank(xs[b], e))) /\ g[b] = weights[b] * (m \div (k + Rank(xs[b], d)))
  BY <1>2 DEF Parts
<1>. HIDE DEF m, f, g
<1>5. ASSUME NEW b \in S PROVE f[b] <= g[b]
  <2>1. xs[b] \in Seq(V) /\ Contains(xs[b], e) /\ Contains(xs[b], d) /\ Rank(xs[b], d) < Rank(xs[b], e)
    <3>1. DOMAIN xs = 1 .. Len(xs) /\ \A c \in 1 .. Len(xs) : xs[c] \in Seq(V)
      BY LenProperties, ElementOfSeq
    <3>. QED BY <3>1 DEF Leads
  <2>2. Rank(xs[b], d) \in Nat \ {0} /\ Rank(xs[b], e) \in Nat
    <3>1. Rank(xs[b], d) \in 1 .. Len(xs[b]) /\ Rank(xs[b], e) \in 1 .. Len(xs[b]) /\ Len(xs[b]) \in Nat
      BY <2>1, RankIs, LenProperties
    <3>. QED BY <3>1
  <2> DEFINE x == k + Rank(xs[b], d)
             y == k + Rank(xs[b], e)
             w == weights[b]
  <2>3. x \in Nat \ {0} /\ y \in Nat /\ x <= y /\ w \in Nat BY <2>1, <2>2
  <2>4. f[b] = w * (m \div y) /\ g[b] = w * (m \div x) BY <1>4
  <2>. HIDE DEF x, y, w
  <2>5. m \div x \in Nat /\ m \div y \in Nat /\ m \div y <= m \div x
    BY <1>3, <2>3, QuotientShrinks
  <2> DEFINE p == m \div y
             q == m \div x
  <2>. HIDE DEF p, q
  <2>6. w * p <= w * q
    <3>1. p \in Nat /\ q \in Nat /\ p <= q BY <2>5 DEF p, q
    <3>. QED BY <2>3, <3>1, ProductGrows
  <2>. QED BY Zenon, <2>4, <2>6 DEF p, q
<1>6. Total(f) <= Total(g)
  <2>. HIDE DEF In
  <2>1. \A b \in S : f[b] <= g[b] BY <1>5
  <2>. QED BY <1>1, <1>2, <2>1, TotalGrows
<1>. QED BY <1>1, <1>6

(* What is fused has what the rankings have, once, and leaders first. *)
Fuses(fused, xs, V) ==
  /\ fused \in Seq(V) /\ IsInjective(fused)
  /\ ToSet(fused) = UNION {ToSet(xs[b]) : b \in DOMAIN xs}
  /\ \A d, e : Leads(xs, d, e) =>
       \A x, y \in DOMAIN fused : fused[x] = d /\ fused[y] = e => x < y

(* A leader appears before whom it leads. *)
LEMMA LeadersAppearFirst ==
  ASSUME NEW V, NEW xs \in Seq(Seq(V)), NEW flat, Flat(flat, xs, Len(xs), V), NEW d, NEW e, Leads(xs, d, e),
         NEW m \in 1 .. Len(flat), flat[m] = e
  PROVE  \E l \in 1 .. m - 1 : flat[l] = d
<1>1. Len(xs) \in Nat /\ DOMAIN xs = 1 .. Len(xs) /\ \A b \in 1 .. Len(xs) : xs[b] \in Seq(V)
  BY LenProperties, ElementOfSeq
<1>2. ComesFrom(flat, xs, Len(xs), m) BY DEF Flat
<1>3. PICK b \in 1 .. Len(xs) : \E i \in 1 .. Len(xs[b]) :
        flat[m] = xs[b][i] /\ \A j \in 1 .. i - 1 : \E l \in 1 .. m - 1 : flat[l] = xs[b][j]
  BY <1>2 DEF ComesFrom
<1>4. PICK i \in 1 .. Len(xs[b]) :
        flat[m] = xs[b][i] /\ \A j \in 1 .. i - 1 : \E l \in 1 .. m - 1 : flat[l] = xs[b][j]
  BY <1>3
<1>5. xs[b] \in Seq(V) /\ Len(xs[b]) \in Nat BY <1>1, LenProperties
<1>6. Contains(xs[b], e) BY <1>4 DEF Contains
<1>7. Contains(xs[b], d) /\ Rank(xs[b], d) < Rank(xs[b], e) BY <1>1, <1>6 DEF Leads
<1>8. /\ Rank(xs[b], d) \in 1 .. Len(xs[b]) /\ xs[b][Rank(xs[b], d)] = d
      /\ Rank(xs[b], e) \in 1 .. Len(xs[b]) /\ Rank(xs[b], e) <= i
  <2>1. /\ Rank(xs[b], d) \in 1 .. Len(xs[b]) /\ xs[b][Rank(xs[b], d)] = d BY <1>5, <1>7, RankIs
  <2>2. Rank(xs[b], e) \in 1 .. Len(xs[b]) /\ \A j \in 1 .. Len(xs[b]) : xs[b][j] = e => Rank(xs[b], e) <= j
    BY <1>5, <1>6, RankIs
  <2>. QED BY <1>4, <2>1, <2>2
<1>9. Rank(xs[b], d) \in 1 .. i - 1 BY <1>5, <1>7, <1>8
<1>. QED BY <1>4, <1>8, <1>9

(* Reciprocal Rank Fusion fuses. *)
LEMMA RrfIs ==
  ASSUME NEW V, NEW xs \in Seq(Seq(V)), NEW weights \in [DOMAIN xs -> Nat], NEW k \in Nat
  PROVE  Fuses(Rrf(xs, weights, k), xs, V)
<1> DEFINE flat == FlattenSeq(xs)
           found == Distinct(flat)
           score == [d \in ToSet(found) |-> RrfScore(xs, weights, k, d)]
           fused == Rrf(xs, weights, k)
<1>1. Len(xs) \in Nat /\ DOMAIN xs = 1 .. Len(xs) /\ \A b \in 1 .. Len(xs) : xs[b] \in Seq(V)
  BY LenProperties, ElementOfSeq
<1>2. Flat(flat, xs, Len(xs), V) BY FlattenIs
<1>3. fused = StableBest(found, score) BY DEF Rrf
<1>. HIDE DEF flat, fused
<1>4. flat \in Seq(V) /\ Len(flat) \in Nat /\ DOMAIN flat = 1 .. Len(flat)
  <2>1. flat \in Seq(V) BY <1>2 DEF Flat
  <2>. QED BY <2>1, LenProperties
<1>5. found \in Seq(V) /\ IsInjective(found) /\ ToSet(found) = ToSet(flat) BY <1>4, DistinctIs
<1>6. ToSet(flat) = UNION {ToSet(xs[b]) : b \in DOMAIN xs}
  <2>1. \A b \in DOMAIN xs : ToSet(xs[b]) = {xs[b][i] : i \in 1 .. Len(xs[b])}
    <3>. SUFFICES ASSUME NEW b \in DOMAIN xs PROVE ToSet(xs[b]) = {xs[b][i] : i \in 1 .. Len(xs[b])}
      OBVIOUS
    <3>1. DOMAIN xs[b] = 1 .. Len(xs[b]) BY <1>1, LenProperties
    <3>. QED BY <3>1 DEF ToSet
  <2>2. ToSet(flat) = {flat[m] : m \in 1 .. Len(flat)} BY <1>4 DEF ToSet
  <2>3. \A m \in 1 .. Len(flat) : \E b \in DOMAIN xs : flat[m] \in ToSet(xs[b])
    <3>. SUFFICES ASSUME NEW m \in 1 .. Len(flat) PROVE \E b \in DOMAIN xs : flat[m] \in ToSet(xs[b])
      OBVIOUS
    <3>1. ComesFrom(flat, xs, Len(xs), m) BY <1>2 DEF Flat
    <3>2. PICK b \in 1 .. Len(xs) : \E i \in 1 .. Len(xs[b]) : flat[m] = xs[b][i]
      BY <3>1 DEF ComesFrom
    <3>. QED BY <1>1, <2>1, <3>2
  <2>4. \A b \in DOMAIN xs : \A i \in 1 .. Len(xs[b]) : \E m \in 1 .. Len(flat) : flat[m] = xs[b][i]
    BY <1>1, <1>2 DEF Flat
  <2>5. \A x : x \in ToSet(flat) <=> \E b \in DOMAIN xs : x \in ToSet(xs[b])
    <3>. SUFFICES ASSUME NEW x PROVE x \in ToSet(flat) <=> \E b \in DOMAIN xs : x \in ToSet(xs[b])
      OBVIOUS
    <3>1. x \in ToSet(flat) => \E b \in DOMAIN xs : x \in ToSet(xs[b]) BY <2>2, <2>3
    <3>2. (\E b \in DOMAIN xs : x \in ToSet(xs[b])) => x \in ToSet(flat)
      <4>. SUFFICES ASSUME NEW b \in DOMAIN xs, x \in ToSet(xs[b]) PROVE x \in ToSet(flat)
        OBVIOUS
      <4>1. PICK i \in 1 .. Len(xs[b]) : xs[b][i] = x BY <2>1
      <4>. QED BY <2>2, <2>4, <4>1
    <3>. QED BY <3>1, <3>2
  <2>. QED BY <2>5
<1>7. \A x \in ToSet(found) : score[x] \in Int
  <2>. SUFFICES ASSUME NEW x \in ToSet(found) PROVE RrfScore(xs, weights, k, x) \in Int OBVIOUS
  <2>1. xs # <<>>
    <3>1. \E b \in DOMAIN xs : x \in ToSet(xs[b]) BY <1>5, <1>6
    <3>. QED BY <3>1
  <2>2. AddsUp(xs, weights, k, x) BY <2>1, PartsAre
  <2>. QED BY <2>2 DEF AddsUp
<1>8. /\ fused \in Seq(V) /\ ToSet(fused) = ToSet(found) /\ IsInjective(fused)
      /\ \A i, j \in DOMAIN found : i < j /\ score[found[i]] >= score[found[j]] =>
           \A x, y \in DOMAIN fused : fused[x] = found[i] /\ fused[y] = found[j] => x < y
  <2>. HIDE DEF found, score
  <2>. QED BY <1>3, <1>5, <1>7, StableBestIs
<1>9. ASSUME NEW d, NEW e, Leads(xs, d, e), NEW x \in DOMAIN fused, NEW y \in DOMAIN fused, fused[x] = d, fused[y] = e
      PROVE  x < y
  <2>1. d \in ToSet(found) /\ e \in ToSet(found) BY <1>8, <1>9 DEF ToSet
  <2>2. PICK i \in DOMAIN found : found[i] = d BY <2>1 DEF ToSet
  <2>3. PICK j \in DOMAIN found : found[j] = e BY <2>1 DEF ToSet
  <2>4. \A m \in 1 .. Len(flat) : flat[m] = e => \E l \in 1 .. m - 1 : flat[l] = d
    BY <1>2, <1>9, LeadersAppearFirst
  <2>5. i < j
    <3>1. \A v, w \in DOMAIN found : found[v] = d /\ found[w] = e => v < w
      <4>. HIDE DEF found
      <4>. QED BY <1>4, <2>4, DistinctIs DEF found
    <3>. HIDE DEF found
    <3>. QED BY <2>2, <2>3, <3>1
  <2>6. xs # <<>>
    <3>1. \E b \in DOMAIN xs : d \in ToSet(xs[b]) BY <1>5, <1>6, <2>1
    <3>. QED BY <3>1
  <2>7. RrfScore(xs, weights, k, e) <= RrfScore(xs, weights, k, d) BY <1>9, <2>6, LeadersScore
  <2>8. score[d] = RrfScore(xs, weights, k, d) /\ score[e] = RrfScore(xs, weights, k, e) /\ score[d] \in Int /\ score[e] \in Int
    BY <1>7, <2>1
  <2>. HIDE DEF score, found
  <2>9. score[found[i]] >= score[found[j]] BY <2>2, <2>3, <2>7, <2>8
  <2>. QED BY <1>8, <1>9, <2>2, <2>3, <2>5, <2>9
<1>. QED BY <1>5, <1>6, <1>8, <1>9 DEF Fuses, fused

(* Fusion loses and repeats nothing, and what is ahead of another in every *)
(* ranking that found the other is ahead of it after fusion.               *)
THEOREM AgreementIsRewarded ==
  ASSUME NEW V, NEW ranks \in Seq(Seq(V)), NEW weights \in [DOMAIN ranks -> Nat], NEW k \in Nat
  PROVE  LET fused == Rrf(ranks, weights, k)
             in(b, d) == Contains(ranks[b], d)
             ahead(d, e) == \A b \in DOMAIN ranks :
                              in(b, e) => in(b, d) /\ Rank(ranks[b], d) < Rank(ranks[b], e)
         IN /\ ToSet(fused) = UNION {ToSet(ranks[b]) : b \in DOMAIN ranks}
            /\ IsInjective(fused)
            /\ \A d, e \in ToSet(fused) :
                 d # e /\ ahead(d, e) => Rank(fused, d) < Rank(fused, e)
<1> DEFINE fused == Rrf(ranks, weights, k)
<1>1. Fuses(fused, ranks, V) BY RrfIs
<1>. HIDE DEF fused
<1>2. fused \in Seq(V) /\ IsInjective(fused) /\ ToSet(fused) = UNION {ToSet(ranks[b]) : b \in DOMAIN ranks}
  BY <1>1 DEF Fuses
<1>3. ASSUME NEW d \in ToSet(fused), NEW e \in ToSet(fused), Leads(ranks, d, e)
      PROVE  Rank(fused, d) < Rank(fused, e)
  <2>1. Contains(fused, d) /\ Contains(fused, e) BY <1>2, ContainsIs
  <2>2. DOMAIN fused = 1 .. Len(fused) BY <1>2, LenProperties
  <2>3. Rank(fused, d) \in DOMAIN fused /\ fused[Rank(fused, d)] = d BY <1>2, <2>1, <2>2, RankIs
  <2>4. Rank(fused, e) \in DOMAIN fused /\ fused[Rank(fused, e)] = e BY <1>2, <2>1, <2>2, RankIs
  <2>. QED BY <1>1, <1>3, <2>3, <2>4 DEF Fuses
<1>. QED BY <1>2, <1>3 DEF Leads, fused

(* What a cut leaves of distinct chunks. *)
Fills(found, offered, k) ==
  /\ IsInjective(found) /\ ToSet(found) \subseteq offered
  /\ Len(found) = Min({k, Cardinality(offered)})

(* What is found, cut, fills the budget. *)
LEMMA CutFills ==
  ASSUME NEW V, NEW all \in Seq(V), IsInjective(all), NEW k \in Nat
  PROVE  Fills(Cut(all, k), ToSet(all), k)
<1>1. Cardinality(ToSet(all)) = Len(all) /\ Len(all) \in Nat BY InjectiveSize, LenProperties
<1>2. Min({k, Len(all)}) = IF k <= Len(all) THEN k ELSE Len(all) BY <1>1, PairBounds
<1>3. /\ Len(Cut(all, k)) = (IF k <= Len(all) THEN k ELSE Len(all))
      /\ ToSet(Cut(all, k)) \subseteq ToSet(all) /\ IsInjective(Cut(all, k))
  BY CutKeeps
<1>4. Len(Cut(all, k)) = Min({k, Cardinality(ToSet(all))}) BY <1>1, <1>2, <1>3
<1>. QED BY <1>3, <1>4 DEF Fills

(* What is already cut is not cut shorter. *)
LEMMA AllFills ==
  ASSUME NEW V, NEW all \in Seq(V), IsInjective(all), NEW k \in Nat, Len(all) <= k
  PROVE  Fills(all, ToSet(all), k)
<1>1. Cardinality(ToSet(all)) = Len(all) /\ Len(all) \in Nat BY InjectiveSize, LenProperties
<1>2. Min({k, Len(all)}) = IF k <= Len(all) THEN k ELSE Len(all) BY <1>1, PairBounds
<1>3. Len(all) = Min({k, Cardinality(ToSet(all))}) BY <1>1, <1>2
<1>. QED BY <1>3 DEF Fills

(* The branches cut, as hybrid search fuses them. *)
CutBranches(branch, k) == [b \in DOMAIN branch |-> Cut(branch[b], k)]

(* It cuts what they are fused into. *)
CutsFused(branch, w, rrfK, k, V) ==
  LET fused == Rrf(CutBranches(branch, k), w, rrfK)
  IN /\ Fuses(fused, CutBranches(branch, k), V)
     /\ ToSet(fused) = UNION {ToSet(Cut(branch[b], k)) : b \in 1..3}
     /\ \A top : HybridSearch(branch, w, rrfK, k, top) = Cut(fused, top)

(* Hybrid search fuses what its branches found, cut. *)
LEMMA HybridFuses ==
  ASSUME NEW V, NEW branch \in [1..3 -> Seq(V)], NEW w \in [1..3 -> Nat], NEW rrfK \in Nat, NEW k \in Nat
  PROVE  CutsFused(branch, w, rrfK, k, V)
<1> DEFINE xs == CutBranches(branch, k)
           fused == Rrf(xs, w, rrfK)
<1>1. DOMAIN branch = 1..3 /\ \A b \in 1..3 : branch[b] \in Seq(V) /\ Cut(branch[b], k) \in Seq(V)
  <2>1. DOMAIN branch = 1..3 /\ \A b \in 1..3 : branch[b] \in Seq(V) OBVIOUS
  <2>. QED BY <2>1, CutKeeps
<1>2. xs \in [1..3 -> Seq(V)] /\ DOMAIN xs = 1..3 /\ \A b \in 1..3 : xs[b] = Cut(branch[b], k)
  BY <1>1 DEF CutBranches
<1>. HIDE DEF xs
<1>3. xs \in Seq(Seq(V))
  <2> DEFINE n == 3
  <2>1. n \in Nat /\ xs \in [1..n -> Seq(V)] BY <1>2
  <2>. HIDE DEF n
  <2>. QED BY <2>1, SeqDef
<1>4. w \in [DOMAIN xs -> Nat] BY <1>2
<1>5. Fuses(fused, xs, V) BY <1>3, <1>4, RrfIs
<1>6. \A top : HybridSearch(branch, w, rrfK, k, top) = Cut(fused, top)
  BY DEF HybridSearch, CutBranches, xs
<1>. HIDE DEF fused
<1>7. ToSet(fused) = UNION {ToSet(Cut(branch[b], k)) : b \in 1..3} BY <1>2, <1>5 DEF Fuses
<1>. QED BY <1>5, <1>6, <1>7 DEF fused, xs, CutsFused

(* What the reranker is given. *)
FillsTheBudget(mode, branch, k) ==
  LET found == Candidates(mode, branch, <<1, 1, 1>>, 60, k)
      used == CASE mode = "vector" -> {1}
                [] mode = "fts" -> {2, 3}
                [] mode = "hybrid" -> 1..3
      offered == UNION {ToSet(Cut(branch[b], k)) : b \in used}
  IN /\ IsInjective(found) /\ ToSet(found) \subseteq offered
     /\ Len(found) = Min({k, Cardinality(offered)})
     /\ mode = "fts" => IsPrefix(Cut(branch[2], k), found)

(* Every mode gives the reranker as many candidates as its branches have,  *)
(* up to the budget, none twice; and full text is not displaced.           *)
THEOREM BudgetIsTheSame ==
  ASSUME NEW V, NEW mode \in {"vector", "fts", "hybrid"}, NEW branch \in [1..3 -> Seq(V)],
         \A b \in 1..3 : IsInjective(branch[b]), NEW k \in Nat
  PROVE  FillsTheBudget(mode, branch, k)
<1> DEFINE w == <<1, 1, 1>>
           found == Candidates(mode, branch, w, 60, k)
           used == CASE mode = "vector" -> {1}
                     [] mode = "fts" -> {2, 3}
                     [] mode = "hybrid" -> 1..3
           offered == UNION {ToSet(Cut(branch[b], k)) : b \in used}
<1>1. \A b \in 1..3 : /\ branch[b] \in Seq(V) /\ IsInjective(branch[b])
                      /\ Cut(branch[b], k) \in Seq(V) /\ IsInjective(Cut(branch[b], k)) /\ Len(Cut(branch[b], k)) <= k
  <2>. SUFFICES ASSUME NEW b \in 1..3
                PROVE  /\ branch[b] \in Seq(V) /\ IsInjective(branch[b])
                       /\ Cut(branch[b], k) \in Seq(V) /\ IsInjective(Cut(branch[b], k)) /\ Len(Cut(branch[b], k)) <= k
    OBVIOUS
  <2>1. branch[b] \in Seq(V) /\ IsInjective(branch[b]) OBVIOUS
  <2>2. Len(branch[b]) \in Nat BY <2>1, LenProperties
  <2>3. Cut(branch[b], k) \in Seq(V) /\ IsInjective(Cut(branch[b], k)) /\ Len(Cut(branch[b], k)) = (IF k <= Len(branch[b]) THEN k ELSE Len(branch[b]))
    BY <2>1, CutKeeps
  <2>. QED BY <2>1, <2>2, <2>3
<1>2. CASE mode = "vector"
  <2>1. found = Cut(branch[1], k) /\ offered = ToSet(Cut(branch[1], k))
    BY <1>2 DEF Candidates, VectorSearch
  <2>2. Fills(Cut(branch[1], k), ToSet(Cut(branch[1], k)), k) BY <1>1, AllFills
  <2>. HIDE DEF found, offered
  <2>3. Fills(found, offered, k) BY <2>1, <2>2
  <2>. QED BY <1>2, <2>3 DEF Fills, FillsTheBudget, found, offered
<1>3. CASE mode = "fts"
  <2> DEFINE hits == Cut(branch[2], k)
             more == Cut(branch[3], k)
             all == Extended(hits, more)
  <2>1. found = FtsSearch(branch, k) /\ offered = ToSet(hits) \cup ToSet(more)
    BY <1>3 DEF Candidates
  <2>2. FtsSearch(branch, k) = Cut(all, k) /\ Found(all, hits, more, V) /\ Starts(hits, FtsSearch(branch, k))
    BY SMTT(60), <1>1, FtsIs
  <2>3. hits \in Seq(V) BY <1>1
  <2>. HIDE DEF found, offered, all, hits, more
  <2>4. Fills(Cut(all, k), ToSet(all), k) /\ Cut(all, k) \in Seq(V)
    BY <2>2, CutFills, CutKeeps DEF Found
  <2>5. Fills(found, offered, k) BY <2>1, <2>2, <2>4 DEF Found
  <2>6. IsPrefix(hits, found) BY <2>1, <2>2, <2>3, <2>4, StartsWith
  <2>. QED BY <2>5, <2>6 DEF Fills, FillsTheBudget, found, offered, hits
<1>4. CASE mode = "hybrid"
  <2> DEFINE fused == Rrf(CutBranches(branch, k), w, 60)
  <2>1. found = HybridSearch(branch, w, 60, k, k) /\ offered = UNION {ToSet(Cut(branch[b], k)) : b \in 1..3}
    BY <1>4 DEF Candidates
  <2>2. w \in [1..3 -> Nat] /\ 60 \in Nat OBVIOUS
  <2>. HIDE DEF w, found, offered
  <2>3. /\ Fuses(fused, CutBranches(branch, k), V)
        /\ ToSet(fused) = UNION {ToSet(Cut(branch[b], k)) : b \in 1..3}
        /\ HybridSearch(branch, w, 60, k, k) = Cut(fused, k)
    <3>1. CutsFused(branch, w, 60, k, V) BY <2>2, HybridFuses
    <3>. QED BY <3>1 DEF CutsFused
  <2>. HIDE DEF fused
  <2>4. Fills(Cut(fused, k), ToSet(fused), k) BY <2>3, CutFills DEF Fuses
  <2>5. Fills(found, offered, k) BY <2>1, <2>3, <2>4
  <2>. QED BY <1>4, <2>5 DEF Fills, FillsTheBudget, found, offered, w
<1>. QED BY <1>2, <1>3, <1>4

(* What the selection g picks of the first i of q: each once, after what   *)
(* it had picked before.                                                   *)
Picks(g, q, i) ==
  /\ IsInjective(g[i].chunks) /\ ToSet(g[i].chunks) \subseteq {q[j] : j \in 1..i}
  /\ \A j \in 0..i : Starts(g[j].chunks, g[i].chunks)

(* One more turn. *)
LEMMA PickOne ==
  ASSUME NEW C, NEW q, NEW n \in Nat, \A i \in 1..n : q[i] \in C, \A i, j \in 1..n : q[i] = q[j] => i = j,
         NEW budget, NEW g, g \in [0..n -> Selection(C)], NEW i \in 1..n,
         g[i] = SelectNext(budget, g[i - 1], q[i]), Picks(g, q, i - 1)
  PROVE  Picks(g, q, i)
<1> DEFINE s == g[i - 1].chunks
           t == g[i].chunks
<1>1. g[i - 1] \in Selection(C) /\ g[i] \in Selection(C) /\ q[i] \in C OBVIOUS
<1>2. t = s \/ t = Append(s, q[i]) BY <1>1, SelectNextIs
<1>3. \A j \in 0..n : g[j].chunks \in Seq(C) /\ Len(g[j].chunks) \in Nat
  <2>1. \A j \in 0..n : g[j].chunks \in Seq(C) BY DEF Selection
  <2>. QED BY <2>1, LenProperties
<1>4. s \in Seq(C) /\ t \in Seq(C) /\ Len(s) \in Nat /\ Len(t) \in Nat BY <1>3
<1>5. IsInjective(s) /\ ToSet(s) \subseteq {q[j] : j \in 1 .. i - 1} BY DEF Picks
<1>6. q[i] \notin {q[j] : j \in 1 .. i - 1} OBVIOUS
<1>. HIDE DEF s, t
<1>7. ~Contains(s, q[i]) BY <1>4, <1>5, <1>6, ContainsIs
<1>8. IsInjective(t) /\ ToSet(t) \subseteq ToSet(s) \cup {q[i]} /\ Starts(s, t)
  <2>1. CASE t = s
    <3>1. Starts(s, s) BY <1>4 DEF Starts
    <3>. QED BY <1>5, <2>1, <3>1
  <2>2. CASE t = Append(s, q[i]) BY <1>1, <1>4, <1>5, <1>7, <2>2, AppendNew
  <2>. QED BY <1>2, <2>1, <2>2
<1>9. ToSet(t) \subseteq {q[j] : j \in 1..i}
  <2>1. \A j \in 1 .. i - 1 : j \in 1..i OBVIOUS
  <2>2. i \in 1..i OBVIOUS
  <2>. QED BY <1>5, <1>8, <2>1, <2>2
<1>10. ASSUME NEW j \in 0..i PROVE Starts(g[j].chunks, t)
  <2>1. CASE j = i
    <3>1. Starts(t, t) BY <1>4 DEF Starts
    <3>. QED BY <2>1, <3>1 DEF t
  <2>2. CASE j # i
    <3>1. j \in 0 .. i - 1 /\ j \in 0..n BY <2>2
    <3>2. Starts(g[j].chunks, s) BY <3>1 DEF Picks, s
    <3>3. Len(g[j].chunks) \in Nat BY <1>3, <3>1
    <3>. QED BY <1>4, <1>8, <3>2, <3>3 DEF Starts
  <2>. QED BY <2>1, <2>2
<1>. QED BY <1>8, <1>9, <1>10 DEF Picks, t

(* Every turn keeps this. *)
LEMMA PicksUpTo ==
  ASSUME NEW C, NEW q, NEW n \in Nat, \A i \in 1..n : q[i] \in C, \A i, j \in 1..n : q[i] = q[j] => i = j,
         NEW budget, NEW g, Selects(g, q, n, C, budget)
  PROVE  \A i \in 0..n : Picks(g, q, i)
<1> DEFINE S == {i \in 0..n : Picks(g, q, i)}
<1>1. g \in [0..n -> Selection(C)] /\ g[0] = [chunks |-> <<>>, full |-> FALSE]
      /\ \A i \in 1..n : g[i] = SelectNext(budget, g[i - 1], q[i])
  BY DEF Selects
<1>2. 0 \in S
  <2>1. g[0].chunks = <<>> /\ Len(<<>>) = 0 /\ DOMAIN <<>> = {} /\ 0..0 = {0} BY <1>1
  <2>2. Picks(g, q, 0) BY <2>1 DEF Picks, IsInjective, ToSet, Starts
  <2>. QED BY <2>2
<1>3. ASSUME NEW i \in 1..n, i - 1 \in S PROVE i \in S
  <2>1. Picks(g, q, i - 1) /\ g[i] = SelectNext(budget, g[i - 1], q[i]) BY <1>1, <1>3
  <2>2. Picks(g, q, i) BY <1>1, <2>1, PickOne
  <2>. QED BY <2>2
<1>4. \A i \in 1..n : i - 1 \in S => i \in S BY <1>3
<1>5. \A i \in 0..n : i \in S
  <2>. HIDE DEF S
  <2>. QED BY <1>2, <1>4, InductionUpTo
<1>. QED BY <1>5

(* The context of distinct chunks: some of them, each once. *)
LEMMA ContextIs ==
  ASSUME NEW C, NEW q \in Seq(C), IsInjective(q), NEW budget
  PROVE  /\ SelectContext(q, budget) \in Seq(C) /\ IsInjective(SelectContext(q, budget))
         /\ ToSet(SelectContext(q, budget)) \subseteq ToSet(q) /\ Len(SelectContext(q, budget)) <= Len(q)
<1> DEFINE n == Len(q)
           context == SelectContext(q, budget)
<1>1. n \in Nat /\ DOMAIN q = 1..n /\ (\A i \in 1..n : q[i] \in C) /\ ToSet(q) = {q[j] : j \in 1..n}
  BY LenProperties, ElementOfSeq DEF ToSet
<1>2. \A i, j \in 1..n : q[i] = q[j] => i = j BY <1>1 DEF IsInjective
<1>. HIDE DEF n, context
<1>3. PICK g : Selects(g, q, n, C, budget)
  <2>1. HasSelection(q, n, C, budget) BY <1>1, SelectTrace
  <2>. QED BY <2>1 DEF HasSelection
<1>4. n \in 0..n /\ \A i \in 0..n : Picks(g, q, i)
  <2>1. n \in Nat BY <1>1
  <2>2. \A i \in 0..n : Picks(g, q, i) BY <1>1, <1>2, <1>3, <2>1, PicksUpTo
  <2>. QED BY <2>1, <2>2
<1>5. context = g[n].chunks /\ g[n] \in Selection(C) BY <1>3, <1>4 DEF Selects, context
<1>6. context \in Seq(C) /\ IsInjective(context) /\ ToSet(context) \subseteq ToSet(q)
  BY <1>1, <1>4, <1>5 DEF Picks, Selection
<1>7. Len(context) <= Len(q)
  <2>1. IsFiniteSet(ToSet(q)) /\ Cardinality(ToSet(q)) = Len(q) /\ Cardinality(ToSet(context)) = Len(context)
    BY <1>6, InjectiveSize
  <2>2. Cardinality(ToSet(context)) <= Cardinality(ToSet(q)) BY <1>6, <2>1, FS_Subset
  <2>. QED BY <2>1, <2>2
<1>. QED BY <1>6, <1>7 DEF context

(* More chunks only add to it at the end. *)
LEMMA ContextGrows ==
  ASSUME NEW C, NEW q \in Seq(C), NEW r \in Seq(C), IsInjective(r), Starts(q, r), NEW budget
  PROVE  Starts(SelectContext(q, budget), SelectContext(r, budget))
<1> DEFINE m == Len(q)
           n == Len(r)
<1>1. /\ m \in Nat /\ DOMAIN q = 1..m /\ (\A i \in 1..m : q[i] \in C)
      /\ n \in Nat /\ DOMAIN r = 1..n /\ (\A i \in 1..n : r[i] \in C)
  BY LenProperties, ElementOfSeq
<1>2. \A i, j \in 1..n : r[i] = r[j] => i = j BY <1>1 DEF IsInjective
<1>3. m <= n /\ \A i \in 1..m : q[i] = r[i] /\ i \in 1..n BY <1>1 DEF Starts
<1>. HIDE DEF m, n
<1>4. PICK f : Selects(f, q, m, C, budget)
  <2>1. HasSelection(q, m, C, budget) BY <1>1, SelectTrace
  <2>. QED BY <2>1 DEF HasSelection
<1>5. PICK g : Selects(g, r, n, C, budget)
  <2>1. HasSelection(r, n, C, budget) BY <1>1, SelectTrace
  <2>. QED BY <2>1 DEF HasSelection
<1>6. \A i \in 0..m : f[i] = g[i]
  <2>1. f[0] = g[0] BY <1>4, <1>5 DEF Selects
  <2>2. \A i \in 1..m : f[i - 1] = g[i - 1] => f[i] = g[i]
    <3>. SUFFICES ASSUME NEW i \in 1..m, f[i - 1] = g[i - 1] PROVE f[i] = g[i] OBVIOUS
    <3>1. f[i] = SelectNext(budget, f[i - 1], q[i]) BY <1>4 DEF Selects
    <3>2. g[i] = SelectNext(budget, g[i - 1], r[i]) /\ q[i] = r[i] BY <1>3, <1>5 DEF Selects
    <3>. QED BY <3>1, <3>2
  <2>3. m \in Nat BY <1>1
  <2>. QED BY ZenonT(40), <2>1, <2>2, <2>3, SameTrace
<1>7. n \in 0..n /\ m \in 0..n /\ m \in 0..m /\ \A i \in 0..n : Picks(g, r, i)
  <2>1. n \in Nat BY <1>1
  <2>2. \A i \in 0..n : Picks(g, r, i) BY <1>1, <1>2, <1>5, <2>1, PicksUpTo
  <2>. QED BY <1>1, <1>3, <2>2
<1>8. Starts(g[m].chunks, g[n].chunks) BY <1>7 DEF Picks
<1>9. SelectContext(q, budget) = f[m].chunks /\ SelectContext(r, budget) = g[n].chunks
  BY <1>4, <1>5 DEF Selects
<1>. QED BY <1>6, <1>7, <1>8, <1>9

(* The chunks of ids. *)
Shown(ids, chunk) == [i \in DOMAIN ids |-> chunk[ids[i]]]

(* They are shown as the ids are found. *)
ShowsEach(t, s, chunk, C) ==
  /\ t \in Seq(C) /\ Len(t) = Len(s) /\ DOMAIN t = 1 .. Len(s)
  /\ \A i \in 1 .. Len(s) : t[i] = chunk[s[i]]
  /\ IsInjective(s) => IsInjective(t)

(* Distinct ids have distinct chunks. *)
LEMMA ShownAre ==
  ASSUME NEW I, NEW C, NEW chunk \in [I -> C], \A i, j \in I : chunk[i] = chunk[j] => i = j, NEW s \in Seq(I)
  PROVE  ShowsEach(Shown(s, chunk), s, chunk, C)
<1> DEFINE n == Len(s)
           t == Shown(s, chunk)
<1>1. n \in Nat /\ DOMAIN s = 1..n /\ \A i \in 1..n : s[i] \in I BY LenProperties, ElementOfSeq
<1>. HIDE DEF n
<1>2. DOMAIN t = 1..n /\ (\A i \in 1..n : t[i] = chunk[s[i]]) /\ t \in [1..n -> C]
  BY <1>1 DEF Shown
<1>. HIDE DEF t
<1>3. t \in Seq(C) BY <1>1, <1>2, SeqDef
<1>4. Len(t) = n BY <1>1, <1>2, <1>3, LenProperties
<1>5. IsInjective(s) => IsInjective(t) BY <1>1, <1>2 DEF IsInjective
<1>. QED BY <1>2, <1>3, <1>4, <1>5 DEF t, n, ShowsEach

(* More ids only add chunks at the end. *)
LEMMA ShownGrow ==
  ASSUME NEW I, NEW C, NEW chunk \in [I -> C], \A i, j \in I : chunk[i] = chunk[j] => i = j,
         NEW s \in Seq(I), NEW t \in Seq(I), Starts(s, t)
  PROVE  Starts(Shown(s, chunk), Shown(t, chunk))
<1>1. Len(Shown(s, chunk)) = Len(s) /\ \A i \in 1 .. Len(s) : Shown(s, chunk)[i] = chunk[s[i]]
  <2>1. ShowsEach(Shown(s, chunk), s, chunk, C) BY ShownAre
  <2>. QED BY <2>1 DEF ShowsEach
<1>2. Len(Shown(t, chunk)) = Len(t) /\ \A i \in 1 .. Len(t) : Shown(t, chunk)[i] = chunk[t[i]]
  <2>1. ShowsEach(Shown(t, chunk), t, chunk, C) BY ShownAre
  <2>. QED BY <2>1 DEF ShowsEach
<1>3. Len(s) <= Len(t) /\ (\A i \in 1 .. Len(s) : s[i] = t[i]) /\ Len(s) \in Nat /\ Len(t) \in Nat
  BY LenProperties DEF Starts
<1>4. \A i \in 1 .. Len(s) : i \in 1 .. Len(t) BY <1>3
<1>. QED BY <1>1, <1>2, <1>3, <1>4 DEF Starts

(* What a search shows of a tenant's chunks: k at the most, none twice,    *)
(* and with a larger k the same and then more.                             *)
Shows(hits, more, k, C) ==
  /\ hits \in Seq(C) /\ more \in Seq(C) /\ IsInjective(hits) /\ Len(hits) <= k /\ Starts(hits, more)

(* Cutting distinct elements does so. *)
LEMMA CutShows ==
  ASSUME NEW V, NEW q \in Seq(V), IsInjective(q), NEW k \in Nat
  PROVE  Shows(Cut(q, k), Cut(q, k + 1), k, V)
<1> DEFINE l == k + 1
<1>1. l \in Nat /\ k <= l /\ Len(q) \in Nat BY LenProperties
<1>. HIDE DEF l
<1>2. Cut(q, k) \in Seq(V) /\ Starts(Cut(q, k), q) /\ IsInjective(Cut(q, k)) /\ Len(Cut(q, k)) = (IF k <= Len(q) THEN k ELSE Len(q))
  BY CutKeeps
<1>3. Cut(q, l) \in Seq(V) BY <1>1, CutKeeps
<1>4. Starts(Cut(q, k), Cut(q, l)) BY <1>1, <1>2, CutLater
<1>5. Len(Cut(q, k)) <= k BY <1>1, <1>2
<1>. QED BY <1>2, <1>3, <1>4, <1>5 DEF Shows, l

(* The full-text mode does. *)
LEMMA FtsShows ==
  ASSUME NEW V, NEW branch, branch[2] \in Seq(V), branch[3] \in Seq(V),
         IsInjective(branch[2]), IsInjective(branch[3]), NEW k \in Nat
  PROVE  Shows(FtsSearch(branch, k), FtsSearch(branch, k + 1), k, V)
<1> DEFINE l == k + 1
           all(i) == Extended(Cut(branch[2], i), Cut(branch[3], i))
<1>1. l \in Nat OBVIOUS
<1>2. \A i \in Nat : FtsSearch(branch, i) = Cut(all(i), i) /\ all(i) \in Seq(V) /\ IsInjective(all(i))
  BY FtsIs DEF Found
<1>. HIDE DEF all
<1>3. Cut(all(k), k) \in Seq(V) /\ IsInjective(Cut(all(k), k)) /\ Len(Cut(all(k), k)) <= k
  <2>1. Len(all(k)) \in Nat BY <1>2, LenProperties
  <2>2. Len(Cut(all(k), k)) = (IF k <= Len(all(k)) THEN k ELSE Len(all(k))) /\ Cut(all(k), k) \in Seq(V) /\ IsInjective(Cut(all(k), k))
    BY <1>2, CutKeeps
  <2>. QED BY <2>1, <2>2
<1>4. Starts(FtsSearch(branch, k), FtsSearch(branch, l)) BY FtsGrows
<1>. HIDE DEF l
<1>5. FtsSearch(branch, l) \in Seq(V) BY <1>1, <1>2, CutKeeps
<1>. QED BY <1>2, <1>3, <1>4, <1>5 DEF Shows, l

(* The chunks of what does so do so. *)
LEMMA ShownShow ==
  ASSUME NEW I, NEW C, NEW chunk \in [I -> C], \A i, j \in I : chunk[i] = chunk[j] => i = j,
         NEW s, NEW t, NEW k, Shows(s, t, k, I)
  PROVE  Shows(Shown(s, chunk), Shown(t, chunk), k, C)
<1>1. s \in Seq(I) /\ t \in Seq(I) /\ IsInjective(s) /\ Len(s) <= k /\ Starts(s, t) BY DEF Shows
<1>2. Shown(s, chunk) \in Seq(C) /\ Len(Shown(s, chunk)) = Len(s) /\ IsInjective(Shown(s, chunk))
  <2>1. ShowsEach(Shown(s, chunk), s, chunk, C) BY <1>1, ShownAre
  <2>. QED BY <1>1, <2>1 DEF ShowsEach
<1>3. Shown(t, chunk) \in Seq(C)
  <2>1. ShowsEach(Shown(t, chunk), t, chunk, C) BY <1>1, ShownAre
  <2>. QED BY <2>1 DEF ShowsEach
<1>4. Starts(Shown(s, chunk), Shown(t, chunk)) BY <1>1, ShownGrow
<1>. QED BY <1>1, <1>2, <1>3, <1>4 DEF Shows

(* The rest of the pipeline does. *)
LEMMA PipelineShows ==
  ASSUME NEW C, NEW q \in Seq(C), IsInjective(q), NEW score \in [C -> Int], NEW budget, NEW k \in Nat
  PROVE  /\ Shows(SelectContext(Rerank(q, score, k), budget), SelectContext(Rerank(q, score, k + 1), budget), k, C)
         /\ ToSet(SelectContext(Rerank(q, score, k), budget)) \subseteq ToSet(q)
<1> DEFINE best == StableBest(q, score)
           l == k + 1
<1>1. best \in Seq(C) /\ IsInjective(best) /\ ToSet(best) = ToSet(q)
  <2>1. \A x \in ToSet(q) : score[x] \in Int
    <3>1. DOMAIN q = 1 .. Len(q) /\ \A i \in 1 .. Len(q) : q[i] \in C
      BY LenProperties, ElementOfSeq
    <3>. QED BY <3>1 DEF ToSet
  <2>. QED BY <2>1, StableBestIs
<1>. HIDE DEF best
<1>2. Rerank(q, score, k) = Cut(best, k) /\ Rerank(q, score, l) = Cut(best, l)
  BY DEF Rerank, best
<1>3. Shows(Cut(best, k), Cut(best, l), k, C) BY <1>1, CutShows
<1>4. l \in Nat OBVIOUS
<1>. HIDE DEF l
<1>5. IsInjective(Cut(best, l)) /\ ToSet(Cut(best, k)) \subseteq ToSet(best)
  BY <1>1, <1>4, CutKeeps
<1> DEFINE c == Cut(best, k)
           d == Cut(best, l)
<1>6. c \in Seq(C) /\ d \in Seq(C) /\ IsInjective(c) /\ IsInjective(d) /\ Len(c) <= k /\ Starts(c, d) /\ Len(c) \in Nat
      /\ ToSet(c) \subseteq ToSet(q)
  <2>1. c \in Seq(C) /\ d \in Seq(C) /\ IsInjective(c) /\ Len(c) <= k /\ Starts(c, d)
    BY <1>3 DEF Shows
  <2>. QED BY <1>1, <1>5, <2>1, LenProperties
<1>. HIDE DEF c, d
<1>7. /\ SelectContext(c, budget) \in Seq(C) /\ IsInjective(SelectContext(c, budget))
      /\ ToSet(SelectContext(c, budget)) \subseteq ToSet(c) /\ Len(SelectContext(c, budget)) <= Len(c)
  BY <1>6, ContextIs
<1>8. SelectContext(d, budget) \in Seq(C) BY <1>6, ContextIs
<1>9. Starts(SelectContext(c, budget), SelectContext(d, budget)) BY <1>6, ContextGrows
<1>10. Len(SelectContext(c, budget)) <= k
  <2>1. Len(SelectContext(c, budget)) \in Nat BY <1>7, LenProperties
  <2>. QED BY <1>6, <1>7, <2>1
<1>11. Shows(SelectContext(c, budget), SelectContext(d, budget), k, C)
  BY <1>7, <1>8, <1>9, <1>10 DEF Shows
<1>. QED BY <1>2, <1>6, <1>7, <1>11 DEF c, d, l

(* The branches find chunks of I, each of them once. *)
AreBranches(branch, I) == branch \in [1..3 -> Seq(I)] /\ \A b \in 1..3 : IsInjective(branch[b])

(* In every mode a larger k only adds at the end, nothing is shown twice,  *)
(* and the pipeline shows of the fused candidates only.                    *)
ShowsWell(mode, branch, limits, k, score, chunk, C) ==
  LET hits(m, j) == Search(m, branch, limits, j, score, chunk)
  IN /\ Shows(hits(mode, k), hits(mode, k + 1), k, C)
     /\ ToSet(hits("pipeline", k)) \subseteq ToSet(hits("hybrid", limits.top))

(* POST /search does so, for any settings. *)
THEOREM LargerAddsAtTheEnd ==
  ASSUME NEW I, NEW C, NEW chunk \in [I -> C], \A i, j \in I : chunk[i] = chunk[j] => i = j,
         NEW score \in [C -> Int], NEW branch, AreBranches(branch, I),
         NEW limits \in [candidates : Nat, top : Nat, weights : [1..3 -> Nat], rrfK : Nat, budget : Nat],
         NEW mode \in {"vector", "fts", "hybrid", "pipeline"}, NEW k \in Nat
  PROVE  ShowsWell(mode, branch, limits, k, score, chunk, C)
<1> DEFINE n == limits.candidates
           fused == Rrf(CutBranches(branch, n), limits.weights, limits.rrfK)
           hits(m, j) == Search(m, branch, limits, j, score, chunk)
           q == Shown(Cut(fused, limits.top), chunk)
           pipeline(j) == SelectContext(Rerank(q, score, j), limits.budget)
<1>1. branch \in [1..3 -> Seq(I)] /\ \A b \in 1..3 : branch[b] \in Seq(I) /\ IsInjective(branch[b])
  BY DEF AreBranches
<1>2. CutsFused(branch, limits.weights, limits.rrfK, n, I)
  <2>. HIDE DEF n
  <2>1. n \in Nat BY DEF n
  <2> DEFINE w == limits.weights
             r == limits.rrfK
  <2>2. w \in [1..3 -> Nat] /\ r \in Nat OBVIOUS
  <2>. HIDE DEF w, r
  <2>3. CutsFused(branch, w, r, n, I) BY <1>1, <2>1, <2>2, HybridFuses
  <2>. QED BY <2>3 DEF w, r
<1>3. /\ fused \in Seq(I) /\ IsInjective(fused)
      /\ \A top : HybridSearch(branch, limits.weights, limits.rrfK, n, top) = Cut(fused, top)
  BY <1>2 DEF CutsFused, Fuses
<1>. HIDE DEF fused
<1>4. \A j : hits("hybrid", j) = Shown(Cut(fused, j), chunk) BY <1>3 DEF Search, Shown
<1>5. \A j : hits("pipeline", j) = pipeline(j)
  <2>. SUFFICES ASSUME NEW j PROVE hits("pipeline", j) = pipeline(j) OBVIOUS
  <2> DEFINE h == HybridSearch(branch, limits.weights, limits.rrfK, n, limits.top)
  <2>1. hits("pipeline", j) = RetrieveContext(h, score, j, limits.budget, chunk) BY DEF Search
  <2>2. h = Cut(fused, limits.top) BY <1>3
  <2>. HIDE DEF h, hits
  <2>3. RetrieveContext(h, score, j, limits.budget, chunk) = SelectContext(Rerank(Shown(h, chunk), score, j), limits.budget)
    BY DEF RetrieveContext, Shown
  <2>. QED BY <2>1, <2>2, <2>3
<1>6. \A j : hits("fts", j) = Shown(FtsSearch(branch, j), chunk) BY DEF Search, Shown
<1>7. \A j : hits("vector", j) = Shown(Cut(branch[1], j), chunk)
  BY DEF Search, Shown, VectorSearch
<1>8. q \in Seq(C) /\ IsInjective(q)
  <2> DEFINE s == Cut(fused, limits.top)
  <2>1. s \in Seq(I) /\ IsInjective(s) BY <1>3, CutKeeps
  <2>. HIDE DEF s
  <2>2. ShowsEach(Shown(s, chunk), s, chunk, C) BY <2>1, ShownAre
  <2>. QED BY <2>1, <2>2 DEF ShowsEach, s
<1>9. hits("hybrid", limits.top) = q BY <1>4
<1>. HIDE DEF q, hits
<1>10. Shows(pipeline(k), pipeline(k + 1), k, C) /\ ToSet(pipeline(k)) \subseteq ToSet(q)
  <2> DEFINE budget == limits.budget
  <2>. HIDE DEF budget
  <2>1. /\ Shows(SelectContext(Rerank(q, score, k), budget), SelectContext(Rerank(q, score, k + 1), budget), k, C)
        /\ ToSet(SelectContext(Rerank(q, score, k), budget)) \subseteq ToSet(q)
    BY <1>8, PipelineShows
  <2>. QED BY <2>1 DEF budget
<1>. HIDE DEF pipeline
<1>11. Shows(hits(mode, k), hits(mode, k + 1), k, C)
  <2>1. CASE mode = "vector"
    <3> DEFINE s == Cut(branch[1], k)
               t == Cut(branch[1], k + 1)
    <3>1. Shows(s, t, k, I)
      <4> DEFINE first == branch[1]
      <4>1. first \in Seq(I) /\ IsInjective(first) BY <1>1
      <4>. HIDE DEF first
      <4>2. Shows(Cut(first, k), Cut(first, k + 1), k, I) BY <4>1, CutShows
      <4>. QED BY <4>2 DEF first
    <3>. HIDE DEF s, t
    <3>2. Shows(Shown(s, chunk), Shown(t, chunk), k, C) BY <3>1, ShownShow
    <3>3. hits(mode, k) = Shown(s, chunk) /\ hits(mode, k + 1) = Shown(t, chunk)
      BY <1>7, <2>1 DEF s, t
    <3>. QED BY <3>2, <3>3
  <2>2. CASE mode = "fts"
    <3> DEFINE s == FtsSearch(branch, k)
               t == FtsSearch(branch, k + 1)
    <3>1. Shows(s, t, k, I)
      <4>1. branch[2] \in Seq(I) /\ branch[3] \in Seq(I) /\ IsInjective(branch[2]) /\ IsInjective(branch[3])
        BY <1>1
      <4>. QED BY <4>1, FtsShows
    <3>. HIDE DEF s, t
    <3>2. Shows(Shown(s, chunk), Shown(t, chunk), k, C) BY <3>1, ShownShow
    <3>3. hits(mode, k) = Shown(s, chunk) /\ hits(mode, k + 1) = Shown(t, chunk)
      BY <1>6, <2>2 DEF s, t
    <3>. QED BY <3>2, <3>3
  <2>3. CASE mode = "hybrid"
    <3> DEFINE s == Cut(fused, k)
               t == Cut(fused, k + 1)
    <3>1. Shows(s, t, k, I) BY <1>3, CutShows
    <3>. HIDE DEF s, t
    <3>2. Shows(Shown(s, chunk), Shown(t, chunk), k, C) BY <3>1, ShownShow
    <3>3. hits(mode, k) = Shown(s, chunk) /\ hits(mode, k + 1) = Shown(t, chunk)
      BY <1>4, <2>3 DEF s, t
    <3>. QED BY <3>2, <3>3
  <2>4. CASE mode = "pipeline" BY <1>5, <1>10, <2>4
  <2>. QED BY <2>1, <2>2, <2>3, <2>4
<1>12. ToSet(hits("pipeline", k)) \subseteq ToSet(hits("hybrid", limits.top))
  BY <1>5, <1>9, <1>10
<1>. QED BY <1>11, <1>12 DEF ShowsWell, hits

-----------------------------------------------------------------------------
(* Totals of integers. *)

(* The numbers of a part. *)
Part(f, T) == [x \in T |-> f[x]]

(* Sums of a function are the totals of its parts. *)
LEMMA SumsAreTotals ==
  ASSUME NEW S, IsFiniteSet(S), NEW f \in [S -> Int], NEW g \in [SUBSET S -> Int], Sums(g, f, S),
         NEW T \in SUBSET S
  PROVE  Total(Part(f, T)) = g[T]
<1> DEFINE h == Part(f, T)
           Is(k) == k = [s \in SUBSET T |-> IF s = {} THEN 0
                             ELSE h[CHOOSE x \in s : TRUE] + k[s \ {CHOOSE x \in s : TRUE}]]
           it == CHOOSE k : Is(k)
           one(s) == CHOOSE x \in s : TRUE
<1>1. DOMAIN h = T /\ \A x \in T : h[x] = f[x] BY DEF Part
<1>. HIDE DEF h
<1>2. \A s \in SUBSET T : s \in SUBSET S /\ (s # {} => one(s) \in s /\ one(s) \in T /\ s \ {one(s)} \in SUBSET T)
  OBVIOUS
<1>3. \A s \in SUBSET T : g[s] = IF s = {} THEN 0 ELSE h[one(s)] + g[s \ {one(s)}]
  <2>1. \A s \in SUBSET S : g[s] = IF s = {} THEN 0 ELSE f[one(s)] + g[s \ {one(s)}] BY DEF Sums
  <2>. HIDE DEF one
  <2>. QED BY <1>1, <1>2, <2>1
<1>4. Is(it)
  <2> DEFINE k == [s \in SUBSET T |-> g[s]]
  <2>1. \A s \in SUBSET T : k[s] = g[s] OBVIOUS
  <2>2. \A s \in SUBSET T : k[s] = IF s = {} THEN 0 ELSE h[one(s)] + k[s \ {one(s)}]
    <3>. HIDE DEF k, one
    <3>. QED BY <1>2, <1>3, <2>1
  <2>3. k = [s \in SUBSET T |-> k[s]] OBVIOUS
  <2>. HIDE DEF k
  <2>4. Is(k) BY <2>2, <2>3
  <2>. QED BY <2>4
<1>5. Total(h) = it[T] BY <1>1 DEF Total, MapThenSumSet, MapThenFoldSet
<1>. HIDE DEF it
<1>6. \A s \in SUBSET T : it[s] = IF s = {} THEN 0 ELSE h[one(s)] + it[s \ {one(s)}] BY <1>4
<1> DEFINE G == {s \in SUBSET T : it[s] = g[s]}
<1>7. {} \in G
  <2>1. {} \in SUBSET T OBVIOUS
  <2>2. it[{}] = 0 /\ g[{}] = 0 BY <1>3, <1>6, <2>1
  <2>. QED BY <2>1, <2>2
<1>8. ASSUME NEW s \in SUBSET T, s # {}, \A x \in s : s \ {x} \in G PROVE s \in G
  <2>. HIDE DEF one
  <2>1. one(s) \in s BY <1>2, <1>8
  <2>2. it[s \ {one(s)}] = g[s \ {one(s)}] BY <1>8, <2>1
  <2>. QED BY <1>3, <1>6, <1>8, <2>2
<1>9. T \in G
  <2>1. IsFiniteSet(T) BY FS_Subset
  <2>. HIDE DEF G
  <2>. QED BY <1>7, <1>8, <2>1, FiniteInduction
<1>. QED BY <1>5, <1>9 DEF h

(* A total may take any element first. *)
Adds(f, S) ==
  /\ Total(f) \in Int /\ (S = {} => Total(f) = 0)
  /\ \A x \in S : Total(f) = f[x] + Total(Part(f, S \ {x}))

LEMMA TotalAdds ==
  ASSUME NEW S, IsFiniteSet(S), NEW f \in [S -> Int]
  PROVE  Adds(f, S)
<1>1. PICK g \in [SUBSET S -> Int] : Sums(g, f, S) BY SumsExist
<1>2. AnyFirst(g, f, S) BY <1>1, SumsAny
<1>3. \A T \in SUBSET S : Total(Part(f, T)) = g[T] BY <1>1, SumsAreTotals
<1>4. Part(f, S) = f BY DEF Part
<1>5. S \in SUBSET S /\ {} \in SUBSET S /\ \A x \in S : S \ {x} \in SUBSET S OBVIOUS
<1>6. g[{}] = 0 BY <1>1, <1>5 DEF Sums
<1>7. Total(f) = g[S] BY <1>3, <1>4, <1>5
<1>8. \A x \in S : Total(f) = f[x] + Total(Part(f, S \ {x}))
  BY <1>2, <1>3, <1>5, <1>7 DEF AnyFirst
<1>. QED BY <1>5, <1>6, <1>7, <1>8 DEF Adds

(* A part of a part. *)
LEMMA PartOfPart ==
  ASSUME NEW S, IsFiniteSet(S), NEW f \in [S -> Int], NEW T \in SUBSET S
  PROVE  /\ IsFiniteSet(T) /\ Part(f, T) \in [T -> Int] /\ \A x \in T : Part(f, T)[x] = f[x]
         /\ \A R \in SUBSET T : Part(Part(f, T), R) = Part(f, R)
<1>1. IsFiniteSet(T) BY FS_Subset
<1>. QED BY <1>1 DEF Part

(* Totals of parts, one more element at a time. *)
LEMMA PartAdds ==
  ASSUME NEW S, IsFiniteSet(S), NEW f \in [S -> Int]
  PROVE  /\ Total(Part(f, {})) = 0 /\ Total(Part(f, S)) = Total(f)
         /\ \A T \in SUBSET S : Total(Part(f, T)) \in Int
         /\ \A T \in SUBSET S : \A x \in T : Total(Part(f, T)) = f[x] + Total(Part(f, T \ {x}))
<1>1. ASSUME NEW T \in SUBSET S
      PROVE  /\ Total(Part(f, T)) \in Int /\ (T = {} => Total(Part(f, T)) = 0)
             /\ \A x \in T : Total(Part(f, T)) = f[x] + Total(Part(f, T \ {x}))
  <2> DEFINE h == Part(f, T)
  <2>1. /\ IsFiniteSet(T) /\ h \in [T -> Int] /\ \A x \in T : h[x] = f[x]
        /\ \A R \in SUBSET T : Part(h, R) = Part(f, R)
    BY PartOfPart
  <2>. HIDE DEF h
  <2>2. Adds(h, T) BY <2>1, TotalAdds
  <2>3. /\ Total(h) \in Int /\ (T = {} => Total(h) = 0)
        /\ \A x \in T : Total(h) = h[x] + Total(Part(h, T \ {x}))
    BY <2>2 DEF Adds
  <2>4. \A x \in T : Part(h, T \ {x}) = Part(f, T \ {x}) BY <2>1
  <2>5. \A x \in T : Total(h) = f[x] + Total(Part(f, T \ {x})) BY <2>1, <2>3, <2>4
  <2>. QED BY <2>3, <2>5 DEF h
<1>2. Part(f, S) = f BY DEF Part
<1>. QED BY <1>1, <1>2

(* A total of sums is the sum of totals. *)
LEMMA TotalPlus ==
  ASSUME NEW S, IsFiniteSet(S), NEW f \in [S -> Int], NEW g \in [S -> Int], NEW h \in [S -> Int],
         \A x \in S : h[x] = f[x] + g[x]
  PROVE  Total(h) = Total(f) + Total(g)
<1> DEFINE F(T) == Total(Part(f, T))
           H(T) == Total(Part(h, T))
           K(T) == Total(Part(g, T))
           G == {T \in SUBSET S : H(T) = F(T) + K(T)}
<1>1. /\ F({}) = 0 /\ F(S) = Total(f) /\ \A T \in SUBSET S : F(T) \in Int
      /\ \A T \in SUBSET S : \A x \in T : F(T) = f[x] + F(T \ {x})
  BY PartAdds
<1>2. /\ K({}) = 0 /\ K(S) = Total(g) /\ \A T \in SUBSET S : K(T) \in Int
      /\ \A T \in SUBSET S : \A x \in T : K(T) = g[x] + K(T \ {x})
  BY PartAdds
<1>3. /\ H({}) = 0 /\ H(S) = Total(h) /\ \A T \in SUBSET S : H(T) \in Int
      /\ \A T \in SUBSET S : \A x \in T : H(T) = h[x] + H(T \ {x})
  BY PartAdds
<1>. HIDE DEF F, H, K
<1>4. {} \in G BY <1>1, <1>2, <1>3
<1>5. ASSUME NEW T \in SUBSET S, T # {}, \A x \in T : T \ {x} \in G PROVE T \in G
  <2>1. PICK x \in T : TRUE BY <1>5
  <2> DEFINE R == T \ {x}
  <2>2. R \in SUBSET S /\ H(R) = F(R) + K(R) /\ x \in S BY <1>5, <2>1
  <2>3. F(T) = f[x] + F(R) /\ K(T) = g[x] + K(R) /\ H(T) = h[x] + H(R) BY <1>1, <1>2, <1>3, <2>1
  <2>. HIDE DEF R
  <2>4. F(R) \in Int /\ K(R) \in Int /\ f[x] \in Int /\ g[x] \in Int /\ h[x] = f[x] + g[x]
    BY <1>1, <1>2, <2>2
  <2>5. H(T) = F(T) + K(T) BY <2>2, <2>3, <2>4
  <2>. QED BY <2>5
<1>6. S \in G
  <2>. HIDE DEF G
  <2>. QED BY <1>4, <1>5, FiniteInduction
<1>. QED BY <1>1, <1>2, <1>3, <1>6

(* h is c times f. *)
Times(h, c, f, S) ==
  c \in Int /\ f \in [S -> Int] /\ h \in [S -> Int] /\ \A x \in S : h[x] = c * f[x]

(* A common factor may be taken out. *)
LEMMA TotalTimes ==
  ASSUME NEW S, IsFiniteSet(S), NEW h, NEW c, NEW f, Times(h, c, f, S)
  PROVE  Total(h) = c * Total(f)
<1>0. c \in Int /\ f \in [S -> Int] /\ h \in [S -> Int] /\ \A x \in S : h[x] = c * f[x]
  BY DEF Times
<1> DEFINE F(T) == Total(Part(f, T))
           H(T) == Total(Part(h, T))
           G == {T \in SUBSET S : H(T) = c * F(T)}
<1>1. /\ F({}) = 0 /\ F(S) = Total(f) /\ \A T \in SUBSET S : F(T) \in Int
      /\ \A T \in SUBSET S : \A x \in T : F(T) = f[x] + F(T \ {x})
  BY <1>0, PartAdds
<1>3. /\ H({}) = 0 /\ H(S) = Total(h) /\ \A T \in SUBSET S : H(T) \in Int
      /\ \A T \in SUBSET S : \A x \in T : H(T) = h[x] + H(T \ {x})
  BY <1>0, PartAdds
<1>. HIDE DEF F, H
<1>4. {} \in G BY <1>0, <1>1, <1>3
<1>5. ASSUME NEW T \in SUBSET S, T # {}, \A x \in T : T \ {x} \in G PROVE T \in G
  <2>1. PICK x \in T : TRUE BY <1>5
  <2> DEFINE R == T \ {x}
  <2>2. R \in SUBSET S /\ H(R) = c * F(R) /\ x \in S BY <1>5, <2>1
  <2>3. F(T) = f[x] + F(R) /\ H(T) = h[x] + H(R) BY <1>1, <1>3, <2>1
  <2>. HIDE DEF R
  <2>4. F(R) \in Int /\ f[x] \in Int /\ h[x] = c * f[x] BY <1>0, <1>1, <2>2
  <2>5. c * (f[x] + F(R)) = c * f[x] + c * F(R) BY <1>0, <2>4
  <2>6. H(T) = c * F(T) BY <2>2, <2>3, <2>4, <2>5
  <2>. QED BY <2>6
<1>6. S \in G
  <2>1. IsFiniteSet(S) /\ \A T \in SUBSET S : T # {} /\ (\A x \in T : T \ {x} \in G) => T \in G
    BY <1>5
  <2>. HIDE DEF G
  <2>2. \A T \in SUBSET S : T \in G BY ONLY <1>4, <2>1, FiniteInduction
  <2>. QED BY <2>2
<1>. QED BY <1>1, <1>3, <1>6

(* Ones are counted. *)
LEMMA TotalCounts ==
  ASSUME NEW S, IsFiniteSet(S), NEW f, f \in [S -> {0, 1}]
  PROVE  Total(f) = Cardinality({x \in S : f[x] = 1})
<1> DEFINE T == {x \in S : f[x] = 1}
           key == [x \in T |-> x]
<1>1. T \in SUBSET S /\ IsFiniteSet(T) BY FS_Subset
<1>2. f \in [S -> Nat] OBVIOUS
<1>3. key \in [T -> S] OBVIOUS
<1>4. ASSUME NEW x \in S PROVE f[x] = Cardinality({y \in T : key[y] = x})
  <2>1. {y \in T : key[y] = x} = IF f[x] = 1 THEN {x} ELSE {} OBVIOUS
  <2>2. f[x] = 0 \/ f[x] = 1 OBVIOUS
  <2>. QED BY <2>1, <2>2, FS_EmptySet, FS_Singleton
<1>. HIDE DEF key, T
<1>5. Total(f) = Cardinality(T) BY <1>1, <1>2, <1>3, <1>4, CountedByKey
<1>. QED BY <1>5 DEF T

(* Where all numbers are the same, the total is so many times theirs. *)
LEMMA TotalAlike ==
  ASSUME NEW S, IsFiniteSet(S), NEW c \in Int, NEW h \in [S -> Int], \A x \in S : h[x] = c
  PROVE  Cardinality(S) \in Nat /\ Total(h) = c * Cardinality(S)
<1> DEFINE f == [x \in S |-> 1]
<1>1. f \in [S -> {0, 1}] /\ f \in [S -> Int] /\ \A x \in S : f[x] = 1 OBVIOUS
<1>2. {x \in S : f[x] = 1} = S OBVIOUS
<1>. HIDE DEF f
<1>3. Total(f) = Cardinality(S) BY <1>1, <1>2, TotalCounts
<1>4. Times(h, c, f, S) BY <1>1 DEF Times
<1>5. Total(h) = c * Total(f) BY <1>1, <1>4, TotalTimes
<1>. QED BY <1>3, <1>5, FS_CardinalityType

(* A total does not depend on how its elements are named. *)
LEMMA TotalRenamed ==
  ASSUME NEW S, IsFiniteSet(S), NEW R, NEW p \in [S -> R], \A y \in R : \E x \in S : p[x] = y,
         \A x, y \in S : p[x] = p[y] => x = y,
         NEW f \in [R -> Int], NEW h \in [S -> Int], \A x \in S : h[x] = f[p[x]]
  PROVE  IsFiniteSet(R) /\ Cardinality(R) = Cardinality(S) /\ Total(h) = Total(f)
<1>1. IsFiniteSet(R) /\ Cardinality(R) = Cardinality(S) BY ImageOf
<1> DEFINE I(T) == {p[x] : x \in T}
           F(T) == Total(Part(f, T))
           H(T) == Total(Part(h, T))
           G == {T \in SUBSET S : H(T) = F(I(T))}
<1>2. /\ F({}) = 0 /\ F(R) = Total(f) /\ \A T \in SUBSET R : F(T) \in Int
      /\ \A T \in SUBSET R : \A x \in T : F(T) = f[x] + F(T \ {x})
  BY <1>1, PartAdds
<1>3. /\ H({}) = 0 /\ H(S) = Total(h) /\ \A T \in SUBSET S : H(T) \in Int
      /\ \A T \in SUBSET S : \A x \in T : H(T) = h[x] + H(T \ {x})
  <2>1. IsFiniteSet(S) /\ h \in [S -> Int] OBVIOUS
  <2>. QED BY ONLY <2>1, PartAdds
<1>. HIDE DEF F, H
<1>4. {} \in G
  <2>1. I({}) = {} OBVIOUS
  <2>. QED BY <1>2, <1>3, <2>1
<1>5. ASSUME NEW T \in SUBSET S, T # {}, \A x \in T : T \ {x} \in G PROVE T \in G
  <2>1. PICK x \in T : TRUE BY <1>5
  <2> DEFINE Q == T \ {x}
  <2>2. Q \in SUBSET S /\ H(Q) = F(I(Q)) /\ x \in S BY <1>5, <2>1
  <2>3. p[x] \in I(T) /\ I(T) \in SUBSET R /\ I(T) \ {p[x]} = I(Q) BY <2>1
  <2>4. F(I(T)) = f[p[x]] + F(I(T) \ {p[x]})
    <3>. HIDE DEF I
    <3>. QED BY <1>2, <2>3
  <2>5. H(T) = h[x] + H(Q) BY <1>3, <2>1
  <2>6. h[x] = f[p[x]] BY <2>1
  <2>. HIDE DEF I, Q
  <2>7. H(T) = F(I(T)) BY <2>2, <2>3, <2>4, <2>5, <2>6
  <2>. QED BY <2>7
<1>6. S \in G
  <2>1. IsFiniteSet(S) /\ \A T \in SUBSET S : T # {} /\ (\A x \in T : T \ {x} \in G) => T \in G
    BY <1>5
  <2>. HIDE DEF G
  <2>2. \A T \in SUBSET S : T \in G BY ONLY <1>4, <2>1, FiniteInduction
  <2>. QED BY <2>2
<1>7. I(S) = R OBVIOUS
<1>. QED BY <1>1, <1>2, <1>3, <1>6, <1>7

(* A greater number makes a greater total. *)
LEMMA TotalIsLess ==
  ASSUME NEW S, IsFiniteSet(S), NEW f \in [S -> Nat], NEW g \in [S -> Nat],
         \A x \in S : f[x] <= g[x], NEW c \in S, f[c] < g[c]
  PROVE  Total(f) < Total(g)
<1> DEFINE R == S \ {c}
           a == Part(f, R)
           b == Part(g, R)
<1>1. R \in SUBSET S /\ IsFiniteSet(R) BY FS_Subset
<1>2. a \in [R -> Nat] /\ b \in [R -> Nat] /\ \A x \in R : a[x] <= b[x] BY DEF Part
<1>3. f \in [S -> Int] /\ g \in [S -> Int] OBVIOUS
<1>. HIDE DEF R, a, b
<1>4. Total(a) <= Total(b) BY <1>1, <1>2, TotalGrows
<1>5. Adds(f, S) /\ Adds(g, S) BY <1>3, TotalAdds
<1>6. Total(f) = f[c] + Total(a) /\ Total(g) = g[c] + Total(b) BY <1>5 DEF Adds, a, b, R
<1>7. Total(a) \in Nat /\ Total(b) \in Nat BY <1>1, <1>2, TotalIsNat
<1>8. f[c] \in Nat /\ g[c] \in Nat OBVIOUS
<1>. QED BY <1>4, <1>6, <1>7, <1>8

-----------------------------------------------------------------------------
(* Sorted numbers. *)

(* o is q in ascending order, p says where each comes from. *)
Sorts(o, p, q, n) ==
  /\ n \in Nat /\ DOMAIN q = 1..n /\ o \in [1..n -> Int] /\ p \in [1..n -> 1..n]
  /\ \A k \in 1..n : o[k] = q[p[k]]
  /\ \A k, l \in 1..n : p[k] = p[l] => k = l
  /\ \A i \in 1..n : \E k \in 1..n : p[k] = i
  /\ \A k, l \in 1..n : k <= l => o[k] <= o[l]

(* Ascending is. *)
LEMMA AscendingSorts ==
  ASSUME NEW n \in Nat, NEW q, q \in [1..n -> Int]
  PROVE  \E p : Sorts(Ascending(q), p, q, n)
<1> DEFINE score == [x \in ToSet(q) |-> -x]
           o == Ascending(q)
<1>1. DOMAIN q = 1..n /\ \A i \in 1..n : q[i] \in Int /\ q[i] \in ToSet(q) BY DEF ToSet
<1>2. \A i \in 1..n : score[q[i]] = -q[i] /\ score[q[i]] \in Int BY <1>1
<1>3. o = StableBest(q, score) BY DEF Ascending
<1>. HIDE DEF o, score
<1>4. PICK p : Orders(p, q, score) BY <1>1, <1>2, StableBestSorts
<1>5. /\ p \in [1..n -> 1..n] /\ o = [m \in 1..n |-> q[p[m]]]
      /\ \A i, j \in 1..n : p[i] = p[j] => i = j
      /\ \A i \in 1..n : \E m \in 1..n : p[m] = i
      /\ \A m, l \in 1..n : m < l => score[q[p[m]]] >= score[q[p[l]]]
  <2>1. \A m \in 1..n : p[m] \in 1..n BY <1>1, <1>4 DEF Orders
  <2>2. \A m \in 1..n : score[q[p[m]]] \in Int BY <1>2, <2>1
  <2>3. \A m, l \in 1..n : m < l => \/ score[q[p[m]]] > score[q[p[l]]]
                                    \/ score[q[p[m]]] = score[q[p[l]]] /\ p[m] < p[l]
    BY <1>1, <1>4 DEF Orders
  <2>4. \A m, l \in 1..n : m < l => score[q[p[m]]] >= score[q[p[l]]] BY ONLY <2>2, <2>3
  <2>. QED BY <1>1, <1>3, <1>4, <2>4 DEF Orders
<1>6. \A k \in 1..n : o[k] = q[p[k]] /\ o[k] \in Int /\ score[q[p[k]]] = -o[k]
  BY <1>1, <1>2, <1>5
<1>7. \A k, l \in 1..n : k <= l => o[k] <= o[l]
  <2>. SUFFICES ASSUME NEW k \in 1..n, NEW l \in 1..n, k <= l PROVE o[k] <= o[l] OBVIOUS
  <2>1. o[k] \in Int /\ o[l] \in Int BY <1>6
  <2>2. CASE k = l BY <2>1, <2>2
  <2>3. CASE k < l
    <3>1. score[q[p[k]]] >= score[q[p[l]]] BY <1>5, <2>3
    <3>2. score[q[p[k]]] = -o[k] /\ score[q[p[l]]] = -o[l] BY <1>6
    <3>3. -o[k] >= -o[l] BY ONLY <3>1, <3>2
    <3>. QED BY ONLY <2>1, <3>3
  <2>. QED BY <2>2, <2>3
<1>8. o \in [1..n -> Int] BY <1>1, <1>5
<1>9. Sorts(o, p, q, n) BY <1>1, <1>5, <1>6, <1>7, <1>8 DEF Sorts
<1>. QED BY <1>9 DEF o

(* How many are at most x, and less than x. *)
UpTo(q, x) == {i \in DOMAIN q : q[i] <= x}
Under(q, x) == {i \in DOMAIN q : q[i] < x}

(* The k-th has less than k below it, and at least k up to it. *)
Nth(o, q, n) ==
  \A k \in 1..n : /\ IsFiniteSet(Under(q, o[k])) /\ Cardinality(Under(q, o[k])) \in Nat
                  /\ Cardinality(Under(q, o[k])) < k
                  /\ IsFiniteSet(UpTo(q, o[k])) /\ Cardinality(UpTo(q, o[k])) \in k..n

LEMMA NthIs ==
  ASSUME NEW o, NEW p, NEW q, NEW n, Sorts(o, p, q, n)
  PROVE  Nth(o, q, n)
<1>1. /\ n \in Nat /\ DOMAIN q = 1..n /\ o \in [1..n -> Int] /\ p \in [1..n -> 1..n]
      /\ \A k \in 1..n : o[k] = q[p[k]]
      /\ \A k, l \in 1..n : p[k] = p[l] => k = l
      /\ \A i \in 1..n : \E k \in 1..n : p[k] = i
      /\ \A k, l \in 1..n : k <= l => o[k] <= o[l]
  BY DEF Sorts
<1>2. ASSUME NEW k \in 1..n
      PROVE  /\ IsFiniteSet(Under(q, o[k])) /\ Cardinality(Under(q, o[k])) \in Nat
             /\ Cardinality(Under(q, o[k])) < k
             /\ IsFiniteSet(UpTo(q, o[k])) /\ Cardinality(UpTo(q, o[k])) \in k..n
  <2> DEFINE A == Under(q, o[k])
             B == UpTo(q, o[k])
             j == k - 1
             P(m) == {p[l] : l \in 1..m}
  <2>1. A \in SUBSET (1..n) /\ B \in SUBSET (1..n) BY <1>1 DEF Under, UpTo
  <2>2. IsFiniteSet(1..n) /\ Cardinality(1..n) = n BY <1>1, FS_Interval
  <2>3. ASSUME NEW m \in 0..n PROVE IsFiniteSet(P(m)) /\ Cardinality(P(m)) = m
    <3> DEFINE h == [l \in 1..m |-> p[l]]
               R == P(m)
    <3>1. \A l \in 1..m : l \in 1..n BY <1>1
    <3>2. h \in [1..m -> R] /\ \A y \in R : \E l \in 1..m : h[l] = y BY <3>1
    <3>3. \A x, y \in 1..m : h[x] = h[y] => x = y BY <1>1, <3>1
    <3>4. IsFiniteSet(1..m) /\ Cardinality(1..m) = m
      <4>1. m \in Nat BY <1>1
      <4>. QED BY <4>1, FS_Interval
    <3>. HIDE DEF h, R
    <3>5. IsFiniteSet(R) /\ Cardinality(R) = m BY ONLY <3>2, <3>3, <3>4, ImageOf
    <3>. QED BY <3>5 DEF R
  <2>4. A \subseteq P(j)
    <3>. SUFFICES ASSUME NEW i \in A PROVE i \in P(j) OBVIOUS
    <3>1. PICK l \in 1..n : p[l] = i BY <1>1, <2>1
    <3>2. q[i] < o[k] /\ o[l] = q[i] /\ o[l] \in Int /\ o[k] \in Int BY <1>1, <3>1 DEF Under
    <3>3. ~(k <= l)
      <4>1. k <= l => o[k] <= o[l] BY <1>1
      <4>. QED BY <3>2, <4>1
    <3>4. l \in 1..j BY <1>1, <3>3
    <3>. QED BY <3>1, <3>4
  <2>5. P(k) \subseteq B
    <3>. SUFFICES ASSUME NEW l \in 1..k PROVE p[l] \in B OBVIOUS
    <3>1. l \in 1..n /\ l <= k BY <1>1
    <3>2. o[l] <= o[k] /\ o[l] = q[p[l]] /\ p[l] \in 1..n BY <1>1, <3>1
    <3>. QED BY <1>1, <3>2 DEF UpTo
  <2>. HIDE DEF A, B, P
  <2>6. k \in 0..n /\ j \in 0..n /\ k \in Nat BY <1>1
  <2>7. IsFiniteSet(A) /\ Cardinality(A) \in Nat /\ Cardinality(A) <= j
    BY <2>3, <2>4, <2>6, FS_Subset, FS_CardinalityType
  <2>8. IsFiniteSet(B) /\ Cardinality(B) \in Nat /\ Cardinality(B) <= n
    BY <2>1, <2>2, FS_Subset, FS_CardinalityType
  <2>9. k <= Cardinality(B) BY <2>3, <2>5, <2>6, <2>8, FS_Subset
  <2>10. Cardinality(A) < k BY <2>6, <2>7
  <2>11. Cardinality(B) \in k..n BY <1>1, <2>6, <2>8, <2>9
  <2>. QED BY <2>7, <2>8, <2>10, <2>11 DEF A, B
<1>. QED BY <1>2 DEF Nth

(* The numbers of q, moved by s, are at most those of v. *)
LieUnder(q, s, v, n) ==
  /\ s \in [1..n -> 1..n] /\ \A i, j \in 1..n : s[i] = s[j] => i = j
  /\ \A i \in 1..n : q[s[i]] <= v[i]

(* What is at least as great in each place is so in order. *)
LEMMA SortedGrows ==
  ASSUME NEW o, NEW p, NEW q, NEW n, Sorts(o, p, q, n),
         NEW u, NEW r, NEW v, Sorts(u, r, v, n), NEW s, LieUnder(q, s, v, n)
  PROVE  \A k \in 1..n : o[k] <= u[k]
<1>0. /\ s \in [1..n -> 1..n] /\ \A i, j \in 1..n : s[i] = s[j] => i = j
      /\ \A i \in 1..n : q[s[i]] <= v[i]
  BY DEF LieUnder
<1>1. /\ n \in Nat /\ DOMAIN q = 1..n /\ o \in [1..n -> Int] /\ DOMAIN v = 1..n /\ u \in [1..n -> Int]
  BY DEF Sorts
<1>2. \A i \in 1..n : q[i] \in Int /\ v[i] \in Int BY DEF Sorts
<1>3. Nth(o, q, n) /\ Nth(u, v, n) BY NthIs
<1>. SUFFICES ASSUME NEW k \in 1..n, ~(o[k] <= u[k]) PROVE FALSE OBVIOUS
<1> DEFINE A == UpTo(v, u[k])
           B == Under(q, o[k])
           h == [i \in A |-> s[i]]
           I == {s[i] : i \in A}
<1>4. o[k] \in Int /\ u[k] \in Int /\ u[k] < o[k] BY <1>1
<1>5. A \in SUBSET (1..n) /\ I \subseteq B
  <2>1. A \in SUBSET (1..n) BY <1>1 DEF UpTo
  <2>2. ASSUME NEW i \in A PROVE s[i] \in B
    <3>1. i \in 1..n /\ v[i] <= u[k] /\ q[s[i]] <= v[i] /\ s[i] \in 1..n
      BY <1>0, <1>1, <2>1 DEF UpTo
    <3>2. q[s[i]] < o[k] BY <1>2, <1>4, <3>1
    <3>. QED BY <1>1, <3>1, <3>2 DEF Under
  <2>. QED BY <2>1, <2>2
<1>6. IsFiniteSet(A) /\ Cardinality(A) \in k..n /\ IsFiniteSet(B) /\ Cardinality(B) \in Nat /\ Cardinality(B) < k
  BY <1>3 DEF Nth
<1>7. h \in [A -> I] /\ (\A y \in I : \E i \in A : h[i] = y) /\ \A i, j \in A : h[i] = h[j] => i = j
  BY <1>0, <1>5
<1>. HIDE DEF A, B, I, h
<1>8. Cardinality(I) = Cardinality(A) BY ONLY <1>6, <1>7, ImageOf
<1>9. Cardinality(I) <= Cardinality(B) BY <1>5, <1>6, FS_Subset
<1>10. k \in Nat BY <1>1
<1>. QED BY <1>6, <1>8, <1>9, <1>10

-----------------------------------------------------------------------------
(* Percentiles of sorted numbers. *)

(* The value at r hundredths of a rank of o. *)
Between(o, r) ==
  LET lower == 1 + r \div 100
      upper == IF r % 100 = 0 THEN lower ELSE lower + 1
  IN 100 * o[lower] + (o[upper] - o[lower]) * (r % 100)

(* Part of the way from a to b. *)
LEMMA PartOfTheWay ==
  ASSUME NEW a \in Int, NEW b \in Int, a <= b, NEW f \in 0..100, NEW g \in 0..100, f <= g
  PROVE  /\ (b - a) * f \in Int /\ (b - a) * g \in Int
         /\ 0 <= (b - a) * f /\ (b - a) * f <= (b - a) * g /\ (b - a) * g <= 100 * (b - a)
<1> DEFINE c == b - a
<1>1. c \in Nat /\ f \in Nat /\ g \in Nat /\ 100 \in Nat /\ g <= 100 OBVIOUS
<1>. HIDE DEF c
<1>2. c * f \in Nat /\ c * g \in Nat /\ c * 100 \in Nat BY <1>1
<1>3. c * f <= c * g /\ c * g <= c * 100 BY <1>1, ProductGrows
<1>4. c * 100 = 100 * c BY <1>1
<1>. QED BY <1>1, <1>2, <1>3, <1>4 DEF c

LEMMA Hundreds ==
  ASSUME NEW r \in Int
  PROVE  r % 100 \in 0..99 /\ r \div 100 \in Int /\ r = 100 * (r \div 100) + (r % 100)
<1>1. r = 100 * (r \div 100) + (r % 100) OBVIOUS
<1>2. r % 100 \in 0..99 /\ r \div 100 \in Int OBVIOUS
<1>. QED BY ONLY <1>1, <1>2

(* The ranks next to r. *)
LEMMA RanksNextTo ==
  ASSUME NEW n \in Nat \ {0}, NEW r \in 0..100 * (n - 1)
  PROVE  /\ r \div 100 \in Nat /\ r % 100 \in 0..99 /\ r = 100 * (r \div 100) + (r % 100)
         /\ 1 + r \div 100 \in 1..n /\ (r % 100 # 0 => 2 + r \div 100 \in 1..n)
<1>1. r \in Nat /\ r <= 100 * (n - 1) OBVIOUS
<1>a. r \in Int
  BY <1>1
<1>b. /\ r % 100 \in 0..99 /\ r \div 100 \in Int /\ r = 100 * (r \div 100) + (r % 100)
  BY ONLY <1>a, Hundreds
<1>2. r \div 100 \in Nat /\ r % 100 \in 0..99 /\ r = 100 * (r \div 100) + (r % 100)
  BY ONLY <1>1, <1>b
<1>3. 1 + r \div 100 \in 1..n BY <1>1, <1>2
<1>. QED BY <1>1, <1>2, <1>3

(* n numbers in their order. *)
Climbs(o, n) ==
  n \in Nat \ {0} /\ o \in [1..n -> Int] /\ \A k, l \in 1..n : k <= l => o[k] <= o[l]

(* Between is between the neighbours. *)
LEMMA BetweenIs ==
  ASSUME NEW n, NEW o, Climbs(o, n), NEW r \in 0..100 * (n - 1)
  PROVE  /\ Between(o, r) \in Int /\ 100 * o[1 + r \div 100] <= Between(o, r)
         /\ (r % 100 = 0 => Between(o, r) = 100 * o[1 + r \div 100])
         /\ (r % 100 # 0 =>
               /\ Between(o, r) = 100 * o[1 + r \div 100]
                                    + (o[2 + r \div 100] - o[1 + r \div 100]) * (r % 100)
               /\ Between(o, r) <= 100 * o[2 + r \div 100])
<1> DEFINE d == r \div 100
           f == r % 100
           a == o[1 + d]
           b == o[2 + d]
<1>0. n \in Nat \ {0} /\ o \in [1..n -> Int] /\ \A k, l \in 1..n : k <= l => o[k] <= o[l]
  BY DEF Climbs
<1>1. d \in Nat /\ f \in 0..99 /\ 1 + d \in 1..n /\ (f # 0 => 2 + d \in 1..n)
  BY <1>0, RanksNextTo
<1>2. Between(o, r) = IF f = 0 THEN 100 * a + (a - a) * f ELSE 100 * a + (b - a) * f
  <2>1. 1 + d + 1 = 2 + d BY <1>1
  <2>. QED BY <2>1 DEF Between
<1>. HIDE DEF d, f
<1>3. a \in Int BY <1>0, <1>1
<1>4. CASE f = 0
  <2>1. Between(o, r) = 100 * a BY <1>2, <1>3, <1>4
  <2>. QED BY <1>3, <1>4, <2>1 DEF d, f
<1>5. CASE f # 0
  <2>1. 2 + d \in 1..n /\ 1 + d <= 2 + d BY <1>1, <1>5
  <2>2. b \in Int /\ a <= b BY <1>0, <1>1, <2>1
  <2>. HIDE DEF a, b
  <2>3. f \in 0..100 /\ f <= f BY SMTT(60), <1>1
  <2>4. (b - a) * f \in Int /\ 0 <= (b - a) * f /\ (b - a) * f <= 100 * (b - a)
    BY ONLY <1>3, <2>2, <2>3, PartOfTheWay
  <2>5. Between(o, r) = 100 * a + (b - a) * f BY <1>2, <1>5
  <2>6. Between(o, r) \in Int /\ 100 * a <= Between(o, r) /\ Between(o, r) <= 100 * b
    BY ONLY <1>3, <2>2, <2>4, <2>5
  <2>. QED BY <1>5, <2>5, <2>6 DEF a, b, d, f
<1>. QED BY <1>4, <1>5

(* It grows with the rank. *)
LEMMA BetweenGrows ==
  ASSUME NEW n, NEW o, Climbs(o, n), NEW r \in 0..100 * (n - 1), NEW s \in 0..100 * (n - 1), r <= s
  PROVE  Between(o, r) <= Between(o, s)
<1> DEFINE d == r \div 100
           f == r % 100
           e == s \div 100
           g == s % 100
<1>0. n \in Nat \ {0} /\ o \in [1..n -> Int] /\ \A k, l \in 1..n : k <= l => o[k] <= o[l]
  BY DEF Climbs
<1>1. /\ d \in Nat /\ f \in 0..99 /\ r = 100 * d + f /\ 1 + d \in 1..n /\ (f # 0 => 2 + d \in 1..n)
      /\ e \in Nat /\ g \in 0..99 /\ s = 100 * e + g /\ 1 + e \in 1..n /\ (g # 0 => 2 + e \in 1..n)
  BY <1>0, RanksNextTo
<1>2. /\ Between(o, r) \in Int /\ 100 * o[1 + d] <= Between(o, r)
      /\ (f = 0 => Between(o, r) = 100 * o[1 + d])
      /\ (f # 0 => /\ Between(o, r) = 100 * o[1 + d] + (o[2 + d] - o[1 + d]) * f
                   /\ Between(o, r) <= 100 * o[2 + d])
  BY BetweenIs
<1>3. /\ Between(o, s) \in Int /\ 100 * o[1 + e] <= Between(o, s)
      /\ (g = 0 => Between(o, s) = 100 * o[1 + e])
      /\ (g # 0 => /\ Between(o, s) = 100 * o[1 + e] + (o[2 + e] - o[1 + e]) * g
                   /\ Between(o, s) <= 100 * o[2 + e])
  BY BetweenIs
<1>. HIDE DEF d, e, f, g
<1>4. d < e \/ (d = e /\ f <= g) BY <1>1
<1>5. CASE d = e /\ f <= g
  <2>1. CASE f = 0 BY <1>2, <1>3, <1>5, <2>1
  <2>2. CASE f # 0
    <3>1. g # 0 /\ f \in 0..100 /\ g \in 0..100 BY <1>1, <1>5, <2>2
    <3>2. 2 + d \in 1..n /\ 1 + d \in 1..n /\ 1 + d <= 2 + d BY <1>1, <2>2
    <3>3. o[1 + d] \in Int /\ o[2 + d] \in Int /\ o[1 + d] <= o[2 + d] BY SMTT(60), <1>0, <3>2
    <3>4. /\ (o[2 + d] - o[1 + d]) * f \in Int /\ (o[2 + d] - o[1 + d]) * g \in Int
          /\ (o[2 + d] - o[1 + d]) * f <= (o[2 + d] - o[1 + d]) * g
      BY ONLY <1>5, <3>1, <3>3, PartOfTheWay
    <3>5. /\ Between(o, r) = 100 * o[1 + d] + (o[2 + d] - o[1 + d]) * f
          /\ Between(o, s) = 100 * o[1 + d] + (o[2 + d] - o[1 + d]) * g
      BY <1>2, <1>3, <1>5, <2>2, <3>1
    <3>. QED BY ONLY <3>3, <3>4, <3>5
  <2>. QED BY <2>1, <2>2
<1>6. CASE d < e
  <2>1. o[1 + e] \in Int /\ o[1 + d] \in Int BY <1>0, <1>1
  <2>2. CASE f = 0
    <3>1. o[1 + d] <= o[1 + e]
      <4>1. 1 + d <= 1 + e BY <1>1, <1>6
      <4>. QED BY <1>0, <1>1, <4>1
    <3>. QED BY <1>2, <1>3, <2>1, <2>2, <3>1
  <2>3. CASE f # 0
    <3>1. o[2 + d] <= o[1 + e] /\ o[2 + d] \in Int
      <4>1. 2 + d <= 1 + e BY <1>1, <1>6
      <4>. QED BY <1>0, <1>1, <2>3, <4>1
    <3>. QED BY <1>2, <1>3, <2>1, <2>3, <3>1
  <2>. QED BY <2>2, <2>3
<1>. QED BY <1>4, <1>5, <1>6

(* And with the numbers. *)
LEMMA BetweenFollows ==
  ASSUME NEW n, NEW o, Climbs(o, n), NEW u, Climbs(u, n),
         \A k \in 1..n : o[k] <= u[k], NEW r \in 0..100 * (n - 1)
  PROVE  Between(o, r) <= Between(u, r)
<1> DEFINE d == r \div 100
           f == r % 100
<1>0. n \in Nat \ {0} /\ o \in [1..n -> Int] /\ \A k, l \in 1..n : k <= l => o[k] <= o[l]
  BY DEF Climbs
<1>a. u \in [1..n -> Int]
  BY DEF Climbs
<1>1. d \in Nat /\ f \in 0..99 /\ 1 + d \in 1..n /\ (f # 0 => 2 + d \in 1..n)
  BY <1>0, RanksNextTo
<1>2. /\ Between(o, r) \in Int /\ (f = 0 => Between(o, r) = 100 * o[1 + d])
      /\ (f # 0 => Between(o, r) = 100 * o[1 + d] + (o[2 + d] - o[1 + d]) * f)
  BY BetweenIs
<1>3. /\ Between(u, r) \in Int /\ (f = 0 => Between(u, r) = 100 * u[1 + d])
      /\ (f # 0 => Between(u, r) = 100 * u[1 + d] + (u[2 + d] - u[1 + d]) * f)
  BY BetweenIs
<1>. HIDE DEF d, f
<1>4. o[1 + d] \in Int /\ u[1 + d] \in Int /\ o[1 + d] <= u[1 + d] BY <1>0, <1>a, <1>1
<1>5. CASE f = 0 BY <1>2, <1>3, <1>4, <1>5
<1>6. CASE f # 0
  <2> DEFINE a == o[1 + d]
             b == o[2 + d]
             x == u[1 + d]
             y == u[2 + d]
  <2>1. b \in Int /\ y \in Int /\ b <= y BY <1>0, <1>a, <1>1, <1>6
  <2>2. a \in Int /\ x \in Int /\ a <= x BY <1>4
  <2>3. Between(o, r) = 100 * a + (b - a) * f /\ Between(u, r) = 100 * x + (y - x) * f
    BY <1>2, <1>3, <1>6
  <2>. HIDE DEF a, b, x, y
  <2>4. f \in 0..100 /\ f <= 100 /\ f \in Int BY SMTT(60), <1>1
  <2>5. (y - b) * f \in Int /\ 0 <= (y - b) * f BY ONLY SMTT(60), <2>1, <2>4, PartOfTheWay
  <2>6. (x - a) * f \in Int /\ (x - a) * f <= 100 * (x - a) BY ONLY <2>2, <2>4, PartOfTheWay
  <2>7. (b - a) * f = b * f - a * f /\ (y - x) * f = y * f - x * f BY ONLY <2>1, <2>2, <2>4
  <2>8. (y - b) * f = y * f - b * f /\ (x - a) * f = x * f - a * f BY ONLY <2>1, <2>2, <2>4
  <2>9. a * f \in Int /\ b * f \in Int /\ x * f \in Int /\ y * f \in Int
    BY ONLY <2>1, <2>2, <2>4
  <2>10. 100 * a + (b * f - a * f) <= 100 * x + (y * f - x * f)
    <3> DEFINE af == a * f
               bf == b * f
               xf == x * f
               yf == y * f
    <3>1. 0 <= yf - bf /\ xf - af <= 100 * (x - a) BY <2>5, <2>6, <2>8
    <3>2. af \in Int /\ bf \in Int /\ xf \in Int /\ yf \in Int BY <2>9
    <3>. HIDE DEF af, bf, xf, yf
    <3>3. 100 * a + (bf - af) <= 100 * x + (yf - xf) BY ONLY <2>2, <3>1, <3>2
    <3>. QED BY <3>3 DEF af, bf, xf, yf
  <2>. QED BY <2>3, <2>7, <2>10
<1>. QED BY <1>5, <1>6

-----------------------------------------------------------------------------
(* The specification. *)

(* The invariant: what is called is one of the inputs. *)
InputsStayCalls == subject # "none" => subject \in DOMAIN Inputs /\ input \in Inputs[subject]

(* Every call is one of the inputs, in every state. *)
LEMMA CallsAreInputs == Spec => []InputsStayCalls
<1>1. Init => InputsStayCalls BY DEF Init, InputsStayCalls
<1>2. InputsStayCalls /\ [Next]_vars => InputsStayCalls'
  <2>. SUFFICES ASSUME InputsStayCalls, [Next]_vars PROVE InputsStayCalls' OBVIOUS
  <2>1. CASE Next BY <2>1 DEF Next, Call, InputsStayCalls
  <2>2. CASE UNCHANGED vars BY <2>2 DEF vars, InputsStayCalls
  <2>. QED BY <2>1, <2>2
<1>. QED BY <1>1, <1>2, PTL DEF Spec

(* Of readSse (api/sse.ts). *)
LEMMA FramesOfCalls == InputsStayCalls => FramesDoNotDependOnChunking
<1>. SUFFICES ASSUME InputsStayCalls, subject = "stream" PROVE FramesDoNotDependOnChunking
  BY DEF FramesDoNotDependOnChunking
<1>1. input \in Text BY StreamsAreTyped DEF InputsStayCalls, Text
<1> DEFINE frames == ReadSse(<<input>>)
           data == FlattenSeq([i \in DOMAIN frames |-> frames[i].data])
<1>2. /\ \A cuts : ReadSse(CutAt(input, cuts)) = frames
      /\ Len(data) <= Cardinality({i \in DOMAIN input : input[i] = "data:"})
  BY <1>1, FramesOfText
<1>. QED BY <1>2 DEF FramesDoNotDependOnChunking

(* Of OpenAICompatibleClient.complete. *)
LEMMA CompletionOfCalls == InputsStayCalls => RetriesStayBounded
<1>. SUFFICES ASSUME InputsStayCalls, subject = "complete" PROVE RetriesStayBounded
  BY DEF RetriesStayBounded
<1>1. /\ input.limit \in CompletionLimit /\ input.responses \in Seq(CompletionResponse)
      /\ Len(input.responses) > input.limit.retries
  BY CallsAreAnswered DEF InputsStayCalls
<1>. QED BY <1>1, CompletionIsBounded DEF RetriesStayBounded

(* Of OpenAICompatibleClient.stream. *)
LEMMA StreamOfCalls == InputsStayCalls => SilentStreamEnds
<1>. SUFFICES ASSUME InputsStayCalls, subject = "deltas" PROVE SilentStreamEnds
  BY DEF SilentStreamEnds
<1>1. input.limit \in StreamLimit /\ input.lines \in Seq(StreamLine)
  BY StreamsAreTyped DEF InputsStayCalls
<1>. QED BY <1>1, StreamEnds DEF SilentStreamEnds

(* Of GeminiEmbedder._post. *)
LEMMA PostOfCalls == InputsStayCalls => EmbeddingIsTriedEnough
<1>. SUFFICES ASSUME InputsStayCalls, subject = "embedding" PROVE EmbeddingIsTriedEnough
  BY DEF EmbeddingIsTriedEnough
<1>1. /\ input.limit \in PostLimit /\ input.responses \in Seq(PostResponse)
      /\ Len(input.responses) > input.limit.retries
  BY CallsAreAnswered DEF InputsStayCalls
<1>. QED BY <1>1, PostsAreEnough DEF EmbeddingIsTriedEnough

(* Of GeminiEmbedder._embed. *)
LEMMA VectorsOfCalls == InputsStayCalls => VectorsBelongToTexts
<1>. SUFFICES ASSUME InputsStayCalls, subject = "batches" PROVE VectorsBelongToTexts
  BY DEF VectorsBelongToTexts
<1>1. input.texts \in Seq(Nat) /\ input.batch \in Nat \ {0}
  BY CallsAreAnswered DEF InputsStayCalls
<1> DEFINE texts == input.texts
           vector == [t \in ToSet(texts) |-> <<t>>]
<1>2. Embed(texts, input.batch, vector) = [i \in DOMAIN texts |-> vector[texts[i]]]
  <2>. HIDE DEF vector
  <2>. QED BY <1>1, EmbedIs
<1>3. \A i \in DOMAIN texts : vector[texts[i]] = <<texts[i]>> BY DEF ToSet
<1>. QED BY <1>2, <1>3 DEF VectorsBelongToTexts

(* Of scripts/embed_missing.py. *)
LEMMA ResumptionOfCalls == InputsStayCalls => EmbeddingResumes
<1>. SUFFICES ASSUME InputsStayCalls, subject = "batches" PROVE EmbeddingResumes
  BY DEF EmbeddingResumes
<1> DEFINE texts == input.texts
           batch == input.batch
<1>1. texts \in Seq(Nat) /\ batch \in Nat \ {0} /\ Len(texts) \in Nat
  <2>1. texts \in Seq(Nat) /\ batch \in Nat \ {0} BY CallsAreAnswered DEF InputsStayCalls
  <2>. HIDE DEF texts, batch
  <2>. QED BY <2>1
<1>. HIDE DEF texts, batch
<1> DEFINE all == [id \in ToSet(texts) |-> <<id>>]
           start == [id \in ToSet(texts) \cap {2} |-> <<0>>]
           V == {<<id>> : id \in ToSet(texts)} \cup {<<0>>}
           S == Vectors(texts, V)
           none == <<>>
<1>2. /\ all \in [ToSet(texts) -> V] /\ start \in [ToSet(texts) \cap {2} -> V]
      /\ \A id \in DOMAIN start : start[id] = <<0>>
  OBVIOUS
<1>3. start \in S /\ none \in S /\ DOMAIN none = {}
  <2>1. ToSet(texts) \cap {2} \in SUBSET ToSet(texts) /\ {} \in SUBSET ToSet(texts) OBVIOUS
  <2>2. none \in [{} -> V] /\ DOMAIN none = {} OBVIOUS
  <2>. HIDE DEF start, V, none
  <2>. QED BY <1>2, <2>1, <2>2 DEF Vectors
<1>. HIDE DEF all, start, V, none
<1>4. ASSUME NEW base \in S, NEW n \in Nat
      PROVE  LET now == EmbedMissing(texts, base, batch, all, n)
             IN /\ now \in S /\ DOMAIN base \subseteq DOMAIN now
                /\ \A id \in DOMAIN now :
                     now[id] = IF id \in DOMAIN base THEN base[id] ELSE all[id]
                /\ n >= Len(texts) => DOMAIN now = ToSet(texts)
  BY <1>1, <1>2, KeepsVectors
<1>5. ASSUME NEW m \in Nat, NEW n \in Nat
      PROVE  EmbedMissing(texts, EmbedMissing(texts, start, batch, all, m), batch, all, n)
               = EmbedMissing(texts, start, batch, all, m + n)
  BY <1>1, <1>2, <1>3, ResumesWhereItWas
<1> DEFINE done(vectors, n) == EmbedMissing(texts, vectors, batch, all, n)
<1>6. done(none, Len(texts)) = all
  <2> DEFINE filled == done(none, Len(texts))
  <2>1. /\ filled \in S /\ DOMAIN filled = ToSet(texts)
        /\ \A id \in DOMAIN filled : filled[id] = all[id]
    BY <1>1, <1>3, <1>4
  <2>. HIDE DEF filled
  <2>2. filled \in [ToSet(texts) -> V] BY <2>1 DEF Vectors
  <2>3. filled = all BY <1>2, <2>1, <2>2
  <2>. QED BY <2>3 DEF filled
<1>7. \A m, n \in 0..2 : done(done(start, m), n) = done(start, m + n) BY SMTT(60), <1>5
<1>8. \A n \in 0..3, id \in DOMAIN start : done(start, n)[id] = <<0>>
  <2>. SUFFICES ASSUME NEW n \in 0..3, NEW id \in DOMAIN start PROVE done(start, n)[id] = <<0>>
    OBVIOUS
  <2>1. n \in Nat OBVIOUS
  <2>. QED BY <1>2, <1>3, <1>4, <2>1
<1>. QED BY <1>6, <1>7, <1>8 DEF EmbeddingResumes, all, start, none, texts, batch

(* Of every way a server may answer, a stream may be cut and a script may  *)
(* be stopped: calls and streams end within their bounds and deliver each  *)
(* thing once and in order (adapters/llm/, adapters/embedding/,            *)
(* scripts/embed_missing.py, api/sse.ts).                                  *)
THEOREM ClientsBounded == Spec => []ClientsAreBounded
<1>1. InputsStayCalls => ClientsAreBounded
  BY FramesOfCalls, CompletionOfCalls, StreamOfCalls, PostOfCalls, VectorsOfCalls,
     ResumptionOfCalls DEF ClientsAreBounded
<1>. QED BY <1>1, CallsAreInputs, PTL

(* Of the token's and the body's checks (core/security.py, core/limits.py).*)
LEMMA AdmissionOfCalls == InputsStayCalls => RequestsAreAdmitted
<1>. SUFFICES ASSUME InputsStayCalls, subject = "request" PROVE RequestsAreAdmitted
  BY DEF RequestsAreAdmitted
<1>1. /\ input.request \in Request /\ input.now \in Int
      /\ input.route.needs \in {"nobody", "user", "admin"}
  BY RequestsAreTyped DEF InputsStayCalls
<1>2. RightlyAnswered(input.request, input.route, input.role, input.login, input.secret, input.now)
  BY <1>1, AdmissionIsRight
<1>. QED BY <1>2 DEF RightlyAnswered, RequestsAreAdmitted

(* Of the answers about another tenant's rows (api/v1/). *)
LEMMA OthersOfCalls == InputsStayCalls => OthersAreInvisible
<1>. SUFFICES ASSUME InputsStayCalls, subject = "database" PROVE OthersAreInvisible
  BY DEF OthersAreInvisible
<1>1. input.db \in Database BY RequestsAreTyped DEF InputsStayCalls
<1>. QED BY <1>1, OthersDoNotCount DEF OthersAreInvisible

(* Of the list and the statistics (api/v1/documents.py, api/v1/admin.py). *)
LEMMA StatisticsOfCalls == InputsStayCalls => StatisticsCountTheList
<1>. SUFFICES ASSUME InputsStayCalls, subject = "database" PROVE StatisticsCountTheList
  BY DEF StatisticsCountTheList
<1>1. input.db \in Database BY RequestsAreTyped DEF InputsStayCalls
<1>2. CountsAgree(input.db, input.tenant, input.store) BY <1>1, StatisticsCount
<1>. QED BY <1>2 DEF CountsAgree, StatisticsCountTheList

(* Whoever asks, whenever, and whatever the database holds: a request is   *)
(* answered within its caller's rights and tenant, and the answers agree   *)
(* with each other (core/limits.py, core/security.py, api/deps.py,         *)
(* api/v1/).                                                               *)
THEOREM RequestsConfined == Spec => []RequestsAreConfined
<1>1. InputsStayCalls => RequestsAreConfined
  BY AdmissionOfCalls, OthersOfCalls, StatisticsOfCalls DEF RequestsAreConfined
<1>. QED BY <1>1, CallsAreInputs, PTL

(* Of reciprocal_rank_fusion (domain/fusion.py). *)
LEMMA FusionOfCalls == InputsStayCalls => FusionRewardsAgreement
<1>. SUFFICES ASSUME InputsStayCalls, subject = "fusion" PROVE FusionRewardsAgreement
  BY DEF FusionRewardsAgreement
<1>1. /\ input.rankings \in Seq(Seq(STRING)) /\ input.k \in Nat
      /\ input.weights \in [DOMAIN input.rankings -> Nat]
  BY SearchesAreTyped DEF InputsStayCalls
<1>. QED BY <1>1, AgreementIsRewarded DEF FusionRewardsAgreement

(* Of the search branches (services/retrieval/). *)
LEMMA BudgetOfCalls == InputsStayCalls => SameBudgetInEveryMode
<1>. SUFFICES ASSUME InputsStayCalls, subject = "search" PROVE SameBudgetInEveryMode
  BY DEF SameBudgetInEveryMode
<1>1. /\ input.mode \in {"vector", "fts", "hybrid"} /\ input.k \in Nat
      /\ input.branch \in [1..3 -> Seq(Nat)] /\ \A b \in 1..3 : IsInjective(input.branch[b])
  BY SearchesAreTyped DEF InputsStayCalls
<1>2. FillsTheBudget(input.mode, input.branch, input.k)
  <2> DEFINE mode == input.mode
             branch == input.branch
             k == input.k
  <2>1. /\ mode \in {"vector", "fts", "hybrid"} /\ k \in Nat
        /\ branch \in [1..3 -> Seq(Nat)] /\ \A b \in 1..3 : IsInjective(branch[b])
    BY <1>1
  <2>. HIDE DEF mode, branch, k
  <2>2. FillsTheBudget(mode, branch, k) BY <2>1, BudgetIsTheSame
  <2>. QED BY <2>2 DEF mode, branch, k
<1>. QED BY <1>2 DEF FillsTheBudget, SameBudgetInEveryMode

(* Of CachingReranker. *)
LEMMA CacheOfCalls == InputsStayCalls => CacheIsTransparent
<1>. SUFFICES ASSUME InputsStayCalls, subject = "rerank" PROVE CacheIsTransparent
  BY DEF CacheIsTransparent
<1>1. input.top \in Nat BY SearchesAreTyped DEF InputsStayCalls
<1>. QED BY <1>1, CacheDoesNotShow DEF CacheIsTransparent

(* Of _select_context. *)
LEMMA ContextOfCalls == InputsStayCalls => ContextIsGreedy
<1>. SUFFICES ASSUME InputsStayCalls, subject = "context" PROVE ContextIsGreedy
  BY DEF ContextIsGreedy
<1>1. input.chunks \in Seq([document : Nat, section : STRING, words : Nat]) /\ input.budget \in Nat
  BY SearchesAreTyped DEF InputsStayCalls
<1>2. FilledGreedily(input.chunks, input.budget) BY <1>1, ContextIsFilledGreedily
<1>. QED BY <1>2 DEF FilledGreedily, ContextIsGreedy

(* Of POST /search. *)
LEMMA AdditionsOfCalls == InputsStayCalls => MoreAddsAtTheEnd
<1>. SUFFICES ASSUME InputsStayCalls, subject = "api_search" PROVE MoreAddsAtTheEnd
  BY DEF MoreAddsAtTheEnd
<1>1. /\ input.mode \in {"vector", "fts", "hybrid", "pipeline"} /\ input.score \in [1..3 -> Int]
      /\ input.branch \in [1..3 -> Seq(1..3)] /\ \A b \in 1..3 : IsInjective(input.branch[b])
  BY SearchesAreTyped DEF InputsStayCalls
<1> DEFINE limits == [candidates |-> 2, top |-> 3, weights |-> <<1, 1, 1>>, rrfK |-> 60,
                      budget |-> 4]
           chunk == [i \in 1..3 |-> [id |-> i, document |-> 1, words |-> i,
                                     section |-> IF i = 3 THEN "" ELSE "a"]]
           C == {chunk[i] : i \in 1..3}
           score == [c \in C |-> input.score[c.id]]
           mode == input.mode
           branch == input.branch
           hits(m, k) == Search(m, branch, limits, k, score, chunk)
<1>2. chunk \in [1..3 -> C] /\ \A i \in 1..3 : chunk[i].id = i OBVIOUS
<1>3. /\ limits \in [candidates : Nat, top : Nat, weights : [1..3 -> Nat], rrfK : Nat, budget : Nat]
      /\ limits.top = 3
  OBVIOUS
<1>. HIDE DEF chunk, limits
<1>4. score \in [C -> Int] BY <1>1, <1>2
<1>5. \A i, j \in 1..3 : chunk[i] = chunk[j] => i = j BY <1>2
<1>. HIDE DEF score, C, mode, branch
<1>6. /\ mode \in {"vector", "fts", "hybrid", "pipeline"}
      /\ branch \in [1..3 -> Seq(1..3)] /\ \A b \in 1..3 : IsInjective(branch[b])
  BY <1>1 DEF mode, branch
<1>7. \A k \in Nat : ShowsWell(mode, branch, limits, k, score, chunk, C)
  <2>. SUFFICES ASSUME NEW k \in Nat PROVE ShowsWell(mode, branch, limits, k, score, chunk, C)
    OBVIOUS
  <2> DEFINE I == 1..3
  <2>1. chunk \in [I -> C] /\ (\A i, j \in I : chunk[i] = chunk[j] => i = j) /\ AreBranches(branch, I)
    BY <1>2, <1>5, <1>6 DEF AreBranches
  <2>. HIDE DEF I
  <2>2. /\ mode \in {"vector", "fts", "hybrid", "pipeline"} /\ score \in [C -> Int] /\ k \in Nat
        /\ limits \in [candidates : Nat, top : Nat, weights : [1..3 -> Nat], rrfK : Nat, budget : Nat]
    BY <1>3, <1>4, <1>6
  <2>. QED BY ONLY <2>1, <2>2, LargerAddsAtTheEnd
<1>. HIDE DEF hits
<1>8. \A k \in Nat : Shows(hits(mode, k), hits(mode, k + 1), k, C)
                     /\ ToSet(hits("pipeline", k)) \subseteq ToSet(hits("hybrid", 3))
  BY <1>3, <1>7 DEF ShowsWell, hits
<1>9. \A k \in Nat : IsPrefix(hits(mode, k), hits(mode, k + 1)) /\ IsInjective(hits(mode, k)) /\ Len(hits(mode, k)) <= k
  BY <1>8, StartsWith DEF Shows
<1>10. \A k \in 1..2 : k \in Nat OBVIOUS
<1>11. 3 \in Nat OBVIOUS
<1>12. /\ \A k \in 1..2 : IsPrefix(hits(mode, k), hits(mode, k + 1))
       /\ IsInjective(hits(mode, 3)) /\ Len(hits(mode, 3)) <= 3
       /\ ToSet(hits("pipeline", 3)) \subseteq ToSet(hits("hybrid", 3))
  BY <1>8, <1>9, <1>10, <1>11
<1>. QED BY <1>12 DEF MoreAddsAtTheEnd, hits, mode, branch, score, C, chunk, limits

(* A question is answered from the right chunks, whatever the rankings,    *)
(* the scores, the cache and the chunks are (services/retrieval/,          *)
(* adapters/reranker/, domain/fusion.py).                                  *)
THEOREM SearchSound == Spec => []SearchIsSound
<1>1. InputsStayCalls => SearchIsSound
  BY FusionOfCalls, BudgetOfCalls, CacheOfCalls, ContextOfCalls, AdditionsOfCalls DEF SearchIsSound
<1>. QED BY <1>1, CallsAreInputs, PTL

-----------------------------------------------------------------------------
(* Selections of a sequence. *)

(* f runs through the n numbers of S in their order. *)
Ascends(f, n, S) ==
  /\ n \in Nat /\ f \in [1..n -> S]
  /\ \A k, l \in 1..n : k < l => f[k] < f[l]
  /\ \A i \in S : \E k \in 1..n : f[k] = i

(* InOrder does so. *)
LEMMA InOrderAscends ==
  ASSUME NEW S \in SUBSET Int, IsFiniteSet(S)
  PROVE  Ascends(InOrder(S), Cardinality(S), S)
<1> DEFINE n == Cardinality(S)
           c == [i \in S |-> Cardinality({j \in S : j < i})]
           at == [i \in S |-> c[i] + 1]
           nth(k) == CHOOSE i \in S : Cardinality({j \in S : j < i}) = k - 1
           f == [k \in 1..n |-> nth(k)]
<1>1. n \in Nat BY FS_CardinalityType
<1>2. ASSUME NEW i \in S
      PROVE  IsFiniteSet({j \in S : j < i}) /\ c[i] \in Nat /\ c[i] <= n - 1
  <2> DEFINE L == {j \in S : j < i}
             R == S \ {i}
  <2>1. L \in SUBSET R /\ L \in SUBSET S /\ c[i] = Cardinality(L) OBVIOUS
  <2>. HIDE DEF L, R, c
  <2>2. IsFiniteSet(R) /\ Cardinality(R) = n - 1 BY FS_RemoveElement DEF R
  <2>3. IsFiniteSet(L) /\ Cardinality(L) \in Nat /\ Cardinality(L) <= Cardinality(R)
    BY <2>1, <2>2, FS_Subset, FS_CardinalityType
  <2>. QED BY <2>1, <2>2, <2>3 DEF L
<1>3. ASSUME NEW i \in S, NEW j \in S, i < j PROVE c[i] < c[j]
  <2> DEFINE A == {l \in S : l < i}
             B == {l \in S : l < j}
             M == A \cup {i}
  <2>1. c[i] = Cardinality(A) /\ c[j] = Cardinality(B) /\ i \notin A /\ M \in SUBSET B
    <3>1. c[i] = Cardinality(A) /\ c[j] = Cardinality(B) OBVIOUS
    <3>. HIDE DEF c
    <3>2. i \notin A /\ i \in B BY <1>3
    <3>3. \A l \in S : l < i => l < j BY <1>3
    <3>. QED BY <3>1, <3>2, <3>3
  <2>2. IsFiniteSet(A) /\ IsFiniteSet(B) BY <1>2
  <2>3. c[i] \in Nat /\ c[j] \in Nat BY <1>2
  <2>. HIDE DEF A, B, c
  <2>4. IsFiniteSet(M) /\ Cardinality(M) = Cardinality(A) + 1 BY <2>1, <2>2, FS_AddElement
  <2>. HIDE DEF M
  <2>5. Cardinality(M) <= Cardinality(B) BY <2>1, <2>2, FS_Subset
  <2>. QED BY <2>1, <2>3, <2>4, <2>5
<1>4. at \in [S -> 1..n] /\ \A i \in S : at[i] = c[i] + 1 /\ c[i] \in Nat
  <2>1. \A i \in S : c[i] \in Nat /\ c[i] <= n - 1 BY <1>2
  <2>. HIDE DEF c, n
  <2>. QED BY <1>1, <2>1
<1>5. \A i \in S : c[i] = Cardinality({j \in S : j < i}) OBVIOUS
<1>. HIDE DEF c, at
<1>6. \A i, j \in S : at[i] = at[j] => i = j
  <2>. SUFFICES ASSUME NEW i \in S, NEW j \in S, at[i] = at[j] PROVE i = j OBVIOUS
  <2>1. ~(c[i] < c[j]) /\ ~(c[j] < c[i]) BY <1>4
  <2>2. ~(i < j) /\ ~(j < i) BY <1>3, <2>1
  <2>. QED BY <2>2
<1>7. \A k \in 1..n : \E i \in S : at[i] = k
  <2>1. IsFiniteSet(1..n) /\ Cardinality(1..n) = n BY <1>1, FS_Interval
  <2>2. at \in Injection(S, 1..n) BY <1>4, <1>6 DEF Injection, IsInjective
  <2>3. at \in Surjection(S, 1..n) BY <2>1, <2>2, FS_Injection
  <2>. QED BY <2>3 DEF Surjection
<1>8. ASSUME NEW k \in 1..n PROVE nth(k) \in S /\ at[nth(k)] = k
  <2>1. PICK i \in S : at[i] = k BY <1>7
  <2>2. Cardinality({j \in S : j < i}) = k - 1 BY <1>1, <1>4, <1>5, <2>1
  <2>3. nth(k) \in S /\ Cardinality({j \in S : j < nth(k)}) = k - 1 BY <2>2
  <2>. HIDE DEF nth
  <2>4. c[nth(k)] = k - 1 /\ at[nth(k)] = c[nth(k)] + 1 BY <1>4, <1>5, <2>3
  <2>. QED BY <1>1, <2>3, <2>4
<1>. HIDE DEF nth
<1>9. f \in [1..n -> S] /\ \A k \in 1..n : at[f[k]] = k BY <1>8
<1>10. InOrder(S) = f BY DEF InOrder, nth
<1>. HIDE DEF f, n
<1>11. \A k, l \in 1..n : k < l => f[k] < f[l]
  <2>. SUFFICES ASSUME NEW k \in 1..n, NEW l \in 1..n, k < l, ~(f[k] < f[l]) PROVE FALSE OBVIOUS
  <2>1. f[k] \in S /\ f[l] \in S /\ at[f[k]] = k /\ at[f[l]] = l BY <1>9
  <2>2. CASE f[k] = f[l] BY <2>1, <2>2, <1>1
  <2>3. CASE f[l] < f[k]
    <3>1. c[f[l]] < c[f[k]] BY <1>3, <2>1, <2>3
    <3>2. at[f[k]] = c[f[k]] + 1 /\ at[f[l]] = c[f[l]] + 1 /\ c[f[k]] \in Nat /\ c[f[l]] \in Nat
      BY <1>4, <2>1
    <3>3. l < k BY <2>1, <3>1, <3>2
    <3>. QED BY <1>1, <3>3
  <2>4. f[k] \in Int /\ f[l] \in Int BY <2>1
  <2>. QED BY <2>2, <2>3, <2>4
<1>12. \A i \in S : \E k \in 1..n : f[k] = i
  <2>. SUFFICES ASSUME NEW i \in S PROVE f[at[i]] = i /\ at[i] \in 1..n OBVIOUS
  <2>1. at[i] \in 1..n BY <1>4
  <2>. QED BY <1>6, <1>9, <2>1
<1>. QED BY <1>1, <1>9, <1>10, <1>11, <1>12 DEF Ascends, n

(* Nothing else does. *)
LEMMA OnlyInOrderAscends ==
  ASSUME NEW S \in SUBSET Int, NEW n, NEW f, Ascends(f, n, S)
  PROVE  IsFiniteSet(S) /\ n = Cardinality(S) /\ InOrder(S) = f
<1>1. n \in Nat /\ f \in [1..n -> S] /\ (\A i \in S : \E k \in 1..n : f[k] = i) BY DEF Ascends
<1>2. \A k, l \in 1..n : k < l => f[k] < f[l] BY DEF Ascends
<1>3. \A k, l \in 1..n : f[k] = f[l] => k = l
  <2>. SUFFICES ASSUME NEW k \in 1..n, NEW l \in 1..n, f[k] = f[l], k # l PROVE FALSE OBVIOUS
  <2>1. f[k] \in Int /\ f[l] \in Int BY <1>1
  <2>. QED BY <1>1, <1>2, <2>1
<1>4. IsFiniteSet(S) /\ Cardinality(S) = n
  <2>1. IsFiniteSet(1..n) /\ Cardinality(1..n) = n BY <1>1, FS_Interval
  <2>. QED BY ONLY <1>1, <1>3, <2>1, ImageOf
<1>5. ASSUME NEW k \in 1..n PROVE Cardinality({j \in S : j < f[k]}) = k - 1
  <2> DEFINE L == {j \in S : j < f[k]}
             m == k - 1
             g == [i \in 1..m |-> f[i]]
  <2>1. m \in Nat /\ \A i \in 1..m : i \in 1..n /\ i < k BY <1>1
  <2>2. \A i \in 1..m : g[i] \in L /\ g[i] = f[i] BY <1>1, <1>2, <2>1
  <2>3. \A j \in L : \E i \in 1..m : g[i] = j
    <3>. SUFFICES ASSUME NEW j \in L PROVE \E i \in 1..m : g[i] = j OBVIOUS
    <3>1. PICK i \in 1..n : f[i] = j BY <1>1
    <3>2. j \in Int /\ f[k] \in Int /\ j < f[k] BY <1>1
    <3>3. i < k BY <1>1, <1>2, <3>1, <3>2
    <3>4. i \in 1..m BY <1>1, <3>3
    <3>. QED BY <2>2, <3>1, <3>4
  <2>4. g \in [1..m -> L]
    <3>1. g = [i \in 1..m |-> g[i]] OBVIOUS
    <3>. HIDE DEF g, L, m
    <3>. QED BY <2>2, <3>1
  <2>5. \A x, y \in 1..m : g[x] = g[y] => x = y BY <1>3, <2>1, <2>2
  <2>6. IsFiniteSet(1..m) /\ Cardinality(1..m) = m BY <2>1, FS_Interval
  <2>. HIDE DEF g, L, m
  <2>7. Cardinality(L) = Cardinality(1..m) BY ONLY <2>3, <2>4, <2>5, <2>6, ImageOf
  <2>. QED BY <2>6, <2>7 DEF L, m
<1>6. \A k \in 1..n : (CHOOSE i \in S : Cardinality({j \in S : j < i}) = k - 1) = f[k]
  <2>. SUFFICES ASSUME NEW k \in 1..n
                PROVE  (CHOOSE i \in S : Cardinality({j \in S : j < i}) = k - 1) = f[k]
    OBVIOUS
  <2> DEFINE c == CHOOSE i \in S : Cardinality({j \in S : j < i}) = k - 1
  <2>1. f[k] \in S /\ Cardinality({j \in S : j < f[k]}) = k - 1 BY <1>1, <1>5
  <2>2. c \in S /\ Cardinality({j \in S : j < c}) = k - 1 BY <2>1
  <2>. HIDE DEF c
  <2>3. PICK l \in 1..n : f[l] = c BY <1>1, <2>2
  <2>4. Cardinality({j \in S : j < c}) = l - 1 BY <1>5, <2>3
  <2>5. l = k BY <1>1, <2>2, <2>4
  <2>. QED BY <2>3, <2>5 DEF c
<1>7. InOrder(S) = [k \in 1..n |-> f[k]] BY <1>4, <1>6 DEF InOrder
<1>. QED BY <1>1, <1>4, <1>7

(* u is what q has at the places e runs through. *)
Chosen(u, q, e, n, K, V) ==
  /\ Ascends(e, n, K) /\ u \in Seq(V) /\ Len(u) = n /\ DOMAIN u = 1..n
  /\ \A k \in 1..n : u[k] = q[e[k]] /\ e[k] \in DOMAIN q

(* At is that. *)
LEMMA AtIs ==
  ASSUME NEW V, NEW q \in Seq(V), NEW K \in SUBSET DOMAIN q
  PROVE  IsFiniteSet(K) /\ Chosen(At(q, K), q, InOrder(K), Cardinality(K), K, V)
<1> DEFINE e == InOrder(K)
           n == Cardinality(K)
           l == Len(q)
           u == At(q, K)
<1>1. l \in Nat /\ DOMAIN q = 1..l /\ \A i \in 1..l : q[i] \in V BY LenProperties, ElementOfSeq
<1>2. IsFiniteSet(K) /\ K \in SUBSET Int
  <2>1. IsFiniteSet(1..l) BY <1>1, FS_Interval
  <2>. HIDE DEF l
  <2>2. K \in SUBSET (1..l) BY <1>1
  <2>3. IsFiniteSet(K) BY <2>1, <2>2, FS_Subset
  <2>. QED BY <2>2, <2>3
<1>3. Ascends(e, n, K) BY <1>2, InOrderAscends
<1>. HIDE DEF n, l
<1>4. DOMAIN e = 1..n BY DEF InOrder, n
<1>. HIDE DEF e
<1>5. u = [k \in 1..n |-> q[e[k]]] BY <1>4 DEF At, e
<1>6. n \in Nat /\ \A k \in 1..n : e[k] \in K BY <1>3 DEF Ascends
<1>. HIDE DEF u
<1>7. u \in [1..n -> V] BY <1>1, <1>5, <1>6
<1>8. u \in Seq(V) /\ Len(u) = n /\ DOMAIN u = 1..n
  <2>1. u \in Seq(V) BY <1>6, <1>7, SeqDef
  <2>. QED BY <1>6, <1>7, <2>1, LenProperties
<1>. QED BY <1>2, <1>3, <1>5, <1>6, <1>8 DEF Chosen, u, e, n

(* What runs through the places with the elements of q is At. *)
LEMMA AtIsAscent ==
  ASSUME NEW q, NEW K \in SUBSET Int, NEW e, NEW n, Ascends(e, n, K)
  PROVE  At(q, K) = [k \in 1..n |-> q[e[k]]]
<1>1. InOrder(K) = e BY OnlyInOrderAscends
<1>2. e \in [1..n -> K] BY DEF Ascends
<1>. QED BY <1>1, <1>2 DEF At

(* A selection of a selection. *)
LEMMA AtOfAt ==
  ASSUME NEW V, NEW q \in Seq(V), NEW K \in SUBSET DOMAIN q, NEW u, NEW e, NEW n,
         Chosen(u, q, e, n, K, V), NEW J \in SUBSET (1..n)
  PROVE  At(u, J) = At(q, {e[j] : j \in J})
<1> DEFINE L == {e[j] : j \in J}
           d == InOrder(J)
           m == Cardinality(J)
           c == [k \in 1..m |-> e[d[k]]]
           w == At(u, J)
<1>1. /\ n \in Nat /\ e \in [1..n -> K] /\ (\A k, l \in 1..n : k < l => e[k] < e[l])
      /\ u \in Seq(V) /\ DOMAIN u = 1..n /\ \A k \in 1..n : u[k] = q[e[k]]
  BY DEF Chosen, Ascends
<1>2. Chosen(w, u, d, m, J, V) BY <1>1, AtIs
<1>. HIDE DEF w, d, m
<1>3. /\ m \in Nat /\ d \in [1..m -> J] /\ (\A k, l \in 1..m : k < l => d[k] < d[l])
      /\ (\A i \in J : \E k \in 1..m : d[k] = i)
      /\ w \in Seq(V) /\ DOMAIN w = 1..m /\ \A k \in 1..m : w[k] = u[d[k]]
  BY <1>2 DEF Chosen, Ascends
<1>4. \A k \in 1..m : c[k] = e[d[k]] /\ d[k] \in J /\ d[k] \in 1..n BY <1>3
<1>5. c \in [1..m -> L]
  <2>1. \A k \in 1..m : e[d[k]] \in L BY <1>4
  <2>. HIDE DEF L
  <2>. QED BY <2>1
<1>. HIDE DEF c
<1>6. \A k, l \in 1..m : k < l => c[k] < c[l] BY <1>1, <1>3, <1>4
<1>7. \A i \in L : \E k \in 1..m : c[k] = i
  <2>. SUFFICES ASSUME NEW i \in L PROVE \E k \in 1..m : c[k] = i OBVIOUS
  <2>1. PICK j \in J : e[j] = i OBVIOUS
  <2>2. PICK k \in 1..m : d[k] = j BY <1>3
  <2>. QED BY <1>4, <2>1, <2>2
<1>8. L \in SUBSET DOMAIN q BY <1>1
<1>. HIDE DEF L
<1>9. Ascends(c, m, L) BY <1>3, <1>5, <1>6, <1>7 DEF Ascends
<1>10. \A k \in 1..m : w[k] = q[c[k]] BY <1>1, <1>3, <1>4
<1>11. w = [k \in DOMAIN w |-> w[k]]
  <2>1. w \in [1..m -> V] BY <1>3, LenProperties
  <2>. QED BY <2>1
<1>12. At(q, L) = w
  <2>1. L \in SUBSET Int BY <1>8, LenProperties
  <2>2. At(q, L) = [k \in 1..m |-> q[c[k]]] BY ONLY <1>9, <2>1, AtIsAscent
  <2>. QED BY <1>3, <1>10, <1>11, <2>2
<1>. QED BY <1>12 DEF w, L

(* A part of a sequence is a selection of it. *)
LEMMA SubSeqIsAt ==
  ASSUME NEW V, NEW q \in Seq(V), NEW a \in 1 .. Len(q), NEW b \in a .. Len(q)
  PROVE  LET e == [k \in 1 .. b - a + 1 |-> a + k - 1]
         IN Chosen(SubSeq(q, a, b), q, e, b - a + 1, a..b, V) /\ SubSeq(q, a, b) = At(q, a..b)
<1> DEFINE n == b - a + 1
           e == [k \in 1..n |-> a + k - 1]
           K == a..b
           u == SubSeq(q, a, b)
           l == Len(q)
<1>1. l \in Nat /\ DOMAIN q = 1..l /\ \A i \in 1..l : q[i] \in V BY LenProperties, ElementOfSeq
<1>2. a \in Nat /\ b \in Nat /\ 1 <= a /\ a <= b /\ b <= l /\ n \in Nat BY <1>1
<1>3. K \in SUBSET DOMAIN q
  <2>. HIDE DEF l
  <2>. QED BY <1>1, <1>2
<1>4. \A k \in 1..n : e[k] = a + k - 1 /\ e[k] \in K BY <1>2
<1>5. \A i \in K : \E k \in 1..n : e[k] = i
  <2>. SUFFICES ASSUME NEW i \in K PROVE i - a + 1 \in 1..n /\ a + (i - a + 1) - 1 = i BY <1>4
  <2>. QED BY <1>2
<1>6. e \in [1..n -> K]
  <2>1. e = [k \in 1..n |-> e[k]] OBVIOUS
  <2>. HIDE DEF e, K
  <2>. QED BY <1>4, <2>1
<1>7. \A k, j \in 1..n : k < j => e[k] < e[j]
  <2>. HIDE DEF n
  <2>. QED BY <1>2, <1>4
<1>. HIDE DEF e, K, n, l
<1>8. Ascends(e, n, K) BY <1>2, <1>5, <1>6, <1>7 DEF Ascends
<1>9. u \in Seq(V) /\ Len(u) = n /\ \A k \in 1..n : u[k] = q[a + k - 1]
  <2>1. \A i \in a..b : q[i] \in V BY <1>1, <1>2
  <2>2. u \in Seq(V) /\ Len(u) = (IF a <= b THEN b - a + 1 ELSE 0) /\ \A i \in 1 .. b - a + 1 : u[i] = q[a + i - 1]
    BY <1>2, <2>1, SubSeqProperties
  <2>. QED BY <1>2, <2>2 DEF n
<1>10. DOMAIN u = 1..n BY <1>9, LenProperties
<1>11. u = [k \in DOMAIN u |-> u[k]]
  <2>1. u \in [1..n -> V] BY <1>9, LenProperties
  <2>. QED BY <1>10, <2>1
<1>. HIDE DEF u
<1>12. \A k \in 1..n : u[k] = q[e[k]] /\ e[k] \in DOMAIN q BY <1>3, <1>4, <1>6, <1>9
<1>13. Chosen(u, q, e, n, K, V) BY <1>8, <1>9, <1>10, <1>12 DEF Chosen
<1>14. At(q, K) = u
  <2>1. K \in SUBSET Int BY <1>3, LenProperties
  <2>2. At(q, K) = [k \in 1..n |-> q[e[k]]] BY ONLY <1>8, <2>1, AtIsAscent
  <2>. QED BY <1>10, <1>11, <1>12, <2>2
<1>. QED BY <1>13, <1>14 DEF u, e, n, K

(* The d places after x are kept as they are. *)
InARow(e, n, x, d) == \A j \in 0..d : x + j \in 1..n /\ e[x + j] = e[x] + j

(* Neighbours in q that are all taken stay neighbours. *)
LEMMA RunIsKept ==
  ASSUME NEW V, NEW q \in Seq(V), NEW K \in SUBSET DOMAIN q, NEW u, NEW e, NEW n,
         Chosen(u, q, e, n, K, V), NEW x \in 1..n, NEW d \in Nat, e[x] .. e[x] + d \subseteq K
  PROVE  InARow(e, n, x, d)
<1> DEFINE S == {j \in 0..d : x + j \in 1..n /\ e[x + j] = e[x] + j}
<1>1. /\ n \in Nat /\ e \in [1..n -> K] /\ (\A k, l \in 1..n : k < l => e[k] < e[l])
      /\ \A i \in K : \E k \in 1..n : e[k] = i
  BY DEF Chosen, Ascends
<1>2. K \in SUBSET Int
  <2>1. DOMAIN q = 1 .. Len(q) BY LenProperties
  <2>. QED BY <2>1
<1>3. 0 \in S BY <1>1, <1>2
<1>4. ASSUME NEW j \in 1..d, j - 1 \in S PROVE j \in S
  <2> DEFINE y == x + (j - 1)
  <2>1. y \in 1..n /\ e[y] = e[x] + (j - 1) /\ e[x] \in Int BY <1>1, <1>2, <1>4
  <2>2. e[x] + j \in K BY <2>1
  <2>3. PICK z \in 1..n : e[z] = e[x] + j BY <1>1, <2>2
  <2>. HIDE DEF y
  <2>4. e[y] < e[z] /\ y \in Int /\ z \in Int BY <2>1, <2>3
  <2>5. y < z
    <3>. SUFFICES ASSUME ~(y < z) PROVE FALSE OBVIOUS
    <3>1. z < y \/ z = y BY <2>4
    <3>. QED BY SMTT(60), <1>1, <1>2, <2>1, <2>3, <2>4, <3>1
  <2>6. z = y + 1
    <3>. SUFFICES ASSUME z # y + 1 PROVE FALSE OBVIOUS
    <3>1. y + 1 \in 1..n /\ y < y + 1 /\ y + 1 < z BY <1>1, <2>1, <2>3, <2>5
    <3>2. e[y] < e[y + 1] /\ e[y + 1] < e[z] /\ e[y + 1] \in Int /\ e[y] \in Int /\ e[z] \in Int
      BY <1>1, <1>2, <2>1, <2>3, <3>1
    <3>. QED BY <2>1, <2>3, <3>2
  <2>7. z = x + j BY <2>6 DEF y
  <2>. QED BY <2>3, <2>7
<1>5. \A j \in 0..d : j \in S
  <2>. HIDE DEF S
  <2>. QED BY <1>3, <1>4, InductionUpTo
<1>. QED BY <1>5 DEF InARow

-----------------------------------------------------------------------------
(* Slices of a sequence. *)

(* x is what w has after its first a elements, up to the b-th. *)
Slice(x, w, a, b, V) ==
  /\ x \in Seq(V) /\ w \in Seq(V) /\ a \in Nat /\ b \in Nat /\ a <= b /\ b <= Len(w)
  /\ Len(x) = b - a /\ \A j \in 1 .. b - a : x[j] = w[a + j]

(* Slices are of a sequence of a known length. *)
LEMMA SliceLength ==
  ASSUME NEW V, NEW w \in Seq(V)
  PROVE  Len(w) \in Nat /\ DOMAIN w = 1 .. Len(w) /\ Slice(<<>>, w, 0, 0, V) /\ Slice(w, w, 0, Len(w), V)
<1>1. Len(w) \in Nat /\ DOMAIN w = 1 .. Len(w) BY LenProperties
<1>2. <<>> \in Seq(V) /\ Len(<<>>) = 0 OBVIOUS
<1>. QED BY <1>1, <1>2 DEF Slice

(* Two slices next to each other are one. *)
LEMMA SlicesJoin ==
  ASSUME NEW V, NEW w, NEW x, NEW y, NEW a, NEW b, NEW c, Slice(x, w, a, b, V), Slice(y, w, b, c, V)
  PROVE  Slice(x \o y, w, a, c, V)
<1> DEFINE z == x \o y
<1>1. /\ x \in Seq(V) /\ y \in Seq(V) /\ w \in Seq(V) /\ a \in Nat /\ b \in Nat /\ c \in Nat
      /\ a <= b /\ b <= c /\ c <= Len(w) /\ Len(x) = b - a /\ Len(y) = c - b
      /\ (\A j \in 1 .. b - a : x[j] = w[a + j]) /\ \A j \in 1 .. c - b : y[j] = w[b + j]
  BY DEF Slice
<1>2. /\ z \in Seq(V) /\ Len(z) = Len(x) + Len(y)
      /\ \A i \in 1 .. Len(x) + Len(y) : z[i] = IF i <= Len(x) THEN x[i] ELSE y[i - Len(x)]
  BY <1>1, ConcatProperties
<1>. HIDE DEF z
<1>3. Len(z) = c - a BY <1>1, <1>2
<1>4. ASSUME NEW j \in 1 .. c - a PROVE z[j] = w[a + j]
  <2>1. CASE j <= b - a BY <1>1, <1>2, <2>1
  <2>2. CASE ~(j <= b - a)
    <3>1. j - (b - a) \in 1 .. c - b /\ b + (j - (b - a)) = a + j BY <1>1, <2>2
    <3>2. z[j] = y[j - (b - a)] BY <1>1, <1>2, <2>2
    <3>. QED BY <1>1, <3>1, <3>2
  <2>. QED BY <2>1, <2>2
<1>. QED BY <1>1, <1>2, <1>3, <1>4 DEF Slice, z

(* A slice of a slice is one. *)
LEMMA SliceOfSlice ==
  ASSUME NEW V, NEW w, NEW x, NEW a, NEW b, Slice(x, w, a, b, V), NEW i \in Nat, NEW j \in Nat, i <= j,
         j <= b - a
  PROVE  Slice(SubSeq(x, i + 1, j), w, a + i, a + j, V)
<1> DEFINE z == SubSeq(x, i + 1, j)
<1>1. /\ x \in Seq(V) /\ w \in Seq(V) /\ a \in Nat /\ b \in Nat
      /\ a <= b /\ b <= Len(w) /\ Len(x) = b - a /\ \A k \in 1 .. b - a : x[k] = w[a + k]
  BY DEF Slice
<1>2. \A k \in 1 .. b - a : x[k] \in V BY <1>1, ElementOfSeq
<1>3. z \in Seq(V) /\ Len(z) = IF i + 1 <= j THEN j - (i + 1) + 1 ELSE 0
  <2>1. i + 1 \in Int /\ j \in Int /\ \A k \in i + 1 .. j : x[k] \in V BY <1>1, <1>2
  <2>. QED BY <2>1, SubSeqProperties
<1>4. \A k \in 1 .. j - (i + 1) + 1 : z[k] = x[i + 1 + k - 1]
  <2>1. i + 1 \in Int /\ j \in Int /\ \A k \in i + 1 .. j : x[k] \in V BY <1>1, <1>2
  <2>. QED BY <2>1, SubSeqProperties
<1>. HIDE DEF z
<1>5. Len(z) = (a + j) - (a + i) BY <1>1, <1>3
<1>6. ASSUME NEW k \in 1 .. (a + j) - (a + i) PROVE z[k] = w[(a + i) + k]
  <2>1. k \in 1 .. j - (i + 1) + 1 /\ i + 1 + k - 1 = i + k /\ i + k \in 1 .. b - a /\ a + (i + k) = (a + i) + k
    BY <1>1
  <2>. QED BY <1>1, <1>4, <2>1
<1>. QED BY <1>1, <1>3, <1>5, <1>6 DEF Slice, z

(* What is sliced from the same places is the same. *)
LEMMA SliceIsOne ==
  ASSUME NEW V, NEW w, NEW x, NEW y, NEW a, NEW b, Slice(x, w, a, b, V), Slice(y, w, a, b, V)
  PROVE  x = y
<1>1. /\ x \in Seq(V) /\ y \in Seq(V) /\ a \in Nat /\ b \in Nat /\ a <= b
      /\ Len(x) = b - a /\ Len(y) = b - a /\ \A j \in 1 .. b - a : x[j] = y[j]
  BY DEF Slice
<1>. QED BY <1>1, SeqEqual

(* A slice stays one when the sequence grows, and what it grows by is one. *)
LEMMA SliceGrows ==
  ASSUME NEW V, NEW w \in Seq(V), NEW y \in Seq(V)
  PROVE  /\ w \o y \in Seq(V) /\ Len(w \o y) = Len(w) + Len(y)
         /\ Slice(y, w \o y, Len(w), Len(w) + Len(y), V)
         /\ \A x, a, b : Slice(x, w, a, b, V) => Slice(x, w \o y, a, b, V)
<1> DEFINE z == w \o y
<1>1. /\ z \in Seq(V) /\ Len(z) = Len(w) + Len(y)
      /\ \A i \in 1 .. Len(w) + Len(y) : z[i] = IF i <= Len(w) THEN w[i] ELSE y[i - Len(w)]
  BY ConcatProperties
<1>2. Len(w) \in Nat /\ Len(y) \in Nat BY LenProperties
<1>. HIDE DEF z
<1>3. Slice(y, z, Len(w), Len(w) + Len(y), V)
  <2>1. \A j \in 1 .. Len(w) + Len(y) - Len(w) : z[Len(w) + j] = y[j]
    <3>. SUFFICES ASSUME NEW j \in 1 .. Len(y) PROVE z[Len(w) + j] = y[j] BY <1>2
    <3>1. Len(w) + j \in 1 .. Len(w) + Len(y) /\ ~(Len(w) + j <= Len(w)) /\ Len(w) + j - Len(w) = j
      BY <1>2
    <3>. QED BY <1>1, <3>1
  <2>. QED BY <1>1, <1>2, <2>1 DEF Slice
<1>4. ASSUME NEW x, NEW a, NEW b, Slice(x, w, a, b, V) PROVE Slice(x, z, a, b, V)
  <2>1. /\ x \in Seq(V) /\ a \in Nat /\ b \in Nat /\ a <= b /\ b <= Len(w)
        /\ Len(x) = b - a /\ \A j \in 1 .. b - a : x[j] = w[a + j]
    BY <1>4 DEF Slice
  <2>2. \A j \in 1 .. b - a : a + j \in 1 .. Len(w) + Len(y) /\ a + j <= Len(w) BY <1>2, <2>1
  <2>3. \A j \in 1 .. b - a : z[a + j] = w[a + j] BY <1>1, <2>2
  <2>4. z \in Seq(V) /\ b <= Len(z) BY <1>1, <1>2, <2>1
  <2>5. \A j \in 1 .. b - a : x[j] = z[a + j] BY <2>3, <2>1
  <2>. QED BY ONLY <2>1, <2>4, <2>5 DEF Slice
<1>. QED BY <1>1, <1>3, <1>4 DEF z

(* e has the ends of the n slices that xs are of the first of w. *)
Ends(e, xs, w, n, V) ==
  /\ e \in [0..n -> Nat] /\ e[0] = 0
  /\ \A i \in 1..n : Slice(xs[i], w, e[i - 1], e[i], V)

(* What is flattened is sliced. *)
Sliced(xs, w, n, V) == w \in Seq(V) /\ \E e : Ends(e, xs, w, n, V) /\ e[n] = Len(w)

LEMMA FlattenIsSliced ==
  ASSUME NEW V, NEW n \in Nat, NEW xs \in [1..n -> Seq(V)]
  PROVE  Sliced(xs, FlattenSeq(xs), n, V)
<1>1. CASE n = 0
  <2>1. xs = <<>> BY <1>1
  <2>2. FlattenSeq(<<>>) = <<>> /\ <<>> \in Seq(V) /\ Len(<<>>) = 0
    <3>1. FlattenSeq(<<>>) = <<>> BY DEF FlattenSeq
    <3>. QED BY <3>1
  <2> DEFINE e == [i \in 0..0 |-> 0]
  <2>3. Ends(e, xs, <<>>, 0, V) /\ e[0] = 0 BY DEF Ends
  <2>. HIDE DEF e
  <2>. QED BY <1>1, <2>1, <2>2, <2>3 DEF Sliced
<1>2. CASE n # 0
  <2>1. n \in Nat \ {0} /\ n > 0 BY <1>2
  <2>2. HasFlat(V, xs, n) BY <2>1, FlatExists
  <2>3. PICK g \in [1..n -> Seq(V)] :
          g[1] = xs[1] /\ (\A i \in 2..n : g[i] = g[i - 1] \o xs[i]) /\ FlattenSeq(xs) = g[n]
    BY <2>1, <2>2 DEF HasFlat, Flattens
  <2>4. \A i \in 1..n : g[i] \in Seq(V) /\ xs[i] \in Seq(V) /\ Len(g[i]) \in Nat
    BY LenProperties
  <2> DEFINE e == [i \in 0..n |-> IF i = 0 THEN 0 ELSE Len(g[i])]
             S == {k \in 0..n : k = 0 \/ \A i \in 1..k : Slice(xs[i], g[k], e[i - 1], e[i], V)}
  <2>5. e \in [0..n -> Nat] /\ e[0] = 0 /\ (\A i \in 1..n : e[i] = Len(g[i]))
        /\ \A i \in 2..n : e[i - 1] = Len(g[i - 1])
    BY <2>4
  <2>. HIDE DEF e
  <2>6. ASSUME NEW k \in 1..n, k - 1 \in S PROVE k \in S
    <3>1. CASE k = 1
      <4>1. Slice(xs[1], g[1], 0, Len(g[1]), V) BY <2>1, <2>3, <2>4, SliceLength
      <4>2. \A i \in 1..k : i = 1 /\ e[i - 1] = 0 /\ e[i] = Len(g[1]) BY <2>5, <3>1, <2>1
      <4>. QED BY <3>1, <4>1, <4>2
    <3>2. CASE k # 1
      <4>1. k \in 2..n /\ k - 1 \in 1..n /\ k - 1 # 0 BY <3>2
      <4>2. g[k] = g[k - 1] \o xs[k] /\ e[k - 1] = Len(g[k - 1]) /\ e[k] = Len(g[k])
        BY <2>3, <2>5, <4>1
      <4>3. \A i \in 1 .. k - 1 : Slice(xs[i], g[k - 1], e[i - 1], e[i], V) BY <2>6, <4>1
      <4>4. /\ Len(g[k]) = Len(g[k - 1]) + Len(xs[k])
            /\ Slice(xs[k], g[k], Len(g[k - 1]), Len(g[k - 1]) + Len(xs[k]), V)
            /\ \A x, a, b : Slice(x, g[k - 1], a, b, V) => Slice(x, g[k], a, b, V)
        <5>1. g[k - 1] \in Seq(V) /\ xs[k] \in Seq(V) BY <2>4, <4>1
        <5>2. /\ Len(g[k - 1] \o xs[k]) = Len(g[k - 1]) + Len(xs[k])
              /\ Slice(xs[k], g[k - 1] \o xs[k], Len(g[k - 1]), Len(g[k - 1]) + Len(xs[k]), V)
              /\ \A x, a, b : Slice(x, g[k - 1], a, b, V) => Slice(x, g[k - 1] \o xs[k], a, b, V)
          BY <5>1, SliceGrows
        <5>. QED BY <4>2, <5>2
      <4>5. ASSUME NEW i \in 1..k PROVE Slice(xs[i], g[k], e[i - 1], e[i], V)
        <5>1. CASE i = k BY <4>2, <4>4, <5>1
        <5>2. CASE i # k
          <6>1. i \in 1 .. k - 1 BY <5>2
          <6>. QED BY <4>3, <4>4, <6>1
        <5>. QED BY <5>1, <5>2
      <4>. QED BY <4>5
    <3>. QED BY <3>1, <3>2
  <2>7. 0 \in S BY <2>1
  <2>8. \A k \in 0..n : k \in S
    <3>. HIDE DEF S
    <3>. QED BY <2>1, <2>6, <2>7, InductionUpTo
  <2>9. \A i \in 1..n : Slice(xs[i], g[n], e[i - 1], e[i], V) BY <2>1, <2>8
  <2>10. Ends(e, xs, g[n], n, V) /\ e[n] = Len(g[n]) /\ g[n] \in Seq(V)
    BY <2>1, <2>4, <2>5, <2>9 DEF Ends
  <2>. QED BY <2>3, <2>10 DEF Sliced
<1>. QED BY <1>1, <1>2

(* And what is sliced is flattened to what it was sliced from. *)
LEMMA SlicesFlatten ==
  ASSUME NEW V, NEW n \in Nat, NEW xs \in [1..n -> Seq(V)], NEW w, Sliced(xs, w, n, V)
  PROVE  FlattenSeq(xs) = w
<1>1. PICK e : Ends(e, xs, w, n, V) /\ e[n] = Len(w) BY DEF Sliced
<1>2. /\ e \in [0..n -> Nat] /\ e[0] = 0 /\ w \in Seq(V)
      /\ \A i \in 1..n : Slice(xs[i], w, e[i - 1], e[i], V)
  BY <1>1 DEF Ends, Sliced
<1>3. CASE n = 0
  <2>1. xs = <<>> BY <1>3
  <2>2. FlattenSeq(<<>>) = <<>> BY DEF FlattenSeq
  <2>3. Len(w) = 0 BY <1>1, <1>2, <1>3
  <2>4. w = <<>> BY <1>2, <2>3, EmptySeq
  <2>. QED BY <2>1, <2>2, <2>4
<1>4. CASE n # 0
  <2>1. n \in Nat \ {0} /\ n > 0 BY <1>4
  <2>2. HasFlat(V, xs, n) BY <2>1, FlatExists
  <2>3. PICK g \in [1..n -> Seq(V)] :
          g[1] = xs[1] /\ (\A i \in 2..n : g[i] = g[i - 1] \o xs[i]) /\ FlattenSeq(xs) = g[n]
    BY <2>1, <2>2 DEF HasFlat, Flattens
  <2> DEFINE S == {k \in 0..n : k = 0 \/ Slice(g[k], w, 0, e[k], V)}
  <2>4. ASSUME NEW k \in 1..n, k - 1 \in S PROVE k \in S
    <3>1. Slice(xs[k], w, e[k - 1], e[k], V) BY <1>2
    <3>2. CASE k = 1
      <4>1. Slice(g[1], w, 0, e[1], V) BY <1>2, <2>3, <3>1, <3>2
      <4>. QED BY <3>2, <4>1
    <3>3. CASE k # 1
      <4>1. k \in 2..n /\ k - 1 # 0 /\ Slice(g[k - 1], w, 0, e[k - 1], V) BY <2>4, <3>3
      <4>2. g[k] = g[k - 1] \o xs[k] BY <2>3, <4>1
      <4>3. Slice(g[k - 1] \o xs[k], w, 0, e[k], V) BY <3>1, <4>1, SlicesJoin
      <4>4. Slice(g[k], w, 0, e[k], V) BY <4>2, <4>3
      <4>. QED BY <4>4
    <3>. QED BY <3>2, <3>3
  <2>5. 0 \in S BY <2>1
  <2>6. \A k \in 0..n : k \in S
    <3>. HIDE DEF S
    <3>. QED BY <2>1, <2>4, <2>5, InductionUpTo
  <2>7. Slice(g[n], w, 0, Len(w), V) BY <1>1, <2>1, <2>6
  <2>8. Slice(w, w, 0, Len(w), V) BY <1>2, SliceLength
  <2>9. g[n] = w BY <2>7, <2>8, SliceIsOne
  <2>. QED BY <2>3, <2>9
<1>. QED BY <1>3, <1>4

(* What one after the other has, one of the two has. *)
LEMMA SetOfConcat ==
  ASSUME NEW S, NEW x \in Seq(S), NEW y \in Seq(S)
  PROVE  x \o y \in Seq(S) /\ ToSet(x \o y) = ToSet(x) \cup ToSet(y)
<1> DEFINE w == x \o y
           a == Len(x)
           b == Len(y)
<1>1. /\ w \in Seq(S) /\ a \in Nat /\ b \in Nat /\ DOMAIN x = 1..a /\ DOMAIN y = 1..b
      /\ DOMAIN w = 1 .. a + b /\ \A i \in 1 .. a + b : w[i] = IF i <= a THEN x[i] ELSE y[i - a]
  BY ConcatProperties, LenProperties
<1>. HIDE DEF w, a, b
<1>2. ToSet(x) = {x[i] : i \in 1..a} /\ ToSet(y) = {y[i] : i \in 1..b} /\ ToSet(w) = {w[i] : i \in 1 .. a + b}
  BY <1>1 DEF ToSet
<1>3. /\ \A i \in 1..a : i \in 1 .. a + b /\ w[i] = x[i]
      /\ \A i \in 1..b : a + i \in 1 .. a + b /\ w[a + i] = y[i]
      /\ \A i \in 1 .. a + b : (i \in 1..a /\ w[i] = x[i]) \/ (i - a \in 1..b /\ w[i] = y[i - a])
  BY <1>1
<1>4. ToSet(w) = ToSet(x) \cup ToSet(y) BY ONLY <1>2, <1>3
<1>. QED BY <1>1, <1>4 DEF w

(* Every place up to the last end is in one of the slices, and they end    *)
(* one after the other.                                                    *)
LEMMA PlacesOfSlices ==
  ASSUME NEW V, NEW n \in Nat, NEW e, NEW xs, NEW w, Ends(e, xs, w, n, V)
  PROVE  /\ \A i \in 1 .. e[n] : \E b \in 1..n : e[b - 1] < i /\ i <= e[b]
         /\ \A b \in 0..n : \A c \in 0..b : e[c] <= e[b]
<1> DEFINE S == {b \in 0..n : \A i \in 1 .. e[b] : \E c \in 1..b : e[c - 1] < i /\ i <= e[c]}
           T == {b \in 0..n : \A c \in 0..b : e[c] <= e[b]}
<1>1. e \in [0..n -> Nat] /\ e[0] = 0 /\ \A b \in 1..n : b - 1 \in 0..n /\ e[b - 1] <= e[b]
  BY DEF Ends, Slice
<1>2. 0 \in S \cap T BY <1>1
<1>3. ASSUME NEW b \in 1..n, b - 1 \in S \cap T PROVE b \in S \cap T
  <2>1. e[b - 1] \in Nat /\ e[b] \in Nat /\ e[b - 1] <= e[b] /\ b \in 0..n BY <1>1
  <2>2. \A i \in 1 .. e[b] : i \in 1 .. e[b - 1] \/ e[b - 1] < i BY <2>1
  <2>3. \A c \in 1 .. b - 1 : c \in 1..b OBVIOUS
  <2>4. \A c \in 0..b : c = b \/ c \in 0 .. b - 1 OBVIOUS
  <2>5. \A c \in 0 .. b - 1 : e[c] \in Nat /\ e[c] <= e[b] BY <1>1, <1>3, <2>1
  <2>6. \A c \in 0..b : e[c] <= e[b] BY <2>1, <2>4, <2>5
  <2>7. \A i \in 1 .. e[b] : \E c \in 1..b : e[c - 1] < i /\ i <= e[c] BY <1>3, <2>1, <2>2, <2>3
  <2>. QED BY <2>1, <2>6, <2>7
<1>4. \A b \in 0..n : b \in S \cap T
  <2> DEFINE U == S \cap T
  <2>1. \A b \in 1..n : b - 1 \in U => b \in U BY <1>3
  <2>2. 0 \in U BY <1>2
  <2>. HIDE DEF U
  <2>3. \A b \in 0..n : b \in U BY <2>1, <2>2, InductionUpTo
  <2>. QED BY <2>3 DEF U
<1>5. n \in 0..n OBVIOUS
<1>. QED BY <1>4, <1>5

-----------------------------------------------------------------------------
(* The words of a document. *)

(* The words of all documents. *)
Word == [text : Seq(Nat), page : Nat, path : Seq(STRING), region : Nat \X Nat]

(* A block's words. *)
LEMMA WordsOfBlock ==
  ASSUME NEW blocks \in Seq(Block), NEW b \in DOMAIN blocks
  PROVE  WordsOf(blocks, b) \in Seq(Word)
         /\ \A i \in DOMAIN WordsOf(blocks, b) : WordsOf(blocks, b)[i].page = blocks[b].page
<1> DEFINE ws == blocks[b].words
           n == Len(ws)
<1>1. b \in Nat /\ blocks[b] \in Block BY LenProperties, ElementOfSeq
<1>2. ws \in Seq(Seq(Nat)) /\ blocks[b].page \in Nat /\ blocks[b].path \in Seq(STRING)
      /\ blocks[b].box \in Nat
  BY <1>1 DEF Block
<1>3. n \in Nat /\ DOMAIN ws = 1..n /\ \A i \in 1..n : ws[i] \in Seq(Nat)
  BY <1>2, LenProperties, ElementOfSeq
<1>. HIDE DEF ws, n
<1>4. WordsOf(blocks, b) = [i \in 1..n |-> [text |-> ws[i], page |-> blocks[b].page,
                                            path |-> blocks[b].path, region |-> <<blocks[b].page, blocks[b].box>>]]
  BY <1>3 DEF WordsOf, ws
<1>5. WordsOf(blocks, b) \in [1..n -> Word] BY <1>1, <1>2, <1>3, <1>4 DEF Word
<1>6. WordsOf(blocks, b) \in Seq(Word) BY <1>3, <1>5
<1>. QED BY <1>4, <1>6

(* The blocks' words are slices of the document's. *)
LEMMA DocumentIsSliced ==
  ASSUME NEW blocks \in Seq(Block)
  PROVE  Sliced([b \in DOMAIN blocks |-> WordsOf(blocks, b)], FlattenWords(blocks), Len(blocks), Word)
<1> DEFINE xs == [b \in DOMAIN blocks |-> WordsOf(blocks, b)]
           n == Len(blocks)
<1>1. n \in Nat /\ DOMAIN blocks = 1..n BY LenProperties
<1>2. xs \in [1..n -> Seq(Word)] BY <1>1, WordsOfBlock
<1>3. FlattenWords(blocks) = FlattenSeq(xs) BY DEF FlattenWords
<1>. HIDE DEF xs, n
<1>4. Sliced(xs, FlattenSeq(xs), n, Word) BY <1>1, <1>2, FlattenIsSliced
<1>. QED BY <1>3, <1>4 DEF xs, n

(* A document's words are words. *)
LEMMA DocumentIs == ASSUME NEW blocks \in Seq(Block) PROVE FlattenWords(blocks) \in Seq(Word)
BY DocumentIsSliced DEF Sliced

(* A slice's texts are a slice of the texts. *)
LEMMA TextsAre ==
  ASSUME NEW w \in Seq(Word)
  PROVE  Texts(w) \in Seq(Seq(Nat)) /\ Len(Texts(w)) = Len(w) /\ \A i \in 1 .. Len(w) : Texts(w)[i] = w[i].text
<1> DEFINE n == Len(w)
<1>1. n \in Nat /\ DOMAIN w = 1..n /\ \A i \in 1..n : w[i] \in Word
  BY LenProperties, ElementOfSeq
<1>. HIDE DEF n
<1>2. Texts(w) = [i \in 1..n |-> w[i].text] BY <1>1 DEF Texts
<1>3. \A i \in 1..n : w[i].text \in Seq(Nat) BY <1>1 DEF Word
<1>4. Texts(w) \in Seq(Seq(Nat)) /\ Len(Texts(w)) = n BY <1>1, <1>2, <1>3
<1>. QED BY <1>2, <1>4 DEF n

(* And the texts of a slice of words. *)
LEMMA TextsOfSlice ==
  ASSUME NEW w, NEW x, NEW a, NEW b, Slice(x, w, a, b, Word)
  PROVE  Slice(Texts(x), Texts(w), a, b, Seq(Nat))
<1>1. /\ x \in Seq(Word) /\ w \in Seq(Word) /\ a \in Nat /\ b \in Nat /\ a <= b /\ b <= Len(w)
      /\ Len(x) = b - a /\ \A j \in 1 .. b - a : x[j] = w[a + j]
  BY DEF Slice
<1>2. /\ Texts(w) \in Seq(Seq(Nat)) /\ Len(Texts(w)) = Len(w)
      /\ \A i \in 1 .. Len(w) : Texts(w)[i] = w[i].text
  BY <1>1, TextsAre
<1>3. /\ Texts(x) \in Seq(Seq(Nat)) /\ Len(Texts(x)) = b - a
      /\ \A i \in 1 .. b - a : Texts(x)[i] = x[i].text
  BY <1>1, TextsAre
<1>4. Len(w) \in Nat BY <1>1, LenProperties
<1>5. \A j \in 1 .. b - a : Texts(x)[j] = Texts(w)[a + j]
  <2>1. \A j \in 1 .. b - a : a + j \in 1 .. Len(w) BY <1>1, <1>4
  <2>. QED BY <1>1, <1>2, <1>3, <2>1
<1>. QED BY <1>1, <1>2, <1>3, <1>5 DEF Slice

-----------------------------------------------------------------------------
(* Fixed windows. *)

(* The windows start s apart, the last alone reaches the end. *)
WindowsStart(p, c, cut, size, window, s) ==
  /\ p \in [1..c -> Nat] /\ p[1] = 0 /\ \A i \in 2..c : p[i] = p[i - 1] + s
  /\ cut = [i \in 1..c |-> <<p[i] + 1, IF i = c THEN size ELSE p[i] + window>>]
  /\ \A i \in 1 .. c - 1 : p[i] + window < size
  /\ p[c] + window >= size /\ p[c] < size

(* They have such starts. *)
WindowsArePlaced(cut, size, window, s) == \E c \in Nat \ {0} : \E p : WindowsStart(p, c, cut, size, window, s)

(* SlidingWindows places them so (_sliding_windows). *)
LEMMA WindowsAre ==
  ASSUME NEW size \in Nat \ {0}, NEW window \in Nat \ {0}, NEW s \in 1..window
  PROVE  WindowsArePlaced(Windows(size, window, s), size, window, s)
<1> DEFINE P(n) == /\ (n - 1) * s + window >= size
                   /\ \A m \in 1 .. n - 1 : (m - 1) * s + window < size
           T == {n \in 1..size : (n - 1) * s + window >= size}
           c == CHOOSE n \in 1..size : P(n)
           at(i) == (i - 1) * s
<1>1. \A i \in Nat \ {0} : at(i) \in Nat OBVIOUS
<1>2. at(1) = 0 /\ \A i \in Nat \ {0} : at(i + 1) = at(i) + s OBVIOUS
<1>3. size \in T
  <2> DEFINE z == size - 1
  <2>1. z \in Nat /\ s \in Nat /\ 1 <= s /\ 1 \in Nat OBVIOUS
  <2>. HIDE DEF z
  <2>2. z * 1 <= z * s /\ z * s \in Nat BY <2>1, ProductGrows
  <2>3. z * s + window >= size BY <2>1, <2>2 DEF z
  <2>. QED BY <2>3 DEF z
<1>4. T \in SUBSET Nat /\ T # {}
  <2>1. T \subseteq 1..size BY Zenon
  <2>. HIDE DEF T
  <2>. QED BY <1>3, <2>1
<1>5. Min(T) \in T /\ \A y \in T : Min(T) <= y BY <1>4, MinIs
<1>6. \E n \in 1..size : P(n)
  <2> DEFINE k == Min(T)
  <2>1. k \in 1..size /\ (k - 1) * s + window >= size BY <1>5
  <2>2. ASSUME NEW m \in 1 .. k - 1 PROVE (m - 1) * s + window < size
    <3>1. m \notin T /\ m \in 1..size BY <1>5, <2>1
    <3>2. (m - 1) * s \in Int BY <3>1
    <3>. QED BY <3>1, <3>2
  <2>. HIDE DEF k
  <2>. QED BY <2>1, <2>2
<1>7. c \in 1..size /\ P(c)
  <2>. HIDE DEF P
  <2>. QED BY <1>6
<1>8. Windows(size, window, s) = [i \in 1..c |-> <<(i - 1) * s + 1, Min({(i - 1) * s + window, size})>>]
  BY DEF Windows
<1>. HIDE DEF c
<1> DEFINE p == [i \in 1..c |-> at(i)]
<1>9. at(c) + window >= size /\ \A i \in 1 .. c - 1 : at(i) + window < size BY <1>7
<1>. HIDE DEF at
<1>10. c \in Nat \ {0} /\ p \in [1..c -> Nat] /\ p[1] = 0 /\ \A i \in 1..c : p[i] = at(i)
  BY <1>1, <1>2, <1>7
<1>11. \A i \in 2..c : p[i] = p[i - 1] + s
  <2>1. \A i \in 2..c : i - 1 \in Nat \ {0} /\ (i - 1) + 1 = i /\ i - 1 \in 1..c /\ i \in 1..c
    BY <1>10
  <2>. HIDE DEF p
  <2>. QED BY <1>2, <1>10, <2>1
<1>. HIDE DEF p
<1>12. (\A i \in 1 .. c - 1 : p[i] + window < size) /\ p[c] + window >= size BY <1>9, <1>10
<1>13. p[c] < size
  <2>1. CASE c = 1 BY <1>10, <2>1
  <2>2. CASE c # 1
    <3>1. c \in 2..c /\ c - 1 \in 1 .. c - 1 /\ c - 1 \in 1..c BY <1>10, <2>2
    <3>2. p[c] = p[c - 1] + s /\ p[c - 1] + window < size /\ p[c - 1] \in Nat
      BY <1>10, <1>11, <1>12, <3>1
    <3>. QED BY <3>2
  <2>. QED BY <2>1, <2>2
<1>14. ASSUME NEW i \in 1..c
       PROVE  Min({p[i] + window, size}) = IF i = c THEN size ELSE p[i] + window
  <2> DEFINE Q == {p[i] + window, size}
  <2>1. p[i] \in Nat /\ Q \in SUBSET Nat /\ Q # {} BY <1>10
  <2>2. Min(Q) \in Q /\ \A y \in Q : Min(Q) <= y
    <3>. HIDE DEF Q
    <3>. QED BY <2>1, MinIs
  <2>3. CASE i = c BY <1>12, <2>1, <2>2, <2>3
  <2>4. CASE i # c
    <3>1. i \in 1 .. c - 1 BY <1>10, <2>4
    <3>2. p[i] + window < size BY <1>12, <3>1
    <3>. QED BY <2>1, <2>2, <2>4, <3>2
  <2>. QED BY <2>3, <2>4
<1>15. Windows(size, window, s) = [i \in 1..c |-> <<p[i] + 1, IF i = c THEN size ELSE p[i] + window>>]
  <2>1. \A i \in 1..c : p[i] = (i - 1) * s BY <1>10 DEF at
  <2>2. \A i \in 1..c : <<(i - 1) * s + 1, Min({(i - 1) * s + window, size})>> = <<p[i] + 1,
        IF i = c THEN size ELSE p[i] + window>>
    BY <1>14, <2>1
  <2>. QED BY <1>8, <2>2
<1>16. WindowsStart(p, c, Windows(size, window, s), size, window, s)
  BY <1>10, <1>11, <1>12, <1>13, <1>15 DEF WindowsStart
<1>. QED BY <1>10, <1>16 DEF WindowsArePlaced

(* The step is at least one word and at most a window. *)
LEMMA StepIs ==
  ASSUME NEW window \in Nat \ {0}, NEW overlap \in 0..100
  PROVE  Step(window, overlap) \in 1..window
<1> DEFINE k == 100 - overlap
           n == window * k
           q == n \div 100
           m == n % 100
           up == m > 50 \/ (m = 50 /\ q % 2 = 1)
           r == q + (IF up THEN 1 ELSE 0)
<1>1. n \in Nat /\ n <= 100 * window
  <2>1. k \in Nat /\ k <= 100 /\ window \in Nat /\ 100 \in Nat OBVIOUS
  <2>. HIDE DEF k
  <2>2. window * k <= window * 100 /\ window * k \in Nat BY <2>1, ProductGrows
  <2>. QED BY <2>2
<1>2. Step(window, overlap) = Max({1, r}) BY DEF Step
<1>. HIDE DEF n
<1>3. r \in Nat /\ r <= window
  <2>1. n \in Int BY <1>1
  <2>2. m \in 0..99 /\ q \in Int /\ n = 100 * q + m BY <2>1, Hundreds
  <2>3. m = 0 => ~up OBVIOUS
  <2>4. n \in Nat /\ n <= 100 * window /\ window \in Nat BY <1>1
  <2>. HIDE DEF q, m, up
  <2>5. q \in Nat /\ q <= window /\ (m # 0 => q + 1 <= window) BY ONLY <2>2, <2>4
  <2>6. CASE up BY <2>3, <2>5, <2>6
  <2>7. CASE ~up BY <2>5, <2>7
  <2>. QED BY <2>6, <2>7
<1>. HIDE DEF r
<1>4. Max({1, r}) \in {1, r} /\ \A y \in {1, r} : y <= Max({1, r})
  <2>1. \E x \in {1, r} : \A y \in {1, r} : x >= y BY <1>3
  <2>. QED BY <1>3, <2>1 DEF Max
<1>. QED BY <1>2, <1>3, <1>4

(* Where the windows begin and end. *)
WindowEnds(p, e, c, size, window, s) ==
  /\ p \in [1..c -> Nat] /\ e \in [1..c -> Nat] /\ p[1] = 0 /\ e[c] = size
  /\ \A i \in 1..c : p[i] < e[i] /\ e[i] <= size /\ e[i] - p[i] <= window
  /\ \A i \in 2..c : i - 1 \in 1..c /\ p[i] = p[i - 1] + s /\ e[i - 1] = p[i - 1] + window /\ e[i] > e[i - 1]

(* Windows that start so end so. *)
LEMMA EndsOfWindows ==
  ASSUME NEW size \in Nat \ {0}, NEW window \in Nat \ {0}, NEW s \in 1..window, NEW c \in Nat \ {0},
         NEW p, NEW cut, WindowsStart(p, c, cut, size, window, s), NEW e, e = [i \in 1..c |-> cut[i][2]]
  PROVE  /\ WindowEnds(p, e, c, size, window, s) /\ DOMAIN cut = 1..c
         /\ \A i \in 1..c : cut[i] = <<p[i] + 1, e[i]>>
<1>1. /\ p \in [1..c -> Nat] /\ p[1] = 0 /\ \A i \in 2..c : p[i] = p[i - 1] + s
      /\ cut = [i \in 1..c |-> <<p[i] + 1, IF i = c THEN size ELSE p[i] + window>>]
      /\ \A i \in 1 .. c - 1 : p[i] + window < size
      /\ p[c] + window >= size /\ p[c] < size
  BY DEF WindowsStart
<1>2. \A i \in 1..c : p[i] \in Nat /\ e[i] = IF i = c THEN size ELSE p[i] + window BY <1>1
<1>3. e \in [1..c -> Nat] BY <1>2
<1>4. DOMAIN cut = 1..c /\ \A i \in 1..c : cut[i] = <<p[i] + 1, e[i]>> BY <1>1, <1>2
<1>5. ASSUME NEW i \in 1 .. c - 1 PROVE i \in 1..c /\ e[i] = p[i] + window /\ e[i] < size
  <2>1. i \in 1..c /\ i # c OBVIOUS
  <2>2. p[i] + window < size BY <1>1
  <2>3. e[i] = p[i] + window BY <1>2, <2>1
  <2>. QED BY <2>1, <2>2, <2>3
<1>6. ASSUME NEW i \in 1..c PROVE p[i] < e[i] /\ e[i] <= size /\ e[i] - p[i] <= window
  <2>1. p[i] \in Nat /\ e[i] = IF i = c THEN size ELSE p[i] + window BY <1>2
  <2>2. CASE i = c
    <3>1. p[i] + window >= size /\ p[i] < size BY <1>1, <2>2
    <3>. QED BY ONLY <2>1, <2>2, <3>1, size \in Nat \ {0}, window \in Nat \ {0}
  <2>3. CASE i # c
    <3>1. i \in 1 .. c - 1 BY <2>3
    <3>2. e[i] < size /\ e[i] = p[i] + window BY <1>5, <3>1
    <3>. QED BY ONLY <2>1, <3>2, size \in Nat \ {0}, window \in Nat \ {0}
  <2>. QED BY <2>2, <2>3
<1>7. ASSUME NEW i \in 2..c
      PROVE  i - 1 \in 1..c /\ p[i] = p[i - 1] + s /\ e[i - 1] = p[i - 1] + window /\ e[i] > e[i - 1]
  <2>1. i - 1 \in 1 .. c - 1 /\ i \in 1..c OBVIOUS
  <2>2. p[i] = p[i - 1] + s /\ e[i - 1] = p[i - 1] + window /\ e[i - 1] < size
    BY <1>1, <1>5, <2>1
  <2>3. p[i - 1] \in Nat /\ p[i] \in Nat /\ e[i] = IF i = c THEN size ELSE p[i] + window
    BY <1>2, <2>1
  <2>. QED BY <2>1, <2>2, <2>3
<1>8. e[c] = size BY <1>2
<1>. QED BY <1>1, <1>3, <1>4, <1>6, <1>7, <1>8 DEF WindowEnds

(* What windows so placed have of t. *)
Covered(B, t, c, window, shared) ==
  /\ FlattenSeq([i \in 1..c |-> IF i = 1 THEN B[1] ELSE SubSeq(B[i], shared + 1, Len(B[i]))]) = t
  /\ \A i \in 1..c : Len(B[i]) <= window
  /\ \A i \in 2..c : /\ Len(B[i]) > shared
                     /\ SubSeq(B[i], 1, shared) = SubSeq(B[i - 1], Len(B[i - 1]) - shared + 1, Len(B[i - 1]))

(* They cover it and share what two neighbours overlap in. *)
LEMMA WindowsCover ==
  ASSUME NEW V, NEW t \in Seq(V), NEW c \in Nat \ {0}, NEW window \in Nat \ {0}, NEW s \in 1..window, NEW p,
         NEW e,
         WindowEnds(p, e, c, Len(t), window, s), NEW B, \A i \in 1..c : Slice(B[i], t, p[i], e[i], V)
  PROVE  Covered(B, t, c, window, window - s)
<1> DEFINE k == window - s
           fresh(i) == IF i = 1 THEN B[1] ELSE SubSeq(B[i], k + 1, Len(B[i]))
           xs == [i \in 1..c |-> fresh(i)]
           g == [i \in 0..c |-> IF i = 0 THEN 0 ELSE e[i]]
<1>1. /\ p \in [1..c -> Nat] /\ e \in [1..c -> Nat] /\ p[1] = 0 /\ e[c] = Len(t)
      /\ \A i \in 1..c : p[i] < e[i] /\ e[i] <= Len(t) /\ e[i] - p[i] <= window
      /\ \A i \in 2..c : i - 1 \in 1..c /\ p[i] = p[i - 1] + s /\ e[i - 1] = p[i - 1] + window
         /\ e[i] > e[i - 1]
  BY DEF WindowEnds
<1>2. \A i \in 1..c : p[i] \in Nat /\ e[i] \in Nat /\ Len(B[i]) = e[i] - p[i] BY <1>1 DEF Slice
<1>3. k \in Nat /\ k < window /\ k + s = window OBVIOUS
<1>. HIDE DEF k
<1>4. ASSUME NEW i \in 2..c
      PROVE  /\ Len(B[i]) > k /\ Len(B[i - 1]) >= k /\ p[i] + k = e[i - 1]
             /\ p[i - 1] + (Len(B[i - 1]) - k) = p[i]
             /\ p[i] \in Nat /\ e[i] \in Nat /\ i \in 1..c /\ i - 1 \in 1..c
  <2>1. i \in 1..c /\ i - 1 \in 1..c OBVIOUS
  <2>2. p[i] = p[i - 1] + s /\ e[i - 1] = p[i - 1] + window /\ e[i] > e[i - 1] BY <1>1
  <2>3. p[i] \in Nat /\ p[i - 1] \in Nat /\ e[i] \in Nat /\ Len(B[i]) = e[i] - p[i]
        /\ Len(B[i - 1]) = e[i - 1] - p[i - 1]
    BY <1>2, <2>1
  <2> DEFINE l == Len(B[i - 1])
             f == e[i - 1]
             o == p[i - 1]
  <2>4. l = f - o /\ p[i] = o + s /\ f = o + window /\ o \in Nat BY <2>2, <2>3
  <2>. HIDE DEF l, f, o
  <2>5. Len(B[i]) = e[i] - p[i] /\ e[i] > f /\ p[i] \in Nat /\ e[i] \in Nat BY <2>2, <2>3 DEF f
  <2>6. Len(B[i]) > k /\ l >= k /\ p[i] + k = f /\ o + (l - k) = p[i]
    BY ONLY <1>3, <2>4, <2>5, s \in 1..window, window \in Nat \ {0}
  <2>. QED BY <2>1, <2>5, <2>6 DEF l, f, o
<1>5. ASSUME NEW i \in 2..c PROVE Slice(SubSeq(B[i], k + 1, Len(B[i])), t, e[i - 1], e[i], V)
  <2>1. Len(B[i]) > k /\ p[i] + k = e[i - 1] /\ i \in 1..c /\ p[i] \in Nat /\ e[i] \in Nat
    BY <1>4
  <2>2. Slice(B[i], t, p[i], e[i], V) /\ Len(B[i]) = e[i] - p[i] /\ Len(B[i]) \in Nat /\ k <= Len(B[i])
        /\ Len(B[i]) <= e[i] - p[i]
    BY <1>2, <1>3, <2>1
  <2>3. Slice(SubSeq(B[i], k + 1, Len(B[i])), t, p[i] + k, p[i] + Len(B[i]), V)
    BY <1>3, <2>2, SliceOfSlice
  <2>4. p[i] + Len(B[i]) = e[i] BY <2>1, <2>2
  <2>. QED BY <2>1, <2>3, <2>4
<1>6. ASSUME NEW i \in 2..c
      PROVE  SubSeq(B[i], 1, k) = SubSeq(B[i - 1], Len(B[i - 1]) - k + 1, Len(B[i - 1]))
  <2> DEFINE l == Len(B[i - 1])
             m == l - k
  <2>1. /\ Len(B[i]) > k /\ l >= k /\ p[i - 1] + m = p[i] /\ i \in 1..c /\ i - 1 \in 1..c
        /\ p[i] \in Nat /\ e[i] \in Nat /\ p[i] + k = e[i - 1]
    BY <1>4
  <2>2. /\ Slice(B[i], t, p[i], e[i], V) /\ Slice(B[i - 1], t, p[i - 1], e[i - 1], V) BY <2>1
  <2>3. /\ Len(B[i]) = e[i] - p[i] /\ Len(B[i - 1]) = e[i - 1] - p[i - 1]
        /\ p[i - 1] \in Nat /\ e[i - 1] \in Nat
    BY <1>2, <2>1
  <2> DEFINE f == e[i - 1]
             o == p[i - 1]
             y == B[i - 1]
  <2>4. /\ Len(B[i]) > k /\ l >= k /\ o + m = p[i] /\ p[i] \in Nat /\ e[i] \in Nat /\ p[i] + k = f
        /\ Slice(B[i], t, p[i], e[i], V) /\ Slice(y, t, o, f, V)
        /\ Len(B[i]) = e[i] - p[i] /\ l = f - o /\ o \in Nat /\ f \in Nat
    BY <2>1, <2>2, <2>3
  <2>. HIDE DEF l, f, o, y
  <2>5. m \in Nat /\ m <= l /\ l \in Nat /\ l <= f - o /\ k <= e[i] - p[i] /\ 0 \in Nat /\ 0 <= k
        /\ o + l = p[i] + k
    BY ONLY <1>3, <2>4
  <2>. HIDE DEF m
  <2>6. Slice(SubSeq(y, m + 1, l), t, o + m, o + l, V) BY <2>4, <2>5, SliceOfSlice
  <2>7. Slice(SubSeq(B[i], 0 + 1, k), t, p[i] + 0, p[i] + k, V)
    BY <1>3, <2>4, <2>5, SliceOfSlice
  <2>8. 0 + 1 = 1 /\ p[i] + 0 = p[i] BY <2>4
  <2>9. Slice(SubSeq(B[i], 1, k), t, p[i], p[i] + k, V) /\ Slice(SubSeq(y, m + 1, l), t, p[i], p[i] + k, V)
    BY <2>4, <2>5, <2>6, <2>7, <2>8
  <2>10. SubSeq(B[i], 1, k) = SubSeq(y, m + 1, l) BY <2>9, SliceIsOne
  <2>. QED BY <2>10 DEF l, m, y
<1>7. ASSUME NEW i \in 1..c PROVE Slice(xs[i], t, g[i - 1], g[i], V)
  <2>1. CASE i = 1
    <3>1. xs[1] = B[1] /\ g[0] = 0 /\ g[1] = e[1] BY <2>1
    <3>2. Slice(B[1], t, 0, e[1], V) BY <1>1, <2>1
    <3>. QED BY <2>1, <3>1, <3>2
  <2>2. CASE i # 1
    <3>1. i \in 2..c /\ xs[i] = SubSeq(B[i], k + 1, Len(B[i])) /\ g[i - 1] = e[i - 1] /\ g[i] = e[i]
      <4>1. i \in 2..c /\ i - 1 \in 0..c /\ i - 1 # 0 /\ i \in 0..c /\ i # 0 BY <2>2
      <4>. QED BY <2>2, <4>1
    <3>. QED BY <1>5, <3>1
  <2>. QED BY <2>1, <2>2
<1>8. g \in [0..c -> Nat] /\ g[0] = 0 /\ g[c] = Len(t) BY <1>1, <1>2
<1>. HIDE DEF g
<1>9. xs \in [1..c -> Seq(V)]
  <2>1. \A i \in 1..c : xs[i] \in Seq(V) BY <1>7 DEF Slice
  <2>2. xs = [i \in 1..c |-> xs[i]] OBVIOUS
  <2>. HIDE DEF xs
  <2>. QED BY <2>1, <2>2
<1>10. FlattenSeq(xs) = t
  <2>. HIDE DEF xs
  <2>1. Ends(g, xs, t, c, V) BY <1>7, <1>8 DEF Ends
  <2>2. Sliced(xs, t, c, V) BY <1>8, <2>1 DEF Sliced
  <2>. QED BY <1>9, <2>2, SlicesFlatten
<1>11. \A i \in 1..c : Len(B[i]) <= window BY <1>1, <1>2
<1>12. \A i \in 2..c : Len(B[i]) > k BY <1>4
<1>13. Covered(B, t, c, window, k) BY <1>6, <1>10, <1>11, <1>12 DEF Covered
<1>. QED BY <1>13 DEF k

-----------------------------------------------------------------------------
(* The fixed chunks of a document. *)

(* What is claimed of the chunks. *)
WordsInChunks(chunks, t, window, shared) ==
  LET body(i) == chunks[i].content[2]
      fresh(i) == IF i = 1 THEN body(1) ELSE SubSeq(body(i), shared + 1, Len(body(i)))
  IN /\ FlattenSeq([i \in DOMAIN chunks |-> fresh(i)]) = t
     /\ \A i \in DOMAIN chunks : Len(body(i)) <= window
     /\ \A i \in 2 .. Len(chunks) :
          /\ Len(body(i)) > shared
          /\ SubSeq(body(i), 1, shared) = SubSeq(body(i - 1), Len(body(i - 1)) - shared + 1, Len(body(i - 1)))

(* And FixedChunks has it (chunk_fixed). *)
LEMMA FixedChunksAre ==
  ASSUME NEW blocks \in Seq(Block), NEW window \in Nat \ {0}, NEW overlap \in 0..100
  PROVE  WordsInChunks(FixedChunks(blocks, window, overlap), Texts(FlattenWords(blocks)), window,
         window - Step(window, overlap))
<1> DEFINE w == FlattenWords(blocks)
           t == Texts(w)
           s == Step(window, overlap)
           size == Len(w)
           cut == Windows(size, window, s)
           chunks == FixedChunks(blocks, window, overlap)
<1>1. w \in Seq(Word) BY DocumentIs
<1>2. s \in 1..window BY StepIs
<1>3. chunks = [i \in DOMAIN cut |-> ChunkOf(SubSeq(w, cut[i][1], cut[i][2]), <<>>, w[cut[i][1]].path, None)]
  BY DEF FixedChunks
<1>. HIDE DEF w, s
<1>4. t \in Seq(Seq(Nat)) /\ Len(t) = size /\ size \in Nat BY <1>1, TextsAre, LenProperties
<1>5. \A x, b, q, r : ChunkOf(x, b, q, r).content[2] = Texts(x) BY DEF ChunkOf
<1>. HIDE DEF chunks, t
<1>6. CASE size = 0
  <2>1. cut = <<>> BY <1>6 DEF Windows
  <2>2. chunks = <<>> BY <1>3, <2>1
  <2>3. t = <<>> BY <1>4, <1>6, SeqEqual
  <2>4. FlattenSeq(<<>>) = <<>> BY DEF FlattenSeq
  <2>5. DOMAIN <<>> = {} /\ Len(<<>>) = 0 /\ 2..0 = {} OBVIOUS
  <2> DEFINE F == [i \in DOMAIN chunks |-> IF i = 1 THEN chunks[1].content[2]
                    ELSE SubSeq(chunks[i].content[2], window - s + 1, Len(chunks[i].content[2]))]
  <2>6. F = <<>> BY <2>2, <2>5
  <2>7. FlattenSeq(F) = t BY <2>3, <2>4, <2>6
  <2>8. DOMAIN chunks = {} /\ 2 .. Len(chunks) = {} BY <2>2, <2>5
  <2>9. WordsInChunks(chunks, t, window, window - s) BY <2>7, <2>8 DEF WordsInChunks
  <2>. QED BY <2>9 DEF chunks, t, s, w
<1>7. CASE size # 0
  <2>1. size \in Nat \ {0} BY <1>4, <1>7
  <2>. HIDE DEF size, cut
  <2>2. WindowsArePlaced(cut, size, window, s) BY <1>2, <2>1, WindowsAre DEF cut
  <2>3. PICK c \in Nat \ {0} : \E p : WindowsStart(p, c, cut, size, window, s)
    BY <2>2 DEF WindowsArePlaced
  <2>4. PICK p : WindowsStart(p, c, cut, size, window, s) BY <2>3
  <2> DEFINE e == [i \in 1..c |-> cut[i][2]]
  <2>5. /\ WindowEnds(p, e, c, size, window, s) /\ DOMAIN cut = 1..c
        /\ \A i \in 1..c : cut[i] = <<p[i] + 1, e[i]>>
    BY <1>2, <2>1, <2>4, EndsOfWindows
  <2>. HIDE DEF e
  <2> DEFINE B == [i \in 1..c |-> Texts(SubSeq(w, p[i] + 1, e[i]))]
  <2>6. DOMAIN chunks = 1..c /\ \A i \in 1..c : chunks[i].content[2] = B[i] BY <1>3, <1>5, <2>5
  <2>7. chunks = [i \in 1..c |-> chunks[i]] /\ Len(chunks) = c
    <3>1. chunks = [i \in 1..c |-> chunks[i]] BY <1>3, <2>5
    <3>2. \A h : h = [i \in 1..c |-> h[i]] => Len(h) = c OBVIOUS
    <3>. QED BY <3>1, <3>2
  <2>8. ASSUME NEW i \in 1..c PROVE Slice(B[i], t, p[i], e[i], Seq(Nat))
    <3> DEFINE x == SubSeq(w, p[i] + 1, e[i])
    <3>1. p[i] \in Nat /\ e[i] \in Nat /\ p[i] <= e[i] /\ e[i] <= size - 0
      BY <2>1, <2>5 DEF WindowEnds
    <3>2. Slice(w, w, 0, size, Word) BY <1>1, SliceLength DEF size
    <3>3. Slice(x, w, 0 + p[i], 0 + e[i], Word) BY <3>1, <3>2, SliceOfSlice
    <3>4. 0 + p[i] = p[i] /\ 0 + e[i] = e[i] BY <3>1
    <3>5. Slice(x, w, p[i], e[i], Word) BY <3>3, <3>4
    <3>. HIDE DEF x
    <3>6. Slice(Texts(x), t, p[i], e[i], Seq(Nat)) BY <3>5, TextsOfSlice DEF t
    <3>. QED BY <3>6 DEF x
  <2>9. \A i \in 1..c : Slice(B[i], t, p[i], e[i], Seq(Nat)) BY <2>8
  <2>. HIDE DEF B
  <2>10. WindowEnds(p, e, c, Len(t), window, s) BY <1>4, <2>5 DEF size
  <2>11. Covered(B, t, c, window, window - s)
    BY ONLY <1>2, <1>4, <2>9, <2>10, WindowsCover, c \in Nat \ {0}, window \in Nat \ {0}
  <2>12. WordsInChunks(chunks, t, window, window - s)
    <3> DEFINE k == window - s
               F == [i \in DOMAIN chunks |-> IF i = 1 THEN chunks[1].content[2]
                      ELSE SubSeq(chunks[i].content[2], k + 1, Len(chunks[i].content[2]))]
               G == [i \in 1..c |-> IF i = 1 THEN B[1] ELSE SubSeq(B[i], k + 1, Len(B[i]))]
    <3>. HIDE DEF k
    <3>1. F = G BY <2>6
    <3>2. \A i \in 2..c : i \in 1..c /\ i - 1 \in 1..c OBVIOUS
    <3>3. FlattenSeq(G) = t BY <2>11 DEF Covered, k
    <3>4. FlattenSeq(F) = t BY <3>1, <3>3
    <3>. HIDE DEF F, G
    <3>5. /\ \A i \in 1..c : Len(B[i]) <= window
          /\ \A i \in 2..c : /\ Len(B[i]) > k
                             /\ SubSeq(B[i], 1, k) = SubSeq(B[i - 1], Len(B[i - 1]) - k + 1, Len(B[i - 1]))
      BY <2>11 DEF Covered, k
    <3>6. WordsInChunks(chunks, t, window, k)
      BY ZenonT(60), <2>6, <2>7, <3>2, <3>4, <3>5 DEF WordsInChunks, F
    <3>. QED BY <3>6 DEF k
  <2>. QED BY <2>12 DEF chunks, t, s, w
<1>. QED BY <1>6, <1>7
=============================================================================
