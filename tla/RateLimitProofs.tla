--------------------------- MODULE RateLimitProofs --------------------------
(***************************************************************************)
(* Proofs about RateLimit, for all rules, clients, windows and thresholds. *)
(*                                                                         *)
(* KeyOK relates, for one key, the queue the limiter keeps to the history  *)
(* of admissions it does not keep: the queue is a suffix of the history,   *)
(* and what is missing from it has left the window.  Forgetting a client,  *)
(* popping hits and admitting preserve it, each by a lemma of its own.     *)
(***************************************************************************)
EXTENDS RateLimit, FiniteSetTheorems, SequenceTheorems, TLAPS

(* q: the queue, a: all admissions, p: the promise, t: the time; the rule   *)
(* allows max admissions within width.                                      *)
KeyOK(q, a, p, t, max, width) ==
  /\ Len(q) <= Len(a)
  /\ Len(q) <= max
  /\ \A i \in 1 .. Len(q) : q[i] = a[i + (Len(a) - Len(q))]
  /\ \A i \in 1 .. Len(a) - Len(q) : a[i] + width <= t
  /\ \A i \in 1 .. Len(a) : a[i] <= t
  /\ \A i, j \in 1 .. Len(a) : i <= j => a[i] <= a[j]
  /\ \A i \in 1 .. Len(a) : i + max <= Len(a) => a[i + max] >= a[i] + width
  /\ p # 0 /\ Len(q) = max => q[1] + width <= p

Stored(key) == IF key \in DOMAIN hits THEN hits[key] ELSE << >>

KeysOK ==
  \A key \in Keys :
    KeyOK(Stored(key), admitted[key], promise[key], now, Limit[key[1]], Window[key[1]])

IInv == TypeOK /\ IsFiniteSet(DOMAIN hits) /\ KeysOK

-----------------------------------------------------------------------------
(* What the steps do to one key. *)

LEMMA ForgetKeepsOK ==
  ASSUME NEW q \in Seq(Nat), NEW a \in Seq(Nat), NEW p \in Nat, NEW t \in Nat,
         NEW max \in Nat \ {0}, NEW width \in Nat,
         KeyOK(q, a, p, t, max, width),
         q = << >> \/ q[Len(q)] + width <= t
  PROVE  KeyOK(<< >>, a, p, t, max, width)
<1>1. ASSUME NEW i \in 1 .. Len(a)
      PROVE  a[i] + width <= t
  <2>1. CASE i <= Len(a) - Len(q)
    BY <2>1 DEF KeyOK
  <2>2. CASE i > Len(a) - Len(q)
    <3>1. q # << >> /\ Len(q) \in 1 .. Len(q) /\ Len(a) \in 1 .. Len(a)
      BY <2>2 DEF KeyOK
    <3>2. q[Len(q)] = a[Len(a)]
      BY <3>1 DEF KeyOK
    <3>3. a[i] <= a[Len(a)]
      BY <3>1 DEF KeyOK
    <3> QED BY <3>1, <3>2, <3>3
  <2> QED BY <2>1, <2>2
<1> QED BY <1>1 DEF KeyOK

LEMMA PopKeepsOK ==
  ASSUME NEW q \in Seq(Nat), NEW a \in Seq(Nat), NEW p \in Nat, NEW t \in Nat,
         NEW max \in Nat \ {0}, NEW width \in Nat,
         KeyOK(q, a, p, t, max, width),
         NEW n \in 0 .. Len(q),
         \A i \in 1 .. n : q[i] + width <= t
  PROVE  /\ SubSeq(q, n + 1, Len(q)) \in Seq(Nat)
         /\ KeyOK(SubSeq(q, n + 1, Len(q)), a, p, t, max, width)
<1> DEFINE r == SubSeq(q, n + 1, Len(q))
<1>1. /\ r \in Seq(Nat)
      /\ Len(r) = Len(q) - n
      /\ \A i \in 1 .. Len(r) : r[i] = q[i + n]
  OBVIOUS
<1> HIDE DEF r
<1>2. ASSUME NEW i \in 1 .. Len(r)
      PROVE  r[i] = a[i + (Len(a) - Len(r))]
  <2>1. /\ i + n \in 1 .. Len(q)
        /\ (i + n) + Len(a) - Len(q) = i + (Len(a) - Len(r))
    BY <1>1
  <2>2. q[i + n] = a[(i + n) + Len(a) - Len(q)]
    BY <2>1 DEF KeyOK
  <2> QED BY <1>1, <2>1, <2>2
<1>3. ASSUME NEW i \in 1 .. Len(a) - Len(r)
      PROVE  a[i] + width <= t
  <2>1. CASE i <= Len(a) - Len(q)
    BY <2>1 DEF KeyOK
  <2>2. CASE i > Len(a) - Len(q)
    <3>1. i - (Len(a) - Len(q)) \in 1 .. n
      BY <1>1, <2>2 DEF KeyOK
    <3>2. q[i - (Len(a) - Len(q))] = a[i]
      BY <3>1 DEF KeyOK
    <3> QED BY <3>1, <3>2
  <2> QED BY <2>1, <2>2, <1>1 DEF KeyOK
<1>4. Len(r) <= Len(a) /\ Len(r) <= max
  BY <1>1 DEF KeyOK
<1>5. ASSUME p # 0, Len(r) = max
      PROVE  r[1] + width <= p
  <2>1. n = 0 /\ Len(q) = max /\ 1 \in 1 .. Len(r)
    BY <1>1, <1>5 DEF KeyOK
  <2>2. r[1] = q[1]
    BY <1>1, <2>1
  <2> QED BY <1>5, <2>1, <2>2 DEF KeyOK
<1>6. KeyOK(r, a, p, t, max, width)
  BY <1>2, <1>3, <1>4, <1>5 DEF KeyOK
<1> QED BY <1>1, <1>6 DEF r

LEMMA AppendKeepsOK ==
  ASSUME NEW q \in Seq(Nat), NEW a \in Seq(Nat), NEW p \in Nat, NEW t \in Nat,
         NEW max \in Nat \ {0}, NEW width \in Nat,
         KeyOK(q, a, p, t, max, width),
         Len(q) < max
  PROVE  KeyOK(Append(q, t), Append(a, t), 0, t, max, width)
<1> DEFINE q2 == Append(q, t)
           a2 == Append(a, t)
           m == Len(q)
           n == Len(a)
<1>1. /\ Len(q2) = m + 1 /\ q2[m + 1] = t
      /\ \A i \in 1 .. m : q2[i] = q[i]
      /\ Len(a2) = n + 1 /\ a2[n + 1] = t
      /\ \A i \in 1 .. n : a2[i] = a[i] /\ a[i] \in Nat
      /\ m \in Nat /\ n \in Nat
  OBVIOUS
<1>2. /\ m <= n /\ m < max
      /\ \A i \in 1 .. m : q[i] = a[i + (n - m)]
      /\ \A i \in 1 .. n - m : a[i] + width <= t
      /\ \A i \in 1 .. n : a[i] <= t
      /\ \A i, j \in 1 .. n : i <= j => a[i] <= a[j]
      /\ \A i \in 1 .. n : i + max <= n => a[i + max] >= a[i] + width
  BY DEF KeyOK
<1> HIDE DEF q2, a2, m, n
<1>3. \A i \in 1 .. m + 1 : q2[i] = a2[i + (n - m)]
  <2> TAKE i \in 1 .. m + 1
  <2>1. CASE i = m + 1
    <3>1. i + (n - m) = n + 1
      BY <2>1, <1>1
    <3> QED BY <3>1, <2>1, <1>1
  <2>2. CASE i # m + 1
    <3>1. i \in 1 .. m /\ i + (n - m) \in 1 .. n
      BY <2>2, <1>1, <1>2
    <3> QED BY <3>1, <1>1, <1>2
  <2> QED BY <2>1, <2>2
<1>4. \A i \in 1 .. n - m : i \in 1 .. n /\ a2[i] + width <= t
  BY SMTT(60), <1>1, <1>2
<1>5. ASSUME NEW i \in 1 .. n + 1
      PROVE  a2[i] <= t
  <2>1. CASE i = n + 1
    BY <2>1, <1>1
  <2>2. CASE i \in 1 .. n
    BY <2>2, <1>1, <1>2
  <2> QED BY <2>1, <2>2, <1>1
<1>6. ASSUME NEW i \in 1 .. n + 1, NEW j \in 1 .. n + 1, i <= j
      PROVE  a2[i] <= a2[j]
  <2>1. CASE j = n + 1
    BY <2>1, <1>1, <1>5
  <2>2. CASE j # n + 1
    <3>1. i \in 1 .. n /\ j \in 1 .. n
      BY <2>2, <1>1, <1>6
    <3> QED BY <3>1, <1>1, <1>2, <1>6
  <2> QED BY <2>1, <2>2
<1>7. ASSUME NEW i \in 1 .. n + 1, i + max <= n + 1
      PROVE  a2[i + max] >= a2[i] + width
  <2>1. CASE i + max <= n
    <3>1. i \in 1 .. n /\ i + max \in 1 .. n
      BY <2>1, <1>1
    <3> QED BY <2>1, <3>1, <1>1, <1>2
  <2>2. CASE i + max = n + 1
    <3>1. i \in 1 .. n - m /\ i \in 1 .. n
      BY <2>2, <1>1, <1>2
    <3> QED BY <3>1, <2>2, <1>1, <1>4
  <2> QED BY <2>1, <2>2, <1>1, <1>7
<1>8. (n + 1) - (m + 1) = n - m /\ m + 1 <= n + 1 /\ m + 1 <= max
  BY <1>1, <1>2
<1>9. KeyOK(q2, a2, 0, t, max, width)
  BY <1>1, <1>3, <1>4, <1>5, <1>6, <1>7, <1>8 DEF KeyOK
<1> QED BY <1>9 DEF q2, a2

LEMMA TimeKeepsOK ==
  ASSUME NEW q \in Seq(Nat), NEW a \in Seq(Nat), NEW p \in Nat, NEW t \in Nat,
         NEW max \in Nat \ {0}, NEW width \in Nat,
         KeyOK(q, a, p, t, max, width)
  PROVE  KeyOK(q, a, p, t + 1, max, width)
<1>1. \A i \in 1 .. Len(a) : a[i] \in Nat
  OBVIOUS
<1>2. \A i \in 1 .. Len(a) : a[i] <= t + 1
  BY <1>1 DEF KeyOK
<1>3. \A i \in 1 .. Len(a) - Len(q) : a[i] + width <= t + 1
  BY <1>1 DEF KeyOK
<1> QED BY <1>2, <1>3 DEF KeyOK

(* Retry-After never ends before the oldest hit leaves the window. *)
LEMMA RetryAfterIsEnough ==
  ASSUME NEW wait \in Nat
  PROVE  RetryAfter(wait) \in Nat \ {0} /\ RetryAfter(wait) >= wait
<1>1. Second \in Nat \ {0}
  BY RateLimitAssumption
<1>2. (- wait) % Second \in Nat
  BY <1>1
<1> QED BY <1>1, <1>2 DEF RetryAfter

-----------------------------------------------------------------------------
(* What a request does to the dictionary. *)

LEMMA RuleOfKey ==
  ASSUME NEW key \in Keys
  PROVE  Limit[key[1]] \in Nat \ {0} /\ Window[key[1]] \in Nat \ {0}
BY RateLimitAssumption DEF Keys

LEMMA SweptType ==
  ASSUME TypeOK, IsFiniteSet(DOMAIN hits)
  PROVE  /\ DOMAIN Swept \subseteq DOMAIN hits
         /\ IsFiniteSet(DOMAIN Swept)
         /\ \A key \in DOMAIN Swept : Swept[key] = hits[key]
         /\ \A key \in DOMAIN hits : key \notin DOMAIN Swept => ~ Active(key)
<1>1. DOMAIN Swept \subseteq DOMAIN hits
  BY DEF Swept
<1>2. IsFiniteSet(DOMAIN Swept)
  BY <1>1, FS_Subset
<1>3. \A key \in DOMAIN Swept : Swept[key] = hits[key]
  BY DEF Swept
<1>4. \A key \in DOMAIN hits : key \notin DOMAIN Swept => ~ Active(key)
  BY DEF Swept
<1> QED BY <1>1, <1>2, <1>3, <1>4

LEMMA QueueType ==
  ASSUME TypeOK, IsFiniteSet(DOMAIN hits), NEW key \in Keys
  PROVE  /\ Queue(key) \in Seq(0 .. MaxTime)
         /\ Stored(key) \in Seq(0 .. MaxTime)
<1> DEFINE Times == 0 .. MaxTime
<1>1. \A k \in DOMAIN hits : hits[k] \in Seq(Times)
  BY DEF TypeOK
<1> HIDE DEF Times
<1>2. << >> \in Seq(Times)
  OBVIOUS
<1>3. Queue(key) \in Seq(Times)
  BY <1>1, <1>2, SweptType DEF Queue
<1>4. Stored(key) \in Seq(Times)
  BY <1>1, <1>2 DEF Stored
<1> QED BY <1>3, <1>4 DEF Times

(* A client the sweep forgets has no hit left that counts. *)
LEMMA QueueKeepsOK ==
  ASSUME IInv, NEW key \in Keys
  PROVE  KeyOK(Queue(key), admitted[key], promise[key], now, Limit[key[1]], Window[key[1]])
<1> DEFINE q == Stored(key)
<1>1. /\ q \in Seq(Nat) /\ admitted[key] \in Seq(Nat)
      /\ promise[key] \in Nat /\ now \in Nat
  BY QueueType, RateLimitAssumption DEF IInv, TypeOK
<1>2. KeyOK(q, admitted[key], promise[key], now, Limit[key[1]], Window[key[1]])
  BY DEF IInv, KeysOK
<1>3. CASE key \in DOMAIN Swept
  BY <1>2, <1>3, SweptType DEF IInv, Queue, Stored
<1>4. CASE key \notin DOMAIN hits
  BY <1>2, <1>4, SweptType DEF IInv, Queue, Stored
<1>5. CASE key \in DOMAIN hits /\ key \notin DOMAIN Swept
  <2>1. ~ Active(key) /\ q = hits[key] /\ Queue(key) = << >>
    BY <1>5, SweptType DEF IInv, Queue, Stored
  <2>2. q = << >> \/ q[Len(q)] + Window[key[1]] <= now
    BY <2>1 DEF Active, Expired
  <2> HIDE DEF q
  <2>3. KeyOK(<< >>, admitted[key], promise[key], now, Limit[key[1]], Window[key[1]])
    BY <1>1, <1>2, <2>2, RuleOfKey, ForgetKeepsOK
  <2> QED BY <2>1, <2>3
<1> QED BY <1>3, <1>4, <1>5

LEMMA RemainingKeepsOK ==
  ASSUME IInv, NEW key \in Keys, NEW queue \in Remaining(key)
  PROVE  /\ queue \in Seq(0 .. MaxTime)
         /\ KeyOK(queue, admitted[key], promise[key], now, Limit[key[1]], Window[key[1]])
         /\ queue # << >> => ~ Expired(key, queue[1])
<1> DEFINE q == Queue(key)
<1>1. PICK n \in 0 .. Len(q) :
        /\ queue = SubSeq(q, n + 1, Len(q))
        /\ \A i \in 1 .. n : Expired(key, q[i])
        /\ n < Len(q) => ~ Expired(key, q[n + 1])
  BY DEF Remaining
<1>2. q \in Seq(0 .. MaxTime)
  BY QueueType DEF IInv
<1>3. KeyOK(q, admitted[key], promise[key], now, Limit[key[1]], Window[key[1]])
  BY QueueKeepsOK
<1>4. /\ q \in Seq(Nat) /\ admitted[key] \in Seq(Nat)
      /\ promise[key] \in Nat /\ now \in Nat
  BY <1>2, RateLimitAssumption DEF IInv, TypeOK
<1>5. \A i \in 1 .. n : q[i] + Window[key[1]] <= now
  BY <1>1 DEF Expired
<1> HIDE DEF q
<1>6. KeyOK(queue, admitted[key], promise[key], now, Limit[key[1]], Window[key[1]])
  BY <1>1, <1>3, <1>4, <1>5, RuleOfKey, PopKeepsOK
<1>7. queue \in Seq(0 .. MaxTime)
  <2> DEFINE Times == 0 .. MaxTime
  <2>1. q \in Seq(Times)
    BY <1>2
  <2> HIDE DEF Times
  <2>2. SubSeq(q, n + 1, Len(q)) \in Seq(Times)
    BY <2>1, SubSeqProperties
  <2> QED BY <1>1, <2>2 DEF Times
<1>8. queue # << >> => ~ Expired(key, queue[1])
  BY <1>1, <1>2
<1> QED BY <1>6, <1>7, <1>8

LEMMA PutType ==
  ASSUME TypeOK, IsFiniteSet(DOMAIN hits), NEW key \in Keys,
         NEW queue \in Seq(0 .. MaxTime), Put(key, queue)
  PROVE  /\ DOMAIN hits' \subseteq Keys
         /\ \A k \in DOMAIN hits' : hits'[k] \in Seq(0 .. MaxTime)
         /\ IsFiniteSet(DOMAIN hits')
         /\ Stored(key)' = queue
         /\ \A k \in Keys : k # key => Stored(k)' = Queue(k)
<1>1. DOMAIN hits' = DOMAIN Swept \cup {key}
  BY DEF Put
<1>2. \A k \in DOMAIN hits' : hits'[k] = IF k = key THEN queue ELSE Swept[k]
  BY DEF Put
<1>3. IsFiniteSet(DOMAIN hits')
  BY <1>1, SweptType, FS_AddElement
<1>4. DOMAIN hits' \subseteq Keys
  BY <1>1, SweptType DEF TypeOK
<1>5. \A k \in DOMAIN hits' : hits'[k] \in Seq(0 .. MaxTime)
  BY <1>1, <1>2, SweptType DEF TypeOK
<1>6. Stored(key)' = queue
  BY <1>1, <1>2 DEF Stored
<1>7. \A k \in Keys : k # key => Stored(k)' = Queue(k)
  BY <1>1, <1>2 DEF Stored, Queue
<1> QED BY <1>3, <1>4, <1>5, <1>6, <1>7

-----------------------------------------------------------------------------
(* IInv is inductive. *)

LEMMA Initially ==
  Init => IInv
<1> SUFFICES ASSUME Init PROVE IInv
  OBVIOUS
<1>1. DOMAIN hits = {}
  BY DEF Init
<1>2. TypeOK
  <2>1. admitted \in [Keys -> Seq(0 .. MaxTime)]
    BY DEF Init
  <2> QED BY <1>1, <2>1, RateLimitAssumption DEF Init, TypeOK
<1>3. IsFiniteSet(DOMAIN hits)
  BY <1>1, FS_EmptySet
<1>4. KeysOK
  BY <1>1, RuleOfKey DEF Init, KeysOK, KeyOK, Stored
<1> QED BY <1>2, <1>3, <1>4 DEF IInv

(* Time only expires more hits. *)
LEMMA TickStep ==
  ASSUME IInv, Tick
  PROVE  IInv'
<1>1. TypeOK'
  BY RateLimitAssumption DEF IInv, TypeOK, Tick
<1>2. ASSUME NEW key \in Keys
      PROVE  KeyOK(Stored(key), admitted[key], promise[key], now', Limit[key[1]], Window[key[1]])
  <2>1. KeyOK(Stored(key), admitted[key], promise[key], now, Limit[key[1]], Window[key[1]])
    BY DEF IInv, KeysOK
  <2>2. admitted[key] \in Seq(Nat) /\ now \in Nat /\ now' = now + 1 /\ Window[key[1]] \in Nat
    BY RuleOfKey, RateLimitAssumption DEF IInv, TypeOK, Tick
  <2>3. Stored(key) \in Seq(Nat)
    BY QueueType, RateLimitAssumption DEF IInv
  <2>4. promise[key] \in Nat
    BY DEF IInv, TypeOK
  <2> HIDE DEF Stored
  <2> QED BY <2>1, <2>2, <2>3, <2>4, RuleOfKey, TimeKeepsOK
<1>3. KeysOK'
  BY <1>2 DEF KeysOK, Stored, Tick
<1> QED BY <1>1, <1>3 DEF IInv, Tick

LEMMA AdmitStep ==
  ASSUME IInv, NEW key \in Keys, Admit(key)
  PROVE  IInv'
<1>1. PICK queue \in Remaining(key) :
        /\ Len(queue) < Limit[key[1]]
        /\ Put(key, Append(queue, now))
  BY DEF Admit
<1>2. /\ admitted' = [admitted EXCEPT ![key] = Append(@, now)]
      /\ promise' = [promise EXCEPT ![key] = 0]
      /\ now' = now
  BY DEF Admit
<1>3. /\ queue \in Seq(0 .. MaxTime)
      /\ KeyOK(queue, admitted[key], promise[key], now, Limit[key[1]], Window[key[1]])
  BY RemainingKeepsOK
<1>4. now \in 0 .. MaxTime /\ admitted[key] \in Seq(0 .. MaxTime) /\ promise[key] \in Nat
  BY DEF IInv, TypeOK
<1>5. Append(queue, now) \in Seq(0 .. MaxTime) /\ Append(admitted[key], now) \in Seq(0 .. MaxTime)
  BY <1>3, <1>4, AppendProperties
<1>6. /\ DOMAIN hits' \subseteq Keys
      /\ \A k \in DOMAIN hits' : hits'[k] \in Seq(0 .. MaxTime)
      /\ IsFiniteSet(DOMAIN hits')
      /\ Stored(key)' = Append(queue, now)
      /\ \A k \in Keys : k # key => Stored(k)' = Queue(k)
  BY <1>1, <1>5, PutType DEF IInv
<1>7. TypeOK'
  BY <1>2, <1>4, <1>5, <1>6 DEF IInv, TypeOK
<1>8. ASSUME NEW k \in Keys
      PROVE  KeyOK(Stored(k), admitted[k], promise[k], now, Limit[k[1]], Window[k[1]])'
  <2>1. CASE k = key
    <3>1. queue \in Seq(Nat) /\ admitted[key] \in Seq(Nat) /\ now \in Nat
      BY <1>3, <1>4, RateLimitAssumption
    <3>2. KeyOK(Append(queue, now), Append(admitted[key], now), 0, now, Limit[key[1]], Window[key[1]])
      BY <3>1, <1>1, <1>3, <1>4, RuleOfKey, AppendKeepsOK
    <3>3. admitted'[key] = Append(admitted[key], now) /\ promise'[key] = 0
      BY <1>2 DEF IInv, TypeOK
    <3> QED BY <2>1, <3>2, <3>3, <1>2, <1>6
  <2>2. CASE k # key
    <3>1. admitted'[k] = admitted[k] /\ promise'[k] = promise[k]
      BY <1>2, <2>2 DEF IInv, TypeOK
    <3> QED BY <2>2, <3>1, <1>2, <1>6, QueueKeepsOK
  <2> QED BY <2>1, <2>2
<1> QED BY <1>6, <1>7, <1>8 DEF IInv, KeysOK

(* What a refusal rests on: a full queue whose oldest hit still counts. *)
LEMMA RefuseFacts ==
  ASSUME IInv, NEW key \in Keys, NEW queue \in Remaining(key), Len(queue) >= Limit[key[1]]
  PROVE  LET wait == queue[1] + Window[key[1]] - now
         IN  /\ Len(queue) = Limit[key[1]]
             /\ queue # << >>
             /\ queue[1] \in Nat
             /\ wait \in Nat
             /\ RetryAfter(wait) \in Nat \ {0}
             /\ RetryAfter(wait) >= wait
<1>1. /\ queue \in Seq(0 .. MaxTime)
      /\ KeyOK(queue, admitted[key], promise[key], now, Limit[key[1]], Window[key[1]])
      /\ queue # << >> => ~ Expired(key, queue[1])
  BY RemainingKeepsOK
<1>2. Len(queue) = Limit[key[1]]
  BY <1>1, RuleOfKey DEF KeyOK
<1>3. queue # << >> /\ queue[1] \in 0 .. MaxTime
  <2>1. Len(queue) \in Nat \ {0}
    BY <1>2, RuleOfKey
  <2>2. queue # << >> /\ 1 \in 1 .. Len(queue)
    BY <2>1
  <2> QED BY <1>1, <2>2, ElementOfSeq
<1>4. queue[1] \in Nat /\ now \in Nat /\ Window[key[1]] \in Nat
  BY <1>3, RuleOfKey, RateLimitAssumption DEF IInv, TypeOK
<1>5. queue[1] + Window[key[1]] - now \in Nat
  BY <1>1, <1>3, <1>4 DEF Expired
<1> QED BY <1>2, <1>3, <1>4, <1>5, RetryAfterIsEnough

LEMMA RefuseStep ==
  ASSUME IInv, NEW key \in Keys, Refuse(key)
  PROVE  IInv'
<1>1. PICK queue \in Remaining(key) :
        /\ Len(queue) >= Limit[key[1]]
        /\ Put(key, queue)
        /\ promise' = [promise EXCEPT ![key] = now + RetryAfter(queue[1] + Window[key[1]] - now)]
  BY DEF Refuse
<1>2. admitted' = admitted /\ now' = now
  BY DEF Refuse
<1>3. /\ queue \in Seq(0 .. MaxTime)
      /\ KeyOK(queue, admitted[key], promise[key], now, Limit[key[1]], Window[key[1]])
  BY RemainingKeepsOK
<1>4. /\ DOMAIN hits' \subseteq Keys
      /\ \A k \in DOMAIN hits' : hits'[k] \in Seq(0 .. MaxTime)
      /\ IsFiniteSet(DOMAIN hits')
      /\ Stored(key)' = queue
      /\ \A k \in Keys : k # key => Stored(k)' = Queue(k)
  BY <1>1, <1>3, PutType DEF IInv
<1> DEFINE wait == queue[1] + Window[key[1]] - now
<1>5. /\ queue[1] \in Nat /\ wait \in Nat /\ now \in Nat
      /\ RetryAfter(wait) \in Nat \ {0}
      /\ RetryAfter(wait) >= wait
  BY <1>1, RefuseFacts, RateLimitAssumption DEF IInv, TypeOK
<1>6. queue[1] + Window[key[1]] <= now + RetryAfter(wait)
  BY <1>5, RuleOfKey
<1>7. /\ promise'[key] = now + RetryAfter(wait)
      /\ \A k \in Keys : k # key => promise'[k] = promise[k]
      /\ promise' \in [Keys -> Nat]
  BY <1>1, <1>5 DEF IInv, TypeOK
<1> HIDE DEF wait
<1>8. TypeOK'
  BY <1>2, <1>4, <1>7 DEF IInv, TypeOK
<1>9. ASSUME NEW k \in Keys
      PROVE  KeyOK(Stored(k), admitted[k], promise[k], now, Limit[k[1]], Window[k[1]])'
  <2>1. CASE k = key
    <3>1. KeyOK(queue, admitted[key], promise'[key], now, Limit[key[1]], Window[key[1]])
      BY <1>3, <1>6, <1>7 DEF KeyOK
    <3> QED BY <2>1, <3>1, <1>2, <1>4
  <2>2. CASE k # key
    BY <2>2, <1>2, <1>4, <1>7, QueueKeepsOK
  <2> QED BY <2>1, <2>2
<1> QED BY <1>4, <1>8, <1>9 DEF IInv, KeysOK

LEMMA RestartStep ==
  ASSUME IInv, Restart
  PROVE  IInv'
<1>1. DOMAIN hits' = {}
  BY DEF Restart
<1>2. admitted' \in [Keys -> Seq(0 .. MaxTime)]
  BY DEF Restart
<1>3. TypeOK'
  BY <1>1, <1>2 DEF IInv, TypeOK, Restart
<1>4. KeysOK'
  BY <1>1, RuleOfKey DEF Restart, KeysOK, KeyOK, Stored
<1> QED BY <1>1, <1>3, <1>4, FS_EmptySet DEF IInv

LEMMA Inductive ==
  IInv /\ [Next]_vars => IInv'
<1> SUFFICES ASSUME IInv, [Next]_vars PROVE IInv'
  OBVIOUS
<1>1. CASE Tick
  BY <1>1, TickStep
<1>2. CASE \E key \in Keys : Admit(key) \/ Refuse(key)
  BY <1>2, AdmitStep, RefuseStep
<1>3. CASE Restart
  BY <1>3, RestartStep
<1>4. CASE UNCHANGED vars
  BY <1>4 DEF vars, IInv, TypeOK, KeysOK, KeyOK, Stored
<1> QED BY <1>1, <1>2, <1>3, <1>4 DEF Next

LEMMA Invariant == Spec => []IInv
BY Initially, Inductive, PTL DEF Spec

-----------------------------------------------------------------------------
(* Every variable keeps its type. *)
THEOREM TypeCorrect == Spec => []TypeOK
<1>1. IInv => TypeOK
  BY DEF IInv
<1> QED BY <1>1, Invariant, PTL

(* No client gets more than the limit of a rule through within its window,  *)
(* whatever the sweeps forgot in between (core/rate_limit.py, _retry_after).*)
THEOREM NoClientExceedsItsLimit == Spec => []WindowLimit
<1>1. IInv => WindowLimit
  BY DEF IInv, KeysOK, KeyOK, WindowLimit
<1> QED BY <1>1, Invariant, PTL

-----------------------------------------------------------------------------
(* The action properties.  A refusal of key is its Refuse step. *)

LEMMA RefusedByRefuse ==
  ASSUME IInv, [Next]_vars, NEW key \in Keys, Refused(key)
  PROVE  \E queue \in Remaining(key) : Len(queue) >= Limit[key[1]]
<1>1. promise \in [Keys -> Nat]
  BY DEF IInv, TypeOK
<1>2. promise' # promise
  BY DEF Refused
<1>3. PICK k \in Keys : Admit(k) \/ Refuse(k)
  BY <1>2 DEF Next, vars, Tick, Restart
<1>4. ~ Admit(k)
  BY <1>1 DEF Admit, Refused
<1>5. k = key
  BY <1>1, <1>3, <1>4 DEF Refuse, Refused
<1> QED BY <1>3, <1>4, <1>5 DEF Refuse

(* A queue that stops a request is the whole of what the client was let     *)
(* through with lately, and none of it has expired.                         *)
LEMMA FullQueue ==
  ASSUME IInv, NEW key \in Keys, NEW queue \in Remaining(key), Len(queue) >= Limit[key[1]]
  PROVE  LET a == admitted[key]
             n == Len(a) - Limit[key[1]] + 1
         IN  /\ n > 0
             /\ queue[1] = a[n]
             /\ ~ Expired(key, a[n])
             /\ ~ Expired(key, queue[Len(queue)])
             /\ promise[key] # 0 => now < promise[key]
<1> DEFINE a == admitted[key]
           max == Limit[key[1]]
           width == Window[key[1]]
<1>1. /\ queue \in Seq(Nat) /\ a \in Seq(Nat)
      /\ max \in Nat \ {0} /\ width \in Nat
      /\ now \in Nat /\ promise[key] \in Nat
  BY RemainingKeepsOK, RuleOfKey, RateLimitAssumption DEF IInv, TypeOK
<1>2. KeyOK(queue, a, promise[key], now, max, width)
  BY RemainingKeepsOK
<1>3. Len(queue) = max /\ queue # << >> /\ ~ (queue[1] + width <= now)
  BY RefuseFacts, RemainingKeepsOK DEF Expired
<1> HIDE DEF a, max, width
<1>4. /\ queue[1] = a[Len(a) - max + 1]
      /\ queue[max] = a[Len(a)]
      /\ Len(a) - max + 1 \in 1 .. Len(a) /\ Len(a) \in 1 .. Len(a)
      /\ Len(a) - max + 1 <= Len(a)
  BY <1>1, <1>2, <1>3 DEF KeyOK
<1>5. queue[1] \in Nat /\ queue[max] \in Nat
  BY <1>1, <1>3
<1>6. queue[1] <= queue[max]
  <2>1. a[Len(a) - max + 1] <= a[Len(a)]
    BY <1>1, <1>2, <1>4 DEF KeyOK
  <2> QED BY <1>4, <2>1
<1>7. ~ (queue[max] + width <= now)
  BY <1>1, <1>3, <1>5, <1>6
<1>8. promise[key] # 0 => now < promise[key]
  BY <1>1, <1>2, <1>3, <1>5 DEF KeyOK
<1>9. Len(a) - max + 1 > 0
  BY <1>1, <1>4
<1> QED BY <1>3, <1>4, <1>7, <1>8, <1>9 DEF Expired, a, max, width

(* A client that came back when Retry-After told it to is not refused again *)
(* (core/rate_limit.py, the retry-after header of __call__).                *)
THEOREM RetryAfterIsHonoured == Spec => RetryAfterHonoured
<1>1. IInv /\ [Next]_vars =>
        \A key \in Keys : Refused(key) /\ promise[key] # 0 => now < promise[key]
  <2> SUFFICES ASSUME IInv, [Next]_vars, NEW key \in Keys, Refused(key), promise[key] # 0
               PROVE  now < promise[key]
    OBVIOUS
  <2> QED BY RefusedByRefuse, FullQueue
<1> QED BY <1>1, Invariant, PTL DEF Spec, RetryAfterHonoured

(* Whoever is refused was let through limit times within the window, so     *)
(* neither a refused request nor an old one counts against a client.        *)
THEOREM RefusalsAreJustified == Spec => RefusedOnlyAtLimit
<1>1. IInv /\ [Next]_vars =>
        \A key \in Keys : Refused(key) =>
          LET n == Len(admitted[key]) - Limit[key[1]] + 1
          IN  n > 0 /\ ~ Expired(key, admitted[key][n])
  <2> SUFFICES ASSUME IInv, [Next]_vars, NEW key \in Keys, Refused(key)
               PROVE  LET n == Len(admitted[key]) - Limit[key[1]] + 1
                      IN  n > 0 /\ ~ Expired(key, admitted[key][n])
    OBVIOUS
  <2> QED BY RefusedByRefuse, FullQueue
<1> QED BY <1>1, Invariant, PTL DEF Spec, RefusedOnlyAtLimit

(* Beyond the threshold the dictionary holds active clients only            *)
(* (core/rate_limit.py, _SWEEP_AT).                                         *)
THEOREM MemoryIsBounded == Spec => MemoryFollowsActiveClients
<1>1. ASSUME IInv, [Next]_vars, hits' # hits, Cardinality(DOMAIN hits') > SweepAt + 1,
             NEW k \in DOMAIN hits'
      PROVE  Active(k)'
  <2>1. ~ Restart
    BY <1>1, FS_EmptySet, RateLimitAssumption DEF Restart
  <2>2. PICK key \in Keys : Admit(key) \/ Refuse(key)
    BY <1>1, <2>1 DEF Next, vars, Tick
  <2>3. now' = now /\ now \in Nat
    BY <1>1, <2>2, RateLimitAssumption DEF Admit, Refuse, IInv, TypeOK
  <2>4. PICK queue : Put(key, queue)
    BY <2>2 DEF Admit, Refuse
  <2>5. /\ DOMAIN hits' = DOMAIN Swept \cup {key}
        /\ \A j \in DOMAIN Swept : j # key => hits'[j] = Swept[j]
    BY <2>4 DEF Put
  <2>6. Cardinality(DOMAIN hits) > SweepAt
    <3> SUFFICES ASSUME ~ (Cardinality(DOMAIN hits) > SweepAt) PROVE FALSE
      OBVIOUS
    <3>1. DOMAIN hits' = DOMAIN hits \cup {key}
      BY <2>5 DEF Swept
    <3>2. IsFiniteSet(DOMAIN hits)
      BY <1>1 DEF IInv
    <3>3. Cardinality(DOMAIN hits) \in Nat
      BY <3>2, FS_CardinalityType
    <3>4. Cardinality(DOMAIN hits \cup {key}) =
            IF key \in DOMAIN hits THEN Cardinality(DOMAIN hits) ELSE Cardinality(DOMAIN hits) + 1
      BY <3>2, FS_AddElement
    <3>5. Cardinality(DOMAIN hits') \in {Cardinality(DOMAIN hits), Cardinality(DOMAIN hits) + 1}
      BY <3>1, <3>4
    <3> QED BY <1>1, <3>3, <3>5, RateLimitAssumption
  <2>7. CASE k # key
    <3>1. k \in DOMAIN Swept /\ hits'[k] = Swept[k]
      BY <1>1, <2>5, <2>7
    <3>2. Active(k) /\ hits'[k] = hits[k]
      BY <3>1, <2>6 DEF Swept
    <3> QED BY <3>2, <2>3 DEF Active, Expired
  <2>8. CASE k = key /\ Admit(key)
    <3>1. PICK q \in Remaining(key) : Put(key, Append(q, now))
      BY <2>8 DEF Admit
    <3>2. q \in Seq(0 .. MaxTime) /\ now \in 0 .. MaxTime
      BY <1>1, RemainingKeepsOK DEF IInv, TypeOK
    <3>3. hits'[k] = Append(q, now)
      BY <3>1, <2>8 DEF Put
    <3>4. hits'[k] # << >> /\ hits'[k][Len(hits'[k])] = now
      BY <3>2, <3>3, AppendProperties
    <3>5. ~ (now + Window[k[1]] <= now)
      BY <2>3, <2>8, RuleOfKey
    <3> QED BY <3>4, <3>5, <2>3 DEF Active, Expired
  <2>9. CASE k = key /\ Refuse(key)
    <3>1. PICK q \in Remaining(key) : Put(key, q) /\ Len(q) >= Limit[key[1]]
      BY <2>9 DEF Refuse
    <3>2. hits'[k] = q
      BY <3>1, <2>9 DEF Put
    <3>3. q # << >> /\ ~ Expired(key, q[Len(q)])
      BY <1>1, <3>1, FullQueue, RefuseFacts
    <3> QED BY <3>2, <3>3, <2>3, <2>9 DEF Active, Expired
  <2> QED BY <2>2, <2>7, <2>8, <2>9
<1>2. IInv /\ [Next]_vars => OnlyActiveLeft
  BY <1>1 DEF OnlyActiveLeft
<1> QED BY <1>2, Invariant, PTL DEF Spec, MemoryFollowsActiveClients
=============================================================================
