----------------------------- MODULE RateLimit -----------------------------
(***************************************************************************)
(* The per-IP rate limits (core/rate_limit.py).                            *)
(*                                                                         *)
(* The middleware runs on the event loop and never awaits between reading  *)
(* the clock and answering, so one request is one step.  Time is counted   *)
(* in ticks of which Second make a second: the clock is a float, while     *)
(* Retry-After is in whole seconds.                                        *)
(***************************************************************************)
EXTENDS Integers, Sequences, FiniteSets

CONSTANTS
  Rules,    \* the rules of main.py whose limit is positive
  Clients,  \* IP addresses
  Limit,    \* Limit[r]
  Window,   \* Window[r], in ticks
  Second,   \* ticks in a second
  SweepAt,  \* _SWEEP_AT
  MaxTime   \* bound on the clock

ASSUME RateLimitAssumption ==
  /\ Limit \in [Rules -> Nat \ {0}]
  /\ Window \in [Rules -> Nat \ {0}]
  /\ Second \in Nat \ {0}
  /\ SweepAt \in Nat
  /\ MaxTime \in Nat

VARIABLES
  now,       \* the clock
  hits,      \* self._hits: a dictionary of queues of times
  admitted,  \* admitted[k]: when requests of key k were let through, all of them
  promise    \* promise[k]: when the last refusal told k to come back, 0 if none stands

vars == <<now, hits, admitted, promise>>

Keys == Rules \X Clients

Init ==
  /\ now = 0
  /\ hits = << >>
  /\ admitted = [key \in Keys |-> << >>]
  /\ promise = [key \in Keys |-> 0]

Tick ==
  /\ now < MaxTime
  /\ now' = now + 1
  /\ UNCHANGED <<hits, admitted, promise>>

(* A hit of key that no longer counts. *)
Expired(key, hit) == hit + Window[key[1]] <= now

Active(key) ==
  /\ hits[key] # << >>
  /\ ~ Expired(key, hits[key][Len(hits[key])])

(* Mutant: a client is forgotten as soon as its first hit expires. *)
ActiveByFirstHit(key) ==
  /\ hits[key] # << >>
  /\ ~ Expired(key, hits[key][1])

(* Mutant: only clients without any hit are forgotten. *)
SweptOfEmptyQueues ==
  IF Cardinality(DOMAIN hits) > SweepAt
  THEN [key \in {k \in DOMAIN hits : hits[k] # << >>} |-> hits[key]]
  ELSE hits

(* Mutant: the sweep looks at the oldest hit, not at the newest. *)
SweptByFirstHit ==
  IF Cardinality(DOMAIN hits) > SweepAt
  THEN [key \in {k \in DOMAIN hits : ActiveByFirstHit(k)} |-> hits[key]]
  ELSE hits

(* What is left once _sweep has run, if it is time for it. *)
Swept ==
  IF Cardinality(DOMAIN hits) > SweepAt
  THEN [key \in {k \in DOMAIN hits : Active(k)} |-> hits[key]]
  ELSE hits

Queue(key) == IF key \in DOMAIN Swept THEN Swept[key] ELSE << >>

Put(key, queue) ==
  hits' = [k \in DOMAIN Swept \cup {key} |-> IF k = key THEN queue ELSE Swept[k]]

(* Mutant: a hit still counts at the very end of its window. *)
RemainingTooLong(key) ==
  LET q == Queue(key)
      Stops(n) == /\ \A i \in 1 .. n : q[i] + Window[key[1]] < now
                  /\ n < Len(q) => ~ q[n + 1] + Window[key[1]] < now
  IN  {SubSeq(q, n + 1, Len(q)) : n \in {m \in 0 .. Len(q) : Stops(m)}}

(* The one queue the popleft loop leaves: it stops at the first hit that    *)
(* has not expired.                                                         *)
Remaining(key) ==
  LET q == Queue(key)
      Stops(n) == /\ \A i \in 1 .. n : Expired(key, q[i])
                  /\ n < Len(q) => ~ Expired(key, q[n + 1])
  IN  {SubSeq(q, n + 1, Len(q)) : n \in {m \in 0 .. Len(q) : Stops(m)}}

Admit(key) ==
  \E queue \in Remaining(key) :
    /\ Len(queue) < Limit[key[1]]
    /\ Put(key, Append(queue, now))
    /\ admitted' = [admitted EXCEPT ![key] = Append(@, now)]
    /\ promise' = [promise EXCEPT ![key] = 0]
    /\ UNCHANGED now

(* max(1, ceil(wait)) seconds, in ticks. *)
RetryAfter(wait) ==
  LET rounded == wait + ((- wait) % Second)
  IN  IF rounded < Second THEN Second ELSE rounded

(* Mutant: a refused request counts as well. *)
RefuseAndCount(key) ==
  \E queue \in Remaining(key) :
    /\ Len(queue) >= Limit[key[1]]
    /\ Put(key, Append(Tail(queue), now))
    /\ promise' = [promise EXCEPT ![key] = now + RetryAfter(queue[1] + Window[key[1]] - now)]
    /\ UNCHANGED <<now, admitted>>

(* 429 with Retry-After; the emptied head of the queue stays popped. *)
Refuse(key) ==
  \E queue \in Remaining(key) :
    /\ Len(queue) >= Limit[key[1]]
    /\ Put(key, queue)
    /\ promise' = [promise EXCEPT ![key] = now + RetryAfter(queue[1] + Window[key[1]] - now)]
    /\ UNCHANGED <<now, admitted>>

(* The counters live in the process: a new one starts without them. *)
Restart ==
  /\ hits' = << >>
  /\ admitted' = [key \in Keys |-> << >>]
  /\ UNCHANGED <<now, promise>>

Next ==
  \/ Tick
  \/ \E key \in Keys : Admit(key) \/ Refuse(key)
  \/ Restart

Spec == Init /\ [][Next]_vars

-----------------------------------------------------------------------------
(* Every variable has its type; hits holds queues of some of the keys. *)
TypeOK ==
  /\ now \in 0 .. MaxTime
  /\ DOMAIN hits \subseteq Keys
  /\ \A key \in DOMAIN hits : hits[key] \in Seq(0 .. MaxTime)
  /\ admitted \in [Keys -> Seq(0 .. MaxTime)]
  /\ promise \in [Keys -> Nat]

(* "Each rule allows limit requests per client IP in a sliding window_s":   *)
(* of any limit + 1 consecutive admissions by one process the last is a     *)
(* whole window after the first, also when a sweep came in between.         *)
WindowLimit ==
  \A key \in Keys : \A i \in 1 .. Len(admitted[key]) :
    i + Limit[key[1]] <= Len(admitted[key]) =>
      admitted[key][i + Limit[key[1]]] >= admitted[key][i] + Window[key[1]]

Refused(key) == promise'[key] # promise[key] /\ promise'[key] # 0

(* A client that waits as long as Retry-After told it, and was not let      *)
(* through in the meantime, is let through.                                 *)
RetryAfterHonoured ==
  [][\A key \in Keys : Refused(key) /\ promise[key] # 0 => now < promise[key]]_vars

(* A client is refused only when limit requests of its own were let through *)
(* within the window: refused requests do not count against it.             *)
RefusedOnlyAtLimit ==
  [][\A key \in Keys : Refused(key) =>
       LET n == Len(admitted[key]) - Limit[key[1]] + 1
       IN  n > 0 /\ ~ Expired(key, admitted[key][n])]_vars

OnlyActiveLeft ==
  hits' # hits /\ Cardinality(DOMAIN hits') > SweepAt + 1 =>
    \A key \in DOMAIN hits' : Active(key)'

(* "Memory follows the active clients, not every address ever seen": what a *)
(* request leaves beyond the threshold is active.                           *)
MemoryFollowsActiveClients == [][OnlyActiveLeft]_vars
=============================================================================
