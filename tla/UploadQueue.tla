---------------------------- MODULE UploadQueue ----------------------------
(***************************************************************************)
(* The upload panel of the documents page                                  *)
(* (frontend/src/app/documents/upload-queue.ts) in front of Ingestion.     *)
(*                                                                         *)
(* Every file that is added becomes an item, which is one upload request   *)
(* of Ingestion and, once that is answered, a loop of status reads.  What  *)
(* a reply says was true when the server wrote it; other callers run until *)
(* the browser gets to read it.  Callbacks in the browser are atomic.      *)
(***************************************************************************)
EXTENDS Ingestion

CONSTANT Mine  \* the uploads made by this page; the others come from elsewhere

ASSUME UploadQueueAssumption == Mine \subseteq Uploads

VARIABLES
  state,    \* state[u]: item.state, "none" before it is added, "cleared" after
  shown,    \* shown[u]: item.status, the last one the backend reported
  message,  \* message[u]: item.message
  call,     \* call[u]: what its subscription waits for
  reply,    \* reply[u]: the reply on its way: a status, or "error"
  open      \* the page has not been left

page == <<state, shown, message, call, reply, open>>
allVars == <<vars, page>>

Statuses == InFlight \cup {"ready", "failed"}
TERMINAL == {"ready", "failed"}
Active == {"uploading", "processing"}
Finished == {"ready", "duplicate", "failed", "rejected"}
Messages == {"none", "not_supported", "duplicate", "in_progress", "retrying",
             "call_failed", "ingestion_failed"}

(* Nothing, the POST, a status read, or the delay before the next one. *)
Calls == {"none", "post", "get", "delay"}

PageInit ==
  /\ Init
  /\ state = [u \in Mine |-> "none"]
  /\ shown = [u \in Mine |-> "none"]
  /\ message = [u \in Mine |-> "none"]
  /\ call = [u \in Mine |-> "none"]
  /\ reply = [u \in Mine |-> "none"]
  /\ open = TRUE

patch(u, newState, newMessage) ==
  /\ state' = [state EXCEPT ![u] = newState]
  /\ message' = [message EXCEPT ![u] = newMessage]

-----------------------------------------------------------------------------
(* The browser. *)

(* add: wrong suffix or too large, or the request leaves. *)
Add(u) ==
  /\ open
  /\ state[u] = "none"
  /\ \/ patch(u, "rejected", "not_supported") /\ UNCHANGED call
     \/ patch(u, "uploading", "none") /\ call' = [call EXCEPT ![u] = "post"]
  /\ UNCHANGED <<vars, shown, reply, open>>

(* received: the answer to the POST; the first status read leaves at once. *)
Received(u) ==
  /\ call[u] = "post"
  /\ reply[u] \in Statuses
  /\ shown' = [shown EXCEPT ![u] = reply[u]]
  /\ IF outcome[u] = "duplicate"
     THEN patch(u, "duplicate", "duplicate") /\ call' = [call EXCEPT ![u] = "none"]
     ELSE /\ patch(u, "processing", IF outcome[u] = "created" THEN "none" ELSE outcome[u])
          /\ call' = [call EXCEPT ![u] = "get"]
  /\ reply' = [reply EXCEPT ![u] = "none"]
  /\ UNCHANGED <<vars, open>>

(* Mutant: takeWhile stops at ready only. *)
PolledUntilReady(u) ==
  /\ call[u] = "get"
  /\ reply[u] \in Statuses
  /\ shown' = [shown EXCEPT ![u] = reply[u]]
  /\ \/ reply[u] = "ready" /\ patch(u, "ready", "none")
     \/ reply[u] = "failed" /\ patch(u, "failed", "ingestion_failed")
     \/ reply[u] \notin TERMINAL /\ UNCHANGED <<state, message>>
  /\ call' = [call EXCEPT ![u] = IF reply[u] = "ready" THEN "none" ELSE "delay"]
  /\ reply' = [reply EXCEPT ![u] = "none"]
  /\ UNCHANGED <<vars, open>>

(* Mutant: the status is read once. *)
PolledOnce(u) ==
  /\ call[u] = "get"
  /\ reply[u] \in Statuses
  /\ shown' = [shown EXCEPT ![u] = reply[u]]
  /\ \/ reply[u] = "ready" /\ patch(u, "ready", "none")
     \/ reply[u] = "failed" /\ patch(u, "failed", "ingestion_failed")
     \/ reply[u] \notin TERMINAL /\ UNCHANGED <<state, message>>
  /\ call' = [call EXCEPT ![u] = "none"]
  /\ reply' = [reply EXCEPT ![u] = "none"]
  /\ UNCHANGED <<vars, open>>

(* poll: a status read is answered; a terminal status is the last. *)
Polled(u) ==
  /\ call[u] = "get"
  /\ reply[u] \in Statuses
  /\ shown' = [shown EXCEPT ![u] = reply[u]]
  /\ \/ reply[u] = "ready" /\ patch(u, "ready", "none")
     \/ reply[u] = "failed" /\ patch(u, "failed", "ingestion_failed")
     \/ reply[u] \notin TERMINAL /\ UNCHANGED <<state, message>>
  /\ call' = [call EXCEPT ![u] = IF reply[u] \in TERMINAL THEN "none" ELSE "delay"]
  /\ reply' = [reply EXCEPT ![u] = "none"]
  /\ UNCHANGED <<vars, open>>

(* repeat({ delay: pollMs }). *)
Repeat(u) ==
  /\ call[u] = "delay"
  /\ call' = [call EXCEPT ![u] = "get"]
  /\ UNCHANGED <<vars, state, shown, message, reply, open>>

(* error: an HTTP error or no connection ends the subscription. *)
CallFails(u) ==
  /\ call[u] \in {"post", "get"}
  /\ patch(u, "failed", "call_failed")
  /\ call' = [call EXCEPT ![u] = "none"]
  /\ reply' = [reply EXCEPT ![u] = "none"]
  /\ UNCHANGED <<vars, shown, open>>

clearFinished ==
  /\ open
  /\ \E u \in Mine : state[u] \in Finished
  /\ state' = [u \in Mine |-> IF state[u] \in Finished THEN "cleared" ELSE state[u]]
  /\ UNCHANGED <<vars, shown, message, call, reply, open>>

(* Mutant: the page is left without unsubscribing. *)
DestroySilently ==
  /\ open
  /\ open' = FALSE
  /\ UNCHANGED <<vars, state, shown, message, call, reply>>

(* onDestroy: every request and poll is unsubscribed, hence aborted; what   *)
(* the server has begun it goes on with.                                    *)
Destroy ==
  /\ open
  /\ open' = FALSE
  /\ call' = [u \in Mine |-> "none"]
  /\ reply' = [u \in Mine |-> "none"]
  /\ UNCHANGED <<vars, state, shown, message>>

-----------------------------------------------------------------------------
(* The server. *)

(* A request of this page is handled once it was sent: a POST that was      *)
(* aborted on its way may arrive all the same.                              *)
Sent(c) == c \in Mine => state[c] \notin {"none", "rejected"}

(* Any step of Ingestion but the one that answers this page. *)
Backend ==
  /\ Next
  /\ \A c \in Callers : pc[c] = "idle" /\ pc'[c] # "idle" => Sent(c)
  /\ \A u \in Mine : outcome'[u] = outcome[u]
  /\ UNCHANGED page

(* An error response, or the status of the session's object; nobody waits   *)
(* for it any more if the request was aborted.                              *)
AnswerPost(u) ==
  /\ \/ Refuse(u) /\ Sent(u) /\ reply' = [reply EXCEPT ![u] = IF call[u] = "post" THEN "error" ELSE @]
     \/ Respond(u) /\ reply' = [reply EXCEPT ![u] = IF call[u] = "post" THEN view[u].status ELSE @]
  /\ UNCHANGED <<state, shown, message, call, open>>

(* GET /documents/{id} reads the row. *)
AnswerGet(u) ==
  /\ call[u] = "get"
  /\ reply[u] = "none"
  /\ reply' = [reply EXCEPT ![u] = row[doc[u]].status]
  /\ UNCHANGED <<vars, state, shown, message, call, open>>

-----------------------------------------------------------------------------
Browse(u) ==
  Received(u) \/ Polled(u) \/ Repeat(u) \/ AnswerGet(u) \/ (reply[u] = "error" /\ CallFails(u))

PageNext ==
  \/ \E u \in Mine : Add(u) \/ Browse(u) \/ CallFails(u) \/ AnswerPost(u)
  \/ clearFinished
  \/ Destroy
  \/ Backend

PageSpec == PageInit /\ [][PageNext]_allVars

(* Ingestion's fairness, requests that arrive unless the connection fails,  *)
(* a server that answers status reads, and a browser that handles what      *)
(* comes back.                                                              *)
PageFairness ==
  /\ \A c \in Callers : WF_allVars(Busy(c) /\ (Ask(c) \/ Process(c)) /\ PageNext)
  /\ \A u \in Mine : WF_allVars(call[u] = "post" /\ Lookup(u) /\ Backend) /\ WF_allVars(Browse(u))

PageFairSpec == PageSpec /\ PageFairness

-----------------------------------------------------------------------------
(* Every variable has its type. *)
PageTypeOK ==
  /\ state \in [Mine -> {"none", "cleared"} \cup Active \cup Finished]
  /\ shown \in [Mine -> Statuses \cup {"none"}]
  /\ message \in [Mine -> Messages]
  /\ call \in [Mine -> Calls]
  /\ reply \in [Mine -> Statuses \cup {"none", "error"}]
  /\ open \in BOOLEAN

(* An item shown as ready, or as already there, stands for a document that  *)
(* can be searched, although the status is older than what is on the        *)
(* screen.                                                                  *)
FinishedItemsAreSearchable ==
  \A u \in Mine : state[u] \in {"ready", "duplicate"} => Searchable(doc[u])

(* While the page is open an item is followed exactly as long as it is not  *)
(* finished; once it is left, "every request and poll it started" stops.    *)
FollowedWhileActive ==
  \A u \in Mine : call[u] # "none" <=> (open /\ state[u] \in Active)

(* A finished item stays as it is until it is cleared: no late reply        *)
(* reopens it.                                                              *)
FinishedIsFinal ==
  [][\A u \in Mine : state[u] \in Finished =>
       state'[u] \in {state[u], "cleared"} /\ message'[u] = message[u]]_allVars

(* Without faults every item ends: an item still processing when the page   *)
(* stays open becomes ready or failed, also the ones whose document another *)
(* caller processes.                                                        *)
ItemsFinish ==
  \A u \in Mine : state[u] \in Active ~> (state[u] \notin Active \/ ~ open \/ faults > 0)

(* UploadState: an item is "being processed ..., or finished one way or     *)
(* another": if ingestion is said to have failed, the attempt this upload   *)
(* was scheduled for is over.                                               *)
FailedIsOver ==
  \A u \in Mine : message[u] = "ingestion_failed" => pc[u] \notin Working
=============================================================================
