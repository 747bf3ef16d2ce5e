--------------------------- MODULE AnswerProtocol --------------------------
(***************************************************************************)
(* What a client of the chat endpoints may see, and what is written down   *)
(* about it: the order of the events as the docstring of                   *)
(* generate_answer_stream promises it, and the row in query_logs.          *)
(***************************************************************************)

CONSTANTS
  Streams,  \* requests to POST /chat/stream
  Plain     \* requests to POST /chat, answered by one "done" or "error"

VARIABLES
  last,     \* last[r]: the last event the client of r received
  logged    \* the requests with a query_logs row

vars == <<last, logged>>

Requests == Streams \cup Plain

(* What may follow what in a stream.  Sources come before any token; an     *)
(* abstention has no generating stage.                                      *)
Follows == [
  none       |-> {"retrieving"},
  retrieving |-> {"reranking", "error"},
  reranking  |-> {"sources", "error"},
  sources    |-> {"generating", "token"},
  generating |-> {"token", "done", "error"},
  token      |-> {"token", "done", "error"},
  done       |-> {},
  error      |-> {}]

Init ==
  /\ last = [r \in Requests |-> "none"]
  /\ logged = {}

(* A completed answer is logged before the client hears of it, a failed one *)
(* is not logged at all.                                                    *)
Deliver(r, event) ==
  /\ IF r \in Streams THEN event \in Follows[last[r]]
                      ELSE last[r] = "none" /\ event \in {"done", "error"}
  /\ event = "done" => r \in logged'
  /\ event = "error" => r \notin logged'
  /\ last' = [last EXCEPT ![r] = event]

Log(r) ==
  /\ last[r] \notin {"done", "error"}
  /\ r \notin logged
  /\ logged' = logged \cup {r}

(* A plain answer is logged and delivered at once. *)
Next ==
  \E r \in Requests :
    \/ Log(r) /\ UNCHANGED last
    \/ \E event \in DOMAIN Follows :
         Deliver(r, event) /\ (UNCHANGED logged \/ (r \in Plain /\ Log(r)))

Spec == Init /\ [][Next]_vars
=============================================================================
