-------------------------- MODULE AnsweringProofs --------------------------
(***************************************************************************)
(* Proofs about Answering, for any number of requests, any daily limit and *)
(* any number of tokens, midnights and crashes.                            *)
(*                                                                         *)
(* Requests meet only in the daily cap, so the invariant is one about each *)
(* request, and one about the cap.  The generator's position tells which   *)
(* event is the latest one on its way to a client that is still there.     *)
(***************************************************************************)
EXTENDS Answering, FiniteSetTheorems, TLAPS

Silent == {"none", "heartbeat"}

(* The last event the generator yielded, as long as none of them is lost. *)
Latest(r) ==
  IF slot[r] # "none" THEN slot[r]
  ELSE IF holding[r] \notin Silent THEN holding[r] ELSE last[r]

(* Where the consumer is tells what it has in hand. *)
Handed(r) ==
  /\ (gen[r] = "idle") = (consumer[r] \in {"idle", "refused"})
  /\ consumer[r] \in {"closed", "finished"} => gen[r] = "end"
  /\ (holding[r] = "none") = (consumer[r] \notin {"checking", "sending"})
  /\ consumer[r] \notin Open => slot[r] = "none"
  /\ slot[r] # "none" => holding[r] \in Silent

(* A stream has the labels of the one function, a plain request those of   *)
(* the other, and no events before its answer.                             *)
Kind(r) ==
  /\ r \in Streams => gen[r] \notin PlainLabels
  /\ r \in Plain => /\ gen[r] \notin StreamLabels
                    /\ slot[r] = "none" /\ holding[r] = "none"
                    /\ last[r] \in {"none"} \cup Terminal

(* The retrieval and the model work only where the generator awaits them. *)
Working(r) ==
  r \in Streams =>
    /\ prep[r] \in Running => gen[r] \in Preparing
    /\ llm[r] = "open" => gen[r] = "streaming"
    /\ ~reranking[r] => prep[r] \notin {"reranking", "answerable", "weak"}

(* The outcome is the last thing that happens. *)
Ending(r) ==
  /\ slot[r] \in Terminal => gen[r] = "end"
  /\ holding[r] \in Terminal => gen[r] = "end" /\ slot[r] = "none"
  /\ last[r] \in Terminal => gen[r] = "end" /\ slot[r] = "none" /\ holding[r] \in Silent

(* What is logged, by where the generator is and by what it said. *)
Logged(r) ==
  /\ gen[r] \notin {"abstention_token", "abstention_done", "end"} => r \notin rows
  /\ gen[r] \in {"abstention_token", "abstention_done"} => r \in rows
  /\ "done" \in {slot[r], holding[r], last[r]} => r \in rows
  /\ "error" \in {slot[r], holding[r], last[r]} => r \notin rows

(* No token is lost on its way to a client that is there. *)
Counted(r) ==
  r \in Streams /\ (connected[r] \/ last[r] = "done") =>
    tokens[r] = got[r] + (IF slot[r] = "token" THEN 1 ELSE 0)
                       + (IF holding[r] = "token" THEN 1 ELSE 0)

(* The latest event, by the generator's position. *)
Position(r) ==
  connected[r] =>
    /\ gen[r] = "end" => Latest(r) \in Terminal
    /\ gen[r] \in {"idle", "start"} \cup PlainLabels => Latest(r) = "none"
    /\ gen[r] \in {"prepare", "waiting_rerank"} => Latest(r) = "retrieving"
    /\ gen[r] = "awaiting_prep" =>
         \/ Latest(r) = "reranking"
         \/ Latest(r) = "retrieving" /\ prep[r] \notin {"answerable", "weak"} \cup Running
    /\ gen[r] = "logging_abstention" => Latest(r) = "reranking"
    /\ gen[r] \in {"sources_next", "abstention_token"} => Latest(r) = "sources"
    /\ gen[r] = "abstention_done" => Latest(r) = "token"
    /\ gen[r] = "calling" => Latest(r) = "generating"
    /\ gen[r] \in {"streaming", "logging"} => Latest(r) \in {"generating", "token"}

(* What is on its way may follow what arrived. *)
After(r) ==
  connected[r] =>
    /\ holding[r] \notin Silent => holding[r] \in Protocol!Follows[last[r]]
    /\ slot[r] # "none" => slot[r] \in Protocol!Follows[last[r]]

Local(r) ==
  /\ Handed(r) /\ Kind(r) /\ Working(r) /\ Ending(r) /\ Logged(r)
  /\ Counted(r) /\ Position(r) /\ After(r)

(* The rows of the day and the requests at work. *)
Cap == DailyLimit > 0 => Cardinality(today \cup AtWork) < DailyLimit + peak

Inv == TypeOK /\ (\A r \in Requests : Local(r)) /\ Cap
(* No other request is touched. *)
Same(q) ==
  /\ gen'[q] = gen[q] /\ prep'[q] = prep[q] /\ reranking'[q] = reranking[q]
  /\ llm'[q] = llm[q] /\ slot'[q] = slot[q] /\ tokens'[q] = tokens[q]
  /\ consumer'[q] = consumer[q] /\ holding'[q] = holding[q]
  /\ connected'[q] = connected[q] /\ last'[q] = last[q] /\ got'[q] = got[q]
  /\ (q \in rows') = (q \in rows)

Others(r) == \A q \in Requests \ {r} : Same(q)

(* Nobody new is at work, and only the row of one who is may be written. *)
CapStep == today' \cup AtWork' \subseteq today \cup AtWork /\ peak' = peak

USE DEF Requests, Stages, Terminal, Events, Preparing, Logging, StreamLabels, PlainLabels,
        Labels, Running, Open, Silent, generator, delivery, counters

(* The initial states. *)
LEMMA InitInv == Init => Inv
<1> SUFFICES ASSUME Init PROVE Inv OBVIOUS
<1>1. TypeOK BY AnsweringAssumption DEF Init, TypeOK
<1>2. ASSUME NEW r \in Requests PROVE Local(r)
  <2>1. Handed(r) /\ Kind(r) /\ Working(r) /\ Ending(r) /\ Logged(r)
    BY <1>2, AnsweringAssumption DEF Init, Handed, Kind, Working, Ending, Logged
  <2>2. Counted(r) /\ Position(r) /\ After(r)
    BY <1>2 DEF Init, Counted, Position, After, Latest
  <2>3. QED BY <2>1, <2>2 DEF Local
<1>3. Cap
  <2>1. today \cup AtWork = {} BY DEF Init, AtWork
  <2>2. QED BY <2>1, FS_EmptySet, AnsweringAssumption DEF Cap, Init
<1>4. QED BY <1>1, <1>2, <1>3 DEF Inv

(* What a request is, of one that no step touches. *)
LEMMA Frame == ASSUME NEW q \in Requests, Local(q), Same(q) PROVE Local(q)'
BY DEF Local, Same, Handed, Kind, Working, Ending, Logged, Counted, Position, After, Latest

(* What may follow what. *)
LEMMA FollowsIs ==
  /\ Protocol!Follows["none"] = {"retrieving"}
  /\ Protocol!Follows["retrieving"] = {"reranking", "error"}
  /\ Protocol!Follows["reranking"] = {"sources", "error"}
  /\ Protocol!Follows["sources"] = {"generating", "token"}
  /\ Protocol!Follows["generating"] = {"token", "done", "error"}
  /\ Protocol!Follows["token"] = {"token", "done", "error"}
BY DEF Protocol!Follows

(* A question over the budget is refused. *)
LEMMA OverBudgetStep ==
  ASSUME TypeOK, NEW r \in Requests, Local(r), OverBudget(r)
  PROVE  TypeOK' /\ Others(r) /\ CapStep /\ Local(r)'
<1> USE DEF Local, OverBudget
<1>1. TypeOK' BY DEF TypeOK
<1>2. Others(r) BY DEF TypeOK, Others, Same
<1>3. CapStep BY <1>1 DEF TypeOK, CapStep, AtWork, Handed
<1>4. Handed(r)' BY DEF TypeOK, Handed, Kind, Ending
<1>5. Kind(r)' BY AnsweringAssumption DEF TypeOK, Kind
<1>6. Working(r)' BY DEF TypeOK, Working
<1>7. Ending(r)' BY DEF TypeOK, Ending, Handed
<1>8. Logged(r)' BY DEF TypeOK, Logged, Ending, Handed
<1>9. Counted(r)' BY DEF TypeOK, Counted, Ending, Handed
<1>10. Position(r)' BY DEF TypeOK, Position, Latest, Handed, Working
<1>11. After(r)' BY FollowsIs DEF TypeOK, After, Position, Latest, Handed
<1>12. QED BY <1>1, <1>2, <1>3, <1>4, <1>5, <1>6, <1>7, <1>8, <1>9, <1>10, <1>11

(* The first event. *)
LEMMA BeginStep ==
  ASSUME TypeOK, NEW r \in Requests, Local(r), Begin(r)
  PROVE  TypeOK' /\ Others(r) /\ CapStep /\ Local(r)'
<1> USE DEF Local, Begin, Runs, Pending, Yield
<1>1. TypeOK' BY DEF TypeOK
<1>2. Others(r) BY DEF TypeOK, Others, Same
<1>3. CapStep BY <1>1 DEF TypeOK, CapStep, AtWork, Handed
<1>4. Handed(r)' BY DEF TypeOK, Handed, Kind, Ending
<1>5. Kind(r)' BY AnsweringAssumption DEF TypeOK, Kind
<1>6. Working(r)' BY DEF TypeOK, Working
<1>7. Ending(r)' BY DEF TypeOK, Ending, Handed
<1>8. Logged(r)' BY DEF TypeOK, Logged, Ending, Handed
<1>9. Counted(r)' BY DEF TypeOK, Counted, Ending, Handed
<1>10. Position(r)' BY DEF TypeOK, Position, Latest, Handed, Working
<1>11. After(r)' BY FollowsIs DEF TypeOK, After, Position, Latest, Handed
<1>12. QED BY <1>1, <1>2, <1>3, <1>4, <1>5, <1>6, <1>7, <1>8, <1>9, <1>10, <1>11

(* The retrieval starts. *)
LEMMA StartPreparingStep ==
  ASSUME TypeOK, NEW r \in Requests, Local(r), StartPreparing(r)
  PROVE  TypeOK' /\ Others(r) /\ CapStep /\ Local(r)'
<1> USE DEF Local, StartPreparing, Runs, Pending, Await
<1>1. TypeOK' BY DEF TypeOK
<1>2. Others(r) BY DEF TypeOK, Others, Same
<1>3. CapStep BY <1>1 DEF TypeOK, CapStep, AtWork, Handed
<1>4. Handed(r)' BY DEF TypeOK, Handed, Kind, Ending
<1>5. Kind(r)' BY AnsweringAssumption DEF TypeOK, Kind
<1>6. Working(r)' BY DEF TypeOK, Working
<1>7. Ending(r)' BY DEF TypeOK, Ending, Handed
<1>8. Logged(r)' BY DEF TypeOK, Logged, Ending, Handed
<1>9. Counted(r)' BY DEF TypeOK, Counted, Ending, Handed
<1>10. Position(r)' BY DEF TypeOK, Position, Latest, Handed, Working
<1>11. After(r)' BY FollowsIs DEF TypeOK, After, Position, Latest, Handed
<1>12. QED BY <1>1, <1>2, <1>3, <1>4, <1>5, <1>6, <1>7, <1>8, <1>9, <1>10, <1>11

(* Reranking is reported, or the retrieval is over without it. *)
LEMMA ReportRerankStep ==
  ASSUME TypeOK, NEW r \in Requests, Local(r), ReportRerank(r)
  PROVE  TypeOK' /\ Others(r) /\ CapStep /\ Local(r)'
<1> USE DEF Local, ReportRerank, Runs, Pending, Yield, Await
<1>1. TypeOK' BY DEF TypeOK
<1>2. Others(r) BY DEF TypeOK, Others, Same
<1>3. CapStep BY <1>1 DEF TypeOK, CapStep, AtWork, Handed
<1>4. Handed(r)' BY DEF TypeOK, Handed, Kind, Ending
<1>5. Kind(r)' BY AnsweringAssumption DEF TypeOK, Kind
<1>6. Working(r)' BY DEF TypeOK, Working
<1>7. Ending(r)' BY DEF TypeOK, Ending, Handed
<1>8. Logged(r)' BY DEF TypeOK, Logged, Ending, Handed
<1>9. Counted(r)' BY DEF TypeOK, Counted, Ending, Handed
<1>10. Position(r)' BY DEF TypeOK, Position, Latest, Handed, Working
<1>11. After(r)' BY FollowsIs DEF TypeOK, After, Position, Latest, Handed
<1>12. QED BY <1>1, <1>2, <1>3, <1>4, <1>5, <1>6, <1>7, <1>8, <1>9, <1>10, <1>11

(* The retrieval is over: sources, an abstention to be logged, or the error. *)
LEMMA PreparedStep ==
  ASSUME TypeOK, NEW r \in Requests, Local(r), Prepared(r)
  PROVE  TypeOK' /\ Others(r) /\ CapStep /\ Local(r)'
<1> USE DEF Local, Prepared, Runs, Pending, Yield, Await
<1>1. TypeOK' BY DEF TypeOK
<1>2. Others(r) BY DEF TypeOK, Others, Same
<1>3. CapStep BY <1>1 DEF TypeOK, CapStep, AtWork, Handed
<1>4. Handed(r)' BY DEF TypeOK, Handed, Kind, Ending
<1>5. Kind(r)' BY AnsweringAssumption DEF TypeOK, Kind
<1>6. Working(r)' BY DEF TypeOK, Working
<1>7. Ending(r)' BY DEF TypeOK, Ending, Handed
<1>8. Logged(r)' BY DEF TypeOK, Logged, Ending, Handed
<1>9. Counted(r)' BY DEF TypeOK, Counted, Ending, Handed
<1>10. Position(r)' BY DEF TypeOK, Position, Latest, Handed, Working
<1>11. After(r)' BY FollowsIs DEF TypeOK, After, Position, Latest, Handed
<1>12. QED BY <1>1, <1>2, <1>3, <1>4, <1>5, <1>6, <1>7, <1>8, <1>9, <1>10, <1>11

(* An abstention is logged, or cannot be. *)
LEMMA AbstainStep ==
  ASSUME TypeOK, NEW r \in Requests, Local(r), Abstain(r)
  PROVE  TypeOK' /\ Others(r) /\ CapStep /\ Local(r)'
<1> USE DEF Local, Abstain, Runs, Pending, Yield, Log, NoLog
<1>1. TypeOK' BY DEF TypeOK
<1>2. Others(r) BY DEF TypeOK, Others, Same
<1>3. CapStep BY <1>1 DEF TypeOK, CapStep, AtWork, Handed
<1>4. Handed(r)' BY DEF TypeOK, Handed, Kind, Ending
<1>5. Kind(r)' BY AnsweringAssumption DEF TypeOK, Kind
<1>6. Working(r)' BY DEF TypeOK, Working
<1>7. Ending(r)' BY DEF TypeOK, Ending, Handed
<1>8. Logged(r)' BY DEF TypeOK, Logged, Ending, Handed
<1>9. Counted(r)' BY DEF TypeOK, Counted, Ending, Handed
<1>10. Position(r)' BY DEF TypeOK, Position, Latest, Handed, Working
<1>11. After(r)' BY FollowsIs DEF TypeOK, After, Position, Latest, Handed
<1>12. QED BY <1>1, <1>2, <1>3, <1>4, <1>5, <1>6, <1>7, <1>8, <1>9, <1>10, <1>11

(* The only token of an abstention. *)
LEMMA AbstentionTokenStep ==
  ASSUME TypeOK, NEW r \in Requests, Local(r), AbstentionToken(r)
  PROVE  TypeOK' /\ Others(r) /\ CapStep /\ Local(r)'
<1> USE DEF Local, AbstentionToken, Runs, Pending, Yield
<1>1. TypeOK' BY DEF TypeOK
<1>2. Others(r) BY DEF TypeOK, Others, Same
<1>3. CapStep BY <1>1 DEF TypeOK, CapStep, AtWork, Handed
<1>4. Handed(r)' BY DEF TypeOK, Handed, Kind, Ending
<1>5. Kind(r)' BY AnsweringAssumption DEF TypeOK, Kind
<1>6. Working(r)' BY DEF TypeOK, Working
<1>7. Ending(r)' BY DEF TypeOK, Ending, Handed
<1>8. Logged(r)' BY DEF TypeOK, Logged, Ending, Handed
<1>9. Counted(r)' BY DEF TypeOK, Counted, Ending, Handed
<1>10. Position(r)' BY DEF TypeOK, Position, Latest, Handed, Working
<1>11. After(r)' BY FollowsIs DEF TypeOK, After, Position, Latest, Handed
<1>12. QED BY <1>1, <1>2, <1>3, <1>4, <1>5, <1>6, <1>7, <1>8, <1>9, <1>10, <1>11

(* The end of an abstention. *)
LEMMA AbstentionDoneStep ==
  ASSUME TypeOK, NEW r \in Requests, Local(r), AbstentionDone(r)
  PROVE  TypeOK' /\ Others(r) /\ CapStep /\ Local(r)'
<1> USE DEF Local, AbstentionDone, Runs, Pending, Yield
<1>1. TypeOK' BY DEF TypeOK
<1>2. Others(r) BY DEF TypeOK, Others, Same
<1>3. CapStep BY <1>1 DEF TypeOK, CapStep, AtWork, Handed
<1>4. Handed(r)' BY DEF TypeOK, Handed, Kind, Ending
<1>5. Kind(r)' BY AnsweringAssumption DEF TypeOK, Kind
<1>6. Working(r)' BY DEF TypeOK, Working
<1>7. Ending(r)' BY DEF TypeOK, Ending, Handed
<1>8. Logged(r)' BY DEF TypeOK, Logged, Ending, Handed
<1>9. Counted(r)' BY DEF TypeOK, Counted, Ending, Handed
<1>10. Position(r)' BY DEF TypeOK, Position, Latest, Handed, Working
<1>11. After(r)' BY FollowsIs DEF TypeOK, After, Position, Latest, Handed
<1>12. QED BY <1>1, <1>2, <1>3, <1>4, <1>5, <1>6, <1>7, <1>8, <1>9, <1>10, <1>11

(* The model is about to be called. *)
LEMMA ReportGeneratingStep ==
  ASSUME TypeOK, NEW r \in Requests, Local(r), ReportGenerating(r)
  PROVE  TypeOK' /\ Others(r) /\ CapStep /\ Local(r)'
<1> USE DEF Local, ReportGenerating, Runs, Pending, Yield
<1>1. TypeOK' BY DEF TypeOK
<1>2. Others(r) BY DEF TypeOK, Others, Same
<1>3. CapStep BY <1>1 DEF TypeOK, CapStep, AtWork, Handed
<1>4. Handed(r)' BY DEF TypeOK, Handed, Kind, Ending
<1>5. Kind(r)' BY AnsweringAssumption DEF TypeOK, Kind
<1>6. Working(r)' BY DEF TypeOK, Working
<1>7. Ending(r)' BY DEF TypeOK, Ending, Handed
<1>8. Logged(r)' BY DEF TypeOK, Logged, Ending, Handed
<1>9. Counted(r)' BY DEF TypeOK, Counted, Ending, Handed
<1>10. Position(r)' BY DEF TypeOK, Position, Latest, Handed, Working
<1>11. After(r)' BY FollowsIs DEF TypeOK, After, Position, Latest, Handed
<1>12. QED BY <1>1, <1>2, <1>3, <1>4, <1>5, <1>6, <1>7, <1>8, <1>9, <1>10, <1>11

(* The model is called. *)
LEMMA CallStep ==
  ASSUME TypeOK, NEW r \in Requests, Local(r), Call(r)
  PROVE  TypeOK' /\ Others(r) /\ CapStep /\ Local(r)'
<1> USE DEF Local, Call, Runs, Pending, Await
<1>1. TypeOK' BY DEF TypeOK
<1>2. Others(r) BY DEF TypeOK, Others, Same
<1>3. CapStep BY <1>1 DEF TypeOK, CapStep, AtWork, Handed
<1>4. Handed(r)' BY DEF TypeOK, Handed, Kind, Ending
<1>5. Kind(r)' BY AnsweringAssumption DEF TypeOK, Kind
<1>6. Working(r)' BY DEF TypeOK, Working
<1>7. Ending(r)' BY DEF TypeOK, Ending, Handed
<1>8. Logged(r)' BY DEF TypeOK, Logged, Ending, Handed
<1>9. Counted(r)' BY DEF TypeOK, Counted, Ending, Handed
<1>10. Position(r)' BY DEF TypeOK, Position, Latest, Handed, Working
<1>11. After(r)' BY FollowsIs DEF TypeOK, After, Position, Latest, Handed
<1>12. QED BY <1>1, <1>2, <1>3, <1>4, <1>5, <1>6, <1>7, <1>8, <1>9, <1>10, <1>11

(* A token of the answer. *)
LEMMA TokenStep ==
  ASSUME TypeOK, NEW r \in Requests, Local(r), Token(r)
  PROVE  TypeOK' /\ Others(r) /\ CapStep /\ Local(r)'
<1> USE DEF Local, Token, Runs, Pending, Yield
<1>1. TypeOK' BY DEF TypeOK
<1>2. Others(r) BY DEF TypeOK, Others, Same
<1>3. CapStep BY <1>1 DEF TypeOK, CapStep, AtWork, Handed
<1>4. Handed(r)' BY DEF TypeOK, Handed, Kind, Ending
<1>5. Kind(r)' BY AnsweringAssumption DEF TypeOK, Kind
<1>6. Working(r)' BY DEF TypeOK, Working
<1>7. Ending(r)' BY DEF TypeOK, Ending, Handed
<1>8. Logged(r)' BY DEF TypeOK, Logged, Ending, Handed
<1>9. Counted(r)' BY DEF TypeOK, Counted, Ending, Handed
<1>10. Position(r)' BY DEF TypeOK, Position, Latest, Handed, Working
<1>11. After(r)' BY FollowsIs DEF TypeOK, After, Position, Latest, Handed
<1>12. QED BY <1>1, <1>2, <1>3, <1>4, <1>5, <1>6, <1>7, <1>8, <1>9, <1>10, <1>11

(* The end of the model's stream, or its failure. *)
LEMMA EndOfAnswerStep ==
  ASSUME TypeOK, NEW r \in Requests, Local(r), EndOfAnswer(r)
  PROVE  TypeOK' /\ Others(r) /\ CapStep /\ Local(r)'
<1> USE DEF Local, EndOfAnswer, Runs, Pending, Yield, Await
<1>1. TypeOK' BY DEF TypeOK
<1>2. Others(r) BY DEF TypeOK, Others, Same
<1>3. CapStep BY <1>1 DEF TypeOK, CapStep, AtWork, Handed
<1>4. Handed(r)' BY DEF TypeOK, Handed, Kind, Ending
<1>5. Kind(r)' BY AnsweringAssumption DEF TypeOK, Kind
<1>6. Working(r)' BY DEF TypeOK, Working
<1>7. Ending(r)' BY DEF TypeOK, Ending, Handed
<1>8. Logged(r)' BY DEF TypeOK, Logged, Ending, Handed
<1>9. Counted(r)' BY DEF TypeOK, Counted, Ending, Handed
<1>10. Position(r)' BY DEF TypeOK, Position, Latest, Handed, Working
<1>11. After(r)' BY FollowsIs DEF TypeOK, After, Position, Latest, Handed
<1>12. QED BY <1>1, <1>2, <1>3, <1>4, <1>5, <1>6, <1>7, <1>8, <1>9, <1>10, <1>11

(* The answer is logged, or cannot be. *)
LEMMA LogAnswerStep ==
  ASSUME TypeOK, NEW r \in Requests, Local(r), LogAnswer(r)
  PROVE  TypeOK' /\ Others(r) /\ CapStep /\ Local(r)'
<1> USE DEF Local, LogAnswer, Runs, Pending, Yield, Log, NoLog
<1>1. TypeOK' BY DEF TypeOK
<1>2. Others(r) BY DEF TypeOK, Others, Same
<1>3. CapStep BY <1>1 DEF TypeOK, CapStep, AtWork, Handed
<1>4. Handed(r)' BY DEF TypeOK, Handed, Kind, Ending
<1>5. Kind(r)' BY AnsweringAssumption DEF TypeOK, Kind
<1>6. Working(r)' BY DEF TypeOK, Working
<1>7. Ending(r)' BY DEF TypeOK, Ending, Handed
<1>8. Logged(r)' BY DEF TypeOK, Logged, Ending, Handed
<1>9. Counted(r)' BY DEF TypeOK, Counted, Ending, Handed
<1>10. Position(r)' BY DEF TypeOK, Position, Latest, Handed, Working
<1>11. After(r)' BY FollowsIs DEF TypeOK, After, Position, Latest, Handed
<1>12. QED BY <1>1, <1>2, <1>3, <1>4, <1>5, <1>6, <1>7, <1>8, <1>9, <1>10, <1>11

(* The retrieval gets to reranking. *)
LEMMA RetrievedStep ==
  ASSUME TypeOK, NEW r \in Requests, Local(r), Retrieved(r)
  PROVE  TypeOK' /\ Others(r) /\ CapStep /\ Local(r)'
<1> USE DEF Local, Retrieved
<1>1. TypeOK' BY DEF TypeOK
<1>2. Others(r) BY DEF TypeOK, Others, Same
<1>3. CapStep BY <1>1 DEF TypeOK, CapStep, AtWork, Handed
<1>4. Handed(r)' BY DEF TypeOK, Handed, Kind, Ending
<1>5. Kind(r)' BY AnsweringAssumption DEF TypeOK, Kind
<1>6. Working(r)' BY DEF TypeOK, Working
<1>7. Ending(r)' BY DEF TypeOK, Ending, Handed
<1>8. Logged(r)' BY DEF TypeOK, Logged, Ending, Handed
<1>9. Counted(r)' BY DEF TypeOK, Counted, Ending, Handed
<1>10. Position(r)' BY DEF TypeOK, Position, Latest, Handed, Working
<1>11. After(r)' BY FollowsIs DEF TypeOK, After, Position, Latest, Handed
<1>12. QED BY <1>1, <1>2, <1>3, <1>4, <1>5, <1>6, <1>7, <1>8, <1>9, <1>10, <1>11

(* The retrieval has its result. *)
LEMMA RerankedStep ==
  ASSUME TypeOK, NEW r \in Requests, Local(r), Reranked(r)
  PROVE  TypeOK' /\ Others(r) /\ CapStep /\ Local(r)'
<1> USE DEF Local, Reranked
<1>1. TypeOK' BY DEF TypeOK
<1>2. Others(r) BY DEF TypeOK, Others, Same
<1>3. CapStep BY <1>1 DEF TypeOK, CapStep, AtWork, Handed
<1>4. Handed(r)' BY DEF TypeOK, Handed, Kind, Ending
<1>5. Kind(r)' BY AnsweringAssumption DEF TypeOK, Kind
<1>6. Working(r)' BY DEF TypeOK, Working
<1>7. Ending(r)' BY DEF TypeOK, Ending, Handed
<1>8. Logged(r)' BY DEF TypeOK, Logged, Ending, Handed
<1>9. Counted(r)' BY DEF TypeOK, Counted, Ending, Handed
<1>10. Position(r)' BY DEF TypeOK, Position, Latest, Handed, Working
<1>11. After(r)' BY FollowsIs DEF TypeOK, After, Position, Latest, Handed
<1>12. QED BY <1>1, <1>2, <1>3, <1>4, <1>5, <1>6, <1>7, <1>8, <1>9, <1>10, <1>11

(* The retrieval fails. *)
LEMMA PrepareFailsStep ==
  ASSUME TypeOK, NEW r \in Requests, Local(r), PrepareFails(r)
  PROVE  TypeOK' /\ Others(r) /\ CapStep /\ Local(r)'
<1> USE DEF Local, PrepareFails
<1>1. TypeOK' BY DEF TypeOK
<1>2. Others(r) BY DEF TypeOK, Others, Same
<1>3. CapStep BY <1>1 DEF TypeOK, CapStep, AtWork, Handed
<1>4. Handed(r)' BY DEF TypeOK, Handed, Kind, Ending
<1>5. Kind(r)' BY AnsweringAssumption DEF TypeOK, Kind
<1>6. Working(r)' BY DEF TypeOK, Working
<1>7. Ending(r)' BY DEF TypeOK, Ending, Handed
<1>8. Logged(r)' BY DEF TypeOK, Logged, Ending, Handed
<1>9. Counted(r)' BY DEF TypeOK, Counted, Ending, Handed
<1>10. Position(r)' BY DEF TypeOK, Position, Latest, Handed, Working
<1>11. After(r)' BY FollowsIs DEF TypeOK, After, Position, Latest, Handed
<1>12. QED BY <1>1, <1>2, <1>3, <1>4, <1>5, <1>6, <1>7, <1>8, <1>9, <1>10, <1>11

(* The consumer takes what was yielded. *)
LEMMA CollectStep ==
  ASSUME TypeOK, NEW r \in Requests, Local(r), Collect(r)
  PROVE  TypeOK' /\ Others(r) /\ CapStep /\ Local(r)'
<1> USE DEF Local, Collect
<1>1. TypeOK' BY DEF TypeOK
<1>2. Others(r) BY DEF TypeOK, Others, Same
<1>3. CapStep BY <1>1 DEF TypeOK, CapStep, AtWork, Handed
<1>4. Handed(r)' BY DEF TypeOK, Handed, Kind, Ending
<1>5. Kind(r)' BY AnsweringAssumption DEF TypeOK, Kind
<1>6. Working(r)' BY DEF TypeOK, Working
<1>7. Ending(r)' BY DEF TypeOK, Ending, Handed
<1>8. Logged(r)' BY DEF TypeOK, Logged, Ending, Handed
<1>9. Counted(r)' BY DEF TypeOK, Counted, Ending, Handed
<1>10. Position(r)' BY DEF TypeOK, Position, Latest, Handed, Working
<1>11. After(r)' BY FollowsIs DEF TypeOK, After, Position, Latest, Handed
<1>12. QED BY <1>1, <1>2, <1>3, <1>4, <1>5, <1>6, <1>7, <1>8, <1>9, <1>10, <1>11

(* The consumer takes a heartbeat instead. *)
LEMMA HeartbeatStep ==
  ASSUME TypeOK, NEW r \in Requests, Local(r), Heartbeat(r)
  PROVE  TypeOK' /\ Others(r) /\ CapStep /\ Local(r)'
<1> USE DEF Local, Heartbeat
<1>1. TypeOK' BY DEF TypeOK
<1>2. Others(r) BY DEF TypeOK, Others, Same
<1>3. CapStep BY <1>1 DEF TypeOK, CapStep, AtWork, Handed
<1>4. Handed(r)' BY DEF TypeOK, Handed, Kind, Ending
<1>5. Kind(r)' BY AnsweringAssumption DEF TypeOK, Kind
<1>6. Working(r)' BY DEF TypeOK, Working
<1>7. Ending(r)' BY DEF TypeOK, Ending, Handed
<1>8. Logged(r)' BY DEF TypeOK, Logged, Ending, Handed
<1>9. Counted(r)' BY DEF TypeOK, Counted, Ending, Handed
<1>10. Position(r)' BY DEF TypeOK, Position, Latest, Handed, Working
<1>11. After(r)' BY FollowsIs DEF TypeOK, After, Position, Latest, Handed
<1>12. QED BY <1>1, <1>2, <1>3, <1>4, <1>5, <1>6, <1>7, <1>8, <1>9, <1>10, <1>11

(* The consumer looks whether the client is there. *)
LEMMA CheckStep ==
  ASSUME TypeOK, NEW r \in Requests, Local(r), Check(r)
  PROVE  TypeOK' /\ Others(r) /\ CapStep /\ Local(r)'
<1> USE DEF Local, Check, Close, CloseGenerator, Log, NoLog, Pending
<1>1. TypeOK' BY DEF TypeOK
<1>2. Others(r) BY DEF TypeOK, Others, Same
<1>3. CapStep BY <1>1 DEF TypeOK, CapStep, AtWork, Handed
<1>4. Handed(r)' BY DEF TypeOK, Handed, Kind, Ending
<1>5. Kind(r)' BY AnsweringAssumption DEF TypeOK, Kind
<1>6. Working(r)' BY DEF TypeOK, Working
<1>7. Ending(r)' BY DEF TypeOK, Ending, Handed
<1>8. Logged(r)' BY DEF TypeOK, Logged, Ending, Handed
<1>9. Counted(r)' BY DEF TypeOK, Counted, Ending, Handed
<1>10. Position(r)' BY DEF TypeOK, Position, Latest, Handed, Working
<1>11. After(r)' BY FollowsIs DEF TypeOK, After, Position, Latest, Handed
<1>12. QED BY <1>1, <1>2, <1>3, <1>4, <1>5, <1>6, <1>7, <1>8, <1>9, <1>10, <1>11

(* What is in hand is sent. *)
LEMMA SendStep ==
  ASSUME TypeOK, NEW r \in Requests, Local(r), Send(r)
  PROVE  TypeOK' /\ Others(r) /\ CapStep /\ Local(r)'
<1> USE DEF Local, Send
<1>1. TypeOK' BY DEF TypeOK
<1>2. Others(r) BY DEF TypeOK, Others, Same
<1>3. CapStep BY <1>1 DEF TypeOK, CapStep, AtWork, Handed
<1>4. Handed(r)' BY DEF TypeOK, Handed, Kind, Ending
<1>5. Kind(r)' BY AnsweringAssumption DEF TypeOK, Kind
<1>6. Working(r)' BY DEF TypeOK, Working
<1>7. Ending(r)' BY DEF TypeOK, Ending, Handed
<1>8. Logged(r)' BY DEF TypeOK, Logged, Ending, Handed
<1>9. Counted(r)' BY DEF TypeOK, Counted, Ending, Handed
<1>10. Position(r)' BY DEF TypeOK, Position, Latest, Handed, Working
<1>11. After(r)' BY FollowsIs DEF TypeOK, After, Position, Latest, Handed
<1>12. QED BY <1>1, <1>2, <1>3, <1>4, <1>5, <1>6, <1>7, <1>8, <1>9, <1>10, <1>11

(* The response ends. *)
LEMMA FinishStep ==
  ASSUME TypeOK, NEW r \in Requests, Local(r), Finish(r)
  PROVE  TypeOK' /\ Others(r) /\ CapStep /\ Local(r)'
<1> USE DEF Local, Finish
<1>1. TypeOK' BY DEF TypeOK
<1>2. Others(r) BY DEF TypeOK, Others, Same
<1>3. CapStep BY <1>1 DEF TypeOK, CapStep, AtWork, Handed
<1>4. Handed(r)' BY DEF TypeOK, Handed, Kind, Ending
<1>5. Kind(r)' BY AnsweringAssumption DEF TypeOK, Kind
<1>6. Working(r)' BY DEF TypeOK, Working
<1>7. Ending(r)' BY DEF TypeOK, Ending, Handed
<1>8. Logged(r)' BY DEF TypeOK, Logged, Ending, Handed
<1>9. Counted(r)' BY DEF TypeOK, Counted, Ending, Handed
<1>10. Position(r)' BY DEF TypeOK, Position, Latest, Handed, Working
<1>11. After(r)' BY FollowsIs DEF TypeOK, After, Position, Latest, Handed
<1>12. QED BY <1>1, <1>2, <1>3, <1>4, <1>5, <1>6, <1>7, <1>8, <1>9, <1>10, <1>11

(* The framework cancels the response. *)
LEMMA AbortStep ==
  ASSUME TypeOK, NEW r \in Requests, Local(r), Abort(r)
  PROVE  TypeOK' /\ Others(r) /\ CapStep /\ Local(r)'
<1> USE DEF Local, Abort, Close, CloseGenerator, Log, NoLog, Pending
<1>1. TypeOK' BY DEF TypeOK
<1>2. Others(r) BY DEF TypeOK, Others, Same
<1>3. CapStep BY <1>1 DEF TypeOK, CapStep, AtWork, Handed
<1>4. Handed(r)' BY DEF TypeOK, Handed, Kind, Ending
<1>5. Kind(r)' BY AnsweringAssumption DEF TypeOK, Kind
<1>6. Working(r)' BY DEF TypeOK, Working
<1>7. Ending(r)' BY DEF TypeOK, Ending, Handed
<1>8. Logged(r)' BY DEF TypeOK, Logged, Ending, Handed
<1>9. Counted(r)' BY DEF TypeOK, Counted, Ending, Handed
<1>10. Position(r)' BY DEF TypeOK, Position, Latest, Handed, Working
<1>11. After(r)' BY FollowsIs DEF TypeOK, After, Position, Latest, Handed
<1>12. QED BY <1>1, <1>2, <1>3, <1>4, <1>5, <1>6, <1>7, <1>8, <1>9, <1>10, <1>11

(* A plain request has its sources, or fails. *)
LEMMA PlainPreparedStep ==
  ASSUME TypeOK, NEW r \in Requests, Local(r), PlainPrepared(r)
  PROVE  TypeOK' /\ Others(r) /\ CapStep /\ Local(r)'
<1> USE DEF Local, PlainPrepared, PlainRuns, Respond
<1>1. TypeOK' BY DEF TypeOK
<1>2. Others(r) BY DEF TypeOK, Others, Same
<1>3. CapStep BY <1>1 DEF TypeOK, CapStep, AtWork, Handed
<1>4. Handed(r)' BY DEF TypeOK, Handed, Kind, Ending
<1>5. Kind(r)' BY AnsweringAssumption DEF TypeOK, Kind
<1>6. Working(r)' BY AnsweringAssumption DEF TypeOK, Working
<1>7. Ending(r)' BY AnsweringAssumption DEF TypeOK, Ending, Handed, Kind
<1>8. Logged(r)' BY DEF TypeOK, Logged, Ending, Handed
<1>9. Counted(r)' BY DEF TypeOK, Counted, Ending, Handed
<1>10. Position(r)' BY DEF TypeOK, Position, Latest, Handed, Working
<1>11. After(r)' BY FollowsIs DEF TypeOK, After, Position, Latest, Handed
<1>12. QED BY <1>1, <1>2, <1>3, <1>4, <1>5, <1>6, <1>7, <1>8, <1>9, <1>10, <1>11

(* It calls the model. *)
LEMMA PlainCallStep ==
  ASSUME TypeOK, NEW r \in Requests, Local(r), PlainCall(r)
  PROVE  TypeOK' /\ Others(r) /\ CapStep /\ Local(r)'
<1> USE DEF Local, PlainCall, PlainRuns
<1>1. TypeOK' BY DEF TypeOK
<1>2. Others(r) BY DEF TypeOK, Others, Same
<1>3. CapStep BY <1>1 DEF TypeOK, CapStep, AtWork, Handed
<1>4. Handed(r)' BY DEF TypeOK, Handed, Kind, Ending
<1>5. Kind(r)' BY AnsweringAssumption DEF TypeOK, Kind
<1>6. Working(r)' BY AnsweringAssumption DEF TypeOK, Working
<1>7. Ending(r)' BY AnsweringAssumption DEF TypeOK, Ending, Handed, Kind
<1>8. Logged(r)' BY DEF TypeOK, Logged, Ending, Handed
<1>9. Counted(r)' BY DEF TypeOK, Counted, Ending, Handed
<1>10. Position(r)' BY DEF TypeOK, Position, Latest, Handed, Working
<1>11. After(r)' BY FollowsIs DEF TypeOK, After, Position, Latest, Handed
<1>12. QED BY <1>1, <1>2, <1>3, <1>4, <1>5, <1>6, <1>7, <1>8, <1>9, <1>10, <1>11

(* The model answered it, or failed. *)
LEMMA PlainCompletedStep ==
  ASSUME TypeOK, NEW r \in Requests, Local(r), PlainCompleted(r)
  PROVE  TypeOK' /\ Others(r) /\ CapStep /\ Local(r)'
<1> USE DEF Local, PlainCompleted, PlainRuns, Respond
<1>1. TypeOK' BY DEF TypeOK
<1>2. Others(r) BY DEF TypeOK, Others, Same
<1>3. CapStep BY <1>1 DEF TypeOK, CapStep, AtWork, Handed
<1>4. Handed(r)' BY DEF TypeOK, Handed, Kind, Ending
<1>5. Kind(r)' BY AnsweringAssumption DEF TypeOK, Kind
<1>6. Working(r)' BY AnsweringAssumption DEF TypeOK, Working
<1>7. Ending(r)' BY AnsweringAssumption DEF TypeOK, Ending, Handed, Kind
<1>8. Logged(r)' BY DEF TypeOK, Logged, Ending, Handed
<1>9. Counted(r)' BY DEF TypeOK, Counted, Ending, Handed
<1>10. Position(r)' BY DEF TypeOK, Position, Latest, Handed, Working
<1>11. After(r)' BY FollowsIs DEF TypeOK, After, Position, Latest, Handed
<1>12. QED BY <1>1, <1>2, <1>3, <1>4, <1>5, <1>6, <1>7, <1>8, <1>9, <1>10, <1>11

(* It is logged and answered, or fails. *)
LEMMA PlainLogStep ==
  ASSUME TypeOK, NEW r \in Requests, Local(r), PlainLog(r)
  PROVE  TypeOK' /\ Others(r) /\ CapStep /\ Local(r)'
<1> USE DEF Local, PlainLog, PlainRuns, Respond, Log, NoLog
<1>1. TypeOK' BY DEF TypeOK
<1>2. Others(r) BY DEF TypeOK, Others, Same
<1>3. CapStep BY <1>1 DEF TypeOK, CapStep, AtWork, Handed
<1>4. Handed(r)' BY DEF TypeOK, Handed, Kind, Ending
<1>5. Kind(r)' BY AnsweringAssumption DEF TypeOK, Kind
<1>6. Working(r)' BY AnsweringAssumption DEF TypeOK, Working
<1>7. Ending(r)' BY AnsweringAssumption DEF TypeOK, Ending, Handed, Kind
<1>8. Logged(r)' BY DEF TypeOK, Logged, Ending, Handed
<1>9. Counted(r)' BY DEF TypeOK, Counted, Ending, Handed
<1>10. Position(r)' BY DEF TypeOK, Position, Latest, Handed, Working
<1>11. After(r)' BY FollowsIs DEF TypeOK, After, Position, Latest, Handed
<1>12. QED BY <1>1, <1>2, <1>3, <1>4, <1>5, <1>6, <1>7, <1>8, <1>9, <1>10, <1>11

(* The client goes away. *)
LEMMA DisconnectStep ==
  ASSUME TypeOK, NEW r \in Requests, Local(r), Disconnect(r)
  PROVE  TypeOK' /\ Others(r) /\ CapStep /\ Local(r)'
<1> USE DEF Local, Disconnect
<1>1. TypeOK' BY DEF TypeOK
<1>2. Others(r) BY DEF TypeOK, Others, Same
<1>3. CapStep BY <1>1 DEF TypeOK, CapStep, AtWork, Handed
<1>4. Handed(r)' BY DEF TypeOK, Handed, Kind, Ending
<1>5. Kind(r)' BY AnsweringAssumption DEF TypeOK, Kind
<1>6. Working(r)' BY DEF TypeOK, Working
<1>7. Ending(r)' BY DEF TypeOK, Ending, Handed
<1>8. Logged(r)' BY DEF TypeOK, Logged, Ending, Handed
<1>9. Counted(r)' BY DEF TypeOK, Counted, Ending, Handed
<1>10. Position(r)' BY DEF TypeOK, Position, Latest, Handed, Working
<1>11. After(r)' BY FollowsIs DEF TypeOK, After, Position, Latest, Handed
<1>12. QED BY <1>1, <1>2, <1>3, <1>4, <1>5, <1>6, <1>7, <1>8, <1>9, <1>10, <1>11

(* The steps of one request, but for the question itself. *)
RequestStep(r) ==
  \/ OverBudget(r) \/ Generate(r) \/ Prepare(r) \/ Consume(r) \/ Abort(r)
  \/ AnswerAtOnce(r) \/ Disconnect(r)

LEMMA RequestKeeps ==
  ASSUME TypeOK, NEW r \in Requests, Local(r), RequestStep(r)
  PROVE  TypeOK' /\ Others(r) /\ CapStep /\ Local(r)'
<1>1. CASE Generate(r)
  BY <1>1, BeginStep, StartPreparingStep, ReportRerankStep, PreparedStep, AbstainStep,
     AbstentionTokenStep, AbstentionDoneStep, ReportGeneratingStep, CallStep, TokenStep,
     EndOfAnswerStep, LogAnswerStep DEF Generate
<1>2. CASE Prepare(r) BY <1>2, RetrievedStep, RerankedStep, PrepareFailsStep DEF Prepare
<1>3. CASE Consume(r)
  BY <1>3, CollectStep, HeartbeatStep, CheckStep, SendStep, FinishStep DEF Consume
<1>4. CASE AnswerAtOnce(r)
  BY <1>4, PlainPreparedStep, PlainCallStep, PlainCompletedStep, PlainLogStep
     DEF AnswerAtOnce
<1>5. QED
  BY <1>1, <1>2, <1>3, <1>4, OverBudgetStep, AbortStep, DisconnectStep DEF RequestStep

(* A question that is let in. *)
LEMMA AskStep ==
  ASSUME TypeOK, NEW r \in Requests, Local(r), Ask(r)
  PROVE  TypeOK' /\ Others(r) /\ Local(r)'
<1> USE DEF Local, Ask
<1>1. peak' \in Nat
  <2>1. IsFiniteSet(AtWork) BY AnsweringAssumption, FS_Subset DEF AtWork
  <2>2. Cardinality(AtWork) \in Nat BY <2>1, FS_CardinalityType
  <2>3. QED BY <2>2 DEF TypeOK
<1>2. TypeOK' BY <1>1 DEF TypeOK
<1>3. Others(r) BY DEF TypeOK, Others, Same
<1>4. Handed(r)' BY DEF TypeOK, Handed
<1>5. Kind(r)' BY AnsweringAssumption DEF TypeOK, Kind
<1>6. Working(r)' BY AnsweringAssumption DEF TypeOK, Working, Handed
<1>7. Ending(r)' BY DEF TypeOK, Ending, Handed
<1>8. Logged(r)' BY DEF TypeOK, Logged, Ending, Handed
<1>9. Counted(r)' BY DEF TypeOK, Counted, Ending, Handed
<1>10. Position(r)' BY DEF TypeOK, Position, Latest, Handed
<1>11. After(r)' BY FollowsIs DEF TypeOK, After, Position, Latest, Handed
<1>12. QED BY <1>2, <1>3, <1>4, <1>5, <1>6, <1>7, <1>8, <1>9, <1>10, <1>11

(* The process dies. *)
LEMMA CrashStep ==
  ASSUME TypeOK, \A r \in Requests : Local(r), Crash
  PROVE  TypeOK' /\ CapStep /\ \A r \in Requests : Local(r)'
<1>1. TypeOK' BY AnsweringAssumption DEF TypeOK, Crash
<1>2. CapStep BY <1>1 DEF TypeOK, CapStep, AtWork, Crash
<1>3. ASSUME NEW r \in Requests PROVE Local(r)'
  <2>1. /\ gen'[r] = IF consumer[r] \in Open THEN "end" ELSE gen[r]
        /\ prep'[r] = IF prep[r] \in Running THEN "cancelled" ELSE prep[r]
        /\ llm'[r] = IF llm[r] = "open" THEN "closed" ELSE llm[r]
        /\ slot'[r] = "none" /\ holding'[r] = "none"
        /\ consumer'[r] = IF consumer[r] \in Open THEN "closed" ELSE consumer[r]
        /\ connected'[r] = (connected[r] /\ consumer[r] \notin Open)
        /\ UNCHANGED <<reranking, tokens, last, got, rows>>
    BY DEF Crash, AtWork, TypeOK
  <2>2. Local(r) OBVIOUS
  <2>3. Handed(r)' BY <2>1, <2>2 DEF Local, Handed
  <2>4. Kind(r)' BY <2>1, <2>2 DEF Local, Kind
  <2>5. Working(r)' BY <2>1, <2>2 DEF Local, Working
  <2>6. Ending(r)' BY <2>1, <2>2 DEF Local, Ending
  <2>7. Logged(r)' BY <2>1, <2>2 DEF Local, Logged
  <2>8. Counted(r)' BY <2>1, <2>2 DEF Local, Counted, Handed, Ending
  <2>9. Position(r)'
    <3>1. CASE ~connected'[r] BY <3>1 DEF Position
    <3>2. CASE connected'[r]
      <4>1. consumer[r] \notin Open /\ connected[r] BY <2>1, <3>2
      <4>2. slot'[r] = slot[r] /\ holding'[r] = holding[r] /\ gen'[r] = gen[r]
            /\ gen[r] \in {"idle", "end"}
        BY <2>1, <2>2, <4>1 DEF Local, Handed, TypeOK
      <4>3. Latest(r)' = Latest(r) BY <2>1, <4>2 DEF Latest
      <4>4. QED BY <2>2, <4>1, <4>2, <4>3 DEF Local, Position
    <3>3. QED BY <3>1, <3>2
  <2>10. After(r)' BY <2>1 DEF After
  <2>11. QED BY <2>3, <2>4, <2>5, <2>6, <2>7, <2>8, <2>9, <2>10 DEF Local
<1>4. QED BY <1>1, <1>2, <1>3

(* Midnight. *)
LEMMA MidnightStep ==
  ASSUME TypeOK, \A r \in Requests : Local(r), Midnight
  PROVE  TypeOK' /\ CapStep /\ \A r \in Requests : Local(r)'
<1>1. TypeOK' BY AnsweringAssumption DEF TypeOK, Midnight
<1>2. CapStep BY DEF CapStep, AtWork, Midnight
<1>3. \A r \in Requests : Same(r) BY DEF Same, Midnight
<1>4. QED BY <1>1, <1>2, <1>3, Frame

(* The cap is kept by whoever does not ask. *)
LEMMA CapKept == ASSUME TypeOK, TypeOK', Cap, CapStep PROVE Cap'
<1> SUFFICES ASSUME DailyLimit > 0
             PROVE  Cardinality(today' \cup AtWork') < DailyLimit + peak'
  BY DEF Cap
<1>1. IsFiniteSet(today \cup AtWork) BY AnsweringAssumption, FS_Subset DEF TypeOK, AtWork
<1>2. /\ IsFiniteSet(today' \cup AtWork')
      /\ Cardinality(today' \cup AtWork') <= Cardinality(today \cup AtWork)
  BY <1>1, FS_Subset DEF CapStep
<1>3. Cardinality(today' \cup AtWork') \in Nat /\ Cardinality(today \cup AtWork) \in Nat
  BY <1>1, <1>2, FS_CardinalityType
<1>4. QED BY <1>2, <1>3, AnsweringAssumption DEF Cap, CapStep, TypeOK

(* A question is let in below the limit only, and peak counts it.          *)
LEMMA CapAsked == ASSUME TypeOK, NEW r \in Requests, Ask(r) PROVE Cap'
<1> SUFFICES ASSUME DailyLimit > 0
             PROVE  Cardinality(today' \cup AtWork') < DailyLimit + peak'
  BY DEF Cap
<1>1. IsFiniteSet(today) /\ IsFiniteSet(AtWork)
  BY AnsweringAssumption, FS_Subset DEF TypeOK, AtWork
<1>2. AtWork' = AtWork \cup {r} /\ today' = today /\ r \notin AtWork
  BY DEF Ask, AtWork, TypeOK
<1>3. IsFiniteSet(AtWork') /\ Cardinality(AtWork') = Cardinality(AtWork) + 1
  BY <1>1, <1>2, FS_AddElement
<1>4. /\ Cardinality(today) \in Nat /\ Cardinality(AtWork) \in Nat
      /\ Cardinality(AtWork') \in Nat
  BY <1>1, <1>3, FS_CardinalityType
<1>5. peak' \in Nat /\ Cardinality(AtWork) + 1 <= peak'
  BY <1>4 DEF Ask, TypeOK
<1>6. Cardinality(today) < DailyLimit
  BY AnsweringAssumption DEF Ask, WithinBudget
<1>7. /\ Cardinality(today' \cup AtWork') <= Cardinality(today) + Cardinality(AtWork')
      /\ Cardinality(today' \cup AtWork') \in Nat
  <2>1. IsFiniteSet(today' \cup AtWork') BY <1>1, <1>2, <1>3, FS_Union
  <2>2. Cardinality(today \cup AtWork')
          = Cardinality(today) + Cardinality(AtWork') - Cardinality(today \cap AtWork')
    BY <1>1, <1>3, FS_Union
  <2>3. Cardinality(today \cap AtWork') \in Nat
    BY <1>1, FS_Intersection, FS_CardinalityType
  <2>4. QED BY <2>1, <2>2, <2>3, <1>2, <1>4, FS_CardinalityType
<1>8. QED BY <1>3, <1>4, <1>5, <1>6, <1>7, AnsweringAssumption

(* Every step keeps the invariant. *)
LEMMA NextInv == Inv /\ [Next]_vars => Inv'
<1> SUFFICES ASSUME Inv, [Next]_vars PROVE Inv' OBVIOUS
<1>1. TypeOK /\ (\A r \in Requests : Local(r)) /\ Cap BY DEF Inv
<1>2. ASSUME NEW r \in Requests, RequestStep(r) PROVE Inv'
  <2>1. TypeOK' /\ Others(r) /\ CapStep /\ Local(r)' BY <1>1, <1>2, RequestKeeps
  <2>2. \A q \in Requests \ {r} : Local(q)' BY <1>1, <2>1, Frame DEF Others
  <2>3. Cap' BY <1>1, <2>1, CapKept
  <2>4. QED BY <2>1, <2>2, <2>3 DEF Inv
<1>3. ASSUME NEW r \in Requests, Ask(r) PROVE Inv'
  <2>1. TypeOK' /\ Others(r) /\ Local(r)' BY <1>1, <1>3, AskStep
  <2>2. \A q \in Requests \ {r} : Local(q)' BY <1>1, <2>1, Frame DEF Others
  <2>3. Cap' BY <1>1, <1>3, CapAsked
  <2>4. QED BY <2>1, <2>2, <2>3 DEF Inv
<1>4. CASE Midnight BY <1>1, <1>4, MidnightStep, CapKept DEF Inv
<1>5. CASE Crash BY <1>1, <1>5, CrashStep, CapKept DEF Inv
<1>6. CASE UNCHANGED vars
  <2>1. TypeOK' BY <1>1, <1>6 DEF vars, TypeOK
  <2>2. \A r \in Requests : Same(r) BY <1>6 DEF vars, Same
  <2>3. CapStep BY <1>6 DEF vars, CapStep, AtWork
  <2>4. QED BY <1>1, <2>1, <2>2, <2>3, Frame, CapKept DEF Inv
<1>7. QED BY <1>2, <1>3, <1>4, <1>5, <1>6 DEF Next, RequestStep

(* It holds always. *)
LEMMA SpecInv == Spec => []Inv
BY InitInv, NextInv, PTL DEF Spec

-----------------------------------------------------------------------------
(* The types of the state. *)
THEOREM TypeCorrect == Spec => []TypeOK
<1>1. Inv => TypeOK BY DEF Inv
<1>2. QED BY SpecInv, <1>1, PTL

(* A response that is over, to a client that is still there, ended with    *)
(* done or error, whatever failed and however many heartbeats were sent.   *)
THEOREM ResponsesEndWithOutcome == Spec => []EndsWithOutcome
<1>1. Inv => EndsWithOutcome
  <2> SUFFICES ASSUME Inv, NEW r \in Requests, consumer[r] = "finished", connected[r]
               PROVE  last[r] \in Terminal
    BY DEF EndsWithOutcome
  <2>1. Handed(r) /\ Position(r) BY DEF Inv, Local
  <2>2. QED BY <2>1 DEF Handed, Position, Latest
<1>2. QED BY SpecInv, <1>1, PTL

(* A client that received done received every token of the answer.         *)
THEOREM AnswersAreComplete == Spec => []DoneIsComplete
<1>1. Inv => DoneIsComplete
  <2> SUFFICES ASSUME Inv, NEW r \in Streams, last[r] = "done"
               PROVE  got[r] = tokens[r]
    BY DEF DoneIsComplete
  <2>1. r \in Requests /\ Ending(r) /\ Counted(r) BY DEF Inv, Local
  <2>2. got[r] \in Nat BY <2>1 DEF Inv, TypeOK
  <2>3. QED BY <2>1, <2>2 DEF Ending, Counted
<1>2. QED BY SpecInv, <1>1, PTL

(* Neither retrieval nor model works on for a stream that is over.         *)
THEOREM NobodyIsServedInVain == Spec => []NothingRunsForNobody
<1>1. Inv => NothingRunsForNobody
  <2> SUFFICES ASSUME Inv, NEW r \in Streams, consumer[r] \in {"closed", "finished"}
               PROVE  prep[r] \notin Running /\ llm[r] # "open"
    BY DEF NothingRunsForNobody
  <2>1. Handed(r) /\ Working(r) BY DEF Inv, Local
  <2>2. QED BY <2>1 DEF Handed, Working
<1>2. QED BY SpecInv, <1>1, PTL

(* The daily cap is overshot by those at work at once only.                *)
THEOREM CapIsSoft == Spec => []SoftCap
<1>1. Inv => SoftCap
  <2> SUFFICES ASSUME Inv, DailyLimit > 0 PROVE Cardinality(today) < DailyLimit + peak
    BY DEF SoftCap
  <2>1. IsFiniteSet(today \cup AtWork)
    BY AnsweringAssumption, FS_Subset DEF Inv, TypeOK, AtWork
  <2>2. /\ IsFiniteSet(today)
        /\ Cardinality(today) <= Cardinality(today \cup AtWork)
    BY <2>1, FS_Subset
  <2>3. Cardinality(today) \in Nat /\ Cardinality(today \cup AtWork) \in Nat
    BY <2>1, <2>2, FS_CardinalityType
  <2>4. QED BY <2>2, <2>3, AnsweringAssumption DEF Inv, Cap, TypeOK
<1>2. QED BY SpecInv, <1>1, PTL

-----------------------------------------------------------------------------
(* The refinement. *)
LEMMA EventsFollow == DOMAIN Protocol!Follows = Events \cup {"none"}
BY DEF Protocol!Follows

(* A row is written before the client hears of the answer. *)
LEMMA LogRefines ==
  ASSUME NEW r \in Requests, Local(r), gen[r] \in Logging \cup {"plain_logging"},
         rows' = rows \cup {r}, last' = last
  PROVE  Protocol!Next
<1>1. r \notin rows /\ last[r] \notin Terminal BY DEF Local, Logged, Ending
<1>2. Protocol!Log(r) BY <1>1 DEF Protocol!Log
<1>3. QED BY <1>2 DEF Protocol!Next, Protocol!Requests

(* What is sent to a client that is there is what may follow. *)
LEMMA SendRefines ==
  ASSUME TypeOK, NEW r \in Requests, Local(r), Send(r)
  PROVE  Protocol!Next \/ UNCHANGED <<last, rows>>
<1>1. CASE ~connected[r] \/ holding[r] = "heartbeat"
  <2>1. last' = last BY <1>1 DEF Send, TypeOK
  <2>2. QED BY <2>1 DEF Send
<1>2. CASE connected[r] /\ holding[r] # "heartbeat"
  <2>1. holding[r] \notin Silent BY <1>2 DEF Send, Local, Handed
  <2>2. r \in Streams /\ holding[r] \in Protocol!Follows[last[r]] /\ holding[r] \in Events
    BY <1>2, <2>1 DEF Local, Kind, After, TypeOK
  <2>3. /\ last' = [last EXCEPT ![r] = holding[r]] /\ rows' = rows
        /\ holding[r] = "done" => r \in rows
        /\ holding[r] = "error" => r \notin rows
    BY <1>2 DEF Send, Local, Logged
  <2>4. Protocol!Deliver(r, holding[r]) BY <2>2, <2>3 DEF Protocol!Deliver
  <2>5. QED BY <2>2, <2>3, <2>4, EventsFollow DEF Protocol!Next, Protocol!Requests
<1>3. QED BY <1>1, <1>2

(* A plain request is answered once, and logged at that moment. *)
LEMMA PlainRefines ==
  ASSUME TypeOK, NEW r \in Requests, Local(r), AnswerAtOnce(r)
  PROVE  Protocol!Next \/ UNCHANGED <<last, rows>>
<1>1. r \in Plain /\ r \notin Streams /\ r \notin rows /\ last[r] = "none"
      /\ gen[r] \in PlainLabels
  <2>1. r \in Plain /\ gen[r] \in PlainLabels
    BY DEF AnswerAtOnce, PlainPrepared, PlainCall, PlainCompleted, PlainLog, PlainRuns
  <2>2. QED BY <2>1, AnsweringAssumption DEF Local, Kind, Logged, Ending
<1>2. ASSUME NEW e \in Terminal, last' = [last EXCEPT ![r] = e],
             \/ e = "done" /\ rows' = rows \cup {r}
             \/ e = "error" /\ rows' = rows
      PROVE  Protocol!Next
  <2>1. Protocol!Deliver(r, e) BY <1>1, <1>2 DEF Protocol!Deliver
  <2>2. UNCHANGED rows \/ Protocol!Log(r) BY <1>1, <1>2 DEF Protocol!Log
  <2>3. QED BY <1>1, <2>1, <2>2, EventsFollow DEF Protocol!Next, Protocol!Requests
<1>3. ASSUME NEW e \in Terminal, Respond(r, e)
      PROVE  last' = last \/ last' = [last EXCEPT ![r] = e]
  BY <1>3 DEF Respond, TypeOK
<1>4. CASE PlainPrepared(r) BY <1>2, <1>3, <1>4 DEF PlainPrepared
<1>5. CASE PlainCall(r) BY <1>5 DEF PlainCall
<1>6. CASE PlainCompleted(r) BY <1>2, <1>3, <1>6 DEF PlainCompleted
<1>7. CASE PlainLog(r)
  <2>1. CASE Log(r) /\ Respond(r, "done")
    <3>1. CASE last' = last
      BY <1>7, <2>1, <3>1, LogRefines DEF PlainLog, PlainRuns, Log
    <3>2. CASE last' = [last EXCEPT ![r] = "done"] BY <2>1, <3>2, <1>2 DEF Log
    <3>3. QED BY <2>1, <3>1, <3>2, <1>3
  <2>2. CASE NoLog /\ Respond(r, "error") BY <2>2, <1>2, <1>3 DEF NoLog
  <2>3. QED BY <1>7, <2>1, <2>2 DEF PlainLog
<1>8. QED BY <1>4, <1>5, <1>6, <1>7 DEF AnswerAtOnce

(* The generator and its closing write rows, and nothing to the client. *)
LEMMA GenerateRefines ==
  ASSUME TypeOK, NEW r \in Requests, Local(r), Generate(r)
  PROVE  Protocol!Next \/ UNCHANGED <<last, rows>>
<1>1. CASE Abstain(r)
  BY <1>1, LogRefines DEF Abstain, Runs, Log, NoLog
<1>2. CASE LogAnswer(r)
  BY <1>2, LogRefines DEF LogAnswer, Runs, Log, NoLog
<1>3. QED
  BY <1>1, <1>2 DEF Generate, Begin, StartPreparing, ReportRerank, Prepared,
     AbstentionToken, AbstentionDone, ReportGenerating, Call, Token, EndOfAnswer

LEMMA CloseRefines ==
  ASSUME TypeOK, NEW r \in Requests, Local(r), Close(r)
  PROVE  Protocol!Next \/ UNCHANGED <<last, rows>>
BY LogRefines DEF Close, CloseGenerator, Log, NoLog

(* Every step is one of the protocol, or changes nothing of it. *)
LEMMA NextRefines ==
  ASSUME Inv, [Next]_vars PROVE Protocol!Next \/ UNCHANGED <<last, rows>>
<1>1. TypeOK /\ \A r \in Requests : Local(r) BY DEF Inv
<1>2. ASSUME NEW r \in Requests, Consume(r)
      PROVE  Protocol!Next \/ UNCHANGED <<last, rows>>
  <2>1. CASE Check(r) BY <1>1, <2>1, CloseRefines DEF Check
  <2>2. CASE Send(r) BY <1>1, <2>2, SendRefines
  <2>3. QED BY <1>2, <2>1, <2>2 DEF Consume, Collect, Heartbeat, Finish
<1>3. ASSUME NEW r \in Requests,
             OverBudget(r) \/ Ask(r) \/ Prepare(r) \/ Disconnect(r)
      PROVE  UNCHANGED <<last, rows>>
  BY <1>3 DEF OverBudget, Ask, Prepare, Retrieved, Reranked, PrepareFails, Disconnect
<1>4. ASSUME NEW r \in Requests, Abort(r)
      PROVE  Protocol!Next \/ UNCHANGED <<last, rows>>
  BY <1>1, <1>4, CloseRefines DEF Abort
<1>5. CASE Midnight \/ Crash \/ UNCHANGED vars BY <1>5 DEF Midnight, Crash, vars
<1>6. QED BY <1>1, <1>2, <1>3, <1>4, <1>5, GenerateRefines, PlainRefines DEF Next

(* The detailed model implements the protocol: whatever the clients see,   *)
(* and whatever is logged, is what AnswerProtocol allows.                  *)
THEOREM AnsweringImplementsProtocol == Spec => ImplementsProtocol
<1>1. Init => Protocol!Init BY DEF Init, Protocol!Init, Protocol!Requests
<1>2. Inv /\ [Next]_vars => [Protocol!Next]_(Protocol!vars)
  BY NextRefines DEF Protocol!vars
<1>3. QED BY SpecInv, <1>1, <1>2, PTL DEF Spec, ImplementsProtocol, Protocol!Spec
=============================================================================
