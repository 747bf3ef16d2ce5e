------------------------- MODULE ChatSessionProofs -------------------------
(***************************************************************************)
(* Proofs about ChatSession, for any number of requests, visits and logins.*)
(* The argument: the controller of a visit is always the request of the    *)
(* question it shows, and a request that runs unaborted is the controller  *)
(* of its visit.  Logins are numbered, and whatever carries one is no      *)
(* newer than the latest.                                                  *)
(***************************************************************************)
EXTENDS ChatSession, TLAPS

(* A request under way has a visit it belongs to. *)
Homed ==
  \A r \in Requests : phase[r] \in Live \cup {"closing"} => home[r] \in Visits

(* A question not yet asked is shown nowhere. *)
Fresh ==
  \A r \in Requests : phase[r] = "unused" =>
    ~aborted[r] /\ \A v \in Visits : asked[v] # r

Owned ==
  \A v \in Visits : controller[v] # None =>
    /\ home[controller[v]] = v /\ asked[v] = controller[v]
    /\ phase[controller[v]] \in Live \cup {"closing"}
    /\ ~aborted[controller[v]]

Waiting ==
  \A v \in Visits : status[v] = "streaming" =>
    controller[v] # None /\ phase[controller[v]] \in Live

Running ==
  \A r \in Requests : phase[r] \in Live /\ ~aborted[r] =>
    controller[home[r]] = r /\ status[home[r]] = "streaming"

Finished == \A v \in Visits : (status[v] = "done") = (validated[v] # None)

Numbered ==
  /\ session <= latest
  /\ \A r \in Requests : token[r] <= latest
  /\ \A n \in over \cup calls : n <= latest

Inv ==
  /\ TypeOK /\ Homed /\ Fresh /\ Owned /\ Waiting /\ Running
  /\ ShownIsOfTheQuestion /\ Finished

LoginInv == TypeOK /\ Numbered /\ RefusedSessionIsOver

USE RequestsAssumption, VisitsAssumption, LoginsAssumption DEF None, Live

-----------------------------------------------------------------------------
(* The initial states satisfy both invariants. *)
LEMMA InitInv == Init => Inv /\ LoginInv
BY DEF Init, Inv, LoginInv, TypeOK, Homed, Fresh, Owned, Waiting, Running, Finished,
       ShownIsOfTheQuestion, Numbered, RefusedSessionIsOver

(* Every action of the user keeps the types. *)
LEMMA UserTypes == TypeOK /\ User => TypeOK'
<1> SUFFICES ASSUME TypeOK, User PROVE TypeOK' OBVIOUS
<1> USE DEF TypeOK, request, shown, login, Token, TakeToken
<1>1. ASSUME NEW v \in Visits, OpenPage(v) PROVE TypeOK' BY <1>1 DEF OpenPage
<1>2. CASE LeavePage BY <1>2 DEF LeavePage
<1>3. CASE Cancel BY <1>3 DEF Cancel
<1>4. CASE Logout BY <1>4 DEF Logout
<1>5. CASE Call
  <2>1. Token \in Logins \cup {None} OBVIOUS
  <2> HIDE DEF Token
  <2>2. session' \in Logins \cup {None} /\ calls' \subseteq Logins \cup {None}
    BY <1>5, <2>1 DEF Call
  <2>3. QED BY <1>5, <2>2 DEF Call
<1>6. ASSUME NEW r \in Requests, Ask(r) PROVE TypeOK' BY <1>6 DEF Ask
<1>7. ASSUME NEW n \in Logins, Login(n) PROVE TypeOK' BY <1>7 DEF Login
<1>8. QED BY <1>1, <1>2, <1>3, <1>4, <1>5, <1>6, <1>7 DEF User

(* So does everything that is delivered of a request. *)
LEMMA DeliverTypes ==
  ASSUME TypeOK, NEW r \in Requests, Deliver(r), Homed PROVE TypeOK'
<1> USE DEF TypeOK, Homed, request, shown, login, Settled, Ended, Wrote, Ignored, SignOut
<1>1. CASE Connect(r) BY <1>1 DEF Connect
<1>2. CASE Refuse401(r)
  <2>1. over' \subseteq Logins /\ session' \in Logins \cup {None}
    BY ZenonT(60), <1>2 DEF Refuse401
  <2>2. home[r] \in Visits BY <1>2 DEF Refuse401
  <2>3. status' \in [Visits -> {"unused", "idle", "streaming", "done", "cancelled", "error"}]
        /\ wrote' \in [Visits -> SUBSET Requests]
    BY <1>2, <2>2 DEF Refuse401
  <2>4. QED BY <1>2, <2>1, <2>3 DEF Refuse401
<1>3. CASE Break(r) BY <1>3 DEF Break
<1>4. CASE End(r) BY <1>4 DEF End
<1>5. CASE Progress(r) BY <1>5 DEF Progress
<1>6. CASE Done(r) BY <1>6 DEF Done
<1>7. CASE Error(r) BY <1>7 DEF Error
<1>8. CASE Close(r) BY <1>8 DEF Close
<1>9. QED BY <1>1, <1>2, <1>3, <1>4, <1>5, <1>6, <1>7, <1>8 DEF Deliver

(* And so do the rest of the world's steps, and those that change nothing. *)
LEMMA OtherTypes ==
  ASSUME TypeOK,
         \/ \E n \in Logins : Lapse(n) \/ Revoke(n)
         \/ \E t \in Logins \cup {None} : Reply(t)
         \/ UNCHANGED vars
  PROVE  TypeOK'
BY ZenonT(60) DEF TypeOK, request, shown, login, vars, Lapse, Revoke, Reply, SignOut

(* A step of the protocol keeps the types. *)
LEMMA NextTypes == TypeOK /\ Homed /\ [Next]_vars => TypeOK'
BY UserTypes, DeliverTypes, OtherTypes DEF Next

-----------------------------------------------------------------------------
(* The structure of the session. *)
Structure ==
  Homed /\ Fresh /\ Owned /\ Waiting /\ Running /\ ShownIsOfTheQuestion /\ Finished

(* A question takes over the page from whatever request it had. *)
LEMMA AskStep ==
  ASSUME Inv, NEW r \in Requests, Ask(r) PROVE Structure'
<1>1. /\ page \in Visits /\ controller[page] # r /\ r # None
      /\ phase[r] = "unused" /\ ~aborted[r]
  BY DEF Inv, TypeOK, Ask, Owned, Fresh
<1>2. \A q \in Requests :
        /\ phase'[q] = IF q = r THEN "connecting" ELSE phase[q]
        /\ home'[q] = IF q = r THEN page ELSE home[q]
        /\ aborted'[q] = (aborted[q] \/ q = controller[page])
  BY DEF Inv, TypeOK, Ask
<1>3. \A v \in Visits :
        /\ controller'[v] = IF v = page THEN r ELSE controller[v]
        /\ status'[v] = IF v = page THEN "streaming" ELSE status[v]
        /\ asked'[v] = IF v = page THEN r ELSE asked[v]
        /\ wrote'[v] = IF v = page THEN {} ELSE wrote[v]
        /\ validated'[v] = IF v = page THEN None ELSE validated[v]
  BY DEF Inv, TypeOK, Ask
<1>4. \A v \in Visits : controller[v] \in Requests \cup {None}
  BY DEF Inv, TypeOK
<1>5. Homed' BY <1>1, <1>2 DEF Inv, Homed
<1>6. Fresh'
  <2> SUFFICES ASSUME NEW q \in Requests, phase'[q] = "unused"
               PROVE  ~aborted'[q] /\ \A v \in Visits : asked'[v] # q
    BY DEF Fresh
  <2>1. /\ q # r /\ phase[q] = "unused" /\ ~aborted[q]
        /\ \A v \in Visits : asked[v] # q
    BY <1>2 DEF Inv, Fresh
  <2>2. q # controller[page] BY <1>1, <2>1 DEF Inv, Owned
  <2>3. QED BY <1>2, <1>3, <2>1, <2>2
<1>7. Owned'
  <2> SUFFICES ASSUME NEW v \in Visits, controller'[v] # None
               PROVE  /\ home'[controller'[v]] = v /\ asked'[v] = controller'[v]
                      /\ phase'[controller'[v]] \in Live \cup {"closing"}
                      /\ ~aborted'[controller'[v]]
    BY DEF Owned
  <2>1. CASE v = page BY ZenonT(60), <2>1, <1>1, <1>2, <1>3
  <2>2. CASE v # page
    <3>1. controller'[v] = controller[v] /\ controller[v] \in Requests
      BY <2>2, <1>3, <1>4
    <3>2. /\ home[controller[v]] = v /\ asked[v] = controller[v]
          /\ phase[controller[v]] \in Live \cup {"closing"} /\ ~aborted[controller[v]]
      BY <3>1 DEF Inv, Owned
    <3>3. controller[v] # controller[page]
      BY <1>1, <2>2, <3>1, <3>2 DEF Inv, Owned
    <3>4. QED BY ZenonT(60), <1>1, <1>2, <1>3, <2>2, <3>1, <3>2, <3>3
  <2>3. QED BY <2>1, <2>2
<1>8. Waiting'
  <2> SUFFICES ASSUME NEW v \in Visits, status'[v] = "streaming"
               PROVE  controller'[v] # None /\ phase'[controller'[v]] \in Live
    BY DEF Waiting
  <2>1. CASE v = page BY <2>1, <1>1, <1>2, <1>3
  <2>2. CASE v # page
    <3>1. controller[v] # None /\ phase[controller[v]] \in Live
      BY <2>2, <1>3 DEF Inv, Waiting
    <3>2. QED BY ZenonT(60), <1>1, <1>2, <1>3, <1>4, <2>2, <3>1
  <2>3. QED BY <2>1, <2>2
<1>9. Running'
  <2> SUFFICES ASSUME NEW q \in Requests, phase'[q] \in Live, ~aborted'[q]
               PROVE  controller'[home'[q]] = q /\ status'[home'[q]] = "streaming"
    BY DEF Running
  <2>1. CASE q = r BY <2>1, <1>1, <1>2, <1>3
  <2>2. CASE q # r
    <3>1. phase[q] \in Live /\ ~aborted[q] /\ q # controller[page] /\ home'[q] = home[q]
      BY <2>2, <1>2
    <3>2. /\ home[q] \in Visits /\ controller[home[q]] = q
          /\ status[home[q]] = "streaming"
      BY <3>1 DEF Inv, Homed, Running
    <3>3. QED BY <1>3, <3>1, <3>2
  <2>3. QED BY <2>1, <2>2
<1>10. ShownIsOfTheQuestion' /\ Finished'
  BY <1>1, <1>3 DEF Inv, ShownIsOfTheQuestion, Finished
<1>11. QED BY <1>5, <1>6, <1>7, <1>8, <1>9, <1>10 DEF Structure

(* Cancelling aborts what the page waited for. *)
LEMMA CancelStep == ASSUME Inv, Cancel PROVE Structure'
<1> USE DEF Inv, TypeOK
<1>1. page \in Visits /\ controller[page] \in Requests
  BY DEF Cancel
<1>2. \A q \in Requests : aborted'[q] = (aborted[q] \/ q = controller[page])
  BY DEF Cancel
<1>3. Homed' /\ Fresh' BY <1>1, <1>2 DEF Cancel, Homed, Fresh, Owned
<1>4. Owned'
  <2> SUFFICES ASSUME NEW v \in Visits, controller'[v] # None
               PROVE  /\ home'[controller'[v]] = v /\ asked'[v] = controller'[v]
                      /\ phase'[controller'[v]] \in Live \cup {"closing"}
                      /\ ~aborted'[controller'[v]]
    BY DEF Owned
  <2>1. v # page /\ controller'[v] = controller[v] /\ controller[v] \in Requests
    BY <1>1 DEF Cancel
  <2>2. /\ home[controller[v]] = v /\ asked[v] = controller[v]
        /\ phase[controller[v]] \in Live \cup {"closing"} /\ ~aborted[controller[v]]
    BY <2>1 DEF Owned
  <2>3. controller[v] # controller[page] BY <1>1, <2>1, <2>2 DEF Owned
  <2>4. QED BY <1>2, <2>1, <2>2, <2>3 DEF Cancel
<1>5. Waiting' BY <1>1 DEF Cancel, Waiting
<1>6. Running' BY ZenonT(60), <1>1, <1>2 DEF Cancel, Running, Homed
<1>7. ShownIsOfTheQuestion' /\ Finished'
  BY <1>1 DEF Cancel, ShownIsOfTheQuestion, Finished
<1>8. QED BY <1>3, <1>4, <1>5, <1>6, <1>7 DEF Structure

(* A request that ends with an error, is over, or is ignored. *)
LEMMA SettleStep ==
  ASSUME Inv, NEW r \in Requests, phase[r] \in Live \cup {"closing"}, Settled(r),
         UNCHANGED <<asked, validated>>,
         \/ Current(r) /\ phase[r] \in Live /\ Ended(r, "error")
         \/ (phase[r] = "closing" \/ ~Current(r)) /\ UNCHANGED <<status, wrote>>
  PROVE  Structure'
<1> DEFINE h == home[r]
<1>1. h \in Visits /\ r # None BY DEF Inv, Homed
<1>2. /\ \A q \in Requests : q # r => /\ phase'[q] = phase[q] /\ aborted'[q] = aborted[q]
                                      /\ home'[q] = home[q]
      /\ phase'[r] = "settled" /\ ~aborted'[r]
  BY DEF Settled, Inv, TypeOK
<1>3. \A v \in Visits : /\ controller[v] \in Requests \cup {None}
                        /\ controller'[v] = IF v = h /\ controller[v] = r
                                            THEN None ELSE controller[v]
  BY DEF Settled, Inv, TypeOK
<1>4. \A v \in Visits : controller[v] = r => v = h
  BY <1>1 DEF Inv, Owned
<1>5. \A v \in Visits :
        \/ status'[v] = status[v] /\ wrote'[v] = wrote[v]
        \/ /\ v = h /\ Current(r) /\ phase[r] \in Live
           /\ status'[v] = "error" /\ wrote'[v] = wrote[v] \cup {r}
  BY <1>1 DEF Ended, Wrote, Inv, TypeOK
<1>6. asked' = asked /\ validated' = validated OBVIOUS
<1>7. status'[h] = "streaming" => controller[h] # r
  <2>1. CASE Current(r) /\ phase[r] \in Live /\ Ended(r, "error")
    BY <2>1, <1>1 DEF Ended, Inv, TypeOK
  <2>2. CASE (phase[r] = "closing" \/ ~Current(r)) /\ UNCHANGED <<status, wrote>>
    <3>1. CASE phase[r] = "closing" BY <3>1, <2>2, <1>1 DEF Inv, Waiting
    <3>2. CASE ~Current(r)
      <4>1. controller[h] # r \/ aborted[r] BY <3>2 DEF Current
      <4>2. controller[h] = r => ~aborted[r] BY <1>1 DEF Inv, Owned
      <4>3. QED BY <4>1, <4>2
    <3>3. QED BY <2>2, <3>1, <3>2
  <2>3. QED BY <2>1, <2>2
<1>8. Current(r) => controller[h] = r /\ ~aborted[r] BY DEF Current
<1> HIDE DEF h
<1>9. Homed'
  <2> SUFFICES ASSUME NEW q \in Requests, phase'[q] \in Live \cup {"closing"}
               PROVE  home'[q] \in Visits
    BY DEF Homed
  <2>1. QED BY <1>2 DEF Inv, Homed
<1>10. Fresh' BY <1>2, <1>6 DEF Inv, Fresh
<1>11. Owned'
  <2> SUFFICES ASSUME NEW v \in Visits, controller'[v] # None
               PROVE  /\ home'[controller'[v]] = v /\ asked'[v] = controller'[v]
                      /\ phase'[controller'[v]] \in Live \cup {"closing"}
                      /\ ~aborted'[controller'[v]]
    BY DEF Owned
  <2>1. controller'[v] = controller[v] /\ controller[v] \in Requests /\ controller[v] # r
    BY <1>3, <1>4
  <2>2. /\ home[controller[v]] = v /\ asked[v] = controller[v]
        /\ phase[controller[v]] \in Live \cup {"closing"} /\ ~aborted[controller[v]]
    BY <2>1 DEF Inv, Owned
  <2>3. QED BY <1>2, <1>6, <2>1, <2>2
<1>12. Waiting'
  <2> SUFFICES ASSUME NEW v \in Visits, status'[v] = "streaming"
               PROVE  controller'[v] # None /\ phase'[controller'[v]] \in Live
    BY DEF Waiting
  <2>1. controller[v] # r BY <1>4, <1>7
  <2>2. status[v] = "streaming" BY <1>5
  <2>3. controller[v] # None /\ phase[controller[v]] \in Live
    BY <2>2 DEF Inv, Waiting
  <2>4. QED BY <2>1, <2>3, <1>2, <1>3
<1>13. Running'
  <2> SUFFICES ASSUME NEW q \in Requests, phase'[q] \in Live, ~aborted'[q]
               PROVE  controller'[home'[q]] = q /\ status'[home'[q]] = "streaming"
    BY DEF Running
  <2>1. q # r /\ phase[q] \in Live /\ ~aborted[q] /\ home'[q] = home[q]
    BY <1>2
  <2>2. home[q] \in Visits /\ controller[home[q]] = q /\ status[home[q]] = "streaming"
    BY <2>1 DEF Inv, Homed, Running
  <2>3. status'[home[q]] = "streaming" BY <1>5, <1>8, <2>1, <2>2
  <2>4. QED BY <1>3, <2>1, <2>2, <2>3
<1>14. Current(r) /\ phase[r] \in Live => asked[h] = r /\ validated[h] = None
  <2> SUFFICES ASSUME Current(r), phase[r] \in Live
               PROVE  asked[h] = r /\ validated[h] = None
    OBVIOUS
  <2>1. controller[h] = r /\ ~aborted[r] BY <1>8
  <2>2. asked[h] = r BY <1>1, <2>1 DEF Inv, Owned
  <2>3. status[h] = "streaming" BY <2>1 DEF Inv, Running, h
  <2>4. QED BY <1>1, <2>2, <2>3 DEF Inv, Finished
<1>15. ShownIsOfTheQuestion'
  <2> SUFFICES ASSUME NEW v \in Visits
               PROVE  /\ wrote'[v] \subseteq {asked'[v]}
                      /\ validated'[v] \in {None, asked'[v]}
    BY DEF ShownIsOfTheQuestion
  <2>1. wrote[v] \subseteq {asked[v]} /\ validated[v] \in {None, asked[v]}
    BY DEF Inv, ShownIsOfTheQuestion
  <2>2. QED BY <1>5, <1>6, <1>14, <2>1
<1>16. Finished'
  <2> SUFFICES ASSUME NEW v \in Visits
               PROVE  (status'[v] = "done") = (validated'[v] # None)
    BY DEF Finished
  <2>1. (status[v] = "done") = (validated[v] # None) BY DEF Inv, Finished
  <2>2. QED BY <1>5, <1>6, <1>14, <2>1
<1>17. QED BY <1>9, <1>10, <1>11, <1>12, <1>13, <1>15, <1>16 DEF Structure

(* A page that is opened shows nothing yet, and nothing runs for it. *)
LEMMA OpenStep == ASSUME Inv, NEW v \in Visits, OpenPage(v) PROVE Structure'
<1>1. /\ UNCHANGED <<request, asked, wrote, validated, controller>>
      /\ status[v] = "unused"
      /\ \A u \in Visits : status'[u] = IF u = v THEN "idle" ELSE status[u]
  BY DEF OpenPage, Inv, TypeOK
<1>2. (Homed /\ Fresh /\ Owned /\ ShownIsOfTheQuestion)'
  BY <1>1 DEF Inv, Homed, Fresh, Owned, ShownIsOfTheQuestion, request
<1>3. Waiting' BY <1>1 DEF Inv, Waiting, request
<1>4. Running' BY <1>1 DEF Inv, Running, Homed, request
<1>5. Finished' BY <1>1 DEF Inv, Finished
<1>6. QED BY <1>2, <1>3, <1>4, <1>5 DEF Structure

(* The response's head changes nothing that is shown. *)
LEMMA ConnectStep == ASSUME Inv, NEW r \in Requests, Connect(r) PROVE Structure'
<1>1. /\ UNCHANGED <<aborted, home, status, asked, wrote, validated, controller>>
      /\ phase[r] \in Live
      /\ \A q \in Requests : phase'[q] = IF q = r THEN "open" ELSE phase[q]
  BY DEF Connect, Inv, TypeOK, shown
<1>2. \A v \in Visits : controller[v] \in Requests \cup {None} BY DEF Inv, TypeOK
<1>3. Homed' /\ Fresh' BY <1>1 DEF Inv, Homed, Fresh
<1>4. Owned' BY <1>1, <1>2 DEF Inv, Owned
<1>5. Waiting' BY <1>1, <1>2 DEF Inv, Waiting
<1>6. Running' BY <1>1 DEF Inv, Running
<1>7. ShownIsOfTheQuestion' /\ Finished'
  BY <1>1 DEF Inv, ShownIsOfTheQuestion, Finished
<1>8. QED BY <1>3, <1>4, <1>5, <1>6, <1>7 DEF Structure

(* What is delivered to a request that is current: its own question's page *)
(* is waiting and has no answer yet.                                       *)
LEMMA CurrentIsShown ==
  ASSUME Inv, NEW r \in Requests, phase[r] \in Live, Current(r)
  PROVE  /\ home[r] \in Visits /\ controller[home[r]] = r /\ ~aborted[r]
         /\ asked[home[r]] = r /\ status[home[r]] = "streaming"
         /\ validated[home[r]] = None /\ wrote[home[r]] \subseteq {r} /\ r # None
<1>1. home[r] \in Visits /\ controller[home[r]] = r /\ ~aborted[r] /\ r # None
  BY DEF Inv, Homed, Current
<1>2. asked[home[r]] = r BY <1>1 DEF Inv, Owned
<1>3. status[home[r]] = "streaming" BY <1>1 DEF Inv, Running
<1>4. validated[home[r]] = None BY <1>1, <1>3 DEF Inv, Finished
<1>5. wrote[home[r]] \subseteq {r} BY <1>1, <1>2 DEF Inv, ShownIsOfTheQuestion
<1>6. QED BY <1>1, <1>2, <1>3, <1>4, <1>5

(* A request that is not current and runs was aborted, so nobody waits for *)
(* it.                                                                     *)
LEMMA OthersAreAborted ==
  ASSUME Inv, NEW r \in Requests, phase[r] \in Live, ~Current(r)
  PROVE  aborted[r] /\ \A v \in Visits : controller[v] # r
<1>1. aborted[r] BY DEF Inv, Running, Current
<1>2. r # None OBVIOUS
<1>3. QED BY <1>1, <1>2 DEF Inv, Owned

(* A request that leaves its loop: what it is, for the steps below. *)
Leaves(r) ==
  /\ phase[r] \in Live
  /\ phase' = [phase EXCEPT ![r] = "closing"]
  /\ UNCHANGED <<aborted, home, asked, controller>>

(* One that is not current leaves its loop and writes nothing. *)
LEMMA QuietLeaveStep ==
  ASSUME Inv, NEW r \in Requests, Leaves(r), ~Current(r),
         UNCHANGED <<status, wrote, validated>>
  PROVE  Structure'
<1>1. /\ UNCHANGED <<aborted, home, asked, controller, status, wrote, validated>>
      /\ phase[r] \in Live
      /\ \A q \in Requests : phase'[q] = IF q = r THEN "closing" ELSE phase[q]
  BY DEF Leaves, Inv, TypeOK
<1>2. \A v \in Visits : controller[v] \in Requests \cup {None} BY DEF Inv, TypeOK
<1>3. \A v \in Visits : controller[v] # r BY <1>1, OthersAreAborted
<1>4. Homed' /\ Fresh' BY <1>1 DEF Inv, Homed, Fresh
<1>5. Owned' BY <1>1, <1>2 DEF Inv, Owned
<1>6. Waiting' BY <1>1, <1>2, <1>3 DEF Inv, Waiting
<1>7. Running' BY <1>1 DEF Inv, Running
<1>8. ShownIsOfTheQuestion' /\ Finished'
  BY <1>1 DEF Inv, ShownIsOfTheQuestion, Finished
<1>9. QED BY <1>4, <1>5, <1>6, <1>7, <1>8 DEF Structure

(* The current one leaves it with the outcome of its question. *)
LEMMA OutcomeStep ==
  ASSUME Inv, NEW r \in Requests, Leaves(r), Current(r),
         \/ Ended(r, "error") /\ UNCHANGED validated
         \/ Ended(r, "done") /\ validated' = [validated EXCEPT ![home[r]] = r]
  PROVE  Structure'
<1> DEFINE h == home[r]
<1>1. /\ UNCHANGED <<aborted, home, asked, controller>>
      /\ phase[r] \in Live
      /\ \A q \in Requests : phase'[q] = IF q = r THEN "closing" ELSE phase[q]
  BY DEF Leaves, Inv, TypeOK
<1>2. /\ h \in Visits /\ controller[h] = r /\ ~aborted[r] /\ asked[h] = r
      /\ status[h] = "streaming" /\ validated[h] = None /\ wrote[h] \subseteq {r}
      /\ r # None
  BY <1>1, CurrentIsShown
<1>3. \A v \in Visits \ {h} : /\ status'[v] = status[v] /\ wrote'[v] = wrote[v]
                              /\ validated'[v] = validated[v]
  BY <1>2 DEF Ended, Wrote, Inv, TypeOK
<1>4. /\ wrote'[h] = {r}
      /\ \/ status'[h] = "error" /\ validated'[h] = None
         \/ status'[h] = "done" /\ validated'[h] = r
  <2>1. wrote'[h] = wrote[h] \cup {r} BY <1>2 DEF Ended, Wrote, Inv, TypeOK
  <2>2. QED BY <2>1, <1>2 DEF Ended, Inv, TypeOK
<1>5. \A v \in Visits : controller[v] \in Requests \cup {None} BY DEF Inv, TypeOK
<1>6. \A v \in Visits \ {h} : controller[v] # r BY <1>2 DEF Inv, Owned
<1> HIDE DEF h
<1>7. Homed' /\ Fresh' BY <1>1 DEF Inv, Homed, Fresh
<1>8. Owned' BY <1>1, <1>5 DEF Inv, Owned
<1>9. Waiting'
  <2> SUFFICES ASSUME NEW v \in Visits, status'[v] = "streaming"
               PROVE  controller'[v] # None /\ phase'[controller'[v]] \in Live
    BY DEF Waiting
  <2>1. v # h BY <1>4
  <2>2. controller[v] # None /\ phase[controller[v]] \in Live /\ controller[v] # r
    BY <1>3, <1>6, <2>1 DEF Inv, Waiting
  <2>3. QED BY <1>1, <1>5, <2>2
<1>10. Running'
  <2> SUFFICES ASSUME NEW q \in Requests, phase'[q] \in Live, ~aborted'[q]
               PROVE  controller'[home'[q]] = q /\ status'[home'[q]] = "streaming"
    BY DEF Running
  <2>1. q # r /\ phase[q] \in Live /\ ~aborted[q] BY <1>1
  <2>2. home[q] \in Visits /\ controller[home[q]] = q /\ status[home[q]] = "streaming"
    BY <2>1 DEF Inv, Homed, Running
  <2>3. home[q] # h BY <1>2, <2>1, <2>2
  <2>4. QED BY <1>1, <1>3, <2>2, <2>3
<1>11. ShownIsOfTheQuestion' BY <1>1, <1>2, <1>3, <1>4 DEF Inv, ShownIsOfTheQuestion
<1>12. Finished' BY <1>2, <1>3, <1>4 DEF Inv, Finished
<1>13. QED BY <1>7, <1>8, <1>9, <1>10, <1>11, <1>12 DEF Structure

(* What is received before the outcome. *)
LEMMA ProgressStep == ASSUME Inv, NEW r \in Requests, Progress(r) PROVE Structure'
<1>1. CASE ~Current(r)
  BY <1>1, QuietLeaveStep DEF Progress, Leaves
<1>2. CASE Current(r)
  <2>1. /\ UNCHANGED <<phase, aborted, home, status, asked, validated, controller>>
        /\ wrote' = [wrote EXCEPT ![home[r]] = @ \cup {r}] /\ phase[r] \in Live
    BY <1>2 DEF Progress, Wrote
  <2>2. (Homed /\ Fresh /\ Owned /\ Waiting /\ Running /\ Finished)'
    BY <2>1 DEF Inv, Homed, Fresh, Owned, Waiting, Running, Finished
  <2>3. asked[home[r]] = r /\ wrote[home[r]] \subseteq {r}
    BY <1>2, <2>1, CurrentIsShown
  <2>4. ShownIsOfTheQuestion'
    BY <2>1, <2>3 DEF Inv, TypeOK, ShownIsOfTheQuestion
  <2>5. QED BY <2>2, <2>4 DEF Structure
<1>3. QED BY <1>1, <1>2

(* The outcome of a request, whoever still waits for it. *)
LEMMA DoneStep == ASSUME Inv, NEW r \in Requests, Done(r) PROVE Structure'
<1>1. Leaves(r) BY DEF Done, Leaves
<1>2. CASE Current(r) BY <1>1, <1>2, OutcomeStep DEF Done
<1>3. CASE ~Current(r) BY <1>1, <1>3, QuietLeaveStep DEF Done
<1>4. QED BY <1>2, <1>3

LEMMA ErrorStep == ASSUME Inv, NEW r \in Requests, Error(r) PROVE Structure'
<1>1. Leaves(r) BY DEF Error, Leaves
<1>2. CASE Current(r) BY <1>1, <1>2, OutcomeStep DEF Error
<1>3. CASE ~Current(r) BY <1>1, <1>3, QuietLeaveStep DEF Error
<1>4. QED BY <1>2, <1>3

(* Everything that is delivered of a request. *)
LEMMA DeliverStep == ASSUME Inv, NEW r \in Requests, Deliver(r) PROVE Structure'
<1>1. CASE Refuse401(r) BY <1>1, SettleStep DEF Refuse401, Ignored, shown
<1>2. CASE Break(r) BY <1>2, SettleStep DEF Break, Ignored, shown
<1>3. CASE End(r) BY <1>3, SettleStep DEF End, Ignored, shown
<1>4. CASE Close(r) BY <1>4, SettleStep DEF Close, shown
<1>5. QED BY <1>1, <1>2, <1>3, <1>4, ConnectStep, ProgressStep, DoneStep, ErrorStep
          DEF Deliver

(* The steps that are about the login only, leaving, and stuttering. *)
LEMMA ElsewhereStep ==
  ASSUME Inv, UNCHANGED <<request, shown, controller>> PROVE Structure'
BY DEF Inv, Structure, request, shown, Homed, Fresh, Owned, Waiting, Running,
       ShownIsOfTheQuestion, Finished

(* Every step keeps the invariant. *)
LEMMA NextInv == Inv /\ [Next]_vars => Inv'
<1> SUFFICES ASSUME Inv, [Next]_vars PROVE Inv' OBVIOUS
<1>1. TypeOK' BY NextTypes DEF Inv
<1>2. Structure'
  <2>1. CASE User
    <3>1. CASE LeavePage \/ Logout \/ Call \/ \E n \in Logins : Login(n)
      BY <3>1, ElsewhereStep DEF LeavePage, Logout, Call, Login
    <3>2. QED BY <2>1, <3>1, OpenStep, CancelStep, AskStep DEF User
  <2>2. CASE \E r \in Requests : Deliver(r) BY <2>2, DeliverStep
  <2>3. CASE \E n \in Logins : Lapse(n) \/ Revoke(n)
    BY <2>3, ElsewhereStep DEF Lapse, Revoke
  <2>4. CASE \E t \in Logins \cup {None} : Reply(t)
    BY <2>4, ElsewhereStep DEF Reply
  <2>5. CASE UNCHANGED vars BY <2>5, ElsewhereStep DEF vars
  <2>6. QED BY <2>1, <2>2, <2>3, <2>4, <2>5 DEF Next
<1>3. QED BY <1>1, <1>2 DEF Inv, Structure

-----------------------------------------------------------------------------
(* What is shown of a finished question changes with the next one only.    *)
FinishedStay ==
  \A v \in Visits : status[v] \in {"done", "cancelled", "error"} =>
    \/ asked'[v] # asked[v]
    \/ /\ status'[v] = status[v] /\ wrote'[v] = wrote[v]
       /\ validated'[v] = validated[v]

(* A delivery writes to the page of a question that still streams. *)
LEMMA DeliverStays ==
  ASSUME Inv, NEW r \in Requests, Deliver(r) PROVE FinishedStay
<1>1. CASE Current(r) /\ phase[r] \in Live
  <2>1. home[r] \in Visits /\ status[home[r]] = "streaming"
    BY <1>1, CurrentIsShown
  <2>2. \A v \in Visits \ {home[r]} :
          status'[v] = status[v] /\ wrote'[v] = wrote[v] /\ validated'[v] = validated[v]
    BY <2>1 DEF Deliver, Connect, Refuse401, Break, End, Progress, Done, Error, Close,
                Ended, Wrote, Ignored, shown, Inv, TypeOK
  <2>3. QED BY <2>1, <2>2 DEF FinishedStay
<1>2. CASE ~(Current(r) /\ phase[r] \in Live)
  <2>1. UNCHANGED <<status, wrote, validated>>
    BY <1>2 DEF Deliver, Connect, Refuse401, Break, End, Progress, Done, Error, Close,
                Ignored, shown
  <2>2. QED BY <2>1 DEF FinishedStay
<1>3. QED BY <1>1, <1>2

(* So does every step. *)
LEMMA NextStays == Inv /\ [Next]_vars => FinishedStay
<1> SUFFICES ASSUME Inv, [Next]_vars PROVE FinishedStay OBVIOUS
<1>1. ASSUME UNCHANGED <<status, wrote, validated>> PROVE FinishedStay
  BY <1>1 DEF FinishedStay
<1>2. CASE User
  <2>1. CASE LeavePage \/ Logout \/ Call \/ \E n \in Logins : Login(n)
    BY <2>1, <1>1 DEF LeavePage, Logout, Call, Login, shown
  <2>2. ASSUME NEW v \in Visits, OpenPage(v) PROVE FinishedStay
    BY <2>2 DEF OpenPage, FinishedStay, Inv, TypeOK
  <2>3. CASE Cancel BY <2>3 DEF Cancel, FinishedStay, Inv, TypeOK
  <2>4. ASSUME NEW r \in Requests, Ask(r) PROVE FinishedStay
    <3>1. /\ page \in Visits /\ asked[page] # r
          /\ \A v \in Visits \ {page} :
               status'[v] = status[v] /\ wrote'[v] = wrote[v] /\ validated'[v] = validated[v]
          /\ asked'[page] = r
      BY <2>4 DEF Ask, Inv, TypeOK, Fresh
    <3>2. QED BY <3>1 DEF FinishedStay
  <2>5. QED BY <1>2, <2>1, <2>2, <2>3, <2>4 DEF User
<1>3. CASE \E r \in Requests : Deliver(r) BY <1>3, DeliverStays
<1>4. CASE \E n \in Logins : Lapse(n) \/ Revoke(n)
  BY <1>4, <1>1 DEF Lapse, Revoke, shown
<1>5. CASE \E t \in Logins \cup {None} : Reply(t) BY <1>5, <1>1 DEF Reply, shown
<1>6. CASE UNCHANGED vars BY <1>6, <1>1 DEF vars, shown
<1>7. QED BY <1>2, <1>3, <1>4, <1>5, <1>6 DEF Next

(* The invariant gives what the page may say of its request. *)
LEMMA InvIsTrue == Inv => StatusIsTrue
<1> SUFFICES ASSUME Inv, NEW v \in Visits
             PROVE  /\ status[v] = "streaming" =>
                         LET r == asked[v] IN
                           r # None /\ controller[v] = r /\ phase[r] \in Live /\ ~aborted[r]
                    /\ (status[v] = "done") = (validated[v] # None)
                    /\ \A r \in Requests :
                         home[r] = v /\ phase[r] \in Live /\ ~aborted[r] =>
                           r = asked[v] /\ status[v] = "streaming"
  BY DEF StatusIsTrue
<1>1. status[v] = "streaming" =>
        /\ asked[v] # None /\ controller[v] = asked[v] /\ phase[asked[v]] \in Live
        /\ ~aborted[asked[v]]
  BY DEF Inv, Waiting, Owned
<1>2. (status[v] = "done") = (validated[v] # None) BY DEF Inv, Finished
<1>3. ASSUME NEW r \in Requests, home[r] = v, phase[r] \in Live, ~aborted[r]
      PROVE  r = asked[v] /\ status[v] = "streaming"
  <2>1. controller[v] = r /\ status[v] = "streaming" BY <1>3 DEF Inv, Running
  <2>2. QED BY <2>1 DEF Inv, Owned
<1>4. QED BY <1>1, <1>2, <1>3

-----------------------------------------------------------------------------
(* The login. *)
LEMMA LoginStep == LoginInv /\ TypeOK' /\ [Next]_vars => LoginInv'
<1> SUFFICES ASSUME LoginInv, TypeOK', [Next]_vars PROVE LoginInv' OBVIOUS
<1>1. /\ latest \in Nat /\ session \in Nat /\ session <= latest
      /\ Token \in Nat /\ Token <= latest /\ Token \in {None, session}
      /\ \A r \in Requests : token[r] \in Nat /\ token[r] <= latest
      /\ over \subseteq Nat /\ calls \subseteq Nat
      /\ \A n \in over \cup calls : n <= latest
      /\ session # None => session \notin over
      /\ token \in [Requests -> Logins \cup {None}]
  <2>0. Logins \cup {None} \subseteq Nat OBVIOUS
  <2>1. /\ latest \in Nat /\ session \in Nat /\ session <= latest
        /\ token \in [Requests -> Logins \cup {None}]
        /\ \A r \in Requests : token[r] \in Nat
    <3>1. token \in [Requests -> Logins \cup {None}] BY DEF LoginInv, TypeOK
    <3>2. latest \in Nat /\ session \in Nat BY <2>0 DEF LoginInv, TypeOK
    <3>3. \A r \in Requests : token[r] \in Nat BY <2>0, <3>1
    <3>4. QED BY <3>1, <3>2, <3>3 DEF LoginInv, Numbered
  <2>2. /\ over \subseteq Nat /\ calls \subseteq Nat
        /\ \A n \in over \cup calls : n <= latest
        /\ \A r \in Requests : token[r] <= latest
        /\ session # None => session \notin over
    BY DEF LoginInv, Numbered, RefusedSessionIsOver, TypeOK
  <2>3. Token \in {None, session} BY DEF Token
  <2>4. QED BY <2>1, <2>2, <2>3
<1>2. ASSUME UNCHANGED <<token, session, latest, over, calls>> PROVE LoginInv'
  BY <1>2 DEF LoginInv, Numbered, RefusedSessionIsOver
<1>3. CASE User
  <2>1. CASE LeavePage \/ Cancel \/ \E v \in Visits : OpenPage(v)
    BY <2>1, <1>2 DEF LeavePage, Cancel, OpenPage, login, request
  <2>2. CASE Logout
    BY <2>2, <1>1 DEF Logout, LoginInv, Numbered, RefusedSessionIsOver, request
  <2>3. CASE Call
    BY <2>3, <1>1 DEF Call, TakeToken, LoginInv, Numbered, RefusedSessionIsOver, request
  <2>4. ASSUME NEW r \in Requests, Ask(r) PROVE LoginInv'
    <3>1. \A q \in Requests : token'[q] <= latest BY <2>4, <1>1 DEF Ask
    <3>2. QED BY <2>4, <3>1, <1>1 DEF Ask, TakeToken, LoginInv, Numbered, RefusedSessionIsOver
  <2>5. ASSUME NEW n \in Logins, Login(n) PROVE LoginInv'
    <3>1. n \in Nat /\ n > latest /\ n \notin over
      BY <2>5, <1>1 DEF Login
    <3>2. QED BY <2>5, <3>1, <1>1 DEF Login, LoginInv, Numbered, RefusedSessionIsOver, request
  <2>6. QED BY <1>3, <2>1, <2>2, <2>3, <2>4, <2>5 DEF User
<1>4. ASSUME NEW r \in Requests, Deliver(r) PROVE LoginInv'
  <2>1. CASE Connect(r) \/ Progress(r) \/ Done(r) \/ Error(r)
    BY <2>1, <1>2 DEF Connect, Progress, Done, Error, login
  <2>2. \A q \in Requests : Settled(r) => token'[q] <= latest
    BY <1>1 DEF Settled
  <2>3. CASE Break(r) \/ End(r) \/ Close(r)
    BY <2>2, <2>3, <1>1
       DEF Break, End, Close, login, LoginInv, Numbered, RefusedSessionIsOver
  <2>4. CASE Refuse401(r)
    <3>1. latest' = latest /\ calls' = calls /\ \A q \in Requests : token'[q] <= latest
      BY <2>2, <2>4 DEF Refuse401
    <3>2. \/ UNCHANGED <<session, over>>
          \/ session' = None /\ over' = over \cup ({token[r]} \ {None})
      BY <2>4 DEF Refuse401, SignOut
    <3>3. \A n \in over' \cup calls' : n <= latest BY <1>1, <3>1, <3>2
    <3>4. session' <= latest /\ (session' # None => session' \notin over')
      BY <1>1, <3>2
    <3>5. QED BY <3>1, <3>3, <3>4 DEF LoginInv, Numbered, RefusedSessionIsOver
  <2>5. QED BY <1>4, <2>1, <2>3, <2>4 DEF Deliver
<1>5. CASE \E n \in Logins : Lapse(n) \/ Revoke(n)
  BY <1>5, <1>2 DEF Lapse, Revoke, request
<1>6. ASSUME NEW t \in Logins \cup {None}, Reply(t) PROVE LoginInv'
  <2>1. latest' = latest /\ token' = token /\ t \in calls /\ calls' \subseteq calls
    BY <1>6 DEF Reply, request
  <2>2. \/ UNCHANGED <<session, over>>
        \/ session' = None /\ over' = over \cup ({t} \ {None})
    BY <1>6 DEF Reply, SignOut
  <2>3. \A n \in over' \cup calls' : n <= latest
    <3>1. t <= latest BY <1>1, <2>1
    <3>2. over' \subseteq over \cup {t} BY <2>2
    <3>3. QED BY <1>1, <2>1, <3>1, <3>2
  <2>4. session' <= latest /\ (session' # None => session' \notin over')
    BY <1>1, <2>2
  <2>5. QED BY <1>1, <2>1, <2>3, <2>4 DEF LoginInv, Numbered, RefusedSessionIsOver
<1>7. CASE UNCHANGED vars BY <1>7, <1>2 DEF vars, request, login
<1>8. QED BY <1>3, <1>4, <1>5, <1>6, <1>7 DEF Next

-----------------------------------------------------------------------------
(* Both invariants hold always. *)
LEMMA SpecInv == Spec => [](Inv /\ LoginInv)
<1>1. Inv /\ LoginInv /\ [Next]_vars => (Inv /\ LoginInv)'
  BY NextInv, LoginStep DEF Inv
<1>2. QED BY InitInv, <1>1, PTL DEF Spec

(* The types of the state, for every number of requests, visits, logins.   *)
THEOREM TypeCorrect == Spec => []TypeOK
<1>1. Inv => TypeOK BY DEF Inv
<1>2. QED BY SpecInv, <1>1, PTL

(* Only the request of the question a page shows ever writes to it, though *)
(* requests run on after they were cancelled, replaced or their page left. *)
THEOREM ShownIsCurrent == Spec => []ShownIsOfTheQuestion
<1>1. Inv => ShownIsOfTheQuestion BY DEF Inv
<1>2. QED BY SpecInv, <1>1, PTL

(* A page that waits has the one request that can end its waiting, and the *)
(* validated answer is there exactly on the pages that say done.           *)
THEOREM StatusTrue == Spec => []StatusIsTrue
BY SpecInv, InvIsTrue, PTL

(* A finished, failed or cancelled exchange is not written to again.       *)
THEOREM FinishedStaysFinished == Spec => FinishedStays
<1>1. Inv /\ [Next]_vars =>
        [\A v \in Visits : status[v] \in {"done", "cancelled", "error"} =>
          \/ asked'[v] # asked[v]
          \/ /\ status'[v] = status[v] /\ wrote'[v] = wrote[v]
             /\ validated'[v] = validated[v]]_vars
  BY NextStays DEF FinishedStay
<1>2. QED BY SpecInv, <1>1, PTL DEF Spec, FinishedStays

(* A login a 401 was handled for is over for good.                         *)
THEOREM RefusedSessionsAreOver == Spec => []RefusedSessionIsOver
<1>1. LoginInv => RefusedSessionIsOver BY DEF LoginInv
<1>2. QED BY SpecInv, <1>1, PTL
=============================================================================
