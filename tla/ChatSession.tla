---------------------------- MODULE ChatSession ----------------------------
(***************************************************************************)
(* The chat page's exchange with the backend (chat/chat-session.ts,        *)
(* chat/chat-page.ts, api/chat.ts) and the login session it is made under  *)
(* (core/auth.ts, core/auth-http.ts).                                      *)
(*                                                                         *)
(* A request runs on after its page was left, was cancelled or has its     *)
(* outcome: its stream is closed in the background, and what is buffered   *)
(* of it may still be delivered.  Every visit of the chat page has a       *)
(* ChatSession of its own.  What a request wrote is kept as who wrote it.  *)
(* Logins are numbered; 0 is no login.  Other calls of the page go through *)
(* the interceptor: calls holds the logins of those under way.             *)
(***************************************************************************)
EXTENDS Naturals, FiniteSets

CONSTANTS
  Requests,   \* the questions asked, numbered
  Visits,     \* the visits of the chat page, numbered
  Logins,     \* the logins, numbered
  MaxEvents,  \* bounds the events of one stream before its last
  MaxCalls    \* bounds the other calls under way

ASSUME RequestsAssumption == Requests \subseteq Nat \ {0}
ASSUME VisitsAssumption == Visits \subseteq Nat \ {0}
ASSUME LoginsAssumption == Logins \subseteq Nat \ {0}

VARIABLES
  phase,      \* of each request
  aborted,    \* its AbortController's signal
  token,      \* the login it was sent with
  home,       \* the visit it was asked on
  events,     \* how many events it has received
  status, asked, wrote, validated, controller,   \* of each visit
  page,       \* the visit on the screen, 0 for another page
  session,    \* the login of the AuthService
  latest,     \* the latest login there was
  lapsed,     \* the logins whose expiresAt is over
  refused,    \* the logins the server no longer accepts
  over,       \* history: the logins a 401 was handled for
  calls       \* the logins of the other calls under way

request == <<phase, aborted, token, home, events>>
shown == <<status, asked, wrote, validated>>
login == <<session, latest, lapsed, refused, over, calls>>
vars == <<request, shown, controller, page, login>>

None == 0
Live == {"connecting", "open"}

-----------------------------------------------------------------------------
Init ==
  /\ phase = [r \in Requests |-> "unused"]
  /\ aborted = [r \in Requests |-> FALSE]
  /\ token = [r \in Requests |-> None]
  /\ home = [r \in Requests |-> None]
  /\ events = [r \in Requests |-> 0]
  /\ status = [v \in Visits |-> "unused"]
  /\ asked = [v \in Visits |-> None]
  /\ wrote = [v \in Visits |-> {}]
  /\ validated = [v \in Visits |-> None]
  /\ controller = [v \in Visits |-> None]
  /\ page = None
  /\ session = None /\ latest = None
  /\ lapsed = {} /\ refused = {} /\ over = {} /\ calls = {}

(* A plausible mistake, for a mutant. *)
CurrentIfStreaming(r) == status[home[r]] = "streaming"

(* ask's current(). *)
Current(r) == controller[home[r]] = r /\ ~aborted[r]

(* auth.token(): an expired session is logged out on the way. *)
Token == IF session \in lapsed THEN None ELSE session
TakeToken == session' = Token

-----------------------------------------------------------------------------
(* The user. *)

OpenPage(v) ==
  /\ page = None /\ status[v] = "unused"
  /\ \A u \in Visits : u < v => status[u] # "unused"
  /\ Token # None
  /\ page' = v
  /\ status' = [status EXCEPT ![v] = "idle"]
  /\ UNCHANGED <<request, asked, wrote, validated, controller, login>>

(* Leaving drops the ChatSession; its request is not aborted. *)
LeavePage ==
  /\ page # None
  /\ page' = None
  /\ UNCHANGED <<request, shown, controller, login>>

(* submit and the synchronous part of ask.  A request that still closes    *)
(* its stream is aborted.                                                  *)
Ask(r) ==
  /\ page # None /\ status[page] # "streaming" /\ phase[r] = "unused"
  /\ \A q \in Requests : q < r => phase[q] # "unused"
  /\ phase' = [phase EXCEPT ![r] = "connecting"]
  /\ aborted' = [q \in Requests |-> aborted[q] \/ q = controller[page]]
  /\ home' = [home EXCEPT ![r] = page]
  /\ token' = [token EXCEPT ![r] = Token]
  /\ TakeToken
  /\ controller' = [controller EXCEPT ![page] = r]
  /\ status' = [status EXCEPT ![page] = "streaming"]
  /\ asked' = [asked EXCEPT ![page] = r]
  /\ wrote' = [wrote EXCEPT ![page] = {}]
  /\ validated' = [validated EXCEPT ![page] = None]
  /\ UNCHANGED <<events, page, latest, lapsed, refused, over, calls>>

(* A plausible mistake, for a mutant. *)
CancelShownOnly ==
  /\ page # None /\ status[page] = "streaming"
  /\ controller' = [controller EXCEPT ![page] = None]
  /\ status' = [status EXCEPT ![page] = "cancelled"]
  /\ UNCHANGED <<request, asked, wrote, validated, page, login>>

(* The button is there while the question streams. *)
Cancel ==
  /\ page # None /\ status[page] = "streaming"
  /\ controller[page] # None
  /\ aborted' = [q \in Requests |-> aborted[q] \/ q = controller[page]]
  /\ controller' = [controller EXCEPT ![page] = None]
  /\ status' = [status EXCEPT ![page] = "cancelled"]
  /\ UNCHANGED <<phase, token, home, events, asked, wrote, validated, page, login>>

-----------------------------------------------------------------------------
(* A request. *)

(* ask's finally; what the request held is gone with it. *)
Settled(r) ==
  /\ phase' = [phase EXCEPT ![r] = "settled"]
  /\ aborted' = [aborted EXCEPT ![r] = FALSE]
  /\ token' = [token EXCEPT ![r] = None]
  /\ home' = [home EXCEPT ![r] = None]
  /\ events' = [events EXCEPT ![r] = 0]
  /\ controller' = [v \in Visits |-> IF v = home[r] /\ controller[v] = r
                                     THEN None ELSE controller[v]]

Wrote(r) == wrote' = [wrote EXCEPT ![home[r]] = @ \cup {r}]

(* finish and fail: what is shown of the current request ends. *)
Ended(r, s) == status' = [status EXCEPT ![home[r]] = s] /\ Wrote(r)

Ignored == UNCHANGED shown

Connect(r) ==
  /\ phase[r] = "connecting"
  /\ phase' = [phase EXCEPT ![r] = "open"]
  /\ UNCHANGED <<aborted, token, home, events, shown, controller, page, login>>

(* A plausible mistake, for a mutant. *)
StaySignedIn(t) == over' = over \cup ({t} \ {None}) /\ UNCHANGED session

(* signOut, of whatever session there is by now. *)
SignOut(t) == over' = over \cup ({t} \ {None}) /\ session' = None

(* ChatHttpError: 401 for a request without a login or one the server no   *)
(* longer accepts, another status for whatever else it refuses.            *)
Refuse401(r) ==
  /\ phase[r] = "connecting" /\ token[r] \in refused \cup {None}
  /\ Settled(r)
  /\ IF Current(r) THEN Ended(r, "error") /\ SignOut(token[r])
                   ELSE Ignored /\ UNCHANGED <<session, over>>
  /\ UNCHANGED <<asked, validated, page, latest, lapsed, refused, calls>>

(* A plausible mistake, for a mutant. *)
BreakAnyway(r) ==
  /\ phase[r] \in Live
  /\ Settled(r)
  /\ Ended(r, "error")
  /\ UNCHANGED <<asked, validated, page, login>>

(* Another refusal, a broken connection, or the AbortError of its signal.  *)
Break(r) ==
  /\ phase[r] \in Live
  /\ Settled(r)
  /\ IF Current(r) THEN Ended(r, "error") ELSE Ignored
  /\ UNCHANGED <<asked, validated, page, login>>

(* A plausible mistake, for a mutant. *)
EndQuietly(r) ==
  /\ phase[r] = "open"
  /\ Settled(r)
  /\ Ignored
  /\ UNCHANGED <<page, login>>

(* The stream ends without done or error. *)
End(r) ==
  /\ phase[r] = "open"
  /\ Settled(r)
  /\ IF Current(r) THEN Ended(r, "error") ELSE Ignored
  /\ UNCHANGED <<asked, validated, page, login>>

(* stage, sources or token.  A request that is not current leaves its loop *)
(* and closes its stream.                                                  *)
Progress(r) ==
  /\ phase[r] = "open" /\ events[r] < MaxEvents
  /\ events' = [events EXCEPT ![r] = @ + 1]
  /\ IF Current(r) THEN Wrote(r) /\ UNCHANGED phase
                   ELSE phase' = [phase EXCEPT ![r] = "closing"] /\ UNCHANGED wrote
  /\ UNCHANGED <<aborted, token, home, status, asked, validated, controller, page, login>>

Done(r) ==
  /\ phase[r] = "open"
  /\ phase' = [phase EXCEPT ![r] = "closing"]
  /\ IF Current(r)
     THEN Ended(r, "done") /\ validated' = [validated EXCEPT ![home[r]] = r]
     ELSE UNCHANGED <<status, wrote, validated>>
  /\ UNCHANGED <<aborted, token, home, events, asked, controller, page, login>>

Error(r) ==
  /\ phase[r] = "open"
  /\ phase' = [phase EXCEPT ![r] = "closing"]
  /\ IF Current(r) THEN Ended(r, "error") ELSE UNCHANGED <<status, wrote>>
  /\ UNCHANGED <<aborted, token, home, events, asked, validated, controller, page, login>>

(* reader.cancel() is over. *)
Close(r) ==
  /\ phase[r] = "closing"
  /\ Settled(r)
  /\ UNCHANGED <<shown, page, login>>

-----------------------------------------------------------------------------
(* The login and the page's other calls. *)

Login(n) ==
  /\ session = None /\ page = None
  /\ n > latest /\ \A m \in Logins : m > latest => n <= m
  /\ session' = n /\ latest' = n
  /\ UNCHANGED <<request, shown, controller, page, lapsed, refused, over, calls>>

Logout ==
  /\ session # None
  /\ session' = None /\ page' = None
  /\ UNCHANGED <<request, shown, controller, latest, lapsed, refused, over, calls>>

(* expiresAt passes, for the page and for the server: their clocks agree.  *)
Lapse(n) ==
  /\ n = session /\ n \notin lapsed
  /\ lapsed' = lapsed \cup {n} /\ refused' = refused \cup {n}
  /\ UNCHANGED <<request, shown, controller, page, session, latest, over, calls>>

(* The server was restarted with another signing key.                      *)
Revoke(n) ==
  /\ n = session /\ n \notin refused
  /\ refused' = refused \cup {n}
  /\ UNCHANGED <<request, shown, controller, page, session, latest, lapsed, over, calls>>

(* authInterceptor. *)
Call ==
  /\ Cardinality(calls) < MaxCalls
  /\ calls' = calls \cup {Token}
  /\ TakeToken
  /\ UNCHANGED <<request, shown, controller, page, latest, lapsed, refused, over>>

Reply(t) ==
  /\ t \in calls /\ calls' = calls \ {t}
  /\ IF t \in refused \cup {None} THEN SignOut(t) ELSE UNCHANGED <<session, over>>
  /\ UNCHANGED <<request, shown, controller, page, latest, lapsed, refused>>

-----------------------------------------------------------------------------
Deliver(r) ==
  \/ Connect(r) \/ Refuse401(r) \/ Break(r) \/ End(r)
  \/ Progress(r) \/ Done(r) \/ Error(r) \/ Close(r)

User ==
  \/ \E v \in Visits : OpenPage(v)
  \/ LeavePage \/ Cancel \/ Logout \/ Call
  \/ \E r \in Requests : Ask(r)
  \/ \E n \in Logins : Login(n)

Next ==
  \/ User
  \/ \E r \in Requests : Deliver(r)
  \/ \E n \in Logins : Lapse(n) \/ Revoke(n)
  \/ \E t \in Logins \cup {None} : Reply(t)

Spec == Init /\ [][Next]_vars

(* The network delivers, or the connection breaks. *)
FairSpec == Spec /\ \A r \in Requests : WF_vars(Deliver(r))

-----------------------------------------------------------------------------
TypeOK ==
  /\ phase \in [Requests -> {"unused", "connecting", "open", "closing", "settled"}]
  /\ aborted \in [Requests -> BOOLEAN]
  /\ token \in [Requests -> Logins \cup {None}]
  /\ home \in [Requests -> Visits \cup {None}]
  /\ events \in [Requests -> Nat]
  /\ status \in [Visits -> {"unused", "idle", "streaming", "done", "cancelled", "error"}]
  /\ asked \in [Visits -> Requests \cup {None}]
  /\ wrote \in [Visits -> SUBSET Requests]
  /\ validated \in [Visits -> Requests \cup {None}]
  /\ controller \in [Visits -> Requests \cup {None}]
  /\ page \in Visits \cup {None}
  /\ session \in Logins \cup {None} /\ latest \in Logins \cup {None}
  /\ lapsed \subseteq Logins /\ refused \subseteq Logins
  /\ over \subseteq Logins /\ calls \subseteq Logins \cup {None}

(* "Only the most recent request may write state" (chat-session.ts:31):    *)
(* whatever a page shows comes from the request of the question it shows,  *)
(* however late the others deliver.                                        *)
ShownIsOfTheQuestion ==
  \A v \in Visits : wrote[v] \subseteq {asked[v]} /\ validated[v] \in {None, asked[v]}

(* A page that says it is waiting has a request that can still end it, and *)
(* it is the only one left running for that page; one that says it is done *)
(* shows the validated answer, and no other page does.                     *)
StatusIsTrue ==
  \A v \in Visits :
    /\ status[v] = "streaming" =>
         LET r == asked[v] IN
           r # None /\ controller[v] = r /\ phase[r] \in Live /\ ~aborted[r]
    /\ (status[v] = "done") = (validated[v] # None)
    /\ \A r \in Requests :
         home[r] = v /\ phase[r] \in Live /\ ~aborted[r] =>
           r = asked[v] /\ status[v] = "streaming"

(* What is finished, failed or cancelled stays as it is until the next     *)
(* question: no late event reopens it or adds to it.                       *)
FinishedStays ==
  [][\A v \in Visits : status[v] \in {"done", "cancelled", "error"} =>
       \/ asked'[v] # asked[v]
       \/ /\ status'[v] = status[v] /\ wrote'[v] = wrote[v]
          /\ validated'[v] = validated[v]]_vars

(* Once the 401 to one of its requests was handled a login is over and     *)
(* never comes back, whichever way the request was made.                   *)
RefusedSessionIsOver == session # None => session \notin over

(* Every question's waiting ends, also on a page that was left.            *)
WaitingEnds ==
  \A v \in Visits : status[v] = "streaming" ~> status[v] # "streaming"
=============================================================================
