--------------------------- MODULE TenantSessions --------------------------
(***************************************************************************)
(* Database sessions over the connection pool (db/session.py, api/deps.py, *)
(* migration 0004).                                                        *)
(*                                                                         *)
(* A session takes a connection with the first statement of a transaction  *)
(* and gives it back when the transaction ends.  A tenant's session starts *)
(* every transaction with SET LOCAL ROLE and set_config, under which the   *)
(* policies let it see the rows of its tenant only; an unscoped session    *)
(* acts as the connecting role, which owns the tables and sees them all.   *)
(* Some requests open a second session while the first one stays open: the *)
(* framework closes a request's sessions when its response, background     *)
(* tasks included, is over (chat_stream relies on that).                   *)
(***************************************************************************)
EXTENDS Naturals, FiniteSets

CONSTANTS
  Tenants,
  Connections,  \* the connections the engine's pool may open
  Logins,       \* login, me, health: one unscoped session
  Reads,        \* requests with the caller's tenant session only
  Questions,    \* chat: the unscoped session of the daily limit, then the tenant's
  Uploads,      \* the request's session, then the one of the background task
  Tenant,       \* Tenant[r]: the tenant in the token of request r
  Unscoped,     \* the scope of a session that has no tenant
  NoConnection

Requests == Logins \cup Reads \cup Questions \cup Uploads

(* A request's first session, and its second if it has one. *)
Sessions == (Requests \X {1}) \cup ((Questions \cup Uploads) \X {2})

ASSUME TenantSessionsAssumption ==
  /\ Logins \cap Reads = {} /\ Logins \cap Questions = {} /\ Logins \cap Uploads = {}
  /\ Reads \cap Questions = {} /\ Reads \cap Uploads = {} /\ Questions \cap Uploads = {}
  /\ Tenant \in [Requests -> Tenants]
  /\ Unscoped \notin Tenants
  /\ NoConnection \notin Connections

Request(s) == s[1]

(* session.info: tenant_session(tenant_id), or get_session. *)
Scope(s) ==
  IF s[2] = 1 /\ Request(s) \in Logins \cup Questions THEN Unscoped ELSE Tenant[Request(s)]

VARIABLES
  at,      \* at[r]: 0 before the request, then the session it uses, 3 when it is over
  state,   \* state[s]: where session s stands
  conn,    \* conn[s]: the connection of its transaction, or NoConnection
  role,    \* role[c]: the role in force on connection c
  tenant,  \* tenant[c]: app.tenant_id in force on it, Unscoped when unset
  saw      \* saw[s]: for each statement s ran, the tenants whose rows it could reach

vars == <<at, state, conn, role, tenant, saw>>

(* A session between begin and commit or rollback. *)
InTransaction == {"entering", "scoping", "ready", "aborted"}
States == {"closed", "open", "waiting"} \cup InTransaction

Init ==
  /\ at = [r \in Requests |-> 0]
  /\ state = [s \in Sessions |-> "closed"]
  /\ conn = [s \in Sessions |-> NoConnection]
  /\ role = [c \in Connections |-> "owner"]
  /\ tenant = [c \in Connections |-> Unscoped]
  /\ saw = [s \in Sessions |-> {}]

Free == {c \in Connections : \A s \in Sessions : conn[s] # c}

(* The session a request is using: the handler's code is sequential. *)
InUse(s, where) == at[Request(s)] = s[2] /\ state[s] = where

-----------------------------------------------------------------------------
(* Requests. *)

Start(r) ==
  /\ at[r] = 0
  /\ at' = [at EXCEPT ![r] = 1]
  /\ state' = [state EXCEPT ![<<r, 1>>] = "open"]
  /\ UNCHANGED <<conn, role, tenant, saw>>

(* A question within its daily limit goes on with TenantSession; an upload  *)
(* that was answered goes on in its background task, with a session of its  *)
(* own.  The transaction of the first session is left open: the count and   *)
(* the lookup or refresh before it end with no commit.  (Without a daily    *)
(* limit nothing is counted.)                                               *)
OpenSecond(r) ==
  /\ r \in Questions \cup Uploads
  /\ at[r] = 1
  /\ state[<<r, 1>>] = "ready" \/ (r \in Questions /\ state[<<r, 1>>] = "open")
  /\ at' = [at EXCEPT ![r] = 2]
  /\ state' = [state EXCEPT ![<<r, 2>>] = "open"]
  /\ UNCHANGED <<conn, role, tenant, saw>>

(* Mutant: set_config with is_local false. *)
KeepTenant(cs) ==
  /\ role' = [c \in Connections |-> IF c \in cs THEN "owner" ELSE role[c]]
  /\ UNCHANGED tenant

(* What is LOCAL ends with the transaction, committed or not. *)
EndTransactions(cs) ==
  /\ role' = [c \in Connections |-> IF c \in cs THEN "owner" ELSE role[c]]
  /\ tenant' = [c \in Connections |-> IF c \in cs THEN Unscoped ELSE tenant[c]]

Own(r) == {s \in Sessions : Request(s) = r}

(* The response is over, an exception went through, or the request was      *)
(* cancelled: all its sessions are closed, the connections go back.         *)
End(r) ==
  /\ at[r] \in {1, 2}
  /\ at' = [at EXCEPT ![r] = 3]
  /\ state' = [s \in Sessions |-> IF s \in Own(r) THEN "closed" ELSE state[s]]
  /\ conn' = [s \in Sessions |-> IF s \in Own(r) THEN NoConnection ELSE conn[s]]
  /\ EndTransactions({conn[s] : s \in Own(r)})
  /\ UNCHANGED saw

-----------------------------------------------------------------------------
(* Transactions. *)

(* The first statement since the session was opened, or since a commit. *)
Want(s) ==
  /\ InUse(s, "open")
  /\ state' = [state EXCEPT ![s] = "waiting"]
  /\ UNCHANGED <<at, conn, role, tenant, saw>>

(* Mutant: the listener runs once per session, not once per transaction. *)
CheckoutScopedOnce(s) ==
  /\ InUse(s, "waiting")
  /\ \E c \in Free : conn' = [conn EXCEPT ![s] = c]
  /\ state' = [state EXCEPT ![s] =
       IF Scope(s) = Unscoped \/ saw[s] # {} THEN "ready" ELSE "entering"]
  /\ UNCHANGED <<at, role, tenant, saw>>

(* Mutant: a connection is lent twice. *)
CheckoutAny(s) ==
  /\ InUse(s, "waiting")
  /\ \E c \in Connections : conn' = [conn EXCEPT ![s] = c]
  /\ state' = [state EXCEPT ![s] = IF Scope(s) = Unscoped THEN "ready" ELSE "entering"]
  /\ UNCHANGED <<at, role, tenant, saw>>

(* A connection of the pool; after_begin runs before anything else does. *)
Checkout(s) ==
  /\ InUse(s, "waiting")
  /\ \E c \in Free : conn' = [conn EXCEPT ![s] = c]
  /\ state' = [state EXCEPT ![s] = IF Scope(s) = Unscoped THEN "ready" ELSE "entering"]
  /\ UNCHANGED <<at, role, tenant, saw>>

(* Mutant: wait for a connection however long it takes. *)
NeverTimesOut(s) == FALSE

(* The pool's timeout: the exception ends the request. *)
CheckoutTimesOut(s) ==
  /\ InUse(s, "waiting")
  /\ Free = {}
  /\ End(Request(s))

(* _enter_tenant_scope: SET LOCAL ROLE normeon_app ... *)
EnterRole(s) ==
  /\ InUse(s, "entering")
  /\ role' = [role EXCEPT ![conn[s]] = "normeon_app"]
  /\ state' = [state EXCEPT ![s] = "scoping"]
  /\ UNCHANGED <<at, conn, tenant, saw>>

(* ... then set_config('app.tenant_id', tenant_id, true). *)
EnterTenant(s) ==
  /\ InUse(s, "scoping")
  /\ tenant' = [tenant EXCEPT ![conn[s]] = Scope(s)]
  /\ state' = [state EXCEPT ![s] = "ready"]
  /\ UNCHANGED <<at, conn, role, saw>>

(* The policies apply to normeon_app and compare tenant_id with             *)
(* app.tenant_id, which matches no row when it is unset; the tables' owner  *)
(* is not subject to them.                                                  *)
Reachable(c) ==
  IF role[c] = "owner" THEN Tenants ELSE {t \in Tenants : tenant[c] = t}

(* Any statement on documents, chunks or query_logs, filtered or not. *)
Execute(s) ==
  /\ InUse(s, "ready")
  /\ saw' = [saw EXCEPT ![s] = @ \cup {Reachable(conn[s])}]
  /\ UNCHANGED <<at, state, conn, role, tenant>>

(* The database refuses a statement, the listener's own included: until a   *)
(* rollback it refuses every other one.                                     *)
StatementFails(s) ==
  /\ at[Request(s)] = s[2]
  /\ state[s] \in {"entering", "scoping", "ready"}
  /\ state' = [state EXCEPT ![s] = "aborted"]
  /\ UNCHANGED <<at, conn, role, tenant, saw>>

(* session.commit() in the middle of a request, or session.rollback() after *)
(* an IntegrityError.  Only tenants' sessions do either.                    *)
Finish(s) ==
  /\ Scope(s) # Unscoped
  /\ InUse(s, "ready") \/ InUse(s, "aborted")
  /\ state' = [state EXCEPT ![s] = "open"]
  /\ conn' = [conn EXCEPT ![s] = NoConnection]
  /\ EndTransactions({conn[s]})
  /\ UNCHANGED <<at, saw>>

-----------------------------------------------------------------------------
Use(s) ==
  \/ Want(s) \/ Checkout(s) \/ CheckoutTimesOut(s) \/ EnterRole(s) \/ EnterTenant(s)
  \/ Execute(s) \/ StatementFails(s) \/ Finish(s)

Next ==
  \/ \E r \in Requests : Start(r) \/ OpenSecond(r) \/ End(r)
  \/ \E s \in Sessions : Use(s)

Spec == Init /\ [][Next]_vars

IsWaiting(r) == \E s \in Own(r) : state[s] = "waiting"

(* The pool hands out a connection or gives up after 30 seconds; a request  *)
(* that gets its connections every time ends, since it has finitely many    *)
(* transactions and whatever else it waits for has a timeout.               *)
Fairness ==
  /\ \A s \in Sessions : WF_vars(Checkout(s) \/ CheckoutTimesOut(s))
  /\ \A r \in Requests : SF_vars(~ IsWaiting(r) /\ End(r))

FairSpec == Spec /\ Fairness

-----------------------------------------------------------------------------
(* Every variable has its type. *)
TypeOK ==
  /\ at \in [Requests -> 0 .. 3]
  /\ state \in [Sessions -> States]
  /\ conn \in [Sessions -> Connections \cup {NoConnection}]
  /\ role \in [Connections -> {"owner", "normeon_app"}]
  /\ tenant \in [Connections -> Tenants \cup {Unscoped}]
  /\ saw \in [Sessions -> SUBSET SUBSET Tenants]

(* ADR 0004: every statement of a tenant's session, also the one that       *)
(* forgot its filter, reaches that tenant's rows and no others, in whatever *)
(* transaction of the session and on whatever connection it runs; and the   *)
(* count of the daily limit reaches every tenant's rows, as budget.py needs *)
(* it to, although tenants' sessions used the same connection before.       *)
StatementsAreConfined ==
  \A s \in Sessions :
    saw[s] \subseteq {IF Scope(s) = Unscoped THEN Tenants ELSE {Scope(s)}}

(* "A pooled connection never carries a tenant over to the next request",   *)
(* and none is lent to two sessions at a time, however requests fail.       *)
PooledConnectionsAreClean ==
  /\ \A c \in Free : role[c] = "owner" /\ tenant[c] = Unscoped
  /\ \A s1, s2 \in Sessions : conn[s1] = conn[s2] /\ s1 # s2 => conn[s1] = NoConnection

(* Every request comes to an end, although questions and uploads wait for a *)
(* second connection while they hold a first one, so that they can all be   *)
(* waiting for one another.                                                 *)
EveryRequestEnds ==
  \A r \in Requests : at[r] \in {1, 2} ~> at[r] = 3

(* documents.py, _process_in_background: the request's session is "already  *)
(* torn down by then": the task does not keep a second connection busy.     *)
RequestIsTornDown ==
  \A r \in Uploads : at[r] = 2 => conn[<<r, 1>>] = NoConnection
=============================================================================
