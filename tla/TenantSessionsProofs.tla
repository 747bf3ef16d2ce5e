------------------------ MODULE TenantSessionsProofs -----------------------
(***************************************************************************)
(* Tenants stay apart for any number of tenants, connections and requests. *)
(***************************************************************************)
EXTENDS TenantSessions, TLAPS

(* What a connection is set to follows from where the session that holds it *)
(* stands, and a connection nobody holds is set to nothing.                 *)
OpensInOrder == \A s \in Sessions : at[Request(s)] < s[2] => state[s] = "closed"

HoldsInTransaction ==
  \A s \in Sessions : conn[s] # NoConnection <=> state[s] \in InTransaction

Entered ==
  \A s \in Sessions :
    /\ state[s] = "entering" => Scope(s) # Unscoped
    /\ state[s] = "scoping" => Scope(s) # Unscoped /\ role[conn[s]] = "normeon_app"
    /\ state[s] = "ready" /\ Scope(s) = Unscoped => role[conn[s]] = "owner"
    /\ state[s] = "ready" /\ Scope(s) # Unscoped =>
         role[conn[s]] = "normeon_app" /\ tenant[conn[s]] = Scope(s)

IInv ==
  /\ TypeOK
  /\ OpensInOrder
  /\ HoldsInTransaction
  /\ Entered
  /\ PooledConnectionsAreClean
  /\ StatementsAreConfined

-----------------------------------------------------------------------------
(* A session is one of the two of its request, and its scope is a tenant or *)
(* Unscoped.                                                                *)
LEMMA SessionFacts ==
  ASSUME NEW s \in Sessions
  PROVE  /\ Request(s) \in Requests
         /\ s = <<Request(s), s[2]>>
         /\ s[2] \in {1, 2}
         /\ Scope(s) \in Tenants \cup {Unscoped}
BY TenantSessionsAssumption DEF Sessions, Request, Scope, Requests

LEMMA Initially == Init => IInv
<1> SUFFICES ASSUME Init PROVE IInv
  OBVIOUS
<1>1. TypeOK
  BY DEF Init, TypeOK, States
<1>2. OpensInOrder /\ HoldsInTransaction /\ Entered
  BY DEF Init, OpensInOrder, HoldsInTransaction, Entered, InTransaction
<1>3. PooledConnectionsAreClean /\ StatementsAreConfined
  BY DEF Init, PooledConnectionsAreClean, StatementsAreConfined, Free
<1> QED BY <1>1, <1>2, <1>3 DEF IInv

(* A session that is opened: nothing else changes. *)
LEMMA StartStep == ASSUME IInv, NEW r \in Requests, Start(r) PROVE IInv'
<1>1. <<r, 1>> \in Sessions
  BY DEF Sessions
<1>2. \A s \in Sessions : Request(s) = r /\ s[2] = 1 => s = <<r, 1>>
  BY SessionFacts
<1>3. state[<<r, 1>>] = "closed" /\ conn[<<r, 1>>] = NoConnection
  BY <1>1 DEF IInv, OpensInOrder, HoldsInTransaction, InTransaction, Start, Request, TypeOK
<1>4. TypeOK'
  BY <1>1 DEF IInv, TypeOK, Start, States
<1>5. OpensInOrder'
  BY <1>1, <1>2, SessionFacts DEF IInv, OpensInOrder, TypeOK, Start
<1>6. HoldsInTransaction' /\ Entered'
  BY <1>1, <1>3 DEF IInv, TypeOK, HoldsInTransaction, Entered, InTransaction, Start, Scope, Request
<1>7. PooledConnectionsAreClean' /\ StatementsAreConfined'
  BY DEF IInv, PooledConnectionsAreClean, StatementsAreConfined, Free, Start
<1> QED BY <1>4, <1>5, <1>6, <1>7 DEF IInv

LEMMA OpenSecondStep == ASSUME IInv, NEW r \in Requests, OpenSecond(r) PROVE IInv'
<1>1. <<r, 2>> \in Sessions
  BY DEF Sessions, OpenSecond
<1>2. \A s \in Sessions : Request(s) = r => s = <<r, 1>> \/ s = <<r, 2>>
  BY SessionFacts
<1>3. state[<<r, 2>>] = "closed" /\ conn[<<r, 2>>] = NoConnection
  BY <1>1 DEF IInv, OpensInOrder, HoldsInTransaction, InTransaction, OpenSecond, Request, TypeOK
<1>4. TypeOK'
  BY <1>1 DEF IInv, TypeOK, OpenSecond, States
<1>5. OpensInOrder'
  BY <1>1, <1>2, SessionFacts DEF IInv, OpensInOrder, TypeOK, OpenSecond
<1>6. HoldsInTransaction' /\ Entered'
  BY <1>1, <1>3 DEF IInv, TypeOK, HoldsInTransaction, Entered, InTransaction, OpenSecond, Scope, Request
<1>7. PooledConnectionsAreClean' /\ StatementsAreConfined'
  BY DEF IInv, PooledConnectionsAreClean, StatementsAreConfined, Free, OpenSecond
<1> QED BY <1>4, <1>5, <1>6, <1>7 DEF IInv

(* The connections of the closed sessions lose their settings; no other     *)
(* session holds one of them.                                               *)
LEMMA EndStep == ASSUME IInv, NEW r \in Requests, End(r) PROVE IInv'
<1> DEFINE cs == {conn[s] : s \in Own(r)}
<1>1. ASSUME NEW s \in Sessions, s \notin Own(r), conn[s] # NoConnection
      PROVE  conn[s] \notin cs
  BY <1>1 DEF IInv, PooledConnectionsAreClean, Own
<1>2. TypeOK'
  BY DEF IInv, TypeOK, End, EndTransactions, States
<1>3. OpensInOrder'
  BY SessionFacts DEF IInv, TypeOK, OpensInOrder, End, Own
<1>4. HoldsInTransaction'
  BY DEF IInv, TypeOK, HoldsInTransaction, End, InTransaction
<1>5. Entered'
  <2> SUFFICES ASSUME NEW s \in Sessions, s \notin Own(r), state[s] \in InTransaction
               PROVE  role'[conn[s]] = role[conn[s]] /\ tenant'[conn[s]] = tenant[conn[s]]
    BY DEF IInv, TypeOK, Entered, End, InTransaction, Scope, Request
  <2>1. conn[s] \in Connections /\ conn[s] \notin cs
    BY <1>1 DEF IInv, TypeOK, HoldsInTransaction
  <2> QED BY <2>1 DEF IInv, TypeOK, End, EndTransactions
<1>6. PooledConnectionsAreClean'
  <2>1. ASSUME NEW c \in Free' PROVE role'[c] = "owner" /\ tenant'[c] = Unscoped
    <3>1. CASE c \in cs
      BY <3>1 DEF End, EndTransactions, Free
    <3>2. CASE c \notin cs
      <4>1. c \in Free
        BY <2>1, <3>2 DEF Free, End, IInv, TypeOK
      <4> QED BY <3>2, <4>1 DEF End, EndTransactions, IInv, PooledConnectionsAreClean, Free
    <3> QED BY <3>1, <3>2
  <2>2. ASSUME NEW s1 \in Sessions, NEW s2 \in Sessions, conn'[s1] = conn'[s2], s1 # s2
        PROVE  conn'[s1] = NoConnection
    BY <2>2 DEF End, IInv, PooledConnectionsAreClean, TypeOK
  <2> QED BY <2>1, <2>2 DEF PooledConnectionsAreClean
<1>7. StatementsAreConfined'
  BY DEF End, IInv, StatementsAreConfined
<1> QED BY <1>2, <1>3, <1>4, <1>5, <1>6, <1>7 DEF IInv

-----------------------------------------------------------------------------
LEMMA WantStep == ASSUME IInv, NEW s \in Sessions, Want(s) PROVE IInv'
<1>1. TypeOK' /\ OpensInOrder'
  BY SessionFacts DEF IInv, TypeOK, OpensInOrder, Want, InUse, States
<1>2. HoldsInTransaction' /\ Entered'
  BY DEF IInv, TypeOK, HoldsInTransaction, Entered, InTransaction, Want, InUse, Scope, Request
<1>3. PooledConnectionsAreClean' /\ StatementsAreConfined'
  BY DEF IInv, PooledConnectionsAreClean, StatementsAreConfined, Free, Want
<1> QED BY <1>1, <1>2, <1>3 DEF IInv

(* The connection was free, hence clean: as an unscoped session needs it. *)
LEMMA CheckoutStep == ASSUME IInv, NEW s \in Sessions, Checkout(s) PROVE IInv'
<1> PICK c \in Free : conn' = [conn EXCEPT ![s] = c]
  BY DEF Checkout
<1>1. c \in Connections /\ role[c] = "owner" /\ \A other \in Sessions : conn[other] # c
  BY DEF Free, IInv, PooledConnectionsAreClean
<1>2. TypeOK' /\ OpensInOrder'
  BY <1>1, SessionFacts DEF IInv, TypeOK, OpensInOrder, Checkout, InUse, States, InTransaction
<1>3. HoldsInTransaction'
  BY <1>1, TenantSessionsAssumption DEF IInv, TypeOK, HoldsInTransaction, InTransaction, Checkout
<1>4. Entered'
  BY <1>1 DEF IInv, TypeOK, Entered, Checkout, Scope, Request
<1>5. PooledConnectionsAreClean'
  <2>1. conn[s] = NoConnection
    BY DEF IInv, HoldsInTransaction, InTransaction, Checkout, InUse
  <2>2. Free' \subseteq Free
    BY <1>1, <2>1, TenantSessionsAssumption DEF IInv, TypeOK, Free
  <2>3. \A free \in Free' : role'[free] = "owner" /\ tenant'[free] = Unscoped
    BY <2>2 DEF IInv, PooledConnectionsAreClean, Checkout
  <2>4. ASSUME NEW s1 \in Sessions, NEW s2 \in Sessions, conn'[s1] = conn'[s2], s1 # s2
        PROVE  conn'[s1] = NoConnection
    BY <1>1, <2>4 DEF IInv, TypeOK, PooledConnectionsAreClean
  <2> QED BY <2>3, <2>4 DEF PooledConnectionsAreClean
<1>6. StatementsAreConfined'
  BY DEF IInv, StatementsAreConfined, Checkout
<1> QED BY <1>2, <1>3, <1>4, <1>5, <1>6 DEF IInv

(* A setting changes on the connection of this session alone. *)
LEMMA EnterRoleStep == ASSUME IInv, NEW s \in Sessions, EnterRole(s) PROVE IInv'
<1>1. conn[s] \in Connections /\ \A other \in Sessions : conn[other] = conn[s] => other = s
  BY DEF IInv, TypeOK, HoldsInTransaction, InTransaction, PooledConnectionsAreClean, EnterRole, InUse
<1>2. TypeOK' /\ OpensInOrder'
  BY <1>1, SessionFacts DEF IInv, TypeOK, OpensInOrder, EnterRole, InUse, States, InTransaction
<1>3. HoldsInTransaction'
  BY DEF IInv, TypeOK, HoldsInTransaction, InTransaction, EnterRole, InUse
<1>4. Entered'
  BY <1>1 DEF IInv, TypeOK, Entered, EnterRole, InUse, Scope, Request
<1>5. PooledConnectionsAreClean' /\ StatementsAreConfined'
  BY <1>1 DEF IInv, TypeOK, PooledConnectionsAreClean, StatementsAreConfined, Free, EnterRole
<1> QED BY <1>2, <1>3, <1>4, <1>5 DEF IInv

LEMMA EnterTenantStep == ASSUME IInv, NEW s \in Sessions, EnterTenant(s) PROVE IInv'
<1>1. conn[s] \in Connections /\ \A other \in Sessions : conn[other] = conn[s] => other = s
  BY DEF IInv, TypeOK, HoldsInTransaction, InTransaction, PooledConnectionsAreClean, EnterTenant, InUse
<1>2. TypeOK' /\ OpensInOrder'
  BY <1>1, SessionFacts DEF IInv, TypeOK, OpensInOrder, EnterTenant, InUse, States, InTransaction
<1>3. HoldsInTransaction'
  BY DEF IInv, TypeOK, HoldsInTransaction, InTransaction, EnterTenant, InUse
<1>4. Entered'
  BY <1>1 DEF IInv, TypeOK, Entered, EnterTenant, InUse, Scope, Request
<1>5. PooledConnectionsAreClean' /\ StatementsAreConfined'
  BY <1>1 DEF IInv, TypeOK, PooledConnectionsAreClean, StatementsAreConfined, Free, EnterTenant
<1> QED BY <1>2, <1>3, <1>4, <1>5 DEF IInv

(* What a statement reaches is decided by the settings of its connection. *)
LEMMA ExecuteStep == ASSUME IInv, NEW s \in Sessions, Execute(s) PROVE IInv'
<1>1. Reachable(conn[s]) = IF Scope(s) = Unscoped THEN Tenants ELSE {Scope(s)}
  BY ZenonT(60), SessionFacts DEF IInv, Entered, Execute, InUse, Reachable
<1>2. Reachable(conn[s]) \in SUBSET Tenants
  BY DEF Reachable
<1>3. TypeOK'
  BY <1>2 DEF IInv, TypeOK, Execute
<1>4. StatementsAreConfined'
  BY <1>1 DEF IInv, TypeOK, StatementsAreConfined, Execute, Scope, Request
<1>5. OpensInOrder' /\ HoldsInTransaction' /\ Entered' /\ PooledConnectionsAreClean'
  BY DEF IInv, OpensInOrder, HoldsInTransaction, Entered, PooledConnectionsAreClean, Free,
         Execute, Scope, Request
<1> QED BY <1>3, <1>4, <1>5 DEF IInv

LEMMA StatementFailsStep == ASSUME IInv, NEW s \in Sessions, StatementFails(s) PROVE IInv'
<1>1. TypeOK' /\ OpensInOrder'
  BY SessionFacts DEF IInv, TypeOK, OpensInOrder, StatementFails, States, InTransaction
<1>2. HoldsInTransaction' /\ Entered'
  BY DEF IInv, TypeOK, HoldsInTransaction, Entered, InTransaction, StatementFails, Scope, Request
<1>3. PooledConnectionsAreClean' /\ StatementsAreConfined'
  BY DEF IInv, PooledConnectionsAreClean, StatementsAreConfined, Free, StatementFails
<1> QED BY <1>1, <1>2, <1>3 DEF IInv

LEMMA FinishStep == ASSUME IInv, NEW s \in Sessions, Finish(s) PROVE IInv'
<1>1. conn[s] \in Connections /\ \A other \in Sessions : conn[other] = conn[s] => other = s
  BY DEF IInv, TypeOK, HoldsInTransaction, InTransaction, PooledConnectionsAreClean, Finish, InUse
<1>2. TypeOK' /\ OpensInOrder'
  BY <1>1, SessionFacts DEF IInv, TypeOK, OpensInOrder, Finish, InUse, States, InTransaction,
                            EndTransactions
<1>3. HoldsInTransaction'
  BY DEF IInv, TypeOK, HoldsInTransaction, InTransaction, Finish
<1>4. Entered'
  <2> SUFFICES ASSUME NEW other \in Sessions, other # s, state[other] \in InTransaction
               PROVE  /\ role'[conn[other]] = role[conn[other]]
                      /\ tenant'[conn[other]] = tenant[conn[other]]
    BY DEF IInv, TypeOK, Entered, Finish, InTransaction, Scope, Request
  <2>1. conn[other] \in Connections /\ conn[other] # conn[s]
    BY <1>1 DEF IInv, TypeOK, HoldsInTransaction
  <2> QED BY <2>1 DEF IInv, TypeOK, Finish, EndTransactions
<1>5. PooledConnectionsAreClean'
  <2>1. ASSUME NEW c \in Free' PROVE role'[c] = "owner" /\ tenant'[c] = Unscoped
    <3>1. CASE c = conn[s]
      BY <3>1, <1>1 DEF Finish, EndTransactions
    <3>2. CASE c # conn[s]
      <4>1. c \in Free
        BY <2>1, <3>2 DEF Free, Finish, IInv, TypeOK
      <4> QED BY <3>2, <4>1 DEF Finish, EndTransactions, IInv, PooledConnectionsAreClean, Free
    <3> QED BY <3>1, <3>2
  <2>2. ASSUME NEW s1 \in Sessions, NEW s2 \in Sessions, conn'[s1] = conn'[s2], s1 # s2
        PROVE  conn'[s1] = NoConnection
    BY <2>2 DEF Finish, IInv, PooledConnectionsAreClean, TypeOK
  <2> QED BY <2>1, <2>2 DEF PooledConnectionsAreClean
<1>6. StatementsAreConfined'
  BY DEF Finish, IInv, StatementsAreConfined
<1> QED BY <1>2, <1>3, <1>4, <1>5, <1>6 DEF IInv

LEMMA Inductive == IInv /\ [Next]_vars => IInv'
<1> SUFFICES ASSUME IInv, [Next]_vars PROVE IInv'
  OBVIOUS
<1>1. ASSUME NEW r \in Requests, Start(r) \/ OpenSecond(r) \/ End(r) PROVE IInv'
  BY <1>1, StartStep, OpenSecondStep, EndStep
<1>2. ASSUME NEW s \in Sessions, Use(s) PROVE IInv'
  <2>1. CASE Want(s) \/ Checkout(s) \/ EnterRole(s) \/ EnterTenant(s)
    BY <2>1, WantStep, CheckoutStep, EnterRoleStep, EnterTenantStep
  <2>2. CASE CheckoutTimesOut(s)
    BY <2>2, EndStep, SessionFacts DEF CheckoutTimesOut
  <2>3. CASE Execute(s) \/ StatementFails(s) \/ Finish(s)
    BY <2>3, ExecuteStep, StatementFailsStep, FinishStep
  <2> QED BY <1>2, <2>1, <2>2, <2>3 DEF Use
<1>3. CASE UNCHANGED vars
  BY <1>3 DEF vars, IInv, TypeOK, OpensInOrder, HoldsInTransaction, Entered, Free,
              PooledConnectionsAreClean, StatementsAreConfined, Scope, Request
<1> QED BY <1>1, <1>2, <1>3 DEF Next

LEMMA Invariant == Spec => []IInv
<1>1. Init => IInv
  BY Initially
<1>2. IInv /\ [Next]_vars => IInv'
  BY Inductive
<1> QED BY <1>1, <1>2, PTL DEF Spec

(* Type correctness of the sessions and connections. *)
THEOREM TypeCorrect == Spec => []TypeOK
<1>1. IInv => TypeOK
  BY DEF IInv
<1> QED BY <1>1, Invariant, PTL

(* No statement of a tenant's session reaches another tenant's rows, and    *)
(* the daily limit counts everybody's, whatever the number of requests and  *)
(* connections and however they fail.                                       *)
THEOREM TenantsStayApart == Spec => []StatementsAreConfined
<1>1. IInv => StatementsAreConfined
  BY DEF IInv
<1> QED BY <1>1, Invariant, PTL

(* A pooled connection carries no tenant over, and has one user at a time. *)
THEOREM PoolStaysClean == Spec => []PooledConnectionsAreClean
<1>1. IInv => PooledConnectionsAreClean
  BY DEF IInv
<1> QED BY <1>1, Invariant, PTL
=============================================================================
