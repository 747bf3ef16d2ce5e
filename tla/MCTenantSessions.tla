-------------------------- MODULE MCTenantSessions -------------------------
(* Small instances of TenantSessions. *)
EXTENDS TenantSessions, TLC

CONSTANTS t1, t2, c1, c2, read, question, upload

(* The upload is another tenant's than the rest.  A login's session would be *)
(* like the first one of the question.                                      *)
MCTenant == [r \in Requests |-> IF r = upload THEN t2 ELSE t1]
=============================================================================
