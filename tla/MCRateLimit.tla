---------------------------- MODULE MCRateLimit ----------------------------
(* Small instances of RateLimit. *)
EXTENDS RateLimit, TLC

CONSTANTS login, questions, a

(* Two requests in three ticks of one rule, one in four of the other. *)
MCLimit == [r \in Rules |-> IF r = login THEN 2 ELSE 1]
MCWindow == [r \in Rules |-> IF r = login THEN 3 ELSE 4]
=============================================================================
