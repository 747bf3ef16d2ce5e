--------------------------- MODULE MCChatSession ---------------------------
(* Small instances of ChatSession. *)
EXTENDS ChatSession
MCRequests == 1..2
MCVisits == 1..2
MCLogins == 1..2
=============================================================================
