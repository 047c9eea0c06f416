----------------------------- MODULE MCConsole ------------------------------
(* Instance of Console for TLC. *)
EXTENDS Console

CONSTANTS c1, a1

\* One client runs commands of two requests, or creates what another deletes.
MCUses == [c \in Clients |-> IF c = c1 THEN {"create", "toggle", "delete"} ELSE Kinds]

MCConfig == [n \in Names |-> [listen |-> a1, enabled |-> TRUE, toxic |-> None]]
=============================================================================
