------------------------------ MODULE MCProxy ------------------------------
(* Instances of Proxy for TLC. *)
EXTENDS Proxy

CONSTANTS name, number    \* "localhost:3310" and the address it resolves to

MCResolved == [a \in Listens |-> number]
=============================================================================
