------------------------------- MODULE MCApi -------------------------------
(* Instances of Api for TLC. *)
EXTENDS Api

CONSTANTS n1, n2, name, number, other, bad, u1, u2    \* "name" resolves to "number"

MCResolved == [a \in Listens |-> IF a = name THEN number ELSE a]

Entry(n, l, u, e) == [name |-> n, listen |-> l, upstream |-> u, enabled |-> e]

\* A pair of proxies that compete for one address, and a proxy that moves.
MCPopulations ==
    {<<Entry(n1, name, u1, TRUE), Entry(n2, number, u1, TRUE)>>,
     <<Entry(n1, other, u2, FALSE)>>}

Patching(l, u, e) == [listen |-> l, upstream |-> u, enabled |-> e]

MCPatches ==
    {Patching(Same, Same, TRUE), Patching(Same, Same, FALSE),
     Patching(other, Same, Same), Patching(Same, u2, Same)}
=============================================================================
