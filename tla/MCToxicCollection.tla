------------------------- MODULE MCToxicCollection -------------------------
(* An instance of ToxicCollection for TLC. *)
EXTENDS ToxicCollection

CONSTANTS up, n1, n2

\* Toxics without a name get n1 upstream and n2 downstream.
MCDefaultName == [t \in Types |-> [d \in Directions |-> IF d = up THEN n1 ELSE n2]]
=============================================================================
