----------------------------- MODULE MCDataPath -----------------------------
(* Instances of DataPath for TLC. *)
EXTENDS DataPath

Sizes(a, v) == [avg |-> a, var |-> v]

\* Two that are documented, and the default of a request that gives none.  An
\* update from one to another passes through a variation above the average.
MCSlicerAttrs == {Sizes(2, 1), Sizes(4, 3), Sizes(0, 0)}

MCRates == {-1, 0, 1, 2}
=============================================================================
