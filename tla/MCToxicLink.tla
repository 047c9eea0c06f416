---------------------------- MODULE MCToxicLink ----------------------------
(* Instances of ToxicLink for TLC. *)
EXTENDS ToxicLink

CONSTANTS n0, lat, bw, sl, rst    \* the hidden noop and one toxic of each type

MCKind ==
    [t \in Toxics |-> CASE t = lat -> "latency"
                        [] t = bw  -> "bandwidth"
                        [] t = sl  -> "slicer"
                        [] t = rst -> "reset_peer"
                        [] OTHER   -> "noop"]

\* GetBufferSize: only latency is buffered; 1024 is scaled down to 1.
MCBufferSize == [t \in Toxics |-> IF t = lat THEN 1 ELSE 0]

NoopOnly == {<<n0>>}
LatencyThenBandwidth == {<<n0, lat, bw>>}
LatencyThenReset == {<<n0, lat, rst>>}
BandwidthThenLatency == {<<n0, bw, lat>>}
=============================================================================
