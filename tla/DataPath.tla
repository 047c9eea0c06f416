------------------------------ MODULE DataPath ------------------------------
(***************************************************************************)
(* A link whose chain is a slicer followed by a bandwidth toxic, with the     *)
(* bytes, sizes, rates and times that ToxicLink abstracts from, and the API   *)
(* updating the toxics meanwhile.  The channels are unbuffered, so a chunk is *)
(* handed over in one step of its sender and its receiver.  Of               *)
(* UpdateToxicJson (toxic_collection.go) this module has what ToxicCollection *)
(* leaves out: the decoder writes into the live toxic, field by field, before *)
(* the toxic is interrupted, and even when it then reports an error.          *)
(***************************************************************************)
EXTENDS Slicer, Bandwidth, ChanReader

CONSTANTS
    Lengths,        \* lengths of datagrams
    MaxDatagrams,   \* bound: datagrams from the source
    MaxUpdates,     \* bound: updates of a toxic
    MaxTime         \* bound: the time that a run of the bandwidth toxic waits

ASSUME DataPathAssumption ==
    /\ Lengths \subseteq Nat
    /\ MaxDatagrams \in Nat /\ MaxUpdates \in Nat /\ MaxTime \in Nat
    /\ \A n \in Lengths : n < MaxDepth

VARIABLES
    total,      \* bytes the source has sent
    datagrams,  \* datagrams the source has sent
    dropped,    \* bytes given up by WriteOutput
    upd,        \* the call of UpdateToxicJson in progress
    updates,    \* number of updates
    raced       \* history: what clients have done that the toxics do not expect

pathVars == <<total, datagrams, dropped, upd, updates, raced>>

vars == <<slicerVars, bandwidthVars, readerVars, pathVars>>

NoUpdate == [pc |-> "none"]

\* Attributes outside of what the fields' comments allow.
Odd(s, r) == (IF SlicerDocumented(s) THEN {} ELSE {"sizes"})
             \cup (IF r > 0 THEN {} ELSE {"rate"})

Init ==
    /\ SlicerInit /\ BandwidthInit /\ ReaderInit
    /\ total = 0 /\ datagrams = 0 /\ dropped = {}
    /\ upd = NoUpdate /\ updates = 0
    /\ raced = Odd(slicer, rate)

-----------------------------------------------------------------------------
(* Data *)

\* ChanWriter.Write: a chunk of its own for every datagram.
SourceWrites(n) ==
    /\ datagrams < MaxDatagrams
    /\ SlicerReceive(Made(total, n))
    /\ total' = total + n /\ datagrams' = datagrams + 1
    /\ UNCHANGED <<bandwidthVars, readerVars, dropped, upd, updates, raced>>

\* ChanWriter.Close, after which the stubs close one after the other.
SourceCloses == SlicerCloses /\ UNCHANGED <<bandwidthVars, readerVars, pathVars>>

InputCloses ==
    /\ spc = "closed" /\ BandwidthCloses
    /\ UNCHANGED <<slicerVars, readerVars, pathVars>>

OutputCloses ==
    /\ bpc = "closed" /\ ReadClosed
    /\ UNCHANGED <<slicerVars, bandwidthVars, pathVars>>

SlicerStep ==
    /\ \/ ChunkReturns \/ ChunkSplits \/ \E r \in Variation : ChunkRecurses(r)
       \/ FirstPiece \/ NextPiece
    /\ UNCHANGED <<bandwidthVars, readerVars, pathVars>>

SlicerToBandwidth ==
    /\ SlicerSent /\ BandwidthReceive(SlicerOutput)
    /\ UNCHANGED <<readerVars, pathVars>>

BandwidthStep ==
    /\ LoopTest \/ PieceDue \/ Reslice \/ LastDue \/ (meter.waited < MaxTime /\ Tick)
    /\ UNCHANGED <<slicerVars, readerVars, pathVars>>

BandwidthGivesUp ==
    /\ FlushTimesOut
    /\ dropped' = dropped \cup {p.lo + k : k \in 1..Size(p)}
    /\ UNCHANGED <<slicerVars, readerVars, total, datagrams, upd, updates, raced>>

BandwidthToReader ==
    /\ BandwidthSent /\ ReadChunk(BandwidthOutput)
    /\ UNCHANGED <<slicerVars, pathVars>>

\* A channel that is closed is ready.
ReaderStep ==
    /\ \/ ReadBuffered /\ (bpc = "closed" => size <= Size(Residue))
       \/ ReadEnds \/ CopyWrites
    /\ UNCHANGED <<slicerVars, bandwidthVars, pathVars>>

-----------------------------------------------------------------------------
(* UpdateToxicJson and ToxicLink.UpdateToxic *)

\* A request for the toxic with the fields of "new".
UpdateToxicJson(toxic, new) ==
    /\ upd = NoUpdate /\ updates < MaxUpdates
    /\ upd' = [pc |-> "decode", toxic |-> toxic, new |-> new, todo |-> DOMAIN new]
    /\ updates' = updates + 1
    /\ UNCHANGED <<slicerVars, bandwidthVars, readerVars, total, datagrams, dropped, raced>>

\* The toxic is using the field that is written.
InUse(f) ==
    \/ f \in {"avg", "var"} /\ spc \in {"test", "split"}
    \/ f = "rate" /\ bpc \in {"tick", "piece", "reslice"}

\* The decoder writes a field of the live toxic.
Decode(f) ==
    /\ upd.pc = "decode" /\ f \in upd.todo
    /\ IF f = "rate" THEN BandwidthDecodes(upd.new[f]) /\ UNCHANGED slicerVars
       ELSE SlicerDecodes(f, upd.new[f]) /\ UNCHANGED bandwidthVars
    /\ upd' = [upd EXCEPT !.todo = @ \ {f}]
    /\ raced' = raced \cup Odd(slicer', rate') \cup (IF InUse(f) THEN {f} ELSE {})
    /\ UNCHANGED <<readerVars, total, datagrams, dropped, updates>>

\* The rest of the body does not decode, and an error is answered; or it does,
\* and the stub is interrupted.
DecodeEnds ==
    /\ upd.pc = "decode" /\ upd.todo = {}
    /\ upd' \in {NoUpdate, [pc |-> "interrupt", toxic |-> upd.toxic]}
    /\ UNCHANGED <<slicerVars, bandwidthVars, readerVars, total, datagrams, dropped, updates, raced>>

StubClosed(toxic) == IF toxic = "slicer" THEN spc = "closed" ELSE bpc = "closed"

\* The closed stub is left alone; a running toxic takes the interrupt.
InterruptToxic ==
    /\ upd.pc = "interrupt"
    /\ \/ StubClosed(upd.toxic) /\ upd' = NoUpdate /\ UNCHANGED <<slicerVars, bandwidthVars>>
       \/ /\ ~StubClosed(upd.toxic)
          /\ \/ upd.toxic = "slicer" /\ SlicerInterrupted /\ UNCHANGED bandwidthVars
             \/ upd.toxic = "bandwidth" /\ BandwidthInterrupted /\ UNCHANGED slicerVars
          /\ upd' = [pc |-> "returned", toxic |-> upd.toxic]
    /\ UNCHANGED <<readerVars, total, datagrams, dropped, updates, raced>>

\* go stub.Run(toxic)
RunToxic ==
    /\ upd.pc = "returned"
    /\ IF upd.toxic = "slicer" THEN SlicerRuns /\ UNCHANGED bandwidthVars
       ELSE BandwidthRuns /\ UNCHANGED slicerVars
    /\ upd' = NoUpdate
    /\ UNCHANGED <<readerVars, total, datagrams, dropped, updates, raced>>

-----------------------------------------------------------------------------
Panicked == spc \in {"panic", "overflow"} \/ bpc = "panic"

Update ==
    \/ \E a \in SlicerAttrs : UpdateToxicJson("slicer", a)
    \/ \E r \in Rates : UpdateToxicJson("bandwidth", [rate |-> r])
    \/ \E f \in {"avg", "var", "rate"} : Decode(f)
    \/ DecodeEnds \/ InterruptToxic \/ RunToxic

Next ==
    /\ ~Panicked
    /\ \/ \E n \in Lengths : SourceWrites(n)
       \/ SourceCloses \/ InputCloses \/ OutputCloses
       \/ SlicerStep \/ SlicerToBandwidth
       \/ BandwidthStep \/ BandwidthGivesUp \/ BandwidthToReader
       \/ ReaderStep
       \/ Update

Spec == Init /\ [][Next]_vars

-----------------------------------------------------------------------------
(* Properties *)

Pcs == {"receive", "test", "split", "send", "wait", "rest", "returned", "closed",
        "panic", "overflow"}

BandwidthPcs == {"receive", "loop", "tick", "piece", "reslice", "last", "final", "flush",
                 "returned", "closed", "panic"}

\* Every variable holds a value of its type.
TypeOK ==
    /\ slicer \in [avg : Nat, var : Nat] /\ spc \in Pcs /\ pkt \in Slices
    /\ todo \in Seq([lo : Int, hi : Int, depth : Nat])
    /\ chunks \in Seq([lo : Int, hi : Int]) /\ nth \in Nat \ {0}
    /\ rate \in Rates /\ bpc \in BandwidthPcs
    /\ p \in Slices /\ piece \in Slices /\ sleep \in Int
    /\ timer \in [elapsed : Nat, due : Int]
    /\ meter \in [sent : Int, waited : Nat, packets : Nat, steady : BOOLEAN]
    /\ size \in BufferSizes /\ buffer \in Slices /\ eof \in BOOLEAN
    /\ rpc \in {"read", "write", "done"} /\ out \in Seq(Nat) /\ dest \in Seq(Nat)
    /\ total \in Nat /\ datagrams \in 0..MaxDatagrams /\ dropped \subseteq 1..total
    /\ upd.pc \in {"none", "decode", "interrupt", "returned"} /\ updates \in 0..MaxUpdates
    /\ raced \subseteq {"sizes", "rate", "avg", "var"}

\* s lists the numbers in S, in ascending order.
Lists(s, S) ==
    /\ {s[i] : i \in 1..Len(s)} = S
    /\ \A i, j \in 1..Len(s) : i < j => s[i] < s[j]

\* No chunk is longer than the read buffer: io.Copy reads the source in chunks
\* of the same 32 KB.  Or the stream has been shorter than two buffers.
Fits == total <= 2 * size \/ \A n \in Lengths : n <= size

\* The bytes that reached the destination and those on the way are, in order,
\* the ones the source sent and no flush gave up: slicing, throttling, updates
\* and small reads lose, repeat and reorder nothing.  Assumed: chunks fit the read
\* buffer (else ChanReader.Read may overwrite what is left of one), and the
\* rate was not written between the cutting of a piece and the cutting of the
\* rest ("Don't drop any data on the floor", bandwidth.go:52).
BytesIntact ==
    (~Panicked /\ "rate" \notin raced /\ Fits)
    => Lists(dest \o ReaderHolds \o BandwidthHolds \o SlicerHolds, (1..total) \ dropped)

\* The pieces that chunk has returned and the parts it has yet to cut run
\* forward from one to the next, from the packet's first byte to its last, and
\* none is empty unless the packet is: "a list of chunk offsets to slice up a
\* packet" (slicer.go:23), such as 0, 18, 18, 43.  Each byte is in one of them.
\* Assumed: the variation is less than the average size ("Must be less than the
\* average size", slicer.go:15), and neither was written while chunk ran.
ChunksTile ==
    LET n == Len(chunks) + Len(todo)
    IN  (/\ spc \in {"test", "split", "send", "wait", "rest"}
         /\ raced \cap {"sizes", "avg", "var"} = {})
        => /\ n > 0 /\ Parts[1].lo = 0 /\ Parts[n].hi = Size(pkt)
           /\ \A k \in 1..n - 1 : Parts[k].hi = Parts[k + 1].lo
           /\ \A k \in 1..n : Parts[k].lo <= Parts[k].hi
           /\ Size(pkt) > 0 => \A k \in 1..n : Parts[k].lo < Parts[k].hi

\* The slicer cuts a packet within its bounds and in a bounded recursion, if
\* the variation is less than the average size and neither is written while
\* chunk runs.
SlicerSafe == spc \in {"panic", "overflow"} => raced \cap {"sizes", "avg", "var"} # {}

\* The bandwidth toxic cuts a packet within its bounds, if the rate is positive
\* and not written while a packet is being sent in pieces.
BandwidthSafe == bpc = "panic" => "rate" \in raced

\* While the rate does not change, the bytes sent in a run of the bandwidth
\* toxic do not exceed the rate over the time it waited, but for the rounding of
\* each packet's time to a millisecond: credit for late timers never adds up
\* to more than the lateness.
RateRespected ==
    (meter.steady /\ rate > 0) =>
        meter.sent <= rate * meter.waited + (rate - 1) * meter.packets
=============================================================================
