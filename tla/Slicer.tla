------------------------------- MODULE Slicer -------------------------------
(***************************************************************************)
(* SlicerToxic.Pipe (toxics/slicer.go).  The recursion of chunk is a stack    *)
(* of calls that are still to be made, each with the depth at which it is     *)
(* made.  AverageSize and SizeVariation are fields of the toxic, which an     *)
(* update writes while Pipe runs, so each call reads them in steps of its     *)
(* own: once to test for the base case, once to move the middle.             *)
(***************************************************************************)
EXTENDS GoSlice, Sequences

CONSTANTS
    SlicerAttrs,    \* attributes a client may give: [avg, var]
    MaxDepth        \* calls of chunk that fit on a goroutine's stack

ASSUME SlicerAssumption ==
    /\ SlicerAttrs # {} /\ SlicerAttrs \subseteq [avg : Nat, var : Nat]
    /\ MaxDepth \in Nat

VARIABLES
    slicer,     \* the toxic's fields
    spc,        \* where Pipe is
    pkt,        \* c.Data
    todo,       \* calls of chunk to be made: [lo, hi, depth]
    chunks,     \* the pieces that chunk returned: [lo, hi]
    nth         \* the piece being sent

slicerVars == <<slicer, spc, pkt, todo, chunks, nth>>

\* "Must be less than the average size" (slicer.go:15).
SlicerDocumented(a) == a.var < a.avg

SlicerInit ==
    /\ slicer \in SlicerAttrs
    /\ spc = "receive"
    /\ pkt = Made(0, 0)
    /\ todo = <<>> /\ chunks = <<>> /\ nth = 1

-----------------------------------------------------------------------------
\* A call of chunk.
Call(lo, hi, depth) == [lo |-> lo, hi |-> hi, depth |-> depth]

\* Mutant: the loop over the pieces starts at 0.
SlicerReceiveFromZero(c) ==
    /\ spc = "receive"
    /\ pkt' = c
    /\ todo' = <<Call(0, Size(c), 1)>>
    /\ chunks' = <<>> /\ nth' = 0
    /\ spc' = "test"
    /\ UNCHANGED slicer

\* c := <-stub.Input, and the outer call of chunk.
SlicerReceive(c) ==
    /\ spc = "receive"
    /\ pkt' = c
    /\ todo' = <<Call(0, Size(c), 1)>>
    /\ chunks' = <<>> /\ nth' = 1
    /\ spc' = "test"
    /\ UNCHANGED slicer

\* Input is closed: the stub closes its Output.
SlicerCloses ==
    /\ spc = "receive"
    /\ spc' = "closed"
    /\ UNCHANGED <<slicer, pkt, todo, chunks, nth>>

\* Mutant: the variation is forgotten.
SmallEnoughAverage(c) == c.hi - c.lo <= slicer.avg

SmallEnough(c) == (c.hi - c.lo) - slicer.avg <= slicer.var

\* Base case: the piece is returned.
ChunkReturns ==
    /\ spc = "test" /\ todo # <<>>
    /\ SmallEnough(Head(todo))
    /\ chunks' = Append(chunks, [lo |-> Head(todo).lo, hi |-> Head(todo).hi])
    /\ todo' = Tail(todo)
    /\ UNCHANGED <<slicer, spc, pkt, nth>>

ChunkSplits ==
    /\ spc = "test" /\ todo # <<>>
    /\ ~SmallEnough(Head(todo))
    /\ spc' = "split"
    /\ UNCHANGED <<slicer, pkt, todo, chunks, nth>>

\* Mutant: the middle is moved by the average size.
VariationByAverage == IF slicer.var > 0 THEN -slicer.avg .. slicer.avg - 1 ELSE {0}

\* rand.Intn(var * 2) - var, or nothing if the variation is not positive.
Variation == IF slicer.var > 0 THEN -slicer.var .. slicer.var - 1 ELSE {0}

Middle(c, r) == c.lo + (c.hi - c.lo) \div 2 + r

\* The calls for the left and the right part.
Halves(c, mid) == <<Call(c.lo, mid, c.depth + 1), Call(mid, c.hi, c.depth + 1)>>

\* The middle is moved by r and both parts are cut up.  The goroutine's stack
\* may overflow, which ends the process.
ChunkRecurses(r) ==
    /\ spc = "split" /\ r \in Variation
    /\ IF Head(todo).depth >= MaxDepth THEN spc' = "overflow" /\ UNCHANGED todo
       ELSE /\ todo' = Halves(Head(todo), Middle(Head(todo), r)) \o Tail(todo)
            /\ spc' = "test"
    /\ UNCHANGED <<slicer, pkt, chunks, nth>>

\* c.Data[chunks[i-1]:chunks[i]] is cut out for sending.
Sends(k) == IF InBounds(pkt, chunks[k].lo, chunks[k].hi) THEN "send" ELSE "panic"

FirstPiece ==
    /\ spc = "test" /\ todo = <<>>
    /\ spc' = Sends(1)
    /\ UNCHANGED <<slicer, pkt, todo, chunks, nth>>

\* The loop over the pieces ends; its locals go out of scope.
PacketDone(pc) == spc' = pc /\ pkt' = Made(0, 0) /\ chunks' = <<>> /\ nth' = 1

\* The timer of the piece that was sent fires.
NextPiece ==
    /\ spc = "wait"
    /\ IF nth = Len(chunks) THEN PacketDone("receive")
       ELSE spc' = Sends(nth + 1) /\ nth' = nth + 1 /\ UNCHANGED <<pkt, chunks>>
    /\ UNCHANGED <<slicer, todo>>

\* The chunk that Pipe is sending.
SlicerSending == spc \in {"send", "rest"}

\* Mutant: after an interrupt the piece that was sent is sent again.
SlicerOutputTwice ==
    IF spc = "send" THEN Cut(pkt, chunks[nth].lo, chunks[nth].hi)
    ELSE Cut(pkt, chunks[nth].lo, Size(pkt))

SlicerOutput ==
    IF spc = "send" THEN Cut(pkt, chunks[nth].lo, chunks[nth].hi)
    ELSE Cut(pkt, chunks[nth].hi, Size(pkt))

\* The successor has received it.
SlicerSent ==
    /\ SlicerSending
    /\ IF spc = "send" THEN spc' = "wait" /\ UNCHANGED <<pkt, chunks, nth>>
       ELSE PacketDone("returned")
    /\ UNCHANGED <<slicer, todo>>

\* <-stub.Interrupt: between two pieces the rest is sent in one.
SlicerInterrupted ==
    /\ \/ spc = "receive" /\ spc' = "returned"
       \/ /\ spc = "wait"
          /\ spc' = IF chunks[nth].hi <= Size(pkt) /\ chunks[nth].hi >= 0
                    THEN "rest" ELSE "panic"
    /\ UNCHANGED <<slicer, pkt, todo, chunks, nth>>

SlicerRuns ==
    /\ spc = "returned" /\ spc' = "receive"
    /\ UNCHANGED <<slicer, pkt, todo, chunks, nth>>

\* A field of the toxic is written.
SlicerDecodes(f, v) ==
    /\ slicer' = [slicer EXCEPT ![f] = v]
    /\ UNCHANGED <<spc, pkt, todo, chunks, nth>>

\* The bytes of the packet that have not been passed on.
SlicerHolds ==
    CASE spc \in {"test", "split"} -> Bytes(pkt)
      [] spc = "send" -> Bytes(Cut(pkt, chunks[nth].lo, Size(pkt)))
      [] spc \in {"wait", "rest"} -> Bytes(Cut(pkt, chunks[nth].hi, Size(pkt)))
      [] OTHER -> <<>>
-----------------------------------------------------------------------------
\* The pieces that chunk has returned, and the calls it has yet to make.
Parts == [k \in 1..Len(chunks) + Len(todo) |->
            IF k <= Len(chunks) THEN chunks[k] ELSE todo[k - Len(chunks)]]
=============================================================================
