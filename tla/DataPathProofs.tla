--------------------------- MODULE DataPathProofs ---------------------------
(***************************************************************************)
(* For datagrams of any length, any sizes and rates, timers that fire as late *)
(* as they like and any sequence of updates: while their attributes are as     *)
(* documented and left alone, the slicer's pieces tile the packet, and the     *)
(* slicer and the bandwidth toxic cut within bounds; the bandwidth toxic sends *)
(* no faster than its rate, and no byte is lost, repeated or reordered on the  *)
(* way to the destination.                                                    *)
(***************************************************************************)
EXTENDS DataPath, SequenceTheorems, TLAPS

-----------------------------------------------------------------------------
(* The slicer *)

Part == [lo : Int, hi : Int]

CallOf == [lo : Int, hi : Int, depth : Nat]

\* The types of what chunk works on.
SlicerTypes ==
    /\ slicer \in [avg : Nat, var : Nat]
    /\ pkt \in Slices
    /\ todo \in Seq(CallOf)
    /\ chunks \in Seq(Part)
    /\ nth \in Nat \ {0}

\* Which calls and pieces there are at each point of Pipe.
SlicerShape ==
    /\ spc \in Pcs
    /\ spc \in {"test", "split"} => nth = 1
    /\ spc = "split" => todo # <<>>
    /\ spc \in {"send", "wait", "rest"} => todo = <<>> /\ nth \in 1..Len(chunks)

\* Each part begins where the one before it ends, whatever the sizes are.
ChunksMeet ==
    spc \in {"test", "split", "send", "wait", "rest"} =>
        /\ Len(chunks) + Len(todo) > 0
        /\ Parts[1].lo = 0
        /\ Parts[Len(chunks) + Len(todo)].hi = Size(pkt)
        /\ \A k \in 1..Len(chunks) + Len(todo) - 1 : Parts[k].hi = Parts[k + 1].lo

SlicerInv == SlicerTypes /\ SlicerShape /\ ChunksMeet

\* The values that an update will write into the slicer.
UpdateTypes == upd.pc = "decode" => \A f \in upd.todo : f # "rate" => upd.new[f] \in Nat

TileInv == SlicerInv /\ UpdateTypes /\ total \in Nat

-----------------------------------------------------------------------------
\* Taking a call off the stack and returning its part leaves the parts as they are.
LEMMA ReturnKeepsParts ==
    ASSUME SlicerTypes, ChunkReturns
    PROVE  /\ todo' \in Seq(CallOf) /\ chunks' \in Seq(Part)
           /\ Len(chunks') + Len(todo') = Len(chunks) + Len(todo)
           /\ \A k \in 1..Len(chunks) + Len(todo) :
                Parts'[k].lo = Parts[k].lo /\ Parts'[k].hi = Parts[k].hi
<1> DEFINE c == Head(todo)
           n == Len(chunks)
<1>1. /\ todo \in Seq(CallOf) /\ todo # <<>> /\ chunks \in Seq(Part)
      /\ todo' = Tail(todo) /\ chunks' = Append(chunks, [lo |-> c.lo, hi |-> c.hi])
  BY DEF SlicerTypes, ChunkReturns
<1>2. /\ c \in CallOf /\ c = todo[1] /\ Tail(todo) \in Seq(CallOf)
      /\ Len(todo) \in Nat /\ Len(todo) > 0 /\ Len(Tail(todo)) = Len(todo) - 1
      /\ \A i \in 1..Len(todo) - 1 : Tail(todo)[i] = todo[i + 1]
  BY <1>1
<1>3. [lo |-> c.lo, hi |-> c.hi] \in Part
  BY <1>2 DEF CallOf, Part
<1>4. /\ chunks' \in Seq(Part) /\ n \in Nat /\ Len(chunks') = n + 1
      /\ chunks'[n + 1] = [lo |-> c.lo, hi |-> c.hi]
      /\ \A i \in 1..n : chunks'[i] = chunks[i]
  BY <1>1, <1>3
<1>5. todo' \in Seq(CallOf) /\ Len(chunks') + Len(todo') = Len(chunks) + Len(todo)
  BY <1>1, <1>2, <1>4
<1>6. ASSUME NEW k \in 1..Len(chunks) + Len(todo)
      PROVE  Parts'[k].lo = Parts[k].lo /\ Parts'[k].hi = Parts[k].hi
  <2>1. Parts[k] = IF k <= n THEN chunks[k] ELSE todo[k - n]
    BY DEF Parts
  <2>2. Parts'[k] = IF k <= n + 1 THEN chunks'[k] ELSE todo'[k - (n + 1)]
    BY <1>4, <1>5 DEF Parts
  <2>3. CASE k <= n
    BY <1>4, <2>1, <2>2, <2>3
  <2>4. CASE k = n + 1
    <3>1. Parts[k] = todo[1]
      BY <1>4, <2>1, <2>4
    <3>2. Parts'[k] = [lo |-> c.lo, hi |-> c.hi]
      BY <1>4, <2>2, <2>4
    <3> QED
      BY <1>2, <3>1, <3>2
  <2>5. CASE k > n + 1
    <3>1. Parts[k] = todo[k - n]
      BY <1>4, <2>1, <2>5
    <3>2. Parts'[k] = Tail(todo)[k - (n + 1)]
      BY <1>1, <1>4, <2>2, <2>5
    <3>3. k - (n + 1) \in 1..Len(todo) - 1 /\ (k - (n + 1)) + 1 = k - n
      BY <1>2, <1>4, <2>5
    <3> QED
      BY <1>2, <3>1, <3>2, <3>3
  <2> QED
    BY <1>4, <2>3, <2>4, <2>5
<1> QED
  BY <1>4, <1>5, <1>6

\* Two elements in front of a sequence.
LEMMA TwoInFront ==
    ASSUME NEW S, NEW h \in Seq(S), NEW t \in Seq(S), Len(h) = 2
    PROVE  /\ h \o t \in Seq(S) /\ Len(h \o t) = Len(t) + 2
           /\ (h \o t)[1] = h[1] /\ (h \o t)[2] = h[2]
           /\ \A i \in 1..Len(t) : (h \o t)[i + 2] = t[i]
<1>1. /\ h \o t \in Seq(S) /\ Len(h \o t) = Len(h) + Len(t)
      /\ \A i \in 1..Len(h) + Len(t) : (h \o t)[i] = IF i <= Len(h) THEN h[i] ELSE t[i - Len(h)]
  BY ConcatProperties
<1>2. Len(h \o t) = Len(t) + 2
  BY <1>1
<1>3. \A i \in 1..Len(t) + 2 : (h \o t)[i] = IF i <= 2 THEN h[i] ELSE t[i - 2]
  BY <1>1
<1>4. Len(t) \in Nat
  OBVIOUS
<1>5. 1 \in 1..Len(t) + 2 /\ 2 \in 1..Len(t) + 2
  BY <1>4
<1>6. ASSUME NEW i \in 1..Len(t)
      PROVE  (h \o t)[i + 2] = t[i]
  <2>1. i + 2 \in 1..Len(t) + 2 /\ ~(i + 2 <= 2) /\ (i + 2) - 2 = i
    BY <1>4
  <2> QED
    BY <1>3, <2>1
<1> QED
  BY <1>1, <1>2, <1>3, <1>5, <1>6

\* The first call is replaced by calls for the parts before and after mid.
Split(mid) ==
    /\ todo # <<>>
    /\ todo' = Halves(Head(todo), mid) \o Tail(todo)
    /\ chunks' = chunks

\* Splitting the part of the first call puts its two halves in its place.
LEMMA RecursionSplitsPart ==
    ASSUME SlicerTypes, NEW mid \in Int, Split(mid)
    PROVE  LET n == Len(chunks) + 1
               m == Len(chunks) + Len(todo)
           IN /\ todo' \in Seq(CallOf) /\ Len(chunks') + Len(todo') = m + 1
              /\ m \in Nat /\ n \in 1..m
              /\ \A k \in 1..n - 1 : Parts'[k] = Parts[k]
              /\ Parts'[n].lo = Parts[n].lo /\ Parts'[n].hi = mid
              /\ Parts'[n + 1].lo = mid /\ Parts'[n + 1].hi = Parts[n].hi
              /\ \A k \in n + 1..m : Parts'[k + 1] = Parts[k]
<1> DEFINE c == Head(todo)
           n == Len(chunks) + 1
           m == Len(chunks) + Len(todo)
           h == Halves(c, mid)
           t == Tail(todo)
<1>1. /\ c \in CallOf /\ c = todo[1] /\ t \in Seq(CallOf)
      /\ Len(todo) \in Nat /\ Len(todo) > 0 /\ Len(t) = Len(todo) - 1
      /\ \A i \in 1..Len(todo) - 1 : t[i] = todo[i + 1]
  BY DEF SlicerTypes, Split
<1>2. /\ h \in Seq(CallOf) /\ Len(h) = 2
      /\ h[1].lo = c.lo /\ h[1].hi = mid /\ h[2].lo = mid /\ h[2].hi = c.hi
  BY <1>1 DEF Halves, Call, CallOf
<1>3. chunks \in Seq(Part) /\ n \in Nat /\ m \in Nat /\ n \in 1..m /\ Len(chunks) = n - 1
  BY <1>1 DEF SlicerTypes
<1> HIDE DEF h, t, c
<1>4. /\ todo' = h \o t /\ todo' \in Seq(CallOf) /\ Len(todo') = Len(todo) + 1
      /\ todo'[1] = h[1] /\ todo'[2] = h[2]
      /\ \A i \in 1..Len(todo) - 1 : todo'[i + 2] = t[i]
  <2>1. todo' = h \o t
    BY DEF h, t, c, Split
  <2> QED
    BY <1>1, <1>2, <2>1, TwoInFront
<1>5. Len(chunks') + Len(todo') = m + 1
  <2>1. Len(chunks') = Len(chunks) /\ Len(chunks) \in Nat
    BY DEF SlicerTypes, Split
  <2>2. Len(todo') = Len(todo) + 1 /\ Len(todo) \in Nat
    BY <1>1, <1>4
  <2> QED
    BY <2>1, <2>2
<1>6. \A k \in 1..m : Parts[k] = IF k <= n - 1 THEN chunks[k] ELSE todo[k - (n - 1)]
  BY <1>3 DEF Parts
<1>7. \A k \in 1..m + 1 : Parts'[k] = IF k <= n - 1 THEN chunks[k] ELSE todo'[k - (n - 1)]
  BY <1>3, <1>5 DEF Parts, Split
<1> HIDE DEF n, m
<1>8. \A k \in 1..n - 1 : Parts'[k] = Parts[k]
  BY <1>3, <1>6, <1>7
<1>9. Parts[n] = todo[1] /\ Parts'[n] = todo'[1] /\ Parts'[n + 1] = todo'[2]
  <2>1. n - (n - 1) = 1 /\ (n + 1) - (n - 1) = 2 /\ ~(n <= n - 1) /\ ~(n + 1 <= n - 1)
    BY <1>3
  <2>2. n \in 1..m + 1 /\ n + 1 \in 1..m + 1
    BY <1>3
  <2> QED
    BY <1>3, <1>6, <1>7, <2>1, <2>2
<1>10. ASSUME NEW k \in n + 1..m
       PROVE  Parts'[k + 1] = Parts[k]
  <2>1. k \in 1..m /\ k + 1 \in 1..m + 1 /\ ~(k <= n - 1) /\ ~(k + 1 <= n - 1)
    BY <1>3
  <2>2. Parts[k] = todo[k - (n - 1)] /\ Parts'[k + 1] = todo'[(k + 1) - (n - 1)]
    BY <1>6, <1>7, <2>1
  <2>3. k - n \in 1..Len(todo) - 1
    BY <1>1, <1>3 DEF m, n
  <2>4. todo'[(k - n) + 2] = t[k - n] /\ t[k - n] = todo[(k - n) + 1]
    BY <1>1, <1>4, <2>3
  <2>5. (k - n) + 2 = (k + 1) - (n - 1) /\ (k - n) + 1 = k - (n - 1)
    BY <1>3
  <2> QED
    BY <2>2, <2>4, <2>5
<1> QED
  BY <1>1, <1>2, <1>3, <1>4, <1>5, <1>8, <1>9, <1>10 DEF n, m

-----------------------------------------------------------------------------
\* The pieces tile the packet: the steps of Pipe and chunk.

\* A datagram is received: one call, for the whole packet.
LEMMA ReceiveKeepsInv ==
    ASSUME SlicerInv, NEW l \in Nat, NEW n \in Nat, SlicerReceive(Made(l, n))
    PROVE  SlicerInv'
<1> DEFINE c == Made(l, n)
<1>1. c \in Slices /\ Size(c) \in Nat
  BY DEF Made, Slices, Size
<1> HIDE DEF c
<1>2. /\ spc' = "test" /\ pkt' = c /\ slicer' = slicer /\ nth' = 1
      /\ chunks' = <<>> /\ todo' = <<Call(0, Size(c), 1)>>
  BY DEF SlicerReceive, c
<1>3. Call(0, Size(c), 1) \in CallOf
  BY <1>1 DEF Call, CallOf
<1>4. /\ todo' \in Seq(CallOf) /\ Len(todo') = 1 /\ todo'[1] = Call(0, Size(c), 1)
      /\ chunks' \in Seq(Part) /\ Len(chunks') = 0
  BY <1>2, <1>3
<1>5. Parts'[1] = Call(0, Size(c), 1)
  BY <1>4 DEF Parts
<1>6. Size(pkt') = Size(c)
  BY <1>2
<1>7. ChunksMeet'
  BY <1>4, <1>5, <1>6 DEF ChunksMeet, Call
<1> QED
  BY <1>1, <1>2, <1>4, <1>7 DEF SlicerInv, SlicerTypes, SlicerShape, Pcs

\* Parts and packet stay as they are.
LEMMA SamePartsTile ==
    ASSUME SlicerInv, SlicerTypes', pkt' = pkt,
           spc \in {"test", "split", "send", "wait", "rest"},
           Len(chunks') + Len(todo') = Len(chunks) + Len(todo),
           \A k \in 1..Len(chunks) + Len(todo) :
             Parts'[k].lo = Parts[k].lo /\ Parts'[k].hi = Parts[k].hi
    PROVE  ChunksMeet'
<1> DEFINE m == Len(chunks) + Len(todo)
<1>1. /\ m \in Nat /\ m > 0 /\ Parts[1].lo = 0 /\ Parts[m].hi = Size(pkt)
      /\ \A k \in 1..m - 1 : Parts[k].hi = Parts[k + 1].lo
  BY DEF SlicerInv, SlicerTypes, ChunksMeet
<1>2. Len(chunks') + Len(todo') = m /\ Size(pkt') = Size(pkt)
  OBVIOUS
<1>3. \A k \in 1..m : Parts'[k].lo = Parts[k].lo /\ Parts'[k].hi = Parts[k].hi
  OBVIOUS
<1> HIDE DEF m
<1>4. 1 \in 1..m /\ m \in 1..m /\ \A k \in 1..m - 1 : k \in 1..m /\ k + 1 \in 1..m
  BY <1>1
<1> QED
  BY <1>1, <1>2, <1>3, <1>4 DEF ChunksMeet

\* chunk returns a piece.
LEMMA ReturnKeepsInv ==
    ASSUME SlicerInv, ChunkReturns
    PROVE  SlicerInv'
<1>1. UNCHANGED <<slicer, spc, pkt, nth>> /\ spc = "test"
  BY DEF ChunkReturns
<1>2. SlicerTypes'
  BY <1>1, ReturnKeepsParts DEF SlicerInv, SlicerTypes
<1>3. ChunksMeet'
  BY <1>1, <1>2, ReturnKeepsParts, SamePartsTile DEF SlicerInv
<1> QED
  BY <1>1, <1>2, <1>3 DEF SlicerInv, SlicerShape

\* chunk recurses, wherever the middle is moved, or overflows the stack.
LEMMA RecursionKeepsInv ==
    ASSUME SlicerInv, NEW r, ChunkRecurses(r)
    PROVE  SlicerInv'
<1> DEFINE c == Head(todo)
           mid == Middle(c, r)
           n == Len(chunks) + 1
           m == Len(chunks) + Len(todo)
<1>1. spc = "split" /\ todo # <<>> /\ r \in Variation /\ UNCHANGED <<slicer, pkt, chunks, nth>>
  BY DEF ChunkRecurses, SlicerInv, SlicerShape
<1>2. CASE c.depth >= MaxDepth
  <2>1. spc' = "overflow" /\ todo' = todo
    BY <1>2 DEF ChunkRecurses
  <2> QED
    BY <1>1, <2>1 DEF SlicerInv, SlicerTypes, SlicerShape, ChunksMeet, Pcs
<1>3. CASE ~(c.depth >= MaxDepth)
  <2>1. spc' = "test" /\ Split(mid)
    BY <1>1, <1>3 DEF ChunkRecurses, Split
  <2>2. mid \in Int
    <3>1. c \in CallOf
      BY <1>1 DEF SlicerInv, SlicerTypes
    <3>2. r \in Int
      BY <1>1 DEF Variation, SlicerInv, SlicerTypes
    <3> QED
      BY <3>1, <3>2 DEF Middle, CallOf
  <2> HIDE DEF mid
  <2>3. SlicerTypes
    BY DEF SlicerInv
  <2>4. /\ todo' \in Seq(CallOf) /\ Len(chunks') + Len(todo') = m + 1
        /\ m \in Nat /\ n \in 1..m
        /\ \A k \in 1..n - 1 : Parts'[k] = Parts[k]
        /\ Parts'[n].lo = Parts[n].lo /\ Parts'[n].hi = mid
        /\ Parts'[n + 1].lo = mid /\ Parts'[n + 1].hi = Parts[n].hi
        /\ \A k \in n + 1..m : Parts'[k + 1] = Parts[k]
    BY <2>1, <2>2, <2>3, RecursionSplitsPart
  <2>5. /\ Parts[1].lo = 0 /\ Parts[m].hi = Size(pkt)
        /\ \A k \in 1..m - 1 : Parts[k].hi = Parts[k + 1].lo
    BY <1>1 DEF SlicerInv, ChunksMeet
  <2> HIDE DEF n, m
  <2>6. n \in Nat /\ n >= 1 /\ n <= m
    BY <2>4
  <2>7. Parts'[1].lo = 0
    <3>1. n = 1 \/ 1 \in 1..n - 1
      BY <2>6
    <3> QED
      BY <2>4, <2>5, <3>1
  <2>8. Parts'[m + 1].hi = Size(pkt)
    <3>1. n = m \/ m \in n + 1..m
      BY <2>4, <2>6
    <3> QED
      BY <2>4, <2>5, <3>1
  <2>9. ASSUME NEW k \in 1..m
        PROVE  Parts'[k].hi = Parts'[k + 1].lo
    <3>1. CASE k = n
      BY <2>4, <3>1
    <3>2. CASE k < n
      <4>1. k \in 1..n - 1 /\ k \in 1..m - 1 /\ (k + 1 = n \/ k + 1 \in 1..n - 1)
        BY <2>4, <2>6, <3>2
      <4> QED
        BY <2>4, <2>5, <4>1
    <3>3. CASE k = n + 1
      <4>1. n + 1 \in n + 1..m /\ n \in 1..m - 1
        BY <2>4, <2>6, <3>3
      <4> QED
        BY <2>4, <2>5, <3>3, <4>1
    <3>4. CASE k > n + 1
      <4>1. k \in n + 1..m /\ k - 1 \in n + 1..m /\ (k - 1) + 1 = k /\ k - 1 \in 1..m - 1
        BY <2>4, <2>6, <3>4
      <4>2. Parts'[k] = Parts[k - 1] /\ Parts'[k + 1] = Parts[k]
        BY <2>4, <4>1
      <4>3. Parts[k - 1].hi = Parts[k].lo
        BY <2>5, <4>1
      <4> QED
        BY <4>2, <4>3
    <3> QED
      BY <2>6, <3>1, <3>2, <3>3, <3>4
  <2>10. ChunksMeet'
    <3>1. Size(pkt') = Size(pkt) /\ (m + 1) - 1 = m /\ m + 1 > 0
      BY <1>1, <2>4
    <3> QED
      BY <2>4, <2>7, <2>8, <2>9, <3>1 DEF ChunksMeet
  <2> QED
    BY <1>1, <2>1, <2>4, <2>10 DEF SlicerInv, SlicerTypes, SlicerShape, Pcs
<1> QED
  BY <1>2, <1>3

\* The steps of Pipe that leave calls and pieces alone, or end the packet.
LEMMA LoopKeepsInv ==
    ASSUME SlicerInv,
           \/ SlicerCloses \/ ChunkSplits \/ FirstPiece \/ NextPiece \/ SlicerSent
           \/ SlicerInterrupted \/ SlicerRuns \/ UNCHANGED slicerVars
    PROVE  SlicerInv'
<1> USE DEF SlicerInv, SlicerTypes, SlicerShape, Pcs
<1>1. ASSUME UNCHANGED <<todo, chunks, pkt, slicer>>, SlicerShape', nth' \in Nat \ {0},
             \/ spc \in {"test", "split", "send", "wait", "rest"}
             \/ spc' \notin {"test", "split", "send", "wait", "rest"}
      PROVE  SlicerInv'
  <2>1. Parts' = Parts /\ Size(pkt') = Size(pkt)
    BY <1>1 DEF Parts
  <2> QED
    BY <1>1, <2>1 DEF ChunksMeet
<1>2. ASSUME NEW pc \in {"receive", "returned"}, PacketDone(pc), UNCHANGED <<slicer, todo>>
      PROVE  SlicerInv'
  <2>1. Made(0, 0) \in Slices /\ <<>> \in Seq(Part)
    BY DEF Made, Slices
  <2> QED
    BY <1>2, <2>1 DEF PacketDone, ChunksMeet
<1>3. CASE SlicerCloses
  BY <1>1, <1>3 DEF SlicerCloses
<1>4. CASE ChunkSplits
  BY <1>1, <1>4 DEF ChunkSplits
<1>5. CASE FirstPiece
  <2>1. Len(chunks) \in Nat /\ Len(chunks) > 0
    BY <1>5 DEF FirstPiece, ChunksMeet
  <2>2. spc' \in {"send", "panic"}
    BY <1>5 DEF FirstPiece, Sends
  <2> QED
    BY <1>1, <1>5, <2>1, <2>2 DEF FirstPiece
<1>6. CASE NextPiece
  <2>1. CASE nth = Len(chunks)
    BY <1>2, <1>6, <2>1 DEF NextPiece
  <2>2. CASE nth # Len(chunks)
    <3>1. /\ spc = "wait" /\ spc' \in {"send", "panic"} /\ nth' = nth + 1
          /\ UNCHANGED <<todo, chunks, pkt, slicer>>
      BY <1>6, <2>2 DEF NextPiece, Sends
    <3>2. nth' \in 1..Len(chunks) /\ nth' \in Nat \ {0} /\ todo = <<>>
      BY <2>2, <3>1
    <3> QED
      BY <1>1, <3>1, <3>2
  <2> QED
    BY <2>1, <2>2
<1>7. CASE SlicerSent
  <2>1. CASE spc = "send"
    BY <1>1, <1>7, <2>1 DEF SlicerSent
  <2>2. CASE spc # "send"
    BY <1>2, <1>7, <2>2 DEF SlicerSent
  <2> QED
    BY <2>1, <2>2
<1>8. CASE SlicerInterrupted
  BY <1>1, <1>8 DEF SlicerInterrupted
<1>9. CASE SlicerRuns
  BY <1>1, <1>9 DEF SlicerRuns
<1>10. CASE UNCHANGED slicerVars
  BY <1>1, <1>10 DEF slicerVars
<1> QED
  BY <1>3, <1>4, <1>5, <1>6, <1>7, <1>8, <1>9, <1>10

\* An update writes a field of the slicer: the parts do not depend on it.
LEMMA DecodeKeepsInv ==
    ASSUME SlicerInv, NEW f \in {"avg", "var"}, NEW v \in Nat, SlicerDecodes(f, v)
    PROVE  SlicerInv'
<1>1. slicer' \in [avg : Nat, var : Nat] /\ UNCHANGED <<spc, pkt, todo, chunks, nth>>
  BY DEF SlicerDecodes, SlicerInv, SlicerTypes
<1>2. Parts' = Parts /\ Size(pkt') = Size(pkt)
  BY <1>1 DEF Parts
<1> QED
  BY <1>1, <1>2 DEF SlicerInv, SlicerTypes, SlicerShape, ChunksMeet

\* What a step does to the slicer.
SlicerMoves ==
    \/ \E n \in Lengths : SlicerReceive(Made(total, n))
    \/ ChunkReturns
    \/ \E r \in Variation : ChunkRecurses(r)
    \/ SlicerCloses \/ ChunkSplits \/ FirstPiece \/ NextPiece \/ SlicerSent
    \/ SlicerInterrupted \/ SlicerRuns \/ UNCHANGED slicerVars

\* A step of the specification is one of the slicer, with the history as it
\* was, or one in which an update writes a field of the slicer.
LEMMA StepOfSlicer ==
    ASSUME TileInv, [Next]_vars
    PROVE  /\ UpdateTypes' /\ total' \in Nat
           /\ \/ /\ SlicerMoves
                 /\ raced \subseteq raced'
              \/ \E f \in {"avg", "var"} :
                   /\ \E v \in Nat : SlicerDecodes(f, v)
                   /\ raced' = raced \cup Odd(slicer', rate')
                                     \cup (IF InUse(f) THEN {f} ELSE {})
<1> USE DEF TileInv, UpdateTypes
<1>1. ASSUME UNCHANGED <<slicerVars, total, upd>>, raced \subseteq raced'
      PROVE  UpdateTypes' /\ total' \in Nat /\ SlicerMoves /\ raced \subseteq raced'
  BY <1>1 DEF SlicerMoves
<1>2. CASE UNCHANGED vars
  BY <1>1, <1>2 DEF vars, pathVars
<1>3. CASE \E n \in Lengths : SourceWrites(n)
  <2>1. PICK n \in Lengths : SourceWrites(n)
    BY <1>3
  <2> QED
    BY <2>1, DataPathAssumption DEF SourceWrites, SlicerMoves
<1>4. CASE SourceCloses
  BY <1>4 DEF SourceCloses, SlicerMoves, pathVars
<1>5. CASE InputCloses \/ OutputCloses \/ BandwidthStep \/ BandwidthToReader \/ ReaderStep
  <2>1. UNCHANGED <<slicerVars, pathVars>>
    BY <1>5 DEF InputCloses, OutputCloses, BandwidthStep, BandwidthToReader, ReaderStep
  <2> QED
    BY <1>1, <2>1 DEF pathVars
<1>6. CASE BandwidthGivesUp
  BY <1>1, <1>6 DEF BandwidthGivesUp
<1>7. CASE SlicerStep
  BY <1>7 DEF SlicerStep, SlicerMoves, pathVars
<1>8. CASE SlicerToBandwidth
  BY <1>8 DEF SlicerToBandwidth, SlicerMoves, pathVars
<1>9. ASSUME NEW a \in SlicerAttrs, UpdateToxicJson("slicer", a)
      PROVE  UpdateTypes' /\ total' \in Nat /\ SlicerMoves /\ raced \subseteq raced'
  <2>1. a \in [avg : Nat, var : Nat]
    BY SlicerAssumption
  <2>2. upd' = [pc |-> "decode", toxic |-> "slicer", new |-> a, todo |-> DOMAIN a]
        /\ UNCHANGED <<slicerVars, total, raced>>
    BY <1>9 DEF UpdateToxicJson
  <2>3. \A f \in DOMAIN a : a[f] \in Nat
    BY <2>1
  <2> QED
    BY <2>2, <2>3 DEF SlicerMoves
<1>10. ASSUME NEW r \in Rates, UpdateToxicJson("bandwidth", [rate |-> r])
       PROVE  UpdateTypes' /\ total' \in Nat /\ SlicerMoves /\ raced \subseteq raced'
  <2>1. upd'.todo = {"rate"} /\ UNCHANGED <<slicerVars, total, raced>>
    BY <1>10 DEF UpdateToxicJson
  <2> QED
    BY <2>1 DEF SlicerMoves
<1>11. ASSUME NEW f \in {"avg", "var", "rate"}, Decode(f)
       PROVE  /\ UpdateTypes' /\ total' \in Nat
              /\ \/ SlicerMoves /\ raced \subseteq raced'
                 \/ /\ f \in {"avg", "var"} /\ \E v \in Nat : SlicerDecodes(f, v)
                    /\ raced' = raced \cup Odd(slicer', rate')
                                      \cup (IF InUse(f) THEN {f} ELSE {})
  <2>1. /\ upd.pc = "decode" /\ f \in upd.todo /\ upd' = [upd EXCEPT !.todo = @ \ {f}]
        /\ total' = total
        /\ raced' = raced \cup Odd(slicer', rate') \cup (IF InUse(f) THEN {f} ELSE {})
    BY <1>11 DEF Decode
  <2>2. UpdateTypes' /\ total' \in Nat
    BY <2>1
  <2>3. CASE f = "rate"
    BY <1>11, <2>1, <2>2, <2>3 DEF Decode, SlicerMoves
  <2>4. CASE f # "rate"
    <3>1. SlicerDecodes(f, upd.new[f]) /\ upd.new[f] \in Nat
      BY <1>11, <2>1, <2>4 DEF Decode
    <3> QED
      BY <2>1, <2>2, <2>4, <3>1
  <2> QED
    BY <2>3, <2>4
<1>12. CASE DecodeEnds
  <2>1. upd'.pc # "decode" /\ UNCHANGED <<slicerVars, total, raced>>
    BY <1>12 DEF DecodeEnds, NoUpdate
  <2> QED
    BY <2>1 DEF SlicerMoves
<1>13. CASE InterruptToxic
  <2>1. upd'.pc # "decode" /\ UNCHANGED <<total, raced>>
    BY <1>13 DEF InterruptToxic, NoUpdate
  <2>2. SlicerInterrupted \/ UNCHANGED slicerVars
    BY <1>13 DEF InterruptToxic
  <2> QED
    BY <2>1, <2>2 DEF SlicerMoves
<1>14. CASE RunToxic
  <2>1. upd'.pc # "decode" /\ UNCHANGED <<total, raced>>
    BY <1>14 DEF RunToxic, NoUpdate
  <2>2. SlicerRuns \/ UNCHANGED slicerVars
    BY <1>14 DEF RunToxic
  <2> QED
    BY <2>1, <2>2 DEF SlicerMoves
<1> QED
  BY <1>2, <1>3, <1>4, <1>5, <1>6, <1>7, <1>8, <1>9, <1>10, <1>11, <1>12, <1>13, <1>14
     DEF Next, Update

\* Each of the steps of the slicer.
LEMMA MovesKeepInv ==
    ASSUME TileInv, SlicerMoves
    PROVE  SlicerInv'
<1>1. CASE \E n \in Lengths : SlicerReceive(Made(total, n))
  <2>1. PICK n \in Lengths : SlicerReceive(Made(total, n))
    BY <1>1
  <2>2. n \in Nat /\ total \in Nat /\ SlicerInv
    BY DataPathAssumption DEF TileInv
  <2> QED
    BY <2>1, <2>2, ReceiveKeepsInv
<1>2. CASE ChunkReturns
  BY <1>2, ReturnKeepsInv DEF TileInv
<1>3. CASE \E r \in Variation : ChunkRecurses(r)
  BY <1>3, RecursionKeepsInv DEF TileInv
<1>4. CASE \/ SlicerCloses \/ ChunkSplits \/ FirstPiece \/ NextPiece \/ SlicerSent
           \/ SlicerInterrupted \/ SlicerRuns \/ UNCHANGED slicerVars
  BY <1>4, LoopKeepsInv DEF TileInv
<1> QED
  BY <1>1, <1>2, <1>3, <1>4 DEF SlicerMoves

\* The invariant holds at first.
LEMMA TileInitially ==
    ASSUME Init
    PROVE  TileInv
<1>1. /\ slicer \in [avg : Nat, var : Nat] /\ spc = "receive" /\ pkt = Made(0, 0)
      /\ todo = <<>> /\ chunks = <<>> /\ nth = 1 /\ total = 0 /\ upd = NoUpdate
  BY SlicerAssumption DEF Init, SlicerInit
<1>2. Made(0, 0) \in Slices /\ <<>> \in Seq(CallOf) /\ <<>> \in Seq(Part)
  BY DEF Made, Slices
<1>3. upd.pc # "decode"
  BY <1>1 DEF NoUpdate
<1> QED
  BY <1>1, <1>2, <1>3
     DEF TileInv, SlicerInv, SlicerTypes, SlicerShape, ChunksMeet, UpdateTypes, Pcs

\* Every step of the specification keeps the invariant.
LEMMA TileStep ==
    ASSUME TileInv, [Next]_vars
    PROVE  TileInv'
<1>1. UpdateTypes' /\ total' \in Nat
  BY StepOfSlicer
<1>2. CASE SlicerMoves
  BY <1>1, <1>2, MovesKeepInv DEF TileInv
<1>3. CASE \E f \in {"avg", "var"}, v \in Nat : SlicerDecodes(f, v)
  BY <1>1, <1>3, DecodeKeepsInv DEF TileInv
<1> QED
  BY <1>2, <1>3, StepOfSlicer

-----------------------------------------------------------------------------
\* The sizes are documented ones, and none was written while chunk ran.
Expected == raced \cap {"sizes", "avg", "var"} = {}

\* A part lies in a packet of n bytes, and is not empty unless the packet is.
Inside(c, n) == 0 <= c.lo /\ c.lo <= c.hi /\ c.hi <= n /\ (n > 0 => c.lo < c.hi)

\* A call is made at most once for each byte that was cut off before.
Shallow(c, n) == c.depth + (c.hi - c.lo) <= n + 1

\* What keeps the slicer from cutting out of bounds and from recursing too deep.
Safe ==
    /\ slicer.var < slicer.avg
    /\ spc \notin {"panic", "overflow"}
    /\ spc \in {"test", "split", "send", "wait", "rest"} =>
         /\ Size(pkt) \in Nat /\ Size(pkt) < MaxDepth /\ pkt.cap = pkt.hi
         /\ \A k \in 1..Len(chunks) : Inside(chunks[k], Size(pkt))
         /\ \A k \in 1..Len(todo) : Inside(todo[k], Size(pkt)) /\ Shallow(todo[k], Size(pkt))
    /\ spc = "split" => ~SmallEnough(Head(todo))

SafeInv == Expected => Safe

\* Half of a part that is too long, give or take the variation, lies inside it.
LEMMA MiddleIsInside ==
    ASSUME NEW c \in CallOf, NEW r \in Variation, c.lo <= c.hi,
           slicer \in [avg : Nat, var : Nat], slicer.var < slicer.avg, ~SmallEnough(c)
    PROVE  /\ Middle(c, r) \in Int /\ c.lo < Middle(c, r) /\ Middle(c, r) < c.hi
           /\ c.hi - c.lo >= 2
<1> DEFINE l == c.hi - c.lo
           v == slicer.var
<1>1. v \in Nat /\ slicer.avg \in Nat /\ l \in Nat /\ c.lo \in Int /\ c.hi \in Int
  BY DEF CallOf
<1>2. l > slicer.avg + v
  BY <1>1 DEF SmallEnough
<1>3. r \in Int /\ r >= -v /\ r <= v /\ (v > 0 => r < v)
  BY <1>1 DEF Variation
<1>4. Middle(c, r) = c.lo + l \div 2 + r
  BY DEF Middle
<1> HIDE DEF v
<1>5. l >= 2 * v + 2
  BY <1>1, <1>2 DEF v
<1>6. l \div 2 \in Int /\ 2 * (l \div 2) <= l /\ l <= 2 * (l \div 2) + 1
  BY <1>1
<1>7. c.hi = c.lo + l
  BY <1>1
<1> HIDE DEF l
<1>8. l \div 2 >= v + 1
  BY <1>1, <1>5, <1>6
<1>9. 0 < l \div 2 + r /\ l \div 2 + r < l
  BY <1>1, <1>3, <1>5, <1>6, <1>8
<1>10. c.lo < Middle(c, r) /\ Middle(c, r) < c.hi /\ Middle(c, r) \in Int
  BY <1>1, <1>3, <1>4, <1>6, <1>7, <1>9
<1>11. l >= 2
  BY <1>1, <1>5
<1> QED
  BY <1>10, <1>11 DEF l

-----------------------------------------------------------------------------
\* The steps of Pipe and chunk on documented sizes.

\* The outer call is for the whole packet, at depth 1.
LEMMA ReceiveIsSafe ==
    ASSUME Safe, NEW l \in Nat, NEW n \in Lengths, SlicerReceive(Made(l, n))
    PROVE  Safe'
<1>1. n \in Nat /\ n < MaxDepth
  BY DataPathAssumption
<1>2. pkt'.cap = pkt'.hi /\ Size(pkt') = n
  BY <1>1 DEF SlicerReceive, Made, Size
<1>3. /\ spc' = "test" /\ slicer' = slicer /\ chunks' = <<>> /\ todo' = <<Call(0, n, 1)>>
  BY <1>1 DEF SlicerReceive, Made, Size
<1>4. Len(todo') = 1 /\ todo'[1] = Call(0, n, 1) /\ Len(chunks') = 0
  BY <1>3
<1>5. Inside(Call(0, n, 1), n) /\ Shallow(Call(0, n, 1), n)
  BY <1>1 DEF Inside, Shallow, Call
<1> QED
  BY <1>1, <1>2, <1>3, <1>4, <1>5 DEF Safe

\* The piece that is returned lies in the packet, like its call.
LEMMA ReturnIsSafe ==
    ASSUME SlicerTypes, Safe, ChunkReturns
    PROVE  Safe'
<1> DEFINE c == Head(todo)
           s == [lo |-> c.lo, hi |-> c.hi]
<1>1. /\ spc = "test" /\ todo # <<>> /\ UNCHANGED <<slicer, spc, pkt>>
      /\ todo' = Tail(todo) /\ chunks' = Append(chunks, s)
  BY DEF ChunkReturns
<1>2. c = todo[1] /\ 1 \in 1..Len(todo) /\ Len(todo) \in Nat
  BY <1>1 DEF SlicerTypes
<1>3. Inside(c, Size(pkt))
  BY <1>1, <1>2 DEF Safe
<1>4. Inside(s, Size(pkt))
  BY <1>3 DEF Inside
<1>5. ASSUME NEW k \in 1..Len(chunks')
      PROVE  Inside(chunks'[k], Size(pkt))
  <2>1. Len(chunks) \in Nat /\ Len(chunks') = Len(chunks) + 1
    BY <1>1 DEF SlicerTypes
  <2>2. chunks'[k] = IF k <= Len(chunks) THEN chunks[k] ELSE s
    BY <1>1, <2>1 DEF SlicerTypes
  <2> QED
    BY <1>1, <1>4, <2>1, <2>2 DEF Safe
<1>6. ASSUME NEW k \in 1..Len(todo')
      PROVE  Inside(todo'[k], Size(pkt)) /\ Shallow(todo'[k], Size(pkt))
  <2>1. k + 1 \in 1..Len(todo) /\ todo'[k] = todo[k + 1]
    BY <1>1 DEF SlicerTypes
  <2> QED
    BY <1>1, <2>1 DEF Safe
<1>7. Size(pkt') = Size(pkt)
  BY <1>1
<1> QED
  BY <1>1, <1>5, <1>6, <1>7 DEF Safe

\* Both parts lie in the packet, and are shorter than the part that is split.
LEMMA RecursionIsSafe ==
    ASSUME SlicerTypes, SlicerShape, Safe, NEW r \in Variation, ChunkRecurses(r)
    PROVE  Safe'
<1> DEFINE c == Head(todo)
           mid == Middle(c, r)
           h == Halves(c, mid)
           t == Tail(todo)
           n == Size(pkt)
<1>1. spc = "split" /\ todo # <<>> /\ UNCHANGED <<slicer, pkt, chunks>>
  BY DEF ChunkRecurses, SlicerShape
<1>2. /\ c \in CallOf /\ c = todo[1] /\ t \in Seq(CallOf)
      /\ Len(todo) \in Nat /\ Len(todo) > 0 /\ Len(t) = Len(todo) - 1
      /\ \A i \in 1..Len(todo) - 1 : t[i] = todo[i + 1]
  BY <1>1 DEF SlicerTypes
<1>3. /\ Inside(c, n) /\ Shallow(c, n) /\ n \in Nat /\ n < MaxDepth /\ ~SmallEnough(c)
      /\ slicer.var < slicer.avg /\ slicer \in [avg : Nat, var : Nat] /\ MaxDepth \in Nat
  <2>1. 1 \in 1..Len(todo)
    BY <1>2
  <2> QED
    BY <1>1, <1>2, <2>1, SlicerAssumption DEF Safe, SlicerTypes
<1>4. /\ mid \in Int /\ c.lo < mid /\ mid < c.hi /\ c.hi - c.lo >= 2
  <2>1. c.lo <= c.hi
    BY <1>3 DEF Inside
  <2> QED
    BY <1>2, <1>3, <2>1, MiddleIsInside
<1> HIDE DEF mid, n
<1>5. ~(c.depth >= MaxDepth)
  BY <1>2, <1>3, <1>4 DEF Shallow, CallOf
<1>6. todo' = h \o t /\ spc' = "test"
  BY <1>5 DEF ChunkRecurses, mid
<1>7. /\ h \in Seq(CallOf) /\ Len(h) = 2
      /\ h[1] = Call(c.lo, mid, c.depth + 1) /\ h[2] = Call(mid, c.hi, c.depth + 1)
  BY <1>2, <1>4 DEF Halves, Call, CallOf
<1>8. Inside(h[1], n) /\ Shallow(h[1], n) /\ Inside(h[2], n) /\ Shallow(h[2], n)
  <2>1. /\ c.lo \in Int /\ c.hi \in Int /\ c.depth \in Nat
        /\ 0 <= c.lo /\ c.hi <= n /\ c.depth + (c.hi - c.lo) <= n + 1
    BY <1>2, <1>3 DEF Inside, Shallow, CallOf
  <2>2. /\ h[1].lo = c.lo /\ h[1].hi = mid /\ h[1].depth = c.depth + 1
        /\ h[2].lo = mid /\ h[2].hi = c.hi /\ h[2].depth = c.depth + 1
    BY <1>7 DEF Call
  <2> HIDE DEF c, h
  <2>3. Inside(h[1], n) /\ Inside(h[2], n)
    BY <1>3, <1>4, <2>1, <2>2 DEF Inside
  <2>4. Shallow(h[1], n)
    BY <1>3, <1>4, <2>1, <2>2 DEF Shallow
  <2>5. Shallow(h[2], n)
    BY <1>3, <1>4, <2>1, <2>2 DEF Shallow
  <2> QED
    BY <2>3, <2>4, <2>5
<1> HIDE DEF h, t, c
<1>9. ASSUME NEW k \in 1..Len(todo')
      PROVE  Inside(todo'[k], n) /\ Shallow(todo'[k], n)
  <2>1. /\ Len(todo') = Len(t) + 2 /\ todo'[1] = h[1] /\ todo'[2] = h[2]
        /\ \A i \in 1..Len(t) : todo'[i + 2] = t[i]
    BY <1>2, <1>6, <1>7, TwoInFront
  <2>2. CASE k \in {1, 2}
    BY <1>8, <2>1, <2>2
  <2>3. CASE k > 2
    <3>1. k - 2 \in 1..Len(todo) - 1 /\ (k - 2) + 2 = k /\ (k - 2) + 1 = k - 1 /\ k - 1 \in 1..Len(todo)
      BY <1>2, <2>1, <2>3
    <3>2. todo'[k] = todo[k - 1]
      BY <1>2, <2>1, <3>1
    <3> QED
      BY <1>1, <3>1, <3>2 DEF Safe, n
  <2> QED
    BY <1>2, <2>1, <2>2, <2>3
<1>10. Size(pkt') = n
  BY <1>1 DEF n
<1> QED
  BY <1>1, <1>6, <1>9, <1>10 DEF Safe, n

\* A piece that lies in the packet is cut within the capacity of its slice.
LEMMA PieceIsSent ==
    ASSUME SlicerTypes, Safe, NEW k \in 1..Len(chunks),
           spc \in {"test", "split", "send", "wait", "rest"}
    PROVE  Sends(k) = "send"
<1>1. Inside(chunks[k], Size(pkt)) /\ pkt.cap = pkt.hi
  BY DEF Safe
<1>2. chunks[k].lo \in Int /\ chunks[k].hi \in Int /\ pkt \in Slices
  <2>1. chunks[k] \in Part
    BY ElementOfSeq DEF SlicerTypes
  <2> QED
    BY <2>1 DEF SlicerTypes, Part
<1> QED
  BY <1>1, <1>2 DEF Sends, InBounds, Inside, Size, Slices

\* The steps of Pipe that leave calls and pieces alone, or end the packet.
LEMMA LoopIsSafe ==
    ASSUME SlicerTypes, SlicerShape, ChunksMeet, Safe,
           \/ SlicerCloses \/ ChunkSplits \/ FirstPiece \/ NextPiece \/ SlicerSent
           \/ SlicerInterrupted \/ SlicerRuns \/ UNCHANGED slicerVars
    PROVE  Safe'
<1>1. ASSUME UNCHANGED <<todo, chunks, pkt, slicer>>,
             spc' \notin {"panic", "overflow"},
             spc' = "split" => ~SmallEnough(Head(todo)),
             \/ spc \in {"test", "split", "send", "wait", "rest"}
             \/ spc' \notin {"test", "split", "send", "wait", "rest"}
      PROVE  Safe'
  <2>1. Size(pkt') = Size(pkt)
    BY <1>1
  <2>2. spc' = "split" => ~SmallEnough(Head(todo))'
    BY <1>1 DEF SmallEnough
  <2> QED
    BY <1>1, <2>1, <2>2 DEF Safe
<1>2. ASSUME NEW pc \in {"receive", "returned"}, PacketDone(pc), UNCHANGED slicer
      PROVE  Safe'
  BY <1>2 DEF PacketDone, Safe
<1>3. CASE SlicerCloses
  BY <1>1, <1>3 DEF SlicerCloses
<1>4. CASE ChunkSplits
  BY <1>1, <1>4 DEF ChunkSplits
<1>5. CASE FirstPiece
  <2>1. 1 \in 1..Len(chunks)
    BY <1>5 DEF FirstPiece, ChunksMeet, SlicerTypes
  <2>2. spc' = "send"
    BY <1>5, <2>1, PieceIsSent DEF FirstPiece
  <2> QED
    BY <1>1, <1>5, <2>2 DEF FirstPiece
<1>6. CASE NextPiece
  <2>1. CASE nth = Len(chunks)
    BY <1>2, <1>6, <2>1 DEF NextPiece
  <2>2. CASE nth # Len(chunks)
    <3>1. nth + 1 \in 1..Len(chunks) /\ spc = "wait"
      BY <1>6, <2>2 DEF NextPiece, SlicerShape, SlicerTypes
    <3>2. spc' = "send" /\ UNCHANGED <<todo, chunks, pkt, slicer>>
      BY <1>6, <2>2, <3>1, PieceIsSent DEF NextPiece
    <3> QED
      BY <1>1, <3>1, <3>2
  <2> QED
    BY <2>1, <2>2
<1>7. CASE SlicerSent
  <2>1. CASE spc = "send"
    BY <1>1, <1>7, <2>1 DEF SlicerSent
  <2>2. CASE spc # "send"
    BY <1>2, <1>7, <2>2 DEF SlicerSent
  <2> QED
    BY <2>1, <2>2
<1>8. CASE SlicerInterrupted
  <2>1. UNCHANGED <<todo, chunks, pkt, slicer>>
    BY <1>8 DEF SlicerInterrupted
  <2>2. CASE spc = "receive"
    BY <1>1, <1>8, <2>1, <2>2 DEF SlicerInterrupted
  <2>3. CASE spc = "wait"
    <3>1. Inside(chunks[nth], Size(pkt)) /\ Size(pkt) \in Nat
      BY <2>3 DEF Safe, SlicerShape
    <3>2. chunks[nth].lo \in Int /\ chunks[nth].hi \in Int
      <4>1. chunks[nth] \in Part
        BY <2>3, ElementOfSeq DEF SlicerTypes, SlicerShape
      <4> QED
        BY <4>1 DEF Part
    <3>3. chunks[nth].hi <= Size(pkt) /\ chunks[nth].hi >= 0
      BY <3>1, <3>2 DEF Inside
    <3>4. spc' = "rest"
      BY <1>8, <2>3, <3>3 DEF SlicerInterrupted
    <3> QED
      BY <1>1, <2>1, <2>3, <3>4
  <2> QED
    BY <1>8, <2>2, <2>3 DEF SlicerInterrupted
<1>9. CASE SlicerRuns
  BY <1>1, <1>9 DEF SlicerRuns
<1>10. CASE UNCHANGED slicerVars
  <2>1. UNCHANGED <<todo, chunks, pkt, slicer, spc>>
    BY <1>10 DEF slicerVars
  <2>2. spc = "split" => ~SmallEnough(Head(todo))
    BY DEF Safe
  <2>3. spc' \notin {"panic", "overflow"}
    BY <2>1 DEF Safe
  <2> QED
    BY <1>1, <2>1, <2>2, <2>3
<1> QED
  BY <1>3, <1>4, <1>5, <1>6, <1>7, <1>8, <1>9, <1>10

\* An update that the history does not hold against its client: the sizes are
\* documented ones once a field is written, and chunk is not running.
LEMMA DecodeIsSafe ==
    ASSUME Safe, Expected', NEW f \in {"avg", "var"}, NEW v \in Nat, SlicerDecodes(f, v),
           raced' = raced \cup Odd(slicer', rate') \cup (IF InUse(f) THEN {f} ELSE {})
    PROVE  Safe'
<1>1. "sizes" \notin Odd(slicer', rate') /\ ~InUse(f)
  BY DEF Expected
<1>2. slicer'.var < slicer'.avg
  BY <1>1 DEF Odd, SlicerDocumented
<1>3. spc \notin {"test", "split"}
  BY <1>1 DEF InUse
<1>4. UNCHANGED <<spc, pkt, todo, chunks, nth>>
  BY DEF SlicerDecodes
<1>5. Size(pkt') = Size(pkt)
  BY <1>4
<1> QED
  BY <1>2, <1>3, <1>4, <1>5 DEF Safe

\* A step of the specification keeps an expected slicer safe.
LEMMA SafeStep ==
    ASSUME TileInv, SafeInv, [Next]_vars
    PROVE  SafeInv'
<1> SUFFICES ASSUME Expected'
             PROVE  Safe'
  BY DEF SafeInv
<1>1. raced \subseteq raced'
  BY StepOfSlicer
<1>2. Safe
  BY <1>1 DEF SafeInv, Expected
<1>3. SlicerTypes /\ SlicerShape /\ ChunksMeet /\ total \in Nat
  BY DEF TileInv, SlicerInv
<1>4. CASE SlicerMoves
  <2>1. CASE \E n \in Lengths : SlicerReceive(Made(total, n))
    BY <1>2, <1>3, <2>1, ReceiveIsSafe
  <2>2. CASE ChunkReturns
    BY <1>2, <1>3, <2>2, ReturnIsSafe
  <2>3. CASE \E r \in Variation : ChunkRecurses(r)
    BY <1>2, <1>3, <2>3, RecursionIsSafe
  <2>4. CASE \/ SlicerCloses \/ ChunkSplits \/ FirstPiece \/ NextPiece \/ SlicerSent
             \/ SlicerInterrupted \/ SlicerRuns \/ UNCHANGED slicerVars
    BY <1>2, <1>3, <2>4, LoopIsSafe
  <2> QED
    BY <1>4, <2>1, <2>2, <2>3, <2>4 DEF SlicerMoves
<1>5. ASSUME NEW f \in {"avg", "var"}, NEW v \in Nat, SlicerDecodes(f, v),
             raced' = raced \cup Odd(slicer', rate') \cup (IF InUse(f) THEN {f} ELSE {})
      PROVE  Safe'
  BY <1>2, <1>5, DecodeIsSafe
<1> QED
  BY <1>4, <1>5, StepOfSlicer

\* The invariant of the slicer holds at first.
LEMMA SafeInitially ==
    ASSUME Init
    PROVE  TileInv /\ SafeInv
<1>1. ASSUME Expected
      PROVE  Safe
  <2>1. spc = "receive" /\ "sizes" \notin Odd(slicer, rate)
    BY <1>1 DEF Init, SlicerInit, Expected
  <2>2. slicer.var < slicer.avg
    BY <2>1 DEF Odd, SlicerDocumented
  <2> QED
    BY <2>1, <2>2 DEF Safe
<1> QED
  BY <1>1, TileInitially DEF SafeInv

\* Parts that lie in the packet and meet tile it.
LEMMA PartsTile ==
    ASSUME TileInv, SafeInv
    PROVE  ChunksTile
<1> DEFINE n == Len(chunks) + Len(todo)
<1> SUFFICES ASSUME spc \in {"test", "split", "send", "wait", "rest"}, Expected
             PROVE  /\ n > 0 /\ Parts[1].lo = 0 /\ Parts[n].hi = Size(pkt)
                    /\ \A k \in 1..n - 1 : Parts[k].hi = Parts[k + 1].lo
                    /\ \A k \in 1..n : Parts[k].lo <= Parts[k].hi
                    /\ Size(pkt) > 0 => \A k \in 1..n : Parts[k].lo < Parts[k].hi
  BY DEF ChunksTile, Expected
<1>1. /\ n > 0 /\ Parts[1].lo = 0 /\ Parts[n].hi = Size(pkt)
      /\ \A k \in 1..n - 1 : Parts[k].hi = Parts[k + 1].lo
  BY DEF TileInv, SlicerInv, ChunksMeet
<1>2. ASSUME NEW k \in 1..n
      PROVE  Inside(Parts[k], Size(pkt))
  <2>1. /\ \A j \in 1..Len(chunks) : Inside(chunks[j], Size(pkt))
        /\ \A j \in 1..Len(todo) : Inside(todo[j], Size(pkt))
    BY DEF SafeInv, Safe
  <2>2. Len(chunks) \in Nat /\ Len(todo) \in Nat
    BY DEF TileInv, SlicerInv, SlicerTypes
  <2>3. CASE k <= Len(chunks)
    BY <2>1, <2>2, <2>3 DEF Parts
  <2>4. CASE ~(k <= Len(chunks))
    <3>1. k - Len(chunks) \in 1..Len(todo) /\ Parts[k] = todo[k - Len(chunks)]
      BY <2>2, <2>4 DEF Parts
    <3> QED
      BY <2>1, <3>1
  <2> QED
    BY <2>3, <2>4
<1> QED
  BY <1>1, <1>2 DEF Inside

\* For packets of any length that the stack has room for, documented sizes that
\* no update writes while chunk runs, and any choice of the random middle: the
\* parts that SlicerToxic.chunk has cut and has yet to cut run forward through
\* the packet without a gap or an overlap, and none is empty.
THEOREM ChunksAlwaysTile == Spec => []ChunksTile
<1>1. Init => TileInv /\ SafeInv
  BY SafeInitially
<1>2. TileInv /\ SafeInv /\ [Next]_vars => (TileInv /\ SafeInv)'
  BY TileStep, SafeStep
<1>3. TileInv /\ SafeInv => ChunksTile
  BY PartsTile
<1> QED
  BY <1>1, <1>2, <1>3, PTL DEF Spec

\* If the variation is less than the average size and an update does not write
\* either while chunk runs, then for packets of any length that the stack has
\* room for, SlicerToxic.Pipe cuts no piece out of bounds, and the recursion of
\* chunk does not overflow the stack: it is at most as deep as the packet is
\* long.
THEOREM SlicerAlwaysSafe == Spec => []SlicerSafe
<1>1. Init => TileInv /\ SafeInv
  BY SafeInitially
<1>2. TileInv /\ SafeInv /\ [Next]_vars => (TileInv /\ SafeInv)'
  BY TileStep, SafeStep
<1>3. SafeInv => SlicerSafe
  BY DEF SafeInv, Safe, SlicerSafe, Expected
<1> QED
  BY <1>1, <1>2, <1>3, PTL DEF Spec

-----------------------------------------------------------------------------
(* Slices, the bandwidth toxic and the reader *)

\* Slice s lies within the first n bytes of the stream.
Within(s, n) ==
    s \in Slices /\ 0 <= s.lo /\ s.lo <= s.hi /\ s.hi <= s.cap /\ s.cap <= n

\* The slicer's packet, and the piece of it that is being sent.
SlicerSlices ==
    /\ Within(pkt, total)
    /\ spc = "send" => InBounds(pkt, chunks[nth].lo, chunks[nth].hi)
    /\ spc = "rest" => 0 <= chunks[nth].hi /\ chunks[nth].hi <= Size(pkt)

BandwidthTypes ==
    /\ rate \in Rates /\ bpc \in BandwidthPcs
    /\ Within(p, total) /\ Within(piece, total) /\ sleep \in Int
    /\ timer \in [elapsed : Nat, due : Int]
    /\ meter \in [sent : Int, waited : Nat, packets : Nat, steady : BOOLEAN]

ReaderTypes ==
    /\ size \in BufferSizes /\ Within(buffer, total) /\ eof \in BOOLEAN
    /\ rpc \in {"read", "write", "done"} /\ out \in Seq(Nat) /\ dest \in Seq(Nat)

\* The update in progress writes one of the rates that clients may give.
UpdateInv ==
    /\ upd.pc \in {"none", "decode", "interrupt", "returned"} /\ updates \in 0..MaxUpdates
    /\ upd.pc = "decode" /\ "rate" \in upd.todo => upd.new["rate"] \in Rates

PathTypes ==
    /\ datagrams \in 0..MaxDatagrams /\ dropped \subseteq 1..total
    /\ raced \subseteq {"sizes", "rate", "avg", "var"}

PathInv ==
    /\ TileInv /\ SlicerSlices /\ BandwidthTypes
    /\ ReaderTypes /\ UpdateInv /\ PathTypes

-----------------------------------------------------------------------------
\* What keeps the bandwidth toxic from cutting out of bounds: between the
\* loop's test and the second cut the packet is longer than a piece.
RateInv ==
    "rate" \notin raced =>
        /\ rate > 0 /\ bpc # "panic"
        /\ bpc \in {"tick", "piece", "reslice"} => rate * Interval < Size(p)

\* The bytes that the rate allows for the time waited, less those sent.
Credit == rate * meter.waited + (rate - 1) * meter.packets - meter.sent

\* The time yet to be waited pays for the packet, but for the rounding; and
\* a late timer is paid back by the time that was waited already.
Metered ==
    /\ bpc \in {"loop", "piece", "reslice"} =>
         Size(p) <= Credit + rate * sleep /\ rate * sleep <= Size(p)
    /\ bpc \in {"tick", "last"} =>
         Size(p) <= Credit + rate * sleep - rate * timer.elapsed /\ rate * sleep <= Size(p)
    /\ bpc \in {"receive", "final", "closed"} =>
         sleep <= 0 /\ 0 <= Credit + rate * sleep
    /\ bpc = "panic" => 0 <= Credit

MeterInv ==
    /\ bpc = "tick" => timer.due = Interval
    /\ bpc = "last" => timer.due = sleep
    /\ bpc \in {"flush", "returned"} =>
         sleep = 0 /\ meter.sent = 0 /\ meter.waited = 0 /\ meter.packets = 0
    /\ meter.steady /\ rate > 0 => Metered

-----------------------------------------------------------------------------
(* Slices *)

\* Reslicing within bounds.
LEMMA CutWithin ==
    ASSUME NEW n \in Nat, NEW s, Within(s, n), NEW a \in Int, NEW b \in Int, InBounds(s, a, b)
    PROVE  Within(Cut(s, a, b), n) /\ Size(Cut(s, a, b)) = b - a
<1>1. s \in Slices /\ 0 <= s.lo /\ s.cap <= n /\ 0 <= a /\ a <= b /\ b <= s.cap - s.lo
  BY DEF Within, InBounds
<1>2. /\ Cut(s, a, b) \in Slices
      /\ Cut(s, a, b).lo = s.lo + a /\ Cut(s, a, b).hi = s.lo + b /\ Cut(s, a, b).cap = s.cap
  <2> DEFINE x == s.lo + a
             y == s.lo + b
  <2>1. x \in Int /\ y \in Int
    BY <1>1 DEF Slices
  <2> HIDE DEF x, y
  <2>2. LET c == [s EXCEPT !.lo = x, !.hi = y]
        IN c \in Slices /\ c.lo = x /\ c.hi = y /\ c.cap = s.cap
    BY <1>1, <2>1 DEF Slices
  <2> QED
    BY <2>2 DEF Cut, x, y
<1> QED
  BY <1>1, <1>2 DEF Within, Slices, Size

\* A slice has a length, and may be cut to it.
LEMMA SizeWithin ==
    ASSUME NEW n \in Nat, NEW s, Within(s, n)
    PROVE  Size(s) \in Nat /\ \A a \in 0..Size(s) : InBounds(s, a, Size(s)) /\ InBounds(s, 0, a)
BY DEF Within, InBounds, Slices, Size

\* A new slice, and the empty one that locals out of scope hold.
LEMMA MadeWithin ==
    ASSUME NEW n \in Nat
    PROVE  /\ Within(Made(0, 0), n)
           /\ \A k \in Nat : Within(Made(n, k), n + k)
BY DEF Within, Made, Slices

\* A slice of the stream stays one as the stream grows.
LEMMA WithinMore ==
    ASSUME NEW n \in Nat, NEW m \in Nat, n <= m, NEW s, Within(s, n)
    PROVE  Within(s, m)
BY DEF Within, Slices

\* The bytes of a slice are numbers.
LEMMA BytesAreNat ==
    ASSUME NEW n \in Nat, NEW s, Within(s, n)
    PROVE  Bytes(s) \in Seq(Nat)
<1>1. Size(s) \in Nat /\ s.lo \in Nat
  BY SizeWithin DEF Within, Slices
<1>2. Bytes(s) \in [1..Size(s) -> Nat]
  BY <1>1 DEF Bytes
<1> QED
  BY <1>1, <1>2

\* What the slicer hands to the bandwidth toxic.
LEMMA OutputWithin ==
    ASSUME TileInv, SlicerSlices, SlicerSending
    PROVE  Within(SlicerOutput, total)
<1>1. chunks[nth] \in Part /\ total \in Nat /\ Within(pkt, total)
  BY DEF SlicerSending, TileInv, SlicerInv, SlicerTypes, SlicerShape, SlicerSlices
<1>2. chunks[nth].lo \in Int /\ chunks[nth].hi \in Int
  BY <1>1 DEF Part
<1>3. CASE spc = "send"
  BY <1>1, <1>2, <1>3, CutWithin DEF SlicerSlices, SlicerOutput
<1>4. CASE spc = "rest"
  <2>1. Size(pkt) \in Nat /\ InBounds(pkt, chunks[nth].hi, Size(pkt))
    BY <1>1, <1>2, <1>4, SizeWithin DEF SlicerSlices
  <2> QED
    BY <1>1, <1>2, <1>4, <2>1, CutWithin DEF SlicerOutput
<1> QED
  BY <1>3, <1>4 DEF SlicerSending

\* The steps of the slicer: a piece is sent only if it lies in the packet.
LEMMA SlicerSlicesStep ==
    ASSUME TileInv, SlicerSlices, total' \in Nat,
           \/ \E n \in Lengths : SlicerReceive(Made(total, n)) /\ total' = total + n
           \/ /\ \/ ChunkReturns \/ \E r \in Variation : ChunkRecurses(r)
                 \/ SlicerCloses \/ ChunkSplits \/ FirstPiece \/ NextPiece \/ SlicerSent
                 \/ SlicerInterrupted \/ SlicerRuns \/ UNCHANGED slicerVars
                 \/ \E f, v : SlicerDecodes(f, v)
              /\ total' = total
    PROVE  SlicerSlices'
<1>1. total \in Nat /\ Within(pkt, total)
  BY DEF TileInv, SlicerSlices
<1>2. ASSUME NEW n \in Lengths, SlicerReceive(Made(total, n)), total' = total + n
      PROVE  SlicerSlices'
  <2>1. n \in Nat /\ pkt' = Made(total, n) /\ spc' = "test"
    BY <1>2, DataPathAssumption DEF SlicerReceive
  <2> QED
    BY <1>1, <1>2, <2>1, MadeWithin DEF SlicerSlices
<1>3. ASSUME UNCHANGED <<pkt, total>>, spc' \notin {"send", "rest"}
      PROVE  SlicerSlices'
  BY <1>1, <1>3 DEF SlicerSlices
<1>4. CASE total' = total /\ (ChunkReturns \/ SlicerCloses \/ ChunkSplits \/ SlicerRuns
                             \/ \E r \in Variation : ChunkRecurses(r))
  BY <1>3, <1>4 DEF ChunkReturns, SlicerCloses, ChunkSplits, SlicerRuns, ChunkRecurses
<1>5. CASE total' = total /\ FirstPiece
  <2>1. nth = 1
    BY <1>5 DEF FirstPiece, TileInv, SlicerInv, SlicerShape
  <2> QED
    BY <1>1, <1>5, <2>1 DEF FirstPiece, Sends, SlicerSlices
<1>6. ASSUME NEW pc \in {"receive", "returned"}, PacketDone(pc), total' = total
      PROVE  SlicerSlices'
  BY <1>1, <1>6, MadeWithin DEF PacketDone, SlicerSlices
<1>7. CASE total' = total /\ NextPiece
  <2>1. CASE nth = Len(chunks)
    BY <1>6, <1>7, <2>1 DEF NextPiece
  <2>2. CASE nth # Len(chunks)
    BY <1>1, <1>7, <2>2 DEF NextPiece, Sends, SlicerSlices
  <2> QED
    BY <2>1, <2>2
<1>8. CASE total' = total /\ SlicerSent
  <2>1. CASE spc = "send"
    BY <1>3, <1>8, <2>1 DEF SlicerSent
  <2>2. CASE spc # "send"
    BY <1>6, <1>8, <2>2 DEF SlicerSent
  <2> QED
    BY <2>1, <2>2
<1>9. CASE total' = total /\ SlicerInterrupted
  BY <1>1, <1>9 DEF SlicerInterrupted, SlicerSlices
<1>10. CASE total' = total /\ (UNCHANGED slicerVars \/ \E f, v : SlicerDecodes(f, v))
  BY <1>10 DEF slicerVars, SlicerDecodes, SlicerSlices
<1> QED
  BY <1>2, <1>4, <1>5, <1>7, <1>8, <1>9, <1>10

-----------------------------------------------------------------------------
(* The bandwidth toxic and the reader *)

\* The steps of the bandwidth toxic.
LEMMA BandwidthTypesStep ==
    ASSUME BandwidthTypes, total \in Nat, total' = total,
           \/ \E c : Within(c, total) /\ BandwidthReceive(c)
           \/ LoopTest \/ PieceDue \/ Reslice \/ LastDue \/ Tick
           \/ BandwidthInterrupted \/ FlushTimesOut \/ BandwidthSent \/ BandwidthRuns
           \/ BandwidthCloses \/ \E r \in Rates : BandwidthDecodes(r)
    PROVE  BandwidthTypes'
<1> USE DEF BandwidthTypes, BandwidthPcs
<1>1. /\ Within(p, total) /\ Within(Made(0, 0), total) /\ Size(p) \in Nat
      /\ rate \in Int /\ Interval \in Nat /\ rate * Interval \in Int
  BY MadeWithin, SizeWithin, BandwidthAssumption
<1>2. \A d \in Int : After(d) \in [elapsed : Nat, due : Int]
  BY DEF After
<1>3. ASSUME NEW c, Within(c, total), BandwidthReceive(c)
      PROVE  BandwidthTypes'
  <2>1. Size(c) \in Nat
    BY <1>3, SizeWithin
  <2>2. sleep' \in Int
    <3>1. CASE rate <= 0
      BY <1>3, <3>1 DEF BandwidthReceive
    <3>2. CASE ~(rate <= 0)
      BY <1>1, <1>3, <2>1, <3>2 DEF BandwidthReceive
    <3> QED
      BY <3>1, <3>2
  <2> QED
    BY <1>3, <2>2 DEF BandwidthReceive
<1>4. CASE LoopTest
  <2>1. timer' \in [elapsed : Nat, due : Int] /\ bpc' \in {"tick", "last"}
    BY <1>1, <1>2, <1>4 DEF LoopTest
  <2> QED
    BY <1>4, <2>1 DEF LoopTest
<1>5. CASE PieceDue
  <2>1. timer' \in [elapsed : Nat, due : Int]
    BY <1>2, <1>5 DEF PieceDue
  <2>2. CASE InBounds(p, 0, rate * Interval)
    <3>1. Within(Cut(p, 0, rate * Interval), total)
      BY <1>1, <2>2, CutWithin
    <3> QED
      BY <1>1, <1>5, <2>1, <2>2, <3>1 DEF PieceDue
  <2>3. CASE ~InBounds(p, 0, rate * Interval)
    BY <1>5, <2>1, <2>3 DEF PieceDue
  <2> QED
    BY <2>2, <2>3
<1>6. CASE Reslice
  <2> DEFINE k == rate * Interval
  <2>1. piece' = Made(0, 0) /\ UNCHANGED <<rate, timer, meter>>
    BY <1>6 DEF Reslice
  <2>2. CASE 0 <= k /\ k <= Size(p)
    <3>1. InBounds(p, k, Size(p))
      BY <1>1, <2>2, SizeWithin
    <3>2. Within(Cut(p, k, Size(p)), total)
      BY <1>1, <3>1, CutWithin
    <3> QED
      BY <1>1, <1>6, <2>1, <2>2, <3>2 DEF Reslice
  <2>3. CASE ~(0 <= k /\ k <= Size(p))
    BY <1>1, <1>6, <2>1, <2>3 DEF Reslice
  <2> QED
    BY <2>2, <2>3
<1>7. CASE LastDue
  BY <1>1, <1>2, <1>7 DEF LastDue
<1>8. CASE Tick
  BY <1>8 DEF Tick
<1>9. CASE BandwidthInterrupted
  BY <1>2, <1>9 DEF BandwidthInterrupted, NewRun
<1>10. CASE FlushTimesOut
  BY <1>1, <1>10 DEF FlushTimesOut
<1>11. CASE BandwidthSent
  BY <1>1, <1>11 DEF BandwidthSent, BandwidthSending
<1>12. CASE BandwidthRuns \/ BandwidthCloses
  BY <1>12 DEF BandwidthRuns, BandwidthCloses
<1>13. ASSUME NEW r \in Rates, BandwidthDecodes(r)
       PROVE  BandwidthTypes'
  <2>1. meter' \in [sent : Int, waited : Nat, packets : Nat, steady : BOOLEAN]
    <3> DEFINE b == meter.steady /\ (r = rate \/ bpc \in {"flush", "returned"})
    <3>1. meter' = [meter EXCEPT !.steady = b] /\ b \in BOOLEAN
      BY <1>13 DEF BandwidthDecodes
    <3> HIDE DEF b
    <3> QED
      BY <3>1
  <2> QED
    BY <1>13, <2>1 DEF BandwidthDecodes
<1> QED
  BY <1>3, <1>4, <1>5, <1>6, <1>7, <1>8, <1>9, <1>10, <1>11, <1>12, <1>13

\* Read and the loop of io.Copy.
LEMMA ReaderTypesStep ==
    ASSUME ReaderTypes, total \in Nat, total' = total,
           \/ \E c : Within(c, total) /\ ReadChunk(c)
           \/ ReadBuffered \/ ReadClosed \/ ReadEnds \/ CopyWrites
    PROVE  ReaderTypes'
<1> USE DEF ReaderTypes
<1>1. /\ size \in Nat /\ Within(buffer, total) /\ Size(buffer) \in Nat
      /\ Copied \in 0..Size(buffer) /\ Copied <= size
  BY SizeWithin, ReaderAssumption DEF Copied, Least
<1>2. Within(Residue, total) /\ Bytes(Cut(buffer, 0, Copied)) \in Seq(Nat)
  <2>1. InBounds(buffer, Copied, Size(buffer)) /\ InBounds(buffer, 0, Copied)
    BY <1>1, SizeWithin
  <2>2. Within(Residue, total) /\ Within(Cut(buffer, 0, Copied), total)
    BY <1>1, <2>1, CutWithin DEF Residue
  <2> QED
    BY <2>2, BytesAreNat
<1>3. ASSUME NEW c, Within(c, total), ReadChunk(c)
      PROVE  ReaderTypes'
  <2> DEFINE n2 == Least(size - Copied, Size(c))
  <2>1. Size(c) \in Nat
    BY <1>3, SizeWithin
  <2>2. n2 \in 0..Size(c)
    BY <1>1, <2>1 DEF Least
  <2>3. InBounds(c, n2, Size(c)) /\ InBounds(c, 0, n2)
    BY <1>3, <2>2, SizeWithin
  <2>4. n2 \in Int
    BY <2>1, <2>2
  <2> HIDE DEF n2
  <2>5. Within(Cut(c, n2, Size(c)), total) /\ Within(Cut(c, 0, n2), total)
    BY <1>3, <2>1, <2>3, <2>4, CutWithin
  <2>6. Bytes(Cut(buffer, 0, Copied)) \o Bytes(Cut(c, 0, n2)) \in Seq(Nat)
    BY <1>2, <2>5, BytesAreNat
  <2>7. /\ buffer' = Cut(c, n2, Size(c))
        /\ out' = Bytes(Cut(buffer, 0, Copied)) \o Bytes(Cut(c, 0, n2))
        /\ rpc' = "write" /\ UNCHANGED <<size, dest, eof>>
    BY <1>3 DEF ReadChunk, Returns, n2
  <2> QED
    BY <2>5, <2>6, <2>7
<1>4. CASE ReadBuffered
  BY <1>2, <1>4 DEF ReadBuffered, Returns
<1>5. CASE ReadClosed
  BY <1>2, <1>5 DEF ReadClosed, Returns
<1>6. CASE ReadEnds
  BY <1>6 DEF ReadEnds
<1>7. CASE CopyWrites
  <2>1. dest \o out \in Seq(Nat) /\ <<>> \in Seq(Nat)
    OBVIOUS
  <2> QED
    BY <1>7, <2>1 DEF CopyWrites
<1> QED
  BY <1>3, <1>4, <1>5, <1>6, <1>7

\* Parts that a step leaves alone keep their types as the stream grows.
LEMMA Untouched ==
    ASSUME total \in Nat, total' \in Nat, total <= total'
    PROVE  /\ BandwidthTypes /\ UNCHANGED bandwidthVars => BandwidthTypes'
           /\ ReaderTypes /\ UNCHANGED readerVars => ReaderTypes'
<1>1. ASSUME BandwidthTypes, UNCHANGED bandwidthVars
      PROVE  BandwidthTypes'
  BY <1>1, WithinMore DEF BandwidthTypes, bandwidthVars
<1>2. ASSUME ReaderTypes, UNCHANGED readerVars
      PROVE  ReaderTypes'
  BY <1>2, WithinMore DEF ReaderTypes, readerVars
<1> QED
  BY <1>1, <1>2

-----------------------------------------------------------------------------
(* The steps of the link *)

\* The data flows, and the rest of the link is as it was.
LEMMA DataStep ==
    ASSUME PathInv, UNCHANGED <<upd, updates, raced>>,
           \/ \E n \in Lengths : SourceWrites(n)
           \/ SourceCloses \/ InputCloses \/ OutputCloses
           \/ SlicerStep \/ SlicerToBandwidth
           \/ BandwidthStep \/ BandwidthGivesUp \/ BandwidthToReader \/ ReaderStep
    PROVE  /\ SlicerSlices' /\ BandwidthTypes' /\ ReaderTypes' /\ UpdateInv' /\ PathTypes'
<1>1. /\ TileInv /\ SlicerSlices /\ BandwidthTypes /\ ReaderTypes /\ UpdateInv /\ PathTypes
      /\ total \in Nat
  BY DEF PathInv, TileInv
<1>2. UpdateInv'
  BY <1>1 DEF UpdateInv
<1>3. ASSUME NEW n \in Lengths, SourceWrites(n)
      PROVE  SlicerSlices' /\ BandwidthTypes' /\ ReaderTypes' /\ PathTypes'
  <2>1. /\ n \in Nat /\ total' = total + n /\ datagrams < MaxDatagrams
        /\ datagrams' = datagrams + 1 /\ UNCHANGED <<bandwidthVars, readerVars, dropped>>
        /\ SlicerReceive(Made(total, n))
    BY <1>3, DataPathAssumption DEF SourceWrites
  <2>2. total' \in Nat /\ total <= total'
    BY <1>1, <2>1
  <2>3. SlicerSlices'
    BY <1>1, <2>1, <2>2, SlicerSlicesStep
  <2>4. PathTypes'
    <3>1. datagrams' \in 0..MaxDatagrams
      BY <1>1, <2>1, DataPathAssumption DEF PathTypes
    <3>2. dropped' \subseteq 1..total'
      BY <1>1, <2>1, <2>2 DEF PathTypes
    <3> QED
      BY <1>1, <3>1, <3>2 DEF PathTypes
  <2> QED
    BY <1>1, <2>1, <2>2, <2>3, <2>4, Untouched
<1>4. ASSUME UNCHANGED pathVars
      PROVE  PathTypes' /\ total' = total /\ total' \in Nat
  BY <1>1, <1>4 DEF PathTypes, pathVars
<1>5. CASE SourceCloses \/ SlicerStep
  <2>1. UNCHANGED <<bandwidthVars, readerVars, pathVars>>
    BY <1>5 DEF SourceCloses, SlicerStep
  <2>2. SlicerSlices'
    BY <1>1, <1>4, <1>5, <2>1, SlicerSlicesStep DEF SourceCloses, SlicerStep
  <2> QED
    BY <1>1, <1>2, <1>4, <2>1, <2>2, Untouched
<1>6. CASE InputCloses \/ BandwidthStep
  <2>1. UNCHANGED <<slicerVars, readerVars, pathVars>>
    BY <1>6 DEF InputCloses, BandwidthStep
  <2>2. SlicerSlices'
    BY <1>1, <1>4, <2>1, SlicerSlicesStep
  <2>3. BandwidthTypes'
    BY <1>1, <1>4, <1>6, <2>1, BandwidthTypesStep DEF InputCloses, BandwidthStep
  <2> QED
    BY <1>1, <1>2, <1>4, <2>1, <2>2, <2>3, Untouched
<1>7. CASE OutputCloses \/ ReaderStep
  <2>1. UNCHANGED <<slicerVars, bandwidthVars, pathVars>>
    BY <1>7 DEF OutputCloses, ReaderStep
  <2>2. SlicerSlices'
    BY <1>1, <1>4, <2>1, SlicerSlicesStep
  <2>3. ReaderTypes'
    BY <1>1, <1>4, <1>7, <2>1, ReaderTypesStep DEF OutputCloses, ReaderStep
  <2> QED
    BY <1>1, <1>2, <1>4, <2>1, <2>2, <2>3, Untouched
<1>8. CASE SlicerToBandwidth
  <2>1. SlicerSent /\ BandwidthReceive(SlicerOutput) /\ UNCHANGED <<readerVars, pathVars>>
    BY <1>8 DEF SlicerToBandwidth
  <2>2. SlicerSlices'
    BY <1>1, <1>4, <2>1, SlicerSlicesStep
  <2>3. Within(SlicerOutput, total)
    BY <1>1, <2>1, OutputWithin DEF SlicerSent
  <2>4. BandwidthTypes'
    BY <1>1, <1>4, <2>1, <2>3, BandwidthTypesStep
  <2> QED
    BY <1>1, <1>2, <1>4, <2>1, <2>2, <2>4, Untouched
<1>9. CASE BandwidthGivesUp
  <2>1. /\ FlushTimesOut /\ dropped' = dropped \cup {p.lo + k : k \in 1..Size(p)}
        /\ UNCHANGED <<slicerVars, readerVars, total, datagrams>>
    BY <1>9 DEF BandwidthGivesUp
  <2>2. SlicerSlices'
    BY <1>1, <2>1, SlicerSlicesStep
  <2>3. BandwidthTypes'
    BY <1>1, <2>1, BandwidthTypesStep
  <2>4. \A k \in 1..Size(p) : p.lo + k \in 1..total
    BY <1>1 DEF BandwidthTypes, Within, Slices, Size
  <2>5. PathTypes'
    BY <1>1, <2>1, <2>4 DEF PathTypes
  <2> QED
    BY <1>1, <1>2, <2>1, <2>2, <2>3, <2>5, Untouched
<1>10. CASE BandwidthToReader
  <2>1. BandwidthSent /\ ReadChunk(BandwidthOutput) /\ UNCHANGED <<slicerVars, pathVars>>
    BY <1>10 DEF BandwidthToReader
  <2>2. SlicerSlices'
    BY <1>1, <1>4, <2>1, SlicerSlicesStep
  <2>3. Within(BandwidthOutput, total)
    BY <1>1 DEF BandwidthOutput, BandwidthTypes
  <2>4. BandwidthTypes' /\ ReaderTypes'
    BY <1>1, <1>4, <2>1, <2>3, BandwidthTypesStep, ReaderTypesStep
  <2> QED
    BY <1>2, <1>4, <2>1, <2>2, <2>4
<1> QED
  BY <1>2, <1>3, <1>5, <1>6, <1>7, <1>8, <1>9, <1>10

\* An update decodes into the live toxics, interrupts one and runs it again.
LEMMA UpdateStep ==
    ASSUME PathInv, Update
    PROVE  /\ SlicerSlices' /\ BandwidthTypes' /\ ReaderTypes' /\ UpdateInv' /\ PathTypes'
<1>1. /\ TileInv /\ SlicerSlices /\ BandwidthTypes /\ ReaderTypes /\ UpdateInv /\ PathTypes
      /\ total \in Nat
  BY DEF PathInv, TileInv
<1>2. UNCHANGED <<readerVars, total, datagrams, dropped>>
  BY DEF Update, UpdateToxicJson, Decode, DecodeEnds, InterruptToxic, RunToxic
<1>3. ReaderTypes'
  BY <1>1, <1>2, Untouched
<1>4. ASSUME UNCHANGED bandwidthVars
      PROVE  BandwidthTypes'
  BY <1>1, <1>2, <1>4, Untouched
<1>5. ASSUME UNCHANGED slicerVars
      PROVE  SlicerSlices'
  BY <1>1, <1>2, <1>5, SlicerSlicesStep
<1>6. ASSUME raced' = raced
      PROVE  PathTypes'
  BY <1>1, <1>2, <1>6 DEF PathTypes
<1>7. ASSUME NEW toxic, NEW new, UpdateToxicJson(toxic, new), "rate" \in DOMAIN new => new["rate"] \in Rates
      PROVE  SlicerSlices' /\ BandwidthTypes' /\ UpdateInv' /\ PathTypes'
  <2>1. /\ upd' = [pc |-> "decode", toxic |-> toxic, new |-> new, todo |-> DOMAIN new]
        /\ updates < MaxUpdates /\ updates' = updates + 1
        /\ UNCHANGED <<slicerVars, bandwidthVars, raced>>
    BY <1>7 DEF UpdateToxicJson
  <2>2. updates' \in 0..MaxUpdates
    BY <1>1, <2>1, DataPathAssumption DEF UpdateInv
  <2>3. UpdateInv'
    BY <1>7, <2>1, <2>2 DEF UpdateInv
  <2> QED
    BY <1>4, <1>5, <1>6, <2>1, <2>3
<1>8. ASSUME NEW a \in SlicerAttrs, UpdateToxicJson("slicer", a)
      PROVE  SlicerSlices' /\ BandwidthTypes' /\ UpdateInv' /\ PathTypes'
  <2>1. "rate" \notin DOMAIN a
    BY SlicerAssumption
  <2> QED
    BY <1>7, <1>8, <2>1
<1>9. ASSUME NEW r \in Rates, UpdateToxicJson("bandwidth", [rate |-> r])
      PROVE  SlicerSlices' /\ BandwidthTypes' /\ UpdateInv' /\ PathTypes'
  BY <1>7, <1>9
<1>10. ASSUME NEW f \in {"avg", "var", "rate"}, Decode(f)
       PROVE  SlicerSlices' /\ BandwidthTypes' /\ UpdateInv' /\ PathTypes'
  <2>1. /\ upd.pc = "decode" /\ f \in upd.todo /\ upd' = [upd EXCEPT !.todo = @ \ {f}]
        /\ updates' = updates
        /\ raced' = raced \cup Odd(slicer', rate') \cup (IF InUse(f) THEN {f} ELSE {})
    BY <1>10 DEF Decode
  <2>2. UpdateInv'
    BY <1>1, <2>1 DEF UpdateInv
  <2>3. PathTypes'
    BY <1>1, <1>2, <2>1 DEF PathTypes, Odd
  <2>4. CASE f = "rate"
    <3>1. BandwidthDecodes(upd.new[f]) /\ upd.new[f] \in Rates /\ UNCHANGED slicerVars
      BY <1>1, <1>10, <2>1, <2>4 DEF Decode, UpdateInv
    <3>2. BandwidthTypes'
      BY <1>1, <1>2, <3>1, BandwidthTypesStep
    <3> QED
      BY <1>5, <2>2, <2>3, <3>1, <3>2
  <2>5. CASE f # "rate"
    <3>1. SlicerDecodes(f, upd.new[f]) /\ UNCHANGED bandwidthVars
      BY <1>10, <2>5 DEF Decode
    <3>2. SlicerSlices'
      BY <1>1, <1>2, <3>1, SlicerSlicesStep
    <3> QED
      BY <1>4, <2>2, <2>3, <3>1, <3>2
  <2> QED
    BY <2>4, <2>5
<1>11. CASE DecodeEnds
  <2>1. upd'.pc \in {"none", "interrupt"} /\ UNCHANGED <<slicerVars, bandwidthVars, updates, raced>>
    BY <1>11 DEF DecodeEnds, NoUpdate
  <2>2. UpdateInv'
    BY <1>1, <2>1 DEF UpdateInv
  <2> QED
    BY <1>3, <1>4, <1>5, <1>6, <2>1, <2>2
<1>12. CASE InterruptToxic
  <2>1. upd'.pc \in {"none", "returned"} /\ UNCHANGED <<updates, raced>>
    BY <1>12 DEF InterruptToxic, NoUpdate
  <2>2. UpdateInv'
    BY <1>1, <2>1 DEF UpdateInv
  <2>3. SlicerSlices'
    BY <1>1, <1>2, <1>12, SlicerSlicesStep DEF InterruptToxic
  <2>4. BandwidthTypes'
    <3>1. CASE BandwidthInterrupted
      BY <1>1, <1>2, <3>1, BandwidthTypesStep
    <3> QED
      BY <1>4, <1>12, <3>1 DEF InterruptToxic
  <2> QED
    BY <1>3, <1>6, <2>1, <2>2, <2>3, <2>4
<1>13. CASE RunToxic
  <2>1. upd'.pc = "none" /\ UNCHANGED <<updates, raced>>
    BY <1>13 DEF RunToxic, NoUpdate
  <2>2. UpdateInv'
    BY <1>1, <2>1 DEF UpdateInv
  <2>3. SlicerSlices'
    BY <1>1, <1>2, <1>13, SlicerSlicesStep DEF RunToxic
  <2>4. BandwidthTypes'
    <3>1. CASE BandwidthRuns
      BY <1>1, <1>2, <3>1, BandwidthTypesStep
    <3> QED
      BY <1>4, <1>13, <3>1 DEF RunToxic
  <2> QED
    BY <1>3, <1>6, <2>1, <2>2, <2>3, <2>4
<1> QED
  BY <1>3, <1>8, <1>9, <1>10, <1>11, <1>12, <1>13 DEF Update

\* Whatever the sizes, rates and updates: every slice that the toxics and the
\* reader hold lies within what the source has sent.
THEOREM SlicesInRange == Spec => []PathInv
<1>1. Init => PathInv
  <2> SUFFICES ASSUME Init
               PROVE  PathInv
    OBVIOUS
  <2>1. TileInv /\ total = 0
    BY TileInitially DEF Init
  <2>2. Within(Made(0, 0), total)
    BY <2>1, MadeWithin
  <2>3. SlicerSlices
    BY <2>2 DEF Init, SlicerInit, SlicerSlices
  <2>4. BandwidthTypes
    BY <2>2 DEF Init, BandwidthInit, BandwidthTypes, NewRun, BandwidthPcs
  <2>5. ReaderTypes
    <3>1. <<>> \in Seq(Nat)
      OBVIOUS
    <3> QED
      BY <2>2, <3>1 DEF Init, ReaderInit, ReaderTypes
  <2>6. UpdateInv
    BY DataPathAssumption DEF Init, UpdateInv, NoUpdate
  <2>7. PathTypes
    <3>1. datagrams \in 0..MaxDatagrams
      BY DataPathAssumption DEF Init
    <3> QED
      BY <3>1 DEF Init, PathTypes, Odd
  <2> QED
    BY <2>1, <2>3, <2>4, <2>5, <2>6, <2>7 DEF PathInv
<1>2. PathInv /\ [Next]_vars => PathInv'
  <2> SUFFICES ASSUME PathInv, [Next]_vars
               PROVE  PathInv'
    OBVIOUS
  <2>1. TileInv'
    BY TileStep DEF PathInv
  <2>2. CASE \/ \E n \in Lengths : SourceWrites(n)
             \/ SourceCloses \/ InputCloses \/ OutputCloses
             \/ SlicerStep \/ SlicerToBandwidth
             \/ BandwidthStep \/ BandwidthGivesUp \/ BandwidthToReader \/ ReaderStep
    <3>1. UNCHANGED <<upd, updates, raced>>
      BY <2>2 DEF SourceWrites, SourceCloses, InputCloses, OutputCloses, SlicerStep,
                  SlicerToBandwidth, BandwidthStep, BandwidthGivesUp, BandwidthToReader,
                  ReaderStep, pathVars
    <3> QED
      BY <2>1, <2>2, <3>1, DataStep DEF PathInv
  <2>3. CASE Update
    BY <2>1, <2>3, UpdateStep DEF PathInv
  <2>4. CASE UNCHANGED vars
    <3>1. UNCHANGED <<slicerVars, bandwidthVars, readerVars>> /\ UNCHANGED pathVars
      BY <2>4 DEF vars
    <3>2. total \in Nat /\ total' = total
      BY <3>1 DEF pathVars, PathInv, TileInv
    <3>3. SlicerSlices' /\ BandwidthTypes' /\ ReaderTypes'
      BY <3>1, <3>2, SlicerSlicesStep, Untouched DEF PathInv
    <3>4. UpdateInv' /\ PathTypes'
      BY <3>1 DEF pathVars, PathInv, UpdateInv, PathTypes
    <3> QED
      BY <2>1, <3>3, <3>4 DEF PathInv
  <2> QED
    BY <2>2, <2>3, <2>4 DEF Next
<1> QED
  BY <1>1, <1>2, PTL DEF Spec

\* Every variable of the link keeps its type.
THEOREM TypeCorrect == Spec => []TypeOK
<1>1. PathInv => TypeOK
  BY DEF PathInv, TileInv, SlicerInv, SlicerTypes, SlicerShape, SlicerSlices, BandwidthTypes,
         ReaderTypes, UpdateInv, PathTypes, TypeOK, Within, CallOf, Part
<1> QED
  BY <1>1, SlicesInRange, PTL

-----------------------------------------------------------------------------
(* The rate *)

\* What a step does to the bandwidth toxic, but for the writing of its rate.
BandwidthMoves ==
    \/ \E c : Within(c, total) /\ BandwidthReceive(c)
    \/ LoopTest \/ PieceDue \/ Reslice \/ LastDue \/ Tick
    \/ BandwidthInterrupted \/ FlushTimesOut \/ BandwidthSent \/ BandwidthRuns
    \/ BandwidthCloses \/ UNCHANGED bandwidthVars

\* The decoder writes the rate, and the history tells if it was in use.
RateWritten ==
    /\ \E r \in Rates : BandwidthDecodes(r)
    /\ raced' = raced \cup Odd(slicer', rate') \cup (IF InUse("rate") THEN {"rate"} ELSE {})

\* A step of the specification is one of the bandwidth toxic or writes its rate.
LEMMA StepOfBandwidth ==
    ASSUME PathInv, [Next]_vars
    PROVE  (BandwidthMoves /\ raced \subseteq raced') \/ RateWritten
<1>1. ASSUME UNCHANGED bandwidthVars, raced \subseteq raced'
      PROVE  BandwidthMoves /\ raced \subseteq raced'
  BY <1>1 DEF BandwidthMoves
<1>2. CASE UNCHANGED vars
  BY <1>1, <1>2 DEF vars, pathVars
<1>3. CASE \/ \E n \in Lengths : SourceWrites(n)
           \/ SourceCloses \/ OutputCloses \/ SlicerStep \/ ReaderStep
  BY <1>1, <1>3 DEF SourceWrites, SourceCloses, OutputCloses, SlicerStep, ReaderStep, pathVars
<1>4. CASE InputCloses \/ BandwidthStep \/ BandwidthGivesUp \/ BandwidthToReader
  BY <1>4 DEF InputCloses, BandwidthStep, BandwidthGivesUp, BandwidthToReader, pathVars,
              BandwidthMoves
<1>5. CASE SlicerToBandwidth
  <2>1. /\ SlicerSending /\ BandwidthReceive(SlicerOutput) /\ raced' = raced
    BY <1>5 DEF SlicerToBandwidth, SlicerSent, pathVars
  <2>2. Within(SlicerOutput, total)
    BY <2>1, OutputWithin DEF PathInv
  <2> QED
    BY <2>1, <2>2 DEF BandwidthMoves
<1>6. ASSUME NEW f \in {"avg", "var", "rate"}, Decode(f)
      PROVE  (BandwidthMoves /\ raced \subseteq raced') \/ RateWritten
  <2>1. /\ upd.pc = "decode" /\ f \in upd.todo
        /\ raced' = raced \cup Odd(slicer', rate') \cup (IF InUse(f) THEN {f} ELSE {})
    BY <1>6 DEF Decode
  <2>2. CASE f = "rate"
    <3>1. BandwidthDecodes(upd.new[f]) /\ upd.new[f] \in Rates
      BY <1>6, <2>1, <2>2 DEF Decode, PathInv, UpdateInv
    <3> QED
      BY <2>1, <2>2, <3>1 DEF RateWritten
  <2>3. CASE f # "rate"
    BY <1>1, <1>6, <2>1, <2>3 DEF Decode
  <2> QED
    BY <2>2, <2>3
<1>7. CASE \/ \E a \in SlicerAttrs : UpdateToxicJson("slicer", a)
           \/ \E r \in Rates : UpdateToxicJson("bandwidth", [rate |-> r])
           \/ DecodeEnds
  BY <1>1, <1>7 DEF UpdateToxicJson, DecodeEnds
<1>8. CASE InterruptToxic \/ RunToxic
  BY <1>8 DEF InterruptToxic, RunToxic, BandwidthMoves
<1> QED
  BY <1>2, <1>3, <1>4, <1>5, <1>6, <1>7, <1>8 DEF Next, Update

\* Within the loop the packet is longer than a piece, so both cuts succeed.
LEMMA RateStep ==
    ASSUME PathInv, RateInv, [Next]_vars
    PROVE  RateInv'
<1> SUFFICES ASSUME "rate" \notin raced'
             PROVE  /\ rate' > 0 /\ bpc' # "panic"
                    /\ bpc' \in {"tick", "piece", "reslice"} => rate' * Interval < Size(p')
  BY DEF RateInv
<1>1. /\ rate \in Int /\ Interval \in Nat \ {0} /\ Size(p) \in Nat /\ Within(p, total)
      /\ total \in Nat
  BY BandwidthAssumption, SizeWithin DEF PathInv, TileInv, BandwidthTypes
<1>2. CASE RateWritten
  <2>1. PICK r \in Rates : BandwidthDecodes(r)
    BY <1>2 DEF RateWritten
  <2>2. "rate" \notin Odd(slicer', rate') /\ ~InUse("rate") /\ "rate" \notin raced
    BY <1>2 DEF RateWritten
  <2>3. rate' > 0
    BY <2>2 DEF Odd
  <2> QED
    BY <2>1, <2>2, <2>3 DEF BandwidthDecodes, InUse, RateInv
<1>3. CASE BandwidthMoves /\ raced \subseteq raced'
  <2>1. /\ rate > 0 /\ bpc # "panic"
        /\ bpc \in {"tick", "piece", "reslice"} => rate * Interval < Size(p)
    BY <1>3 DEF RateInv
  <2>2. CASE \E c : BandwidthReceive(c)
    BY <2>1, <2>2 DEF BandwidthReceive
  <2>3. CASE LoopTest
    BY <1>1, <2>1, <2>3 DEF LoopTest
  <2>4. CASE PieceDue
    <3>1. rate * Interval >= 0 /\ rate * Interval \in Int
      BY <1>1, <2>1
    <3>2. InBounds(p, 0, rate * Interval)
      BY <1>1, <2>1, <2>4, <3>1 DEF PieceDue, InBounds, Within, Slices, Size
    <3> QED
      BY <2>1, <2>4, <3>2 DEF PieceDue
  <2>5. CASE Reslice
    <3>1. rate * Interval >= 0 /\ rate * Interval \in Int
      BY <1>1, <2>1
    <3>2. 0 <= rate * Interval /\ rate * Interval <= Size(p)
      BY <1>1, <2>1, <2>5, <3>1 DEF Reslice
    <3> QED
      BY <2>1, <2>5, <3>2 DEF Reslice
  <2>6. CASE LastDue \/ FlushTimesOut \/ BandwidthRuns \/ BandwidthCloses
    BY <2>1, <2>6 DEF LastDue, FlushTimesOut, BandwidthRuns, BandwidthCloses
  <2>7. CASE Tick \/ UNCHANGED bandwidthVars
    BY <2>1, <2>7 DEF Tick, bandwidthVars
  <2>8. CASE BandwidthInterrupted
    BY <2>1, <2>8 DEF BandwidthInterrupted
  <2>9. CASE BandwidthSent
    BY <2>1, <2>9 DEF BandwidthSent, BandwidthSending
  <2> QED
    BY <1>3, <2>2, <2>3, <2>4, <2>5, <2>6, <2>7, <2>8, <2>9 DEF BandwidthMoves
<1> QED
  BY <1>2, <1>3, StepOfBandwidth

\* If the rate is positive and nobody writes it while a packet is sent in
\* pieces, BandwidthToxic.Pipe cuts no packet out of bounds: however long it is,
\* however late the timers and wherever an update interrupts.
THEOREM BandwidthAlwaysSafe == Spec => []BandwidthSafe
<1>1. Init => RateInv
  <2> SUFFICES ASSUME Init, "rate" \notin raced
               PROVE  rate > 0 /\ bpc = "receive"
    BY DEF RateInv
  <2> QED
    BY DEF Init, BandwidthInit, Odd
<1>2. PathInv /\ RateInv /\ [Next]_vars => RateInv'
  BY RateStep
<1>3. RateInv => BandwidthSafe
  BY DEF RateInv, BandwidthSafe
<1> QED
  BY <1>1, <1>2, <1>3, SlicesInRange, PTL DEF Spec

\* The time for a packet, rounded down.
LEMMA Rounding ==
    ASSUME NEW a \in Nat, NEW b \in Nat \ {0}
    PROVE  /\ a \div b \in Int
           /\ b * (a \div b) <= a /\ a <= b * (a \div b) + (b - 1)
BY SMT

\* Products with a positive rate.
LEMMA Products ==
    ASSUME NEW r \in Nat \ {0}, NEW a \in Int, NEW b \in Int
    PROVE  /\ r * a \in Int /\ r * (a + b) = r * a + r * b /\ r * (a - b) = r * a - r * b
           /\ (r - 1) * a = r * a - a
           /\ a <= b => r * a <= r * b
           /\ a <= 0 => r * a <= 0
           /\ a >= 0 => r * a >= 0
BY SMT

\* A step without a write of the rate keeps the balance of time and bytes.
LEMMA MeteredStep ==
    ASSUME PathInv, MeterInv, BandwidthMoves, rate > 0, meter'.steady
    PROVE  Metered'
<1>1. /\ rate \in Nat \ {0} /\ Interval \in Nat \ {0} /\ Size(p) \in Nat /\ sleep \in Int
      /\ timer \in [elapsed : Nat, due : Int]
      /\ meter \in [sent : Int, waited : Nat, packets : Nat, steady : BOOLEAN]
      /\ total \in Nat /\ Within(p, total)
  BY BandwidthAssumption, SizeWithin DEF PathInv, TileInv, BandwidthTypes
<1>2. /\ rate * meter.waited \in Int /\ (rate - 1) * meter.packets \in Int
      /\ rate * sleep \in Int /\ rate * timer.elapsed \in Int /\ rate * Interval \in Int
      /\ Credit \in Int
  BY <1>1, Products DEF Credit
<1>3. ASSUME meter.steady
      PROVE  Metered
  BY <1>3 DEF MeterInv
<1>4. ASSUME NEW c, Within(c, total), BandwidthReceive(c)
      PROVE  Metered'
  <2> DEFINE q == Size(c) \div rate
  <2>1. /\ bpc = "receive" /\ bpc' = "loop" /\ p' = c /\ sleep' = sleep + q /\ rate' = rate
        /\ meter' = [meter EXCEPT !.packets = @ + 1]
    BY <1>1, <1>4 DEF BandwidthReceive
  <2>2. Size(c) \in Nat
    BY <1>1, <1>4, SizeWithin
  <2>3. q \in Int /\ rate * q <= Size(c) /\ Size(c) <= rate * q + (rate - 1)
    BY <1>1, <2>2, Rounding
  <2> HIDE DEF q
  <2>4. sleep <= 0 /\ 0 <= Credit + rate * sleep
    BY <1>1, <1>3, <2>1 DEF Metered
  <2>5. rate * sleep' = rate * sleep + rate * q /\ rate * sleep <= 0 /\ rate * q \in Int
    BY <1>1, <2>1, <2>3, <2>4, Products
  <2>6. Credit' = Credit + (rate - 1)
    <3>1. /\ meter'.waited = meter.waited /\ meter'.sent = meter.sent
          /\ meter'.packets = meter.packets + 1
      BY <1>1, <2>1
    <3>2. (rate - 1) * (meter.packets + 1) = (rate - 1) * meter.packets + (rate - 1)
      BY <1>1
    <3> QED
      BY <1>1, <1>2, <2>1, <3>1, <3>2 DEF Credit
  <2>7. Size(c) <= Credit' + rate' * sleep' /\ rate' * sleep' <= Size(c)
    BY <1>1, <1>2, <2>1, <2>2, <2>3, <2>4, <2>5, <2>6
  <2> QED
    BY <2>1, <2>7 DEF Metered
<1>5. CASE LoopTest
  <2>1. /\ bpc = "loop" /\ bpc' \in {"tick", "last"} /\ timer'.elapsed = 0
        /\ UNCHANGED <<rate, p, sleep, meter>>
    BY <1>5 DEF LoopTest, After
  <2>2. Credit' = Credit /\ rate' * sleep' = rate * sleep /\ rate' * timer'.elapsed = 0
    BY <1>1, <2>1 DEF Credit
  <2>3. Size(p) <= Credit + rate * sleep /\ rate * sleep <= Size(p)
    BY <1>1, <1>3, <2>1 DEF Metered
  <2>4. Size(p') <= Credit' + rate' * sleep' - rate' * timer'.elapsed
    BY <1>2, <2>1, <2>2, <2>3
  <2> QED
    BY <2>1, <2>2, <2>3, <2>4 DEF Metered
<1>6. CASE Tick
  <2>1. /\ bpc \in {"tick", "last"} /\ UNCHANGED <<rate, bpc, p, sleep>>
        /\ timer'.elapsed = timer.elapsed + 1
        /\ meter'.waited = meter.waited + 1 /\ meter'.sent = meter.sent
        /\ meter'.packets = meter.packets /\ meter'.steady = meter.steady
    BY <1>1, <1>6 DEF Tick
  <2>2. /\ rate * (meter.waited + 1) = rate * meter.waited + rate
        /\ rate * (timer.elapsed + 1) = rate * timer.elapsed + rate
    BY <1>1
  <2>3. Credit' = Credit + rate
    BY <1>1, <1>2, <2>1, <2>2 DEF Credit
  <2>4. Size(p) <= Credit + rate * sleep - rate * timer.elapsed /\ rate * sleep <= Size(p)
    BY <1>1, <1>3, <2>1 DEF Metered
  <2>5. Size(p') <= Credit' + rate' * sleep' - rate' * timer'.elapsed /\ rate' * sleep' <= Size(p')
    BY <1>1, <1>2, <2>1, <2>2, <2>3, <2>4
  <2> QED
    BY <2>1, <2>5 DEF Metered
<1>7. CASE PieceDue
  <2>1. /\ bpc = "tick" /\ timer.elapsed >= Interval /\ UNCHANGED <<rate, p, sleep>>
    BY <1>7 DEF PieceDue, MeterInv
  <2>2. rate * Interval <= rate * timer.elapsed
    BY <1>1, <2>1, Products
  <2>3. ASSUME meter.steady
        PROVE  Size(p) <= Credit + rate * sleep - rate * timer.elapsed /\ rate * sleep <= Size(p)
    BY <1>3, <2>1, <2>3 DEF Metered
  <2>4. CASE InBounds(p, 0, rate * Interval)
    <3>1. bpc' = "piece" /\ meter' = [meter EXCEPT !.sent = @ + rate * Interval]
      BY <1>7, <2>4 DEF PieceDue
    <3>2. /\ meter'.waited = meter.waited /\ meter'.sent = meter.sent + rate * Interval
          /\ meter'.packets = meter.packets /\ meter.steady
      BY <1>1, <3>1
    <3>3. Credit' = Credit - rate * Interval
      BY <1>1, <1>2, <2>1, <3>2 DEF Credit
    <3>4. Size(p') <= Credit' + rate' * sleep' /\ rate' * sleep' <= Size(p')
      BY <1>1, <1>2, <2>1, <2>2, <2>3, <3>2, <3>3
    <3> QED
      BY <3>1, <3>4 DEF Metered
  <2>5. CASE ~InBounds(p, 0, rate * Interval)
    <3>1. bpc' = "panic" /\ meter' = meter
      BY <1>7, <2>5 DEF PieceDue
    <3>2. Credit' = Credit /\ rate * timer.elapsed >= 0
      BY <1>1, <2>1, <3>1, Products DEF Credit
    <3>3. 0 <= Credit'
      BY <1>1, <1>2, <2>3, <3>1, <3>2
    <3> QED
      BY <3>1, <3>3 DEF Metered
  <2> QED
    BY <2>4, <2>5
<1>8. CASE Reslice
  <2> DEFINE k == rate * Interval
  <2>1. /\ bpc = "reslice" /\ UNCHANGED <<rate, timer, meter>>
    BY <1>8 DEF Reslice
  <2>2. /\ Credit' = Credit
        /\ Size(p) <= Credit + rate * sleep /\ rate * sleep <= Size(p)
    BY <1>1, <1>3, <2>1 DEF Credit, Metered
  <2>3. CASE 0 <= k /\ k <= Size(p)
    <3>1. p' = Cut(p, k, Size(p)) /\ sleep' = sleep - Interval /\ bpc' = "loop"
      BY <1>8, <2>3 DEF Reslice
    <3>2. Size(p') = Size(p) - k
      <4>1. InBounds(p, k, Size(p))
        BY <1>1, <1>2, <2>3, SizeWithin
      <4> QED
        BY <1>1, <1>2, <3>1, <4>1, CutWithin
    <3>3. rate' * sleep' = rate * sleep - k
      BY <1>1, <2>1, <3>1, Products
    <3>4. Size(p') <= Credit' + rate' * sleep' /\ rate' * sleep' <= Size(p')
      BY <1>1, <1>2, <2>2, <3>2, <3>3
    <3> QED
      BY <3>1, <3>4 DEF Metered
  <2>4. CASE ~(0 <= k /\ k <= Size(p))
    <3>1. bpc' = "panic"
      BY <1>8, <2>4 DEF Reslice
    <3>2. 0 <= Credit'
      BY <1>1, <1>2, <2>2
    <3> QED
      BY <3>1, <3>2 DEF Metered
  <2> QED
    BY <2>3, <2>4
<1>9. CASE LastDue
  <2>1. /\ bpc = "last" /\ bpc' = "final" /\ timer.elapsed >= sleep
        /\ sleep' = sleep - timer.elapsed /\ rate' = rate
        /\ meter' = [meter EXCEPT !.sent = @ + Size(p)]
    BY <1>9 DEF LastDue, MeterInv
  <2>2. /\ meter'.waited = meter.waited /\ meter'.sent = meter.sent + Size(p)
        /\ meter'.packets = meter.packets /\ meter.steady
    BY <1>1, <2>1
  <2>3. Credit' = Credit - Size(p)
    BY <1>1, <1>2, <2>1, <2>2 DEF Credit
  <2>4. rate' * sleep' = rate * sleep - rate * timer.elapsed
    BY <1>1, <2>1, Products
  <2>5. Size(p) <= Credit + rate * sleep - rate * timer.elapsed
    BY <1>3, <2>1, <2>2 DEF Metered
  <2>6. sleep' <= 0 /\ 0 <= Credit' + rate' * sleep'
    BY <1>1, <1>2, <2>1, <2>3, <2>4, <2>5
  <2> QED
    BY <2>1, <2>6 DEF Metered
<1>10. CASE BandwidthInterrupted
  BY <1>10 DEF BandwidthInterrupted, Metered
<1>11. CASE BandwidthRuns
  <2>1. /\ bpc = "returned" /\ bpc' = "receive" /\ UNCHANGED <<rate, sleep, meter>>
    BY <1>11 DEF BandwidthRuns
  <2>2. sleep = 0 /\ meter.sent = 0 /\ meter.waited = 0 /\ meter.packets = 0
    BY <2>1 DEF MeterInv
  <2>3. Credit' = 0 /\ rate' * sleep' = 0
    BY <1>1, <2>1, <2>2 DEF Credit
  <2> QED
    BY <2>1, <2>2, <2>3 DEF Metered
<1>12. CASE FlushTimesOut
  BY <1>12 DEF FlushTimesOut, Metered
<1>13. CASE BandwidthSent
  <2>1. /\ bpc \in {"piece", "final", "flush"} /\ UNCHANGED <<rate, sleep, timer, meter>>
        /\ bpc' = CASE bpc = "piece" -> "reslice"
                    [] bpc = "final" -> "receive"
                    [] bpc = "flush" -> "returned"
        /\ p' = IF bpc = "piece" THEN p ELSE Made(0, 0)
    BY <1>13 DEF BandwidthSent, BandwidthSending
  <2>2. Credit' = Credit /\ rate' * sleep' = rate * sleep /\ Metered
    BY <1>3, <2>1 DEF Credit
  <2> QED
    BY <2>1, <2>2 DEF Metered
<1>14. CASE BandwidthCloses
  <2>1. bpc = "receive" /\ bpc' = "closed" /\ UNCHANGED <<rate, sleep, meter>>
    BY <1>14 DEF BandwidthCloses
  <2> QED
    BY <1>3, <2>1 DEF Metered, Credit
<1>15. CASE UNCHANGED bandwidthVars
  BY <1>3, <1>15 DEF bandwidthVars, Metered, Credit
<1> QED
  BY <1>4, <1>5, <1>6, <1>7, <1>8, <1>9, <1>10, <1>11, <1>12, <1>13, <1>14, <1>15
     DEF BandwidthMoves

\* Every step keeps the balance; one that changes the rate within a run ends
\* the claim, and a run starts with nothing sent.
LEMMA MeterStep ==
    ASSUME PathInv, MeterInv, [Next]_vars
    PROVE  MeterInv'
<1>1. /\ rate \in Int
      /\ meter \in [sent : Int, waited : Nat, packets : Nat, steady : BOOLEAN]
  BY BandwidthAssumption DEF PathInv, BandwidthTypes
<1>2. CASE BandwidthMoves
  <2>1. rate' = rate
    BY <1>2 DEF BandwidthMoves, BandwidthReceive, LoopTest, PieceDue, Reslice, LastDue, Tick,
                BandwidthInterrupted, FlushTimesOut, BandwidthSent, BandwidthRuns,
                BandwidthCloses, bandwidthVars
  <2>2. meter'.steady /\ rate' > 0 => Metered'
    BY <1>2, <2>1, MeteredStep
  <2>3. /\ bpc' = "tick" => timer'.due = Interval
        /\ bpc' = "last" => timer'.due = sleep'
    <3>1. CASE LoopTest
      BY <3>1 DEF LoopTest, After
    <3>2. CASE Tick
      BY <3>2 DEF Tick, MeterInv, PathInv, BandwidthTypes
    <3>3. CASE UNCHANGED bandwidthVars
      BY <3>3 DEF bandwidthVars, MeterInv
    <3>4. CASE ~LoopTest /\ ~Tick /\ ~UNCHANGED bandwidthVars
      <4>1. bpc' \notin {"tick", "last"}
        BY <1>2, <3>4 DEF BandwidthMoves, BandwidthReceive, PieceDue, Reslice, LastDue,
                BandwidthInterrupted, FlushTimesOut, BandwidthSent, BandwidthSending,
                BandwidthRuns, BandwidthCloses
      <4> QED
        BY <4>1
    <3> QED
      BY <3>1, <3>2, <3>3, <3>4
  <2>4. bpc' \in {"flush", "returned"} =>
          sleep' = 0 /\ meter'.sent = 0 /\ meter'.waited = 0 /\ meter'.packets = 0
    <3>1. CASE BandwidthInterrupted
      BY <3>1 DEF BandwidthInterrupted, NewRun
    <3>2. CASE FlushTimesOut \/ BandwidthSent \/ UNCHANGED bandwidthVars
      BY <3>2 DEF FlushTimesOut, BandwidthSent, BandwidthSending, bandwidthVars, MeterInv
    <3>3. CASE ~BandwidthInterrupted /\ ~FlushTimesOut /\ ~BandwidthSent /\ ~UNCHANGED bandwidthVars
      <4>1. bpc' \notin {"flush", "returned"}
        BY <1>2, <3>3 DEF BandwidthMoves, BandwidthReceive, LoopTest, PieceDue, Reslice,
                LastDue, Tick, BandwidthRuns, BandwidthCloses
      <4> QED
        BY <4>1
    <3> QED
      BY <3>1, <3>2, <3>3
  <2> QED
    BY <2>2, <2>3, <2>4 DEF MeterInv
<1>3. CASE RateWritten
  <2>1. PICK r \in Rates : BandwidthDecodes(r)
    BY <1>3 DEF RateWritten
  <2> DEFINE b == meter.steady /\ (r = rate \/ bpc \in {"flush", "returned"})
  <2>2. /\ rate' = r /\ UNCHANGED <<bpc, p, sleep, timer>>
        /\ meter' = [meter EXCEPT !.steady = b]
    BY <2>1 DEF BandwidthDecodes
  <2>3. /\ meter'.sent = meter.sent /\ meter'.waited = meter.waited
        /\ meter'.packets = meter.packets /\ meter'.steady = b
    BY <1>1, <2>2
  <2>4. ASSUME meter'.steady, rate' > 0
        PROVE  Metered'
    <3>1. CASE bpc \in {"flush", "returned"}
      BY <2>2, <3>1 DEF Metered
    <3>2. CASE bpc \notin {"flush", "returned"}
      <4>1. rate' = rate /\ meter.steady
        BY <2>2, <2>3, <2>4, <3>2
      <4>2. Metered /\ Credit' = Credit
        BY <2>3, <2>4, <4>1 DEF MeterInv, Credit
      <4> QED
        BY <2>2, <4>1, <4>2 DEF Metered
    <3> QED
      BY <3>1, <3>2
  <2> QED
    BY <2>2, <2>3, <2>4 DEF MeterInv
<1> QED
  BY <1>2, <1>3, StepOfBandwidth

\* In every run of BandwidthToxic.Pipe whose rate does not change: the bytes sent
\* are at most the rate times the time waited, and a rounding of less than a
\* millisecond's bytes for each packet, however late the timers fire: the credit
\* for lateness is never spent twice.
THEOREM RateAlwaysRespected == Spec => []RateRespected
<1>1. Init => MeterInv
  <2> SUFFICES ASSUME Init
               PROVE  MeterInv
    OBVIOUS
  <2>1. /\ bpc = "receive" /\ sleep = 0 /\ rate \in Int
        /\ meter.sent = 0 /\ meter.waited = 0 /\ meter.packets = 0
    BY BandwidthAssumption DEF Init, BandwidthInit, NewRun
  <2>2. Credit = 0 /\ rate * sleep = 0
    BY <2>1 DEF Credit
  <2> QED
    BY <2>1, <2>2 DEF MeterInv, Metered
<1>2. PathInv /\ MeterInv /\ [Next]_vars => MeterInv'
  BY MeterStep
<1>3. PathInv /\ MeterInv => RateRespected
  <2> SUFFICES ASSUME PathInv, MeterInv, meter.steady, rate > 0
               PROVE  meter.sent <= rate * meter.waited + (rate - 1) * meter.packets
    BY DEF RateRespected
  <2>1. /\ rate \in Nat \ {0} /\ Size(p) \in Nat /\ sleep \in Int /\ bpc \in BandwidthPcs
        /\ timer.elapsed \in Nat
        /\ meter.sent \in Int /\ meter.waited \in Nat /\ meter.packets \in Nat
    BY BandwidthAssumption, SizeWithin DEF PathInv, TileInv, BandwidthTypes
  <2>2. /\ rate * meter.waited \in Int /\ (rate - 1) * meter.packets \in Int
        /\ rate * sleep \in Int /\ rate * timer.elapsed \in Int /\ Credit \in Int
        /\ rate * timer.elapsed >= 0
        /\ sleep <= 0 => rate * sleep <= 0
    BY <2>1, Products DEF Credit
  <2>3. Metered
    BY DEF MeterInv
  <2>4. CASE bpc \in {"flush", "returned"}
    <3>1. meter.sent = 0 /\ meter.waited = 0 /\ meter.packets = 0
      BY <2>4 DEF MeterInv
    <3> QED
      BY <2>1, <3>1
  <2>5. CASE bpc \notin {"flush", "returned"}
    <3>1. 0 <= Credit
      <4>1. CASE bpc \in {"loop", "piece", "reslice"}
        BY <2>1, <2>2, <2>3, <4>1 DEF Metered
      <4>2. CASE bpc \in {"tick", "last"}
        BY <2>1, <2>2, <2>3, <4>2 DEF Metered
      <4>3. CASE bpc \in {"receive", "final", "closed"}
        BY <2>1, <2>2, <2>3, <4>3 DEF Metered
      <4>4. CASE bpc = "panic"
        BY <2>3, <4>4 DEF Metered
      <4> QED
        BY <2>1, <2>5, <4>1, <4>2, <4>3, <4>4 DEF BandwidthPcs
    <3> QED
      BY <2>1, <2>2, <3>1 DEF Credit
  <2> QED
    BY <2>4, <2>5
<1> QED
  BY <1>1, <1>2, <1>3, SlicesInRange, PTL DEF Spec

-----------------------------------------------------------------------------
(* The bytes on the way *)

\* The numbers from x + 1 to y, in order.
Span(x, y) == [k \in 1..(y - x) |-> x + k]

\* The bytes of a slice, and of a part of it.
LEMMA BytesSpan ==
    ASSUME NEW s \in Slices
    PROVE  /\ Bytes(s) = Span(s.lo, s.hi)
           /\ \A a, b \in Int : Bytes(Cut(s, a, b)) = Span(s.lo + a, s.lo + b)
<1>1. Bytes(s) = Span(s.lo, s.hi)
  BY DEF Bytes, Span, Size
<1>2. ASSUME NEW a \in Int, NEW b \in Int
      PROVE  Bytes(Cut(s, a, b)) = Span(s.lo + a, s.lo + b)
  <2>1. Cut(s, a, b).lo = s.lo + a /\ Cut(s, a, b).hi = s.lo + b
    BY DEF Cut, Slices
  <2> QED
    BY <2>1, Zenon DEF Bytes, Span, Size
<1> QED
  BY <1>1, <1>2

\* Spans are sequences of numbers.
LEMMA SpanSeq ==
    ASSUME NEW x \in Nat, NEW y \in Nat, x <= y
    PROVE  /\ Span(x, y) \in Seq(Nat) /\ Len(Span(x, y)) = y - x
           /\ \A i \in 1..(y - x) : Span(x, y)[i] = x + i
           /\ Span(x, x) = <<>> /\ (Span(x, y) = <<>> => x = y)
<1>1. y - x \in Nat /\ x - x = 0
  OBVIOUS
<1>2. Span(x, y) \in [1..(y - x) -> Nat]
  BY DEF Span
<1>3. Span(x, y) \in Seq(Nat) /\ Len(Span(x, y)) = y - x
  BY <1>1, <1>2
<1>4. \A i \in 1..(y - x) : Span(x, y)[i] = x + i
  BY DEF Span
<1>5. Span(x, x) = <<>>
  <2>1. Span(x, x) \in [1..0 -> Nat]
    BY <1>1 DEF Span
  <2>2. Span(x, x) \in Seq(Nat) /\ Len(Span(x, x)) = 0
    BY <2>1
  <2> QED
    BY <2>2, EmptySeq
<1>6. Span(x, y) = <<>> => x = y
  BY <1>3, EmptySeq
<1> QED
  BY <1>3, <1>4, <1>5, <1>6

\* Two spans that meet.
LEMMA SpanJoin ==
    ASSUME NEW x \in Nat, NEW y \in Nat, NEW z \in Nat, x <= y, y <= z
    PROVE  Span(x, y) \o Span(y, z) = Span(x, z)
<1> DEFINE s == Span(x, y)
           t == Span(y, z)
           u == Span(x, z)
<1>1. s \in Seq(Nat) /\ Len(s) = y - x /\ \A i \in 1..(y - x) : s[i] = x + i
  BY SpanSeq
<1>2. t \in Seq(Nat) /\ Len(t) = z - y /\ \A i \in 1..(z - y) : t[i] = y + i
  BY SpanSeq
<1>3. u \in Seq(Nat) /\ Len(u) = z - x /\ \A i \in 1..(z - x) : u[i] = x + i
  BY SpanSeq
<1> HIDE DEF s, t, u
<1> DEFINE v == s \o t
<1>4. /\ v \in Seq(Nat) /\ Len(v) = Len(s) + Len(t)
      /\ \A i \in 1..(Len(s) + Len(t)) : v[i] = IF i <= Len(s) THEN s[i] ELSE t[i - Len(s)]
  BY <1>1, <1>2, ConcatProperties
<1> HIDE DEF v
<1>5. Len(v) = z - x
  BY <1>1, <1>2, <1>4
<1>6. \A i \in 1..(z - x) : v[i] = u[i]
  <2> TAKE i \in 1..(z - x)
  <2>1. i \in 1..(Len(s) + Len(t))
    BY <1>1, <1>2
  <2>2. CASE i <= y - x
    BY <1>1, <1>3, <1>4, <2>1, <2>2
  <2>3. CASE ~(i <= y - x)
    <3>1. i - (y - x) \in 1..(z - y) /\ y + (i - (y - x)) = x + i
      BY <2>3
    <3>2. v[i] = t[i - (y - x)]
      BY <1>1, <1>4, <2>1, <2>3
    <3> QED
      BY <1>2, <1>3, <3>1, <3>2
  <2> QED
    BY <2>2, <2>3
<1>7. v = u
  BY <1>3, <1>4, <1>5, <1>6, SeqEqual
<1> QED
  BY <1>7 DEF v, s, t, u

\* A span lists its numbers.
LEMMA SpanLists ==
    ASSUME NEW x \in Nat, NEW y \in Nat, x <= y
    PROVE  Lists(Span(x, y), (x + 1)..y)
<1> DEFINE s == Span(x, y)
<1>1. Len(s) = y - x /\ \A i \in 1..(y - x) : s[i] = x + i
  BY SpanSeq
<1> HIDE DEF s
<1>2. ASSUME NEW k \in (x + 1)..y
      PROVE  k \in {s[i] : i \in 1..Len(s)}
  <2>1. k - x \in 1..(y - x) /\ x + (k - x) = k
    OBVIOUS
  <2>2. s[k - x] = k
    BY <1>1, <2>1
  <2> QED
    BY <1>1, <2>1, <2>2
<1>3. \A i \in 1..Len(s) : s[i] \in (x + 1)..y
  BY <1>1
<1>4. \A i, j \in 1..Len(s) : i < j => s[i] < s[j]
  BY <1>1
<1>5. Lists(s, (x + 1)..y)
  BY <1>2, <1>3, <1>4 DEF Lists
<1> QED
  BY <1>5 DEF s

\* Concatenation of sequences of numbers.
LEMMA ConcatSeq ==
    ASSUME NEW s \in Seq(Nat), NEW t \in Seq(Nat)
    PROVE  s \o t \in Seq(Nat)
OBVIOUS

\* It is associative.
LEMMA ConcatGroups ==
    ASSUME NEW s \in Seq(Nat), NEW t \in Seq(Nat), NEW u \in Seq(Nat)
    PROVE  (s \o t) \o u = s \o (t \o u)
BY ConcatAssociative, SMTT(60)

\* The elements of a sequence.
Values(s) == {s[i] : i \in 1..Len(s)}

\* What a concatenation consists of.
LEMMA ConcatParts ==
    ASSUME NEW s \in Seq(Nat), NEW t \in Seq(Nat)
    PROVE  /\ s \o t \in Seq(Nat) /\ Len(s \o t) = Len(s) + Len(t)
           /\ Len(s) \in Nat /\ Len(t) \in Nat
           /\ \A i \in 1..Len(s) : (s \o t)[i] = s[i]
           /\ \A i \in 1..Len(t) : (s \o t)[Len(s) + i] = t[i]
           /\ \A i \in 1..Len(s \o t) : \/ i \in 1..Len(s)
                                        \/ i - Len(s) \in 1..Len(t) /\ Len(s) + (i - Len(s)) = i
           /\ Values(s \o t) = Values(s) \cup Values(t)
<1> DEFINE u == s \o t
           m == Len(s)
           n == Len(t)
<1>1. m \in Nat /\ n \in Nat
  OBVIOUS
<1>2. /\ u \in Seq(Nat) /\ Len(u) = m + n
      /\ \A i \in 1..(m + n) : u[i] = IF i <= m THEN s[i] ELSE t[i - m]
  BY ConcatProperties
<1> HIDE DEF u, m, n
<1>3. \A i \in 1..m : i \in 1..(m + n) /\ u[i] = s[i]
  BY <1>1, <1>2
<1>4. ASSUME NEW i \in 1..n
      PROVE  m + i \in 1..(m + n) /\ u[m + i] = t[i]
  <2>1. m + i \in 1..(m + n) /\ ~(m + i <= m) /\ (m + i) - m = i
    BY <1>1
  <2> QED
    BY <1>2, <2>1
<1>5. \A i \in 1..(m + n) : i \in 1..m \/ (i - m \in 1..n /\ m + (i - m) = i)
  BY <1>1
<1>6. Values(u) = Values(s) \cup Values(t)
  <2>1. ASSUME NEW i \in 1..(m + n)
        PROVE  u[i] \in Values(s) \cup Values(t)
    <3>1. CASE i \in 1..m
      BY <1>3, <3>1 DEF Values, m
    <3>2. CASE i - m \in 1..n /\ m + (i - m) = i
      <4>1. u[i] = t[i - m]
        BY <1>4, <3>2
      <4> QED
        BY <3>2, <4>1 DEF Values, n
    <3> QED
      BY <1>5, <3>1, <3>2
  <2>2. \A i \in 1..m : s[i] \in Values(u)
    BY <1>2, <1>3 DEF Values
  <2>3. \A i \in 1..n : t[i] \in Values(u)
    BY <1>2, <1>4 DEF Values
  <2> QED
    BY <1>2, <2>1, <2>2, <2>3 DEF Values, m, n
<1> QED
  BY <1>1, <1>2, <1>3, <1>4, <1>5, <1>6 DEF u, m, n

\* A list in two parts.
LEMMA ListsSplit ==
    ASSUME NEW s \in Seq(Nat), NEW t \in Seq(Nat), NEW U, Lists(s \o t, U)
    PROVE  /\ Lists(s, Values(s)) /\ Lists(t, Values(t)) /\ U = Values(s) \cup Values(t)
           /\ \A a \in Values(s), b \in Values(t) : a < b
<1> DEFINE u == s \o t
           m == Len(s)
           n == Len(t)
<1>1. /\ m \in Nat /\ n \in Nat /\ Len(u) = m + n
      /\ \A i \in 1..m : u[i] = s[i]
      /\ \A i \in 1..n : u[m + i] = t[i]
      /\ Values(u) = Values(s) \cup Values(t)
  BY ConcatParts
<1>2. U = Values(u) /\ \A i, j \in 1..Len(u) : i < j => u[i] < u[j]
  BY DEF Lists, Values
<1> HIDE DEF u
<1>3. ASSUME NEW i \in 1..m, NEW j \in 1..m, i < j
      PROVE  s[i] < s[j]
  <2>1. i \in 1..Len(u) /\ j \in 1..Len(u)
    BY <1>1
  <2> QED
    BY <1>1, <1>2, <1>3, <2>1
<1>4. ASSUME NEW i \in 1..n, NEW j \in 1..n, i < j
      PROVE  t[i] < t[j]
  <2>1. m + i \in 1..Len(u) /\ m + j \in 1..Len(u) /\ m + i < m + j
    BY <1>1, <1>4
  <2> QED
    BY <1>1, <1>2, <2>1
<1>5. ASSUME NEW i \in 1..m, NEW j \in 1..n
      PROVE  s[i] < t[j]
  <2>1. i \in 1..Len(u) /\ m + j \in 1..Len(u) /\ i < m + j
    BY <1>1
  <2> QED
    BY <1>1, <1>2, <2>1
<1> QED
  BY <1>1, <1>2, <1>3, <1>4, <1>5 DEF Lists, Values

\* Two lists in order.
LEMMA ListsJoin ==
    ASSUME NEW s \in Seq(Nat), NEW t \in Seq(Nat), NEW S, NEW T, Lists(s, S), Lists(t, T),
           \A a \in S, b \in T : a < b
    PROVE  Lists(s \o t, S \cup T)
<1> DEFINE u == s \o t
           m == Len(s)
           n == Len(t)
<1>1. /\ m \in Nat /\ n \in Nat /\ Len(u) = m + n
      /\ \A i \in 1..m : u[i] = s[i]
      /\ \A i \in 1..n : u[m + i] = t[i]
      /\ \A i \in 1..(m + n) : i \in 1..m \/ (i - m \in 1..n /\ m + (i - m) = i)
      /\ Values(u) = Values(s) \cup Values(t)
  BY ConcatParts
<1>2. S = Values(s) /\ T = Values(t)
  BY DEF Lists, Values
<1> HIDE DEF u
<1>3. ASSUME NEW i \in 1..(m + n), NEW j \in 1..(m + n), i < j
      PROVE  u[i] < u[j]
  <2>1. CASE i \in 1..m /\ j \in 1..m
    BY <1>1, <1>3, <2>1 DEF Lists
  <2>2. CASE i \in 1..m /\ j - m \in 1..n /\ m + (j - m) = j
    <3>1. u[i] = s[i] /\ u[j] = t[j - m]
      BY <1>1, <2>2
    <3> QED
      BY <1>2, <2>2, <3>1 DEF Values
  <2>3. CASE /\ i - m \in 1..n /\ m + (i - m) = i
             /\ j - m \in 1..n /\ m + (j - m) = j
    <3>1. u[i] = t[i - m] /\ u[j] = t[j - m]
      BY <1>1, <2>3
    <3>2. i - m < j - m
      BY <1>1, <1>3
    <3> QED
      BY <2>3, <3>1, <3>2 DEF Lists
  <2>4. ~(i - m \in 1..n /\ j \in 1..m)
    BY <1>1, <1>3
  <2> QED
    BY <1>1, <2>1, <2>2, <2>3, <2>4
<1>4. Lists(u, S \cup T)
  BY <1>1, <1>2, <1>3 DEF Lists, Values
<1> QED
  BY <1>4 DEF u

\* What is between two parts is taken out.
LEMMA ListsWithout ==
    ASSUME NEW a \in Seq(Nat), NEW b \in Seq(Nat), NEW c \in Seq(Nat), NEW U,
           Lists((a \o b) \o c, U)
    PROVE  Lists(a \o c, U \ Values(b)) /\ \A x \in Values(a), y \in Values(b) : x < y
<1> DEFINE ab == a \o b
<1>1. ab \in Seq(Nat) /\ Values(ab) = Values(a) \cup Values(b)
  BY ConcatParts
<1>2. Lists(ab \o c, U)
  OBVIOUS
<1> HIDE DEF ab
<1>3. /\ Lists(ab, Values(ab)) /\ Lists(c, Values(c)) /\ U = Values(ab) \cup Values(c)
      /\ \A x \in Values(ab), y \in Values(c) : x < y
  BY <1>1, <1>2, ListsSplit
<1>4. Lists(a, Values(a)) /\ \A x \in Values(a), y \in Values(b) : x < y
  BY <1>3, ListsSplit DEF ab
<1>5. Lists(a \o c, Values(a) \cup Values(c))
  BY <1>1, <1>3, <1>4, ListsJoin
<1>6. \A s \in Seq(Nat) : Values(s) \subseteq Nat
  BY DEF Values
<1>7. Values(a) \cup Values(c) = U \ Values(b)
  <2>1. \A x \in Nat : ~(x < x)
    OBVIOUS
  <2>2. \A x \in Values(b) : x \notin Values(a) /\ x \notin Values(c)
    BY <1>1, <1>3, <1>4, <1>6, <2>1
  <2> QED
    BY <1>1, <1>3, <2>2
<1> QED
  BY <1>4, <1>5, <1>7

-----------------------------------------------------------------------------
(* What the slicer holds *)

\* The packet has no spare capacity, and the piece that is being sent or was sent
\* last lies in it.
SlicerCuts ==
    /\ pkt.cap = pkt.hi
    /\ spc \in {"send", "wait", "rest"} =>
         0 <= chunks[nth].lo /\ chunks[nth].lo <= chunks[nth].hi /\ chunks[nth].hi <= Size(pkt)

\* The pieces of a packet that has been cut up.
LEMMA PiecesTile ==
    ASSUME TileInv, spc \in {"test", "send", "wait", "rest"}, todo = <<>>
    PROVE  /\ Len(chunks) \in Nat \ {0} /\ chunks[1].lo = 0 /\ chunks[Len(chunks)].hi = Size(pkt)
           /\ \A k \in 1..(Len(chunks) - 1) : chunks[k].hi = chunks[k + 1].lo
<1> DEFINE n == Len(chunks)
<1>1. n \in Nat /\ Len(todo) = 0 /\ n + Len(todo) = n
  BY DEF TileInv, SlicerInv, SlicerTypes
<1>2. n > 0 /\ Parts[1].lo = 0 /\ Parts[n].hi = Size(pkt) /\ \A k \in 1..(n - 1) : Parts[k].hi = Parts[k + 1].lo
  BY <1>1 DEF TileInv, SlicerInv, ChunksMeet
<1>3. \A k \in 1..n : Parts[k] = chunks[k]
  BY <1>1 DEF Parts
<1>4. 1 \in 1..n /\ n \in 1..n /\ \A k \in 1..(n - 1) : k \in 1..n /\ k + 1 \in 1..n
  BY <1>1, <1>2
<1> QED
  BY <1>1, <1>2, <1>3, <1>4

\* What is known of the slicer's packet.
LEMMA PacketTypes ==
    ASSUME PathInv, SlicerCuts
    PROVE  /\ pkt \in Slices /\ pkt.lo \in Nat /\ pkt.hi \in Nat /\ Size(pkt) \in Nat /\ total \in Nat
           /\ pkt.lo + Size(pkt) = pkt.hi /\ pkt.hi <= total /\ pkt.cap - pkt.lo = Size(pkt)
           /\ spc \in {"send", "wait", "rest"} => chunks[nth].lo \in Nat /\ chunks[nth].hi \in Nat
<1>1. pkt \in Slices /\ total \in Nat /\ Within(pkt, total) /\ chunks \in Seq(Part)
  BY DEF PathInv, TileInv, SlicerInv, SlicerTypes, SlicerSlices
<1>2. pkt.lo \in Int /\ pkt.hi \in Int /\ 0 <= pkt.lo /\ pkt.lo <= pkt.hi /\ pkt.hi <= pkt.cap /\ pkt.cap <= total
  BY <1>1 DEF Within, Slices
<1>3. pkt.cap = pkt.hi
  BY DEF SlicerCuts
<1>4. ASSUME spc \in {"send", "wait", "rest"}
      PROVE  chunks[nth].lo \in Nat /\ chunks[nth].hi \in Nat
  <2>1. nth \in 1..Len(chunks)
    BY <1>4 DEF PathInv, TileInv, SlicerInv, SlicerShape
  <2>2. chunks[nth] \in Part
    BY <1>1, <2>1
  <2> QED
    BY <1>4, <2>2 DEF Part, SlicerCuts
<1> QED
  BY <1>1, <1>2, <1>3, <1>4 DEF Size

\* Every step keeps the pieces in the packet.
LEMMA SlicerCutsStep ==
    ASSUME PathInv, SlicerCuts, [Next]_vars
    PROVE  SlicerCuts'
<1>1. TileInv /\ pkt \in Slices /\ pkt.cap - pkt.lo = Size(pkt)
  BY PacketTypes DEF PathInv
<1>2. CASE \E f, v : SlicerDecodes(f, v)
  BY <1>2 DEF SlicerDecodes, SlicerCuts
<1>3. CASE SlicerMoves
  <2>1. CASE \E n \in Lengths : SlicerReceive(Made(total, n))
    BY <2>1 DEF SlicerReceive, Made, SlicerCuts
  <2>2. CASE ChunkReturns \/ (\E r \in Variation : ChunkRecurses(r)) \/ SlicerCloses \/ ChunkSplits \/ SlicerRuns
    BY <2>2 DEF ChunkReturns, ChunkRecurses, SlicerCloses, ChunkSplits, SlicerRuns, SlicerCuts
  <2>3. CASE FirstPiece
    <3>1. nth = 1 /\ UNCHANGED <<pkt, chunks, nth>> /\ spc' = Sends(1)
      BY <1>1, <2>3 DEF FirstPiece, TileInv, SlicerInv, SlicerShape
    <3> QED
      BY <1>1, <3>1 DEF Sends, InBounds, SlicerCuts
  <2>4. CASE NextPiece
    <3>1. CASE nth = Len(chunks)
      BY <2>4, <3>1 DEF NextPiece, PacketDone, Made, SlicerCuts
    <3>2. CASE nth # Len(chunks)
      BY <1>1, <2>4, <3>2 DEF NextPiece, Sends, InBounds, SlicerCuts
    <3> QED
      BY <3>1, <3>2
  <2>5. CASE SlicerSent
    BY <2>5 DEF SlicerSent, SlicerSending, PacketDone, Made, SlicerCuts
  <2>6. CASE SlicerInterrupted \/ UNCHANGED slicerVars
    BY <2>6 DEF SlicerInterrupted, slicerVars, SlicerCuts
  <2> QED
    BY <1>3, <2>1, <2>2, <2>3, <2>4, <2>5, <2>6 DEF SlicerMoves
<1> QED
  BY <1>1, <1>2, <1>3, StepOfSlicer

\* The slicer cuts up what it holds and passes nothing on.
LEMMA SlicerKeeps ==
    ASSUME PathInv, SlicerCuts, spc' \notin {"panic", "overflow"},
           \/ ChunkReturns \/ (\E r \in Variation : ChunkRecurses(r)) \/ SlicerCloses \/ ChunkSplits
           \/ FirstPiece \/ NextPiece \/ SlicerInterrupted \/ SlicerRuns
           \/ UNCHANGED slicerVars \/ \E f, v : SlicerDecodes(f, v)
    PROVE  SlicerHolds' = SlicerHolds
<1>1. /\ TileInv /\ pkt \in Slices /\ pkt.lo \in Nat /\ pkt.hi \in Nat /\ Size(pkt) \in Nat
      /\ pkt.lo + Size(pkt) = pkt.hi
  BY PacketTypes DEF PathInv
<1>2. CASE ChunkReturns \/ ChunkSplits \/ \E r \in Variation : ChunkRecurses(r)
  <2>1. spc \in {"test", "split"} /\ spc' \in {"test", "split"} /\ pkt' = pkt
    BY <1>2 DEF ChunkReturns, ChunkSplits, ChunkRecurses
  <2> QED
    BY <2>1 DEF SlicerHolds
<1>3. CASE SlicerCloses \/ SlicerRuns
  BY <1>3 DEF SlicerCloses, SlicerRuns, SlicerHolds
<1>4. CASE UNCHANGED slicerVars \/ \E f, v : SlicerDecodes(f, v)
  <2>1. UNCHANGED <<spc, pkt, chunks, nth>>
    BY <1>4 DEF slicerVars, SlicerDecodes
  <2> QED
    BY <2>1 DEF SlicerHolds
<1>5. CASE FirstPiece
  <2>1. spc = "test" /\ todo = <<>> /\ spc' = "send" /\ nth = 1 /\ UNCHANGED <<pkt, chunks, nth>>
    BY <1>1, <1>5 DEF FirstPiece, Sends, TileInv, SlicerInv, SlicerShape
  <2>2. chunks[nth].lo = 0
    BY <1>1, <2>1, PiecesTile
  <2>3. SlicerHolds = Bytes(pkt) /\ SlicerHolds' = Bytes(Cut(pkt, 0, Size(pkt)))
    BY <2>1, <2>2 DEF SlicerHolds
  <2>4. pkt.lo + 0 = pkt.lo
    BY <1>1
  <2> QED
    BY <1>1, <2>3, <2>4, BytesSpan
<1>6. CASE NextPiece
  <2>1. spc = "wait" /\ todo = <<>> /\ nth \in 1..Len(chunks)
    BY <1>1, <1>6 DEF NextPiece, TileInv, SlicerInv, SlicerShape
  <2>2. SlicerHolds = Bytes(Cut(pkt, chunks[nth].hi, Size(pkt)))
    BY <2>1 DEF SlicerHolds
  <2>3. /\ Len(chunks) \in Nat /\ chunks[Len(chunks)].hi = Size(pkt)
        /\ \A k \in 1..(Len(chunks) - 1) : chunks[k].hi = chunks[k + 1].lo
    BY <1>1, <2>1, PiecesTile
  <2>4. CASE nth = Len(chunks)
    <3>1. SlicerHolds = Span(pkt.hi, pkt.hi)
      BY <1>1, <2>2, <2>3, <2>4, BytesSpan
    <3>2. SlicerHolds' = <<>>
      BY <1>6, <2>4 DEF NextPiece, PacketDone, SlicerHolds
    <3> DEFINE h == pkt.hi
    <3>3. h \in Nat /\ h <= h
      BY <1>1
    <3> HIDE DEF h
    <3>4. Span(h, h) = <<>>
      BY <3>3, SpanSeq
    <3> QED
      BY <3>1, <3>2, <3>4 DEF h
  <2>5. CASE nth # Len(chunks)
    <3>1. chunks[nth].hi = chunks[nth + 1].lo
      BY <2>1, <2>3, <2>5
    <3>2. spc' = "send" /\ nth' = nth + 1 /\ UNCHANGED <<pkt, chunks>>
      BY <1>6, <2>5 DEF NextPiece, Sends
    <3>3. SlicerHolds' = Bytes(Cut(pkt, chunks[nth + 1].lo, Size(pkt)))
      BY <3>2 DEF SlicerHolds
    <3> QED
      BY <2>2, <3>1, <3>3
  <2> QED
    BY <2>4, <2>5
<1>7. CASE SlicerInterrupted
  <2>1. UNCHANGED <<pkt, chunks, nth>>
    BY <1>7 DEF SlicerInterrupted
  <2>2. CASE spc = "receive"
    BY <1>7, <2>2 DEF SlicerInterrupted, SlicerHolds
  <2>3. CASE spc # "receive"
    <3>1. spc = "wait" /\ spc' = "rest"
      BY <1>7, <2>3 DEF SlicerInterrupted
    <3> QED
      BY <2>1, <3>1 DEF SlicerHolds
  <2> QED
    BY <2>2, <2>3
<1> QED
  BY <1>2, <1>3, <1>4, <1>5, <1>6, <1>7

\* The slicer passes on the front of what it holds.
LEMMA SlicerPasses ==
    ASSUME PathInv, SlicerCuts, SlicerSent
    PROVE  SlicerHolds = Bytes(SlicerOutput) \o SlicerHolds'
<1> DEFINE c == chunks[nth]
<1>1. /\ pkt \in Slices /\ pkt.lo \in Nat /\ pkt.hi \in Nat /\ Size(pkt) \in Nat
      /\ pkt.lo + Size(pkt) = pkt.hi /\ spc \in {"send", "rest"}
      /\ c.lo \in Nat /\ c.hi \in Nat /\ c.lo <= c.hi /\ c.hi <= Size(pkt)
  BY PacketTypes DEF SlicerSent, SlicerSending, SlicerCuts
<1> HIDE DEF c
<1>2. /\ pkt.lo + c.lo \in Nat /\ pkt.lo + c.hi \in Nat
      /\ pkt.lo + c.lo <= pkt.lo + c.hi /\ pkt.lo + c.hi <= pkt.hi
  BY <1>1
<1>3. CASE spc = "send"
  <2>1. SlicerHolds = Bytes(Cut(pkt, c.lo, Size(pkt))) /\ SlicerOutput = Cut(pkt, c.lo, c.hi)
    BY <1>3 DEF SlicerHolds, SlicerOutput, c
  <2>2. SlicerHolds' = Bytes(Cut(pkt, c.hi, Size(pkt)))
    BY <1>3 DEF SlicerSent, SlicerHolds, c
  <2>3. /\ SlicerHolds = Span(pkt.lo + c.lo, pkt.hi)
        /\ Bytes(SlicerOutput) = Span(pkt.lo + c.lo, pkt.lo + c.hi)
        /\ SlicerHolds' = Span(pkt.lo + c.hi, pkt.hi)
    BY <1>1, <2>1, <2>2, BytesSpan
  <2> DEFINE x == pkt.lo + c.lo
             y == pkt.lo + c.hi
             z == pkt.hi
  <2>4. x \in Nat /\ y \in Nat /\ z \in Nat /\ x <= y /\ y <= z
    BY <1>1, <1>2
  <2>5. SlicerHolds = Span(x, z) /\ Bytes(SlicerOutput) = Span(x, y) /\ SlicerHolds' = Span(y, z)
    BY <2>3
  <2> HIDE DEF x, y, z
  <2>6. Span(x, y) \o Span(y, z) = Span(x, z)
    BY <2>4, SpanJoin
  <2> QED
    BY <2>5, <2>6, Zenon
<1>4. CASE spc = "rest"
  <2>1. SlicerHolds = Bytes(Cut(pkt, c.hi, Size(pkt))) /\ SlicerOutput = Cut(pkt, c.hi, Size(pkt))
    BY <1>4 DEF SlicerHolds, SlicerOutput, c
  <2>2. SlicerHolds' = <<>>
    BY <1>4 DEF SlicerSent, PacketDone, SlicerHolds
  <2>3. SlicerHolds = Span(pkt.lo + c.hi, pkt.hi)
    BY <1>1, <2>1, BytesSpan
  <2>4. SlicerHolds \in Seq(Nat)
    BY <1>1, <1>2, <2>3, SpanSeq
  <2>5. SlicerHolds \o <<>> = SlicerHolds
    BY <2>4, ConcatEmptySeq
  <2> QED
    BY <2>1, <2>2, <2>5, Zenon
<1> QED
  BY <1>1, <1>3, <1>4

-----------------------------------------------------------------------------
(* What the bandwidth toxic holds *)

\* While the rate is left alone, the piece is the front of the packet and the rest
\* is cut where the piece ends.
PieceInv ==
    "rate" \notin raced /\ bpc \in {"piece", "reslice"} => piece.lo = p.lo /\ Size(piece) = rate * Interval

\* Every step keeps it so.
LEMMA PieceStep ==
    ASSUME PathInv, PieceInv, [Next]_vars
    PROVE  PieceInv'
<1>1. p \in Slices /\ rate * Interval \in Int
  BY BandwidthAssumption DEF PathInv, BandwidthTypes, Within
<1>2. CASE RateWritten
  <2>1. ASSUME "rate" \notin raced'
        PROVE  bpc' \notin {"piece", "reslice"}
    BY <1>2, <2>1 DEF RateWritten, InUse, BandwidthDecodes
  <2> QED
    BY <2>1 DEF PieceInv
<1>3. CASE BandwidthMoves /\ raced \subseteq raced'
  <2>1. CASE PieceDue
    <3>1. CASE InBounds(p, 0, rate * Interval)
      <4> DEFINE k == rate * Interval
      <4>1. piece' = Cut(p, 0, k) /\ p' = p /\ rate' = rate
        BY <2>1, <3>1 DEF PieceDue
      <4>2. Cut(p, 0, k).lo = p.lo + 0 /\ Cut(p, 0, k).hi = p.lo + k /\ k \in Int
        BY <1>1 DEF Cut, Slices
      <4>3. piece'.lo = p'.lo /\ piece'.hi - piece'.lo = k
        BY <1>1, <4>1, <4>2 DEF Slices
      <4> QED
        BY <4>1, <4>3 DEF PieceInv, Size
    <3>2. CASE ~InBounds(p, 0, rate * Interval)
      BY <2>1, <3>2 DEF PieceDue, PieceInv
    <3> QED
      BY <3>1, <3>2
  <2>2. CASE BandwidthSent
    <3>1. CASE bpc = "piece"
      BY <1>3, <2>2, <3>1 DEF BandwidthSent, PieceInv
    <3>2. CASE bpc # "piece"
      BY <2>2, <3>2 DEF BandwidthSent, BandwidthSending, PieceInv
    <3> QED
      BY <3>1, <3>2
  <2>3. CASE UNCHANGED bandwidthVars
    BY <1>3, <2>3 DEF bandwidthVars, PieceInv
  <2>4. CASE ~PieceDue /\ ~BandwidthSent /\ ~UNCHANGED bandwidthVars
    <3>1. bpc' \notin {"piece", "reslice"}
      BY <1>3, <2>4 DEF BandwidthMoves, BandwidthReceive, LoopTest, Reslice, LastDue, Tick,
                        BandwidthInterrupted, FlushTimesOut, BandwidthRuns, BandwidthCloses
    <3> QED
      BY <3>1 DEF PieceInv
  <2> QED
    BY <2>1, <2>2, <2>3, <2>4
<1> QED
  BY <1>2, <1>3, StepOfBandwidth

\* What is known of the bandwidth toxic's packet, and of the piece.
LEMMA ThrottledTypes ==
    ASSUME PathInv, RateInv, PieceInv, "rate" \notin raced
    PROVE  /\ p \in Slices /\ p.lo \in Nat /\ p.hi \in Nat /\ p.lo <= p.hi /\ Size(p) \in Nat
           /\ p.lo + Size(p) = p.hi /\ p.hi <= total /\ total \in Nat
           /\ bpc \in {"piece", "reslice"} =>
                /\ piece \in Slices /\ piece.lo = p.lo /\ piece.hi = p.lo + Size(piece)
                /\ Size(piece) \in Nat /\ Size(piece) <= Size(p) /\ Size(piece) = rate * Interval
<1>1. Within(p, total) /\ Within(piece, total) /\ total \in Nat
  BY DEF PathInv, BandwidthTypes, TileInv
<1>2. p \in Slices /\ p.lo \in Int /\ p.hi \in Int /\ 0 <= p.lo /\ p.lo <= p.hi /\ p.hi <= total
  BY <1>1 DEF Within, Slices
<1>3. piece \in Slices /\ piece.lo \in Int /\ piece.hi \in Int /\ 0 <= piece.lo /\ piece.lo <= piece.hi
  BY <1>1 DEF Within, Slices
<1>4. ASSUME bpc \in {"piece", "reslice"}
      PROVE  piece.lo = p.lo /\ Size(piece) = rate * Interval /\ rate * Interval < Size(p)
  BY <1>4 DEF PieceInv, RateInv
<1> QED
  BY <1>1, <1>2, <1>3, <1>4 DEF Size

\* The bandwidth toxic waits, cuts and passes nothing on.
LEMMA BandwidthKeeps ==
    ASSUME PathInv, RateInv, PieceInv, "rate" \notin raced, bpc' # "panic",
           \/ LoopTest \/ PieceDue \/ Reslice \/ LastDue \/ Tick \/ BandwidthInterrupted
           \/ BandwidthRuns \/ BandwidthCloses \/ UNCHANGED bandwidthVars
           \/ \E r : BandwidthDecodes(r)
    PROVE  BandwidthHolds' = BandwidthHolds
<1>1. CASE Reslice
  <2> DEFINE k == rate * Interval
  <2>1. bpc = "reslice" /\ bpc' = "loop" /\ p' = Cut(p, k, Size(p))
    BY <1>1 DEF Reslice
  <2>2. Size(piece) = k
    BY <2>1, ThrottledTypes
  <2>3. BandwidthHolds = Bytes(Cut(p, Size(piece), Size(p))) /\ BandwidthHolds' = Bytes(p')
    BY <2>1 DEF BandwidthHolds
  <2> HIDE DEF k
  <2> QED
    BY <2>1, <2>2, <2>3
<1>2. CASE LoopTest \/ PieceDue \/ LastDue \/ Tick
  <2>1. /\ bpc \in {"loop", "tick", "last"} /\ bpc' \in {"loop", "tick", "piece", "last", "final"}
        /\ p' = p
    BY <1>2 DEF LoopTest, PieceDue, LastDue, Tick
  <2> QED
    BY <2>1 DEF BandwidthHolds
<1>3. CASE BandwidthInterrupted
  <2>1. \/ bpc = "receive" /\ bpc' = "returned"
        \/ bpc \in {"tick", "last"} /\ bpc' = "flush" /\ p' = p
    BY <1>3 DEF BandwidthInterrupted
  <2> QED
    BY <2>1 DEF BandwidthHolds
<1>4. CASE BandwidthRuns \/ BandwidthCloses
  BY <1>4 DEF BandwidthRuns, BandwidthCloses, BandwidthHolds
<1>5. CASE UNCHANGED bandwidthVars \/ \E r : BandwidthDecodes(r)
  <2>1. UNCHANGED <<bpc, p, piece>>
    BY <1>5 DEF bandwidthVars, BandwidthDecodes
  <2> QED
    BY <2>1 DEF BandwidthHolds
<1> QED
  BY <1>1, <1>2, <1>3, <1>4, <1>5

\* The bandwidth toxic passes on the front of what it holds.
LEMMA BandwidthPasses ==
    ASSUME PathInv, RateInv, PieceInv, "rate" \notin raced, BandwidthSent
    PROVE  BandwidthHolds = Bytes(BandwidthOutput) \o BandwidthHolds'
<1>1. /\ p \in Slices /\ p.lo \in Nat /\ p.hi \in Nat /\ p.lo <= p.hi /\ Size(p) \in Nat
      /\ p.lo + Size(p) = p.hi /\ bpc \in {"piece", "final", "flush"}
  BY ThrottledTypes DEF BandwidthSent, BandwidthSending
<1>2. CASE bpc = "piece"
  <2>1. /\ piece \in Slices /\ piece.lo = p.lo /\ piece.hi = p.lo + Size(piece)
        /\ Size(piece) \in Nat /\ Size(piece) <= Size(p)
    BY <1>2, ThrottledTypes
  <2>2. /\ BandwidthHolds = Bytes(p) /\ BandwidthOutput = piece
        /\ BandwidthHolds' = Bytes(Cut(p, Size(piece), Size(p)))
    BY <1>2 DEF BandwidthSent, BandwidthHolds, BandwidthOutput
  <2> DEFINE x == p.lo
             y == p.lo + Size(piece)
             z == p.hi
  <2>3. x \in Nat /\ y \in Nat /\ z \in Nat /\ x <= y /\ y <= z
    BY <1>1, <2>1
  <2>4. BandwidthHolds = Span(x, z) /\ Bytes(BandwidthOutput) = Span(x, y) /\ BandwidthHolds' = Span(y, z)
    BY <1>1, <2>1, <2>2, BytesSpan
  <2> HIDE DEF x, y, z
  <2>5. Span(x, y) \o Span(y, z) = Span(x, z)
    BY <2>3, SpanJoin
  <2> QED
    BY <2>4, <2>5, Zenon
<1>3. CASE bpc # "piece"
  <2>1. BandwidthHolds = Bytes(p) /\ BandwidthOutput = p
    BY <1>1, <1>3 DEF BandwidthHolds, BandwidthOutput
  <2>2. BandwidthHolds' = <<>>
    <3>1. bpc' \in {"receive", "returned"}
      BY <1>1, <1>3 DEF BandwidthSent
    <3> QED
      BY <3>1 DEF BandwidthHolds
  <2> DEFINE h == Bytes(p)
  <2>3. h \in Seq(Nat)
    BY <1>1, BytesSpan, SpanSeq
  <2> HIDE DEF h
  <2>4. h \o <<>> = h
    BY <2>3, ConcatEmptySeq
  <2>5. BandwidthHolds = h /\ Bytes(BandwidthOutput) = h
    BY <2>1 DEF h
  <2> QED
    BY <2>2, <2>4, <2>5, Zenon
<1> QED
  BY <1>2, <1>3

-----------------------------------------------------------------------------
(* What the reader holds *)

\* io.Copy has written what Read returned before it reads again.
ReadInv == rpc # "write" => out = <<>>

\* The part of the buffer that counts.
Buffered == IF eof THEN <<>> ELSE Bytes(buffer)

\* What is known of the reader.
LEMMA ReadTypes ==
    ASSUME PathInv
    PROVE  /\ buffer \in Slices /\ buffer.lo \in Nat /\ buffer.hi \in Nat /\ buffer.lo <= buffer.hi
           /\ Size(buffer) \in Nat /\ buffer.lo + Size(buffer) = buffer.hi /\ size \in Nat \ {0}
           /\ Bytes(buffer) = Span(buffer.lo, buffer.hi) /\ Bytes(buffer) \in Seq(Nat)
           /\ Copied \in Nat /\ Copied <= Size(buffer) /\ Copied <= size
           /\ out \in Seq(Nat) /\ dest \in Seq(Nat) /\ Buffered \in Seq(Nat)
           /\ (Size(buffer) <= size => Copied = Size(buffer))
           /\ ReaderHolds = out \o Buffered /\ buffer.hi <= total /\ total \in Nat
<1>1. Within(buffer, total) /\ total \in Nat /\ size \in Nat \ {0} /\ out \in Seq(Nat) /\ dest \in Seq(Nat)
  BY ReaderAssumption DEF PathInv, ReaderTypes, TileInv
<1>2. /\ buffer \in Slices /\ buffer.lo \in Int /\ buffer.hi \in Int /\ 0 <= buffer.lo
      /\ buffer.lo <= buffer.hi /\ buffer.hi <= total
  BY <1>1 DEF Within, Slices
<1>3. Size(buffer) \in Nat /\ buffer.lo + Size(buffer) = buffer.hi
  BY <1>2 DEF Size
<1>4. Bytes(buffer) = Span(buffer.lo, buffer.hi) /\ Bytes(buffer) \in Seq(Nat)
  BY <1>1, <1>2, BytesSpan, BytesAreNat
<1>5. Buffered \in Seq(Nat) /\ ReaderHolds = out \o Buffered
  BY <1>4 DEF Buffered, ReaderHolds
<1>6. Copied \in Nat /\ Copied <= Size(buffer) /\ Copied <= size /\ (Size(buffer) <= size => Copied = Size(buffer))
  BY <1>1, <1>3 DEF Copied, Least
<1> QED
  BY <1>1, <1>2, <1>3, <1>4, <1>5, <1>6

\* A slice in two parts.
LEMMA BytesSplit ==
    ASSUME NEW s \in Slices, s.lo \in Nat, s.lo <= s.hi, NEW k \in 0..Size(s)
    PROVE  /\ Bytes(Cut(s, 0, k)) \in Seq(Nat) /\ Bytes(Cut(s, k, Size(s))) \in Seq(Nat)
           /\ Bytes(s) \in Seq(Nat)
           /\ Bytes(Cut(s, 0, k)) \o Bytes(Cut(s, k, Size(s))) = Bytes(s)
<1> DEFINE x == s.lo
           y == s.lo + k
           z == s.hi
<1>1. x \in Nat /\ y \in Nat /\ z \in Nat /\ x <= y /\ y <= z /\ x <= z /\ k \in Int /\ Size(s) \in Int
  BY DEF Size, Slices
<1>2. s.lo + 0 = x /\ s.lo + Size(s) = z
  BY <1>1 DEF Size
<1>3. Bytes(Cut(s, 0, k)) = Span(x, y) /\ Bytes(Cut(s, k, Size(s))) = Span(y, z) /\ Bytes(s) = Span(x, z)
  <2>1. \A a, b \in Int : Bytes(Cut(s, a, b)) = Span(s.lo + a, s.lo + b)
    BY BytesSpan
  <2>2. Bytes(Cut(s, 0, k)) = Span(s.lo + 0, s.lo + k)
    BY <1>1, <2>1
  <2>3. Bytes(Cut(s, k, Size(s))) = Span(s.lo + k, s.lo + Size(s))
    BY <1>1, <2>1
  <2> QED
    BY <1>2, <2>2, <2>3, BytesSpan
<1> HIDE DEF x, y, z
<1>4. Span(x, y) \in Seq(Nat) /\ Span(y, z) \in Seq(Nat) /\ Span(x, z) \in Seq(Nat)
  BY <1>1, SpanSeq
<1>5. Span(x, y) \o Span(y, z) = Span(x, z)
  BY <1>1, SpanJoin
<1> QED
  BY <1>3, <1>4, <1>5, Zenon

\* A buffer that fits is copied whole.
LEMMA CopiedWhole ==
    ASSUME PathInv, Size(buffer) <= size
    PROVE  Bytes(Cut(buffer, 0, Copied)) = Bytes(buffer) /\ Bytes(Residue) = <<>>
<1> DEFINE h == buffer.hi
           k == Size(buffer)
<1>1. /\ buffer \in Slices /\ buffer.lo \in Nat /\ h \in Nat /\ k \in Int
      /\ buffer.lo + 0 = buffer.lo /\ buffer.lo + k = h /\ Copied = k /\ Bytes(buffer) = Span(buffer.lo, h)
  BY ReadTypes
<1> HIDE DEF h, k
<1>2. \A a, b \in Int : Bytes(Cut(buffer, a, b)) = Span(buffer.lo + a, buffer.lo + b)
  BY <1>1, BytesSpan
<1>3. Bytes(Cut(buffer, 0, k)) = Span(buffer.lo + 0, buffer.lo + k)
  BY <1>1, <1>2
<1>4. Bytes(Cut(buffer, k, k)) = Span(h, h)
  BY <1>1, <1>2
<1>5. h <= h
  BY <1>1
<1>6. Span(h, h) = <<>>
  BY <1>1, <1>5, SpanSeq
<1>7. Residue = Cut(buffer, k, k)
  BY <1>1 DEF Residue, k
<1> QED
  BY <1>1, <1>3, <1>4, <1>6, <1>7

\* A Read that takes no chunk returns what was left of the last one, all of it.
LEMMA ReaderKeeps ==
    ASSUME PathInv, ReadInv, Size(buffer) <= size,
           ReadBuffered \/ ReadClosed \/ ReadEnds \/ UNCHANGED readerVars
    PROVE  ReaderHolds' = ReaderHolds /\ dest' = dest
<1> DEFINE w == Bytes(buffer)
<1>1. w \in Seq(Nat) /\ Copied \in Nat
  BY ReadTypes
<1>2. Bytes(Cut(buffer, 0, Copied)) = w /\ Bytes(Residue) = <<>>
  BY CopiedWhole
<1>3. ReaderHolds = out \o Buffered /\ ReaderHolds' = out' \o Buffered'
  BY DEF ReaderHolds, Buffered
<1>4. (~eof => Buffered = w) /\ (eof' => Buffered' = <<>>)
  BY DEF Buffered
<1> HIDE DEF w
<1>5. w \o <<>> = w /\ <<>> \o w = w
  BY <1>1, ConcatEmptySeq
<1>6. CASE ReadBuffered
  <2>1. out = <<>> /\ ~eof /\ ~eof' /\ buffer' = Residue /\ out' = w /\ dest' = dest
    BY <1>2, <1>6 DEF ReadBuffered, Returns, ReadInv
  <2>2. Buffered' = <<>>
    BY <1>2, <2>1 DEF Buffered
  <2> QED
    BY <1>3, <1>4, <1>5, <2>1, <2>2, Zenon
<1>7. CASE ReadClosed
  <2>1. out = <<>> /\ ~eof /\ eof' /\ dest' = dest /\ UNCHANGED buffer
    BY <1>7 DEF ReadClosed, Receptive, Returns, ReadInv
  <2>2. CASE Copied > 0
    <3>1. out' = w
      BY <1>2, <1>7, <2>2 DEF ReadClosed, Returns
    <3> QED
      BY <1>3, <1>4, <1>5, <2>1, <3>1, Zenon
  <2>3. CASE ~(Copied > 0)
    <3>1. out' = <<>>
      BY <1>7, <2>1, <2>3 DEF ReadClosed
    <3>2. w = <<>>
      <4> DEFINE x == buffer.lo
      <4>1. x \in Nat /\ Bytes(buffer) = Span(x, x) /\ x <= x
        BY <1>1, <2>3, ReadTypes
      <4> HIDE DEF x
      <4> QED
        BY <4>1, SpanSeq DEF w
    <3> QED
      BY <1>3, <1>4, <2>1, <3>1, <3>2, Zenon
  <2> QED
    BY <2>2, <2>3
<1>8. CASE ReadEnds \/ UNCHANGED readerVars
  <2>1. UNCHANGED <<out, eof, buffer, dest>>
    BY <1>8 DEF ReadEnds, readerVars
  <2> QED
    BY <2>1 DEF ReaderHolds
<1> QED
  BY <1>6, <1>7, <1>8

\* io.Copy writes what Read returned.
LEMMA CopyPasses ==
    ASSUME PathInv, CopyWrites
    PROVE  dest' \o ReaderHolds' = dest \o ReaderHolds
<1> DEFINE w == Buffered
<1>1. out \in Seq(Nat) /\ dest \in Seq(Nat) /\ w \in Seq(Nat) /\ ReaderHolds = out \o w
  BY ReadTypes
<1>2. dest' = dest \o out /\ ReaderHolds' = <<>> \o w
  BY DEF CopyWrites, ReaderHolds, Buffered
<1> HIDE DEF w
<1>3. <<>> \o w = w
  BY <1>1, ConcatEmptySeq
<1>4. (dest \o out) \o w = dest \o (out \o w)
  BY <1>1, ConcatGroups, Zenon
<1> QED
  BY <1>1, <1>2, <1>3, <1>4, Zenon

\* A Read that takes a chunk appends it, what it returns of it and what it keeps.
LEMMA ReaderTakes ==
    ASSUME PathInv, ReadInv, Size(buffer) <= size,
           NEW c, Within(c, total), ReadChunk(c)
    PROVE  ReaderHolds' = ReaderHolds \o Bytes(c) /\ dest' = dest
<1> DEFINE n == Least(size - Copied, Size(c))
           w == Bytes(buffer)
           x == Bytes(Cut(c, 0, n))
           y == Bytes(Cut(c, n, Size(c)))
<1>1. w \in Seq(Nat) /\ Copied \in Nat /\ size \in Nat /\ Copied <= size /\ total \in Nat
  BY ReadTypes
<1>2. Bytes(Cut(buffer, 0, Copied)) = w
  BY CopiedWhole
<1>3. c \in Slices /\ c.lo \in Nat /\ c.lo <= c.hi /\ Size(c) \in Nat
  BY <1>1, SizeWithin DEF Within, Slices
<1>4. n \in 0..Size(c)
  BY <1>1, <1>3 DEF Least
<1>5. /\ out = <<>> /\ ~eof /\ ~eof' /\ buffer' = Cut(c, n, Size(c)) /\ out' = w \o x
      /\ dest' = dest
  BY <1>2 DEF ReadChunk, Receptive, Returns, ReadInv
<1>6. ReaderHolds = <<>> \o w /\ ReaderHolds' = (w \o x) \o y
  BY <1>5 DEF ReaderHolds
<1> HIDE DEF n, w
<1>7. x \in Seq(Nat) /\ y \in Seq(Nat) /\ x \o y = Bytes(c)
  BY <1>3, <1>4, BytesSplit
<1> HIDE DEF x, y
<1>8. <<>> \o w = w
  BY <1>1, ConcatEmptySeq
<1>9. w \in Seq(Nat) /\ x \in Seq(Nat) /\ y \in Seq(Nat)
  BY <1>1, <1>7
<1>10. (w \o x) \o y = w \o (x \o y)
  BY <1>9, ConcatGroups, Zenon
<1> QED
  BY <1>5, <1>6, <1>7, <1>8, <1>10, Zenon

\* Every step keeps what Read returned until it is written.
LEMMA ReadStep ==
    ASSUME ReadInv, [Next]_vars
    PROVE  ReadInv'
<1>1. \/ UNCHANGED readerVars \/ (\E c : ReadChunk(c)) \/ ReadBuffered \/ ReadClosed \/ ReadEnds
      \/ CopyWrites
  BY DEF Next, vars, SourceWrites, SourceCloses, InputCloses, OutputCloses, SlicerStep,
         SlicerToBandwidth, BandwidthStep, BandwidthGivesUp, BandwidthToReader, ReaderStep,
         Update, UpdateToxicJson, Decode, DecodeEnds, InterruptToxic, RunToxic
<1> QED
  BY <1>1 DEF ReadInv, readerVars, ReadChunk, ReadBuffered, ReadClosed, Receptive, Returns,
              ReadEnds, CopyWrites

-----------------------------------------------------------------------------
(* All of the path *)

\* No chunk is longer than the read buffer, and then none leaves a residue; or the
\* residue is of bytes beyond the first buffer.
Room ==
    /\ (\A n \in Lengths : n <= size) => Size(pkt) <= size /\ Size(p) <= size /\ Size(buffer) = 0
    /\ total <= 2 * size => Size(buffer) = 0 \/ buffer.lo >= size

\* What the property assumes.
Clean == ~Panicked /\ "rate" \notin raced /\ Fits

\* The bytes on the way are those that BytesIntact says.
Intact == Lists(dest \o ReaderHolds \o BandwidthHolds \o SlicerHolds, (1..total) \ dropped)

Cuts == SlicerCuts /\ PieceInv /\ ReadInv

\* A residue fits the read buffer.
LEMMA RoomFits ==
    ASSUME PathInv, Room, Fits
    PROVE  Size(buffer) <= size
<1>1. /\ buffer.lo \in Nat /\ buffer.hi \in Nat /\ Size(buffer) \in Nat /\ size \in Nat
      /\ buffer.lo + Size(buffer) = buffer.hi /\ buffer.hi <= total /\ total \in Nat
  BY ReadTypes
<1>2. CASE total <= 2 * size
  BY <1>1, <1>2 DEF Room
<1>3. CASE \A n \in Lengths : n <= size
  BY <1>1, <1>3 DEF Room
<1> QED
  BY <1>2, <1>3 DEF Fits

\* What the parts hold are sequences of numbers.
HoldNumbers ==
    /\ dest \in Seq(Nat) /\ ReaderHolds \in Seq(Nat)
    /\ BandwidthHolds \in Seq(Nat) /\ SlicerHolds \in Seq(Nat)

\* They are, between any two steps.
LEMMA HoldTypes == PathInv /\ RateInv /\ Cuts /\ Clean => HoldNumbers
<1> SUFFICES ASSUME PathInv, RateInv, Cuts, Clean
             PROVE  HoldNumbers
  OBVIOUS
<1>1. SlicerCuts /\ PieceInv /\ "rate" \notin raced
  BY DEF Cuts, Clean
<1>2. dest \in Seq(Nat) /\ ReaderHolds \in Seq(Nat)
  <2> DEFINE w == Buffered
  <2>1. out \in Seq(Nat) /\ w \in Seq(Nat) /\ dest \in Seq(Nat) /\ ReaderHolds = out \o w
    BY ReadTypes
  <2> HIDE DEF w
  <2> QED
    BY <2>1
<1>3. BandwidthHolds \in Seq(Nat)
  <2>1. /\ p \in Slices /\ p.lo \in Nat /\ p.lo <= p.hi /\ Size(p) \in Nat
        /\ bpc = "reslice" => Size(piece) \in Nat /\ Size(piece) <= Size(p)
    BY <1>1, ThrottledTypes
  <2>2. Bytes(p) \in Seq(Nat)
    BY <2>1, BytesSplit
  <2>3. CASE bpc = "reslice"
    <3>1. Size(piece) \in 0..Size(p) /\ BandwidthHolds = Bytes(Cut(p, Size(piece), Size(p)))
      BY <2>1, <2>3 DEF BandwidthHolds
    <3> QED
      BY <2>1, <3>1, BytesSplit
  <2>4. CASE bpc # "reslice"
    <3>1. BandwidthHolds = Bytes(p) \/ BandwidthHolds = <<>>
      BY <2>4 DEF BandwidthHolds
    <3>2. <<>> \in Seq(Nat)
      OBVIOUS
    <3> QED
      BY <2>2, <3>1, <3>2
  <2> QED
    BY <2>3, <2>4
<1>4. SlicerHolds \in Seq(Nat)
  <2>1. pkt \in Slices /\ pkt.lo \in Nat /\ pkt.lo <= pkt.hi /\ Size(pkt) \in Nat
    BY <1>1, PacketTypes
  <2>2. Bytes(pkt) \in Seq(Nat) /\ \A k \in 0..Size(pkt) : Bytes(Cut(pkt, k, Size(pkt))) \in Seq(Nat)
    BY <2>1, BytesSplit
  <2>3. CASE spc \in {"send", "wait", "rest"}
    <3>1. chunks[nth].lo \in 0..Size(pkt) /\ chunks[nth].hi \in 0..Size(pkt)
      BY <1>1, <2>1, <2>3, PacketTypes DEF SlicerCuts
    <3>2. \E k \in 0..Size(pkt) : SlicerHolds = Bytes(Cut(pkt, k, Size(pkt)))
      BY <2>3, <3>1 DEF SlicerHolds
    <3> QED
      BY <2>2, <3>2
  <2>4. CASE spc \notin {"send", "wait", "rest"}
    <3>1. SlicerHolds = Bytes(pkt) \/ SlicerHolds = <<>>
      BY <2>4 DEF SlicerHolds
    <3>2. <<>> \in Seq(Nat)
      OBVIOUS
    <3> QED
      BY <2>2, <3>1, <3>2
  <2> QED
    BY <2>3, <2>4
<1> QED
  BY <1>2, <1>3, <1>4 DEF HoldNumbers

\* They are after a step.
LEMMA HoldTypesNext == PathInv' /\ RateInv' /\ Cuts' /\ Clean' => HoldNumbers'
BY HoldTypes, PTL

\* The steps in which no part passes bytes on.
Quiet ==
    /\ UNCHANGED <<total, dropped>>
    /\ \/ ChunkReturns \/ (\E r \in Variation : ChunkRecurses(r)) \/ SlicerCloses \/ ChunkSplits
       \/ FirstPiece \/ NextPiece \/ SlicerInterrupted \/ SlicerRuns
       \/ UNCHANGED slicerVars \/ \E f, v : SlicerDecodes(f, v)
    /\ \/ LoopTest \/ PieceDue \/ Reslice \/ LastDue \/ Tick \/ BandwidthInterrupted
       \/ BandwidthRuns \/ BandwidthCloses \/ UNCHANGED bandwidthVars
       \/ \E r : BandwidthDecodes(r)
    /\ ReadBuffered \/ ReadClosed \/ ReadEnds \/ UNCHANGED readerVars

\* Every step is quiet or passes bytes from one part to the next.
LEMMA KindsOfStep ==
    ASSUME [Next]_vars
    PROVE  \/ Quiet
           \/ \E n \in Lengths : SourceWrites(n)
           \/ SlicerToBandwidth \/ BandwidthToReader \/ BandwidthGivesUp
           \/ CopyWrites /\ UNCHANGED <<slicerVars, bandwidthVars, pathVars>>
<1>1. CASE SourceCloses \/ InputCloses \/ OutputCloses \/ UNCHANGED vars
  BY <1>1 DEF SourceCloses, InputCloses, OutputCloses, vars, pathVars, Quiet
<1>2. CASE SlicerStep
  BY <1>2 DEF SlicerStep, pathVars, Quiet
<1>3. CASE BandwidthStep
  BY <1>3 DEF BandwidthStep, pathVars, Quiet
<1>4. CASE ReaderStep
  BY <1>4 DEF ReaderStep, pathVars, Quiet
<1>5. CASE \E f \in {"avg", "var", "rate"} : Decode(f)
  BY <1>5 DEF Decode, Quiet
<1>6. CASE \/ \E a \in SlicerAttrs : UpdateToxicJson("slicer", a)
           \/ \E r \in Rates : UpdateToxicJson("bandwidth", [rate |-> r])
           \/ DecodeEnds \/ InterruptToxic \/ RunToxic
  BY <1>6 DEF UpdateToxicJson, DecodeEnds, InterruptToxic, RunToxic, Quiet
<1> QED
  BY <1>1, <1>2, <1>3, <1>4, <1>5, <1>6 DEF Next, Update

\* A step after which the property's assumptions hold is one before which they held.
LEMMA CleanBefore ==
    ASSUME PathInv, [Next]_vars, Clean'
    PROVE  Clean /\ size' = size
<1>1. size' = size
  BY DEF Next, vars, SourceWrites, SourceCloses, InputCloses, OutputCloses, SlicerStep,
         SlicerToBandwidth, BandwidthStep, BandwidthGivesUp, BandwidthToReader, ReaderStep,
         Update, UpdateToxicJson, Decode, DecodeEnds, InterruptToxic, RunToxic, readerVars,
         ReadChunk, ReadBuffered, ReadClosed, Returns, ReadEnds, CopyWrites
<1>2. total \in Nat /\ total' \in Nat /\ total <= total' /\ size \in Nat
  <2>1. \/ total' = total \/ \E n \in Lengths : total' = total + n
    BY KindsOfStep DEF Quiet, SourceWrites, SlicerToBandwidth, BandwidthToReader,
                       BandwidthGivesUp, pathVars
  <2>2. total \in Nat /\ size \in Nat
    BY ReadTypes
  <2> QED
    BY <2>1, <2>2, DataPathAssumption
<1>3. Fits
  BY <1>1, <1>2 DEF Clean, Fits
<1>4. ~Panicked
  <2>1. CASE UNCHANGED vars
    BY <2>1 DEF vars, slicerVars, bandwidthVars, Panicked, Clean
  <2> QED
    BY <2>1 DEF Next
<1>5. "rate" \notin raced
  BY StepOfBandwidth DEF RateWritten, Clean
<1> QED
  BY <1>1, <1>3, <1>4, <1>5 DEF Clean

-----------------------------------------------------------------------------
(* The bytes stay in order *)

\* A quiet step leaves everything where it is.
LEMMA QuietIntact ==
    ASSUME PathInv, RateInv, Cuts, Clean, Clean', Room, Intact, Quiet
    PROVE  Intact'
<1>1. SlicerCuts /\ PieceInv /\ ReadInv /\ "rate" \notin raced
  BY DEF Cuts, Clean
<1>2. spc' \notin {"panic", "overflow"} /\ bpc' # "panic"
  BY DEF Clean, Panicked
<1>3. SlicerHolds' = SlicerHolds
  BY <1>1, <1>2, SlicerKeeps DEF Quiet
<1>4. BandwidthHolds' = BandwidthHolds
  BY <1>1, <1>2, BandwidthKeeps DEF Quiet
<1>5. Size(buffer) <= size
  BY RoomFits DEF Clean
<1>6. ReaderHolds' = ReaderHolds /\ dest' = dest
  BY <1>1, <1>5, ReaderKeeps DEF Quiet
<1>7. total' = total /\ dropped' = dropped
  BY DEF Quiet
<1> QED
  BY <1>3, <1>4, <1>6, <1>7 DEF Intact

\* The source's bytes come after all others.
LEMMA SourceIntact ==
    ASSUME PathInv, RateInv, Cuts, Clean, Intact, NEW n \in Lengths, SourceWrites(n)
    PROVE  Intact'
<1> DEFINE q == dest \o ReaderHolds \o BandwidthHolds
           t == total
           u == total + n
           w == Span(t, u)
           U == (1..t) \ dropped
<1>1. n \in Nat /\ t \in Nat /\ u \in Nat /\ t <= u /\ dropped \subseteq 1..t
  <2>1. total \in Nat /\ dropped \subseteq 1..total
    BY DEF PathInv, TileInv, PathTypes
  <2> QED
    BY <2>1, DataPathAssumption
<1>2. /\ spc = "receive" /\ spc' = "test" /\ pkt' = Made(t, n) /\ total' = u
      /\ UNCHANGED <<bandwidthVars, readerVars, dropped>>
  BY DEF SourceWrites, SlicerReceive
<1>3. q \in Seq(Nat)
  <2>1. dest \in Seq(Nat) /\ ReaderHolds \in Seq(Nat) /\ BandwidthHolds \in Seq(Nat)
    BY HoldTypes DEF HoldNumbers
  <2> QED
    BY <2>1
<1>4. SlicerHolds = <<>>
  BY <1>2 DEF SlicerHolds
<1>5. SlicerHolds' = w
  <2>1. SlicerHolds' = Bytes(Made(t, n))
    BY <1>2 DEF SlicerHolds
  <2>2. Made(t, n) \in Slices /\ Made(t, n).lo = t /\ Made(t, n).hi = u
    BY <1>1 DEF Made, Slices
  <2> QED
    BY <2>1, <2>2, BytesSpan
<1>6. ReaderHolds' = ReaderHolds /\ BandwidthHolds' = BandwidthHolds /\ dest' = dest
  BY <1>2 DEF ReaderHolds, BandwidthHolds, readerVars, bandwidthVars
<1>7. Lists(q \o SlicerHolds, U)
  BY DEF Intact
<1>8. dest' \o ReaderHolds' \o BandwidthHolds' = q
  BY <1>6
<1> HIDE DEF q, w, t, u
<1>9. q \o <<>> = q
  BY <1>3, ConcatEmptySeq
<1>10. Lists(q, U)
  BY <1>4, <1>7, <1>9, Zenon
<1>11. w \in Seq(Nat) /\ Lists(w, (t + 1)..u)
  BY <1>1, SpanSeq, SpanLists DEF w
<1>12. \A a \in U, b \in (t + 1)..u : a < b
  BY <1>1
<1>13. U \cup ((t + 1)..u) = (1..u) \ dropped
  BY <1>1
<1> HIDE DEF U
<1>14. Lists(q \o w, U \cup ((t + 1)..u))
  BY <1>3, <1>10, <1>11, <1>12, ListsJoin
<1>15. Lists(q \o w, (1..u) \ dropped)
  BY <1>13, <1>14, Zenon
<1>16. /\ dest' \o ReaderHolds' \o BandwidthHolds' \o SlicerHolds' = q \o w
       /\ (1..total') \ dropped' = (1..u) \ dropped
  BY <1>2, <1>5, <1>8
<1> QED
  BY <1>15, <1>16, Zenon DEF Intact

\* A piece moves from the slicer to the bandwidth toxic.
LEMMA SlicerIntact ==
    ASSUME PathInv, RateInv, Cuts, Clean, HoldNumbers', Intact, SlicerToBandwidth
    PROVE  Intact'
<1> DEFINE q == dest \o ReaderHolds
           x == Bytes(SlicerOutput)
           s == SlicerHolds'
<1>1. /\ SlicerSent /\ BandwidthReceive(SlicerOutput) /\ SlicerCuts
      /\ UNCHANGED <<readerVars, total, dropped>>
  BY DEF SlicerToBandwidth, pathVars, Cuts
<1>2. Within(SlicerOutput, total) /\ total \in Nat
  BY <1>1, OutputWithin DEF PathInv, SlicerSent, TileInv
<1>3. x \in Seq(Nat)
  BY <1>2, BytesAreNat
<1>4. q \in Seq(Nat) /\ s \in Seq(Nat)
  <2>1. dest \in Seq(Nat) /\ ReaderHolds \in Seq(Nat) /\ SlicerHolds' \in Seq(Nat)
    BY HoldTypes DEF HoldNumbers
  <2> QED
    BY <2>1
<1>5. SlicerHolds = x \o s
  BY <1>1, SlicerPasses
<1>6. BandwidthHolds = <<>> /\ BandwidthHolds' = x
  BY <1>1 DEF BandwidthReceive, BandwidthHolds
<1>7. dest' \o ReaderHolds' = q
  BY <1>1 DEF ReaderHolds, readerVars
<1>8. Lists((q \o BandwidthHolds) \o SlicerHolds, (1..total) \ dropped)
  BY DEF Intact
<1>9. Intact' <=> Lists((q \o x) \o s, (1..total) \ dropped)
  BY <1>1, <1>6, <1>7 DEF Intact
<1> HIDE DEF q, x, s
<1>10. q \o <<>> = q
  BY <1>4, ConcatEmptySeq
<1>11. (q \o x) \o s = q \o (x \o s)
  BY <1>3, <1>4, ConcatGroups, Zenon
<1> QED
  BY <1>5, <1>6, <1>8, <1>9, <1>10, <1>11, Zenon

\* Bytes move from the bandwidth toxic to the reader.
LEMMA ReaderIntact ==
    ASSUME PathInv, RateInv, Cuts, Clean, HoldNumbers', Room, Intact, BandwidthToReader,
           Within(BandwidthOutput, total)
    PROVE  Intact'
<1> DEFINE d == dest
           r == ReaderHolds
           x == Bytes(BandwidthOutput)
           b == BandwidthHolds'
           s == SlicerHolds
<1>1. /\ BandwidthSent /\ ReadChunk(BandwidthOutput) /\ PieceInv /\ ReadInv /\ "rate" \notin raced
      /\ UNCHANGED <<slicerVars, total, dropped>>
  BY DEF BandwidthToReader, pathVars, Cuts, Clean
<1>2. total \in Nat
  BY DEF PathInv, TileInv
<1>3. x \in Seq(Nat)
  BY <1>2, BytesAreNat
<1>4. d \in Seq(Nat) /\ r \in Seq(Nat) /\ b \in Seq(Nat)
  BY HoldTypes DEF HoldNumbers
<1>5. BandwidthHolds = x \o b
  BY <1>1, BandwidthPasses
<1>6. Size(buffer) <= size
  BY RoomFits DEF Clean
<1>7. ReaderHolds' = r \o x /\ dest' = d
  BY <1>1, <1>6, ReaderTakes
<1>8. SlicerHolds' = s
  BY <1>1 DEF slicerVars, SlicerHolds
<1>9. Lists(((d \o r) \o BandwidthHolds) \o s, (1..total) \ dropped)
  BY DEF Intact
<1>10. Intact' <=> Lists(((d \o (r \o x)) \o b) \o s, (1..total) \ dropped)
  BY <1>1, <1>7, <1>8 DEF Intact
<1> HIDE DEF d, r, x, b, s
<1> DEFINE q == d \o r
<1>11. d \in Seq(Nat) /\ r \in Seq(Nat) /\ x \in Seq(Nat)
  BY <1>3, <1>4
<1>12. (d \o r) \o x = d \o (r \o x)
  BY <1>11, ConcatGroups, Zenon
<1>13. q \in Seq(Nat)
  BY <1>11, ConcatSeq, Zenon
<1>14. Lists((q \o BandwidthHolds) \o s, (1..total) \ dropped)
  BY <1>9
<1>15. d \o (r \o x) = q \o x
  BY <1>12, Zenon
<1> HIDE DEF q
<1>16. q \in Seq(Nat) /\ x \in Seq(Nat) /\ b \in Seq(Nat)
  BY <1>3, <1>4, <1>13
<1>17. (q \o x) \o b = q \o (x \o b)
  BY <1>16, ConcatGroups, Zenon
<1> QED
  BY <1>5, <1>10, <1>14, <1>15, <1>17, Zenon

\* A flush that nobody takes gives up the bytes of the packet, and those only.
LEMMA FlushIntact ==
    ASSUME PathInv, RateInv, Cuts, Clean, Intact, BandwidthGivesUp
    PROVE  Intact'
<1> DEFINE q == dest \o ReaderHolds
           x == Bytes(p)
           s == SlicerHolds
           U == (1..total) \ dropped
<1>1. /\ bpc = "flush" /\ bpc' = "returned" /\ UNCHANGED <<slicerVars, readerVars, total>>
      /\ dropped' = dropped \cup {p.lo + k : k \in 1..Size(p)}
  BY DEF BandwidthGivesUp, FlushTimesOut
<1>2. BandwidthHolds = x /\ BandwidthHolds' = <<>>
  BY <1>1 DEF BandwidthHolds
<1>3. q \in Seq(Nat) /\ s \in Seq(Nat) /\ x \in Seq(Nat)
  <2>1. dest \in Seq(Nat) /\ ReaderHolds \in Seq(Nat) /\ SlicerHolds \in Seq(Nat) /\ x \in Seq(Nat)
    BY <1>2, HoldTypes DEF HoldNumbers
  <2> QED
    BY <2>1
<1>4. dest' \o ReaderHolds' = q /\ SlicerHolds' = s
  BY <1>1 DEF ReaderHolds, readerVars, slicerVars, SlicerHolds
<1>5. Values(x) = {p.lo + k : k \in 1..Size(p)}
  <2>1. Size(p) \in Nat /\ p.lo \in Nat
    BY ThrottledTypes DEF Cuts, Clean
  <2>2. Len(x) = Size(p) /\ \A k \in 1..Size(p) : x[k] = p.lo + k
    BY <2>1 DEF Bytes
  <2> HIDE DEF x
  <2> QED
    BY <2>2 DEF Values
<1>6. Lists((q \o x) \o s, U)
  BY <1>2 DEF Intact
<1>7. (1..total') \ dropped' = U \ Values(x)
  BY <1>1, <1>5
<1>8. Intact' <=> Lists((q \o <<>>) \o s, U \ Values(x))
  BY <1>2, <1>4, <1>7 DEF Intact
<1> HIDE DEF q, x, s, U
<1>9. q \o <<>> = q
  BY <1>3, ConcatEmptySeq
<1>10. Lists(q \o s, U \ Values(x))
  BY <1>3, <1>6, ListsWithout
<1> QED
  BY <1>8, <1>9, <1>10, Zenon

-----------------------------------------------------------------------------
(* The residue stays in the read buffer *)

\* What the bandwidth toxic sends lies in its packet.
LEMMA OutputInPacket ==
    ASSUME PathInv, RateInv, Cuts, Clean, BandwidthSending
    PROVE  /\ Within(BandwidthOutput, total)
           /\ Size(BandwidthOutput) \in Nat /\ Size(BandwidthOutput) <= Size(p)
<1>1. Within(p, total) /\ Within(piece, total)
  BY DEF PathInv, BandwidthTypes
<1>2. Size(p) \in Nat /\ (bpc = "piece" => Size(piece) \in Nat /\ Size(piece) <= Size(p))
  BY ThrottledTypes DEF Cuts, Clean
<1>3. CASE bpc = "piece"
  BY <1>1, <1>2, <1>3 DEF BandwidthOutput
<1>4. CASE bpc # "piece"
  BY <1>1, <1>2, <1>4 DEF BandwidthOutput
<1> QED
  BY <1>3, <1>4

\* What is left in the buffer precedes what the reader takes next.
LEMMA BufferFirst ==
    ASSUME PathInv, RateInv, Cuts, Clean, HoldNumbers', Intact, BandwidthToReader,
           Size(buffer) > 0, Size(BandwidthOutput) > 0
    PROVE  buffer.hi <= BandwidthOutput.lo
<1> DEFINE d == dest
           r == ReaderHolds
           x == Bytes(BandwidthOutput)
           b == BandwidthHolds'
           h == BandwidthHolds
           s == SlicerHolds
           U == (1..total) \ dropped
<1>1. /\ BandwidthSent /\ BandwidthSending /\ PieceInv /\ "rate" \notin raced /\ total \in Nat
      /\ rpc = "read" /\ ~eof /\ out = <<>>
  BY DEF BandwidthToReader, BandwidthSent, ReadChunk, Receptive, Cuts, ReadInv, Clean, PathInv, TileInv
<1>2. Within(BandwidthOutput, total) /\ Size(BandwidthOutput) \in Nat
  BY <1>1, OutputInPacket
<1>3. x \in Seq(Nat)
  BY <1>1, <1>2, BytesAreNat
<1>4. d \in Seq(Nat) /\ r \in Seq(Nat) /\ b \in Seq(Nat) /\ s \in Seq(Nat) /\ h \in Seq(Nat)
  BY HoldTypes DEF HoldNumbers
<1>5. h = x \o b
  BY <1>1, BandwidthPasses
<1>6. Lists(((d \o r) \o h) \o s, U)
  BY DEF Intact
<1>7. /\ buffer.lo \in Nat /\ buffer.hi \in Nat /\ Size(buffer) \in Nat
      /\ buffer.lo + Size(buffer) = buffer.hi /\ Bytes(buffer) \in Seq(Nat)
  BY ReadTypes
<1>8. r = Bytes(buffer)
  <2> DEFINE w == Bytes(buffer)
  <2>1. ReaderHolds = <<>> \o w /\ w \in Seq(Nat)
    BY <1>1, <1>7 DEF ReaderHolds
  <2> HIDE DEF w
  <2>2. <<>> \o w = w
    BY <2>1, ConcatEmptySeq
  <2> QED
    BY <2>1, <2>2 DEF w
<1>9. buffer.hi \in Values(r)
  <2>1. Len(Bytes(buffer)) = Size(buffer) /\ Bytes(buffer)[Size(buffer)] = buffer.hi
    BY <1>7 DEF Bytes
  <2>2. Size(buffer) \in 1..Size(buffer)
    BY <1>7
  <2> QED
    BY <1>8, <2>1, <2>2 DEF Values
<1>10. BandwidthOutput.lo \in Nat /\ BandwidthOutput.lo + 1 \in Values(x)
  <2>1. BandwidthOutput.lo \in Nat
    BY <1>2 DEF Within, Slices
  <2>2. Len(x) = Size(BandwidthOutput) /\ x[1] = BandwidthOutput.lo + 1
    BY <1>2, <2>1 DEF Bytes
  <2>3. 1 \in 1..Size(BandwidthOutput)
    BY <1>2
  <2> QED
    BY <2>1, <2>2, <2>3 DEF Values
<1> HIDE DEF d, r, x, b, s, h, U
<1> DEFINE q == d \o r
           o == q \o h
<1>11. q \in Seq(Nat) /\ Values(q) = Values(d) \cup Values(r)
  BY <1>4, ConcatParts
<1>12. Values(h) = Values(x) \cup Values(b)
  BY <1>3, <1>4, <1>5, ConcatParts
<1> HIDE DEF q
<1>13. o \in Seq(Nat)
  BY <1>4, <1>11
<1>14. Lists(o \o s, U)
  BY <1>6 DEF q
<1> HIDE DEF o
<1>15. Lists(o, Values(o))
  BY <1>4, <1>13, <1>14, ListsSplit
<1>16. Lists(q \o h, Values(o))
  BY <1>15 DEF o
<1>17. \A i \in Values(q), j \in Values(h) : i < j
  BY <1>4, <1>11, <1>16, ListsSplit
<1>18. buffer.hi < BandwidthOutput.lo + 1
  BY <1>9, <1>10, <1>11, <1>12, <1>17
<1> QED
  BY <1>7, <1>10, <1>18

\* A Read that takes a chunk keeps a residue that fits.
LEMMA ReadRoom ==
    ASSUME PathInv, Room, Size(buffer) <= size, NEW c, Within(c, total), ReadChunk(c),
           Size(buffer) > 0 /\ Size(c) > 0 => buffer.hi <= c.lo
    PROVE  /\ Size(buffer) = 0 /\ Size(c) <= size => Size(buffer') = 0
           /\ total <= 2 * size => Size(buffer') = 0 \/ buffer'.lo >= size
<1> DEFINE n == Least(size - Copied, Size(c))
<1>1. /\ buffer.lo \in Nat /\ buffer.hi \in Nat /\ Size(buffer) \in Nat /\ size \in Nat
      /\ buffer.lo + Size(buffer) = buffer.hi /\ Copied = Size(buffer) /\ total \in Nat
  BY ReadTypes
<1>2. c \in Slices /\ c.lo \in Nat /\ Size(c) \in Nat
  BY <1>1, SizeWithin DEF Within, Slices
<1>3. n \in Nat /\ n <= Size(c) /\ (n = Size(c) \/ (n = size - Size(buffer) /\ n < Size(c)))
  BY <1>1, <1>2 DEF Least
<1>4. buffer' = Cut(c, n, Size(c))
  BY DEF ReadChunk
<1> HIDE DEF n
<1>5. buffer'.lo = c.lo + n /\ Size(buffer') = Size(c) - n
  <2>1. Cut(c, n, Size(c)).lo = c.lo + n /\ Cut(c, n, Size(c)).hi = c.lo + Size(c)
    BY <1>2 DEF Cut, Slices
  <2> QED
    BY <1>2, <1>3, <1>4, <2>1 DEF Size
<1>6. Size(buffer) = 0 /\ Size(c) <= size => n = Size(c)
  BY <1>1, <1>2, <1>3
<1>7. ASSUME total <= 2 * size
      PROVE  Size(buffer') = 0 \/ buffer'.lo >= size
  <2>1. Size(buffer) = 0 \/ buffer.lo >= size
    BY <1>7 DEF Room
  <2>2. CASE n = Size(c)
    BY <1>2, <1>5, <2>2
  <2>3. CASE n = size - Size(buffer) /\ n < Size(c)
    BY <1>1, <1>2, <1>3, <1>5, <2>1, <2>3
  <2> QED
    BY <1>3, <2>2, <2>3
<1> QED
  BY <1>2, <1>5, <1>6, <1>7

\* The size of a slice that was made, and of the rest of one.
LEMMA Sizes ==
    ASSUME NEW s \in Slices, NEW k \in Int, NEW m \in Int
    PROVE  /\ Size(Cut(s, k, m)) = m - k
           /\ \A a \in Int, n \in Int : Size(Made(a, n)) = n
<1>1. Cut(s, k, m).lo = s.lo + k /\ Cut(s, k, m).hi = s.lo + m
  BY DEF Cut, Slices
<1>2. Size(Cut(s, k, m)) = m - k
  BY <1>1 DEF Size, Slices
<1>3. \A a \in Int, n \in Int : Size(Made(a, n)) = n
  BY DEF Made, Size
<1> QED
  BY <1>2, <1>3

\* Steps other than a Read that takes a chunk leave no larger residue.
LEMMA BufferRoom ==
    ASSUME PathInv, Size(buffer) <= size,
           ReadBuffered \/ ReadClosed \/ ReadEnds \/ CopyWrites \/ UNCHANGED readerVars
    PROVE  buffer' = buffer \/ Size(buffer') = 0
<1>1. CASE ReadBuffered
  <2>1. buffer \in Slices /\ Size(buffer) \in Int /\ Copied = Size(buffer)
    BY ReadTypes
  <2>2. buffer' = Cut(buffer, Size(buffer), Size(buffer))
    BY <1>1, <2>1 DEF ReadBuffered, Residue
  <2>3. Size(Cut(buffer, Size(buffer), Size(buffer))) = Size(buffer) - Size(buffer)
    BY <2>1, Sizes
  <2> QED
    BY <2>1, <2>2, <2>3
<1>2. CASE ReadClosed \/ ReadEnds \/ CopyWrites \/ UNCHANGED readerVars
  BY <1>2 DEF ReadClosed, ReadEnds, CopyWrites, readerVars
<1> QED
  BY <1>1, <1>2

\* The slicer's packet is a datagram, or none.
LEMMA PacketRoom ==
    ASSUME PathInv, Cuts, [Next]_vars, size' = size,
           \A n \in Lengths : n <= size, Size(pkt) <= size
    PROVE  Size(pkt') <= size
<1>1. pkt \in Slices /\ total \in Int /\ size \in Nat /\ TileInv /\ 0 \in Int
  BY PacketTypes, ReadTypes DEF Cuts, PathInv
<1>2. Size(Made(0, 0)) = 0 /\ \A n \in Lengths : Size(Made(total, n)) = n
  BY <1>1, Sizes, DataPathAssumption
<1>3. \/ pkt' = pkt \/ pkt' = Made(0, 0) \/ \E n \in Lengths : pkt' = Made(total, n)
  <2>1. CASE \E f, v : SlicerDecodes(f, v)
    BY <2>1 DEF SlicerDecodes
  <2>2. CASE SlicerMoves
    BY <2>2 DEF SlicerMoves, SlicerReceive, ChunkReturns, ChunkRecurses, SlicerCloses,
                ChunkSplits, FirstPiece, NextPiece, PacketDone, SlicerSent, SlicerInterrupted,
                SlicerRuns, slicerVars
  <2> QED
    BY <1>1, <2>1, <2>2, StepOfSlicer
<1> QED
  BY <1>1, <1>2, <1>3

\* The bandwidth toxic's packet is a piece of the slicer's, or the rest of one.
LEMMA ThrottledRoom ==
    ASSUME PathInv, RateInv, Cuts, Clean, [Next]_vars, Size(pkt) <= size, Size(p) <= size
    PROVE  Size(p') <= size
<1>1. /\ pkt \in Slices /\ Size(pkt) \in Nat /\ size \in Nat /\ p \in Slices /\ Size(p) \in Nat
      /\ rate * Interval \in Int
  BY PacketTypes, ReadTypes, ThrottledTypes, BandwidthAssumption
     DEF Cuts, Clean, PathInv, BandwidthTypes
<1>2. Size(Made(0, 0)) = 0
  BY <1>1, Sizes
<1>3. ASSUME SlicerToBandwidth
      PROVE  Size(p') <= size
  <2> DEFINE c == chunks[nth]
  <2>1. p' = SlicerOutput /\ spc \in {"send", "rest"}
    BY <1>3 DEF SlicerToBandwidth, SlicerSent, SlicerSending, BandwidthReceive
  <2>2. c.lo \in Nat /\ c.hi \in Nat /\ c.hi <= Size(pkt)
    BY <2>1, PacketTypes DEF Cuts, SlicerCuts
  <2>3. SlicerOutput = Cut(pkt, c.lo, c.hi) \/ SlicerOutput = Cut(pkt, c.hi, Size(pkt))
    BY <2>1 DEF SlicerOutput
  <2> HIDE DEF c
  <2>4. Size(Cut(pkt, c.lo, c.hi)) = c.hi - c.lo /\ Size(Cut(pkt, c.hi, Size(pkt))) = Size(pkt) - c.hi
    BY <1>1, <2>2, Sizes
  <2> QED
    BY <1>1, <2>1, <2>2, <2>3, <2>4
<1>4. ASSUME ~SlicerToBandwidth
      PROVE  \/ p' = p \/ p' = Made(0, 0)
             \/ \E k \in Nat : p' = Cut(p, k, Size(p))
  <2>1. CASE Quiet
    BY <1>1, <2>1 DEF Quiet, LoopTest, PieceDue, Reslice, LastDue, Tick, BandwidthInterrupted,
                BandwidthRuns, BandwidthCloses, bandwidthVars, BandwidthDecodes
  <2>2. CASE BandwidthToReader \/ BandwidthGivesUp
    BY <2>2 DEF BandwidthToReader, BandwidthSent, BandwidthGivesUp, FlushTimesOut
  <2>3. CASE (\E n \in Lengths : SourceWrites(n)) \/ UNCHANGED bandwidthVars
    BY <2>3 DEF SourceWrites, bandwidthVars
  <2> QED
    BY <1>4, <2>1, <2>2, <2>3, KindsOfStep
<1>5. \A k \in Nat : Size(Cut(p, k, Size(p))) <= Size(p)
  <2> TAKE k \in Nat
  <2>1. Size(Cut(p, k, Size(p))) = Size(p) - k
    BY <1>1, Sizes
  <2> QED
    BY <1>1, <2>1
<1>6. CASE SlicerToBandwidth
  BY <1>3, <1>6
<1>7. CASE ~SlicerToBandwidth
  <2>1. CASE p' = p \/ p' = Made(0, 0)
    BY <1>1, <1>2, <2>1
  <2>2. CASE \E k \in Nat : p' = Cut(p, k, Size(p))
    <3>1. PICK k \in Nat : p' = Cut(p, k, Size(p))
      BY <2>2
    <3>2. Size(p') <= Size(p) /\ Size(p') \in Int
      BY <1>1, <1>5, <3>1, Sizes
    <3> QED
      BY <1>1, <3>2
  <2> QED
    BY <1>4, <1>7, <2>1, <2>2
<1> QED
  BY <1>6, <1>7

\* Every step leaves room for the residue.
LEMMA RoomStep ==
    ASSUME PathInv, PathInv', RateInv, Cuts, Clean, Clean', HoldNumbers', Room, Intact, [Next]_vars
    PROVE  Room'
<1>1. size' = size /\ Size(buffer) <= size
  BY CleanBefore, RoomFits DEF Clean
<1>2. total \in Nat /\ total' \in Nat /\ total <= total' /\ size \in Nat
  <2>1. \/ total' = total \/ \E n \in Lengths : total' = total + n
    BY KindsOfStep DEF Quiet, SourceWrites, SlicerToBandwidth, BandwidthToReader,
                       BandwidthGivesUp, pathVars
  <2>2. total \in Nat /\ size \in Nat
    BY ReadTypes
  <2> QED
    BY <2>1, <2>2, DataPathAssumption
<1>3. ASSUME \A n \in Lengths : n <= size
      PROVE  Size(pkt') <= size /\ Size(p') <= size /\ Size(pkt) <= size /\ Size(p) <= size
             /\ Size(buffer) = 0
  <2>1. Size(pkt) <= size /\ Size(p) <= size /\ Size(buffer) = 0
    BY <1>3 DEF Room
  <2> QED
    BY <1>1, <1>3, <2>1, PacketRoom, ThrottledRoom
<1>4. CASE BandwidthToReader
  <2> DEFINE c == BandwidthOutput
  <2>1. BandwidthSending /\ ReadChunk(c) /\ total' = total
    BY <1>4 DEF BandwidthToReader, BandwidthSent, pathVars
  <2>2. Within(c, total) /\ Size(c) \in Nat /\ Size(c) <= Size(p)
    BY <2>1, OutputInPacket
  <2>3. Size(buffer) > 0 /\ Size(c) > 0 => buffer.hi <= c.lo
    BY <1>4, BufferFirst
  <2> HIDE DEF c
  <2>4. /\ Size(buffer) = 0 /\ Size(c) <= size => Size(buffer') = 0
        /\ total <= 2 * size => Size(buffer') = 0 \/ buffer'.lo >= size
    BY <1>1, <2>1, <2>2, <2>3, ReadRoom
  <2>5. ASSUME \A n \in Lengths : n <= size
        PROVE  Size(buffer') = 0
    <3>1. Size(p) \in Nat
      BY ThrottledTypes DEF Cuts, Clean
    <3> QED
      BY <1>2, <1>3, <2>2, <2>4, <2>5, <3>1
  <2> QED
    BY <1>1, <1>3, <2>1, <2>4, <2>5 DEF Room
<1>5. CASE ~BandwidthToReader
  <2>1. ReadBuffered \/ ReadClosed \/ ReadEnds \/ CopyWrites \/ UNCHANGED readerVars
    BY <1>5, KindsOfStep DEF Quiet, SourceWrites, SlicerToBandwidth, BandwidthGivesUp
  <2>2. buffer' = buffer \/ Size(buffer') = 0
    BY <1>1, <2>1, BufferRoom
  <2>3. total' <= 2 * size => total <= 2 * size
    BY <1>2
  <2>4. (\A n \in Lengths : n <= size) => Size(buffer') = 0
    BY <1>3, <2>2
  <2>5. total' <= 2 * size => Size(buffer') = 0 \/ buffer'.lo >= size
    BY <2>2, <2>3 DEF Room
  <2> QED
    BY <1>1, <1>3, <2>4, <2>5 DEF Room
<1> QED
  BY <1>4, <1>5

-----------------------------------------------------------------------------
\* The inductive invariant.
IntactInv == Cuts /\ (Clean => Room /\ Intact)

\* The initial states satisfy it.
LEMMA IntactInitially ==
    ASSUME Init
    PROVE  IntactInv
<1>1. /\ spc = "receive" /\ bpc = "receive" /\ out = <<>> /\ dest = <<>> /\ ~eof
      /\ pkt = Made(0, 0) /\ p = Made(0, 0) /\ buffer = Made(0, 0) /\ total = 0 /\ dropped = {}
      /\ rpc = "read" /\ size \in BufferSizes
  BY DEF Init, SlicerInit, BandwidthInit, ReaderInit
<1>2. Size(Made(0, 0)) = 0 /\ Made(0, 0).cap = Made(0, 0).hi /\ size \in Nat
  BY <1>1, ReaderAssumption DEF Made, Size
<1>3. Cuts
  BY <1>1, <1>2 DEF Cuts, SlicerCuts, PieceInv, ReadInv
<1>4. Room
  BY <1>1, <1>2 DEF Room
<1>5. Bytes(Made(0, 0)) = <<>>
  <2>1. Bytes(Made(0, 0)) \in [1..0 -> Nat]
    BY <1>2 DEF Bytes
  <2>2. Bytes(Made(0, 0)) \in Seq(Nat) /\ Len(Bytes(Made(0, 0))) = 0
    BY <2>1
  <2> QED
    BY <2>2, EmptySeq
<1>6. ReaderHolds = <<>> /\ BandwidthHolds = <<>> /\ SlicerHolds = <<>>
  <2>1. ReaderHolds = <<>> \o <<>>
    BY <1>1, <1>5 DEF ReaderHolds
  <2>2. <<>> \o <<>> = <<>>
    OBVIOUS
  <2> QED
    BY <1>1, <2>1, <2>2 DEF BandwidthHolds, SlicerHolds
<1>7. dest \o ReaderHolds \o BandwidthHolds \o SlicerHolds = <<>>
  BY <1>1, <1>6
<1>8. (1..total) \ dropped = {}
  BY <1>1
<1>9. Lists(<<>>, {})
  BY DEF Lists
<1>10. Intact
  BY <1>7, <1>8, <1>9, Zenon DEF Intact
<1> QED
  BY <1>3, <1>4, <1>10 DEF IntactInv

\* Every step keeps it.
LEMMA IntactStep ==
    ASSUME PathInv, PathInv', RateInv, RateInv', IntactInv, [Next]_vars
    PROVE  IntactInv'
<1>1. Cuts /\ Cuts'
  BY SlicerCutsStep, PieceStep, ReadStep DEF IntactInv, Cuts
<1> SUFFICES ASSUME Clean'
             PROVE  Room' /\ Intact'
  BY <1>1 DEF IntactInv
<1>2. Clean /\ Room /\ Intact
  BY CleanBefore DEF IntactInv
<1>3. HoldNumbers'
  BY <1>1, HoldTypesNext
<1>4. Room'
  BY <1>1, <1>2, <1>3, RoomStep
<1>5. CASE Quiet
  BY <1>1, <1>2, <1>4, <1>5, QuietIntact
<1>6. CASE \E n \in Lengths : SourceWrites(n)
  BY <1>1, <1>2, <1>4, <1>6, SourceIntact
<1>7. CASE SlicerToBandwidth
  BY <1>1, <1>2, <1>3, <1>4, <1>7, SlicerIntact
<1>8. CASE BandwidthToReader
  <2>1. Within(BandwidthOutput, total)
    BY <1>1, <1>2, <1>8, OutputInPacket DEF BandwidthToReader, BandwidthSent
  <2> QED
    BY <1>1, <1>2, <1>3, <1>4, <1>8, <2>1, ReaderIntact
<1>9. CASE BandwidthGivesUp
  BY <1>1, <1>2, <1>4, <1>9, FlushIntact
<1>10. CASE CopyWrites /\ UNCHANGED <<slicerVars, bandwidthVars, pathVars>>
  <2>1. dest' \o ReaderHolds' = dest \o ReaderHolds
    BY <1>10, CopyPasses
  <2>2. /\ BandwidthHolds' = BandwidthHolds /\ SlicerHolds' = SlicerHolds
        /\ UNCHANGED <<total, dropped>>
    BY <1>10 DEF BandwidthHolds, SlicerHolds, slicerVars, bandwidthVars, pathVars
  <2>3. Intact'
    BY <1>2, <2>1, <2>2, Zenon DEF Intact
  <2> QED
    BY <1>4, <2>3
<1> QED
  BY <1>4, <1>5, <1>6, <1>7, <1>8, <1>9, <1>10, KindsOfStep

\* For datagrams of any length, any sizes, rates and buffers and any sequence of
\* updates: what ChanReader.Read and io.Copy have written to the destination, with
\* what Read, BandwidthToxic.Pipe and SlicerToxic.Pipe hold, is in order every byte
\* that the source sent, but for those a flush gave up in WriteOutput.  A chunk is
\* no longer than the read buffer or the stream shorter than two, and the rate is
\* not written while a packet is sent in pieces.
THEOREM BytesAlwaysIntact == Spec => []BytesIntact
<1>1. Init => RateInv
  <2> SUFFICES ASSUME Init, "rate" \notin raced
               PROVE  rate > 0 /\ bpc = "receive"
    BY DEF RateInv
  <2> QED
    BY DEF Init, BandwidthInit, Odd
<1>2. PathInv /\ RateInv /\ [Next]_vars => RateInv'
  BY RateStep
<1>3. Init => IntactInv
  BY IntactInitially
<1>4. PathInv /\ PathInv' /\ RateInv /\ RateInv' /\ IntactInv /\ [Next]_vars => IntactInv'
  BY IntactStep
<1>5. IntactInv => BytesIntact
  BY DEF IntactInv, Clean, Intact, BytesIntact
<1> QED
  BY <1>1, <1>2, <1>3, <1>4, <1>5, SlicesInRange, PTL DEF Spec
=============================================================================
