--------------------------- MODULE ToxicLinkProofs --------------------------
(***************************************************************************)
(* For any toxics, chain, datagrams and calls, and every interleaving of the  *)
(* goroutines of a link: no channel is closed twice, closed under a sender or  *)
(* written after its close, every toxic of the chain has its stub, and an open *)
(* link is the chain.                                                         *)
(***************************************************************************)
EXTENDS ToxicLink, SequenceLemmas, TLAPS

Pcs     == {"none", "recv", "delay", "send", "flush", "wflush", "sleep", "exited"}
Sending == {"send", "flush", "wflush"}
Running == {"recv", "delay", "sleep"} \cup Sending

\* The stubs that are part of the link: the one that is being added is not yet.
Wired == IF op.call = "add" THEN Len(stubs) - 1 ELSE Len(stubs)

\* The channel that the i-th stub sends on.
After(i) == IF i < Wired THEN stubs[i + 1] ELSE 0

\* A stub that has not been run.
Fresh(k) == pc[k] = "none" /\ ~shut[k] /\ ~closed[k] /\ buf[k] = <<>>

Structure ==
    /\ Len(stubs) >= 1 /\ Wired >= 1 /\ stubs[1] = 1
    /\ \A i \in 1..Len(stubs) : stubs[i] <= made
    /\ \A i, j \in 1..Len(stubs) : stubs[i] = stubs[j] => i = j
    /\ \A k \in Stub : k > made => Fresh(k)
    /\ op.call = "add" => /\ Fresh(stubs[Len(stubs)])
                          /\ output[stubs[Len(stubs)]] = output[op.stub]

\* A stub that is not closed sends on the Input of the next, which is open.
Wiring ==
    /\ closed[1] <=> reader = "done"
    /\ \A i \in 1..Wired : ~shut[stubs[i]] =>
         output[stubs[i]] = After(i) /\ ~closed[After(i)]

\* Stub k is part of the link and not closed.
Live(k) == ~shut[k] /\ \E i \in 1..Wired : k = stubs[i]

Runs == \A k \in Stub : pc[k] \in Running => Live(k)

\* Someone is sending on channel c.
Sender(c) ==
    \/ c = 1 /\ reader = "send"
    \/ \E k \in Stub : output[k] = c /\ pc[k] \in Sending
    \/ op.writing /\ output[op.stub] = c

\* A channel holds more than its buffer only while someone is blocked on it.
Queues ==
    \A c \in Chan : /\ Len(buf[c]) <= cap[c] + 1
                    /\ Blocked(c) => Sender(c)

\* The call in progress: where it is, and in which state it has left the stubs
\* that it interrupted.
CallShape ==
    /\ op.call = "none" => op = Idle
    /\ op.call # "none" => linked /\ op.stub = stubs[op.pos] /\ op.pc # "idle"
    /\ op.call = "add" => op.pos = Len(stubs) - 1
    /\ op.call = "update" => op.pos \in 2..Len(chain) /\ op.toxic = chain[op.pos]
    /\ op.call = "remove" => op.pos \in 2..(Len(chain) + 1) /\ op.prev = stubs[op.pos - 1]
    /\ op.call \in {"add", "update"} => op.pc \in {"interrupt", "wait"}
    /\ op.call # "remove" \/ op.pc \in {"interrupt", "wait"} => op.stop = "none"
    /\ op.pc = "empty" => op.stop = "yes"
    /\ op.writing => op.pc \in {"drain", "empty"}

Interruption ==
    /\ op.pc \in {"wait", "drain", "empty"} => ~shut[op.stub]
    /\ op.pc = "wait" => pc[op.stub] \in {"flush", "wflush", "exited"}
    /\ op.pc \in {"drain", "empty"} => pc[op.stub] = "exited"
    /\ op.pc = "await" => shut[op.stub]
    /\ op.stop \in {"wait", "yes"} => ~shut[op.prev]
    /\ op.stop = "wait" => pc[op.prev] \in {"flush", "wflush", "exited"}
    /\ op.stop = "yes" => pc[op.prev] = "exited"

\* The number of stubs that the chain asks for.
Wanted == IF op.call = "remove" THEN Len(chain) + 1 ELSE Len(chain)

\* The toxic that the i-th stub should run.
Assigned(i) ==
    IF op.call = "remove" /\ i > op.pos THEN chain[i - 1] ELSE chain[i]

\* A link has its chain's stubs, and more only if one of them is closed.  Else
\* they run the chain, but for the one that is being removed.
Cover ==
    linked =>
        /\ Len(stubs) >= Wanted
        /\ (\A i \in 1..Len(stubs) : ~shut[stubs[i]]) =>
             /\ Len(stubs) = Wanted
             /\ op.call = "add" => chain[Len(chain)] = op.toxic
             /\ \A i \in 1..Wired : op.call # "remove" \/ i # op.pos =>
                  wrapper[stubs[i]] = Assigned(i) /\ mode[stubs[i]] \in Modes(Assigned(i))

\* A stub holds data only between a receive and the send of the last piece, and
\* only if its Pipe waits in between.
Holds ==
    \A k \in Stub :
        /\ pc[k] \notin {"delay", "send"} => held[k] = <<>>
        /\ pc[k] = "delay" \/ held[k] # <<>> => mode[k] \in {"latency", "bandwidth", "slicer"}

\* What keeps the channels safe while the process is alive.
Sound == Structure /\ Wiring /\ Runs /\ Queues /\ Holds /\ CallShape /\ Interruption

\* An index out of range ends the process halfway through a call, on a link with
\* a closed stub.
IndInv ==
    /\ TypeOK /\ Cover
    /\ NoChannelPanic
    /\ Alive => Sound
    /\ ~Alive => \E i \in 1..Len(stubs) : shut[stubs[i]]

-----------------------------------------------------------------------------
(* Sequences and channels *)

\* The operators on sequences that the channels use.
LEMMA SeqFacts ==
    ASSUME NEW S, NEW s \in Seq(S)
    PROVE  /\ Len(s) \in Nat /\ (s = <<>> <=> Len(s) = 0)
           /\ \A x \in S : Append(s, x) \in Seq(S) /\ Len(Append(s, x)) = Len(s) + 1
           /\ \A i \in 1..Len(s) : s[i] \in S
           /\ s # <<>> => /\ Head(s) \in S /\ Tail(s) \in Seq(S) /\ Len(Tail(s)) = Len(s) - 1
                          /\ Last(s) \in S /\ Front(s) \in Seq(S) /\ Len(Front(s)) = Len(s) - 1
           /\ \A m \in Nat, n \in 0..Len(s) : SubSeq(s, m + 1, n) \in Seq(S)
           /\ Range(s) \subseteq S
<1>1. Len(s) \in Nat /\ (s = <<>> <=> Len(s) = 0) /\ \A i \in 1..Len(s) : s[i] \in S
  BY EmptySeq, LenProperties, ElementOfSeq
<1>2. \A x \in S : Append(s, x) \in Seq(S) /\ Len(Append(s, x)) = Len(s) + 1
  BY AppendProperties
<1>3. \A m \in Nat, n \in 0..Len(s) : SubSeq(s, m + 1, n) \in Seq(S)
  BY <1>1, SubSeqProperties
<1>4. ASSUME s # <<>>
      PROVE  /\ Head(s) \in S /\ Tail(s) \in Seq(S) /\ Len(Tail(s)) = Len(s) - 1
             /\ Last(s) \in S /\ Front(s) \in Seq(S) /\ Len(Front(s)) = Len(s) - 1
  <2>1. Head(s) \in S /\ Tail(s) \in Seq(S) /\ Len(Tail(s)) = Len(s) - 1
    BY <1>4, HeadTailProperties
  <2>2. Len(s) >= 1
    BY <1>1, <1>4
  <2>3. Last(s) \in S
    BY <1>1, <2>2 DEF Last
  <2>4. Front(s) \in Seq(S) /\ Len(Front(s)) = Len(s) - 1
    <3> DEFINE n == Len(s) - 1
    <3>1. n \in Nat /\ \A i \in 1..n : s[i] \in S
      BY <1>1, <2>2
    <3> HIDE DEF n
    <3>2. /\ SubSeq(s, 1, n) \in Seq(S)
          /\ Len(SubSeq(s, 1, n)) = IF 1 <= n THEN n - 1 + 1 ELSE 0
      BY <3>1, SubSeqProperties
    <3>3. Len(SubSeq(s, 1, n)) = n
      BY <3>1, <3>2
    <3> QED
      BY <3>2, <3>3 DEF Front, n
  <2> QED
    BY <2>1, <2>3, <2>4
<1>5. Range(s) \subseteq S
  BY <1>1, LenProperties DEF Range
<1> QED
  BY <1>1, <1>2, <1>3, <1>4, <1>5

BufType == [Chan -> Seq(Seq(Byte))]

\* A send on channel c.
LEMMA PushType ==
    ASSUME buf \in BufType, NEW c \in Chan, NEW x \in Seq(Byte),
           buf' = [buf EXCEPT ![c] = Append(@, x)]
    PROVE  /\ buf' \in BufType /\ Len(buf'[c]) = Len(buf[c]) + 1
           /\ \A d \in Chan \ {c} : buf'[d] = buf[d]
<1>1. buf[c] \in Seq(Seq(Byte))
  BY DEF BufType
<1>2. Append(buf[c], x) \in Seq(Seq(Byte)) /\ Len(Append(buf[c], x)) = Len(buf[c]) + 1
  BY <1>1, SeqFacts
<1> QED
  BY <1>2 DEF BufType

\* A receive from channel c, or a send on it that is given up.
LEMMA PopType ==
    ASSUME buf \in BufType, NEW c \in Chan, buf[c] # <<>>,
           buf' \in {[buf EXCEPT ![c] = Tail(@)], [buf EXCEPT ![c] = Front(@)]}
    PROVE  /\ buf' \in BufType /\ Len(buf'[c]) = Len(buf[c]) - 1
           /\ \A d \in Chan \ {c} : buf'[d] = buf[d]
<1>1. buf[c] \in Seq(Seq(Byte))
  BY DEF BufType
<1>2. /\ Tail(buf[c]) \in Seq(Seq(Byte)) /\ Len(Tail(buf[c])) = Len(buf[c]) - 1
      /\ Front(buf[c]) \in Seq(Seq(Byte)) /\ Len(Front(buf[c])) = Len(buf[c]) - 1
  BY <1>1, SeqFacts
<1> QED
  BY <1>2 DEF BufType

\* A receive from channel k and a send on channel c.
LEMMA MoveType ==
    ASSUME buf \in BufType, NEW c \in Chan, NEW k \in Chan, k # c, buf[k] # <<>>,
           NEW x \in Seq(Byte), buf' = [buf EXCEPT ![k] = Tail(@), ![c] = Append(@, x)]
    PROVE  /\ buf' \in BufType
           /\ Len(buf'[c]) = Len(buf[c]) + 1 /\ Len(buf'[k]) = Len(buf[k]) - 1
           /\ \A d \in Chan \ {c, k} : buf'[d] = buf[d]
<1>1. buf[c] \in Seq(Seq(Byte)) /\ buf[k] \in Seq(Seq(Byte))
  BY DEF BufType
<1>2. /\ Append(buf[c], x) \in Seq(Seq(Byte)) /\ Len(Append(buf[c], x)) = Len(buf[c]) + 1
      /\ Tail(buf[k]) \in Seq(Seq(Byte)) /\ Len(Tail(buf[k])) = Len(buf[k]) - 1
  BY <1>1, SeqFacts
<1> QED
  BY <1>2 DEF BufType

\* The bytes of a datagram are numbered within the stream.
LEMMA DatagramType ==
    ASSUME NEW n \in 1..MaxDatagrams
    PROVE  Datagram(n) \in Seq(Byte)
<1>1. DatagramSize \in Nat \ {0} /\ MaxDatagrams \in Nat
  BY BoundsAssumption
<1> DEFINE D == DatagramSize
           a == (n - 1) * D
           r == (MaxDatagrams - n) * D
<1>2. a \in Nat /\ r \in Nat
  BY <1>1
<1>3. MaxDatagrams * D = a + D + r
  BY <1>1
<1> HIDE DEF a, r
<1>4. \A i \in 1..D : a + i \in 1..(MaxDatagrams * D)
  BY <1>1, <1>2, <1>3
<1>5. Datagram(n) \in [1..D -> Byte]
  BY <1>4 DEF Datagram, Byte, a
<1> QED
  BY <1>1, <1>5

\* The types that the proofs need of a call and of the sequences of the link.
LEMMA Fields ==
    ASSUME TypeOK
    PROVE  /\ op.call \in {"none", "add", "update", "remove"}
           /\ op.pc \in {"idle", "interrupt", "wait", "drain", "empty", "await"}
           /\ op.toxic \in Toxics /\ op.pos \in Nat \ {0} /\ op.stub \in Stub /\ op.prev \in Stub
           /\ op.stop \in {"none", "interrupt", "wait", "yes", "no", "taken"}
           /\ op.writing \in BOOLEAN
           /\ Len(chain) \in Nat /\ Len(stubs) \in Nat /\ made \in Nat
           /\ \A i \in 1..Len(stubs) : stubs[i] \in Stub /\ stubs[i] \in Nat \ {0}
           /\ \A i \in 1..Len(chain) : chain[i] \in Toxics
<1>1. op \in OpType
  BY DEF TypeOK
<1>2. stubs \in Seq(Stub) /\ chain \in Seq(Toxics) /\ made \in Nat
  BY DEF TypeOK
<1>3. \A i \in 1..Len(stubs) : stubs[i] \in Stub /\ stubs[i] \in Nat \ {0}
  <2>1. \A i \in 1..Len(stubs) : stubs[i] \in Stub
    BY <1>2, ElementOfSeq
  <2> QED
    BY <2>1, BoundsAssumption DEF Stub
<1> QED
  BY <1>1, <1>2, <1>3 DEF OpType

-----------------------------------------------------------------------------
(* The stubs of a link *)

\* Where the call in progress is in the link.
LEMMA CallPos ==
    ASSUME TypeOK, Structure, CallShape, Cover, op.call # "none"
    PROVE  /\ op.pos \in 1..Wired /\ op.stub = stubs[op.pos]
           /\ op.call = "remove" => op.pos - 1 \in 1..Wired /\ op.prev = stubs[op.pos - 1]
<1>1. Len(stubs) \in Nat /\ Len(chain) \in Nat /\ op.pos \in Nat \ {0} /\ linked
  BY Fields DEF CallShape
<1>2. op.call \in {"add", "update", "remove"}
  BY Fields
<1>3. CASE op.call = "add"
  BY <1>1, <1>3 DEF CallShape, Wired, Structure
<1>4. CASE op.call = "update"
  BY <1>1, <1>4 DEF CallShape, Wired, Cover, Wanted
<1>5. CASE op.call = "remove"
  BY <1>1, <1>5 DEF CallShape, Wired, Cover, Wanted
<1> QED
  BY <1>2, <1>3, <1>4, <1>5

\* The stub that is being added.
New == stubs[Len(stubs)]

\* A live stub has a channel to send on that is open and that it shares with no
\* other.
LEMMA LiveSends ==
    ASSUME TypeOK, Structure, Wiring, NEW k \in Stub, Live(k)
    PROVE  /\ output[k] \in Chan /\ output[k] \notin {1, k} /\ output[k] <= made
           /\ ~closed[output[k]] /\ k <= made
           /\ op.call = "add" => k # New /\ output[k] # New
           /\ \A j \in Stub : Live(j) /\ output[j] = output[k] => j = k
<1>1. /\ Len(stubs) \in Nat \ {0} /\ Wired \in 1..Len(stubs) /\ made \in Nat
      /\ \A i \in 1..Len(stubs) : stubs[i] \in Stub /\ stubs[i] \in Nat \ {0}
      /\ op.call = "add" => Wired = Len(stubs) - 1
  <2>1. Len(stubs) >= 1 /\ Wired >= 1
    BY DEF Structure
  <2> QED
    BY <2>1, Fields DEF Wired
<1>2. PICK i \in 1..Wired : k = stubs[i]
  BY DEF Live
<1>3. output[k] = After(i) /\ ~closed[After(i)] /\ output[k] \in Chan
  BY <1>2 DEF Wiring, Live, TypeOK
<1>4. i \in 1..Len(stubs) /\ (i < Wired => i + 1 \in 1..Len(stubs))
  BY <1>1, <1>2
<1>5. output[k] # 1 /\ output[k] # k /\ output[k] <= made
  BY <1>1, <1>2, <1>3, <1>4 DEF After, Structure
<1>6. op.call = "add" => k # New /\ output[k] # New
  BY <1>1, <1>2, <1>3, <1>4 DEF After, Structure, New
<1>7. ASSUME NEW j \in Stub, Live(j), output[j] = output[k]
      PROVE  j = k
  <2>1. PICK m \in 1..Wired : j = stubs[m]
    BY <1>7 DEF Live
  <2>2. output[j] = After(m)
    BY <1>7, <2>1 DEF Wiring, Live
  <2>3. m \in 1..Len(stubs) /\ (m < Wired => m + 1 \in 1..Len(stubs))
    BY <1>1, <2>1
  <2>4. m = i
    BY <1>1, <1>3, <1>4, <1>7, <2>2, <2>3 DEF After, Structure
  <2> QED
    BY <1>2, <2>1, <2>4
<1> QED
  BY <1>1, <1>2, <1>3, <1>4, <1>5, <1>6, <1>7 DEF Structure

\* A stub that the call has interrupted is live.
LEMMA InterruptedLive ==
    ASSUME TypeOK, Structure, CallShape, Interruption, Cover
    PROVE  /\ op.pc \in {"wait", "drain", "empty"} => Live(op.stub)
           /\ op.stop \in {"wait", "yes"} => Live(op.prev)
           /\ op.writing => Live(op.stub) /\ pc[op.stub] = "exited"
<1>1. op.pc # "idle" => op.call # "none"
  BY DEF CallShape, Idle
<1>2. op.stop # "none" => op.call = "remove"
  BY DEF CallShape
<1> QED
  BY <1>1, <1>2, CallPos DEF Live, Interruption, CallShape

\* Nobody else sends on the channel of a live stub.
LEMMA OwnChannel ==
    ASSUME TypeOK, Sound, Cover, NEW k \in Stub, Live(k), pc[k] \notin Sending,
           ~(op.writing /\ op.stub = k)
    PROVE  Len(buf[output[k]]) <= cap[output[k]]
<1>1. Structure /\ Wiring /\ Runs /\ Queues /\ CallShape /\ Interruption
  BY DEF Sound
<1>2. /\ output[k] \in Chan /\ output[k] # 1
      /\ \A j \in Stub : Live(j) /\ output[j] = output[k] => j = k
  BY <1>1, LiveSends
<1>3. \A j \in Stub : pc[j] \in Sending => Live(j)
  BY <1>1 DEF Runs, Running
<1>4. op.writing => Live(op.stub) /\ op.stub \in Stub
  BY <1>1, InterruptedLive, Fields
<1>5. ~Sender(output[k])
  BY <1>2, <1>3, <1>4 DEF Sender
<1>6. ~Blocked(output[k])
  BY <1>1, <1>2, <1>5 DEF Queues
<1>7. Len(buf[output[k]]) \in Nat /\ cap[output[k]] \in Nat
  BY <1>2 DEF TypeOK
<1> QED
  BY <1>6, <1>7 DEF Blocked

-----------------------------------------------------------------------------
(* Steps that keep the channels safe *)

Channels == Structure /\ Wiring /\ Runs /\ Queues

\* The call keeps the stub it is adding, and a write that is not of stub k.
KeepsCall(k) ==
    /\ op'.call = "add" <=> op.call = "add"
    /\ op.call = "add" => op'.stub = op.stub
    /\ op.writing /\ op.stub # k => op'.writing /\ op'.stub = op.stub

\* Live stub k goes on: it may send on its Output, and nobody else does.
LEMMA FlowStep ==
    ASSUME TypeOK, Sound, Cover, NEW k \in Stub, Live(k), KeepsCall(k),
           UNCHANGED <<stubs, made, output, cap, reader, shut, closed>>,
           pc'[k] # "none", \A j \in Stub \ {k} : pc'[j] = pc[j],
           buf' \in BufType, \A c \in Chan \ {output[k]} : Len(buf'[c]) <= Len(buf[c]),
           \/ Len(buf'[output[k]]) <= cap[output[k]]
           \/ /\ Len(buf'[output[k]]) <= cap[output[k]] + 1
              /\ pc'[k] \in Sending \/ (op'.writing /\ op'.stub = k)
    PROVE  Channels'
<1>1. Structure /\ Wiring /\ Runs /\ Queues /\ CallShape /\ Interruption
  BY DEF Sound
<1>2. Wired' = Wired /\ \A i : After(i)' = After(i)
  BY DEF Wired, After, KeepsCall
<1>3. /\ output[k] \in Chan /\ output[k] # 1 /\ output[k] <= made /\ k <= made
      /\ op.call = "add" => k # New /\ output[k] # New
      /\ \A j \in Stub : Live(j) /\ output[j] = output[k] => j = k
  BY <1>1, LiveSends
<1>4. \A c \in Chan : /\ buf[c] \in Seq(Seq(Byte)) /\ Len(buf[c]) \in Nat /\ cap[c] \in Nat
                      /\ buf'[c] \in Seq(Seq(Byte)) /\ Len(buf'[c]) \in Nat
                      /\ Len(buf'[c]) = 0 => buf'[c] = <<>>
  BY SeqFacts DEF TypeOK, BufType
<1>5. ASSUME NEW j \in Stub, Fresh(j), j # k, j # output[k]
      PROVE  Fresh(j)'
  <2>1. j \in Chan /\ Len(buf[j]) = 0
    BY <1>5, BoundsAssumption DEF Stub, Chan, Fresh
  <2>2. Len(buf'[j]) <= Len(buf[j])
    BY <1>5, <2>1
  <2>3. buf'[j] = <<>>
    BY <1>4, <2>1, <2>2
  <2> QED
    BY <1>5, <2>3 DEF Fresh
<1>6. Structure'
  <2>1. \A j \in Stub : j > made => Fresh(j)'
    <3> SUFFICES ASSUME NEW j \in Stub, j > made
                 PROVE  Fresh(j)'
      OBVIOUS
    <3>1. j # k /\ j # output[k]
      BY <1>3, Fields DEF Stub, Chan
    <3> QED
      BY <1>1, <1>5, <3>1 DEF Structure
  <2>2. op.call = "add" => Fresh(New)'
    <3>1. Len(stubs) >= 1 /\ New \in Stub
      BY <1>1, Fields DEF Structure, New
    <3>2. op.call = "add" => Fresh(New)
      BY <1>1 DEF Structure, New
    <3> QED
      BY <1>3, <1>5, <3>1, <3>2 DEF New
  <2> QED
    BY <1>1, <1>2, <2>1, <2>2 DEF Structure, New, KeepsCall
<1>7. Wiring'
  BY <1>1, <1>2 DEF Wiring
<1>8. \A j : Live(j)' <=> Live(j)
  BY <1>2 DEF Live
<1>9. Runs'
  BY <1>1, <1>8 DEF Runs
<1>10. ASSUME NEW c \in Chan
       PROVE  Len(buf'[c]) <= cap'[c] + 1 /\ (Blocked(c)' => Sender(c)')
  <2>1. CASE c = output[k]
    <3>1. Len(buf'[c]) <= cap'[c] + 1
      BY <1>4, <2>1
    <3>2. CASE Len(buf'[c]) <= cap[c]
      BY <1>4, <3>1, <3>2 DEF Blocked
    <3>3. CASE pc'[k] \in Sending \/ (op'.writing /\ op'.stub = k)
      BY <2>1, <3>1, <3>3 DEF Sender
    <3> QED
      BY <2>1, <3>2, <3>3
  <2>2. CASE c # output[k]
    <3>1. Len(buf'[c]) <= Len(buf[c])
      BY <2>2
    <3>2. Len(buf'[c]) <= cap'[c] + 1 /\ (Blocked(c)' => Blocked(c))
      BY <1>1, <1>4, <3>1 DEF Queues, Blocked
    <3>3. Sender(c) => Sender(c)'
      BY <2>2 DEF Sender, KeepsCall
    <3> QED
      BY <1>1, <3>2, <3>3 DEF Queues
  <2> QED
    BY <2>1, <2>2
<1>11. Queues'
  BY <1>10 DEF Queues
<1> QED
  BY <1>6, <1>7, <1>9, <1>11 DEF Channels

\* Live stub k, which is not sending, closes its Output: nobody else sends on
\* that channel or has closed it.
LEMMA CloseStep ==
    ASSUME TypeOK, Sound, Cover, Alive, NEW k \in Stub, Live(k), KeepsCall(k),
           pc[k] \notin Sending, ~(op.writing /\ op.stub = k), Close(k, output[k]),
           UNCHANGED <<stubs, made, output, cap, reader, buf>>,
           pc'[k] = "exited", \A j \in Stub \ {k} : pc'[j] = pc[j]
    PROVE  /\ Channels' /\ panic' = panic
           /\ shut' \in [Stub -> BOOLEAN] /\ closed' \in [Chan -> BOOLEAN]
           /\ shut'[k] /\ \A j \in Stub \ {k} : shut'[j] = shut[j]
<1>1. Structure /\ Wiring /\ Runs /\ Queues /\ CallShape /\ Interruption
  BY DEF Sound
<1>2. Wired' = Wired /\ \A i : After(i)' = After(i)
  BY DEF Wired, After, KeepsCall
<1>3. /\ output[k] \in Chan /\ output[k] # 1 /\ output[k] <= made /\ k <= made
      /\ ~closed[output[k]]
      /\ op.call = "add" => k # New /\ output[k] # New
      /\ \A j \in Stub : Live(j) /\ output[j] = output[k] => j = k
  BY <1>1, LiveSends
<1>4. ~Blocked(output[k])
  BY <1>3, OwnChannel DEF Blocked, TypeOK
<1>5. /\ shut' = [shut EXCEPT ![k] = TRUE] /\ closed' = [closed EXCEPT ![output[k]] = TRUE]
      /\ panic' = panic
  BY <1>3, <1>4 DEF Close, Live
<1>6. /\ shut' \in [Stub -> BOOLEAN] /\ closed' \in [Chan -> BOOLEAN]
      /\ shut'[k] /\ \A j \in Stub \ {k} : shut'[j] = shut[j]
      /\ \A c \in Chan \ {output[k]} : closed'[c] = closed[c]
  BY <1>3, <1>5 DEF TypeOK
<1>7. ASSUME NEW j \in Stub, Fresh(j), j # k, j # output[k]
      PROVE  Fresh(j)'
  <2>1. j \in Chan
    BY BoundsAssumption DEF Stub, Chan
  <2> QED
    BY <1>6, <1>7, <2>1 DEF Fresh
<1>8. Structure'
  <2>1. \A j \in Stub : j > made => Fresh(j)'
    <3> SUFFICES ASSUME NEW j \in Stub, j > made
                 PROVE  Fresh(j)'
      OBVIOUS
    <3>1. j # k /\ j # output[k]
      BY <1>3, Fields DEF Stub, Chan
    <3> QED
      BY <1>1, <1>7, <3>1 DEF Structure
  <2>2. op.call = "add" => Fresh(New)'
    <3>1. Len(stubs) >= 1 /\ New \in Stub
      BY <1>1, Fields DEF Structure, New
    <3>2. op.call = "add" => Fresh(New)
      BY <1>1 DEF Structure, New
    <3> QED
      BY <1>3, <1>7, <3>1, <3>2 DEF New
  <2> QED
    BY <1>1, <1>2, <2>1, <2>2 DEF Structure, New, KeepsCall
<1>9. Wiring'
  <2>1. closed'[1] <=> reader' = "done"
    BY <1>1, <1>3, <1>6, BoundsAssumption DEF Wiring, Chan
  <2>2. ASSUME NEW i \in 1..Wired, ~shut'[stubs[i]]
        PROVE  output[stubs[i]] = After(i) /\ ~closed'[After(i)]
    <3>1. stubs[i] \in Stub /\ Wired <= Len(stubs)
      BY Fields DEF Wired
    <3>2. stubs[i] # k /\ ~shut[stubs[i]]
      BY <1>6, <2>2, <3>1
    <3>3. Live(stubs[i])
      BY <3>2 DEF Live
    <3>4. output[stubs[i]] = After(i) /\ ~closed[After(i)] /\ output[stubs[i]] \in Chan
      BY <1>1, <3>1, <3>2 DEF Wiring, TypeOK
    <3>5. After(i) # output[k]
      BY <1>3, <3>1, <3>2, <3>3, <3>4
    <3> QED
      BY <1>6, <3>4, <3>5
  <2> QED
    BY <1>2, <2>1, <2>2 DEF Wiring
<1>10. ASSUME NEW j \in Stub, Live(j), j # k
       PROVE  Live(j)'
  BY <1>2, <1>6, <1>10 DEF Live
<1>11. Runs'
  BY <1>1, <1>10 DEF Runs, Running, Sending
<1>12. ASSUME NEW c \in Chan, Sender(c)
       PROVE  Sender(c)'
  BY <1>12 DEF Sender, KeepsCall
<1>13. Queues'
  BY <1>1, <1>12 DEF Queues, Blocked
<1> QED
  BY <1>5, <1>6, <1>8, <1>9, <1>11, <1>13 DEF Channels

\* Nothing but the call goes on.
LEMMA CallStep ==
    ASSUME Sound, NEW k, KeepsCall(k), op.writing => op'.writing /\ op'.stub = op.stub,
           UNCHANGED <<stubs, made, output, cap, reader, buf, pc, shut, closed>>
    PROVE  Channels'
<1>1. Structure /\ Wiring /\ Runs /\ Queues /\ CallShape /\ Interruption
  BY DEF Sound
<1>2. Wired' = Wired /\ \A i : After(i)' = After(i)
  BY DEF Wired, After, KeepsCall
<1>3. Structure' /\ Wiring' /\ Runs'
  BY <1>1, <1>2 DEF Structure, Wiring, Runs, Live, Fresh, KeepsCall
<1>4. Queues'
  BY <1>1 DEF Queues, Blocked, Sender
<1> QED
  BY <1>3, <1>4 DEF Channels

-----------------------------------------------------------------------------
(* The goroutines of the stubs *)

Holding == {"latency", "bandwidth", "slicer"}

\* What the Pipe of stub k leaves alone.
Frame(k) ==
    /\ UNCHANGED <<chain, linked, made, nops, stubs, wrapper, mode, output, cap,
                   reader, sent, writer, wbuf, delivered, panic>>
    /\ \A j \in Stub \ {k} : pc'[j] = pc[j] /\ held'[j] = held[j] /\ shut'[j] = shut[j]

\* What the Pipe of stub k makes of its own state.
Advances(k) ==
    /\ pc[k] \in Running /\ pc'[k] \in Running \cup {"exited"}
    /\ pc[k] \in {"flush", "wflush"} => pc'[k] = "exited"
    /\ pc[k] \notin {"recv", "sleep"} => shut'[k] = shut[k]
    /\ pc'[k] \notin {"delay", "send"} => held'[k] = <<>>
    /\ pc'[k] = "delay" \/ held'[k] # <<>> => mode[k] \in Holding
    /\ pc' \in [Stub -> Pcs] /\ held' \in [Stub -> Seq(Byte)] /\ dropped' \subseteq Byte

\* What is known of a stub that runs.
LEMMA RunningStub ==
    ASSUME TypeOK, Sound, Cover, NEW k \in Stub, pc[k] \in Running
    PROVE  /\ Live(k) /\ ~shut[k] /\ ~(op.writing /\ op.stub = k)
           /\ k \in Chan /\ output[k] \in Chan /\ output[k] # k /\ ~closed[output[k]]
           /\ Len(buf[k]) \in Nat /\ Len(buf[output[k]]) \in Nat
           /\ cap[output[k]] \in Nat /\ Len(buf[output[k]]) <= cap[output[k]] + 1
           /\ pc[k] \notin Sending => Len(buf[output[k]]) <= cap[output[k]]
<1>1. Structure /\ Wiring /\ Runs /\ Queues /\ CallShape /\ Interruption
  BY DEF Sound
<1>2. Live(k) /\ ~shut[k]
  BY <1>1 DEF Runs, Live
<1>3. ~(op.writing /\ op.stub = k)
  BY <1>1, InterruptedLive DEF Running, Sending
<1>4. k \in Chan
  BY BoundsAssumption DEF Stub, Chan
<1>5. output[k] \in Chan /\ output[k] # k /\ ~closed[output[k]]
  BY <1>1, <1>2, LiveSends
<1>6. Len(buf[k]) \in Nat /\ Len(buf[output[k]]) \in Nat /\ cap[output[k]] \in Nat
  BY <1>4, <1>5 DEF TypeOK
<1>7. pc[k] \notin Sending => Len(buf[output[k]]) <= cap[output[k]]
  BY <1>2, <1>3, OwnChannel
<1> QED
  BY <1>1, <1>2, <1>3, <1>4, <1>5, <1>6, <1>7 DEF Queues

\* A stub that goes on keeps the types, what stubs hold and what they run.
LEMMA AdvanceRest ==
    ASSUME TypeOK, Sound, Cover, NEW k \in Stub, Frame(k), Advances(k),
           op' \in OpType, op'.call = op.call, op'.pos = op.pos, op'.toxic = op.toxic,
           buf' \in BufType, closed' \in [Chan -> BOOLEAN], shut' \in [Stub -> BOOLEAN]
    PROVE  TypeOK' /\ Holds' /\ Cover'
<1>1. Holds /\ ~shut[k]
  BY RunningStub DEF Sound, Advances
<1>2. TypeOK'
  BY DEF TypeOK, BufType, Frame, Advances, Pcs
<1>3. Holds'
  BY <1>1 DEF Holds, Holding, Frame, Advances
<1>4. \A i \in 1..Len(stubs) : ~shut'[stubs[i]] => ~shut[stubs[i]]
  <2> SUFFICES ASSUME NEW i \in 1..Len(stubs), ~shut'[stubs[i]]
               PROVE  ~shut[stubs[i]]
    OBVIOUS
  <2>1. stubs[i] \in Stub
    BY Fields
  <2> QED
    BY <1>1, <2>1 DEF Frame
<1>5. Wired' = Wired /\ Wanted' = Wanted /\ \A i : Assigned(i)' = Assigned(i)
  BY DEF Wired, Wanted, Assigned, Frame
<1>6. Cover'
  BY <1>4, <1>5 DEF Cover, Frame, Modes
<1> QED
  BY <1>2, <1>3, <1>6

\* A stub that goes on by itself keeps the rest of the invariant.
LEMMA Advance ==
    ASSUME TypeOK, Sound, Cover, Alive, NEW k \in Stub, Frame(k), Advances(k), Channels',
           UNCHANGED op, buf' \in BufType, closed' \in [Chan -> BOOLEAN],
           shut' \in [Stub -> BOOLEAN]
    PROVE  TypeOK' /\ Sound' /\ Cover' /\ panic' = "none"
<1>1. CallShape /\ Interruption /\ ~shut[k]
  BY RunningStub DEF Sound, Advances
<1>2. TypeOK' /\ Holds' /\ Cover'
  BY AdvanceRest DEF TypeOK
<1>3. CallShape'
  BY <1>1 DEF CallShape, Frame
<1>4. ASSUME NEW j \in Stub
      PROVE  /\ ~shut[j] /\ pc[j] \in {"flush", "wflush", "exited"} =>
                  ~shut'[j] /\ pc'[j] \in {"flush", "wflush", "exited"}
             /\ ~shut[j] /\ pc[j] = "exited" => ~shut'[j] /\ pc'[j] = "exited"
             /\ shut[j] => shut'[j]
  BY <1>1 DEF Frame, Advances, Running, Sending
<1>5. Interruption'
  <2>1. op.stub \in Stub /\ op.prev \in Stub
    BY Fields
  <2> QED
    BY <1>1, <1>4, <2>1 DEF Interruption
<1> QED
  BY <1>2, <1>3, <1>5 DEF Sound, Channels, Frame, Alive

\* A stub that goes on without closing.
LEMMA Flows ==
    ASSUME TypeOK, Sound, Cover, Alive, NEW k \in Stub, Frame(k), Advances(k),
           UNCHANGED <<op, shut, closed>>, buf' \in BufType,
           \A c \in Chan \ {output[k]} : Len(buf'[c]) <= Len(buf[c]),
           \/ Len(buf'[output[k]]) <= cap[output[k]]
           \/ Len(buf'[output[k]]) <= cap[output[k]] + 1 /\ pc'[k] \in Sending
    PROVE  TypeOK' /\ Sound' /\ Cover' /\ panic' = "none"
<1>1. Live(k) /\ KeepsCall(k)
  BY RunningStub DEF Advances, KeepsCall
<1>2. UNCHANGED <<stubs, made, output, cap, reader, shut, closed>>
  BY DEF Frame
<1>3. pc'[k] # "none" /\ \A j \in Stub \ {k} : pc'[j] = pc[j]
  BY DEF Frame, Advances, Running, Sending
<1>4. Channels'
  <2>1. \/ Len(buf'[output[k]]) <= cap[output[k]]
        \/ /\ Len(buf'[output[k]]) <= cap[output[k]] + 1
           /\ pc'[k] \in Sending \/ (op'.writing /\ op'.stub = k)
    OBVIOUS
  <2> QED
    BY <1>1, <1>2, <1>3, <2>1, FlowStep
<1>5. closed' \in [Chan -> BOOLEAN] /\ shut' \in [Stub -> BOOLEAN]
  BY DEF TypeOK
<1> QED
  BY <1>4, <1>5, Advance

\* A stub that closes.
LEMMA Closes ==
    ASSUME TypeOK, Sound, Cover, Alive, NEW k \in Stub, pc[k] \in {"recv", "sleep"},
           Close(k, output[k]), pc' = [pc EXCEPT ![k] = "exited"],
           Quiet, UNCHANGED <<held, buf, dropped>>
    PROVE  TypeOK' /\ Sound' /\ Cover' /\ panic' = "none"
<1>1. pc[k] \in Running /\ pc[k] \notin Sending
  BY DEF Running, Sending
<1>2. Live(k) /\ ~(op.writing /\ op.stub = k)
  BY <1>1, RunningStub
<1>3. KeepsCall(k) /\ UNCHANGED <<stubs, made, output, cap, reader, buf, op>>
  BY DEF Quiet, chainVars, KeepsCall
<1>4. pc' \in [Stub -> Pcs] /\ pc'[k] = "exited" /\ \A j \in Stub \ {k} : pc'[j] = pc[j]
  BY DEF TypeOK, Pcs
<1>5. /\ Channels' /\ panic' = panic
      /\ shut' \in [Stub -> BOOLEAN] /\ closed' \in [Chan -> BOOLEAN]
      /\ shut'[k] /\ \A j \in Stub \ {k} : shut'[j] = shut[j]
  BY <1>1, <1>2, <1>3, <1>4, CloseStep
<1>6. Frame(k)
  BY <1>4, <1>5 DEF Frame, Quiet, chainVars
<1>7. held[k] = <<>>
  BY DEF Sound, Holds
<1>8. Advances(k)
  BY <1>1, <1>4, <1>7 DEF Advances, TypeOK
<1>9. buf' \in BufType
  BY <1>3 DEF TypeOK, BufType
<1> QED
  BY <1>3, <1>5, <1>6, <1>8, <1>9, Advance

\* Stub k receives, and sends the first n bytes of the chunk.
LEMMA Receives ==
    ASSUME TypeOK, Sound, Cover, NEW k \in Stub, pc[k] = "recv", buf[k] # <<>>,
           NEW x \in Seq(Byte), Move(k, output[k], x)
    PROVE  /\ buf' \in BufType /\ panic' = panic
           /\ \A c \in Chan \ {output[k]} : Len(buf'[c]) <= Len(buf[c])
           /\ Len(buf'[output[k]]) <= cap[output[k]] + 1
<1>1. pc[k] \in Running /\ pc[k] \notin Sending
  BY DEF Running, Sending
<1>2. /\ k \in Chan /\ output[k] \in Chan /\ output[k] # k /\ ~closed[output[k]]
      /\ Len(buf[k]) \in Nat /\ Len(buf[output[k]]) \in Nat /\ cap[output[k]] \in Nat
      /\ Len(buf[output[k]]) <= cap[output[k]]
  BY <1>1, RunningStub
<1>3. buf \in BufType
  BY DEF TypeOK, BufType
<1>4. /\ buf' \in BufType
      /\ Len(buf'[output[k]]) = Len(buf[output[k]]) + 1 /\ Len(buf'[k]) = Len(buf[k]) - 1
      /\ \A d \in Chan \ {output[k], k} : buf'[d] = buf[d]
  BY <1>2, <1>3, MoveType DEF Move
<1>5. \A d \in Chan : Len(buf[d]) \in Nat
  BY DEF TypeOK
<1>6. ASSUME NEW c \in Chan \ {output[k]}
      PROVE  Len(buf'[c]) <= Len(buf[c])
  BY <1>2, <1>4, <1>5
<1>7. Len(buf'[output[k]]) <= cap[output[k]] + 1
  BY <1>2, <1>4
<1>8. panic' = panic
  BY <1>2 DEF Move
<1> QED
  BY <1>4, <1>6, <1>7, <1>8

\* Stub k starts to send x.
LEMMA Pushes ==
    ASSUME TypeOK, Sound, Cover, NEW k \in Stub, pc[k] \in {"recv", "delay"},
           NEW x \in Seq(Byte), Push(output[k], x)
    PROVE  /\ buf' \in BufType /\ panic' = panic
           /\ \A c \in Chan \ {output[k]} : Len(buf'[c]) <= Len(buf[c])
           /\ Len(buf'[output[k]]) <= cap[output[k]] + 1
<1>1. pc[k] \in Running /\ pc[k] \notin Sending
  BY DEF Running, Sending
<1>2. /\ output[k] \in Chan /\ ~closed[output[k]]
      /\ Len(buf[output[k]]) \in Nat /\ cap[output[k]] \in Nat
      /\ Len(buf[output[k]]) <= cap[output[k]]
  BY <1>1, RunningStub
<1>3. buf \in BufType
  BY DEF TypeOK, BufType
<1>4. /\ buf' \in BufType /\ Len(buf'[output[k]]) = Len(buf[output[k]]) + 1
      /\ \A d \in Chan \ {output[k]} : buf'[d] = buf[d]
  BY <1>2, <1>3, PushType DEF Push
<1>5. \A d \in Chan : Len(buf[d]) \in Nat
  BY DEF TypeOK
<1> QED
  BY <1>2, <1>4, <1>5 DEF Push

\* The chunk that stub k receives, and the pieces it may be cut into.
LEMMA Pieces ==
    ASSUME TypeOK, NEW k \in Stub
    PROVE  /\ buf[k] # <<>> => Head(buf[k]) \in Seq(Byte)
           /\ \A s \in Seq(Byte) :
                /\ SliceSizes(s) \subseteq 0..Len(s)
                /\ \A n \in 0..Len(s) : SubSeq(s, 1, n) \in Seq(Byte) /\ Rest(s, n) \in Seq(Byte)
<1>1. k \in Chan
  BY BoundsAssumption DEF Stub, Chan
<1>2. buf[k] # <<>> => Head(buf[k]) \in Seq(Byte)
  <2>1. buf[k] \in Seq(Seq(Byte))
    BY <1>1 DEF TypeOK
  <2> QED
    BY <2>1, SeqFacts
<1>3. ASSUME NEW s \in Seq(Byte)
      PROVE  /\ SliceSizes(s) \subseteq 0..Len(s)
             /\ \A n \in 0..Len(s) : SubSeq(s, 1, n) \in Seq(Byte) /\ Rest(s, n) \in Seq(Byte)
  <2>1. Len(s) \in Nat /\ (s # <<>> => Len(s) > 0)
    BY SeqFacts
  <2>2. \A m \in Nat, n \in 0..Len(s) : SubSeq(s, m + 1, n) \in Seq(Byte)
    BY SeqFacts
  <2>3. ASSUME NEW n \in 0..Len(s)
        PROVE  SubSeq(s, 1, n) \in Seq(Byte) /\ Rest(s, n) \in Seq(Byte)
    <3>1. SubSeq(s, 0 + 1, n) \in Seq(Byte)
      BY <2>2
    <3>2. SubSeq(s, n + 1, Len(s)) \in Seq(Byte)
      BY <2>1, <2>2
    <3> QED
      BY <3>1, <3>2 DEF Rest
  <2> QED
    BY <2>1, <2>3 DEF SliceSizes
<1> QED
  BY <1>2, <1>3

\* Every step of a stub keeps the invariant.
LEMMA StubKeeps ==
    ASSUME TypeOK, Sound, Cover, Alive, NEW k \in Stub, StubStep(k)
    PROVE  TypeOK' /\ Sound' /\ Cover' /\ panic' = "none"
<1>1. /\ pc \in [Stub -> Pcs] /\ held \in [Stub -> Seq(Byte)] /\ buf \in BufType
      /\ dropped \subseteq Byte /\ mode \in [Stub -> Kinds] /\ k \in Chan
  <2>1. k \in Chan
    BY BoundsAssumption DEF Stub, Chan
  <2> QED
    BY <2>1 DEF TypeOK, Pcs, BufType
<1>2. /\ pc[k] \notin {"delay", "send"} => held[k] = <<>>
      /\ pc[k] = "delay" \/ held[k] # <<>> => mode[k] \in Holding
  BY DEF Sound, Holds, Holding
<1>3. ASSUME Quiet, NEW q \in Pcs, NEW h \in Seq(Byte), pc' = [pc EXCEPT ![k] = q],
             held' = [held EXCEPT ![k] = h], UNCHANGED shut, panic' = panic
      PROVE  /\ Frame(k) /\ UNCHANGED op
             /\ pc'[k] = q /\ held'[k] = h
             /\ pc' \in [Stub -> Pcs] /\ held' \in [Stub -> Seq(Byte)]
  BY <1>1, <1>3 DEF Frame, Quiet, chainVars
<1>4. UNCHANGED held => held' = [held EXCEPT ![k] = held[k]]
  BY <1>1
<1>5. held[k] \in Seq(Byte) /\ <<>> \in Seq(Byte)
  BY <1>1, EmptySeq
<1>6. CASE NoopReceive(k)
  <2>1. Head(buf[k]) \in Seq(Byte)
    BY <1>6, Pieces DEF NoopReceive
  <2>2. /\ buf' \in BufType /\ panic' = panic
        /\ \A c \in Chan \ {output[k]} : Len(buf'[c]) <= Len(buf[c])
        /\ Len(buf'[output[k]]) <= cap[output[k]] + 1
    BY <1>6, <2>1, Receives DEF NoopReceive
  <2>3. Frame(k) /\ UNCHANGED op /\ pc'[k] = "send" /\ held'[k] = held[k]
        /\ pc' \in [Stub -> Pcs] /\ held' \in [Stub -> Seq(Byte)]
    BY <1>3, <1>4, <1>5, <1>6, <2>2 DEF NoopReceive, Pcs
  <2>4. Advances(k)
    BY <1>1, <1>2, <1>6, <2>3 DEF Advances, NoopReceive, Running, Sending
  <2>5. UNCHANGED <<op, shut, closed>> /\ pc'[k] \in Sending
    BY <1>6, <2>3 DEF NoopReceive, Sending
  <2> QED
    BY <2>2, <2>3, <2>4, <2>5, Flows
<1>7. CASE HoldReceive(k)
  <2>1. Head(buf[k]) \in Seq(Byte)
    BY <1>7, Pieces DEF HoldReceive
  <2>2. Frame(k) /\ UNCHANGED op /\ pc'[k] = "delay" /\ held'[k] = Head(buf[k])
        /\ pc' \in [Stub -> Pcs] /\ held' \in [Stub -> Seq(Byte)]
    BY <1>3, <1>7, <2>1 DEF HoldReceive, Pcs
  <2>3. /\ buf' \in BufType /\ Len(buf'[k]) = Len(buf[k]) - 1
        /\ \A d \in Chan \ {k} : buf'[d] = buf[d]
    BY <1>1, <1>7, PopType DEF HoldReceive
  <2>4. pc[k] \in Running /\ pc[k] \notin Sending
    BY <1>7 DEF HoldReceive, Running, Sending
  <2>5. /\ output[k] \in Chan /\ output[k] # k /\ Len(buf[k]) \in Nat
        /\ Len(buf[output[k]]) <= cap[output[k]]
    BY <2>4, RunningStub
  <2>6. Len(buf'[output[k]]) <= cap[output[k]]
    BY <2>3, <2>5
  <2>7. \A c \in Chan \ {output[k]} : Len(buf'[c]) <= Len(buf[c])
    <3>1. \A c \in Chan : Len(buf[c]) \in Nat
      BY DEF TypeOK
    <3>2. Len(buf'[k]) <= Len(buf[k])
      BY <2>3, <2>5
    <3>3. \A c \in Chan \ {k} : Len(buf'[c]) <= Len(buf[c])
      BY <2>3, <3>1
    <3> QED
      BY <3>2, <3>3
  <2>8. Advances(k)
    BY <1>1, <1>7, <2>2, <2>4 DEF Advances, HoldReceive, Holding, Running
  <2>9. UNCHANGED <<op, shut, closed>>
    BY <1>7, <2>2 DEF HoldReceive
  <2> QED
    BY <2>2, <2>3, <2>6, <2>7, <2>8, <2>9, Flows
<1>8. CASE SlicerReceive(k)
  <2>1. PICK n \in SliceSizes(Head(buf[k])) :
           /\ Move(k, output[k], SubSeq(Head(buf[k]), 1, n))
           /\ held' = [held EXCEPT ![k] = Rest(Head(buf[k]), n)]
    BY <1>8 DEF SlicerReceive
  <2>2. Head(buf[k]) \in Seq(Byte)
    BY <1>8, Pieces DEF SlicerReceive
  <2>3. SubSeq(Head(buf[k]), 1, n) \in Seq(Byte) /\ Rest(Head(buf[k]), n) \in Seq(Byte)
    BY <2>1, <2>2, Pieces
  <2>4. /\ buf' \in BufType /\ panic' = panic
        /\ \A c \in Chan \ {output[k]} : Len(buf'[c]) <= Len(buf[c])
        /\ Len(buf'[output[k]]) <= cap[output[k]] + 1
    BY <1>8, <2>1, <2>3, Receives DEF SlicerReceive
  <2>5. Frame(k) /\ UNCHANGED op /\ pc'[k] = "send"
        /\ pc' \in [Stub -> Pcs] /\ held' \in [Stub -> Seq(Byte)]
    BY <1>3, <1>8, <2>1, <2>3, <2>4 DEF SlicerReceive, Pcs
  <2>6. Advances(k)
    BY <1>1, <1>8, <2>5 DEF Advances, SlicerReceive, Holding, Running, Sending
  <2>7. UNCHANGED <<op, shut, closed>> /\ pc'[k] \in Sending
    BY <1>8, <2>5 DEF SlicerReceive, Sending
  <2> QED
    BY <2>4, <2>5, <2>6, <2>7, Flows
<1>9. CASE ResetReceive(k)
  <2>1. Frame(k) /\ UNCHANGED op /\ pc'[k] = "sleep" /\ held'[k] = held[k]
        /\ pc' \in [Stub -> Pcs] /\ held' \in [Stub -> Seq(Byte)]
    BY <1>3, <1>4, <1>5, <1>9 DEF ResetReceive, Pcs
  <2>2. pc[k] \in Running /\ pc[k] \notin Sending
    BY <1>9 DEF ResetReceive, Running, Sending
  <2>3. /\ output[k] \in Chan /\ output[k] # k /\ Len(buf[k]) \in Nat
        /\ Len(buf[output[k]]) <= cap[output[k]]
    BY <2>2, RunningStub
  <2>4. \A c \in Chan : Len(buf[c]) \in Nat
    BY DEF TypeOK
  <2>5. /\ buf' \in BufType /\ dropped' \subseteq Byte
        /\ Len(buf'[k]) <= Len(buf[k]) /\ \A d \in Chan \ {k} : buf'[d] = buf[d]
    <3>1. CASE buf[k] # <<>> /\ buf' = [buf EXCEPT ![k] = Tail(@)]
               /\ dropped' = dropped \cup Range(Head(buf[k]))
      <4>1. Head(buf[k]) \in Seq(Byte)
        BY <3>1, Pieces
      <4>2. Range(Head(buf[k])) \subseteq Byte
        BY <4>1, SeqFacts
      <4>3. /\ buf' \in BufType /\ Len(buf'[k]) = Len(buf[k]) - 1
            /\ \A d \in Chan \ {k} : buf'[d] = buf[d]
        BY <1>1, <3>1, PopType
      <4> QED
        BY <1>1, <2>3, <3>1, <4>2, <4>3
    <3>2. CASE UNCHANGED <<buf, dropped>>
      BY <1>1, <2>3, <3>2
    <3> QED
      BY <1>9, <3>1, <3>2 DEF ResetReceive
  <2>6. \A c \in Chan \ {output[k]} : Len(buf'[c]) <= Len(buf[c])
    <3>1. \A c \in Chan \ {k} : Len(buf'[c]) <= Len(buf[c])
      BY <2>4, <2>5
    <3> QED
      BY <2>5, <3>1
  <2>7. Len(buf'[output[k]]) <= cap[output[k]]
    BY <2>3, <2>5
  <2>8. Advances(k)
    BY <1>2, <1>9, <2>1, <2>2, <2>5 DEF Advances, ResetReceive, Running
  <2>9. UNCHANGED <<op, shut, closed>>
    BY <1>9, <2>1 DEF ResetReceive
  <2> QED
    BY <2>1, <2>5, <2>6, <2>7, <2>8, <2>9, Flows
<1>10. CASE ResetFires(k) \/ InputEnds(k)
  <2>1. pc[k] \in {"recv", "sleep"} /\ Close(k, output[k]) /\ pc' = [pc EXCEPT ![k] = "exited"]
        /\ Quiet /\ UNCHANGED <<held, buf, dropped>>
    BY <1>10 DEF ResetFires, InputEnds
  <2> QED
    BY <2>1, Closes
<1>11. CASE Timer(k)
  <2>1. PICK n \in PieceSizes(k) :
           /\ Push(output[k], SubSeq(held[k], 1, n))
           /\ held' = [held EXCEPT ![k] = Rest(@, n)]
    BY <1>11 DEF Timer
  <2>2. mode[k] \in Holding
    BY <1>2, <1>11 DEF Timer
  <2>3. n \in 0..Len(held[k])
    <3>1. Len(held[k]) \in Nat /\ SliceSizes(held[k]) \subseteq 0..Len(held[k])
      BY <1>5, Pieces, SeqFacts
    <3> QED
      BY <2>1, <2>2, <3>1, BoundsAssumption DEF PieceSizes, Holding
  <2>4. SubSeq(held[k], 1, n) \in Seq(Byte) /\ Rest(held[k], n) \in Seq(Byte)
    BY <1>5, <2>3, Pieces
  <2>5. /\ buf' \in BufType /\ panic' = panic
        /\ \A c \in Chan \ {output[k]} : Len(buf'[c]) <= Len(buf[c])
        /\ Len(buf'[output[k]]) <= cap[output[k]] + 1
    BY <1>11, <2>1, <2>4, Pushes DEF Timer
  <2>6. held' = [held EXCEPT ![k] = Rest(held[k], n)]
    BY <1>1, <2>1
  <2>7. Frame(k) /\ UNCHANGED op /\ pc'[k] = "send"
        /\ pc' \in [Stub -> Pcs] /\ held' \in [Stub -> Seq(Byte)]
    BY <1>3, <1>11, <2>4, <2>5, <2>6 DEF Timer, Pcs
  <2>8. Advances(k)
    BY <1>1, <1>11, <2>2, <2>7 DEF Advances, Timer, Running, Sending
  <2>9. UNCHANGED <<op, shut, closed>> /\ pc'[k] \in Sending
    BY <1>11, <2>7 DEF Timer, Sending
  <2> QED
    BY <2>5, <2>7, <2>8, <2>9, Flows
<1>12. CASE SlicerNext(k) \/ Sent(k)
  <2>1. pc[k] \in {"delay"} \cup Sending /\ Quiet /\ UNCHANGED <<held, shut, buf, closed, dropped, panic>>
    BY <1>12 DEF SlicerNext, Sent, Sending
  <2>2. PICK q \in Pcs : /\ pc' = [pc EXCEPT ![k] = q]
                         /\ q \in {"exited", "delay", "recv"}
                         /\ pc[k] \in {"flush", "wflush"} => q = "exited"
                         /\ q # "delay" => held[k] = <<>>
                         /\ q = "delay" => mode[k] \in Holding
    <3>1. CASE SlicerNext(k)
      BY <3>1 DEF SlicerNext, Pcs
    <3>2. CASE Sent(k)
      <4>1. CASE pc[k] # "send"
        <5>1. pc[k] \in {"flush", "wflush"} /\ pc' = [pc EXCEPT ![k] = "exited"]
          BY <3>2, <4>1 DEF Sent
        <5>2. held[k] = <<>>
          BY <1>2, <5>1
        <5> QED
          BY <5>1, <5>2 DEF Pcs
      <4>2. CASE pc[k] = "send" /\ (mode[k] = "slicer" \/ held[k] # <<>>)
        BY <1>2, <3>2, <4>2 DEF Sent, Pcs, Holding
      <4>3. CASE pc[k] = "send" /\ ~(mode[k] = "slicer" \/ held[k] # <<>>)
        BY <1>2, <3>2, <4>3 DEF Sent, Pcs
      <4> QED
        BY <4>1, <4>2, <4>3
    <3> QED
      BY <1>12, <3>1, <3>2
  <2>3. Frame(k) /\ UNCHANGED op /\ pc'[k] = q /\ held'[k] = held[k]
        /\ pc' \in [Stub -> Pcs] /\ held' \in [Stub -> Seq(Byte)]
    BY <1>3, <1>4, <1>5, <2>1, <2>2
  <2>4. pc[k] \in Running
    BY <2>1 DEF Running
  <2>5. Len(buf'[output[k]]) <= cap[output[k]]
    <3>1. Len(buf[output[k]]) \in Nat /\ cap[output[k]] \in Nat
      BY <2>4, RunningStub
    <3>2. CASE SlicerNext(k)
      BY <2>1, <2>4, <3>2, RunningStub DEF SlicerNext, Sending
    <3>3. CASE Sent(k)
      BY <2>1, <3>1, <3>3 DEF Sent, Blocked
    <3> QED
      BY <1>12, <3>2, <3>3
  <2>6. buf' \in BufType /\ \A c \in Chan \ {output[k]} : Len(buf'[c]) <= Len(buf[c])
    BY <1>1, <2>1 DEF TypeOK
  <2>7. Advances(k)
    BY <1>1, <1>2, <2>1, <2>2, <2>3, <2>4 DEF Advances, Running, Sending
  <2> QED
    BY <2>1, <2>3, <2>5, <2>6, <2>7, Flows
<1>13. CASE WriteTimeout(k)
  <2>1. /\ pc[k] = "wflush" /\ Blocked(output[k]) /\ TakeBack(output[k])
        /\ pc' = [pc EXCEPT ![k] = "exited"] /\ Quiet /\ UNCHANGED <<held, shut, closed, panic>>
    BY <1>13 DEF WriteTimeout
  <2>2. Frame(k) /\ UNCHANGED op /\ pc'[k] = "exited" /\ held'[k] = held[k]
        /\ pc' \in [Stub -> Pcs] /\ held' \in [Stub -> Seq(Byte)]
    BY <1>3, <1>4, <1>5, <2>1 DEF Pcs
  <2>3. pc[k] \in Running
    BY <2>1 DEF Running, Sending
  <2>4. /\ output[k] \in Chan /\ Len(buf[output[k]]) \in Nat /\ cap[output[k]] \in Nat
        /\ Len(buf[output[k]]) <= cap[output[k]] + 1
    BY <2>3, RunningStub
  <2>5. buf[output[k]] \in Seq(Seq(Byte)) /\ buf[output[k]] # <<>>
    <3>1. buf[output[k]] \in Seq(Seq(Byte)) /\ Len(buf[output[k]]) # 0
      BY <1>1, <2>1, <2>4 DEF Blocked, BufType
    <3> QED
      BY <3>1, SeqFacts
  <2>6. /\ buf' \in BufType /\ Len(buf'[output[k]]) = Len(buf[output[k]]) - 1
        /\ \A d \in Chan \ {output[k]} : buf'[d] = buf[d]
    BY <1>1, <2>1, <2>4, <2>5, PopType DEF TakeBack
  <2>7. dropped' \subseteq Byte
    <3>1. Last(buf[output[k]]) \in Seq(Byte)
      BY <2>5, SeqFacts
    <3>2. Range(Last(buf[output[k]])) \subseteq Byte
      BY <3>1, SeqFacts
    <3> QED
      BY <1>1, <2>1, <3>2 DEF TakeBack
  <2>8. Len(buf'[output[k]]) <= cap[output[k]]
    BY <2>4, <2>6
  <2>9. \A c \in Chan \ {output[k]} : Len(buf'[c]) <= Len(buf[c])
    <3>1. \A c \in Chan : Len(buf[c]) \in Nat
      BY DEF TypeOK
    <3> QED
      BY <2>6, <3>1
  <2>10. Advances(k)
    BY <1>2, <2>1, <2>2, <2>3, <2>7 DEF Advances
  <2> QED
    BY <2>1, <2>2, <2>6, <2>8, <2>9, <2>10, Flows
<1> QED
  BY <1>6, <1>7, <1>8, <1>9, <1>10, <1>11, <1>12, <1>13 DEF StubStep

-----------------------------------------------------------------------------
(* The goroutines at the ends of the link *)

\* Only the reader sends on the first channel.
LEMMA SourceChannel ==
    ASSUME TypeOK, Sound, Cover
    PROVE  /\ 1 \in Chan /\ Len(buf[1]) \in Nat /\ cap[1] \in Nat
           /\ \/ Len(buf[1]) <= cap[1]
              \/ Len(buf[1]) <= cap[1] + 1 /\ reader = "send"
<1>1. Structure /\ Wiring /\ Runs /\ Queues /\ CallShape /\ Interruption
  BY DEF Sound
<1>2. 1 \in Chan
  BY BoundsAssumption DEF Chan
<1>3. Len(buf[1]) \in Nat /\ cap[1] \in Nat
  BY <1>2 DEF TypeOK
<1>4. \A k \in Stub : Live(k) => output[k] # 1
  BY <1>1, LiveSends
<1>5. \A k \in Stub : pc[k] \in Sending => Live(k)
  BY <1>1 DEF Runs, Running
<1>6. op.writing => op.stub \in Stub /\ Live(op.stub)
  BY <1>1, InterruptedLive, Fields
<1>7. Sender(1) => reader = "send"
  BY <1>4, <1>5, <1>6 DEF Sender
<1>8. Len(buf[1]) <= cap[1] + 1 /\ (Blocked(1) => reader = "send")
  BY <1>1, <1>2, <1>7 DEF Queues
<1> QED
  BY <1>2, <1>3, <1>8 DEF Blocked

\* The reader fills or closes the first channel, the writer empties the last.
LEMMA EndStep ==
    ASSUME TypeOK, Sound, Cover, UNCHANGED <<stubs, made, output, cap, pc, shut, op>>,
           buf' \in BufType,
           \A c \in Chan \ {1} : Len(buf'[c]) <= Len(buf[c]) /\ closed'[c] = closed[c],
           closed'[1] <=> reader' = "done",
           \/ Len(buf'[1]) <= cap[1]
           \/ Len(buf'[1]) <= cap[1] + 1 /\ reader' = "send"
    PROVE  Channels'
<1>1. Structure /\ Wiring /\ Runs /\ Queues /\ CallShape /\ Interruption
  BY DEF Sound
<1>2. Wired' = Wired /\ \A i : After(i)' = After(i)
  BY DEF Wired, After
<1>3. \A c \in Chan : /\ buf[c] \in Seq(Seq(Byte)) /\ Len(buf[c]) \in Nat /\ cap[c] \in Nat
                      /\ buf'[c] \in Seq(Seq(Byte)) /\ Len(buf'[c]) \in Nat
                      /\ Len(buf'[c]) = 0 => buf'[c] = <<>>
  BY SeqFacts DEF TypeOK, BufType
<1>4. ASSUME NEW j \in Stub, Fresh(j), j # 1
      PROVE  Fresh(j)'
  <2>1. j \in Chan /\ Len(buf[j]) = 0
    BY <1>4, BoundsAssumption DEF Stub, Chan, Fresh
  <2>2. Len(buf'[j]) <= Len(buf[j]) /\ closed'[j] = closed[j]
    BY <1>4, <2>1
  <2>3. buf'[j] = <<>>
    BY <1>3, <2>1, <2>2
  <2> QED
    BY <1>4, <2>2, <2>3 DEF Fresh
<1>5. Structure'
  <2>1. \A j \in Stub : j > made => Fresh(j)'
    <3>1. made >= 1 /\ made \in Nat
      BY DEF TypeOK
    <3> QED
      BY <1>1, <1>4, <3>1 DEF Structure, Stub
  <2>2. op.call = "add" => Fresh(New)'
    <3> SUFFICES ASSUME op.call = "add"
                 PROVE  Fresh(New)'
      OBVIOUS
    <3>1. Len(stubs) \in Nat /\ Len(stubs) - 1 >= 1 /\ stubs[1] = 1
      BY <1>1, Fields DEF Structure, Wired
    <3>2. New \in Stub /\ New # 1
      BY <1>1, <3>1, Fields DEF Structure, New
    <3>3. Fresh(New)
      BY <1>1 DEF Structure, New
    <3> QED
      BY <1>4, <3>2, <3>3 DEF New
  <2> QED
    BY <1>1, <1>2, <2>1, <2>2 DEF Structure, New
<1>6. Wiring'
  <2>1. ASSUME NEW i \in 1..Wired, ~shut[stubs[i]]
        PROVE  output[stubs[i]] = After(i) /\ ~closed'[After(i)]
    <3>1. stubs[i] \in Stub
      BY Fields DEF Wired
    <3>2. Live(stubs[i])
      BY <2>1 DEF Live
    <3>3. output[stubs[i]] = After(i) /\ ~closed[After(i)]
      BY <1>1, <2>1 DEF Wiring
    <3>4. output[stubs[i]] \in Chan /\ output[stubs[i]] # 1
      BY <1>1, <3>1, <3>2, LiveSends
    <3> QED
      BY <3>3, <3>4
  <2> QED
    BY <1>2, <2>1 DEF Wiring
<1>7. Runs'
  BY <1>1, <1>2 DEF Runs, Live
<1>8. ASSUME NEW c \in Chan
      PROVE  Len(buf'[c]) <= cap'[c] + 1 /\ (Blocked(c)' => Sender(c)')
  <2>1. CASE c = 1
    BY <1>3, <2>1 DEF Blocked, Sender
  <2>2. CASE c # 1
    <3>1. Len(buf'[c]) <= Len(buf[c])
      BY <2>2
    <3>2. Len(buf'[c]) <= cap'[c] + 1 /\ (Blocked(c)' => Blocked(c))
      BY <1>1, <1>3, <3>1 DEF Queues, Blocked
    <3>3. Sender(c) => Sender(c)'
      BY <2>2 DEF Sender
    <3> QED
      BY <1>1, <3>2, <3>3 DEF Queues
  <2> QED
    BY <2>1, <2>2
<1>9. Queues'
  BY <1>8 DEF Queues
<1> QED
  BY <1>5, <1>6, <1>7, <1>9 DEF Channels

\* The variables of the ends are typed, and the rest of the invariant is not about
\* them.
LEMMA EndKept ==
    ASSUME TypeOK, Sound, Cover, Alive, Channels', panic' = panic,
           UNCHANGED <<chain, made, nops, stubVars, cap, op>>,
           linked' = linked \/ (linked' = FALSE /\ op.pc = "idle"),
           buf' \in BufType, closed' \in [Chan -> BOOLEAN],
           reader' \in {"read", "send", "done"}, sent' \in 0..MaxDatagrams,
           writer' \in {"recv", "write", "removing", "done"}, wbuf' \in Seq(Byte),
           delivered' \in Seq(Byte), dropped' \subseteq Byte
    PROVE  TypeOK' /\ Sound' /\ Cover' /\ panic' = "none"
<1>1. Holds /\ CallShape /\ Interruption
  BY DEF Sound
<1>2. TypeOK'
  BY DEF TypeOK, BufType, stubVars
<1>3. Holds' /\ Interruption'
  BY <1>1 DEF Holds, Interruption, stubVars
<1>4. op.pc = "idle" => op.call = "none"
  BY <1>1 DEF CallShape
<1>5. CallShape'
  BY <1>1, <1>4 DEF CallShape, stubVars
<1>6. Wired' = Wired /\ Wanted' = Wanted /\ \A i : Assigned(i)' = Assigned(i)
  BY DEF Wired, Wanted, Assigned, stubVars
<1>7. Cover'
  BY <1>6 DEF Cover, Modes, stubVars
<1> QED
  BY <1>2, <1>3, <1>5, <1>7 DEF Sound, Channels, Alive

\* Every step of the reader and the writer keeps the invariant.
LEMMA EndsKeep ==
    ASSUME TypeOK, Sound, Cover, Alive,
           ReadSource \/ ReaderSent \/ SourceEnds \/ WriterStep \/ WriterFails
    PROVE  TypeOK' /\ Sound' /\ Cover' /\ panic' = "none"
<1>1. /\ buf \in BufType /\ closed \in [Chan -> BOOLEAN] /\ 0 \in Chan /\ 1 \in Chan
      /\ \A c \in Chan : buf[c] \in Seq(Seq(Byte)) /\ Len(buf[c]) \in Nat /\ cap[c] \in Nat
      /\ reader \in {"read", "send", "done"} /\ sent \in 0..MaxDatagrams
      /\ writer \in {"recv", "write", "removing", "done"} /\ wbuf \in Seq(Byte)
      /\ delivered \in Seq(Byte) /\ dropped \subseteq Byte
  <2>1. 0 \in Chan /\ 1 \in Chan
    BY BoundsAssumption DEF Chan
  <2> QED
    BY <2>1 DEF TypeOK, BufType
<1>2. closed[1] <=> reader = "done"
  BY DEF Sound, Wiring
<1>3. \/ Len(buf[1]) <= cap[1]
      \/ Len(buf[1]) <= cap[1] + 1 /\ reader = "send"
  BY SourceChannel
<1>4. CASE ReadSource
  <2>1. sent + 1 \in 1..MaxDatagrams /\ sent' = sent + 1 /\ reader = "read" /\ reader' = "send"
    BY <1>1, <1>4, BoundsAssumption DEF ReadSource
  <2>2. Datagram(sent + 1) \in Seq(Byte)
    BY <2>1, DatagramType
  <2>3. /\ buf' \in BufType /\ Len(buf'[1]) = Len(buf[1]) + 1
        /\ \A d \in Chan \ {1} : buf'[d] = buf[d]
    BY <1>1, <1>4, <2>2, PushType DEF ReadSource, Push
  <2>4. panic' = panic
    BY <1>2, <1>4, <2>1 DEF ReadSource, Push
  <2>5. Len(buf'[1]) <= cap[1] + 1
    BY <1>1, <1>3, <2>1, <2>3
  <2>6. \A c \in Chan \ {1} : Len(buf'[c]) <= Len(buf[c])
    BY <1>1, <2>3
  <2>7. UNCHANGED <<chain, linked, made, nops, stubVars, cap, closed, writer, wbuf, delivered, dropped, op>>
    BY <1>4 DEF ReadSource, chainVars
  <2>8. Channels'
    BY <1>2, <2>1, <2>3, <2>5, <2>6, <2>7, EndStep DEF stubVars
  <2> QED
    BY <1>1, <2>1, <2>3, <2>4, <2>7, <2>8, EndKept
<1>5. CASE ReaderSent
  <2>1. /\ UNCHANGED <<chain, linked, made, nops, stubVars, buf, cap, closed, sent, writer, wbuf,
                       delivered, dropped, op, panic>>
        /\ reader = "send" /\ reader' = "read" /\ ~Blocked(1)
    BY <1>5 DEF ReaderSent, chainVars, chanVars
  <2>2. Len(buf'[1]) <= cap[1]
    BY <1>1, <2>1 DEF Blocked
  <2>3. \A c \in Chan \ {1} : Len(buf'[c]) <= Len(buf[c])
    BY <1>1, <2>1
  <2>4. Channels'
    BY <1>1, <1>2, <2>1, <2>2, <2>3, EndStep DEF stubVars
  <2> QED
    BY <1>1, <2>1, <2>4, EndKept
<1>6. CASE SourceEnds
  <2>1. /\ UNCHANGED <<chain, linked, made, nops, stubVars, buf, cap, sent, writer, wbuf,
                       delivered, dropped, op, panic>>
        /\ reader = "read" /\ reader' = "done" /\ closed' = [closed EXCEPT ![1] = TRUE]
    BY <1>6 DEF SourceEnds, chainVars
  <2>2. closed' \in [Chan -> BOOLEAN] /\ closed'[1] /\ \A c \in Chan \ {1} : closed'[c] = closed[c]
    BY <1>1, <2>1
  <2>3. Len(buf'[1]) <= cap[1]
    BY <1>3, <2>1
  <2>4. \A c \in Chan \ {1} : Len(buf'[c]) <= Len(buf[c])
    BY <1>1, <2>1
  <2>5. Channels'
    BY <1>1, <2>1, <2>2, <2>3, <2>4, EndStep DEF stubVars
  <2> QED
    BY <1>1, <2>1, <2>2, <2>5, EndKept
<1>7. CASE WriterReceive
  <2>1. /\ UNCHANGED <<chain, linked, made, nops, stubVars, cap, closed, reader, sent,
                       delivered, dropped, op, panic>>
        /\ buf[0] # <<>> /\ wbuf' = Head(buf[0]) /\ buf' = [buf EXCEPT ![0] = Tail(@)]
        /\ writer' \in {"recv", "write"}
    BY <1>7 DEF WriterReceive, chainVars
  <2>2. /\ buf' \in BufType /\ Len(buf'[0]) = Len(buf[0]) - 1
        /\ \A d \in Chan \ {0} : buf'[d] = buf[d]
    BY <1>1, <2>1, PopType
  <2>3. \A c \in Chan \ {1} : Len(buf'[c]) <= Len(buf[c])
    <3>1. Len(buf'[0]) <= Len(buf[0])
      BY <1>1, <2>2
    <3>2. \A c \in Chan \ {0} : Len(buf'[c]) <= Len(buf[c])
      BY <1>1, <2>2
    <3> QED
      BY <3>1, <3>2
  <2>4. buf'[1] = buf[1]
    BY <1>1, <2>2
  <2>5. Channels'
    BY <1>2, <1>3, <2>1, <2>2, <2>3, <2>4, EndStep DEF stubVars
  <2>6. wbuf' \in Seq(Byte)
    BY <1>1, <2>1, SeqFacts
  <2> QED
    BY <1>1, <2>1, <2>2, <2>5, <2>6, EndKept
<1>8. CASE WriterWrites \/ WriterFails \/ WriterEnds \/ RemoveLink
  <2>1. /\ UNCHANGED <<chain, made, nops, stubVars, buf, cap, closed, reader, sent, op, panic>>
        /\ linked' = linked \/ (linked' = FALSE /\ op.pc = "idle")
        /\ writer' \in {"recv", "removing", "done"}
    BY <1>8 DEF WriterWrites, WriterFails, WriterEnds, RemoveLink, chainVars, chanVars
  <2>2. wbuf' \in Seq(Byte)
    BY <1>1, <1>8, EmptySeq DEF WriterWrites, WriterFails, WriterEnds, RemoveLink
  <2>3. delivered' \in Seq(Byte)
    BY <1>1, <1>8, ConcatProperties DEF WriterWrites, WriterFails, WriterEnds, RemoveLink
  <2>4. dropped' \subseteq Byte
    <3>1. Range(wbuf) \subseteq Byte
      BY <1>1, SeqFacts
    <3> QED
      BY <1>1, <1>8, <3>1 DEF WriterWrites, WriterFails, WriterEnds, RemoveLink
  <2>5. \A c \in Chan \ {1} : Len(buf'[c]) <= Len(buf[c])
    BY <1>1, <2>1
  <2>6. Channels'
    BY <1>1, <1>2, <1>3, <2>1, <2>5, EndStep DEF stubVars
  <2> QED
    BY <1>1, <2>1, <2>2, <2>3, <2>4, <2>6, EndKept
<1> QED
  BY <1>4, <1>5, <1>6, <1>7, <1>8 DEF WriterStep

-----------------------------------------------------------------------------
(* The calls *)

\* No call is in progress.
LEMMA NoCall ==
    ASSUME Sound, op.pc = "idle"
    PROVE  /\ op = Idle /\ op.call = "none" /\ op.stop = "none" /\ op.writing = FALSE
           /\ Wired = Len(stubs) /\ Wanted = Len(chain)
BY DEF Sound, CallShape, Idle, Wired, Wanted

\* A call has returned.
LEMMA Returned ==
    ASSUME op' = Idle
    PROVE  /\ op'.call = "none" /\ op'.writing = FALSE /\ op'.pc = "idle"
           /\ CallShape' /\ Interruption' /\ op' \in OpType
           /\ Wired' = Len(stubs') /\ Wanted' = Len(chain') /\ \A i : Assigned(i)' = chain'[i]
<1>1. Idle \in OpType
  BY ToxicsAssumption, BoundsAssumption DEF Idle, OpType, Stub
<1> QED
  BY <1>1 DEF Idle, CallShape, Interruption, Wired, Wanted, Assigned

\* The step that a call takes when it begins.
Begins(o) ==
    /\ op.pc = "idle" /\ nops' \in 0..MaxOps
    /\ op' = IF linked THEN o ELSE Idle
    /\ UNCHANGED <<linked, wrapper, mode, pc, held, shut, buf, closed, endVars, panic>>

\* What Begin does, with the bound on the number of calls.
LEMMA BeginBegins ==
    ASSUME TypeOK, NEW o, Begin(o)
    PROVE  Begins(o)
<1>1. nops \in 0..MaxOps /\ nops < MaxOps /\ nops' = nops + 1 /\ MaxOps \in Nat
  BY BoundsAssumption DEF TypeOK, Begin
<1>2. nops' \in 0..MaxOps
  BY <1>1
<1> QED
  BY <1>2 DEF Begin, Begins

\* A call on a collection that the link has left.
LEMMA Unlinked ==
    ASSUME TypeOK, Sound, Cover, Alive, NEW o, Begins(o), ~linked,
           chain' \in Seq(Toxics), UNCHANGED <<made, stubs, cap, output>>
    PROVE  TypeOK' /\ Sound' /\ Cover' /\ panic' = "none"
<1>1. op = Idle /\ op' = Idle
  BY NoCall DEF Begins
<1>2. UNCHANGED <<linked, wrapper, mode, pc, held, shut, buf, closed, reader, panic, op>>
  BY <1>1 DEF Begins, endVars
<1>3. Channels'
  <2>1. KeepsCall(1) /\ (op.writing => op'.writing /\ op'.stub = op.stub)
    BY <1>2 DEF KeepsCall
  <2> QED
    BY <1>2, <2>1, CallStep
<1>4. TypeOK'
  BY <1>2 DEF TypeOK, Begins, endVars
<1>5. Holds' /\ Cover'
  BY <1>2 DEF Sound, Holds, Cover
<1> QED
  BY <1>1, <1>2, <1>3, <1>4, <1>5, Returned DEF Sound, Channels, Alive

\* AddToxic up to the interrupt: the new stub is in link.stubs and does not run.
LEMMA AddBegins ==
    ASSUME TypeOK, Sound, Cover, Alive, NEW t \in Toxics, AddToxic(t)
    PROVE  TypeOK' /\ Sound' /\ Cover' /\ panic' = "none"
<1> DEFINE n == Len(stubs)
           new == made + 1
           o == [Idle EXCEPT !.call = "add", !.pc = "interrupt", !.toxic = t,
                             !.pos = Len(stubs), !.stub = Last(stubs)]
<1>1. Begins(o) /\ chain' = Append(chain, t) /\ made < MaxStubs
  BY BeginBegins DEF AddToxic
<1>2. chain \in Seq(Toxics) /\ chain' \in Seq(Toxics) /\ Len(chain') = Len(chain) + 1
      /\ chain'[Len(chain')] = t /\ \A i \in 1..Len(chain) : chain'[i] = chain[i]
  <2>1. chain \in Seq(Toxics)
    BY DEF TypeOK
  <2> QED
    BY <1>1, <2>1, AppendProperties
<1>3. CASE ~linked
  <2>1. UNCHANGED <<made, stubs, cap, output>>
    BY <1>3 DEF AddToxic
  <2> QED
    BY <1>1, <1>2, <1>3, <2>1, Unlinked
<1>4. CASE linked
  <2>1. Structure /\ Wiring /\ Runs /\ Queues /\ Holds /\ op.pc = "idle"
    BY <1>1 DEF Sound, Begins
  <2>2. /\ op.call = "none" /\ op.writing = FALSE /\ Wired = n /\ Wanted = Len(chain)
    BY <2>1, NoCall
  <2>3. /\ made' = new /\ stubs' = Append(stubs, new)
        /\ cap' = [cap EXCEPT ![new] = BufferSize[t]]
        /\ output' = [output EXCEPT ![new] = output[Last(stubs)]]
        /\ op' = o /\ UNCHANGED <<linked, wrapper, mode, pc, held, shut, buf, closed, endVars, panic>>
    BY <1>1, <1>4 DEF AddToxic, Begins
  <2>4. /\ n \in Nat /\ n >= 1 /\ made \in Nat /\ new \in Stub /\ new \in Chan
        /\ \A i \in 1..n : stubs[i] \in Stub /\ stubs[i] <= made /\ stubs[i] # new
    <3>1. n \in Nat /\ n >= 1 /\ made \in Nat /\ \A i \in 1..n : stubs[i] \in Stub /\ stubs[i] \in Nat
      BY <2>1, Fields DEF Structure
    <3>2. new \in Stub /\ new \in Chan
      BY <1>1, <3>1, BoundsAssumption DEF Stub, Chan
    <3> QED
      BY <2>1, <3>1, <3>2 DEF Structure
  <2>5. /\ stubs' \in Seq(Stub) /\ Len(stubs') = n + 1 /\ stubs'[n + 1] = new
        /\ \A i \in 1..n : stubs'[i] = stubs[i]
    <3>1. stubs \in Seq(Stub)
      BY DEF TypeOK
    <3> QED
      BY <2>3, <2>4, <3>1, AppendProperties
  <2>6. /\ op'.call = "add" /\ op'.pc = "interrupt" /\ op'.toxic = t /\ op'.pos = n
        /\ op'.stub = stubs[n] /\ op'.stop = "none" /\ op'.writing = FALSE /\ op'.prev = 1
    BY <2>3 DEF Idle, Last
  <2>7. op' \in OpType
    <3>1. stubs[n] \in Stub /\ 1 \in Stub /\ n \in Nat \ {0}
      BY <2>4, BoundsAssumption DEF Stub
    <3>2. op' = [call |-> "add", pc |-> "interrupt", toxic |-> t, pos |-> n,
                 stub |-> stubs[n], prev |-> 1, stop |-> "none", writing |-> FALSE]
      BY <2>3 DEF Idle, Last
    <3> QED
      BY <3>1, <3>2 DEF OpType
  <2>8. /\ output' \in [Stub -> Chan] /\ output'[new] = output[stubs[n]]
        /\ \A k \in Stub \ {new} : output'[k] = output[k]
    <3>1. output \in [Stub -> Chan]
      BY DEF TypeOK
    <3>2. stubs[n] \in Stub
      BY <2>4
    <3> QED
      BY <2>3, <2>4, <3>1, <3>2 DEF Last
  <2>9. /\ cap' \in [Chan -> Nat] /\ \A c \in Chan \ {new} : cap'[c] = cap[c]
    BY <2>3, <2>4, ToxicsAssumption DEF TypeOK
  <2>10. TypeOK'
    <3>1. made' \in 1..MaxStubs
      BY <1>1, <2>3, <2>4, BoundsAssumption
    <3> QED
      BY <1>1, <1>2, <2>3, <2>5, <2>7, <2>8, <2>9, <3>1 DEF TypeOK, Begins, endVars
  <2>11. Wired' = n /\ Wanted' = Len(chain) + 1 /\ \A i \in 1..n : After(i)' = After(i)
    <3>1. Wired' = n
      BY <2>4, <2>5, <2>6 DEF Wired
    <3>2. Wanted' = Len(chain) + 1
      BY <1>2, <2>6 DEF Wanted
    <3> QED
      BY <2>2, <2>4, <2>5, <3>1, <3>2 DEF After
  <2>12. Fresh(new) /\ \A j \in Stub : Fresh(j) => Fresh(j)'
    BY <2>1, <2>3, <2>4 DEF Structure, Fresh
  <2>13. Structure'
    <3>1. Len(stubs') >= 1 /\ Wired' >= 1 /\ stubs'[1] = 1
      BY <2>1, <2>4, <2>5, <2>11 DEF Structure
    <3>2. \A i \in 1..Len(stubs') : stubs'[i] <= made'
      <4>1. \A i \in 1..n : stubs'[i] <= made'
        BY <2>3, <2>4, <2>5, Fields
      <4>2. stubs'[n + 1] <= made'
        BY <2>3, <2>4, <2>5
      <4> QED
        BY <2>4, <2>5, <4>1, <4>2
    <3>3. \A i, j \in 1..Len(stubs') : stubs'[i] = stubs'[j] => i = j
      BY <2>1, <2>4, <2>5 DEF Structure
    <3>4. \A k \in Stub : k > made' => Fresh(k)'
      BY <2>1, <2>3, <2>4, <2>12 DEF Structure, Stub
    <3>5. Fresh(New)' /\ output'[New'] = output'[op'.stub]
      <4>1. stubs[n] \in Stub /\ stubs[n] # new
        BY <2>4
      <4> QED
        BY <2>4, <2>5, <2>6, <2>8, <2>12, <4>1 DEF New
    <3> QED
      BY <2>6, <3>1, <3>2, <3>3, <3>4, <3>5 DEF Structure, New
  <2>14. Wiring'
    <3>1. ASSUME NEW i \in 1..n, ~shut[stubs[i]]
          PROVE  output'[stubs'[i]] = After(i)' /\ ~closed[After(i)]
      BY <2>1, <2>2, <2>4, <2>5, <2>8, <2>11, <3>1 DEF Wiring
    <3> QED
      BY <2>1, <2>3, <2>5, <2>11, <3>1 DEF Wiring, endVars
  <2>15. Runs'
    BY <2>1, <2>2, <2>3, <2>5, <2>11 DEF Runs, Live
  <2>16. Queues'
    <3>1. ASSUME NEW c \in Chan
          PROVE  Len(buf'[c]) <= cap'[c] + 1 /\ (Blocked(c)' => Sender(c)')
      <4>1. CASE c = new
        <5>1. Len(buf'[c]) = 0 /\ cap'[c] \in Nat
          BY <2>3, <2>4, <2>9, <2>12, <4>1 DEF Fresh
        <5> QED
          BY <5>1 DEF Blocked
      <4>2. CASE c # new
        <5>1. cap'[c] = cap[c] /\ buf'[c] = buf[c]
          BY <2>3, <2>9, <4>2
        <5>2. pc[new] = "none"
          BY <2>12 DEF Fresh
        <5>3. Sender(c) => Sender(c)'
          BY <2>2, <2>3, <2>8, <5>2 DEF Sender, Sending, endVars
        <5> QED
          BY <2>1, <5>1, <5>3 DEF Queues, Blocked
      <4> QED
        BY <4>1, <4>2
    <3> QED
      BY <3>1 DEF Queues
  <2>17. CallShape' /\ Interruption'
    BY <1>4, <2>3, <2>4, <2>5, <2>6 DEF CallShape, Interruption
  <2>18. Holds'
    BY <2>1, <2>3 DEF Holds
  <2>19. Cover'
    <3>1. n >= Len(chain) /\ Len(stubs') >= Wanted'
      BY <1>2, <1>4, <2>2, <2>4, <2>5, <2>11, Fields DEF Cover
    <3>2. ASSUME \A i \in 1..Len(stubs') : ~shut'[stubs'[i]]
          PROVE  /\ Len(stubs') = Wanted'
                 /\ chain'[Len(chain')] = op'.toxic
                 /\ \A i \in 1..n : wrapper'[stubs'[i]] = Assigned(i)'
                                    /\ mode'[stubs'[i]] \in Modes(Assigned(i)')
      <4>1. \A i \in 1..n : ~shut[stubs[i]]
        BY <2>3, <2>4, <2>5, <3>2
      <4>2. /\ n = Len(chain)
            /\ \A i \in 1..n : wrapper[stubs[i]] = chain[i] /\ mode[stubs[i]] \in Modes(chain[i])
        BY <1>4, <2>2, <4>1 DEF Cover, Assigned
      <4>3. \A i \in 1..n : Assigned(i)' = chain[i]
        BY <1>2, <2>6, <4>2 DEF Assigned
      <4> QED
        BY <1>2, <2>3, <2>5, <2>6, <2>11, <4>2, <4>3
    <3> QED
      BY <2>6, <2>11, <3>1, <3>2 DEF Cover, Modes
  <2> QED
    BY <2>3, <2>10, <2>13, <2>14, <2>15, <2>16, <2>17, <2>18, <2>19 DEF Sound, Alive
<1> QED
  BY <1>3, <1>4

\* UpdateToxic up to the interrupt.
LEMMA UpdateBegins ==
    ASSUME TypeOK, Sound, Cover, Alive, NEW i \in 2..Len(chain), UpdateToxic(i)
    PROVE  TypeOK' /\ Sound' /\ Cover' /\ panic' = "none"
<1> DEFINE o == [Idle EXCEPT !.call = "update", !.pc = "interrupt",
                             !.toxic = chain[i], !.pos = i, !.stub = stubs[i]]
<1>1. Begins(o) /\ UNCHANGED <<chain, made, stubs, cap, output>>
  BY BeginBegins DEF UpdateToxic
<1>2. CASE ~linked
  <2>1. chain' \in Seq(Toxics)
    BY <1>1 DEF TypeOK
  <2> QED
    BY <1>1, <1>2, <2>1, Unlinked
<1>3. CASE linked
  <2>1. /\ op.call = "none" /\ op.writing = FALSE
        /\ Wired = Len(stubs) /\ Wanted = Len(chain) /\ op.pc = "idle"
    BY <1>1, NoCall DEF Begins
  <2>2. op' = o /\ UNCHANGED <<linked, wrapper, mode, pc, held, shut, buf, closed, endVars, panic>>
    BY <1>1, <1>3 DEF Begins
  <2>3. Len(stubs) >= Len(chain) /\ Len(stubs) \in Nat /\ Len(chain) \in Nat
    BY <1>3, <2>1, Fields DEF Cover
  <2>4. stubs[i] \in Stub /\ chain[i] \in Toxics /\ i \in Nat \ {0} /\ 1 \in Stub
    BY <2>3, Fields, BoundsAssumption DEF Stub
  <2>5. op' = [call |-> "update", pc |-> "interrupt", toxic |-> chain[i], pos |-> i,
               stub |-> stubs[i], prev |-> 1, stop |-> "none", writing |-> FALSE]
    BY <2>2 DEF Idle
  <2>6. op' \in OpType
    BY <2>4, <2>5 DEF OpType
  <2>7. TypeOK'
    BY <1>1, <2>2, <2>6 DEF TypeOK, Begins, endVars
  <2>8. Channels'
    <3>1. KeepsCall(1) /\ (op.writing => op'.writing /\ op'.stub = op.stub)
      BY <2>1, <2>5 DEF KeepsCall
    <3>2. UNCHANGED <<stubs, made, output, cap, reader, buf, pc, shut, closed>>
      BY <1>1, <2>2 DEF endVars
    <3> QED
      BY <3>1, <3>2, CallStep
  <2>9. Holds'
    BY <2>2 DEF Sound, Holds
  <2>10. CallShape' /\ Interruption'
    <3>1. /\ op'.call = "update" /\ op'.pc = "interrupt" /\ op'.toxic = chain[i] /\ op'.pos = i
          /\ op'.stub = stubs[i] /\ op'.stop = "none" /\ op'.writing = FALSE
      BY <2>5
    <3>2. linked' /\ UNCHANGED <<chain, stubs>>
      BY <1>1, <1>3, <2>2
    <3>3. CallShape'
      BY <3>1, <3>2 DEF CallShape
    <3>4. Interruption'
      BY <3>1 DEF Interruption
    <3> QED
      BY <3>3, <3>4
  <2>11. Cover'
    <3>1. Wired' = Wired /\ Wanted' = Wanted /\ \A j : Assigned(j)' = Assigned(j)
      BY <1>1, <2>1, <2>5 DEF Wired, Wanted, Assigned
    <3> QED
      BY <1>1, <2>1, <2>2, <2>5, <3>1 DEF Cover, Modes
  <2> QED
    BY <2>2, <2>7, <2>8, <2>9, <2>10, <2>11 DEF Sound, Channels, Alive
<1> QED
  BY <1>2, <1>3

\* RemoveToxic up to the interrupt: the chain is shorter, the link is not yet.
LEMMA RemoveBegins ==
    ASSUME TypeOK, Sound, Cover, Alive, NEW i \in 2..Len(chain), RemoveToxic(i)
    PROVE  TypeOK' /\ Sound' /\ Cover' /\ panic' = "none"
<1> DEFINE o == [Idle EXCEPT !.call = "remove", !.pc = "interrupt", !.toxic = chain[i],
                             !.pos = i, !.stub = stubs[i], !.prev = stubs[i - 1]]
<1>1. Begins(o) /\ chain' = RemoveAt(chain, i) /\ UNCHANGED <<made, stubs, cap, output>>
  BY BeginBegins DEF RemoveToxic
<1>2. /\ chain' \in Seq(Toxics) /\ Len(chain') = Len(chain) - 1
      /\ \A j \in 1..(Len(chain) - 1) : chain'[j] = IF j < i THEN chain[j] ELSE chain[j + 1]
  <2>1. chain \in Seq(Toxics)
    BY DEF TypeOK
  <2>2. i \in 1..Len(chain)
    BY Fields
  <2> QED
    BY <1>1, <2>1, <2>2, RemoveAtProperties
<1>3. CASE ~linked
  BY <1>1, <1>2, <1>3, Unlinked
<1>4. CASE linked
  <2>1. /\ op.call = "none" /\ op.writing = FALSE
        /\ Wired = Len(stubs) /\ Wanted = Len(chain) /\ op.pc = "idle"
    BY <1>1, NoCall DEF Begins
  <2>2. op' = o /\ UNCHANGED <<linked, wrapper, mode, pc, held, shut, buf, closed, endVars, panic>>
    BY <1>1, <1>4 DEF Begins
  <2>3. Len(stubs) >= Len(chain) /\ Len(stubs) \in Nat /\ Len(chain) \in Nat
    BY <1>4, <2>1, Fields DEF Cover
  <2>4. /\ stubs[i] \in Stub /\ stubs[i - 1] \in Stub /\ chain[i] \in Toxics
        /\ i \in Nat \ {0} /\ i >= 2
    BY <2>3, Fields
  <2>5. op' = [call |-> "remove", pc |-> "interrupt", toxic |-> chain[i], pos |-> i,
               stub |-> stubs[i], prev |-> stubs[i - 1], stop |-> "none", writing |-> FALSE]
    BY <2>2 DEF Idle
  <2>6. op' \in OpType
    BY <2>4, <2>5 DEF OpType
  <2>7. TypeOK'
    BY <1>1, <1>2, <2>2, <2>6 DEF TypeOK, Begins, endVars
  <2>8. Channels'
    <3>1. KeepsCall(1) /\ (op.writing => op'.writing /\ op'.stub = op.stub)
      BY <2>1, <2>5 DEF KeepsCall
    <3>2. UNCHANGED <<stubs, made, output, cap, reader, buf, pc, shut, closed>>
      BY <1>1, <2>2 DEF endVars
    <3> QED
      BY <3>1, <3>2, CallStep
  <2>9. Holds'
    BY <2>2 DEF Sound, Holds
  <2>10. CallShape' /\ Interruption'
    <3>1. i \in 2..(Len(chain') + 1)
      BY <1>2, <2>3
    <3>2. /\ op'.call = "remove" /\ op'.pc = "interrupt" /\ op'.pos = i /\ op'.stub = stubs[i]
          /\ op'.prev = stubs[i - 1] /\ op'.stop = "none" /\ op'.writing = FALSE
      BY <2>5
    <3>3. linked' /\ stubs' = stubs
      BY <1>1, <1>4, <2>2
    <3>4. CallShape'
      BY <3>1, <3>2, <3>3 DEF CallShape
    <3>5. Interruption'
      BY <3>2 DEF Interruption
    <3> QED
      BY <3>4, <3>5
  <2>11. Cover'
    <3>1. Wired' = Len(stubs) /\ Wanted' = Len(chain)
      BY <1>1, <1>2, <2>3, <2>5 DEF Wired, Wanted
    <3>2. ASSUME NEW j \in 1..Len(chain), j # i
          PROVE  Assigned(j)' = chain[j]
      <4>1. CASE j < i
        <5>1. j \in 1..(Len(chain) - 1)
          BY <2>3, <4>1
        <5> QED
          BY <1>2, <2>5, <4>1, <5>1 DEF Assigned
      <4>2. CASE j > i
        <5>1. j - 1 \in 1..(Len(chain) - 1) /\ ~(j - 1 < i) /\ (j - 1) + 1 = j
          BY <2>3, <2>4, <4>2
        <5>2. chain'[j - 1] = chain[j]
          BY <1>2, <5>1
        <5> QED
          BY <2>5, <4>2, <5>2 DEF Assigned
      <4> QED
        BY <2>3, <3>2, <4>1, <4>2
    <3>3. ASSUME \A j \in 1..Len(stubs) : ~shut[stubs[j]]
          PROVE  /\ Len(stubs) = Len(chain)
                 /\ \A j \in 1..Len(stubs) : j # i =>
                      wrapper[stubs[j]] = Assigned(j)' /\ mode[stubs[j]] \in Modes(Assigned(j)')
      <4>1. /\ Len(stubs) = Len(chain)
            /\ \A j \in 1..Len(stubs) :
                 wrapper[stubs[j]] = chain[j] /\ mode[stubs[j]] \in Modes(chain[j])
        BY <1>4, <2>1, <3>3 DEF Cover, Assigned
      <4> QED
        BY <3>2, <4>1
    <3> QED
      BY <1>1, <2>2, <2>3, <2>5, <3>1, <3>3 DEF Cover, Modes
  <2> QED
    BY <2>2, <2>7, <2>8, <2>9, <2>10, <2>11 DEF Sound, Channels, Alive
<1> QED
  BY <1>3, <1>4

-----------------------------------------------------------------------------
(* Interrupts *)

\* What an interrupt makes of stub k.
LEMMA InterruptStep ==
    ASSUME TypeOK, Sound, Cover, Alive, NEW k \in Stub, TakeInterrupt(k), KeepsCall(k),
           op.writing => op'.writing /\ op'.stub = op.stub,
           op' \in OpType, op'.call = op.call, op'.pos = op.pos, op'.toxic = op.toxic,
           OpQuiet, UNCHANGED <<stubs, wrapper, mode, output, shut, cap, closed, dropped>>
    PROVE  /\ TypeOK' /\ Channels' /\ Holds' /\ Cover' /\ panic' = "none" /\ Live(k)
           /\ pc[k] \in {"recv", "delay"} /\ pc'[k] \in {"flush", "wflush", "exited"}
           /\ \A j \in Stub \ {k} : pc'[j] = pc[j]
<1>1. /\ pc \in [Stub -> Pcs] /\ held \in [Stub -> Seq(Byte)] /\ buf \in BufType
      /\ dropped \subseteq Byte /\ <<>> \in Seq(Byte)
  BY EmptySeq DEF TypeOK, Pcs, BufType
<1>2. pc[k] \in {"recv", "delay"} /\ pc[k] \in Running /\ pc[k] \notin Sending
  BY DEF TakeInterrupt, Interruptible, Running, Sending
<1>3. /\ Live(k) /\ output[k] \in Chan /\ Len(buf[output[k]]) <= cap[output[k]]
  BY <1>2, RunningStub
<1>4. pc[k] = "recv" => held[k] = <<>>
  BY DEF Sound, Holds
<1>5. /\ buf' \in BufType /\ panic' = panic
      /\ \A c \in Chan \ {output[k]} : Len(buf'[c]) <= Len(buf[c])
      /\ \/ Len(buf'[output[k]]) <= cap[output[k]]
         \/ Len(buf'[output[k]]) <= cap[output[k]] + 1 /\ pc'[k] \in Sending
      /\ pc' \in [Stub -> Pcs] /\ pc'[k] \in {"flush", "wflush", "exited"}
      /\ held' \in [Stub -> Seq(Byte)] /\ held'[k] = <<>>
      /\ \A j \in Stub \ {k} : pc'[j] = pc[j] /\ held'[j] = held[j]
  <2>1. CASE pc[k] = "recv"
    <3>1. pc' = [pc EXCEPT ![k] = "exited"] /\ UNCHANGED <<held, buf, panic>>
      BY <2>1 DEF TakeInterrupt
    <3>2. \A c \in Chan : Len(buf[c]) \in Nat
      BY DEF TypeOK
    <3> QED
      BY <1>1, <1>3, <1>4, <2>1, <3>1, <3>2 DEF Pcs
  <2>2. CASE pc[k] = "delay"
    <3>1. PICK q \in {"flush", "wflush"} : pc' = [pc EXCEPT ![k] = q]
      BY <2>2 DEF TakeInterrupt
    <3>2. Push(output[k], held[k]) /\ held' = [held EXCEPT ![k] = <<>>]
      BY <2>2 DEF TakeInterrupt
    <3>3. /\ buf' \in BufType /\ panic' = panic
          /\ \A c \in Chan \ {output[k]} : Len(buf'[c]) <= Len(buf[c])
          /\ Len(buf'[output[k]]) <= cap[output[k]] + 1
      BY <1>1, <1>2, <3>2, Pushes
    <3>4. /\ pc' \in [Stub -> Pcs] /\ pc'[k] = q /\ \A j \in Stub \ {k} : pc'[j] = pc[j]
      BY <1>1, <3>1 DEF Pcs
    <3>5. /\ held' \in [Stub -> Seq(Byte)] /\ held'[k] = <<>>
          /\ \A j \in Stub \ {k} : held'[j] = held[j]
      BY <1>1, <3>2
    <3> QED
      BY <3>3, <3>4, <3>5 DEF Sending
  <2> QED
    BY <1>2, <2>1, <2>2
<1>6. Frame(k)
  BY <1>5 DEF Frame, OpQuiet
<1>7. Advances(k)
  BY <1>1, <1>2, <1>5 DEF Advances, Running, Sending
<1>8. Channels'
  <2>1. UNCHANGED <<stubs, made, output, cap, reader, shut, closed>>
    BY DEF OpQuiet
  <2>2. \/ Len(buf'[output[k]]) <= cap[output[k]]
        \/ /\ Len(buf'[output[k]]) <= cap[output[k]] + 1
           /\ pc'[k] \in Sending \/ (op'.writing /\ op'.stub = k)
    BY <1>5
  <2>3. pc'[k] # "none"
    BY <1>5
  <2> QED
    BY <1>3, <1>5, <2>1, <2>2, <2>3, FlowStep
<1>9. TypeOK' /\ Holds' /\ Cover'
  <2>1. closed' \in [Chan -> BOOLEAN] /\ shut' \in [Stub -> BOOLEAN]
    BY DEF TypeOK
  <2> QED
    BY <1>5, <1>6, <1>7, <2>1, AdvanceRest
<1> QED
  BY <1>2, <1>3, <1>5, <1>8, <1>9 DEF Alive

\* The interrupt of the call, and that of the goroutine which RemoveToxic starts.
LEMMA InterruptsKeep ==
    ASSUME TypeOK, Sound, Cover, Alive, InterruptToxic \/ StopInterrupts
    PROVE  TypeOK' /\ Sound' /\ Cover' /\ panic' = "none"
<1>1. Structure /\ CallShape /\ Interruption
  BY DEF Sound
<1>2. op.stub \in Stub /\ op.prev \in Stub /\ op \in OpType
  BY Fields DEF TypeOK
<1>3. CASE InterruptToxic
  <2>1. op.pc = "interrupt" /\ op' = [op EXCEPT !.pc = "wait"]
    BY <1>3 DEF InterruptToxic
  <2>2. /\ op' \in OpType /\ op'.pc = "wait" /\ op'.call = op.call /\ op'.toxic = op.toxic
        /\ op'.pos = op.pos /\ op'.stub = op.stub /\ op'.prev = op.prev /\ op'.stop = op.stop
        /\ op'.writing = op.writing
    BY <1>2, <2>1 DEF OpType
  <2>3. op.writing = FALSE /\ op.stop = "none" /\ op.call # "none"
    BY <1>1, <2>1, Fields DEF CallShape, Idle
  <2>4. KeepsCall(op.stub)
    BY <2>2 DEF KeepsCall
  <2>5. /\ TypeOK' /\ Channels' /\ Holds' /\ Cover' /\ panic' = "none" /\ Live(op.stub)
        /\ pc'[op.stub] \in {"flush", "wflush", "exited"}
    BY <1>2, <1>3, <2>2, <2>4, InterruptStep DEF InterruptToxic
  <2>6. UNCHANGED <<chain, linked, stubs, shut>>
    BY <1>3 DEF InterruptToxic, OpQuiet
  <2>7. CallShape'
    BY <1>1, <2>1, <2>2, <2>3, <2>6 DEF CallShape
  <2>8. Interruption'
    BY <2>2, <2>3, <2>5, <2>6 DEF Interruption, Live
  <2> QED
    BY <2>5, <2>7, <2>8 DEF Sound, Channels
<1>4. CASE StopInterrupts
  <2>1. op.stop = "interrupt" /\ op' = [op EXCEPT !.stop = "wait"]
    BY <1>4 DEF StopInterrupts
  <2>2. /\ op' \in OpType /\ op'.pc = op.pc /\ op'.call = op.call /\ op'.toxic = op.toxic
        /\ op'.pos = op.pos /\ op'.stub = op.stub /\ op'.prev = op.prev /\ op'.stop = "wait"
        /\ op'.writing = op.writing
    BY <1>2, <2>1 DEF OpType
  <2>3. op.call = "remove" /\ op.pc \in {"drain", "await"}
    BY <1>1, <2>1, Fields DEF CallShape, Idle
  <2>4. KeepsCall(op.prev)
    BY <2>2 DEF KeepsCall
  <2>5. /\ TypeOK' /\ Channels' /\ Holds' /\ Cover' /\ panic' = "none" /\ Live(op.prev)
        /\ pc[op.prev] \in {"recv", "delay"} /\ pc'[op.prev] \in {"flush", "wflush", "exited"}
        /\ \A j \in Stub \ {op.prev} : pc'[j] = pc[j]
    BY <1>2, <1>4, <2>2, <2>4, InterruptStep DEF StopInterrupts
  <2>6. UNCHANGED <<chain, linked, stubs, shut>>
    BY <1>4 DEF StopInterrupts, OpQuiet
  <2>7. CallShape'
    BY <1>1, <2>1, <2>2, <2>3, <2>6 DEF CallShape
  <2>8. Interruption'
    <3>1. op.pc = "drain" => op.stub # op.prev /\ pc'[op.stub] = "exited" /\ ~shut[op.stub]
      BY <1>1, <1>2, <2>5 DEF Interruption
    <3>2. op.pc = "await" => shut[op.stub]
      BY <1>1 DEF Interruption
    <3> QED
      BY <2>2, <2>3, <2>5, <2>6, <3>1, <3>2 DEF Interruption, Live
  <2> QED
    BY <2>5, <2>7, <2>8 DEF Sound, Channels
<1> QED
  BY <1>3, <1>4

-----------------------------------------------------------------------------
(* The steps of a call *)

\* What a call leaves alone in every step after the interrupt.
LEMMA CallKept ==
    ASSUME TypeOK, Sound, Cover, Alive, OpQuiet, Channels', op' \in OpType,
           UNCHANGED <<stubVars, cap, closed, panic>>, buf' \in BufType, dropped' \subseteq Byte
    PROVE  TypeOK' /\ Holds' /\ panic' = "none"
<1>1. TypeOK'
  BY DEF TypeOK, BufType, OpQuiet, stubVars
<1>2. Holds'
  BY DEF Sound, Holds, stubVars
<1> QED
  BY <1>1, <1>2 DEF Alive

\* The steps in which nothing but the call goes on: UpdateToxic and RemoveToxic
\* return, or RemoveToxic and its goroutine exchange the answer.
LEMMA CallsKeep ==
    ASSUME TypeOK, Sound, Cover, Alive,
           ClosedAlready \/ RemoveInterrupted \/ StopAnswers \/ StopReceived \/ AwaitStop
    PROVE  TypeOK' /\ Sound' /\ Cover' /\ panic' = "none"
<1>1. Structure /\ CallShape /\ Interruption /\ op \in OpType
  BY DEF Sound, TypeOK
<1>2. OpQuiet /\ UNCHANGED <<stubVars, chanVars, dropped, panic>>
  BY DEF ClosedAlready, RemoveInterrupted, StopAnswers, StopReceived, AwaitStop
<1>3. UNCHANGED <<chain, linked, stubs, made, wrapper, mode, output, cap, reader, buf, pc, shut, closed>>
  BY <1>2 DEF OpQuiet, stubVars, chanVars
<1>4. buf' \in BufType /\ dropped' \subseteq Byte
  BY <1>2 DEF chanVars, TypeOK, BufType
<1>5. ASSUME op' = Idle, op.call # "add", op.writing = FALSE
      PROVE  TypeOK' /\ Channels' /\ Holds' /\ panic' = "none" /\ CallShape' /\ Interruption'
  <2>1. op'.call = "none" /\ CallShape' /\ Interruption' /\ op' \in OpType
    BY <1>5, Returned
  <2>2. KeepsCall(1) /\ (op.writing => op'.writing /\ op'.stub = op.stub)
    BY <1>5, <2>1 DEF KeepsCall
  <2>3. Channels'
    BY <1>3, <2>2, CallStep
  <2> QED
    BY <1>2, <1>4, <2>1, <2>3, CallKept DEF chanVars
<1>6. ASSUME op' = Idle, op.call = "remove", shut[op.stub]
      PROVE  Cover'
  <2>1. Wanted = Len(chain) + 1 /\ Wanted' = Len(chain) /\ linked
    BY <1>1, <1>3, <1>6, Returned DEF Wanted, CallShape
  <2>2. op.pos \in 1..Len(stubs) /\ op.stub = stubs[op.pos]
    BY <1>1, <1>6, CallPos DEF Wired
  <2>3. Len(stubs) >= Len(chain)
    BY <2>1, Fields DEF Cover
  <2> QED
    BY <1>3, <1>6, <2>1, <2>2, <2>3 DEF Cover
<1>7. ASSUME op' = Idle, op.call = "update"
      PROVE  Cover'
  <2>1. Wanted' = Wanted /\ Wired' = Wired /\ op'.call = "none" /\ \A i : Assigned(i)' = Assigned(i)
    BY <1>3, <1>7, Returned DEF Wanted, Wired, Assigned
  <2> QED
    BY <1>3, <1>7, <2>1 DEF Cover, Modes
<1>8. ASSUME op' \in OpType, op'.call = op.call, op'.pos = op.pos, op'.toxic = op.toxic,
             op'.stub = op.stub, op'.writing = op.writing
      PROVE  TypeOK' /\ Channels' /\ Holds' /\ panic' = "none" /\ Cover'
  <2>1. KeepsCall(1) /\ (op.writing => op'.writing /\ op'.stub = op.stub)
    BY <1>8 DEF KeepsCall
  <2>2. Channels'
    BY <1>3, <2>1, CallStep
  <2>3. Wired' = Wired /\ Wanted' = Wanted /\ \A i : Assigned(i)' = Assigned(i)
    BY <1>3, <1>8 DEF Wired, Wanted, Assigned
  <2>4. Cover'
    BY <1>3, <1>8, <2>3 DEF Cover, Modes
  <2> QED
    BY <1>2, <1>4, <1>8, <2>2, <2>4, CallKept DEF chanVars
<1>9. CASE ClosedAlready
  <2>1. op.call \in {"update", "remove"} /\ op.pc = "interrupt" /\ shut[op.stub] /\ op' = Idle
    BY <1>9 DEF ClosedAlready
  <2>2. op.writing = FALSE
    BY <1>1, <2>1, Fields DEF CallShape
  <2> QED
    BY <1>5, <1>6, <1>7, <2>1, <2>2 DEF Sound, Channels
<1>10. CASE AwaitStop
  <2>1. op.pc = "await" /\ op' = Idle
    BY <1>10 DEF AwaitStop
  <2>2. op.writing = FALSE /\ op.call = "remove" /\ shut[op.stub]
    BY <1>1, <2>1, Fields DEF CallShape, Interruption, Idle
  <2> QED
    BY <1>5, <1>6, <2>1, <2>2 DEF Sound, Channels
<1>11. CASE RemoveInterrupted
  <2>1. /\ op.call = "remove" /\ op.pc = "wait" /\ pc[op.stub] = "exited"
        /\ op' = [op EXCEPT !.pc = "drain", !.stop = "interrupt"]
    BY <1>11 DEF RemoveInterrupted, Interrupted
  <2>2. /\ op' \in OpType /\ op'.pc = "drain" /\ op'.call = op.call /\ op'.toxic = op.toxic
        /\ op'.pos = op.pos /\ op'.stub = op.stub /\ op'.prev = op.prev /\ op'.stop = "interrupt"
        /\ op'.writing = op.writing
    BY <1>1, <2>1 DEF OpType
  <2>3. CallShape'
    BY <1>1, <1>3, <2>1, <2>2 DEF CallShape
  <2>4. Interruption'
    BY <1>1, <1>3, <2>1, <2>2 DEF Interruption
  <2> QED
    BY <1>8, <2>2, <2>3, <2>4 DEF Sound, Channels
<1>12. CASE StopAnswers
  <2>1. PICK q \in {"yes", "no"} :
          /\ op' = [op EXCEPT !.stop = q] /\ op.stop \in {"interrupt", "wait"}
          /\ q = "yes" => op.stop = "wait" /\ pc[op.prev] = "exited"
    BY <1>12 DEF StopAnswers
  <2>2. /\ op' \in OpType /\ op'.pc = op.pc /\ op'.call = op.call /\ op'.toxic = op.toxic
        /\ op'.pos = op.pos /\ op'.stub = op.stub /\ op'.prev = op.prev /\ op'.stop = q
        /\ op'.writing = op.writing
    BY <1>1, <2>1 DEF OpType
  <2>3. op.call = "remove" /\ op.pc \notin {"interrupt", "wait", "empty"}
    BY <1>1, <2>1 DEF CallShape
  <2>4. CallShape'
    BY <1>1, <1>3, <2>1, <2>2, <2>3 DEF CallShape
  <2>5. Interruption'
    BY <1>1, <1>3, <2>1, <2>2 DEF Interruption
  <2> QED
    BY <1>8, <2>2, <2>4, <2>5 DEF Sound, Channels
<1>13. CASE StopReceived
  <2>1. op.pc = "drain"
    BY <1>13 DEF StopReceived
  <2>2. op.call = "remove"
    BY <1>1, <2>1, Fields DEF CallShape, Idle
  <2>3. CASE op.stop = "yes" /\ op' = [op EXCEPT !.pc = "empty"]
    <3>1. /\ op' \in OpType /\ op'.pc = "empty" /\ op'.call = op.call /\ op'.toxic = op.toxic
          /\ op'.pos = op.pos /\ op'.stub = op.stub /\ op'.prev = op.prev /\ op'.stop = "yes"
          /\ op'.writing = op.writing
      BY <1>1, <2>3 DEF OpType
    <3>2. CallShape'
      BY <1>1, <1>3, <2>1, <2>2, <3>1 DEF CallShape
    <3>3. Interruption'
      BY <1>1, <1>3, <2>1, <2>3, <3>1 DEF Interruption
    <3> QED
      BY <1>8, <3>1, <3>2, <3>3 DEF Sound, Channels
  <2>4. CASE op.stop = "no" /\ op' = [op EXCEPT !.stop = "taken"]
    <3>1. /\ op' \in OpType /\ op'.pc = "drain" /\ op'.call = op.call /\ op'.toxic = op.toxic
          /\ op'.pos = op.pos /\ op'.stub = op.stub /\ op'.prev = op.prev /\ op'.stop = "taken"
          /\ op'.writing = op.writing
      BY <1>1, <2>1, <2>4 DEF OpType
    <3>2. CallShape'
      BY <1>1, <1>3, <2>1, <2>2, <3>1 DEF CallShape
    <3>3. Interruption'
      BY <1>1, <1>3, <2>1, <3>1 DEF Interruption
    <3> QED
      BY <1>8, <3>1, <3>2, <3>3 DEF Sound, Channels
  <2> QED
    BY <1>13, <2>3, <2>4 DEF StopReceived
<1> QED
  BY <1>9, <1>10, <1>11, <1>12, <1>13

\* RemoveToxic passes on what is left in the Input of the removed stub.
LEMMA DrainKeeps ==
    ASSUME TypeOK, Sound, Cover, Alive, DrainChunk \/ DrainWritten
    PROVE  TypeOK' /\ Sound' /\ Cover' /\ panic' = "none"
<1> DEFINE k == op.stub
           c == output[op.stub]
<1>1. Structure /\ Wiring /\ Queues /\ CallShape /\ Interruption /\ op \in OpType
  BY DEF Sound, TypeOK
<1>2. op.pc \in {"drain", "empty"}
  BY <1>1 DEF DrainChunk, DrainWritten, CallShape
<1>3. k \in Stub /\ Live(k) /\ pc[k] = "exited" /\ op.call = "remove"
  BY <1>1, <1>2, InterruptedLive, Fields DEF Interruption, CallShape, Idle
<1>4. k \in Chan /\ c \in Chan /\ c # k /\ ~closed[c]
  BY <1>1, <1>3, LiveSends, BoundsAssumption DEF Stub, Chan
<1>5. /\ buf \in BufType
      /\ \A d \in Chan : buf[d] \in Seq(Seq(Byte)) /\ Len(buf[d]) \in Nat /\ cap[d] \in Nat
  BY DEF TypeOK, BufType
<1>6. PICK w \in BOOLEAN : op' = [op EXCEPT !.writing = w] /\ w = DrainChunk
  BY DEF DrainChunk, DrainWritten
<1>7. /\ op' \in OpType /\ op'.pc = op.pc /\ op'.call = op.call /\ op'.toxic = op.toxic
      /\ op'.pos = op.pos /\ op'.stub = op.stub /\ op'.prev = op.prev /\ op'.stop = op.stop
      /\ op'.writing = w
  BY <1>1, <1>6 DEF OpType
<1>8. OpQuiet /\ UNCHANGED <<stubVars, cap, closed>>
  BY DEF DrainChunk, DrainWritten
<1>9. /\ buf' \in BufType /\ dropped' \subseteq Byte /\ panic' = panic
      /\ \A d \in Chan \ {c} : Len(buf'[d]) <= Len(buf[d])
      /\ Len(buf'[c]) <= cap[c] \/ (Len(buf'[c]) <= cap[c] + 1 /\ w)
  <2>1. CASE DrainChunk
    <3>1. /\ Move(k, c, Head(buf[k])) /\ dropped' = dropped /\ ~op.writing
          /\ buf[k] # <<>> \/ ChanLen(k) > 0
      BY <2>1 DEF DrainChunk
    <3>2. buf[k] # <<>>
      <4>1. Blocked(k) => Len(buf[k]) > 0
        BY <1>4, <1>5 DEF Blocked
      <4>2. ChanLen(k) > 0 => Len(buf[k]) > 0
        BY <4>1 DEF ChanLen
      <4> QED
        BY <1>4, <1>5, <3>1, <4>2, SeqFacts
    <3>3. Head(buf[k]) \in Seq(Byte)
      BY <1>3, <3>2, Pieces
    <3>4. /\ buf' \in BufType /\ Len(buf'[c]) = Len(buf[c]) + 1 /\ Len(buf'[k]) = Len(buf[k]) - 1
          /\ \A d \in Chan \ {c, k} : buf'[d] = buf[d]
      BY <1>4, <1>5, <3>1, <3>2, <3>3, MoveType DEF Move
    <3>5. Len(buf[c]) <= cap[c]
      BY <1>3, <3>1, OwnChannel DEF Sending
    <3>6. Len(buf'[c]) <= cap[c] + 1 /\ Len(buf'[k]) <= Len(buf[k])
      BY <1>4, <1>5, <3>4, <3>5, SMTT(60)
    <3>7. \A d \in Chan \ {c} : Len(buf'[d]) <= Len(buf[d])
      BY <1>5, <3>4, <3>6
    <3>8. panic' = panic /\ dropped' \subseteq Byte
      BY <1>4, <3>1 DEF Move, TypeOK
    <3> QED
      BY <1>6, <2>1, <3>4, <3>6, <3>7, <3>8
  <2>2. CASE DrainWritten /\ ~Blocked(c)
    <3>1. UNCHANGED <<buf, dropped, panic>>
      BY <2>2 DEF DrainWritten
    <3>2. Len(buf[c]) <= cap[c]
      BY <1>4, <1>5, <2>2 DEF Blocked
    <3>3. \A d \in Chan \ {c} : Len(buf'[d]) <= Len(buf[d])
      BY <1>5, <3>1
    <3> QED
      BY <1>5, <3>1, <3>2, <3>3 DEF TypeOK
  <2>3. CASE DrainWritten /\ Blocked(c)
    <3>1. TakeBack(c) /\ panic' = panic
      BY <2>3 DEF DrainWritten
    <3>2. Len(buf[c]) > 0 /\ Len(buf[c]) <= cap[c] + 1 /\ buf[c] # <<>>
      <4>1. Len(buf[c]) > cap[c] /\ Len(buf[c]) <= cap[c] + 1
        BY <1>1, <1>4, <2>3 DEF Blocked, Queues
      <4>2. Len(buf[c]) > 0
        BY <1>4, <1>5, <4>1
      <4> QED
        BY <1>4, <1>5, <4>1, <4>2, SeqFacts
    <3>3. /\ buf' \in BufType /\ Len(buf'[c]) = Len(buf[c]) - 1
          /\ \A d \in Chan \ {c} : buf'[d] = buf[d]
      BY <1>4, <1>5, <3>1, <3>2, PopType DEF TakeBack
    <3>4. Range(Last(buf[c])) \subseteq Byte
      <4>1. Last(buf[c]) \in Seq(Byte)
        BY <1>4, <1>5, <3>2, SeqFacts
      <4> QED
        BY <4>1, SeqFacts
    <3>5. dropped' \subseteq Byte
      BY <3>1, <3>4 DEF TakeBack, TypeOK
    <3>6. Len(buf'[c]) <= cap[c]
      BY <1>4, <1>5, <3>2, <3>3
    <3>7. \A d \in Chan \ {c} : Len(buf'[d]) <= Len(buf[d])
      BY <1>5, <3>3
    <3> QED
      BY <3>1, <3>3, <3>5, <3>6, <3>7
  <2> QED
    BY <2>1, <2>2, <2>3
<1>10. KeepsCall(k)
  BY <1>7 DEF KeepsCall
<1>11. UNCHANGED <<stubs, made, output, cap, reader, shut, closed, pc>>
  BY <1>8 DEF OpQuiet, stubVars
<1>12. Channels'
  <2>1. \/ Len(buf'[c]) <= cap[c]
        \/ /\ Len(buf'[c]) <= cap[c] + 1
           /\ pc'[k] \in Sending \/ (op'.writing /\ op'.stub = k)
    BY <1>7, <1>9
  <2>2. pc'[k] # "none" /\ \A j \in Stub \ {k} : pc'[j] = pc[j]
    BY <1>3, <1>11
  <2> QED
    BY <1>3, <1>9, <1>10, <1>11, <2>1, <2>2, FlowStep
<1>13. TypeOK' /\ Holds' /\ panic' = "none"
  BY <1>7, <1>8, <1>9, <1>12, CallKept
<1>14. UNCHANGED <<chain, linked, stubs, wrapper, mode, pc, shut>>
  BY <1>8 DEF OpQuiet, stubVars
<1>15. CallShape'
  BY <1>1, <1>2, <1>3, <1>7, <1>14 DEF CallShape
<1>16. Interruption'
  BY <1>1, <1>7, <1>14 DEF Interruption
<1>17. Cover'
  <2>1. Wired' = Wired /\ Wanted' = Wanted /\ \A i : Assigned(i)' = Assigned(i)
    BY <1>7, <1>14 DEF Wired, Wanted, Assigned
  <2> QED
    BY <1>7, <1>14, <2>1 DEF Cover, Modes
<1> QED
  BY <1>12, <1>13, <1>15, <1>16, <1>17 DEF Sound, Channels

\* The Input of the removed stub has ended: RemoveToxic closes the stub.
LEMMA DrainEndsKeeps ==
    ASSUME TypeOK, Sound, Cover, Alive, DrainEnds
    PROVE  TypeOK' /\ Sound' /\ Cover' /\ panic' = "none"
<1> DEFINE k == op.stub
<1>1. Structure /\ Wiring /\ Queues /\ CallShape /\ Interruption /\ op \in OpType
  BY DEF Sound, TypeOK
<1>2. op.pc = "drain" /\ ~op.writing /\ Close(k, output[k])
  BY DEF DrainEnds
<1>3. k \in Stub /\ Live(k) /\ pc[k] = "exited" /\ op.call = "remove" /\ linked
  BY <1>1, <1>2, InterruptedLive, Fields DEF Interruption, CallShape, Idle
<1>4. UNCHANGED <<chain, linked, stubs, made, wrapper, mode, pc, held, output, buf, cap, reader,
                  sent, writer, wbuf, delivered, dropped, nops>>
  BY DEF DrainEnds, OpQuiet
<1>5. op' = Idle \/ op' = [op EXCEPT !.pc = "await"]
  BY DEF DrainEnds
<1>6. op' = [op EXCEPT !.pc = "await"] =>
        /\ op' \in OpType /\ op'.pc = "await" /\ op'.call = op.call /\ op'.toxic = op.toxic
        /\ op'.pos = op.pos /\ op'.stub = op.stub /\ op'.prev = op.prev /\ op'.stop = op.stop
        /\ op'.writing = op.writing
  BY <1>1 DEF OpType
<1>7. KeepsCall(k) /\ op' \in OpType
  BY <1>2, <1>3, <1>5, <1>6, Returned DEF KeepsCall
<1>8. pc[k] \notin Sending
  BY <1>3 DEF Sending
<1>9. /\ Channels' /\ panic' = panic
      /\ shut' \in [Stub -> BOOLEAN] /\ closed' \in [Chan -> BOOLEAN]
      /\ shut'[k] /\ \A j \in Stub \ {k} : shut'[j] = shut[j]
  BY <1>2, <1>3, <1>4, <1>7, <1>8, CloseStep
<1>10. TypeOK' /\ Holds'
  BY <1>4, <1>7, <1>9 DEF TypeOK, Sound, Holds
<1>11. CallShape' /\ Interruption'
  <2>1. CASE op' = Idle
    BY <2>1, Returned
  <2>2. CASE op' = [op EXCEPT !.pc = "await"]
    <3>1. CallShape'
      BY <1>1, <1>2, <1>3, <1>4, <1>6, <2>2 DEF CallShape
    <3>2. op.prev # k /\ op.prev \in Stub
      <4>1. /\ op.pos \in 1..Wired /\ op.stub = stubs[op.pos]
            /\ op.pos - 1 \in 1..Wired /\ op.prev = stubs[op.pos - 1]
        BY <1>1, <1>3, CallPos
      <4>2. op.pos \in 1..Len(stubs) /\ op.pos - 1 \in 1..Len(stubs)
        BY <1>3, <4>1 DEF Wired
      <4>3. op.pos # op.pos - 1
        BY Fields
      <4> QED
        BY <1>1, <4>1, <4>2, <4>3, Fields DEF Structure
    <3>3. Interruption'
      BY <1>1, <1>4, <1>6, <1>9, <2>2, <3>2 DEF Interruption
    <3> QED
      BY <3>1, <3>3
  <2> QED
    BY <1>5, <2>1, <2>2
<1>12. Cover'
  <2>1. op.pos \in 1..Len(stubs) /\ k = stubs[op.pos]
    BY <1>1, <1>3, CallPos DEF Wired
  <2>2. Len(stubs) >= Len(chain) + 1
    BY <1>3 DEF Cover, Wanted
  <2>3. Wanted' \in {Len(chain), Len(chain) + 1}
    BY <1>4 DEF Wanted
  <2>4. Len(stubs) >= Wanted'
    BY <2>2, <2>3, Fields
  <2> QED
    BY <1>4, <1>9, <2>1, <2>4 DEF Cover
<1> QED
  BY <1>9, <1>10, <1>11, <1>12 DEF Sound, Channels, Alive

\* UpdateToxic runs the interrupted stub again.
LEMMA UpdateResumesKeeps ==
    ASSUME TypeOK, Sound, Cover, Alive, UpdateResumes
    PROVE  TypeOK' /\ Sound' /\ Cover' /\ panic' = "none"
<1> DEFINE k == op.stub
<1>1. Structure /\ CallShape /\ Interruption /\ Holds
  BY DEF Sound
<1>2. /\ op.call = "update" /\ op.pc = "wait" /\ pc[k] = "exited" /\ op' = Idle
      /\ wrapper' = [wrapper EXCEPT ![k] = op.toxic] /\ pc' = [pc EXCEPT ![k] = "recv"]
  BY DEF UpdateResumes, Interrupted
<1>3. PICK m \in Modes(op.toxic) : mode' = [mode EXCEPT ![k] = m]
  BY DEF UpdateResumes
<1>4. UNCHANGED <<chain, linked, made, nops, stubs, held, output, shut, buf, cap, closed, reader,
                  sent, writer, wbuf, delivered, dropped, panic>>
  BY DEF UpdateResumes, OpQuiet, chanVars
<1>5. k \in Stub /\ Live(k) /\ op.toxic \in Toxics
  BY <1>1, <1>2, InterruptedLive, Fields
<1>6. m \in Kinds
  BY <1>3, <1>5, ToxicsAssumption DEF Modes, Kinds
<1>7. /\ pc' \in [Stub -> Pcs] /\ pc'[k] = "recv" /\ \A j \in Stub \ {k} : pc'[j] = pc[j]
      /\ mode' \in [Stub -> Kinds] /\ mode'[k] = m /\ \A j \in Stub \ {k} : mode'[j] = mode[j]
      /\ wrapper' \in [Stub -> Toxics] /\ wrapper'[k] = op.toxic
      /\ \A j \in Stub \ {k} : wrapper'[j] = wrapper[j]
  BY <1>2, <1>3, <1>5, <1>6 DEF TypeOK, Pcs
<1>8. /\ op'.call = "none" /\ op'.writing = FALSE /\ CallShape' /\ Interruption' /\ op' \in OpType
      /\ Wired' = Len(stubs') /\ Wanted' = Len(chain') /\ \A i : Assigned(i)' = chain'[i]
  BY <1>2, Returned
<1>9. op.writing = FALSE
  BY <1>1, <1>2, Fields DEF CallShape
<1>10. Channels'
  <2>1. KeepsCall(k)
    BY <1>2, <1>8, <1>9 DEF KeepsCall
  <2>2. Len(buf'[output[k]]) <= cap[output[k]]
    BY <1>2, <1>4, <1>5, <1>9, OwnChannel DEF Sending
  <2>3. buf' \in BufType /\ \A c \in Chan : Len(buf'[c]) <= Len(buf[c])
    BY <1>4 DEF TypeOK, BufType
  <2> QED
    BY <1>4, <1>5, <1>7, <2>1, <2>2, <2>3, FlowStep
<1>11. TypeOK'
  BY <1>4, <1>7, <1>8 DEF TypeOK, Pcs
<1>12. Holds'
  BY <1>1, <1>2, <1>4, <1>7 DEF Holds
<1>13. Cover'
  <2>1. Wired = Len(stubs) /\ Wanted = Len(chain) /\ \A i : Assigned(i) = chain[i]
    BY <1>2 DEF Wired, Wanted, Assigned
  <2>2. ASSUME linked, \A i \in 1..Len(stubs) : ~shut[stubs[i]]
        PROVE  /\ Len(stubs) = Len(chain)
               /\ \A i \in 1..Len(stubs) :
                    wrapper'[stubs[i]] = chain[i] /\ mode'[stubs[i]] \in Modes(chain[i])
    <3>1. /\ Len(stubs) = Len(chain)
          /\ \A i \in 1..Len(stubs) :
               wrapper[stubs[i]] = chain[i] /\ mode[stubs[i]] \in Modes(chain[i])
      BY <1>2, <2>1, <2>2 DEF Cover
    <3>2. op.pos \in 1..Len(stubs) /\ k = stubs[op.pos] /\ op.toxic = chain[op.pos]
      BY <1>1, <1>2, <2>1, CallPos DEF CallShape
    <3>3. ASSUME NEW i \in 1..Len(stubs)
          PROVE  wrapper'[stubs[i]] = chain[i] /\ mode'[stubs[i]] \in Modes(chain[i])
      <4>1. stubs[i] \in Stub
        BY Fields
      <4>2. stubs[i] = k => i = op.pos
        BY <1>1, <3>2 DEF Structure
      <4> QED
        BY <1>3, <1>7, <3>1, <3>2, <4>1, <4>2
    <3> QED
      BY <3>1, <3>3
  <2>3. linked => Len(stubs) >= Len(chain)
    BY <2>1 DEF Cover
  <2> QED
    BY <1>4, <1>8, <2>2, <2>3 DEF Cover, Modes
<1> QED
  BY <1>4, <1>8, <1>10, <1>11, <1>12, <1>13 DEF Sound, Channels, Alive

\* The call that is adding a stub.
LEMMA Adding ==
    ASSUME TypeOK, Sound, Cover, op.call = "add"
    PROVE  /\ Len(stubs) \in Nat /\ Len(stubs) >= 2 /\ Wired = Len(stubs) - 1 /\ Wanted = Len(chain)
           /\ op.pos = Len(stubs) - 1 /\ op.stub = stubs[Len(stubs) - 1] /\ op.stub \in Stub
           /\ New \in Stub /\ New \in Chan /\ New # op.stub /\ New # 1 /\ New = Last(stubs)
           /\ New <= made /\ op.stub <= made
           /\ \A i \in 1..(Len(stubs) - 1) : stubs[i] # New
           /\ \A i \in 1..(Len(stubs) - 2) : stubs[i] # op.stub
           /\ Fresh(New) /\ output[New] = output[op.stub] /\ op.writing = FALSE /\ linked
<1>1. Structure /\ CallShape
  BY DEF Sound
<1>2. /\ Len(stubs) \in Nat /\ op.stub \in Stub
      /\ \A i \in 1..Len(stubs) : stubs[i] \in Stub /\ stubs[i] \in Nat \ {0}
  BY Fields
<1>3. Len(stubs) >= 2 /\ Wired = Len(stubs) - 1 /\ Wanted = Len(chain)
  BY <1>1, <1>2 DEF Structure, Wired, Wanted
<1>4. op.pos = Len(stubs) - 1 /\ op.stub = stubs[Len(stubs) - 1] /\ linked
  BY <1>1 DEF CallShape
<1>5. New \in Stub /\ New \in Chan /\ New = Last(stubs)
  BY <1>2, <1>3, BoundsAssumption DEF New, Last, Stub, Chan
<1>6. /\ \A i \in 1..(Len(stubs) - 1) : stubs[i] # New
      /\ \A i \in 1..(Len(stubs) - 2) : stubs[i] # op.stub
  BY <1>1, <1>2, <1>3, <1>4 DEF Structure, New
<1>7. New # op.stub /\ New # 1 /\ New <= made /\ op.stub <= made
  BY <1>1, <1>2, <1>3, <1>4, <1>6 DEF Structure, New
<1>8. Fresh(New) /\ output[New] = output[op.stub]
  BY <1>1 DEF Structure, New
<1>9. op.writing = FALSE
  BY <1>1, Fields DEF CallShape
<1> QED
  BY <1>2, <1>3, <1>4, <1>5, <1>6, <1>7, <1>8, <1>9

\* A stub is added to a link whose last stub is closed: it closes its own Input.
LEMMA AddToClosedKeeps ==
    ASSUME TypeOK, Sound, Cover, Alive, AddToClosed
    PROVE  TypeOK' /\ Sound' /\ Cover' /\ panic' = "none"
<1> DEFINE n == Len(stubs)
<1>1. Structure /\ Wiring /\ Runs /\ Queues /\ Holds
  BY DEF Sound
<1>2. op.call = "add" /\ shut[op.stub] /\ op' = Idle
  BY DEF AddToClosed
<1>3. /\ n \in Nat /\ n >= 2 /\ Wired = n - 1 /\ Wanted = Len(chain)
      /\ op.stub = stubs[n - 1] /\ New \in Stub /\ New \in Chan /\ New # 1 /\ New = Last(stubs)
      /\ New <= made /\ Fresh(New) /\ op.writing = FALSE
      /\ \A i \in 1..(n - 1) : stubs[i] # New
  BY <1>2, Adding
<1>4. output' = [output EXCEPT ![New] = New] /\ Close(New, New)
  BY <1>3 DEF AddToClosed
<1>5. UNCHANGED <<chain, linked, made, nops, stubs, wrapper, mode, pc, held, buf, cap, reader,
                  sent, writer, wbuf, delivered, dropped>>
  BY DEF AddToClosed, OpQuiet
<1>6. ~Blocked(New) /\ ~closed[New] /\ ~shut[New]
  <2>1. Len(buf[New]) = 0 /\ cap[New] \in Nat
    BY <1>3 DEF Fresh, TypeOK
  <2> QED
    BY <1>3, <2>1 DEF Blocked, Fresh
<1>7. /\ panic' = panic /\ shut' = [shut EXCEPT ![New] = TRUE]
      /\ closed' = [closed EXCEPT ![New] = TRUE]
  BY <1>4, <1>6 DEF Close
<1>8. /\ output' \in [Stub -> Chan] /\ shut' \in [Stub -> BOOLEAN] /\ closed' \in [Chan -> BOOLEAN]
      /\ shut'[New] /\ \A j \in Stub \ {New} : output'[j] = output[j] /\ shut'[j] = shut[j]
      /\ \A c \in Chan \ {New} : closed'[c] = closed[c]
  BY <1>3, <1>4, <1>7 DEF TypeOK
<1>9. /\ op'.call = "none" /\ op'.writing = FALSE /\ CallShape' /\ Interruption' /\ op' \in OpType
      /\ Wired' = n /\ Wanted' = Len(chain)
  BY <1>2, <1>5, Returned
<1>10. TypeOK' /\ Holds'
  BY <1>1, <1>5, <1>7, <1>8, <1>9 DEF TypeOK, Holds
<1>11. Structure'
  <2>1. ASSUME NEW k \in Stub, k > made
        PROVE  Fresh(k)'
    <3>1. k # New /\ k \in Chan /\ Fresh(k)
      BY <1>1, <1>3, <2>1, Fields, BoundsAssumption DEF Structure, Stub, Chan
    <3> QED
      BY <1>5, <1>8, <3>1 DEF Fresh
  <2> QED
    BY <1>1, <1>3, <1>5, <1>9, <2>1 DEF Structure
<1>12. Wiring'
  <2>1. closed'[1] <=> reader' = "done"
    BY <1>1, <1>3, <1>5, <1>8, BoundsAssumption DEF Wiring, Chan
  <2>2. ASSUME NEW i \in 1..n, ~shut'[stubs[i]]
        PROVE  output'[stubs[i]] = After(i)' /\ ~closed'[After(i)']
    <3>1. i # n /\ stubs[i] \in Stub
      BY <1>3, <1>8, <2>2, Fields DEF New
    <3>2. stubs[i] # New /\ ~shut[stubs[i]] /\ i # n - 1
      BY <1>2, <1>3, <1>8, <2>2, <3>1
    <3>3. i \in 1..(n - 2) /\ i + 1 \in 1..(n - 1)
      BY <1>3, <3>1, <3>2
    <3>4. After(i)' = stubs[i + 1] /\ After(i) = stubs[i + 1]
      BY <1>3, <1>5, <1>9, <3>3 DEF After
    <3>5. output[stubs[i]] = stubs[i + 1] /\ ~closed[stubs[i + 1]]
      BY <1>1, <1>3, <3>2, <3>3, <3>4 DEF Wiring
    <3>6. stubs[i + 1] # New /\ stubs[i + 1] \in Chan
      BY <1>3, <3>1, <3>3, <3>5 DEF TypeOK
    <3> QED
      BY <1>8, <3>1, <3>2, <3>4, <3>5, <3>6
  <2> QED
    BY <1>5, <1>9, <2>1, <2>2 DEF Wiring
<1>13. Runs'
  <2>1. ASSUME NEW k \in Stub, Live(k)
        PROVE  Live(k)'
    <3>1. PICK i \in 1..(n - 1) : k = stubs[i]
      BY <1>3, <2>1 DEF Live
    <3>2. ~shut'[k] /\ i \in 1..n
      BY <1>3, <1>8, <2>1, <3>1 DEF Live
    <3> QED
      BY <1>5, <1>9, <3>1, <3>2 DEF Live
  <2> QED
    BY <1>1, <1>5, <2>1 DEF Runs
<1>14. Queues'
  <2>1. ASSUME NEW c \in Chan, Sender(c)
        PROVE  Sender(c)'
    <3>1. pc[New] \notin Sending
      BY <1>3 DEF Fresh, Sending
    <3> QED
      BY <1>3, <1>5, <1>8, <2>1, <3>1 DEF Sender
  <2> QED
    BY <1>1, <1>5, <2>1 DEF Queues, Blocked
<1>15. Cover'
  <2>1. linked => n >= Len(chain)
    BY <1>3 DEF Cover
  <2>2. n \in 1..n /\ shut'[stubs[n]]
    BY <1>3, <1>8 DEF New
  <2> QED
    BY <1>5, <1>9, <2>1, <2>2 DEF Cover
<1> QED
  BY <1>7, <1>9, <1>10, <1>11, <1>12, <1>13, <1>14, <1>15 DEF Sound, Alive

\* The last stub was interrupted: it sends to the new one, and both run.
LEMMA AddResumesKeeps ==
    ASSUME TypeOK, Sound, Cover, Alive, AddResumes
    PROVE  IndInv'
<1> DEFINE n == Len(stubs)
           k == op.stub
<1>1. Structure /\ Wiring /\ Runs /\ Queues /\ Holds /\ Interruption /\ CallShape
  BY DEF Sound
<1>2. op.call = "add" /\ op.pc = "wait" /\ pc[k] = "exited" /\ op' = Idle
  BY DEF AddResumes, Interrupted
<1>3. /\ n \in Nat /\ n >= 2 /\ Wired = n - 1 /\ Wanted = Len(chain) /\ op.pos = n - 1
      /\ k = stubs[n - 1] /\ k \in Stub /\ New \in Stub /\ New \in Chan /\ New # k /\ New # 1
      /\ New = Last(stubs)
      /\ New <= made /\ k <= made /\ Fresh(New) /\ output[New] = output[k] /\ op.writing = FALSE
      /\ linked /\ \A i \in 1..(n - 1) : stubs[i] # New
      /\ \A i \in 1..(n - 2) : stubs[i] # k
  BY <1>2, Adding
<1>4. UNCHANGED <<chain, linked, made, nops, stubs, held, shut, buf, cap, closed, reader,
                  sent, writer, wbuf, delivered, dropped>>
  BY DEF AddResumes, OpQuiet, chanVars
<1>5. /\ op'.call = "none" /\ op'.writing = FALSE /\ CallShape' /\ Interruption' /\ op' \in OpType
      /\ Wired' = n /\ Wanted' = Len(chain) /\ \A i : Assigned(i)' = chain[i]
  BY <1>2, <1>4, Returned
<1>6. n >= Len(chain) /\ Len(chain) \in Nat
  BY <1>3, Fields DEF Cover
<1>7. CASE op.pos > Len(chain)
  <2>1. panic' = "index" /\ UNCHANGED <<output, wrapper, mode, pc>>
    BY <1>7 DEF AddResumes
  <2>2. TypeOK'
    BY <1>4, <1>5, <2>1 DEF TypeOK
  <2>3. n # Len(chain)
    BY <1>3, <1>6, <1>7
  <2>4. PICK i \in 1..n : shut[stubs[i]]
    BY <1>3, <2>3 DEF Cover
  <2>5. Cover'
    BY <1>4, <1>5, <1>6, <2>4 DEF Cover
  <2> QED
    BY <1>4, <2>1, <2>2, <2>4, <2>5 DEF IndInv, NoChannelPanic, Alive
<1>8. CASE ~(op.pos > Len(chain))
  <2>1. /\ output' = [output EXCEPT ![k] = New] /\ panic' = panic
        /\ wrapper' = [wrapper EXCEPT ![New] = op.toxic, ![k] = chain[op.pos]]
        /\ pc' = [pc EXCEPT ![New] = "recv", ![k] = "recv"]
    BY <1>3, <1>8 DEF AddResumes
  <2>2. PICK a \in Modes(op.toxic), b \in Modes(chain[op.pos]) :
          mode' = [mode EXCEPT ![New] = a, ![k] = b]
    BY <1>3, <1>8 DEF AddResumes
  <2>3. op.toxic \in Toxics /\ chain[op.pos] \in Toxics
    BY <1>3, <1>6, <1>8, Fields
  <2>4. a \in Kinds /\ b \in Kinds
    BY <2>2, <2>3, ToxicsAssumption DEF Modes, Kinds
  <2>5. /\ output' \in [Stub -> Chan] /\ output'[k] = New
        /\ \A j \in Stub \ {k} : output'[j] = output[j]
    BY <1>3, <2>1 DEF TypeOK
  <2>6. /\ pc' \in [Stub -> Pcs] /\ pc'[k] = "recv" /\ pc'[New] = "recv"
        /\ \A j \in Stub \ {k, New} : pc'[j] = pc[j]
    BY <1>3, <2>1 DEF TypeOK, Pcs
  <2>7. /\ wrapper' \in [Stub -> Toxics] /\ wrapper'[k] = chain[op.pos] /\ wrapper'[New] = op.toxic
        /\ \A j \in Stub \ {k, New} : wrapper'[j] = wrapper[j]
    BY <1>3, <2>1, <2>3 DEF TypeOK
  <2>8. /\ mode' \in [Stub -> Kinds] /\ mode'[k] = b /\ mode'[New] = a
        /\ \A j \in Stub \ {k, New} : mode'[j] = mode[j]
    BY <1>3, <2>2, <2>4 DEF TypeOK
  <2>9. TypeOK'
    BY <1>4, <1>5, <2>1, <2>5, <2>6, <2>7, <2>8 DEF TypeOK, Pcs
  <2>10. ~shut[k] /\ output[k] = 0 /\ ~closed[0]
    <3>1. ~shut[k]
      BY <1>1, <1>2 DEF Interruption
    <3>2. n - 1 \in 1..Wired /\ After(n - 1) = 0
      BY <1>3 DEF After
    <3> QED
      BY <1>1, <1>3, <3>1, <3>2 DEF Wiring
  <2>11. Structure'
    <3>1. ASSUME NEW j \in Stub, j > made
          PROVE  Fresh(j)'
      <4>1. j # New /\ j # k /\ Fresh(j)
        BY <1>1, <1>3, <3>1, Fields DEF Structure, Stub
      <4> QED
        BY <1>4, <2>6, <4>1 DEF Fresh
    <3> QED
      BY <1>1, <1>3, <1>4, <1>5, <3>1 DEF Structure
  <2>12. Wiring'
    <3>1. ASSUME NEW i \in 1..n, ~shut[stubs[i]]
          PROVE  output'[stubs[i]] = After(i)' /\ ~closed[After(i)']
      <4>1. stubs[i] \in Stub
        BY Fields
      <4>2. CASE i = n
        <5>1. After(i)' = 0 /\ stubs[i] = New
          BY <1>3, <1>5, <4>2 DEF After, New
        <5> QED
          BY <1>3, <2>5, <2>10, <5>1
      <4>3. CASE i = n - 1
        <5>1. After(i)' = New /\ stubs[i] = k
          BY <1>3, <1>4, <1>5, <4>3 DEF After, New
        <5> QED
          BY <1>3, <2>5, <5>1 DEF Fresh
      <4>4. CASE i # n /\ i # n - 1
        <5>1. i \in 1..(n - 2) /\ i \in 1..Wired
          BY <1>3, <4>4
        <5>2. After(i)' = stubs[i + 1] /\ After(i) = stubs[i + 1]
          BY <1>3, <1>4, <1>5, <5>1 DEF After
        <5> QED
          BY <1>1, <1>3, <2>5, <3>1, <4>1, <5>1, <5>2 DEF Wiring
      <4> QED
        BY <4>2, <4>3, <4>4
    <3> QED
      BY <1>1, <1>4, <1>5, <3>1 DEF Wiring
  <2>13. Runs'
    <3>1. \A j \in {k, New} : Live(j)'
      <4>1. n \in 1..n /\ n - 1 \in 1..n /\ New = stubs[n]
        BY <1>3 DEF New
      <4> QED
        BY <1>3, <1>4, <1>5, <2>10, <4>1 DEF Live, Fresh
    <3>2. \A j \in Stub : Live(j) => Live(j)'
      <4>1. 1..Wired \subseteq 1..n
        BY <1>3
      <4> QED
        BY <1>4, <1>5, <4>1 DEF Live
    <3> QED
      BY <1>1, <2>6, <3>1, <3>2 DEF Runs
  <2>14. Queues'
    <3>1. ASSUME NEW c \in Chan, Sender(c)
          PROVE  Sender(c)'
      <4>1. pc[New] \notin Sending /\ pc[k] \notin Sending
        BY <1>2, <1>3 DEF Fresh, Sending
      <4> QED
        BY <1>3, <1>4, <2>5, <2>6, <3>1, <4>1 DEF Sender
    <3> QED
      BY <1>1, <1>4, <3>1 DEF Queues, Blocked
  <2>15. Holds'
    <3>1. held[k] = <<>> /\ held[New] = <<>>
      BY <1>1, <1>2, <1>3 DEF Holds, Fresh
    <3> QED
      BY <1>1, <1>4, <2>6, <2>8, <3>1 DEF Holds
  <2>16. Cover'
    <3>1. ASSUME \A i \in 1..n : ~shut[stubs[i]]
          PROVE  /\ n = Len(chain)
                 /\ \A i \in 1..n : wrapper'[stubs[i]] = chain[i] /\ mode'[stubs[i]] \in Modes(chain[i])
      <4>1. /\ n = Len(chain) /\ chain[n] = op.toxic
            /\ \A i \in 1..(n - 1) : wrapper[stubs[i]] = chain[i] /\ mode[stubs[i]] \in Modes(chain[i])
        BY <1>2, <1>3, <3>1 DEF Cover, Assigned
      <4>2. ASSUME NEW i \in 1..n
            PROVE  wrapper'[stubs[i]] = chain[i] /\ mode'[stubs[i]] \in Modes(chain[i])
        <5>1. CASE i = n
          BY <2>2, <2>7, <2>8, <4>1, <5>1 DEF New
        <5>2. CASE i = n - 1
          BY <1>3, <2>2, <2>7, <2>8, <5>2
        <5>3. CASE i # n /\ i # n - 1
          <6>1. i \in 1..(n - 2) /\ i \in 1..(n - 1) /\ stubs[i] \in Stub
            BY <1>3, <5>3, Fields
          <6>2. stubs[i] # k /\ stubs[i] # New
            BY <1>3, <6>1
          <6> QED
            BY <2>7, <2>8, <4>1, <6>1, <6>2
        <5> QED
          BY <5>1, <5>2, <5>3
      <4> QED
        BY <4>1, <4>2
    <3> QED
      BY <1>4, <1>5, <1>6, <3>1 DEF Cover, Modes
  <2> QED
    BY <1>5, <2>1, <2>9, <2>11, <2>12, <2>13, <2>14, <2>15, <2>16
    DEF IndInv, Sound, Alive, NoChannelPanic
<1> QED
  BY <1>7, <1>8

\* Both stubs were interrupted and the removed one is empty: the previous stub is
\* given its Output and runs again.
LEMMA RemoveResumesKeeps ==
    ASSUME TypeOK, Sound, Cover, Alive, RemoveResumes
    PROVE  TypeOK' /\ Sound' /\ Cover' /\ panic' = "none"
<1> DEFINE n == Len(stubs)
           p == op.pos
           k == op.stub
           v == op.prev
<1>1. Structure /\ Wiring /\ Runs /\ Queues /\ Holds /\ Interruption /\ CallShape
  BY DEF Sound
<1>2. /\ op.pc = "empty" /\ op.writing = FALSE /\ op' = Idle
      /\ output' = [output EXCEPT ![v] = output[k]] /\ stubs' = RemoveAt(stubs, p)
      /\ wrapper' = [wrapper EXCEPT ![v] = chain[p - 1]] /\ pc' = [pc EXCEPT ![v] = "recv"]
  BY Fields DEF RemoveResumes
<1>3. PICK m \in Modes(chain[p - 1]) : mode' = [mode EXCEPT ![v] = m]
  BY DEF RemoveResumes
<1>4. UNCHANGED <<chain, linked, made, nops, held, shut, buf, cap, closed, reader,
                  sent, writer, wbuf, delivered, dropped, panic>>
  BY DEF RemoveResumes, OpQuiet, chanVars
<1>5. op.call = "remove" /\ op.stop = "yes" /\ linked
  BY <1>1, <1>2, Fields DEF CallShape, Idle
<1>6. /\ ~shut[k] /\ pc[k] = "exited" /\ ~shut[v] /\ pc[v] = "exited"
  BY <1>1, <1>2, <1>5 DEF Interruption
<1>7. /\ n \in Nat /\ p \in 2..n /\ k = stubs[p] /\ v = stubs[p - 1] /\ Wired = n
      /\ k \in Stub /\ v \in Stub /\ k # v /\ v <= made
  <2>1. n \in Nat /\ p \in Nat \ {0} /\ k \in Stub /\ v \in Stub /\ Wired = n
    BY <1>5, Fields DEF Wired
  <2>2. p \in 1..n /\ k = stubs[p] /\ p - 1 \in 1..n /\ v = stubs[p - 1]
    BY <1>1, <1>5, <2>1, CallPos
  <2>3. p \in 2..n /\ p # p - 1
    BY <2>1, <2>2
  <2> QED
    BY <1>1, <2>1, <2>2, <2>3 DEF Structure
<1>8. /\ Wanted = Len(chain) + 1 /\ n >= Len(chain) + 1 /\ Len(chain) \in Nat
      /\ p - 1 \in 1..Len(chain) /\ chain[p - 1] \in Toxics
  <2>1. Wanted = Len(chain) + 1 /\ n >= Wanted /\ Len(chain) \in Nat /\ p \in 2..(Len(chain) + 1)
    BY <1>1, <1>5, Fields DEF Wanted, Cover, CallShape
  <2>2. p - 1 \in 1..Len(chain)
    BY <1>7, <2>1
  <2> QED
    BY <2>1, <2>2, Fields
<1>9. /\ stubs' \in Seq(Stub) /\ Len(stubs') = n - 1
      /\ \A i \in 1..(n - 1) : stubs'[i] = IF i < p THEN stubs[i] ELSE stubs[i + 1]
  <2>1. stubs \in Seq(Stub) /\ p \in 1..n
    BY <1>7 DEF TypeOK
  <2> QED
    BY <1>2, <2>1, RemoveAtProperties
<1>10. m \in Kinds
  BY <1>3, <1>8, ToxicsAssumption DEF Modes, Kinds
<1>11. /\ output' \in [Stub -> Chan] /\ output'[v] = output[k]
       /\ pc' \in [Stub -> Pcs] /\ pc'[v] = "recv"
       /\ wrapper' \in [Stub -> Toxics] /\ wrapper'[v] = chain[p - 1]
       /\ mode' \in [Stub -> Kinds] /\ mode'[v] = m
       /\ \A j \in Stub \ {v} : /\ output'[j] = output[j] /\ pc'[j] = pc[j]
                                /\ wrapper'[j] = wrapper[j] /\ mode'[j] = mode[j]
  BY <1>2, <1>3, <1>7, <1>8, <1>10 DEF TypeOK, Pcs
<1>12. /\ op'.call = "none" /\ op'.writing = FALSE /\ CallShape' /\ Interruption' /\ op' \in OpType
       /\ Wired' = n - 1 /\ Wanted' = Len(chain) /\ \A i : Assigned(i)' = chain[i]
  BY <1>2, <1>4, <1>9, Returned
<1>13. TypeOK'
  BY <1>4, <1>9, <1>11, <1>12 DEF TypeOK, Pcs
<1>14. Holds'
  <2>1. held[v] = <<>>
    BY <1>1, <1>6, <1>7 DEF Holds
  <2> QED
    BY <1>1, <1>4, <1>11, <2>1 DEF Holds
<1>15. Structure'
  <2>1. Len(stubs') >= 1 /\ Wired' >= 1 /\ stubs'[1] = 1
    BY <1>1, <1>7, <1>9, <1>12 DEF Structure
  <2>2. \A i \in 1..Len(stubs') : stubs'[i] <= made
    BY <1>1, <1>7, <1>9 DEF Structure
  <2>3. ASSUME NEW i \in 1..(n - 1), NEW j \in 1..(n - 1), stubs'[i] = stubs'[j]
        PROVE  i = j
    <3> DEFINE a == IF i < p THEN i ELSE i + 1
               b == IF j < p THEN j ELSE j + 1
    <3>1. a \in 1..n /\ b \in 1..n /\ stubs'[i] = stubs[a] /\ stubs'[j] = stubs[b]
      BY <1>7, <1>9
    <3>2. a = b
      BY <1>1, <2>3, <3>1 DEF Structure
    <3> QED
      BY <1>7, <3>2
  <2>4. ASSUME NEW j \in Stub, j > made
        PROVE  Fresh(j)'
    <3>1. j # v /\ Fresh(j)
      BY <1>1, <1>7, <2>4, Fields DEF Structure, Stub
    <3> QED
      BY <1>4, <1>11, <3>1 DEF Fresh
  <2> QED
    BY <1>4, <1>9, <1>12, <2>1, <2>2, <2>3, <2>4 DEF Structure
<1>16. Wiring'
  <2>1. ASSUME NEW i \in 1..(n - 1), ~shut[stubs'[i]]
        PROVE  output'[stubs'[i]] = After(i)' /\ ~closed[After(i)']
    <3>1. CASE i < p - 1
      <4>1. stubs'[i] = stubs[i] /\ stubs'[i + 1] = stubs[i + 1] /\ i \in 1..n
        BY <1>7, <1>9, <3>1
      <4>2. After(i)' = stubs[i + 1] /\ After(i) = stubs[i + 1]
        BY <1>7, <1>12, <3>1, <4>1 DEF After
      <4>3. stubs[i] # v /\ stubs[i] \in Stub
        BY <1>1, <1>7, <3>1, <4>1, Fields DEF Structure
      <4> QED
        BY <1>1, <1>7, <1>11, <2>1, <4>1, <4>2, <4>3 DEF Wiring
    <3>2. CASE i = p - 1
      <4>1. stubs'[i] = v
        BY <1>7, <1>9, <3>2
      <4>2. After(i)' = After(p)
        <5>1. i < n - 1 => i + 1 = p /\ p \in 1..(n - 1) /\ p < n /\ stubs'[i + 1] = stubs[p + 1]
          BY <1>7, <1>9, <3>2
        <5>2. ~(i < n - 1) => ~(p < n)
          BY <1>7, <3>2
        <5> QED
          BY <1>7, <1>12, <5>1, <5>2 DEF After
      <4>3. output[k] = After(p) /\ ~closed[After(p)]
        BY <1>1, <1>6, <1>7 DEF Wiring
      <4> QED
        BY <1>11, <4>1, <4>2, <4>3
    <3>3. CASE i >= p
      <4>1. stubs'[i] = stubs[i + 1] /\ i + 1 \in 1..n
        BY <1>7, <1>9, <3>3
      <4>2. After(i)' = After(i + 1)
        BY <1>7, <1>9, <1>12, <3>3 DEF After
      <4>3. i + 1 # p - 1 /\ p - 1 \in 1..n
        BY <1>7, <3>3
      <4>4. stubs[i + 1] # v /\ stubs[i + 1] \in Stub
        BY <1>1, <1>7, <4>1, <4>3, Fields DEF Structure
      <4> QED
        BY <1>1, <1>7, <1>11, <2>1, <4>1, <4>2, <4>4 DEF Wiring
    <3> QED
      BY <1>7, <3>1, <3>2, <3>3
  <2> QED
    BY <1>1, <1>4, <1>12, <2>1 DEF Wiring
<1>17. ASSUME NEW j \in Stub, Live(j), j # k
       PROVE  Live(j)'
  <2>1. PICK i \in 1..n : j = stubs[i]
    BY <1>7, <1>17 DEF Live
  <2>2. i # p
    BY <1>7, <1>17, <2>1
  <2> DEFINE a == IF i < p THEN i ELSE i - 1
  <2>3. a \in 1..(n - 1) /\ stubs'[a] = stubs[i]
    BY <1>7, <1>9, <2>2
  <2> QED
    BY <1>4, <1>12, <1>17, <2>1, <2>3 DEF Live
<1>18. Runs'
  <2>1. Live(v)
    <3>1. p - 1 \in 1..n
      BY <1>7
    <3> QED
      BY <1>6, <1>7, <3>1 DEF Live
  <2>2. pc'[k] \notin Running
    BY <1>6, <1>7, <1>11 DEF Running, Sending
  <2> QED
    BY <1>1, <1>7, <1>11, <1>17, <2>1, <2>2 DEF Runs
<1>19. Queues'
  <2>1. ASSUME NEW c \in Chan, Sender(c)
        PROVE  Sender(c)'
    <3>1. pc[v] \notin Sending
      BY <1>6 DEF Sending
    <3> QED
      BY <1>2, <1>4, <1>7, <1>11, <2>1, <3>1 DEF Sender
  <2> QED
    BY <1>1, <1>4, <2>1 DEF Queues, Blocked
<1>20. Cover'
  <2>1. ASSUME \A i \in 1..(n - 1) : ~shut[stubs'[i]]
        PROVE  /\ n - 1 = Len(chain)
               /\ \A i \in 1..(n - 1) : wrapper'[stubs'[i]] = chain[i] /\ mode'[stubs'[i]] \in Modes(chain[i])
    <3>1. ASSUME NEW i \in 1..n
          PROVE  ~shut[stubs[i]]
      <4> DEFINE a == IF i < p THEN i ELSE i - 1
      <4>1. CASE i = p
        BY <1>6, <1>7, <4>1
      <4>2. CASE i # p
        <5>1. a \in 1..(n - 1) /\ stubs'[a] = stubs[i]
          BY <1>7, <1>9, <4>2
        <5> QED
          BY <2>1, <5>1
      <4> QED
        BY <4>1, <4>2
    <3>2. /\ n = Len(chain) + 1
          /\ \A i \in 1..n : i # p =>
               wrapper[stubs[i]] = Assigned(i) /\ mode[stubs[i]] \in Modes(Assigned(i))
      BY <1>5, <1>7, <1>8, <3>1 DEF Cover
    <3>3. ASSUME NEW i \in 1..(n - 1)
          PROVE  wrapper'[stubs'[i]] = chain[i] /\ mode'[stubs'[i]] \in Modes(chain[i])
      <4>1. CASE i = p - 1
        <5>1. stubs'[i] = v
          BY <1>7, <1>9, <4>1
        <5> QED
          BY <1>3, <1>11, <4>1, <5>1
      <4>2. CASE i # p - 1
        <5> DEFINE a == IF i < p THEN i ELSE i + 1
        <5>1. a \in 1..n /\ a # p /\ a # p - 1 /\ stubs'[i] = stubs[a] /\ p - 1 \in 1..n
          BY <1>7, <1>9, <4>2
        <5>2. Assigned(a) = chain[i]
          BY <1>5, <1>7, <4>2 DEF Assigned
        <5>3. stubs[a] # v /\ stubs[a] \in Stub
          BY <1>1, <1>7, <5>1, Fields DEF Structure
        <5> QED
          BY <1>11, <3>2, <5>1, <5>2, <5>3
      <4> QED
        BY <4>1, <4>2
    <3> QED
      BY <1>8, <3>2, <3>3
  <2>2. n - 1 >= Len(chain)
    BY <1>7, <1>8
  <2> QED
    BY <1>4, <1>9, <1>12, <2>1, <2>2 DEF Cover, Modes
<1> QED
  BY <1>4, <1>12, <1>13, <1>14, <1>15, <1>16, <1>18, <1>19, <1>20 DEF Sound, Alive

-----------------------------------------------------------------------------
(* The theorems *)

\* A link that NewToxicLink has made and Start has run.
LEMMA InitIndInv == Init => IndInv
<1> SUFFICES ASSUME Init
             PROVE  IndInv
  OBVIOUS
<1> DEFINE n == Len(chain)
<1>1. /\ chain \in Seq(Toxics) /\ n \in 1..MaxStubs /\ chain[1] = Noop /\ n \in Nat
      /\ \A i \in 1..n : chain[i] \in Toxics
  BY ChainsAssumption, ElementOfSeq, BoundsAssumption DEF Init
<1>2. op = Idle /\ op.call = "none" /\ op.stop = "none" /\ op.writing = FALSE /\ op.pc = "idle"
  BY DEF Init, Idle
<1>3. /\ stubs = [i \in 1..n |-> i] /\ stubs \in Seq(Stub) /\ Len(stubs) = n
      /\ \A i \in 1..n : stubs[i] = i /\ i \in Stub
  <2>1. stubs = [i \in 1..n |-> i] /\ \A i \in 1..n : i \in Stub
    BY <1>1, BoundsAssumption DEF Init, Stub
  <2>2. stubs \in [1..n -> Stub]
    BY <2>1
  <2> QED
    BY <1>1, <2>1, <2>2
<1>4. Wired = n /\ Wanted = n /\ \A i : Assigned(i) = chain[i]
  BY <1>2, <1>3 DEF Wired, Wanted, Assigned
<1>5. /\ made = n /\ linked = TRUE /\ reader = "read" /\ sent = 0 /\ writer = "recv"
      /\ wbuf = <<>> /\ delivered = <<>> /\ dropped = {} /\ nops = 0 /\ panic = "none"
      /\ held = [k \in Stub |-> <<>>] /\ shut = [k \in Stub |-> FALSE]
      /\ buf = [c \in Chan |-> <<>>] /\ closed = [c \in Chan |-> FALSE]
      /\ pc = [k \in Stub |-> IF k <= n THEN "recv" ELSE "none"]
  BY DEF Init
<1>6. /\ wrapper = [k \in Stub |-> IF k <= n THEN chain[k] ELSE Noop]
      /\ output = [k \in Stub |-> IF k < n THEN k + 1 ELSE 0]
      /\ cap = [c \in Chan |-> IF c \in 2..n THEN BufferSize[chain[c]] ELSE 0]
      /\ mode \in [Stub -> Kinds] /\ \A k \in Stub : mode[k] \in Modes(wrapper[k])
  BY DEF Init
<1>7. 0 \in Chan /\ 1 \in Chan /\ \A k \in Stub : k \in Chan /\ k \in Nat \ {0}
  BY BoundsAssumption DEF Stub, Chan
<1>8. TypeOK
  <2>1. wrapper \in [Stub -> Toxics]
    BY <1>1, <1>6, <1>7, ToxicsAssumption
  <2>2. output \in [Stub -> Chan]
    BY <1>1, <1>6, BoundsAssumption DEF Stub, Chan
  <2>3. cap \in [Chan -> Nat]
    BY <1>1, <1>6, ToxicsAssumption
  <2>4. /\ held \in [Stub -> Seq(Byte)] /\ buf \in [Chan -> Seq(Seq(Byte))]
        /\ wbuf \in Seq(Byte) /\ delivered \in Seq(Byte) /\ dropped \subseteq Byte
    BY <1>5, EmptySeq
  <2>5. shut \in [Stub -> BOOLEAN] /\ closed \in [Chan -> BOOLEAN] /\ linked \in BOOLEAN
    BY <1>5
  <2>6. pc \in [Stub -> Pcs]
    BY <1>5 DEF Pcs
  <2>7. made \in 1..MaxStubs /\ sent \in 0..MaxDatagrams /\ nops \in 0..MaxOps
    BY <1>1, <1>5, BoundsAssumption
  <2>8. op \in OpType
    BY <1>2, <1>7, ToxicsAssumption, BoundsAssumption DEF Idle, OpType, Stub
  <2> QED
    BY <1>1, <1>3, <1>5, <1>6, <2>1, <2>2, <2>3, <2>4, <2>5, <2>6, <2>7, <2>8 DEF TypeOK, Pcs
<1>9. Cover
  <2>1. \A i \in 1..n : wrapper[stubs[i]] = chain[i] /\ mode[stubs[i]] \in Modes(chain[i])
    BY <1>1, <1>3, <1>6
  <2> QED
    BY <1>1, <1>2, <1>3, <1>4, <2>1 DEF Cover
<1>10. Structure
  <2>1. \A k \in Stub : k > n => Fresh(k)
    BY <1>1, <1>5, <1>7 DEF Fresh
  <2> QED
    BY <1>1, <1>2, <1>3, <1>4, <1>5, <2>1 DEF Structure
<1>11. Wiring
  <2>1. ASSUME NEW i \in 1..n
        PROVE  output[stubs[i]] = After(i) /\ ~closed[After(i)]
    <3>1. output[stubs[i]] = After(i)
      BY <1>1, <1>3, <1>4, <1>6 DEF After
    <3>2. After(i) \in Chan
      BY <1>1, <1>3, <1>4, <1>7 DEF After
    <3> QED
      BY <1>5, <3>1, <3>2
  <2> QED
    BY <1>4, <1>5, <1>7, <2>1 DEF Wiring
<1>12. Runs
  <2>1. ASSUME NEW k \in Stub, pc[k] \in Running
        PROVE  Live(k)
    <3>1. k \in 1..n
      BY <1>1, <1>5, <1>7, <2>1 DEF Running, Sending
    <3> QED
      BY <1>3, <1>4, <1>5, <3>1 DEF Live
  <2> QED
    BY <2>1 DEF Runs
<1>13. Queues
  <2>1. ASSUME NEW c \in Chan
        PROVE  Len(buf[c]) <= cap[c] + 1 /\ ~Blocked(c)
    <3>1. Len(buf[c]) = 0 /\ cap[c] \in Nat
      BY <1>5, <1>8 DEF TypeOK
    <3> QED
      BY <3>1 DEF Blocked
  <2> QED
    BY <2>1 DEF Queues
<1>14. Holds
  BY <1>5 DEF Holds
<1>15. CallShape /\ Interruption
  BY <1>2 DEF CallShape, Interruption
<1> QED
  BY <1>5, <1>8, <1>9, <1>10, <1>11, <1>12, <1>13, <1>14, <1>15
  DEF IndInv, Sound, Alive, NoChannelPanic

\* A process that has panicked takes no step.
LEMMA DeadStops == Next => Alive
BY DEF Next, ReadSource, ReaderSent, SourceEnds, StubStep, NoopReceive, HoldReceive, SlicerReceive,
       ResetReceive, ResetFires, InputEnds, Timer, SlicerNext, Sent, WriteTimeout, Quiet,
       WriterStep, WriterReceive, WriterWrites, WriterEnds, RemoveLink, WriterFails,
       OpBegins, AddToxic, UpdateToxic, RemoveToxic, Begin, InterruptToxic, OpStep, AddResumes,
       AddToClosed, UpdateResumes, ClosedAlready, RemoveInterrupted, StopReceived, DrainChunk,
       DrainWritten, DrainEnds, AwaitStop, RemoveResumes, StopInterrupts, StopAnswers, OpQuiet

\* Every step of every goroutine keeps the invariant.
LEMMA StepIndInv == IndInv /\ [Next]_vars => IndInv'
<1> SUFFICES ASSUME IndInv, [Next]_vars
             PROVE  IndInv'
  OBVIOUS
<1>1. CASE UNCHANGED vars
  <2>1. UNCHANGED <<chain, linked, stubs, made, wrapper, mode, pc, held, output, shut, buf, cap,
                    closed, reader, sent, writer, wbuf, delivered, dropped, op, nops, panic>>
    BY <1>1 DEF vars
  <2>2. Wired' = Wired /\ Wanted' = Wanted /\ \A i : After(i)' = After(i) /\ Assigned(i)' = Assigned(i)
    BY <2>1 DEF Wired, Wanted, After, Assigned
  <2>3. TypeOK' /\ Cover'
    BY <2>1, <2>2 DEF IndInv, TypeOK, Cover, Modes
  <2>4. Sound => Sound'
    <3>1. Structure => Structure'
      BY <2>1, <2>2 DEF Structure, Fresh
    <3>2. Wiring => Wiring'
      BY <2>1, <2>2 DEF Wiring
    <3>3. (Runs => Runs') /\ (Holds => Holds')
      BY <2>1, <2>2 DEF Runs, Live, Holds
    <3>4. Queues => Queues'
      BY <2>1 DEF Queues, Blocked, Sender
    <3>5. (CallShape => CallShape') /\ (Interruption => Interruption')
      BY <2>1 DEF CallShape, Interruption
    <3> QED
      BY <3>1, <3>2, <3>3, <3>4, <3>5 DEF Sound
  <2> QED
    BY <2>1, <2>3, <2>4 DEF IndInv, Alive, NoChannelPanic
<1>2. CASE Next
  <2>1. TypeOK /\ Sound /\ Cover /\ Alive
    BY <1>2, DeadStops DEF IndInv
  <2>2. CASE AddResumes
    BY <2>1, <2>2, AddResumesKeeps
  <2>3. CASE ReadSource \/ ReaderSent \/ SourceEnds \/ WriterStep \/ WriterFails
    BY <2>1, <2>3, EndsKeep DEF IndInv, Alive, NoChannelPanic
  <2>4. CASE \E k \in Stub : StubStep(k)
    BY <2>1, <2>4, StubKeeps DEF IndInv, Alive, NoChannelPanic
  <2>5. CASE \E t \in Toxics : AddToxic(t)
    BY <2>1, <2>5, AddBegins DEF IndInv, Alive, NoChannelPanic
  <2>6. CASE \E i \in 2..Len(chain) : UpdateToxic(i) \/ RemoveToxic(i)
    BY <2>1, <2>6, UpdateBegins, RemoveBegins DEF IndInv, Alive, NoChannelPanic
  <2>7. CASE InterruptToxic \/ StopInterrupts
    BY <2>1, <2>7, InterruptsKeep DEF IndInv, Alive, NoChannelPanic
  <2>8. CASE ClosedAlready \/ RemoveInterrupted \/ StopAnswers \/ StopReceived \/ AwaitStop
    BY <2>1, <2>8, CallsKeep DEF IndInv, Alive, NoChannelPanic
  <2>9. CASE AddToClosed
    BY <2>1, <2>9, AddToClosedKeeps DEF IndInv, Alive, NoChannelPanic
  <2>10. CASE UpdateResumes
    BY <2>1, <2>10, UpdateResumesKeeps DEF IndInv, Alive, NoChannelPanic
  <2>11. CASE DrainChunk \/ DrainWritten
    BY <2>1, <2>11, DrainKeeps DEF IndInv, Alive, NoChannelPanic
  <2>12. CASE DrainEnds
    BY <2>1, <2>12, DrainEndsKeeps DEF IndInv, Alive, NoChannelPanic
  <2>13. CASE RemoveResumes
    BY <2>1, <2>13, RemoveResumesKeeps DEF IndInv, Alive, NoChannelPanic
  <2> QED
    BY <1>2, <2>2, <2>3, <2>4, <2>5, <2>6, <2>7, <2>8, <2>9, <2>10, <2>11, <2>12, <2>13
    DEF Next, OpBegins, OpStep
<1> QED
  BY <1>1, <1>2

\* In every interleaving of the reader, the Pipes, the writer and an API call, each
\* channel has one sender, which is the only one to close it (IndInv).
THEOREM Consistent == Spec => []IndInv
<1>1. Init => IndInv
  BY InitIndInv
<1>2. IndInv /\ [Next]_vars => IndInv'
  BY StepIndInv
<1> QED
  BY <1>1, <1>2, PTL DEF Spec

\* TypeOK holds: the API calls index stubs that exist and rewire to channels that
\* exist, and every chunk consists of bytes of the source.
THEOREM TypeCorrect == Spec => []TypeOK
<1>1. IndInv => TypeOK
  BY DEF IndInv
<1> QED
  BY <1>1, Consistent, PTL

\* NoChannelPanic holds: no send on a closed channel, no second close, no close
\* under a blocked sender (ToxicStub.Close, link.RemoveToxic), whatever toxics are
\* added, updated and removed while the source ends.
THEOREM ChannelsNeverPanic == Spec => []NoChannelPanic
<1>1. IndInv => NoChannelPanic
  BY DEF IndInv
<1> QED
  BY <1>1, Consistent, PTL

\* StubsCoverChain holds: between calls link.stubs[toxic.Index] is in range.
THEOREM StubsReachChain == Spec => []StubsCoverChain
<1>1. IndInv => StubsCoverChain
  <2> SUFFICES ASSUME IndInv, linked, op.pc = "idle"
               PROVE  Len(stubs) >= Len(chain)
    BY DEF StubsCoverChain
  <2>1. Len(stubs) >= Wanted /\ Len(stubs) \in Nat /\ Len(chain) \in Nat
    BY Fields DEF IndInv, Cover
  <2>2. Wanted \in {Len(chain), Len(chain) + 1}
    BY DEF Wanted
  <2> QED
    BY <2>1, <2>2
<1> QED
  BY <1>1, Consistent, PTL

\* OpenLinkFollowsChain holds: between calls a link with no closed stub is the chain,
\* stub by stub, each wired to the next.
THEOREM OpenLinkIsChain == Spec => []OpenLinkFollowsChain
<1>1. IndInv => OpenLinkFollowsChain
  <2> SUFFICES ASSUME IndInv, linked, op.pc = "idle", \A k \in Range(stubs) : ~shut[k]
               PROVE  /\ Len(stubs) = Len(chain)
                      /\ \A i \in 1..Len(stubs) :
                           /\ wrapper[stubs[i]] = chain[i] /\ mode[stubs[i]] \in Modes(chain[i])
                           /\ output[stubs[i]] = IF i < Len(stubs) THEN stubs[i + 1] ELSE 0
    BY DEF OpenLinkFollowsChain
  <2>1. \A i \in 1..Len(stubs) : ~shut[stubs[i]]
    <3>1. DOMAIN stubs = 1..Len(stubs)
      BY LenProperties DEF IndInv, TypeOK
    <3> QED
      BY <3>1 DEF Range
  <2>2. Alive /\ Sound /\ Cover
    BY <2>1 DEF IndInv
  <2>3. op.call = "none" /\ Wired = Len(stubs) /\ Wanted = Len(chain)
    BY <2>2, NoCall
  <2>4. /\ Len(stubs) = Len(chain)
        /\ \A i \in 1..Len(stubs) :
             wrapper[stubs[i]] = chain[i] /\ mode[stubs[i]] \in Modes(chain[i])
    BY <2>1, <2>2, <2>3 DEF Cover, Assigned
  <2>5. \A i \in 1..Len(stubs) : output[stubs[i]] = After(i)
    BY <2>1, <2>2, <2>3 DEF Sound, Wiring
  <2> QED
    BY <2>3, <2>4, <2>5 DEF After
<1> QED
  BY <1>1, Consistent, PTL
=============================================================================
