----------------------------- MODULE PipeProofs -----------------------------
(***************************************************************************)
(* A link is a pipe: ToxicLink implements LossyPipe.  Every step of a link    *)
(* moves bytes between neighbouring places, takes the datagram in at the far  *)
(* end, delivers what the writer has, or loses one run of bytes.              *)
(***************************************************************************)
EXTENDS ToxicLinkProofs

Bytes == Seq(Byte)
HeldType == [Stub -> Bytes]

\* Concatenation of bytes is associative.
LEMMA BytesAssociate ==
    ASSUME NEW x \in Bytes, NEW y \in Bytes, NEW z \in Bytes
    PROVE  x \o (y \o z) = (x \o y) \o z
BY ConcatAssociative, SMTT(60) DEF Bytes

\* The content of the places of a link.
LEMMA PlacesAt ==
    ASSUME NEW w \in Bytes, NEW ss \in Seq(Stub), NEW h \in HeldType, NEW ch \in BufType
    PROVE  /\ Places(w, ss, h, ch) \in Seq(Bytes) /\ Len(Places(w, ss, h, ch)) = Len(ss) + 2
           /\ At(Places(w, ss, h, ch), 1, w)
           /\ At(Places(w, ss, h, ch), 2, FlattenSeq(ch[0]))
           /\ \A i \in 1..Len(ss) : At(Places(w, ss, h, ch), Len(ss) + 3 - i,
                                       h[ss[i]] \o FlattenSeq(ch[ss[i]]))
<1> DEFINE n == Len(ss)
           s == Places(w, ss, h, ch)
<1>1. n \in Nat /\ \A i \in 1..n : ss[i] \in Stub
  BY LenProperties, ElementOfSeq
<1>2. 0 \in Chan /\ Stub \subseteq Chan
  BY BoundsAssumption DEF Chan, Stub
<1>3. \A c \in Chan : FlattenSeq(ch[c]) \in Bytes
  <2>1. \A c \in Chan : ch[c] \in Seq(Bytes)
    BY DEF BufType, Bytes
  <2> QED
    BY <2>1, FlattenConcat DEF Bytes
<1>4. \A k \in Stub : h[k] \o FlattenSeq(ch[k]) \in Bytes
  <2> SUFFICES ASSUME NEW k \in Stub
               PROVE  h[k] \o FlattenSeq(ch[k]) \in Bytes
    OBVIOUS
  <2>1. h[k] \in Bytes /\ FlattenSeq(ch[k]) \in Bytes
    BY <1>2, <1>3 DEF HeldType
  <2> QED
    BY <2>1, ConcatProperties DEF Bytes
<1> DEFINE f(i) == CASE i = 1 -> w
                     [] i = 2 -> FlattenSeq(ch[0])
                     [] OTHER -> h[ss[n + 3 - i]] \o FlattenSeq(ch[ss[n + 3 - i]])
<1>5. s = [i \in 1..(n + 2) |-> f(i)]
  BY DEF Places
<1> HIDE DEF s, n
<1>6. /\ s = [i \in 1..(n + 2) |-> s[i]]
      /\ s[1] = w /\ s[2] = FlattenSeq(ch[0])
      /\ \A i \in 3..(n + 2) : s[i] = h[ss[n + 3 - i]] \o FlattenSeq(ch[ss[n + 3 - i]])
  <2>1. 1 \in 1..(n + 2) /\ 2 \in 1..(n + 2)
    BY <1>1
  <2>2. s[1] = w /\ s[2] = FlattenSeq(ch[0])
    BY <1>5, <2>1
  <2>3. ASSUME NEW i \in 3..(n + 2)
        PROVE  s[i] = h[ss[n + 3 - i]] \o FlattenSeq(ch[ss[n + 3 - i]])
    <3>1. i \in 1..(n + 2) /\ i # 1 /\ i # 2
      BY <1>1
    <3> QED
      BY <1>5, <3>1
  <2>4. s = [i \in 1..(n + 2) |-> s[i]]
    <3> HIDE DEF f
    <3> QED
      BY <1>5
  <2> QED
    BY <2>2, <2>3, <2>4, Zenon
<1>7. \A i \in 1..(n + 2) : s[i] \in Bytes
  <2> SUFFICES ASSUME NEW i \in 1..(n + 2)
               PROVE  s[i] \in Bytes
    OBVIOUS
  <2>1. CASE i \in {1, 2}
    BY <1>2, <1>3, <1>6, <2>1
  <2>2. CASE i \notin {1, 2}
    <3>1. i \in 3..(n + 2) /\ n + 3 - i \in 1..n
      BY <1>1, <2>2
    <3>2. ss[n + 3 - i] \in Stub
      BY <1>1, <3>1
    <3> QED
      BY <1>4, <1>6, <3>1, <3>2
  <2> QED
    BY <2>1, <2>2
<1>8. s \in Seq(Bytes) /\ Len(s) = n + 2
  <2>1. n + 2 \in Nat
    BY <1>1
  <2> QED
    BY <1>6, <1>7, <2>1
<1>9. At(s, 1, w) /\ At(s, 2, FlattenSeq(ch[0]))
  BY <1>1, <1>6, <1>8 DEF At
<1>10. ASSUME NEW i \in 1..n
       PROVE  At(s, n + 3 - i, h[ss[i]] \o FlattenSeq(ch[ss[i]]))
  <2>1. n + 3 - i \in 3..(n + 2) /\ n + 3 - (n + 3 - i) = i
    BY <1>1
  <2>2. n + 3 - i \in 1..Len(s)
    BY <1>1, <1>8
  <2>3. s[n + 3 - i] = h[ss[i]] \o FlattenSeq(ch[ss[i]])
    BY <1>6, <2>1
  <2> QED
    BY <2>2, <2>3 DEF At
<1> QED
  BY <1>8, <1>9, <1>10 DEF s, n

\* What channel c and the stub that reads from it hold, and the place of the two.
Content(h, ch, c) == IF c = 0 THEN FlattenSeq(ch[0]) ELSE h[c] \o FlattenSeq(ch[c])
Located(ss, c, a) ==
    \/ c = 0 /\ a = 2
    \/ \E i \in 1..Len(ss) : c = ss[i] /\ a = Len(ss) + 3 - i

Distinct(ss) == \A i, j \in 1..Len(ss) : ss[i] = ss[j] => i = j

\* The content of a channel is in its place.
LEMMA ContentAt ==
    ASSUME NEW w \in Bytes, NEW ss \in Seq(Stub), NEW h \in HeldType, NEW ch \in BufType,
           NEW c \in Chan, NEW a, Located(ss, c, a)
    PROVE  At(Places(w, ss, h, ch), a, Content(h, ch, c)) /\ Content(h, ch, c) \in Bytes
<1> DEFINE s == Places(w, ss, h, ch)
<1>1. \A i \in 1..Len(ss) : ss[i] \in Stub /\ ss[i] # 0
  <2>1. \A k \in Stub : k # 0
    BY DEF Stub
  <2> QED
    BY <2>1, ElementOfSeq
<1>2. /\ s \in Seq(Bytes) /\ At(s, 2, FlattenSeq(ch[0]))
      /\ \A i \in 1..Len(ss) : At(s, Len(ss) + 3 - i, h[ss[i]] \o FlattenSeq(ch[ss[i]]))
  BY PlacesAt
<1> HIDE DEF s
<1>3. At(s, a, Content(h, ch, c))
  <2>1. CASE c = 0 /\ a = 2
    BY <1>2, <2>1 DEF Content
  <2>2. ASSUME NEW i \in 1..Len(ss), c = ss[i], a = Len(ss) + 3 - i
        PROVE  At(s, a, Content(h, ch, c))
    <3>1. At(s, Len(ss) + 3 - i, h[ss[i]] \o FlattenSeq(ch[ss[i]]))
      BY <1>2
    <3>2. Content(h, ch, c) = h[ss[i]] \o FlattenSeq(ch[ss[i]])
      BY <1>1, <2>2, Zenon DEF Content
    <3> QED
      BY <2>2, <3>1, <3>2, Zenon
  <2> QED
    BY <2>1, <2>2, Zenon DEF Located
<1>4. Content(h, ch, c) \in Bytes
  BY <1>2, <1>3, ElementOfSeq DEF At
<1> QED
  BY <1>3, <1>4 DEF s

\* A step that touches the channels c and k only.
LEMMA PlacesAlike ==
    ASSUME NEW w \in Bytes, NEW ss \in Seq(Stub), Distinct(ss),
           NEW h \in HeldType, NEW ch \in BufType, NEW h2 \in HeldType, NEW ch2 \in BufType,
           NEW c \in Chan, NEW a, Located(ss, c, a), NEW k \in Chan, NEW b, Located(ss, k, b),
           \A d \in Chan : d # c /\ d # k => Content(h2, ch2, d) = Content(h, ch, d)
    PROVE  Alike(Places(w, ss, h, ch), Places(w, ss, h2, ch2), a, b)
<1> DEFINE n == Len(ss)
           s == Places(w, ss, h, ch)
           t == Places(w, ss, h2, ch2)
<1>1. n \in Nat /\ 0 \in Chan /\ \A i \in 1..n : ss[i] \in Chan /\ ss[i] # 0
  <2>1. 0 \in Chan /\ \A j \in Stub : j \in Chan /\ j # 0
    BY BoundsAssumption DEF Stub, Chan
  <2> QED
    BY <2>1, ElementOfSeq, LenProperties
<1>2. Len(s) = n + 2 /\ Len(t) = n + 2 /\ At(s, 1, w) /\ At(t, 1, w)
  BY PlacesAt
<1>3. ASSUME NEW d \in Chan, NEW i, Located(ss, d, i), d # c, d # k
      PROVE  t[i] = s[i]
  <2>1. At(s, i, Content(h, ch, d)) /\ At(t, i, Content(h2, ch2, d))
    BY <1>3, ContentAt
  <2> HIDE DEF s, t
  <2> QED
    BY <1>3, <2>1 DEF At
<1> HIDE DEF s, t
<1>4. ASSUME NEW i \in 1..(n + 2), i # a, i # b
      PROVE  t[i] = s[i]
  <2>1. CASE i = 1
    BY <1>2, <2>1 DEF At
  <2>2. CASE i = 2
    <3>1. Located(ss, 0, i)
      BY <2>2 DEF Located
    <3>2. 0 # c /\ 0 # k
      BY <1>1, <1>4, <2>2 DEF Located
    <3> QED
      BY <1>1, <1>3, <3>1, <3>2
  <2>3. CASE i # 1 /\ i # 2
    <3> DEFINE j == n + 3 - i
    <3>1. j \in 1..n /\ i = n + 3 - j
      BY <1>1, <2>3
    <3>2. Located(ss, ss[j], i)
      BY <3>1 DEF Located
    <3> HIDE DEF j
    <3>3. ss[j] # c /\ ss[j] # k
      BY <1>1, <1>4, <3>1 DEF Located, Distinct
    <3> QED
      BY <1>1, <1>3, <3>1, <3>2, <3>3
  <2> QED
    BY <2>1, <2>2, <2>3
<1> QED
  BY <1>2, <1>4 DEF Alike, s, t

-----------------------------------------------------------------------------
(* What steps do to the bytes in transit *)

\* The types of the places.
LEMMA Typed ==
    ASSUME TypeOK, TypeOK'
    PROVE  /\ wbuf \in Bytes /\ stubs \in Seq(Stub) /\ held \in HeldType /\ buf \in BufType
           /\ wbuf' \in Bytes /\ stubs' \in Seq(Stub) /\ held' \in HeldType /\ buf' \in BufType
           /\ 0 \in Chan /\ Stub \subseteq Chan /\ \A k \in Stub : k # 0
<1>1. 0 \in Chan /\ Stub \subseteq Chan /\ \A k \in Stub : k # 0
  BY BoundsAssumption DEF Chan, Stub
<1> QED
  BY <1>1 DEF TypeOK, Bytes, HeldType, BufType

\* The links' variables that a step of the flow leaves alone.
Flow == UNCHANGED <<stubs, wbuf>>

\* The step touches the channels c and k only.
Touches(c, k) ==
    \A d \in Chan : d # c /\ d # k => Content(held', buf', d) = Content(held, buf, d)

\* What lies at c and k is cut anew.
Passes(c, k) == Recuts(Content(held, buf, c), Content(held, buf, k),
                       Content(held', buf', c), Content(held', buf', k))

\* A live stub and its output have neighbouring places.
LEMMA Neighbours ==
    ASSUME TypeOK, Structure, Wiring, Holds, NEW k \in Stub, Live(k)
    PROVE  \E a, b \in Nat : /\ Located(stubs, output[k], a) /\ Located(stubs, k, b) /\ a < b
                             /\ \A i \in (a + 1)..(b - 1) : At(Places(wbuf, stubs, held, buf), i, <<>>)
<1> DEFINE n == Len(stubs)
           s == Places(wbuf, stubs, held, buf)
<1>1. n \in Nat /\ Wired \in 1..n /\ (op.call # "add" => Wired = n) /\ (op.call = "add" => Wired = n - 1)
  BY Fields DEF Structure, Wired
<1>2. PICK i \in 1..Wired : k = stubs[i]
  BY DEF Live
<1>3. output[k] = After(i)
  BY <1>2 DEF Wiring, Live
<1> DEFINE b == n + 3 - i
<1>4. b \in Nat /\ Located(stubs, k, b)
  BY <1>1, <1>2 DEF Located
<1>5. CASE i < Wired
  <2>1. i + 1 \in 1..n /\ n + 3 - (i + 1) \in Nat /\ n + 3 - (i + 1) < b
    BY <1>1, <1>5
  <2>2. Located(stubs, output[k], n + 3 - (i + 1))
    BY <1>3, <1>5, <2>1 DEF After, Located
  <2>3. \A j \in (n + 3 - (i + 1) + 1)..(b - 1) : FALSE
    BY <1>1, <1>2
  <2> QED
    BY <1>4, <2>1, <2>2, <2>3
<1>6. CASE ~(i < Wired)
  <2>1. output[k] = 0 /\ Located(stubs, output[k], 2) /\ i = Wired /\ 2 < b
    BY <1>1, <1>3, <1>6 DEF After, Located
  <2>2. ASSUME NEW j \in 3..(b - 1)
        PROVE  At(s, j, <<>>)
    <3>1. op.call = "add" /\ j = 3 /\ n + 3 - n = 3 /\ n \in 1..n
      BY <1>1, <1>6, <2>1
    <3>2. New \in Stub /\ held[New] = <<>> /\ buf[New] = <<>>
      <4>1. New \in Stub /\ Fresh(New)
        BY <3>1, Fields DEF Structure, New
      <4> QED
        BY <4>1 DEF Fresh, Holds
    <3>3. At(s, n + 3 - n, held[New] \o FlattenSeq(buf[New]))
      <4>1. wbuf \in Bytes /\ stubs \in Seq(Stub) /\ held \in HeldType /\ buf \in BufType
        BY DEF TypeOK, Bytes, HeldType, BufType
      <4>2. \A m \in 1..n : At(s, n + 3 - m, held[stubs[m]] \o FlattenSeq(buf[stubs[m]]))
        BY <4>1, PlacesAt
      <4> HIDE DEF s
      <4>3. At(s, n + 3 - n, held[stubs[n]] \o FlattenSeq(buf[stubs[n]]))
        BY <3>1, <4>2
      <4> QED
        BY <4>3 DEF New
    <3>4. held[New] \o FlattenSeq(buf[New]) = <<>>
      <4>1. FlattenSeq(<<>>) = <<>> /\ <<>> \o <<>> = <<>>
        BY FlattenRecursion, EmptySeq, ConcatEmptySeq
      <4> QED
        BY <3>2, <4>1, Zenon
    <3> QED
      BY <3>1, <3>3, <3>4
  <2>3. 2 \in Nat /\ 2 + 1 = 3
    OBVIOUS
  <2> QED
    BY <1>4, <2>1, <2>2, <2>3
<1> QED
  BY <1>5, <1>6

\* A live stub passes bytes on: the bytes in transit stay what they are.
LEMMA Shifts ==
    ASSUME TypeOK, TypeOK', Structure, Wiring, Holds, Flow, NEW k \in Stub, Live(k),
           Touches(output[k], k), Passes(output[k], k)
    PROVE  InTransit' = InTransit
<1> DEFINE s == Places(wbuf, stubs, held, buf)
           t == Places(wbuf, stubs, held', buf')
           c == output[k]
<1>1. PICK a, b \in Nat : /\ Located(stubs, c, a) /\ Located(stubs, k, b) /\ a < b
                         /\ \A i \in (a + 1)..(b - 1) : At(s, i, <<>>)
  BY Neighbours
<1>2. c \in Chan /\ k \in Chan
  BY Typed DEF TypeOK
<1>3. Distinct(stubs)
  BY DEF Structure, Distinct
<1> HIDE DEF c
<1>4. Alike(s, t, a, b)
  BY <1>1, <1>2, <1>3, Typed, PlacesAlike DEF Touches, c
<1>5. s \in Seq(Bytes) /\ t \in Seq(Bytes)
  BY Typed, PlacesAt
<1>6. At(s, a, Content(held, buf, c)) /\ Content(held, buf, c) \in Bytes
  BY <1>1, <1>2, Typed, ContentAt
<1>7. At(s, b, Content(held, buf, k)) /\ Content(held, buf, k) \in Bytes
  BY <1>1, <1>2, Typed, ContentAt
<1>8. At(t, a, Content(held', buf', c)) /\ Content(held', buf', c) \in Bytes
  BY <1>1, <1>2, Typed, ContentAt
<1>9. At(t, b, Content(held', buf', k)) /\ Content(held', buf', k) \in Bytes
  BY <1>1, <1>2, Typed, ContentAt
<1>10. Recuts(Content(held, buf, c), Content(held, buf, k), Content(held', buf', c), Content(held', buf', k))
  BY DEF Passes, c
<1> HIDE DEF s, t
<1>11. FlattenSeq(t) = FlattenSeq(s)
  BY <1>1, <1>4, <1>5, <1>6, <1>7, <1>8, <1>9, <1>10, FlattenShift DEF Bytes
<1> QED
  BY <1>11 DEF InTransit, s, t, Flow

\* Stub k sends x on channel c: a part of what it held, or of a chunk that it has
\* just received.
Hands(k, c, x) ==
    /\ buf'[c] = Append(buf[c], x)
    /\ \A d \in Chan : d # c /\ d # k => buf'[d] = buf[d]
    /\ \A d \in Stub : d # k => held'[d] = held[d]
    /\ \/ buf'[k] = buf[k] /\ held[k] = x \o held'[k]
       \/ /\ buf[k] # <<>> /\ buf'[k] = Tail(buf[k])
          /\ held[k] = <<>> /\ Head(buf[k]) = x \o held'[k]

\* The content of a channel that is not touched, or only at its end.
LEMMA ContentKept ==
    ASSUME TypeOK, TypeOK', NEW d \in Chan, d \in Stub => held'[d] = held[d]
    PROVE  /\ buf'[d] = buf[d] => Content(held', buf', d) = Content(held, buf, d)
           /\ \A x \in Bytes : buf'[d] = Append(buf[d], x) =>
                Content(held', buf', d) = Content(held, buf, d) \o x
<1>1. d # 0 => d \in Stub
  BY BoundsAssumption DEF Chan, Stub
<1>2. ASSUME buf'[d] = buf[d]
      PROVE  Content(held', buf', d) = Content(held, buf, d)
  BY <1>1, <1>2, Zenon DEF Content
<1>3. ASSUME NEW x \in Bytes, buf'[d] = Append(buf[d], x)
      PROVE  Content(held', buf', d) = Content(held, buf, d) \o x
  <2> DEFINE f == FlattenSeq(buf[d])
             g == held[d]
  <2>1. FlattenSeq(buf'[d]) = f \o x /\ f \in Bytes
    <3>1. buf[d] \in Seq(Bytes)
      BY DEF TypeOK, Bytes
    <3> QED
      BY <1>3, <3>1, FlattenRecursion, FlattenConcat DEF Bytes
  <2>2. d # 0 => g \in Bytes
    BY <1>1 DEF TypeOK, Bytes
  <2>3. d = 0 => Content(held', buf', d) = f \o x /\ Content(held, buf, d) = f
    BY <2>1, Zenon DEF Content
  <2>4. d # 0 => Content(held', buf', d) = g \o (f \o x) /\ Content(held, buf, d) = g \o f
    BY <1>1, <2>1, Zenon DEF Content
  <2> HIDE DEF f, g
  <2>5. d # 0 => g \o (f \o x) = (g \o f) \o x
    BY <1>3, <2>1, <2>2, BytesAssociate, Zenon
  <2> QED
    BY <2>3, <2>4, <2>5, Zenon
<1> QED
  BY <1>2, <1>3

\* Bytes that are handed on go from the front of one place to the end of another.
LEMMA PassOn ==
    ASSUME TypeOK, TypeOK', NEW k \in Stub, NEW c \in Chan, c # k, NEW x \in Bytes, Hands(k, c, x)
    PROVE  Touches(c, k) /\ Passes(c, k)
<1>1. Touches(c, k)
  <2> SUFFICES ASSUME NEW d \in Chan, d # c, d # k
               PROVE  Content(held', buf', d) = Content(held, buf, d)
    BY DEF Touches
  <2>1. buf'[d] = buf[d] /\ (d \in Stub => held'[d] = held[d])
    BY DEF Hands
  <2> QED
    BY <2>1, ContentKept
<1>2. Content(held', buf', c) = Content(held, buf, c) \o x
  <2>1. buf'[c] = Append(buf[c], x) /\ (c \in Stub => held'[c] = held[c])
    BY DEF Hands
  <2> QED
    BY <2>1, ContentKept
<1>3. k \in Chan /\ k # 0
  BY Typed
<1> DEFINE h == held[k]
           g == held'[k]
           q == buf[k]
           r == buf'[k]
           f == FlattenSeq(r)
<1>4. h \in Bytes /\ g \in Bytes /\ q \in Seq(Bytes) /\ r \in Seq(Bytes) /\ f \in Bytes
  <2>1. h \in Bytes /\ g \in Bytes /\ q \in Seq(Bytes) /\ r \in Seq(Bytes)
    BY <1>3 DEF TypeOK, Bytes
  <2> QED
    BY <2>1, FlattenConcat DEF Bytes
<1>5. Content(held, buf, k) = h \o FlattenSeq(q) /\ Content(held', buf', k) = g \o f
  BY <1>3, Zenon DEF Content
<1>6. \/ r = q /\ h = x \o g
      \/ q # <<>> /\ r = Tail(q) /\ h = <<>> /\ Head(q) = x \o g
  BY DEF Hands
<1> HIDE DEF h, g, q, r, f
<1>7. h \o FlattenSeq(q) = (x \o g) \o f
  <2>1. CASE r = q /\ h = x \o g
    BY <2>1, Zenon DEF f
  <2>2. CASE q # <<>> /\ r = Tail(q) /\ h = <<>> /\ Head(q) = x \o g
    <3>1. FlattenSeq(q) = Head(q) \o FlattenSeq(Tail(q)) /\ FlattenSeq(q) \in Bytes
      BY <1>4, <2>2, FlattenQueue, FlattenConcat DEF Bytes
    <3>2. <<>> \o FlattenSeq(q) = FlattenSeq(q)
      BY <3>1, ConcatEmptySeq DEF Bytes
    <3> QED
      BY <2>2, <3>1, <3>2, Zenon DEF f
  <2> QED
    BY <1>6, <2>1, <2>2
<1>8. (x \o g) \o f = x \o (g \o f)
  <2>1. Joins((x \o g) \o f, x, g, f)
    BY <1>4, JoinsAssociative DEF Bytes
  <2> QED
    BY <2>1, Zenon DEF Joins
<1> DEFINE y == Content(held, buf, c)
           z == g \o f
<1>9. y \in Bytes /\ z \in Bytes
  <2>1. z \in Bytes
    BY <1>4, ConcatProperties DEF Bytes
  <2>2. y \in Bytes
    <3>1. buf[c] \in Seq(Bytes) /\ (c # 0 => held[c] \in Bytes)
      <4>1. c # 0 => c \in Stub
        BY BoundsAssumption DEF Chan, Stub
      <4> QED
        BY <4>1 DEF TypeOK, Bytes
    <3>2. FlattenSeq(buf[c]) \in Bytes
      BY <3>1, FlattenConcat DEF Bytes
    <3>3. c # 0 => held[c] \o FlattenSeq(buf[c]) \in Bytes
      BY <3>1, <3>2, ConcatProperties DEF Bytes
    <3> QED
      BY <3>2, <3>3, Zenon DEF Content
  <2> QED
    BY <2>1, <2>2
<1>10. Recuts(y, x \o z, y \o x, z)
  <2> HIDE DEF y, z
  <2> QED
    BY <1>9, RecutsPass DEF Bytes
<1>11. Passes(c, k)
  BY <1>2, <1>5, <1>7, <1>8, <1>10, Zenon DEF Passes
<1> QED
  BY <1>1, <1>11

-----------------------------------------------------------------------------
(* The steps of the pipe *)

PipeStep == [Pipe!Next]_(Pipe!vars)

\* A step of the link that the pipe does not see.
LEMMA Stutters ==
    ASSUME InTransit' = InTransit, UNCHANGED <<sent, delivered, dropped>>
    PROVE  PipeStep
BY DEF PipeStep, Pipe!vars

\* One run of the bytes in transit is lost.
LEMMA Loses ==
    ASSUME NEW P \in Bytes, NEW d \in Bytes, NEW Q \in Bytes,
           Joins(InTransit, P, d, Q), Joins(InTransit', P, <<>>, Q),
           dropped' = dropped \cup Range(d), UNCHANGED <<sent, delivered>>
    PROVE  PipeStep
<1> DEFINE r == InTransit
           t == InTransit'
<1>1. t = P \o Q
  <2>1. <<>> \o Q = Q
    BY ConcatEmptySeq DEF Bytes
  <2> QED
    BY <2>1, Zenon DEF Joins
<1>2. CASE d = <<>>
  <2>1. Range(d) = {}
    BY <1>2 DEF Range
  <2>2. t = r
    BY <1>2, Zenon DEF Joins
  <2> QED
    BY <2>1, <2>2, Stutters
<1>3. CASE d # <<>>
  <2> DEFINE i == Len(P) + 1
             j == Len(P) + Len(d)
  <2>1. /\ Len(r) = Len(P) + Len(d) + Len(Q) /\ SubSeq(r, 1, Len(P)) = P
        /\ SubSeq(r, Len(P) + Len(d) + 1, Len(r)) = Q
        /\ \A m \in 1..Len(d) : r[Len(P) + m] = d[m]
    <3> HIDE DEF r
    <3>1. Joins(r, P, d, Q)
      BY DEF r
    <3> QED
      BY <3>1, JoinsParts DEF Bytes
  <2>2. Len(P) \in Nat /\ Len(d) \in Nat \ {0} /\ Len(Q) \in Nat /\ DOMAIN d = 1..Len(d)
    BY <1>3, LenProperties, EmptySeq DEF Bytes
  <2>3. i \in 1..Len(r) /\ j \in i..Len(r) /\ i - 1 = Len(P)
    BY <2>1, <2>2
  <2>4. t = SubSeq(r, 1, i - 1) \o SubSeq(r, j + 1, Len(r))
    BY <1>1, <2>1, <2>3, Zenon
  <2>5. Range(d) = {r[n] : n \in i..j}
    <3> HIDE DEF r
    <3>1. ASSUME NEW m \in 1..Len(d)
          PROVE  \E n \in i..j : d[m] = r[n]
      <4>1. Len(P) + m \in i..j
        BY <2>2
      <4> QED
        BY <2>1, <4>1
    <3>2. ASSUME NEW n \in i..j
          PROVE  \E m \in 1..Len(d) : d[m] = r[n]
      <4>1. n - Len(P) \in 1..Len(d) /\ Len(P) + (n - Len(P)) = n
        BY <2>2
      <4>2. \A m \in 1..Len(d) : \A l : l = Len(P) + m => d[m] = r[l]
        BY <2>1
      <4> QED
        BY <4>1, <4>2
    <3>3. Range(d) = {d[m] : m \in 1..Len(d)}
      BY <2>2, Zenon DEF Range
    <3> HIDE DEF i, j
    <3>4. {d[m] : m \in 1..Len(d)} \subseteq {r[n] : n \in i..j}
      BY <3>1, Zenon
    <3>5. {r[n] : n \in i..j} \subseteq {d[m] : m \in 1..Len(d)}
      BY <3>2
    <3> QED
      BY <3>3, <3>4, <3>5, Zenon
  <2> HIDE DEF i, j
  <2>6. Pipe!Lose
    BY <2>3, <2>4, <2>5, Zenon DEF Pipe!Lose
  <2> QED
    BY <2>6 DEF PipeStep, Pipe!Next
<1> QED
  BY <1>2, <1>3

\* The writer hands its chunk to the destination.
LEMMA Delivers ==
    ASSUME NEW d \in Bytes, NEW Q \in Bytes,
           Joins(InTransit, <<>>, d, Q), Joins(InTransit', <<>>, <<>>, Q),
           delivered \in Bytes, delivered' = delivered \o d, UNCHANGED <<sent, dropped>>
    PROVE  PipeStep
<1> DEFINE r == InTransit
           t == InTransit'
<1>1. t = Q
  <2>1. <<>> \o (<<>> \o Q) = Q
    BY ConcatEmptySeq DEF Bytes
  <2> QED
    BY <2>1, Zenon DEF Joins
<1>2. CASE d = <<>>
  <2>1. delivered' = delivered
    BY <1>2, ConcatEmptySeq DEF Bytes
  <2>2. t = r
    BY <1>2, Zenon DEF Joins
  <2> QED
    BY <2>1, <2>2, Stutters
<1>3. CASE d # <<>>
  <2> DEFINE n == Len(d)
  <2>1. Len(r) = 0 + n + Len(Q) /\ SubSeq(r, 0 + 1, 0 + n) = d /\ SubSeq(r, 0 + n + 1, Len(r)) = Q
    <3> HIDE DEF r
    <3>1. Joins(r, <<>>, d, Q) /\ <<>> \in Bytes /\ Len(<<>>) = 0
      BY EmptySeq DEF r, Bytes
    <3>2. PICK e \in Bytes : Len(e) = 0 /\ Joins(r, e, d, Q)
      BY <3>1, Zenon
    <3>3. Joins(r, e, d, Q)
      BY <3>2
    <3>4. /\ Len(r) = Len(e) + Len(d) + Len(Q)
          /\ SubSeq(r, Len(e) + 1, Len(e) + Len(d)) = d
          /\ SubSeq(r, Len(e) + Len(d) + 1, Len(r)) = Q
      BY <3>3, JoinsParts DEF Bytes
    <3> QED
      BY <3>2, <3>4, Zenon
  <2>2. n \in Nat \ {0} /\ Len(Q) \in Nat
    BY <1>3, LenProperties, EmptySeq DEF Bytes
  <2>3. n \in 1..Len(r) /\ 0 + 1 = 1 /\ 0 + n = n /\ 0 + n + 1 = n + 1
    BY <2>1, <2>2
  <2> HIDE DEF n
  <2>4. d = SubSeq(r, 1, n) /\ t = SubSeq(r, n + 1, Len(r))
    BY <1>1, <2>1, <2>3, Zenon
  <2>5. Pipe!Deliver
    BY <2>3, <2>4, Zenon DEF Pipe!Deliver
  <2> QED
    BY <2>5 DEF PipeStep, Pipe!Next
<1> QED
  BY <1>2, <1>3

\* A datagram enters.
LEMMA Enters ==
    ASSUME InTransit' = InTransit \o Datagram(sent + 1), sent' = sent + 1,
           UNCHANGED <<delivered, dropped>>
    PROVE  PipeStep
<1>1. Pipe!Enter
  BY DEF Pipe!Enter, Pipe!Datagram, Datagram
<1> QED
  BY <1>1 DEF PipeStep, Pipe!Next

-----------------------------------------------------------------------------
(* Places that change *)

\* The writer's chunk and link.output are the first places.
LEMMA PlacesFront ==
    ASSUME NEW w \in Bytes, NEW v \in Bytes, NEW ss \in Seq(Stub), NEW h \in HeldType,
           NEW ch \in BufType, NEW ch2 \in BufType, \A c \in Stub : ch2[c] = ch[c]
    PROVE  /\ Alike(Places(w, ss, h, ch), Places(v, ss, h, ch2), 1, 2)
           /\ ch2 = ch => Alike(Places(w, ss, h, ch), Places(v, ss, h, ch2), 1, 1)
<1> DEFINE n == Len(ss)
           s == Places(w, ss, h, ch)
           t == Places(v, ss, h, ch2)
<1>1. n \in Nat /\ \A i \in 1..n : ss[i] \in Stub
  BY LenProperties, ElementOfSeq
<1>2. /\ Len(s) = n + 2 /\ At(s, 2, FlattenSeq(ch[0]))
      /\ \A i \in 1..n : At(s, n + 3 - i, h[ss[i]] \o FlattenSeq(ch[ss[i]]))
  BY PlacesAt
<1>3. /\ Len(t) = n + 2 /\ At(t, 2, FlattenSeq(ch2[0]))
      /\ \A i \in 1..n : At(t, n + 3 - i, h[ss[i]] \o FlattenSeq(ch2[ss[i]]))
  BY PlacesAt
<1> HIDE DEF s, t
<1>4. ASSUME NEW i \in 1..(n + 2), i # 1, i # 2
      PROVE  t[i] = s[i]
  <2> DEFINE j == n + 3 - i
  <2>1. j \in 1..n /\ n + 3 - j = i
    BY <1>1, <1>4
  <2> HIDE DEF j
  <2>2. ch2[ss[j]] = ch[ss[j]]
    BY <1>1, <2>1
  <2> QED
    BY <1>2, <1>3, <2>1, <2>2 DEF At
<1>5. ch2 = ch => t[2] = s[2]
  BY <1>2, <1>3 DEF At
<1> QED
  BY <1>2, <1>3, <1>4, <1>5 DEF Alike, s, t

\* A stub that leaves the link takes its place along.
LEMMA PlacesRemove ==
    ASSUME NEW w \in Bytes, NEW ss \in Seq(Stub), NEW h \in HeldType, NEW ch \in BufType,
           NEW i \in 1..Len(ss)
    PROVE  Places(w, RemoveAt(ss, i), h, ch) = RemoveAt(Places(w, ss, h, ch), Len(ss) + 3 - i)
<1> DEFINE n == Len(ss)
           a == n + 3 - i
           s == Places(w, ss, h, ch)
           rr == RemoveAt(ss, i)
           t == Places(w, rr, h, ch)
           r == RemoveAt(s, a)
           X(k) == h[k] \o FlattenSeq(ch[k])
<1>1. n \in Nat /\ i \in 1..n /\ a \in 3..(n + 2)
  BY LenProperties
<1>2. /\ rr \in Seq(Stub) /\ Len(rr) = n - 1
      /\ \A j \in 1..(n - 1) : rr[j] = IF j < i THEN ss[j] ELSE ss[j + 1]
  BY RemoveAtProperties
<1>3. /\ s \in Seq(Bytes) /\ Len(s) = n + 2 /\ At(s, 1, w) /\ At(s, 2, FlattenSeq(ch[0]))
      /\ \A j \in 1..n : At(s, n + 3 - j, X(ss[j]))
  BY PlacesAt
<1>4. /\ t \in Seq(Bytes) /\ Len(t) = n + 1 /\ At(t, 1, w) /\ At(t, 2, FlattenSeq(ch[0]))
      /\ \A j \in 1..(n - 1) : At(t, n + 2 - j, X(rr[j]))
  <2> HIDE DEF rr
  <2>1. /\ t \in Seq(Bytes) /\ Len(t) = Len(rr) + 2 /\ At(t, 1, w) /\ At(t, 2, FlattenSeq(ch[0]))
        /\ \A j \in 1..Len(rr) : At(t, Len(rr) + 3 - j, X(rr[j]))
    BY <1>2, PlacesAt
  <2> HIDE DEF t, X
  <2>2. Len(rr) = n - 1 /\ Len(rr) + 2 = n + 1 /\ \A j \in 1..(n - 1) : Len(rr) + 3 - j = n + 2 - j
    BY <1>1, <1>2
  <2> QED
    BY <2>1, <2>2
<1> HIDE DEF s, t, X, rr
<1>5. /\ r \in Seq(Bytes) /\ Len(r) = n + 1
      /\ \A j \in 1..(n + 1) : r[j] = IF j < a THEN s[j] ELSE s[j + 1]
  <2>1. a \in 1..Len(s) /\ Len(s) - 1 = n + 1
    BY <1>1, <1>3
  <2> HIDE DEF a
  <2> QED
    BY <1>3, <2>1, RemoveAtProperties
<1> HIDE DEF r
<1>6. ASSUME NEW j \in 1..(n + 1)
      PROVE  t[j] = r[j]
  <2>1. CASE j \in {1, 2}
    BY <1>1, <1>3, <1>4, <1>5, <2>1 DEF At
  <2>2. CASE j \notin {1, 2}
    <3> DEFINE m == n + 2 - j
    <3>1. /\ m \in 1..(n - 1) /\ n + 2 - m = j /\ n + 3 - m = j + 1 /\ n + 3 - (m + 1) = j
          /\ m \in 1..n /\ m + 1 \in 1..n /\ (m < i <=> ~(j < a))
      BY <1>1, <2>2
    <3> HIDE DEF m, a
    <3>2. t[j] = X(rr[m]) /\ s[j + 1] = X(ss[m]) /\ s[j] = X(ss[m + 1])
      BY <1>3, <1>4, <3>1 DEF At
    <3>3. rr[m] = IF m < i THEN ss[m] ELSE ss[m + 1]
      BY <1>2, <3>1
    <3> QED
      BY <1>5, <3>1, <3>2, <3>3
  <2> QED
    BY <2>1, <2>2
<1>7. t = r
  BY <1>4, <1>5, <1>6, SeqEqual
<1> QED
  BY <1>7 DEF t, r, s, rr

\* A stub that holds nothing and whose Input is empty.
LEMMA EmptyStub ==
    ASSUME NEW w \in Bytes, NEW ss \in Seq(Stub), NEW h \in HeldType, NEW ch \in BufType,
           NEW i \in 1..Len(ss), h[ss[i]] = <<>>, ch[ss[i]] = <<>>
    PROVE  FlattenSeq(Places(w, RemoveAt(ss, i), h, ch)) = FlattenSeq(Places(w, ss, h, ch))
<1> DEFINE s == Places(w, ss, h, ch)
           a == Len(ss) + 3 - i
<1>1. s \in Seq(Bytes) /\ At(s, a, h[ss[i]] \o FlattenSeq(ch[ss[i]]))
  BY PlacesAt
<1>2. h[ss[i]] \o FlattenSeq(ch[ss[i]]) = <<>>
  <2>1. FlattenSeq(<<>>) = <<>> /\ <<>> \o <<>> = <<>>
    BY FlattenRecursion, EmptySeq, ConcatEmptySeq
  <2> QED
    BY <2>1, Zenon
<1>3. Places(w, RemoveAt(ss, i), h, ch) = RemoveAt(s, a)
  BY PlacesRemove
<1> HIDE DEF s, a
<1>4. At(s, a, <<>>)
  BY <1>1, <1>2, Zenon
<1>5. FlattenSeq(RemoveAt(s, a)) = FlattenSeq(s)
  BY <1>1, <1>4, FlattenRemove DEF Bytes
<1> QED
  BY <1>3, <1>5, Zenon DEF s

-----------------------------------------------------------------------------
(* The steps of the link *)

\* A step in which every place keeps what it has.
LEMMA Stays ==
    ASSUME TypeOK, TypeOK', Structure, Flow,
           \A d \in Chan : Content(held', buf', d) = Content(held, buf, d)
    PROVE  InTransit' = InTransit
<1> DEFINE s == Places(wbuf, stubs, held, buf)
           t == Places(wbuf, stubs, held', buf')
<1>1. Distinct(stubs) /\ Located(stubs, 0, 2) /\ 0 \in Chan
  BY Typed DEF Structure, Distinct, Located
<1>2. Alike(s, t, 2, 2)
  BY <1>1, Typed, PlacesAlike
<1>3. At(s, 2, Content(held, buf, 0)) /\ At(t, 2, Content(held', buf', 0))
  BY <1>1, Typed, ContentAt
<1>4. s \in Seq(Bytes) /\ t \in Seq(Bytes)
  BY Typed, PlacesAt
<1> HIDE DEF s, t
<1>5. t[2] = s[2]
  BY <1>1, <1>3 DEF At
<1>6. t = s
  BY <1>2, <1>4, <1>5, SeqEqual DEF Alike
<1> QED
  BY <1>6 DEF InTransit, s, t, Flow

\* Bytes are lost at one place.
LEMMA LosesAt ==
    ASSUME TypeOK, TypeOK', Structure, Flow, NEW c \in Chan, NEW a, Located(stubs, c, a),
           Touches(c, c), NEW u \in Bytes, NEW d \in Bytes, NEW v \in Bytes,
           Joins(Content(held, buf, c), u, d, v), Joins(Content(held', buf', c), u, <<>>, v),
           dropped' = dropped \cup Range(d), UNCHANGED <<sent, delivered>>
    PROVE  PipeStep
<1> DEFINE s == Places(wbuf, stubs, held, buf)
           t == Places(wbuf, stubs, held', buf')
           x == Content(held, buf, c)
           y == Content(held', buf', c)
<1>1. Distinct(stubs)
  BY DEF Structure, Distinct
<1>2. Alike(s, t, a, a)
  BY <1>1, Typed, PlacesAlike DEF Touches
<1>3. At(s, a, x) /\ x \in Bytes /\ At(t, a, y) /\ y \in Bytes
  BY Typed, ContentAt
<1>4. s \in Seq(Bytes) /\ t \in Seq(Bytes)
  BY Typed, PlacesAt
<1>5. Joins(x, u, d, v) /\ Joins(y, u, <<>>, v)
  OBVIOUS
<1> HIDE DEF s, t, x, y
<1>6. PICK P, Q \in Bytes : Joins(FlattenSeq(s), P, d, Q) /\ Joins(FlattenSeq(t), P, <<>>, Q)
  BY <1>2, <1>3, <1>4, <1>5, FlattenLose DEF Bytes
<1>7. FlattenSeq(s) = InTransit /\ FlattenSeq(t) = InTransit'
  BY DEF s, t, InTransit, Flow
<1>8. Joins(InTransit, P, d, Q) /\ Joins(InTransit', P, <<>>, Q)
  BY <1>6, <1>7, Zenon
<1> QED
  BY <1>8, Loses

\* A live stub sends on what it has.
LEMMA HandsOn ==
    ASSUME TypeOK, TypeOK', Sound, Flow, NEW k \in Stub, Live(k),
           NEW x \in Bytes, Hands(k, output[k], x), UNCHANGED <<sent, delivered, dropped>>
    PROVE  PipeStep
<1>1. Structure /\ Wiring /\ Holds
  BY DEF Sound
<1>2. output[k] \in Chan /\ output[k] # k
  BY <1>1, LiveSends
<1>3. Touches(output[k], k) /\ Passes(output[k], k)
  BY <1>2, PassOn
<1>4. InTransit' = InTransit
  BY <1>1, <1>3, Shifts
<1> QED
  BY <1>4, Stutters

\* What a channel and its reader have, by the chunks of the channel.
LEMMA ContentQueue ==
    ASSUME NEW h \in HeldType, NEW ch \in BufType, NEW c \in Chan, ch[c] # <<>>,
           NEW g \in Bytes, IF c = 0 THEN g = <<>> ELSE g = h[c]
    PROVE  /\ Joins(Content(h, ch, c), g, Head(ch[c]), FlattenSeq(Tail(ch[c])))
           /\ Joins(Content(h, ch, c), g \o FlattenSeq(Front(ch[c])), Last(ch[c]), <<>>)
           /\ Head(ch[c]) \in Bytes /\ FlattenSeq(Tail(ch[c])) \in Bytes
           /\ Last(ch[c]) \in Bytes /\ FlattenSeq(Front(ch[c])) \in Bytes
<1> DEFINE q == ch[c]
           f == FlattenSeq(q)
           x == Head(q)
           y == FlattenSeq(Tail(q))
           z == FlattenSeq(Front(q))
           w == Last(q)
<1>1. q \in Seq(Bytes) /\ q # <<>>
  BY DEF BufType, Bytes
<1> HIDE DEF q
<1>2. /\ x \in Bytes /\ Tail(q) \in Seq(Bytes) /\ f = x \o y
      /\ w \in Bytes /\ Front(q) \in Seq(Bytes) /\ f = z \o w
  BY <1>1, FlattenQueue DEF Bytes
<1>3. f \in Bytes /\ y \in Bytes /\ z \in Bytes
  BY <1>1, <1>2, FlattenConcat DEF Bytes
<1>4. Content(h, ch, c) = g \o f
  <2>1. <<>> \o f = f
    BY <1>3, ConcatEmptySeq DEF Bytes
  <2>2. CASE c = 0
    BY <2>1, <2>2, Zenon DEF Content, q
  <2>3. CASE c # 0
    BY <2>3, Zenon DEF Content, q
  <2> QED
    BY <2>2, <2>3
<1> HIDE DEF f, x, y, z, w
<1>5. Joins(Content(h, ch, c), g, x, y)
  BY <1>2, <1>4, Zenon DEF Joins
<1>6. Joins(Content(h, ch, c), g \o z, w, <<>>)
  <2>1. g \o (z \o w) = (g \o z) \o w
    <3>1. z \in Bytes /\ w \in Bytes
      BY <1>2, <1>3
    <3> QED
      BY <3>1, BytesAssociate, Zenon
  <2>2. w \o <<>> = w
    BY <1>2, ConcatEmptySeq DEF Bytes
  <2> QED
    BY <1>2, <1>4, <2>1, <2>2, Zenon DEF Joins
<1> QED
  BY <1>2, <1>3, <1>5, <1>6 DEF q, x, y, z, w

\* The sender that is blocked on the channel of a live stub gives up.
LEMMA TakesBack ==
    ASSUME TypeOK, TypeOK', Sound, Flow, NEW k \in Stub, Live(k), Blocked(output[k]),
           TakeBack(output[k]), UNCHANGED <<held, sent, delivered>>
    PROVE  PipeStep
<1> DEFINE c == output[k]
           g == IF c = 0 THEN <<>> ELSE held[c]
<1>1. Structure /\ Wiring /\ Holds
  BY DEF Sound
<1>2. c \in Chan
  BY <1>1, LiveSends
<1>3. PICK a : Located(stubs, c, a)
  BY <1>1, Neighbours
<1>4. buf[c] # <<>> /\ g \in Bytes
  <2>1. Len(buf[c]) > cap[c] /\ cap[c] \in Nat /\ Len(<<>>) = 0
    BY <1>2, EmptySeq DEF Blocked, TypeOK
  <2>2. c # 0 => c \in Stub
    BY <1>2, BoundsAssumption DEF Chan, Stub
  <2>3. c # 0 => held[c] \in Bytes
    BY <2>2 DEF TypeOK, Bytes
  <2>4. <<>> \in Bytes
    BY EmptySeq DEF Bytes
  <2>5. buf[c] # <<>>
    BY <2>1
  <2> QED
    BY <2>3, <2>4, <2>5, Zenon
<1>5. /\ buf'[c] = Front(buf[c]) /\ dropped' = dropped \cup Range(Last(buf[c]))
      /\ \A d \in Chan : d # c => buf'[d] = buf[d]
  BY <1>2 DEF TakeBack, TypeOK
<1> HIDE DEF c
<1>6. Touches(c, c)
  <2> SUFFICES ASSUME NEW d \in Chan, d # c
               PROVE  Content(held', buf', d) = Content(held, buf, d)
    BY DEF Touches
  <2> QED
    BY <1>5, ContentKept
<1> DEFINE z == FlattenSeq(Front(buf[c]))
           w == Last(buf[c])
<1>7. g = IF c = 0 THEN <<>> ELSE held[c]
  OBVIOUS
<1> HIDE DEF g
<1>8. Joins(Content(held, buf, c), g \o z, w, <<>>) /\ z \in Bytes /\ w \in Bytes
  <2>1. IF c = 0 THEN g = <<>> ELSE g = held[c]
    BY <1>7
  <2> QED
    BY <1>2, <1>4, <2>1, Typed, ContentQueue
<1>9. Content(held', buf', c) = g \o z
  <2>1. <<>> \o z = z
    BY <1>8, ConcatEmptySeq DEF Bytes
  <2>2. FlattenSeq(buf'[c]) = z
    BY <1>5, Zenon
  <2>3. CASE c = 0
    BY <1>7, <2>1, <2>2, <2>3, Zenon DEF Content
  <2>4. CASE c # 0
    BY <1>7, <2>2, <2>4, Zenon DEF Content
  <2> QED
    BY <2>3, <2>4
<1> HIDE DEF z, w
<1>10. g \o z \in Bytes
  <2>1. z \in Bytes /\ g \in Bytes
    BY <1>4, <1>8
  <2> QED
    BY <2>1, ConcatProperties DEF Bytes
<1>11. Joins(Content(held', buf', c), g \o z, <<>>, <<>>) /\ <<>> \in Bytes
  <2> DEFINE y == g \o z
  <2>1. y \o <<>> = y /\ <<>> \o <<>> = <<>>
    <3> HIDE DEF y
    <3>1. y \in Bytes
      BY <1>10 DEF y
    <3> QED
      BY <3>1, ConcatEmptySeq, EmptySeq DEF Bytes
  <2>2. <<>> \in Bytes
    BY EmptySeq DEF Bytes
  <2> QED
    BY <1>9, <2>1, <2>2, Zenon DEF Joins
<1>12. dropped' = dropped \cup Range(w)
  BY <1>5 DEF w
<1> QED
  BY <1>1, <1>2, <1>3, <1>6, <1>8, <1>10, <1>11, <1>12, LosesAt

\* A sequence and its pieces.
LEMMA Sliced ==
    ASSUME NEW s \in Bytes, NEW n \in 0..Len(s)
    PROVE  s = SubSeq(s, 1, n) \o Rest(s, n) /\ SubSeq(s, 1, n) \in Bytes /\ Rest(s, n) \in Bytes
<1>1. s \in Seq(Byte) /\ Len(s) \in Nat
  BY LenProperties DEF Bytes
<1>2. SubSeq(s, 1, n) \o SubSeq(s, n + 1, Len(s)) = SubSeq(s, 1, Len(s))
  <2>1. 1 \in 1..(Len(s) + 1) /\ n \in (1 - 1)..Len(s) /\ Len(s) \in n..Len(s)
    BY <1>1
  <2> QED
    BY <1>1, <2>1, ConcatAdjacentSubSeq
<1>3. SubSeq(s, 1, Len(s)) = s
  BY <1>1, SubSeqFull
<1>4. SubSeq(s, 1, n) \in Bytes /\ Rest(s, n) \in Bytes
  <2>1. SubSeq(s, 0 + 1, n) \in Seq(Byte)
    BY <1>1, SeqFacts
  <2>2. SubSeq(s, n + 1, Len(s)) \in Seq(Byte)
    BY <1>1, SeqFacts
  <2> QED
    BY <2>1, <2>2 DEF Rest, Bytes
<1> QED
  BY <1>2, <1>3, <1>4, Zenon DEF Rest

\* A live stub hands on the chunk that it receives.
LEMMA HandsChunk ==
    ASSUME TypeOK, TypeOK', Sound, NEW k \in Stub, Live(k), buf[k] # <<>>, held[k] = <<>>,
           NEW x \in Bytes, Move(k, output[k], x), Head(buf[k]) = x \o held'[k],
           \A d \in Stub : d # k => held'[d] = held[d]
    PROVE  Hands(k, output[k], x)
<1>1. Structure /\ Wiring
  BY DEF Sound
<1>2. output[k] \in Chan /\ output[k] # k /\ k \in Chan
  BY <1>1, LiveSends, Typed
<1>3. buf' = [buf EXCEPT ![k] = Tail(@), ![output[k]] = Append(@, x)] /\ buf \in BufType
  BY Typed DEF Move
<1>4. /\ buf'[output[k]] = Append(buf[output[k]], x) /\ buf'[k] = Tail(buf[k])
      /\ \A d \in Chan : d # output[k] /\ d # k => buf'[d] = buf[d]
  BY <1>2, <1>3 DEF BufType
<1> QED
  BY <1>4 DEF Hands

\* A live stub hands on what it holds.
LEMMA HandsHeld ==
    ASSUME TypeOK, TypeOK', Sound, NEW k \in Stub, Live(k),
           NEW x \in Bytes, Push(output[k], x), held[k] = x \o held'[k],
           \A d \in Stub : d # k => held'[d] = held[d]
    PROVE  Hands(k, output[k], x)
<1>1. Structure /\ Wiring
  BY DEF Sound
<1>2. output[k] \in Chan /\ output[k] # k /\ k \in Chan
  BY <1>1, LiveSends, Typed
<1>3. buf' = [buf EXCEPT ![output[k]] = Append(@, x)] /\ buf \in BufType
  BY Typed DEF Push
<1>4. /\ buf'[output[k]] = Append(buf[output[k]], x) /\ buf'[k] = buf[k]
      /\ \A d \in Chan : d # output[k] /\ d # k => buf'[d] = buf[d]
  BY <1>2, <1>3 DEF BufType
<1> QED
  BY <1>4 DEF Hands

\* Every step of a stub is a step of the pipe.
LEMMA StubPipes ==
    ASSUME TypeOK, TypeOK', Sound, Cover, NEW k \in Stub, StubStep(k)
    PROVE  PipeStep
<1>1. /\ held \in HeldType /\ buf \in BufType /\ k \in Chan /\ Structure
      /\ pc[k] \notin {"delay", "send"} => held[k] = <<>>
      /\ pc[k] = "delay" => mode[k] \in Holding
  BY Typed DEF Sound, Holds, Holding
<1>2. pc[k] \in Running => Live(k)
  BY RunningStub
<1>3. /\ Flow /\ UNCHANGED <<sent, delivered>>
  BY DEF StubStep, NoopReceive, HoldReceive, SlicerReceive, ResetReceive, ResetFires, InputEnds,
         Timer, SlicerNext, Sent, WriteTimeout, Quiet, Flow
<1>4. CASE NoopReceive(k)
  <2>1. /\ pc[k] = "recv" /\ buf[k] # <<>> /\ Move(k, output[k], Head(buf[k]))
        /\ UNCHANGED <<held, dropped>>
    BY <1>4 DEF NoopReceive
  <2>2. Head(buf[k]) \in Bytes /\ held[k] = <<>> /\ Live(k)
    BY <1>1, <1>2, <2>1, Pieces DEF Bytes, Running
  <2>3. Head(buf[k]) = Head(buf[k]) \o held'[k]
    <3>1. Head(buf[k]) \o <<>> = Head(buf[k])
      BY <2>2, ConcatEmptySeq DEF Bytes
    <3> QED
      BY <2>1, <2>2, <3>1, Zenon
  <2>4. Hands(k, output[k], Head(buf[k]))
    BY <2>1, <2>2, <2>3, HandsChunk
  <2> QED
    BY <1>3, <2>1, <2>2, <2>4, HandsOn
<1>5. CASE HoldReceive(k)
  <2>1. /\ pc[k] = "recv" /\ buf[k] # <<>> /\ held' = [held EXCEPT ![k] = Head(buf[k])]
        /\ buf' = [buf EXCEPT ![k] = Tail(@)] /\ UNCHANGED dropped
    BY <1>5 DEF HoldReceive
  <2>2. held[k] = <<>> /\ held'[k] = Head(buf[k]) /\ buf'[k] = Tail(buf[k]) /\ k # 0
    BY <1>1, <2>1, Typed DEF HeldType, BufType
  <2>3. Content(held', buf', k) = Content(held, buf, k)
    <3>1. <<>> \in Bytes
      BY EmptySeq DEF Bytes
    <3>2. /\ Joins(Content(held, buf, k), <<>>, Head(buf[k]), FlattenSeq(Tail(buf[k])))
          /\ Head(buf[k]) \in Bytes /\ FlattenSeq(Tail(buf[k])) \in Bytes
      BY <1>1, <2>1, <2>2, <3>1, ContentQueue
    <3> DEFINE x == Head(buf[k])
               y == FlattenSeq(Tail(buf[k]))
    <3>3. Content(held', buf', k) = x \o y
      BY <2>2, Zenon DEF Content
    <3>4. <<>> \o (x \o y) = x \o y
      <4> HIDE DEF x, y
      <4>1. x \in Bytes /\ y \in Bytes
        BY <3>2 DEF x, y
      <4>2. x \o y \in Bytes
        BY <4>1, ConcatProperties DEF Bytes
      <4> DEFINE z == x \o y
      <4> HIDE DEF z
      <4>3. z \in Bytes
        BY <4>2 DEF z
      <4>4. <<>> \o z = z
        BY <4>3, ConcatEmptySeq DEF Bytes
      <4> QED
        BY <4>4 DEF z
    <3> QED
      BY <3>2, <3>3, <3>4, Zenon DEF Joins
  <2>4. ASSUME NEW d \in Chan, d # k
        PROVE  Content(held', buf', d) = Content(held, buf, d)
    <3>1. buf'[d] = buf[d] /\ (d \in Stub => held'[d] = held[d])
      BY <1>1, <2>1, <2>4 DEF HeldType, BufType
    <3> QED
      BY <3>1, ContentKept
  <2>5. InTransit' = InTransit
    BY <1>1, <1>3, <2>3, <2>4, Stays
  <2> QED
    BY <1>3, <2>1, <2>5, Stutters
<1>6. CASE SlicerReceive(k)
  <2>1. PICK n \in SliceSizes(Head(buf[k])) :
           /\ Move(k, output[k], SubSeq(Head(buf[k]), 1, n))
           /\ held' = [held EXCEPT ![k] = Rest(Head(buf[k]), n)]
    BY <1>6 DEF SlicerReceive
  <2>2. pc[k] = "recv" /\ buf[k] # <<>> /\ UNCHANGED dropped
    BY <1>6 DEF SlicerReceive
  <2>3. Head(buf[k]) \in Bytes /\ held[k] = <<>> /\ Live(k)
    BY <1>1, <1>2, <2>2, Pieces DEF Bytes, Running
  <2>4. n \in 0..Len(Head(buf[k]))
    BY <2>1, <2>3, Pieces DEF Bytes
  <2> DEFINE x == SubSeq(Head(buf[k]), 1, n)
  <2>5. Head(buf[k]) = x \o Rest(Head(buf[k]), n) /\ x \in Bytes
    BY <2>3, <2>4, Sliced
  <2>6. held'[k] = Rest(Head(buf[k]), n) /\ \A d \in Stub : d # k => held'[d] = held[d]
    BY <1>1, <2>1 DEF HeldType
  <2>7. Move(k, output[k], x) /\ Head(buf[k]) = x \o held'[k]
    BY <2>1, <2>5, <2>6, Zenon
  <2> HIDE DEF x
  <2>8. Hands(k, output[k], x)
    BY <2>2, <2>3, <2>5, <2>6, <2>7, HandsChunk
  <2> QED
    BY <1>3, <2>2, <2>3, <2>5, <2>8, HandsOn
<1>7. CASE ResetReceive(k)
  <2>1. pc[k] = "recv" /\ UNCHANGED held
    BY <1>7 DEF ResetReceive
  <2>2. Live(k) /\ held[k] = <<>> /\ k # 0
    BY <1>1, <1>2, <2>1, Typed DEF Running
  <2>3. CASE UNCHANGED <<buf, dropped>>
    <3>1. InTransit' = InTransit
      BY <1>3, <2>1, <2>3 DEF InTransit, Flow
    <3> QED
      BY <1>3, <2>3, <3>1, Stutters
  <2>4. CASE /\ buf[k] # <<>> /\ buf' = [buf EXCEPT ![k] = Tail(@)]
             /\ dropped' = dropped \cup Range(Head(buf[k]))
    <3> DEFINE x == Head(buf[k])
               y == FlattenSeq(Tail(buf[k]))
    <3>1. <<>> \in Bytes
      BY EmptySeq DEF Bytes
    <3>2. Joins(Content(held, buf, k), <<>>, x, y) /\ x \in Bytes /\ y \in Bytes
      BY <1>1, <2>2, <2>4, <3>1, ContentQueue
    <3>3. /\ buf'[k] = Tail(buf[k]) /\ held'[k] = <<>>
          /\ \A d \in Chan : d # k => buf'[d] = buf[d]
      BY <1>1, <2>1, <2>2, <2>4 DEF BufType
    <3>4. Joins(Content(held', buf', k), <<>>, <<>>, y)
      <4>1. Content(held', buf', k) = <<>> \o y
        BY <2>2, <3>3, Zenon DEF Content
      <4> HIDE DEF y
      <4>2. <<>> \o y = y
        BY <3>2, ConcatEmptySeq DEF Bytes
      <4> QED
        BY <4>1, <4>2, Zenon DEF Joins
    <3>5. Touches(k, k)
      <4> SUFFICES ASSUME NEW d \in Chan, d # k
                   PROVE  Content(held', buf', d) = Content(held, buf, d)
        BY DEF Touches
      <4> QED
        BY <2>1, <3>3, ContentKept
    <3>6. PICK a : Located(stubs, k, a)
      BY <2>2, Neighbours DEF Sound
    <3>7. dropped' = dropped \cup Range(x)
      BY <2>4
    <3> HIDE DEF x, y
    <3> QED
      BY <1>1, <1>3, <3>1, <3>2, <3>4, <3>5, <3>6, <3>7, LosesAt
  <2> QED
    BY <1>7, <2>3, <2>4 DEF ResetReceive
<1>8. CASE ResetFires(k) \/ InputEnds(k) \/ SlicerNext(k) \/ Sent(k)
  <2>1. UNCHANGED <<held, buf, dropped>>
    BY <1>8 DEF ResetFires, InputEnds, SlicerNext, Sent
  <2>2. InTransit' = InTransit
    BY <1>3, <2>1 DEF InTransit, Flow
  <2> QED
    BY <1>3, <2>1, <2>2, Stutters
<1>9. CASE Timer(k)
  <2>1. PICK n \in PieceSizes(k) :
           /\ Push(output[k], SubSeq(held[k], 1, n))
           /\ held' = [held EXCEPT ![k] = Rest(@, n)]
    BY <1>9 DEF Timer
  <2>2. pc[k] = "delay" /\ UNCHANGED dropped
    BY <1>9 DEF Timer
  <2>3. held[k] \in Bytes /\ Live(k) /\ mode[k] \in Holding
    BY <1>1, <1>2, <2>2 DEF HeldType, Running
  <2>4. n \in 0..Len(held[k])
    <3>1. Len(held[k]) \in Nat /\ SliceSizes(held[k]) \subseteq 0..Len(held[k])
      BY <2>3, Pieces, SeqFacts DEF Bytes
    <3> QED
      BY <2>1, <2>3, <3>1, BoundsAssumption DEF PieceSizes, Holding
  <2> DEFINE x == SubSeq(held[k], 1, n)
  <2>5. held[k] = x \o Rest(held[k], n) /\ x \in Bytes
    BY <2>3, <2>4, Sliced
  <2>6. held'[k] = Rest(held[k], n) /\ \A d \in Stub : d # k => held'[d] = held[d]
    BY <1>1, <2>1 DEF HeldType
  <2>7. Push(output[k], x) /\ held[k] = x \o held'[k]
    BY <2>1, <2>5, <2>6, Zenon
  <2> HIDE DEF x
  <2>8. Hands(k, output[k], x)
    BY <2>3, <2>5, <2>6, <2>7, HandsHeld
  <2> QED
    BY <1>3, <2>2, <2>3, <2>5, <2>8, HandsOn
<1>10. CASE WriteTimeout(k)
  <2>1. /\ pc[k] = "wflush" /\ Blocked(output[k]) /\ TakeBack(output[k]) /\ UNCHANGED held
    BY <1>10 DEF WriteTimeout
  <2>2. Live(k)
    BY <1>2, <2>1 DEF Running, Sending
  <2> QED
    BY <1>3, <2>1, <2>2, TakesBack
<1> QED
  BY <1>4, <1>5, <1>6, <1>7, <1>8, <1>9, <1>10 DEF StubStep

\* A step that leaves the places alone.
LEMMA PlacesKept ==
    ASSUME UNCHANGED <<stubs, wbuf, held, buf, sent, delivered, dropped>>
    PROVE  PipeStep
<1>1. InTransit' = InTransit
  BY DEF InTransit
<1> QED
  BY <1>1, Stutters

\* The data that an interrupted stub holds is sent on.
LEMMA InterruptPipes ==
    ASSUME TypeOK, TypeOK', Sound, Cover, InterruptToxic \/ StopInterrupts
    PROVE  PipeStep
<1>1. PICK k \in Stub : TakeInterrupt(k)
  BY Fields DEF InterruptToxic, StopInterrupts
<1>2. UNCHANGED <<stubs, wbuf, sent, delivered, dropped>>
  BY DEF InterruptToxic, StopInterrupts, OpQuiet
<1>3. CASE pc[k] = "recv"
  <2>1. UNCHANGED <<held, buf>>
    BY <1>1, <1>3 DEF TakeInterrupt
  <2> QED
    BY <1>2, <2>1, PlacesKept
<1>4. CASE pc[k] # "recv"
  <2>1. pc[k] = "delay" /\ Push(output[k], held[k]) /\ held' = [held EXCEPT ![k] = <<>>]
    BY <1>1, <1>4 DEF TakeInterrupt, Interruptible
  <2>2. Live(k) /\ held \in HeldType
    BY <2>1, RunningStub, Typed DEF Running
  <2>3. held[k] \in Bytes /\ held'[k] = <<>> /\ \A d \in Stub : d # k => held'[d] = held[d]
    BY <2>1, <2>2 DEF HeldType
  <2>4. held[k] = held[k] \o held'[k]
    <3>1. held[k] \o <<>> = held[k]
      BY <2>3, ConcatEmptySeq DEF Bytes
    <3> QED
      BY <2>3, <3>1, Zenon
  <2>5. Hands(k, output[k], held[k])
    BY <2>1, <2>2, <2>3, <2>4, HandsHeld
  <2> QED
    BY <1>2, <2>2, <2>3, <2>5, HandsOn DEF Flow
<1> QED
  BY <1>3, <1>4

\* RemoveToxic passes on what is left for the removed stub, or gives it up.
LEMMA DrainPipes ==
    ASSUME TypeOK, TypeOK', Sound, Cover, DrainChunk \/ DrainWritten
    PROVE  PipeStep
<1> DEFINE k == op.stub
<1>1. Structure /\ CallShape /\ Interruption /\ Holds
  BY DEF Sound
<1>2. op.pc \in {"drain", "empty"}
  BY <1>1 DEF DrainChunk, DrainWritten, CallShape
<1>3. k \in Stub /\ Live(k) /\ pc[k] = "exited"
  BY <1>1, <1>2, InterruptedLive, Fields DEF Interruption
<1>4. held[k] = <<>>
  BY <1>1, <1>3 DEF Holds
<1>5. UNCHANGED <<stubs, wbuf, held, sent, delivered>>
  BY DEF DrainChunk, DrainWritten, OpQuiet, stubVars
<1>6. CASE DrainChunk
  <2>1. Move(k, output[k], Head(buf[k])) /\ UNCHANGED dropped /\ (buf[k] # <<>> \/ ChanLen(k) > 0)
    BY <1>6 DEF DrainChunk
  <2>2. buf[k] # <<>>
    <3>1. buf[k] \in Seq(Seq(Byte)) /\ Len(buf[k]) \in Nat /\ cap[k] \in Nat
      <4>1. k \in Chan
        BY <1>3, Typed
      <4> QED
        BY <4>1 DEF TypeOK
    <3>2. ChanLen(k) > 0 => Len(buf[k]) > 0
      BY <3>1 DEF ChanLen, Blocked
    <3> QED
      BY <2>1, <3>1, <3>2, SeqFacts
  <2>3. Head(buf[k]) \in Bytes
    BY <1>3, <2>2, Pieces DEF Bytes
  <2>4. Head(buf[k]) = Head(buf[k]) \o held'[k]
    <3>1. Head(buf[k]) \o <<>> = Head(buf[k])
      BY <2>3, ConcatEmptySeq DEF Bytes
    <3> QED
      BY <1>4, <1>5, <3>1, Zenon
  <2> HIDE DEF k
  <2>5. Hands(k, output[k], Head(buf[k]))
    BY <1>3, <1>4, <1>5, <2>1, <2>2, <2>3, <2>4, HandsChunk
  <2> QED
    BY <1>3, <1>5, <2>1, <2>3, <2>5, HandsOn DEF Flow
<1>7. CASE DrainWritten /\ UNCHANGED <<buf, dropped>>
  BY <1>5, <1>7, PlacesKept
<1>8. CASE DrainWritten /\ Blocked(output[k]) /\ TakeBack(output[k])
  <2> HIDE DEF k
  <2> QED
    BY <1>3, <1>5, <1>8, TakesBack DEF Flow
<1> QED
  BY <1>6, <1>7, <1>8 DEF DrainWritten

\* A stub joins the link.
LEMMA AddPipes ==
    ASSUME TypeOK, TypeOK', Sound, NEW t \in Toxics, AddToxic(t)
    PROVE  PipeStep
<1>1. UNCHANGED <<wbuf, held, buf, sent, delivered, dropped>>
  BY DEF AddToxic, Begin, endVars
<1>2. CASE ~linked
  BY <1>1, <1>2, PlacesKept DEF AddToxic
<1>3. CASE linked
  <2> DEFINE n == Len(stubs)
             new == made + 1
  <2>1. stubs' = Append(stubs, new) /\ made < MaxStubs
    BY <1>3 DEF AddToxic
  <2>2. n \in Nat /\ stubs \in Seq(Stub) /\ new \in Stub /\ new > made
    BY <2>1, Fields, BoundsAssumption DEF TypeOK, Stub
  <2>3. /\ stubs' \in Seq(Stub) /\ Len(stubs') = n + 1 /\ stubs'[n + 1] = new
        /\ \A i \in 1..n : stubs'[i] = stubs[i]
    BY <2>1, <2>2, AppendProperties
  <2>4. held[new] = <<>> /\ buf[new] = <<>>
    BY <2>2 DEF Sound, Structure, Fresh, Holds
  <2>5. RemoveAt(stubs', n + 1) = stubs
    <3> DEFINE r == RemoveAt(stubs', n + 1)
    <3>1. n + 1 \in 1..Len(stubs')
      BY <2>2, <2>3
    <3>2. /\ r \in Seq(Stub) /\ Len(r) = Len(stubs') - 1
          /\ \A j \in 1..(Len(stubs') - 1) : r[j] = IF j < n + 1 THEN stubs'[j] ELSE stubs'[j + 1]
      BY <2>3, <3>1, RemoveAtProperties
    <3> HIDE DEF r
    <3>3. Len(r) = n /\ \A j \in 1..n : r[j] = stubs[j]
      BY <2>2, <2>3, <3>2
    <3>4. r = stubs
      BY <2>2, <3>2, <3>3, SeqEqual
    <3> QED
      BY <3>4 DEF r
  <2>6. FlattenSeq(Places(wbuf, RemoveAt(stubs', n + 1), held, buf)) = FlattenSeq(Places(wbuf, stubs', held, buf))
    <3>1. n + 1 \in 1..Len(stubs')
      BY <2>2, <2>3
    <3> QED
      BY <2>3, <2>4, <3>1, Typed, EmptyStub
  <2>7. InTransit' = InTransit
    BY <1>1, <2>5, <2>6, Zenon DEF InTransit
  <2> QED
    BY <1>1, <2>7, Stutters
<1> QED
  BY <1>2, <1>3

\* A stub leaves the link once nothing is left in its Input.
LEMMA RemovePipes ==
    ASSUME TypeOK, TypeOK', Sound, Cover, RemoveResumes
    PROVE  PipeStep
<1> DEFINE p == op.pos
           k == op.stub
           v == op.prev
<1>1. Structure /\ Wiring /\ Holds /\ Interruption /\ CallShape
  BY DEF Sound
<1>2. op.pc = "empty" /\ ~op.writing /\ ChanLen(k) = 0 /\ stubs' = RemoveAt(stubs, p)
  BY DEF RemoveResumes
<1>3. UNCHANGED <<wbuf, held, buf, sent, delivered, dropped>>
  BY DEF RemoveResumes, OpQuiet, chanVars
<1>4. op.call = "remove" /\ op.stop = "yes" /\ pc[k] = "exited" /\ pc[v] = "exited"
  BY <1>1, <1>2, Fields DEF CallShape, Idle, Interruption
<1>5. /\ p \in 1..Len(stubs) /\ k = stubs[p] /\ k \in Stub /\ v \in Stub
      /\ p - 1 \in 1..Wired /\ p - 1 < Wired /\ v = stubs[p - 1]
  <2>1. Wired = Len(stubs) /\ Len(stubs) \in Nat /\ p \in Nat /\ k \in Stub /\ v \in Stub
    BY <1>4, Fields DEF Wired
  <2> QED
    BY <1>1, <1>4, <2>1, CallPos
<1>6. Live(v) /\ output[v] = k
  <2>1. Live(v)
    BY <1>1, <1>4, InterruptedLive
  <2>2. output[v] = After(p - 1)
    BY <1>1, <1>5, <2>1 DEF Wiring, Live
  <2>3. p - 1 + 1 = p
    BY Fields
  <2> QED
    BY <1>5, <2>1, <2>2, <2>3 DEF After
<1>7. buf[k] = <<>> /\ held[k] = <<>>
  <2>1. Len(buf[output[v]]) <= cap[output[v]]
    BY <1>2, <1>4, <1>5, <1>6, OwnChannel DEF Sending
  <2>2. buf[k] \in Seq(Seq(Byte)) /\ Len(buf[k]) \in Nat /\ cap[k] \in Nat
    <3>1. k \in Chan
      BY <1>5, Typed
    <3> QED
      BY <3>1 DEF TypeOK
  <2>3. Len(buf[k]) = 0
    BY <1>2, <1>6, <2>1, <2>2 DEF ChanLen, Blocked
  <2>4. held[k] = <<>>
    BY <1>1, <1>4, <1>5 DEF Holds
  <2> QED
    BY <2>2, <2>3, <2>4, SeqFacts
<1>8. FlattenSeq(Places(wbuf, RemoveAt(stubs, p), held, buf)) = FlattenSeq(Places(wbuf, stubs, held, buf))
  BY <1>5, <1>7, Typed, EmptyStub
<1>9. InTransit' = InTransit
  BY <1>2, <1>3, <1>8, Zenon DEF InTransit
<1> QED
  BY <1>3, <1>9, Stutters

\* The writer has a chunk only while it writes.
WriterHolds == writer # "write" => wbuf = <<>>

\* The reader puts a datagram behind everything that is in transit.
LEMMA ReadPipes ==
    ASSUME TypeOK, TypeOK', Sound, ReadSource
    PROVE  PipeStep
<1> DEFINE s == Places(wbuf, stubs, held, buf)
           t == Places(wbuf, stubs, held', buf')
           x == Content(held, buf, 1)
           d == Datagram(sent + 1)
           n == Len(stubs)
<1>1. /\ UNCHANGED <<stubs, wbuf, held, delivered, dropped>> /\ sent' = sent + 1 /\ sent < MaxDatagrams
      /\ buf' = [buf EXCEPT ![1] = Append(@, d)]
  BY DEF ReadSource, Push, stubVars
<1>2. 1 \in Chan /\ buf \in BufType /\ d \in Bytes
  <2>1. sent + 1 \in 1..MaxDatagrams
    BY <1>1, BoundsAssumption DEF TypeOK
  <2>2. 1 \in Chan
    BY BoundsAssumption DEF Chan
  <2> QED
    BY <2>1, <2>2, DatagramType, Typed DEF Bytes
<1> HIDE DEF d
<1>3. buf'[1] = Append(buf[1], d) /\ \A c \in Chan : c # 1 => buf'[c] = buf[c]
  BY <1>1, <1>2 DEF BufType
<1>4. \A c \in Chan : c # 1 => Content(held', buf', c) = Content(held, buf, c)
  BY <1>1, <1>3, ContentKept
<1>5. Content(held', buf', 1) = x \o d
  BY <1>1, <1>2, <1>3, ContentKept
<1>6. n \in Nat /\ Distinct(stubs) /\ Located(stubs, 1, n + 2)
  <2>1. n \in Nat /\ n >= 1 /\ stubs[1] = 1 /\ Distinct(stubs)
    BY Fields DEF Sound, Structure, Distinct
  <2>2. 1 \in 1..n /\ n + 3 - 1 = n + 2
    BY <2>1
  <2> QED
    BY <2>1, <2>2 DEF Located
<1>7. s \in Seq(Bytes) /\ t \in Seq(Bytes) /\ n + 2 = Len(s)
  BY Typed, PlacesAt
<1>8. Alike(s, t, n + 2, n + 2)
  BY <1>2, <1>4, <1>6, Typed, PlacesAlike
<1>9. At(s, n + 2, x) /\ x \in Bytes /\ At(t, n + 2, Content(held', buf', 1))
  BY <1>2, <1>6, Typed, ContentAt
<1> DEFINE a == n + 2
<1> HIDE DEF s, t, x, a
<1>10. At(t, a, x \o d)
  BY <1>5, <1>9, Zenon DEF a
<1>11. FlattenSeq(t) = FlattenSeq(s) \o d
  <2>1. a = Len(s) /\ Alike(s, t, a, a) /\ At(s, a, x)
    BY <1>7, <1>8, <1>9 DEF a
  <2> QED
    BY <1>2, <1>7, <1>9, <1>10, <2>1, FlattenExtend DEF Bytes
<1>12. InTransit' = InTransit \o Datagram(sent + 1)
  BY <1>1, <1>11, Zenon DEF InTransit, s, t, d
<1> QED
  BY <1>1, <1>12, Enters

\* The writer gets rid of its chunk d.
LEMMA WriterDone ==
    ASSUME TypeOK, TypeOK', UNCHANGED <<stubs, held, buf>>, wbuf' = <<>>
    PROVE  \E Q \in Bytes : Joins(InTransit, <<>>, wbuf, Q) /\ Joins(InTransit', <<>>, <<>>, Q)
<1> DEFINE s == Places(wbuf, stubs, held, buf)
           t == Places(wbuf', stubs, held, buf)
<1>1. Alike(s, t, 1, 1)
  BY Typed, PlacesFront
<1>2. s \in Seq(Bytes) /\ At(s, 1, wbuf) /\ t \in Seq(Bytes) /\ At(t, 1, wbuf')
  BY Typed, PlacesAt
<1>3. wbuf \in Bytes /\ <<>> \in Bytes
  BY Typed, EmptySeq DEF Bytes
<1> HIDE DEF s, t
<1>4. At(t, 1, <<>>)
  BY <1>2
<1>5. PICK P, Q \in Bytes : /\ Joins(FlattenSeq(s), P, wbuf, Q) /\ Joins(FlattenSeq(t), P, <<>>, Q)
                            /\ P = <<>>
  <2> DEFINE a == 1
             e == <<>>
  <2>1. Alike(s, t, a, a) /\ At(s, a, wbuf) /\ At(t, a, e) /\ e \in Bytes
    BY <1>1, <1>2, <1>3, <1>4
  <2> HIDE DEF a, e
  <2>2. \E P, Q \in Bytes : /\ Joins(FlattenSeq(s), P, wbuf, Q) /\ Joins(FlattenSeq(t), P, e, Q)
                            /\ a = 1 => P = <<>>
    BY <1>2, <1>3, <2>1, FlattenChange DEF Bytes
  <2> QED
    BY <2>2 DEF a, e
<1>6. FlattenSeq(s) = InTransit /\ FlattenSeq(t) = InTransit'
  BY DEF s, t, InTransit
<1> QED
  BY <1>5, <1>6, Zenon

\* The steps of the writer.
LEMMA WriterPipes ==
    ASSUME TypeOK, TypeOK', WriterHolds, WriterStep \/ WriterFails
    PROVE  PipeStep
<1>1. UNCHANGED <<stubs, held, sent>>
  BY DEF WriterStep, WriterReceive, WriterWrites, WriterFails, WriterEnds, RemoveLink, stubVars
<1>2. CASE WriterReceive
  <2>1. /\ writer = "recv" /\ buf[0] # <<>> /\ wbuf' = Head(buf[0])
        /\ buf' = [buf EXCEPT ![0] = Tail(@)] /\ UNCHANGED <<delivered, dropped>>
    BY <1>2 DEF WriterReceive
  <2> DEFINE s == Places(wbuf, stubs, held, buf)
             t == Places(wbuf', stubs, held, buf')
             x == FlattenSeq(buf[0])
             u == wbuf'
             v == FlattenSeq(Tail(buf[0]))
  <2>2. buf'[0] = Tail(buf[0]) /\ \A c \in Stub : buf'[c] = buf[c]
    BY <2>1, Typed DEF BufType
  <2>3. Alike(s, t, 1, 2)
    BY <2>2, Typed, PlacesFront
  <2>4. wbuf = <<>>
    BY <2>1 DEF WriterHolds
  <2>5. s \in Seq(Bytes) /\ At(s, 1, wbuf) /\ At(s, 2, x)
    BY Typed, PlacesAt
  <2>6. t \in Seq(Bytes) /\ At(t, 1, u) /\ At(t, 2, v)
    <3>1. t \in Seq(Bytes) /\ At(t, 1, u) /\ At(t, 2, FlattenSeq(buf'[0]))
      BY Typed, PlacesAt
    <3> QED
      BY <2>2, <3>1, Zenon
  <2>7. x = u \o v /\ x \in Bytes /\ u \in Bytes /\ v \in Bytes
    <3>1. buf[0] \in Seq(Bytes)
      BY Typed DEF BufType, Bytes
    <3>2. Tail(buf[0]) \in Seq(Bytes) /\ x = Head(buf[0]) \o v
      BY <2>1, <3>1, FlattenQueue DEF Bytes
    <3>3. x \in Bytes /\ v \in Bytes
      BY <3>1, <3>2, FlattenConcat DEF Bytes
    <3> QED
      BY <2>1, <3>2, <3>3, Typed, Zenon
  <2> HIDE DEF s, t, x, u, v
  <2>8. Recuts(wbuf, x, u, v) /\ wbuf \in Bytes
    <3>1. <<>> \o x = x /\ <<>> \in Bytes
      BY <2>7, ConcatEmptySeq, EmptySeq DEF Bytes
    <3> QED
      BY <2>4, <2>7, <3>1, Zenon DEF Recuts
  <2>9. \A i \in (1 + 1)..(2 - 1) : At(s, i, <<>>)
    OBVIOUS
  <2>10. FlattenSeq(t) = FlattenSeq(s)
    <3> DEFINE a == 1
               b == 2
    <3>1. /\ Alike(s, t, a, b) /\ At(s, a, wbuf) /\ At(s, b, x) /\ At(t, a, u) /\ At(t, b, v)
          /\ a < b /\ \A i \in (a + 1)..(b - 1) : At(s, i, <<>>)
      BY <2>3, <2>5, <2>6, <2>9
    <3>2. x \in Bytes /\ u \in Bytes /\ v \in Bytes
      BY <2>7
    <3> HIDE DEF a, b
    <3> QED
      BY <2>5, <2>6, <2>8, <3>1, <3>2, FlattenShift DEF Bytes
  <2>11. InTransit' = InTransit
    BY <1>1, <2>10, Zenon DEF InTransit, s, t
  <2> QED
    BY <1>1, <2>1, <2>11, Stutters
<1>3. CASE WriterWrites
  <2>1. delivered' = delivered \o wbuf /\ wbuf' = <<>> /\ UNCHANGED <<buf, dropped>>
    BY <1>3 DEF WriterWrites, chanVars
  <2>2. PICK Q \in Bytes : Joins(InTransit, <<>>, wbuf, Q) /\ Joins(InTransit', <<>>, <<>>, Q)
    BY <1>1, <2>1, WriterDone
  <2>3. delivered \in Bytes /\ wbuf \in Bytes
    BY Typed DEF TypeOK, Bytes
  <2> QED
    BY <1>1, <2>1, <2>2, <2>3, Delivers
<1>4. CASE WriterFails
  <2>1. dropped' = dropped \cup Range(wbuf) /\ wbuf' = <<>> /\ UNCHANGED <<buf, delivered>>
    BY <1>4 DEF WriterFails, chanVars
  <2>2. PICK Q \in Bytes : Joins(InTransit, <<>>, wbuf, Q) /\ Joins(InTransit', <<>>, <<>>, Q)
    BY <1>1, <2>1, WriterDone
  <2>3. <<>> \in Bytes /\ wbuf \in Bytes
    BY Typed, EmptySeq DEF Bytes
  <2> QED
    BY <1>1, <2>1, <2>2, <2>3, Loses
<1>5. CASE WriterEnds \/ RemoveLink
  <2>1. UNCHANGED <<wbuf, buf, delivered, dropped>>
    BY <1>5 DEF WriterEnds, RemoveLink, chanVars
  <2> QED
    BY <1>1, <2>1, PlacesKept
<1> QED
  BY <1>2, <1>3, <1>4, <1>5 DEF WriterStep

-----------------------------------------------------------------------------
(* The refinement *)

\* The writer's chunk in every step.
LEMMA WriterHoldsKept == WriterHolds /\ [Next]_vars => WriterHolds'
<1> SUFFICES ASSUME WriterHolds, [Next]_vars
             PROVE  WriterHolds'
  OBVIOUS
<1>1. CASE UNCHANGED vars
  BY <1>1 DEF vars, WriterHolds
<1>2. CASE WriterStep \/ WriterFails
  BY <1>2 DEF WriterStep, WriterReceive, WriterWrites, WriterFails, WriterEnds, RemoveLink, WriterHolds
<1>3. CASE Next /\ ~(WriterStep \/ WriterFails)
  <2>1. UNCHANGED <<writer, wbuf>>
    BY <1>3 DEF Next, ReadSource, ReaderSent, SourceEnds, StubStep, NoopReceive, HoldReceive,
       SlicerReceive, ResetReceive, ResetFires, InputEnds, Timer, SlicerNext, Sent, WriteTimeout, Quiet,
       OpBegins, AddToxic, UpdateToxic, RemoveToxic, Begin, endVars, InterruptToxic, OpStep, AddResumes,
       AddToClosed, UpdateResumes, ClosedAlready, RemoveInterrupted, StopReceived, DrainChunk,
       DrainWritten, DrainEnds, AwaitStop, RemoveResumes, StopInterrupts, StopAnswers, OpQuiet
  <2> QED
    BY <2>1 DEF WriterHolds
<1> QED
  BY <1>1, <1>2, <1>3

\* Every step of a link is a step of the pipe, or one that the pipe does not see.
LEMMA StepPipe == IndInv /\ IndInv' /\ WriterHolds /\ [Next]_vars => PipeStep
<1> SUFFICES ASSUME IndInv, IndInv', WriterHolds, [Next]_vars
             PROVE  PipeStep
  OBVIOUS
<1>1. CASE UNCHANGED vars
  BY <1>1, PlacesKept DEF vars
<1>2. CASE Next
  <2>1. TypeOK /\ TypeOK' /\ Sound /\ Cover
    BY <1>2, DeadStops DEF IndInv
  <2>2. CASE ReadSource
    BY <2>1, <2>2, ReadPipes
  <2>3. CASE WriterStep \/ WriterFails
    BY <2>1, <2>3, WriterPipes
  <2>4. CASE \E k \in Stub : StubStep(k)
    BY <2>1, <2>4, StubPipes
  <2>5. CASE \E t \in Toxics : AddToxic(t)
    BY <2>1, <2>5, AddPipes
  <2>6. CASE InterruptToxic \/ StopInterrupts
    BY <2>1, <2>6, InterruptPipes
  <2>7. CASE DrainChunk \/ DrainWritten
    BY <2>1, <2>7, DrainPipes
  <2>8. CASE RemoveResumes
    BY <2>1, <2>8, RemovePipes
  <2>9. CASE ReaderSent \/ SourceEnds \/ \E i \in 2..Len(chain) : UpdateToxic(i) \/ RemoveToxic(i)
    <3>1. UNCHANGED <<stubs, wbuf, held, buf, sent, delivered, dropped>>
      BY <2>9 DEF ReaderSent, SourceEnds, UpdateToxic, RemoveToxic, Begin, endVars, stubVars, chanVars
    <3> QED
      BY <3>1, PlacesKept
  <2>10. CASE \/ AddResumes \/ AddToClosed \/ UpdateResumes \/ ClosedAlready \/ RemoveInterrupted
              \/ StopReceived \/ DrainEnds \/ AwaitStop \/ StopAnswers
    <3>1. UNCHANGED <<stubs, wbuf, held, buf, sent, delivered, dropped>>
      BY <2>10 DEF AddResumes, AddToClosed, UpdateResumes, ClosedAlready, RemoveInterrupted, StopReceived,
         DrainEnds, AwaitStop, StopAnswers, OpQuiet, stubVars, chanVars
    <3> QED
      BY <3>1, PlacesKept
  <2> QED
    BY <1>2, <2>2, <2>3, <2>4, <2>5, <2>6, <2>7, <2>8, <2>9, <2>10 DEF Next, OpBegins, OpStep
<1> QED
  BY <1>1, <1>2

\* A link that holds nothing.
LEMMA PlacesEmpty ==
    ASSUME NEW w, w = <<>>, NEW ss \in Seq(Stub), NEW h \in HeldType, NEW ch \in BufType, ch[0] = <<>>,
           \A i \in 1..Len(ss) : h[ss[i]] = <<>> /\ ch[ss[i]] = <<>>
    PROVE  /\ Places(w, ss, h, ch) \in Seq(Bytes)
           /\ \A i \in 1..Len(Places(w, ss, h, ch)) : Places(w, ss, h, ch)[i] = <<>>
<1> DEFINE s == Places(w, ss, h, ch)
           n == Len(ss)
<1>1. /\ s \in Seq(Bytes) /\ Len(s) = n + 2 /\ At(s, 1, w) /\ At(s, 2, FlattenSeq(ch[0]))
      /\ \A i \in 1..n : At(s, n + 3 - i, h[ss[i]] \o FlattenSeq(ch[ss[i]]))
  <2>1. w \in Bytes
    BY EmptySeq DEF Bytes
  <2> QED
    BY <2>1, PlacesAt
<1>2. FlattenSeq(<<>>) = <<>> /\ <<>> \o <<>> = <<>>
  BY FlattenRecursion, EmptySeq, ConcatEmptySeq
<1>3. n \in Nat
  BY LenProperties
<1> HIDE DEF s
<1>4. ASSUME NEW i \in 1..Len(s)
      PROVE  s[i] = <<>>
  <2>1. CASE i = 1
    BY <1>1, <2>1 DEF At
  <2>2. CASE i = 2
    BY <1>1, <1>2, <2>2 DEF At
  <2>3. CASE i \notin {1, 2}
    <3> DEFINE j == n + 3 - i
    <3>1. j \in 1..n /\ n + 3 - j = i
      BY <1>1, <1>3, <2>3
    <3> HIDE DEF j
    <3>2. At(s, i, h[ss[j]] \o FlattenSeq(ch[ss[j]]))
      BY <1>1, <3>1
    <3>3. h[ss[j]] \o FlattenSeq(ch[ss[j]]) = <<>>
      BY <1>2, <3>1, Zenon
    <3> QED
      BY <3>2, <3>3 DEF At
  <2> QED
    BY <2>1, <2>2, <2>3
<1> QED
  BY <1>1, <1>4 DEF s

\* A new link is an empty pipe.
LEMMA InitPipe == Init => Pipe!Init /\ WriterHolds
<1> SUFFICES ASSUME Init
             PROVE  Pipe!Init /\ WriterHolds
  OBVIOUS
<1> DEFINE s == Places(wbuf, stubs, held, buf)
<1>1. /\ wbuf = <<>> /\ held = [k \in Stub |-> <<>>] /\ buf = [c \in Chan |-> <<>>]
      /\ sent = 0 /\ delivered = <<>> /\ dropped = {}
  BY DEF Init
<1>2. stubs \in Seq(Stub) /\ held \in HeldType /\ buf \in BufType
  BY InitIndInv DEF IndInv, TypeOK, Bytes, HeldType, BufType
<1>3. buf[0] = <<>> /\ \A i \in 1..Len(stubs) : held[stubs[i]] = <<>> /\ buf[stubs[i]] = <<>>
  <2>1. 0 \in Chan /\ \A k \in Stub : k \in Chan
    BY BoundsAssumption DEF Stub, Chan
  <2>2. \A i \in 1..Len(stubs) : stubs[i] \in Stub
    BY <1>2, ElementOfSeq
  <2> QED
    BY <1>1, <2>1, <2>2
<1>4. s \in Seq(Bytes) /\ \A i \in 1..Len(s) : s[i] = <<>>
  BY <1>1, <1>2, <1>3, PlacesEmpty
<1> HIDE DEF s
<1>5. FlattenSeq(s) = <<>>
  BY <1>4, FlattenEmpty DEF Bytes
<1>6. InTransit = <<>>
  BY <1>5 DEF InTransit, s
<1> QED
  BY <1>1, <1>6 DEF Pipe!Init, WriterHolds

\* ImplementsPipe holds: whatever toxics a link has and whatever is added, updated or
\* removed while data flows, its bytes leave in the order in which they were read,
\* each at most once, and the only bytes that disappear are those the code gives up
\* (a failed write, WriteOutput's timeout, reset_peer).
THEOREM LinkIsPipe == Spec => ImplementsPipe
<1>1. Init => IndInv /\ WriterHolds /\ Pipe!Init
  BY InitIndInv, InitPipe
<1>2. IndInv /\ WriterHolds /\ [Next]_vars => IndInv' /\ WriterHolds' /\ PipeStep
  BY StepIndInv, WriterHoldsKept, StepPipe
<1>3. Spec => Pipe!Init /\ [][Pipe!Next]_(Pipe!vars)
  BY <1>1, <1>2, PTL DEF Spec, PipeStep
<1> QED
  BY <1>3 DEF ImplementsPipe, Pipe!Spec

-----------------------------------------------------------------------------
(* The end of the stream *)

\* No reset_peer runs.
Calm == \A k \in Stub : mode[k] # "reset_peer" /\ pc[k] # "sleep"

\* The end of the stream follows the data through the link: a stub closes only once
\* its Input has ended, and all stubs before it have closed.
Drained ==
    /\ Calm
    /\ \A i \in 1..Wired : /\ shut[stubs[i]] => Ends(stubs[i])
                           /\ closed[After(i)] => \A j \in 1..i : shut[stubs[j]]
    /\ writer \in {"removing", "done"} => Ends(0)

\* At the end of the stream the link is empty.
LEMMA DrainedEmpty ==
    ASSUME TypeOK, Sound, Drained, WriterHolds, writer \in {"removing", "done"}
    PROVE  reader = "done" /\ InTransit = <<>>
<1> DEFINE n == Len(stubs)
           s == Places(wbuf, stubs, held, buf)
<1>1. /\ n \in Nat /\ Wired \in 1..n /\ stubs[1] = 1 /\ (op.call # "add" => Wired = n)
      /\ (op.call = "add" => Wired = n - 1) /\ \A i \in 1..n : stubs[i] \in Stub
  BY Fields DEF Sound, Structure, Wired
<1>2. closed[0] /\ buf[0] = <<>> /\ wbuf = <<>>
  BY DEF Drained, Ends, WriterHolds
<1>3. \A j \in 1..Wired : shut[stubs[j]] /\ closed[stubs[j]] /\ buf[stubs[j]] = <<>>
  BY <1>1, <1>2 DEF Drained, After, Ends
<1>4. reader = "done"
  BY <1>1, <1>3 DEF Sound, Wiring
<1>5. ASSUME NEW i \in 1..n
      PROVE  held[stubs[i]] = <<>> /\ buf[stubs[i]] = <<>>
  <2>1. CASE i \in 1..Wired
    <3>1. pc[stubs[i]] \notin Running
      BY <1>1, <1>3, <2>1 DEF Sound, Runs, Live
    <3> QED
      BY <1>1, <1>3, <2>1, <3>1 DEF Sound, Holds, Running, Sending
  <2>2. CASE i \notin 1..Wired
    <3>1. op.call = "add" /\ i = n
      BY <1>1, <2>2
    <3>2. Fresh(stubs[i])
      BY <3>1 DEF Sound, Structure
    <3> QED
      BY <1>1, <3>2 DEF Fresh, Sound, Holds
  <2> QED
    BY <2>1, <2>2
<1>6. wbuf \in Bytes /\ stubs \in Seq(Stub) /\ held \in HeldType /\ buf \in BufType
  BY DEF TypeOK, Bytes, HeldType, BufType
<1>7. s \in Seq(Bytes) /\ \A i \in 1..Len(s) : s[i] = <<>>
  BY <1>2, <1>5, <1>6, PlacesEmpty
<1> HIDE DEF s
<1>8. FlattenSeq(s) = <<>>
  BY <1>7, FlattenEmpty DEF Bytes
<1> QED
  BY <1>4, <1>8 DEF InTransit, s

\* So EndAfterData holds.
LEMMA DrainedEnd == TypeOK /\ Sound /\ Drained /\ WriterHolds => EndAfterData
BY DrainedEmpty DEF EndAfterData

\* After a step too.
LEMMA DrainedEndNext == TypeOK' /\ Sound' /\ Drained' /\ WriterHolds' => EndAfterData'
BY DrainedEnd, PTL

\* A step that closes nothing.
LEMMA DrainedFlow ==
    ASSUME TypeOK, Structure, Drained, \A i \in 1..Wired : stubs'[i] = stubs[i], Wired' = Wired,
           UNCHANGED <<shut, closed>>, Calm',
           \A c \in Chan : closed[c] /\ buf[c] = <<>> => buf'[c] = <<>>,
           writer' \in {"removing", "done"} => writer \in {"removing", "done"} \/ Ends(0)
    PROVE  Drained'
<1>1. \A i \in 1..Wired : After(i)' = After(i) /\ stubs[i] \in Chan
  <2>1. Wired \in Nat /\ Wired \in 1..Len(stubs) /\ Len(stubs) \in Nat
    BY Fields DEF Structure, Wired
  <2>2. Stub \subseteq Chan
    BY BoundsAssumption DEF Stub, Chan
  <2>3. \A i \in 1..Wired : i \in 1..Len(stubs) /\ (i < Wired => i + 1 \in 1..Wired)
    BY <2>1
  <2>4. \A i \in 1..Len(stubs) : stubs[i] \in Stub
    BY Fields
  <2>5. \A i \in 1..Wired : stubs[i] \in Chan
    BY <2>2, <2>3, <2>4
  <2> QED
    BY <2>3, <2>5 DEF After
<1>2. ASSUME NEW i \in 1..Wired
      PROVE  /\ shut'[stubs'[i]] => closed'[stubs'[i]] /\ buf'[stubs'[i]] = <<>>
             /\ closed'[After(i)'] => \A j \in 1..i : shut'[stubs'[j]]
  <2>1. \A j \in 1..i : j \in 1..Wired
    BY Fields DEF Wired
  <2>2. shut[stubs[i]] => closed[stubs[i]] /\ buf'[stubs[i]] = <<>>
    BY <1>1 DEF Drained, Ends
  <2>3. closed[After(i)] => \A j \in 1..i : shut[stubs[j]]
    BY DEF Drained
  <2> QED
    BY <1>1, <2>1, <2>2, <2>3
<1>3. 0 \in Chan
  BY BoundsAssumption DEF Chan
<1>4. writer' \in {"removing", "done"} => Ends(0)'
  BY <1>3 DEF Drained, Ends
<1> QED
  BY <1>2, <1>4 DEF Drained, Calm, Ends

\* A live stub whose Input has ended closes.
LEMMA DrainedClose ==
    ASSUME TypeOK, Structure, Wiring, Drained, NEW k \in Stub, Live(k), Ends(k), Close(k, output[k]),
           Wired' = Wired, UNCHANGED <<stubs, buf, writer>>, Calm'
    PROVE  Drained'
<1>1. /\ Wired \in Nat /\ Wired \in 1..Len(stubs) /\ Len(stubs) \in Nat
      /\ \A i \in 1..Wired : stubs[i] \in Stub /\ stubs[i] # 0 /\ (i < Wired => i + 1 \in 1..Len(stubs))
  BY Fields DEF Structure, Wired
<1>2. PICK i \in 1..Wired : k = stubs[i]
  BY DEF Live
<1>3. output[k] = After(i) /\ output[k] \in Chan /\ ~shut[k]
  BY <1>2 DEF Wiring, Live, TypeOK
<1>4. shut' = [shut EXCEPT ![k] = TRUE] /\ closed' = [closed EXCEPT ![After(i)] = TRUE]
  BY <1>3 DEF Close
<1>5. /\ shut'[k] /\ \A j \in Stub : shut[j] => shut'[j]
      /\ \A j \in Stub : shut'[j] => shut[j] \/ j = k
      /\ \A c \in Chan : (closed[c] => closed'[c]) /\ (closed'[c] => closed[c] \/ c = After(i))
  BY <1>3, <1>4 DEF TypeOK
<1>6. \A j \in 1..Wired : After(j)' = After(j) /\ After(j) \in Chan /\ (After(j) = After(i) => j = i)
  <2>1. Stub \subseteq Chan /\ 0 \in Chan
    BY BoundsAssumption DEF Stub, Chan
  <2>2. \A j \in 1..Wired : j < Wired => stubs[j + 1] \in Stub /\ stubs[j + 1] # 0
    BY <1>1, Fields
  <2> QED
    BY <1>1, <1>2, <2>1, <2>2 DEF After, Structure
<1>7. \A j \in 1..i : shut'[stubs[j]]
  <2>1. CASE i = 1
    BY <1>2, <1>5, <2>1
  <2>2. CASE i # 1
    <3>1. i - 1 \in 1..Wired /\ After(i - 1) = stubs[i]
      BY <1>1, <1>2, <2>2 DEF After
    <3>2. closed[After(i - 1)]
      BY <1>2, <3>1 DEF Ends
    <3>3. \A j \in 1..(i - 1) : shut[stubs[j]]
      BY <3>1, <3>2 DEF Drained
    <3>4. \A j \in 1..i : j \in 1..Wired /\ (j = i \/ j \in 1..(i - 1))
      BY <1>1
    <3>5. \A j \in 1..(i - 1) : stubs[j] \in Stub => shut'[stubs[j]]
      BY <1>5, <3>3
    <3>6. \A j \in 1..i : stubs[j] \in Stub
      BY <1>1, <3>4
    <3>7. shut'[stubs[i]]
      BY <1>2, <1>5
    <3> QED
      BY <3>4, <3>5, <3>6, <3>7
  <2> QED
    BY <2>1, <2>2
<1>8. ASSUME NEW j \in 1..Wired
      PROVE  /\ shut'[stubs[j]] => Ends(stubs[j])'
             /\ closed'[After(j)'] => \A m \in 1..j : shut'[stubs[m]]
  <2>1. stubs[j] \in Chan /\ stubs[j] \in Stub
    BY <1>1, BoundsAssumption DEF Stub, Chan
  <2>2. shut'[stubs[j]] => Ends(stubs[j])'
    BY <1>5, <2>1 DEF Drained, Ends
  <2>3. ASSUME closed'[After(j)'], NEW m \in 1..j
        PROVE  shut'[stubs[m]]
    <3>1. m \in 1..Wired
      BY <1>1
    <3>2. closed[After(j)] \/ j = i
      BY <1>5, <1>6, <2>3
    <3> QED
      BY <1>1, <1>5, <1>7, <3>1, <3>2 DEF Drained
  <2> QED
    BY <2>2, <2>3
<1>9. writer' \in {"removing", "done"} => Ends(0)'
  <2>1. 0 \in Chan
    BY BoundsAssumption DEF Chan
  <2> QED
    BY <1>5, <2>1 DEF Drained, Ends
<1> QED
  BY <1>8, <1>9 DEF Drained, Calm

\* A live stub, or whoever acts for it, receives or sends: nothing is sent on a
\* closed channel.
LEMMA EmptyKept ==
    ASSUME TypeOK, Structure, Wiring, NEW k \in Stub, Live(k),
           \A d \in Chan : d # output[k] /\ d # k => buf'[d] = buf[d],
           buf[k] = <<>> => buf'[k] = <<>>
    PROVE  \A c \in Chan : closed[c] /\ buf[c] = <<>> => buf'[c] = <<>>
BY LiveSends

\* What the stubs do.
LEMMA StubDrains ==
    ASSUME TypeOK, Sound, Cover, Drained, NEW k \in Stub, StubStep(k)
    PROVE  Drained'
<1>1. UNCHANGED <<stubs, op, writer, mode>> /\ Structure /\ Wiring
  BY DEF StubStep, NoopReceive, HoldReceive, SlicerReceive, ResetReceive, ResetFires, InputEnds,
         Timer, SlicerNext, Sent, WriteTimeout, Quiet, Sound
<1>2. Wired' = Wired
  BY <1>1 DEF Wired
<1>3. mode[k] # "reset_peer" /\ pc[k] # "sleep" /\ pc \in [Stub -> Pcs]
  BY DEF Drained, Calm, TypeOK, Pcs
<1>4. ~ResetReceive(k) /\ ~ResetFires(k)
  BY <1>3 DEF ResetReceive, ResetFires
<1>5. pc[k] \in Running
  BY <1>4 DEF StubStep, NoopReceive, HoldReceive, SlicerReceive, InputEnds, Timer, SlicerNext, Sent,
              WriteTimeout, Running, Sending
<1>6. Live(k) /\ k \in Chan /\ output[k] \in Chan /\ output[k] # k
  BY <1>5, RunningStub
<1>7. PICK q \in Pcs : q # "sleep" /\ pc' = [pc EXCEPT ![k] = q]
  <2>1. CASE Sent(k)
    <3>1. pc[k] # "send" => pc' = [pc EXCEPT ![k] = "exited"]
      BY <2>1 DEF Sent
    <3>2. pc[k] = "send" /\ (mode[k] = "slicer" \/ held[k] # <<>>) => pc' = [pc EXCEPT ![k] = "delay"]
      BY <2>1 DEF Sent
    <3>3. pc[k] = "send" /\ ~(mode[k] = "slicer" \/ held[k] # <<>>) => pc' = [pc EXCEPT ![k] = "recv"]
      BY <2>1 DEF Sent
    <3> QED
      BY <3>1, <3>2, <3>3 DEF Pcs
  <2>2. CASE ~Sent(k)
    BY <1>4, <2>2 DEF StubStep, NoopReceive, HoldReceive, SlicerReceive, InputEnds, Timer, SlicerNext,
                      WriteTimeout, Pcs
  <2> QED
    BY <2>1, <2>2
<1>8. Calm'
  BY <1>1, <1>3, <1>7 DEF Drained, Calm
<1>9. CASE InputEnds(k)
  <2>1. Ends(k) /\ Close(k, output[k]) /\ UNCHANGED buf
    BY <1>9 DEF InputEnds
  <2> QED
    BY <1>1, <1>2, <1>6, <1>8, <2>1, DrainedClose
<1>10. CASE ~InputEnds(k)
  <2>1. UNCHANGED <<shut, closed>>
    BY <1>4, <1>10 DEF StubStep, NoopReceive, HoldReceive, SlicerReceive, Timer, SlicerNext, Sent,
                       WriteTimeout
  <2>2. /\ \A d \in Chan : d # output[k] /\ d # k => buf'[d] = buf[d]
        /\ buf[k] = <<>> => buf'[k] = <<>>
    <3>1. buf \in BufType
      BY DEF TypeOK, BufType
    <3>2. CASE NoopReceive(k) \/ SlicerReceive(k)
      BY <1>6, <3>1, <3>2 DEF NoopReceive, SlicerReceive, Move, BufType
    <3>3. CASE HoldReceive(k)
      BY <1>6, <3>1, <3>3 DEF HoldReceive, BufType
    <3>4. CASE Timer(k) \/ WriteTimeout(k)
      BY <1>6, <3>1, <3>4 DEF Timer, Push, WriteTimeout, TakeBack, BufType
    <3>5. CASE SlicerNext(k) \/ Sent(k)
      BY <3>5 DEF SlicerNext, Sent
    <3> QED
      BY <1>4, <1>10, <3>2, <3>3, <3>4, <3>5 DEF StubStep
  <2>3. \A c \in Chan : closed[c] /\ buf[c] = <<>> => buf'[c] = <<>>
    BY <1>1, <1>6, <2>2, EmptyKept
  <2> QED
    BY <1>1, <1>2, <1>8, <2>1, <2>3, DrainedFlow
<1> QED
  BY <1>9, <1>10

\* What the ends of the link do, if no write fails.
LEMMA EndsDrain ==
    ASSUME TypeOK, Sound, Cover, Drained, ~DestFails,
           ReadSource \/ ReaderSent \/ SourceEnds \/ WriterStep \/ WriterFails
    PROVE  Drained'
<1>1. UNCHANGED <<stubs, op, mode, pc, shut>> /\ Structure /\ Wiring
  BY DEF ReadSource, ReaderSent, SourceEnds, WriterStep, WriterReceive, WriterWrites, WriterEnds,
         RemoveLink, WriterFails, stubVars, Sound
<1>2. Wired' = Wired /\ Calm'
  BY <1>1 DEF Wired, Drained, Calm
<1>3. 0 \in Chan /\ 1 \in Chan /\ buf \in BufType
  BY BoundsAssumption DEF Chan, TypeOK, BufType
<1>4. CASE SourceEnds
  <2>1. closed' = [closed EXCEPT ![1] = TRUE] /\ UNCHANGED <<buf, writer>>
    BY <1>4 DEF SourceEnds
  <2>2. \A c \in Chan : (closed[c] => closed'[c]) /\ (c # 1 => closed'[c] = closed[c])
    BY <1>3, <2>1 DEF TypeOK
  <2>3. \A i \in 1..Wired : /\ After(i)' = After(i) /\ After(i) \in Chan /\ After(i) # 1
                            /\ stubs[i] \in Chan
    <3>1. Wired \in Nat /\ Wired \in 1..Len(stubs) /\ Len(stubs) \in Nat /\ Stub \subseteq Chan
      BY Fields, <1>1, BoundsAssumption DEF Structure, Wired, Stub, Chan
    <3>2. \A i \in 1..Len(stubs) : stubs[i] \in Stub /\ (i # 1 => stubs[i] # 1)
      BY <1>1, <3>1, Fields DEF Structure
    <3>3. \A i \in 1..Wired : i < Wired => i + 1 \in 1..Len(stubs) /\ i + 1 # 1
      BY <3>1
    <3> QED
      BY <1>1, <1>2, <1>3, <3>1, <3>2, <3>3 DEF After
  <2> QED
    BY <1>1, <1>2, <1>3, <2>1, <2>2, <2>3 DEF Drained, Calm, Ends
<1>5. CASE ~SourceEnds
  <2>1. UNCHANGED closed
    BY <1>5 DEF ReadSource, ReaderSent, WriterStep, WriterReceive, WriterWrites, WriterEnds,
                RemoveLink, WriterFails, chanVars
  <2>2. \A c \in Chan : closed[c] /\ buf[c] = <<>> => buf'[c] = <<>>
    <3>1. CASE ReadSource
      <4>1. ~closed[1] /\ \A c \in Chan : c # 1 => buf'[c] = buf[c]
        BY <1>1, <1>3, <3>1 DEF ReadSource, Push, Wiring, BufType
      <4> QED
        BY <4>1
    <3>2. CASE WriterReceive
      BY <1>3, <3>2 DEF WriterReceive, BufType
    <3>3. CASE ~ReadSource /\ ~WriterReceive
      BY <1>5, <3>3 DEF ReaderSent, WriterStep, WriterWrites, WriterEnds, RemoveLink, WriterFails, chanVars
    <3> QED
      BY <3>1, <3>2, <3>3
  <2>3. writer' \in {"removing", "done"} => writer \in {"removing", "done"} \/ Ends(0)
    BY <1>5 DEF ReadSource, ReaderSent, WriterStep, WriterReceive, WriterWrites, WriterEnds,
                RemoveLink, WriterFails
  <2> QED
    BY <1>1, <1>2, <2>1, <2>2, <2>3, DrainedFlow
<1> QED
  BY <1>4, <1>5

\* What a call does up to its interrupts, and while it waits for the stubs.
LEMMA CallsDrain ==
    ASSUME TypeOK, Sound, Cover, Drained,
           \/ \E t \in Toxics : AddToxic(t)
           \/ \E i \in 2..Len(chain) : UpdateToxic(i) \/ RemoveToxic(i)
           \/ ClosedAlready \/ RemoveInterrupted \/ StopAnswers \/ StopReceived \/ AwaitStop
    PROVE  Drained'
<1>1. UNCHANGED <<writer, mode, pc, shut, closed, buf>> /\ Structure /\ CallShape
  BY DEF AddToxic, UpdateToxic, RemoveToxic, Begin, ClosedAlready, RemoveInterrupted, StopAnswers,
         StopReceived, AwaitStop, OpQuiet, stubVars, chanVars, endVars, Sound
<1>2. Calm'
  BY <1>1 DEF Drained, Calm
<1>3. op \in OpType /\ Len(stubs) \in Nat /\ stubs \in Seq(Stub) /\ made \in Nat
  BY Fields DEF TypeOK
<1>4. Wired' = Wired /\ \A i \in 1..Wired : stubs'[i] = stubs[i]
  <2>1. CASE \E t \in Toxics : AddToxic(t)
    <3>1. PICK t \in Toxics : AddToxic(t)
      BY <2>1
    <3>2. op.pc = "idle"
      BY <3>1 DEF AddToxic, Begin
    <3>3. op.call = "none" /\ Wired = Len(stubs)
      BY <3>2, NoCall
    <3>4. CASE linked
      <4>1. stubs' = Append(stubs, made + 1) /\ made + 1 \in Stub /\ op'.call = "add"
        <5>1. stubs' = Append(stubs, made + 1) /\ made < MaxStubs
          BY <3>1, <3>4 DEF AddToxic
        <5>2. made + 1 \in Stub
          BY <1>3, <5>1, BoundsAssumption DEF Stub
        <5>3. op'.call = "add"
          BY <3>1, <3>4 DEF AddToxic, Begin, Idle
        <5> QED
          BY <5>1, <5>2, <5>3
      <4>2. Len(stubs') = Len(stubs) + 1 /\ \A i \in 1..Len(stubs) : stubs'[i] = stubs[i]
        BY <1>3, <4>1, AppendProperties
      <4> QED
        BY <1>3, <3>3, <4>1, <4>2 DEF Wired
    <3>5. CASE ~linked
      BY <3>1, <3>3, <3>5 DEF AddToxic, Begin, Idle, Wired
    <3> QED
      BY <3>4, <3>5
  <2>2. CASE \E i \in 2..Len(chain) : UpdateToxic(i) \/ RemoveToxic(i)
    <3>1. PICK i \in 2..Len(chain) : UpdateToxic(i) \/ RemoveToxic(i)
      BY <2>2
    <3>2. op.pc = "idle" /\ UNCHANGED stubs
      BY <3>1 DEF UpdateToxic, RemoveToxic, Begin
    <3>3. op.call = "none"
      BY <3>2, NoCall
    <3>4. op'.call \in {"none", "update", "remove"}
      <4>1. CASE ~linked
        BY <3>1, <4>1 DEF UpdateToxic, RemoveToxic, Begin, Idle
      <4>2. CASE linked /\ UpdateToxic(i)
        BY <4>2 DEF UpdateToxic, Begin, Idle
      <4>3. CASE linked /\ RemoveToxic(i)
        BY <4>3 DEF RemoveToxic, Begin, Idle
      <4> QED
        BY <3>1, <4>1, <4>2, <4>3
    <3> QED
      BY <3>2, <3>3, <3>4 DEF Wired
  <2>3. CASE ClosedAlready \/ RemoveInterrupted \/ StopAnswers \/ StopReceived \/ AwaitStop
    <3>1. UNCHANGED stubs
      BY <2>3 DEF ClosedAlready, RemoveInterrupted, StopAnswers, StopReceived, AwaitStop, stubVars
    <3>2. op.call # "add" /\ op'.call # "add"
      <4>1. CASE ClosedAlready \/ AwaitStop
        <5>1. op' = Idle /\ (op.call \in {"update", "remove"} \/ op.pc = "await")
          BY <4>1 DEF ClosedAlready, AwaitStop
        <5> QED
          BY <1>1, <5>1 DEF CallShape, Idle
      <4>2. CASE RemoveInterrupted \/ StopAnswers \/ StopReceived
        <5>1. op'.call = op.call
          BY <1>3, <4>2 DEF RemoveInterrupted, StopAnswers, StopReceived, OpType
        <5>2. op.call = "remove" \/ op.stop # "none" \/ op.pc = "drain"
          BY <4>2 DEF RemoveInterrupted, Interrupted, StopAnswers, StopReceived
        <5>3. op.call # "add"
          BY <1>1, <5>2 DEF CallShape
        <5> QED
          BY <5>1, <5>3
      <4> QED
        BY <2>3, <4>1, <4>2
    <3> QED
      BY <3>1, <3>2 DEF Wired
  <2> QED
    BY <2>1, <2>2, <2>3
<1> QED
  BY <1>1, <1>2, <1>4, DrainedFlow

\* An interrupt, and what RemoveToxic passes on.
LEMMA PassesDrain ==
    ASSUME TypeOK, Sound, Cover, Drained,
           InterruptToxic \/ StopInterrupts \/ DrainChunk \/ DrainWritten
    PROVE  Drained'
<1>1. UNCHANGED <<stubs, writer, mode, shut, closed>> /\ Structure /\ Wiring /\ CallShape /\ Interruption
  BY DEF InterruptToxic, StopInterrupts, DrainChunk, DrainWritten, OpQuiet, stubVars, Sound
<1>2. op'.call = op.call
  <2>1. op \in OpType
    BY DEF TypeOK
  <2> QED
    BY <2>1 DEF InterruptToxic, StopInterrupts, DrainChunk, DrainWritten, OpType
<1>3. Wired' = Wired
  BY <1>1, <1>2 DEF Wired
<1>4. buf \in BufType /\ pc \in [Stub -> Pcs]
  BY DEF TypeOK, BufType, Pcs
<1>5. PICK k \in Stub : /\ Live(k) /\ Calm'
                        /\ \A d \in Chan : d # output[k] /\ d # k => buf'[d] = buf[d]
                        /\ buf[k] = <<>> => buf'[k] = <<>>
  <2>1. CASE InterruptToxic \/ StopInterrupts
    <3>1. PICK k \in Stub : TakeInterrupt(k)
      BY <2>1, Fields DEF InterruptToxic, StopInterrupts
    <3>2. pc[k] \in Running
      BY <3>1 DEF TakeInterrupt, Interruptible, Running
    <3>3. Live(k) /\ k \in Chan /\ output[k] \in Chan /\ output[k] # k
      BY <3>2, RunningStub
    <3>4. PICK q \in Pcs : q # "sleep" /\ pc' = [pc EXCEPT ![k] = q]
      BY <3>1 DEF TakeInterrupt, Pcs
    <3>5. Calm'
      BY <1>1, <1>4, <3>4 DEF Drained, Calm
    <3>6. \A d \in Chan : d # output[k] => buf'[d] = buf[d]
      BY <1>4, <3>1, <3>3 DEF TakeInterrupt, Push, BufType
    <3> QED
      BY <3>3, <3>5, <3>6
  <2>2. CASE DrainChunk \/ DrainWritten
    <3>1. op.pc \in {"drain", "empty"} /\ UNCHANGED pc
      BY <1>1, <2>2 DEF DrainChunk, DrainWritten, CallShape, stubVars
    <3>2. op.stub \in Stub /\ Live(op.stub)
      BY <1>1, <3>1, InterruptedLive, Fields
    <3>3. op.stub \in Chan /\ output[op.stub] \in Chan /\ output[op.stub] # op.stub
      BY <1>1, <3>2, LiveSends, BoundsAssumption DEF Stub, Chan
    <3>4. Calm'
      BY <1>1, <3>1 DEF Drained, Calm
    <3>5. CASE DrainChunk
      <4>1. buf' = [buf EXCEPT ![op.stub] = Tail(@), ![output[op.stub]] = Append(@, Head(buf[op.stub]))]
        BY <3>5 DEF DrainChunk, Move
      <4>2. buf[op.stub] # <<>>
        <5>1. buf[op.stub] \in Seq(Seq(Byte)) /\ Len(buf[op.stub]) \in Nat /\ cap[op.stub] \in Nat
          BY <3>3 DEF TypeOK
        <5>2. ChanLen(op.stub) > 0 => Len(buf[op.stub]) > 0
          BY <5>1 DEF ChanLen, Blocked
        <5> QED
          BY <3>5, <5>1, <5>2, SeqFacts DEF DrainChunk
      <4> QED
        BY <1>4, <3>2, <3>3, <3>4, <4>1, <4>2 DEF BufType
    <3>6. CASE DrainWritten
      BY <1>4, <3>2, <3>3, <3>4, <3>6 DEF DrainWritten, TakeBack, BufType
    <3> QED
      BY <2>2, <3>5, <3>6
  <2> QED
    BY <2>1, <2>2
<1>6. \A c \in Chan : closed[c] /\ buf[c] = <<>> => buf'[c] = <<>>
  BY <1>1, <1>5, EmptyKept
<1> QED
  BY <1>1, <1>3, <1>5, <1>6, DrainedFlow

\* RemoveToxic finds the end of the removed stub's Input.
LEMMA DrainEndsDrain ==
    ASSUME TypeOK, Sound, Cover, Drained, DrainEnds
    PROVE  Drained'
<1>1. UNCHANGED <<stubs, buf, writer, mode, pc>> /\ Structure /\ Wiring /\ CallShape /\ Interruption
  BY DEF DrainEnds, OpQuiet, Sound
<1>2. op.stub \in Stub /\ Live(op.stub)
  BY <1>1, InterruptedLive, Fields DEF DrainEnds
<1>3. op.call # "add" /\ op'.call # "add"
  <2>1. op \in OpType /\ op.call # "add"
    BY <1>1 DEF TypeOK, DrainEnds, CallShape
  <2> QED
    BY <2>1 DEF DrainEnds, OpType, Idle
<1>4. Wired' = Wired /\ Calm'
  BY <1>1, <1>3 DEF Wired, Drained, Calm
<1> QED
  BY <1>1, <1>2, <1>4, DrainedClose DEF DrainEnds

\* There is no reset_peer.
NoReset == \A t \in Toxics : Kind[t] # "reset_peer"

\* Nothing starts a reset_peer then.
LEMMA CalmModes ==
    ASSUME NoReset, NEW t \in Toxics, NEW m \in Modes(t)
    PROVE  m # "reset_peer"
BY ToxicsAssumption DEF NoReset, Modes, Kinds

\* An updated toxic runs again.
LEMMA UpdateDrains ==
    ASSUME TypeOK, Sound, Drained, NoReset, UpdateResumes
    PROVE  Drained'
<1>1. UNCHANGED <<stubs, writer, shut, closed, buf>> /\ Structure
  BY DEF UpdateResumes, OpQuiet, chanVars, Sound
<1>2. Wired' = Wired
  BY <1>1 DEF UpdateResumes, Interrupted, Idle, Wired
<1>3. Calm'
  <2>1. PICK m \in Modes(op.toxic) : mode' = [mode EXCEPT ![op.stub] = m]
    BY DEF UpdateResumes
  <2>2. m # "reset_peer"
    BY Fields, CalmModes
  <2>3. pc' = [pc EXCEPT ![op.stub] = "recv"] /\ pc \in [Stub -> Pcs] /\ mode \in [Stub -> Kinds]
    BY DEF UpdateResumes, TypeOK, Pcs
  <2> QED
    BY <2>1, <2>2, <2>3 DEF Drained, Calm
<1> QED
  BY <1>1, <1>2, <1>3, DrainedFlow

\* A toxic joins an open link.
LEMMA AddDrains ==
    ASSUME TypeOK, Sound, Cover, Drained, NoReset, AddResumes, op.pos <= Len(chain)
    PROVE  Drained'
<1> DEFINE n == Len(stubs)
<1>1. UNCHANGED <<stubs, writer, shut, closed, buf>> /\ op' = Idle /\ Structure /\ Interruption
  BY DEF AddResumes, OpQuiet, chanVars, Sound
<1>2. op.call = "add" /\ op.pc = "wait"
  BY DEF AddResumes, Interrupted
<1>3. /\ n \in Nat /\ n >= 2 /\ Wired = n - 1 /\ op.stub = stubs[n - 1] /\ op.stub \in Stub
      /\ New \in Stub /\ New # op.stub /\ New = Last(stubs) /\ Fresh(New) /\ op.pos = n - 1
  BY <1>2, Adding
<1>4. Wired' = n /\ ~shut[stubs[n - 1]]
  BY <1>1, <1>2, <1>3, Returned DEF Interruption
<1>5. Calm'
  <2>1. ~(op.pos > Len(chain)) /\ op.pos \in 1..Len(chain)
    BY Fields
  <2>2. PICK m \in Modes(op.toxic), q \in Modes(chain[op.pos]) :
          mode' = [mode EXCEPT ![New] = m, ![op.stub] = q]
    BY <1>3, <2>1 DEF AddResumes
  <2>3. m # "reset_peer" /\ q # "reset_peer"
    BY <2>1, Fields, CalmModes
  <2>4. pc' = [pc EXCEPT ![New] = "recv", ![op.stub] = "recv"]
    BY <1>3, <2>1 DEF AddResumes
  <2>5. pc \in [Stub -> Pcs] /\ mode \in [Stub -> Kinds]
    BY DEF TypeOK, Pcs
  <2> QED
    BY <1>3, <2>2, <2>3, <2>4, <2>5 DEF Drained, Calm
<1>6. ASSUME NEW i \in 1..n
      PROVE  /\ shut[stubs[i]] => Ends(stubs[i])
             /\ closed[After(i)'] => \A j \in 1..i : shut[stubs[j]]
  <2>1. CASE i < n - 1
    <3>1. i \in 1..Wired /\ After(i)' = After(i)
      BY <1>1, <1>3, <1>4, <2>1 DEF After
    <3> QED
      BY <3>1 DEF Drained
  <2>2. CASE i = n - 1
    <3>1. i \in 1..Wired /\ After(i)' = New
      BY <1>1, <1>3, <1>4, <2>2 DEF After, New
    <3> QED
      BY <1>3, <3>1 DEF Drained, Fresh
  <2>3. CASE i = n
    <3>1. n - 1 \in 1..Wired /\ After(i)' = 0 /\ After(n - 1) = 0 /\ n - 1 \in 1..(n - 1)
      BY <1>1, <1>3, <1>4, <2>3 DEF After
    <3>2. ~closed[0]
      BY <1>4, <3>1 DEF Drained
    <3> QED
      BY <1>3, <2>3, <3>1, <3>2 DEF Fresh, New
  <2> QED
    BY <1>3, <2>1, <2>2, <2>3
<1> QED
  BY <1>1, <1>4, <1>5, <1>6 DEF Drained, Ends

\* A toxic is added to a link whose last stub is closed.
LEMMA AddClosedDrains ==
    ASSUME TypeOK, Sound, Cover, Drained, AddToClosed
    PROVE  Drained'
<1> DEFINE n == Len(stubs)
<1>1. UNCHANGED <<stubs, writer, buf, mode, pc>> /\ op' = Idle /\ op.call = "add" /\ shut[op.stub]
  BY DEF AddToClosed, OpQuiet
<1>2. /\ n \in Nat /\ n >= 2 /\ Wired = n - 1 /\ op.stub = stubs[n - 1]
      /\ New \in Stub /\ New \in Chan /\ New = Last(stubs) /\ Fresh(New) /\ New # 0
      /\ \A i \in 1..(n - 1) : stubs[i] # New
  BY <1>1, Adding, BoundsAssumption DEF Stub
<1>3. Wired' = n /\ Calm'
  BY <1>1, Returned DEF Drained, Calm
<1>4. shut' = [shut EXCEPT ![New] = TRUE] /\ closed' = [closed EXCEPT ![New] = TRUE]
  BY <1>2 DEF AddToClosed, Close, Fresh
<1>5. /\ shut'[New] /\ closed'[New]
      /\ \A k \in Stub : k # New => shut'[k] = shut[k]
      /\ \A c \in Chan : c # New => closed'[c] = closed[c]
  BY <1>2, <1>4 DEF TypeOK
<1>6. Stub \subseteq Chan /\ 0 \in Chan /\ \A i \in 1..n : stubs[i] \in Stub
  BY Fields, BoundsAssumption DEF Stub, Chan
<1>7. \A j \in 1..(n - 1) : shut[stubs[j]]
  <2>1. CASE n = 2
    BY <1>1, <1>2, <2>1
  <2>2. CASE n # 2
    <3>1. n - 2 \in 1..Wired /\ n - 1 \in 1..Wired /\ After(n - 2) = stubs[n - 1]
      BY <1>2, <2>2 DEF After
    <3>2. closed[After(n - 2)]
      BY <1>1, <1>2, <3>1 DEF Drained, Ends
    <3>3. \A j \in 1..(n - 2) : shut[stubs[j]]
      BY <3>1, <3>2 DEF Drained
    <3> QED
      BY <1>1, <1>2, <3>3
  <2> QED
    BY <2>1, <2>2
<1>8. \A j \in 1..n : shut'[stubs[j]]
  <2>1. \A j \in 1..n : j \in 1..(n - 1) \/ stubs[j] = New
    BY <1>2 DEF New
  <2> QED
    BY <1>2, <1>5, <1>6, <1>7, <2>1
<1>9. \A i \in 1..n : closed'[stubs[i]] /\ buf[stubs[i]] = <<>>
  <2>1. ASSUME NEW i \in 1..(n - 1)
        PROVE  closed'[stubs[i]] /\ buf[stubs[i]] = <<>>
    <3>1. i \in 1..Wired /\ i \in 1..n
      BY <1>2
    <3>2. Ends(stubs[i])
      BY <1>7, <3>1 DEF Drained
    <3> QED
      BY <1>2, <1>5, <1>6, <3>1, <3>2 DEF Ends
  <2>2. \A j \in 1..n : j \in 1..(n - 1) \/ stubs[j] = New
    BY <1>2 DEF New
  <2> QED
    BY <1>2, <1>5, <2>1, <2>2 DEF Fresh
<1>10. writer' \in {"removing", "done"} => Ends(0)'
  BY <1>1, <1>2, <1>5, <1>6 DEF Drained, Ends
<1> QED
  <2>1. \A i \in 1..n : \A j \in 1..i : j \in 1..n
    BY <1>2
  <2> QED
    BY <1>1, <1>3, <1>8, <1>9, <1>10, <2>1 DEF Drained, Ends

\* A stub leaves the link.
LEMMA RemoveDrains ==
    ASSUME TypeOK, Sound, Cover, Drained, NoReset, RemoveResumes
    PROVE  Drained'
<1> DEFINE n == Len(stubs)
           p == op.pos
<1>1. Structure /\ CallShape /\ Interruption
  BY DEF Sound
<1>2. UNCHANGED <<writer, shut, closed, buf>> /\ op' = Idle /\ op.pc = "empty" /\ stubs' = RemoveAt(stubs, p)
  BY DEF RemoveResumes, OpQuiet, chanVars
<1>3. op.call = "remove" /\ ~shut[op.stub]
  BY <1>1, <1>2, Fields DEF CallShape, Idle, Interruption
<1>4. /\ n \in Nat /\ Wired = n /\ p \in 1..n /\ p - 1 \in 1..n /\ op.stub = stubs[p] /\ op.prev \in Stub
      /\ stubs \in Seq(Stub) /\ p - 1 \in 1..Len(chain)
  <2>1. p \in 2..(Len(chain) + 1) /\ Len(chain) \in Nat
    BY <1>1, <1>3, Fields DEF CallShape
  <2>2. p - 1 \in 1..Len(chain)
    BY <2>1
  <2> QED
    BY <1>1, <1>3, <2>2, CallPos, Fields DEF Wired, TypeOK
<1>5. Len(stubs') = n - 1 /\ \A j \in 1..(n - 1) : stubs'[j] = IF j < p THEN stubs[j] ELSE stubs[j + 1]
  BY <1>2, <1>4, RemoveAtProperties
<1>6. Wired' = n - 1
  BY <1>2, <1>5, Returned
<1>7. Calm'
  <2>1. PICK m \in Modes(chain[p - 1]) : mode' = [mode EXCEPT ![op.prev] = m]
    BY DEF RemoveResumes
  <2>2. m # "reset_peer"
    BY <1>4, Fields, CalmModes
  <2>3. pc' = [pc EXCEPT ![op.prev] = "recv"] /\ pc \in [Stub -> Pcs] /\ mode \in [Stub -> Kinds]
    BY DEF RemoveResumes, TypeOK, Pcs
  <2> QED
    BY <2>1, <2>2, <2>3 DEF Drained, Calm
<1>8. ASSUME NEW i \in 1..(n - 1)
      PROVE  /\ shut[stubs'[i]] => Ends(stubs'[i])
             /\ closed[After(i)'] => \A j \in 1..i : shut[stubs'[j]]
  <2>1. i \in 1..n /\ i + 1 \in 1..n /\ stubs'[i] \in {stubs[i], stubs[i + 1]}
    BY <1>4, <1>5
  <2>2. shut[stubs'[i]] => Ends(stubs'[i])
    BY <1>4, <2>1 DEF Drained
  <2>3. CASE i + 1 < p
    <3>1. After(i)' = After(i) /\ \A j \in 1..i : stubs'[j] = stubs[j]
      <4>1. i + 1 \in 1..(n - 1) /\ i < n - 1 /\ i < n
        BY <1>4, <2>1, <2>3
      <4>2. \A j \in 1..i : j \in 1..(n - 1) /\ j < p
        BY <1>4, <2>1, <2>3
      <4>3. After(i)' = After(i)
        BY <1>4, <1>5, <1>6, <2>3, <4>1 DEF After
      <4> QED
        BY <1>5, <4>2, <4>3
    <3> QED
      BY <1>4, <2>1, <2>2, <3>1 DEF Drained
  <2>4. CASE ~(i + 1 < p)
    <3>1. After(i)' = After(i + 1) /\ p \in 1..(i + 1)
      BY <1>4, <1>5, <1>6, <2>4 DEF After
    <3>2. ~closed[After(i + 1)]
      BY <1>3, <1>4, <2>1, <3>1 DEF Drained
    <3> QED
      BY <2>2, <3>1, <3>2
  <2> QED
    BY <2>3, <2>4
<1> QED
  BY <1>2, <1>6, <1>7, <1>8 DEF Drained, Ends

\* The invariant of the end of the stream.
EndInv == WriterHolds /\ (Alive => Drained) /\ EndAfterData

\* A new link has not ended.
LEMMA InitEndInv ==
    ASSUME NoReset, Init
    PROVE  EndInv
<1>1. IndInv /\ WriterHolds
  BY InitIndInv, InitPipe
<1>2. Structure /\ TypeOK
  BY <1>1 DEF Init, IndInv, Alive, Sound
<1>3. Calm
  <2>1. \A k \in Stub : mode[k] \in Modes(wrapper[k]) /\ wrapper[k] \in Toxics
    BY <1>2 DEF Init, TypeOK
  <2>2. \A k \in Stub : mode[k] # "reset_peer"
    BY <2>1, CalmModes
  <2>3. \A k \in Stub : pc[k] # "sleep"
    BY DEF Init
  <2> QED
    BY <2>2, <2>3 DEF Calm
<1>4. Wired \in 1..Len(stubs) /\ Len(stubs) \in Nat /\ \A i \in 1..Len(stubs) : stubs[i] \in Stub
  BY <1>2, Fields DEF Structure, Wired
<1>5. \A k \in Stub : ~shut[k]
  BY DEF Init
<1>6. \A c \in Chan : ~closed[c]
  BY DEF Init
<1>7. \A i \in 1..Wired : i \in 1..Len(stubs) /\ After(i) \in Chan
  BY <1>4, BoundsAssumption DEF After, Stub, Chan
<1>8. Drained
  BY <1>3, <1>4, <1>5, <1>6, <1>7 DEF Drained, Init
<1> QED
  BY <1>1, <1>8 DEF EndInv, EndAfterData, Init

\* Every step keeps it, if no write fails and there is no reset_peer.
LEMMA StepEndInv ==
    ASSUME NoReset, ~DestFails, IndInv, IndInv', EndInv, [Next]_vars
    PROVE  EndInv'
<1>1. WriterHolds'
  BY WriterHoldsKept DEF EndInv
<1>2. CASE UNCHANGED vars
  <2>1. UNCHANGED <<stubs, mode, pc, held, shut, buf, closed, reader, writer, wbuf, op, panic>>
    BY <1>2 DEF vars
  <2>2. Alive' = Alive /\ Calm' = Calm /\ Wired' = Wired /\ InTransit' = InTransit
    BY <2>1 DEF Alive, Calm, Wired, InTransit
  <2>3. \A i : After(i)' = After(i)
    BY <2>1, <2>2 DEF After
  <2>4. Drained => Drained'
    BY <2>1, <2>2, <2>3 DEF Drained, Ends
  <2> QED
    BY <1>1, <2>1, <2>2, <2>4 DEF EndInv, EndAfterData
<1>3. CASE Next
  <2>1. Alive
    BY <1>3, DeadStops
  <2>2. TypeOK /\ Sound /\ Cover /\ Drained
    BY <2>1 DEF IndInv, EndInv
  <2>3. CASE AddResumes /\ ~(op.pos <= Len(chain))
    <3>1. op.pos > Len(chain)
      BY <2>2, <2>3, Fields
    <3>2. panic' = "index" /\ UNCHANGED <<writer, reader, wbuf, stubs, held, buf>>
      BY <2>3, <3>1 DEF AddResumes, OpQuiet, chanVars
    <3>3. InTransit' = InTransit
      BY <3>2 DEF InTransit
    <3> QED
      BY <1>1, <3>2, <3>3 DEF EndInv, EndAfterData, Alive
  <2>4. CASE ~(AddResumes /\ ~(op.pos <= Len(chain)))
    <3>1. Drained'
      <4>1. CASE \E k \in Stub : StubStep(k)
        BY <2>2, <4>1, StubDrains
      <4>2. CASE ReadSource \/ ReaderSent \/ SourceEnds \/ WriterStep \/ WriterFails
        BY <2>2, <4>2, EndsDrain
      <4>3. CASE \/ OpBegins \/ ClosedAlready \/ RemoveInterrupted \/ StopAnswers \/ StopReceived
                 \/ AwaitStop
        BY <2>2, <4>3, CallsDrain DEF OpBegins
      <4>4. CASE InterruptToxic \/ StopInterrupts \/ DrainChunk \/ DrainWritten
        BY <2>2, <4>4, PassesDrain
      <4>5. CASE DrainEnds
        BY <2>2, <4>5, DrainEndsDrain
      <4>6. CASE UpdateResumes
        BY <2>2, <4>6, UpdateDrains
      <4>7. CASE AddResumes
        BY <2>2, <2>4, <4>7, AddDrains
      <4>8. CASE AddToClosed
        BY <2>2, <4>8, AddClosedDrains
      <4>9. CASE RemoveResumes
        BY <2>2, <4>9, RemoveDrains
      <4> QED
        BY <1>3, <4>1, <4>2, <4>3, <4>4, <4>5, <4>6, <4>7, <4>8, <4>9 DEF Next, OpStep
    <3>2. Alive'
      <4>1. panic' \in {panic, "send", "close"}
        <5>1. CASE ReadSource \/ ReaderSent \/ SourceEnds \/ WriterStep \/ WriterFails
          BY <5>1 DEF ReadSource, Push, ReaderSent, SourceEnds, WriterStep, WriterReceive, WriterWrites,
                      WriterEnds, RemoveLink, WriterFails
        <5>2. CASE \E k \in Stub : StubStep(k)
          BY <5>2 DEF StubStep, NoopReceive, Move, HoldReceive, SlicerReceive, ResetReceive, ResetFires,
                      InputEnds, Close, Timer, Push, SlicerNext, Sent, WriteTimeout
        <5>3. CASE OpBegins
          BY <5>3 DEF OpBegins, AddToxic, UpdateToxic, RemoveToxic, Begin
        <5>4. CASE InterruptToxic \/ StopInterrupts \/ StopAnswers
          BY <5>4 DEF InterruptToxic, StopInterrupts, TakeInterrupt, Push, StopAnswers
        <5>5. CASE AddResumes
          <6>1. ~(op.pos > Len(chain))
            BY <2>2, <2>4, <5>5, Fields
          <6> QED
            BY <5>5, <6>1 DEF AddResumes
        <5>6. CASE OpStep /\ ~AddResumes
          BY <5>6 DEF OpStep, AddToClosed, Close, UpdateResumes, ClosedAlready, RemoveInterrupted,
                      StopReceived, DrainChunk, Move, DrainWritten, DrainEnds, AwaitStop, RemoveResumes
        <5> QED
          BY <1>3, <5>1, <5>2, <5>3, <5>4, <5>5, <5>6 DEF Next, OpStep
      <4> QED
        BY <2>1, <4>1 DEF IndInv, NoChannelPanic, Alive
    <3>3. TypeOK' /\ Sound'
      BY <3>2 DEF IndInv
    <3> QED
      BY <1>1, <3>1, <3>3, DrainedEndNext DEF EndInv
  <2> QED
    BY <2>3, <2>4
<1> QED
  BY <1>2, <1>3

\* If no toxic is a reset_peer and no write fails, the link gives the destination the
\* end of the stream only after the source ended and no byte is left in the link,
\* whatever calls raced with the end (ToxicStub.Close, link.AddToxic, link.RemoveToxic).
THEOREM EndFollowsData ==
    ASSUME \A t \in Toxics : Kind[t] # "reset_peer", ~DestFails
    PROVE  Spec => []EndAfterData
<1>1. NoReset
  BY DEF NoReset
<1>2. Init => IndInv /\ EndInv
  BY <1>1, InitIndInv, InitEndInv
<1>3. IndInv /\ EndInv /\ [Next]_vars => IndInv' /\ EndInv'
  BY <1>1, StepIndInv, StepEndInv
<1>4. EndInv => EndAfterData
  BY DEF EndInv
<1> QED
  BY <1>2, <1>3, <1>4, PTL DEF Spec
=============================================================================
