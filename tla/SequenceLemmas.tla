--------------------------- MODULE SequenceLemmas ---------------------------
(* Facts about the operators of SequencesExt that the models use. *)
EXTENDS Integers, SequencesExt, SequenceTheorems, WellFoundedInduction, TLAPS

\* RemoveAt keeps the elements before the gap and shifts those after it.
LEMMA RemoveAtProperties ==
    ASSUME NEW S, NEW s \in Seq(S), NEW i \in 1..Len(s)
    PROVE  /\ RemoveAt(s, i) \in Seq(S)
           /\ Len(RemoveAt(s, i)) = Len(s) - 1
           /\ \A j \in 1..(Len(s) - 1) :
                RemoveAt(s, i)[j] = IF j < i THEN s[j] ELSE s[j + 1]
<1> DEFINE a == SubSeq(s, 1, i - 1)
           b == SubSeq(s, i + 1, Len(s))
<1>1. a \in Seq(S) /\ Len(a) = i - 1 /\ \A j \in 1..(i - 1) : a[j] = s[j]
  BY SubSeqProperties
<1>2. b \in Seq(S) /\ Len(b) = Len(s) - i /\ \A j \in 1..(Len(s) - i) : b[j] = s[i + j]
  BY SubSeqProperties
<1>3. RemoveAt(s, i) = a \o b
  BY DEF RemoveAt
<1> HIDE DEF a, b
<1>4. /\ a \o b \in Seq(S)
      /\ Len(a \o b) = Len(a) + Len(b)
      /\ \A j \in 1..Len(a) + Len(b) : (a \o b)[j] = IF j <= Len(a) THEN a[j] ELSE b[j - Len(a)]
  BY <1>1, <1>2, ConcatProperties
<1>5. ASSUME NEW j \in 1..(Len(s) - 1)
      PROVE  (a \o b)[j] = IF j < i THEN s[j] ELSE s[j + 1]
  BY <1>1, <1>2, <1>4, <1>5
<1> QED
  BY <1>1, <1>2, <1>3, <1>4, <1>5
-----------------------------------------------------------------------------
(* Induction over data.  The induction theorems of the library have an operator *)
(* as a parameter, which no installed prover instantiates; a set does as well.   *)

\* A set that has 0 and with every number the next has all natural numbers.
LEMMA NatSetInduction ==
    ASSUME NEW S, 0 \in S, \A n \in Nat : n \in S => n + 1 \in S
    PROVE  Nat \subseteq S
<1> DEFINE T == Nat \ S
           R == OpToRel(<, Nat)
<1> SUFFICES ASSUME T # {}
             PROVE  FALSE
  OBVIOUS
<1>1. IsWellFoundedOn(R, Nat)
  BY NatLessThanWellFounded
<1>2. T \subseteq Nat
  OBVIOUS
<1>3. \E m \in T : \A n \in T : <<n, m>> \notin R
  <2> HIDE DEF T, R
  <2> QED
    BY <1>1, <1>2, WFMin
<1>4. PICK m \in T : \A n \in T : <<n, m>> \notin R
  BY <1>3
<1>5. \A n \in T : ~(n < m)
  BY <1>4 DEF OpToRel
<1>6. m \in Nat /\ m - 1 \in Nat
  OBVIOUS
<1>7. m - 1 \in S
  BY <1>5, <1>6
<1> QED
  BY <1>6, <1>7

\* A set that has <<>> and with every sequence the longer ones has all sequences.
LEMMA SeqSetInduction ==
    ASSUME NEW S, NEW T, <<>> \in T,
           \A s \in Seq(S), e \in S : s \in T => Append(s, e) \in T
    PROVE  Seq(S) \subseteq T
<1> DEFINE N == {n \in Nat : \A s \in Seq(S) : Len(s) = n => s \in T}
<1>1. 0 \in N
  BY EmptySeq
<1>2. ASSUME NEW n \in Nat, n \in N
      PROVE  n + 1 \in N
  <2> SUFFICES ASSUME NEW s \in Seq(S), Len(s) = n + 1
               PROVE  s \in T
    OBVIOUS
  <2>1. s # <<>>
    BY EmptySeq
  <2>2. PICK r \in Seq(S), e \in S : s = Append(r, e)
    BY <2>1, SequenceEmptyOrAppend
  <2>3. Len(r) = n
    BY <2>2, AppendProperties, LenProperties
  <2> QED
    BY <1>2, <2>2, <2>3
<1>3. Nat \subseteq N
  <2> HIDE DEF N
  <2> QED
    BY <1>1, <1>2, NatSetInduction
<1> QED
  BY <1>3, LenProperties

-----------------------------------------------------------------------------
(* FlattenSeq *)

\* The equation that defines FlattenSeq, for the first n elements of s.
Flattens(s, n, f) == f = [i \in 1..n |-> IF i = 1 THEN s[i] ELSE f[i - 1] \o s[i]]

\* The equation has a solution.
LEMMA FlattensExists ==
    ASSUME NEW s, NEW n \in Nat
    PROVE  \E f : Flattens(s, n, f)
<1> DEFINE S == {m \in Nat : \E f : Flattens(s, m, f)}
<1>1. 0 \in S
  <2>1. Flattens(s, 0, [i \in 1..0 |-> 0])
    BY DEF Flattens
  <2> QED
    BY <2>1
<1>2. ASSUME NEW m \in Nat, m \in S
      PROVE  m + 1 \in S
  <2>1. PICK f : Flattens(s, m, f)
    BY <1>2
  <2> DEFINE g == [i \in 1..(m + 1) |-> IF i <= m THEN f[i]
                                        ELSE IF i = 1 THEN s[i] ELSE f[i - 1] \o s[i]]
  <2>2. \A i \in 1..m : f[i] = IF i = 1 THEN s[i] ELSE f[i - 1] \o s[i]
    BY <2>1 DEF Flattens
  <2>3. ASSUME NEW i \in 1..(m + 1)
        PROVE  g[i] = IF i = 1 THEN s[i] ELSE g[i - 1] \o s[i]
    <3>1. i # 1 => i - 1 \in 1..m /\ i - 1 \in 1..(m + 1)
      OBVIOUS
    <3>2. i # 1 => g[i - 1] = f[i - 1]
      BY <3>1
    <3>3. i <= m => i \in 1..m
      OBVIOUS
    <3> QED
      BY <2>2, <3>2, <3>3
  <2>4. Flattens(s, m + 1, g)
    <3>1. g = [i \in 1..(m + 1) |-> g[i]]
      OBVIOUS
    <3> HIDE DEF g
    <3> QED
      BY <2>3, <3>1 DEF Flattens
  <2> HIDE DEF g
  <2> QED
    BY <2>4
<1>3. Nat \subseteq S
  <2> HIDE DEF S
  <2> QED
    BY <1>1, <1>2, NatSetInduction
<1> QED
  BY <1>3

\* FlattenSeq meets its equation, and no function but one does.
LEMMA FlattenSeqDef ==
    ASSUME NEW B, NEW s \in Seq(Seq(B)), NEW f, Flattens(s, Len(s), f), s # <<>>
    PROVE  FlattenSeq(s) = f[Len(s)]
<1> DEFINE n == Len(s)
           g == CHOOSE h : Flattens(s, n, h)
<1>1. n \in Nat \ {0}
  BY EmptySeq
<1>2. FlattenSeq(s) = g[n]
  BY <1>1 DEF FlattenSeq, Flattens
<1>3. Flattens(s, n, g)
  OBVIOUS
<1> DEFINE S == {m \in Nat : m + 1 <= n => f[m + 1] = g[m + 1]}
<1> HIDE DEF g
<1>4. /\ \A i \in 1..n : f[i] = IF i = 1 THEN s[i] ELSE f[i - 1] \o s[i]
      /\ \A i \in 1..n : g[i] = IF i = 1 THEN s[i] ELSE g[i - 1] \o s[i]
  BY <1>3 DEF Flattens
<1>5. 0 \in S
  BY <1>1, <1>4
<1>6. ASSUME NEW m \in Nat, m \in S
      PROVE  m + 1 \in S
  <2> SUFFICES ASSUME m + 2 <= n
               PROVE  f[m + 2] = g[m + 2]
    OBVIOUS
  <2>1. m + 2 \in 1..n /\ m + 2 # 1 /\ m + 2 - 1 = m + 1 /\ f[m + 1] = g[m + 1]
    BY <1>1, <1>6
  <2> QED
    BY <1>4, <2>1
<1>7. Nat \subseteq S
  <2> HIDE DEF S
  <2> QED
    BY <1>5, <1>6, NatSetInduction
<1>8. n - 1 \in Nat /\ n - 1 + 1 = n
  BY <1>1
<1>9. f[n] = g[n]
  <2>1. n - 1 \in S
    <3> HIDE DEF S
    <3> QED
      BY <1>7, <1>8
  <2> QED
    BY <1>1, <1>8, <2>1
<1> QED
  BY <1>2, <1>9

\* FlattenSeq and one more element.
LEMMA FlattenAppend ==
    ASSUME NEW B, NEW s \in Seq(Seq(B)), NEW x \in Seq(B), s # <<>>
    PROVE  FlattenSeq(Append(s, x)) = FlattenSeq(s) \o x
<1> DEFINE n == Len(s)
           t == Append(s, x)
<1>1. n \in Nat \ {0}
  BY EmptySeq
<1>2. /\ t \in Seq(Seq(B)) /\ t # <<>> /\ Len(t) = n + 1 /\ t[n + 1] = x
      /\ \A i \in 1..n : t[i] = s[i]
  BY AppendProperties
<1> HIDE DEF t
<1> HIDE DEF n
<1>3. PICK g : Flattens(t, n + 1, g)
  <2>1. n + 1 \in Nat
    BY <1>1
  <2> QED
    BY <2>1, FlattensExists
<1> DEFINE f == [i \in 1..n |-> g[i]]
<1>4. \A i \in 1..(n + 1) : g[i] = IF i = 1 THEN t[i] ELSE g[i - 1] \o t[i]
  BY <1>3 DEF Flattens
<1>5. Flattens(s, n, f)
  <2>1. ASSUME NEW i \in 1..n
        PROVE  f[i] = IF i = 1 THEN s[i] ELSE f[i - 1] \o s[i]
    <3>1. i \in 1..(n + 1) /\ (i # 1 => i - 1 \in 1..n)
      BY <1>1
    <3> QED
      BY <1>2, <1>4, <3>1
  <2>2. f = [i \in 1..n |-> f[i]]
    OBVIOUS
  <2> HIDE DEF f
  <2> QED
    BY <2>1, <2>2 DEF Flattens
<1>6. f[n] = g[n] /\ g[n + 1] = g[n] \o x
  <2>1. n + 1 \in 1..(n + 1) /\ n + 1 # 1 /\ n + 1 - 1 = n /\ n \in 1..n
    BY <1>1
  <2>2. \A p \in 1..(n + 1) : p # 1 => g[p] = g[p - 1] \o t[p]
    BY <1>4
  <2>3. ASSUME NEW p, p = n + 1
        PROVE  g[p] = g[n] \o t[p]
    <3>1. p \in 1..(n + 1) /\ p # 1 /\ p - 1 = n
      BY <2>1, <2>3
    <3>2. g[p] = g[p - 1] \o t[p]
      BY <2>2, <3>1
    <3> QED
      BY <3>1, <3>2
  <2>4. g[n + 1] = g[n] \o t[n + 1]
    BY <2>3
  <2> QED
    BY <1>2, <2>1, <2>4
<1> HIDE DEF f
<1>7. FlattenSeq(s) = f[n]
  BY <1>5, FlattenSeqDef DEF n
<1>8. FlattenSeq(t) = g[n + 1]
  BY <1>2, <1>3, FlattenSeqDef
<1> QED
  BY <1>6, <1>7, <1>8 DEF t

\* FlattenSeq of no element and of one.
LEMMA FlattenSmall ==
    ASSUME NEW B
    PROVE  FlattenSeq(<<>>) = <<>> /\ \A x \in Seq(B) : FlattenSeq(<<x>>) = x
<1>1. FlattenSeq(<<>>) = <<>>
  BY DEF FlattenSeq
<1>2. ASSUME NEW x \in Seq(B)
      PROVE  FlattenSeq(<<x>>) = x
  <2> DEFINE s == <<x>>
             f == [i \in 1..1 |-> x]
  <2>1. s \in Seq(Seq(B)) /\ Len(s) = 1 /\ s[1] = x /\ s # <<>>
    OBVIOUS
  <2>2. Flattens(s, 1, f)
    <3>1. f = [i \in 1..1 |-> IF i = 1 THEN s[i] ELSE f[i - 1] \o s[i]]
      OBVIOUS
    <3> QED
      BY <3>1 DEF Flattens
  <2>3. f[1] = x
    OBVIOUS
  <2> HIDE DEF s, f
  <2>4. FlattenSeq(s) = f[1]
    BY <2>1, <2>2, FlattenSeqDef
  <2> QED
    BY <2>3, <2>4 DEF s
<1> QED
  BY <1>1, <1>2

\* What FlattenSeq computes, by recursion on the sequence.
LEMMA FlattenRecursion ==
    ASSUME NEW B
    PROVE  /\ FlattenSeq(<<>>) = <<>>
           /\ \A s \in Seq(Seq(B)), x \in Seq(B) :
                FlattenSeq(Append(s, x)) = FlattenSeq(s) \o x
<1>1. FlattenSeq(<<>>) = <<>>
  BY FlattenSmall
<1>2. ASSUME NEW s \in Seq(Seq(B)), NEW x \in Seq(B)
      PROVE  FlattenSeq(Append(s, x)) = FlattenSeq(s) \o x
  <2>1. CASE s # <<>>
    BY <2>1, FlattenAppend
  <2>2. CASE s = <<>>
    <3>1. Append(s, x) = <<x>>
      BY <2>2
    <3> QED
      BY <1>1, <2>2, <3>1, FlattenSmall, ConcatEmptySeq
  <2> QED
    BY <2>1, <2>2
<1> QED
  BY <1>1, <1>2

\* FlattenSeq yields a sequence, and it distributes over concatenation.
LEMMA FlattenConcat ==
    ASSUME NEW B
    PROVE  /\ \A s \in Seq(Seq(B)) : FlattenSeq(s) \in Seq(B)
           /\ \A s, t \in Seq(Seq(B)) : FlattenSeq(s \o t) = FlattenSeq(s) \o FlattenSeq(t)
<1> DEFINE T == {t \in Seq(Seq(B)) : FlattenSeq(t) \in Seq(B)}
<1>1. <<>> \in T
  BY FlattenRecursion, EmptySeq
<1>2. ASSUME NEW t \in Seq(Seq(B)), NEW x \in Seq(B), t \in T
      PROVE  Append(t, x) \in T
  BY <1>2, FlattenRecursion, AppendProperties, ConcatProperties
<1>3. Seq(Seq(B)) \subseteq T
  <2> HIDE DEF T
  <2> QED
    BY <1>1, <1>2, SeqSetInduction
<1>4. ASSUME NEW s \in Seq(Seq(B))
      PROVE  \A t \in Seq(Seq(B)) : FlattenSeq(s \o t) = FlattenSeq(s) \o FlattenSeq(t)
  <2> DEFINE U == {t \in Seq(Seq(B)) : FlattenSeq(s \o t) = FlattenSeq(s) \o FlattenSeq(t)}
  <2>1. <<>> \in U
    BY <1>3, FlattenRecursion, EmptySeq, ConcatEmptySeq
  <2>2. ASSUME NEW t \in Seq(Seq(B)), NEW x \in Seq(B), t \in U
        PROVE  Append(t, x) \in U
    <3>1. s \o Append(t, x) = Append(s \o t, x) /\ s \o t \in Seq(Seq(B))
      <4>1. /\ Append(t, x) = t \o <<x>> /\ <<x>> \in Seq(Seq(B))
            /\ s \o t \in Seq(Seq(B)) /\ Append(s \o t, x) = (s \o t) \o <<x>>
        BY AppendIsConcat, ConcatProperties
      <4> QED
        BY <4>1, ConcatAssociative, SMTT(60)
    <3>2. FlattenSeq(s \o Append(t, x)) = (FlattenSeq(s) \o FlattenSeq(t)) \o x
      BY <2>2, <3>1, FlattenRecursion
    <3>3. FlattenSeq(s \o Append(t, x)) = FlattenSeq(s) \o (FlattenSeq(t) \o x)
      <4>1. FlattenSeq(s) \in Seq(B) /\ FlattenSeq(t) \in Seq(B)
        BY <1>3
      <4> QED
        BY <3>2, <4>1, ConcatAssociative, SMTT(60)
    <3>4. FlattenSeq(Append(t, x)) = FlattenSeq(t) \o x /\ Append(t, x) \in Seq(Seq(B))
      BY FlattenRecursion, AppendProperties
    <3> QED
      BY <3>3, <3>4
  <2>3. Seq(Seq(B)) \subseteq U
    <3> HIDE DEF U
    <3> QED
      BY <2>1, <2>2, SeqSetInduction
  <2> QED
    BY <2>3
<1> QED
  BY <1>3, <1>4

\* Empty sequences add nothing.
LEMMA FlattenEmpty ==
    ASSUME NEW B
    PROVE  \A s \in Seq(Seq(B)) : (\A i \in 1..Len(s) : s[i] = <<>>) => FlattenSeq(s) = <<>>
<1> DEFINE T == {s \in Seq(Seq(B)) : (\A i \in 1..Len(s) : s[i] = <<>>) => FlattenSeq(s) = <<>>}
<1>1. <<>> \in T
  BY FlattenRecursion, EmptySeq
<1>2. ASSUME NEW s \in Seq(Seq(B)), NEW x \in Seq(B), s \in T
      PROVE  Append(s, x) \in T
  <2> DEFINE t == Append(s, x)
  <2>1. /\ t \in Seq(Seq(B)) /\ Len(t) = Len(s) + 1 /\ t[Len(s) + 1] = x
        /\ \A i \in 1..Len(s) : t[i] = s[i]
        /\ FlattenSeq(t) = FlattenSeq(s) \o x /\ Len(s) \in Nat
    BY AppendProperties, FlattenRecursion, LenProperties
  <2> HIDE DEF t
  <2>2. ASSUME \A i \in 1..Len(t) : t[i] = <<>>
        PROVE  FlattenSeq(t) = <<>>
    <3>1. x = <<>>
      BY <2>1, <2>2
    <3>2. FlattenSeq(s) = <<>>
      <4>1. \A i \in 1..Len(s) : i \in 1..Len(t)
        BY <2>1
      <4>2. \A i \in 1..Len(s) : s[i] = <<>>
        BY <2>1, <2>2, <4>1
      <4> QED
        BY <1>2, <4>2
    <3> QED
      BY <2>1, <3>1, <3>2, EmptySeq, ConcatEmptySeq
  <2> QED
    BY <2>1, <2>2 DEF t
<1>3. Seq(Seq(B)) \subseteq T
  <2> HIDE DEF T
  <2> QED
    BY <1>1, <1>2, SeqSetInduction
<1> QED
  BY <1>3

\* The a-th element of s is x, p is what lies before it and q what lies after.
Cuts(s, a, p, x, q) ==
    /\ Len(p) = a - 1 /\ Len(q) = Len(s) - a /\ s[a] = x
    /\ \A i \in 1..(a - 1) : p[i] = s[i]
    /\ \A i \in 1..(Len(s) - a) : q[i] = s[a + i]
    /\ RemoveAt(s, a) = p \o q
    /\ s = p \o (<<x>> \o q)

\* A sequence is cut at one of its elements.
LEMMA CutAt ==
    ASSUME NEW S, NEW s \in Seq(S), NEW a \in 1..Len(s)
    PROVE  \E p, q \in Seq(S), x \in S : Cuts(s, a, p, x, q)
<1> DEFINE n == Len(s)
           p == SubSeq(s, 1, a - 1)
           q == SubSeq(s, a + 1, n)
           x == <<s[a]>>
<1>1. n \in Nat /\ \A i \in 1..n : s[i] \in S
  BY LenProperties, ElementOfSeq
<1>2. p \in Seq(S) /\ Len(p) = a - 1 /\ \A i \in 1..(a - 1) : p[i] = s[i]
  BY <1>1, SubSeqProperties
<1>3. q \in Seq(S) /\ Len(q) = n - a /\ \A i \in 1..(n - a) : q[i] = s[a + i]
  BY <1>1, SubSeqProperties
<1>4. RemoveAt(s, a) = p \o q
  BY DEF RemoveAt
<1>5. x \in Seq(S) /\ Len(x) = 1 /\ x[1] = s[a]
  BY <1>1
<1> HIDE DEF p, q, x, n
<1> DEFINE r == x \o q
<1>6. /\ r \in Seq(S) /\ Len(r) = n - a + 1
      /\ \A i \in 1..(n - a + 1) : r[i] = IF i <= 1 THEN x[i] ELSE q[i - 1]
  <2>1. /\ r \in Seq(S) /\ Len(r) = Len(x) + Len(q)
        /\ \A i \in 1..Len(x) + Len(q) : r[i] = IF i <= Len(x) THEN x[i] ELSE q[i - Len(x)]
    BY <1>3, <1>5, ConcatProperties
  <2> HIDE DEF r
  <2> QED
    BY <1>1, <1>3, <1>5, <2>1 DEF n
<1> HIDE DEF r
<1>7. \A i \in 1..(n - a + 1) : r[i] = s[a + i - 1]
  <2> SUFFICES ASSUME NEW i \in 1..(n - a + 1)
               PROVE  r[i] = s[a + i - 1]
    OBVIOUS
  <2>1. CASE i = 1
    BY <1>1, <1>5, <1>6, <2>1 DEF n
  <2>2. CASE i # 1
    <3>1. i - 1 \in 1..(n - a) /\ a + (i - 1) = a + i - 1
      BY <1>1, <2>2 DEF n
    <3>2. r[i] = q[i - 1]
      BY <1>6, <2>2
    <3>3. q[i - 1] = s[a + (i - 1)]
      BY <1>3, <3>1
    <3> QED
      BY <3>1, <3>2, <3>3
  <2> QED
    BY <2>1, <2>2
<1>8. /\ p \o r \in Seq(S) /\ Len(p \o r) = Len(p) + Len(r)
      /\ \A i \in 1..Len(p) + Len(r) : (p \o r)[i] = IF i <= Len(p) THEN p[i] ELSE r[i - Len(p)]
  BY <1>2, <1>6, ConcatProperties
<1>9. Len(p \o r) = n /\ Len(p) + Len(r) = n
  BY <1>1, <1>2, <1>6, <1>8 DEF n
<1>10. \A i \in 1..n : (p \o r)[i] = s[i]
  <2> SUFFICES ASSUME NEW i \in 1..n
               PROVE  (p \o r)[i] = s[i]
    OBVIOUS
  <2>1. CASE i <= a - 1
    BY <1>1, <1>2, <1>8, <1>9, <2>1 DEF n
  <2>2. CASE ~(i <= a - 1)
    <3>1. i - (a - 1) \in 1..(n - a + 1) /\ a + (i - (a - 1)) - 1 = i
      BY <1>1, <2>2 DEF n
    <3>2. (p \o r)[i] = r[i - (a - 1)]
      BY <1>2, <1>8, <1>9, <2>2
    <3> QED
      BY <1>7, <3>1, <3>2
  <2> QED
    BY <2>1, <2>2
<1>11. s = p \o r
  BY <1>8, <1>9, <1>10, SeqEqual DEF n
<1>12. Cuts(s, a, p, s[a], q)
  BY <1>2, <1>3, <1>4, <1>11 DEF n, r, x, Cuts
<1> QED
  BY <1>1, <1>2, <1>3, <1>12 DEF n

\* The i-th element of s is x.
At(s, i, x) == i \in 1..Len(s) /\ s[i] = x

\* s and t have the same length and the same elements, but for those at a and b.
Alike(s, t, a, b) == Len(t) = Len(s) /\ \A i \in 1..Len(s) : i # a /\ i # b => t[i] = s[i]

\* r consists of p, x and q.
Joins(r, p, x, q) == r = p \o (x \o q)

\* A sequence is cut at its element x.
LEMMA CutElement ==
    ASSUME NEW S, NEW s \in Seq(S), NEW a, NEW x \in S, At(s, a, x)
    PROVE  \E p, q \in Seq(S) : Cuts(s, a, p, x, q)
<1>1. a \in 1..Len(s)
  BY DEF At
<1>2. PICK p, q \in Seq(S), y \in S : Cuts(s, a, p, y, q)
  BY <1>1, CutAt
<1>3. y = x
  BY <1>2 DEF Cuts, At
<1> QED
  BY <1>2, <1>3

\* What two sequences have in common before and after a.
LEMMA CutTwo ==
    ASSUME NEW S, NEW s \in Seq(S), NEW t \in Seq(S), NEW a, NEW b, Alike(s, t, a, b),
           NEW x \in S, At(s, a, x), NEW y \in S, NEW z \in S, At(s, b, z), a <= b,
           NEW p \in Seq(S), NEW q \in Seq(S), Cuts(s, a, p, x, q),
           NEW u \in Seq(S), NEW v \in Seq(S), Cuts(t, a, u, y, v)
    PROVE  u = p /\ Alike(q, v, b - a, b - a)
<1>1. Len(s) \in Nat /\ Len(t) = Len(s) /\ a \in 1..Len(s) /\ b \in 1..Len(s)
  BY LenProperties DEF Alike, At
<1>2. \A i \in 1..Len(s) : i # a /\ i # b => t[i] = s[i]
  BY DEF Alike
<1>3. u = p
  <2>1. Len(u) = a - 1 /\ Len(p) = a - 1
    BY DEF Cuts
  <2>2. \A i \in 1..(a - 1) : u[i] = t[i] /\ p[i] = s[i]
    BY DEF Cuts
  <2>3. \A i \in 1..(a - 1) : i \in 1..Len(s) /\ i # a /\ i # b
    BY <1>1
  <2>4. \A i \in 1..Len(u) : u[i] = p[i]
    BY <1>2, <2>1, <2>2, <2>3
  <2> QED
    BY <2>1, <2>4, SeqEqual
<1>4. Alike(q, v, b - a, b - a)
  <2>1. Len(v) = Len(s) - a /\ Len(q) = Len(s) - a
    BY <1>1 DEF Cuts
  <2>2. \A i \in 1..(Len(s) - a) : v[i] = t[a + i] /\ q[i] = s[a + i]
    BY <1>1 DEF Cuts
  <2>3. \A i \in 1..(Len(s) - a) : a + i \in 1..Len(s) /\ a + i # a /\ (i # b - a => a + i # b)
    BY <1>1
  <2>4. \A i \in 1..(Len(s) - a) : i # b - a => v[i] = q[i]
    BY <1>2, <2>2, <2>3
  <2> QED
    BY <2>1, <2>4 DEF Alike
<1> QED
  BY <1>3, <1>4

\* What two sequences that differ only at a have in common.
LEMMA CutOne ==
    ASSUME NEW S, NEW s \in Seq(S), NEW t \in Seq(S), NEW a, Alike(s, t, a, a),
           NEW x \in S, At(s, a, x), NEW y \in S,
           NEW p \in Seq(S), NEW q \in Seq(S), Cuts(s, a, p, x, q),
           NEW u \in Seq(S), NEW v \in Seq(S), Cuts(t, a, u, y, v)
    PROVE  u = p /\ v = q
<1>1. a \in Nat /\ Len(q) \in Nat
  BY LenProperties DEF At
<1>2. a <= a
  BY <1>1
<1>3. u = p /\ Alike(q, v, a - a, a - a)
  BY <1>2, CutTwo
<1>4. \A i \in 1..Len(q) : i # a - a
  BY <1>1
<1>5. Len(v) = Len(q) /\ \A i \in 1..Len(q) : v[i] = q[i]
  BY <1>3, <1>4 DEF Alike
<1> QED
  BY <1>3, <1>5, SeqEqual

\* FlattenSeq of a sequence that is cut at its element x.
LEMMA FlattenCuts ==
    ASSUME NEW B, NEW s \in Seq(Seq(B)), NEW a, NEW x \in Seq(B),
           NEW p \in Seq(Seq(B)), NEW q \in Seq(Seq(B)), Cuts(s, a, p, x, q)
    PROVE  Joins(FlattenSeq(s), FlattenSeq(p), x, FlattenSeq(q))
<1> DEFINE o == <<x>>
<1>1. o \in Seq(Seq(B)) /\ FlattenSeq(o) = x
  BY FlattenSmall
<1>2. s = p \o (o \o q)
  BY DEF Cuts
<1> HIDE DEF o
<1>3. o \o q \in Seq(Seq(B)) /\ FlattenSeq(o \o q) = x \o FlattenSeq(q)
  BY <1>1, FlattenConcat, ConcatProperties
<1> QED
  BY <1>2, <1>3, FlattenConcat DEF Joins

\* One element of a sequence changes from x to y.
LEMMA FlattenChange ==
    ASSUME NEW B, NEW s \in Seq(Seq(B)), NEW t \in Seq(Seq(B)), NEW a, Alike(s, t, a, a),
           NEW x \in Seq(B), At(s, a, x), NEW y \in Seq(B), At(t, a, y)
    PROVE  \E P, Q \in Seq(B) :
             /\ Joins(FlattenSeq(s), P, x, Q) /\ Joins(FlattenSeq(t), P, y, Q)
             /\ (a = 1 => P = <<>>) /\ (a = Len(s) => Q = <<>>)
<1>1. PICK p, q \in Seq(Seq(B)) : Cuts(s, a, p, x, q)
  BY CutElement
<1>2. PICK u, v \in Seq(Seq(B)) : Cuts(t, a, u, y, v)
  BY CutElement
<1>3. u = p /\ v = q
  BY <1>1, <1>2, CutOne
<1>4. Joins(FlattenSeq(s), FlattenSeq(p), x, FlattenSeq(q))
  BY <1>1, FlattenCuts
<1>5. Joins(FlattenSeq(t), FlattenSeq(p), y, FlattenSeq(q))
  BY <1>2, <1>3, FlattenCuts
<1>6. FlattenSeq(p) \in Seq(B) /\ FlattenSeq(q) \in Seq(B)
  BY FlattenConcat
<1>7. (a = 1 => FlattenSeq(p) = <<>>) /\ (a = Len(s) => FlattenSeq(q) = <<>>)
  <2>1. (a = 1 => Len(p) = 0) /\ (a = Len(s) => Len(q) = 0)
    BY <1>1, LenProperties DEF Cuts
  <2>2. (a = 1 => p = <<>>) /\ (a = Len(s) => q = <<>>)
    BY <2>1, EmptySeq
  <2> QED
    BY <2>2, FlattenRecursion
<1> QED
  BY <1>4, <1>5, <1>6, <1>7, Zenon

\* An empty element may be removed.
LEMMA FlattenRemove ==
    ASSUME NEW B, NEW s \in Seq(Seq(B)), NEW a, At(s, a, <<>>)
    PROVE  FlattenSeq(RemoveAt(s, a)) = FlattenSeq(s)
<1> DEFINE e == <<>>
<1>1. e \in Seq(B) /\ At(s, a, e) /\ \A r \in Seq(B) : e \o r = r
  BY EmptySeq, ConcatEmptySeq
<1> HIDE DEF e
<1>2. PICK p, q \in Seq(Seq(B)) : Cuts(s, a, p, e, q)
  BY <1>1, CutElement
<1>3. Joins(FlattenSeq(s), FlattenSeq(p), e, FlattenSeq(q))
  BY <1>1, <1>2, FlattenCuts
<1>4. FlattenSeq(q) \in Seq(B) /\ FlattenSeq(p \o q) = FlattenSeq(p) \o FlattenSeq(q)
  BY FlattenConcat
<1>5. RemoveAt(s, a) = p \o q
  BY <1>2 DEF Cuts
<1> QED
  BY <1>1, <1>3, <1>4, <1>5, Zenon DEF Joins

\* r consists of p, x, y and q.
JoinsTwo(r, p, x, y, q) == r = p \o (x \o (y \o q))

\* x and y are u and v in another cut.
Recuts(x, y, u, v) == u \o v = x \o y

\* Two parts with nothing in between.
LEMMA JoinsNext ==
    ASSUME NEW B, NEW x \in Seq(B), NEW q \in Seq(B),
           NEW r, NEW p, NEW w, NEW f, Joins(f, p, w, r), Joins(r, <<>>, x, q)
    PROVE  JoinsTwo(f, p, w, x, q)
<1>1. x \o q \in Seq(B)
  BY ConcatProperties
<1>2. r = x \o q
  BY <1>1, ConcatEmptySeq DEF Joins
<1> QED
  BY <1>2, Zenon DEF Joins, JoinsTwo

\* Two parts are cut anew.
LEMMA JoinsRecut ==
    ASSUME NEW B, NEW p, NEW q \in Seq(B), NEW x \in Seq(B), NEW y \in Seq(B),
           NEW u \in Seq(B), NEW v \in Seq(B), Recuts(x, y, u, v),
           NEW f, JoinsTwo(f, p, x, y, q), NEW g, JoinsTwo(g, p, u, v, q)
    PROVE  g = f
<1>1. x \o (y \o q) = (x \o y) \o q
  BY ConcatAssociative, SMTT(60)
<1>2. u \o (v \o q) = (u \o v) \o q
  BY ConcatAssociative, SMTT(60)
<1> QED
  BY <1>1, <1>2, Zenon DEF JoinsTwo, Recuts

\* Bytes move from one element to an earlier one, with nothing in between.
LEMMA FlattenShift ==
    ASSUME NEW B, NEW s \in Seq(Seq(B)), NEW t \in Seq(Seq(B)), NEW a, NEW b, a < b,
           Alike(s, t, a, b), \A i \in (a + 1)..(b - 1) : At(s, i, <<>>),
           NEW x \in Seq(B), NEW y \in Seq(B), At(s, a, x), At(s, b, y),
           NEW u \in Seq(B), NEW v \in Seq(B), At(t, a, u), At(t, b, v), Recuts(x, y, u, v)
    PROVE  FlattenSeq(t) = FlattenSeq(s)
<1> DEFINE c == b - a
<1>1. /\ a \in Nat /\ b \in Nat /\ c \in Nat \ {0} /\ a + c = b /\ a <= b
      /\ Len(s) \in Nat /\ b <= Len(s) /\ Len(t) = Len(s)
  <2>1. Len(s) \in Nat /\ Len(t) = Len(s) /\ a \in 1..Len(s) /\ b \in 1..Len(s)
    BY LenProperties DEF At, Alike
  <2> QED
    BY <2>1
<1>2. PICK p, w \in Seq(Seq(B)) : Cuts(s, a, p, x, w)
  BY CutElement
<1>3. PICK o, z \in Seq(Seq(B)) : Cuts(t, a, o, u, z)
  BY CutElement
<1>4. o = p /\ Alike(w, z, c, c)
  BY <1>1, <1>2, <1>3, CutTwo
<1> HIDE DEF c
<1>5. At(w, c, y) /\ At(z, c, v) /\ \A i \in 1..(c - 1) : w[i] = <<>>
  <2>1. Len(w) = Len(s) - a /\ Len(z) = Len(s) - a
    BY <1>1, <1>2, <1>3 DEF Cuts
  <2>2. \A i \in 1..(Len(s) - a) : w[i] = s[a + i] /\ z[i] = t[a + i]
    BY <1>1, <1>2, <1>3 DEF Cuts
  <2>3. c \in 1..(Len(s) - a)
    BY <1>1
  <2>4. w[c] = s[b] /\ z[c] = t[b]
    BY <1>1, <2>2, <2>3
  <2>5. \A i \in 1..(c - 1) : i \in 1..(Len(s) - a) /\ a + i \in (a + 1)..(b - 1)
    BY <1>1
  <2>6. \A i \in 1..(c - 1) : w[i] = <<>>
    BY <2>2, <2>5 DEF At
  <2> QED
    BY <2>1, <2>3, <2>4, <2>6 DEF At
<1>6. PICK m, q \in Seq(Seq(B)) : Cuts(w, c, m, y, q)
  BY <1>5, CutElement
<1>7. PICK k, r \in Seq(Seq(B)) : Cuts(z, c, k, v, r)
  BY <1>5, CutElement
<1>8. k = m /\ r = q
  BY <1>4, <1>5, <1>6, <1>7, CutOne
<1>9. FlattenSeq(m) = <<>>
  <2>1. Len(m) = c - 1 /\ \A i \in 1..(c - 1) : m[i] = w[i]
    BY <1>6 DEF Cuts
  <2>2. \A i \in 1..Len(m) : m[i] = <<>>
    BY <1>5, <2>1
  <2> QED
    BY <2>2, FlattenEmpty
<1>10. Joins(FlattenSeq(s), FlattenSeq(p), x, FlattenSeq(w))
  BY <1>2, FlattenCuts
<1>11. Joins(FlattenSeq(t), FlattenSeq(p), u, FlattenSeq(z))
  BY <1>3, <1>4, FlattenCuts
<1>12. Joins(FlattenSeq(w), <<>>, y, FlattenSeq(q))
  <2>1. Joins(FlattenSeq(w), FlattenSeq(m), y, FlattenSeq(q))
    BY <1>6, FlattenCuts
  <2> QED
    BY <1>9, <2>1
<1>13. Joins(FlattenSeq(z), <<>>, v, FlattenSeq(q))
  <2>1. Joins(FlattenSeq(z), FlattenSeq(m), v, FlattenSeq(q))
    BY <1>7, <1>8, FlattenCuts
  <2> QED
    BY <1>9, <2>1
<1>14. FlattenSeq(p) \in Seq(B) /\ FlattenSeq(q) \in Seq(B)
  BY FlattenConcat
<1>15. JoinsTwo(FlattenSeq(s), FlattenSeq(p), x, y, FlattenSeq(q))
  BY <1>10, <1>12, <1>14, JoinsNext
<1>16. JoinsTwo(FlattenSeq(t), FlattenSeq(p), u, v, FlattenSeq(q))
  BY <1>11, <1>13, <1>14, JoinsNext
<1> QED
  BY <1>14, <1>15, <1>16, JoinsRecut

\* FlattenSeq of a queue, at its two ends.
LEMMA FlattenQueue ==
    ASSUME NEW B, NEW q \in Seq(Seq(B)), q # <<>>
    PROVE  /\ Head(q) \in Seq(B) /\ Tail(q) \in Seq(Seq(B)) /\ FlattenSeq(q) = Head(q) \o FlattenSeq(Tail(q))
           /\ Last(q) \in Seq(B) /\ Front(q) \in Seq(Seq(B)) /\ FlattenSeq(q) = FlattenSeq(Front(q)) \o Last(q)
<1> DEFINE D == Seq(B)
<1>1. Head(q) \in D /\ Tail(q) \in Seq(D)
  BY HeadTailProperties
<1>2. PICK r \in Seq(D), e \in D : q = Append(r, e)
  BY SequenceEmptyOrAppend
<1>3. /\ Len(r) \in Nat /\ Len(q) = Len(r) + 1 /\ q[Len(r) + 1] = e
      /\ \A i \in 1..Len(r) : q[i] = r[i]
  BY <1>2, AppendProperties, LenProperties
<1>4. Last(q) = e
  BY <1>3 DEF Last
<1>5. Front(q) = r
  <2>1. Front(q) = SubSeq(q, 1, Len(r))
    BY <1>3 DEF Front
  <2>2. SubSeq(q, 1, Len(r)) = r
    <3>1. \A i \in 1..Len(r) : q[i] \in D
      BY <1>3, ElementOfSeq
    <3>2. /\ SubSeq(q, 1, Len(r)) \in Seq(D) /\ Len(SubSeq(q, 1, Len(r))) = Len(r)
          /\ \A i \in 1..Len(r) : SubSeq(q, 1, Len(r))[i] = q[i]
      BY <1>3, <3>1, SubSeqProperties
    <3> QED
      BY <1>3, <3>2, SeqEqual
  <2> QED
    BY <2>1, <2>2
<1>6. FlattenSeq(q) = FlattenSeq(r) \o e
  BY <1>2, FlattenRecursion
<1>7. FlattenSeq(q) = Head(q) \o FlattenSeq(Tail(q))
  <2> DEFINE x == Head(q)
             t == Tail(q)
             o == <<x>>
  <2>1. q = o \o t
    BY <1>1
  <2>2. o \in Seq(D) /\ FlattenSeq(o) = x
    BY <1>1, FlattenSmall
  <2>3. t \in Seq(D)
    BY <1>1
  <2> HIDE DEF x, t, o
  <2>4. FlattenSeq(q) = x \o FlattenSeq(t)
    BY <2>1, <2>2, <2>3, FlattenConcat
  <2> QED
    BY <2>4 DEF x, t
<1> QED
  BY <1>1, <1>2, <1>4, <1>5, <1>6, <1>7, Zenon

\* The first part of what lies behind moves to the end of what lies before.
LEMMA RecutsPass ==
    ASSUME NEW B, NEW x \in Seq(B), NEW y \in Seq(B), NEW z \in Seq(B)
    PROVE  Recuts(y, x \o z, y \o x, z)
BY ConcatAssociative, SMTT(60) DEF Recuts

\* Concatenation is associative.
LEMMA JoinsAssociative ==
    ASSUME NEW B, NEW x \in Seq(B), NEW y \in Seq(B), NEW z \in Seq(B)
    PROVE  Joins((x \o y) \o z, x, y, z)
BY ConcatAssociative, SMTT(60) DEF Joins

\* The parts of a sequence, by position.
LEMMA JoinsParts ==
    ASSUME NEW B, NEW p \in Seq(B), NEW x \in Seq(B), NEW q \in Seq(B), NEW r, Joins(r, p, x, q)
    PROVE  /\ r \in Seq(B) /\ Len(r) = Len(p) + Len(x) + Len(q)
           /\ SubSeq(r, 1, Len(p)) = p
           /\ SubSeq(r, Len(p) + 1, Len(p) + Len(x)) = x
           /\ SubSeq(r, Len(p) + Len(x) + 1, Len(r)) = q
           /\ \A i \in 1..Len(x) : r[Len(p) + i] = x[i]
<1> DEFINE y == x \o q
           l == Len(p)
           m == Len(x)
           n == Len(q)
<1>1. l \in Nat /\ m \in Nat /\ n \in Nat
  BY LenProperties
<1>2. y \in Seq(B) /\ Len(y) = m + n /\ \A i \in 1..m + n : y[i] = IF i <= m THEN x[i] ELSE q[i - m]
  BY ConcatProperties
<1>3. r = p \o y
  BY DEF Joins
<1> HIDE DEF y
<1>4. r \in Seq(B) /\ Len(r) = l + Len(y) /\ \A i \in 1..l + Len(y) : r[i] = IF i <= l THEN p[i] ELSE y[i - l]
  <2>1. y \in Seq(B)
    BY <1>2
  <2>2. /\ p \o y \in Seq(B) /\ Len(p \o y) = l + Len(y)
        /\ \A i \in 1..l + Len(y) : (p \o y)[i] = IF i <= l THEN p[i] ELSE y[i - l]
    BY <2>1, ConcatProperties
  <2> QED
    BY <1>3, <2>2, Zenon
<1>5. Len(r) = l + m + n
  BY <1>1, <1>2, <1>4
<1> HIDE DEF l, m, n
<1>6. \A i \in 1..l : r[i] = p[i]
  BY <1>1, <1>2, <1>4
<1>7. \A i \in 1..(m + n) : r[l + i] = y[i]
  <2> SUFFICES ASSUME NEW i \in 1..(m + n)
               PROVE  r[l + i] = y[i]
    OBVIOUS
  <2>1. \A j : j = l + i => j \in 1..(l + Len(y)) /\ ~(j <= l) /\ j - l = i
    BY <1>1, <1>2
  <2>2. \A j : j = l + i => r[j] = y[i]
    BY <1>4, <2>1
  <2> QED
    BY <2>2
<1>8. \A i \in 1..m : r[l + i] = x[i]
  BY <1>1, <1>2, <1>7
<1>9. \A i \in 1..n : r[l + m + i] = q[i]
  <2> SUFFICES ASSUME NEW i \in 1..n
               PROVE  r[l + m + i] = q[i]
    OBVIOUS
  <2>1. \A j : j = m + i => j \in 1..(m + n) /\ ~(j <= m) /\ j - m = i /\ l + j = l + m + i
    BY <1>1
  <2>2. \A j : j = m + i => r[l + j] = y[j] /\ y[j] = q[i]
    BY <1>2, <1>7, <2>1
  <2>3. \A j : j = m + i => r[l + m + i] = q[i]
    BY <2>1, <2>2
  <2> QED
    BY <2>3
<1>10. \A i \in 1..(l + m + n) : r[i] \in B
  BY <1>4, <1>5, ElementOfSeq
<1>11. SubSeq(r, 1, l) = p
  <2> DEFINE z == SubSeq(r, 1, l)
  <2>1. z \in Seq(B) /\ Len(z) = l /\ \A i \in 1..l : z[i] = r[i]
    BY <1>1, <1>10, SubSeqProperties
  <2> HIDE DEF z
  <2>2. z = p
    BY <1>6, <2>1, SeqEqual DEF l
  <2> QED
    BY <2>2 DEF z
<1>12. SubSeq(r, l + 1, l + m) = x
  <2> DEFINE z == SubSeq(r, l + 1, l + m)
  <2>1. z \in Seq(B) /\ Len(z) = m /\ \A i \in 1..m : z[i] = r[l + i]
    BY <1>1, <1>10, SubSeqProperties
  <2> HIDE DEF z
  <2>2. z = x
    BY <1>8, <2>1, SeqEqual DEF m
  <2> QED
    BY <2>2 DEF z
<1>13. SubSeq(r, l + m + 1, l + m + n) = q
  <2> DEFINE z == SubSeq(r, l + m + 1, l + m + n)
  <2>1. z \in Seq(B) /\ Len(z) = n /\ \A i \in 1..n : z[i] = r[l + m + i]
    <3> DEFINE k == l + m
    <3>1. k \in Nat
      BY <1>1
    <3> HIDE DEF k
    <3>2. SubSeq(r, k + 1, k + n) \in Seq(B)
          /\ Len(SubSeq(r, k + 1, k + n)) = n
          /\ \A i \in 1..n : SubSeq(r, k + 1, k + n)[i] = r[k + i]
      <4>1. \A i \in (k + 1)..(k + n) : r[i] \in B
        BY <1>1, <1>10, <3>1 DEF k
      <4> QED
        BY <1>1, <3>1, <4>1, SubSeqProperties
    <3> QED
      BY <3>2 DEF k
  <2> HIDE DEF z
  <2>2. z = q
    BY <1>9, <2>1, SeqEqual DEF n
  <2> QED
    BY <2>2 DEF z
<1> QED
  BY <1>4, <1>5, <1>8, <1>11, <1>12, <1>13 DEF l, m, n

\* A part of a part.
LEMMA JoinsInner ==
    ASSUME NEW B, NEW p \in Seq(B), NEW q \in Seq(B), NEW r, NEW x, Joins(r, p, x, q),
           NEW u \in Seq(B), NEW d \in Seq(B), NEW v \in Seq(B), Joins(x, u, d, v)
    PROVE  Joins(r, p \o u, d, v \o q)
<1> DEFINE w == d \o v
           z == d \o (v \o q)
           y == v \o q
<1>1. w \in Seq(B) /\ y \in Seq(B)
  BY ConcatProperties
<1>2. d \o (v \o q) = (d \o v) \o q
  BY ConcatAssociative, SMTT(60)
<1>3. z \in Seq(B)
  <2> HIDE DEF y
  <2>1. d \o y \in Seq(B)
    BY <1>1, ConcatProperties
  <2> QED
    BY <2>1, Zenon DEF y, z
<1>4. x \o q = u \o (w \o q)
  <2> HIDE DEF w
  <2>1. (u \o w) \o q = u \o (w \o q)
    BY <1>1, ConcatAssociative, SMTT(60)
  <2> QED
    BY <2>1, Zenon DEF Joins, w
<1>5. p \o (u \o z) = (p \o u) \o z
  <2> HIDE DEF z
  <2> QED
    BY <1>3, ConcatAssociative, SMTT(60)
<1>6. r = p \o (u \o z)
  BY <1>2, <1>4, Zenon DEF Joins
<1> QED
  BY <1>5, <1>6, Zenon DEF Joins

\* One element of a sequence loses its part d.
LEMMA FlattenLose ==
    ASSUME NEW B, NEW s \in Seq(Seq(B)), NEW t \in Seq(Seq(B)), NEW a, Alike(s, t, a, a),
           NEW x \in Seq(B), At(s, a, x), NEW y \in Seq(B), At(t, a, y),
           NEW u \in Seq(B), NEW d \in Seq(B), NEW v \in Seq(B),
           Joins(x, u, d, v), Joins(y, u, <<>>, v)
    PROVE  \E P, Q \in Seq(B) : Joins(FlattenSeq(s), P, d, Q) /\ Joins(FlattenSeq(t), P, <<>>, Q)
<1> DEFINE f == FlattenSeq(s)
           g == FlattenSeq(t)
<1>1. PICK P, Q \in Seq(B) : Joins(f, P, x, Q) /\ Joins(g, P, y, Q)
  BY FlattenChange
<1> HIDE DEF f, g
<1>2. <<>> \in Seq(B) /\ P \o u \in Seq(B) /\ v \o Q \in Seq(B)
  BY EmptySeq, ConcatProperties
<1>3. Joins(f, P \o u, d, v \o Q)
  BY <1>1, JoinsInner
<1>4. Joins(g, P \o u, <<>>, v \o Q)
  BY <1>1, <1>2, JoinsInner
<1> QED
  BY <1>2, <1>3, <1>4 DEF f, g

\* The last element grows.
LEMMA FlattenExtend ==
    ASSUME NEW B, NEW s \in Seq(Seq(B)), NEW t \in Seq(Seq(B)), NEW a, a = Len(s), Alike(s, t, a, a),
           NEW x \in Seq(B), At(s, a, x), NEW d \in Seq(B), At(t, a, x \o d)
    PROVE  FlattenSeq(t) = FlattenSeq(s) \o d
<1> DEFINE f == FlattenSeq(s)
           g == FlattenSeq(t)
           y == x \o d
<1>1. y \in Seq(B)
  BY ConcatProperties
<1>2. PICK P, Q \in Seq(B) : Joins(f, P, x, Q) /\ Joins(g, P, y, Q) /\ Q = <<>>
  <2> HIDE DEF y
  <2>1. At(t, a, y)
    BY DEF y
  <2> QED
    BY <1>1, <2>1, FlattenChange
<1> HIDE DEF f, g, y
<1>3. x \o <<>> = x /\ y \o <<>> = y
  BY <1>1, ConcatEmptySeq
<1>4. f = P \o x /\ g = P \o y
  BY <1>2, <1>3, Zenon DEF Joins
<1>5. P \o (x \o d) = (P \o x) \o d
  BY ConcatAssociative, SMTT(60)
<1> QED
  BY <1>4, <1>5, Zenon DEF f, g, y
=============================================================================
