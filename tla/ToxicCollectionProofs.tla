----------------------- MODULE ToxicCollectionProofs -----------------------
(***************************************************************************)
(* The chains, the Index of the toxics and the links stay consistent, for   *)
(* any number of toxics, names and links.  The inductive invariant IndInv    *)
(* needs all three at once: a removal finds its toxic by Index, and a link's *)
(* stub by the same number, so the types already rest on both.               *)
(***************************************************************************)
EXTENDS ToxicCollection, SequenceLemmas

Toxic == Wrappers \cup {Noop}

\* What a link in good order satisfies with respect to its chain.
InStep(ss, ch) == ss \in Seq(Stubs) /\ Covers(ss, ch) /\ Follows(ss, ch)

LinksInStep == ~panic => \A l \in links : InStep(stubs[l], chain[direction[l]])

IndInv ==
    /\ TypeOK
    /\ IndexIsPosition
    /\ LinksInStep
    /\ resetting => ~panic

-----------------------------------------------------------------------------
(* Links *)

LEMMA RunStubType == ASSUME NEW t \in Toxic PROVE RunStub(t) \in Stubs
BY DEF RunStub, Stubs, Toxic

\* AddToxic keeps a link in step with a chain that grows by one toxic.
LEMMA LinkAddInStep ==
    ASSUME NEW ch \in Seq(Toxic), NEW t \in Toxic, NEW ss, InStep(ss, ch),
           Len(ch) >= 1, ~LinkAddPanics(ss, Append(ch, t))
    PROVE  InStep(LinkAdd(ss, Append(ch, t), t), Append(ch, t))
<1> DEFINE cn == Append(ch, t)
<1>1. /\ cn \in Seq(Toxic) /\ Len(cn) = Len(ch) + 1
      /\ cn[Len(ch) + 1] = t /\ \A i \in 1..Len(ch) : cn[i] = ch[i]
  OBVIOUS
<1>2. ss \in Seq(Stubs) /\ Len(ss) >= Len(ch) /\ Len(ss) \in Nat /\ Len(ch) \in Nat
  BY DEF InStep, Covers
<1>3. Last(ss) = ss[Len(ss)]
  BY DEF Last
<1> HIDE DEF cn
<1>4. CASE Last(ss).closed
  <2> DEFINE e == [toxic |-> NoToxic, closed |-> TRUE]
  <2>1. LinkAdd(ss, cn, t) = Append(ss, e)
    BY <1>4 DEF LinkAdd
  <2>2. e \in Stubs /\ e.closed
    BY DEF Stubs
  <2> HIDE DEF e
  <2>3. /\ Append(ss, e) \in Seq(Stubs) /\ Len(Append(ss, e)) = Len(ss) + 1
        /\ Append(ss, e)[Len(ss) + 1] = e
    BY <1>2, <2>2
  <2>4. Covers(Append(ss, e), cn)
    BY <1>1, <1>2, <2>3 DEF Covers
  <2>5. Follows(Append(ss, e), cn)
    BY <1>2, <2>2, <2>3 DEF Follows
  <2> QED
    BY <2>1, <2>3, <2>4, <2>5 DEF InStep, cn
<1>5. CASE ~Last(ss).closed
  <2> DEFINE n == Len(ss)
             se == [ss EXCEPT ![n] = RunStub(cn[n])]
             sn == Append(se, RunStub(t))
  <2>1. LinkAdd(ss, cn, t) = sn
    BY <1>5 DEF LinkAdd
  <2>2. n \in 1..Len(cn)
    BY <1>1, <1>2, <1>5 DEF LinkAddPanics, cn
  <2>3. RunStub(cn[n]) \in Stubs /\ RunStub(t) \in Stubs
    BY <1>1, <2>2, RunStubType
  <2>4. /\ se \in Seq(Stubs) /\ Len(se) = n
        /\ se[n] = RunStub(cn[n])
        /\ \A i \in 1..n : i # n => se[i] = ss[i]
    BY <1>2, <2>2, <2>3
  <2> HIDE DEF se
  <2>5. /\ sn \in Seq(Stubs) /\ Len(sn) = n + 1
        /\ sn[n + 1] = RunStub(t) /\ \A i \in 1..n : sn[i] = se[i]
    BY <2>3, <2>4
  <2> HIDE DEF sn
  <2>6. Covers(sn, cn)
    BY <1>1, <1>2, <2>5 DEF Covers
  <2>7. ASSUME \A i \in 1..Len(sn) : ~sn[i].closed
        PROVE  Len(sn) = Len(cn) /\ \A i \in 1..Len(sn) : sn[i].toxic = cn[i]
    <3>1. \A i \in 1..n : ~ss[i].closed
      BY <1>3, <1>5, <2>4, <2>5, <2>7, <1>2
    <3>2. n = Len(ch) /\ \A i \in 1..n : ss[i].toxic = ch[i]
      BY <3>1 DEF InStep, Follows
    <3>3. sn[n].toxic = cn[n] /\ sn[n + 1].toxic = cn[n + 1]
      BY <1>1, <2>2, <2>4, <2>5, <3>2 DEF RunStub
    <3>4. \A i \in 1..n : i # n => sn[i].toxic = cn[i]
      BY <1>1, <2>4, <2>5, <3>2
    <3> QED
      BY <1>1, <1>2, <2>5, <3>2, <3>3, <3>4
  <2> QED
    BY <2>1, <2>5, <2>6, <2>7 DEF InStep, Follows, cn
<1> QED
  BY <1>4, <1>5

\* UpdateToxic keeps a link in step.
LEMMA LinkUpdateInStep ==
    ASSUME NEW ch \in Seq(Toxic), NEW ss, InStep(ss, ch), NEW i \in 1..Len(ch)
    PROVE  InStep(LinkUpdate(ss, i, ch[i]), ch)
<1>1. ss \in Seq(Stubs) /\ i \in 1..Len(ss) /\ Len(ss) >= Len(ch)
  BY DEF InStep, Covers
<1>2. CASE ss[i].closed
  BY <1>2 DEF LinkUpdate
<1>3. CASE ~ss[i].closed
  <2> DEFINE sn == [ss EXCEPT ![i] = RunStub(ch[i])]
  <2>1. RunStub(ch[i]) \in Stubs
    BY RunStubType
  <2>2. /\ sn \in Seq(Stubs) /\ Len(sn) = Len(ss)
        /\ sn[i] = RunStub(ch[i]) /\ \A j \in 1..Len(ss) : j # i => sn[j] = ss[j]
    BY <1>1, <2>1
  <2>3. LinkUpdate(ss, i, ch[i]) = sn
    BY <1>3 DEF LinkUpdate
  <2> HIDE DEF sn
  <2>4. ASSUME \A j \in 1..Len(sn) : ~sn[j].closed
        PROVE  Len(sn) = Len(ch) /\ \A j \in 1..Len(sn) : sn[j].toxic = ch[j]
    <3>1. \A j \in 1..Len(ss) : ~ss[j].closed
      BY <1>3, <2>2, <2>4
    <3>2. Len(ss) = Len(ch) /\ \A j \in 1..Len(ss) : ss[j].toxic = ch[j]
      BY <3>1 DEF InStep, Follows
    <3>3. sn[i].toxic = ch[i]
      BY <2>2 DEF RunStub
    <3> QED
      BY <2>2, <3>2, <3>3
  <2> QED
    BY <1>1, <2>2, <2>3, <2>4 DEF InStep, Covers, Follows
<1> QED
  BY <1>2, <1>3

\* RemoveToxic keeps a link in step with a chain that loses toxic i.
LEMMA LinkRemoveInStep ==
    ASSUME NEW ch \in Seq(Toxic), NEW ss, InStep(ss, ch), NEW i \in 2..Len(ch)
    PROVE  InStep(LinkRemove(ss, RemoveAt(ch, i), i), RemoveAt(ch, i))
<1> DEFINE cn == RemoveAt(ch, i)
<1>1. ss \in Seq(Stubs) /\ i \in 2..Len(ss) /\ Len(ss) >= Len(ch) /\ Len(ch) \in Nat
  BY DEF InStep, Covers
<1>2. /\ cn \in Seq(Toxic) /\ Len(cn) = Len(ch) - 1
      /\ \A j \in 1..(Len(ch) - 1) : cn[j] = IF j < i THEN ch[j] ELSE ch[j + 1]
  BY RemoveAtProperties
<1> HIDE DEF cn
<1>3. CASE ss[i].closed
  <2>1. Follows(ss, cn) /\ Covers(ss, cn)
    BY <1>1, <1>2, <1>3 DEF Follows, Covers
  <2> QED
    BY <1>1, <1>3, <2>1 DEF LinkRemove, InStep, cn
<1>4. CASE ~ss[i].closed /\ ss[i - 1].closed
  <2> DEFINE sn == [ss EXCEPT ![i].closed = TRUE]
  <2>1. ss[i] \in Stubs
    BY <1>1
  <2>2. [ss[i] EXCEPT !.closed = TRUE] \in Stubs
    BY <2>1 DEF Stubs
  <2>3. sn = [ss EXCEPT ![i] = [ss[i] EXCEPT !.closed = TRUE]]
    BY <1>1
  <2>4. sn \in Seq(Stubs) /\ Len(sn) = Len(ss) /\ sn[i - 1] = ss[i - 1]
    BY <1>1, <2>2, <2>3
  <2>5. LinkRemove(ss, cn, i) = sn
    BY <1>4 DEF LinkRemove
  <2> HIDE DEF sn
  <2>6. Follows(sn, cn) /\ Covers(sn, cn)
    BY <1>1, <1>2, <1>4, <2>4 DEF Follows, Covers
  <2> QED
    BY <2>4, <2>5, <2>6 DEF InStep, cn
<1>5. CASE ~ss[i].closed /\ ~ss[i - 1].closed
  <2> DEFINE se == [ss EXCEPT ![i - 1] = RunStub(cn[i - 1])]
             sn == RemoveAt(se, i)
  <2>1. RunStub(cn[i - 1]) \in Stubs /\ cn[i - 1] = ch[i - 1]
    BY <1>1, <1>2, RunStubType
  <2>2. /\ se \in Seq(Stubs) /\ Len(se) = Len(ss) /\ se[i - 1] = RunStub(cn[i - 1])
        /\ \A j \in 1..Len(ss) : j # i - 1 => se[j] = ss[j]
    BY <1>1, <2>1
  <2>3. LinkRemove(ss, cn, i) = sn
    BY <1>5 DEF LinkRemove
  <2> HIDE DEF se
  <2>4. /\ sn \in Seq(Stubs) /\ Len(sn) = Len(ss) - 1
        /\ \A j \in 1..(Len(ss) - 1) : sn[j] = IF j < i THEN se[j] ELSE se[j + 1]
    <3>1. i \in 1..Len(se)
      BY <1>1, <2>2
    <3> QED
      BY <2>2, <3>1, RemoveAtProperties
  <2> HIDE DEF sn
  <2>5. Covers(sn, cn)
    BY <1>1, <1>2, <2>4 DEF Covers
  <2>6. ASSUME \A j \in 1..Len(sn) : ~sn[j].closed
        PROVE  Len(sn) = Len(cn) /\ \A j \in 1..Len(sn) : sn[j].toxic = cn[j]
    <3>1. ASSUME NEW j \in 1..Len(ss) PROVE ~ss[j].closed
      <4>1. CASE j < i - 1
        <5>1. j \in 1..(Len(ss) - 1) /\ j < i /\ j # i - 1
          BY <1>1, <4>1
        <5>2. sn[j] = ss[j]
          BY <2>2, <2>4, <5>1
        <5> QED
          BY <2>4, <2>6, <5>1, <5>2
      <4>2. CASE j = i - 1 \/ j = i
        BY <1>5, <4>2
      <4>3. CASE j > i
        <5>1. j - 1 \in 1..(Len(ss) - 1) /\ ~((j - 1) < i)
          BY <1>1, <4>3
        <5>2. sn[j - 1] = se[j]
          BY <1>1, <2>4, <5>1
        <5> QED
          BY <1>1, <2>2, <2>4, <2>6, <4>3, <5>1, <5>2
      <4> QED
        BY <1>1, <4>1, <4>2, <4>3
    <3>2. Len(ss) = Len(ch) /\ \A j \in 1..Len(ss) : ss[j].toxic = ch[j]
      BY <3>1 DEF InStep, Follows
    <3>3. ASSUME NEW j \in 1..Len(sn) PROVE sn[j].toxic = cn[j]
      <4>1. CASE j = i - 1
        BY <1>1, <2>1, <2>2, <2>4, <4>1 DEF RunStub
      <4>2. CASE j # i - 1 /\ j < i
        <5>1. j \in 1..(Len(ss) - 1) /\ j \in 1..Len(ss) /\ j < i /\ j # i - 1
          BY <1>1, <2>4, <4>2
        <5>2. sn[j] = ss[j]
          BY <2>2, <2>4, <5>1
        <5>3. cn[j] = ch[j]
          BY <1>2, <3>2, <5>1
        <5> QED
          BY <3>2, <5>1, <5>2, <5>3
      <4>3. CASE j >= i
        <5>1. j \in 1..(Len(ss) - 1) /\ ~(j < i) /\ j + 1 # i - 1 /\ j + 1 \in 1..Len(ss)
          BY <1>1, <2>4, <4>3
        <5>2. sn[j] = ss[j + 1] /\ cn[j] = ch[j + 1]
          BY <1>2, <2>2, <2>4, <3>2, <5>1
        <5> QED
          BY <3>2, <5>1, <5>2
      <4> QED
        BY <1>1, <4>1, <4>2, <4>3
    <3> QED
      BY <1>2, <2>4, <3>2, <3>3
  <2> QED
    BY <2>3, <2>4, <2>5, <2>6 DEF InStep, Follows, cn
<1> QED
  BY <1>3, <1>4, <1>5

\* A stub that closes keeps its link in step with any chain it covers.
LEMMA StubClosesInStep ==
    ASSUME NEW ch, NEW ss, InStep(ss, ch), Len(ch) \in Nat, NEW i \in 1..Len(ss)
    PROVE  InStep([ss EXCEPT ![i].closed = TRUE], ch)
<1> DEFINE sn == [ss EXCEPT ![i].closed = TRUE]
<1>1. ss \in Seq(Stubs) /\ ss[i] \in Stubs /\ Len(ss) >= Len(ch)
  BY DEF InStep, Covers
<1>2. [ss[i] EXCEPT !.closed = TRUE] \in Stubs /\ [ss[i] EXCEPT !.closed = TRUE].closed
  BY <1>1 DEF Stubs
<1>3. sn = [ss EXCEPT ![i] = [ss[i] EXCEPT !.closed = TRUE]]
  BY <1>1
<1>4. sn \in Seq(Stubs) /\ Len(sn) = Len(ss) /\ sn[i].closed
  BY <1>1, <1>2, <1>3
<1> HIDE DEF sn
<1>5. Follows(sn, ch) /\ Covers(sn, ch)
  BY <1>1, <1>4 DEF Follows, Covers
<1> QED
  BY <1>4, <1>5 DEF InStep, sn

\* A new link runs its chain.
LEMMA NewLinkInStep ==
    ASSUME NEW ch \in Seq(Toxic)
    PROVE  InStep([i \in 1..Len(ch) |-> RunStub(ch[i])], ch)
<1> DEFINE ss == [i \in 1..Len(ch) |-> RunStub(ch[i])]
<1>1. \A i \in 1..Len(ch) : RunStub(ch[i]) \in Stubs /\ RunStub(ch[i]).toxic = ch[i]
  BY RunStubType DEF RunStub
<1>2. ss \in Seq(Stubs) /\ Len(ss) = Len(ch)
  BY <1>1
<1> QED
  BY <1>1, <1>2 DEF InStep, Covers, Follows

-----------------------------------------------------------------------------
(* The invariant is inductive *)

LEMMA InitIndInv == Init => IndInv
<1> SUFFICES ASSUME Init PROVE IndInv
  OBVIOUS
<1>1. \E d \in Directions : TRUE
  BY ConstantsAssumption
<1>2. (CHOOSE d \in Directions : TRUE) \in Directions
  BY <1>1
<1>3. Requests # {}
  <2>1. PICK ty \in Types, d \in Directions, a \in Attributes : TRUE
    BY ConstantsAssumption
  <2>2. DefaultName[ty][d] \in Names /\ Full \in Toxicities
    BY <2>1, ConstantsAssumption
  <2>3. [name |-> DefaultName[ty][d], type |-> ty, dir |-> d, toxicity |-> Full, attr |-> a]
          \in Requests
    BY <2>1, <2>2 DEF Requests
  <2> QED
    BY <2>3
<1> DEFINE r == CHOOSE r \in Requests : TRUE
<1>4. r \in Requests
  BY <1>3
<1> HIDE DEF r
<1>5. Wrapped(r, r.name, Full, -1) \in Fields
  BY <1>4, ConstantsAssumption DEF Wrapped, Requests, Fields
<1>6. toxic \in [Wrappers -> Fields]
  BY <1>5 DEF Init, r
<1>7. <<Noop>> \in Seq(Wrappers \cup {Noop}) /\ Len(<<Noop>>) = 1 /\ <<Noop>>[1] = Noop
  OBVIOUS
<1>8. chain \in [Directions -> Seq(Wrappers \cup {Noop})]
  BY <1>7 DEF Init
<1>9. stubs \in [Links -> Seq(Stubs)]
  BY DEF Init
<1>10. direction \in [Links -> Directions]
  BY <1>2, ConstantsAssumption DEF Init
<1>11. TypeOK
  BY <1>6, <1>8, <1>9, <1>10 DEF TypeOK, Init
<1>12. IndexIsPosition
  BY <1>7 DEF IndexIsPosition, Init
<1> QED
  BY <1>11, <1>12 DEF IndInv, LinksInStep, Init

\* A toxic of a chain is where its Direction and Index say.
LEMMA ActiveIsPlaced ==
    ASSUME IndInv, NEW t \in AllActive
    PROVE  /\ t \in Wrappers /\ toxic[t] \in Fields /\ toxic[t].dir \in Directions
           /\ toxic[t].index + 1 \in 2..Len(chain[toxic[t].dir])
           /\ chain[toxic[t].dir][toxic[t].index + 1] = t
           /\ chain[toxic[t].dir] \in Seq(Toxic)
<1>1. PICK d \in Directions : \E i \in 2..Len(chain[d]) : chain[d][i] = t
  BY DEF AllActive, Active
<1>2. PICK i \in 2..Len(chain[d]) : chain[d][i] = t
  BY <1>1
<1>3. t \in Wrappers /\ toxic[t].index = i - 1 /\ toxic[t].dir = d
  BY <1>2 DEF IndInv, IndexIsPosition
<1>4. chain[d] \in Seq(Toxic) /\ toxic[t] \in Fields /\ i \in Int
  BY <1>3 DEF IndInv, TypeOK, Toxic
<1> QED
  BY <1>2, <1>3, <1>4

LEMMA AddToxicIndInv ==
    ASSUME IndInv, NEW w \in Wrappers, NEW r \in Requests, NEW named \in BOOLEAN,
           AddToxic(w, r, named)
    PROVE  IndInv'
<1> DEFINE d  == r.dir
           n  == IF named THEN r.name ELSE DefaultName[r.type][d]
           ch == Append(chain[d], w)
           fw == Wrapped(r, n, Full, Len(chain[d]))
<1>1. /\ d \in Directions /\ n \in Names /\ r.toxicity \in Toxicities
      /\ r.type \in Types /\ r.attr \in Attributes
  BY ConstantsAssumption DEF Requests
<1> HIDE DEF d, n
<1>2. chain[d] \in Seq(Toxic) /\ Len(chain[d]) \in Nat /\ Len(chain[d]) >= 1
  BY <1>1 DEF IndInv, TypeOK, IndexIsPosition, Toxic
<1>3. fw \in Fields /\ fw.index = Len(chain[d]) /\ fw.dir = d
  BY <1>1, <1>2, ConstantsAssumption DEF Wrapped, Fields, d
<1>4. /\ toxic' = [toxic EXCEPT ![w] = fw]
      /\ chain' = [chain EXCEPT ![d] = ch]
      /\ UNCHANGED <<links, direction, resetting>>
      /\ ~panic /\ ~resetting /\ w \notin AllActive
  BY DEF AddToxic, Free, Unused, d, n
<1>5. \/ panic' = TRUE /\ stubs' = stubs
      \/ /\ panic' = FALSE
         /\ \A l \in Following(d) : ~LinkAddPanics(stubs[l], ch)
         /\ stubs' = [l \in Links |-> IF l \in Following(d)
                                       THEN LinkAdd(stubs[l], ch, w) ELSE stubs[l]]
  BY <1>4 DEF AddToxic, IndInv, TypeOK, d
<1>6. /\ ch \in Seq(Toxic) /\ Len(ch) = Len(chain[d]) + 1
      /\ ch[Len(chain[d]) + 1] = w /\ \A i \in 1..Len(chain[d]) : ch[i] = chain[d][i]
  BY <1>2 DEF Toxic
<1> HIDE DEF ch, fw
<1>7. ASSUME NEW l \in links, panic' = FALSE
      PROVE  InStep(stubs'[l], chain'[direction[l]])
  <2>1. l \in Links /\ direction[l] \in Directions /\ InStep(stubs[l], chain[direction[l]])
    BY <1>4 DEF IndInv, TypeOK, LinksInStep
  <2>2. CASE direction[l] = d
    <3>1. l \in Following(d)
      BY <2>2 DEF Following
    <3>2. chain'[direction[l]] = ch
      BY <1>1, <1>4, <2>2 DEF IndInv, TypeOK
    <3>3. stubs'[l] = LinkAdd(stubs[l], ch, w) /\ ~LinkAddPanics(stubs[l], ch)
      BY <1>5, <1>7, <2>1, <3>1
    <3>4. InStep(LinkAdd(stubs[l], ch, w), ch)
      BY <1>2, <2>1, <2>2, <3>3, LinkAddInStep DEF ch, Toxic
    <3> QED
      BY <3>2, <3>3, <3>4
  <2>3. CASE direction[l] # d
    <3>1. l \notin Following(d)
      BY <2>3 DEF Following
    <3>2. chain'[direction[l]] = chain[direction[l]]
      BY <1>4, <2>1, <2>3 DEF IndInv, TypeOK
    <3>3. stubs'[l] = stubs[l]
      BY <1>5, <1>7, <2>1, <3>1
    <3> QED
      BY <2>1, <3>2, <3>3
  <2> QED
    BY <2>2, <2>3
<1>8. LinksInStep'
  BY <1>4, <1>5, <1>7 DEF LinksInStep
<1>9. IndexIsPosition'
  <2> SUFFICES ASSUME NEW e \in Directions
               PROVE  /\ Len(chain'[e]) >= 1
                      /\ chain'[e][1] = Noop
                      /\ \A i \in 2..Len(chain'[e]) :
                           /\ chain'[e][i] \in Wrappers
                           /\ toxic'[chain'[e][i]].index = i - 1
                           /\ toxic'[chain'[e][i]].dir = e
    BY DEF IndexIsPosition
  <2>1. /\ chain[e] \in Seq(Toxic) /\ Len(chain[e]) >= 1 /\ chain[e][1] = Noop
        /\ \A i \in 2..Len(chain[e]) : /\ chain[e][i] \in Wrappers
                                       /\ toxic[chain[e][i]].index = i - 1
                                       /\ toxic[chain[e][i]].dir = e
    BY DEF IndInv, IndexIsPosition, TypeOK, Toxic
  <2>2. \A i \in 2..Len(chain[e]) : chain[e][i] # w
    BY <1>4 DEF AllActive, Active
  <2>3. \A i \in 2..Len(chain[e]) : toxic'[chain[e][i]] = toxic[chain[e][i]]
    BY <1>4, <2>1, <2>2 DEF IndInv, TypeOK
  <2>4. CASE e = d
    <3>1. chain'[e] = ch
      BY <1>4, <2>4 DEF IndInv, TypeOK
    <3>2. toxic'[w] = fw
      BY <1>4 DEF IndInv, TypeOK
    <3>3. ASSUME NEW i \in 2..Len(ch)
          PROVE  /\ ch[i] \in Wrappers /\ toxic'[ch[i]].index = i - 1
                 /\ toxic'[ch[i]].dir = e
      <4>1. CASE i = Len(chain[d]) + 1
        BY <1>2, <1>3, <1>6, <2>4, <3>2, <4>1
      <4>2. CASE i # Len(chain[d]) + 1
        <5>1. i \in 2..Len(chain[e]) /\ ch[i] = chain[e][i]
          BY <1>2, <1>6, <2>4, <4>2
        <5> QED
          BY <2>1, <2>3, <5>1
      <4> QED
        BY <4>1, <4>2
    <3> QED
      BY <1>2, <1>6, <2>1, <2>4, <3>1, <3>3
  <2>5. CASE e # d
    <3>1. chain'[e] = chain[e]
      BY <1>4, <2>5 DEF IndInv, TypeOK
    <3> QED
      BY <2>1, <2>3, <3>1
  <2> QED
    BY <2>4, <2>5
<1>10. stubs' \in [Links -> Seq(Stubs)]
  <2>1. CASE panic' = TRUE /\ stubs' = stubs
    BY <2>1 DEF IndInv, TypeOK
  <2>2. CASE ~(panic' = TRUE /\ stubs' = stubs)
    <3>1. stubs' = [l \in Links |-> IF l \in Following(d)
                                    THEN LinkAdd(stubs[l], ch, w) ELSE stubs[l]]
      BY <1>5, <2>2
    <3>2. \A l \in Links : l \in Following(d) => LinkAdd(stubs[l], ch, w) \in Seq(Stubs)
      <4> TAKE l \in Links
      <4> HAVE l \in Following(d)
      <4>1. l \in links /\ panic' = FALSE
        BY <1>5, <2>2 DEF Following
      <4> QED
        BY <1>7, <3>1, <4>1 DEF InStep
    <3> QED
      BY <3>1, <3>2 DEF IndInv, TypeOK
  <2> QED
    BY <2>1, <2>2
<1>11. toxic' \in [Wrappers -> Fields]
  BY <1>1, <1>3, <1>4 DEF IndInv, TypeOK
<1>12. chain' \in [Directions -> Seq(Wrappers \cup {Noop})]
  BY <1>1, <1>4, <1>6 DEF IndInv, TypeOK, Toxic
<1>13. TypeOK'
  BY <1>4, <1>5, <1>10, <1>11, <1>12 DEF IndInv, TypeOK
<1> QED
  BY <1>4, <1>8, <1>9, <1>13 DEF IndInv

\* UpdateToxicJson leaves the chains as they are and links in step.
LEMMA UpdateToxicIndInv ==
    ASSUME IndInv, NEW t \in AllActive, NEW a \in Attributes, NEW y \in Toxicities,
           UpdateToxic(t, a, y)
    PROVE  IndInv'
<1> DEFINE d == toxic[t].dir
           i == toxic[t].index + 1
<1>1. /\ t \in Wrappers /\ toxic[t] \in Fields /\ d \in Directions
      /\ i \in 2..Len(chain[d]) /\ chain[d][i] = t /\ chain[d] \in Seq(Toxic)
  BY ActiveIsPlaced
<1>2. /\ toxic' = [toxic EXCEPT ![t].attr = a, ![t].toxicity = y]
      /\ chain' = [chain EXCEPT ![d][i] = t]
      /\ stubs' = [l \in Links |-> IF l \in Following(d)
                                   THEN LinkUpdate(stubs[l], i, t) ELSE stubs[l]]
      /\ UNCHANGED <<links, direction, resetting, panic>> /\ ~panic
  BY DEF UpdateToxic, Free
<1> HIDE DEF d, i
<1>3. chain' = chain
  <2>1. [chain[d] EXCEPT ![i] = t] = chain[d]
    BY <1>1
  <2>2. chain' = [chain EXCEPT ![d] = chain[d]]
    BY <1>2, <2>1
  <2> QED
    BY <1>1, <2>2 DEF IndInv, TypeOK
<1>4. /\ toxic' \in [Wrappers -> Fields]
      /\ \A w \in Wrappers : toxic'[w].index = toxic[w].index /\ toxic'[w].dir = toxic[w].dir
  BY <1>1, <1>2 DEF IndInv, TypeOK, Fields
<1>5. IndexIsPosition'
  BY <1>3, <1>4 DEF IndInv, IndexIsPosition
<1>6. ASSUME NEW l \in links
      PROVE  InStep(stubs'[l], chain[direction[l]])
  <2>1. l \in Links /\ InStep(stubs[l], chain[direction[l]])
    BY <1>2 DEF IndInv, TypeOK, LinksInStep
  <2>2. CASE direction[l] = d
    <3>1. stubs'[l] = LinkUpdate(stubs[l], i, chain[d][i])
      BY <1>1, <1>2, <2>1, <2>2 DEF Following
    <3>2. i \in 1..Len(chain[d])
      BY <1>1
    <3>3. InStep(LinkUpdate(stubs[l], i, chain[d][i]), chain[d])
      BY <1>1, <2>1, <2>2, <3>2, LinkUpdateInStep
    <3> QED
      BY <2>2, <3>1, <3>3
  <2>3. CASE direction[l] # d
    BY <1>2, <2>1, <2>3 DEF Following
  <2> QED
    BY <2>2, <2>3
<1>7. LinksInStep'
  BY <1>2, <1>3, <1>6 DEF LinksInStep
<1>8. stubs' \in [Links -> Seq(Stubs)]
  <2>1. \A l \in Links : l \in Following(d) => stubs'[l] \in Seq(Stubs)
    BY <1>6 DEF Following, InStep
  <2> QED
    BY <1>2, <2>1 DEF IndInv, TypeOK
<1>9. TypeOK'
  BY <1>1, <1>2, <1>3, <1>4, <1>8 DEF IndInv, TypeOK
<1> QED
  BY <1>2, <1>5, <1>7, <1>9 DEF IndInv

\* chainRemoveToxic closes the gap: the toxics behind it learn their new
\* Index, and every link of the direction loses or keeps the same stub.
LEMMA ChainRemoveIndInv ==
    ASSUME IndInv, NEW t \in AllActive, ~panic, ChainRemoveToxic(t), UNCHANGED resetting
    PROVE  IndInv'
<1> DEFINE d  == toxic[t].dir
           i  == toxic[t].index + 1
           ch == RemoveAt(chain[d], i)
           re == Reindexed(ch, i)
<1>1. /\ t \in Wrappers /\ toxic[t] \in Fields /\ d \in Directions
      /\ i \in 2..Len(chain[d]) /\ chain[d][i] = t /\ chain[d] \in Seq(Toxic)
  BY ActiveIsPlaced
<1>2. /\ chain' = [chain EXCEPT ![d] = ch]
      /\ toxic' = [re EXCEPT ![t].index = -1]
      /\ stubs' = [l \in Links |-> IF l \in Following(d)
                                   THEN LinkRemove(stubs[l], ch, i) ELSE stubs[l]]
      /\ UNCHANGED <<links, direction, panic, resetting>>
  BY DEF ChainRemoveToxic
<1> HIDE DEF d, i
<1>3. /\ ch \in Seq(Toxic) /\ Len(ch) = Len(chain[d]) - 1
      /\ \A j \in 1..(Len(chain[d]) - 1) :
           ch[j] = IF j < i THEN chain[d][j] ELSE chain[d][j + 1]
  <2>1. i \in 1..Len(chain[d])
    BY <1>1
  <2> QED
    BY <1>1, <2>1, RemoveAtProperties
<1> HIDE DEF ch
<1>4. /\ \A e \in Directions :
           /\ Len(chain[e]) \in Nat /\ Len(chain[e]) >= 1 /\ chain[e][1] = Noop
           /\ \A j \in 2..Len(chain[e]) : /\ chain[e][j] \in Wrappers
                                          /\ toxic[chain[e][j]].index = j - 1
                                          /\ toxic[chain[e][j]].dir = e
      /\ Noop \notin Wrappers
  BY ConstantsAssumption DEF IndInv, IndexIsPosition, TypeOK
\* A wrapper is at one position of ch at most, and never at its head.
<1>5. ASSUME NEW j \in 2..Len(ch)
      PROVE  /\ ch[j] \in Wrappers /\ ch[j] # t /\ toxic[ch[j]].dir = d
             /\ toxic[ch[j]].index = IF j < i THEN j - 1 ELSE j
  <2>1. CASE j < i
    <3>1. ch[j] = chain[d][j] /\ j \in 2..Len(chain[d]) /\ j # i
      BY <1>1, <1>3, <2>1
    <3> QED
      BY <1>1, <1>4, <2>1, <3>1
  <2>2. CASE ~(j < i)
    <3>1. ch[j] = chain[d][j + 1] /\ j + 1 \in 2..Len(chain[d]) /\ j + 1 # i
      BY <1>1, <1>3, <2>2
    <3> QED
      BY <1>1, <1>4, <2>2, <3>1
  <2> QED
    BY <2>1, <2>2
<1>6. ch[1] = Noop /\ Len(ch) \in Nat /\ Len(ch) >= 1
  BY <1>1, <1>3, <1>4
<1>7. ASSUME NEW j \in 2..Len(ch)
      PROVE  PosIn(ch, ch[j]) = j
  <2>1. ASSUME NEW k \in 1..Len(ch), ch[k] = ch[j]
        PROVE  k = j
    <3>1. k # 1
      BY <1>4, <1>5, <1>6, <2>1
    <3>2. k \in 2..Len(ch)
      BY <1>6, <3>1
    <3>3. (IF k < i THEN k - 1 ELSE k) = (IF j < i THEN j - 1 ELSE j)
      BY <1>5, <2>1, <3>2
    <3> QED
      BY <1>1, <1>6, <3>2, <3>3
  <2>2. j \in 1..Len(ch) /\ ch[j] = ch[j]
    BY <1>6
  <2> QED
    BY <2>1, <2>2 DEF PosIn
<1>8. ASSUME NEW w \in Wrappers
      PROVE  re[w] \in Fields /\ re[w].dir = toxic[w].dir
  <2>1. toxic[w] \in Fields
    BY DEF IndInv, TypeOK
  <2>2. CASE \E j \in i..Len(ch) : ch[j] = w
    <3>1. PICK j \in i..Len(ch) : ch[j] = w
      BY <2>2
    <3>2. PosIn(ch, w) = j /\ j \in Int
      BY <1>1, <1>6, <1>7, <3>1
    <3>3. re[w] = [toxic[w] EXCEPT !.index = j - 1]
      BY <2>2, <3>2 DEF Reindexed
    <3> QED
      BY <2>1, <3>2, <3>3 DEF Fields
  <2>3. CASE ~ \E j \in i..Len(ch) : ch[j] = w
    BY <2>1, <2>3 DEF Reindexed
  <2> QED
    BY <2>2, <2>3
<1>9. ASSUME NEW j \in 2..Len(ch)
      PROVE  re[ch[j]].index = j - 1
  <2>1. CASE j < i
    <3>1. ~ \E k \in i..Len(ch) : ch[k] = ch[j]
      <4> SUFFICES ASSUME NEW k \in i..Len(ch), ch[k] = ch[j] PROVE FALSE
        OBVIOUS
      <4>1. k \in 2..Len(ch)
        BY <1>1, <1>6
      <4> QED
        BY <1>1, <1>7, <2>1, <4>1
    <3> QED
      BY <1>5, <2>1, <3>1 DEF Reindexed
  <2>2. CASE ~(j < i)
    <3>1. j \in i..Len(ch)
      BY <1>1, <1>6, <2>2
    <3>2. re[ch[j]] = [toxic[ch[j]] EXCEPT !.index = j - 1]
      BY <1>5, <1>7, <3>1 DEF Reindexed
    <3>3. toxic[ch[j]] \in Fields
      BY <1>5 DEF IndInv, TypeOK
    <3> QED
      BY <3>2, <3>3 DEF Fields
  <2> QED
    BY <2>1, <2>2
<1>10. re \in [Wrappers -> Fields]
  BY <1>8 DEF Reindexed
\* The chains of the other directions share no wrapper with this one.
<1>11. ASSUME NEW e \in Directions, e # d, NEW j \in 2..Len(chain[e])
       PROVE  chain[e][j] # t /\ re[chain[e][j]] = toxic[chain[e][j]]
  <2>1. chain[e][j] \in Wrappers /\ toxic[chain[e][j]].dir = e /\ toxic[t].dir = d
    BY <1>4, <1>11 DEF d
  <2>2. ~ \E k \in i..Len(ch) : ch[k] = chain[e][j]
    <3> SUFFICES ASSUME NEW k \in i..Len(ch), ch[k] = chain[e][j] PROVE FALSE
      OBVIOUS
    <3>1. k \in 2..Len(ch)
      BY <1>1, <1>6
    <3> QED
      BY <1>5, <1>11, <2>1, <3>1
  <2> QED
    BY <1>11, <2>1, <2>2 DEF Reindexed
<1> HIDE DEF re
<1>12. /\ toxic' \in [Wrappers -> Fields]
       /\ \A w \in Wrappers : w # t => toxic'[w] = re[w]
  BY <1>1, <1>2, <1>10 DEF Fields
<1>13. IndexIsPosition'
  <2> SUFFICES ASSUME NEW e \in Directions
               PROVE  /\ Len(chain'[e]) >= 1
                      /\ chain'[e][1] = Noop
                      /\ \A j \in 2..Len(chain'[e]) :
                           /\ chain'[e][j] \in Wrappers
                           /\ toxic'[chain'[e][j]].index = j - 1
                           /\ toxic'[chain'[e][j]].dir = e
    BY DEF IndexIsPosition
  <2>1. CASE e = d
    <3>1. chain'[e] = ch
      BY <1>2, <2>1 DEF IndInv, TypeOK
    <3> QED
      BY <1>5, <1>6, <1>8, <1>9, <1>12, <2>1, <3>1
  <2>2. CASE e # d
    <3>1. chain'[e] = chain[e]
      BY <1>2, <2>2 DEF IndInv, TypeOK
    <3>2. ASSUME NEW j \in 2..Len(chain[e])
          PROVE  toxic'[chain[e][j]] = toxic[chain[e][j]]
      BY <1>4, <1>11, <1>12, <2>2
    <3> QED
      BY <1>4, <3>1, <3>2
  <2> QED
    BY <2>1, <2>2
<1>14. ASSUME NEW l \in links
       PROVE  InStep(stubs'[l], chain'[direction[l]])
  <2>1. l \in Links /\ direction[l] \in Directions /\ InStep(stubs[l], chain[direction[l]])
    BY DEF IndInv, TypeOK, LinksInStep
  <2>2. CASE direction[l] = d
    <3>1. stubs'[l] = LinkRemove(stubs[l], ch, i) /\ chain'[direction[l]] = ch
      BY <1>1, <1>2, <2>1, <2>2 DEF Following, IndInv, TypeOK
    <3>2. InStep(LinkRemove(stubs[l], ch, i), ch)
      BY <1>1, <2>1, <2>2, LinkRemoveInStep DEF ch
    <3> QED
      BY <3>1, <3>2
  <2>3. CASE direction[l] # d
    <3>1. stubs'[l] = stubs[l] /\ chain'[direction[l]] = chain[direction[l]]
      BY <1>2, <2>1, <2>3 DEF Following, IndInv, TypeOK
    <3> QED
      BY <2>1, <3>1
  <2> QED
    BY <2>2, <2>3
<1>15. LinksInStep'
  BY <1>2, <1>14 DEF LinksInStep
<1>16. stubs' \in [Links -> Seq(Stubs)]
  <2>1. \A l \in Links : l \in Following(d) => stubs'[l] \in Seq(Stubs)
    BY <1>14 DEF Following, InStep
  <2> QED
    BY <1>2, <2>1 DEF IndInv, TypeOK
<1>17. chain' \in [Directions -> Seq(Wrappers \cup {Noop})]
  BY <1>1, <1>2, <1>3 DEF IndInv, TypeOK, Toxic
<1>18. TypeOK'
  BY <1>2, <1>12, <1>16, <1>17 DEF IndInv, TypeOK
<1> QED
  BY <1>2, <1>13, <1>15, <1>18 DEF IndInv

LEMMA StartLinkIndInv ==
    ASSUME IndInv, NEW l \in Links, NEW d \in Directions, StartLink(l, d)
    PROVE  IndInv'
<1> DEFINE sn == [i \in 1..Len(chain[d]) |-> RunStub(chain[d][i])]
<1>1. chain[d] \in Seq(Toxic)
  BY DEF IndInv, TypeOK, Toxic
<1>2. InStep(sn, chain[d])
  BY <1>1, NewLinkInStep
<1>3. /\ links' = links \cup {l} /\ direction' = [direction EXCEPT ![l] = d]
      /\ stubs' = [stubs EXCEPT ![l] = sn] /\ l \notin links
      /\ UNCHANGED <<toxic, chain, resetting, panic>> /\ ~panic
  BY DEF StartLink, Free
<1> HIDE DEF sn
<1>4. TypeOK'
  BY <1>2, <1>3 DEF IndInv, TypeOK, InStep
<1>5. IndexIsPosition'
  BY <1>3 DEF IndInv, IndexIsPosition
<1>6. ASSUME NEW m \in links'
      PROVE  InStep(stubs'[m], chain'[direction'[m]])
  <2>1. CASE m = l
    BY <1>2, <1>3, <2>1 DEF IndInv, TypeOK
  <2>2. CASE m # l
    BY <1>3, <2>2 DEF IndInv, TypeOK, LinksInStep
  <2> QED
    BY <2>1, <2>2
<1>7. LinksInStep'
  BY <1>6 DEF LinksInStep
<1> QED
  BY <1>3, <1>4, <1>5, <1>7 DEF IndInv

LEMMA RemoveLinkIndInv ==
    ASSUME IndInv, NEW l \in Links, RemoveLink(l)
    PROVE  IndInv'
<1>1. /\ links' = links \ {l} /\ stubs' = [stubs EXCEPT ![l] = <<>>]
      /\ UNCHANGED <<toxic, chain, direction, resetting, panic>> /\ ~panic
  BY DEF RemoveLink, Free
<1>2. TypeOK'
  BY <1>1 DEF IndInv, TypeOK
<1>3. IndexIsPosition'
  BY <1>1 DEF IndInv, IndexIsPosition
<1>4. \A m \in links' : m \in links /\ stubs'[m] = stubs[m]
  BY <1>1 DEF IndInv, TypeOK
<1>5. LinksInStep'
  BY <1>1, <1>4 DEF IndInv, LinksInStep
<1> QED
  BY <1>1, <1>2, <1>3, <1>5 DEF IndInv

LEMMA StubClosesIndInv ==
    ASSUME IndInv, NEW l \in links, NEW i \in 1..Len(stubs[l]), StubCloses(l, i)
    PROVE  IndInv'
<1> DEFINE sn == [stubs[l] EXCEPT ![i].closed = TRUE]
<1>1. /\ stubs' = [stubs EXCEPT ![l] = sn] /\ ~panic
      /\ UNCHANGED <<toxic, chain, links, direction, resetting, panic>>
  BY DEF StubCloses
<1>2. l \in Links /\ direction[l] \in Directions
  BY DEF IndInv, TypeOK
<1>3. chain[direction[l]] \in Seq(Toxic) /\ InStep(stubs[l], chain[direction[l]])
  BY <1>1, <1>2 DEF IndInv, TypeOK, LinksInStep, Toxic
<1>4. InStep(sn, chain[direction[l]])
  BY <1>3, StubClosesInStep
<1> HIDE DEF sn
<1>5. TypeOK'
  BY <1>1, <1>4 DEF IndInv, TypeOK, InStep
<1>6. IndexIsPosition'
  BY <1>1 DEF IndInv, IndexIsPosition
<1>7. \A m \in links : m # l => stubs'[m] = stubs[m]
  BY <1>1 DEF IndInv, TypeOK
<1>8. stubs'[l] = sn
  BY <1>1, <1>2 DEF IndInv, TypeOK
<1>9. LinksInStep'
  BY <1>1, <1>4, <1>7, <1>8 DEF IndInv, LinksInStep
<1> QED
  BY <1>1, <1>5, <1>6, <1>9 DEF IndInv

LEMMA NextIndInv == IndInv /\ [Next]_vars => IndInv'
<1> SUFFICES ASSUME IndInv, [Next]_vars PROVE IndInv'
  OBVIOUS
<1>1. ASSUME NEW w \in Wrappers, NEW r \in Requests, NEW named \in BOOLEAN,
             AddToxic(w, r, named)
      PROVE  IndInv'
  BY <1>1, AddToxicIndInv
<1>2. ASSUME NEW t \in AllActive, NEW a \in Attributes, NEW y \in Toxicities,
             UpdateToxic(t, a, y)
      PROVE  IndInv'
  BY <1>2, UpdateToxicIndInv
<1>3. ASSUME NEW t \in AllActive, NEW a \in Attributes, UpdateToxicFails(t, a)
      PROVE  IndInv'
  <2>1. /\ toxic' = [toxic EXCEPT ![t].attr = a]
        /\ UNCHANGED <<chain, links, stubs, direction, resetting, panic>>
    BY <1>3 DEF UpdateToxicFails
  <2>2. /\ toxic' \in [Wrappers -> Fields]
        /\ \A w \in Wrappers : toxic'[w].index = toxic[w].index /\ toxic'[w].dir = toxic[w].dir
    BY <2>1 DEF IndInv, TypeOK, Fields
  <2>3. TypeOK'
    BY <2>1, <2>2 DEF IndInv, TypeOK
  <2>4. IndexIsPosition'
    BY <2>1, <2>2 DEF IndInv, IndexIsPosition
  <2>5. LinksInStep'
    BY <2>1 DEF IndInv, LinksInStep
  <2> QED
    BY <2>1, <2>3, <2>4, <2>5 DEF IndInv
<1>4. ASSUME NEW t \in AllActive, RemoveToxic(t)
      PROVE  IndInv'
  BY <1>4, ChainRemoveIndInv DEF RemoveToxic, Free
<1>5. CASE ResetToxics
  BY <1>5 DEF ResetToxics, Free, IndInv, TypeOK, IndexIsPosition, LinksInStep
<1>6. ASSUME NEW d \in Directions, ResetStep(d)
      PROVE  IndInv'
  <2>1. chain[d] \in Seq(Toxic) /\ Len(chain[d]) > 1
    BY <1>6 DEF ResetStep, IndInv, TypeOK, Toxic
  <2>2. 2 \in 2..Len(chain[d])
    BY <2>1
  <2>3. chain[d][2] \in AllActive
    BY <2>2 DEF AllActive, Active
  <2> QED
    BY <1>6, <2>3, ChainRemoveIndInv DEF ResetStep, IndInv
<1>7. CASE ResetDone
  BY <1>7 DEF ResetDone, IndInv, TypeOK, IndexIsPosition, LinksInStep
<1>8. ASSUME NEW l \in Links, NEW d \in Directions, StartLink(l, d)
      PROVE  IndInv'
  BY <1>8, StartLinkIndInv
<1>9. ASSUME NEW l \in Links, RemoveLink(l)
      PROVE  IndInv'
  BY <1>9, RemoveLinkIndInv
<1>10. ASSUME NEW l \in links, NEW i \in 1..Len(stubs[l]), StubCloses(l, i)
       PROVE  IndInv'
  BY <1>10, StubClosesIndInv
<1>11. CASE UNCHANGED vars
  BY <1>11 DEF vars, IndInv, TypeOK, IndexIsPosition, LinksInStep
<1> QED
  BY <1>1, <1>2, <1>3, <1>4, <1>5, <1>6, <1>7, <1>8, <1>9, <1>10, <1>11 DEF Next, Calls

-----------------------------------------------------------------------------
(* Theorems *)

\* IndInv holds in every state of every behaviour.
THEOREM Consistent == Spec => []IndInv
<1>1. Init => IndInv
  BY InitIndInv
<1>2. IndInv /\ [Next]_vars => IndInv'
  BY NextIndInv
<1> QED
  BY <1>1, <1>2, PTL DEF Spec

\* The variables keep their types: no call indexes a chain, or the stubs of a
\* registered link, out of range and leaves something else there.
THEOREM TypeCorrect == Spec => []TypeOK
<1>1. IndInv => TypeOK
  BY DEF IndInv
<1> QED
  BY <1>1, Consistent, PTL

\* chainAddToxic and chainRemoveToxic keep every toxic's Index and Direction
\* equal to its place, whatever the order of additions, removals and resets.
THEOREM IndexIsAlwaysPosition == Spec => []IndexIsPosition
<1>1. IndInv => IndexIsPosition
  BY DEF IndInv
<1> QED
  BY <1>1, Consistent, PTL

\* An update or removal finds a stub at the toxic's Index in every link.
THEOREM LinksAlwaysCoverChain == Spec => []LinksCoverChain
<1>1. IndInv => LinksCoverChain
  BY DEF IndInv, LinksInStep, InStep, LinksCoverChain
<1> QED
  BY <1>1, Consistent, PTL

\* A link without a closed stub runs the chain of its direction.
THEOREM OpenLinksAlwaysFollowChain == Spec => []OpenLinksFollowChain
<1>1. IndInv => OpenLinksFollowChain
  BY DEF IndInv, LinksInStep, InStep, OpenLinksFollowChain
<1> QED
  BY <1>1, Consistent, PTL

\* When ResetToxics returns, both chains hold the noop only.
THEOREM ResetAlwaysClears == Spec => ResetClears
<1>1. IndInv /\ [Next]_vars
        => [resetting /\ ~resetting' => \A d \in Directions : chain'[d] = <<Noop>>]_vars
  <2> SUFFICES ASSUME IndInv, [Next]_vars, resetting, ~resetting', NEW d \in Directions
               PROVE  chain'[d] = <<Noop>>
    OBVIOUS
  <2>1. ResetDone
    BY DEF Next, Calls, AddToxic, UpdateToxic, UpdateToxicFails, RemoveToxic, ResetToxics,
           ResetStep, StartLink, RemoveLink, StubCloses, Free, vars
  <2>2. chain[d] \in Seq(Toxic) /\ Len(chain[d]) = 1 /\ chain[d][1] = Noop
    BY <2>1 DEF ResetDone, IndInv, TypeOK, IndexIsPosition, Toxic
  <2>3. chain[d] = <<Noop>>
    BY <2>2
  <2> QED
    BY <2>1, <2>3 DEF ResetDone
<1> QED
  BY <1>1, Consistent, PTL DEF Spec, ResetClears

\* Each round of ResetToxics removes the first toxic of one chain and nothing
\* else: the Index it is found by is its position.
THEOREM ResetAlwaysRemovesFirst == Spec => ResetRemovesFirst
<1> DEFINE A == resetting /\ <<toxic, chain>>' # <<toxic, chain>> =>
         \E d \in Directions :
            /\ Len(chain[d]) > 1
            /\ chain' = [chain EXCEPT ![d] = <<Noop>> \o SubSeq(@, 3, Len(@))]
<1>1. IndInv /\ [Next]_vars => [A]_vars
  <2> SUFFICES ASSUME IndInv, Next, resetting, <<toxic, chain>>' # <<toxic, chain>>
               PROVE  \E d \in Directions :
                         /\ Len(chain[d]) > 1
                         /\ chain' = [chain EXCEPT ![d] = <<Noop>> \o SubSeq(@, 3, Len(@))]
    OBVIOUS
  <2>1. PICK d \in Directions : ResetStep(d)
    BY DEF Next, Calls, AddToxic, UpdateToxic, UpdateToxicFails, RemoveToxic, ResetToxics,
           ResetDone, StartLink, RemoveLink, StubCloses, Free
  <2> DEFINE t == chain[d][2]
  <2>2. /\ Len(chain[d]) > 1 /\ chain[d] \in Seq(Toxic) /\ chain[d][1] = Noop
        /\ t \in Wrappers /\ toxic[t].index = 1 /\ toxic[t].dir = d
    BY <2>1 DEF ResetStep, IndInv, TypeOK, IndexIsPosition, Toxic
  <2>3. chain' = [chain EXCEPT ![d] = RemoveAt(chain[d], 2)]
    BY <2>1, <2>2 DEF ResetStep, ChainRemoveToxic
  <2>4. SubSeq(chain[d], 1, 1) = <<Noop>>
    <3>1. SubSeq(chain[d], 1, 1) = [j \in 1..1 |-> chain[d][j]]
      BY <2>2
    <3>2. [j \in 1..1 |-> chain[d][j]] = [j \in 1..1 |-> Noop]
      BY <2>2
    <3>3. [j \in 1..1 |-> Noop] = <<Noop>>
      OBVIOUS
    <3> QED
      BY <3>1, <3>2, <3>3
  <2>5. RemoveAt(chain[d], 2) = <<Noop>> \o SubSeq(chain[d], 3, Len(chain[d]))
    <3>1. 2 - 1 = 1 /\ 2 + 1 = 3
      OBVIOUS
    <3> QED
      BY <2>4, <3>1, Zenon DEF RemoveAt
  <2> QED
    BY <2>2, <2>3, <2>5
<1> QED
  BY <1>1, Consistent, PTL DEF Spec, ResetRemovesFirst

-----------------------------------------------------------------------------
(* Names *)

\* A step that adds no toxic to a chain and renames none keeps names unique.
LEMMA NamesKept ==
    ASSUME UniqueNames, AllActive' \subseteq AllActive,
           \A t \in AllActive : toxic'[t].name = toxic[t].name
    PROVE  UniqueNames'
BY DEF UniqueNames

LEMMA RemovalKeepsNames ==
    ASSUME IndInv, UniqueNames, NEW t \in AllActive, ChainRemoveToxic(t)
    PROVE  UniqueNames'
<1> DEFINE d  == toxic[t].dir
           i  == toxic[t].index + 1
           ch == RemoveAt(chain[d], i)
<1>1. /\ t \in Wrappers /\ d \in Directions
      /\ i \in 2..Len(chain[d]) /\ chain[d][i] = t /\ chain[d] \in Seq(Toxic)
  BY ActiveIsPlaced
<1>2. /\ chain' = [chain EXCEPT ![d] = ch]
      /\ toxic' = [Reindexed(ch, i) EXCEPT ![t].index = -1]
  BY DEF ChainRemoveToxic
<1> HIDE DEF d, i
<1>3. /\ Len(ch) = Len(chain[d]) - 1
      /\ \A j \in 1..(Len(chain[d]) - 1) :
           ch[j] = IF j < i THEN chain[d][j] ELSE chain[d][j + 1]
  <2>1. i \in 1..Len(chain[d])
    BY <1>1
  <2> QED
    BY <1>1, <2>1, RemoveAtProperties
<1> HIDE DEF ch
<1>4. ASSUME NEW e \in Directions, NEW j \in 2..Len(chain'[e])
      PROVE  chain'[e][j] \in AllActive
  <2>1. CASE e = d
    <3>1. chain'[e] = ch
      BY <1>2, <2>1 DEF IndInv, TypeOK
    <3>2. \E k \in 2..Len(chain[d]) : ch[j] = chain[d][k]
      <4>1. j \in 1..(Len(chain[d]) - 1) /\ j \in 2..Len(chain[d]) /\ j + 1 \in 2..Len(chain[d])
        BY <1>1, <1>3, <3>1
      <4> QED
        BY <1>3, <4>1
    <3> QED
      BY <1>1, <3>1, <3>2 DEF AllActive, Active
  <2>2. CASE e # d
    BY <1>2, <2>2 DEF AllActive, Active, IndInv, TypeOK
  <2> QED
    BY <2>1, <2>2
<1>5. AllActive' \subseteq AllActive
  <2> SUFFICES ASSUME NEW x \in AllActive'
               PROVE  x \in AllActive
    OBVIOUS
  <2>1. PICK e \in Directions : \E j \in 2..Len(chain'[e]) : x = chain'[e][j]
    BY DEF AllActive, Active
  <2>2. PICK j \in 2..Len(chain'[e]) : x = chain'[e][j]
    BY <2>1
  <2> QED
    BY <1>4, <2>2
<1>6. ASSUME NEW w \in AllActive
      PROVE  toxic'[w].name = toxic[w].name
  <2>1. w \in Wrappers /\ toxic[w] \in Fields
    BY ActiveIsPlaced
  <2>2. \E x : Reindexed(ch, i)[w] = [toxic[w] EXCEPT !.index = x]
    <3>1. toxic[w] = [toxic[w] EXCEPT !.index = toxic[w].index]
      BY <2>1 DEF Fields
    <3> QED
      BY <2>1, <3>1 DEF Reindexed
  <2>3. \E x : toxic'[w] = [toxic[w] EXCEPT !.index = x]
    <3>1. CASE w # t
      BY <1>2, <2>1, <2>2, <3>1 DEF Reindexed
    <3>2. CASE w = t
      <4>1. toxic'[w] = [Reindexed(ch, i)[w] EXCEPT !.index = -1]
        BY <1>2, <2>1, <3>2 DEF Reindexed
      <4> QED
        BY <2>1, <2>2, <4>1 DEF Fields
    <3> QED
      BY <3>1, <3>2
  <2> QED
    BY <2>1, <2>3 DEF Fields
<1> QED
  BY <1>5, <1>6, NamesKept

\* AddToxic takes only a name that no toxic of either chain has.
LEMMA AddToxicKeepsNames ==
    ASSUME IndInv, UniqueNames, NEW w \in Wrappers, NEW r \in Requests,
           NEW named \in BOOLEAN, AddToxic(w, r, named)
    PROVE  UniqueNames'
<1> DEFINE d  == r.dir
           n  == IF named THEN r.name ELSE DefaultName[r.type][d]
           fw == Wrapped(r, n, Full, Len(chain[d]))
<1>1. d \in Directions
  BY DEF Requests
<1>2. fw.name = n
  BY DEF Wrapped
<1>3. /\ toxic' = [toxic EXCEPT ![w] = fw]
      /\ chain' = [chain EXCEPT ![d] = Append(chain[d], w)]
      /\ FindToxicByName(n) = {} /\ w \notin AllActive
  BY DEF AddToxic, Unused
<1> HIDE DEF d, n, fw
<1>4. chain[d] \in Seq(Toxic)
  BY <1>1 DEF IndInv, TypeOK, Toxic
<1>5. ASSUME NEW e \in Directions, NEW j \in 2..Len(chain'[e])
      PROVE  chain'[e][j] \in AllActive \cup {w}
  <2>1. CASE e = d
    <3>1. chain'[e] = Append(chain[d], w)
      BY <1>3, <2>1 DEF IndInv, TypeOK
    <3>2. chain'[e][j] = w \/ (j \in 2..Len(chain[d]) /\ chain'[e][j] = chain[d][j])
      BY <1>4, <3>1
    <3> QED
      BY <1>1, <3>2 DEF AllActive, Active
  <2>2. CASE e # d
    BY <1>3, <2>2 DEF AllActive, Active, IndInv, TypeOK
  <2> QED
    BY <2>1, <2>2
<1>6. AllActive' \subseteq AllActive \cup {w}
  <2> SUFFICES ASSUME NEW x \in AllActive'
               PROVE  x \in AllActive \cup {w}
    OBVIOUS
  <2>1. PICK e \in Directions : \E j \in 2..Len(chain'[e]) : x = chain'[e][j]
    BY DEF AllActive, Active
  <2>2. PICK j \in 2..Len(chain'[e]) : x = chain'[e][j]
    BY <2>1
  <2> QED
    BY <1>5, <2>2
<1>7. toxic'[w].name = n /\ \A t \in AllActive : toxic'[t] = toxic[t] /\ toxic[t].name # n
  <2>1. \A t \in AllActive : t \in Wrappers
    BY ActiveIsPlaced
  <2> QED
    BY <1>2, <1>3, <2>1 DEF FindToxicByName, IndInv, TypeOK
<1> QED
  BY <1>6, <1>7 DEF UniqueNames

\* No two toxics of a proxy ever share a name, named or defaulted.
THEOREM NamesAreAlwaysUnique == Spec => []UniqueNames
<1>1. Init => UniqueNames
  BY DEF Init, UniqueNames, AllActive, Active
<1>2. IndInv /\ UniqueNames /\ [Next]_vars => UniqueNames'
  <2> SUFFICES ASSUME IndInv, UniqueNames, [Next]_vars PROVE UniqueNames'
    OBVIOUS
  <2>1. ASSUME NEW w \in Wrappers, NEW r \in Requests, NEW named \in BOOLEAN,
               AddToxic(w, r, named)
        PROVE  UniqueNames'
    BY <2>1, AddToxicKeepsNames
  <2>2. ASSUME NEW t \in AllActive, NEW a \in Attributes, NEW y \in Toxicities,
               UpdateToxic(t, a, y)
        PROVE  UniqueNames'
    <3> DEFINE d == toxic[t].dir
               i == toxic[t].index + 1
    <3>1. /\ t \in Wrappers /\ d \in Directions /\ i \in 2..Len(chain[d])
          /\ chain[d][i] = t /\ chain[d] \in Seq(Toxic)
      BY ActiveIsPlaced
    <3>2. chain' = [chain EXCEPT ![d] = [chain[d] EXCEPT ![i] = t]]
      BY <2>2 DEF UpdateToxic
    <3>3. \A w \in Wrappers : toxic'[w].name = toxic[w].name
      BY <2>2 DEF UpdateToxic, IndInv, TypeOK, Fields
    <3> HIDE DEF d, i
    <3>4. chain' = chain
      BY <3>1, <3>2 DEF IndInv, TypeOK
    <3>5. AllActive' = AllActive
      BY <3>4 DEF AllActive, Active
    <3>6. \A w \in AllActive : w \in Wrappers
      BY ActiveIsPlaced
    <3> QED
      BY <3>3, <3>5, <3>6, NamesKept
  <2>3. ASSUME NEW t \in AllActive, NEW a \in Attributes, UpdateToxicFails(t, a)
        PROVE  UniqueNames'
    <3>1. \A w \in Wrappers : toxic'[w].name = toxic[w].name
      BY <2>3 DEF UpdateToxicFails, IndInv, TypeOK, Fields
    <3>2. AllActive' = AllActive
      BY <2>3 DEF UpdateToxicFails, AllActive, Active
    <3>3. \A w \in AllActive : w \in Wrappers
      BY ActiveIsPlaced
    <3> QED
      BY <3>1, <3>2, <3>3, NamesKept
  <2>4. ASSUME NEW t \in AllActive, RemoveToxic(t)
        PROVE  UniqueNames'
    BY <2>4, RemovalKeepsNames DEF RemoveToxic
  <2>5. ASSUME NEW d \in Directions, ResetStep(d)
        PROVE  UniqueNames'
    <3>1. chain[d] \in Seq(Toxic) /\ Len(chain[d]) > 1
      BY <2>5 DEF ResetStep, IndInv, TypeOK, Toxic
    <3>2. 2 \in 2..Len(chain[d])
      BY <3>1
    <3>3. chain[d][2] \in AllActive
      BY <3>2 DEF AllActive, Active
    <3> QED
      BY <2>5, <3>3, RemovalKeepsNames DEF ResetStep
  <2>6. ASSUME UNCHANGED <<toxic, chain>>
        PROVE  UniqueNames'
    BY <2>6 DEF UniqueNames, AllActive, Active
  <2> QED
    BY <2>1, <2>2, <2>3, <2>4, <2>5, <2>6
       DEF Next, Calls, ResetToxics, ResetDone, StartLink, RemoveLink, StubCloses, vars
<1> QED
  BY <1>1, <1>2, Consistent, PTL DEF Spec
=============================================================================
