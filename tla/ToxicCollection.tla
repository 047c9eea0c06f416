-------------------------- MODULE ToxicCollection --------------------------
(***************************************************************************)
(* The ToxicCollection of one proxy (toxic_collection.go): the chains of     *)
(* both directions, the Index each ToxicWrapper keeps of its own position,   *)
(* and the links that must follow the chains.  Every call holds the          *)
(* collection's mutex, so a call is one step; ResetToxics, which keeps the   *)
(* mutex over many removals, is one step per removal.                        *)
(*                                                                          *)
(* A link is the sequence of its stubs: the toxic each one runs and whether  *)
(* it is closed.  Stubs close by themselves between the calls (StubCloses),  *)
(* from the source on or where a reset_peer fires.  The steps inside a call, *)
(* with their channels and goroutines, are those of module ToxicLink.        *)
(*                                                                          *)
(* chain[d][i] is Go's chain[d][i-1]; index is Go's number.                  *)
(***************************************************************************)
EXTENDS Integers, SequencesExt

CONSTANTS
    Directions,     \* upstream and downstream
    Wrappers,       \* the ToxicWrapper objects that calls may create
    Noop,           \* collection.noop, shared by the chains of all directions
    Names,          \* toxic names
    Types,          \* registered toxic types
    ResetTypes,     \* those that close their stub by themselves
    DefaultName,    \* [Types -> [Directions -> Names]]: "<type>_<stream>"
    Toxicities,     \* toxicity values a client may ask for
    Full,           \* 1.0
    Attributes,     \* attribute values a client may ask for
    Links,          \* link names
    NoToxic,        \* what a stub that never ran runs
    MaxStubs        \* bound: stubs of a link that toxics may still be added to

ASSUME ConstantsAssumption ==
    /\ Noop \notin Wrappers
    /\ NoToxic \notin Wrappers \cup {Noop}
    /\ ResetTypes \subseteq Types
    /\ DefaultName \in [Types -> [Directions -> Names]]
    /\ Full \in Toxicities
    /\ MaxStubs \in Nat
    /\ Directions # {} /\ Types # {} /\ Attributes # {}

VARIABLES
    toxic,      \* the fields of each wrapper
    chain,      \* collection.chain
    links,      \* collection.links
    stubs,      \* link.stubs of each link
    direction,  \* link.direction
    resetting,  \* is a ResetToxics in progress (and the mutex held)?
    panic       \* did the process die of an index out of range?

vars == <<toxic, chain, links, stubs, direction, resetting, panic>>

Requests == [name : Names, type : Types, dir : Directions, toxicity : Toxicities,
             attr : Attributes]

Fields == [name : Names, type : Types, dir : Directions, toxicity : Toxicities,
           attr : Attributes, index : Int]

\* The wrapper made of request r, under name n, with toxicity y, at Index i.
Wrapped(r, n, y, i) ==
    [name |-> n, type |-> r.type, dir |-> r.dir, toxicity |-> y,
     attr |-> r.attr, index |-> i]

Stubs == [toxic : Wrappers \cup {Noop, NoToxic}, closed : BOOLEAN]

Free == ~resetting /\ ~panic       \* the mutex can be taken

Active(d) == {chain[d][i] : i \in 2..Len(chain[d])}

AllActive == UNION {Active(d) : d \in Directions}

\* A wrapper that no chain and no registered link refers to.
Unused(w) ==
    /\ w \notin AllActive
    /\ \A l \in links : \A i \in 1..Len(stubs[l]) : stubs[l][i].toxic # w

Following(d) == {l \in links : direction[l] = d}

Init ==
    /\ LET r == CHOOSE r \in Requests : TRUE      \* no wrapper exists yet
       IN toxic = [w \in Wrappers |-> Wrapped(r, r.name, Full, -1)]
    /\ chain = [d \in Directions |-> <<Noop>>]
    /\ links = {}
    /\ stubs = [l \in Links |-> <<>>]
    /\ direction = [l \in Links |-> CHOOSE d \in Directions : TRUE]
    /\ resetting = FALSE
    /\ panic = FALSE

-----------------------------------------------------------------------------
(* link.go, seen from the collection.  ch is the chain after the call. *)

RunStub(t) == [toxic |-> t, closed |-> FALSE]

\* Mutant: nothing is added to a link that is closed.
LinkAddSkipping(ss, ch, t) ==
    IF Last(ss).closed THEN ss
    ELSE Append([ss EXCEPT ![Len(ss)] = RunStub(ch[Len(ss)])], RunStub(t))

\* AddToxic: a closed last stub gets a closed successor that never runs.
LinkAdd(ss, ch, t) ==
    IF Last(ss).closed
    THEN Append(ss, [toxic |-> NoToxic, closed |-> TRUE])
    ELSE Append([ss EXCEPT ![Len(ss)] = RunStub(ch[Len(ss)])], RunStub(t))

LinkAddPanics(ss, ch) == ~Last(ss).closed /\ Len(ss) > Len(ch)

LinkUpdate(ss, i, t) == IF ss[i].closed THEN ss ELSE [ss EXCEPT ![i] = RunStub(t)]

\* Mutant: the previous stub is run with the toxic at the removed position.
LinkRemoveOffByOne(ss, ch, i) ==
    CASE ss[i].closed     -> ss
      [] ss[i - 1].closed -> [ss EXCEPT ![i].closed = TRUE]
      [] OTHER            -> RemoveAt([ss EXCEPT ![i - 1] = RunStub(ch[Len(ch)])], i)

\* RemoveToxic: a closed stub stays where it is, and so does one that finds
\* its Input ended; otherwise the stub goes and the previous one runs again.
LinkRemove(ss, ch, i) ==
    IF ss[i].closed THEN ss
    ELSE IF ss[i - 1].closed THEN [ss EXCEPT ![i].closed = TRUE]
    ELSE RemoveAt([ss EXCEPT ![i - 1] = RunStub(ch[i - 1])], i)

-----------------------------------------------------------------------------
(* Calls *)

\* Mutant: only one of the two chains is searched.
FindToxicInOneChain(n) == {t \in Active(CHOOSE d \in Directions : TRUE) : toxic[t].name = n}

FindToxicByName(n) == {t \in AllActive : toxic[t].name = n}

\* AddToxicJson and AddToxic.  r holds the decoded fields; no name means the
\* default one.  Requests that do not decode, or name no stream or type of
\* ours, change nothing.
AddToxic(w, r, named) ==
    /\ Free
    /\ Unused(w)
    /\ \A l \in Following(r.dir) : Len(stubs[l]) < MaxStubs
    /\ LET d  == r.dir
           n  == IF named THEN r.name ELSE DefaultName[r.type][d]
           ch == Append(chain[d], w)
       IN /\ FindToxicByName(n) = {}
          /\ toxic' = [toxic EXCEPT ![w] = Wrapped(r, n, Full, Len(chain[d]))]
          /\ chain' = [chain EXCEPT ![d] = ch]
          /\ IF \E l \in Following(d) : LinkAddPanics(stubs[l], ch)
             THEN panic' = TRUE /\ UNCHANGED stubs
             ELSE /\ stubs' = [l \in Links |-> IF l \in Following(d)
                                               THEN LinkAdd(stubs[l], ch, w) ELSE stubs[l]]
                  /\ UNCHANGED panic
    /\ UNCHANGED <<links, direction, resetting>>

\* UpdateToxicJson: the new attributes are decoded into the toxic itself.
UpdateToxic(t, a, y) ==
    /\ Free
    /\ t \in AllActive
    /\ LET d == toxic[t].dir
           i == toxic[t].index + 1
       IN /\ toxic' = [toxic EXCEPT ![t].attr = a, ![t].toxicity = y]
          /\ chain' = [chain EXCEPT ![d][i] = t]
          /\ stubs' = [l \in Links |-> IF l \in Following(d)
                                       THEN LinkUpdate(stubs[l], i, t) ELSE stubs[l]]
    /\ UNCHANGED <<links, direction, resetting, panic>>

\* UpdateToxicJson fails on a later field: the decoded attributes stay.
UpdateToxicFails(t, a) ==
    /\ Free
    /\ t \in AllActive
    /\ toxic' = [toxic EXCEPT ![t].attr = a]
    /\ UNCHANGED <<chain, links, stubs, direction, resetting, panic>>

PosIn(ch, w) == CHOOSE j \in 1..Len(ch) : ch[j] = w

\* Mutant: the toxic that moved into the gap keeps its old Index.
ReindexedLate(ch, i) ==
    [w \in Wrappers |-> IF \E j \in (i + 1)..Len(ch) : ch[j] = w
                        THEN [toxic[w] EXCEPT !.index = PosIn(ch, w) - 1] ELSE toxic[w]]

\* The toxics from position i on learn their new Index.
Reindexed(ch, i) ==
    [w \in Wrappers |-> IF \E j \in i..Len(ch) : ch[j] = w
                        THEN [toxic[w] EXCEPT !.index = PosIn(ch, w) - 1] ELSE toxic[w]]

ChainRemoveToxic(t) ==
    LET d  == toxic[t].dir
        i  == toxic[t].index + 1
        ch == RemoveAt(chain[d], i)
    IN /\ chain' = [chain EXCEPT ![d] = ch]
       /\ toxic' = [Reindexed(ch, i) EXCEPT ![t].index = -1]
       /\ stubs' = [l \in Links |-> IF l \in Following(d)
                                    THEN LinkRemove(stubs[l], ch, i) ELSE stubs[l]]
       /\ UNCHANGED <<links, direction, panic>>

RemoveToxic(t) ==
    /\ Free
    /\ t \in AllActive
    /\ ChainRemoveToxic(t)
    /\ UNCHANGED resetting

ResetToxics ==
    /\ Free
    /\ resetting' = TRUE
    /\ UNCHANGED <<toxic, chain, links, stubs, direction, panic>>

\* One round of the loop.  The round itself may hang in a link (module
\* ToxicLink), so nothing is assumed of when it comes.
ResetStep(d) ==
    /\ resetting
    /\ Len(chain[d]) > 1
    /\ ChainRemoveToxic(chain[d][2])
    /\ UNCHANGED resetting

\* Mutant: the reset stops when one chain is empty.
ResetDoneEarly ==
    /\ resetting
    /\ \E d \in Directions : Len(chain[d]) = 1
    /\ resetting' = FALSE
    /\ UNCHANGED <<toxic, chain, links, stubs, direction, panic>>

ResetDone ==
    /\ resetting
    /\ \A d \in Directions : Len(chain[d]) = 1
    /\ resetting' = FALSE
    /\ UNCHANGED <<toxic, chain, links, stubs, direction, panic>>

StartLink(l, d) ==
    /\ Free
    /\ l \notin links
    /\ links' = links \cup {l}
    /\ direction' = [direction EXCEPT ![l] = d]
    /\ stubs' = [stubs EXCEPT ![l] = [i \in 1..Len(chain[d]) |-> RunStub(chain[d][i])]]
    /\ UNCHANGED <<toxic, chain, resetting, panic>>

\* Called by link.write when its input ended or the destination failed.
RemoveLink(l) ==
    /\ Free
    /\ l \in links
    /\ links' = links \ {l}
    /\ stubs' = [stubs EXCEPT ![l] = <<>>]
    /\ UNCHANGED <<toxic, chain, direction, resetting, panic>>

Resets(t) == t \in Wrappers /\ toxic[t].type \in ResetTypes

\* A stub closes: its Input ended, or it runs a reset_peer that fired.
StubCloses(l, i) ==
    /\ ~panic
    /\ l \in links /\ i \in 1..Len(stubs[l])
    /\ ~stubs[l][i].closed
    /\ i > 1 => stubs[l][i - 1].closed \/ Resets(stubs[l][i].toxic)
    /\ stubs' = [stubs EXCEPT ![l][i].closed = TRUE]
    /\ UNCHANGED <<toxic, chain, links, direction, resetting, panic>>

Calls ==
    \/ \E w \in Wrappers, r \in Requests, named \in BOOLEAN : AddToxic(w, r, named)
    \/ \E t \in AllActive, a \in Attributes :
         \/ \E y \in Toxicities : UpdateToxic(t, a, y)
         \/ UpdateToxicFails(t, a)
    \/ \E t \in AllActive : RemoveToxic(t)
    \/ ResetToxics

Next ==
    \/ Calls
    \/ \E d \in Directions : ResetStep(d)
    \/ ResetDone
    \/ \E l \in Links, d \in Directions : StartLink(l, d)
    \/ \E l \in Links : RemoveLink(l)
    \/ \E l \in links : \E i \in 1..Len(stubs[l]) : StubCloses(l, i)

Spec == Init /\ [][Next]_vars

-----------------------------------------------------------------------------
(* Properties *)

\* Every variable holds a value of its type; the calls' additions, removals
\* and renumbering leave sequences of toxics in the chains and of stubs in
\* the links.
TypeOK ==
    /\ toxic \in [Wrappers -> Fields]
    /\ chain \in [Directions -> Seq(Wrappers \cup {Noop})]
    /\ links \subseteq Links
    /\ stubs \in [Links -> Seq(Stubs)]
    /\ direction \in [Links -> Directions]
    /\ resetting \in BOOLEAN
    /\ panic \in BOOLEAN

\* Every chain starts with the hidden noop, and the Index and Direction kept
\* in a toxic say where it is: calls find it at chain[Direction][Index], and
\* links at stubs[Index] (chainAddToxic, chainRemoveToxic).
IndexIsPosition ==
    \A d \in Directions :
        /\ Len(chain[d]) >= 1
        /\ chain[d][1] = Noop
        /\ \A i \in 2..Len(chain[d]) :
             /\ chain[d][i] \in Wrappers
             /\ toxic[chain[d][i]].index = i - 1
             /\ toxic[chain[d][i]].dir = d

\* A name names at most one toxic of the proxy, in whichever direction it
\* works, also when it was defaulted (AddToxic, findToxicByName).
UniqueNames == \A t, u \in AllActive : toxic[t].name = toxic[u].name => t = u

\* Link ss has a stub for every toxic of chain ch.
Covers(ss, ch) == Len(ss) >= Len(ch)

\* If no stub of ss is closed, stub i runs toxic i of ch and there are no others.
Follows(ss, ch) ==
    (\A i \in 1..Len(ss) : ~ss[i].closed)
    => Len(ss) = Len(ch) /\ \A i \in 1..Len(ss) : ss[i].toxic = ch[i]

\* A link none of whose stubs is closed runs exactly the chain of its direction.
OpenLinksFollowChain ==
    ~panic => \A l \in links : Follows(stubs[l], chain[direction[l]])

\* No registered link has fewer stubs than the chain has toxics, so that
\* link.stubs[toxic.Index] of an update or a removal is in range.
LinksCoverChain == ~panic => \A l \in links : Covers(stubs[l], chain[direction[l]])

\* When ResetToxics returns, no toxic is left in either direction.
ResetClears ==
    [][resetting /\ ~resetting' => \A d \in Directions : chain'[d] = <<Noop>>]_vars

\* Each round of ResetToxics takes the first toxic from one chain and leaves
\* the noop, the other toxics and their order alone, whatever calls came
\* before: the loop is as long as there are toxics, and never removes another
\* toxic than the one it names (chainRemoveToxic cuts the chain at the Index
\* that the toxic keeps).
ResetRemovesFirst ==
    [][resetting /\ <<toxic, chain>>' # <<toxic, chain>> =>
         \E d \in Directions :
            /\ Len(chain[d]) > 1
            /\ chain' = [chain EXCEPT ![d] = <<Noop>> \o SubSeq(@, 3, Len(@))]]_vars
=============================================================================
