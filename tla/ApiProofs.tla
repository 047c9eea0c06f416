----------------------------- MODULE ApiProofs ------------------------------
(***************************************************************************)
(* For any number of handlers, proxies, names and addresses and any requests: *)
(* listeners belong to the proxies that claim them, however the handlers      *)
(* interleave, and updates of one proxy do not mix; and while requests are     *)
(* served one after the other no proxy is orphaned and a reset restores        *)
(* everything.                                                                *)
(***************************************************************************)
EXTENDS Api, TLAPS

UpdatePcs == {"listen", "upstream", "enabled", "update", "move", "enable"}

\* A proxy that was not created has not been started.
Unstarted == \A p \in Objects \ used : ~conf[p].enabled

\* The request of h refers to proxies that were created.
Refers(h) ==
    /\ req[h].pc \in UpdatePcs \cup {"toxics"} => req[h].proxy \in used
    /\ req[h].pc \in {"reset", "toxics"} => req[h].todo \subseteq used
    /\ req[h].pc \in {"replace", "start"} => req[h].todo # <<>>

\* An update in progress holds its proxy's mutex, has stopped a proxy that is
\* about to listen elsewhere, and finds the addresses it wrote.
Holds(h) ==
    /\ req[h].pc \in {"move", "enable"} => held[req[h].proxy] = h
    /\ req[h].pc = "move" => \/ ~conf[req[h].proxy].enabled
                             \/ conf[req[h].proxy].listen = req[h].input.listen
    /\ req[h].pc = "enable" => /\ conf[req[h].proxy].listen = req[h].input.listen
                               /\ conf[req[h].proxy].upstream = req[h].input.upstream

IndInv ==
    /\ TypeOK /\ Unstarted /\ PortsFollowProxies
    /\ \A h \in Handlers : Refers(h) /\ Holds(h)

-----------------------------------------------------------------------------
Restored(p) == conf[p].enabled /\ p \notin toxic

\* What the request of h relies on while it is the only one.
Alone(h) ==
    /\ req[h].pc \in UpdatePcs => req[h].proxy \in Registered
    /\ req[h].pc = "start" => LET old == proxies[Head(req[h].todo).name]
                              IN old = None \/ ~conf[old].enabled
    /\ req[h].pc = "reset" =>
         /\ req[h].todo \subseteq Registered
         /\ \A p \in Registered \ req[h].todo : Restored(p)
    /\ req[h].pc = "toxics" =>
         /\ req[h].todo \subseteq Registered /\ req[h].proxy \in Registered
         /\ conf[req[h].proxy].enabled
         /\ \A p \in Registered \ (req[h].todo \cup {req[h].proxy}) : Restored(p)

\* While no two requests were served at once.
Sequential ==
    ~overlap =>
        /\ \A h, k \in Handlers : req[h] # Idle /\ req[k] # Idle => h = k
        /\ \A p \in Objects : conf[p].enabled => p \in Registered
        /\ \A h \in Handlers : Alone(h)

SeqInv == IndInv /\ Sequential

-----------------------------------------------------------------------------
(* Requests *)

EntryReq  == [pc : {"entry", "replace", "start"}, todo : Seq(Config)]
RemoveReq == [pc : {"remove"}, todo : SUBSET Names]
UpdateReq == [pc : UpdatePcs, proxy : Objects, given : Patch, input : Config]
ResetReq  == [pc : {"reset"}, todo : SUBSET Objects]
ToxicsReq == [pc : {"toxics"}, todo : SUBSET Objects, proxy : Objects]
ToxicReq  == [pc : {"addToxic", "removeToxic"}, proxy : Objects]

\* The place where a handler is tells what its request is.
LEMMA RequestAt ==
    ASSUME NEW r \in ReqType
    PROVE  /\ r.pc = "idle" <=> r = Idle
           /\ r.pc \in {"entry", "replace", "start"} => r \in EntryReq
           /\ r.pc = "remove" => r \in RemoveReq
           /\ r.pc \in UpdatePcs => r \in UpdateReq
           /\ r.pc = "reset" => r \in ResetReq
           /\ r.pc = "toxics" => r \in ToxicsReq
           /\ r.pc \in {"addToxic", "removeToxic"} => r \in ToxicReq
BY DEF ReqType, Idle, EntryReq, RemoveReq, UpdateReq, UpdatePcs, ResetReq, ToxicsReq, ToxicReq

\* Every kind of request is a request.
LEMMA RequestTypes ==
    /\ Idle \in ReqType /\ EntryReq \subseteq ReqType /\ RemoveReq \subseteq ReqType
    /\ UpdateReq \subseteq ReqType /\ ResetReq \subseteq ReqType
    /\ ToxicsReq \subseteq ReqType /\ ToxicReq \subseteq ReqType
BY DEF ReqType, EntryReq, RemoveReq, UpdateReq, UpdatePcs, ResetReq, ToxicsReq, ToxicReq

\* Handler h goes on with request r; the counters keep their types.
Becomes(h, r) ==
    /\ req' = [req EXCEPT ![h] = r]
    /\ nreq' \in 0..MaxRequests /\ overlap' \in BOOLEAN

\* Both ways to set what a handler is doing keep the counters in range.
LEMMA BeginOrGo ==
    ASSUME TypeOK, NEW h \in Handlers, NEW r, Begin(h, r) \/ Go(h, r)
    PROVE  Becomes(h, r)
<1>1. CASE Begin(h, r)
  BY <1>1, ApiAssumption DEF Begin, Becomes, TypeOK
<1>2. CASE Go(h, r)
  BY <1>2 DEF Go, Becomes, TypeOK
<1> QED
  BY <1>1, <1>2

\* A request that has ended refers to nothing.
LEMMA NowIdle ==
    ASSUME IndInv, NEW h \in Handlers, Becomes(h, Idle)
    PROVE  Idle \in ReqType /\ Refers(h)' /\ Holds(h)'
<1>1. req'[h] = Idle
  BY DEF Becomes, IndInv, TypeOK
<1> QED
  BY <1>1, RequestTypes DEF Refers, Holds, Idle, UpdatePcs

\* A handler's step leaves the requests of the others as they were, if it
\* changes only proxies that nobody else has locked.
LEMMA HandlerStep ==
    ASSUME IndInv, NEW h \in Handlers, NEW r \in ReqType, Becomes(h, r),
           used \subseteq used',
           \A p \in Objects : \/ conf'[p] = conf[p] /\ held'[p] = held[p]
                              \/ held[p] \in {None, h}
                              \/ p \notin used,
           Refers(h)', Holds(h)'
    PROVE  /\ req' \in [Handlers -> ReqType]
           /\ \A k \in Handlers : Refers(k)' /\ Holds(k)'
<1>1. req' \in [Handlers -> ReqType]
  BY DEF Becomes, IndInv, TypeOK
<1>2. ASSUME NEW k \in Handlers, k # h
      PROVE  Refers(k)' /\ Holds(k)'
  <2>1. req'[k] = req[k] /\ req[k] \in ReqType
    BY <1>2 DEF Becomes, IndInv, TypeOK
  <2>2. Refers(k)'
    BY <2>1 DEF IndInv, Refers
  <2>3. ASSUME req[k].pc \in {"move", "enable"}
        PROVE  conf'[req[k].proxy] = conf[req[k].proxy] /\ held'[req[k].proxy] = held[req[k].proxy]
    <3>1. req[k].proxy \in Objects /\ req[k].proxy \in used /\ held[req[k].proxy] = k
      BY <2>1, <2>3, RequestAt DEF IndInv, Refers, Holds, UpdatePcs, UpdateReq
    <3> QED
      BY <1>2, <3>1, ApiAssumption
  <2>4. Holds(k)'
    BY <2>1, <2>3 DEF IndInv, Holds
  <2> QED
    BY <2>2, <2>4
<1> QED
  BY <1>1, <1>2

\* Steps that only read proxies.
LEMMA ReadingStep ==
    ASSUME IndInv, NEW h \in Handlers, NEW r \in ReqType, Becomes(h, r),
           UNCHANGED <<conf, used, proxies, held, owner>>,
           lock' \in Handlers \cup {None}, toxic' \subseteq Objects,
           Refers(h)', Holds(h)'
    PROVE  IndInv'
<1>1. req' \in [Handlers -> ReqType] /\ \A k \in Handlers : Refers(k)' /\ Holds(k)'
  BY HandlerStep
<1>2. TypeOK'
  BY <1>1 DEF IndInv, TypeOK, Becomes
<1>3. Unstarted' /\ PortsFollowProxies'
  BY DEF IndInv, Unstarted, PortsFollowProxies
<1> QED
  BY <1>1, <1>2, <1>3 DEF IndInv

\* start of a disabled proxy takes a free address.
LEMMA StartedPorts ==
    ASSUME TypeOK, PortsFollowProxies, NEW p \in Objects, NEW c \in Config,
           ~conf[p].enabled, CanListen(c.listen), Started(p, c)
    PROVE  /\ conf' \in [Objects -> Config] /\ owner' \in [Listens -> Objects \cup {None}]
           /\ PortsFollowProxies'
           /\ \A q \in Objects \ {p} : conf'[q] = conf[q]
           /\ conf'[p].enabled
<1> DEFINE a == Resolved[c.listen]
<1>1. c.listen \in Listens /\ a \in Listens /\ owner[a] = None
  BY ApiAssumption DEF Config, CanListen
<1>2. [c EXCEPT !.listen = a, !.enabled = TRUE] \in Config
  BY <1>1 DEF Config
<1>3. /\ conf' \in [Objects -> Config] /\ owner' \in [Listens -> Objects \cup {None}]
      /\ conf'[p].listen = a /\ conf'[p].enabled = TRUE
      /\ \A q \in Objects \ {p} : conf'[q] = conf[q]
      /\ owner'[a] = p /\ \A b \in Listens \ {a} : owner'[b] = owner[b]
  BY <1>1, <1>2 DEF Started, TypeOK, Config
<1>4. PortsFollowProxies'
  <2> SUFFICES ASSUME NEW q \in Objects, NEW b \in Listens
               PROVE  owner'[b] = q <=> conf'[q].enabled /\ conf'[q].listen = b
    BY DEF PortsFollowProxies
  <2>1. CASE q = p /\ b = a
    BY <1>3, <2>1
  <2>2. CASE q = p /\ b # a
    BY <1>3, <2>2 DEF PortsFollowProxies
  <2>3. CASE q # p /\ b = a
    BY <1>1, <1>3, <2>3, ApiAssumption DEF PortsFollowProxies
  <2>4. CASE q # p /\ b # a
    BY <1>3, <2>4 DEF PortsFollowProxies
  <2> QED
    BY <2>1, <2>2, <2>3, <2>4
<1> QED
  BY <1>3, <1>4

\* stop gives the address of the proxy back.
LEMMA StopPorts ==
    ASSUME TypeOK, PortsFollowProxies, NEW p \in Objects \cup {None}, Stop(p)
    PROVE  /\ conf' \in [Objects -> Config] /\ owner' \in [Listens -> Objects \cup {None}]
           /\ PortsFollowProxies'
           /\ \A q \in Objects \ {p} : conf'[q] = conf[q]
           /\ p \in Objects => ~conf'[p].enabled
<1>1. CASE p = None
  <2>1. conf' = conf
    BY <1>1, ApiAssumption DEF Stop, TypeOK
  <2>2. owner' = owner
    BY <1>1 DEF Stop, TypeOK
  <2> QED
    BY <1>1, <2>1, <2>2, ApiAssumption DEF TypeOK, PortsFollowProxies
<1>2. CASE p \in Objects
  <2>1. /\ conf' \in [Objects -> Config] /\ conf'[p].enabled = FALSE
        /\ \A q \in Objects \ {p} : conf'[q] = conf[q]
    BY <1>2 DEF Stop, TypeOK, Config
  <2>2. /\ owner' \in [Listens -> Objects \cup {None}]
        /\ \A a \in Listens : owner'[a] = IF owner[a] = p THEN None ELSE owner[a]
    BY DEF Stop, TypeOK
  <2>3. PortsFollowProxies'
    BY <1>2, <2>1, <2>2, ApiAssumption DEF PortsFollowProxies
  <2> QED
    BY <2>1, <2>2, <2>3
<1> QED
  BY <1>1, <1>2

-----------------------------------------------------------------------------
(* The steps of the handlers *)

\* The object of NewProxy is one that was not used.
LEMMA FreshProxy ==
    ASSUME TypeOK, used # Objects
    PROVE  NewProxy \in Objects \ used
BY DEF NewProxy, TypeOK

\* A new proxy is registered, and started if asked to: it was never started.
LEMMA PutKeeps ==
    ASSUME IndInv, NEW c \in Config, Put(NewProxy, c), c.enabled => CanListen(c.listen)
    PROVE  /\ conf' \in [Objects -> Config] /\ owner' \in [Listens -> Objects \cup {None}]
           /\ used' \subseteq Objects /\ proxies' \in [Names -> used' \cup {None}]
           /\ used \subseteq used'
           /\ PortsFollowProxies' /\ Unstarted'
           /\ \A q \in Objects : q \in used => conf'[q] = conf[q]
<1> DEFINE p == NewProxy
<1>1. p \in Objects \ used /\ ~conf[p].enabled
  BY FreshProxy DEF Put, IndInv, Unstarted
<1>2. /\ used' = used \cup {p} /\ proxies' = [proxies EXCEPT ![c.name] = p]
      /\ c.name \in Names
  BY DEF Put, Config
<1> HIDE DEF p
<1>3. /\ conf' \in [Objects -> Config] /\ owner' \in [Listens -> Objects \cup {None}]
      /\ PortsFollowProxies' /\ \A q \in Objects \ {p} : conf'[q] = conf[q]
  <2>1. CASE c.enabled
    <3>1. Started(p, c)
      BY <2>1 DEF Put, p
    <3> QED
      BY <1>1, <2>1, <3>1, StartedPorts DEF IndInv
  <2>2. CASE ~c.enabled
    <3>1. conf' = [conf EXCEPT ![p] = c] /\ owner' = owner
      BY <2>2 DEF Put, p
    <3> QED
      BY <1>1, <2>2, <3>1 DEF IndInv, TypeOK, PortsFollowProxies
  <2> QED
    BY <2>1, <2>2
<1>4. used' \subseteq Objects /\ proxies' \in [Names -> used' \cup {None}]
  BY <1>1, <1>2 DEF IndInv, TypeOK
<1>5. Unstarted'
  BY <1>1, <1>2, <1>3 DEF IndInv, Unstarted
<1> QED
  BY <1>1, <1>2, <1>3, <1>4, <1>5

\* ProxyCreate.
LEMMA CreateStep ==
    ASSUME IndInv, NEW h \in Handlers, NEW c \in Config, ProxyCreate(h, c)
    PROVE  IndInv'
<1>1. Becomes(h, Idle)
  BY BeginOrGo DEF ProxyCreate, IndInv
<1>2. Put(NewProxy, c) /\ (c.enabled => CanListen(c.listen)) /\ UNCHANGED <<lock, held, toxic>>
  BY DEF ProxyCreate
<1>3. Idle \in ReqType /\ Refers(h)' /\ Holds(h)'
  BY <1>1, NowIdle
<1>4. req' \in [Handlers -> ReqType] /\ \A k \in Handlers : Refers(k)' /\ Holds(k)'
  BY <1>1, <1>2, <1>3, PutKeeps, HandlerStep
<1>5. TypeOK'
  BY <1>1, <1>2, <1>4, PutKeeps DEF IndInv, TypeOK, Becomes
<1> QED
  BY <1>2, <1>4, <1>5, PutKeeps DEF IndInv

\* Populate and AddOrReplace.
LEMMA PopulateStep ==
    ASSUME IndInv, NEW h \in Handlers,
           \/ \E list \in Populations : Populate(h, list)
           \/ NextEntry(h) \/ Replace(h) \/ EntryAdded(h) \/ EntryFails(h) \/ PopulateDone(h)
    PROVE  IndInv'
<1>1. TypeOK /\ req[h] \in ReqType /\ Refers(h)
  BY DEF IndInv, TypeOK
<1>2. ASSUME NEW pc \in {"entry", "replace", "start"}, NEW t \in Seq(Config), NEW r,
             r = [pc |-> pc, todo |-> t], pc # "entry" => t # <<>>, Becomes(h, r)
      PROVE  r \in ReqType /\ Refers(h)' /\ Holds(h)'
  <2>1. req'[h] = r
    BY <1>2 DEF Becomes, IndInv, TypeOK
  <2>2. r \in EntryReq
    BY <1>2 DEF EntryReq
  <2> QED
    BY <1>2, <2>1, <2>2, RequestTypes DEF Refers, Holds, UpdatePcs
<1>3. ASSUME NEW list \in Populations, Populate(h, list)
      PROVE  IndInv'
  <2>1. list \in Seq(Config)
    BY ApiAssumption
  <2>2. Becomes(h, [pc |-> "entry", todo |-> list])
    BY <1>1, <1>3, BeginOrGo DEF Populate
  <2>3. [pc |-> "entry", todo |-> list] \in ReqType /\ Refers(h)' /\ Holds(h)'
    BY <1>2, <2>1, <2>2
  <2> QED
    BY <1>1, <1>3, <2>2, <2>3, ReadingStep DEF Populate, TypeOK
<1>4. CASE NextEntry(h)
  <2> DEFINE c == Head(req[h].todo)
             old == proxies[c.name]
             same == old # None /\ conf[old].listen = c.listen /\ conf[old].upstream = c.upstream
             t == req[h].todo
  <2>1. req[h].pc = "entry" /\ req[h] \in EntryReq /\ t \in Seq(Config) /\ t # <<>>
    BY <1>1, <1>4, RequestAt DEF NextEntry, EntryReq
  <2>2. CASE same
    <3>1. Becomes(h, [req[h] EXCEPT !.todo = Tail(@)]) /\ lock' = lock
      BY <1>1, <1>4, <2>2, BeginOrGo DEF NextEntry
    <3>2. [req[h] EXCEPT !.todo = Tail(@)] = [pc |-> "entry", todo |-> Tail(t)]
      BY <2>1 DEF EntryReq
    <3>3. Tail(t) \in Seq(Config)
      BY <2>1
    <3>4. [req[h] EXCEPT !.todo = Tail(@)] \in ReqType /\ Refers(h)' /\ Holds(h)'
      BY <1>2, <3>1, <3>2, <3>3
    <3> QED
      BY <1>1, <1>4, <3>1, <3>4, ReadingStep DEF NextEntry, TypeOK
  <2>3. CASE ~same
    <3> DEFINE pc == IF old = None THEN "start" ELSE "replace"
    <3>1. Becomes(h, [req[h] EXCEPT !.pc = pc]) /\ lock' = h
      BY <1>1, <1>4, <2>3, BeginOrGo DEF NextEntry
    <3>2. [req[h] EXCEPT !.pc = pc] = [pc |-> pc, todo |-> t] /\ pc \in {"entry", "replace", "start"}
      BY <2>1 DEF EntryReq
    <3>3. [req[h] EXCEPT !.pc = pc] \in ReqType /\ Refers(h)' /\ Holds(h)'
      BY <1>2, <2>1, <3>1, <3>2
    <3> QED
      BY <1>1, <1>4, <3>1, <3>3, ReadingStep DEF NextEntry, TypeOK
  <2> QED
    BY <2>2, <2>3
<1>5. CASE Replace(h)
  <2> DEFINE old == proxies[Head(req[h].todo).name]
             t == req[h].todo
  <2>1. req[h].pc = "replace" /\ req[h] \in EntryReq /\ t \in Seq(Config) /\ t # <<>>
    BY <1>1, <1>5, RequestAt DEF Replace, EntryReq, Refers
  <2>2. old \in Objects \cup {None} /\ (old # None => old \in used)
    <3>1. Head(t) \in Config
      BY <2>1
    <3> QED
      BY <1>1, <3>1 DEF TypeOK, Config
  <2>3. held[old] = None /\ Stop(old) /\ UNCHANGED <<used, proxies, lock, held, toxic>>
    BY <1>5 DEF Replace
  <2>4. Becomes(h, [req[h] EXCEPT !.pc = "start"])
    BY <1>1, <1>5, BeginOrGo DEF Replace
  <2>5. [req[h] EXCEPT !.pc = "start"] = [pc |-> "start", todo |-> t]
    BY <2>1 DEF EntryReq
  <2>6. [req[h] EXCEPT !.pc = "start"] \in ReqType /\ Refers(h)' /\ Holds(h)'
    BY <1>2, <2>1, <2>4, <2>5
  <2> HIDE DEF old, t
  <2>7. /\ conf' \in [Objects -> Config] /\ owner' \in [Listens -> Objects \cup {None}]
        /\ PortsFollowProxies' /\ \A q \in Objects \ {old} : conf'[q] = conf[q]
        /\ old \in Objects => ~conf'[old].enabled
    BY <2>2, <2>3, StopPorts DEF IndInv
  <2>8. req' \in [Handlers -> ReqType] /\ \A k \in Handlers : Refers(k)' /\ Holds(k)'
    BY <2>3, <2>4, <2>6, <2>7, HandlerStep
  <2>9. TypeOK' /\ Unstarted'
    BY <2>2, <2>3, <2>4, <2>7, <2>8 DEF IndInv, TypeOK, Becomes, Unstarted
  <2> QED
    BY <2>7, <2>8, <2>9 DEF IndInv
<1>6. CASE EntryAdded(h)
  <2> DEFINE t == req[h].todo
             r == [pc |-> "entry", todo |-> Tail(t)]
  <2>1. req[h].pc = "start" /\ req[h] \in EntryReq /\ t \in Seq(Config) /\ t # <<>>
    BY <1>1, <1>6, RequestAt DEF EntryAdded, EntryReq, Refers
  <2>2. Head(t) \in Config /\ Tail(t) \in Seq(Config)
    BY <2>1
  <2>3. Put(NewProxy, Head(t)) /\ (Head(t).enabled => CanListen(Head(t).listen))
    BY <1>6 DEF EntryAdded
  <2>4. Becomes(h, r)
    BY <1>1, <1>6, BeginOrGo DEF EntryAdded
  <2>6. r \in ReqType /\ Refers(h)' /\ Holds(h)'
    BY <1>2, <2>2, <2>4
  <2>7. lock' = None /\ UNCHANGED <<held, toxic>>
    BY <1>6 DEF EntryAdded
  <2> HIDE DEF t, r
  <2>8. req' \in [Handlers -> ReqType] /\ \A k \in Handlers : Refers(k)' /\ Holds(k)'
    BY <2>2, <2>3, <2>4, <2>6, <2>7, PutKeeps, HandlerStep
  <2>9. TypeOK'
    <3>1. /\ conf' \in [Objects -> Config] /\ owner' \in [Listens -> Objects \cup {None}]
          /\ used' \subseteq Objects /\ proxies' \in [Names -> used' \cup {None}]
      BY <2>2, <2>3, PutKeeps
    <3> QED
      BY <2>4, <2>7, <2>8, <3>1 DEF IndInv, TypeOK, Becomes
  <2> QED
    BY <2>2, <2>3, <2>8, <2>9, PutKeeps DEF IndInv
<1>7. CASE EntryFails(h) \/ PopulateDone(h)
  <2>1. Becomes(h, Idle) /\ (lock' = None \/ lock' = lock)
    BY <1>1, <1>7, BeginOrGo DEF EntryFails, PopulateDone
  <2> QED
    BY <1>1, <1>7, <2>1, NowIdle, ReadingStep DEF EntryFails, PopulateDone, TypeOK
<1> QED
  BY <1>3, <1>4, <1>5, <1>6, <1>7

\* ProxyDelete and Clear.
LEMMA RemoveStep ==
    ASSUME IndInv, NEW h \in Handlers,
           (\E S \in SUBSET Names : Remove(h, S)) \/ (\E n \in Names : RemoveOne(h, n))
    PROVE  IndInv'
<1>1. TypeOK /\ req[h] \in ReqType
  BY DEF IndInv, TypeOK
<1>2. ASSUME NEW S \in SUBSET Names, NEW r, r = [pc |-> "remove", todo |-> S], Becomes(h, r)
      PROVE  r \in ReqType /\ Refers(h)' /\ Holds(h)'
  <2>1. req'[h] = r
    BY <1>2 DEF Becomes, IndInv, TypeOK
  <2>2. r \in RemoveReq
    BY <1>2 DEF RemoveReq
  <2> QED
    BY <1>2, <2>1, <2>2, RequestTypes DEF Refers, Holds, UpdatePcs
<1>3. ASSUME NEW S \in SUBSET Names, Remove(h, S)
      PROVE  IndInv'
  <2>1. Becomes(h, [pc |-> "remove", todo |-> S]) /\ lock' = h
    BY <1>1, <1>3, BeginOrGo DEF Remove
  <2>2. [pc |-> "remove", todo |-> S] \in ReqType /\ Refers(h)' /\ Holds(h)'
    BY <1>2, <2>1
  <2> QED
    BY <1>1, <1>3, <2>1, <2>2, ReadingStep DEF Remove, TypeOK
<1>4. ASSUME NEW n \in Names, RemoveOne(h, n)
      PROVE  IndInv'
  <2> DEFINE rest == req[h].todo \ {n}
             p == proxies[n]
  <2>1. req[h] \in RemoveReq
    BY <1>1, <1>4, RequestAt DEF RemoveOne
  <2>2. \E r \in ReqType : Becomes(h, r) /\ Refers(h)' /\ Holds(h)'
    <3>1. CASE rest = {}
      <4>1. Becomes(h, Idle)
        BY <1>1, <1>4, <3>1, BeginOrGo DEF RemoveOne
      <4> QED
        BY <4>1, NowIdle
    <3>2. CASE rest # {}
      <4>1. Becomes(h, [req[h] EXCEPT !.todo = rest])
        BY <1>1, <1>4, <3>2, BeginOrGo DEF RemoveOne
      <4>2. [req[h] EXCEPT !.todo = rest] = [pc |-> "remove", todo |-> rest]
        BY <2>1 DEF RemoveReq
      <4>3. rest \in SUBSET Names
        BY <2>1 DEF RemoveReq
      <4> QED
        BY <1>2, <4>1, <4>2, <4>3
    <3> QED
      BY <3>1, <3>2
  <2>3. PICK r \in ReqType : Becomes(h, r) /\ Refers(h)' /\ Holds(h)'
    BY <2>2
  <2>4. /\ held[p] = None /\ Stop(p) /\ UNCHANGED <<used, held, toxic>>
        /\ proxies' = [proxies EXCEPT ![n] = None] /\ lock' \in {None, lock}
    BY <1>4 DEF RemoveOne
  <2>5. p \in Objects \cup {None}
    BY <1>1 DEF TypeOK
  <2> HIDE DEF p
  <2>6. /\ conf' \in [Objects -> Config] /\ owner' \in [Listens -> Objects \cup {None}]
        /\ PortsFollowProxies' /\ \A q \in Objects \ {p} : conf'[q] = conf[q]
        /\ p \in Objects => ~conf'[p].enabled
    BY <1>1, <2>4, <2>5, StopPorts DEF IndInv
  <2>7. req' \in [Handlers -> ReqType] /\ \A k \in Handlers : Refers(k)' /\ Holds(k)'
    BY <2>3, <2>4, <2>6, HandlerStep
  <2>8. TypeOK' /\ Unstarted'
    BY <2>3, <2>4, <2>6, <2>7 DEF IndInv, TypeOK, Becomes, Unstarted
  <2> QED
    BY <2>6, <2>7, <2>8 DEF IndInv
<1> QED
  BY <1>3, <1>4

\* ProxyUpdate and Proxy.Update.
LEMMA UpdateStep ==
    ASSUME IndInv, NEW h \in Handlers,
           \/ \E n \in Names, patch \in Patches : ProxyUpdate(h, n, patch)
           \/ ReadField(h) \/ UpdateBegins(h) \/ UpdateMoves(h) \/ UpdateEnds(h)
    PROVE  IndInv'
<1> DEFINE x == req[h]
           p == req[h].proxy
<1>1. TypeOK /\ x \in ReqType /\ Refers(h) /\ Holds(h) /\ None \notin Handlers
  BY ApiAssumption DEF IndInv, TypeOK
<1>2. ASSUME x.pc \in UpdatePcs
      PROVE  /\ x \in UpdateReq /\ p \in Objects /\ p \in used
             /\ x.input \in Config /\ x.given \in Patch
  BY <1>1, <1>2, RequestAt DEF UpdateReq, Refers
<1>3. ASSUME NEW n \in Names, NEW patch \in Patches, ProxyUpdate(h, n, patch)
      PROVE  IndInv'
  <2> DEFINE r == [pc |-> "listen", proxy |-> proxies[n], given |-> patch, input |-> conf[proxies[n]]]
  <2>1. Becomes(h, r) /\ proxies[n] # None
    BY <1>1, <1>3, BeginOrGo DEF ProxyUpdate
  <2>2. proxies[n] \in used /\ proxies[n] \in Objects /\ patch \in Patch
    BY <1>1, <2>1, ApiAssumption DEF TypeOK
  <2>3. r \in UpdateReq
    BY <1>1, <2>2 DEF UpdateReq, UpdatePcs, TypeOK
  <2>4. req'[h] = r
    BY <1>1, <2>1 DEF Becomes, TypeOK
  <2>5. Refers(h)' /\ Holds(h)'
    <3>1. req'[h].pc = "listen" /\ req'[h].proxy = proxies[n] /\ used' = used
      BY <1>3, <2>4 DEF ProxyUpdate
    <3> QED
      BY <2>2, <3>1 DEF Refers, Holds
  <2> QED
    BY <1>1, <1>3, <2>1, <2>3, <2>5, RequestTypes, ReadingStep DEF ProxyUpdate, TypeOK
<1>4. CASE ReadField(h)
  <2> DEFINE f == x.pc
             v == Read(x, f)
             q == CASE f = "listen" -> "upstream"
                    [] f = "upstream" -> "enabled"
                    [] f = "enabled" -> "update"
             r == [x EXCEPT !.input = [@ EXCEPT ![f] = v], !.pc = q]
  <2>1. Becomes(h, r)
    BY <1>1, <1>4, BeginOrGo DEF ReadField
  <2>2. f \in {"listen", "upstream", "enabled"} /\ f \in UpdatePcs
    BY <1>4 DEF ReadField, UpdatePcs
  <2>3. x \in UpdateReq /\ p \in Objects /\ p \in used /\ x.input \in Config /\ x.given \in Patch
    BY <1>2, <2>2
  <2>4. [x.input EXCEPT ![f] = v] \in Config
    <3>1. conf[p] \in Config
      BY <1>1, <2>3 DEF TypeOK
    <3>2. CASE f = "listen"
      BY <2>3, <3>1, <3>2 DEF Read, Config, Patch
    <3>3. CASE f = "upstream"
      BY <2>3, <3>1, <3>3 DEF Read, Config, Patch
    <3>4. CASE f = "enabled"
      BY <2>3, <3>1, <3>4 DEF Read, Config, Patch
    <3> QED
      BY <2>2, <3>2, <3>3, <3>4
  <2>5. q \in {"upstream", "enabled", "update"}
    BY <2>2
  <2> HIDE DEF v, q
  <2>6. r \in UpdateReq /\ r.pc = q /\ r.proxy = p
    BY <2>3, <2>4, <2>5 DEF UpdateReq, UpdatePcs
  <2>7. req'[h] = r
    BY <1>1, <2>1 DEF Becomes, TypeOK
  <2> HIDE DEF r
  <2>8. Refers(h)' /\ Holds(h)'
    <3>1. req'[h].pc = q /\ req'[h].proxy = p /\ used' = used
      BY <1>4, <2>6, <2>7 DEF ReadField
    <3> QED
      BY <2>3, <2>5, <3>1 DEF Refers, Holds
  <2> QED
    BY <1>1, <1>4, <2>1, <2>6, <2>8, RequestTypes, ReadingStep DEF ReadField, TypeOK
<1>5. ASSUME NEW pc \in {"move", "enable"}, x.pc \in UpdatePcs, Becomes(h, [x EXCEPT !.pc = pc])
      PROVE  /\ [x EXCEPT !.pc = pc] \in ReqType
             /\ req'[h].pc = pc /\ req'[h].proxy = p /\ req'[h].input = x.input
  <2>1. [x EXCEPT !.pc = pc] \in UpdateReq
    BY <1>2, <1>5 DEF UpdateReq, UpdatePcs
  <2>2. req'[h] = [x EXCEPT !.pc = pc]
    BY <1>1, <1>5 DEF Becomes, TypeOK
  <2> QED
    BY <1>2, <1>5, <2>1, <2>2, RequestTypes DEF UpdateReq
<1>6. CASE UpdateBegins(h)
  <2>1. /\ x.pc \in UpdatePcs /\ held[p] = None /\ held' = [held EXCEPT ![p] = h]
        /\ UNCHANGED <<used, proxies, lock, toxic>>
    BY <1>6 DEF UpdateBegins, UpdatePcs
  <2>2. Becomes(h, [x EXCEPT !.pc = "move"])
    BY <1>1, <1>6, BeginOrGo DEF UpdateBegins
  <2>3. /\ conf' \in [Objects -> Config] /\ owner' \in [Listens -> Objects \cup {None}]
        /\ PortsFollowProxies' /\ \A q \in Objects \ {p} : conf'[q] = conf[q]
        /\ ~conf'[p].enabled \/ conf'[p].listen = x.input.listen
    <3>1. CASE Moved(p, x.input)
      <4>1. Stop(p)
        BY <1>6, <3>1 DEF UpdateBegins
      <4> QED
        BY <1>1, <1>2, <2>1, <4>1, StopPorts DEF IndInv
    <3>2. CASE ~Moved(p, x.input)
      <4>1. UNCHANGED <<conf, owner>>
        BY <1>6, <3>2 DEF UpdateBegins
      <4> QED
        BY <1>1, <3>2, <4>1 DEF IndInv, TypeOK, PortsFollowProxies, Moved
    <3> QED
      BY <3>1, <3>2
  <2>4. held' \in [Objects -> Handlers \cup {None}] /\ held'[p] = h
        /\ \A q \in Objects \ {p} : held'[q] = held[q]
    BY <1>1, <1>2, <2>1 DEF TypeOK
  <2>5. Refers(h)' /\ Holds(h)'
    BY <1>2, <1>5, <2>1, <2>2, <2>3, <2>4 DEF Refers, Holds
  <2>6. req' \in [Handlers -> ReqType] /\ \A k \in Handlers : Refers(k)' /\ Holds(k)'
    BY <1>5, <2>1, <2>2, <2>3, <2>4, <2>5, HandlerStep
  <2>7. TypeOK' /\ Unstarted'
    BY <1>2, <2>1, <2>2, <2>3, <2>4, <2>6 DEF IndInv, TypeOK, Becomes, Unstarted
  <2> QED
    BY <2>3, <2>6, <2>7 DEF IndInv
<1>7. CASE UpdateMoves(h)
  <2>1. x.pc = "move" /\ x.pc \in UpdatePcs /\ UNCHANGED <<used, proxies, lock, held, owner, toxic>>
    BY <1>7 DEF UpdateMoves, UpdatePcs
  <2>2. Becomes(h, [x EXCEPT !.pc = "enable"])
    BY <1>1, <1>7, BeginOrGo DEF UpdateMoves
  <2>3. /\ conf' \in [Objects -> Config] /\ \A q \in Objects \ {p} : conf'[q] = conf[q]
        /\ conf'[p].enabled = conf[p].enabled /\ conf'[p].listen = x.input.listen
        /\ conf'[p].upstream = x.input.upstream
    BY <1>1, <1>2, <1>7, <2>1 DEF UpdateMoves, TypeOK, Config
  <2>4. held[p] = h /\ (~conf[p].enabled \/ conf[p].listen = x.input.listen)
    BY <1>1, <2>1 DEF Holds
  <2>5. PortsFollowProxies'
    BY <1>2, <2>1, <2>3, <2>4 DEF IndInv, PortsFollowProxies
  <2>6. Refers(h)' /\ Holds(h)'
    BY <1>2, <1>5, <2>1, <2>2, <2>3, <2>4 DEF Refers, Holds
  <2>7. req' \in [Handlers -> ReqType] /\ \A k \in Handlers : Refers(k)' /\ Holds(k)'
    BY <1>5, <2>1, <2>2, <2>3, <2>4, <2>6, HandlerStep
  <2>8. TypeOK' /\ Unstarted'
    BY <1>2, <2>1, <2>2, <2>3, <2>7 DEF IndInv, TypeOK, Becomes, Unstarted
  <2> QED
    BY <2>5, <2>7, <2>8 DEF IndInv
<1>8. CASE UpdateEnds(h)
  <2>1. /\ x.pc = "enable" /\ x.pc \in UpdatePcs /\ held' = [held EXCEPT ![p] = None]
        /\ UNCHANGED <<used, proxies, lock, toxic>>
    BY <1>8 DEF UpdateEnds, UpdatePcs
  <2>2. Becomes(h, Idle) /\ held[p] = h
    BY <1>1, <1>8, <2>1, BeginOrGo DEF UpdateEnds, Holds
  <2>3. /\ conf' \in [Objects -> Config] /\ owner' \in [Listens -> Objects \cup {None}]
        /\ PortsFollowProxies' /\ \A q \in Objects \ {p} : conf'[q] = conf[q]
    <3>1. CASE Stop(p)
      BY <1>1, <1>2, <2>1, <3>1, StopPorts DEF IndInv
    <3>2. CASE ~conf[p].enabled /\ CanListen(conf[p].listen) /\ Started(p, conf[p])
      <4>1. conf[p] \in Config
        BY <1>1, <1>2, <2>1 DEF TypeOK
      <4> QED
        BY <1>1, <1>2, <2>1, <3>2, <4>1, StartedPorts DEF IndInv
    <3>3. CASE UNCHANGED <<conf, owner>>
      BY <3>3 DEF IndInv, TypeOK, PortsFollowProxies
    <3> QED
      BY <1>8, <3>1, <3>2, <3>3 DEF UpdateEnds
  <2>4. Idle \in ReqType /\ Refers(h)' /\ Holds(h)'
    BY <2>2, NowIdle
  <2>5. held' \in [Objects -> Handlers \cup {None}] /\ \A q \in Objects \ {p} : held'[q] = held[q]
    BY <1>1, <1>2, <2>1 DEF TypeOK
  <2>6. req' \in [Handlers -> ReqType] /\ \A k \in Handlers : Refers(k)' /\ Holds(k)'
    BY <2>1, <2>2, <2>3, <2>4, <2>5, HandlerStep
  <2>7. TypeOK' /\ Unstarted'
    BY <1>2, <2>1, <2>2, <2>3, <2>5, <2>6 DEF IndInv, TypeOK, Becomes, Unstarted
  <2> QED
    BY <2>3, <2>6, <2>7 DEF IndInv
<1> QED
  BY <1>3, <1>4, <1>6, <1>7, <1>8

\* ResetState.
LEMMA ResetStep ==
    ASSUME IndInv, NEW h \in Handlers,
           \/ ResetState(h) \/ ResetToxics(h) \/ ResetDone(h)
           \/ \E p \in Objects : ResetStarts(h, p) \/ ResetFails(h, p)
    PROVE  IndInv'
<1> DEFINE x == req[h]
<1>1. TypeOK /\ x \in ReqType /\ Refers(h)
  BY DEF IndInv, TypeOK
<1>2. ASSUME NEW T \in SUBSET used, used' = used, Becomes(h, [pc |-> "reset", todo |-> T])
      PROVE  [pc |-> "reset", todo |-> T] \in ReqType /\ Refers(h)' /\ Holds(h)'
  <2>1. req'[h] = [pc |-> "reset", todo |-> T]
    BY <1>1, <1>2 DEF Becomes, TypeOK
  <2>2. [pc |-> "reset", todo |-> T] \in ResetReq
    BY <1>1 DEF ResetReq, TypeOK
  <2> QED
    BY <1>2, <2>1, <2>2, RequestTypes DEF Refers, Holds, UpdatePcs
<1>3. CASE ResetState(h)
  <2>1. Becomes(h, [pc |-> "reset", todo |-> Registered])
    BY <1>1, <1>3, BeginOrGo DEF ResetState
  <2>2. Registered \in SUBSET used
    BY <1>1 DEF Registered, TypeOK
  <2> QED
    BY <1>1, <1>2, <1>3, <2>1, <2>2, ReadingStep DEF ResetState, TypeOK
<1>4. CASE ResetToxics(h)
  <2>1. Becomes(h, [pc |-> "reset", todo |-> x.todo])
    BY <1>1, <1>4, BeginOrGo DEF ResetToxics
  <2>2. x.todo \in SUBSET used /\ used' = used
    BY <1>1, <1>4 DEF ResetToxics, Refers
  <2> QED
    BY <1>1, <1>2, <1>4, <2>1, <2>2, ReadingStep DEF ResetToxics, TypeOK
<1>5. CASE ResetDone(h)
  <2>1. Becomes(h, Idle)
    BY <1>1, <1>5, BeginOrGo DEF ResetDone
  <2> QED
    BY <1>1, <1>5, <2>1, NowIdle, ReadingStep DEF ResetDone, TypeOK
<1>6. ASSUME NEW p \in Objects, ResetFails(h, p)
      PROVE  IndInv'
  <2>1. Becomes(h, Idle)
    BY <1>1, <1>6, BeginOrGo DEF ResetFails
  <2> QED
    BY <1>1, <1>6, <2>1, NowIdle, ReadingStep DEF ResetFails, TypeOK
<1>7. ASSUME NEW p \in Objects, ResetStarts(h, p)
      PROVE  IndInv'
  <2> DEFINE r == [pc |-> "toxics", todo |-> x.todo \ {p}, proxy |-> p]
  <2>1. /\ x.pc = "reset" /\ p \in x.todo /\ held[p] = None
        /\ UNCHANGED <<used, proxies, lock, held, toxic>>
    BY <1>7 DEF ResetStarts
  <2>2. Becomes(h, r)
    BY <1>1, <1>7, BeginOrGo DEF ResetStarts
  <2>3. x.todo \subseteq used /\ p \in used /\ used \subseteq Objects
    BY <1>1, <2>1 DEF Refers, TypeOK
  <2>4. r \in ToxicsReq
    BY <2>3 DEF ToxicsReq
  <2>5. req'[h] = r
    BY <1>1, <2>2 DEF Becomes, TypeOK
  <2>6. Refers(h)' /\ Holds(h)'
    BY <2>1, <2>3, <2>5 DEF Refers, Holds, UpdatePcs
  <2> HIDE DEF r
  <2>7. /\ conf' \in [Objects -> Config] /\ owner' \in [Listens -> Objects \cup {None}]
        /\ PortsFollowProxies' /\ \A q \in Objects \ {p} : conf'[q] = conf[q]
    <3>1. CASE ~conf[p].enabled /\ CanListen(conf[p].listen) /\ Started(p, conf[p])
      <4>1. conf[p] \in Config
        BY <1>1 DEF TypeOK
      <4> QED
        BY <1>1, <3>1, <4>1, StartedPorts DEF IndInv
    <3>2. CASE UNCHANGED <<conf, owner>>
      BY <3>2 DEF IndInv, TypeOK, PortsFollowProxies
    <3> QED
      BY <1>7, <3>1, <3>2 DEF ResetStarts
  <2>8. req' \in [Handlers -> ReqType] /\ \A k \in Handlers : Refers(k)' /\ Holds(k)'
    BY <2>1, <2>2, <2>4, <2>6, <2>7, RequestTypes, HandlerStep
  <2>9. TypeOK' /\ Unstarted'
    BY <2>1, <2>2, <2>3, <2>7, <2>8 DEF IndInv, TypeOK, Becomes, Unstarted
  <2> QED
    BY <2>7, <2>8, <2>9 DEF IndInv
<1> QED
  BY <1>3, <1>4, <1>5, <1>6, <1>7

\* ToxicCreate and ToxicDelete.
LEMMA ToxicStep ==
    ASSUME IndInv, NEW h \in Handlers,
           \/ ToxicAnswer(h)
           \/ \E n \in Names, pc \in {"addToxic", "removeToxic"} : ToxicRequest(h, n, pc)
    PROVE  IndInv'
<1>1. TypeOK /\ req[h] \in ReqType
  BY DEF IndInv, TypeOK
<1>2. CASE ToxicAnswer(h)
  <2>1. Becomes(h, Idle)
    BY <1>1, <1>2, BeginOrGo DEF ToxicAnswer
  <2>2. req[h].proxy \in Objects
    BY <1>1, <1>2, RequestAt DEF ToxicAnswer, ToxicReq
  <2>3. toxic' \subseteq Objects /\ lock' \in Handlers \cup {None}
    BY <1>1, <1>2, <2>2 DEF ToxicAnswer, TypeOK
  <2> QED
    BY <1>1, <1>2, <2>1, <2>3, NowIdle, ReadingStep DEF ToxicAnswer
<1>3. ASSUME NEW n \in Names, NEW pc \in {"addToxic", "removeToxic"}, ToxicRequest(h, n, pc)
      PROVE  IndInv'
  <2> DEFINE r == [pc |-> pc, proxy |-> proxies[n]]
  <2>1. Becomes(h, r) /\ proxies[n] # None
    BY <1>1, <1>3, BeginOrGo DEF ToxicRequest
  <2>2. r \in ToxicReq
    BY <1>1, <2>1 DEF ToxicReq, TypeOK
  <2>3. req'[h] = r
    BY <1>1, <2>1 DEF Becomes, TypeOK
  <2>4. Refers(h)' /\ Holds(h)'
    BY <2>3 DEF Refers, Holds, UpdatePcs
  <2> QED
    BY <1>1, <1>3, <2>1, <2>2, <2>4, RequestTypes, ReadingStep DEF ToxicRequest, TypeOK
<1> QED
  BY <1>2, <1>3

\* Types, mutexes and ports, in step with every handler: the inductive
\* invariant for handlers that interleave.
THEOREM Consistent == Spec => []IndInv
<1>1. Init => IndInv
  <2> SUFFICES ASSUME Init
               PROVE  IndInv
    OBVIOUS
  <2> DEFINE c0 == CHOOSE c \in Config : ~c.enabled
  <2>1. c0 \in Config /\ ~c0.enabled
    <3>1. PICK n \in Names, l \in Listens, u \in Upstreams : TRUE
      BY ApiAssumption
    <3>2. /\ [name |-> n, listen |-> l, upstream |-> u, enabled |-> FALSE] \in Config
          /\ ~[name |-> n, listen |-> l, upstream |-> u, enabled |-> FALSE].enabled
      BY DEF Config
    <3> QED
      BY <3>2
  <2>2. conf = [p \in Objects |-> c0]
    BY DEF Init
  <2> HIDE DEF c0
  <2>3. TypeOK
    <3>1. conf \in [Objects -> Config] /\ req \in [Handlers -> ReqType]
      BY <2>1, <2>2, RequestTypes DEF Init
    <3>2. /\ proxies \in [Names -> used \cup {None}]
          /\ held \in [Objects -> Handlers \cup {None}]
          /\ owner \in [Listens -> Objects \cup {None}]
      BY DEF Init
    <3>3. nreq \in 0..MaxRequests
      BY ApiAssumption DEF Init
    <3> QED
      BY <3>1, <3>2, <3>3 DEF Init, TypeOK
  <2>4. Unstarted /\ PortsFollowProxies
    BY <2>1, <2>2, ApiAssumption DEF Init, Unstarted, PortsFollowProxies
  <2>5. \A h \in Handlers : Refers(h) /\ Holds(h)
    BY DEF Init, Refers, Holds, Idle, UpdatePcs
  <2> QED
    BY <2>3, <2>4, <2>5 DEF IndInv
<1>2. IndInv /\ [Next]_vars => IndInv'
  <2> SUFFICES ASSUME IndInv, [Next]_vars
               PROVE  IndInv'
    OBVIOUS
  <2>1. ASSUME NEW h \in Handlers, Requests(h)
        PROVE  IndInv'
    BY <2>1, CreateStep, PopulateStep, RemoveStep, UpdateStep, ResetStep, ToxicStep DEF Requests
  <2>2. ASSUME NEW h \in Handlers, Continues(h)
        PROVE  IndInv'
    BY <2>2, PopulateStep, RemoveStep, UpdateStep, ResetStep, ToxicStep DEF Continues
  <2>3. CASE UNCHANGED vars
    BY <2>3 DEF vars, IndInv, TypeOK, Unstarted, PortsFollowProxies, Refers, Holds
  <2> QED
    BY <2>1, <2>2, <2>3 DEF Next
<1> QED
  BY <1>1, <1>2, PTL DEF Spec

\* Every variable keeps its type.
THEOREM TypeCorrect == Spec => []TypeOK
<1>1. IndInv => TypeOK
  BY DEF IndInv
<1> QED
  BY <1>1, Consistent, PTL

\* However the requests interleave, an address is taken exactly by the enabled
\* proxy whose Listen names it: no update, replacement, removal or reset leaves
\* a listener behind or takes one away.
THEOREM PortsAlwaysFollowProxies == Spec => []PortsFollowProxies
<1>1. IndInv => PortsFollowProxies
  BY DEF IndInv
<1> QED
  BY <1>1, Consistent, PTL
-----------------------------------------------------------------------------
(* One request at a time *)

\* Handler h takes a step of its request and is then at r.
Steps(h, r) == Begin(h, r) \/ (req[h].pc # "idle" /\ Go(h, r))

\* Every proxy that listens is in the collection.
AllRegistered == \A p \in Objects : conf[p].enabled => p \in Registered

\* While requests do not overlap, the handler that steps is the only one busy.
LEMMA OnlyOne ==
    ASSUME SeqInv, NEW h \in Handlers, NEW r, Steps(h, r), ~overlap'
    PROVE  /\ ~overlap /\ AllRegistered /\ Alone(h)
           /\ req'[h] = r /\ \A k \in Handlers \ {h} : req'[k] = Idle
<1>1. req \in [Handlers -> ReqType] /\ overlap \in BOOLEAN
  BY DEF SeqInv, IndInv, TypeOK
<1>2. req'[h] = r /\ \A k \in Handlers \ {h} : req'[k] = req[k]
  BY <1>1 DEF Steps, Begin, Go
<1>3. CASE Begin(h, r)
  <2>1. ~overlap /\ \A k \in Handlers : req[k] = Idle
    BY <1>3, Zenon DEF Begin
  <2> QED
    BY <1>2, <2>1 DEF SeqInv, Sequential, AllRegistered
<1>4. CASE req[h].pc # "idle" /\ Go(h, r)
  <2>1. req[h] # Idle /\ ~overlap
    BY <1>1, <1>4, RequestAt DEF Go
  <2> QED
    BY <1>2, <2>1 DEF SeqInv, Sequential, AllRegistered
<1> QED
  BY <1>3, <1>4 DEF Steps

\* So a step keeps Sequential if its own handler finds what it relies on.
LEMMA AloneStep ==
    ASSUME SeqInv, NEW h \in Handlers, NEW r, Steps(h, r),
           ~overlap' => AllRegistered' /\ Alone(h)'
    PROVE  Sequential'
<1> SUFFICES ASSUME ~overlap'
             PROVE  /\ \A j, k \in Handlers : req'[j] # Idle /\ req'[k] # Idle => j = k
                    /\ AllRegistered' /\ \A k \in Handlers : Alone(k)'
  BY DEF Sequential, AllRegistered
<1>1. \A k \in Handlers \ {h} : req'[k] = Idle
  BY OnlyOne
<1>2. ASSUME NEW k \in Handlers \ {h}
      PROVE  Alone(k)'
  <2>1. req'[k].pc = "idle"
    BY <1>1 DEF Idle
  <2> QED
    BY <2>1 DEF Alone, UpdatePcs
<1> QED
  BY <1>1, <1>2

\* A handler at one of these places relies on nothing.
LEMMA Carefree ==
    ASSUME NEW h, req'[h].pc \in {"idle", "entry", "replace", "remove", "addToxic", "removeToxic"}
    PROVE  Alone(h)'
BY DEF Alone, UpdatePcs

\* Steps that change no proxy and end at such a place.
LEMMA CarefreeStep ==
    ASSUME SeqInv, NEW h \in Handlers, NEW r, Steps(h, r),
           r.pc \in {"idle", "entry", "replace", "remove", "addToxic", "removeToxic"},
           UNCHANGED <<conf, proxies>>
    PROVE  Sequential'
<1> SUFFICES ASSUME ~overlap'
             PROVE  AllRegistered' /\ Alone(h)'
  BY AloneStep
<1>1. AllRegistered /\ req'[h] = r
  BY OnlyOne
<1>2. Alone(h)'
  BY <1>1, Carefree
<1>3. AllRegistered'
  BY <1>1 DEF AllRegistered, Registered
<1> QED
  BY <1>2, <1>3

\* A new proxy takes the name of none, or of one that is stopped.
LEMMA PutRegisters ==
    ASSUME IndInv, AllRegistered, NEW c \in Config, Put(NewProxy, c),
           c.enabled => CanListen(c.listen),
           proxies[c.name] = None \/ ~conf[proxies[c.name]].enabled
    PROVE  AllRegistered'
<1> DEFINE p == NewProxy
<1>1. p \in Objects \ used /\ used \subseteq Objects /\ proxies \in [Names -> used \cup {None}]
  BY FreshProxy DEF Put, IndInv, TypeOK
<1>2. proxies' = [proxies EXCEPT ![c.name] = p] /\ c.name \in Names
  BY DEF Put, Config
<1>3. \A q \in Objects \ {p} : conf'[q] = conf[q]
  BY DEF Put, Started, IndInv, TypeOK
<1> HIDE DEF p
<1>4. p # None
  BY <1>1, ApiAssumption
<1>5. p \in Registered'
  BY <1>1, <1>2, <1>4 DEF Registered
<1>6. ASSUME NEW q \in Objects \ {p}, conf'[q].enabled
      PROVE  q \in Registered'
  <2>1. conf[q].enabled
    BY <1>3, <1>6
  <2>2. PICK n \in Names : proxies[n] = q /\ q # None
    BY <2>1 DEF AllRegistered, Registered
  <2>3. n # c.name
    BY <2>1, <2>2
  <2>4. proxies'[n] = q
    BY <1>1, <1>2, <2>2, <2>3
  <2> QED
    BY <2>2, <2>4 DEF Registered
<1> QED
  BY <1>5, <1>6 DEF AllRegistered

\* ProxyCreate, Populate and AddOrReplace.
LEMMA AddSequential ==
    ASSUME SeqInv, NEW h \in Handlers,
           \/ \E c \in Config : ProxyCreate(h, c)
           \/ \E list \in Populations : Populate(h, list)
           \/ NextEntry(h) \/ Replace(h) \/ EntryAdded(h) \/ EntryFails(h) \/ PopulateDone(h)
    PROVE  Sequential'
<1>1. IndInv /\ TypeOK /\ req[h] \in ReqType /\ Refers(h)
  BY DEF SeqInv, IndInv, TypeOK
<1>2. ASSUME NEW c \in Config, ProxyCreate(h, c)
      PROVE  Sequential'
  <2>1. Steps(h, Idle) /\ Put(NewProxy, c) /\ (c.enabled => CanListen(c.listen)) /\ proxies[c.name] = None
    BY <1>2 DEF ProxyCreate, Steps
  <2> SUFFICES ASSUME ~overlap'
               PROVE  AllRegistered' /\ Alone(h)'
    BY <2>1, AloneStep
  <2>2. AllRegistered /\ req'[h] = Idle
    BY <2>1, OnlyOne
  <2>3. Alone(h)'
    BY <2>2, Carefree DEF Idle
  <2> QED
    BY <1>1, <2>1, <2>2, <2>3, PutRegisters
<1>3. ASSUME NEW list \in Populations, Populate(h, list)
      PROVE  Sequential'
  BY <1>3, CarefreeStep DEF Populate, Steps
<1>4. CASE NextEntry(h)
  <2> DEFINE c == Head(req[h].todo)
             old == proxies[c.name]
             same == old # None /\ conf[old].listen = c.listen /\ conf[old].upstream = c.upstream
  <2>1. req[h].pc = "entry" /\ req[h] \in EntryReq /\ UNCHANGED <<conf, proxies>>
    BY <1>1, <1>4, RequestAt DEF NextEntry
  <2>2. CASE same
    <3>1. Steps(h, [req[h] EXCEPT !.todo = Tail(@)])
      BY <1>4, <2>1, <2>2 DEF NextEntry, Steps
    <3>2. [req[h] EXCEPT !.todo = Tail(@)].pc = "entry"
      BY <2>1 DEF EntryReq
    <3> QED
      BY <2>1, <3>1, <3>2, CarefreeStep
  <2>3. CASE ~same
    <3> DEFINE r == [req[h] EXCEPT !.pc = IF old = None THEN "start" ELSE "replace"]
    <3>1. Steps(h, r)
      BY <1>4, <2>1, <2>3 DEF NextEntry, Steps
    <3>2. r.pc = IF old = None THEN "start" ELSE "replace"
      BY <2>1 DEF EntryReq
    <3>3. r.todo = req[h].todo
      BY <2>1 DEF EntryReq
    <3> HIDE DEF r
    <3>4. CASE old # None
      BY <2>1, <3>1, <3>2, <3>4, CarefreeStep
    <3>5. CASE old = None
      <4> SUFFICES ASSUME ~overlap'
                   PROVE  AllRegistered' /\ Alone(h)'
        BY <3>1, AloneStep
      <4>1. AllRegistered /\ req'[h] = r
        BY <3>1, OnlyOne
      <4>2. AllRegistered'
        BY <2>1, <4>1 DEF AllRegistered, Registered
      <4>3. req'[h].pc = "start" /\ proxies'[Head(req'[h].todo).name] = None
        BY <2>1, <3>2, <3>3, <3>5, <4>1
      <4>4. Alone(h)'
        BY <4>3 DEF Alone, UpdatePcs
      <4> QED
        BY <4>2, <4>4
    <3> QED
      BY <3>4, <3>5
  <2> QED
    BY <2>2, <2>3
<1>5. CASE Replace(h)
  <2> DEFINE r == [req[h] EXCEPT !.pc = "start"]
             old == proxies[Head(req[h].todo).name]
  <2>1. req[h].pc = "replace" /\ req[h] \in EntryReq /\ req[h].todo # <<>> /\ Stop(old)
        /\ proxies' = proxies /\ Steps(h, r)
    BY <1>1, <1>5, RequestAt DEF Replace, Refers, Steps
  <2>2. r.pc = "start" /\ r.todo = req[h].todo
    BY <2>1 DEF EntryReq
  <2>3. Head(req[h].todo) \in Config
    BY <2>1 DEF EntryReq
  <2>4. old \in Objects \cup {None}
    BY <1>1, <2>3 DEF TypeOK, Config
  <2> HIDE DEF r
  <2> SUFFICES ASSUME ~overlap'
               PROVE  AllRegistered' /\ Alone(h)'
    BY <2>1, AloneStep
  <2>5. AllRegistered /\ req'[h] = r
    BY <2>1, OnlyOne
  <2>6. /\ \A q \in Objects \ {old} : conf'[q] = conf[q]
        /\ old \in Objects => ~conf'[old].enabled
    <3> HIDE DEF old
    <3> QED
      BY <1>1, <2>1, <2>4, StopPorts DEF IndInv
  <2>7. AllRegistered'
    BY <2>1, <2>5, <2>6 DEF AllRegistered, Registered
  <2>8. req'[h].pc = "start" /\ proxies'[Head(req'[h].todo).name] = old
    BY <2>1, <2>2, <2>5
  <2>9. Alone(h)'
    BY <2>4, <2>6, <2>8 DEF Alone, UpdatePcs
  <2> QED
    BY <2>7, <2>9
<1>6. CASE EntryAdded(h)
  <2> DEFINE c == Head(req[h].todo)
             r == [pc |-> "entry", todo |-> Tail(req[h].todo)]
  <2>1. req[h].pc = "start" /\ req[h] \in EntryReq /\ req[h].todo # <<>> /\ Steps(h, r)
        /\ Put(NewProxy, c) /\ (c.enabled => CanListen(c.listen))
    BY <1>1, <1>6, RequestAt DEF EntryAdded, Refers, Steps
  <2>2. c \in Config
    BY <2>1 DEF EntryReq
  <2> SUFFICES ASSUME ~overlap'
               PROVE  AllRegistered' /\ Alone(h)'
    BY <2>1, AloneStep
  <2>3. AllRegistered /\ req'[h] = r /\ Alone(h)
    BY <2>1, OnlyOne
  <2>4. proxies[c.name] = None \/ ~conf[proxies[c.name]].enabled
    BY <2>1, <2>3 DEF Alone
  <2>5. Alone(h)'
    BY <2>3, Carefree
  <2> HIDE DEF c, r
  <2> QED
    BY <1>1, <2>1, <2>2, <2>3, <2>4, <2>5, PutRegisters
<1>7. CASE EntryFails(h) \/ PopulateDone(h)
  BY <1>7, CarefreeStep DEF EntryFails, PopulateDone, Steps, Idle
<1> QED
  BY <1>2, <1>3, <1>4, <1>5, <1>6, <1>7

\* ProxyDelete and Clear.
LEMMA RemoveSequential ==
    ASSUME SeqInv, NEW h \in Handlers,
           \/ \E S \in SUBSET Names : Remove(h, S)
           \/ \E n \in Names : RemoveOne(h, n)
    PROVE  Sequential'
<1>1. IndInv /\ TypeOK /\ req[h] \in ReqType
  BY DEF SeqInv, IndInv, TypeOK
<1>2. ASSUME NEW S \in SUBSET Names, Remove(h, S)
      PROVE  Sequential'
  BY <1>2, CarefreeStep DEF Remove, Steps
<1>3. ASSUME NEW n \in Names, RemoveOne(h, n)
      PROVE  Sequential'
  <2> DEFINE old == proxies[n]
  <2>1. req[h].pc = "remove" /\ Stop(old) /\ proxies' = [proxies EXCEPT ![n] = None]
    BY <1>3 DEF RemoveOne
  <2>2. PICK r : Steps(h, r) /\ r.pc \in {"idle", "remove"}
    <3>1. CASE req[h].todo \ {n} = {}
      BY <1>3, <2>1, <3>1 DEF RemoveOne, Steps, Idle
    <3>2. CASE req[h].todo \ {n} # {}
      <4>1. [req[h] EXCEPT !.todo = req[h].todo \ {n}].pc = "remove"
        BY <1>1, <2>1, RequestAt DEF RemoveReq
      <4> QED
        BY <1>3, <2>1, <3>2, <4>1 DEF RemoveOne, Steps
    <3> QED
      BY <3>1, <3>2
  <2>3. old \in Objects \cup {None} /\ proxies \in [Names -> used \cup {None}]
    BY <1>1 DEF TypeOK
  <2>4. /\ \A q \in Objects \ {old} : conf'[q] = conf[q]
        /\ old \in Objects => ~conf'[old].enabled
    <3> HIDE DEF old
    <3> QED
      BY <1>1, <2>1, <2>3, StopPorts DEF IndInv
  <2> SUFFICES ASSUME ~overlap'
               PROVE  AllRegistered' /\ Alone(h)'
    BY <2>2, AloneStep
  <2>5. AllRegistered /\ req'[h] = r
    BY <2>2, OnlyOne
  <2>6. Alone(h)'
    BY <2>2, <2>5, Carefree
  <2>7. ASSUME NEW q \in Objects, conf'[q].enabled
        PROVE  q \in Registered'
    <3>1. q # old /\ conf[q].enabled
      BY <2>4, <2>7
    <3>2. PICK m \in Names : proxies[m] = q /\ q # None
      BY <2>5, <3>1 DEF AllRegistered, Registered
    <3>3. proxies'[m] = q
      BY <2>1, <2>3, <3>1, <3>2
    <3> QED
      BY <3>2, <3>3 DEF Registered
  <2> QED
    BY <2>6, <2>7 DEF AllRegistered
<1> QED
  BY <1>2, <1>3

\* ProxyUpdate and Proxy.Update.
LEMMA UpdateSequential ==
    ASSUME SeqInv, NEW h \in Handlers,
           \/ \E n \in Names, patch \in Patches : ProxyUpdate(h, n, patch)
           \/ ReadField(h) \/ UpdateBegins(h) \/ UpdateMoves(h) \/ UpdateEnds(h)
    PROVE  Sequential'
<1> DEFINE x == req[h]
           p == req[h].proxy
<1>1. IndInv /\ TypeOK /\ x \in ReqType
  BY DEF SeqInv, IndInv, TypeOK
<1>2. ASSUME NEW n \in Names, NEW patch \in Patches, ProxyUpdate(h, n, patch)
      PROVE  Sequential'
  <2> DEFINE r == [pc |-> "listen", proxy |-> proxies[n], given |-> patch,
                   input |-> conf[proxies[n]]]
  <2>1. Steps(h, r) /\ proxies[n] # None /\ UNCHANGED <<conf, proxies>>
    BY <1>2 DEF ProxyUpdate, Steps
  <2> SUFFICES ASSUME ~overlap'
               PROVE  AllRegistered' /\ Alone(h)'
    BY <2>1, AloneStep
  <2>2. AllRegistered /\ req'[h] = r
    BY <2>1, OnlyOne
  <2>3. AllRegistered'
    BY <2>1, <2>2 DEF AllRegistered, Registered
  <2>4. req'[h].pc = "listen" /\ req'[h].proxy = proxies[n]
    BY <2>2
  <2>5. proxies[n] \in Registered'
    BY <2>1 DEF Registered
  <2>6. Alone(h)'
    BY <2>4, <2>5 DEF Alone, UpdatePcs
  <2> QED
    BY <2>3, <2>6
<1>3. CASE ReadField(h)
  <2> DEFINE f == x.pc
             v == Read(x, f)
             next == CASE f = "listen" -> "upstream"
                       [] f = "upstream" -> "enabled"
                       [] f = "enabled" -> "update"
             r == [x EXCEPT !.input = [@ EXCEPT ![f] = v], !.pc = next]
  <2>1. f \in {"listen", "upstream", "enabled"} /\ Steps(h, r) /\ UNCHANGED <<conf, proxies>>
    BY <1>3 DEF ReadField, Steps
  <2>2. x \in UpdateReq
    BY <1>1, <2>1, RequestAt DEF UpdatePcs
  <2>3. r.pc = next /\ r.proxy = p
    BY <2>2 DEF UpdateReq
  <2> HIDE DEF r, v
  <2> SUFFICES ASSUME ~overlap'
               PROVE  AllRegistered' /\ Alone(h)'
    BY <2>1, AloneStep
  <2>6. AllRegistered /\ req'[h] = r /\ Alone(h)
    BY <2>1, OnlyOne
  <2>7. AllRegistered'
    BY <2>1, <2>6 DEF AllRegistered, Registered
  <2>8. p \in Registered'
    BY <2>1, <2>6 DEF Alone, UpdatePcs, Registered
  <2>10. next \in {"upstream", "enabled", "update"}
    BY <2>1
  <2> HIDE DEF next
  <2>11. Alone(h)'
    BY <2>1, <2>3, <2>6, <2>8, <2>10 DEF Alone, UpdatePcs
  <2> QED
    BY <2>7, <2>11
<1>4. CASE UpdateBegins(h) \/ UpdateMoves(h)
  <2>1. x.pc \in {"update", "move"} /\ x \in UpdateReq /\ p \in Objects
    BY <1>1, <1>4, RequestAt DEF UpdateBegins, UpdateMoves, UpdateReq, UpdatePcs
  <2> DEFINE r == [x EXCEPT !.pc = IF x.pc = "update" THEN "move" ELSE "enable"]
  <2>2. Steps(h, r) /\ proxies' = proxies
    BY <1>4, <2>1 DEF UpdateBegins, UpdateMoves, Steps
  <2>3. r.pc \in {"move", "enable"} /\ r.proxy = p
    BY <2>1 DEF UpdateReq
  <2>4. \A q \in Objects : conf'[q].enabled => conf[q].enabled
    <3>1. CASE UpdateBegins(h)
      <4>1. CASE UNCHANGED conf
        BY <4>1
      <4>2. CASE Stop(p)
        BY <1>1, <2>1, <4>2, StopPorts DEF IndInv
      <4> QED
        BY <3>1, <4>1, <4>2 DEF UpdateBegins
    <3>2. CASE UpdateMoves(h)
      <4>1. conf' = [conf EXCEPT ![p].listen = x.input.listen,
                                 ![p].upstream = x.input.upstream]
        BY <3>2 DEF UpdateMoves
      <4> QED
        BY <1>1, <2>1, <4>1 DEF TypeOK, Config
    <3> QED
      BY <1>4, <3>1, <3>2
  <2> HIDE DEF r
  <2> SUFFICES ASSUME ~overlap'
               PROVE  AllRegistered' /\ Alone(h)'
    BY <2>2, AloneStep
  <2>5. AllRegistered /\ req'[h] = r /\ Alone(h)
    BY <2>2, OnlyOne
  <2>6. AllRegistered'
    BY <2>2, <2>4, <2>5 DEF AllRegistered, Registered
  <2>7. p \in Registered'
    BY <2>1, <2>2, <2>5 DEF Alone, UpdatePcs, Registered
  <2>8. Alone(h)'
    BY <2>3, <2>5, <2>7 DEF Alone, UpdatePcs
  <2> QED
    BY <2>6, <2>8
<1>5. CASE UpdateEnds(h)
  <2>1. x.pc = "enable" /\ x \in UpdateReq /\ p \in Objects
    BY <1>1, <1>5, RequestAt DEF UpdateEnds, UpdateReq, UpdatePcs
  <2>2. Steps(h, Idle) /\ proxies' = proxies
    BY <1>5, <2>1 DEF UpdateEnds, Steps
  <2>3. \A q \in Objects \ {p} : conf'[q] = conf[q]
    BY <1>1, <1>5 DEF UpdateEnds, Stop, Started, TypeOK
  <2> SUFFICES ASSUME ~overlap'
               PROVE  AllRegistered' /\ Alone(h)'
    BY <2>2, AloneStep
  <2>4. AllRegistered /\ req'[h] = Idle /\ Alone(h)
    BY <2>2, OnlyOne
  <2>5. p \in Registered
    BY <2>1, <2>4 DEF Alone, UpdatePcs
  <2>6. AllRegistered'
    BY <2>2, <2>3, <2>4, <2>5 DEF AllRegistered, Registered
  <2>7. Alone(h)'
    BY <2>4, Carefree DEF Idle
  <2> QED
    BY <2>6, <2>7
<1> QED
  BY <1>2, <1>3, <1>4, <1>5

\* ResetState, and the requests about toxics.
LEMMA ResetSequential ==
    ASSUME SeqInv, NEW h \in Handlers,
           \/ ResetState(h) \/ ResetToxics(h) \/ ResetDone(h)
           \/ \E p \in Objects : ResetStarts(h, p) \/ ResetFails(h, p)
           \/ ToxicAnswer(h)
           \/ \E n \in Names, pc \in {"addToxic", "removeToxic"} : ToxicRequest(h, n, pc)
    PROVE  Sequential'
<1> DEFINE x == req[h]
<1>1. IndInv /\ TypeOK /\ x \in ReqType
  BY DEF SeqInv, IndInv, TypeOK
<1>2. CASE ResetState(h)
  <2> DEFINE r == [pc |-> "reset", todo |-> Registered]
  <2>1. Steps(h, r) /\ UNCHANGED <<conf, proxies, toxic>>
    BY <1>2 DEF ResetState, Steps
  <2> SUFFICES ASSUME ~overlap'
               PROVE  AllRegistered' /\ Alone(h)'
    BY <2>1, AloneStep
  <2>2. AllRegistered /\ req'[h] = r
    BY <2>1, OnlyOne
  <2>3. Registered' = Registered
    BY <2>1 DEF Registered
  <2>4. Alone(h)'
    BY <2>2, <2>3 DEF Alone, UpdatePcs
  <2> QED
    BY <2>1, <2>2, <2>3, <2>4 DEF AllRegistered
<1>3. CASE ResetToxics(h)
  <2> DEFINE r == [pc |-> "reset", todo |-> x.todo]
  <2>1. /\ x.pc = "toxics" /\ Steps(h, r) /\ UNCHANGED <<conf, proxies>>
        /\ toxic' = toxic \ {x.proxy}
    BY <1>3 DEF ResetToxics, Steps
  <2> SUFFICES ASSUME ~overlap'
               PROVE  AllRegistered' /\ Alone(h)'
    BY <2>1, AloneStep
  <2>2. AllRegistered /\ req'[h] = r /\ Alone(h)
    BY <2>1, OnlyOne
  <2>3. Registered' = Registered
    BY <2>1 DEF Registered
  <2>4. ASSUME NEW p \in Registered \ x.todo
        PROVE  Restored(p)'
    BY <2>1, <2>2 DEF Alone, Restored
  <2>5. Alone(h)'
    BY <2>1, <2>2, <2>3, <2>4 DEF Alone, UpdatePcs
  <2> QED
    BY <2>1, <2>2, <2>3, <2>5 DEF AllRegistered
<1>4. CASE ResetDone(h) \/ ToxicAnswer(h) \/ \E p \in Objects : ResetFails(h, p)
  <2>1. Steps(h, Idle) /\ UNCHANGED <<conf, proxies>>
    BY <1>4 DEF ResetDone, ToxicAnswer, ResetFails, Steps
  <2> QED
    BY <2>1, CarefreeStep DEF Idle
<1>5. ASSUME NEW n \in Names, NEW pc \in {"addToxic", "removeToxic"}, ToxicRequest(h, n, pc)
      PROVE  Sequential'
  BY <1>5, CarefreeStep DEF ToxicRequest, Steps
<1>6. ASSUME NEW p \in Objects, ResetStarts(h, p)
      PROVE  Sequential'
  <2> DEFINE r == [pc |-> "toxics", todo |-> x.todo \ {p}, proxy |-> p]
  <2>1. /\ x.pc = "reset" /\ p \in x.todo /\ Steps(h, r) /\ UNCHANGED <<proxies, toxic>>
    BY <1>6 DEF ResetStarts, Steps
  <2>2. /\ \A q \in Objects \ {p} : conf'[q] = conf[q]
        /\ conf'[p].enabled
    <3>1. CASE ~conf[p].enabled /\ CanListen(conf[p].listen) /\ Started(p, conf[p])
      <4>1. conf[p] \in Config
        BY <1>1 DEF TypeOK
      <4> QED
        BY <1>1, <3>1, <4>1, StartedPorts DEF IndInv
    <3>2. CASE conf[p].enabled /\ UNCHANGED <<conf, owner>>
      BY <3>2
    <3> QED
      BY <1>6, <3>1, <3>2 DEF ResetStarts
  <2> SUFFICES ASSUME ~overlap'
               PROVE  AllRegistered' /\ Alone(h)'
    BY <2>1, AloneStep
  <2>3. AllRegistered /\ req'[h] = r /\ Alone(h)
    BY <2>1, OnlyOne
  <2>4. Registered' = Registered /\ Registered \subseteq Objects
    BY <1>1, <2>1 DEF Registered, TypeOK
  <2>5. x.todo \subseteq Registered
    BY <2>1, <2>3 DEF Alone
  <2>6. AllRegistered'
    BY <2>1, <2>2, <2>3, <2>4, <2>5 DEF AllRegistered
  <2>7. ASSUME NEW q \in Registered \ x.todo
        PROVE  Restored(q)'
    <3>1. Restored(q) /\ q # p /\ q \in Objects
      BY <2>1, <2>3, <2>4 DEF Alone
    <3> QED
      BY <2>1, <2>2, <3>1 DEF Restored
  <2>8. Alone(h)'
    BY <2>1, <2>2, <2>3, <2>4, <2>5, <2>7 DEF Alone, UpdatePcs
  <2> QED
    BY <2>6, <2>8
<1> QED
  BY <1>2, <1>3, <1>4, <1>5, <1>6

\* While no two requests were served at once, the only request in progress
\* finds what it read unchanged, and every proxy that listens is registered.
THEOREM OneAtATime == Spec => []SeqInv
<1>1. Init => Sequential
  <2> SUFFICES ASSUME Init
               PROVE  Sequential
    OBVIOUS
  <2>1. \A h \in Handlers : req[h] = Idle
    BY DEF Init
  <2>2. ASSUME NEW h \in Handlers
        PROVE  Alone(h)
    <3>1. req[h].pc = "idle"
      BY <2>1 DEF Idle
    <3> QED
      BY <3>1 DEF Alone, UpdatePcs
  <2>3. \A p \in Objects : ~conf[p].enabled
    <3>1. PICK n \in Names, l \in Listens, u \in Upstreams : TRUE
      BY ApiAssumption
    <3>2. [name |-> n, listen |-> l, upstream |-> u, enabled |-> FALSE] \in Config
      BY DEF Config
    <3>3. ~[name |-> n, listen |-> l, upstream |-> u, enabled |-> FALSE].enabled
      OBVIOUS
    <3>4. ~(CHOOSE c \in Config : ~c.enabled).enabled
      BY <3>2, <3>3
    <3> QED
      BY <3>4 DEF Init
  <2> QED
    BY <2>1, <2>2, <2>3 DEF Sequential
<1>2. IndInv /\ Sequential /\ [Next]_vars => Sequential'
  <2> SUFFICES ASSUME IndInv, Sequential, [Next]_vars
               PROVE  Sequential'
    OBVIOUS
  <2>1. SeqInv
    BY DEF SeqInv
  <2>2. ASSUME NEW h \in Handlers, Requests(h)
        PROVE  Sequential'
    BY <2>1, <2>2, AddSequential, RemoveSequential, UpdateSequential, ResetSequential
       DEF Requests
  <2>3. ASSUME NEW h \in Handlers, Continues(h)
        PROVE  Sequential'
    BY <2>1, <2>3, AddSequential, RemoveSequential, UpdateSequential, ResetSequential
       DEF Continues
  <2>4. CASE UNCHANGED vars
    BY <2>4 DEF vars, Sequential, Alone, Registered, Restored
  <2> QED
    BY <2>2, <2>3, <2>4 DEF Next
<1>3. IndInv /\ Sequential => SeqInv
  BY DEF SeqInv
<1> QED
  BY <1>1, <1>2, <1>3, Consistent, PTL DEF Spec

\* Requests served one after the other, however they fail, never leave a proxy
\* that listens outside the collection: a deleted or replaced proxy is down.
THEOREM SequentialNeverOrphans == Spec => []SequentialNoOrphans
<1>1. SeqInv => SequentialNoOrphans
  BY DEF SeqInv, Sequential, SequentialNoOrphans, NoOrphans
<1> QED
  BY <1>1, OneAtATime, PTL

\* A reset that runs to its end, with nobody else served meanwhile, has left
\* every registered proxy enabled and without a toxic.
THEOREM ResetAlwaysRestores == Spec => ResetRestores
<1> DEFINE A == \A h \in Handlers :
                  ~overlap /\ req[h].pc = "reset" /\ req[h].todo = {} /\ req'[h] = Idle
                  => \A p \in Registered : conf[p].enabled /\ p \notin toxic
<1>1. SeqInv => [A]_vars
  BY DEF SeqInv, Sequential, Alone, Restored
<1> QED
  BY <1>1, OneAtATime, PTL DEF ResetRestores

\* Proxy.Update leaves its proxy wholly as it asked, whatever other requests
\* come between its steps.
THEOREM UpdatesNeverMix == Spec => UpdatesDoNotMix
<1> DEFINE Whole(h) ==
        LET p == req[h].proxy
            i == req[h].input
        IN /\ conf'[p].upstream = i.upstream
           /\ conf'[p].listen \in {i.listen, Resolved[i.listen]}
           /\ conf'[p].enabled = (i.enabled /\ (conf[p].enabled \/ CanListen(i.listen)))
<1>1. IndInv /\ [Next]_vars =>
        [\A h \in Handlers : req[h].pc = "enable" /\ req'[h] = Idle => Whole(h)]_vars
  <2> SUFFICES ASSUME IndInv, Next, NEW h \in Handlers, req[h].pc = "enable", req'[h] = Idle
               PROVE  Whole(h)
    OBVIOUS
  <2> DEFINE p == req[h].proxy
             i == req[h].input
  <2>1. /\ TypeOK /\ req[h] \in UpdateReq /\ p \in Objects /\ i \in Config /\ conf[p] \in Config
        /\ conf[p].listen = i.listen /\ conf[p].upstream = i.upstream
    BY RequestAt DEF IndInv, TypeOK, UpdatePcs, UpdateReq, Holds
  <2>2. UpdateEnds(h)
    <3>1. PICK k \in Handlers : Requests(k) \/ Continues(k)
      BY DEF Next
    <3>2. \E r : Begin(k, r) \/ (req[k].pc # "idle" /\ Go(k, r))
      BY <3>1 DEF Requests, ProxyCreate, Populate, Remove, ProxyUpdate, ResetState, ToxicRequest,
                  Continues, NextEntry, Replace, EntryAdded, EntryFails, PopulateDone, RemoveOne,
                  ReadField, UpdateBegins, UpdateMoves, UpdateEnds, ResetStarts, ResetFails,
                  ResetToxics, ResetDone, ToxicAnswer
    <3>3. k = h
      <4>1. req[h] # Idle
        BY DEF Idle
      <4> QED
        BY <2>1, <3>2, <4>1 DEF Begin, Go, TypeOK
    <3>4. ~Requests(h)
      BY DEF Requests, ProxyCreate, Populate, Remove, ProxyUpdate, ResetState, ToxicRequest,
             Begin, Idle
    <3> QED
      BY <3>1, <3>3, <3>4 DEF Continues, NextEntry, Replace, EntryAdded, EntryFails, PopulateDone,
                  RemoveOne, ReadField, UpdateBegins, UpdateMoves, ResetStarts, ResetFails,
                  ResetToxics, ResetDone, ToxicAnswer
  <2>3. CASE ~i.enabled
    <3>1. conf' = [conf EXCEPT ![p].enabled = FALSE]
      BY <2>2, <2>3 DEF UpdateEnds, Stop
    <3>2. /\ conf'[p].enabled = FALSE /\ conf'[p].listen = conf[p].listen
          /\ conf'[p].upstream = conf[p].upstream
      BY <2>1, <3>1 DEF TypeOK, Config
    <3> QED
      BY <2>1, <2>3, <3>2
  <2>4. CASE i.enabled /\ ~conf[p].enabled /\ CanListen(conf[p].listen)
    <3>1. conf' = [conf EXCEPT ![p] =
                     [conf[p] EXCEPT !.listen = Resolved[@], !.enabled = TRUE]]
      BY <2>2, <2>4 DEF UpdateEnds, Started
    <3>2. /\ conf'[p].enabled = TRUE /\ conf'[p].listen = Resolved[conf[p].listen]
          /\ conf'[p].upstream = conf[p].upstream
      BY <2>1, <3>1 DEF TypeOK, Config
    <3> QED
      BY <2>1, <2>4, <3>2
  <2>5. CASE i.enabled /\ (conf[p].enabled \/ ~CanListen(conf[p].listen))
    <3>1. conf' = conf
      BY <2>2, <2>5 DEF UpdateEnds
    <3>2. i.enabled \in BOOLEAN /\ conf[p].enabled \in BOOLEAN
      BY <2>1 DEF Config
    <3> QED
      BY <2>1, <2>5, <3>1, <3>2
  <2> QED
    BY <2>3, <2>4, <2>5
<1> QED
  BY <1>1, Consistent, PTL DEF UpdatesDoNotMix, Spec
=============================================================================
