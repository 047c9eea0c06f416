-------------------------------- MODULE Api --------------------------------
(***************************************************************************)
(* The HTTP handlers of ApiServer (api.go) that run concurrently over one    *)
(* ProxyCollection (proxy_collection.go) and its proxies.  The collection's  *)
(* mutex is "lock"; the mutex of a proxy is "held".  Start and Stop of a     *)
(* proxy are single steps here: module Proxy has the inside of a call and    *)
(* when it returns.  A listener is exclusive to its resolved address.        *)
(*                                                                          *)
(* Requests that change nothing (GET, malformed bodies, unknown names) are   *)
(* left out.  A toxic collection is reduced to whether it holds a toxic.     *)
(***************************************************************************)
EXTENDS Integers, Sequences

CONSTANTS
    Handlers,       \* the goroutines that serve requests
    Objects,        \* bound: the Proxy objects that requests may create
    None,           \* no proxy, no handler
    Names,          \* proxy names
    Listens,        \* listen addresses a client may give
    Resolved,       \* [Listens -> Listens]: LocalAddr() of a listener on it
    Refused,        \* addresses no listener can be opened on
    Upstreams,      \* upstream addresses
    Same,           \* the value of a field that a PATCH leaves out
    Patches,        \* the PATCH bodies of ProxyUpdate
    Populations,    \* the bodies of Populate
    MaxRequests     \* bound: requests served

Config == [name : Names, listen : Listens, upstream : Upstreams, enabled : BOOLEAN]

Patch == [listen : Listens \cup {Same}, upstream : Upstreams \cup {Same},
          enabled : BOOLEAN \cup {Same}]

ASSUME ApiAssumption ==
    /\ None \notin Objects /\ None \notin Handlers
    /\ Resolved \in [Listens -> Listens]
    /\ \A a \in Listens : Resolved[Resolved[a]] = Resolved[a]
    /\ Refused \subseteq Listens
    /\ Names # {} /\ Listens # {} /\ Upstreams # {}
    /\ Same \notin Listens /\ Same \notin Upstreams
    /\ Patches \subseteq Patch
    /\ Populations \subseteq Seq(Config)
    /\ MaxRequests \in Nat

VARIABLES
    conf,       \* the exported fields of each Proxy object
    used,       \* the objects created so far
    proxies,    \* collection.proxies
    lock,       \* the handler that holds the collection's mutex
    held,       \* the handler that holds a proxy's mutex
    owner,      \* the proxy whose listener is open on an address
    toxic,      \* the proxies that have a toxic
    req,        \* what each handler is doing
    nreq,       \* number of requests served
    overlap     \* history: two requests were served at once

vars == <<conf, used, proxies, lock, held, owner, toxic, req, nreq, overlap>>

Idle == [pc |-> "idle"]

Registered == {proxies[n] : n \in Names} \ {None}

Init ==
    /\ conf = [p \in Objects |-> CHOOSE c \in Config : ~c.enabled]
    /\ used = {}
    /\ proxies = [n \in Names |-> None]
    /\ lock = None
    /\ held = [p \in Objects |-> None]
    /\ owner = [a \in Listens |-> None]
    /\ toxic = {}
    /\ req = [h \in Handlers |-> Idle]
    /\ nreq = 0
    /\ overlap = FALSE

-----------------------------------------------------------------------------
(* proxy.go, as the handlers see it *)

CanListen(a) == owner[Resolved[a]] = None /\ a \notin Refused

\* start of a disabled proxy p configured as c, for which CanListen holds.
Started(p, c) ==
    /\ conf' = [conf EXCEPT ![p] = [c EXCEPT !.listen = Resolved[@], !.enabled = TRUE]]
    /\ owner' = [owner EXCEPT ![Resolved[c.listen]] = p]

\* stop: nothing if the proxy is disabled, else its listener is closed.
Stop(p) ==
    /\ conf' = [conf EXCEPT ![p].enabled = FALSE]
    /\ owner' = [a \in Listens |-> IF owner[a] = p THEN None ELSE owner[a]]

-----------------------------------------------------------------------------
(* Handlers.  Begin starts request r of handler h, Go continues with r. *)

Begin(h, r) ==
    /\ req[h] = Idle /\ nreq < MaxRequests
    /\ nreq' = nreq + 1
    /\ req' = [req EXCEPT ![h] = r]
    /\ overlap' = (overlap \/ \E k \in Handlers : req[k] # Idle)

Go(h, r) == req' = [req EXCEPT ![h] = r] /\ UNCHANGED <<nreq, overlap>>

\* The object that NewProxy allocates.
NewProxy == CHOOSE p \in Objects : p \notin used

\* A new object p configured as c and registered, started if asked to.
Put(p, c) ==
    /\ used # Objects
    /\ IF c.enabled THEN Started(p, c)
       ELSE conf' = [conf EXCEPT ![p] = c] /\ UNCHANGED owner
    /\ used' = used \cup {p}
    /\ proxies' = [proxies EXCEPT ![c.name] = p]

\* ProxyCreate and ProxyCollection.Add.  Nobody else knows the new proxy.
ProxyCreate(h, c) ==
    /\ lock = None
    /\ proxies[c.name] = None
    /\ c.enabled => CanListen(c.listen)
    /\ Begin(h, Idle)
    /\ Put(NewProxy, c)
    /\ UNCHANGED <<lock, held, toxic>>

\* Populate, or PopulateConfig at the start: one AddOrReplace per entry.
Populate(h, list) ==
    /\ Begin(h, [pc |-> "entry", todo |-> list])
    /\ UNCHANGED <<conf, used, proxies, lock, held, owner, toxic>>

\* AddOrReplace takes the lock; a proxy with these addresses is left alone.
NextEntry(h) ==
    /\ req[h].pc = "entry" /\ req[h].todo # <<>>
    /\ lock = None
    /\ LET c   == Head(req[h].todo)
           old == proxies[c.name]
       IN IF old # None /\ conf[old].listen = c.listen /\ conf[old].upstream = c.upstream
          THEN Go(h, [req[h] EXCEPT !.todo = Tail(@)]) /\ UNCHANGED lock
          ELSE /\ lock' = h
               /\ Go(h, [req[h] EXCEPT !.pc = IF old = None THEN "start" ELSE "replace"])
    /\ UNCHANGED <<conf, used, proxies, held, owner, toxic>>

\* Mutant: the replaced proxy is not stopped.
ReplaceUnstopped(h) ==
    /\ req[h].pc = "replace"
    /\ Go(h, [req[h] EXCEPT !.pc = "start"])
    /\ UNCHANGED <<conf, used, proxies, lock, held, owner, toxic>>

\* existing.Stop()
Replace(h) ==
    /\ req[h].pc = "replace"
    /\ LET old == proxies[Head(req[h].todo).name]
       IN held[old] = None /\ Stop(old)
    /\ Go(h, [req[h] EXCEPT !.pc = "start"])
    /\ UNCHANGED <<used, proxies, lock, held, toxic>>

EntryAdded(h) ==
    /\ req[h].pc = "start"
    /\ LET c == Head(req[h].todo)
       IN /\ c.enabled => CanListen(c.listen)
          /\ Put(NewProxy, c)
    /\ lock' = None
    /\ Go(h, [pc |-> "entry", todo |-> Tail(req[h].todo)])
    /\ UNCHANGED <<held, toxic>>

\* Mutant: the error path keeps the collection locked.
EntryFailsLocked(h) ==
    /\ req[h].pc = "start"
    /\ LET c == Head(req[h].todo) IN c.enabled /\ ~CanListen(c.listen)
    /\ Go(h, Idle)
    /\ UNCHANGED <<conf, used, proxies, lock, held, owner, toxic>>

\* The new proxy cannot listen: the request ends; what was stopped stays so.
EntryFails(h) ==
    /\ req[h].pc = "start"
    /\ LET c == Head(req[h].todo) IN c.enabled /\ ~CanListen(c.listen)
    /\ lock' = None
    /\ Go(h, Idle)
    /\ UNCHANGED <<conf, used, proxies, held, owner, toxic>>

PopulateDone(h) ==
    /\ req[h].pc = "entry" /\ req[h].todo = <<>>
    /\ Go(h, Idle)
    /\ UNCHANGED <<conf, used, proxies, lock, held, owner, toxic>>

\* ProxyDelete (one name) and ProxyCollection.Clear (all names): the lock is
\* kept while each proxy is stopped and deleted.
Remove(h, S) ==
    /\ lock = None /\ S # {}
    /\ \A n \in S : proxies[n] # None
    /\ lock' = h
    /\ Begin(h, [pc |-> "remove", todo |-> S])
    /\ UNCHANGED <<conf, used, proxies, held, owner, toxic>>

RemoveOne(h, n) ==
    /\ req[h].pc = "remove" /\ n \in req[h].todo
    /\ held[proxies[n]] = None
    /\ Stop(proxies[n])
    /\ proxies' = [proxies EXCEPT ![n] = None]
    /\ LET rest == req[h].todo \ {n}
       IN IF rest = {} THEN lock' = None /\ Go(h, Idle)
          ELSE UNCHANGED lock /\ Go(h, [req[h] EXCEPT !.todo = rest])
    /\ UNCHANGED <<used, held, toxic>>

\* ProxyUpdate: Collection.Get, then the fields are read without the mutex.
ProxyUpdate(h, n, patch) ==
    /\ lock = None /\ proxies[n] # None
    /\ Begin(h, [pc |-> "listen", proxy |-> proxies[n], given |-> patch,
                 input |-> conf[proxies[n]]])
    /\ UNCHANGED <<conf, used, proxies, lock, held, owner, toxic>>

\* Mutant: a field the request leaves out is not defaulted.
ReadGiven(r, f) == r.given[f]

\* The value of field f that the request asks for: its own, or the proxy's.
Read(r, f) == IF r.given[f] # Same THEN r.given[f] ELSE conf[r.proxy][f]

\* One unlocked read per field: the input may hold fields of different moments,
\* and be stale when it is applied.
ReadField(h) ==
    /\ req[h].pc \in {"listen", "upstream", "enabled"}
    /\ LET f == req[h].pc
       IN Go(h, [req[h] EXCEPT
                   !.input = [@ EXCEPT ![f] = Read(req[h], f)],
                   !.pc = CASE f = "listen" -> "upstream"
                            [] f = "upstream" -> "enabled"
                            [] f = "enabled" -> "update"])
    /\ UNCHANGED <<conf, used, proxies, lock, held, owner, toxic>>

\* Mutant: only another upstream stops the proxy.
MovedUpstream(p, input) == input.upstream # conf[p].upstream

Moved(p, input) == input.listen # conf[p].listen \/ input.upstream # conf[p].upstream

\* Mutant: Update does not take the proxy's mutex.
UpdateBeginsUnlocked(h) ==
    /\ req[h].pc = "update"
    /\ LET p == req[h].proxy
       IN IF Moved(p, req[h].input) THEN Stop(p) ELSE UNCHANGED <<conf, owner>>
    /\ Go(h, [req[h] EXCEPT !.pc = "move"])
    /\ UNCHANGED <<used, proxies, lock, held, toxic>>

\* Proxy.Update takes the proxy's mutex and stops a proxy that moves.
UpdateBegins(h) ==
    /\ req[h].pc = "update"
    /\ LET p == req[h].proxy
       IN /\ held[p] = None
          /\ held' = [held EXCEPT ![p] = h]
          /\ IF Moved(p, req[h].input) THEN Stop(p) ELSE UNCHANGED <<conf, owner>>
    /\ Go(h, [req[h] EXCEPT !.pc = "move"])
    /\ UNCHANGED <<used, proxies, lock, toxic>>

UpdateMoves(h) ==
    /\ req[h].pc = "move"
    /\ conf' = [conf EXCEPT ![req[h].proxy].listen = req[h].input.listen,
                            ![req[h].proxy].upstream = req[h].input.upstream]
    /\ Go(h, [req[h] EXCEPT !.pc = "enable"])
    /\ UNCHANGED <<used, proxies, lock, held, owner, toxic>>

\* Start or stop as asked; a listener that cannot be opened leaves it stopped.
UpdateEnds(h) ==
    /\ req[h].pc = "enable"
    /\ LET p == req[h].proxy
       IN /\ held' = [held EXCEPT ![p] = None]
          /\ CASE ~req[h].input.enabled -> Stop(p)
               [] req[h].input.enabled /\ ~conf[p].enabled /\ CanListen(conf[p].listen)
                    -> Started(p, conf[p])
               [] OTHER -> UNCHANGED <<conf, owner>>
    /\ Go(h, Idle)
    /\ UNCHANGED <<used, proxies, lock, toxic>>

\* ResetState: a copy of the map, then Start and ResetToxics of each proxy.
ResetState(h) ==
    /\ lock = None
    /\ Begin(h, [pc |-> "reset", todo |-> Registered])
    /\ UNCHANGED <<conf, used, proxies, lock, held, owner, toxic>>

\* Mutant: a proxy that is running already is passed over.
ResetStartsOnly(h, p) ==
    /\ req[h].pc = "reset" /\ p \in req[h].todo /\ held[p] = None
    /\ \/ /\ conf[p].enabled
          /\ Go(h, [req[h] EXCEPT !.todo = @ \ {p}])
          /\ UNCHANGED <<conf, owner>>
       \/ /\ ~conf[p].enabled /\ CanListen(conf[p].listen)
          /\ Started(p, conf[p])
          /\ Go(h, [pc |-> "toxics", todo |-> req[h].todo \ {p}, proxy |-> p])
    /\ UNCHANGED <<used, proxies, lock, held, toxic>>

\* Start; ErrProxyAlreadyStarted is no error.
ResetStarts(h, p) ==
    /\ req[h].pc = "reset" /\ p \in req[h].todo /\ held[p] = None
    /\ \/ conf[p].enabled /\ UNCHANGED <<conf, owner>>
       \/ ~conf[p].enabled /\ CanListen(conf[p].listen) /\ Started(p, conf[p])
    /\ Go(h, [pc |-> "toxics", todo |-> req[h].todo \ {p}, proxy |-> p])
    /\ UNCHANGED <<used, proxies, lock, held, toxic>>

ResetFails(h, p) ==
    /\ req[h].pc = "reset" /\ p \in req[h].todo /\ held[p] = None
    /\ ~conf[p].enabled /\ ~CanListen(conf[p].listen)
    /\ Go(h, Idle)
    /\ UNCHANGED <<conf, used, proxies, lock, held, owner, toxic>>

ResetToxics(h) ==
    /\ req[h].pc = "toxics"
    /\ toxic' = toxic \ {req[h].proxy}
    /\ Go(h, [pc |-> "reset", todo |-> req[h].todo])
    /\ UNCHANGED <<conf, used, proxies, lock, held, owner>>

ResetDone(h) ==
    /\ req[h].pc = "reset" /\ req[h].todo = {}
    /\ Go(h, Idle)
    /\ UNCHANGED <<conf, used, proxies, lock, held, owner, toxic>>

\* ToxicCreate and ToxicDelete: Collection.Get, then the toxic collection.
ToxicRequest(h, n, pc) ==
    /\ lock = None /\ proxies[n] # None
    /\ Begin(h, [pc |-> pc, proxy |-> proxies[n]])
    /\ UNCHANGED <<conf, used, proxies, lock, held, owner, toxic>>

ToxicAnswer(h) ==
    /\ \/ req[h].pc = "addToxic" /\ toxic' = toxic \cup {req[h].proxy}
       \/ req[h].pc = "removeToxic" /\ toxic' = toxic \ {req[h].proxy}
    /\ Go(h, Idle)
    /\ UNCHANGED <<conf, used, proxies, lock, held, owner>>

-----------------------------------------------------------------------------
Requests(h) ==
    \/ \E c \in Config : ProxyCreate(h, c)
    \/ \E list \in Populations : Populate(h, list)
    \/ \E n \in Names : Remove(h, {n})
    \/ Remove(h, {n \in Names : proxies[n] # None})
    \/ \E n \in Names, patch \in Patches : ProxyUpdate(h, n, patch)
    \/ ResetState(h)
    \/ \E n \in Names : ToxicRequest(h, n, "addToxic") \/ ToxicRequest(h, n, "removeToxic")

Continues(h) ==
    \/ NextEntry(h) \/ Replace(h) \/ EntryAdded(h) \/ EntryFails(h) \/ PopulateDone(h)
    \/ \E n \in Names : RemoveOne(h, n)
    \/ ReadField(h) \/ UpdateBegins(h) \/ UpdateMoves(h) \/ UpdateEnds(h)
    \/ \E p \in Objects : ResetStarts(h, p) \/ ResetFails(h, p)
    \/ ResetToxics(h) \/ ResetDone(h)
    \/ ToxicAnswer(h)

Next == \E h \in Handlers : Requests(h) \/ Continues(h)

Spec == Init /\ [][Next]_vars

\* A handler that can proceed does; nothing is assumed of clients.
FairSpec == Spec /\ \A h \in Handlers : WF_vars(Continues(h))

-----------------------------------------------------------------------------
(* Properties *)

ReqType ==
    {Idle}
    \cup [pc : {"entry", "replace", "start"}, todo : Seq(Config)]
    \cup [pc : {"remove"}, todo : SUBSET Names]
    \cup [pc : {"listen", "upstream", "enabled", "update", "move", "enable"},
          proxy : Objects, given : Patch, input : Config]
    \cup [pc : {"reset"}, todo : SUBSET Objects]
    \cup [pc : {"toxics"}, todo : SUBSET Objects, proxy : Objects]
    \cup [pc : {"addToxic", "removeToxic"}, proxy : Objects]

\* Every variable holds a value of its type.
TypeOK ==
    /\ conf \in [Objects -> Config]
    /\ used \subseteq Objects
    /\ proxies \in [Names -> used \cup {None}]
    /\ lock \in Handlers \cup {None}
    /\ held \in [Objects -> Handlers \cup {None}]
    /\ owner \in [Listens -> Objects \cup {None}]
    /\ toxic \subseteq Objects
    /\ req \in [Handlers -> ReqType]
    /\ nreq \in 0..MaxRequests
    /\ overlap \in BOOLEAN

\* The listener open on an address is that of the enabled proxy whose Listen
\* names it, and of no other: no update, replacement, removal or reset leaves
\* an address taken by a proxy that is stopped or has moved, or an enabled
\* proxy without its listener.
PortsFollowProxies ==
    \A p \in Objects, a \in Listens :
        owner[a] = p <=> conf[p].enabled /\ conf[p].listen = a

\* When no request is being served, every proxy that listens can be reached
\* through the collection (TestDeleteProxy: a deleted proxy is down).
NoOrphans ==
    (\A h \in Handlers : req[h] = Idle)
    => \A p \in Objects : conf[p].enabled => p \in Registered

\* The same, of requests that are served one after the other, however they fail.
SequentialNoOrphans == ~overlap => NoOrphans

\* A reset that succeeds leaves every proxy enabled and without a toxic, if
\* nobody else was served meanwhile.
ResetRestores ==
    [][\A h \in Handlers :
         ~overlap /\ req[h].pc = "reset" /\ req[h].todo = {} /\ req'[h] = Idle
         => \A p \in Registered : conf[p].enabled /\ p \notin toxic]_vars

\* An update leaves its proxy wholly as it asked: with its upstream, on its
\* listen address, and enabled if it asked so and the address could be opened.
\* Nothing of another update, of a reset or of a removal that came between its
\* stop, its writes and its start is mixed in (Proxy.Update, under the proxy's
\* mutex).  What it asked for may be stale: see ReadField.
UpdatesDoNotMix ==
    [][\A h \in Handlers : req[h].pc = "enable" /\ req'[h] = Idle =>
         LET p == req[h].proxy
             i == req[h].input
         IN /\ conf'[p].upstream = i.upstream
            /\ conf'[p].listen \in {i.listen, Resolved[i.listen]}
            /\ conf'[p].enabled = (i.enabled /\ (conf[p].enabled \/ CanListen(i.listen)))]_vars

\* Every request is answered: the handlers do not wait for one another's
\* locks for ever.
RequestsEnd == \A h \in Handlers : (req[h] # Idle) ~> (req[h] = Idle)
=============================================================================
