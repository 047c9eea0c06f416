------------------------------- MODULE Proxy -------------------------------
(***************************************************************************)
(* One Proxy (proxy.go): Start, Stop and Update under the proxy's mutex, the *)
(* server goroutine that reads datagrams from the listener, the freeBlocker   *)
(* goroutine and the two tombs that end it, and for each client the queue     *)
(* UDPReader.incoming, the socket to the upstream and the two links that use  *)
(* them.  A link is only what the proxy sees of it: whether it still moves    *)
(* data.  Module ToxicLink has the inside.                                    *)
(***************************************************************************)
EXTENDS Integers, FiniteSets

CONSTANTS
    Clients,        \* client addresses
    Listens,        \* listen addresses a caller may give
    Resolved,       \* [Listens -> Listens]: LocalAddr() of a listener on it
    Upstreams,      \* upstream addresses
    QueueCap,       \* capacity of UDPReader.incoming (1000)
    Slack,          \* datagrams a link swallows after its writer has ended
    MaxPackets,     \* bound: datagrams received per client
    MaxCalls,       \* bound: calls of Start, Stop and Update
    ListenerFails   \* may ReadFrom fail on an open listener?

ASSUME ProxyAssumption ==
    /\ Resolved \in [Listens -> Listens]
    /\ "none" \notin Upstreams /\ "closed" \notin Upstreams
    /\ QueueCap \in Nat \ {0}
    /\ Slack \in Nat
    /\ MaxPackets \in Nat
    /\ MaxCalls \in Nat
    /\ ListenerFails \in BOOLEAN

VARIABLES
    enabled,        \* proxy.Enabled
    listen,         \* proxy.Listen
    upstream,       \* proxy.Upstream
    call,           \* the call that holds the proxy's mutex
    ncalls,         \* number of calls made
    server,         \* the server goroutine: [pc, client]
    listener,       \* is the current listener open?
    dying, dead,    \* proxy.tomb: killed, done
    acceptDone,     \* acceptTomb of the current server: done
    blocker,        \* the freeBlocker goroutine
    known,          \* the keys of proxy.portToClient
    queue,          \* length of each client's incoming channel
    socket,         \* the upstream address a client's socket is connected to
    conns,          \* the keys of proxy.connections.list
    up, down,       \* the client's links
    swallowed,      \* datagrams taken by an up link whose writer has ended
    received,       \* datagrams received from each client
    forwarded       \* datagrams written to the upstream for each client

callVars   == <<enabled, listen, upstream, call, ncalls>>
tombVars   == <<listener, dying, dead, acceptDone, blocker>>
clientVars == <<known, queue, socket, conns, up, down, swallowed, received, forwarded>>
vars == <<enabled, listen, upstream, call, ncalls, server, listener, dying, dead,
          acceptDone, blocker, known, queue, socket, conns, up, down, swallowed,
          received, forwarded>>

\* What is left to do for the call that holds the mutex: in "goal" the listen
\* and upstream addresses to set and the state to reach once it has stopped.
Targets == [listen : Listens, upstream : Upstreams, enabled : BOOLEAN]
Idle == [pc |-> "idle"]
NoClient == [pc |-> "none"]

Open(c) == socket[c] \in Upstreams

Init ==
    /\ enabled = FALSE
    /\ listen \in Listens
    /\ upstream \in Upstreams
    /\ call = Idle /\ ncalls = 0
    /\ server = NoClient
    /\ listener = "closed"
    /\ dying = FALSE /\ dead = FALSE /\ acceptDone = FALSE
    /\ blocker = "none"
    /\ known = {}
    /\ queue = [c \in Clients |-> 0]
    /\ socket = [c \in Clients |-> "none"]
    /\ conns = {}
    /\ up = [c \in Clients |-> "none"]
    /\ down = [c \in Clients |-> "none"]
    /\ swallowed = [c \in Clients |-> 0]
    /\ received = [c \in Clients |-> 0]
    /\ forwarded = [c \in Clients |-> 0]

-----------------------------------------------------------------------------
(* start and stop, under the mutex *)

Begin == call = Idle /\ ncalls < MaxCalls /\ ncalls' = ncalls + 1

\* Mutant: start does not look at Enabled.
DoStartAgain ==
    /\ dying' = FALSE /\ dead' = FALSE
    /\ server' = [pc |-> "listen"]
    /\ call' = [pc |-> "starting"]

\* start: ErrProxyAlreadyStarted, or a fresh tomb and a new server goroutine.
DoStart ==
    IF enabled
    THEN call' = Idle /\ UNCHANGED <<server, dying, dead>>
    ELSE /\ dying' = FALSE /\ dead' = FALSE
         /\ server' = [pc |-> "listen"]
         /\ call' = [pc |-> "starting"]

\* stop: nothing if disabled, else kill the tomb and wait for it.
DoStop(goal) ==
    /\ enabled' = FALSE
    /\ dying' = TRUE
    /\ call' = [pc |-> "stopping", goal |-> goal]

Start ==
    /\ Begin
    /\ DoStart
    /\ UNCHANGED <<enabled, listen, upstream, listener, acceptDone, blocker, clientVars>>

Stop ==
    /\ Begin
    /\ IF enabled
       THEN DoStop([listen |-> listen, upstream |-> upstream, enabled |-> FALSE])
       ELSE call' = Idle /\ UNCHANGED <<enabled, dying>>
    /\ UNCHANGED <<listen, upstream, server, listener, dead, acceptDone, blocker, clientVars>>

\* Update: other addresses stop the proxy first; then enable or disable it.
Update(goal) ==
    /\ Begin
    /\ LET moved == goal.listen # listen \/ goal.upstream # upstream
       IN IF enabled /\ (moved \/ ~goal.enabled)
          THEN /\ DoStop(goal)
               /\ UNCHANGED <<listen, upstream, server, dead>>
          ELSE /\ listen' = goal.listen
               /\ upstream' = goal.upstream
               /\ UNCHANGED enabled
               /\ IF goal.enabled /\ ~enabled THEN DoStart
                  ELSE call' = Idle /\ UNCHANGED <<server, dying, dead>>
    /\ UNCHANGED <<listener, acceptDone, blocker, clientVars>>

\* Mutant: the proxy counts as enabled whatever the listener said.
StartReturnsEnabled ==
    /\ call.pc \in {"started", "refused"}
    /\ enabled' = TRUE
    /\ call' = Idle
    /\ UNCHANGED <<listen, upstream, ncalls, server, tombVars, clientVars>>

\* err := <-proxy.started
StartReturns ==
    /\ call.pc \in {"started", "refused"}
    /\ enabled' = (call.pc = "started")
    /\ call' = Idle
    /\ UNCHANGED <<listen, upstream, ncalls, server, tombVars, clientVars>>

\* Mutant: stop leaves the connections open.
StopForgetsConnections ==
    /\ call.pc = "stopping"
    /\ dead
    /\ listen' = call.goal.listen
    /\ upstream' = call.goal.upstream
    /\ IF call.goal.enabled
       THEN /\ dying' = FALSE /\ dead' = FALSE
            /\ server' = [pc |-> "listen"]
            /\ call' = [pc |-> "starting"]
       ELSE call' = Idle /\ UNCHANGED <<server, dying, dead>>
    /\ UNCHANGED <<enabled, ncalls, listener, acceptDone, blocker, clientVars>>

\* proxy.tomb.Wait() is over: every connection in the list is closed, and an
\* Update goes on with its addresses.
StopReturns ==
    /\ call.pc = "stopping"
    /\ dead
    /\ socket' = [c \in Clients |-> IF <<c, "up">> \in conns THEN "closed" ELSE socket[c]]
    /\ listen' = call.goal.listen
    /\ upstream' = call.goal.upstream
    /\ IF call.goal.enabled
       THEN /\ dying' = FALSE /\ dead' = FALSE
            /\ server' = [pc |-> "listen"]
            /\ call' = [pc |-> "starting"]
       ELSE call' = Idle /\ UNCHANGED <<server, dying, dead>>
    /\ UNCHANGED <<enabled, ncalls, listener, acceptDone, blocker,
                   known, queue, conns, up, down, swallowed, received, forwarded>>

-----------------------------------------------------------------------------
(* The server goroutine *)

ServerQuiet == UNCHANGED <<enabled, upstream, ncalls, dying, dead>>

\* listen opens the socket and answers on started; the server then spawns
\* freeBlocker.  One step: what comes between (the caller sets Enabled) neither
\* reads nor changes what the spawning does.
ListenSucceeds ==
    /\ server.pc = "listen"
    /\ listener' = "open"
    /\ listen' = Resolved[listen]
    /\ call' = [pc |-> "started"]
    /\ acceptDone' = FALSE
    /\ blocker' = "waiting"
    /\ server' = [pc |-> "read"]
    /\ ServerQuiet /\ UNCHANGED clientVars

ListenRefused ==
    /\ server.pc = "listen"
    /\ call' = [pc |-> "refused"]
    /\ server' = NoClient
    /\ ServerQuiet /\ UNCHANGED <<listen, listener, acceptDone, blocker, clientVars>>

\* A datagram of a known client is to be queued; for a new client a queue is
\* made and the client is entered in portToClient before the upstream is dialled.
Receive(c) ==
    /\ server.pc = "read" /\ listener = "open"
    /\ received[c] < MaxPackets
    /\ received' = [received EXCEPT ![c] = @ + 1]
    /\ IF c \in known
       THEN /\ server' = [pc |-> "send", client |-> c]
            /\ UNCHANGED <<known, queue>>
       ELSE /\ server' = [pc |-> "dial", client |-> c]
            /\ known' = known \cup {c}
            /\ queue' = [queue EXCEPT ![c] = 1]
    /\ ServerQuiet
    /\ UNCHANGED <<listen, call, listener, acceptDone, blocker,
                   socket, conns, up, down, swallowed, forwarded>>

\* clientReader.incoming <- dst blocks while the channel is full.
Queued ==
    /\ server.pc = "send"
    /\ queue[server.client] < QueueCap
    /\ queue' = [queue EXCEPT ![server.client] = @ + 1]
    /\ server' = [pc |-> "read"]
    /\ ServerQuiet
    /\ UNCHANGED <<listen, call, listener, acceptDone, blocker,
                   known, socket, conns, up, down, swallowed, received, forwarded>>

\* The upstream is dialled, the connection registered, both links started.
Dialled ==
    /\ server.pc = "dial"
    /\ LET c == server.client
       IN /\ socket' = [socket EXCEPT ![c] = upstream]
          /\ conns' = conns \cup {<<c, "up">>, <<c, "down">>}
          /\ up' = [up EXCEPT ![c] = "running"]
          /\ down' = [down EXCEPT ![c] = "running"]
    /\ server' = [pc |-> "read"]
    /\ ServerQuiet
    /\ UNCHANGED <<listen, call, listener, acceptDone, blocker,
                   known, queue, swallowed, received, forwarded>>

DialFails ==
    /\ server.pc = "dial"
    /\ server' = [pc |-> "read"]
    /\ ServerQuiet
    /\ UNCHANGED <<listen, call, listener, acceptDone, blocker, clientVars>>

\* ReadFrom fails, on a closed listener always: the goroutine returns.
ServerReturns ==
    /\ server.pc = "read"
    /\ listener = "closed" \/ ListenerFails
    /\ server' = NoClient
    /\ acceptDone' = TRUE
    /\ ServerQuiet /\ UNCHANGED <<listen, call, listener, blocker, clientVars>>

\* Mutant: freeBlocker waits for the server without closing the listener.
CloseNothing ==
    /\ blocker = "waiting" /\ dying
    /\ blocker' = "accept"
    /\ UNCHANGED <<callVars, server, listener, dying, dead, acceptDone, clientVars>>

\* freeBlocker: on the death of the tomb the listener is closed ...
CloseListener ==
    /\ blocker = "waiting" /\ dying
    /\ listener' = "closed"
    /\ blocker' = "accept"
    /\ UNCHANGED <<callVars, server, dying, dead, acceptDone, clientVars>>

\* Mutant: the tomb is done while the server may still be running.
TombDoneEarly ==
    /\ blocker = "accept"
    /\ dead' = TRUE
    /\ blocker' = "none"
    /\ UNCHANGED <<callVars, server, listener, dying, acceptDone, clientVars>>

\* ... and when the server has returned the tomb is done.
TombDone ==
    /\ blocker = "accept" /\ acceptDone
    /\ dead' = TRUE
    /\ blocker' = "none"
    /\ UNCHANGED <<callVars, server, listener, dying, acceptDone, clientVars>>

-----------------------------------------------------------------------------
(* The links of a client, as ToxicLink.read and write drive them *)

LinkQuiet == UNCHANGED <<callVars, server, tombVars, known, received>>

\* A datagram goes from the queue to the upstream.
Forward(c) ==
    /\ up[c] = "running" /\ queue[c] > 0 /\ Open(c)
    /\ queue' = [queue EXCEPT ![c] = @ - 1]
    /\ forwarded' = [forwarded EXCEPT ![c] = @ + 1]
    /\ LinkQuiet /\ UNCHANGED <<socket, conns, up, down, swallowed>>

\* The write fails (socket closed, port unreachable): the writer closes the
\* socket and removes the link and its connection; nothing reads the queue.
ForwardFails(c) ==
    /\ up[c] = "running" /\ queue[c] > 0
    /\ queue' = [queue EXCEPT ![c] = @ - 1]
    /\ up' = [up EXCEPT ![c] = "ended"]
    /\ socket' = [socket EXCEPT ![c] = "closed"]
    /\ conns' = conns \ {<<c, "up">>}
    /\ LinkQuiet /\ UNCHANGED <<down, swallowed, forwarded>>

\* Mutant: UDPReader.Read does not wait for a datagram.
SwallowNothing(c) ==
    /\ up[c] = "ended" /\ swallowed[c] < Slack
    /\ queue' = [queue EXCEPT ![c] = @ - 1]
    /\ swallowed' = [swallowed EXCEPT ![c] = @ + 1]
    /\ LinkQuiet /\ UNCHANGED <<socket, conns, up, down, forwarded>>

\* The goroutines of the ended link still take a few datagrams.
Swallow(c) ==
    /\ up[c] = "ended" /\ queue[c] > 0 /\ swallowed[c] < Slack
    /\ queue' = [queue EXCEPT ![c] = @ - 1]
    /\ swallowed' = [swallowed EXCEPT ![c] = @ + 1]
    /\ LinkQuiet /\ UNCHANGED <<socket, conns, up, down, forwarded>>

\* Reading the socket or writing to the client fails.
DownEnds(c) ==
    /\ down[c] = "running"
    /\ down' = [down EXCEPT ![c] = "ended"]
    /\ conns' = conns \ {<<c, "down">>}
    /\ LinkQuiet /\ UNCHANGED <<queue, socket, up, swallowed, forwarded>>

-----------------------------------------------------------------------------
Calls == Start \/ Stop \/ \E goal \in Targets : Update(goal)

ServerStep == ListenSucceeds \/ ListenRefused \/ Queued \/ Dialled \/ DialFails

LinkStep(c) == Forward(c) \/ ForwardFails(c) \/ Swallow(c)

Next ==
    \/ Calls \/ StartReturns \/ StopReturns
    \/ ServerStep \/ ServerReturns \/ CloseListener \/ TombDone
    \/ \E c \in Clients : Receive(c) \/ LinkStep(c) \/ DownEnds(c)

Spec == Init /\ [][Next]_vars

(***************************************************************************)
(* Fairness: goroutines that can proceed do, a listen or a dial returns, a  *)
(* read of a closed listener fails, links move what is queued.  Nothing is  *)
(* assumed of callers, clients, or failures of an open listener.            *)
(***************************************************************************)
Fairness ==
    /\ WF_vars(StartReturns) /\ WF_vars(StopReturns)
    /\ WF_vars(ServerStep)
    /\ WF_vars(listener = "closed" /\ ServerReturns)
    /\ WF_vars(CloseListener) /\ WF_vars(TombDone)
    /\ \A c \in Clients : WF_vars(LinkStep(c))

FairSpec == Spec /\ Fairness

-----------------------------------------------------------------------------
(* Properties *)

\* Every variable holds a value of its type; no queue exceeds its capacity or
\* goes below zero.
TypeOK ==
    /\ enabled \in BOOLEAN
    /\ listen \in Listens
    /\ upstream \in Upstreams
    /\ call \in [pc : {"idle", "starting", "started", "refused"}]
                \cup [pc : {"stopping"}, goal : Targets]
    /\ ncalls \in 0..MaxCalls
    /\ server \in [pc : {"none", "listen", "read"}]
                  \cup [pc : {"send", "dial"}, client : Clients]
    /\ listener \in {"open", "closed"}
    /\ dying \in BOOLEAN /\ dead \in BOOLEAN /\ acceptDone \in BOOLEAN
    /\ blocker \in {"none", "waiting", "accept"}
    /\ known \subseteq Clients
    /\ queue \in [Clients -> 0..QueueCap]
    /\ socket \in [Clients -> Upstreams \cup {"none", "closed"}]
    /\ conns \subseteq Clients \X {"up", "down"}
    /\ up \in [Clients -> {"none", "running", "ended"}]
    /\ down \in [Clients -> {"none", "running", "ended"}]
    /\ swallowed \in [Clients -> 0..Slack]
    /\ received \in [Clients -> 0..MaxPackets]
    /\ forwarded \in [Clients -> Nat]

\* Between calls, a disabled proxy has no server and no freeBlocker goroutine,
\* no open listener and no open socket to an upstream, whatever the server was
\* doing when it was stopped.
StoppedIsQuiet ==
    call = Idle /\ ~enabled =>
        /\ server.pc = "none" /\ blocker = "none"
        /\ listener = "closed"
        /\ \A c \in Clients : ~Open(c)

\* An enabled proxy has an open listener, a freeBlocker that will close it, and
\* a server goroutine, unless the listener failed under that goroutine.
EnabledServes ==
    call = Idle /\ enabled =>
        /\ listener = "open" /\ blocker = "waiting"
        /\ server.pc \in {"read", "send", "dial"} \/ (ListenerFails /\ acceptDone)

\* A server goroutine is started only when the previous one, and the
\* freeBlocker that shares proxy.listener and proxy.tomb with it, are gone.
OneServer ==
    [][server.pc # "listen" /\ server'.pc = "listen" => server.pc = "none" /\ blocker = "none"]_vars

\* Between calls every open socket leads to the upstream that Proxy.Upstream
\* names: an Update leaves no client on the old one.
SocketsFollowUpstream ==
    call = Idle => \A c \in Clients : Open(c) => socket[c] = upstream

\* Start, Stop and Update return: the mutex is not held for ever.
CallsReturn == (call # Idle) ~> (call = Idle)

\* While the server waits for the next datagram, every client it has accepted
\* is connected to the upstream by a link.
AcceptedClientsLinked ==
    call = Idle /\ server.pc = "read" => \A c \in known : up[c] = "running" /\ Open(c)
=============================================================================
