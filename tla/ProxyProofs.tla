---------------------------- MODULE ProxyProofs -----------------------------
(***************************************************************************)
(* For any number of clients, addresses, datagrams and calls: what a proxy    *)
(* has open between two calls, whom its sockets lead to, and that its server  *)
(* and freeBlocker goroutines never meet those of an earlier start.           *)
(***************************************************************************)
EXTENDS Proxy, TLAPS

\* The server goroutine runs, or has returned and said so on acceptTomb.
Accepting ==
    \/ server.pc \in {"read", "send", "dial"} /\ ~acceptDone
    \/ server.pc = "none" /\ acceptDone

\* The listener is open and the tomb alive; the server may have lost it only by
\* a failure.
Serving ==
    /\ listener = "open" /\ blocker = "waiting"
    /\ ~dead /\ Accepting
    /\ server.pc = "none" => ListenerFails

\* Nothing is left of the last start.
Quiet ==
    /\ server.pc = "none" /\ blocker = "none" /\ listener = "closed"
    /\ \A c \in Clients : ~Open(c)

\* freeBlocker closes the listener, waits for the server, and the tomb is done.
Stopping ==
    \/ Serving
    \/ blocker = "accept" /\ listener = "closed" /\ ~dead /\ Accepting
    \/ blocker = "none" /\ listener = "closed" /\ dead /\ server.pc = "none"

\* Which goroutines exist at each point of a call.
Phase ==
    /\ call.pc = "idle" /\ enabled => Serving /\ ~dying
    /\ call.pc = "idle" /\ ~enabled => Quiet
    /\ call.pc # "idle" => ~enabled
    /\ call.pc = "starting" =>
         /\ server.pc = "listen" /\ blocker = "none" /\ listener = "closed"
         /\ ~dying /\ ~dead
         /\ \A c \in Clients : ~Open(c)
    /\ call.pc = "started" => Serving /\ ~dying
    /\ call.pc = "refused" => Quiet
    /\ call.pc = "stopping" => Stopping /\ dying

\* A socket is open only while its connection is in the list that stop closes,
\* and leads to the upstream.
Sockets == \A c \in Clients : Open(c) => <<c, "up">> \in conns /\ socket[c] = upstream

IndInv == TypeOK /\ Phase /\ Sockets

-----------------------------------------------------------------------------
CallType == [pc : {"idle", "starting", "started", "refused"}]
            \cup [pc : {"stopping"}, goal : Targets]

ServerType == [pc : {"none", "listen", "read"}] \cup [pc : {"send", "dial"}, client : Clients]

\* The values that start and stop give to the call and the server.
LEMMA CallValues ==
    /\ Idle \in CallType /\ [pc |-> "starting"] \in CallType
    /\ [pc |-> "listen"] \in ServerType /\ NoClient \in ServerType
    /\ \A g \in Targets : [pc |-> "stopping", goal |-> g] \in CallType
BY DEF CallType, ServerType, Idle, NoClient

\* The types are inductive alone: a queue is filled only below its capacity and
\* emptied only above zero.
LEMMA TypeStep ==
    ASSUME TypeOK, [Next]_vars
    PROVE  TypeOK'
<1> USE ProxyAssumption DEF TypeOK, clientVars
<1>1. CASE Start
  <2>1. ncalls' \in 0..MaxCalls
    BY <1>1 DEF Start, Begin
  <2>2. CASE enabled
    BY <1>1, <2>1, <2>2 DEF Start, DoStart, Idle
  <2>3. CASE ~enabled
    <3>1. call' \in CallType /\ server' \in ServerType
      BY <1>1, <2>3, CallValues DEF Start, DoStart
    <3> QED
      BY <1>1, <2>1, <2>3, <3>1 DEF Start, DoStart, CallType, ServerType
  <2> QED
    BY <2>2, <2>3
<1>2. CASE Stop
  <2>1. ncalls' \in 0..MaxCalls
    BY <1>2 DEF Stop, Begin
  <2>2. CASE enabled
    <3>1. [listen |-> listen, upstream |-> upstream, enabled |-> FALSE] \in Targets
      BY DEF Targets
    <3>2. call' \in CallType
      BY <1>2, <2>2, <3>1, CallValues DEF Stop, DoStop
    <3> QED
      BY <1>2, <2>1, <2>2, <3>2 DEF Stop, DoStop, CallType
  <2>3. CASE ~enabled
    BY <1>2, <2>1, <2>3 DEF Stop, Idle
  <2> QED
    BY <2>2, <2>3
<1>3. CASE \E goal \in Targets : Update(goal)
  <2>1. PICK goal \in Targets : Update(goal)
    BY <1>3
  <2> DEFINE moved == goal.listen # listen \/ goal.upstream # upstream
  <2>2. ncalls' \in 0..MaxCalls /\ goal.listen \in Listens /\ goal.upstream \in Upstreams
    BY <2>1 DEF Update, Begin, Targets
  <2>3. CASE enabled /\ (moved \/ ~goal.enabled)
    <3>1. call' \in CallType
      BY <2>1, <2>3, CallValues DEF Update, DoStop
    <3> QED
      BY <2>1, <2>2, <2>3, <3>1 DEF Update, DoStop, CallType
  <2>4. CASE ~(enabled /\ (moved \/ ~goal.enabled)) /\ goal.enabled /\ ~enabled
    <3>1. call' \in CallType /\ server' \in ServerType
      BY <2>1, <2>4, CallValues DEF Update, DoStart
    <3> QED
      BY <2>1, <2>2, <2>4, <3>1 DEF Update, DoStart, CallType, ServerType
  <2>5. CASE ~(enabled /\ (moved \/ ~goal.enabled)) /\ ~(goal.enabled /\ ~enabled)
    BY <2>1, <2>2, <2>5 DEF Update, Idle
  <2> QED
    BY <2>3, <2>4, <2>5
<1>4. CASE StartReturns
  BY <1>4 DEF StartReturns, tombVars, Idle
<1>5. CASE StopReturns
  <2>1. /\ call.goal \in Targets /\ call.goal.listen \in Listens
        /\ call.goal.upstream \in Upstreams
    BY <1>5 DEF StopReturns, Targets
  <2>2. socket' \in [Clients -> Upstreams \cup {"none", "closed"}]
    BY <1>5 DEF StopReturns
  <2>3. CASE call.goal.enabled
    <3>1. call' \in CallType /\ server' \in ServerType
      BY <1>5, <2>3, CallValues DEF StopReturns
    <3> QED
      BY <1>5, <2>1, <2>2, <2>3, <3>1 DEF StopReturns, CallType, ServerType
  <2>4. CASE ~call.goal.enabled
    BY <1>5, <2>1, <2>2, <2>4 DEF StopReturns, Idle
  <2> QED
    BY <2>3, <2>4
<1>6. CASE ListenSucceeds
  BY <1>6 DEF ListenSucceeds, ServerQuiet
<1>7. CASE ListenRefused
  BY <1>7 DEF ListenRefused, ServerQuiet, NoClient
<1>8. CASE Queued
  BY <1>8 DEF Queued, ServerQuiet
<1>9. CASE Dialled
  BY <1>9 DEF Dialled, ServerQuiet
<1>10. CASE DialFails
  BY <1>10 DEF DialFails, ServerQuiet
<1>11. CASE ServerReturns
  BY <1>11 DEF ServerReturns, ServerQuiet, NoClient
<1>12. CASE CloseListener
  BY <1>12 DEF CloseListener, callVars
<1>13. CASE TombDone
  BY <1>13 DEF TombDone, callVars
<1>14. ASSUME NEW c \in Clients, Receive(c)
      PROVE  TypeOK'
  BY <1>14 DEF Receive, ServerQuiet
<1>15. ASSUME NEW c \in Clients, Forward(c)
      PROVE  TypeOK'
  BY <1>15 DEF Forward, LinkQuiet, callVars, tombVars
<1>16. ASSUME NEW c \in Clients, ForwardFails(c)
      PROVE  TypeOK'
  BY <1>16 DEF ForwardFails, LinkQuiet, callVars, tombVars
<1>17. ASSUME NEW c \in Clients, Swallow(c)
      PROVE  TypeOK'
  BY <1>17 DEF Swallow, LinkQuiet, callVars, tombVars
<1>18. ASSUME NEW c \in Clients, DownEnds(c)
      PROVE  TypeOK'
  BY <1>18 DEF DownEnds, LinkQuiet, callVars, tombVars
<1>19. CASE UNCHANGED vars
  BY <1>19 DEF vars
<1> QED
  BY <1>1, <1>2, <1>3, <1>4, <1>5, <1>6, <1>7, <1>8, <1>9, <1>10, <1>11, <1>12, <1>13, <1>14, <1>15, <1>16, <1>17, <1>18, <1>19
     DEF Next, Calls, ServerStep, LinkStep

\* The phases: each step leads from the goroutines of one point of a call to
\* those of the next.
LEMMA PhaseStep ==
    ASSUME IndInv, TypeOK', [Next]_vars
    PROVE  Phase'
<1> USE DEF IndInv, TypeOK, Phase, Serving, Accepting, Stopping, Quiet, Open, clientVars
<1>1. CASE Start
  BY <1>1 DEF Begin, Start, DoStart, Idle
<1>2. CASE Stop
  BY <1>2 DEF Begin, Stop, DoStop, Idle, Targets
<1>3. CASE \E goal \in Targets : Update(goal)
  BY <1>3 DEF Begin, Update, DoStart, DoStop, Idle, Targets
<1>4. CASE StartReturns
  BY <1>4 DEF StartReturns, tombVars, Idle
<1>5. CASE StopReturns
  <2>1. \A c \in Clients : ~Open(c)'
    BY <1>5, ProxyAssumption DEF StopReturns, Sockets
  <2>2. /\ server.pc = "none" /\ blocker = "none" /\ listener = "closed" /\ ~enabled
    BY <1>5 DEF StopReturns
  <2>3. UNCHANGED <<blocker, listener, enabled>>
    BY <1>5 DEF StopReturns
  <2>4. CASE call.goal.enabled
    <3>1. server'.pc = "listen" /\ call'.pc = "starting" /\ ~dying' /\ ~dead'
      BY <1>5, <2>4 DEF StopReturns
    <3> QED
      BY <2>1, <2>2, <2>3, <3>1
  <2>5. CASE ~call.goal.enabled
    <3>1. server' = server /\ call'.pc = "idle"
      BY <1>5, <2>5 DEF StopReturns, Idle
    <3> QED
      BY <2>1, <2>2, <2>3, <3>1
  <2> QED
    BY <2>4, <2>5
<1>6. CASE ListenSucceeds
  BY <1>6 DEF ListenSucceeds, ServerQuiet
<1>7. CASE ListenRefused
  BY <1>7 DEF ListenRefused, ServerQuiet, NoClient
<1>8. CASE Queued
  BY <1>8 DEF Queued, ServerQuiet
<1>9. CASE Dialled
  BY <1>9 DEF Dialled, ServerQuiet
<1>10. CASE DialFails
  BY <1>10 DEF DialFails, ServerQuiet
<1>11. CASE ServerReturns
  BY <1>11 DEF ServerReturns, ServerQuiet, NoClient
<1>12. CASE CloseListener
  BY <1>12 DEF CloseListener, callVars
<1>13. CASE TombDone
  BY <1>13 DEF TombDone, callVars
<1>14. ASSUME NEW c \in Clients, Receive(c)
      PROVE  Phase'
  BY <1>14 DEF Receive, ServerQuiet
<1>15. ASSUME NEW c \in Clients, Forward(c)
      PROVE  Phase'
  BY <1>15 DEF Forward, LinkQuiet, callVars, tombVars
<1>16. ASSUME NEW c \in Clients, ForwardFails(c)
      PROVE  Phase'
  BY <1>16, ProxyAssumption DEF ForwardFails, LinkQuiet, callVars, tombVars
<1>17. ASSUME NEW c \in Clients, Swallow(c)
      PROVE  Phase'
  BY <1>17 DEF Swallow, LinkQuiet, callVars, tombVars
<1>18. ASSUME NEW c \in Clients, DownEnds(c)
      PROVE  Phase'
  BY <1>18 DEF DownEnds, LinkQuiet, callVars, tombVars
<1>19. CASE UNCHANGED vars
  BY <1>19 DEF vars
<1> QED
  BY <1>1, <1>2, <1>3, <1>4, <1>5, <1>6, <1>7, <1>8, <1>9, <1>10, <1>11, <1>12, <1>13, <1>14, <1>15, <1>16, <1>17, <1>18, <1>19
     DEF Next, Calls, ServerStep, LinkStep

\* The sockets: the upstream changes only when no socket is open.
LEMMA SocketsStep ==
    ASSUME IndInv, [Next]_vars
    PROVE  Sockets'
<1> USE DEF IndInv, Sockets, Open, clientVars
<1>1. CASE Start
  BY <1>1 DEF Begin, Start, DoStart, Idle, TypeOK, Phase, Quiet
<1>2. CASE Stop
  BY <1>2 DEF Begin, Stop, DoStop, Idle, Targets, TypeOK, Phase, Quiet
<1>3. CASE \E goal \in Targets : Update(goal)
  BY <1>3 DEF Begin, Update, DoStart, DoStop, Idle, Targets, TypeOK, Phase, Quiet
<1>4. CASE StartReturns
  BY <1>4 DEF StartReturns, tombVars, Idle, TypeOK, Phase, Quiet
<1>5. CASE StopReturns
  BY <1>5, ProxyAssumption DEF StopReturns, TypeOK
<1>6. CASE ListenSucceeds
  BY <1>6 DEF ListenSucceeds, ServerQuiet, TypeOK, Phase, Quiet
<1>7. CASE ListenRefused
  BY <1>7 DEF ListenRefused, ServerQuiet, NoClient, TypeOK, Phase, Quiet
<1>8. CASE Queued
  BY <1>8 DEF Queued, ServerQuiet, TypeOK, Phase, Quiet
<1>9. CASE Dialled
  BY <1>9 DEF Dialled, ServerQuiet, TypeOK, Phase, Quiet
<1>10. CASE DialFails
  BY <1>10 DEF DialFails, ServerQuiet, TypeOK, Phase, Quiet
<1>11. CASE ServerReturns
  BY <1>11 DEF ServerReturns, ServerQuiet, NoClient, TypeOK, Phase, Quiet
<1>12. CASE CloseListener
  BY <1>12 DEF CloseListener, callVars, TypeOK, Phase, Quiet
<1>13. CASE TombDone
  BY <1>13 DEF TombDone, callVars, TypeOK, Phase, Quiet
<1>14. ASSUME NEW c \in Clients, Receive(c)
      PROVE  Sockets'
  BY <1>14 DEF Receive, ServerQuiet, TypeOK
<1>15. ASSUME NEW c \in Clients, Forward(c)
      PROVE  Sockets'
  BY <1>15 DEF Forward, LinkQuiet, callVars, tombVars, TypeOK
<1>16. ASSUME NEW c \in Clients, ForwardFails(c)
      PROVE  Sockets'
  BY <1>16, ProxyAssumption DEF ForwardFails, LinkQuiet, callVars, tombVars, TypeOK
<1>17. ASSUME NEW c \in Clients, Swallow(c)
      PROVE  Sockets'
  BY <1>17 DEF Swallow, LinkQuiet, callVars, tombVars, TypeOK
<1>18. ASSUME NEW c \in Clients, DownEnds(c)
      PROVE  Sockets'
  BY <1>18 DEF DownEnds, LinkQuiet, callVars, tombVars, TypeOK
<1>19. CASE UNCHANGED vars
  BY <1>19 DEF vars
<1> QED
  BY <1>1, <1>2, <1>3, <1>4, <1>5, <1>6, <1>7, <1>8, <1>9, <1>10, <1>11, <1>12, <1>13, <1>14, <1>15, <1>16, <1>17, <1>18, <1>19
     DEF Next, Calls, ServerStep, LinkStep

\* Types, goroutines and sockets, in step with Start, Stop and Update: the
\* inductive invariant from which the other results follow.
THEOREM Consistent == Spec => []IndInv
<1>1. Init => IndInv
  <2> SUFFICES ASSUME Init
               PROVE  IndInv
    OBVIOUS
  <2>1. TypeOK
    <3>1. call \in CallType /\ server \in ServerType
      BY CallValues DEF Init
    <3>2. ncalls \in 0..MaxCalls /\ 0 \in 0..QueueCap /\ 0 \in 0..Slack /\ 0 \in 0..MaxPackets
      BY ProxyAssumption DEF Init
    <3>3. /\ queue \in [Clients -> 0..QueueCap] /\ swallowed \in [Clients -> 0..Slack]
          /\ received \in [Clients -> 0..MaxPackets] /\ forwarded \in [Clients -> Nat]
      BY <3>2 DEF Init
    <3>4. /\ socket \in [Clients -> Upstreams \cup {"none", "closed"}]
          /\ up \in [Clients -> {"none", "running", "ended"}]
          /\ down \in [Clients -> {"none", "running", "ended"}]
      BY DEF Init
    <3>5. /\ enabled \in BOOLEAN /\ listen \in Listens /\ upstream \in Upstreams
          /\ listener \in {"open", "closed"} /\ blocker \in {"none", "waiting", "accept"}
          /\ dying \in BOOLEAN /\ dead \in BOOLEAN /\ acceptDone \in BOOLEAN
          /\ known \subseteq Clients /\ conns \subseteq Clients \X {"up", "down"}
      BY DEF Init
    <3> QED
      BY <3>1, <3>2, <3>3, <3>4, <3>5 DEF TypeOK, CallType, ServerType
  <2>2. Phase /\ Sockets
    BY ProxyAssumption DEF Init, Phase, Quiet, Sockets, Open, Idle, NoClient
  <2> QED
    BY <2>1, <2>2 DEF IndInv
<1>2. IndInv /\ [Next]_vars => IndInv'
  <2> SUFFICES ASSUME IndInv, [Next]_vars
               PROVE  IndInv'
    OBVIOUS
  <2>1. TypeOK'
    BY TypeStep DEF IndInv
  <2> QED
    BY <2>1, PhaseStep, SocketsStep DEF IndInv
<1> QED
  BY <1>1, <1>2, PTL DEF Spec

\* Every variable keeps its type; in particular no queue of a client exceeds
\* the capacity of its channel (UDPReader.incoming).
THEOREM TypeCorrect == Spec => []TypeOK
<1>1. IndInv => TypeOK
  BY DEF IndInv
<1> QED
  BY <1>1, Consistent, PTL

\* Between calls a disabled proxy has no goroutine, listener or socket left,
\* whatever the server was doing when Stop or Update killed its tomb.
THEOREM StoppedIsAlwaysQuiet == Spec => []StoppedIsQuiet
<1>1. IndInv => StoppedIsQuiet
  BY DEF IndInv, Phase, Quiet, StoppedIsQuiet, Idle
<1> QED
  BY <1>1, Consistent, PTL

\* Between calls an enabled proxy has its listener and freeBlocker, and its
\* server unless the listener failed.
THEOREM EnabledAlwaysServes == Spec => []EnabledServes
<1>1. IndInv => EnabledServes
  BY DEF IndInv, Phase, Serving, Accepting, EnabledServes, Idle
<1> QED
  BY <1>1, Consistent, PTL

\* Every open socket leads to proxy.Upstream, whatever updates came before.
THEOREM SocketsAlwaysFollowUpstream == Spec => []SocketsFollowUpstream
<1>1. IndInv => SocketsFollowUpstream
  BY DEF IndInv, Sockets, SocketsFollowUpstream
<1> QED
  BY <1>1, Consistent, PTL

\* start never runs a server while the server or the freeBlocker of an earlier
\* start is left.
THEOREM AlwaysOneServer == Spec => OneServer
<1> DEFINE A == server.pc # "listen" /\ server'.pc = "listen"
                => server.pc = "none" /\ blocker = "none"
<1>1. IndInv /\ [Next]_vars => [A]_vars
  <2> SUFFICES ASSUME IndInv, Next, server.pc # "listen", server'.pc = "listen"
               PROVE  server.pc = "none" /\ blocker = "none"
    BY DEF vars
  <2> USE DEF IndInv, Phase, Quiet, Idle, clientVars
  <2>1. CASE Calls
    BY <2>1 DEF Calls, Start, Stop, Update, Begin, DoStart, DoStop
  <2>2. CASE StopReturns
    BY <2>2 DEF StopReturns, Stopping, Serving
  <2>3. CASE ServerStep \/ ServerReturns
    BY <2>3 DEF ServerStep, ServerReturns, ListenSucceeds, ListenRefused, Queued, Dialled,
                DialFails, NoClient
  <2>4. CASE StartReturns \/ CloseListener \/ TombDone
    BY <2>4 DEF StartReturns, CloseListener, TombDone
  <2>5. CASE \E c \in Clients : Receive(c) \/ LinkStep(c) \/ DownEnds(c)
    BY <2>5 DEF Receive, LinkStep, Forward, ForwardFails, Swallow, DownEnds, LinkQuiet
  <2> QED
    BY <2>1, <2>2, <2>3, <2>4, <2>5 DEF Next
<1> QED
  BY <1>1, Consistent, PTL DEF Spec, OneServer
=============================================================================
