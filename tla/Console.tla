------------------------------ MODULE Console -------------------------------
(***************************************************************************)
(* The life of the server process (cmd/server/server.go; Listen, Shutdown,    *)
(* PopulateConfig and timeoutMiddleware of api.go) and the command line       *)
(* client (cmd/cli/cli.go) that talks to it over HTTP.  A command is a        *)
(* sequence of requests; other commands, other API clients, timeouts, a       *)
(* signal and a restart come in between.  A request takes effect in one step: *)
(* module Api has the inside of the handlers.  Upstream addresses behave as   *)
(* listen addresses do and are left out.  Time is counted in units of 25 s,    *)
(* with timeouts rounded up.                                                  *)
(***************************************************************************)
EXTENDS Integers, FiniteSets

CONSTANTS
    Clients,        \* processes that use the API, one command each at a time
    Uses,           \* [Clients -> SUBSET Kinds]: the commands that each of them runs
    Names,          \* proxy names
    Listens,        \* addresses
    None,           \* no proxy, no toxic
    Values,         \* attributes of a toxic
    ConfigFile,     \* [Names -> Proxy or None]: the proxies of the -config file
    MaxCommands,    \* bound: commands
    MaxSignals      \* bound: signals

\* The commands.  "inspect" stands for list, too, which asks for all proxies and
\* changes none either; "move" is no command but a PATCH of an address by
\* another client of the API.
Kinds == {"inspect", "create", "toggle", "delete", "addToxic", "updateToxic",
          "removeToxic", "move"}

Proxy == [listen : Listens, enabled : BOOLEAN, toxic : Values \cup {None}]

ASSUME ConsoleAssumption ==
    /\ None \notin Clients /\ None \notin Proxy /\ None \notin Values
    /\ Uses \in [Clients -> SUBSET Kinds]
    /\ ConfigFile \in [Names -> Proxy \cup {None}]
    /\ MaxCommands \in Nat /\ MaxSignals \in Nat

VARIABLES
    phase,      \* the server process
    notified,   \* it handles signals
    store,      \* its proxies
    conn,       \* the request of each client, as the server sees it
    late,       \* the request of each command whose handler goes on after a 503
    drain,      \* time since Shutdown was called
    slow,       \* history: a client was still sending when Shutdown was called
    cl,         \* the command that each client runs
    log,        \* history: what each command changed, and what it was told
    commands,   \* number of commands
    signals     \* number of signals

vars == <<phase, notified, store, conn, late, drain, slow, cl, log, commands, signals>>

serverVars == <<phase, notified, drain, slow, signals>>

NoConn == [pc |-> "none"]

Idle == [pc |-> "idle"]

\* Commands, in the order in which they start.
Ids == 1..MaxCommands

\* History of a command before it starts: what it undertakes, the changes it has
\* made, and what its user was told.
Fresh == [duty |-> "none", made |-> 0, told |-> "nothing"]

Init ==
    /\ phase = "config" /\ notified = FALSE /\ drain = 0 /\ slow = FALSE
    /\ store = [n \in Names |-> None]
    /\ conn = [c \in Clients |-> NoConn] /\ late = [i \in Ids |-> None]
    /\ cl = [c \in Clients |-> Idle] /\ log = [i \in Ids |-> Fresh]
    /\ commands = 0 /\ signals = 0

-----------------------------------------------------------------------------
(* What a request is answered, and what it makes of its proxy: [code, proxy] *)

Ok(x) == [code |-> "ok", proxy |-> x]

Error(x) == [code |-> "error", proxy |-> x]

\* ProxyCreate: the listener may not open.
Create(old, l) ==
    IF old # None THEN {Error(old)}
    ELSE {Ok([listen |-> l, enabled |-> TRUE, toxic |-> None]), Error(None)}

\* Proxy.Update with all fields given.  A proxy that moves is stopped first,
\* and stays so if the new listener does not open.
Save(old, listen, enabled) ==
    LET moved == listen # old.listen
        with(e) == [old EXCEPT !.listen = listen, !.enabled = e]
    IN CASE ~enabled -> {Ok(with(FALSE))}
         [] enabled /\ old.enabled /\ ~moved -> {Ok(old)}
         [] OTHER -> {Ok(with(TRUE)), Error(with(FALSE))}

\* UpdateToxicJson: the decoder may fail before or after it wrote the value.
UpdateToxic(old, v) ==
    IF old.toxic = None THEN {Error(old)}
    ELSE {Ok([old EXCEPT !.toxic = v]), Error([old EXCEPT !.toxic = v]), Error(old)}

\* ToxicCreate.  The toxics of a client's commands have one name.
AddToxic(old, v) ==
    IF old.toxic = None THEN {Ok([old EXCEPT !.toxic = v])} ELSE {Error(old)}

\* ToxicDelete.
RemoveToxic(old) ==
    IF old.toxic = None THEN {Error(old)} ELSE {Ok([old EXCEPT !.toxic = None])}

\* ProxyShow and ProxyDelete.
Show(old) == {Ok(old)}

Delete == {Ok(None)}

\* The route of request r, and its outcomes on a proxy in state old.  Of a
\* proxy that does not exist there is only an error.
Outcomes(r, old) ==
    IF r.kind = "create" THEN Create(old, r.listen)
    ELSE IF old = None THEN {Error(None)}
    ELSE CASE r.kind = "get" -> Show(old)
           [] r.kind = "save" -> Save(old, r.listen, r.enabled)
           [] r.kind = "move" -> Save(old, r.listen, old.enabled)
           [] r.kind = "delete" -> Delete
           [] r.kind = "addToxic" -> AddToxic(old, r.value)
           [] r.kind = "updateToxic" -> UpdateToxic(old, r.value)
           [] r.kind = "removeToxic" -> RemoveToxic(old)

\* The second request of a toggle does not find the proxy as the first read it.
Stale(r, old) ==
    r.kind = "save" /\ old # None /\ (r.listen # old.listen \/ r.enabled = old.enabled)

\* Request r of command i has the outcome o.
Applied(i, r, o) ==
    LET old == store[r.name]
    IN  /\ store' = [store EXCEPT ![r.name] = o.proxy]
        /\ log' = [log EXCEPT ![i].made = IF o.proxy = old THEN @ ELSE @ + 1,
                              ![i].duty = IF Stale(r, old) THEN "try" ELSE @]

-----------------------------------------------------------------------------
(* Requests in the server *)

ReadTimeout == 1        \* 15 s

\* Mutant: a handler has as long as the shutdown waits.
LongHandlerTimeout == 2

HandlerTimeout == 1     \* 25 s

WaitTimeout == 2        \* 30 s

Answered(c, o) == conn' = [conn EXCEPT ![c] = [pc |-> "answered", out |-> o]]

\* The clients in S are not told what became of their requests.
Breaks(S, how) ==
    conn' = [c \in Clients |-> IF c \in S THEN [pc |-> "broken", how |-> how] ELSE conn[c]]

\* The header has been read, and the request has passed the middleware.
Routed(c) ==
    /\ conn[c].pc = "reading" /\ phase \in {"serving", "draining"}
    /\ conn' = [conn EXCEPT ![c].pc = "running", ![c].start = conn[c].age]
    /\ UNCHANGED <<serverVars, store, late, cl, log, commands>>

\* Of the answers, only that to a GET is read for more than its status.
Reply(r, o) == IF r.kind = "get" THEN o ELSE [o EXCEPT !.proxy = None]

Handled(c) ==
    /\ conn[c].pc = "running"
    /\ \E o \in Outcomes(conn[c].req, store[conn[c].req.name]) :
         /\ Applied(cl[c].id, conn[c].req, o)
         /\ Answered(c, Reply(conn[c].req, o))
    /\ UNCHANGED <<serverVars, late, cl, commands>>

\* How long the handler has been running.
Running(c) == conn[c].age - conn[c].start

\* Mutant: the router does not use the middleware.
TimeoutMiddlewareUnused(c) == conn[c].pc = "unused" /\ UNCHANGED vars

\* http.TimeoutHandler answers 503; the handler goes on, with an effect unless it
\* only reads.
TimeoutMiddleware(c) ==
    /\ conn[c].pc = "running" /\ Running(c) = HandlerTimeout
    /\ late' = [late EXCEPT ![cl[c].id] =
                   IF conn[c].req.kind = "get" THEN None ELSE conn[c].req]
    /\ Answered(c, [code |-> "unavailable", proxy |-> None])
    /\ UNCHANGED <<serverVars, store, cl, log, commands>>

\* A client that does not finish the header of its request is disconnected.
ReadTimesOut(c) ==
    /\ conn[c].pc = "reading" /\ conn[c].age = ReadTimeout
    /\ Breaks({c}, "timeout")
    /\ UNCHANGED <<serverVars, store, late, cl, log, commands>>

HasBody(r) == r.kind \in {"create", "save", "move", "addToxic", "updateToxic"}

\* The decoder in the handler does not get the rest of the body: 400.
BodyTimesOut(c) ==
    /\ conn[c].pc = "running" /\ HasBody(conn[c].req) /\ conn[c].age >= ReadTimeout
    /\ Answered(c, Error(None))
    /\ UNCHANGED <<serverVars, store, late, cl, log, commands>>

\* A handler that was given up ends; nobody sees its answer.
LateHandled(i) ==
    /\ late[i] # None
    /\ late' = [late EXCEPT ![i] = None]
    /\ \E o \in Outcomes(late[i], store[late[i].name]) : Applied(i, late[i], o)
    /\ UNCHANGED <<serverVars, conn, cl, commands>>

-----------------------------------------------------------------------------
(* The server process *)

Active == {c \in Clients : conn[c].pc \in {"reading", "running"}}

\* PopulateConfig, before anything else: an error leaves the rest out.
PopulateConfig ==
    /\ phase = "config"
    /\ \E S \in SUBSET {n \in Names : ConfigFile[n] # None} :
         store' = [n \in Names |-> IF n \in S THEN ConfigFile[n] ELSE None]
    /\ phase' = "starting"
    /\ UNCHANGED <<notified, conn, late, drain, slow, cl, log, commands, signals>>

\* The goroutine of Listen.  An error is logged, and the process stays.
Listen ==
    /\ phase = "starting"
    /\ phase' \in {"serving", "refused"}
    /\ UNCHANGED <<notified, store, conn, late, drain, slow, cl, log, commands, signals>>

\* signal.Notify, in the main goroutine.
Notify ==
    /\ phase \in {"starting", "serving", "refused"} /\ ~notified
    /\ notified' = TRUE
    /\ UNCHANGED <<phase, store, conn, late, drain, slow, cl, log, commands, signals>>

\* The process ends; what is in progress is lost.
Exits(how) ==
    /\ phase' = "exited"
    /\ Breaks(Active, how)
    /\ late' = [i \in Ids |-> None] /\ drain' = 0 /\ slow' = FALSE
    /\ UNCHANGED <<notified, store, cl, log, commands>>

\* SIGINT or SIGTERM.  Until Notify it ends the process.  Shutdown returns at
\* once if there is no server, else it closes the listener and waits.
Signal ==
    /\ signals < MaxSignals /\ signals' = signals + 1
    /\ \/ phase \in {"config", "starting", "serving", "refused"} /\ ~notified /\ Exits("killed")
       \/ phase \in {"starting", "refused"} /\ notified /\ Exits("clean")
       \/ /\ phase = "serving" /\ notified
          /\ phase' = "draining"
          /\ slow' = \E c \in Clients : conn[c].pc = "reading"
          /\ UNCHANGED <<notified, store, conn, late, drain, cl, log, commands>>

\* Mutant: Shutdown waits for the handlers, and without a deadline.
ShutdownWaits ==
    /\ phase = "draining"
    /\ Active = {} /\ (\A i \in Ids : late[i] = None) /\ Exits("clean")
    /\ UNCHANGED signals

Shutdown ==
    /\ phase = "draining"
    /\ \/ Active = {} /\ Exits("clean")
       \/ Active # {} /\ drain = WaitTimeout
          /\ Exits(IF slow THEN "slow" ELSE "deadline")
    /\ UNCHANGED signals

\* A supervisor starts the process again.
Restart ==
    /\ phase = "exited"
    /\ phase' = "config" /\ notified' = FALSE
    /\ store' = [n \in Names |-> None]
    /\ UNCHANGED <<conn, late, drain, slow, cl, log, commands, signals>>

\* Time passes up to the next timeout.
Tick ==
    /\ Active # {} \/ phase = "draining"
    /\ \A c \in Clients : /\ conn[c].pc = "reading" => conn[c].age < ReadTimeout
                          /\ conn[c].pc = "running" => Running(c) < HandlerTimeout
    /\ phase = "draining" => drain < WaitTimeout /\ Active # {}
    /\ conn' = [c \in Clients |->
                  IF c \in Active THEN [conn[c] EXCEPT !.age = @ + 1] ELSE conn[c]]
    /\ drain' = IF phase = "draining" THEN drain + 1 ELSE 0
    /\ UNCHANGED <<phase, notified, store, late, slow, cl, log, commands, signals>>

-----------------------------------------------------------------------------
(* Commands *)

Request(kind, n) == [kind |-> kind, name |-> n]

\* list and inspectProxy read and print.  toggleProxy and deleteProxy read first.
ReadRequests(n) == {Request("get", n)}

\* createProxy, or a PATCH of an address.
ListenRequests(k, n) == {[kind |-> k, name |-> n, listen |-> l] : l \in Listens}

\* addToxic, updateToxic and removeToxic.
ToxicRequests(k, n) ==
    IF k = "removeToxic" THEN {Request(k, n)}
    ELSE {[kind |-> k, name |-> n, value |-> v] : v \in Values}

\* The request that command k sends first, for proxy n.
FirstRequests(k, n) ==
    CASE k \in {"inspect", "toggle", "delete"} -> ReadRequests(n)
      [] k \in {"create", "move"} -> ListenRequests(k, n)
      [] k \in {"addToxic", "updateToxic", "removeToxic"} -> ToxicRequests(k, n)

\* What a command undertakes: to change nothing, to make its change or none, or
\* to try, which may fail halfway or find nothing to change.
Duty(k) ==
    CASE k = "inspect" -> "read"
      [] k \in {"move", "updateToxic"} -> "try"
      [] OTHER -> "change"

\* A command with arguments that pass.  The others exit at once.
Command(c, k, n) ==
    /\ cl[c].pc = "idle" /\ commands < MaxCommands
    /\ commands' = commands + 1
    /\ \E r \in FirstRequests(k, n) :
         cl' = [cl EXCEPT ![c] = [pc |-> "send", id |-> commands', kind |-> k, name |-> n,
                                  req |-> r]]
    /\ log' = [log EXCEPT ![commands'].duty = Duty(k)]
    /\ UNCHANGED <<serverVars, store, conn, late>>

\* The request of a client reaches a listening server.
Send(c) ==
    /\ cl[c].pc = "send" /\ phase = "serving"
    /\ cl' = [cl EXCEPT ![c].pc = "wait"]
    /\ conn' = [conn EXCEPT ![c] = [pc |-> "reading", age |-> 0, start |-> 0,
                                   req |-> cl[c].req]]
    /\ UNCHANGED <<serverVars, store, late, log, commands>>

\* The command exits, and its user is told how it went.
Exit(c, told) ==
    /\ cl' = [cl EXCEPT ![c] = Idle]
    /\ log' = [log EXCEPT ![cl[c].id].told = told]

ConnectionRefused(c) ==
    /\ cl[c].pc = "send" /\ phase # "serving"
    /\ Exit(c, "cut")
    /\ UNCHANGED <<serverVars, store, conn, late, commands>>

\* proxy.Enabled = !proxy.Enabled; proxy.Save(), and p.Delete().
SecondRequest(c) ==
    IF cl[c].kind = "toggle"
    THEN [kind |-> "save", name |-> cl[c].name, enabled |-> ~conn[c].out.proxy.enabled,
          listen |-> conn[c].out.proxy.listen]
    ELSE Request("delete", cl[c].name)

\* What the client makes of the answer, or of the end of the connection.
Told(c) == IF conn[c].pc = "answered" THEN conn[c].out.code ELSE "cut"

\* The command has its first answer and goes on with a second request.
GoesOn(c) ==
    Told(c) = "ok" /\ cl[c].kind \in {"toggle", "delete"} /\ cl[c].req.kind = "get"

\* Mutant: the second request is sent on the connection of the first.
AnswerKeepsConnection(c) ==
    /\ cl[c].pc = "wait" /\ conn[c].pc \in {"answered", "broken"}
    /\ IF GoesOn(c)
       THEN cl' = [cl EXCEPT ![c].pc = "send", ![c].req = SecondRequest(c)] /\ UNCHANGED log
       ELSE Exit(c, Told(c))
    /\ UNCHANGED <<serverVars, store, conn, late, commands>>

\* Mutant: a request that was answered 503 is sent again.
AnswerRetries(c) ==
    /\ cl[c].pc = "wait" /\ conn[c].pc \in {"answered", "broken"}
    /\ CASE GoesOn(c) -> /\ cl' = [cl EXCEPT ![c].pc = "send", ![c].req = SecondRequest(c)]
                         /\ UNCHANGED log
         [] Told(c) = "unavailable" -> cl' = [cl EXCEPT ![c].pc = "send"] /\ UNCHANGED log
         [] OTHER -> Exit(c, Told(c))
    /\ conn' = [conn EXCEPT ![c] = NoConn]
    /\ UNCHANGED <<serverVars, store, late, commands>>

\* The answer, or the end of the connection, reaches the client.
Answer(c) ==
    /\ cl[c].pc = "wait" /\ conn[c].pc \in {"answered", "broken"}
    /\ IF GoesOn(c)
       THEN cl' = [cl EXCEPT ![c].pc = "send", ![c].req = SecondRequest(c)] /\ UNCHANGED log
       ELSE Exit(c, Told(c))
    /\ conn' = [conn EXCEPT ![c] = NoConn]
    /\ UNCHANGED <<serverVars, store, late, commands>>

-----------------------------------------------------------------------------
TimesOut(c) == TimeoutMiddleware(c) \/ ReadTimesOut(c)

Serve(c) == Routed(c) \/ Handled(c) \/ BodyTimesOut(c) \/ TimesOut(c)

Continue(c) == Send(c) \/ ConnectionRefused(c) \/ Answer(c)

\* The main goroutine.
Main == PopulateConfig \/ Notify \/ Shutdown

Process == Main \/ Listen \/ Signal \/ Restart

Next ==
    \/ \E c \in Clients : \/ Serve(c) \/ Continue(c)
                          \/ \E k \in Uses[c], n \in Names : Command(c, k, n)
    \/ \E i \in Ids : LateHandled(i)
    \/ Process \/ Tick

\* Timers fire, clients read their answers and main goes on.  Nothing is assumed
\* of handlers, which may hang, of slow clients or of signals.
Spec ==
    /\ Init /\ [][Next]_vars
    /\ WF_vars(Tick) /\ WF_vars(Main) /\ WF_vars(Listen)
    /\ \A c \in Clients : WF_vars(TimesOut(c)) /\ WF_vars(Continue(c))

-----------------------------------------------------------------------------
(* Properties *)

\* Every variable holds a value of its type.
TypeOK ==
    /\ phase \in {"config", "starting", "serving", "refused", "draining", "exited"}
    /\ notified \in BOOLEAN /\ drain \in 0..WaitTimeout /\ slow \in BOOLEAN
    /\ store \in [Names -> Proxy \cup {None}]
    /\ \A c \in Clients : /\ conn[c].pc \in {"none", "reading", "running", "answered", "broken"}
                          /\ cl[c].pc \in {"idle", "send", "wait"}
                          /\ conn[c].pc # "none" => cl[c].pc = "wait"
    /\ log \in [Ids -> [duty : {"none", "read", "change", "try"}, made : Nat,
                        told : {"nothing", "ok", "error", "unavailable", "cut"}]]
    /\ commands \in 0..MaxCommands /\ signals \in 0..MaxSignals

\* What a command reports is what happened, then and ever after.  No command
\* changes its proxy twice, and a list or an inspect never does.  One that exits
\* with 0 made its change, and one that the API answered with an error made none
\* and makes none later; but a toggle that acts on what is no longer so may find
\* its change made or undo another, and an update of a toxic or an address may
\* fail halfway.  Of a command that was answered 503 nothing is known: its
\* handler goes on, and makes the change after the command has exited with an
\* error (http.TimeoutHandler, api.go:28), but makes it once.
ReportsAreTrue ==
    \A i \in Ids :
        LET l == log[i]
        IN  /\ l.made <= 1 /\ (l.duty = "read" => l.made = 0)
            /\ l.duty = "change" /\ l.told = "ok" => l.made = 1
            /\ l.duty = "change" /\ l.told = "error" => l.made = 0

\* The deadline of Shutdown costs no request its answer, unless a client was
\* still sending its request when the signal came: the handlers' 25 seconds are
\* over before the 30 seconds of Shutdown.
ShutdownAnswers ==
    \A c \in Clients : conn[c].pc = "broken" => conn[c].how # "deadline"

\* Every command ends, even if a handler hangs: the client has no timeout of
\* its own.
CommandsEnd == \A c \in Clients : (cl[c] # Idle) ~> (cl[c] = Idle)

\* A signal ends a process that serves.
SignalEnds == phase = "draining" ~> phase = "exited"
=============================================================================
