---------------------------- MODULE ConsoleProofs ---------------------------
(***************************************************************************)
(* For any number of clients, proxies and commands, whatever interleaves with *)
(* them: the deadline of a shutdown costs no request its answer, and what a   *)
(* command reports is what happened, handlers that outlive their timeout      *)
(* included.                                                                  *)
(***************************************************************************)
EXTENDS Console, TLAPS

PlainReq  == [kind : {"get", "delete", "removeToxic"}, name : Names]
ListenReq == [kind : {"create", "move"}, name : Names, listen : Listens]
ToxicReq  == [kind : {"addToxic", "updateToxic"}, name : Names, value : Values]
SaveReq   == [kind : {"save"}, name : Names, enabled : BOOLEAN, listen : Listens]

ReqType == PlainReq \cup ListenReq \cup ToxicReq \cup SaveReq

Outcome == [code : {"ok", "error", "unavailable"}, proxy : Proxy \cup {None}]

OpenConn     == [pc : {"reading", "running"}, age : Nat, start : Nat, req : ReqType]
AnsweredConn == [pc : {"answered"}, out : Outcome]
BrokenConn   == [pc : {"broken"}, how : {"timeout", "killed", "clean", "slow", "deadline"}]

ConnType == {NoConn} \cup OpenConn \cup AnsweredConn \cup BrokenConn

Busy == [pc : {"send", "wait"}, id : Ids, kind : Kinds, name : Names, req : ReqType]

Entry == [duty : {"none", "read", "change", "try"}, made : Nat,
          told : {"nothing", "ok", "error", "unavailable", "cut"}]

Types ==
    /\ phase \in {"config", "starting", "serving", "refused", "draining", "exited"}
    /\ notified \in BOOLEAN /\ drain \in 0..WaitTimeout /\ slow \in BOOLEAN
    /\ store \in [Names -> Proxy \cup {None}]
    /\ conn \in [Clients -> ConnType] /\ late \in [Ids -> ReqType \cup {None}]
    /\ cl \in [Clients -> {Idle} \cup Busy] /\ log \in [Ids -> Entry]
    /\ commands \in 0..MaxCommands /\ signals \in 0..MaxSignals

\* The requests that a command sends.
Asks(k) ==
    CASE k = "inspect" -> {"get"}
      [] k = "toggle" -> {"get", "save"}
      [] k = "delete" -> {"get", "delete"}
      [] OTHER -> {k}

\* A connection serves the request that its command waits for.
Fits(c) ==
    /\ conn[c].pc = "none" <=> cl[c].pc # "wait"
    /\ conn[c].pc \in {"reading", "running"} => conn[c].req = cl[c].req
    /\ conn[c].pc = "running" => 0 <= Running(c) /\ Running(c) <= HandlerTimeout
    /\ cl[c] # Idle => cl[c].req.name = cl[c].name /\ cl[c].req.kind \in Asks(cl[c].kind)
    /\ conn[c].pc = "answered" /\ cl[c].req.kind = "get" /\ conn[c].out.code = "ok"
       => conn[c].out.proxy # None

\* A handler that runs when a shutdown has begun has run as long as that.
Draining ==
    /\ phase # "draining" => drain = 0
    /\ phase \notin {"serving", "draining"} => Active = {}
    /\ phase = "draining" /\ ~slow =>
         \A c \in Clients : /\ conn[c].pc # "reading"
                            /\ conn[c].pc = "running" => drain <= Running(c)
    /\ ShutdownAnswers

\* What a command in progress has changed, as far as it has been answered.
Keeps(c) ==
    LET i == cl[c].id
    IN  /\ i <= commands /\ log[i].told = "nothing"
        /\ log[i].duty \in {Duty(cl[c].kind), "try"}
        /\ cl[c].kind = "inspect" => log[i].duty = "read"
        /\ ~(conn[c].pc = "answered" /\ cl[c].req.kind # "get")
           => log[i].made = 0 /\ late[i] = None
        /\ conn[c].pc = "answered" /\ late[i] # None => conn[c].out.code = "unavailable"
        /\ conn[c].pc = "answered" /\ cl[c].req.kind # "get" /\ log[i].duty = "change"
           => /\ conn[c].out.code = "ok" => log[i].made = 1
              /\ conn[c].out.code = "error" => log[i].made = 0

\* No two clients run the same command.
Distinct ==
    \A c, d \in Clients : c # d /\ cl[c] # Idle /\ cl[d] # Idle => cl[c].id # cl[d].id

\* What ReportsAreTrue says of a command.
Honest(i) ==
    /\ log[i].made <= 1 /\ (log[i].duty = "read" => log[i].made = 0)
    /\ log[i].duty = "change" /\ log[i].told = "ok" => log[i].made = 1
    /\ log[i].duty = "change" /\ log[i].told = "error" => log[i].made = 0

\* A handler that was given up has yet to change anything, and the command it
\* is for was answered 503.
Record(i) ==
    /\ i > commands => log[i] = Fresh /\ late[i] = None
    /\ late[i] # None => /\ log[i].made = 0 /\ log[i].duty # "read"
                         /\ log[i].told \in {"nothing", "unavailable"}
    /\ Honest(i)

IndInv ==
    /\ Types /\ Draining /\ Distinct
    /\ \A c \in Clients : Fits(c) /\ (cl[c] # Idle => Keeps(c))
    /\ \A i \in Ids : Record(i)

-----------------------------------------------------------------------------
(* Connections, commands and requests *)

\* Where a connection is tells what it holds.
LEMMA ConnAt ==
    ASSUME NEW x \in ConnType
    PROVE  /\ x.pc \in {"none", "reading", "running", "answered", "broken"}
           /\ x.pc = "none" <=> x = NoConn
           /\ x.pc \in {"reading", "running"} => x \in OpenConn
           /\ x.pc = "answered" => x \in AnsweredConn
           /\ x.pc = "broken" => x \in BrokenConn
BY DEF ConnType, NoConn, OpenConn, AnsweredConn, BrokenConn

\* A command that is not idle has a request.
LEMMA CommandAt ==
    ASSUME NEW x \in {Idle} \cup Busy
    PROVE  /\ x.pc = "idle" <=> x = Idle
           /\ x # Idle => x \in Busy /\ x.pc \in {"send", "wait"}
BY DEF Idle, Busy

\* The kind of a request tells its fields.
LEMMA RequestAt ==
    ASSUME NEW r \in ReqType
    PROVE  /\ r.name \in Names
           /\ r.kind \in {"get", "delete", "removeToxic", "create", "move",
                         "addToxic", "updateToxic", "save"}
           /\ r.kind \in {"create", "move", "save"} => r.listen \in Listens
           /\ r.kind \in {"addToxic", "updateToxic"} => r.value \in Values
           /\ r.kind = "save" => r.enabled \in BOOLEAN
BY DEF ReqType, PlainReq, ListenReq, ToxicReq, SaveReq

\* A client to whom nothing happened.
LEMMA Bystander ==
    ASSUME IndInv, NEW d \in Clients, conn'[d] = conn[d], cl'[d] = cl[d],
           commands' \in Nat, commands <= commands',
           cl[d] # Idle => /\ log'[cl[d].id] = log[cl[d].id]
                           /\ late'[cl[d].id] = late[cl[d].id] \/ late'[cl[d].id] = None
    PROVE  Fits(d)' /\ (cl'[d] # Idle => Keeps(d)')
<1>1. /\ Fits(d) /\ (cl[d] # Idle => Keeps(d)) /\ cl[d] \in {Idle} \cup Busy
      /\ commands \in Nat
  BY ConsoleAssumption DEF IndInv, Types
<1>2. Running(d)' = Running(d)
  BY DEF Running
<1>3. Fits(d)'
  BY <1>1, <1>2 DEF Fits
<1>4. ASSUME cl'[d] # Idle
      PROVE  Keeps(d)'
  <2>1. Keeps(d) /\ cl[d].id \in Nat /\ cl[d].id <= commands
    BY <1>1, <1>4 DEF Keeps, Busy, Ids
  <2>2. cl[d].id <= commands'
    BY <1>1, <2>1
  <2> QED
    BY <1>4, <2>1, <2>2 DEF Keeps
<1> QED
  BY <1>3, <1>4

\* The connection of one client changes while the process goes on.
LEMMA DrainingStep ==
    ASSUME IndInv, NEW c \in Clients, NEW x \in ConnType, conn' = [conn EXCEPT ![c] = x],
           UNCHANGED <<phase, drain, slow>>,
           x.pc \in {"reading", "running"} =>
             phase \in {"serving", "draining"} /\ (phase = "draining" => slow),
           x.pc = "broken" => x.how # "deadline"
    PROVE  Draining' /\ conn' \in [Clients -> ConnType]
<1>1. /\ Draining /\ conn \in [Clients -> ConnType]
  BY DEF IndInv, Types
<1>2. conn' \in [Clients -> ConnType] /\ conn'[c] = x /\ \A d \in Clients \ {c} : conn'[d] = conn[d]
  BY <1>1
<1>3. phase' \notin {"serving", "draining"} => Active' = {}
  BY <1>1, <1>2 DEF Draining, Active
<1>4. ShutdownAnswers'
  BY <1>1, <1>2 DEF Draining, ShutdownAnswers
<1>5. phase' = "draining" /\ ~slow' =>
         \A d \in Clients : /\ conn'[d].pc # "reading"
                            /\ conn'[d].pc = "running" => drain' <= Running(d)'
  BY <1>1, <1>2 DEF Draining, Running
<1> QED
  BY <1>1, <1>2, <1>3, <1>4, <1>5 DEF Draining

\* A step of client c in its command i that leaves the process, the other
\* clients and the other commands alone.
LEMMA ClientStep ==
    ASSUME IndInv, NEW c \in Clients, NEW i \in Ids, UNCHANGED serverVars, Draining',
           conn' \in [Clients -> ConnType], cl' \in [Clients -> {Idle} \cup Busy],
           store' \in [Names -> Proxy \cup {None}], log' \in [Ids -> Entry],
           late' \in [Ids -> ReqType \cup {None}],
           \/ commands' = commands /\ cl[c] # Idle /\ i = cl[c].id
           \/ commands' = commands + 1 /\ i = commands + 1,
           \A d \in Clients \ {c} : conn'[d] = conn[d] /\ cl'[d] = cl[d],
           \A j \in Ids \ {i} : log'[j] = log[j] /\ late'[j] = late[j],
           cl'[c] # Idle => cl'[c].id = i /\ Keeps(c)',
           Fits(c)', Record(i)'
    PROVE  IndInv'
<1>1. /\ Types /\ Distinct /\ MaxCommands \in Nat
      /\ \A d \in Clients : cl[d] # Idle => Keeps(d) /\ cl[d] \in Busy
      /\ \A j \in Ids : Record(j)
  BY ConsoleAssumption DEF IndInv, Types
<1>2. i \in Nat /\ i <= MaxCommands /\ commands \in Nat /\ commands \in 0..MaxCommands
  BY <1>1 DEF Types, Ids
<1>3. commands' \in 0..MaxCommands /\ commands' \in Nat /\ commands <= commands'
  BY <1>1, <1>2
<1>4. \A d \in Clients \ {c} : cl[d] # Idle => cl[d].id # i /\ cl[d].id \in Ids
  <2> TAKE d \in Clients \ {c}
  <2> HAVE cl[d] # Idle
  <2>1. cl[d].id <= commands /\ cl[d].id \in Ids
    BY <1>1 DEF Keeps, Busy
  <2>2. cl[d].id \in Nat
    BY <2>1 DEF Ids
  <2> QED
    BY <1>1, <1>2, <2>1, <2>2 DEF Distinct
<1>5. Types'
  BY <1>1, <1>3 DEF Types, serverVars
<1>6. ASSUME NEW d \in Clients \ {c}
      PROVE  Fits(d)' /\ (cl'[d] # Idle => Keeps(d)')
  BY <1>3, <1>4, Bystander
<1>7. \A d \in Clients : Fits(d)' /\ (cl'[d] # Idle => Keeps(d)')
  BY <1>6
<1>8. Distinct'
  BY <1>1, <1>4 DEF Distinct
<1>9. ASSUME NEW j \in Ids, j # i
      PROVE  Record(j)'
  <2>1. j > commands' => j > commands
    BY <1>2, <1>3 DEF Ids
  <2>2. Record(j) /\ log'[j] = log[j] /\ late'[j] = late[j]
    BY <1>1, <1>9
  <2> QED
    BY <2>1, <2>2 DEF Record, Honest
<1>10. \A j \in Ids : Record(j)'
  BY <1>9
<1> QED
  BY <1>5, <1>7, <1>8, <1>10 DEF IndInv

\* A client that has a connection waits for its command.
LEMMA Waiting ==
    ASSUME IndInv, NEW c \in Clients, conn[c].pc # "none" \/ cl[c].pc \in {"send", "wait"}
    PROVE  /\ cl[c] \in Busy /\ cl[c] # Idle /\ cl[c].id \in Ids /\ cl[c].id <= commands
           /\ cl[c].req \in ReqType /\ cl[c].kind \in Kinds
           /\ Fits(c) /\ Keeps(c) /\ Record(cl[c].id) /\ log[cl[c].id] \in Entry
           /\ conn[c].pc \in {"reading", "running"} =>
                /\ cl[c].pc = "wait" /\ conn[c].req = cl[c].req /\ conn[c] \in OpenConn
                /\ log[cl[c].id].made = 0 /\ late[cl[c].id] = None
<1>1. cl[c] \in {Idle} \cup Busy /\ Fits(c) /\ conn[c] \in ConnType
  BY DEF IndInv, Types
<1>2. cl[c].pc \in {"send", "wait"}
  BY <1>1 DEF Fits
<1>3. cl[c] \in Busy /\ cl[c] # Idle
  BY <1>1, <1>2, CommandAt DEF Idle
<1>4. Keeps(c) /\ cl[c].id \in Ids /\ cl[c].req \in ReqType /\ cl[c].kind \in Kinds
  BY <1>3 DEF IndInv, Busy
<1>5. Record(cl[c].id) /\ log[cl[c].id] \in Entry /\ cl[c].id <= commands
  BY <1>4 DEF IndInv, Types, Keeps
<1> QED
  BY <1>1, <1>2, <1>3, <1>4, <1>5, ConnAt DEF Fits, Keeps

-----------------------------------------------------------------------------
(* Requests in the server *)

\* Every outcome is one.
LEMMA OutcomeTypes ==
    ASSUME NEW r \in ReqType, NEW old \in Proxy \cup {None}, NEW o \in Outcomes(r, old)
    PROVE  o \in Outcome
<1> DEFINE P == Proxy \cup {None}
<1>1. \A x \in P : Ok(x) \in Outcome /\ Error(x) \in Outcome
  BY DEF Ok, Error, Outcome
<1>2. CASE r.kind = "create"
  <2>1. [listen |-> r.listen, enabled |-> TRUE, toxic |-> None] \in P
    BY <1>2, RequestAt DEF Proxy
  <2> QED
    BY <1>1, <1>2, <2>1 DEF Outcomes, Create
<1>3. CASE r.kind # "create" /\ old = None
  BY <1>1, <1>3 DEF Outcomes
<1>4. CASE r.kind # "create" /\ old # None
  <2>1. /\ \A l \in Listens, e \in BOOLEAN : [old EXCEPT !.listen = l, !.enabled = e] \in P
        /\ \A v \in Values \cup {None} : [old EXCEPT !.toxic = v] \in P
        /\ old.enabled \in BOOLEAN
    BY <1>4 DEF Proxy
  <2>2. ASSUME NEW l \in Listens, NEW e \in BOOLEAN, o \in Save(old, l, e)
        PROVE  o \in Outcome
    BY <1>1, <2>1, <2>2 DEF Save
  <2>3. CASE r.kind \in {"get", "delete"}
    BY <1>1, <1>4, <2>3 DEF Outcomes, Show, Delete
  <2>4. CASE r.kind \in {"addToxic", "updateToxic", "removeToxic"}
    <3>1. PICK v \in Values \cup {None} :
            o \in {Ok([old EXCEPT !.toxic = v]), Error([old EXCEPT !.toxic = v]), Error(old)}
      <4>1. CASE r.kind = "removeToxic"
        BY <1>4, <4>1 DEF Outcomes, RemoveToxic
      <4>2. CASE r.kind # "removeToxic"
        BY <1>4, <2>4, <4>2, RequestAt DEF Outcomes, AddToxic, UpdateToxic
      <4> QED
        BY <4>1, <4>2
    <3>2. [old EXCEPT !.toxic = v] \in P
      BY <2>1
    <3> QED
      BY <1>1, <3>1, <3>2
  <2>5. CASE r.kind = "save"
    <3>1. r.listen \in Listens /\ r.enabled \in BOOLEAN
      BY <2>5, RequestAt
    <3> QED
      BY <1>4, <2>2, <2>5, <3>1 DEF Outcomes
  <2>6. CASE r.kind = "move"
    <3>1. r.listen \in Listens
      BY <2>6, RequestAt
    <3> QED
      BY <1>4, <2>1, <2>2, <2>6, <3>1 DEF Outcomes
  <2> QED
    BY <1>4, <2>3, <2>4, <2>5, <2>6, RequestAt
<1> QED
  BY <1>2, <1>3, <1>4

\* The answer to a request tells whether it changed its proxy, unless it is the
\* second of a toggle and the proxy is not what the first read.
LEMMA AnswerTells ==
    ASSUME NEW r \in ReqType, NEW old \in Proxy \cup {None}, NEW o \in Outcomes(r, old),
           r.kind \notin {"get", "move", "updateToxic"}, ~Stale(r, old)
    PROVE  (o.code = "ok" => o.proxy # old) /\ (o.code = "error" => o.proxy = old)
<1>0. \A x : /\ Ok(x).code = "ok" /\ Ok(x).proxy = x
             /\ Error(x).code = "error" /\ Error(x).proxy = x
  BY DEF Ok, Error
<1>1. CASE r.kind = "create"
  <2> DEFINE new == [listen |-> r.listen, enabled |-> TRUE, toxic |-> None]
  <2>1. new \in Proxy
    BY <1>1, RequestAt DEF Proxy
  <2>2. new # None
    BY <2>1, ConsoleAssumption
  <2>3. IF old # None THEN o = Error(old) ELSE o = Ok(new) \/ o = Error(None)
    BY <1>1 DEF Outcomes, Create
  <2> HIDE DEF new
  <2> QED
    BY <1>0, <2>2, <2>3
<1>2. CASE r.kind # "create" /\ old = None
  BY <1>0, <1>2 DEF Outcomes
<1>3. CASE r.kind # "create" /\ old # None
  <2>1. old \in Proxy
    BY <1>3
  <2>2. CASE r.kind = "delete"
    BY <1>0, <1>3, <2>2 DEF Outcomes, Delete
  <2>3. CASE r.kind \in {"addToxic", "removeToxic"}
    <3>1. \A v : [old EXCEPT !.toxic = v].toxic = v
      BY <2>1 DEF Proxy
    <3>2. r.kind = "addToxic" => r.value # None
      BY RequestAt, ConsoleAssumption
    <3>3. \/ o = Error(old)
          \/ \E v : v # old.toxic /\ o = Ok([old EXCEPT !.toxic = v])
      <4>1. CASE r.kind = "addToxic"
        BY <1>3, <3>2, <4>1 DEF Outcomes, AddToxic
      <4>2. CASE r.kind = "removeToxic"
        BY <1>3, <4>2 DEF Outcomes, RemoveToxic
      <4> QED
        BY <2>3, <4>1, <4>2
    <3>4. ASSUME NEW v, v # old.toxic, o = Ok([old EXCEPT !.toxic = v])
          PROVE  o.code = "ok" /\ o.proxy # old
      <4>1. [old EXCEPT !.toxic = v] # old
        BY <3>1, <3>4
      <4> QED
        BY <1>0, <3>4, <4>1
    <3> QED
      BY <1>0, <3>3, <3>4
  <2>4. CASE r.kind = "save"
    <3>1. o \in Save(old, old.listen, ~old.enabled) /\ old.enabled \in BOOLEAN
      <4>1. r.listen = old.listen /\ r.enabled # old.enabled
        BY <1>3, <2>4 DEF Stale
      <4>2. r.enabled \in BOOLEAN /\ old.enabled \in BOOLEAN
        BY <2>1, <2>4, RequestAt DEF Proxy
      <4>3. r.enabled = ~old.enabled
        BY <4>1, <4>2
      <4> QED
        BY <1>3, <2>4, <4>1, <4>2, <4>3 DEF Outcomes
    <3>2. CASE old.enabled
      <4>1. o = Ok([old EXCEPT !.listen = old.listen, !.enabled = FALSE])
        BY <3>1, <3>2 DEF Save
      <4>2. [old EXCEPT !.listen = old.listen, !.enabled = FALSE].enabled = FALSE
        BY <2>1 DEF Proxy
      <4> QED
        BY <1>0, <3>2, <4>1, <4>2
    <3>3. CASE ~old.enabled
      <4>1. \/ o = Ok([old EXCEPT !.listen = old.listen, !.enabled = TRUE])
            \/ o = Error([old EXCEPT !.listen = old.listen, !.enabled = FALSE])
        BY <3>1, <3>3 DEF Save
      <4>2. /\ [old EXCEPT !.listen = old.listen, !.enabled = TRUE].enabled = TRUE
            /\ [old EXCEPT !.listen = old.listen, !.enabled = FALSE] = old
        BY <2>1, <3>1, <3>3 DEF Proxy
      <4>3. [old EXCEPT !.listen = old.listen, !.enabled = TRUE] # old
        BY <3>3, <4>2
      <4>4. CASE o = Ok([old EXCEPT !.listen = old.listen, !.enabled = TRUE])
        BY <1>0, <4>3, <4>4
      <4>5. CASE o = Error(old)
        BY <1>0, <4>5
      <4> QED
        BY <4>1, <4>2, <4>4, <4>5
    <3> QED
      BY <3>2, <3>3
  <2> QED
    BY <1>3, <2>2, <2>3, <2>4, RequestAt
<1> QED
  BY <1>1, <1>2, <1>3

\* A GET answers what the proxy is, and changes nothing.
LEMMA GetReads ==
    ASSUME NEW r \in ReqType, r.kind = "get", NEW old, NEW o \in Outcomes(r, old)
    PROVE  o.proxy = old /\ (o.code = "ok" => old # None)
BY DEF Outcomes, Show, Ok, Error

\* An outcome is entered for the command whose request it is of, and no other.
LEMMA AppliedLog ==
    ASSUME IndInv, NEW i \in Ids, NEW r \in ReqType, NEW o \in Outcomes(r, store[r.name]),
           Applied(i, r, o)
    PROVE  /\ o \in Outcome /\ store' \in [Names -> Proxy \cup {None}]
           /\ log' \in [Ids -> Entry] /\ \A j \in Ids \ {i} : log'[j] = log[j]
           /\ log'[i].told = log[i].told
           /\ log'[i].made = IF o.proxy = store[r.name] THEN log[i].made ELSE log[i].made + 1
           /\ log'[i].duty = IF Stale(r, store[r.name]) THEN "try" ELSE log[i].duty
<1> DEFINE old == store[r.name]
           m == IF o.proxy = old THEN log[i].made ELSE log[i].made + 1
           d == IF Stale(r, old) THEN "try" ELSE log[i].duty
           e == [log[i] EXCEPT !.made = m, !.duty = d]
<1>1. /\ log \in [Ids -> Entry] /\ store \in [Names -> Proxy \cup {None}] /\ r.name \in Names
      /\ log[i] \in Entry
  BY RequestAt DEF IndInv, Types
<1>2. o \in Outcome /\ o.proxy \in Proxy \cup {None}
  <2>1. o \in Outcome
    BY <1>1, OutcomeTypes
  <2> QED
    BY <2>1 DEF Outcome
<1>3. store' \in [Names -> Proxy \cup {None}]
  BY <1>1, <1>2 DEF Applied
<1>4. m \in Nat /\ d \in {"none", "read", "change", "try"}
  <2>1. m \in Nat
    BY <1>1 DEF Entry
  <2>2. d \in {"none", "read", "change", "try"}
    <3>1. CASE Stale(r, old)
      BY <3>1
    <3>2. CASE ~Stale(r, old)
      BY <1>1, <3>2 DEF Entry
    <3> QED
      BY <3>1, <3>2
  <2> QED
    BY <2>1, <2>2
<1>5. log' = [log EXCEPT ![i] = e]
  BY <1>1 DEF Applied
<1>6. log'[i] = e /\ \A j \in Ids \ {i} : log'[j] = log[j]
  BY <1>1, <1>5
<1> HIDE DEF m, d
<1>7. e \in Entry /\ e.told = log[i].told /\ e.made = m /\ e.duty = d
  BY <1>1, <1>4 DEF Entry
<1> HIDE DEF e
<1>8. log' \in [Ids -> Entry]
  BY <1>1, <1>5, <1>7
<1> QED
  BY <1>2, <1>3, <1>6, <1>7, <1>8 DEF m, d

\* The header of a request is read, and the request passes the middleware.
LEMMA RoutedStep ==
    ASSUME IndInv, NEW c \in Clients, Routed(c)
    PROVE  IndInv'
<1> DEFINE x == [conn[c] EXCEPT !.pc = "running", !.start = conn[c].age]
<1>1. Types /\ Draining
  BY DEF IndInv
<1>2. /\ conn[c].pc = "reading" /\ phase \in {"serving", "draining"}
      /\ UNCHANGED <<serverVars, store, late, cl, log, commands>>
  BY DEF Routed
<1>3. conn' = [conn EXCEPT ![c] = x]
  BY <1>1 DEF Routed, Types
<1>4. /\ conn[c] \in OpenConn /\ Fits(c) /\ Keeps(c) /\ Record(cl[c].id)
      /\ cl[c] # Idle /\ cl[c].id \in Ids /\ log[cl[c].id].made = 0 /\ late[cl[c].id] = None
  BY <1>2, Waiting
<1>5. /\ x \in ConnType /\ x.pc = "running" /\ x.req = conn[c].req
      /\ x.age = conn[c].age /\ x.start = conn[c].age /\ conn[c].age \in Nat
  BY <1>4 DEF OpenConn, ConnType
<1> HIDE DEF x
<1>6. Draining' /\ conn' \in [Clients -> ConnType]
  <2>1. UNCHANGED <<phase, drain, slow>> /\ (phase = "draining" => slow)
    BY <1>1, <1>2 DEF serverVars, Draining
  <2> QED
    BY <1>2, <1>3, <1>5, <2>1, DrainingStep
<1>7. conn'[c] = x /\ \A d \in Clients \ {c} : conn'[d] = conn[d]
  BY <1>1, <1>3 DEF Types
<1>8. Fits(c)'
  <2>1. Running(c)' = 0
    BY <1>5, <1>7 DEF Running
  <2> QED
    BY <1>2, <1>4, <1>5, <1>7, <2>1 DEF Fits, HandlerTimeout
<1>9. Keeps(c)' /\ Record(cl[c].id)'
  BY <1>2, <1>4, <1>5, <1>7 DEF Keeps, Record, Honest
<1> QED
  BY <1>1, <1>2, <1>4, <1>6, <1>7, <1>8, <1>9, ClientStep DEF Types

\* A client that has not been answered is disconnected, or answered without any
\* effect so far; its handler may go on if it has asked for a change.
LEMMA GivenUpStep ==
    ASSUME IndInv, NEW c \in Clients, conn[c].pc \in {"reading", "running"},
           NEW x \in ConnType, conn' = [conn EXCEPT ![c] = x],
           UNCHANGED <<serverVars, store, cl, log, commands>>,
           \/ x.pc = "broken" /\ x.how # "deadline" /\ late' = late
           \/ x.pc = "answered" /\ x.out.code = "error" /\ late' = late
           \/ /\ x.pc = "answered" /\ x.out.code = "unavailable"
              /\ late' = [late EXCEPT ![cl[c].id] =
                            IF cl[c].req.kind = "get" THEN None ELSE cl[c].req]
    PROVE  IndInv'
<1>0. PICK i \in Ids : i = cl[c].id
  BY Waiting
<1>1. Types
  BY DEF IndInv
<1>2. /\ Fits(c) /\ Keeps(c) /\ Record(i) /\ cl[c].pc = "wait" /\ cl[c].kind \in Kinds
      /\ cl[c] # Idle /\ i \in Ids /\ log[i].made = 0 /\ late[i] = None
      /\ i <= commands /\ cl[c].req \in ReqType
  BY <1>0, Waiting
<1>3. Draining' /\ conn' \in [Clients -> ConnType]
  BY DrainingStep DEF serverVars
<1>4. conn'[c] = x /\ \A d \in Clients \ {c} : conn'[d] = conn[d]
  BY <1>1 DEF Types
<1>5. Fits(c)'
  BY <1>2, <1>4 DEF Fits
<1>6. /\ late' \in [Ids -> ReqType \cup {None}]
      /\ \A j \in Ids \ {i} : late'[j] = late[j]
      /\ late'[i] # None => x.pc = "answered" /\ x.out.code = "unavailable" /\ cl[c].req.kind # "get"
  BY <1>0, <1>1, <1>2 DEF Types
<1>7. Keeps(c)'
  BY <1>0, <1>2, <1>4, <1>6 DEF Keeps
<1>8. Record(i)'
  <2>1. cl[c].req.kind # "get" => log[i].duty # "read"
    BY <1>0, <1>2 DEF Keeps, Fits, Asks, Kinds, Duty
  <2>2. ~(i > commands)
    <3>1. i \in Nat /\ commands \in Nat
      BY <1>1, <1>2, ConsoleAssumption DEF Ids, Types
    <3> QED
      BY <1>2, <3>1
  <2> QED
    BY <1>0, <1>2, <1>6, <2>1, <2>2 DEF Record, Honest, Keeps
<1>9. /\ UNCHANGED serverVars /\ commands' = commands
      /\ store' \in [Names -> Proxy \cup {None}] /\ log' \in [Ids -> Entry]
      /\ cl' \in [Clients -> {Idle} \cup Busy] /\ cl'[c].id = i
      /\ \A d \in Clients \ {c} : conn'[d] = conn[d] /\ cl'[d] = cl[d]
      /\ \A j \in Ids \ {i} : log'[j] = log[j] /\ late'[j] = late[j]
  BY <1>0, <1>1, <1>4, <1>6 DEF Types
<1> QED
  BY <1>2, <1>3, <1>5, <1>6, <1>7, <1>8, <1>9, <1>0, ClientStep

\* A handler or a header takes too long.
LEMMA TimeoutStep ==
    ASSUME IndInv, NEW c \in Clients, TimesOut(c)
    PROVE  IndInv'
<1>1. CASE TimeoutMiddleware(c)
  <2> DEFINE x == [pc |-> "answered", out |-> [code |-> "unavailable", proxy |-> None]]
  <2>1. x \in ConnType
    BY DEF ConnType, AnsweredConn, Outcome
  <2>2. conn[c].pc = "running" /\ conn[c].req = cl[c].req
    BY <1>1, Waiting DEF TimeoutMiddleware
  <2>3. x.pc = "answered" /\ x.out.code = "unavailable" /\ conn' = [conn EXCEPT ![c] = x]
    BY <1>1 DEF TimeoutMiddleware, Answered
  <2> HIDE DEF x
  <2> QED
    BY <1>1, <2>1, <2>2, <2>3, GivenUpStep DEF TimeoutMiddleware
<1>2. CASE ReadTimesOut(c)
  <2> DEFINE x == [pc |-> "broken", how |-> "timeout"]
  <2>1. x \in ConnType /\ x.pc = "broken" /\ x.how # "deadline"
    BY DEF ConnType, BrokenConn
  <2>2. conn' = [conn EXCEPT ![c] = x]
    BY <1>2 DEF ReadTimesOut, Breaks, IndInv, Types
  <2> HIDE DEF x
  <2> QED
    BY <1>2, <2>1, <2>2, GivenUpStep DEF ReadTimesOut
<1> QED
  BY <1>1, <1>2 DEF TimesOut

\* A body takes too long.
LEMMA BodyStep ==
    ASSUME IndInv, NEW c \in Clients, BodyTimesOut(c)
    PROVE  IndInv'
<1> DEFINE x == [pc |-> "answered", out |-> Error(None)]
<1>1. x \in ConnType /\ x.pc = "answered" /\ x.out.code = "error"
  BY DEF ConnType, AnsweredConn, Outcome, Error
<1>2. conn' = [conn EXCEPT ![c] = x]
  BY DEF BodyTimesOut, Answered
<1> HIDE DEF x
<1> QED
  BY <1>1, <1>2, GivenUpStep DEF BodyTimesOut

\* A handler ends, and its client is answered.
LEMMA HandledStep ==
    ASSUME IndInv, NEW c \in Clients, Handled(c)
    PROVE  IndInv'
<1> DEFINE r == cl[c].req
           old == store[r.name]
<1>0. PICK i \in Ids : i = cl[c].id
  BY Waiting DEF Handled
<1>1. Types
  BY DEF IndInv
<1>2. conn[c].pc = "running" /\ UNCHANGED <<serverVars, late, cl, commands>>
  BY DEF Handled
<1>3. /\ Fits(c) /\ Keeps(c) /\ Record(i) /\ cl[c].pc = "wait" /\ conn[c].req = r
      /\ cl[c] # Idle /\ i \in Ids /\ log[i].made = 0 /\ late[i] = None
      /\ i <= commands /\ r \in ReqType /\ cl[c].kind \in Kinds
  BY <1>0, <1>2, Waiting
<1>4. PICK o \in Outcomes(r, old) : Applied(i, r, o) /\ Answered(c, Reply(r, o))
  BY <1>0, <1>3 DEF Handled
<1>5. /\ o \in Outcome /\ store' \in [Names -> Proxy \cup {None}]
      /\ log' \in [Ids -> Entry] /\ \A j \in Ids \ {i} : log'[j] = log[j]
      /\ log'[i].told = "nothing"
      /\ log'[i].made = IF o.proxy = old THEN 0 ELSE 1
      /\ log'[i].duty = IF Stale(r, old) THEN "try" ELSE log[i].duty
  BY <1>0, <1>3, <1>4, AppliedLog DEF Keeps
<1> DEFINE x == [pc |-> "answered", out |-> Reply(r, o)]
<1>6. Reply(r, o) \in Outcome /\ Reply(r, o).code = o.code /\ (r.kind = "get" => Reply(r, o) = o)
  BY <1>5 DEF Reply, Outcome
<1>7. conn' = [conn EXCEPT ![c] = x] /\ x \in ConnType /\ x.pc = "answered" /\ x.out = Reply(r, o)
  BY <1>4, <1>6 DEF Answered, ConnType, AnsweredConn
<1> HIDE DEF x, r, old
<1>8. Draining' /\ conn' \in [Clients -> ConnType]
  BY <1>2, <1>7, DrainingStep DEF serverVars
<1>9. conn'[c] = x /\ \A d \in Clients \ {c} : conn'[d] = conn[d]
  BY <1>1, <1>7 DEF Types
<1>10. r.kind = "get" =>
         o.proxy = old /\ (o.code = "ok" => o.proxy # None) /\ ~Stale(r, old)
  BY <1>3, GetReads DEF Stale
<1>11. Fits(c)'
  BY <1>2, <1>3, <1>6, <1>7, <1>9, <1>10 DEF Fits, r
<1>12. r.kind \in Asks(cl[c].kind)
  BY <1>3 DEF Fits, r
<1>13. cl[c].kind = "inspect" => r.kind = "get"
  BY <1>12 DEF Asks
<1>14. ASSUME r.kind # "get", log'[i].duty = "change"
       PROVE  /\ o.code = "ok" => log'[i].made = 1
              /\ o.code = "error" => log'[i].made = 0
  <2>1. ~Stale(r, old) /\ log[i].duty = "change"
    BY <1>5, <1>14
  <2>2. r.kind \notin {"get", "move", "updateToxic"}
    BY <1>0, <1>3, <1>12, <1>14, <2>1 DEF Keeps, Asks, Kinds, Duty
  <2>3. old \in Proxy \cup {None}
    BY <1>1, <1>3, RequestAt DEF Types, old
  <2>4. (o.code = "ok" => o.proxy # old) /\ (o.code = "error" => o.proxy = old)
    BY <1>3, <1>4, <2>1, <2>2, <2>3, AnswerTells
  <2> QED
    BY <1>5, <2>4
<1>15. Keeps(c)'
  <2>1. log'[i].duty \in {Duty(cl[c].kind), "try"} /\ (cl[c].kind = "inspect" => log'[i].duty = "read")
    BY <1>0, <1>3, <1>5, <1>10, <1>13 DEF Keeps
  <2>2. r.kind = "get" => log'[i].made = 0
    BY <1>5, <1>10
  <2> QED
    BY <1>0, <1>2, <1>3, <1>5, <1>6, <1>7, <1>9, <1>14, <2>1, <2>2 DEF Keeps, r
<1>16. Record(i)'
  <2>1. ~(i > commands)
    <3>1. i \in Nat /\ commands \in Nat
      BY <1>1, <1>3, ConsoleAssumption DEF Ids, Types
    <3> QED
      BY <1>3, <3>1
  <2>2. log'[i].duty = "read" => log'[i].made = 0
    <3>1. SUFFICES ASSUME log'[i].duty = "read"
                   PROVE  r.kind = "get"
      BY <1>5, <1>10
    <3>2. log[i].duty = "read"
      BY <1>5, <3>1
    <3>3. cl[c].kind = "inspect"
      BY <1>0, <1>3, <3>2 DEF Keeps, Duty
    <3> QED
      BY <1>13, <3>3
  <2>3. log'[i].made <= 1
    BY <1>5
  <2>4. Honest(i)'
    BY <1>5, <2>2, <2>3 DEF Honest
  <2> QED
    BY <1>2, <1>3, <2>1, <2>4 DEF Record
<1>17. /\ UNCHANGED serverVars /\ commands' = commands
       /\ late' \in [Ids -> ReqType \cup {None}]
       /\ cl' \in [Clients -> {Idle} \cup Busy] /\ cl'[c].id = i /\ i = cl[c].id
       /\ \A d \in Clients \ {c} : conn'[d] = conn[d] /\ cl'[d] = cl[d]
       /\ \A j \in Ids \ {i} : log'[j] = log[j] /\ late'[j] = late[j]
  BY <1>0, <1>1, <1>2, <1>5, <1>9 DEF Types
<1> QED
  BY <1>0, <1>3, <1>5, <1>8, <1>11, <1>15, <1>16, <1>17, ClientStep

\* A handler that was given up ends.
LEMMA LateStep ==
    ASSUME IndInv, NEW i \in Ids, LateHandled(i)
    PROVE  IndInv'
<1> DEFINE r == late[i]
           old == store[r.name]
<1>1. Types /\ Draining /\ Distinct
  BY DEF IndInv
<1>2. /\ r # None /\ late' = [late EXCEPT ![i] = None]
      /\ UNCHANGED <<serverVars, conn, cl, commands>>
  BY DEF LateHandled
<1>3. r \in ReqType /\ Record(i) /\ log[i].made = 0 /\ log[i].duty # "read"
  BY <1>1, <1>2 DEF IndInv, Types, Record
<1>4. PICK o \in Outcomes(r, old) : Applied(i, r, o)
  BY DEF LateHandled
<1>5. /\ store' \in [Names -> Proxy \cup {None}]
      /\ log' \in [Ids -> Entry] /\ \A j \in Ids \ {i} : log'[j] = log[j]
      /\ log'[i].told = log[i].told
      /\ log'[i].made = IF o.proxy = old THEN 0 ELSE 1
      /\ log'[i].duty = IF Stale(r, old) THEN "try" ELSE log[i].duty
  BY <1>3, <1>4, AppliedLog
<1>6. /\ late' \in [Ids -> ReqType \cup {None}] /\ late'[i] = None
      /\ \A j \in Ids \ {i} : late'[j] = late[j]
  BY <1>1, <1>2 DEF Types
<1>7. Types' /\ Draining' /\ Distinct'
  <2>1. Types'
    BY <1>1, <1>2, <1>5, <1>6 DEF Types, serverVars
  <2>2. Distinct'
    BY <1>1, <1>2 DEF Distinct
  <2>3. \A d \in Clients : Running(d)' = Running(d)
    BY <1>2 DEF Running
  <2>4. Draining'
    BY <1>1, <1>2, <2>3 DEF Draining, Active, ShutdownAnswers, serverVars
  <2> QED
    BY <2>1, <2>2, <2>4
<1>8. ASSUME NEW d \in Clients
      PROVE  Fits(d)' /\ (cl'[d] # Idle => Keeps(d)')
  <2>1. commands \in Nat /\ commands' = commands /\ commands <= commands'
    BY <1>1, <1>2, ConsoleAssumption DEF Types
  <2>2. CASE cl[d] = Idle \/ cl[d].id # i
    <3>1. cl[d] # Idle => cl[d].id \in Ids
      BY <1>1 DEF Types, Busy
    <3> QED
      BY <1>2, <1>5, <1>6, <2>1, <2>2, <3>1, Bystander
  <2>3. CASE cl[d] # Idle /\ cl[d].id = i
    <3>1. Fits(d) /\ Keeps(d)
      BY <2>3 DEF IndInv
    <3>2. conn[d].pc = "answered" /\ cl[d].req.kind # "get" /\ conn[d].out.code = "unavailable"
      BY <1>2, <2>3, <3>1 DEF Keeps
    <3>3. cl[d].kind # "inspect"
      BY <2>3, <3>1, <3>2 DEF Fits, Asks
    <3>4. Fits(d)'
      BY <1>2, <3>1, <3>2 DEF Fits
    <3>5. Keeps(d)'
      BY <1>2, <1>5, <1>6, <2>1, <2>3, <3>1, <3>2, <3>3 DEF Keeps
    <3> QED
      BY <3>4, <3>5
  <2> QED
    BY <2>2, <2>3
<1>9. ASSUME NEW j \in Ids
      PROVE  Record(j)'
  <2>1. CASE j # i
    BY <1>2, <1>5, <1>6, <2>1 DEF IndInv, Record, Honest
  <2>2. CASE j = i
    <3>1. ~(i > commands)
      BY <1>2, <1>3 DEF Record
    <3>2. log[i].told \in {"nothing", "unavailable"}
      BY <1>2, <1>3 DEF Record
    <3> QED
      BY <1>2, <1>3, <1>5, <1>6, <2>2, <3>1, <3>2 DEF Record, Honest
  <2> QED
    BY <2>1, <2>2
<1> QED
  BY <1>7, <1>8, <1>9 DEF IndInv

-----------------------------------------------------------------------------
(* Commands *)

\* What a command asks first.
LEMMA FirstRequest ==
    ASSUME NEW k \in Kinds, NEW n \in Names, NEW r \in FirstRequests(k, n)
    PROVE  /\ r \in ReqType /\ r.name = n /\ r.kind \in Asks(k)
           /\ k \in {"toggle", "delete"} => r.kind = "get"
<1>1. CASE k \in {"inspect", "toggle", "delete"}
  <2>1. r = [kind |-> "get", name |-> n]
    BY <1>1 DEF FirstRequests, ReadRequests, Request
  <2>2. r \in PlainReq /\ r.kind = "get"
    BY <2>1 DEF PlainReq
  <2> QED
    BY <1>1, <2>1, <2>2 DEF ReqType, Asks
<1>2. CASE k \in {"create", "move"}
  <2>1. PICK l \in Listens : r = [kind |-> k, name |-> n, listen |-> l]
    BY <1>2 DEF FirstRequests, ListenRequests
  <2>2. r \in ListenReq /\ r.kind = k
    BY <1>2, <2>1 DEF ListenReq
  <2> QED
    BY <1>2, <2>1, <2>2 DEF ReqType, Asks
<1>3. CASE k \in {"addToxic", "updateToxic"}
  <2>1. PICK v \in Values : r = [kind |-> k, name |-> n, value |-> v]
    BY <1>3 DEF FirstRequests, ToxicRequests
  <2>2. r \in ToxicReq /\ r.kind = k
    BY <1>3, <2>1 DEF ToxicReq
  <2> QED
    BY <1>3, <2>1, <2>2 DEF ReqType, Asks
<1>4. CASE k = "removeToxic"
  <2>1. r = [kind |-> k, name |-> n]
    BY <1>4 DEF FirstRequests, ToxicRequests, Request
  <2>2. r \in PlainReq /\ r.kind = k
    BY <1>4, <2>1 DEF PlainReq
  <2> QED
    BY <1>4, <2>1, <2>2 DEF ReqType, Asks
<1> QED
  BY <1>1, <1>2, <1>3, <1>4 DEF Kinds

\* A command starts.
LEMMA CommandStep ==
    ASSUME IndInv, NEW c \in Clients, NEW k \in Kinds, NEW n \in Names, Command(c, k, n)
    PROVE  IndInv'
<1>1. /\ Types /\ Fits(c) /\ Draining /\ MaxCommands \in Nat /\ cl[c] \in {Idle} \cup Busy
  BY ConsoleAssumption DEF IndInv, Types
<1>2. /\ cl[c].pc = "idle" /\ commands < MaxCommands /\ commands' = commands + 1
      /\ UNCHANGED <<serverVars, store, conn, late>>
  BY DEF Command
<1>3. PICK i \in Ids : i = commands + 1
  BY <1>1, <1>2 DEF Types, Ids
<1>4. PICK r \in FirstRequests(k, n) :
        cl' = [cl EXCEPT ![c] = [pc |-> "send", id |-> i, kind |-> k, name |-> n, req |-> r]]
  BY <1>2, <1>3 DEF Command
<1>5. r \in ReqType /\ r.name = n /\ r.kind \in Asks(k)
  BY FirstRequest
<1> DEFINE x == [pc |-> "send", id |-> i, kind |-> k, name |-> n, req |-> r]
<1>6. /\ x \in Busy /\ x.pc = "send" /\ x.id = i /\ x.kind = k /\ x.name = n /\ x.req = r
      /\ x # Idle
  BY <1>5 DEF Busy, Idle
<1>7. cl' = [cl EXCEPT ![c] = x]
  BY <1>4
<1> HIDE DEF x
<1>8. /\ cl'[c] = x /\ cl' \in [Clients -> {Idle} \cup Busy]
      /\ \A d \in Clients \ {c} : cl'[d] = cl[d]
  BY <1>1, <1>6, <1>7 DEF Types
<1>9. conn'[c].pc = "none"
  BY <1>1, <1>2 DEF Fits
<1>10. Fits(c)'
  BY <1>5, <1>6, <1>8, <1>9 DEF Fits
<1>11. log[i] = Fresh /\ late[i] = None
  <2>1. i > commands /\ Record(i)
    BY <1>1, <1>3 DEF IndInv, Types
  <2> QED
    BY <2>1 DEF Record
<1>12. /\ log' \in [Ids -> Entry] /\ \A j \in Ids \ {i} : log'[j] = log[j]
       /\ log'[i].duty = Duty(k) /\ log'[i].made = 0 /\ log'[i].told = "nothing"
  <2>1. log' = [log EXCEPT ![i].duty = Duty(k)]
    BY <1>2, <1>3 DEF Command
  <2>2. Duty(k) \in {"read", "change", "try"}
    BY DEF Duty, Kinds
  <2>3. log'[i] = [Fresh EXCEPT !.duty = Duty(k)]
    BY <1>1, <1>11, <2>1 DEF Types
  <2>4. log'[i] \in Entry /\ log'[i].duty = Duty(k) /\ log'[i].made = 0 /\ log'[i].told = "nothing"
    BY <2>2, <2>3 DEF Fresh, Entry
  <2>5. \A j \in Ids \ {i} : log'[j] = log[j]
    BY <1>1, <2>1 DEF Types
  <2>6. log' \in [Ids -> Entry]
    BY <1>1, <2>1, <2>4 DEF Types
  <2> QED
    BY <2>4, <2>5, <2>6
<1>13. i \in Nat /\ commands' = i /\ ~(i > i) /\ i <= i
  BY <1>2, <1>3 DEF Ids
<1>14. Keeps(c)'
  BY <1>2, <1>6, <1>8, <1>9, <1>11, <1>12, <1>13 DEF Keeps, Duty
<1>15. Record(i)'
  BY <1>2, <1>11, <1>12, <1>13 DEF Record, Honest
<1>16. Draining'
  <2>1. \A d \in Clients : Running(d)' = Running(d)
    BY <1>2 DEF Running
  <2> QED
    BY <1>1, <1>2, <2>1 DEF Draining, Active, ShutdownAnswers, serverVars
<1> QED
  BY <1>1, <1>2, <1>3, <1>6, <1>8, <1>10, <1>12, <1>14, <1>15, <1>16, ClientStep DEF Types

\* A request reaches the server.
LEMMA SendStep ==
    ASSUME IndInv, NEW c \in Clients, Send(c)
    PROVE  IndInv'
<1>1. Types
  BY DEF IndInv
<1>2. /\ cl[c].pc = "send" /\ phase = "serving"
      /\ UNCHANGED <<serverVars, store, late, log, commands>>
  BY DEF Send
<1>3. PICK i \in Ids : i = cl[c].id
  BY <1>2, Waiting
<1>4. /\ cl[c] \in Busy /\ cl[c] # Idle /\ Fits(c) /\ Keeps(c) /\ Record(i)
      /\ conn[c].pc = "none" /\ cl[c].req \in ReqType
  BY <1>2, <1>3, Waiting DEF Fits
<1> DEFINE x == [pc |-> "reading", age |-> 0, start |-> 0, req |-> cl[c].req]
           y == [cl[c] EXCEPT !.pc = "wait"]
<1>5. /\ x \in ConnType /\ x.pc = "reading" /\ x.req = cl[c].req
      /\ conn' = [conn EXCEPT ![c] = x]
  BY <1>4 DEF Send, ConnType, OpenConn
<1>6. /\ y \in Busy /\ y.pc = "wait" /\ y.id = cl[c].id /\ y.kind = cl[c].kind
      /\ y.name = cl[c].name /\ y.req = cl[c].req
  BY <1>4 DEF Busy
<1>7. cl' = [cl EXCEPT ![c] = y]
  BY DEF Send
<1> HIDE DEF x, y
<1>8. /\ cl'[c] = y /\ cl' \in [Clients -> {Idle} \cup Busy] /\ conn'[c] = x
      /\ \A d \in Clients \ {c} : cl'[d] = cl[d] /\ conn'[d] = conn[d]
  BY <1>1, <1>5, <1>6, <1>7 DEF Types
<1>9. Draining' /\ conn' \in [Clients -> ConnType]
  BY <1>2, <1>5, DrainingStep DEF serverVars
<1>10. Fits(c)'
  BY <1>4, <1>5, <1>6, <1>8 DEF Fits
<1>11. Keeps(c)' /\ Record(i)'
  <2>1. Keeps(c)'
    BY <1>2, <1>4, <1>5, <1>6, <1>8 DEF Keeps
  <2>2. Record(i)'
    BY <1>2, <1>4 DEF Record, Honest
  <2> QED
    BY <2>1, <2>2
<1> QED
  BY <1>1, <1>2, <1>3, <1>4, <1>6, <1>8, <1>9, <1>10, <1>11, ClientStep DEF Types

\* A command ends: its connection was refused, or it has its answer.
LEMMA ExitStep ==
    ASSUME IndInv, NEW c \in Clients, cl[c].pc \in {"send", "wait"},
           NEW told \in {"ok", "error", "unavailable", "cut"}, Exit(c, told),
           conn' = [conn EXCEPT ![c] = NoConn],
           UNCHANGED <<serverVars, store, late, commands>>,
           told = "cut" <=> conn[c].pc # "answered",
           conn[c].pc = "answered" => told = conn[c].out.code,
           told = "ok" => ~(cl[c].kind \in {"toggle", "delete"} /\ cl[c].req.kind = "get")
    PROVE  IndInv'
<1>1. Types /\ NoConn \in ConnType /\ NoConn.pc = "none"
  BY DEF IndInv, ConnType, NoConn
<1>2. PICK i \in Ids : i = cl[c].id
  BY Waiting
<1>3. /\ cl[c] # Idle /\ Fits(c) /\ Keeps(c) /\ Record(i) /\ log[i] \in Entry
      /\ i <= commands /\ cl[c].kind \in Kinds
  BY <1>2, Waiting
<1>4. /\ cl'[c] = Idle /\ cl' \in [Clients -> {Idle} \cup Busy] /\ conn'[c] = NoConn
      /\ \A d \in Clients \ {c} : cl'[d] = cl[d] /\ conn'[d] = conn[d]
  BY <1>1 DEF Types, Exit
<1>5. Draining' /\ conn' \in [Clients -> ConnType]
  BY <1>1, DrainingStep DEF serverVars
<1>6. Fits(c)'
  BY <1>1, <1>4 DEF Fits, Idle
<1>7. /\ log' \in [Ids -> Entry] /\ \A j \in Ids \ {i} : log'[j] = log[j]
      /\ log'[i].told = told /\ log'[i].made = log[i].made /\ log'[i].duty = log[i].duty
  <2>1. log' = [log EXCEPT ![i] = [log[i] EXCEPT !.told = told]]
    BY <1>1, <1>2 DEF Exit, Types
  <2>2. /\ [log[i] EXCEPT !.told = told] \in Entry
        /\ [log[i] EXCEPT !.told = told].told = told
        /\ [log[i] EXCEPT !.told = told].made = log[i].made
        /\ [log[i] EXCEPT !.told = told].duty = log[i].duty
    BY <1>3 DEF Entry
  <2> QED
    BY <1>1, <2>1, <2>2 DEF Types
<1>8. Record(i)'
  <2>1. ~(i > commands)
    <3>1. i \in Nat /\ commands \in Nat
      BY <1>1, ConsoleAssumption DEF Ids, Types
    <3> QED
      BY <1>3, <3>1
  <2>2. late[i] # None => told = "unavailable"
    BY <1>2, <1>3 DEF Keeps
  <2>3. ASSUME log[i].duty = "change", told \in {"ok", "error"}
        PROVE  (told = "ok" => log[i].made = 1) /\ (told = "error" => log[i].made = 0)
    <3>1. CASE cl[c].req.kind # "get"
      BY <1>2, <1>3, <2>3, <3>1 DEF Keeps
    <3>2. CASE cl[c].req.kind = "get"
      <4>1. log[i].made = 0
        BY <1>2, <1>3, <3>2 DEF Keeps
      <4>2. cl[c].kind # "inspect"
        BY <1>2, <1>3, <2>3 DEF Keeps
      <4>3. cl[c].kind \in {"toggle", "delete"}
        BY <1>3, <3>2, <4>2 DEF Fits, Asks, Kinds
      <4> QED
        BY <3>2, <4>1, <4>3
    <3> QED
      BY <3>1, <3>2
  <2>4. Honest(i)'
    BY <1>3, <1>7, <2>3 DEF Honest, Record
  <2> QED
    BY <1>3, <1>7, <2>1, <2>2, <2>4 DEF Record
<1> QED
  BY <1>1, <1>2, <1>3, <1>4, <1>5, <1>6, <1>7, <1>8, ClientStep DEF Types

\* The answer reaches the client, which exits or goes on with what it has read.
LEMMA AnswerStep ==
    ASSUME IndInv, NEW c \in Clients, Answer(c)
    PROVE  IndInv'
<1>1. /\ cl[c].pc = "wait" /\ conn' = [conn EXCEPT ![c] = NoConn]
      /\ UNCHANGED <<serverVars, store, late, commands>>
      /\ conn[c].pc \in {"answered", "broken"}
  BY DEF Answer
<1>2. conn[c] \in ConnType /\ (conn[c].pc = "answered" => conn[c].out \in Outcome)
  <2>1. conn[c] \in ConnType
    BY DEF IndInv, Types
  <2> QED
    BY <2>1, ConnAt DEF AnsweredConn
<1>3. CASE ~GoesOn(c)
  <2>1. Exit(c, Told(c))
    BY <1>3 DEF Answer
  <2>2. /\ Told(c) \in {"ok", "error", "unavailable", "cut"}
        /\ Told(c) = "cut" <=> conn[c].pc # "answered"
        /\ conn[c].pc = "answered" => Told(c) = conn[c].out.code
    BY <1>2 DEF Told, Outcome
  <2>3. Told(c) = "ok" => ~(cl[c].kind \in {"toggle", "delete"} /\ cl[c].req.kind = "get")
    BY <1>3 DEF GoesOn
  <2> QED
    BY <1>1, <2>1, <2>2, <2>3, ExitStep
<1>4. CASE GoesOn(c)
  <2>1. Types /\ NoConn \in ConnType /\ NoConn.pc = "none"
    BY DEF IndInv, ConnType, NoConn
  <2>2. PICK i \in Ids : i = cl[c].id
    BY <1>1, Waiting
  <2>3. cl[c] \in Busy /\ cl[c] # Idle /\ Fits(c) /\ Keeps(c) /\ Record(i)
    BY <1>1, <2>2, Waiting
  <2> DEFINE r == SecondRequest(c)
             z == conn[c].out.proxy
             y == [cl[c] EXCEPT !.pc = "send", !.req = r]
  <2>4. conn[c].pc = "answered" /\ conn[c].out.code = "ok" /\ cl[c].req.kind = "get"
    BY <1>1, <1>4 DEF GoesOn, Told
  <2>5. z \in Proxy
    BY <1>2, <2>3, <2>4 DEF Fits, Outcome
  <2>6. r \in ReqType /\ r.name = cl[c].name /\ r.kind \in Asks(cl[c].kind)
    <3>1. CASE cl[c].kind = "toggle"
      <4>1. r = [kind |-> "save", name |-> cl[c].name, enabled |-> ~z.enabled, listen |-> z.listen]
        BY <3>1 DEF SecondRequest
      <4>2. r \in SaveReq
        BY <2>3, <2>5, <4>1 DEF SaveReq, Proxy, Busy
      <4> QED
        BY <3>1, <4>1, <4>2 DEF ReqType, Asks
    <3>2. CASE cl[c].kind = "delete"
      <4>1. r = [kind |-> "delete", name |-> cl[c].name]
        BY <3>2 DEF SecondRequest, Request
      <4>2. r \in PlainReq /\ r.kind = "delete"
        BY <2>3, <4>1 DEF PlainReq, Busy
      <4> QED
        BY <3>2, <4>1, <4>2 DEF ReqType, Asks
    <3> QED
      BY <1>4, <3>1, <3>2 DEF GoesOn
  <2> HIDE DEF r, z
  <2>7. cl' = [cl EXCEPT ![c] = y] /\ log' = log
    BY <1>4, <2>1 DEF Answer, Types, r
  <2>8. /\ y \in Busy /\ y.pc = "send" /\ y.id = cl[c].id /\ y.kind = cl[c].kind
        /\ y.name = cl[c].name /\ y.req = r
    BY <2>3, <2>6 DEF Busy
  <2> HIDE DEF y
  <2>9. /\ cl'[c] = y /\ cl' \in [Clients -> {Idle} \cup Busy] /\ conn'[c] = NoConn
        /\ \A d \in Clients \ {c} : cl'[d] = cl[d] /\ conn'[d] = conn[d]
    BY <1>1, <2>1, <2>7, <2>8 DEF Types
  <2>10. Draining' /\ conn' \in [Clients -> ConnType]
    BY <1>1, <2>1, DrainingStep DEF serverVars
  <2>11. Fits(c)'
    BY <2>1, <2>6, <2>8, <2>9 DEF Fits
  <2>12. Keeps(c)'
    BY <1>1, <2>1, <2>2, <2>3, <2>4, <2>7, <2>8, <2>9 DEF Keeps
  <2>13. Record(i)'
    BY <1>1, <2>3, <2>7 DEF Record, Honest
  <2> QED
    BY <1>1, <2>1, <2>2, <2>3, <2>7, <2>8, <2>9, <2>10, <2>11, <2>12, <2>13, ClientStep DEF Types
<1> QED
  BY <1>3, <1>4

-----------------------------------------------------------------------------
(* The process *)

\* The process goes on without a change to any client.
LEMMA Quiet ==
    ASSUME IndInv, UNCHANGED <<conn, late, cl, log, commands>>, Types', Draining'
    PROVE  IndInv'
<1>1. commands' \in Nat /\ commands <= commands'
  BY ConsoleAssumption DEF IndInv, Types
<1>2. \A d \in Clients : Fits(d)' /\ (cl'[d] # Idle => Keeps(d)')
  BY <1>1, Bystander
<1>3. Distinct' /\ \A i \in Ids : Record(i)'
  BY DEF IndInv, Distinct, Record, Honest
<1> QED
  BY <1>2, <1>3 DEF IndInv

\* The process starts.
LEMMA ProcessStep ==
    ASSUME IndInv, PopulateConfig \/ Listen \/ Notify
    PROVE  IndInv'
<1>1. Types /\ Draining
  BY DEF IndInv
<1>2. UNCHANGED <<conn, late, drain, slow, cl, log, commands, signals>>
  BY DEF PopulateConfig, Listen, Notify
<1>3. /\ phase \in {"config", "starting", "serving", "refused"}
      /\ phase' \in {"starting", "serving", "refused"}
      /\ phase \in {"serving", "refused"} => phase' = phase
      /\ phase = "serving" \/ phase' = "serving" \/ Active = {}
  BY <1>1 DEF PopulateConfig, Listen, Notify, Draining
<1>4. store' \in [Names -> Proxy \cup {None}] /\ notified' \in BOOLEAN
  BY <1>1, ConsoleAssumption DEF PopulateConfig, Listen, Notify, Types
<1>5. Types'
  BY <1>1, <1>2, <1>3, <1>4 DEF Types
<1>6. Draining'
  <2>1. Active' = Active /\ ShutdownAnswers'
    BY <1>1, <1>2 DEF Active, ShutdownAnswers, Draining
  <2> QED
    BY <1>1, <1>2, <1>3, <2>1 DEF Draining
<1> QED
  BY <1>2, <1>5, <1>6, Quiet

\* The process ends.
LEMMA ExitsStep ==
    ASSUME IndInv, NEW how \in {"killed", "clean", "slow", "deadline"}, Exits(how),
           how = "deadline" => Active = {}, signals' \in 0..MaxSignals
    PROVE  IndInv'
<1> DEFINE x == [pc |-> "broken", how |-> how]
<1>1. Types /\ Draining /\ conn \in [Clients -> ConnType]
  BY DEF IndInv, Types
<1>2. /\ phase' = "exited" /\ late' = [i \in Ids |-> None] /\ drain' = 0 /\ slow' = FALSE
      /\ UNCHANGED <<notified, store, cl, log, commands>>
      /\ conn' = [c \in Clients |-> IF c \in Active THEN x ELSE conn[c]]
  BY DEF Exits, Breaks
<1>3. x \in ConnType /\ x.pc = "broken" /\ x.how = how
  BY DEF ConnType, BrokenConn
<1> HIDE DEF x
<1>4. /\ \A d \in Clients : conn'[d] = IF d \in Active THEN x ELSE conn[d]
      /\ conn' \in [Clients -> ConnType] /\ \A i \in Ids : late'[i] = None
  BY <1>1, <1>2, <1>3
<1>5. Types'
  <2>1. late' \in [Ids -> ReqType \cup {None}] /\ slow' \in BOOLEAN
    BY <1>2
  <2>2. drain' \in 0..WaitTimeout
    BY <1>2 DEF WaitTimeout
  <2> QED
    BY <1>1, <1>2, <1>4, <2>1, <2>2 DEF Types
<1>6. Draining'
  <2>1. Active' = {}
    BY <1>3, <1>4 DEF Active
  <2>2. ShutdownAnswers'
    BY <1>1, <1>3, <1>4 DEF ShutdownAnswers, Draining
  <2> QED
    BY <1>2, <2>1, <2>2 DEF Draining
<1>7. ASSUME NEW d \in Clients
      PROVE  Fits(d)' /\ (cl'[d] # Idle => Keeps(d)')
  <2>1. CASE d \in Active
    <3>1. /\ cl[d] # Idle /\ Fits(d) /\ Keeps(d) /\ cl[d].pc = "wait" /\ cl[d].id \in Ids
          /\ log[cl[d].id].made = 0
      BY <2>1, Waiting DEF Active
    <3>2. conn'[d].pc = "broken"
      BY <1>3, <1>4, <2>1
    <3>3. Fits(d)'
      BY <1>2, <3>1, <3>2 DEF Fits
    <3>4. Keeps(d)'
      BY <1>2, <1>4, <3>1, <3>2 DEF Keeps
    <3> QED
      BY <3>3, <3>4
  <2>2. CASE d \notin Active
    <3>1. commands' \in Nat /\ commands <= commands'
      BY <1>1, <1>2, ConsoleAssumption DEF Types
    <3>2. cl[d] # Idle => cl[d].id \in Ids
      BY <1>1 DEF Types, Busy
    <3> QED
      BY <1>2, <1>4, <2>2, <3>1, <3>2, Bystander
  <2> QED
    BY <2>1, <2>2
<1>8. Distinct' /\ \A i \in Ids : Record(i)'
  BY <1>2, <1>4 DEF IndInv, Distinct, Record, Honest
<1> QED
  BY <1>5, <1>6, <1>7, <1>8 DEF IndInv

\* The times of a connection that is open.
LEMMA Times ==
    ASSUME IndInv, NEW c \in Clients, conn[c].pc \in {"reading", "running"}
    PROVE  conn[c] \in OpenConn /\ conn[c].age \in Nat /\ conn[c].start \in Nat
<1>1. conn[c] \in OpenConn
  BY ConnAt DEF IndInv, Types
<1> QED
  BY <1>1 DEF OpenConn

\* A signal ends the process or begins the shutdown.
LEMMA SignalStep ==
    ASSUME IndInv, Signal
    PROVE  IndInv'
<1>1. Types /\ Draining
  BY DEF IndInv
<1>2. signals' \in 0..MaxSignals
  BY <1>1, ConsoleAssumption DEF Signal, Types
<1>3. CASE Exits("killed") \/ Exits("clean")
  BY <1>2, <1>3, ExitsStep
<1>4. CASE ~Exits("killed") /\ ~Exits("clean")
  <2>1. /\ phase = "serving" /\ phase' = "draining"
        /\ slow' = \E c \in Clients : conn[c].pc = "reading"
        /\ UNCHANGED <<notified, store, conn, late, drain, cl, log, commands>>
    BY <1>4 DEF Signal
  <2>2. slow' \in BOOLEAN
    BY <2>1
  <2>3. Types'
    BY <1>1, <1>2, <2>1, <2>2 DEF Types
  <2>4. drain' = 0
    BY <1>1, <2>1 DEF Draining
  <2>5. \A c \in Clients : conn'[c].pc = "running" => 0 <= Running(c)'
    BY <2>1 DEF IndInv, Fits, Running
  <2>6. ~slow' => \A c \in Clients : conn'[c].pc # "reading"
    BY <2>1
  <2>7. Draining'
    BY <1>1, <2>1, <2>4, <2>5, <2>6 DEF Draining, ShutdownAnswers
  <2> QED
    BY <2>1, <2>3, <2>7, Quiet
<1> QED
  BY <1>3, <1>4

\* Shutdown returns: nobody is left by then, unless someone was slow to send.
LEMMA ShutdownStep ==
    ASSUME IndInv, Shutdown
    PROVE  IndInv'
<1>1. Types /\ Draining /\ phase = "draining" /\ signals' = signals
  BY DEF IndInv, Shutdown
<1>2. CASE Active = {} /\ Exits("clean")
  BY <1>1, <1>2, ExitsStep DEF Types
<1>3. CASE slow /\ Exits("slow")
  BY <1>1, <1>3, ExitsStep DEF Types
<1>4. CASE ~slow /\ Active # {} /\ drain = WaitTimeout
  <2>1. PICK c \in Clients : conn[c].pc \in {"reading", "running"}
    BY <1>4 DEF Active
  <2>2. conn[c].pc = "running" /\ WaitTimeout <= Running(c)
    BY <1>1, <1>4, <2>1 DEF Draining
  <2>3. Running(c) <= HandlerTimeout
    BY <2>2 DEF IndInv, Fits
  <2>4. Running(c) \in Int
    BY <2>2, Times DEF Running
  <2> QED
    BY <2>2, <2>3, <2>4 DEF HandlerTimeout, WaitTimeout
<1> QED
  BY <1>2, <1>3, <1>4 DEF Shutdown

\* The process is started again, with an empty store.
LEMMA RestartStep ==
    ASSUME IndInv, Restart
    PROVE  IndInv'
<1>1. Types /\ Draining
  BY DEF IndInv
<1>2. /\ phase = "exited" /\ phase' = "config" /\ notified' = FALSE
      /\ store' = [n \in Names |-> None]
      /\ UNCHANGED <<conn, late, drain, slow, cl, log, commands, signals>>
  BY DEF Restart
<1>3. Types'
  BY <1>1, <1>2 DEF Types
<1>4. Draining'
  BY <1>1, <1>2 DEF Draining, Active, ShutdownAnswers
<1> QED
  BY <1>2, <1>3, <1>4, Quiet

\* Time passes.
LEMMA TickStep ==
    ASSUME IndInv, Tick
    PROVE  IndInv'
<1>1. Types /\ Draining /\ conn \in [Clients -> ConnType]
  BY DEF IndInv, Types
<1>2. /\ \A c \in Clients : conn[c].pc = "running" => Running(c) < HandlerTimeout
      /\ phase = "draining" => drain < WaitTimeout
      /\ conn' = [c \in Clients |->
                    IF c \in Active THEN [conn[c] EXCEPT !.age = @ + 1] ELSE conn[c]]
      /\ drain' = IF phase = "draining" THEN drain + 1 ELSE 0
      /\ UNCHANGED <<phase, notified, store, late, slow, cl, log, commands, signals>>
  BY DEF Tick
<1>3. ASSUME NEW d \in Active
      PROVE  /\ conn'[d] \in ConnType /\ conn'[d].pc = conn[d].pc
             /\ conn'[d].req = conn[d].req
             /\ Running(d) \in Int /\ Running(d)' = Running(d) + 1
  <2>1. d \in Clients /\ conn[d] \in OpenConn /\ conn[d].age \in Nat /\ conn[d].start \in Nat
    BY Times DEF Active
  <2>2. conn'[d] = [conn[d] EXCEPT !.age = @ + 1]
    BY <1>2, <2>1
  <2>3. /\ conn'[d] \in ConnType /\ conn'[d].pc = conn[d].pc /\ conn'[d].req = conn[d].req
        /\ conn'[d].age = conn[d].age + 1 /\ conn'[d].start = conn[d].start
    BY <2>1, <2>2 DEF OpenConn, ConnType
  <2> QED
    BY <2>1, <2>3 DEF Running
<1>4. \A d \in Clients \ Active : conn'[d] = conn[d]
  BY <1>2
<1>5. conn' \in [Clients -> ConnType]
  <2>1. \A d \in Clients : conn'[d] \in ConnType
    BY <1>1, <1>3, <1>4
  <2>2. conn' = [d \in Clients |-> conn'[d]]
    BY <1>2
  <2> QED
    BY <2>1, <2>2
<1>6. drain' \in 0..WaitTimeout
  BY <1>1, <1>2 DEF Types, WaitTimeout
<1>7. Types'
  BY <1>1, <1>2, <1>5, <1>6 DEF Types
<1>8. Draining'
  <2>1. \A d \in Clients : conn'[d].pc = conn[d].pc
    BY <1>3, <1>4
  <2>2. Active' = Active
    BY <2>1 DEF Active
  <2>3. ShutdownAnswers'
    BY <1>1, <1>4, <2>1 DEF ShutdownAnswers, Draining, Active
  <2>4. ASSUME phase = "draining", ~slow, NEW d \in Clients
        PROVE  conn'[d].pc # "reading" /\ (conn'[d].pc = "running" => drain' <= Running(d)')
    <3>1. conn[d].pc # "reading" /\ (conn[d].pc = "running" => drain <= Running(d))
      BY <1>1, <2>4 DEF Draining
    <3>2. drain \in Nat /\ drain' = drain + 1
      BY <1>1, <1>2, <2>4 DEF Types, WaitTimeout
    <3>3. ASSUME conn'[d].pc = "running"
          PROVE  drain' <= Running(d)'
      <4>1. d \in Active /\ drain <= Running(d)
        BY <2>1, <3>1, <3>3 DEF Active
      <4>2. Running(d) \in Int /\ Running(d)' = Running(d) + 1
        BY <1>3, <4>1
      <4> QED
        BY <3>2, <4>1, <4>2
    <3> QED
      BY <2>1, <3>1, <3>3
  <2> QED
    BY <1>1, <1>2, <2>2, <2>3, <2>4 DEF Draining
<1>9. ASSUME NEW d \in Clients
      PROVE  Fits(d)' /\ (cl'[d] # Idle => Keeps(d)')
  <2>1. CASE d \notin Active
    <3>1. commands' \in Nat /\ commands <= commands'
      BY <1>1, <1>2, ConsoleAssumption DEF Types
    <3> QED
      BY <1>2, <1>4, <2>1, <3>1, Bystander
  <2>2. CASE d \in Active
    <3>1. /\ Fits(d) /\ Keeps(d) /\ conn[d].pc \in {"reading", "running"}
      BY <2>2, Waiting DEF Active
    <3>2. conn'[d].pc = conn[d].pc /\ conn'[d].req = conn[d].req
      BY <1>3, <2>2
    <3>3. ASSUME conn'[d].pc = "running"
          PROVE  0 <= Running(d)' /\ Running(d)' <= HandlerTimeout
      <4>1. Running(d) \in Int /\ Running(d)' = Running(d) + 1
        BY <1>3, <2>2
      <4>2. 0 <= Running(d)
        BY <3>1, <3>2, <3>3 DEF Fits
      <4>3. Running(d) < HandlerTimeout
        BY <3>2, <3>3 DEF Tick
      <4> QED
        BY <4>1, <4>2, <4>3 DEF HandlerTimeout
    <3>4. Fits(d)'
      BY <1>2, <3>1, <3>2, <3>3 DEF Fits
    <3>5. Keeps(d)'
      BY <1>2, <3>1, <3>2 DEF Keeps
    <3> QED
      BY <3>4, <3>5
  <2> QED
    BY <2>1, <2>2
<1>10. Distinct' /\ \A i \in Ids : Record(i)'
  BY <1>2 DEF IndInv, Distinct, Record, Honest
<1> QED
  BY <1>7, <1>8, <1>9, <1>10 DEF IndInv

-----------------------------------------------------------------------------
(* Theorems *)

\* Connections, commands and the process are in step, whatever interleaves.
THEOREM Consistent == Spec => []IndInv
<1>1. Init => IndInv
  <2> SUFFICES ASSUME Init
               PROVE  IndInv
    OBVIOUS
  <2>1. NoConn \in ConnType /\ NoConn.pc = "none" /\ Idle.pc = "idle" /\ Fresh \in Entry
    BY DEF ConnType, NoConn, Idle, Fresh, Entry
  <2>2. Types
    <3>1. /\ conn \in [Clients -> ConnType] /\ cl \in [Clients -> {Idle} \cup Busy]
          /\ store \in [Names -> Proxy \cup {None}] /\ log \in [Ids -> Entry]
          /\ late \in [Ids -> ReqType \cup {None}]
      BY <2>1 DEF Init
    <3>2. drain \in 0..WaitTimeout /\ commands \in 0..MaxCommands /\ signals \in 0..MaxSignals
      BY ConsoleAssumption DEF Init, WaitTimeout
    <3> QED
      BY <3>1, <3>2 DEF Init, Types
  <2>3. Draining
    BY <2>1 DEF Init, Draining, Active, ShutdownAnswers
  <2>4. \A c \in Clients : Fits(c) /\ cl[c] = Idle
    BY <2>1 DEF Init, Fits
  <2>5. \A i \in Ids : Record(i)
    BY DEF Init, Record, Honest, Fresh
  <2> QED
    BY <2>2, <2>3, <2>4, <2>5 DEF IndInv, Distinct
<1>2. IndInv /\ [Next]_vars => IndInv'
  <2> SUFFICES ASSUME IndInv, [Next]_vars
               PROVE  IndInv'
    OBVIOUS
  <2>1. ASSUME NEW c \in Clients, Serve(c)
        PROVE  IndInv'
    BY <2>1, RoutedStep, HandledStep, BodyStep, TimeoutStep DEF Serve
  <2>2. ASSUME NEW c \in Clients, Continue(c)
        PROVE  IndInv'
    <3>1. CASE ConnectionRefused(c)
      <4>1. /\ Exit(c, "cut") /\ UNCHANGED <<serverVars, store, conn, late, commands>>
            /\ cl[c].pc = "send"
        BY <3>1 DEF ConnectionRefused
      <4>2. conn \in [Clients -> ConnType] /\ conn[c] = NoConn
        BY <4>1, ConnAt DEF IndInv, Types, Fits
      <4>3. conn' = [conn EXCEPT ![c] = NoConn] /\ conn[c].pc = "none"
        BY <4>1, <4>2 DEF NoConn
      <4> QED
        BY <4>1, <4>3, ExitStep
    <3> QED
      BY <2>2, <3>1, SendStep, AnswerStep DEF Continue
  <2>3. ASSUME NEW c \in Clients, NEW k \in Uses[c], NEW n \in Names, Command(c, k, n)
        PROVE  IndInv'
    <3>1. k \in Kinds
      BY ConsoleAssumption
    <3> QED
      BY <2>3, <3>1, CommandStep
  <2>4. ASSUME NEW i \in Ids, LateHandled(i)
        PROVE  IndInv'
    BY <2>4, LateStep
  <2>5. CASE Process
    BY <2>5, ProcessStep, SignalStep, ShutdownStep, RestartStep DEF Process, Main
  <2>6. CASE Tick
    BY <2>6, TickStep
  <2>7. CASE UNCHANGED vars
    <3>1. UNCHANGED <<conn, late, cl, log, commands>>
      BY <2>7 DEF vars
    <3>2. Types'
      BY <2>7 DEF vars, IndInv, Types
    <3>3. Draining'
      BY <2>7 DEF vars, IndInv, Draining, Active, ShutdownAnswers, Running
    <3> QED
      BY <3>1, <3>2, <3>3, Quiet
  <2> QED
    BY <2>1, <2>2, <2>3, <2>4, <2>5, <2>6, <2>7 DEF Next
<1> QED
  BY <1>1, <1>2, PTL DEF Spec

\* Every variable keeps its type, and a connection belongs to a command that waits.
THEOREM TypeCorrect == Spec => []TypeOK
<1>1. IndInv => TypeOK
  <2> SUFFICES ASSUME IndInv
               PROVE  TypeOK
    OBVIOUS
  <2>1. ASSUME NEW c \in Clients
        PROVE  /\ conn[c].pc \in {"none", "reading", "running", "answered", "broken"}
               /\ cl[c].pc \in {"idle", "send", "wait"}
               /\ conn[c].pc # "none" => cl[c].pc = "wait"
    <3>1. conn[c] \in ConnType /\ cl[c] \in {Idle} \cup Busy /\ Fits(c)
      BY DEF IndInv, Types
    <3> QED
      BY <3>1, ConnAt, CommandAt DEF Fits
  <2> QED
    BY <2>1 DEF IndInv, Types, Entry, TypeOK
<1> QED
  BY <1>1, Consistent, PTL

\* The deadline of Shutdown costs no request its answer unless a client was still
\* sending its header when the signal came: a handler that runs by then is over,
\* or has been answered for by timeoutMiddleware, before the deadline.
THEOREM ShutdownAlwaysAnswers == Spec => []ShutdownAnswers
<1>1. IndInv => ShutdownAnswers
  BY DEF IndInv, Draining
<1> QED
  BY <1>1, Consistent, PTL

\* For any number of commands and whatever comes in between, timeouts, exits and
\* restarts included: no command changes its proxy twice, even if its handler
\* goes on after a 503; one that exits with 0 made its change; one that was
\* answered with an error has changed nothing and never will.
THEOREM ReportsAlwaysTrue == Spec => []ReportsAreTrue
<1>1. IndInv => ReportsAreTrue
  BY DEF IndInv, Record, Honest, ReportsAreTrue
<1> QED
  BY <1>1, Consistent, PTL
=============================================================================
