SPECIFICATION FairSpec
CONSTANTS
    name = name
    number = number
    Clients = {c1, c2}
    Listens = {name, number}
    Resolved <- MCResolved
    Upstreams = {u1, u2}
    QueueCap = 2
    Slack = 1
    MaxPackets = 2
    MaxCalls = 3
    ListenerFails = TRUE
INVARIANTS
    TypeOK
    StoppedIsQuiet
    EnabledServes
    SocketsFollowUpstream
PROPERTIES
    OneServer
    CallsReturn
CHECK_DEADLOCK FALSE
