SPECIFICATION FairSpec
CONSTANTS
    name = name
    number = number
    Clients = {c1}
    Listens = {name, number}
    Resolved <- MCResolved
    Upstreams = {u1, u2}
    QueueCap = 1
    Slack = 1
    MaxPackets = 3
    MaxCalls = 2
    ListenerFails = FALSE
PROPERTY
    CallsReturn
CHECK_DEADLOCK FALSE
