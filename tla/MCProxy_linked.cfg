SPECIFICATION Spec
CONSTANTS
    name = name
    number = number
    Clients = {c1}
    Listens = {name, number}
    Resolved <- MCResolved
    Upstreams = {u1, u2}
    QueueCap = 2
    Slack = 1
    MaxPackets = 2
    MaxCalls = 3
    ListenerFails = FALSE
INVARIANT
    AcceptedClientsLinked
CHECK_DEADLOCK FALSE
