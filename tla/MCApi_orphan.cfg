SPECIFICATION Spec
CONSTANTS
    n1 = n1
    n2 = n2
    name = name
    number = number
    other = other
    bad = bad
    u1 = u1
    u2 = u2
    None = None
    Same = Same
    Handlers = {h1, h2}
    Objects = {p1, p2, p3, p4, p5, p6}
    Names = {n1, n2}
    Listens = {name, number, other, bad}
    Resolved <- MCResolved
    Refused = {bad}
    Upstreams = {u1, u2}
    Patches <- MCPatches
    Populations <- MCPopulations
    MaxRequests = 3
INVARIANT NoOrphans
CHECK_DEADLOCK FALSE
