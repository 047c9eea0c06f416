SPECIFICATION Spec
CONSTANTS
    c1 = c1
    a1 = a1
    None = None
    Clients = {c1, c2}
    Uses <- MCUses
    Names = {n1}
    Listens = {a1, a2}
    Values = {v1}
    ConfigFile <- MCConfig
    MaxCommands = 2
    MaxSignals = 1
INVARIANTS TypeOK ReportsAreTrue ShutdownAnswers
PROPERTIES CommandsEnd SignalEnds
CHECK_DEADLOCK FALSE
