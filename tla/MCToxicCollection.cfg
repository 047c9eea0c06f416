SPECIFICATION Spec
CONSTANTS
    up = up
    n1 = n1
    n2 = n2
    Noop = Noop
    NoToxic = NoToxic
    Directions = {up, down}
    Wrappers = {w1, w2, w3}
    Names = {n1, n2, n3}
    Types = {rst}
    ResetTypes = {rst}
    DefaultName <- MCDefaultName
    Toxicities = {Full}
    Attributes = {x}
    MaxStubs = 4
    Full = Full
    Links = {l1}
INVARIANTS
    IndexIsPosition
    UniqueNames
    OpenLinksFollowChain
    LinksCoverChain
PROPERTIES
    ResetClears
    ResetRemovesFirst
CHECK_DEADLOCK FALSE
