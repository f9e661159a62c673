SPECIFICATION FairSpec
CONSTANTS
    c1 = c1
    c2 = c2
    c3 = c3
    k1 = k1
    k2 = k2
    h1 = h1
    h2 = h2
    None = None
    Calls = {c1, c2}
    Scopes = {k1}
    Kinds = {"writer", "trust", "question"}
    Handlers = {h1}
    MaxTurns = 2
    MaxSwitches = 1
    Timeouts = FALSE
PROPERTY CancelledTurnEnds
CHECK_DEADLOCK FALSE
