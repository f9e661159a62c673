SPECIFICATION Spec
CONSTANTS
    c1 = c1
    c2 = c2
    c3 = c3
    k1 = k1
    k2 = k2
    h1 = h1
    h2 = h2
    None = None
    Calls = {c1, c2}
    Scopes = {k1}
    Kinds = {"writer", "askRule", "trust", "fresh", "plan", "question"}
    Handlers = {h1}
    MaxTurns = 2
    MaxSwitches = 1
    Timeouts = TRUE
SYMMETRY Symmetry
INVARIANTS
    OnePromptAtATime
    OrphansAreStrays
    UserDecides
PROPERTY ImplementsConsent
CHECK_DEADLOCK FALSE
