\* Cancel while Start is running.
SPECIFICATION Spec
CONSTANTS
    r1 = r1
    r2 = r2
    m1 = m1
    m2 = m2
    h1 = h1
    h2 = h2
    None = None
    Responders = {r1}
    Handlers = {h1}
    Cancellers = {c1}
    Msgs = {m1}
    Contents <- MCContentsLive
    ErrorChannel = "open"
    CancelAfterStart = FALSE
INVARIANTS
    LocksInOrder
