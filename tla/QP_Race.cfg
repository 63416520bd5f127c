\* An unlocked allDone while another responder is added to the map.
SPECIFICATION FairSpec
CONSTANTS
    r1 = r1
    r2 = r2
    m1 = m1
    m2 = m2
    h1 = h1
    h2 = h2
    None = None
    Responders = {r1, r2}
    Handlers = {h1}
    Cancellers = {}
    Msgs = {m1, m2}
    Contents <- MCContentsKnown
    ErrorChannel = "open"
    CancelAfterStart = TRUE
PROPERTIES
    ExecuteFinishes
