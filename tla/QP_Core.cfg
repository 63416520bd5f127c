\* Two responders, two callbacks in parallel, a cancellation.
SPECIFICATION Spec
CONSTANTS
    r1 = r1
    r2 = r2
    m1 = m1
    m2 = m2
    h1 = h1
    h2 = h2
    None = None
    Responders = {r1, r2}
    Handlers = {h1, h2}
    Cancellers = {c1}
    Msgs = {m1, m2}
    Contents <- MCContents
    ErrorChannel = "open"
    CancelAfterStart = TRUE
SYMMETRY MCSymmetry
INVARIANTS
    TypeOK
    NoSendOnClosed
    WorkingIsWatched
    DrainsOnlyWhenQuiet
    NoLostCompletion
    OnlyCancelInverts
    NeverStuck
PROPERTIES
    KeepsContract
