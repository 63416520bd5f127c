\* A query and an awaited request, whose contexts may end, share the client. The
\* client may then stop: see GC_CloseReturns.
SPECIFICATION Spec
CONSTANTS
    Queries = {q1}
    Stores = {}
    Sent = {s1}
    MaxItems = 2
    GivesUp = {q1, s1}
INVARIANTS
    TypeOK
    PostsToOpenChannel
    NoOrphanCall
PROPERTIES
    KeepsContract
CHECK_DEADLOCK FALSE
