\* A query and a store that may both be given up: nothing but the query can stop
\* the client, and everything ends once the connection is gone. Items fill a
\* channel like the responses that Query ignores, of which any number come. The
\* client may stop: see GC_CloseReturns.
SPECIFICATION Spec
CONSTANTS
    Queries = {q1}
    Stores = {b1}
    Sent = {}
    MaxItems = 0
    GivesUp = {q1, b1}
INVARIANTS
    OnlyQuittersBlock
PROPERTIES
    EverythingEnds
CHECK_DEADLOCK FALSE
