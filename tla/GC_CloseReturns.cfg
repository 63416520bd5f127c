\* A query that is given up while the receive goroutine posts to it.
SPECIFICATION Spec
CONSTANTS
    Queries = {q1}
    Stores = {}
    Sent = {}
    MaxItems = 2
    GivesUp = {q1}
PROPERTIES
    CloseReturns
CHECK_DEADLOCK FALSE
