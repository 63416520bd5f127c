\* The connection fails while a query runs.
SPECIFICATION Spec
CONSTANTS
    Queries = {q1}
    Stores = {}
    Sent = {}
    MaxItems = 1
    GivesUp = {}
INVARIANTS
    ReturnsAllItems
