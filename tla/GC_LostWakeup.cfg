\* An awaited request and a closer: Wait misses the broadcast of abort.
SPECIFICATION Spec
CONSTANTS
    Queries = {}
    Stores = {}
    Sent = {s1}
    MaxItems = 0
    GivesUp = {}
PROPERTIES
    WaitEnds
