\* A delay of 2 units is the greatest that 23 - 2 * 10 allows.
SPECIFICATION SessionSpec
CONSTANTS
    ResponseInterval = 10
    NextUpdateIn = 23
    MaxDelay = 2
INVARIANTS
    SessionTypeOK
    NoFalseStall
    NoticedInTime
PROPERTIES
    KeepsPromise
    SenderEnds
    EndNoticed
