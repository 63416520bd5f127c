\* Three contexts, of up to three requests or nested, of one account. A call of
\* WaitForSources with each: nested contexts wait for the same value.
SPECIFICATION Spec
CONSTANTS
    Contexts = {c1, c2, c3}
    NoContext = NoContext
    Accounts = {a1}
    NoAccount = NoAccount
    NoOverride = NoOverride
    Waiters = {w1}
INVARIANTS
    TypeOK
    ErrorComesFirst
    NobodyIsLeft
PROPERTIES
    KeepaliveEnds
    KeepsContract
