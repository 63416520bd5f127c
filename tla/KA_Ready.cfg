\* A request that passes the interceptor twice: the call that the first context
\* starts fails.
SPECIFICATION Spec
CONSTANTS
    Contexts = {c1, c2, c3}
    NoContext = NoContext
    Accounts = {a1}
    NoAccount = NoAccount
    NoOverride = NoOverride
    Waiters = {w1}
INVARIANTS
    BlocksUntilReady
