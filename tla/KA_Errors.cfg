\* Two calls of WaitForSources with one context: the second one does not get the
\* error.
SPECIFICATION Spec
CONSTANTS
    Contexts = {c1, c2}
    NoContext = NoContext
    Accounts = {a1}
    NoAccount = NoAccount
    NoOverride = NoOverride
    Waiters = {w1, w2}
INVARIANTS
    ErrorsReturned
