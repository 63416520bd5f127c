------------------------- MODULE KeepaliveContract -------------------------
(***************************************************************************)
(* What a handler may rely on when it waits for its sources. Contexts are   *)
(* nested: one that is called on to by way of the interceptor starts a call *)
(* to wake the sources, or waits for the call of the context outside of it, *)
(* or does without, where waking is switched off, there is no account, or a *)
(* call for the account has ended before. Who waits for a call hears of it  *)
(* once, when it is over; its error is told once, and before anybody is     *)
(* told that the call is over.                                              *)
(***************************************************************************)

CONSTANTS Contexts, NoContext, Accounts, NoAccount, Waiters

VARIABLES
    enabled,    \* there is a service to call
    outer,      \* per context: the one it was made of, if any
    account,    \* on whose behalf
    source,     \* whose call it waits for, if any
    call,       \* "none", "running", or how the call it started has ended
    told        \* per context and waiter: "nothing", "pass", "error" or "over"

vars == <<enabled, outer, account, source, call, told>>

Init ==
    /\ enabled \in BOOLEAN
    /\ outer = [c \in Contexts |-> NoContext]
    /\ account = [c \in Contexts |-> NoAccount]
    /\ source = [c \in Contexts |-> NoContext]
    /\ call = [c \in Contexts |-> "none"]
    /\ told = [c \in Contexts |-> [w \in Waiters |-> "nothing"]]

\* Nobody has made a context of c, or was told anything with c.
Unheard(c) ==
    /\ \A d \in Contexts : outer[d] # c
    /\ \A w \in Waiters : told[c][w] = "nothing"

Fresh(c) ==
    Unheard(c) /\ outer[c] = NoContext /\ account[c] = NoAccount /\ source[c] = NoContext

\* A call for the account has ended, well or not.
Covered(a) == \E c \in Contexts : account[c] = a /\ call[c] \in {"ok", "error"}

ErrorTold(s) == \E c \in Contexts, w \in Waiters : source[c] = s /\ told[c][w] = "error"

Name(c) ==
    /\ Fresh(c)
    /\ \E a \in Accounts : account' = [account EXCEPT ![c] = a]
    /\ UNCHANGED <<enabled, outer, source, call, told>>

Nest(c, d) ==
    /\ Fresh(d)
    /\ outer' = [outer EXCEPT ![d] = c]
    /\ account' = [account EXCEPT ![d] = account[c]]
    /\ source' = [source EXCEPT ![d] = source[c]]
    /\ UNCHANGED <<enabled, call, told>>

Wake(c) ==
    /\ enabled /\ account[c] # NoAccount
    /\ outer[c] # NoContext /\ Unheard(c)
    /\ source[c] = NoContext /\ call[c] = "none"
    /\ source' = [source EXCEPT ![c] = c]
    /\ call' = [call EXCEPT ![c] = "running"]
    /\ UNCHANGED <<enabled, outer, account, told>>

End(c) ==
    /\ call[c] = "running"
    /\ \E res \in {"ok", "error", "panic"} : call' = [call EXCEPT ![c] = res]
    /\ UNCHANGED <<enabled, outer, account, source, told>>

Tell(c, w, what) ==
    /\ told[c][w] = "nothing"
    /\ told' = [told EXCEPT ![c][w] = what]
    /\ UNCHANGED <<enabled, outer, account, source, call>>

\* A context that did not come by the interceptor waits for nothing.
LetPass(c, w) ==
    /\ source[c] = NoContext
    /\ outer[c] # NoContext /\ enabled /\ account[c] # NoAccount => Covered(account[c])
    /\ Tell(c, w, "pass")

Report(c, w) ==
    /\ source[c] # NoContext
    /\ call[source[c]] = "error" /\ ~ErrorTold(source[c])
    /\ Tell(c, w, "error")

Release(c, w) ==
    /\ source[c] # NoContext
    /\ call[source[c]] \in {"ok", "panic"} \/ ErrorTold(source[c])
    /\ Tell(c, w, "over")

Next ==
    \/ \E c \in Contexts : Name(c) \/ Wake(c) \/ End(c)
    \/ \E c, d \in Contexts : Nest(c, d)
    \/ \E c \in Contexts, w \in Waiters : LetPass(c, w) \/ Report(c, w) \/ Release(c, w)

Spec == Init /\ [][Next]_vars
=============================================================================
