-------------------------- MODULE KeepaliveSources --------------------------
(***************************************************************************)
(* A service behind the auth middleware (middleware.go) and the interceptor *)
(* that keeps the sources of an account awake                               *)
(* (sdpconnect/keepalive_interceptor.go). The middleware puts the account   *)
(* of a request into its context. The interceptor makes the context of what *)
(* it calls out of the context it was given; unless it did so in the last   *)
(* ten minutes it wakes the sources of that account in a goroutine (the     *)
(* "waker"), and puts a function into the new context that waits for it.    *)
(* Handlers that need the sources call WaitForSources with their context.   *)
(*                                                                         *)
(* Contexts nest: what holds a context may pass the interceptor with it     *)
(* again, several times and at the same time, and each time makes a context *)
(* inside of its own, which itself stays as it is. Where the interceptor    *)
(* returns the context it was given, the model has an equal one.            *)
(*                                                                         *)
(* The management service is external: a call of KeepaliveSources returns   *)
(* without or with an error (also because the request ended and took its    *)
(* context along), or panics.                                               *)
(***************************************************************************)
CONSTANTS
    Contexts,   \* of requests, and made of those by the interceptor
    NoContext,
    Accounts,
    NoAccount,  \* the empty account name
    NoOverride, \* AccountOverride is nil
    Waiters     \* the calls of WaitForSources with one context

ASSUME ContextsAssumption == NoContext \notin Contexts
ASSUME AccountsAssumption ==
    NoAccount \notin Accounts /\ NoOverride \notin Accounts

VARIABLES
    config,     \* AccountOverride, and whether the interceptor has a client
    lastCalled, \* per account: "never", "recent" or "old" (ten minutes ago)
    pc,         \* where the context is
    outer,      \* what the interceptor made it of; NoContext for a request's own
    account,    \* AccountNameContextKey
    func,       \* whose waker its function waits for; NoContext without one
    waker,      \* where the waker started for this very context is
    result,     \* what KeepaliveSources returned to that waker
    ready,      \* its channel sourcesReady: the values in it
    closed,     \* sourcesReady is closed
    wait        \* per call of WaitForSources: what it returned

contextVars == <<pc, outer, account, func>>
wakerVars == <<waker, result, closed>>
vars == <<config, lastCalled, contextVars, wakerVars, ready, wait>>

Names == Accounts \cup {NoAccount}

Configs ==
    [override : Accounts \cup {NoOverride}, client : BOOLEAN]

Init ==
    /\ config \in Configs
    /\ lastCalled = [a \in Accounts |-> "never"]
    /\ pc = [c \in Contexts |-> "unused"]
    /\ outer = [c \in Contexts |-> NoContext]
    /\ account = [c \in Contexts |-> NoAccount]
    /\ func = [c \in Contexts |-> NoContext]
    /\ waker = [c \in Contexts |-> "none"]
    /\ result = [c \in Contexts |-> "none"]
    /\ ready = [c \in Contexts |-> {}]
    /\ closed = [c \in Contexts |-> FALSE]
    /\ wait = [c \in Contexts |-> [w \in Waiters |-> "idle"]]

-----------------------------------------------------------------------------
(* The middleware                                                           *)

\* ensureValidTokenHandler: a token that does not validate is answered with
\* 401.
Reject(c) ==
    /\ pc[c] = "unused"
    /\ pc' = [pc EXCEPT ![c] = "rejected"]
    /\ UNCHANGED <<config, lastCalled, outer, account, func, wakerVars, ready, wait>>

\* Mutant: the override is used without a test for nil.
AlwaysOverride(claimed) == config.override

\* OverrideCustomClaims: the override, else the name claimed by the token. A
\* request that bypasses validation (BypassAuth, or its path) has no claims,
\* hence no name, like one whose token claims none.
AccountOf(claimed) ==
    IF config.override # NoOverride THEN config.override ELSE claimed

Admit(c) ==
    /\ pc[c] = "unused"
    /\ \E claimed \in Names : account' = [account EXCEPT ![c] = AccountOf(claimed)]
    /\ pc' = [pc EXCEPT ![c] = "handling"]
    /\ UNCHANGED <<config, lastCalled, outer, func, wakerVars, ready, wait>>

-----------------------------------------------------------------------------
(* The interceptor                                                          *)

\* A handler or a client with the interceptor is called with context c; d is
\* the context that wakeSources will return. Like any context made of another
\* it has what c has.
PassOn(c, d) ==
    /\ pc[c] = "handling"
    /\ pc[d] = "unused"
    /\ pc' = [pc EXCEPT ![d] = "entering"]
    /\ outer' = [outer EXCEPT ![d] = c]
    /\ account' = [account EXCEPT ![d] = account[c]]
    /\ func' = [func EXCEPT ![d] = func[c]]
    /\ UNCHANGED <<config, lastCalled, wakerVars, ready, wait>>

\* shouldCallKeepalive
ShouldCall(a) == a # NoAccount /\ lastCalled[a] # "recent"

\* The early returns of wakeSources.
Wakes(d) == config.client /\ func[d] = NoContext /\ ShouldCall(account[d])

\* The cache is read under its lock, and used after the lock is released.
CheckLastCalled(d) ==
    /\ pc[d] = "entering"
    /\ pc' = [pc EXCEPT ![d] = IF Wakes(d) THEN "waking" ELSE "handling"]
    /\ UNCHANGED <<config, lastCalled, outer, account, func, wakerVars, ready, wait>>

\* Mutant: the time of the call is stored before the call.
SpawnStamped(d) ==
    /\ pc[d] = "waking"
    /\ pc' = [pc EXCEPT ![d] = "handling"]
    /\ func' = [func EXCEPT ![d] = d]
    /\ waker' = [waker EXCEPT ![d] = "calling"]
    /\ lastCalled' = [lastCalled EXCEPT ![account[d]] = "recent"]
    /\ UNCHANGED <<config, outer, account, result, closed, ready, wait>>

\* A new channel, the function in the new context, and the goroutine.
SpawnWaker(d) ==
    /\ pc[d] = "waking"
    /\ pc' = [pc EXCEPT ![d] = "handling"]
    /\ func' = [func EXCEPT ![d] = d]
    /\ waker' = [waker EXCEPT ![d] = "calling"]
    /\ UNCHANGED <<config, lastCalled, outer, account, result, closed, ready, wait>>

-----------------------------------------------------------------------------
(* The waker                                                                *)

KeepaliveReturns(c) ==
    /\ waker[c] = "calling"
    /\ \E res \in {"ok", "error"} : result' = [result EXCEPT ![c] = res]
    /\ waker' = [waker EXCEPT ![c] = "stamping"]
    /\ UNCHANGED <<config, lastCalled, contextVars, closed, ready, wait>>

\* The deferred calls close the channel, then recover.
KeepalivePanics(c) ==
    /\ waker[c] = "calling"
    /\ result' = [result EXCEPT ![c] = "panic"]
    /\ waker' = [waker EXCEPT ![c] = "closing"]
    /\ UNCHANGED <<config, lastCalled, contextVars, closed, ready, wait>>

\* After an error, too.
UpdateLastCalled(c) ==
    /\ waker[c] = "stamping"
    /\ lastCalled' = [lastCalled EXCEPT ![account[c]] = "recent"]
    /\ waker' = [waker EXCEPT ![c] = "sending"]
    /\ UNCHANGED <<config, contextVars, result, closed, ready, wait>>

\* Mutant: the channel has no buffer, and the send needs a waiter.
SendUnbuffered(c) ==
    /\ waker[c] = "sending"
    /\ \E d \in Contexts, w \in Waiters : func[d] = c /\ wait[d][w] = "waiting"
    /\ ready' = [ready EXCEPT ![c] = {result[c]}]
    /\ waker' = [waker EXCEPT ![c] = "closing"]
    /\ UNCHANGED <<config, lastCalled, contextVars, result, closed, wait>>

\* The channel has room for one value.
SendResult(c) ==
    /\ waker[c] = "sending"
    /\ ready[c] = {}
    /\ ready' = [ready EXCEPT ![c] = {result[c]}]
    /\ waker' = [waker EXCEPT ![c] = "closing"]
    /\ UNCHANGED <<config, lastCalled, contextVars, result, closed, wait>>

\* Mutant: the channel is not closed.
LeaveOpen(c) ==
    /\ waker[c] = "closing"
    /\ waker' = [waker EXCEPT ![c] = "done"]
    /\ UNCHANGED <<config, lastCalled, contextVars, result, closed, ready, wait>>

CloseReady(c) ==
    /\ waker[c] = "closing"
    /\ closed' = [closed EXCEPT ![c] = TRUE]
    /\ waker' = [waker EXCEPT ![c] = "done"]
    /\ UNCHANGED <<config, lastCalled, contextVars, result, ready, wait>>

Waker(c) ==
    \/ KeepaliveReturns(c) \/ KeepalivePanics(c) \/ UpdateLastCalled(c)
    \/ SendResult(c) \/ CloseReady(c)

-----------------------------------------------------------------------------
(* WaitForSources                                                           *)

\* Without a function in the context it returns immediately.
CallWait(c, w) ==
    /\ pc[c] = "handling"
    /\ wait[c][w] = "idle"
    /\ wait' = [wait EXCEPT ![c][w] = IF func[c] # NoContext THEN "waiting" ELSE "unset"]
    /\ UNCHANGED <<config, lastCalled, contextVars, wakerVars, ready>>

\* The value is taken out of the channel: nobody else gets it.
ReceiveResult(c, w) ==
    /\ wait[c][w] = "waiting"
    /\ \E res \in ready[func[c]] :
          wait' = [wait EXCEPT ![c][w] = IF res = "ok" THEN "nil" ELSE "error"]
    /\ ready' = [ready EXCEPT ![func[c]] = {}]
    /\ UNCHANGED <<config, lastCalled, contextVars, wakerVars>>

\* Mutant: a waiter does not block on an open channel.
ReceiveNothing(c, w) ==
    /\ wait[c][w] = "waiting"
    /\ ready[func[c]] = {}
    /\ wait' = [wait EXCEPT ![c][w] = "nil"]
    /\ UNCHANGED <<config, lastCalled, contextVars, wakerVars, ready>>

\* An empty closed channel yields nil.
ReceiveClosed(c, w) ==
    /\ wait[c][w] = "waiting"
    /\ ready[func[c]] = {}
    /\ closed[func[c]]
    /\ wait' = [wait EXCEPT ![c][w] = "nil"]
    /\ UNCHANGED <<config, lastCalled, contextVars, wakerVars, ready>>

WaitForSources(c, w) == ReceiveResult(c, w) \/ ReceiveClosed(c, w)

-----------------------------------------------------------------------------
\* The time of the last call is ten minutes ago.
TenMinutesPass(a) ==
    /\ lastCalled[a] = "recent"
    /\ lastCalled' = [lastCalled EXCEPT ![a] = "old"]
    /\ UNCHANGED <<config, contextVars, wakerVars, ready, wait>>

Request(c) ==
    \/ Reject(c) \/ Admit(c) \/ CheckLastCalled(c) \/ SpawnWaker(c)
    \/ \E d \in Contexts : PassOn(c, d)

\* No call of the interceptor is on its way, and every waker has ended.
AllDone ==
    /\ \A c \in Contexts : pc[c] \notin {"entering", "waking"} /\ waker[c] \in {"none", "done"}
    /\ UNCHANGED vars

Next ==
    \/ \E c \in Contexts : Request(c) \/ Waker(c)
    \/ \E c \in Contexts, w \in Waiters : CallWait(c, w) \/ WaitForSources(c, w)
    \/ \E a \in Accounts : TenMinutesPass(a)
    \/ AllDone

\* Go runs every goroutine that can run, and the management service answers
\* or the context of the call ends. Nothing makes a handler wait or finish.
Fairness ==
    /\ \A c \in Contexts : WF_vars(Waker(c))
    /\ \A c \in Contexts, w \in Waiters : WF_vars(WaitForSources(c, w))

Spec == Init /\ [][Next]_vars /\ Fairness

-----------------------------------------------------------------------------
TypeOK ==
    /\ config \in Configs
    /\ lastCalled \in [Accounts -> {"never", "recent", "old"}]
    /\ pc \in [Contexts -> {"unused", "rejected", "entering", "waking", "handling"}]
    /\ outer \in [Contexts -> Contexts \cup {NoContext}]
    /\ account \in [Contexts -> Names]
    /\ func \in [Contexts -> Contexts \cup {NoContext}]
    /\ waker \in [Contexts -> {"none", "calling", "stamping", "sending", "closing", "done"}]
    /\ result \in [Contexts -> {"none", "ok", "error", "panic"}]
    /\ ready \in [Contexts -> SUBSET {"ok", "error"}]
    /\ closed \in [Contexts -> BOOLEAN]
    /\ wait \in [Contexts -> [Waiters -> {"idle", "unset", "waiting", "nil", "error"}]]

\* Context c passed the interceptor, which had a client and an account to wake.
Screened(c) == outer[c] # NoContext /\ config.client /\ account[c] # NoAccount

\* A context that has a function gives it to all the contexts inside of it, and
\* no waker is started for those (keepalive_interceptor.go:139-143). Contexts
\* made of one without a function may each start a waker.
NestedShareWaker ==
    \A c \in Contexts :
        /\ waker[c] # "none" <=> func[c] = c
        /\ waker[c] # "none" => Screened(c)
        /\ (outer[c] # NoContext /\ func[outer[c]] # NoContext) => func[c] = func[outer[c]]

\* c and d wait for the same waker.
SameWaker(c, d) == func[c] = func[d] /\ func[c] # NoContext

\* When the call ended with an error, that error is returned once, and before
\* WaitForSources returns nil to anybody who waits for that call
\* (keepalive_interceptor.go:160, 167, 179): it is sent before the channel is
\* closed, and only one receiver gets it. This is less than lines 36-39 say:
\* see ErrorsReturned.
ErrorComesFirst ==
    \A c \in Contexts, w \in Waiters :
        /\ wait[c][w] = "error" =>
              /\ result[func[c]] = "error"
              /\ \A d \in Contexts, v \in Waiters :
                    SameWaker(c, d) /\ wait[d][v] = "error" => d = c /\ v = w
        /\ wait[c][w] = "nil" =>
              /\ result[func[c]] # "none"
              /\ result[func[c]] = "error" =>
                    \E d \in Contexts, v \in Waiters : SameWaker(c, d) /\ wait[d][v] = "error"

\* Where the interceptor has passed, WaitForSources returns immediately only
\* when waking is switched off, there is no account, or a call for this very
\* account has ended (keepalive_interceptor.go:70-89).
SkipsOnlyAfterCall ==
    \A c \in Contexts, w \in Waiters :
        (wait[c][w] = "unset" /\ Screened(c))
            => \E d \in Contexts : account[d] = account[c] /\ result[d] \in {"ok", "error"}

\* Nobody is left behind: a waker that has its result can always hand it over
\* and closes its channel once, and who waits has a waker that goes on, a
\* value, or a closed channel before it (keepalive_interceptor.go:155, 160,
\* 165-179).
NobodyIsLeft ==
    \A c \in Contexts :
        /\ waker[c] = "sending" => ready[c] = {}
        /\ waker[c] \in {"sending", "closing"} => ~closed[c]
        /\ \A w \in Waiters : wait[c][w] = "waiting" =>
              /\ func[c] # NoContext
              /\ \/ waker[func[c]] \in {"calling", "stamping", "sending", "closing"}
                 \/ ready[func[c]] # {}
                 \/ closed[func[c]]

\* What a handler may rely on: the calls and what WaitForSources said of them.
CallOf(c) ==
    CASE waker[c] = "none" -> "none"
      [] waker[c] = "calling" -> "running"
      [] OTHER -> result[c]

Heard(c, w) ==
    CASE wait[c][w] \in {"idle", "waiting"} -> "nothing"
      [] wait[c][w] = "unset" -> "pass"
      [] wait[c][w] = "error" -> "error"
      [] OTHER -> "over"

Contract == INSTANCE KeepaliveContract WITH
    enabled <- config.client,
    source <- func,
    call <- [c \in Contexts |-> CallOf(c)],
    told <- [c \in Contexts |-> [w \in Waiters |-> Heard(c, w)]]

\* Whatever contexts share an account or are nested, and in whichever order
\* wakers and waiters run, each handler gets what KeepaliveContract promises it
\* (keepalive_interceptor.go:36-49, 134-183).
KeepsContract == Contract!Spec

\* "WaitForSources [...] will block until the sources are ready"
\* (keepalive_interceptor.go:26-28): behind the interceptor, where there is an
\* account and a client, it returns at once only after a call for the account
\* has succeeded.
BlocksUntilReady ==
    \A c \in Contexts, w \in Waiters :
        (wait[c][w] = "unset" /\ Screened(c))
            => \E d \in Contexts : account[d] = account[c] /\ result[d] = "ok"

\* "If the waking of the sources returns an error it will be returned via this
\* function" (keepalive_interceptor.go:38-39): to whoever waits.
ErrorsReturned ==
    \A c \in Contexts, w \in Waiters : wait[c][w] = "nil" => result[func[c]] # "error"

\* "if the value is never used, the goroutine that keeps the sources awake can
\* close" (keepalive_interceptor.go:150-152): every waker ends.
WakersEnd == \A c \in Contexts : waker[c] = "calling" ~> waker[c] = "done"

\* Every WaitForSources returns, however many wait for the one value.
WaitsEnd ==
    \A c \in Contexts, w \in Waiters : wait[c][w] = "waiting" ~> wait[c][w] # "waiting"

\* All goroutines of the interceptor end, whoever waits or does not.
KeepaliveEnds == WakersEnd /\ WaitsEnd

=============================================================================
