-------------------------- MODULE GatewayContract --------------------------
(***************************************************************************)
(* What the client of the gateway promises to those who make requests: a    *)
(* request is asked once, returns once, and returns what happened to it.    *)
(* While the client is open a query that ends well has every item that was  *)
(* found, and a wait that ends well was for a request that is over.         *)
(***************************************************************************)
EXTENDS Naturals

CONSTANTS Queries, Stores, Waits, Impatient

Requests == Queries \cup Stores \cup Waits

VARIABLES
    gateway,    \* "unsent", "running" or "over", for each request
    found,      \* items the gateway has found for the request
    items,      \* items the query has
    result,     \* what the request returned, "none" before that
    closed      \* the client is closed

vars == <<gateway, found, items, result, closed>>

Init ==
    /\ gateway = [u \in Requests |-> "unsent"]
    /\ found = [u \in Requests |-> 0]
    /\ items = [q \in Queries |-> 0]
    /\ result = [u \in Requests |-> "none"]
    /\ closed = FALSE

Ask(u) ==
    /\ gateway[u] = "unsent" /\ result[u] = "none"
    /\ gateway' = [gateway EXCEPT ![u] = "running"]
    /\ UNCHANGED <<found, items, result, closed>>

Find(u) ==
    /\ gateway[u] = "running"
    /\ found' = [found EXCEPT ![u] = @ + 1]
    /\ UNCHANGED <<gateway, items, result, closed>>

End(u) ==
    /\ gateway[u] = "running"
    /\ gateway' = [gateway EXCEPT ![u] = "over"]
    /\ UNCHANGED <<found, items, result, closed>>

Collect(q) ==
    /\ items[q] < found[q] /\ result[q] = "none"
    /\ items' = [items EXCEPT ![q] = @ + 1]
    /\ UNCHANGED <<gateway, found, result, closed>>

Close ==
    /\ closed' = TRUE
    /\ UNCHANGED <<gateway, found, items, result>>

Honest(u, r) ==
    \/ r = "ok" /\ (closed \/ gateway[u] = "over")
       /\ (u \in Queries /\ ~closed => items[u] = found[u])
       /\ (u \in Stores => gateway[u] = "over")
    \/ r \in {"refused", "unexpected"} /\ u \in Stores /\ gateway[u] = "over"
    \/ r = "cancelled" /\ u \in Queries /\ gateway[u] = "over"
    \/ r = "errored" /\ u \in Queries /\ gateway[u] = "over" /\ items[u] = 0
    \/ r = "context" /\ u \in Impatient
    \/ r = "closed" /\ closed

Return(u) ==
    /\ result[u] = "none"
    /\ \E r \in {"ok", "refused", "unexpected", "cancelled", "errored", "context",
                 "closed"} :
          Honest(u, r) /\ result' = [result EXCEPT ![u] = r]
    /\ UNCHANGED <<gateway, found, items, closed>>

\* Asking fails: whether the gateway has got the request nobody knows.
FailToAsk(u) ==
    /\ gateway[u] = "unsent" /\ result[u] = "none"
    /\ gateway' \in {gateway, [gateway EXCEPT ![u] = "running"]}
    /\ result' = [result EXCEPT ![u] = "sendFailed"]
    /\ UNCHANGED <<found, items, closed>>

Next ==
    \/ \E u \in Requests : FailToAsk(u) \/ Ask(u) \/ Find(u) \/ End(u) \/ Return(u)
    \/ \E q \in Queries : Collect(q)
    \/ Close

Spec == Init /\ [][Next]_vars
=============================================================================
