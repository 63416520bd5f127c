--------------------------- MODULE GatewayClient ---------------------------
(***************************************************************************)
(* The websocket client of the gateway (sdpws/client.go, sdpws/utils.go):   *)
(* one receive goroutine passes the responses of many requests on to the    *)
(* goroutines that made them, through one channel of capacity one each.     *)
(*                                                                         *)
(* Processes: the receive goroutine, a goroutine per call of Query, one per *)
(* call of StoreSnapshot or StoreBookmark, one per request that is sent     *)
(* with SendQuery and awaited with Wait, and a caller of Close. Every       *)
(* request has an id of its own, which is also the name of its process.     *)
(***************************************************************************)
EXTENDS Naturals

CONSTANTS
    Queries,        \* requests made with Query
    Stores,         \* requests made with StoreSnapshot or StoreBookmark
    Sent,           \* requests made with SendQuery and Wait
    MaxItems,       \* bounds the items the gateway finds for one request
    GivesUp         \* requests whose context may be cancelled

ASSUME NamesAssumption ==
    /\ Queries \cap Stores = {}
    /\ (Queries \cup Stores) \cap Sent = {}
    /\ {"receiver", "closer"} \cap (Queries \cup Stores \cup Sent) = {}

\* Requests that read their responses from a channel.
Calls == Queries \cup Stores

Requests == Calls \cup Sent

ASSUME BoundAssumption == MaxItems \in Nat /\ GivesUp \subseteq Requests

Procs == Requests \cup {"receiver", "closer"}

\* Responses of the gateway to a request. "noise" stands for those that
\* Query reads and ignores: NOTFOUND errors and the STARTED status.
Last == {"FINISHED", "CANCELLED", "ERRORED"}
Responses == {"item", "otherError", "noise"} \cup Last

\* The one response to a request to store: "odd" is one that is no answer to it.
StoreResults == {"stored", "refused", "odd"}

ResponsesTo(u) == IF u \in Stores THEN StoreResults ELSE Responses

VARIABLES
    pc,         \* where each process is
    gateway,    \* what the gateway does with each request
    found,      \* items the gateway has found per request
    msg,        \* the response in the hands of the receive goroutine
    inMap,      \* requestMap has a channel for the request
    buffer,     \* what is in the channel of the request
    chanClosed, \* the channel was closed
    finished,   \* finishedRequestMap
    closed,     \* c.closed
    connClosed, \* the websocket was closed
    items,      \* items each Query has collected
    otherErr,   \* Query has seen an error of type OTHER
    result      \* what each request returned

connVars  == <<closed, connClosed>>
gwVars    == <<gateway, found>>
mapVars   == <<inMap, chanClosed, finished>>
queryVars == <<items, otherErr, result>>

vars == <<pc, gwVars, msg, mapVars, buffer, connVars, queryVars>>

Init ==
    /\ pc = [p \in Procs |-> IF p = "receiver" THEN "read" ELSE "idle"]
    /\ gateway = [u \in Requests |-> "unsent"]
    /\ found = [u \in Requests |-> 0]
    /\ msg = [to |-> "closer", is |-> "noise"]
    /\ inMap = [u \in Requests |-> FALSE]
    /\ buffer = [u \in Requests |-> "empty"]
    /\ chanClosed = [u \in Requests |-> FALSE]
    /\ finished = [u \in Requests |-> FALSE]
    /\ closed = FALSE
    /\ connClosed = FALSE
    /\ items = [q \in Queries |-> 0]
    /\ otherErr = [q \in Queries |-> FALSE]
    /\ result = [u \in Requests |-> "none"]

Goto(p, l) == pc' = [pc EXCEPT ![p] = l]

\* finishedRequestMapCond.Broadcast by a process that goes on to l.
Wake(p, l) ==
    pc' = [x \in Procs |->
              IF x = p THEN l ELSE IF pc[x] = "waiting" THEN "check" ELSE pc[x]]

\* Mutant: postRequestChan sends without the lock.
MapUnlocked == FALSE

\* requestMapMu is held for reading while postRequestChan sends; everybody
\* else takes it for writing, for one step.
MapLocked == pc["receiver"] = "post"

-----------------------------------------------------------------------------
(* abort, in whichever process calls it                                     *)

AbortConn(p) ==
    /\ pc[p] = "abort"
    /\ connClosed' = TRUE
    /\ Goto(p, "mark")
    /\ UNCHANGED <<gwVars, msg, mapVars, buffer, closed, queryVars>>

AbortMark(p) ==
    /\ pc[p] = "mark"
    /\ closed' = TRUE
    /\ Goto(p, "closeAll")
    /\ UNCHANGED <<gwVars, msg, mapVars, buffer, connClosed, queryVars>>

\* Where abort returns to.
AfterAbort(p) ==
    IF p = "receiver" THEN "exited" ELSE IF p \in Queries THEN "finish" ELSE "done"

\* Mutant: the channels are forgotten instead of closed.
ForgetAllRequestChans(p) ==
    /\ pc[p] = "closeAll"
    /\ ~MapLocked
    /\ finished' = [u \in Requests |-> finished[u] \/ inMap[u]]
    /\ inMap' = [u \in Requests |-> FALSE]
    /\ Wake(p, AfterAbort(p))
    /\ UNCHANGED <<gwVars, msg, chanClosed, buffer, connVars, queryVars>>

CloseAllRequestChans(p) ==
    /\ pc[p] = "closeAll"
    /\ ~MapLocked
    /\ chanClosed' = [u \in Requests |-> chanClosed[u] \/ inMap[u]]
    /\ finished' = [u \in Requests |-> finished[u] \/ inMap[u]]
    /\ inMap' = [u \in Requests |-> FALSE]
    /\ Wake(p, AfterAbort(p))
    /\ UNCHANGED <<gwVars, msg, buffer, connVars, queryVars>>

Abort(p) == AbortConn(p) \/ AbortMark(p) \/ CloseAllRequestChans(p)

-----------------------------------------------------------------------------
(* The receive goroutine                                                    *)

\* A response of the gateway to a request that reached it.
Receive(u, r) ==
    /\ pc["receiver"] = "read"
    /\ ~connClosed
    /\ gateway[u] = "running"
    /\ msg' = [to |-> u, is |-> r]
    /\ IF r = "item"
       THEN found[u] < MaxItems /\ found' = [found EXCEPT ![u] = @ + 1]
       ELSE UNCHANGED found
    /\ gateway' = IF r \in Last \cup StoreResults
                  THEN [gateway EXCEPT ![u] = "over"] ELSE gateway
    /\ Goto("receiver", "lookup")
    /\ UNCHANGED <<mapVars, buffer, connVars, queryVars>>

\* The connection fails, brings no binary message, or one that does not parse.
ReadFails ==
    /\ pc["receiver"] = "read"
    /\ Goto("receiver", "abort")
    /\ UNCHANGED <<gwVars, msg, mapVars, buffer, connVars, queryVars>>

\* Reading from a closed websocket fails.
ReadClosed == connClosed /\ ReadFails

AfterPost == IF msg.is \in Last THEN "finish" ELSE "read"

\* postRequestChan: RLock and the look into the map.
Lookup ==
    /\ pc["receiver"] = "lookup"
    /\ Goto("receiver", IF inMap[msg.to] THEN "post" ELSE AfterPost)
    /\ UNCHANGED <<gwVars, msg, mapVars, buffer, connVars, queryVars>>

\* Mutant: a response that finds the channel full is dropped.
PostOrDrop ==
    /\ pc["receiver"] = "post"
    /\ buffer' = IF buffer[msg.to] = "empty"
                 THEN [buffer EXCEPT ![msg.to] = msg.is] ELSE buffer
    /\ Goto("receiver", AfterPost)
    /\ UNCHANGED <<gwVars, msg, mapVars, connVars, queryVars>>

\* r <- msg: blocks while the channel is full.
Post ==
    /\ pc["receiver"] = "post"
    /\ buffer[msg.to] = "empty"
    /\ buffer' = [buffer EXCEPT ![msg.to] = msg.is]
    /\ Goto("receiver", AfterPost)
    /\ UNCHANGED <<gwVars, msg, mapVars, connVars, queryVars>>

\* finishRequestChan(u), by process p that goes on to l.
FinishRequestChan(u, p, l) ==
    /\ ~MapLocked
    /\ inMap' = [inMap EXCEPT ![u] = FALSE]
    /\ finished' = [finished EXCEPT ![u] = TRUE]
    /\ Wake(p, l)
    /\ UNCHANGED <<gwVars, msg, chanClosed, buffer, connVars, queryVars>>

ReceiverFinish ==
    /\ pc["receiver"] = "finish"
    /\ FinishRequestChan(msg.to, "receiver", "read")

Receiver ==
    Lookup \/ Post \/ ReceiverFinish \/ ReadClosed \/ Abort("receiver")

-----------------------------------------------------------------------------
(* Query, StoreSnapshot and StoreBookmark, and how requests are sent        *)

Return(u, l, r) == Goto(u, l) /\ result' = [result EXCEPT ![u] = r]

\* Mutant: Query leaves its channel in the map, as the stores do.
ReturnFromBare(u) == "done"

\* Query removes its channel on every return; the stores leave theirs.
ReturnFrom(u) == IF u \in Queries THEN "finish" ELSE "done"

\* The calls test Closed before they do anything.
CallCheck(q) ==
    /\ pc[q] = "idle"
    /\ IF closed
       THEN Return(q, "done", "closed")
       ELSE Goto(q, "create") /\ UNCHANGED result
    /\ UNCHANGED <<gwVars, msg, mapVars, buffer, connVars, items, otherErr>>

CreateRequestChan(q) ==
    /\ pc[q] = "create"
    /\ ~MapLocked
    /\ inMap' = [inMap EXCEPT ![q] = TRUE]
    /\ Goto(q, "send")
    /\ UNCHANGED <<gwVars, msg, chanClosed, finished, buffer, connVars, queryVars>>

\* SendQuery, SendStoreSnapshot and SendStoreBookmark test Closed again; a
\* SendQuery that is not part of Query starts here.
SendCheck(u) ==
    /\ pc[u] = IF u \in Calls THEN "send" ELSE "idle"
    /\ IF closed
       THEN Return(u, ReturnFrom(u), "closed")
       ELSE Goto(u, "write") /\ UNCHANGED result
    /\ UNCHANGED <<gwVars, msg, mapVars, buffer, connVars, items, otherErr>>

\* conn.Write succeeds, or fails and send aborts the client. A write may also
\* fail after the whole frame has gone out: then the gateway has the request,
\* and its responses come until the connection is closed.
Write(u) ==
    /\ pc[u] = "write"
    /\ \/ /\ ~connClosed
          /\ gateway' = [gateway EXCEPT ![u] = "running"]
          /\ Goto(u, IF u \in Calls THEN "loop" ELSE "check")
          /\ UNCHANGED result
       \/ /\ Return(u, "abort", "sendFailed")
          /\ \/ UNCHANGED gateway
             \/ ~connClosed /\ gateway' = [gateway EXCEPT ![u] = "running"]
    /\ UNCHANGED <<found, msg, mapVars, buffer, connVars, items, otherErr>>

\* Mutant: an error of type OTHER falls through to the append of the items.
QueryReadAppends(q) ==
    /\ pc[q] = "loop"
    /\ buffer[q] \notin Last \cup {"empty"}
    /\ buffer' = [buffer EXCEPT ![q] = "empty"]
    /\ items' = [items EXCEPT ![q] = @ + 1]
    /\ otherErr' = [otherErr EXCEPT ![q] = buffer[q] = "otherError"]
    /\ UNCHANGED <<pc, gwVars, msg, mapVars, connVars, result>>

\* The read loop of Query takes a response out of its channel.
QueryRead(q) ==
    /\ pc[q] = "loop"
    /\ buffer[q] # "empty"
    /\ buffer' = [buffer EXCEPT ![q] = "empty"]
    /\ items' = IF buffer[q] = "item" THEN [items EXCEPT ![q] = @ + 1] ELSE items
    /\ otherErr' = IF buffer[q] = "otherError" THEN [otherErr EXCEPT ![q] = TRUE] ELSE otherErr
    /\ \/ buffer[q] = "FINISHED" /\ Return(q, "finish", "ok")
       \/ buffer[q] = "CANCELLED" /\ Return(q, "finish", "cancelled")
       \/ /\ buffer[q] = "ERRORED"
          /\ Return(q, "finish", IF items[q] = 0 /\ otherErr[q] THEN "errored" ELSE "ok")
       \/ buffer[q] \notin Last /\ UNCHANGED <<pc, result>>
    /\ UNCHANGED <<gwVars, msg, mapVars, connVars>>

\* What a store returns for its one response: anything but an answer to the
\* request is an error.
ResultOf(r) ==
    CASE r = "stored" -> "ok" [] r = "refused" -> "refused" [] OTHER -> "unexpected"

StoreRead(q) ==
    /\ pc[q] = "loop"
    /\ buffer[q] # "empty"
    /\ buffer' = [buffer EXCEPT ![q] = "empty"]
    /\ Return(q, "done", ResultOf(buffer[q]))
    /\ UNCHANGED <<gwVars, msg, mapVars, connVars, items, otherErr>>

\* The channel is closed and empty: Query ends without an error, a store with
\* one.
ReadClosedChan(q) ==
    /\ pc[q] = "loop"
    /\ buffer[q] = "empty" /\ chanClosed[q]
    /\ Return(q, ReturnFrom(q), IF q \in Queries THEN "ok" ELSE "closed")
    /\ UNCHANGED <<gwVars, msg, mapVars, buffer, connVars, items, otherErr>>

\* The context of the call is cancelled.
CallGivesUp(q) ==
    /\ q \in GivesUp
    /\ pc[q] = "loop"
    /\ Return(q, ReturnFrom(q), "context")
    /\ UNCHANGED <<gwVars, msg, mapVars, buffer, connVars, items, otherErr>>

\* defer c.finishRequestChan(u)
QueryFinish(q) == pc[q] = "finish" /\ FinishRequestChan(q, q, "done")

Call(q) ==
    \/ CreateRequestChan(q) \/ SendCheck(q) \/ Write(q)
    \/ q \in Queries /\ (QueryRead(q) \/ QueryFinish(q))
    \/ q \in Stores /\ StoreRead(q)
    \/ ReadClosedChan(q) \/ Abort(q)

-----------------------------------------------------------------------------
(* Wait, for the one request of a process that called SendQuery             *)

WaitCheck(u) ==
    /\ pc[u] = "check"
    /\ \/ closed /\ Return(u, "done", "ok")
       \/ ~closed /\ Goto(u, "lock") /\ UNCHANGED result
       \/ ~closed /\ u \in GivesUp /\ Return(u, "done", "context")
    /\ UNCHANGED <<gwVars, msg, mapVars, buffer, connVars, items, otherErr>>

\* Mutant: any wake-up is taken for the end of the request.
WaitOnce(u) ==
    /\ pc[u] = "lock"
    /\ IF \E v \in Requests : finished[v]
       THEN Return(u, "done", "ok")
       ELSE Goto(u, "waiting") /\ UNCHANGED result
    /\ UNCHANGED <<gwVars, msg, mapVars, buffer, connVars, items, otherErr>>

\* Under finishedRequestMapMu: return, or wait on the condition.
WaitLock(u) ==
    /\ pc[u] = "lock"
    /\ IF finished[u]
       THEN Return(u, "done", "ok")
       ELSE Goto(u, "waiting") /\ UNCHANGED result
    /\ UNCHANGED <<gwVars, msg, mapVars, buffer, connVars, items, otherErr>>

Wait(u) == (u \in Sent /\ Write(u)) \/ WaitCheck(u) \/ WaitLock(u) \/ Abort(u)

-----------------------------------------------------------------------------
CloseBegin ==
    /\ pc["closer"] = "idle"
    /\ Goto("closer", "abort")
    /\ UNCHANGED <<gwVars, msg, mapVars, buffer, connVars, queryVars>>

\* No response and no failure is due: the client may stay like this.
AtRest ==
    /\ pc["receiver"] \in {"read", "exited"}
    /\ \A u \in Requests : pc[u] \in {"idle", "loop", "waiting", "done"}
    /\ UNCHANGED vars

Next ==
    \/ \E u \in Requests : \E r \in ResponsesTo(u) : Receive(u, r)
    \/ ReadFails
    \/ Receiver
    \/ \E q \in Calls : CallCheck(q) \/ Call(q) \/ CallGivesUp(q)
    \/ \E u \in Sent : SendCheck(u) \/ Wait(u)
    \/ CloseBegin
    \/ Abort("closer")
    \/ AtRest

\* Go runs every goroutine that can run. The gateway may stay silent, the
\* connection may last, and nobody has to make a request or to give one up.
Fairness ==
    /\ WF_vars(Receiver)
    /\ \A q \in Calls : WF_vars(Call(q))
    /\ \A u \in Sent : WF_vars(Wait(u))
    /\ WF_vars(Abort("closer"))

Spec == Init /\ [][Next]_vars /\ Fairness

-----------------------------------------------------------------------------
Places == {"idle", "read", "lookup", "post", "finish", "abort", "mark",
           "closeAll", "exited", "create", "send", "write", "loop", "check",
           "lock", "waiting", "done"}

TypeOK ==
    /\ pc \in [Procs -> Places]
    /\ gateway \in [Requests -> {"unsent", "running", "over"}]
    /\ found \in [Requests -> 0..MaxItems]
    /\ msg \in [to : Requests \cup {"closer"}, is : Responses \cup StoreResults]
    /\ inMap \in [Requests -> BOOLEAN]
    /\ buffer \in [Requests -> Responses \cup StoreResults \cup {"empty"}]
    /\ chanClosed \in [Requests -> BOOLEAN]
    /\ finished \in [Requests -> BOOLEAN]
    /\ closed \in BOOLEAN
    /\ connClosed \in BOOLEAN
    /\ items \in [Queries -> 0..MaxItems]
    /\ otherErr \in [Queries -> BOOLEAN]
    /\ result \in [Requests -> {"none", "ok", "cancelled", "errored", "refused",
                                "unexpected", "context", "closed", "sendFailed"}]

\* "this write has to happen under the lock to avoid panics when closing the
\* channel" (client.go:397): the receive goroutine sends only on a channel
\* that is still in the map and open.
PostsToOpenChannel ==
    pc["receiver"] = "post" => inMap[msg.to] /\ ~chanClosed[msg.to]

\* A call that reads its channel will be told of its end: the channel is
\* closed, or holds the last response, or is in the map of a receive goroutine
\* that is still running and passes on the last response or closes it.
NoOrphanCall ==
    \A q \in Calls : pc[q] = "loop" =>
        \/ chanClosed[q]
        \/ buffer[q] \in Last \cup StoreResults
        \/ inMap[q] /\ pc["receiver"] # "exited"

\* A Query that ended well while the client was open returns every item the
\* gateway has found, however responses of several requests interleave.
CompleteResults ==
    \A q \in Queries : result[q] = "ok" /\ ~closed =>
        gateway[q] = "over" /\ items[q] = found[q]

\* Wait returns without an error only when its request is finished or the
\* client is closed.
WaitsForRequest ==
    \A u \in Sent : result[u] = "ok" => finished[u] \/ closed

\* What each goroutine waits for, read off the guards of its steps.
ReceiverCanRun ==
    \/ pc["receiver"] \in {"lookup", "finish", "abort", "mark", "closeAll"}
    \/ pc["receiver"] = "post" /\ buffer[msg.to] = "empty"
    \/ pc["receiver"] = "read" /\ connClosed

RequestCanRun(u) ==
    \/ pc[u] \in {"send", "write", "check", "lock", "abort", "mark"}
    \/ pc[u] \in {"create", "closeAll", "finish"} /\ ~MapLocked
    \/ pc[u] = "loop" /\ (buffer[u] # "empty" \/ chanClosed[u])

CloserCanRun ==
    pc["closer"] \in {"abort", "mark"} \/ (pc["closer"] = "closeAll" /\ ~MapLocked)

SomebodyCanRun ==
    ReceiverCanRun \/ CloserCanRun \/ \E u \in Requests : RequestCanRun(u)

\* Nothing is left to do before the gateway answers or a request is made.
Quiet ==
    /\ pc["closer"] \in {"idle", "done"}
    /\ \A u \in Requests : pc[u] \in {"idle", "loop", "waiting", "done"}
    /\ \/ pc["receiver"] = "read" /\ ~connClosed
       \/ pc["receiver"] = "exited" /\ \A q \in Calls : pc[q] # "loop"

\* The receive goroutine holds requestMapMu and posts to a Query that does not
\* read and needs requestMapMu to say so: its context was cancelled, or the
\* write of its request failed after the gateway had got it.
StuckOnQuitter ==
    /\ pc["receiver"] = "post"
    /\ msg.to \in Queries
    /\ \/ msg.to \in GivesUp /\ pc[msg.to] = "finish" /\ result[msg.to] = "context"
       \/ pc[msg.to] = "closeAll" /\ result[msg.to] = "sendFailed"

\* One goroutine serves all requests through channels of capacity one, with
\* requestMapMu held while it waits for room (client.go:392-399). Still all of
\* them can go on, or rest; a channel that stays full belongs to a Query that
\* was given up or whose write failed, and to nothing else: not to a store that
\* left its channel behind, not to a Query whose end came from the gateway or
\* from somebody else's abort.
OnlyQuittersBlock == SomebodyCanRun \/ Quiet \/ StuckOnQuitter

Contract == INSTANCE GatewayContract WITH Waits <- Sent, Impatient <- GivesUp

\* The client implements GatewayContract: although responses, closed channels,
\* failed writes and cancelled contexts race in the select of each request, it
\* returns one result, and what that result says is what happened to it, with
\* all its items as long as the client is open.
KeepsContract == Contract!Spec

\* When the connection is gone, every Query, every store and Close return,
\* unless a Query that does not read has stopped the client for good.
EverythingEnds ==
    /\ \A q \in Calls :
          connClosed /\ pc[q] # "idle" ~> pc[q] = "done" \/ StuckOnQuitter
    /\ connClosed /\ pc["closer"] # "idle" ~> pc["closer"] = "done" \/ StuckOnQuitter

(* What the repository says and the code does not do.                       *)

\* "Waiting on a closed client returns immediately with no error"
\* (client.go:309): a goroutine in Wait does not stay there once abort has
\* closed the client.
WaitEnds ==
    \A u \in Sent :
        closed /\ pc[u] \in {"check", "lock", "waiting"} ~> pc[u] = "done"

\* "Close closes the connection and returns any errors from the underlying
\* connection" (client.go:369).
CloseReturns == pc["closer"] = "abort" ~> pc["closer"] = "done"

\* "Run a query and wait for it to complete, returning all of the items that
\* were found" (utils.go:39).
ReturnsAllItems ==
    \A q \in Queries : result[q] = "ok" => gateway[q] = "over" /\ items[q] = found[q]

=============================================================================
