------------------------ MODULE GatewayClientProofs ------------------------
(***************************************************************************)
(* What holds of the gateway client for any number of requests of each      *)
(* kind and any number of items.                                            *)
(***************************************************************************)
EXTENDS GatewayClient, TLAPS

(* The types, and what they need: an item is counted once.                  *)

InBuffer(q) == IF buffer[q] = "item" THEN 1 ELSE 0

InHand(q) ==
    IF pc["receiver"] \in {"lookup", "post"} /\ msg.to = q /\ msg.is = "item"
    THEN 1 ELSE 0

\* A Query counts no item twice, and none the gateway has not found.
CountInv == \A q \in Queries : items[q] + InBuffer(q) + InHand(q) <= found[q]

\* The receive goroutine has a response in its hands when it passes one on.
HandInv ==
    pc["receiver"] \in {"lookup", "post", "finish"} =>
        msg.to \in Requests /\ msg.is \in ResponsesTo(msg.to)

\* What is in a channel is a response to its request.
BufferInv ==
    \A u \in Requests : buffer[u] # "empty" => buffer[u] \in ResponsesTo(u)

TypeInv == TypeOK /\ HandInv /\ BufferInv /\ CountInv

\* What the proofs use of the names of the processes.
LEMMA ProcKinds ==
  /\ "receiver" \in Procs /\ "closer" \in Procs
  /\ Queries \subseteq Calls /\ Stores \subseteq Calls
  /\ Queries \cap Stores = {} /\ Calls = Queries \cup Stores
  /\ Calls \subseteq Requests /\ Sent \subseteq Requests
  /\ Calls \cap Sent = {} /\ Requests = Calls \cup Sent
  /\ Requests \subseteq Procs
  /\ \A u \in Requests : u # "receiver" /\ u # "closer"
  BY NamesAssumption DEF Procs, Requests, Calls

LEMMA TypeInit == Init => TypeInv
<1> SUFFICES ASSUME Init PROVE TypeInv
  OBVIOUS
<1>1. TypeOK
  <2>1. 0 \in 0..MaxItems
    BY BoundAssumption
  <2> QED BY <2>1 DEF Init, TypeOK, Places, Responses, Last
<1>2. HandInv /\ BufferInv
  BY ProcKinds DEF Init, HandInv, BufferInv
<1>3. CountInv
  <2> SUFFICES ASSUME NEW q \in Queries
               PROVE  items[q] + InBuffer(q) + InHand(q) <= found[q]
    BY DEF CountInv
  <2>1. items[q] = 0 /\ found[q] = 0 /\ InBuffer(q) = 0 /\ InHand(q) = 0
    BY ProcKinds DEF Init, InBuffer, InHand
  <2> QED BY <2>1
<1> QED BY <1>1, <1>2, <1>3 DEF TypeInv

\* A step of p to the place l keeps the type of pc.
LEMMA TypeGoto ==
  ASSUME TypeOK, NEW p \in Procs, NEW l \in Places, Goto(p, l) \/ Wake(p, l)
  PROVE  /\ pc' \in [Procs -> Places]
         /\ pc'[p] = l
         /\ \A x \in Procs : x # p /\ (Goto(p, l) \/ pc[x] # "waiting") => pc'[x] = pc[x]
         /\ \A x \in Procs : x # p /\ pc[x] = "waiting" => pc'[x] \in {"waiting", "check"}
  BY DEF TypeOK, Goto, Wake, Places

\* The invariant depends on where the receive goroutine is only through the
\* response it holds: a step that changes nothing else keeps it.
LEMMA TypeSame ==
  ASSUME TypeInv, pc' \in [Procs -> Places],
         pc'["receiver"] \in {"lookup", "post", "finish"} =>
             /\ pc["receiver"] \in {"lookup", "post", "finish"}
             /\ pc'["receiver"] = "finish" \/ pc["receiver"] # "finish",
         UNCHANGED <<found, msg, buffer, items>>,
         gateway' \in [Requests -> {"unsent", "running", "over"}],
         otherErr' \in [Queries -> BOOLEAN],
         inMap' \in [Requests -> BOOLEAN], chanClosed' \in [Requests -> BOOLEAN],
         finished' \in [Requests -> BOOLEAN],
         closed' \in BOOLEAN, connClosed' \in BOOLEAN,
         result' \in [Requests -> {"none", "ok", "cancelled", "errored", "refused",
                                "unexpected", "context", "closed", "sendFailed"}]
  PROVE  TypeInv'
<1>1. TypeOK'
  BY DEF TypeInv, TypeOK
<1>2. HandInv' /\ BufferInv'
  BY DEF TypeInv, HandInv, BufferInv, ResponsesTo
<1>3. CountInv'
  <2> SUFFICES ASSUME NEW q \in Queries
               PROVE  (items[q] + InBuffer(q) + InHand(q))' <= found'[q]
    BY DEF CountInv
  <2>1. items[q] \in Nat /\ found[q] \in Nat /\ q \in Requests
    BY ProcKinds, BoundAssumption DEF TypeInv, TypeOK
  <2>2. InBuffer(q)' = InBuffer(q) /\ InHand(q)' <= InHand(q) /\ InHand(q) \in {0, 1} /\ InHand(q)' \in {0, 1}
    BY DEF InBuffer, InHand
  <2>3. InBuffer(q) \in {0, 1} /\ items[q] + InBuffer(q) + InHand(q) <= found[q]
    BY DEF InBuffer, TypeInv, CountInv
  <2> QED BY <2>1, <2>2, <2>3
<1> QED BY <1>1, <1>2, <1>3 DEF TypeInv
LEMMA TypeAbort ==
  ASSUME TypeInv, NEW p \in Procs, Abort(p)
  PROVE  TypeInv'
<1> USE ProcKinds DEF connVars, gwVars, mapVars, queryVars
<1>1. CASE AbortConn(p)
  <2>1. Goto(p, "mark") /\ "mark" \in Places
    BY <1>1 DEF AbortConn, Places
  <2> QED BY <1>1, <2>1, TypeGoto, TypeSame DEF AbortConn, TypeInv, TypeOK
<1>2. CASE AbortMark(p)
  <2>1. Goto(p, "closeAll") /\ "closeAll" \in Places
    BY <1>2 DEF AbortMark, Places
  <2> QED BY <1>2, <2>1, TypeGoto, TypeSame DEF AbortMark, TypeInv, TypeOK
<1>3. CASE CloseAllRequestChans(p)
  <2>1. Wake(p, AfterAbort(p)) /\ AfterAbort(p) \in Places
    BY <1>3 DEF CloseAllRequestChans, AfterAbort, Places
  <2>2. p = "receiver" => AfterAbort(p) = "exited"
    BY DEF AfterAbort
  <2>3. /\ chanClosed' \in [Requests -> BOOLEAN]
        /\ finished' \in [Requests -> BOOLEAN]
        /\ inMap' \in [Requests -> BOOLEAN]
    BY <1>3, Zenon DEF CloseAllRequestChans
  <2> QED BY <1>3, <2>1, <2>2, <2>3, TypeGoto, TypeSame DEF CloseAllRequestChans, TypeInv, TypeOK
<1> QED BY <1>1, <1>2, <1>3 DEF Abort

LEMMA TypeReceive ==
  ASSUME TypeInv, NEW u \in Requests, NEW r \in ResponsesTo(u), Receive(u, r)
  PROVE  TypeInv'
<1> USE ProcKinds DEF connVars, mapVars, queryVars
<1>1. pc' \in [Procs -> Places] /\ pc'["receiver"] = "lookup"
  BY TypeGoto DEF Receive, TypeInv, Places
<1>2. found' \in [Requests -> 0..MaxItems]
  BY BoundAssumption DEF Receive, TypeInv, TypeOK
<1>3. gateway' \in [Requests -> {"unsent", "running", "over"}]
  BY DEF Receive, TypeInv, TypeOK
<1>4. TypeOK'
  BY <1>1, <1>2, <1>3 DEF Receive, TypeInv, TypeOK, ResponsesTo
<1>5. HandInv' /\ BufferInv'
  BY <1>1 DEF Receive, TypeInv, HandInv, BufferInv, ResponsesTo
<1>6. CountInv'
  <2> SUFFICES ASSUME NEW q \in Queries
               PROVE  (items[q] + InBuffer(q) + InHand(q))' <= found'[q]
    BY DEF CountInv
  <2>1. items[q] \in Nat /\ found[q] \in Nat /\ q \in Requests /\ InBuffer(q) \in {0, 1}
    BY BoundAssumption DEF TypeInv, TypeOK, InBuffer
  <2>2. InBuffer(q)' = InBuffer(q) /\ InHand(q) = 0 /\ items' = items
    BY DEF InBuffer, InHand, Receive
  <2>3. items[q] + InBuffer(q) + InHand(q) <= found[q]
    BY DEF TypeInv, CountInv
  <2>4. CASE u = q /\ r = "item"
    <3>1. InHand(q)' = 1 /\ found'[q] = found[q] + 1
      BY <2>4, <1>1 DEF InHand, Receive, TypeInv, TypeOK
    <3> QED BY <2>1, <2>2, <2>3, <3>1
  <2>5. CASE ~(u = q /\ r = "item")
    <3>1. InHand(q)' = 0 /\ found'[q] = found[q]
      BY <2>5, <1>1 DEF InHand, Receive, TypeInv, TypeOK
    <3> QED BY <2>1, <2>2, <2>3, <3>1
  <2> QED BY <2>4, <2>5
<1> QED BY <1>4, <1>5, <1>6 DEF TypeInv

LEMMA TypePost ==
  ASSUME TypeInv, Post
  PROVE  TypeInv'
<1> USE ProcKinds DEF connVars, mapVars, queryVars, gwVars
<1>1. msg.to \in Requests /\ msg.is \in ResponsesTo(msg.to)
  BY DEF Post, TypeInv, HandInv
<1>2. /\ pc' \in [Procs -> Places] /\ pc'["receiver"] \in {"finish", "read"}
  BY TypeGoto DEF Post, AfterPost, TypeInv, Places
<1>3. TypeOK'
  BY <1>1, <1>2 DEF Post, TypeInv, TypeOK, ResponsesTo
<1>4. HandInv' /\ BufferInv'
  BY <1>1, <1>2 DEF Post, TypeInv, TypeOK, HandInv, BufferInv, ResponsesTo
<1>5. CountInv'
  <2> SUFFICES ASSUME NEW q \in Queries
               PROVE  (items[q] + InBuffer(q) + InHand(q))' <= found'[q]
    BY DEF CountInv
  <2>1. items[q] \in Nat /\ found[q] \in Nat /\ q \in Requests
    BY BoundAssumption DEF TypeInv, TypeOK
  <2>2. items' = items /\ found' = found /\ InHand(q)' = 0
    BY <1>2 DEF Post, InHand
  <2>3. InBuffer(q)' = InBuffer(q) + InHand(q)
    BY <1>1 DEF Post, InBuffer, InHand, TypeInv, TypeOK
  <2>4. items[q] + InBuffer(q) + InHand(q) <= found[q]
    BY DEF TypeInv, CountInv
  <2>5. InBuffer(q) \in {0, 1} /\ InHand(q) \in {0, 1}
    BY DEF InBuffer, InHand
  <2> QED BY <2>1, <2>2, <2>3, <2>4, <2>5
<1> QED BY <1>3, <1>4, <1>5 DEF TypeInv

\* finishRequestChan by a process that goes on to l.
LEMMA TypeFinish ==
  ASSUME TypeInv, NEW u \in Requests, NEW p \in Procs, NEW l \in {"read", "done"},
         FinishRequestChan(u, p, l)
  PROVE  TypeInv'
<1> USE ProcKinds DEF connVars, gwVars, queryVars
<1>1. Wake(p, l) /\ l \in Places
  BY DEF FinishRequestChan, Places
<1> QED BY <1>1, TypeGoto, TypeSame DEF FinishRequestChan, TypeInv, TypeOK

LEMMA TypeReceiver ==
  ASSUME TypeInv, Receiver \/ ReadFails
  PROVE  TypeInv'
<1> USE ProcKinds DEF connVars, gwVars, mapVars, queryVars
<1>1. CASE ReadFails
  <2>1. Goto("receiver", "abort") /\ "abort" \in Places
    BY <1>1 DEF ReadFails, Places
  <2> QED BY <1>1, <2>1, TypeGoto, TypeSame DEF ReadFails, TypeInv, TypeOK
<1>2. CASE Lookup
  <2>1. PICK l \in {"post", "finish", "read"} : Goto("receiver", l)
    BY <1>2 DEF Lookup, AfterPost
  <2>2. l \in Places
    BY DEF Places
  <2> QED BY <1>2, <2>1, <2>2, TypeGoto, TypeSame DEF Lookup, TypeInv, TypeOK
<1>3. CASE ReceiverFinish
  <2>1. msg.to \in Requests
    BY <1>3 DEF ReceiverFinish, TypeInv, HandInv
  <2> QED BY <1>3, <2>1, TypeFinish DEF ReceiverFinish
<1> QED BY <1>1, <1>2, <1>3, TypePost, TypeAbort DEF Receiver, ReadClosed

Results == {"none", "ok", "cancelled", "errored", "refused", "unexpected", "context",
            "closed", "sendFailed"}

\* A step of a request that at most moves it and returns.
LEMMA TypeReturn ==
  ASSUME TypeInv, NEW u \in Requests, NEW l \in Places, NEW r \in Results,
         \/ Return(u, l, r)
         \/ Goto(u, l) /\ UNCHANGED result,
         UNCHANGED <<gwVars, msg, mapVars, buffer, connVars, items, otherErr>>
  PROVE  TypeInv'
<1>1. Goto(u, l) /\ result' \in [Requests -> Results]
  BY DEF Return, TypeInv, TypeOK, Results
<1> QED BY <1>1, TypeGoto, TypeSame, ProcKinds
  DEF TypeInv, TypeOK, Results, connVars, gwVars, mapVars

LEMMA TypeQueryRead ==
  ASSUME TypeInv, NEW q \in Queries, QueryRead(q)
  PROVE  TypeInv'
<1> USE ProcKinds DEF connVars, mapVars, gwVars
<1>1. pc' \in [Procs -> Places] /\ pc'["receiver"] = pc["receiver"]
  <2>1. Goto(q, "finish") \/ UNCHANGED pc
    BY DEF QueryRead, Return
  <2>2. "finish" \in Places
    BY DEF Places
  <2> QED BY <2>1, <2>2, TypeGoto DEF TypeInv, TypeOK
<1>2. CountInv'
  <2> SUFFICES ASSUME NEW x \in Queries
               PROVE  (items[x] + InBuffer(x) + InHand(x))' <= found'[x]
    BY DEF CountInv
  <2>1. items[x] \in Nat /\ found[x] \in Nat /\ x \in Requests
    BY BoundAssumption DEF TypeInv, TypeOK
  <2>2. found' = found /\ InHand(x)' = InHand(x) /\ InHand(x) \in {0, 1}
    BY <1>1 DEF QueryRead, InHand
  <2>3. InBuffer(x)' + items'[x] = items[x] + InBuffer(x)
    BY <2>1 DEF QueryRead, InBuffer, TypeInv, TypeOK
  <2>4. items[x] + InBuffer(x) + InHand(x) <= found[x]
    BY DEF TypeInv, CountInv
  <2>5. InBuffer(x) \in {0, 1} /\ InBuffer(x)' \in {0, 1} /\ items'[x] \in Nat
    BY <2>1 DEF InBuffer, QueryRead, TypeInv, TypeOK
  <2> QED BY <2>1, <2>2, <2>3, <2>4, <2>5
<1>3. items' \in [Queries -> 0..MaxItems]
  <2>1. buffer[q] = "item" => items[q] + 1 <= found[q]
    BY BoundAssumption DEF TypeInv, TypeOK, CountInv, InBuffer, InHand
  <2>2. found[q] \in 0..MaxItems /\ items[q] \in 0..MaxItems
    BY DEF TypeInv, TypeOK
  <2>3. buffer[q] = "item" => items[q] + 1 \in 0..MaxItems
    BY <2>1, <2>2, BoundAssumption
  <2> QED BY <2>3 DEF QueryRead, TypeInv, TypeOK
<1>4. result' \in [Requests -> Results]
  BY DEF QueryRead, Return, TypeInv, TypeOK, Results
<1>5. otherErr' \in [Queries -> BOOLEAN]
  BY DEF QueryRead, TypeInv, TypeOK
<1>6. TypeOK'
  BY <1>1, <1>3, <1>4, <1>5 DEF QueryRead, TypeInv, TypeOK, Results
<1>7. HandInv' /\ BufferInv'
  BY <1>1 DEF QueryRead, TypeInv, TypeOK, HandInv, BufferInv
<1> QED BY <1>2, <1>6, <1>7 DEF TypeInv

LEMMA TypeStoreRead ==
  ASSUME TypeInv, NEW q \in Stores, StoreRead(q)
  PROVE  TypeInv'
<1> USE ProcKinds DEF connVars, mapVars, gwVars
<1>1. pc' \in [Procs -> Places] /\ pc'["receiver"] = pc["receiver"]
  BY TypeGoto DEF StoreRead, Return, TypeInv, Places
<1>2. TypeOK'
  BY <1>1 DEF StoreRead, Return, ResultOf, TypeInv, TypeOK
<1>3. HandInv' /\ BufferInv'
  BY <1>1 DEF StoreRead, TypeInv, TypeOK, HandInv, BufferInv
<1>4. \A x \in Queries : x # q /\ x \in Requests
  OBVIOUS
<1>5. \A x \in Queries : buffer'[x] = buffer[x]
  BY <1>4 DEF StoreRead, TypeInv, TypeOK
<1>6. CountInv'
  BY <1>1, <1>5 DEF StoreRead, TypeInv, CountInv, InBuffer, InHand
<1> QED BY <1>2, <1>3, <1>6 DEF TypeInv

LEMMA TypeCall ==
  ASSUME TypeInv, NEW u \in Requests,
         \/ u \in Calls /\ (CallCheck(u) \/ Call(u) \/ CallGivesUp(u))
         \/ u \in Sent /\ (SendCheck(u) \/ Wait(u))
  PROVE  TypeInv'
<1> USE ProcKinds DEF connVars, gwVars, mapVars, queryVars
<1>1. CASE CallCheck(u)
  BY <1>1, TypeReturn DEF CallCheck, Places, Results
<1>2. CASE CreateRequestChan(u)
  <2>1. Goto(u, "send") /\ "send" \in Places
    BY <1>2 DEF CreateRequestChan, Places
  <2> QED BY <1>2, <2>1, TypeGoto, TypeSame DEF CreateRequestChan, TypeInv, TypeOK
<1>3. CASE SendCheck(u)
  BY <1>3, TypeReturn DEF SendCheck, ReturnFrom, Places, Results
<1>4. CASE Write(u)
  <2>1. PICK l \in {"abort", "loop", "check"} : Goto(u, l)
    BY <1>4 DEF Write, Return
  <2>2. l \in Places
    BY DEF Places
  <2>3. /\ gateway' \in [Requests -> {"unsent", "running", "over"}]
        /\ result' \in [Requests -> Results]
    BY <1>4 DEF Write, Return, TypeInv, TypeOK, Results
  <2> QED BY <1>4, <2>1, <2>2, <2>3, TypeGoto, TypeSame
      DEF Write, TypeInv, TypeOK, Results
<1>5. CASE u \in Queries /\ QueryFinish(u)
  BY <1>5, TypeFinish DEF QueryFinish
<1>6. CASE ReadClosedChan(u)
  BY <1>6, TypeReturn DEF ReadClosedChan, ReturnFrom, Places, Results
<1>7. CASE CallGivesUp(u)
  BY <1>7, TypeReturn DEF CallGivesUp, ReturnFrom, Places, Results
<1>8. CASE WaitCheck(u)
  BY <1>8, TypeReturn DEF WaitCheck, Places, Results
<1>9. CASE WaitLock(u)
  BY <1>9, TypeReturn DEF WaitLock, Places, Results
<1> QED
  BY <1>1, <1>2, <1>3, <1>4, <1>5, <1>6, <1>7, <1>8, <1>9, TypeAbort,
     TypeQueryRead, TypeStoreRead DEF Call, Wait

LEMMA TypeStep ==
  ASSUME TypeInv, [Next]_vars
  PROVE  TypeInv'
<1> USE ProcKinds DEF connVars, gwVars, mapVars, queryVars
<1>1. CASE CloseBegin
  <2>1. Goto("closer", "abort") /\ "abort" \in Places
    BY <1>1 DEF CloseBegin, Places
  <2> QED BY <1>1, <2>1, TypeGoto, TypeSame DEF CloseBegin, TypeInv, TypeOK
<1>2. CASE UNCHANGED vars
  BY <1>2, TypeSame DEF vars, TypeInv, TypeOK
<1> QED
  BY <1>1, <1>2, TypeReceive, TypeReceiver, TypeCall, TypeAbort DEF Next, AtRest

\* Every variable keeps its type; no Query counts more items than the gateway
\* found (utils.go:39).
THEOREM TypeCorrect == Spec => []TypeOK
<1>1. TypeInv => TypeOK
  BY DEF TypeInv
<1> QED BY <1>1, TypeInit, TypeStep, PTL DEF Spec

-----------------------------------------------------------------------------
(* Where the responses of a request go                                      *)

\* A request whose channel is in the map, or was closed, is a call that made
\* it; the map holds open channels.
MapInv ==
    \A u \in Requests :
        /\ inMap[u] => ~chanClosed[u]
        /\ inMap[u] \/ chanClosed[u] => u \in Calls /\ pc[u] \notin {"idle", "create"}

PostInv == pc["receiver"] = "post" => inMap[msg.to]

\* Nobody closes the channels, and the receive goroutine does not exit, before
\* the client counts as closed.
ClosedInv ==
    (\E p \in Procs : pc[p] = "closeAll") \/ pc["receiver"] = "exited" => closed

\* The gateway answers what was sent.
UnsentInv ==
    /\ \A q \in Calls :
          pc[q] \in {"idle", "create", "send", "write"} => gateway[q] = "unsent"
    /\ pc["receiver"] \in {"lookup", "post", "finish"} => gateway[msg.to] # "unsent"

Listening(q) == chanClosed[q] \/ (inMap[q] /\ pc["receiver"] # "exited")

\* A call has its channel from before it sends to its last response.
OrphanInv ==
    \A q \in Calls :
        /\ pc[q] = "send" => inMap[q] \/ chanClosed[q]
        /\ pc[q] = "write" => Listening(q)
        /\ pc[q] = "loop" => Listening(q) \/ buffer[q] \in Last \cup StoreResults
        /\ pc[q] = "loop" /\ pc["receiver"] = "finish" /\ msg.to = q =>
              chanClosed[q] \/ buffer[q] \in Last

RouteInv == MapInv /\ PostInv /\ ClosedInv /\ UnsentInv /\ OrphanInv

LEMMA RouteInit == Init => RouteInv
  BY ProcKinds
  DEF Init, RouteInv, MapInv, PostInv, ClosedInv, UnsentInv, OrphanInv

\* A step of p from a place to another, neither of which the invariant speaks
\* of beyond what is assumed here, with the channels left alone.
LEMMA RouteGoto ==
  ASSUME TypeInv, RouteInv, NEW p \in Procs, NEW l \in Places, Goto(p, l),
         l \notin {"idle", "create", "send", "write", "loop", "exited",
                   "lookup", "post", "finish"} \/ (l = "finish" /\ p # "receiver"),
         l = "closeAll" => closed',
         closed => closed',
         UNCHANGED <<gateway, msg, mapVars, buffer>>
  PROVE  RouteInv'
<1> USE ProcKinds DEF mapVars, TypeInv, RouteInv
<1>1. pc' \in [Procs -> Places] /\ pc'[p] = l /\ \A x \in Procs \ {p} : pc'[x] = pc[x]
  BY TypeGoto
<1>2. MapInv'
  BY <1>1 DEF MapInv
<1>3. PostInv' /\ ClosedInv'
  BY <1>1 DEF PostInv, ClosedInv
<1>4. UnsentInv'
  BY <1>1 DEF UnsentInv
<1>5. OrphanInv'
  BY <1>1 DEF OrphanInv, Listening
<1> QED BY <1>2, <1>3, <1>4, <1>5

LEMMA RouteCloseAll ==
  ASSUME TypeInv, RouteInv, NEW p \in Procs, CloseAllRequestChans(p)
  PROVE  RouteInv'
<1> USE ProcKinds DEF gwVars, connVars, TypeInv, RouteInv
<1> DEFINE l == AfterAbort(p)
<1>1. /\ l \in {"exited", "finish", "done"} /\ l \in Places
      /\ p = "receiver" => l = "exited"
  BY DEF AfterAbort, Places
<1>2. /\ pc' \in [Procs -> Places] /\ pc'[p] = l
      /\ \A x \in Procs \ {p} :
            pc'[x] = pc[x] \/ (pc[x] = "waiting" /\ pc'[x] \in {"waiting", "check"})
  BY <1>1, TypeGoto DEF CloseAllRequestChans
<1>3. closed /\ closed'
  BY DEF ClosedInv, CloseAllRequestChans
<1>4. \A u \in Requests :
         /\ ~inMap'[u] /\ (chanClosed'[u] <=> chanClosed[u] \/ inMap[u])
         /\ buffer'[u] = buffer[u] /\ gateway'[u] = gateway[u]
  BY DEF CloseAllRequestChans, TypeOK
<1>5. msg' = msg /\ pc["receiver"] # "post"
  BY DEF CloseAllRequestChans, MapLocked
<1>6. MapInv'
  BY <1>1, <1>2, <1>4 DEF MapInv
<1>7. PostInv' /\ ClosedInv'
  BY <1>1, <1>2, <1>3, <1>5 DEF PostInv, ClosedInv
<1>8. UnsentInv'
  BY <1>1, <1>2, <1>4, <1>5 DEF UnsentInv, HandInv
<1>9. OrphanInv'
  BY <1>1, <1>2, <1>4, <1>5 DEF OrphanInv, Listening
<1> QED BY <1>6, <1>7, <1>8, <1>9

LEMMA RouteAbort ==
  ASSUME TypeInv, RouteInv, NEW p \in Procs, Abort(p)
  PROVE  RouteInv'
<1>1. CASE AbortConn(p)
  BY <1>1, RouteGoto DEF AbortConn, gwVars, Places
<1>2. CASE AbortMark(p)
  BY <1>2, RouteGoto DEF AbortMark, gwVars, Places
<1> QED BY <1>1, <1>2, RouteCloseAll DEF Abort

LEMMA RouteReceive ==
  ASSUME TypeInv, RouteInv, NEW u \in Requests, NEW r \in ResponsesTo(u), Receive(u, r)
  PROVE  RouteInv'
<1> USE ProcKinds DEF mapVars, connVars, TypeInv, RouteInv
<1>1. /\ pc' \in [Procs -> Places] /\ pc'["receiver"] = "lookup"
      /\ \A x \in Procs \ {"receiver"} : pc'[x] = pc[x]
  BY TypeGoto DEF Receive, Places
<1>2. /\ msg'.to = u /\ gateway'[u] # "unsent"
      /\ \A x \in Requests : gateway[x] = "unsent" => gateway'[x] = "unsent"
  BY DEF Receive, TypeOK
<1>3. MapInv' /\ PostInv' /\ ClosedInv'
  BY <1>1 DEF Receive, MapInv, PostInv, ClosedInv
<1>4. UnsentInv'
  BY <1>1, <1>2 DEF UnsentInv
<1>5. OrphanInv'
  BY <1>1 DEF OrphanInv, Listening, Receive
<1> QED BY <1>3, <1>4, <1>5

LEMMA RoutePost ==
  ASSUME TypeInv, RouteInv, Lookup \/ Post
  PROVE  RouteInv'
<1> USE ProcKinds DEF mapVars, connVars, gwVars, TypeInv, RouteInv
<1>1. PICK l \in {"post", "finish", "read"} :
         /\ Goto("receiver", l)
         /\ l = "post" => Lookup /\ inMap[msg.to]
         /\ l = "finish" => msg.is \in Last /\ (Lookup => ~inMap[msg.to])
  BY DEF Lookup, Post, AfterPost
<1>2. /\ pc' \in [Procs -> Places] /\ pc'["receiver"] = l
      /\ \A x \in Procs \ {"receiver"} : pc'[x] = pc[x]
  BY <1>1, TypeGoto DEF Places
<1>3. /\ pc["receiver"] \in {"lookup", "post"}
      /\ msg.to \in Requests /\ msg.is \in ResponsesTo(msg.to)
      /\ UNCHANGED <<msg, mapVars, connVars, gwVars>>
  BY DEF Lookup, Post, HandInv
<1>4. \A u \in Requests : buffer'[u] = buffer[u] \/ (buffer[u] = "empty" /\ Post /\ u = msg.to /\ buffer'[u] = msg.is)
  BY DEF Lookup, Post, TypeOK
<1>5. MapInv' /\ PostInv' /\ ClosedInv'
  BY <1>1, <1>2, <1>3 DEF MapInv, PostInv, ClosedInv
<1>6. UnsentInv'
  BY <1>2, <1>3 DEF UnsentInv
<1>7. ASSUME NEW q \in Calls, pc'[q] = "loop", l = "finish", msg.to = q
      PROVE  chanClosed[q] \/ buffer'[q] \in Last
  <2>1. CASE Post
    BY <2>1, <1>1, <1>7 DEF Post, TypeOK
  <2>2. CASE Lookup
    <3>1. ~inMap[q] /\ q \notin Stores /\ buffer' = buffer
      BY <2>2, <1>1, <1>3, <1>7 DEF Lookup, ResponsesTo, Last, StoreResults
    <3>2. chanClosed[q] \/ buffer[q] \in Last \cup StoreResults
      BY <3>1, <1>2, <1>7 DEF OrphanInv, Listening
    <3>3. buffer[q] # "empty" => buffer[q] \in Responses
      BY <3>1 DEF BufferInv, ResponsesTo
    <3> QED BY <3>1, <3>2, <3>3 DEF Responses, Last, StoreResults
  <2> QED BY <2>1, <2>2
<1>8. OrphanInv'
  <2>1. \A q \in Calls : buffer[q] \in Last \cup StoreResults => buffer'[q] = buffer[q]
    BY <1>4 DEF Last, StoreResults
  <2> QED BY <1>2, <1>3, <1>7, <2>1 DEF OrphanInv, Listening
<1> QED BY <1>5, <1>6, <1>8

\* Whoever removes the channel of a request, the request needs it no more.
LEMMA RouteFinish ==
  ASSUME TypeInv, RouteInv, NEW u \in Requests, NEW p \in Procs,
         NEW l \in {"read", "done"}, FinishRequestChan(u, p, l),
         p = u \/ (u \in Calls => pc[u] \notin {"send", "write"}),
         p = u \/ (u \in Calls /\ pc[u] = "loop" => chanClosed[u] \/ buffer[u] \in Last)
  PROVE  RouteInv'
<1> USE ProcKinds DEF connVars, gwVars, TypeInv, RouteInv
<1>1. /\ pc' \in [Procs -> Places] /\ pc'[p] = l
      /\ \A x \in Procs \ {p} :
            pc'[x] = pc[x] \/ (pc[x] = "waiting" /\ pc'[x] \in {"waiting", "check"})
  BY TypeGoto DEF FinishRequestChan, Places
<1>2. /\ pc["receiver"] # "post"
      /\ UNCHANGED <<gwVars, msg, chanClosed, buffer, connVars>>
  BY DEF FinishRequestChan, MapLocked
<1>3. ~inMap'[u] /\ \A x \in Requests \ {u} : inMap'[x] = inMap[x]
  BY DEF FinishRequestChan, TypeOK
<1>4. MapInv'
  BY <1>1, <1>2, <1>3 DEF MapInv
<1>5. PostInv' /\ ClosedInv'
  BY <1>1, <1>2 DEF PostInv, ClosedInv
<1>6. UnsentInv'
  BY <1>1, <1>2 DEF UnsentInv
<1>7. OrphanInv'
  BY <1>1, <1>2, <1>3 DEF OrphanInv, Listening
<1> QED BY <1>4, <1>5, <1>6, <1>7

LEMMA RouteReceiver ==
  ASSUME TypeInv, RouteInv, Receiver \/ ReadFails
  PROVE  RouteInv'
<1>1. CASE ReadFails
  BY <1>1, RouteGoto, ProcKinds DEF ReadFails, gwVars, connVars, Places
<1>2. CASE ReceiverFinish
  <2>1. msg.to \in Requests /\ (msg.to \in Calls => pc[msg.to] \notin {"send", "write"})
    BY <1>2 DEF ReceiverFinish, TypeInv, HandInv, RouteInv, UnsentInv
  <2>2. msg.to \in Calls /\ pc[msg.to] = "loop" => chanClosed[msg.to] \/ buffer[msg.to] \in Last
    BY <1>2 DEF ReceiverFinish, RouteInv, OrphanInv
  <2> QED BY <1>2, <2>1, <2>2, RouteFinish, ProcKinds DEF ReceiverFinish
<1> QED BY <1>1, <1>2, RoutePost, RouteAbort, ProcKinds DEF Receiver, ReadClosed

\* The way of a call to its read loop.
LEMMA RouteCallStarts ==
  ASSUME TypeInv, RouteInv, NEW u \in Requests,
         \/ u \in Calls /\ (CallCheck(u) \/ CreateRequestChan(u))
         \/ SendCheck(u)
         \/ Write(u)
  PROVE  RouteInv'
<1> USE ProcKinds DEF TypeInv, RouteInv, gwVars, connVars, mapVars
<1>1. PICK l \in {"create", "send", "write", "loop", "check", "done", "finish", "abort"} :
         Goto(u, l)
  BY DEF CallCheck, CreateRequestChan, SendCheck, Write, Return, ReturnFrom
<1>2. /\ pc' \in [Procs -> Places] /\ pc'[u] = l
      /\ \A x \in Procs \ {u} : pc'[x] = pc[x]
  BY <1>1, TypeGoto DEF Places
<1>3. UNCHANGED <<msg, chanClosed, buffer, connVars>>
  BY DEF CallCheck, CreateRequestChan, SendCheck, Write
<1>4. CASE u \in Calls /\ CallCheck(u)
  <2>1. l \in {"done", "create"} /\ pc[u] = "idle" /\ UNCHANGED <<mapVars, gwVars>>
    BY <1>2, <1>4 DEF CallCheck, Return, Goto, TypeOK
  <2>2. MapInv' /\ PostInv' /\ ClosedInv'
    BY <1>2, <1>3, <2>1 DEF MapInv, PostInv, ClosedInv
  <2>3. UnsentInv' /\ OrphanInv'
    BY <1>2, <1>3, <2>1 DEF UnsentInv, OrphanInv, Listening
  <2> QED BY <2>2, <2>3
<1>5. CASE u \in Calls /\ CreateRequestChan(u)
  <2>1. l = "send" /\ pc[u] = "create" /\ UNCHANGED gwVars
    BY <1>2, <1>5 DEF CreateRequestChan, Goto, TypeOK
  <2>2. inMap'[u] /\ \A x \in Requests \ {u} : inMap'[x] = inMap[x]
    BY <1>5 DEF CreateRequestChan, TypeOK
  <2>3. MapInv' /\ ClosedInv'
    BY <1>2, <1>3, <1>5, <2>1, <2>2 DEF MapInv, ClosedInv
  <2>4. PostInv'
    BY <1>2, <1>5 DEF PostInv, CreateRequestChan, MapLocked
  <2>5. UnsentInv' /\ OrphanInv'
    BY <1>2, <1>3, <2>1, <2>2 DEF UnsentInv, OrphanInv, Listening
  <2> QED BY <2>3, <2>4, <2>5
<1>6. CASE SendCheck(u)
  <2>1. /\ l \in {"done", "finish", "write"} /\ (l = "write" => ~closed)
        /\ pc[u] = IF u \in Calls THEN "send" ELSE "idle"
        /\ UNCHANGED <<mapVars, gwVars>>
    BY <1>2, <1>6 DEF SendCheck, Return, ReturnFrom, Goto, TypeOK
  <2>2. MapInv' /\ PostInv' /\ ClosedInv'
    BY <1>2, <1>3, <2>1 DEF MapInv, PostInv, ClosedInv
  <2>3. UnsentInv'
    BY <1>2, <1>3, <2>1 DEF UnsentInv
  <2>4. OrphanInv'
    BY <1>2, <1>3, <2>1 DEF ClosedInv, OrphanInv, Listening
  <2> QED BY <2>2, <2>3, <2>4
<1>7. CASE Write(u)
  <2>1. /\ l \in {"loop", "check", "abort"} /\ (l = "loop" => u \in Calls)
        /\ pc[u] = "write" /\ UNCHANGED mapVars
    BY <1>2, <1>7 DEF Write, Return, Goto, TypeOK
  <2>2. \A x \in Requests : gateway'[x] = gateway[x] \/ (x = u /\ gateway'[x] = "running")
    BY <1>2, <1>7, <2>1 DEF Write, Return, TypeOK
  <2>3. MapInv' /\ PostInv' /\ ClosedInv'
    BY <1>2, <1>3, <2>1 DEF MapInv, PostInv, ClosedInv
  <2>4. UnsentInv'
    BY <1>2, <1>3, <2>1, <2>2 DEF UnsentInv, HandInv
  <2>5. OrphanInv'
    BY <1>2, <1>3, <2>1 DEF UnsentInv, OrphanInv, Listening
  <2> QED BY <2>3, <2>4, <2>5
<1> QED BY <1>4, <1>5, <1>6, <1>7

\* A call in its read loop takes a response.
LEMMA RouteRead ==
  ASSUME TypeInv, RouteInv, NEW q \in Calls,
         (q \in Queries /\ QueryRead(q)) \/ (q \in Stores /\ StoreRead(q))
  PROVE  RouteInv'
<1> USE ProcKinds DEF TypeInv, RouteInv, gwVars, connVars, mapVars
<1>1. PICK l \in {"loop", "finish", "done"} :
         /\ \A x \in Procs \ {q} : pc'[x] = pc[x]
         /\ pc'[q] = l
         /\ l = "loop" => buffer[q] \notin Last \cup StoreResults
  <2>1. CASE q \in Queries /\ QueryRead(q)
    <3>1. buffer[q] \notin StoreResults
      BY <2>1 DEF QueryRead, BufferInv, ResponsesTo, StoreResults, Responses, Last
    <3>2. CASE Goto(q, "finish")
      BY <3>2, TypeGoto DEF Places
    <3>3. CASE UNCHANGED pc /\ buffer[q] \notin Last
      BY <2>1, <3>1, <3>3 DEF QueryRead
    <3> QED BY <2>1, <3>2, <3>3 DEF QueryRead, Return
  <2>2. CASE q \in Stores /\ StoreRead(q)
    BY <2>2, TypeGoto DEF StoreRead, Return, Places
  <2> QED BY <2>1, <2>2
<1>2. /\ pc[q] = "loop" /\ UNCHANGED <<gwVars, msg, mapVars, connVars>>
      /\ \A x \in Requests \ {q} : buffer'[x] = buffer[x]
  BY DEF QueryRead, StoreRead, TypeOK
<1>3. MapInv' /\ PostInv' /\ ClosedInv'
  BY <1>1, <1>2 DEF MapInv, PostInv, ClosedInv
<1>4. UnsentInv'
  BY <1>1, <1>2 DEF UnsentInv
<1>5. OrphanInv'
  BY <1>1, <1>2 DEF OrphanInv, Listening, Last
<1> QED BY <1>3, <1>4, <1>5

LEMMA RouteCall ==
  ASSUME TypeInv, RouteInv, NEW u \in Requests,
         \/ u \in Calls /\ (CallCheck(u) \/ Call(u) \/ CallGivesUp(u))
         \/ u \in Sent /\ (SendCheck(u) \/ Wait(u))
  PROVE  RouteInv'
<1> USE ProcKinds DEF gwVars, connVars, mapVars
<1>1. CASE u \in Queries /\ QueryFinish(u)
  BY <1>1, RouteFinish DEF QueryFinish
<1>2. CASE ReadClosedChan(u)
  BY <1>2, RouteGoto DEF ReadClosedChan, Return, ReturnFrom, Places
<1>3. CASE CallGivesUp(u)
  BY <1>3, RouteGoto DEF CallGivesUp, Return, ReturnFrom, Places
<1>4. CASE WaitCheck(u)
  BY <1>4, RouteGoto DEF WaitCheck, Return, Places
<1>5. CASE WaitLock(u)
  BY <1>5, RouteGoto DEF WaitLock, Return, Places
<1> QED
  BY <1>1, <1>2, <1>3, <1>4, <1>5, RouteAbort, RouteCallStarts, RouteRead DEF Call, Wait

Inv == TypeInv /\ RouteInv

LEMMA RouteStutter ==
  ASSUME RouteInv, UNCHANGED vars
  PROVE  RouteInv'
<1> USE DEF vars, gwVars, mapVars, connVars, RouteInv
<1>1. MapInv' /\ PostInv' /\ ClosedInv'
  BY DEF MapInv, PostInv, ClosedInv
<1>2. UnsentInv' /\ OrphanInv'
  BY DEF UnsentInv, OrphanInv, Listening
<1> QED BY <1>1, <1>2

LEMMA InvStep ==
  ASSUME Inv, [Next]_vars
  PROVE  Inv'
<1>1. TypeInv /\ RouteInv
  BY DEF Inv
<1>2. TypeInv'
  BY <1>1, TypeStep
<1>3. CASE CloseBegin
  <2>1. RouteInv'
    BY <1>1, <1>3, RouteGoto, ProcKinds DEF CloseBegin, gwVars, connVars, Places
  <2> QED BY <1>2, <2>1 DEF Inv
<1>4. CASE UNCHANGED vars
  <2>1. RouteInv'
    BY <1>1, <1>4, RouteStutter
  <2> QED BY <1>2, <2>1 DEF Inv
<1>5. CASE Abort("closer") \/ Receiver \/ ReadFails
  <2>1. RouteInv'
    BY <1>1, <1>5, RouteAbort, RouteReceiver, ProcKinds
  <2> QED BY <1>2, <2>1 DEF Inv
<1>6. CASE \E u \in Requests : \E r \in ResponsesTo(u) : Receive(u, r)
  <2>1. RouteInv'
    BY <1>1, <1>6, RouteReceive
  <2> QED BY <1>2, <2>1 DEF Inv
<1>7. CASE \/ \E q \in Calls : CallCheck(q) \/ Call(q) \/ CallGivesUp(q)
           \/ \E u \in Sent : SendCheck(u) \/ Wait(u)
  <2>1. RouteInv'
    BY <1>1, <1>7, RouteCall, ProcKinds
  <2> QED BY <1>2, <2>1 DEF Inv
<1> QED BY <1>3, <1>4, <1>5, <1>6, <1>7 DEF Next, AtRest

\* "this write has to happen under the lock to avoid panics when closing the
\* channel" (client.go:397): with any number of requests, whoever closes the
\* channels, the receive goroutine sends only on a channel that is open.
THEOREM NeverPostsToClosed == Spec => []PostsToOpenChannel
<1>1. Inv => PostsToOpenChannel
  BY DEF Inv, TypeInv, HandInv, RouteInv, PostInv, MapInv, PostsToOpenChannel
<1>2. Init => Inv
  BY TypeInit, RouteInit DEF Inv
<1> QED BY <1>1, <1>2, InvStep, PTL DEF Spec

\* Whatever happens to the connection and to the other requests, a Query or a
\* store that reads its channel (utils.go:60, 172, 258) has the last response in
\* it, or finds it closed, or is still served by the receive goroutine.
THEOREM NoCallIsOrphaned == Spec => []NoOrphanCall
<1>1. Inv => NoOrphanCall
  BY DEF Inv, RouteInv, OrphanInv, Listening, NoOrphanCall
<1>2. Init => Inv
  BY TypeInit, RouteInit DEF Inv
<1> QED BY <1>1, <1>2, InvStep, PTL DEF Spec

-----------------------------------------------------------------------------
(* What a Query and a Wait return                                           *)

\* Nothing that ended starts again, and only a client that is closed closes
\* channels.
Kept == /\ closed => closed'
        /\ \A u \in Requests : finished[u] => finished'[u]
        /\ \A u \in Requests : chanClosed'[u] => chanClosed[u] \/ closed

LEMMA Monotone ==
  ASSUME TypeInv, RouteInv, [Next]_vars
  PROVE  Kept
<1> USE DEF Kept, TypeInv, TypeOK, vars, gwVars, mapVars, connVars, queryVars
<1>1. ASSUME NEW p \in Procs, Abort(p) PROVE Kept
  BY <1>1 DEF Abort, AbortConn, AbortMark, CloseAllRequestChans, RouteInv, ClosedInv
<1>2. ASSUME NEW u \in Requests, NEW p, NEW l, FinishRequestChan(u, p, l) PROVE Kept
  BY <1>2 DEF FinishRequestChan
<1>3. CASE ReceiverFinish
  BY <1>2, <1>3, ProcKinds DEF ReceiverFinish, HandInv
<1>4. CASE Receiver \/ ReadFails
  BY <1>1, <1>3, <1>4, ProcKinds DEF Receiver, ReadClosed, Lookup, Post, ReadFails
<1>5. ASSUME NEW q \in Calls, CallCheck(q) \/ Call(q) \/ CallGivesUp(q) PROVE Kept
  <2>1. CASE q \in Queries /\ QueryFinish(q)
    BY <1>2, <2>1, ProcKinds DEF QueryFinish
  <2> QED BY <1>1, <1>5, <2>1, ProcKinds
      DEF Call, CallCheck, CallGivesUp, CreateRequestChan, SendCheck, Write,
          QueryRead, StoreRead, ReadClosedChan
<1>6. ASSUME NEW u \in Sent, SendCheck(u) \/ Wait(u) PROVE Kept
  BY <1>1, <1>6, ProcKinds DEF SendCheck, Wait, Write, WaitCheck, WaitLock
<1>7. ASSUME NEW u \in Requests, NEW r \in ResponsesTo(u), Receive(u, r) PROVE Kept
  BY <1>7 DEF Receive
<1>8. CASE CloseBegin \/ AtRest \/ UNCHANGED vars
  BY <1>8 DEF CloseBegin, AtRest
<1> HIDE DEF Kept, TypeInv, TypeOK, vars
<1> QED BY <1>1, <1>4, <1>5, <1>6, <1>7, <1>8, ProcKinds DEF Next

\* What a Wait may conclude. Nothing but WaitCheck and WaitLock gives its result.
Right(w) == result'[w] = "ok" => result[w] = "ok" \/ finished[w] \/ closed

LEMMA WaitStep ==
  ASSUME TypeInv, [Next]_vars, NEW w \in Sent
  PROVE  Right(w)
<1> USE DEF Right, TypeInv, TypeOK, vars, gwVars, mapVars, connVars, queryVars
<1> USE ProcKinds
<1>1. ASSUME NEW p \in Procs, Abort(p) PROVE Right(w)
  BY <1>1 DEF Abort, AbortConn, AbortMark, CloseAllRequestChans
<1>2. CASE Receiver \/ ReadFails
  BY <1>1, <1>2 DEF Receiver, ReadClosed, Lookup, Post, ReceiverFinish,
     FinishRequestChan, ReadFails
<1>3. ASSUME NEW q \in Calls, CallCheck(q) \/ Call(q) \/ CallGivesUp(q) PROVE Right(w)
  <2>1. q # w
    OBVIOUS
  <2> QED BY <1>1, <1>3, <2>1
      DEF Call, CallCheck, CallGivesUp, CreateRequestChan, SendCheck, Write, Return,
          QueryRead, StoreRead, ReadClosedChan, QueryFinish, FinishRequestChan
<1>4. ASSUME NEW u \in Sent, SendCheck(u) \/ Wait(u) PROVE Right(w)
  <2>1. CASE SendCheck(u) \/ Write(u) \/ Abort(u)
    BY <1>1, <2>1 DEF SendCheck, Write, Return
  <2>2. CASE WaitCheck(u) \/ WaitLock(u)
    BY <2>2 DEF WaitCheck, WaitLock, Return
  <2> QED BY <1>4, <2>1, <2>2 DEF Wait
<1>5. ASSUME NEW u \in Requests, NEW r \in ResponsesTo(u), Receive(u, r) PROVE Right(w)
  BY <1>5 DEF Receive
<1>6. CASE CloseBegin \/ AtRest \/ UNCHANGED vars
  BY <1>6 DEF CloseBegin, AtRest
<1> HIDE DEF Right, TypeInv, TypeOK, vars
<1> QED BY <1>1, <1>2, <1>3, <1>4, <1>5, <1>6 DEF Next

\* A Wait that was woken for another request goes back to waiting
\* (client.go:326): it returns without an error only when its own request is
\* finished, or the client is closed.
THEOREM WaitsForItsRequest == Spec => []WaitsForRequest
<1>1. Init => WaitsForRequest
  BY ProcKinds DEF Init, WaitsForRequest
<1>2. Inv /\ WaitsForRequest /\ [Next]_vars => WaitsForRequest'
  BY WaitStep, Monotone, ProcKinds DEF WaitsForRequest, Kept, Right, Inv
<1>3. Init => Inv
  BY TypeInit, RouteInit DEF Inv
<1> QED BY <1>1, <1>2, <1>3, InvStep, PTL DEF Spec

-----------------------------------------------------------------------------
(* That no item of a Query is lost while the client is open                 *)

\* Channels are closed only by a client that is closed.
ChanInv == \A u \in Requests : chanClosed[u] => closed

InHands(q) == pc["receiver"] \in {"lookup", "post"} /\ msg.to = q

Before == {"idle", "create", "send", "write"}

\* Before a Query has sent, there is nothing of it; the last response is behind
\* all the items; in the read loop every item found is in the list, in the
\* channel or in the hands of the receive goroutine.
CountsOf(q) ==
    /\ pc[q] \in Before => found[q] = 0 /\ items[q] = 0 /\ buffer[q] = "empty"
    /\ buffer[q] \in Last => gateway[q] = "over" /\ ~InHands(q)
    /\ InHands(q) => (msg.is \in Last <=> gateway[q] = "over")
    /\ pc[q] = "loop" => items[q] + InBuffer(q) + InHand(q) = found[q]
    /\ result[q] = "ok" =>
          pc[q] \in {"finish", "done"} /\ gateway[q] = "over" /\ items[q] = found[q]

CompleteInv == ~closed => \A q \in Queries : CountsOf(q)

\* What CountsOf(q) depends on, left as it is.
Same(q) ==
    /\ found'[q] = found[q] /\ gateway'[q] = gateway[q]
    /\ items'[q] = items[q] /\ buffer'[q] = buffer[q]
    /\ InHands(q)' => InHands(q) /\ msg' = msg
    /\ pc[q] = "loop" => InHand(q)' = InHand(q)
    /\ pc'[q] \in Before => pc[q] \in Before
    /\ pc'[q] = "loop" => pc[q] = "loop"
    /\ result'[q] = "ok" => result[q] = "ok" /\ (pc[q] \in {"finish", "done"} => pc'[q] \in {"finish", "done"})

LEMMA CountsSame ==
  ASSUME NEW q \in Queries, CountsOf(q), Same(q)
  PROVE  CountsOf(q)'
<1>1. InBuffer(q)' = InBuffer(q)
  BY DEF Same, InBuffer
<1> QED BY <1>1 DEF CountsOf, Same

\* A step of another process as far as it concerns the place of q.
Aside(q) == \/ pc'[q] = pc[q]
            \/ pc[q] = "waiting" /\ pc'[q] \in {"waiting", "check"}

LEMMA CountsReceiver ==
  ASSUME TypeInv, RouteInv, ChanInv, ~closed, NEW q \in Queries, CountsOf(q),
         Lookup \/ Post \/ ReceiverFinish \/ ReadFails
  PROVE  CountsOf(q)'
<1> USE ProcKinds DEF gwVars, connVars, queryVars
<1>1. CASE ReceiverFinish \/ ReadFails
  <2>1. PICK l \in {"read", "abort"} : Goto("receiver", l) \/ Wake("receiver", l)
    BY <1>1 DEF ReceiverFinish, FinishRequestChan, ReadFails
  <2>2. pc'["receiver"] = l /\ Aside(q)
    BY <2>1, TypeGoto DEF TypeInv, Places, Aside
  <2>3. pc["receiver"] \in {"finish", "read"}
    BY <1>1 DEF ReceiverFinish, ReadFails
  <2>4. UNCHANGED <<gwVars, msg, buffer, queryVars>>
    BY <1>1 DEF ReceiverFinish, FinishRequestChan, ReadFails
  <2> QED BY <2>2, <2>3, <2>4, CountsSame DEF Same, Aside, InHands, InHand, Before
<1>2. CASE Lookup
  <2>1. PICK l \in {"post", "finish", "read"} :
           Goto("receiver", l) /\ (l = "post" <=> inMap[msg.to])
    BY <1>2 DEF Lookup, AfterPost
  <2>2. pc'["receiver"] = l /\ pc'[q] = pc[q]
    BY <2>1, TypeGoto DEF TypeInv, Places
  <2>3. pc["receiver"] = "lookup" /\ UNCHANGED <<gwVars, msg, buffer, queryVars>>
    BY <1>2 DEF Lookup
  <2>4. pc[q] = "loop" /\ msg.to = q => inMap[q]
    <3> SUFFICES ASSUME pc[q] = "loop", msg.to = q PROVE inMap[q]
      OBVIOUS
    <3>1. ~chanClosed[q]
      BY DEF ChanInv
    <3>2. buffer[q] \notin Last
      BY <2>3 DEF CountsOf, InHands
    <3>3. buffer[q] \notin StoreResults
      BY DEF TypeInv, BufferInv, ResponsesTo, StoreResults, Responses, Last
    <3> QED BY <3>1, <3>2, <3>3 DEF RouteInv, OrphanInv, Listening
  <2>5. Same(q)
    BY <2>1, <2>2, <2>3, <2>4 DEF Same, InHands, InHand
  <2> QED BY <2>5, CountsSame
<1>3. CASE Post
  <2>1. pc'["receiver"] \in {"finish", "read"} /\ pc'[q] = pc[q]
    BY <1>3, TypeGoto DEF TypeInv, Places, Post, AfterPost
  <2>2. pc["receiver"] = "post" /\ UNCHANGED <<gwVars, msg, queryVars>>
    BY <1>3 DEF Post
  <2>3. CASE msg.to # q
    <3>1. buffer'[q] = buffer[q]
      BY <1>3, <2>3 DEF Post, TypeInv, TypeOK
    <3> QED BY <2>1, <2>2, <2>3, <3>1, CountsSame DEF Same, InHands, InHand
  <2>4. CASE msg.to = q
    <3>1. buffer[q] = "empty" /\ buffer'[q] = msg.is
      BY <1>3, <2>4 DEF Post, TypeInv, TypeOK
    <3>2. msg.is \in Responses
      BY <2>2, <2>4 DEF TypeInv, HandInv, ResponsesTo
    <3>3. InHands(q) /\ ~InHands(q)' /\ InHand(q)' = 0 /\ InBuffer(q) = 0
      BY <2>1, <2>2, <2>4, <3>1 DEF InHands, InHand, InBuffer
    <3>4. InBuffer(q)' = InHand(q)
      BY <2>2, <2>4, <3>1 DEF InHand, InBuffer
    <3>5. pc[q] \notin Before
      BY <2>2, <2>4 DEF RouteInv, PostInv, UnsentInv, Before
    <3>6. InHand(q) \in {0, 1} /\ items[q] \in Nat /\ found[q] \in Nat
      BY BoundAssumption DEF InHand, TypeInv, TypeOK
    <3>7. items[q] + InBuffer(q)' + InHand(q)' = items[q] + InBuffer(q) + InHand(q)
      BY <3>3, <3>4, <3>6
    <3> QED BY <2>1, <2>2, <3>1, <3>3, <3>5, <3>7 DEF CountsOf
  <2> QED BY <2>3, <2>4
<1> QED BY <1>1, <1>2, <1>3

LEMMA CountsReceive ==
  ASSUME TypeInv, RouteInv, NEW q \in Queries, CountsOf(q),
         NEW u \in Requests, NEW r \in ResponsesTo(u), Receive(u, r)
  PROVE  CountsOf(q)'
<1> USE ProcKinds DEF queryVars
<1>1. pc'["receiver"] = "lookup" /\ pc["receiver"] = "read" /\ pc'[q] = pc[q]
  BY TypeGoto DEF TypeInv, Places, Receive
<1>2. UNCHANGED <<buffer, queryVars>> /\ msg'.to = u /\ msg'.is = r
  BY DEF Receive
<1>3. CASE u # q
  <2>1. found'[q] = found[q] /\ gateway'[q] = gateway[q]
    BY <1>3 DEF Receive, TypeInv, TypeOK
  <2> QED BY <1>1, <1>2, <1>3, <2>1, CountsSame DEF Same, InHands, InHand
<1>4. CASE u = q
  <2>1. gateway[q] = "running" /\ (gateway'[q] = "over" <=> r \in Last)
    BY <1>4 DEF Receive, TypeInv, TypeOK, ResponsesTo, Responses, Last, StoreResults
  <2>2. pc[q] \notin Before /\ buffer[q] \notin Last /\ result[q] # "ok"
    BY <2>1 DEF CountsOf, RouteInv, UnsentInv, Before
  <2>3. found'[q] = found[q] + InHand(q)' /\ InHand(q) = 0 /\ InHand(q)' \in {0, 1}
    <3>1. CASE r = "item"
      BY <1>1, <1>2, <1>4, <3>1 DEF InHand, Receive, TypeInv, TypeOK
    <3>2. CASE r # "item"
      <4>1. found' = found /\ InHand(q)' = 0 /\ InHand(q) = 0
        BY <1>1, <1>2, <3>2 DEF InHand, Receive
      <4>2. found[q] \in Nat
        BY BoundAssumption DEF TypeInv, TypeOK
      <4> QED BY <4>1, <4>2
    <3> QED BY <3>1, <3>2
  <2>4. InBuffer(q)' = InBuffer(q) /\ InBuffer(q) \in {0, 1} /\ items[q] \in Nat
    BY <1>2, BoundAssumption DEF InBuffer, TypeInv, TypeOK
  <2>5. pc[q] = "loop" => items[q] + InBuffer(q)' + InHand(q)' = found'[q]
    BY <2>3, <2>4 DEF CountsOf
  <2> QED BY <1>1, <1>2, <1>4, <2>1, <2>2, <2>5 DEF CountsOf, InHands
<1> QED BY <1>3, <1>4

\* q takes a response out of its channel.
LEMMA CountsRead ==
  ASSUME TypeInv, NEW q \in Queries, CountsOf(q), QueryRead(q)
  PROVE  CountsOf(q)'
<1> USE ProcKinds DEF gwVars, connVars
<1>1. /\ pc[q] = "loop" /\ UNCHANGED <<gwVars, msg>> /\ buffer'[q] = "empty"
      /\ items[q] \in Nat /\ found[q] \in Nat /\ InHand(q) \in {0, 1}
  BY BoundAssumption DEF QueryRead, TypeInv, TypeOK, InHand
<1>2. \/ pc'[q] = "loop" /\ buffer[q] \notin Last /\ UNCHANGED <<pc, result>>
      \/ pc'[q] = "finish" /\ buffer[q] \in Last
  <2>1. Goto(q, "finish") => pc'[q] = "finish"
    BY TypeGoto DEF TypeInv, Places
  <2> QED BY <1>1, <2>1 DEF QueryRead, Return, Last
<1>3. pc'["receiver"] = pc["receiver"]
  <2>1. Goto(q, "finish") => pc'["receiver"] = pc["receiver"]
    BY TypeGoto DEF TypeInv, Places
  <2> QED BY <2>1 DEF QueryRead, Return
<1>4. InHand(q)' = InHand(q) /\ (InHands(q)' <=> InHands(q))
  BY <1>1, <1>3 DEF InHand, InHands
<1>5. items'[q] + InBuffer(q)' = items[q] + InBuffer(q) /\ InBuffer(q)' = 0
      /\ items'[q] \in Nat /\ InBuffer(q) \in {0, 1}
  BY <1>1 DEF QueryRead, InBuffer, TypeInv, TypeOK
<1>6. items'[q] + InBuffer(q)' + InHand(q)' = found'[q]
  BY <1>1, <1>4, <1>5 DEF CountsOf
<1>7. CASE pc'[q] = "loop" /\ buffer[q] \notin Last /\ UNCHANGED <<pc, result>>
  BY <1>1, <1>4, <1>6, <1>7 DEF CountsOf, Before, Last
<1>8. CASE pc'[q] = "finish" /\ buffer[q] \in Last
  <2>1. gateway'[q] = "over" /\ ~InHands(q)' /\ InHand(q)' = 0
    BY <1>1, <1>4, <1>8 DEF CountsOf, InHands, InHand
  <2>2. items'[q] = found'[q]
    BY <1>5, <1>6, <2>1
  <2> QED BY <1>1, <1>8, <2>1, <2>2 DEF CountsOf, Before, Last
<1> QED BY <1>2, <1>7, <1>8

\* abort has to say that the client is closed before it touches a channel.
LEMMA CountsAbort ==
  ASSUME TypeInv, RouteInv, ~closed', NEW q \in Queries, CountsOf(q),
         NEW p \in Procs, Abort(p)
  PROVE  CountsOf(q)'
<1> USE ProcKinds DEF gwVars, queryVars
<1>1. AbortConn(p)
  BY DEF Abort, AbortMark, CloseAllRequestChans, RouteInv, ClosedInv, connVars
<1>2. pc[p] = "abort" /\ pc'[p] = "mark" /\ \A x \in Procs \ {p} : pc'[x] = pc[x]
  BY <1>1, TypeGoto DEF AbortConn, TypeInv, Places
<1>3. UNCHANGED <<gwVars, msg, buffer, queryVars>>
  BY <1>1 DEF AbortConn
<1>4. InHand(q)' = InHand(q) /\ (InHands(q)' <=> InHands(q))
  BY <1>2, <1>3 DEF InHand, InHands
<1>5. Same(q)
  BY <1>2, <1>3, <1>4 DEF Same, Before
<1> QED BY <1>5, CountsSame

\* Steps of another request.
LEMMA CountsOther ==
  ASSUME TypeInv, NEW q \in Queries, CountsOf(q), NEW u \in Requests \ {q},
         \/ u \in Calls /\ (CallCheck(u) \/ CreateRequestChan(u))
         \/ SendCheck(u) \/ Write(u)
         \/ u \in Queries /\ (QueryRead(u) \/ QueryFinish(u))
         \/ u \in Stores /\ StoreRead(u)
         \/ ReadClosedChan(u) \/ CallGivesUp(u) \/ WaitCheck(u) \/ WaitLock(u)
  PROVE  CountsOf(q)'
<1> USE ProcKinds DEF gwVars, queryVars, TypeInv, TypeOK
<1>1. /\ UNCHANGED <<msg, found>>
      /\ gateway'[q] = gateway[q] /\ items'[q] = items[q] /\ buffer'[q] = buffer[q]
      /\ result'[q] = result[q]
  BY DEF CallCheck, CreateRequestChan, SendCheck, Write, QueryRead, QueryFinish,
         FinishRequestChan, StoreRead, ReadClosedChan, CallGivesUp, WaitCheck,
         WaitLock, Return
<1>2. \/ UNCHANGED pc
      \/ \E l \in Places : Goto(u, l) \/ Wake(u, l)
  BY DEF CallCheck, CreateRequestChan, SendCheck, Write, QueryRead, QueryFinish,
         FinishRequestChan, StoreRead, ReadClosedChan, CallGivesUp, WaitCheck,
         WaitLock, Return, ReturnFrom, Places
<1>3. /\ Aside(q)
      /\ \/ pc'["receiver"] = pc["receiver"]
         \/ pc["receiver"] = "waiting" /\ pc'["receiver"] \in {"waiting", "check"}
  BY <1>2, TypeGoto DEF Aside
<1>4. InHand(q)' = InHand(q) /\ (InHands(q)' <=> InHands(q))
  BY <1>1, <1>3 DEF InHand, InHands
<1>5. Same(q)
  BY <1>1, <1>3, <1>4 DEF Same, Aside, Before
<1> QED BY <1>5, CountsSame

\* Steps of q itself outside of its read loop.
LEMMA CountsOwn ==
  ASSUME TypeInv, RouteInv, ChanInv, ~closed, NEW q \in Queries, CountsOf(q),
         \/ CallCheck(q) \/ CreateRequestChan(q) \/ SendCheck(q) \/ Write(q)
         \/ QueryFinish(q) \/ ReadClosedChan(q) \/ CallGivesUp(q)
  PROVE  CountsOf(q)'
<1> USE ProcKinds DEF queryVars
<1>1. ~ReadClosedChan(q)
  BY DEF ReadClosedChan, ChanInv
<1>2. PICK l \in Places :
         /\ Goto(q, l) \/ Wake(q, l)
         /\ l \in Before => pc[q] \in Before
         /\ l = "loop" => Write(q)
         /\ pc[q] \in {"finish", "done"} => l \in {"finish", "done"}
  BY <1>1 DEF CallCheck, CreateRequestChan, SendCheck, Write, QueryFinish,
     FinishRequestChan, CallGivesUp, Return, ReturnFrom, Places, Before
<1>3. /\ pc'[q] = l
      /\ \/ pc'["receiver"] = pc["receiver"]
         \/ pc["receiver"] = "waiting" /\ pc'["receiver"] \in {"waiting", "check"}
  BY <1>2, TypeGoto DEF TypeInv
<1>4. /\ UNCHANGED <<msg, found, items, buffer>>
      /\ result'[q] = "ok" => result[q] = "ok"
      /\ ~Write(q) => gateway'[q] = gateway[q]
  BY <1>1, <1>3 DEF CallCheck, CreateRequestChan, SendCheck, Write, QueryFinish,
     FinishRequestChan, CallGivesUp, Return, Goto, TypeInv, TypeOK, gwVars
<1>5. InHand(q)' = InHand(q) /\ (InHands(q)' <=> InHands(q))
  BY <1>3, <1>4 DEF InHand, InHands
<1>6. CASE ~Write(q)
  <2>1. Same(q)
    BY <1>2, <1>3, <1>4, <1>5, <1>6 DEF Same
  <2> QED BY <2>1, CountsSame
<1>7. CASE Write(q)
  <2>1. pc[q] = "write" /\ l \in {"loop", "check", "abort"}
    BY <1>3, <1>7 DEF Write, Return, Goto, TypeInv, TypeOK
  <2>2. ~InHands(q) /\ InHand(q) = 0
    BY <2>1 DEF RouteInv, UnsentInv, InHands, InHand
  <2>3. found[q] = 0 /\ items[q] = 0 /\ buffer[q] = "empty" /\ result[q] # "ok"
    BY <2>1 DEF CountsOf, Before
  <2> QED BY <1>3, <1>4, <1>5, <2>1, <2>2, <2>3 DEF CountsOf, InBuffer, Before, Last
<1> QED BY <1>6, <1>7

Complete == Inv /\ ChanInv /\ CompleteInv

LEMMA CompleteInit == Init => Complete
<1>1. ASSUME Init PROVE ChanInv
  BY <1>1 DEF Init, ChanInv
<1>2. ASSUME Init, NEW q \in Queries PROVE CountsOf(q)
  BY <1>2, ProcKinds DEF Init, CountsOf, Before, Last, InHands, InBuffer, InHand
<1> QED BY <1>1, <1>2, TypeInit, RouteInit DEF Complete, CompleteInv, Inv

LEMMA CountsCall ==
  ASSUME TypeInv, RouteInv, ChanInv, ~closed, ~closed', NEW q \in Queries, CountsOf(q),
         NEW u \in Requests,
         \/ u \in Calls /\ (CallCheck(u) \/ Call(u) \/ CallGivesUp(u))
         \/ u \in Sent /\ (SendCheck(u) \/ Wait(u))
  PROVE  CountsOf(q)'
<1>1. CASE Abort(u)
  BY <1>1, CountsAbort, ProcKinds
<1>2. CASE u # q /\ ~Abort(u)
  BY <1>2, CountsOther DEF Call, Wait
<1>3. CASE u = q /\ ~Abort(u)
  BY <1>3, CountsOwn, CountsRead, ProcKinds DEF Call, Wait
<1> QED BY <1>1, <1>2, <1>3

LEMMA CompleteStep ==
  ASSUME Complete, [Next]_vars
  PROVE  Complete'
<1>1. Inv' /\ TypeInv /\ RouteInv /\ ChanInv
  BY InvStep DEF Complete, Inv
<1>2. Kept
  BY <1>1, Monotone
<1>3. ChanInv'
  BY <1>1, <1>2 DEF Kept, ChanInv
<1>4. ASSUME ~closed', NEW q \in Queries
      PROVE  CountsOf(q)'
  <2>1. ~closed /\ CountsOf(q)
    BY <1>2, <1>4 DEF Kept, Complete, CompleteInv
  <2>2. CASE \E u \in Requests : \E r \in ResponsesTo(u) : Receive(u, r)
    BY <1>1, <2>1, <2>2, CountsReceive
  <2>3. CASE Receiver \/ ReadFails
    BY <1>1, <1>4, <2>1, <2>3, CountsReceiver, CountsAbort, ProcKinds DEF Receiver, ReadClosed
  <2>4. CASE \/ \E u \in Calls : CallCheck(u) \/ Call(u) \/ CallGivesUp(u)
             \/ \E u \in Sent : SendCheck(u) \/ Wait(u)
    BY <1>1, <1>4, <2>1, <2>4, CountsCall, ProcKinds
  <2>5. CASE Abort("closer")
    BY <1>1, <1>4, <2>1, <2>5, CountsAbort, ProcKinds
  <2>6. CASE CloseBegin
    <3>1. pc'["receiver"] = pc["receiver"] /\ pc'[q] = pc[q]
      BY <1>1, <2>6, TypeGoto, ProcKinds DEF CloseBegin, TypeInv, Places
    <3>2. UNCHANGED <<gwVars, msg, buffer, queryVars>>
      BY <2>6 DEF CloseBegin
    <3>3. Same(q)
      BY <3>1, <3>2 DEF Same, InHands, InHand, gwVars, queryVars
    <3> QED BY <2>1, <3>3, CountsSame
  <2>7. CASE UNCHANGED vars
    <3>1. Same(q)
      BY <2>7 DEF Same, InHands, InHand, vars, gwVars, queryVars
    <3> QED BY <2>1, <3>1, CountsSame
  <2> QED BY <2>2, <2>3, <2>4, <2>5, <2>6, <2>7 DEF Next, AtRest
<1> QED BY <1>1, <1>3, <1>4 DEF Complete, CompleteInv

\* "Run a query and wait for it to complete, returning all of the items that
\* were found" (utils.go:39), as far as the code goes: while the client is open, a
\* Query that ends without an error has every item the gateway has found for it,
\* however many requests share the receive goroutine.
THEOREM OpenClientIsComplete == Spec => []CompleteResults
<1>1. Complete => CompleteResults
  BY DEF Complete, CompleteInv, CountsOf, CompleteResults
<1> QED BY <1>1, CompleteInit, CompleteStep, PTL DEF Spec

-----------------------------------------------------------------------------
(* Where each process can be                                                *)

PlacesOf(p) ==
    {"abort", "mark", "closeAll"} \cup
    (CASE p = "receiver" -> {"read", "lookup", "post", "finish", "exited"}
       [] p = "closer"   -> {"idle", "done"}
       [] p \in Queries  -> {"idle", "create", "send", "write", "loop", "finish", "done"}
       [] p \in Stores   -> {"idle", "create", "send", "write", "loop", "done"}
       [] p \in Sent     -> {"idle", "write", "check", "lock", "waiting", "done"})

PlaceInv == \A p \in Procs : pc[p] \in PlacesOf(p)

LEMMA PlaceKinds ==
  /\ PlacesOf("receiver") = {"abort", "mark", "closeAll", "read", "lookup", "post", "finish", "exited"}
  /\ PlacesOf("closer") = {"abort", "mark", "closeAll", "idle", "done"}
  /\ \A q \in Queries : PlacesOf(q) = {"abort", "mark", "closeAll", "idle", "create",
                                       "send", "write", "loop", "finish", "done"}
  /\ \A q \in Stores : PlacesOf(q) = {"abort", "mark", "closeAll", "idle", "create",
                                      "send", "write", "loop", "done"}
  /\ \A u \in Sent : PlacesOf(u) = {"abort", "mark", "closeAll", "idle", "write",
                                    "check", "lock", "waiting", "done"}
<1>1. \A u \in Sent : u \notin Queries /\ u \notin Stores
  BY ProcKinds
<1>2. \A u \in Requests : u # "receiver" /\ u # "closer"
  BY ProcKinds
<1>3. \A q \in Stores : q \notin Queries /\ q \in Requests
  BY ProcKinds
<1>4. \A q \in Queries : q \in Requests
  BY ProcKinds
<1>5. \A u \in Sent : u \in Requests
  BY ProcKinds
<1> QED BY <1>1, <1>2, <1>3, <1>4, <1>5 DEF PlacesOf

LEMMA PlaceInit == Init => PlaceInv
<1> SUFFICES ASSUME Init, NEW p \in Procs PROVE pc[p] \in PlacesOf(p)
  BY DEF PlaceInv
<1>1. pc[p] = IF p = "receiver" THEN "read" ELSE "idle"
  BY DEF Init
<1>2. \/ p = "receiver" \/ p = "closer" \/ p \in Queries \/ p \in Stores \/ p \in Sent
  BY ProcKinds DEF Procs
<1>3. p \in Requests => p # "receiver"
  BY ProcKinds
<1> QED BY <1>1, <1>2, <1>3, PlaceKinds, ProcKinds

\* Only a request that is awaited can be woken.
LEMMA PlaceGoto ==
  ASSUME TypeOK, PlaceInv, NEW p \in Procs, NEW l \in PlacesOf(p),
         Goto(p, l) \/ Wake(p, l)
  PROVE  PlaceInv'
<1>1. pc \in [Procs -> Places]
  BY DEF TypeOK
<1> SUFFICES ASSUME NEW x \in Procs PROVE pc'[x] \in PlacesOf(x)
  BY DEF PlaceInv
<1>2. pc[x] \in PlacesOf(x)
  BY DEF PlaceInv
<1>3. pc[x] = "waiting" => "check" \in PlacesOf(x)
  <2>1. \/ x = "receiver" \/ x = "closer" \/ x \in Queries \/ x \in Stores \/ x \in Sent
    BY ProcKinds DEF Procs
  <2> QED BY <1>2, <2>1, PlaceKinds
<1>4. x = p => pc'[x] = l
  BY <1>1 DEF Goto, Wake
<1>5. x # p => pc'[x] = pc[x] \/ (pc[x] = "waiting" /\ pc'[x] = "check")
  BY <1>1 DEF Goto, Wake
<1> QED BY <1>2, <1>3, <1>4, <1>5

LEMMA PlaceStep ==
  ASSUME TypeOK, PlaceInv, [Next]_vars
  PROVE  PlaceInv'
<1>1. ASSUME NEW p \in Procs, NEW l \in PlacesOf(p), Goto(p, l) \/ Wake(p, l)
      PROVE  PlaceInv'
  BY <1>1, PlaceGoto
<1>2. ASSUME NEW p \in Procs, Abort(p) PROVE PlaceInv'
  <2>1. AfterAbort(p) \in PlacesOf(p)
    <3>1. \/ p = "receiver" \/ p = "closer" \/ p \in Queries \/ p \in Stores \/ p \in Sent
      BY ProcKinds DEF Procs
    <3>2. "closer" \notin Queries /\ "closer" # "receiver"
      BY ProcKinds
    <3>3. \A u \in Stores \cup Sent : u \notin Queries /\ u # "receiver"
      BY ProcKinds
    <3>4. \A u \in Queries : u # "receiver"
      BY ProcKinds
    <3> QED BY <3>1, <3>2, <3>3, <3>4, PlaceKinds DEF AfterAbort
  <2>2. "mark" \in PlacesOf(p) /\ "closeAll" \in PlacesOf(p)
    BY DEF PlacesOf
  <2> QED BY <1>1, <1>2, <2>1, <2>2 DEF Abort, AbortConn, AbortMark, CloseAllRequestChans
<1>3. CASE (\E u \in Requests : \E r \in ResponsesTo(u) : Receive(u, r)) \/ ReadFails \/ Receiver
  BY <1>1, <1>2, <1>3, PlaceKinds, ProcKinds
  DEF Receive, ReadFails, Receiver, ReadClosed, Lookup, Post, AfterPost, ReceiverFinish,
      FinishRequestChan
<1>4. ASSUME NEW q \in Calls, CallCheck(q) \/ Call(q) \/ CallGivesUp(q) PROVE PlaceInv'
  <2>1. /\ {"create", "send", "write", "loop", "abort", "done", ReturnFrom(q)} \subseteq PlacesOf(q)
        /\ q \in Queries => "finish" \in PlacesOf(q)
    BY PlaceKinds, ProcKinds DEF ReturnFrom
  <2>2. CASE UNCHANGED pc
    BY <2>2 DEF PlaceInv
  <2>3. q \in Procs
    BY ProcKinds
  <2> QED BY <1>1, <1>2, <1>4, <2>1, <2>2, <2>3
      DEF CallCheck, Call, CallGivesUp, CreateRequestChan, SendCheck, Write, QueryRead,
          QueryFinish, FinishRequestChan, StoreRead, ReadClosedChan, Return
<1>5. ASSUME NEW u \in Sent, SendCheck(u) \/ Wait(u) PROVE PlaceInv'
  <2>1. /\ {"write", "abort", "check", "lock", "waiting", "done", ReturnFrom(u)} \subseteq PlacesOf(u)
        /\ u \notin Calls /\ u \in Procs
    BY PlaceKinds, ProcKinds DEF ReturnFrom
  <2> QED BY <1>1, <1>2, <1>5, <2>1 DEF SendCheck, Wait, Write, WaitCheck, WaitLock, Return
<1>6. CASE CloseBegin
  BY <1>1, <1>6, PlaceKinds, ProcKinds DEF CloseBegin
<1>7. CASE UNCHANGED vars
  BY <1>7 DEF PlaceInv, vars
<1> QED BY <1>2, <1>3, <1>4, <1>5, <1>6, <1>7, ProcKinds DEF Next, AtRest

-----------------------------------------------------------------------------
(* Who may leave its channel full                                           *)

LastWord == Last \cup StoreResults

Leaving == {"finish", "done", "abort", "mark", "closeAll"}

\* Why a Query is about to remove its channel.
HasReason(q) ==
    \/ gateway[q] = "unsent"
    \/ ~inMap[q]
    \/ chanClosed[q]
    \/ gateway[q] = "over" /\ ~InHands(q)
    \/ q \in GivesUp /\ result[q] = "context"

\* Nothing follows the last response of a request; only who failed to send aborts
\* the client; who leaves has a reason; a wait is finished by the gateway only.
OwnInv(u) ==
    /\ buffer[u] \in LastWord => gateway[u] = "over" /\ ~InHands(u)
    /\ InHands(u) /\ msg.is \in LastWord => gateway[u] = "over"
    /\ pc["receiver"] = "finish" /\ msg.to = u => gateway[u] = "over"
    /\ pc[u] \in {"abort", "mark", "closeAll"} => result[u] = "sendFailed"
    /\ u \in Queries /\ pc[u] = "done" => ~inMap[u]
    /\ u \in Queries /\ pc[u] = "finish" => HasReason(u)
    /\ u \in Sent /\ pc[u] \in {"idle", "write"} => gateway[u] = "unsent"
    /\ u \in Sent /\ finished[u] => gateway[u] = "over"
    /\ result[u] # "none" => pc[u] \in Leaving

EndInv == \A u \in Requests : OwnInv(u)

\* Steps of others.
LEMMA OwnSame ==
  ASSUME NEW u \in Requests, OwnInv(u), Aside(u),
         gateway'[u] = gateway[u], result'[u] = result[u],
         buffer'[u] \in {buffer[u], "empty"},
         InHands(u)' => InHands(u) /\ msg' = msg,
         pc'["receiver"] = "finish" /\ msg'.to = u => gateway[u] = "over",
         inMap'[u] => inMap[u], chanClosed[u] => chanClosed'[u],
         u \in Sent /\ finished'[u] => finished[u] \/ gateway[u] = "over"
  PROVE  OwnInv(u)'
<1>1. "empty" \notin LastWord
  BY DEF LastWord, Last, StoreResults
<1>2. HasReason(u) => HasReason(u)'
  BY DEF HasReason
<1> QED BY <1>1, <1>2 DEF OwnInv, Aside, Leaving

LEMMA OwnReceiver ==
  ASSUME TypeInv, RouteInv, NEW u \in Requests, OwnInv(u),
         Lookup \/ Post \/ ReceiverFinish \/ ReadFails
  PROVE  OwnInv(u)'
<1> USE ProcKinds DEF gwVars, connVars, queryVars, mapVars
<1>1. CASE ReceiverFinish \/ ReadFails
  <2>1. PICK l \in {"read", "abort"} : Goto("receiver", l) \/ Wake("receiver", l)
    BY <1>1 DEF ReceiverFinish, FinishRequestChan, ReadFails
  <2>2. pc'["receiver"] = l /\ Aside(u)
    BY <2>1, TypeGoto DEF TypeInv, Places, Aside
  <2>3. /\ UNCHANGED <<gateway, msg, buffer, result, chanClosed>>
        /\ inMap'[u] => inMap[u]
        /\ u \in Sent /\ finished'[u] => finished[u] \/ gateway[u] = "over"
    BY <1>1 DEF ReceiverFinish, FinishRequestChan, ReadFails, TypeInv, TypeOK, OwnInv
  <2> QED BY <2>2, <2>3, OwnSame DEF InHands
<1>2. CASE Lookup
  <2>1. PICK l \in {"post", "finish", "read"} :
           Goto("receiver", l) /\ (l = "finish" => msg.is \in Last)
    BY <1>2 DEF Lookup, AfterPost
  <2>2. pc'["receiver"] = l /\ pc'[u] = pc[u]
    BY <2>1, TypeGoto DEF TypeInv, Places
  <2>3. /\ pc["receiver"] = "lookup"
        /\ UNCHANGED <<gateway, msg, buffer, result, mapVars>>
    BY <1>2 DEF Lookup
  <2>4. l = "finish" /\ msg.to = u => gateway[u] = "over"
    BY <2>1, <2>3 DEF OwnInv, InHands, LastWord
  <2> QED BY <2>2, <2>3, <2>4, OwnSame DEF InHands, Aside
<1>3. CASE Post
  <2>1. pc'["receiver"] \in {"finish", "read"} /\ pc'[u] = pc[u]
    BY <1>3, TypeGoto DEF TypeInv, Places, Post, AfterPost
  <2>2. /\ pc["receiver"] = "post" /\ UNCHANGED <<gateway, msg, result, mapVars>>
        /\ pc'["receiver"] = "finish" => msg.is \in Last
    BY <1>3, TypeGoto DEF Post, AfterPost, TypeInv, Places
  <2>3. pc'["receiver"] = "finish" /\ msg.to = u => gateway[u] = "over"
    BY <2>2 DEF OwnInv, InHands, LastWord
  <2>4. ~InHands(u)'
    BY <2>1 DEF InHands
  <2>5. CASE msg.to # u
    <3>1. buffer'[u] = buffer[u]
      BY <1>3, <2>5 DEF Post, TypeInv, TypeOK
    <3> QED BY <2>1, <2>2, <2>3, <2>4, <3>1, OwnSame DEF Aside
  <2>6. CASE msg.to = u
    <3>1. buffer'[u] = msg.is /\ (msg.is \in LastWord => gateway[u] = "over")
      BY <1>3, <2>2, <2>6 DEF Post, TypeInv, TypeOK, OwnInv, InHands
    <3> QED BY <2>1, <2>2, <2>3, <2>4, <3>1 DEF OwnInv, HasReason
  <2> QED BY <2>5, <2>6
<1> QED BY <1>1, <1>2, <1>3

\* The gateway speaks only of requests that run.
LEMMA OwnReceive ==
  ASSUME TypeInv, RouteInv, NEW u \in Requests, OwnInv(u),
         NEW v \in Requests, NEW r \in ResponsesTo(v), Receive(v, r)
  PROVE  OwnInv(u)'
<1> USE ProcKinds DEF queryVars, mapVars
<1>1. pc'["receiver"] = "lookup" /\ pc["receiver"] = "read" /\ pc'[u] = pc[u]
  BY TypeGoto DEF TypeInv, Places, Receive
<1>2. /\ UNCHANGED <<buffer, result, mapVars>> /\ msg'.to = v /\ msg'.is = r
      /\ gateway[v] = "running"
  BY DEF Receive
<1>3. CASE v # u
  <2>1. gateway'[u] = gateway[u]
    BY <1>3 DEF Receive, TypeInv, TypeOK
  <2> QED BY <1>1, <1>2, <1>3, <2>1, OwnSame DEF InHands, Aside
<1>4. CASE v = u
  <2>1. /\ gateway'[u] \in {"running", "over"}
        /\ r \in LastWord => gateway'[u] = "over"
    BY <1>4 DEF Receive, TypeInv, TypeOK, LastWord
  <2>2. buffer[u] \notin LastWord /\ ~(u \in Sent /\ finished[u])
    BY <1>2, <1>4 DEF OwnInv
  <2>3. HasReason(u) => chanClosed[u] \/ ~inMap[u] \/ (u \in GivesUp /\ result[u] = "context")
    BY <1>2, <1>4 DEF HasReason
  <2> QED BY <1>1, <1>2, <1>4, <2>1, <2>2, <2>3 DEF OwnInv, HasReason
<1> QED BY <1>3, <1>4

LEMMA OwnAbort ==
  ASSUME TypeInv, RouteInv, NEW u \in Requests, OwnInv(u), NEW p \in Procs, Abort(p)
  PROVE  OwnInv(u)'
<1> USE ProcKinds DEF gwVars, queryVars, mapVars
<1>1. PICK l \in {"mark", "closeAll", "exited", "finish", "done"} :
         /\ Goto(p, l) \/ Wake(p, l)
         /\ l = "finish" => p \in Queries
         /\ l = "done" => p \notin Queries
         /\ p = "receiver" => l # "finish"
         /\ l = "exited" => p = "receiver"
  BY DEF Abort, AbortConn, AbortMark, CloseAllRequestChans, AfterAbort
<1>2. /\ pc'[p] = l /\ (p # u => Aside(u))
      /\ p # "receiver" => Aside("receiver")
  BY <1>1, TypeGoto DEF TypeInv, Places, Aside
<1>3. /\ UNCHANGED <<gateway, msg, buffer, result>>
      /\ pc[p] \in {"abort", "mark", "closeAll"}
      /\ inMap'[u] => inMap[u]
      /\ chanClosed[u] => chanClosed'[u]
      /\ u \in Sent /\ finished'[u] => finished[u]
  BY DEF Abort, AbortConn, AbortMark, CloseAllRequestChans, RouteInv, MapInv
<1>4. /\ InHands(u)' => InHands(u)
      /\ pc'["receiver"] = "finish" => pc["receiver"] = "finish"
  BY <1>1, <1>2, <1>3 DEF InHands, Aside
<1>5. CASE p # u
  BY <1>2, <1>3, <1>4, <1>5, OwnSame DEF OwnInv
<1>6. CASE p = u
  <2>1. /\ result[u] = "sendFailed"
        /\ l \in {"finish", "done"} => ~inMap'[u]
    BY <1>2, <1>3, <1>6
    DEF OwnInv, Abort, AbortConn, AbortMark, CloseAllRequestChans, Goto, TypeInv, TypeOK
  <2> QED BY <1>1, <1>2, <1>3, <1>4, <1>6, <2>1 DEF OwnInv, HasReason, Leaving
<1> QED BY <1>5, <1>6

\* Steps of another request.
LEMMA OwnOther ==
  ASSUME TypeInv, NEW u \in Requests, OwnInv(u), NEW v \in Requests \ {u},
         \/ v \in Calls /\ (CallCheck(v) \/ CreateRequestChan(v))
         \/ SendCheck(v) \/ Write(v)
         \/ v \in Queries /\ (QueryRead(v) \/ QueryFinish(v))
         \/ v \in Stores /\ StoreRead(v)
         \/ ReadClosedChan(v) \/ CallGivesUp(v) \/ WaitCheck(v) \/ WaitLock(v)
  PROVE  OwnInv(u)'
<1> USE ProcKinds DEF gwVars, queryVars, mapVars, TypeInv, TypeOK
<1>1. /\ UNCHANGED <<msg, chanClosed>>
      /\ gateway'[u] = gateway[u] /\ buffer'[u] = buffer[u] /\ result'[u] = result[u]
      /\ inMap'[u] = inMap[u] /\ finished'[u] = finished[u]
  BY DEF CallCheck, CreateRequestChan, SendCheck, Write, QueryRead, QueryFinish,
         FinishRequestChan, StoreRead, ReadClosedChan, CallGivesUp, WaitCheck,
         WaitLock, Return
<1>2. \/ UNCHANGED pc
      \/ \E l \in Places : Goto(v, l) \/ Wake(v, l)
  BY DEF CallCheck, CreateRequestChan, SendCheck, Write, QueryRead, QueryFinish,
         FinishRequestChan, StoreRead, ReadClosedChan, CallGivesUp, WaitCheck,
         WaitLock, Return, ReturnFrom, Places
<1>3. Aside(u) /\ Aside("receiver")
  BY <1>2, TypeGoto DEF Aside
<1>4. /\ InHands(u)' => InHands(u)
      /\ pc'["receiver"] = "finish" => pc["receiver"] = "finish"
  BY <1>1, <1>3 DEF InHands, Aside
<1> HIDE DEF TypeInv, TypeOK
<1> QED BY <1>1, <1>3, <1>4, OwnSame DEF OwnInv

\* Steps of the request itself, outside of abort.
LEMMA OwnOwn ==
  ASSUME TypeInv, RouteInv, NEW u \in Requests, OwnInv(u),
         \/ u \in Calls /\ (CallCheck(u) \/ CreateRequestChan(u))
         \/ SendCheck(u) \/ Write(u)
         \/ u \in Queries /\ (QueryRead(u) \/ QueryFinish(u))
         \/ u \in Stores /\ StoreRead(u)
         \/ ReadClosedChan(u) \/ CallGivesUp(u)
         \/ u \in Sent /\ (WaitCheck(u) \/ WaitLock(u))
  PROVE  OwnInv(u)'
<1> USE ProcKinds DEF gwVars, queryVars, mapVars
<1>1. PICK l \in Places : (Goto(u, l) \/ Wake(u, l)) \/ (UNCHANGED pc /\ l = pc[u])
  <2>1. pc[u] \in Places
    BY DEF TypeInv, TypeOK
  <2> QED BY <2>1
      DEF CallCheck, CreateRequestChan, SendCheck, Write, QueryRead, QueryFinish,
          FinishRequestChan, StoreRead, ReadClosedChan, CallGivesUp, WaitCheck,
          WaitLock, Return, ReturnFrom, Places
<1>2. pc'[u] = l /\ Aside("receiver")
  BY <1>1, TypeGoto DEF TypeInv, TypeOK, Aside
<1>3. UNCHANGED <<msg, chanClosed>>
  BY DEF CallCheck, CreateRequestChan, SendCheck, Write, QueryRead, QueryFinish,
         FinishRequestChan, StoreRead, ReadClosedChan, CallGivesUp, WaitCheck,
         WaitLock, Return
<1>4. /\ InHands(u)' <=> InHands(u)
      /\ pc'["receiver"] = "finish" <=> pc["receiver"] = "finish"
  BY <1>2, <1>3 DEF InHands, Aside
<1>5. CASE CallCheck(u) /\ u \in Calls
  <2>1. /\ UNCHANGED <<gateway, buffer, inMap, finished>>
        /\ pc[u] = "idle" /\ l \in {"done", "create"}
        /\ result'[u] # "none" => l = "done" \/ result[u] # "none"
    BY <1>2, <1>5 DEF CallCheck, Return, Goto, TypeInv, TypeOK
  <2>2. ~inMap[u]
    BY <2>1 DEF RouteInv, MapInv
  <2> QED BY <1>2, <1>3, <1>4, <1>5, <2>1, <2>2 DEF OwnInv, Leaving
<1>6. CASE CreateRequestChan(u) /\ u \in Calls
  <2>1. /\ UNCHANGED <<gateway, buffer, finished, result>>
        /\ pc[u] = "create" /\ l = "send"
    BY <1>2, <1>6 DEF CreateRequestChan, Goto, TypeInv, TypeOK
  <2> QED BY <1>2, <1>3, <1>4, <1>6, <2>1 DEF OwnInv, Leaving
<1>7. CASE SendCheck(u)
  <2>1. /\ UNCHANGED <<gateway, buffer, inMap, finished>>
        /\ l \in {"finish", "done", "write"}
        /\ l = "done" => u \notin Queries
        /\ pc[u] = IF u \in Calls THEN "send" ELSE "idle"
        /\ result'[u] # "none" => l # "write" \/ result[u] # "none"
    BY <1>2, <1>7 DEF SendCheck, Return, ReturnFrom, Goto, TypeInv, TypeOK
  <2>2. gateway[u] = "unsent"
    BY <2>1 DEF RouteInv, UnsentInv, OwnInv
  <2> QED BY <1>2, <1>3, <1>4, <1>7, <2>1, <2>2 DEF OwnInv, HasReason, Leaving
<1>8. CASE Write(u)
  <2>1. /\ UNCHANGED <<buffer, inMap, finished>> /\ pc[u] = "write"
        /\ \/ l \in {"loop", "check"} /\ gateway'[u] = "running" /\ UNCHANGED result
           \/ l = "abort" /\ gateway'[u] \in {gateway[u], "running"} /\ result'[u] = "sendFailed"
    BY <1>2, <1>8 DEF Write, Return, Goto, TypeInv, TypeOK
  <2>2. gateway[u] = "unsent"
    BY <2>1 DEF RouteInv, UnsentInv, OwnInv
  <2> QED BY <1>2, <1>3, <1>4, <1>8, <2>1, <2>2 DEF OwnInv, Leaving
<1>9. CASE u \in Queries /\ QueryRead(u)
  <2>1. /\ UNCHANGED <<gateway, inMap, finished>> /\ buffer'[u] = "empty"
        /\ pc[u] = "loop"
        /\ \/ l = "finish" /\ buffer[u] \in Last
           \/ l = "loop" /\ UNCHANGED result
    BY <1>2, <1>9 DEF QueryRead, Return, Goto, TypeInv, TypeOK, Last
  <2>2. l = "finish" => HasReason(u)'
    BY <1>4, <2>1 DEF OwnInv, HasReason, LastWord
  <2> QED BY <1>2, <1>3, <1>4, <1>9, <2>1, <2>2
      DEF OwnInv, Leaving, LastWord, Last, StoreResults
<1>10. CASE u \in Queries /\ QueryFinish(u)
  <2>1. /\ UNCHANGED <<gateway, buffer, result>> /\ ~inMap'[u]
        /\ pc[u] = "finish" /\ l = "done"
    BY <1>2, <1>10 DEF QueryFinish, FinishRequestChan, Wake, TypeInv, TypeOK
  <2> QED BY <1>2, <1>3, <1>4, <1>10, <2>1 DEF OwnInv, Leaving
<1>11. CASE u \in Stores /\ StoreRead(u)
  <2>1. /\ UNCHANGED <<gateway, inMap, finished>> /\ buffer'[u] = "empty"
        /\ pc[u] = "loop" /\ l = "done"
    BY <1>2, <1>11 DEF StoreRead, Return, Goto, TypeInv, TypeOK
  <2> QED BY <1>2, <1>3, <1>4, <1>11, <2>1
      DEF OwnInv, Leaving, LastWord, Last, StoreResults
<1>12. CASE ReadClosedChan(u) \/ CallGivesUp(u)
  <2>1. /\ UNCHANGED <<gateway, buffer, inMap, finished>> /\ pc[u] = "loop"
        /\ l \in {"finish", "done"} /\ (l = "done" => u \notin Queries)
        /\ chanClosed[u] \/ (u \in GivesUp /\ result'[u] = "context")
    BY <1>2, <1>12
    DEF ReadClosedChan, CallGivesUp, Return, ReturnFrom, Goto, TypeInv, TypeOK
  <2> QED BY <1>2, <1>3, <1>4, <1>12, <2>1 DEF OwnInv, HasReason, Leaving
<1>13. CASE u \in Sent /\ (WaitCheck(u) \/ WaitLock(u))
  <2>1. /\ UNCHANGED <<gateway, buffer, inMap, finished>>
        /\ l \in {"done", "lock", "waiting"}
        /\ pc[u] \in {"check", "lock"}
        /\ result'[u] # "none" => l = "done" \/ result[u] # "none"
    BY <1>2, <1>13 DEF WaitCheck, WaitLock, Return, Goto, TypeInv, TypeOK
  <2> QED BY <1>2, <1>3, <1>4, <1>13, <2>1 DEF OwnInv, Leaving
<1> QED BY <1>5, <1>6, <1>7, <1>8, <1>9, <1>10, <1>11, <1>12, <1>13

LEMMA EndStep ==
  ASSUME Inv, EndInv, [Next]_vars
  PROVE  EndInv'
<1>1. TypeInv /\ RouteInv
  BY DEF Inv
<1> SUFFICES ASSUME NEW u \in Requests PROVE OwnInv(u)'
  BY DEF EndInv
<1>2. OwnInv(u)
  BY DEF EndInv
<1>3. CASE \E v \in Requests : \E r \in ResponsesTo(v) : Receive(v, r)
  BY <1>1, <1>2, <1>3, OwnReceive
<1>4. CASE Receiver \/ ReadFails \/ Abort("closer")
  BY <1>1, <1>2, <1>4, OwnReceiver, OwnAbort, ProcKinds DEF Receiver, ReadClosed
<1>5. CASE \/ \E v \in Calls : CallCheck(v) \/ Call(v) \/ CallGivesUp(v)
           \/ \E v \in Sent : SendCheck(v) \/ Wait(v)
  <2>1. PICK v \in Requests :
           \/ v \in Calls /\ (CallCheck(v) \/ Call(v) \/ CallGivesUp(v))
           \/ v \in Sent /\ (SendCheck(v) \/ Wait(v))
    BY <1>5, ProcKinds
  <2>2. CASE Abort(v)
    BY <1>1, <1>2, <2>2, OwnAbort, ProcKinds
  <2>3. CASE v # u /\ ~Abort(v)
    BY <1>1, <1>2, <2>1, <2>3, OwnOther DEF Call, Wait
  <2>4. CASE v = u /\ ~Abort(v)
    BY <1>1, <1>2, <2>1, <2>4, OwnOwn DEF Call, Wait
  <2> QED BY <2>2, <2>3, <2>4
<1>6. CASE CloseBegin
  <2>1. pc'["receiver"] = pc["receiver"] /\ pc'[u] = pc[u]
    BY <1>1, <1>6, TypeGoto, ProcKinds DEF CloseBegin, TypeInv, Places
  <2>2. UNCHANGED <<gwVars, msg, buffer, queryVars, mapVars>>
    BY <1>6 DEF CloseBegin
  <2> QED BY <1>2, <2>1, <2>2, OwnSame
      DEF InHands, Aside, gwVars, queryVars, mapVars, OwnInv
<1>7. CASE UNCHANGED vars
  BY <1>2, <1>7, OwnSame
  DEF InHands, Aside, vars, gwVars, queryVars, mapVars, OwnInv
<1> QED BY <1>3, <1>4, <1>5, <1>6, <1>7 DEF Next, AtRest

\* All of the above together.
ClientInv == Complete /\ EndInv /\ PlaceInv

LEMMA ClientInit == Init => ClientInv
<1>1. ASSUME Init, NEW u \in Requests PROVE OwnInv(u)
  BY <1>1, ProcKinds DEF Init, OwnInv, InHands, LastWord, Last, StoreResults
<1> QED BY <1>1, CompleteInit, PlaceInit DEF ClientInv, EndInv

LEMMA ClientStep ==
  ASSUME ClientInv, [Next]_vars
  PROVE  ClientInv'
  BY CompleteStep, EndStep, PlaceStep DEF ClientInv, Complete, Inv, TypeInv

\* A full channel belongs to a request that will read it, or is on its way to
\* close it, or to a Query that does neither.
LEMMA FullChannel ==
  ASSUME ClientInv, pc["receiver"] = "post", buffer[msg.to] # "empty"
  PROVE  pc[msg.to] \in {"loop", "abort", "mark"} \/ StuckOnQuitter
<1> DEFINE u == msg.to
<1>1. TypeInv /\ RouteInv
  BY DEF ClientInv, Complete, Inv
<1>2. u \in Requests /\ InHands(u) /\ inMap[u] /\ gateway[u] # "unsent"
  BY <1>1 DEF TypeInv, HandInv, InHands, RouteInv, PostInv, UnsentInv
<1>3. u \in Calls /\ ~chanClosed[u] /\ pc[u] \notin {"idle", "create", "send", "write"}
  BY <1>1, <1>2 DEF RouteInv, MapInv, UnsentInv
<1>4. OwnInv(u)
  BY <1>2 DEF ClientInv, EndInv
<1>5. u \notin Stores
  <2> SUFFICES ASSUME u \in Stores PROVE FALSE
    OBVIOUS
  <2>1. buffer[u] \in StoreResults
    BY <1>1, <1>2 DEF TypeInv, BufferInv, ResponsesTo
  <2> QED BY <1>2, <1>4, <2>1 DEF OwnInv, LastWord
<1>6. u \in Queries
  BY <1>3, <1>5, ProcKinds
<1>7. pc[u] \in {"loop", "finish", "abort", "mark", "closeAll"}
  <2>1. pc[u] \in {"idle", "create", "send", "write", "loop", "finish", "done",
                   "abort", "mark", "closeAll"}
    BY <1>2, <1>6, PlaceKinds, ProcKinds DEF ClientInv, PlaceInv
  <2> QED BY <1>2, <1>3, <1>4, <1>6, <2>1 DEF OwnInv
<1>8. CASE pc[u] = "finish"
  <2>1. u \in GivesUp /\ result[u] = "context"
    BY <1>2, <1>3, <1>4, <1>6, <1>8 DEF OwnInv, HasReason
  <2> QED BY <1>6, <1>8, <2>1 DEF StuckOnQuitter
<1>9. CASE pc[u] = "closeAll"
  <2>1. result[u] = "sendFailed"
    BY <1>4, <1>9 DEF OwnInv
  <2> QED BY <1>6, <1>9, <2>1 DEF StuckOnQuitter
<1> QED BY <1>7, <1>8, <1>9

\* Who can run is told by the places: the other one of the two ways to wait is
\* for the gateway.
LEMMA StuckIsQuiet == ClientInv => OnlyQuittersBlock
<1> SUFFICES ASSUME ClientInv, ~SomebodyCanRun PROVE Quiet \/ StuckOnQuitter
  BY DEF OnlyQuittersBlock
<1>1. TypeInv /\ RouteInv /\ PlaceInv
  BY DEF ClientInv, Complete, Inv
<1>2. ~ReceiverCanRun /\ ~CloserCanRun /\ \A u \in Requests : ~RequestCanRun(u)
  BY DEF SomebodyCanRun
<1>3. CASE pc["receiver"] = "post"
  <2>1. msg.to \in Requests
    BY <1>1, <1>3 DEF TypeInv, HandInv
  <2>2. buffer[msg.to] # "empty" /\ pc[msg.to] \notin {"loop", "abort", "mark"}
    BY <1>2, <1>3, <2>1 DEF ReceiverCanRun, RequestCanRun
  <2> QED BY <1>3, <2>2, FullChannel
<1>4. CASE pc["receiver"] # "post"
  <2>1. pc["receiver"] = "exited" \/ (pc["receiver"] = "read" /\ ~connClosed)
    BY <1>1, <1>2, <1>4, PlaceKinds, ProcKinds DEF PlaceInv, ReceiverCanRun
  <2>2. pc["closer"] \in {"idle", "done"}
    BY <1>1, <1>2, <1>4, PlaceKinds, ProcKinds DEF PlaceInv, CloserCanRun, MapLocked
  <2>3. ASSUME NEW u \in Requests PROVE pc[u] \in {"idle", "loop", "waiting", "done"}
    <3>1. ~RequestCanRun(u) /\ pc[u] \in PlacesOf(u)
      BY <1>1, <1>2, ProcKinds DEF PlaceInv
    <3> QED BY <1>4, <3>1, PlaceKinds, ProcKinds DEF RequestCanRun, MapLocked
  <2>4. ASSUME NEW q \in Calls, pc["receiver"] = "exited" PROVE pc[q] # "loop"
    <3>1. ~RequestCanRun(q)
      BY <1>2, ProcKinds
    <3> QED BY <1>1, <2>4, <3>1
        DEF RouteInv, OrphanInv, Listening, RequestCanRun, Last, StoreResults
  <2> QED BY <2>1, <2>2, <2>3, <2>4 DEF Quiet
<1> QED BY <1>3, <1>4

\* All goroutines of the client can go on or rest, except for those behind a
\* Query that was given up, or whose write failed, with its channel full
\* (client.go:392).
THEOREM OnlyQuittersBlockOthers == Spec => []OnlyQuittersBlock
  BY ClientInit, ClientStep, StuckIsQuiet, PTL DEF Spec

-----------------------------------------------------------------------------
(* The client implements GatewayContract                                    *)

LEMMA ContractRequests == Contract!Requests = Requests
  BY DEF Contract!Requests, Requests, Calls

\* A step that returns r to request u, and that the contract allows.
LEMMA HonestReturn ==
  ASSUME NEW u \in Requests, OwnInv(u), pc[u] \notin Leaving,
         NEW r \in {"ok", "refused", "unexpected", "cancelled", "errored", "context",
                    "closed"},
         Contract!Honest(u, r), result' = [result EXCEPT ![u] = r],
         UNCHANGED <<gateway, found, items, closed>>
  PROVE  Contract!Next
<1>1. result[u] = "none"
  BY DEF OwnInv
<1>2. Contract!Return(u)
  BY <1>1 DEF Contract!Return
<1> QED BY <1>2, ContractRequests DEF Contract!Next

\* What the gateway tells is what it does.
LEMMA ReceiveKeeps ==
  ASSUME NEW u \in Requests, NEW r \in ResponsesTo(u), Receive(u, r)
  PROVE  Contract!Next \/ UNCHANGED Contract!vars
<1>1. gateway[u] = "running" /\ UNCHANGED <<items, result, closed>>
  BY DEF Receive, queryVars, connVars
<1>2. CASE r = "item"
  <2>1. Contract!Find(u)
    BY <1>1, <1>2 DEF Receive, Contract!Find, Last, StoreResults
  <2> QED BY <2>1, ContractRequests DEF Contract!Next
<1>3. CASE r # "item" /\ r \in Last \cup StoreResults
  <2>1. Contract!End(u)
    BY <1>1, <1>3 DEF Receive, Contract!End
  <2> QED BY <2>1, ContractRequests DEF Contract!Next
<1>4. CASE r # "item" /\ r \notin Last \cup StoreResults
  BY <1>1, <1>4 DEF Receive, Contract!vars
<1> QED BY <1>2, <1>3, <1>4

LEMMA AbortKeeps ==
  ASSUME NEW p \in Procs, Abort(p)
  PROVE  Contract!Next \/ UNCHANGED Contract!vars
<1>1. CASE AbortMark(p)
  <2>1. Contract!Close
    BY <1>1 DEF AbortMark, Contract!Close, gwVars, queryVars
  <2> QED BY <2>1 DEF Contract!Next
<1>2. CASE AbortConn(p) \/ CloseAllRequestChans(p)
  BY <1>2 DEF AbortConn, CloseAllRequestChans, Contract!vars, gwVars, queryVars, connVars
<1> QED BY <1>1, <1>2 DEF Abort

\* Whoever sends asks once; whoever does not says so.
LEMMA SendKeeps ==
  ASSUME ClientInv, NEW u \in Requests,
         (u \in Calls /\ CallCheck(u)) \/ SendCheck(u) \/ (u \in Calls \cup Sent /\ Write(u))
  PROVE  Contract!Next \/ UNCHANGED Contract!vars
<1> USE DEF gwVars, connVars, Contract!vars
<1>1. OwnInv(u) /\ RouteInv
  BY DEF ClientInv, EndInv, Complete, Inv
<1>2. CASE (u \in Calls /\ CallCheck(u)) \/ SendCheck(u)
  <2>1. pc[u] \notin Leaving
    BY <1>2 DEF CallCheck, SendCheck, Leaving
  <2>2. UNCHANGED <<gateway, found, items, closed>>
    BY <1>2 DEF CallCheck, SendCheck
  <2>3. CASE closed
    <3>1. result' = [result EXCEPT ![u] = "closed"] /\ Contract!Honest(u, "closed")
      BY <1>2, <2>3 DEF CallCheck, SendCheck, Return, Contract!Honest
    <3> QED BY <1>1, <2>1, <2>2, <3>1, HonestReturn
  <2>4. CASE ~closed
    BY <1>2, <2>2, <2>4 DEF CallCheck, SendCheck
  <2> QED BY <2>3, <2>4
<1>3. CASE Write(u)
  <2>1. pc[u] = "write" /\ UNCHANGED <<found, items, closed>>
    BY <1>3 DEF Write
  <2>2. gateway[u] = "unsent"
    BY <1>1, <2>1, ProcKinds DEF OwnInv, RouteInv, UnsentInv
  <2>3. CASE UNCHANGED result
    <3>1. result[u] = "none"
      BY <1>1, <2>1 DEF OwnInv, Leaving
    <3>2. gateway' = [gateway EXCEPT ![u] = "running"] \/ UNCHANGED gateway
      BY <1>3 DEF Write
    <3>3. Contract!Ask(u) \/ UNCHANGED gateway
      BY <2>1, <2>2, <2>3, <3>1, <3>2 DEF Contract!Ask
    <3> QED BY <2>1, <2>3, <3>3, ContractRequests DEF Contract!Next
  <2>4. CASE ~UNCHANGED result
    <3>1. result' = [result EXCEPT ![u] = "sendFailed"]
      BY <1>3, <2>4 DEF Write, Return
    <3>2. gateway' = [gateway EXCEPT ![u] = "running"] \/ UNCHANGED gateway
      BY <1>3 DEF Write
    <3>3. result[u] = "none"
      BY <1>1, <2>1 DEF OwnInv, Leaving
    <3>4. Contract!FailToAsk(u)
      BY <2>1, <2>2, <3>1, <3>2, <3>3 DEF Contract!FailToAsk
    <3> QED BY <3>4, ContractRequests DEF Contract!Next
  <2> QED BY <2>3, <2>4
<1> QED BY <1>2, <1>3

\* The read loop of Query: the last response is behind all of the items.
LEMMA QueryReadKeeps ==
  ASSUME ClientInv, NEW q \in Queries, QueryRead(q)
  PROVE  Contract!Next \/ UNCHANGED Contract!vars
<1> USE ProcKinds
<1>1. TypeInv /\ OwnInv(q)
  BY DEF ClientInv, EndInv, Complete, Inv
<1>2. pc[q] = "loop" /\ pc[q] \notin Leaving /\ UNCHANGED <<gateway, found, closed>>
  BY DEF QueryRead, Leaving, gwVars, connVars
<1>3. CASE buffer[q] = "item"
  <2>1. items[q] < found[q]
    <3>1. items[q] \in Nat /\ found[q] \in Nat /\ InHand(q) \in {0, 1} /\ InBuffer(q) = 1
      BY <1>1, <1>3, BoundAssumption DEF TypeInv, TypeOK, InHand, InBuffer
    <3> QED BY <1>1, <3>1 DEF TypeInv, CountInv
  <2>2. result[q] = "none"
    BY <1>1, <1>2 DEF OwnInv
  <2>3. items' = [items EXCEPT ![q] = @ + 1] /\ UNCHANGED result
    BY <1>3 DEF QueryRead, Last
  <2>4. Contract!Collect(q)
    BY <1>2, <2>1, <2>2, <2>3 DEF Contract!Collect
  <2> QED BY <2>4 DEF Contract!Next
<1>4. CASE buffer[q] \in Last
  <2>1. gateway[q] = "over" /\ ~InHands(q) /\ UNCHANGED items
    BY <1>1, <1>4 DEF OwnInv, LastWord, QueryRead, Last
  <2>2. ~closed => items[q] = found[q]
    <3> SUFFICES ASSUME ~closed PROVE items[q] = found[q]
      OBVIOUS
    <3>1. CountsOf(q) /\ InHand(q) = 0 /\ InBuffer(q) = 0
      BY <1>4, <2>1 DEF ClientInv, Complete, CompleteInv, InHand, InHands, InBuffer, Last
    <3>2. items[q] \in Nat /\ found[q] \in Nat
      BY <1>1, BoundAssumption DEF TypeInv, TypeOK
    <3> QED BY <1>2, <3>1, <3>2 DEF CountsOf
  <2>3. Contract!Honest(q, "ok") /\ Contract!Honest(q, "cancelled")
    BY <2>1, <2>2 DEF Contract!Honest
  <2>4. items[q] = 0 => Contract!Honest(q, "errored")
    BY <2>1 DEF Contract!Honest
  <2>5. PICK r \in {"ok", "cancelled", "errored"} :
           result' = [result EXCEPT ![q] = r] /\ Contract!Honest(q, r)
    BY <1>4, <2>3, <2>4 DEF QueryRead, Return, Last
  <2> QED BY <1>1, <1>2, <2>1, <2>5, HonestReturn
<1>5. CASE buffer[q] \notin Last \cup {"item"}
  BY <1>2, <1>5 DEF QueryRead, Contract!vars, Last
<1> QED BY <1>3, <1>4, <1>5

LEMMA CallKeeps ==
  ASSUME ClientInv, NEW q \in Calls,
         (q \in Stores /\ StoreRead(q)) \/ ReadClosedChan(q) \/ CallGivesUp(q)
  PROVE  Contract!Next
<1> USE ProcKinds DEF gwVars, connVars
<1>1. TypeInv /\ OwnInv(q) /\ ChanInv
  BY DEF ClientInv, EndInv, Complete, Inv
<1>2. pc[q] = "loop" /\ pc[q] \notin Leaving /\ UNCHANGED <<gateway, found, items, closed>>
  BY DEF StoreRead, ReadClosedChan, CallGivesUp, Leaving
<1>3. CASE q \in Stores /\ StoreRead(q)
  <2>1. buffer[q] \in StoreResults /\ gateway[q] = "over"
    BY <1>1, <1>3 DEF StoreRead, TypeInv, BufferInv, ResponsesTo, OwnInv, LastWord
  <2>2. PICK r \in {"ok", "refused", "unexpected"} : result' = [result EXCEPT ![q] = r]
    BY <1>3 DEF StoreRead, Return, ResultOf
  <2>3. Contract!Honest(q, r)
    BY <1>3, <2>1, <2>2 DEF Contract!Honest
  <2> QED BY <1>1, <1>2, <2>2, <2>3, HonestReturn
<1>4. CASE ReadClosedChan(q)
  <2>1. closed
    BY <1>1, <1>4 DEF ReadClosedChan, ChanInv
  <2>2. PICK r \in {"ok", "closed"} :
           result' = [result EXCEPT ![q] = r] /\ (r = "ok" => q \in Queries)
    BY <1>4 DEF ReadClosedChan, Return
  <2>3. Contract!Honest(q, r)
    BY <2>1, <2>2 DEF Contract!Honest
  <2> QED BY <1>1, <1>2, <2>2, <2>3, HonestReturn
<1>5. CASE CallGivesUp(q)
  <2>1. result' = [result EXCEPT ![q] = "context"] /\ Contract!Honest(q, "context")
    BY <1>5 DEF CallGivesUp, Return, Contract!Honest
  <2> QED BY <1>1, <1>2, <2>1, HonestReturn
<1> QED BY <1>3, <1>4, <1>5

LEMMA WaitKeeps ==
  ASSUME ClientInv, NEW u \in Sent, WaitCheck(u) \/ WaitLock(u)
  PROVE  Contract!Next \/ UNCHANGED Contract!vars
<1> USE ProcKinds DEF gwVars, connVars, Contract!vars
<1>1. OwnInv(u) /\ u \notin Queries /\ u \notin Stores
  BY DEF ClientInv, EndInv
<1>2. pc[u] \notin Leaving /\ UNCHANGED <<gateway, found, items, closed>>
  BY DEF WaitCheck, WaitLock, Leaving
<1>3. CASE UNCHANGED result
  BY <1>2, <1>3
<1>4. CASE result' = [result EXCEPT ![u] = "ok"] /\ (closed \/ finished[u])
  <2>1. Contract!Honest(u, "ok")
    BY <1>1, <1>4 DEF OwnInv, Contract!Honest
  <2> QED BY <1>1, <1>2, <1>4, <2>1, HonestReturn
<1>5. CASE result' = [result EXCEPT ![u] = "context"] /\ u \in GivesUp
  <2>1. Contract!Honest(u, "context")
    BY <1>5 DEF Contract!Honest
  <2> QED BY <1>1, <1>2, <1>5, <2>1, HonestReturn
<1> QED BY <1>3, <1>4, <1>5 DEF WaitCheck, WaitLock, Return

LEMMA ContractStep ==
  ASSUME ClientInv, [Next]_vars
  PROVE  Contract!Next \/ UNCHANGED Contract!vars
<1> USE DEF gwVars, connVars, queryVars
<1>1. CASE \E u \in Requests : \E r \in ResponsesTo(u) : Receive(u, r)
  BY <1>1, ReceiveKeeps
<1>2. CASE Lookup \/ Post \/ ReceiverFinish \/ ReadFails \/ CloseBegin \/ UNCHANGED vars
  BY <1>2 DEF Lookup, Post, ReceiverFinish, FinishRequestChan, ReadFails, CloseBegin,
              vars, Contract!vars
<1>3. CASE Receiver \/ Abort("closer")
  BY <1>2, <1>3, AbortKeeps, ProcKinds DEF Receiver, ReadClosed
<1>4. ASSUME NEW q \in Calls, CallCheck(q) \/ Call(q) \/ CallGivesUp(q)
      PROVE  Contract!Next \/ UNCHANGED Contract!vars
  <2>1. CASE CreateRequestChan(q) \/ QueryFinish(q)
    BY <2>1 DEF CreateRequestChan, QueryFinish, FinishRequestChan, Contract!vars
  <2> QED BY <1>4, <2>1, SendKeeps, QueryReadKeeps, CallKeeps, AbortKeeps, ProcKinds
          DEF Call
<1>5. ASSUME NEW u \in Sent, SendCheck(u) \/ Wait(u)
      PROVE  Contract!Next \/ UNCHANGED Contract!vars
  BY <1>5, SendKeeps, WaitKeeps, AbortKeeps, ProcKinds DEF Wait
<1> QED BY <1>1, <1>2, <1>3, <1>4, <1>5 DEF Next, AtRest

\* Every request returns once, and what happened to it, with all of its items
\* as long as the client is open, however its responses, its cancellation and
\* the end of the connection interleave (client.go, utils.go).
THEOREM ImplementsContract == Spec => KeepsContract
<1>1. Init => Contract!Init
  BY ContractRequests DEF Init, Contract!Init
<1>2. ClientInv /\ [Next]_vars => [Contract!Next]_(Contract!vars)
  BY ContractStep
<1> QED BY <1>1, <1>2, ClientInit, ClientStep, PTL DEF Spec, KeepsContract, Contract!Spec
=============================================================================
