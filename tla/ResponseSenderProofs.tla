------------------------ MODULE ResponseSenderProofs ------------------------
(* Proofs about ResponseSender.                                             *)
EXTENDS ResponseSender, TLAPS

\* The final response comes last: whoever publishes it waited for the ticker,
\* and only Start begins one.
OrderInv ==
    /\ TypeOK
    /\ pcK # "idle" => pcS = "started"
    /\ pcK \in {"publish", "returned"} => ~Running
    /\ wire \in Promise!Final => pcK = "returned"
    /\ ticker # "none" => pcS = "started"

\* The first response is on its way only before a ticker exists.
LEMMA OrderInit == Init => OrderInv
  BY DEF Init, OrderInv, TypeOK, Running, Promise!Final

\* Every step keeps the order.
LEMMA OrderNext == OrderInv /\ [Next]_vars => OrderInv'
<1> SUFFICES ASSUME OrderInv, [Next]_vars PROVE OrderInv'
  OBVIOUS
<1> USE DEF OrderInv, TypeOK, Running, Promise!Final
<1>1. CASE StartPublish
  BY <1>1 DEF StartPublish, Publish
<1>2. CASE StartSpawn
  BY <1>2 DEF StartSpawn
<1>3. CASE TickerTicks
  BY <1>3 DEF TickerTicks
<1>4. CASE SelectTick
  BY <1>4 DEF SelectTick
<1>5. CASE SelectExit
  BY <1>5 DEF SelectExit
<1>6. CASE TickerPublish
  BY <1>6 DEF TickerPublish, Publish
<1>7. CASE CancelContext
  BY <1>7 DEF CancelContext
<1>8. CASE KillClose
  BY <1>8 DEF KillClose
<1>9. CASE KillWait
  BY <1>9 DEF KillWait
<1>10. CASE KillPublish
  BY <1>10 DEF KillPublish, Publish
<1>11. CASE UNCHANGED vars
  BY <1>11 DEF vars
<1> QED
  BY <1>1, <1>2, <1>3, <1>4, <1>5, <1>6, <1>7, <1>8, <1>9, <1>10, <1>11
  DEF Next, Start, Ticker, Killer, Finished

\* The order holds throughout.
LEMMA Order == Spec => []OrderInv
  BY OrderInit, OrderNext, PTL DEF Spec

\* Every variable keeps its type.
THEOREM SenderTypes == Spec => []TypeOK
<1>1. OrderInv => TypeOK
  BY DEF OrderInv
<1> QED
  BY <1>1, Order, PTL

\* Each step publishes a response that the protocol allows, or none, and only
\* the last one returns to the caller of Done, Error, Cancel or Kill.
LEMMA PromiseStep == OrderInv /\ [Next]_vars => [Promise!Next]_(Promise!vars)
<1> SUFFICES ASSUME OrderInv, Next, ~UNCHANGED Promise!vars PROVE Promise!Next
  BY DEF vars, Promise!vars
<1> USE DEF OrderInv, TypeOK, Running, Promise!Final, Promise!SayWorking,
            Promise!Stop, Promise!Next, Promise!vars, Publish
<1>1. CASE StartPublish
  BY <1>1 DEF StartPublish
<1>2. CASE TickerPublish
  BY <1>2 DEF TickerPublish
<1>3. CASE KillPublish
  BY <1>3 DEF KillPublish
<1> QED
  BY <1>1, <1>2, <1>3
  DEF Next, Start, StartSpawn, TickerTicks, Ticker, SelectTick, SelectExit,
      CancelContext, KillClose, Killer, KillWait, Finished, vars

\* The sender implements ResponderProtocol, for whoever watches its responses
\* and for whoever stops it (progress.go:54-163).
THEOREM SenderKeepsPromise == Spec => KeepsPromise
<1>1. Init => Promise!Init
  BY DEF Init, Promise!Init
<1> QED
  BY <1>1, PromiseStep, Order, PTL DEF Spec, KeepsPromise, Promise!Spec

\* After Done, Error, Cancel or Kill returned, nothing more is published
\* (progress.go:144-163).
THEOREM SenderSilent == Spec => SilentAfterKill
<1> DEFINE A == pcK = "returned" => wire' = wire
<1>1. OrderInv /\ [Next]_vars => [A]_vars
  BY DEF OrderInv, Running, Next, Start, StartPublish, StartSpawn, TickerTicks,
         Ticker, SelectTick, SelectExit, TickerPublish, CancelContext, KillClose,
         Killer, KillWait, KillPublish, Finished, vars
<1>2. Spec => [][A]_vars
  BY <1>1, Order, PTL DEF Spec
<1> QED
  BY <1>2 DEF SilentAfterKill

=============================================================================
