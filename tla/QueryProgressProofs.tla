------------------------ MODULE QueryProgressProofs ------------------------
(***************************************************************************)
(* Proofs about QueryProgress, for any sets of responders, handlers,        *)
(* cancellers and messages. Each section states an inductive invariant      *)
(* and proves the property of QueryProgress that it implies.                *)
(***************************************************************************)
EXTENDS QueryProgress, TLAPS

\* The groups of variables that the UNCHANGED conjuncts name.
USE DEF startVars, chanVars, msgVars, hVars, respVars, timerVars, cVars,
        aroundStart, aroundHandler, aroundMonitor, aroundTimer, aroundDrain,
        aroundCancel

-----------------------------------------------------------------------------
(* Types, and the messages handlers work on                                *)

Busy(h) == pcH[h] # "idle"

\* No two handlers work on the same message.
OwnWork ==
    \A g, h \in Handlers : g # h /\ Busy(g) /\ Busy(h) => work[g] # work[h]

SentHasBody == \A m \in Msgs : fate[m] # "unsent" => body[m] \in Contents

TypeInv == QueryTypeOK /\ OwnWork /\ SentHasBody

MonitorTypes ==
    [Msgs -> {"none", "armed", "cancelled", "fired", "scan", "drain", "done"}]

\* The initial state is well typed.
LEMMA TypeInit == Init => TypeInv
<1> SUFFICES ASSUME Init PROVE TypeInv
  OBVIOUS
<1>1. QueryTypeOK
  BY DEF Init, QueryTypeOK, Sendable
<1>2. OwnWork /\ SentHasBody
  BY DEF Init, OwnWork, SentHasBody, Busy
<1> QED
  BY <1>1, <1>2 DEF TypeInv

\* The steps of the caller of Start keep the types.
LEMMA TypeStart == TypeInv /\ Start => TypeInv'
<1> SUFFICES ASSUME TypeInv, Start PROVE TypeInv'
  OBVIOUS
<1>1. CASE StartLockChan
  BY <1>1, ChannelAssumption
  DEF StartLockChan, TypeInv, QueryTypeOK, OwnWork, SentHasBody, Busy, Kinds
<1>2. CASE StartLockSub
  BY <1>2 DEF StartLockSub, TypeInv, QueryTypeOK, OwnWork, SentHasBody, Busy
<1>3. CASE StartSubscribe
  BY <1>3 DEF StartSubscribe, TypeInv, QueryTypeOK, OwnWork, SentHasBody, Busy
<1>4. CASE StartPublish
  BY <1>4 DEF StartPublish, TypeInv, QueryTypeOK, OwnWork, SentHasBody, Busy
<1>5. CASE MarkStarted
  BY <1>5 DEF MarkStarted, TypeInv, QueryTypeOK, OwnWork, SentHasBody, Busy
<1> QED
  BY <1>1, <1>2, <1>3, <1>4, <1>5 DEF Start

\* The network keeps the types.
LEMMA TypePublish ==
  ASSUME TypeInv, NEW m \in Msgs, NEW c \in Contents, Publish(m, c)
  PROVE  TypeInv'
  BY DEF Publish, TypeInv, QueryTypeOK, OwnWork, SentHasBody, Busy

\* A message in the hands of a handler is a payload or a response.
LEMMA TypeDispatch ==
  ASSUME TypeInv, NEW h \in Handlers, NEW m \in Msgs, Dispatch(h, m)
  PROVE  TypeInv'
<1> USE DEF Dispatch, TypeInv, QueryTypeOK
<1>1. body[m] \in Contents
  BY DEF SentHasBody
<1>2. body[m] \in Payload \/ body[m] \in Response
  BY <1>1, ContentsAssumption
<1>3. CASE body[m].type = "response"
  <2>1. body[m] \in Response
    BY <1>2, <1>3 DEF Payload, Kinds
  <2> QED
    BY <1>3, <2>1 DEF Route, OwnWork, SentHasBody, Busy
<1>4. CASE body[m].type # "response"
  <2>1. body[m] \in Payload
    BY <1>2, <1>4 DEF Response
  <2> QED
    BY <1>4, <2>1 DEF Route, OwnWork, SentHasBody, Busy
<1> QED
  BY <1>3, <1>4

\* A handler that is done with its message keeps the types.
LEMMA TypeProcessed ==
  ASSUME TypeInv, NEW h \in Handlers, Busy(h), Processed(h),
         mon' \in MonitorTypes,
         UNCHANGED <<startVars, chanVars, sub, body, state, current, todo,
                     timerVars, drain, cVars, open>>
  PROVE  TypeInv'
<1> USE DEF Processed, TypeInv
<1>1. QueryTypeOK'
  <2>1. work[h] \in Msgs
    BY DEF QueryTypeOK, Busy
  <2>2. /\ fate' \in [Msgs -> {"unsent", "pending", "handling", "received",
                               "dropped", "processed", "discarded"}]
        /\ pcH' \in [Handlers -> {"idle", "rlock", "send", "respond", "check",
                                  "sleep", "drain"}]
        /\ work' \in [Handlers -> Msgs \cup {None}]
    BY <2>1 DEF QueryTypeOK
  <2>3. ASSUME NEW g \in Handlers, pcH'[g] # "idle"
        PROVE  /\ g # h /\ pcH'[g] = pcH[g] /\ work'[g] = work[g]
               /\ fate'[work'[g]] = fate[work[g]]
    BY <2>1, <2>3 DEF QueryTypeOK, OwnWork, Busy
  <2> QED
    BY <2>2, <2>3 DEF QueryTypeOK, MonitorTypes
<1>2. OwnWork' /\ SentHasBody'
  BY DEF QueryTypeOK, OwnWork, SentHasBody, Busy
<1> QED
  BY <1>1, <1>2

\* ProcessResponse stores the responder's state and starts its monitor.
LEMMA TypeProcessResponse ==
  ASSUME TypeInv, NEW h \in Handlers, ProcessResponse(h)
  PROVE  TypeInv'
<1> DEFINE m == work[h]
           r == body[m].from
<1> USE DEF TypeInv
<1>1. m \in Msgs /\ body[m] \in Response /\ Busy(h)
  BY DEF ProcessResponse, QueryTypeOK, Busy
<1>2. r \in Responders /\ body[m].state \in Sendable
  BY <1>1 DEF ProcessResponse, Response
<1>3. Stopped(r) \in MonitorTypes
  BY <1>2 DEF Stopped, QueryTypeOK, MonitorTypes
<1>4. CASE AlreadyFinished(r)
  BY <1>1, <1>3, <1>4, TypeProcessed DEF ProcessResponse
<1>5. CASE ~AlreadyFinished(r)
  <2>1. /\ pcH' = [pcH EXCEPT ![h] = "check"]
        /\ state' = [state EXCEPT ![r] = body[m].state]
        /\ mon' = Stopped(r) \/ mon' = [Stopped(r) EXCEPT ![m] = "armed"]
        /\ current' = current \/ current' = [current EXCEPT ![r] = m]
        /\ UNCHANGED <<startVars, chanVars, sub, body, todo, timerVars, drain,
                       cVars, open, work, fate>>
    BY <1>5 DEF ProcessResponse
  <2>2. /\ mon' \in MonitorTypes
        /\ current' \in [Responders -> Msgs \cup {None}]
        /\ state' \in [Responders -> Sendable \cup {"NONE", "STALLED"}]
    BY <1>1, <1>2, <1>3, <2>1 DEF QueryTypeOK, MonitorTypes
  <2>3. OwnWork' /\ SentHasBody'
    BY <1>1, <2>1 DEF ProcessResponse, QueryTypeOK, OwnWork, SentHasBody, Busy
  <2>4. QueryTypeOK'
    BY <1>1, <1>2, <2>1, <2>2 DEF ProcessResponse, QueryTypeOK, MonitorTypes
  <2> QED
    BY <2>3, <2>4
<1> QED
  BY <1>4, <1>5

\* The remaining steps of a handler keep the types.
LEMMA TypeHandler ==
  ASSUME TypeInv, NEW h \in Handlers, Handler(h)
  PROVE  TypeInv'
<1>1. CASE \E m \in Msgs : Dispatch(h, m)
  BY <1>1, TypeDispatch
<1>2. CASE HandlerLock(h)
  <2>1. OwnWork' /\ SentHasBody'
    BY <1>2 DEF HandlerLock, TypeInv, QueryTypeOK, OwnWork, SentHasBody, Busy
  <2>2. QueryTypeOK'
    BY <1>2 DEF HandlerLock, TypeInv, QueryTypeOK, OwnWork, Busy
  <2> QED
    BY <2>1, <2>2 DEF TypeInv
<1>3. CASE RejectResponse(h)
  BY <1>3, TypeProcessed DEF RejectResponse, Busy, TypeInv, QueryTypeOK, MonitorTypes
<1>4. CASE ProcessResponse(h)
  BY <1>4, TypeProcessResponse
<1>5. CASE CheckDone(h)
  <2>1. CASE AllDone /\ elapsed
    BY <1>5, <2>1 DEF CheckDone, TypeInv, QueryTypeOK, OwnWork, SentHasBody, Busy
  <2>2. CASE ~(AllDone /\ elapsed)
    BY <1>5, <2>2, TypeProcessed DEF CheckDone, Busy, TypeInv, QueryTypeOK, MonitorTypes
  <2> QED
    BY <2>1, <2>2
<1>6. CASE DrainDelay(h)
  BY <1>6 DEF DrainDelay, TypeInv, QueryTypeOK, OwnWork, SentHasBody, Busy
<1>7. CASE HandlerDrained(h)
  BY <1>7, TypeProcessed DEF HandlerDrained, Busy, TypeInv, QueryTypeOK, MonitorTypes
<1> QED
  BY <1>1, <1>2, <1>3, <1>4, <1>5, <1>6, <1>7 DEF Handler

\* The reader of the channels keeps the types.
LEMMA TypeConsumer == TypeInv /\ Consumer => TypeInv'
<1> SUFFICES ASSUME TypeInv, Consumer PROVE TypeInv'
  OBVIOUS
<1>1. ASSUME NEW h \in Handlers, Receive(h) PROVE TypeInv'
  BY <1>1 DEF Receive, TypeInv, QueryTypeOK, OwnWork, SentHasBody, Busy
<1>2. ASSUME NEW k \in Kinds, SeeClosed(k) PROVE TypeInv'
  BY <1>2 DEF SeeClosed, TypeInv, QueryTypeOK, OwnWork, SentHasBody, Busy
<1> QED
  BY <1>1, <1>2 DEF Consumer

\* The stall monitors keep the types.
LEMMA TypeStallMonitor ==
  ASSUME TypeInv, NEW m \in Msgs, StallMonitor(m)
  PROVE  TypeInv'
<1> USE DEF TypeInv, OwnWork, SentHasBody, Busy
<1>1. CASE MonitorFire(m)
  BY <1>1 DEF MonitorFire, QueryTypeOK
<1>2. CASE MonitorExit(m)
  BY <1>2 DEF MonitorExit, QueryTypeOK
<1>3. CASE MarkStalled(m)
  <2>1. state' \in [Responders -> Sendable \cup {"NONE", "STALLED"}]
    BY <1>3 DEF MarkStalled, QueryTypeOK
  <2> QED
    BY <1>3, <2>1 DEF MarkStalled, QueryTypeOK
<1>4. CASE MonitorScan(m)
  BY <1>4 DEF MonitorScan, ScanOne, QueryTypeOK
<1>5. CASE MonitorScanned(m)
  BY <1>5 DEF MonitorScanned, QueryTypeOK
<1>6. CASE MonitorDrained(m)
  BY <1>6 DEF MonitorDrained, QueryTypeOK
<1> QED
  BY <1>1, <1>2, <1>3, <1>4, <1>5, <1>6 DEF StallMonitor

\* The start-timeout goroutine keeps the types.
LEMMA TypeTimer == TypeInv /\ Timer => TypeInv'
<1> SUFFICES ASSUME TypeInv, Timer PROVE TypeInv'
  OBVIOUS
<1>1. /\ timer' \in {"none", "armed", "stopping", "fired", "drain", "done"}
      /\ elapsed' \in BOOLEAN
      /\ UNCHANGED <<startVars, chanVars, msgVars, hVars, respVars, drain,
                     cVars, open>>
  BY DEF Timer, TimerFire, TimerExit, TimerCheck, TimerDrained, TypeInv, QueryTypeOK
<1> QED
  BY <1>1 DEF TypeInv, QueryTypeOK, OwnWork, SentHasBody, Busy

\* Drain keeps the types.
LEMMA TypeDrain == TypeInv /\ Drain => TypeInv'
<1> SUFFICES ASSUME TypeInv, Drain PROVE TypeInv'
  OBVIOUS
<1> USE DEF TypeInv, OwnWork, SentHasBody, Busy
<1>1. CASE DrainBegin
  BY <1>1 DEF DrainBegin, QueryTypeOK
<1>2. CASE DrainUnsubscribe
  <2>1. /\ fate' \in [Msgs -> {"unsent", "pending", "handling", "received",
                               "dropped", "processed", "discarded"}]
        /\ sub' \in {"none", "active", "draining", "closed"}
        /\ \A m \in Msgs : fate[m] = "handling" => fate'[m] = "handling"
        /\ \A m \in Msgs : fate'[m] # "unsent" => fate[m] # "unsent"
    BY <1>2 DEF DrainUnsubscribe, Unsubscribe, QueryTypeOK
  <2> QED
    BY <1>2, <2>1 DEF DrainUnsubscribe, QueryTypeOK
<1>3. CASE DrainClose
  BY <1>3 DEF DrainClose, QueryTypeOK
<1> QED
  BY <1>1, <1>2, <1>3 DEF Drain

\* The callers of Cancel keep the types.
LEMMA TypeCancel ==
  ASSUME TypeInv, NEW c \in Cancellers,
         CancelBegin(c) \/ Cancel(c) \/ CancelExpire(c)
  PROVE  TypeInv'
<1> USE DEF TypeInv, OwnWork, SentHasBody, Busy
<1>1. CASE CancelBegin(c)
  <2>1. /\ cancelled' \in BOOLEAN
        /\ \/ pcC' = [pcC EXCEPT ![c] = "wait"]
           \/ pcC' = [pcC EXCEPT ![c] = "publish"]
    BY <1>1 DEF CancelBegin, QueryTypeOK
  <2> QED
    BY <1>1, <2>1 DEF CancelBegin, QueryTypeOK
<1>2. CASE CancelPublish(c)
  BY <1>2 DEF CancelPublish, QueryTypeOK
<1>3. CASE CancelScan(c)
  BY <1>3 DEF CancelScan, ScanOne, QueryTypeOK
<1>4. CASE CancelScanned(c)
  BY <1>4 DEF CancelScanned, QueryTypeOK
<1>5. CASE CancelDrained(c) \/ CancelDone(c)
  BY <1>5 DEF CancelDrained, CancelDone, QueryTypeOK
<1>6. CASE CancelExpire(c) \/ CancelForced(c)
  BY <1>6 DEF CancelExpire, CancelForced, QueryTypeOK
<1> QED
  BY <1>1, <1>2, <1>3, <1>4, <1>5, <1>6 DEF Cancel

\* Every step keeps the types.
LEMMA TypeNext == TypeInv /\ [Step]_queryVars => TypeInv'
<1> SUFFICES ASSUME TypeInv, [Step]_queryVars PROVE TypeInv'
  OBVIOUS
<1>1. CASE UNCHANGED queryVars
  BY <1>1 DEF queryVars, TypeInv, QueryTypeOK, OwnWork, SentHasBody, Busy
<1> QED
  BY <1>1, TypeStart, TypePublish, TypeHandler, TypeConsumer,
     TypeStallMonitor, TypeTimer, TypeDrain, TypeCancel DEF Step

\* The end of the process changes nothing the goroutines share: only the
\* steps of goroutines do.
LEMMA StepsOnly == [Next]_vars => [Step]_queryVars
  BY DEF Next, Alive, Abort, Finished, vars

\* The invariant the later proofs start from.
LEMMA TypeInvariant == Spec => []TypeInv
  BY TypeInit, TypeNext, StepsOnly, PTL DEF Spec

\* Every variable keeps its type, and a handler works on a message of the
\* sort its part of the code is written for (the callback of progress.go:470).
THEOREM TypeCorrect == Spec => []TypeOK
<1> DEFINE FlagOK == aborted \in BOOLEAN
<1>1. Init => FlagOK
  BY DEF Init
<1>2. FlagOK /\ [Next]_vars => FlagOK'
  BY DEF Next, Alive, Abort, Finished, vars
<1>3. TypeInv /\ FlagOK => TypeOK
  BY DEF TypeInv, TypeOK
<1> HIDE DEF FlagOK
<1> QED
  BY <1>1, <1>2, <1>3, TypeInvariant, PTL DEF Spec

-----------------------------------------------------------------------------
(* No send on a closed channel                                             *)

SendInv ==
    /\ NoSendOnClosed
    /\ \A k \in Kinds : chans[k] = "closed" => channelsClosed

\* Steps after which fewer handlers send, on the same channels.
LEMMA SendFrame ==
  ASSUME SendInv, UNCHANGED chanVars,
         \A h \in Handlers : pcH'[h] = "send" =>
            pcH[h] = "send" /\ body'[work'[h]] = body[work[h]]
  PROVE  SendInv'
  BY DEF SendInv, NoSendOnClosed

\* Handlers send only after they found the channels open, under the lock.
LEMMA SendHandler ==
  ASSUME SendInv, TypeInv, NEW h \in Handlers, Handler(h)
  PROVE  SendInv'
<1> USE DEF TypeInv
<1>1. ASSUME NEW m \in Msgs, Dispatch(h, m) PROVE SendInv'
  BY <1>1, SendFrame DEF Dispatch, Route, QueryTypeOK
<1>2. CASE HandlerLock(h)
  <2>1. CASE channelsClosed
    BY <1>2, <2>1, SendFrame DEF HandlerLock, QueryTypeOK
  <2>2. CASE ~channelsClosed
    <3>1. /\ pcH' = [pcH EXCEPT ![h] = "send"]
          /\ UNCHANGED <<chanVars, body, work>>
      BY <1>2, <2>2 DEF HandlerLock
    <3>2. body[work[h]].type \in Kinds
      BY <1>2 DEF HandlerLock, QueryTypeOK, Payload
    <3> QED
      BY <2>2, <3>1, <3>2 DEF SendInv, NoSendOnClosed, QueryTypeOK
  <2> QED
    BY <2>1, <2>2
<1>3. CASE RejectResponse(h) \/ CheckDone(h) \/ DrainDelay(h) \/ HandlerDrained(h)
  <2>1. /\ UNCHANGED <<chanVars, body>>
        /\ \/ pcH' = [pcH EXCEPT ![h] = "idle"] /\ work' = [work EXCEPT ![h] = None]
           \/ pcH' = [pcH EXCEPT ![h] = "sleep"] /\ work' = work
           \/ pcH' = [pcH EXCEPT ![h] = "drain"] /\ work' = work
    BY <1>3 DEF RejectResponse, CheckDone, DrainDelay, HandlerDrained, Processed
  <2> QED
    BY <2>1, SendFrame DEF QueryTypeOK
<1>4. CASE ProcessResponse(h)
  <2>1. /\ UNCHANGED <<chanVars, body>>
        /\ \/ pcH' = [pcH EXCEPT ![h] = "idle"] /\ work' = [work EXCEPT ![h] = None]
           \/ pcH' = [pcH EXCEPT ![h] = "check"] /\ work' = work
    BY <1>4 DEF ProcessResponse, Processed
  <2> QED
    BY <2>1, SendFrame DEF QueryTypeOK
<1> QED
  BY <1>1, <1>2, <1>3, <1>4 DEF Handler

\* Every step keeps the invariant.
LEMMA SendNext == SendInv /\ TypeInv /\ [Step]_queryVars => SendInv'
<1> SUFFICES ASSUME SendInv, TypeInv, [Step]_queryVars PROVE SendInv'
  OBVIOUS
<1> USE DEF TypeInv
<1>1. CASE Start
  <2>1. CASE StartLockChan
    BY <2>1, ChannelAssumption
    DEF StartLockChan, SendInv, NoSendOnClosed, ChanReaders, Kinds
  <2> QED
    BY <1>1, <2>1, SendFrame
    DEF Start, StartLockSub, StartSubscribe, StartPublish, MarkStarted
<1>2. ASSUME NEW m \in Msgs, NEW c \in Contents, Publish(m, c) PROVE SendInv'
  BY <1>2, SendFrame DEF Publish, QueryTypeOK
<1>3. ASSUME NEW h \in Handlers, Handler(h) PROVE SendInv'
  BY <1>3, SendHandler
<1>4. CASE Consumer
  BY <1>4, SendFrame DEF Consumer, Receive, SeeClosed, QueryTypeOK
<1>5. ASSUME NEW m \in Msgs, StallMonitor(m) PROVE SendInv'
  BY <1>5, SendFrame
  DEF StallMonitor, MonitorFire, MonitorExit, MarkStalled, MonitorScan,
      MonitorScanned, MonitorDrained
<1>6. CASE Timer
  BY <1>6, SendFrame DEF Timer, TimerFire, TimerExit, TimerCheck, TimerDrained
<1>7. CASE Drain
  <2>1. CASE DrainClose
    BY <2>1 DEF DrainClose, SendInv, NoSendOnClosed, ChanReaders
  <2> QED
    BY <1>7, <2>1, SendFrame DEF Drain, DrainBegin, DrainUnsubscribe
<1>8. ASSUME NEW c \in Cancellers,
             CancelBegin(c) \/ Cancel(c) \/ CancelExpire(c)
      PROVE  SendInv'
  BY <1>8, SendFrame
  DEF CancelBegin, Cancel, CancelExpire, CancelPublish, CancelScan,
      CancelScanned, CancelDrained, CancelDone, CancelForced
<1>9. CASE UNCHANGED queryVars
  BY <1>9, SendFrame DEF queryVars
<1> QED
  BY <1>1, <1>2, <1>3, <1>4, <1>5, <1>6, <1>7, <1>8, <1>9 DEF Step

\* chanMutex and channelsClosed together keep every send of an item or error
\* handler off the channels that Drain closes (progress.go:402-427, 559-573).
THEOREM SendSafe == Spec => []NoSendOnClosed
<1>1. Init => SendInv
  BY DEF Init, SendInv, NoSendOnClosed
<1>2. SendInv => NoSendOnClosed
  BY DEF SendInv
<1> QED
  BY <1>1, <1>2, SendNext, TypeInvariant, StepsOnly, PTL DEF Spec

-----------------------------------------------------------------------------
(* Drains decided under respondersMutex                                    *)

\* Steps that add nobody to those who decided, and make nobody work.
LEMMA QuietFrame ==
  ASSUME DrainsOnlyWhenQuiet,
         timer' = "drain" => timer = "drain",
         \A h \in Handlers : pcH'[h] \in {"sleep", "drain"} =>
            pcH[h] \in {"sleep", "drain"},
         \A r \in Responders : state'[r] = "WORKING" => state[r] = "WORKING"
  PROVE  DrainsOnlyWhenQuiet'
  BY DEF DrainsOnlyWhenQuiet, NoneWorking

\* The holder of respondersMutex decides, and no response gets past it.
LEMMA QuietNext == DrainsOnlyWhenQuiet /\ TypeInv /\ [Step]_queryVars => DrainsOnlyWhenQuiet'
<1> SUFFICES ASSUME DrainsOnlyWhenQuiet, TypeInv, [Step]_queryVars
             PROVE  DrainsOnlyWhenQuiet'
  OBVIOUS
<1> USE DEF TypeInv
<1>1. CASE Start
  BY <1>1, QuietFrame
  DEF Start, StartLockChan, StartLockSub, StartSubscribe, StartPublish, MarkStarted
<1>2. ASSUME NEW m \in Msgs, NEW c \in Contents, Publish(m, c)
      PROVE  DrainsOnlyWhenQuiet'
  BY <1>2, QuietFrame DEF Publish
<1>3. ASSUME NEW h \in Handlers, Handler(h) PROVE DrainsOnlyWhenQuiet'
  <2>1. ASSUME NEW m \in Msgs, Dispatch(h, m) PROVE DrainsOnlyWhenQuiet'
    BY <2>1, QuietFrame DEF Dispatch, Route, QueryTypeOK
  <2>2. CASE HandlerLock(h) \/ RejectResponse(h) \/ HandlerDrained(h)
    BY <2>2, QuietFrame DEF HandlerLock, RejectResponse, HandlerDrained, Processed, QueryTypeOK
  <2>3. CASE ProcessResponse(h)
    <3>1. /\ timer' # "drain"
          /\ \A g \in Handlers : pcH'[g] \notin {"sleep", "drain"}
      BY <2>3
      DEF ProcessResponse, Processed, RespondersLocked, HoldsResponders, QueryTypeOK
    <3> QED
      BY <3>1 DEF DrainsOnlyWhenQuiet
  <2>4. CASE CheckDone(h)
    <3>1. CASE AllDone
      BY <2>4, <3>1 DEF CheckDone, AllDone, DrainsOnlyWhenQuiet, NoneWorking
    <3>2. CASE ~AllDone
      BY <2>4, <3>2, QuietFrame DEF CheckDone, Processed, QueryTypeOK
    <3> QED
      BY <3>1, <3>2
  <2>5. CASE DrainDelay(h)
    BY <2>5, QuietFrame DEF DrainDelay, QueryTypeOK
  <2> QED
    BY <1>3, <2>1, <2>2, <2>3, <2>4, <2>5 DEF Handler
<1>4. CASE Consumer
  BY <1>4, QuietFrame DEF Consumer, Receive, SeeClosed, QueryTypeOK
<1>5. ASSUME NEW m \in Msgs, StallMonitor(m) PROVE DrainsOnlyWhenQuiet'
  <2>1. CASE MarkStalled(m)
    BY <2>1, QuietFrame DEF MarkStalled, QueryTypeOK
  <2> QED
    BY <1>5, <2>1, QuietFrame
    DEF StallMonitor, MonitorFire, MonitorExit, MonitorScan, MonitorScanned,
        MonitorDrained
<1>6. CASE Timer
  <2>1. CASE TimerCheck
    BY <2>1, QuietFrame
    DEF TimerCheck, AllDone, Known, NoneWorking, DrainsOnlyWhenQuiet
  <2> QED
    BY <1>6, <2>1, QuietFrame DEF Timer, TimerFire, TimerExit, TimerDrained
<1>7. CASE Drain
  BY <1>7, QuietFrame DEF Drain, DrainBegin, DrainUnsubscribe, DrainClose
<1>8. ASSUME NEW c \in Cancellers,
             CancelBegin(c) \/ Cancel(c) \/ CancelExpire(c)
      PROVE  DrainsOnlyWhenQuiet'
  BY <1>8, QuietFrame
  DEF CancelBegin, Cancel, CancelExpire, CancelPublish, CancelScan,
      CancelScanned, CancelDrained, CancelDone, CancelForced
<1>9. CASE UNCHANGED queryVars
  BY <1>9, QuietFrame DEF queryVars
<1> QED
  BY <1>1, <1>2, <1>3, <1>4, <1>5, <1>6, <1>7, <1>8, <1>9 DEF Step

\* While ProcessResponse sleeps for DrainDelay and drains, and while the start
\* timeout drains, no responder is working (progress.go:704, 749-761, 525-530).
THEOREM DrainsQuietly == Spec => []DrainsOnlyWhenQuiet
<1>1. Init => DrainsOnlyWhenQuiet
  BY DEF Init, DrainsOnlyWhenQuiet
<1> QED
  BY <1>1, QuietNext, TypeInvariant, StepsOnly, PTL DEF Spec

-----------------------------------------------------------------------------
(* Stall monitors                                                          *)

\* A message starts its monitor once, when ProcessResponse handles it.
FreshMonitor ==
    /\ \A m \in Msgs : fate[m] \in {"unsent", "pending"} => mon[m] = "none"
    /\ \A h \in Handlers : pcH[h] = "respond" => mon[work[h]] = "none"

\* monitorCancel belongs to the monitor of one of the responder's responses.
OwnMonitor ==
    \A r \in Responders : current[r] # None =>
        fate[current[r]] # "unsent" /\ body[current[r]].from = r

WatchInv == FreshMonitor /\ OwnMonitor /\ WorkingIsWatched

\* Steps that touch neither responders nor monitors and give out no message.
LEMMA WatchFrame ==
  ASSUME WatchInv, TypeInv, UNCHANGED <<body, state, current, mon>>,
         \A m \in Msgs : fate'[m] = fate[m] \/ fate'[m] \notin {"unsent", "pending"},
         \A h \in Handlers : pcH'[h] = "respond" =>
            pcH[h] = "respond" /\ work'[h] = work[h]
  PROVE  WatchInv'
<1> USE DEF WatchInv, TypeInv, QueryTypeOK
<1>1. FreshMonitor'
  BY DEF FreshMonitor
<1>2. OwnMonitor'
  BY NoneAssumption DEF OwnMonitor
<1>3. WorkingIsWatched'
  BY DEF WorkingIsWatched
<1> QED
  BY <1>1, <1>2, <1>3

\* A new message gets the identity of no monitor.
LEMMA WatchPublish ==
  ASSUME WatchInv, TypeInv, NEW m \in Msgs, NEW c \in Contents, Publish(m, c)
  PROVE  WatchInv'
<1> USE DEF WatchInv, TypeInv, QueryTypeOK, Publish
<1>1. FreshMonitor'
  BY DEF FreshMonitor
<1>2. OwnMonitor'
  BY DEF OwnMonitor
<1>3. WorkingIsWatched'
  BY DEF WorkingIsWatched, OwnMonitor
<1> QED
  BY <1>1, <1>2, <1>3

\* The callback that takes a message finds no monitor of that message.
LEMMA WatchDispatch ==
  ASSUME WatchInv, TypeInv, NEW h \in Handlers, NEW m \in Msgs, Dispatch(h, m)
  PROVE  WatchInv'
<1> USE DEF WatchInv, TypeInv, QueryTypeOK, Dispatch
<1>1. FreshMonitor'
  BY DEF FreshMonitor
<1>2. OwnMonitor'
  BY DEF OwnMonitor
<1>3. WorkingIsWatched'
  BY DEF WorkingIsWatched
<1> QED
  BY <1>1, <1>2, <1>3

\* ProcessResponse stops the responder's monitor only, and a responder it
\* leaves working gets a new one.
LEMMA WatchProcessResponse ==
  ASSUME WatchInv, TypeInv, NEW h \in Handlers, ProcessResponse(h)
  PROVE  WatchInv'
<1> DEFINE m == work[h]
           r == body[m].from
<1> USE DEF WatchInv, TypeInv
<1>1. /\ m \in Msgs /\ body[m] \in Response /\ body[m] \in Contents
      /\ fate[m] = "handling" /\ mon[m] = "none" /\ Busy(h)
  BY DEF ProcessResponse, QueryTypeOK, SentHasBody, FreshMonitor, Busy
<1>2. r \in Responders
  BY <1>1 DEF ProcessResponse, Response
<1>3. mon \in MonitorTypes /\ current \in [Responders -> Msgs \cup {None}]
  BY DEF QueryTypeOK, MonitorTypes
<1>4. /\ Stopped(r) \in MonitorTypes
      /\ Stopped(r)[m] = "none"
      /\ \A n \in Msgs : (mon[n] = "none") <=> (Stopped(r)[n] = "none")
      /\ \A q \in Responders : current[q] # None /\ q # r =>
            Stopped(r)[current[q]] = mon[current[q]]
  BY <1>1, <1>2, <1>3 DEF Stopped, MonitorTypes, OwnMonitor
<1>5. \A g \in Handlers : g # h /\ pcH[g] = "respond" => work[g] \in Msgs /\ work[g] # m
  BY <1>1 DEF QueryTypeOK, OwnWork, Busy
<1>6. CASE AlreadyFinished(r)
  <2>1. /\ pcH' = [pcH EXCEPT ![h] = "idle"]
        /\ work' = [work EXCEPT ![h] = None]
        /\ fate' = [fate EXCEPT ![m] = "processed"]
        /\ mon' = Stopped(r)
        /\ UNCHANGED <<state, current, body>>
    BY <1>6 DEF ProcessResponse, Processed
  <2>2. FreshMonitor'
    BY <1>1, <1>3, <1>4, <1>5, <2>1 DEF FreshMonitor, QueryTypeOK
  <2>3. OwnMonitor'
    BY <1>3, <2>1 DEF OwnMonitor, QueryTypeOK
  <2>4. WorkingIsWatched'
    BY <1>2, <1>4, <1>6, <2>1 DEF WorkingIsWatched, AlreadyFinished, Terminal
  <2> QED
    BY <2>2, <2>3, <2>4
<1>7. CASE ~AlreadyFinished(r) /\ expectFollowUp(body[m])
  <2>1. /\ pcH' = [pcH EXCEPT ![h] = "check"]
        /\ state' = [state EXCEPT ![r] = body[m].state]
        /\ mon' = [Stopped(r) EXCEPT ![m] = "armed"]
        /\ current' = [current EXCEPT ![r] = m]
        /\ UNCHANGED <<body, work, fate>>
    BY <1>7 DEF ProcessResponse
  <2>2. FreshMonitor'
    BY <1>1, <1>3, <1>4, <1>5, <2>1 DEF FreshMonitor, QueryTypeOK
  <2>3. OwnMonitor'
    BY <1>1, <1>2, <1>3, <2>1 DEF OwnMonitor
  <2>4. mon'[m] = "armed" /\ m # None /\ body'[m].from = r
    BY <1>1, <1>4, <2>1, NoneAssumption DEF MonitorTypes
  <2>5. WorkingIsWatched'
    <3>1. ASSUME NEW q \in Responders, q # r, state'[q] = "WORKING"
          PROVE  /\ current'[q] # None
                 /\ mon'[current'[q]] \in {"armed", "fired"}
                 /\ body'[current'[q]].from = q
      <4>1. state[q] = "WORKING" /\ current'[q] = current[q]
        BY <2>1, <3>1, <1>2, <1>3 DEF QueryTypeOK
      <4>2. current[q] # m /\ current[q] # None /\ current[q] \in Msgs
        BY <1>1, <1>3, <4>1 DEF WorkingIsWatched
      <4> QED
        BY <1>4, <2>1, <3>1, <4>1, <4>2 DEF WorkingIsWatched, MonitorTypes
    <3> QED
      BY <1>2, <1>3, <2>1, <2>4, <3>1 DEF WorkingIsWatched
  <2> QED
    BY <2>2, <2>3, <2>5
<1>8. CASE ~AlreadyFinished(r) /\ ~expectFollowUp(body[m])
  <2>1. /\ pcH' = [pcH EXCEPT ![h] = "check"]
        /\ state' = [state EXCEPT ![r] = body[m].state]
        /\ mon' = Stopped(r)
        /\ UNCHANGED <<body, work, fate, current>>
    BY <1>8 DEF ProcessResponse
  <2>2. FreshMonitor'
    BY <1>1, <1>3, <1>4, <1>5, <2>1 DEF FreshMonitor, QueryTypeOK
  <2>3. OwnMonitor'
    BY <1>3, <2>1 DEF OwnMonitor
  <2>4. body[m].state # "WORKING"
    BY <1>1, <1>8, WorkingPromisesNext DEF expectFollowUp, Response
  <2>5. WorkingIsWatched'
    BY <1>2, <1>4, <2>1, <2>4 DEF WorkingIsWatched, QueryTypeOK
  <2> QED
    BY <2>2, <2>3, <2>5
<1> QED
  BY <1>6, <1>7, <1>8

\* A stall monitor that marks its responder takes it out of WORKING.
LEMMA WatchStallMonitor ==
  ASSUME WatchInv, TypeInv, NEW m \in Msgs, StallMonitor(m)
  PROVE  WatchInv'
<1> USE DEF WatchInv, TypeInv
<1>1. CASE MonitorScan(m)
  BY <1>1, WatchFrame DEF MonitorScan
<1>2. CASE MarkStalled(m)
  <2>1. FreshMonitor'
    BY <1>2 DEF MarkStalled, FreshMonitor, QueryTypeOK
  <2>2. OwnMonitor'
    BY <1>2 DEF MarkStalled, OwnMonitor
  <2>3. WorkingIsWatched'
    BY <1>2 DEF MarkStalled, WorkingIsWatched, OwnMonitor, QueryTypeOK
  <2> QED
    BY <2>1, <2>2, <2>3
<1>3. CASE MonitorFire(m) \/ MonitorExit(m) \/ MonitorScanned(m) \/ MonitorDrained(m)
  <2>1. /\ UNCHANGED <<msgVars, hVars, state, current>>
        /\ mon[m] # "none"
        /\ \/ mon' = [mon EXCEPT ![m] = "fired"]
           \/ mon[m] \notin {"armed", "fired"} /\ mon' = [mon EXCEPT ![m] = "done"]
           \/ mon[m] \notin {"armed", "fired"} /\ mon' = [mon EXCEPT ![m] = "drain"]
    BY <1>3 DEF MonitorFire, MonitorExit, MonitorScanned, MonitorDrained
  <2>2. FreshMonitor'
    BY <2>1 DEF FreshMonitor, QueryTypeOK
  <2>3. OwnMonitor'
    BY <2>1 DEF OwnMonitor
  <2>4. WorkingIsWatched'
    BY <2>1 DEF WorkingIsWatched, QueryTypeOK
  <2> QED
    BY <2>2, <2>3, <2>4
<1> QED
  BY <1>1, <1>2, <1>3 DEF StallMonitor

\* Every step keeps the invariant.
LEMMA WatchNext == WatchInv /\ TypeInv /\ [Step]_queryVars => WatchInv'
<1> SUFFICES ASSUME WatchInv, TypeInv, [Step]_queryVars PROVE WatchInv'
  OBVIOUS
<1>1. CASE Start
  BY <1>1, WatchFrame
  DEF Start, StartLockChan, StartLockSub, StartSubscribe, StartPublish, MarkStarted
<1>2. ASSUME NEW m \in Msgs, NEW c \in Contents, Publish(m, c) PROVE WatchInv'
  BY <1>2, WatchPublish
<1>3. ASSUME NEW h \in Handlers, Handler(h) PROVE WatchInv'
  <2>1. ASSUME NEW m \in Msgs, Dispatch(h, m) PROVE WatchInv'
    BY <2>1, WatchDispatch
  <2>2. CASE ProcessResponse(h)
    BY <2>2, WatchProcessResponse
  <2>3. CASE HandlerLock(h) \/ RejectResponse(h) \/ CheckDone(h) \/ DrainDelay(h)
             \/ HandlerDrained(h)
    BY <2>3, WatchFrame
    DEF HandlerLock, RejectResponse, CheckDone, DrainDelay, HandlerDrained,
        Processed, TypeInv, QueryTypeOK
  <2> QED
    BY <1>3, <2>1, <2>2, <2>3 DEF Handler
<1>4. CASE Consumer
  BY <1>4, WatchFrame DEF Consumer, Receive, SeeClosed, TypeInv, QueryTypeOK
<1>5. ASSUME NEW m \in Msgs, StallMonitor(m) PROVE WatchInv'
  BY <1>5, WatchStallMonitor
<1>6. CASE Timer
  BY <1>6, WatchFrame DEF Timer, TimerFire, TimerExit, TimerCheck, TimerDrained
<1>7. CASE Drain
  BY <1>7, WatchFrame
  DEF Drain, DrainBegin, DrainUnsubscribe, Unsubscribe, DrainClose
<1>8. ASSUME NEW c \in Cancellers,
             CancelBegin(c) \/ Cancel(c) \/ CancelExpire(c)
      PROVE  WatchInv'
  BY <1>8, WatchFrame
  DEF CancelBegin, Cancel, CancelExpire, CancelPublish, CancelScan,
      CancelScanned, CancelDrained, CancelDone, CancelForced
<1>9. CASE UNCHANGED queryVars
  BY <1>9, WatchFrame DEF queryVars
<1> QED
  BY <1>1, <1>2, <1>3, <1>4, <1>5, <1>6, <1>7, <1>8, <1>9 DEF Step

\* However responses, stale monitors and cancellations interleave, a responder
\* recorded as WORKING has a live monitor of its own (progress.go:708-743).
THEOREM WorkingWatched == Spec => []WorkingIsWatched
<1>1. Init => WatchInv
  BY DEF Init, WatchInv, FreshMonitor, OwnMonitor, WorkingIsWatched
<1>2. WatchInv => WorkingIsWatched
  BY DEF WatchInv
<1> QED
  BY <1>1, <1>2, WatchNext, TypeInvariant, StepsOnly, PTL DEF Spec

-----------------------------------------------------------------------------
(* Who changes what                                                        *)

\* Who moves Start, opens and closes channels, moves a canceller, and begins a drain; a
\* drain that began is never undone.
LEMMA WhoSteps ==
  ASSUME [Step]_queryVars
  PROVE  /\ UNCHANGED pcS \/ Start
         /\ UNCHANGED chanVars \/ StartLockChan \/ DrainClose
         /\ UNCHANGED <<cancelled, pcC>>
               \/ \E c \in Cancellers : CancelBegin(c) \/ Cancel(c) \/ CancelExpire(c)
         /\ UNCHANGED drain \/ Drain
<1>1. CASE Start
  BY <1>1
  DEF Start, StartLockSub, StartSubscribe, StartPublish, MarkStarted, StartLockChan
<1>2. ASSUME NEW m \in Msgs, NEW c \in Contents, Publish(m, c)
      PROVE  UNCHANGED <<pcS, chanVars, cancelled, pcC, drain>>
  BY <1>2 DEF Publish
<1>3. ASSUME NEW h \in Handlers, Handler(h)
      PROVE  UNCHANGED <<pcS, chanVars, cancelled, pcC, drain>>
  BY <1>3
  DEF Handler, Dispatch, HandlerLock, RejectResponse, ProcessResponse,
      CheckDone, DrainDelay, HandlerDrained
<1>4. CASE Consumer
  BY <1>4 DEF Consumer, Receive, SeeClosed
<1>5. ASSUME NEW m \in Msgs, StallMonitor(m)
      PROVE  UNCHANGED <<pcS, chanVars, cancelled, pcC, drain>>
  BY <1>5
  DEF StallMonitor, MonitorFire, MonitorExit, MarkStalled, MonitorScan,
      MonitorScanned, MonitorDrained
<1>6. CASE Timer
  BY <1>6 DEF Timer, TimerFire, TimerExit, TimerCheck, TimerDrained
<1>7. CASE Drain
  <2>1. UNCHANGED <<pcS, cancelled, pcC>> /\ (UNCHANGED chanVars \/ DrainClose)
    BY <1>7 DEF Drain, DrainBegin, DrainUnsubscribe, DrainClose
  <2> QED
    BY <1>7, <2>1
<1>8. ASSUME NEW c \in Cancellers, CancelBegin(c) \/ Cancel(c) \/ CancelExpire(c)
      PROVE  UNCHANGED <<pcS, chanVars, drain>>
  BY <1>8
  DEF CancelBegin, Cancel, CancelExpire, CancelPublish, CancelScan,
      CancelScanned, CancelDrained, CancelDone, CancelForced
<1>9. CASE UNCHANGED queryVars
  BY <1>9 DEF queryVars
<1> QED
  BY <1>1, <1>2, <1>3, <1>4, <1>5, <1>6, <1>7, <1>8, <1>9 DEF Step

\* Drain goes from the first call to the end, once.
LEMMA DrainOnce ==
  ASSUME [Step]_queryVars
  PROVE  /\ drain = "done" => drain' = "done"
         /\ drain' = "done" => drain = "done" \/ DrainClose
         /\ drain # "idle" => drain' # "idle"
  BY WhoSteps DEF Drain, DrainBegin, DrainUnsubscribe, DrainClose

-----------------------------------------------------------------------------
(* Locks                                                                   *)

Starting == pcS \in {"idle", "lockSub", "subscribe", "publish"}

Returned == pcS \in {"ok", "failed"}

CancellerDrains == \E c \in Cancellers : pcC[c] \in {"drain", "force"}

\* Nothing of the query runs before Start published it, so that a Drain that
\* is under way before Start got so far belongs to a canceller; and nobody drains from inside
\* ProcessResponse before Start returned.
OrderInv ==
    /\ Starting => ~published
    /\ ~published => \A m \in Msgs : fate[m] = "unsent"
    /\ ~published => \A h \in Handlers : pcH[h] = "idle"
    /\ ~published => \A m \in Msgs : mon[m] = "none"
    /\ ~published /\ ~Returned /\ drain \in {"sub", "chan"} => CancellerDrains
    /\ elapsed => Returned
    /\ timer # "none" => Returned
    /\ \A h \in Handlers : pcH[h] \in {"sleep", "drain"} => elapsed

\* Nobody but a canceller is in Drain while Start waits for its second lock,
\* and nobody drains with respondersMutex held before Start is through.
LEMMA OrderInvSafe == OrderInv => OnlyCancelInverts
  BY DEF OrderInv, OnlyCancelInverts, CancellerDrains, Starting, Returned

\* Before the publish only a canceller can begin a drain.
LEMMA EarlyDrainer ==
  OrderInv /\ ~published /\ ~Returned /\ Draining => CancellerDrains
  BY DEF OrderInv, Draining, CancellerDrains

\* Steps that start nothing new.
LEMMA OrderFrame ==
  ASSUME OrderInv, pcS' = pcS, published' = published,
         drain' \in {"sub", "chan"} =>
            published \/ Returned \/ CancellerDrains \/ drain \in {"sub", "chan"},
         CancellerDrains => CancellerDrains' \/ drain' \notin {"sub", "chan"},
         elapsed' = elapsed \/ (elapsed' /\ Returned),
         timer' = timer \/ timer # "none",
         \A m \in Msgs : fate'[m] = fate[m] \/ published,
         \A m \in Msgs : mon'[m] = mon[m] \/ published,
         \A h \in Handlers : pcH'[h] = pcH[h] \/ published,
         \A h \in Handlers : pcH'[h] \in {"sleep", "drain"} =>
            elapsed \/ pcH[h] \in {"sleep", "drain"}
  PROVE  OrderInv'
  BY DEF OrderInv, Starting, Returned

\* Start publishes last, and its timer starts when it returns.
LEMMA OrderStart ==
  ASSUME OrderInv, Start
  PROVE  OrderInv'
<1>1. CASE MarkStarted
  BY <1>1 DEF MarkStarted, OrderInv, CancellerDrains, Starting, Returned
<1>2. CASE ~MarkStarted
  <2>1. /\ UNCHANGED <<fate, mon, pcH, elapsed, timer, drain, pcC>>
        /\ Starting
        /\ \/ published' = published
           \/ pcS' = "mark"
        /\ pcS' \in {"lockSub", "subscribe", "publish", "mark", "failed"}
        /\ pcS' \in {"mark", "failed"} \/ UNCHANGED published
        /\ pcS' = "failed" => UNCHANGED published
    BY <1>2
    DEF Start, StartLockChan, StartLockSub, StartSubscribe, StartPublish, Starting
  <2> QED
    BY <2>1 DEF OrderInv, CancellerDrains, Starting, Returned
<1> QED
  BY <1>1, <1>2

\* A handler runs only on what was published.
LEMMA OrderHandler ==
  ASSUME OrderInv, TypeInv, NEW h \in Handlers, Handler(h)
  PROVE  OrderInv'
<1> USE DEF TypeInv
<1>1. published
  BY DEF Handler, Dispatch, HandlerLock, RejectResponse, ProcessResponse,
         CheckDone, DrainDelay, HandlerDrained, OrderInv
<1>2. UNCHANGED <<startVars, drain, elapsed, timer, pcC>>
  BY DEF Handler, Dispatch, HandlerLock, RejectResponse, ProcessResponse,
         CheckDone, DrainDelay, HandlerDrained
<1>3. \A g \in Handlers : pcH'[g] \in {"sleep", "drain"} =>
          elapsed \/ pcH[g] \in {"sleep", "drain"}
  BY DEF Handler, Dispatch, Route, HandlerLock, RejectResponse, ProcessResponse,
         CheckDone, DrainDelay, HandlerDrained, Processed, QueryTypeOK
<1> QED
  BY <1>1, <1>2, <1>3, OrderFrame DEF CancellerDrains

\* A canceller that drains stays until the drain is over.
LEMMA OrderCancel ==
  ASSUME OrderInv, TypeInv, NEW c \in Cancellers,
         CancelBegin(c) \/ Cancel(c) \/ CancelExpire(c)
  PROVE  OrderInv'
<1> USE DEF TypeInv
<1>1. UNCHANGED <<startVars, drain, elapsed, timer, fate, mon, pcH>>
  BY DEF CancelBegin, Cancel, CancelExpire, CancelPublish, CancelScan,
         CancelScanned, CancelDrained, CancelDone, CancelForced
<1>2. ASSUME NEW d \in Cancellers, pcC[d] \in {"drain", "force"}, drain # "done"
      PROVE  pcC'[d] \in {"drain", "force"}
  BY <1>2
  DEF CancelBegin, Cancel, CancelExpire, CancelPublish, CancelScan,
      CancelScanned, CancelDrained, CancelDone, CancelForced, QueryTypeOK
<1>3. CancellerDrains => CancellerDrains' \/ drain' \notin {"sub", "chan"}
  BY <1>1, <1>2 DEF CancellerDrains
<1> QED
  BY <1>1, <1>3, OrderFrame

\* Every step keeps the invariant.
LEMMA OrderNext ==
  ASSUME OrderInv, TypeInv, [Step]_queryVars
  PROVE  OrderInv'
<1> USE DEF TypeInv
<1>1. ASSUME NEW m \in Msgs, NEW c \in Contents, Publish(m, c) PROVE OrderInv'
  BY <1>1, OrderFrame DEF Publish, CancellerDrains
<1>2. CASE Consumer
  BY <1>2, OrderFrame
  DEF Consumer, Receive, SeeClosed, OrderInv, QueryTypeOK, CancellerDrains
<1>3. ASSUME NEW m \in Msgs, StallMonitor(m) PROVE OrderInv'
  <2>1. published
    BY <1>3
    DEF StallMonitor, MonitorFire, MonitorExit, MarkStalled, MonitorScan,
        MonitorScanned, MonitorDrained, OrderInv
  <2> QED
    BY <1>3, <2>1, OrderFrame
    DEF StallMonitor, MonitorFire, MonitorExit, MarkStalled, MonitorScan,
        MonitorScanned, MonitorDrained, CancellerDrains
<1>4. CASE Timer
  BY <1>4, OrderFrame
  DEF Timer, TimerFire, TimerExit, TimerCheck, TimerDrained, OrderInv,
      CancellerDrains
<1>5. CASE Drain
  <2>1. drain' \in {"sub", "chan"} =>
            published \/ Returned \/ CancellerDrains \/ drain \in {"sub", "chan"}
    BY <1>5, EarlyDrainer
    DEF Drain, DrainBegin, DrainUnsubscribe, DrainClose
  <2>2. \A m \in Msgs : fate'[m] = fate[m] \/ published
    BY <1>5
    DEF Drain, DrainBegin, DrainUnsubscribe, Unsubscribe, DrainClose, OrderInv,
        QueryTypeOK
  <2> QED
    BY <1>5, <2>1, <2>2, OrderFrame
    DEF Drain, DrainBegin, DrainUnsubscribe, DrainClose, CancellerDrains
<1>6. CASE UNCHANGED queryVars
  BY <1>6, OrderFrame DEF queryVars, CancellerDrains
<1> QED
  BY <1>1, <1>2, <1>3, <1>4, <1>5, <1>6, OrderStart, OrderHandler, OrderCancel
  DEF Step

\* Whenever Cancel is called, responders, stall monitors and timeouts respect
\* the order of the three mutexes: only a Cancel that drains before Start
\* returned can invert it (progress.go:378-384, 502, 543-559).
THEOREM LocksSafe == Spec => []OnlyCancelInverts
<1>1. Init => OrderInv
  BY DEF Init, OrderInv, Starting, Returned
<1>2. OrderInv /\ TypeInv /\ [Step]_queryVars => OrderInv'
  BY OrderNext
<1> QED
  BY <1>1, <1>2, OrderInvSafe, TypeInvariant, StepsOnly, PTL DEF Spec

-----------------------------------------------------------------------------
(* Locks, when Cancel is called only after Start returned                   *)

\* Then nothing at all is drained before the publish.
LockInv ==
    /\ OrderInv
    /\ Starting => drain = "idle"
    /\ \A c \in Cancellers : pcC[c] # "idle" => Returned

\* Every step keeps the invariant.
LEMMA LockNext ==
  ASSUME CancelAfterStart, LockInv, TypeInv, [Step]_queryVars
  PROVE  LockInv'
<1>1. OrderInv'
  BY OrderNext DEF LockInv
<1>2. Starting => ~CancellerDrains
  BY DEF LockInv, CancellerDrains, Starting, Returned
<1>3. /\ UNCHANGED pcS \/ Start
      /\ UNCHANGED drain \/ Drain
      /\ UNCHANGED pcC
            \/ \E c \in Cancellers : CancelBegin(c) \/ Cancel(c) \/ CancelExpire(c)
  BY WhoSteps
<1>4. Starting' => Starting /\ UNCHANGED drain
  <2>1. Starting' => Starting
    BY <1>3
    DEF Start, StartLockChan, StartLockSub, StartSubscribe, StartPublish,
        MarkStarted, Starting
  <2>2. Starting => ~Drain
    BY <1>2, EarlyDrainer
    DEF Drain, DrainBegin, DrainUnsubscribe, DrainClose, LockInv, OrderInv,
        Starting, Returned
  <2> QED
    BY <1>3, <2>1, <2>2
<1>5. Returned => Returned'
  BY <1>3
  DEF Start, StartLockChan, StartLockSub, StartSubscribe, StartPublish,
      MarkStarted, Returned
<1>6. ASSUME NEW d \in Cancellers, pcC'[d] # "idle" PROVE Returned
  <2>1. CASE UNCHANGED pcC
    BY <1>6, <2>1 DEF LockInv
  <2>2. ASSUME NEW c \in Cancellers,
               CancelBegin(c) \/ Cancel(c) \/ CancelExpire(c)
        PROVE  Returned
    BY <2>2
    DEF CancelBegin, Cancel, CancelExpire, CancelPublish, CancelScan,
        CancelScanned, CancelDrained, CancelDone, CancelForced, LockInv, Returned
  <2> QED
    BY <1>3, <2>1, <2>2
<1> QED
  BY <1>1, <1>4, <1>5, <1>6 DEF LockInv

-----------------------------------------------------------------------------
(* Cancelled queries are closed                                            *)

ClosedInv ==
    /\ LockInv
    /\ drain = "done" => channelsClosed /\ \A k \in Kinds : chans[k] # "open"
    /\ \A c \in Cancellers : pcC[c] \in {"returned", "forced"} => drain = "done"

\* Only Start opens a channel, and it does so before anybody can drain.
LEMMA ClosedNext ==
  ASSUME CancelAfterStart, ClosedInv, TypeInv, [Step]_queryVars
  PROVE  ClosedInv'
<1> USE DEF TypeInv
<1>1. LockInv'
  BY LockNext DEF ClosedInv
<1>2. drain' = "done" => channelsClosed' /\ \A k \in Kinds : chans'[k] # "open"
  <2>1. CASE StartLockChan
    BY <2>1 DEF StartLockChan, ClosedInv, LockInv, OrderInv, Starting
  <2>2. CASE DrainClose
    BY <2>2 DEF DrainClose, QueryTypeOK
  <2> QED
    BY <2>1, <2>2, WhoSteps, DrainOnce DEF ClosedInv
<1>3. ASSUME NEW c \in Cancellers, pcC'[c] \in {"returned", "forced"}
      PROVE  drain' = "done"
  <2>1. ASSUME NEW d \in Cancellers,
               CancelBegin(d) \/ Cancel(d) \/ CancelExpire(d)
        PROVE  pcC[c] \in {"returned", "forced"} \/ drain = "done"
    BY <1>3, <2>1
    DEF CancelBegin, Cancel, CancelExpire, CancelPublish, CancelScan,
        CancelScanned, CancelDrained, CancelDone, CancelForced, QueryTypeOK
  <2> QED
    BY <1>3, <2>1, WhoSteps, DrainOnce DEF ClosedInv
<1> QED
  BY <1>1, <1>2, <1>3 DEF ClosedInv

\* When Cancel of a started query returns, forced or not, the user's channels
\* are closed for good (progress.go:582-605, 559-573).
THEOREM CancelCloses ==
  ASSUME CancelAfterStart
  PROVE  Spec => []CancelledIsClosed
<1>1. Init => ClosedInv
  BY DEF Init, ClosedInv, LockInv, OrderInv, Starting, Returned
<1>2. ClosedInv /\ TypeInv /\ [Step]_queryVars => ClosedInv'
  BY ClosedNext
<1>3. ClosedInv => CancelledIsClosed
  BY DEF ClosedInv, CancelledIsClosed
<1> QED
  BY <1>1, <1>2, <1>3, TypeInvariant, StepsOnly, PTL DEF Spec

-----------------------------------------------------------------------------
(* No completion is lost                                                   *)

\* The start timeout's goroutine does not give up on a query: it leaves the
\* drain to others only when a responder had answered, and lets them know.
TimerInv ==
    /\ timer = "stopping" => drain # "idle"
    /\ timer \in {"fired", "drain", "done"} => elapsed \/ drain # "idle"
    /\ timer = "done" /\ Known = {} => drain # "idle"

NoticeInv == TimerInv /\ NoLostCompletion

\* Once a drain has begun there is nothing left to notice.
LEMMA NoticeDrained ==
  ASSUME drain' # "idle"
  PROVE  NoticeInv'
  BY DEF NoticeInv, TimerInv, NoLostCompletion

\* Steps of others than the timer that leave the responders alone, and move
\* nobody who was about to notice.
LEMMA NoticeFrame ==
  ASSUME NoticeInv, UNCHANGED <<state, elapsed, drain, cancelled>>,
         timer' = timer \/ timer' = "armed",
         Noticing => Noticing'
  PROVE  NoticeInv'
  BY DEF NoticeInv, TimerInv, NoLostCompletion, AllDone, Known, NoneWorking

\* A responder that has answered stays known.
LEMMA KnownGrows ==
  ASSUME TypeInv, NEW r \in Responders, NEW s \in Sendable \cup {"STALLED"},
         state' = [state EXCEPT ![r] = s]
  PROVE  Known' # {}
  BY DEF TypeInv, QueryTypeOK, Known, Sendable, Terminal

\* A handler tests allDone after it has changed a state, before it unlocks.
LEMMA NoticeHandler ==
  ASSUME NoticeInv, TypeInv, NEW h \in Handlers, Handler(h)
  PROVE  NoticeInv'
<1> USE DEF TypeInv
<1>1. ASSUME NEW m \in Msgs, Dispatch(h, m) PROVE NoticeInv'
  BY <1>1, NoticeFrame DEF Dispatch, Noticing, QueryTypeOK
<1>2. CASE HandlerLock(h) \/ RejectResponse(h)
  BY <1>2, NoticeFrame DEF HandlerLock, RejectResponse, Processed, Noticing, QueryTypeOK
<1>3. CASE ProcessResponse(h)
  <2>1. CASE AlreadyFinished(body[work[h]].from)
    <3>1. /\ UNCHANGED <<state, elapsed, drain, cancelled, timer, pcC>>
          /\ pcH[h] = "respond" /\ pcH' = [pcH EXCEPT ![h] = "idle"]
          /\ mon' = Stopped(body[work[h]].from)
      BY <1>3, <2>1 DEF ProcessResponse, Processed
    <3>2. \A m \in Msgs : mon[m] \in {"scan", "drain"} => mon'[m] = mon[m]
      BY <3>1 DEF Stopped, QueryTypeOK
    <3> QED
      BY <3>1, <3>2, NoticeFrame DEF Noticing, QueryTypeOK
  <2>2. CASE ~AlreadyFinished(body[work[h]].from)
    <3>1. /\ UNCHANGED <<elapsed, drain, cancelled, timer>>
          /\ pcH' = [pcH EXCEPT ![h] = "check"]
          /\ state' = [state EXCEPT ![body[work[h]].from] = body[work[h]].state]
          /\ body[work[h]] \in Response /\ body[work[h]].from # None
      BY <1>3, <2>2 DEF ProcessResponse, QueryTypeOK
    <3>2. Noticing'
      BY <3>1 DEF Noticing, QueryTypeOK
    <3>3. Known' # {}
      BY <3>1, KnownGrows DEF Response
    <3> QED
      BY <3>1, <3>2, <3>3 DEF NoticeInv, TimerInv, NoLostCompletion
  <2> QED
    BY <2>1, <2>2
<1>4. CASE CheckDone(h)
  <2>1. CASE AllDone /\ elapsed
    BY <1>4, <2>1, NoticeFrame DEF CheckDone, Noticing, QueryTypeOK
  <2>2. CASE ~(AllDone /\ elapsed)
    <3>1. UNCHANGED <<state, elapsed, drain, cancelled, timer>>
      BY <1>4 DEF CheckDone
    <3> QED
      BY <2>2, <3>1
      DEF NoticeInv, TimerInv, NoLostCompletion, AllDone, Known, NoneWorking
  <2> QED
    BY <2>1, <2>2
<1>5. CASE DrainDelay(h)
  BY <1>5, NoticeFrame DEF DrainDelay, Noticing, QueryTypeOK
<1>6. CASE HandlerDrained(h)
  BY <1>6, NoticeDrained DEF HandlerDrained
<1> QED
  BY <1>1, <1>2, <1>3, <1>4, <1>5, <1>6 DEF Handler

\* A stall monitor tests allDone after it has marked its responder.
LEMMA NoticeStallMonitor ==
  ASSUME NoticeInv, TypeInv, NEW m \in Msgs, StallMonitor(m)
  PROVE  NoticeInv'
<1> USE DEF TypeInv
<1>1. CASE MonitorFire(m) \/ MonitorExit(m) \/ MonitorScan(m)
  BY <1>1, NoticeFrame DEF MonitorFire, MonitorExit, MonitorScan, Noticing, QueryTypeOK
<1>2. CASE MarkStalled(m)
  <2>1. Noticing'
    BY <1>2 DEF MarkStalled, Noticing, QueryTypeOK
  <2>2. Known = {} \/ Known' # {}
    BY <1>2 DEF MarkStalled, Known, QueryTypeOK
  <2>3. UNCHANGED <<elapsed, drain, cancelled, timer>>
    BY <1>2 DEF MarkStalled
  <2> QED
    BY <2>1, <2>2, <2>3 DEF NoticeInv, TimerInv, NoLostCompletion
<1>3. CASE MonitorScanned(m)
  <2>1. CASE ScanFails(m)
    <3>1. ~NoneWorking /\ UNCHANGED <<state, elapsed, drain, cancelled, timer>>
      BY <1>3, <2>1 DEF MonitorScanned, ScanFails, NoneWorking, QueryTypeOK
    <3> QED
      BY <3>1
      DEF NoticeInv, TimerInv, NoLostCompletion, AllDone, Known, NoneWorking
  <2>2. CASE ~ScanFails(m)
    BY <1>3, <2>2, NoticeFrame DEF MonitorScanned, Noticing, QueryTypeOK
  <2> QED
    BY <2>1, <2>2
<1>4. CASE MonitorDrained(m)
  BY <1>4, NoticeDrained DEF MonitorDrained
<1> QED
  BY <1>1, <1>2, <1>3, <1>4 DEF StallMonitor

\* The start timeout stores elapsed before it tests.
LEMMA NoticeTimer ==
  ASSUME NoticeInv, TypeInv, Timer
  PROVE  NoticeInv'
<1>1. UNCHANGED <<state, drain, cancelled, pcH, mon, pcC>>
  BY DEF Timer, TimerFire, TimerExit, TimerCheck, TimerDrained
<1>2. CASE TimerFire
  BY <1>2 DEF TimerFire, NoticeInv, TimerInv, NoLostCompletion
<1>3. CASE TimerExit \/ TimerDrained
  BY <1>1, <1>3, NoticeDrained DEF TimerExit, TimerDrained, NoticeInv, TimerInv
<1>4. CASE TimerCheck
  BY <1>1, <1>4
  DEF TimerCheck, NoticeInv, TimerInv, NoLostCompletion, AllDone, Known, NoneWorking
<1> QED
  BY <1>2, <1>3, <1>4 DEF Timer

\* A cancellation makes a query done that nobody has answered: then the start
\* timeout, if it is over, has already drained it.
LEMMA NoticeCancel ==
  ASSUME NoticeInv, TypeInv, NEW c \in Cancellers,
         CancelBegin(c) \/ Cancel(c) \/ CancelExpire(c)
  PROVE  NoticeInv'
<1> USE DEF TypeInv
<1>1. CASE CancelBegin(c)
  <2>1. Noticing => Noticing'
    BY <1>1 DEF CancelBegin, Noticing, QueryTypeOK
  <2>2. UNCHANGED <<state, elapsed, drain, timer>>
    BY <1>1 DEF CancelBegin
  <2> QED
    BY <2>1, <2>2
    DEF NoticeInv, TimerInv, NoLostCompletion, AllDone, Known, NoneWorking
<1>2. CASE CancelPublish(c) \/ CancelScan(c) \/ CancelExpire(c)
  BY <1>2, NoticeFrame DEF CancelPublish, CancelScan, CancelExpire, Noticing, QueryTypeOK
<1>3. CASE CancelScanned(c)
  <2>1. CASE ScanFails(c)
    <3>1. ~NoneWorking /\ UNCHANGED <<state, elapsed, drain, cancelled, timer>>
      BY <1>3, <2>1 DEF CancelScanned, ScanFails, NoneWorking, QueryTypeOK
    <3> QED
      BY <3>1
      DEF NoticeInv, TimerInv, NoLostCompletion, AllDone, Known, NoneWorking
  <2>2. CASE ~ScanFails(c)
    BY <1>3, <2>2, NoticeFrame DEF CancelScanned, Noticing, QueryTypeOK
  <2> QED
    BY <2>1, <2>2
<1>4. CASE CancelDrained(c) \/ CancelDone(c) \/ CancelForced(c)
  BY <1>4, NoticeDrained DEF CancelDrained, CancelDone, CancelForced
<1> QED
  BY <1>1, <1>2, <1>3, <1>4 DEF Cancel

\* Every step keeps the invariant.
LEMMA NoticeNext == NoticeInv /\ TypeInv /\ [Step]_queryVars => NoticeInv'
<1> SUFFICES ASSUME NoticeInv, TypeInv, [Step]_queryVars PROVE NoticeInv'
  OBVIOUS
<1>1. CASE Start
  BY <1>1, NoticeFrame
  DEF Start, StartLockChan, StartLockSub, StartSubscribe, StartPublish,
      MarkStarted, Noticing
<1>2. ASSUME NEW m \in Msgs, NEW c \in Contents, Publish(m, c) PROVE NoticeInv'
  BY <1>2, NoticeFrame DEF Publish, Noticing
<1>3. ASSUME NEW h \in Handlers, Handler(h) PROVE NoticeInv'
  BY <1>3, NoticeHandler
<1>4. CASE Consumer
  BY <1>4, NoticeFrame DEF Consumer, Receive, SeeClosed, Noticing, TypeInv, QueryTypeOK
<1>5. ASSUME NEW m \in Msgs, StallMonitor(m) PROVE NoticeInv'
  BY <1>5, NoticeStallMonitor
<1>6. CASE Timer
  BY <1>6, NoticeTimer
<1>7. CASE Drain
  BY <1>7, NoticeDrained DEF Drain, DrainBegin, DrainUnsubscribe, DrainClose
<1>8. ASSUME NEW c \in Cancellers, CancelBegin(c) \/ Cancel(c) \/ CancelExpire(c)
      PROVE  NoticeInv'
  BY <1>8, NoticeCancel
<1>9. CASE UNCHANGED queryVars
  BY <1>9, NoticeFrame DEF queryVars, Noticing
<1> QED
  BY <1>1, <1>2, <1>3, <1>4, <1>5, <1>6, <1>7, <1>8, <1>9 DEF Step

\* Each of ProcessResponse, the start timeout, the stall monitors and
\* AsyncCancel tests allDone once, two of them without a lock; whichever of
\* them comes last sees that the query is done (progress.go:520-530, 634, 749,
\* 941). It needs no assumption on when Cancel is called.
THEOREM CompletionNoticed == Spec => []NoLostCompletion
<1>1. Init => NoticeInv
  BY DEF Init, NoticeInv, TimerInv, NoLostCompletion
<1>2. NoticeInv => NoLostCompletion
  BY DEF NoticeInv
<1> QED
  BY <1>1, <1>2, NoticeNext, TypeInvariant, StepsOnly, PTL DEF Spec

-----------------------------------------------------------------------------
(* Nobody is stuck, when Cancel is called only after Start returned        *)

\* The channels as their reader knows them, and what Start leaves behind.
ReadInv ==
    /\ \A k \in Kinds : k \in open \/ chans[k] = "closed"
    /\ \A k \in Kinds : chans[k] = "unset" <=> pcS = "idle"
    /\ pcS # "ok" => open = Kinds
    /\ pcS = "ok" => timer # "none" /\ published
    /\ pcS = "failed" => ~published
    /\ pcS \in {"idle", "lockSub", "subscribe"} => ~published

\* Steps of others than Start and the reader: none takes the timer back, and
\* channels are only closed.
LEMMA ReadFrame ==
  ASSUME ReadInv, UNCHANGED <<startVars, open>>,
         timer # "none" => timer' # "none",
         \A k \in Kinds :
            \/ chans'[k] = chans[k]
            \/ chans[k] = "open" /\ chans'[k] = "closed"
  PROVE  ReadInv'
  BY DEF ReadInv

\* Every step keeps the invariant.
LEMMA ReadNext == ReadInv /\ TypeInv /\ [Step]_queryVars => ReadInv'
<1> SUFFICES ASSUME ReadInv, TypeInv, [Step]_queryVars PROVE ReadInv'
  OBVIOUS
<1> USE DEF TypeInv
<1>1. CASE Start
  <2>1. CASE StartLockChan
    BY <2>1, ChannelAssumption DEF StartLockChan, ReadInv, Kinds
  <2>2. CASE StartLockSub \/ StartSubscribe \/ StartPublish \/ MarkStarted
    BY <2>2
    DEF StartLockSub, StartSubscribe, StartPublish, MarkStarted, ReadInv
  <2> QED
    BY <1>1, <2>1, <2>2 DEF Start
<1>2. ASSUME NEW m \in Msgs, NEW c \in Contents, Publish(m, c) PROVE ReadInv'
  BY <1>2, ReadFrame DEF Publish
<1>3. ASSUME NEW h \in Handlers, Handler(h) PROVE ReadInv'
  BY <1>3, ReadFrame
  DEF Handler, Dispatch, HandlerLock, RejectResponse, ProcessResponse,
      CheckDone, DrainDelay, HandlerDrained
<1>4. CASE Consumer
  <2>1. ASSUME NEW k \in Kinds, SeeClosed(k) PROVE ReadInv'
    BY <2>1 DEF SeeClosed, ReadInv
  <2> QED
    BY <1>4, <2>1, ReadFrame DEF Consumer, Receive
<1>5. ASSUME NEW m \in Msgs, StallMonitor(m) PROVE ReadInv'
  BY <1>5, ReadFrame
  DEF StallMonitor, MonitorFire, MonitorExit, MarkStalled, MonitorScan,
      MonitorScanned, MonitorDrained
<1>6. CASE Timer
  BY <1>6, ReadFrame DEF Timer, TimerFire, TimerExit, TimerCheck, TimerDrained
<1>7. CASE Drain
  BY <1>7, ReadFrame DEF Drain, DrainBegin, DrainUnsubscribe, DrainClose, QueryTypeOK
<1>8. ASSUME NEW c \in Cancellers,
             CancelBegin(c) \/ Cancel(c) \/ CancelExpire(c)
      PROVE  ReadInv'
  BY <1>8, ReadFrame
  DEF CancelBegin, Cancel, CancelExpire, CancelPublish, CancelScan,
      CancelScanned, CancelDrained, CancelDone, CancelForced
<1>9. CASE UNCHANGED queryVars
  BY <1>9, ReadFrame DEF queryVars
<1> QED
  BY <1>1, <1>2, <1>3, <1>4, <1>5, <1>6, <1>7, <1>8, <1>9 DEF Step

\* What holds together when nobody is to be stuck.
LiveInv ==
    /\ TypeInv /\ SendInv /\ WatchInv /\ ClosedInv /\ NoticeInv /\ ReadInv

\* Start waits only for handlers that check, and they can go on.
LEMMA StartGoesOn == LiveInv => Returned \/ SomebodyCanRun
<1> SUFFICES ASSUME LiveInv, ~Returned, ~SomebodyCanRun PROVE FALSE
  OBVIOUS
<1> USE DEF LiveInv, ClosedInv, SomebodyCanRun, StartCanRun
<1>1. CASE Starting
  BY <1>1
  DEF Starting, LockInv, OrderInv, SubLocked, ChanReaders
<1>2. CASE pcS = "mark"
  <2>1. timer # "drain" /\ \A h \in Handlers : pcH[h] \notin {"sleep", "drain"}
    BY <1>2 DEF LockInv, OrderInv, Returned
  <2>2. \A h \in Handlers : pcH[h] # "check"
    BY DEF HandlerCanRun
  <2> QED
    BY <1>2, <2>1, <2>2 DEF RespondersLocked, HoldsResponders
<1> QED
  BY <1>1, <1>2 DEF TypeInv, QueryTypeOK, Starting, Returned

\* Once Start returned, a send meets the reader or a nil channel.
LEMMA SendsMeetTheirReader ==
  ASSUME LiveInv, Returned, NEW h \in Handlers, pcH[h] = "send"
  PROVE  SomebodyCanRun \/ SendsToNil
<1> DEFINE k == body[work[h]].type
<1>1. k \in Kinds
  BY DEF LiveInv, TypeInv, QueryTypeOK, Payload
<1>2. published
  BY DEF LiveInv, ClosedInv, LockInv, OrderInv
<1>3. pcS = "ok"
  BY <1>2 DEF LiveInv, ReadInv, Returned
<1>4. chans[k] \in {"nil", "open"}
  BY <1>1, <1>3 DEF LiveInv, TypeInv, QueryTypeOK, SendInv, NoSendOnClosed, ReadInv
<1>5. CASE chans[k] = "nil"
  BY <1>5 DEF SendsToNil
<1>6. CASE chans[k] = "open"
  <2>1. k \in open
    BY <1>1, <1>6 DEF LiveInv, ReadInv
  <2> QED
    BY <1>3, <1>6, <2>1 DEF SomebodyCanRun, ConsumerCanRun, ChanReaders
<1> QED
  BY <1>4, <1>5, <1>6

\* Drain then waits for nobody, and those inside it can return when it ends.
LEMMA DrainGoesOn ==
  ASSUME LiveInv, Returned, ~SomebodyCanRun, ~SendsToNil
  PROVE  drain \in {"idle", "done"} /\ ~Draining /\ ~RespondersLocked
<1>1. ChanReaders = {}
  BY SendsMeetTheirReader DEF ChanReaders
<1>2. drain \in {"idle", "done"}
  BY <1>1
  DEF LiveInv, TypeInv, QueryTypeOK, Returned, SomebodyCanRun, DrainCanRun,
      SubLocked, ChanWriter
<1>3. ~Draining
  <2>1. CASE drain = "idle"
    BY <2>1 DEF SomebodyCanRun, DrainCanRun
  <2>2. CASE drain = "done"
    BY <2>2
    DEF SomebodyCanRun, TimerCanRun, HandlerCanRun, MonitorCanRun,
        CancellerCanRun, Draining
  <2> QED
    BY <1>2, <2>1, <2>2
<1>4. ~RespondersLocked
  BY <1>3
  DEF RespondersLocked, HoldsResponders, Draining, SomebodyCanRun, HandlerCanRun
<1> QED
  BY <1>2, <1>3, <1>4

\* A query that nobody can move is over.
LEMMA StuckIsAtRest ==
  ASSUME LiveInv, ~SomebodyCanRun, ~SendsToNil
  PROVE  AtRest
<1>1. Returned
  BY StartGoesOn
<1>2. drain \in {"idle", "done"} /\ ~Draining /\ ~RespondersLocked
  BY <1>1, DrainGoesOn
<1>3. \A h \in Handlers : pcH[h] = "idle"
  <2> SUFFICES ASSUME NEW h \in Handlers, pcH[h] # "idle" PROVE FALSE
    OBVIOUS
  <2>1. pcH[h] # "send"
    BY <1>1, SendsMeetTheirReader
  <2>2. ~ChanWriter
    BY <1>1 DEF Returned, ChanWriter
  <2> QED
    BY <1>2, <2>1, <2>2
    DEF LiveInv, TypeInv, QueryTypeOK, SomebodyCanRun, HandlerCanRun, Draining
<1>4. \A m \in Msgs : mon[m] \in {"none", "done"} /\ fate[m] # "pending"
  <2>1. \A m \in Msgs : mon[m] \in {"none", "done"}
    BY <1>2
    DEF LiveInv, TypeInv, QueryTypeOK, SomebodyCanRun, MonitorCanRun, Draining
  <2>2. PICK h \in Handlers : pcH[h] = "idle"
    BY <1>3, HandlersAssumption
  <2> QED
    BY <2>1, <2>2 DEF SomebodyCanRun, HandlerCanRun
<1>5. timer \in {"none", "done"}
  BY <1>2 DEF LiveInv, TypeInv, QueryTypeOK, SomebodyCanRun, TimerCanRun, Draining
<1>6. \A c \in Cancellers : pcC[c] \in {"idle", "wait", "returned", "forced"}
  BY <1>2
  DEF LiveInv, TypeInv, QueryTypeOK, SomebodyCanRun, CancellerCanRun, Draining
<1>7. ASSUME pcS = "ok"
      PROVE  drain = "done" /\ \A k \in open : chans[k] = "nil"
  <2>1. timer = "done"
    BY <1>5, <1>7 DEF LiveInv, ReadInv
  <2>2. NoneWorking
    <3> SUFFICES ASSUME NEW r \in Responders, state[r] = "WORKING" PROVE FALSE
      BY DEF NoneWorking
    <3>1. current[r] \in Msgs /\ mon[current[r]] \in {"armed", "fired"}
      BY DEF LiveInv, TypeInv, QueryTypeOK, WatchInv, WorkingIsWatched
    <3> QED
      BY <1>4, <3>1
  <2>3. drain # "idle"
    <3>1. ~Noticing
      BY <1>3, <1>4, <1>6 DEF Noticing
    <3> QED
      BY <2>1, <2>2, <3>1 DEF LiveInv, NoticeInv, TimerInv, NoLostCompletion, AllDone
  <2>4. drain = "done"
    BY <1>2, <2>3
  <2>5. ASSUME NEW k \in open PROVE chans[k] = "nil"
    <3>1. k \in Kinds /\ chans[k] # "open" /\ chans[k] # "unset"
      BY <1>7, <2>4 DEF LiveInv, ClosedInv, ReadInv, TypeInv, QueryTypeOK
    <3>2. chans[k] # "closed"
      BY <1>7 DEF SomebodyCanRun, ConsumerCanRun
    <3> QED
      BY <3>1, <3>2 DEF LiveInv, TypeInv, QueryTypeOK
  <2> QED
    BY <2>4, <2>5
<1> QED
  BY <1>1, <1>2, <1>3, <1>4, <1>5, <1>6, <1>7 DEF AtRest, Returned

\* The initial state is good.
LEMMA LiveInit == Init => LiveInv
<1> SUFFICES ASSUME Init PROVE LiveInv
  OBVIOUS
<1>1. TypeInv
  BY TypeInit
<1>2. SendInv /\ WatchInv /\ ClosedInv
  BY DEF Init, SendInv, NoSendOnClosed, WatchInv, FreshMonitor, OwnMonitor,
         WorkingIsWatched, ClosedInv, LockInv, OrderInv, Starting, Returned
<1>3. NoticeInv /\ ReadInv
  BY DEF Init, NoticeInv, TimerInv, NoLostCompletion, ReadInv
<1> QED
  BY <1>1, <1>2, <1>3 DEF LiveInv

\* Every step keeps the parts of the invariant.
LEMMA LiveNext ==
  ASSUME CancelAfterStart, LiveInv, [Step]_queryVars
  PROVE  LiveInv'
  BY TypeNext, SendNext, WatchNext, ClosedNext, NoticeNext, ReadNext DEF LiveInv

\* In a program that reads its channels and cancels only queries it has
\* started, no mutex, sync.Once or channel of a query ever stops everybody:
\* somebody can go on, or the query is over and its channels are closed, or a
\* handler sends to an error channel that was nil from the start
\* (progress.go:378-384, 402-465, 502-530, 543-575, 704-763).
THEOREM NobodyIsStuck ==
  ASSUME CancelAfterStart
  PROVE  Spec => []NeverStuck
<1>1. LiveInv /\ [Step]_queryVars => LiveInv'
  BY LiveNext
<1>2. LiveInv => NeverStuck
  BY StuckIsAtRest DEF NeverStuck
<1> QED
  BY <1>1, <1>2, LiveInit, StepsOnly, PTL DEF Spec

-----------------------------------------------------------------------------
(* A query implements QueryContract, when Cancel is called only after Start *)
(* returned                                                                *)

\* A stall monitor belongs to a responder that announced another response.
AnnouncedInv ==
    \A m \in Msgs : mon[m] # "none" =>
        body[m].from \in Responders /\ current[body[m].from] # None

ContractInv == LiveInv /\ AnnouncedInv

\* Steps that start no monitor.
LEMMA AnnouncedFrame ==
  ASSUME AnnouncedInv, UNCHANGED <<body, current>>,
         \A m \in Msgs : mon'[m] # "none" => mon[m] # "none"
  PROVE  AnnouncedInv'
  BY DEF AnnouncedInv

\* Only ProcessResponse starts one, and it records it as the current one.
LEMMA AnnouncedNext == AnnouncedInv /\ TypeInv /\ WatchInv /\ [Step]_queryVars => AnnouncedInv'
<1> SUFFICES ASSUME AnnouncedInv, TypeInv, WatchInv, [Step]_queryVars PROVE AnnouncedInv'
  OBVIOUS
<1> USE DEF TypeInv
<1>1. CASE Start
  BY <1>1, AnnouncedFrame
  DEF Start, StartLockChan, StartLockSub, StartSubscribe, StartPublish, MarkStarted
<1>2. ASSUME NEW m \in Msgs, NEW c \in Contents, Publish(m, c) PROVE AnnouncedInv'
  BY <1>2 DEF Publish, AnnouncedInv, WatchInv, FreshMonitor, QueryTypeOK
<1>3. ASSUME NEW h \in Handlers, Handler(h) PROVE AnnouncedInv'
  <2>1. CASE ProcessResponse(h)
    <3> DEFINE m == work[h]
               r == body[m].from
    <3>1. m \in Msgs /\ r \in Responders /\ mon[m] = "none"
      BY <2>1
      DEF ProcessResponse, QueryTypeOK, Response, WatchInv, FreshMonitor
    <3>2. /\ Stopped(r) \in MonitorTypes
          /\ \A n \in Msgs : Stopped(r)[n] # "none" => mon[n] # "none"
      BY <3>1 DEF Stopped, QueryTypeOK, MonitorTypes, WatchInv, OwnMonitor
    <3>3. /\ UNCHANGED body
          /\ \/ mon' = Stopped(r) /\ UNCHANGED current
             \/ /\ mon' = [Stopped(r) EXCEPT ![m] = "armed"]
                /\ current' = [current EXCEPT ![r] = m]
      BY <2>1 DEF ProcessResponse
    <3>4. CASE UNCHANGED current
      BY <3>1, <3>2, <3>3, <3>4, AnnouncedFrame, NoneAssumption DEF QueryTypeOK, AnnouncedInv, MonitorTypes
    <3>5. CASE current' = [current EXCEPT ![r] = m] /\ mon' = [Stopped(r) EXCEPT ![m] = "armed"]
      BY <3>1, <3>2, <3>3, <3>5, NoneAssumption DEF QueryTypeOK, AnnouncedInv, MonitorTypes
    <3> QED
      BY <3>2, <3>3, <3>4, <3>5, AnnouncedFrame
  <2> QED
    BY <1>3, <2>1, AnnouncedFrame
    DEF Handler, Dispatch, HandlerLock, RejectResponse, CheckDone, DrainDelay,
        HandlerDrained
<1>4. CASE Consumer
  BY <1>4, AnnouncedFrame DEF Consumer, Receive, SeeClosed
<1>5. ASSUME NEW m \in Msgs, StallMonitor(m) PROVE AnnouncedInv'
  BY <1>5, AnnouncedFrame
  DEF StallMonitor, MonitorFire, MonitorExit, MarkStalled, MonitorScan,
      MonitorScanned, MonitorDrained, QueryTypeOK
<1>6. CASE Timer
  BY <1>6, AnnouncedFrame DEF Timer, TimerFire, TimerExit, TimerCheck, TimerDrained
<1>7. CASE Drain
  BY <1>7, AnnouncedFrame DEF Drain, DrainBegin, DrainUnsubscribe, DrainClose
<1>8. ASSUME NEW c \in Cancellers, CancelBegin(c) \/ Cancel(c) \/ CancelExpire(c)
      PROVE  AnnouncedInv'
  BY <1>8, AnnouncedFrame
  DEF CancelBegin, Cancel, CancelExpire, CancelPublish, CancelScan,
      CancelScanned, CancelDrained, CancelDone, CancelForced
<1>9. CASE UNCHANGED queryVars
  BY <1>9, AnnouncedFrame DEF queryVars
<1> QED
  BY <1>1, <1>2, <1>3, <1>4, <1>5, <1>6, <1>7, <1>8, <1>9 DEF Step

\* Steps the user does not see.
LEMMA UnseenStep ==
  ASSUME UNCHANGED <<chans, open, state, current>>,
         \A m \in Msgs : fate'[m] = "received" <=> fate[m] = "received",
         \A m \in Msgs : fate[m] = "received" => body'[m] = body[m],
         \A c \in Cancellers :
            pcC'[c] \in {"returned", "forced"} <=> pcC[c] \in {"returned", "forced"}
  PROVE  UNCHANGED Contract!vars
<1>1. UNCHANGED Delivered
  BY DEF Delivered
<1>2. UNCHANGED <<Announced, Told>>
  BY DEF Announced, Told
<1> QED
  BY <1>1, <1>2 DEF Contract!vars

\* Start gives the channels while nobody was told that the query is over.
LEMMA SeenStart ==
  ASSUME ContractInv, Start
  PROVE  [Contract!Next]_(Contract!vars)
<1> USE DEF ContractInv, LiveInv, TypeInv
<1>1. CASE StartLockChan
  <2>1. /\ \A k \in Kinds : chans[k] = "unset"
        /\ chans' \in [Kinds -> {"open", "nil"}]
        /\ chans'["item"] = "open" /\ "item" \in Kinds
    BY <1>1, ChannelAssumption DEF StartLockChan, ReadInv, Kinds
  <2>2. Told = {}
    BY <1>1 DEF StartLockChan, ClosedInv, LockInv, OrderInv, Returned, Told
  <2>3. UNCHANGED <<open, state, Delivered, Announced, Told>>
    BY <1>1 DEF StartLockChan, Delivered, Announced, Told
  <2> QED
    BY <2>1, <2>2, <2>3 DEF Contract!Next, Contract!Open
<1>2. CASE StartLockSub \/ StartSubscribe \/ StartPublish \/ MarkStarted
  BY <1>2, UnseenStep
  DEF StartLockSub, StartSubscribe, StartPublish, MarkStarted
<1> QED
  BY <1>1, <1>2 DEF Start

\* What the reader receives comes from the hands of one handler.
LEMMA SeenConsumer ==
  ASSUME ContractInv, Consumer
  PROVE  [Contract!Next]_(Contract!vars)
<1> USE DEF ContractInv, LiveInv, TypeInv
<1>1. ASSUME NEW h \in Handlers, Receive(h) PROVE Contract!Next
  <2> DEFINE m == work[h]
             k == body[m].type
  <2>1. m \in Msgs /\ k \in Kinds /\ fate[m] = "handling"
    BY <1>1 DEF Receive, QueryTypeOK, Payload
  <2>2. fate' = [fate EXCEPT ![m] = "received"] /\ UNCHANGED body
    BY <1>1 DEF Receive
  <2>3. \A got \in Delivered : got.msg # m
    BY <2>1 DEF Delivered
  <2>4. Delivered' = Delivered \cup {[kind |-> k, msg |-> m]}
    <3>1. {n \in Msgs : fate'[n] = "received"} = {n \in Msgs : fate[n] = "received"} \cup {m}
      BY <2>1, <2>2 DEF QueryTypeOK
    <3> QED
      BY <2>2, <3>1 DEF Delivered
  <2>5. UNCHANGED <<chans, open, state, Announced, Told>>
    BY <1>1 DEF Receive, Announced, Told
  <2>6. chans[k] = "open" /\ k \in open
    BY <1>1 DEF Receive
  <2>7. Contract!Deliver(k, m)
    BY <2>3, <2>4, <2>5, <2>6 DEF Contract!Deliver
  <2> QED
    BY <2>1, <2>7 DEF Contract!Next
<1>2. ASSUME NEW k \in Kinds, SeeClosed(k) PROVE Contract!Next
  <2>1. UNCHANGED <<Delivered, Announced, Told>>
    BY <1>2 DEF SeeClosed, Delivered, Announced, Told
  <2> QED
    BY <1>2, <2>1 DEF SeeClosed, Contract!Next, Contract!StopReading
<1> QED
  BY <1>1, <1>2 DEF Consumer

\* A response is a report unless the responder had finished.
LEMMA SeenHandler ==
  ASSUME ContractInv, NEW h \in Handlers, Handler(h)
  PROVE  [Contract!Next]_(Contract!vars)
<1> USE DEF ContractInv, LiveInv, TypeInv
<1>1. CASE ProcessResponse(h)
  <2> DEFINE m == work[h]
             r == body[m].from
             s == body[m].state
  <2>1. /\ m \in Msgs /\ fate[m] = "handling"
        /\ r \in Responders /\ s \in Terminal \cup {"WORKING"}
    BY <1>1 DEF ProcessResponse, QueryTypeOK, Response, Sendable
  <2>2. CASE AlreadyFinished(r)
    BY <1>1, <2>1, <2>2, UnseenStep DEF ProcessResponse, Processed, QueryTypeOK
  <2>3. CASE ~AlreadyFinished(r)
    <3> DEFINE more == expectFollowUp(body[m])
    <3>1. /\ state[r] \notin Terminal
          /\ state' = [state EXCEPT ![r] = s]
          /\ current' = IF more THEN [current EXCEPT ![r] = m] ELSE current
          /\ UNCHANGED <<chans, open, fate, body, pcC>>
      BY <1>1, <2>3 DEF ProcessResponse, AlreadyFinished
    <3>2. more \in BOOLEAN
      BY <2>1, <1>1 DEF expectFollowUp, ProcessResponse, QueryTypeOK, Response
    <3>3. Announced' = IF more THEN Announced \cup {r} ELSE Announced
      BY <2>1, <3>1, <3>2, NoneAssumption DEF Announced, QueryTypeOK
    <3>4. UNCHANGED <<Delivered, Told>>
      BY <3>1 DEF Delivered, Told
    <3>5. Contract!Report(r)
      BY <2>1, <3>1, <3>3, <3>4 DEF Contract!Report
    <3> QED
      BY <2>1, <3>5 DEF Contract!Next
  <2> QED
    BY <2>2, <2>3
<1>2. ASSUME NEW m \in Msgs, Dispatch(h, m) PROVE UNCHANGED Contract!vars
  BY <1>2, UnseenStep DEF Dispatch, QueryTypeOK
<1>3. CASE HandlerLock(h) \/ RejectResponse(h) \/ CheckDone(h) \/ DrainDelay(h)
           \/ HandlerDrained(h)
  <2>1. fate[work[h]] = "handling" /\ work[h] \in Msgs
    BY <1>3
    DEF HandlerLock, RejectResponse, CheckDone, DrainDelay, HandlerDrained, QueryTypeOK
  <2>2. /\ UNCHANGED <<chans, open, state, current, body, pcC>>
        /\ \/ UNCHANGED fate
           \/ fate' = [fate EXCEPT ![work[h]] = "dropped"]
           \/ fate' = [fate EXCEPT ![work[h]] = "processed"]
    BY <1>3
    DEF HandlerLock, RejectResponse, CheckDone, DrainDelay, HandlerDrained, Processed
  <2> QED
    BY <2>1, <2>2, UnseenStep DEF QueryTypeOK
<1> QED
  BY <1>1, <1>2, <1>3 DEF Handler

\* A stall monitor that fires tells of a report that was announced.
LEMMA SeenStallMonitor ==
  ASSUME ContractInv, NEW m \in Msgs, StallMonitor(m)
  PROVE  [Contract!Next]_(Contract!vars)
<1>1. CASE MarkStalled(m)
  <2> DEFINE r == body[m].from
  <2>1. r \in Announced /\ r \in Responders
    BY <1>1 DEF MarkStalled, ContractInv, AnnouncedInv, Announced
  <2>2. /\ state' = [state EXCEPT ![r] = "STALLED"]
        /\ UNCHANGED <<chans, open, Delivered, Announced, Told>>
    BY <1>1 DEF MarkStalled, Delivered, Announced, Told
  <2>3. Contract!Miss(r)
    BY <2>1, <2>2 DEF Contract!Miss
  <2> QED
    BY <2>1, <2>3 DEF Contract!Next
<1>2. CASE MonitorFire(m) \/ MonitorExit(m) \/ MonitorScan(m)
           \/ MonitorScanned(m) \/ MonitorDrained(m)
  BY <1>2, UnseenStep
  DEF MonitorFire, MonitorExit, MonitorScan, MonitorScanned, MonitorDrained
<1> QED
  BY <1>1, <1>2 DEF StallMonitor

\* Drain closes the channels that are open, all of them at once.
LEMMA SeenDrain ==
  ASSUME ContractInv, Drain
  PROVE  [Contract!Next]_(Contract!vars)
<1>1. CASE DrainClose
  <2>1. UNCHANGED <<open, state, Delivered, Announced, Told>>
    BY <1>1 DEF DrainClose, Delivered, Announced, Told
  <2>2. CASE \E k \in Kinds : chans[k] = "open"
    BY <1>1, <2>1, <2>2 DEF DrainClose, Contract!Next, Contract!Close
  <2>3. CASE ~\E k \in Kinds : chans[k] = "open"
    <3>1. UNCHANGED chans
      BY <1>1, <2>3 DEF DrainClose, ContractInv, LiveInv, TypeInv, QueryTypeOK
    <3> QED
      BY <2>1, <3>1 DEF Contract!vars
  <2> QED
    BY <2>2, <2>3
<1>2. CASE DrainBegin
  BY <1>2, UnseenStep DEF DrainBegin
<1>3. CASE DrainUnsubscribe
  <2>1. \A m \in Msgs : fate'[m] = "received" <=> fate[m] = "received"
    BY <1>3 DEF DrainUnsubscribe, Unsubscribe
  <2> QED
    BY <1>3, <2>1, UnseenStep DEF DrainUnsubscribe
<1> QED
  BY <1>1, <1>2, <1>3 DEF Drain

\* Cancel returns when the drain is done.
LEMMA SeenCancel ==
  ASSUME ContractInv, NEW c \in Cancellers,
         CancelBegin(c) \/ Cancel(c) \/ CancelExpire(c)
  PROVE  [Contract!Next]_(Contract!vars)
<1> USE DEF ContractInv, LiveInv, TypeInv
<1>1. CASE CancelDone(c) \/ CancelForced(c)
  <2>1. /\ drain = "done"
        /\ \/ pcC' = [pcC EXCEPT ![c] = "returned"]
           \/ pcC' = [pcC EXCEPT ![c] = "forced"]
        /\ UNCHANGED <<chans, open, state, Delivered, Announced>>
    BY <1>1 DEF CancelDone, CancelForced, Delivered, Announced
  <2>2. Told' = Told \cup {c}
    BY <2>1 DEF Told, QueryTypeOK
  <2>3. pcS # "idle"
    BY <1>1 DEF CancelDone, CancelForced, ClosedInv, LockInv, OrderInv, Returned
  <2>4. \A k \in Kinds : chans[k] \in {"closed", "nil"}
    BY <2>1, <2>3 DEF ClosedInv, ReadInv, QueryTypeOK
  <2>5. Contract!Return(c)
    BY <2>1, <2>2, <2>4 DEF Contract!Return
  <2> QED
    BY <2>5 DEF Contract!Next
<1>2. CASE CancelBegin(c) \/ CancelPublish(c) \/ CancelScan(c) \/ CancelScanned(c)
           \/ CancelDrained(c) \/ CancelExpire(c)
  <2>1. /\ UNCHANGED <<chans, open, state, current, fate, body>>
        /\ \A d \in Cancellers :
              pcC'[d] \in {"returned", "forced"} <=> pcC[d] \in {"returned", "forced"}
    BY <1>2
    DEF CancelBegin, CancelPublish, CancelScan, CancelScanned, CancelDrained,
        CancelExpire, QueryTypeOK
  <2> QED
    BY <2>1, UnseenStep
<1> QED
  BY <1>1, <1>2 DEF Cancel

\* Every step of a query is one of its contract, or the user does not see it.
LEMMA SeenNext ==
  ASSUME ContractInv, [Step]_queryVars
  PROVE  [Contract!Next]_(Contract!vars)
<1>1. ASSUME NEW m \in Msgs, NEW c \in Contents, Publish(m, c)
      PROVE  UNCHANGED Contract!vars
  BY <1>1, UnseenStep DEF Publish, ContractInv, LiveInv, TypeInv, QueryTypeOK
<1>2. CASE Timer
  BY <1>2, UnseenStep DEF Timer, TimerFire, TimerExit, TimerCheck, TimerDrained
<1>3. CASE UNCHANGED queryVars
  BY <1>3, UnseenStep DEF queryVars
<1> QED
  BY <1>1, <1>2, <1>3, SeenStart, SeenConsumer, SeenHandler, SeenStallMonitor,
     SeenDrain, SeenCancel DEF Step

\* Whatever responders, timeouts and cancellers do, the user of a query sees
\* what QueryContract promises (progress.go:345-380, 402-467, 537-605, 692-743,
\* 922-947).
THEOREM ImplementsContract ==
  ASSUME CancelAfterStart
  PROVE  Spec => KeepsContract
<1>1. Init => ContractInv
  BY LiveInit DEF Init, ContractInv, AnnouncedInv
<1>2. ContractInv /\ [Step]_queryVars => ContractInv'
  BY LiveNext, AnnouncedNext DEF ContractInv, LiveInv
<1>3. Init => Contract!Init
  <2> SUFFICES ASSUME Init PROVE Contract!Init
    OBVIOUS
  <2>1. Delivered = {} /\ Announced = {} /\ Told = {}
    BY DEF Init, Delivered, Announced, Told
  <2> QED
    BY <2>1 DEF Init, Contract!Init
<1>4. ContractInv /\ [Step]_queryVars => [Contract!Next]_(Contract!vars)
  BY SeenNext
<1> QED
  BY <1>1, <1>2, <1>3, <1>4, StepsOnly, PTL DEF Spec, KeepsContract, Contract!Spec

-----------------------------------------------------------------------------
(* Finished responders                                                     *)

\* Responses that arrive out of order do not revive a responder: only a stale
\* stall monitor still changes a final state (progress.go:712-718, 938).
THEOREM FinishedStay == Spec => FinishedStays
<1> DEFINE A == \A r \in Responders :
                  state[r] \in Terminal => state'[r] \in {state[r], "STALLED"}
<1>1. TypeInv /\ [Step]_queryVars => [A]_vars
  <2> SUFFICES ASSUME TypeInv, [Step]_queryVars PROVE A
    OBVIOUS
  <2> USE DEF TypeInv
  <2>1. ASSUME NEW h \in Handlers, Handler(h) PROVE A
    <3>1. CASE ProcessResponse(h)
      BY <3>1 DEF ProcessResponse, AlreadyFinished, QueryTypeOK
    <3> QED
      BY <2>1, <3>1
      DEF Handler, Dispatch, HandlerLock, RejectResponse, CheckDone,
          DrainDelay, HandlerDrained
  <2>2. ASSUME NEW m \in Msgs, StallMonitor(m) PROVE A
    <3>1. CASE MarkStalled(m)
      BY <3>1 DEF MarkStalled, QueryTypeOK
    <3> QED
      BY <2>2, <3>1
      DEF StallMonitor, MonitorFire, MonitorExit, MonitorScan, MonitorScanned,
          MonitorDrained
  <2>3. CASE Start \/ Consumer \/ Timer \/ Drain
    BY <2>3
    DEF Start, StartLockChan, StartLockSub, StartSubscribe, StartPublish,
        MarkStarted, Consumer, Receive, SeeClosed, Timer, TimerFire, TimerExit,
        TimerCheck, TimerDrained, Drain, DrainBegin, DrainUnsubscribe, DrainClose
  <2>4. ASSUME NEW m \in Msgs, NEW c \in Contents, Publish(m, c) PROVE A
    BY <2>4 DEF Publish
  <2>5. ASSUME NEW c \in Cancellers, CancelBegin(c) \/ Cancel(c) \/ CancelExpire(c)
        PROVE  A
    BY <2>5
    DEF CancelBegin, Cancel, CancelExpire, CancelPublish, CancelScan,
        CancelScanned, CancelDrained, CancelDone, CancelForced
  <2>6. CASE UNCHANGED queryVars
    BY <2>6 DEF queryVars
  <2> QED
    BY <2>1, <2>2, <2>3, <2>4, <2>5, <2>6 DEF Step
<1>2. Spec => [][A]_vars
  BY <1>1, TypeInvariant, StepsOnly, PTL DEF Spec
<1> QED
  BY <1>2 DEF FinishedStays

=============================================================================
