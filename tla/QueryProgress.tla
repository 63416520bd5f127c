--------------------------- MODULE QueryProgress ---------------------------
(***************************************************************************)
(* The life of one query, as progress.go drives it on the requesting side. *)
(*                                                                         *)
(* Goroutines: the caller of Start/Execute, the NATS callback goroutines   *)
(* ("handlers"), one stall monitor per response that promises another one, *)
(* the start-timeout goroutine ("timer"), the callers of Cancel, and        *)
(* whichever of them won the sync.Once of Drain.                            *)
(*                                                                         *)
(* A mutex is not a variable here: a goroutine holds it exactly while its   *)
(* program counter is inside the critical section, so the lock operators    *)
(* below (ChanWriter, HoldsResponders, ...) are read off the counters.      *)
(*                                                                         *)
(* Time is abstracted: a timeout may elapse at any moment after it is       *)
(* armed. A message has an identity from Msgs; the stall monitor that the   *)
(* message starts is known by the same identity.                            *)
(*                                                                         *)
(* Two things end the whole process (action Abort), and with it every       *)
(* goroutine of the query: the Go runtime, when it catches an unlocked      *)
(* allDone reading the map of responders while ProcessResponse inserts one, *)
(* and the panic of the callback on a response of an unknown type.          *)
(***************************************************************************)
EXTENDS FiniteSets

CONSTANTS
    Responders,        \* the UUIDs responders answer with
    Handlers,          \* callback goroutines: one for a NATS subscription,
                       \*   several for TestConnection
    Cancellers,        \* concurrent callers of Cancel
    Msgs,              \* QueryResponse messages: bounds how many are sent
    Contents,          \* what a QueryResponse may carry
    ErrorChannel,      \* "open", or "nil" when Start is given no error channel
    CancelAfterStart,  \* TRUE: the program calls Cancel only after Start returned
    None               \* no responder / no monitor

Kinds == {"item", "error"}

Terminal == {"COMPLETE", "ERROR", "CANCELLED"}

Sendable == Terminal \cup {"WORKING"}

Payload == [type : Kinds]
Response == [type : {"response"}, from : Responders \cup {None},
             state : Sendable, next : BOOLEAN]
Unknown == [type : {"unknown"}]  \* a QueryResponse with no known response type

ASSUME ContentsAssumption == Contents \subseteq Payload \cup Response \cup Unknown

ASSUME HandlersAssumption == Handlers # {}

ASSUME NoneAssumption == None \notin Responders \cup Msgs

ASSUME ChannelAssumption == ErrorChannel \in {"open", "nil"}

ASSUME CancelAssumption == CancelAfterStart \in BOOLEAN

\* A responder that says it is working also says when it will report again,
\* as ResponseSender does with NextUpdateIn on every WORKING response.
ASSUME WorkingPromisesNext ==
    \A c \in Contents : c.type = "response" /\ c.state = "WORKING" => c.next

VARIABLES
    pcS,            \* where the caller of Start is
    published,      \* the query was published to the request subject
    chans,          \* the user's channels, as the close() calls left them
    channelsClosed, \* qp.channelsClosed
    sub,            \* the NATS subscription qp.querySub
    fate,           \* what became of each message
    body,           \* what each sent message carries
    pcH,            \* where each handler is
    work,           \* the message each handler works on
    state,          \* lastState per responder, "NONE" before it is known
    current,        \* the monitor each responder's monitorCancel stops
    mon,            \* each stall monitor
    todo,           \* responders a lock-free allDone has still to read
    timer,          \* the start-timeout goroutine
    elapsed,        \* qp.StartTimeoutElapsed
    drain,          \* the sync.Once of Drain and how far its body is
    cancelled,      \* qp.cancelled
    pcC,            \* where each canceller is
    open,           \* channels the loop of Execute still receives from
    aborted         \* the process was aborted: no goroutine runs any more

startVars == <<pcS, published>>
chanVars  == <<chans, channelsClosed>>
msgVars   == <<sub, fate, body>>
hVars     == <<pcH, work>>
respVars  == <<state, current, mon, todo>>
timerVars == <<timer, elapsed>>
cVars     == <<cancelled, pcC>>

queryVars == <<startVars, chanVars, msgVars, hVars, respVars, timerVars, drain,
               cVars, open>>

vars == <<queryVars, aborted>>


\* What the steps of each kind of goroutine leave alone.
aroundStart   == <<chanVars, msgVars, hVars, respVars, drain, cVars, open,
                   elapsed>>
aroundHandler == <<startVars, chanVars, sub, body, timerVars, drain, cVars,
                   open, todo>>
aroundMonitor == <<startVars, chanVars, msgVars, hVars, timerVars, drain,
                   cVars, open, current>>
aroundTimer   == <<startVars, chanVars, msgVars, hVars, respVars, drain,
                   cVars, open>>
aroundDrain   == <<startVars, body, hVars, respVars, elapsed, cVars, open>>
aroundCancel  == <<startVars, chanVars, msgVars, hVars, state, current, mon,
                   timerVars, drain, open>>

-----------------------------------------------------------------------------
(* Reading the locks off the program counters.                             *)

\* Start locks chanMutex before subMutex and unlocks both when it returns.
ChanWriter == pcS \in {"lockSub", "subscribe", "publish", "mark"}

\* Mutant: the error handler sends without the lock.
ItemReaders == {h \in Handlers : pcH[h] = "send" /\ body[work[h]].type = "item"}

\* Item and error handlers hold chanMutex for reading while they send.
ChanReaders == {h \in Handlers : pcH[h] = "send"}

\* subMutex: Start from Subscribe to its return, Drain from the unsubscribe
\* to the closing of the channels.
SubLocked == pcS \in {"subscribe", "publish", "mark"} \/ drain = "chan"

\* Mutant: ProcessResponse unlocks before it sleeps and drains.
HoldsRespondersBriefly(h) == pcH[h] = "check"

\* ProcessResponse holds respondersMutex through DrainDelay and Drain.
HoldsResponders(h) == pcH[h] \in {"check", "sleep", "drain"}

\* The start-timeout goroutine holds it for reading while it drains.
RespondersLocked == timer = "drain" \/ \E h \in Handlers : HoldsResponders(h)

-----------------------------------------------------------------------------
Known == {r \in Responders : state[r] # "NONE"}

NoneWorking == \A r \in Responders : state[r] # "WORKING"

\* allDone as read under respondersMutex.
AllDone == (Known # {} \/ cancelled) /\ NoneWorking

\* The goroutines that are inside a call of Drain.
Draining ==
    \/ timer = "drain"
    \/ \E h \in Handlers : pcH[h] = "drain"
    \/ \E m \in Msgs : mon[m] = "drain"
    \/ \E c \in Cancellers : pcC[c] \in {"drain", "force"}

Init ==
    /\ pcS = "idle"
    /\ published = FALSE
    /\ chans = [k \in Kinds |-> "unset"]
    /\ channelsClosed = FALSE
    /\ sub = "none"
    /\ fate = [m \in Msgs |-> "unsent"]
    /\ body = [m \in Msgs |-> None]
    /\ pcH = [h \in Handlers |-> "idle"]
    /\ work = [h \in Handlers |-> None]
    /\ state = [r \in Responders |-> "NONE"]
    /\ current = [r \in Responders |-> None]
    /\ mon = [m \in Msgs |-> "none"]
    /\ todo = [t \in Msgs \cup Cancellers |-> {}]
    /\ timer = "none"
    /\ elapsed = FALSE
    /\ drain = "idle"
    /\ cancelled = FALSE
    /\ pcC = [c \in Cancellers |-> "idle"]
    /\ open = Kinds
    /\ aborted = FALSE

-----------------------------------------------------------------------------
(* Start and markStarted                                                    *)

\* chanMutex.Lock and the two channel assignments. Drain holds chanMutex only
\* within DrainClose, so no other writer can be in the way. The errors Start
\* returns before it locks (a second Start, no connection, no item channel, no
\* scope) leave everything as it was: then Start stays where it is.
StartLockChan ==
    /\ pcS = "idle"
    /\ ChanReaders = {}
    /\ pcS' = "lockSub"
    /\ chans' = [item |-> "open", error |-> ErrorChannel]
    /\ UNCHANGED <<published, channelsClosed, msgVars, hVars, respVars,
                   timerVars, drain, cVars, open>>

StartLockSub ==
    /\ pcS = "lockSub"
    /\ ~SubLocked
    /\ pcS' = "subscribe"
    /\ UNCHANGED <<aroundStart, published, timer>>

\* ec.Subscribe; on an error Start returns and unlocks.
StartSubscribe ==
    /\ pcS = "subscribe"
    /\ \/ pcS' = "publish" /\ sub' = "active"
       \/ pcS' = "failed"  /\ UNCHANGED sub
    /\ UNCHANGED <<published, chanVars, fate, body, hVars, respVars,
                   timerVars, drain, cVars, open>>

StartPublish ==
    /\ pcS = "publish"
    /\ published' \in BOOLEAN
    /\ pcS' = "mark"
    /\ UNCHANGED <<aroundStart, timer>>

\* markStarted runs whether or not the publish failed; then Start returns.
MarkStarted ==
    /\ pcS = "mark"
    /\ ~RespondersLocked
    /\ timer' = "armed"
    /\ pcS' = IF published THEN "ok" ELSE "failed"
    /\ UNCHANGED <<aroundStart, published>>

Start == StartLockChan \/ StartLockSub \/ StartSubscribe \/ StartPublish
         \/ MarkStarted

-----------------------------------------------------------------------------
(* The network and the subscription                                        *)

\* A responder publishes to the query subject: the message reaches the
\* subscription if it is still active.
Publish(m, c) ==
    /\ published
    /\ fate[m] = "unsent"
    /\ fate' = [fate EXCEPT ![m] = IF sub = "active" THEN "pending" ELSE "discarded"]
    /\ body' = [body EXCEPT ![m] = c]
    /\ UNCHANGED <<startVars, chanVars, sub, hVars, respVars, timerVars,
                   drain, cVars, open>>

\* Mutant: an error falls through to the case of a response.
RouteErrorsAside(c) == IF c.type = "item" THEN "rlock" ELSE "respond"

\* The type switch of the callback.
Route(c) == IF c.type = "response" THEN "respond" ELSE "rlock"

\* The subscription gives a message to a free callback goroutine. Messages
\* of different responders arrive in any order. The default case of the switch
\* panics: see Abort.
Dispatch(h, m) ==
    /\ pcH[h] = "idle"
    /\ fate[m] = "pending"
    /\ body[m] \notin Unknown
    /\ fate' = [fate EXCEPT ![m] = "handling"]
    /\ work' = [work EXCEPT ![h] = m]
    /\ pcH' = [pcH EXCEPT ![h] = Route(body[m])]
    /\ UNCHANGED <<aroundHandler, state, current, mon>>

-----------------------------------------------------------------------------
(* itemHandler and errorHandler                                            *)

\* chanMutex.RLock and the channelsClosed test. A sync.RWMutex admits no new
\* reader while a writer waits, hence drain # "chan".
HandlerLock(h) ==
    /\ pcH[h] = "rlock"
    /\ ~ChanWriter
    /\ drain # "chan"
    /\ IF channelsClosed
       THEN /\ pcH' = [pcH EXCEPT ![h] = "idle"]
            /\ work' = [work EXCEPT ![h] = None]
            /\ fate' = [fate EXCEPT ![work[h]] = "dropped"]
       ELSE /\ pcH' = [pcH EXCEPT ![h] = "send"]
            /\ UNCHANGED <<work, fate>>
    /\ UNCHANGED <<aroundHandler, state, current, mon>>

\* The channel send, a rendezvous with the loop of Execute.
Receive(h) ==
    /\ pcS = "ok"
    /\ pcH[h] = "send"
    /\ body[work[h]].type \in open
    /\ chans[body[work[h]].type] = "open"
    /\ pcH' = [pcH EXCEPT ![h] = "idle"]
    /\ work' = [work EXCEPT ![h] = None]
    /\ fate' = [fate EXCEPT ![work[h]] = "received"]
    /\ UNCHANGED <<aroundHandler, state, current, mon>>

\* Execute stops receiving from a channel it finds closed.
SeeClosed(k) ==
    /\ pcS = "ok"
    /\ k \in open
    /\ chans[k] = "closed"
    /\ open' = open \ {k}
    /\ UNCHANGED <<startVars, chanVars, msgVars, hVars, respVars, timerVars,
                   drain, cVars>>

-----------------------------------------------------------------------------
(* ProcessResponse                                                         *)

\* CancelMonitor: the goroutine may be past its select already.
Stopped(r) ==
    IF current[r] # None /\ mon[current[r]] = "armed"
    THEN [mon EXCEPT ![current[r]] = "cancelled"]
    ELSE mon

Processed(h) ==
    /\ pcH' = [pcH EXCEPT ![h] = "idle"]
    /\ work' = [work EXCEPT ![h] = None]
    /\ fate' = [fate EXCEPT ![work[h]] = "processed"]

\* A response without a responder UUID. An item or an error that is nil has
\* the same effect, none, and is sent here as such a response.
RejectResponse(h) ==
    /\ pcH[h] = "respond"
    /\ body[work[h]].from = None
    /\ Processed(h)
    /\ UNCHANGED <<aroundHandler, state, current, mon>>

\* Mutant: a completed responder is not taken for finished.
FailedOrCancelled(r) == state[r] \in {"ERROR", "CANCELLED"}

\* Protects against responses that arrive out of order.
AlreadyFinished(r) == state[r] \in Terminal

\* Mutant: only the first response of a responder starts a stall monitor.
FirstFollowUp(c) == c.next /\ c.state # "COMPLETE" /\ state[c.from] = "NONE"

expectFollowUp(c) == c.next /\ c.state # "COMPLETE"

\* From respondersMutex.Lock to the start of the new stall monitor.
ProcessResponse(h) ==
    LET m == work[h]
        r == body[m].from
        s == body[m].state
    IN
    /\ pcH[h] = "respond"
    /\ r # None
    /\ ~RespondersLocked
    /\ IF AlreadyFinished(r)
       THEN /\ Processed(h)
            /\ mon' = Stopped(r)
            /\ UNCHANGED <<state, current>>
       ELSE /\ pcH' = [pcH EXCEPT ![h] = "check"]
            /\ state' = [state EXCEPT ![r] = s]
            /\ IF expectFollowUp(body[m])
               THEN /\ mon' = [Stopped(r) EXCEPT ![m] = "armed"]
                    /\ current' = [current EXCEPT ![r] = m]
               ELSE /\ mon' = Stopped(r)
                    /\ UNCHANGED current
            /\ UNCHANGED <<work, fate>>
    /\ UNCHANGED aroundHandler

\* Mutant: the start timeout is not waited for.
CheckDoneEarly(h) ==
    /\ pcH[h] = "check"
    /\ IF AllDone
       THEN /\ pcH' = [pcH EXCEPT ![h] = "sleep"]
            /\ UNCHANGED <<work, fate>>
       ELSE Processed(h)
    /\ UNCHANGED <<aroundHandler, state, current, mon>>

\* allDone() && StartTimeoutElapsed, still under respondersMutex.
CheckDone(h) ==
    /\ pcH[h] = "check"
    /\ IF AllDone /\ elapsed
       THEN /\ pcH' = [pcH EXCEPT ![h] = "sleep"]
            /\ UNCHANGED <<work, fate>>
       ELSE Processed(h)
    /\ UNCHANGED <<aroundHandler, state, current, mon>>

\* time.Sleep(DrainDelay), then the call of Drain.
DrainDelay(h) ==
    /\ pcH[h] = "sleep"
    /\ pcH' = [pcH EXCEPT ![h] = "drain"]
    /\ UNCHANGED <<aroundHandler, fate, work, state, current, mon>>

HandlerDrained(h) ==
    /\ pcH[h] = "drain"
    /\ drain = "done"
    /\ Processed(h)
    /\ UNCHANGED <<aroundHandler, state, current, mon>>

-----------------------------------------------------------------------------
(* allDone without a lock, as stallMonitor and AsyncCancel call it: the     *)
(* responders are read one by one, and a responder that is added meanwhile  *)
(* is read or missed (it passes while it is still "NONE"), unless the Go    *)
(* runtime catches the insertion during the iteration: see MapRace.         *)

ScanOne(t) ==
    \E r \in todo[t] :
        /\ state[r] # "WORKING"
        /\ todo' = [todo EXCEPT ![t] = @ \ {r}]

ScanFails(t) == \E r \in todo[t] : state[r] = "WORKING"

-----------------------------------------------------------------------------
(* stallMonitor                                                            *)

\* The timeout case of the select; when the context is done too, Go picks
\* either case.
MonitorFire(m) ==
    /\ mon[m] \in {"armed", "cancelled"}
    /\ mon' = [mon EXCEPT ![m] = "fired"]
    /\ UNCHANGED <<aroundMonitor, state, todo>>

MonitorExit(m) ==
    /\ mon[m] = "cancelled"
    /\ mon' = [mon EXCEPT ![m] = "done"]
    /\ UNCHANGED <<aroundMonitor, state, todo>>

\* responder.SetState(STALLED), without respondersMutex.
MarkStalled(m) ==
    /\ mon[m] = "fired"
    /\ mon' = [mon EXCEPT ![m] = "scan"]
    /\ state' = [state EXCEPT ![body[m].from] = "STALLED"]
    /\ todo' = [todo EXCEPT ![m] = Responders]
    /\ UNCHANGED aroundMonitor

MonitorScan(m) ==
    /\ mon[m] = "scan"
    /\ ScanOne(m)
    /\ UNCHANGED <<aroundMonitor, state, mon>>

\* Mutant: a stall is recorded but nobody tests whether it was the last.
MonitorNeverDrains(m) ==
    /\ mon[m] = "scan"
    /\ mon' = [mon EXCEPT ![m] = "done"]
    /\ todo' = [todo EXCEPT ![m] = {}]
    /\ UNCHANGED <<aroundMonitor, state>>

MonitorScanned(m) ==
    /\ mon[m] = "scan"
    /\ \/ ScanFails(m)   /\ mon' = [mon EXCEPT ![m] = "done"]
       \/ todo[m] = {}   /\ mon' = [mon EXCEPT ![m] = "drain"]
    /\ todo' = [todo EXCEPT ![m] = {}]
    /\ UNCHANGED <<aroundMonitor, state>>

MonitorDrained(m) ==
    /\ mon[m] = "drain"
    /\ drain = "done"
    /\ mon' = [mon EXCEPT ![m] = "done"]
    /\ UNCHANGED <<aroundMonitor, state, todo>>

-----------------------------------------------------------------------------
(* The start-timeout goroutine of markStarted                              *)

\* Mutant: nobody is told that the start timeout elapsed.
TimerFireSilently ==
    /\ timer \in {"armed", "stopping"}
    /\ timer' = "fired"
    /\ UNCHANGED <<aroundTimer, elapsed>>

TimerFire ==
    /\ timer \in {"armed", "stopping"}
    /\ timer' = "fired"
    /\ elapsed' = TRUE
    /\ UNCHANGED aroundTimer

TimerExit ==
    /\ timer = "stopping"
    /\ timer' = "done"
    /\ UNCHANGED <<aroundTimer, elapsed>>

\* Mutant: a query that nobody answers is not taken for done.
TimerCheckAnswered ==
    /\ timer = "fired"
    /\ ~RespondersLocked
    /\ timer' = IF AllDone THEN "drain" ELSE "done"
    /\ UNCHANGED <<aroundTimer, elapsed>>

\* respondersMutex.RLock, then the test; readers exclude only the writers.
TimerCheck ==
    /\ timer = "fired"
    /\ ~RespondersLocked
    /\ timer' = IF Known = {} \/ AllDone THEN "drain" ELSE "done"
    /\ UNCHANGED <<aroundTimer, elapsed>>

TimerDrained ==
    /\ timer = "drain"
    /\ drain = "done"
    /\ timer' = "done"
    /\ UNCHANGED <<aroundTimer, elapsed>>

-----------------------------------------------------------------------------
(* Drain                                                                   *)

\* The first caller enters the sync.Once; the others wait for it to finish.
DrainBegin ==
    /\ drain = "idle"
    /\ Draining
    /\ drain' = "sub"
    /\ UNCHANGED <<aroundDrain, chanVars, sub, fate, timer>>

\* unsubscribeGracefully: a drained subscription still delivers what it has
\* queued, an unsubscribed one discards it, and a failure of both leaves it.
Unsubscribe ==
    \/ UNCHANGED <<sub, fate>>
    \/ sub = "active" /\ sub' = "draining" /\ UNCHANGED fate
    \/ /\ sub = "active"
       /\ sub' = "closed"
       /\ fate' = [m \in Msgs |-> IF fate[m] = "pending" THEN "discarded" ELSE fate[m]]

DrainUnsubscribe ==
    /\ drain = "sub"
    /\ ~SubLocked
    /\ drain' = "chan"
    /\ timer' = IF timer = "armed" THEN "stopping" ELSE timer
    /\ Unsubscribe
    /\ UNCHANGED <<aroundDrain, chanVars>>

\* Mutant: the error channel is left open.
DrainCloseItems ==
    /\ drain = "chan"
    /\ ~ChanWriter
    /\ ChanReaders = {}
    /\ drain' = "done"
    /\ chans' = [chans EXCEPT !["item"] = IF @ = "open" THEN "closed" ELSE @]
    /\ channelsClosed' = TRUE
    /\ UNCHANGED <<aroundDrain, sub, fate, timer>>

DrainClose ==
    /\ drain = "chan"
    /\ ~ChanWriter
    /\ ChanReaders = {}
    /\ drain' = "done"
    /\ chans' = [k \in Kinds |-> IF chans[k] = "open" THEN "closed" ELSE chans[k]]
    /\ channelsClosed' = TRUE
    /\ UNCHANGED <<aroundDrain, sub, fate, timer>>

Drain == DrainBegin \/ DrainUnsubscribe \/ DrainClose

-----------------------------------------------------------------------------
(* Cancel and AsyncCancel                                                  *)

\* AsyncCancel fails on a nil connection; Cancel logs it and waits anyway.
CancelBegin(c) ==
    /\ pcC[c] = "idle"
    /\ CancelAfterStart => pcS \in {"ok", "failed"}
    /\ \/ pcC' = [pcC EXCEPT ![c] = "wait"]    /\ UNCHANGED cancelled
       \/ pcC' = [pcC EXCEPT ![c] = "publish"] /\ cancelled' = TRUE
    /\ UNCHANGED <<aroundCancel, todo>>

CancelPublish(c) ==
    /\ pcC[c] = "publish"
    /\ \/ /\ pcC' = [pcC EXCEPT ![c] = "scan"]
          /\ todo' = [todo EXCEPT ![c] = Responders]
       \/ /\ pcC' = [pcC EXCEPT ![c] = "wait"]
          /\ UNCHANGED todo
    /\ UNCHANGED <<aroundCancel, cancelled>>

CancelScan(c) ==
    /\ pcC[c] = "scan"
    /\ ScanOne(c)
    /\ UNCHANGED <<aroundMonitor, state, mon>>

CancelScanned(c) ==
    /\ pcC[c] = "scan"
    /\ \/ ScanFails(c) /\ pcC' = [pcC EXCEPT ![c] = "wait"]
       \/ todo[c] = {} /\ pcC' = [pcC EXCEPT ![c] = "drain"]
    /\ todo' = [todo EXCEPT ![c] = {}]
    /\ UNCHANGED <<aroundCancel, cancelled>>

\* AsyncCancel returns from its Drain and Cancel reaches its select.
CancelDrained(c) ==
    /\ pcC[c] = "drain"
    /\ drain = "done"
    /\ pcC' = [pcC EXCEPT ![c] = "wait"]
    /\ UNCHANGED <<aroundCancel, todo, cancelled>>

CancelDone(c) ==
    /\ pcC[c] = "wait"
    /\ drain = "done"
    /\ pcC' = [pcC EXCEPT ![c] = "returned"]
    /\ UNCHANGED <<aroundCancel, todo, cancelled>>

\* The caller's context expires: force the drain.
CancelExpire(c) ==
    /\ pcC[c] = "wait"
    /\ pcC' = [pcC EXCEPT ![c] = "force"]
    /\ UNCHANGED <<aroundCancel, todo, cancelled>>

CancelForced(c) ==
    /\ pcC[c] = "force"
    /\ drain = "done"
    /\ pcC' = [pcC EXCEPT ![c] = "forced"]
    /\ UNCHANGED <<aroundCancel, todo, cancelled>>

-----------------------------------------------------------------------------
Handler(h) ==
    \/ \E m \in Msgs : Dispatch(h, m)
    \/ HandlerLock(h) \/ RejectResponse(h) \/ ProcessResponse(h)
    \/ CheckDone(h) \/ DrainDelay(h) \/ HandlerDrained(h)

StallMonitor(m) ==
    MonitorFire(m) \/ MonitorExit(m) \/ MarkStalled(m) \/ MonitorScan(m)
    \/ MonitorScanned(m) \/ MonitorDrained(m)

Timer == TimerFire \/ TimerExit \/ TimerCheck \/ TimerDrained

Cancel(c) ==
    CancelPublish(c) \/ CancelScan(c) \/ CancelScanned(c) \/ CancelDrained(c)
    \/ CancelDone(c) \/ CancelForced(c)

\* Execute's loop, or whoever ranges over the channels.
Consumer == (\E h \in Handlers : Receive(h)) \/ (\E k \in Kinds : SeeClosed(k))

\* Every goroutine is at rest: nothing but a new message could happen. Execute
\* never hears from a channel that is nil.
AtRest ==
    /\ pcS \in {"ok", "failed"}
    /\ timer \in {"none", "done"}
    /\ \A h \in Handlers : pcH[h] = "idle"
    /\ \A m \in Msgs : mon[m] \in {"none", "done"} /\ fate[m] # "pending"
    /\ \A c \in Cancellers : pcC[c] \in {"idle", "wait", "returned", "forced"}
    /\ ~Draining /\ drain \in {"idle", "done"}
    /\ pcS = "ok" => drain = "done" /\ \A k \in open : chans[k] = "nil"

Step ==
    \/ Start
    \/ \E m \in Msgs, c \in Contents : Publish(m, c)
    \/ \E h \in Handlers : Handler(h)
    \/ Consumer
    \/ \E m \in Msgs : StallMonitor(m)
    \/ Timer
    \/ Drain
    \/ \E c \in Cancellers : CancelBegin(c) \/ Cancel(c) \/ CancelExpire(c)

-----------------------------------------------------------------------------
(* The end of the process                                                  *)

\* ProcessResponse is about to add a responder to the map.
Inserts(h) ==
    /\ pcH[h] = "respond"
    /\ ~RespondersLocked
    /\ \E r \in Responders : body[work[h]].from = r /\ state[r] = "NONE"

\* "fatal error: concurrent map iteration and map write": the runtime may
\* notice it, and nothing can recover from it.
MapRace ==
    /\ \E h \in Handlers : Inserts(h)
    /\ \/ \E m \in Msgs : mon[m] = "scan"
       \/ \E c \in Cancellers : pcC[c] = "scan"

\* The panic of the callback's default case: NATS runs the callback on a
\* goroutine of its own, where nobody recovers.
UnknownPanics ==
    \E h \in Handlers, m \in Msgs :
        pcH[h] = "idle" /\ fate[m] = "pending" /\ body[m] \in Unknown

Abort ==
    /\ ~aborted
    /\ MapRace \/ UnknownPanics
    /\ aborted' = TRUE
    /\ UNCHANGED queryVars

Alive == ~aborted /\ UNCHANGED aborted

Finished == (AtRest \/ aborted) /\ UNCHANGED vars

Next == (Alive /\ Step) \/ Abort \/ Finished

-----------------------------------------------------------------------------
(* Fairness: the Go scheduler runs every goroutine that can run, and every  *)
(* timer elapses, for as long as the process lives. Nothing forces a        *)
(* responder to answer, a program to call Cancel, or a context to expire.   *)

LibraryFairness ==
    /\ WF_vars(Alive /\ Start)
    /\ \A h \in Handlers : WF_vars(Alive /\ Handler(h))
    /\ \A m \in Msgs : WF_vars(Alive /\ StallMonitor(m))
    /\ WF_vars(Alive /\ Timer)
    /\ WF_vars(Alive /\ Drain)
    /\ \A c \in Cancellers : WF_vars(Alive /\ Cancel(c))

Spec == Init /\ [][Next]_vars

\* The library runs and the user reads its channels until they are closed.
FairSpec == Spec /\ LibraryFairness /\ WF_vars(Alive /\ Consumer)

-----------------------------------------------------------------------------
QueryTypeOK ==
    /\ pcS \in {"idle", "lockSub", "subscribe", "publish", "mark", "ok", "failed"}
    /\ published \in BOOLEAN
    /\ chans \in [Kinds -> {"unset", "nil", "open", "closed"}]
    /\ channelsClosed \in BOOLEAN
    /\ sub \in {"none", "active", "draining", "closed"}
    /\ fate \in [Msgs -> {"unsent", "pending", "handling", "received",
                          "dropped", "processed", "discarded"}]
    /\ body \in [Msgs -> Contents \cup {None}]
    /\ pcH \in [Handlers -> {"idle", "rlock", "send", "respond", "check",
                             "sleep", "drain"}]
    /\ work \in [Handlers -> Msgs \cup {None}]
    /\ state \in [Responders -> Sendable \cup {"NONE", "STALLED"}]
    /\ current \in [Responders -> Msgs \cup {None}]
    /\ mon \in [Msgs -> {"none", "armed", "cancelled", "fired", "scan",
                         "drain", "done"}]
    /\ todo \in [Msgs \cup Cancellers -> SUBSET Responders]
    /\ timer \in {"none", "armed", "stopping", "fired", "drain", "done"}
    /\ elapsed \in BOOLEAN
    /\ drain \in {"idle", "sub", "chan", "done"}
    /\ cancelled \in BOOLEAN
    /\ pcC \in [Cancellers -> {"idle", "publish", "scan", "drain", "wait",
                               "force", "returned", "forced"}]
    /\ open \in SUBSET Kinds
    \* A handler has a message of the sort it is written for, all its own.
    /\ \A h \in Handlers : pcH[h] # "idle" =>
          /\ work[h] \in Msgs
          /\ fate[work[h]] = "handling"
          /\ body[work[h]] \in
                IF pcH[h] \in {"rlock", "send"} THEN Payload ELSE Response
    /\ \A h \in Handlers : pcH[h] \in {"check", "sleep", "drain"} =>
          body[work[h]].from \in Responders

TypeOK == QueryTypeOK /\ aborted \in BOOLEAN

-----------------------------------------------------------------------------
(* Safety                                                                  *)

\* progress.go closes the user's channels in Drain while item and error
\* handlers send on them from other goroutines. No handler is ever past the
\* channelsClosed test and inside the send when a close has happened: that
\* would panic with "send on closed channel".
NoSendOnClosed ==
    \A h \in Handlers : pcH[h] = "send" =>
        ~channelsClosed /\ chans[body[work[h]].type] # "closed"

\* Start locks chanMutex and then subMutex, Drain subMutex and then
\* chanMutex, and ProcessResponse and the start-timeout goroutine call Drain
\* with respondersMutex held, which markStarted takes inside Start. Only a
\* Cancel that drains before Start returned can meet Start between its two
\* locks; responders, stall monitors and timeouts never do, and nobody who
\* holds respondersMutex waits for a Drain that waits for Start.
OnlyCancelInverts ==
    /\ pcS = "lockSub" /\ drain = "chan" =>
          \E c \in Cancellers : pcC[c] \in {"drain", "force"}
    /\ ~(/\ pcS = "mark"
         /\ drain # "done"
         /\ timer = "drain" \/ \E h \in Handlers : pcH[h] = "drain")

\* A responder that is recorded as working is watched: the stall monitor its
\* monitorCancel belongs to is running and not cancelled, so the responder
\* cannot stay "working" forever after it died.
WorkingIsWatched ==
    \A r \in Responders : state[r] = "WORKING" =>
        /\ current[r] # None
        /\ mon[current[r]] \in {"armed", "fired"}
        /\ body[current[r]].from = r

\* Between allDone and Drain, ProcessResponse sleeps for DrainDelay. It and
\* the start-timeout goroutine keep respondersMutex meanwhile, so no responder
\* can come back to WORKING behind the decision to drain.
DrainsOnlyWhenQuiet ==
    (timer = "drain" \/ \E h \in Handlers : pcH[h] \in {"sleep", "drain"})
        => NoneWorking

\* Goroutines that are on their way to test allDone, or to Drain.
Noticing ==
    \/ \E h \in Handlers : pcH[h] \in {"check", "sleep", "drain"}
    \/ \E m \in Msgs : mon[m] \in {"scan", "drain"}
    \/ \E c \in Cancellers : pcC[c] \in {"scan", "drain", "force"}

\* The completion of a query is noticed by whichever of ProcessResponse, the
\* start timeout, a stall monitor and AsyncCancel comes last, although each
\* tests only once and two of them without a lock: when the start timeout is
\* over and nobody is working, the drain has begun or somebody is about to
\* begin it.
NoLostCompletion ==
    timer = "done" /\ AllDone => drain # "idle" \/ Noticing

\* Cancel returns, forced or not, only once the user's channels are closed
\* and cannot be opened any more (progress.go:582-588).
CancelledIsClosed ==
    \A c \in Cancellers : pcC[c] \in {"returned", "forced"} =>
        channelsClosed /\ \A k \in Kinds : chans[k] # "open"

\* What each goroutine waits for, read off the guards of its steps.
StartCanRun ==
    \/ pcS = "idle" /\ ChanReaders = {}
    \/ pcS = "lockSub" /\ ~SubLocked
    \/ pcS \in {"subscribe", "publish"}
    \/ pcS = "mark" /\ ~RespondersLocked

HandlerCanRun(h) ==
    \/ pcH[h] = "idle" /\ \E m \in Msgs : fate[m] = "pending"
    \/ pcH[h] = "rlock" /\ ~ChanWriter /\ drain # "chan"
    \/ pcH[h] = "respond" /\ (body[work[h]].from = None \/ ~RespondersLocked)
    \/ pcH[h] \in {"check", "sleep"}
    \/ pcH[h] = "drain" /\ drain = "done"

ConsumerCanRun ==
    /\ pcS = "ok"
    /\ \E k \in open :
          \/ chans[k] = "closed"
          \/ chans[k] = "open" /\ \E h \in ChanReaders : body[work[h]].type = k

MonitorCanRun(m) ==
    \/ mon[m] \in {"armed", "cancelled", "fired", "scan"}
    \/ mon[m] = "drain" /\ drain = "done"

TimerCanRun ==
    \/ timer \in {"armed", "stopping"}
    \/ timer = "fired" /\ ~RespondersLocked
    \/ timer = "drain" /\ drain = "done"

DrainCanRun ==
    \/ drain = "idle" /\ Draining
    \/ drain = "sub" /\ ~SubLocked
    \/ drain = "chan" /\ ~ChanWriter /\ ChanReaders = {}

CancellerCanRun(c) ==
    \/ pcC[c] \in {"publish", "scan"}
    \/ pcC[c] \in {"drain", "wait", "force"} /\ drain = "done"

SomebodyCanRun ==
    \/ StartCanRun \/ TimerCanRun \/ DrainCanRun \/ ConsumerCanRun
    \/ \E h \in Handlers : HandlerCanRun(h)
    \/ \E m \in Msgs : MonitorCanRun(m)
    \/ \E c \in Cancellers : CancellerCanRun(c)

\* A handler is inside a send on a channel the user never gave, with
\* chanMutex held for reading.
SendsToNil ==
    \E h \in Handlers : pcH[h] = "send" /\ chans[body[work[h]].type] = "nil"

\* Three mutexes, a sync.Once and an unbuffered channel stand between the
\* goroutines of a query, and some of them drain with respondersMutex held.
\* Whatever they did, in a program that reads its channels one of them can
\* go on without a new message or an expiring context, or the query is over
\* and its channels are closed; the one trap is the error channel that Start
\* accepts as nil (progress.go:347, 380, 465).
NeverStuck == AtRest \/ SomebodyCanRun \/ SendsToNil

(* Action properties                                                       *)

\* Out-of-order responses never take a finished responder back to another
\* state; the only thing that can still replace a final state is a stall
\* monitor that had left its select before it was cancelled.
FinishedStays ==
    [][\A r \in Responders :
          state[r] \in Terminal => state'[r] \in {state[r], "STALLED"}]_vars

\* The query as its user sees it: what was received on each channel, who
\* announced another response, which started a stall monitor, and whose Cancel
\* has returned.
Delivered ==
    {[kind |-> body[m].type, msg |-> m] : m \in {n \in Msgs : fate[n] = "received"}}

Announced == {r \in Responders : current[r] # None}

Told == {c \in Cancellers : pcC[c] \in {"returned", "forced"}}

Contract == INSTANCE QueryContract WITH
    Messages <- Msgs,        Callers   <- Cancellers,  Final    <- Terminal,
    delivered <- Delivered,  reading   <- open,        word     <- state,
    announced <- Announced,  returned  <- Told

\* A query implements QueryContract. Handlers, Drain, stall monitors and
\* cancellers touch the channels and the responders from their own
\* goroutines; the user still sees channels that are opened once and closed
\* together, nothing delivered twice or after the end, final answers that only
\* a missed report replaces, and no Cancel, forced or not, that returns while
\* something can still arrive (progress.go:402-467, 537-605, 692-743, 922-947).
KeepsContract == Contract!Spec

(* Liveness                                                                *)

\* Execute returns: every started query whose channels are read ends by
\* itself, whatever the responders do or fail to do, and even if nobody
\* answers or the cancellation message is lost; unless the process is aborted
\* (Abort), which ExecuteFinishes below is about.
ExecuteReturns == pcS = "ok" ~> open = {} \/ aborted

\* Cancel of a started query returns, without its context having to expire,
\* unless the process is aborted.
CancelReturns ==
    \A c \in Cancellers :
        (pcS = "ok" /\ pcC[c] # "idle") ~> (pcC[c] \in {"returned", "forced"} \/ aborted)

(* What the repository says or intends and the code does not do. Each of    *)
(* these is refuted by TLC with a configuration of its own (QP_Dropped.cfg, *)
(* QP_Stalled.cfg, QP_LockOrder.cfg, QP_Race.cfg); the README tells how.     *)

\* "This *should* never happen": an item or error reaches its handler after
\* the channels were closed, and is dropped (progress.go:411).
NothingDropped == \A m \in Msgs : fate[m] # "dropped"

\* "Ensuring that a failed responder does not get marked as stalled"
\* (progress_test.go:640).
FinishedNeverStalls ==
    [][\A r \in Responders : state[r] \in Terminal => state'[r] # "STALLED"]_vars

\* AsyncCancel tests allDone "in case nothing had started yet"
\* (progress.go:633): a Drain that begins so early, with subMutex, meets Start
\* between chanMutex and subMutex, and both wait for good.
LocksInOrder == ~(pcS = "lockSub" /\ drain = "chan")

\* "Executes a given request and waits for it to finish" (progress.go:646),
\* whatever happens to the other goroutines.
ExecuteFinishes == pcS = "ok" ~> open = {}

=============================================================================
