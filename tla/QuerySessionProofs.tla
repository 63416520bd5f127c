------------------------- MODULE QuerySessionProofs -------------------------
(***************************************************************************)
(* Proofs about QuerySession: for every response interval and every delay  *)
(* within what NextUpdateIn leaves, a working responder is never marked as *)
(* stalled.                                                                *)
(***************************************************************************)
EXTENDS QuerySession, ResponseSenderProofs

\* The sender will publish again: it was started, or is being started.
Alive == pcS = "spawn" \/ Running

\* The units since the sender published its last response, while it is Alive.
Elapsed == IF tick \/ ticker = "publish" THEN ResponseInterval
                                         ELSE ResponseInterval - toTick

\* The ticker's steps take no time.
TickInv ==
    /\ pcS # "started" => toTick = ResponseInterval /\ ~tick
    /\ Running /\ tick => toTick = ResponseInterval
    /\ ticker = "publish" => toTick = ResponseInterval /\ ~tick

\* What is on its way from a sender that is Alive, and what the watcher has.
FlightInv ==
    /\ pcS = "idle" => flight = {} /\ known = "unknown" /\ ~lost
    /\ Alive => \A m \in flight : m.response = "WORKING" /\ m.age = Elapsed
    /\ Alive /\ lost => flight = {}
    /\ Alive => known \in {"unknown", "WORKING"}

\* How much of the announced time is left, at least: the last response has
\* arrived, it is on its way behind one that was lost, or it was lost.
TimeInv ==
    /\ known = "WORKING" <=> stallIn # Never
    /\ Alive /\ known = "WORKING" =>
         /\ flight = {} /\ ~lost => stallIn >= NextUpdateIn - Elapsed
         /\ flight # {} => stallIn >= NextUpdateIn - 2 * ResponseInterval - Elapsed
         /\ lost => stallIn >= NextUpdateIn - ResponseInterval - Elapsed

SessionInv == OrderInv /\ SessionTypeOK /\ TickInv /\ FlightInv /\ TimeInv

-----------------------------------------------------------------------------
\* The arithmetic of 230%.
LEMMA Slack ==
    /\ NextUpdateIn - 2 * ResponseInterval > MaxDelay
    /\ MaxDelay < ResponseInterval
    /\ 2 * ResponseInterval < NextUpdateIn
  BY TimeAssumption

\* Nothing is on its way initially, and there is no monitor.
LEMMA SessionInitInv == SessionInit => SessionInv
<1> SUFFICES ASSUME SessionInit PROVE SessionInv
  OBVIOUS
<1>1. OrderInv BY OrderInit DEF SessionInit
<1>2. pcS = "idle" /\ ticker = "none" /\ ~tick
  BY DEF SessionInit, Init
<1>3. SessionTypeOK
  <2>1. flight \subseteq Flying /\ lost \in BOOLEAN /\ known = "unknown"
    BY DEF SessionInit
  <2>2. /\ toTick \in 0 .. ResponseInterval /\ stallIn \in 0 .. Never
        /\ quiet \in 0 .. Grace + 1
    BY TimeAssumption DEF SessionInit, Never, Grace
  <2> QED BY <1>1, <2>1, <2>2 DEF SessionTypeOK, OrderInv
<1> QED
  BY <1>1, <1>2, <1>3, TimeAssumption
  DEF SessionInit, SessionInv, TickInv, FlightInv, TimeInv, Alive, Running, Never

\* Every step of the session is one of the sender, or none of its business.
LEMMA SessionSteps == [SessionNext]_sessionVars => [Next]_vars
  BY DEF SessionNext, sessionVars, FirstResponse, NextResponse, FinalResponse,
         IntervalEnds, SilentStep, Arrival, ProcessResponse, StallMonitor, Elapse,
         SessionOver, Next, Start, Ticker, Killer

\* What a transmission does to the network.
LEMMA Transmitted ==
  ASSUME SessionTypeOK, NEW s \in Promise!Final \cup {"WORKING"}, Transmit(s)
  PROVE  flight' \subseteq Flying /\ lost' \in BOOLEAN
<1>1. [response |-> s, age |-> 0] \in Flying
  BY TimeAssumption DEF Flying
<1> QED
  BY <1>1 DEF Transmit, SessionTypeOK

LEMMA FirstResponseInv ==
  ASSUME SessionInv, FirstResponse
  PROVE  SessionTypeOK' /\ TickInv' /\ FlightInv' /\ TimeInv'
<1>1. OrderInv' BY OrderNext DEF SessionInv, FirstResponse, Next, Start
<1>2. /\ pcS = "idle" /\ pcS' = "spawn" /\ ticker = "none" /\ ticker' = "none"
      /\ UNCHANGED <<tick, toTick, known, stallIn>>
  BY DEF SessionInv, OrderInv, FirstResponse, StartPublish, watcher, TypeOK
<1>3. flight = {} /\ known = "unknown" /\ ~lost /\ toTick = ResponseInterval /\ ~tick
  BY <1>2 DEF SessionInv, FlightInv, TickInv
<1>4. SessionTypeOK'
  BY <1>1, <1>2, Transmitted
  DEF SessionInv, SessionTypeOK, OrderInv, FirstResponse, network, Grace
<1>5. TickInv' BY <1>2, <1>3 DEF TickInv, Running
<1>6. Elapsed' = 0 BY <1>2, <1>3, TimeAssumption DEF Elapsed
<1>7. \/ flight' = {[response |-> "WORKING", age |-> 0]} /\ lost' = FALSE
      \/ flight' = {}
  BY <1>3 DEF FirstResponse, Transmit, network
<1>8. FlightInv'
  BY <1>2, <1>3, <1>6, <1>7 DEF FlightInv
<1>9. TimeInv'
  BY <1>2, <1>3 DEF TimeInv, SessionInv, Never
<1> QED BY <1>4, <1>5, <1>8, <1>9

LEMMA NextResponseInv ==
  ASSUME SessionInv, NextResponse
  PROVE  SessionTypeOK' /\ TickInv' /\ FlightInv' /\ TimeInv'
<1>1. OrderInv' BY OrderNext DEF SessionInv, NextResponse, Next, Ticker
<1>2. /\ pcS = "started" /\ pcS' = "started" /\ Running /\ Running'
      /\ ticker = "publish" /\ ticker' = "select"
      /\ UNCHANGED <<tick, toTick, known, stallIn>>
  BY DEF SessionInv, OrderInv, NextResponse, TickerPublish, watcher, Running
<1>3. toTick = ResponseInterval /\ ~tick /\ Alive /\ Alive' /\ Elapsed = ResponseInterval
      /\ Elapsed' = 0
  BY <1>2, TimeAssumption DEF SessionInv, TickInv, Alive, Elapsed
<1>4. flight = {}
  BY <1>3, Slack, TimeAssumption DEF SessionInv, FlightInv, SessionTypeOK, Flying
<1>5. SessionTypeOK'
  BY <1>1, <1>2, Transmitted
  DEF SessionInv, SessionTypeOK, OrderInv, NextResponse, Grace
<1>6. TickInv' BY <1>2, <1>3 DEF TickInv
<1>7. \/ flight' = {[response |-> "WORKING", age |-> 0]} /\ lost' = FALSE
      \/ flight' = {} /\ ~lost /\ lost' = TRUE
  BY <1>4 DEF NextResponse, Transmit
<1>8. FlightInv'
  BY <1>2, <1>3, <1>7 DEF FlightInv, SessionInv
<1>9. TimeInv'
  <2>1. (known' = "WORKING" <=> stallIn' /= Never') /\ stallIn' \in Int
    BY <1>2, TimeAssumption DEF TimeInv, SessionInv, SessionTypeOK, Never
  <2> SUFFICES ASSUME known' = "WORKING" PROVE TimeInv'
    BY <2>1 DEF TimeInv
  <2>2. /\ ~lost => stallIn >= NextUpdateIn - ResponseInterval
        /\ lost => stallIn >= NextUpdateIn - 2 * ResponseInterval
    BY <1>2, <1>3, <1>4, TimeAssumption DEF TimeInv, SessionInv
  <2>3. CASE flight' /= {} /\ ~ lost'
    <3>1. stallIn' >= NextUpdateIn - 2 * ResponseInterval
      BY <1>2, <2>1, <2>2, TimeAssumption DEF SessionInv, SessionTypeOK
    <3> QED BY <1>3, <2>1, <2>3, <3>1, TimeAssumption DEF TimeInv
  <2>4. CASE flight' = {} /\ ~ lost /\ lost'
    <3>1. stallIn' >= NextUpdateIn - ResponseInterval
      BY <1>2, <2>2, <2>4
    <3> QED BY <1>3, <2>1, <2>4, <3>1, TimeAssumption DEF TimeInv
  <2> QED BY <1>7, <2>3, <2>4
<1> QED BY <1>5, <1>6, <1>8, <1>9

LEMMA FinalResponseInv ==
  ASSUME SessionInv, FinalResponse
  PROVE  SessionTypeOK' /\ TickInv' /\ FlightInv' /\ TimeInv'
<1>1. OrderInv' BY OrderNext DEF SessionInv, FinalResponse, Next, Killer
<1>2. /\ pcS = "started" /\ pcS' = "started" /\ ~Running /\ ~Running'
      /\ UNCHANGED <<tick, toTick, ticker, known, stallIn>>
  BY DEF SessionInv, OrderInv, FinalResponse, KillPublish, watcher, Running
<1>3. ~Alive /\ ~Alive' BY <1>2 DEF Alive
<1>4. SessionTypeOK'
  BY <1>1, <1>2, Transmitted
  DEF SessionInv, SessionTypeOK, OrderInv, TypeOK, FinalResponse, network, Grace
<1>5. TickInv' BY <1>2 DEF TickInv, SessionInv
<1>6. FlightInv' /\ TimeInv'
  BY <1>2, <1>3 DEF FlightInv, TimeInv, SessionInv, Never
<1> QED BY <1>4, <1>5, <1>6

LEMMA IntervalEndsInv ==
  ASSUME SessionInv, IntervalEnds
  PROVE  SessionTypeOK' /\ TickInv' /\ FlightInv' /\ TimeInv'
<1>1. OrderInv' BY OrderNext DEF SessionInv, IntervalEnds, Next
<1>2. /\ pcS = "started" /\ Running /\ ~tick /\ tick' /\ toTick = 0
      /\ toTick' = ResponseInterval
      /\ UNCHANGED <<pcS, ticker, flight, lost, known, stallIn>>
  BY DEF SessionInv, OrderInv, IntervalEnds, TickerTicks, network, watcher, Running
<1>3. ticker = "select" /\ ticker' = "select" /\ Alive /\ Alive' /\ Running'
  BY <1>2, TimeAssumption DEF SessionInv, TickInv, Running, Alive
<1>4. Elapsed = ResponseInterval /\ Elapsed' = ResponseInterval
  BY <1>2, <1>3, TimeAssumption DEF Elapsed
<1>5. SessionTypeOK'
  BY <1>1, <1>2, TimeAssumption
  DEF SessionInv, SessionTypeOK, OrderInv, Never, Grace, IntervalEnds
<1>6. TickInv' BY <1>2, <1>3 DEF TickInv
<1>7. FlightInv' BY <1>2, <1>3, <1>4 DEF FlightInv, SessionInv
<1>8. TimeInv' BY <1>2, <1>3, <1>4 DEF TimeInv, SessionInv, Never
<1> QED BY <1>5, <1>6, <1>7, <1>8

LEMMA SilentStepInv ==
  ASSUME SessionInv, SilentStep
  PROVE  SessionTypeOK' /\ TickInv' /\ FlightInv' /\ TimeInv'
<1>1. OrderInv' BY OrderNext DEF SessionInv, SilentStep, Next, Start, Ticker, Killer
<1>2. UNCHANGED <<toTick, flight, lost, known, stallIn>>
  BY DEF SilentStep, network, watcher
<1>3. SessionTypeOK'
  BY <1>1, <1>2 DEF SessionInv, SessionTypeOK, OrderInv, Never, Grace, SilentStep
<1>4. (Alive' => Alive /\ Elapsed' = Elapsed) /\ TickInv'
      /\ (pcS' = "idle" => pcS = "idle")
  <2> USE DEF SessionInv, OrderInv, TypeOK, TickInv, Alive, Running, Elapsed
  <2>1. CASE StartSpawn BY <1>2, <2>1 DEF StartSpawn
  <2>2. CASE SelectTick BY <1>2, <2>2 DEF SelectTick
  <2>3. CASE SelectExit BY <1>2, <2>3 DEF SelectExit
  <2>4. CASE CancelContext BY <1>2, <2>4 DEF CancelContext
  <2>5. CASE KillClose BY <1>2, <2>5 DEF KillClose
  <2>6. CASE KillWait BY <1>2, <2>6 DEF KillWait
  <2> QED BY <2>1, <2>2, <2>3, <2>4, <2>5, <2>6 DEF SilentStep
<1>5. FlightInv' BY <1>2, <1>4 DEF FlightInv, SessionInv
<1>6. TimeInv' BY <1>2, <1>4 DEF TimeInv, SessionInv, Never
<1> QED BY <1>3, <1>4, <1>5, <1>6

LEMMA ArrivalInv ==
  ASSUME SessionInv, NEW m \in flight, ProcessResponse(m)
  PROVE  SessionTypeOK' /\ TickInv' /\ FlightInv' /\ TimeInv'
<1>1. UNCHANGED <<toTick, lost>> /\ UNCHANGED vars
  BY DEF ProcessResponse
<1>2. /\ flight' = flight \ {m} /\ m \in Flying
      /\ \/ known \in Promise!Final /\ known' = known /\ stallIn' = stallIn
         \/ /\ known' = m.response
            /\ m.response = "WORKING" => stallIn' = NextUpdateIn
            /\ m.response /= "WORKING" => stallIn' = Never
  BY DEF ProcessResponse, watcher, SessionInv, SessionTypeOK
<1>3. m.response \in Promise!Final \cup {"WORKING"} /\ flight /= {}
  BY <1>2 DEF Flying
<1>4. (Alive' <=> Alive) /\ Elapsed' = Elapsed /\ pcS' = pcS
  BY <1>1 DEF vars, Alive, Running, Elapsed
<1>5. SessionTypeOK'
  <2>1. TypeOK' BY <1>1 DEF SessionInv, SessionTypeOK, TypeOK, vars
  <2>2. stallIn' \in 0 .. Never
    BY <1>2, <1>3, TimeAssumption DEF SessionInv, SessionTypeOK, Never
  <2>3. known' \in Promise!Final \cup {"unknown", "WORKING", "STALLED"}
    BY <1>2, <1>3
  <2> QED BY <1>1, <1>2, <2>1, <2>2, <2>3
      DEF SessionInv, SessionTypeOK, Never, Grace, ProcessResponse
<1>6. TickInv' BY <1>1 DEF SessionInv, TickInv, vars, Running
<1>7. Alive => flight' = {} /\ known' = "WORKING" /\ stallIn' = NextUpdateIn /\ ~lost
  <2> SUFFICES ASSUME Alive PROVE flight' = {} /\ known' = "WORKING"
                                  /\ stallIn' = NextUpdateIn /\ ~lost
    OBVIOUS
  <2>1. \A n \in flight : n \in Flying /\ n.response = "WORKING" /\ n.age = Elapsed
    BY DEF SessionInv, FlightInv, SessionTypeOK
  <2>2. \A n \in flight : n = m BY <2>1 DEF Flying
  <2>3. known \notin Promise!Final
    BY DEF SessionInv, FlightInv, Promise!Final
  <2> QED BY <1>2, <1>3, <2>1, <2>2, <2>3 DEF SessionInv, FlightInv
<1>8. FlightInv'
  BY <1>1, <1>2, <1>3, <1>4, <1>7 DEF FlightInv, SessionInv
<1>9. TimeInv'
  <2>1. known' = "WORKING" <=> stallIn' /= Never'
    BY <1>2, <1>3, TimeAssumption DEF SessionInv, TimeInv, Never, Promise!Final
  <2>2. Alive => Elapsed \in Int /\ Elapsed >= 0
    BY TimeAssumption DEF Elapsed, SessionInv, SessionTypeOK
  <2> QED BY <1>1, <1>4, <1>7, <2>1, <2>2, TimeAssumption DEF TimeInv
<1> QED BY <1>5, <1>6, <1>8, <1>9

\* While the sender is alive the monitor has time left.
LEMMA AliveHasTime ==
  ASSUME SessionInv, Alive, known = "WORKING"
  PROVE  stallIn > 0
<1>1. Elapsed \in 0 .. ResponseInterval
  BY TimeAssumption DEF Elapsed, SessionInv, SessionTypeOK
<1>2. CASE flight /= {}
  <2>1. Elapsed <= MaxDelay
    BY <1>2 DEF SessionInv, FlightInv, SessionTypeOK, Flying
  <2> QED
    BY <1>1, <1>2, <2>1, Slack, TimeAssumption DEF SessionInv, TimeInv, SessionTypeOK, Never
<1>3. CASE flight = {}
  BY <1>1, <1>3, Slack, TimeAssumption DEF SessionInv, TimeInv, SessionTypeOK, Never
<1> QED BY <1>2, <1>3

LEMMA StallMonitorInv ==
  ASSUME SessionInv, StallMonitor
  PROVE  SessionTypeOK' /\ TickInv' /\ FlightInv' /\ TimeInv'
<1>1. /\ UNCHANGED vars /\ UNCHANGED <<toTick, flight, lost>>
      /\ stallIn = 0 /\ stallIn' = Never /\ known' = "STALLED"
  BY DEF StallMonitor, network
<1>2. known = "WORKING" /\ ~Alive
  BY <1>1, AliveHasTime, TimeAssumption DEF SessionInv, TimeInv, Never
<1>3. ~Alive' /\ pcS' = pcS /\ pcS /= "idle"
  BY <1>1, <1>2 DEF vars, Alive, Running, SessionInv, FlightInv
<1>4. SessionTypeOK'
  <2>1. TypeOK' BY <1>1 DEF SessionInv, SessionTypeOK, TypeOK, vars
  <2>2. stallIn' \in 0 .. Never BY <1>1, TimeAssumption DEF Never
  <2> QED BY <1>1, <2>1, <2>2
      DEF SessionInv, SessionTypeOK, Never, Grace, StallMonitor
<1>5. TickInv' BY <1>1 DEF SessionInv, TickInv, vars, Running
<1>6. FlightInv' /\ TimeInv'
  BY <1>1, <1>3 DEF FlightInv, TimeInv, Never
<1> QED BY <1>4, <1>5, <1>6

LEMMA ElapseInv ==
  ASSUME SessionInv, Elapse
  PROVE  SessionTypeOK' /\ TickInv' /\ FlightInv' /\ TimeInv'
<1>1. UNCHANGED vars /\ UNCHANGED <<lost, known>> /\ pcS = "started"
  BY DEF Elapse
<1>2. (Alive' <=> Alive) /\ (Alive <=> Running) /\ pcS' = "started"
  BY <1>1 DEF vars, Alive, Running
<1>3. \A n \in flight' : \E m \in flight :
        n.response = m.response /\ n.age = m.age + 1 /\ n \in Flying
  <2> SUFFICES ASSUME NEW m \in flight
               PROVE  LET n == [m EXCEPT !.age = @ + 1] IN
                      n.response = m.response /\ n.age = m.age + 1 /\ n \in Flying
    BY DEF Elapse
  <2> QED BY TimeAssumption DEF Elapse, SessionInv, SessionTypeOK, Flying
<1>4. /\ flight' = {} <=> flight = {}
      /\ Running => toTick' = toTick - 1 /\ toTick > 0 /\ ~tick /\ ticker = "select"
      /\ ~Running => toTick' = toTick
      /\ stallIn' = IF stallIn = Never THEN Never ELSE stallIn - 1
      /\ stallIn /= 0
  BY DEF Elapse
<1>5. SessionTypeOK'
  <2>1. TypeOK' BY <1>1 DEF SessionInv, SessionTypeOK, TypeOK, vars
  <2>4. quiet' \in 0 .. Grace + 1
    BY TimeAssumption DEF Elapse, SessionInv, SessionTypeOK, Grace
  <2>2. toTick' \in 0 .. ResponseInterval /\ stallIn' \in 0 .. Never
    BY <1>4, TimeAssumption DEF SessionInv, SessionTypeOK, Never
  <2>3. flight' \subseteq Flying BY <1>3
  <2> QED BY <1>1, <2>1, <2>2, <2>3, <2>4 DEF SessionInv, SessionTypeOK, Never, Grace
<1>6. TickInv'
  BY <1>1, <1>2, <1>4 DEF SessionInv, TickInv, vars, Running
<1>7. Running => Elapsed' = Elapsed + 1
  BY <1>1, <1>4, TimeAssumption DEF vars, Elapsed, SessionInv, SessionTypeOK
<1>8. FlightInv'
  BY <1>1, <1>2, <1>3, <1>4, <1>7 DEF FlightInv, SessionInv
<1>9. TimeInv'
  <2>1. known' = "WORKING" <=> stallIn' /= Never'
    BY <1>1, <1>4, TimeAssumption DEF SessionInv, TimeInv, SessionTypeOK, Never
  <2>2. SUFFICES ASSUME Alive, known = "WORKING" PROVE TimeInv'
    BY <1>1, <1>2, <2>1 DEF TimeInv
  <2>3. stallIn' = stallIn - 1 /\ Elapsed' = Elapsed + 1 /\ Elapsed \in Int /\ stallIn \in Int
    BY <1>2, <1>4, <1>7, <2>2, TimeAssumption
    DEF SessionInv, TimeInv, SessionTypeOK, Elapsed, Never
  <2>4. /\ flight = {} /\ ~lost => stallIn >= NextUpdateIn - Elapsed
        /\ flight /= {} => stallIn >= NextUpdateIn - 2 * ResponseInterval - Elapsed
        /\ lost => stallIn >= NextUpdateIn - ResponseInterval - Elapsed
    BY <2>2 DEF SessionInv, TimeInv
  <2> QED BY <1>1, <1>4, <2>1, <2>3, <2>4, TimeAssumption DEF TimeInv
<1> QED BY <1>5, <1>6, <1>8, <1>9

\* Every step keeps the invariant.
LEMMA SessionNextInv == SessionInv /\ [SessionNext]_sessionVars => SessionInv'
<1> SUFFICES ASSUME SessionInv, [SessionNext]_sessionVars PROVE SessionInv'
  OBVIOUS
<1>1. OrderInv' BY SessionSteps, OrderNext DEF SessionInv
<1>2. SessionTypeOK' /\ TickInv' /\ FlightInv' /\ TimeInv'
  <2>1. CASE UNCHANGED sessionVars
    <3>1. UNCHANGED vars /\ UNCHANGED <<toTick, flight, lost, known, stallIn, quiet>>
      BY <2>1 DEF sessionVars, network, watcher
    <3>2. SessionTypeOK' /\ TickInv'
      BY <3>1
      DEF vars, SessionInv, SessionTypeOK, TypeOK, TickInv, Running, Never, Grace
    <3>3. (Alive' <=> Alive) /\ Elapsed' = Elapsed /\ pcS' = pcS
      BY <3>1 DEF vars, Alive, Running, Elapsed
    <3>4. FlightInv' /\ TimeInv'
      BY <3>1, <3>3 DEF SessionInv, FlightInv, TimeInv, Never
    <3> QED BY <3>2, <3>4
  <2>2. CASE SessionOver BY <2>1, <2>2 DEF SessionOver, Finished, sessionVars
  <2> QED
    BY <2>1, <2>2, FirstResponseInv, NextResponseInv, FinalResponseInv, IntervalEndsInv,
       SilentStepInv, ArrivalInv, StallMonitorInv, ElapseInv
    DEF SessionNext, Arrival
<1> QED BY <1>1, <1>2 DEF SessionInv

LEMMA SessionInvariance == SessionSafety => []SessionInv
  BY SessionInitInv, SessionNextInv, PTL DEF SessionSafety

-----------------------------------------------------------------------------
(* How long the watcher believes in a sender that has stopped              *)

\* What a stopped sender said before is at least as old as its silence, and so
\* is what the watcher's monitor has waited; one delay lies in between.
QuietInv ==
    /\ Alive \/ pcS = "idle" => quiet = 0
    /\ \A m \in flight : m.response = "WORKING" => m.age >= quiet
    /\ known = "WORKING" => stallIn + quiet <= Grace

LEMMA QuietInit == SessionInit => QuietInv
<1> SUFFICES ASSUME SessionInit PROVE QuietInv
  OBVIOUS
<1>1. quiet = 0 /\ flight = {} /\ known = "unknown"
  BY DEF SessionInit
<1> QED BY <1>1 DEF QuietInv

\* Steps of the sender: a WORKING that is new comes from one that is alive.
LEMMA QuietSender ==
  ASSUME SessionInv, QuietInv,
         FirstResponse \/ NextResponse \/ FinalResponse \/ IntervalEnds \/ SilentStep
  PROVE  QuietInv'
<1>1. UNCHANGED <<known, stallIn, quiet>>
  BY DEF FirstResponse, NextResponse, FinalResponse, IntervalEnds, SilentStep,
         network, watcher
<1>2. Alive' \/ pcS' = "idle" => Alive \/ pcS = "idle"
  <2> USE DEF SessionInv, OrderInv, TypeOK, Alive, Running
  <2>1. CASE FirstResponse
    BY <2>1 DEF FirstResponse, StartPublish
  <2>2. CASE NextResponse
    BY <2>2 DEF NextResponse, TickerPublish
  <2>3. CASE FinalResponse
    BY <2>3 DEF FinalResponse, KillPublish
  <2>4. CASE IntervalEnds
    BY <2>4 DEF IntervalEnds, TickerTicks
  <2>5. CASE SilentStep
    BY <2>5 DEF SilentStep, StartSpawn, SelectTick, SelectExit, CancelContext,
                KillClose, KillWait
  <2> QED BY <2>1, <2>2, <2>3, <2>4, <2>5
<1>3. ASSUME NEW m \in flight', m.response = "WORKING"
      PROVE  m.age >= quiet
  <2>1. CASE m \in flight
    BY <1>3, <2>1 DEF QuietInv
  <2>2. CASE m \notin flight
    <3>1. FirstResponse \/ NextResponse
      BY <1>3, <2>2
      DEF FinalResponse, KillPublish, IntervalEnds, SilentStep, Transmit, network,
          SessionInv, OrderInv, TypeOK, Promise!Final
    <3>2. pcS = "idle" \/ Alive
      BY <3>1 DEF FirstResponse, StartPublish, NextResponse, TickerPublish, Alive, Running
    <3>3. m.age = 0
      BY <2>2, <3>1 DEF FirstResponse, NextResponse, Transmit, network
    <3> QED BY <3>2, <3>3 DEF QuietInv
  <2> QED BY <2>1, <2>2
<1> QED BY <1>1, <1>2, <1>3 DEF QuietInv, Grace

\* Steps of the watcher: a new monitor starts when the response behind it has
\* been on its way for as long as the sender is quiet.
LEMMA QuietWatcher ==
  ASSUME SessionInv, QuietInv,
         StallMonitor \/ \E m \in flight : ProcessResponse(m)
  PROVE  QuietInv'
<1>1. /\ UNCHANGED <<quiet, pcS, ticker>>
      /\ flight' \subseteq flight
  BY DEF StallMonitor, ProcessResponse, vars, network
<1>2. known' = "WORKING" => stallIn' + quiet <= Grace
  <2>1. CASE StallMonitor
    BY <2>1 DEF StallMonitor
  <2>2. ASSUME NEW m \in flight, ProcessResponse(m), known' = "WORKING"
        PROVE  stallIn' + quiet <= Grace
    <3>1. CASE known \in Promise!Final
      BY <2>2, <3>1 DEF ProcessResponse, watcher, Promise!Final
    <3>2. CASE known \notin Promise!Final
      <4>1. m.response = "WORKING" /\ stallIn' = NextUpdateIn
        BY <2>2, <3>2 DEF ProcessResponse
      <4>2. m.age \in 0 .. MaxDelay /\ quiet \in Nat
        BY TimeAssumption DEF SessionInv, SessionTypeOK, Flying, Grace
      <4>3. quiet <= MaxDelay
        BY <4>1, <4>2, TimeAssumption DEF QuietInv
      <4> QED BY <4>1, <4>2, <4>3, TimeAssumption DEF Grace
    <3> QED BY <3>1, <3>2
  <2> QED BY <2>1, <2>2
<1> QED BY <1>1, <1>2 DEF QuietInv, Alive, Running, Grace

LEMMA QuietElapse ==
  ASSUME SessionInv, QuietInv, Elapse
  PROVE  QuietInv'
<1>1. UNCHANGED <<pcS, ticker, known>> /\ pcS = "started"
  BY DEF Elapse, vars
<1>2. quiet \in Nat /\ quiet' \in Nat /\ quiet' <= quiet + 1 /\ (Running => quiet' = quiet)
  BY TimeAssumption DEF Elapse, SessionInv, SessionTypeOK, Grace
<1>3. ASSUME NEW n \in flight', n.response = "WORKING"
      PROVE  n.age >= quiet'
  <2>1. PICK m \in flight : n = [m EXCEPT !.age = @ + 1]
    BY DEF Elapse
  <2>2. m \in [response : Promise!Final \cup {"WORKING"}, age : Nat]
    BY TimeAssumption DEF SessionInv, SessionTypeOK, Flying
  <2>3. m.response = "WORKING" /\ n.age = m.age + 1 /\ m.age \in Nat
    BY <1>3, <2>1, <2>2
  <2>4. m.age >= quiet
    BY <2>3 DEF QuietInv
  <2> QED BY <1>2, <2>3, <2>4
<1>4. ASSUME known = "WORKING" PROVE stallIn' + quiet' <= Grace
  <2>1. stallIn # Never /\ stallIn + quiet <= Grace /\ stallIn \in Nat
    BY <1>4, TimeAssumption DEF SessionInv, TimeInv, SessionTypeOK, Never, QuietInv
  <2>2. stallIn' = stallIn - 1
    BY <2>1 DEF Elapse
  <2>3. Grace \in Int
    BY TimeAssumption DEF Grace
  <2>4. \A s, q, n \in Nat : n <= q + 1 /\ s + q <= Grace => (s - 1) + n <= Grace
    BY <2>3
  <2> QED BY <1>2, <2>1, <2>2, <2>4
<1> QED BY <1>1, <1>2, <1>3, <1>4 DEF QuietInv, Alive, Running, Grace

LEMMA QuietNext == SessionInv /\ QuietInv /\ [SessionNext]_sessionVars => QuietInv'
<1> SUFFICES ASSUME SessionInv, QuietInv, [SessionNext]_sessionVars PROVE QuietInv'
  OBVIOUS
<1>1. CASE SessionOver \/ UNCHANGED sessionVars
  BY <1>1 DEF SessionOver, Finished, sessionVars, vars, network, watcher, QuietInv,
              Alive, Running, Grace
<1> QED BY <1>1, QuietSender, QuietWatcher, QuietElapse DEF SessionNext, Arrival

\* For every interval and every delay, the watcher gives a sender that has
\* stopped up after NextUpdateIn and the delay of one response, whatever the
\* network lost or delivered in the wrong order (progress.go:726-743, 922-939).
THEOREM SilenceIsNoticed == SessionSafety => []NoticedInTime
<1>1. SessionInv /\ QuietInv => NoticedInTime
  BY TimeAssumption DEF SessionInv, SessionTypeOK, QuietInv, NoticedInTime, Never, Grace
<1> QED
  BY <1>1, QuietInit, QuietNext, SessionInitInv, SessionNextInv, PTL DEF SessionSafety

-----------------------------------------------------------------------------
\* Every variable of the session keeps its type.
THEOREM SessionTypes == SessionSafety => []SessionTypeOK
<1>1. SessionInv => SessionTypeOK BY DEF SessionInv
<1> QED BY <1>1, SessionInvariance, PTL

\* For every interval, and every delay below NextUpdateIn minus two intervals,
\* one lost response does not make a working responder STALLED
\* (progress.go:34-36).
THEOREM WorkingIsNotStalled == SessionSafety => []NoFalseStall
<1>1. SessionInv => NoFalseStall
  BY DEF SessionInv, FlightInv, NoFalseStall, Alive
<1> QED BY <1>1, SessionInvariance, PTL

\* The sender keeps its promise to the watcher within the session too.
THEOREM SessionKeepsPromise == SessionSafety => KeepsPromise
<1>1. SessionInit => Init BY DEF SessionInit
<1>2. Init => Promise!Init BY DEF Init, Promise!Init
<1>3. OrderInv /\ [Next]_vars => [Promise!Next]_(Promise!vars)
  BY PromiseStep
<1>4. SessionInv => OrderInv BY DEF SessionInv
<1> QED
  BY <1>1, <1>2, <1>3, <1>4, SessionSteps, SessionInvariance, PTL
  DEF SessionSafety, KeepsPromise, Promise!Spec
=============================================================================
