---------------------------- MODULE QuerySession ----------------------------
(***************************************************************************)
(* A ResponseSender, the network, and the program that watches its         *)
(* responses (ProcessResponse and stallMonitor of progress.go), in time.   *)
(*                                                                         *)
(* The sender repeats WORKING every ResponseInterval and announces the     *)
(* next update within 230% of it, "allowing for one-and-a-bit missed       *)
(* responses" (progress.go:35).  The network may lose a response, though   *)
(* not two in a row, delays each by at most MaxDelay, and may deliver two  *)
(* in the wrong order.  Time passes in units; a tick is published and a    *)
(* due timer runs before the next unit.  The races inside the watching     *)
(* program are those of QueryProgress.                                     *)
(***************************************************************************)
EXTENDS ResponseSender, Integers

CONSTANTS
    ResponseInterval,
    NextUpdateIn,
    MaxDelay        \* the network's greatest delay

\* progress.go:65; the delay is the "bit" that NextUpdateIn leaves.
ASSUME TimeAssumption ==
    /\ ResponseInterval \in Nat \ {0} /\ NextUpdateIn \in Nat /\ MaxDelay \in Nat
    /\ NextUpdateIn = (23 * ResponseInterval) \div 10
    /\ MaxDelay < NextUpdateIn - 2 * ResponseInterval

VARIABLES
    toTick,     \* the units until the sender's ticker ticks
    flight,     \* the responses on their way, with their age
    lost,       \* the response published last was lost
    known,      \* lastState of the responder at the watcher
    stallIn,    \* the units until its stall monitor fires
    quiet       \* history: the units since the sender stopped

network == <<flight, lost>>
watcher == <<known, stallIn>>
sessionVars == <<vars, toTick, network, watcher, quiet>>

\* The value of stallIn when there is no monitor.
Never == NextUpdateIn + 1

\* How long the watcher may believe in a sender that has stopped.
Grace == NextUpdateIn + MaxDelay

Flying == [response : Promise!Final \cup {"WORKING"}, age : 0 .. MaxDelay]

SessionInit ==
    /\ Init
    /\ toTick = ResponseInterval
    /\ flight = {} /\ lost = FALSE
    /\ known = "unknown" /\ stallIn = Never
    /\ quiet = 0

-----------------------------------------------------------------------------
(* The sender's steps, with what they put on the network                   *)

\* The response is on its way, or it is lost or could not be published.
Transmit(s) ==
    \/ /\ wire' = s
       /\ flight' = flight \cup {[response |-> s, age |-> 0]}
       /\ lost' = FALSE
    \/ ~lost /\ lost' = TRUE /\ UNCHANGED flight

FirstResponse ==
    /\ StartPublish
    /\ IF connected THEN Transmit("WORKING") ELSE UNCHANGED network
    /\ UNCHANGED <<toTick, watcher, quiet>>

NextResponse ==
    /\ TickerPublish
    /\ Transmit("WORKING")
    /\ UNCHANGED <<toTick, watcher, quiet>>

FinalResponse ==
    /\ KillPublish
    /\ IF connected /\ final # "nil" THEN Transmit(final) ELSE UNCHANGED network
    /\ UNCHANGED <<toTick, watcher, quiet>>

\* time.NewTicker, ticking.
IntervalEnds ==
    /\ TickerTicks
    /\ toTick = 0
    /\ toTick' = ResponseInterval
    /\ UNCHANGED <<network, watcher, quiet>>

SilentStep ==
    /\ StartSpawn \/ SelectTick \/ SelectExit \/ CancelContext \/ KillClose \/ KillWait
    /\ UNCHANGED <<toTick, network, watcher, quiet>>

-----------------------------------------------------------------------------
(* The watcher                                                             *)

\* Mutant: the monitor of the last response is not cancelled.
ResponseKeepsMonitor(m) ==
    /\ m \in flight
    /\ flight' = flight \ {m}
    /\ IF known \in Promise!Final
       THEN UNCHANGED watcher
       ELSE /\ known' = m.response
            /\ stallIn' = IF m.response # "WORKING" THEN Never
                          ELSE IF stallIn # Never THEN stallIn ELSE NextUpdateIn
    /\ UNCHANGED <<vars, toTick, lost, quiet>>

\* Mutant: only a new responder gets a monitor.
ResponseArmsOnce(m) ==
    /\ m \in flight
    /\ flight' = flight \ {m}
    /\ IF known \in Promise!Final
       THEN UNCHANGED watcher
       ELSE /\ known' = m.response
            /\ stallIn' = IF m.response = "WORKING" /\ known = "unknown"
                          THEN NextUpdateIn ELSE Never
    /\ UNCHANGED <<vars, toTick, lost, quiet>>

\* The monitor of the last response is cancelled; a responder that finished
\* stays finished; WORKING announces a next update and gets a monitor.
ProcessResponse(m) ==
    /\ m \in flight
    /\ flight' = flight \ {m}
    /\ IF known \in Promise!Final
       THEN UNCHANGED watcher
       ELSE /\ known' = m.response
            /\ stallIn' = IF m.response = "WORKING" THEN NextUpdateIn ELSE Never
    /\ UNCHANGED <<vars, toTick, lost, quiet>>

StallMonitor ==
    /\ stallIn = 0
    /\ known' = "STALLED"
    /\ stallIn' = Never
    /\ UNCHANGED <<vars, toTick, network, quiet>>

-----------------------------------------------------------------------------
(* One unit of time, when nothing is due. Once the sender has stopped, time  *)
(* matters while a response is on its way or the watcher counts on another. *)

Elapse ==
    /\ pcS = "started"
    /\ Running => ticker = "select" /\ ~tick /\ toTick > 0
    /\ \A m \in flight : m.age < MaxDelay
    /\ stallIn # 0
    /\ Running \/ flight # {} \/ known = "WORKING"
    /\ toTick' = IF Running THEN toTick - 1 ELSE toTick
    /\ flight' = {[m EXCEPT !.age = @ + 1] : m \in flight}
    /\ stallIn' = IF stallIn = Never THEN Never ELSE stallIn - 1
    /\ quiet' = IF Running \/ quiet > Grace THEN quiet ELSE quiet + 1
    /\ UNCHANGED <<vars, lost, known>>

-----------------------------------------------------------------------------
SessionOver == Finished /\ UNCHANGED <<toTick, network, watcher, quiet>>

Arrival == \E m \in flight : ProcessResponse(m)

SessionNext ==
    \/ FirstResponse \/ NextResponse \/ FinalResponse \/ IntervalEnds
    \/ SilentStep \/ Arrival \/ StallMonitor \/ Elapse \/ SessionOver

\* Go runs every goroutine that can run (the fairness of ResponseSender), a
\* response that was not lost arrives, a timer that is due fires, time passes.
SessionFairness ==
    /\ WF_sessionVars(FirstResponse)
    /\ WF_sessionVars(NextResponse)
    /\ WF_sessionVars(FinalResponse)
    /\ WF_sessionVars(SilentStep /\ (Start \/ Ticker \/ Killer))
    /\ SF_sessionVars(SilentStep /\ SelectExit)
    /\ WF_sessionVars(IntervalEnds)
    /\ WF_sessionVars(Arrival)
    /\ WF_sessionVars(StallMonitor)
    /\ WF_sessionVars(Elapse)

SessionSafety == SessionInit /\ [][SessionNext]_sessionVars

SessionSpec == SessionSafety /\ SessionFairness

-----------------------------------------------------------------------------
SessionTypeOK ==
    /\ TypeOK
    /\ toTick \in 0 .. ResponseInterval
    /\ flight \subseteq Flying
    /\ lost \in BOOLEAN
    /\ known \in Promise!Final \cup {"unknown", "WORKING", "STALLED"}
    /\ stallIn \in 0 .. Never
    /\ quiet \in 0 .. Grace + 1

\* Done, Error, Cancel and Kill return, although ticks keep coming, and the
\* sender stops with its context (progress.go:53 and 149).
SenderEnds == KillReturns /\ StopsWithContext

\* One lost response, plus some delay, does not mark a responder as stalled
\* that is still working (progress.go:34-36 and 63-64): the monitor fires
\* only after the sender has stopped.
NoFalseStall == known = "STALLED" => ~Running

\* A sender that stopped without a word, or whose last words are lost, late or
\* overtaken, counts as working for NextUpdateIn and the delay of one response
\* at most, and not again after that (progress.go:726-743, 922-939).
NoticedInTime == known = "WORKING" => quiet <= Grace

\* Once the sender has stopped, even without a final response or with that
\* response lost or overtaken, the watcher does not wait for it forever.
EndNoticed == (pcS = "started" /\ ~Running) ~> [](known # "WORKING")

=============================================================================
