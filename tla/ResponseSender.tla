--------------------------- MODULE ResponseSender ---------------------------
(***************************************************************************)
(* The responding side of a query (ResponseSender of progress.go): Start    *)
(* publishes WORKING and spawns a goroutine (the "ticker") that repeats it; *)
(* Done, Error, Cancel and Kill, which are all killWithResponse, stop that  *)
(* goroutine and publish the final response.                                *)
(*                                                                         *)
(* A sender serves one query: one goroutine calls Start, and when the query *)
(* has finished one goroutine makes one of the four calls.                  *)
(***************************************************************************)

VARIABLES
    connected,  \* FALSE: Start is given no connection
    pcS,        \* where the caller of Start is
    ticker,     \* where the ticker goroutine is
    tick,       \* the ticker's channel of capacity one holds a tick
    kill,       \* the channel monitorKill
    ctxDone,    \* the context given to Start is cancelled
    pcK,        \* where the caller of killWithResponse is
    final,      \* the response it publishes, "nil" for Kill
    wire        \* the last response published

vars == <<connected, pcS, ticker, tick, kill, ctxDone, pcK, final, wire>>

\* monitorRunning.Wait returns when its count is zero.
Running == ticker \in {"select", "publish"}

Promise == INSTANCE ResponderProtocol WITH stopped <- pcK = "returned"

Init ==
    /\ connected \in BOOLEAN
    /\ pcS = "idle"
    /\ ticker = "none"
    /\ tick = FALSE
    /\ kill = "nil"
    /\ ctxDone = FALSE
    /\ pcK = "idle"
    /\ final = "nil"
    /\ wire = "silent"

\* connection.Publish: on an error nothing was published, and it is only logged.
Publish(s) == wire' = s \/ UNCHANGED wire

-----------------------------------------------------------------------------
(* Start                                                                    *)

\* make(chan) and, with a connection, the first response.
StartPublish ==
    /\ pcS = "idle"
    /\ pcS' = "spawn"
    /\ kill' = "open"
    /\ IF connected THEN Publish("WORKING") ELSE UNCHANGED wire
    /\ UNCHANGED <<connected, ticker, tick, ctxDone, pcK, final>>

\* monitorRunning.Add and go; without a connection the goroutine just returns.
StartSpawn ==
    /\ pcS = "spawn"
    /\ pcS' = "started"
    /\ ticker' = IF connected THEN "select" ELSE "exited"
    /\ UNCHANGED <<connected, tick, kill, ctxDone, pcK, final, wire>>

-----------------------------------------------------------------------------
(* The ticker goroutine                                                     *)

\* ResponseInterval has elapsed; a tick that nobody took is not doubled.
TickerTicks ==
    /\ Running
    /\ ~tick
    /\ tick' = TRUE
    /\ UNCHANGED <<connected, pcS, ticker, kill, ctxDone, pcK, final, wire>>

\* The select picks any case that is ready, so a tick may win over a kill.
SelectTick ==
    /\ ticker = "select"
    /\ tick
    /\ tick' = FALSE
    /\ ticker' = "publish"
    /\ UNCHANGED <<connected, pcS, kill, ctxDone, pcK, final, wire>>

\* Mutant: the goroutine no longer watches the context.
SelectKill ==
    /\ ticker = "select"
    /\ kill = "closed"
    /\ ticker' = "exited"
    /\ UNCHANGED <<connected, pcS, tick, kill, ctxDone, pcK, final, wire>>

\* Mutant: the goroutine watches nothing but the context.
SelectContext ==
    /\ ticker = "select"
    /\ ctxDone
    /\ ticker' = "exited"
    /\ UNCHANGED <<connected, pcS, tick, kill, ctxDone, pcK, final, wire>>

SelectExit ==
    /\ ticker = "select"
    /\ kill = "closed" \/ ctxDone
    /\ ticker' = "exited"
    /\ UNCHANGED <<connected, pcS, tick, kill, ctxDone, pcK, final, wire>>

TickerPublish ==
    /\ ticker = "publish"
    /\ Publish("WORKING")
    /\ ticker' = "select"
    /\ UNCHANGED <<connected, pcS, tick, kill, ctxDone, pcK, final>>

\* The context given to Start is cancelled.
CancelContext ==
    /\ ~ctxDone
    /\ ctxDone' = TRUE
    /\ UNCHANGED <<connected, pcS, ticker, tick, kill, pcK, final, wire>>

-----------------------------------------------------------------------------
(* killWithResponse                                                         *)

\* Done, Error, Cancel or Kill, after Start has returned.
KillClose ==
    /\ pcS = "started"
    /\ pcK = "idle"
    /\ pcK' = "wait"
    /\ final' \in Promise!Final \cup {"nil"}
    /\ kill' = "closed"
    /\ UNCHANGED <<connected, pcS, ticker, tick, ctxDone, wire>>

\* Mutant: the final response does not wait for the goroutine.
KillNoWait ==
    /\ pcK = "wait"
    /\ pcK' = "publish"
    /\ UNCHANGED <<connected, pcS, ticker, tick, kill, ctxDone, final, wire>>

\* monitorRunning.Wait
KillWait ==
    /\ pcK = "wait"
    /\ ~Running
    /\ pcK' = "publish"
    /\ UNCHANGED <<connected, pcS, ticker, tick, kill, ctxDone, final, wire>>

\* Mutant: Kill publishes a nil response.
KillPublishNil ==
    /\ pcK = "publish"
    /\ pcK' = "returned"
    /\ IF connected THEN Publish(final) ELSE UNCHANGED wire
    /\ UNCHANGED <<connected, pcS, ticker, tick, kill, ctxDone, final>>

\* The final response, if there is one and a connection to publish it on.
KillPublish ==
    /\ pcK = "publish"
    /\ pcK' = "returned"
    /\ IF connected /\ final # "nil" THEN Publish(final) ELSE UNCHANGED wire
    /\ UNCHANGED <<connected, pcS, ticker, tick, kill, ctxDone, final>>

-----------------------------------------------------------------------------
Start == StartPublish \/ StartSpawn

Ticker == SelectTick \/ SelectExit \/ TickerPublish

Killer == KillWait \/ KillPublish

\* The query runs on, or all is over.
Finished == (pcS = "started" /\ ~Running /\ pcK = "returned") /\ UNCHANGED vars

Next ==
    Start \/ TickerTicks \/ Ticker \/ CancelContext \/ KillClose \/ Killer \/ Finished

\* Go runs every goroutine that can run. A select with several ready cases
\* picks one at random, so a case that is ready time and again is picked in
\* the end: strong fairness for the exit. Nothing forces a query to finish.
Fairness ==
    /\ WF_vars(Start)
    /\ WF_vars(TickerTicks)
    /\ WF_vars(Ticker)
    /\ SF_vars(SelectExit)
    /\ WF_vars(Killer)

Spec == Init /\ [][Next]_vars /\ Fairness

-----------------------------------------------------------------------------
TypeOK ==
    /\ connected \in BOOLEAN
    /\ pcS \in {"idle", "spawn", "started"}
    /\ ticker \in {"none", "select", "publish", "exited"}
    /\ tick \in BOOLEAN
    /\ kill \in {"nil", "open", "closed"}
    /\ ctxDone \in BOOLEAN
    /\ pcK \in {"idle", "wait", "publish", "returned"}
    /\ final \in Promise!Final \cup {"nil"}
    /\ wire \in Promise!Final \cup {"silent", "WORKING"}

\* The ticker and the final response are published by different goroutines,
\* and ticks may win over the stop in the select; still no WORKING ever follows
\* a final response, and nothing at all follows the return of the call that
\* stops the sender (progress.go:104-125, 144-163).
KeepsPromise == Promise!Spec

\* Once Done, Error, Cancel or Kill has returned, the sender is silent.
SilentAfterKill == [][pcK = "returned" => wire' = wire]_vars

\* Done, Error, Cancel and Kill return: the goroutine they wait for stops,
\* although ticks keep coming.
KillReturns == pcK = "wait" ~> pcK = "returned"

\* "The sender will also be stopped if the context is cancelled"
\* (progress.go:53).
StopsWithContext == ctxDone /\ Running ~> ~Running

=============================================================================
