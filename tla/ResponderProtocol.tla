------------------------- MODULE ResponderProtocol -------------------------
(***************************************************************************)
(* What a responder promises to whoever watches its responses and to whoever *)
(* stops it: any number of WORKING responses, then, when the call that stops *)
(* it returns, at most one final response, then silence. ProcessResponse and *)
(* stallMonitor of progress.go rely on it: a WORKING response that follows a *)
(* final one counts as out of order and is ignored.                          *)
(***************************************************************************)

VARIABLES
    wire,       \* the last response published, "silent" before the first
    stopped     \* Done, Error, Cancel or Kill has returned

Final == {"COMPLETE", "ERROR", "CANCELLED"}

vars == <<wire, stopped>>

Init == wire = "silent" /\ stopped = FALSE

SayWorking ==
    /\ ~stopped
    /\ wire' = "WORKING"
    /\ UNCHANGED stopped

Stop ==
    /\ ~stopped
    /\ wire' \in Final \cup {wire}
    /\ stopped' = TRUE

Next == SayWorking \/ Stop

Spec == Init /\ [][Next]_vars

=============================================================================
