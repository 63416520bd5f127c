--------------------------- MODULE QueryContract ---------------------------
(***************************************************************************)
(* What a query promises to the program that started it and to those who   *)
(* cancel it: the channels are given once and closed together, once;       *)
(* everything is delivered at most once and only while they are open; a    *)
(* caller returns only when nothing can be delivered any more.  Of a       *)
(* responder it keeps the last word, which only an announced but missing   *)
(* report may replace.                                                     *)
(***************************************************************************)

CONSTANTS Messages, Responders, Callers, Kinds, Final

VARIABLES
    chans,      \* "unset", "nil", "open" or "closed", for each kind
    delivered,  \* what the reader got: a kind and a message each
    reading,    \* the channels the reader still receives from
    word,       \* the last word about each responder, "NONE" before it speaks
    announced,  \* the responders that ever announced another report
    returned    \* the callers that were told the query is over

vars == <<chans, delivered, reading, word, announced, returned>>

Init ==
    /\ chans = [k \in Kinds |-> "unset"]
    /\ delivered = {}
    /\ reading = Kinds
    /\ word = [r \in Responders |-> "NONE"]
    /\ announced = {}
    /\ returned = {}

Open ==
    /\ \A k \in Kinds : chans[k] = "unset"
    /\ chans' \in [Kinds -> {"open", "nil"}]
    /\ \E k \in Kinds : chans'[k] = "open"
    /\ returned = {}
    /\ UNCHANGED <<delivered, reading, word, announced, returned>>

Deliver(k, m) ==
    /\ chans[k] = "open" /\ k \in reading
    /\ \A got \in delivered : got.msg # m
    /\ delivered' = delivered \cup {[kind |-> k, msg |-> m]}
    /\ UNCHANGED <<chans, reading, word, announced, returned>>

Close ==
    /\ \E k \in Kinds : chans[k] = "open"
    /\ chans' = [k \in Kinds |-> IF chans[k] = "open" THEN "closed" ELSE chans[k]]
    /\ UNCHANGED <<delivered, reading, word, announced, returned>>

StopReading(k) ==
    /\ chans[k] = "closed"
    /\ reading' = reading \ {k}
    /\ UNCHANGED <<chans, delivered, word, announced, returned>>

Report(r) ==
    /\ word[r] \notin Final
    /\ \E said \in Final \cup {"WORKING"} : word' = [word EXCEPT ![r] = said]
    /\ announced' \in {announced, announced \cup {r}}
    /\ UNCHANGED <<chans, delivered, reading, returned>>

Miss(r) ==
    /\ r \in announced
    /\ word' = [word EXCEPT ![r] = "STALLED"]
    /\ UNCHANGED <<chans, delivered, reading, announced, returned>>

Return(c) ==
    /\ \A k \in Kinds : chans[k] \in {"closed", "nil"}
    /\ returned' = returned \cup {c}
    /\ UNCHANGED <<chans, delivered, reading, word, announced>>

Next ==
    \/ Open \/ Close
    \/ \E k \in Kinds : StopReading(k) \/ \E m \in Messages : Deliver(k, m)
    \/ \E r \in Responders : Report(r) \/ Miss(r)
    \/ \E c \in Callers : Return(c)

Spec == Init /\ [][Next]_vars
=============================================================================
