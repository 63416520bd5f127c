-------------------------- MODULE MCQueryProgress --------------------------
(* Small instances of QueryProgress for TLC.                               *)
EXTENDS QueryProgress, TLC

CONSTANTS r1, r2, m1, m2, h1, h2

Says(r, s, n) == [type |-> "response", from |-> r, state |-> s, next |-> n]

Item == [type |-> "item"]
Err  == [type |-> "error"]
Odd  == [type |-> "unknown"]

\* Items, errors, a response without a responder, and for each responder the
\* first response, the last one, and a failure that still announces another.
MCContents ==
    {Item, Err, Says(None, "COMPLETE", FALSE)}
        \cup {Says(r, "WORKING", TRUE) : r \in Responders}
        \cup {Says(r, "COMPLETE", FALSE) : r \in Responders}
        \cup {Says(r, "ERROR", TRUE) : r \in Responders}

\* For the liveness runs: a responder that works may finish or die, and
\* something unknown may arrive.
MCContentsKnown ==
    {Item} \cup {Says(r, "WORKING", TRUE) : r \in Responders}
           \cup {Says(r, "COMPLETE", FALSE) : r \in Responders}

MCContentsLive == MCContentsKnown \cup {Odd}

MCContentsWorking == {Item, Says(r1, "WORKING", TRUE)}

MCSymmetry ==
    Permutations(Responders) \cup Permutations(Msgs) \cup Permutations(Handlers)
=============================================================================
