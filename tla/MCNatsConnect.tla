--------------------------- MODULE MCNatsConnect ---------------------------
(* Instance of NatsConnect for TLC: no retry, a few, and retrying for ever; *)
(* two reconnects, and what MaxReconnects is when it is not set.            *)
EXTENDS NatsConnect

MCRetries == {-1, 0, 2}
MCReconnects == {0, 2}
============================================================================
