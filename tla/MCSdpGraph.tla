----------------------------- MODULE MCSdpGraph -----------------------------
(* Instance of SdpGraph for TLC: items with at most two links in all, which *)
(* may go to one name twice, and to the item itself.                        *)
EXTENDS SdpGraph, Functions

MCLinks == {links \in [Names -> 0 .. 2] : FoldFunction(+, 0, links) <= 2}
============================================================================
