---------------------------- MODULE MCWaylandFrame ----------------------------
(* WaylandFrame with a window wider than its buttons and corners, one that   *)
(* is narrower, and a screen.                                                *)
EXTENDS WaylandFrame

MCSizes   == {[w |-> 40, h |-> 20], [w |-> 200, h |-> 60]}
MCScreen  == [w |-> 240, h |-> 100]
MCLargest == [w |-> 240, h |-> 100]
=============================================================================
