----------------------------- MODULE MCWaylandSeat -----------------------------
(* Instance of WaylandSeat for TLC. *)
EXTENDS WaylandSeat, TLC

Symmetry == Permutations(Window)
=============================================================================
