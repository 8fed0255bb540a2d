--------------------------- MODULE MCWaylandConsole ---------------------------
(* WaylandConsole with outputs that are interchangeable and a choice of      *)
(* windows: with limits, without, and with the fractional scale protocol.    *)
EXTENDS WaylandConsole

Free == [min |-> 0, max |-> 0, inc |-> 0]
Plain   == [fractional |-> FALSE, limits |-> Free]
Bounded == [fractional |-> FALSE, limits |-> [min |-> 1, max |-> 6, inc |-> 3]]
Smooth  == [fractional |-> TRUE, limits |-> Free]

MCSetups == {Plain, Bounded, Smooth}

MCConfigs ==
  {[setup |-> Plain,  auto |-> FALSE, scaling |-> "integer"],
   [setup |-> Bounded, auto |-> TRUE,  scaling |-> "integer"],
   [setup |-> Smooth, auto |-> TRUE,  scaling |-> "stretch"]}

MCProposals ==
  {[width |-> 0, maximized |-> FALSE, fullscreen |-> FALSE],
   [width |-> 6, maximized |-> TRUE,  fullscreen |-> TRUE]}

Symmetry == Permutations(Output)
=============================================================================
