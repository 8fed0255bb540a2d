------------------------- MODULE MCX11SelectionOwner -------------------------
(* X11SelectionOwner with a text of two pieces and one that needs none. *)
EXTENDS X11SelectionOwner

CONSTANTS t1, t2

MCPieces == (t1 :> 2) @@ (t2 :> 1)
=============================================================================
