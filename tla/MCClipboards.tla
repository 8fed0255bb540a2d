------------------------------ MODULE MCClipboards ------------------------------
(* Clipboards with two texts. *)
EXTENDS Clipboards

CONSTANTS t1, t2, nothing

MCMoves == [x11 |-> 3, wayland |-> 5, primary |-> 4, win32 |-> 4, cocoa |-> 4]
=============================================================================
