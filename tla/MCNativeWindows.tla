---------------------------- MODULE MCNativeWindows ----------------------------
(* NativeWindows with two sizes, a larger screen and two scales. *)
EXTENDS NativeWindows

CONSTANTS lshift, rshift, caps, command, letter, left, extra

MCMoves == [x11 |-> 5, win32 |-> 6, cocoa |-> 6]
=============================================================================
