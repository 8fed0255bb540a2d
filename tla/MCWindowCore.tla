---------------------------- MODULE MCWindowCore ----------------------------
(* WindowCore with two windows, two keys and one GL context. *)
EXTENDS WindowCore, TLC

Symmetry == Permutations(Window) \cup Permutations(Key)
=============================================================================
