--------------------------- MODULE MCConsoleLifetime ---------------------------
(* ConsoleLifetime with room for the built-in font, the configured sheet and *)
(* the program's.  Which of the addresses, or of the handles, is which makes *)
(* no difference to it.                                                      *)
EXTENDS ConsoleLifetime

CONSTANTS t1, t2, t3, h1, h2

Interchangeable == Permutations(Address) \cup Permutations(Handle)

=============================================================================
