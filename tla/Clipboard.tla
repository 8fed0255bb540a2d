------------------------------- MODULE Clipboard -------------------------------
(***************************************************************************)
(* What the clipboards of the backends have in common: a text is two       *)
(* pieces, because what can be torn is what arrives in more than one; a    *)
(* read is whole, torn or nothing; and the texts that were there since     *)
(* libnack last heard from the window system are remembered, for the       *)
(* properties to look at.                                                  *)
(***************************************************************************)
EXTENDS Naturals, Sequences, FiniteSets

CONSTANTS
  Text,      \* texts
  Nothing,   \* no text: an empty clipboard, or one that holds a picture
  MaxWire,   \* bound: messages in flight to libnack
  MaxMoves   \* bound: calls of the program and acts of the others, by backend

Piece(t, i) == <<t, i>>
Whole(t) == <<Piece(t, 1), Piece(t, 2)>>

ASSUME ClipboardAssumption ==
  /\ Nothing \notin Text /\ MaxWire \in Nat
  /\ \A t \in Text : Whole(t) # Nothing
  /\ MaxMoves \in [{"x11", "wayland", "primary", "win32", "cocoa"} -> Nat]

VARIABLES
  backend,   \* "x11", "wayland" or, for its primary selection, "primary", "win32", "cocoa"
  board,     \* whose text is on the clipboard, and which
  lib,       \* what libnack keeps
  server,    \* what waits at the server: X11's property, Wayland's requests
  peer,      \* the other programs
  wire,      \* messages to libnack, oldest first
  seen,      \* history: the texts of the clipboard since libnack last heard
  last,      \* the last read: what it answered and whether that is excused
  moves

vars == <<backend, board, lib, server, peer, wire, seen, last, moves>>

Now == [board |-> board, lib |-> lib, server |-> server, peer |-> peer,
        wire |-> wire, seen |-> seen, last |-> last]

Becomes(n) ==
  /\ board' = n.board /\ lib' = n.lib /\ server' = n.server /\ peer' = n.peer
  /\ wire' = n.wire /\ seen' = n.seen /\ last' = n.last
  /\ Len(n.wire) <= MaxWire

Move(b) ==
  /\ backend = b
  /\ moves < MaxMoves[b] /\ moves' = moves + 1
  /\ UNCHANGED backend

Step(b) == backend = b /\ UNCHANGED <<backend, moves>>

Tell(n, m) == [n EXCEPT !.wire = Append(@, m)]

\* The clipboard gets another owner and content.
OnBoard(n, owner, t) ==
  [n EXCEPT !.board = [owner |-> owner, text |-> t], !.seen = @ \cup {t}]

\* libnack has heard everything there is to hear.
Heard(n) == [n EXCEPT !.seen = {n.board.text}]

\* A read ends, and answers with the pieces v it has, in time or late.  In time
\* it owes a text when one was there all the while and nothing excuses it;
\* something may have been dragged over the window.
Ends(n, v, excused) ==
  [n EXCEPT !.lib.pc = "idle", !.lib.buffer = << >>,
            !.last = [answer |-> IF v = << >> THEN Nothing ELSE v,
                      late |-> n.lib.late, dragged |-> n.lib.dragged,
                      owed |-> ~excused /\ ~n.lib.late /\ Nothing \notin n.seen]]

NoRead == [answer |-> Nothing, late |-> FALSE, dragged |-> FALSE, owed |-> FALSE]
=============================================================================
