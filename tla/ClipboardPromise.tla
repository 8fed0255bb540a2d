--------------------------- MODULE ClipboardPromise ---------------------------
(***************************************************************************)
(* What the clipboard promises, whichever backend is behind it             *)
(* (nack_window.h:342, nack.hpp:563): a read in time answers with a whole  *)
(* text that was on the clipboard, or that this program had asked to put   *)
(* there, at some time since the program last heard from the window        *)
(* system, or with nothing.  One whose deadline cut it short answers with  *)
(* what had come of one such text.  Where a deadline left a conversation   *)
(* open, nothing is promised of a read until that is over.                 *)
(***************************************************************************)
CONSTANTS Text, Nothing

VARIABLES
  text,    \* what is on the clipboard
  asked,   \* what this program asked for and the system has not dealt with
  seen,    \* what was there or asked for since the program last heard
  answer,  \* what the last read answered: pieces of texts
  late     \* whether it was in time: "no", "cut" or "open"

vars == <<text, asked, seen, answer, late>>

Content == Text \cup {Nothing}

\* A text is two pieces, one after the other.
Start(t) == <<<<t, 1>>>>
All(t)   == <<<<t, 1>>, <<t, 2>>>>

Init ==
  /\ text \in Content /\ asked = {}
  /\ seen = {text} /\ answer = Nothing /\ late = "no"

\* Somebody changes what is on the clipboard: another program, or this one
\* where the system answers at once.
Put ==
  /\ text' \in Content /\ seen' = seen \cup {text'}
  /\ UNCHANGED <<asked, answer, late>>

\* This program asks for a text.
Ask ==
  /\ \E t \in Text : asked' = asked \cup {t} /\ seen' = seen \cup {t}
  /\ UNCHANGED <<text, answer, late>>

\* The system does as it was asked, or not.
Deal ==
  /\ asked' \in SUBSET asked
  /\ text' \in {text} \cup asked \cup {Nothing} /\ seen' = seen \cup {text'}
  /\ UNCHANGED <<answer, late>>

\* The program hears from the window system.
Hear ==
  /\ seen' = {text} \cup asked
  /\ UNCHANGED <<text, asked, answer, late>>

\* A read ends.
Answer ==
  /\ late' \in {"no", "cut", "open"}
  /\ late' # "open" =>
       \/ answer' = Nothing
       \/ \E t \in Text \cap seen' :
            answer' = All(t) \/ (late' = "cut" /\ answer' = Start(t))
  /\ seen' \in {seen, {text} \cup asked}
  /\ UNCHANGED <<text, asked>>

Next == Put \/ Ask \/ Deal \/ Hear \/ Answer

Spec == Init /\ [][Next]_vars
=============================================================================
