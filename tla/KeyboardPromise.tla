---------------------------- MODULE KeyboardPromise ----------------------------
(***************************************************************************)
(* What the window layer promises of the keyboard, whichever backend is    *)
(* behind it (nack_window.h:304, "Instantaneous input state"): one window  *)
(* at a time has the focus, keys change only while one does, focus passes  *)
(* through a moment when none has it, and losing it lets go of every key.  *)
(* Only a window that is destroyed takes the focus away with keys down.    *)
(***************************************************************************)
CONSTANTS Window, Key, NoWindow

VARIABLES
  live,   \* the windows there are
  focus,  \* the window the application was last told has the focus
  down    \* the keys nack__win_key_is_down answers true for

vars == <<live, focus, down>>

Init == live = {} /\ focus = NoWindow /\ down = {}

Create(w) ==
  /\ w \notin live
  /\ live' = live \cup {w}
  /\ UNCHANGED <<focus, down>>

Destroy(w) ==
  /\ w \in live
  /\ live' = live \ {w}
  /\ focus' = IF focus = w THEN NoWindow ELSE focus
  /\ UNCHANGED down

Gain(w) ==
  /\ focus = NoWindow /\ w \in live
  /\ focus' = w
  /\ UNCHANGED <<live, down>>

Lose ==
  /\ focus # NoWindow
  /\ focus' = NoWindow /\ down' = {}
  /\ UNCHANGED live

Press(k) ==
  /\ focus # NoWindow
  /\ down' = down \cup {k}
  /\ UNCHANGED <<live, focus>>

\* One message may release several keys: Windows reports two shifts at once.
Release(K) ==
  /\ focus # NoWindow
  /\ down' = down \ K
  /\ UNCHANGED <<live, focus>>

\* The window layer is shut down.
Reset == live' = {} /\ focus' = NoWindow /\ down' = {}

Next ==
  \/ \E w \in Window : Create(w) \/ Destroy(w) \/ Gain(w)
  \/ Lose
  \/ \E k \in Key : Press(k)
  \/ \E K \in SUBSET Key : Release(K)
  \/ Reset

Spec == Init /\ [][Next]_vars
=============================================================================
