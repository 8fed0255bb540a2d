----------------------------- MODULE NativeWindow -----------------------------
(***************************************************************************)
(* What the X11, Win32 and Cocoa windows of libnack have in common: struct *)
(* nack_window (nack_internal.h), the keys and buttons nack_state latches, *)
(* the emitters of nack.cpp that change them, and the other side of the    *)
(* conversation, the window as the server or the system has it.            *)
(*                                                                         *)
(* A handler is an operator from a state n to the next, so that a handler  *)
(* that calls others is their composition.  One dimension stands for the   *)
(* two a size has.  Events the console hides (move, expose, minimise and   *)
(* friends) are left out, and so is the captured pointer, which no public  *)
(* call asks for.                                                          *)
(***************************************************************************)
EXTENDS Naturals, Sequences, FiniteSets

CONSTANTS
  Size,       \* sizes a window may be given
  Screen,     \* the size of the screen
  Scale,      \* content scales
  Key,        \* keys
  Modifier,   \* the modifiers among them
  Shift,      \* the two shift keys among those
  Lock,       \* Caps Lock; a Mac says whether it is locked, not whether it is down
  Command,    \* the Command keys, under which AppKit keeps key releases
  Button,     \* buttons
  Extra,      \* the buttons beyond left, middle and right
  MaxWire,    \* bound: messages in flight to libnack
  MaxMoves    \* bound: calls of the program and acts of the user, on each backend

ASSUME NativeAssumption ==
  /\ Size \subseteq Nat \ {0} /\ Screen \in Nat \ {0}
  /\ 1 \in Scale /\ Scale \subseteq Nat \ {0}
  /\ Modifier \subseteq Key /\ Shift \subseteq Modifier /\ Extra \subseteq Button
  /\ Lock \subseteq Modifier \ Shift /\ Command \subseteq Modifier \ Lock
  /\ MaxWire \in Nat /\ MaxMoves \in [{"x11", "win32", "cocoa"} -> Nat]

VARIABLES
  backend,   \* "x11", "win32" or "cocoa"
  w,         \* struct nack_window, with the keys and buttons of nack_state
  told,      \* what the program knows from the RESIZE events it has read
  sys,       \* the window and the input devices as they are
  wire,      \* messages to libnack, oldest first
  requests,  \* X11: requests to the server, oldest first
  moves      \* calls and user acts so far

vars == <<backend, w, told, sys, wire, requests, moves>>

Unsized == 0

-----------------------------------------------------------------------------
(* One step *)

Now == [w |-> w, told |-> told, sys |-> sys, wire |-> wire, requests |-> requests]

Becomes(n) ==
  /\ w' = n.w /\ told' = n.told /\ sys' = n.sys /\ wire' = n.wire
  /\ requests' = n.requests
  /\ Len(n.wire) <= MaxWire /\ Len(n.requests) <= MaxWire

\* A call of the program or an act of the user on the backend b.
Move(b) ==
  /\ backend = b /\ w.live
  /\ moves < MaxMoves[b] /\ moves' = moves + 1
  /\ UNCHANGED backend

\* A step of libnack, of the server or of the system.
Step(b) == backend = b /\ UNCHANGED <<backend, moves>>

Tell(n, m) == [n EXCEPT !.wire = Append(@, m)]

-----------------------------------------------------------------------------
(* The emitters of nack.cpp *)

\* Mutant: only the size is compared, not the framebuffer.
EmitResizeBySize(n, size, fb) ==
  IF n.w.size = size THEN n
  ELSE [n EXCEPT !.w.size = size, !.w.fb = fb,
                 !.told = [size |-> size, fb |-> fb]]

\* nack__emit_resize: nothing at all when no size has changed.
EmitResize(n, size, fb) ==
  IF n.w.size = size /\ n.w.fb = fb THEN n
  ELSE [n EXCEPT !.w.size = size, !.w.fb = fb,
                 !.told = [size |-> size, fb |-> fb]]

\* nack__emit_scale; the console hides the event.
EmitScale(n, scale) == [n EXCEPT !.w.scale = scale]

\* Mutant: keys stay latched.
EmitFocusLatched(n, focused) == [n EXCEPT !.w.focused = focused]

\* nack__emit_focus: losing it lets go of every key.
EmitFocus(n, focused) ==
  IF n.w.focused = focused THEN n
  ELSE [n EXCEPT !.w.focused = focused,
                 !.w.keys = IF focused THEN @ ELSE {}]

\* nack__emit_key
EmitKey(n, key, down) ==
  [n EXCEPT !.w.keys = IF down THEN @ \cup {key} ELSE @ \ {key}]

\* nack__emit_mouse_button
EmitButton(n, b, down) ==
  [n EXCEPT !.w.buttons = IF down THEN @ \cup {b} ELSE @ \ {b}]

\* WM_DELETE_WINDOW, WM_CLOSE and windowShouldClose: the program decides.
EmitClose(n) == [n EXCEPT !.w.closing = TRUE]

-----------------------------------------------------------------------------
(* States *)

\* struct nack_window: a window nobody has seen yet, of the given size and
\* scale, whose framebuffer has fb pixels.
Created(size, fb, scale, resizable) ==
  [live |-> TRUE, size |-> size, fb |-> fb, scale |-> scale, resizable |-> resizable,
   visible |-> FALSE, minimized |-> FALSE, maximized |-> FALSE,
   fullscreen |-> FALSE, focused |-> FALSE, closing |-> FALSE,
   restore |-> Unsized, keys |-> {}, buttons |-> {}]

NoWindow == [Created(Unsized, Unsized, 1, FALSE) EXCEPT !.live = FALSE]

\* The system's side: the size of the content, the size it has outside
\* fullscreen and zoom, what the user sees and what the user holds down.
\*   refused  the window manager has not obeyed a request for fullscreen
\*   here     the buttons held down
\*   strayed  buttons pressed over the window whose release it is not told of
\*   held     the keys down; of Caps Lock on a Mac, whether it is locked
\*   odd      modifiers that were down when the window got the focus
\*   crossed  keys on their way when the window went out of sight, and those
\*            whose release AppKit kept while the window had the focus
\*   fresh    keys pressed since, and still down
Unseen(size, scale) ==
  [size |-> size, normal |-> size, scale |-> scale, shown |-> FALSE, mini |-> FALSE,
   zoomed |-> FALSE, full |-> "no", refused |-> FALSE, focused |-> FALSE,
   held |-> {}, odd |-> {}, crossed |-> {}, fresh |-> {},
   here |-> {}, strayed |-> {}, capture |-> FALSE]

\* The content takes the size that goes with the state of the window.
Fitted(s) ==
  [s EXCEPT !.size = IF s.full = "yes" \/ s.zoomed THEN Screen ELSE s.normal]

Quiet == wire = << >> /\ requests = << >>

-----------------------------------------------------------------------------
(* The window's life *)

\* How nack_console_state::init leaves the window: the framebuffer is read
\* once, and what the RESIZE events say follows.
Opened(n) == [n EXCEPT !.told.fb = n.w.fb]

Fresh(size, fb, scale, resizable) ==
  [w |-> Created(size, fb, scale, resizable), told |-> [size |-> Unsized, fb |-> fb],
    sys |-> Unseen(size, scale),
   wire |-> << >>, requests |-> << >>]

\* nack_console_state::shutdown, down to nack_window_destroy: what is still on
\* its way to the window finds nobody.
Shut ==
  /\ w.live
  /\ moves < MaxMoves[backend] /\ moves' = MaxMoves[backend] /\ UNCHANGED backend
  /\ Becomes([w |-> NoWindow, told |-> [size |-> Unsized, fb |-> Unsized],
              sys |-> Unseen(Unsized, 1), wire |-> << >>, requests |-> << >>])

-----------------------------------------------------------------------------
(* The user at the keyboard of a window system that keeps the focus itself *)

\* A key goes down or up: the window with the focus is told, unless the system
\* is quiet about it.
Typed(n, k, down, quiet) ==
  LET held == IF down THEN n.sys.held \cup {k} ELSE n.sys.held \ {k}
      m    == [n EXCEPT !.sys.held = held,
                        !.sys.fresh = IF ~down THEN @ \ {k}
                                      ELSE IF n.sys.focused /\ ~quiet THEN @ \cup {k} ELSE @]
  IN IF n.sys.focused /\ ~quiet
     THEN Tell(m, [type |-> "key", key |-> k, down |-> down, held |-> held])
     ELSE m

\* The system gives the focus to the window or takes it away.
Focused(n, on) ==
  [n EXCEPT !.sys.focused = on, !.sys.fresh = {},
            !.sys.odd = IF on THEN n.sys.held \cap Modifier ELSE {},
            !.sys.crossed = IF on THEN @ ELSE {}]

\* The keys there are messages of.
Underway(messages) ==
  {k \in Key : \E i \in DOMAIN messages : messages[i].type = "key" /\ messages[i].key = k}

\* A window that goes out of sight loses the focus there and then, and the
\* buttons held over it are let go of elsewhere.  Keys that were on their way
\* will be taken for new ones if it has the focus again when they arrive.
Unfocused(n) ==
  EmitFocus([Focused(n, FALSE) EXCEPT !.sys.capture = FALSE,
                                      !.sys.crossed = Underway(n.wire),
                                      !.sys.strayed = @ \cup n.sys.here \cup n.w.buttons], FALSE)

\* A key goes to the window that has the focus when it is its turn.
HasFocus(n) == n.w.focused
=============================================================================
