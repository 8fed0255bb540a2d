------------------------------ MODULE Win32Window ------------------------------
(***************************************************************************)
(* The Win32 window (win32/nack_win32.cpp).  What the program asks for is  *)
(* done at once: Windows calls the window procedure from inside the call.  *)
(* Input waits in the thread's message queue; who gets a message is settled*)
(* when it is taken out, keys by the focus, buttons by the capture and by  *)
(* where the pointer was.                                                  *)
(***************************************************************************)
EXTENDS NativeWindow

-----------------------------------------------------------------------------
(* nack__win32_wndproc *)

\* WM_SIZE: a window that is minimised has no size worth telling.
WmSize(n) ==
  LET m == [n EXCEPT !.w.minimized = n.sys.mini,
                     !.w.maximized = n.sys.zoomed /\ ~n.sys.mini]
  IN IF n.sys.mini THEN m ELSE EmitResize(m, n.sys.size, n.sys.size)

\* SetWindowPos: the new client size takes effect unless the window is
\* minimised, and WM_SIZE comes if it is another one.
WSetWindowPos(n, s) ==
  IF n.sys.mini THEN [n EXCEPT !.sys.normal = s]
  ELSE LET m == [n EXCEPT !.sys.size = s,
                          !.sys.normal = IF n.sys.zoomed THEN @ ELSE s]
       IN IF n.sys.size = s THEN m ELSE WmSize(m)

\* WM_DPICHANGED: the window keeps its physical size, then the scale is told.
WmDpiChanged(n, scale) ==
  LET kept == IF n.sys.size * scale >= n.sys.scale
              THEN (n.sys.size * scale) \div n.sys.scale ELSE 1
  IN EmitScale(WSetWindowPos([n EXCEPT !.sys.scale = scale], kept), scale)

\* WM_TIMER in the modal loop of a drag: nack__win32_update_size.
WmTimer(n) == EmitResize(n, n.sys.size, n.sys.size)

\* WM_KEYDOWN and WM_KEYUP: the release of a shift releases every shift that
\* is latched and no longer down.
WmKey(n, m) ==
  IF ~HasFocus(n) THEN n
  ELSE IF m.key \in Shift /\ ~m.down THEN [n EXCEPT !.w.keys = @ \ (Shift \ m.held)]
  ELSE EmitKey(n, m.key, m.down)

Primary == Button \ Extra

\* Mutant: the capture is given up with every release.
WmButtonUncaptured(n, m) ==
  LET taken == (m.inside /\ n.sys.shown /\ ~n.sys.mini) \/ n.sys.capture
      held  == n.sys.capture \/ n.w.buttons \cap Primary = {}
      down  == [EmitButton(n, m.button, TRUE) EXCEPT
                  !.sys.capture = held,
                  !.sys.strayed = IF held THEN @ \ {m.button} ELSE @ \cup {m.button}]
      up    == [EmitButton(n, m.button, FALSE) EXCEPT !.sys.strayed = @ \ {m.button}]
  IN IF taken THEN IF m.down THEN down ELSE [up EXCEPT !.sys.capture = FALSE]
     ELSE [n EXCEPT !.sys.strayed = IF m.down THEN @ ELSE @ \cup ({m.button} \cap Extra)]

\* WM_xBUTTONDOWN and WM_xBUTTONUP: a press with none of the three main
\* buttons latched takes the capture, the release of the last gives it up.  A
\* button that went astray stays latched, and those after it go uncaptured.
WmButton(n, m) ==
  LET taken == (m.inside /\ n.sys.shown /\ ~n.sys.mini) \/ n.sys.capture
      held  == n.sys.capture \/ n.w.buttons \cap Primary = {}
      down  == [EmitButton(n, m.button, TRUE) EXCEPT
                  !.sys.capture = held,
                  !.sys.strayed = IF held THEN @ \ {m.button} ELSE @ \cup {m.button}]
      up    == [EmitButton(n, m.button, FALSE) EXCEPT !.sys.strayed = @ \ {m.button}]
      free  == up.w.buttons \cap Primary = {}
  IN IF taken
     THEN IF m.down THEN down ELSE [up EXCEPT !.sys.capture = @ /\ ~free]
     ELSE [n EXCEPT !.sys.strayed = IF m.down THEN @ ELSE @ \cup ({m.button} \cap Extra)]

\* nack__win32_drain, one message of it.
WHandle(n, m) ==
  CASE m.type = "key"    -> WmKey(n, m)
    [] m.type = "button" -> WmButton(n, m)
    [] m.type = "focus"  -> IF m.on /\ ~n.sys.focused THEN n ELSE EmitFocus(n, m.on)
    [] m.type = "close"  -> EmitClose(n)

WDispatch ==
  /\ Step("win32")
  /\ wire # << >>
  /\ Becomes(WHandle([Now EXCEPT !.wire = Tail(@)], Head(wire)))

-----------------------------------------------------------------------------
(* What the program calls *)

\* nack__win32_window_create: the size is applied again at the real DPI.
WCreated(size, scale) == WSetWindowPos(Fresh(size, size, scale, TRUE), size * scale)

\* ShowWindow: SW_SHOWNA shows a minimised window as it is.
WShow(n, show) ==
  LET m == [n EXCEPT !.sys.shown = show, !.w.visible = show]
  IN IF show THEN WmSize(m) ELSE Unfocused(m)

\* nack__win32_window_set_fullscreen: a frameless window the size of the
\* monitor, if Windows says which, and back to the rectangle it had, which for
\* a minimised window is that of its icon.
WSetFullscreen(n, on, monitor) ==
  IF on /\ ~n.w.fullscreen
  THEN LET m == [n EXCEPT !.w.restore = IF n.sys.mini THEN 1 ELSE n.sys.size]
       IN IF ~monitor THEN m
          ELSE [WSetWindowPos([m EXCEPT !.sys.full = "yes"], Screen)
                  EXCEPT !.w.fullscreen = TRUE]
  ELSE IF ~on /\ n.w.fullscreen
  THEN [WSetWindowPos([n EXCEPT !.sys.full = "no"], n.w.restore)
          EXCEPT !.w.fullscreen = FALSE]
  ELSE n

\* ShowWindow with SW_MINIMIZE, SW_MAXIMIZE and SW_RESTORE; the user's buttons
\* in the title bar do the same.
WMinimize(n) == Unfocused(WmSize([n EXCEPT !.sys.mini = TRUE]))

WMaximize(n) ==
  WmSize([n EXCEPT !.sys.mini = FALSE, !.sys.zoomed = TRUE, !.sys.shown = TRUE,
                   !.sys.size = Screen])

WUnzoom(n) ==
  LET back == [n.sys EXCEPT !.mini = FALSE, !.shown = TRUE,
                            !.zoomed = @ /\ n.sys.mini]
  IN WmSize([n EXCEPT !.sys = [back EXCEPT !.size = IF back.zoomed THEN Screen
                                                    ELSE back.normal]])

\* nack__win32_window_restore
WRestore(n) == WUnzoom(IF n.w.fullscreen THEN WSetFullscreen(n, FALSE, TRUE) ELSE n)

\* nack_console_state::init: create, size, perhaps fullscreen, show.
WOpen ==
  /\ backend = "win32" /\ ~w.live /\ moves = 0
  /\ moves' = 1 /\ UNCHANGED backend
  /\ \E s, t \in Size, c \in Scale, full \in BOOLEAN :
       LET sized == WSetWindowPos(WCreated(s, c), t)
       IN Becomes(Opened(WShow(IF full THEN WSetFullscreen(sized, TRUE, TRUE) ELSE sized,
                               TRUE)))

WCall ==
  /\ Move("win32")
  /\ \/ \E show \in BOOLEAN : Becomes(WShow(Now, show))
     \/ \E s \in Size : Becomes(WSetWindowPos(Now, s))
     \/ \E on, monitor \in BOOLEAN : Becomes(WSetFullscreen(Now, on, monitor))
     \/ Becomes(WMinimize(Now))
     \/ Becomes(WMaximize(Now))
     \/ Becomes(WRestore(Now))

-----------------------------------------------------------------------------
(* The user and the system *)

WUser ==
  /\ Move("win32")
  /\ sys.shown
  /\ \/ \E s \in Size : ~sys.mini /\ ~sys.zoomed /\ Becomes(WmTimer(WSetWindowPos(Now, s)))
     \/ \E c \in Scale \ {sys.scale} : Becomes(WmDpiChanged(Now, c))
     \/ Becomes(Tell(Now, [type |-> "close"]))
     \/ \E on \in BOOLEAN : /\ on # sys.focused /\ ~sys.mini
                            /\ Becomes(Tell(Focused(Now, on), [type |-> "focus", on |-> on]))
     \/ \E k \in Key \ sys.held : Becomes(Typed(Now, k, TRUE, FALSE))
     \* Of two shifts held down the first to go up sends nothing.
     \/ \E k \in sys.held :
          Becomes(Typed(Now, k, FALSE, k \in Shift /\ sys.held \cap Shift # {k}))
     \/ \E b \in Button \ sys.here :
          Becomes(Tell([Now EXCEPT !.sys.here = @ \cup {b}],
                       [type |-> "button", button |-> b, down |-> TRUE, inside |-> TRUE]))
     \/ \E b \in sys.here, inside \in BOOLEAN :
          Becomes(Tell([Now EXCEPT !.sys.here = @ \ {b}],
                       [type |-> "button", button |-> b, down |-> FALSE, inside |-> inside]))

WNext == WOpen \/ WCall \/ WUser \/ WDispatch
=============================================================================
