------------------------------- MODULE X11Window -------------------------------
(***************************************************************************)
(* The X11 window (xcb/nack_xcb.cpp): a request goes to the server and on  *)
(* to the window manager, which does as it likes and says so in an event;  *)
(* some of what was asked is taken for granted meanwhile.  The keyboard of *)
(* this backend is in WindowCore.                                          *)
(***************************************************************************)
EXTENDS NativeWindow

XSend(n, r) == [n EXCEPT !.requests = Append(@, r)]

XRequest(op, size, on) == [op |-> op, size |-> size, on |-> on]

-----------------------------------------------------------------------------
(* What the program calls *)

\* nack_window_show and nack_window_hide: visible at once.
XShow(n, show) ==
  [XSend(n, XRequest("map", 0, show)) EXCEPT !.w.visible = show]

\* nack__xcb_window_set_size: a window that cannot be resized has its hints,
\* and with them its size, changed before the server answers.
XSetSize(n, size) ==
  XSend(IF n.w.resizable THEN n ELSE [n EXCEPT !.w.size = size],
        XRequest("configure", size, TRUE))

\* nack__xcb_window_set_fullscreen: nothing under a window manager that has no
\* fullscreen, and otherwise taken for done.
XSetFullscreen(n, on, supported) ==
  IF supported THEN [XSend(n, XRequest("fullscreen", 0, on)) EXCEPT !.w.fullscreen = on]
  ELSE n

\* nack__xcb_window_restore undoes whatever libnack believes is there.
XRestore(n, supported) ==
  LET a == IF n.w.fullscreen THEN XSetFullscreen(n, FALSE, supported) ELSE n
      b == IF n.w.maximized THEN XSend(a, XRequest("maximize", 0, FALSE)) ELSE a
  IN IF n.w.minimized THEN XSend(b, XRequest("map", 0, TRUE)) ELSE b

\* nack__xcb_window_maximize and nack__xcb_window_minimize
XMaximize(n) == XSend(n, XRequest("maximize", 0, TRUE))

XMinimize(n) == XSend(n, XRequest("iconify", 0, TRUE))

\* nack_console_state::init: create, size, perhaps fullscreen, show.
XOpen ==
  /\ backend = "x11" /\ ~w.live /\ moves = 0
  /\ moves' = 1 /\ UNCHANGED backend
  /\ \E s, t \in Size, r, full \in BOOLEAN :
       LET sized == XSetSize(Fresh(s, s, 1, r), t)
       IN Becomes(Opened(XShow(IF full THEN XSetFullscreen(sized, TRUE, TRUE) ELSE sized, TRUE)))

XCall ==
  /\ Move("x11")
  /\ \/ \E show \in BOOLEAN : Becomes(XShow(Now, show))
     \/ \E s \in Size : Becomes(XSetSize(Now, s))
     \/ \E on, supported \in BOOLEAN : Becomes(XSetFullscreen(Now, on, supported))
     \/ Becomes(XMaximize(Now))
     \/ Becomes(XMinimize(Now))
     \/ \E supported \in BOOLEAN : Becomes(XRestore(Now, supported))

-----------------------------------------------------------------------------
(* The server and the window manager *)

\* A size change is announced, and so is one that was refused (ICCCM 4.1.5).
XSized(n, s) ==
  LET after == Fitted(s)
  IN IF after.size = n.sys.size THEN [n EXCEPT !.sys = after]
     ELSE Tell([n EXCEPT !.sys = after], [type |-> "configure", size |-> after.size])

XProperty(n) == Tell(n, [type |-> "property"])

XMapped(n, shown) ==
  IF n.sys.shown = shown THEN n
  ELSE LET m == [n EXCEPT !.sys.shown = shown,
                          !.sys.strayed = IF shown THEN @ ELSE @ \cup n.sys.here,
                          !.sys.here = IF shown THEN @ ELSE {}]
       IN Tell(m, [type |-> IF shown THEN "map" ELSE "unmap"])

\* Withdrawing a window takes its states away; a window that has never been
\* mapped, or is withdrawn, is none of the window manager's business, and
\* what is asked of it then is lost.
XManaged(s) == s.shown \/ s.mini

XObeys(n, r, obey) ==
  CASE r.op = "configure" ->
         IF obey THEN LET m == XSized(n, [n.sys EXCEPT !.normal = r.size])
                      IN IF m.wire = n.wire
                         THEN Tell(m, [type |-> "configure", size |-> m.sys.size]) ELSE m
         ELSE Tell(n, [type |-> "configure", size |-> n.sys.size])
    [] r.op = "map" /\ r.on ->
         LET m == XMapped(n, TRUE)
         IN IF n.sys.mini THEN XProperty([m EXCEPT !.sys.mini = FALSE]) ELSE m
    [] r.op = "map" /\ ~r.on ->
         LET m == XMapped(n, FALSE)
         IN IF ~XManaged(n.sys) THEN m
            ELSE XProperty(XSized(m, [m.sys EXCEPT !.mini = FALSE, !.zoomed = FALSE,
                                                   !.full = "no", !.refused = FALSE]))
    [] r.op = "iconify" ->
         IF n.sys.shown THEN XProperty([XMapped(n, FALSE) EXCEPT !.sys.mini = TRUE]) ELSE n
    [] r.op = "fullscreen" ->
         IF obey /\ XManaged(n.sys)
         THEN XProperty(XSized(n, [n.sys EXCEPT !.full = IF r.on THEN "yes" ELSE "no",
                                                !.refused = FALSE]))
         ELSE [n EXCEPT !.sys.refused = TRUE]
    [] r.op = "maximize" ->
         IF obey /\ XManaged(n.sys)
         THEN XProperty(XSized(n, [n.sys EXCEPT !.zoomed = r.on])) ELSE n

XServerTakes ==
  /\ Step("x11")
  /\ requests # << >>
  /\ \E obey \in BOOLEAN :
       Becomes(XObeys([Now EXCEPT !.requests = Tail(@)], Head(requests), obey))

XUser ==
  /\ Move("x11")
  /\ sys.shown
  /\ \/ \E s \in Size : Becomes(XSized(Now, [sys EXCEPT !.normal = s]))
     \/ \E on \in BOOLEAN : Becomes(XProperty(XSized(Now, [sys EXCEPT !.zoomed = on])))
     \/ \E f \in {"yes", "no"} :
          Becomes(XProperty(XSized(Now, [sys EXCEPT !.full = f, !.refused = FALSE])))
     \/ Becomes(XProperty([XMapped(Now, FALSE) EXCEPT !.sys.mini = TRUE]))
     \/ Becomes(Tell(Now, [type |-> "close"]))
     \/ \E b \in Button \ sys.here :
          Becomes(Tell([Now EXCEPT !.sys.here = @ \cup {b}, !.sys.strayed = @ \ {b}],
                       [type |-> "press", button |-> b]))
     \/ \E b \in sys.here :
          Becomes(Tell([Now EXCEPT !.sys.here = @ \ {b}],
                       [type |-> "release", button |-> b]))

-----------------------------------------------------------------------------
(* nack__xcb_dispatch *)

\* Mutant: only the states the event found set are looked at.
XReadStateOnce(n) ==
  [n EXCEPT !.w.fullscreen = (@ \/ n.sys.full = "yes"),
            !.w.maximized = n.sys.zoomed,
            !.w.minimized = n.sys.mini]

\* _NET_WM_STATE, as it is when the property is read.
XReadState(n) ==
  [n EXCEPT !.w.fullscreen = (n.sys.full = "yes"),
            !.w.maximized = n.sys.zoomed,
            !.w.minimized = n.sys.mini]

\* ConfigureNotify: one size for the window and its framebuffer.
XConfigured(n, size) == EmitResize(n, size, size)

\* MapNotify and UnmapNotify
XSeen(n, seen) == [n EXCEPT !.w.visible = seen]

\* ButtonPress and ButtonRelease, but for the buttons that are a wheel.
XButton(n, b, down) == EmitButton(n, b, down)

\* The events after a look-up of the window they are for.
XHandle(n, m) ==
  CASE m.type = "configure" -> XConfigured(n, m.size)
    [] m.type = "property"  -> XReadState(n)
    [] m.type = "map"       -> XSeen(n, TRUE)
    [] m.type = "unmap"     -> XSeen(n, FALSE)
    [] m.type = "close"     -> EmitClose(n)
    [] m.type = "press"     -> XButton(n, m.button, TRUE)
    [] m.type = "release"   -> XButton(n, m.button, FALSE)

XDispatch ==
  /\ Step("x11")
  /\ wire # << >>
  /\ Becomes(XHandle([Now EXCEPT !.wire = Tail(@)], Head(wire)))

XNext == XOpen \/ XCall \/ XServerTakes \/ XUser \/ XDispatch
=============================================================================
