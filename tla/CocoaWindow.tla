------------------------------ MODULE CocoaWindow ------------------------------
(***************************************************************************)
(* The Cocoa window (cocoa/nack_cocoa.mm).  AppKit calls the delegate from *)
(* inside a call that changes the size; full screen and the Dock take an   *)
(* animation, and the delegate hears of them at its end.  Sizes are in     *)
(* points, the framebuffer is in pixels of the backing store.              *)
(***************************************************************************)
EXTENDS NativeWindow

-----------------------------------------------------------------------------
(* The delegate and the view *)

\* nack__cocoa_update_size: the scale first, then both sizes.
CUpdateSize(n) ==
  EmitResize(EmitScale(n, n.sys.scale), n.sys.size, n.sys.size * n.sys.scale)

\* The content has another size: windowDidResize.
CResized(n, s) ==
  IF Fitted(s).size = n.sys.size THEN [n EXCEPT !.sys = s]
  ELSE CUpdateSize([n EXCEPT !.sys = Fitted(s)])

\* windowDidChangeBackingProperties, applicationDidChangeScreenParameters
CRescaled(n, scale) == CUpdateSize([n EXCEPT !.sys.scale = scale])

\* windowDidEnterFullScreen and windowDidExitFullScreen, after the resize.
CFullScreen(n, on) ==
  LET m == CResized(n, [n.sys EXCEPT !.full = IF on THEN "yes" ELSE "no"])
  IN [m EXCEPT !.w.fullscreen = on]

\* Mutant: Caps Lock is taken for a modifier like the others.
CFlagsChangedAlike(n, m) ==
  IF HasFocus(n) THEN EmitKey(n, m.key, m.key \notin n.w.keys) ELSE n

\* flagsChanged: a modifier that is not down goes down, whatever its flag says;
\* Caps Lock is as its flag, the lock.
CFlagsChanged(n, m) ==
  IF ~HasFocus(n) THEN n
  ELSE EmitKey(n, m.key, IF m.key \in Lock THEN m.down ELSE m.key \notin n.w.keys)

\* keyDown and keyUp
CKey(n, m) == IF HasFocus(n) THEN EmitKey(n, m.key, m.down) ELSE n

\* nack__cocoa_drain, one event of it.
CHandle(n, m) ==
  CASE m.type = "key"    -> IF m.key \in Modifier THEN CFlagsChanged(n, m) ELSE CKey(n, m)
    [] m.type = "button" -> EmitButton(n, m.button, m.down)
    [] m.type = "focus"  -> IF m.on /\ ~n.sys.focused THEN n ELSE EmitFocus(n, m.on)
    [] m.type = "mini"   -> [n EXCEPT !.w.minimized = m.on]
    [] m.type = "close"  -> EmitClose(n)

CDispatch ==
  /\ Step("cocoa")
  /\ wire # << >>
  /\ Becomes(CHandle([Now EXCEPT !.wire = Tail(@)], Head(wire)))

-----------------------------------------------------------------------------
(* What the program calls *)

\* nack__cocoa_window_create: size and framebuffer are stored, not emitted.
CCreated(size, scale) == Fresh(size, size * scale, scale, TRUE)

CShow(n, show) ==
  LET m == [n EXCEPT !.sys.shown = show, !.w.visible = show]
  IN IF show THEN CUpdateSize(m) ELSE Unfocused(m)

CSetSize(n, s) == CResized(n, [n.sys EXCEPT !.normal = s])

\* nack__cocoa_window_set_fullscreen: toggles a window that is not as asked;
\* AppKit ignores a toggle in the middle of a transition.
CSetFullscreen(n, on) ==
  [n EXCEPT !.sys.full = CASE @ = "no" /\ on -> "entering"
                           [] @ = "yes" /\ ~on -> "leaving"
                           [] OTHER -> @]

\* A window in full screen is not miniaturised.
CMiniaturize(n) ==
  IF n.sys.full # "no" \/ n.sys.mini THEN n
  ELSE Tell([Unfocused(n) EXCEPT !.sys.mini = TRUE], [type |-> "mini", on |-> TRUE])

CMaximize(n) ==
  IF n.sys.zoomed \/ n.sys.full # "no" THEN n
  ELSE CResized(n, [n.sys EXCEPT !.zoomed = TRUE])

\* nack__cocoa_window_restore undoes one of the two, and leaves full screen be.
CRestore(n) ==
  IF n.sys.mini THEN Tell([n EXCEPT !.sys.mini = FALSE], [type |-> "mini", on |-> FALSE])
  ELSE IF n.sys.zoomed THEN CResized(n, [n.sys EXCEPT !.zoomed = FALSE])
  ELSE n

\* nack_console_state::init: create, size, perhaps fullscreen, show.
COpen ==
  /\ backend = "cocoa" /\ ~w.live /\ moves = 0
  /\ moves' = 1 /\ UNCHANGED backend
  /\ \E s, t \in Size, c \in Scale, full \in BOOLEAN :
       LET sized == CSetSize(CCreated(s, c), t)
       IN Becomes(Opened(CShow(IF full THEN CSetFullscreen(sized, TRUE) ELSE sized, TRUE)))

CCall ==
  /\ Move("cocoa")
  /\ \/ \E show \in BOOLEAN : Becomes(CShow(Now, show))
     \/ \E s \in Size : Becomes(CSetSize(Now, s))
     \/ \E on \in BOOLEAN : Becomes(CSetFullscreen(Now, on))
     \/ Becomes(CMiniaturize(Now))
     \/ Becomes(CMaximize(Now))
     \/ Becomes(CRestore(Now))

-----------------------------------------------------------------------------
(* The user and the system *)

\* The animation ends, where it was going or where it came from.
CTransition ==
  /\ Step("cocoa")
  /\ \/ /\ sys.full = "entering"
        /\ \/ Becomes(CFullScreen(Now, TRUE))
           \/ Becomes([Now EXCEPT !.sys.full = "no"])
     \/ /\ sys.full = "leaving"
        /\ \/ Becomes(CFullScreen(Now, FALSE))
           \/ Becomes([Now EXCEPT !.sys.full = "yes"])

\* A key event of the user.  While Command is down AppKit does not send the
\* window the release of another key, which nack__cocoa_drain leaves to it.
CTyped(n, k, down, quiet) ==
  LET m == Typed(n, k, down, quiet)
  IN IF quiet /\ ~down /\ n.sys.focused THEN [m EXCEPT !.sys.crossed = @ \cup {k}] ELSE m

\* The press of a key may be a shortcut the menu takes (nack__cocoa_create_menu_bar).
CWithheld(k) == k \notin Modifier /\ sys.held \cap Command # {}

CUser ==
  /\ Move("cocoa")
  /\ sys.shown
  /\ \/ \E s \in Size : sys.full = "no" /\ ~sys.mini
                        /\ Becomes(CResized(Now, [sys EXCEPT !.normal = s, !.zoomed = FALSE]))
     \/ \E c \in Scale \ {sys.scale} : Becomes(CRescaled(Now, c))
     \/ Becomes(Tell(Now, [type |-> "close"]))
     \/ \E on \in BOOLEAN : /\ on # sys.focused /\ ~sys.mini
                            /\ Becomes(Tell(Focused(Now, on), [type |-> "focus", on |-> on]))
     \/ \E k \in Key \ sys.held, menu \in BOOLEAN :
          (menu => CWithheld(k)) /\ Becomes(CTyped(Now, k, TRUE, menu))
     \/ \E k \in sys.held : Becomes(CTyped(Now, k, FALSE, CWithheld(k)))
     \/ \E b \in Button \ sys.here :
          Becomes(Tell([Now EXCEPT !.sys.here = @ \cup {b}, !.sys.strayed = @ \ {b}],
                       [type |-> "button", button |-> b, down |-> TRUE]))
     \/ \E b \in sys.here :
          Becomes(Tell([Now EXCEPT !.sys.here = @ \ {b}],
                       [type |-> "button", button |-> b, down |-> FALSE]))

CNext == COpen \/ CCall \/ CUser \/ CTransition \/ CDispatch
=============================================================================
