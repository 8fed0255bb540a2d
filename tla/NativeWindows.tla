----------------------------- MODULE NativeWindows -----------------------------
(***************************************************************************)
(* The window on each of the three backends, one of which is chosen when   *)
(* the window layer starts, and what they all owe the program whatever the *)
(* order in which calls, requests, messages and the user's acts meet.      *)
(***************************************************************************)
EXTENDS X11Window, Win32Window, CocoaWindow

CONSTANT Backends

ASSUME BackendsAssumption == Backends \subseteq {"x11", "win32", "cocoa"}

Init ==
  /\ backend \in Backends
  /\ w = NoWindow
  /\ told = [size |-> Unsized, fb |-> Unsized]
  /\ sys = Unseen(Unsized, 1)
  /\ wire = << >> /\ requests = << >>
  /\ moves = 0

Next == XNext \/ WNext \/ CNext \/ Shut

Spec == Init /\ [][Next]_vars

-----------------------------------------------------------------------------
(* Properties *)

\* Once everything is dispatched, libnack has the size the window has, the
\* console draws into a framebuffer of the right size, and the ratio it
\* scales the mouse by is that of the window: none of the shortcuts that store
\* a size without an event (nack_xcb.cpp:1111, nack_win32.cpp:825,
\* nack_cocoa.mm:712) leaves a RESIZE out that somebody needed (nack.cpp:210).
\* On Cocoa a window that never changed its size has told no ratio.
SettledGeometry ==
  w.live /\ Quiet =>
    LET fb == IF backend = "cocoa" THEN sys.size * sys.scale ELSE sys.size
    IN /\ w.size = sys.size /\ w.fb = fb
       /\ told.fb = fb
       /\ \/ told.size = sys.size
          \/ told.size = Unsized /\ (fb = sys.size \/ backend = "cocoa")

\* Once everything is dispatched, what is_fullscreen() and its kind answer is
\* so.  Where a window manager was asked for fullscreen and did not obey, X11
\* goes on believing it was (nack_xcb.cpp:1145); Cocoa never notes a zoom.
SettledStates ==
  w.live /\ Quiet =>
    /\ w.fullscreen = (sys.full \in {"yes", "leaving"}) \/ sys.refused
    /\ w.minimized = sys.mini
    /\ w.maximized = (sys.zoomed /\ (backend = "win32" => ~sys.mini)) \/ backend = "cocoa"
    /\ backend = "x11" => w.visible = sys.shown

\* The keys whose state the backend cannot follow: the other shift while
\* Windows keeps quiet about the first; on Cocoa a modifier other than Caps Lock
\* that was down when the window got the focus, and a key that was let go of
\* under Command (nack_win32.cpp:575, nack_cocoa.mm:483, :931); and those that
\* were on their way when the window was hidden or minimised.
Untracked ==
  CASE backend = "win32" -> sys.crossed \cup IF sys.held \cap Shift = {} THEN {} ELSE Shift
    [] backend = "cocoa" -> sys.crossed \cup (sys.odd \ Lock)
    [] backend = "x11"   -> {}

\* Once everything is dispatched, a window with the focus knows of every key
\* pressed since it got it, and no key is latched that is up, whatever went
\* down or up elsewhere (nack.cpp:250, nack_win32.cpp:575).  Caps Lock on Cocoa
\* is up when it is not locked (nack_cocoa.mm:479).
SettledInput ==
  w.live /\ Quiet =>
    /\ w.focused = sys.focused
    /\ sys.fresh \subseteq w.keys \cup Untracked
    /\ w.keys \subseteq sys.held \cup Untracked

\* Once everything is dispatched, no button is latched that is up, unless the
\* window went out of sight under it or, on Win32, it was pressed while such a
\* button kept the capture from being taken, or is an extra button that
\* outlasted the capture the others had (nack_win32.cpp:703, :713).
SettledButtons == w.live /\ Quiet => w.buttons \subseteq sys.here \cup sys.strayed

\* The keyboard of every backend is the one the window layer promises.
Promise == INSTANCE KeyboardPromise
  WITH Window <- {"window"}, NoWindow <- "none",
       live <- IF w.live THEN {"window"} ELSE {},
       focus <- IF w.focused THEN "window" ELSE "none",
       down <- w.keys

KeepsKeyboardPromise == Promise!Spec
=============================================================================
