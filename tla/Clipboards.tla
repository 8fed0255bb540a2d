------------------------------- MODULE Clipboards -------------------------------
(***************************************************************************)
(* The clipboard on each backend, one of which is chosen when the window   *)
(* layer starts.  Win32 and Cocoa answer at once (win32/nack_win32.cpp,    *)
(* cocoa/nack_cocoa.mm): the system keeps the text.                        *)
(***************************************************************************)
EXTENDS X11SelectionReader, WaylandClipboard

CONSTANT Backends

ASSUME BackendsAssumption == Backends \subseteq {"x11", "wayland", "primary", "win32", "cocoa"}

-----------------------------------------------------------------------------
(* Win32 and Cocoa *)

DFresh(t) == [XFresh(t) EXCEPT !.lib = [pc |-> "idle", late |-> FALSE, buffer |-> << >>, dragged |-> FALSE]]

Desktop == backend \in {"win32", "cocoa"}

\* nack__win32_clipboard_set: a text that is not UTF-8, or a clipboard another
\* program has open, changes nothing; it is emptied before the text goes in.
Win32Set(n, t, at) ==
  CASE at = "open" -> n
    [] at = "set"  -> OnBoard(n, "none", Nothing)
    [] at = "done" -> OnBoard(n, "us", t)

\* nack__cocoa_clipboard_set: cleared, then written.
CocoaSet(n, t, at) ==
  CASE at = "open" -> n
    [] at = "set"  -> OnBoard(n, "none", Nothing)
    [] at = "done" -> OnBoard(n, "us", t)

DSet(n, t, at) == IF backend = "win32" THEN Win32Set(n, t, at) ELSE CocoaSet(n, t, at)

\* nack__win32_clipboard_get: nothing if another program has it open.
Win32Get(n, opened) ==
  LET m == Heard(n)
  IN Ends(m, IF ~opened \/ n.board.text = Nothing THEN << >> ELSE Whole(n.board.text), ~opened)

\* nack__cocoa_clipboard_get
CocoaGet(n) ==
  LET m == Heard(n)
  IN Ends(m, IF n.board.text = Nothing THEN << >> ELSE Whole(n.board.text), FALSE)

DCall ==
  /\ Desktop /\ Move(backend)
  /\ \/ \E t \in Text, at \in {"open", "set", "done"} : Becomes(DSet(Now, t, at))
     \/ \E opened \in BOOLEAN :
          Becomes(IF backend = "win32" THEN Win32Get(Now, opened) ELSE CocoaGet(Now))

DOthers ==
  /\ Desktop /\ Move(backend)
  /\ \E t \in Text \cup {Nothing} : Becomes(OnBoard(Now, "peer", t))

-----------------------------------------------------------------------------
Init ==
  /\ backend \in Backends /\ moves = 0
  /\ \E t \in Text \cup {Nothing} :
       LET n == CASE backend = "x11" -> XFresh(t)
                  [] OnWayland -> WFresh(t)
                  [] OTHER -> DFresh(t)
       IN /\ board = n.board /\ lib = n.lib /\ server = n.server /\ peer = n.peer
          /\ wire = n.wire /\ seen = n.seen /\ last = n.last

Next == XNext \/ WNext \/ DCall \/ DOthers

Spec == Init /\ [][Next]_vars

\* A wait ends by its deadline, whatever the others do.
FairSpec == Spec /\ WF_vars(XTake) /\ WF_vars(XTimeout) /\ WF_vars(WReadPipe \/ WCut)

-----------------------------------------------------------------------------
(* Properties *)

\* Whether the last read was in time; the deadline of a pipe cuts a text short,
\* and that of an X11 request leaves the conversation with its owner open.
Lateness ==
  IF ~last.late THEN "no" ELSE IF backend = "x11" THEN "open" ELSE "cut"

Promise == INSTANCE ClipboardPromise
  WITH text <- board.text,
       asked <- IF OnWayland THEN Asked(Now) ELSE {},
       answer <- last.answer,
       late <- Lateness

\* A read in time answers with a whole text that was on the clipboard since
\* libnack last heard of it: the pieces of two transfers are never spliced, and
\* the text libnack keeps of its own is given up when another program takes the
\* clipboard (nack_xcb_clipboard.cpp:299, :387, nack_wayland_clipboard.cpp:400).
\* One that Wayland's deadline cuts short answers with the beginning of such a
\* text (nack_wayland_clipboard.cpp:61-68), and only on X11, after a deadline
\* passed, with what lies in the property.
KeepsClipboardPromise == Promise!Spec

\* A read finds the text that was there all the while, if its owner hands it
\* over in time: it says nothing only when the clipboard "holds nothing this
\* program can read" (nack.hpp:563).  Excused are an owner that refuses, an
\* offer overtaken by another one, a window without the keyboard, a
\* SelectionClear from before the last claim, and a drag.
PasteFindsText == last.owed /\ ~last.dragged => last.answer # Nothing

\* A program that pastes from us gets the text of the source it asked, however
\* often the program has set another since: the callback reads libnack's copy
\* of the text through a pointer (nack_wayland_clipboard.cpp:172, :370).
ServesItsSource ==
  OnWayland /\ peer.got # NoOffer => peer.got.text = server.texts[peer.got.source]

\* A read always comes back (nack_xcb_clipboard.cpp:314,
\* nack_wayland_clipboard.cpp:34: "must not hang the caller").
ReadsEnd == lib.pc # "idle" ~> lib.pc = "idle"
=============================================================================
