---------------------------- MODULE WaylandClipboard ----------------------------
(***************************************************************************)
(* The Wayland clipboard and primary selection, which are the same code    *)
(* over other objects (wayland/nack_wayland_clipboard.cpp).  The           *)
(* compositor offers the selection to the client that has the keyboard,    *)
(* and as a clipboard offer what is dragged over it, to any client;        *)
(* libnack keeps the last offer and whether the last one announced had     *)
(* text.  A text moves through a pipe.  A text of ours is a data source,   *)
(* whose callbacks read libnack's copy of the text.  Our sources have      *)
(* positive numbers and those of others negative ones.                     *)
(***************************************************************************)
EXTENDS Clipboard, Integers

OnWayland == backend \in {"wayland", "primary"}

NoSource == 0
NoOffer == [source |-> NoSource, text |-> Nothing]

WFresh(t) ==
  [board |-> [owner |-> IF t = Nothing THEN "none" ELSE "peer", text |-> t],
   lib |-> [source |-> NoSource, offered |-> Nothing, offer |-> NoOffer,
            hasText |-> FALSE, pc |-> "idle", buffer |-> << >>, late |-> FALSE,
            dragged |-> FALSE],
   server |-> [requests |-> << >>, current |-> -1, ids |-> 1, texts |-> << >>],
   peer |-> [focused |-> FALSE, pipe |-> NoOffer, next |-> 1,
             asked |-> NoSource, got |-> NoOffer],
   wire |-> << >>, seen |-> {t}, last |-> NoRead]

-----------------------------------------------------------------------------
(* The compositor *)

\* The selection is announced to the client with the keyboard: the offer, its
\* types, and that it is the selection.
WAnnounce(n) ==
  IF ~n.peer.focused THEN n
  ELSE IF n.board.owner = "none" THEN Tell(n, [type |-> "selection", offer |-> NoOffer])
  ELSE LET o == [source |-> n.server.current, text |-> n.board.text]
       IN Tell(Tell(n, [type |-> "offer", text |-> o.text # Nothing, drag |-> FALSE]),
               [type |-> "selection", offer |-> o])

\* Another source becomes the selection; the owner of the last one is told.
WSelect(n, owner, t, source) ==
  LET ours == n.board.owner = "us"
      m    == [OnBoard(n, owner, t) EXCEPT !.server.current = source]
  IN WAnnounce(IF ours THEN Tell(m, [type |-> "cancelled", source |-> n.server.current])
               ELSE m)

\* A request of ours: a source is destroyed, another one takes its place, if
\* the serial that comes with it is recent enough.
WServe(n, accepted) ==
  LET r == Head(n.server.requests)
      m == [n EXCEPT !.server.requests = Tail(@)]
      d == IF m.board.owner = "us" /\ m.server.current = r.destroyed
           THEN WAnnounce([OnBoard(m, "none", Nothing) EXCEPT !.server.current = NoSource])
           ELSE m
  IN IF accepted
     THEN WSelect(m, "us", n.server.texts[r.source], r.source)
     ELSE Tell(d, [type |-> "cancelled", source |-> r.source])

WServerTakes ==
  /\ OnWayland /\ Step(backend)
  /\ server.requests # << >>
  /\ \E accepted \in BOOLEAN : Becomes(WServe(Now, accepted))

-----------------------------------------------------------------------------
(* The listeners *)

\* data_device_data_offer and data_offer_offer
WDataOffer(n, m) ==
  [n EXCEPT !.lib.hasText = m.text, !.lib.dragged = m.drag]

\* Mutant: a new selection is taken to have no text until its types come.
WSelectionForgets(n, m) == [n EXCEPT !.lib.offer = m.offer, !.lib.hasText = FALSE]

\* data_device_selection
WSelection(n, m) ==
  [n EXCEPT !.lib.offer = m.offer,
            !.lib.hasText = IF m.offer = NoOffer THEN FALSE ELSE @]

\* Mutant: a source lives on when the program sets another text.
WSendAnyway(n, m) ==
  [n EXCEPT !.peer.got = [source |-> m.source, text |-> n.lib.offered],
            !.peer.asked = NoSource]

\* data_source_send: the copy of the text the source was made with, as it is
\* now.  The library drops what comes for a source that was destroyed.
WSend(n, m) ==
  IF n.lib.source # m.source THEN [n EXCEPT !.peer.asked = NoSource]
  ELSE [n EXCEPT !.peer.got = [source |-> m.source, text |-> n.lib.offered],
                 !.peer.asked = NoSource]

\* data_source_cancelled
WCancelled(n, m) ==
  IF n.lib.source # m.source THEN n
  ELSE [n EXCEPT !.lib.source = NoSource, !.lib.offered = Nothing]

\* The listeners of the clipboard
DataHandle(n, m) ==
  CASE m.type = "offer"     -> WDataOffer(n, m)
    [] m.type = "selection" -> WSelection(n, m)
    [] m.type = "send"      -> WSend(n, m)
    [] m.type = "cancelled" -> WCancelled(n, m)

\* primary_device_data_offer, primary_offer_offer and primary_device_selection
PrimaryOffered(n, m) == IF m.type = "offer" THEN WDataOffer(n, m) ELSE WSelection(n, m)

\* primary_source_send and primary_source_cancelled
PrimarySource(n, m) == IF m.type = "send" THEN WSend(n, m) ELSE WCancelled(n, m)

WHandle(n, m) ==
  IF backend = "wayland" THEN DataHandle(n, m)
  ELSE IF m.type \in {"offer", "selection"} THEN PrimaryOffered(n, m) ELSE PrimarySource(n, m)

\* wl_display_dispatch: all there is.
WDispatched(n) ==
  LET after[i \in 0 .. Len(n.wire)] ==
        IF i = 0 THEN n ELSE WHandle(after[i - 1], n.wire[i])
  IN [after[Len(n.wire)] EXCEPT !.wire = << >>]

Asked(n) == {n.server.texts[n.server.requests[i].source] : i \in 1 .. Len(n.server.requests)}

WPump ==
  /\ OnWayland /\ Step(backend) /\ lib.pc = "idle"
  /\ wire # << >>
  /\ Becomes([WDispatched(Now) EXCEPT !.seen = {board.text} \cup Asked(Now)])

-----------------------------------------------------------------------------
(* What the program calls *)

\* nack__wl_clipboard_set: the last source goes, and with it its events.
WSet(n, t) ==
  LET id == Len(n.server.texts) + 1
  IN [n EXCEPT !.lib.source = id, !.lib.offered = t,
               !.server.texts = Append(@, t),
               !.server.requests = Append(@, [source |-> id, destroyed |-> n.lib.source]),
               !.seen = @ \cup {t}]

\* nack__wl_clipboard_get: our own text without asking, and otherwise the
\* offer through a pipe.  The round trip makes the compositor see to the
\* request, and libnack to everything that has come meanwhile; an offer that
\* is not the selection any more gives an empty pipe.
WGet(n) ==
  LET m == [n EXCEPT !.lib.late = FALSE, !.lib.buffer = << >>]
  IN IF n.lib.source # NoSource /\ n.lib.offered # Nothing
     THEN Ends(m, Whole(n.lib.offered), FALSE)
     ELSE IF n.lib.offer = NoOffer \/ ~n.lib.hasText
     THEN Ends(m, << >>, ~n.peer.focused \/ n.wire # << >>)
     ELSE LET alive == n.board.owner = "peer" /\ n.lib.offer.source = n.server.current
              o     == IF alive THEN n.lib.offer ELSE NoOffer
          IN [WDispatched(m) EXCEPT !.lib.pc = "pipe", !.peer.pipe = o, !.peer.next = 1]

\* nack__wl_primary_set and nack__wl_primary_get
PrimarySet(n, t) == WSet(n, t)

PrimaryGet(n) == WGet(n)

WCall ==
  /\ OnWayland /\ Move(backend) /\ lib.pc = "idle"
  /\ \/ \E t \in Text :
          Becomes(IF backend = "wayland" THEN WSet(Now, t) ELSE PrimarySet(Now, t))
     \/ Becomes(IF backend = "wayland" THEN WGet(Now) ELSE PrimaryGet(Now))

\* nack__wl_read_pipe: a piece arrives, or the end does.
WReadPipe ==
  /\ OnWayland /\ Step(backend) /\ lib.pc = "pipe"
  /\ IF peer.pipe.text # Nothing /\ peer.next <= 2
     THEN Becomes([Now EXCEPT !.lib.buffer = Append(@, Piece(peer.pipe.text, peer.next)),
                              !.peer.next = @ + 1])
     ELSE Becomes(Ends(Now, lib.buffer, peer.pipe = NoOffer))

\* The deadline passes, or the writer gives up: what has come by then is the
\* answer.
WCut ==
  /\ OnWayland /\ Step(backend) /\ lib.pc = "pipe"
  /\ Becomes(Ends([Now EXCEPT !.lib.late = TRUE], lib.buffer, TRUE))

-----------------------------------------------------------------------------
(* The other programs and the user *)

WOthers ==
  /\ OnWayland /\ Move(backend)
  /\ \/ \E t \in Text \cup {Nothing} :
          LET n == [Now EXCEPT !.server.ids = @ + 1]
          IN Becomes(WSelect(n, "peer", t, -n.server.ids))
     \/ Becomes(WAnnounce([Now EXCEPT !.peer.focused = TRUE]))
     \/ Becomes([Now EXCEPT !.peer.focused = FALSE])
     \* Something is dragged over the window.
     \/ \E text \in BOOLEAN :
          backend = "wayland" /\ Becomes(Tell(Now, [type |-> "offer", text |-> text, drag |-> TRUE]))
     \* Another program pastes from us.
     \/ /\ board.owner = "us" /\ peer.asked = NoSource
        /\ Becomes(Tell([Now EXCEPT !.peer.asked = server.current, !.peer.got = NoOffer],
                        [type |-> "send", source |-> server.current]))

WNext == WServerTakes \/ WPump \/ WCall \/ WReadPipe \/ WCut \/ WOthers
=============================================================================
