-------------------------- MODULE X11SelectionReader --------------------------
(***************************************************************************)
(* Reading the X11 clipboard, and claiming it (the second half of          *)
(* xcb/nack_xcb_clipboard.cpp).  A read asks the owner to convert the      *)
(* selection into a property of the helper window, for two targets in      *)
(* turn, and waits; a long text comes in pieces, each in answer to the     *)
(* deletion of the last.  Both waits give up, and the answer may come      *)
(* later.  Serving others is in X11SelectionOwner.                         *)
(***************************************************************************)
EXTENDS Clipboard

CONSTANT MaxSending   \* bound: transfers in pieces at a time

NoProperty == [type |-> "none", data |-> << >>]

XFresh(t) ==
  [board |-> [owner |-> IF t = Nothing THEN "none" ELSE "peer", text |-> t],
   lib |-> [slot |-> Nothing, pc |-> "idle", target |-> 1, buffer |-> << >>,
            late |-> FALSE, dragged |-> FALSE, refused |-> FALSE, overtaken |-> FALSE],
   server |-> NoProperty,
   peer |-> [text |-> t, requests |-> 0, sending |-> << >>, deletes |-> 0],
   wire |-> << >>, seen |-> {t}, last |-> NoRead]

-----------------------------------------------------------------------------
(* The helper's property *)

\* The owner that sends in pieces hears of a deletion.
XDelete(n) ==
  [n EXCEPT !.server = NoProperty,
            !.peer.deletes =
              IF n.server # NoProperty /\ n.peer.sending # << >> THEN @ + 1 ELSE @]

XWrite(n, type, data) ==
  Tell([n EXCEPT !.server = [type |-> type, data |-> data]], [type |-> "new"])

-----------------------------------------------------------------------------
(* nack__xcb_read_selection *)

\* A conversion is asked for; with no owner the server itself says no.
XConvert(n, target) ==
  LET m == [XDelete(n) EXCEPT !.lib.pc = "notify", !.lib.target = target]
  IN IF n.board.owner = "peer" THEN [m EXCEPT !.peer.requests = @ + 1]
     ELSE Tell(m, [type |-> "notify", found |-> FALSE])

\* One target after the other.
XNextTarget(n) ==
  IF n.lib.target = 1 THEN XConvert(n, 2)
  ELSE Ends(n, << >>, n.lib.refused \/ n.lib.overtaken)

\* The conversation with earlier owners is over.
XSettled(n) ==
  /\ n.peer.requests = 0 /\ n.peer.sending = << >>
  /\ \A i \in 1 .. Len(n.wire) : n.wire[i].type \in {"clear", "other"}

\* nack__xcb_clipboard_get, up to its first wait.
XRead(n) ==
  LET m == [Heard(n) EXCEPT !.lib.late = ~XSettled(n), !.lib.refused = FALSE]
  IN CASE n.board.owner = "us" ->
            Ends(m, IF n.lib.slot = Nothing THEN << >> ELSE Whole(n.lib.slot),
                 n.lib.overtaken)
       [] n.board.owner = "none" -> Ends(m, << >>, FALSE)
       [] OTHER -> XConvert(m, 1)

\* SelectionNotify, whichever request it answers: the property is read as it
\* is now.
XNotified(n, m) ==
  IF ~m.found THEN XNextTarget([n EXCEPT !.lib.refused = TRUE])
  ELSE IF n.server.type = "incr"
  THEN [XDelete(n) EXCEPT !.lib.pc = "chunk", !.lib.buffer = << >>]
  ELSE IF n.server.data # << >> THEN Ends(XDelete(n), n.server.data, FALSE)
  ELSE XNextTarget(XDelete(n))

\* Mutant: the first piece is the text.
XChunkOnly(n) ==
  IF n.server.data = << >> THEN Ends(XDelete(n), n.lib.buffer, FALSE)
  ELSE Ends(XDelete(n), n.server.data, FALSE)

\* nack__xcb_read_incr, for one piece; an empty one ends the transfer.
XChunk(n) ==
  IF n.server.data = << >> THEN Ends(XDelete(n), n.lib.buffer, FALSE)
  ELSE [XDelete(n) EXCEPT !.lib.buffer = @ \o n.server.data]

\* nack__xcb_handle_selection_clear; what else comes is for a read that no
\* longer waits for it, or of a property that is not the helper's.
XDispatch(n, m) ==
  IF m.type = "clear" THEN [n EXCEPT !.lib.slot = Nothing] ELSE n

Wanted == [idle |-> "", notify |-> "notify", chunk |-> "new"]

\* nack__xcb_wait_for takes what it wants and dispatches the rest; outside a
\* read nack__xcb_drain dispatches everything.  read_incr dispatches the
\* PropertyNotify of another property too, and then waits anew, with a new
\* deadline.
XTake ==
  /\ Step("x11")
  /\ wire # << >>
  /\ LET m == Head(wire)
         n == [Now EXCEPT !.wire = Tail(@)]
     IN Becomes(IF m.type # Wanted[lib.pc] THEN XDispatch(n, m)
                ELSE IF m.type = "notify" THEN XNotified(n, m) ELSE XChunk(n))

\* Mutant: the wait for a piece has no deadline.
XTimeoutNotify ==
  /\ Step("x11")
  /\ lib.pc = "notify" /\ wire = << >>
  /\ Becomes(XNextTarget([Now EXCEPT !.lib.late = TRUE]))

\* The deadline of a wait passes, which is looked at when nothing is on the
\* wire.  read_incr has lost its pieces then, and read_selection goes on to the
\* next target.
XTimeout ==
  /\ Step("x11")
  /\ lib.pc # "idle" /\ wire = << >>
  /\ Becomes(XNextTarget([Now EXCEPT !.lib.late = TRUE]))

-----------------------------------------------------------------------------
(* Claiming the selection *)

\* nack__xcb_own_selection: the text is stored first, and stays whatever the
\* server says when it is asked who owns the selection now.  Another program
\* that took it in between is one that takes it right after.
XOwn(n, t) ==
  OnBoard([n EXCEPT !.lib.slot = t,
                    !.lib.overtaken = \E i \in 1 .. Len(n.wire) : n.wire[i].type = "clear"],
          "us", t)

XCall ==
  /\ Move("x11") /\ lib.pc = "idle"
  /\ \/ Becomes(XRead(Now))
     \/ \E t \in Text : Becomes(XOwn(Now, t))

-----------------------------------------------------------------------------
(* The other programs *)

XPeerPuts ==
  /\ Move("x11")
  /\ \E t \in Text \cup {Nothing} :
       LET m == OnBoard([Now EXCEPT !.peer.text = t],
                        IF t = Nothing THEN "none" ELSE "peer", t)
       IN Becomes(IF board.owner = "us" THEN Tell(m, [type |-> "clear"]) ELSE m)

\* A request is answered: with the text, with the promise to send it in
\* pieces, or with a refusal.
XPeerAnswers ==
  /\ Step("x11")
  /\ peer.requests > 0
  /\ LET n == [Now EXCEPT !.peer.requests = @ - 1]
         t == peer.text
     IN \/ Becomes(Tell(n, [type |-> "notify", found |-> FALSE]))
        \/ /\ t # Nothing
           /\ Becomes(Tell(XWrite(n, "text", Whole(t)), [type |-> "notify", found |-> TRUE]))
        \/ /\ t # Nothing /\ Len(peer.sending) < MaxSending
           /\ Becomes(Tell([XWrite(n, "incr", << >>)
                              EXCEPT !.peer.sending = Append(@, [text |-> t, next |-> 1])],
                           [type |-> "notify", found |-> TRUE]))

\* The next piece in answer to a deletion, of one of the transfers.
XPeerSends ==
  /\ Step("x11")
  /\ peer.deletes > 0
  /\ \E i \in 1 .. Len(peer.sending) :
       LET s    == peer.sending[i]
           rest == SubSeq(peer.sending, 1, i - 1)
                     \o SubSeq(peer.sending, i + 1, Len(peer.sending))
       IN IF s.next <= 2
          THEN Becomes([XWrite(Now, "text", <<Piece(s.text, s.next)>>)
                          EXCEPT !.peer.sending[i].next = @ + 1, !.peer.deletes = @ - 1])
          ELSE Becomes([XWrite(Now, "text", << >>)
                          EXCEPT !.peer.sending = rest,
                                 !.peer.deletes = IF rest = << >> THEN 0 ELSE @ - 1])

\* A requestor of ours deletes its property, or writes it (X11SelectionOwner):
\* it matters here to the wait for a piece.
XOtherProperty ==
  /\ Move("x11") /\ lib.pc = "chunk"
  /\ Becomes(Tell(Now, [type |-> "other"]))

XNext ==
  XCall \/ XTake \/ XTimeout \/ XPeerPuts \/ XPeerAnswers \/ XPeerSends \/ XOtherProperty
=============================================================================
