-------------------------- MODULE X11SelectionOwner --------------------------
(***************************************************************************)
(* libnack as the owner of an X11 selection (xcb/nack_xcb_clipboard.cpp,   *)
(* "Serving a selection"): answering SelectionRequest, and carrying on the *)
(* incremental (INCR) transfers that a large text needs, one chunk for     *)
(* every property delete of the requestor, in a fixed number of slots.     *)
(*                                                                         *)
(* The X server is a shared memory of window properties plus one ordered   *)
(* stream of events to libnack (wire).  A requestor is another client that *)
(* behaves as ICCCM says and as libnack's own reader does (read_selection, *)
(* read_incr): it deletes the property, asks for the selection, takes the  *)
(* answer, and while a transfer is incremental reads and deletes each      *)
(* value of the property until an empty one.                               *)
(*                                                                         *)
(* A text is the sequence of pieces it is sent in.  The selection timestamp*)
(* and the TARGETS answer change nothing here and are left out.            *)
(***************************************************************************)
EXTENDS Naturals, Sequences, SequencesExt, FiniteSets

CONSTANTS
  Requestor,    \* windows of other clients
  Prop,         \* properties a requestor may ask to be answered on
  Text,         \* texts the program may put on the clipboard
  Large,        \* the texts longer than NACK_INCR_THRESHOLD
  Pieces,       \* NACK_INCR_CHUNK pieces of each text
  Slots,        \* NACK_INCR_SENDS
  Concurrent,   \* a requestor may have several conversations at once (MULTIPLE)
  NoText,       \* an empty std::optional
  NoRequestor,
  MaxAsks,      \* bound: requests made in a behaviour
  MaxSets,      \* bound: changes of the selection's owner or text
  MaxMoves,     \* bound: the two together
  MaxWire       \* bound: events in flight to libnack

ASSUME OwnerAssumption ==
  /\ IsFiniteSet(Prop) /\ Large \subseteq Text
  /\ Pieces \in [Text -> Nat \ {0}]
  /\ Slots \in Nat \ {0}
  /\ NoText \notin Text
  /\ NoRequestor \notin Requestor
  /\ Concurrent \in BOOLEAN
  /\ MaxAsks \in Nat /\ MaxSets \in Nat
  /\ MaxMoves \in Nat /\ MaxWire \in Nat

VARIABLES
  \* X server
  owner,    \* who owns the selection: "us", "other" or "none"
  prop,     \* the properties of each requestor's window
  watch,    \* requestors whose property changes libnack has selected for
  wire,     \* events sent to libnack and not dispatched, oldest first
  alive,    \* requestors whose window exists
  \* libnack
  owned,    \* nack_xcb_state.clipboard_owned
  sends,    \* nack__incr_sends
  \* requestors
  replies,  \* SelectionNotify events not yet taken by each requestor
  phase,    \* of each conversation: "idle", "asked", "receiving" or "done"
  got,      \* what each conversation has received
  \* history and bounds
  retired,    \* conversations whose transfer libnack gave up on
  abandoned,  \* conversations their requestor gave up before libnack was through
  asks, sets

vars == <<owner, prop, watch, wire, alive, owned, sends, replies, phase, got,
          retired, abandoned, asks, sets>>

-----------------------------------------------------------------------------
(* Values *)

Incr     == <<NoText, 0>>            \* the content of a property of type INCR
Piece    == (Text \cup {NoText}) \X Nat
Whole(t) == [i \in 1..Pieces[t] |-> <<t, i>>]

Absent   == [set |-> FALSE, val |-> << >>]
Value(v) == [set |-> TRUE, val |-> v]

FreeSlot == [active |-> FALSE, requestor |-> NoRequestor, property |-> "none",
             text |-> NoText, sent |-> 0, late |-> FALSE]

Sending(s, r, p) == s.active /\ s.requestor = r /\ s.property = p

WireEvent(type, r, ps) == [type |-> type, win |-> r, props |-> ps]

TypeOK ==
  /\ owner \in {"us", "other", "none"}
  /\ \A r \in Requestor, p \in Prop : prop[r][p].set \in BOOLEAN
                                       /\ prop[r][p].val \in Seq(Piece)
  /\ watch \subseteq Requestor
  /\ \A i \in DOMAIN wire : wire[i].type \in {"REQUEST", "DELETE", "CLEAR"}
  /\ alive \subseteq Requestor
  /\ owned \in Text \cup {NoText}
  /\ \A i \in 1..Slots : sends[i].active => /\ sends[i].text \in Large
                                            /\ sends[i].sent \in 0..Pieces[sends[i].text]
  /\ phase \in [Requestor -> [Prop -> {"idle", "asked", "receiving", "done"}]]
  /\ \A r \in Requestor, p \in Prop : got[r][p] \in Seq(Piece)

-----------------------------------------------------------------------------
Init ==
  /\ owner = "none"
  /\ prop = [r \in Requestor |-> [p \in Prop |-> Absent]]
  /\ watch = {} /\ wire = << >> /\ alive = Requestor
  /\ owned = NoText
  /\ sends = [i \in 1..Slots |-> FreeSlot]
  /\ replies = [r \in Requestor |-> << >>]
  /\ phase = [r \in Requestor |-> [p \in Prop |-> "idle"]]
  /\ got = [r \in Requestor |-> [p \in Prop |-> << >>]]
  /\ retired = {} /\ abandoned = {} /\ asks = 0 /\ sets = 0

-----------------------------------------------------------------------------
(* Serving a request *)

\* nack__xcb_incr_end on every slot in S: stop watching its requestor, free it.
IncrEnd(st, S) ==
  [st EXCEPT !.watch = @ \ {st.sends[i].requestor : i \in S},
             !.sends = [i \in DOMAIN @ |-> IF i \in S THEN FreeSlot ELSE @[i]]]

\* nack__xcb_incr_slot, first half: retire the transfers past their deadline.
RetireLate(st) ==
  LET late == {i \in 1..Slots : st.sends[i].active /\ st.sends[i].late}
  IN [IncrEnd(st, late) EXCEPT !.retired =
        @ \cup {<<st.sends[i].requestor, st.sends[i].property>> : i \in late}]

\* A request to a window that is gone fails with a BadWindow nobody sees.
PutProp(st, r, p, v) ==
  IF r \in alive THEN [st EXCEPT !.prop[r][p] = Value(v)] ELSE st

\* Post the INCR property and put a copy of the text in slot i.
StartIncr(st, r, p, i) ==
  [PutProp(st, r, p, <<Incr>>) EXCEPT
     !.watch = @ \cup ({r} \cap alive),
     !.sends[i] = [active |-> TRUE, requestor |-> r, property |-> p,
                   text |-> owned, sent |-> 0, late |-> FALSE],
     !.retired = @ \ {<<r, p>>},
     !.grants = Append(@, [prop |-> p, granted |-> TRUE])]

Grant(st, p, granted) ==
  [st EXCEPT !.grants = Append(@, [prop |-> p, granted |-> granted])]

\* nack__xcb_write_target for a text target.
WriteTarget(st, r, p) ==
  IF owned = NoText
  THEN Grant(st, p, FALSE)
  ELSE IF owned \in Large
  THEN LET freed == RetireLate(st)
           free  == {i \in 1..Slots : ~freed.sends[i].active}
       IN IF free = {}
          THEN Grant(freed, p, FALSE)
          ELSE StartIncr(freed, r, p, CHOOSE i \in free : \A j \in free : i <= j)
  ELSE Grant(PutProp(st, r, p, Whole(owned)), p, TRUE)

\* nack__xcb_handle_selection_request: every pair of a MULTIPLE in turn, then
\* one SelectionNotify.
HandleSelectionRequest(e) ==
  LET before == [sends |-> sends, prop |-> prop, watch |-> watch,
                 retired |-> retired, grants |-> << >>]
      after  == FoldLeft(LAMBDA st, p : WriteTarget(st, e.win, p), before, e.props)
  IN /\ sends' = after.sends
     /\ prop' = after.prop
     /\ watch' = after.watch
     /\ retired' = after.retired
     /\ replies' = IF e.win \in alive
                   THEN [replies EXCEPT ![e.win] = @ \o after.grants]
                   ELSE replies
     /\ UNCHANGED owned

\* xcb_change_property in append mode: an append of text to a property of
\* type INCR is a BadMatch and changes nothing.
AppendProp(r, p, piece) ==
  IF r \notin alive \/ prop[r][p].val = <<Incr>> THEN prop
  ELSE [prop EXCEPT ![r][p] = Value(@.val \o piece)]

\* Mutant: the text is read from the clipboard, not from the slot's copy.
NextChunkOfOwned(s) == IF s.sent = Pieces[s.text] THEN << >> ELSE <<<<owned, s.sent + 1>>>>

\* Mutant: the first chunk is skipped.
NextChunkSkipping(s) ==
  IF s.sent = Pieces[s.text] THEN << >> ELSE <<<<s.text, s.sent + 2>>>>

\* The next NACK_INCR_CHUNK bytes, or nothing.
NextChunk(s) == IF s.sent = Pieces[s.text] THEN << >> ELSE <<<<s.text, s.sent + 1>>>>

\* Mutant: the transfer ends with its last piece, not with an empty one.
EndsTransferEarly(s) == s.sent + 1 >= Pieces[s.text]

EndsTransfer(s) == s.sent = Pieces[s.text]

\* nack__xcb_handle_property_notify: the first slot sending on that property
\* answers the delete with its next chunk, and with an empty one when it has
\* none left, which ends the transfer.
HandlePropertyNotify(e) ==
  LET p     == e.props[1]
      slots == {i \in 1..Slots : Sending(sends[i], e.win, p)}
      i     == CHOOSE j \in slots : \A k \in slots : j <= k
      s     == sends[i]
      last  == EndsTransfer(s)
      ended == IncrEnd([sends |-> sends, watch |-> watch], {i})
  IN /\ IF slots = {}
        THEN UNCHANGED <<prop, sends, watch>>
        ELSE /\ prop' = AppendProp(e.win, p, NextChunk(s))
             /\ sends' = IF last THEN ended.sends
                         ELSE [sends EXCEPT ![i].sent = @ + 1, ![i].late = FALSE]
             /\ watch' = IF last THEN ended.watch ELSE watch
     /\ UNCHANGED <<owned, retired, replies>>

\* nack__xcb_handle_selection_clear
HandleSelectionClear ==
  /\ owned' = NoText
  /\ UNCHANGED <<prop, sends, watch, retired, replies>>

\* nack__xcb_dispatch on the three events of a selection owner.
Dispatch ==
  /\ wire # << >>
  /\ wire' = Tail(wire)
  /\ LET e == Head(wire)
     IN CASE e.type = "REQUEST" -> HandleSelectionRequest(e)
          [] e.type = "DELETE"  -> HandlePropertyNotify(e)
          [] e.type = "CLEAR"   -> HandleSelectionClear
  /\ UNCHANGED <<owner, alive, phase, got, abandoned, asks, sets>>

\* nack__xcb_own_selection
OwnSelection(t) ==
  /\ sets < MaxSets /\ asks + sets < MaxMoves
  /\ sets' = sets + 1
  /\ owned' = t
  /\ owner' = "us"
  /\ UNCHANGED <<prop, watch, wire, alive, sends, replies, phase, got, retired,
                 abandoned, asks>>

\* NACK_INCR_SEND_TIMEOUT passes without a delete from the requestor.
DeadlinePasses(i) ==
  /\ sends[i].active /\ ~sends[i].late
  /\ sends' = [sends EXCEPT ![i].late = TRUE]
  /\ UNCHANGED <<owner, prop, watch, wire, alive, owned, replies, phase, got,
                 retired, abandoned, asks, sets>>

-----------------------------------------------------------------------------
(* The other clients *)

\* The DELETE events libnack gets when r deletes the properties in ps.
Deletes(r, ps) ==
  LET seen == {p \in ps : prop[r][p].set /\ r \in watch}
  IN [i \in 1..Cardinality(seen) |-> WireEvent("DELETE", r, <<SetToSeq(seen)[i]>>)]

Deleted(r, ps) == [prop EXCEPT ![r] = [p \in Prop |-> IF p \in ps THEN Absent ELSE @[p]]]

ToWire(events) ==
  /\ Len(wire) + Len(events) <= MaxWire
  /\ wire' = wire \o events

OtherOwns ==
  /\ sets < MaxSets /\ asks + sets < MaxMoves
  /\ owner = "us"
  /\ sets' = sets + 1
  /\ owner' = "other"
  /\ ToWire(<<WireEvent("CLEAR", NoRequestor, << >>)>>)
  /\ UNCHANGED <<prop, watch, alive, owned, sends, replies, phase, got, retired,
                 abandoned, asks>>

Resting == {"idle", "done"}

\* libnack is through with the conversation: no request of it on the wire, no
\* answer to it, no transfer.
Over(r, p) ==
  /\ \A i \in 1..Slots : ~Sending(sends[i], r, p)
  /\ \A j \in DOMAIN wire :
       wire[j].type = "REQUEST" /\ wire[j].win = r => p \notin Range(wire[j].props)
  /\ \A k \in DOMAIN replies[r] : replies[r][k].prop # p

\* Ask for the selection on the properties ps, in one MULTIPLE if several.
Ask(r, ps) ==
  /\ asks < MaxAsks /\ asks + sets < MaxMoves
  /\ asks' = asks + 1
  /\ owner = "us"
  /\ r \in alive
  /\ \A p \in ps : phase[r][p] \in Resting
  /\ ~Concurrent => Cardinality(ps) = 1 /\ \A p \in Prop : phase[r][p] \in Resting
  /\ prop' = Deleted(r, ps)
  /\ ToWire(Append(Deletes(r, ps), WireEvent("REQUEST", r, SetToSeq(ps))))
  /\ phase' = [phase EXCEPT ![r] = [p \in Prop |-> IF p \in ps THEN "asked" ELSE @[p]]]
  /\ got' = [got EXCEPT ![r] = [p \in Prop |-> IF p \in ps THEN << >> ELSE @[p]]]
  /\ abandoned' = abandoned \ {<<r, p>> : p \in {q \in ps : Over(r, q)}}
  /\ UNCHANGED <<owner, watch, alive, owned, sends, replies, retired, sets>>

\* Take one answer, whichever request it was for: refused, incremental, or
\* the text itself.
TakeReply(r) ==
  /\ replies[r] # << >>
  /\ replies' = [replies EXCEPT ![r] = Tail(@)]
  /\ LET p       == Head(replies[r]).prop
         v       == prop[r][p]
         taken   == phase[r][p] = "asked" /\ Head(replies[r]).granted /\ v.set
         refused == phase[r][p] = "asked" /\ ~taken
     IN /\ IF taken THEN prop' = Deleted(r, {p}) /\ ToWire(Deletes(r, {p}))
           ELSE UNCHANGED <<prop, wire>>
        /\ phase' = [phase EXCEPT ![r][p] =
                       CASE taken -> IF v.val = <<Incr>> THEN "receiving" ELSE "done"
                         [] refused -> "idle"
                         [] OTHER -> @]
        /\ got' = [got EXCEPT ![r][p] =
                     IF taken /\ v.val # <<Incr>> THEN v.val ELSE @]
  /\ UNCHANGED <<owner, watch, alive, owned, sends, retired, abandoned,
                 asks, sets>>

\* Read and delete the next value; an empty one ends the transfer.
Receive(r, p) ==
  /\ phase[r][p] = "receiving"
  /\ prop[r][p].set
  /\ got' = [got EXCEPT ![r][p] = @ \o prop[r][p].val]
  /\ phase' = [phase EXCEPT ![r][p] = IF prop[r][p].val = << >> THEN "done" ELSE @]
  /\ prop' = Deleted(r, {p})
  /\ ToWire(Deletes(r, {p}))
  /\ UNCHANGED <<owner, watch, alive, owned, sends, replies, retired, abandoned,
                 asks, sets>>

\* A requestor times out on an answer or on the next value, as libnack's own
\* reader does after two seconds, and may ask again on the same property.
GiveUp(r, p) ==
  /\ phase[r][p] \in {"asked", "receiving"}
  /\ phase' = [phase EXCEPT ![r][p] = "idle"]
  /\ got' = [got EXCEPT ![r][p] = << >>]
  /\ abandoned' = IF Over(r, p) THEN abandoned ELSE abandoned \cup {<<r, p>>}
  /\ UNCHANGED <<owner, prop, watch, wire, alive, owned, sends, replies, retired,
                 asks, sets>>

\* The requestor's client exits, in the middle of a transfer or not.
Exit(r) ==
  /\ r \in alive
  /\ alive' = alive \ {r}
  /\ watch' = watch \ {r}
  /\ prop' = Deleted(r, Prop)
  /\ replies' = [replies EXCEPT ![r] = << >>]
  /\ phase' = [phase EXCEPT ![r] = [p \in Prop |-> "idle"]]
  /\ got' = [got EXCEPT ![r] = [p \in Prop |-> << >>]]
  /\ UNCHANGED <<owner, wire, owned, sends, retired, abandoned,
                 asks, sets>>

-----------------------------------------------------------------------------
Requestors ==
  \E r \in Requestor :
    \/ \E ps \in SUBSET Prop \ {{}} : Ask(r, ps)
    \/ TakeReply(r)
    \/ \E p \in Prop : Receive(r, p) \/ GiveUp(r, p)
    \/ Exit(r)

Next ==
  \/ Dispatch
  \/ \E t \in Text : OwnSelection(t)
  \/ \E i \in 1..Slots : DeadlinePasses(i)
  \/ OtherOwns
  \/ Requestors

\* The program keeps pumping events, and a live requestor goes on with its
\* conversation; nothing obliges anybody to ask, give up, exit or be slow.
Fairness ==
  /\ WF_vars(Dispatch)
  /\ \A r \in Requestor : WF_vars(TakeReply(r))
  /\ \A r \in Requestor, p \in Prop : WF_vars(Receive(r, p))

Spec == Init /\ [][Next]_vars /\ Fairness

-----------------------------------------------------------------------------
(* Properties *)

\* A conversation's text is a prefix of one text, and all of it at the end.
ArrivesWhole(r, p) ==
  phase[r][p] \in {"receiving", "done"} =>
    \E t \in Text : /\ IsPrefix(got[r][p], Whole(t))
                    /\ phase[r][p] = "done" => got[r][p] = Whole(t)

\* What a requestor receives is always a prefix of one text that was on the
\* clipboard, and all of it once the transfer has ended: "the data is copied
\* rather than referenced, because the program is free to put something else
\* on the clipboard" (nack_xcb_clipboard.cpp:65).  Not so on a property on which
\* it gave up waiting and asked again before libnack was through.
NoSplice ==
  \A r \in Requestor, p \in Prop : <<r, p>> \in abandoned \/ ArrivesWhole(r, p)

\* The chunks any requestor has read, announcements of a transfer left out, are
\* the beginning of one text: "every time it deletes the property we append the
\* next chunk" (nack_xcb_clipboard.cpp:62) - but of which transfer, the slots do
\* not tell when a requestor has timed out and asked again on the same property
\* (:131).
ChunksAreOfOneText ==
  \A r \in Requestor, p \in Prop :
    phase[r][p] = "receiving" =>
      \E t \in Text : IsPrefix(SelectSeq(got[r][p], LAMBDA c : c # Incr), Whole(t))

\* While a transfer is in a slot, what the requestor has read plus what lies
\* in the property is exactly what the slot has sent: no chunk is lost,
\* repeated or overtaken; and libnack sees the deletes that ask for the rest,
\* for ending one transfer never blinds it to another
\* (nack_xcb_clipboard.cpp:88, :126).  This of requestors that have one
\* conversation at a time and have not given up on one libnack still has.
NothingLostInTransit ==
  \A i \in 1..Slots, r \in alive, p \in Prop :
    Sending(sends[i], r, p) /\ (\A q \in Prop : <<r, q>> \notin abandoned) =>
      /\ r \in watch
      /\ phase[r][p] = "receiving" =>
           got[r][p] \o prop[r][p].val = SubSeq(Whole(sends[i].text), 1, sends[i].sent)

\* A requestor waits: for the answer to its request, or, having deleted the
\* property, for the next value of a transfer that neither side has given up.
Waiting(r, p) ==
  \/ phase[r][p] = "asked"
  \/ /\ phase[r][p] = "receiving" /\ ~prop[r][p].set
     /\ <<r, p>> \notin retired \cup abandoned

\* Nobody waits for ever: every request is answered, with the text or with a
\* refusal, even when the selection was lost or all slots were taken in the
\* meantime (nack_xcb_clipboard.cpp:255), and "every time it deletes the
\* property we append the next chunk" (nack_xcb_clipboard.cpp:62).
WaitsEnd == \A r \in Requestor, p \in Prop : Waiting(r, p) ~> ~Waiting(r, p)
=============================================================================
