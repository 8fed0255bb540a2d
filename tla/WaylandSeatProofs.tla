--------------------------- MODULE WaylandSeatProofs ---------------------------
(***************************************************************************)
(* The theorems of WaylandSeat, for any windows, keys, buttons and any     *)
(* number of messages in flight.                                           *)
(*                                                                         *)
(* What the library holds true of focus, keys, pointer and buttons is what *)
(* it was told last, and the compositor is ahead of it by the messages on  *)
(* the wire.  The inductive invariant says so literally: there is a story, *)
(* one scene before the first message and one after each, that begins with *)
(* what the library holds true, goes on as the messages say, and ends with *)
(* what is true at the compositor.  A window or a frame that is taken away *)
(* is taken out of every scene.                                            *)
(***************************************************************************)
EXTENDS WaylandSeat, TLAPS, SequenceTheorems

-----------------------------------------------------------------------------
(* The inductive invariant *)

\* Where the pointer may be while W are the windows and F those with frames.
SpotOf(W, F) == {Nowhere} \cup [win : W, part : {"content"}]
                          \cup [win : F, part : {"frame"}]

\* What may be held true at one moment: the window with the keyboard focus,
\* the keys latched in it, where the pointer is, and the buttons latched.
Scene(W, F) == {a \in [focus : W \cup {NoWindow}, down : SUBSET Key,
                       spot : SpotOf(W, F), latched : SUBSET Button] :
                  a.focus = NoWindow => a.down = {}}

Landing(W, F, w, part) ==
  IF [win |-> w, part |-> part] \in SpotOf(W, F) THEN [win |-> w, part |-> part]
  ELSE Nowhere

\* What message m makes of the keyboard.
KeyboardTurn(W, m, a, b) ==
  \/ /\ m.kind = "enter" /\ a.focus = NoWindow
     /\ b.focus = (IF m.win \in W THEN m.win ELSE NoWindow) /\ b.down = {}
  \/ m.kind = "leave" /\ b.focus = NoWindow /\ b.down = {}
  \/ /\ m.kind = "key_down" /\ b.focus = a.focus
     /\ b.down = IF a.focus = NoWindow THEN {} ELSE a.down \cup {m.what}
  \/ /\ m.kind = "key_up" /\ b.focus = a.focus /\ b.down = a.down \ {m.what}
  \/ /\ m.kind \notin {"enter", "leave", "key_down", "key_up"}
     /\ b.focus = a.focus /\ b.down = a.down

\* What it makes of the pointer.
PointerTurn(W, F, m, a, b) ==
  \/ m.kind = "pointer_enter" /\ a.spot = Nowhere /\ b.spot = Landing(W, F, m.win, m.what)
  \/ m.kind = "pointer_leave" /\ b.spot = Nowhere
  \/ m.kind \notin {"pointer_enter", "pointer_leave"} /\ b.spot = a.spot

\* The most that can be latched of the buttons whose release will be heard.
\* Over a frame a press is another matter and a release is not heard at all.
ButtonTurn(m, a, b) ==
  \/ /\ m.kind = "button_down"
     /\ IF a.spot.win # NoWindow /\ a.spot.part = "content"
        THEN a.latched \cup {m.what} \subseteq b.latched
        ELSE a.latched \ {m.what} \subseteq b.latched
  \/ /\ m.kind = "button_up"
     /\ IF a.spot.part = "frame" THEN a.latched \subseteq b.latched
        ELSE a.latched \ {m.what} \subseteq b.latched
  \/ m.kind \notin {"button_down", "button_up"} /\ a.latched \subseteq b.latched

Turn(W, F, m, a, b) ==
  KeyboardTurn(W, m, a, b) /\ PointerTurn(W, F, m, a, b) /\ ButtonTurn(m, a, b)

\* A story of the messages s.
Story(W, F, s, g) ==
  /\ g \in [0..Len(s) -> Scene(W, F)]
  /\ \A i \in 1..Len(s) : Turn(W, F, s[i], g[i - 1], g[i])

\* It begins with what the library holds true ...
LibrarySpot == IF decorFocus # NoWindow THEN [win |-> decorFocus, part |-> "frame"]
               ELSE [win |-> pointerFocus, part |-> "content"]

BeginsAs(a, focus, down, repeating, spot, latched) ==
  /\ a.focus = focus
  /\ down \subseteq a.down
  /\ repeating # NoKey => repeating \in a.down
  /\ a.spot = spot
  /\ latched \subseteq a.latched

Begins(a) == BeginsAs(a, keyboardFocus, keys \ excused, repeatKey, LibrarySpot,
                      buttons \ (taken \cup onFrame))

\* ... and ends with what is true.
EndsAs(a, focus, down, spot, latched) ==
  /\ a.focus = focus
  /\ a.down \subseteq down
  /\ a.spot = spot
  /\ a.latched \subseteq latched

Ends(a) == EndsAs(a, kbFocus, held, ptrAt,
                  taken \cup (IF ptrAt.part = "content" THEN pressed ELSE {}))

\* The same of the state a step leads to, for a scene the step does not change.
BeginsNext(a) == BeginsAs(a, keyboardFocus', (keys \ excused)', repeatKey', LibrarySpot',
                          (buttons \ (taken \cup onFrame))')
EndsNext(a) == EndsAs(a, kbFocus', held', ptrAt',
                      (taken \cup (IF ptrAt.part = "content" THEN pressed ELSE {}))')

StoryIsTold == \E g : /\ Story(windows, framed, wire, g)
                      /\ Begins(g[0])
                      /\ Ends(g[Len(wire)])

\* What each kind of message speaks of, and never of a window still to come.
WellFormed(m) ==
  /\ m.win \in created \cup {NoWindow}
  /\ m.kind = "enter" => m.win # NoWindow
  /\ m.kind \in {"key_down", "key_up"} => m.what \in Key
  /\ m.kind \in {"button_down", "button_up"} => m.what \in Button
  /\ m.kind = "pointer_enter" =>
       /\ m.what \in Part
       /\ m.what = "frame" /\ m.win \in windows => m.win \in framed

WireOK == \A i \in 1..Len(wire) : WellFormed(wire[i])

\* The compositor's side.
CompositorOK ==
  /\ kbFocus \in windows \cup {NoWindow}
  /\ ptrAt \in SpotOf(windows, framed)
  /\ ptrAt = Nowhere => pressed = {}

\* The library's side.
LibraryOK ==
  /\ focused = {keyboardFocus} \ {NoWindow}
  /\ KeysFollowFocus
  /\ pointerFocus = NoWindow \/ decorFocus = NoWindow
  /\ inside = {pointerFocus} \ {NoWindow}

SeatInv == TypeOK /\ WireOK /\ CompositorOK /\ LibraryOK /\ StoryIsTold

-----------------------------------------------------------------------------
(* Stories *)

USE SeatAssumption

\* Dispatching the head of the wire drops the first scene.
LEMMA StoryTail ==
  ASSUME NEW W, NEW F, NEW s \in Seq(Message), s # << >>, NEW g, Story(W, F, s, g)
  PROVE  /\ Turn(W, F, Head(s), g[0], g[1])
         /\ g[0] \in Scene(W, F) /\ g[1] \in Scene(W, F)
         /\ \E h : /\ Story(W, F, Tail(s), h)
                   /\ h[0] = g[1]
                   /\ h[Len(Tail(s))] = g[Len(s)]
<1> DEFINE h == [i \in 0..Len(Tail(s)) |-> g[i + 1]]
<1>1. Len(s) \in Nat \ {0} /\ Len(Tail(s)) = Len(s) - 1 /\ Head(s) = s[1]
        /\ \A i \in 1..Len(s) - 1 : Tail(s)[i] = s[i + 1]
  OBVIOUS
<1>2. h \in [0..Len(Tail(s)) -> Scene(W, F)]
  BY <1>1 DEF Story
<1>3. ASSUME NEW i \in 1..Len(Tail(s))
      PROVE  Turn(W, F, Tail(s)[i], h[i - 1], h[i])
  <2>1. Tail(s)[i] = s[i + 1] /\ h[i - 1] = g[(i + 1) - 1] /\ h[i] = g[i + 1]
    BY <1>1
  <2>2. i + 1 \in 1..Len(s)
    BY <1>1
  <2>3. Turn(W, F, s[i + 1], g[(i + 1) - 1], g[i + 1])
    BY <2>2 DEF Story
  <2> QED BY <2>1, <2>3
<1>4. h[0] = g[1] /\ h[Len(Tail(s))] = g[Len(s)]
  BY <1>1
<1>5. 1 \in 1..Len(s) /\ 0 \in 0..Len(s) /\ 1 \in 0..Len(s) /\ 1 - 1 = 0
  BY <1>1
<1>6. Turn(W, F, Head(s), g[0], g[1]) /\ g[0] \in Scene(W, F) /\ g[1] \in Scene(W, F)
  BY <1>1, <1>5 DEF Story
<1> HIDE DEF h
<1> QED BY <1>2, <1>3, <1>4, <1>6 DEF Story

\* A message more is a scene more.
LEMMA StoryAppend ==
  ASSUME NEW W, NEW F, NEW s \in Seq(Message), NEW g, Story(W, F, s, g),
         NEW m \in Message, NEW b \in Scene(W, F), Turn(W, F, m, g[Len(s)], b)
  PROVE  \E h : /\ Story(W, F, Append(s, m), h)
                /\ h[0] = g[0]
                /\ h[Len(Append(s, m))] = b
<1> DEFINE n == Len(s)
           h == [i \in 0..n + 1 |-> IF i <= n THEN g[i] ELSE b]
<1>1. n \in Nat /\ Len(Append(s, m)) = n + 1
        /\ \A i \in 1..n : Append(s, m)[i] = s[i]
        /\ Append(s, m)[n + 1] = m
  OBVIOUS
<1>2. h \in [0..n + 1 -> Scene(W, F)]
  BY <1>1 DEF Story
<1>3. ASSUME NEW i \in 1..n + 1
      PROVE  Turn(W, F, Append(s, m)[i], h[i - 1], h[i])
  <2>1. CASE i <= n
    <3>1. i \in 1..n /\ h[i - 1] = g[i - 1] /\ h[i] = g[i]
      BY <1>1, <2>1
    <3> QED BY <1>1, <3>1 DEF Story
  <2>2. CASE i = n + 1
    <3>1. h[i - 1] = g[n] /\ h[i] = b
      BY <1>1, <2>2
    <3> QED BY <1>1, <2>2, <3>1
  <2> QED BY <1>1, <2>1, <2>2
<1>4. h[0] = g[0] /\ h[n + 1] = b
  BY <1>1
<1> HIDE DEF h
<1> QED BY <1>1, <1>2, <1>3, <1>4 DEF Story

\* A story retold: every scene and every message changed, turn by turn.
LEMMA StoryRetold ==
  ASSUME NEW W, NEW F, NEW s \in Seq(Message), NEW g, Story(W, F, s, g),
         NEW V, NEW E, NEW t \in Seq(Message), Len(t) = Len(s),
         NEW h, h \in [0..Len(s) -> Scene(V, E)],
         \A i \in 1..Len(s) :
           g[i - 1] \in Scene(W, F) /\ g[i] \in Scene(W, F)
             /\ Turn(W, F, s[i], g[i - 1], g[i]) => Turn(V, E, t[i], h[i - 1], h[i])
  PROVE  Story(V, E, t, h)
<1>1. Len(s) \in Nat
  OBVIOUS
<1>2. ASSUME NEW i \in 1..Len(s)
      PROVE  Turn(V, E, t[i], h[i - 1], h[i])
  <2>1. g[i - 1] \in Scene(W, F) /\ g[i] \in Scene(W, F)
    BY <1>1 DEF Story
  <2>2. Turn(W, F, s[i], g[i - 1], g[i])
    BY DEF Story
  <2> QED BY <2>1, <2>2
<1> QED BY <1>2 DEF Story

-----------------------------------------------------------------------------
(* What a turn becomes when the scenes change *)

WithoutWindow(a, w) ==
  [focus |-> IF a.focus = w THEN NoWindow ELSE a.focus,
   down |-> IF a.focus = w THEN {} ELSE a.down,
   spot |-> IF a.spot.win = w THEN Nowhere ELSE a.spot,
   latched |-> a.latched]

\* A window is destroyed.
LEMMA TurnWithoutWindow ==
  ASSUME NEW W \in SUBSET Window, NEW F \in SUBSET W, NEW w \in W, NEW m \in Message,
         NEW a \in Scene(W, F), NEW b \in Scene(W, F), Turn(W, F, m, a, b)
  PROVE  /\ WithoutWindow(a, w) \in Scene(W \ {w}, F \ {w})
         /\ Turn(W \ {w}, F \ {w}, m, WithoutWindow(a, w), WithoutWindow(b, w))
<1> DEFINE c == WithoutWindow(a, w)
           d == WithoutWindow(b, w)
<1>1. c \in Scene(W \ {w}, F \ {w})
  BY DEF Scene, SpotOf, WithoutWindow, Nowhere
<1>2. KeyboardTurn(W \ {w}, m, c, d)
  BY DEF Turn, KeyboardTurn, WithoutWindow, Scene
<1>3. PointerTurn(W \ {w}, F \ {w}, m, c, d)
  <2>1. CASE m.kind = "pointer_enter"
    <3>1. a.spot = Nowhere /\ b.spot = Landing(W, F, m.win, m.what)
      BY <2>1 DEF Turn, PointerTurn
    <3>2. c.spot = Nowhere
      BY <3>1 DEF WithoutWindow, Nowhere
    <3>3. d.spot = Landing(W \ {w}, F \ {w}, m.win, m.what)
      BY <3>1 DEF WithoutWindow, Landing, SpotOf, Nowhere
    <3> QED BY <2>1, <3>2, <3>3 DEF PointerTurn
  <2>2. CASE m.kind # "pointer_enter"
    BY <2>2 DEF Turn, PointerTurn, WithoutWindow, Nowhere
  <2> QED BY <2>1, <2>2
<1>4. ButtonTurn(m, c, d)
  BY DEF Turn, ButtonTurn, WithoutWindow, Nowhere
<1> QED BY <1>1, <1>2, <1>3, <1>4 DEF Turn

WithoutFrame(a, w) ==
  [a EXCEPT !.spot = IF @ = [win |-> w, part |-> "frame"] THEN Nowhere ELSE @]

\* A frame is taken down.
LEMMA TurnWithoutFrame ==
  ASSUME NEW W \in SUBSET Window, NEW F \in SUBSET W, NEW w, NEW m \in Message,
         NEW a \in Scene(W, F), NEW b \in Scene(W, F), Turn(W, F, m, a, b),
         NEW n, n = IF ToFrame(m, w) THEN [m EXCEPT !.win = NoWindow] ELSE m
  PROVE  /\ WithoutFrame(a, w) \in Scene(W, F \ {w})
         /\ Turn(W, F \ {w}, n, WithoutFrame(a, w), WithoutFrame(b, w))
<1> DEFINE c == WithoutFrame(a, w)
           d == WithoutFrame(b, w)
<1>0. /\ n.kind = m.kind /\ n.what = m.what
      /\ m.kind # "pointer_enter" => n.win = m.win
      /\ c.focus = a.focus /\ c.down = a.down /\ c.latched = a.latched
      /\ d.focus = b.focus /\ d.down = b.down /\ d.latched = b.latched
      /\ c.spot = IF a.spot = [win |-> w, part |-> "frame"] THEN Nowhere ELSE a.spot
      /\ d.spot = IF b.spot = [win |-> w, part |-> "frame"] THEN Nowhere ELSE b.spot
  BY DEF Message, Scene, WithoutFrame, ToFrame
<1>1. c \in Scene(W, F \ {w})
  <2>1. c.spot \in SpotOf(W, F \ {w})
    BY <1>0 DEF Scene, SpotOf, Nowhere
  <2> QED BY <2>1, <1>0 DEF Scene, WithoutFrame
<1> HIDE DEF c, d
<1>2. KeyboardTurn(W, n, c, d)
  BY <1>0 DEF Turn, KeyboardTurn
<1>3. PointerTurn(W, F \ {w}, n, c, d)
  <2>1. CASE m.kind = "pointer_enter"
    <3>1. a.spot = Nowhere /\ b.spot = Landing(W, F, m.win, m.what)
      BY <2>1 DEF Turn, PointerTurn
    <3>2. c.spot = Nowhere
      BY <1>0, <3>1 DEF Nowhere
    <3>3. d.spot = Landing(W, F \ {w}, n.win, n.what)
      <4>1. CASE ToFrame(m, w)
        <5>1. n.win = NoWindow /\ n.what = "frame"
          BY <4>1 DEF ToFrame, Message
        <5>2. d.spot = Nowhere
          BY <1>0, <3>1, <4>1 DEF ToFrame, Landing
        <5>3. Landing(W, F \ {w}, NoWindow, "frame") = Nowhere
          BY DEF Landing, SpotOf, Nowhere
        <5> QED BY <5>1, <5>2, <5>3
      <4>2. CASE ~ToFrame(m, w)
        <5>1. n = m
          BY <4>2
        <5>2. b.spot # [win |-> w, part |-> "frame"]
          BY <2>1, <3>1, <4>2 DEF ToFrame, Landing, Nowhere
        <5>3. ~(m.win = w /\ m.what = "frame")
          BY <2>1, <4>2 DEF ToFrame
        <5>4. Landing(W, F \ {w}, m.win, m.what) = Landing(W, F, m.win, m.what)
          BY <5>3 DEF Landing, SpotOf, Nowhere
        <5> QED BY <1>0, <3>1, <5>1, <5>2, <5>4
      <4> QED BY <4>1, <4>2
    <3> QED BY <1>0, <2>1, <3>2, <3>3 DEF PointerTurn
  <2>2. CASE m.kind # "pointer_enter"
    BY <1>0, <2>2 DEF Turn, PointerTurn
  <2> QED BY <2>1, <2>2
<1>4. ButtonTurn(n, c, d)
  BY <1>0 DEF Turn, ButtonTurn, Nowhere
<1> QED BY <1>1, <1>2, <1>3, <1>4 DEF Turn, c, d

\* There are more windows or frames, of which the message does not speak.
LEMMA TurnWithMore ==
  ASSUME NEW W \in SUBSET Window, NEW F \in SUBSET W, NEW m \in Message,
         NEW a \in Scene(W, F), NEW b \in Scene(W, F), Turn(W, F, m, a, b),
         NEW V \in SUBSET Window, NEW E \in SUBSET V, W \subseteq V, F \subseteq E,
         m.win \in V => m.win \in W,
         m.kind = "pointer_enter" /\ m.what = "frame" /\ m.win \in E => m.win \in F
  PROVE  a \in Scene(V, E) /\ Turn(V, E, m, a, b)
<1>1. a \in Scene(V, E)
  BY DEF Scene, SpotOf
<1>2. KeyboardTurn(V, m, a, b)
  BY DEF Turn, KeyboardTurn
<1>3. PointerTurn(V, E, m, a, b)
  <2>1. m.kind = "pointer_enter" => Landing(V, E, m.win, m.what)
                                      = Landing(W, F, m.win, m.what)
    BY DEF Landing, SpotOf, Nowhere
  <2> QED BY <2>1 DEF Turn, PointerTurn
<1> QED BY <1>1, <1>2, <1>3 DEF Turn

Raised(a, k) == [a EXCEPT !.latched = @ \cup {k}]

\* A button may be latched.
LEMMA TurnRaised ==
  ASSUME NEW W, NEW F, NEW k \in Button, NEW m \in Message,
         NEW a \in Scene(W, F), NEW b \in Scene(W, F), Turn(W, F, m, a, b)
  PROVE  Raised(a, k) \in Scene(W, F) /\ Turn(W, F, m, Raised(a, k), Raised(b, k))
<1>1. /\ Raised(a, k).focus = a.focus /\ Raised(a, k).down = a.down
      /\ Raised(a, k).spot = a.spot /\ Raised(a, k).latched = a.latched \cup {k}
      /\ Raised(b, k).focus = b.focus /\ Raised(b, k).down = b.down
      /\ Raised(b, k).spot = b.spot /\ Raised(b, k).latched = b.latched \cup {k}
  BY DEF Raised, Scene
<1>2. Raised(a, k) \in Scene(W, F)
  BY DEF Raised, Scene
<1>3. KeyboardTurn(W, m, Raised(a, k), Raised(b, k))
  BY <1>1 DEF Turn, KeyboardTurn
<1>4. PointerTurn(W, F, m, Raised(a, k), Raised(b, k))
  BY <1>1 DEF Turn, PointerTurn
<1>5. ButtonTurn(m, Raised(a, k), Raised(b, k))
  BY <1>1 DEF Turn, ButtonTurn
<1> QED BY <1>2, <1>3, <1>4, <1>5 DEF Turn

-----------------------------------------------------------------------------
(* Types *)

\* Everything the compositor says is a message.
LEMMA MessagesTyped ==
  ASSUME TypeOK, CompositorOK
  PROVE  /\ KbLeave \in Seq(Message) /\ PtrLeave \in Seq(Message)
         /\ \A kind \in Kind : Say(kind) \in Message
         /\ \A kind \in Kind, w \in windows : Tell(kind, w, "nothing") \in Message
         /\ \A kind \in Kind, k \in Key \cup Button : Tell(kind, NoWindow, k) \in Message
         /\ \A kind \in Kind, to \in SpotOf(windows, framed) :
              Tell(kind, to.win, to.part) \in Message
<1>1. windows \subseteq Window /\ framed \subseteq Window
  BY DEF TypeOK
<1>2. \A kind \in Kind : Say(kind) \in Message
  BY DEF Say, Tell, Message
<1>3. \A kind \in Kind, w \in windows : Tell(kind, w, "nothing") \in Message
  BY <1>1 DEF Tell, Message
<1>4. \A kind \in Kind, k \in Key \cup Button : Tell(kind, NoWindow, k) \in Message
  BY DEF Tell, Message
<1>5. \A kind \in Kind, to \in SpotOf(windows, framed) :
        Tell(kind, to.win, to.part) \in Message
  BY <1>1 DEF Tell, Message, SpotOf, Part, Nowhere
<1>6. KbLeave \in Seq(Message)
  <2>1. kbFocus # NoWindow => Tell("leave", kbFocus, "nothing") \in Message
    BY <1>3 DEF CompositorOK, Kind
  <2> QED BY <2>1 DEF KbLeave
<1>7. PtrLeave \in Seq(Message)
  <2>1. Tell("pointer_leave", ptrAt.win, ptrAt.part) \in Message
    BY <1>5 DEF CompositorOK, Kind
  <2> QED BY <2>1 DEF PtrLeave
<1> QED BY <1>2, <1>3, <1>4, <1>5, <1>6, <1>7

\* What the compositor does keeps the types.
LEMMA CompositorTyped ==
  ASSUME TypeOK, CompositorOK, Compositor
  PROVE  TypeOK'
<1> USE DEF compositor, kb, ptr, surface, Send
<1> SUFFICES /\ wire' \in Seq(Message)
             /\ kbFocus' \in Window \cup {NoWindow} /\ held' \subseteq Key
             /\ hasKeyboard' \in BOOLEAN /\ hasPointer' \in BOOLEAN
             /\ ptrAt' \in [win : Window \cup {NoWindow}, part : Part]
             /\ pressed' \subseteq Button /\ taken' \subseteq Button
             /\ UNCHANGED <<kb, ptr, surface>>
  BY DEF TypeOK
<1>0. /\ wire \in Seq(Message)
      /\ kbFocus \in Window \cup {NoWindow} /\ held \subseteq Key
      /\ hasKeyboard \in BOOLEAN /\ hasPointer \in BOOLEAN
      /\ ptrAt \in [win : Window \cup {NoWindow}, part : Part]
      /\ pressed \subseteq Button /\ taken \subseteq Button
      /\ windows \subseteq Window
      /\ SpotOf(windows, framed) \subseteq [win : Window \cup {NoWindow}, part : Part]
  BY DEF TypeOK, SpotOf, Nowhere, Part
<1>k. /\ {"enter", "leave", "key_down", "key_up", "repeat_on", "repeat_off",
          "keyboard_added", "keyboard_removed", "pointer_enter", "pointer_leave",
          "button_down", "button_up", "pointer_added", "pointer_removed"} \subseteq Kind
      /\ DecorationKind \subseteq Kind
  BY DEF Kind, DecorationKind
<1>1. ASSUME NEW w \in windows \cup {NoWindow}, FocusMoves(w)
      PROVE  wire' \in Seq(Message)
  <2>1. (IF w = NoWindow THEN << >> ELSE <<Tell("enter", w, "nothing")>>) \in Seq(Message)
    BY <1>k, MessagesTyped
  <2>2. KbLeave \in Seq(Message)
    BY MessagesTyped
  <2> QED BY <1>0, <1>1, <2>1, <2>2 DEF FocusMoves
<1>2. ASSUME NEW k \in Key, KeyMoves(k)
      PROVE  wire' \in Seq(Message)
  <2>1. Tell(IF k \in held THEN "key_up" ELSE "key_down", NoWindow, k) \in Message
    BY <1>k, MessagesTyped
  <2> QED BY <1>0, <1>2, <2>1 DEF KeyMoves
<1>3. ASSUME NEW kind \in {"repeat_on", "repeat_off"}, RepeatInfo(kind)
      PROVE  wire' \in Seq(Message)
  <2>1. Say(kind) \in Message
    BY <1>k, MessagesTyped
  <2> QED BY <1>0, <1>3, <2>1 DEF RepeatInfo
<1>4. ASSUME KeyboardUnplugged PROVE wire' \in Seq(Message)
  <2>1. Say("keyboard_removed") \in Message /\ KbLeave \in Seq(Message)
    BY <1>k, MessagesTyped
  <2> QED BY <1>0, <1>4, <2>1 DEF KeyboardUnplugged
<1>5. ASSUME KeyboardPlugged PROVE wire' \in Seq(Message)
  <2>1. Say("keyboard_added") \in Message
    BY <1>k, MessagesTyped
  <2> QED BY <1>0, <1>5, <2>1 DEF KeyboardPlugged
<1>6. ASSUME NEW to \in SpotOf(windows, framed), PointerMoves(to)
      PROVE  wire' \in Seq(Message)
  <2>1. (IF to = Nowhere THEN << >> ELSE <<Tell("pointer_enter", to.win, to.part)>>)
          \in Seq(Message)
    BY <1>k, MessagesTyped
  <2>2. PtrLeave \in Seq(Message)
    BY MessagesTyped
  <2> QED BY <1>0, <1>6, <2>1, <2>2 DEF PointerMoves
<1>7. ASSUME NEW b \in Button, ButtonMoves(b)
      PROVE  wire' \in Seq(Message)
  <2>1. Tell(IF b \in pressed THEN "button_up" ELSE "button_down", NoWindow, b) \in Message
    BY <1>k, MessagesTyped
  <2> QED BY <1>0, <1>7, <2>1 DEF ButtonMoves
<1>8. ASSUME PointerTaken PROVE wire' \in Seq(Message)
  <2>1. PtrLeave \in Seq(Message)
    BY MessagesTyped
  <2> QED BY <1>0, <1>8, <2>1 DEF PointerTaken
<1>9. ASSUME PointerUnplugged PROVE wire' \in Seq(Message)
  <2>1. Say("pointer_removed") \in Message /\ PtrLeave \in Seq(Message)
    BY <1>k, MessagesTyped
  <2> QED BY <1>0, <1>9, <2>1 DEF PointerUnplugged
<1>10. ASSUME PointerPlugged PROVE wire' \in Seq(Message)
  <2>1. Say("pointer_added") \in Message
    BY <1>k, MessagesTyped
  <2> QED BY <1>0, <1>10, <2>1 DEF PointerPlugged
<1>11. ASSUME NEW w \in windows, NEW kind \in DecorationKind, DecorationMode(w, kind)
       PROVE  wire' \in Seq(Message)
  <2>1. Tell(kind, w, "nothing") \in Message
    BY <1>k, MessagesTyped
  <2> QED BY <1>0, <1>11, <2>1 DEF DecorationMode
<1>12. Spot = SpotOf(windows, framed)
  BY DEF Spot, SpotOf
<1>13. wire' \in Seq(Message)
  BY <1>1, <1>2, <1>3, <1>4, <1>5, <1>6, <1>7, <1>8, <1>9, <1>10, <1>11, <1>12
  DEF Compositor
<1>14. /\ kbFocus' \in Window \cup {NoWindow} /\ held' \subseteq Key
       /\ hasKeyboard' \in BOOLEAN /\ hasPointer' \in BOOLEAN
  BY <1>0
  DEF Compositor, FocusMoves, KeyMoves, RepeatInfo, KeyboardUnplugged, KeyboardPlugged,
      PointerMoves, ButtonMoves, PointerTaken, PointerUnplugged, PointerPlugged,
      DecorationMode
<1>15. /\ ptrAt' \in [win : Window \cup {NoWindow}, part : Part]
       /\ pressed' \subseteq Button /\ taken' \subseteq Button
  <2>1. ptrAt' \in {ptrAt, Nowhere} \cup SpotOf(windows, framed)
    BY <1>12
    DEF Compositor, FocusMoves, KeyMoves, RepeatInfo, KeyboardUnplugged,
        KeyboardPlugged, PointerMoves, ButtonMoves, PointerTaken, PointerUnplugged,
        PointerPlugged, DecorationMode
  <2>2. Nowhere \in SpotOf(windows, framed)
    BY DEF SpotOf
  <2>3. pressed' \subseteq Button /\ taken' \subseteq Button
    BY <1>0
    DEF Compositor, FocusMoves, KeyMoves, RepeatInfo, KeyboardUnplugged,
        KeyboardPlugged, PointerMoves, ButtonMoves, PointerTaken, PointerUnplugged,
        PointerPlugged, DecorationMode
  <2> QED BY <1>0, <2>1, <2>2, <2>3
<1>16. UNCHANGED <<kb, ptr, surface>>
  BY DEF Compositor, FocusMoves, KeyMoves, RepeatInfo, KeyboardUnplugged, KeyboardPlugged,
         PointerMoves, ButtonMoves, PointerTaken, PointerUnplugged, PointerPlugged,
         DecorationMode
<1> QED BY <1>13, <1>14, <1>15, <1>16

\* So do the messages as they are dispatched ...
LEMMA DispatchTyped ==
  ASSUME TypeOK, WireOK, Dispatch
  PROVE  TypeOK'
<1> DEFINE m == Head(wire)
<1> USE DEF compositor, kb, ptr, surface
<1>0. m \in Message /\ Tail(wire) \in Seq(Message) /\ WellFormed(m)
  <2>1. wire # << >> /\ wire \in Seq(Message)
    BY DEF Dispatch, TypeOK
  <2>2. m = wire[1] /\ 1 \in 1..Len(wire)
    BY <2>1
  <2> QED BY <2>1, <2>2 DEF WireOK
<1>1. wire' \in Seq(Message)
  <2> DEFINE t == Tail(wire)
  <2>0. \A n \in Message : [n EXCEPT !.win = NoWindow] \in Message
    BY DEF Message
  <2>1. \A i \in 1..Len(t) :
          (IF m.kind = "server_side" /\ ToFrame(t[i], m.win)
           THEN [t[i] EXCEPT !.win = NoWindow] ELSE t[i]) \in Message
    BY <1>0, <2>0
  <2>2. Len(t) \in Nat
    BY <1>0
  <2>3. FrameGone(m, t) \in Seq(Message)
    BY <2>1, <2>2, IsASeq DEF FrameGone
  <2> QED BY <2>3 DEF Dispatch
<1> HIDE DEF m
<1>2. CASE m.kind \in KeyboardKind /\ DispatchKeyboard(m)
  <2>0. /\ m.kind = "enter" => m.win \in windows \/ m.win \notin windows
        /\ m.kind \in {"key_down", "key_up"} => m.what \in Key
    BY <1>0 DEF WellFormed
  <2>1. UNCHANGED <<compositor, ptr, surface, taken>>
    BY <1>2 DEF DispatchKeyboard
  <2>2. /\ keyboard' \in BOOLEAN /\ repeats' \in BOOLEAN
        /\ focused' \subseteq windows /\ keys' \subseteq Key
        /\ repeatKey' \in Repeating \cup {NoKey}
        /\ keyboardFocus' \in windows \cup {NoWindow}
        /\ repeatWindow' \in windows \cup {NoWindow}
        /\ seen' \in [Window -> SUBSET Key] /\ excused' \subseteq Key
    <3>1. CASE m.kind = "enter"
      BY <1>2, <3>1 DEF DispatchKeyboard, KeyboardEnter, EmitFocus, TypeOK
    <3>2. CASE m.kind = "leave"
      BY <1>2, <3>2 DEF DispatchKeyboard, KeyboardLeave, StopRepeat, EmitFocus, TypeOK
    <3>3. CASE m.kind = "key_down"
      BY <1>2, <2>0, <3>3
      DEF DispatchKeyboard, KeyboardKey, EmitKey, StartRepeat, StopRepeat, TypeOK
    <3>4. CASE m.kind = "key_up"
      BY <1>2, <2>0, <3>4
      DEF DispatchKeyboard, KeyboardKey, EmitKey, StartRepeat, StopRepeat, TypeOK
    <3>5. CASE m.kind \in {"repeat_on", "repeat_off"}
      BY <1>2, <3>5 DEF DispatchKeyboard, KeyboardRepeatInfo, StopRepeat, TypeOK
    <3> QED BY <1>2, <3>1, <3>2, <3>3, <3>4, <3>5 DEF KeyboardKind
  <2> QED BY <1>1, <2>1, <2>2 DEF TypeOK
<1>3. CASE m.kind \in PointerKind /\ DispatchPointer(m)
  <2>0. m.kind \in {"button_down", "button_up"} => m.what \in Button
    BY <1>0 DEF WellFormed
  <2>1. UNCHANGED <<compositor, kb, surface>>
    BY <1>3 DEF DispatchPointer
  <2>2. /\ pointer' \in BOOLEAN /\ buttons' \subseteq Button /\ taken' \subseteq Button
        /\ onFrame' \subseteq Button /\ inside' \subseteq windows
        /\ pointerFocus' \in windows \cup {NoWindow}
        /\ decorFocus' \in framed \cup {NoWindow}
    <3>1. CASE m.kind = "pointer_enter"
      BY <1>3, <3>1 DEF DispatchPointer, PointerEnter, TypeOK
    <3>2. CASE m.kind = "pointer_leave"
      BY <1>3, <3>2 DEF DispatchPointer, PointerLeave, TypeOK
    <3>3. CASE m.kind = "button_down"
      BY <1>3, <2>0, <3>3 DEF DispatchPointer, PointerButton, TypeOK
    <3>4. CASE m.kind = "button_up"
      BY <1>3, <2>0, <3>4 DEF DispatchPointer, PointerButton, TypeOK
    <3> QED BY <1>3, <3>1, <3>2, <3>3, <3>4 DEF PointerKind
  <2> QED BY <1>1, <2>1, <2>2 DEF TypeOK
<1>4. CASE DecorationConfigure(m.win, m.kind) /\ UNCHANGED kb
  <2>1. framed' \subseteq windows' /\ decorFocus' \in framed' \cup {NoWindow}
    BY <1>4 DEF DecorationConfigure, DropFrame, TypeOK
  <2>2. /\ ptrAt' \in [win : Window \cup {NoWindow}, part : Part]
        /\ pressed' \subseteq Button /\ taken' \subseteq Button
    BY <1>4 DEF DecorationConfigure, TypeOK, Nowhere, Part
  <2> QED BY <1>1, <1>4, <2>1, <2>2 DEF DecorationConfigure, TypeOK
<1>5. CASE SeatCapabilities(m.kind) /\ UNCHANGED <<compositor, surface, taken>>
  <2>1. keyboard' \in BOOLEAN /\ pointer' \in BOOLEAN
    BY <1>5 DEF SeatCapabilities, TypeOK
  <2> QED BY <1>1, <1>5, <2>1 DEF SeatCapabilities, TypeOK
<1> QED BY <1>2, <1>3, <1>4, <1>5 DEF Dispatch, m

\* ... and everything else.
LEMMA SeatTypeStep ==
  ASSUME TypeOK, WireOK, CompositorOK, LibraryOK, [Next]_vars
  PROVE  TypeOK'
<1> USE DEF compositor, kb, ptr, surface
<1>1. CASE PumpKeyRepeat
  BY <1>1 DEF PumpKeyRepeat, EmitKey, TypeOK
<1>2. ASSUME NEW w \in Window, Create(w)
      PROVE  TypeOK'
  BY <1>2 DEF Create, TypeOK
<1>3. ASSUME NEW w \in Window, Destroy(w)
      PROVE  TypeOK'
  <2>1. /\ created' \subseteq Window /\ windows' \subseteq created' /\ framed' \subseteq windows'
        /\ focused' \subseteq windows' /\ inside' \subseteq windows'
        /\ seen' \in [Window -> SUBSET Key]
        /\ excused' \subseteq Key /\ taken' \subseteq Button
    BY <1>3 DEF Destroy, TypeOK
  <2>2. /\ repeatKey' \in Repeating \cup {NoKey}
        /\ keyboardFocus' \in windows' \cup {NoWindow}
        /\ repeatWindow' \in windows' \cup {NoWindow}
        /\ pointerFocus' \in windows' \cup {NoWindow}
        /\ decorFocus' \in framed' \cup {NoWindow}
    <3>1. /\ windows' = windows \ {w} /\ framed' = framed \ {w}
          /\ keyboardFocus \in windows \cup {NoWindow}
          /\ repeatWindow \in windows \cup {NoWindow}
          /\ pointerFocus \in windows \cup {NoWindow}
          /\ decorFocus \in framed \cup {NoWindow}
          /\ repeatKey \in Repeating \cup {NoKey}
      BY <1>3 DEF Destroy, TypeOK
    <3>2. repeatKey' \in {repeatKey, NoKey} /\ repeatWindow' \in windows' \cup {NoWindow}
      BY <1>3, <3>1 DEF Destroy, ForgetRepeat, StopRepeat
    <3>3. /\ keyboardFocus' \in windows' \cup {NoWindow}
          /\ pointerFocus' \in windows' \cup {NoWindow}
          /\ decorFocus' \in framed' \cup {NoWindow}
      BY <1>3, <3>1 DEF Destroy, DropFrame
    <3> QED BY <3>1, <3>2, <3>3
  <2>3. /\ ptrAt' \in [win : Window \cup {NoWindow}, part : Part]
        /\ pressed' \subseteq Button /\ kbFocus' \in Window \cup {NoWindow}
    BY <1>3 DEF Destroy, TypeOK, Nowhere, Part
  <2> QED BY <1>3, <2>1, <2>2, <2>3 DEF Destroy, TypeOK
<1>4. CASE UNCHANGED vars
  BY <1>4 DEF vars, TypeOK
<1> QED BY <1>1, <1>2, <1>3, <1>4, CompositorTyped, DispatchTyped DEF Next

-----------------------------------------------------------------------------
(* The compositor's steps *)

\* Every message it sends is well formed.
LEMMA CompositorWire ==
  ASSUME TypeOK, WireOK, CompositorOK, Compositor
  PROVE  WireOK'
<1> USE DEF surface, Send
<1>0. /\ wire \in Seq(Message) /\ windows \subseteq created
      /\ KbLeave \in Seq(Message) /\ PtrLeave \in Seq(Message)
      /\ NoWindow \notin windows
  BY MessagesTyped DEF TypeOK
<1>1. ASSUME NEW ms \in Seq(Message), wire' = wire \o ms, UNCHANGED surface,
             \A i \in 1..Len(ms) : WellFormed(ms[i])
      PROVE  WireOK'
  <2>1. \A i \in 1..Len(wire') :
          wire'[i] = IF i <= Len(wire) THEN wire[i] ELSE ms[i - Len(wire)]
    BY <1>0, <1>1
  <2>2. \A i \in 1..Len(wire') : WellFormed(wire'[i])
    BY <1>0, <1>1, <2>1 DEF WireOK
  <2> QED BY <1>1, <2>2 DEF WireOK, WellFormed
<1>2. /\ \A i \in 1..Len(KbLeave) : WellFormed(KbLeave[i])
      /\ \A i \in 1..Len(PtrLeave) : WellFormed(PtrLeave[i])
  <2>1. kbFocus # NoWindow => kbFocus \in windows
    BY DEF CompositorOK
  <2>2. ptrAt.win \in windows \cup {NoWindow}
    BY DEF CompositorOK, SpotOf, Nowhere, TypeOK
  <2> QED BY <1>0, <2>1, <2>2 DEF KbLeave, PtrLeave, WellFormed, Tell
<1>3. ASSUME NEW m \in Message, WellFormed(m), UNCHANGED surface,
             wire' = wire \o <<m>> \/ wire' = wire \o (KbLeave \o <<m>>)
               \/ wire' = wire \o (PtrLeave \o <<m>>)
      PROVE  WireOK'
  <2>1. ASSUME NEW ms \in Seq(Message), \A i \in 1..Len(ms) : WellFormed(ms[i])
        PROVE  \A i \in 1..Len(ms \o <<m>>) : WellFormed((ms \o <<m>>)[i])
    BY <1>3, <2>1
  <2>2. /\ KbLeave \o <<m>> \in Seq(Message) /\ PtrLeave \o <<m>> \in Seq(Message)
        /\ <<m>> \in Seq(Message) /\ \A i \in 1..Len(<<m>>) : WellFormed(<<m>>[i])
    BY <1>0, <1>3
  <2> QED BY <1>0, <1>1, <1>2, <1>3, <2>1, <2>2
<1>4. ASSUME UNCHANGED surface, wire' = wire \/ wire' = wire \o KbLeave
               \/ wire' = wire \o PtrLeave \/ wire' = wire \o (KbLeave \o << >>)
               \/ wire' = wire \o (PtrLeave \o << >>)
      PROVE  WireOK'
  <2>1. KbLeave \o << >> = KbLeave /\ PtrLeave \o << >> = PtrLeave
    BY <1>0
  <2>2. CASE wire' = wire
    BY <1>4, <2>2 DEF WireOK, WellFormed
  <2> QED BY <1>0, <1>1, <1>2, <1>4, <2>1, <2>2
<1>5. /\ \A kind \in Kind \ {"enter", "key_down", "key_up", "button_down", "button_up",
                              "pointer_enter"} :
           WellFormed(Say(kind)) /\ \A w \in windows : WellFormed(Tell(kind, w, "nothing"))
      /\ \A w \in windows : WellFormed(Tell("enter", w, "nothing"))
      /\ \A k \in Key : WellFormed(Tell("key_down", NoWindow, k))
                          /\ WellFormed(Tell("key_up", NoWindow, k))
      /\ \A b \in Button : WellFormed(Tell("button_down", NoWindow, b))
                             /\ WellFormed(Tell("button_up", NoWindow, b))
      /\ \A to \in SpotOf(windows, framed) \ {Nowhere} :
           WellFormed(Tell("pointer_enter", to.win, to.part))
  BY <1>0 DEF WellFormed, Say, Tell, SpotOf, Part, TypeOK
<1>6. Spot = SpotOf(windows, framed)
  BY DEF Spot, SpotOf
<1>k. {"enter", "leave", "key_down", "key_up", "repeat_on", "repeat_off",
       "keyboard_added", "keyboard_removed", "pointer_enter", "pointer_leave",
       "button_down", "button_up", "pointer_added", "pointer_removed", "client_side",
       "server_side"} = Kind
  BY DEF Kind
<1>11. ASSUME NEW w \in windows \cup {NoWindow}, FocusMoves(w) PROVE WireOK'
  <2>1. CASE w = NoWindow
    BY <1>4, <1>11, <2>1 DEF FocusMoves
  <2>2. CASE w # NoWindow
    BY <1>3, <1>5, <1>k, <1>11, <2>2, MessagesTyped DEF FocusMoves
  <2> QED BY <2>1, <2>2
<1>12. ASSUME NEW k \in Key, KeyMoves(k) PROVE WireOK'
  <2>1. CASE kbFocus = NoWindow
    BY <1>4, <1>12, <2>1 DEF KeyMoves
  <2>2. CASE kbFocus # NoWindow
    BY <1>3, <1>5, <1>k, <1>12, <2>2, MessagesTyped DEF KeyMoves
  <2> QED BY <2>1, <2>2
<1>13. CASE \E kind \in {"repeat_on", "repeat_off"} : RepeatInfo(kind)
  BY <1>3, <1>5, <1>k, <1>13, MessagesTyped DEF RepeatInfo
<1>14. CASE KeyboardUnplugged
  BY <1>3, <1>5, <1>k, <1>14, MessagesTyped DEF KeyboardUnplugged
<1>15. CASE KeyboardPlugged
  BY <1>3, <1>5, <1>k, <1>15, MessagesTyped DEF KeyboardPlugged
<1>16. ASSUME NEW to \in SpotOf(windows, framed), PointerMoves(to) PROVE WireOK'
  <2>1. CASE to = Nowhere
    BY <1>4, <1>16, <2>1 DEF PointerMoves
  <2>2. CASE to # Nowhere
    BY <1>3, <1>5, <1>k, <1>16, <2>2, MessagesTyped, ZenonT(60) DEF PointerMoves
  <2> QED BY <2>1, <2>2
<1>17. ASSUME NEW b \in Button, ButtonMoves(b) PROVE WireOK'
  BY <1>3, <1>5, <1>k, <1>17, MessagesTyped DEF ButtonMoves
<1>18. CASE PointerTaken
  BY <1>4, <1>18 DEF PointerTaken
<1>19. CASE PointerUnplugged
  BY <1>3, <1>5, <1>k, <1>19, MessagesTyped DEF PointerUnplugged
<1>20. CASE PointerPlugged
  BY <1>3, <1>5, <1>k, <1>20, MessagesTyped DEF PointerPlugged
<1>21. ASSUME NEW w \in windows, NEW kind \in DecorationKind, DecorationMode(w, kind)
       PROVE  WireOK'
  BY <1>3, <1>5, <1>k, <1>21, MessagesTyped DEF DecorationMode, DecorationKind
<1> QED
  BY <1>6, <1>11, <1>12, <1>13, <1>14, <1>15, <1>16, <1>17, <1>18, <1>19, <1>20, <1>21
  DEF Compositor

\* It knows where its focus and its pointer are.
LEMMA CompositorKnows ==
  ASSUME TypeOK, CompositorOK, Compositor
  PROVE  CompositorOK'
<1> USE DEF surface
<1>0. windows' = windows /\ framed' = framed
  BY DEF Compositor, FocusMoves, KeyMoves, RepeatInfo, KeyboardUnplugged, KeyboardPlugged,
         PointerMoves, ButtonMoves, PointerTaken, PointerUnplugged, PointerPlugged,
         DecorationMode
<1>1. kbFocus' \in windows \cup {NoWindow}
  BY DEF Compositor, FocusMoves, KeyMoves, RepeatInfo, KeyboardUnplugged, KeyboardPlugged,
         PointerMoves, ButtonMoves, PointerTaken, PointerUnplugged, PointerPlugged,
         DecorationMode, CompositorOK, compositor
<1>2. Spot = SpotOf(windows, framed) /\ Nowhere \in Spot
  BY DEF Spot, SpotOf
<1>3. ptrAt' \in SpotOf(windows, framed)
  BY <1>2
  DEF Compositor, FocusMoves, KeyMoves, RepeatInfo, KeyboardUnplugged, KeyboardPlugged,
      PointerMoves, ButtonMoves, PointerTaken, PointerUnplugged, PointerPlugged,
      DecorationMode, CompositorOK, compositor
<1>4. ptrAt' = Nowhere => pressed' = {}
  BY DEF Compositor, FocusMoves, KeyMoves, RepeatInfo, KeyboardUnplugged, KeyboardPlugged,
         PointerMoves, ButtonMoves, PointerTaken, PointerUnplugged, PointerPlugged,
         DecorationMode, CompositorOK, compositor
<1> QED BY <1>0, <1>1, <1>3, <1>4 DEF CompositorOK

\* Telling the window that has the keyboard focus that it is gone.
LEMMA StoryKbLeave ==
  ASSUME TypeOK, CompositorOK, NEW g, Story(windows, framed, wire, g),
         Ends(g[Len(wire)])
  PROVE  \E h : /\ Story(windows, framed, wire \o KbLeave, h)
                /\ h[0] = g[0]
                /\ h[Len(wire \o KbLeave)]
                     = [g[Len(wire)] EXCEPT !.focus = NoWindow, !.down = {}]
<1> DEFINE a == g[Len(wire)]
           b == [a EXCEPT !.focus = NoWindow, !.down = {}]
           m == Tell("leave", kbFocus, "nothing")
<1>1. wire \in Seq(Message) /\ Len(wire) \in Nat
  BY DEF TypeOK
<1>2. a \in Scene(windows, framed) /\ a.focus = kbFocus
  BY <1>1 DEF Story, Ends, EndsNext, EndsAs
<1> HIDE DEF a
<1>3. b \in Scene(windows, framed)
  BY <1>2 DEF Scene
<1>4. CASE kbFocus = NoWindow
  <2>1. b = a
    BY <1>2, <1>4 DEF Scene
  <2>2. wire \o KbLeave = wire
    BY <1>1, <1>4 DEF KbLeave
  <2> QED BY <2>1, <2>2 DEF a
<1>5. CASE kbFocus # NoWindow
  <2>1. m \in Message
    BY <1>5, MessagesTyped DEF CompositorOK, Kind
  <2>2. wire \o KbLeave = Append(wire, m)
    BY <1>1, <1>5, <2>1 DEF KbLeave
  <2>3. m.kind = "leave"
    BY DEF Tell
  <2>4. /\ b.focus = NoWindow /\ b.down = {}
        /\ b.spot = a.spot /\ b.latched = a.latched
    BY <1>2 DEF Scene
  <2> HIDE DEF b, m
  <2>5. Turn(windows, framed, m, a, b)
    BY <2>3, <2>4 DEF Turn, KeyboardTurn, PointerTurn, ButtonTurn
  <2> QED BY <1>1, <1>3, <2>1, <2>2, <2>5, StoryAppend DEF a, b
<1> QED BY <1>4, <1>5

\* Telling the window the pointer is over that it is gone.
LEMMA StoryPtrLeave ==
  ASSUME TypeOK, CompositorOK, NEW g, Story(windows, framed, wire, g),
         Ends(g[Len(wire)])
  PROVE  \E h : /\ Story(windows, framed, wire \o PtrLeave, h)
                /\ h[0] = g[0]
                /\ h[Len(wire \o PtrLeave)] = [g[Len(wire)] EXCEPT !.spot = Nowhere]
<1> DEFINE a == g[Len(wire)]
           b == [a EXCEPT !.spot = Nowhere]
           m == Tell("pointer_leave", ptrAt.win, ptrAt.part)
<1>1. wire \in Seq(Message) /\ Len(wire) \in Nat
  BY DEF TypeOK
<1>2. a \in Scene(windows, framed) /\ a.spot = ptrAt
  BY <1>1 DEF Story, Ends, EndsNext, EndsAs
<1> HIDE DEF a
<1>3. b \in Scene(windows, framed)
  BY <1>2 DEF Scene, SpotOf
<1>4. CASE ptrAt = Nowhere
  <2>1. b = a
    BY <1>2, <1>4 DEF Scene
  <2>2. wire \o PtrLeave = wire
    BY <1>1, <1>4 DEF PtrLeave
  <2> QED BY <2>1, <2>2 DEF a
<1>5. CASE ptrAt # Nowhere
  <2>1. m \in Message
    BY MessagesTyped DEF CompositorOK, Kind
  <2>2. wire \o PtrLeave = Append(wire, m)
    BY <1>1, <1>5, <2>1 DEF PtrLeave
  <2>3. m.kind = "pointer_leave"
    BY DEF Tell
  <2>4. /\ b.focus = a.focus /\ b.down = a.down
        /\ b.spot = Nowhere /\ b.latched = a.latched
    BY <1>2 DEF Scene
  <2> HIDE DEF b, m
  <2>5. Turn(windows, framed, m, a, b)
    BY <2>3, <2>4 DEF Turn, KeyboardTurn, PointerTurn, ButtonTurn
  <2> QED BY <1>1, <1>3, <2>1, <2>2, <2>5, StoryAppend DEF a, b
<1> QED BY <1>4, <1>5

\* A message that turns nothing.
LEMMA StoryAside ==
  ASSUME NEW s \in Seq(Message), NEW g, Story(windows, framed, s, g),
         NEW m \in Message,
         m.kind \notin {"enter", "leave", "key_down", "key_up", "pointer_enter",
                        "pointer_leave", "button_down", "button_up"}
  PROVE  \E h : /\ Story(windows, framed, s \o <<m>>, h)
                /\ h[0] = g[0]
                /\ h[Len(s \o <<m>>)] = g[Len(s)]
<1>1. Len(s) \in Nat /\ s \o <<m>> = Append(s, m)
  OBVIOUS
<1>2. g[Len(s)] \in Scene(windows, framed)
  BY <1>1 DEF Story
<1>3. Turn(windows, framed, m, g[Len(s)], g[Len(s)])
  BY DEF Turn, KeyboardTurn, PointerTurn, ButtonTurn
<1>4. PICK h : /\ Story(windows, framed, Append(s, m), h) /\ h[0] = g[0]
               /\ h[Len(Append(s, m))] = g[Len(s)]
  BY <1>2, <1>3, StoryAppend
<1> QED BY <1>1, <1>4

\* The keyboard's part of the compositor: the story goes on.
LEMMA FocusMovesStory ==
  ASSUME TypeOK, CompositorOK, NEW w \in windows \cup {NoWindow}, FocusMoves(w),
         NEW g, Story(windows, framed, wire, g), Ends(g[Len(wire)])
  PROVE  \E h : /\ Story(windows, framed, wire', h)
                /\ h[0] = g[0]
                /\ EndsNext(h[Len(wire')])
<1> DEFINE s == wire \o KbLeave
           a == [g[Len(wire)] EXCEPT !.focus = NoWindow, !.down = {}]
           m == Tell("enter", w, "nothing")
           b == [a EXCEPT !.focus = w]
<1>1. wire \in Seq(Message) /\ KbLeave \in Seq(Message) /\ s \in Seq(Message)
        /\ windows \subseteq Window
  BY MessagesTyped DEF TypeOK
<1>2. PICK f : Story(windows, framed, s, f) /\ f[0] = g[0] /\ f[Len(s)] = a
  BY StoryKbLeave
<1>3. g[Len(wire)] \in Scene(windows, framed)
  BY <1>1 DEF Story
<1>4. /\ a \in Scene(windows, framed)
      /\ a.focus = NoWindow /\ a.down = {} /\ a.spot = g[Len(wire)].spot
      /\ a.latched = g[Len(wire)].latched
  BY <1>3 DEF Scene
<1>5. UNCHANGED <<held, ptrAt, pressed, taken>> /\ kbFocus' = w
  BY DEF FocusMoves
<1>6. CASE w = NoWindow
  <2>1. wire' = s
    BY <1>1, <1>6 DEF FocusMoves, Send
  <2>2. EndsNext(a)
    BY <1>4, <1>5, <1>6 DEF Ends, EndsNext, EndsAs
  <2> HIDE DEF s, a
  <2> QED BY <1>2, <2>1, <2>2
<1>7. CASE w # NoWindow
  <2>1. m \in Message /\ m.kind = "enter" /\ m.win = w
    BY <1>1, <1>7, MessagesTyped DEF Kind, Tell
  <2>2. wire' = Append(s, m)
    BY <1>1, <1>7, <2>1 DEF FocusMoves, Send
  <2>3. /\ b \in Scene(windows, framed)
        /\ b.focus = w /\ b.down = {} /\ b.spot = a.spot /\ b.latched = a.latched
    BY <1>4, <1>7 DEF Scene
  <2>4. Turn(windows, framed, m, a, b)
    BY <1>4, <1>7, <2>1, <2>3 DEF Turn, KeyboardTurn, PointerTurn, ButtonTurn
  <2>5. EndsNext(b)
    BY <1>4, <1>5, <2>3 DEF Ends, EndsNext, EndsAs
  <2> HIDE DEF s, a, m, b
  <2>6. PICK h : Story(windows, framed, Append(s, m), h) /\ h[0] = f[0]
                   /\ h[Len(Append(s, m))] = b
    BY <1>1, <1>2, <2>1, <2>3, <2>4, StoryAppend
  <2> QED BY <1>2, <2>2, <2>5, <2>6
<1> QED BY <1>6, <1>7

LEMMA KeyMovesStory ==
  ASSUME TypeOK, CompositorOK, NEW k \in Key, KeyMoves(k),
         NEW g, Story(windows, framed, wire, g), Ends(g[Len(wire)])
  PROVE  \E h : /\ Story(windows, framed, wire', h)
                /\ h[0] = g[0]
                /\ EndsNext(h[Len(wire')])
<1> DEFINE a == g[Len(wire)]
           m == Tell(IF k \in held THEN "key_up" ELSE "key_down", NoWindow, k)
           b == [a EXCEPT !.down = IF k \in held THEN @ \ {k} ELSE @ \cup {k}]
<1>1. wire \in Seq(Message) /\ Len(wire) \in Nat /\ held \subseteq Key
  BY DEF TypeOK
<1>2. a \in Scene(windows, framed)
  BY <1>1 DEF Story
<1>3. UNCHANGED <<kbFocus, ptrAt, pressed, taken>>
        /\ held' = IF k \in held THEN held \ {k} ELSE held \cup {k}
  BY DEF KeyMoves
<1>4. CASE kbFocus = NoWindow
  <2>1. wire' = wire
    BY <1>4 DEF KeyMoves
  <2>2. a.down = {}
    BY <1>2, <1>4 DEF Scene, Ends, EndsNext, EndsAs
  <2>3. EndsNext(a)
    BY <1>3, <2>2 DEF Ends, EndsNext, EndsAs
  <2> QED BY <2>1, <2>3
<1>5. CASE kbFocus # NoWindow
  <2>1. m \in Message /\ m.kind = (IF k \in held THEN "key_up" ELSE "key_down")
          /\ m.what = k
    BY MessagesTyped DEF Kind, Tell
  <2>2. wire' = Append(wire, m)
    BY <1>1, <1>5, <2>1 DEF KeyMoves, Send
  <2>3. /\ b \in Scene(windows, framed) /\ a.focus = kbFocus
        /\ b.focus = a.focus /\ b.spot = a.spot /\ b.latched = a.latched
        /\ b.down = IF k \in held THEN a.down \ {k} ELSE a.down \cup {k}
    BY <1>2, <1>5 DEF Scene, Ends, EndsNext, EndsAs
  <2>4. Turn(windows, framed, m, a, b)
    BY <1>5, <2>1, <2>3 DEF Turn, KeyboardTurn, PointerTurn, ButtonTurn
  <2>5. EndsNext(b)
    BY <1>3, <2>3 DEF Ends, EndsNext, EndsAs
  <2> HIDE DEF m, b
  <2> QED BY <1>1, <2>1, <2>2, <2>3, <2>4, <2>5, StoryAppend
<1> QED BY <1>4, <1>5

LEMMA KeyboardUnpluggedStory ==
  ASSUME TypeOK, CompositorOK, KeyboardUnplugged,
         NEW g, Story(windows, framed, wire, g), Ends(g[Len(wire)])
  PROVE  \E h : /\ Story(windows, framed, wire', h)
                /\ h[0] = g[0]
                /\ EndsNext(h[Len(wire')])
<1> DEFINE s == wire \o KbLeave
           a == [g[Len(wire)] EXCEPT !.focus = NoWindow, !.down = {}]
           m == Say("keyboard_removed")
<1>1. wire \in Seq(Message) /\ KbLeave \in Seq(Message) /\ s \in Seq(Message)
        /\ m \in Message /\ m.kind = "keyboard_removed"
  BY MessagesTyped DEF TypeOK, Kind, Say, Tell
<1>2. PICK f : Story(windows, framed, s, f) /\ f[0] = g[0] /\ f[Len(s)] = a
  BY StoryKbLeave
<1>3. g[Len(wire)] \in Scene(windows, framed)
  BY <1>1 DEF Story
<1>4. /\ a.focus = NoWindow /\ a.down = {} /\ a.spot = g[Len(wire)].spot
      /\ a.latched = g[Len(wire)].latched
  BY <1>3 DEF Scene
<1>5. EndsNext(a)
  BY <1>4 DEF Ends, EndsNext, EndsAs, KeyboardUnplugged
<1>6. wire' = s \o <<m>>
  BY <1>1 DEF KeyboardUnplugged, Send
<1> HIDE DEF s, a, m
<1>7. PICK h : Story(windows, framed, s \o <<m>>, h) /\ h[0] = f[0]
                 /\ h[Len(s \o <<m>>)] = f[Len(s)]
  BY <1>1, <1>2, StoryAside
<1> QED BY <1>2, <1>5, <1>6, <1>7

\* The pointer's part.
LEMMA PointerMovesStory ==
  ASSUME TypeOK, CompositorOK, NEW to \in SpotOf(windows, framed), PointerMoves(to),
         NEW g, Story(windows, framed, wire, g), Ends(g[Len(wire)])
  PROVE  \E h : /\ Story(windows, framed, wire', h)
                /\ h[0] = g[0]
                /\ EndsNext(h[Len(wire')])
<1> DEFINE s == wire \o PtrLeave
           a == [g[Len(wire)] EXCEPT !.spot = Nowhere]
           m == Tell("pointer_enter", to.win, to.part)
           b == [a EXCEPT !.spot = to]
<1>1. wire \in Seq(Message) /\ PtrLeave \in Seq(Message) /\ s \in Seq(Message)
        /\ windows \subseteq Window /\ framed \subseteq windows
  BY MessagesTyped DEF TypeOK
<1>2. PICK f : Story(windows, framed, s, f) /\ f[0] = g[0] /\ f[Len(s)] = a
  BY StoryPtrLeave
<1>3. g[Len(wire)] \in Scene(windows, framed)
  BY <1>1 DEF Story
<1>4. /\ a \in Scene(windows, framed) /\ a.spot = Nowhere
      /\ a.focus = g[Len(wire)].focus /\ a.down = g[Len(wire)].down
      /\ a.latched = g[Len(wire)].latched
  BY <1>3 DEF Scene, SpotOf
<1>5. UNCHANGED <<kbFocus, held, pressed, taken>> /\ ptrAt' = to /\ pressed = {}
  BY DEF PointerMoves
<1>6. a.latched \ taken = {}
  BY <1>4, <1>5 DEF Ends, EndsNext, EndsAs
<1>7. CASE to = Nowhere
  <2>1. wire' = s
    BY <1>1, <1>7 DEF PointerMoves, Send
  <2>2. EndsNext(a)
    BY <1>4, <1>5, <1>6, <1>7 DEF Ends, EndsNext, EndsAs
  <2> HIDE DEF s, a
  <2> QED BY <1>2, <2>1, <2>2
<1>8. CASE to # Nowhere
  <2>1. m \in Message /\ m.kind = "pointer_enter" /\ m.win = to.win /\ m.what = to.part
    BY MessagesTyped DEF Kind, Tell
  <2>2. wire' = Append(s, m)
    BY <1>1, <1>8, <2>1 DEF PointerMoves, Send
  <2>3. /\ b \in Scene(windows, framed) /\ b.spot = to
        /\ b.focus = a.focus /\ b.down = a.down /\ b.latched = a.latched
    BY <1>4 DEF Scene
  <2>4. Landing(windows, framed, to.win, to.part) = to
    BY DEF Landing, SpotOf, Nowhere
  <2>5. Turn(windows, framed, m, a, b)
    BY <1>4, <2>1, <2>3, <2>4 DEF Turn, KeyboardTurn, PointerTurn, ButtonTurn
  <2>6. EndsNext(b)
    BY <1>4, <1>5, <1>6, <2>3 DEF Ends, EndsNext, EndsAs
  <2> HIDE DEF s, a, m, b
  <2>7. PICK h : Story(windows, framed, Append(s, m), h) /\ h[0] = f[0]
                   /\ h[Len(Append(s, m))] = b
    BY <1>1, <1>2, <2>1, <2>3, <2>5, StoryAppend
  <2> QED BY <1>2, <2>2, <2>6, <2>7
<1> QED BY <1>7, <1>8

\* A press that is sent may be of a button the library still has latched.
LEMMA ButtonMovesStory ==
  ASSUME TypeOK, CompositorOK, NEW k \in Button, ButtonMoves(k),
         NEW g, Story(windows, framed, wire, g), Ends(g[Len(wire)]), Begins(g[0])
  PROVE  \E h : /\ Story(windows, framed, wire', h)
                /\ BeginsNext(h[0])
                /\ EndsNext(h[Len(wire')])
<1> DEFINE n == Len(wire)
           m == Tell(IF k \in pressed THEN "button_up" ELSE "button_down", NoWindow, k)
<1>1. wire \in Seq(Message) /\ n \in Nat
  BY DEF TypeOK
<1>2. g[n] \in Scene(windows, framed) /\ g[0] \in Scene(windows, framed)
  BY <1>1 DEF Story
<1>3. m \in Message /\ m.kind = (IF k \in pressed THEN "button_up" ELSE "button_down")
        /\ m.what = k
  BY MessagesTyped DEF Kind, Tell
<1>4. wire' = Append(wire, m)
  BY <1>1, <1>3 DEF ButtonMoves, Send
<1>5. UNCHANGED <<kbFocus, held, ptrAt, kb, ptr>> /\ ptrAt # Nowhere
        /\ pressed' = (IF k \in pressed THEN pressed \ {k} ELSE pressed \cup {k})
        /\ taken' = (IF k \in pressed THEN taken ELSE taken \ {k})
  BY DEF ButtonMoves
<1>6. ptrAt.part = "content" => ptrAt.win # NoWindow
  BY <1>5 DEF CompositorOK, SpotOf, Nowhere, TypeOK
<1> HIDE DEF m
<1>7. CASE k \in pressed
  <2> DEFINE a == g[n]
             b == [a EXCEPT !.latched = IF ptrAt.part = "frame" THEN @ ELSE @ \ {k}]
  <2>1. /\ b \in Scene(windows, framed) /\ a.spot = ptrAt
        /\ b.focus = a.focus /\ b.down = a.down /\ b.spot = a.spot
        /\ b.latched = IF ptrAt.part = "frame" THEN a.latched ELSE a.latched \ {k}
    BY <1>2 DEF Scene, Ends, EndsNext, EndsAs
  <2> HIDE DEF b
  <2>2. Turn(windows, framed, m, a, b)
    BY <1>3, <1>7, <2>1 DEF Turn, KeyboardTurn, PointerTurn, ButtonTurn
  <2>3. ptrAt.part \in {"content", "frame"}
    BY DEF TypeOK, Part
  <2>4. EndsNext(b)
    BY <1>5, <1>7, <2>1, <2>3 DEF Ends, EndsNext, EndsAs
  <2>5. BeginsNext(g[0])
    BY <1>5, <1>7 DEF Begins, BeginsNext, BeginsAs, LibrarySpot, kb, ptr
  <2>6. PICK h : Story(windows, framed, Append(wire, m), h) /\ h[0] = g[0]
                   /\ h[Len(Append(wire, m))] = b
    BY <1>1, <1>3, <2>1, <2>2, StoryAppend
  <2> QED BY <1>4, <2>4, <2>5, <2>6
<1>8. CASE k \notin pressed
  <2> DEFINE r == [i \in 0..n |-> Raised(g[i], k)]
             a == r[n]
             b == [a EXCEPT !.latched = IF ptrAt.part = "frame" THEN @ \ {k} ELSE @]
  <2>1. \A i \in 0..n : g[i] \in Scene(windows, framed)
    BY DEF Story
  <2>2. \A i \in 0..n : Raised(g[i], k) \in Scene(windows, framed)
    BY <2>1 DEF Raised, Scene
  <2>3. r \in [0..n -> Scene(windows, framed)]
    BY <2>2
  <2>4. ASSUME NEW i \in 1..n, Turn(windows, framed, wire[i], g[i - 1], g[i])
        PROVE  Turn(windows, framed, wire[i], r[i - 1], r[i])
    <3>1. i - 1 \in 0..n /\ i \in 0..n
      BY <1>1
    <3>2. wire[i] \in Message
      BY <1>1
    <3>3. Turn(windows, framed, wire[i], Raised(g[i - 1], k), Raised(g[i], k))
      BY <2>1, <2>4, <3>1, <3>2, TurnRaised
    <3> QED BY <3>1, <3>3
  <2>5. r[0] = Raised(g[0], k) /\ r[n] = Raised(g[n], k)
    BY <1>1
  <2> HIDE DEF r
  <2>6. Story(windows, framed, wire, r)
    BY <1>1, <2>3, <2>4, StoryRetold
  <2>7. /\ a \in Scene(windows, framed)
        /\ a.focus = g[n].focus /\ a.down = g[n].down /\ a.spot = g[n].spot
        /\ a.latched = g[n].latched \cup {k}
    BY <1>1, <1>2, <2>2, <2>5 DEF Raised, Scene
  <2> HIDE DEF a
  <2>8. /\ b \in Scene(windows, framed) /\ a.spot = ptrAt
        /\ b.focus = a.focus /\ b.down = a.down /\ b.spot = a.spot
        /\ b.latched = IF ptrAt.part = "frame" THEN a.latched \ {k} ELSE a.latched
    BY <2>7 DEF Scene, Ends, EndsNext, EndsAs
  <2> HIDE DEF b
  <2>9. ptrAt.part \in {"content", "frame"}
    BY DEF TypeOK, Part
  <2>10. Turn(windows, framed, m, a, b)
    BY <1>3, <1>6, <1>8, <2>7, <2>8, <2>9 DEF Turn, KeyboardTurn, PointerTurn, ButtonTurn
  <2>11. EndsNext(b)
    BY <1>5, <1>8, <2>7, <2>8, <2>9 DEF Ends, EndsNext, EndsAs
  <2>12. BeginsNext(Raised(g[0], k))
    <3>1. /\ Raised(g[0], k).focus = g[0].focus /\ Raised(g[0], k).down = g[0].down
          /\ Raised(g[0], k).spot = g[0].spot
          /\ Raised(g[0], k).latched = g[0].latched \cup {k}
      BY <1>2 DEF Raised, Scene
    <3> QED BY <1>5, <1>8, <3>1 DEF Begins, BeginsNext, BeginsAs, LibrarySpot, kb, ptr
  <2>13. PICK h : Story(windows, framed, Append(wire, m), h) /\ h[0] = r[0]
                    /\ h[Len(Append(wire, m))] = b
    BY <1>1, <1>3, <2>6, <2>8, <2>10, StoryAppend DEF a
  <2> QED BY <1>4, <2>5, <2>11, <2>12, <2>13
<1> QED BY <1>7, <1>8

LEMMA PointerGoesStory ==
  ASSUME TypeOK, CompositorOK, PointerTaken \/ PointerUnplugged,
         NEW g, Story(windows, framed, wire, g), Ends(g[Len(wire)])
  PROVE  \E h : /\ Story(windows, framed, wire', h)
                /\ h[0] = g[0]
                /\ EndsNext(h[Len(wire')])
<1> DEFINE s == wire \o PtrLeave
           a == [g[Len(wire)] EXCEPT !.spot = Nowhere]
           m == Say("pointer_removed")
<1>1. wire \in Seq(Message) /\ PtrLeave \in Seq(Message) /\ s \in Seq(Message)
        /\ m \in Message /\ m.kind = "pointer_removed"
  BY MessagesTyped DEF TypeOK, Kind, Say, Tell
<1>2. PICK f : Story(windows, framed, s, f) /\ f[0] = g[0] /\ f[Len(s)] = a
  BY StoryPtrLeave
<1>3. g[Len(wire)] \in Scene(windows, framed)
  BY <1>1 DEF Story
<1>4. /\ a.focus = g[Len(wire)].focus /\ a.down = g[Len(wire)].down
      /\ a.spot = Nowhere /\ a.latched = g[Len(wire)].latched
  BY <1>3 DEF Scene
<1>5. EndsNext(a)
  <2>1. UNCHANGED <<kbFocus, held>> /\ ptrAt' = Nowhere /\ pressed' = {}
          /\ taken' = taken \cup pressed
    BY DEF PointerTaken, PointerUnplugged
  <2>2. a.latched \ taken' = {}
    BY <1>4, <2>1 DEF Ends, EndsNext, EndsAs
  <2> QED BY <1>4, <2>1, <2>2 DEF Ends, EndsNext, EndsAs
<1>6. CASE PointerTaken
  <2>1. wire' = s
    BY <1>6 DEF PointerTaken, Send
  <2> QED BY <1>2, <1>5, <2>1
<1>7. CASE PointerUnplugged
  <2>1. wire' = s \o <<m>>
    BY <1>1, <1>7 DEF PointerUnplugged, Send
  <2> HIDE DEF s, a, m
  <2>2. PICK h : Story(windows, framed, s \o <<m>>, h) /\ h[0] = f[0]
                   /\ h[Len(s \o <<m>>)] = f[Len(s)]
    BY <1>1, <1>2, StoryAside
  <2> QED BY <1>2, <1>5, <2>1, <2>2
<1> QED BY <1>6, <1>7

\* Whatever the compositor says, the story goes on.
LEMMA CompositorStory ==
  ASSUME TypeOK, CompositorOK, StoryIsTold, Compositor
  PROVE  StoryIsTold'
<1>0. UNCHANGED <<windows, framed, kb, ptr>>
  BY DEF Compositor, FocusMoves, KeyMoves, RepeatInfo, KeyboardUnplugged, KeyboardPlugged,
         PointerMoves, ButtonMoves, PointerTaken, PointerUnplugged, PointerPlugged,
         DecorationMode, surface, kb, ptr
<1>1. PICK g : Story(windows, framed, wire, g) /\ Begins(g[0]) /\ Ends(g[Len(wire)])
  BY DEF StoryIsTold
<1>2. SUFFICES \E h : /\ Story(windows, framed, wire', h)
                      /\ BeginsNext(h[0])
                      /\ EndsNext(h[Len(wire')])
  BY <1>0 DEF StoryIsTold, Begins, BeginsNext, Ends, EndsNext
<1>3. ASSUME taken \subseteq taken'
      PROVE  BeginsNext(g[0])
  BY <1>0, <1>1, <1>3 DEF Begins, BeginsNext, BeginsAs, LibrarySpot, kb, ptr
<1>4. ASSUME NEW m \in Message, wire' = wire \o <<m>>, UNCHANGED <<compositor, taken>>
               \/ UNCHANGED <<kbFocus, held, ptrAt, pressed, taken>>,
             m.kind \notin {"enter", "leave", "key_down", "key_up", "pointer_enter",
                            "pointer_leave", "button_down", "button_up"}
      PROVE  \E h : /\ Story(windows, framed, wire', h)
                    /\ BeginsNext(h[0])
                    /\ EndsNext(h[Len(wire')])
  <2>1. PICK h : Story(windows, framed, wire \o <<m>>, h) /\ h[0] = g[0]
                   /\ h[Len(wire \o <<m>>)] = g[Len(wire)]
    BY <1>1, <1>4, StoryAside DEF TypeOK
  <2>2. EndsNext(g[Len(wire)])
    BY <1>1, <1>4 DEF Ends, EndsNext, EndsAs, compositor
  <2>3. BeginsNext(g[0])
    BY <1>3, <1>4
  <2> QED BY <1>4, <2>1, <2>2, <2>3
<1>5. Spot = SpotOf(windows, framed)
  BY DEF Spot, SpotOf
<1>11. ASSUME NEW w \in windows \cup {NoWindow}, FocusMoves(w)
       PROVE  \E h : /\ Story(windows, framed, wire', h)
                     /\ BeginsNext(h[0])
                     /\ EndsNext(h[Len(wire')])
  <2>1. taken' = taken
    BY <1>11 DEF FocusMoves
  <2>2. PICK h : Story(windows, framed, wire', h) /\ h[0] = g[0] /\ EndsNext(h[Len(wire')])
    BY <1>1, <1>11, FocusMovesStory
  <2>3. BeginsNext(g[0])
    BY <1>3, <2>1
  <2> QED BY <2>2, <2>3
<1>12. ASSUME NEW k \in Key, KeyMoves(k)
       PROVE  \E h : /\ Story(windows, framed, wire', h)
                     /\ BeginsNext(h[0])
                     /\ EndsNext(h[Len(wire')])
  <2>1. taken' = taken
    BY <1>12 DEF KeyMoves
  <2>2. PICK h : Story(windows, framed, wire', h) /\ h[0] = g[0] /\ EndsNext(h[Len(wire')])
    BY <1>1, <1>12, KeyMovesStory
  <2>3. BeginsNext(g[0])
    BY <1>3, <2>1
  <2> QED BY <2>2, <2>3
<1>13. ASSUME NEW kind \in {"repeat_on", "repeat_off"}, RepeatInfo(kind)
       PROVE  \E h : /\ Story(windows, framed, wire', h)
                     /\ BeginsNext(h[0])
                     /\ EndsNext(h[Len(wire')])
  <2>1. Say(kind) \in Message /\ Say(kind).kind = kind
    BY MessagesTyped DEF Kind, Say, Tell
  <2> QED BY <1>4, <1>13, <2>1 DEF RepeatInfo, Send
<1>14. CASE KeyboardUnplugged
  <2>1. taken' = taken
    BY <1>14 DEF KeyboardUnplugged
  <2>2. PICK h : Story(windows, framed, wire', h) /\ h[0] = g[0] /\ EndsNext(h[Len(wire')])
    BY <1>1, <1>14, KeyboardUnpluggedStory
  <2>3. BeginsNext(g[0])
    BY <1>3, <2>1
  <2> QED BY <2>2, <2>3
<1>15. CASE KeyboardPlugged
  <2>1. Say("keyboard_added") \in Message /\ Say("keyboard_added").kind = "keyboard_added"
    BY MessagesTyped DEF Kind, Say, Tell
  <2> QED BY <1>4, <1>15, <2>1 DEF KeyboardPlugged, Send
<1>16. ASSUME NEW to \in SpotOf(windows, framed), PointerMoves(to)
       PROVE  \E h : /\ Story(windows, framed, wire', h)
                     /\ BeginsNext(h[0])
                     /\ EndsNext(h[Len(wire')])
  <2>1. taken' = taken
    BY <1>16 DEF PointerMoves
  <2>2. PICK h : Story(windows, framed, wire', h) /\ h[0] = g[0] /\ EndsNext(h[Len(wire')])
    BY <1>1, <1>16, PointerMovesStory
  <2>3. BeginsNext(g[0])
    BY <1>3, <2>1
  <2> QED BY <2>2, <2>3
<1>17. ASSUME NEW k \in Button, ButtonMoves(k)
       PROVE  \E h : /\ Story(windows, framed, wire', h)
                     /\ BeginsNext(h[0])
                     /\ EndsNext(h[Len(wire')])
  BY <1>1, <1>17, ButtonMovesStory
<1>18. CASE PointerTaken \/ PointerUnplugged
  <2>1. taken \subseteq taken'
    BY <1>18 DEF PointerTaken, PointerUnplugged
  <2>2. PICK h : Story(windows, framed, wire', h) /\ h[0] = g[0] /\ EndsNext(h[Len(wire')])
    BY <1>1, <1>18, PointerGoesStory
  <2>3. BeginsNext(g[0])
    BY <1>3, <2>1
  <2> QED BY <2>2, <2>3
<1>19. CASE PointerPlugged
  <2>1. Say("pointer_added") \in Message /\ Say("pointer_added").kind = "pointer_added"
    BY MessagesTyped DEF Kind, Say, Tell
  <2> QED BY <1>4, <1>19, <2>1 DEF PointerPlugged, Send
<1>20. ASSUME NEW w \in windows, NEW kind \in DecorationKind, DecorationMode(w, kind)
       PROVE  \E h : /\ Story(windows, framed, wire', h)
                     /\ BeginsNext(h[0])
                     /\ EndsNext(h[Len(wire')])
  <2>1. Tell(kind, w, "nothing") \in Message /\ Tell(kind, w, "nothing").kind = kind
    BY MessagesTyped DEF Kind, Tell, DecorationKind
  <2> QED BY <1>4, <1>20, <2>1 DEF DecorationMode, Send, DecorationKind
<1> QED
  BY <1>5, <1>11, <1>12, <1>13, <1>14, <1>15, <1>16, <1>17, <1>18, <1>19, <1>20
  DEF Compositor

-----------------------------------------------------------------------------
(* Dispatching *)

\* What is dispatched, and what stays on the wire.
LEMMA DispatchTakes ==
  ASSUME TypeOK, WireOK, Dispatch
  PROVE  /\ Head(wire) \in Message /\ WellFormed(Head(wire))
         /\ Tail(wire) \in Seq(Message) /\ wire # << >>
         /\ wire' \in Seq(Message) /\ Len(wire') = Len(Tail(wire))
         /\ \A i \in 1..Len(Tail(wire)) :
              /\ WellFormed(Tail(wire)[i]) /\ Tail(wire)[i] \in Message
              /\ wire'[i] = IF /\ Head(wire).kind = "server_side"
                               /\ ToFrame(Tail(wire)[i], Head(wire).win)
                            THEN [Tail(wire)[i] EXCEPT !.win = NoWindow]
                            ELSE Tail(wire)[i]
<1> DEFINE m == Head(wire)
           t == Tail(wire)
<1>1. wire # << >> /\ wire \in Seq(Message) /\ wire' = FrameGone(m, t)
  BY DEF Dispatch, TypeOK
<1>2. /\ m = wire[1] /\ 1 \in 1..Len(wire) /\ t \in Seq(Message) /\ Len(t) \in Nat
      /\ \A i \in 1..Len(t) : t[i] = wire[i + 1] /\ i + 1 \in 1..Len(wire) /\ t[i] \in Message
  BY <1>1
<1>3. m \in Message /\ WellFormed(m) /\ \A i \in 1..Len(t) : WellFormed(t[i])
  BY <1>1, <1>2 DEF WireOK
<1> HIDE DEF m, t
<1>4. wire' \in Seq(Message)
  BY DispatchTyped DEF TypeOK, m, t
<1>5. DOMAIN wire' = 1..Len(t)
  BY <1>1 DEF FrameGone
<1>6. Len(wire') = Len(t)
  BY <1>2, <1>4, <1>5, LenProperties
<1>7. \A i \in 1..Len(t) :
        wire'[i] = IF m.kind = "server_side" /\ ToFrame(t[i], m.win)
                   THEN [t[i] EXCEPT !.win = NoWindow] ELSE t[i]
  BY <1>1 DEF FrameGone
<1> QED BY <1>1, <1>2, <1>3, <1>4, <1>6, <1>7 DEF m, t

\* Only the frame of the window a message configures comes or goes.
LEMMA DispatchFrames ==
  ASSUME TypeOK, WireOK, Dispatch
  PROVE  /\ windows' = windows /\ created' = created
         /\ Head(wire).kind = "server_side" => framed' = framed \ {Head(wire).win}
         /\ Head(wire).kind # "server_side" => framed \subseteq framed'
         /\ Head(wire).kind \notin DecorationKind => framed' = framed
<1>1. /\ WellFormed(Head(wire)) /\ windows \subseteq Window /\ framed \subseteq windows
  BY DispatchTakes DEF TypeOK
<1> DEFINE m == Head(wire)
<1>2. CASE m.kind \in KeyboardKind /\ DispatchKeyboard(m)
  BY <1>2 DEF DispatchKeyboard, KeyboardKind, DecorationKind, surface
<1>3. CASE m.kind \in PointerKind /\ DispatchPointer(m)
  BY <1>3 DEF DispatchPointer, PointerKind, DecorationKind, surface
<1>4. CASE m.kind \in DecorationKind /\ DecorationConfigure(m.win, m.kind)
  BY <1>1, <1>4 DEF DecorationConfigure, DecorationKind
<1>5. CASE m.kind \notin KeyboardKind \cup PointerKind \cup DecorationKind
             /\ UNCHANGED surface
  BY <1>5 DEF DecorationKind, surface
<1> QED BY <1>2, <1>3, <1>4, <1>5 DEF Dispatch

LEMMA DispatchWire ==
  ASSUME TypeOK, WireOK, Dispatch
  PROVE  WireOK'
<1> DEFINE m == Head(wire)
           t == Tail(wire)
<1>1. SUFFICES ASSUME NEW i \in 1..Len(t)
               PROVE  /\ wire'[i].win \in created \cup {NoWindow}
                      /\ wire'[i].kind = "enter" => wire'[i].win # NoWindow
                      /\ wire'[i].kind \in {"key_down", "key_up"} => wire'[i].what \in Key
                      /\ wire'[i].kind \in {"button_down", "button_up"} =>
                           wire'[i].what \in Button
                      /\ wire'[i].kind = "pointer_enter" =>
                           /\ wire'[i].what \in Part
                           /\ wire'[i].what = "frame" /\ wire'[i].win \in windows =>
                                wire'[i].win \in framed'
  BY DispatchTakes, DispatchFrames DEF WireOK, WellFormed
<1>2. WellFormed(t[i]) /\ t[i] \in Message /\ NoWindow \notin windows
  BY DispatchTakes DEF TypeOK
<1>3. CASE m.kind = "server_side" /\ ToFrame(t[i], m.win)
  <2>1. wire'[i] = [t[i] EXCEPT !.win = NoWindow]
    BY <1>3, DispatchTakes
  <2>2. wire'[i].win = NoWindow /\ wire'[i].kind = "pointer_enter" /\ wire'[i].what = "frame"
    BY <1>2, <1>3, <2>1 DEF ToFrame, Message
  <2> QED BY <1>2, <2>2 DEF Part
<1>4. CASE ~(m.kind = "server_side" /\ ToFrame(t[i], m.win))
  <2>1. wire'[i] = t[i]
    BY <1>4, DispatchTakes
  <2>2. t[i].kind = "pointer_enter" /\ t[i].what = "frame" /\ t[i].win \in windows =>
          t[i].win \in framed'
    BY <1>2, <1>4, DispatchFrames DEF WellFormed, ToFrame
  <2> QED BY <1>2, <2>1, <2>2 DEF WellFormed
<1> QED BY <1>3, <1>4

LEMMA DispatchCompositor ==
  ASSUME TypeOK, WireOK, CompositorOK, Dispatch
  PROVE  CompositorOK'
<1> DEFINE m == Head(wire)
<1>1. windows' = windows /\ framed \subseteq windows
  BY DispatchFrames DEF TypeOK
<1>2. CASE m.kind \in DecorationKind /\ DecorationConfigure(m.win, m.kind)
  <2>1. kbFocus' \in windows' \cup {NoWindow}
    BY <1>2 DEF DecorationConfigure, CompositorOK
  <2>2. ptrAt' \in SpotOf(windows', framed')
    BY <1>2 DEF DecorationConfigure, DecorationKind, CompositorOK, SpotOf, Nowhere
  <2>3. ptrAt' = Nowhere => pressed' = {}
    BY <1>2 DEF DecorationConfigure, CompositorOK
  <2> QED BY <2>1, <2>2, <2>3 DEF CompositorOK
<1>3. CASE m.kind \notin DecorationKind /\ UNCHANGED <<compositor, surface>>
  BY <1>3 DEF CompositorOK, compositor, surface
<1> QED
  BY <1>2, <1>3
  DEF Dispatch, DispatchKeyboard, DispatchPointer, KeyboardKind, PointerKind, DecorationKind

\* What the library holds true after a message is the scene after it.
LEMMA DispatchBegins ==
  ASSUME TypeOK, WireOK, LibraryOK, Dispatch, Head(wire).kind \notin DecorationKind,
         NEW a \in Scene(windows, framed), NEW b \in Scene(windows, framed),
         Turn(windows, framed, Head(wire), a, b), Begins(a)
  PROVE  BeginsNext(b) /\ LibraryOK' /\ UNCHANGED compositor /\ taken \subseteq taken'
<1> DEFINE m == Head(wire)
<1>0. /\ WellFormed(m) /\ m \in Message
      /\ windows \subseteq Window /\ framed \subseteq windows
      /\ NoWindow \notin windows /\ NoKey \notin Key
      /\ keyboardFocus \in windows \cup {NoWindow}
      /\ pointerFocus \in windows \cup {NoWindow}
      /\ decorFocus \in framed \cup {NoWindow}
      /\ keys \subseteq Key /\ seen \in [Window -> SUBSET Key]
  BY DispatchTakes DEF TypeOK
<1>1. /\ KeyboardTurn(windows, m, a, b) /\ PointerTurn(windows, framed, m, a, b)
      /\ ButtonTurn(m, a, b)
  BY DEF Turn
<1>2. /\ a.focus = keyboardFocus /\ keys \ excused \subseteq a.down
      /\ repeatKey # NoKey => repeatKey \in a.down
      /\ a.spot = LibrarySpot
      /\ buttons \ (taken \cup onFrame) \subseteq a.latched
      /\ a.focus = NoWindow => a.down = {}
  BY DEF Begins, BeginsAs, Scene
<1>3. /\ focused = {keyboardFocus} \ {NoWindow}
      /\ pointerFocus = NoWindow \/ decorFocus = NoWindow
      /\ inside = {pointerFocus} \ {NoWindow}
      /\ repeatKey # NoKey => /\ repeatWindow = keyboardFocus
                              /\ repeatWindow \in focused /\ repeatKey \in keys
      /\ \A w \in Window : seen[w] # {} => w \in focused /\ seen[w] \subseteq keys
  BY DEF LibraryOK, KeysFollowFocus, RepeatIsHeld, NoStuckKey
<1> HIDE DEF m
<1>4. CASE m.kind \in KeyboardKind /\ DispatchKeyboard(m)
  <2>1. UNCHANGED <<compositor, ptr, windows, framed, taken>>
    BY <1>4 DEF DispatchKeyboard, surface
  <2>2. /\ b.spot = LibrarySpot' /\ (buttons \ (taken \cup onFrame))' \subseteq b.latched
        /\ pointerFocus' = NoWindow \/ decorFocus' = NoWindow
        /\ inside' = {pointerFocus'} \ {NoWindow}
    <3>1. b.spot = a.spot /\ a.latched \subseteq b.latched
      BY <1>1, <1>4 DEF PointerTurn, ButtonTurn, KeyboardKind
    <3> QED BY <1>2, <1>3, <2>1, <3>1 DEF LibrarySpot, ptr
  <2>3. SUFFICES /\ b.focus = keyboardFocus' /\ (keys \ excused)' \subseteq b.down
                 /\ repeatKey' # NoKey => repeatKey' \in b.down
                 /\ focused' = {keyboardFocus'} \ {NoWindow}
                 /\ repeatKey' # NoKey => /\ repeatWindow' = keyboardFocus'
                                          /\ repeatWindow' \in focused'
                                          /\ repeatKey' \in keys'
                 /\ \A w \in Window :
                      seen'[w] # {} => w \in focused' /\ seen'[w] \subseteq keys'
    BY <2>1, <2>2
    DEF BeginsNext, BeginsAs, LibraryOK, KeysFollowFocus, RepeatIsHeld, NoStuckKey
  <2>4. CASE m.kind = "enter"
    <3>1. a.focus = NoWindow /\ b.down = {}
            /\ b.focus = (IF m.win \in windows THEN m.win ELSE NoWindow)
      BY <1>1, <2>4 DEF KeyboardTurn
    <3>2. keyboardFocus = NoWindow /\ focused = {} /\ keys \ excused = {}
            /\ repeatKey = NoKey /\ \A w \in Window : seen[w] = {}
      BY <1>2, <1>3, <3>1
    <3>3. KeyboardEnter(m.win)
      BY <1>4, <2>4 DEF DispatchKeyboard
    <3>4. CASE m.win \in windows
      BY <1>0, <3>1, <3>2, <3>3, <3>4 DEF KeyboardEnter, EmitFocus
    <3>5. CASE m.win \notin windows
      BY <3>1, <3>2, <3>3, <3>5 DEF KeyboardEnter
    <3> QED BY <3>4, <3>5
  <2>5. CASE m.kind = "leave"
    <3>1. b.focus = NoWindow /\ b.down = {}
      BY <1>1, <2>5 DEF KeyboardTurn
    <3>2. KeyboardLeave
      BY <1>4, <2>5 DEF DispatchKeyboard
    <3>3. repeatKey' = NoKey
      BY <3>2 DEF KeyboardLeave, StopRepeat
    <3>4. CASE keyboardFocus = NoWindow
      BY <1>2, <1>3, <3>1, <3>2, <3>3, <3>4 DEF KeyboardLeave
    <3>5. CASE keyboardFocus # NoWindow
      <4>1. /\ keyboardFocus' = NoWindow /\ focused' = focused \ {keyboardFocus}
            /\ keys' = {} /\ seen' = [seen EXCEPT ![keyboardFocus] = @ \ keys]
        BY <1>3, <3>2, <3>5 DEF KeyboardLeave, EmitFocus
      <4> QED BY <1>0, <1>3, <3>1, <3>3, <3>5, <4>1
    <3> QED BY <3>4, <3>5
  <2>6. CASE m.kind \in {"key_down", "key_up"}
    <3> DEFINE down == m.kind = "key_down"
    <3>1. KeyboardKey(m.what, down) /\ m.what \in Key
      BY <1>0, <1>4, <2>6 DEF DispatchKeyboard, WellFormed
    <3>2. /\ b.focus = a.focus
          /\ b.down = IF a.focus = NoWindow THEN {}
                      ELSE IF down THEN a.down \cup {m.what} ELSE a.down \ {m.what}
      BY <1>1, <1>2, <2>6 DEF KeyboardTurn
    <3> HIDE DEF down
    <3>3. UNCHANGED <<keyboardFocus, focused, excused>>
      BY <3>1 DEF KeyboardKey
    <3>4. CASE keyboardFocus = NoWindow
      BY <1>2, <1>3, <3>1, <3>2, <3>3, <3>4 DEF KeyboardKey
    <3>5. CASE keyboardFocus # NoWindow
      <4>1. /\ keys' = IF down THEN keys \cup {m.what} ELSE keys \ {m.what}
            /\ seen' = [seen EXCEPT ![keyboardFocus] =
                          IF down THEN @ \cup {m.what} ELSE @ \ {m.what}]
            /\ \/ repeatKey' = NoKey
               \/ repeatKey' = repeatKey /\ repeatWindow' = repeatWindow
                    /\ (down \/ repeatKey # m.what)
               \/ repeatKey' = m.what /\ repeatWindow' = keyboardFocus /\ down
        BY <3>1, <3>5 DEF KeyboardKey, EmitKey, StartRepeat, StopRepeat
      <4>2. (keys \ excused)' \subseteq b.down
        BY <1>2, <3>2, <3>3, <3>5, <4>1
      <4>3. repeatKey' # NoKey => repeatKey' \in b.down
        BY <1>2, <3>2, <3>5, <4>1
      <4>4. repeatKey' # NoKey => /\ repeatWindow' = keyboardFocus'
                                  /\ repeatWindow' \in focused' /\ repeatKey' \in keys'
        BY <1>3, <3>3, <3>5, <4>1
      <4>5. \A w \in Window : seen'[w] # {} => w \in focused' /\ seen'[w] \subseteq keys'
        BY <1>0, <1>3, <3>3, <3>5, <4>1
      <4> QED BY <1>2, <1>3, <3>2, <3>3, <4>2, <4>3, <4>4, <4>5
    <3> QED BY <3>4, <3>5
  <2>7. CASE m.kind \in {"repeat_on", "repeat_off"}
    <3>1. b.focus = a.focus /\ b.down = a.down
      BY <1>1, <2>7 DEF KeyboardTurn
    <3>2. KeyboardRepeatInfo(TRUE) \/ KeyboardRepeatInfo(FALSE)
      BY <1>4, <2>7 DEF DispatchKeyboard
    <3>3. /\ keyboardFocus' = keyboardFocus /\ focused' = focused /\ keys' = keys
          /\ seen' = seen /\ excused' = excused
      BY <3>2 DEF KeyboardRepeatInfo
    <3>4. repeatKey' # NoKey => repeatKey' = repeatKey /\ repeatWindow' = repeatWindow
      BY <3>2 DEF KeyboardRepeatInfo, StopRepeat
    <3>5. b.focus = keyboardFocus' /\ (keys \ excused)' \subseteq b.down
      BY <1>2, <3>1, <3>3
    <3> QED BY <1>2, <1>3, <3>1, <3>3, <3>4, <3>5
  <2> QED BY <1>4, <2>4, <2>5, <2>6, <2>7 DEF KeyboardKind
<1>5. CASE m.kind \in PointerKind /\ DispatchPointer(m)
  <2>1. UNCHANGED <<compositor, kb, windows, framed>>
    BY <1>5 DEF DispatchPointer, surface
  <2>2. /\ b.focus = keyboardFocus' /\ (keys \ excused)' \subseteq b.down
        /\ repeatKey' # NoKey => repeatKey' \in b.down
        /\ focused' = {keyboardFocus'} \ {NoWindow}
        /\ KeysFollowFocus'
    <3>1. b.focus = a.focus /\ b.down = a.down
      BY <1>1, <1>5 DEF KeyboardTurn, PointerKind
    <3>2. KeysFollowFocus'
      BY <2>1 DEF LibraryOK, KeysFollowFocus, RepeatIsHeld, NoStuckKey, kb
    <3> QED BY <1>2, <1>3, <2>1, <3>1, <3>2 DEF kb
  <2>3. SUFFICES /\ b.spot = LibrarySpot'
                 /\ (buttons \ (taken \cup onFrame))' \subseteq b.latched
                 /\ pointerFocus' = NoWindow \/ decorFocus' = NoWindow
                 /\ inside' = {pointerFocus'} \ {NoWindow}
                 /\ taken \subseteq taken'
    BY <2>1, <2>2 DEF BeginsNext, BeginsAs, LibraryOK
  <2>4. CASE m.kind = "pointer_enter"
    <3>1. a.spot = Nowhere /\ b.spot = Landing(windows, framed, m.win, m.what)
            /\ a.latched \subseteq b.latched
      BY <1>1, <2>4 DEF PointerTurn, ButtonTurn
    <3>2. decorFocus = NoWindow /\ pointerFocus = NoWindow /\ inside = {}
      BY <1>2, <1>3, <3>1 DEF LibrarySpot, Nowhere
    <3>3. PointerEnter(m.win, m.what) /\ m.what \in Part
            /\ (m.what = "frame" /\ m.win \in windows => m.win \in framed)
      BY <1>0, <1>5, <2>4 DEF DispatchPointer, WellFormed
    <3>4. (buttons \ (taken \cup onFrame))' \subseteq b.latched /\ taken' = taken
      BY <1>2, <3>1, <3>3 DEF PointerEnter
    <3>5. CASE m.win \notin windows
      BY <1>0, <3>1, <3>2, <3>3, <3>4, <3>5
      DEF PointerEnter, Landing, SpotOf, LibrarySpot, Nowhere
    <3>6. CASE m.win \in windows /\ m.what = "content"
      BY <1>0, <3>1, <3>2, <3>3, <3>4, <3>6
      DEF PointerEnter, Landing, SpotOf, LibrarySpot, Nowhere
    <3>7. CASE m.win \in windows /\ m.what = "frame"
      BY <1>0, <3>1, <3>2, <3>3, <3>4, <3>7
      DEF PointerEnter, Landing, SpotOf, LibrarySpot, Nowhere
    <3> QED BY <3>3, <3>5, <3>6, <3>7 DEF Part
  <2>5. CASE m.kind = "pointer_leave"
    <3>1. b.spot = Nowhere /\ a.latched \subseteq b.latched
      BY <1>1, <2>5 DEF PointerTurn, ButtonTurn
    <3>2. PointerLeave
      BY <1>5, <2>5 DEF DispatchPointer
    <3> QED BY <1>2, <1>3, <3>1, <3>2 DEF PointerLeave, LibrarySpot, Nowhere
  <2>6. CASE m.kind \in {"button_down", "button_up"}
    <3> DEFINE down == m.kind = "button_down"
    <3>1. PointerButton(m.what, down)
      BY <1>5, <2>6 DEF DispatchPointer
    <3>2. b.spot = a.spot
      BY <1>1, <2>6 DEF PointerTurn
    <3>3. /\ UNCHANGED <<pointerFocus, decorFocus, inside>>
          /\ taken \subseteq taken'
      BY <3>1 DEF PointerButton
    <3>4. (buttons \ (taken \cup onFrame))' \subseteq b.latched
      <4>1. CASE decorFocus # NoWindow
        <5>1. a.spot.part = "frame"
          BY <1>2, <4>1 DEF LibrarySpot
        <5>2. IF down THEN a.latched \ {m.what} \subseteq b.latched
              ELSE a.latched \subseteq b.latched
          BY <1>1, <2>6, <5>1 DEF ButtonTurn
        <5> QED BY <1>2, <3>1, <4>1, <5>2 DEF PointerButton
      <4>2. CASE decorFocus = NoWindow /\ pointerFocus # NoWindow
        <5>1. a.spot.part = "content" /\ a.spot.win # NoWindow
          BY <1>2, <4>2 DEF LibrarySpot
        <5>2. IF down THEN a.latched \cup {m.what} \subseteq b.latched
              ELSE a.latched \ {m.what} \subseteq b.latched
          BY <1>1, <2>6, <5>1 DEF ButtonTurn
        <5> QED BY <1>2, <3>1, <4>2, <5>2 DEF PointerButton
      <4>3. CASE decorFocus = NoWindow /\ pointerFocus = NoWindow
        <5>1. a.latched \ {m.what} \subseteq b.latched
          BY <1>1, <2>6 DEF ButtonTurn
        <5> QED BY <1>2, <3>1, <4>3, <5>1 DEF PointerButton
      <4> QED BY <4>1, <4>2, <4>3
    <3> QED BY <1>2, <1>3, <3>2, <3>3, <3>4 DEF LibrarySpot
  <2> QED BY <1>5, <2>4, <2>5, <2>6 DEF PointerKind
<1>6. CASE /\ m.kind \notin KeyboardKind \cup PointerKind \cup DecorationKind
           /\ SeatCapabilities(m.kind) /\ UNCHANGED <<compositor, surface, taken>>
  <2>1. /\ b.focus = a.focus /\ b.down = a.down /\ b.spot = a.spot
        /\ a.latched \subseteq b.latched
    BY <1>1, <1>6 DEF KeyboardTurn, PointerTurn, ButtonTurn, KeyboardKind, PointerKind
  <2>2. UNCHANGED <<keyboardFocus, focused, keys, repeatKey, repeatWindow, seen, excused,
                    pointerFocus, decorFocus, buttons, inside, onFrame, taken, windows>>
    BY <1>6 DEF SeatCapabilities, surface
  <2>3. BeginsNext(b)
    BY <1>2, <2>1, <2>2 DEF BeginsNext, BeginsAs, LibrarySpot
  <2>4. LibraryOK'
    BY <2>2 DEF LibraryOK, KeysFollowFocus, RepeatIsHeld, NoStuckKey
  <2> QED BY <1>6, <2>2, <2>3, <2>4
<1> QED BY <1>4, <1>5, <1>6 DEF Dispatch, m

\* The story goes on when a message is dispatched.
LEMMA DispatchStory ==
  ASSUME SeatInv, Dispatch
  PROVE  StoryIsTold' /\ LibraryOK'
<1> DEFINE m == Head(wire)
           t == Tail(wire)
<1>0. /\ TypeOK /\ WireOK /\ CompositorOK /\ LibraryOK /\ StoryIsTold
      /\ wire \in Seq(Message) /\ windows \in SUBSET Window /\ framed \in SUBSET windows
      /\ decorFocus \in framed \cup {NoWindow} /\ NoWindow \notin windows
  BY DEF SeatInv, TypeOK
<1>1. /\ m \in Message /\ WellFormed(m) /\ t \in Seq(Message) /\ wire # << >>
      /\ Len(t) \in Nat
      /\ wire' \in Seq(Message) /\ Len(wire') = Len(t)
      /\ \A i \in 1..Len(t) :
           /\ WellFormed(t[i]) /\ t[i] \in Message
           /\ wire'[i] = IF m.kind = "server_side" /\ ToFrame(t[i], m.win)
                         THEN [t[i] EXCEPT !.win = NoWindow] ELSE t[i]
  BY <1>0, DispatchTakes
<1>2. PICK g : Story(windows, framed, wire, g) /\ Begins(g[0]) /\ Ends(g[Len(wire)])
  BY <1>0 DEF StoryIsTold
<1>3. PICK h : /\ Turn(windows, framed, m, g[0], g[1])
               /\ g[0] \in Scene(windows, framed) /\ g[1] \in Scene(windows, framed)
               /\ Story(windows, framed, t, h)
               /\ h[0] = g[1] /\ h[Len(t)] = g[Len(wire)]
  BY <1>0, <1>1, <1>2, StoryTail
<1>4. \A i \in 0..Len(t) : h[i] \in Scene(windows, framed)
  BY <1>3 DEF Story
<1>5. 0 \in 0..Len(t) /\ Len(t) \in 0..Len(t)
        /\ \A i \in 1..Len(t) : i \in 0..Len(t) /\ i - 1 \in 0..Len(t)
  BY <1>1
<1> HIDE DEF m, t
<1>6. ASSUME NEW f, Story(windows', framed', wire', f), BeginsNext(f[0]), EndsNext(f[Len(t)])
      PROVE  StoryIsTold'
  BY <1>1, <1>6 DEF StoryIsTold, Begins, BeginsNext, Ends, EndsNext
<1>7. CASE m.kind \notin DecorationKind
  <2>1. BeginsNext(h[0]) /\ LibraryOK' /\ UNCHANGED compositor /\ taken \subseteq taken'
    BY <1>0, <1>2, <1>3, <1>7, DispatchBegins DEF m
  <2>2. EndsNext(h[Len(t)])
    BY <1>2, <1>3, <2>1 DEF Ends, EndsNext, EndsAs, compositor
  <2>3. windows' = windows /\ framed' = framed
    BY <1>0, <1>7, DispatchFrames DEF m
  <2>4. Story(windows', framed', wire', h)
    <3>1. \A i \in 1..Len(t) : wire'[i] = t[i]
      BY <1>1, <1>7 DEF DecorationKind
    <3> QED BY <1>1, <1>3, <2>3, <3>1 DEF Story
  <2> QED BY <1>6, <2>1, <2>2, <2>4
<1>8. CASE m.kind \in DecorationKind
  <2>1. DecorationConfigure(m.win, m.kind) /\ UNCHANGED kb
    BY <1>8
    DEF m, Dispatch, KeyboardKind, PointerKind, DecorationKind
  <2>2. UNCHANGED <<kbFocus, held, windows, pointerFocus, buttons, inside, onFrame>>
    BY <2>1 DEF DecorationConfigure
  <2>3. /\ g[1].focus = g[0].focus /\ g[1].down = g[0].down /\ g[1].spot = g[0].spot
        /\ g[0].latched \subseteq g[1].latched
    BY <1>3, <1>8 DEF Turn, KeyboardTurn, PointerTurn, ButtonTurn, DecorationKind
  <2>4. /\ g[1].focus = keyboardFocus' /\ (keys \ excused)' \subseteq g[1].down
        /\ repeatKey' # NoKey => repeatKey' \in g[1].down
        /\ g[1].spot = LibrarySpot /\ buttons \ (taken \cup onFrame) \subseteq g[1].latched
    BY <1>2, <2>1, <2>3 DEF Begins, BeginsAs, kb
  <2>5. LibraryOK'
    <3>1. KeysFollowFocus' /\ (focused = {keyboardFocus} \ {NoWindow})'
      BY <1>0, <2>1 DEF LibraryOK, KeysFollowFocus, RepeatIsHeld, NoStuckKey, kb
    <3>2. decorFocus' \in {decorFocus, NoWindow}
      BY <2>1 DEF DecorationConfigure, DropFrame
    <3> QED BY <1>0, <2>2, <3>1, <3>2 DEF LibraryOK
  <2>6. CASE m.kind = "client_side"
    <3>1. UNCHANGED <<decorFocus, ptrAt, pressed, taken>>
            /\ framed' = framed \cup ({m.win} \cap windows)
      BY <2>1, <2>6 DEF DecorationConfigure
    <3>2. BeginsNext(h[0])
      BY <1>3, <2>2, <2>4, <3>1 DEF BeginsNext, BeginsAs, LibrarySpot
    <3>3. EndsNext(h[Len(t)])
      BY <1>2, <1>3, <2>2, <3>1 DEF Ends, EndsNext, EndsAs
    <3>4. ASSUME NEW a \in Scene(windows, framed), NEW b \in Scene(windows, framed),
                 NEW i \in 1..Len(t), Turn(windows, framed, t[i], a, b)
          PROVE  a \in Scene(windows, framed') /\ Turn(windows, framed', t[i], a, b)
      <4>1. t[i].kind = "pointer_enter" /\ t[i].what = "frame" /\ t[i].win \in framed' =>
              t[i].win \in framed
        BY <1>0, <1>1, <3>1 DEF WellFormed
      <4>2. framed' \in SUBSET windows /\ framed \subseteq framed' /\ t[i] \in Message
        BY <1>0, <1>1, <3>1
      <4> QED BY <1>0, <3>4, <4>1, <4>2, TurnWithMore
    <3>5. \A i \in 0..Len(t) : h[i] \in Scene(windows, framed')
      BY <1>4, <3>1 DEF Scene, SpotOf
    <3>6. h \in [0..Len(t) -> Scene(windows, framed')]
      BY <1>3, <3>5 DEF Story
    <3>7. Story(windows, framed', wire', h)
      <4>1. ASSUME NEW i \in 1..Len(t) PROVE Turn(windows, framed', wire'[i], h[i - 1], h[i])
        <5>1. wire'[i] = t[i]
          BY <1>1, <2>6
        <5>2. Turn(windows, framed, t[i], h[i - 1], h[i])
          BY <1>3 DEF Story
        <5>3. h[i - 1] \in Scene(windows, framed) /\ h[i] \in Scene(windows, framed)
          BY <1>4, <1>5
        <5> QED BY <3>4, <5>1, <5>2, <5>3
      <4> QED BY <1>1, <3>6, <4>1 DEF Story
    <3> QED BY <1>6, <2>2, <2>5, <3>2, <3>3, <3>7
  <2>7. CASE m.kind = "server_side"
    <3> DEFINE F == framed \ {m.win}
               f == [i \in 0..Len(t) |-> WithoutFrame(h[i], m.win)]
    <3>1. framed' = F
      BY <1>0, <2>7, DispatchFrames DEF m
    <3>2. ASSUME NEW i \in 1..Len(t)
          PROVE  /\ WithoutFrame(h[i - 1], m.win) \in Scene(windows, F)
                 /\ Turn(windows, F, wire'[i], f[i - 1], f[i])
      <4>1. wire'[i] = IF ToFrame(t[i], m.win) THEN [t[i] EXCEPT !.win = NoWindow] ELSE t[i]
        BY <1>1, <2>7
      <4>2. Turn(windows, framed, t[i], h[i - 1], h[i])
        BY <1>3 DEF Story
      <4>3. /\ h[i - 1] \in Scene(windows, framed) /\ h[i] \in Scene(windows, framed)
            /\ t[i] \in Message
        BY <1>1, <1>4, <1>5
      <4>4. f[i - 1] = WithoutFrame(h[i - 1], m.win) /\ f[i] = WithoutFrame(h[i], m.win)
        BY <1>5
      <4> HIDE DEF f, F
      <4>5. /\ WithoutFrame(h[i - 1], m.win) \in Scene(windows, framed \ {m.win})
            /\ Turn(windows, framed \ {m.win}, wire'[i], WithoutFrame(h[i - 1], m.win),
                    WithoutFrame(h[i], m.win))
        BY <1>0, <4>1, <4>2, <4>3, TurnWithoutFrame
      <4> QED BY <4>4, <4>5 DEF F
    <3>3. ASSUME NEW i \in 0..Len(t)
          PROVE  /\ f[i] \in Scene(windows, F)
                 /\ f[i].focus = h[i].focus /\ f[i].down = h[i].down
                 /\ f[i].latched = h[i].latched
                 /\ f[i].spot = IF h[i].spot = [win |-> m.win, part |-> "frame"]
                                THEN Nowhere ELSE h[i].spot
      <4>1. h[i] \in Scene(windows, framed) /\ f[i] = WithoutFrame(h[i], m.win)
        BY <1>4
      <4> HIDE DEF f
      <4>2. /\ f[i].focus = h[i].focus /\ f[i].down = h[i].down
            /\ f[i].latched = h[i].latched
            /\ f[i].spot = IF h[i].spot = [win |-> m.win, part |-> "frame"]
                           THEN Nowhere ELSE h[i].spot
        BY <4>1 DEF WithoutFrame, Scene
      <4>3. f[i].spot \in SpotOf(windows, F)
        BY <4>1, <4>2 DEF Scene, SpotOf
      <4>4. f[i] \in Scene(windows, F)
        BY <4>1, <4>2, <4>3 DEF WithoutFrame, Scene
      <4> QED BY <4>2, <4>4
    <3>4. f \in [0..Len(t) -> Scene(windows, F)]
      BY <3>3
    <3> HIDE DEF f, F
    <3>5. Story(windows, F, wire', f)
      BY <1>1, <3>2, <3>4 DEF Story
    <3>6. /\ m.win \in windows => DropFrame(m.win)
          /\ m.win \notin windows => decorFocus' = decorFocus
          /\ \/ /\ ptrAt = [win |-> m.win, part |-> "frame"]
                /\ ptrAt' = Nowhere /\ pressed' = {} /\ taken' = taken \cup pressed
             \/ /\ m.win \in windows => ptrAt # [win |-> m.win, part |-> "frame"]
                /\ UNCHANGED <<ptrAt, pressed, taken>>
      BY <2>1, <2>7 DEF DecorationConfigure
    <3>7. ptrAt = [win |-> m.win, part |-> "frame"] => m.win \in windows
      BY <1>0 DEF CompositorOK, SpotOf, Nowhere
    <3>8. BeginsNext(f[0])
      <4>1. f[0].spot = LibrarySpot'
        <5>1. CASE decorFocus = NoWindow
          <6>1. decorFocus' = NoWindow
            BY <3>6, <5>1 DEF DropFrame
          <6>2. h[0].spot = [win |-> pointerFocus, part |-> "content"]
            BY <1>3, <2>4, <5>1 DEF LibrarySpot
          <6>3. f[0].spot = h[0].spot
            BY <1>5, <3>3, <6>2
          <6> QED BY <2>2, <6>1, <6>2, <6>3 DEF LibrarySpot
        <5>2. CASE decorFocus # NoWindow /\ decorFocus = m.win
          <6>1. decorFocus' = NoWindow /\ pointerFocus = NoWindow
            BY <1>0, <3>6, <5>2 DEF DropFrame, LibraryOK
          <6>2. h[0].spot = [win |-> m.win, part |-> "frame"]
            BY <1>3, <2>4, <5>2 DEF LibrarySpot
          <6>3. f[0].spot = Nowhere
            BY <1>5, <3>3, <6>2
          <6> QED BY <2>2, <6>1, <6>3 DEF LibrarySpot, Nowhere
        <5>3. CASE decorFocus # NoWindow /\ decorFocus # m.win
          <6>1. decorFocus' = decorFocus
            BY <3>6, <5>3 DEF DropFrame
          <6>2. h[0].spot = [win |-> decorFocus, part |-> "frame"]
            BY <1>3, <2>4, <5>3 DEF LibrarySpot
          <6>3. f[0].spot = h[0].spot
            BY <1>5, <3>3, <5>3, <6>2
          <6> QED BY <5>3, <6>1, <6>2, <6>3 DEF LibrarySpot
        <5> QED BY <5>1, <5>2, <5>3
      <4>2. /\ f[0].focus = g[1].focus /\ f[0].down = g[1].down
            /\ f[0].latched = g[1].latched
        BY <1>3, <1>5, <3>3
      <4>3. taken \subseteq taken'
        BY <3>6
      <4>4. (buttons \ (taken \cup onFrame))' \subseteq f[0].latched
        BY <2>2, <2>4, <4>2, <4>3
      <4> QED BY <2>4, <4>1, <4>2, <4>4 DEF BeginsNext, BeginsAs
    <3>9. EndsNext(f[Len(t)])
      <4>1. /\ h[Len(t)].focus = kbFocus /\ h[Len(t)].down \subseteq held
            /\ h[Len(t)].spot = ptrAt
            /\ h[Len(t)].latched \subseteq
                 taken \cup (IF ptrAt.part = "content" THEN pressed ELSE {})
        BY <1>2, <1>3 DEF Ends, EndsAs
      <4>2. /\ f[Len(t)].focus = h[Len(t)].focus /\ f[Len(t)].down = h[Len(t)].down
            /\ f[Len(t)].latched = h[Len(t)].latched
            /\ f[Len(t)].spot = IF h[Len(t)].spot = [win |-> m.win, part |-> "frame"]
                                THEN Nowhere ELSE h[Len(t)].spot
        BY <1>5, <3>3
      <4>3. CASE ptrAt = [win |-> m.win, part |-> "frame"]
        <5>1. ptrAt' = Nowhere /\ pressed' = {} /\ taken' = taken \cup pressed
          BY <3>6, <3>7, <4>3
        <5> QED BY <2>2, <4>1, <4>2, <4>3, <5>1 DEF EndsNext, EndsAs
      <4>4. CASE ptrAt # [win |-> m.win, part |-> "frame"]
        <5>1. UNCHANGED <<ptrAt, pressed, taken>>
          BY <3>6, <4>4
        <5> QED BY <2>2, <4>1, <4>2, <4>4, <5>1 DEF EndsNext, EndsAs
      <4> QED BY <4>3, <4>4
    <3> QED BY <1>6, <2>2, <2>5, <3>1, <3>5, <3>8, <3>9
  <2> QED BY <1>8, <2>6, <2>7 DEF DecorationKind
<1> QED BY <1>7, <1>8, <1>0, <1>2, <1>3, DispatchBegins DEF m

-----------------------------------------------------------------------------
(* Windows come and go *)

LEMMA CreateStep ==
  ASSUME SeatInv, NEW w \in Window, Create(w)
  PROVE  WireOK' /\ CompositorOK' /\ LibraryOK' /\ StoryIsTold'
<1>0. /\ TypeOK /\ WireOK /\ CompositorOK /\ LibraryOK /\ StoryIsTold
      /\ wire \in Seq(Message) /\ Len(wire) \in Nat
      /\ windows \in SUBSET Window /\ framed \in SUBSET windows
      /\ windows \subseteq created /\ NoWindow \notin Window
      /\ \A i \in 1..Len(wire) : wire[i] \in Message /\ WellFormed(wire[i])
  BY DEF SeatInv, TypeOK, WireOK
<1>1. /\ windows' = windows \cup {w} /\ created' = created \cup {w} /\ w \notin created
      /\ framed \subseteq framed' /\ framed' \subseteq framed \cup {w}
      /\ UNCHANGED <<wire, compositor, kb, ptr, taken>>
  BY DEF Create
<1>2. \A i \in 1..Len(wire) : wire[i].win # w
  BY <1>0, <1>1 DEF WellFormed
<1>3. WireOK'
  BY <1>0, <1>1, <1>2 DEF WireOK, WellFormed
<1>4. CompositorOK'
  BY <1>0, <1>1 DEF CompositorOK, SpotOf, compositor
<1>5. LibraryOK'
  BY <1>0, <1>1 DEF LibraryOK, KeysFollowFocus, RepeatIsHeld, NoStuckKey, kb, ptr
<1>6. PICK g : Story(windows, framed, wire, g) /\ Begins(g[0]) /\ Ends(g[Len(wire)])
  BY <1>0 DEF StoryIsTold
<1>7. g \in [0..Len(wire) -> Scene(windows', framed')]
  <2>1. Scene(windows, framed) \subseteq Scene(windows', framed')
    BY <1>1 DEF Scene, SpotOf
  <2> QED BY <1>6, <2>1 DEF Story
<1>8. ASSUME NEW i \in 1..Len(wire)
      PROVE  Turn(windows', framed', wire[i], g[i - 1], g[i])
  <2>1. /\ Turn(windows, framed, wire[i], g[i - 1], g[i])
        /\ g[i - 1] \in Scene(windows, framed) /\ g[i] \in Scene(windows, framed)
    BY <1>0, <1>6 DEF Story
  <2>2. /\ wire[i].win \in windows' => wire[i].win \in windows
        /\ wire[i].kind = "pointer_enter" /\ wire[i].what = "frame"
             /\ wire[i].win \in framed' => wire[i].win \in framed
    BY <1>1, <1>2
  <2>3. windows' \in SUBSET Window /\ framed' \in SUBSET windows' /\ wire[i] \in Message
          /\ windows \subseteq windows'
    BY <1>0, <1>1
  <2> QED BY <1>0, <1>1, <2>1, <2>2, <2>3, TurnWithMore
<1>9. Story(windows', framed', wire', g)
  BY <1>1, <1>7, <1>8 DEF Story
<1>10. BeginsNext(g[0]) /\ EndsNext(g[Len(wire)])
  BY <1>1, <1>6
  DEF Begins, BeginsNext, BeginsAs, Ends, EndsNext, EndsAs, LibrarySpot, compositor, kb, ptr
<1>11. StoryIsTold'
  BY <1>1, <1>9, <1>10 DEF StoryIsTold, Begins, BeginsNext, Ends, EndsNext
<1> QED BY <1>3, <1>4, <1>5, <1>11

LEMMA DestroyStep ==
  ASSUME SeatInv, NEW w \in Window, Destroy(w)
  PROVE  WireOK' /\ CompositorOK' /\ LibraryOK' /\ StoryIsTold'
<1>0. /\ TypeOK /\ WireOK /\ CompositorOK /\ LibraryOK /\ StoryIsTold
      /\ wire \in Seq(Message) /\ Len(wire) \in Nat
      /\ windows \in SUBSET Window /\ framed \in SUBSET windows
      /\ NoWindow \notin Window /\ seen \in [Window -> SUBSET Key]
      /\ \A i \in 1..Len(wire) : wire[i] \in Message /\ WellFormed(wire[i])
  BY DEF SeatInv, TypeOK, WireOK
<1>1. /\ w \in windows /\ windows' = windows \ {w} /\ framed' = framed \ {w}
      /\ keyboardFocus' = (IF keyboardFocus = w THEN NoWindow ELSE keyboardFocus)
      /\ pointerFocus' = (IF pointerFocus = w THEN NoWindow ELSE pointerFocus)
      /\ decorFocus' = (IF decorFocus = w THEN NoWindow ELSE decorFocus)
      /\ focused' = focused \ {w} /\ inside' = inside \ {w}
      /\ seen' = [seen EXCEPT ![w] = {}]
      /\ excused' = (IF w \in focused THEN excused \cup keys ELSE excused)
      /\ kbFocus' = (IF kbFocus = w THEN NoWindow ELSE kbFocus)
      /\ taken' = (IF ptrAt.win = w THEN taken \cup pressed ELSE taken)
      /\ UNCHANGED <<wire, held, keys, buttons, onFrame, created>>
  BY DEF Destroy, DropFrame
<1>2. IF ptrAt.win = w THEN ptrAt' = Nowhere /\ pressed' = {}
      ELSE UNCHANGED <<ptrAt, pressed>>
  BY DEF Destroy
<1>3. IF repeatWindow = w THEN repeatKey' = NoKey /\ repeatWindow' = NoWindow
      ELSE UNCHANGED <<repeatKey, repeatWindow>>
  BY DEF Destroy, ForgetRepeat, StopRepeat
<1>4. WireOK'
  BY <1>0, <1>1 DEF WireOK, WellFormed
<1>5. CompositorOK'
  BY <1>0, <1>1, <1>2 DEF CompositorOK, SpotOf, Nowhere
<1>6. LibraryOK'
  <2>1. RepeatIsHeld'
    BY <1>0, <1>1, <1>3 DEF LibraryOK, KeysFollowFocus, RepeatIsHeld
  <2>2. NoStuckKey'
    BY <1>0, <1>1 DEF LibraryOK, KeysFollowFocus, NoStuckKey
  <2> QED BY <1>0, <1>1, <2>1, <2>2 DEF LibraryOK, KeysFollowFocus
<1>7. PICK g : Story(windows, framed, wire, g) /\ Begins(g[0]) /\ Ends(g[Len(wire)])
  BY <1>0 DEF StoryIsTold
<1> DEFINE f == [i \in 0..Len(wire) |-> WithoutWindow(g[i], w)]
<1>8. \A i \in 0..Len(wire) : g[i] \in Scene(windows, framed) /\ f[i] = WithoutWindow(g[i], w)
  BY <1>7 DEF Story
<1> HIDE DEF f
<1>9. \A i \in 0..Len(wire) : f[i] \in Scene(windows', framed')
  <2>1. ASSUME NEW a \in Scene(windows, framed)
        PROVE  WithoutWindow(a, w) \in Scene(windows \ {w}, framed \ {w})
    BY <1>0 DEF WithoutWindow, Scene, SpotOf, Nowhere
  <2> QED BY <1>1, <1>8, <2>1
<1>10. f \in [0..Len(wire) -> Scene(windows', framed')]
  BY <1>9 DEF f
<1>11. ASSUME NEW i \in 1..Len(wire)
       PROVE  Turn(windows', framed', wire[i], f[i - 1], f[i])
  <2>1. /\ i \in 0..Len(wire) /\ i - 1 \in 0..Len(wire)
        /\ Turn(windows, framed, wire[i], g[i - 1], g[i])
    BY <1>0, <1>7 DEF Story
  <2>2. /\ g[i - 1] \in Scene(windows, framed) /\ g[i] \in Scene(windows, framed)
        /\ f[i - 1] = WithoutWindow(g[i - 1], w) /\ f[i] = WithoutWindow(g[i], w)
    BY <1>8, <2>1
  <2> QED BY <1>0, <1>1, <2>1, <2>2, TurnWithoutWindow
<1>12. Story(windows', framed', wire', f)
  BY <1>1, <1>10, <1>11 DEF Story
<1>13. BeginsNext(f[0])
  <2>1. /\ g[0] \in Scene(windows, framed) /\ f[0] = WithoutWindow(g[0], w)
    BY <1>0, <1>8
  <2>2. /\ g[0].focus = keyboardFocus /\ keys \ excused \subseteq g[0].down
        /\ repeatKey # NoKey => repeatKey \in g[0].down
        /\ g[0].spot = LibrarySpot /\ buttons \ (taken \cup onFrame) \subseteq g[0].latched
    BY <1>7 DEF Begins, BeginsAs
  <2>3. /\ f[0].focus = keyboardFocus' /\ (keys \ excused)' \subseteq f[0].down
    BY <1>0, <1>1, <2>1, <2>2 DEF WithoutWindow, LibraryOK
  <2>4. repeatKey' # NoKey => repeatKey' \in f[0].down
    <3>1. repeatKey' # NoKey => repeatKey' = repeatKey /\ keyboardFocus # w
      BY <1>0, <1>3 DEF LibraryOK, KeysFollowFocus, RepeatIsHeld
    <3> QED BY <2>1, <2>2, <3>1 DEF WithoutWindow
  <2>5. f[0].spot = LibrarySpot'
    BY <1>0, <1>1, <2>1, <2>2 DEF WithoutWindow, LibraryOK, LibrarySpot, Nowhere
  <2>6. (buttons \ (taken \cup onFrame))' \subseteq f[0].latched
    BY <1>1, <2>1, <2>2 DEF WithoutWindow
  <2> QED BY <2>3, <2>4, <2>5, <2>6 DEF BeginsNext, BeginsAs
<1>14. EndsNext(f[Len(wire)])
  <2> DEFINE a == g[Len(wire)]
  <2>1. a \in Scene(windows, framed) /\ f[Len(wire)] = WithoutWindow(a, w)
    BY <1>0, <1>8
  <2>2. /\ a.focus = kbFocus /\ a.down \subseteq held /\ a.spot = ptrAt
        /\ a.latched \subseteq taken \cup (IF ptrAt.part = "content" THEN pressed ELSE {})
    BY <1>7 DEF Ends, EndsAs
  <2> HIDE DEF a
  <2> QED BY <1>1, <1>2, <2>1, <2>2 DEF EndsNext, EndsAs, WithoutWindow, Nowhere
<1>15. StoryIsTold'
  BY <1>1, <1>12, <1>13, <1>14 DEF StoryIsTold, Begins, BeginsNext, Ends, EndsNext
<1> QED BY <1>4, <1>5, <1>6, <1>15

\* A repeat presses a key that is down.
LEMMA PumpStep ==
  ASSUME SeatInv, PumpKeyRepeat
  PROVE  WireOK' /\ CompositorOK' /\ LibraryOK' /\ StoryIsTold'
<1>0. /\ TypeOK /\ WireOK /\ CompositorOK /\ LibraryOK /\ StoryIsTold
      /\ seen \in [Window -> SUBSET Key]
  BY DEF SeatInv, TypeOK
<1>1. /\ repeatKey # NoKey
      /\ keys' = keys \cup {repeatKey}
      /\ seen' = [seen EXCEPT ![repeatWindow] = @ \cup {repeatKey}]
      /\ UNCHANGED <<wire, compositor, ptr, surface, taken, keyboardFocus, focused,
                     repeatKey, repeatWindow, excused>>
  BY DEF PumpKeyRepeat, EmitKey
<1>2. WireOK' /\ CompositorOK'
  BY <1>0, <1>1 DEF WireOK, WellFormed, CompositorOK, compositor, surface
<1>3. LibraryOK'
  BY <1>0, <1>1 DEF LibraryOK, KeysFollowFocus, RepeatIsHeld, NoStuckKey, ptr
<1>4. PICK g : Story(windows, framed, wire, g) /\ Begins(g[0]) /\ Ends(g[Len(wire)])
  BY <1>0 DEF StoryIsTold
<1>5. Story(windows', framed', wire', g)
  BY <1>1, <1>4 DEF surface
<1>6. BeginsNext(g[0]) /\ EndsNext(g[Len(wire)])
  BY <1>1, <1>4
  DEF Begins, BeginsNext, BeginsAs, Ends, EndsNext, EndsAs, LibrarySpot, compositor, ptr
<1> QED
  BY <1>1, <1>2, <1>3, <1>5, <1>6 DEF StoryIsTold, Begins, BeginsNext, Ends, EndsNext

-----------------------------------------------------------------------------
(* The theorems *)

LEMMA SeatInit == Init => SeatInv
<1> SUFFICES ASSUME Init PROVE SeatInv
  OBVIOUS
<1> DEFINE k == Say("keyboard_added")
           p == Say("pointer_added")
           none == [focus |-> NoWindow, down |-> {}, spot |-> Nowhere, latched |-> {}]
           g == [i \in 0..2 |-> none]
<1>1. k \in Message /\ p \in Message /\ k.kind = "keyboard_added" /\ p.kind = "pointer_added"
        /\ k.win = NoWindow /\ p.win = NoWindow
  BY DEF Say, Tell, Message, Kind
<1>2. wire = <<k, p>> /\ wire \in Seq(Message) /\ Len(wire) = 2
        /\ wire[1] = k /\ wire[2] = p
  BY <1>1 DEF Init
<1>3. TypeOK
  BY <1>2 DEF Init, TypeOK, Nowhere, Part
<1>4. WireOK
  BY <1>1, <1>2 DEF WireOK, WellFormed
<1>5. CompositorOK /\ LibraryOK
  BY DEF Init, CompositorOK, LibraryOK, SpotOf, KeysFollowFocus, RepeatIsHeld, NoStuckKey
<1>6. none \in Scene(windows, framed)
  BY DEF Scene, SpotOf
<1>7. Turn(windows, framed, k, none, none) /\ Turn(windows, framed, p, none, none)
  BY <1>1 DEF Turn, KeyboardTurn, PointerTurn, ButtonTurn
<1>8. Begins(none) /\ Ends(none)
  BY DEF Init, Begins, BeginsAs, Ends, EndsAs, LibrarySpot, Nowhere
<1> HIDE DEF k, p, none
<1>9. g \in [0..2 -> Scene(windows, framed)] /\ g[0] = none /\ g[1] = none /\ g[2] = none
  BY <1>6
<1> HIDE DEF g
<1>10. Story(windows, framed, wire, g)
  BY <1>2, <1>7, <1>9 DEF Story
<1>11. StoryIsTold
  BY <1>2, <1>8, <1>9, <1>10 DEF StoryIsTold
<1> QED BY <1>3, <1>4, <1>5, <1>11 DEF SeatInv

LEMMA SeatStep == SeatInv /\ [Next]_vars => SeatInv'
<1> SUFFICES ASSUME SeatInv, [Next]_vars PROVE SeatInv'
  OBVIOUS
<1>0. TypeOK /\ WireOK /\ CompositorOK /\ LibraryOK /\ StoryIsTold
  BY DEF SeatInv
<1>1. TypeOK'
  BY <1>0, SeatTypeStep
<1>2. CASE Compositor
  <2>1. WireOK' /\ CompositorOK' /\ StoryIsTold'
    BY <1>0, <1>2, CompositorWire, CompositorKnows, CompositorStory
  <2>2. UNCHANGED <<kb, ptr>>
    BY <1>2
    DEF Compositor, FocusMoves, KeyMoves, RepeatInfo, KeyboardUnplugged, KeyboardPlugged,
        PointerMoves, ButtonMoves, PointerTaken, PointerUnplugged, PointerPlugged,
        DecorationMode
  <2>3. LibraryOK'
    BY <1>0, <2>2 DEF LibraryOK, KeysFollowFocus, RepeatIsHeld, NoStuckKey, kb, ptr
  <2> QED BY <1>1, <2>1, <2>3 DEF SeatInv
<1>3. CASE Dispatch
  BY <1>0, <1>1, <1>3, DispatchWire, DispatchCompositor, DispatchStory DEF SeatInv
<1>4. CASE PumpKeyRepeat
  BY <1>1, <1>4, PumpStep DEF SeatInv
<1>5. ASSUME NEW w \in Window, Create(w) \/ Destroy(w) PROVE SeatInv'
  BY <1>1, <1>5, CreateStep, DestroyStep DEF SeatInv
<1>6. CASE UNCHANGED vars
  <2>1. WireOK' /\ CompositorOK'
    BY <1>0, <1>6 DEF vars, compositor, surface, WireOK, WellFormed, CompositorOK
  <2>2. LibraryOK'
    BY <1>0, <1>6
    DEF vars, kb, ptr, LibraryOK, KeysFollowFocus, RepeatIsHeld, NoStuckKey
  <2>3. StoryIsTold'
    BY <1>0, <1>6
    DEF vars, compositor, kb, ptr, surface, StoryIsTold, Begins, BeginsAs, Ends, EndsAs,
        LibrarySpot
  <2> QED BY <1>1, <2>1, <2>2, <2>3 DEF SeatInv
<1> QED BY <1>2, <1>3, <1>4, <1>5, <1>6 DEF Next

\* What the library holds true and what is true at the compositor are the two ends
\* of one story, of any length, whatever is plugged, taken away, destroyed or
\* configured on the way (nack_wayland_input.cpp:60-700).
THEOREM SeatInvariant == Spec => []SeatInv
<1>1. Init => SeatInv
  BY SeatInit
<1>2. SeatInv /\ [Next]_vars => SeatInv'
  BY SeatStep
<1> QED BY <1>1, <1>2, PTL DEF Spec

\* A key that repeats, and a key the application believes down, is down in the
\* window that has the focus (nack.cpp:250, nack_wayland_input.cpp:99-115).
THEOREM KeysInFocus == Spec => []KeysFollowFocus
<1>1. SeatInv => KeysFollowFocus
  BY DEF SeatInv, LibraryOK
<1> QED BY <1>1, SeatInvariant, PTL

\* With nothing on the wire the story is one scene: the keyboard is settled.
THEOREM KeyboardSettles == Spec => []SettledKeyboard
<1>1. SeatInv => SettledKeyboard
  <2> SUFFICES ASSUME SeatInv, wire = << >> PROVE SettledKeyboard
    BY DEF SettledKeyboard
  <2>1. PICK g : Begins(g[0]) /\ Ends(g[0])
    BY DEF SeatInv, StoryIsTold
  <2> QED
    BY <2>1
    DEF SeatInv, LibraryOK, SettledKeyboard, Begins, BeginsAs, Ends, EndsAs
<1> QED BY <1>1, SeatInvariant, PTL

\* And so is the pointer.
THEOREM PointerSettles == Spec => []SettledPointer
<1>1. SeatInv => SettledPointer
  <2> SUFFICES ASSUME SeatInv, wire = << >> PROVE SettledPointer
    BY DEF SettledPointer
  <2>1. PICK g : Begins(g[0]) /\ Ends(g[0])
    BY DEF SeatInv, StoryIsTold
  <2>2. /\ LibrarySpot = ptrAt
        /\ pointerFocus = NoWindow \/ decorFocus = NoWindow
        /\ inside = {pointerFocus} \ {NoWindow}
    BY <2>1 DEF SeatInv, LibraryOK, Begins, BeginsAs, Ends, EndsAs
  <2>3. buttons \ (taken \cup onFrame) \subseteq pressed
    BY <2>1 DEF Begins, BeginsAs, Ends, EndsAs
  <2>4. /\ pointerFocus = IF ptrAt.part = "content" THEN ptrAt.win ELSE NoWindow
        /\ decorFocus = IF ptrAt.part = "frame" THEN ptrAt.win ELSE NoWindow
    BY <2>2 DEF LibrarySpot
  <2> QED BY <2>2, <2>3, <2>4 DEF SettledPointer
<1> QED BY <1>1, SeatInvariant, PTL

\* An enter is never dispatched while a window has the focus: the compositor says
\* the leave first.
LEMMA EnterFindsNone ==
  ASSUME SeatInv, wire # << >>, Head(wire).kind = "enter"
  PROVE  keyboardFocus = NoWindow
<1>1. PICK g : Story(windows, framed, wire, g) /\ Begins(g[0])
  BY DEF SeatInv, StoryIsTold
<1>2. Turn(windows, framed, Head(wire), g[0], g[1])
  BY <1>1, StoryTail DEF SeatInv, TypeOK
<1> QED BY <1>1, <1>2 DEF Turn, KeyboardTurn, Begins, BeginsAs

\* The window that was told it has the focus is the one the library sends keys to.
LEMMA FocusShown ==
  ASSUME SeatInv
  PROVE  (IF focused = {} THEN NoWindow ELSE CHOOSE w \in focused : TRUE) = keyboardFocus
<1>1. focused = {keyboardFocus} \ {NoWindow}
  BY DEF SeatInv, LibraryOK
<1> QED BY <1>1

\* Every step of the seat is one the keyboard's promise allows: the focus passes
\* through a moment when no window has it, keys change only while one has, and
\* losing it lets go of them all (nack_window.h:304, nack.cpp:250).
THEOREM SeatKeepsKeyboardPromise == Spec => KeepsKeyboardPromise
<1> DEFINE shown == IF focused = {} THEN NoWindow ELSE CHOOSE w \in focused : TRUE
<1>1. Init => Promise!Init
  BY DEF Init, Promise!Init
<1>2. SeatInv /\ SeatInv' /\ [Next]_vars => [Promise!Next]_(Promise!vars)
  <2> SUFFICES ASSUME SeatInv, SeatInv', [Next]_vars
               PROVE  [Promise!Next]_(Promise!vars)
    OBVIOUS
  <2>0. /\ TypeOK /\ WireOK /\ LibraryOK /\ windows \subseteq Window /\ NoWindow \notin Window
        /\ keys \subseteq Key /\ Repeating \subseteq Key
        /\ keyboardFocus \in windows \cup {NoWindow}
    BY DEF SeatInv, TypeOK
  <2>1. shown = keyboardFocus /\ shown' = keyboardFocus'
    BY FocusShown DEF SeatInv, LibraryOK
  <2>2. ASSUME UNCHANGED <<windows, keyboardFocus, keys>>
        PROVE  UNCHANGED Promise!vars
    BY <2>1, <2>2 DEF Promise!vars
  <2>3. CASE Compositor
    <3>1. UNCHANGED <<windows, keyboardFocus, keys>>
      BY <2>3
      DEF Compositor, FocusMoves, KeyMoves, RepeatInfo, KeyboardUnplugged,
          KeyboardPlugged, PointerMoves, ButtonMoves, PointerTaken, PointerUnplugged,
          PointerPlugged, DecorationMode, surface, kb
    <3> QED BY <2>2, <3>1
  <2>4. CASE Dispatch
    <3> DEFINE m == Head(wire)
    <3>1. WellFormed(m) /\ windows' = windows
      BY <2>0, <2>4, DispatchTakes, DispatchFrames
    <3>2. CASE m.kind \in KeyboardKind /\ DispatchKeyboard(m)
      <4>1. CASE m.kind = "enter"
        <5>1. KeyboardEnter(m.win)
          BY <3>2, <4>1 DEF DispatchKeyboard
        <5>2. keyboardFocus = NoWindow
          BY <2>4, <4>1, EnterFindsNone DEF Dispatch
        <5>3. CASE m.win \in windows
          <6>1. keyboardFocus' = m.win /\ keys' = keys
            BY <2>0, <5>1, <5>3 DEF KeyboardEnter, EmitFocus
          <6>2. Promise!Gain(m.win)
            BY <2>1, <3>1, <5>2, <5>3, <6>1 DEF Promise!Gain
          <6> QED BY <2>0, <5>3, <6>2 DEF Promise!Next
        <5>4. CASE m.win \notin windows
          BY <2>2, <3>1, <5>1, <5>4 DEF KeyboardEnter
        <5> QED BY <5>3, <5>4
      <4>2. CASE m.kind = "leave"
        <5>1. KeyboardLeave
          BY <3>2, <4>2 DEF DispatchKeyboard
        <5>2. CASE keyboardFocus = NoWindow
          BY <2>2, <3>1, <5>1, <5>2 DEF KeyboardLeave
        <5>3. CASE keyboardFocus # NoWindow
          <6>1. keyboardFocus \in focused
            BY <2>0, <5>3 DEF LibraryOK
          <6>2. keyboardFocus' = NoWindow /\ keys' = {}
            BY <5>1, <5>3, <6>1 DEF KeyboardLeave, EmitFocus
          <6>3. Promise!Lose
            BY <2>1, <3>1, <5>3, <6>2 DEF Promise!Lose
          <6> QED BY <6>3 DEF Promise!Next
        <5> QED BY <5>2, <5>3
      <4>3. CASE m.kind = "key_down"
        <5>1. KeyboardKey(m.what, TRUE) /\ m.what \in Key
          BY <3>1, <3>2, <4>3 DEF DispatchKeyboard, WellFormed
        <5>2. CASE keyboardFocus = NoWindow
          BY <2>2, <3>1, <5>1, <5>2 DEF KeyboardKey
        <5>3. CASE keyboardFocus # NoWindow
          <6>1. keyboardFocus' = keyboardFocus /\ keys' = keys \cup {m.what}
            BY <5>1, <5>3 DEF KeyboardKey, EmitKey
          <6>2. Promise!Press(m.what)
            BY <2>1, <3>1, <5>3, <6>1 DEF Promise!Press
          <6> QED BY <5>1, <6>2 DEF Promise!Next
        <5> QED BY <5>2, <5>3
      <4>4. CASE m.kind = "key_up"
        <5>1. KeyboardKey(m.what, FALSE) /\ m.what \in Key
          BY <3>1, <3>2, <4>4 DEF DispatchKeyboard, WellFormed
        <5>2. CASE keyboardFocus = NoWindow
          BY <2>2, <3>1, <5>1, <5>2 DEF KeyboardKey
        <5>3. CASE keyboardFocus # NoWindow
          <6>1. keyboardFocus' = keyboardFocus /\ keys' = keys \ {m.what}
            BY <5>1, <5>3 DEF KeyboardKey, EmitKey
          <6>2. Promise!Release({m.what})
            BY <2>1, <3>1, <5>3, <6>1 DEF Promise!Release
          <6>3. {m.what} \in SUBSET Key
            BY <5>1
          <6> QED BY <6>2, <6>3 DEF Promise!Next
        <5> QED BY <5>2, <5>3
      <4>5. CASE m.kind \in {"repeat_on", "repeat_off"}
        <5>1. KeyboardRepeatInfo(TRUE) \/ KeyboardRepeatInfo(FALSE)
          BY <3>2, <4>5 DEF DispatchKeyboard
        <5> QED BY <2>2, <3>1, <5>1 DEF KeyboardRepeatInfo
      <4> QED BY <3>2, <4>1, <4>2, <4>3, <4>4, <4>5 DEF KeyboardKind
    <3>3. CASE UNCHANGED <<keyboardFocus, keys>>
      BY <2>2, <3>1, <3>3
    <3> QED
      BY <2>4, <3>2, <3>3 DEF Dispatch, DispatchPointer, SeatCapabilities, kb
  <2>5. CASE PumpKeyRepeat
    <3>1. /\ repeatKey # NoKey /\ keys' = keys \cup {repeatKey}
          /\ UNCHANGED <<windows, keyboardFocus>>
      BY <2>5 DEF PumpKeyRepeat, EmitKey, surface
    <3>2. keyboardFocus # NoWindow /\ repeatKey \in Key
      BY <2>0, <3>1 DEF TypeOK, LibraryOK, KeysFollowFocus, RepeatIsHeld
    <3>3. Promise!Press(repeatKey)
      BY <2>1, <3>1, <3>2 DEF Promise!Press
    <3> QED BY <3>2, <3>3 DEF Promise!Next
  <2>6. ASSUME NEW w \in Window, Create(w)
        PROVE  [Promise!Next]_(Promise!vars)
    <3>1. Promise!Create(w)
      BY <2>0, <2>1, <2>6 DEF TypeOK, Create, kb, Promise!Create
    <3> QED BY <3>1 DEF Promise!Next
  <2>7. ASSUME NEW w \in Window, Destroy(w)
        PROVE  [Promise!Next]_(Promise!vars)
    <3>1. Promise!Destroy(w)
      BY <2>1, <2>7 DEF Destroy, Promise!Destroy
    <3> QED BY <3>1 DEF Promise!Next
  <2>8. CASE UNCHANGED vars
    BY <2>2, <2>8 DEF vars, kb, surface
  <2> QED BY <2>3, <2>4, <2>5, <2>6, <2>7, <2>8 DEF Next
<1> QED BY <1>1, <1>2, SeatInvariant, PTL DEF Spec, KeepsKeyboardPromise, Promise!Spec
=============================================================================
