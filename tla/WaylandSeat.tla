------------------------------ MODULE WaylandSeat ------------------------------
(***************************************************************************)
(* The Wayland seat (wayland/nack_wayland_input.cpp): keyboard focus, keys *)
(* and the key repeat the client does by itself, pointer focus, buttons,   *)
(* and the frame libnack draws around a window when the compositor does    *)
(* not (wayland/nack_wayland_decor.cpp).                                   *)
(*                                                                         *)
(* The compositor is the environment.  Its messages travel on one ordered  *)
(* connection (wire) and are dispatched one by one; a surface that was     *)
(* destroyed meanwhile arrives as NULL, here as a window no longer in      *)
(* windows.  The application creates and destroys windows in between, and  *)
(* the pump repeats keys at moments of its own.                            *)
(*                                                                         *)
(* The pointer is over the content of a window or over its frame.  Keys    *)
(* are those with a NACK_KEY_* code.  Events are shown to the application  *)
(* as they are pushed; the queue between the two is WindowCore's.          *)
(***************************************************************************)
EXTENDS Naturals, Sequences

CONSTANTS
  Window,     \* windows the application may create, each once
  Key,        \* keys with a NACK_KEY_* code
  Repeating,  \* the keys for which xkb_keymap_key_repeats
  Button,     \* mouse buttons libnack knows
  NoWindow,   \* NULL
  NoKey,      \* repeat_key 0, no key repeating
  MaxWire     \* bound: messages in flight from the compositor

ASSUME SeatAssumption ==
  /\ NoWindow \notin Window
  /\ NoKey \notin Key
  /\ Repeating \subseteq Key
  /\ MaxWire \in Nat

VARIABLES
  \* compositor
  wire,          \* messages sent and not dispatched, oldest first
  kbFocus,       \* window with the keyboard focus
  held,          \* keys physically down
  hasKeyboard,   \* the seat has a keyboard
  ptrAt,         \* what the pointer is over: [win, part]
  pressed,       \* buttons down whose press was sent to this client
  hasPointer,    \* the seat has a pointer
  xdgDecoration, \* the compositor has xdg-decoration
  \* libnack
  windows,       \* nack__g.windows
  framed,        \* windows with client_side_decorations
  keyboard,      \* nack__wl.keyboard is not NULL
  keyboardFocus, \* nack__wl.keyboard_focus
  focused,       \* windows whose nack_window.focused is set
  keys,          \* keys whose nack__g.keys entry is set
  repeats,       \* nack__wl.repeat_rate > 0
  repeatKey,     \* nack__wl.repeat_key
  repeatWindow,  \* nack__wl.repeat_window
  pointer,       \* nack__wl.pointer is not NULL
  pointerFocus,  \* nack__wl.pointer_focus
  decorFocus,    \* nack__wl.decor_focus
  buttons,       \* buttons whose nack__g.mouse_buttons entry is set
  \* history
  created,       \* windows ever created
  seen,          \* per window, the keys the application was told are down
  inside,        \* windows the application was told the pointer is in
  excused,       \* keys latched when their window was destroyed
  taken,         \* buttons whose release the library is not told of
  onFrame        \* buttons last pressed on a frame

compositor == <<kbFocus, held, hasKeyboard, ptrAt, pressed, hasPointer>>
kb      == <<keyboard, keyboardFocus, focused, keys, repeats, repeatKey, repeatWindow,
             seen, excused>>
ptr     == <<pointer, pointerFocus, decorFocus, buttons, inside, onFrame>>
surface == <<windows, framed, created, xdgDecoration>>
vars    == <<wire, compositor, kb, ptr, surface, taken>>

-----------------------------------------------------------------------------
(* Types *)

Part == {"content", "frame"}
Nowhere == [win |-> NoWindow, part |-> "content"]

Kind == {"enter", "leave", "key_down", "key_up", "repeat_on", "repeat_off",
         "keyboard_added", "keyboard_removed", "pointer_enter", "pointer_leave",
         "button_down", "button_up", "pointer_added", "pointer_removed",
         "client_side", "server_side"}

Message == [kind : Kind, win : Window \cup {NoWindow},
            what : Key \cup Button \cup Part \cup {"nothing"}]

Tell(kind, w, what) == [kind |-> kind, win |-> w, what |-> what]
Say(kind) == Tell(kind, NoWindow, "nothing")

TypeOK ==
  /\ wire \in Seq(Message)
  /\ kbFocus \in Window \cup {NoWindow} /\ held \subseteq Key
  /\ {hasKeyboard, hasPointer, xdgDecoration} \subseteq BOOLEAN
  /\ ptrAt \in [win : Window \cup {NoWindow}, part : Part]
  /\ pressed \subseteq Button
  /\ created \subseteq Window /\ windows \subseteq created /\ framed \subseteq windows
  /\ keyboard \in BOOLEAN /\ pointer \in BOOLEAN /\ repeats \in BOOLEAN
  /\ focused \subseteq windows /\ keys \subseteq Key
  /\ repeatKey \in Repeating \cup {NoKey}
  /\ {keyboardFocus, repeatWindow, pointerFocus} \subseteq windows \cup {NoWindow}
  /\ decorFocus \in framed \cup {NoWindow}
  /\ buttons \subseteq Button
  /\ seen \in [Window -> SUBSET Key] /\ inside \subseteq windows
  /\ excused \subseteq Key /\ taken \subseteq Button /\ onFrame \subseteq Button

Init ==
  /\ wire = <<Say("keyboard_added"), Say("pointer_added")>>
  /\ kbFocus = NoWindow /\ held = {} /\ hasKeyboard = TRUE
  /\ ptrAt = Nowhere /\ pressed = {} /\ hasPointer = TRUE
  /\ xdgDecoration \in BOOLEAN
  /\ windows = {} /\ framed = {} /\ created = {}
  /\ keyboard = FALSE /\ keyboardFocus = NoWindow /\ focused = {} /\ keys = {}
  /\ repeats = TRUE /\ repeatKey = NoKey /\ repeatWindow = NoWindow
  /\ pointer = FALSE /\ pointerFocus = NoWindow /\ decorFocus = NoWindow /\ buttons = {}
  /\ seen = [w \in Window |-> {}] /\ inside = {}
  /\ excused = {} /\ taken = {} /\ onFrame = {}

-----------------------------------------------------------------------------
(* The compositor.  It tells a window it loses a focus before it tells     *)
(* another it has it, and before the device goes.                          *)

Send(messages) ==
  /\ Len(wire) + Len(messages) <= MaxWire
  /\ wire' = wire \o messages

KbLeave == IF kbFocus = NoWindow THEN << >> ELSE <<Tell("leave", kbFocus, "nothing")>>
PtrLeave == IF ptrAt = Nowhere THEN << >>
            ELSE <<Tell("pointer_leave", ptrAt.win, ptrAt.part)>>

FocusMoves(w) ==
  /\ hasKeyboard
  /\ w # kbFocus
  /\ kbFocus' = w
  /\ Send(KbLeave \o IF w = NoWindow THEN << >> ELSE <<Tell("enter", w, "nothing")>>)
  /\ UNCHANGED <<held, hasKeyboard, ptrAt, pressed, hasPointer, kb, ptr, surface, taken>>

KeyMoves(k) ==
  /\ hasKeyboard
  /\ held' = IF k \in held THEN held \ {k} ELSE held \cup {k}
  /\ IF kbFocus = NoWindow THEN UNCHANGED wire
     ELSE Send(<<Tell(IF k \in held THEN "key_up" ELSE "key_down", NoWindow, k)>>)
  /\ UNCHANGED <<kbFocus, hasKeyboard, ptrAt, pressed, hasPointer, kb, ptr, surface, taken>>

RepeatInfo(kind) ==
  /\ hasKeyboard
  /\ Send(<<Say(kind)>>)
  /\ UNCHANGED <<compositor, kb, ptr, surface, taken>>

KeyboardUnplugged ==
  /\ hasKeyboard
  /\ hasKeyboard' = FALSE /\ kbFocus' = NoWindow /\ held' = {}
  /\ Send(KbLeave \o <<Say("keyboard_removed")>>)
  /\ UNCHANGED <<ptrAt, pressed, hasPointer, kb, ptr, surface, taken>>

KeyboardPlugged ==
  /\ ~hasKeyboard
  /\ hasKeyboard' = TRUE
  /\ Send(<<Say("keyboard_added")>>)
  /\ UNCHANGED <<kbFocus, held, ptrAt, pressed, hasPointer, kb, ptr, surface, taken>>

\* A button that is down keeps the pointer where it is.
PointerMoves(to) ==
  /\ hasPointer
  /\ pressed = {}
  /\ to # ptrAt
  /\ ptrAt' = to
  /\ Send(PtrLeave \o IF to = Nowhere THEN << >>
                      ELSE <<Tell("pointer_enter", to.win, to.part)>>)
  /\ UNCHANGED <<kbFocus, held, hasKeyboard, pressed, hasPointer, kb, ptr, surface, taken>>

ButtonMoves(b) ==
  /\ ptrAt # Nowhere
  /\ pressed' = IF b \in pressed THEN pressed \ {b} ELSE pressed \cup {b}
  /\ Send(<<Tell(IF b \in pressed THEN "button_up" ELSE "button_down", NoWindow, b)>>)
  /\ taken' = IF b \in pressed THEN taken ELSE taken \ {b}
  /\ UNCHANGED <<kbFocus, held, hasKeyboard, ptrAt, hasPointer, kb, ptr, surface>>

\* A move or resize of the window, a menu or a lock screen takes the pointer
\* away with its buttons down.
PointerTaken ==
  /\ pressed # {}
  /\ taken' = taken \cup pressed
  /\ pressed' = {} /\ ptrAt' = Nowhere
  /\ Send(PtrLeave)
  /\ UNCHANGED <<kbFocus, held, hasKeyboard, hasPointer, kb, ptr, surface>>

PointerUnplugged ==
  /\ hasPointer
  /\ hasPointer' = FALSE /\ ptrAt' = Nowhere /\ pressed' = {}
  /\ taken' = taken \cup pressed
  /\ Send(PtrLeave \o <<Say("pointer_removed")>>)
  /\ UNCHANGED <<kbFocus, held, hasKeyboard, kb, ptr, surface>>

PointerPlugged ==
  /\ ~hasPointer
  /\ hasPointer' = TRUE
  /\ Send(<<Say("pointer_added")>>)
  /\ UNCHANGED <<kbFocus, held, hasKeyboard, ptrAt, pressed, kb, ptr, surface, taken>>

\* zxdg_toplevel_decoration_v1.configure
DecorationMode(w, kind) ==
  /\ xdgDecoration
  /\ Send(<<Tell(kind, w, "nothing")>>)
  /\ UNCHANGED <<compositor, kb, ptr, surface, taken>>

-----------------------------------------------------------------------------
(* The keyboard *)

StopRepeat == repeatKey' = NoKey /\ repeatWindow' = NoWindow

\* Mutant: keys stay latched when the focus goes.
EmitFocusLatched(w, gained) ==
  IF (w \in focused) = gained
  THEN UNCHANGED <<focused, keys, seen, excused>>
  ELSE /\ focused' = IF gained THEN focused \cup {w} ELSE focused \ {w}
       /\ keys' = keys
       /\ seen' = IF gained THEN seen ELSE [seen EXCEPT ![w] = @ \ keys]
       /\ excused' = IF gained THEN excused ELSE {}

\* nack__emit_focus, told to the application.
EmitFocus(w, gained) ==
  IF (w \in focused) = gained
  THEN UNCHANGED <<focused, keys, seen, excused>>
  ELSE /\ focused' = IF gained THEN focused \cup {w} ELSE focused \ {w}
       /\ keys' = IF gained THEN keys ELSE {}
       /\ seen' = IF gained THEN seen ELSE [seen EXCEPT ![w] = @ \ keys]
       /\ excused' = IF gained THEN excused ELSE {}

\* nack__emit_key
EmitKey(w, k, down) ==
  /\ keys' = IF down THEN keys \cup {k} ELSE keys \ {k}
  /\ seen' = [seen EXCEPT ![w] = IF down THEN @ \cup {k} ELSE @ \ {k}]

KeyboardEnter(w) ==
  /\ IF w \in windows THEN keyboardFocus' = w /\ EmitFocus(w, TRUE)
     ELSE UNCHANGED <<keyboardFocus, focused, keys, seen, excused>>
  /\ UNCHANGED <<keyboard, repeats, repeatKey, repeatWindow>>

\* Mutant: the repeat goes on.
KeyboardLeaveRepeating ==
  /\ IF keyboardFocus # NoWindow
     THEN keyboardFocus' = NoWindow /\ EmitFocus(keyboardFocus, FALSE)
     ELSE UNCHANGED <<keyboardFocus, focused, keys, seen, excused>>
  /\ UNCHANGED <<keyboard, repeats, repeatKey, repeatWindow>>

\* keyboard_leave, whatever surface it names.
KeyboardLeave ==
  /\ StopRepeat
  /\ IF keyboardFocus # NoWindow
     THEN keyboardFocus' = NoWindow /\ EmitFocus(keyboardFocus, FALSE)
     ELSE UNCHANGED <<keyboardFocus, focused, keys, seen, excused>>
  /\ UNCHANGED <<keyboard, repeats>>

\* nack__wl_start_repeat: a key that does not repeat leaves the one that does
\* repeating.
StartRepeat(w, k) ==
  IF repeats /\ k \in Repeating THEN repeatKey' = k /\ repeatWindow' = w
  ELSE UNCHANGED <<repeatKey, repeatWindow>>

\* Mutant: any release but that of the repeating key stops the repeat.
KeyboardKeyOther(k, down) ==
  /\ IF keyboardFocus = NoWindow
     THEN UNCHANGED <<keys, seen, repeatKey, repeatWindow>>
     ELSE /\ EmitKey(keyboardFocus, k, down)
          /\ IF down THEN StartRepeat(keyboardFocus, k)
             ELSE IF repeatKey # k THEN StopRepeat
             ELSE UNCHANGED <<repeatKey, repeatWindow>>
  /\ UNCHANGED <<keyboard, keyboardFocus, focused, repeats, excused>>

\* keyboard_key
KeyboardKey(k, down) ==
  /\ IF keyboardFocus = NoWindow
     THEN UNCHANGED <<keys, seen, repeatKey, repeatWindow>>
     ELSE /\ EmitKey(keyboardFocus, k, down)
          /\ IF down THEN StartRepeat(keyboardFocus, k)
             ELSE IF repeatKey = k THEN StopRepeat
             ELSE UNCHANGED <<repeatKey, repeatWindow>>
  /\ UNCHANGED <<keyboard, keyboardFocus, focused, repeats, excused>>

KeyboardRepeatInfo(on) ==
  /\ repeats' = on
  /\ IF on THEN UNCHANGED <<repeatKey, repeatWindow>> ELSE StopRepeat
  /\ UNCHANGED <<keyboard, keyboardFocus, focused, keys, seen, excused>>

\* nack__wl_pump_key_repeat, when the time has come.
PumpKeyRepeat ==
  /\ repeatKey # NoKey /\ repeatWindow # NoWindow /\ repeats
  /\ EmitKey(repeatWindow, repeatKey, TRUE)
  /\ UNCHANGED <<wire, compositor, ptr, surface, taken, keyboard, keyboardFocus, focused,
                 repeats, repeatKey, repeatWindow, excused>>

-----------------------------------------------------------------------------
(* The pointer *)

\* pointer_enter
PointerEnter(w, part) ==
  /\ IF w \notin windows THEN UNCHANGED <<pointerFocus, decorFocus, inside>>
     ELSE IF part = "content"
     THEN /\ pointerFocus' = w /\ decorFocus' = NoWindow
          /\ inside' = inside \cup {w}
     ELSE /\ decorFocus' = IF w \in framed THEN w ELSE decorFocus
          /\ UNCHANGED <<pointerFocus, inside>>
  /\ UNCHANGED <<pointer, buttons, onFrame, taken>>

\* Mutant: the frame keeps the pointer it had.
PointerLeaveContent ==
  /\ pointerFocus' = NoWindow
  /\ inside' = inside \ {pointerFocus}
  /\ UNCHANGED <<pointer, buttons, onFrame, decorFocus, taken>>

\* pointer_leave
PointerLeave ==
  /\ decorFocus' = NoWindow /\ pointerFocus' = NoWindow
  /\ inside' = inside \ {pointerFocus}
  /\ UNCHANGED <<pointer, buttons, onFrame, taken>>

\* pointer_button: over a frame only the press goes through
\* nack__emit_mouse_button; what the frame does with it is the compositor's.
\* With the window or the frame gone meanwhile nobody hears of it.
PointerButton(b, down) ==
  /\ IF decorFocus # NoWindow
     THEN /\ IF down THEN buttons' = buttons \cup {b} /\ onFrame' = onFrame \cup {b}
             ELSE UNCHANGED <<buttons, onFrame>>
          /\ UNCHANGED taken
     ELSE IF pointerFocus # NoWindow
     THEN /\ buttons' = IF down THEN buttons \cup {b} ELSE buttons \ {b}
          /\ onFrame' = onFrame \ {b}
          /\ UNCHANGED taken
     ELSE /\ taken' = taken \cup {b}
          /\ UNCHANGED <<buttons, onFrame>>
  /\ UNCHANGED <<pointer, pointerFocus, decorFocus, inside>>

-----------------------------------------------------------------------------
(* Windows and their frames *)

\* nack__wl_decor_destroy: no frame keeps the pointer.
DropFrame(w) == decorFocus' = IF decorFocus = w THEN NoWindow ELSE decorFocus

\* decoration_configure, on a compositor with subsurfaces.  The pointer leaves
\* a frame that is taken down, and its buttons go unheard.
DecorationConfigure(w, kind) ==
  /\ IF w \notin windows
     THEN UNCHANGED <<framed, decorFocus, ptrAt, pressed, taken>>
     ELSE IF kind = "client_side"
     THEN /\ framed' = framed \cup {w}
          /\ UNCHANGED <<decorFocus, ptrAt, pressed, taken>>
     ELSE /\ framed' = framed \ {w}
          /\ DropFrame(w)
          /\ IF ptrAt = [win |-> w, part |-> "frame"]
             THEN ptrAt' = Nowhere /\ pressed' = {} /\ taken' = taken \cup pressed
             ELSE UNCHANGED <<ptrAt, pressed, taken>>
  /\ UNCHANGED <<kbFocus, held, hasKeyboard, hasPointer, windows, created, xdgDecoration,
                 pointer, pointerFocus, buttons, inside, onFrame>>

\* nack_window_create; without xdg-decoration a decorated window has its frame
\* at once.
Create(w) ==
  /\ w \notin created
  /\ windows' = windows \cup {w}
  /\ created' = created \cup {w}
  /\ framed' \in {framed} \cup (IF xdgDecoration THEN {} ELSE {framed \cup {w}})
  /\ UNCHANGED <<wire, compositor, kb, ptr, xdgDecoration, taken>>

\* The repeat of a destroyed window ends with it.
ForgetRepeat(w) ==
  IF repeatWindow = w THEN StopRepeat ELSE UNCHANGED <<repeatKey, repeatWindow>>

\* nack_window_destroy over nack__wl_window_destroy
Destroy(w) ==
  /\ w \in windows
  /\ windows' = windows \ {w} /\ framed' = framed \ {w}
  /\ keyboardFocus' = IF keyboardFocus = w THEN NoWindow ELSE keyboardFocus
  /\ pointerFocus' = IF pointerFocus = w THEN NoWindow ELSE pointerFocus
  /\ ForgetRepeat(w)
  /\ DropFrame(w)
  /\ focused' = focused \ {w} /\ inside' = inside \ {w}
  /\ seen' = [seen EXCEPT ![w] = {}]
  /\ excused' = IF w \in focused THEN excused \cup keys ELSE excused
  /\ kbFocus' = IF kbFocus = w THEN NoWindow ELSE kbFocus
  /\ IF ptrAt.win = w THEN ptrAt' = Nowhere /\ pressed' = {} ELSE UNCHANGED <<ptrAt, pressed>>
  /\ taken' = IF ptrAt.win = w THEN taken \cup pressed ELSE taken
  /\ UNCHANGED <<wire, held, hasKeyboard, hasPointer, keyboard, keys, repeats, pointer,
                 buttons, onFrame, created, xdgDecoration>>

-----------------------------------------------------------------------------
(* seat_capabilities.  A device that goes takes its messages with it; the  *)
(* focus it had is left as it is.                                          *)

SeatCapabilities(kind) ==
  /\ keyboard' = CASE kind = "keyboard_added" -> TRUE
                   [] kind = "keyboard_removed" -> FALSE
                   [] OTHER -> keyboard
  /\ pointer' = CASE kind = "pointer_added" -> TRUE
                  [] kind = "pointer_removed" -> FALSE
                  [] OTHER -> pointer
  /\ UNCHANGED <<keyboardFocus, focused, keys, repeats, repeatKey, repeatWindow, seen,
                 excused, pointerFocus, decorFocus, buttons, inside, onFrame>>

DispatchKeyboard(m) ==
  /\ CASE m.kind = "enter"      -> KeyboardEnter(m.win)
       [] m.kind = "leave"      -> KeyboardLeave
       [] m.kind = "key_down"   -> KeyboardKey(m.what, TRUE)
       [] m.kind = "key_up"     -> KeyboardKey(m.what, FALSE)
       [] m.kind = "repeat_on"  -> KeyboardRepeatInfo(TRUE)
       [] m.kind = "repeat_off" -> KeyboardRepeatInfo(FALSE)
  /\ UNCHANGED <<compositor, ptr, surface, taken>>

DispatchPointer(m) ==
  /\ CASE m.kind = "pointer_enter" -> PointerEnter(m.win, m.what)
       [] m.kind = "pointer_leave" -> PointerLeave
       [] m.kind = "button_down"   -> PointerButton(m.what, TRUE)
       [] m.kind = "button_up"     -> PointerButton(m.what, FALSE)
  /\ UNCHANGED <<compositor, kb, surface>>

KeyboardKind == {"enter", "leave", "key_down", "key_up", "repeat_on", "repeat_off"}
PointerKind == {"pointer_enter", "pointer_leave", "button_down", "button_up"}
DecorationKind == {"client_side", "server_side"}

ToFrame(m, w) == m.kind = "pointer_enter" /\ m.win = w /\ m.what = "frame"

\* A pointer on its way to a frame that is taken down arrives with a surface
\* of NULL, and never at the next frame of that window.
FrameGone(m, messages) ==
  [i \in 1..Len(messages) |->
     IF m.kind = "server_side" /\ ToFrame(messages[i], m.win)
     THEN [messages[i] EXCEPT !.win = NoWindow] ELSE messages[i]]

Dispatch ==
  /\ wire # << >>
  /\ wire' = FrameGone(Head(wire), Tail(wire))
  /\ LET m == Head(wire) IN
     \/ m.kind \in KeyboardKind /\ DispatchKeyboard(m)
     \/ m.kind \in PointerKind /\ DispatchPointer(m)
     \/ m.kind \in DecorationKind /\ DecorationConfigure(m.win, m.kind) /\ UNCHANGED kb
     \/ /\ m.kind \notin KeyboardKind \cup PointerKind \cup DecorationKind
        /\ SeatCapabilities(m.kind)
        /\ UNCHANGED <<compositor, surface, taken>>

-----------------------------------------------------------------------------
Spot == {Nowhere} \cup [win : windows, part : {"content"}]
                  \cup [win : framed, part : {"frame"}]

Compositor ==
  \/ \E w \in windows \cup {NoWindow} : FocusMoves(w)
  \/ \E k \in Key : KeyMoves(k)
  \/ \E kind \in {"repeat_on", "repeat_off"} : RepeatInfo(kind)
  \/ KeyboardUnplugged \/ KeyboardPlugged
  \/ \E to \in Spot : PointerMoves(to)
  \/ \E b \in Button : ButtonMoves(b)
  \/ PointerTaken
  \/ PointerUnplugged \/ PointerPlugged
  \/ \E w \in windows, kind \in DecorationKind : DecorationMode(w, kind)

Next ==
  \/ Compositor
  \/ Dispatch
  \/ PumpKeyRepeat
  \/ \E w \in Window : Create(w) \/ Destroy(w)

Spec == Init /\ [][Next]_vars

-----------------------------------------------------------------------------
(* Properties *)

\* A key repeats only in the window that has the keyboard focus, and only
\* while nack__g.keys has it down, through changes of focus, keys that do not
\* repeat, a repeat that is switched off and windows destroyed with the key
\* down (nack_wayland_input.cpp:99-115, nack_wayland.cpp:589).
RepeatIsHeld ==
  repeatKey # NoKey =>
    /\ repeatWindow = keyboardFocus
    /\ repeatWindow \in focused
    /\ repeatKey \in keys

\* The application never believes a key is down in a window without the
\* focus, or one that nack__g.keys does not have (nack.cpp:250), although
\* repeats press keys by themselves.
NoStuckKey ==
  \A w \in Window : seen[w] # {} => w \in focused /\ seen[w] \subseteq keys

\* Both: what is believed down, and what repeats, is down in the window that has
\* the focus (nack.cpp:250, nack_wayland_input.cpp:99-115).
KeysFollowFocus == RepeatIsHeld /\ NoStuckKey

\* The focus of the library is what was said last, not what is true: with
\* nothing in flight it is the compositor's, and a key is neither latched nor
\* repeating unless it is held, except keys whose window was destroyed.
SettledKeyboard ==
  wire = << >> =>
    /\ keyboardFocus = kbFocus
    /\ focused = {kbFocus} \ {NoWindow}
    /\ keys \ excused \subseteq held
    /\ repeatKey # NoKey => repeatKey \in held

\* With nothing in flight the pointer is where the compositor has it, over
\* content or frame and never both, the application was told of entering that
\* window and of leaving every other, and a button is latched only while it is
\* down, except for those whose release the compositor kept and those last
\* pressed on a frame (nack_wayland_input.cpp:505-603, nack_wayland_decor.cpp:587).
SettledPointer ==
  wire = << >> =>
    /\ pointerFocus = IF ptrAt.part = "content" THEN ptrAt.win ELSE NoWindow
    /\ decorFocus = IF ptrAt.part = "frame" THEN ptrAt.win ELSE NoWindow
    /\ inside = {pointerFocus} \ {NoWindow}
    /\ buttons \ (taken \cup onFrame) \subseteq pressed

Promise == INSTANCE KeyboardPromise
  WITH live <- windows,
       focus <- IF focused = {} THEN NoWindow ELSE CHOOSE w \in focused : TRUE,
       down <- keys

\* The Wayland keyboard keeps the promise every backend makes.
KeepsKeyboardPromise == Promise!Spec
=============================================================================
