-------------------------- MODULE NativeWindowsProofs --------------------------
(***************************************************************************)
(* The theorems of NativeWindows, for any keys, buttons, sizes and scales  *)
(* and any number of messages and requests in flight: the inductive        *)
(* invariant and its types, lemmas about the last message of a kind, what  *)
(* the handlers the backends share do to the keyboard and the buttons,     *)
(* every step of the X11, the Win32 and the Cocoa backend, and what the    *)
(* invariant says once nothing is in flight, which are the properties.     *)
(*                                                                         *)
(* Each property of NativeWindows speaks of a moment when all is           *)
(* dispatched.  The invariant says how libnack and the system may differ   *)
(* before that: the last message of a kind in flight says what is so, and  *)
(* with none in flight libnack has it already, or has asked for it.        *)
(***************************************************************************)
EXTENDS NativeWindows, TLAPS, SequenceTheorems

-----------------------------------------------------------------------------
(* The types *)

Record == [live : BOOLEAN, size : Nat, fb : Nat, scale : Nat, resizable : BOOLEAN,
           visible : BOOLEAN, minimized : BOOLEAN, maximized : BOOLEAN,
           fullscreen : BOOLEAN, focused : BOOLEAN, closing : BOOLEAN,
           restore : Nat, keys : SUBSET Key, buttons : SUBSET Button]

System == [size : Nat, normal : Nat, scale : Nat \ {0}, shown : BOOLEAN, mini : BOOLEAN,
           zoomed : BOOLEAN, full : {"no", "yes", "entering", "leaving"},
           refused : BOOLEAN, focused : BOOLEAN, held : SUBSET Key, odd : SUBSET Key,
           crossed : SUBSET Key, fresh : SUBSET Key, here : SUBSET Button,
           strayed : SUBSET Button, capture : BOOLEAN]

Report == [size : Nat, fb : Nat]

\* What a message to libnack may be on each backend.
Word(types) == [type : types]
FocusWord == [type : {"focus"}, on : BOOLEAN]
KeyWord   == [type : {"key"}, key : Key, down : BOOLEAN, held : SUBSET Key]

ConfigureWord == [type : {"configure"}, size : Nat]
PressWord(B) == [type : {"press", "release"}, button : B]

XMessage == Word({"property"}) \cup Word({"map", "unmap"}) \cup Word({"close"})
              \cup ConfigureWord \cup PressWord(Button)

WMessage == Word({"close"}) \cup FocusWord \cup KeyWord
              \cup [type : {"button"}, button : Button, down : BOOLEAN, inside : BOOLEAN]

MiniWord == [type : {"mini"}, on : BOOLEAN]

CMessage == Word({"close"}) \cup FocusWord \cup KeyWord
              \cup [type : {"button"}, button : Button, down : BOOLEAN]
              \cup MiniWord

Request == [op : {"map", "configure", "fullscreen", "maximize", "iconify"},
            size : Nat, on : BOOLEAN]

State(M) == [w : Record, told : Report, sys : System, wire : Seq(M),
             requests : Seq(Request)]

-----------------------------------------------------------------------------
(* The last of a kind *)

None(s, K) == \A i \in 1..Len(s) : s[i] \notin K

Last(s, K, i) == /\ i \in 1..Len(s) /\ s[i] \in K
                 /\ \A j \in 1..Len(s) : j > i => s[j] \notin K

-----------------------------------------------------------------------------
(* What a handler may leave alone *)

Keyboard(n) == <<n.w.focused, n.w.keys, n.sys.focused, n.sys.held, n.sys.odd,
                 n.sys.crossed, n.sys.fresh>>
Mouse(n) == <<n.w.buttons, n.sys.here, n.sys.strayed, n.sys.capture>>

SameInput(n, m) ==
  /\ m.w.live = n.w.live /\ Keyboard(m) = Keyboard(n) /\ Mouse(m) = Mouse(n)
  /\ m.wire = n.wire /\ m.requests = n.requests

SameSizes(n, m) ==
  /\ m.w.size = n.w.size /\ m.w.fb = n.w.fb /\ m.told = n.told
  /\ m.sys.size = n.sys.size /\ m.sys.scale = n.sys.scale

SameLooks(n, m) ==
  /\ m.w.visible = n.w.visible /\ m.w.minimized = n.w.minimized
  /\ m.w.maximized = n.w.maximized /\ m.w.fullscreen = n.w.fullscreen
  /\ m.sys.shown = n.sys.shown /\ m.sys.mini = n.sys.mini
  /\ m.sys.zoomed = n.sys.zoomed /\ m.sys.full = n.sys.full
  /\ m.sys.refused = n.sys.refused

\* The program has been told of the framebuffer, and of the size or not yet.
Reported(n) == n.told.fb = n.w.fb /\ n.told.size \in {Unsized, n.w.size}

-----------------------------------------------------------------------------
(* The invariant on X11 *)

Asks(op) == [op : {op}, size : Nat, on : BOOLEAN]
AsksMap(on) == [op : {"map"}, size : Nat, on : {on}]

\* The last ConfigureNotify on its way has the size, and with none on its way
\* the framebuffer has it.
XSizes(n) ==
  /\ n.told.fb = n.w.fb /\ n.told.size \in {Unsized, n.told.fb}
  /\ \A i \in 1..Len(n.wire) :
       Last(n.wire, ConfigureWord, i) => n.wire[i].size = n.sys.size
  /\ None(n.wire, ConfigureWord) => n.w.fb = n.sys.size

\* A size taken for granted is one the server still has to be asked for.
XAgreed(n) ==
  None(n.wire, ConfigureWord) /\ None(n.requests, Asks("configure"))
    => n.w.size = n.sys.size

\* With no PropertyNotify on its way the states are what the property says,
\* but for a fullscreen that was asked for.
XStates(n) ==
  None(n.wire, Word({"property"})) =>
    /\ \/ n.w.fullscreen = (n.sys.full = "yes")
       \/ n.sys.refused
       \/ ~None(n.requests, Asks("fullscreen"))
    /\ n.w.minimized = n.sys.mini
    /\ n.w.maximized = n.sys.zoomed

\* What libnack will believe of the window's being mapped is so, or asked for.
XMeant(n, v) == v = n.sys.shown \/ ~None(n.requests, AsksMap(v))

XVisible(n) ==
  /\ \A i \in 1..Len(n.wire) :
       Last(n.wire, Word({"map", "unmap"}), i) => XMeant(n, n.wire[i].type = "map")
  /\ None(n.wire, Word({"map", "unmap"})) => XMeant(n, n.w.visible)

XPressed(n) ==
  \A b \in Button :
    /\ \A i \in 1..Len(n.wire) :
         Last(n.wire, PressWord({b}), i) /\ n.wire[i].type = "press"
           => b \in n.sys.here \cup n.sys.strayed
    /\ None(n.wire, PressWord({b})) /\ b \in n.w.buttons
         => b \in n.sys.here \cup n.sys.strayed

\* The keyboard is WindowCore's.
NoKeyboard(n) ==
  /\ n.w.focused = FALSE /\ n.w.keys = {} /\ n.sys.focused = FALSE /\ n.sys.fresh = {}

XCore(n) == XSizes(n) /\ XPressed(n) /\ NoKeyboard(n) /\ n.sys.full \in {"yes", "no"}

XInv(n) == XCore(n) /\ XAgreed(n) /\ XStates(n) /\ XVisible(n)

-----------------------------------------------------------------------------
(* The invariant on Win32 and Cocoa: keyboard and buttons *)

Off == [type : {"focus"}, on : {FALSE}]
KeyOf(K) == [type : {"key"}, key : K, down : BOOLEAN, held : SUBSET Key]

\* None of K in s after position i.
NoneAfter(s, K, i) == \A j \in 1..Len(s) : j > i => s[j] \notin K

\* libnack has the focus the system says, once the messages are read; no key
\* stays latched when it goes.
FocusArrives(n) ==
  /\ ~n.w.focused => n.w.keys = {}
  /\ ~n.sys.focused => n.sys.fresh = {}
  /\ ~n.sys.focused /\ n.w.focused => ~None(n.wire, Off)
  /\ n.sys.focused =>
       /\ \A i \in 1..Len(n.wire) : Last(n.wire, FocusWord, i) => n.wire[i].on
       /\ None(n.wire, FocusWord) => n.w.focused
  /\ n.sys.fresh \subseteq n.sys.held

\* Keys of an earlier focus are let go of before the next begins.
KeysExpire(n) ==
  /\ \A i \in 1..Len(n.wire) :
       n.wire[i] \in KeyOf(Key \ n.sys.crossed) =>
         \/ ~NoneAfter(n.wire, Off, i)
         \/ n.sys.focused /\ NoneAfter(n.wire, FocusWord, i)
  /\ ~(n.w.keys \subseteq n.sys.crossed) =>
       \/ ~None(n.wire, Off)
       \/ n.sys.focused /\ None(n.wire, FocusWord)

\* A key pressed since the window has the focus will be latched.
FreshArrive(n, K) ==
  \A k \in n.sys.fresh \cap K :
    \/ \E i \in 1..Len(n.wire) : /\ Last(n.wire, KeyOf({k}), i) /\ n.wire[i].down
                                 /\ NoneAfter(n.wire, FocusWord, i)
    \/ None(n.wire, FocusWord) /\ None(n.wire, KeyOf({k})) /\ k \in n.w.keys

\* The last that is said of a key is so.
KeysArrive(n, K) ==
  n.sys.focused =>
  \A k \in K \ n.sys.crossed :
    /\ \A i \in 1..Len(n.wire) :
         Last(n.wire, KeyOf({k}), i) /\ NoneAfter(n.wire, FocusWord, i) /\ n.wire[i].down
           => k \in n.sys.held
    /\ None(n.wire, FocusWord) /\ None(n.wire, KeyOf({k})) /\ k \in n.w.keys
         => k \in n.sys.held

\* Windows: the shifts are let go of together.
ShiftsTogether(n) ==
  /\ \A i \in 1..Len(n.wire) :
       n.wire[i] \in KeyOf(Shift) /\ ~n.wire[i].down => n.wire[i].held \cap Shift = {}
  /\ n.sys.focused /\ n.sys.held \cap Shift = {} =>
       /\ \A i \in 1..Len(n.wire) :
            Last(n.wire, KeyOf(Shift), i) /\ NoneAfter(n.wire, FocusWord, i)
              => ~n.wire[i].down
       /\ None(n.wire, FocusWord) /\ None(n.wire, KeyOf(Shift))
            => n.w.keys \cap Shift \subseteq n.sys.crossed

\* Cocoa: the messages of a modifier take turns, from what libnack believes, or
\* will once it has the focus, to what is so.
Mine(n, k) ==
  {i \in 1..Len(n.wire) : n.wire[i] \in KeyOf({k}) /\ NoneAfter(n.wire, FocusWord, i)}

Turns(S, s, believed, held) ==
  /\ \A i \in S : (\A j \in S : i <= j) => s[i].down = ~believed
  /\ \A i, j \in S : i < j /\ (\A l \in S : l <= i \/ j <= l) => s[j].down = ~s[i].down
  /\ \A i \in S : (\A j \in S : j <= i) => s[i].down = held
  /\ S = {} => held = believed

Believed(n, k) == None(n.wire, FocusWord) /\ k \in n.w.keys

Toggled == Modifier \ Lock

TakeTurns(n) ==
  n.sys.focused =>
    \A k \in Toggled \ (n.sys.odd \cup n.sys.crossed) :
      Turns(Mine(n, k), n.wire, Believed(n, k), k \in n.sys.held)

\* The last that is said of a button is so, unless it went astray.
ButtonOf(b) == [type : {"button"}, button : {b}, down : BOOLEAN]
                 \cup [type : {"button"}, button : {b}, down : BOOLEAN, inside : BOOLEAN]

ButtonsArrive(n) ==
  \A b \in Button :
    /\ \A i \in 1..Len(n.wire) :
         Last(n.wire, ButtonOf(b), i) /\ n.wire[i].down
           => b \in n.sys.here \cup n.sys.strayed
    /\ None(n.wire, ButtonOf(b)) /\ b \in n.w.buttons
         => b \in n.sys.here \cup n.sys.strayed

WButtonsArrive(n) ==
  /\ \A b \in Button, i \in 1..Len(n.wire) :
       Last(n.wire, ButtonOf(b), i) /\ n.wire[i].down => b \in n.sys.here
  /\ ~n.sys.capture => n.w.buttons \cap Primary \subseteq n.sys.strayed

-----------------------------------------------------------------------------
(* Sizes and states on Win32 and Cocoa *)

WSizes(n) == Reported(n) /\ n.w.size = n.sys.size /\ n.w.fb = n.sys.size

WStates(n) ==
  /\ n.w.minimized = n.sys.mini
  /\ n.w.maximized = (n.sys.zoomed /\ ~n.sys.mini)

WFull(n) == /\ n.sys.full \in {"yes", "no"} /\ n.w.fullscreen = (n.sys.full = "yes")
            /\ n.requests = << >>

WInput(n) ==
  /\ FocusArrives(n) /\ KeysExpire(n) /\ KeysArrive(n, Key \ Shift)
  /\ FreshArrive(n, Key \ Shift) /\ ShiftsTogether(n)

WInv(n) ==
  WSizes(n) /\ WStates(n) /\ WFull(n) /\ WInput(n) /\ ButtonsArrive(n) /\ WButtonsArrive(n)

CSizes(n) ==
  Reported(n) /\ n.w.size = n.sys.size /\ n.w.fb = n.sys.size * n.sys.scale

CStates(n) ==
  /\ n.w.fullscreen = (n.sys.full \in {"yes", "leaving"})
  /\ \A i \in 1..Len(n.wire) :
       Last(n.wire, MiniWord, i) => n.wire[i].on = n.sys.mini
  /\ None(n.wire, MiniWord) => n.w.minimized = n.sys.mini
  /\ n.requests = << >>

CInput(n) ==
  /\ FocusArrives(n) /\ KeysExpire(n) /\ KeysArrive(n, Key \ Toggled)
  /\ FreshArrive(n, Key \ Toggled) /\ TakeTurns(n)

CInv(n) == CSizes(n) /\ CStates(n) /\ CInput(n) /\ ButtonsArrive(n)

-----------------------------------------------------------------------------
(* The whole *)

Message(b) == CASE b = "x11" -> XMessage [] b = "win32" -> WMessage [] b = "cocoa" -> CMessage

NativeInv ==
  /\ backend \in {"x11", "win32", "cocoa"}
  /\ Now \in State(Message(backend))
  /\ w.live => CASE backend = "x11" -> XInv(Now)
                 [] backend = "win32" -> WInv(Now)
                 [] backend = "cocoa" -> CInv(Now)
  /\ ~w.live => /\ w = NoWindow /\ told = [size |-> Unsized, fb |-> Unsized]
                /\ sys = Unseen(Unsized, 1) /\ wire = << >> /\ requests = << >>

-----------------------------------------------------------------------------
(* Sequences *)

LEMMA TailLast ==
  ASSUME NEW M, NEW s \in Seq(M), s # << >>, NEW K
  PROVE  /\ Tail(s) \in Seq(M) /\ Head(s) \in M /\ Head(s) = s[1]
         /\ None(Tail(s), K) => None(s, K) \/ Last(s, K, 1)
         /\ None(s, K) => None(Tail(s), K) /\ Head(s) \notin K
         /\ \A i : Last(Tail(s), K, i) => /\ i + 1 \in 1..Len(s) /\ Last(s, K, i + 1)
                                          /\ Tail(s)[i] = s[i + 1]
<1> DEFINE t == Tail(s)
<1>1. /\ t \in Seq(M) /\ Len(t) = Len(s) - 1 /\ Len(s) \in Nat /\ Len(s) > 0
      /\ \A i \in 1..Len(t) : t[i] = s[i + 1]
      /\ Head(s) \in M /\ Head(s) = s[1]
  OBVIOUS
<1> HIDE DEF t
<1>2. ASSUME None(t, K) PROVE None(s, K) \/ Last(s, K, 1)
  <2>1. ASSUME NEW j \in 1..Len(s), j > 1 PROVE s[j] \notin K
    <3>1. j - 1 \in 1..Len(t) /\ t[j - 1] = s[j] BY <1>1, <2>1
    <3> QED BY <1>2, <3>1 DEF None
  <2>2. 1 \in 1..Len(s) /\ \A j \in 1..Len(s) : j = 1 \/ j > 1 BY <1>1
  <2> QED BY <2>1, <2>2 DEF None, Last
<1>3. ASSUME None(s, K) PROVE None(t, K) /\ Head(s) \notin K
  <2>1. \A i \in 1..Len(t) : i + 1 \in 1..Len(s) BY <1>1
  <2>2. 1 \in 1..Len(s) BY <1>1
  <2> QED BY <1>1, <1>3, <2>1, <2>2 DEF None
<1>4. ASSUME NEW i, Last(t, K, i)
      PROVE  i + 1 \in 1..Len(s) /\ Last(s, K, i + 1) /\ t[i] = s[i + 1]
  <2>1. i \in 1..Len(t) BY <1>4 DEF Last
  <2>2. i + 1 \in 1..Len(s) /\ t[i] = s[i + 1] BY <1>1, <2>1
  <2>3. ASSUME NEW j \in 1..Len(s), j > i + 1 PROVE s[j] \notin K
    <3>1. j - 1 \in 1..Len(t) /\ t[j - 1] = s[j] /\ j - 1 > i BY <1>1, <2>1, <2>3
    <3> QED BY <1>4, <3>1 DEF Last
  <2> QED BY <1>4, <2>2, <2>3 DEF Last
<1> QED BY <1>1, <1>2, <1>3, <1>4 DEF t

LEMMA AppendLast ==
  ASSUME NEW M, NEW s \in Seq(M), NEW m \in M, NEW K, NEW t, t = Append(s, m)
  PROVE  /\ t \in Seq(M) /\ Len(t) = Len(s) + 1 /\ Len(s) \in Nat /\ t[Len(s) + 1] = m
         /\ \A i \in 1..Len(s) : t[i] = s[i]
         /\ m \in K => /\ ~None(t, K)
                       /\ \A i : Last(t, K, i) => i = Len(s) + 1
         /\ m \notin K => /\ None(t, K) <=> None(s, K)
                          /\ \A i : Last(t, K, i) => Last(s, K, i)
<1>1. /\ t \in Seq(M) /\ Len(t) = Len(s) + 1 /\ Len(s) \in Nat /\ t[Len(s) + 1] = m
      /\ \A i \in 1..Len(s) : t[i] = s[i]
  OBVIOUS
<1>2. \A i \in 1..Len(t) : i \in 1..Len(s) \/ i = Len(s) + 1
  BY <1>1
<1>3. \A i \in 1..Len(s) : i \in 1..Len(t) /\ i < Len(s) + 1
  BY <1>1
<1>4. Len(s) + 1 \in 1..Len(t)
  BY <1>1
<1>5. ASSUME m \in K
      PROVE  ~None(t, K) /\ \A i : Last(t, K, i) => i = Len(s) + 1
  BY <1>1, <1>2, <1>3, <1>4, <1>5 DEF None, Last
<1>6. ASSUME m \notin K
      PROVE  /\ None(t, K) <=> None(s, K)
             /\ \A i : Last(t, K, i) => Last(s, K, i)
  BY <1>1, <1>2, <1>3, <1>6 DEF None, Last
<1> QED BY <1>1, <1>5, <1>6

LEMMA LastAppended ==
  ASSUME NEW M, NEW s \in Seq(M), NEW K, NEW m \in K, m \in M, NEW t, t = Append(s, m)
  PROVE  ~None(t, K) /\ \A i : Last(t, K, i) => i = Len(s) + 1
BY AppendLast

-----------------------------------------------------------------------------
(* The emitters *)

LEMMA ResizeEmitted ==
  ASSUME NEW M, NEW n \in State(M), NEW size \in Nat, NEW fb \in Nat
  PROVE  LET m == EmitResize(n, size, fb)
         IN /\ m \in State(M) /\ SameInput(n, m) /\ SameLooks(n, m)
            /\ m.w.size = size /\ m.w.fb = fb
            /\ m.sys = n.sys
            /\ Reported(n) => Reported(m)
            /\ (m.told = n.told /\ m.w.fb = n.w.fb) \/ m.told = [size |-> size, fb |-> fb]
<1> DEFINE m == EmitResize(n, size, fb)
<1>1. CASE n.w.size = size /\ n.w.fb = fb
  <2>1. m = n
    BY <1>1 DEF EmitResize
  <2> QED BY <1>1, <2>1 DEF SameInput, SameLooks, Keyboard, Mouse
<1>2. CASE ~(n.w.size = size /\ n.w.fb = fb)
  <2> DEFINE v == [n.w EXCEPT !.size = size, !.fb = fb]
             t == [size |-> size, fb |-> fb]
  <2>1. m = [n EXCEPT !.w = v, !.told = t]
    BY <1>2 DEF EmitResize
  <2>2. n.w \in Record BY DEF State
  <2>3. v \in Record /\ v.size = size /\ v.fb = fb
        /\ v.live = n.w.live /\ v.focused = n.w.focused /\ v.keys = n.w.keys
        /\ v.buttons = n.w.buttons /\ v.visible = n.w.visible
        /\ v.minimized = n.w.minimized /\ v.maximized = n.w.maximized
        /\ v.fullscreen = n.w.fullscreen
    BY <2>2 DEF Record
  <2>4. t \in Report /\ t.size = size /\ t.fb = fb
    BY DEF Report
  <2> HIDE DEF v, t
  <2>5. m \in State(M) /\ m.w = v /\ m.told = t /\ m.sys = n.sys /\ m.wire = n.wire
        /\ m.requests = n.requests
    BY <2>1, <2>3, <2>4 DEF State
  <2>6. m.told = [size |-> size, fb |-> fb]
    BY <2>5 DEF t
  <2> QED BY <2>3, <2>4, <2>5, <2>6 DEF SameInput, SameLooks, Keyboard, Mouse, Reported
<1> QED BY <1>1, <1>2

LEMMA FocusLost ==
  ASSUME NEW M, NEW n \in State(M)
  PROVE  LET m == Unfocused(n)
         IN /\ m \in State(M) /\ SameSizes(n, m) /\ SameLooks(n, m)
            /\ m.w.live = n.w.live /\ m.wire = n.wire /\ m.requests = n.requests
            /\ m.w.focused = FALSE /\ m.w.keys = IF n.w.focused THEN {} ELSE n.w.keys
            /\ m.sys.focused = FALSE /\ m.sys.held = n.sys.held /\ m.sys.odd = {}
            /\ m.sys.crossed = Underway(n.wire) /\ m.sys.fresh = {}
            /\ m.w.buttons = n.w.buttons /\ m.sys.here = n.sys.here
            /\ m.sys.strayed = n.sys.strayed \cup n.sys.here \cup n.w.buttons
            /\ m.sys.capture = FALSE
<1> DEFINE m == Unfocused(n)
           s == [n.sys EXCEPT !.focused = FALSE, !.fresh = {}, !.odd = {},
                              !.crossed = Underway(n.wire), !.capture = FALSE,
                              !.strayed = @ \cup n.sys.here \cup n.w.buttons]
           v == [n.w EXCEPT !.focused = FALSE, !.keys = {}]
<1>1. n.sys \in System /\ n.w \in Record /\ Underway(n.wire) \in SUBSET Key
  BY DEF State, Underway
<1>2. /\ s \in System /\ s.focused = FALSE /\ s.held = n.sys.held /\ s.odd = {}
      /\ s.crossed = Underway(n.wire) /\ s.fresh = {} /\ s.here = n.sys.here
      /\ s.strayed = n.sys.strayed \cup n.sys.here \cup n.w.buttons /\ s.capture = FALSE
      /\ s.size = n.sys.size /\ s.scale = n.sys.scale /\ s.shown = n.sys.shown
      /\ s.mini = n.sys.mini /\ s.zoomed = n.sys.zoomed /\ s.full = n.sys.full
      /\ s.refused = n.sys.refused
  BY <1>1 DEF System, Record
<1>3. /\ v \in Record /\ v.live = n.w.live /\ v.size = n.w.size /\ v.fb = n.w.fb
      /\ v.focused = FALSE /\ v.keys = {} /\ v.buttons = n.w.buttons
      /\ v.visible = n.w.visible /\ v.minimized = n.w.minimized
      /\ v.maximized = n.w.maximized /\ v.fullscreen = n.w.fullscreen
  BY <1>1 DEF Record
<1> DEFINE q == [Focused(n, FALSE) EXCEPT !.sys.capture = FALSE,
                                      !.sys.crossed = Underway(n.wire),
                                      !.sys.strayed = @ \cup n.sys.here \cup n.w.buttons]
<1>4. q = [n EXCEPT !.sys = s]
  <2> DEFINE r == [n.sys EXCEPT !.focused = FALSE, !.fresh = {}, !.odd = {}, !.crossed = {}]
             f == [n EXCEPT !.sys = r]
  <2>1. Focused(n, FALSE) = f
    BY DEF Focused
  <2>2. f.sys = r /\ [f EXCEPT !.sys = s] = [n EXCEPT !.sys = s]
    BY DEF State
  <2>3. s = [r EXCEPT !.capture = FALSE, !.crossed = Underway(n.wire),
                      !.strayed = @ \cup n.sys.here \cup n.w.buttons]
    BY <1>1 DEF System
  <2> HIDE DEF f, r, s
  <2>4. q = [f EXCEPT !.sys = [f.sys EXCEPT !.capture = FALSE, !.crossed = Underway(n.wire),
                      !.strayed = @ \cup n.sys.here \cup n.w.buttons]]
    BY <2>1
  <2> QED BY <2>2, <2>3, <2>4
<1>5. m = IF n.w.focused = FALSE THEN [n EXCEPT !.sys = s]
          ELSE [n EXCEPT !.w = v, !.sys = s]
  <2>1. m = EmitFocus(q, FALSE) BY DEF Unfocused
  <2>2. q.w = n.w BY <1>4 DEF State
  <2> HIDE DEF m, s, q
  <2>3. EmitFocus(q, FALSE) = IF q.w.focused = FALSE THEN q ELSE [q EXCEPT !.w = [q.w EXCEPT !.focused = FALSE, !.keys = {}]]
    BY DEF EmitFocus
  <2> QED BY <1>4, <2>1, <2>2, <2>3
<1> HIDE DEF s, v
<1>6. /\ m \in State(M) /\ m.sys = s /\ m.w = IF n.w.focused = FALSE THEN n.w ELSE v
      /\ m.told = n.told /\ m.wire = n.wire /\ m.requests = n.requests
  <2> HIDE DEF m
  <2> QED BY <1>2, <1>3, <1>5 DEF State
<1>7. n.w.focused \in BOOLEAN BY <1>1 DEF Record
<1>8. m.w.focused = FALSE /\ m.w.keys = (IF n.w.focused THEN {} ELSE n.w.keys)
  BY <1>3, <1>6, <1>7
<1>9. /\ m.w.live = n.w.live /\ m.w.size = n.w.size /\ m.w.fb = n.w.fb
      /\ m.w.buttons = n.w.buttons
      /\ m.w.visible = n.w.visible /\ m.w.minimized = n.w.minimized
      /\ m.w.maximized = n.w.maximized /\ m.w.fullscreen = n.w.fullscreen
  BY <1>3, <1>6
<1> QED BY <1>2, <1>6, <1>8, <1>9 DEF SameSizes, SameLooks

\* A message is sent.
LEMMA MessageTold ==
  ASSUME NEW M, NEW n \in State(M), NEW x \in M
  PROVE  LET m == Tell(n, x)
         IN /\ m \in State(M) /\ m.w = n.w /\ m.told = n.told /\ m.sys = n.sys
            /\ m.requests = n.requests /\ m.wire = Append(n.wire, x)
<1> DEFINE t == Append(n.wire, x)
<1>1. t \in Seq(M) BY DEF State
<1>2. Tell(n, x) = [n EXCEPT !.wire = t] BY DEF Tell
<1> HIDE DEF t
<1>3. Tell(n, x) \in State(M) /\ Tell(n, x).wire = t /\ Tell(n, x).w = n.w
      /\ Tell(n, x).told = n.told /\ Tell(n, x).sys = n.sys /\ Tell(n, x).requests = n.requests
  BY <1>1, <1>2 DEF State
<1> QED BY <1>3 DEF t

-----------------------------------------------------------------------------
(* X11: the server and the window manager *)

\* What no resizing touches.
SameUser(s, t) ==
  /\ t.focused = s.focused /\ t.held = s.held /\ t.fresh = s.fresh /\ t.here = s.here
  /\ t.strayed = s.strayed

LEMMA SystemFitted ==
  ASSUME NEW s \in System
  PROVE  LET t == Fitted(s)
         IN /\ t \in System /\ SameUser(s, t) /\ t.shown = s.shown /\ t.mini = s.mini
            /\ t.zoomed = s.zoomed /\ t.full = s.full /\ t.refused = s.refused
            /\ t.size = (IF s.full = "yes" \/ s.zoomed THEN Screen ELSE s.normal)
            /\ t.scale = s.scale /\ t.odd = s.odd /\ t.crossed = s.crossed
            /\ t.capture = s.capture
<1> DEFINE z == IF s.full = "yes" \/ s.zoomed THEN Screen ELSE s.normal
<1>1. z \in Nat BY NativeAssumption DEF System
<1>2. Fitted(s) = [s EXCEPT !.size = z] BY DEF Fitted
<1> HIDE DEF z
<1>3. [s EXCEPT !.size = z] \in System BY <1>1 DEF System
<1>4. QED BY <1>2, <1>3 DEF System, SameUser, z

\* What follows of sizes and buttons when a message of another kind is sent,
\* or none.
Quietly(n, m, K) ==
  \/ m.wire = n.wire
  \/ \E x \in XMessage \ K : m.wire = Append(n.wire, x)

LEMMA LastQuietly ==
  ASSUME NEW n \in State(XMessage), NEW m, NEW K, Quietly(n, m, K)
  PROVE  /\ None(m.wire, K) <=> None(n.wire, K)
         /\ \A i : Last(m.wire, K, i) => Last(n.wire, K, i) /\ m.wire[i] = n.wire[i]
<1> DEFINE s == n.wire
           t == m.wire
<1>0. s \in Seq(XMessage) BY DEF State
<1>1. t = s \/ \E x \in XMessage \ K : t = Append(s, x) BY DEF Quietly
<1> HIDE DEF s, t
<1>2. ASSUME NEW x \in XMessage \ K, t = Append(s, x)
      PROVE  /\ None(t, K) <=> None(s, K)
             /\ \A i : Last(t, K, i) => Last(s, K, i) /\ t[i] = s[i]
  <2>1. x \in XMessage /\ x \notin K OBVIOUS
  <2>2. t = Append(s, x) BY <1>2
  <2>3. None(t, K) <=> None(s, K)
    BY <1>0, <2>1, <2>2, AppendLast, Zenon
  <2>4. \A i : Last(t, K, i) => Last(s, K, i)
    BY <1>0, <2>1, <2>2, AppendLast, Zenon
  <2>5. \A i \in 1..Len(s) : t[i] = s[i]
    BY <1>0, <2>1, <2>2
  <2>6. \A i : Last(s, K, i) => i \in 1..Len(s)
    BY DEF Last
  <2> QED BY <2>3, <2>4, <2>5, <2>6
<1>3. /\ None(t, K) <=> None(s, K)
      /\ \A i : Last(t, K, i) => Last(s, K, i) /\ t[i] = s[i]
  BY <1>1, <1>2
<1> QED BY <1>3 DEF s, t

LEMMA PressedQuietly ==
  ASSUME NEW n \in State(XMessage), NEW m, XPressed(n), Quietly(n, m, PressWord(Button)),
         m.w.buttons \subseteq n.w.buttons,
         n.sys.here \cup n.sys.strayed \subseteq m.sys.here \cup m.sys.strayed
  PROVE  XPressed(m)
<1> SUFFICES ASSUME NEW b \in Button
             PROVE  /\ \A i \in 1..Len(m.wire) :
                         Last(m.wire, PressWord({b}), i) /\ m.wire[i].type = "press"
                           => b \in m.sys.here \cup m.sys.strayed
                    /\ None(m.wire, PressWord({b})) /\ b \in m.w.buttons
                         => b \in m.sys.here \cup m.sys.strayed
  BY DEF XPressed
<1>1. PressWord({b}) \subseteq PressWord(Button) BY DEF PressWord
<1>2. Quietly(n, m, PressWord({b})) BY <1>1 DEF Quietly
<1>3. /\ None(m.wire, PressWord({b})) <=> None(n.wire, PressWord({b}))
      /\ \A i : Last(m.wire, PressWord({b}), i) =>
                  Last(n.wire, PressWord({b}), i) /\ m.wire[i] = n.wire[i]
  BY <1>2, LastQuietly
<1>4. \A i : Last(n.wire, PressWord({b}), i) => i \in 1..Len(n.wire) BY DEF Last
<1> QED BY <1>3, <1>4 DEF XPressed

LEMMA VisibleQuietly ==
  ASSUME NEW n \in State(XMessage), NEW m, XVisible(n),
         Quietly(n, m, Word({"map", "unmap"})),
         m.w.visible = n.w.visible, m.sys.shown = n.sys.shown,
         m.requests = n.requests
  PROVE  XVisible(m)
<1>1. /\ None(m.wire, Word({"map", "unmap"})) <=> None(n.wire, Word({"map", "unmap"}))
      /\ \A i : Last(m.wire, Word({"map", "unmap"}), i) =>
                  Last(n.wire, Word({"map", "unmap"}), i) /\ m.wire[i] = n.wire[i]
  BY LastQuietly
<1>2. \A v : XMeant(n, v) => XMeant(m, v) BY DEF XMeant
<1>3. \A i : Last(n.wire, Word({"map", "unmap"}), i) => i \in 1..Len(n.wire) BY DEF Last
<1>4. ASSUME NEW i \in 1..Len(m.wire), Last(m.wire, Word({"map", "unmap"}), i)
      PROVE  XMeant(m, m.wire[i].type = "map")
  <2>1. Last(n.wire, Word({"map", "unmap"}), i) /\ m.wire[i] = n.wire[i] BY <1>1, <1>4
  <2>2. i \in 1..Len(n.wire) BY <2>1, <1>3
  <2>3. XMeant(n, n.wire[i].type = "map") BY <2>1, <2>2 DEF XVisible
  <2>4. XMeant(n, m.wire[i].type = "map") BY <2>1, <2>3
  <2> QED BY <2>4 DEF XMeant
<1>5. ASSUME None(m.wire, Word({"map", "unmap"})) PROVE XMeant(m, m.w.visible)
  BY <1>1, <1>2, <1>5 DEF XVisible
<1> QED BY <1>4, <1>5 DEF XVisible

LEMMA SizesQuietly ==
  ASSUME NEW n \in State(XMessage), NEW m, XSizes(n), Quietly(n, m, ConfigureWord),
         m.w.fb = n.w.fb, m.told = n.told, m.sys.size = n.sys.size
  PROVE  XSizes(m)
<1>1. /\ None(m.wire, ConfigureWord) <=> None(n.wire, ConfigureWord)
      /\ \A i : Last(m.wire, ConfigureWord, i) =>
                  Last(n.wire, ConfigureWord, i) /\ m.wire[i] = n.wire[i]
  BY LastQuietly
<1>2. \A i : Last(n.wire, ConfigureWord, i) => i \in 1..Len(n.wire) BY DEF Last
<1> QED BY <1>1, <1>2 DEF XSizes

LEMMA StatesQuietly ==
  ASSUME NEW n \in State(XMessage), NEW m, XStates(n), Quietly(n, m, Word({"property"})),
         m.w.fullscreen = n.w.fullscreen, m.w.minimized = n.w.minimized,
         m.w.maximized = n.w.maximized, m.sys.full = n.sys.full, m.sys.mini = n.sys.mini,
         m.sys.zoomed = n.sys.zoomed, m.sys.refused = n.sys.refused \/ m.sys.refused,
         m.requests = n.requests
  PROVE  XStates(m)
<1>1. None(m.wire, Word({"property"})) <=> None(n.wire, Word({"property"}))
  BY LastQuietly
<1> QED BY <1>1 DEF XStates

\* Both sizes' clauses survive a resizing that is announced.
LEMMA SizedKeeps ==
  ASSUME NEW n \in State(XMessage), NEW s \in System, XCore(n), SameUser(n.sys, s),
         s.full \in {"yes", "no"}
  PROVE  LET m == XSized(n, s)
         IN /\ m \in State(XMessage) /\ XCore(m)
            /\ m.w = n.w /\ m.told = n.told /\ m.requests = n.requests
            /\ m.sys = Fitted(s)
            /\ Quietly(n, m, XMessage \ ConfigureWord)
            /\ m.wire = n.wire => m.sys.size = n.sys.size
            /\ m.wire # n.wire => ~None(m.wire, ConfigureWord)
            /\ XAgreed(n) => XAgreed(m)
<1> DEFINE m == XSized(n, s)
           f == Fitted(s)
           x == [type |-> "configure", size |-> f.size]
           p == [n EXCEPT !.sys = f]
<1>1. /\ f \in System /\ SameUser(s, f) /\ f.full = s.full
  BY SystemFitted
<1>2. p \in State(XMessage) /\ p.w = n.w /\ p.told = n.told /\ p.sys = f
      /\ p.wire = n.wire /\ p.requests = n.requests
  BY <1>1 DEF State
<1>3. x \in ConfigureWord /\ x \in XMessage /\ x.size = f.size
  BY <1>1 DEF ConfigureWord, XMessage, System
<1>4. n.wire \in Seq(XMessage)
  BY DEF State
<1>5. SameUser(n.sys, f)
  BY <1>1 DEF SameUser
<1>6. CASE f.size = n.sys.size
  <2>1. m = p
    BY <1>6 DEF XSized
  <2>2. Quietly(n, m, XMessage \ ConfigureWord) /\ Quietly(n, m, ConfigureWord)
        /\ Quietly(n, m, PressWord(Button))
    BY <2>1, <1>2 DEF Quietly
  <2> HIDE DEF m, p, f
  <2>3. XSizes(m)
    BY <1>2, <1>6, <2>1, <2>2, SizesQuietly DEF XCore
  <2>4. XPressed(m)
    BY <1>2, <1>5, <2>1, <2>2, PressedQuietly DEF XCore, SameUser
  <2>5. NoKeyboard(m)
    BY <1>2, <1>5, <2>1 DEF XCore, NoKeyboard, SameUser
  <2>6. XCore(m)
    BY <1>1, <1>2, <2>1, <2>3, <2>4, <2>5 DEF XCore
  <2>7. XAgreed(n) => XAgreed(m)
    BY <1>2, <1>6, <2>1 DEF XAgreed
  <2>8. /\ m \in State(XMessage) /\ m.w = n.w /\ m.told = n.told
        /\ m.requests = n.requests /\ m.sys = f /\ m.wire = n.wire
    BY <1>2, <2>1
  <2> QED BY <1>6, <2>2, <2>6, <2>7, <2>8 DEF m, f
<1>7. CASE f.size # n.sys.size
  <2>1. m = Tell(p, x)
    BY <1>7 DEF XSized
  <2> HIDE DEF p, x, f
  <2>2. /\ m \in State(XMessage) /\ m.w = n.w /\ m.told = n.told /\ m.sys = f
        /\ m.requests = n.requests /\ m.wire = Append(n.wire, x)
    BY <1>2, <1>3, <2>1, MessageTold
  <2> HIDE DEF m
  <2>3. /\ Len(m.wire) = Len(n.wire) + 1 /\ m.wire[Len(n.wire) + 1] = x
        /\ ~None(m.wire, ConfigureWord)
        /\ \A i : Last(m.wire, ConfigureWord, i) => i = Len(n.wire) + 1
    <3>1. Len(m.wire) = Len(n.wire) + 1 /\ m.wire[Len(n.wire) + 1] = x
      BY <1>3, <1>4, <2>2
    <3> QED BY <1>3, <1>4, <2>2, <3>1, LastAppended
  <2>4. m.wire # n.wire
    BY <1>4, <2>3
  <2>5. XSizes(m)
    BY <1>3, <2>2, <2>3 DEF XSizes, XCore
  <2>6. x \notin PressWord(Button)
    BY <1>3 DEF PressWord, ConfigureWord
  <2>7. Quietly(n, m, PressWord(Button)) /\ Quietly(n, m, XMessage \ ConfigureWord)
    BY <1>3, <2>2, <2>6 DEF Quietly
  <2>8. XPressed(m)
    BY <1>5, <2>2, <2>7, PressedQuietly DEF XCore, SameUser
  <2>9. NoKeyboard(m)
    BY <1>5, <2>2 DEF XCore, NoKeyboard, SameUser
  <2>10. XCore(m)
    BY <1>1, <2>2, <2>5, <2>8, <2>9 DEF XCore
  <2>11. XAgreed(m)
    BY <2>3 DEF XAgreed
  <2> QED BY <2>2, <2>3, <2>4, <2>7, <2>10, <2>11 DEF m, f
<1> QED BY <1>6, <1>7

\* After a PropertyNotify the states are read when it arrives.
LEMMA PropertyKeeps ==
  ASSUME NEW n \in State(XMessage), XCore(n)
  PROVE  LET m == XProperty(n)
         IN /\ m \in State(XMessage) /\ XCore(m) /\ XStates(m)
            /\ m.w = n.w /\ m.told = n.told /\ m.requests = n.requests
            /\ m.sys = n.sys
            /\ XAgreed(n) => XAgreed(m)
            /\ XVisible(n) => XVisible(m)
            /\ ~None(n.wire, ConfigureWord) => ~None(m.wire, ConfigureWord)
<1> DEFINE m == XProperty(n)
           x == [type |-> "property"]
<1>1. /\ x \in XMessage /\ x \in Word({"property"})
      /\ x \notin Word({"map", "unmap"}) /\ x \notin ConfigureWord
      /\ x \notin PressWord(Button)
  BY DEF XMessage, Word, ConfigureWord, PressWord
<1>2. /\ m \in State(XMessage) /\ m.w = n.w /\ m.told = n.told /\ m.sys = n.sys
      /\ m.requests = n.requests /\ m.wire = Append(n.wire, x)
  BY <1>1, MessageTold DEF XProperty
<1>3. n.wire \in Seq(XMessage)
  BY DEF State
<1> HIDE DEF m, x
<1>4. /\ Quietly(n, m, Word({"map", "unmap"})) /\ Quietly(n, m, ConfigureWord)
      /\ Quietly(n, m, PressWord(Button))
  BY <1>1, <1>2 DEF Quietly
<1>5. ~None(m.wire, Word({"property"}))
  BY <1>1, <1>2, <1>3, LastAppended
<1>6. XSizes(m)
  BY <1>2, <1>4, SizesQuietly DEF XCore
<1>7. XPressed(m)
  BY <1>2, <1>4, PressedQuietly DEF XCore
<1>8. XCore(m)
  BY <1>2, <1>6, <1>7 DEF XCore, NoKeyboard
<1>9. XStates(m)
  BY <1>5 DEF XStates
<1>10. None(m.wire, ConfigureWord) <=> None(n.wire, ConfigureWord)
  BY <1>4, LastQuietly
<1>11. XAgreed(n) => XAgreed(m)
  BY <1>2, <1>10 DEF XAgreed
<1>12. XVisible(n) => XVisible(m)
  BY <1>2, <1>4, VisibleQuietly
<1> QED BY <1>2, <1>8, <1>9, <1>10, <1>11, <1>12 DEF m

\* Mapping and unmapping are announced.
LEMMA MappedKeeps ==
  ASSUME NEW n \in State(XMessage), NEW shown \in BOOLEAN, XCore(n)
  PROVE  LET m == XMapped(n, shown)
         IN /\ m \in State(XMessage) /\ XCore(m)
            /\ m.w = n.w /\ m.told = n.told /\ m.requests = n.requests
            /\ m.sys.shown = shown
            /\ m.sys.mini = n.sys.mini /\ m.sys.full = n.sys.full
            /\ m.sys.zoomed = n.sys.zoomed /\ m.sys.refused = n.sys.refused
            /\ m.sys.size = n.sys.size
            /\ Quietly(n, m, XMessage \ Word({"map", "unmap"}))
            /\ m.wire = n.wire => n.sys.shown = shown
            /\ m.wire # n.wire => XVisible(m)
            /\ XAgreed(n) => XAgreed(m)
            /\ XStates(n) => XStates(m)
<1> DEFINE m == XMapped(n, shown)
           s == [n.sys EXCEPT !.shown = shown,
                              !.strayed = IF shown THEN @ ELSE @ \cup n.sys.here,
                              !.here = IF shown THEN @ ELSE {}]
           p == [n EXCEPT !.sys = s]
           x == [type |-> IF shown THEN "map" ELSE "unmap"]
<1>0. n.sys \in System /\ n.wire \in Seq(XMessage)
  BY DEF State
<1>1. /\ s \in System /\ s.shown = shown /\ s.mini = n.sys.mini /\ s.full = n.sys.full
      /\ s.zoomed = n.sys.zoomed /\ s.refused = n.sys.refused /\ s.size = n.sys.size
      /\ s.focused = n.sys.focused /\ s.fresh = n.sys.fresh
      /\ n.sys.here \cup n.sys.strayed \subseteq s.here \cup s.strayed
  BY <1>0 DEF System
<1>2. p \in State(XMessage) /\ p.w = n.w /\ p.told = n.told /\ p.sys = s
      /\ p.wire = n.wire /\ p.requests = n.requests
  <2> HIDE DEF s
  <2> QED BY <1>1 DEF State
<1>3. /\ x \in XMessage /\ x \in Word({"map", "unmap"})
      /\ x \notin Word({"property"}) /\ x \notin ConfigureWord
      /\ x \notin PressWord(Button) /\ (x.type = "map") = shown
  BY DEF XMessage, Word, ConfigureWord, PressWord
<1>4. CASE n.sys.shown = shown
  <2>1. m = n
    BY <1>4 DEF XMapped
  <2>2. Quietly(n, m, XMessage \ Word({"map", "unmap"}))
    BY <2>1 DEF Quietly
  <2> QED BY <1>4, <2>1, <2>2
<1>5. CASE n.sys.shown # shown
  <2>1. m = Tell(p, x)
    <3> HIDE DEF x
    <3>1. [n EXCEPT !.sys.shown = shown,
                    !.sys.strayed = IF shown THEN @ ELSE @ \cup n.sys.here,
                    !.sys.here = IF shown THEN @ ELSE {}] = p
      OBVIOUS
    <3> QED BY <1>5, <3>1 DEF XMapped, x
  <2> HIDE DEF p, x, s
  <2>2. /\ m \in State(XMessage) /\ m.w = n.w /\ m.told = n.told /\ m.sys = s
        /\ m.requests = n.requests /\ m.wire = Append(n.wire, x)
    BY <1>2, <1>3, <2>1, MessageTold
  <2> HIDE DEF m
  <2>3. /\ Quietly(n, m, ConfigureWord) /\ Quietly(n, m, Word({"property"}))
        /\ Quietly(n, m, PressWord(Button))
        /\ Quietly(n, m, XMessage \ Word({"map", "unmap"}))
    BY <1>3, <2>2 DEF Quietly
  <2>4. XSizes(m)
    BY <1>1, <2>2, <2>3, SizesQuietly DEF XCore
  <2>5. XPressed(m)
    BY <1>1, <2>2, <2>3, PressedQuietly DEF XCore
  <2>6. XCore(m)
    BY <1>1, <2>2, <2>4, <2>5 DEF XCore, NoKeyboard
  <2>7. XStates(n) => XStates(m)
    BY <1>1, <2>2, <2>3, StatesQuietly
  <2>8. None(m.wire, ConfigureWord) <=> None(n.wire, ConfigureWord)
    BY <2>3, LastQuietly
  <2>9. XAgreed(n) => XAgreed(m)
    BY <1>1, <2>2, <2>8 DEF XAgreed
  <2>10. /\ m.wire[Len(n.wire) + 1] = x
         /\ ~None(m.wire, Word({"map", "unmap"}))
         /\ \A i : Last(m.wire, Word({"map", "unmap"}), i) => i = Len(n.wire) + 1
    <3>1. m.wire[Len(n.wire) + 1] = x
      BY <1>0, <1>3, <2>2
    <3> QED BY <1>0, <1>3, <2>2, <3>1, LastAppended
  <2>11. XVisible(m)
    <3>1. XMeant(m, shown)
      BY <1>1, <2>2 DEF XMeant
    <3>2. ASSUME NEW i \in 1..Len(m.wire), Last(m.wire, Word({"map", "unmap"}), i)
          PROVE  XMeant(m, m.wire[i].type = "map")
      <4>1. (m.wire[i].type = "map") = shown
        BY <1>3, <2>10, <3>2
      <4> QED BY <3>1, <4>1
    <3> QED BY <2>10, <3>2 DEF XVisible
  <2> QED BY <1>1, <1>5, <2>2, <2>3, <2>6, <2>7, <2>9, <2>11 DEF m
<1>6. n.sys.shown \in BOOLEAN
  BY <1>0 DEF System
<1> QED BY <1>4, <1>5

LEMMA TailNone ==
  ASSUME NEW M, NEW s \in Seq(M), s # << >>, NEW K, Head(s) \notin K, None(Tail(s), K)
  PROVE  None(s, K)
<1>1. Head(s) = s[1] BY TailLast
<1>2. ~Last(s, K, 1) BY <1>1 DEF Last
<1> QED BY <1>2, TailLast

\* A request on its way to the window manager.
Taken(n) == [n EXCEPT !.requests = Tail(@)]

LEMMA RequestTaken ==
  ASSUME NEW n \in State(XMessage), XInv(n), n.requests # << >>
  PROVE  LET m == Taken(n)
             r == Head(n.requests)
         IN /\ m \in State(XMessage) /\ r \in Request /\ XCore(m)
            /\ m.w = n.w /\ m.told = n.told /\ m.sys = n.sys /\ m.wire = n.wire
            /\ r.op # "configure" => XAgreed(m)
            /\ r.op # "fullscreen" => XStates(m)
            /\ r.op = "fullscreen" =>
                 (None(m.wire, Word({"property"})) =>
                    m.w.minimized = m.sys.mini /\ m.w.maximized = m.sys.zoomed)
            /\ r.op # "map" \/ r.on = m.sys.shown => XVisible(m)
<1> DEFINE m == Taken(n)
           q == n.requests
           r == Head(q)
<1>1. /\ q \in Seq(Request) /\ q # << >>
  BY DEF State
<1> HIDE DEF q
<1>2. Tail(q) \in Seq(Request) /\ r \in Request
  BY <1>1, TailLast
<1>3. /\ m \in State(XMessage) /\ m.w = n.w /\ m.told = n.told /\ m.sys = n.sys
      /\ m.wire = n.wire /\ m.requests = Tail(q)
  BY <1>2 DEF Taken, State, q
<1> HIDE DEF m
<1>4. /\ \A op : r.op # op => r \notin Asks(op)
      /\ \A v : r.op # "map" \/ r.on # v => r \notin AsksMap(v)
  BY DEF Asks, AsksMap
<1> HIDE DEF r
<1>5. \A K : r \notin K /\ None(Tail(q), K) => None(q, K)
  BY <1>1, TailNone DEF r
<1>6. XCore(m)
  BY <1>3 DEF XInv, XCore, XSizes, XPressed, NoKeyboard
<1>7. ASSUME r.op # "configure" PROVE XAgreed(m)
  <2>1. None(m.requests, Asks("configure")) => None(n.requests, Asks("configure"))
    BY <1>3, <1>4, <1>5, <1>7 DEF q
  <2> QED BY <1>3, <2>1 DEF XInv, XAgreed
<1>8. ASSUME r.op # "fullscreen" PROVE XStates(m)
  <2>1. None(m.requests, Asks("fullscreen")) => None(n.requests, Asks("fullscreen"))
    BY <1>3, <1>4, <1>5, <1>8 DEF q
  <2> QED BY <1>3, <2>1 DEF XInv, XStates
<1>9. None(m.wire, Word({"property"})) =>
        m.w.minimized = m.sys.mini /\ m.w.maximized = m.sys.zoomed
  BY <1>3 DEF XInv, XStates
<1>10. ASSUME r.op # "map" \/ r.on = m.sys.shown PROVE XVisible(m)
  <2>1. ASSUME NEW v, XMeant(n, v) PROVE XMeant(m, v)
    <3>1. CASE v = n.sys.shown
      BY <1>3, <3>1 DEF XMeant
    <3>2. CASE v # n.sys.shown
      <4>1. ~None(q, AsksMap(v))
        BY <2>1, <3>2 DEF XMeant, q
      <4>2. r \notin AsksMap(v)
        BY <1>3, <1>4, <1>10, <3>2
      <4>3. ~None(m.requests, AsksMap(v))
        BY <1>3, <1>5, <4>1, <4>2
      <4> QED BY <4>3 DEF XMeant
    <3> QED BY <3>1, <3>2
  <2>2. XVisible(n)
    BY DEF XInv
  <2>3. ASSUME NEW i \in 1..Len(m.wire), Last(m.wire, Word({"map", "unmap"}), i)
        PROVE  XMeant(m, m.wire[i].type = "map")
    <3>1. XMeant(n, n.wire[i].type = "map")
      BY <1>3, <2>2, <2>3 DEF XVisible
    <3> QED BY <1>3, <2>1, <3>1
  <2>4. ASSUME None(m.wire, Word({"map", "unmap"})) PROVE XMeant(m, m.w.visible)
    BY <1>3, <2>1, <2>2, <2>4 DEF XVisible
  <2> QED BY <2>3, <2>4 DEF XVisible
<1> QED BY <1>2, <1>3, <1>6, <1>7, <1>8, <1>9, <1>10 DEF m, r, q

\* A field of the system's side is set that no size, button or key depends on.
LEMMA CoreOf ==
  ASSUME NEW n \in State(XMessage), XCore(n), NEW s \in System, SameUser(n.sys, s),
         s.size = n.sys.size, s.full \in {"yes", "no"}
  PROVE  LET m == [n EXCEPT !.sys = s]
         IN /\ m \in State(XMessage) /\ XCore(m) /\ m.w = n.w /\ m.told = n.told
            /\ m.sys = s /\ m.wire = n.wire /\ m.requests = n.requests
            /\ XAgreed(n) => XAgreed(m)
            /\ XVisible(n) /\ s.shown = n.sys.shown => XVisible(m)
<1> DEFINE m == [n EXCEPT !.sys = s]
<1>1. /\ m \in State(XMessage) /\ m.w = n.w /\ m.told = n.told
      /\ m.sys = s /\ m.wire = n.wire /\ m.requests = n.requests
  BY DEF State
<1> HIDE DEF m
<1>2. XCore(m)
  BY <1>1 DEF XCore, XSizes, XPressed, NoKeyboard, SameUser
<1>3. XAgreed(n) => XAgreed(m)
  BY <1>1 DEF XAgreed
<1>4. XVisible(n) /\ s.shown = n.sys.shown => XVisible(m)
  <2>1. Quietly(n, m, Word({"map", "unmap"}))
    BY <1>1 DEF Quietly
  <2> QED BY <1>1, <2>1, VisibleQuietly
<1> QED BY <1>1, <1>2, <1>3, <1>4 DEF m

LEMMA KindsDiffer ==
  /\ ConfigureWord \cap Word({"property"}) = {}
  /\ ConfigureWord \cap Word({"map", "unmap"}) = {}
  /\ ConfigureWord \cap PressWord(Button) = {}
  /\ Word({"map", "unmap"}) \cap Word({"property"}) = {}
  /\ Word({"map", "unmap"}) \cap PressWord(Button) = {}
  /\ Word({"property"}) \cap PressWord(Button) = {}
BY DEF Word, ConfigureWord, PressWord

LEMMA QuietlyOther ==
  ASSUME NEW n, NEW m, NEW A, NEW B, A \cap B = {}, Quietly(n, m, XMessage \ A)
  PROVE  Quietly(n, m, B)
BY DEF Quietly

LEMMA SizedLooks ==
  ASSUME NEW n \in State(XMessage), NEW s \in System, XCore(n), SameUser(n.sys, s),
         s.full \in {"yes", "no"}
  PROVE  LET m == XSized(n, s)
         IN /\ XVisible(n) /\ s.shown = n.sys.shown => XVisible(m)
            /\ /\ XStates(n) /\ s.mini = n.sys.mini /\ s.zoomed = n.sys.zoomed
               /\ s.full = n.sys.full /\ s.refused = n.sys.refused
               => XStates(m)
            /\ m.sys.shown = s.shown /\ m.sys.mini = s.mini /\ m.sys.full = s.full
            /\ SameUser(n.sys, m.sys)
<1> DEFINE m == XSized(n, s)
<1>1. /\ m.w = n.w /\ m.requests = n.requests /\ m.sys = Fitted(s)
      /\ Quietly(n, m, XMessage \ ConfigureWord)
  BY SizedKeeps
<1>2. /\ m.sys.shown = s.shown /\ m.sys.mini = s.mini /\ m.sys.full = s.full
      /\ m.sys.zoomed = s.zoomed /\ m.sys.refused = s.refused /\ SameUser(s, m.sys)
  BY <1>1, SystemFitted
<1> HIDE DEF m
<1>3. Quietly(n, m, Word({"map", "unmap"})) /\ Quietly(n, m, Word({"property"}))
  BY <1>1, KindsDiffer, QuietlyOther
<1>4. XVisible(n) /\ s.shown = n.sys.shown => XVisible(m)
  BY <1>1, <1>2, <1>3, VisibleQuietly
<1>5. ASSUME XStates(n), s.mini = n.sys.mini, s.zoomed = n.sys.zoomed,
             s.full = n.sys.full, s.refused = n.sys.refused
      PROVE  XStates(m)
  BY <1>1, <1>2, <1>3, <1>5, StatesQuietly
<1>6. SameUser(n.sys, m.sys)
  BY <1>2 DEF SameUser
<1> QED BY <1>2, <1>4, <1>5, <1>6 DEF m

LEMMA SizeTold ==
  ASSUME NEW n \in State(XMessage), XCore(n), XStates(n), XVisible(n)
  PROVE  LET m == Tell(n, [type |-> "configure", size |-> n.sys.size])
         IN m \in State(XMessage) /\ XInv(m) /\ m.w = n.w
<1> DEFINE x == [type |-> "configure", size |-> n.sys.size]
           m == Tell(n, x)
<1>0. n.wire \in Seq(XMessage) /\ n.sys \in System
  BY DEF State
<1>1. x \in ConfigureWord /\ x \in XMessage /\ x.size = n.sys.size
  BY <1>0 DEF ConfigureWord, XMessage, System
<1> HIDE DEF x
<1>2. /\ m \in State(XMessage) /\ m.w = n.w /\ m.told = n.told /\ m.sys = n.sys
      /\ m.requests = n.requests /\ m.wire = Append(n.wire, x)
  BY <1>1, MessageTold
<1> HIDE DEF m
<1>3. Quietly(n, m, XMessage \ ConfigureWord)
  BY <1>1, <1>2 DEF Quietly
<1>4. /\ Quietly(n, m, Word({"map", "unmap"})) /\ Quietly(n, m, Word({"property"}))
      /\ Quietly(n, m, PressWord(Button))
  BY <1>3, KindsDiffer, QuietlyOther
<1>5. /\ ~None(m.wire, ConfigureWord)
      /\ \A i : Last(m.wire, ConfigureWord, i) => i = Len(n.wire) + 1
  BY <1>0, <1>1, <1>2, LastAppended
<1>6. m.wire[Len(n.wire) + 1] = x
  BY <1>0, <1>1, <1>2
<1>7. XSizes(m)
  BY <1>1, <1>2, <1>5, <1>6 DEF XSizes, XCore
<1>8. XPressed(m)
  BY <1>2, <1>4, PressedQuietly DEF XCore
<1>9. XCore(m)
  BY <1>2, <1>7, <1>8 DEF XCore, NoKeyboard
<1>10. XAgreed(m)
  BY <1>5 DEF XAgreed
<1>11. XStates(m)
  BY <1>2, <1>4, StatesQuietly
<1>12. XVisible(m)
  BY <1>2, <1>4, VisibleQuietly
<1> QED BY <1>2, <1>9, <1>10, <1>11, <1>12 DEF XInv, m, x

LEMMA ObeysConfigure ==
  ASSUME NEW n \in State(XMessage), XInv(n), n.requests # << >>, NEW obey \in BOOLEAN,
         Head(n.requests).op = "configure"
  PROVE  LET m == XObeys(Taken(n), Head(n.requests), obey)
         IN m \in State(XMessage) /\ XInv(m) /\ m.w = n.w
<1> DEFINE t == Taken(n)
           r == Head(n.requests)
           s == [t.sys EXCEPT !.normal = r.size]
           z == XSized(t, s)
           m == XObeys(t, r, obey)
<1>1. /\ t \in State(XMessage) /\ r \in Request /\ XCore(t) /\ t.w = n.w
      /\ XStates(t) /\ XVisible(t)
  BY RequestTaken
<1>2. t.sys \in System /\ r.size \in Nat
  BY <1>1 DEF State, Request
<1>3. /\ s \in System /\ SameUser(t.sys, s) /\ s.shown = t.sys.shown
      /\ s.mini = t.sys.mini /\ s.zoomed = t.sys.zoomed /\ s.full = t.sys.full
      /\ s.refused = t.sys.refused
  BY <1>2 DEF System, SameUser
<1>4. s.full \in {"yes", "no"}
  BY <1>1, <1>3 DEF XCore
<1> HIDE DEF t, r, s
<1>5. /\ z \in State(XMessage) /\ XCore(z) /\ z.w = t.w
      /\ (z.wire # t.wire => ~None(z.wire, ConfigureWord))
  BY <1>1, <1>3, <1>4, SizedKeeps
<1>6. XVisible(z) /\ XStates(z)
  BY <1>1, <1>3, <1>4, SizedLooks
<1>7. m = IF ~obey THEN Tell(t, [type |-> "configure", size |-> t.sys.size])
          ELSE IF z.wire = t.wire
               THEN Tell(z, [type |-> "configure", size |-> z.sys.size]) ELSE z
  BY DEF XObeys, r, s
<1> HIDE DEF z, m
<1>8. CASE ~obey
  BY <1>1, <1>7, <1>8, SizeTold DEF m, t, r
<1>9. CASE obey /\ z.wire = t.wire
  BY <1>1, <1>5, <1>6, <1>7, <1>9, SizeTold DEF m, t, r
<1>10. CASE obey /\ z.wire # t.wire
  <2>1. XAgreed(z)
    BY <1>5, <1>10 DEF XAgreed
  <2> QED BY <1>1, <1>5, <1>6, <1>7, <1>10, <2>1 DEF XInv, m, t, r
<1> QED BY <1>8, <1>9, <1>10

LEMMA ObeysMap ==
  ASSUME NEW n \in State(XMessage), XInv(n), n.requests # << >>, NEW obey \in BOOLEAN,
         Head(n.requests).op = "map", Head(n.requests).on
  PROVE  LET m == XObeys(Taken(n), Head(n.requests), obey)
         IN m \in State(XMessage) /\ XInv(m) /\ m.w = n.w
<1> DEFINE t == Taken(n)
           r == Head(n.requests)
           z == XMapped(t, TRUE)
           s == [z.sys EXCEPT !.mini = FALSE]
           y == [z EXCEPT !.sys = s]
           m == XObeys(t, r, obey)
<1>1. /\ t \in State(XMessage) /\ r \in Request /\ XCore(t) /\ t.w = n.w
      /\ XStates(t) /\ XAgreed(t) /\ (r.on = t.sys.shown => XVisible(t))
  BY RequestTaken
<1>2. r.on = TRUE
  BY <1>1 DEF Request
<1>3. m = IF t.sys.mini THEN XProperty(y) ELSE z
  BY <1>2 DEF XObeys
<1> HIDE DEF t, r
<1>4. /\ z \in State(XMessage) /\ XCore(z) /\ z.w = t.w /\ z.sys.shown = TRUE
      /\ (z.wire = t.wire => t.sys.shown = TRUE) /\ (z.wire # t.wire => XVisible(z))
      /\ XAgreed(z) /\ XStates(z) /\ z.requests = t.requests
  BY <1>1, MappedKeeps, ZenonT(60)
<1>5. XVisible(z)
  <2>1. CASE z.wire = t.wire
    <3>1. XVisible(t) /\ t.sys.shown = z.sys.shown
      BY <1>1, <1>2, <1>4, <2>1
    <3>2. Quietly(t, z, Word({"map", "unmap"}))
      BY <2>1 DEF Quietly
    <3> QED BY <1>1, <1>4, <3>1, <3>2, VisibleQuietly
  <2> QED BY <1>4, <2>1
<1> HIDE DEF z, m
<1>6. z.sys \in System
  BY <1>4 DEF State
<1>7. /\ s \in System /\ SameUser(z.sys, s) /\ s.size = z.sys.size
      /\ s.shown = z.sys.shown /\ s.full = z.sys.full
  BY <1>6 DEF System, SameUser
<1>8. s.full \in {"yes", "no"}
  BY <1>4, <1>7 DEF XCore
<1> HIDE DEF s
<1>9. y \in State(XMessage) /\ XCore(y) /\ y.w = z.w /\ XAgreed(y) /\ XVisible(y)
  BY <1>4, <1>5, <1>7, <1>8, CoreOf
<1> HIDE DEF y
<1>10. CASE t.sys.mini
  BY <1>1, <1>3, <1>4, <1>9, <1>10, PropertyKeeps DEF XInv, m, t, r
<1>11. CASE ~t.sys.mini
  BY <1>1, <1>3, <1>4, <1>5, <1>11 DEF XInv, m, t, r
<1> QED BY <1>10, <1>11

LEMMA ObeysUnmap ==
  ASSUME NEW n \in State(XMessage), XInv(n), n.requests # << >>, NEW obey \in BOOLEAN,
         Head(n.requests).op = "map", ~Head(n.requests).on
  PROVE  LET m == XObeys(Taken(n), Head(n.requests), obey)
         IN m \in State(XMessage) /\ XInv(m) /\ m.w = n.w
<1> DEFINE t == Taken(n)
           r == Head(n.requests)
           z == XMapped(t, FALSE)
           s == [z.sys EXCEPT !.mini = FALSE, !.zoomed = FALSE, !.full = "no",
                              !.refused = FALSE]
           y == XSized(z, s)
           m == XObeys(t, r, obey)
<1>1. /\ t \in State(XMessage) /\ r \in Request /\ XCore(t) /\ t.w = n.w
      /\ XStates(t) /\ XAgreed(t) /\ (r.on = t.sys.shown => XVisible(t))
  BY RequestTaken
<1>2. r.on = FALSE
  BY <1>1 DEF Request
<1>3. m = IF ~XManaged(t.sys) THEN z ELSE XProperty(y)
  BY <1>2 DEF XObeys
<1> HIDE DEF t, r
<1>4. /\ z \in State(XMessage) /\ XCore(z) /\ z.w = t.w /\ z.sys.shown = FALSE
      /\ (z.wire = t.wire => t.sys.shown = FALSE) /\ (z.wire # t.wire => XVisible(z))
      /\ XAgreed(z) /\ XStates(z) /\ z.requests = t.requests
  BY <1>1, MappedKeeps
<1>5. XVisible(z)
  <2>1. CASE z.wire = t.wire
    <3>1. XVisible(t) /\ t.sys.shown = z.sys.shown
      BY <1>1, <1>2, <1>4, <2>1
    <3>2. Quietly(t, z, Word({"map", "unmap"}))
      BY <2>1 DEF Quietly
    <3> QED BY <1>1, <1>4, <3>1, <3>2, VisibleQuietly
  <2> QED BY <1>4, <2>1
<1> HIDE DEF z, m
<1>6. z.sys \in System
  BY <1>4 DEF State
<1>7. /\ s \in System /\ SameUser(z.sys, s)
      /\ s.shown = z.sys.shown /\ s.full \in {"yes", "no"}
  BY <1>6 DEF System, SameUser
<1> HIDE DEF s
<1>8. /\ y \in State(XMessage) /\ XCore(y) /\ y.w = z.w /\ XAgreed(y)
  BY <1>4, <1>7, SizedKeeps
<1>9. XVisible(y)
  BY <1>4, <1>5, <1>7, SizedLooks
<1> HIDE DEF y
<1>10. CASE ~XManaged(t.sys)
  BY <1>1, <1>3, <1>4, <1>5, <1>10 DEF XInv, m, t, r
<1>11. CASE XManaged(t.sys)
  BY <1>1, <1>3, <1>4, <1>8, <1>9, <1>11, PropertyKeeps DEF XInv, m, t, r
<1> QED BY <1>10, <1>11

LEMMA Iconified ==
  ASSUME NEW n \in State(XMessage), XCore(n), XAgreed(n), n.sys.shown
  PROVE  LET m == XProperty([XMapped(n, FALSE) EXCEPT !.sys.mini = TRUE])
         IN m \in State(XMessage) /\ XInv(m) /\ m.w = n.w
<1> DEFINE z == XMapped(n, FALSE)
           s == [z.sys EXCEPT !.mini = TRUE]
           y == [z EXCEPT !.sys = s]
<1>1. /\ z \in State(XMessage) /\ XCore(z) /\ z.w = n.w
      /\ (z.wire = n.wire => n.sys.shown = FALSE) /\ (z.wire # n.wire => XVisible(z))
      /\ XAgreed(z)
  BY MappedKeeps
<1>2. XVisible(z)
  BY <1>1
<1>3. [z EXCEPT !.sys.mini = TRUE] = y
  OBVIOUS
<1> HIDE DEF z
<1>4. z.sys \in System
  BY <1>1 DEF State
<1>5. /\ s \in System /\ SameUser(z.sys, s) /\ s.size = z.sys.size
      /\ s.shown = z.sys.shown /\ s.full = z.sys.full
  BY <1>4 DEF System, SameUser
<1>6. s.full \in {"yes", "no"}
  BY <1>1, <1>5 DEF XCore
<1> HIDE DEF s
<1>7. y \in State(XMessage) /\ XCore(y) /\ y.w = z.w /\ XAgreed(y) /\ XVisible(y)
  BY <1>1, <1>2, <1>5, <1>6, CoreOf
<1> HIDE DEF y
<1> QED BY <1>1, <1>3, <1>7, PropertyKeeps DEF XInv, z

\* The window manager gives the window another state.
LEMMA Restated ==
  ASSUME NEW n \in State(XMessage), XCore(n), XAgreed(n), XVisible(n),
         NEW s \in System, SameUser(n.sys, s), s.shown = n.sys.shown,
         s.full \in {"yes", "no"}
  PROVE  LET m == XProperty(XSized(n, s))
         IN m \in State(XMessage) /\ XInv(m) /\ m.w = n.w
<1> DEFINE y == XSized(n, s)
<1>1. y \in State(XMessage) /\ XCore(y) /\ y.w = n.w /\ XAgreed(y)
  BY SizedKeeps
<1>2. XVisible(y)
  BY SizedLooks
<1> HIDE DEF y
<1> QED BY <1>1, <1>2, PropertyKeeps DEF XInv, y

LEMMA ObeysStates ==
  ASSUME NEW n \in State(XMessage), XInv(n), n.requests # << >>, NEW obey \in BOOLEAN,
         Head(n.requests).op \in {"iconify", "fullscreen", "maximize"}
  PROVE  LET m == XObeys(Taken(n), Head(n.requests), obey)
         IN m \in State(XMessage) /\ XInv(m) /\ m.w = n.w
<1> DEFINE t == Taken(n)
           r == Head(n.requests)
           m == XObeys(t, r, obey)
<1>1. /\ t \in State(XMessage) /\ r \in Request /\ XCore(t) /\ t.w = n.w
      /\ XAgreed(t) /\ XVisible(t)
      /\ (r.op # "fullscreen" => XStates(t))
      /\ (r.op = "fullscreen" =>
            (None(t.wire, Word({"property"})) =>
               t.w.minimized = t.sys.mini /\ t.w.maximized = t.sys.zoomed))
  BY RequestTaken
<1>2. t.sys \in System /\ r.on \in BOOLEAN
  BY <1>1 DEF State, Request
<1>3. CASE r.op = "iconify"
  <2>1. m = IF t.sys.shown THEN XProperty([XMapped(t, FALSE) EXCEPT !.sys.mini = TRUE])
            ELSE t
    BY <1>3 DEF XObeys
  <2> HIDE DEF m, t, r
  <2> QED BY <1>1, <1>3, <2>1, Iconified DEF XInv, m, t, r
<1>4. CASE r.op = "fullscreen"
  <2> DEFINE s == [t.sys EXCEPT !.full = IF r.on THEN "yes" ELSE "no", !.refused = FALSE]
             q == [t.sys EXCEPT !.refused = TRUE]
             y == [t EXCEPT !.sys = q]
  <2>1. m = IF obey /\ XManaged(t.sys) THEN XProperty(XSized(t, s)) ELSE y
    BY <1>4 DEF XObeys
  <2> HIDE DEF m, t, r
  <2>2. /\ s \in System /\ SameUser(t.sys, s) /\ s.shown = t.sys.shown
        /\ s.full \in {"yes", "no"}
    BY <1>2 DEF System, SameUser
  <2>3. /\ q \in System /\ SameUser(t.sys, q) /\ q.shown = t.sys.shown
        /\ q.full = t.sys.full /\ q.size = t.sys.size /\ q.refused = TRUE
        /\ q.mini = t.sys.mini /\ q.zoomed = t.sys.zoomed
    BY <1>2 DEF System, SameUser
  <2>4. q.full \in {"yes", "no"}
    BY <1>1, <2>3 DEF XCore
  <2> HIDE DEF s, q
  <2>5. /\ y \in State(XMessage) /\ XCore(y) /\ y.w = t.w /\ y.sys = q
        /\ y.wire = t.wire /\ XAgreed(y) /\ XVisible(y)
    BY <1>1, <2>3, <2>4, CoreOf
  <2> HIDE DEF y
  <2>6. XStates(y)
    BY <1>1, <1>4, <2>3, <2>5 DEF XStates
  <2>7. CASE obey /\ XManaged(t.sys)
    BY <1>1, <2>1, <2>2, <2>7, Restated DEF m, t, r
  <2>8. CASE ~(obey /\ XManaged(t.sys))
    BY <1>1, <2>1, <2>5, <2>6, <2>8 DEF XInv, m, t, r
  <2> QED BY <2>7, <2>8
<1>5. CASE r.op = "maximize"
  <2> DEFINE s == [t.sys EXCEPT !.zoomed = r.on]
  <2>1. m = IF obey /\ XManaged(t.sys) THEN XProperty(XSized(t, s)) ELSE t
    BY <1>5 DEF XObeys
  <2> HIDE DEF m, t, r
  <2>2. /\ s \in System /\ SameUser(t.sys, s) /\ s.shown = t.sys.shown
        /\ s.full = t.sys.full
    BY <1>2 DEF System, SameUser
  <2>3. s.full \in {"yes", "no"}
    BY <1>1, <2>2 DEF XCore
  <2> HIDE DEF s
  <2>4. CASE obey /\ XManaged(t.sys)
    BY <1>1, <2>1, <2>2, <2>3, <2>4, Restated DEF m, t, r
  <2>5. CASE ~(obey /\ XManaged(t.sys))
    BY <1>1, <1>5, <2>1, <2>5 DEF XInv, m, t, r
  <2> QED BY <2>4, <2>5
<1> QED BY <1>3, <1>4, <1>5

LEMMA ServerObeys ==
  ASSUME NEW n \in State(XMessage), XInv(n), n.requests # << >>, NEW obey \in BOOLEAN
  PROVE  LET m == XObeys(Taken(n), Head(n.requests), obey)
         IN m \in State(XMessage) /\ XInv(m) /\ m.w = n.w
<1>1. Head(n.requests) \in Request
  BY RequestTaken
<1>2. Head(n.requests).op \in {"map", "configure", "fullscreen", "maximize", "iconify"}
  BY <1>1 DEF Request
<1> QED BY <1>2, ObeysConfigure, ObeysMap, ObeysUnmap, ObeysStates

-----------------------------------------------------------------------------
(* X11: the user *)

LEMMA CloseTold ==
  ASSUME NEW n \in State(XMessage), XInv(n)
  PROVE  LET m == Tell(n, [type |-> "close"])
         IN m \in State(XMessage) /\ XInv(m) /\ m.w = n.w
<1> DEFINE x == [type |-> "close"]
           m == Tell(n, x)
<1>0. n.wire \in Seq(XMessage)
  BY DEF State
<1>1. /\ x \in XMessage /\ x \notin ConfigureWord /\ x \notin Word({"property"})
      /\ x \notin Word({"map", "unmap"}) /\ x \notin PressWord(Button)
  BY DEF XMessage, ConfigureWord, Word, PressWord
<1> HIDE DEF x
<1>2. /\ m \in State(XMessage) /\ m.w = n.w /\ m.told = n.told /\ m.sys = n.sys
      /\ m.requests = n.requests /\ m.wire = Append(n.wire, x)
  BY <1>1, MessageTold
<1> HIDE DEF m
<1>3. /\ Quietly(n, m, Word({"map", "unmap"})) /\ Quietly(n, m, Word({"property"}))
      /\ Quietly(n, m, PressWord(Button)) /\ Quietly(n, m, ConfigureWord)
  BY <1>1, <1>2 DEF Quietly
<1>4. XSizes(m)
  BY <1>2, <1>3, SizesQuietly DEF XInv, XCore
<1>5. XPressed(m)
  BY <1>2, <1>3, PressedQuietly DEF XInv, XCore
<1>6. XCore(m)
  BY <1>2, <1>4, <1>5 DEF XInv, XCore, NoKeyboard
<1>7. None(m.wire, ConfigureWord) <=> None(n.wire, ConfigureWord)
  BY <1>3, LastQuietly
<1>8. XAgreed(m)
  BY <1>2, <1>7 DEF XInv, XAgreed
<1>9. XStates(m)
  BY <1>2, <1>3, StatesQuietly DEF XInv
<1>10. XVisible(m)
  BY <1>2, <1>3, VisibleQuietly DEF XInv
<1> QED BY <1>2, <1>6, <1>8, <1>9, <1>10 DEF XInv, m, x

LEMMA PressTold ==
  ASSUME NEW n \in State(XMessage), XInv(n), NEW b \in Button,
         NEW s \in System, s.focused = n.sys.focused, s.fresh = n.sys.fresh,
         s.size = n.sys.size, s.shown = n.sys.shown, s.mini = n.sys.mini,
         s.zoomed = n.sys.zoomed, s.full = n.sys.full, s.refused = n.sys.refused,
         (n.sys.here \cup n.sys.strayed) \ {b} \subseteq s.here \cup s.strayed,
         NEW x, x.type \in {"press", "release"}, x \in PressWord({b}),
         x.type = "press" => b \in s.here
  PROVE  LET m == Tell([n EXCEPT !.sys = s], x)
         IN m \in State(XMessage) /\ XInv(m) /\ m.w = n.w
<1> DEFINE y == [n EXCEPT !.sys = s]
           m == Tell(y, x)
<1>0. n.wire \in Seq(XMessage)
  BY DEF State
<1>1. /\ y \in State(XMessage) /\ y.w = n.w /\ y.told = n.told /\ y.sys = s
      /\ y.wire = n.wire /\ y.requests = n.requests
  BY DEF State
<1>2. /\ x \in XMessage /\ x \notin ConfigureWord /\ x \notin Word({"property"})
      /\ x \notin Word({"map", "unmap"})
      /\ \A c \in Button \ {b} : x \notin PressWord({c})
  BY DEF XMessage, ConfigureWord, Word, PressWord
<1> HIDE DEF y
<1>3. /\ m \in State(XMessage) /\ m.w = n.w /\ m.told = n.told /\ m.sys = s
      /\ m.requests = n.requests /\ m.wire = Append(n.wire, x)
  BY <1>1, <1>2, MessageTold
<1> HIDE DEF m
<1>4. /\ Quietly(n, m, Word({"map", "unmap"})) /\ Quietly(n, m, Word({"property"}))
      /\ Quietly(n, m, ConfigureWord)
      /\ \A c \in Button \ {b} : Quietly(n, m, PressWord({c}))
  BY <1>2, <1>3 DEF Quietly
<1>5. XSizes(m)
  BY <1>3, <1>4, SizesQuietly DEF XInv, XCore
<1>6. XPressed(m)
  <2> SUFFICES ASSUME NEW c \in Button
               PROVE  /\ \A i \in 1..Len(m.wire) :
                           Last(m.wire, PressWord({c}), i) /\ m.wire[i].type = "press"
                             => c \in m.sys.here \cup m.sys.strayed
                      /\ None(m.wire, PressWord({c})) /\ c \in m.w.buttons
                           => c \in m.sys.here \cup m.sys.strayed
    BY DEF XPressed
  <2>1. CASE c # b
    <3>1. /\ None(m.wire, PressWord({c})) <=> None(n.wire, PressWord({c}))
          /\ \A i : Last(m.wire, PressWord({c}), i) =>
                      Last(n.wire, PressWord({c}), i) /\ m.wire[i] = n.wire[i]
      BY <1>4, <2>1, LastQuietly
    <3>2. \A i : Last(n.wire, PressWord({c}), i) => i \in 1..Len(n.wire)
      BY DEF Last
    <3>3. c \in n.sys.here \cup n.sys.strayed => c \in m.sys.here \cup m.sys.strayed
      BY <1>3, <2>1
    <3> QED BY <1>3, <3>1, <3>2, <3>3 DEF XInv, XCore, XPressed
  <2>2. CASE c = b
    <3>0. x \in PressWord({b}) /\ x \in XMessage /\ m.wire = Append(n.wire, x)
      BY <1>2, <1>3
    <3>1. /\ ~None(m.wire, PressWord({b}))
          /\ \A i : Last(m.wire, PressWord({b}), i) => i = Len(n.wire) + 1
      BY ONLY <1>0, <3>0, LastAppended
    <3>2. m.wire[Len(n.wire) + 1] = x
      BY <1>0, <1>2, <1>3
    <3> QED BY <1>3, <2>2, <3>1, <3>2
  <2> QED BY <2>1, <2>2
<1>7. XCore(m)
  BY <1>3, <1>5, <1>6 DEF XInv, XCore, NoKeyboard
<1>8. None(m.wire, ConfigureWord) <=> None(n.wire, ConfigureWord)
  BY <1>4, LastQuietly
<1>9. XAgreed(m)
  BY <1>3, <1>8 DEF XInv, XAgreed
<1>10. XStates(m)
  BY <1>3, <1>4, StatesQuietly DEF XInv
<1>11. XVisible(m)
  BY <1>3, <1>4, VisibleQuietly DEF XInv
<1> QED BY <1>3, <1>7, <1>9, <1>10, <1>11 DEF XInv, m, y


LEMMA BecomesNow ==
  ASSUME NEW M, NEW n \in State(M), Becomes(n)
  PROVE  Now' = n
BY DEF Becomes, Now, State

LEMMA XUserStep ==
  ASSUME Now \in State(XMessage), XInv(Now), XUser
  PROVE  Now' \in State(XMessage) /\ XInv(Now') /\ w' = w
<1> DEFINE n == Now
<1>0. /\ n.w = w /\ n.sys = sys /\ sys \in System
  BY DEF Now, State
<1>1. /\ XCore(n) /\ XAgreed(n) /\ XStates(n) /\ XVisible(n) /\ sys.full \in {"yes", "no"}
  BY <1>0 DEF XInv, XCore
<1> HIDE DEF n
<1>2. ASSUME NEW m, m \in State(XMessage) /\ XInv(m) /\ m.w = n.w, Becomes(m)
      PROVE  Now' \in State(XMessage) /\ XInv(Now') /\ w' = w
  <2>1. Now' = m
    BY <1>2, BecomesNow
  <2>2. w' = m.w
    BY <1>2 DEF Becomes
  <2> QED BY <1>0, <1>2, <2>1, <2>2
<1>3. ASSUME NEW s \in Size, Becomes(XSized(n, [sys EXCEPT !.normal = s]))
      PROVE  Now' \in State(XMessage) /\ XInv(Now') /\ w' = w
  <2> DEFINE t == [sys EXCEPT !.normal = s]
             m == XSized(n, t)
  <2>1. /\ t \in System /\ SameUser(sys, t) /\ t.shown = sys.shown /\ t.mini = sys.mini
        /\ t.zoomed = sys.zoomed /\ t.full = sys.full /\ t.refused = sys.refused
    BY <1>0, NativeAssumption DEF System, SameUser
  <2> HIDE DEF t
  <2>2. m \in State(XMessage) /\ XCore(m) /\ m.w = n.w /\ XAgreed(m)
    BY <1>0, <1>1, <2>1, SizedKeeps DEF n
  <2>3. XVisible(m) /\ XStates(m)
    BY <1>0, <1>1, <2>1, SizedLooks DEF n
  <2> HIDE DEF m
  <2>4. XInv(m)
    BY <2>2, <2>3 DEF XInv
  <2> QED BY <1>2, <1>3, <2>2, <2>4 DEF m, t
<1>4. ASSUME NEW on \in BOOLEAN, Becomes(XProperty(XSized(n, [sys EXCEPT !.zoomed = on])))
      PROVE  Now' \in State(XMessage) /\ XInv(Now') /\ w' = w
  <2> DEFINE t == [sys EXCEPT !.zoomed = on]
             m == XProperty(XSized(n, t))
  <2>1. /\ t \in System /\ SameUser(sys, t) /\ t.shown = sys.shown /\ t.full = sys.full
    BY <1>0 DEF System, SameUser
  <2> HIDE DEF t
  <2>2. m \in State(XMessage) /\ XInv(m) /\ m.w = n.w
    BY <1>0, <1>1, <2>1, Restated DEF n
  <2> HIDE DEF m
  <2> QED BY <1>2, <1>4, <2>2 DEF m, t
<1>5. ASSUME NEW f \in {"yes", "no"},
             Becomes(XProperty(XSized(n, [sys EXCEPT !.full = f, !.refused = FALSE])))
      PROVE  Now' \in State(XMessage) /\ XInv(Now') /\ w' = w
  <2> DEFINE t == [sys EXCEPT !.full = f, !.refused = FALSE]
             m == XProperty(XSized(n, t))
  <2>1. /\ t \in System /\ SameUser(sys, t) /\ t.shown = sys.shown
        /\ t.full \in {"yes", "no"}
    BY <1>0 DEF System, SameUser
  <2> HIDE DEF t
  <2>2. m \in State(XMessage) /\ XInv(m) /\ m.w = n.w
    BY <1>0, <1>1, <2>1, Restated DEF n
  <2> HIDE DEF m
  <2> QED BY <1>2, <1>5, <2>2 DEF m, t
<1>6. ASSUME Becomes(XProperty([XMapped(n, FALSE) EXCEPT !.sys.mini = TRUE])), sys.shown
      PROVE  Now' \in State(XMessage) /\ XInv(Now') /\ w' = w
  BY <1>0, <1>1, <1>2, <1>6, Iconified DEF n
<1>7. ASSUME Becomes(Tell(n, [type |-> "close"]))
      PROVE  Now' \in State(XMessage) /\ XInv(Now') /\ w' = w
  BY <1>2, <1>7, CloseTold DEF n
<1>8. ASSUME NEW b \in Button \ sys.here,
             Becomes(Tell([n EXCEPT !.sys.here = @ \cup {b}, !.sys.strayed = @ \ {b}],
                          [type |-> "press", button |-> b]))
      PROVE  Now' \in State(XMessage) /\ XInv(Now') /\ w' = w
  <2> DEFINE s == [n.sys EXCEPT !.here = @ \cup {b}, !.strayed = @ \ {b}]
             x == [type |-> "press", button |-> b]
             m == Tell([n EXCEPT !.sys = s], x)
  <2>1. /\ s \in System /\ s.focused = n.sys.focused /\ s.fresh = n.sys.fresh
        /\ s.size = n.sys.size /\ s.shown = n.sys.shown /\ s.mini = n.sys.mini
        /\ s.zoomed = n.sys.zoomed /\ s.full = n.sys.full /\ s.refused = n.sys.refused
        /\ (n.sys.here \cup n.sys.strayed) \ {b} \subseteq s.here \cup s.strayed
        /\ b \in s.here
    BY <1>0 DEF System
  <2>2. x.type = "press" /\ x \in PressWord({b})
    BY DEF PressWord
  <2>3. [n EXCEPT !.sys.here = @ \cup {b}, !.sys.strayed = @ \ {b}] = [n EXCEPT !.sys = s]
    BY DEF n, State
  <2> HIDE DEF s, x
  <2>4. m \in State(XMessage) /\ XInv(m) /\ m.w = n.w
    BY <2>1, <2>2, PressTold DEF n
  <2> HIDE DEF m
  <2> QED BY <1>2, <1>8, <2>3, <2>4 DEF m, x
<1>9. ASSUME NEW b \in sys.here,
             Becomes(Tell([n EXCEPT !.sys.here = @ \ {b}],
                          [type |-> "release", button |-> b]))
      PROVE  Now' \in State(XMessage) /\ XInv(Now') /\ w' = w
  <2> DEFINE s == [n.sys EXCEPT !.here = @ \ {b}]
             x == [type |-> "release", button |-> b]
             m == Tell([n EXCEPT !.sys = s], x)
  <2>1. /\ s \in System /\ s.focused = n.sys.focused /\ s.fresh = n.sys.fresh
        /\ s.size = n.sys.size /\ s.shown = n.sys.shown /\ s.mini = n.sys.mini
        /\ s.zoomed = n.sys.zoomed /\ s.full = n.sys.full /\ s.refused = n.sys.refused
        /\ (n.sys.here \cup n.sys.strayed) \ {b} \subseteq s.here \cup s.strayed
        /\ b \in Button
    BY <1>0 DEF System
  <2>2. x.type = "release" /\ x \in PressWord({b})
    BY DEF PressWord
  <2>3. [n EXCEPT !.sys.here = @ \ {b}] = [n EXCEPT !.sys = s]
    BY DEF n, State
  <2> HIDE DEF s, x
  <2>4. m \in State(XMessage) /\ XInv(m) /\ m.w = n.w
    BY <2>1, <2>2, PressTold DEF n
  <2> HIDE DEF m
  <2> QED BY <1>2, <1>9, <2>3, <2>4 DEF m, x
<1> QED BY <1>3, <1>4, <1>5, <1>6, <1>7, <1>8, <1>9 DEF XUser, n

-----------------------------------------------------------------------------
(* X11: the program *)

\* A request more never hurts, and one that was taken for granted is made.
LEMMA RequestSent ==
  ASSUME NEW n \in State(XMessage), NEW r \in Request
  PROVE  LET m == XSend(n, r)
         IN /\ m \in State(XMessage) /\ m.w = n.w /\ m.told = n.told /\ m.sys = n.sys
            /\ m.wire = n.wire
            /\ \A K : ~None(n.requests, K) => ~None(m.requests, K)
            /\ \A K : r \in K => ~None(m.requests, K)
            /\ XInv(n) => XInv(m)
<1> DEFINE m == XSend(n, r)
           q == n.requests
           t == Append(q, r)
<1>1. q \in Seq(Request) /\ t \in Seq(Request)
  BY DEF State
<1>2. XSend(n, r) = [n EXCEPT !.requests = t]
  BY DEF XSend
<1> HIDE DEF t
<1>3. /\ m \in State(XMessage) /\ m.w = n.w /\ m.told = n.told /\ m.sys = n.sys
      /\ m.wire = n.wire /\ m.requests = t
  BY <1>1, <1>2 DEF State
<1> HIDE DEF m, q
<1>4. \A K : ~None(q, K) => ~None(t, K)
  <2>1. t = Append(q, r)
    BY DEF t
  <2>2. \A i \in 1..Len(q) : i \in 1..Len(t) /\ t[i] = q[i]
    BY <1>1, <2>1
  <2> QED BY <2>2 DEF None
<1>5. \A K : r \in K => ~None(t, K)
  <2>1. Len(q) + 1 \in 1..Len(t) /\ t[Len(q) + 1] = r
    BY <1>1 DEF t
  <2> QED BY <2>1 DEF None
<1>6. ASSUME XInv(n) PROVE XInv(m)
  <2>1. XCore(m)
    BY <1>3, <1>6 DEF XInv, XCore, XSizes, XPressed, NoKeyboard
  <2>2. XAgreed(m)
    BY <1>3, <1>4, <1>6 DEF XInv, XAgreed, q
  <2>3. XStates(m)
    BY <1>3, <1>4, <1>6 DEF XInv, XStates, q
  <2>4. ASSUME NEW v, XMeant(n, v) PROVE XMeant(m, v)
    BY <1>3, <1>4, <2>4 DEF XMeant, q
  <2>5. XVisible(n)
    BY <1>6 DEF XInv
  <2>6. ASSUME NEW i \in 1..Len(m.wire), Last(m.wire, Word({"map", "unmap"}), i)
        PROVE  XMeant(m, m.wire[i].type = "map")
    <3>1. XMeant(n, n.wire[i].type = "map")
      BY <1>3, <2>5, <2>6 DEF XVisible
    <3> QED BY <1>3, <2>4, <3>1
  <2>7. ASSUME None(m.wire, Word({"map", "unmap"})) PROVE XMeant(m, m.w.visible)
    BY <1>3, <2>4, <2>5, <2>7 DEF XVisible
  <2>8. XVisible(m)
    BY <2>6, <2>7 DEF XVisible
  <2> QED BY <2>1, <2>2, <2>3, <2>8 DEF XInv
<1> QED BY <1>3, <1>4, <1>5, <1>6 DEF m, q

LEMMA RequestTyped ==
  ASSUME NEW op \in {"map", "configure", "fullscreen", "maximize", "iconify"},
         NEW size \in Nat, NEW on \in BOOLEAN
  PROVE  /\ XRequest(op, size, on) \in Request
         /\ XRequest(op, size, on) \in Asks(op)
         /\ op = "map" => XRequest(op, size, on) \in AsksMap(on)
BY DEF XRequest, Request, Asks, AsksMap

LEMMA ShowKeeps ==
  ASSUME NEW n \in State(XMessage), XInv(n), NEW show \in BOOLEAN
  PROVE  LET m == XShow(n, show)
         IN m \in State(XMessage) /\ XInv(m) /\ m.w.live = n.w.live /\ m.told = n.told
            /\ m.w.fb = n.w.fb
<1> DEFINE r == XRequest("map", 0, show)
           z == XSend(n, r)
           v == [z.w EXCEPT !.visible = show]
           m == [z EXCEPT !.w = v]
<1>1. r \in Request /\ r \in AsksMap(show)
  BY RequestTyped
<1>2. /\ z \in State(XMessage) /\ z.w = n.w /\ z.told = n.told /\ XInv(z)
      /\ ~None(z.requests, AsksMap(show))
  BY <1>1, RequestSent
<1>3. XShow(n, show) = m
  BY DEF XShow
<1> HIDE DEF z, r
<1>4. z.w \in Record
  BY <1>2 DEF State
<1>5. /\ v \in Record /\ v.live = z.w.live /\ v.visible = show /\ v.size = z.w.size
      /\ v.fb = z.w.fb /\ v.minimized = z.w.minimized /\ v.maximized = z.w.maximized
      /\ v.fullscreen = z.w.fullscreen /\ v.focused = z.w.focused /\ v.keys = z.w.keys
      /\ v.buttons = z.w.buttons
  BY <1>4 DEF Record
<1> HIDE DEF v
<1>6. /\ m \in State(XMessage) /\ m.w = v /\ m.told = z.told /\ m.sys = z.sys
      /\ m.wire = z.wire /\ m.requests = z.requests
  BY <1>2, <1>5 DEF State
<1> HIDE DEF m
<1>7. XCore(m)
  BY <1>2, <1>5, <1>6 DEF XInv, XCore, XSizes, XPressed, NoKeyboard
<1>8. XAgreed(m)
  BY <1>2, <1>5, <1>6 DEF XInv, XAgreed
<1>9. XStates(m)
  BY <1>2, <1>5, <1>6 DEF XInv, XStates
<1>10. XVisible(m)
  <2>1. \A u : XMeant(z, u) => XMeant(m, u)
    BY <1>6 DEF XMeant
  <2>2. XMeant(m, show)
    BY <1>2, <1>6 DEF XMeant
  <2>3. ASSUME NEW i \in 1..Len(m.wire), Last(m.wire, Word({"map", "unmap"}), i)
        PROVE  XMeant(m, m.wire[i].type = "map")
    <3>1. XMeant(z, z.wire[i].type = "map")
      BY <1>2, <1>6, <2>3 DEF XInv, XVisible
    <3> QED BY <1>6, <2>1, <3>1
  <2>4. XMeant(m, m.w.visible)
    BY <1>5, <1>6, <2>2
  <2> QED BY <2>3, <2>4 DEF XVisible
<1> QED BY <1>2, <1>3, <1>5, <1>6, <1>7, <1>8, <1>9, <1>10 DEF XInv

LEMMA SetSizeKeeps ==
  ASSUME NEW n \in State(XMessage), XInv(n), NEW size \in Size
  PROVE  LET m == XSetSize(n, size)
         IN m \in State(XMessage) /\ XInv(m) /\ m.w.live = n.w.live /\ m.told = n.told
            /\ m.w.fb = n.w.fb
<1> DEFINE r == XRequest("configure", size, TRUE)
           v == [n.w EXCEPT !.size = size]
           y == IF n.w.resizable THEN n ELSE [n EXCEPT !.w = v]
           m == XSend(y, r)
<1>0. size \in Nat
  BY NativeAssumption
<1>1. r \in Request /\ r \in Asks("configure")
  BY <1>0, RequestTyped
<1>2. XSetSize(n, size) = m
  BY DEF XSetSize
<1>3. n.w \in Record
  BY DEF State
<1>4. /\ v \in Record /\ v.live = n.w.live /\ v.visible = n.w.visible
      /\ v.fb = n.w.fb /\ v.minimized = n.w.minimized /\ v.maximized = n.w.maximized
      /\ v.fullscreen = n.w.fullscreen /\ v.focused = n.w.focused /\ v.keys = n.w.keys
      /\ v.buttons = n.w.buttons
  BY <1>0, <1>3 DEF Record
<1> HIDE DEF v
<1>5. /\ y \in State(XMessage) /\ y.told = n.told /\ y.sys = n.sys
      /\ y.wire = n.wire /\ y.requests = n.requests
      /\ y.w.live = n.w.live /\ y.w.visible = n.w.visible
      /\ y.w.fb = n.w.fb /\ y.w.minimized = n.w.minimized /\ y.w.maximized = n.w.maximized
      /\ y.w.fullscreen = n.w.fullscreen /\ y.w.focused = n.w.focused
      /\ y.w.keys = n.w.keys /\ y.w.buttons = n.w.buttons
  <2>1. CASE n.w.resizable
    BY <2>1
  <2>2. CASE ~n.w.resizable
    <3>1. y = [n EXCEPT !.w = v]
      BY <2>2
    <3>2. y \in State(XMessage) /\ y.w = v /\ y.told = n.told /\ y.sys = n.sys
          /\ y.wire = n.wire /\ y.requests = n.requests
      BY <3>1, <1>4 DEF State
    <3> HIDE DEF y
    <3> QED BY <3>2, <1>4
  <2> QED BY <2>1, <2>2
<1> HIDE DEF y, r
<1>6. /\ m \in State(XMessage) /\ m.w = y.w /\ m.told = y.told /\ m.sys = y.sys
      /\ m.wire = y.wire /\ ~None(m.requests, Asks("configure"))
      /\ \A K : ~None(y.requests, K) => ~None(m.requests, K)
  BY <1>1, <1>5, RequestSent
<1> HIDE DEF m
<1>7. XCore(m)
  BY <1>5, <1>6 DEF XInv, XCore, XSizes, XPressed, NoKeyboard
<1>8. XAgreed(m)
  BY <1>6 DEF XAgreed
<1>9. XStates(m)
  BY <1>5, <1>6 DEF XInv, XStates
<1>10. XVisible(m)
  <2>1. \A u : XMeant(n, u) => XMeant(m, u)
    BY <1>5, <1>6 DEF XMeant
  <2>3. ASSUME NEW i \in 1..Len(m.wire), Last(m.wire, Word({"map", "unmap"}), i)
        PROVE  XMeant(m, m.wire[i].type = "map")
    <3>1. XMeant(n, n.wire[i].type = "map")
      BY <1>5, <1>6, <2>3 DEF XInv, XVisible
    <3> QED BY <1>5, <1>6, <2>1, <3>1
  <2>4. ASSUME None(m.wire, Word({"map", "unmap"})) PROVE XMeant(m, m.w.visible)
    BY <1>5, <1>6, <2>1, <2>4 DEF XInv, XVisible
  <2> QED BY <2>3, <2>4 DEF XVisible
<1> QED BY <1>2, <1>5, <1>6, <1>7, <1>8, <1>9, <1>10 DEF XInv

LEMMA SetFullscreenKeeps ==
  ASSUME NEW n \in State(XMessage), XInv(n), NEW on \in BOOLEAN, NEW supported \in BOOLEAN
  PROVE  LET m == XSetFullscreen(n, on, supported)
         IN m \in State(XMessage) /\ XInv(m) /\ m.w.live = n.w.live /\ m.told = n.told
            /\ m.w.fb = n.w.fb
            /\ m.w.maximized = n.w.maximized /\ m.w.minimized = n.w.minimized
<1> DEFINE r == XRequest("fullscreen", 0, on)
           z == XSend(n, r)
           v == [z.w EXCEPT !.fullscreen = on]
           m == [z EXCEPT !.w = v]
<1>1. r \in Request /\ r \in Asks("fullscreen")
  BY RequestTyped
<1>2. /\ z \in State(XMessage) /\ z.w = n.w /\ z.told = n.told /\ XInv(z)
      /\ ~None(z.requests, Asks("fullscreen"))
  BY <1>1, RequestSent
<1>3. XSetFullscreen(n, on, supported) = IF supported THEN m ELSE n
  BY DEF XSetFullscreen
<1> HIDE DEF z, r
<1>4. z.w \in Record
  BY <1>2 DEF State
<1>5. /\ v \in Record /\ v.live = z.w.live /\ v.visible = z.w.visible /\ v.size = z.w.size
      /\ v.fb = z.w.fb /\ v.minimized = z.w.minimized /\ v.maximized = z.w.maximized
      /\ v.focused = z.w.focused /\ v.keys = z.w.keys /\ v.buttons = z.w.buttons
  BY <1>4 DEF Record
<1> HIDE DEF v
<1>6. /\ m \in State(XMessage) /\ m.w = v /\ m.told = z.told /\ m.sys = z.sys
      /\ m.wire = z.wire /\ m.requests = z.requests
  BY <1>2, <1>5 DEF State
<1> HIDE DEF m
<1>7. XCore(m)
  BY <1>2, <1>5, <1>6 DEF XInv, XCore, XSizes, XPressed, NoKeyboard
<1>8. XAgreed(m)
  BY <1>2, <1>5, <1>6 DEF XInv, XAgreed
<1>9. XStates(m)
  BY <1>2, <1>5, <1>6 DEF XInv, XStates
<1>10. XVisible(m)
  BY <1>2, <1>5, <1>6 DEF XInv, XVisible, XMeant
<1> QED BY <1>2, <1>3, <1>5, <1>6, <1>7, <1>8, <1>9, <1>10 DEF XInv

LEMMA SendKeeps ==
  ASSUME NEW n \in State(XMessage), XInv(n), NEW on \in BOOLEAN,
         NEW op \in {"map", "maximize", "iconify"}
  PROVE  LET m == XSend(n, XRequest(op, 0, on))
         IN m \in State(XMessage) /\ XInv(m) /\ m.w = n.w
BY RequestTyped, RequestSent

LEMMA RestoreKeeps ==
  ASSUME NEW n \in State(XMessage), XInv(n), NEW supported \in BOOLEAN
  PROVE  LET m == XRestore(n, supported)
         IN m \in State(XMessage) /\ XInv(m) /\ m.w.live = n.w.live
<1> DEFINE a == IF n.w.fullscreen THEN XSetFullscreen(n, FALSE, supported) ELSE n
           b == IF n.w.maximized THEN XSend(a, XRequest("maximize", 0, FALSE)) ELSE a
           c == IF n.w.minimized THEN XSend(b, XRequest("map", 0, TRUE)) ELSE b
<1>1. a \in State(XMessage) /\ XInv(a) /\ a.w.live = n.w.live
  BY SetFullscreenKeeps
<1>2. XRestore(n, supported) = c
  BY DEF XRestore
<1> HIDE DEF a
<1>3. b \in State(XMessage) /\ XInv(b) /\ b.w.live = n.w.live
  BY <1>1, SendKeeps
<1> HIDE DEF b
<1>4. c \in State(XMessage) /\ XInv(c) /\ c.w.live = n.w.live
  BY <1>3, SendKeeps
<1> QED BY <1>2, <1>4

\* A window that has just been created.
LEMMA FreshTyped ==
  ASSUME NEW M, NEW size \in Nat, NEW fb \in Nat, NEW scale \in Nat \ {0},
         NEW resizable \in BOOLEAN
  PROVE  LET n == Fresh(size, fb, scale, resizable)
         IN /\ n \in State(M)
            /\ n.w = Created(size, fb, scale, resizable)
            /\ n.told = [size |-> Unsized, fb |-> fb]
            /\ n.sys = Unseen(size, scale) /\ n.wire = << >> /\ n.requests = << >>
<1>1. Created(size, fb, scale, resizable) \in Record
  BY DEF Created, Record, Unsized
<1>2. Unseen(size, scale) \in System
  BY DEF Unseen, System
<1>3. [size |-> Unsized, fb |-> fb] \in Report
  BY DEF Report, Unsized
<1> QED BY <1>1, <1>2, <1>3 DEF Fresh, State

LEMMA OpenedIs ==
  ASSUME NEW M, NEW n \in State(M), n.told.fb = n.w.fb
  PROVE  Opened(n) = n
<1>1. n.told \in Report
  BY DEF State
<1>2. [n.told EXCEPT !.fb = n.w.fb] = n.told
  BY <1>1 DEF Report
<1>3. Opened(n) = [n EXCEPT !.told = [n.told EXCEPT !.fb = n.w.fb]]
  BY DEF Opened
<1>4. [n EXCEPT !.told = n.told] = n
  BY DEF State
<1> QED BY <1>2, <1>3, <1>4

LEMMA XOpenStep ==
  ASSUME XOpen
  PROVE  Now' \in State(XMessage) /\ XInv(Now') /\ w'.live
<1> PICK s \in Size, t \in Size, r \in BOOLEAN, full \in BOOLEAN :
      LET sized == XSetSize(Fresh(s, s, 1, r), t)
      IN Becomes(Opened(XShow(IF full THEN XSetFullscreen(sized, TRUE, TRUE) ELSE sized, TRUE)))
  BY DEF XOpen
<1> DEFINE n == Fresh(s, s, 1, r)
           a == XSetSize(n, t)
           b == IF full THEN XSetFullscreen(a, TRUE, TRUE) ELSE a
           c == XShow(b, TRUE)
<1>0. s \in Nat /\ t \in Nat /\ 1 \in Nat \ {0}
  BY NativeAssumption
<1>1. /\ n \in State(XMessage) /\ n.w = Created(s, s, 1, r)
      /\ n.told = [size |-> Unsized, fb |-> s] /\ n.sys = Unseen(s, 1)
      /\ n.wire = << >> /\ n.requests = << >>
  BY <1>0, FreshTyped
<1>2. /\ n.w.live = TRUE /\ n.w.size = s /\ n.w.fb = s /\ n.w.visible = FALSE
      /\ n.w.minimized = FALSE /\ n.w.maximized = FALSE /\ n.w.fullscreen = FALSE
      /\ n.w.focused = FALSE /\ n.w.keys = {} /\ n.w.buttons = {}
      /\ n.told.size = Unsized /\ n.told.fb = s
  BY <1>1 DEF Created
<1>3. /\ n.sys.size = s /\ n.sys.shown = FALSE /\ n.sys.mini = FALSE
      /\ n.sys.zoomed = FALSE /\ n.sys.full = "no" /\ n.sys.focused = FALSE
      /\ n.sys.fresh = {}
  BY <1>1 DEF Unseen
<1>4. Len(n.wire) = 0
  BY <1>1
<1> HIDE DEF n
<1>5. XInv(n)
  <2>1. XCore(n)
    BY <1>2, <1>3, <1>4 DEF XCore, XSizes, XPressed, NoKeyboard
  <2>2. XAgreed(n) /\ XStates(n)
    BY <1>2, <1>3 DEF XAgreed, XStates
  <2>3. XVisible(n)
    <3>1. n.w.visible = n.sys.shown
      BY <1>2, <1>3
    <3>2. XMeant(n, n.w.visible)
      BY <3>1 DEF XMeant
    <3>3. 1..Len(n.wire) = {}
      BY <1>4
    <3> QED BY <3>2, <3>3 DEF XVisible
  <2> QED BY <2>1, <2>2, <2>3 DEF XInv
<1>6. a \in State(XMessage) /\ XInv(a) /\ a.w.live
  BY <1>1, <1>2, <1>5, SetSizeKeeps
<1> HIDE DEF a
<1>7. b \in State(XMessage) /\ XInv(b) /\ b.w.live
  BY <1>6, SetFullscreenKeeps
<1> HIDE DEF b
<1>8. c \in State(XMessage) /\ XInv(c) /\ c.w.live
  BY <1>7, ShowKeeps
<1>9. Becomes(Opened(c))
  BY DEF a, b, n
<1> HIDE DEF c
<1>10. Opened(c) = c
  BY <1>8, OpenedIs DEF XInv, XCore, XSizes
<1>11. Becomes(c)
  BY <1>9, <1>10
<1>12. Now' = c /\ w' = c.w
  BY <1>8, <1>11, BecomesNow DEF Becomes
<1> QED BY <1>8, <1>12

LEMMA XCallStep ==
  ASSUME Now \in State(XMessage), XInv(Now), XCall, w.live
  PROVE  Now' \in State(XMessage) /\ XInv(Now') /\ w'.live
<1> DEFINE n == Now
<1>0. n.w = w
  BY DEF Now
<1> HIDE DEF n
<1>1. ASSUME NEW m, m \in State(XMessage) /\ XInv(m) /\ m.w.live, Becomes(m)
      PROVE  Now' \in State(XMessage) /\ XInv(Now') /\ w'.live
  <2>1. Now' = m /\ w' = m.w
    BY <1>1, BecomesNow DEF Becomes
  <2> QED BY <1>1, <2>1
<1>2. ASSUME NEW show \in BOOLEAN, Becomes(XShow(n, show))
      PROVE  Now' \in State(XMessage) /\ XInv(Now') /\ w'.live
  BY <1>0, <1>1, <1>2, ShowKeeps DEF n
<1>3. ASSUME NEW s \in Size, Becomes(XSetSize(n, s))
      PROVE  Now' \in State(XMessage) /\ XInv(Now') /\ w'.live
  BY <1>0, <1>1, <1>3, SetSizeKeeps DEF n
<1>4. ASSUME NEW on \in BOOLEAN, NEW supported \in BOOLEAN,
             Becomes(XSetFullscreen(n, on, supported))
      PROVE  Now' \in State(XMessage) /\ XInv(Now') /\ w'.live
  BY <1>0, <1>1, <1>4, SetFullscreenKeeps DEF n
<1>5. ASSUME Becomes(XMaximize(n))
      PROVE  Now' \in State(XMessage) /\ XInv(Now') /\ w'.live
  BY <1>0, <1>1, <1>5, SendKeeps DEF n, XMaximize
<1>6. ASSUME Becomes(XMinimize(n))
      PROVE  Now' \in State(XMessage) /\ XInv(Now') /\ w'.live
  BY <1>0, <1>1, <1>6, SendKeeps DEF n, XMinimize
<1>7. ASSUME NEW supported \in BOOLEAN, Becomes(XRestore(n, supported))
      PROVE  Now' \in State(XMessage) /\ XInv(Now') /\ w'.live
  BY <1>0, <1>1, <1>7, RestoreKeeps DEF n
<1> QED BY <1>2, <1>3, <1>4, <1>5, <1>6, <1>7 DEF XCall, n

LEMMA XServerStep ==
  ASSUME Now \in State(XMessage), XInv(Now), XServerTakes
  PROVE  Now' \in State(XMessage) /\ XInv(Now') /\ w' = w
<1> DEFINE n == Now
<1>1. PICK obey \in BOOLEAN : Becomes(XObeys(Taken(n), Head(requests), obey))
  BY DEF XServerTakes, Taken
<1>2. n.requests # << >> /\ Head(requests) = Head(n.requests) /\ n.w = w
  BY DEF XServerTakes, Now
<1> HIDE DEF n
<1> DEFINE m == XObeys(Taken(n), Head(n.requests), obey)
<1>3. m \in State(XMessage) /\ XInv(m) /\ m.w = n.w
  BY <1>2, ServerObeys DEF n
<1>4. Becomes(m)
  BY <1>1, <1>2
<1> HIDE DEF m
<1>5. Now' = m /\ w' = m.w
  BY <1>3, <1>4, BecomesNow DEF Becomes
<1> QED BY <1>2, <1>3, <1>5

-----------------------------------------------------------------------------
(* nack__xcb_dispatch *)

\* The oldest message is taken off the wire.
Heard(n) == [n EXCEPT !.wire = Tail(@)]

LEMMA MessageHeard ==
  ASSUME NEW M, NEW n \in State(M), n.wire # << >>
  PROVE  LET t == Heard(n)
         IN /\ t \in State(M) /\ t.w = n.w /\ t.told = n.told /\ t.sys = n.sys
            /\ t.requests = n.requests /\ t.wire = Tail(n.wire)
            /\ Head(n.wire) \in M
<1> DEFINE s == n.wire
           z == Tail(s)
<1>1. s \in Seq(M) /\ s # << >>
  BY DEF State
<1> HIDE DEF s
<1>2. z \in Seq(M) /\ Head(s) \in M
  BY <1>1, TailLast
<1>3. Heard(n) = [n EXCEPT !.wire = z]
  BY DEF Heard, s
<1> HIDE DEF z
<1>4. /\ Heard(n) \in State(M) /\ Heard(n).w = n.w /\ Heard(n).told = n.told
      /\ Heard(n).sys = n.sys /\ Heard(n).requests = n.requests /\ Heard(n).wire = z
  BY <1>2, <1>3 DEF State
<1> QED BY <1>2, <1>4 DEF z, s

LEMMA HeardLast ==
  ASSUME NEW M, NEW n \in State(M), n.wire # << >>, NEW K
  PROVE  LET t == Heard(n)
         IN /\ None(t.wire, K) /\ Head(n.wire) \notin K => None(n.wire, K)
            /\ None(t.wire, K) /\ Head(n.wire) \in K =>
                 Last(n.wire, K, 1) /\ n.wire[1] = Head(n.wire)
            /\ None(n.wire, K) => None(t.wire, K) /\ Head(n.wire) \notin K
            /\ \A i : Last(t.wire, K, i) => /\ Last(n.wire, K, i + 1)
                                            /\ i + 1 \in 1..Len(n.wire)
                                            /\ t.wire[i] = n.wire[i + 1]
<1> DEFINE s == n.wire
           t == Heard(n)
<1>1. s \in Seq(M) /\ s # << >>
  BY DEF State
<1>2. t.wire = Tail(s)
  BY MessageHeard
<1> HIDE DEF s, t
<1>3. /\ Head(s) = s[1]
      /\ None(Tail(s), K) => None(s, K) \/ Last(s, K, 1)
      /\ None(s, K) => None(Tail(s), K) /\ Head(s) \notin K
      /\ \A i : Last(Tail(s), K, i) => /\ i + 1 \in 1..Len(s) /\ Last(s, K, i + 1)
                                       /\ Tail(s)[i] = s[i + 1]
  <2>1. Head(s) = s[1] /\ \A i \in 1..Len(Tail(s)) : Tail(s)[i] = s[i + 1]
    BY <1>1
  <2>2. None(Tail(s), K) => None(s, K) \/ Last(s, K, 1)
    BY <1>1, TailLast
  <2>3. None(s, K) => None(Tail(s), K) /\ Head(s) \notin K
    BY <1>1, TailLast
  <2>4. \A i : Last(Tail(s), K, i) => i + 1 \in 1..Len(s) /\ Last(s, K, i + 1)
    BY <1>1, TailLast
  <2>5. \A i : Last(Tail(s), K, i) => i \in 1..Len(Tail(s))
    BY DEF Last
  <2> QED BY <2>1, <2>2, <2>3, <2>4, <2>5
<1>4. Last(s, K, 1) => s[1] \in K
  BY DEF Last
<1> QED BY <1>2, <1>3, <1>4 DEF s, t

\* What the invariant says of the rest when the oldest message x is taken off.
LEMMA XHeard ==
  ASSUME NEW n \in State(XMessage), XInv(n), n.wire # << >>
  PROVE  LET t == Heard(n)
             x == Head(n.wire)
         IN /\ x \notin ConfigureWord => XSizes(t) /\ XAgreed(t)
            /\ \A i \in 1..Len(t.wire) :
                 Last(t.wire, ConfigureWord, i) => t.wire[i].size = t.sys.size
            /\ x \in ConfigureWord /\ None(t.wire, ConfigureWord) => x.size = t.sys.size
            /\ x \notin Word({"property"}) => XStates(t)
            /\ x \notin Word({"map", "unmap"}) => XVisible(t)
            /\ \A i \in 1..Len(t.wire) :
                 Last(t.wire, Word({"map", "unmap"}), i) => XMeant(t, t.wire[i].type = "map")
            /\ x \in Word({"map", "unmap"}) /\ None(t.wire, Word({"map", "unmap"})) =>
                 XMeant(t, x.type = "map")
            /\ \A b \in Button :
                 /\ \A i \in 1..Len(t.wire) :
                      Last(t.wire, PressWord({b}), i) /\ t.wire[i].type = "press"
                        => b \in t.sys.here \cup t.sys.strayed
                 /\ x \notin PressWord({b}) =>
                      (None(t.wire, PressWord({b})) /\ b \in t.w.buttons
                         => b \in t.sys.here \cup t.sys.strayed)
                 /\ x \in PressWord({b}) /\ x.type = "press" /\ None(t.wire, PressWord({b}))
                      => b \in t.sys.here \cup t.sys.strayed
<1> DEFINE t == Heard(n)
           x == Head(n.wire)
<1>1. /\ t.w = n.w /\ t.told = n.told /\ t.sys = n.sys /\ t.requests = n.requests
  BY MessageHeard
<1>2. \A K : /\ None(t.wire, K) /\ x \notin K => None(n.wire, K)
             /\ None(t.wire, K) /\ x \in K => Last(n.wire, K, 1) /\ n.wire[1] = x
             /\ \A i : Last(t.wire, K, i) => /\ Last(n.wire, K, i + 1)
                                             /\ i + 1 \in 1..Len(n.wire)
                                             /\ t.wire[i] = n.wire[i + 1]
  BY HeardLast
<1>3. 1 \in 1..Len(n.wire)
  <2>1. n.wire \in Seq(XMessage)
    BY DEF State
  <2> QED BY <2>1
<1> HIDE DEF t, x
<1>4. \A i \in 1..Len(t.wire) :
        Last(t.wire, ConfigureWord, i) => t.wire[i].size = t.sys.size
  BY <1>1, <1>2 DEF XInv, XCore, XSizes
<1>5. x \in ConfigureWord /\ None(t.wire, ConfigureWord) => x.size = t.sys.size
  BY <1>1, <1>2, <1>3 DEF XInv, XCore, XSizes
<1>6. ASSUME x \notin ConfigureWord PROVE XSizes(t) /\ XAgreed(t)
  BY <1>1, <1>2, <1>4, <1>6 DEF XInv, XCore, XSizes, XAgreed
<1>7. ASSUME x \notin Word({"property"}) PROVE XStates(t)
  BY <1>1, <1>2, <1>7 DEF XInv, XStates
<1>8. \A v : XMeant(n, v) => XMeant(t, v)
  BY <1>1 DEF XMeant
<1>9. ASSUME NEW i \in 1..Len(t.wire), Last(t.wire, Word({"map", "unmap"}), i)
      PROVE  XMeant(t, t.wire[i].type = "map")
  <2>1. /\ Last(n.wire, Word({"map", "unmap"}), i + 1) /\ i + 1 \in 1..Len(n.wire)
        /\ t.wire[i] = n.wire[i + 1]
    BY <1>2, <1>9
  <2>2. XMeant(n, n.wire[i + 1].type = "map")
    BY <2>1 DEF XInv, XVisible
  <2> QED BY <1>8, <2>1, <2>2
<1>10. ASSUME x \in Word({"map", "unmap"}), None(t.wire, Word({"map", "unmap"}))
       PROVE  XMeant(t, x.type = "map")
  <2>1. Last(n.wire, Word({"map", "unmap"}), 1) /\ n.wire[1] = x
    BY <1>2, <1>10
  <2>2. XMeant(n, n.wire[1].type = "map")
    BY <1>3, <2>1 DEF XInv, XVisible
  <2> QED BY <1>8, <2>1, <2>2
<1>11. ASSUME x \notin Word({"map", "unmap"}) PROVE XVisible(t)
  <2>1. ASSUME None(t.wire, Word({"map", "unmap"})) PROVE XMeant(t, t.w.visible)
    BY <1>1, <1>2, <1>8, <1>11, <2>1 DEF XInv, XVisible
  <2> QED BY <1>9, <2>1 DEF XVisible
<1>12. ASSUME NEW b \in Button
       PROVE  /\ \A i \in 1..Len(t.wire) :
                   Last(t.wire, PressWord({b}), i) /\ t.wire[i].type = "press"
                     => b \in t.sys.here \cup t.sys.strayed
              /\ x \notin PressWord({b}) =>
                   (None(t.wire, PressWord({b})) /\ b \in t.w.buttons
                      => b \in t.sys.here \cup t.sys.strayed)
              /\ x \in PressWord({b}) /\ x.type = "press" /\ None(t.wire, PressWord({b}))
                   => b \in t.sys.here \cup t.sys.strayed
  <2>1. /\ \A i \in 1..Len(n.wire) :
             Last(n.wire, PressWord({b}), i) /\ n.wire[i].type = "press"
               => b \in n.sys.here \cup n.sys.strayed
        /\ None(n.wire, PressWord({b})) /\ b \in n.w.buttons
             => b \in n.sys.here \cup n.sys.strayed
    BY DEF XInv, XCore, XPressed
  <2>2. ASSUME NEW i \in 1..Len(t.wire), Last(t.wire, PressWord({b}), i),
               t.wire[i].type = "press"
        PROVE  b \in t.sys.here \cup t.sys.strayed
    <3>1. /\ Last(n.wire, PressWord({b}), i + 1) /\ i + 1 \in 1..Len(n.wire)
          /\ t.wire[i] = n.wire[i + 1]
      BY <1>2, <2>2
    <3> QED BY <1>1, <2>1, <2>2, <3>1
  <2>3. ASSUME x \in PressWord({b}), x.type = "press", None(t.wire, PressWord({b}))
        PROVE  b \in t.sys.here \cup t.sys.strayed
    <3>1. Last(n.wire, PressWord({b}), 1) /\ n.wire[1] = x
      BY <1>2, <2>3
    <3> QED BY <1>1, <1>3, <2>1, <2>3, <3>1
  <2>4. ASSUME x \notin PressWord({b}), None(t.wire, PressWord({b})), b \in t.w.buttons
        PROVE  b \in t.sys.here \cup t.sys.strayed
    BY <1>1, <1>2, <2>1, <2>4
  <2> QED BY <2>2, <2>3, <2>4
<1> QED BY <1>4, <1>5, <1>6, <1>7, <1>9, <1>10, <1>11, <1>12 DEF t, x

\* A handler that changes the record only: what it sets, and what it does not.
LEMMA RecordSet ==
  ASSUME NEW M, NEW n \in State(M), NEW v \in Record
  PROVE  LET m == [n EXCEPT !.w = v]
         IN /\ m \in State(M) /\ m.w = v /\ m.told = n.told /\ m.sys = n.sys
            /\ m.wire = n.wire /\ m.requests = n.requests
BY DEF State

LEMMA XHandleConfigure ==
  ASSUME NEW n \in State(XMessage), XInv(n), n.wire # << >>,
         Head(n.wire) \in ConfigureWord
  PROVE  LET m == XHandle(Heard(n), Head(n.wire))
         IN m \in State(XMessage) /\ XInv(m) /\ m.w.live = n.w.live
<1> DEFINE t == Heard(n)
           x == Head(n.wire)
           m == EmitResize(t, x.size, x.size)
<1>1. /\ t \in State(XMessage) /\ t.w = n.w /\ t.told = n.told /\ t.sys = n.sys
      /\ t.requests = n.requests
  BY MessageHeard
<1>2. x.size \in Nat /\ x.type = "configure"
  BY DEF ConfigureWord
<1>3. /\ x \notin Word({"property"}) /\ x \notin Word({"map", "unmap"})
      /\ \A b \in Button : x \notin PressWord({b})
  BY <1>2 DEF Word, PressWord
<1>4. XHandle(t, x) = m
  BY <1>2 DEF XHandle, XConfigured
<1>5. /\ XStates(t) /\ XVisible(t)
      /\ \A i \in 1..Len(t.wire) :
           Last(t.wire, ConfigureWord, i) => t.wire[i].size = t.sys.size
      /\ None(t.wire, ConfigureWord) => x.size = t.sys.size
  BY <1>3, XHeard
<1>6. XPressed(t)
  BY <1>3, XHeard DEF XPressed
<1> HIDE DEF t, x
<1>7. /\ m \in State(XMessage) /\ SameInput(t, m) /\ SameLooks(t, m)
      /\ m.w.size = x.size /\ m.w.fb = x.size /\ m.sys = t.sys
      /\ (m.told = t.told /\ m.w.fb = t.w.fb) \/ m.told = [size |-> x.size, fb |-> x.size]
  BY <1>1, <1>2, ResizeEmitted
<1> HIDE DEF m
<1>8. m.wire = t.wire /\ m.requests = t.requests /\ m.w.live = t.w.live
  BY <1>7 DEF SameInput
<1>9. /\ m.w.visible = t.w.visible /\ m.w.minimized = t.w.minimized
      /\ m.w.maximized = t.w.maximized /\ m.w.fullscreen = t.w.fullscreen
  BY <1>7 DEF SameLooks
<1>10. /\ m.w.buttons = t.w.buttons /\ m.w.focused = t.w.focused /\ m.w.keys = t.w.keys
  BY <1>7 DEF SameInput, Keyboard, Mouse
<1>11. m.told.fb = m.w.fb /\ m.told.size \in {Unsized, m.told.fb}
  BY <1>1, <1>7 DEF XInv, XCore, XSizes
<1>12. XSizes(m)
  BY <1>5, <1>7, <1>8, <1>11 DEF XSizes
<1>13. XAgreed(m)
  BY <1>5, <1>7, <1>8 DEF XAgreed
<1>14. XStates(m)
  BY <1>5, <1>7, <1>8, <1>9 DEF XStates
<1>15. XVisible(m)
  BY <1>5, <1>7, <1>8, <1>9 DEF XVisible, XMeant
<1>16. XPressed(m)
  BY <1>6, <1>7, <1>8, <1>10 DEF XPressed
<1>17. NoKeyboard(m) /\ m.sys.full \in {"yes", "no"}
  BY <1>1, <1>7, <1>10 DEF XInv, XCore, NoKeyboard
<1> QED BY <1>1, <1>4, <1>7, <1>8, <1>12, <1>13, <1>14, <1>15, <1>16, <1>17
        DEF XInv, XCore, t, x

LEMMA XHandleProperty ==
  ASSUME NEW n \in State(XMessage), XInv(n), n.wire # << >>,
         Head(n.wire) \in Word({"property"})
  PROVE  LET m == XHandle(Heard(n), Head(n.wire))
         IN m \in State(XMessage) /\ XInv(m) /\ m.w.live = n.w.live
<1> DEFINE t == Heard(n)
           x == Head(n.wire)
           v == [t.w EXCEPT !.fullscreen = (t.sys.full = "yes"),
                            !.maximized = t.sys.zoomed, !.minimized = t.sys.mini]
           m == [t EXCEPT !.w = v]
<1>1. /\ t \in State(XMessage) /\ t.w = n.w /\ t.told = n.told /\ t.sys = n.sys
      /\ t.requests = n.requests
  BY MessageHeard
<1>2. x.type = "property"
  BY DEF Word
<1>3. /\ x \notin ConfigureWord /\ x \notin Word({"map", "unmap"})
      /\ \A b \in Button : x \notin PressWord({b})
  BY <1>2 DEF Word, PressWord, ConfigureWord
<1>4. XHandle(t, x) = m
  BY <1>2 DEF XHandle, XReadState
<1>5. XSizes(t) /\ XAgreed(t) /\ XVisible(t)
  BY <1>3, XHeard
<1>6. XPressed(t)
  BY <1>3, XHeard DEF XPressed
<1> HIDE DEF t, x
<1>7. t.w \in Record /\ t.sys \in System
  BY <1>1 DEF State
<1>8. /\ v \in Record /\ v.live = t.w.live /\ v.visible = t.w.visible
      /\ v.size = t.w.size /\ v.fb = t.w.fb /\ v.focused = t.w.focused
      /\ v.keys = t.w.keys /\ v.buttons = t.w.buttons
      /\ v.fullscreen = (t.sys.full = "yes") /\ v.maximized = t.sys.zoomed
      /\ v.minimized = t.sys.mini
  BY <1>7 DEF Record, System
<1> HIDE DEF v
<1>9. /\ m \in State(XMessage) /\ m.w = v /\ m.told = t.told /\ m.sys = t.sys
      /\ m.wire = t.wire /\ m.requests = t.requests
  BY <1>1, <1>8, RecordSet
<1> HIDE DEF m
<1>10. XSizes(m) /\ XAgreed(m)
  BY <1>5, <1>8, <1>9 DEF XSizes, XAgreed
<1>11. XStates(m)
  BY <1>8, <1>9 DEF XStates
<1>12. XVisible(m)
  BY <1>5, <1>8, <1>9 DEF XVisible, XMeant
<1>13. XPressed(m)
  BY <1>6, <1>8, <1>9 DEF XPressed
<1>14. NoKeyboard(m) /\ m.sys.full \in {"yes", "no"}
  BY <1>1, <1>8, <1>9 DEF XInv, XCore, NoKeyboard
<1> QED BY <1>1, <1>4, <1>8, <1>9, <1>10, <1>11, <1>12, <1>13, <1>14 DEF XInv, XCore, t, x

LEMMA XHandleSeen ==
  ASSUME NEW n \in State(XMessage), XInv(n), n.wire # << >>,
         Head(n.wire) \in Word({"map", "unmap"})
  PROVE  LET m == XHandle(Heard(n), Head(n.wire))
         IN m \in State(XMessage) /\ XInv(m) /\ m.w.live = n.w.live
<1> DEFINE t == Heard(n)
           x == Head(n.wire)
           seen == x.type = "map"
           v == [t.w EXCEPT !.visible = seen]
           m == [t EXCEPT !.w = v]
<1>1. /\ t \in State(XMessage) /\ t.w = n.w /\ t.told = n.told /\ t.sys = n.sys
      /\ t.requests = n.requests
  BY MessageHeard
<1>2. x.type = "map" \/ x.type = "unmap"
  BY DEF Word
<1>3. /\ x \notin ConfigureWord /\ x \notin Word({"property"})
      /\ \A b \in Button : x \notin PressWord({b})
  BY <1>2 DEF Word, PressWord, ConfigureWord
<1>4. XHandle(t, x) = m
  <2>1. CASE x.type = "map"
    <3>1. XHandle(t, x) = XSeen(t, TRUE)
      BY <2>1 DEF XHandle
    <3>2. seen = TRUE
      BY <2>1
    <3> HIDE DEF seen
    <3> QED BY <3>1, <3>2 DEF XSeen
  <2>2. CASE x.type = "unmap"
    <3>1. XHandle(t, x) = XSeen(t, FALSE)
      BY <2>2 DEF XHandle
    <3>2. seen = FALSE
      BY <2>2
    <3> HIDE DEF seen
    <3> QED BY <3>1, <3>2 DEF XSeen
  <2> QED BY <1>2, <2>1, <2>2
<1>5. /\ XSizes(t) /\ XAgreed(t) /\ XStates(t)
      /\ \A i \in 1..Len(t.wire) :
           Last(t.wire, Word({"map", "unmap"}), i) => XMeant(t, t.wire[i].type = "map")
      /\ None(t.wire, Word({"map", "unmap"})) => XMeant(t, x.type = "map")
  BY <1>3, XHeard
<1>6. XPressed(t)
  BY <1>3, XHeard DEF XPressed
<1>7. t.w \in Record /\ seen \in BOOLEAN
  BY <1>1 DEF State
<1>8. None(t.wire, Word({"map", "unmap"})) => XMeant(t, seen)
  BY <1>5
<1> HIDE DEF t, x, seen
<1>9. /\ v \in Record /\ v.live = t.w.live /\ v.visible = seen
      /\ v.size = t.w.size /\ v.fb = t.w.fb /\ v.focused = t.w.focused
      /\ v.keys = t.w.keys /\ v.buttons = t.w.buttons
      /\ v.fullscreen = t.w.fullscreen /\ v.maximized = t.w.maximized
      /\ v.minimized = t.w.minimized
  BY <1>7 DEF Record
<1> HIDE DEF v
<1>10. /\ m \in State(XMessage) /\ m.w = v /\ m.told = t.told /\ m.sys = t.sys
       /\ m.wire = t.wire /\ m.requests = t.requests
  BY <1>1, <1>9, RecordSet
<1> HIDE DEF m
<1>11. XSizes(m) /\ XAgreed(m)
  BY <1>5, <1>9, <1>10 DEF XSizes, XAgreed
<1>12. XStates(m)
  BY <1>5, <1>9, <1>10 DEF XStates
<1>13. XVisible(m)
  <2>1. \A u : XMeant(t, u) => XMeant(m, u)
    BY <1>10 DEF XMeant
  <2>2. None(m.wire, Word({"map", "unmap"})) => XMeant(m, m.w.visible)
    BY <1>8, <1>9, <1>10, <2>1
  <2>3. ASSUME NEW i \in 1..Len(m.wire), Last(m.wire, Word({"map", "unmap"}), i)
        PROVE  XMeant(m, m.wire[i].type = "map")
    <3>1. XMeant(t, t.wire[i].type = "map")
      BY <1>5, <1>10, <2>3
    <3> QED BY <1>10, <2>1, <3>1
  <2> QED BY <2>2, <2>3 DEF XVisible
<1>14. XPressed(m)
  BY <1>6, <1>9, <1>10 DEF XPressed
<1>15. NoKeyboard(m) /\ m.sys.full \in {"yes", "no"}
  BY <1>1, <1>9, <1>10 DEF XInv, XCore, NoKeyboard
<1> QED BY <1>1, <1>4, <1>9, <1>10, <1>11, <1>12, <1>13, <1>14, <1>15 DEF XInv, XCore, t, x

LEMMA XHandleClose ==
  ASSUME NEW n \in State(XMessage), XInv(n), n.wire # << >>,
         Head(n.wire) \in Word({"close"})
  PROVE  LET m == XHandle(Heard(n), Head(n.wire))
         IN m \in State(XMessage) /\ XInv(m) /\ m.w.live = n.w.live
<1> DEFINE t == Heard(n)
           x == Head(n.wire)
           v == [t.w EXCEPT !.closing = TRUE]
           m == [t EXCEPT !.w = v]
<1>1. /\ t \in State(XMessage) /\ t.w = n.w /\ t.told = n.told /\ t.sys = n.sys
      /\ t.requests = n.requests
  BY MessageHeard
<1>2. x.type = "close"
  BY DEF Word
<1>3. /\ x \notin ConfigureWord /\ x \notin Word({"property"})
      /\ x \notin Word({"map", "unmap"}) /\ \A b \in Button : x \notin PressWord({b})
  BY <1>2 DEF Word, PressWord, ConfigureWord
<1>4. XHandle(t, x) = m
  BY <1>2 DEF XHandle, EmitClose
<1>5. XSizes(t) /\ XAgreed(t) /\ XStates(t) /\ XVisible(t)
  BY <1>3, XHeard
<1>6. XPressed(t)
  BY <1>3, XHeard DEF XPressed
<1> HIDE DEF t, x
<1>7. t.w \in Record
  BY <1>1 DEF State
<1>8. /\ v \in Record /\ v.live = t.w.live /\ v.visible = t.w.visible
      /\ v.size = t.w.size /\ v.fb = t.w.fb /\ v.focused = t.w.focused
      /\ v.keys = t.w.keys /\ v.buttons = t.w.buttons
      /\ v.fullscreen = t.w.fullscreen /\ v.maximized = t.w.maximized
      /\ v.minimized = t.w.minimized
  BY <1>7 DEF Record
<1> HIDE DEF v
<1>9. /\ m \in State(XMessage) /\ m.w = v /\ m.told = t.told /\ m.sys = t.sys
      /\ m.wire = t.wire /\ m.requests = t.requests
  BY <1>1, <1>8, RecordSet
<1> HIDE DEF m
<1>10. XSizes(m) /\ XAgreed(m)
  BY <1>5, <1>8, <1>9 DEF XSizes, XAgreed
<1>11. XStates(m)
  BY <1>5, <1>8, <1>9 DEF XStates
<1>12. XVisible(m)
  BY <1>5, <1>8, <1>9 DEF XVisible, XMeant
<1>13. XPressed(m)
  BY <1>6, <1>8, <1>9 DEF XPressed
<1>14. NoKeyboard(m) /\ m.sys.full \in {"yes", "no"}
  BY <1>1, <1>8, <1>9 DEF XInv, XCore, NoKeyboard
<1> QED BY <1>1, <1>4, <1>8, <1>9, <1>10, <1>11, <1>12, <1>13, <1>14 DEF XInv, XCore, t, x

LEMMA XHandlePress ==
  ASSUME NEW n \in State(XMessage), XInv(n), n.wire # << >>,
         Head(n.wire) \in PressWord(Button)
  PROVE  LET m == XHandle(Heard(n), Head(n.wire))
         IN m \in State(XMessage) /\ XInv(m) /\ m.w.live = n.w.live
<1> DEFINE t == Heard(n)
           x == Head(n.wire)
           c == x.button
           down == x.type = "press"
           v == [t.w EXCEPT !.buttons = IF down THEN @ \cup {c} ELSE @ \ {c}]
           m == [t EXCEPT !.w = v]
<1>1. /\ t \in State(XMessage) /\ t.w = n.w /\ t.told = n.told /\ t.sys = n.sys
      /\ t.requests = n.requests
  BY MessageHeard
<1>2. (x.type = "press" \/ x.type = "release") /\ c \in Button
  BY DEF PressWord
<1>3. /\ x \notin ConfigureWord /\ x \notin Word({"property"})
      /\ x \notin Word({"map", "unmap"})
      /\ x \in PressWord({c})
  BY <1>2 DEF Word, PressWord, ConfigureWord
<1>4. \A b \in Button \ {c} : x \notin PressWord({b})
  BY <1>2 DEF PressWord
<1>5. XHandle(t, x) = m
  <2>1. CASE x.type = "press"
    <3>1. XHandle(t, x) = XButton(t, c, TRUE)
      BY <2>1 DEF XHandle
    <3>2. down = TRUE
      BY <2>1
    <3> HIDE DEF down, c
    <3> QED BY <3>1, <3>2 DEF XButton, EmitButton
  <2>2. CASE x.type = "release"
    <3>1. XHandle(t, x) = XButton(t, c, FALSE)
      BY <2>2 DEF XHandle
    <3>2. down = FALSE
      BY <2>2
    <3> HIDE DEF down, c
    <3> QED BY <3>1, <3>2 DEF XButton, EmitButton
  <2> QED BY <1>2, <2>1, <2>2
<1>6. XSizes(t) /\ XAgreed(t) /\ XStates(t) /\ XVisible(t)
  BY <1>3, XHeard
<1>7. \A b \in Button :
        /\ \A i \in 1..Len(t.wire) :
             Last(t.wire, PressWord({b}), i) /\ t.wire[i].type = "press"
               => b \in t.sys.here \cup t.sys.strayed
        /\ b # c => (None(t.wire, PressWord({b})) /\ b \in t.w.buttons
                       => b \in t.sys.here \cup t.sys.strayed)
        /\ b = c /\ down /\ None(t.wire, PressWord({b}))
             => b \in t.sys.here \cup t.sys.strayed
  BY <1>3, <1>4, XHeard
<1>8. t.w \in Record
  BY <1>1 DEF State
<1> HIDE DEF t, x, c, down
<1>9. /\ v \in Record /\ v.live = t.w.live /\ v.visible = t.w.visible
      /\ v.size = t.w.size /\ v.fb = t.w.fb /\ v.focused = t.w.focused
      /\ v.keys = t.w.keys
      /\ v.buttons = (IF down THEN t.w.buttons \cup {c} ELSE t.w.buttons \ {c})
      /\ v.fullscreen = t.w.fullscreen /\ v.maximized = t.w.maximized
      /\ v.minimized = t.w.minimized
  BY <1>2, <1>8 DEF Record
<1> HIDE DEF v
<1>10. /\ m \in State(XMessage) /\ m.w = v /\ m.told = t.told /\ m.sys = t.sys
       /\ m.wire = t.wire /\ m.requests = t.requests
  BY <1>1, <1>9, RecordSet
<1> HIDE DEF m
<1>11. XSizes(m) /\ XAgreed(m)
  BY <1>6, <1>9, <1>10 DEF XSizes, XAgreed
<1>12. XStates(m)
  BY <1>6, <1>9, <1>10 DEF XStates
<1>13. XVisible(m)
  BY <1>6, <1>9, <1>10 DEF XVisible, XMeant
<1>14. XPressed(m)
  <2> SUFFICES ASSUME NEW b \in Button
               PROVE  /\ \A i \in 1..Len(m.wire) :
                           Last(m.wire, PressWord({b}), i) /\ m.wire[i].type = "press"
                             => b \in m.sys.here \cup m.sys.strayed
                      /\ None(m.wire, PressWord({b})) /\ b \in m.w.buttons
                           => b \in m.sys.here \cup m.sys.strayed
    BY DEF XPressed
  <2>1. b \in m.w.buttons => (b # c /\ b \in t.w.buttons) \/ (b = c /\ down)
    BY <1>9, <1>10
  <2> QED BY <1>7, <1>10, <2>1
<1>15. NoKeyboard(m) /\ m.sys.full \in {"yes", "no"}
  BY <1>1, <1>9, <1>10 DEF XInv, XCore, NoKeyboard
<1> QED BY <1>1, <1>5, <1>9, <1>10, <1>11, <1>12, <1>13, <1>14, <1>15 DEF XInv, XCore, t, x

LEMMA XDispatchStep ==
  ASSUME Now \in State(XMessage), XInv(Now), XDispatch
  PROVE  Now' \in State(XMessage) /\ XInv(Now') /\ w'.live = w.live
<1> DEFINE n == Now
<1>1. /\ n.wire # << >> /\ n.w = w /\ Becomes(XHandle(Heard(n), Head(n.wire)))
  BY DEF XDispatch, Heard, Now
<1> HIDE DEF n
<1> DEFINE m == XHandle(Heard(n), Head(n.wire))
<1>2. Head(n.wire) \in XMessage
  BY <1>1, MessageHeard DEF n
<1>3. m \in State(XMessage) /\ XInv(m) /\ m.w.live = n.w.live
  BY <1>1, <1>2, XHandleConfigure, XHandleProperty, XHandleSeen, XHandleClose,
     XHandlePress DEF XMessage, n
<1>4. Becomes(m)
  BY <1>1
<1> HIDE DEF m
<1>5. Now' = m /\ w' = m.w
  BY <1>3, <1>4, BecomesNow DEF Becomes
<1> QED BY <1>1, <1>3, <1>5

LEMMA XSettles ==
  ASSUME NEW n \in State(XMessage), XInv(n), n.wire = << >>, n.requests = << >>
  PROVE  /\ n.w.size = n.sys.size /\ n.w.fb = n.sys.size /\ n.told.fb = n.sys.size
         /\ n.told.size \in {Unsized, n.sys.size}
         /\ n.w.fullscreen = (n.sys.full = "yes") \/ n.sys.refused
         /\ n.sys.full \in {"yes", "no"}
         /\ n.w.minimized = n.sys.mini /\ n.w.maximized = n.sys.zoomed
         /\ n.w.visible = n.sys.shown
         /\ NoKeyboard(n)
         /\ n.w.buttons \subseteq n.sys.here \cup n.sys.strayed
<1>1. \A K : None(n.wire, K) /\ None(n.requests, K)
  BY DEF None
<1>2. n.w.buttons \subseteq Button
  BY DEF State, Record
<1>3. n.w.visible = n.sys.shown
  <2>1. XMeant(n, n.w.visible)
    BY <1>1 DEF XInv, XVisible
  <2> QED BY <1>1, <2>1 DEF XMeant
<1>4. n.w.buttons \subseteq n.sys.here \cup n.sys.strayed
  BY <1>1, <1>2 DEF XInv, XCore, XPressed
<1>5. /\ n.w.size = n.sys.size /\ n.w.fb = n.sys.size /\ n.told.fb = n.sys.size
      /\ n.told.size \in {Unsized, n.sys.size}
  BY <1>1 DEF XInv, XCore, XSizes, XAgreed
<1>6. /\ n.w.fullscreen = (n.sys.full = "yes") \/ n.sys.refused
      /\ n.w.minimized = n.sys.mini /\ n.w.maximized = n.sys.zoomed
  BY <1>1 DEF XInv, XStates
<1> QED BY <1>3, <1>4, <1>5, <1>6 DEF XInv, XCore

-----------------------------------------------------------------------------
(* Positions *)

LEMMA AppendAt ==
  ASSUME NEW M, NEW s \in Seq(M), NEW x \in M, NEW t, t = Append(s, x)
  PROVE  /\ t \in Seq(M) /\ Len(s) \in Nat /\ Len(t) = Len(s) + 1 /\ t[Len(s) + 1] = x
         /\ \A i \in 1..Len(s) : i \in 1..Len(t) /\ i # Len(s) + 1 /\ t[i] = s[i]
         /\ \A i \in 1..Len(t) : i \in 1..Len(s) \/ i = Len(s) + 1
         /\ Len(s) + 1 \in 1..Len(t)
OBVIOUS

\* A message of another kind changes nothing that is said of the kind K.
LEMMA AppendOther ==
  ASSUME NEW M, NEW s \in Seq(M), NEW x \in M, NEW t, t = Append(s, x), NEW K, x \notin K
  PROVE  /\ None(t, K) <=> None(s, K)
         /\ \A i : Last(t, K, i) => Last(s, K, i)
         /\ \A i : Last(s, K, i) => Last(t, K, i)
         /\ \A i \in 1..Len(s) : NoneAfter(t, K, i) <=> NoneAfter(s, K, i)
<1>1. /\ t \in Seq(M) /\ Len(s) \in Nat /\ Len(t) = Len(s) + 1 /\ t[Len(s) + 1] = x
      /\ \A i \in 1..Len(s) : i \in 1..Len(t) /\ i # Len(s) + 1 /\ t[i] = s[i]
      /\ \A i \in 1..Len(t) : i \in 1..Len(s) \/ i = Len(s) + 1
  OBVIOUS
<1>2. None(t, K) <=> None(s, K)
  BY <1>1 DEF None
<1>3. \A i : Last(t, K, i) => Last(s, K, i)
  BY <1>1 DEF Last
<1>4. \A i : Last(s, K, i) => Last(t, K, i)
  BY <1>1 DEF Last
<1>5. \A i \in 1..Len(s) : NoneAfter(t, K, i) <=> NoneAfter(s, K, i)
  BY <1>1 DEF NoneAfter
<1> QED BY <1>2, <1>3, <1>4, <1>5

LEMMA AppendOwn ==
  ASSUME NEW M, NEW s \in Seq(M), NEW x \in M, NEW t, t = Append(s, x), NEW K, x \in K
  PROVE  /\ ~None(t, K)
         /\ \A i : Last(t, K, i) => i = Len(s) + 1
         /\ Last(t, K, Len(s) + 1)
         /\ \A i \in 1..Len(s) : ~NoneAfter(t, K, i)
<1>1. /\ t \in Seq(M) /\ Len(s) \in Nat /\ Len(t) = Len(s) + 1 /\ t[Len(s) + 1] = x
      /\ \A i \in 1..Len(t) : i \in 1..Len(s) \/ i = Len(s) + 1
      /\ Len(s) + 1 \in 1..Len(t)
      /\ \A i \in 1..Len(s) : Len(s) + 1 > i
  OBVIOUS
<1>2. \A i \in 1..Len(t) : ~(i > Len(s) + 1)
  BY <1>1
<1> QED BY <1>1, <1>2 DEF None, Last, NoneAfter

LEMMA NoneAfterLast ==
  ASSUME NEW M, NEW s \in Seq(M), NEW x \in M, NEW t, t = Append(s, x), NEW K
  PROVE  NoneAfter(t, K, Len(s) + 1)
BY DEF NoneAfter

\* The same of what is left when the oldest message is taken off.
LEMMA TailAt ==
  ASSUME NEW M, NEW s \in Seq(M), s # << >>, NEW t, t = Tail(s)
  PROVE  /\ t \in Seq(M) /\ Len(s) \in Nat /\ Len(t) = Len(s) - 1 /\ Len(s) > 0
         /\ 1 \in 1..Len(s) /\ Head(s) = s[1] /\ s[1] \in M
         /\ \A i \in 1..Len(t) : i + 1 \in 1..Len(s) /\ t[i] = s[i + 1]
         /\ \A i \in 1..Len(s) : i = 1 \/ (i > 1 /\ i - 1 \in 1..Len(t) /\ t[i - 1] = s[i])
<1>1. \A i \in 1..Len(t) : i + 1 \in 1..Len(s) /\ t[i] = s[i + 1]
  OBVIOUS
<1>2. /\ t \in Seq(M) /\ Len(s) \in Nat /\ Len(t) = Len(s) - 1 /\ Len(s) > 0
      /\ 1 \in 1..Len(s) /\ Head(s) = s[1] /\ s[1] \in M
  OBVIOUS
<1>3. ASSUME NEW i \in 1..Len(s), i # 1
      PROVE  i > 1 /\ i - 1 \in 1..Len(t) /\ t[i - 1] = s[i]
  <2>1. i > 1 /\ i - 1 \in 1..Len(t) /\ (i - 1) + 1 = i
    BY <1>2, <1>3
  <2>2. t[i - 1] = s[(i - 1) + 1]
    BY <1>1, <2>1
  <2> QED BY <2>1, <2>2
<1> QED BY <1>1, <1>2, <1>3

LEMMA TailKind ==
  ASSUME NEW M, NEW s \in Seq(M), s # << >>, NEW t, t = Tail(s), NEW K
  PROVE  /\ None(t, K) <=> NoneAfter(s, K, 1)
         /\ None(s, K) <=> (s[1] \notin K /\ None(t, K))
         /\ None(t, K) /\ s[1] \in K => Last(s, K, 1)
         /\ \A i : Last(t, K, i) => Last(s, K, i + 1)
         /\ \A i \in 1..Len(t) : Last(s, K, i + 1) => Last(t, K, i)
         /\ \A i \in 1..Len(t) : NoneAfter(t, K, i) <=> NoneAfter(s, K, i + 1)
<1>1. /\ t \in Seq(M) /\ Len(s) \in Nat /\ Len(t) = Len(s) - 1 /\ Len(s) > 0
      /\ 1 \in 1..Len(s) /\ Head(s) = s[1] /\ s[1] \in M
      /\ \A i \in 1..Len(t) : i + 1 \in 1..Len(s) /\ t[i] = s[i + 1]
      /\ \A i \in 1..Len(s) : i = 1 \/ (i > 1 /\ i - 1 \in 1..Len(t) /\ t[i - 1] = s[i])
  BY TailAt
<1>2. None(t, K) <=> NoneAfter(s, K, 1)
  <2>1. ASSUME None(t, K), NEW i \in 1..Len(s), i > 1 PROVE s[i] \notin K
    BY <1>1, <2>1 DEF None
  <2>2. ASSUME NoneAfter(s, K, 1), NEW i \in 1..Len(t) PROVE t[i] \notin K
    <3>1. i + 1 \in 1..Len(s) /\ i + 1 > 1 /\ t[i] = s[i + 1]
      BY <1>1
    <3> QED BY <2>2, <3>1 DEF NoneAfter
  <2> QED BY <2>1, <2>2 DEF None, NoneAfter
<1>3. None(s, K) <=> (s[1] \notin K /\ None(t, K))
  BY <1>1 DEF None
<1>4. None(t, K) /\ s[1] \in K => Last(s, K, 1)
  BY <1>1, <1>2 DEF Last, NoneAfter
<1>5. ASSUME NEW i \in 1..Len(t) PROVE NoneAfter(t, K, i) <=> NoneAfter(s, K, i + 1)
  <2>1. ASSUME NoneAfter(t, K, i), NEW j \in 1..Len(s), j > i + 1 PROVE s[j] \notin K
    <3>1. j - 1 \in 1..Len(t) /\ t[j - 1] = s[j] /\ j - 1 > i
      BY <1>1, <2>1
    <3> QED BY <2>1, <3>1 DEF NoneAfter
  <2>2. ASSUME NoneAfter(s, K, i + 1), NEW j \in 1..Len(t), j > i PROVE t[j] \notin K
    <3>1. j + 1 \in 1..Len(s) /\ j + 1 > i + 1 /\ t[j] = s[j + 1]
      BY <1>1, <2>2
    <3> QED BY <2>2, <3>1 DEF NoneAfter
  <2> QED BY <2>1, <2>2 DEF NoneAfter
<1>6. \A u, i : Last(u, K, i) <=> i \in 1..Len(u) /\ u[i] \in K /\ NoneAfter(u, K, i)
  BY DEF Last, NoneAfter
<1>7. ASSUME NEW i, Last(t, K, i) PROVE Last(s, K, i + 1)
  <2>1. i \in 1..Len(t) /\ t[i] \in K /\ NoneAfter(t, K, i)
    BY <1>6, <1>7
  <2> QED BY <1>1, <1>5, <1>6, <2>1
<1>8. \A i \in 1..Len(t) : Last(s, K, i + 1) => Last(t, K, i)
  BY <1>1, <1>5, <1>6
<1> QED BY <1>2, <1>3, <1>4, <1>5, <1>7, <1>8

\* Messages of R keep their places but for an offset d; the others come and go.
Shifted(s, t, R, d) ==
  /\ \A i \in 1..Len(t) : t[i] \in R => i + d \in 1..Len(s) /\ s[i + d] = t[i]
  /\ \A i \in 1..Len(s) : s[i] \in R => i - d \in 1..Len(t) /\ t[i - d] = s[i]

LEMMA ShiftedKind ==
  ASSUME NEW M, NEW s \in Seq(M), NEW t \in Seq(M), NEW R, NEW d \in Nat,
         Shifted(s, t, R, d), NEW K, K \subseteq R
  PROVE  /\ None(t, K) <=> None(s, K)
         /\ \A i : Last(t, K, i) => Last(s, K, i + d) /\ i \in 1..Len(t)
         /\ \A i : Last(s, K, i) => Last(t, K, i - d) /\ i \in 1..Len(s)
         /\ \A i \in Int : NoneAfter(t, K, i) <=> NoneAfter(s, K, i + d)
<1>1. /\ \A i \in 1..Len(t) : t[i] \in K => i + d \in 1..Len(s) /\ s[i + d] = t[i]
      /\ \A i \in 1..Len(s) : s[i] \in K => i - d \in 1..Len(t) /\ t[i - d] = s[i]
      /\ Len(s) \in Nat /\ Len(t) \in Nat
  BY DEF Shifted
<1>2. None(t, K) <=> None(s, K)
  BY <1>1 DEF None
<1>3. ASSUME NEW i \in Int PROVE NoneAfter(t, K, i) <=> NoneAfter(s, K, i + d)
  <2>1. ASSUME NoneAfter(t, K, i), NEW j \in 1..Len(s), j > i + d PROVE s[j] \notin K
    <3>1. s[j] \in K => j - d \in 1..Len(t) /\ t[j - d] \in K /\ j - d > i
      BY <1>1, <2>1
    <3> QED BY <2>1, <3>1 DEF NoneAfter
  <2>2. ASSUME NoneAfter(s, K, i + d), NEW j \in 1..Len(t), j > i PROVE t[j] \notin K
    <3>1. t[j] \in K => j + d \in 1..Len(s) /\ s[j + d] \in K /\ j + d > i + d
      BY <1>1, <2>2
    <3> QED BY <2>2, <3>1 DEF NoneAfter
  <2> QED BY <2>1, <2>2 DEF NoneAfter
<1>4. \A u, i : Last(u, K, i) <=> i \in 1..Len(u) /\ u[i] \in K /\ NoneAfter(u, K, i)
  BY DEF Last, NoneAfter
<1>5. ASSUME NEW i, Last(t, K, i) PROVE Last(s, K, i + d) /\ i \in 1..Len(t)
  <2>1. i \in 1..Len(t) /\ t[i] \in K /\ NoneAfter(t, K, i)
    BY <1>4, <1>5
  <2>2. i \in Int
    BY <2>1
  <2>3. NoneAfter(s, K, i + d)
    BY <1>3, <2>1, <2>2
  <2> QED BY <1>1, <1>4, <2>1, <2>3
<1>6. ASSUME NEW i, Last(s, K, i) PROVE Last(t, K, i - d) /\ i \in 1..Len(s)
  <2>1. i \in 1..Len(s) /\ s[i] \in K /\ NoneAfter(s, K, i)
    BY <1>4, <1>6
  <2>2. i - d \in Int /\ i = (i - d) + d
    BY <2>1
  <2>3. NoneAfter(t, K, i - d)
    BY <1>3, <2>1, <2>2
  <2> QED BY <1>1, <1>4, <2>1, <2>3
<1> QED BY <1>2, <1>3, <1>5, <1>6

\* The three ways a wire changes by messages of no interest.
LEMMA ShiftedSame ==
  ASSUME NEW M, NEW s \in Seq(M), NEW R
  PROVE  Shifted(s, s, R, 0)
BY DEF Shifted

LEMMA ShiftedAppend ==
  ASSUME NEW M, NEW s \in Seq(M), NEW x \in M, NEW R, x \notin R
  PROVE  Shifted(s, Append(s, x), R, 0)
<1> DEFINE t == Append(s, x)
<1>1. /\ Len(s) \in Nat /\ Len(t) = Len(s) + 1 /\ t[Len(s) + 1] = x
      /\ \A i \in 1..Len(s) : t[i] = s[i]
  OBVIOUS
<1> HIDE DEF t
<1>2. ASSUME NEW i \in 1..Len(t), t[i] \in R PROVE i + 0 \in 1..Len(s) /\ s[i + 0] = t[i]
  BY <1>1, <1>2
<1>3. ASSUME NEW i \in 1..Len(s), s[i] \in R PROVE i - 0 \in 1..Len(t) /\ t[i - 0] = s[i]
  BY <1>1, <1>3
<1> QED BY <1>2, <1>3 DEF Shifted, t

LEMMA ShiftedTail ==
  ASSUME NEW M, NEW s \in Seq(M), s # << >>, NEW R, Head(s) \notin R
  PROVE  Shifted(s, Tail(s), R, 1)
<1> DEFINE t == Tail(s)
<1>1. /\ Head(s) = s[1] /\ Len(s) \in Nat /\ Len(t) = Len(s) - 1
      /\ \A i \in 1..Len(t) : i + 1 \in 1..Len(s) /\ t[i] = s[i + 1]
      /\ \A i \in 1..Len(s) : i = 1 \/ (i > 1 /\ i - 1 \in 1..Len(t) /\ t[i - 1] = s[i])
  BY TailAt
<1> HIDE DEF t
<1> QED BY <1>1 DEF Shifted, t

-----------------------------------------------------------------------------
(* The keyboard when nothing is typed and the focus stays *)

Typing == FocusWord \cup KeyOf(Key)

LEMMA TypingKinds ==
  ASSUME NEW K, K \subseteq Key
  PROVE  /\ FocusWord \subseteq Typing /\ Off \subseteq Typing /\ Off \subseteq FocusWord
         /\ KeyOf(K) \subseteq Typing /\ KeyOf(K) \subseteq KeyOf(Key)
         /\ FocusWord \cup KeyOf(K) \subseteq Typing
         /\ \A x \in KeyOf(K) : x \notin FocusWord /\ x \notin Off
         /\ \A x \in FocusWord : x \notin KeyOf(K)
BY DEF Typing, FocusWord, KeyOf, Off

SameKeyboard(n, m) ==
  /\ m.w.focused = n.w.focused /\ m.w.keys = n.w.keys /\ m.sys.focused = n.sys.focused
  /\ m.sys.held = n.sys.held /\ m.sys.odd = n.sys.odd /\ m.sys.crossed = n.sys.crossed
  /\ m.sys.fresh = n.sys.fresh

LEMMA FocusFramed ==
  ASSUME NEW M, NEW n \in State(M), NEW m \in State(M), SameKeyboard(n, m),
         NEW d \in Nat, Shifted(n.wire, m.wire, Typing, d), FocusArrives(n)
  PROVE  FocusArrives(m)
<1>1. n.wire \in Seq(M) /\ m.wire \in Seq(M)
  BY DEF State
<1>2. FocusWord \subseteq Typing /\ Off \subseteq Typing
  BY TypingKinds
<1>3. None(m.wire, Off) <=> None(n.wire, Off)
  BY <1>1, <1>2, ShiftedKind, Zenon
<1>4. None(m.wire, FocusWord) <=> None(n.wire, FocusWord)
  BY <1>1, <1>2, ShiftedKind, Zenon
<1>5. ASSUME m.sys.focused, NEW i \in 1..Len(m.wire), Last(m.wire, FocusWord, i)
      PROVE  m.wire[i].on
  <2>1. Last(n.wire, FocusWord, i + d)
    BY <1>1, <1>2, <1>5, ShiftedKind, Zenon
  <2>2. i + d \in 1..Len(n.wire)
    BY <2>1 DEF Last
  <2>3. m.wire[i] = n.wire[i + d]
    BY <1>2, <1>5 DEF Shifted, Last
  <2> QED BY <1>5, <2>1, <2>2, <2>3 DEF FocusArrives, SameKeyboard
<1> QED BY <1>3, <1>4, <1>5 DEF FocusArrives, SameKeyboard

LEMMA ExpireFramed ==
  ASSUME NEW M, NEW n \in State(M), NEW m \in State(M), SameKeyboard(n, m),
         NEW d \in Nat, Shifted(n.wire, m.wire, Typing, d), KeysExpire(n)
  PROVE  KeysExpire(m)
<1>1. n.wire \in Seq(M) /\ m.wire \in Seq(M)
  BY DEF State
<1>2. FocusWord \subseteq Typing /\ Off \subseteq Typing
  BY TypingKinds
<1>3. None(m.wire, Off) <=> None(n.wire, Off)
  BY <1>1, <1>2, ShiftedKind, Zenon
<1>4. None(m.wire, FocusWord) <=> None(n.wire, FocusWord)
  BY <1>1, <1>2, ShiftedKind, Zenon
<1>5. ASSUME NEW i \in 1..Len(m.wire), m.wire[i] \in KeyOf(Key \ m.sys.crossed)
      PROVE  \/ ~NoneAfter(m.wire, Off, i)
             \/ m.sys.focused /\ NoneAfter(m.wire, FocusWord, i)
  <2>1. m.wire[i] \in Typing
    BY <1>5, TypingKinds
  <2>2. i + d \in 1..Len(n.wire) /\ m.wire[i] = n.wire[i + d]
    BY <2>1 DEF Shifted
  <2>3. i \in Int
    OBVIOUS
  <2>4. NoneAfter(m.wire, Off, i) <=> NoneAfter(n.wire, Off, i + d)
    BY <1>1, <1>2, <2>3, ShiftedKind, Zenon
  <2>5. NoneAfter(m.wire, FocusWord, i) <=> NoneAfter(n.wire, FocusWord, i + d)
    BY <1>1, <1>2, <2>3, ShiftedKind, Zenon
  <2> QED BY <1>5, <2>2, <2>4, <2>5 DEF KeysExpire, SameKeyboard
<1> QED BY <1>3, <1>4, <1>5 DEF KeysExpire, SameKeyboard

LEMMA FreshFramed ==
  ASSUME NEW M, NEW n \in State(M), NEW m \in State(M), SameKeyboard(n, m),
         NEW d \in Nat, Shifted(n.wire, m.wire, Typing, d), NEW K, FreshArrive(n, K)
  PROVE  FreshArrive(m, K)
<1>1. n.wire \in Seq(M) /\ m.wire \in Seq(M) /\ n.sys.fresh \subseteq Key
  BY DEF State, System
<1>2. FocusWord \subseteq Typing
  BY TypingKinds
<1>3. None(m.wire, FocusWord) <=> None(n.wire, FocusWord)
  BY <1>1, <1>2, ShiftedKind, Zenon
<1> SUFFICES ASSUME NEW k \in m.sys.fresh \cap K
    PROVE \/ \E i \in 1..Len(m.wire) : /\ Last(m.wire, KeyOf({k}), i) /\ m.wire[i].down
                                       /\ NoneAfter(m.wire, FocusWord, i)
          \/ None(m.wire, FocusWord) /\ None(m.wire, KeyOf({k})) /\ k \in m.w.keys
  BY DEF FreshArrive
<1>4. k \in n.sys.fresh \cap K /\ k \in Key
  BY <1>1 DEF SameKeyboard
<1>5. KeyOf({k}) \subseteq Typing
  BY <1>4, TypingKinds
<1>6. CASE None(n.wire, FocusWord) /\ None(n.wire, KeyOf({k})) /\ k \in n.w.keys
  <2>1. None(m.wire, KeyOf({k}))
    BY <1>1, <1>5, <1>6, ShiftedKind, Zenon
  <2> QED BY <1>3, <1>6, <2>1 DEF SameKeyboard
<1>7. ASSUME NEW i \in 1..Len(n.wire), Last(n.wire, KeyOf({k}), i), n.wire[i].down,
             NoneAfter(n.wire, FocusWord, i)
      PROVE  \E j \in 1..Len(m.wire) : /\ Last(m.wire, KeyOf({k}), j) /\ m.wire[j].down
                                       /\ NoneAfter(m.wire, FocusWord, j)
  <2>1. Last(m.wire, KeyOf({k}), i - d)
    BY <1>1, <1>5, <1>7, ShiftedKind, Zenon
  <2>2. n.wire[i] \in Typing
    BY <1>5, <1>7 DEF Last
  <2>3. i - d \in 1..Len(m.wire) /\ m.wire[i - d] = n.wire[i]
    BY <2>2 DEF Shifted
  <2>4. i - d \in Int /\ (i - d) + d = i
    BY <2>3
  <2>5. NoneAfter(m.wire, FocusWord, i - d)
    <3>1. NoneAfter(m.wire, FocusWord, i - d) <=> NoneAfter(n.wire, FocusWord, (i - d) + d)
      BY <1>1, <1>2, <2>4, ShiftedKind, Zenon
    <3> QED BY <1>7, <2>4, <3>1
  <2> QED BY <1>7, <2>1, <2>3, <2>5
<1> QED BY <1>4, <1>6, <1>7 DEF FreshArrive

LEMMA ArriveFramed ==
  ASSUME NEW M, NEW n \in State(M), NEW m \in State(M), SameKeyboard(n, m),
         NEW d \in Nat, Shifted(n.wire, m.wire, Typing, d),
         NEW K, K \subseteq Key, KeysArrive(n, K)
  PROVE  KeysArrive(m, K)
<1>1. n.wire \in Seq(M) /\ m.wire \in Seq(M)
  BY DEF State
<1>2. FocusWord \subseteq Typing
  BY TypingKinds
<1>3. None(m.wire, FocusWord) <=> None(n.wire, FocusWord)
  BY <1>1, <1>2, ShiftedKind, Zenon
<1> SUFFICES ASSUME m.sys.focused, NEW k \in K \ m.sys.crossed
    PROVE /\ \A i \in 1..Len(m.wire) :
               Last(m.wire, KeyOf({k}), i) /\ NoneAfter(m.wire, FocusWord, i) /\ m.wire[i].down
                 => k \in m.sys.held
          /\ None(m.wire, FocusWord) /\ None(m.wire, KeyOf({k})) /\ k \in m.w.keys
               => k \in m.sys.held
  BY DEF KeysArrive
<1>4. n.sys.focused /\ k \in K \ n.sys.crossed
  BY DEF SameKeyboard
<1>5. KeyOf({k}) \subseteq Typing
  BY TypingKinds
<1>6. None(m.wire, KeyOf({k})) <=> None(n.wire, KeyOf({k}))
  BY <1>1, <1>5, ShiftedKind, Zenon
<1>7. ASSUME NEW i \in 1..Len(m.wire), Last(m.wire, KeyOf({k}), i),
             NoneAfter(m.wire, FocusWord, i), m.wire[i].down
      PROVE  k \in m.sys.held
  <2>1. Last(n.wire, KeyOf({k}), i + d)
    BY <1>1, <1>5, <1>7, ShiftedKind, Zenon
  <2>2. m.wire[i] \in Typing
    BY <1>5, <1>7 DEF Last
  <2>3. i + d \in 1..Len(n.wire) /\ m.wire[i] = n.wire[i + d]
    BY <2>2 DEF Shifted
  <2>4. i \in Int
    OBVIOUS
  <2>5. NoneAfter(n.wire, FocusWord, i + d)
    BY <1>1, <1>2, <1>7, <2>4, ShiftedKind, Zenon
  <2>6. k \in n.sys.held
    BY <1>4, <1>7, <2>1, <2>3, <2>5 DEF KeysArrive
  <2> QED BY <2>6 DEF SameKeyboard
<1> QED BY <1>3, <1>4, <1>6, <1>7 DEF KeysArrive, SameKeyboard

LEMMA ShiftsFramed ==
  ASSUME NEW M, NEW n \in State(M), NEW m \in State(M), SameKeyboard(n, m),
         NEW d \in Nat, Shifted(n.wire, m.wire, Typing, d), ShiftsTogether(n)
  PROVE  ShiftsTogether(m)
<1>1. n.wire \in Seq(M) /\ m.wire \in Seq(M)
  BY DEF State
<1>2. FocusWord \subseteq Typing /\ KeyOf(Shift) \subseteq Typing
  BY TypingKinds, NativeAssumption
<1>3. None(m.wire, FocusWord) <=> None(n.wire, FocusWord)
  BY <1>1, <1>2, ShiftedKind, Zenon
<1>4. None(m.wire, KeyOf(Shift)) <=> None(n.wire, KeyOf(Shift))
  BY <1>1, <1>2, ShiftedKind, Zenon
<1>5. ASSUME NEW i \in 1..Len(m.wire), m.wire[i] \in KeyOf(Shift), ~m.wire[i].down
      PROVE  m.wire[i].held \cap Shift = {}
  <2>1. i + d \in 1..Len(n.wire) /\ m.wire[i] = n.wire[i + d]
    BY <1>2, <1>5 DEF Shifted
  <2> QED BY <1>5, <2>1 DEF ShiftsTogether
<1>6. ASSUME m.sys.focused, m.sys.held \cap Shift = {}, NEW i \in 1..Len(m.wire),
             Last(m.wire, KeyOf(Shift), i), NoneAfter(m.wire, FocusWord, i)
      PROVE  ~m.wire[i].down
  <2>1. Last(n.wire, KeyOf(Shift), i + d)
    BY <1>1, <1>2, <1>6, ShiftedKind, Zenon
  <2>2. m.wire[i] \in Typing
    BY <1>2, <1>6 DEF Last
  <2>3. i + d \in 1..Len(n.wire) /\ m.wire[i] = n.wire[i + d]
    BY <2>2 DEF Shifted
  <2>4. i \in Int
    OBVIOUS
  <2>5. NoneAfter(n.wire, FocusWord, i + d)
    BY <1>1, <1>2, <1>6, <2>4, ShiftedKind, Zenon
  <2> QED BY <1>6, <2>1, <2>3, <2>5 DEF ShiftsTogether, SameKeyboard
<1> QED BY <1>3, <1>4, <1>5, <1>6 DEF ShiftsTogether, SameKeyboard

\* Taking turns, with the messages in other places.
LEMMA TurnsMoved ==
  ASSUME NEW S \in SUBSET Int, NEW T \in SUBSET Int, NEW s, NEW t, NEW d \in Nat,
         \A i \in T : i + d \in S /\ t[i].down = s[i + d].down,
         \A i \in S : i - d \in T,
         NEW believed, NEW held, Turns(S, s, believed, held)
  PROVE  Turns(T, t, believed, held)
<1>1. ASSUME NEW i \in T, \A j \in T : i <= j PROVE t[i].down = ~believed
  <2>1. ASSUME NEW j \in S PROVE i + d <= j
    <3>1. j - d \in T /\ i <= j - d /\ j \in Int /\ i \in Int
      BY <1>1
    <3> QED BY <3>1
  <2>2. i + d \in S
    OBVIOUS
  <2>3. s[i + d].down = ~believed
    BY <2>1, <2>2 DEF Turns
  <2> QED BY <2>3
<1>2. ASSUME NEW i \in T, NEW j \in T, i < j, \A l \in T : l <= i \/ j <= l
      PROVE  t[j].down = ~t[i].down
  <2>1. \A l \in S : l <= i + d \/ j + d <= l
    BY <1>2
  <2>2. i + d \in S /\ j + d \in S /\ i + d < j + d
    BY <1>2
  <2>3. s[j + d].down = ~s[i + d].down
    BY <2>1, <2>2 DEF Turns
  <2> QED BY <2>3
<1>3. ASSUME NEW i \in T, \A j \in T : j <= i PROVE t[i].down = held
  <2>1. ASSUME NEW j \in S PROVE j <= i + d
    <3>1. j - d \in T /\ j - d <= i /\ j \in Int /\ i \in Int
      BY <1>3
    <3> QED BY <3>1
  <2>2. i + d \in S
    OBVIOUS
  <2>3. s[i + d].down = held
    BY <2>1, <2>2 DEF Turns
  <2> QED BY <2>3
<1>4. ASSUME T = {} PROVE held = believed
  <2>1. S = {}
    BY <1>4
  <2> QED BY <2>1 DEF Turns
<1> QED BY <1>1, <1>2, <1>3, <1>4 DEF Turns

\* e is a turn after those of S.
Joins(S, T, s, t, e) ==
  T = S \cup {e} /\ \A i \in S : i < e /\ t[i].down = s[i].down

\* The next turn is taken.
LEMMA TurnTaken ==
  ASSUME NEW S \in SUBSET Int, NEW T \in SUBSET Int, NEW s, NEW t, NEW e \in Int,
         Joins(S, T, s, t, e),
         NEW believed \in BOOLEAN, NEW held \in BOOLEAN, Turns(S, s, believed, held),
         NEW now, now = ~held, t[e].down = now
  PROVE  Turns(T, t, believed, now)
<1> USE DEF Joins
<1>1. ASSUME NEW i \in T, \A j \in T : i <= j PROVE t[i].down = ~believed
  <2>1. CASE i \in S
    <3>1. \A j \in S : i <= j
      BY <1>1
    <3>2. s[i].down = ~believed
      BY <2>1, <3>1 DEF Turns
    <3> QED BY <2>1, <3>2
  <2>2. CASE i = e
    <3>1. S = {}
      BY <1>1, <2>2
    <3>2. held = believed
      BY <3>1 DEF Turns
    <3> QED BY <2>2, <3>2
  <2> QED BY <2>1, <2>2
<1>2. ASSUME NEW i \in T, NEW j \in T, i < j, \A l \in T : l <= i \/ j <= l
      PROVE  t[j].down = ~t[i].down
  <2>1. i \in S
    BY <1>2
  <2>2. CASE j \in S
    <3>1. \A l \in S : l <= i \/ j <= l
      BY <1>2
    <3>2. s[j].down = ~s[i].down
      BY <1>2, <2>1, <2>2, <3>1 DEF Turns
    <3> QED BY <2>1, <2>2, <3>2
  <2>3. CASE j = e
    <3>1. \A l \in S : l <= i
      BY <1>2, <2>3
    <3>2. s[i].down = held
      BY <2>1, <3>1 DEF Turns
    <3> QED BY <2>1, <2>3, <3>2
  <2> QED BY <2>2, <2>3
<1>3. ASSUME NEW i \in T, \A j \in T : j <= i PROVE t[i].down = now
  <2>1. i = e
    BY <1>3
  <2> QED BY <2>1
<1> QED BY <1>1, <1>2, <1>3 DEF Turns

\* A turn is read.
LEMMA TurnRead ==
  ASSUME NEW S \in SUBSET Int, NEW s, NEW e \in S, \A i \in S : e <= i,
         NEW believed \in BOOLEAN, NEW held \in BOOLEAN, Turns(S, s, believed, held)
  PROVE  Turns(S \ {e}, s, ~believed, held)
<1> DEFINE T == S \ {e}
<1>0. s[e].down = ~believed
  BY DEF Turns
<1>1. ASSUME NEW i \in T, \A j \in T : i <= j PROVE s[i].down = ~~believed
  <2>1. e < i /\ \A l \in S : l <= e \/ i <= l
    BY <1>1
  <2>2. s[i].down = ~s[e].down
    BY <2>1 DEF Turns
  <2> QED BY <1>0, <2>2
<1>2. ASSUME NEW i \in T, NEW j \in T, i < j, \A l \in T : l <= i \/ j <= l
      PROVE  s[j].down = ~s[i].down
  <2>1. \A l \in S : l <= i \/ j <= l
    BY <1>2
  <2> QED BY <1>2, <2>1 DEF Turns
<1>3. ASSUME NEW i \in T, \A j \in T : j <= i PROVE s[i].down = held
  <2>1. \A j \in S : j <= i
    BY <1>3
  <2> QED BY <2>1 DEF Turns
<1>4. ASSUME T = {} PROVE held = ~believed
  <2>1. \A j \in S : j <= e
    BY <1>4
  <2>2. s[e].down = held
    BY <2>1 DEF Turns
  <2> QED BY <1>0, <2>2
<1> QED BY <1>1, <1>2, <1>3, <1>4 DEF Turns

LEMMA MineMoved ==
  ASSUME NEW M, NEW n \in State(M), NEW m \in State(M), NEW d \in Nat, NEW k \in Key,
         NEW R, FocusWord \subseteq R, KeyOf({k}) \subseteq R, Shifted(n.wire, m.wire, R, d)
  PROVE  /\ Mine(n, k) \in SUBSET Int /\ Mine(m, k) \in SUBSET Int
         /\ \A i \in Mine(m, k) : i + d \in Mine(n, k) /\ m.wire[i].down = n.wire[i + d].down
         /\ \A i \in Mine(n, k) : i - d \in Mine(m, k)
         /\ None(m.wire, FocusWord) <=> None(n.wire, FocusWord)
<1>1. n.wire \in Seq(M) /\ m.wire \in Seq(M)
  BY DEF State
<1>2. Mine(n, k) \in SUBSET Int /\ Mine(m, k) \in SUBSET Int
  BY DEF Mine
<1>3. None(m.wire, FocusWord) <=> None(n.wire, FocusWord)
  BY <1>1, ShiftedKind, Zenon
<1>4. \A i \in Int : NoneAfter(m.wire, FocusWord, i) <=> NoneAfter(n.wire, FocusWord, i + d)
  BY <1>1, ShiftedKind, Zenon
<1>5. ASSUME NEW i \in Mine(m, k)
      PROVE  i + d \in Mine(n, k) /\ m.wire[i].down = n.wire[i + d].down
  <2>1. i \in 1..Len(m.wire) /\ m.wire[i] \in KeyOf({k}) /\ NoneAfter(m.wire, FocusWord, i)
        /\ i \in Int
    BY DEF Mine
  <2>2. i + d \in 1..Len(n.wire) /\ m.wire[i] = n.wire[i + d]
    BY <2>1 DEF Shifted
  <2> QED BY <1>4, <2>1, <2>2 DEF Mine
<1>6. ASSUME NEW i \in Mine(n, k) PROVE i - d \in Mine(m, k)
  <2>1. i \in 1..Len(n.wire) /\ n.wire[i] \in KeyOf({k}) /\ NoneAfter(n.wire, FocusWord, i)
        /\ i \in Int
    BY DEF Mine
  <2>2. i - d \in 1..Len(m.wire) /\ m.wire[i - d] = n.wire[i]
    BY <2>1 DEF Shifted
  <2>3. i - d \in Int /\ (i - d) + d = i
    BY <2>1
  <2>4. NoneAfter(m.wire, FocusWord, i - d)
    BY <1>4, <2>1, <2>3
  <2> QED BY <2>1, <2>2, <2>4 DEF Mine
<1> QED BY <1>2, <1>3, <1>5, <1>6

LEMMA TurnsFramed ==
  ASSUME NEW M, NEW n \in State(M), NEW m \in State(M), SameKeyboard(n, m),
         NEW d \in Nat, Shifted(n.wire, m.wire, Typing, d), TakeTurns(n)
  PROVE  TakeTurns(m)
<1> SUFFICES ASSUME m.sys.focused, NEW k \in Toggled \ (m.sys.odd \cup m.sys.crossed)
             PROVE  Turns(Mine(m, k), m.wire, Believed(m, k), k \in m.sys.held)
  BY DEF TakeTurns
<1>1. k \in Key
  BY NativeAssumption DEF Toggled
<1>2. FocusWord \subseteq Typing /\ KeyOf({k}) \subseteq Typing
  BY <1>1, TypingKinds
<1>3. /\ Mine(n, k) \in SUBSET Int /\ Mine(m, k) \in SUBSET Int
      /\ \A i \in Mine(m, k) : i + d \in Mine(n, k) /\ m.wire[i].down = n.wire[i + d].down
      /\ \A i \in Mine(n, k) : i - d \in Mine(m, k)
      /\ None(m.wire, FocusWord) <=> None(n.wire, FocusWord)
  BY <1>1, <1>2, MineMoved, Zenon
<1>4. Turns(Mine(n, k), n.wire, Believed(n, k), k \in n.sys.held)
  BY DEF TakeTurns, SameKeyboard
<1>5. Believed(m, k) = Believed(n, k) /\ (k \in m.sys.held) = (k \in n.sys.held)
  BY <1>3 DEF Believed, SameKeyboard
<1>6. \A S, T \in SUBSET Int : \A s, t, b, h :
        /\ \A i \in T : i + d \in S /\ t[i].down = s[i + d].down
        /\ \A i \in S : i - d \in T
        /\ Turns(S, s, b, h)
        => Turns(T, t, b, h)
  BY TurnsMoved
<1>7. Turns(Mine(m, k), m.wire, Believed(n, k), k \in n.sys.held)
  BY ONLY <1>3, <1>4, <1>6, Zenon
<1> QED BY <1>5, <1>7

-----------------------------------------------------------------------------
(* The system gives the focus or takes it *)

LEMMA FocusTold ==
  ASSUME NEW M, NEW n \in State(M), NEW x \in FocusWord, x \in M,
         FocusArrives(n), KeysExpire(n), n.sys.focused = ~x.on
  PROVE  LET m == Tell(Focused(n, x.on), x)
         IN /\ m \in State(M) /\ m.w = n.w /\ m.told = n.told /\ m.requests = n.requests
            /\ SameSizes(n, m) /\ SameLooks(n, m) /\ Mouse(m) = Mouse(n)
            /\ m.wire = Append(n.wire, x)
            /\ FocusArrives(m) /\ KeysExpire(m)
            /\ \A K : FreshArrive(m, K) /\ KeysArrive(m, K)
            /\ ShiftsTogether(n) => ShiftsTogether(m)
            /\ TakeTurns(m)
<1> DEFINE m == Tell(Focused(n, x.on), x)
           s == [n.sys EXCEPT !.focused = x.on, !.fresh = {},
                              !.odd = IF x.on THEN n.sys.held \cap Modifier ELSE {},
                              !.crossed = IF x.on THEN @ ELSE {}]
           p == [n EXCEPT !.sys = s]
<1>1. n.sys \in System /\ n.wire \in Seq(M) /\ x.on \in BOOLEAN /\ n.w \in Record
  BY DEF State, FocusWord
<1>2. /\ s \in System /\ s.focused = x.on /\ s.fresh = {} /\ s.held = n.sys.held
      /\ s.odd = (IF x.on THEN n.sys.held \cap Modifier ELSE {})
      /\ s.crossed = (IF x.on THEN n.sys.crossed ELSE {})
      /\ s.size = n.sys.size /\ s.scale = n.sys.scale /\ s.shown = n.sys.shown
      /\ s.mini = n.sys.mini /\ s.zoomed = n.sys.zoomed /\ s.full = n.sys.full
      /\ s.refused = n.sys.refused /\ s.here = n.sys.here /\ s.strayed = n.sys.strayed
      /\ s.capture = n.sys.capture
  BY <1>1, NativeAssumption DEF System
<1>3. Focused(n, x.on) = p
  BY DEF Focused
<1> HIDE DEF s
<1>4. p \in State(M) /\ p.w = n.w /\ p.told = n.told /\ p.sys = s /\ p.wire = n.wire
      /\ p.requests = n.requests
  BY <1>2 DEF State
<1> HIDE DEF p
<1>5. /\ m \in State(M) /\ m.w = n.w /\ m.told = n.told /\ m.sys = s
      /\ m.requests = n.requests /\ m.wire = Append(n.wire, x)
  BY <1>3, <1>4, MessageTold
<1> HIDE DEF m
<1> DEFINE t == m.wire
           e == Len(n.wire) + 1
<1>6. /\ t \in Seq(M) /\ Len(n.wire) \in Nat /\ Len(t) = e /\ t[e] = x
      /\ \A i \in 1..Len(n.wire) : i \in 1..Len(t) /\ i # e /\ t[i] = n.wire[i]
      /\ \A i \in 1..Len(t) : i \in 1..Len(n.wire) \/ i = e
      /\ e \in 1..Len(t)
  BY <1>1, <1>5, AppendAt
<1>7. /\ ~None(t, FocusWord)
      /\ \A i : Last(t, FocusWord, i) => i = e
      /\ \A i \in 1..Len(n.wire) : ~NoneAfter(t, FocusWord, i)
  BY <1>1, <1>5, AppendOwn, ZenonT(60)
<1>8. ASSUME x.on PROVE FocusArrives(m) /\ KeysExpire(m)
  <2>1. x \notin Off
    BY <1>8 DEF Off
  <2>2. None(t, Off) <=> None(n.wire, Off)
    BY <1>1, <1>5, <2>1, AppendOther, Zenon
  <2>3. \A i \in 1..Len(n.wire) : NoneAfter(t, Off, i) <=> NoneAfter(n.wire, Off, i)
    BY <1>1, <1>5, <2>1, AppendOther, Zenon
  <2>4. FocusArrives(m)
    <3>1. m.sys.focused = TRUE /\ m.sys.fresh = {} /\ m.w = n.w
      BY <1>2, <1>5, <1>8
    <3>2. \A i \in 1..Len(t) : Last(t, FocusWord, i) => t[i].on
      BY <1>6, <1>7, <1>8
    <3>3. ~n.w.focused => n.w.keys = {}
      BY DEF FocusArrives
    <3> QED BY <1>7, <3>1, <3>2, <3>3 DEF FocusArrives
  <2>5. ASSUME NEW i \in 1..Len(t), t[i] \in KeyOf(Key \ m.sys.crossed)
        PROVE  ~NoneAfter(t, Off, i)
    <3>1. i # e
      BY <1>6, <2>5 DEF KeyOf, FocusWord
    <3>2. i \in 1..Len(n.wire) /\ n.wire[i] \in KeyOf(Key \ n.sys.crossed)
      BY <1>2, <1>5, <1>6, <1>8, <2>5, <3>1
    <3>3. ~n.sys.focused
      BY <1>8
    <3>4. ~NoneAfter(n.wire, Off, i)
      BY <3>2, <3>3 DEF KeysExpire
    <3> QED BY <2>3, <3>2, <3>4
  <2>6. KeysExpire(m)
    BY <1>2, <1>5, <1>8, <2>2, <2>5 DEF KeysExpire
  <2> QED BY <2>4, <2>6
<1>9. ASSUME ~x.on PROVE FocusArrives(m) /\ KeysExpire(m)
  <2>1. x \in Off
    BY <1>1, <1>9 DEF Off, FocusWord
  <2>2. ~None(t, Off) /\ \A i \in 1..Len(n.wire) : ~NoneAfter(t, Off, i)
    BY <1>1, <1>5, <2>1, AppendOwn, ZenonT(60)
  <2>3. FocusArrives(m)
    BY <1>2, <1>5, <1>9, <2>2 DEF FocusArrives
  <2>4. \A i \in 1..Len(t) : t[i] \in KeyOf(Key \ m.sys.crossed) => i # e
    BY <1>6 DEF KeyOf, FocusWord
  <2>5. KeysExpire(m)
    BY <1>6, <2>2, <2>4 DEF KeysExpire
  <2> QED BY <2>3, <2>5
<1>10. FocusArrives(m) /\ KeysExpire(m)
  BY <1>8, <1>9
<1>11. \A K : FreshArrive(m, K)
  BY <1>2, <1>5 DEF FreshArrive
<1>12. \A K, i : Last(t, KeyOf(K), i) => i # e
  <2>1. \A K : t[e] \notin KeyOf(K)
    BY <1>6 DEF KeyOf, FocusWord
  <2> QED BY <2>1 DEF Last
<1>13. ASSUME NEW K PROVE KeysArrive(m, K)
  <2>1. ASSUME NEW k, NEW i \in 1..Len(t), Last(t, KeyOf({k}), i)
        PROVE  ~NoneAfter(t, FocusWord, i)
    <3>1. i # e
      BY <1>12, <2>1
    <3> QED BY <1>6, <1>7, <3>1
  <2> QED BY <1>7, <2>1 DEF KeysArrive
<1>14. ASSUME ShiftsTogether(n) PROVE ShiftsTogether(m)
  <2>1. \A i \in 1..Len(t) : Last(t, KeyOf(Shift), i) => ~NoneAfter(t, FocusWord, i)
    BY <1>6, <1>7, <1>12
  <2>2. ASSUME NEW i \in 1..Len(t), t[i] \in KeyOf(Shift), ~t[i].down
        PROVE  t[i].held \cap Shift = {}
    <3>1. i # e
      BY <1>6, <2>2 DEF KeyOf, FocusWord
    <3>2. i \in 1..Len(n.wire) /\ t[i] = n.wire[i]
      BY <1>6, <3>1
    <3> QED BY <1>14, <2>2, <3>2 DEF ShiftsTogether
  <2> QED BY <1>7, <2>1, <2>2 DEF ShiftsTogether
<1>15. TakeTurns(m)
  <2> SUFFICES ASSUME m.sys.focused, NEW k \in Toggled \ (m.sys.odd \cup m.sys.crossed)
               PROVE  Turns(Mine(m, k), m.wire, Believed(m, k), k \in m.sys.held)
    BY DEF TakeTurns
  <2>1. Mine(m, k) = {}
    BY <1>6, <1>7 DEF Mine, KeyOf, FocusWord
  <2>2. ~Believed(m, k)
    BY <1>7 DEF Believed
  <2>3. k \notin m.sys.held
    BY <1>2, <1>5 DEF Toggled
  <2> QED BY <2>1, <2>2, <2>3 DEF Turns, Believed
<1>16. SameSizes(n, m) /\ SameLooks(n, m) /\ Mouse(m) = Mouse(n)
  BY <1>2, <1>5 DEF SameSizes, SameLooks, Mouse
<1> QED BY <1>5, <1>10, <1>11, <1>13, <1>14, <1>15, <1>16 DEF m

-----------------------------------------------------------------------------
(* The window goes out of sight *)

LEMMA SightLost ==
  ASSUME NEW M, NEW n \in State(M), FocusArrives(n)
  PROVE  LET m == Unfocused(n)
         IN /\ FocusArrives(m) /\ KeysExpire(m)
            /\ \A K : FreshArrive(m, K) /\ KeysArrive(m, K)
            /\ ShiftsTogether(n) => ShiftsTogether(m)
            /\ TakeTurns(m)
<1> DEFINE m == Unfocused(n)
<1>1. /\ m \in State(M) /\ m.wire = n.wire
      /\ m.w.focused = FALSE /\ m.w.keys = (IF n.w.focused THEN {} ELSE n.w.keys)
      /\ m.sys.focused = FALSE /\ m.sys.held = n.sys.held /\ m.sys.odd = {}
      /\ m.sys.crossed = Underway(n.wire) /\ m.sys.fresh = {}
  BY FocusLost
<1> HIDE DEF m
<1>2. n.w.focused \in BOOLEAN /\ n.wire \in Seq(M)
  BY DEF State, Record
<1>3. m.w.keys = {}
  BY <1>1, <1>2 DEF FocusArrives
<1>4. FocusArrives(m)
  BY <1>1, <1>3 DEF FocusArrives
<1>5. ASSUME NEW i \in 1..Len(m.wire), m.wire[i] \in KeyOf(Key \ m.sys.crossed) PROVE FALSE
  <2>1. i \in DOMAIN n.wire /\ n.wire[i].type = "key" /\ n.wire[i].key \in Key
        /\ n.wire[i].key \notin Underway(n.wire)
    BY <1>1, <1>2, <1>5 DEF KeyOf
  <2> QED BY <2>1 DEF Underway
<1>6. KeysExpire(m)
  BY <1>3, <1>5 DEF KeysExpire
<1>7. \A K : FreshArrive(m, K)
  BY <1>1 DEF FreshArrive
<1>8. \A K : KeysArrive(m, K)
  BY <1>1 DEF KeysArrive
<1>9. ShiftsTogether(n) => ShiftsTogether(m)
  BY <1>1 DEF ShiftsTogether
<1>10. TakeTurns(m)
  BY <1>1 DEF TakeTurns
<1> QED BY <1>4, <1>6, <1>7, <1>8, <1>9, <1>10 DEF m

-----------------------------------------------------------------------------
(* The user types *)

\* The window with the focus is told of a key.
Tells(n, m, x) ==
  /\ m.wire = Append(n.wire, x)
  /\ m.w.focused = n.w.focused /\ m.w.keys = n.w.keys
  /\ n.sys.focused = TRUE /\ m.sys.focused = TRUE
  /\ m.sys.odd = n.sys.odd /\ m.sys.crossed = n.sys.crossed
  /\ m.sys.held = IF x.down THEN n.sys.held \cup {x.key} ELSE n.sys.held \ {x.key}
  /\ m.sys.fresh = IF x.down THEN n.sys.fresh \cup {x.key} ELSE n.sys.fresh \ {x.key}
  /\ x.held = m.sys.held

LEMMA KeyTold ==
  ASSUME NEW M, NEW n \in State(M), NEW m \in State(M), NEW x \in KeyOf(Key), x \in M,
         Tells(n, m, x), FocusArrives(n), KeysExpire(n)
  PROVE  FocusArrives(m) /\ KeysExpire(m)
<1> DEFINE t == m.wire
           e == Len(n.wire) + 1
<1>1. n.wire \in Seq(M) /\ t = Append(n.wire, x)
  BY DEF State, Tells
<1>2. /\ t \in Seq(M) /\ Len(n.wire) \in Nat /\ Len(t) = e /\ t[e] = x
      /\ \A i \in 1..Len(n.wire) : i \in 1..Len(t) /\ i # e /\ t[i] = n.wire[i]
      /\ \A i \in 1..Len(t) : i \in 1..Len(n.wire) \/ i = e
      /\ e \in 1..Len(t)
  BY <1>1, AppendAt
<1>3. x \notin FocusWord /\ x \notin Off
  BY TypingKinds
<1>4. None(t, Off) <=> None(n.wire, Off)
  BY <1>1, <1>3, AppendOther, Zenon
<1>5. None(t, FocusWord) <=> None(n.wire, FocusWord)
  BY <1>1, <1>3, AppendOther, Zenon
<1>6. \A i : Last(t, FocusWord, i) => Last(n.wire, FocusWord, i)
  BY <1>1, <1>3, AppendOther, Zenon
<1>7. \A i \in 1..Len(n.wire) : NoneAfter(t, Off, i) <=> NoneAfter(n.wire, Off, i)
  BY <1>1, <1>3, AppendOther, Zenon
<1>8. \A i \in 1..Len(n.wire) : NoneAfter(t, FocusWord, i) <=> NoneAfter(n.wire, FocusWord, i)
  BY <1>1, <1>3, AppendOther, Zenon
<1>9. ASSUME NEW i \in 1..Len(t), Last(t, FocusWord, i) PROVE t[i].on
  <2>1. Last(n.wire, FocusWord, i)
    BY <1>6, <1>9
  <2>2. i \in 1..Len(n.wire)
    BY <2>1 DEF Last
  <2> QED BY <1>2, <2>1, <2>2 DEF FocusArrives, Tells
<1>10. m.sys.fresh \subseteq m.sys.held
  BY DEF FocusArrives, Tells
<1>11. FocusArrives(m)
  BY <1>5, <1>9, <1>10 DEF FocusArrives, Tells
<1>12. NoneAfter(t, FocusWord, e)
  BY <1>1, NoneAfterLast
<1>13. ASSUME NEW i \in 1..Len(t), t[i] \in KeyOf(Key \ m.sys.crossed)
       PROVE  \/ ~NoneAfter(t, Off, i)
              \/ m.sys.focused /\ NoneAfter(t, FocusWord, i)
  <2>1. CASE i = e
    BY <1>12, <2>1 DEF Tells
  <2>2. CASE i \in 1..Len(n.wire)
    BY <1>2, <1>7, <1>8, <1>13, <2>2 DEF KeysExpire, Tells
  <2> QED BY <1>2, <2>1, <2>2
<1>14. KeysExpire(m)
  BY <1>4, <1>5, <1>13 DEF KeysExpire, Tells
<1> QED BY <1>11, <1>14

LEMMA KeyToldArrives ==
  ASSUME NEW M, NEW n \in State(M), NEW m \in State(M), NEW x \in KeyOf(Key), x \in M,
         Tells(n, m, x), NEW K, FreshArrive(n, K), KeysArrive(n, K)
  PROVE  FreshArrive(m, K) /\ KeysArrive(m, K)
<1> DEFINE t == m.wire
           e == Len(n.wire) + 1
<1>1. n.wire \in Seq(M) /\ t = Append(n.wire, x)
  BY DEF State, Tells
<1>2. /\ t \in Seq(M) /\ Len(n.wire) \in Nat /\ Len(t) = e /\ t[e] = x
      /\ \A i \in 1..Len(n.wire) : i \in 1..Len(t) /\ i # e /\ t[i] = n.wire[i]
      /\ \A i \in 1..Len(t) : i \in 1..Len(n.wire) \/ i = e
      /\ e \in 1..Len(t)
  BY <1>1, AppendAt
<1>3. x \notin FocusWord
  BY TypingKinds
<1>4. None(t, FocusWord) <=> None(n.wire, FocusWord)
  BY <1>1, <1>3, AppendOther, Zenon
<1>5. \A i \in 1..Len(n.wire) : NoneAfter(t, FocusWord, i) <=> NoneAfter(n.wire, FocusWord, i)
  BY <1>1, <1>3, AppendOther, Zenon
<1>6. NoneAfter(t, FocusWord, e)
  BY <1>1, NoneAfterLast
<1>7. x \in KeyOf({x.key}) /\ x.down \in BOOLEAN
  BY DEF KeyOf
<1>8. /\ ~None(t, KeyOf({x.key})) /\ Last(t, KeyOf({x.key}), e)
      /\ \A i : Last(t, KeyOf({x.key}), i) => i = e
  <2> DEFINE K1 == KeyOf({x.key})
  <2> HIDE DEF K1, t
  <2>1. x \in K1
    BY <1>7 DEF K1
  <2>2. ~None(t, K1)
    BY <1>1, <2>1, AppendOwn, Zenon
  <2>3. Last(t, K1, e)
    BY <1>1, <2>1, AppendOwn, Zenon
  <2>4. \A i : Last(t, K1, i) => i = e
    BY <1>1, <2>1, AppendOwn, Zenon
  <2> QED BY <2>2, <2>3, <2>4 DEF K1
<1>9. ASSUME NEW k, k # x.key
      PROVE  /\ None(t, KeyOf({k})) <=> None(n.wire, KeyOf({k}))
             /\ \A i : Last(t, KeyOf({k}), i) <=> Last(n.wire, KeyOf({k}), i)
  <2>1. x \notin KeyOf({k})
    BY <1>9 DEF KeyOf
  <2>2. None(t, KeyOf({k})) <=> None(n.wire, KeyOf({k}))
    BY <1>1, <2>1, AppendOther, Zenon
  <2>3. \A i : Last(t, KeyOf({k}), i) => Last(n.wire, KeyOf({k}), i)
    BY <1>1, <2>1, AppendOther, Zenon
  <2>4. \A i : Last(n.wire, KeyOf({k}), i) => Last(t, KeyOf({k}), i)
    BY <1>1, <2>1, AppendOther, Zenon
  <2> QED BY <2>2, <2>3, <2>4
<1>10. ASSUME NEW k \in m.sys.fresh \cap K
       PROVE  \/ \E i \in 1..Len(t) : /\ Last(t, KeyOf({k}), i) /\ t[i].down
                                      /\ NoneAfter(t, FocusWord, i)
              \/ None(t, FocusWord) /\ None(t, KeyOf({k})) /\ k \in m.w.keys
  <2>1. CASE k = x.key
    <3>1. x.down
      BY <1>7, <2>1 DEF Tells
    <3> QED BY <1>2, <1>6, <1>8, <2>1, <3>1
  <2>2. CASE k # x.key
    <3>1. k \in n.sys.fresh \cap K
      BY <2>2 DEF Tells
    <3>2. CASE None(n.wire, FocusWord) /\ None(n.wire, KeyOf({k})) /\ k \in n.w.keys
      BY <1>4, <1>9, <2>2, <3>2 DEF Tells
    <3>3. ASSUME NEW i \in 1..Len(n.wire), Last(n.wire, KeyOf({k}), i), n.wire[i].down,
                 NoneAfter(n.wire, FocusWord, i)
          PROVE  /\ i \in 1..Len(t) /\ Last(t, KeyOf({k}), i) /\ t[i].down
                 /\ NoneAfter(t, FocusWord, i)
      BY <1>2, <1>5, <1>9, <2>2, <3>3
    <3> QED BY <3>1, <3>2, <3>3 DEF FreshArrive
  <2> QED BY <2>1, <2>2
<1>11. FreshArrive(m, K)
  BY <1>10 DEF FreshArrive
<1>12. ASSUME NEW k \in K \ m.sys.crossed
       PROVE  /\ \A i \in 1..Len(t) :
                   Last(t, KeyOf({k}), i) /\ NoneAfter(t, FocusWord, i) /\ t[i].down
                     => k \in m.sys.held
              /\ None(t, FocusWord) /\ None(t, KeyOf({k})) /\ k \in m.w.keys
                   => k \in m.sys.held
  <2>1. CASE k = x.key
    <3>1. x.down => k \in m.sys.held
      BY <2>1 DEF Tells
    <3> QED BY <1>2, <1>8, <2>1, <3>1
  <2>2. CASE k # x.key
    <3>1. k \in K \ n.sys.crossed /\ n.sys.focused
          /\ (k \in m.sys.held <=> k \in n.sys.held)
      BY <2>2 DEF Tells
    <3>2. ASSUME NEW i \in 1..Len(t), Last(t, KeyOf({k}), i), NoneAfter(t, FocusWord, i),
                 t[i].down
          PROVE  k \in n.sys.held
      <4>1. Last(n.wire, KeyOf({k}), i)
        BY <1>9, <2>2, <3>2
      <4>2. i \in 1..Len(n.wire)
        BY <4>1 DEF Last
      <4> QED BY <1>2, <1>5, <3>1, <3>2, <4>1, <4>2 DEF KeysArrive
    <3>3. ASSUME None(t, FocusWord), None(t, KeyOf({k})), k \in m.w.keys
          PROVE  k \in n.sys.held
      BY <1>4, <1>9, <2>2, <3>1, <3>3 DEF KeysArrive, Tells
    <3> QED BY <3>1, <3>2, <3>3
  <2> QED BY <2>1, <2>2
<1>13. KeysArrive(m, K)
  BY <1>12 DEF KeysArrive
<1> QED BY <1>11, <1>13

LEMMA KeyToldShifts ==
  ASSUME NEW M, NEW n \in State(M), NEW m \in State(M), NEW x \in KeyOf(Key), x \in M,
         Tells(n, m, x), ShiftsTogether(n),
         x.key \in Shift /\ ~x.down => n.sys.held \cap Shift = {x.key}
  PROVE  ShiftsTogether(m)
<1> DEFINE t == m.wire
           e == Len(n.wire) + 1
<1>1. n.wire \in Seq(M) /\ t = Append(n.wire, x)
  BY DEF State, Tells
<1>2. /\ t \in Seq(M) /\ Len(n.wire) \in Nat /\ Len(t) = e /\ t[e] = x
      /\ \A i \in 1..Len(n.wire) : i \in 1..Len(t) /\ i # e /\ t[i] = n.wire[i]
      /\ \A i \in 1..Len(t) : i \in 1..Len(n.wire) \/ i = e
      /\ e \in 1..Len(t)
  BY <1>1, AppendAt
<1>3. x \notin FocusWord /\ x.down \in BOOLEAN
  BY TypingKinds DEF KeyOf
<1>4. None(t, FocusWord) <=> None(n.wire, FocusWord)
  BY <1>1, <1>3, AppendOther, Zenon
<1>5. \A i \in 1..Len(n.wire) : NoneAfter(t, FocusWord, i) <=> NoneAfter(n.wire, FocusWord, i)
  BY <1>1, <1>3, AppendOther, Zenon
<1>6. ASSUME NEW i \in 1..Len(t), t[i] \in KeyOf(Shift), ~t[i].down
      PROVE  t[i].held \cap Shift = {}
  <2>1. CASE i = e
    <3>1. x.key \in Shift /\ ~x.down
      BY <1>2, <1>6, <2>1 DEF KeyOf
    <3>2. x.held = n.sys.held \ {x.key}
      BY <3>1 DEF Tells
    <3> QED BY <1>2, <2>1, <3>1, <3>2
  <2>2. CASE i \in 1..Len(n.wire)
    BY <1>2, <1>6, <2>2 DEF ShiftsTogether
  <2> QED BY <1>2, <2>1, <2>2
<1>7. ASSUME m.sys.held \cap Shift = {}
      PROVE  /\ \A i \in 1..Len(t) :
                  Last(t, KeyOf(Shift), i) /\ NoneAfter(t, FocusWord, i) => ~t[i].down
             /\ None(t, FocusWord) /\ None(t, KeyOf(Shift))
                  => m.w.keys \cap Shift \subseteq m.sys.crossed
  <2>1. CASE x.key \in Shift
    <3>1. x \in KeyOf(Shift)
      BY <2>1 DEF KeyOf
    <3>2. ~None(t, KeyOf(Shift)) /\ \A i : Last(t, KeyOf(Shift), i) => i = e
      BY <1>1, <3>1, AppendOwn
    <3>3. ~x.down
      BY <1>3, <1>7, <2>1 DEF Tells
    <3> QED BY <1>2, <3>2, <3>3
  <2>2. CASE x.key \notin Shift
    <3>1. x \notin KeyOf(Shift)
      BY <2>2 DEF KeyOf
    <3>2. None(t, KeyOf(Shift)) <=> None(n.wire, KeyOf(Shift))
      BY <1>1, <3>1, AppendOther, Zenon
    <3>3. \A i : Last(t, KeyOf(Shift), i) => Last(n.wire, KeyOf(Shift), i)
      BY <1>1, <3>1, AppendOther, Zenon
    <3>4. n.sys.held \cap Shift = {} /\ n.sys.focused
      BY <1>7, <2>2 DEF Tells
    <3>5. ASSUME NEW i \in 1..Len(t), Last(t, KeyOf(Shift), i), NoneAfter(t, FocusWord, i)
          PROVE  ~t[i].down
      <4>1. Last(n.wire, KeyOf(Shift), i)
        BY <3>3, <3>5
      <4>2. i \in 1..Len(n.wire)
        BY <4>1 DEF Last
      <4> QED BY <1>2, <1>5, <3>4, <3>5, <4>1, <4>2 DEF ShiftsTogether
    <3>6. None(t, FocusWord) /\ None(t, KeyOf(Shift))
            => m.w.keys \cap Shift \subseteq m.sys.crossed
      BY <1>4, <3>2, <3>4 DEF ShiftsTogether, Tells
    <3> QED BY <3>5, <3>6
  <2> QED BY <2>1, <2>2
<1> QED BY <1>6, <1>7 DEF ShiftsTogether

LEMMA KeyToldTurns ==
  ASSUME NEW M, NEW n \in State(M), NEW m \in State(M), NEW x \in KeyOf(Key), x \in M,
         Tells(n, m, x), TakeTurns(n), x.down <=> x.key \notin n.sys.held
  PROVE  TakeTurns(m)
<1> SUFFICES ASSUME NEW k \in Toggled \ (m.sys.odd \cup m.sys.crossed)
             PROVE  Turns(Mine(m, k), m.wire, Believed(m, k), k \in m.sys.held)
  BY DEF TakeTurns
<1> DEFINE t == m.wire
           e == Len(n.wire) + 1
<1>1. n.wire \in Seq(M) /\ t = Append(n.wire, x) /\ k \in Key
  BY NativeAssumption DEF State, Tells, Toggled
<1>2. /\ t \in Seq(M) /\ Len(n.wire) \in Nat /\ Len(t) = e /\ t[e] = x
      /\ \A i \in 1..Len(n.wire) : i \in 1..Len(t) /\ i # e /\ t[i] = n.wire[i]
      /\ \A i \in 1..Len(t) : i \in 1..Len(n.wire) \/ i = e
      /\ e \in 1..Len(t)
  BY <1>1, AppendAt
<1>3. x \notin FocusWord /\ x.down \in BOOLEAN
  BY TypingKinds DEF KeyOf
<1>4. Turns(Mine(n, k), n.wire, Believed(n, k), k \in n.sys.held)
  BY DEF TakeTurns, Tells
<1>5. None(t, FocusWord) <=> None(n.wire, FocusWord)
  BY <1>1, <1>3, AppendOther, Zenon
<1>6. Believed(m, k) = Believed(n, k) /\ Believed(n, k) \in BOOLEAN
  BY <1>5 DEF Believed, Tells
<1>7. \A i \in 1..Len(n.wire) : NoneAfter(t, FocusWord, i) <=> NoneAfter(n.wire, FocusWord, i)
  BY <1>1, <1>3, AppendOther, Zenon
<1>8. NoneAfter(t, FocusWord, e)
  BY <1>1, NoneAfterLast
<1>9. CASE x.key = k
  <2>1. x \in KeyOf({k})
    BY <1>9 DEF KeyOf
  <2>2. Mine(m, k) = Mine(n, k) \cup {e}
    BY <1>2, <1>7, <1>8, <2>1 DEF Mine
  <2>3. \A i \in Mine(n, k) : i < e /\ t[i].down = n.wire[i].down
    BY <1>2 DEF Mine
  <2>4. Mine(n, k) \in SUBSET Int /\ Mine(m, k) \in SUBSET Int /\ e \in Int
    BY <1>2 DEF Mine
  <2>5. (k \in m.sys.held) = ~(k \in n.sys.held) /\ t[e].down = ~(k \in n.sys.held)
    BY <1>2, <1>3, <1>9 DEF Tells
  <2> DEFINE h == k \in n.sys.held
             b == Believed(n, k)
             S == Mine(n, k)
             T == Mine(m, k)
             s == n.wire
  <2>7. h \in BOOLEAN /\ b \in BOOLEAN
    BY <1>6
  <2>8. Turns(S, s, b, h) /\ T = S \cup {e} /\ t[e].down = ~h
        /\ (\A i \in S : i < e /\ t[i].down = s[i].down)
        /\ S \in SUBSET Int /\ T \in SUBSET Int /\ e \in Int
    BY <1>4, <2>2, <2>3, <2>4, <2>5
  <2> HIDE DEF h, b, S, T, s, t, e
  <2>9. Turns(T, t, b, ~h)
    <3> DEFINE now == ~h
    <3>1. now = ~h /\ t[e].down = now
      BY <2>8
    <3> HIDE DEF now
    <3>2. Turns(S, s, b, h)
      BY <2>8
    <3>3. S \in SUBSET Int /\ T \in SUBSET Int /\ e \in Int
      BY <2>8
    <3>5. Joins(S, T, s, t, e)
      BY <2>8 DEF Joins
    <3>4. Turns(T, t, b, now)
      BY ONLY <2>7, <3>1, <3>2, <3>3, <3>5, TurnTaken
    <3> QED BY <3>4 DEF now
  <2> USE DEF h, b, T, t
  <2> QED BY <1>6, <2>5, <2>9
<1>10. CASE x.key # k
  <2>1. x \notin KeyOf({k}) /\ x \notin FocusWord \cup KeyOf({k})
    BY <1>3, <1>10 DEF KeyOf
  <2>2. Shifted(n.wire, t, FocusWord \cup KeyOf({k}), 0)
    BY <1>1, <2>1, ShiftedAppend
  <2>3. /\ Mine(n, k) \in SUBSET Int /\ Mine(m, k) \in SUBSET Int
        /\ \A i \in Mine(m, k) : i + 0 \in Mine(n, k) /\ m.wire[i].down = n.wire[i + 0].down
        /\ \A i \in Mine(n, k) : i - 0 \in Mine(m, k)
    <3> DEFINE R == FocusWord \cup KeyOf({k})
    <3>1. FocusWord \subseteq R /\ KeyOf({k}) \subseteq R /\ 0 \in Nat
      OBVIOUS
    <3>2. Shifted(n.wire, m.wire, R, 0)
      BY <2>2
    <3> HIDE DEF t, R
    <3>3. /\ Mine(n, k) \in SUBSET Int /\ Mine(m, k) \in SUBSET Int
          /\ \A i \in Mine(m, k) : i + 0 \in Mine(n, k) /\ m.wire[i].down = n.wire[i + 0].down
          /\ \A i \in Mine(n, k) : i - 0 \in Mine(m, k)
          /\ None(m.wire, FocusWord) <=> None(n.wire, FocusWord)
      BY <1>1, <3>1, <3>2, MineMoved
    <3> QED BY <3>3
  <2>4. (k \in m.sys.held) = (k \in n.sys.held)
    BY <1>10 DEF Tells
  <2>5. \A S, T \in SUBSET Int : \A s, u, b, h :
        /\ \A i \in T : i + 0 \in S /\ u[i].down = s[i + 0].down
        /\ \A i \in S : i - 0 \in T
        /\ Turns(S, s, b, h)
        => Turns(T, u, b, h)
    BY TurnsMoved
  <2>6. Turns(Mine(m, k), m.wire, Believed(n, k), k \in n.sys.held)
    BY ONLY <1>4, <2>3, <2>5, Zenon
  <2> QED BY <1>6, <2>4, <2>6
<1> QED BY <1>9, <1>10

-----------------------------------------------------------------------------
(* libnack reads that the focus came or went *)

Reads(n, m) ==
  /\ n.wire # << >> /\ m.wire = Tail(n.wire)
  /\ m.sys.focused = n.sys.focused /\ m.sys.held = n.sys.held /\ m.sys.odd = n.sys.odd
  /\ m.sys.crossed = n.sys.crossed /\ m.sys.fresh = n.sys.fresh

\* The gift of a focus that has gone again is ignored.
Refocused(n, m) ==
  IF Head(n.wire).on /\ ~n.sys.focused
  THEN m.w.focused = n.w.focused /\ m.w.keys = n.w.keys
  ELSE /\ m.w.focused = Head(n.wire).on
       /\ m.w.keys = IF n.w.focused = Head(n.wire).on \/ Head(n.wire).on
                     THEN n.w.keys ELSE {}

LEMMA FocusRead ==
  ASSUME NEW M, NEW n \in State(M), NEW m \in State(M), Reads(n, m), Refocused(n, m),
         Head(n.wire) \in FocusWord, FocusArrives(n), KeysExpire(n)
  PROVE  /\ FocusArrives(m) /\ KeysExpire(m)
         /\ None(m.wire, FocusWord) => m.w.keys \subseteq m.sys.crossed
<1> DEFINE s == n.wire
           t == m.wire
           x == Head(s)
<1>1. /\ s \in Seq(M) /\ s # << >> /\ t = Tail(s) /\ x \in FocusWord /\ x.on \in BOOLEAN
      /\ n.w.focused \in BOOLEAN /\ n.sys.focused \in BOOLEAN
  BY DEF State, Reads, FocusWord, Record, System
<1>2. /\ 1 \in 1..Len(s) /\ x = s[1] /\ Len(s) \in Nat
      /\ \A i \in 1..Len(t) : i + 1 \in 1..Len(s) /\ t[i] = s[i + 1]
  BY <1>1, TailAt
<1>3. ~None(s, FocusWord)
  BY <1>1, <1>2 DEF None
<1>4. None(t, Off) => None(s, Off) \/ x \in Off
  <2>1. None(s, Off) <=> (s[1] \notin Off /\ None(t, Off))
    BY <1>1, TailKind, Zenon
  <2> QED BY <1>2, <2>1
<1>5. None(t, FocusWord) => Last(s, FocusWord, 1)
  <2>1. None(t, FocusWord) /\ s[1] \in FocusWord => Last(s, FocusWord, 1)
    BY <1>1, TailKind, Zenon
  <2> QED BY <1>1, <1>2, <2>1
<1>6. \A i : Last(t, FocusWord, i) => Last(s, FocusWord, i + 1)
  BY <1>1, TailKind, Zenon
<1>7. \A i \in 1..Len(t) : NoneAfter(t, Off, i) <=> NoneAfter(s, Off, i + 1)
  BY <1>1, TailKind, Zenon
<1>8. \A i \in 1..Len(t) : NoneAfter(t, FocusWord, i) <=> NoneAfter(s, FocusWord, i + 1)
  BY <1>1, TailKind, Zenon
<1>9. x \in Off <=> ~x.on
  BY <1>1 DEF Off, FocusWord
<1>10. m.w.keys \subseteq n.w.keys
  BY <1>1 DEF Refocused
<1>11. ~m.w.focused => m.w.keys = {}
  BY <1>1 DEF FocusArrives, Refocused
<1>12. ~m.sys.focused /\ m.w.focused => ~None(t, Off)
  <2> SUFFICES ASSUME ~n.sys.focused, m.w.focused PROVE ~None(t, Off)
    BY DEF Reads
  <2>1. x.on
    BY <1>1 DEF Refocused
  <2>2. n.w.focused
    BY <2>1 DEF Refocused
  <2>3. ~None(s, Off)
    BY <2>2 DEF FocusArrives
  <2> QED BY <1>4, <1>9, <2>1, <2>3
<1>13. ASSUME m.sys.focused, NEW i \in 1..Len(t), Last(t, FocusWord, i) PROVE t[i].on
  <2>1. Last(s, FocusWord, i + 1) /\ i + 1 \in 1..Len(s) /\ t[i] = s[i + 1]
    BY <1>2, <1>6, <1>13
  <2> QED BY <1>13, <2>1 DEF FocusArrives, Reads
<1>14. ASSUME m.sys.focused, None(t, FocusWord) PROVE m.w.focused
  <2>1. Last(s, FocusWord, 1)
    BY <1>5, <1>14
  <2>2. x.on
    BY <1>2, <1>14, <2>1 DEF FocusArrives, Reads
  <2> QED BY <1>1, <1>14, <2>2 DEF Refocused, Reads
<1>15. FocusArrives(m)
  BY <1>11, <1>12, <1>13, <1>14 DEF FocusArrives, Reads
<1>16. ~(m.w.keys \subseteq m.sys.crossed) => ~None(t, Off)
  <2> SUFFICES ASSUME ~(m.w.keys \subseteq n.sys.crossed) PROVE ~None(t, Off)
    BY DEF Reads
  <2>1. ~None(s, Off)
    BY <1>3, <1>10 DEF KeysExpire
  <2>2. x.on
    BY <1>1, <1>11 DEF Refocused
  <2> QED BY <1>4, <1>9, <2>1, <2>2
<1>17. None(t, FocusWord) => None(t, Off)
  BY TypingKinds DEF None
<1>18. ASSUME NEW i \in 1..Len(t), t[i] \in KeyOf(Key \ m.sys.crossed)
       PROVE  \/ ~NoneAfter(t, Off, i)
              \/ m.sys.focused /\ NoneAfter(t, FocusWord, i)
  <2>1. i + 1 \in 1..Len(s) /\ s[i + 1] \in KeyOf(Key \ n.sys.crossed)
    BY <1>2, <1>18 DEF Reads
  <2> QED BY <1>7, <1>8, <2>1 DEF KeysExpire, Reads
<1>19. KeysExpire(m)
  BY <1>16, <1>18 DEF KeysExpire
<1> QED BY <1>15, <1>16, <1>17, <1>19

LEMMA FocusReadArrives ==
  ASSUME NEW M, NEW n \in State(M), NEW m \in State(M), Reads(n, m),
         Head(n.wire) \in FocusWord,
         None(m.wire, FocusWord) => m.w.keys \subseteq m.sys.crossed
  PROVE  /\ \A K : FreshArrive(n, K) => FreshArrive(m, K)
         /\ \A K : KeysArrive(n, K) => KeysArrive(m, K)
         /\ ShiftsTogether(n) => ShiftsTogether(m)
         /\ TakeTurns(n) => TakeTurns(m)
<1> DEFINE s == n.wire
           t == m.wire
           x == Head(s)
<1>1. /\ s \in Seq(M) /\ s # << >> /\ t = Tail(s) /\ x \in FocusWord
  BY DEF State, Reads
<1>2. /\ t \in Seq(M) /\ Len(s) \in Nat /\ 1 \in 1..Len(s) /\ x = s[1]
      /\ \A i \in 1..Len(t) : i + 1 \in 1..Len(s) /\ t[i] = s[i + 1]
      /\ \A i \in 1..Len(s) : i = 1 \/ (i > 1 /\ i - 1 \in 1..Len(t) /\ t[i - 1] = s[i])
  BY <1>1, TailAt
<1>3. ~None(s, FocusWord)
  BY <1>1, <1>2 DEF None
<1>4. \A i \in 1..Len(t) : NoneAfter(t, FocusWord, i) <=> NoneAfter(s, FocusWord, i + 1)
  BY <1>1, TailKind, Zenon
<1>5. \A K : \A i : Last(t, KeyOf(K), i) => Last(s, KeyOf(K), i + 1)
  BY <1>1, TailKind, Zenon
<1>6. \A K : \A i \in 1..Len(t) : Last(s, KeyOf(K), i + 1) => Last(t, KeyOf(K), i)
  BY <1>1, TailKind, Zenon
<1>7. \A K : x \notin KeyOf(K)
  BY <1>1 DEF FocusWord, KeyOf
<1>8. ASSUME NEW K, FreshArrive(n, K) PROVE FreshArrive(m, K)
  <2> SUFFICES ASSUME NEW k \in m.sys.fresh \cap K
      PROVE \E i \in 1..Len(t) : /\ Last(t, KeyOf({k}), i) /\ t[i].down
                                 /\ NoneAfter(t, FocusWord, i)
    BY DEF FreshArrive
  <2>1. k \in n.sys.fresh \cap K
    BY DEF Reads
  <2>2. PICK i \in 1..Len(s) : /\ Last(s, KeyOf({k}), i) /\ s[i].down
                               /\ NoneAfter(s, FocusWord, i)
    BY <1>3, <1>8, <2>1 DEF FreshArrive
  <2>3. i # 1
    BY <1>2, <1>7, <2>2 DEF Last
  <2>4. i - 1 \in 1..Len(t) /\ t[i - 1] = s[i] /\ (i - 1) + 1 = i
    BY <1>2, <2>3
  <2>5. Last(t, KeyOf({k}), i - 1)
    BY <1>6, <2>2, <2>4
  <2>6. NoneAfter(t, FocusWord, i - 1)
    BY <1>4, <2>2, <2>4
  <2> QED BY <2>2, <2>4, <2>5, <2>6
<1>9. ASSUME NEW K, KeysArrive(n, K) PROVE KeysArrive(m, K)
  <2> SUFFICES ASSUME m.sys.focused, NEW k \in K \ m.sys.crossed
      PROVE /\ \A i \in 1..Len(t) :
                 Last(t, KeyOf({k}), i) /\ NoneAfter(t, FocusWord, i) /\ t[i].down
                   => k \in m.sys.held
            /\ None(t, FocusWord) /\ None(t, KeyOf({k})) /\ k \in m.w.keys
                 => k \in m.sys.held
    BY DEF KeysArrive
  <2>1. ASSUME NEW i \in 1..Len(t), Last(t, KeyOf({k}), i), NoneAfter(t, FocusWord, i),
               t[i].down
        PROVE  k \in m.sys.held
    <3>1. i + 1 \in 1..Len(s) /\ t[i] = s[i + 1] /\ Last(s, KeyOf({k}), i + 1)
          /\ NoneAfter(s, FocusWord, i + 1)
      BY <1>2, <1>4, <1>5, <2>1
    <3> QED BY <1>9, <2>1, <3>1 DEF KeysArrive, Reads
  <2>2. None(t, FocusWord) => k \notin m.w.keys
    OBVIOUS
  <2> QED BY <2>1, <2>2
<1>10. ASSUME ShiftsTogether(n) PROVE ShiftsTogether(m)
  <2>1. ASSUME NEW i \in 1..Len(t), t[i] \in KeyOf(Shift), ~t[i].down
        PROVE  t[i].held \cap Shift = {}
    <3>1. i + 1 \in 1..Len(s) /\ t[i] = s[i + 1]
      BY <1>2
    <3> QED BY <1>10, <2>1, <3>1 DEF ShiftsTogether
  <2>2. ASSUME m.sys.focused, m.sys.held \cap Shift = {}, NEW i \in 1..Len(t),
               Last(t, KeyOf(Shift), i), NoneAfter(t, FocusWord, i)
        PROVE  ~t[i].down
    <3>1. i + 1 \in 1..Len(s) /\ t[i] = s[i + 1] /\ Last(s, KeyOf(Shift), i + 1)
          /\ NoneAfter(s, FocusWord, i + 1)
      BY <1>2, <1>4, <1>5, <2>2
    <3> QED BY <1>10, <2>2, <3>1 DEF ShiftsTogether, Reads
  <2>3. None(t, FocusWord) => m.w.keys \cap Shift \subseteq m.sys.crossed
    OBVIOUS
  <2> QED BY <2>1, <2>2, <2>3 DEF ShiftsTogether
<1>11. ASSUME TakeTurns(n) PROVE TakeTurns(m)
  <2> SUFFICES ASSUME m.sys.focused, NEW k \in Toggled \ (m.sys.odd \cup m.sys.crossed)
               PROVE  Turns(Mine(m, k), m.wire, Believed(m, k), k \in m.sys.held)
    BY DEF TakeTurns
  <2>1. Turns(Mine(n, k), n.wire, Believed(n, k), k \in n.sys.held)
    BY <1>11 DEF TakeTurns, Reads
  <2>2. ~Believed(n, k) /\ ~Believed(m, k)
    BY <1>3 DEF Believed
  <2>3. Believed(m, k) = Believed(n, k) /\ (k \in m.sys.held) = (k \in n.sys.held)
    BY <2>2 DEF Reads, Believed
  <2>4. ASSUME NEW i \in Mine(m, k)
        PROVE  i + 1 \in Mine(n, k) /\ t[i].down = s[i + 1].down
    <3>1. i \in 1..Len(t) /\ t[i] \in KeyOf({k}) /\ NoneAfter(t, FocusWord, i)
      BY DEF Mine
    <3> QED BY <1>2, <1>4, <3>1 DEF Mine
  <2>5. ASSUME NEW i \in Mine(n, k) PROVE i - 1 \in Mine(m, k)
    <3>1. i \in 1..Len(s) /\ s[i] \in KeyOf({k}) /\ NoneAfter(s, FocusWord, i)
      BY DEF Mine
    <3>2. i # 1
      BY <1>2, <1>7, <3>1
    <3>3. i - 1 \in 1..Len(t) /\ t[i - 1] = s[i] /\ (i - 1) + 1 = i
      BY <1>2, <3>1, <3>2
    <3> QED BY <1>4, <3>1, <3>3 DEF Mine
  <2>6. Mine(n, k) \in SUBSET Int /\ Mine(m, k) \in SUBSET Int
    BY DEF Mine
  <2>7. \A S, T \in SUBSET Int : \A u, v, b, h :
        /\ \A i \in T : i + 1 \in S /\ v[i].down = u[i + 1].down
        /\ \A i \in S : i - 1 \in T
        /\ Turns(S, u, b, h)
        => Turns(T, v, b, h)
    BY TurnsMoved
  <2>8. Turns(Mine(m, k), m.wire, Believed(n, k), k \in n.sys.held)
    BY ONLY <2>1, <2>4, <2>5, <2>6, <2>7, Zenon
  <2> QED BY <2>3, <2>8
<1> QED BY <1>8, <1>9, <1>10, <1>11

-----------------------------------------------------------------------------
(* libnack reads a key *)

\* Only the key that was read may have been latched.
Latches(n, m) ==
  /\ Head(n.wire) \in KeyOf(Key)
  /\ m.w.focused = n.w.focused
  /\ m.w.keys \subseteq n.w.keys \cup {Head(n.wire).key}
  /\ ~n.w.focused => m.w.keys = n.w.keys

\* The keys of K are latched as the messages say.
AsSaid(n, m, K) ==
  n.w.focused =>
    \A k \in K : k \in m.w.keys <=> IF k = Head(n.wire).key THEN Head(n.wire).down
                                    ELSE k \in n.w.keys

LEMMA KeyRead ==
  ASSUME NEW M, NEW n \in State(M), NEW m \in State(M), Reads(n, m), Latches(n, m),
         FocusArrives(n), KeysExpire(n)
  PROVE  FocusArrives(m) /\ KeysExpire(m)
<1> DEFINE s == n.wire
           t == m.wire
           x == Head(s)
<1>1. /\ s \in Seq(M) /\ s # << >> /\ t = Tail(s) /\ x \in KeyOf(Key)
      /\ n.w.focused \in BOOLEAN /\ n.sys.focused \in BOOLEAN
  BY DEF State, Reads, Latches, Record, System
<1>2. /\ 1 \in 1..Len(s) /\ x = s[1] /\ Len(s) \in Nat
      /\ \A i \in 1..Len(t) : i + 1 \in 1..Len(s) /\ t[i] = s[i + 1]
  BY <1>1, TailAt
<1>3. x \notin Off /\ x \notin FocusWord
  BY <1>1, TypingKinds
<1>4. None(t, Off) <=> None(s, Off)
  <2>1. None(s, Off) <=> (s[1] \notin Off /\ None(t, Off))
    BY <1>1, TailKind, Zenon
  <2> QED BY <1>2, <1>3, <2>1
<1>5. None(t, FocusWord) <=> None(s, FocusWord)
  <2>1. None(s, FocusWord) <=> (s[1] \notin FocusWord /\ None(t, FocusWord))
    BY <1>1, TailKind, Zenon
  <2> QED BY <1>2, <1>3, <2>1
<1>6. \A i : Last(t, FocusWord, i) => Last(s, FocusWord, i + 1)
  BY <1>1, TailKind, Zenon
<1>7. \A i \in 1..Len(t) : NoneAfter(t, Off, i) <=> NoneAfter(s, Off, i + 1)
  BY <1>1, TailKind, Zenon
<1>8. \A i \in 1..Len(t) : NoneAfter(t, FocusWord, i) <=> NoneAfter(s, FocusWord, i + 1)
  BY <1>1, TailKind, Zenon
<1>9. None(t, Off) <=> NoneAfter(s, Off, 1)
  BY <1>1, TailKind, Zenon
<1>10. ASSUME m.sys.focused, NEW i \in 1..Len(t), Last(t, FocusWord, i) PROVE t[i].on
  <2>1. Last(s, FocusWord, i + 1) /\ i + 1 \in 1..Len(s) /\ t[i] = s[i + 1]
    BY <1>2, <1>6, <1>10
  <2> QED BY <1>10, <2>1 DEF FocusArrives, Reads
<1>11. FocusArrives(m)
  BY <1>4, <1>5, <1>10 DEF FocusArrives, Reads, Latches
<1>12. ASSUME ~(m.w.keys \subseteq m.sys.crossed)
       PROVE  \/ ~None(t, Off)
              \/ m.sys.focused /\ None(t, FocusWord)
  <2>1. CASE n.w.keys \subseteq n.sys.crossed
    <3>1. x.key \notin n.sys.crossed
      BY <1>12, <2>1 DEF Latches, Reads
    <3>2. n.w.focused
      BY <1>12, <2>1 DEF Latches, Reads
    <3>3. s[1] \in KeyOf(Key \ n.sys.crossed)
      BY <1>1, <1>2, <3>1 DEF KeyOf
    <3>4. NoneAfter(s, FocusWord, 1) <=> None(t, FocusWord)
      BY <1>1, TailKind, Zenon
    <3> QED BY <1>2, <1>9, <3>3, <3>4 DEF KeysExpire, Reads
  <2>2. CASE ~(n.w.keys \subseteq n.sys.crossed)
    BY <1>4, <1>5, <2>2 DEF KeysExpire, Reads
  <2> QED BY <2>1, <2>2
<1>13. ASSUME NEW i \in 1..Len(t), t[i] \in KeyOf(Key \ m.sys.crossed)
       PROVE  \/ ~NoneAfter(t, Off, i)
              \/ m.sys.focused /\ NoneAfter(t, FocusWord, i)
  <2>1. i + 1 \in 1..Len(s) /\ s[i + 1] \in KeyOf(Key \ n.sys.crossed)
    BY <1>2, <1>13 DEF Reads
  <2> QED BY <1>7, <1>8, <2>1 DEF KeysExpire, Reads
<1>14. KeysExpire(m)
  BY <1>12, <1>13 DEF KeysExpire
<1> QED BY <1>11, <1>14

LEMMA KeyReadArrives ==
  ASSUME NEW M, NEW n \in State(M), NEW m \in State(M), Reads(n, m), Latches(n, m),
         FocusArrives(n), NEW K \in SUBSET Key, AsSaid(n, m, K),
         FreshArrive(n, K), KeysArrive(n, K)
  PROVE  FreshArrive(m, K) /\ KeysArrive(m, K)
<1> DEFINE s == n.wire
           t == m.wire
           x == Head(s)
<1>1. /\ s \in Seq(M) /\ s # << >> /\ t = Tail(s) /\ x \in KeyOf(Key) /\ x.down \in BOOLEAN
      /\ n.w.focused \in BOOLEAN /\ n.sys.focused \in BOOLEAN
  BY DEF State, Reads, Latches, KeyOf, Record, System
<1>2. /\ t \in Seq(M) /\ Len(s) \in Nat /\ 1 \in 1..Len(s) /\ x = s[1]
      /\ \A i \in 1..Len(t) : i + 1 \in 1..Len(s) /\ t[i] = s[i + 1]
      /\ \A i \in 1..Len(s) : i = 1 \/ (i > 1 /\ i - 1 \in 1..Len(t) /\ t[i - 1] = s[i])
  BY <1>1, TailAt
<1>3. x \notin FocusWord
  BY <1>1, TypingKinds
<1>4. None(t, FocusWord) <=> None(s, FocusWord)
  <2>1. None(s, FocusWord) <=> (s[1] \notin FocusWord /\ None(t, FocusWord))
    BY <1>1, TailKind, Zenon
  <2> QED BY <1>2, <1>3, <2>1
<1>5. \A i \in 1..Len(t) : NoneAfter(t, FocusWord, i) <=> NoneAfter(s, FocusWord, i + 1)
  BY <1>1, TailKind, Zenon
<1>6. \A k : \A i : Last(t, KeyOf({k}), i) => Last(s, KeyOf({k}), i + 1)
  BY <1>1, TailKind, Zenon
<1>7. \A k : \A i \in 1..Len(t) : Last(s, KeyOf({k}), i + 1) => Last(t, KeyOf({k}), i)
  BY <1>1, TailKind, Zenon
<1>8. \A k : None(s, KeyOf({k})) <=> (s[1] \notin KeyOf({k}) /\ None(t, KeyOf({k})))
  BY <1>1, TailKind, Zenon
<1>9. \A k : None(t, KeyOf({k})) /\ s[1] \in KeyOf({k}) => Last(s, KeyOf({k}), 1)
  BY <1>1, TailKind, Zenon
<1>10. \A k : None(t, KeyOf({k})) <=> NoneAfter(s, KeyOf({k}), 1)
  BY <1>1, TailKind, Zenon
<1>11. None(t, FocusWord) <=> NoneAfter(s, FocusWord, 1)
  BY <1>1, TailKind, Zenon
<1>12. \A k : s[1] \in KeyOf({k}) <=> k = x.key
  BY <1>1, <1>2 DEF KeyOf
<1>13. ASSUME NEW k \in m.sys.fresh \cap K
       PROVE  \/ \E i \in 1..Len(t) : /\ Last(t, KeyOf({k}), i) /\ t[i].down
                                      /\ NoneAfter(t, FocusWord, i)
              \/ None(t, FocusWord) /\ None(t, KeyOf({k})) /\ k \in m.w.keys
  <2>1. k \in n.sys.fresh \cap K /\ n.sys.focused
    BY <1>1 DEF Reads, FocusArrives
  <2>2. None(s, FocusWord) => n.w.focused
    BY <2>1 DEF FocusArrives
  <2>3. CASE None(s, FocusWord) /\ None(s, KeyOf({k})) /\ k \in n.w.keys
    <3>1. None(t, KeyOf({k})) /\ k # x.key
      BY <1>8, <1>12, <2>3
    <3>2. k \in m.w.keys
      BY <2>1, <2>2, <2>3, <3>1 DEF AsSaid
    <3> QED BY <1>4, <2>3, <3>1, <3>2
  <2>4. ASSUME NEW i \in 1..Len(s), Last(s, KeyOf({k}), i), s[i].down,
               NoneAfter(s, FocusWord, i)
        PROVE  \/ \E j \in 1..Len(t) : /\ Last(t, KeyOf({k}), j) /\ t[j].down
                                       /\ NoneAfter(t, FocusWord, j)
               \/ None(t, FocusWord) /\ None(t, KeyOf({k})) /\ k \in m.w.keys
    <3>1. CASE i = 1
      <4>1. None(t, FocusWord) /\ None(t, KeyOf({k})) /\ k = x.key
        BY <1>10, <1>11, <1>12, <2>4, <3>1 DEF Last, NoneAfter
      <4>2. k \in m.w.keys
        BY <1>2, <1>4, <2>1, <2>2, <2>4, <3>1, <4>1 DEF AsSaid
      <4> QED BY <4>1, <4>2
    <3>2. CASE i # 1
      <4>1. i - 1 \in 1..Len(t) /\ t[i - 1] = s[i] /\ (i - 1) + 1 = i
        BY <1>2, <3>2
      <4>2. Last(t, KeyOf({k}), i - 1) /\ NoneAfter(t, FocusWord, i - 1)
        BY <1>5, <1>7, <2>4, <4>1
      <4> QED BY <2>4, <4>1, <4>2
    <3> QED BY <3>1, <3>2
  <2> QED BY <2>1, <2>3, <2>4 DEF FreshArrive
<1>14. FreshArrive(m, K)
  BY <1>13 DEF FreshArrive
<1>15. ASSUME m.sys.focused, NEW k \in K \ m.sys.crossed
       PROVE  /\ \A i \in 1..Len(t) :
                   Last(t, KeyOf({k}), i) /\ NoneAfter(t, FocusWord, i) /\ t[i].down
                     => k \in m.sys.held
              /\ None(t, FocusWord) /\ None(t, KeyOf({k})) /\ k \in m.w.keys
                   => k \in m.sys.held
  <2>1. k \in K \ n.sys.crossed /\ n.sys.focused /\ m.sys.held = n.sys.held
    BY <1>15 DEF Reads
  <2>2. ASSUME NEW i \in 1..Len(t), Last(t, KeyOf({k}), i), NoneAfter(t, FocusWord, i),
               t[i].down
        PROVE  k \in n.sys.held
    <3>1. i + 1 \in 1..Len(s) /\ t[i] = s[i + 1] /\ Last(s, KeyOf({k}), i + 1)
          /\ NoneAfter(s, FocusWord, i + 1)
      BY <1>2, <1>5, <1>6, <2>2
    <3> QED BY <2>1, <2>2, <3>1 DEF KeysArrive
  <2>3. ASSUME None(t, FocusWord), None(t, KeyOf({k})), k \in m.w.keys
        PROVE  k \in n.sys.held
    <3>1. n.w.focused
      BY <1>4, <2>1, <2>3 DEF FocusArrives
    <3>2. CASE k = x.key
      <4>1. Last(s, KeyOf({k}), 1) /\ NoneAfter(s, FocusWord, 1)
        BY <1>9, <1>11, <1>12, <2>3, <3>2
      <4>2. s[1].down
        BY <1>2, <2>1, <2>3, <3>1, <3>2 DEF AsSaid
      <4> QED BY <1>2, <2>1, <4>1, <4>2 DEF KeysArrive
    <3>3. CASE k # x.key
      <4>1. None(s, FocusWord) /\ None(s, KeyOf({k}))
        BY <1>4, <1>8, <1>12, <2>3, <3>3
      <4>2. k \in n.w.keys
        BY <2>1, <2>3, <3>1, <3>3 DEF AsSaid
      <4> QED BY <2>1, <4>1, <4>2 DEF KeysArrive
    <3> QED BY <3>2, <3>3
  <2> QED BY <2>1, <2>2, <2>3
<1>16. KeysArrive(m, K)
  BY <1>15 DEF KeysArrive
<1> QED BY <1>14, <1>16

\* Windows: a shift that goes up takes along every shift that is up.
ShiftsSaid(n, m) ==
  n.w.focused =>
    IF Head(n.wire).key \in Shift /\ ~Head(n.wire).down
    THEN m.w.keys = n.w.keys \ (Shift \ Head(n.wire).held)
    ELSE Head(n.wire).key \notin Shift => m.w.keys \cap Shift = n.w.keys \cap Shift

LEMMA KeyReadShifts ==
  ASSUME NEW M, NEW n \in State(M), NEW m \in State(M), Reads(n, m), Latches(n, m),
         FocusArrives(n), ShiftsSaid(n, m), ShiftsTogether(n)
  PROVE  ShiftsTogether(m)
<1> DEFINE s == n.wire
           t == m.wire
           x == Head(s)
<1>1. /\ s \in Seq(M) /\ s # << >> /\ t = Tail(s) /\ x \in KeyOf(Key)
  BY DEF State, Reads, Latches
<1>2. /\ 1 \in 1..Len(s) /\ x = s[1]
      /\ \A i \in 1..Len(t) : i + 1 \in 1..Len(s) /\ t[i] = s[i + 1]
  BY <1>1, TailAt
<1>3. x \notin FocusWord
  BY <1>1, TypingKinds
<1>4. None(t, FocusWord) <=> None(s, FocusWord)
  <2>1. None(s, FocusWord) <=> (s[1] \notin FocusWord /\ None(t, FocusWord))
    BY <1>1, TailKind, Zenon
  <2> QED BY <1>2, <1>3, <2>1
<1>5. \A i \in 1..Len(t) : NoneAfter(t, FocusWord, i) <=> NoneAfter(s, FocusWord, i + 1)
  BY <1>1, TailKind, Zenon
<1>6. \A i : Last(t, KeyOf(Shift), i) => Last(s, KeyOf(Shift), i + 1)
  BY <1>1, TailKind, Zenon
<1>7. None(s, KeyOf(Shift)) <=> (s[1] \notin KeyOf(Shift) /\ None(t, KeyOf(Shift)))
  BY <1>1, TailKind, Zenon
<1>8. None(t, KeyOf(Shift)) /\ s[1] \in KeyOf(Shift) => Last(s, KeyOf(Shift), 1)
  BY <1>1, TailKind, Zenon
<1>9. None(t, FocusWord) <=> NoneAfter(s, FocusWord, 1)
  BY <1>1, TailKind, Zenon
<1>10. s[1] \in KeyOf(Shift) <=> x.key \in Shift
  BY <1>1, <1>2 DEF KeyOf
<1>11. ASSUME NEW i \in 1..Len(t), t[i] \in KeyOf(Shift), ~t[i].down
       PROVE  t[i].held \cap Shift = {}
  <2>1. i + 1 \in 1..Len(s) /\ t[i] = s[i + 1]
    BY <1>2
  <2> QED BY <1>11, <2>1 DEF ShiftsTogether
<1>12. ASSUME m.sys.focused, m.sys.held \cap Shift = {}, NEW i \in 1..Len(t),
              Last(t, KeyOf(Shift), i), NoneAfter(t, FocusWord, i)
       PROVE  ~t[i].down
  <2>1. i + 1 \in 1..Len(s) /\ t[i] = s[i + 1] /\ Last(s, KeyOf(Shift), i + 1)
        /\ NoneAfter(s, FocusWord, i + 1)
    BY <1>2, <1>5, <1>6, <1>12
  <2> QED BY <1>12, <2>1 DEF ShiftsTogether, Reads
<1>13. ASSUME m.sys.focused, m.sys.held \cap Shift = {}, None(t, FocusWord),
              None(t, KeyOf(Shift))
       PROVE  m.w.keys \cap Shift \subseteq m.sys.crossed
  <2>1. n.sys.focused /\ n.sys.held \cap Shift = {} /\ m.sys.crossed = n.sys.crossed
    BY <1>13 DEF Reads
  <2>2. n.w.focused
    BY <1>4, <1>13, <2>1 DEF FocusArrives
  <2>3. CASE x.key \in Shift
    <3>1. Last(s, KeyOf(Shift), 1) /\ NoneAfter(s, FocusWord, 1)
      BY <1>8, <1>9, <1>10, <1>13, <2>3
    <3>2. ~s[1].down
      BY <1>2, <2>1, <3>1 DEF ShiftsTogether
    <3>3. x.held \cap Shift = {}
      BY <1>2, <1>10, <2>3, <3>2 DEF ShiftsTogether
    <3>4. m.w.keys = n.w.keys \ (Shift \ x.held)
      BY <1>2, <2>2, <2>3, <3>2 DEF ShiftsSaid
    <3> QED BY <3>3, <3>4
  <2>4. CASE x.key \notin Shift
    <3>1. None(s, KeyOf(Shift)) /\ None(s, FocusWord)
      BY <1>4, <1>7, <1>10, <1>13, <2>4
    <3>2. n.w.keys \cap Shift \subseteq n.sys.crossed
      BY <2>1, <3>1 DEF ShiftsTogether
    <3>3. m.w.keys \cap Shift = n.w.keys \cap Shift
      BY <2>2, <2>4 DEF ShiftsSaid
    <3> QED BY <2>1, <3>2, <3>3
  <2> QED BY <2>3, <2>4
<1> QED BY <1>11, <1>12, <1>13 DEF ShiftsTogether

\* Cocoa: a modifier that is read goes over to the contrary.
Toggles(n, m) ==
  n.w.focused =>
    \A k \in Toggled : (k \in m.w.keys) = IF k = Head(n.wire).key THEN k \notin n.w.keys
                                           ELSE k \in n.w.keys

LEMMA KeyReadTurns ==
  ASSUME NEW M, NEW n \in State(M), NEW m \in State(M), Reads(n, m), Latches(n, m),
         FocusArrives(n), Toggles(n, m), TakeTurns(n)
  PROVE  TakeTurns(m)
<1> SUFFICES ASSUME m.sys.focused, NEW k \in Toggled \ (m.sys.odd \cup m.sys.crossed)
             PROVE  Turns(Mine(m, k), m.wire, Believed(m, k), k \in m.sys.held)
  BY DEF TakeTurns
<1> DEFINE s == n.wire
           t == m.wire
           x == Head(s)
<1>1. /\ s \in Seq(M) /\ s # << >> /\ t = Tail(s) /\ x \in KeyOf(Key)
  BY DEF State, Reads, Latches
<1>2. /\ t \in Seq(M) /\ Len(s) \in Nat /\ 1 \in 1..Len(s) /\ x = s[1]
      /\ \A i \in 1..Len(t) : i + 1 \in 1..Len(s) /\ t[i] = s[i + 1]
      /\ \A i \in 1..Len(s) : i = 1 \/ (i > 1 /\ i - 1 \in 1..Len(t) /\ t[i - 1] = s[i])
  BY <1>1, TailAt
<1>3. x \notin FocusWord
  BY <1>1, TypingKinds
<1>4. None(t, FocusWord) <=> None(s, FocusWord)
  <2>1. None(s, FocusWord) <=> (s[1] \notin FocusWord /\ None(t, FocusWord))
    BY <1>1, TailKind, Zenon
  <2> QED BY <1>2, <1>3, <2>1
<1>5. \A i \in 1..Len(t) : NoneAfter(t, FocusWord, i) <=> NoneAfter(s, FocusWord, i + 1)
  BY <1>1, TailKind, Zenon
<1>6. None(t, FocusWord) <=> NoneAfter(s, FocusWord, 1)
  BY <1>1, TailKind, Zenon
<1>7. Turns(Mine(n, k), s, Believed(n, k), k \in n.sys.held)
  BY DEF TakeTurns, Reads
<1>8. None(s, FocusWord) => n.w.focused
  BY DEF FocusArrives, Reads
<1>9. (k \in m.sys.held) = (k \in n.sys.held)
  BY DEF Reads
<1>10. Mine(n, k) \in SUBSET Int /\ Mine(m, k) \in SUBSET Int
  BY DEF Mine
<1>11. ASSUME NEW i \in Mine(m, k)
       PROVE  i + 1 \in Mine(n, k) /\ i + 1 # 1 /\ t[i].down = s[i + 1].down
  <2>1. i \in 1..Len(t) /\ t[i] \in KeyOf({k}) /\ NoneAfter(t, FocusWord, i)
    BY DEF Mine
  <2>2. i + 1 # 1
    BY <2>1
  <2> QED BY <1>2, <1>5, <2>1, <2>2 DEF Mine
<1>12. ASSUME NEW i \in Mine(n, k), i # 1 PROVE i - 1 \in Mine(m, k)
  <2>1. i \in 1..Len(s) /\ s[i] \in KeyOf({k}) /\ NoneAfter(s, FocusWord, i)
    BY DEF Mine
  <2>2. i - 1 \in 1..Len(t) /\ t[i - 1] = s[i] /\ (i - 1) + 1 = i
    BY <1>2, <1>12, <2>1
  <2> QED BY <1>5, <2>1, <2>2 DEF Mine
<1>13. \A S, T \in SUBSET Int : \A u, v, b, h :
        /\ \A i \in T : i + 1 \in S /\ v[i].down = u[i + 1].down
        /\ \A i \in S : i - 1 \in T
        /\ Turns(S, u, b, h)
        => Turns(T, v, b, h)
  BY TurnsMoved
<1>14. CASE 1 \in Mine(n, k)
  <2>1. None(t, FocusWord) /\ x.key = k
    BY <1>2, <1>6, <1>14 DEF Mine, KeyOf
  <2>2. n.w.focused /\ Believed(n, k) = (k \in n.w.keys) /\ Believed(m, k) = (k \in m.w.keys)
    BY <1>4, <1>8, <2>1 DEF Believed
  <2>3. Believed(m, k) = ~Believed(n, k) /\ Believed(n, k) \in BOOLEAN
    <3>1. k \in m.w.keys <=> k \notin n.w.keys
      BY <2>1, <2>2 DEF Toggles
    <3>2. Believed(n, k) \in BOOLEAN /\ Believed(m, k) \in BOOLEAN
      BY DEF Believed
    <3> QED BY <2>2, <3>1, <3>2
  <2>4. \A i \in Mine(n, k) : 1 <= i
    BY <1>2 DEF Mine
  <2> DEFINE S == Mine(n, k)
             b == Believed(n, k)
             h == k \in n.sys.held
  <2>5. Turns(S, s, b, h) /\ 1 \in S /\ S \in SUBSET Int /\ (\A i \in S : 1 <= i)
        /\ b \in BOOLEAN /\ h \in BOOLEAN
    BY <1>7, <1>10, <1>14, <2>3, <2>4
  <2>6. Turns(S \ {1}, s, ~b, h)
    <3> HIDE DEF S, b, h, s
    <3> QED BY <2>5, TurnRead
  <2>7. Turns(Mine(n, k) \ {1}, s, Believed(m, k), k \in n.sys.held)
    BY <2>3, <2>6
  <2>8. /\ \A i \in Mine(m, k) : i + 1 \in Mine(n, k) \ {1} /\ t[i].down = s[i + 1].down
        /\ \A i \in Mine(n, k) \ {1} : i - 1 \in Mine(m, k)
        /\ Mine(n, k) \ {1} \in SUBSET Int
    BY <1>10, <1>11, <1>12
  <2>9. Turns(Mine(m, k), t, Believed(m, k), k \in n.sys.held)
    BY ONLY <1>10, <1>13, <2>7, <2>8, Zenon
  <2> QED BY <1>9, <2>9
<1>15. CASE 1 \notin Mine(n, k)
  <2>1. ~None(t, FocusWord) \/ x.key # k
    BY <1>1, <1>2, <1>6, <1>15 DEF Mine, KeyOf
  <2>2. Believed(m, k) = Believed(n, k)
    <3>1. CASE ~None(t, FocusWord)
      BY <1>4, <3>1 DEF Believed
    <3>2. CASE None(t, FocusWord)
      BY <1>4, <1>8, <2>1, <3>2 DEF Believed, Toggles
    <3> QED BY <3>1, <3>2
  <2>3. /\ \A i \in Mine(m, k) : i + 1 \in Mine(n, k) /\ t[i].down = s[i + 1].down
        /\ \A i \in Mine(n, k) : i - 1 \in Mine(m, k)
    BY <1>11, <1>12, <1>15
  <2>4. Turns(Mine(m, k), t, Believed(n, k), k \in n.sys.held)
    BY ONLY <1>7, <1>10, <1>13, <2>3, Zenon
  <2> QED BY <1>9, <2>2, <2>4
<1> QED BY <1>14, <1>15

-----------------------------------------------------------------------------
(* The buttons on Win32 and Cocoa *)

Pressing == [type : {"button"}, button : Button, down : BOOLEAN]
              \cup [type : {"button"}, button : Button, down : BOOLEAN, inside : BOOLEAN]

LEMMA PressingKinds ==
  /\ \A b \in Button : ButtonOf(b) \subseteq Pressing
  /\ \A x \in Pressing : /\ x.button \in Button /\ x.down \in BOOLEAN
                         /\ \A b : x \in ButtonOf(b) <=> b = x.button
<1>1. \A b \in Button : ButtonOf(b) \subseteq Pressing
  BY DEF ButtonOf, Pressing
<1>2. ASSUME NEW x \in Pressing
      PROVE  /\ x.button \in Button /\ x.down \in BOOLEAN
             /\ \A b : x \in ButtonOf(b) <=> b = x.button
  <2>1. CASE x \in [type : {"button"}, button : Button, down : BOOLEAN]
    BY <2>1 DEF ButtonOf
  <2>2. CASE x \in [type : {"button"}, button : Button, down : BOOLEAN, inside : BOOLEAN]
    BY <2>2 DEF ButtonOf
  <2> QED BY <2>1, <2>2 DEF Pressing
<1> QED BY <1>1, <1>2

LEMMA ButtonsFramed ==
  ASSUME NEW M, NEW n \in State(M), NEW m \in State(M), NEW d \in Nat,
         Shifted(n.wire, m.wire, Pressing, d), ButtonsArrive(n),
         m.w.buttons \subseteq n.w.buttons,
         n.sys.here \cup n.sys.strayed \subseteq m.sys.here \cup m.sys.strayed
  PROVE  ButtonsArrive(m)
<1> SUFFICES ASSUME NEW b \in Button
             PROVE  /\ \A i \in 1..Len(m.wire) :
                         Last(m.wire, ButtonOf(b), i) /\ m.wire[i].down
                           => b \in m.sys.here \cup m.sys.strayed
                    /\ None(m.wire, ButtonOf(b)) /\ b \in m.w.buttons
                         => b \in m.sys.here \cup m.sys.strayed
  BY DEF ButtonsArrive
<1>1. n.wire \in Seq(M) /\ m.wire \in Seq(M)
  BY DEF State
<1>2. ButtonOf(b) \subseteq Pressing
  BY PressingKinds
<1>3. None(m.wire, ButtonOf(b)) <=> None(n.wire, ButtonOf(b))
  BY <1>1, <1>2, ShiftedKind, Zenon
<1>4. ASSUME NEW i \in 1..Len(m.wire), Last(m.wire, ButtonOf(b), i), m.wire[i].down
      PROVE  b \in m.sys.here \cup m.sys.strayed
  <2>1. Last(n.wire, ButtonOf(b), i + d)
    BY <1>1, <1>2, <1>4, ShiftedKind, Zenon
  <2>2. i + d \in 1..Len(n.wire) /\ m.wire[i] = n.wire[i + d]
    BY <1>2, <1>4 DEF Shifted, Last
  <2>3. b \in n.sys.here \cup n.sys.strayed
    BY <1>4, <2>1, <2>2 DEF ButtonsArrive
  <2> QED BY <2>3
<1> QED BY <1>3, <1>4 DEF ButtonsArrive

LEMMA CaptureFramed ==
  ASSUME NEW M, NEW n \in State(M), NEW m \in State(M), NEW d \in Nat,
         Shifted(n.wire, m.wire, Pressing, d), WButtonsArrive(n),
         m.w.buttons = n.w.buttons, m.sys.here = n.sys.here,
         \/ m.sys.capture = n.sys.capture /\ n.sys.strayed \subseteq m.sys.strayed
         \/ m.w.buttons \subseteq m.sys.strayed
  PROVE  WButtonsArrive(m)
<1>1. n.wire \in Seq(M) /\ m.wire \in Seq(M)
  BY DEF State
<1>2. ASSUME NEW b \in Button, NEW i \in 1..Len(m.wire), Last(m.wire, ButtonOf(b), i),
             m.wire[i].down
      PROVE  b \in m.sys.here
  <2>0. ButtonOf(b) \subseteq Pressing
    BY PressingKinds
  <2>1. Last(n.wire, ButtonOf(b), i + d)
    BY <1>1, <1>2, <2>0, ShiftedKind, Zenon
  <2>2. i + d \in 1..Len(n.wire) /\ m.wire[i] = n.wire[i + d]
    BY <1>2, <2>0 DEF Shifted, Last
  <2> QED BY <1>2, <2>1, <2>2 DEF WButtonsArrive
<1> QED BY <1>2 DEF WButtonsArrive

LEMMA ButtonTold ==
  ASSUME NEW M, NEW n \in State(M), NEW m \in State(M), NEW x \in Pressing, x \in M,
         m.wire = Append(n.wire, x), m.w = n.w,
         m.sys.here = IF x.down THEN n.sys.here \cup {x.button} ELSE n.sys.here \ {x.button},
         n.sys.strayed \ (IF x.down THEN {x.button} ELSE {}) \subseteq m.sys.strayed
  PROVE  /\ ButtonsArrive(n) => ButtonsArrive(m)
         /\ m.sys.capture = n.sys.capture /\ n.sys.strayed \subseteq m.sys.strayed
            /\ WButtonsArrive(n)
              => WButtonsArrive(m)
<1> DEFINE t == m.wire
           e == Len(n.wire) + 1
           c == x.button
<1>1. n.wire \in Seq(M) /\ t = Append(n.wire, x)
  BY DEF State
<1>2. /\ t \in Seq(M) /\ Len(n.wire) \in Nat /\ Len(t) = e /\ t[e] = x
      /\ \A i \in 1..Len(n.wire) : i \in 1..Len(t) /\ i # e /\ t[i] = n.wire[i]
      /\ \A i \in 1..Len(t) : i \in 1..Len(n.wire) \/ i = e
      /\ e \in 1..Len(t)
  BY <1>1, AppendAt
<1>3. x \in ButtonOf(c) /\ c \in Button /\ x.down \in BOOLEAN
  BY PressingKinds
<1>4. ~None(t, ButtonOf(c)) /\ \A i : Last(t, ButtonOf(c), i) => i = e
  <2> DEFINE K1 == ButtonOf(c)
  <2>1. x \in K1
    BY <1>3
  <2> HIDE DEF K1, t
  <2>2. ~None(t, K1) /\ \A i : Last(t, K1, i) => i = Len(n.wire) + 1
    BY <1>1, <2>1, LastAppended
  <2> QED BY <2>2 DEF K1
<1>5. ASSUME NEW b \in Button, b # c
      PROVE  /\ None(t, ButtonOf(b)) <=> None(n.wire, ButtonOf(b))
             /\ \A i : Last(t, ButtonOf(b), i) => /\ Last(n.wire, ButtonOf(b), i)
                                                  /\ i \in 1..Len(n.wire)
                                                  /\ t[i] = n.wire[i]
  <2>1. x \notin ButtonOf(b)
    BY <1>5, PressingKinds
  <2>2. None(t, ButtonOf(b)) <=> None(n.wire, ButtonOf(b))
    BY <1>1, <2>1, AppendOther, Zenon
  <2>3. \A i : Last(t, ButtonOf(b), i) => Last(n.wire, ButtonOf(b), i)
    BY <1>1, <2>1, AppendOther, Zenon
  <2>4. \A i : Last(n.wire, ButtonOf(b), i) => i \in 1..Len(n.wire)
    BY DEF Last
  <2> QED BY <1>2, <2>2, <2>3, <2>4
<1>6. x.down => c \in m.sys.here
  OBVIOUS
<1>7. \A b \in Button : b # c => /\ b \in n.sys.here <=> b \in m.sys.here
                                 /\ b \in n.sys.strayed => b \in m.sys.strayed
  OBVIOUS
<1>8. ASSUME ButtonsArrive(n), NEW b \in Button
      PROVE  /\ \A i \in 1..Len(t) :
                  Last(t, ButtonOf(b), i) /\ t[i].down => b \in m.sys.here \cup m.sys.strayed
             /\ None(t, ButtonOf(b)) /\ b \in m.w.buttons
                  => b \in m.sys.here \cup m.sys.strayed
  <2>1. CASE b = c
    BY <1>2, <1>4, <1>6, <2>1
  <2>2. CASE b # c
    <3>1. ASSUME NEW i \in 1..Len(t), Last(t, ButtonOf(b), i), t[i].down
          PROVE  b \in m.sys.here \cup m.sys.strayed
      BY <1>5, <1>7, <1>8, <2>2, <3>1 DEF ButtonsArrive
    <3>2. ASSUME None(t, ButtonOf(b)), b \in m.w.buttons
          PROVE  b \in m.sys.here \cup m.sys.strayed
      BY <1>5, <1>7, <1>8, <2>2, <3>2 DEF ButtonsArrive
    <3> QED BY <3>1, <3>2
  <2> QED BY <2>1, <2>2
<1>9. ASSUME m.sys.capture = n.sys.capture, n.sys.strayed \subseteq m.sys.strayed,
             WButtonsArrive(n)
      PROVE  WButtonsArrive(m)
  <2>1. ASSUME NEW b \in Button, NEW i \in 1..Len(t), Last(t, ButtonOf(b), i), t[i].down
        PROVE  b \in m.sys.here
    <3>1. CASE b = c
      BY <1>2, <1>4, <1>6, <2>1, <3>1
    <3>2. CASE b # c
      BY <1>5, <1>7, <1>9, <2>1, <3>2 DEF WButtonsArrive
    <3> QED BY <3>1, <3>2
  <2> QED BY <1>9, <2>1 DEF WButtonsArrive
<1> QED BY <1>8, <1>9 DEF ButtonsArrive

\* What is left of the wire says no more of a button than before.
LEMMA ButtonTail ==
  ASSUME NEW M, NEW s \in Seq(M), s # << >>, Head(s) \in Pressing, NEW t, t = Tail(s),
         NEW b \in Button
  PROVE  /\ \A i \in 1..Len(t) : Last(t, ButtonOf(b), i) =>
              i + 1 \in 1..Len(s) /\ Last(s, ButtonOf(b), i + 1) /\ t[i] = s[i + 1]
         /\ b = Head(s).button /\ None(t, ButtonOf(b)) => Last(s, ButtonOf(b), 1)
         /\ b # Head(s).button => (None(s, ButtonOf(b)) <=> None(t, ButtonOf(b)))
         /\ 1 \in 1..Len(s) /\ Head(s) = s[1]
<1>1. /\ 1 \in 1..Len(s) /\ Head(s) = s[1]
      /\ \A i \in 1..Len(t) : i + 1 \in 1..Len(s) /\ t[i] = s[i + 1]
  BY TailAt
<1>2. Head(s) \in ButtonOf(b) <=> b = Head(s).button
  BY PressingKinds
<1>3. \A i : Last(t, ButtonOf(b), i) => Last(s, ButtonOf(b), i + 1)
  BY TailKind, Zenon
<1>4. None(t, ButtonOf(b)) /\ s[1] \in ButtonOf(b) => Last(s, ButtonOf(b), 1)
  BY TailKind, Zenon
<1>5. None(s, ButtonOf(b)) <=> (s[1] \notin ButtonOf(b) /\ None(t, ButtonOf(b)))
  BY TailKind, Zenon
<1> QED BY <1>1, <1>2, <1>3, <1>4, <1>5

-----------------------------------------------------------------------------
(* Win32: sizes and states *)

WIn(n) == WInput(n) /\ ButtonsArrive(n) /\ WButtonsArrive(n)
WOut(n) == WSizes(n) /\ WStates(n)

LEMMA InputMeans ==
  ASSUME NEW n, NEW m, SameInput(n, m)
  PROVE  /\ SameKeyboard(n, m) /\ m.wire = n.wire /\ m.requests = n.requests
         /\ m.w.live = n.w.live
         /\ m.w.buttons = n.w.buttons /\ m.sys.here = n.sys.here
         /\ m.sys.strayed = n.sys.strayed /\ m.sys.capture = n.sys.capture
BY DEF SameInput, SameKeyboard, Keyboard, Mouse

LEMMA InputSame ==
  ASSUME NEW n, NEW m, SameInput(n, m)
  PROVE  /\ FocusArrives(n) => FocusArrives(m)
         /\ WIn(n) => WIn(m)
         /\ CInput(n) /\ ButtonsArrive(n) => CInput(m) /\ ButtonsArrive(m)
<1>1. /\ SameKeyboard(n, m) /\ m.wire = n.wire
      /\ m.w.buttons = n.w.buttons /\ m.sys.here = n.sys.here
      /\ m.sys.strayed = n.sys.strayed /\ m.sys.capture = n.sys.capture
  BY InputMeans
<1>2. FocusArrives(n) => FocusArrives(m)
  BY <1>1 DEF FocusArrives, SameKeyboard
<1>3. KeysExpire(n) => KeysExpire(m)
  BY <1>1 DEF KeysExpire, SameKeyboard
<1>4. \A K : KeysArrive(n, K) => KeysArrive(m, K)
  BY <1>1 DEF KeysArrive, SameKeyboard
<1>5. \A K : FreshArrive(n, K) => FreshArrive(m, K)
  BY <1>1 DEF FreshArrive, SameKeyboard
<1>6. ShiftsTogether(n) => ShiftsTogether(m)
  BY <1>1 DEF ShiftsTogether, SameKeyboard
<1>7. TakeTurns(n) => TakeTurns(m)
  <2>1. \A k : Mine(m, k) = Mine(n, k) /\ Believed(m, k) = Believed(n, k)
    BY <1>1 DEF Mine, Believed, SameKeyboard
  <2> QED BY <1>1, <2>1 DEF TakeTurns, SameKeyboard
<1>8. ButtonsArrive(n) => ButtonsArrive(m)
  BY <1>1 DEF ButtonsArrive
<1>9. WButtonsArrive(n) => WButtonsArrive(m)
  BY <1>1 DEF WButtonsArrive
<1>10. WIn(n) => WIn(m)
  BY <1>2, <1>3, <1>4, <1>5, <1>6, <1>8, <1>9 DEF WIn, WInput
<1>11. CInput(n) /\ ButtonsArrive(n) => CInput(m) /\ ButtonsArrive(m)
  BY <1>2, <1>3, <1>4, <1>5, <1>7, <1>8 DEF CInput
<1> QED BY <1>2, <1>10, <1>11

\* A change of the system's record, of what no input depends on.
SameHands(s, t) ==
  /\ t.focused = s.focused /\ t.held = s.held /\ t.odd = s.odd /\ t.crossed = s.crossed
  /\ t.fresh = s.fresh /\ t.here = s.here /\ t.strayed = s.strayed
  /\ t.capture = s.capture

LEMMA SystemSet ==
  ASSUME NEW M, NEW n \in State(M), NEW s \in System
  PROVE  LET m == [n EXCEPT !.sys = s]
         IN /\ m \in State(M) /\ m.w = n.w /\ m.told = n.told /\ m.sys = s
            /\ m.wire = n.wire /\ m.requests = n.requests
            /\ SameHands(n.sys, s) => SameInput(n, m)
<1> DEFINE m == [n EXCEPT !.sys = s]
<1>1. /\ m \in State(M) /\ m.w = n.w /\ m.told = n.told /\ m.sys = s
      /\ m.wire = n.wire /\ m.requests = n.requests
  BY DEF State
<1> HIDE DEF m
<1>2. SameHands(n.sys, s) => SameInput(n, m)
  BY <1>1 DEF SameHands, SameInput, Keyboard, Mouse
<1> QED BY <1>1, <1>2 DEF m

LEMMA RecordTouched ==
  ASSUME NEW M, NEW n \in State(M), NEW v \in Record, v.live = n.w.live,
         v.focused = n.w.focused, v.keys = n.w.keys, v.buttons = n.w.buttons
  PROVE  LET m == [n EXCEPT !.w = v]
         IN /\ m \in State(M) /\ m.w = v /\ m.told = n.told /\ m.sys = n.sys
            /\ m.wire = n.wire /\ m.requests = n.requests /\ SameInput(n, m)
<1> DEFINE m == [n EXCEPT !.w = v]
<1>1. /\ m \in State(M) /\ m.w = v /\ m.told = n.told /\ m.sys = n.sys
      /\ m.wire = n.wire /\ m.requests = n.requests
  BY RecordSet
<1> HIDE DEF m
<1>2. SameInput(n, m)
  BY <1>1 DEF SameInput, Keyboard, Mouse
<1> QED BY <1>1, <1>2 DEF m

LEMMA InputComposes ==
  ASSUME NEW n, NEW p, NEW m, SameInput(n, p), SameInput(p, m)
  PROVE  SameInput(n, m)
BY DEF SameInput

LEMMA ResizeKeeps ==
  ASSUME NEW M, NEW n \in State(M), NEW size \in Nat, NEW fb \in Nat, NEW m,
         m = EmitResize(n, size, fb), Reported(n)
  PROVE  /\ m \in State(M) /\ SameInput(n, m) /\ SameLooks(n, m)
         /\ m.w.size = size /\ m.w.fb = fb
         /\ m.sys = n.sys /\ Reported(m)
<1> DEFINE q == EmitResize(n, size, fb)
<1>1. /\ q \in State(M) /\ SameInput(n, q) /\ SameLooks(n, q)
      /\ q.w.size = size /\ q.w.fb = fb
      /\ q.sys = n.sys
      /\ Reported(n) => Reported(q)
      /\ (q.told = n.told /\ q.w.fb = n.w.fb) \/ q.told = [size |-> size, fb |-> fb]
  BY ResizeEmitted
<1> HIDE DEF q
<1>2. q = m /\ Reported(q)
  BY <1>1 DEF q
<1> QED BY <1>1, <1>2

LEMMA WmSizeKeeps ==
  ASSUME NEW M, NEW n \in State(M), Reported(n),
         n.sys.mini => n.w.size = n.sys.size /\ n.w.fb = n.sys.size
  PROVE  LET m == WmSize(n)
         IN /\ m \in State(M) /\ SameInput(n, m) /\ WOut(m) /\ m.sys = n.sys
            /\ m.w.fullscreen = n.w.fullscreen
<1> DEFINE big == n.sys.zoomed /\ ~n.sys.mini
           v == [n.w EXCEPT !.minimized = n.sys.mini, !.maximized = big]
           p == [n EXCEPT !.w = v]
           m == WmSize(n)
<1>1. n.w \in Record /\ n.sys \in System
  BY DEF State
<1>2. /\ v \in Record /\ v.live = n.w.live /\ v.focused = n.w.focused /\ v.keys = n.w.keys
      /\ v.buttons = n.w.buttons /\ v.minimized = n.sys.mini /\ v.maximized = big
      /\ v.size = n.w.size /\ v.fb = n.w.fb /\ v.fullscreen = n.w.fullscreen
  BY <1>1 DEF Record, System
<1>3. [n EXCEPT !.w.minimized = n.sys.mini, !.w.maximized = n.sys.zoomed /\ ~n.sys.mini] = p
  BY DEF State
<1>4. m = IF n.sys.mini THEN p ELSE EmitResize(p, n.sys.size, n.sys.size)
  BY <1>3 DEF WmSize
<1> HIDE DEF v, big, m
<1>5. /\ p \in State(M) /\ p.w = v /\ p.told = n.told /\ p.sys = n.sys
      /\ p.wire = n.wire /\ p.requests = n.requests /\ SameInput(n, p)
  BY <1>2, RecordTouched
<1> HIDE DEF p
<1>6. Reported(p)
  BY <1>2, <1>5 DEF Reported
<1>7. WStates(p)
  BY <1>2, <1>5 DEF WStates, big
<1>8. CASE n.sys.mini
  <2>1. m = p
    BY <1>4, <1>8
  <2>2. WSizes(m)
    BY <1>2, <1>5, <1>6, <1>8, <2>1 DEF WSizes
  <2> QED BY <1>2, <1>5, <1>7, <2>1, <2>2 DEF WOut, m
<1>9. CASE ~n.sys.mini
  <2>1. m = EmitResize(p, n.sys.size, n.sys.size)
    BY <1>4, <1>9
  <2>2. n.sys.size \in Nat
    BY <1>1 DEF System
  <2>3. /\ m \in State(M) /\ SameInput(p, m) /\ SameLooks(p, m)
        /\ m.w.size = n.sys.size /\ m.w.fb = n.sys.size /\ m.sys = p.sys /\ Reported(m)
    <3>1. p \in State(M)
      BY <1>5
    <3> DEFINE z == n.sys.size
    <3>2. m = EmitResize(p, z, z) /\ z \in Nat
      BY <2>1, <2>2
    <3> HIDE DEF z
    <3>3. /\ m \in State(M) /\ SameInput(p, m) /\ SameLooks(p, m)
          /\ m.w.size = z /\ m.w.fb = z
          /\ m.sys = p.sys /\ Reported(m)
      BY <3>1, <1>6, <3>2, ResizeKeeps
    <3> QED BY <3>3 DEF z
  <2>4. SameInput(n, m)
    BY <1>5, <2>3, InputComposes
  <2>5. WSizes(m)
    BY <1>5, <2>3 DEF WSizes
  <2>6. WStates(m) /\ m.w.fullscreen = p.w.fullscreen
    BY <1>7, <2>3 DEF WStates, SameLooks
  <2> QED BY <1>2, <1>5, <2>3, <2>4, <2>5, <2>6 DEF WOut, m
<1> QED BY <1>8, <1>9

LEMMA WSetWindowPosKeeps ==
  ASSUME NEW M, NEW n \in State(M), NEW size \in Nat, WOut(n)
  PROVE  LET m == WSetWindowPos(n, size)
         IN /\ m \in State(M) /\ SameInput(n, m) /\ WOut(m)
            /\ m.w.fullscreen = n.w.fullscreen /\ m.sys.full = n.sys.full
<1> DEFINE m == WSetWindowPos(n, size)
           a == [n.sys EXCEPT !.normal = size]
           b == [n.sys EXCEPT !.size = size, !.normal = IF n.sys.zoomed THEN @ ELSE size]
<1>1. n.w \in Record /\ n.sys \in System
  BY DEF State
<1>2. CASE n.sys.mini
  <2>1. m = [n EXCEPT !.sys = a]
    BY <1>2 DEF WSetWindowPos
  <2>2. /\ a \in System /\ SameHands(n.sys, a) /\ a.size = n.sys.size /\ a.mini = n.sys.mini
        /\ a.zoomed = n.sys.zoomed /\ a.full = n.sys.full
    BY <1>1 DEF System, SameHands
  <2> HIDE DEF a, m
  <2>3. /\ m \in State(M) /\ m.w = n.w /\ m.told = n.told /\ m.sys = a /\ SameInput(n, m)
    BY <2>1, <2>2, SystemSet
  <2>4. WOut(m)
    BY <2>2, <2>3 DEF WOut, WSizes, WStates, Reported
  <2> QED BY <2>2, <2>3, <2>4 DEF m
<1>3. CASE ~n.sys.mini
  <2> DEFINE p == [n EXCEPT !.sys = b]
  <2>1. m = IF n.sys.size = size THEN p ELSE WmSize(p)
    <3>1. [n EXCEPT !.sys.size = size, !.sys.normal = IF n.sys.zoomed THEN @ ELSE size] = p
      BY <1>1 DEF State, System
    <3> QED BY <1>3, <3>1 DEF WSetWindowPos
  <2>2. /\ b \in System /\ SameHands(n.sys, b) /\ b.size = size /\ b.mini = n.sys.mini
        /\ b.zoomed = n.sys.zoomed /\ b.full = n.sys.full
    BY <1>1 DEF System, SameHands
  <2> HIDE DEF b, m
  <2>3. /\ p \in State(M) /\ p.w = n.w /\ p.told = n.told /\ p.sys = b /\ SameInput(n, p)
    BY <2>2, SystemSet
  <2> HIDE DEF p
  <2>4. CASE n.sys.size = size
    <3>1. m = p
      BY <2>1, <2>4
    <3>2. WOut(m)
      BY <2>2, <2>3, <2>4, <3>1 DEF WOut, WSizes, WStates, Reported
    <3> QED BY <2>2, <2>3, <3>1, <3>2 DEF m
  <2>5. CASE n.sys.size # size
    <3>1. m = WmSize(p)
      BY <2>1, <2>5
    <3>2. Reported(p)
      BY <2>3 DEF WOut, WSizes, Reported
    <3>3. ~p.sys.mini
      BY <1>3, <2>2, <2>3
    <3>4. /\ m \in State(M) /\ SameInput(p, m) /\ WOut(m) /\ m.sys = p.sys
          /\ m.w.fullscreen = p.w.fullscreen
      BY <2>3, <3>1, <3>2, <3>3, WmSizeKeeps
    <3>5. SameInput(n, m)
      BY <2>3, <3>4, InputComposes
    <3> QED BY <2>2, <2>3, <3>4, <3>5 DEF m
  <2> QED BY <2>4, <2>5
<1> QED BY <1>2, <1>3

-----------------------------------------------------------------------------
(* The steps of Win32 *)

\* What a step may do to the keyboard, as nack_window.h promises it.
Promised(n, m) ==
  \/ m.w.focused = n.w.focused /\ m.w.keys = n.w.keys
  \/ n.w.focused /\ ~m.w.focused /\ m.w.keys = {}
  \/ ~n.w.focused /\ m.w.focused /\ m.w.keys = n.w.keys
  \/ /\ n.w.focused /\ m.w.focused
     /\ \/ \E k \in Key : m.w.keys = n.w.keys \cup {k}
        \/ \E K \in SUBSET Key : m.w.keys = n.w.keys \ K

WKeeps(n, m) ==
  m \in State(WMessage) /\ WInv(m) /\ m.w.live = n.w.live /\ Promised(n, m)

LEMMA WInvIs ==
  ASSUME NEW n
  PROVE  WInv(n) <=> WOut(n) /\ WFull(n) /\ WIn(n)
BY DEF WInv, WOut, WIn

LEMMA FullSame ==
  ASSUME NEW n, NEW m, SameInput(n, m), WFull(n), m.w.fullscreen = n.w.fullscreen,
         m.sys.full = n.sys.full
  PROVE  WFull(m)
BY DEF SameInput, WFull

\* What touches neither keyboard nor mouse keeps what is said of them.
LEMMA WSame ==
  ASSUME NEW n, NEW m, m \in State(WMessage), SameInput(n, m), WIn(n), WOut(m), WFull(m)
  PROVE  WKeeps(n, m)
<1>1. WIn(m)
  BY InputSame
<1>2. m.w.live = n.w.live /\ m.w.focused = n.w.focused /\ m.w.keys = n.w.keys
  BY InputMeans DEF SameKeyboard
<1> QED BY <1>1, <1>2, WInvIs DEF WKeeps, Promised

LEMMA ScaleSet ==
  ASSUME NEW M, NEW n \in State(M), NEW scale \in Nat, NEW m, m = EmitScale(n, scale)
  PROVE  /\ m \in State(M) /\ SameInput(n, m) /\ SameSizes(n, m) /\ SameLooks(n, m)
         /\ m.sys = n.sys
<1> DEFINE v == [n.w EXCEPT !.scale = scale]
<1>1. n.w \in Record
  BY DEF State
<1>2. /\ v \in Record /\ v.live = n.w.live /\ v.focused = n.w.focused /\ v.keys = n.w.keys
      /\ v.buttons = n.w.buttons /\ v.minimized = n.w.minimized
      /\ v.maximized = n.w.maximized /\ v.size = n.w.size /\ v.fb = n.w.fb
      /\ v.fullscreen = n.w.fullscreen /\ v.visible = n.w.visible
  BY <1>1 DEF Record
<1>3. m = [n EXCEPT !.w = v]
  BY DEF EmitScale
<1> HIDE DEF v
<1> DEFINE q == [n EXCEPT !.w = v]
<1>4. /\ q \in State(M) /\ q.w = v /\ q.told = n.told /\ q.sys = n.sys
      /\ q.wire = n.wire /\ q.requests = n.requests /\ SameInput(n, q)
  BY <1>2, RecordTouched
<1> HIDE DEF q
<1>5. q = m
  BY <1>3 DEF q
<1> QED BY <1>2, <1>4, <1>5 DEF SameSizes, SameLooks

LEMMA WmDpiKeeps ==
  ASSUME NEW n \in State(WMessage), WInv(n), NEW scale \in Nat \ {0}
  PROVE  WKeeps(n, WmDpiChanged(n, scale))
<1> DEFINE s == [n.sys EXCEPT !.scale = scale]
           p == [n EXCEPT !.sys = s]
           k == IF n.sys.size * scale >= n.sys.scale
                THEN (n.sys.size * scale) \div n.sys.scale ELSE 1
           q == WSetWindowPos(p, k)
           m == WmDpiChanged(n, scale)
<1>1. n.w \in Record /\ n.sys \in System
  BY DEF State
<1>2. k \in Nat
  <2>1. n.sys.size \in Nat /\ n.sys.scale \in Nat \ {0}
    BY <1>1 DEF System
  <2> DEFINE a == n.sys.size * scale
             b == n.sys.scale
  <2>2. a \in Nat /\ b \in Nat /\ b > 0
    BY <2>1
  <2> HIDE DEF a, b
  <2>3. a \div b \in Nat
    BY <2>2
  <2> QED BY <2>3 DEF a, b
<1>3. m = EmitScale(q, scale)
  BY DEF WmDpiChanged
<1>4. /\ s \in System /\ SameHands(n.sys, s) /\ s.size = n.sys.size /\ s.mini = n.sys.mini
      /\ s.zoomed = n.sys.zoomed /\ s.full = n.sys.full
  BY <1>1 DEF System, SameHands
<1> HIDE DEF m, s, k, q
<1>5. /\ p \in State(WMessage) /\ p.w = n.w /\ p.told = n.told /\ p.sys = s
      /\ SameInput(n, p)
  BY <1>4, SystemSet
<1> HIDE DEF p
<1>6. WOut(n) /\ WFull(n) /\ WIn(n)
  BY WInvIs
<1>7. WOut(p)
  BY <1>4, <1>5, <1>6 DEF WOut, WSizes, WStates, Reported
<1>8. /\ q \in State(WMessage) /\ SameInput(p, q) /\ WOut(q)
      /\ q.w.fullscreen = p.w.fullscreen /\ q.sys.full = p.sys.full
  BY <1>2, <1>5, <1>7, WSetWindowPosKeeps DEF q
<1>9. /\ m \in State(WMessage) /\ SameInput(q, m) /\ SameSizes(q, m) /\ SameLooks(q, m)
      /\ m.sys = q.sys
  BY <1>3, <1>8, ScaleSet
<1>10. SameInput(n, m)
  BY <1>5, <1>8, <1>9, InputComposes
<1>11. WOut(m)
  BY <1>8, <1>9 DEF WOut, WSizes, WStates, Reported, SameSizes, SameLooks
<1>12. WFull(m)
  <2>1. m.w.fullscreen = n.w.fullscreen /\ m.sys.full = n.sys.full
    BY <1>4, <1>5, <1>8, <1>9 DEF SameLooks
  <2> QED BY <1>6, <1>10, <2>1, FullSame
<1>13. WKeeps(n, m)
  BY <1>6, <1>9, <1>10, <1>11, <1>12, WSame
<1> QED BY <1>13 DEF m

LEMMA WmTimerKeeps ==
  ASSUME NEW n \in State(WMessage), WInv(n), NEW size \in Nat
  PROVE  WKeeps(n, WmTimer(WSetWindowPos(n, size)))
<1> DEFINE q == WSetWindowPos(n, size)
           z == q.sys.size
           m == WmTimer(q)
<1>1. WOut(n) /\ WFull(n) /\ WIn(n)
  BY WInvIs
<1>2. /\ q \in State(WMessage) /\ SameInput(n, q) /\ WOut(q)
      /\ q.w.fullscreen = n.w.fullscreen /\ q.sys.full = n.sys.full
  BY <1>1, WSetWindowPosKeeps
<1> HIDE DEF q
<1>3. m = EmitResize(q, z, z)
  BY DEF WmTimer
<1>4. z \in Nat
  BY <1>2 DEF State, System
<1>5. Reported(q)
  BY <1>2 DEF WOut, WSizes
<1> HIDE DEF m, z
<1>6. /\ m \in State(WMessage) /\ SameInput(q, m) /\ SameLooks(q, m)
      /\ m.w.size = z /\ m.w.fb = z
      /\ m.sys = q.sys /\ Reported(m)
  BY <1>2, <1>3, <1>4, <1>5, ResizeKeeps
<1>7. SameInput(n, m)
  BY <1>2, <1>6, InputComposes
<1>8. WOut(m)
  BY <1>2, <1>6 DEF WOut, WSizes, WStates, SameLooks, z
<1>9. WFull(m)
  <2>1. m.w.fullscreen = n.w.fullscreen /\ m.sys.full = n.sys.full
    BY <1>2, <1>6 DEF SameLooks
  <2> QED BY <1>1, <1>7, <2>1, FullSame
<1>10. WKeeps(n, m)
  BY <1>1, <1>6, <1>7, <1>8, <1>9, WSame
<1> QED BY <1>10 DEF m, q

LEMMA WSetSizeKeeps ==
  ASSUME NEW n \in State(WMessage), WInv(n), NEW size \in Nat
  PROVE  WKeeps(n, WSetWindowPos(n, size))
<1> DEFINE m == WSetWindowPos(n, size)
<1>1. WOut(n) /\ WFull(n) /\ WIn(n)
  BY WInvIs
<1>2. /\ m \in State(WMessage) /\ SameInput(n, m) /\ WOut(m)
      /\ m.w.fullscreen = n.w.fullscreen /\ m.sys.full = n.sys.full
  BY <1>1, WSetWindowPosKeeps
<1> HIDE DEF m
<1>3. WFull(m)
  BY <1>1, <1>2, FullSame
<1>4. WKeeps(n, m)
  BY <1>1, <1>2, <1>3, WSame
<1> QED BY <1>4 DEF m

-----------------------------------------------------------------------------
(* Win32: what the program calls *)

WStill(n, m) == m \in State(WMessage) /\ WInv(m) /\ SameInput(n, m)

LEMMA StillKeeps ==
  ASSUME NEW n, NEW m, WStill(n, m)
  PROVE  WKeeps(n, m)
<1>1. m.w.live = n.w.live /\ m.w.focused = n.w.focused /\ m.w.keys = n.w.keys
  BY InputMeans DEF WStill, SameKeyboard
<1> QED BY <1>1 DEF WStill, WKeeps, Promised

LEMMA WStands ==
  ASSUME NEW n, NEW m, m \in State(WMessage), SameInput(n, m), WIn(n), WOut(m), WFull(m)
  PROVE  WStill(n, m)
<1>1. WIn(m)
  BY InputSame
<1> QED BY <1>1, WInvIs DEF WStill

\* Out of sight: the focus and the capture are gone.
LEMMA WHides ==
  ASSUME NEW n \in State(WMessage), WIn(n), NEW m, m = Unfocused(n)
  PROVE  /\ m \in State(WMessage) /\ WIn(m) /\ SameSizes(n, m) /\ SameLooks(n, m)
         /\ m.w.live = n.w.live /\ m.requests = n.requests /\ Promised(n, m)
<1> DEFINE q == Unfocused(n)
<1>1. /\ q \in State(WMessage) /\ SameSizes(n, q) /\ SameLooks(n, q)
      /\ q.w.live = n.w.live /\ q.wire = n.wire /\ q.requests = n.requests
      /\ q.w.focused = FALSE /\ q.w.keys = (IF n.w.focused THEN {} ELSE n.w.keys)
      /\ q.sys.focused = FALSE /\ q.sys.held = n.sys.held /\ q.sys.odd = {}
      /\ q.sys.crossed = Underway(n.wire) /\ q.sys.fresh = {}
      /\ q.w.buttons = n.w.buttons /\ q.sys.here = n.sys.here
      /\ q.sys.strayed = n.sys.strayed \cup n.sys.here \cup n.w.buttons
      /\ q.sys.capture = FALSE
  BY FocusLost
<1>2. FocusArrives(n)
  BY DEF WIn, WInput
<1>3. /\ FocusArrives(q) /\ KeysExpire(q)
      /\ \A K : FreshArrive(q, K) /\ KeysArrive(q, K)
      /\ ShiftsTogether(n) => ShiftsTogether(q)
      /\ TakeTurns(q)
  BY <1>2, SightLost
<1> HIDE DEF q
<1>4. q = m
  BY DEF q
<1>5. Shifted(n.wire, m.wire, Pressing, 0)
  BY <1>1, <1>4, ShiftedSame DEF State
<1>6. m \in State(WMessage)
  BY <1>1, <1>4
<1>7. ButtonsArrive(m)
  <2>1. /\ m.w.buttons \subseteq n.w.buttons
        /\ n.sys.here \cup n.sys.strayed \subseteq m.sys.here \cup m.sys.strayed
    BY <1>1, <1>4
  <2>2. ButtonsArrive(n)
    BY DEF WIn
  <2> QED BY <1>5, <1>6, <2>1, <2>2, ButtonsFramed
<1>8. WButtonsArrive(m)
  <2>1. /\ m.w.buttons = n.w.buttons /\ m.sys.here = n.sys.here
        /\ m.w.buttons \subseteq m.sys.strayed
    BY <1>1, <1>4
  <2>2. WButtonsArrive(n)
    BY DEF WIn
  <2> QED BY <1>5, <1>6, <2>1, <2>2, CaptureFramed
<1>9. WIn(m)
  BY <1>3, <1>4, <1>7, <1>8 DEF WIn, WInput
<1>10. Promised(n, m)
  <2>1. n.w.focused \in BOOLEAN
    BY DEF State, Record
  <2> QED BY <1>1, <1>4, <2>1 DEF Promised
<1> QED BY <1>1, <1>4, <1>9, <1>10

LEMMA WShowKeeps ==
  ASSUME NEW n \in State(WMessage), WInv(n), NEW show \in BOOLEAN
  PROVE  WKeeps(n, WShow(n, show)) /\ (show => WStill(n, WShow(n, show)))
<1> DEFINE v == [n.w EXCEPT !.visible = show]
           s == [n.sys EXCEPT !.shown = show]
           p == [n EXCEPT !.w = v, !.sys = s]
           m == WShow(n, show)
<1>1. n.w \in Record /\ n.sys \in System
  BY DEF State
<1>2. /\ v \in Record /\ v.live = n.w.live /\ v.focused = n.w.focused /\ v.keys = n.w.keys
      /\ v.buttons = n.w.buttons /\ v.minimized = n.w.minimized
      /\ v.maximized = n.w.maximized /\ v.size = n.w.size /\ v.fb = n.w.fb
      /\ v.fullscreen = n.w.fullscreen
  BY <1>1 DEF Record
<1>3. /\ s \in System /\ SameHands(n.sys, s) /\ s.size = n.sys.size /\ s.mini = n.sys.mini
      /\ s.zoomed = n.sys.zoomed /\ s.full = n.sys.full
  BY <1>1 DEF System, SameHands
<1>4. [n EXCEPT !.sys.shown = show, !.w.visible = show] = p
  BY DEF State
<1>5. m = IF show THEN WmSize(p) ELSE Unfocused(p)
  BY <1>4 DEF WShow
<1> HIDE DEF v, s, m
<1>6. /\ p \in State(WMessage) /\ p.w = v /\ p.told = n.told /\ p.sys = s
      /\ p.requests = n.requests /\ SameInput(n, p)
  <2>1. p = [n EXCEPT !.w = v, !.sys = s]
    OBVIOUS
  <2> HIDE DEF p
  <2>2. /\ p \in State(WMessage) /\ p.w = v /\ p.told = n.told /\ p.sys = s
        /\ p.wire = n.wire /\ p.requests = n.requests
    BY <1>2, <1>3, <2>1 DEF State
  <2>3. SameInput(n, p)
    BY <1>2, <1>3, <2>2 DEF SameHands, SameInput, Keyboard, Mouse
  <2> QED BY <2>2, <2>3
<1> HIDE DEF p
<1>7. WOut(n) /\ WFull(n) /\ WIn(n)
  BY WInvIs
<1>8. WOut(p) /\ WFull(p) /\ WIn(p)
  <2>1. WOut(p)
    BY <1>2, <1>3, <1>6, <1>7 DEF WOut, WSizes, WStates, Reported
  <2>2. WFull(p)
    BY <1>2, <1>3, <1>6, <1>7, FullSame
  <2>3. WIn(p)
    BY <1>6, <1>7, InputSame
  <2> QED BY <2>1, <2>2, <2>3
<1>9. CASE show
  <2> DEFINE q == WmSize(p)
  <2>1. /\ q \in State(WMessage) /\ SameInput(p, q) /\ WOut(q) /\ q.sys = p.sys
        /\ q.w.fullscreen = p.w.fullscreen
    <3>1. Reported(p) /\ (p.sys.mini => p.w.size = p.sys.size /\ p.w.fb = p.sys.size)
      BY <1>8 DEF WOut, WSizes
    <3> QED BY <1>6, <3>1, WmSizeKeeps
  <2>2. m = q
    BY <1>5, <1>9
  <2> HIDE DEF q
  <2>3. SameInput(n, m) /\ WFull(m)
    BY <1>6, <1>8, <2>1, <2>2, InputComposes, FullSame
  <2>4. WStill(n, m)
    BY <1>7, <2>1, <2>2, <2>3, WStands
  <2> QED BY <2>4, StillKeeps DEF m
<1>10. CASE ~show
  <2>1. m = Unfocused(p)
    BY <1>5, <1>10
  <2>2. /\ m \in State(WMessage) /\ WIn(m) /\ SameSizes(p, m) /\ SameLooks(p, m)
        /\ m.w.live = p.w.live /\ m.requests = p.requests /\ Promised(p, m)
    BY <1>6, <1>8, <2>1, WHides
  <2>3. WOut(m)
    BY <1>8, <2>2 DEF WOut, WSizes, WStates, Reported, SameSizes, SameLooks
  <2>4. WFull(m)
    BY <1>8, <2>2 DEF WFull, SameLooks
  <2>5. Promised(n, m)
    BY <1>2, <1>6, <2>2 DEF Promised
  <2>6. WKeeps(n, m)
    BY <1>2, <1>6, <2>2, <2>3, <2>4, <2>5, WInvIs DEF WKeeps
  <2> QED BY <1>10, <2>6 DEF m
<1> QED BY <1>9, <1>10

LEMMA WMinimizeKeeps ==
  ASSUME NEW n \in State(WMessage), WInv(n)
  PROVE  WKeeps(n, WMinimize(n))
<1> DEFINE s == [n.sys EXCEPT !.mini = TRUE]
           p == [n EXCEPT !.sys = s]
           q == WmSize(p)
           m == WMinimize(n)
<1>1. n.w \in Record /\ n.sys \in System
  BY DEF State
<1>2. /\ s \in System /\ SameHands(n.sys, s) /\ s.size = n.sys.size /\ s.mini
      /\ s.zoomed = n.sys.zoomed /\ s.full = n.sys.full
  BY <1>1 DEF System, SameHands
<1>3. m = Unfocused(q)
  BY DEF WMinimize
<1> HIDE DEF s, q, m
<1>4. /\ p \in State(WMessage) /\ p.w = n.w /\ p.told = n.told /\ p.sys = s
      /\ SameInput(n, p)
  BY <1>2, SystemSet
<1> HIDE DEF p
<1>5. WOut(n) /\ WFull(n) /\ WIn(n)
  BY WInvIs
<1>6. Reported(p) /\ (p.sys.mini => p.w.size = p.sys.size /\ p.w.fb = p.sys.size)
  BY <1>2, <1>4, <1>5 DEF WOut, WSizes, Reported
<1>7. /\ q \in State(WMessage) /\ SameInput(p, q) /\ WOut(q) /\ q.sys = p.sys
      /\ q.w.fullscreen = p.w.fullscreen
  BY <1>4, <1>6, WmSizeKeeps DEF q
<1>8. SameInput(n, q)
  BY <1>4, <1>7, InputComposes
<1>9. WFull(q) /\ WIn(q)
  BY <1>2, <1>4, <1>5, <1>7, <1>8, FullSame, InputSame
<1>10. /\ m \in State(WMessage) /\ WIn(m) /\ SameSizes(q, m) /\ SameLooks(q, m)
       /\ m.w.live = q.w.live /\ m.requests = q.requests /\ Promised(q, m)
  BY <1>3, <1>7, <1>9, WHides
<1>11. WOut(m)
  BY <1>7, <1>10 DEF WOut, WSizes, WStates, Reported, SameSizes, SameLooks
<1>12. WFull(m)
  BY <1>9, <1>10 DEF WFull, SameLooks
<1>13. Promised(n, m) /\ m.w.live = n.w.live
  <2>1. q.w.live = n.w.live /\ q.w.focused = n.w.focused /\ q.w.keys = n.w.keys
    BY <1>8, InputMeans DEF SameKeyboard
  <2> QED BY <1>10, <2>1 DEF Promised
<1>14. WKeeps(n, m)
  BY <1>10, <1>11, <1>12, <1>13, WInvIs DEF WKeeps
<1> QED BY <1>14 DEF m

\* WM_SIZE after the system has changed the window.
LEMMA WSystemSized ==
  ASSUME NEW n \in State(WMessage), WInv(n), NEW s \in System, SameHands(n.sys, s),
         ~s.mini, s.full = n.sys.full, NEW m, m = WmSize([n EXCEPT !.sys = s])
  PROVE  WStill(n, m)
<1> DEFINE p == [n EXCEPT !.sys = s]
           q == WmSize(p)
<1>1. /\ p \in State(WMessage) /\ p.w = n.w /\ p.told = n.told /\ p.sys = s
      /\ SameInput(n, p)
  BY SystemSet
<1> HIDE DEF p, q
<1>2. WOut(n) /\ WFull(n) /\ WIn(n)
  BY WInvIs
<1>3. Reported(p) /\ (p.sys.mini => p.w.size = p.sys.size /\ p.w.fb = p.sys.size)
  BY <1>1, <1>2 DEF WOut, WSizes, Reported
<1>4. /\ q \in State(WMessage) /\ SameInput(p, q) /\ WOut(q) /\ q.sys = p.sys
      /\ q.w.fullscreen = p.w.fullscreen
  BY <1>1, <1>3, WmSizeKeeps DEF q
<1>5. q = m
  BY DEF p, q
<1>6. SameInput(n, m)
  BY <1>1, <1>4, <1>5, InputComposes
<1>7. WFull(m)
  BY <1>1, <1>2, <1>4, <1>5, <1>6, FullSame
<1> QED BY <1>2, <1>4, <1>5, <1>6, <1>7, WStands

LEMMA WMaximizeKeeps ==
  ASSUME NEW n \in State(WMessage), WInv(n)
  PROVE  WKeeps(n, WMaximize(n))
<1> DEFINE s == [n.sys EXCEPT !.mini = FALSE, !.zoomed = TRUE, !.shown = TRUE,
                              !.size = Screen]
           m == WMaximize(n)
<1>1. n.sys \in System
  BY DEF State
<1>2. s \in System /\ SameHands(n.sys, s) /\ ~s.mini /\ s.full = n.sys.full
  BY <1>1, NativeAssumption DEF System, SameHands
<1>3. m = WmSize([n EXCEPT !.sys = s])
  BY DEF WMaximize
<1> HIDE DEF s, m
<1>4. WStill(n, m)
  BY <1>2, <1>3, WSystemSized
<1> QED BY <1>4, StillKeeps DEF m

LEMMA WUnzoomStands ==
  ASSUME NEW n \in State(WMessage), WInv(n), NEW m, m = WUnzoom(n)
  PROVE  WStill(n, m)
<1> DEFINE b == [n.sys EXCEPT !.mini = FALSE, !.shown = TRUE, !.zoomed = @ /\ n.sys.mini]
           z == IF b.zoomed THEN Screen ELSE b.normal
           s == [b EXCEPT !.size = z]
<1>1. n.sys \in System
  BY DEF State
<1>2. b \in System /\ SameHands(n.sys, b) /\ ~b.mini /\ b.full = n.sys.full
  BY <1>1 DEF System, SameHands
<1> HIDE DEF b
<1>3. z \in Nat
  BY <1>2, NativeAssumption DEF System
<1> HIDE DEF z
<1>4. s \in System /\ SameHands(n.sys, s) /\ ~s.mini /\ s.full = n.sys.full
  BY <1>2, <1>3 DEF System, SameHands
<1>5. m = WmSize([n EXCEPT !.sys = s])
  BY DEF WUnzoom, b, z
<1> HIDE DEF s
<1> QED BY <1>4, <1>5, WSystemSized

LEMMA StillTwice ==
  ASSUME NEW n, NEW p, NEW m, WStill(n, p), WStill(p, m)
  PROVE  WStill(n, m)
BY InputComposes DEF WStill

\* SetWindowPos on the way into fullscreen, or out of it.
LEMMA WFlagged ==
  ASSUME NEW n \in State(WMessage), WOut(n), WIn(n), n.requests = << >>, NEW size \in Nat,
         NEW on \in BOOLEAN, NEW f, f = (IF on THEN "yes" ELSE "no"), NEW m,
         m = [WSetWindowPos([n EXCEPT !.sys.full = f], size) EXCEPT !.w.fullscreen = on]
  PROVE  WStill(n, m)
<1> DEFINE s == [n.sys EXCEPT !.full = f]
           p == [n EXCEPT !.sys = s]
           q == WSetWindowPos(p, size)
           v == [q.w EXCEPT !.fullscreen = on]
<1>1. n.sys \in System
  BY DEF State
<1>2. /\ s \in System /\ SameHands(n.sys, s) /\ s.size = n.sys.size /\ s.mini = n.sys.mini
      /\ s.zoomed = n.sys.zoomed /\ s.full = f
  BY <1>1 DEF System, SameHands
<1>3. m = [q EXCEPT !.w = v]
  BY DEF State
<1> HIDE DEF s, q
<1>4. /\ p \in State(WMessage) /\ p.w = n.w /\ p.told = n.told /\ p.sys = s
      /\ SameInput(n, p)
  BY <1>2, SystemSet
<1> HIDE DEF p
<1>5. WOut(p)
  BY <1>2, <1>4 DEF WOut, WSizes, WStates, Reported
<1>6. /\ q \in State(WMessage) /\ SameInput(p, q) /\ WOut(q)
      /\ q.w.fullscreen = p.w.fullscreen /\ q.sys.full = p.sys.full
  BY <1>4, <1>5, WSetWindowPosKeeps DEF q
<1>7. q.w \in Record
  BY <1>6 DEF State
<1>8. /\ v \in Record /\ v.live = q.w.live /\ v.focused = q.w.focused /\ v.keys = q.w.keys
      /\ v.buttons = q.w.buttons /\ v.minimized = q.w.minimized
      /\ v.maximized = q.w.maximized /\ v.size = q.w.size /\ v.fb = q.w.fb
      /\ v.fullscreen = on
  BY <1>7 DEF Record
<1> HIDE DEF v
<1> DEFINE r == [q EXCEPT !.w = v]
<1>9. /\ r \in State(WMessage) /\ r.w = v /\ r.told = q.told /\ r.sys = q.sys
      /\ r.wire = q.wire /\ r.requests = q.requests /\ SameInput(q, r)
  BY <1>6, <1>8, RecordTouched
<1> HIDE DEF r
<1>10. r = m
  BY <1>3 DEF r
<1>11. SameInput(n, m)
  BY <1>4, <1>6, <1>9, <1>10, InputComposes
<1>12. WOut(m)
  BY <1>6, <1>8, <1>9, <1>10 DEF WOut, WSizes, WStates, Reported
<1>13. WFull(m)
  <2>1. m.sys.full = f /\ m.w.fullscreen = on
    BY <1>2, <1>4, <1>6, <1>8, <1>9, <1>10
  <2>2. m.requests = << >>
    BY <1>11, InputMeans
  <2> QED BY <2>1, <2>2 DEF WFull
<1>14. m \in State(WMessage)
  BY <1>9, <1>10
<1> QED BY <1>11, <1>12, <1>13, <1>14, WStands

LEMMA WSetFullscreenStands ==
  ASSUME NEW n \in State(WMessage), WInv(n), NEW on \in BOOLEAN, NEW monitor \in BOOLEAN,
         NEW m, m = WSetFullscreen(n, on, monitor)
  PROVE  WStill(n, m)
<1>1. WOut(n) /\ WFull(n) /\ WIn(n)
  BY WInvIs
<1>2. n.requests = << >> /\ n.w \in Record /\ n.sys \in System
  BY <1>1 DEF WFull, State
<1>3. CASE on /\ ~n.w.fullscreen
  <2> DEFINE z == IF n.sys.mini THEN 1 ELSE n.sys.size
             v == [n.w EXCEPT !.restore = z]
             p == [n EXCEPT !.w = v]
  <2>1. z \in Nat
    BY <1>2 DEF System
  <2>2. [n EXCEPT !.w.restore = z] = p
    BY DEF State
  <2>3. m = IF ~monitor THEN p
            ELSE [WSetWindowPos([p EXCEPT !.sys.full = "yes"], Screen)
                    EXCEPT !.w.fullscreen = TRUE]
    BY <1>3, <2>2 DEF WSetFullscreen
  <2> HIDE DEF z
  <2>4. /\ v \in Record /\ v.live = n.w.live /\ v.focused = n.w.focused
        /\ v.keys = n.w.keys
        /\ v.buttons = n.w.buttons /\ v.minimized = n.w.minimized
        /\ v.maximized = n.w.maximized /\ v.size = n.w.size /\ v.fb = n.w.fb
        /\ v.fullscreen = n.w.fullscreen
    BY <1>2, <2>1 DEF Record
  <2> HIDE DEF v
  <2>5. /\ p \in State(WMessage) /\ p.w = v /\ p.told = n.told /\ p.sys = n.sys
        /\ p.wire = n.wire /\ p.requests = n.requests /\ SameInput(n, p)
    BY <2>4, RecordTouched
  <2> HIDE DEF p
  <2>6. WOut(p)
    BY <1>1, <2>4, <2>5 DEF WOut, WSizes, WStates, Reported
  <2>7. WFull(p)
    BY <1>1, <2>4, <2>5, FullSame
  <2>8. WStill(n, p)
    BY <1>1, <2>5, <2>6, <2>7, WStands
  <2>9. CASE ~monitor
    BY <2>3, <2>8, <2>9
  <2>10. CASE monitor
    <3>1. m = [WSetWindowPos([p EXCEPT !.sys.full = "yes"], Screen) EXCEPT !.w.fullscreen = TRUE]
      BY <2>3, <2>10
    <3>2. Screen \in Nat /\ WIn(p) /\ p.requests = << >>
      BY <1>1, <1>2, <2>5, NativeAssumption, InputSame
    <3> DEFINE f == "yes"
               o == TRUE
    <3>3. f = (IF o THEN "yes" ELSE "no") /\ o \in BOOLEAN
      OBVIOUS
    <3>4. m = [WSetWindowPos([p EXCEPT !.sys.full = f], Screen) EXCEPT !.w.fullscreen = o]
      BY <3>1
    <3> HIDE DEF f, o
    <3>5. WStill(p, m)
      BY <2>5, <2>6, <3>2, <3>3, <3>4, WFlagged
    <3> QED BY <2>8, <3>5, StillTwice
  <2> QED BY <2>9, <2>10
<1>4. CASE ~on /\ n.w.fullscreen
  <2> DEFINE z == n.w.restore
             f == "no"
             o == FALSE
  <2>1. m = [WSetWindowPos([n EXCEPT !.sys.full = f], z) EXCEPT !.w.fullscreen = o]
    BY <1>4 DEF WSetFullscreen
  <2>2. z \in Nat /\ f = (IF o THEN "yes" ELSE "no") /\ o \in BOOLEAN
    BY <1>2 DEF Record
  <2> HIDE DEF z, f, o
  <2> QED BY <1>1, <1>2, <2>1, <2>2, WFlagged
<1>5. CASE (on /\ n.w.fullscreen) \/ (~on /\ ~n.w.fullscreen)
  <2>1. m = n
    BY <1>5 DEF WSetFullscreen
  <2>2. SameInput(n, n)
    BY DEF SameInput
  <2> QED BY <2>1, <2>2 DEF WStill
<1> QED BY <1>3, <1>4, <1>5

LEMMA WRestoreStands ==
  ASSUME NEW n \in State(WMessage), WInv(n), NEW m, m = WRestore(n)
  PROVE  WStill(n, m)
<1> DEFINE o == FALSE
           t == TRUE
           q == WSetFullscreen(n, o, t)
<1>1. CASE n.w.fullscreen
  <2>1. m = WUnzoom(q)
    BY <1>1 DEF WRestore
  <2>2. o \in BOOLEAN /\ t \in BOOLEAN
    OBVIOUS
  <2> HIDE DEF o, t
  <2>3. WStill(n, q)
    BY <2>2, WSetFullscreenStands
  <2> HIDE DEF q
  <2>4. WStill(q, m)
    BY <2>1, <2>3, WUnzoomStands DEF WStill
  <2> QED BY <2>3, <2>4, StillTwice
<1>2. CASE ~n.w.fullscreen
  <2>1. m = WUnzoom(n)
    BY <1>2 DEF WRestore
  <2> QED BY <2>1, WUnzoomStands
<1> QED BY <1>1, <1>2

\* A window nobody has seen or touched.
LEMMA Untouched ==
  ASSUME NEW n, n.wire = << >>, n.w.focused = FALSE, n.w.keys = {}, n.w.buttons = {},
         n.sys.focused = FALSE, n.sys.fresh = {}
  PROVE  WIn(n) /\ CInput(n) /\ ButtonsArrive(n)
<1>1. 1..Len(n.wire) = {}
  OBVIOUS
<1>2. FocusArrives(n) /\ KeysExpire(n)
  BY <1>1 DEF FocusArrives, KeysExpire
<1>3. \A K : KeysArrive(n, K) /\ FreshArrive(n, K)
  BY DEF KeysArrive, FreshArrive
<1>4. ShiftsTogether(n) /\ TakeTurns(n)
  BY <1>1 DEF ShiftsTogether, TakeTurns
<1>5. ButtonsArrive(n) /\ WButtonsArrive(n)
  BY <1>1 DEF ButtonsArrive, WButtonsArrive
<1> QED BY <1>2, <1>3, <1>4, <1>5 DEF WIn, WInput, CInput

\* What opening a window leads to.
Unfolded(n) == n.w.live /\ n.w.focused = FALSE /\ n.w.keys = {}

LEMMA WOpenStep ==
  ASSUME WOpen
  PROVE  Now' \in State(WMessage) /\ WInv(Now') /\ Unfolded(Now')
<1> PICK s \in Size, t \in Size, r \in Scale, full \in BOOLEAN :
      LET sized == WSetWindowPos(WCreated(s, r), t)
      IN Becomes(Opened(WShow(IF full THEN WSetFullscreen(sized, TRUE, TRUE) ELSE sized, TRUE)))
  BY DEF WOpen
<1> DEFINE z == s * r
           yes == TRUE
           n == Fresh(s, s, r, yes)
           e == WSetWindowPos(n, z)
           a == WSetWindowPos(e, t)
           f == WSetFullscreen(a, yes, yes)
           b == IF full THEN f ELSE a
           c == WShow(b, yes)
<1>0. s \in Nat /\ z \in Nat /\ t \in Nat /\ r \in Nat \ {0} /\ yes \in BOOLEAN
  BY NativeAssumption
<1>a. yes
  OBVIOUS
<1>1. Becomes(Opened(c))
  BY DEF WCreated
<1> HIDE DEF z, yes
<1>2. /\ n \in State(WMessage) /\ n.w = Created(s, s, r, yes)
      /\ n.told = [size |-> Unsized, fb |-> s] /\ n.sys = Unseen(s, r)
      /\ n.wire = << >> /\ n.requests = << >>
  BY <1>0, FreshTyped
<1>3. /\ n.w.live = TRUE /\ n.w.size = s /\ n.w.fb = s
      /\ n.w.minimized = FALSE /\ n.w.maximized = FALSE /\ n.w.fullscreen = FALSE
      /\ n.w.focused = FALSE /\ n.w.keys = {} /\ n.w.buttons = {}
      /\ n.told.size = Unsized /\ n.told.fb = s
  BY <1>2 DEF Created
<1>4. /\ n.sys.size = s /\ n.sys.mini = FALSE
      /\ n.sys.zoomed = FALSE /\ n.sys.full = "no" /\ n.sys.focused = FALSE
      /\ n.sys.fresh = {}
  BY <1>2 DEF Unseen
<1> HIDE DEF n, e, a, f, b, c
<1>5. WInv(n)
  <2>1. WOut(n) /\ WFull(n)
    BY <1>2, <1>3, <1>4 DEF WOut, WSizes, WStates, Reported, WFull
  <2>2. WIn(n)
    BY <1>2, <1>3, <1>4, Untouched
  <2> QED BY <2>1, <2>2, WInvIs
<1>b. ASSUME NEW p \in State(WMessage), WInv(p), NEW y \in Nat, NEW q, q = WSetWindowPos(p, y)
      PROVE  WStill(p, q)
  <2>1. WOut(p) /\ WFull(p) /\ WIn(p)
    BY <1>b, WInvIs
  <2>2. /\ q \in State(WMessage) /\ SameInput(p, q) /\ WOut(q)
        /\ q.w.fullscreen = p.w.fullscreen /\ q.sys.full = p.sys.full
    BY <1>b, <2>1, WSetWindowPosKeeps
  <2> QED BY <2>1, <2>2, FullSame, WStands
<1>6. WStill(n, a)
  <2>1. WStill(n, e)
    BY <1>0, <1>2, <1>5, <1>b DEF e
  <2>2. WStill(e, a)
    BY <1>0, <1>b, <2>1 DEF a, WStill
  <2> QED BY <2>1, <2>2, StillTwice
<1>7. WStill(n, b)
  <2>1. WStill(a, f)
    BY <1>0, <1>6, WSetFullscreenStands DEF f, WStill
  <2>2. WStill(n, f)
    BY <1>6, <2>1, StillTwice
  <2> QED BY <1>6, <2>2 DEF b
<1>8. WStill(n, c)
  <2>1. b \in State(WMessage) /\ WInv(b)
    BY <1>7 DEF WStill
  <2>2. WKeeps(b, c) /\ (yes => WStill(b, c))
    BY <1>0, <2>1, WShowKeeps DEF c
  <2> QED BY <1>a, <1>7, <2>2, StillTwice
<1>9. c \in State(WMessage) /\ WInv(c) /\ SameInput(n, c)
  BY <1>8 DEF WStill
<1>10. Unfolded(c)
  BY <1>3, <1>9, InputMeans DEF Unfolded, SameKeyboard
<1>11. Opened(c) = c
  BY <1>9, OpenedIs DEF WInv, WSizes, Reported
<1>12. Becomes(c)
  BY <1>1, <1>11
<1>13. Now' = c
  BY <1>9, <1>12, BecomesNow
<1> QED BY <1>9, <1>10, <1>13

LEMMA WCallStep ==
  ASSUME Now \in State(WMessage), WInv(Now), WCall
  PROVE  WKeeps(Now, Now')
<1> DEFINE n == Now
<1> HIDE DEF n
<1>1. ASSUME NEW m, WKeeps(n, m), Becomes(m)
      PROVE  WKeeps(Now, Now')
  <2>1. Now' = m
    BY <1>1, BecomesNow DEF WKeeps
  <2> QED BY <1>1, <2>1 DEF n
<1>2. ASSUME NEW show \in BOOLEAN, Becomes(WShow(n, show))
      PROVE  WKeeps(Now, Now')
  <2>1. WKeeps(n, WShow(n, show)) /\ (show => WStill(n, WShow(n, show)))
    BY WShowKeeps DEF n
  <2> QED BY <1>1, <1>2, <2>1
<1>3. ASSUME NEW s \in Size, Becomes(WSetWindowPos(n, s))
      PROVE  WKeeps(Now, Now')
  <2>1. s \in Nat
    BY NativeAssumption
  <2>2. WKeeps(n, WSetWindowPos(n, s))
    BY <2>1, WSetSizeKeeps DEF n
  <2> QED BY <1>1, <1>3, <2>2
<1>4. ASSUME NEW on \in BOOLEAN, NEW monitor \in BOOLEAN,
             Becomes(WSetFullscreen(n, on, monitor))
      PROVE  WKeeps(Now, Now')
  <2> DEFINE m == WSetFullscreen(n, on, monitor)
  <2> HIDE DEF m
  <2>1. WStill(n, m)
    BY WSetFullscreenStands DEF n, m
  <2> QED BY <1>1, <1>4, <2>1, StillKeeps DEF m
<1>5. ASSUME Becomes(WMinimize(n))
      PROVE  WKeeps(Now, Now')
  <2>1. WKeeps(n, WMinimize(n))
    BY WMinimizeKeeps DEF n
  <2> QED BY <1>1, <1>5, <2>1
<1>6. ASSUME Becomes(WMaximize(n))
      PROVE  WKeeps(Now, Now')
  <2>1. WKeeps(n, WMaximize(n))
    BY WMaximizeKeeps DEF n
  <2> QED BY <1>1, <1>6, <2>1
<1>7. ASSUME Becomes(WRestore(n))
      PROVE  WKeeps(Now, Now')
  <2> DEFINE m == WRestore(n)
  <2> HIDE DEF m
  <2>1. WStill(n, m)
    BY WRestoreStands DEF n, m
  <2> QED BY <1>1, <1>7, <2>1, StillKeeps DEF m
<1> QED BY <1>2, <1>3, <1>4, <1>5, <1>6, <1>7 DEF WCall, n

-----------------------------------------------------------------------------
(* The user, on Win32 and Cocoa *)

LEMMA KeyboardFramed ==
  ASSUME NEW M, NEW n \in State(M), NEW m \in State(M), SameKeyboard(n, m),
         NEW d \in Nat, Shifted(n.wire, m.wire, Typing, d)
  PROVE  /\ WInput(n) => WInput(m)
         /\ CInput(n) => CInput(m)
<1>1. FocusArrives(n) => FocusArrives(m)
  BY FocusFramed
<1>2. KeysExpire(n) => KeysExpire(m)
  BY ExpireFramed
<1>3. ASSUME NEW K, K \subseteq Key
      PROVE  /\ KeysArrive(n, K) => KeysArrive(m, K)
             /\ FreshArrive(n, K) => FreshArrive(m, K)
  BY <1>3, ArriveFramed, FreshFramed
<1>4. ShiftsTogether(n) => ShiftsTogether(m)
  BY ShiftsFramed
<1>5. TakeTurns(n) => TakeTurns(m)
  BY TurnsFramed
<1>6. Key \ Shift \subseteq Key /\ Key \ Toggled \subseteq Key
  OBVIOUS
<1> QED BY <1>1, <1>2, <1>3, <1>4, <1>5, <1>6 DEF WInput, CInput

LEMMA MouseFramed ==
  ASSUME NEW M, NEW n \in State(M), NEW m \in State(M), Mouse(m) = Mouse(n),
         NEW d \in Nat, Shifted(n.wire, m.wire, Pressing, d)
  PROVE  /\ ButtonsArrive(n) => ButtonsArrive(m)
         /\ WButtonsArrive(n) => WButtonsArrive(m)
<1>1. /\ m.w.buttons = n.w.buttons /\ m.sys.here = n.sys.here
      /\ m.sys.strayed = n.sys.strayed /\ m.sys.capture = n.sys.capture
  BY DEF Mouse
<1>2. ButtonsArrive(n) => ButtonsArrive(m)
  BY <1>1, ButtonsFramed
<1>3. WButtonsArrive(n) => WButtonsArrive(m)
  BY <1>1, CaptureFramed
<1> QED BY <1>2, <1>3

\* Which messages are about keys and which about buttons.
LEMMA ByType ==
  /\ \A x \in Typing : x.type \in {"focus", "key"}
  /\ \A x \in Pressing : x.type = "button"
  /\ \A x \in Typing : x \notin Pressing
  /\ \A x \in Pressing : x \notin Typing
<1>1. \A x \in FocusWord : x.type = "focus"
  BY DEF FocusWord
<1>2. \A x \in KeyOf(Key) : x.type = "key"
  BY DEF KeyOf
<1>3. \A x \in Pressing : x.type = "button"
  BY DEF Pressing
<1>4. \A x \in Typing : x.type \in {"focus", "key"}
  BY <1>1, <1>2 DEF Typing
<1> QED BY <1>3, <1>4

\* A message of another kind is sent.
LEMMA OtherTold ==
  ASSUME NEW M, NEW n \in State(M), NEW x \in M, x.type \notin {"focus", "key", "button"},
         NEW m, m = Tell(n, x)
  PROVE  /\ m \in State(M) /\ m.w = n.w /\ m.told = n.told /\ m.sys = n.sys
         /\ m.requests = n.requests /\ m.wire = Append(n.wire, x)
         /\ WIn(n) => WIn(m)
         /\ CInput(n) /\ ButtonsArrive(n) => CInput(m) /\ ButtonsArrive(m)
<1>1. /\ m \in State(M) /\ m.w = n.w /\ m.told = n.told /\ m.sys = n.sys
      /\ m.requests = n.requests /\ m.wire = Append(n.wire, x)
  BY MessageTold
<1>2. x \notin Typing /\ x \notin Pressing
  BY ByType
<1>3. n.wire \in Seq(M)
  BY DEF State
<1>4. Shifted(n.wire, m.wire, Typing, 0) /\ Shifted(n.wire, m.wire, Pressing, 0)
  BY <1>1, <1>2, <1>3, ShiftedAppend
<1>5. SameKeyboard(n, m) /\ Mouse(m) = Mouse(n)
  BY <1>1 DEF SameKeyboard, Mouse
<1>6. (WInput(n) => WInput(m)) /\ (CInput(n) => CInput(m))
  BY <1>1, <1>4, <1>5, KeyboardFramed
<1>7. /\ ButtonsArrive(n) => ButtonsArrive(m)
      /\ WButtonsArrive(n) => WButtonsArrive(m)
  BY <1>1, <1>4, <1>5, MouseFramed
<1> QED BY <1>1, <1>6, <1>7 DEF WIn

\* The system gives the focus or takes it away.
LEMMA FocusSent ==
  ASSUME NEW M, NEW n \in State(M), NEW on \in BOOLEAN, n.sys.focused = ~on,
         FocusArrives(n), KeysExpire(n),
         NEW x, x = [type |-> "focus", on |-> on], x \in M,
         NEW m, m = Tell(Focused(n, on), x)
  PROVE  /\ m \in State(M) /\ m.w = n.w /\ m.told = n.told /\ m.requests = n.requests
         /\ SameSizes(n, m) /\ SameLooks(n, m)
         /\ WIn(n) => WIn(m)
         /\ CInput(n) /\ ButtonsArrive(n) => CInput(m) /\ ButtonsArrive(m)
<1>1. x \in FocusWord /\ x.on = on /\ x.type = "focus"
  BY DEF FocusWord
<1>a. n.sys.focused = ~x.on
  BY <1>1
<1> DEFINE q == Tell(Focused(n, x.on), x)
<1>2. q = m
  BY <1>1
<1>3. /\ q \in State(M) /\ q.w = n.w /\ q.told = n.told /\ q.requests = n.requests
      /\ SameSizes(n, q) /\ SameLooks(n, q) /\ Mouse(q) = Mouse(n)
      /\ q.wire = Append(n.wire, x)
      /\ FocusArrives(q) /\ KeysExpire(q)
      /\ \A K : FreshArrive(q, K) /\ KeysArrive(q, K)
      /\ ShiftsTogether(n) => ShiftsTogether(q)
      /\ TakeTurns(q)
  BY <1>1, <1>a, FocusTold
<1> HIDE DEF q
<1>4. n.wire \in Seq(M) /\ x \notin Pressing
  BY <1>1, ByType DEF State
<1>5. Shifted(n.wire, m.wire, Pressing, 0)
  BY <1>2, <1>3, <1>4, ShiftedAppend
<1>6. /\ ButtonsArrive(n) => ButtonsArrive(m)
      /\ WButtonsArrive(n) => WButtonsArrive(m)
  BY <1>2, <1>3, <1>5, MouseFramed
<1> QED BY <1>2, <1>3, <1>6 DEF WIn, WInput, CInput

\* A key goes down or up and the window is told.
LEMMA TypedTold ==
  ASSUME NEW M, NEW n \in State(M), NEW k \in Key, NEW down \in BOOLEAN,
         NEW quiet \in BOOLEAN, n.sys.focused, ~quiet, KeyOf(Key) \subseteq M,
         FocusArrives(n), KeysExpire(n), NEW m, m = Typed(n, k, down, quiet)
  PROVE  /\ m \in State(M) /\ m.w = n.w /\ m.told = n.told /\ m.requests = n.requests
         /\ SameSizes(n, m) /\ SameLooks(n, m)
         /\ (down => k \notin n.sys.held)
            /\ (k \in Shift /\ ~down => n.sys.held \cap Shift = {k})
            /\ WIn(n)
              => WIn(m)
         /\ (down <=> k \notin n.sys.held) /\ CInput(n) /\ ButtonsArrive(n)
              => CInput(m) /\ ButtonsArrive(m)
<1> DEFINE h == IF down THEN n.sys.held \cup {k} ELSE n.sys.held \ {k}
           f == IF down THEN n.sys.fresh \cup {k} ELSE n.sys.fresh \ {k}
           s == [n.sys EXCEPT !.held = h, !.fresh = f]
           p == [n EXCEPT !.sys = s]
           x == [type |-> "key", key |-> k, down |-> down, held |-> h]
<1>1. n.sys \in System /\ n.w \in Record /\ n.wire \in Seq(M)
  BY DEF State
<1>2. h \in SUBSET Key /\ f \in SUBSET Key
  BY <1>1 DEF System
<1>3. x \in KeyOf(Key) /\ x.key = k /\ x.down = down /\ x.held = h /\ x.type = "key"
  BY <1>2 DEF KeyOf
<1>4. m = Tell(p, x)
  <2>1. [n EXCEPT !.sys.held = h,
                  !.sys.fresh = IF ~down THEN @ \ {k}
                                ELSE IF n.sys.focused /\ ~quiet THEN @ \cup {k} ELSE @] = p
    BY DEF State, System
  <2> QED BY <2>1 DEF Typed
<1> HIDE DEF h, f
<1>5. /\ s \in System /\ s.held = h /\ s.fresh = f /\ s.focused = n.sys.focused
      /\ s.odd = n.sys.odd /\ s.crossed = n.sys.crossed
      /\ s.size = n.sys.size /\ s.scale = n.sys.scale /\ s.shown = n.sys.shown
      /\ s.mini = n.sys.mini /\ s.zoomed = n.sys.zoomed /\ s.full = n.sys.full
      /\ s.refused = n.sys.refused /\ s.here = n.sys.here /\ s.strayed = n.sys.strayed
      /\ s.capture = n.sys.capture
  BY <1>1, <1>2 DEF System
<1> HIDE DEF s, x
<1>6. /\ p \in State(M) /\ p.w = n.w /\ p.told = n.told /\ p.sys = s /\ p.wire = n.wire
      /\ p.requests = n.requests
  BY <1>5 DEF State
<1> HIDE DEF p
<1>7. x \in M
  BY <1>3
<1> DEFINE q == Tell(p, x)
<1>8. /\ q \in State(M) /\ q.w = p.w /\ q.told = p.told /\ q.sys = p.sys
      /\ q.requests = p.requests /\ q.wire = Append(p.wire, x)
  BY <1>6, <1>7, MessageTold
<1> HIDE DEF q
<1>9. q = m
  BY <1>4 DEF q
<1>10. n.sys.focused = TRUE
  BY <1>1 DEF System
<1>11. Tells(n, m, x)
  BY <1>3, <1>5, <1>6, <1>8, <1>9, <1>10, ZenonT(60) DEF Tells, h, f
<1>12. SameSizes(n, m) /\ SameLooks(n, m) /\ Mouse(m) = Mouse(n)
  BY <1>5, <1>6, <1>8, <1>9 DEF SameSizes, SameLooks, Mouse
<1>13. m \in State(M) /\ m.wire = Append(n.wire, x)
  BY <1>6, <1>8, <1>9
<1>14. FocusArrives(m) /\ KeysExpire(m)
  BY <1>3, <1>7, <1>11, <1>13, KeyTold
<1>15. ASSUME NEW K, FreshArrive(n, K), KeysArrive(n, K)
       PROVE  FreshArrive(m, K) /\ KeysArrive(m, K)
  BY <1>3, <1>7, <1>11, <1>13, <1>15, KeyToldArrives
<1>16. x \notin Pressing
  BY <1>3, ByType
<1>17. Shifted(n.wire, m.wire, Pressing, 0)
  BY <1>1, <1>7, <1>13, <1>16, ShiftedAppend
<1>18. /\ ButtonsArrive(n) => ButtonsArrive(m)
       /\ WButtonsArrive(n) => WButtonsArrive(m)
  BY <1>12, <1>13, <1>17, MouseFramed
<1>19. ASSUME k \in Shift /\ ~down => n.sys.held \cap Shift = {k}, ShiftsTogether(n)
       PROVE  ShiftsTogether(m)
  <2>1. x.key \in Shift /\ ~x.down => n.sys.held \cap Shift = {x.key}
    BY <1>3, <1>19
  <2> QED BY <1>3, <1>7, <1>11, <1>13, <1>19, <2>1, KeyToldShifts
<1>20. ASSUME down <=> k \notin n.sys.held, TakeTurns(n)
       PROVE  TakeTurns(m)
  <2>1. x.down <=> x.key \notin n.sys.held
    BY <1>3, <1>20
  <2> QED BY <1>3, <1>7, <1>11, <1>13, <1>20, <2>1, KeyToldTurns
<1>21. ASSUME k \in Shift /\ ~down => n.sys.held \cap Shift = {k}, WIn(n)
       PROVE  WIn(m)
  BY <1>14, <1>15, <1>18, <1>19, <1>21 DEF WIn, WInput
<1>22. ASSUME down <=> k \notin n.sys.held, CInput(n), ButtonsArrive(n)
       PROVE  CInput(m) /\ ButtonsArrive(m)
  BY <1>14, <1>15, <1>18, <1>20, <1>22 DEF CInput
<1> QED BY <1>6, <1>8, <1>9, <1>12, <1>21, <1>22

\* A key goes down or up elsewhere.
LEMMA TypedElsewhere ==
  ASSUME NEW M, NEW n \in State(M), NEW k \in Key, NEW down \in BOOLEAN,
         NEW quiet \in BOOLEAN, ~n.sys.focused,
         FocusArrives(n), NEW m, m = Typed(n, k, down, quiet)
  PROVE  /\ m \in State(M) /\ m.w = n.w /\ m.told = n.told /\ m.requests = n.requests
         /\ SameSizes(n, m) /\ SameLooks(n, m)
         /\ WIn(n) => WIn(m)
         /\ CInput(n) /\ ButtonsArrive(n) => CInput(m) /\ ButtonsArrive(m)
<1> DEFINE h == IF down THEN n.sys.held \cup {k} ELSE n.sys.held \ {k}
           f == IF down THEN n.sys.fresh ELSE n.sys.fresh \ {k}
           s == [n.sys EXCEPT !.held = h, !.fresh = f]
           p == [n EXCEPT !.sys = s]
<1>1. n.sys \in System /\ n.w \in Record
  BY DEF State
<1>2. h \in SUBSET Key /\ f \in SUBSET Key
  BY <1>1 DEF System
<1>3. n.sys.fresh = {} /\ f = {}
  BY DEF FocusArrives
<1>4. m = p
  <2>1. [n EXCEPT !.sys.held = h,
                  !.sys.fresh = IF ~down THEN @ \ {k}
                                ELSE IF n.sys.focused /\ ~quiet THEN @ \cup {k} ELSE @] = p
    BY DEF State, System
  <2> QED BY <2>1 DEF Typed
<1> HIDE DEF h, f
<1>5. /\ s \in System /\ s.held = h /\ s.fresh = f /\ s.focused = n.sys.focused
      /\ s.odd = n.sys.odd /\ s.crossed = n.sys.crossed
      /\ s.size = n.sys.size /\ s.scale = n.sys.scale /\ s.shown = n.sys.shown
      /\ s.mini = n.sys.mini /\ s.zoomed = n.sys.zoomed /\ s.full = n.sys.full
      /\ s.refused = n.sys.refused /\ s.here = n.sys.here /\ s.strayed = n.sys.strayed
      /\ s.capture = n.sys.capture
  BY <1>1, <1>2 DEF System
<1> HIDE DEF s
<1>6. /\ p \in State(M) /\ p.w = n.w /\ p.told = n.told /\ p.sys = s /\ p.wire = n.wire
      /\ p.requests = n.requests
  BY <1>5 DEF State
<1> HIDE DEF p
<1>7. /\ m.wire = n.wire /\ m.w = n.w /\ m.sys.focused = n.sys.focused /\ m.sys.fresh = {}
      /\ m.sys.odd = n.sys.odd /\ m.sys.crossed = n.sys.crossed
      /\ m.sys.here = n.sys.here /\ m.sys.strayed = n.sys.strayed
      /\ m.sys.capture = n.sys.capture
  BY <1>3, <1>4, <1>5, <1>6
<1>8. FocusArrives(m)
  BY <1>7 DEF FocusArrives
<1>9. KeysExpire(n) => KeysExpire(m)
  BY <1>7 DEF KeysExpire
<1>10. \A K : FreshArrive(m, K) /\ KeysArrive(m, K)
  BY <1>7 DEF FreshArrive, KeysArrive
<1>11. ShiftsTogether(n) => ShiftsTogether(m)
  BY <1>7 DEF ShiftsTogether
<1>12. TakeTurns(m)
  BY <1>7 DEF TakeTurns
<1>13. ButtonsArrive(n) => ButtonsArrive(m)
  BY <1>7 DEF ButtonsArrive
<1>14. WButtonsArrive(n) => WButtonsArrive(m)
  BY <1>7 DEF WButtonsArrive
<1>15. SameSizes(n, m) /\ SameLooks(n, m)
  BY <1>4, <1>5, <1>6 DEF SameSizes, SameLooks
<1>16. WIn(n) => WIn(m)
  BY <1>8, <1>9, <1>10, <1>11, <1>13, <1>14 DEF WIn, WInput
<1>17. CInput(n) /\ ButtonsArrive(n) => CInput(m) /\ ButtonsArrive(m)
  BY <1>8, <1>9, <1>10, <1>12, <1>13 DEF CInput
<1> QED BY <1>4, <1>6, <1>15, <1>16, <1>17

\* Nothing libnack has is touched, nor what the window looks like.
Sent(n, m) ==
  /\ m.w = n.w /\ m.told = n.told /\ m.requests = n.requests
  /\ SameSizes(n, m) /\ SameLooks(n, m)

\* Of two shifts held down the first goes up, and Windows keeps quiet.
LEMMA TypedQuietly ==
  ASSUME NEW M, NEW n \in State(M), NEW k \in Key, NEW down \in BOOLEAN,
         NEW quiet \in BOOLEAN, n.sys.focused, quiet, ~down,
         k \in Shift, k \in n.sys.held, NEW l \in Shift, l \in n.sys.held, l # k,
         WIn(n), NEW m, m = Typed(n, k, down, quiet)
  PROVE  m \in State(M) /\ Sent(n, m) /\ WIn(m)
<1> DEFINE h == n.sys.held \ {k}
           f == n.sys.fresh \ {k}
           s == [n.sys EXCEPT !.held = h, !.fresh = f]
           p == [n EXCEPT !.sys = s]
<1>1. n.sys \in System /\ n.w \in Record
  BY DEF State
<1>2. h \in SUBSET Key /\ f \in SUBSET Key
  BY <1>1 DEF System
<1>3. n.sys.fresh \subseteq n.sys.held
  BY DEF WIn, WInput, FocusArrives
<1>4. m = p
  <2>1. [n EXCEPT !.sys.held = h,
                  !.sys.fresh = IF ~down THEN @ \ {k}
                                ELSE IF n.sys.focused /\ ~quiet THEN @ \cup {k} ELSE @] = p
    BY DEF State, System
  <2>2. (IF down THEN n.sys.held \cup {k} ELSE n.sys.held \ {k}) = h
    OBVIOUS
  <2> QED BY <2>1, <2>2 DEF Typed
<1>5. /\ f \subseteq h /\ h \cap Shift # {}
      /\ \A c \in Key \ Shift : /\ c \in h <=> c \in n.sys.held
                                /\ c \in f <=> c \in n.sys.fresh
  BY <1>3
<1> HIDE DEF h, f
<1>6. /\ s \in System /\ s.held = h /\ s.fresh = f /\ s.focused = n.sys.focused
      /\ s.odd = n.sys.odd /\ s.crossed = n.sys.crossed
      /\ s.size = n.sys.size /\ s.scale = n.sys.scale /\ s.shown = n.sys.shown
      /\ s.mini = n.sys.mini /\ s.zoomed = n.sys.zoomed /\ s.full = n.sys.full
      /\ s.refused = n.sys.refused /\ s.here = n.sys.here /\ s.strayed = n.sys.strayed
      /\ s.capture = n.sys.capture
  BY <1>1, <1>2 DEF System
<1> HIDE DEF s
<1>7. /\ p \in State(M) /\ p.w = n.w /\ p.told = n.told /\ p.sys = s /\ p.wire = n.wire
      /\ p.requests = n.requests
  BY <1>6 DEF State
<1> HIDE DEF p
<1>8. /\ m.wire = n.wire /\ m.w = n.w /\ m.sys.focused = n.sys.focused
      /\ m.sys.fresh = f /\ m.sys.held = h
      /\ m.sys.odd = n.sys.odd /\ m.sys.crossed = n.sys.crossed
      /\ m.sys.here = n.sys.here /\ m.sys.strayed = n.sys.strayed
      /\ m.sys.capture = n.sys.capture
  BY <1>4, <1>6, <1>7
<1>9. /\ FocusArrives(n) /\ KeysExpire(n) /\ KeysArrive(n, Key \ Shift)
      /\ FreshArrive(n, Key \ Shift) /\ ShiftsTogether(n)
      /\ ButtonsArrive(n) /\ WButtonsArrive(n)
  BY DEF WIn, WInput
<1>10. FocusArrives(m)
  BY <1>5, <1>8, <1>9 DEF FocusArrives
<1>11. KeysExpire(m)
  BY <1>8, <1>9 DEF KeysExpire
<1>12. KeysArrive(m, Key \ Shift)
  BY <1>5, <1>8, <1>9 DEF KeysArrive
<1>13. FreshArrive(m, Key \ Shift)
  <2>1. \A c \in m.sys.fresh \cap (Key \ Shift) : c \in n.sys.fresh \cap (Key \ Shift)
    BY <1>5, <1>8
  <2> QED BY <1>8, <1>9, <2>1 DEF FreshArrive
<1>14. ShiftsTogether(m)
  BY <1>5, <1>8, <1>9 DEF ShiftsTogether
<1>15. ButtonsArrive(m)
  BY <1>8, <1>9 DEF ButtonsArrive
<1>16. WButtonsArrive(m)
  BY <1>8, <1>9 DEF WButtonsArrive
<1>17. Sent(n, m)
  BY <1>4, <1>6, <1>7 DEF Sent, SameSizes, SameLooks
<1> QED BY <1>4, <1>7, <1>10, <1>11, <1>12, <1>13, <1>14, <1>15, <1>16, <1>17 DEF WIn, WInput

\* Nothing but the buttons differs.
ButtonsOnly(s, t) ==
  /\ t.focused = s.focused /\ t.held = s.held /\ t.odd = s.odd
  /\ t.crossed = s.crossed /\ t.fresh = s.fresh
  /\ t.size = s.size /\ t.scale = s.scale /\ t.shown = s.shown
  /\ t.mini = s.mini /\ t.zoomed = s.zoomed /\ t.full = s.full
  /\ t.refused = s.refused /\ t.capture = s.capture

\* A button goes down or up in the system's hands.
LEMMA ButtonSent ==
  ASSUME NEW M, NEW n \in State(M), NEW s \in System, NEW x \in M, x \in Pressing,
         ButtonsOnly(n.sys, s),
         s.here = IF x.down THEN n.sys.here \cup {x.button} ELSE n.sys.here \ {x.button},
         n.sys.strayed \ (IF x.down THEN {x.button} ELSE {}) \subseteq s.strayed,
         NEW m, m = Tell([n EXCEPT !.sys = s], x)
  PROVE  /\ m \in State(M) /\ m.w = n.w /\ m.told = n.told /\ m.requests = n.requests
         /\ SameSizes(n, m) /\ SameLooks(n, m)
         /\ CInput(n) /\ ButtonsArrive(n) => CInput(m) /\ ButtonsArrive(m)
         /\ WIn(n) /\ n.sys.strayed \subseteq s.strayed => WIn(m)
<1> DEFINE p == [n EXCEPT !.sys = s]
<1>1. /\ p \in State(M) /\ p.w = n.w /\ p.told = n.told /\ p.sys = s /\ p.wire = n.wire
      /\ p.requests = n.requests
  BY DEF State
<1> DEFINE q == Tell(p, x)
<1>a. m = q
  OBVIOUS
<1> HIDE DEF p
<1>b. /\ q \in State(M) /\ q.w = p.w /\ q.told = p.told /\ q.sys = p.sys
      /\ q.requests = p.requests /\ q.wire = Append(p.wire, x)
  BY <1>1, MessageTold
<1> HIDE DEF q
<1>2. /\ m \in State(M) /\ m.w = p.w /\ m.told = p.told /\ m.sys = p.sys
      /\ m.requests = p.requests /\ m.wire = Append(p.wire, x)
  BY <1>a, <1>b
<1>3. /\ s.here = (IF x.down THEN n.sys.here \cup {x.button} ELSE n.sys.here \ {x.button})
      /\ s.focused = n.sys.focused /\ s.held = n.sys.held /\ s.odd = n.sys.odd
      /\ s.crossed = n.sys.crossed /\ s.fresh = n.sys.fresh
      /\ s.size = n.sys.size /\ s.scale = n.sys.scale /\ s.shown = n.sys.shown
      /\ s.mini = n.sys.mini /\ s.zoomed = n.sys.zoomed /\ s.full = n.sys.full
      /\ s.refused = n.sys.refused /\ s.capture = n.sys.capture
  BY DEF ButtonsOnly
<1>4. SameKeyboard(n, m) /\ SameSizes(n, m) /\ SameLooks(n, m)
  BY <1>1, <1>2, <1>3 DEF SameKeyboard, SameSizes, SameLooks
<1>5. x \in M /\ x \notin Typing /\ n.wire \in Seq(M) /\ m.wire = Append(n.wire, x)
  BY <1>1, <1>2, ByType DEF State
<1>6. Shifted(n.wire, m.wire, Typing, 0)
  BY ONLY <1>5, ShiftedAppend
<1>7. (WInput(n) => WInput(m)) /\ (CInput(n) => CInput(m))
  BY <1>2, <1>4, <1>6, KeyboardFramed
<1>8. /\ n \in State(M) /\ x \in M /\ x \in Pressing
      /\ m \in State(M) /\ m.wire = Append(n.wire, x) /\ m.w = n.w
      /\ m.sys.here = (IF x.down THEN n.sys.here \cup {x.button} ELSE n.sys.here \ {x.button})
      /\ n.sys.strayed \ (IF x.down THEN {x.button} ELSE {}) \subseteq m.sys.strayed
      /\ m.sys.capture = n.sys.capture /\ m.sys.strayed = s.strayed
  BY <1>1, <1>2, <1>3
<1>9. /\ ButtonsArrive(n) => ButtonsArrive(m)
      /\ m.sys.capture = n.sys.capture /\ n.sys.strayed \subseteq m.sys.strayed
         /\ WButtonsArrive(n)
           => WButtonsArrive(m)
  BY ONLY <1>8, ButtonTold
<1> QED BY <1>1, <1>2, <1>4, <1>7, <1>8, <1>9 DEF WIn

\* What is sent to the window changes nothing libnack has.
LEMMA WTells ==
  ASSUME NEW n \in State(WMessage), WInv(n), NEW m \in State(WMessage), m.w = n.w,
         m.told = n.told, m.requests = n.requests, SameSizes(n, m), SameLooks(n, m), WIn(m)
  PROVE  WKeeps(n, m)
<1>1. WOut(n) /\ WFull(n)
  BY WInvIs
<1>2. WOut(m) /\ WFull(m)
  BY <1>1 DEF WOut, WSizes, WStates, Reported, WFull, SameSizes, SameLooks
<1> QED BY <1>2, WInvIs DEF WKeeps, Promised

LEMMA WWords ==
  /\ [type |-> "close"] \in WMessage
  /\ \A on \in BOOLEAN : [type |-> "focus", on |-> on] \in WMessage
  /\ KeyOf(Key) \subseteq WMessage
  /\ \A b \in Button, down \in BOOLEAN, inside \in BOOLEAN :
       LET x == [type |-> "button", button |-> b, down |-> down, inside |-> inside]
       IN x \in WMessage /\ x \in Pressing /\ x.down = down /\ x.button = b
<1>1. KeyOf(Key) \subseteq WMessage
  BY DEF WMessage, KeyWord, KeyOf
<1>2. [type |-> "close"] \in WMessage
  BY DEF WMessage, Word
<1>3. \A on \in BOOLEAN : [type |-> "focus", on |-> on] \in WMessage
  BY DEF WMessage, FocusWord
<1>4. \A b \in Button, down \in BOOLEAN, inside \in BOOLEAN :
        LET x == [type |-> "button", button |-> b, down |-> down, inside |-> inside]
        IN x \in WMessage /\ x \in Pressing /\ x.down = down /\ x.button = b
  BY DEF WMessage, Pressing
<1> QED BY <1>1, <1>2, <1>3, <1>4

LEMMA WButtonSent ==
  ASSUME NEW n \in State(WMessage), WInv(n), NEW b \in Button, NEW down \in BOOLEAN,
         NEW inside \in BOOLEAN, NEW m,
         m = Tell([n EXCEPT !.sys.here = IF down THEN @ \cup {b} ELSE @ \ {b}],
                  [type |-> "button", button |-> b, down |-> down, inside |-> inside])
  PROVE  WKeeps(n, m)
<1> DEFINE x == [type |-> "button", button |-> b, down |-> down, inside |-> inside]
           s == [n.sys EXCEPT !.here = IF down THEN @ \cup {b} ELSE @ \ {b}]
<1>1. x \in WMessage /\ x \in Pressing /\ x.down = down /\ x.button = b
  BY WWords
<1>2. n.sys \in System
  BY DEF State
<1>3. s \in System /\ s.strayed = n.sys.strayed /\ ButtonsOnly(n.sys, s)
  BY <1>2 DEF System, ButtonsOnly
<1>4. s.here = IF x.down THEN n.sys.here \cup {x.button} ELSE n.sys.here \ {x.button}
  BY <1>2 DEF System
<1>5. m = Tell([n EXCEPT !.sys = s], x)
  OBVIOUS
<1>6. n.sys.strayed \ (IF x.down THEN {x.button} ELSE {}) \subseteq s.strayed
  BY <1>3
<1> HIDE DEF x, s
<1>8. /\ m \in State(WMessage) /\ m.w = n.w /\ m.told = n.told /\ m.requests = n.requests
      /\ SameSizes(n, m) /\ SameLooks(n, m)
      /\ CInput(n) /\ ButtonsArrive(n) => CInput(m) /\ ButtonsArrive(m)
      /\ WIn(n) /\ n.sys.strayed \subseteq s.strayed => WIn(m)
  BY <1>1, <1>3, <1>4, <1>5, <1>6, ButtonSent
<1>9. WIn(m)
  BY <1>3, <1>8, WInvIs
<1> QED BY <1>8, <1>9, WTells

LEMMA WTypedKeeps ==
  ASSUME NEW n \in State(WMessage), WInv(n), NEW k \in Key, NEW down \in BOOLEAN,
         NEW quiet \in BOOLEAN,
         quiet <=> (~down /\ k \in Shift /\ n.sys.held \cap Shift # {k}),
         down <=> k \notin n.sys.held, NEW m, m = Typed(n, k, down, quiet)
  PROVE  WKeeps(n, m)
<1>1. WIn(n) /\ FocusArrives(n) /\ KeysExpire(n)
  BY WInvIs DEF WIn, WInput
<1>2. CASE ~n.sys.focused
  <2>1. /\ m \in State(WMessage) /\ m.w = n.w /\ m.told = n.told /\ m.requests = n.requests
        /\ SameSizes(n, m) /\ SameLooks(n, m)
        /\ WIn(n) => WIn(m)
        /\ CInput(n) /\ ButtonsArrive(n) => CInput(m) /\ ButtonsArrive(m)
    BY <1>1, <1>2, TypedElsewhere
  <2> QED BY <1>1, <2>1, WTells
<1>3. CASE n.sys.focused /\ quiet
  <2> PICK l \in Shift : l \in n.sys.held /\ l # k
    BY <1>3
  <2>1. k \in Shift /\ k \in n.sys.held /\ l \in n.sys.held /\ l # k /\ l \in Shift /\ ~down
    BY <1>3
  <2>2. /\ m \in State(WMessage) /\ m.w = n.w /\ m.told = n.told /\ m.requests = n.requests
        /\ SameSizes(n, m) /\ SameLooks(n, m) /\ WIn(m)
    <3>1. /\ n \in State(WMessage) /\ k \in Key /\ down \in BOOLEAN /\ quiet \in BOOLEAN
          /\ m = Typed(n, k, down, quiet)
      OBVIOUS
    <3>2. n.sys.focused /\ quiet /\ ~down /\ WIn(n)
      BY <1>1, <1>3, <2>1
    <3>3. m \in State(WMessage)
      BY ONLY <2>1, <3>1, <3>2, TypedQuietly, Zenon
    <3>4. WIn(m)
      BY ONLY <2>1, <3>1, <3>2, TypedQuietly, Zenon
    <3>5. Sent(n, m)
      BY ONLY <2>1, <3>1, <3>2, TypedQuietly, Zenon
    <3> QED BY <3>3, <3>4, <3>5 DEF Sent
  <2> QED BY <2>2, WTells
<1>4. CASE n.sys.focused /\ ~quiet
  <2>1. KeyOf(Key) \subseteq WMessage
    BY WWords
  <2>2. /\ m \in State(WMessage) /\ m.w = n.w /\ m.told = n.told /\ m.requests = n.requests
        /\ SameSizes(n, m) /\ SameLooks(n, m)
        /\ (down => k \notin n.sys.held)
           /\ (k \in Shift /\ ~down => n.sys.held \cap Shift = {k})
           /\ WIn(n)
             => WIn(m)
        /\ (down <=> k \notin n.sys.held) /\ CInput(n) /\ ButtonsArrive(n)
             => CInput(m) /\ ButtonsArrive(m)
    BY <1>1, <1>4, <2>1, TypedTold
  <2>3. WIn(m)
    BY <1>1, <1>4, <2>2
  <2> QED BY <2>2, <2>3, WTells
<1> QED BY <1>2, <1>3, <1>4

LEMMA WUserStep ==
  ASSUME Now \in State(WMessage), WInv(Now), WUser
  PROVE  WKeeps(Now, Now')
<1> DEFINE n == Now
<1>0. n.sys = sys /\ sys \in System
  BY DEF Now, State
<1> HIDE DEF n
<1>1. ASSUME NEW m, WKeeps(n, m), Becomes(m)
      PROVE  WKeeps(Now, Now')
  <2>1. Now' = m
    BY <1>1, BecomesNow DEF WKeeps
  <2> QED BY <1>1, <2>1 DEF n
<1>2. ASSUME NEW s \in Size, Becomes(WmTimer(WSetWindowPos(n, s)))
      PROVE  WKeeps(Now, Now')
  <2>1. s \in Nat
    BY NativeAssumption
  <2>2. WKeeps(n, WmTimer(WSetWindowPos(n, s)))
    BY <2>1, WmTimerKeeps DEF n
  <2> QED BY <1>1, <1>2, <2>2
<1>3. ASSUME NEW c \in Scale, Becomes(WmDpiChanged(n, c))
      PROVE  WKeeps(Now, Now')
  <2>1. c \in Nat \ {0}
    BY NativeAssumption
  <2>2. WKeeps(n, WmDpiChanged(n, c))
    BY <2>1, WmDpiKeeps DEF n
  <2> QED BY <1>1, <1>3, <2>2
<1>4. ASSUME Becomes(Tell(n, [type |-> "close"]))
      PROVE  WKeeps(Now, Now')
  <2> DEFINE x == [type |-> "close"]
             m == Tell(n, x)
  <2>1. x \in WMessage /\ x.type \notin {"focus", "key", "button"}
    BY WWords
  <2> HIDE DEF x
  <2>2. m = Tell(n, x)
    OBVIOUS
  <2> HIDE DEF m
  <2>3. /\ m \in State(WMessage) /\ m.w = n.w /\ m.told = n.told /\ m.sys = n.sys
        /\ m.requests = n.requests /\ m.wire = Append(n.wire, x)
        /\ WIn(n) => WIn(m)
        /\ CInput(n) /\ ButtonsArrive(n) => CInput(m) /\ ButtonsArrive(m)
    BY <2>1, <2>2, OtherTold DEF n
  <2>4. SameSizes(n, m) /\ SameLooks(n, m)
    BY <2>3 DEF SameSizes, SameLooks
  <2>5. WIn(n) /\ WInv(n)
    BY WInvIs DEF n
  <2>6. n \in State(WMessage)
    BY DEF n
  <2>7. WKeeps(n, m)
    BY <2>3, <2>4, <2>5, <2>6, WTells
  <2> QED BY <1>1, <1>4, <2>7 DEF m, x
<1>5. ASSUME NEW on \in BOOLEAN, on # n.sys.focused,
             Becomes(Tell(Focused(n, on), [type |-> "focus", on |-> on]))
      PROVE  WKeeps(Now, Now')
  <2> DEFINE x == [type |-> "focus", on |-> on]
             m == Tell(Focused(n, on), x)
  <2>1. x \in WMessage /\ x = [type |-> "focus", on |-> on]
    BY WWords
  <2> HIDE DEF x
  <2>2. m = Tell(Focused(n, on), x)
    OBVIOUS
  <2> HIDE DEF m
  <2>3. n.sys.focused = ~on
    BY <1>0, <1>5 DEF System
  <2>4. n \in State(WMessage) /\ WIn(n) /\ WInv(n) /\ FocusArrives(n) /\ KeysExpire(n)
    BY WInvIs DEF n, WIn, WInput
  <2>5. /\ m \in State(WMessage) /\ m.w = n.w /\ m.told = n.told /\ m.requests = n.requests
        /\ SameSizes(n, m) /\ SameLooks(n, m)
        /\ WIn(n) => WIn(m)
        /\ CInput(n) /\ ButtonsArrive(n) => CInput(m) /\ ButtonsArrive(m)
    BY <2>1, <2>2, <2>3, <2>4, FocusSent
  <2>6. WKeeps(n, m)
    BY <2>4, <2>5, WTells
  <2> QED BY <1>1, <1>5, <2>6 DEF m, x
<1>6. ASSUME NEW k \in Key \ n.sys.held, Becomes(Typed(n, k, TRUE, FALSE))
      PROVE  WKeeps(Now, Now')
  <2> DEFINE m == Typed(n, k, TRUE, FALSE)
             down == TRUE
             quiet == FALSE
  <2>1. /\ down \in BOOLEAN /\ quiet \in BOOLEAN
        /\ quiet <=> (~down /\ k \in Shift /\ n.sys.held \cap Shift # {k})
        /\ down <=> k \notin n.sys.held
        /\ m = Typed(n, k, down, quiet)
    OBVIOUS
  <2> HIDE DEF m, down, quiet
  <2>2. WKeeps(n, m)
    BY <2>1, WTypedKeeps DEF n
  <2> QED BY <1>1, <1>6, <2>2 DEF m
<1>7. ASSUME NEW k \in n.sys.held,
             Becomes(Typed(n, k, FALSE, k \in Shift /\ n.sys.held \cap Shift # {k}))
      PROVE  WKeeps(Now, Now')
  <2> DEFINE down == FALSE
             quiet == k \in Shift /\ n.sys.held \cap Shift # {k}
             m == Typed(n, k, down, quiet)
  <2>1. /\ down \in BOOLEAN /\ quiet \in BOOLEAN /\ k \in Key
        /\ quiet <=> (~down /\ k \in Shift /\ n.sys.held \cap Shift # {k})
        /\ down <=> k \notin n.sys.held
        /\ m = Typed(n, k, down, quiet)
    BY <1>0 DEF System
  <2> HIDE DEF m, down, quiet
  <2>2. WKeeps(n, m)
    BY <2>1, WTypedKeeps DEF n
  <2> QED BY <1>1, <1>7, <2>2 DEF m, down, quiet
<1>8. ASSUME NEW b \in Button,
             Becomes(Tell([n EXCEPT !.sys.here = @ \cup {b}],
                          [type |-> "button", button |-> b, down |-> TRUE, inside |-> TRUE]))
      PROVE  WKeeps(Now, Now')
  <2> DEFINE down == TRUE
             inside == TRUE
             m == Tell([n EXCEPT !.sys.here = IF down THEN @ \cup {b} ELSE @ \ {b}],
                       [type |-> "button", button |-> b, down |-> down, inside |-> inside])
  <2>1. down \in BOOLEAN /\ inside \in BOOLEAN /\ Becomes(m)
    BY <1>8
  <2> HIDE DEF down, inside
  <2>2. m = Tell([n EXCEPT !.sys.here = IF down THEN @ \cup {b} ELSE @ \ {b}],
                 [type |-> "button", button |-> b, down |-> down, inside |-> inside])
    OBVIOUS
  <2> HIDE DEF m
  <2>3. WKeeps(n, m)
    BY <2>1, <2>2, WButtonSent DEF n
  <2> QED BY <1>1, <2>1, <2>3
<1>9. ASSUME NEW b \in Button, NEW inside \in BOOLEAN,
             Becomes(Tell([n EXCEPT !.sys.here = @ \ {b}],
                          [type |-> "button", button |-> b, down |-> FALSE,
                           inside |-> inside]))
      PROVE  WKeeps(Now, Now')
  <2> DEFINE down == FALSE
             m == Tell([n EXCEPT !.sys.here = IF down THEN @ \cup {b} ELSE @ \ {b}],
                       [type |-> "button", button |-> b, down |-> down, inside |-> inside])
  <2>1. down \in BOOLEAN /\ Becomes(m)
    BY <1>9
  <2> HIDE DEF down
  <2>2. m = Tell([n EXCEPT !.sys.here = IF down THEN @ \cup {b} ELSE @ \ {b}],
                 [type |-> "button", button |-> b, down |-> down, inside |-> inside])
    OBVIOUS
  <2> HIDE DEF m
  <2>3. WKeeps(n, m)
    BY <2>1, <2>2, WButtonSent DEF n
  <2> QED BY <1>1, <2>1, <2>3
<1>10. sys.here \subseteq Button
  BY <1>0 DEF System
<1> QED BY <1>0, <1>2, <1>3, <1>4, <1>5, <1>6, <1>7, <1>8, <1>9, <1>10 DEF WUser, n

-----------------------------------------------------------------------------
(* Win32: nack__win32_drain *)

\* What the message of a button does: it is taken, or it is another window's.
WTook(n, m, b, down) ==
  LET held == n.sys.capture \/ n.w.buttons \cap Primary = {}
  IN \/ /\ down /\ m.w.buttons = n.w.buttons \cup {b} /\ m.sys.capture = held
        /\ m.sys.strayed = IF held THEN n.sys.strayed \ {b} ELSE n.sys.strayed \cup {b}
     \/ /\ ~down /\ m.w.buttons = n.w.buttons \ {b}
        /\ m.sys.strayed = n.sys.strayed \ {b}
        /\ m.sys.capture =
             (n.sys.capture /\ ~((n.w.buttons \ {b}) \cap Primary = {}))
     \/ /\ ~n.sys.capture /\ m.sys.capture = n.sys.capture /\ m.w.buttons = n.w.buttons
        /\ m.sys.strayed = IF down THEN n.sys.strayed
                           ELSE n.sys.strayed \cup ({b} \cap Extra)

LEMMA WButtonRead ==
  ASSUME NEW n \in State(WMessage), NEW m \in State(WMessage), n.wire # << >>,
         Head(n.wire) \in Pressing, m.wire = Tail(n.wire), m.sys.here = n.sys.here,
         WTook(n, m, Head(n.wire).button, Head(n.wire).down),
         ButtonsArrive(n), WButtonsArrive(n)
  PROVE  ButtonsArrive(m) /\ WButtonsArrive(m)
<1> DEFINE s == n.wire
           t == m.wire
           c == Head(s).button
           down == Head(s).down
<1>0. s \in Seq(WMessage) /\ s # << >> /\ Head(s) \in Pressing /\ t = Tail(s)
  BY DEF State
<1>1. c \in Button /\ down \in BOOLEAN
  BY <1>0, PressingKinds
<1>2. ASSUME NEW b \in Button
      PROVE  /\ \A i \in 1..Len(t) : Last(t, ButtonOf(b), i) =>
                   i + 1 \in 1..Len(s) /\ Last(s, ButtonOf(b), i + 1) /\ t[i] = s[i + 1]
             /\ b = Head(s).button /\ None(t, ButtonOf(b)) => Last(s, ButtonOf(b), 1)
             /\ b # Head(s).button => (None(s, ButtonOf(b)) <=> None(t, ButtonOf(b)))
             /\ 1 \in 1..Len(s) /\ Head(s) = s[1]
  <2> HIDE DEF s, t
  <2>1. \A i \in 1..Len(t) : Last(t, ButtonOf(b), i) =>
          i + 1 \in 1..Len(s) /\ Last(s, ButtonOf(b), i + 1) /\ t[i] = s[i + 1]
    BY <1>0, ButtonTail, Zenon
  <2>2. b = Head(s).button /\ None(t, ButtonOf(b)) => Last(s, ButtonOf(b), 1)
    BY <1>0, ButtonTail, Zenon
  <2>3. ASSUME b # Head(s).button PROVE None(s, ButtonOf(b)) <=> None(t, ButtonOf(b))
    <3>1. Head(s) \notin ButtonOf(b)
      BY <1>0, <2>3, PressingKinds
    <3>2. None(s, ButtonOf(b)) <=> (s[1] \notin ButtonOf(b) /\ None(t, ButtonOf(b)))
      BY <1>0, TailKind, Zenon
    <3> QED BY <1>0, <3>1, <3>2
  <2>4. 1 \in 1..Len(s) /\ Head(s) = s[1]
    BY <1>0
  <2> QED BY <2>1, <2>2, <2>3, <2>4
<1>3. WTook(n, m, c, down)
  OBVIOUS
<1>4. /\ \A b \in Button :
           /\ \A i \in 1..Len(s) :
                Last(s, ButtonOf(b), i) /\ s[i].down => b \in n.sys.here
           /\ None(s, ButtonOf(b)) /\ b \in n.w.buttons
                => b \in n.sys.here \cup n.sys.strayed
      /\ ~n.sys.capture => n.w.buttons \cap Primary \subseteq n.sys.strayed
  BY DEF ButtonsArrive, WButtonsArrive
<1>5. m.sys.here = n.sys.here
  OBVIOUS
<1>6. n.w.buttons \subseteq Button /\ n.sys.capture \in BOOLEAN
  BY DEF State, Record, System
<1> HIDE DEF s, t, c, down
<1>7. ASSUME NEW b \in Button, NEW i \in 1..Len(t), Last(t, ButtonOf(b), i), t[i].down
      PROVE  b \in n.sys.here
  BY <1>2, <1>4, <1>7
<1>8. ~m.sys.capture => m.w.buttons \cap Primary \subseteq m.sys.strayed
  BY <1>3, <1>4 DEF WTook
<1>9. ASSUME NEW b \in Button, b # c, None(t, ButtonOf(b)), b \in m.w.buttons
      PROVE  b \in n.sys.here \cup m.sys.strayed
  <2>1. None(s, ButtonOf(b))
    BY <1>2, <1>9 DEF c
  <2>2. b \in n.w.buttons
    BY <1>3, <1>9 DEF WTook
  <2>3. b \in n.sys.here \cup n.sys.strayed
    BY <1>4, <2>1, <2>2
  <2>4. b \in n.sys.strayed => b \in m.sys.strayed
    BY <1>3, <1>9 DEF WTook
  <2> QED BY <2>3, <2>4
<1>10. ASSUME None(t, ButtonOf(c)), c \in m.w.buttons
       PROVE  c \in n.sys.here \cup m.sys.strayed
  <2>1. Last(s, ButtonOf(c), 1) /\ 1 \in 1..Len(s) /\ s[1].down = down
    BY <1>1, <1>2, <1>10 DEF c, down
  <2>2. CASE down
    <3>1. c \in n.sys.here
      BY <1>1, <1>4, <2>1, <2>2
    <3> QED BY <3>1
  <2>3. CASE ~down
    <3>1. ~n.sys.capture /\ c \in n.w.buttons
          /\ m.sys.strayed = n.sys.strayed \cup ({c} \cap Extra)
      BY <1>3, <1>10, <2>3 DEF WTook
    <3> QED BY <1>1, <1>4, <3>1 DEF Primary
  <2> QED BY <1>1, <2>2, <2>3
<1>11. ButtonsArrive(m)
  BY <1>5, <1>7, <1>9, <1>10 DEF ButtonsArrive, t
<1>12. WButtonsArrive(m)
  BY <1>5, <1>7, <1>8 DEF WButtonsArrive, t
<1> QED BY <1>11, <1>12

LEMMA WHandlesButton ==
  ASSUME NEW n \in State(WMessage), WInv(n), n.wire # << >>, NEW x, x = Head(n.wire),
         x \in Pressing, NEW m, m = WHandle(Heard(n), x)
  PROVE  WKeeps(n, m)
<1> DEFINE h == Heard(n)
           b == x.button
           down == x.down
           held == h.sys.capture \/ h.w.buttons \cap Primary = {}
           taken == (x.inside /\ h.sys.shown /\ ~h.sys.mini) \/ h.sys.capture
           more == h.w.buttons \cup {b}
           less == h.w.buttons \ {b}
<1>1. /\ h \in State(WMessage) /\ h.w = n.w /\ h.told = n.told /\ h.sys = n.sys
      /\ h.requests = n.requests /\ h.wire = Tail(n.wire)
      /\ Head(n.wire) \in WMessage
  BY MessageHeard
<1>2. x.type = "button" /\ b \in Button /\ down \in BOOLEAN /\ x \notin Typing
  BY ByType, PressingKinds
<1> HIDE DEF h
<1>3. h.w \in Record /\ h.sys \in System
  BY <1>1 DEF State
<1>4. m = WmButton(h, x)
  BY <1>2 DEF WHandle, h
<1>5. \E v \in Record, s \in System :
        /\ m = [h EXCEPT !.w = v, !.sys = s]
        /\ v = [h.w EXCEPT !.buttons = v.buttons]
        /\ s = [h.sys EXCEPT !.capture = s.capture, !.strayed = s.strayed]
        /\ \/ /\ down /\ v.buttons = more /\ s.capture = held
              /\ s.strayed = IF held THEN h.sys.strayed \ {b} ELSE h.sys.strayed \cup {b}
           \/ /\ ~down /\ v.buttons = less
              /\ s.strayed = h.sys.strayed \ {b}
              /\ s.capture = (h.sys.capture /\ ~(less \cap Primary = {}))
           \/ /\ ~h.sys.capture /\ s.capture = h.sys.capture /\ v.buttons = h.w.buttons
              /\ s.strayed = IF down THEN h.sys.strayed
                             ELSE h.sys.strayed \cup ({b} \cap Extra)
  <2>1. CASE taken /\ down
    <3> DEFINE v == [h.w EXCEPT !.buttons = more]
               z == IF held THEN h.sys.strayed \ {b} ELSE h.sys.strayed \cup {b}
               s == [h.sys EXCEPT !.capture = held, !.strayed = z]
    <3>1. m = [EmitButton(h, b, TRUE) EXCEPT
                 !.sys.capture = held,
                 !.sys.strayed = IF held THEN @ \ {b} ELSE @ \cup {b}]
      BY <1>4, <2>1 DEF WmButton
    <3>2. EmitButton(h, b, TRUE) = [h EXCEPT !.w = v]
      BY DEF EmitButton
    <3>3. m = [h EXCEPT !.w = v, !.sys = s]
      <4> DEFINE q == [h EXCEPT !.w = v]
      <4>1. q.sys = h.sys /\ \A r : [q EXCEPT !.sys = r] = [h EXCEPT !.w = v, !.sys = r]
        BY <1>1 DEF State
      <4> HIDE DEF q
      <4>9. m = [q EXCEPT !.sys.capture = held,
                          !.sys.strayed = IF held THEN @ \ {b} ELSE @ \cup {b}]
        BY ONLY <3>1, <3>2 DEF q
      <4> HIDE DEF held
      <4>2. m = [q EXCEPT !.sys = [q.sys EXCEPT !.capture = held,
                             !.strayed = IF held THEN @ \ {b} ELSE @ \cup {b}]]
        BY ONLY <4>9
      <4> USE DEF held
      <4>3. [h.sys EXCEPT !.capture = held,
                          !.strayed = IF held THEN @ \ {b} ELSE @ \cup {b}] = s
        BY <1>3 DEF System
      <4> HIDE DEF s
      <4>4. m = [q EXCEPT !.sys = s]
        BY <4>1, <4>2, <4>3
      <4> QED BY <4>1, <4>4
    <3>4. v \in Record /\ v.buttons = more /\ v = [h.w EXCEPT !.buttons = v.buttons]
      BY <1>2, <1>3 DEF Record
    <3>5. z \in SUBSET Button /\ held \in BOOLEAN
      BY <1>2, <1>3 DEF System
    <3> HIDE DEF z, held
    <3>6. /\ s \in System /\ s.capture = held /\ s.strayed = z
          /\ s = [h.sys EXCEPT !.capture = s.capture, !.strayed = s.strayed]
      BY <1>3, <3>5 DEF System
    <3> QED BY <2>1, <3>3, <3>4, <3>6 DEF z
  <2>2. CASE taken /\ ~down
    <3> DEFINE v == [h.w EXCEPT !.buttons = less]
               z == h.sys.strayed \ {b}
               kept == h.sys.capture /\ ~(less \cap Primary = {})
               s == [h.sys EXCEPT !.strayed = z, !.capture = kept]
               up == [EmitButton(h, b, FALSE) EXCEPT !.sys.strayed = @ \ {b}]
    <3>1. m = [up EXCEPT !.sys.capture = @ /\ ~(up.w.buttons \cap Primary = {})]
      BY <1>4, <2>2 DEF WmButton
    <3>2. EmitButton(h, b, FALSE) = [h EXCEPT !.w = v]
      BY DEF EmitButton
    <3> DEFINE q == [h EXCEPT !.w = v]
               a == [h.sys EXCEPT !.strayed = z]
    <3>3. q.sys = h.sys /\ q.w = v /\ \A r : [q EXCEPT !.sys = r] = [h EXCEPT !.w = v, !.sys = r]
      BY <1>1 DEF State
    <3>4. m = [h EXCEPT !.w = v, !.sys = s]
      <4>1. v.buttons = less
        BY <1>3 DEF Record
      <4> HIDE DEF q, v
      <4>2. up = [q EXCEPT !.sys = a]
        BY <3>2, <3>3 DEF q
      <4>3. \A r : [q EXCEPT !.sys = r].sys = r /\ [q EXCEPT !.sys = r].w = v
                   /\ \A y : [[q EXCEPT !.sys = r] EXCEPT !.sys = y] = [q EXCEPT !.sys = y]
        BY <1>1, <3>3 DEF State, q
      <4> HIDE DEF a
      <4>4. up.sys = a /\ up.w = v /\ \A y : [up EXCEPT !.sys = y] = [q EXCEPT !.sys = y]
        BY <4>2, <4>3
      <4> HIDE DEF up
      <4>5. m = [up EXCEPT !.sys = [a EXCEPT !.capture = @ /\ ~(less \cap Primary = {})]]
        BY <3>1, <4>1, <4>4
      <4>6. [a EXCEPT !.capture = @ /\ ~(less \cap Primary = {})] = s
        BY <1>3 DEF System, a
      <4> HIDE DEF s
      <4> QED BY <3>3, <4>4, <4>5, <4>6
    <3>5. v \in Record /\ v.buttons = less /\ v = [h.w EXCEPT !.buttons = v.buttons]
      BY <1>2, <1>3 DEF Record
    <3>6. z \in SUBSET Button /\ kept \in BOOLEAN
      BY <1>2, <1>3 DEF System
    <3> HIDE DEF z, kept
    <3>7. /\ s \in System /\ s.capture = kept /\ s.strayed = z
          /\ s = [h.sys EXCEPT !.capture = s.capture, !.strayed = s.strayed]
      BY <1>3, <3>6 DEF System
    <3> QED BY <2>2, <3>4, <3>5, <3>7 DEF z, kept
  <2>3. CASE ~taken
    <3> DEFINE z == IF down THEN h.sys.strayed ELSE h.sys.strayed \cup ({b} \cap Extra)
               s == [h.sys EXCEPT !.strayed = z]
    <3>1. m = [h EXCEPT !.sys.strayed = IF down THEN @ ELSE @ \cup ({b} \cap Extra)]
      BY <1>4, <2>3 DEF WmButton
    <3>2. m = [h EXCEPT !.w = h.w, !.sys = s]
      BY <1>1, <3>1 DEF State
    <3>3. h.w = [h.w EXCEPT !.buttons = h.w.buttons]
      BY <1>3 DEF Record
    <3>4. z \in SUBSET Button
      BY <1>2, <1>3, NativeAssumption DEF System
    <3> HIDE DEF z
    <3>5. /\ s \in System /\ s.capture = h.sys.capture /\ s.strayed = z
          /\ s = [h.sys EXCEPT !.capture = s.capture, !.strayed = s.strayed]
      BY <1>3, <3>4 DEF System
    <3> QED BY <1>3, <2>3, <3>2, <3>3, <3>5 DEF z
  <2> QED BY <1>2, <2>1, <2>2, <2>3
<1> PICK v \in Record, s \in System :
        /\ m = [h EXCEPT !.w = v, !.sys = s]
        /\ v = [h.w EXCEPT !.buttons = v.buttons]
        /\ s = [h.sys EXCEPT !.capture = s.capture, !.strayed = s.strayed]
        /\ \/ /\ down /\ v.buttons = more /\ s.capture = held
              /\ s.strayed = IF held THEN h.sys.strayed \ {b} ELSE h.sys.strayed \cup {b}
           \/ /\ ~down /\ v.buttons = less
              /\ s.strayed = h.sys.strayed \ {b}
              /\ s.capture = (h.sys.capture /\ ~(less \cap Primary = {}))
           \/ /\ ~h.sys.capture /\ s.capture = h.sys.capture /\ v.buttons = h.w.buttons
              /\ s.strayed = IF down THEN h.sys.strayed
                             ELSE h.sys.strayed \cup ({b} \cap Extra)
  BY <1>5
<1>6. /\ m \in State(WMessage) /\ m.w = v /\ m.sys = s /\ m.told = h.told
      /\ m.wire = h.wire /\ m.requests = h.requests
  BY <1>1 DEF State
<1>7. /\ v.live = h.w.live /\ v.focused = h.w.focused /\ v.keys = h.w.keys
      /\ v.minimized = h.w.minimized /\ v.maximized = h.w.maximized
      /\ v.size = h.w.size /\ v.fb = h.w.fb /\ v.fullscreen = h.w.fullscreen
  BY <1>3 DEF Record
<1>8. /\ s.focused = h.sys.focused /\ s.held = h.sys.held /\ s.odd = h.sys.odd
      /\ s.crossed = h.sys.crossed /\ s.fresh = h.sys.fresh /\ s.here = h.sys.here
      /\ s.size = h.sys.size /\ s.mini = h.sys.mini /\ s.zoomed = h.sys.zoomed
      /\ s.full = h.sys.full
  BY <1>3 DEF System
<1>9. WOut(n) /\ WFull(n) /\ WIn(n)
  BY WInvIs
<1>10. WOut(m) /\ WFull(m)
  BY <1>1, <1>6, <1>7, <1>8, <1>9 DEF WOut, WSizes, WStates, Reported, WFull
<1>11. SameKeyboard(n, m)
  BY <1>1, <1>6, <1>7, <1>8 DEF SameKeyboard
<1>12. Shifted(n.wire, m.wire, Typing, 1)
  <2>1. n.wire \in Seq(WMessage) /\ Head(n.wire) \notin Typing /\ m.wire = Tail(n.wire)
    BY <1>1, <1>2, <1>6 DEF State
  <2> QED BY <2>1, ShiftedTail
<1>13. WInput(m)
  BY <1>6, <1>9, <1>11, <1>12, KeyboardFramed DEF WIn
<1>14. ButtonsArrive(m) /\ WButtonsArrive(m)
  <2>1. WTook(n, m, b, down)
    BY <1>1, <1>6 DEF WTook
  <2>2. /\ m.wire = Tail(n.wire) /\ m.sys.here = n.sys.here
        /\ ButtonsArrive(n) /\ WButtonsArrive(n)
    BY <1>1, <1>6, <1>8, <1>9 DEF WIn
  <2> QED BY <1>6, <2>1, <2>2, WButtonRead
<1>15. Promised(n, m) /\ m.w.live = n.w.live
  BY <1>1, <1>6, <1>7 DEF Promised
<1> QED BY <1>6, <1>10, <1>13, <1>14, <1>15, WInvIs DEF WKeeps, WIn

\* nack__emit_close, and whatever else is of no account here.
OtherFlags(s, v) ==
  v \in Record /\ v = [s EXCEPT !.closing = v.closing, !.minimized = v.minimized]

WithRecord(n, v) == [Heard(n) EXCEPT !.w = v]

LEMMA OtherHandled ==
  ASSUME NEW M, NEW n \in State(M), n.wire # << >>, NEW x, x = Head(n.wire),
         x.type \notin {"focus", "key", "button"}, NEW v, OtherFlags(n.w, v),
         NEW m, m = WithRecord(n, v)
  PROVE  /\ m \in State(M) /\ m.w = v /\ m.told = n.told /\ m.sys = n.sys
         /\ m.requests = n.requests /\ m.wire = Tail(n.wire)
         /\ v.live = n.w.live /\ v.focused = n.w.focused /\ v.keys = n.w.keys
         /\ v.size = n.w.size /\ v.fb = n.w.fb /\ v.maximized = n.w.maximized
         /\ v.fullscreen = n.w.fullscreen
         /\ Promised(n, m)
         /\ WIn(n) => WIn(m)
         /\ CInput(n) /\ ButtonsArrive(n) => CInput(m) /\ ButtonsArrive(m)
<1> DEFINE h == Heard(n)
<1>1. /\ h \in State(M) /\ h.w = n.w /\ h.told = n.told /\ h.sys = n.sys
      /\ h.requests = n.requests /\ h.wire = Tail(n.wire)
      /\ Head(n.wire) \in M
  BY MessageHeard
<1> HIDE DEF h
<1>2. m = [h EXCEPT !.w = v] /\ v \in Record
  BY DEF h, WithRecord, OtherFlags
<1>3. /\ m \in State(M) /\ m.w = v /\ m.told = n.told /\ m.sys = n.sys
      /\ m.requests = n.requests /\ m.wire = Tail(n.wire)
  BY <1>1, <1>2 DEF State
<1>4. n.w \in Record /\ n.wire \in Seq(M)
  BY DEF State
<1>5. /\ v.live = n.w.live /\ v.focused = n.w.focused /\ v.keys = n.w.keys
      /\ v.size = n.w.size /\ v.fb = n.w.fb /\ v.maximized = n.w.maximized
      /\ v.fullscreen = n.w.fullscreen /\ v.buttons = n.w.buttons
  BY <1>4 DEF Record, OtherFlags
<1>6. Head(n.wire) \notin Typing /\ Head(n.wire) \notin Pressing
  BY ByType
<1>7. Shifted(n.wire, m.wire, Typing, 1) /\ Shifted(n.wire, m.wire, Pressing, 1)
  BY <1>3, <1>4, <1>6, ShiftedTail
<1>8. SameKeyboard(n, m) /\ Mouse(m) = Mouse(n)
  BY <1>3, <1>5 DEF SameKeyboard, Mouse
<1>9. (WInput(n) => WInput(m)) /\ (CInput(n) => CInput(m))
  BY <1>3, <1>7, <1>8, KeyboardFramed
<1>10. /\ ButtonsArrive(n) => ButtonsArrive(m)
       /\ WButtonsArrive(n) => WButtonsArrive(m)
  BY <1>3, <1>7, <1>8, MouseFramed
<1>11. Promised(n, m)
  BY <1>3, <1>5 DEF Promised
<1> QED BY <1>3, <1>5, <1>9, <1>10, <1>11 DEF WIn

\* The focus is told, and comes or goes.
LEMMA FocusHandled ==
  ASSUME NEW M, NEW n \in State(M), n.wire # << >>, NEW x, x = Head(n.wire),
         x \in FocusWord, FocusArrives(n), KeysExpire(n), NEW m,
         m = IF x.on /\ ~Heard(n).sys.focused THEN Heard(n) ELSE EmitFocus(Heard(n), x.on)
  PROVE  /\ m \in State(M) /\ m.told = n.told /\ m.sys = n.sys /\ m.requests = n.requests
         /\ m.w.live = n.w.live /\ SameSizes(n, m) /\ SameLooks(n, m) /\ Promised(n, m)
         /\ m.wire = Tail(n.wire)
         /\ WIn(n) => WIn(m)
         /\ CInput(n) /\ ButtonsArrive(n) => CInput(m) /\ ButtonsArrive(m)
<1> DEFINE h == Heard(n)
           on == x.on
           v == [h.w EXCEPT !.focused = on, !.keys = IF on THEN @ ELSE {}]
<1>1. /\ h \in State(M) /\ h.w = n.w /\ h.told = n.told /\ h.sys = n.sys
      /\ h.requests = n.requests /\ h.wire = Tail(n.wire)
      /\ Head(n.wire) \in M
  BY MessageHeard
<1>2. on \in BOOLEAN
  BY DEF FocusWord
<1> HIDE DEF h
<1>3. m = IF (on /\ ~n.sys.focused) \/ n.w.focused = on THEN h ELSE [h EXCEPT !.w = v]
  <2>1. EmitFocus(h, on) = IF n.w.focused = on THEN h ELSE [h EXCEPT !.w = v]
    BY <1>1 DEF EmitFocus
  <2>2. m = IF on /\ ~n.sys.focused THEN h ELSE EmitFocus(h, on)
    BY <1>1 DEF h
  <2> HIDE DEF on, v
  <2> QED BY <2>1, <2>2
<1>4. n.w \in Record /\ n.sys \in System /\ n.wire \in Seq(M)
  BY DEF State
<1>5. /\ v \in Record /\ v.live = n.w.live /\ v.focused = on
      /\ v.keys = (IF on THEN n.w.keys ELSE {})
      /\ v.minimized = n.w.minimized /\ v.maximized = n.w.maximized
      /\ v.visible = n.w.visible /\ v.buttons = n.w.buttons
      /\ v.size = n.w.size /\ v.fb = n.w.fb /\ v.fullscreen = n.w.fullscreen
  BY <1>1, <1>2, <1>4 DEF Record
<1> HIDE DEF v, on
<1> DEFINE u == IF (on /\ ~n.sys.focused) \/ n.w.focused = on THEN n.w ELSE v
<1>6. /\ m \in State(M) /\ m.w = u /\ m.told = n.told /\ m.sys = n.sys
      /\ m.requests = n.requests /\ m.wire = Tail(n.wire)
  BY <1>1, <1>3, <1>5 DEF State
<1>7. /\ u.live = n.w.live /\ u.buttons = n.w.buttons
      /\ u.minimized = n.w.minimized /\ u.maximized = n.w.maximized
      /\ u.visible = n.w.visible
      /\ u.size = n.w.size /\ u.fb = n.w.fb /\ u.fullscreen = n.w.fullscreen
  BY <1>5
<1>8. SameSizes(n, m) /\ SameLooks(n, m) /\ Mouse(m) = Mouse(n)
  BY <1>6, <1>7 DEF SameSizes, SameLooks, Mouse
<1>9. Reads(n, m)
  BY <1>6 DEF Reads
<1>10. n.w.focused \in BOOLEAN /\ n.sys.focused \in BOOLEAN /\ (~n.w.focused => n.w.keys = {})
  BY <1>4 DEF Record, System, FocusArrives
<1>11. Refocused(n, m)
  <2>1. Head(n.wire).on = on
    BY DEF on
  <2>2. CASE on /\ ~n.sys.focused
    BY <1>6, <2>1, <2>2 DEF Refocused
  <2>3. CASE ~(on /\ ~n.sys.focused) /\ n.w.focused = on
    BY <1>6, <2>1, <2>3 DEF Refocused
  <2>4. CASE ~(on /\ ~n.sys.focused) /\ n.w.focused # on
    BY <1>5, <1>6, <2>1, <2>4 DEF Refocused
  <2> QED BY <2>2, <2>3, <2>4
<1>12. Promised(n, m)
  BY <1>2, <1>5, <1>6, <1>10 DEF Promised
<1>13. /\ FocusArrives(m) /\ KeysExpire(m)
       /\ None(m.wire, FocusWord) => m.w.keys \subseteq m.sys.crossed
  BY <1>6, <1>9, <1>11, FocusRead
<1>14. /\ \A K : FreshArrive(n, K) => FreshArrive(m, K)
       /\ \A K : KeysArrive(n, K) => KeysArrive(m, K)
       /\ ShiftsTogether(n) => ShiftsTogether(m)
       /\ TakeTurns(n) => TakeTurns(m)
  BY <1>6, <1>9, <1>13, FocusReadArrives
<1>15. Head(n.wire) \notin Pressing
  BY ByType DEF Typing
<1>16. Shifted(n.wire, m.wire, Pressing, 1)
  BY <1>4, <1>6, <1>15, ShiftedTail
<1>17. /\ ButtonsArrive(n) => ButtonsArrive(m)
       /\ WButtonsArrive(n) => WButtonsArrive(m)
  BY <1>6, <1>8, <1>16, MouseFramed
<1>18. WIn(n) => WIn(m)
  BY <1>13, <1>14, <1>17 DEF WIn, WInput
<1>19. CInput(n) /\ ButtonsArrive(n) => CInput(m) /\ ButtonsArrive(m)
  BY <1>13, <1>14, <1>17 DEF CInput
<1> QED BY <1>6, <1>7, <1>8, <1>12, <1>18, <1>19

\* A key is latched or let go of.
WithKeys(n, K) == [Heard(n) EXCEPT !.w = [n.w EXCEPT !.keys = K]]

LEMMA KeysHandled ==
  ASSUME NEW M, NEW n \in State(M), n.wire # << >>, Head(n.wire) \in KeyOf(Key),
         NEW K \in SUBSET Key, NEW m, m = WithKeys(n, K),
         K \subseteq n.w.keys \cup {Head(n.wire).key}, ~n.w.focused => K = n.w.keys,
         FocusArrives(n), KeysExpire(n)
  PROVE  /\ m \in State(M) /\ m.told = n.told /\ m.sys = n.sys /\ m.requests = n.requests
         /\ m.w.live = n.w.live /\ SameSizes(n, m) /\ SameLooks(n, m)
         /\ m.w.keys = K /\ m.w.focused = n.w.focused
         /\ Reads(n, m) /\ Latches(n, m) /\ FocusArrives(m) /\ KeysExpire(m)
         /\ ButtonsArrive(n) => ButtonsArrive(m)
         /\ WButtonsArrive(n) => WButtonsArrive(m)
<1> DEFINE h == Heard(n)
           v == [n.w EXCEPT !.keys = K]
<1>1. /\ h \in State(M) /\ h.w = n.w /\ h.told = n.told /\ h.sys = n.sys
      /\ h.requests = n.requests /\ h.wire = Tail(n.wire)
      /\ Head(n.wire) \in M
  BY MessageHeard
<1>2. m = [h EXCEPT !.w = v]
  BY DEF WithKeys
<1> HIDE DEF h
<1>3. n.w \in Record /\ n.wire \in Seq(M)
  BY DEF State
<1>4. /\ v \in Record /\ v.live = n.w.live /\ v.focused = n.w.focused /\ v.keys = K
      /\ v.minimized = n.w.minimized /\ v.maximized = n.w.maximized
      /\ v.visible = n.w.visible /\ v.buttons = n.w.buttons
      /\ v.size = n.w.size /\ v.fb = n.w.fb /\ v.fullscreen = n.w.fullscreen
  BY <1>1, <1>3 DEF Record
<1> HIDE DEF v
<1>5. /\ m \in State(M) /\ m.w = v /\ m.told = n.told /\ m.sys = n.sys
      /\ m.requests = n.requests /\ m.wire = Tail(n.wire)
  BY <1>1, <1>2, <1>4 DEF State
<1>6. SameSizes(n, m) /\ SameLooks(n, m) /\ Mouse(m) = Mouse(n)
  BY <1>4, <1>5 DEF SameSizes, SameLooks, Mouse
<1>7. Reads(n, m) /\ Latches(n, m)
  BY <1>4, <1>5 DEF Reads, Latches
<1>8. FocusArrives(m) /\ KeysExpire(m)
  BY <1>5, <1>7, KeyRead
<1>9. Head(n.wire) \notin Pressing
  BY ByType DEF Typing
<1>10. Shifted(n.wire, m.wire, Pressing, 1)
  BY <1>3, <1>5, <1>9, ShiftedTail
<1>11. n \in State(M)
  OBVIOUS
<1>12. /\ ButtonsArrive(n) => ButtonsArrive(m)
       /\ WButtonsArrive(n) => WButtonsArrive(m)
  BY ONLY <1>5, <1>6, <1>10, <1>11, MouseFramed
<1> QED BY <1>4, <1>5, <1>6, <1>7, <1>8, <1>12

LEMMA NothingChanged ==
  ASSUME NEW M, NEW n \in State(M), NEW v, v = [n.w EXCEPT !.keys = n.w.keys]
  PROVE  [n EXCEPT !.w = v] = n
<1>1. n.w \in Record
  BY DEF State
<1>2. v = n.w
  BY <1>1 DEF Record
<1> QED BY <1>2 DEF State

LEMMA WHandlesKey ==
  ASSUME NEW n \in State(WMessage), WInv(n), n.wire # << >>, NEW x, x = Head(n.wire),
         x \in KeyOf(Key), NEW m, m = WmKey(Heard(n), x)
  PROVE  WKeeps(n, m)
<1> DEFINE h == Heard(n)
           k == x.key
           up == k \in Shift /\ ~x.down
           K == IF ~n.w.focused THEN n.w.keys
                ELSE IF up THEN n.w.keys \ (Shift \ x.held)
                ELSE IF x.down THEN n.w.keys \cup {k} ELSE n.w.keys \ {k}
           v == [h.w EXCEPT !.keys = K]
<1>1. /\ h \in State(WMessage) /\ h.w = n.w /\ h.told = n.told /\ h.sys = n.sys
      /\ h.requests = n.requests /\ h.wire = Tail(n.wire)
      /\ Head(n.wire) \in WMessage
  BY MessageHeard
<1>2. k \in Key /\ x.down \in BOOLEAN /\ x.held \in SUBSET Key
  BY DEF KeyOf
<1>3. /\ n.w.keys \in SUBSET Key /\ n.w.focused \in BOOLEAN
  BY DEF State, Record
<1>4. K \in SUBSET Key /\ K \subseteq n.w.keys \cup {k} /\ (~n.w.focused => K = n.w.keys)
  BY <1>2, <1>3
<1>5. m = [h EXCEPT !.w = v]
  <2>1. CASE ~n.w.focused
    <3>1. m = h
      BY <1>1, <2>1 DEF WmKey, HasFocus
    <3>2. v = [h.w EXCEPT !.keys = h.w.keys]
      BY <1>1, <2>1
    <3> HIDE DEF h, v
    <3> QED BY <1>1, <3>1, <3>2, NothingChanged
  <2>2. CASE n.w.focused /\ up
    <3>1. m = [h EXCEPT !.w.keys = @ \ (Shift \ x.held)]
      BY <1>1, <2>2 DEF WmKey, HasFocus
    <3> HIDE DEF h
    <3> QED BY <1>1, <2>2, <3>1
  <2>3. CASE n.w.focused /\ ~up
    <3>1. m = [h EXCEPT !.w.keys = IF x.down THEN @ \cup {k} ELSE @ \ {k}]
      BY <1>1, <2>3 DEF WmKey, HasFocus, EmitKey
    <3> HIDE DEF h
    <3> QED BY <1>1, <2>3, <3>1
  <2> QED BY <1>3, <2>1, <2>2, <2>3
<1>6. WOut(n) /\ WFull(n) /\ WIn(n)
  BY WInvIs
<1>7. /\ FocusArrives(n) /\ KeysExpire(n) /\ KeysArrive(n, Key \ Shift)
      /\ FreshArrive(n, Key \ Shift) /\ ShiftsTogether(n)
      /\ ButtonsArrive(n) /\ WButtonsArrive(n)
  BY <1>6 DEF WIn, WInput
<1>8. m = WithKeys(n, K)
  BY <1>1, <1>5 DEF WithKeys
<1>9. Head(n.wire) \in KeyOf(Key) /\ Head(n.wire).key = k
  OBVIOUS
<1> HIDE DEF K, v
<1>10. K \subseteq n.w.keys \cup {Head(n.wire).key}
  BY <1>4, <1>9
<1>19. n \in State(WMessage) /\ n.wire # << >>
  OBVIOUS
<1>11. /\ m \in State(WMessage) /\ m.told = n.told /\ m.sys = n.sys
       /\ m.requests = n.requests
       /\ m.w.live = n.w.live /\ SameSizes(n, m) /\ SameLooks(n, m)
       /\ m.w.keys = K /\ m.w.focused = n.w.focused
       /\ Reads(n, m) /\ Latches(n, m) /\ FocusArrives(m) /\ KeysExpire(m)
       /\ ButtonsArrive(n) => ButtonsArrive(m)
       /\ WButtonsArrive(n) => WButtonsArrive(m)
  BY ONLY <1>4, <1>7, <1>8, <1>9, <1>10, <1>19, KeysHandled
<1>12. AsSaid(n, m, Key \ Shift)
  BY <1>11 DEF AsSaid, K
<1>13. ShiftsSaid(n, m)
  BY <1>11 DEF ShiftsSaid, K
<1>14. FreshArrive(m, Key \ Shift) /\ KeysArrive(m, Key \ Shift)
  <2> DEFINE J == Key \ Shift
  <2>1. J \in SUBSET Key /\ AsSaid(n, m, J) /\ FreshArrive(n, J) /\ KeysArrive(n, J)
    BY <1>7, <1>12
  <2>2. n \in State(WMessage)
    OBVIOUS
  <2> HIDE DEF J
  <2>3. FreshArrive(m, J) /\ KeysArrive(m, J)
    BY ONLY <1>7, <1>11, <2>1, <2>2, KeyReadArrives
  <2> QED BY <2>3 DEF J
<1>15. ShiftsTogether(m)
  <2>1. n \in State(WMessage)
    OBVIOUS
  <2> QED BY ONLY <1>7, <1>11, <1>13, <2>1, KeyReadShifts
<1>16. WIn(m)
  BY <1>7, <1>11, <1>14, <1>15 DEF WIn, WInput
<1>17. WOut(m) /\ WFull(m)
  BY <1>6, <1>11 DEF WOut, WSizes, WStates, WFull, Reported, SameSizes, SameLooks
<1>18. Promised(n, m)
  <2>1. CASE K = n.w.keys
    BY <1>11, <2>1 DEF Promised
  <2>2. CASE n.w.focused /\ up
    <3> DEFINE J == Shift \ x.held
    <3>1. J \in SUBSET Key /\ m.w.keys = n.w.keys \ J
      BY <1>11, <2>2, NativeAssumption DEF K
    <3> QED BY <1>11, <2>2, <3>1 DEF Promised
  <2>3. CASE n.w.focused /\ ~up
    BY <1>2, <1>11, <2>3 DEF Promised, K
  <2> QED BY <1>4, <2>1, <2>2, <2>3
<1> QED BY <1>11, <1>16, <1>17, <1>18, WInvIs DEF WKeeps

LEMMA WHandlesFocus ==
  ASSUME NEW n \in State(WMessage), WInv(n), n.wire # << >>, NEW x, x = Head(n.wire),
         x \in FocusWord, NEW m,
         m = IF x.on /\ ~Heard(n).sys.focused THEN Heard(n) ELSE EmitFocus(Heard(n), x.on)
  PROVE  WKeeps(n, m)
<1>1. WOut(n) /\ WFull(n) /\ WIn(n)
  BY WInvIs
<1>2. FocusArrives(n) /\ KeysExpire(n)
  BY <1>1 DEF WIn, WInput
<1>3. /\ m \in State(WMessage) /\ m.told = n.told /\ m.sys = n.sys
      /\ m.requests = n.requests
      /\ m.w.live = n.w.live /\ SameSizes(n, m) /\ SameLooks(n, m) /\ Promised(n, m)
      /\ m.wire = Tail(n.wire)
      /\ WIn(n) => WIn(m)
      /\ CInput(n) /\ ButtonsArrive(n) => CInput(m) /\ ButtonsArrive(m)
  BY <1>2, FocusHandled
<1>4. WOut(m) /\ WFull(m)
  BY <1>1, <1>3 DEF WOut, WSizes, WStates, WFull, Reported, SameSizes, SameLooks
<1> QED BY <1>1, <1>3, <1>4, WInvIs DEF WKeeps

LEMMA WHandlesClose ==
  ASSUME NEW n \in State(WMessage), WInv(n), n.wire # << >>, NEW x, x = Head(n.wire),
         x \in Word({"close"}), NEW m, m = EmitClose(Heard(n))
  PROVE  WKeeps(n, m)
<1> DEFINE h == Heard(n)
           v == [n.w EXCEPT !.closing = TRUE]
<1>1. /\ h \in State(WMessage) /\ h.w = n.w /\ h.told = n.told /\ h.sys = n.sys
      /\ h.requests = n.requests /\ h.wire = Tail(n.wire)
      /\ Head(n.wire) \in WMessage
  BY MessageHeard
<1> HIDE DEF h
<1>2. m = [h EXCEPT !.w = v]
  BY <1>1 DEF EmitClose, h
<1>3. n.w \in Record
  BY DEF State
<1>4. OtherFlags(n.w, v)
  BY <1>3 DEF Record, OtherFlags
<1> HIDE DEF v
<1>5. m = WithRecord(n, v)
  BY <1>2 DEF h, WithRecord
<1>6. /\ x.type \notin {"focus", "key", "button"} /\ x = Head(n.wire)
      /\ n \in State(WMessage) /\ n.wire # << >>
  BY DEF Word
<1>7. /\ m \in State(WMessage) /\ m.w = v /\ m.told = n.told /\ m.sys = n.sys
      /\ m.requests = n.requests /\ m.wire = Tail(n.wire)
      /\ v.live = n.w.live /\ v.focused = n.w.focused /\ v.keys = n.w.keys
      /\ v.size = n.w.size /\ v.fb = n.w.fb /\ v.maximized = n.w.maximized
      /\ v.fullscreen = n.w.fullscreen
      /\ Promised(n, m)
      /\ WIn(n) => WIn(m)
      /\ CInput(n) /\ ButtonsArrive(n) => CInput(m) /\ ButtonsArrive(m)
  BY ONLY <1>4, <1>5, <1>6, OtherHandled
<1>8. v.minimized = n.w.minimized
  BY <1>3 DEF Record, v
<1>9. WOut(n) /\ WFull(n) /\ WIn(n)
  BY WInvIs
<1>10. WOut(m) /\ WFull(m)
  BY <1>7, <1>8, <1>9 DEF WOut, WSizes, WStates, WFull, Reported
<1> QED BY <1>7, <1>9, <1>10, WInvIs DEF WKeeps

LEMMA WDispatchStep ==
  ASSUME Now \in State(WMessage), WInv(Now), WDispatch
  PROVE  WKeeps(Now, Now')
<1> DEFINE n == Now
           x == Head(wire)
           m == WHandle(Heard(n), x)
<1>1. n.wire = wire /\ n.wire # << >> /\ x = Head(n.wire) /\ n \in State(WMessage) /\ WInv(n)
  BY DEF Now, WDispatch
<1>2. Becomes(m)
  BY DEF WDispatch, Heard
<1>3. x \in WMessage
  <2>1. Head(n.wire) \in WMessage
    <3> HIDE DEF n
    <3> QED BY <1>1, MessageHeard
  <2> QED BY <1>1, <2>1
<1> HIDE DEF n, x
<1>4. \/ x \in Word({"close"}) /\ x.type = "close"
      \/ x \in FocusWord /\ x.type = "focus"
      \/ x \in KeyOf(Key) /\ x.type = "key"
      \/ x \in Pressing /\ x.type = "button"
  BY <1>3 DEF WMessage, Word, FocusWord, KeyWord, KeyOf, Pressing
<1>5. WKeeps(n, m)
  <2>1. CASE x \in Word({"close"}) /\ x.type = "close"
    <3>1. m = EmitClose(Heard(n))
      BY <2>1 DEF WHandle
    <3> QED BY <1>1, <2>1, <3>1, WHandlesClose
  <2>2. CASE x \in FocusWord /\ x.type = "focus"
    <3>1. m = IF x.on /\ ~Heard(n).sys.focused THEN Heard(n) ELSE EmitFocus(Heard(n), x.on)
      BY <2>2 DEF WHandle
    <3> QED BY <1>1, <2>2, <3>1, WHandlesFocus
  <2>3. CASE x \in KeyOf(Key) /\ x.type = "key"
    <3>1. m = WmKey(Heard(n), x)
      BY <2>3 DEF WHandle
    <3> QED BY <1>1, <2>3, <3>1, WHandlesKey
  <2>4. CASE x \in Pressing /\ x.type = "button"
    BY <1>1, <2>4, WHandlesButton
  <2> QED BY <1>4, <2>1, <2>2, <2>3, <2>4
<1>6. Now' = m
  BY <1>2, <1>5, BecomesNow DEF WKeeps
<1> QED BY <1>5, <1>6 DEF n

-----------------------------------------------------------------------------
(* Cocoa: sizes and states *)

CKeeps(n, m) ==
  m \in State(CMessage) /\ CInv(m) /\ m.w.live = n.w.live /\ Promised(n, m)

CIn(n) == CInput(n) /\ ButtonsArrive(n)

CFull(n) == n.w.fullscreen = (n.sys.full \in {"yes", "leaving"}) /\ n.requests = << >>

\* The last message on the Dock says whether the window is there.
CMini(n) ==
  /\ \A i \in 1..Len(n.wire) : Last(n.wire, MiniWord, i) => n.wire[i].on = n.sys.mini
  /\ None(n.wire, MiniWord) => n.w.minimized = n.sys.mini

LEMMA CInvIs ==
  ASSUME NEW n
  PROVE  CInv(n) <=> CSizes(n) /\ CFull(n) /\ CMini(n) /\ CIn(n)
BY DEF CInv, CStates, CFull, CMini, CIn

CStill(n, m) == m \in State(CMessage) /\ CInv(m) /\ SameInput(n, m)

LEMMA CStillKeeps ==
  ASSUME NEW n, NEW m, CStill(n, m)
  PROVE  CKeeps(n, m)
<1>1. m.w.live = n.w.live /\ m.w.focused = n.w.focused /\ m.w.keys = n.w.keys
  BY InputMeans DEF CStill, SameKeyboard
<1> QED BY <1>1 DEF CStill, CKeeps, Promised

LEMMA CStillTwice ==
  ASSUME NEW n, NEW p, NEW m, CStill(n, p), CStill(p, m)
  PROVE  CStill(n, m)
BY InputComposes DEF CStill

LEMMA CStands ==
  ASSUME NEW n, NEW m, m \in State(CMessage), SameInput(n, m), CIn(n), CMini(n),
         m.w.minimized = n.w.minimized, m.sys.mini = n.sys.mini, CSizes(m), CFull(m)
  PROVE  CStill(n, m)
<1>1. CIn(m)
  BY InputSame DEF CIn
<1>2. CMini(m)
  BY InputMeans DEF CMini
<1> QED BY <1>1, <1>2, CInvIs DEF CStill

\* nack__cocoa_update_size
LEMMA CUpdateSizeKeeps ==
  ASSUME NEW M, NEW n \in State(M), Reported(n), NEW m, m = CUpdateSize(n)
  PROVE  /\ m \in State(M) /\ SameInput(n, m) /\ SameLooks(n, m) /\ m.sys = n.sys
         /\ CSizes(m)
<1> DEFINE c == n.sys.scale
           z == n.sys.size
           f == n.sys.size * n.sys.scale
           p == EmitScale(n, c)
<1>1. n.sys \in System
  BY DEF State
<1>2. c \in Nat /\ z \in Nat
  BY <1>1 DEF System
<1>3. f \in Nat
  BY <1>2
<1>4. m = EmitResize(p, z, f)
  BY DEF CUpdateSize
<1>5. c = n.sys.scale /\ z = n.sys.size /\ f = z * c
  OBVIOUS
<1> HIDE DEF c, z, f, p
<1>6. /\ p \in State(M) /\ SameInput(n, p) /\ SameSizes(n, p) /\ SameLooks(n, p)
      /\ p.sys = n.sys
  BY <1>2, ScaleSet DEF p
<1>7. Reported(p)
  BY <1>6 DEF Reported, SameSizes
<1>8. /\ m \in State(M) /\ SameInput(p, m) /\ SameLooks(p, m)
      /\ m.w.size = z /\ m.w.fb = f
      /\ m.sys = p.sys /\ Reported(m)
  BY <1>2, <1>3, <1>4, <1>6, <1>7, ResizeKeeps
<1>9. SameInput(n, m)
  BY <1>6, <1>8, InputComposes
<1>10. SameLooks(n, m)
  BY <1>6, <1>8 DEF SameLooks
<1>11. CSizes(m)
  BY <1>5, <1>6, <1>8 DEF CSizes
<1> QED BY <1>6, <1>8, <1>9, <1>10, <1>11

\* windowDidResize
LEMMA CResizedKeeps ==
  ASSUME NEW M, NEW n \in State(M), CSizes(n), NEW s \in System, SameHands(n.sys, s),
         s.size = n.sys.size, s.scale = n.sys.scale, NEW m, m = CResized(n, s)
  PROVE  /\ m \in State(M) /\ SameInput(n, m) /\ CSizes(m)
         /\ m.sys.mini = s.mini /\ m.sys.full = s.full
         /\ m.w.fullscreen = n.w.fullscreen /\ m.w.minimized = n.w.minimized
<1>1. CASE Fitted(s).size = n.sys.size
  <2> DEFINE q == [n EXCEPT !.sys = s]
  <2>1. q = m
    BY <1>1 DEF CResized
  <2>2. /\ q \in State(M) /\ q.w = n.w /\ q.told = n.told /\ q.sys = s
        /\ q.wire = n.wire /\ q.requests = n.requests
        /\ SameHands(n.sys, s) => SameInput(n, q)
    BY SystemSet
  <2> HIDE DEF q
  <2>3. CSizes(m)
    BY <2>1, <2>2 DEF CSizes, Reported
  <2> QED BY <2>1, <2>2, <2>3
<1>2. CASE Fitted(s).size # n.sys.size
  <2> DEFINE t == Fitted(s)
             q == [n EXCEPT !.sys = t]
  <2>1. m = CUpdateSize(q)
    BY <1>2 DEF CResized
  <2>2. /\ t \in System /\ SameUser(s, t) /\ t.shown = s.shown /\ t.mini = s.mini
        /\ t.zoomed = s.zoomed /\ t.full = s.full /\ t.refused = s.refused
        /\ t.size = (IF s.full = "yes" \/ s.zoomed THEN Screen ELSE s.normal)
        /\ t.scale = s.scale /\ t.odd = s.odd /\ t.crossed = s.crossed
        /\ t.capture = s.capture
    BY SystemFitted
  <2> HIDE DEF t
  <2>3. SameHands(n.sys, t)
    BY <2>2 DEF SameHands, SameUser
  <2>4. /\ q \in State(M) /\ q.w = n.w /\ q.told = n.told /\ q.sys = t
        /\ q.wire = n.wire /\ q.requests = n.requests
        /\ SameHands(n.sys, t) => SameInput(n, q)
    BY <2>2, SystemSet
  <2> HIDE DEF q
  <2>5. Reported(q)
    BY <2>4 DEF CSizes, Reported
  <2>6. /\ m \in State(M) /\ SameInput(q, m) /\ SameLooks(q, m) /\ m.sys = q.sys
        /\ CSizes(m)
    BY <2>1, <2>4, <2>5, CUpdateSizeKeeps
  <2>7. SameInput(n, m)
    BY <2>3, <2>4, <2>6, InputComposes
  <2> QED BY <2>2, <2>4, <2>6, <2>7 DEF SameLooks
<1> QED BY <1>1, <1>2

\* The content is resized and neither full screen nor the Dock is in play.
LEMMA CResizedStands ==
  ASSUME NEW n \in State(CMessage), CInv(n), NEW s \in System, SameHands(n.sys, s),
         s.size = n.sys.size, s.scale = n.sys.scale, s.mini = n.sys.mini,
         s.full = n.sys.full, NEW m, m = CResized(n, s)
  PROVE  CStill(n, m)
<1>1. CSizes(n) /\ CFull(n) /\ CMini(n) /\ CIn(n)
  BY CInvIs
<1>2. /\ m \in State(CMessage) /\ SameInput(n, m) /\ CSizes(m)
      /\ m.sys.mini = s.mini /\ m.sys.full = s.full
      /\ m.w.fullscreen = n.w.fullscreen /\ m.w.minimized = n.w.minimized
  BY <1>1, CResizedKeeps
<1>3. CFull(m)
  BY <1>1, <1>2, InputMeans DEF CFull
<1> QED BY <1>1, <1>2, <1>3, CStands

\* windowDidEnterFullScreen and windowDidExitFullScreen
LEMMA CFullScreenStands ==
  ASSUME NEW n \in State(CMessage), CInv(n), NEW on \in BOOLEAN
  PROVE  CStill(n, CFullScreen(n, on))
<1> DEFINE f == IF on THEN "yes" ELSE "no"
           s == [n.sys EXCEPT !.full = f]
           p == CResized(n, s)
           v == [p.w EXCEPT !.fullscreen = on]
           m == [p EXCEPT !.w = v]
<1>1. n.sys \in System
  BY DEF State
<1>2. /\ s \in System /\ SameHands(n.sys, s) /\ s.size = n.sys.size
      /\ s.scale = n.sys.scale /\ s.mini = n.sys.mini /\ s.full = f
  BY <1>1 DEF System, SameHands
<1>3. (f \in {"yes", "leaving"}) = on
  OBVIOUS
<1>4. CFullScreen(n, on) = m
  BY DEF CFullScreen
<1> HIDE DEF f, s, p
<1>5. CSizes(n) /\ CFull(n) /\ CMini(n) /\ CIn(n)
  BY CInvIs
<1>6. /\ p \in State(CMessage) /\ SameInput(n, p) /\ CSizes(p)
      /\ p.sys.mini = s.mini /\ p.sys.full = s.full
      /\ p.w.fullscreen = n.w.fullscreen /\ p.w.minimized = n.w.minimized
  BY <1>2, <1>5, CResizedKeeps DEF p
<1>7. p.w \in Record
  BY <1>6 DEF State
<1>8. /\ v \in Record /\ v.live = p.w.live /\ v.focused = p.w.focused
      /\ v.keys = p.w.keys /\ v.buttons = p.w.buttons /\ v.fullscreen = on
      /\ v.minimized = p.w.minimized /\ v.size = p.w.size /\ v.fb = p.w.fb
  BY <1>7 DEF Record
<1> HIDE DEF v
<1>9. /\ m \in State(CMessage) /\ m.w = v /\ m.told = p.told /\ m.sys = p.sys
      /\ m.wire = p.wire /\ m.requests = p.requests /\ SameInput(p, m)
  BY <1>6, <1>8, RecordTouched
<1> HIDE DEF m
<1>10. SameInput(n, m)
  BY <1>6, <1>9, InputComposes
<1>11. CSizes(m)
  BY <1>6, <1>8, <1>9 DEF CSizes, Reported
<1>12. CFull(m)
  BY <1>2, <1>3, <1>5, <1>6, <1>8, <1>9, <1>10, InputMeans DEF CFull
<1>13. m.w.minimized = n.w.minimized /\ m.sys.mini = n.sys.mini
  BY <1>2, <1>6, <1>8, <1>9
<1>14. CStill(n, m)
  BY <1>5, <1>9, <1>10, <1>11, <1>12, <1>13, CStands
<1> QED BY <1>4, <1>14

\* An animation begins, or ends where it came from.
LEMMA CTurns ==
  ASSUME NEW n \in State(CMessage), CInv(n), NEW f \in {"no", "yes", "entering", "leaving"},
         (f \in {"yes", "leaving"}) = (n.sys.full \in {"yes", "leaving"}),
         NEW m, m = [n EXCEPT !.sys.full = f]
  PROVE  CStill(n, m)
<1> DEFINE s == [n.sys EXCEPT !.full = f]
           q == [n EXCEPT !.sys = s]
<1>1. n.sys \in System
  BY DEF State
<1>2. /\ s \in System /\ SameHands(n.sys, s) /\ s.size = n.sys.size
      /\ s.scale = n.sys.scale /\ s.mini = n.sys.mini /\ s.full = f
  BY <1>1 DEF System, SameHands
<1>3. q = m
  OBVIOUS
<1> HIDE DEF s
<1>4. /\ q \in State(CMessage) /\ q.w = n.w /\ q.told = n.told /\ q.sys = s
      /\ q.wire = n.wire /\ q.requests = n.requests
      /\ SameHands(n.sys, s) => SameInput(n, q)
  BY <1>2, SystemSet
<1> HIDE DEF q
<1>5. CSizes(n) /\ CFull(n) /\ CMini(n) /\ CIn(n)
  BY CInvIs
<1>6. CSizes(q) /\ CFull(q)
  BY <1>2, <1>4, <1>5 DEF CSizes, Reported, CFull
<1>7. CStill(n, q)
  BY <1>2, <1>4, <1>5, <1>6, CStands
<1> QED BY <1>3, <1>7

-----------------------------------------------------------------------------
(* Cocoa: what the program calls *)

LEMMA CSetSizeStands ==
  ASSUME NEW n \in State(CMessage), CInv(n), NEW z \in Nat
  PROVE  CStill(n, CSetSize(n, z))
<1> DEFINE s == [n.sys EXCEPT !.normal = z]
           m == CResized(n, s)
<1>1. n.sys \in System
  BY DEF State
<1>2. /\ s \in System /\ SameHands(n.sys, s) /\ s.size = n.sys.size
      /\ s.scale = n.sys.scale /\ s.mini = n.sys.mini /\ s.full = n.sys.full
  BY <1>1 DEF System, SameHands
<1>3. CSetSize(n, z) = m
  BY DEF CSetSize
<1> HIDE DEF s
<1>4. m = CResized(n, s)
  OBVIOUS
<1> HIDE DEF m
<1>5. CStill(n, m)
  BY <1>2, <1>4, CResizedStands
<1> QED BY <1>3, <1>5

LEMMA CZoomStands ==
  ASSUME NEW n \in State(CMessage), CInv(n), NEW on \in BOOLEAN, NEW m,
         m = CResized(n, [n.sys EXCEPT !.zoomed = on])
  PROVE  CStill(n, m)
<1> DEFINE s == [n.sys EXCEPT !.zoomed = on]
<1>1. n.sys \in System
  BY DEF State
<1>2. /\ s \in System /\ SameHands(n.sys, s) /\ s.size = n.sys.size
      /\ s.scale = n.sys.scale /\ s.mini = n.sys.mini /\ s.full = n.sys.full
  BY <1>1 DEF System, SameHands
<1>3. m = CResized(n, s)
  OBVIOUS
<1> HIDE DEF s
<1> QED BY ONLY <1>2, <1>3, CResizedStands, n \in State(CMessage), CInv(n)

LEMMA CIdle ==
  ASSUME NEW n \in State(CMessage), CInv(n)
  PROVE  CStill(n, n)
BY DEF CStill, SameInput

LEMMA CSetFullscreenStands ==
  ASSUME NEW n \in State(CMessage), CInv(n), NEW on \in BOOLEAN
  PROVE  CStill(n, CSetFullscreen(n, on))
<1> DEFINE f == CASE n.sys.full = "no" /\ on -> "entering"
                  [] n.sys.full = "yes" /\ ~on -> "leaving"
                  [] OTHER -> n.sys.full
           m == CSetFullscreen(n, on)
<1>1. n.sys.full \in {"no", "yes", "entering", "leaving"}
  BY DEF State, System
<1>2. m = [n EXCEPT !.sys.full = f]
  BY DEF CSetFullscreen
<1>3. CASE n.sys.full = "no" /\ on
  <2>1. f = "entering"
    BY <1>3
  <2>2. m = [n EXCEPT !.sys.full = "entering"]
    BY <1>2, <2>1
  <2> HIDE DEF m, f
  <2> DEFINE g == "entering"
  <2>3. g \in {"no", "yes", "entering", "leaving"}
        /\ (g \in {"yes", "leaving"}) = (n.sys.full \in {"yes", "leaving"})
        /\ m = [n EXCEPT !.sys.full = g]
    BY <1>3, <2>2
  <2> HIDE DEF g
  <2> QED BY <2>3, CTurns DEF m
<1>4. CASE n.sys.full = "yes" /\ ~on
  <2>1. f = "leaving"
    BY <1>4
  <2>2. m = [n EXCEPT !.sys.full = "leaving"]
    BY <1>2, <2>1
  <2> HIDE DEF m, f
  <2> DEFINE g == "leaving"
  <2>3. g \in {"no", "yes", "entering", "leaving"}
        /\ (g \in {"yes", "leaving"}) = (n.sys.full \in {"yes", "leaving"})
        /\ m = [n EXCEPT !.sys.full = g]
    BY <1>4, <2>2
  <2> HIDE DEF g
  <2> QED BY <2>3, CTurns DEF m
<1>5. CASE ~(n.sys.full = "no" /\ on) /\ ~(n.sys.full = "yes" /\ ~on)
  <2>1. f = n.sys.full
    BY <1>5
  <2> HIDE DEF f, m
  <2> DEFINE g == n.sys.full
  <2>2. g \in {"no", "yes", "entering", "leaving"}
        /\ (g \in {"yes", "leaving"}) = (n.sys.full \in {"yes", "leaving"})
        /\ m = [n EXCEPT !.sys.full = g]
    BY <1>1, <1>2, <2>1
  <2> HIDE DEF g
  <2> QED BY <2>2, CTurns DEF m
<1> QED BY <1>3, <1>4, <1>5

\* Out of sight: the focus is gone.
LEMMA CHides ==
  ASSUME NEW n \in State(CMessage), CIn(n), NEW m, m = Unfocused(n)
  PROVE  /\ m \in State(CMessage) /\ CIn(m) /\ SameSizes(n, m) /\ SameLooks(n, m)
         /\ m.w.live = n.w.live /\ m.requests = n.requests /\ m.wire = n.wire
         /\ Promised(n, m)
<1> DEFINE q == Unfocused(n)
<1>1. /\ q \in State(CMessage) /\ SameSizes(n, q) /\ SameLooks(n, q)
      /\ q.w.live = n.w.live /\ q.wire = n.wire /\ q.requests = n.requests
      /\ q.w.focused = FALSE /\ q.w.keys = (IF n.w.focused THEN {} ELSE n.w.keys)
      /\ q.sys.focused = FALSE /\ q.sys.held = n.sys.held /\ q.sys.odd = {}
      /\ q.sys.crossed = Underway(n.wire) /\ q.sys.fresh = {}
      /\ q.w.buttons = n.w.buttons /\ q.sys.here = n.sys.here
      /\ q.sys.strayed = n.sys.strayed \cup n.sys.here \cup n.w.buttons
      /\ q.sys.capture = FALSE
  BY FocusLost
<1>2. FocusArrives(n)
  BY DEF CIn, CInput
<1>3. /\ FocusArrives(q) /\ KeysExpire(q)
      /\ \A K : FreshArrive(q, K) /\ KeysArrive(q, K)
      /\ ShiftsTogether(n) => ShiftsTogether(q)
      /\ TakeTurns(q)
  BY <1>2, SightLost
<1> HIDE DEF q
<1>4. q = m
  BY DEF q
<1>5. Shifted(n.wire, m.wire, Pressing, 0)
  BY <1>1, <1>4, ShiftedSame DEF State
<1>6. m \in State(CMessage)
  BY <1>1, <1>4
<1>7. ButtonsArrive(m)
  <2>1. /\ m.w.buttons \subseteq n.w.buttons
        /\ n.sys.here \cup n.sys.strayed \subseteq m.sys.here \cup m.sys.strayed
    BY <1>1, <1>4
  <2>2. ButtonsArrive(n)
    BY DEF CIn
  <2> QED BY <1>5, <1>6, <2>1, <2>2, ButtonsFramed
<1>8. CIn(m)
  BY <1>3, <1>4, <1>7 DEF CIn, CInput
<1>9. Promised(n, m)
  <2>1. n.w.focused \in BOOLEAN
    BY DEF State, Record
  <2> QED BY <1>1, <1>4, <2>1 DEF Promised
<1> QED BY <1>1, <1>4, <1>8, <1>9

LEMMA CShowKeeps ==
  ASSUME NEW n \in State(CMessage), CInv(n), NEW show \in BOOLEAN
  PROVE  CKeeps(n, CShow(n, show)) /\ (show => CStill(n, CShow(n, show)))
<1> DEFINE v == [n.w EXCEPT !.visible = show]
           s == [n.sys EXCEPT !.shown = show]
           p == [n EXCEPT !.w = v, !.sys = s]
           m == CShow(n, show)
<1>1. n.w \in Record /\ n.sys \in System
  BY DEF State
<1>2. /\ v \in Record /\ v.live = n.w.live /\ v.focused = n.w.focused /\ v.keys = n.w.keys
      /\ v.buttons = n.w.buttons /\ v.minimized = n.w.minimized
      /\ v.maximized = n.w.maximized /\ v.size = n.w.size /\ v.fb = n.w.fb
      /\ v.fullscreen = n.w.fullscreen
  BY <1>1 DEF Record
<1>3. /\ s \in System /\ SameHands(n.sys, s) /\ s.size = n.sys.size /\ s.mini = n.sys.mini
      /\ s.scale = n.sys.scale /\ s.full = n.sys.full
  BY <1>1 DEF System, SameHands
<1>4. [n EXCEPT !.sys.shown = show, !.w.visible = show] = p
  BY DEF State
<1>5. m = IF show THEN CUpdateSize(p) ELSE Unfocused(p)
  BY <1>4 DEF CShow
<1> HIDE DEF v, s, m
<1>6. /\ p \in State(CMessage) /\ p.w = v /\ p.told = n.told /\ p.sys = s
      /\ p.requests = n.requests /\ p.wire = n.wire /\ SameInput(n, p)
  <2>1. p = [n EXCEPT !.w = v, !.sys = s]
    OBVIOUS
  <2> HIDE DEF p
  <2>2. /\ p \in State(CMessage) /\ p.w = v /\ p.told = n.told /\ p.sys = s
        /\ p.wire = n.wire /\ p.requests = n.requests
    BY <1>2, <1>3, <2>1 DEF State
  <2>3. SameInput(n, p)
    BY <1>2, <1>3, <2>2 DEF SameHands, SameInput, Keyboard, Mouse
  <2> QED BY <2>2, <2>3
<1> HIDE DEF p
<1>7. CSizes(n) /\ CFull(n) /\ CMini(n) /\ CIn(n)
  BY CInvIs
<1>8. CSizes(p) /\ CFull(p) /\ CMini(p) /\ CIn(p)
  <2>1. CSizes(p) /\ CFull(p) /\ CMini(p)
    BY <1>2, <1>3, <1>6, <1>7 DEF CSizes, CFull, CMini, Reported
  <2>2. CIn(p)
    BY <1>6, <1>7, InputSame DEF CIn
  <2> QED BY <2>1, <2>2
<1>9. CASE show
  <2>1. m = CUpdateSize(p) /\ Reported(p)
    BY <1>5, <1>8, <1>9 DEF CSizes
  <2>2. /\ m \in State(CMessage) /\ SameInput(p, m) /\ SameLooks(p, m) /\ m.sys = p.sys
        /\ CSizes(m)
    BY <1>6, <2>1, CUpdateSizeKeeps
  <2>3. SameInput(n, m)
    BY <1>6, <2>2, InputComposes
  <2>4. CFull(m)
    BY <1>8, <2>2, InputMeans DEF CFull, SameLooks
  <2>5. m.w.minimized = n.w.minimized /\ m.sys.mini = n.sys.mini
    BY <1>2, <1>3, <1>6, <2>2 DEF SameLooks
  <2>6. CStill(n, m)
    BY <1>7, <2>2, <2>3, <2>4, <2>5, CStands
  <2> QED BY <2>6, CStillKeeps DEF m
<1>10. CASE ~show
  <2>1. m = Unfocused(p)
    BY <1>5, <1>10
  <2>2. /\ m \in State(CMessage) /\ CIn(m) /\ SameSizes(p, m) /\ SameLooks(p, m)
        /\ m.w.live = p.w.live /\ m.requests = p.requests /\ m.wire = p.wire
        /\ Promised(p, m)
    BY <1>6, <1>8, <2>1, CHides
  <2>3. CSizes(m) /\ CFull(m) /\ CMini(m)
    BY <1>8, <2>2 DEF CSizes, CFull, CMini, Reported, SameSizes, SameLooks
  <2>4. Promised(n, m)
    BY <1>2, <1>6, <2>2 DEF Promised
  <2>5. CKeeps(n, m)
    BY <1>2, <1>6, <2>2, <2>3, <2>4, CInvIs DEF CKeeps
  <2> QED BY <1>10, <2>5 DEF m
<1> QED BY <1>9, <1>10

\* The delegate will hear that the window goes to the Dock or comes back.
LEMMA MiniTold ==
  ASSUME NEW n \in State(CMessage), CSizes(n), CFull(n), CIn(n), NEW on \in BOOLEAN,
         n.sys.mini = on, NEW x, x = [type |-> "mini", on |-> on], NEW m, m = Tell(n, x)
  PROVE  m \in State(CMessage) /\ CInv(m) /\ m.w = n.w
<1>1. x \in CMessage /\ x \in MiniWord /\ x.type \notin {"focus", "key", "button"} /\ x.on = on
  BY DEF CMessage, MiniWord
<1>2. /\ m \in State(CMessage) /\ m.w = n.w /\ m.told = n.told /\ m.sys = n.sys
      /\ m.requests = n.requests /\ m.wire = Append(n.wire, x)
      /\ WIn(n) => WIn(m)
      /\ CInput(n) /\ ButtonsArrive(n) => CInput(m) /\ ButtonsArrive(m)
  BY <1>1, OtherTold
<1>3. n.wire \in Seq(CMessage)
  BY DEF State
<1> DEFINE t == m.wire
           e == Len(n.wire) + 1
<1>4. t[e] = x
  BY <1>1, <1>2, <1>3
<1>5. ~None(t, MiniWord) /\ \A i : Last(t, MiniWord, i) => i = e
  BY <1>1, <1>2, <1>3, AppendOwn
<1>6. CMini(m)
  BY <1>1, <1>2, <1>4, <1>5 DEF CMini
<1>7. CSizes(m) /\ CFull(m)
  BY <1>2 DEF CSizes, CFull, Reported
<1> QED BY <1>2, <1>6, <1>7, CInvIs DEF CIn

LEMMA CMiniaturizeKeeps ==
  ASSUME NEW n \in State(CMessage), CInv(n)
  PROVE  CKeeps(n, CMiniaturize(n))
<1> DEFINE m == CMiniaturize(n)
<1>1. CASE n.sys.full # "no" \/ n.sys.mini
  <2>1. m = n
    BY <1>1 DEF CMiniaturize
  <2> QED BY <2>1, CIdle, CStillKeeps
<1>2. CASE ~(n.sys.full # "no" \/ n.sys.mini)
  <2> DEFINE q == Unfocused(n)
             s == [q.sys EXCEPT !.mini = TRUE]
             p == [q EXCEPT !.sys = s]
             yes == TRUE
             x == [type |-> "mini", on |-> yes]
  <2>1. m = Tell(p, x)
    BY <1>2 DEF CMiniaturize
  <2>2. CSizes(n) /\ CFull(n) /\ CIn(n) /\ q = Unfocused(n)
    BY CInvIs
  <2> HIDE DEF q, m
  <2>3. /\ q \in State(CMessage) /\ CIn(q) /\ SameSizes(n, q) /\ SameLooks(n, q)
        /\ q.w.live = n.w.live /\ q.requests = n.requests /\ q.wire = n.wire
        /\ Promised(n, q)
    BY <2>2, CHides
  <2>4. q.sys \in System
    BY <2>3 DEF State
  <2>5. /\ s \in System /\ SameHands(q.sys, s) /\ s.mini = yes /\ s.size = q.sys.size
        /\ s.scale = q.sys.scale /\ s.full = q.sys.full /\ yes \in BOOLEAN
    BY <2>4 DEF System, SameHands
  <2> HIDE DEF s, yes
  <2>6. /\ p \in State(CMessage) /\ p.w = q.w /\ p.told = q.told /\ p.sys = s
        /\ p.wire = q.wire /\ p.requests = q.requests
        /\ SameHands(q.sys, s) => SameInput(q, p)
    BY <2>3, <2>5, SystemSet
  <2> HIDE DEF p
  <2>7. CIn(p)
    BY <2>3, <2>5, <2>6, InputSame DEF CIn
  <2>8. CSizes(p) /\ CFull(p)
    BY <2>2, <2>3, <2>5, <2>6 DEF CSizes, CFull, Reported, SameSizes, SameLooks
  <2>9. p.sys.mini = yes /\ x = [type |-> "mini", on |-> yes]
    BY <2>5, <2>6
  <2> HIDE DEF x
  <2>10. m \in State(CMessage) /\ CInv(m) /\ m.w = p.w
    BY <2>1, <2>5, <2>6, <2>7, <2>8, <2>9, MiniTold
  <2>11. CKeeps(n, m)
    BY <2>3, <2>6, <2>10 DEF CKeeps, Promised
  <2> QED BY <2>11 DEF m
<1> QED BY <1>1, <1>2

LEMMA CMaximizeStands ==
  ASSUME NEW n \in State(CMessage), CInv(n)
  PROVE  CStill(n, CMaximize(n))
<1> DEFINE m == CMaximize(n)
           yes == TRUE
<1>1. CASE n.sys.zoomed \/ n.sys.full # "no"
  <2>1. m = n
    BY <1>1 DEF CMaximize
  <2> QED BY <2>1, CIdle
<1>2. CASE ~(n.sys.zoomed \/ n.sys.full # "no")
  <2>1. m = CResized(n, [n.sys EXCEPT !.zoomed = yes]) /\ yes \in BOOLEAN
    BY <1>2 DEF CMaximize
  <2> HIDE DEF m, yes
  <2>2. CStill(n, m)
    BY <2>1, CZoomStands
  <2> QED BY <2>2 DEF m
<1> QED BY <1>1, <1>2

\* nack__cocoa_window_restore
LEMMA CRestoreKeeps ==
  ASSUME NEW n \in State(CMessage), CInv(n)
  PROVE  CKeeps(n, CRestore(n))
<1> DEFINE m == CRestore(n)
           no == FALSE
<1>1. CASE n.sys.mini
  <2> DEFINE s == [n.sys EXCEPT !.mini = no]
             p == [n EXCEPT !.sys = s]
             x == [type |-> "mini", on |-> no]
  <2>1. m = Tell(p, x)
    BY <1>1 DEF CRestore
  <2>2. CSizes(n) /\ CFull(n) /\ CIn(n) /\ n.sys \in System
    BY CInvIs DEF State
  <2> HIDE DEF m
  <2>3. /\ s \in System /\ SameHands(n.sys, s) /\ s.mini = no /\ s.size = n.sys.size
        /\ s.scale = n.sys.scale /\ s.full = n.sys.full /\ no \in BOOLEAN
    BY <2>2 DEF System, SameHands
  <2> HIDE DEF s, no
  <2>4. /\ p \in State(CMessage) /\ p.w = n.w /\ p.told = n.told /\ p.sys = s
        /\ p.wire = n.wire /\ p.requests = n.requests
        /\ SameHands(n.sys, s) => SameInput(n, p)
    BY <2>3, SystemSet
  <2> HIDE DEF p
  <2>5. CIn(p)
    BY <2>2, <2>3, <2>4, InputSame DEF CIn
  <2>6. CSizes(p) /\ CFull(p)
    BY <2>2, <2>3, <2>4 DEF CSizes, CFull, Reported
  <2>7. p.sys.mini = no /\ x = [type |-> "mini", on |-> no]
    BY <2>3, <2>4
  <2> HIDE DEF x
  <2>8. m \in State(CMessage) /\ CInv(m) /\ m.w = p.w
    BY <2>1, <2>3, <2>4, <2>5, <2>6, <2>7, MiniTold
  <2>9. CKeeps(n, m)
    BY <2>4, <2>8 DEF CKeeps, Promised
  <2> QED BY <2>9 DEF m
<1>2. CASE ~n.sys.mini /\ n.sys.zoomed
  <2>1. m = CResized(n, [n.sys EXCEPT !.zoomed = no]) /\ no \in BOOLEAN
    BY <1>2 DEF CRestore
  <2> HIDE DEF m, no
  <2>2. CStill(n, m)
    BY <2>1, CZoomStands
  <2> QED BY <2>2, CStillKeeps DEF m
<1>3. CASE ~n.sys.mini /\ ~n.sys.zoomed
  <2>1. m = n
    BY <1>3 DEF CRestore
  <2> QED BY <2>1, CIdle, CStillKeeps
<1> QED BY <1>1, <1>2, <1>3

LEMMA COpenStep ==
  ASSUME COpen
  PROVE  Now' \in State(CMessage) /\ CInv(Now') /\ Unfolded(Now')
<1> PICK s \in Size, t \in Size, r \in Scale, full \in BOOLEAN :
      LET sized == CSetSize(CCreated(s, r), t)
      IN Becomes(Opened(CShow(IF full THEN CSetFullscreen(sized, TRUE) ELSE sized, TRUE)))
  BY DEF COpen
<1> DEFINE z == s * r
           yes == TRUE
           n == Fresh(s, z, r, yes)
           a == CSetSize(n, t)
           f == CSetFullscreen(a, yes)
           b == IF full THEN f ELSE a
           c == CShow(b, yes)
<1>0. s \in Nat /\ z \in Nat /\ t \in Nat /\ r \in Nat \ {0} /\ yes \in BOOLEAN
  BY NativeAssumption
<1>a. yes
  OBVIOUS
<1>b. z = s * r
  OBVIOUS
<1>1. Becomes(Opened(c))
  BY DEF CCreated
<1> HIDE DEF z, yes
<1>2. /\ n \in State(CMessage) /\ n.w = Created(s, z, r, yes)
      /\ n.told = [size |-> Unsized, fb |-> z] /\ n.sys = Unseen(s, r)
      /\ n.wire = << >> /\ n.requests = << >>
  BY <1>0, FreshTyped
<1>3. /\ n.w.live = TRUE /\ n.w.size = s /\ n.w.fb = z
      /\ n.w.minimized = FALSE /\ n.w.fullscreen = FALSE
      /\ n.w.focused = FALSE /\ n.w.keys = {} /\ n.w.buttons = {}
      /\ n.told.size = Unsized /\ n.told.fb = z
  BY <1>2 DEF Created
<1>4. /\ n.sys.size = s /\ n.sys.scale = r /\ n.sys.mini = FALSE
      /\ n.sys.full = "no" /\ n.sys.focused = FALSE /\ n.sys.fresh = {}
  BY <1>2 DEF Unseen
<1> HIDE DEF n, a, f, b, c
<1>5. CInv(n)
  <2>1. CSizes(n)
    <3>1. n.w.fb = n.sys.size * n.sys.scale
      BY ONLY <1>b, <1>3, <1>4
    <3> QED BY ONLY <1>3, <1>4, <3>1 DEF CSizes, Reported
  <2>4. CFull(n)
    <3> DEFINE filled == n.sys.full \in {"yes", "leaving"}
    <3>1. filled = FALSE
      BY <1>4
    <3> HIDE DEF filled
    <3>2. n.w.fullscreen = filled
      BY ONLY <1>3, <3>1
    <3> QED BY ONLY <1>2, <3>2 DEF CFull, filled
  <2>2. CIn(n)
    BY <1>2, <1>3, <1>4, Untouched DEF CIn
  <2>3. CMini(n)
    <3>1. 1..Len(n.wire) = {}
      BY <1>2
    <3> QED BY <1>3, <1>4, <3>1 DEF CMini
  <2> QED BY <2>1, <2>2, <2>3, <2>4, CInvIs
<1>6. CStill(n, a)
  BY <1>0, <1>2, <1>5, CSetSizeStands DEF a
<1>7. CStill(n, b)
  <2>1. CStill(a, f)
    BY <1>0, <1>6, CSetFullscreenStands DEF f, CStill
  <2>2. CStill(n, f)
    BY <1>6, <2>1, CStillTwice
  <2> QED BY <1>6, <2>2 DEF b
<1>8. CStill(n, c)
  <2>1. b \in State(CMessage) /\ CInv(b)
    BY <1>7 DEF CStill
  <2>2. CKeeps(b, c) /\ (yes => CStill(b, c))
    BY <1>0, <2>1, CShowKeeps DEF c
  <2> QED BY <1>a, <1>7, <2>2, CStillTwice
<1>9. c \in State(CMessage) /\ CInv(c) /\ SameInput(n, c)
  BY <1>8 DEF CStill
<1>10. Unfolded(c)
  BY <1>3, <1>9, InputMeans DEF Unfolded, SameKeyboard
<1>11. Opened(c) = c
  BY <1>9, OpenedIs DEF CInv, CSizes, Reported
<1>12. Becomes(c)
  BY <1>1, <1>11
<1>13. Now' = c
  BY <1>9, <1>12, BecomesNow
<1> QED BY <1>9, <1>10, <1>13

LEMMA CCallStep ==
  ASSUME Now \in State(CMessage), CInv(Now), CCall
  PROVE  CKeeps(Now, Now')
<1> DEFINE n == Now
<1> HIDE DEF n
<1>1. ASSUME NEW m, CKeeps(n, m), Becomes(m)
      PROVE  CKeeps(Now, Now')
  <2>1. Now' = m
    BY <1>1, BecomesNow DEF CKeeps
  <2> QED BY <1>1, <2>1 DEF n
<1>2. ASSUME NEW show \in BOOLEAN, Becomes(CShow(n, show))
      PROVE  CKeeps(Now, Now')
  <2>1. CKeeps(n, CShow(n, show)) /\ (show => CStill(n, CShow(n, show)))
    BY CShowKeeps DEF n
  <2> QED BY <1>1, <1>2, <2>1
<1>3. ASSUME NEW s \in Size, Becomes(CSetSize(n, s))
      PROVE  CKeeps(Now, Now')
  <2>1. s \in Nat
    BY NativeAssumption
  <2>2. CStill(n, CSetSize(n, s))
    BY <2>1, CSetSizeStands DEF n
  <2> QED BY <1>1, <1>3, <2>2, CStillKeeps
<1>4. ASSUME NEW on \in BOOLEAN, Becomes(CSetFullscreen(n, on))
      PROVE  CKeeps(Now, Now')
  <2> DEFINE m == CSetFullscreen(n, on)
  <2> HIDE DEF m
  <2>1. CStill(n, m)
    BY CSetFullscreenStands DEF n, m
  <2> QED BY <1>1, <1>4, <2>1, CStillKeeps DEF m
<1>5. ASSUME Becomes(CMiniaturize(n))
      PROVE  CKeeps(Now, Now')
  <2>1. CKeeps(n, CMiniaturize(n))
    BY CMiniaturizeKeeps DEF n
  <2> QED BY <1>1, <1>5, <2>1
<1>6. ASSUME Becomes(CMaximize(n))
      PROVE  CKeeps(Now, Now')
  <2>1. CStill(n, CMaximize(n))
    BY CMaximizeStands DEF n
  <2> QED BY <1>1, <1>6, <2>1, CStillKeeps
<1>7. ASSUME Becomes(CRestore(n))
      PROVE  CKeeps(Now, Now')
  <2>1. CKeeps(n, CRestore(n))
    BY CRestoreKeeps DEF n
  <2> QED BY <1>1, <1>7, <2>1
<1> QED BY <1>2, <1>3, <1>4, <1>5, <1>6, <1>7 DEF CCall, n

-----------------------------------------------------------------------------
(* Cocoa: the system and the user *)

LEMMA CTransitionStep ==
  ASSUME Now \in State(CMessage), CInv(Now), CTransition
  PROVE  CKeeps(Now, Now')
<1> DEFINE n == Now
<1>0. n.sys = sys
  BY DEF Now
<1> HIDE DEF n
<1>1. ASSUME NEW m, CStill(n, m), Becomes(m)
      PROVE  CKeeps(Now, Now')
  <2>1. Now' = m
    BY <1>1, BecomesNow DEF CStill
  <2> QED BY <1>1, <2>1, CStillKeeps DEF n
<1>2. ASSUME NEW on \in BOOLEAN, Becomes(CFullScreen(n, on))
      PROVE  CKeeps(Now, Now')
  <2> DEFINE m == CFullScreen(n, on)
  <2> HIDE DEF m
  <2>1. CStill(n, m)
    BY CFullScreenStands DEF n, m
  <2> QED BY <1>1, <1>2, <2>1 DEF m
<1>3. ASSUME NEW f \in {"no", "yes"}, Becomes([n EXCEPT !.sys.full = f]),
             (f = "no" /\ n.sys.full = "entering") \/ (f = "yes" /\ n.sys.full = "leaving")
      PROVE  CKeeps(Now, Now')
  <2> DEFINE m == [n EXCEPT !.sys.full = f]
  <2>1. m = [n EXCEPT !.sys.full = f]
    OBVIOUS
  <2> HIDE DEF m
  <2>2. /\ (f \in {"yes", "leaving"}) = (n.sys.full \in {"yes", "leaving"})
        /\ f \in {"no", "yes", "entering", "leaving"}
    <3>1. CASE f = "no" /\ n.sys.full = "entering"
      BY <3>1
    <3>2. CASE f = "yes" /\ n.sys.full = "leaving"
      BY <3>2
    <3> QED BY <1>3, <3>1, <3>2
  <2>3. n \in State(CMessage) /\ CInv(n)
    BY DEF n
  <2>4. CStill(n, m)
    BY ONLY <2>1, <2>2, <2>3, CTurns
  <2> QED BY <1>1, <1>3, <2>4 DEF m
<1>4. \/ n.sys.full = "entering" /\ Becomes(CFullScreen(n, TRUE))
      \/ n.sys.full = "entering" /\ Becomes([n EXCEPT !.sys.full = "no"])
      \/ n.sys.full = "leaving" /\ Becomes(CFullScreen(n, FALSE))
      \/ n.sys.full = "leaving" /\ Becomes([n EXCEPT !.sys.full = "yes"])
  BY <1>0 DEF CTransition, n
<1> QED BY <1>2, <1>3, <1>4

LEMMA CRescaledStands ==
  ASSUME NEW n \in State(CMessage), CInv(n), NEW c \in Nat \ {0}
  PROVE  CStill(n, CRescaled(n, c))
<1> DEFINE s == [n.sys EXCEPT !.scale = c]
           p == [n EXCEPT !.sys = s]
           m == CRescaled(n, c)
<1>1. m = CUpdateSize(p)
  BY DEF CRescaled
<1>2. n.sys \in System
  BY DEF State
<1>3. /\ s \in System /\ SameHands(n.sys, s) /\ s.mini = n.sys.mini
      /\ s.full = n.sys.full
  BY <1>2 DEF System, SameHands
<1> HIDE DEF s, m
<1>4. /\ p \in State(CMessage) /\ p.w = n.w /\ p.told = n.told /\ p.sys = s
      /\ p.wire = n.wire /\ p.requests = n.requests
      /\ SameHands(n.sys, s) => SameInput(n, p)
  BY <1>3, SystemSet
<1> HIDE DEF p
<1>5. CSizes(n) /\ CFull(n) /\ CMini(n) /\ CIn(n)
  BY CInvIs
<1>6. Reported(p)
  BY <1>4, <1>5 DEF CSizes, Reported
<1>7. /\ m \in State(CMessage) /\ SameInput(p, m) /\ SameLooks(p, m) /\ m.sys = p.sys
      /\ CSizes(m)
  BY <1>1, <1>4, <1>6, CUpdateSizeKeeps
<1>8. SameInput(n, m)
  BY <1>3, <1>4, <1>7, InputComposes
<1>9. CFull(m)
  BY <1>3, <1>4, <1>5, <1>7, <1>8, InputMeans DEF CFull, SameLooks
<1>10. m.w.minimized = n.w.minimized /\ m.sys.mini = n.sys.mini
  BY <1>3, <1>4, <1>7 DEF SameLooks
<1>11. CStill(n, m)
  BY <1>5, <1>7, <1>8, <1>9, <1>10, CStands
<1> QED BY <1>11 DEF m

\* A message about something else leaves what is said of the Dock.
LEMMA MiniAppended ==
  ASSUME NEW n \in State(CMessage), CMini(n), NEW x \in CMessage, x \notin MiniWord,
         NEW m, m.wire = Append(n.wire, x), m.w.minimized = n.w.minimized,
         m.sys.mini = n.sys.mini
  PROVE  CMini(m)
<1> DEFINE t == m.wire
<1>1. n.wire \in Seq(CMessage) /\ t = Append(n.wire, x)
  BY DEF State
<1>2. \A i \in 1..Len(n.wire) : t[i] = n.wire[i]
  BY <1>1
<1>3. None(t, MiniWord) <=> None(n.wire, MiniWord)
  BY <1>1, AppendOther, Zenon
<1>4. \A i : Last(t, MiniWord, i) => Last(n.wire, MiniWord, i)
  BY <1>1, AppendOther, Zenon
<1>5. ASSUME NEW i \in 1..Len(t), Last(t, MiniWord, i) PROVE t[i].on = m.sys.mini
  <2>1. Last(n.wire, MiniWord, i)
    BY <1>4, <1>5
  <2>2. i \in 1..Len(n.wire)
    BY <2>1 DEF Last
  <2> QED BY <1>2, <2>1, <2>2 DEF CMini
<1> QED BY <1>3, <1>5 DEF CMini

LEMMA CTells ==
  ASSUME NEW n \in State(CMessage), CInv(n), NEW m \in State(CMessage), m.w = n.w,
         m.told = n.told, m.requests = n.requests, SameSizes(n, m), SameLooks(n, m), CIn(m),
         m.wire = n.wire \/ \E x \in CMessage \ MiniWord : m.wire = Append(n.wire, x)
  PROVE  CKeeps(n, m)
<1>1. CSizes(n) /\ CFull(n) /\ CMini(n)
  BY CInvIs
<1>2. CSizes(m) /\ CFull(m)
  BY <1>1 DEF CSizes, Reported, CFull, SameSizes, SameLooks
<1>3. m.w.minimized = n.w.minimized /\ m.sys.mini = n.sys.mini
  BY DEF SameLooks
<1>4. CMini(m)
  <2>1. CASE m.wire = n.wire
    BY <1>1, <1>3, <2>1 DEF CMini
  <2>2. ASSUME NEW x \in CMessage \ MiniWord, m.wire = Append(n.wire, x)
        PROVE  CMini(m)
    BY <1>1, <1>3, <2>2, MiniAppended
  <2> QED BY <2>1, <2>2
<1> QED BY <1>2, <1>4, CInvIs DEF CKeeps, Promised

LEMMA CWords ==
  /\ [type |-> "close"] \in CMessage \ MiniWord
  /\ \A on \in BOOLEAN : [type |-> "focus", on |-> on] \in CMessage \ MiniWord
  /\ KeyOf(Key) \subseteq CMessage \ MiniWord
  /\ \A b \in Button, down \in BOOLEAN :
       LET x == [type |-> "button", button |-> b, down |-> down]
       IN x \in CMessage \ MiniWord /\ x \in Pressing /\ x.down = down /\ x.button = b
<1>0. \A x \in MiniWord : x.type = "mini"
  BY DEF MiniWord
<1>1. KeyOf(Key) \subseteq CMessage \ MiniWord
  BY <1>0 DEF CMessage, KeyWord, KeyOf
<1>2. [type |-> "close"] \in CMessage \ MiniWord
  BY <1>0 DEF CMessage, Word
<1>3. \A on \in BOOLEAN : [type |-> "focus", on |-> on] \in CMessage \ MiniWord
  BY <1>0 DEF CMessage, FocusWord
<1>4. \A b \in Button, down \in BOOLEAN :
        LET x == [type |-> "button", button |-> b, down |-> down]
        IN x \in CMessage \ MiniWord /\ x \in Pressing /\ x.down = down /\ x.button = b
  BY <1>0 DEF CMessage, Pressing
<1> QED BY <1>1, <1>2, <1>3, <1>4

LEMMA CButtonSent ==
  ASSUME NEW n \in State(CMessage), CInv(n), NEW b \in Button, NEW down \in BOOLEAN,
         NEW here, here = (IF down THEN n.sys.here \cup {b} ELSE n.sys.here \ {b}),
         NEW strayed, strayed = (IF down THEN n.sys.strayed \ {b} ELSE n.sys.strayed),
         NEW m, m = Tell([n EXCEPT !.sys = [n.sys EXCEPT !.here = here, !.strayed = strayed]],
                         [type |-> "button", button |-> b, down |-> down])
  PROVE  CKeeps(n, m)
<1> DEFINE x == [type |-> "button", button |-> b, down |-> down]
           s == [n.sys EXCEPT !.here = here, !.strayed = strayed]
           p == [n EXCEPT !.sys = s]
<1>1. x \in CMessage \ MiniWord /\ x \in Pressing /\ x.down = down /\ x.button = b
  BY CWords
<1>2. n.sys \in System
  BY DEF State
<1>3. s \in System /\ s.here = here /\ s.strayed = strayed /\ ButtonsOnly(n.sys, s)
  BY <1>2 DEF System, ButtonsOnly
<1>4. s.here = IF x.down THEN n.sys.here \cup {x.button} ELSE n.sys.here \ {x.button}
  BY <1>3
<1>5. m = Tell(p, x)
  OBVIOUS
<1>6. n.sys.strayed \ (IF x.down THEN {x.button} ELSE {}) \subseteq s.strayed
  BY <1>1, <1>3
<1> HIDE DEF x, s
<1>7. /\ p \in State(CMessage) /\ p.wire = n.wire
  BY <1>3 DEF State
<1>8. m = Tell([n EXCEPT !.sys = s], x) /\ x \in CMessage
  BY <1>1, <1>5
<1>9. /\ m \in State(CMessage) /\ m.w = n.w /\ m.told = n.told /\ m.requests = n.requests
      /\ SameSizes(n, m) /\ SameLooks(n, m)
      /\ CInput(n) /\ ButtonsArrive(n) => CInput(m) /\ ButtonsArrive(m)
      /\ WIn(n) /\ n.sys.strayed \subseteq s.strayed => WIn(m)
  BY <1>1, <1>3, <1>4, <1>6, <1>8, ButtonSent
<1> HIDE DEF p
<1>10. m.wire = Append(n.wire, x)
  <2> DEFINE q == Tell(p, x)
  <2>1. /\ q \in State(CMessage) /\ q.w = p.w /\ q.told = p.told /\ q.sys = p.sys
        /\ q.requests = p.requests /\ q.wire = Append(p.wire, x)
    BY <1>7, <1>8, MessageTold
  <2> QED BY <1>5, <1>7, <2>1
<1>11. CIn(m)
  BY <1>9, CInvIs DEF CIn
<1> QED BY <1>1, <1>9, <1>10, <1>11, CTells

\* What a key being typed puts on its way.
LEMMA TypedWire ==
  ASSUME NEW n \in State(CMessage), NEW k \in Key, NEW down \in BOOLEAN,
         NEW quiet \in BOOLEAN, NEW m, m = Typed(n, k, down, quiet)
  PROVE  m.wire = n.wire \/ \E x \in CMessage \ MiniWord : m.wire = Append(n.wire, x)
<1> DEFINE h == IF down THEN n.sys.held \cup {k} ELSE n.sys.held \ {k}
           f == IF ~down THEN n.sys.fresh \ {k}
                ELSE IF n.sys.focused /\ ~quiet THEN n.sys.fresh \cup {k} ELSE n.sys.fresh
           s == [n.sys EXCEPT !.held = h, !.fresh = f]
           p == [n EXCEPT !.sys = s]
           x == [type |-> "key", key |-> k, down |-> down, held |-> h]
<1>1. n.sys \in System
  BY DEF State
<1>2. h \in SUBSET Key /\ f \in SUBSET Key
  BY <1>1 DEF System
<1>3. x \in CMessage \ MiniWord
  BY <1>2, CWords DEF KeyOf
<1>4. m = IF n.sys.focused /\ ~quiet THEN Tell(p, x) ELSE p
  <2>1. [n EXCEPT !.sys.held = h,
                  !.sys.fresh = IF ~down THEN @ \ {k}
                                ELSE IF n.sys.focused /\ ~quiet THEN @ \cup {k} ELSE @] = p
    BY DEF State, System
  <2>2. CASE n.sys.focused /\ ~quiet
    BY <2>1, <2>2 DEF Typed
  <2>3. CASE ~(n.sys.focused /\ ~quiet)
    BY <2>1, <2>3 DEF Typed
  <2> QED BY <2>2, <2>3
<1> HIDE DEF h, f
<1>5. s \in System
  BY <1>1, <1>2 DEF System
<1> HIDE DEF s, x
<1>6. p \in State(CMessage) /\ p.wire = n.wire
  BY <1>5 DEF State
<1> HIDE DEF p
<1> DEFINE q == Tell(p, x)
<1>7. /\ q \in State(CMessage) /\ q.w = p.w /\ q.told = p.told /\ q.sys = p.sys
      /\ q.requests = p.requests /\ q.wire = Append(p.wire, x)
  BY <1>3, <1>6, MessageTold
<1> QED BY <1>3, <1>4, <1>6, <1>7

\* A key AppKit keeps to itself.
LEMMA CTypedQuietly ==
  ASSUME NEW n \in State(CMessage), CInv(n), NEW k \in Key \ Modifier, NEW down \in BOOLEAN,
         NEW quiet \in BOOLEAN, quiet, n.sys.focused,
         NEW m, m = CTyped(n, k, down, quiet)
  PROVE  CKeeps(n, m)
<1> DEFINE h == IF down THEN n.sys.held \cup {k} ELSE n.sys.held \ {k}
           f == IF down THEN n.sys.fresh ELSE n.sys.fresh \ {k}
           c == IF down THEN n.sys.crossed ELSE n.sys.crossed \cup {k}
           s == [n.sys EXCEPT !.held = h, !.fresh = f, !.crossed = c]
           p == [n EXCEPT !.sys = s]
<1>1. n.sys \in System /\ n.w \in Record
  BY DEF State
<1>2. h \in SUBSET Key /\ f \in SUBSET Key /\ c \in SUBSET Key
  BY <1>1 DEF System
<1>3. CIn(n) /\ FocusArrives(n) /\ KeysExpire(n) /\ KeysArrive(n, Key \ Toggled)
      /\ FreshArrive(n, Key \ Toggled) /\ TakeTurns(n) /\ ButtonsArrive(n)
  BY CInvIs DEF CIn, CInput
<1>4. m = p
  <2> DEFINE t == Typed(n, k, down, quiet)
             u == [n EXCEPT !.sys = [n.sys EXCEPT !.held = h, !.fresh = f]]
  <2>1. t = u
    <3>1. [n EXCEPT !.sys.held = h,
                    !.sys.fresh = IF ~down THEN @ \ {k}
                                  ELSE IF n.sys.focused /\ ~quiet THEN @ \cup {k} ELSE @] = u
      BY DEF State, System
    <3> QED BY <3>1 DEF Typed
  <2>2. CASE down
    <3>1. m = t
      BY <2>2 DEF CTyped
    <3>2. c = n.sys.crossed
      BY <2>2
    <3> HIDE DEF h, f, c
    <3>3. s = [n.sys EXCEPT !.held = h, !.fresh = f]
      BY <1>1, <3>2 DEF System
    <3> QED BY <2>1, <3>1, <3>3
  <2>3. CASE ~down
    <3>1. m = [t EXCEPT !.sys.crossed = @ \cup {k}]
      BY <2>3 DEF CTyped
    <3>2. c = n.sys.crossed \cup {k}
      BY <2>3
    <3> HIDE DEF h, f, c
    <3>3. [u EXCEPT !.sys.crossed = @ \cup {k}] = p
      BY <1>1, <3>2 DEF State, System
    <3> QED BY <2>1, <3>1, <3>3
  <2> QED BY <2>2, <2>3
<1>5. /\ f \subseteq n.sys.fresh /\ n.sys.crossed \subseteq c
      /\ (n.sys.fresh \subseteq n.sys.held => f \subseteq h)
      /\ \A j \in Key : j # k => (j \in h <=> j \in n.sys.held)
      /\ k \in h \/ k \in c
  BY <1>1 DEF System
<1> HIDE DEF h, f, c
<1>6. /\ s \in System /\ s.held = h /\ s.fresh = f /\ s.focused = n.sys.focused
      /\ s.odd = n.sys.odd /\ s.crossed = c
      /\ s.size = n.sys.size /\ s.scale = n.sys.scale /\ s.shown = n.sys.shown
      /\ s.mini = n.sys.mini /\ s.zoomed = n.sys.zoomed /\ s.full = n.sys.full
      /\ s.refused = n.sys.refused /\ s.here = n.sys.here /\ s.strayed = n.sys.strayed
      /\ s.capture = n.sys.capture
  BY <1>1, <1>2 DEF System
<1> HIDE DEF s
<1>7. /\ p \in State(CMessage) /\ p.w = n.w /\ p.told = n.told /\ p.sys = s
      /\ p.wire = n.wire /\ p.requests = n.requests
  BY <1>6 DEF State
<1> HIDE DEF p
<1>8. /\ m.wire = n.wire /\ m.w = n.w /\ m.sys.focused = n.sys.focused
      /\ m.sys.fresh = f /\ m.sys.held = h
      /\ m.sys.odd = n.sys.odd /\ m.sys.crossed = c
      /\ m.sys.here = n.sys.here /\ m.sys.strayed = n.sys.strayed
  BY <1>4, <1>6, <1>7
<1>9. FocusArrives(m)
  BY <1>3, <1>5, <1>8 DEF FocusArrives
<1>10. KeysExpire(m)
  <2>1. KeyOf(Key \ c) \subseteq KeyOf(Key \ n.sys.crossed)
    BY <1>5 DEF KeyOf
  <2> QED BY <1>3, <1>5, <1>8, <2>1 DEF KeysExpire
<1>11. KeysArrive(m, Key \ Toggled)
  BY <1>3, <1>5, <1>8 DEF KeysArrive
<1>12. FreshArrive(m, Key \ Toggled)
  BY <1>3, <1>5, <1>8 DEF FreshArrive
<1>13. TakeTurns(m)
  <2> SUFFICES ASSUME m.sys.focused, NEW j \in Toggled \ (m.sys.odd \cup m.sys.crossed)
               PROVE  Turns(Mine(m, j), m.wire, Believed(m, j), j \in m.sys.held)
    BY DEF TakeTurns
  <2>1. j \in Key /\ j # k /\ j \in Toggled \ (n.sys.odd \cup n.sys.crossed)
    BY <1>5, <1>8, NativeAssumption DEF Toggled
  <2>2. Turns(Mine(n, j), n.wire, Believed(n, j), j \in n.sys.held)
    BY <1>3, <1>8, <2>1 DEF TakeTurns
  <2>3. Mine(m, j) = Mine(n, j) /\ Believed(m, j) = Believed(n, j)
    BY <1>8 DEF Mine, Believed
  <2>4. j \in m.sys.held <=> j \in n.sys.held
    <3>1. \A i \in Key : i # k => (i \in h <=> i \in n.sys.held)
      BY <1>5
    <3>2. m.sys.held = h
      BY <1>8
    <3> QED BY ONLY <2>1, <3>1, <3>2, Zenon
  <2>5. (j \in m.sys.held) = (j \in n.sys.held)
    BY ONLY <2>4
  <2>6. m.wire = n.wire
    BY <1>8
  <2> QED BY ONLY <2>2, <2>3, <2>5, <2>6
<1>14. ButtonsArrive(m)
  BY <1>3, <1>8 DEF ButtonsArrive
<1>15. CIn(m)
  BY <1>9, <1>10, <1>11, <1>12, <1>13, <1>14 DEF CIn, CInput
<1>16. /\ m \in State(CMessage) /\ m.told = n.told /\ m.requests = n.requests
       /\ SameSizes(n, m) /\ SameLooks(n, m)
  BY <1>4, <1>6, <1>7 DEF SameSizes, SameLooks
<1> QED BY <1>8, <1>15, <1>16, CTells

LEMMA CTypedKeeps ==
  ASSUME NEW n \in State(CMessage), CInv(n), NEW k \in Key, NEW down \in BOOLEAN,
         down <=> k \notin n.sys.held, NEW quiet \in BOOLEAN, quiet => k \notin Modifier,
         NEW l, l = CTyped(n, k, down, quiet)
  PROVE  CKeeps(n, l)
<1> DEFINE m == Typed(n, k, down, quiet)
<1>0. ~quiet \/ ~n.sys.focused => l = m
  BY DEF CTyped
<1>a. m = Typed(n, k, down, quiet)
  OBVIOUS
<1> HIDE DEF m
<1>1. CIn(n) /\ FocusArrives(n) /\ KeysExpire(n)
  BY CInvIs DEF CIn, CInput
<1>2. m.wire = n.wire \/ \E x \in CMessage \ MiniWord : m.wire = Append(n.wire, x)
  BY <1>a, TypedWire
<1>3. CASE ~n.sys.focused
  <2>1. /\ m \in State(CMessage) /\ m.w = n.w /\ m.told = n.told /\ m.requests = n.requests
        /\ SameSizes(n, m) /\ SameLooks(n, m)
        /\ WIn(n) => WIn(m)
        /\ CInput(n) /\ ButtonsArrive(n) => CInput(m) /\ ButtonsArrive(m)
    BY <1>a, <1>1, <1>3, TypedElsewhere
  <2>2. CIn(m)
    BY <1>1, <2>1 DEF CIn
  <2>3. CKeeps(n, m)
    BY <1>2, <2>1, <2>2, CTells
  <2> QED BY <1>0, <1>3, <2>3
<1>4. CASE n.sys.focused /\ ~quiet
  <2>1. KeyOf(Key) \subseteq CMessage
    BY CWords
  <2>2. /\ m \in State(CMessage) /\ m.w = n.w /\ m.told = n.told /\ m.requests = n.requests
        /\ SameSizes(n, m) /\ SameLooks(n, m)
        /\ (down => k \notin n.sys.held)
           /\ (k \in Shift /\ ~down => n.sys.held \cap Shift = {k})
           /\ WIn(n)
             => WIn(m)
        /\ (down <=> k \notin n.sys.held) /\ CInput(n) /\ ButtonsArrive(n)
             => CInput(m) /\ ButtonsArrive(m)
    BY <1>a, <1>1, <1>4, <2>1, TypedTold
  <2>3. CIn(m)
    BY <1>1, <2>2 DEF CIn
  <2>4. CKeeps(n, m)
    BY <1>2, <2>2, <2>3, CTells
  <2> QED BY <1>0, <1>4, <2>4
<1>5. CASE n.sys.focused /\ quiet
  <2>1. k \in Key \ Modifier
    BY <1>5
  <2> QED BY <1>5, <2>1, CTypedQuietly
<1> QED BY <1>3, <1>4, <1>5

LEMMA CUserStep ==
  ASSUME Now \in State(CMessage), CInv(Now), CUser
  PROVE  CKeeps(Now, Now')
<1> DEFINE n == Now
<1>0. n.sys = sys /\ sys \in System
  BY DEF Now, State
<1> HIDE DEF n
<1>a. n \in State(CMessage) /\ CInv(n) /\ CIn(n) /\ FocusArrives(n) /\ KeysExpire(n)
  BY CInvIs DEF n, CIn, CInput
<1>1. ASSUME NEW m, CKeeps(n, m), Becomes(m)
      PROVE  CKeeps(Now, Now')
  <2>1. Now' = m
    BY <1>1, BecomesNow DEF CKeeps
  <2> QED BY <1>1, <2>1 DEF n
<1>2. ASSUME NEW z \in Size,
             Becomes(CResized(n, [n.sys EXCEPT !.normal = z, !.zoomed = FALSE]))
      PROVE  CKeeps(Now, Now')
  <2> DEFINE s == [n.sys EXCEPT !.normal = z, !.zoomed = FALSE]
             m == CResized(n, s)
  <2>1. z \in Nat
    BY NativeAssumption
  <2>2. /\ s \in System /\ SameHands(n.sys, s) /\ s.size = n.sys.size
        /\ s.scale = n.sys.scale /\ s.mini = n.sys.mini /\ s.full = n.sys.full
    BY <1>0, <2>1 DEF System, SameHands
  <2>3. Becomes(m)
    BY <1>2
  <2> HIDE DEF s
  <2>4. m = CResized(n, s)
    OBVIOUS
  <2> HIDE DEF m
  <2>5. CStill(n, m)
    BY ONLY <1>a, <2>2, <2>4, CResizedStands
  <2> QED BY <1>1, <2>3, <2>5, CStillKeeps
<1>3. ASSUME NEW c \in Scale, Becomes(CRescaled(n, c))
      PROVE  CKeeps(Now, Now')
  <2>1. c \in Nat \ {0}
    BY NativeAssumption
  <2>2. CStill(n, CRescaled(n, c))
    BY <1>a, <2>1, CRescaledStands
  <2> QED BY <1>1, <1>3, <2>2, CStillKeeps
<1>4. ASSUME Becomes(Tell(n, [type |-> "close"]))
      PROVE  CKeeps(Now, Now')
  <2> DEFINE x == [type |-> "close"]
             m == Tell(n, x)
  <2>1. x \in CMessage \ MiniWord /\ x.type \notin {"focus", "key", "button"}
    BY CWords
  <2> HIDE DEF x
  <2>2. m = Tell(n, x)
    OBVIOUS
  <2> HIDE DEF m
  <2>3. /\ m \in State(CMessage) /\ m.w = n.w /\ m.told = n.told /\ m.sys = n.sys
        /\ m.requests = n.requests /\ m.wire = Append(n.wire, x)
        /\ WIn(n) => WIn(m)
        /\ CInput(n) /\ ButtonsArrive(n) => CInput(m) /\ ButtonsArrive(m)
    BY <1>a, <2>1, <2>2, OtherTold
  <2>4. SameSizes(n, m) /\ SameLooks(n, m)
    BY <2>3 DEF SameSizes, SameLooks
  <2>5. CIn(m)
    BY <1>a, <2>3 DEF CIn
  <2>6. CKeeps(n, m)
    BY <1>a, <2>1, <2>3, <2>4, <2>5, CTells
  <2> QED BY <1>1, <1>4, <2>6 DEF m, x
<1>5. ASSUME NEW on \in BOOLEAN, on # n.sys.focused,
             Becomes(Tell(Focused(n, on), [type |-> "focus", on |-> on]))
      PROVE  CKeeps(Now, Now')
  <2> DEFINE x == [type |-> "focus", on |-> on]
             p == Focused(n, on)
             m == Tell(p, x)
  <2>1. x \in CMessage \ MiniWord /\ x = [type |-> "focus", on |-> on] /\ x \in CMessage
    BY CWords
  <2>a. p \in State(CMessage) /\ p.wire = n.wire
    <3> DEFINE s == [n.sys EXCEPT !.focused = on, !.fresh = {},
                                  !.odd = IF on THEN n.sys.held \cap Modifier ELSE {},
                                  !.crossed = IF on THEN n.sys.crossed ELSE {}]
    <3>1. s \in System
      BY <1>0 DEF System
    <3>2. p = [n EXCEPT !.sys = s]
      BY <1>a DEF Focused, State
    <3> HIDE DEF s, p
    <3> QED BY <1>a, <3>1, <3>2 DEF State
  <2> HIDE DEF x
  <2>2. m = Tell(Focused(n, on), x) /\ m = Tell(p, x)
    OBVIOUS
  <2>3. n.sys.focused = ~on
    BY <1>0, <1>5 DEF System
  <2>b. m.wire = Append(n.wire, x)
    <3> HIDE DEF p
    <3>1. /\ m \in State(CMessage) /\ m.w = p.w /\ m.told = p.told /\ m.sys = p.sys
          /\ m.requests = p.requests /\ m.wire = Append(p.wire, x)
      BY <2>1, <2>a, MessageTold
    <3> QED BY <2>a, <3>1
  <2> HIDE DEF m
  <2>5. /\ m \in State(CMessage) /\ m.w = n.w /\ m.told = n.told /\ m.requests = n.requests
        /\ SameSizes(n, m) /\ SameLooks(n, m)
        /\ WIn(n) => WIn(m)
        /\ CInput(n) /\ ButtonsArrive(n) => CInput(m) /\ ButtonsArrive(m)
    BY <1>a, <2>1, <2>2, <2>3, FocusSent
  <2>6. CIn(m)
    BY <1>a, <2>5 DEF CIn
  <2>7. CKeeps(n, m)
    BY <1>a, <2>1, <2>b, <2>5, <2>6, CTells
  <2> QED BY <1>1, <1>5, <2>7 DEF m, x
<1>6. ASSUME NEW k \in Key, NEW down \in BOOLEAN, down <=> k \notin n.sys.held,
             NEW quiet \in BOOLEAN, quiet => k \notin Modifier,
             Becomes(CTyped(n, k, down, quiet))
      PROVE  CKeeps(Now, Now')
  <2> DEFINE m == CTyped(n, k, down, quiet)
  <2>1. m = CTyped(n, k, down, quiet)
    OBVIOUS
  <2> HIDE DEF m
  <2>2. CKeeps(n, m)
    BY <1>a, <1>6, <2>1, CTypedKeeps
  <2> QED BY <1>1, <1>6, <2>2 DEF m
<1>7. ASSUME NEW b \in Button,
             Becomes(Tell([n EXCEPT !.sys.here = @ \cup {b}, !.sys.strayed = @ \ {b}],
                          [type |-> "button", button |-> b, down |-> TRUE]))
      PROVE  CKeeps(Now, Now')
  <2> DEFINE down == TRUE
             here == n.sys.here \cup {b}
             strayed == n.sys.strayed \ {b}
             s == [n.sys EXCEPT !.here = here, !.strayed = strayed]
             m == Tell([n EXCEPT !.sys = s], [type |-> "button", button |-> b, down |-> down])
  <2>1. [n EXCEPT !.sys.here = @ \cup {b}, !.sys.strayed = @ \ {b}] = [n EXCEPT !.sys = s]
    BY <1>0, <1>a DEF State, System
  <2>2. Becomes(m)
    BY <1>7, <2>1
  <2>3. /\ down \in BOOLEAN
        /\ here = (IF down THEN n.sys.here \cup {b} ELSE n.sys.here \ {b})
        /\ strayed = (IF down THEN n.sys.strayed \ {b} ELSE n.sys.strayed)
    OBVIOUS
  <2> HIDE DEF here, strayed, down
  <2>4. m = Tell([n EXCEPT !.sys = [n.sys EXCEPT !.here = here, !.strayed = strayed]],
                 [type |-> "button", button |-> b, down |-> down])
    OBVIOUS
  <2> HIDE DEF m
  <2>5. CKeeps(n, m)
    BY <1>a, <2>3, <2>4, CButtonSent
  <2> QED BY <1>1, <2>2, <2>5
<1>8. ASSUME NEW b \in Button,
             Becomes(Tell([n EXCEPT !.sys.here = @ \ {b}],
                          [type |-> "button", button |-> b, down |-> FALSE]))
      PROVE  CKeeps(Now, Now')
  <2> DEFINE down == FALSE
             here == n.sys.here \ {b}
             strayed == n.sys.strayed
             s == [n.sys EXCEPT !.here = here, !.strayed = strayed]
             m == Tell([n EXCEPT !.sys = s], [type |-> "button", button |-> b, down |-> down])
  <2>1. [n EXCEPT !.sys.here = @ \ {b}] = [n EXCEPT !.sys = s]
    <3>1. s = [n.sys EXCEPT !.here = here]
      BY <1>0 DEF System
    <3> QED BY <1>a, <3>1 DEF State
  <2>2. Becomes(m)
    BY <1>8, <2>1
  <2>3. /\ down \in BOOLEAN
        /\ here = (IF down THEN n.sys.here \cup {b} ELSE n.sys.here \ {b})
        /\ strayed = (IF down THEN n.sys.strayed \ {b} ELSE n.sys.strayed)
    OBVIOUS
  <2> HIDE DEF here, strayed, down
  <2>4. m = Tell([n EXCEPT !.sys = [n.sys EXCEPT !.here = here, !.strayed = strayed]],
                 [type |-> "button", button |-> b, down |-> down])
    OBVIOUS
  <2> HIDE DEF m
  <2>5. CKeeps(n, m)
    BY <1>a, <2>3, <2>4, CButtonSent
  <2> QED BY <1>1, <2>2, <2>5
<1>9. sys.here \subseteq Button /\ sys.held \subseteq Key
  BY <1>0 DEF System
<1>10. ASSUME NEW k \in Key \ n.sys.held, NEW quiet \in BOOLEAN, quiet => CWithheld(k),
              Becomes(CTyped(n, k, TRUE, quiet))
       PROVE  CKeeps(Now, Now')
  <2> DEFINE down == TRUE
  <2>1. /\ down \in BOOLEAN /\ (quiet => k \notin Modifier) /\ k \in Key
        /\ (down <=> k \notin n.sys.held) /\ Becomes(CTyped(n, k, down, quiet))
    BY <1>10 DEF CWithheld
  <2> HIDE DEF down
  <2> QED BY <1>6, <2>1
<1>11. ASSUME NEW k \in n.sys.held, Becomes(CTyped(n, k, FALSE, CWithheld(k)))
       PROVE  CKeeps(Now, Now')
  <2> DEFINE down == FALSE
             quiet == CWithheld(k)
  <2>1. /\ down \in BOOLEAN /\ quiet \in BOOLEAN /\ (quiet => k \notin Modifier) /\ k \in Key
        /\ (down <=> k \notin n.sys.held) /\ Becomes(CTyped(n, k, down, quiet))
    BY <1>0, <1>9, <1>11 DEF CWithheld
  <2> HIDE DEF down, quiet
  <2> QED BY <1>6, <2>1
<1> QED BY <1>0, <1>2, <1>3, <1>4, <1>5, <1>7, <1>8, <1>9, <1>10, <1>11 DEF CUser, n

-----------------------------------------------------------------------------
(* Cocoa: nack__cocoa_drain *)

LEMMA MiniTail ==
  ASSUME NEW n \in State(CMessage), CMini(n), n.wire # << >>, NEW m, m.wire = Tail(n.wire),
         m.sys.mini = n.sys.mini,
         m.w.minimized = IF Head(n.wire) \in MiniWord THEN Head(n.wire).on
                         ELSE n.w.minimized
  PROVE  CMini(m)
<1> DEFINE s == n.wire
           t == m.wire
<1>1. s \in Seq(CMessage) /\ s # << >> /\ t = Tail(s)
  BY DEF State
<1>2. /\ 1 \in 1..Len(s) /\ Head(s) = s[1]
      /\ \A i \in 1..Len(t) : i + 1 \in 1..Len(s) /\ t[i] = s[i + 1]
  BY <1>1, TailAt
<1>3. \A i : Last(t, MiniWord, i) => Last(s, MiniWord, i + 1)
  BY <1>1, TailKind, Zenon
<1>4. None(s, MiniWord) <=> (s[1] \notin MiniWord /\ None(t, MiniWord))
  BY <1>1, TailKind, Zenon
<1>5. None(t, MiniWord) /\ s[1] \in MiniWord => Last(s, MiniWord, 1)
  BY <1>1, TailKind, Zenon
<1>6. ASSUME NEW i \in 1..Len(t), Last(t, MiniWord, i) PROVE t[i].on = m.sys.mini
  <2>1. Last(s, MiniWord, i + 1) /\ i + 1 \in 1..Len(s) /\ t[i] = s[i + 1]
    BY <1>2, <1>3, <1>6
  <2> QED BY <2>1 DEF CMini
<1>7. ASSUME None(t, MiniWord) PROVE m.w.minimized = m.sys.mini
  <2>1. CASE Head(s) \in MiniWord
    BY <1>2, <1>5, <1>7, <2>1 DEF CMini
  <2>2. CASE Head(s) \notin MiniWord
    BY <1>2, <1>4, <1>7, <2>2 DEF CMini
  <2> QED BY <2>1, <2>2
<1> QED BY <1>6, <1>7 DEF CMini

\* What a message does that is about neither the sizes nor full screen.
LEMMA CReads ==
  ASSUME NEW n \in State(CMessage), CInv(n), n.wire # << >>, NEW m \in State(CMessage),
         m.wire = Tail(n.wire), m.told = n.told, m.sys = n.sys, m.requests = n.requests,
         m.w.live = n.w.live, m.w.size = n.w.size, m.w.fb = n.w.fb,
         m.w.fullscreen = n.w.fullscreen,
         m.w.minimized = (IF Head(n.wire) \in MiniWord THEN Head(n.wire).on
                          ELSE n.w.minimized),
         CIn(m), Promised(n, m)
  PROVE  CKeeps(n, m)
<1>1. CSizes(n) /\ CFull(n) /\ CMini(n)
  BY CInvIs
<1>2. CSizes(m) /\ CFull(m)
  BY <1>1 DEF CSizes, Reported, CFull
<1>3. CMini(m)
  BY <1>1, MiniTail
<1> QED BY <1>2, <1>3, CInvIs DEF CKeeps

LEMMA CHandlesFocus ==
  ASSUME NEW n \in State(CMessage), CInv(n), n.wire # << >>, NEW x, x = Head(n.wire),
         x \in FocusWord, NEW m,
         m = IF x.on /\ ~Heard(n).sys.focused THEN Heard(n) ELSE EmitFocus(Heard(n), x.on)
  PROVE  CKeeps(n, m)
<1>1. CIn(n) /\ FocusArrives(n) /\ KeysExpire(n)
  BY CInvIs DEF CIn, CInput
<1>2. /\ m \in State(CMessage) /\ m.told = n.told /\ m.sys = n.sys
      /\ m.requests = n.requests
      /\ m.w.live = n.w.live /\ SameSizes(n, m) /\ SameLooks(n, m) /\ Promised(n, m)
      /\ m.wire = Tail(n.wire)
      /\ WIn(n) => WIn(m)
      /\ CInput(n) /\ ButtonsArrive(n) => CInput(m) /\ ButtonsArrive(m)
  BY <1>1, FocusHandled
<1>3. CIn(m)
  BY <1>1, <1>2 DEF CIn
<1>4. Head(n.wire) \notin MiniWord
  BY DEF FocusWord, MiniWord
<1>5. /\ m.w.size = n.w.size /\ m.w.fb = n.w.fb /\ m.w.fullscreen = n.w.fullscreen
      /\ m.w.minimized = n.w.minimized
  BY <1>2 DEF SameSizes, SameLooks
<1> QED BY <1>2, <1>3, <1>4, <1>5, CReads

\* windowShouldClose, and the end of an animation to or from the Dock.
LEMMA CHandlesOther ==
  ASSUME NEW n \in State(CMessage), CInv(n), n.wire # << >>, NEW x, x = Head(n.wire),
         x \in Word({"close"}) \/ x \in MiniWord, NEW m,
         m = IF x \in MiniWord THEN [Heard(n) EXCEPT !.w.minimized = x.on]
             ELSE EmitClose(Heard(n))
  PROVE  CKeeps(n, m)
<1> DEFINE h == Heard(n)
           v == IF x \in MiniWord THEN [n.w EXCEPT !.minimized = x.on]
                ELSE [n.w EXCEPT !.closing = TRUE]
<1>1. /\ h \in State(CMessage) /\ h.w = n.w /\ h.told = n.told /\ h.sys = n.sys
      /\ h.requests = n.requests /\ h.wire = Tail(n.wire)
      /\ Head(n.wire) \in CMessage
  BY MessageHeard
<1> HIDE DEF h
<1>2. m = [h EXCEPT !.w = v]
  BY <1>1 DEF EmitClose, h
<1>3. n.w \in Record
  BY DEF State
<1>4. x \in MiniWord => x.on \in BOOLEAN
  BY DEF MiniWord
<1>5. OtherFlags(n.w, v)
  BY <1>3, <1>4 DEF Record, OtherFlags
<1>6. v.minimized = IF x \in MiniWord THEN x.on ELSE n.w.minimized
  BY <1>3 DEF Record
<1> HIDE DEF v
<1>7. m = WithRecord(n, v)
  BY <1>2 DEF h, WithRecord
<1>8. /\ x.type \notin {"focus", "key", "button"} /\ x = Head(n.wire)
      /\ n \in State(CMessage) /\ n.wire # << >>
  BY DEF Word, MiniWord
<1>9. /\ m \in State(CMessage) /\ m.w = v /\ m.told = n.told /\ m.sys = n.sys
      /\ m.requests = n.requests /\ m.wire = Tail(n.wire)
      /\ v.live = n.w.live /\ v.focused = n.w.focused /\ v.keys = n.w.keys
      /\ v.size = n.w.size /\ v.fb = n.w.fb /\ v.maximized = n.w.maximized
      /\ v.fullscreen = n.w.fullscreen
      /\ Promised(n, m)
      /\ WIn(n) => WIn(m)
      /\ CInput(n) /\ ButtonsArrive(n) => CInput(m) /\ ButtonsArrive(m)
  BY ONLY <1>5, <1>7, <1>8, OtherHandled
<1>10. CIn(m)
  BY <1>9, CInvIs DEF CIn
<1> QED BY <1>6, <1>9, <1>10, CReads

LEMMA CHandlesButton ==
  ASSUME NEW n \in State(CMessage), CInv(n), n.wire # << >>, NEW x, x = Head(n.wire),
         x \in Pressing, NEW m, m = EmitButton(Heard(n), x.button, x.down)
  PROVE  CKeeps(n, m)
<1> DEFINE h == Heard(n)
           c == x.button
           B == IF x.down THEN n.w.buttons \cup {c} ELSE n.w.buttons \ {c}
           v == [n.w EXCEPT !.buttons = B]
           s == n.wire
           t == m.wire
<1>1. /\ h \in State(CMessage) /\ h.w = n.w /\ h.told = n.told /\ h.sys = n.sys
      /\ h.requests = n.requests /\ h.wire = Tail(n.wire)
      /\ Head(n.wire) \in CMessage
  BY MessageHeard
<1> HIDE DEF h
<1>2. m = [h EXCEPT !.w = v]
  BY <1>1 DEF EmitButton, h
<1>3. n.w \in Record /\ n.wire \in Seq(CMessage)
  BY DEF State
<1>4. c \in Button /\ x.down \in BOOLEAN /\ x \notin Typing
  BY PressingKinds, ByType
<1>5. B \in SUBSET Button
  BY <1>3, <1>4 DEF Record
<1> HIDE DEF B
<1>6. /\ v \in Record /\ v.live = n.w.live /\ v.focused = n.w.focused /\ v.keys = n.w.keys
      /\ v.size = n.w.size /\ v.fb = n.w.fb /\ v.minimized = n.w.minimized
      /\ v.fullscreen = n.w.fullscreen /\ v.buttons = B
  BY <1>3, <1>5 DEF Record
<1> HIDE DEF v
<1>7. /\ m \in State(CMessage) /\ m.w = v /\ m.told = n.told /\ m.sys = n.sys
      /\ m.requests = n.requests /\ m.wire = Tail(n.wire)
  BY <1>1, <1>2, <1>6 DEF State
<1>8. CIn(n)
  BY CInvIs
<1>9. CInput(m)
  <2>1. Shifted(n.wire, m.wire, Typing, 1)
    BY <1>3, <1>4, <1>7, ShiftedTail
  <2>2. SameKeyboard(n, m)
    BY <1>6, <1>7 DEF SameKeyboard
  <2>3. (WInput(n) => WInput(m)) /\ (CInput(n) => CInput(m))
    BY <1>7, <2>1, <2>2, KeyboardFramed
  <2> QED BY <1>8, <2>3 DEF CIn
<1>10. s \in Seq(CMessage) /\ s # << >> /\ Head(s) \in Pressing /\ t = Tail(s)
  BY <1>3, <1>7
<1>11. ASSUME NEW b \in Button
       PROVE  /\ \A i \in 1..Len(t) : Last(t, ButtonOf(b), i) =>
                    i + 1 \in 1..Len(s) /\ Last(s, ButtonOf(b), i + 1) /\ t[i] = s[i + 1]
              /\ b = Head(s).button /\ None(t, ButtonOf(b)) => Last(s, ButtonOf(b), 1)
              /\ b # Head(s).button => (None(s, ButtonOf(b)) <=> None(t, ButtonOf(b)))
              /\ 1 \in 1..Len(s) /\ Head(s) = s[1]
  <2> HIDE DEF s, t
  <2>1. \A i \in 1..Len(t) : Last(t, ButtonOf(b), i) =>
          i + 1 \in 1..Len(s) /\ Last(s, ButtonOf(b), i + 1) /\ t[i] = s[i + 1]
    BY <1>10, ButtonTail, Zenon
  <2>2. b = Head(s).button /\ None(t, ButtonOf(b)) => Last(s, ButtonOf(b), 1)
    BY <1>10, ButtonTail, Zenon
  <2>3. ASSUME b # Head(s).button PROVE None(s, ButtonOf(b)) <=> None(t, ButtonOf(b))
    <3>1. Head(s) \notin ButtonOf(b)
      BY <1>10, <2>3, PressingKinds
    <3>2. None(s, ButtonOf(b)) <=> (s[1] \notin ButtonOf(b) /\ None(t, ButtonOf(b)))
      BY <1>10, TailKind, Zenon
    <3> QED BY <1>10, <3>1, <3>2
  <2>4. 1 \in 1..Len(s) /\ Head(s) = s[1]
    BY <1>10
  <2> QED BY <2>1, <2>2, <2>3, <2>4
<1>12. /\ \A b \in Button :
            /\ \A i \in 1..Len(s) :
                 Last(s, ButtonOf(b), i) /\ s[i].down => b \in n.sys.here \cup n.sys.strayed
            /\ None(s, ButtonOf(b)) /\ b \in n.w.buttons
                 => b \in n.sys.here \cup n.sys.strayed
  BY <1>8 DEF CIn, ButtonsArrive
<1>13. Head(s) = x
  OBVIOUS
<1> HIDE DEF s, t
<1>14. ASSUME NEW b \in Button, NEW i \in 1..Len(t), Last(t, ButtonOf(b), i), t[i].down
       PROVE  b \in n.sys.here \cup n.sys.strayed
  BY <1>11, <1>12, <1>14
<1>15. ASSUME NEW b \in Button, None(t, ButtonOf(b)), b \in B
       PROVE  b \in n.sys.here \cup n.sys.strayed
  <2>1. CASE b = c
    <3>1. x.down
      BY <1>15, <2>1 DEF B
    <3>2. Last(s, ButtonOf(b), 1) /\ 1 \in 1..Len(s) /\ s[1] = x
      BY <1>11, <1>13, <1>15, <2>1
    <3> QED BY <1>12, <3>1, <3>2
  <2>2. CASE b # c
    <3>1. b \in n.w.buttons
      BY <1>15, <2>2 DEF B
    <3>2. None(s, ButtonOf(b))
      BY <1>11, <1>13, <1>15, <2>2
    <3> QED BY <1>12, <3>1, <3>2
  <2> QED BY <2>1, <2>2
<1>16. ButtonsArrive(m)
  BY <1>6, <1>7, <1>14, <1>15 DEF ButtonsArrive, t
<1>17. CIn(m) /\ Promised(n, m)
  BY <1>6, <1>7, <1>9, <1>16 DEF CIn, Promised
<1>18. Head(n.wire) \notin MiniWord
  BY DEF Pressing, MiniWord
<1> QED BY <1>6, <1>7, <1>17, <1>18, CReads

LEMMA CHandlesKey ==
  ASSUME NEW n \in State(CMessage), CInv(n), n.wire # << >>, NEW x, x = Head(n.wire),
         x \in KeyOf(Key), NEW m,
         m = IF x.key \in Modifier THEN CFlagsChanged(Heard(n), x) ELSE CKey(Heard(n), x)
  PROVE  CKeeps(n, m)
<1> DEFINE h == Heard(n)
           k == x.key
           down == IF k \in Toggled THEN k \notin n.w.keys ELSE x.down
           K == IF ~n.w.focused THEN n.w.keys
                ELSE IF down THEN n.w.keys \cup {k} ELSE n.w.keys \ {k}
           v == [h.w EXCEPT !.keys = K]
<1>1. /\ h \in State(CMessage) /\ h.w = n.w /\ h.told = n.told /\ h.sys = n.sys
      /\ h.requests = n.requests /\ h.wire = Tail(n.wire)
      /\ Head(n.wire) \in CMessage
  BY MessageHeard
<1>2. k \in Key /\ x.down \in BOOLEAN /\ down \in BOOLEAN
  BY DEF KeyOf
<1>3. n.w.keys \in SUBSET Key /\ n.w.focused \in BOOLEAN
  BY DEF State, Record
<1>4. K \in SUBSET Key /\ K \subseteq n.w.keys \cup {k} /\ (~n.w.focused => K = n.w.keys)
  BY <1>2, <1>3
<1>5. m = IF n.w.focused THEN EmitKey(h, k, down) ELSE h
  BY <1>1, NativeAssumption DEF CFlagsChanged, CKey, HasFocus, Toggled
<1> HIDE DEF down
<1>6. m = [h EXCEPT !.w = v]
  <2>1. CASE ~n.w.focused
    <3>1. m = h
      BY <1>5, <2>1
    <3>2. v = [h.w EXCEPT !.keys = h.w.keys]
      BY <1>1, <2>1
    <3> HIDE DEF h, v
    <3> QED BY <1>1, <3>1, <3>2, NothingChanged
  <2>2. CASE n.w.focused
    <3>1. m = [h EXCEPT !.w.keys = IF down THEN @ \cup {k} ELSE @ \ {k}]
      BY <1>5, <2>2 DEF EmitKey
    <3> HIDE DEF h
    <3> QED BY <1>1, <2>2, <3>1
  <2> QED BY <1>3, <2>1, <2>2
<1>7. m = WithKeys(n, K)
  BY <1>1, <1>6 DEF WithKeys
<1>8. Head(n.wire) \in KeyOf(Key) /\ Head(n.wire).key = k /\ Head(n.wire).down = x.down
  OBVIOUS
<1> HIDE DEF K, v
<1>9. CIn(n) /\ CInput(n)
  BY CInvIs DEF CIn
<1>10. /\ FocusArrives(n) /\ KeysExpire(n) /\ KeysArrive(n, Key \ Toggled)
       /\ FreshArrive(n, Key \ Toggled) /\ TakeTurns(n) /\ ButtonsArrive(n)
  BY <1>9 DEF CIn, CInput
<1>11. K \subseteq n.w.keys \cup {Head(n.wire).key}
  BY <1>4, <1>8
<1>12. n \in State(CMessage) /\ n.wire # << >>
  OBVIOUS
<1>13. /\ m \in State(CMessage) /\ m.told = n.told /\ m.sys = n.sys
       /\ m.requests = n.requests
       /\ m.w.live = n.w.live /\ SameSizes(n, m) /\ SameLooks(n, m)
       /\ m.w.keys = K /\ m.w.focused = n.w.focused
       /\ Reads(n, m) /\ Latches(n, m) /\ FocusArrives(m) /\ KeysExpire(m)
       /\ ButtonsArrive(n) => ButtonsArrive(m)
       /\ WButtonsArrive(n) => WButtonsArrive(m)
  BY ONLY <1>4, <1>7, <1>8, <1>10, <1>11, <1>12, KeysHandled
<1>14. AsSaid(n, m, Key \ Toggled)
  BY <1>8, <1>13 DEF AsSaid, K, down
<1>15. Toggles(n, m)
  <2>1. ASSUME NEW c \in Toggled, n.w.focused
        PROVE  (c \in K) = IF c = k THEN c \notin n.w.keys ELSE c \in n.w.keys
    BY <2>1 DEF K, down
  <2> QED BY <1>8, <1>13, <2>1 DEF Toggles
<1>16. FreshArrive(m, Key \ Toggled) /\ KeysArrive(m, Key \ Toggled)
  <2> DEFINE J == Key \ Toggled
  <2>1. J \in SUBSET Key /\ AsSaid(n, m, J) /\ FreshArrive(n, J) /\ KeysArrive(n, J)
    BY <1>10, <1>14
  <2> HIDE DEF J
  <2>2. FreshArrive(m, J) /\ KeysArrive(m, J)
    BY ONLY <1>10, <1>12, <1>13, <2>1, KeyReadArrives
  <2> QED BY <2>2 DEF J
<1>17. TakeTurns(m)
  BY ONLY <1>10, <1>12, <1>13, <1>15, KeyReadTurns
<1>18. CIn(m)
  BY <1>10, <1>13, <1>16, <1>17 DEF CIn, CInput
<1>19. Promised(n, m)
  <2>1. CASE K = n.w.keys
    BY <1>13, <2>1 DEF Promised
  <2>2. CASE n.w.focused /\ down
    BY <1>2, <1>13, <2>2 DEF Promised, K
  <2>3. CASE n.w.focused /\ ~down
    <3> DEFINE J == {k}
    <3>1. J \in SUBSET Key /\ m.w.keys = n.w.keys \ J
      BY <1>2, <1>13, <2>3 DEF K
    <3> QED BY <1>13, <2>3, <3>1 DEF Promised
  <2> QED BY <1>3, <1>4, <2>1, <2>2, <2>3
<1>20. Head(n.wire) \notin MiniWord
  BY DEF KeyOf, MiniWord
<1>21. /\ m.w.size = n.w.size /\ m.w.fb = n.w.fb /\ m.w.fullscreen = n.w.fullscreen
       /\ m.w.minimized = n.w.minimized /\ m.wire = Tail(n.wire)
  BY <1>13 DEF SameSizes, SameLooks, Reads
<1> QED BY <1>13, <1>18, <1>19, <1>20, <1>21, CReads

LEMMA CDispatchStep ==
  ASSUME Now \in State(CMessage), CInv(Now), CDispatch
  PROVE  CKeeps(Now, Now')
<1> DEFINE n == Now
           x == Head(wire)
           m == CHandle(Heard(n), x)
<1>1. n.wire = wire /\ n.wire # << >> /\ x = Head(n.wire) /\ n \in State(CMessage) /\ CInv(n)
  BY DEF Now, CDispatch
<1>2. Becomes(m)
  BY DEF CDispatch, Heard
<1>3. x \in CMessage
  <2>1. Head(n.wire) \in CMessage
    <3> HIDE DEF n
    <3> QED BY <1>1, MessageHeard
  <2> QED BY <1>1, <2>1
<1> HIDE DEF n, x
<1>4. \/ x \in Word({"close"}) /\ x.type = "close" /\ x \notin MiniWord
      \/ x \in MiniWord /\ x.type = "mini"
      \/ x \in FocusWord /\ x.type = "focus"
      \/ x \in KeyOf(Key) /\ x.type = "key"
      \/ x \in Pressing /\ x.type = "button"
  BY <1>3 DEF CMessage, Word, FocusWord, KeyWord, KeyOf, Pressing, MiniWord
<1>5. CKeeps(n, m)
  <2>1. CASE x \in Word({"close"}) /\ x.type = "close" /\ x \notin MiniWord
    <3>1. m = IF x \in MiniWord THEN [Heard(n) EXCEPT !.w.minimized = x.on]
              ELSE EmitClose(Heard(n))
      BY <2>1 DEF CHandle
    <3> QED BY <1>1, <2>1, <3>1, CHandlesOther
  <2>2. CASE x \in MiniWord /\ x.type = "mini"
    <3>1. m = IF x \in MiniWord THEN [Heard(n) EXCEPT !.w.minimized = x.on]
              ELSE EmitClose(Heard(n))
      BY <2>2 DEF CHandle
    <3> QED BY <1>1, <2>2, <3>1, CHandlesOther
  <2>3. CASE x \in FocusWord /\ x.type = "focus"
    <3>1. m = IF x.on /\ ~Heard(n).sys.focused THEN Heard(n) ELSE EmitFocus(Heard(n), x.on)
      BY <2>3 DEF CHandle
    <3> QED BY <1>1, <2>3, <3>1, CHandlesFocus
  <2>4. CASE x \in KeyOf(Key) /\ x.type = "key"
    <3>1. m = IF x.key \in Modifier THEN CFlagsChanged(Heard(n), x) ELSE CKey(Heard(n), x)
      BY <2>4 DEF CHandle
    <3> QED BY <1>1, <2>4, <3>1, CHandlesKey
  <2>5. CASE x \in Pressing /\ x.type = "button"
    <3>1. m = EmitButton(Heard(n), x.button, x.down)
      BY <2>5 DEF CHandle
    <3> QED BY <1>1, <2>5, <3>1, CHandlesButton
  <2> QED BY <1>4, <2>1, <2>2, <2>3, <2>4, <2>5
<1>6. Now' = m
  BY <1>2, <1>5, BecomesNow DEF CKeeps
<1> QED BY <1>5, <1>6 DEF n

-----------------------------------------------------------------------------
(* The invariant of the specification *)

Gone == /\ w = NoWindow /\ told = [size |-> Unsized, fb |-> Unsized]
        /\ sys = Unseen(Unsized, 1) /\ wire = << >> /\ requests = << >>

LEMMA GoneFits ==
  ASSUME Gone, NEW M
  PROVE  Now \in State(M) /\ ~w.live /\ w.keys = {} /\ ~w.focused /\ sys.full = "no"
<1>1. w \in Record /\ ~w.live /\ w.keys = {} /\ ~w.focused
  BY DEF Gone, NoWindow, Created, Record, Unsized
<1>2. told \in Report
  BY DEF Gone, Report, Unsized
<1>3. sys \in System /\ sys.full = "no"
  BY DEF Gone, Unseen, System, Unsized
<1>4. wire \in Seq(M) /\ requests \in Seq(Request)
  BY DEF Gone
<1> QED BY <1>1, <1>2, <1>3, <1>4 DEF Now, State

LEMMA GoneNext ==
  ASSUME Gone', NEW M
  PROVE  Now' \in State(M) /\ ~w'.live
<1>1. w' \in Record /\ ~w'.live
  BY DEF Gone, NoWindow, Created, Record, Unsized
<1>2. told' \in Report /\ sys' \in System /\ wire' \in Seq(M) /\ requests' \in Seq(Request)
  BY DEF Gone, Report, Unsized, Unseen, System
<1> QED BY <1>1, <1>2 DEF Now, State

LEMMA NativeInit ==
  ASSUME Init
  PROVE  NativeInv
<1>1. Gone /\ backend \in {"x11", "win32", "cocoa"}
  BY BackendsAssumption DEF Init, Gone
<1> QED BY <1>1, GoneFits DEF NativeInv, Gone

LEMMA StaysGone ==
  ASSUME ~w.live, Gone, Next
  PROVE  XOpen \/ WOpen \/ COpen
<1>1. wire = << >> /\ requests = << >> /\ sys.full = "no"
  BY GoneFits DEF Gone
<1>2. \A b : ~Move(b)
  BY DEF Move
<1>3. ~XCall /\ ~XUser /\ ~WCall /\ ~WUser /\ ~CCall /\ ~CUser
  BY <1>2 DEF XCall, XUser, WCall, WUser, CCall, CUser
<1>4. ~XServerTakes /\ ~XDispatch /\ ~WDispatch /\ ~CDispatch
  BY <1>1 DEF XServerTakes, XDispatch, WDispatch, CDispatch
<1>5. ~CTransition /\ ~Shut
  BY <1>1 DEF CTransition, Shut
<1> QED BY <1>3, <1>4, <1>5 DEF Next, XNext, WNext, CNext

\* What every step does to the window, its keyboard among the rest.
Carries ==
  \/ w.live /\ w'.live /\ Promised(Now, Now')
  \/ ~w.live /\ Unfolded(Now')
  \/ Gone'

LEMMA XStep ==
  ASSUME NativeInv, XNext
  PROVE  NativeInv' /\ Carries
<1>1. backend = "x11" /\ backend' = backend
  BY DEF XNext, XOpen, XCall, XUser, XServerTakes, XDispatch, Move, Step
<1>2. Now.w = w /\ (Now').w = w'
  BY DEF Now
<1>3. Message("x11") = XMessage
  BY DEF Message
<1>4. CASE ~w.live
  <2>1. XOpen
    BY <1>1, <1>4, StaysGone DEF NativeInv, Next, Gone, WOpen, COpen
  <2>2. Now' \in State(XMessage) /\ XInv(Now') /\ w'.live
    BY <2>1, XOpenStep
  <2>3. Unfolded(Now')
    BY <1>2, <2>2 DEF XInv, XCore, NoKeyboard, Unfolded
  <2> QED BY <1>1, <1>3, <1>4, <2>2, <2>3 DEF NativeInv, Carries
<1>5. CASE w.live
  <2>1. Now \in State(XMessage) /\ XInv(Now)
    BY <1>1, <1>3, <1>5 DEF NativeInv
  <2>2. Now' \in State(XMessage) /\ XInv(Now') /\ w'.live
    <3>1. ~XOpen
      BY <1>5 DEF XOpen
    <3> QED BY <1>5, <2>1, <3>1, XCallStep, XUserStep, XServerStep, XDispatchStep DEF XNext
  <2>3. Promised(Now, Now')
    BY <2>1, <2>2 DEF XInv, XCore, NoKeyboard, Promised
  <2> QED BY <1>1, <1>3, <1>5, <2>2, <2>3 DEF NativeInv, Carries
<1> QED BY <1>4, <1>5 DEF NativeInv, State, Record, Now

LEMMA WStep ==
  ASSUME NativeInv, WNext
  PROVE  NativeInv' /\ Carries
<1>1. backend = "win32" /\ backend' = backend
  BY DEF WNext, WOpen, WCall, WUser, WDispatch, Move, Step
<1>2. Now.w = w /\ (Now').w = w'
  BY DEF Now
<1>3. Message("win32") = WMessage
  BY DEF Message
<1>4. CASE ~w.live
  <2>1. WOpen
    BY <1>1, <1>4, StaysGone DEF NativeInv, Next, Gone, XOpen, COpen
  <2>2. Now' \in State(WMessage) /\ WInv(Now') /\ Unfolded(Now')
    BY <2>1, WOpenStep
  <2>3. w'.live
    BY <1>2, <2>2 DEF Unfolded
  <2> QED BY <1>1, <1>3, <1>4, <2>2, <2>3 DEF NativeInv, Carries
<1>5. CASE w.live
  <2>1. Now \in State(WMessage) /\ WInv(Now)
    BY <1>1, <1>3, <1>5 DEF NativeInv
  <2>2. WKeeps(Now, Now')
    <3>1. ~WOpen
      BY <1>5 DEF WOpen
    <3> QED BY <2>1, <3>1, WCallStep, WUserStep, WDispatchStep DEF WNext
  <2>3. Now' \in State(WMessage) /\ WInv(Now') /\ w'.live /\ Promised(Now, Now')
    BY <1>2, <1>5, <2>2 DEF WKeeps
  <2> QED BY <1>1, <1>3, <1>5, <2>3 DEF NativeInv, Carries
<1> QED BY <1>4, <1>5

LEMMA CStep ==
  ASSUME NativeInv, CNext
  PROVE  NativeInv' /\ Carries
<1>1. backend = "cocoa" /\ backend' = backend
  BY DEF CNext, COpen, CCall, CUser, CTransition, CDispatch, Move, Step
<1>2. Now.w = w /\ (Now').w = w'
  BY DEF Now
<1>3. Message("cocoa") = CMessage
  BY DEF Message
<1>4. CASE ~w.live
  <2>1. COpen
    BY <1>1, <1>4, StaysGone DEF NativeInv, Next, Gone, XOpen, WOpen
  <2>2. Now' \in State(CMessage) /\ CInv(Now') /\ Unfolded(Now')
    BY <2>1, COpenStep
  <2>3. w'.live
    BY <1>2, <2>2 DEF Unfolded
  <2> QED BY <1>1, <1>3, <1>4, <2>2, <2>3 DEF NativeInv, Carries
<1>5. CASE w.live
  <2>1. Now \in State(CMessage) /\ CInv(Now)
    BY <1>1, <1>3, <1>5 DEF NativeInv
  <2>2. CKeeps(Now, Now')
    <3>1. ~COpen
      BY <1>5 DEF COpen
    <3> QED BY <2>1, <3>1, CCallStep, CUserStep, CTransitionStep, CDispatchStep DEF CNext
  <2>3. Now' \in State(CMessage) /\ CInv(Now') /\ w'.live /\ Promised(Now, Now')
    BY <1>2, <1>5, <2>2 DEF CKeeps
  <2> QED BY <1>1, <1>3, <1>5, <2>3 DEF NativeInv, Carries
<1> QED BY <1>4, <1>5

LEMMA NativeStep ==
  ASSUME NativeInv, Next
  PROVE  NativeInv' /\ Carries
<1>1. CASE Shut
  <2>1. Gone' /\ backend' = backend
    BY <1>1 DEF Shut, Becomes, Gone
  <2>2. Now' \in State(Message(backend)) /\ ~w'.live
    BY <2>1, GoneNext
  <2> QED BY <2>1, <2>2 DEF NativeInv, Carries, Gone
<1> QED BY <1>1, XStep, WStep, CStep DEF Next

\* On every backend the last message of each kind in flight says what is so,
\* and what none is in flight about libnack has right: see XInv, WInv, CInv.
THEOREM NativeInvariant == Spec => []NativeInv
<1>1. NativeInv /\ [Next]_vars => NativeInv'
  <2>1. ASSUME NativeInv, UNCHANGED vars PROVE NativeInv'
    BY <2>1 DEF NativeInv, vars, Now
  <2> QED BY <2>1, NativeStep
<1> QED BY <1>1, NativeInit, PTL DEF Spec

-----------------------------------------------------------------------------
(* What holds when all is dispatched *)

LEMMA NothingLeft ==
  ASSUME Now \in State(Message(backend)), Quiet
  PROVE  \A K : None(Now.wire, K) /\ None(Now.requests, K)
BY DEF Quiet, Now, None

LEMMA SettledFocus ==
  ASSUME NEW n, NEW M, n \in State(M), FocusArrives(n), \A K : None(n.wire, K)
  PROVE  /\ n.w.focused = n.sys.focused
         /\ ~n.sys.focused => n.w.keys = {} /\ n.sys.fresh = {}
         /\ n.sys.fresh \subseteq n.sys.held
<1>1. n.w.focused \in BOOLEAN /\ n.sys.focused \in BOOLEAN
  BY DEF State, Record, System
<1> QED BY <1>1 DEF FocusArrives

LEMMA SettledKeys ==
  ASSUME NEW n, NEW M, n \in State(M), n.wire = << >>, FocusArrives(n),
         NEW K \in SUBSET Key, FreshArrive(n, K), KeysArrive(n, K)
  PROVE  /\ n.w.focused = n.sys.focused
         /\ n.sys.fresh \cap K \subseteq n.w.keys
         /\ n.w.keys \cap K \subseteq n.sys.held \cup n.sys.crossed
         /\ ~n.sys.focused => n.w.keys = {} /\ n.sys.fresh = {}
         /\ n.sys.fresh \subseteq n.sys.held
<1>1. Len(n.wire) = 0 /\ 1..Len(n.wire) = {}
  OBVIOUS
<1>2. \A J : None(n.wire, J)
  BY <1>1 DEF None
<1>3. /\ n.w.focused = n.sys.focused
      /\ ~n.sys.focused => n.w.keys = {} /\ n.sys.fresh = {}
      /\ n.sys.fresh \subseteq n.sys.held
  BY <1>2, SettledFocus
<1>4. n.sys.fresh \cap K \subseteq n.w.keys
  BY <1>1 DEF FreshArrive
<1>5. n.sys.focused => n.w.keys \cap K \subseteq n.sys.held \cup n.sys.crossed
  BY <1>2 DEF KeysArrive
<1>6. n.sys.focused \in BOOLEAN
  BY DEF State, System
<1> QED BY <1>3, <1>4, <1>5, <1>6

LEMMA WSettles ==
  ASSUME NEW n \in State(WMessage), WInv(n), n.wire = << >>
  PROVE  /\ n.w.size = n.sys.size /\ n.w.fb = n.sys.size /\ n.told.fb = n.sys.size
         /\ n.told.size \in {Unsized, n.sys.size}
         /\ n.w.fullscreen = (n.sys.full = "yes") /\ n.sys.full \in {"yes", "no"}
         /\ n.w.minimized = n.sys.mini /\ n.w.maximized = (n.sys.zoomed /\ ~n.sys.mini)
         /\ n.w.focused = n.sys.focused
         /\ n.sys.fresh \ n.w.keys \subseteq IF n.sys.held \cap Shift = {} THEN {} ELSE Shift
         /\ n.w.keys \subseteq n.sys.held \cup n.sys.crossed
                                 \cup IF n.sys.held \cap Shift = {} THEN {} ELSE Shift
         /\ n.w.buttons \subseteq n.sys.here \cup n.sys.strayed
<1> DEFINE K == Key \ Shift
<1>1. \A J : None(n.wire, J)
  BY DEF None
<1>2. K \in SUBSET Key /\ Shift \subseteq Key
  BY NativeAssumption
<1>3. /\ n.w.keys \subseteq Key /\ n.sys.fresh \subseteq Key /\ n.sys.held \subseteq Key
      /\ n.w.buttons \subseteq Button
  BY DEF State, Record, System
<1>4. FreshArrive(n, K) /\ KeysArrive(n, K) /\ FocusArrives(n)
  BY DEF WInv, WInput
<1> HIDE DEF K
<1>5. /\ n.w.focused = n.sys.focused
      /\ n.sys.fresh \cap K \subseteq n.w.keys
      /\ n.w.keys \cap K \subseteq n.sys.held \cup n.sys.crossed
      /\ ~n.sys.focused => n.w.keys = {} /\ n.sys.fresh = {}
      /\ n.sys.fresh \subseteq n.sys.held
  BY <1>2, <1>4, SettledKeys
<1>6. n.sys.fresh \ n.w.keys \subseteq IF n.sys.held \cap Shift = {} THEN {} ELSE Shift
  BY <1>3, <1>5 DEF K
<1>7. n.w.keys \subseteq n.sys.held \cup n.sys.crossed
                           \cup IF n.sys.held \cap Shift = {} THEN {} ELSE Shift
  <2>1. n.sys.focused /\ n.sys.held \cap Shift = {} => n.w.keys \cap Shift \subseteq n.sys.crossed
    BY <1>1 DEF WInv, WInput, ShiftsTogether
  <2> QED BY <1>3, <1>5, <2>1 DEF K
<1>8. n.w.buttons \subseteq n.sys.here \cup n.sys.strayed
  BY <1>1, <1>3 DEF WInv, ButtonsArrive
<1>9. /\ n.w.size = n.sys.size /\ n.w.fb = n.sys.size /\ n.told.fb = n.sys.size
      /\ n.told.size \in {Unsized, n.sys.size}
  BY DEF WInv, WSizes, Reported
<1>10. /\ n.w.fullscreen = (n.sys.full = "yes") /\ n.sys.full \in {"yes", "no"}
       /\ n.w.minimized = n.sys.mini /\ n.w.maximized = (n.sys.zoomed /\ ~n.sys.mini)
  BY DEF WInv, WStates, WFull
<1> QED BY <1>5, <1>6, <1>7, <1>8, <1>9, <1>10

LEMMA CSettles ==
  ASSUME NEW n \in State(CMessage), CInv(n), n.wire = << >>
  PROVE  /\ n.w.size = n.sys.size /\ n.w.fb = n.sys.size * n.sys.scale
         /\ n.told.fb = n.w.fb /\ n.told.size \in {Unsized, n.sys.size}
         /\ n.w.fullscreen = (n.sys.full \in {"yes", "leaving"})
         /\ n.w.minimized = n.sys.mini
         /\ n.w.focused = n.sys.focused
         /\ n.sys.fresh \subseteq n.w.keys \cup n.sys.crossed \cup (n.sys.odd \ Lock)
         /\ n.w.keys \subseteq n.sys.held \cup n.sys.crossed \cup (n.sys.odd \ Lock)
         /\ n.w.buttons \subseteq n.sys.here \cup n.sys.strayed
<1> DEFINE K == Key \ Toggled
<1>1. \A J : None(n.wire, J)
  BY DEF None
<1>2. K \in SUBSET Key /\ Toggled \subseteq Key
  BY NativeAssumption DEF Toggled
<1>3. /\ n.w.keys \subseteq Key /\ n.sys.fresh \subseteq Key /\ n.sys.focused \in BOOLEAN
      /\ n.w.buttons \subseteq Button
  BY DEF State, Record, System
<1>4. FreshArrive(n, K) /\ KeysArrive(n, K) /\ FocusArrives(n) /\ TakeTurns(n)
  BY DEF CInv, CInput
<1> HIDE DEF K
<1>5. /\ n.w.focused = n.sys.focused
      /\ n.sys.fresh \cap K \subseteq n.w.keys
      /\ n.w.keys \cap K \subseteq n.sys.held \cup n.sys.crossed
      /\ ~n.sys.focused => n.w.keys = {} /\ n.sys.fresh = {}
      /\ n.sys.fresh \subseteq n.sys.held
  BY <1>2, <1>4, SettledKeys
<1>6. ASSUME n.sys.focused, NEW k \in Toggled, k \notin n.sys.odd \cup n.sys.crossed
      PROVE  (k \in n.sys.held) = (k \in n.w.keys)
  <2>1. Mine(n, k) = {}
    BY DEF Mine
  <2>2. Turns(Mine(n, k), n.wire, Believed(n, k), k \in n.sys.held)
    BY <1>4, <1>6 DEF TakeTurns
  <2>3. Believed(n, k) = (k \in n.w.keys)
    BY <1>1 DEF Believed
  <2> QED BY <2>1, <2>2, <2>3 DEF Turns
<1>7. /\ n.sys.fresh \subseteq n.w.keys \cup n.sys.crossed \cup (n.sys.odd \ Lock)
      /\ n.w.keys \subseteq n.sys.held \cup n.sys.crossed \cup (n.sys.odd \ Lock)
  <2>1. \A k \in Toggled : k \notin Lock
    BY DEF Toggled
  <2> QED BY <1>3, <1>5, <1>6, <2>1 DEF K
<1>8. n.w.buttons \subseteq n.sys.here \cup n.sys.strayed
  BY <1>1, <1>3 DEF CInv, ButtonsArrive
<1>9. /\ n.w.size = n.sys.size /\ n.w.fb = n.sys.size * n.sys.scale
      /\ n.told.fb = n.w.fb /\ n.told.size \in {Unsized, n.sys.size}
  BY DEF CInv, CSizes, Reported
<1>10. /\ n.w.fullscreen = (n.sys.full \in {"yes", "leaving"})
       /\ n.w.minimized = n.sys.mini
  BY <1>1 DEF CInv, CStates
<1> QED BY <1>5, <1>7, <1>8, <1>9, <1>10

LEMMA Parts ==
  ASSUME NativeInv, w.live
  PROVE  /\ Now.w = w /\ Now.told = told /\ Now.sys = sys /\ Now.wire = wire
         /\ Now.requests = requests /\ backend \in {"x11", "win32", "cocoa"}
         /\ backend = "x11" => Now \in State(XMessage) /\ XInv(Now)
         /\ backend = "win32" => Now \in State(WMessage) /\ WInv(Now)
         /\ backend = "cocoa" => Now \in State(CMessage) /\ CInv(Now)
<1>1. backend \in {"x11", "win32", "cocoa"} /\ Now \in State(Message(backend))
  BY DEF NativeInv
<1>2. /\ backend = "x11" => Now \in State(XMessage)
      /\ backend = "win32" => Now \in State(WMessage)
      /\ backend = "cocoa" => Now \in State(CMessage)
  BY <1>1 DEF Message
<1>3. /\ backend = "x11" => XInv(Now)
      /\ backend = "win32" => WInv(Now)
      /\ backend = "cocoa" => CInv(Now)
  BY DEF NativeInv
<1> QED BY <1>1, <1>2, <1>3 DEF Now

LEMMA Settles ==
  ASSUME NativeInv
  PROVE  SettledGeometry /\ SettledStates /\ SettledInput /\ SettledButtons
<1> SUFFICES ASSUME w.live, Quiet
             PROVE  SettledGeometry /\ SettledStates /\ SettledInput /\ SettledButtons
  BY DEF SettledGeometry, SettledStates, SettledInput, SettledButtons
<1> DEFINE n == Now
<1>1. /\ n.w = w /\ n.told = told /\ n.sys = sys /\ n.wire = wire
      /\ n.requests = requests /\ backend \in {"x11", "win32", "cocoa"}
      /\ backend = "x11" => n \in State(XMessage) /\ XInv(n)
      /\ backend = "win32" => n \in State(WMessage) /\ WInv(n)
      /\ backend = "cocoa" => n \in State(CMessage) /\ CInv(n)
  <2>1. NativeInv /\ w.live
    OBVIOUS
  <2> QED BY ONLY <2>1, Parts
<1> HIDE DEF n
<1>2. n.wire = << >> /\ n.requests = << >>
  BY <1>1 DEF Quiet
<1>3. CASE backend = "x11"
  <2>1. /\ n.w.size = n.sys.size /\ n.w.fb = n.sys.size /\ n.told.fb = n.sys.size
        /\ n.told.size \in {Unsized, n.sys.size}
        /\ n.w.fullscreen = (n.sys.full = "yes") \/ n.sys.refused
        /\ n.sys.full \in {"yes", "no"}
        /\ n.w.minimized = n.sys.mini /\ n.w.maximized = n.sys.zoomed
        /\ n.w.visible = n.sys.shown
        /\ NoKeyboard(n)
        /\ n.w.buttons \subseteq n.sys.here \cup n.sys.strayed
    BY <1>1, <1>2, <1>3, XSettles
  <2>2. SettledGeometry
    BY <1>1, <1>3, <2>1 DEF SettledGeometry
  <2>4. SettledStates
    <3>1. (sys.full = "yes") = (sys.full \in {"yes", "leaving"})
      BY <1>1, <2>1
    <3>2. (sys.zoomed /\ (backend = "win32" => ~sys.mini)) = sys.zoomed
      <4>1. sys.zoomed \in BOOLEAN
        BY <1>1, <1>3 DEF State, System
      <4> QED BY <1>3, <4>1
    <3>3. /\ w.fullscreen = (sys.full \in {"yes", "leaving"}) \/ sys.refused
          /\ w.minimized = sys.mini
          /\ w.maximized = (sys.zoomed /\ (backend = "win32" => ~sys.mini))
          /\ w.visible = sys.shown
      BY <1>1, <2>1, <3>1, <3>2
    <3> QED BY <3>3 DEF SettledStates
  <2>3. SettledInput /\ SettledButtons
    BY <1>1, <1>3, <2>1 DEF SettledInput, SettledButtons, NoKeyboard
  <2> QED BY <2>2, <2>3, <2>4
<1>4. CASE backend = "win32"
  <2>1. /\ n.w.size = n.sys.size /\ n.w.fb = n.sys.size /\ n.told.fb = n.sys.size
        /\ n.told.size \in {Unsized, n.sys.size}
        /\ n.w.fullscreen = (n.sys.full = "yes") /\ n.sys.full \in {"yes", "no"}
        /\ n.w.minimized = n.sys.mini /\ n.w.maximized = (n.sys.zoomed /\ ~n.sys.mini)
        /\ n.w.focused = n.sys.focused
        /\ n.sys.fresh \ n.w.keys \subseteq IF n.sys.held \cap Shift = {} THEN {} ELSE Shift
        /\ n.w.keys \subseteq n.sys.held \cup n.sys.crossed
                                \cup IF n.sys.held \cap Shift = {} THEN {} ELSE Shift
        /\ n.w.buttons \subseteq n.sys.here \cup n.sys.strayed
    BY <1>1, <1>2, <1>4, WSettles
  <2>2. SettledGeometry /\ SettledStates
    BY <1>1, <1>4, <2>1 DEF SettledGeometry, SettledStates
  <2>3. SettledInput /\ SettledButtons
    BY <1>1, <1>4, <2>1 DEF SettledInput, SettledButtons, Untracked
  <2> QED BY <2>2, <2>3
<1>5. CASE backend = "cocoa"
  <2>1. /\ n.w.size = n.sys.size /\ n.w.fb = n.sys.size * n.sys.scale
        /\ n.told.fb = n.w.fb /\ n.told.size \in {Unsized, n.sys.size}
        /\ n.w.fullscreen = (n.sys.full \in {"yes", "leaving"})
        /\ n.w.minimized = n.sys.mini
        /\ n.w.focused = n.sys.focused
        /\ n.sys.fresh \subseteq n.w.keys \cup n.sys.crossed \cup (n.sys.odd \ Lock)
        /\ n.w.keys \subseteq n.sys.held \cup n.sys.crossed \cup (n.sys.odd \ Lock)
        /\ n.w.buttons \subseteq n.sys.here \cup n.sys.strayed
    BY <1>1, <1>2, <1>5, CSettles
  <2>2. SettledGeometry
    <3> DEFINE z == sys.size * sys.scale
    <3>1. w.size = sys.size /\ w.fb = z /\ told.fb = z /\ told.size \in {Unsized, sys.size}
      BY <1>1, <2>1
    <3> HIDE DEF z
    <3>2. w.live /\ Quiet =>
            LET fb == IF backend = "cocoa" THEN z ELSE sys.size
            IN /\ w.size = sys.size /\ w.fb = fb
               /\ told.fb = fb
               /\ \/ told.size = sys.size
                  \/ told.size = Unsized /\ (fb = sys.size \/ backend = "cocoa")
      BY <1>5, <3>1
    <3> QED BY <3>2 DEF SettledGeometry, z
  <2>3. SettledStates
    BY <1>1, <1>5, <2>1 DEF SettledStates
  <2>4. SettledInput /\ SettledButtons
    BY <1>1, <1>5, <2>1 DEF SettledInput, SettledButtons, Untracked
  <2> QED BY <2>2, <2>3, <2>4
<1> QED BY <1>1, <1>3, <1>4, <1>5

\* On every backend, whatever order calls, requests, messages and acts of the
\* user meet in: once all is dispatched, libnack has the size and the framebuffer
\* the window has, and so has the program, but that it may have been told no size
\* yet when none differed from the framebuffer's, or on Cocoa at the start
\* (nack_xcb.cpp:1111, nack_win32.cpp:825, nack_cocoa.mm:712).
THEOREM GeometrySettles == Spec => []SettledGeometry
BY NativeInvariant, Settles, PTL

\* ... is_minimized() answers what is so on every backend, is_fullscreen() unless
\* a window manager has refused it (nack_xcb.cpp:1145), is_maximized() on X11 and
\* Win32, and is_visible() on X11 ...
THEOREM StatesSettle == Spec => []SettledStates
BY NativeInvariant, Settles, PTL

\* ... a focused window knows of every key pressed since, and no key is latched
\* that is up, but for those a backend cannot follow, which Untracked names: the
\* second shift on Win32; on Cocoa a key let go of under Command and, Caps Lock
\* apart, a modifier that was down when the focus came (nack.cpp:250,
\* nack_win32.cpp:575, nack_cocoa.mm:479, :488, :931) ...
THEOREM NativeInputSettles == Spec => []SettledInput
BY NativeInvariant, Settles, PTL

\* ... and no button is latched that is up, unless its release went elsewhere
\* (nack_win32.cpp:703).
THEOREM ButtonsSettle == Spec => []SettledButtons
BY NativeInvariant, Settles, PTL

-----------------------------------------------------------------------------
(* The keyboard promise *)

LEMMA PromiseInit ==
  ASSUME Init
  PROVE  Promise!Init
<1>1. ~w.live /\ w.focused = FALSE /\ w.keys = {}
  BY DEF Init, NoWindow, Created
<1> QED BY <1>1 DEF Promise!Init

LEMMA PromiseStep ==
  ASSUME NativeInv, Next
  PROVE  Promise!Next \/ UNCHANGED Promise!vars
<1>1. Carries
  BY NativeStep
<1>2. Now.w = w /\ (Now').w = w'
  BY DEF Now
<1>3. w.focused \in BOOLEAN /\ w'.focused \in BOOLEAN
  <2>1. Now \in State(Message(backend)) /\ (Now \in State(Message(backend)))'
    BY NativeStep DEF NativeInv
  <2> QED BY <1>2, <2>1 DEF State, Record
<1>4. CASE Gone'
  <2>1. ~w'.live /\ ~w'.focused /\ w'.keys = {}
    BY <1>4 DEF Gone, NoWindow, Created
  <2> QED BY <2>1 DEF Promise!Next, Promise!Reset
<1>5. CASE ~w.live /\ Unfolded(Now')
  <2>1. Gone
    BY <1>5 DEF NativeInv, Gone
  <2>2. w.keys = {} /\ ~w.focused
    BY <2>1, GoneFits
  <2>3. w'.live /\ ~w'.focused /\ w'.keys = {}
    BY <1>2, <1>5 DEF Unfolded
  <2>4. Promise!Create("window")
    BY <1>5, <2>2, <2>3 DEF Promise!Create
  <2> QED BY <2>4 DEF Promise!Next
<1>6. CASE w.live /\ w'.live /\ Promised(Now, Now')
  <2>1. CASE w'.focused = w.focused /\ w'.keys = w.keys
    BY <1>6, <2>1 DEF Promise!vars
  <2>2. CASE w.focused /\ ~w'.focused /\ w'.keys = {}
    <3>1. Promise!Lose
      BY <1>6, <2>2 DEF Promise!Lose
    <3> QED BY <3>1 DEF Promise!Next
  <2>3. CASE ~w.focused /\ w'.focused /\ w'.keys = w.keys
    <3>1. Promise!Gain("window")
      BY <1>6, <2>3 DEF Promise!Gain
    <3> QED BY <3>1 DEF Promise!Next
  <2>4. ASSUME w.focused, w'.focused, NEW k \in Key, w'.keys = w.keys \cup {k}
        PROVE  Promise!Next
    <3>1. Promise!Press(k)
      BY <1>6, <2>4 DEF Promise!Press
    <3> QED BY <3>1 DEF Promise!Next
  <2>5. ASSUME w.focused, w'.focused, NEW K \in SUBSET Key, w'.keys = w.keys \ K
        PROVE  Promise!Next
    <3>1. Promise!Release(K)
      BY <1>6, <2>5 DEF Promise!Release
    <3> QED BY <3>1 DEF Promise!Next
  <2> QED BY <1>2, <1>6, <2>1, <2>2, <2>3, <2>4, <2>5 DEF Promised
<1> QED BY <1>1, <1>4, <1>5, <1>6 DEF Carries

\* The keyboard of each backend is the one nack_window.h:304 promises: keys
\* change only under the focus, and losing it lets go of them all.
THEOREM NativeKeepsKeyboardPromise == Spec => KeepsKeyboardPromise
<1>1. NativeInv /\ [Next]_vars => [Promise!Next]_(Promise!vars)
  <2>1. ASSUME UNCHANGED vars PROVE UNCHANGED Promise!vars
    BY <2>1 DEF vars, Promise!vars
  <2> QED BY <2>1, PromiseStep
<1> QED BY <1>1, PromiseInit, NativeInvariant, PTL DEF Spec, KeepsKeyboardPromise, Promise!Spec
==============================================================================
