------------------------------ MODULE WindowCore ------------------------------
(***************************************************************************)
(* The window layer of libnack (src/nack.cpp) on the X11 backend: the      *)
(* registry of windows, the event queue the application drains, the        *)
(* keyboard latch, keyboard focus, and the current GL context.             *)
(*                                                                         *)
(* The X server is the environment.  It owns the input focus and the       *)
(* physical keyboard and sends events down one ordered connection (wire);  *)
(* the library dispatches them one by one (nack__xcb_dispatch), appends    *)
(* window events to its queue, and the application pops those, creating    *)
(* and destroying windows in between.  Dispatch may happen whatever the    *)
(* queue holds: nack__xcb_wait_for dispatches from inside a clipboard      *)
(* read, not only nack__xcb_pump_events.                                   *)
(*                                                                         *)
(* The deque is a set of events stamped in the order they were pushed;     *)
(* events pushed by the one loop of nack__emit_focus share a stamp, their  *)
(* order (the numeric order of key codes) being left out.                  *)
(***************************************************************************)
EXTENDS Naturals, Sequences

CONSTANTS
  Window,      \* windows the application may create, each once
  Key,         \* keys with a NACK_KEY_* code
  Context,     \* GL contexts the application may create, each once
  NoWindow,    \* NULL window
  NoKey,       \* NACK_KEY_UNKNOWN
  NoContext,   \* NULL context
  MaxWire,     \* bound: events in flight from the server
  MaxStamp     \* bound: stamps given out between two moments of an empty queue

ASSUME NullAssumption ==
  /\ NoWindow \notin Window
  /\ NoKey \notin Key
  /\ NoContext \notin Context

ASSUME BoundAssumption == MaxWire \in Nat /\ MaxStamp \in Nat

VARIABLES
  \* X server and keyboard
  wire,        \* events sent and not dispatched, oldest first
  srvFocus,    \* window that has the input focus on the server
  held,        \* keys physically down
  grabbed,     \* another client holds a keyboard grab
  \* libnack
  initialized, \* nack_state.initialized
  windows,     \* nack_state.windows
  focused,     \* windows whose nack_window.focused is set
  keys,        \* keys whose nack_state.keys entry is set
  queue,       \* nack_state.queue
  stamp,       \* stamp of the newest event since the queue was last empty
  contexts,    \* GL contexts created and not destroyed
  curWindow,   \* nack_state.current_window
  curContext,  \* nack_state.current_context
  \* history
  created,     \* windows ever created
  ctxCreated,  \* contexts ever created
  seen,        \* per window, the keys the application believes are down
  excused      \* keys that were latched when their window was destroyed or whose
               \* release a grab took, until a blur after their last press

server == <<wire, srvFocus, held, grabbed>>
gl     == <<contexts, curWindow, curContext, ctxCreated>>
input  == <<focused, keys, queue, stamp>>
vars   == <<server, gl, input, initialized, windows, created, seen, excused>>

-----------------------------------------------------------------------------
(* Types *)

RawKind == {"FOCUS_IN", "FOCUS_OUT", "FOCUS_IN_UNGRAB", "FOCUS_OUT_GRAB",
            "KEY_PRESS", "KEY_RELEASE"}
RawEvent == [kind : RawKind, win : Window, key : Key \cup {NoKey}]

EventType == {"FOCUS", "BLUR", "KEY_DOWN", "KEY_UP"}
Event == [n : Nat, type : EventType, win : Window, key : Key \cup {NoKey},
          repeat : BOOLEAN]

Raw(kind, w, k) == [kind |-> kind, win |-> w, key |-> k]

\* nack__event_begin
EventBegin(n, type, w, k, repeat) ==
  [n |-> n, type |-> type, win |-> w, key |-> k, repeat |-> repeat]

TypeOK ==
  /\ wire \in Seq(RawEvent)
  /\ srvFocus \in Window \cup {NoWindow}
  /\ held \subseteq Key
  /\ grabbed \in BOOLEAN
  /\ initialized \in BOOLEAN
  /\ windows \subseteq Window
  /\ focused \subseteq Window
  /\ keys \subseteq Key
  /\ queue \subseteq Event
  /\ stamp \in Nat
  /\ contexts \subseteq Context
  /\ curWindow \in Window \cup {NoWindow}
  /\ curContext \in Context \cup {NoContext}
  /\ created \subseteq Window
  /\ ctxCreated \subseteq Context
  /\ seen \in [Window -> SUBSET Key]
  /\ excused \subseteq Key

-----------------------------------------------------------------------------
Init ==
  /\ wire = << >> /\ srvFocus = NoWindow /\ held = {} /\ grabbed = FALSE
  /\ initialized = FALSE /\ windows = {} /\ focused = {} /\ keys = {}
  /\ queue = {} /\ stamp = 0
  /\ contexts = {} /\ curWindow = NoWindow /\ curContext = NoContext
  /\ created = {} /\ ctxCreated = {}
  /\ seen = [w \in Window |-> {}] /\ excused = {}

-----------------------------------------------------------------------------
(* The X server.  Key events go to the window with the focus unless a grab *)
(* takes them; a change of focus sends FocusOut before FocusIn.            *)

Send(events) ==
  /\ Len(wire) + Len(events) <= MaxWire
  /\ wire' = wire \o events

ServerOnly ==
  UNCHANGED <<gl, input, initialized, windows, created, seen>>

SrvFocus(w) ==
  /\ w # srvFocus
  /\ srvFocus' = w
  /\ Send((IF srvFocus = NoWindow THEN << >>
           ELSE <<Raw("FOCUS_OUT", srvFocus, NoKey)>>) \o
          (IF w = NoWindow THEN << >> ELSE <<Raw("FOCUS_IN", w, NoKey)>>))
  /\ ServerOnly
  /\ UNCHANGED <<held, grabbed, excused>>

Deliver(kind, k) ==
  IF srvFocus = NoWindow \/ grabbed
  THEN UNCHANGED wire
  ELSE Send(<<Raw(kind, srvFocus, k)>>)

\* Also the server's auto-repeat, which with detectable auto-repeat is a
\* press of a key that is already down.
SrvKeyDown(k) ==
  /\ held' = held \cup ({k} \cap Key)
  /\ Deliver("KEY_PRESS", k)
  /\ ServerOnly
  /\ UNCHANGED <<srvFocus, grabbed, excused>>

SrvKeyUp(k) ==
  /\ k \in held
  /\ held' = held \ {k}
  /\ Deliver("KEY_RELEASE", k)
  /\ excused' = IF grabbed THEN excused \cup {k} ELSE excused
  /\ ServerOnly
  /\ UNCHANGED <<srvFocus, grabbed>>

SrvGrab ==
  /\ srvFocus # NoWindow
  /\ ~grabbed
  /\ grabbed' = TRUE
  /\ Send(<<Raw("FOCUS_OUT_GRAB", srvFocus, NoKey)>>)
  /\ ServerOnly
  /\ UNCHANGED <<srvFocus, held, excused>>

SrvUngrab ==
  /\ grabbed
  /\ grabbed' = FALSE
  /\ IF srvFocus = NoWindow THEN UNCHANGED wire
     ELSE Send(<<Raw("FOCUS_IN_UNGRAB", srvFocus, NoKey)>>)
  /\ ServerOnly
  /\ UNCHANGED <<srvFocus, held, excused>>

-----------------------------------------------------------------------------
(* The emitters of nack.cpp *)

\* nack__emit_key: an unknown key is reported and never latched.
EmitKey(w, k, down, repeat) ==
  /\ keys' = IF k \notin Key THEN keys
             ELSE IF down THEN keys \cup {k} ELSE keys \ {k}
  /\ queue' = queue \cup
       {EventBegin(stamp + 1, IF down THEN "KEY_DOWN" ELSE "KEY_UP", w, k, repeat)}
  /\ stamp' = stamp + 1

\* Mutant: the latch is cleared without a KEY_UP for each key in it.
EmitFocusSilently(w, gained) ==
  IF (w \in focused) = gained
  THEN UNCHANGED <<focused, keys, queue, stamp>>
  ELSE /\ focused' = IF gained THEN focused \cup {w} ELSE focused \ {w}
       /\ keys' = IF gained THEN keys ELSE {}
       /\ queue' = queue \cup {EventBegin(stamp + 2,
                     IF gained THEN "FOCUS" ELSE "BLUR", w, NoKey, FALSE)}
       /\ stamp' = stamp + 2

\* Mutant: the keys are released but stay latched.
EmitFocusLatched(w, gained) ==
  IF (w \in focused) = gained
  THEN UNCHANGED <<focused, keys, queue, stamp>>
  ELSE /\ focused' = IF gained THEN focused \cup {w} ELSE focused \ {w}
       /\ keys' = keys
       /\ queue' = queue
            \cup (IF gained THEN {}
                  ELSE {EventBegin(stamp + 1, "KEY_UP", w, k, FALSE) : k \in keys})
            \cup {EventBegin(stamp + 2, IF gained THEN "FOCUS" ELSE "BLUR",
                             w, NoKey, FALSE)}
       /\ stamp' = stamp + 2

\* nack__emit_focus: losing the focus first releases every latched key.
EmitFocus(w, gained) ==
  IF (w \in focused) = gained
  THEN UNCHANGED <<focused, keys, queue, stamp>>
  ELSE /\ focused' = IF gained THEN focused \cup {w} ELSE focused \ {w}
       /\ keys' = IF gained THEN keys ELSE {}
       /\ queue' = queue
            \cup (IF gained THEN {}
                  ELSE {EventBegin(stamp + 1, "KEY_UP", w, k, FALSE) : k \in keys})
            \cup {EventBegin(stamp + 2, IF gained THEN "FOCUS" ELSE "BLUR",
                             w, NoKey, FALSE)}
       /\ stamp' = stamp + 2

-----------------------------------------------------------------------------
(* nack__xcb_dispatch.  An event for a window that nack__xcb_lookup does   *)
(* not find in the registry is dropped.                                    *)

\* A blur lets go of every key but those whose press is still to come.
StillToLatch(s) ==
  {k \in Key : \E i \in 1..Len(s) : s[i].kind = "KEY_PRESS" /\ s[i].key = k}

\* Mutant: the notify mode is not looked at.
DispatchFocusAnyMode(e) ==
  /\ IF e.win \in windows
     THEN EmitFocus(e.win, e.kind \in {"FOCUS_IN", "FOCUS_IN_UNGRAB"})
     ELSE UNCHANGED <<focused, keys, queue, stamp>>
  /\ excused' = IF e.win \in windows /\ e.win \in focused
                   /\ e.kind \in {"FOCUS_OUT", "FOCUS_OUT_GRAB"}
                THEN excused \cap StillToLatch(Tail(wire)) ELSE excused

DispatchFocus(e) ==
  /\ IF e.win \in windows /\ e.kind \in {"FOCUS_IN", "FOCUS_OUT"}
     THEN EmitFocus(e.win, e.kind = "FOCUS_IN")
     ELSE UNCHANGED <<focused, keys, queue, stamp>>
  /\ excused' = IF e.win \in windows /\ e.win \in focused /\ e.kind = "FOCUS_OUT"
                THEN excused \cap StillToLatch(Tail(wire)) ELSE excused

\* Mutant: the latch is read after nack__emit_key has set it.
DispatchKeyLate(e) ==
  /\ IF e.win \in windows
     THEN EmitKey(e.win, e.key, e.kind = "KEY_PRESS",
                  e.kind = "KEY_PRESS" /\ e.key \in Key)
     ELSE UNCHANGED <<keys, queue, stamp>>
  /\ UNCHANGED <<focused, excused>>

\* nack__xcb_handle_key: a press of a latched key is a repeat.
DispatchKey(e) ==
  /\ IF e.win \in windows
     THEN EmitKey(e.win, e.key, e.kind = "KEY_PRESS",
                  e.kind = "KEY_PRESS" /\ e.key \in keys)
     ELSE UNCHANGED <<keys, queue, stamp>>
  /\ UNCHANGED <<focused, excused>>

Dispatch ==
  /\ initialized
  /\ wire # << >>
  /\ stamp + 2 <= MaxStamp
  /\ wire' = Tail(wire)
  /\ IF Head(wire).kind \in {"KEY_PRESS", "KEY_RELEASE"}
     THEN DispatchKey(Head(wire))
     ELSE DispatchFocus(Head(wire))
  /\ UNCHANGED <<srvFocus, held, grabbed, gl, initialized, windows, created, seen>>

-----------------------------------------------------------------------------
(* The application *)

\* nack__pop: the oldest event.  The application keeps, per window, the keys
\* it was told are down.
Pop ==
  \E e \in queue :
    /\ \A f \in queue : e.n <= f.n
    /\ queue' = queue \ {e}
    /\ stamp' = IF queue' = {} THEN 0 ELSE stamp
    /\ seen' = [seen EXCEPT ![e.win] =
                  CASE e.type = "KEY_DOWN" -> @ \cup ({e.key} \cap Key)
                    [] e.type = "KEY_UP"   -> @ \ {e.key}
                    [] OTHER -> @]
    /\ UNCHANGED <<server, gl, focused, keys, initialized, windows, created, excused>>

\* nack__win_init, with the backend starting.
WinInit ==
  /\ ~initialized
  /\ initialized' = TRUE
  /\ UNCHANGED <<server, gl, input, windows, created, seen, excused>>

\* nack_window_create
Create(w) ==
  /\ initialized
  /\ w \notin created
  /\ windows' = windows \cup {w}
  /\ created' = created \cup {w}
  /\ UNCHANGED <<server, gl, input, initialized, seen, excused>>

\* Mutant: nothing is purged.
PurgeNothing(w) == queue

\* nack__purge_window_events
PurgeWindowEvents(w) == {e \in queue : e.win # w}

\* nack_window_destroy.  The server takes the focus from a window that no
\* longer exists; the library drops whatever it says about that.
Destroy(w) ==
  /\ w \in windows
  /\ curWindow' = IF curWindow = w THEN NoWindow ELSE curWindow
  /\ curContext' = IF curWindow = w THEN NoContext ELSE curContext
  /\ queue' = PurgeWindowEvents(w)
  /\ stamp' = IF queue' = {} THEN 0 ELSE stamp
  /\ windows' = windows \ {w}
  /\ focused' = focused \ {w}
  /\ srvFocus' = IF srvFocus = w THEN NoWindow ELSE srvFocus
  /\ seen' = [seen EXCEPT ![w] = {}]
  /\ excused' = IF w \in focused THEN excused \cup keys ELSE excused
  /\ UNCHANGED <<wire, held, grabbed, initialized, keys, contexts, ctxCreated, created>>

\* nack__win_shutdown: destroys every window, closes the connection and
\* assigns a fresh nack_state.  Contexts are the application's to destroy.
Shutdown ==
  /\ initialized
  /\ initialized' = FALSE
  /\ windows' = {} /\ focused' = {} /\ keys' = {} /\ queue' = {} /\ stamp' = 0
  /\ curWindow' = NoWindow /\ curContext' = NoContext
  /\ wire' = << >> /\ srvFocus' = NoWindow
  /\ seen' = [w \in Window |-> {}] /\ excused' = {}
  /\ UNCHANGED <<held, grabbed, contexts, ctxCreated, created>>

\* nack__gl_context_create
ContextCreate(c) ==
  /\ initialized
  /\ windows # {}
  /\ c \notin ctxCreated
  /\ contexts' = contexts \cup {c}
  /\ ctxCreated' = ctxCreated \cup {c}
  /\ UNCHANGED <<server, input, initialized, windows, created, seen, excused,
                 curWindow, curContext>>

\* Mutant: the current context is not compared with the one destroyed.
ContextDestroyCurrent(c) ==
  /\ c \in contexts
  /\ contexts' = contexts \ {c}
  /\ UNCHANGED <<server, input, initialized, windows, created, seen, excused,
                 ctxCreated, curWindow, curContext>>

\* nack__gl_context_destroy
ContextDestroy(c) ==
  /\ c \in contexts
  /\ contexts' = contexts \ {c}
  /\ curContext' = IF curContext = c THEN NoContext ELSE curContext
  /\ curWindow' = IF curContext = c THEN NoWindow ELSE curWindow
  /\ UNCHANGED <<server, input, initialized, windows, created, seen, excused, ctxCreated>>

\* nack__gl_make_current on a live window and context, or with a NULL context.
MakeCurrent(w, c) ==
  /\ initialized
  /\ w \in windows
  /\ c \in contexts \cup {NoContext}
  /\ curWindow' = IF c = NoContext THEN NoWindow ELSE w
  /\ curContext' = c
  /\ UNCHANGED <<server, input, initialized, windows, created, seen, excused,
                 contexts, ctxCreated>>

-----------------------------------------------------------------------------
Server ==
  \/ \E w \in windows \cup {NoWindow} : SrvFocus(w)
  \/ \E k \in Key \cup {NoKey} : SrvKeyDown(k)
  \/ \E k \in Key : SrvKeyUp(k)
  \/ SrvGrab
  \/ SrvUngrab

Application ==
  \/ Pop
  \/ WinInit
  \/ \E w \in Window : Create(w) \/ Destroy(w)
  \/ Shutdown
  \/ \E c \in Context : ContextCreate(c) \/ ContextDestroy(c)
  \/ \E w \in Window, c \in Context \cup {NoContext} : MakeCurrent(w, c)

Next == Server \/ Dispatch \/ Application

Spec == Init /\ [][Next]_vars

-----------------------------------------------------------------------------
(* Properties *)

\* nack_window_destroy purges before it frees (nack.cpp:678): no event the
\* application can still pop names a window that has been deleted.
NoDanglingEvent == \A e \in queue : e.win \in windows

\* The current window and context are both live or both NULL, whichever of
\* them the application destroys first (nack.cpp:673, :968, :980).
CurrentIsLive ==
  \/ curWindow \in windows /\ curContext \in contexts
  \/ curWindow = NoWindow /\ curContext = NoContext

\* The keys the application will believe are down in w once it has drained
\* the queue: the newest queued word on each, or what it was told before.
Word(w, k) == {e \in queue : e.win = w /\ e.key = k
                              /\ e.type \in {"KEY_DOWN", "KEY_UP"}}
Believes(w, k) ==
  \/ Word(w, k) = {} /\ k \in seen[w]
  \/ \E e \in Word(w, k) : /\ e.type = "KEY_DOWN"
                           /\ \A f \in Word(w, k) : f.n <= e.n

\* "Never leave keys latched when focus leaves the window" (nack.cpp:251):
\* an application that drains its queue believes a key is down in a window
\* only while that window is focused and the library has the key latched.
NoStuckKeyInApplication ==
  \A w \in windows, k \in Key : Believes(w, k) => w \in focused /\ k \in keys

\* A KEY_DOWN is flagged as a repeat (nack_xcb.cpp:477) only for a key the
\* application knows to be down in that window, unless the key stayed latched
\* through the loss of its window or a grab.
RepeatMeansHeld ==
  [][\A e \in queue' \ queue :
       e.type = "KEY_DOWN" /\ e.repeat =>
         Believes(e.win, e.key) \/ e.key \in excused]_queue

\* Once the connection is quiet the focus flags say what the server says,
\* and a latched key is physically held, whatever order focus changes, keys,
\* grabs and window destruction came in (nack_xcb.cpp:642, :656).
SettledInput ==
  wire = << >> =>
    /\ focused = {srvFocus} \cap windows
    /\ keys \ excused \subseteq held

-----------------------------------------------------------------------------
(* The invariant behind the input properties.  The events on the wire tell *)
(* one story of the focus, from the window whose flag is set now to the    *)
(* window the server thinks of, and every key on the wire arrives while    *)
(* its window has the focus.                                               *)

\* What one event does to the focus, as far as the live windows can tell.
FocusStep(live, e, from, to) ==
  /\ to = IF e.win \in live /\ e.kind = "FOCUS_IN" THEN e.win
          ELSE IF e.win \in live /\ e.kind = "FOCUS_OUT" THEN NoWindow
          ELSE from
  /\ e.win \in live /\ e.kind = "FOCUS_IN" => from = NoWindow
  /\ e.win \in live /\ e.kind \in {"FOCUS_OUT", "KEY_PRESS", "KEY_RELEASE"}
       => from = e.win

\* f[i] is the live window with the focus once i events of s are dispatched.
FocusStory(live, s, f) ==
  /\ f \in [0..Len(s) -> live \cup {NoWindow}]
  /\ \A i \in 1..Len(s) : FocusStep(live, s[i], f[i - 1], f[i])

\* At most one window has its focus flag set, now and after any number of
\* the events in flight, whichever windows were destroyed since they were
\* sent (nack_xcb.cpp:644, :658, nack.cpp:667).
FocusIsTracked ==
  \E f \in [0..Len(wire) -> windows \cup {NoWindow}] :
    /\ FocusStory(windows, wire, f)
    /\ focused = {f[0]} \cap windows
    /\ f[Len(wire)] = srvFocus

\* Only windows that were created are heard of, and of those that are gone
\* the application holds nothing.
Bookkeeping ==
  /\ windows \subseteq created
  /\ \A i \in 1..Len(wire) : wire[i].win \in created
  /\ \A e \in queue : e.n <= stamp
  /\ \A w \in Window \ windows : seen[w] = {}

InputInv == TypeOK /\ NoDanglingEvent /\ Bookkeeping /\ FocusIsTracked
=============================================================================
