--------------------------- MODULE WindowCoreProofs ---------------------------
(***************************************************************************)
(* Theorems about WindowCore, for any windows, keys and contexts and any   *)
(* bounds: types, dangling events and the current context first, then the  *)
(* keyboard and focus.  There the inductive invariant is InputInv: the     *)
(* application's belief about a key is only right because a key never      *)
(* reaches a window without the focus, which in turn follows from the      *)
(* order the server sends events in and from how the library treats the    *)
(* events of windows that are gone.                                        *)
(***************************************************************************)
EXTENDS WindowCore, TLAPS

-----------------------------------------------------------------------------
(* Type correctness *)

\* What a single event put on the wire is.
LEMMA RawType ==
  ASSUME NEW kind \in RawKind, NEW w \in Window, NEW k \in Key \cup {NoKey}
  PROVE  Raw(kind, w, k) \in RawEvent
BY DEF Raw, RawEvent

\* Send appends well-typed events to a well-typed wire.
LEMMA SendType ==
  ASSUME wire \in Seq(RawEvent), NEW events \in Seq(RawEvent), Send(events)
  PROVE  wire' \in Seq(RawEvent)
BY DEF Send

\* The two events of a change of focus are well typed, whichever is absent.
LEMMA FocusEventsType ==
  ASSUME srvFocus \in Window \cup {NoWindow}, NEW w \in Window \cup {NoWindow}
  PROVE  (IF srvFocus = NoWindow THEN << >>
          ELSE <<Raw("FOCUS_OUT", srvFocus, NoKey)>>) \o
         (IF w = NoWindow THEN << >> ELSE <<Raw("FOCUS_IN", w, NoKey)>>)
           \in Seq(RawEvent)
<1> DEFINE out == IF srvFocus = NoWindow THEN << >>
                  ELSE <<Raw("FOCUS_OUT", srvFocus, NoKey)>>
           in  == IF w = NoWindow THEN << >> ELSE <<Raw("FOCUS_IN", w, NoKey)>>
<1>1. out \in Seq(RawEvent)
  BY RawType DEF RawKind
<1>2. in \in Seq(RawEvent)
  BY RawType DEF RawKind
<1> QED BY <1>1, <1>2

\* Whatever the server does leaves the wire well typed.
LEMMA DeliverType ==
  ASSUME TypeOK, NEW kind \in RawKind, NEW k \in Key \cup {NoKey}, Deliver(kind, k)
  PROVE  wire' \in Seq(RawEvent)
<1>1. CASE srvFocus = NoWindow \/ grabbed
  BY <1>1 DEF Deliver, TypeOK
<1>2. CASE ~(srvFocus = NoWindow \/ grabbed)
  <2>1. <<Raw(kind, srvFocus, k)>> \in Seq(RawEvent)
    BY <1>2, RawType DEF TypeOK
  <2>2. Send(<<Raw(kind, srvFocus, k)>>)
    BY <1>2 DEF Deliver
  <2>3. wire \in Seq(RawEvent)
    BY DEF TypeOK
  <2> QED BY <2>1, <2>2, <2>3, SendType
<1> QED BY <1>1, <1>2

\* An event the emitters make is an event.
LEMMA EventBeginType ==
  ASSUME NEW n \in Nat, NEW type \in EventType, NEW w \in Window,
         NEW k \in Key \cup {NoKey}, NEW repeat \in BOOLEAN
  PROVE  EventBegin(n, type, w, k, repeat) \in Event
BY DEF EventBegin, Event

LEMMA EmitKeyType ==
  ASSUME TypeOK, NEW w \in Window, NEW k \in Key \cup {NoKey},
         NEW down \in BOOLEAN, NEW repeat \in BOOLEAN,
         EmitKey(w, k, down, repeat)
  PROVE  keys' \subseteq Key /\ queue' \subseteq Event /\ stamp' \in Nat
<1>1. stamp' \in Nat /\ stamp + 1 \in Nat
  BY DEF EmitKey, TypeOK
<1>2. keys' \subseteq Key
  BY DEF EmitKey, TypeOK
<1>3. EventBegin(stamp + 1, IF down THEN "KEY_DOWN" ELSE "KEY_UP", w, k, repeat) \in Event
  BY <1>1, EventBeginType DEF EventType
<1>4. queue' \subseteq Event
  BY <1>3 DEF EmitKey, TypeOK
<1> QED BY <1>1, <1>2, <1>4

LEMMA EmitFocusType ==
  ASSUME TypeOK, NEW w \in Window, NEW gained \in BOOLEAN, EmitFocus(w, gained)
  PROVE  /\ focused' \subseteq Window /\ keys' \subseteq Key
         /\ queue' \subseteq Event /\ stamp' \in Nat
<1>1. CASE (w \in focused) = gained
  BY <1>1 DEF EmitFocus, TypeOK
<1>2. CASE (w \in focused) # gained
  <2>1. focused' \subseteq Window /\ keys' \subseteq Key
    BY <1>2 DEF EmitFocus, TypeOK
  <2>2. stamp' \in Nat /\ stamp + 1 \in Nat /\ stamp + 2 \in Nat
    BY <1>2 DEF EmitFocus, TypeOK
  <2>3. \A k \in keys : EventBegin(stamp + 1, "KEY_UP", w, k, FALSE) \in Event
    BY <2>2, EventBeginType DEF EventType, TypeOK
  <2>4. EventBegin(stamp + 2, IF gained THEN "FOCUS" ELSE "BLUR", w, NoKey, FALSE) \in Event
    BY <2>2, EventBeginType DEF EventType
  <2> DEFINE ups  == {EventBegin(stamp + 1, "KEY_UP", w, k, FALSE) : k \in keys}
             last == EventBegin(stamp + 2, IF gained THEN "FOCUS" ELSE "BLUR",
                                w, NoKey, FALSE)
  <2>5. queue' \subseteq queue \cup ups \cup {last}
    BY <1>2 DEF EmitFocus
  <2>6. queue' \subseteq Event
    <3> HIDE DEF last
    <3> QED BY <2>3, <2>4, <2>5 DEF TypeOK, last
  <2> QED BY <2>1, <2>2, <2>6
<1> QED BY <1>1, <1>2

LEMMA InitType == Init => TypeOK
<1> SUFFICES ASSUME Init PROVE TypeOK
  OBVIOUS
<1>1. wire \in Seq(RawEvent) /\ stamp \in Nat
  BY DEF Init
<1>2. seen \in [Window -> SUBSET Key]
  BY DEF Init
<1> QED BY <1>1, <1>2 DEF Init, TypeOK

LEMMA DispatchType == TypeOK /\ Dispatch => TypeOK'
<1> SUFFICES ASSUME TypeOK, Dispatch PROVE TypeOK'
  OBVIOUS
<1> DEFINE e == Head(wire)
<1>1. wire # << >> /\ wire' = Tail(wire)
  BY DEF Dispatch
<1>2. e \in RawEvent /\ wire' \in Seq(RawEvent)
  BY <1>1 DEF TypeOK
<1>3. e.win \in Window /\ e.key \in Key \cup {NoKey}
  BY <1>2 DEF RawEvent
<1>4. /\ focused' \subseteq Window /\ keys' \subseteq Key
      /\ queue' \subseteq Event /\ stamp' \in Nat /\ excused' \subseteq Key
  <2>1. CASE e.kind \in {"KEY_PRESS", "KEY_RELEASE"}
    <3>1. DispatchKey(e)
      BY <2>1 DEF Dispatch
    <3>2. focused' \subseteq Window /\ excused' \subseteq Key
      BY <3>1 DEF DispatchKey, TypeOK
    <3>3. CASE e.win \in windows
      <4>1. EmitKey(e.win, e.key, e.kind = "KEY_PRESS",
                    e.kind = "KEY_PRESS" /\ e.key \in keys)
        BY <3>1, <3>3 DEF DispatchKey
      <4> QED BY <3>2, <4>1, <1>3, EmitKeyType
    <3>4. CASE e.win \notin windows
      BY <3>1, <3>2, <3>4 DEF DispatchKey, TypeOK
    <3> QED BY <3>3, <3>4
  <2>2. CASE e.kind \notin {"KEY_PRESS", "KEY_RELEASE"}
    <3>1. DispatchFocus(e)
      BY <2>2 DEF Dispatch
    <3>2. excused' \subseteq Key
      BY <3>1 DEF DispatchFocus, TypeOK
    <3>3. CASE e.win \in windows /\ e.kind \in {"FOCUS_IN", "FOCUS_OUT"}
      <4>1. EmitFocus(e.win, e.kind = "FOCUS_IN")
        BY <3>1, <3>3 DEF DispatchFocus
      <4> QED BY <3>2, <4>1, <1>3, EmitFocusType
    <3>4. CASE ~(e.win \in windows /\ e.kind \in {"FOCUS_IN", "FOCUS_OUT"})
      BY <3>1, <3>2, <3>4 DEF DispatchFocus, TypeOK
    <3> QED BY <3>3, <3>4
  <2> QED BY <2>1, <2>2
<1>5. UNCHANGED <<srvFocus, held, grabbed, gl, initialized, windows, created, seen>>
  BY DEF Dispatch
<1> QED BY <1>2, <1>4, <1>5 DEF TypeOK, gl

LEMMA ServerType == TypeOK /\ Server => TypeOK'
<1> SUFFICES ASSUME TypeOK, Server PROVE TypeOK'
  OBVIOUS
<1> USE DEF ServerOnly, gl, input
<1>1. ASSUME NEW w \in windows \cup {NoWindow}, SrvFocus(w) PROVE TypeOK'
  <2>1. w \in Window \cup {NoWindow}
    BY DEF TypeOK
  <2>2. wire' \in Seq(RawEvent)
    BY <1>1, <2>1, FocusEventsType, SendType DEF SrvFocus, TypeOK
  <2> QED BY <1>1, <2>1, <2>2 DEF SrvFocus, TypeOK
<1>2. ASSUME NEW k \in Key \cup {NoKey}, SrvKeyDown(k) PROVE TypeOK'
  <2>1. wire' \in Seq(RawEvent)
    BY <1>2, DeliverType DEF SrvKeyDown, RawKind
  <2> QED BY <1>2, <2>1 DEF SrvKeyDown, TypeOK
<1>3. ASSUME NEW k \in Key, SrvKeyUp(k) PROVE TypeOK'
  <2>1. wire' \in Seq(RawEvent)
    BY <1>3, DeliverType DEF SrvKeyUp, RawKind
  <2> QED BY <1>3, <2>1 DEF SrvKeyUp, TypeOK
<1>4. CASE SrvGrab
  <2>1. Raw("FOCUS_OUT_GRAB", srvFocus, NoKey) \in RawEvent
    BY <1>4, RawType DEF SrvGrab, TypeOK, RawKind
  <2>2. wire' \in Seq(RawEvent)
    <3>1. <<Raw("FOCUS_OUT_GRAB", srvFocus, NoKey)>> \in Seq(RawEvent)
      BY <2>1
    <3>2. Send(<<Raw("FOCUS_OUT_GRAB", srvFocus, NoKey)>>) /\ wire \in Seq(RawEvent)
      BY <1>4 DEF SrvGrab, TypeOK
    <3> QED BY <3>1, <3>2, SendType
  <2> QED BY <1>4, <2>2 DEF SrvGrab, TypeOK
<1>5. CASE SrvUngrab
  <2>1. wire' \in Seq(RawEvent)
    <3>1. CASE srvFocus = NoWindow
      BY <1>5, <3>1 DEF SrvUngrab, TypeOK
    <3>2. CASE srvFocus # NoWindow
      <4>1. Raw("FOCUS_IN_UNGRAB", srvFocus, NoKey) \in RawEvent
        BY <3>2, RawType DEF TypeOK, RawKind
      <4>2. <<Raw("FOCUS_IN_UNGRAB", srvFocus, NoKey)>> \in Seq(RawEvent)
        BY <4>1
      <4>3. Send(<<Raw("FOCUS_IN_UNGRAB", srvFocus, NoKey)>>) /\ wire \in Seq(RawEvent)
        BY <1>5, <3>2 DEF SrvUngrab, TypeOK
      <4> QED BY <4>2, <4>3, SendType
    <3> QED BY <3>1, <3>2
  <2> QED BY <1>5, <2>1 DEF SrvUngrab, TypeOK
<1> QED BY <1>1, <1>2, <1>3, <1>4, <1>5 DEF Server

LEMMA ApplicationType == TypeOK /\ Application => TypeOK'
<1> SUFFICES ASSUME TypeOK, Application PROVE TypeOK'
  OBVIOUS
<1> USE DEF server, gl, input
<1>1. CASE Pop
  <2>1. PICK e \in queue :
          /\ queue' = queue \ {e}
          /\ stamp' = IF queue' = {} THEN 0 ELSE stamp
          /\ seen' = [seen EXCEPT ![e.win] =
                        CASE e.type = "KEY_DOWN" -> @ \cup ({e.key} \cap Key)
                          [] e.type = "KEY_UP"   -> @ \ {e.key}
                          [] OTHER -> @]
    BY <1>1 DEF Pop
  <2>2. seen' \in [Window -> SUBSET Key]
    <3>1. e.win \in Window
      BY DEF TypeOK, Event
    <3>2. (CASE e.type = "KEY_DOWN" -> seen[e.win] \cup ({e.key} \cap Key)
             [] e.type = "KEY_UP"   -> seen[e.win] \ {e.key}
             [] OTHER -> seen[e.win]) \in SUBSET Key
      BY <3>1 DEF TypeOK
    <3> QED BY <2>1, <3>1, <3>2 DEF TypeOK
  <2> QED BY <1>1, <2>1, <2>2 DEF Pop, TypeOK
<1>2. CASE WinInit
  BY <1>2 DEF WinInit, TypeOK
<1>3. ASSUME NEW w \in Window, Create(w) PROVE TypeOK'
  BY <1>3 DEF Create, TypeOK
<1>4. ASSUME NEW w \in Window, Destroy(w) PROVE TypeOK'
  BY <1>4 DEF Destroy, PurgeWindowEvents, TypeOK
<1>5. CASE Shutdown
  <2>1. wire' \in Seq(RawEvent) /\ stamp' \in Nat
    BY <1>5 DEF Shutdown
  <2>2. seen' \in [Window -> SUBSET Key]
    BY <1>5 DEF Shutdown
  <2> QED BY <1>5, <2>1, <2>2 DEF Shutdown, TypeOK
<1>6. ASSUME NEW c \in Context, ContextCreate(c) PROVE TypeOK'
  BY <1>6 DEF ContextCreate, TypeOK
<1>7. ASSUME NEW c \in Context, ContextDestroy(c) PROVE TypeOK'
  BY <1>7 DEF ContextDestroy, TypeOK
<1>8. ASSUME NEW w \in Window, NEW c \in Context \cup {NoContext}, MakeCurrent(w, c)
      PROVE TypeOK'
  BY <1>8 DEF MakeCurrent, TypeOK
<1> QED BY <1>1, <1>2, <1>3, <1>4, <1>5, <1>6, <1>7, <1>8 DEF Application

\* Every reachable state is well typed.
THEOREM TypeCorrect == Spec => []TypeOK
<1>1. TypeOK /\ [Next]_vars => TypeOK'
  <2> SUFFICES ASSUME TypeOK, [Next]_vars PROVE TypeOK'
    OBVIOUS
  <2>1. CASE UNCHANGED vars
    BY <2>1 DEF vars, server, gl, input, TypeOK
  <2> QED BY <2>1, ServerType, DispatchType, ApplicationType DEF Next
<1> QED BY <1>1, InitType, PTL DEF Spec

-----------------------------------------------------------------------------
(* No dangling events *)

\* Nothing the server does by itself touches the library or the application.
LEMMA ServerKeeps ==
  ASSUME Server
  PROVE  UNCHANGED <<gl, input, initialized, windows, created, seen>>
<1>1. ASSUME NEW w \in windows \cup {NoWindow}, SrvFocus(w)
      PROVE ServerOnly
  BY <1>1 DEF SrvFocus
<1>2. ASSUME NEW k \in Key \cup {NoKey}, SrvKeyDown(k) PROVE ServerOnly
  BY <1>2 DEF SrvKeyDown
<1>3. ASSUME NEW k \in Key, SrvKeyUp(k) PROVE ServerOnly
  BY <1>3 DEF SrvKeyUp
<1>4. CASE SrvGrab
  BY <1>4 DEF SrvGrab, ServerOnly
<1>5. CASE SrvUngrab
  BY <1>5 DEF SrvUngrab, ServerOnly
<1> QED BY <1>1, <1>2, <1>3, <1>4, <1>5 DEF Server, ServerOnly

\* An event nack__emit_key queues names the window it was given.
LEMMA EmitKeyWindow ==
  ASSUME NoDanglingEvent, NEW w \in windows, NEW k, NEW down \in BOOLEAN,
         NEW repeat \in BOOLEAN, EmitKey(w, k, down, repeat)
  PROVE  \A e \in queue' : e.win \in windows
BY DEF EmitKey, EventBegin, NoDanglingEvent

\* So do the releases and the focus event nack__emit_focus queues.
LEMMA EmitFocusWindow ==
  ASSUME NoDanglingEvent, NEW w \in windows, NEW gained \in BOOLEAN,
         EmitFocus(w, gained)
  PROVE  \A e \in queue' : e.win \in windows
<1>1. CASE (w \in focused) = gained
  BY <1>1 DEF EmitFocus, NoDanglingEvent
<1>2. CASE (w \in focused) # gained
  <2> DEFINE ups  == {EventBegin(stamp + 1, "KEY_UP", w, k, FALSE) : k \in keys}
             last == EventBegin(stamp + 2, IF gained THEN "FOCUS" ELSE "BLUR",
                                w, NoKey, FALSE)
  <2>1. queue' \subseteq queue \cup ups \cup {last}
    BY <1>2 DEF EmitFocus
  <2>2. \A e \in ups : e.win = w
    BY DEF EventBegin
  <2>3. last.win = w
    BY DEF EventBegin
  <2> QED BY <2>1, <2>2, <2>3 DEF NoDanglingEvent
<1> QED BY <1>1, <1>2

\* No event the application can pop names a window that has been deleted.
THEOREM NoDangling == Spec => []NoDanglingEvent
<1>1. Init => NoDanglingEvent
  BY DEF Init, NoDanglingEvent
<1>2. NoDanglingEvent /\ [Next]_vars => NoDanglingEvent'
  <2> SUFFICES ASSUME NoDanglingEvent, [Next]_vars PROVE NoDanglingEvent'
    OBVIOUS
  <2> USE DEF server, gl, input
  <2>1. CASE Server
    BY <2>1, ServerKeeps DEF NoDanglingEvent
  <2>2. CASE Dispatch
    <3> DEFINE e == Head(wire)
    <3>1. windows' = windows
      BY <2>2 DEF Dispatch
    <3>2. CASE DispatchKey(e)
      <4>1. CASE e.win \in windows
        BY <3>1, <3>2, <4>1, EmitKeyWindow DEF DispatchKey, NoDanglingEvent
      <4>2. CASE e.win \notin windows
        BY <3>1, <3>2, <4>2 DEF DispatchKey, NoDanglingEvent
      <4> QED BY <4>1, <4>2
    <3>3. CASE DispatchFocus(e)
      <4>1. CASE e.win \in windows /\ e.kind \in {"FOCUS_IN", "FOCUS_OUT"}
        BY <3>1, <3>3, <4>1, EmitFocusWindow DEF DispatchFocus, NoDanglingEvent
      <4>2. CASE ~(e.win \in windows /\ e.kind \in {"FOCUS_IN", "FOCUS_OUT"})
        BY <3>1, <3>3, <4>2 DEF DispatchFocus, NoDanglingEvent
      <4> QED BY <4>1, <4>2
    <3> QED BY <2>2, <3>2, <3>3 DEF Dispatch
  <2>3. CASE Pop
    BY <2>3 DEF Pop, NoDanglingEvent
  <2>4. CASE WinInit
    BY <2>4 DEF WinInit, NoDanglingEvent
  <2>5. ASSUME NEW w \in Window, Create(w) PROVE NoDanglingEvent'
    BY <2>5 DEF Create, NoDanglingEvent
  <2>6. ASSUME NEW w \in Window, Destroy(w) PROVE NoDanglingEvent'
    BY <2>6 DEF Destroy, PurgeWindowEvents, NoDanglingEvent
  <2>7. CASE Shutdown
    BY <2>7 DEF Shutdown, NoDanglingEvent
  <2>8. ASSUME NEW c \in Context, ContextCreate(c) \/ ContextDestroy(c)
        PROVE NoDanglingEvent'
    BY <2>8 DEF ContextCreate, ContextDestroy, NoDanglingEvent
  <2>9. ASSUME NEW w \in Window, NEW c \in Context \cup {NoContext}, MakeCurrent(w, c)
        PROVE NoDanglingEvent'
    BY <2>9 DEF MakeCurrent, NoDanglingEvent
  <2>10. CASE UNCHANGED vars
    BY <2>10 DEF vars, NoDanglingEvent
  <2> QED BY <2>1, <2>2, <2>3, <2>4, <2>5, <2>6, <2>7, <2>8, <2>9, <2>10
          DEF Next, Application
<1> QED BY <1>1, <1>2, PTL DEF Spec

-----------------------------------------------------------------------------
(* The current context *)

\* The library never holds a current window or context that is not live, and
\* never one without the other.
THEOREM CurrentLive == Spec => []CurrentIsLive
<1>1. Init => CurrentIsLive
  BY DEF Init, CurrentIsLive
<1>2. CurrentIsLive /\ [Next]_vars => CurrentIsLive'
  <2> SUFFICES ASSUME CurrentIsLive, [Next]_vars PROVE CurrentIsLive'
    OBVIOUS
  <2> USE DEF server, gl, input
  <2>1. CASE Server
    BY <2>1, ServerKeeps DEF CurrentIsLive
  <2>2. CASE Dispatch
    BY <2>2 DEF Dispatch, CurrentIsLive
  <2>3. CASE Pop
    BY <2>3 DEF Pop, CurrentIsLive
  <2>4. CASE WinInit
    BY <2>4 DEF WinInit, CurrentIsLive
  <2>5. ASSUME NEW w \in Window, Create(w) PROVE CurrentIsLive'
    BY <2>5 DEF Create, CurrentIsLive
  <2>6. ASSUME NEW w \in Window, Destroy(w) PROVE CurrentIsLive'
    BY <2>6 DEF Destroy, CurrentIsLive
  <2>7. CASE Shutdown
    BY <2>7 DEF Shutdown, CurrentIsLive
  <2>8. ASSUME NEW c \in Context, ContextCreate(c) PROVE CurrentIsLive'
    BY <2>8 DEF ContextCreate, CurrentIsLive
  <2>9. ASSUME NEW c \in Context, ContextDestroy(c) PROVE CurrentIsLive'
    BY <2>9 DEF ContextDestroy, CurrentIsLive
  <2>10. ASSUME NEW w \in Window, NEW c \in Context \cup {NoContext}, MakeCurrent(w, c)
         PROVE CurrentIsLive'
    BY <2>10 DEF MakeCurrent, CurrentIsLive
  <2>11. CASE UNCHANGED vars
    BY <2>11 DEF vars, CurrentIsLive
  <2> QED BY <2>1, <2>2, <2>3, <2>4, <2>5, <2>6, <2>7, <2>8, <2>9, <2>10, <2>11
          DEF Next, Application
<1> QED BY <1>1, <1>2, PTL DEF Spec

-----------------------------------------------------------------------------
(* Focus stories *)

\* A story goes on with another that begins where it ends.
LEMMA StoryConcat ==
  ASSUME NEW live, NEW s \in Seq(RawEvent), NEW t \in Seq(RawEvent),
         NEW f, NEW g, FocusStory(live, s, f), FocusStory(live, t, g),
         g[0] = f[Len(s)]
  PROVE  \E h :
           /\ FocusStory(live, s \o t, h)
           /\ h[0] = f[0]
           /\ h[Len(s \o t)] = g[Len(t)]
<1> DEFINE h == [i \in 0..Len(s \o t) |-> IF i <= Len(s) THEN f[i] ELSE g[i - Len(s)]]
<1>1. Len(s) \in Nat /\ Len(t) \in Nat /\ Len(s \o t) = Len(s) + Len(t)
  OBVIOUS
<1>2. h \in [0..Len(s \o t) -> live \cup {NoWindow}]
  BY <1>1 DEF FocusStory
<1>3. ASSUME NEW i \in 1..Len(s \o t)
      PROVE FocusStep(live, (s \o t)[i], h[i - 1], h[i])
  <2>1. CASE i <= Len(s)
    <3>1. (s \o t)[i] = s[i] /\ h[i - 1] = f[i - 1] /\ h[i] = f[i]
      BY <1>1, <2>1
    <3>2. FocusStep(live, s[i], f[i - 1], f[i])
      BY <1>1, <2>1 DEF FocusStory
    <3> QED BY <3>1, <3>2
  <2>2. CASE i > Len(s)
    <3> DEFINE j == i - Len(s)
    <3>1. j \in 1..Len(t)
      BY <1>1, <2>2
    <3>2. (s \o t)[i] = t[j] /\ h[i] = g[j]
      BY <1>1, <2>2
    <3>3. h[i - 1] = g[j - 1]
      <4>1. CASE j = 1
        <5>1. i - 1 = Len(s) /\ j - 1 = 0
          BY <1>1, <4>1
        <5> QED BY <1>1, <5>1
      <4>2. CASE j # 1
        <5>1. i - 1 \in 0..Len(s \o t) /\ i - 1 > Len(s) /\ (i - 1) - Len(s) = j - 1
          BY <1>1, <2>2, <4>2
        <5>2. ~(i - 1 <= Len(s))
          BY <1>1, <5>1
        <5> QED BY <5>1, <5>2
      <4> QED BY <4>1, <4>2
    <3>4. FocusStep(live, t[j], g[j - 1], g[j])
      BY <3>1 DEF FocusStory
    <3> QED BY <3>2, <3>3, <3>4
  <2> QED BY <1>1, <2>1, <2>2
<1>4. h[0] = f[0]
  BY <1>1
<1>5. h[Len(s \o t)] = g[Len(t)]
  <2>1. CASE Len(t) = 0
    BY <1>1, <2>1
  <2>2. CASE Len(t) # 0
    BY <1>1, <2>2
  <2> QED BY <2>1, <2>2
<1> HIDE DEF h
<1> QED BY <1>2, <1>3, <1>4, <1>5 DEF FocusStory

\* Dispatching the head of the wire drops the first chapter.
LEMMA StoryTail ==
  ASSUME NEW live, NEW s \in Seq(RawEvent), s # << >>, NEW f, FocusStory(live, s, f)
  PROVE  \E h :
           /\ FocusStory(live, Tail(s), h)
           /\ h[0] = f[1]
           /\ h[Len(Tail(s))] = f[Len(s)]
<1> DEFINE h == [i \in 0..Len(Tail(s)) |-> f[i + 1]]
<1>1. Len(s) \in Nat \ {0} /\ Len(Tail(s)) = Len(s) - 1
  OBVIOUS
<1>2. h \in [0..Len(Tail(s)) -> live \cup {NoWindow}]
  BY <1>1 DEF FocusStory
<1>3. ASSUME NEW i \in 1..Len(Tail(s))
      PROVE FocusStep(live, Tail(s)[i], h[i - 1], h[i])
  <2>1. Tail(s)[i] = s[i + 1] /\ h[i - 1] = f[(i + 1) - 1] /\ h[i] = f[i + 1]
    BY <1>1
  <2>2. i + 1 \in 1..Len(s)
    BY <1>1
  <2>3. FocusStep(live, s[i + 1], f[(i + 1) - 1], f[i + 1])
    BY <2>2 DEF FocusStory
  <2> QED BY <2>1, <2>3
<1>4. h[0] = f[1] /\ h[Len(Tail(s))] = f[Len(s)]
  BY <1>1
<1> HIDE DEF h
<1> QED BY <1>2, <1>3, <1>4 DEF FocusStory

Without(v, w) == IF v = w THEN NoWindow ELSE v

\* When a window is destroyed, what was told of it is told of no window.
LEMMA StoryWithout ==
  ASSUME NEW live, NEW w \in live, NEW s \in Seq(RawEvent), NEW f,
         FocusStory(live, s, f), NoWindow \notin live,
         NEW h, h = [i \in 0..Len(s) |-> Without(f[i], w)]
  PROVE  /\ FocusStory(live \ {w}, s, h)
         /\ h[0] = Without(f[0], w)
         /\ h[Len(s)] = Without(f[Len(s)], w)
<1>1. Len(s) \in Nat
  OBVIOUS
<1>2. h \in [0..Len(s) -> (live \ {w}) \cup {NoWindow}]
  BY <1>1 DEF FocusStory, Without
<1>3. ASSUME NEW i \in 1..Len(s)
      PROVE FocusStep(live \ {w}, s[i], h[i - 1], h[i])
  <2>1. FocusStep(live, s[i], f[i - 1], f[i])
    BY DEF FocusStory
  <2>2. /\ h[i - 1] = Without(f[i - 1], w)
        /\ h[i] = Without(f[i], w)
    BY <1>1
  <2> QED BY <2>1, <2>2 DEF FocusStep, Without
<1>4. /\ h[0] = Without(f[0], w)
      /\ h[Len(s)] = Without(f[Len(s)], w)
  BY <1>1
<1> QED BY <1>2, <1>3, <1>4 DEF FocusStory

\* A window nothing has been said of may join.
LEMMA StoryWith ==
  ASSUME NEW live, NEW s \in Seq(RawEvent), NEW f, FocusStory(live, s, f), NEW w,
         \A i \in 1..Len(s) : s[i].win # w
  PROVE  FocusStory(live \cup {w}, s, f)
BY DEF FocusStory, FocusStep

-----------------------------------------------------------------------------
(* The server sends one story *)

LEMMA FocusIsTrackedAfterSend ==
  ASSUME TypeOK, FocusIsTracked, windows' = windows, focused' = focused,
         NEW t \in Seq(RawEvent), wire' = wire \o t,
         NEW g, FocusStory(windows, t, g), g[0] = srvFocus, g[Len(t)] = srvFocus'
  PROVE  FocusIsTracked'
<1>1. PICK f \in [0..Len(wire) -> windows \cup {NoWindow}] :
        /\ FocusStory(windows, wire, f)
        /\ focused = {f[0]} \cap windows
        /\ f[Len(wire)] = srvFocus
  BY DEF FocusIsTracked
<1>2. PICK h :
        /\ FocusStory(windows, wire \o t, h)
        /\ h[0] = f[0]
        /\ h[Len(wire \o t)] = g[Len(t)]
  <2>1. wire \in Seq(RawEvent) /\ g[0] = f[Len(wire)] /\ FocusStory(windows, wire, f)
    BY <1>1 DEF TypeOK
  <2> QED BY <2>1, StoryConcat
<1>3. /\ h \in [0..Len(wire') -> windows' \cup {NoWindow}]
      /\ FocusStory(windows', wire', h)
      /\ focused' = {h[0]} \cap windows'
      /\ h[Len(wire')] = srvFocus'
  BY <1>1, <1>2 DEF FocusStory
<1> QED BY <1>3 DEF FocusIsTracked

\* One event that does not move the focus.
LEMMA QuietStory ==
  ASSUME NEW live, NEW e \in RawEvent, NEW w \in live \cup {NoWindow},
         FocusStep(live, e, w, w)
  PROVE  FocusStory(live, <<e>>, [i \in 0..1 |-> w])
BY DEF FocusStory

\* The server focuses live windows only.
LEMMA SrvFocusLive ==
  ASSUME TypeOK, FocusIsTracked
  PROVE  srvFocus \in windows \cup {NoWindow}
<1>1. Len(wire) \in Nat
  BY DEF TypeOK
<1> QED BY <1>1 DEF FocusIsTracked

LEMMA DeliverTracked ==
  ASSUME TypeOK, FocusIsTracked, windows' = windows, focused' = focused,
         srvFocus' = srvFocus, NEW kind \in {"KEY_PRESS", "KEY_RELEASE"},
         NEW k \in Key \cup {NoKey}, Deliver(kind, k)
  PROVE  FocusIsTracked'
<1>1. CASE srvFocus = NoWindow \/ grabbed
  <2>1. wire' = wire
    BY <1>1 DEF Deliver
  <2> QED BY <2>1 DEF FocusIsTracked
<1>2. CASE ~(srvFocus = NoWindow \/ grabbed)
  <2> DEFINE e == Raw(kind, srvFocus, k)
             g == [i \in 0..1 |-> srvFocus]
  <2>1. srvFocus \in windows
    BY <1>2, SrvFocusLive
  <2>2. e \in RawEvent
    BY <2>1, RawType DEF RawKind, TypeOK
  <2>3. wire' = wire \o <<e>>
    BY <1>2 DEF Deliver, Send
  <2>4. FocusStep(windows, e, srvFocus, srvFocus)
    BY DEF FocusStep, Raw
  <2>5. FocusStory(windows, <<e>>, g)
    BY <2>1, <2>2, <2>4, QuietStory
  <2>6. <<e>> \in Seq(RawEvent) /\ Len(<<e>>) = 1 /\ g[0] = srvFocus /\ g[1] = srvFocus
    BY <2>2
  <2> HIDE DEF e, g
  <2> QED BY <2>3, <2>5, <2>6, FocusIsTrackedAfterSend
<1> QED BY <1>1, <1>2

\* The events of a keyboard grab leave the focus where it is.
LEMMA GrabTracked ==
  ASSUME TypeOK, FocusIsTracked, windows' = windows, focused' = focused,
         srvFocus' = srvFocus, srvFocus # NoWindow,
         NEW kind \in {"FOCUS_OUT_GRAB", "FOCUS_IN_UNGRAB"},
         Send(<<Raw(kind, srvFocus, NoKey)>>)
  PROVE  FocusIsTracked'
<1> DEFINE e == Raw(kind, srvFocus, NoKey)
           g == [i \in 0..1 |-> srvFocus]
<1>1. srvFocus \in windows
  BY SrvFocusLive
<1>2. e \in RawEvent
  BY <1>1, RawType DEF RawKind, TypeOK
<1>3. wire' = wire \o <<e>>
  BY DEF Send
<1>4. FocusStep(windows, e, srvFocus, srvFocus)
  BY DEF FocusStep, Raw
<1>5. FocusStory(windows, <<e>>, g)
  BY <1>1, <1>2, <1>4, QuietStory
<1>6. <<e>> \in Seq(RawEvent) /\ Len(<<e>>) = 1 /\ g[0] = srvFocus /\ g[1] = srvFocus
  BY <1>2
<1> HIDE DEF e, g
<1> QED BY <1>3, <1>5, <1>6, FocusIsTrackedAfterSend

\* FocusOut before FocusIn.
LEMMA MoveTracked ==
  ASSUME TypeOK, FocusIsTracked, NEW w \in windows \cup {NoWindow}, SrvFocus(w)
  PROVE  FocusIsTracked'
<1> DEFINE out == Raw("FOCUS_OUT", srvFocus, NoKey)
           in  == Raw("FOCUS_IN", w, NoKey)
<1>0. /\ windows' = windows /\ focused' = focused /\ srvFocus' = w /\ w # srvFocus
  BY DEF SrvFocus, ServerOnly, input
<1>1. srvFocus \in windows \cup {NoWindow} /\ NoWindow \notin windows
  BY SrvFocusLive, NullAssumption DEF TypeOK
<1>2. CASE srvFocus = NoWindow
  <2> DEFINE g == [i \in 0..1 |-> IF i = 0 THEN NoWindow ELSE w]
  <2>1. in \in RawEvent
    BY <1>0, <1>2, RawType DEF RawKind, TypeOK
  <2>2. wire' = wire \o <<in>>
    BY <1>0, <1>2, <2>1 DEF SrvFocus, Send
  <2>3. FocusStep(windows, in, NoWindow, w)
    BY <1>0, <1>2 DEF FocusStep, Raw
  <2>4. FocusStory(windows, <<in>>, g)
    BY <2>1, <2>3 DEF FocusStory
  <2>5. <<in>> \in Seq(RawEvent) /\ Len(<<in>>) = 1 /\ g[0] = srvFocus /\ g[1] = srvFocus'
    BY <1>0, <1>2, <2>1
  <2> HIDE DEF g, in
  <2> QED BY <1>0, <2>2, <2>4, <2>5, FocusIsTrackedAfterSend
<1>3. CASE srvFocus # NoWindow /\ w = NoWindow
  <2> DEFINE g == [i \in 0..1 |-> IF i = 0 THEN srvFocus ELSE NoWindow]
  <2>1. out \in RawEvent
    BY <1>1, <1>3, RawType DEF RawKind, TypeOK
  <2>2. wire' = wire \o <<out>>
    BY <1>3, <2>1 DEF SrvFocus, Send
  <2>3. FocusStep(windows, out, srvFocus, NoWindow)
    BY <1>1, <1>3 DEF FocusStep, Raw
  <2>4. FocusStory(windows, <<out>>, g)
    BY <1>1, <2>1, <2>3 DEF FocusStory
  <2>5. <<out>> \in Seq(RawEvent) /\ Len(<<out>>) = 1 /\ g[0] = srvFocus /\ g[1] = srvFocus'
    BY <1>0, <1>3, <2>1
  <2> HIDE DEF g, out
  <2> QED BY <1>0, <2>2, <2>4, <2>5, FocusIsTrackedAfterSend
<1>4. CASE srvFocus # NoWindow /\ w # NoWindow
  <2> DEFINE g == [i \in 0..2 |-> IF i = 0 THEN srvFocus
                                  ELSE IF i = 1 THEN NoWindow ELSE w]
             t == <<out, in>>
  <2>1. out \in RawEvent /\ in \in RawEvent
    BY <1>1, <1>4, RawType DEF RawKind, TypeOK
  <2>2. wire' = wire \o t
    BY <1>4, <2>1 DEF SrvFocus, Send
  <2>3. FocusStep(windows, out, srvFocus, NoWindow) /\ FocusStep(windows, in, NoWindow, w)
    BY <1>1, <1>4 DEF FocusStep, Raw
  <2>4. t \in Seq(RawEvent) /\ Len(t) = 2 /\ t[1] = out /\ t[2] = in
    BY <2>1
  <2>5. FocusStory(windows, t, g)
    <3>1. g \in [0..2 -> windows \cup {NoWindow}]
      BY <1>1
    <3>2. \A i \in 1..2 : i = 1 \/ i = 2
      OBVIOUS
    <3>3. g[1 - 1] = srvFocus /\ g[1] = NoWindow /\ g[2 - 1] = NoWindow /\ g[2] = w
      OBVIOUS
    <3> HIDE DEF g, t, out, in
    <3> QED BY <2>3, <2>4, <3>1, <3>2, <3>3 DEF FocusStory
  <2>6. g[0] = srvFocus /\ g[2] = srvFocus'
    BY <1>0
  <2> HIDE DEF g, t
  <2> QED BY <1>0, <2>2, <2>4, <2>5, <2>6, FocusIsTrackedAfterSend
<1> QED BY <1>2, <1>3, <1>4

-----------------------------------------------------------------------------
(* What tracking gives at any moment *)

\* No two windows have their focus flag set.
LEMMA OneFocus ==
  ASSUME FocusIsTracked
  PROVE  focused \subseteq windows /\ \A v, w \in focused : v = w
BY DEF FocusIsTracked

\* The event about to be dispatched finds the focus where the server had it.
LEMMA HeadFindsFocus ==
  ASSUME TypeOK, FocusIsTracked, wire # << >>, Head(wire).win \in windows
  PROVE  /\ Head(wire).kind = "FOCUS_IN" => focused = {}
         /\ Head(wire).kind \in {"FOCUS_OUT", "KEY_PRESS", "KEY_RELEASE"}
              => focused = {Head(wire).win}
<1>1. PICK f : FocusStory(windows, wire, f) /\ focused = {f[0]} \cap windows
  BY DEF FocusIsTracked
<1>2. 1 \in 1..Len(wire) /\ wire[1] = Head(wire)
  BY DEF TypeOK
<1>3. FocusStep(windows, wire[1], f[1 - 1], f[1])
  BY <1>1, <1>2 DEF FocusStory
<1>4. FocusStep(windows, Head(wire), f[0], f[1])
  BY <1>2, <1>3
<1>5. NoWindow \notin windows
  BY NullAssumption DEF TypeOK
<1> QED BY <1>1, <1>4, <1>5 DEF FocusStep

-----------------------------------------------------------------------------
(* The library follows the story *)

LEMMA DispatchTracked ==
  ASSUME TypeOK, FocusIsTracked, Dispatch
  PROVE  FocusIsTracked'
<1> DEFINE e == Head(wire)
<1>1. /\ wire # << >> /\ wire' = Tail(wire) /\ windows' = windows
      /\ srvFocus' = srvFocus
  BY DEF Dispatch
<1>2. PICK f : /\ FocusStory(windows, wire, f)
               /\ focused = {f[0]} \cap windows
               /\ f[Len(wire)] = srvFocus
  BY DEF FocusIsTracked
<1>3. FocusStep(windows, e, f[0], f[1])
  <2>1. 1 \in 1..Len(wire) /\ wire[1] = Head(wire)
    BY <1>1 DEF TypeOK
  <2>2. FocusStep(windows, wire[1], f[1 - 1], f[1])
    BY <1>2, <2>1 DEF FocusStory
  <2> QED BY <2>1, <2>2
<1>4. focused' = {f[1]} \cap windows
  <2>1. CASE e.kind \in {"KEY_PRESS", "KEY_RELEASE"}
    <3>1. focused' = focused
      BY <2>1 DEF Dispatch, DispatchKey
    <3>2. f[1] = f[0]
      BY <1>3, <2>1 DEF FocusStep
    <3> QED BY <1>2, <3>1, <3>2
  <2>2. CASE e.kind \notin {"KEY_PRESS", "KEY_RELEASE"}
    <3>1. DispatchFocus(e)
      BY <2>2 DEF Dispatch
    <3>2. NoWindow \notin windows
      BY NullAssumption DEF TypeOK
    <3>3. CASE e.win \in windows /\ e.kind = "FOCUS_IN"
      <4>1. EmitFocus(e.win, TRUE)
        BY <3>1, <3>3 DEF DispatchFocus
      <4>2. focused = {}
        BY <1>1, <3>3, HeadFindsFocus
      <4>3. focused' = {e.win}
        BY <4>1, <4>2 DEF EmitFocus
      <4>4. f[1] = e.win
        BY <1>3, <3>3 DEF FocusStep
      <4> QED BY <3>3, <4>3, <4>4
    <3>4. CASE e.win \in windows /\ e.kind = "FOCUS_OUT"
      <4>1. EmitFocus(e.win, FALSE)
        BY <3>1, <3>4 DEF DispatchFocus
      <4>2. focused = {e.win}
        BY <1>1, <3>4, HeadFindsFocus
      <4>3. focused' = {}
        BY <4>1, <4>2 DEF EmitFocus
      <4>4. f[1] = NoWindow
        BY <1>3, <3>4 DEF FocusStep
      <4> QED BY <3>2, <4>3, <4>4
    <3>5. CASE ~(e.win \in windows /\ e.kind \in {"FOCUS_IN", "FOCUS_OUT"})
      <4>1. focused' = focused
        BY <3>1, <3>5 DEF DispatchFocus
      <4>2. f[1] = f[0]
        BY <1>3, <3>5 DEF FocusStep
      <4> QED BY <1>2, <4>1, <4>2
    <3> QED BY <3>3, <3>4, <3>5
  <2> QED BY <2>1, <2>2
<1>5. PICK h : /\ FocusStory(windows, Tail(wire), h)
               /\ h[0] = f[1]
               /\ h[Len(Tail(wire))] = f[Len(wire)]
  <2>1. wire \in Seq(RawEvent)
    BY DEF TypeOK
  <2> QED BY <1>1, <1>2, <2>1, StoryTail
<1>6. /\ h \in [0..Len(wire') -> windows' \cup {NoWindow}]
      /\ FocusStory(windows', wire', h)
      /\ focused' = {h[0]} \cap windows'
      /\ h[Len(wire')] = srvFocus'
  BY <1>1, <1>2, <1>4, <1>5 DEF FocusStory
<1> QED BY <1>6 DEF FocusIsTracked

LEMMA DestroyTracked ==
  ASSUME TypeOK, FocusIsTracked, NEW w \in windows, Destroy(w)
  PROVE  FocusIsTracked'
<1>1. /\ wire' = wire /\ windows' = windows \ {w} /\ focused' = focused \ {w}
      /\ srvFocus' = IF srvFocus = w THEN NoWindow ELSE srvFocus
  BY DEF Destroy
<1>2. PICK f : /\ FocusStory(windows, wire, f)
               /\ focused = {f[0]} \cap windows
               /\ f[Len(wire)] = srvFocus
  BY DEF FocusIsTracked
<1>3. NoWindow \notin windows /\ wire \in Seq(RawEvent)
  BY NullAssumption DEF TypeOK
<1> DEFINE h == [i \in 0..Len(wire) |-> Without(f[i], w)]
<1>4. /\ FocusStory(windows \ {w}, wire, h)
      /\ h[0] = Without(f[0], w)
      /\ h[Len(wire)] = Without(f[Len(wire)], w)
  BY <1>2, <1>3, StoryWithout
<1> HIDE DEF h
<1>5. focused' = {h[0]} \cap windows'
  BY <1>1, <1>2, <1>3, <1>4 DEF Without
<1>6. /\ h \in [0..Len(wire') -> windows' \cup {NoWindow}]
      /\ FocusStory(windows', wire', h)
      /\ h[Len(wire')] = srvFocus'
  BY <1>1, <1>2, <1>4 DEF FocusStory, Without
<1> QED BY <1>5, <1>6 DEF FocusIsTracked

LEMMA CreateTracked ==
  ASSUME TypeOK, FocusIsTracked, Bookkeeping, NEW w \in Window, Create(w)
  PROVE  FocusIsTracked'
<1>1. /\ wire' = wire /\ windows' = windows \cup {w} /\ focused' = focused
      /\ srvFocus' = srvFocus /\ w \notin windows
      /\ \A i \in 1..Len(wire) : wire[i].win # w
  BY DEF Create, server, input, Bookkeeping
<1>2. PICK f : /\ FocusStory(windows, wire, f)
               /\ focused = {f[0]} \cap windows
               /\ f[Len(wire)] = srvFocus
  BY DEF FocusIsTracked
<1>3. Len(wire) \in Nat
  BY DEF TypeOK
<1>4. f[0] \in windows \cup {NoWindow}
  BY <1>2, <1>3 DEF FocusStory
<1>5. focused' = {f[0]} \cap windows'
  BY <1>1, <1>2, <1>4, NullAssumption
<1>6. FocusStory(windows \cup {w}, wire, f)
  <2>1. wire \in Seq(RawEvent) /\ FocusStory(windows, wire, f)
    BY <1>2 DEF TypeOK
  <2> QED BY <1>1, <2>1, StoryWith
<1>7. /\ f \in [0..Len(wire') -> windows' \cup {NoWindow}]
      /\ FocusStory(windows', wire', f)
      /\ f[Len(wire')] = srvFocus'
  BY <1>1, <1>2, <1>6 DEF FocusStory
<1> QED BY <1>5, <1>7 DEF FocusIsTracked

\* With nothing on the wire and nobody focused there is nothing to tell.
LEMMA EmptyStory ==
  ASSUME NEW f, f = [i \in 0..0 |-> NoWindow]
  PROVE  /\ f \in [0..Len(<< >>) -> {} \cup {NoWindow}]
         /\ FocusStory({}, << >>, f)
         /\ f[0] = NoWindow /\ f[Len(<< >>)] = NoWindow
BY DEF FocusStory

LEMMA InitTracked == Init => FocusIsTracked
<1> SUFFICES ASSUME Init PROVE FocusIsTracked
  OBVIOUS
<1> DEFINE f == [i \in 0..0 |-> NoWindow]
<1>1. wire = << >> /\ windows = {} /\ focused = {} /\ srvFocus = NoWindow
  BY DEF Init
<1>2. /\ f \in [0..Len(wire) -> windows \cup {NoWindow}]
      /\ FocusStory(windows, wire, f)
      /\ f[Len(wire)] = srvFocus
  BY <1>1, EmptyStory
<1> HIDE DEF f
<1> QED BY <1>1, <1>2 DEF FocusIsTracked

LEMMA ShutdownTracked == Shutdown => FocusIsTracked'
<1> SUFFICES ASSUME Shutdown PROVE FocusIsTracked'
  OBVIOUS
<1> DEFINE f == [i \in 0..0 |-> NoWindow]
<1>1. wire' = << >> /\ windows' = {} /\ focused' = {} /\ srvFocus' = NoWindow
  BY DEF Shutdown
<1>2. /\ f \in [0..Len(wire') -> windows' \cup {NoWindow}]
      /\ FocusStory(windows', wire', f)
      /\ f[Len(wire')] = srvFocus'
  BY <1>1, EmptyStory
<1> HIDE DEF f
<1> QED BY <1>1, <1>2 DEF FocusIsTracked

LEMMA ServerTracked == TypeOK /\ FocusIsTracked /\ Server => FocusIsTracked'
<1> SUFFICES ASSUME TypeOK, FocusIsTracked, Server PROVE FocusIsTracked'
  OBVIOUS
<1>1. windows' = windows /\ focused' = focused
  BY ServerKeeps DEF input
<1>2. ASSUME NEW w \in windows \cup {NoWindow}, SrvFocus(w) PROVE FocusIsTracked'
  BY <1>2, MoveTracked
<1>3. ASSUME NEW k \in Key \cup {NoKey}, SrvKeyDown(k) PROVE FocusIsTracked'
  BY <1>1, <1>3, DeliverTracked DEF SrvKeyDown
<1>4. ASSUME NEW k \in Key, SrvKeyUp(k) PROVE FocusIsTracked'
  BY <1>1, <1>4, DeliverTracked DEF SrvKeyUp
<1>5. CASE SrvGrab
  BY <1>1, <1>5, GrabTracked DEF SrvGrab
<1>6. CASE SrvUngrab
  <2>1. CASE srvFocus = NoWindow
    BY <1>1, <1>6, <2>1 DEF SrvUngrab, FocusIsTracked
  <2>2. CASE srvFocus # NoWindow
    BY <1>1, <1>6, <2>2, GrabTracked DEF SrvUngrab
  <2> QED BY <2>1, <2>2
<1> QED BY <1>2, <1>3, <1>4, <1>5, <1>6 DEF Server

\* No step of the server, the library or the application loses track.
LEMMA NextTracked ==
  TypeOK /\ Bookkeeping /\ FocusIsTracked /\ [Next]_vars => FocusIsTracked'
<1> SUFFICES ASSUME TypeOK, Bookkeeping, FocusIsTracked, [Next]_vars
             PROVE  FocusIsTracked'
  OBVIOUS
<1> USE DEF server, input
<1>1. CASE Server
  BY <1>1, ServerTracked
<1>2. CASE Dispatch
  BY <1>2, DispatchTracked
<1>3. CASE Pop
  BY <1>3 DEF Pop, FocusIsTracked
<1>4. CASE WinInit
  BY <1>4 DEF WinInit, FocusIsTracked
<1>5. ASSUME NEW w \in Window, Create(w) PROVE FocusIsTracked'
  BY <1>5, CreateTracked
<1>6. ASSUME NEW w \in Window, Destroy(w) PROVE FocusIsTracked'
  BY <1>6, DestroyTracked DEF Destroy
<1>7. CASE Shutdown
  BY <1>7, ShutdownTracked
<1>8. ASSUME NEW c \in Context, ContextCreate(c) \/ ContextDestroy(c)
      PROVE FocusIsTracked'
  BY <1>8 DEF ContextCreate, ContextDestroy, FocusIsTracked
<1>9. ASSUME NEW w \in Window, NEW c \in Context \cup {NoContext}, MakeCurrent(w, c)
      PROVE FocusIsTracked'
  BY <1>9 DEF MakeCurrent, FocusIsTracked
<1>10. CASE UNCHANGED vars
  BY <1>10 DEF vars, FocusIsTracked
<1> QED BY <1>1, <1>2, <1>3, <1>4, <1>5, <1>6, <1>7, <1>8, <1>9, <1>10
        DEF Next, Application

-----------------------------------------------------------------------------
(* Bookkeeping *)

\* The emitters stamp what they queue with the newest stamps.
LEMMA EmitKeyStamps ==
  ASSUME TypeOK, Bookkeeping, NEW w, NEW k, NEW down, NEW repeat,
         EmitKey(w, k, down, repeat)
  PROVE  \A e \in queue' : e.n <= stamp'
<1>1. stamp \in Nat /\ stamp' = stamp + 1 /\ \A e \in queue : e.n \in Nat /\ e.n <= stamp
  BY DEF TypeOK, Event, EmitKey, Bookkeeping
<1> QED BY <1>1 DEF EmitKey, EventBegin

LEMMA EmitFocusStamps ==
  ASSUME TypeOK, Bookkeeping, NEW w, NEW gained \in BOOLEAN, EmitFocus(w, gained)
  PROVE  \A e \in queue' : e.n <= stamp'
<1>1. stamp \in Nat /\ \A e \in queue : e.n \in Nat /\ e.n <= stamp
  BY DEF TypeOK, Event, Bookkeeping
<1>2. CASE (w \in focused) = gained
  BY <1>1, <1>2 DEF EmitFocus
<1>3. CASE (w \in focused) # gained
  <2> DEFINE ups  == {EventBegin(stamp + 1, "KEY_UP", w, k, FALSE) : k \in keys}
             last == EventBegin(stamp + 2, IF gained THEN "FOCUS" ELSE "BLUR",
                                w, NoKey, FALSE)
  <2>1. queue' \subseteq queue \cup ups \cup {last} /\ stamp' = stamp + 2
    BY <1>3 DEF EmitFocus
  <2>2. \A e \in ups : e.n = stamp + 1
    BY DEF EventBegin
  <2>3. last.n = stamp + 2
    BY DEF EventBegin
  <2> HIDE DEF ups, last
  <2> QED BY <1>1, <2>1, <2>2, <2>3
<1> QED BY <1>2, <1>3

LEMMA ServerBookkeeping ==
  TypeOK /\ FocusIsTracked /\ Bookkeeping /\ Server => Bookkeeping'
<1> SUFFICES ASSUME TypeOK, FocusIsTracked, Bookkeeping, Server PROVE Bookkeeping'
  OBVIOUS
<1>1. /\ windows' = windows /\ created' = created /\ queue' = queue
      /\ stamp' = stamp /\ seen' = seen
  BY ServerKeeps DEF input
<1>2. srvFocus \in windows \cup {NoWindow}
  BY SrvFocusLive
<1>3. ASSUME NEW t \in Seq(RawEvent), wire' = wire \o t,
             \A i \in 1..Len(t) : t[i].win \in windows
      PROVE  Bookkeeping'
  <2>1. /\ Len(wire) \in Nat /\ Len(t) \in Nat /\ Len(wire') = Len(wire) + Len(t)
        /\ \A i \in 1..Len(wire') :
              wire'[i] = IF i <= Len(wire) THEN wire[i] ELSE t[i - Len(wire)]
    BY <1>3 DEF TypeOK
  <2>2. ASSUME NEW i \in 1..Len(wire') PROVE wire'[i].win \in created
    <3>1. CASE i <= Len(wire)
      BY <2>1, <3>1 DEF Bookkeeping
    <3>2. CASE i > Len(wire)
      <4>1. i - Len(wire) \in 1..Len(t) /\ wire'[i] = t[i - Len(wire)]
        BY <2>1, <3>2
      <4> QED BY <1>3, <4>1 DEF Bookkeeping
    <3> QED BY <2>1, <3>1, <3>2
  <2> QED BY <1>1, <2>2 DEF Bookkeeping
<1>4. CASE wire' = wire
  BY <1>1, <1>4 DEF Bookkeeping
<1>5. ASSUME NEW kind \in RawKind, NEW k \in Key \cup {NoKey}, srvFocus # NoWindow,
             Send(<<Raw(kind, srvFocus, k)>>)
      PROVE  Bookkeeping'
  <2> DEFINE e == Raw(kind, srvFocus, k)
  <2>1. e \in RawEvent /\ e.win \in windows
    BY <1>2, <1>5, RawType DEF TypeOK, Raw
  <2>2. wire' = wire \o <<e>>
    BY <1>5 DEF Send
  <2> HIDE DEF e
  <2>3. <<e>> \in Seq(RawEvent) /\ \A i \in 1..Len(<<e>>) : <<e>>[i].win \in windows
    BY <2>1
  <2> QED BY <1>3, <2>2, <2>3
<1>6. ASSUME NEW w \in windows \cup {NoWindow}, SrvFocus(w) PROVE Bookkeeping'
  <2> DEFINE out == IF srvFocus = NoWindow THEN << >>
                    ELSE <<Raw("FOCUS_OUT", srvFocus, NoKey)>>
             in  == IF w = NoWindow THEN << >> ELSE <<Raw("FOCUS_IN", w, NoKey)>>
  <2>1. out \in Seq(RawEvent) /\ \A i \in 1..Len(out) : out[i].win \in windows
    BY <1>2, RawType DEF RawKind, Raw, TypeOK
  <2>2. in \in Seq(RawEvent) /\ \A i \in 1..Len(in) : in[i].win \in windows
    BY RawType DEF RawKind, Raw, TypeOK
  <2>3. wire' = wire \o (out \o in)
    BY <1>6 DEF SrvFocus, Send
  <2> HIDE DEF out, in
  <2>4. out \o in \in Seq(RawEvent) /\ \A i \in 1..Len(out \o in) : (out \o in)[i].win \in windows
    BY <2>1, <2>2
  <2> QED BY <1>3, <2>3, <2>4
<1>7. ASSUME NEW kind \in RawKind, NEW k \in Key \cup {NoKey}, Deliver(kind, k)
      PROVE Bookkeeping'
  BY <1>4, <1>5, <1>7 DEF Deliver
<1>8. ASSUME NEW k \in Key \cup {NoKey}, SrvKeyDown(k) PROVE Bookkeeping'
  BY <1>7, <1>8 DEF SrvKeyDown, RawKind
<1>9. ASSUME NEW k \in Key, SrvKeyUp(k) PROVE Bookkeeping'
  BY <1>7, <1>9 DEF SrvKeyUp, RawKind
<1>10. CASE SrvGrab
  BY <1>5, <1>10 DEF SrvGrab, RawKind
<1>11. CASE SrvUngrab
  BY <1>4, <1>5, <1>11 DEF SrvUngrab, RawKind
<1> QED BY <1>6, <1>8, <1>9, <1>10, <1>11 DEF Server

LEMMA DispatchBookkeeping == TypeOK /\ Bookkeeping /\ Dispatch => Bookkeeping'
<1> SUFFICES ASSUME TypeOK, Bookkeeping, Dispatch PROVE Bookkeeping'
  OBVIOUS
<1> DEFINE e == Head(wire)
<1>1. /\ wire # << >> /\ wire' = Tail(wire) /\ windows' = windows
      /\ created' = created /\ seen' = seen
  BY DEF Dispatch
<1>2. \A i \in 1..Len(wire') : wire'[i].win \in created
  <2>1. Len(wire) \in Nat /\ Len(wire') = Len(wire) - 1
    BY <1>1 DEF TypeOK
  <2>2. \A i \in 1..Len(wire') : wire'[i] = wire[i + 1] /\ i + 1 \in 1..Len(wire)
    BY <1>1, <2>1 DEF TypeOK
  <2> QED BY <2>2 DEF Bookkeeping
<1>3. \A f \in queue' : f.n <= stamp'
  <2>1. CASE e.kind \in {"KEY_PRESS", "KEY_RELEASE"}
    <3>1. DispatchKey(e)
      BY <2>1 DEF Dispatch
    <3>2. CASE e.win \in windows
      BY <3>1, <3>2, EmitKeyStamps DEF DispatchKey
    <3>3. CASE e.win \notin windows
      BY <3>1, <3>3 DEF DispatchKey, Bookkeeping
    <3> QED BY <3>2, <3>3
  <2>2. CASE e.kind \notin {"KEY_PRESS", "KEY_RELEASE"}
    <3>1. DispatchFocus(e)
      BY <2>2 DEF Dispatch
    <3>2. CASE e.win \in windows /\ e.kind \in {"FOCUS_IN", "FOCUS_OUT"}
      BY <3>1, <3>2, EmitFocusStamps DEF DispatchFocus
    <3>3. CASE ~(e.win \in windows /\ e.kind \in {"FOCUS_IN", "FOCUS_OUT"})
      BY <3>1, <3>3 DEF DispatchFocus, Bookkeeping
    <3> QED BY <3>2, <3>3
  <2> QED BY <2>1, <2>2
<1> QED BY <1>1, <1>2, <1>3 DEF Bookkeeping

LEMMA ApplicationBookkeeping ==
  TypeOK /\ NoDanglingEvent /\ Bookkeeping /\ Application => Bookkeeping'
<1> SUFFICES ASSUME TypeOK, NoDanglingEvent, Bookkeeping, Application PROVE Bookkeeping'
  OBVIOUS
<1> USE DEF server, input
<1>1. CASE Pop
  <2>1. PICK e \in queue :
          /\ queue' = queue \ {e}
          /\ stamp' = IF queue' = {} THEN 0 ELSE stamp
          /\ \A w \in Window : w # e.win => seen'[w] = seen[w]
          /\ UNCHANGED <<wire, windows, created>>
    BY <1>1 DEF Pop, TypeOK
  <2>2. \A f \in queue' : f.n <= stamp'
    BY <2>1 DEF Bookkeeping
  <2>3. \A w \in Window \ windows : seen'[w] = {}
    BY <2>1 DEF Bookkeeping, NoDanglingEvent
  <2> QED BY <2>1, <2>2, <2>3 DEF Bookkeeping
<1>2. CASE WinInit
  BY <1>2 DEF WinInit, Bookkeeping
<1>3. ASSUME NEW w \in Window, Create(w) PROVE Bookkeeping'
  BY <1>3 DEF Create, Bookkeeping
<1>4. ASSUME NEW w \in Window, Destroy(w) PROVE Bookkeeping'
  <2>1. /\ windows' = windows \ {w} /\ created' = created /\ wire' = wire
        /\ queue' \subseteq queue
        /\ stamp' = IF queue' = {} THEN 0 ELSE stamp
        /\ seen' = [seen EXCEPT ![w] = {}]
    BY <1>4 DEF Destroy, PurgeWindowEvents
  <2>2. \A f \in queue' : f.n <= stamp'
    BY <2>1 DEF Bookkeeping
  <2>3. \A v \in Window \ windows' : seen'[v] = {}
    BY <2>1 DEF Bookkeeping, TypeOK
  <2> QED BY <2>1, <2>2, <2>3 DEF Bookkeeping
<1>5. CASE Shutdown
  BY <1>5 DEF Shutdown, Bookkeeping
<1>6. ASSUME NEW c \in Context, ContextCreate(c) \/ ContextDestroy(c)
      PROVE Bookkeeping'
  BY <1>6 DEF ContextCreate, ContextDestroy, Bookkeeping
<1>7. ASSUME NEW w \in Window, NEW c \in Context \cup {NoContext}, MakeCurrent(w, c)
      PROVE Bookkeeping'
  BY <1>7 DEF MakeCurrent, Bookkeeping
<1> QED BY <1>1, <1>2, <1>3, <1>4, <1>5, <1>6, <1>7 DEF Application

-----------------------------------------------------------------------------
(* What the application will believe *)

\* Queueing events newer than the whole queue, none of them a press of x in
\* v, leaves the application believing x is down only if it already did and
\* none of them is a release.
LEMMA BelievesAfterPush ==
  ASSUME Bookkeeping, TypeOK, NEW new, queue' = queue \cup new, seen' = seen,
         \A e \in new : e.n \in Nat /\ e.n > stamp,
         NEW v \in Window, NEW x \in Key,
         \A e \in new : e.win = v /\ e.key = x => e.type # "KEY_DOWN",
         Believes(v, x)'
  PROVE  /\ Believes(v, x)
         /\ \A e \in new : e.win = v /\ e.key = x => e.type # "KEY_UP"
<1>1. \A e \in queue : e.n \in Nat /\ e.n <= stamp /\ stamp \in Nat
  BY DEF Bookkeeping, TypeOK, Event
<1>2. ASSUME NEW e \in new, e.win = v, e.key = x, e.type = "KEY_UP" PROVE FALSE
  <2>1. e \in Word(v, x)'
    BY <1>2 DEF Word
  <2>2. PICK d \in Word(v, x)' : d.type = "KEY_DOWN" /\ \A f \in Word(v, x)' : f.n <= d.n
    BY <2>1 DEF Believes
  <2>3. d \in queue /\ e.n <= d.n
    BY <2>1, <2>2 DEF Word
  <2> QED BY <1>1, <2>3
<1>3. Word(v, x)' = Word(v, x)
  BY <1>2 DEF Word
<1>4. Believes(v, x)
  BY <1>3 DEF Believes
<1> QED BY <1>2, <1>4

\* nack__emit_key: the key that went down is believed down, the one that went
\* up is not, and about every other key the application hears nothing.
LEMMA BelievesAfterKey ==
  ASSUME TypeOK, Bookkeeping, seen' = seen,
         NEW w, NEW k, NEW down \in BOOLEAN, NEW repeat, EmitKey(w, k, down, repeat),
         NEW v \in Window, NEW x \in Key, Believes(v, x)',
         ~(v = w /\ x = k /\ down)
  PROVE  Believes(v, x) /\ ~(v = w /\ x = k)
<1> DEFINE e == EventBegin(stamp + 1, IF down THEN "KEY_DOWN" ELSE "KEY_UP", w, k, repeat)
           new == {e}
<1>1. queue' = queue \cup new
  BY DEF EmitKey
<1>2. /\ e.n = stamp + 1 /\ e.win = w /\ e.key = k
      /\ e.type = IF down THEN "KEY_DOWN" ELSE "KEY_UP"
  BY DEF EventBegin
<1>3. \A f \in new : f.n \in Nat /\ f.n > stamp
  BY <1>2 DEF TypeOK
<1>4. \A f \in new : f.win = v /\ f.key = x => f.type # "KEY_DOWN"
  BY <1>2
<1>0. e \in new
  OBVIOUS
<1> HIDE DEF e, new
<1>5. /\ Believes(v, x)
      /\ \A f \in new : f.win = v /\ f.key = x => f.type # "KEY_UP"
  BY <1>1, <1>3, <1>4, BelievesAfterPush
<1> QED BY <1>0, <1>2, <1>4, <1>5

\* nack__emit_focus: gaining the focus says nothing of keys, losing it
\* releases every latched one.
LEMMA BelievesAfterFocus ==
  ASSUME TypeOK, Bookkeeping, seen' = seen,
         NEW w, NEW gained \in BOOLEAN, EmitFocus(w, gained), (w \in focused) # gained,
         NEW v \in Window, NEW x \in Key, Believes(v, x)'
  PROVE  Believes(v, x) /\ (~gained => ~(v = w /\ x \in keys))
<1> DEFINE ups  == IF gained THEN {}
                   ELSE {EventBegin(stamp + 1, "KEY_UP", w, k, FALSE) : k \in keys}
           last == EventBegin(stamp + 2, IF gained THEN "FOCUS" ELSE "BLUR",
                              w, NoKey, FALSE)
           new  == ups \cup {last}
<1>1. queue' = queue \cup new
  BY DEF EmitFocus
<1>2. stamp \in Nat
  BY DEF TypeOK
<1>3. \A e \in ups : e.n = stamp + 1 /\ e.type = "KEY_UP"
  BY DEF EventBegin
<1>4. last.n = stamp + 2 /\ last.key = NoKey
  BY DEF EventBegin
<1>5. ASSUME ~gained, v = w, x \in keys
      PROVE  \E e \in new : e.win = v /\ e.key = x /\ e.type = "KEY_UP"
  <2>1. EventBegin(stamp + 1, "KEY_UP", w, x, FALSE) \in ups
    BY <1>5
  <2>2. /\ EventBegin(stamp + 1, "KEY_UP", w, x, FALSE).win = v
        /\ EventBegin(stamp + 1, "KEY_UP", w, x, FALSE).key = x
        /\ EventBegin(stamp + 1, "KEY_UP", w, x, FALSE).type = "KEY_UP"
    BY <1>5 DEF EventBegin
  <2> QED BY <2>1, <2>2
<1> HIDE DEF ups, last
<1>6. \A e \in new : e.n \in Nat /\ e.n > stamp
  BY <1>2, <1>3, <1>4
<1>7. \A e \in new : e.win = v /\ e.key = x => e.type # "KEY_DOWN"
  BY <1>3, <1>4, NullAssumption
<1> HIDE DEF new
<1>8. /\ Believes(v, x)
      /\ \A e \in new : e.win = v /\ e.key = x => e.type # "KEY_UP"
  BY <1>1, <1>6, <1>7, BelievesAfterPush
<1> QED BY <1>5, <1>8

\* Popping the oldest event moves a belief from the queue to the application
\* and changes none.
LEMMA BelievesAfterPop ==
  ASSUME TypeOK, Pop, NEW v \in Window, NEW x \in Key, Believes(v, x)'
  PROVE  Believes(v, x)
<1>1. PICK e \in queue :
        /\ \A f \in queue : e.n <= f.n
        /\ queue' = queue \ {e}
        /\ seen' = [seen EXCEPT ![e.win] =
                      CASE e.type = "KEY_DOWN" -> @ \cup ({e.key} \cap Key)
                        [] e.type = "KEY_UP"   -> @ \ {e.key}
                        [] OTHER -> @]
  BY DEF Pop
<1>2. e.win \in Window /\ seen \in [Window -> SUBSET Key]
  BY DEF TypeOK, Event
<1>3. Word(v, x)' = Word(v, x) \ {e}
  BY <1>1 DEF Word
<1>4. CASE Word(v, x)' = {}
  <2>1. x \in seen'[v]
    BY <1>4 DEF Believes
  <2>2. CASE e \in Word(v, x)
    <3>1. e.win = v /\ e.key = x /\ e.type \in {"KEY_DOWN", "KEY_UP"}
      BY <2>2 DEF Word
    <3>2. e.type # "KEY_UP"
      BY <1>1, <1>2, <2>1, <3>1
    <3>3. Word(v, x) = {e}
      BY <1>3, <1>4, <2>2
    <3>4. e.n \in Nat
      BY DEF TypeOK, Event
    <3> QED BY <3>1, <3>2, <3>3, <3>4 DEF Believes
  <2>3. CASE e \notin Word(v, x)
    <3>1. Word(v, x) = {}
      BY <1>3, <1>4, <2>3
    <3>2. e.win = v => e.key # x \/ e.type \notin {"KEY_DOWN", "KEY_UP"}
      BY <2>3 DEF Word
    <3>3. x \in seen[v]
      BY <1>1, <1>2, <2>1, <3>2
    <3> QED BY <3>1, <3>3 DEF Believes
  <2> QED BY <2>2, <2>3
<1>5. CASE Word(v, x)' # {}
  <2>1. PICK d \in Word(v, x)' : d.type = "KEY_DOWN" /\ \A f \in Word(v, x)' : f.n <= d.n
    BY <1>5 DEF Believes
  <2>2. d \in Word(v, x) /\ d \in queue
    BY <1>3, <2>1 DEF Word
  <2>3. \A f \in Word(v, x) : f.n <= d.n
    BY <1>1, <1>3, <2>1, <2>2
  <2> QED BY <2>1, <2>2, <2>3 DEF Believes
<1> QED BY <1>4, <1>5

-----------------------------------------------------------------------------
(* No stuck keys *)

LEMMA DispatchNoStuckKey ==
  TypeOK /\ Bookkeeping /\ FocusIsTracked /\ NoStuckKeyInApplication /\ Dispatch
    => NoStuckKeyInApplication'
<1> SUFFICES ASSUME TypeOK, Bookkeeping, FocusIsTracked, NoStuckKeyInApplication, Dispatch,
                    NEW v \in windows, NEW x \in Key, Believes(v, x)'
             PROVE  v \in focused' /\ x \in keys'
  BY DEF NoStuckKeyInApplication, Dispatch
<1> DEFINE e == Head(wire)
<1>1. wire # << >> /\ windows' = windows /\ seen' = seen /\ v \in Window
  BY DEF Dispatch, TypeOK
<1>2. Believes(v, x) => v \in focused /\ x \in keys
  BY DEF NoStuckKeyInApplication
<1>3. CASE UNCHANGED <<focused, keys, queue>>
  <2>1. Believes(v, x)
    BY <1>1, <1>3 DEF Believes, Word
  <2> QED BY <1>2, <1>3, <2>1
<1>4. CASE e.win \in windows /\ e.kind \in {"KEY_PRESS", "KEY_RELEASE"}
  <2>1. DispatchKey(e)
    BY <1>4 DEF Dispatch
  <2> DEFINE down == e.kind = "KEY_PRESS"
  <2>2. EmitKey(e.win, e.key, down, down /\ e.key \in keys) /\ focused' = focused
    BY <1>4, <2>1 DEF DispatchKey
  <2>3. focused = {e.win}
    BY <1>1, <1>4, HeadFindsFocus
  <2>4. CASE v = e.win /\ x = e.key /\ down
    BY <2>2, <2>3, <2>4 DEF EmitKey
  <2>5. CASE ~(v = e.win /\ x = e.key /\ down)
    <3>1. down \in BOOLEAN
      OBVIOUS
    <3> HIDE DEF down
    <3>2. Believes(v, x) /\ ~(v = e.win /\ x = e.key)
      BY <1>1, <2>2, <2>5, <3>1, BelievesAfterKey
    <3>3. v = e.win /\ x \in keys /\ x # e.key
      BY <1>2, <2>3, <3>2
    <3> QED BY <2>2, <2>3, <3>3 DEF EmitKey
  <2> QED BY <2>4, <2>5
<1>5. CASE e.win \in windows /\ e.kind \in {"FOCUS_IN", "FOCUS_OUT"}
  <2>1. DispatchFocus(e)
    BY <1>5 DEF Dispatch
  <2> DEFINE gained == e.kind = "FOCUS_IN"
  <2>2. EmitFocus(e.win, gained) /\ gained \in BOOLEAN
    BY <1>5, <2>1 DEF DispatchFocus
  <2>3. /\ gained => focused = {}
        /\ ~gained => focused = {e.win}
    BY <1>1, <1>5, HeadFindsFocus
  <2>4. (e.win \in focused) # gained
    BY <2>3
  <2> HIDE DEF gained
  <2>5. Believes(v, x) /\ (~gained => ~(v = e.win /\ x \in keys))
    BY <1>1, <2>2, <2>4, BelievesAfterFocus
  <2>6. v \in focused /\ x \in keys
    BY <1>2, <2>5
  <2>7. gained
    BY <2>3, <2>5, <2>6
  <2> QED BY <2>3, <2>6, <2>7
<1> QED BY <1>3, <1>4, <1>5 DEF Dispatch, DispatchFocus, DispatchKey

LEMMA NextNoStuckKey ==
  InputInv /\ NoStuckKeyInApplication /\ [Next]_vars => NoStuckKeyInApplication'
<1> SUFFICES ASSUME InputInv, NoStuckKeyInApplication, [Next]_vars
             PROVE  NoStuckKeyInApplication'
  OBVIOUS
<1> USE DEF server, input
<1>1. TypeOK /\ NoDanglingEvent /\ Bookkeeping /\ FocusIsTracked
  BY DEF InputInv
\* A step that leaves the windows and the whole input state alone.
<1>2. CASE UNCHANGED <<windows, focused, keys, queue, seen>>
  BY <1>2 DEF NoStuckKeyInApplication, Believes, Word
<1>3. CASE Server
  BY <1>2, <1>3, ServerKeeps
<1>4. CASE Dispatch
  BY <1>1, <1>4, DispatchNoStuckKey
<1>5. CASE Pop
  <2>1. UNCHANGED <<windows, focused, keys>>
    BY <1>5 DEF Pop
  <2>2. ASSUME NEW v \in windows, NEW x \in Key, Believes(v, x)'
        PROVE  v \in focused /\ x \in keys
    <3>1. Believes(v, x)
      BY <1>1, <1>5, <2>2, BelievesAfterPop DEF TypeOK
    <3> QED BY <3>1 DEF NoStuckKeyInApplication
  <2> QED BY <2>1, <2>2 DEF NoStuckKeyInApplication
<1>6. CASE WinInit
  BY <1>2, <1>6 DEF WinInit
<1>7. ASSUME NEW w \in Window, Create(w) PROVE NoStuckKeyInApplication'
  <2>1. windows' = windows \cup {w} /\ UNCHANGED <<focused, keys, queue, seen>>
    BY <1>7 DEF Create
  <2>2. w \notin windows /\ seen[w] = {}
    BY <1>1, <1>7 DEF Create, Bookkeeping
  <2>3. \A x \in Key : Word(w, x) = {}
    BY <1>1, <2>2 DEF Word, NoDanglingEvent
  <2>4. \A x \in Key : ~Believes(w, x)
    BY <2>2, <2>3 DEF Believes
  <2>5. \A v \in windows', x \in Key : Believes(v, x)' = Believes(v, x)
    BY <2>1 DEF Believes, Word
  <2> QED BY <2>1, <2>4, <2>5 DEF NoStuckKeyInApplication
<1>8. ASSUME NEW w \in Window, Destroy(w) PROVE NoStuckKeyInApplication'
  <2>1. /\ windows' = windows \ {w} /\ focused' = focused \ {w} /\ keys' = keys
        /\ queue' = {e \in queue : e.win # w} /\ seen' = [seen EXCEPT ![w] = {}]
    BY <1>8 DEF Destroy, PurgeWindowEvents
  <2>2. ASSUME NEW v \in windows', NEW x \in Key, Believes(v, x)'
        PROVE  v \in focused' /\ x \in keys'
    <3>1. v # w /\ v \in windows /\ v \in Window
      BY <1>1, <2>1 DEF TypeOK
    <3>2. Word(v, x)' = Word(v, x)
      BY <2>1, <3>1 DEF Word
    <3>3. seen'[v] = seen[v]
      BY <1>1, <2>1, <3>1 DEF TypeOK
    <3>4. Believes(v, x)
      BY <2>2, <3>2, <3>3 DEF Believes
    <3> QED BY <2>1, <3>1, <3>4 DEF NoStuckKeyInApplication
  <2> QED BY <2>2 DEF NoStuckKeyInApplication
<1>9. CASE Shutdown
  BY <1>9 DEF Shutdown, NoStuckKeyInApplication
<1>10. ASSUME NEW c \in Context, ContextCreate(c) \/ ContextDestroy(c)
       PROVE NoStuckKeyInApplication'
  BY <1>2, <1>10 DEF ContextCreate, ContextDestroy
<1>11. ASSUME NEW w \in Window, NEW c \in Context \cup {NoContext}, MakeCurrent(w, c)
       PROVE NoStuckKeyInApplication'
  BY <1>2, <1>11 DEF MakeCurrent
<1>12. CASE UNCHANGED vars
  BY <1>2, <1>12 DEF vars
<1> QED BY <1>3, <1>4, <1>5, <1>6, <1>7, <1>8, <1>9, <1>10, <1>11, <1>12
        DEF Next, Application

-----------------------------------------------------------------------------
(* The theorems *)

LEMMA InitBookkeeping == Init => Bookkeeping
BY DEF Init, Bookkeeping

LEMMA InitNoStuckKey == Init => NoStuckKeyInApplication
BY DEF Init, NoStuckKeyInApplication

\* InputInv is inductive.
THEOREM InputInvariant == Spec => []InputInv
<1>1. Init => TypeOK /\ NoDanglingEvent /\ Bookkeeping /\ FocusIsTracked
  BY InitType, InitBookkeeping, InitTracked DEF Init, NoDanglingEvent
<1>2. TypeOK /\ Bookkeeping /\ FocusIsTracked /\ NoDanglingEvent /\ [Next]_vars => Bookkeeping'
  <2> SUFFICES ASSUME TypeOK, Bookkeeping, FocusIsTracked, NoDanglingEvent, [Next]_vars
               PROVE  Bookkeeping'
    OBVIOUS
  <2>1. CASE UNCHANGED vars
    BY <2>1 DEF vars, server, input, Bookkeeping
  <2> QED BY <2>1, ServerBookkeeping, DispatchBookkeeping, ApplicationBookkeeping DEF Next
<1>3. TypeOK /\ Bookkeeping /\ FocusIsTracked /\ [Next]_vars => FocusIsTracked'
  BY NextTracked
<1> QED BY <1>1, <1>2, <1>3, TypeCorrect, NoDangling, PTL DEF Spec, InputInv

\* At most one window has its focus flag set, and the events in flight take
\* it to the window the server has in mind.
THEOREM FocusTracked == Spec => []FocusIsTracked
BY InputInvariant, PTL DEF InputInv

\* An application that drains its queue never believes a key is down that
\* the library has released, or in a window that has lost the focus.
THEOREM NoStuckKey == Spec => []NoStuckKeyInApplication
<1>1. InputInv /\ NoStuckKeyInApplication /\ [Next]_vars => NoStuckKeyInApplication'
  BY NextNoStuckKey
<1> QED BY <1>1, InitNoStuckKey, InputInvariant, PTL DEF Spec

-----------------------------------------------------------------------------
(* Latched keys.  What the library holds down, somebody is still going to  *)
(* let go of, and the application knows of.                                *)

\* What event e lets go of.
Releases(e, w, k) ==
  /\ e.win = w
  /\ e.kind = "FOCUS_OUT" \/ (e.kind = "KEY_RELEASE" /\ e.key = k)

\* Window w will be told that key k is up: the events s in flight say so
\* after the first i of them, or the server has the focus at w and the key
\* down, and will.
Owed(s, focus, down, w, k, i) ==
  \/ \E j \in i + 1..Len(s) : Releases(s[j], w, k)
  \/ focus = w /\ k \in down

\* A latched key, and one whose press is on its way, will be let go of.
LatchIsAnswered ==
  /\ \A k \in keys \ excused :
       \E w \in focused : Owed(wire, srvFocus, held, w, k, 0)
  /\ \A i \in 1..Len(wire) :
       wire[i].kind = "KEY_PRESS" /\ wire[i].win \in windows
           /\ wire[i].key \in Key \ excused
         => Owed(wire, srvFocus, held, wire[i].win, wire[i].key, i)

\* The application knows of a latched key, or will once it drains the queue.
LatchIsKnown == \A k \in keys \ excused : \E w \in focused : Believes(w, k)

\* No two events are of one moment and one key.
StampsApart == \A e, f \in queue : e.n = f.n /\ e.key = f.key => e = f

LatchInv == InputInv /\ LatchIsAnswered /\ LatchIsKnown /\ StampsApart

\* What was owed still is, or the events sent since pay it.
LEMMA OwedAfterSend ==
  ASSUME NEW s \in Seq(RawEvent), NEW t \in Seq(RawEvent), NEW focus, NEW down,
         NEW w, NEW k, NEW i \in 0..Len(s), Owed(s, focus, down, w, k, i),
         NEW focus2, NEW down2,
         focus = w /\ k \in down =>
           \/ focus2 = w /\ k \in down2
           \/ \E j \in 1..Len(t) : Releases(t[j], w, k)
  PROVE  Owed(s \o t, focus2, down2, w, k, i)
<1>1. /\ Len(s) \in Nat /\ Len(t) \in Nat /\ Len(s \o t) = Len(s) + Len(t)
      /\ \A j \in 1..Len(s) : (s \o t)[j] = s[j]
      /\ \A j \in 1..Len(t) : (s \o t)[Len(s) + j] = t[j]
  OBVIOUS
<1>2. CASE \E j \in i + 1..Len(s) : Releases(s[j], w, k)
  <2>1. PICK j \in i + 1..Len(s) : Releases(s[j], w, k)
    BY <1>2
  <2>2. j \in i + 1..Len(s \o t) /\ (s \o t)[j] = s[j]
    BY <1>1
  <2> QED BY <2>1, <2>2 DEF Owed
<1>3. CASE \E j \in 1..Len(t) : Releases(t[j], w, k)
  <2>1. PICK j \in 1..Len(t) : Releases(t[j], w, k)
    BY <1>3
  <2>2. Len(s) + j \in i + 1..Len(s \o t) /\ (s \o t)[Len(s) + j] = t[j]
    BY <1>1
  <2> QED BY <2>1, <2>2 DEF Owed
<1>4. CASE focus2 = w /\ k \in down2
  BY <1>4 DEF Owed
<1> QED BY <1>2, <1>3, <1>4 DEF Owed

\* The server goes on.
LEMMA AnsweredAfterSend ==
  ASSUME TypeOK, LatchIsAnswered, focused \subseteq windows,
         windows' = windows, focused' = focused, keys' = keys,
         excused \subseteq excused',
         NEW t \in Seq(RawEvent), wire' = wire \o t,
         \A w \in windows, k \in Key \ excused' :
           srvFocus = w /\ k \in held =>
             \/ srvFocus' = w /\ k \in held'
             \/ \E j \in 1..Len(t) : Releases(t[j], w, k),
         \A i \in 1..Len(t) :
           t[i].kind = "KEY_PRESS" /\ t[i].key \in Key \ excused' =>
             srvFocus' = t[i].win /\ t[i].key \in held'
  PROVE  LatchIsAnswered'
<1>1. /\ wire \in Seq(RawEvent) /\ Len(wire) \in Nat /\ Len(t) \in Nat
      /\ Len(wire') = Len(wire) + Len(t)
      /\ \A i \in 1..Len(wire) : wire'[i] = wire[i]
      /\ \A j \in 1..Len(t) : wire'[Len(wire) + j] = t[j]
      /\ keys \subseteq Key
  BY DEF TypeOK
<1>2. ASSUME NEW w \in windows, NEW k \in Key \ excused', NEW i \in 0..Len(wire),
             Owed(wire, srvFocus, held, w, k, i)
      PROVE  Owed(wire', srvFocus', held', w, k, i)
  BY <1>1, <1>2, OwedAfterSend
<1>3. ASSUME NEW k \in keys' \ excused'
      PROVE  \E w \in focused' : Owed(wire', srvFocus', held', w, k, 0)
  <2>1. PICK w \in focused : Owed(wire, srvFocus, held, w, k, 0)
    BY <1>3 DEF LatchIsAnswered
  <2>2. 0 \in 0..Len(wire)
    BY <1>1
  <2> QED BY <1>1, <1>2, <2>1, <2>2
<1>4. ASSUME NEW i \in 1..Len(wire'), wire'[i].kind = "KEY_PRESS",
             wire'[i].win \in windows', wire'[i].key \in Key \ excused'
      PROVE  Owed(wire', srvFocus', held', wire'[i].win, wire'[i].key, i)
  <2>1. CASE i <= Len(wire)
    <3>1. i \in 1..Len(wire) /\ i \in 0..Len(wire) /\ wire'[i] = wire[i]
      BY <1>1, <2>1
    <3>2. Owed(wire, srvFocus, held, wire[i].win, wire[i].key, i)
      BY <1>4, <3>1 DEF LatchIsAnswered
    <3>3. wire[i].win \in windows /\ wire[i].key \in Key \ excused'
      BY <1>4, <3>1
    <3> QED BY <1>2, <3>1, <3>2, <3>3
  <2>2. CASE i > Len(wire)
    <3> DEFINE j == i - Len(wire)
    <3>1. j \in 1..Len(t) /\ i = Len(wire) + j
      BY <1>1, <2>2
    <3> HIDE DEF j
    <3>2. wire'[i] = t[j]
      BY <1>1, <3>1
    <3>3. srvFocus' = t[j].win /\ t[j].key \in held'
      BY <1>4, <3>1, <3>2
    <3> QED BY <3>2, <3>3 DEF Owed
  <2> QED BY <1>1, <2>1, <2>2
<1> QED BY <1>3, <1>4 DEF LatchIsAnswered

\* The server sends nothing.
LEMMA AnsweredUnsent ==
  ASSUME TypeOK, LatchIsAnswered, focused \subseteq windows,
         windows' = windows, focused' = focused, keys' = keys,
         excused \subseteq excused', wire' = wire, srvFocus' = srvFocus,
         \A k \in held : k \in held' \/ k \in excused' \/ srvFocus \notin windows
  PROVE  LatchIsAnswered'
<1>1. wire' = wire \o << >> /\ << >> \in Seq(RawEvent) /\ 1..Len(<< >>) = {}
  BY DEF TypeOK
<1>2. \A w \in windows, k \in Key \ excused' :
        srvFocus = w /\ k \in held => srvFocus' = w /\ k \in held'
  OBVIOUS
<1> QED BY <1>1, <1>2, AnsweredAfterSend

\* The server sends one event.
LEMMA AnsweredAfterOne ==
  ASSUME TypeOK, LatchIsAnswered, focused \subseteq windows,
         windows' = windows, focused' = focused, keys' = keys,
         excused \subseteq excused', srvFocus' = srvFocus, srvFocus \in windows,
         NEW kind \in RawKind, NEW x \in Key \cup {NoKey},
         Send(<<Raw(kind, srvFocus, x)>>),
         \A k \in held : k \in held' \/ (kind = "KEY_RELEASE" /\ k = x),
         kind = "KEY_PRESS" /\ x \in Key => x \in held'
  PROVE  LatchIsAnswered'
<1> DEFINE e == Raw(kind, srvFocus, x)
           t == <<e>>
<1>1. e \in RawEvent /\ e.kind = kind /\ e.win = srvFocus /\ e.key = x
  BY RawType DEF Raw, TypeOK
<1>2. wire' = wire \o t
  BY DEF Send
<1> HIDE DEF e
<1>3. t \in Seq(RawEvent) /\ Len(t) = 1 /\ t[1] = e /\ 1..Len(t) = {1}
  BY <1>1
<1> HIDE DEF t
<1>4. ASSUME NEW w \in windows, NEW k \in Key \ excused', srvFocus = w, k \in held
      PROVE  \/ srvFocus' = w /\ k \in held'
             \/ \E j \in 1..Len(t) : Releases(t[j], w, k)
  <2>1. CASE k \in held'
    BY <1>4, <2>1
  <2>2. CASE kind = "KEY_RELEASE" /\ k = x
    <3>1. Releases(t[1], w, k)
      BY <1>1, <1>3, <1>4, <2>2 DEF Releases
    <3> QED BY <1>3, <3>1
  <2> QED BY <1>4, <2>1, <2>2
<1>5. \A i \in 1..Len(t) : t[i].kind = "KEY_PRESS" /\ t[i].key \in Key \ excused' =>
             srvFocus' = t[i].win /\ t[i].key \in held'
  BY <1>1, <1>3
<1> QED BY <1>2, <1>3, <1>4, <1>5, AnsweredAfterSend

\* FocusOut lets go of every key, and is sent before FocusIn.
LEMMA AnsweredAfterMove ==
  ASSUME TypeOK, LatchIsAnswered, FocusIsTracked,
         NEW w \in windows \cup {NoWindow}, SrvFocus(w)
  PROVE  LatchIsAnswered'
<1> DEFINE out == IF srvFocus = NoWindow THEN << >>
                  ELSE <<Raw("FOCUS_OUT", srvFocus, NoKey)>>
           in  == IF w = NoWindow THEN << >> ELSE <<Raw("FOCUS_IN", w, NoKey)>>
<1>0. /\ windows \subseteq Window /\ NoWindow \notin windows
      /\ srvFocus \in windows \cup {NoWindow} /\ focused \subseteq windows
  BY NullAssumption, SrvFocusLive, OneFocus DEF TypeOK
<1>1. /\ wire' = wire \o (out \o in) /\ srvFocus' = w /\ windows' = windows
      /\ focused' = focused /\ keys' = keys /\ excused' = excused
  BY DEF SrvFocus, Send, ServerOnly, input
<1>2. /\ out \in Seq(RawEvent)
      /\ \A i \in 1..Len(out) : out[i].kind # "KEY_PRESS"
      /\ srvFocus \in windows => Len(out) = 1 /\ Releases(out[1], srvFocus, NoKey)
                                   /\ out[1].kind = "FOCUS_OUT"
  <2>1. CASE srvFocus = NoWindow
    BY <1>0, <2>1
  <2>2. CASE srvFocus # NoWindow
    <3> DEFINE e == Raw("FOCUS_OUT", srvFocus, NoKey)
    <3>1. e \in RawEvent /\ e.kind = "FOCUS_OUT" /\ e.win = srvFocus
      BY <1>0, <2>2, RawType DEF Raw, RawKind, TypeOK
    <3>2. out = <<e>>
      BY <2>2
    <3> HIDE DEF e, out
    <3> QED BY <3>1, <3>2 DEF Releases
  <2> QED BY <2>1, <2>2
<1>3. /\ in \in Seq(RawEvent)
      /\ \A i \in 1..Len(in) : in[i].kind # "KEY_PRESS"
  <2>1. CASE w = NoWindow
    BY <2>1
  <2>2. CASE w # NoWindow
    <3> DEFINE e == Raw("FOCUS_IN", w, NoKey)
    <3>1. e \in RawEvent /\ e.kind = "FOCUS_IN"
      BY <1>0, <2>2, RawType DEF Raw, RawKind, TypeOK
    <3>2. in = <<e>>
      BY <2>2
    <3> HIDE DEF e, in
    <3> QED BY <3>1, <3>2
  <2> QED BY <2>1, <2>2
<1> HIDE DEF out, in
<1> DEFINE t == out \o in
<1>4. /\ t \in Seq(RawEvent) /\ Len(out) \in Nat /\ Len(in) \in Nat
      /\ Len(t) = Len(out) + Len(in)
      /\ \A i \in 1..Len(t) : t[i] = IF i <= Len(out) THEN out[i] ELSE in[i - Len(out)]
  BY <1>2, <1>3
<1>7. wire' = wire \o t
  BY <1>1
<1> HIDE DEF t
<1>5. ASSUME NEW i \in 1..Len(t) PROVE t[i].kind # "KEY_PRESS"
  <2>1. CASE i <= Len(out)
    BY <1>2, <1>4, <2>1
  <2>2. CASE i > Len(out)
    <3>1. i - Len(out) \in 1..Len(in) /\ t[i] = in[i - Len(out)]
      BY <1>4, <2>2
    <3> QED BY <1>3, <3>1
  <2> QED BY <1>4, <2>1, <2>2
<1>6. ASSUME NEW v \in windows, NEW k \in Key, srvFocus = v
      PROVE  \E j \in 1..Len(t) : Releases(t[j], v, k)
  <2>0. Len(out) = 1
    BY <1>2, <1>6
  <2>1. 1 \in 1..Len(t) /\ t[1] = out[1]
    BY <1>4, <2>0
  <2>2. Releases(t[1], v, k)
    BY <1>2, <1>6, <2>1 DEF Releases
  <2> QED BY <2>1, <2>2
<1> QED BY <1>0, <1>1, <1>4, <1>5, <1>6, <1>7, AnsweredAfterSend

LEMMA ServerAnswers ==
  ASSUME TypeOK, LatchIsAnswered, FocusIsTracked, Server
  PROVE  LatchIsAnswered'
<1> USE DEF input
<1>0. /\ NoWindow \notin windows /\ srvFocus \in windows \cup {NoWindow}
      /\ focused \subseteq windows /\ windows \subseteq Window
  BY NullAssumption, SrvFocusLive, OneFocus DEF TypeOK
<1>1. windows' = windows /\ focused' = focused /\ keys' = keys
  BY ServerKeeps
<1>2. ASSUME NEW w \in windows \cup {NoWindow}, SrvFocus(w) PROVE LatchIsAnswered'
  BY <1>2, AnsweredAfterMove
<1>3. ASSUME NEW k \in Key \cup {NoKey}, SrvKeyDown(k) PROVE LatchIsAnswered'
  <2>1. /\ held' = held \cup ({k} \cap Key) /\ srvFocus' = srvFocus
        /\ excused' = excused /\ Deliver("KEY_PRESS", k)
    BY <1>3 DEF SrvKeyDown
  <2>2. CASE srvFocus = NoWindow \/ grabbed
    <3>1. wire' = wire
      BY <2>1, <2>2 DEF Deliver
    <3> QED BY <1>0, <1>1, <2>1, <3>1, AnsweredUnsent
  <2>3. CASE ~(srvFocus = NoWindow \/ grabbed)
    <3>1. Send(<<Raw("KEY_PRESS", srvFocus, k)>>)
      BY <2>1, <2>3 DEF Deliver
    <3>2. srvFocus \in windows /\ "KEY_PRESS" \in RawKind
      BY <1>0, <2>3 DEF RawKind
    <3>3. /\ \A x \in held : x \in held' \/ ("KEY_PRESS" = "KEY_RELEASE" /\ x = k)
          /\ "KEY_PRESS" = "KEY_PRESS" /\ k \in Key => k \in held'
      BY <2>1
    <3> QED BY <1>0, <1>1, <2>1, <3>1, <3>2, <3>3, AnsweredAfterOne
  <2> QED BY <2>2, <2>3
<1>4. ASSUME NEW k \in Key, SrvKeyUp(k) PROVE LatchIsAnswered'
  <2>1. /\ held' = held \ {k} /\ srvFocus' = srvFocus /\ Deliver("KEY_RELEASE", k)
        /\ excused' = IF grabbed THEN excused \cup {k} ELSE excused
    BY <1>4 DEF SrvKeyUp
  <2>2. CASE srvFocus = NoWindow \/ grabbed
    <3>1. wire' = wire
      BY <2>1, <2>2 DEF Deliver
    <3>2. /\ excused \subseteq excused'
          /\ \A x \in held : x \in held' \/ x \in excused' \/ srvFocus \notin windows
      BY <1>0, <2>1, <2>2
    <3> QED BY <1>0, <1>1, <2>1, <3>1, <3>2, AnsweredUnsent
  <2>3. CASE ~(srvFocus = NoWindow \/ grabbed)
    <3>1. Send(<<Raw("KEY_RELEASE", srvFocus, k)>>)
      BY <2>1, <2>3 DEF Deliver
    <3>2. srvFocus \in windows /\ "KEY_RELEASE" \in RawKind /\ excused' = excused
      BY <1>0, <2>1, <2>3 DEF RawKind
    <3>3. /\ \A x \in held : x \in held' \/ ("KEY_RELEASE" = "KEY_RELEASE" /\ x = k)
          /\ "KEY_RELEASE" = "KEY_PRESS" /\ k \in Key => k \in held'
      BY <2>1
    <3> QED BY <1>0, <1>1, <2>1, <3>1, <3>2, <3>3, AnsweredAfterOne
  <2> QED BY <2>2, <2>3
<1>5. ASSUME NEW kind \in {"FOCUS_OUT_GRAB", "FOCUS_IN_UNGRAB"}, srvFocus # NoWindow,
             Send(<<Raw(kind, srvFocus, NoKey)>>),
             srvFocus' = srvFocus, held' = held, excused' = excused
      PROVE  LatchIsAnswered'
  <2>1. /\ srvFocus \in windows /\ kind \in RawKind /\ kind # "KEY_PRESS"
        /\ kind # "KEY_RELEASE"
    BY <1>0, <1>5 DEF RawKind
  <2> QED BY <1>0, <1>1, <1>5, <2>1, AnsweredAfterOne
<1>6. CASE SrvGrab
  BY <1>5, <1>6 DEF SrvGrab
<1>7. CASE SrvUngrab
  <2>1. srvFocus' = srvFocus /\ held' = held /\ excused' = excused
    BY <1>7 DEF SrvUngrab
  <2>2. CASE srvFocus = NoWindow
    <3>1. wire' = wire
      BY <1>7, <2>2 DEF SrvUngrab
    <3> QED BY <1>0, <1>1, <2>1, <3>1, AnsweredUnsent
  <2>3. CASE srvFocus # NoWindow
    BY <1>5, <1>7, <2>1, <2>3 DEF SrvUngrab
  <2> QED BY <2>2, <2>3
<1> QED BY <1>2, <1>3, <1>4, <1>6, <1>7 DEF Server

-----------------------------------------------------------------------------
(* The library lets go *)

\* One event of the wire has been dispatched.
LEMMA OwedAfterTail ==
  ASSUME NEW s \in Seq(RawEvent), s # << >>, NEW focus, NEW down, NEW w, NEW k,
         NEW i \in 0..Len(s) - 1,
         \/ Owed(s, focus, down, w, k, i + 1)
         \/ i = 0 /\ Owed(s, focus, down, w, k, 0) /\ ~Releases(Head(s), w, k)
  PROVE  Owed(Tail(s), focus, down, w, k, i)
<1>1. /\ Len(s) \in Nat \ {0} /\ Len(Tail(s)) = Len(s) - 1 /\ Head(s) = s[1]
      /\ \A j \in 1..Len(s) - 1 : Tail(s)[j] = s[j + 1]
  OBVIOUS
<1>2. ASSUME NEW j \in i + 2..Len(s), Releases(s[j], w, k)
      PROVE  Owed(Tail(s), focus, down, w, k, i)
  <2>1. /\ j - 1 \in i + 1..Len(Tail(s)) /\ j - 1 \in 1..Len(s) - 1 /\ (j - 1) + 1 = j
    BY <1>1
  <2>2. Tail(s)[j - 1] = s[j]
    BY <1>1, <2>1
  <2>3. Releases(Tail(s)[j - 1], w, k)
    BY <1>2, <2>2
  <2> QED BY <2>1, <2>3 DEF Owed
<1>3. CASE focus = w /\ k \in down
  BY <1>3 DEF Owed
<1>4. CASE Owed(s, focus, down, w, k, i + 1)
  <2>1. CASE \E j \in (i + 1) + 1..Len(s) : Releases(s[j], w, k)
    <3>1. PICK j \in (i + 1) + 1..Len(s) : Releases(s[j], w, k)
      BY <2>1
    <3>2. j \in i + 2..Len(s)
      BY <1>1
    <3> QED BY <1>2, <3>1, <3>2
  <2> QED BY <1>3, <1>4, <2>1 DEF Owed
<1>5. CASE i = 0 /\ Owed(s, focus, down, w, k, 0) /\ ~Releases(Head(s), w, k)
  <2>1. CASE \E j \in 0 + 1..Len(s) : Releases(s[j], w, k)
    <3>1. PICK j \in 0 + 1..Len(s) : Releases(s[j], w, k)
      BY <2>1
    <3>2. j # 1
      BY <1>1, <1>5, <3>1
    <3>3. j \in i + 2..Len(s)
      BY <1>1, <1>5, <3>2
    <3> QED BY <1>2, <3>1, <3>3
  <2> QED BY <1>3, <1>5, <2>1 DEF Owed
<1> QED BY <1>4, <1>5

\* What the dispatch of one event does to the latch and the queue.
LatchStep(e) ==
  \/ /\ UNCHANGED <<focused, keys, queue, stamp, excused>>
     /\ \A w \in windows, k \in Key : ~Releases(e, w, k)
  \/ /\ e.win \in windows /\ e.kind \in {"KEY_PRESS", "KEY_RELEASE"}
     /\ EmitKey(e.win, e.key, e.kind = "KEY_PRESS", e.kind = "KEY_PRESS" /\ e.key \in keys)
     /\ focused = {e.win} /\ focused' = focused /\ excused' = excused
  \/ /\ e.win \in windows /\ e.kind = "FOCUS_IN"
     /\ EmitFocus(e.win, TRUE) /\ focused = {}
     /\ keys' = keys /\ excused' = excused
  \/ /\ e.win \in windows /\ e.kind = "FOCUS_OUT"
     /\ EmitFocus(e.win, FALSE) /\ focused = {e.win}
     /\ keys' = {} /\ excused' = excused \cap StillToLatch(Tail(wire))

LEMMA DispatchLatchStep ==
  ASSUME TypeOK, FocusIsTracked, Dispatch
  PROVE  /\ LatchStep(Head(wire))
         /\ wire # << >> /\ wire' = Tail(wire)
         /\ windows' = windows /\ seen' = seen
         /\ srvFocus' = srvFocus /\ held' = held
         /\ excused' \subseteq excused
         /\ \A k \in excused : k \in StillToLatch(Tail(wire)) => k \in excused'
<1> DEFINE e == Head(wire)
<1>1. /\ wire # << >> /\ wire' = Tail(wire) /\ windows' = windows /\ seen' = seen
      /\ srvFocus' = srvFocus /\ held' = held
  BY DEF Dispatch
<1>2. CASE e.win \in windows /\ e.kind \in {"KEY_PRESS", "KEY_RELEASE"}
  <2>1. focused = {e.win}
    BY <1>1, <1>2, HeadFindsFocus
  <2> QED BY <1>1, <1>2, <2>1 DEF Dispatch, DispatchKey, LatchStep
<1>3. CASE e.win \in windows /\ e.kind = "FOCUS_IN"
  <2>1. focused = {}
    BY <1>1, <1>3, HeadFindsFocus
  <2>2. DispatchFocus(e)
    BY <1>3 DEF Dispatch
  <2>3. EmitFocus(e.win, TRUE) /\ excused' = excused
    BY <1>3, <2>1, <2>2 DEF DispatchFocus
  <2>4. keys' = keys
    BY <2>1, <2>3 DEF EmitFocus
  <2> QED BY <1>1, <1>3, <2>1, <2>3, <2>4 DEF LatchStep
<1>4. CASE e.win \in windows /\ e.kind = "FOCUS_OUT"
  <2>1. focused = {e.win}
    BY <1>1, <1>4, HeadFindsFocus
  <2>2. DispatchFocus(e)
    BY <1>4 DEF Dispatch
  <2>3. EmitFocus(e.win, FALSE) /\ excused' = excused \cap StillToLatch(Tail(wire))
    BY <1>4, <2>1, <2>2 DEF DispatchFocus
  <2>4. keys' = {}
    BY <2>1, <2>3 DEF EmitFocus
  <2> QED BY <1>1, <1>4, <2>1, <2>3, <2>4 DEF LatchStep
<1>5. CASE ~(e.win \in windows
             /\ e.kind \in {"KEY_PRESS", "KEY_RELEASE", "FOCUS_IN", "FOCUS_OUT"})
  <2>1. UNCHANGED <<focused, keys, queue, stamp, excused>>
    BY <1>5 DEF Dispatch, DispatchKey, DispatchFocus
  <2>2. \A w \in windows, k \in Key : ~Releases(e, w, k)
    BY <1>5 DEF Releases
  <2> QED BY <1>1, <2>1, <2>2 DEF LatchStep
<1> QED BY <1>2, <1>3, <1>4, <1>5

LEMMA DispatchAnswers ==
  ASSUME TypeOK, FocusIsTracked, LatchIsAnswered, Dispatch
  PROVE  LatchIsAnswered'
<1> DEFINE e == Head(wire)
<1>1. /\ LatchStep(e) /\ wire # << >> /\ wire' = Tail(wire)
      /\ windows' = windows /\ srvFocus' = srvFocus /\ held' = held
      /\ excused' \subseteq excused
      /\ \A k \in excused : k \in StillToLatch(Tail(wire)) => k \in excused'
  BY DispatchLatchStep
<1>2. /\ wire \in Seq(RawEvent) /\ wire' \in Seq(RawEvent)
      /\ Len(wire) \in Nat \ {0} /\ Len(wire') = Len(wire) - 1
      /\ e = wire[1] /\ e \in RawEvent /\ 1 \in 1..Len(wire)
      /\ \A i \in 1..Len(wire') : wire'[i] = wire[i + 1]
      /\ keys \subseteq Key /\ focused \subseteq windows
  BY <1>1, OneFocus DEF TypeOK
<1>3. ASSUME NEW w \in windows, NEW k \in Key, ~Releases(e, w, k),
             Owed(wire, srvFocus, held, w, k, 0)
      PROVE  Owed(wire', srvFocus', held', w, k, 0)
  BY <1>1, <1>2, <1>3, OwedAfterTail
<1>4. ASSUME NEW k \in keys' \ excused'
      PROVE  \E w \in focused' : Owed(wire', srvFocus', held', w, k, 0)
  <2>1. CASE /\ UNCHANGED <<focused, keys, queue, stamp, excused>>
             /\ \A w \in windows, x \in Key : ~Releases(e, w, x)
    <3>1. PICK w \in focused : Owed(wire, srvFocus, held, w, k, 0)
      BY <1>4, <2>1 DEF LatchIsAnswered
    <3> QED BY <1>2, <1>3, <1>4, <2>1, <3>1
  <2>2. CASE /\ e.win \in windows /\ e.kind \in {"KEY_PRESS", "KEY_RELEASE"}
             /\ EmitKey(e.win, e.key, e.kind = "KEY_PRESS",
                        e.kind = "KEY_PRESS" /\ e.key \in keys)
             /\ focused = {e.win} /\ focused' = focused /\ excused' = excused
    <3>1. CASE k = e.key
      <4>1. e.kind = "KEY_PRESS" /\ e.key \in Key \ excused
        BY <1>2, <1>4, <2>2, <3>1 DEF EmitKey
      <4>2. Owed(wire, srvFocus, held, e.win, e.key, 1)
        BY <1>2, <2>2, <4>1 DEF LatchIsAnswered
      <4>3. Owed(wire', srvFocus', held', e.win, e.key, 0)
        <5>1. 0 \in 0..Len(wire) - 1 /\ 0 + 1 = 1
          BY <1>2
        <5> QED BY <1>1, <1>2, <4>2, <5>1, OwedAfterTail
      <4> QED BY <2>2, <3>1, <4>3
    <3>2. CASE k # e.key
      <4>1. k \in keys \ excused
        BY <1>4, <2>2, <3>2 DEF EmitKey
      <4>2. Owed(wire, srvFocus, held, e.win, k, 0)
        BY <2>2, <4>1 DEF LatchIsAnswered
      <4>3. ~Releases(e, e.win, k)
        BY <2>2, <3>2 DEF Releases
      <4> QED BY <1>2, <1>3, <2>2, <4>1, <4>2, <4>3
    <3> QED BY <3>1, <3>2
  <2>3. CASE focused = {} /\ keys' = keys /\ excused' = excused
    BY <1>4, <2>3 DEF LatchIsAnswered
  <2>4. CASE keys' = {}
    BY <1>4, <2>4
  <2> QED BY <1>1, <2>1, <2>2, <2>3, <2>4 DEF LatchStep
<1>5. ASSUME NEW i \in 1..Len(wire'), wire'[i].kind = "KEY_PRESS",
             wire'[i].win \in windows', wire'[i].key \in Key \ excused'
      PROVE  Owed(wire', srvFocus', held', wire'[i].win, wire'[i].key, i)
  <2>1. wire'[i].key \in StillToLatch(wire')
    BY <1>5 DEF StillToLatch
  <2>2. wire'[i].key \notin excused
    BY <1>1, <1>5, <2>1
  <2>3. i + 1 \in 1..Len(wire) /\ wire'[i] = wire[i + 1] /\ i \in 0..Len(wire) - 1
    BY <1>2
  <2>4. Owed(wire, srvFocus, held, wire[i + 1].win, wire[i + 1].key, i + 1)
    BY <1>1, <1>5, <2>2, <2>3 DEF LatchIsAnswered
  <2>5. Owed(wire', srvFocus', held', wire[i + 1].win, wire[i + 1].key, i)
    BY <1>1, <1>2, <2>3, <2>4, OwedAfterTail
  <2> QED BY <2>3, <2>5
<1> QED BY <1>4, <1>5 DEF LatchIsAnswered

\* A press is the newest word on its key.
LEMMA BelievesPress ==
  ASSUME TypeOK, Bookkeeping, NEW w \in Window, NEW k \in Key, NEW down \in BOOLEAN,
         NEW repeat, EmitKey(w, k, down, repeat), down
  PROVE  Believes(w, k)'
<1> DEFINE e == EventBegin(stamp + 1, IF down THEN "KEY_DOWN" ELSE "KEY_UP", w, k, repeat)
<1>1. queue' = queue \cup {e}
  BY DEF EmitKey
<1>2. e.n = stamp + 1 /\ e.type = "KEY_DOWN" /\ e.win = w /\ e.key = k
  BY DEF EventBegin
<1> HIDE DEF e
<1>3. stamp \in Nat /\ \A f \in queue : f.n \in Nat /\ f.n <= stamp
  BY DEF TypeOK, Bookkeeping, Event
<1>4. \A f \in queue' : f.n <= e.n
  BY <1>1, <1>2, <1>3
<1>5. e \in Word(w, k)'
  BY <1>1, <1>2 DEF Word
<1>6. \A f \in Word(w, k)' : f.n <= e.n
  BY <1>4 DEF Word
<1> QED BY <1>2, <1>5, <1>6 DEF Believes

LEMMA DispatchKnows ==
  ASSUME TypeOK, Bookkeeping, FocusIsTracked, LatchIsKnown, Dispatch
  PROVE  LatchIsKnown'
<1> DEFINE e == Head(wire)
<1>1. LatchStep(e) /\ wire # << >> /\ seen' = seen /\ windows \subseteq Window
      /\ keys \subseteq Key
  BY DispatchLatchStep DEF TypeOK
<1> SUFFICES ASSUME NEW k \in keys' \ excused'
             PROVE  \E w \in focused' : Believes(w, k)'
  BY DEF LatchIsKnown
<1>2. CASE UNCHANGED <<focused, keys, queue, stamp, excused>>
  <2>1. \A w : Believes(w, k)' = Believes(w, k)
    BY <1>1, <1>2 DEF Believes, Word
  <2> QED BY <1>2, <2>1 DEF LatchIsKnown
<1>3. CASE /\ e.win \in windows /\ e.kind \in {"KEY_PRESS", "KEY_RELEASE"}
           /\ EmitKey(e.win, e.key, e.kind = "KEY_PRESS",
                      e.kind = "KEY_PRESS" /\ e.key \in keys)
           /\ focused = {e.win} /\ focused' = focused /\ excused' = excused
  <2>0. PICK w \in Window : w = e.win
    BY <1>1, <1>3
  <2>1. CASE k = e.key
    <3>1. e.kind = "KEY_PRESS" /\ k \in Key
      BY <1>1, <1>3, <2>1 DEF EmitKey
    <3> DEFINE down   == e.kind = "KEY_PRESS"
               repeat == e.kind = "KEY_PRESS" /\ e.key \in keys
    <3>2. EmitKey(w, k, down, repeat)
      BY <1>3, <2>0, <2>1
    <3>3. Believes(w, k)'
      <4>1. down \in BOOLEAN /\ down
        BY <3>1
      <4> HIDE DEF down, repeat
      <4> QED BY <3>1, <3>2, <4>1, BelievesPress
    <3> QED BY <1>3, <2>0, <3>3
  <2>2. CASE k # e.key
    <3>1. k \in keys \ excused
      BY <1>3, <2>2 DEF EmitKey
    <3>2. Believes(w, k)
      BY <1>3, <2>0, <3>1 DEF LatchIsKnown
    <3>3. Word(w, k)' = Word(w, k)
      <4> DEFINE d == EventBegin(stamp + 1,
                        IF e.kind = "KEY_PRESS" THEN "KEY_DOWN" ELSE "KEY_UP", e.win,
                        e.key, e.kind = "KEY_PRESS" /\ e.key \in keys)
      <4>1. queue' = queue \cup {d} /\ d.key = e.key
        BY <1>3 DEF EmitKey, EventBegin
      <4> HIDE DEF d
      <4> QED BY <2>2, <4>1 DEF Word
    <3>4. Believes(w, k)'
      BY <1>1, <3>2, <3>3 DEF Believes
    <3> QED BY <1>3, <2>0, <3>4
  <2> QED BY <2>1, <2>2
<1>4. CASE focused = {} /\ keys' = keys /\ excused' = excused
  BY <1>4 DEF LatchIsKnown
<1>5. CASE keys' = {}
  BY <1>5
<1> QED BY <1>1, <1>2, <1>3, <1>4, <1>5 DEF LatchStep

LEMMA DispatchStampsApart ==
  ASSUME TypeOK, Bookkeeping, FocusIsTracked, StampsApart, Dispatch
  PROVE  StampsApart'
<1> DEFINE e == Head(wire)
<1>1. LatchStep(e) /\ keys \subseteq Key /\ NoKey \notin Key
  BY DispatchLatchStep, NullAssumption DEF TypeOK
<1>2. stamp \in Nat /\ \A f \in queue : f.n \in Nat /\ f.n <= stamp
  BY DEF TypeOK, Bookkeeping, Event
<1>3. ASSUME NEW w, NEW k, NEW down, NEW repeat, EmitKey(w, k, down, repeat)
      PROVE  StampsApart'
  <2> DEFINE d == EventBegin(stamp + 1, IF down THEN "KEY_DOWN" ELSE "KEY_UP", w, k, repeat)
  <2>1. queue' = queue \cup {d} /\ d.n = stamp + 1
    BY <1>3 DEF EmitKey, EventBegin
  <2> HIDE DEF d
  <2> QED BY <1>2, <2>1 DEF StampsApart
<1>4. ASSUME NEW w, NEW gained \in BOOLEAN, EmitFocus(w, gained)
      PROVE  StampsApart'
  <2>1. CASE (w \in focused) = gained
    BY <1>4, <2>1 DEF EmitFocus, StampsApart
  <2>2. CASE (w \in focused) # gained
    <3> DEFINE up(k) == EventBegin(stamp + 1, "KEY_UP", w, k, FALSE)
               last  == EventBegin(stamp + 2, IF gained THEN "FOCUS" ELSE "BLUR",
                                   w, NoKey, FALSE)
    <3>1. queue' \subseteq queue \cup {up(k) : k \in keys} \cup {last}
      BY <1>4, <2>2 DEF EmitFocus
    <3>2. \A k \in keys : up(k).n = stamp + 1 /\ up(k).key = k
      BY DEF EventBegin
    <3>3. last.n = stamp + 2
      BY DEF EventBegin
    <3> HIDE DEF up, last
    <3>4. \A f \in {up(k) : k \in keys} : f.n = stamp + 1 /\ f = up(f.key)
      BY <3>2
    <3> QED BY <1>2, <3>1, <3>3, <3>4 DEF StampsApart
  <2> QED BY <2>1, <2>2
<1> QED BY <1>1, <1>3, <1>4 DEF LatchStep, StampsApart

-----------------------------------------------------------------------------
(* The application keeps up *)

\* Popping the oldest event loses no belief.
LEMMA BelievesThroughPop ==
  ASSUME TypeOK, StampsApart, Pop, NEW v \in Window, NEW x \in Key, Believes(v, x)
  PROVE  Believes(v, x)'
<1>1. PICK e \in queue :
        /\ \A f \in queue : e.n <= f.n
        /\ queue' = queue \ {e}
        /\ seen' = [seen EXCEPT ![e.win] =
                      CASE e.type = "KEY_DOWN" -> @ \cup ({e.key} \cap Key)
                        [] e.type = "KEY_UP"   -> @ \ {e.key}
                        [] OTHER -> @]
  BY DEF Pop
<1>2. e.win \in Window /\ seen \in [Window -> SUBSET Key] /\ \A f \in queue : f.n \in Nat
  BY DEF TypeOK, Event
<1>3. Word(v, x)' = Word(v, x) \ {e}
  BY <1>1 DEF Word
<1>4. CASE e \notin Word(v, x)
  <2>1. e.win = v => e.key # x \/ e.type \notin {"KEY_DOWN", "KEY_UP"}
    BY <1>4 DEF Word
  <2>2. x \in seen[v] => x \in seen'[v]
    BY <1>1, <1>2, <2>1
  <2>3. Word(v, x)' = Word(v, x)
    BY <1>3, <1>4
  <2> QED BY <2>2, <2>3 DEF Believes
<1>5. CASE e \in Word(v, x)
  <2>1. e.win = v /\ e.key = x
    BY <1>5 DEF Word
  <2>2. PICK d \in Word(v, x) : d.type = "KEY_DOWN" /\ \A f \in Word(v, x) : f.n <= d.n
    BY <1>5 DEF Believes
  <2>3. CASE d = e
    <3>1. ASSUME NEW f \in Word(v, x) PROVE f = e
      <4>1. f \in queue /\ f.key = x
        BY DEF Word
      <4>2. f.n = e.n
        BY <1>1, <1>2, <2>2, <2>3, <4>1
      <4> QED BY <2>1, <4>1, <4>2 DEF StampsApart
    <3>2. Word(v, x)' = {}
      BY <1>3, <3>1
    <3>3. x \in seen'[v]
      BY <1>1, <1>2, <2>1, <2>2, <2>3
    <3> QED BY <3>2, <3>3 DEF Believes
  <2>4. CASE d # e
    BY <1>3, <2>2, <2>4 DEF Believes
  <2> QED BY <2>3, <2>4
<1> QED BY <1>4, <1>5

LEMMA PopLatch ==
  ASSUME TypeOK, FocusIsTracked, LatchIsAnswered, LatchIsKnown, StampsApart, Pop
  PROVE  LatchIsAnswered' /\ LatchIsKnown' /\ StampsApart'
<1>1. /\ UNCHANGED <<wire, srvFocus, held, windows, focused, keys, excused>>
      /\ queue' \subseteq queue
  BY DEF Pop, server
<1>2. focused \subseteq Window /\ keys \subseteq Key
  BY DEF TypeOK
<1>3. LatchIsAnswered'
  BY <1>1 DEF LatchIsAnswered
<1>4. LatchIsKnown'
  BY <1>1, <1>2, BelievesThroughPop DEF LatchIsKnown
<1>5. StampsApart'
  BY <1>1 DEF StampsApart
<1> QED BY <1>3, <1>4, <1>5

LEMMA CreateLatch ==
  ASSUME TypeOK, Bookkeeping, LatchIsAnswered, LatchIsKnown, StampsApart,
         NEW w \in Window, Create(w)
  PROVE  LatchIsAnswered' /\ LatchIsKnown' /\ StampsApart'
<1>1. /\ UNCHANGED <<wire, srvFocus, held, focused, keys, queue, seen, excused>>
      /\ windows' = windows \cup {w} /\ w \notin created
  BY DEF Create, server, input
<1>2. \A i \in 1..Len(wire) : wire[i].win # w
  BY <1>1 DEF Bookkeeping
<1>3. LatchIsAnswered'
  BY <1>1, <1>2 DEF LatchIsAnswered
<1>4. \A v, k : Believes(v, k)' = Believes(v, k)
  BY <1>1 DEF Believes, Word
<1>5. LatchIsKnown' /\ StampsApart'
  BY <1>1, <1>4 DEF LatchIsKnown, StampsApart
<1> QED BY <1>3, <1>5

\* The keys latched with a window that goes are excused; those of another
\* window are still owed to it.
LEMMA DestroyLatch ==
  ASSUME TypeOK, LatchIsAnswered, LatchIsKnown, StampsApart,
         NEW w \in Window, Destroy(w)
  PROVE  LatchIsAnswered' /\ LatchIsKnown' /\ StampsApart'
<1>1. /\ UNCHANGED <<wire, held, keys>>
      /\ queue' = {e \in queue : e.win # w}
      /\ windows' = windows \ {w} /\ focused' = focused \ {w}
      /\ srvFocus' = IF srvFocus = w THEN NoWindow ELSE srvFocus
      /\ seen' = [seen EXCEPT ![w] = {}]
      /\ excused' = IF w \in focused THEN excused \cup keys ELSE excused
      /\ focused \subseteq Window /\ windows \subseteq Window
  BY DEF Destroy, PurgeWindowEvents, TypeOK
<1>2. ASSUME NEW v, NEW k, NEW i, v # w, Owed(wire, srvFocus, held, v, k, i)
      PROVE  Owed(wire', srvFocus', held', v, k, i)
  BY <1>1, <1>2 DEF Owed
<1>3. ASSUME NEW k \in keys' \ excused'
      PROVE  focused' = focused /\ w \notin focused /\ k \in keys \ excused
  BY <1>1, <1>3
<1>4. LatchIsAnswered'
  <2>1. ASSUME NEW k \in keys' \ excused'
        PROVE  \E v \in focused' : Owed(wire', srvFocus', held', v, k, 0)
    <3>1. PICK v \in focused : Owed(wire, srvFocus, held, v, k, 0)
      BY <1>3 DEF LatchIsAnswered
    <3> QED BY <1>2, <1>3, <3>1
  <2>2. ASSUME NEW i \in 1..Len(wire'), wire'[i].kind = "KEY_PRESS",
               wire'[i].win \in windows', wire'[i].key \in Key \ excused'
        PROVE  Owed(wire', srvFocus', held', wire'[i].win, wire'[i].key, i)
    <3>1. /\ i \in 1..Len(wire) /\ wire'[i] = wire[i] /\ wire[i].win \in windows
          /\ wire[i].win # w /\ wire[i].key \in Key \ excused
      BY <1>1, <2>2
    <3>2. Owed(wire, srvFocus, held, wire[i].win, wire[i].key, i)
      BY <2>2, <3>1 DEF LatchIsAnswered
    <3> QED BY <1>2, <3>1, <3>2
  <2> QED BY <2>1, <2>2 DEF LatchIsAnswered
<1>5. LatchIsKnown'
  <2> SUFFICES ASSUME NEW k \in keys' \ excused'
               PROVE  \E v \in focused' : Believes(v, k)'
    BY DEF LatchIsKnown
  <2>1. PICK v \in focused : Believes(v, k)
    BY <1>3 DEF LatchIsKnown
  <2>2. v # w /\ v \in Window /\ v \in focused'
    BY <1>1, <1>3
  <2>3. Word(v, k)' = Word(v, k) /\ seen'[v] = seen[v]
    BY <1>1, <2>2 DEF Word, TypeOK
  <2>4. Believes(v, k)'
    BY <2>1, <2>3 DEF Believes
  <2> QED BY <2>2, <2>4
<1>6. StampsApart'
  BY <1>1 DEF StampsApart
<1> QED BY <1>4, <1>5, <1>6

LEMMA NextLatch ==
  InputInv /\ LatchIsAnswered /\ LatchIsKnown /\ StampsApart /\ [Next]_vars
    => LatchIsAnswered' /\ LatchIsKnown' /\ StampsApart'
<1> SUFFICES ASSUME InputInv, LatchIsAnswered, LatchIsKnown, StampsApart, [Next]_vars
             PROVE  LatchIsAnswered' /\ LatchIsKnown' /\ StampsApart'
  OBVIOUS
<1> USE DEF server, input
<1>1. TypeOK /\ Bookkeeping /\ FocusIsTracked
  BY DEF InputInv
\* A step that leaves alone what the latch and the queue are about.
<1>2. CASE UNCHANGED <<wire, srvFocus, held, windows, focused, keys, queue, seen, excused>>
  BY <1>2 DEF LatchIsAnswered, LatchIsKnown, StampsApart, Believes, Word
<1>3. CASE Server
  <2>1. LatchIsAnswered'
    BY <1>1, <1>3, ServerAnswers
  <2>2. UNCHANGED <<focused, keys, queue, seen>> /\ excused \subseteq excused'
    BY <1>3 DEF Server, SrvFocus, SrvKeyDown, SrvKeyUp, SrvGrab, SrvUngrab, ServerOnly
  <2>3. \A w, k : Believes(w, k)' = Believes(w, k)
    BY <2>2 DEF Believes, Word
  <2> QED BY <2>1, <2>2, <2>3 DEF LatchIsKnown, StampsApart
<1>4. CASE Dispatch
  BY <1>1, <1>4, DispatchAnswers, DispatchKnows, DispatchStampsApart
<1>5. CASE Pop
  BY <1>1, <1>5, PopLatch
<1>6. CASE WinInit
  BY <1>2, <1>6 DEF WinInit
<1>7. ASSUME NEW w \in Window, Create(w)
      PROVE  LatchIsAnswered' /\ LatchIsKnown' /\ StampsApart'
  BY <1>1, <1>7, CreateLatch
<1>8. ASSUME NEW w \in Window, Destroy(w)
      PROVE  LatchIsAnswered' /\ LatchIsKnown' /\ StampsApart'
  BY <1>1, <1>8, DestroyLatch
<1>9. CASE Shutdown
  BY <1>9 DEF Shutdown, LatchIsAnswered, LatchIsKnown, StampsApart
<1>10. ASSUME NEW c \in Context, ContextCreate(c) \/ ContextDestroy(c)
       PROVE  LatchIsAnswered' /\ LatchIsKnown' /\ StampsApart'
  BY <1>2, <1>10 DEF ContextCreate, ContextDestroy
<1>11. ASSUME NEW w \in Window, NEW c \in Context \cup {NoContext}, MakeCurrent(w, c)
       PROVE  LatchIsAnswered' /\ LatchIsKnown' /\ StampsApart'
  BY <1>2, <1>11 DEF MakeCurrent
<1>12. CASE UNCHANGED vars
  BY <1>2, <1>12 DEF vars
<1> QED BY <1>3, <1>4, <1>5, <1>6, <1>7, <1>8, <1>9, <1>10, <1>11, <1>12
        DEF Next, Application

\* LatchInv is inductive: every latched key is going to be released by an
\* event in flight or by the server, unless its window was destroyed or a
\* grab took the release, and the application knows of it.
THEOREM LatchInvariant == Spec => []LatchInv
<1>1. Init => LatchIsAnswered /\ LatchIsKnown /\ StampsApart
  BY DEF Init, LatchIsAnswered, LatchIsKnown, StampsApart
<1>2. InputInv /\ LatchIsAnswered /\ LatchIsKnown /\ StampsApart /\ [Next]_vars
        => LatchIsAnswered' /\ LatchIsKnown' /\ StampsApart'
  BY NextLatch
<1> QED BY <1>1, <1>2, InputInvariant, PTL DEF Spec, LatchInv

\* Once the connection is quiet the focus flags say what the server says and
\* a latched key is physically held (nack_xcb.cpp:642, :656).
THEOREM InputSettles == Spec => []SettledInput
<1>1. LatchInv => SettledInput
  <2> SUFFICES ASSUME LatchInv, wire = << >>
               PROVE  focused = {srvFocus} \cap windows /\ keys \ excused \subseteq held
    BY DEF SettledInput
  <2>1. focused = {srvFocus} \cap windows
    BY DEF LatchInv, InputInv, FocusIsTracked
  <2>2. ASSUME NEW k \in keys \ excused PROVE k \in held
    <3>1. PICK w \in focused : Owed(wire, srvFocus, held, w, k, 0)
      BY <2>2 DEF LatchInv, LatchIsAnswered
    <3>2. 0 + 1..Len(wire) = {}
      OBVIOUS
    <3> QED BY <3>1, <3>2 DEF Owed
  <2> QED BY <2>1, <2>2
<1> QED BY <1>1, LatchInvariant, PTL

\* A KEY_DOWN is flagged as a repeat (nack_xcb.cpp:477) only for a key the
\* application knows to be down in that window, or an excused one.
THEOREM RepeatsAreKnown == Spec => RepeatMeansHeld
<1>1. LatchInv /\ [Next]_vars =>
        [\A e \in queue' \ queue :
           e.type = "KEY_DOWN" /\ e.repeat =>
             Believes(e.win, e.key) \/ e.key \in excused]_queue
  <2> SUFFICES ASSUME LatchInv, [Next]_vars, NEW e \in queue' \ queue,
                      e.type = "KEY_DOWN", e.repeat
               PROVE  Believes(e.win, e.key) \/ e.key \in excused
    OBVIOUS
  <2> USE DEF server, input
  <2>1. TypeOK /\ FocusIsTracked /\ LatchIsKnown
    BY DEF LatchInv, InputInv
  <2>2. ~(queue' \subseteq queue)
    OBVIOUS
  <2>3. Dispatch
    BY <2>2 DEF Next, vars, Server, SrvFocus, SrvKeyDown, SrvKeyUp, SrvGrab, SrvUngrab,
                ServerOnly, Application, Pop, WinInit, Create, Destroy, PurgeWindowEvents,
                Shutdown, ContextCreate, ContextDestroy, MakeCurrent
  <2> DEFINE h == Head(wire)
  <2>4. LatchStep(h)
    BY <2>1, <2>3, DispatchLatchStep
  <2>5. ASSUME NEW w, NEW gained \in BOOLEAN, EmitFocus(w, gained) PROVE FALSE
    BY <2>5 DEF EmitFocus, EventBegin
  <2>6. /\ EmitKey(h.win, h.key, h.kind = "KEY_PRESS", h.kind = "KEY_PRESS" /\ h.key \in keys)
        /\ focused = {h.win}
    BY <2>4, <2>5 DEF LatchStep
  <2>7. e.win = h.win /\ e.key = h.key /\ h.key \in keys
    <3> DEFINE repeat == h.kind = "KEY_PRESS" /\ h.key \in keys
               d == EventBegin(stamp + 1,
                               IF h.kind = "KEY_PRESS" THEN "KEY_DOWN" ELSE "KEY_UP",
                               h.win, h.key, repeat)
    <3>1. queue' = queue \cup {d}
      BY <2>6 DEF EmitKey
    <3>2. d.win = h.win /\ d.key = h.key
      BY DEF EventBegin
    <3>3. d.repeat = repeat
      BY DEF EventBegin
    <3> HIDE DEF d
    <3>4. e = d
      BY <3>1
    <3>5. repeat
      BY <3>3, <3>4
    <3> QED BY <3>2, <3>4, <3>5
  <2> QED BY <2>1, <2>6, <2>7 DEF LatchIsKnown
<1> QED BY <1>1, LatchInvariant, PTL DEF Spec, RepeatMeansHeld

-----------------------------------------------------------------------------
(* The keyboard's promise *)

\* The window whose focus flag is set.
FocusedWindow == IF focused = {} THEN NoWindow ELSE CHOOSE w \in focused : TRUE

Promise == INSTANCE KeyboardPromise
             WITH live <- windows, focus <- FocusedWindow, down <- keys

\* The steps that move neither the windows, nor the focus, nor the latch.
LEMMA PromiseStutters ==
  UNCHANGED <<windows, focused, keys>> => UNCHANGED Promise!vars
BY DEF Promise!vars, FocusedWindow

LEMMA DispatchKeepsPromise ==
  ASSUME TypeOK, FocusIsTracked, Dispatch
  PROVE  [Promise!Next]_(Promise!vars)
<1> DEFINE e == Head(wire)
<1>1. /\ LatchStep(e) /\ windows' = windows /\ windows \subseteq Window
      /\ NoWindow \notin Window /\ keys \subseteq Key
  BY DispatchLatchStep, NullAssumption DEF TypeOK
<1>2. CASE UNCHANGED <<focused, keys, queue, stamp, excused>>
  BY <1>1, <1>2, PromiseStutters
<1>3. CASE /\ e.win \in windows
           /\ EmitKey(e.win, e.key, e.kind = "KEY_PRESS",
                      e.kind = "KEY_PRESS" /\ e.key \in keys)
           /\ focused = {e.win} /\ focused' = focused
  <2>1. FocusedWindow' = FocusedWindow /\ FocusedWindow # NoWindow
    BY <1>1, <1>3 DEF FocusedWindow
  <2>2. CASE e.key \notin Key
    BY <1>1, <1>3, <2>2, PromiseStutters DEF EmitKey
  <2>3. CASE e.key \in Key /\ e.kind = "KEY_PRESS"
    <3>1. keys' = keys \cup {e.key}
      BY <1>3, <2>3 DEF EmitKey
    <3>2. Promise!Press(e.key)
      BY <1>1, <2>1, <3>1 DEF Promise!Press
    <3> QED BY <2>3, <3>2 DEF Promise!Next
  <2>4. CASE e.key \in Key /\ e.kind # "KEY_PRESS"
    <3>1. keys' = keys \ {e.key}
      BY <1>3, <2>4 DEF EmitKey
    <3>2. Promise!Release({e.key})
      BY <1>1, <2>1, <3>1 DEF Promise!Release
    <3>3. {e.key} \in SUBSET Key
      BY <2>4
    <3> QED BY <3>2, <3>3 DEF Promise!Next
  <2> QED BY <2>2, <2>3, <2>4
<1>4. CASE e.win \in windows /\ EmitFocus(e.win, TRUE) /\ focused = {} /\ keys' = keys
  <2>1. focused' = {e.win}
    BY <1>4 DEF EmitFocus
  <2>2. FocusedWindow = NoWindow /\ FocusedWindow' = e.win
    BY <1>4, <2>1 DEF FocusedWindow
  <2>3. Promise!Gain(e.win)
    BY <1>1, <1>4, <2>2 DEF Promise!Gain
  <2> QED BY <1>1, <1>4, <2>3 DEF Promise!Next
<1>5. CASE /\ e.win \in windows /\ EmitFocus(e.win, FALSE) /\ focused = {e.win}
           /\ keys' = {}
  <2>1. focused' = {}
    BY <1>5 DEF EmitFocus
  <2>2. FocusedWindow = e.win /\ FocusedWindow' = NoWindow
    BY <1>5, <2>1 DEF FocusedWindow
  <2>3. Promise!Lose
    BY <1>1, <1>5, <2>2 DEF Promise!Lose
  <2> QED BY <2>3 DEF Promise!Next
<1> QED BY <1>1, <1>2, <1>3, <1>4, <1>5 DEF LatchStep

\* Whatever the server sends, the X11 backend keeps what the window layer
\* promises of the keyboard (nack_window.h:304, nack.cpp:250): focus passes
\* through a moment when no window has it, keys change only while one has, and
\* losing it lets go of them all.
THEOREM CoreKeepsKeyboardPromise == Spec => Promise!Spec
<1>1. Init => Promise!Init
  BY DEF Init, Promise!Init, FocusedWindow
<1>2. InputInv /\ [Next]_vars => [Promise!Next]_(Promise!vars)
  <2> SUFFICES ASSUME InputInv, [Next]_vars
               PROVE  [Promise!Next]_(Promise!vars)
    OBVIOUS
  <2> USE DEF server, input
  <2>0. /\ TypeOK /\ FocusIsTracked /\ Bookkeeping /\ NoWindow \notin Window
        /\ windows \subseteq Window
        /\ focused \subseteq windows /\ \A v, w \in focused : v = w
    BY OneFocus, NullAssumption DEF InputInv, TypeOK
  <2>1. CASE UNCHANGED <<windows, focused, keys>>
    BY <2>1, PromiseStutters
  <2>2. CASE Server
    BY <2>1, <2>2, ServerKeeps
  <2>3. CASE Dispatch
    BY <2>0, <2>3, DispatchKeepsPromise
  <2>4. ASSUME NEW w \in Window, Create(w)
        PROVE  [Promise!Next]_(Promise!vars)
    <3>1. w \notin windows /\ windows' = windows \cup {w}
      BY <2>0, <2>4 DEF Create, Bookkeeping
    <3>2. FocusedWindow' = FocusedWindow /\ keys' = keys
      BY <2>4 DEF Create, FocusedWindow
    <3>3. Promise!Create(w)
      BY <3>1, <3>2 DEF Promise!Create
    <3> QED BY <3>3 DEF Promise!Next
  <2>5. ASSUME NEW w \in Window, Destroy(w)
        PROVE  [Promise!Next]_(Promise!vars)
    <3>1. /\ w \in windows /\ windows' = windows \ {w} /\ focused' = focused \ {w}
          /\ keys' = keys
      BY <2>5 DEF Destroy
    <3>2. FocusedWindow' = IF FocusedWindow = w THEN NoWindow ELSE FocusedWindow
      <4>1. CASE w \in focused
        <5>1. focused = {w} /\ focused' = {}
          BY <2>0, <3>1, <4>1
        <5> QED BY <5>1 DEF FocusedWindow
      <4>2. CASE w \notin focused
        <5>1. focused' = focused
          BY <3>1, <4>2
        <5>2. FocusedWindow \in focused \cup {NoWindow}
          BY DEF FocusedWindow
        <5> QED BY <2>0, <4>2, <5>1, <5>2 DEF FocusedWindow
      <4> QED BY <4>1, <4>2
    <3>3. Promise!Destroy(w)
      BY <3>1, <3>2 DEF Promise!Destroy
    <3> QED BY <3>3 DEF Promise!Next
  <2>6. CASE Shutdown
    <3>1. windows' = {} /\ FocusedWindow' = NoWindow /\ keys' = {}
      BY <2>6 DEF Shutdown, FocusedWindow
    <3>2. Promise!Reset
      BY <3>1 DEF Promise!Reset
    <3> QED BY <3>2 DEF Promise!Next
  <2>7. CASE Pop \/ WinInit \/ UNCHANGED vars
    BY <2>1, <2>7 DEF Pop, WinInit, vars
  <2>8. ASSUME NEW c \in Context, ContextCreate(c) \/ ContextDestroy(c)
        PROVE  [Promise!Next]_(Promise!vars)
    BY <2>1, <2>8 DEF ContextCreate, ContextDestroy
  <2>9. ASSUME NEW w \in Window, NEW c \in Context \cup {NoContext}, MakeCurrent(w, c)
        PROVE  [Promise!Next]_(Promise!vars)
    BY <2>1, <2>9 DEF MakeCurrent
  <2> QED BY <2>2, <2>3, <2>4, <2>5, <2>6, <2>7, <2>8, <2>9 DEF Next, Application
<1> QED BY <1>1, <1>2, InputInvariant, PTL DEF Spec, Promise!Spec
=============================================================================
