------------------------------- MODULE EventLoop -------------------------------
(***************************************************************************)
(* Waiting for events and being woken: nack_console_state::poll_event,     *)
(* wait_event and wait_event_timeout (console/nack_api.cpp) over           *)
(* nack__win_poll_event and nack__win_wait_event_timeout (nack.cpp), over  *)
(* the pump and the wakeup of whichever backend was selected.              *)
(*                                                                         *)
(* One thread runs the application and every call it makes; pc is where in *)
(* a call it is.  Other threads call wake(), the server or the system adds *)
(* to the connection or message queue (wire), a deadline passes and a key  *)
(* repeat falls due, between any two steps.                                *)
(*                                                                         *)
(* What a message becomes is all that matters of it here: an event the     *)
(* console shows, one it hides (nack__translate), or none; on Wayland also *)
(* whether it starts or stops a key repeat, which that backend does by     *)
(* itself.  On X11 and Wayland a wakeup is a byte in a pipe; on Win32 and  *)
(* Cocoa it is a message like any other.                                   *)
(***************************************************************************)
EXTENDS Naturals, Sequences, FiniteSets

CONSTANTS
  Backends,   \* the backends a run may select: subset of AllBackends
  Calls,      \* the calls the application makes: subset of AllCalls
  PipeSize,   \* bytes the wakeup pipe holds
  MaxEvents,  \* bound: messages the server sends
  MaxWakes    \* bound: calls to wake()

AllBackends == {"x11", "wayland", "win32", "cocoa"}
AllCalls == {"poll", "wait", "timed"}

ASSUME LoopAssumption ==
  /\ Backends \subseteq AllBackends
  /\ Calls \subseteq AllCalls
  /\ PipeSize \in Nat \ {0}
  /\ MaxEvents \in Nat /\ MaxWakes \in Nat

VARIABLES
  backend,    \* state.vt
  pc,         \* where the application thread is
  call,       \* the call it is in, "none" between calls
  result,     \* what the last call returned: "SHOWN", "WAKEUP" or "nothing"
  expired,    \* the deadline of a timed wait has passed
  windows,    \* state.windows is not empty
  queue,      \* state.queue, a set of stamped events as in WindowCore
  stamp,      \* stamp of the newest event since the queue was last empty
  wire,       \* messages on the connection or in the message queue, oldest first
  pending,    \* Wayland: messages read from the connection and not dispatched
  pipe,       \* bytes in the wakeup pipe
  pipeReady,  \* what poll(2) said of the pipe
  repeat,     \* Wayland key repeat: "idle", "armed", or "due" once its time came
  block,      \* what ends the Wayland poll(2): "forever", "deadline" or "repeat"
  \* history and bounds
  owed,       \* a wake() has not been followed by a WAKEUP delivery
  wakes,      \* calls to wake()
  delivered,  \* WAKEUP events the application got
  sent,       \* messages the server has sent
  before      \* messages it had sent when the current call began

outside == <<wire, pipe, wakes, sent>>
clock   == <<expired, repeat>>
inbox   == <<queue, stamp, pending>>
where   == <<pc, call, result, before>>
vars == <<backend, windows, outside, clock, inbox, where, pipeReady, block,
          owed, delivered>>

-----------------------------------------------------------------------------
Step == {"app", "pop", "pump", "arm", "sleep", "read", "emit", "drain", "repeat",
         "pumped"}

Message == {"SHOWN", "HIDDEN", "NONE", "PRESS", "RELEASE", "WAKEUP"}
EventType == {"SHOWN", "HIDDEN", "WAKEUP"}

TypeOK ==
  /\ backend \in Backends
  /\ pc \in Step
  /\ call \in Calls \cup {"none"}
  /\ result \in {"SHOWN", "WAKEUP", "nothing"}
  /\ expired \in BOOLEAN /\ windows \in BOOLEAN
  /\ queue \subseteq [n : Nat, type : EventType]
  /\ stamp \in Nat
  /\ wire \in Seq(Message) /\ pending \in Seq(Message)
  /\ pipe \in 0..PipeSize /\ pipeReady \in BOOLEAN
  /\ repeat \in {"idle", "armed", "due"}
  /\ block \in {"forever", "deadline", "repeat"}
  /\ owed \in BOOLEAN
  /\ wakes \in Nat /\ delivered \in Nat /\ sent \in Nat /\ before \in Nat

Init ==
  /\ backend \in Backends
  /\ pc = "app" /\ call = "none" /\ result = "nothing"
  /\ expired = FALSE /\ windows = TRUE
  /\ queue = {} /\ stamp = 0 /\ wire = << >> /\ pending = << >>
  /\ pipe = 0 /\ pipeReady = FALSE /\ repeat = "idle" /\ block = "forever"
  /\ owed = FALSE /\ wakes = 0 /\ delivered = 0 /\ sent = 0 /\ before = 0

Piped == backend \in {"x11", "wayland"}

-----------------------------------------------------------------------------
(* The environment *)

ServerSends(type) ==
  /\ sent < MaxEvents
  /\ windows
  /\ type \in {"PRESS", "RELEASE"} => backend = "wayland"
  /\ sent' = sent + 1
  /\ wire' = Append(wire, type)
  /\ UNCHANGED <<backend, windows, pipe, wakes, clock, inbox, where, pipeReady,
                 block, owed, delivered>>

\* nack__xcb_wakeup and nack__wl_wakeup: a non-blocking write of one byte,
\* whose failure on a full pipe is ignored.  nack__win32_wakeup posts a thread
\* message; nack__cocoa_wakeup puts an event at the front.
Wakeup ==
  /\ wakes < MaxWakes
  /\ wakes' = wakes + 1
  /\ owed' = TRUE
  /\ IF Piped THEN /\ pipe' = IF pipe < PipeSize THEN pipe + 1 ELSE pipe
                   /\ UNCHANGED wire
     ELSE /\ wire' = IF backend = "win32" THEN Append(wire, "WAKEUP")
                     ELSE <<"WAKEUP">> \o wire
          /\ UNCHANGED pipe
  /\ UNCHANGED <<backend, windows, sent, clock, inbox, where, pipeReady, block,
                 delivered>>

Expire ==
  /\ call = "timed" /\ ~expired
  /\ expired' = TRUE
  /\ UNCHANGED <<backend, windows, outside, repeat, inbox, where, pipeReady, block,
                 owed, delivered>>

RepeatFallsDue ==
  /\ repeat = "armed"
  /\ repeat' = "due"
  /\ UNCHANGED <<backend, windows, outside, expired, inbox, where, pipeReady, block,
                 owed, delivered>>

-----------------------------------------------------------------------------
(* The application between calls *)

Enter(c) ==
  /\ pc = "app"
  /\ call' = c
  /\ pc' = "pop"
  /\ expired' = FALSE
  /\ before' = sent
  /\ UNCHANGED <<backend, windows, outside, repeat, inbox, result, pipeReady, block,
                 owed, delivered>>

\* Swapping buffers: the EGL driver reads the Wayland connection for its own
\* events and leaves the others pending.
Present ==
  /\ pc = "app" /\ backend = "wayland" /\ wire # << >>
  /\ pending' = pending \o wire
  /\ wire' = << >>
  /\ UNCHANGED <<backend, windows, pipe, wakes, sent, clock, queue, stamp, where,
                 pipeReady, block, owed, delivered>>

\* nack_window_destroy of the last window: its events leave the queue, what
\* the server still says about it is dropped at dispatch, its key repeat stops,
\* and a WAKEUP, which names no window, stays.
DestroyWindows ==
  /\ pc = "app" /\ windows
  /\ windows' = FALSE
  /\ queue' = {e \in queue : e.type = "WAKEUP"}
  /\ repeat' = "idle"
  /\ UNCHANGED <<backend, outside, expired, stamp, pending, where, pipeReady, block,
                 owed, delivered>>

-----------------------------------------------------------------------------
(* Inside a call *)

Push(type) ==
  /\ queue' = queue \cup {[n |-> stamp + 1, type |-> type]}
  /\ stamp' = stamp + 1

Goto(step) == pc' = step /\ UNCHANGED <<call, result, before>>

Return(value) == pc' = "app" /\ call' = "none" /\ result' = value /\ before' = 0

\* Mutant: a hidden event ends the call.
TakeOldestOnce ==
  \E e \in queue :
    /\ \A f \in queue : e.n <= f.n
    /\ queue' = queue \ {e}
    /\ stamp' = IF queue' = {} THEN 0 ELSE stamp
    /\ Return(IF e.type = "HIDDEN" THEN "nothing" ELSE e.type)
    /\ owed' = (owed /\ e.type # "WAKEUP")
    /\ delivered' = IF e.type = "WAKEUP" THEN delivered + 1 ELSE delivered
    /\ UNCHANGED <<backend, windows, outside, clock, pending, pipeReady, block>>

\* nack__pop and then nack__translate: a hidden event sends the call round
\* again, unless it is a timed wait whose deadline has passed.
TakeOldest ==
  \E e \in queue :
    /\ \A f \in queue : e.n <= f.n
    /\ queue' = queue \ {e}
    /\ stamp' = IF queue' = {} THEN 0 ELSE stamp
    /\ IF e.type # "HIDDEN" THEN Return(e.type)
       ELSE IF call = "timed" /\ expired THEN Return("nothing")
       ELSE Goto("pop")
    /\ owed' = (owed /\ e.type # "WAKEUP")
    /\ delivered' = IF e.type = "WAKEUP" THEN delivered + 1 ELSE delivered
    /\ UNCHANGED <<backend, windows, outside, clock, pending, pipeReady, block>>

\* Every call tries the queue before it asks the backend.
PopFirst ==
  /\ pc = "pop"
  /\ \/ queue # {} /\ TakeOldest
     \/ /\ queue = {}
        /\ Goto("pump")
        /\ UNCHANGED <<backend, windows, outside, clock, inbox, pipeReady, block,
                       owed, delivered>>

\* What the dispatch of one message does.
Receive(m) ==
  IF m = "NONE" \/ (~windows /\ m # "WAKEUP") THEN UNCHANGED <<queue, stamp, repeat>>
  ELSE /\ Push(IF m \in {"PRESS", "RELEASE"} THEN "SHOWN" ELSE m)
       /\ repeat' = CASE m = "PRESS" -> "armed"
                      [] m = "RELEASE" -> "idle"
                      [] OTHER -> repeat

\* One message of the drain, at the start of the pump and at its end:
\* nack__xcb_drain, nack__win32_drain, nack__cocoa_drain, or
\* wl_display_dispatch_pending, which does not look at the connection.
Drain ==
  /\ pc \in {"pump", "drain"}
  /\ IF backend = "wayland"
     THEN /\ pending # << >>
          /\ Receive(Head(pending))
          /\ pending' = Tail(pending)
          /\ UNCHANGED wire
     ELSE /\ wire # << >>
          /\ Receive(Head(wire))
          /\ wire' = Tail(wire)
          /\ UNCHANGED pending
  /\ UNCHANGED <<backend, windows, pipe, wakes, sent, expired, where, pipeReady,
                 block, owed, delivered>>

\* nack__wl_pump_key_repeat; the events it catches up with are taken for one.
PumpKeyRepeat ==
  IF repeat = "due" THEN Push("SHOWN") /\ repeat' = "armed"
  ELSE UNCHANGED <<queue, stamp, repeat>>

\* "if (!nack__queue_empty() || timeout == 0.0) return": a poll never sleeps,
\* and neither does a timed wait with nothing remaining.
MayNotSleep(events) == events # {} \/ call = "poll" \/ (call = "timed" /\ expired)

\* The first drain is over.
Drained ==
  /\ pc = "pump"
  /\ IF backend = "wayland"
     THEN /\ pending = << >>
          /\ PumpKeyRepeat
          /\ Goto(IF MayNotSleep(queue') THEN "pumped" ELSE "arm")
     ELSE /\ wire = << >>
          /\ Goto(IF MayNotSleep(queue) THEN "pumped" ELSE "sleep")
          /\ UNCHANGED <<queue, stamp, repeat>>
  /\ UNCHANGED <<backend, windows, outside, expired, pending, pipeReady, block, owed,
                 delivered>>

\* nack__wl_next_repeat_timeout cuts the timeout down to the next repeat,
\* whichever of the two comes first, and to 0.0 when the repeat is due
\* already; poll(2) is given a timeout only if it is above 0.0.
Arm ==
  /\ pc = "arm"
  /\ CASE repeat = "idle"  -> block' = IF call = "timed" THEN "deadline" ELSE "forever"
       [] repeat = "armed" -> \/ block' = "repeat"
                              \/ call = "timed" /\ block' = "deadline"
       [] repeat = "due"   -> block' = "forever"
  /\ Goto("sleep")
  /\ UNCHANGED <<backend, windows, outside, clock, inbox, pipeReady, owed, delivered>>

\* The timeout of the sleep has passed.
TimedOut ==
  IF backend = "wayland"
  THEN \/ block = "deadline" /\ expired
       \/ block = "repeat" /\ repeat = "due"
  ELSE call = "timed" /\ expired

Readable == wire # << >> \/ pipe > 0

\* poll(2), MsgWaitForMultipleObjects or nextEventMatchingMask returns.  The
\* X11 pump sees to the pipe before it drains, the Wayland pump after it has
\* read and dispatched the connection.
Woken ==
  /\ pc = "sleep"
  /\ Readable \/ TimedOut
  /\ pipeReady' = (pipe > 0)
  /\ IF backend = "wayland"
     THEN /\ pending' = wire /\ wire' = << >>
          /\ Goto(IF Readable THEN "drain" ELSE "repeat")
     ELSE /\ Goto(IF pipe > 0 THEN "read" ELSE "drain")
          /\ UNCHANGED <<wire, pending>>
  /\ UNCHANGED <<backend, windows, pipe, wakes, sent, clock, queue, stamp, block, owed,
                 delivered>>

\* EINTR, and a timeout cut down to whole milliseconds: the sleep ends with
\* nothing ready and the deadline not reached.
Interrupted ==
  /\ pc = "sleep"
  /\ backend # "cocoa"
  /\ ~Readable /\ ~TimedOut
  /\ pipeReady' = FALSE
  /\ Goto(IF backend = "wayland" THEN "pumped" ELSE "drain")
  /\ UNCHANGED <<backend, windows, outside, clock, inbox, block, owed, delivered>>

\* Mutant: the pipe is emptied and the pump goes on as if nothing was in it.
ReadPipeQuietly ==
  /\ pc = "read"
  /\ pipe' = 0
  /\ Goto("repeat")
  /\ UNCHANGED <<backend, windows, wire, wakes, sent, clock, inbox, pipeReady, block,
                 owed, delivered>>

\* The pipe is read until it is empty, ...
ReadPipe ==
  /\ pc = "read"
  /\ pipe' = 0
  /\ Goto("emit")
  /\ UNCHANGED <<backend, windows, wire, wakes, sent, clock, inbox, pipeReady, block,
                 owed, delivered>>

\* Mutant: the pipe is read and nothing is pushed.
EmitNothing ==
  /\ pc = "emit"
  /\ Goto(IF backend = "wayland" THEN "repeat" ELSE "drain")
  /\ UNCHANGED <<backend, windows, outside, clock, inbox, pipeReady, block, owed,
                 delivered>>

\* ... and all of it becomes one event.
EmitWakeup ==
  /\ pc = "emit"
  /\ Push("WAKEUP")
  /\ Goto(IF backend = "wayland" THEN "repeat" ELSE "drain")
  /\ UNCHANGED <<backend, windows, outside, clock, pending, pipeReady, block, owed,
                 delivered>>

\* The last drain is over.
DrainedLast ==
  /\ pc = "drain"
  /\ IF backend = "wayland" THEN pending = << >> ELSE wire = << >>
  /\ Goto(IF backend # "wayland" THEN "pumped" ELSE IF pipeReady THEN "read" ELSE "repeat")
  /\ UNCHANGED <<backend, windows, outside, clock, inbox, pipeReady, block, owed,
                 delivered>>

\* The Wayland pump ends with the key repeat.
RepeatLast ==
  /\ pc = "repeat"
  /\ PumpKeyRepeat
  /\ Goto("pumped")
  /\ UNCHANGED <<backend, windows, outside, expired, pending, pipeReady, block, owed,
                 delivered>>

\* Mutant: the deadline is not looked at.
PumpedAgain ==
  /\ pc = "pumped"
  /\ \/ queue # {} /\ TakeOldest
     \/ /\ queue = {}
        /\ CASE call = "poll"  -> Return("nothing")
             [] call = "wait"  -> IF windows THEN Goto("pump") ELSE Return("nothing")
             [] call = "timed" -> Goto("pump")
        /\ UNCHANGED <<backend, windows, outside, clock, inbox, pipeReady, block,
                       owed, delivered>>

\* Back in nack__win_poll_event or nack__win_wait_event_timeout.
Pumped ==
  /\ pc = "pumped"
  /\ \/ queue # {} /\ TakeOldest
     \/ /\ queue = {}
        /\ CASE call = "poll"  -> Return("nothing")
             [] call = "wait"  -> IF windows THEN Goto("pump") ELSE Return("nothing")
             [] call = "timed" -> IF expired THEN Return("nothing") ELSE Goto("pump")
        /\ UNCHANGED <<backend, windows, outside, clock, inbox, pipeReady, block,
                       owed, delivered>>

InCall ==
  \/ PopFirst \/ Drain \/ Drained \/ Arm \/ Woken \/ ReadPipe \/ EmitWakeup
  \/ DrainedLast \/ RepeatLast \/ Pumped

Next ==
  \/ InCall
  \/ Interrupted
  \/ \E c \in Calls : Enter(c)
  \/ Present
  \/ DestroyWindows
  \/ \E type \in Message \ {"WAKEUP"} : ServerSends(type)
  \/ Wakeup
  \/ Expire
  \/ RepeatFallsDue

\* The application thread is scheduled, keeps asking for events, and time
\* passes.  The server and the other threads owe nothing.
Fairness ==
  /\ WF_vars(InCall)
  /\ WF_vars(\E c \in Calls : Enter(c))
  /\ WF_vars(Expire)
  /\ WF_vars(RepeatFallsDue)

Spec == Init /\ [][Next]_vars /\ Fairness

-----------------------------------------------------------------------------
(* Properties *)

QueuedWakes == {e \in queue : e.type = "WAKEUP"}
PostedWakes == {i \in 1..Len(wire) : wire[i] = "WAKEUP"}

\* A wake() the application has not seen the event of is still somewhere: in
\* the pipe, among the messages, in the hands of the pump or in the queue,
\* whatever thread wrote it at whatever moment and even when the pipe was
\* full or the last window went away meanwhile (nack_xcb.cpp:890, :900;
\* nack_wayland.cpp:803, :880; nack_win32.cpp:1012).
WakeNotLost ==
  owed => pipe > 0 \/ PostedWakes # {} \/ pc \in {"read", "emit"} \/ QueuedWakes # {}

\* Wakes may be coalesced, never invented: each WAKEUP delivered or on its
\* way has a wake() of its own (nack_xcb.cpp:892, nack_wayland.cpp:882).
NoInventedWake ==
  delivered + Cardinality(QueuedWakes) + Cardinality(PostedWakes)
    + (IF pc = "emit" THEN 1 ELSE 0) + (IF pipe > 0 THEN 1 ELSE 0) <= wakes

\* Both ways the count of wakes is kept from the pipe to the application.
WakesAreKept == WakeNotLost /\ NoInventedWake

\* When a call comes back with nothing, a wait found no window left, a timed
\* wait reached its deadline, and a poll left no event that the server had
\* sent before the call either queued or unread; on Wayland, where a poll
\* never reads the connection, none that had been read (nack.cpp:875, :896,
\* :909; nack_api.cpp:503; nack_wayland.cpp:822).
NothingIsHonest ==
  [][call # "none" /\ call' = "none" /\ result' = "nothing" =>
       CASE call = "poll"  -> /\ queue' = {}
                              /\ IF backend = "wayland" THEN pending = << >>
                                 ELSE sent + Cardinality(PostedWakes) - Len(wire) >= before
         [] call = "wait"  -> queue' = {} /\ ~windows
         [] call = "timed" -> expired]_vars

\* "Safe from any thread: breaks a wait" (nack.hpp:547): no interleaving of a
\* wake with the pump leaves a wait asleep on it, on any backend.
WakeBreaksWait == call = "wait" /\ owed ~> call = "none"

\* A pump that sleeps without a timeout although its caller has a deadline: a
\* repeat fell due between the two looks the Wayland pump takes at the clock.
Overslept == pc = "sleep" /\ backend = "wayland" /\ call = "timed" /\ block = "forever"

\* A timed wait returns, hidden events and interrupted sleeps included
\* (nack.cpp:900-911), unless it is in that sleep.
TimedWaitReturns == call = "timed" ~> call = "none" \/ Overslept

\* "... and delivers a wakeup_event" (nack.hpp:547), to an application that
\* waits again and again, once no key is held down any more.
WaiterIsTold == []<>(call = "wait") /\ <>[](repeat = "idle") => (owed ~> ~owed)

\* Both halves of what nack.hpp:547 says of wake(), for those who wait.
WaiterIsWoken == WakeBreaksWait /\ WaiterIsTold
=============================================================================
