---------------------------- MODULE EventLoopProofs ----------------------------
(***************************************************************************)
(* The theorems of EventLoop that need no fairness: for any backends, any  *)
(* calls, any size of the pipe and any number of messages and wakes, a     *)
(* wake is neither lost nor invented on its way to the application, and a  *)
(* call that returns nothing had nothing to return.                        *)
(*                                                                         *)
(* LoopInv is the inductive invariant.  That a WAKEUP is never invented    *)
(* rests on facts a reader of the pump takes for granted: a stamp is used  *)
(* once, so that what is pushed is new; a piped backend has no WAKEUP      *)
(* among its messages; and the pipe is only read when it holds something.  *)
(***************************************************************************)
EXTENDS EventLoop, TLAPS, FiniteSetTheorems, SequenceTheorems

-----------------------------------------------------------------------------
(* The inductive invariant *)

\* Only the server's messages reach the pump of a piped backend this way.
ServersOnly ==
  /\ Piped => wire \in Seq(Message \ {"WAKEUP"})
  /\ pending \in Seq(Message \ {"WAKEUP"})

\* No stamp in the queue is newer than the newest.
Stamped == IsFiniteSet(queue) /\ \A e \in queue : e.n <= stamp

\* poll(2) said the pipe was readable, and nobody else reads it.
PipeSeen ==
  /\ pc = "read" => pipe > 0
  /\ pc = "drain" /\ backend = "wayland" /\ pipeReady => pipe > 0

\* A poll drains what had arrived and never sleeps.
CallsInOrder ==
  /\ pc = "app" <=> call = "none"
  /\ call = "poll" => pc \in {"pop", "pump", "pumped"}
  /\ before <= sent

\* What a poll leaves unread came after it began.
Caught ==
  call = "poll" /\ pc = "pumped" =>
    IF backend = "wayland" THEN pending = << >>
    ELSE sent + Cardinality(PostedWakes) - Len(wire) >= before

LoopInv ==
  /\ TypeOK
  /\ ServersOnly
  /\ Stamped
  /\ PipeSeen
  /\ CallsInOrder
  /\ Caught
  /\ WakesAreKept

-----------------------------------------------------------------------------
(* Counting wakes *)

\* Where in s a wakeup message is; PostedWakes is Waking(wire).
Waking(s) == {i \in 1..Len(s) : s[i] = "WAKEUP"}

\* There are finitely many, no more than messages.
LEMMA WakingFinite ==
  ASSUME NEW s \in Seq(Message)
  PROVE  IsFiniteSet(Waking(s)) /\ Cardinality(Waking(s)) \in Nat
<1>1. Len(s) \in Nat
  OBVIOUS
<1>2. IsFiniteSet(1..Len(s))
  BY <1>1, FS_Interval
<1>3. Waking(s) \in SUBSET (1..Len(s))
  BY DEF Waking
<1>4. IsFiniteSet(Waking(s))
  BY <1>2, <1>3, FS_Subset
<1> QED BY <1>4, FS_CardinalityType

\* A message at the back is one more if it is a wakeup.
LEMMA WakingAppend ==
  ASSUME NEW s \in Seq(Message), NEW m \in Message
  PROVE  Cardinality(Waking(Append(s, m)))
           = Cardinality(Waking(s)) + (IF m = "WAKEUP" THEN 1 ELSE 0)
<1>1. Len(s) \in Nat /\ Len(Append(s, m)) = Len(s) + 1
  OBVIOUS
<1>2. \A i \in 1..Len(s) + 1 : Append(s, m)[i] = IF i <= Len(s) THEN s[i] ELSE m
  OBVIOUS
<1>3. IsFiniteSet(Waking(s)) /\ Len(s) + 1 \notin Waking(s)
  BY <1>1, WakingFinite DEF Waking
<1>4. CASE m = "WAKEUP"
  <2>1. Waking(Append(s, m)) = Waking(s) \cup {Len(s) + 1}
    BY <1>1, <1>2, <1>4 DEF Waking
  <2> QED BY <1>3, <1>4, <2>1, FS_AddElement
<1>5. CASE m # "WAKEUP"
  <2>1. Waking(Append(s, m)) = Waking(s)
    BY <1>1, <1>2, <1>5 DEF Waking
  <2>2. Cardinality(Waking(s)) \in Nat
    BY WakingFinite
  <2> QED BY <1>5, <2>1, <2>2
<1> QED BY <1>4, <1>5

\* The wakeups of a tail, one place further down.
LEMMA WakingTail ==
  ASSUME NEW s \in Seq(Message), s # << >>
  PROVE  Cardinality(Waking(s))
           = Cardinality(Waking(Tail(s))) + (IF Head(s) = "WAKEUP" THEN 1 ELSE 0)
<1> DEFINE T == Waking(Tail(s))
           U == Waking(s) \ {1}
           f == [i \in T |-> i + 1]
<1>1. /\ Len(s) \in Nat \ {0} /\ Tail(s) \in Seq(Message)
      /\ Len(Tail(s)) = Len(s) - 1
      /\ \A i \in 1..Len(s) - 1 : Tail(s)[i] = s[i + 1]
      /\ Head(s) = s[1]
  OBVIOUS
<1>2. IsFiniteSet(T)
  BY <1>1, WakingFinite
<1>3. Cardinality(U) = Cardinality(T)
  <2>1. \A i \in T : i \in 1..Len(s) - 1 /\ i + 1 \in U
    BY <1>1 DEF Waking
  <2>2. \A j \in U : j \in 2..Len(s) /\ j - 1 \in T
    <3> SUFFICES ASSUME NEW j \in U PROVE j \in 2..Len(s) /\ j - 1 \in T
      OBVIOUS
    <3>1. j \in 2..Len(s) /\ s[j] = "WAKEUP"
      BY <1>1 DEF Waking
    <3>2. j - 1 \in 1..Len(s) - 1 /\ (j - 1) + 1 = j
      BY <1>1, <3>1
    <3>3. Tail(s)[j - 1] = s[(j - 1) + 1]
      BY <1>1, <3>2
    <3> QED BY <1>1, <3>1, <3>2, <3>3 DEF Waking
  <2>3. f \in [T -> U]
    BY <2>1
  <2>4. \A a, b \in T : f[a] = f[b] => a = b
    BY <2>1
  <2>5. \A j \in U : j - 1 \in T /\ f[j - 1] = j
    BY <2>2
  <2> HIDE DEF f, T, U
  <2>6. f \in Injection(T, U)
    BY <2>3, <2>4 DEF Injection, IsInjective
  <2>7. f \in Surjection(T, U)
    BY <2>3, <2>5 DEF Surjection
  <2>8. ExistsBijection(T, U)
    BY <2>6, <2>7 DEF ExistsBijection, Bijection
  <2> QED BY <1>2, <2>8, FS_Bijection
<1>4. IsFiniteSet(Waking(s))
  BY WakingFinite
<1>5. 1 \in Waking(s) <=> Head(s) = "WAKEUP"
  BY <1>1 DEF Waking
<1>6. Cardinality(U) = IF 1 \in Waking(s) THEN Cardinality(Waking(s)) - 1
                       ELSE Cardinality(Waking(s))
  BY <1>4, FS_RemoveElement
<1>7. Cardinality(Waking(s)) \in Nat
  BY WakingFinite
<1> HIDE DEF T, U
<1> QED BY <1>3, <1>5, <1>6, <1>7 DEF T

\* A wakeup put at the front is one more.
LEMMA WakingPrepend ==
  ASSUME NEW s \in Seq(Message)
  PROVE  Cardinality(Waking(<<"WAKEUP">> \o s)) = Cardinality(Waking(s)) + 1
<1> DEFINE t == <<"WAKEUP">> \o s
<1>1. t \in Seq(Message) /\ t # << >> /\ Head(t) = "WAKEUP" /\ Tail(t) = s
  <2>1. "WAKEUP" \in Message
    BY DEF Message
  <2> QED BY <2>1
<1> QED BY <1>1, WakingTail

\* No wakeup among what the server sent.
LEMMA WakingNone ==
  ASSUME NEW s \in Seq(Message \ {"WAKEUP"})
  PROVE  Waking(s) = {}
BY DEF Waking

-----------------------------------------------------------------------------
(* The steps *)

USE LoopAssumption DEF AllBackends, AllCalls

\* The initial states satisfy the invariant.
LEMMA LoopInit == Init => LoopInv
<1> SUFFICES ASSUME Init PROVE LoopInv
  OBVIOUS
<1> USE DEF Init
<1>1. TypeOK
  <2>1. pipe \in 0..PipeSize /\ wire \in Seq(Message) /\ pending \in Seq(Message)
    OBVIOUS
  <2>2. expired \in BOOLEAN /\ windows \in BOOLEAN /\ pipeReady \in BOOLEAN
          /\ owed \in BOOLEAN
    OBVIOUS
  <2> QED BY <2>1, <2>2 DEF TypeOK, Step
<1>2. ServersOnly /\ Stamped /\ PipeSeen /\ CallsInOrder /\ Caught
  BY FS_EmptySet DEF ServersOnly, Stamped, PipeSeen, CallsInOrder, Caught
<1>3. PostedWakes = {} /\ QueuedWakes = {}
  BY DEF PostedWakes, QueuedWakes
<1>4. WakesAreKept
  BY <1>3, FS_EmptySet DEF WakesAreKept, WakeNotLost, NoInventedWake
<1> QED BY <1>1, <1>2, <1>4 DEF LoopInv

\* Taking the oldest event and what a dispatched message does keep the types.
LEMMA TakeTyped ==
  ASSUME TypeOK, TakeOldest
  PROVE  TypeOK'
BY DEF TypeOK, TakeOldest, Return, Goto, outside, clock, Step, EventType

LEMMA ReceiveTyped ==
  ASSUME TypeOK, NEW m \in Message, Receive(m)
  PROVE  (queue \subseteq [n : Nat, type : EventType] /\ stamp \in Nat
            /\ repeat \in {"idle", "armed", "due"})'
<1>1. CASE m = "NONE" \/ (~windows /\ m # "WAKEUP")
  BY <1>1 DEF TypeOK, Receive
<1>2. CASE ~(m = "NONE" \/ (~windows /\ m # "WAKEUP"))
  <2>1. Push(IF m \in {"PRESS", "RELEASE"} THEN "SHOWN" ELSE m)
    BY <1>2 DEF Receive
  <2>2. (IF m \in {"PRESS", "RELEASE"} THEN "SHOWN" ELSE m) \in EventType
    BY <1>2 DEF Message, EventType
  <2>3. repeat' \in {repeat, "armed", "idle"}
    BY <1>2 DEF Receive
  <2> QED BY <2>1, <2>2, <2>3 DEF TypeOK, Push
<1> QED BY <1>1, <1>2

\* Type correctness, once every call is known by its step.
LEMMA LoopTypeStep ==
  ASSUME TypeOK, CallsInOrder, [Next]_vars
  PROVE  TypeOK'
<1> USE DEF outside, clock, inbox, where, Step, Goto, Return
<1>1. CASE PopFirst
  BY <1>1, TakeTyped DEF PopFirst, TypeOK
<1>2. CASE Drain
  <2>1. CASE backend = "wayland"
    <3>1. Head(pending) \in Message /\ Tail(pending) \in Seq(Message)
      BY <1>2, <2>1 DEF Drain, TypeOK
    <3>2. Receive(Head(pending))
      BY <1>2, <2>1 DEF Drain
    <3> QED BY <1>2, <2>1, <3>1, <3>2, ReceiveTyped DEF Drain, TypeOK
  <2>2. CASE backend # "wayland"
    <3>1. Head(wire) \in Message /\ Tail(wire) \in Seq(Message)
      BY <1>2, <2>2 DEF Drain, TypeOK
    <3>2. Receive(Head(wire))
      BY <1>2, <2>2 DEF Drain
    <3> QED BY <1>2, <2>2, <3>1, <3>2, ReceiveTyped DEF Drain, TypeOK
  <2> QED BY <2>1, <2>2
<1>3. CASE Drained
  BY <1>3 DEF Drained, TypeOK, PumpKeyRepeat, Push, EventType
<1>4. CASE Arm
  BY <1>4 DEF Arm, TypeOK
<1>5. CASE Woken
  <2>1. pipeReady' \in BOOLEAN
    BY <1>5 DEF Woken
  <2>2. (wire \in Seq(Message) /\ pending \in Seq(Message))'
    <3>1. << >> \in Seq(Message)
      OBVIOUS
    <3>2. wire' \in {wire, << >>} /\ pending' \in {wire, pending}
      BY <1>5 DEF Woken
    <3> QED BY <3>1, <3>2 DEF TypeOK
  <2> QED BY <1>5, <2>1, <2>2 DEF Woken, TypeOK
<1>6. CASE ReadPipe
  BY <1>6 DEF ReadPipe, TypeOK
<1>7. CASE EmitWakeup
  BY <1>7 DEF EmitWakeup, TypeOK, Push, EventType
<1>8. CASE DrainedLast
  BY <1>8 DEF DrainedLast, TypeOK
<1>9. CASE RepeatLast
  BY <1>9 DEF RepeatLast, TypeOK, PumpKeyRepeat, Push, EventType
<1>10. CASE Pumped
  <2>1. CASE queue # {} /\ TakeOldest
    BY <2>1, TakeTyped
  <2>2. CASE ~(queue # {} /\ TakeOldest)
    <3>0. call \in {"poll", "wait", "timed"}
      BY <1>10 DEF Pumped, TypeOK, CallsInOrder
    <3>1. pc' \in Step /\ call' \in Calls \cup {"none"} /\ before' \in Nat
            /\ result' \in {"SHOWN", "WAKEUP", "nothing"}
      <4>1. CASE call = "poll"
        BY <1>10, <2>2, <4>1 DEF Pumped, TypeOK
      <4>2. CASE call = "wait"
        BY <1>10, <2>2, <4>2 DEF Pumped, TypeOK
      <4>3. CASE call = "timed"
        BY <1>10, <2>2, <4>3 DEF Pumped, TypeOK
      <4> QED BY <1>10, <2>2, <4>1, <4>2, <4>3, <3>0
    <3> QED BY <1>10, <2>2, <3>1 DEF Pumped, TypeOK
  <2> QED BY <2>1, <2>2
<1>11. CASE Interrupted
  BY <1>11 DEF Interrupted, TypeOK
<1>12. CASE \E c \in Calls : Enter(c)
  BY <1>12 DEF Enter, TypeOK
<1>13. CASE Present
  BY <1>13 DEF Present, TypeOK
<1>14. CASE DestroyWindows
  BY <1>14 DEF DestroyWindows, TypeOK
<1>15. CASE \E type \in Message \ {"WAKEUP"} : ServerSends(type)
  BY <1>15 DEF ServerSends, TypeOK
<1>16. CASE Wakeup
  <2>1. pipe' \in 0..PipeSize
    BY <1>16 DEF Wakeup, TypeOK
  <2>2. wire' \in Seq(Message)
    <3>1. "WAKEUP" \in Message
      BY DEF Message
    <3>2. Append(wire, "WAKEUP") \in Seq(Message)
      BY <3>1 DEF TypeOK
    <3>3. <<"WAKEUP">> \o wire \in Seq(Message)
      BY <3>1 DEF TypeOK
    <3>4. wire' \in {wire, Append(wire, "WAKEUP"), <<"WAKEUP">> \o wire}
      BY <1>16 DEF Wakeup
    <3> QED BY <3>2, <3>3, <3>4 DEF TypeOK
  <2> QED BY <1>16, <2>1, <2>2 DEF Wakeup, TypeOK
<1>17. CASE Expire
  BY <1>17 DEF Expire, TypeOK
<1>18. CASE RepeatFallsDue
  BY <1>18 DEF RepeatFallsDue, TypeOK
<1>19. CASE UNCHANGED vars
  BY <1>19 DEF vars, TypeOK
<1> QED
  BY <1>1, <1>2, <1>3, <1>4, <1>5, <1>6, <1>7, <1>8, <1>9, <1>10, <1>11, <1>12,
     <1>13, <1>14, <1>15, <1>16, <1>17, <1>18, <1>19 DEF Next, InCall

\* Wakeups reach the messages only where they are messages.
LEMMA ServersOnlyStep ==
  ASSUME TypeOK, ServersOnly, [Next]_vars
  PROVE  ServersOnly'
<1> USE DEF outside, clock, inbox, where, ServersOnly, Piped
<1>1. CASE Drain
  <2>1. CASE backend = "wayland"
    <3>1. Tail(pending) \in Seq(Message \ {"WAKEUP"})
      BY <1>1, <2>1 DEF Drain
    <3> QED BY <1>1, <2>1, <3>1 DEF Drain
  <2>2. CASE backend # "wayland"
    <3>1. Piped => Tail(wire) \in Seq(Message \ {"WAKEUP"})
      BY <1>1, <2>2 DEF Drain
    <3> QED BY <1>1, <2>2, <3>1 DEF Drain
  <2> QED BY <2>1, <2>2
<1>2. CASE Woken
  <2>1. << >> \in Seq(Message \ {"WAKEUP"})
    OBVIOUS
  <2> QED BY <1>2, <2>1 DEF Woken
<1>3. CASE Present
  <2>1. << >> \in Seq(Message \ {"WAKEUP"})
    OBVIOUS
  <2> QED BY <1>3, <2>1 DEF Present
<1>4. CASE \E type \in Message \ {"WAKEUP"} : ServerSends(type)
  BY <1>4 DEF ServerSends
<1>5. CASE Wakeup
  BY <1>5 DEF Wakeup
<1>6. CASE UNCHANGED <<backend, wire, pending>>
  BY <1>6
<1> QED
  BY <1>1, <1>2, <1>3, <1>4, <1>5, <1>6
  DEF Next, InCall, PopFirst, TakeOldest, Drained, Arm, ReadPipe, EmitWakeup,
      DrainedLast, RepeatLast, Pumped, Interrupted, Enter, DestroyWindows, Expire,
      RepeatFallsDue, vars

\* What one step may do to the queue: nothing, a push, or a removal.
LEMMA QueueStep ==
  ASSUME [Next]_vars
  PROVE  \/ UNCHANGED <<queue, stamp>>
         \/ \E type : Push(type)
         \/ TakeOldest
         \/ queue' = {e \in queue : e.type = "WAKEUP"} /\ UNCHANGED stamp
<1> USE DEF outside, clock, inbox, where
<1>1. CASE Drain
  BY <1>1 DEF Drain, Receive
<1>2. CASE Drained
  BY <1>2 DEF Drained, PumpKeyRepeat
<1>3. CASE RepeatLast
  BY <1>3 DEF RepeatLast, PumpKeyRepeat
<1>4. CASE EmitWakeup
  BY <1>4 DEF EmitWakeup
<1>5. CASE PopFirst
  BY <1>5 DEF PopFirst
<1>6. CASE Pumped
  BY <1>6 DEF Pumped
<1>7. CASE DestroyWindows
  BY <1>7 DEF DestroyWindows
<1>8. CASE UNCHANGED <<queue, stamp>>
  BY <1>8
<1> QED
  BY <1>1, <1>2, <1>3, <1>4, <1>5, <1>6, <1>7, <1>8
  DEF Next, InCall, Arm, Woken, ReadPipe, DrainedLast, Interrupted, Enter, Present,
      ServerSends, Wakeup, Expire, RepeatFallsDue, vars

\* A stamp is used once.
LEMMA StampedStep ==
  ASSUME TypeOK, Stamped, [Next]_vars
  PROVE  Stamped'
<1>1. CASE UNCHANGED <<queue, stamp>>
  BY <1>1 DEF Stamped
<1>2. CASE \E type : Push(type)
  <2> PICK type : Push(type)
    BY <1>2
  <2>1. IsFiniteSet(queue')
    BY FS_AddElement DEF Push, Stamped
  <2>2. \A e \in queue' : e.n <= stamp'
    BY DEF Push, Stamped, TypeOK
  <2> QED BY <2>1, <2>2 DEF Stamped
<1>3. CASE TakeOldest
  <2> PICK e \in queue : queue' = queue \ {e}
                           /\ stamp' = IF queue' = {} THEN 0 ELSE stamp
    BY <1>3 DEF TakeOldest
  <2>1. IsFiniteSet(queue')
    BY FS_RemoveElement DEF Stamped
  <2>2. \A f \in queue' : f.n <= stamp'
    BY DEF Stamped
  <2> QED BY <2>1, <2>2 DEF Stamped
<1>4. CASE queue' = {e \in queue : e.type = "WAKEUP"} /\ UNCHANGED stamp
  <2>1. queue' \in SUBSET queue
    BY <1>4
  <2>2. IsFiniteSet(queue')
    BY <2>1, FS_Subset DEF Stamped
  <2> QED BY <1>4, <2>1, <2>2 DEF Stamped
<1> QED BY <1>1, <1>2, <1>3, <1>4, QueueStep

\* What happens after the pump, spelled out for the three calls.
LEMMA PumpedCases ==
  ASSUME TypeOK, CallsInOrder, Pumped
  PROVE  \/ TakeOldest
         \/ /\ queue = {}
            /\ UNCHANGED <<backend, windows, outside, clock, inbox, pipeReady, block,
                           owed, delivered>>
            /\ \/ call = "poll" /\ Return("nothing")
               \/ call = "wait" /\ ~windows /\ Return("nothing")
               \/ call = "timed" /\ expired /\ Return("nothing")
               \/ call \in {"wait", "timed"} /\ Goto("pump")
<1>1. call \in {"poll", "wait", "timed"}
  BY DEF Pumped, TypeOK, CallsInOrder
<1>2. CASE queue # {} /\ TakeOldest
  BY <1>2
<1>3. CASE ~(queue # {} /\ TakeOldest)
  <2>1. CASE call = "poll"
    BY <1>3, <2>1 DEF Pumped
  <2>2. CASE call = "wait"
    BY <1>3, <2>2 DEF Pumped
  <2>3. CASE call = "timed"
    BY <1>3, <2>3 DEF Pumped
  <2> QED BY <1>1, <2>1, <2>2, <2>3
<1> QED BY <1>2, <1>3

\* Nobody but the pump takes from the pipe.
LEMMA PipeSeenStep ==
  ASSUME TypeOK, CallsInOrder, PipeSeen, [Next]_vars
  PROVE  PipeSeen'
<1> USE DEF outside, clock, inbox, where, PipeSeen, Goto, Return
<1>1. CASE PopFirst
  BY <1>1 DEF PopFirst, TakeOldest
<1>2. CASE Woken
  BY <1>2 DEF Woken
<1>3. CASE ReadPipe
  BY <1>3 DEF ReadPipe
<1>4. CASE EmitWakeup
  BY <1>4 DEF EmitWakeup
<1>5. CASE DrainedLast
  BY <1>5 DEF DrainedLast
<1>6. CASE Pumped
  BY <1>6, PumpedCases DEF TakeOldest
<1>7. CASE Interrupted
  BY <1>7 DEF Interrupted
<1>8. CASE Wakeup
  BY <1>8 DEF Wakeup, TypeOK
<1>9. CASE Drained \/ Arm \/ RepeatLast
  <2>1. pc' \in {"pumped", "arm", "sleep"}
    BY <1>9 DEF Drained, Arm, RepeatLast
  <2> QED BY <2>1
<1>10. CASE UNCHANGED <<backend, pc, pipe, pipeReady>>
  BY <1>10
<1>11. CASE \E c \in Calls : Enter(c)
  BY <1>11 DEF Enter
<1> QED
  BY <1>1, <1>2, <1>3, <1>4, <1>5, <1>6, <1>7, <1>8, <1>9, <1>10, <1>11
  DEF Next, InCall, Drain, Present, DestroyWindows, ServerSends, Expire,
      RepeatFallsDue, vars

\* What the calls do, one after the other.
LEMMA CallsInOrderStep ==
  ASSUME TypeOK, CallsInOrder, [Next]_vars
  PROVE  CallsInOrder'
<1> USE DEF outside, clock, inbox, where, CallsInOrder, Goto, Return
<1>1. CASE PopFirst
  BY <1>1 DEF PopFirst, TakeOldest, TypeOK
<1>2. CASE Drained
  <2>1. call = "poll" => pc' = "pumped"
    BY <1>2 DEF Drained, MayNotSleep
  <2>2. pc' \in {"pumped", "arm", "sleep"}
    BY <1>2 DEF Drained
  <2> QED BY <1>2, <2>1, <2>2 DEF Drained
<1>3. CASE Arm \/ Woken \/ ReadPipe \/ EmitWakeup \/ DrainedLast \/ RepeatLast
             \/ Interrupted
  <2>1. pc \notin {"app", "pop", "pump", "pumped"}
    BY <1>3 DEF Arm, Woken, ReadPipe, EmitWakeup, DrainedLast, RepeatLast, Interrupted
  <2>2. pc' # "app" /\ UNCHANGED <<call, before, sent>>
    BY <1>3 DEF Arm, Woken, ReadPipe, EmitWakeup, DrainedLast, RepeatLast, Interrupted
  <2> QED BY <2>1, <2>2
<1>4. CASE Pumped
  <2>1. pc = "pumped" /\ call # "none"
    BY <1>4 DEF Pumped
  <2>2. CASE TakeOldest
    BY <2>1, <2>2 DEF TakeOldest, TypeOK
  <2>3. CASE ~TakeOldest
    BY <1>4, <2>1, <2>3, PumpedCases DEF TypeOK
  <2> QED BY <2>2, <2>3
<1>5. CASE \E c \in Calls : Enter(c)
  BY <1>5 DEF Enter, TypeOK
<1>6. CASE \E type \in Message \ {"WAKEUP"} : ServerSends(type)
  BY <1>6 DEF ServerSends, TypeOK
<1>7. CASE UNCHANGED <<pc, call, before, sent>>
  BY <1>7
<1> QED
  BY <1>1, <1>2, <1>3, <1>4, <1>5, <1>6, <1>7
  DEF Next, InCall, Drain, Present, DestroyWindows, Wakeup, Expire, RepeatFallsDue,
      vars

\* How the messages' count of wakes changes.
LEMMA PostedBySend ==
  ASSUME TypeOK, NEW m \in Message \ {"WAKEUP"}, ServerSends(m)
  PROVE  /\ Len(wire') = Len(wire) + 1
         /\ Cardinality(PostedWakes') = Cardinality(PostedWakes)
<1>1. PostedWakes = Waking(wire) /\ PostedWakes' = Waking(wire')
  BY DEF PostedWakes, Waking
<1>2. wire \in Seq(Message) /\ wire' = Append(wire, m)
  BY DEF TypeOK, ServerSends
<1>3. Cardinality(Waking(wire')) = Cardinality(Waking(wire)) + 0
  BY <1>2, WakingAppend
<1>4. Cardinality(Waking(wire)) \in Nat
  BY <1>2, WakingFinite
<1> QED BY <1>1, <1>2, <1>3, <1>4

LEMMA PostedByWakeup ==
  ASSUME TypeOK, Wakeup, ~Piped
  PROVE  /\ Len(wire') = Len(wire) + 1
         /\ Cardinality(PostedWakes') = Cardinality(PostedWakes) + 1
<1>1. PostedWakes = Waking(wire) /\ PostedWakes' = Waking(wire')
  BY DEF PostedWakes, Waking
<1>2. wire \in Seq(Message) /\ "WAKEUP" \in Message
  BY DEF TypeOK, Message
<1>3. CASE wire' = Append(wire, "WAKEUP")
  BY <1>1, <1>2, <1>3, WakingAppend
<1>4. CASE wire' = <<"WAKEUP">> \o wire
  <2>1. Len(wire') = Len(wire) + 1
    BY <1>2, <1>4
  <2> QED BY <1>1, <1>2, <1>4, <2>1, WakingPrepend
<1> QED BY <1>3, <1>4 DEF Wakeup

LEMMA PostedByRead ==
  ASSUME TypeOK, ServersOnly, Woken \/ Present
  PROVE  UNCHANGED PostedWakes \/ (PostedWakes = {} /\ PostedWakes' = {})
<1>1. PostedWakes = Waking(wire) /\ PostedWakes' = Waking(wire')
  BY DEF PostedWakes, Waking
<1>2. CASE backend = "wayland"
  <2>1. wire \in Seq(Message \ {"WAKEUP"}) /\ wire' = << >>
    BY <1>2 DEF ServersOnly, Piped, Woken, Present
  <2>2. << >> \in Seq(Message \ {"WAKEUP"})
    OBVIOUS
  <2> QED BY <1>1, <2>1, <2>2, WakingNone
<1>3. CASE backend # "wayland"
  BY <1>1, <1>3 DEF Woken, Present
<1> QED BY <1>2, <1>3

\* A poll that has been through the pump has seen what was there before it.
LEMMA CaughtStep ==
  ASSUME TypeOK, ServersOnly, CallsInOrder, Caught, [Next]_vars
  PROVE  Caught'
<1> USE DEF outside, clock, inbox, where, Goto, Return
<1> SUFFICES ASSUME call' = "poll", pc' = "pumped"
             PROVE  IF backend' = "wayland" THEN pending' = << >>
                    ELSE sent' + Cardinality(PostedWakes') - Len(wire') >= before'
  BY DEF Caught
<1>1. CASE Drained
  <2>1. UNCHANGED <<backend, wire, pending, sent, before>>
    BY <1>1 DEF Drained
  <2>2. CASE backend = "wayland"
    BY <1>1, <2>1, <2>2 DEF Drained
  <2>3. CASE backend # "wayland"
    <3>1. wire = << >> /\ wire' = << >>
      BY <1>1, <2>1, <2>3 DEF Drained
    <3>2. PostedWakes' = {}
      BY <3>1 DEF PostedWakes
    <3>3. Cardinality(PostedWakes') = 0 /\ Len(wire') = 0
      BY <3>1, <3>2, FS_EmptySet
    <3> QED BY <2>1, <2>3, <3>3 DEF CallsInOrder, TypeOK
  <2> QED BY <2>2, <2>3
<1>2. CASE UNCHANGED <<pc, call>>
  <2>1. pc = "pumped" /\ call = "poll"
    BY <1>2
  <2>2. UNCHANGED <<backend, before>>
    BY <1>2, <2>1
    DEF Next, InCall, PopFirst, TakeOldest, Drain, Drained, Arm, Woken, ReadPipe,
        EmitWakeup, DrainedLast, RepeatLast, Pumped, Interrupted, Enter, Present,
        DestroyWindows, ServerSends, Wakeup, Expire, RepeatFallsDue, vars
  <2>3. CASE backend = "wayland"
    <3>1. pending' = pending
      BY <1>2, <2>1
      DEF Next, InCall, PopFirst, TakeOldest, Drain, Drained, Arm, Woken, ReadPipe,
          EmitWakeup, DrainedLast, RepeatLast, Pumped, Interrupted, Enter, Present,
          DestroyWindows, ServerSends, Wakeup, Expire, RepeatFallsDue, vars
    <3> QED BY <2>1, <2>2, <2>3, <3>1 DEF Caught
  <2>4. CASE backend # "wayland"
    <3>1. /\ sent \in Nat /\ before \in Nat
          /\ Len(wire) \in Nat /\ Cardinality(PostedWakes) \in Nat
      <4>1. PostedWakes = Waking(wire)
        BY DEF PostedWakes, Waking
      <4> QED BY <4>1, WakingFinite DEF TypeOK
    <3>2. sent + Cardinality(PostedWakes) - Len(wire) >= before
      BY <2>1, <2>4 DEF Caught
    <3>3. CASE \E m \in Message \ {"WAKEUP"} : ServerSends(m)
      <4>1. sent' = sent + 1
        BY <3>3 DEF ServerSends
      <4> QED BY <2>2, <2>4, <3>1, <3>2, <3>3, <4>1, PostedBySend
    <3>4. CASE Wakeup /\ ~Piped
      <4>1. sent' = sent
        BY <3>4 DEF Wakeup
      <4> QED BY <2>2, <2>4, <3>1, <3>2, <3>4, <4>1, PostedByWakeup
    <3>5. CASE UNCHANGED <<wire, sent>>
      <4>1. PostedWakes' = PostedWakes
        BY <3>5 DEF PostedWakes
      <4> QED BY <2>2, <2>4, <3>1, <3>2, <3>5, <4>1
    <3> QED
      BY <2>1, <3>3, <3>4, <3>5
      DEF Next, InCall, PopFirst, TakeOldest, Drain, Drained, Arm, Woken, ReadPipe,
          EmitWakeup, DrainedLast, RepeatLast, Pumped, Interrupted, Enter, Present,
          DestroyWindows, Wakeup, Expire, RepeatFallsDue, vars
  <2> QED BY <2>3, <2>4
<1>3. CASE ~Drained /\ ~UNCHANGED <<pc, call>>
  <2>0. Pumped => pc = "pumped"
    BY DEF Pumped
  <2>1. pc \in {"drain", "repeat", "sleep"} \/ pc = "pumped"
    BY <1>3, <2>0
    DEF Next, InCall, PopFirst, TakeOldest, Drain, Arm, Woken, ReadPipe,
        EmitWakeup, DrainedLast, RepeatLast, Interrupted, Enter, Present,
        DestroyWindows, ServerSends, Wakeup, Expire, RepeatFallsDue, vars
  <2>2. call = "poll" \/ pc = "pumped"
    BY <1>3, <2>1
    DEF Next, InCall, PopFirst, Drain, Arm, Woken, ReadPipe, EmitWakeup, DrainedLast,
        RepeatLast, Pumped, Interrupted, Enter, Present, DestroyWindows, ServerSends,
        Wakeup, Expire, RepeatFallsDue, vars
  <2>3. pc = "pumped"
    BY <2>1, <2>2 DEF CallsInOrder
  <2>4. Pumped
    BY <1>3, <2>3
    DEF Next, InCall, PopFirst, Drain, Arm, Woken, ReadPipe, EmitWakeup, DrainedLast,
        RepeatLast, Interrupted, Enter, Present, DestroyWindows, ServerSends,
        Wakeup, Expire, RepeatFallsDue, vars
  <2> QED BY <2>4, PumpedCases DEF TakeOldest
<1> QED BY <1>1, <1>2, <1>3

\* The queue's wakeups are finitely many.
LEMMA QueuedFinite ==
  ASSUME Stamped
  PROVE  IsFiniteSet(QueuedWakes) /\ Cardinality(QueuedWakes) \in Nat
<1>1. QueuedWakes \in SUBSET queue
  BY DEF QueuedWakes
<1>2. IsFiniteSet(QueuedWakes)
  BY <1>1, FS_Subset DEF Stamped
<1> QED BY <1>2, FS_CardinalityType

\* What is pushed is new.
LEMMA PushWake ==
  ASSUME TypeOK, Stamped, NEW type, Push(type)
  PROVE  /\ QueuedWakes \subseteq QueuedWakes'
         /\ type = "WAKEUP" => QueuedWakes' # {}
         /\ Cardinality(QueuedWakes')
              = IF type = "WAKEUP" THEN Cardinality(QueuedWakes) + 1
                ELSE Cardinality(QueuedWakes)
<1> DEFINE e == [n |-> stamp + 1, type |-> type]
<1>1. queue' = queue \cup {e}
  BY DEF Push
<1>2. e \notin queue
  BY DEF Stamped, TypeOK
<1>3. CASE type = "WAKEUP"
  <2>1. QueuedWakes' = QueuedWakes \cup {e}
    BY <1>1, <1>3 DEF QueuedWakes
  <2>2. e \notin QueuedWakes
    BY <1>2 DEF QueuedWakes
  <2> HIDE DEF e
  <2>3. Cardinality(QueuedWakes') = Cardinality(QueuedWakes) + 1
    BY <2>1, <2>2, QueuedFinite, FS_AddElement
  <2> QED BY <1>3, <2>1, <2>3
<1>4. CASE type # "WAKEUP"
  <2>1. QueuedWakes' = QueuedWakes
    BY <1>1, <1>4 DEF QueuedWakes
  <2> QED BY <1>4, <2>1
<1> QED BY <1>3, <1>4

\* A wakeup leaves the queue for the application.
LEMMA TakeWake ==
  ASSUME TypeOK, Stamped, TakeOldest
  PROVE  /\ owed' => owed /\ QueuedWakes' = QueuedWakes
         /\ delivered' + Cardinality(QueuedWakes')
              = delivered + Cardinality(QueuedWakes)
<1> PICK e \in queue :
           /\ queue' = queue \ {e}
           /\ owed' = (owed /\ e.type # "WAKEUP")
           /\ delivered' = IF e.type = "WAKEUP" THEN delivered + 1 ELSE delivered
  BY DEF TakeOldest
<1>1. delivered \in Nat /\ Cardinality(QueuedWakes) \in Nat
  BY QueuedFinite DEF TypeOK
<1>2. CASE e.type = "WAKEUP"
  <2>1. QueuedWakes' = QueuedWakes \ {e} /\ e \in QueuedWakes
    BY <1>2 DEF QueuedWakes
  <2>2. Cardinality(QueuedWakes') = Cardinality(QueuedWakes) - 1
    BY <2>1, QueuedFinite, FS_RemoveElement
  <2>3. ~owed'
    BY <1>2
  <2>4. delivered' = delivered + 1
    BY <1>2
  <2> QED BY <1>1, <2>2, <2>3, <2>4
<1>3. CASE e.type # "WAKEUP"
  <2>1. QueuedWakes' = QueuedWakes
    BY <1>3 DEF QueuedWakes
  <2> QED BY <1>3, <2>1
<1> QED BY <1>2, <1>3

\* Everything on its way to the application, counted once.
OnTheWay == Cardinality(QueuedWakes) + Cardinality(PostedWakes)
              + (IF pc = "emit" THEN 1 ELSE 0) + (IF pipe > 0 THEN 1 ELSE 0)

\* A step that keeps the account and what is waiting keeps WakesAreKept.
LEMMA WakesKeptStep ==
  ASSUME TypeOK, ServersOnly, Stamped, PipeSeen, CallsInOrder, WakesAreKept,
         [Next]_vars
  PROVE  WakesAreKept'
<1> USE DEF outside, clock, inbox, where, Goto, Return
<1>t. /\ pipe \in Nat /\ wakes \in Nat /\ delivered \in Nat
      /\ Cardinality(QueuedWakes) \in Nat /\ Cardinality(PostedWakes) \in Nat
      /\ Cardinality(PostedWakes') \in Nat
      /\ IsFiniteSet(PostedWakes) /\ IsFiniteSet(PostedWakes')
  <2>1. TypeOK'
    BY LoopTypeStep
  <2>2. wire \in Seq(Message) /\ wire' \in Seq(Message)
    BY <2>1 DEF TypeOK
  <2>3. PostedWakes = Waking(wire) /\ PostedWakes' = Waking(wire')
    BY DEF PostedWakes, Waking
  <2> QED BY <2>2, <2>3, QueuedFinite, WakingFinite DEF TypeOK
<1>u. delivered + OnTheWay <= wakes
  BY <1>t DEF WakesAreKept, NoInventedWake, OnTheWay
<1>v. owed => pipe > 0 \/ PostedWakes # {} \/ pc \in {"read", "emit"}
                \/ QueuedWakes # {}
  BY DEF WakesAreKept, WakeNotLost
<1> SUFFICES
      /\ owed' => pipe' > 0 \/ PostedWakes' # {} \/ pc' \in {"read", "emit"}
                    \/ QueuedWakes' # {}
      /\ delivered' + Cardinality(QueuedWakes') + Cardinality(PostedWakes')
           + (IF pc' = "emit" THEN 1 ELSE 0) + (IF pipe' > 0 THEN 1 ELSE 0) <= wakes'
  BY DEF WakesAreKept, WakeNotLost, NoInventedWake
<1>1. CASE TakeOldest /\ pc \in {"pop", "pumped"}
  <2>1. UNCHANGED <<pipe, PostedWakes, wakes>> /\ pc' \in {"app", "pop"}
    BY <1>1 DEF TakeOldest, PostedWakes
  <2> QED BY <1>1, <1>t, <1>u, <1>v, <2>1, TakeWake DEF OnTheWay
<1>2. CASE Drain
  <2>1. UNCHANGED <<pipe, pc, owed, delivered, wakes>> /\ pc \in {"pump", "drain"}
    BY <1>2 DEF Drain
  <2>2. CASE backend = "wayland"
    <3> DEFINE m == Head(pending)
    <3>1. Receive(m) /\ m # "WAKEUP" /\ PostedWakes' = PostedWakes
      BY <1>2, <2>2 DEF Drain, ServersOnly, PostedWakes
    <3>2. CASE UNCHANGED <<queue, stamp>>
      <4>1. QueuedWakes' = QueuedWakes
        BY <3>2 DEF QueuedWakes
      <4> QED BY <1>t, <1>u, <1>v, <2>1, <3>1, <4>1 DEF OnTheWay
    <3>3. CASE Push(IF m \in {"PRESS", "RELEASE"} THEN "SHOWN" ELSE m)
      <4>1. QueuedWakes \subseteq QueuedWakes'
              /\ Cardinality(QueuedWakes') = Cardinality(QueuedWakes)
        BY <3>1, <3>3, PushWake
      <4> QED BY <1>t, <1>u, <1>v, <2>1, <3>1, <4>1 DEF OnTheWay
    <3> QED BY <3>1, <3>2, <3>3 DEF Receive
  <2>3. CASE backend # "wayland"
    <3> DEFINE m == Head(wire)
    <3>1. Receive(m) /\ wire # << >> /\ wire' = Tail(wire)
      BY <1>2, <2>3 DEF Drain
    <3>2. Cardinality(PostedWakes)
            = Cardinality(PostedWakes') + (IF m = "WAKEUP" THEN 1 ELSE 0)
      <4>1. PostedWakes = Waking(wire) /\ PostedWakes' = Waking(Tail(wire))
        BY <3>1 DEF PostedWakes, Waking
      <4> QED BY <3>1, <4>1, WakingTail DEF TypeOK
    <3>3. m # "WAKEUP" => (PostedWakes # {} => PostedWakes' # {})
      BY <1>t, <3>2, FS_EmptySet
    <3>4. CASE UNCHANGED <<queue, stamp>> /\ m # "WAKEUP"
      <4>1. QueuedWakes' = QueuedWakes
        BY <3>4 DEF QueuedWakes
      <4> QED BY <1>t, <1>u, <1>v, <2>1, <3>2, <3>3, <3>4, <4>1 DEF OnTheWay
    <3>5. CASE Push(IF m \in {"PRESS", "RELEASE"} THEN "SHOWN" ELSE m)
      <4> DEFINE type == IF m \in {"PRESS", "RELEASE"} THEN "SHOWN" ELSE m
      <4>1. type = "WAKEUP" <=> m = "WAKEUP"
        OBVIOUS
      <4>2. /\ QueuedWakes \subseteq QueuedWakes'
            /\ m = "WAKEUP" => QueuedWakes' # {}
            /\ Cardinality(QueuedWakes')
                 = IF m = "WAKEUP" THEN Cardinality(QueuedWakes) + 1
                   ELSE Cardinality(QueuedWakes)
        BY <3>5, <4>1, PushWake
      <4>3. CASE m = "WAKEUP"
        BY <1>t, <1>u, <2>1, <3>2, <4>2, <4>3 DEF OnTheWay
      <4>4. CASE m # "WAKEUP"
        BY <1>t, <1>u, <1>v, <2>1, <3>2, <3>3, <4>2, <4>4 DEF OnTheWay
      <4> QED BY <4>3, <4>4
    <3> QED BY <3>1, <3>4, <3>5 DEF Receive
  <2> QED BY <2>2, <2>3
<1>3. CASE Drained \/ RepeatLast
  <2>1. /\ UNCHANGED <<pipe, PostedWakes, owed, delivered, wakes>>
        /\ pc \in {"pump", "repeat"} /\ pc' \in {"pumped", "arm", "sleep"}
    BY <1>3 DEF Drained, RepeatLast, PostedWakes
  <2>2. UNCHANGED <<queue, stamp>> \/ Push("SHOWN")
    BY <1>3 DEF Drained, RepeatLast, PumpKeyRepeat
  <2>3. QueuedWakes \subseteq QueuedWakes'
          /\ Cardinality(QueuedWakes') = Cardinality(QueuedWakes)
    <3>1. CASE UNCHANGED <<queue, stamp>>
      BY <3>1 DEF QueuedWakes
    <3>2. CASE Push("SHOWN")
      BY <3>2, PushWake
    <3> QED BY <2>2, <3>1, <3>2
  <2> QED BY <1>t, <1>u, <1>v, <2>1, <2>3 DEF OnTheWay
<1>4. CASE EmitWakeup
  <2>1. /\ UNCHANGED <<pipe, PostedWakes, owed, delivered, wakes>>
        /\ pc = "emit" /\ pc' # "emit" /\ Push("WAKEUP")
    BY <1>4 DEF EmitWakeup, PostedWakes
  <2>2. QueuedWakes' # {} /\ Cardinality(QueuedWakes') = Cardinality(QueuedWakes) + 1
    BY <2>1, PushWake
  <2> QED BY <1>t, <1>u, <2>1, <2>2 DEF OnTheWay
<1>5. CASE ReadPipe
  <2>1. /\ UNCHANGED <<PostedWakes, QueuedWakes, owed, delivered, wakes>>
        /\ pc = "read" /\ pc' = "emit" /\ pipe' = 0 /\ pipe > 0
    BY <1>5 DEF ReadPipe, PostedWakes, QueuedWakes, PipeSeen
  <2> QED BY <1>t, <1>u, <2>1 DEF OnTheWay
<1>6. CASE Woken \/ Present
  <2>1. /\ UNCHANGED <<pipe, QueuedWakes, owed, delivered, wakes>>
        /\ pc \notin {"read", "emit"} /\ pc' # "emit"
    BY <1>6 DEF Woken, Present, QueuedWakes
  <2>2. UNCHANGED PostedWakes \/ (PostedWakes = {} /\ PostedWakes' = {})
    BY <1>6, PostedByRead
  <2> QED BY <1>t, <1>u, <1>v, <2>1, <2>2 DEF OnTheWay
<1>7. CASE Wakeup
  <2>1. /\ UNCHANGED <<QueuedWakes, delivered, pc>> /\ wakes' = wakes + 1
    BY <1>7 DEF Wakeup, QueuedWakes
  <2>2. CASE Piped
    <3>1. UNCHANGED PostedWakes
      BY <1>7, <2>2 DEF Wakeup, PostedWakes
    <3>2. pipe' > 0
      BY <1>7, <2>2 DEF Wakeup, TypeOK
    <3> QED BY <1>t, <1>u, <2>1, <3>1, <3>2 DEF OnTheWay
  <2>3. CASE ~Piped
    <3>2. Cardinality(PostedWakes') = Cardinality(PostedWakes) + 1
      BY <1>7, <2>3, PostedByWakeup
    <3>3. PostedWakes' # {}
      BY <1>t, <3>2, FS_EmptySet
    <3>4. pipe' = pipe
      BY <1>7, <2>3 DEF Wakeup
    <3> QED BY <1>t, <1>u, <2>1, <3>2, <3>3, <3>4 DEF OnTheWay
  <2> QED BY <2>2, <2>3
<1>8. CASE DestroyWindows
  <2>1. UNCHANGED <<PostedWakes, QueuedWakes, pipe, pc, owed, delivered, wakes>>
    BY <1>8 DEF DestroyWindows, PostedWakes, QueuedWakes
  <2> QED BY <1>t, <1>u, <1>v, <2>1 DEF OnTheWay
<1>9. CASE \E m \in Message \ {"WAKEUP"} : ServerSends(m)
  <2>1. UNCHANGED <<QueuedWakes, pipe, pc, owed, delivered, wakes>>
    BY <1>9 DEF ServerSends, QueuedWakes
  <2>2. Cardinality(PostedWakes') = Cardinality(PostedWakes)
    BY <1>9, PostedBySend
  <2>3. PostedWakes # {} => PostedWakes' # {}
    BY <1>t, <2>2, FS_EmptySet
  <2> QED BY <1>t, <1>u, <1>v, <2>1, <2>2, <2>3 DEF OnTheWay
<1>10. CASE /\ UNCHANGED <<wire, queue, pipe, owed, delivered, wakes>>
            /\ pc \in {"read", "emit"} => pc' = pc
            /\ pc' = "emit" => pc = "emit"
  <2>1. UNCHANGED <<PostedWakes, QueuedWakes>>
    BY <1>10 DEF PostedWakes, QueuedWakes
  <2> QED BY <1>10, <1>t, <1>u, <1>v, <2>1 DEF OnTheWay
<1>11. CASE Arm \/ DrainedLast \/ Interrupted \/ (\E c \in Calls : Enter(c)) \/ Expire
              \/ RepeatFallsDue \/ UNCHANGED vars \/ (PopFirst /\ ~TakeOldest)
              \/ (Pumped /\ ~TakeOldest)
  <2>1. UNCHANGED <<wire, queue, pipe, owed, delivered, wakes>>
    BY <1>11 DEF Arm, DrainedLast, Interrupted, Enter, Expire, RepeatFallsDue, vars,
                 PopFirst, Pumped
  <2>2. pc \in {"read", "emit"} => pc' = pc
    BY <1>11 DEF Arm, DrainedLast, Interrupted, Enter, Expire, RepeatFallsDue, vars,
                 PopFirst, Pumped
  <2>3. pc' = "emit" => pc = "emit"
    BY <1>11, PumpedCases
    DEF Arm, DrainedLast, Interrupted, Enter, Expire, RepeatFallsDue, vars, PopFirst
  <2> QED BY <2>1, <2>2, <2>3, <1>10
<1>12. (TakeOldest /\ (PopFirst \/ Pumped)) => pc \in {"pop", "pumped"}
  BY DEF PopFirst, Pumped
<1> QED
  BY <1>1, <1>2, <1>3, <1>4, <1>5, <1>6, <1>7, <1>8, <1>9, <1>11, <1>12
  DEF Next, InCall

-----------------------------------------------------------------------------
(* Theorems *)

\* LoopInv holds in every reachable state, for any backends, calls, pipe and
\* bounds (nack__xcb_pump_events, nack__wl_pump_events and their like).
THEOREM LoopInvariant == Spec => []LoopInv
<1>1. LoopInv /\ [Next]_vars => LoopInv'
  BY LoopTypeStep, ServersOnlyStep, StampedStep, PipeSeenStep, CallsInOrderStep,
     CaughtStep, WakesKeptStep DEF LoopInv
<1> QED BY <1>1, LoopInit, PTL DEF Spec

\* No wake() is lost and none is invented, whatever thread calls it and
\* whenever, on every backend (nack_xcb.cpp:882-905, nack_wayland.cpp:803-886,
\* nack_win32.cpp:1012).
THEOREM WakesKept == Spec => []WakesAreKept
<1>1. LoopInv => WakesAreKept
  BY DEF LoopInv
<1> QED BY <1>1, LoopInvariant, PTL

\* A call that comes back with nothing had nothing to return: an action
\* property, from the invariant (nack.cpp:875-911, nack_api.cpp:503).
THEOREM HonestNothing == Spec => NothingIsHonest
<1> DEFINE A == call # "none" /\ call' = "none" /\ result' = "nothing" =>
                  CASE call = "poll"  -> /\ queue' = {}
                                         /\ IF backend = "wayland" THEN pending = << >>
                                            ELSE sent + Cardinality(PostedWakes)
                                                   - Len(wire) >= before
                    [] call = "wait"  -> queue' = {} /\ ~windows
                    [] call = "timed" -> expired
<1>1. LoopInv /\ [Next]_vars => [A]_vars
  <2> SUFFICES ASSUME LoopInv, Next, call # "none", call' = "none", result' = "nothing"
               PROVE  A
    OBVIOUS
  <2> USE DEF outside, clock, inbox, where, Goto, Return
  <2>1. PopFirst \/ Pumped
    BY DEF Next, InCall, Drain, Drained, Arm, Woken, ReadPipe, EmitWakeup, DrainedLast,
           RepeatLast, Interrupted, Enter, Present, DestroyWindows, ServerSends,
           Wakeup, Expire, RepeatFallsDue, LoopInv, CallsInOrder
  <2>2. CASE TakeOldest
    <3> PICK e \in queue :
           IF e.type # "HIDDEN" THEN Return(e.type)
           ELSE IF call = "timed" /\ expired THEN Return("nothing")
           ELSE Goto("pop")
      BY <2>2 DEF TakeOldest
    <3>1. e.type \in {"SHOWN", "HIDDEN", "WAKEUP"}
      BY DEF LoopInv, TypeOK, EventType
    <3>2. call = "timed" /\ expired
      BY <3>1
    <3> QED BY <3>2
  <2>3. CASE ~TakeOldest
    <3>1. Pumped
      BY <2>1, <2>3 DEF PopFirst
    <3>2. /\ pc = "pumped" /\ queue = {} /\ queue' = {}
          /\ \/ call = "poll"
             \/ call = "wait" /\ ~windows
             \/ call = "timed" /\ expired
      <4>1. pc = "pumped"
        BY <3>1 DEF Pumped
      <4>2. TypeOK /\ CallsInOrder
        BY DEF LoopInv
      <4> QED BY <2>3, <3>1, <4>1, <4>2, PumpedCases
    <3>3. call = "poll" => IF backend = "wayland" THEN pending = << >>
                           ELSE sent + Cardinality(PostedWakes) - Len(wire) >= before
      BY <3>2 DEF LoopInv, Caught
    <3>4. CASE call = "poll"
      BY <3>2, <3>3, <3>4
    <3>5. CASE call = "wait"
      BY <3>2, <3>5
    <3>6. CASE call = "timed"
      BY <3>2, <3>6
    <3> QED BY <3>2, <3>4, <3>5, <3>6
  <2> QED BY <2>2, <2>3
<1>2. Spec => [][A]_vars
  BY <1>1, LoopInvariant, PTL DEF Spec
<1> QED BY <1>2 DEF NothingIsHonest
=============================================================================
