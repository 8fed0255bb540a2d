------------------------ MODULE X11SelectionOwnerProofs ------------------------
(***************************************************************************)
(* Proofs about X11SelectionOwner, for any requestors, properties, texts,  *)
(* sizes and slots and any number of requests and events in flight.        *)
(*                                                                         *)
(* A conversation is a requestor's window and one of its properties.  The  *)
(* invariant says, for each phase the requestor can be in, where the       *)
(* conversation is to be found: in a request on the wire, in an answer not *)
(* yet taken, in the property, in a slot of libnack.                       *)
(***************************************************************************)
EXTENDS X11SelectionOwner, FiniteSetTheorems, SequenceTheorems, WellFoundedInduction, TLAPS

-----------------------------------------------------------------------------
(* The types *)

Property == [set : BOOLEAN, val : Seq(Piece)]

Busy == {s \in [active : {TRUE}, requestor : Requestor, property : Prop, text : Large,
                sent : Nat, late : BOOLEAN] : s.sent <= Pieces[s.text]}
Slot == {FreeSlot} \cup Busy

Request == [type : {"REQUEST"}, win : Requestor, props : {ps \in Seq(Prop) : IsInjective(ps)}]
Deletion == [type : {"DELETE"}, win : Requestor, props : {<<p>> : p \in Prop}]
Event == Request \cup Deletion \cup {WireEvent("CLEAR", NoRequestor, << >>)}

Reply == [prop : Prop, granted : BOOLEAN]

Types ==
  /\ prop \in [Requestor -> [Prop -> Property]]
  /\ wire \in Seq(Event)
  /\ alive \subseteq Requestor
  /\ owned \in Text \cup {NoText}
  /\ sends \in [1..Slots -> Slot]
  /\ watch \subseteq Requestor
  /\ retired \subseteq Requestor \X Prop
  /\ abandoned \subseteq Requestor \X Prop
  /\ replies \in [Requestor -> Seq(Reply)]
  /\ phase \in [Requestor -> [Prop -> {"idle", "asked", "receiving", "done"}]]
  /\ got \in [Requestor -> [Prop -> Seq(Piece)]]

-----------------------------------------------------------------------------
(* The invariant of a conversation *)

AsksFor(e, r, p) ==
  e.type = "REQUEST" /\ e.win = r /\ \E k \in 1..Len(e.props) : e.props[k] = p

DeletionOf(r, p) == WireEvent("DELETE", r, <<p>>)

NoAsk(s, r, p) == \A j \in 1..Len(s) : ~AsksFor(s[j], r, p)
NoDelete(s, r, p) == \A j \in 1..Len(s) : s[j] # DeletionOf(r, p)
NoSlot(S, r, p) == \A i \in 1..Slots : ~Sending(S[i], r, p)
NoAnswer(q, p) == \A a \in 1..Len(q) : q[a].prop # p

\* One request is on the wire; deletes that come before it are old.
Pending(s, r, p) ==
  \E j \in 1..Len(s) : /\ AsksFor(s[j], r, p)
                       /\ \A l \in 1..Len(s) : AsksFor(s[l], r, p) => l = j
                       /\ \A l \in 1..Len(s) : s[l] = DeletionOf(r, p) => l < j

OneAnswer(q, p, granted) ==
  \E a \in 1..Len(q) : /\ q[a].prop = p /\ q[a].granted = granted
                       /\ \A b \in 1..Len(q) : q[b].prop = p => b = a

\* Nothing of the conversation is under way.
Quiet(S, s, q, r, p) == NoAsk(s, r, p) /\ NoAnswer(q, p) /\ NoSlot(S, r, p)

\* The request has not been read.
Waits(S, s, q, r, p) == Pending(s, r, p) /\ NoAnswer(q, p) /\ NoSlot(S, r, p)

\* What an answer says is in the property: the text, or that it will come in
\* pieces, of which none is sent before the requestor has seen so.
Stands(S, v, r, p, granted) ==
  /\ granted => v.set /\ \E t \in Text : v.val = <<Incr>> \/ v.val = Whole(t)
  /\ \A i \in 1..Slots : Sending(S[i], r, p) => granted /\ v.val = <<Incr>> /\ S[i].sent = 0

\* The request has been read, and the answer has not been taken.
Answered(S, v, s, q, r, p) ==
  /\ NoAsk(s, r, p)
  /\ \E granted \in BOOLEAN : OneAnswer(q, p, granted) /\ Stands(S, v, r, p, granted)
  /\ NoSlot(S, r, p) \/ NoDelete(s, r, p)

\* What was read and what lies in the property begin a text, and are all of it
\* when an empty value ends it; they are what the slot has sent.
Receives(S, v, g, r, p) ==
  /\ v.val # <<Incr>>
  /\ \E t \in Text, n \in Nat :
       /\ n <= Pieces[t] /\ g \o v.val = SubSeq(Whole(t), 1, n)
       /\ v.set /\ v.val = << >> => n = Pieces[t]
  /\ \A i \in 1..Slots : Sending(S[i], r, p) =>
       /\ g \o v.val = SubSeq(Whole(S[i].text), 1, S[i].sent)
       /\ v.set => v.val # << >>

Conversation(S, v, s, q, f, g, r, p) ==
  \/ f = "idle" /\ Quiet(S, s, q, r, p)
  \/ f = "done" /\ Quiet(S, s, q, r, p) /\ \E t \in Text : g = Whole(t)
  \/ f = "asked" /\ g = << >> /\ (Waits(S, s, q, r, p) \/ Answered(S, v, s, q, r, p))
  \/ f = "receiving" /\ NoAsk(s, r, p) /\ NoAnswer(q, p) /\ Receives(S, v, g, r, p)

OneSlot(S, r, p) ==
  \A i, j \in 1..Slots : Sending(S[i], r, p) /\ Sending(S[j], r, p) => i = j

\* A conversation has one slot at most, and none that libnack gave up on.
Sound(S, R, r, p) == OneSlot(S, r, p) /\ (<<r, p>> \in R => NoSlot(S, r, p))

Clean(v) == ~v.set => v.val = << >>

\* Of a conversation that was abandoned nothing of this is known until its
\* requestor asks again after libnack is through with it.
Talk(r, p) ==
  /\ Clean(prop[r][p])
  /\ r \notin alive => phase[r][p] = "idle" /\ replies[r] = << >>
  /\ r \in alive /\ <<r, p>> \notin abandoned =>
       /\ Sound(sends, retired, r, p)
       /\ Conversation(sends, prop[r][p], wire, replies[r], phase[r][p], got[r][p], r, p)

Talks == \A r \in Requestor, p \in Prop : Talk(r, p)

\* The requestors that have abandoned nothing.
Steady == {r \in alive : \A p \in Prop : <<r, p>> \notin abandoned}

\* A steady requestor with one conversation at a time has one slot at most, and
\* libnack watches it as long.
OneTalk ==
  \A r \in alive : \A p, q \in Prop :
    phase[r][p] \notin Resting /\ phase[r][q] \notin Resting => p = q

Apart(S, A) ==
  \A i, j \in 1..Slots :
    S[i].active /\ S[j].active /\ S[i].requestor = S[j].requestor /\ S[i].requestor \in A
      => i = j

Watches(S, W, A) ==
  \A i \in 1..Slots : S[i].active /\ S[i].requestor \in A => S[i].requestor \in W

OneByOne == OneTalk /\ Apart(sends, Steady) /\ Watches(sends, watch, Steady)

OwnerInv == Types /\ Talks /\ (~Concurrent => OneByOne)

-----------------------------------------------------------------------------
(* Values *)

LEMMA FreeIs == ~FreeSlot.active /\ \A r, p : ~Sending(FreeSlot, r, p)
BY DEF FreeSlot, Sending

LEMMA SlotIs ==
  ASSUME NEW s \in Slot
  PROVE  /\ s.active \in BOOLEAN
         /\ s.active => /\ s.requestor \in Requestor /\ s.property \in Prop
                        /\ s.text \in Large /\ s.sent \in Nat /\ s.sent <= Pieces[s.text]
<1>1. CASE s = FreeSlot
  BY <1>1, FreeIs DEF FreeSlot
<1>2. CASE s \in Busy
  BY <1>2 DEF Busy
<1> QED BY <1>1, <1>2 DEF Slot

LEMMA EventIs ==
  ASSUME NEW e \in Event
  PROVE  \/ /\ e.type = "REQUEST" /\ e.win \in Requestor
            /\ e.props \in Seq(Prop) /\ IsInjective(e.props)
         \/ /\ e.type = "DELETE" /\ e.win \in Requestor
            /\ \E p \in Prop : e = DeletionOf(e.win, p) /\ e.props[1] = p
         \/ e.type = "CLEAR"
BY DEF Event, Request, Deletion, WireEvent, DeletionOf

LEMMA WholeIs ==
  ASSUME NEW t \in Text
  PROVE  /\ Pieces[t] \in Nat \ {0} /\ Whole(t) \in Seq(Piece) /\ Len(Whole(t)) = Pieces[t]
         /\ \A k \in 1..Pieces[t] : Whole(t)[k] = <<t, k>>
         /\ Whole(t) # << >> /\ Whole(t) # <<Incr>>
<1>1. Pieces[t] \in Nat \ {0}
  BY OwnerAssumption
<1>2. Whole(t) \in [1..Pieces[t] -> Piece]
  BY <1>1 DEF Whole, Piece
<1>3. Whole(t) \in Seq(Piece) /\ Len(Whole(t)) = Pieces[t]
  BY <1>1, <1>2
<1>4. \A k \in 1..Pieces[t] : Whole(t)[k] = <<t, k>>
  BY DEF Whole
<1>5. Whole(t)[1] = <<t, 1>>
  BY <1>1, <1>4
<1>6. <<Incr>>[1] # <<t, 1>>
  BY DEF Incr
<1> QED BY <1>1, <1>3, <1>4, <1>5, <1>6

LEMMA PartOfWhole ==
  ASSUME NEW t \in Text, NEW n \in Nat, n <= Pieces[t]
  PROVE  /\ SubSeq(Whole(t), 1, n) \in Seq(Piece) /\ Len(SubSeq(Whole(t), 1, n)) = n
         /\ \A k \in 1..n : SubSeq(Whole(t), 1, n)[k] = <<t, k>>
         /\ n = 0 => SubSeq(Whole(t), 1, n) = << >>
         /\ n = Pieces[t] => SubSeq(Whole(t), 1, n) = Whole(t)
BY WholeIs

LEMMA OneMore ==
  ASSUME NEW S, NEW a \in Seq(S), NEW b \in Seq(S), NEW e \in S,
         Len(b) = Len(a) + 1, \A k \in 1..Len(a) : b[k] = a[k], b[Len(a) + 1] = e
  PROVE  a \o <<e>> = b
<1>1. <<e>> \in Seq(S) /\ Len(<<e>>) = 1 /\ <<e>>[1] = e
  OBVIOUS
<1> DEFINE c == <<e>>
<1> HIDE DEF c
<1>2. c \in Seq(S) /\ Len(c) = 1 /\ c[1] = e
  BY <1>1 DEF c
<1>3. /\ a \o c \in Seq(S) /\ Len(a \o c) = Len(a) + 1
      /\ \A k \in 1..(Len(a) + 1) : (a \o c)[k] = IF k <= Len(a) THEN a[k] ELSE c[k - Len(a)]
  <2>1. /\ a \o c \in Seq(S) /\ Len(a \o c) = Len(a) + Len(c)
        /\ \A k \in 1..(Len(a) + Len(c)) : (a \o c)[k] = IF k <= Len(a) THEN a[k] ELSE c[k - Len(a)]
    BY <1>2, ConcatProperties
  <2> QED BY <1>2, <2>1
<1>4. \A k \in 1..(Len(a) + 1) : (a \o c)[k] = b[k]
  BY <1>2, <1>3
<1>5. a \o c = b
  BY <1>3, <1>4, SeqEqual
<1> QED BY <1>5 DEF c

\* The next piece makes the part one longer.
LEMMA NextPart ==
  ASSUME NEW t \in Text, NEW n \in Nat, n < Pieces[t],
         NEW g \in Seq(Piece), NEW v \in Seq(Piece), g \o v = SubSeq(Whole(t), 1, n)
  PROVE  g \o (v \o <<<<t, n + 1>>>>) = SubSeq(Whole(t), 1, n + 1)
<1> DEFINE e == <<t, n + 1>>
           a == SubSeq(Whole(t), 1, n)
           b == SubSeq(Whole(t), 1, n + 1)
<1>1. e \in Piece
  BY DEF Piece
<1>2. <<e>> \in Seq(Piece)
  BY <1>1
<1>3. g \o (v \o <<e>>) = a \o <<e>>
  BY <1>2, ConcatAssociative
<1>4. /\ a \in Seq(Piece) /\ Len(a) = n /\ \A k \in 1..n : a[k] = <<t, k>>
      /\ b \in Seq(Piece) /\ Len(b) = n + 1 /\ \A k \in 1..(n + 1) : b[k] = <<t, k>>
  BY PartOfWhole, WholeIs
<1>5. \A k \in 1..n : b[k] = a[k]
  BY <1>4
<1>6. b[n + 1] = e
  BY <1>4
<1> HIDE DEF a, b, e
<1>7. a \o <<e>> = b
  BY <1>1, <1>4, <1>5, <1>6, OneMore
<1> QED BY <1>3, <1>7 DEF e, b

-----------------------------------------------------------------------------
(* Repetition: a set of numbers with 0 in it and the next of each is all of them. *)

LEMMA Numbers ==
  ASSUME NEW S \in SUBSET Nat, 0 \in S, \A k \in S : k + 1 \in S
  PROVE  S = Nat
<1> SUFFICES ASSUME Nat \ S # {} PROVE FALSE
  OBVIOUS
<1> DEFINE R == OpToRel(<, Nat)
<1>1. IsWellFoundedOn(R, Nat)
  BY NatLessThanWellFounded
<1>2. PICK m \in Nat \ S : \A y \in Nat \ S : ~(<<y, m>> \in R)
  <2> DEFINE T == Nat \ S
  <2>1. T \subseteq Nat /\ T # {}
    OBVIOUS
  <2> HIDE DEF R, T
  <2>2. \E x \in T : \A y \in T : ~(<<y, x>> \in R)
    BY <1>1, <2>1, WFMin
  <2> QED BY <2>2 DEF T
<1>3. \A y \in Nat \ S : ~(y < m)
  BY <1>2 DEF OpToRel
<1> HIDE DEF R
<1>4. m # 0 /\ m - 1 \in Nat /\ m - 1 < m
  OBVIOUS
<1>5. m - 1 \in S
  BY <1>3, <1>4
<1>6. (m - 1) + 1 \in S
  BY <1>5
<1> QED BY <1>6

-----------------------------------------------------------------------------
(* What leaves a conversation as it is *)

\* No slot is new to it, and what its slot has sent is the same.
SlotsKept(S, T, r, p) ==
  \A i \in 1..Slots : Sending(T[i], r, p) =>
    Sending(S[i], r, p) /\ T[i].text = S[i].text /\ T[i].sent = S[i].sent

WireKept(s, t, r, p) ==
  /\ NoAsk(s, r, p) => NoAsk(t, r, p)
  /\ Pending(s, r, p) => Pending(t, r, p)
  /\ NoDelete(s, r, p) => NoDelete(t, r, p)

AnswersKept(q, u, p) ==
  /\ NoAnswer(q, p) => NoAnswer(u, p)
  /\ \A granted \in BOOLEAN : OneAnswer(q, p, granted) => OneAnswer(u, p, granted)

LEMMA SoundKept ==
  ASSUME NEW S, NEW T, NEW R, NEW Q, NEW r, NEW p, Sound(S, R, r, p), SlotsKept(S, T, r, p),
         <<r, p>> \in Q => <<r, p>> \in R \/ NoSlot(T, r, p)
  PROVE  Sound(T, Q, r, p)
BY DEF Sound, SlotsKept, OneSlot, NoSlot

LEMMA ConversationKept ==
  ASSUME NEW S, NEW T, NEW v, NEW s, NEW t, NEW q, NEW u, NEW f, NEW g, NEW r, NEW p,
         Conversation(S, v, s, q, f, g, r, p),
         SlotsKept(S, T, r, p), WireKept(s, t, r, p), AnswersKept(q, u, p)
  PROVE  Conversation(T, v, t, u, f, g, r, p)
<1>1. NoSlot(S, r, p) => NoSlot(T, r, p)
  BY DEF SlotsKept, NoSlot
<1>2. Quiet(S, s, q, r, p) => Quiet(T, t, u, r, p)
  BY <1>1 DEF Quiet, WireKept, AnswersKept
<1>3. Waits(S, s, q, r, p) => Waits(T, t, u, r, p)
  BY <1>1 DEF Waits, WireKept, AnswersKept
<1>4. \A granted \in BOOLEAN : Stands(S, v, r, p, granted) => Stands(T, v, r, p, granted)
  BY DEF Stands, SlotsKept
<1>5. Answered(S, v, s, q, r, p) => Answered(T, v, t, u, r, p)
  BY <1>1, <1>4 DEF Answered, WireKept, AnswersKept
<1>6. Receives(S, v, g, r, p) => Receives(T, v, g, r, p)
  BY DEF Receives, SlotsKept
<1> QED BY <1>2, <1>3, <1>5, <1>6 DEF Conversation, WireKept, AnswersKept

LEMMA SlotsSame == \A S, r, p : SlotsKept(S, S, r, p)
BY DEF SlotsKept

LEMMA WireSame == \A s, r, p : WireKept(s, s, r, p)
BY DEF WireKept

LEMMA AnswersSame == \A q, p : AnswersKept(q, q, p)
BY DEF AnswersKept

LEMMA TailIs ==
  ASSUME NEW S, NEW s \in Seq(S), s # << >>
  PROVE  /\ Tail(s) \in Seq(S) /\ Len(s) \in Nat /\ Len(s) > 0 /\ Len(Tail(s)) = Len(s) - 1
         /\ Head(s) = s[1] /\ Head(s) \in S
         /\ \A i \in 1..Len(Tail(s)) : i + 1 \in 1..Len(s) /\ Tail(s)[i] = s[i + 1]
         /\ \A i \in 1..Len(s) : i # 1 => i - 1 \in 1..Len(Tail(s)) /\ Tail(s)[i - 1] = s[i]
<1>1. /\ Tail(s) \in Seq(S) /\ Len(s) \in Nat /\ Len(s) > 0 /\ Len(Tail(s)) = Len(s) - 1
      /\ Head(s) = s[1] /\ Head(s) \in S
  BY HeadTailProperties, EmptySeq, LenProperties
<1>2. \A i \in 1..Len(Tail(s)) : Tail(s)[i] = s[i + 1]
  BY HeadTailProperties
<1> DEFINE t == Tail(s)
<1> HIDE DEF t
<1>3. /\ Len(s) \in Nat /\ Len(s) > 0 /\ Len(t) = Len(s) - 1
      /\ \A i \in 1..Len(t) : t[i] = s[i + 1]
  BY <1>1, <1>2 DEF t
<1>4. \A i \in 1..Len(t) : i + 1 \in 1..Len(s) /\ t[i] = s[i + 1]
  BY <1>3
<1>5. ASSUME NEW i \in 1..Len(s), i # 1
      PROVE  i - 1 \in 1..Len(t) /\ t[i - 1] = s[i]
  <2>1. i - 1 \in 1..Len(t) /\ (i - 1) + 1 = i
    BY <1>3, <1>5
  <2> QED BY <1>3, <2>1
<1> QED BY <1>1, <1>4, <1>5 DEF t

LEMMA ConcatIs ==
  ASSUME NEW S, NEW s \in Seq(S), NEW t \in Seq(S)
  PROVE  /\ s \o t \in Seq(S) /\ Len(s \o t) = Len(s) + Len(t) /\ Len(s) \in Nat /\ Len(t) \in Nat
         /\ \A i \in 1..Len(s) : i \in 1..Len(s \o t) /\ (s \o t)[i] = s[i]
         /\ \A i \in 1..Len(t) : Len(s) + i \in 1..Len(s \o t) /\ (s \o t)[Len(s) + i] = t[i]
         /\ \A i \in 1..Len(s \o t) : i \notin 1..Len(s) =>
              i - Len(s) \in 1..Len(t) /\ (s \o t)[i] = t[i - Len(s)]
<1>1. /\ s \o t \in Seq(S) /\ Len(s \o t) = Len(s) + Len(t) /\ Len(s) \in Nat /\ Len(t) \in Nat
      /\ \A i \in 1..(Len(s) + Len(t)) : (s \o t)[i] = IF i <= Len(s) THEN s[i] ELSE t[i - Len(s)]
  BY ConcatProperties, LenProperties
<1> DEFINE u == s \o t
<1> HIDE DEF u
<1>2. /\ Len(u) = Len(s) + Len(t) /\ Len(s) \in Nat /\ Len(t) \in Nat
      /\ \A i \in 1..(Len(s) + Len(t)) : u[i] = IF i <= Len(s) THEN s[i] ELSE t[i - Len(s)]
  BY <1>1 DEF u
<1>3. \A i \in 1..Len(s) : i \in 1..Len(u) /\ u[i] = s[i]
  BY <1>2
<1>4. ASSUME NEW i \in 1..Len(t)
      PROVE  Len(s) + i \in 1..Len(u) /\ u[Len(s) + i] = t[i]
  <2>1. /\ Len(s) + i \in 1..(Len(s) + Len(t)) /\ ~(Len(s) + i <= Len(s))
        /\ (Len(s) + i) - Len(s) = i
    BY <1>2
  <2> QED BY <1>2, <2>1
<1>5. \A i \in 1..Len(u) : i \notin 1..Len(s) =>
        i - Len(s) \in 1..Len(t) /\ u[i] = t[i - Len(s)]
  BY <1>2
<1> QED BY <1>1, <1>3, <1>4, <1>5 DEF u

\* Reading an event that does not ask for the conversation.
LEMMA ReadOther ==
  ASSUME NEW s \in Seq(Event), s # << >>, NEW r, NEW p, ~AsksFor(Head(s), r, p)
  PROVE  WireKept(s, Tail(s), r, p)
<1> DEFINE t == Tail(s)
<1> HIDE DEF t
<1>1. /\ Len(s) \in Nat /\ Len(s) > 0 /\ Len(t) = Len(s) - 1 /\ ~AsksFor(s[1], r, p)
      /\ \A i \in 1..Len(t) : i + 1 \in 1..Len(s) /\ t[i] = s[i + 1]
      /\ \A i \in 1..Len(s) : i # 1 => i - 1 \in 1..Len(t) /\ t[i - 1] = s[i]
  BY TailIs DEF t
<1>2. NoAsk(s, r, p) => NoAsk(t, r, p)
  BY <1>1 DEF NoAsk
<1>3. NoDelete(s, r, p) => NoDelete(t, r, p)
  BY <1>1 DEF NoDelete
<1>4. ASSUME Pending(s, r, p) PROVE Pending(t, r, p)
  <2>1. PICK j \in 1..Len(s) :
          /\ AsksFor(s[j], r, p)
          /\ \A l \in 1..Len(s) : AsksFor(s[l], r, p) => l = j
          /\ \A l \in 1..Len(s) : s[l] = DeletionOf(r, p) => l < j
    BY <1>4 DEF Pending
  <2>2. j # 1 /\ j - 1 \in 1..Len(t) /\ AsksFor(t[j - 1], r, p)
    BY <1>1, <2>1
  <2>3. \A l \in 1..Len(t) : AsksFor(t[l], r, p) => l = j - 1
    <3> SUFFICES ASSUME NEW l \in 1..Len(t), AsksFor(t[l], r, p) PROVE l = j - 1
      OBVIOUS
    <3>1. l + 1 \in 1..Len(s) /\ AsksFor(s[l + 1], r, p)
      BY <1>1
    <3>2. l + 1 = j
      BY <2>1, <3>1
    <3> QED BY <3>2, <1>1
  <2>4. \A l \in 1..Len(t) : t[l] = DeletionOf(r, p) => l < j - 1
    <3> SUFFICES ASSUME NEW l \in 1..Len(t), t[l] = DeletionOf(r, p) PROVE l < j - 1
      OBVIOUS
    <3>1. l + 1 \in 1..Len(s) /\ s[l + 1] = DeletionOf(r, p)
      BY <1>1
    <3>2. l + 1 < j
      BY <2>1, <3>1
    <3> QED BY <3>2, <1>1
  <2> QED BY <2>2, <2>3, <2>4 DEF Pending
<1> QED BY <1>2, <1>3, <1>4 DEF WireKept, t

\* Events that have nothing to do with the conversation are sent.
LEMMA SentOther ==
  ASSUME NEW s \in Seq(Event), NEW t \in Seq(Event), NEW r, NEW p,
         \A k \in 1..Len(t) : ~AsksFor(t[k], r, p) /\ t[k] # DeletionOf(r, p)
  PROVE  WireKept(s, s \o t, r, p)
<1> DEFINE u == s \o t
<1> HIDE DEF u
<1>1. /\ \A i \in 1..Len(s) : i \in 1..Len(u) /\ u[i] = s[i]
      /\ \A i \in 1..Len(u) : i \notin 1..Len(s) => i - Len(s) \in 1..Len(t) /\ u[i] = t[i - Len(s)]
  BY ConcatIs DEF u
<1>2. \A i \in 1..Len(u) :
        \/ i \in 1..Len(s) /\ u[i] = s[i]
        \/ ~AsksFor(u[i], r, p) /\ u[i] # DeletionOf(r, p)
  BY <1>1
<1>3. NoAsk(s, r, p) => NoAsk(u, r, p)
  BY <1>2 DEF NoAsk
<1>4. NoDelete(s, r, p) => NoDelete(u, r, p)
  BY <1>2 DEF NoDelete
<1>5. Pending(s, r, p) => Pending(u, r, p)
  BY <1>1, <1>2 DEF Pending
<1> QED BY <1>3, <1>4, <1>5 DEF WireKept, u

\* Deletions are sent, whichever.
LEMMA SentDeletions ==
  ASSUME NEW s \in Seq(Event), NEW t \in Seq(Event), NEW r, NEW p, NoAsk(s, r, p),
         \A k \in 1..Len(t) : ~AsksFor(t[k], r, p)
  PROVE  NoAsk(s \o t, r, p)
<1> DEFINE u == s \o t
<1> HIDE DEF u
<1>1. /\ \A i \in 1..Len(s) : i \in 1..Len(u) /\ u[i] = s[i]
      /\ \A i \in 1..Len(u) : i \notin 1..Len(s) => i - Len(s) \in 1..Len(t) /\ u[i] = t[i - Len(s)]
  BY ConcatIs DEF u
<1> QED BY <1>1 DEF NoAsk, u

\* The request itself is sent, behind the deletions.
LEMMA SentRequest ==
  ASSUME NEW s \in Seq(Event), NEW t \in Seq(Event), NEW r, NEW p, NoAsk(s, r, p),
         Len(t) > 0, AsksFor(t[Len(t)], r, p),
         \A k \in 1..(Len(t) - 1) : ~AsksFor(t[k], r, p)
  PROVE  Pending(s \o t, r, p)
<1> DEFINE u == s \o t
<1> HIDE DEF u
<1>1. /\ Len(s) \in Nat /\ Len(t) \in Nat /\ Len(u) = Len(s) + Len(t)
      /\ \A i \in 1..Len(s) : i \in 1..Len(u) /\ u[i] = s[i]
      /\ \A i \in 1..Len(t) : Len(s) + i \in 1..Len(u) /\ u[Len(s) + i] = t[i]
      /\ \A i \in 1..Len(u) : i \notin 1..Len(s) => i - Len(s) \in 1..Len(t) /\ u[i] = t[i - Len(s)]
  BY ConcatIs DEF u
<1> DEFINE j == Len(s) + Len(t)
<1>2. j \in 1..Len(u) /\ AsksFor(u[j], r, p)
  BY <1>1
<1>3. ASSUME NEW l \in 1..Len(u), AsksFor(u[l], r, p) PROVE l = j
  <2>1. CASE l \in 1..Len(s)
    BY <1>1, <1>3, <2>1 DEF NoAsk
  <2>2. CASE l \notin 1..Len(s)
    <3>1. l - Len(s) \in 1..Len(t) /\ AsksFor(t[l - Len(s)], r, p)
      BY <1>1, <1>3, <2>2
    <3>2. l - Len(s) \notin 1..(Len(t) - 1)
      BY <3>1
    <3> QED BY <1>1, <3>1, <3>2
  <2> QED BY <2>1, <2>2
<1>4. \A l \in 1..Len(u) : u[l] = DeletionOf(r, p) => l < j
  <2>1. ~AsksFor(DeletionOf(r, p), r, p)
    BY DEF AsksFor, DeletionOf, WireEvent
  <2>2. \A l \in 1..Len(u) : u[l] = DeletionOf(r, p) => l # j
    BY <1>2, <2>1
  <2> QED BY <1>1, <2>2
<1> HIDE DEF j
<1> QED BY <1>2, <1>3, <1>4 DEF Pending, u

\* The request is read: none is left on the wire, and no older deletion.
LEMMA ReadRequest ==
  ASSUME NEW s \in Seq(Event), s # << >>, NEW r, NEW p,
         Pending(s, r, p), AsksFor(Head(s), r, p)
  PROVE  NoAsk(Tail(s), r, p) /\ NoDelete(Tail(s), r, p)
<1> DEFINE t == Tail(s)
<1> HIDE DEF t
<1>1. /\ Len(s) \in Nat /\ Len(s) > 0 /\ AsksFor(s[1], r, p)
      /\ \A i \in 1..Len(t) : i \in Nat /\ i > 0 /\ i + 1 \in 1..Len(s) /\ t[i] = s[i + 1]
  BY TailIs DEF t
<1>2. /\ \A l \in 1..Len(s) : AsksFor(s[l], r, p) => l = 1
      /\ \A l \in 1..Len(s) : s[l] = DeletionOf(r, p) => l < 1
  BY <1>1 DEF Pending
<1>3. \A i \in 1..Len(t) : ~AsksFor(t[i], r, p) /\ t[i] # DeletionOf(r, p)
  <2> TAKE i \in 1..Len(t)
  <2>1. i + 1 \in 1..Len(s) /\ t[i] = s[i + 1] /\ i + 1 # 1 /\ ~(i + 1 < 1)
    BY <1>1
  <2> QED BY <1>2, <2>1
<1> QED BY <1>3 DEF NoAsk, NoDelete, t

\* The first answer is taken: it was for this conversation, or for another.
LEMMA TakenOther ==
  ASSUME NEW q \in Seq(Reply), q # << >>, NEW p, Head(q).prop # p
  PROVE  AnswersKept(q, Tail(q), p)
<1> DEFINE t == Tail(q)
<1> HIDE DEF t
<1>1. /\ Len(q) \in Nat /\ Len(q) > 0 /\ q[1].prop # p
      /\ \A i \in 1..Len(t) : i + 1 \in 1..Len(q) /\ t[i] = q[i + 1]
      /\ \A i \in 1..Len(q) : i # 1 => i - 1 \in 1..Len(t) /\ t[i - 1] = q[i]
  BY TailIs DEF t
<1>2. NoAnswer(q, p) => NoAnswer(t, p)
  BY <1>1 DEF NoAnswer
<1>3. ASSUME NEW granted \in BOOLEAN, OneAnswer(q, p, granted) PROVE OneAnswer(t, p, granted)
  <2>1. PICK a \in 1..Len(q) : /\ q[a].prop = p /\ q[a].granted = granted
                               /\ \A b \in 1..Len(q) : q[b].prop = p => b = a
    BY <1>3 DEF OneAnswer
  <2>2. a # 1 /\ a - 1 \in 1..Len(t) /\ t[a - 1] = q[a]
    BY <1>1, <2>1
  <2>3. ASSUME NEW b \in 1..Len(t), t[b].prop = p PROVE b = a - 1
    <3>1. b + 1 \in 1..Len(q) /\ q[b + 1].prop = p
      BY <1>1, <2>3
    <3>2. b + 1 = a
      BY <2>1, <3>1
    <3> QED BY <3>2, <1>1
  <2> QED BY <2>1, <2>2, <2>3 DEF OneAnswer
<1> QED BY <1>2, <1>3 DEF AnswersKept, t

LEMMA TakenAnswer ==
  ASSUME NEW q \in Seq(Reply), q # << >>, NEW granted \in BOOLEAN,
         OneAnswer(q, Head(q).prop, granted)
  PROVE  Head(q).granted = granted /\ NoAnswer(Tail(q), Head(q).prop)
<1> DEFINE t == Tail(q)
           p == Head(q).prop
<1> HIDE DEF t, p
<1>1. /\ Len(q) \in Nat /\ Len(q) > 0 /\ q[1].prop = p /\ q[1] = Head(q)
      /\ \A i \in 1..Len(t) : i \in Nat /\ i > 0 /\ i + 1 \in 1..Len(q) /\ t[i] = q[i + 1]
  BY TailIs DEF t, p
<1>2. 1 \in 1..Len(q)
  BY <1>1
<1>3. q[1].granted = granted /\ \A b \in 1..Len(q) : q[b].prop = p => b = 1
  BY <1>1, <1>2 DEF OneAnswer, p
<1>4. \A i \in 1..Len(t) : t[i].prop # p
  <2> TAKE i \in 1..Len(t)
  <2>1. i + 1 \in 1..Len(q) /\ t[i] = q[i + 1] /\ i + 1 # 1
    BY <1>1
  <2> QED BY <1>3, <2>1
<1> QED BY <1>1, <1>3, <1>4 DEF NoAnswer, t, p

\* Answers are sent: to others, or the one to a request just read.
LEMMA AnsweredOther ==
  ASSUME NEW q \in Seq(Reply), NEW u \in Seq(Reply), NEW p, NoAnswer(u, p)
  PROVE  AnswersKept(q, q \o u, p)
<1> DEFINE w == q \o u
<1> HIDE DEF w
<1>1. /\ \A i \in 1..Len(q) : i \in 1..Len(w) /\ w[i] = q[i]
      /\ \A i \in 1..Len(w) : i \notin 1..Len(q) => i - Len(q) \in 1..Len(u) /\ w[i] = u[i - Len(q)]
  BY ConcatIs DEF w
<1>2. \A i \in 1..Len(w) : (i \in 1..Len(q) /\ w[i] = q[i]) \/ w[i].prop # p
  BY <1>1 DEF NoAnswer
<1>3. NoAnswer(q, p) => NoAnswer(w, p)
  BY <1>2 DEF NoAnswer
<1>4. ASSUME NEW granted \in BOOLEAN, OneAnswer(q, p, granted) PROVE OneAnswer(w, p, granted)
  <2>1. \A i \in 1..Len(q) : i \in 1..Len(w) /\ w[i] = q[i]
    BY <1>1
  <2> QED BY <1>2, <1>4, <2>1 DEF OneAnswer
<1> QED BY <1>3, <1>4 DEF AnswersKept, w

LEMMA AnsweredThis ==
  ASSUME NEW q \in Seq(Reply), NEW u \in Seq(Reply), NEW p, NEW granted \in BOOLEAN,
         NoAnswer(q, p), OneAnswer(u, p, granted)
  PROVE  OneAnswer(q \o u, p, granted)
<1> DEFINE w == q \o u
<1> HIDE DEF w
<1>1. /\ Len(q) \in Nat /\ Len(u) \in Nat
      /\ \A i \in 1..Len(q) : i \in 1..Len(w) /\ w[i] = q[i]
      /\ \A i \in 1..Len(u) : Len(q) + i \in 1..Len(w) /\ w[Len(q) + i] = u[i]
      /\ \A i \in 1..Len(w) : i \notin 1..Len(q) => i - Len(q) \in 1..Len(u) /\ w[i] = u[i - Len(q)]
  BY ConcatIs DEF w
<1>2. PICK a \in 1..Len(u) : /\ u[a].prop = p /\ u[a].granted = granted
                             /\ \A b \in 1..Len(u) : u[b].prop = p => b = a
  BY DEF OneAnswer
<1>3. Len(q) + a \in 1..Len(w) /\ w[Len(q) + a].prop = p /\ w[Len(q) + a].granted = granted
  BY <1>1, <1>2
<1>4. ASSUME NEW b \in 1..Len(w), w[b].prop = p PROVE b = Len(q) + a
  <2>1. b \notin 1..Len(q)
    BY <1>1, <1>4 DEF NoAnswer
  <2>2. b - Len(q) \in 1..Len(u) /\ u[b - Len(q)].prop = p
    BY <1>1, <1>4, <2>1
  <2>3. b - Len(q) = a
    BY <1>2, <2>2
  <2> QED BY <1>1, <2>3
<1> QED BY <1>3, <1>4 DEF OneAnswer, w

-----------------------------------------------------------------------------
(* One answer: nack__xcb_write_target *)

Writing == [sends : [1..Slots -> Slot], prop : [Requestor -> [Prop -> Property]],
            watch : SUBSET Requestor, retired : SUBSET (Requestor \X Prop), grants : Seq(Reply)]

\* The conversation's part of a is as it was in st.
Spared(st, a, r, p) ==
  /\ a.prop[r][p] = st.prop[r][p]
  /\ SlotsKept(st.sends, a.sends, r, p)
  /\ Sound(st.sends, st.retired, r, p) => Sound(a.sends, a.retired, r, p)

Alone(S, W) == Apart(S, Steady) /\ Watches(S, W, Steady)

\* No slot is r's.
Slotless(S, r) == \A i \in 1..Slots : S[i].active => S[i].requestor # r

\* The answer to r on p is written and stands; the others are spared.
Wrote(st, a, r, p) ==
  /\ a \in Writing
  /\ \A x \in Requestor, y \in Prop : <<x, y>> # <<r, p>> => Spared(st, a, x, y)
  /\ Clean(st.prop[r][p]) => Clean(a.prop[r][p])
  /\ \E granted \in BOOLEAN :
       /\ a.grants = Append(st.grants, [prop |-> p, granted |-> granted])
       /\ r \in alive /\ NoSlot(st.sends, r, p) /\ Sound(st.sends, st.retired, r, p) =>
            /\ Sound(a.sends, a.retired, r, p)
            /\ Stands(a.sends, a.prop[r][p], r, p, granted)
  /\ Alone(st.sends, st.watch) /\ (r \in Steady => Slotless(st.sends, r)) =>
       Alone(a.sends, a.watch)

LEMMA FieldsAre ==
  ASSUME NEW a, NEW S, NEW P, NEW W, NEW R, NEW G,
         a = [sends |-> S, prop |-> P, watch |-> W, retired |-> R, grants |-> G]
  PROVE  /\ a.sends = S /\ a.prop = P /\ a.watch = W /\ a.retired = R /\ a.grants = G
         /\ a = [sends |-> a.sends, prop |-> a.prop, watch |-> a.watch,
                 retired |-> a.retired, grants |-> a.grants]
BY Zenon

LEMMA RetireLateIs ==
  ASSUME NEW st \in Writing, NEW a, a = RetireLate(st)
  PROVE  /\ a \in Writing /\ a.prop = st.prop /\ a.grants = st.grants
         /\ \A r \in Requestor, p \in Prop : Spared(st, a, r, p)
         /\ \A i \in 1..Slots : a.sends[i].active => a.sends[i] = st.sends[i]
         /\ Alone(st.sends, st.watch) => Alone(a.sends, a.watch)
<1> DEFINE late == {i \in 1..Slots : st.sends[i].active /\ st.sends[i].late}
           given == {<<st.sends[i].requestor, st.sends[i].property>> : i \in late}
<1>1. DOMAIN st.sends = 1..Slots
  BY DEF Writing
<1>2. st = [sends |-> st.sends, prop |-> st.prop, watch |-> st.watch,
            retired |-> st.retired, grants |-> st.grants]
  BY DEF Writing
<1>3. /\ a.sends = [i \in DOMAIN st.sends |-> IF i \in late THEN FreeSlot ELSE st.sends[i]]
      /\ a.watch = st.watch \ {st.sends[i].requestor : i \in late}
      /\ a.retired = st.retired \cup given
      /\ a.prop = st.prop /\ a.grants = st.grants
      /\ a = [sends |-> a.sends, prop |-> a.prop, watch |-> a.watch,
              retired |-> a.retired, grants |-> a.grants]
  BY <1>2, Zenon DEF RetireLate, IncrEnd
<1>4. \A i \in 1..Slots : a.sends[i] = IF i \in late THEN FreeSlot ELSE st.sends[i]
  BY <1>1, <1>3
<1>5. \A i \in 1..Slots : st.sends[i] \in Slot
  BY DEF Writing
<1>6. given \subseteq Requestor \X Prop
  BY <1>5, SlotIs
<1>7. a \in Writing
  <2>1. FreeSlot \in Slot
    BY DEF Slot
  <2>2. a.sends \in [1..Slots -> Slot]
    BY <1>1, <1>3, <1>5, <2>1
  <2>3. a.watch \in SUBSET Requestor /\ a.retired \in SUBSET (Requestor \X Prop)
    BY <1>3, <1>6 DEF Writing
  <2> QED BY <1>3, <2>2, <2>3 DEF Writing
<1>8. \A i \in 1..Slots : a.sends[i].active => i \notin late /\ a.sends[i] = st.sends[i]
  BY <1>4, FreeIs
<1>9. ASSUME NEW r \in Requestor, NEW p \in Prop PROVE Spared(st, a, r, p)
  <2>1. \A i \in 1..Slots : Sending(a.sends[i], r, p) =>
          i \notin late /\ a.sends[i] = st.sends[i] /\ Sending(st.sends[i], r, p)
    BY <1>8 DEF Sending
  <2>2. SlotsKept(st.sends, a.sends, r, p)
    BY <2>1 DEF SlotsKept
  <2>3. ASSUME Sound(st.sends, st.retired, r, p), <<r, p>> \in given
        PROVE  NoSlot(a.sends, r, p)
    <3>1. PICK i \in late : <<r, p>> = <<st.sends[i].requestor, st.sends[i].property>>
      BY <2>3
    <3>2. i \in 1..Slots /\ Sending(st.sends[i], r, p)
      BY <3>1 DEF Sending
    <3>3. \A j \in 1..Slots : Sending(a.sends[j], r, p) => j = i
      BY <2>1, <2>3, <3>2 DEF Sound, OneSlot
    <3> QED BY <2>1, <3>3 DEF NoSlot
  <2>4. Sound(st.sends, st.retired, r, p) => Sound(a.sends, a.retired, r, p)
    <3>1. <<r, p>> \in a.retired => <<r, p>> \in st.retired \/ <<r, p>> \in given
      BY <1>3
    <3> QED BY <2>2, <2>3, <3>1, SoundKept
  <2> QED BY <1>3, <2>2, <2>4 DEF Spared
<1>10. ASSUME Alone(st.sends, st.watch) PROVE Alone(a.sends, a.watch)
  <2>1. Apart(a.sends, Steady)
    BY <1>8, <1>10 DEF Alone, Apart
  <2>2. ASSUME NEW i \in 1..Slots, a.sends[i].active, a.sends[i].requestor \in Steady
        PROVE  a.sends[i].requestor \in a.watch
    <3>1. i \notin late /\ a.sends[i] = st.sends[i]
      BY <1>8, <2>2
    <3>2. st.sends[i].requestor \in st.watch
      BY <1>10, <2>2, <3>1 DEF Alone, Watches
    <3>3. \A j \in late : st.sends[j].requestor # st.sends[i].requestor
      BY <1>10, <2>2, <3>1 DEF Alone, Apart
    <3> QED BY <1>3, <3>1, <3>2, <3>3
  <2> QED BY <2>1, <2>2 DEF Alone, Watches
<1> QED BY <1>3, <1>7, <1>8, <1>9, <1>10

LEMMA PutPropIs ==
  ASSUME NEW st \in Writing, NEW r \in Requestor, NEW p \in Prop, NEW v \in Seq(Piece),
         NEW a, a = PutProp(st, r, p, v)
  PROVE  /\ a = [sends |-> st.sends, prop |-> a.prop, watch |-> st.watch,
                 retired |-> st.retired, grants |-> st.grants]
         /\ a \in Writing
         /\ \A x \in Requestor, y \in Prop : <<x, y>> # <<r, p>> => a.prop[x][y] = st.prop[x][y]
         /\ a.prop[r][p] = IF r \in alive THEN Value(v) ELSE st.prop[r][p]
<1>1. st = [sends |-> st.sends, prop |-> st.prop, watch |-> st.watch,
            retired |-> st.retired, grants |-> st.grants]
  BY DEF Writing
<1>2. Value(v) \in Property
  BY DEF Value, Property
<1>3. CASE r \notin alive
  <2>1. a = st
    BY <1>3 DEF PutProp
  <2> QED BY <1>1, <1>3, <2>1
<1>4. CASE r \in alive
  <2>1. a = [st EXCEPT !.prop[r][p] = Value(v)]
    BY <1>4 DEF PutProp
  <2>2. a.prop = [st.prop EXCEPT ![r][p] = Value(v)]
    BY <2>1 DEF Writing
  <2>3. a = [sends |-> st.sends, prop |-> a.prop, watch |-> st.watch,
             retired |-> st.retired, grants |-> st.grants]
    BY <2>1 DEF Writing
  <2>4. a.prop \in [Requestor -> [Prop -> Property]]
    BY <1>2, <2>2 DEF Writing
  <2>5. a \in Writing
    BY <2>3, <2>4 DEF Writing
  <2>6. /\ \A x \in Requestor, y \in Prop : <<x, y>> # <<r, p>> => a.prop[x][y] = st.prop[x][y]
        /\ a.prop[r][p] = Value(v)
    BY <2>2 DEF Writing
  <2> QED BY <1>4, <2>3, <2>5, <2>6
<1> QED BY <1>3, <1>4

\* An answer that is no transfer: what is in the property changes at most.
LEMMA GrantIs ==
  ASSUME NEW st \in Writing, NEW r \in Requestor, NEW p \in Prop, NEW granted \in BOOLEAN,
         NEW put \in Writing, NEW a, a = Grant(put, p, granted),
         put = [sends |-> st.sends, prop |-> put.prop, watch |-> st.watch,
                retired |-> st.retired, grants |-> st.grants],
         \A x \in Requestor, y \in Prop : <<x, y>> # <<r, p>> => put.prop[x][y] = st.prop[x][y],
         Clean(st.prop[r][p]) => Clean(put.prop[r][p]),
         r \in alive /\ granted =>
           put.prop[r][p].set /\ \E t \in Text : put.prop[r][p].val = Whole(t)
  PROVE  Wrote(st, a, r, p)
<1> DEFINE one == [prop |-> p, granted |-> granted]
<1>1. a = [put EXCEPT !.grants = Append(put.grants, one)]
  BY DEF Grant
<1> HIDE DEF one
<1>2. /\ a.sends = st.sends /\ a.prop = put.prop /\ a.watch = st.watch
      /\ a.retired = st.retired /\ a.grants = Append(st.grants, one)
      /\ a = [sends |-> a.sends, prop |-> a.prop, watch |-> a.watch,
              retired |-> a.retired, grants |-> a.grants]
  <2>1. a = [sends |-> st.sends, prop |-> put.prop, watch |-> st.watch,
             retired |-> st.retired, grants |-> Append(st.grants, one)]
    <3> DEFINE P == put.prop
    <3> HIDE DEF P
    <3>1. put = [sends |-> st.sends, prop |-> P, watch |-> st.watch,
                 retired |-> st.retired, grants |-> st.grants]
      BY DEF P
    <3>2. put.grants = st.grants
      BY <3>1, FieldsAre
    <3>3. a = [sends |-> st.sends, prop |-> P, watch |-> st.watch,
               retired |-> st.retired, grants |-> Append(st.grants, one)]
      BY <1>1, <3>1, <3>2, Zenon
    <3> QED BY <3>3 DEF P
  <2> DEFINE P == put.prop
             G == Append(st.grants, one)
  <2> HIDE DEF P, G
  <2>2. a = [sends |-> st.sends, prop |-> P, watch |-> st.watch,
             retired |-> st.retired, grants |-> G]
    BY <2>1 DEF P, G
  <2>3. /\ a.sends = st.sends /\ a.prop = P /\ a.watch = st.watch
        /\ a.retired = st.retired /\ a.grants = G
        /\ a = [sends |-> a.sends, prop |-> a.prop, watch |-> a.watch,
                retired |-> a.retired, grants |-> a.grants]
    BY <2>2, FieldsAre
  <2> QED BY <2>3 DEF P, G
<1> USE DEF one
<1>3. a \in Writing
  <2>1. Append(st.grants, [prop |-> p, granted |-> granted]) \in Seq(Reply)
    BY DEF Writing, Reply
  <2> QED BY <1>2, <2>1 DEF Writing
<1>4. \A x \in Requestor, y \in Prop : <<x, y>> # <<r, p>> => Spared(st, a, x, y)
  BY <1>2, SlotsSame DEF Spared
<1>5. ASSUME r \in alive, NoSlot(st.sends, r, p), Sound(st.sends, st.retired, r, p)
      PROVE  Sound(a.sends, a.retired, r, p) /\ Stands(a.sends, a.prop[r][p], r, p, granted)
  BY <1>2, <1>5 DEF Stands, NoSlot
<1> QED BY <1>2, <1>3, <1>4, <1>5 DEF Wrote

LEMMA StartIncrIs ==
  ASSUME NEW st \in Writing, NEW r \in Requestor, NEW p \in Prop, NEW i \in 1..Slots,
         ~st.sends[i].active, owned \in Large, NEW a, a = StartIncr(st, r, p, i)
  PROVE  Wrote(st, a, r, p)
<1> DEFINE put == PutProp(st, r, p, <<Incr>>)
           new == [active |-> TRUE, requestor |-> r, property |-> p,
                   text |-> owned, sent |-> 0, late |-> FALSE]
<1>1. <<Incr>> \in Seq(Piece)
  BY DEF Incr, Piece
<1>2. /\ put = [sends |-> st.sends, prop |-> put.prop, watch |-> st.watch,
                retired |-> st.retired, grants |-> st.grants]
      /\ put \in Writing
      /\ \A x \in Requestor, y \in Prop : <<x, y>> # <<r, p>> => put.prop[x][y] = st.prop[x][y]
      /\ put.prop[r][p] = IF r \in alive THEN Value(<<Incr>>) ELSE st.prop[r][p]
  <2> HIDE DEF put
  <2>1. put = PutProp(st, r, p, <<Incr>>)
    BY DEF put
  <2> DEFINE v == <<Incr>>
  <2> HIDE DEF v
  <2>2. v \in Seq(Piece) /\ put = PutProp(st, r, p, v)
    BY <1>1, <2>1 DEF v
  <2>3. /\ put = [sends |-> st.sends, prop |-> put.prop, watch |-> st.watch,
                  retired |-> st.retired, grants |-> st.grants]
        /\ put \in Writing
        /\ \A x \in Requestor, y \in Prop : <<x, y>> # <<r, p>> => put.prop[x][y] = st.prop[x][y]
        /\ put.prop[r][p] = IF r \in alive THEN Value(v) ELSE st.prop[r][p]
    BY <2>2, PutPropIs
  <2> QED BY <2>3 DEF v
<1>3. a = [put EXCEPT !.watch = @ \cup ({r} \cap alive), !.sends[i] = new,
                      !.retired = @ \ {<<r, p>>},
                      !.grants = Append(@, [prop |-> p, granted |-> TRUE])]
  BY DEF StartIncr
<1> DEFINE one == [prop |-> p, granted |-> TRUE]
<1> HIDE DEF put, one, new
<1>4. /\ a.sends = [st.sends EXCEPT ![i] = new] /\ a.prop = put.prop
      /\ a.watch = st.watch \cup ({r} \cap alive) /\ a.retired = st.retired \ {<<r, p>>}
      /\ a.grants = Append(st.grants, one)
      /\ a = [sends |-> a.sends, prop |-> a.prop, watch |-> a.watch,
              retired |-> a.retired, grants |-> a.grants]
  <2>1. /\ put.sends = st.sends /\ put.watch = st.watch /\ put.retired = st.retired
        /\ put.grants = st.grants
    <3> DEFINE P == put.prop
    <3> HIDE DEF P
    <3>1. put = [sends |-> st.sends, prop |-> P, watch |-> st.watch,
                 retired |-> st.retired, grants |-> st.grants]
      BY <1>2 DEF P
    <3> QED BY <3>1, FieldsAre
  <2>2. a = [put EXCEPT !.watch = put.watch \cup ({r} \cap alive),
                        !.sends = [put.sends EXCEPT ![i] = new],
                        !.retired = put.retired \ {<<r, p>>},
                        !.grants = Append(put.grants, one)]
    BY <1>3 DEF new, one
  <2>3. a = [sends |-> [st.sends EXCEPT ![i] = new], prop |-> put.prop,
             watch |-> st.watch \cup ({r} \cap alive), retired |-> st.retired \ {<<r, p>>},
             grants |-> Append(st.grants, one)]
    <3> DEFINE S == [st.sends EXCEPT ![i] = new]
               W == st.watch \cup ({r} \cap alive)
               R == st.retired \ {<<r, p>>}
               G == Append(st.grants, one)
    <3> HIDE DEF S, W, R, G
    <3>1. put = [sends |-> st.sends, prop |-> put.prop, watch |-> st.watch,
                 retired |-> st.retired, grants |-> st.grants]
      BY <1>2, <2>1, Zenon
    <3>2. a = [put EXCEPT !.watch = W, !.sends = S, !.retired = R, !.grants = G]
      BY <2>1, <2>2, Zenon DEF S, W, R, G
    <3>3. a = [sends |-> S, prop |-> put.prop, watch |-> W, retired |-> R, grants |-> G]
      BY <3>1, <3>2
    <3> QED BY <3>3 DEF S, W, R, G
  <2> DEFINE S == [st.sends EXCEPT ![i] = new]
             P == put.prop
             W == st.watch \cup ({r} \cap alive)
             R == st.retired \ {<<r, p>>}
             G == Append(st.grants, one)
  <2> HIDE DEF S, P, W, R, G
  <2>4. a = [sends |-> S, prop |-> P, watch |-> W, retired |-> R, grants |-> G]
    BY <2>3 DEF S, P, W, R, G
  <2>5. /\ a.sends = S /\ a.prop = P /\ a.watch = W /\ a.retired = R /\ a.grants = G
        /\ a = [sends |-> a.sends, prop |-> a.prop, watch |-> a.watch,
                retired |-> a.retired, grants |-> a.grants]
    BY <2>4, FieldsAre
  <2> QED BY <2>5 DEF S, P, W, R, G
<1> USE DEF new, one
<1>5. new \in Slot /\ Sending(new, r, p) /\ new.sent = 0 /\ new.active /\ new.requestor = r
  <2>1. new \in Busy
    BY OwnerAssumption DEF Busy
  <2> QED BY <2>1 DEF Slot, Sending
<1>6. \A x, y : Sending(new, x, y) => x = r /\ y = p
  BY DEF Sending
<1> HIDE DEF new
<1>7. \A j \in 1..Slots : a.sends[j] = IF j = i THEN new ELSE st.sends[j]
  BY <1>4 DEF Writing
<1>8. a \in Writing
  <2>1. Append(st.grants, [prop |-> p, granted |-> TRUE]) \in Seq(Reply)
    BY DEF Writing, Reply
  <2>2. a.sends \in [1..Slots -> Slot]
    BY <1>4, <1>5 DEF Writing
  <2>3. a.watch \in SUBSET Requestor /\ a.retired \in SUBSET (Requestor \X Prop)
    BY <1>4 DEF Writing
  <2>4. a.prop \in [Requestor -> [Prop -> Property]]
    BY <1>2, <1>4 DEF Writing
  <2> QED BY <1>4, <2>1, <2>2, <2>3, <2>4 DEF Writing
<1>9. ASSUME NEW x \in Requestor, NEW y \in Prop, <<x, y>> # <<r, p>>
      PROVE  Spared(st, a, x, y)
  <2>1. SlotsKept(st.sends, a.sends, x, y)
    BY <1>6, <1>7, <1>9 DEF SlotsKept
  <2>2. <<x, y>> \in a.retired => <<x, y>> \in st.retired
    BY <1>4
  <2> QED BY <1>2, <1>4, <1>9, <2>1, <2>2, SoundKept DEF Spared
<1>10. Clean(st.prop[r][p]) => Clean(a.prop[r][p])
  BY <1>2, <1>4 DEF Clean, Value
<1>11. ASSUME r \in alive, NoSlot(st.sends, r, p)
       PROVE  Sound(a.sends, a.retired, r, p) /\ Stands(a.sends, a.prop[r][p], r, p, TRUE)
  <2>1. \A j \in 1..Slots : Sending(a.sends[j], r, p) => j = i
    BY <1>7, <1>11 DEF NoSlot
  <2>2. Sound(a.sends, a.retired, r, p)
    BY <1>4, <2>1 DEF Sound, OneSlot
  <2>3. a.prop[r][p].set /\ a.prop[r][p].val = <<Incr>>
    BY <1>2, <1>4, <1>11 DEF Value
  <2>4. owned \in Text
    BY OwnerAssumption
  <2> QED BY <1>5, <1>7, <2>1, <2>2, <2>3, <2>4 DEF Stands
<1>12. ASSUME Alone(st.sends, st.watch), r \in Steady => Slotless(st.sends, r)
       PROVE  Alone(a.sends, a.watch)
  <2>1. Apart(a.sends, Steady)
    <3> SUFFICES ASSUME NEW j \in 1..Slots, NEW k \in 1..Slots,
                        a.sends[j].active, a.sends[k].active,
                        a.sends[j].requestor = a.sends[k].requestor,
                        a.sends[j].requestor \in Steady
                 PROVE  j = k
      BY DEF Apart
    <3>1. CASE j = i /\ k # i
      BY <1>5, <1>7, <1>12, <3>1 DEF Slotless
    <3>2. CASE j # i /\ k = i
      BY <1>5, <1>7, <1>12, <3>2 DEF Slotless
    <3>3. CASE j # i /\ k # i
      BY <1>7, <1>12, <3>3 DEF Alone, Apart
    <3> QED BY <3>1, <3>2, <3>3
  <2>2. Watches(a.sends, a.watch, Steady)
    <3>1. Steady \subseteq alive
      BY DEF Steady
    <3> QED BY <1>4, <1>5, <1>7, <1>12, <3>1 DEF Alone, Watches
  <2> QED BY <2>1, <2>2 DEF Alone
<1> QED BY <1>4, <1>8, <1>9, <1>10, <1>11, <1>12 DEF Wrote


\* An answer after the late transfers are retired.
LEMMA WroteAfter ==
  ASSUME NEW st \in Writing, NEW b \in Writing, NEW a, NEW r \in Requestor, NEW p \in Prop,
         b.prop = st.prop, b.grants = st.grants,
         \A x \in Requestor, y \in Prop : Spared(st, b, x, y),
         \A i \in 1..Slots : b.sends[i].active => b.sends[i] = st.sends[i],
         Alone(st.sends, st.watch) => Alone(b.sends, b.watch),
         Wrote(b, a, r, p)
  PROVE  Wrote(st, a, r, p)
<1>1. ASSUME NEW x \in Requestor, NEW y \in Prop, <<x, y>> # <<r, p>>
      PROVE  Spared(st, a, x, y)
  <2>1. Spared(st, b, x, y) /\ Spared(b, a, x, y)
    BY <1>1 DEF Wrote
  <2> QED BY <2>1 DEF Spared, SlotsKept
<1>2. PICK granted \in BOOLEAN :
        /\ a.grants = Append(b.grants, [prop |-> p, granted |-> granted])
        /\ r \in alive /\ NoSlot(b.sends, r, p) /\ Sound(b.sends, b.retired, r, p) =>
             /\ Sound(a.sends, a.retired, r, p)
             /\ Stands(a.sends, a.prop[r][p], r, p, granted)
  BY DEF Wrote
<1>3. /\ NoSlot(st.sends, r, p) => NoSlot(b.sends, r, p)
      /\ Sound(st.sends, st.retired, r, p) => Sound(b.sends, b.retired, r, p)
  BY DEF Spared, SlotsKept, NoSlot
<1>4. Slotless(st.sends, r) => Slotless(b.sends, r)
  BY DEF Slotless
<1> QED BY <1>1, <1>2, <1>3, <1>4 DEF Wrote

LEMMA LeastSlot ==
  ASSUME NEW T \in SUBSET (1..Slots), T # {}
  PROVE  \E i \in T : \A j \in T : i <= j
<1> DEFINE R == OpToRel(<, Nat)
<1>1. IsWellFoundedOn(R, Nat)
  BY NatLessThanWellFounded
<1>2. T \subseteq Nat
  BY OwnerAssumption
<1>3. PICK m \in T : \A y \in T : ~(<<y, m>> \in R)
  <2> HIDE DEF R
  <2>1. \E x \in T : \A y \in T : ~(<<y, x>> \in R)
    BY <1>1, <1>2, WFMin
  <2> QED BY <2>1
<1>4. \A y \in T : ~(y < m)
  BY <1>2, <1>3 DEF OpToRel
<1> HIDE DEF R
<1> QED BY <1>2, <1>4

LEMMA WriteTargetWrites ==
  ASSUME owned \in Text \cup {NoText},
         NEW st \in Writing, NEW r \in Requestor, NEW p \in Prop, NEW a, a = WriteTarget(st, r, p)
  PROVE  Wrote(st, a, r, p)
<1>1. CASE owned = NoText
  <2>1. a = Grant(st, p, FALSE)
    BY <1>1 DEF WriteTarget
  <2>2. st = [sends |-> st.sends, prop |-> st.prop, watch |-> st.watch,
              retired |-> st.retired, grants |-> st.grants]
    BY DEF Writing
  <2> QED BY <2>1, <2>2, GrantIs
<1>2. CASE owned # NoText /\ owned \notin Large
  <2> DEFINE v == Whole(owned)
             put == PutProp(st, r, p, v)
  <2>1. owned \in Text
    BY <1>2
  <2>2. v \in Seq(Piece) /\ a = Grant(put, p, TRUE)
    BY <1>2, <2>1, WholeIs DEF WriteTarget
  <2> HIDE DEF v
  <2>3. PICK q : q = put
    OBVIOUS
  <2> HIDE DEF put
  <2>4. /\ q = [sends |-> st.sends, prop |-> q.prop, watch |-> st.watch,
                retired |-> st.retired, grants |-> st.grants]
        /\ q \in Writing
        /\ \A x \in Requestor, y \in Prop : <<x, y>> # <<r, p>> => q.prop[x][y] = st.prop[x][y]
        /\ q.prop[r][p] = IF r \in alive THEN Value(v) ELSE st.prop[r][p]
    BY <2>2, <2>3, PutPropIs DEF put
  <2>5. Clean(st.prop[r][p]) => Clean(q.prop[r][p])
    BY <2>4 DEF Clean, Value
  <2>6. r \in alive => q.prop[r][p].set /\ \E t \in Text : q.prop[r][p].val = Whole(t)
    BY <2>1, <2>4 DEF Value, v
  <2>7. a = Grant(q, p, TRUE)
    BY <2>2, <2>3
  <2> QED BY <2>4, <2>5, <2>6, <2>7, GrantIs
<1>3. CASE owned # NoText /\ owned \in Large
  <2> DEFINE freed == RetireLate(st)
             free == {i \in 1..Slots : ~freed.sends[i].active}
  <2>1. PICK b : b = freed
    OBVIOUS
  <2>2. /\ b \in Writing /\ b.prop = st.prop /\ b.grants = st.grants
        /\ \A x \in Requestor, y \in Prop : Spared(st, b, x, y)
        /\ \A i \in 1..Slots : b.sends[i].active => b.sends[i] = st.sends[i]
        /\ Alone(st.sends, st.watch) => Alone(b.sends, b.watch)
    BY <2>1, RetireLateIs
  <2>3. CASE free = {}
    <3>1. a = Grant(b, p, FALSE)
      BY <1>3, <2>1, <2>3 DEF WriteTarget
    <3>2. b = [sends |-> b.sends, prop |-> b.prop, watch |-> b.watch,
               retired |-> b.retired, grants |-> b.grants]
      BY <2>2 DEF Writing
    <3>3. Wrote(b, a, r, p)
      BY <2>2, <3>1, <3>2, GrantIs
    <3> QED BY <2>2, <3>3, WroteAfter
  <2>4. CASE free # {}
    <3> DEFINE i == CHOOSE k \in free : \A j \in free : k <= j
    <3>1. \E k \in free : \A j \in free : k <= j
      BY <2>4, LeastSlot
    <3>2. i \in free
      BY <3>1
    <3>3. a = StartIncr(b, r, p, i)
      BY <1>3, <2>1, <2>4 DEF WriteTarget
    <3> HIDE DEF i
    <3>4. i \in 1..Slots /\ ~b.sends[i].active
      BY <2>1, <3>2
    <3>5. Wrote(b, a, r, p)
      BY <1>3, <2>2, <3>3, <3>4, StartIncrIs
    <3> QED BY <2>2, <3>5, WroteAfter
  <2> QED BY <2>3, <2>4
<1> QED BY <1>1, <1>2, <1>3

-----------------------------------------------------------------------------
(* The answers to one request: the fold over its properties, unrolled *)

LEMMA MaxIs ==
  ASSUME NEW m \in Nat, NEW S \in SUBSET (1..m), m \in S
  PROVE  Max(S) = m
<1> DEFINE Top(x) == \A y \in S : x >= y
<1>1. m \in S /\ Top(m)
  OBVIOUS
<1>2. \E x \in S : Top(x)
  BY <1>1
<1> HIDE DEF Top
<1>3. (CHOOSE x \in S : Top(x)) \in S /\ Top(CHOOSE x \in S : Top(x))
  BY <1>2
<1> DEFINE x == CHOOSE z \in S : Top(z)
<1>4. Max(S) = x
  BY Zenon DEF Max, Top
<1>5. x \in S /\ Top(x)
  BY <1>3
<1> HIDE DEF x
<1>6. x >= m /\ x \in 1..m
  BY <1>1, <1>5 DEF Top
<1> QED BY <1>4, <1>6

\* The function the fold defines by recursion on subsets of 1..n.
Iterated(g, r, base, ps, n) ==
  g = [s \in SUBSET (1..n) |->
         IF s = {} THEN base ELSE WriteTarget(g[s \ {Max(s)}], r, ps[Max(s)])]

Iteration(r, base, ps, n) == CHOOSE g : Iterated(g, r, base, ps, n)

LEMMA Iterates ==
  ASSUME NEW r, NEW base, NEW ps, NEW n \in Nat
  PROVE  \E g : Iterated(g, r, base, ps, n)
<1> DEFINE Good(m, g) == Iterated(g, r, base, ps, m)
           N == {m \in Nat : \E g : Good(m, g)}
<1>1. 0 \in N
  <2> DEFINE g == [s \in SUBSET (1..0) |-> base]
  <2>1. \A s \in SUBSET (1..0) : s = {}
    OBVIOUS
  <2>2. Good(0, g)
    BY <2>1 DEF Iterated
  <2> HIDE DEF g, Good
  <2> QED BY <2>2
<1>2. ASSUME NEW m \in N PROVE m + 1 \in N
  <2>1. PICK g : Good(m, g)
    OBVIOUS
  <2> DEFINE h == [s \in SUBSET (1..(m + 1)) |->
               IF m + 1 \in s THEN WriteTarget(g[s \ {m + 1}], r, ps[m + 1]) ELSE g[s]]
  <2>2. m \in Nat /\ \A s \in SUBSET (1..m) : s \in SUBSET (1..(m + 1)) /\ m + 1 \notin s
    OBVIOUS
  <2>3. \A s \in SUBSET (1..m) : h[s] = g[s]
    BY <2>2
  <2>4. ASSUME NEW s \in SUBSET (1..(m + 1))
        PROVE  h[s] = IF s = {} THEN base
                      ELSE WriteTarget(h[s \ {Max(s)}], r, ps[Max(s)])
    <3>1. CASE m + 1 \in s
      <4>1. Max(s) = m + 1
        <5>1. m + 1 \in Nat
          BY <2>2
        <5> HIDE DEF h
        <5> QED BY <3>1, <5>1, MaxIs
      <4>2. s \ {m + 1} \in SUBSET (1..m)
        BY <2>2
      <4>3. h[s \ {m + 1}] = g[s \ {m + 1}]
        BY <2>3, <4>2
      <4>4. h[s] = WriteTarget(g[s \ {m + 1}], r, ps[m + 1])
        BY <3>1
      <4> HIDE DEF h
      <4> QED BY <3>1, <4>1, <4>3, <4>4
    <3>2. CASE m + 1 \notin s
      <4> DEFINE x == Max(s)
      <4>1. s \in SUBSET (1..m)
        BY <2>2, <3>2
      <4> HIDE DEF x
      <4>2. s \ {x} \in SUBSET (1..m)
        BY <4>1
      <4>3. h[s] = g[s] /\ h[s \ {x}] = g[s \ {x}]
        BY <2>3, <4>1, <4>2
      <4>4. g[s] = IF s = {} THEN base ELSE WriteTarget(g[s \ {x}], r, ps[x])
        BY <2>1, <4>1 DEF x, Iterated
      <4> HIDE DEF h
      <4> QED BY <4>3, <4>4 DEF x
    <3> QED BY <3>1, <3>2
  <2>5. h = [s \in DOMAIN h |-> h[s]] /\ DOMAIN h = SUBSET (1..(m + 1))
    OBVIOUS
  <2> HIDE DEF h
  <2>6. Good(m + 1, h)
    BY <2>4, <2>5 DEF Iterated
  <2> HIDE DEF Good
  <2> QED BY <2>2, <2>6
<1> HIDE DEF Good
<1>3. N = Nat
  <2> DEFINE M == N
  <2>1. M \in SUBSET Nat /\ 0 \in M /\ \A k \in M : k + 1 \in M
    BY <1>1, <1>2
  <2> HIDE DEF M
  <2>2. M = Nat
    BY <2>1, Numbers
  <2> QED BY <2>2 DEF M
<1>4. \E g : Good(n, g)
  BY <1>3
<1> QED BY <1>4 DEF Good

LEMMA FoldIs ==
  ASSUME NEW r, NEW base, NEW ps, NEW n, DOMAIN ps = 1..n, NEW a,
         a = FoldLeft(LAMBDA st, p : WriteTarget(st, r, p), base, ps)
  PROVE  a = Iteration(r, base, ps, n)[1..n]
BY Zenon DEF FoldLeft, MapThenFoldSet, Iterated, Iteration

\* f[k] is the state after k answers.
LEMMA AnswersInTurn ==
  ASSUME NEW r, NEW base, NEW ps, NEW n \in Nat
  PROVE  \E f : /\ f[0] = base
                /\ f[n] = Iteration(r, base, ps, n)[1..n]
                /\ \A k \in Nat : k < n => f[k + 1] = WriteTarget(f[k], r, ps[k + 1])
<1> DEFINE g == Iteration(r, base, ps, n)
           f == [k \in 0..n |-> g[1..k]]
<1>1. Iterated(g, r, base, ps, n)
  BY Iterates DEF Iteration
<1> HIDE DEF g
<1>2. \A s \in SUBSET (1..n) :
        g[s] = IF s = {} THEN base ELSE WriteTarget(g[s \ {Max(s)}], r, ps[Max(s)])
  BY <1>1 DEF Iterated
<1>3. f[0] = base
  <2>1. 1..0 = {} /\ {} \in SUBSET (1..n)
    OBVIOUS
  <2>2. g[{}] = base
    BY <1>2, <2>1
  <2> QED BY <2>1, <2>2
<1>4. ASSUME NEW k \in Nat, k < n PROVE f[k + 1] = WriteTarget(f[k], r, ps[k + 1])
  <2> DEFINE s == 1..(k + 1)
  <2>1. s \in SUBSET (1..n) /\ s # {} /\ s \ {k + 1} = 1..k
    BY <1>4
  <2>2. Max(s) = k + 1
    <3>1. k + 1 \in Nat /\ s \in SUBSET (1..(k + 1)) /\ k + 1 \in s
      OBVIOUS
    <3> HIDE DEF s
    <3> QED BY <3>1, MaxIs
  <2>3. g[s] = WriteTarget(g[1..k], r, ps[k + 1])
    <3> HIDE DEF s
    <3>1. g[s] = WriteTarget(g[s \ {Max(s)}], r, ps[Max(s)])
      BY <1>2, <2>1
    <3> QED BY <2>1, <2>2, <3>1
  <2>4. k \in 0..n /\ k + 1 \in 0..n
    BY <1>4
  <2> QED BY <2>3, <2>4
<1>5. f[n] = g[1..n]
  OBVIOUS
<1> HIDE DEF f
<1> QED BY <1>3, <1>4, <1>5 DEF g

-----------------------------------------------------------------------------
(* The answers to one request: nack__xcb_handle_selection_request *)

LEMMA SparedAfter ==
  ASSUME NEW st, NEW b, NEW a, NEW x, NEW y, Spared(st, b, x, y), Spared(b, a, x, y)
  PROVE  Spared(st, a, x, y)
BY DEF Spared, SlotsKept

LEMMA SparedSlot ==
  ASSUME NEW st, NEW a, NEW x, NEW y, Spared(st, a, x, y)
  PROVE  /\ NoSlot(st.sends, x, y) => NoSlot(a.sends, x, y)
         /\ Sound(st.sends, st.retired, x, y) => Sound(a.sends, a.retired, x, y)
         /\ \A granted \in BOOLEAN :
              Stands(st.sends, st.prop[x][y], x, y, granted) =>
                Stands(a.sends, a.prop[x][y], x, y, granted)
BY DEF Spared, SlotsKept, NoSlot, Stands

\* Once k of the properties are answered.
Served(base, a, r, ps, k) ==
  /\ a \in Writing
  /\ Len(a.grants) = k /\ \A m \in 1..k : a.grants[m].prop = ps[m]
  /\ \A x \in Requestor, y \in Prop : Clean(base.prop[x][y]) => Clean(a.prop[x][y])
  /\ \A x \in Requestor, y \in Prop :
       ~(x = r /\ \E m \in 1..k : ps[m] = y) => Spared(base, a, x, y)
  /\ \A m \in 1..k :
       r \in alive /\ NoSlot(base.sends, r, ps[m]) /\ Sound(base.sends, base.retired, r, ps[m]) =>
         /\ Sound(a.sends, a.retired, r, ps[m])
         /\ Stands(a.sends, a.prop[r][ps[m]], r, ps[m], a.grants[m].granted)
  /\ r \notin Steady /\ Alone(base.sends, base.watch) => Alone(a.sends, a.watch)

LEMMA NoneServed ==
  ASSUME NEW base \in Writing, base.grants = << >>, NEW r \in Requestor, NEW ps
  PROVE  Served(base, base, r, ps, 0)
<1>1. \A x \in Requestor, y \in Prop : Spared(base, base, x, y)
  BY SlotsSame DEF Spared
<1>2. Len(base.grants) = 0 /\ 1..0 = {}
  OBVIOUS
<1> QED BY <1>1, <1>2 DEF Served

LEMMA OneMoreServed ==
  ASSUME NEW base \in Writing, NEW r \in Requestor, NEW ps \in Seq(Prop), IsInjective(ps),
         NEW k \in Nat, k < Len(ps), NEW b, NEW a,
         Served(base, b, r, ps, k), Wrote(b, a, r, ps[k + 1])
  PROVE  Served(base, a, r, ps, k + 1)
<1> DEFINE p == ps[k + 1]
<1>1. k + 1 \in 1..Len(ps) /\ p \in Prop /\ \A m \in 1..k : m \in 1..Len(ps) /\ ps[m] \in Prop
  OBVIOUS
<1>2. \A m \in 1..k : ps[m] # p
  BY <1>1 DEF IsInjective
<1> HIDE DEF p
<1>3. /\ b \in Writing /\ a \in Writing
      /\ \A x \in Requestor, y \in Prop : <<x, y>> # <<r, p>> => Spared(b, a, x, y)
      /\ Clean(b.prop[r][p]) => Clean(a.prop[r][p])
  BY DEF Wrote, Served, p
<1>4. PICK granted \in BOOLEAN :
        /\ a.grants = Append(b.grants, [prop |-> p, granted |-> granted])
        /\ r \in alive /\ NoSlot(b.sends, r, p) /\ Sound(b.sends, b.retired, r, p) =>
             /\ Sound(a.sends, a.retired, r, p)
             /\ Stands(a.sends, a.prop[r][p], r, p, granted)
  BY DEF Wrote, p
<1>5. /\ Len(b.grants) = k /\ b.grants \in Seq(Reply)
      /\ \A m \in 1..k : b.grants[m].prop = ps[m] /\ b.grants[m] \in Reply
  BY <1>3 DEF Served, Writing
<1>6. /\ Len(a.grants) = k + 1
      /\ \A m \in 1..k : a.grants[m] = b.grants[m]
      /\ a.grants[k + 1].prop = p /\ a.grants[k + 1].granted = granted
  <2> DEFINE e == [prop |-> p, granted |-> granted]
             q == b.grants
  <2>1. e.prop = p /\ e.granted = granted /\ e \in Reply
    BY <1>1 DEF Reply, p
  <2> HIDE DEF e, q
  <2>2. q \in Seq(Reply) /\ Len(q) = k /\ a.grants = Append(q, e)
    BY <1>4, <1>5 DEF e, q
  <2>3. /\ Len(a.grants) = k + 1 /\ \A m \in 1..k : a.grants[m] = q[m]
        /\ a.grants[k + 1] = e
    BY <2>1, <2>2
  <2> QED BY <2>1, <2>3 DEF q
<1>7. /\ \A x \in Requestor, y \in Prop : Clean(base.prop[x][y]) => Clean(b.prop[x][y])
      /\ \A x \in Requestor, y \in Prop :
           ~(x = r /\ \E m \in 1..k : ps[m] = y) => Spared(base, b, x, y)
  BY DEF Served
<1>8. \A m \in 1..(k + 1) : m \in 1..k \/ m = k + 1
  OBVIOUS
<1>9. \A m \in 1..(k + 1) : a.grants[m].prop = ps[m]
  BY <1>5, <1>6, <1>8 DEF p
<1>10. \A x \in Requestor, y \in Prop : Clean(base.prop[x][y]) => Clean(a.prop[x][y])
  <2>1. \A x \in Requestor, y \in Prop : Clean(b.prop[x][y]) => Clean(a.prop[x][y])
    BY <1>3 DEF Spared
  <2> QED BY <1>7, <2>1
<1>11. ASSUME NEW x \in Requestor, NEW y \in Prop, ~(x = r /\ \E m \in 1..(k + 1) : ps[m] = y)
       PROVE  Spared(base, a, x, y)
  <2>1. k + 1 \in 1..(k + 1) /\ \A m \in 1..k : m \in 1..(k + 1)
    OBVIOUS
  <2>2. Spared(base, b, x, y) /\ Spared(b, a, x, y)
    BY <1>3, <1>7, <1>11, <2>1 DEF p
  <2> QED BY <2>2, SparedAfter
<1>12. ASSUME NEW m \in 1..(k + 1), r \in alive, NoSlot(base.sends, r, ps[m]),
              Sound(base.sends, base.retired, r, ps[m])
       PROVE  /\ Sound(a.sends, a.retired, r, ps[m])
              /\ Stands(a.sends, a.prop[r][ps[m]], r, ps[m], a.grants[m].granted)
  <2>1. CASE m = k + 1
    <3>1. Spared(base, b, r, p)
      BY <1>1, <1>2, <1>7 DEF p
    <3>2. NoSlot(b.sends, r, p) /\ Sound(b.sends, b.retired, r, p)
      BY <1>12, <2>1, <3>1, SparedSlot DEF p
    <3> QED BY <1>4, <1>6, <1>12, <2>1, <3>2 DEF p
  <2>2. CASE m \in 1..k
    <3>1. /\ Sound(b.sends, b.retired, r, ps[m])
          /\ Stands(b.sends, b.prop[r][ps[m]], r, ps[m], b.grants[m].granted)
      BY <1>12, <2>2 DEF Served
    <3>2. Spared(b, a, r, ps[m])
      BY <1>1, <1>2, <1>3, <2>2
    <3>3. b.grants[m].granted \in BOOLEAN
      BY <1>5, <2>2 DEF Reply
    <3>4. /\ Sound(a.sends, a.retired, r, ps[m])
          /\ Stands(a.sends, a.prop[r][ps[m]], r, ps[m], b.grants[m].granted)
      BY <3>1, <3>2, <3>3, SparedSlot
    <3> QED BY <1>6, <2>2, <3>4
  <2> QED BY <1>8, <2>1, <2>2
<1>13. r \notin Steady /\ Alone(base.sends, base.watch) => Alone(a.sends, a.watch)
  BY DEF Served, Wrote
<1> QED BY <1>3, <1>6, <1>9, <1>10, <1>11, <1>12, <1>13 DEF Served

LEMMA AllServed ==
  ASSUME owned \in Text \cup {NoText}, NEW base \in Writing, base.grants = << >>,
         NEW r \in Requestor, NEW ps \in Seq(Prop), IsInjective(ps), NEW f, f[0] = base,
         \A k \in Nat : k < Len(ps) => f[k + 1] = WriteTarget(f[k], r, ps[k + 1])
  PROVE  Served(base, f[Len(ps)], r, ps, Len(ps))
<1> DEFINE N == {k \in Nat : k <= Len(ps) => Served(base, f[k], r, ps, k)}
<1>1. 0 \in N
  BY NoneServed
<1>2. ASSUME NEW k \in N PROVE k + 1 \in N
  <2>1. k \in Nat /\ k + 1 \in Nat
    OBVIOUS
  <2> SUFFICES ASSUME k + 1 <= Len(ps) PROVE Served(base, f[k + 1], r, ps, k + 1)
    BY <2>1
  <2>2. k < Len(ps) /\ Len(ps) \in Nat
    BY <2>1
  <2>3. Served(base, f[k], r, ps, k)
    BY <2>2
  <2> DEFINE b == f[k]
             a == f[k + 1]
             p == ps[k + 1]
  <2>4. p \in Prop
    BY <2>1, <2>2
  <2>5. a = WriteTarget(b, r, p) /\ b \in Writing
    BY <2>1, <2>2, <2>3 DEF Served
  <2> HIDE DEF a, b, p
  <2>6. Wrote(b, a, r, p)
    BY <2>4, <2>5, WriteTargetWrites
  <2>7. Served(base, b, r, ps, k) /\ Wrote(b, a, r, ps[k + 1])
    BY <2>3, <2>6 DEF b, p
  <2>8. Served(base, a, r, ps, k + 1)
    BY <2>1, <2>2, <2>7, OneMoreServed
  <2> QED BY <2>8 DEF a
<1>3. N = Nat
  <2> DEFINE M == N
  <2>1. M \in SUBSET Nat /\ 0 \in M /\ \A k \in M : k + 1 \in M
    BY <1>1, <1>2
  <2> HIDE DEF M
  <2>2. M = Nat
    BY <2>1, Numbers
  <2> QED BY <2>2 DEF M
<1>4. Len(ps) \in N /\ Len(ps) <= Len(ps)
  BY <1>3
<1> QED BY <1>4

LEMMA ZeroOrOne == \A n \in Nat : n <= 1 => n = 0 \/ n = 1
OBVIOUS

\* A single answer leaves a requestor without slots with one at most.
LEMMA OneServed ==
  ASSUME owned \in Text \cup {NoText}, NEW base \in Writing,
         NEW r \in Requestor, NEW ps \in Seq(Prop), Len(ps) <= 1, NEW f, f[0] = base,
         \A k \in Nat : k < Len(ps) => f[k + 1] = WriteTarget(f[k], r, ps[k + 1]),
         Alone(base.sends, base.watch), r \in Steady => Slotless(base.sends, r)
  PROVE  Alone(f[Len(ps)].sends, f[Len(ps)].watch)
<1>1. CASE Len(ps) = 0
  BY <1>1
<1>2. CASE Len(ps) = 1
  <2> DEFINE a == f[1]
             p == ps[1]
  <2>1. p \in Prop /\ a = WriteTarget(base, r, p)
    <3>1. 1 \in 1..Len(ps) /\ 0 < Len(ps) /\ 0 \in Nat /\ 0 + 1 = 1
      BY <1>2
    <3>2. f[0 + 1] = WriteTarget(f[0], r, ps[0 + 1])
      BY <3>1
    <3> QED BY <3>1, <3>2
  <2> HIDE DEF a, p
  <2>2. Wrote(base, a, r, p)
    BY <2>1, WriteTargetWrites
  <2>3. Alone(a.sends, a.watch)
    BY <2>2 DEF Wrote
  <2> QED BY <1>2, <2>3 DEF a
<1>3. Len(ps) \in Nat
  OBVIOUS
<1>4. Len(ps) = 0 \/ Len(ps) = 1
  BY <1>3, ZeroOrOne, Zenon
<1> QED BY <1>1, <1>2, <1>4, Zenon

LEMMA RequestServed ==
  ASSUME Types, NEW e \in Event, e.type = "REQUEST", HandleSelectionRequest(e)
  PROVE  \E after \in Writing :
    /\ sends' = after.sends /\ prop' = after.prop /\ watch' = after.watch
    /\ retired' = after.retired /\ owned' = owned
    /\ replies' = IF e.win \in alive THEN [replies EXCEPT ![e.win] = @ \o after.grants] ELSE replies
    /\ \A x \in Requestor, y \in Prop : Clean(prop[x][y]) => Clean(after.prop[x][y])
    /\ \A x \in Requestor, y \in Prop : ~AsksFor(e, x, y) =>
         /\ after.prop[x][y] = prop[x][y]
         /\ SlotsKept(sends, after.sends, x, y)
         /\ Sound(sends, retired, x, y) => Sound(after.sends, after.retired, x, y)
         /\ x = e.win => NoAnswer(after.grants, y)
    /\ \A x \in Requestor, y \in Prop :
         AsksFor(e, x, y) /\ x \in alive /\ NoSlot(sends, x, y) /\ Sound(sends, retired, x, y) =>
           /\ x = e.win /\ Sound(after.sends, after.retired, x, y)
           /\ \E granted \in BOOLEAN :
                OneAnswer(after.grants, y, granted)
                /\ Stands(after.sends, after.prop[x][y], x, y, granted)
    /\ /\ Alone(sends, watch)
       /\ e.win \in Steady /\ e.props # << >> => Len(e.props) = 1 /\ Slotless(sends, e.win)
       => Alone(after.sends, after.watch)
<1> DEFINE base == [sends |-> sends, prop |-> prop, watch |-> watch,
                    retired |-> retired, grants |-> << >>]
           r == e.win
           ps == e.props
           n == Len(ps)
           last == Iteration(r, base, ps, n)[1..n]
<1>1. r \in Requestor /\ ps \in Seq(Prop) /\ IsInjective(ps)
  BY EventIs
<1>2. base \in Writing
  BY DEF Types, Writing
<1>3. /\ base.sends = sends /\ base.prop = prop /\ base.watch = watch
      /\ base.retired = retired /\ base.grants = << >>
  OBVIOUS
<1>4. n \in Nat /\ DOMAIN ps = 1..n
  BY <1>1
<1>5. PICK after : /\ after = FoldLeft(LAMBDA st, p : WriteTarget(st, e.win, p), base, ps)
                   /\ sends' = after.sends /\ prop' = after.prop /\ watch' = after.watch
                   /\ retired' = after.retired /\ owned' = owned
                   /\ replies' = IF r \in alive THEN [replies EXCEPT ![r] = @ \o after.grants]
                                 ELSE replies
  BY Zenon DEF HandleSelectionRequest
<1> HIDE DEF base, r, ps, n
<1>6. after = last
  <2>1. after = FoldLeft(LAMBDA st, p : WriteTarget(st, r, p), base, ps)
    BY <1>5, Zenon DEF r
  <2> QED BY <1>4, <2>1, FoldIs, Zenon
<1>7. /\ sends' = after.sends /\ prop' = after.prop /\ watch' = after.watch
      /\ retired' = after.retired /\ owned' = owned
      /\ replies' = IF r \in alive THEN [replies EXCEPT ![r] = @ \o after.grants] ELSE replies
  BY <1>5, Zenon
<1>8. PICK f : /\ f[0] = base /\ f[n] = after
               /\ \A k \in Nat : k < n => f[k + 1] = WriteTarget(f[k], r, ps[k + 1])
  <2>1. \E f : /\ f[0] = base /\ f[n] = last
               /\ \A k \in Nat : k < n => f[k + 1] = WriteTarget(f[k], r, ps[k + 1])
    BY <1>4, AnswersInTurn
  <2> HIDE DEF last
  <2> QED BY <1>6, <2>1
<1> HIDE DEF last
<1>9. owned \in Text \cup {NoText}
  BY DEF Types
<1>10. Served(base, after, r, ps, n)
  <2>1. Served(base, f[Len(ps)], r, ps, Len(ps))
    BY <1>1, <1>2, <1>3, <1>8, <1>9, AllServed DEF n
  <2> QED BY <1>8, <2>1 DEF n
<1>11. ASSUME Alone(sends, watch), r \in Steady /\ ps # << >> => Len(ps) = 1 /\ Slotless(sends, r)
       PROVE  Alone(after.sends, after.watch)
  <2>1. Alone(base.sends, base.watch)
    BY <1>3, <1>11
  <2>2. CASE r \notin Steady
    BY <1>10, <2>1, <2>2 DEF Served
  <2>3. CASE ps = << >>
    <3>1. n = 0
      BY <2>3 DEF n
    <3> QED BY <1>8, <2>1, <3>1
  <2>4. CASE r \in Steady /\ ps # << >>
    <3>1. Len(ps) <= 1 /\ Slotless(base.sends, r)
      <4>1. Len(ps) = 1 /\ Slotless(sends, r)
        BY <1>11, <2>4
      <4>2. 1 <= 1
        OBVIOUS
      <4> QED BY <1>3, <4>1, <4>2, Zenon
    <3>2. Alone(f[Len(ps)].sends, f[Len(ps)].watch)
      BY <1>1, <1>2, <1>8, <1>9, <2>1, <3>1, OneServed DEF n
    <3> QED BY <1>8, <3>2 DEF n
  <2> QED BY <2>2, <2>3, <2>4
<1>12. /\ after \in Writing /\ after.grants \in Seq(Reply)
       /\ Len(after.grants) = n /\ \A m \in 1..n : after.grants[m].prop = ps[m]
       /\ \A x \in Requestor, y \in Prop : Clean(prop[x][y]) => Clean(after.prop[x][y])
       /\ \A x \in Requestor, y \in Prop :
            ~(x = r /\ \E m \in 1..n : ps[m] = y) => Spared(base, after, x, y)
       /\ \A m \in 1..n :
            r \in alive /\ NoSlot(sends, r, ps[m]) /\ Sound(sends, retired, r, ps[m]) =>
              /\ Sound(after.sends, after.retired, r, ps[m])
              /\ Stands(after.sends, after.prop[r][ps[m]], r, ps[m], after.grants[m].granted)
  BY <1>3, <1>10 DEF Served, Writing
<1>13. \A x, y : AsksFor(e, x, y) <=> x = r /\ \E m \in 1..n : ps[m] = y
  BY DEF AsksFor, r, ps, n
<1>14. ASSUME NEW x \in Requestor, NEW y \in Prop, ~AsksFor(e, x, y)
       PROVE  /\ after.prop[x][y] = prop[x][y]
              /\ SlotsKept(sends, after.sends, x, y)
              /\ Sound(sends, retired, x, y) => Sound(after.sends, after.retired, x, y)
              /\ x = r => NoAnswer(after.grants, y)
  <2>1. Spared(base, after, x, y)
    BY <1>12, <1>13, <1>14
  <2>2. x = r => NoAnswer(after.grants, y)
    BY <1>12, <1>13, <1>14 DEF NoAnswer
  <2> QED BY <1>3, <2>1, <2>2 DEF Spared
<1>15. ASSUME NEW x \in Requestor, NEW y \in Prop, AsksFor(e, x, y), x \in alive,
              NoSlot(sends, x, y), Sound(sends, retired, x, y)
       PROVE  /\ x = r /\ Sound(after.sends, after.retired, x, y)
              /\ \E granted \in BOOLEAN :
                   OneAnswer(after.grants, y, granted)
                   /\ Stands(after.sends, after.prop[x][y], x, y, granted)
  <2>1. x = r
    BY <1>13, <1>15
  <2>2. PICK m \in 1..n : ps[m] = y
    BY <1>13, <1>15
  <2>3. /\ Sound(after.sends, after.retired, x, y)
        /\ Stands(after.sends, after.prop[x][y], x, y, after.grants[m].granted)
    BY <1>12, <1>15, <2>1, <2>2
  <2>4. m \in 1..Len(after.grants) /\ after.grants[m] \in Reply
    BY <1>12
  <2>5. after.grants[m].granted \in BOOLEAN
    BY <2>4 DEF Reply
  <2>6. \A b \in 1..n : ps[b] = y => b = m
    BY <1>1, <1>4, <2>2 DEF IsInjective
  <2>7. OneAnswer(after.grants, y, after.grants[m].granted)
    BY <1>12, <2>2, <2>6 DEF OneAnswer
  <2> QED BY <2>1, <2>3, <2>5, <2>7
<1> QED BY <1>7, <1>11, <1>12, <1>14, <1>15 DEF r, ps

-----------------------------------------------------------------------------
(* What goes on the wire *)

LEMMA SetToSeqIs ==
  ASSUME NEW S, IsFiniteSet(S), NEW q, q = SetToSeq(S)
  PROVE  /\ Cardinality(S) \in Nat /\ q \in [1..Cardinality(S) -> S] /\ IsInjective(q)
         /\ \A x \in S : \E k \in 1..Cardinality(S) : q[k] = x
<1> DEFINE n == Cardinality(S)
<1>1. n \in Nat /\ ExistsBijection(1..n, S)
  BY FS_CardinalityType
<1> HIDE DEF n
<1>2. \E f \in [1..n -> S] : IsInjective(f)
  BY <1>1 DEF ExistsBijection, Bijection, Injection
<1>3. q = CHOOSE f \in [1..n -> S] : IsInjective(f)
  BY Zenon DEF SetToSeq, n
<1>4. q \in [1..n -> S] /\ IsInjective(q)
  <2> DEFINE Good(f) == IsInjective(f)
  <2>1. (\E f \in [1..n -> S] : Good(f)) /\ q = CHOOSE f \in [1..n -> S] : Good(f)
    BY <1>2, <1>3, Zenon
  <2> HIDE DEF Good
  <2>2. q \in [1..n -> S] /\ Good(q)
    BY <2>1
  <2> QED BY <2>2 DEF Good
<1>5. q \in Surjection(1..n, S)
  <2>1. q \in Injection(1..n, S)
    BY <1>4 DEF Injection
  <2>2. IsFiniteSet(1..n) /\ Cardinality(1..n) = n
    BY <1>1, FS_Interval
  <2>3. Cardinality(1..n) = Cardinality(S) <=> q \in Surjection(1..n, S)
    BY <2>1, FS_Injection
  <2> QED BY <2>2, <2>3 DEF n
<1>6. \A x \in S : \E k \in 1..n : q[k] = x
  BY <1>5 DEF Surjection
<1> QED BY <1>1, <1>4, <1>6 DEF n

LEMMA DeletesAre ==
  ASSUME NEW r \in Requestor, NEW ps \in SUBSET Prop
  PROVE  /\ Deletes(r, ps) \in Seq(Event)
         /\ \A k \in 1..Len(Deletes(r, ps)) : \E p \in ps : Deletes(r, ps)[k] = DeletionOf(r, p)
<1> DEFINE seen == {p \in ps : prop[r][p].set /\ r \in watch}
           q == SetToSeq(seen)
           n == Cardinality(seen)
           d == [i \in 1..n |-> WireEvent("DELETE", r, <<q[i]>>)]
<1>1. IsFiniteSet(seen)
  <2>1. IsFiniteSet(Prop) /\ seen \in SUBSET Prop
    BY OwnerAssumption
  <2> HIDE DEF seen
  <2> QED BY <2>1, FS_Subset
<1>2. n \in Nat /\ q \in [1..n -> seen]
  <2> HIDE DEF seen
  <2> QED BY <1>1, SetToSeqIs
<1>3. Deletes(r, ps) = d
  BY Zenon DEF Deletes
<1> HIDE DEF q, n
<1>4. \A i \in 1..n : q[i] \in ps
  BY <1>2
<1>5. \A i \in 1..n : d[i] = DeletionOf(r, q[i]) /\ d[i] \in Event
  <2> TAKE i \in 1..n
  <2>1. d[i] = WireEvent("DELETE", r, <<q[i]>>)
    OBVIOUS
  <2>2. q[i] \in Prop
    BY <1>4
  <2> HIDE DEF d
  <2>3. d[i] = DeletionOf(r, q[i])
    BY <2>1 DEF DeletionOf
  <2>4. d[i] \in Deletion
    BY <2>1, <2>2 DEF Deletion, WireEvent
  <2> QED BY <2>3, <2>4 DEF Event
<1>6. d \in [1..n -> Event]
  <2>1. DOMAIN d = 1..n /\ d = [i \in DOMAIN d |-> d[i]]
    OBVIOUS
  <2> HIDE DEF d
  <2> QED BY <1>5, <2>1
<1> HIDE DEF d
<1>7. d \in Seq(Event) /\ Len(d) = n
  BY <1>2, <1>6
<1>8. \A k \in 1..Len(d) : \E p \in ps : d[k] = DeletionOf(r, p)
  BY <1>4, <1>5, <1>7
<1> QED BY <1>3, <1>7, <1>8

LEMMA DeletionIs ==
  ASSUME NEW r, NEW p
  PROVE  /\ \A x, y : ~AsksFor(DeletionOf(r, p), x, y)
         /\ \A x, y : DeletionOf(r, p) = DeletionOf(x, y) => x = r /\ y = p
<1>1. \A x, y : ~AsksFor(DeletionOf(r, p), x, y)
  BY DEF AsksFor, DeletionOf, WireEvent
<1>2. ASSUME NEW x, NEW y, DeletionOf(r, p) = DeletionOf(x, y) PROVE x = r /\ y = p
  <2>1. DeletionOf(r, p).win = r /\ DeletionOf(x, y).win = x
    BY Zenon DEF DeletionOf, WireEvent
  <2>2. DeletionOf(r, p).props = <<p>> /\ DeletionOf(x, y).props = <<y>>
    BY Zenon DEF DeletionOf, WireEvent
  <2>3. <<p>>[1] = p /\ <<y>>[1] = y
    OBVIOUS
  <2> QED BY <1>2, <2>1, <2>2, <2>3, Zenon
<1> QED BY <1>1, <1>2

LEMMA DeletedIs ==
  ASSUME Types, NEW r \in Requestor, NEW ps \in SUBSET Prop, NEW P, P = Deleted(r, ps)
  PROVE  /\ P \in [Requestor -> [Prop -> Property]]
         /\ \A x \in Requestor, y \in Prop :
              P[x][y] = IF x = r /\ y \in ps THEN Absent ELSE prop[x][y]
<1>1. Absent \in Property
  <2>1. << >> \in Seq(Piece)
    OBVIOUS
  <2> QED BY <2>1 DEF Absent, Property
<1>2. prop \in [Requestor -> [Prop -> Property]]
  BY DEF Types
<1>3. P = [prop EXCEPT ![r] = [p \in Prop |-> IF p \in ps THEN Absent ELSE prop[r][p]]]
  BY DEF Deleted
<1> QED BY <1>1, <1>2, <1>3

-----------------------------------------------------------------------------
(* The steps *)

Phase == {"idle", "asked", "receiving", "done"}

\* A conversation the step leaves alone.
LEMMA Untouched ==
  ASSUME Talks, NEW r \in Requestor, NEW p \in Prop, r \in alive' <=> r \in alive,
         <<r, p>> \in abandoned' <=> <<r, p>> \in abandoned,
         prop'[r][p] = prop[r][p], phase'[r][p] = phase[r][p], got'[r][p] = got[r][p],
         r \notin alive => replies'[r] = replies[r],
         r \in alive => /\ SlotsKept(sends, sends', r, p)
                        /\ Sound(sends, retired, r, p) => Sound(sends', retired', r, p)
                        /\ WireKept(wire, wire', r, p)
                        /\ AnswersKept(replies[r], replies'[r], p)
  PROVE  Talk(r, p)'
<1>1. Talk(r, p)
  BY DEF Talks
<1>2. CASE r \notin alive
  BY <1>1, <1>2 DEF Talk
<1>3. CASE r \in alive /\ <<r, p>> \in abandoned
  BY <1>1, <1>3 DEF Talk
<1>4. CASE r \in alive /\ <<r, p>> \notin abandoned
  <2> DEFINE v == prop[r][p]
             f == phase[r][p]
             g == got[r][p]
             q == replies[r]
             u == replies'[r]
             S == sends
             T == sends'
             s == wire
             t == wire'
  <2>1. /\ Conversation(S, v, s, q, f, g, r, p) /\ SlotsKept(S, T, r, p)
        /\ WireKept(s, t, r, p) /\ AnswersKept(q, u, p)
    BY <1>1, <1>4 DEF Talk
  <2> HIDE DEF v, f, g, q, u, S, T, s, t
  <2>2. Conversation(T, v, t, u, f, g, r, p)
    BY <2>1, ConversationKept
  <2>3. Conversation(sends', prop[r][p], wire', replies'[r], phase[r][p], got[r][p], r, p)
    BY <2>2 DEF v, f, g, u, T, t
  <2> QED BY <1>1, <1>4, <2>3 DEF Talk
<1> QED BY <1>2, <1>3, <1>4

\* A conversation the step does something to.
LEMMA Touched ==
  ASSUME NEW r \in Requestor, NEW p \in Prop, r \in alive', NEW v, NEW f, NEW g,
         prop'[r][p] = v, phase'[r][p] = f, got'[r][p] = g, Clean(v),
         Sound(sends', retired', r, p),
         Conversation(sends', v, wire', replies'[r], f, g, r, p)
  PROVE  Talk(r, p)'
<1>1. Conversation(sends', prop'[r][p], wire', replies'[r], phase'[r][p], got'[r][p], r, p)
  OBVIOUS
<1> QED BY <1>1 DEF Talk

\* An abandoned conversation.
LEMMA Adrift ==
  ASSUME NEW r \in Requestor, NEW p \in Prop, r \in alive', <<r, p>> \in abandoned',
         NEW v, prop'[r][p] = v, Clean(v)
  PROVE  Talk(r, p)'
BY DEF Talk

LEMMA TalkIs ==
  ASSUME Talks, NEW r \in Requestor, NEW p \in Prop, r \in alive, <<r, p>> \notin abandoned
  PROVE  /\ Clean(prop[r][p]) /\ Sound(sends, retired, r, p)
         /\ Conversation(sends, prop[r][p], wire, replies[r], phase[r][p], got[r][p], r, p)
BY DEF Talks, Talk

LEMMA SteadyKept ==
  ASSUME UNCHANGED <<alive, abandoned>>
  PROVE  Steady' = Steady
BY DEF Steady

\* libnack is through with a conversation when nothing of it is under way.
LEMMA OverIs ==
  ASSUME Types, NEW r \in Requestor, NEW p \in Prop
  PROVE  Over(r, p) <=> Quiet(sends, wire, replies[r], r, p)
<1>1. wire \in Seq(Event) /\ replies[r] \in Seq(Reply)
  BY DEF Types
<1>2. DOMAIN wire = 1..Len(wire) /\ DOMAIN replies[r] = 1..Len(replies[r])
  BY <1>1
<1>3. ASSUME NEW j \in 1..Len(wire)
      PROVE  AsksFor(wire[j], r, p) <=>
               wire[j].type = "REQUEST" /\ wire[j].win = r /\ p \in Range(wire[j].props)
  <2>1. CASE wire[j].type = "REQUEST"
    <3>1. wire[j] \in Event
      BY <1>1
    <3>2. wire[j].props \in Seq(Prop)
      BY <2>1, <3>1, EventIs
    <3>3. DOMAIN wire[j].props = 1..Len(wire[j].props)
      BY <3>2
    <3> QED BY <2>1, <3>3 DEF AsksFor, Range
  <2>2. CASE wire[j].type # "REQUEST"
    BY <2>2 DEF AsksFor
  <2> QED BY <2>1, <2>2
<1> QED BY <1>2, <1>3 DEF Over, Quiet, NoAsk, NoAnswer, NoSlot

\* No requestor has more conversations than before.
LEMMA OneTalkKept ==
  ASSUME OneTalk, alive' \subseteq alive,
         \A r \in alive', p \in Prop : phase'[r][p] \notin Resting => phase[r][p] \notin Resting
  PROVE  OneTalk'
BY DEF OneTalk, Resting

LEMMA InitOwner ==
  ASSUME Init
  PROVE  OwnerInv
<1>1. /\ << >> \in Seq(Piece) /\ << >> \in Seq(Event) /\ << >> \in Seq(Reply)
      /\ Absent \in Property /\ FreeSlot \in Slot
  BY DEF Absent, Property, Slot
<1>2. Types
  <2>1. /\ prop \in [Requestor -> [Prop -> Property]]
        /\ sends \in [1..Slots -> Slot]
        /\ replies \in [Requestor -> Seq(Reply)]
        /\ got \in [Requestor -> [Prop -> Seq(Piece)]]
    BY <1>1 DEF Init
  <2>2. phase \in [Requestor -> [Prop -> {"idle", "asked", "receiving", "done"}]]
    BY DEF Init
  <2> QED BY <1>1, <2>1, <2>2 DEF Init, Types
<1>3. \A i \in 1..Slots : ~sends[i].active
  BY FreeIs DEF Init
<1>4. ASSUME NEW r \in Requestor, NEW p \in Prop PROVE Talk(r, p)
  <2>1. NoSlot(sends, r, p) /\ Sound(sends, retired, r, p)
    BY <1>3 DEF NoSlot, Sound, OneSlot, Sending
  <2>2. NoAsk(wire, r, p) /\ NoAnswer(replies[r], p)
    BY DEF Init, NoAsk, NoAnswer
  <2>3. Clean(prop[r][p]) /\ phase[r][p] = "idle" /\ replies[r] = << >>
    BY DEF Init, Clean, Absent
  <2> QED BY <2>1, <2>2, <2>3 DEF Talk, Conversation, Quiet
<1>5. OneByOne
  BY <1>3 DEF OneByOne, OneTalk, Apart, Watches, Init, Resting
<1> QED BY <1>2, <1>4, <1>5 DEF OwnerInv, Talks

LEMMA StutterOwner ==
  ASSUME OwnerInv, UNCHANGED <<prop, watch, wire, alive, sends, replies, phase, got, retired,
                               abandoned>>,
         owned' \in Text \cup {NoText}
  PROVE  OwnerInv'
<1>1. Types'
  BY DEF OwnerInv, Types
<1>2. Talks'
  BY DEF OwnerInv, Talks, Talk
<1>3. ~Concurrent => OneByOne'
  BY SteadyKept DEF OwnerInv, OneByOne, OneTalk
<1> QED BY <1>1, <1>2, <1>3 DEF OwnerInv

LEMMA DeadlineOwner ==
  ASSUME OwnerInv, NEW i \in 1..Slots, DeadlinePasses(i)
  PROVE  OwnerInv'
<1>1. Types /\ Talks
  BY DEF OwnerInv
<1>2. sends' = [sends EXCEPT ![i].late = TRUE] /\ sends \in [1..Slots -> Slot]
      /\ sends[i].active
  BY <1>1 DEF DeadlinePasses, Types
<1>3. sends[i] \in Busy
  BY <1>2, FreeIs DEF Slot
<1>4. /\ sends'[i] \in Busy /\ \A x, y : Sending(sends'[i], x, y) <=> Sending(sends[i], x, y)
      /\ sends'[i].requestor = sends[i].requestor
      /\ sends'[i].text = sends[i].text /\ sends'[i].sent = sends[i].sent
  BY <1>2, <1>3 DEF Busy, Sending
<1>5. \A j \in 1..Slots : j # i => sends'[j] = sends[j]
  BY <1>2
<1>6. sends' \in [1..Slots -> Slot]
  BY <1>2, <1>4 DEF Slot
<1>7. Types'
  BY <1>1, <1>6 DEF Types, DeadlinePasses
<1>8. ASSUME NEW r \in Requestor, NEW p \in Prop PROVE Talk(r, p)'
  <2>1. SlotsKept(sends, sends', r, p)
    BY <1>4, <1>5 DEF SlotsKept
  <2>2. Sound(sends, retired, r, p) => Sound(sends', retired, r, p)
    BY <2>1, SoundKept
  <2> QED BY <1>1, <2>1, <2>2, WireSame, AnswersSame, Untouched DEF DeadlinePasses
<1>9. \A j \in 1..Slots : sends'[j].active => sends[j].active
                            /\ sends'[j].requestor = sends[j].requestor
  BY <1>2, <1>4, <1>5
<1>10. ASSUME ~Concurrent PROVE OneByOne'
  <2>1. OneTalk /\ Apart(sends, Steady) /\ Watches(sends, watch, Steady)
    BY <1>10 DEF OwnerInv, OneByOne
  <2>2. Apart(sends', Steady) /\ Watches(sends', watch, Steady)
    BY <1>9, <2>1 DEF Apart, Watches
  <2>3. Steady' = Steady /\ OneTalk'
    BY <2>1, SteadyKept DEF OneTalk, DeadlinePasses
  <2> QED BY <2>2, <2>3 DEF OneByOne, DeadlinePasses
<1> QED BY <1>7, <1>8, <1>10 DEF OwnerInv, Talks

LEMMA OtherOwnsOwner ==
  ASSUME OwnerInv, OtherOwns
  PROVE  OwnerInv'
<1> DEFINE e == WireEvent("CLEAR", NoRequestor, << >>)
           t == <<e>>
<1>1. Types /\ Talks /\ wire' = wire \o t
  BY DEF OwnerInv, OtherOwns, ToWire
<1>2. t \in Seq(Event) /\ Len(t) = 1 /\ t[1] = e
  BY DEF Event
<1>3. \A x, y : ~AsksFor(e, x, y) /\ e # DeletionOf(x, y)
  BY DEF AsksFor, DeletionOf, WireEvent
<1> HIDE DEF t, e
<1>4. wire \in Seq(Event) /\ wire \o t \in Seq(Event)
  BY <1>1, <1>2 DEF Types
<1>5. Types'
  BY <1>1, <1>4 DEF Types, OtherOwns
<1>6. ASSUME NEW r \in Requestor, NEW p \in Prop PROVE Talk(r, p)'
  <2>1. \A k \in 1..Len(t) : ~AsksFor(t[k], r, p) /\ t[k] # DeletionOf(r, p)
    BY <1>2, <1>3
  <2>2. WireKept(wire, wire \o t, r, p)
    BY <1>2, <1>4, <2>1, SentOther
  <2> QED BY <1>1, <2>2, SlotsSame, AnswersSame, Untouched DEF OtherOwns
<1>7. ~Concurrent => OneByOne'
  BY SteadyKept DEF OwnerInv, OneByOne, OneTalk, OtherOwns
<1> QED BY <1>5, <1>6, <1>7 DEF OwnerInv, Talks

LEMMA GiveUpOwner ==
  ASSUME OwnerInv, NEW r \in Requestor, NEW p \in Prop, GiveUp(r, p)
  PROVE  OwnerInv'
<1>1. Types /\ Talks
  BY DEF OwnerInv
<1>2. /\ phase' = [phase EXCEPT ![r][p] = "idle"] /\ got' = [got EXCEPT ![r][p] = << >>]
      /\ phase[r][p] \in {"asked", "receiving"}
      /\ abandoned' = IF Over(r, p) THEN abandoned ELSE abandoned \cup {<<r, p>>}
      /\ UNCHANGED <<prop, watch, wire, alive, owned, sends, replies, retired>>
  BY DEF GiveUp
<1>3. /\ phase' \in [Requestor -> [Prop -> Phase]]
      /\ \A x \in Requestor, y \in Prop :
           phase'[x][y] = IF x = r /\ y = p THEN "idle" ELSE phase[x][y]
  BY <1>1, <1>2 DEF Types, Phase
<1>4. /\ got' \in [Requestor -> [Prop -> Seq(Piece)]]
      /\ \A x \in Requestor, y \in Prop :
           got'[x][y] = IF x = r /\ y = p THEN << >> ELSE got[x][y]
  <2>1. << >> \in Seq(Piece)
    OBVIOUS
  <2> QED BY <1>1, <1>2, <2>1 DEF Types
<1>5. Types'
  <2>1. abandoned' \subseteq Requestor \X Prop
    BY <1>1, <1>2 DEF Types
  <2> QED BY <1>1, <1>2, <1>3, <1>4, <2>1 DEF Types, Phase
<1>6. r \in alive
  BY <1>1, <1>2 DEF Talks, Talk
<1>7. ASSUME NEW x \in Requestor, NEW y \in Prop PROVE Talk(x, y)'
  <2>1. CASE x = r /\ y = p
    <3>1. Clean(prop[r][p])
      BY <1>1 DEF Talks, Talk
    <3>2. CASE <<r, p>> \in abandoned'
      BY <1>2, <1>6, <2>1, <3>1, <3>2, Adrift
    <3>3. CASE <<r, p>> \notin abandoned'
      <4>1. <<r, p>> \notin abandoned /\ Over(r, p)
        BY <1>2, <3>3
      <4>2. Quiet(sends, wire, replies[r], r, p)
        BY <1>1, <4>1, OverIs
      <4>3. Sound(sends, retired, r, p)
        BY <1>1, <1>6, <4>1, TalkIs
      <4>4. Conversation(sends, prop[r][p], wire, replies[r], "idle", << >>, r, p)
        BY <4>2 DEF Conversation
      <4>5. phase'[r][p] = "idle" /\ got'[r][p] = << >>
        BY <1>3, <1>4
      <4> QED BY <1>2, <1>6, <2>1, <3>1, <4>3, <4>4, <4>5, Touched
    <3> QED BY <3>2, <3>3
  <2>2. CASE ~(x = r /\ y = p)
    <3>1. phase'[x][y] = phase[x][y] /\ got'[x][y] = got[x][y]
      BY <1>3, <1>4, <2>2
    <3>2. <<x, y>> \in abandoned' <=> <<x, y>> \in abandoned
      BY <1>2, <2>2
    <3> QED BY <1>1, <1>2, <3>1, <3>2, SlotsSame, WireSame, AnswersSame, Untouched
  <2> QED BY <2>1, <2>2
<1>8. ASSUME ~Concurrent PROVE OneByOne'
  <2>1. OneTalk'
    BY <1>1, <1>2, <1>3, <1>8, OneTalkKept DEF OwnerInv, OneByOne, Resting, Types
  <2>2. Apart(sends, Steady) /\ Watches(sends, watch, Steady)
    BY <1>8 DEF OwnerInv, OneByOne
  <2>3. Steady' \subseteq Steady
    BY <1>2 DEF Steady
  <2>4. Apart(sends', Steady') /\ Watches(sends', watch', Steady')
    BY <1>2, <2>2, <2>3 DEF Apart, Watches
  <2> QED BY <2>1, <2>4 DEF OneByOne
<1> QED BY <1>5, <1>7, <1>8 DEF OwnerInv, Talks

LEMMA ExitOwner ==
  ASSUME OwnerInv, NEW r \in Requestor, Exit(r)
  PROVE  OwnerInv'
<1>1. Types /\ Talks
  BY DEF OwnerInv
<1>2. /\ alive' = alive \ {r} /\ watch' = watch \ {r} /\ prop' = Deleted(r, Prop)
      /\ UNCHANGED <<wire, owned, sends, retired, abandoned>>
  BY DEF Exit
<1>3. /\ prop' \in [Requestor -> [Prop -> Property]]
      /\ \A x \in Requestor, y \in Prop : prop'[x][y] = IF x = r THEN Absent ELSE prop[x][y]
  BY <1>1, <1>2, DeletedIs
<1>4. << >> \in Seq(Piece) /\ << >> \in Seq(Reply)
  OBVIOUS
<1>5. /\ replies' \in [Requestor -> Seq(Reply)]
      /\ \A x \in Requestor : replies'[x] = IF x = r THEN << >> ELSE replies[x]
  BY <1>1, <1>4 DEF Types, Exit
<1>6. /\ phase' \in [Requestor -> [Prop -> Phase]]
      /\ \A x \in Requestor, y \in Prop : phase'[x][y] = IF x = r THEN "idle" ELSE phase[x][y]
  BY <1>1 DEF Types, Exit, Phase
<1>7. /\ got' \in [Requestor -> [Prop -> Seq(Piece)]]
      /\ \A x \in Requestor, y \in Prop : got'[x][y] = IF x = r THEN << >> ELSE got[x][y]
  BY <1>1, <1>4 DEF Types, Exit
<1>8. Types'
  BY <1>1, <1>2, <1>3, <1>5, <1>6, <1>7 DEF Types, Phase
<1>9. ASSUME NEW x \in Requestor, NEW y \in Prop PROVE Talk(x, y)'
  <2>1. CASE x = r
    BY <1>2, <1>3, <1>5, <1>6, <2>1 DEF Talk, Clean, Absent
  <2>2. CASE x # r
    <3>1. /\ x \in alive' <=> x \in alive
          /\ prop'[x][y] = prop[x][y] /\ phase'[x][y] = phase[x][y] /\ got'[x][y] = got[x][y]
          /\ replies'[x] = replies[x]
      BY <1>2, <1>3, <1>5, <1>6, <1>7, <2>2
    <3> QED BY <1>1, <1>2, <3>1, SlotsSame, WireSame, AnswersSame, Untouched
  <2> QED BY <2>1, <2>2
<1>10. ASSUME ~Concurrent PROVE OneByOne'
  <2>1. OneTalk /\ Apart(sends, Steady) /\ Watches(sends, watch, Steady)
    BY <1>10 DEF OwnerInv, OneByOne
  <2>2. OneTalk'
    BY <1>1, <1>2, <1>6, <2>1 DEF OneTalk, Types
  <2>3. Steady' = Steady \ {r}
    BY <1>2 DEF Steady
  <2>4. Apart(sends', Steady') /\ Watches(sends', watch', Steady')
    BY <1>2, <2>1, <2>3 DEF Apart, Watches
  <2> QED BY <2>2, <2>4 DEF OneByOne
<1> QED BY <1>8, <1>9, <1>10 DEF OwnerInv, Talks

\* The properties in ps are deleted: other conversations do not see it on the
\* wire, and no conversation sees a request there.
LEMMA DeletesOnWire ==
  ASSUME Types, NEW r \in Requestor, NEW ps \in SUBSET Prop, NEW t, t = Deletes(r, ps)
  PROVE  /\ t \in Seq(Event) /\ wire \o t \in Seq(Event)
         /\ \A x, y : \A k \in 1..Len(t) : ~AsksFor(t[k], x, y)
         /\ \A x, y : ~(x = r /\ y \in ps) => WireKept(wire, wire \o t, x, y)
         /\ \A x, y : NoAsk(wire, x, y) => NoAsk(wire \o t, x, y)
<1>1. /\ t \in Seq(Event) /\ wire \in Seq(Event)
      /\ \A k \in 1..Len(t) : \E p \in ps : t[k] = DeletionOf(r, p)
  BY DeletesAre DEF Types
<1>2. \A x, y : \A k \in 1..Len(t) : ~AsksFor(t[k], x, y)
  BY <1>1, DeletionIs
<1>3. ASSUME NEW x, NEW y, ~(x = r /\ y \in ps) PROVE WireKept(wire, wire \o t, x, y)
  <2>1. \A k \in 1..Len(t) : ~AsksFor(t[k], x, y) /\ t[k] # DeletionOf(x, y)
    BY <1>1, <1>2, <1>3, DeletionIs
  <2> QED BY <1>1, <2>1, SentOther
<1>4. ASSUME NEW x, NEW y, NoAsk(wire, x, y) PROVE NoAsk(wire \o t, x, y)
  BY <1>1, <1>2, <1>4, SentDeletions
<1>5. wire \o t \in Seq(Event)
  BY <1>1, ConcatIs
<1> QED BY <1>1, <1>2, <1>3, <1>4, <1>5

LEMMA ReceiveOwner ==
  ASSUME OwnerInv, NEW r \in Requestor, NEW p \in Prop, Receive(r, p)
  PROVE  OwnerInv'
<1> DEFINE v == prop[r][p].val
           g == got[r][p] \o v
           t == Deletes(r, {p})
<1>1. Types /\ Talks
  BY DEF OwnerInv
<1>2. /\ phase[r][p] = "receiving" /\ prop[r][p].set
      /\ prop' = Deleted(r, {p}) /\ wire' = wire \o t
      /\ UNCHANGED <<watch, alive, owned, sends, replies, retired, abandoned>>
  BY DEF Receive, ToWire
<1>3. v \in Seq(Piece) /\ got[r][p] \in Seq(Piece)
  BY <1>1 DEF Types, Property
<1>4. g \in Seq(Piece)
  BY <1>3
<1>5. /\ phase' \in [Requestor -> [Prop -> Phase]]
      /\ \A x \in Requestor, y \in Prop :
           phase'[x][y] = IF x = r /\ y = p /\ v = << >> THEN "done" ELSE phase[x][y]
  BY <1>1 DEF Types, Phase, Receive
<1>6. /\ got' \in [Requestor -> [Prop -> Seq(Piece)]]
      /\ \A x \in Requestor, y \in Prop :
           got'[x][y] = IF x = r /\ y = p THEN g ELSE got[x][y]
  BY <1>1, <1>4 DEF Types, Receive
<1>7. /\ prop' \in [Requestor -> [Prop -> Property]]
      /\ \A x \in Requestor, y \in Prop :
           prop'[x][y] = IF x = r /\ y = p THEN Absent ELSE prop[x][y]
  BY <1>1, <1>2, DeletedIs
<1>8. /\ wire' \in Seq(Event)
      /\ \A x, y : ~(x = r /\ y = p) => WireKept(wire, wire', x, y)
      /\ \A x, y : NoAsk(wire, x, y) => NoAsk(wire', x, y)
  <2> DEFINE u == t
  <2>1. u = Deletes(r, {p}) /\ {p} \in SUBSET Prop
    OBVIOUS
  <2> HIDE DEF u
  <2>2. /\ wire \o u \in Seq(Event)
        /\ \A x, y : ~(x = r /\ y \in {p}) => WireKept(wire, wire \o u, x, y)
        /\ \A x, y : NoAsk(wire, x, y) => NoAsk(wire \o u, x, y)
    BY <1>1, <2>1, DeletesOnWire
  <2> QED BY <1>2, <2>2 DEF u
<1> HIDE DEF v, g, t
<1>9. Types'
  BY <1>1, <1>2, <1>5, <1>6, <1>7, <1>8 DEF Types, Phase
<1>10. r \in alive
  BY <1>1, <1>2 DEF Talks, Talk
<1>14. Talk(r, p)'
  <2>1. CASE <<r, p>> \in abandoned
    <3>1. prop'[r][p] = Absent /\ Clean(Absent)
      BY <1>7 DEF Absent, Clean
    <3> QED BY <1>2, <1>10, <2>1, <3>1, Adrift
  <2>2. CASE <<r, p>> \notin abandoned
    <3>11. /\ Sound(sends, retired, r, p) /\ NoAsk(wire, r, p) /\ NoAnswer(replies[r], p)
           /\ Receives(sends, prop[r][p], got[r][p], r, p)
      BY <1>1, <1>2, <1>10, <2>2, TalkIs DEF Conversation
    <3>12. PICK w \in Text, n \in Nat :
             n <= Pieces[w] /\ g = SubSeq(Whole(w), 1, n) /\ (v = << >> => n = Pieces[w])
      BY <1>2, <3>11 DEF Receives, g, v
    <3>13. \A i \in 1..Slots : Sending(sends[i], r, p) =>
             g = SubSeq(Whole(sends[i].text), 1, sends[i].sent) /\ v # << >>
      BY <1>2, <3>11 DEF Receives, g, v
    <3>1. prop'[r][p] = Absent /\ got'[r][p] = g /\ Clean(Absent)
          /\ Absent.val = << >> /\ ~Absent.set
      BY <1>6, <1>7 DEF Absent, Clean
    <3>2. NoAsk(wire', r, p) /\ NoAnswer(replies'[r], p) /\ Sound(sends', retired', r, p)
      BY <1>2, <1>8, <3>11
    <3>3. CASE v = << >>
      <4>1. NoSlot(sends', r, p)
        BY <1>2, <3>13, <3>3 DEF NoSlot
      <4>2. g = Whole(w)
        BY <3>12, <3>3, PartOfWhole
      <4>3. phase'[r][p] = "done"
        BY <1>5, <3>3
      <4>4. Conversation(sends', Absent, wire', replies'[r], "done", g, r, p)
        BY <3>2, <4>1, <4>2 DEF Conversation, Quiet
      <4> QED BY <1>2, <1>10, <3>1, <3>2, <4>3, <4>4, Touched
    <3>4. CASE v # << >>
      <4>1. phase'[r][p] = "receiving"
        BY <1>2, <1>5, <3>4
      <4>2. g \o << >> = g
        BY <1>4, ConcatEmptySeq DEF g
      <4>3. << >> # <<Incr>>
        OBVIOUS
      <4>4. Receives(sends', Absent, g, r, p)
        BY <1>2, <3>12, <3>13, <3>1, <4>2, <4>3 DEF Receives
      <4>5. Conversation(sends', Absent, wire', replies'[r], "receiving", g, r, p)
        BY <3>2, <4>4 DEF Conversation
      <4> QED BY <1>2, <1>10, <3>1, <3>2, <4>1, <4>5, Touched
    <3> QED BY <3>3, <3>4
  <2> QED BY <2>1, <2>2
<1>15. ASSUME NEW x \in Requestor, NEW y \in Prop PROVE Talk(x, y)'
  <2>1. CASE ~(x = r /\ y = p)
    BY <1>1, <1>2, <1>5, <1>6, <1>7, <1>8, <2>1, SlotsSame, AnswersSame, Untouched
  <2> QED BY <1>14, <2>1
<1>16. ASSUME ~Concurrent PROVE OneByOne'
  <2>1. \A x \in alive', y \in Prop : phase'[x][y] \notin Resting => phase[x][y] \notin Resting
    BY <1>1, <1>2, <1>5 DEF Resting, Types
  <2>2. OneTalk'
    BY <1>2, <1>16, <2>1, OneTalkKept DEF OwnerInv, OneByOne
  <2> QED BY <1>2, <1>16, <2>2, SteadyKept DEF OwnerInv, OneByOne
<1> QED BY <1>9, <1>15, <1>16 DEF OwnerInv, Talks

\* The first answer is to a request that has been read, and it stands.
LEMMA AnswerStands ==
  ASSUME Types, Talks, NEW r \in Requestor, replies[r] # << >>, NEW p, p = Head(replies[r]).prop,
         <<r, p>> \notin abandoned
  PROVE  /\ r \in alive /\ p \in Prop /\ phase[r][p] = "asked" /\ got[r][p] = << >>
         /\ Sound(sends, retired, r, p) /\ Clean(prop[r][p]) /\ NoAsk(wire, r, p)
         /\ NoAnswer(Tail(replies[r]), p)
         /\ Head(replies[r]).granted \in BOOLEAN
         /\ Stands(sends, prop[r][p], r, p, Head(replies[r]).granted)
<1> DEFINE q == replies[r]
<1>1. q \in Seq(Reply)
  BY DEF Types
<1>2. Head(q) = q[1] /\ Head(q) \in Reply /\ Len(q) \in Nat /\ Len(q) > 0
  BY <1>1, TailIs
<1> HIDE DEF q
<1>3. q # << >> /\ p = Head(q).prop
  BY DEF q
<1>4. p \in Prop /\ Head(q).granted \in BOOLEAN
  BY <1>2, <1>3 DEF Reply
<1>5. r \in alive
  BY <1>3, <1>4 DEF Talks, Talk, q
<1>6. ~NoAnswer(q, p)
  BY <1>2, <1>3 DEF NoAnswer
<1>7. /\ Sound(sends, retired, r, p) /\ Clean(prop[r][p])
      /\ Conversation(sends, prop[r][p], wire, q, phase[r][p], got[r][p], r, p)
  BY <1>4, <1>5, TalkIs DEF q
<1>8. /\ phase[r][p] = "asked" /\ got[r][p] = << >>
      /\ Answered(sends, prop[r][p], wire, q, r, p)
  BY <1>6, <1>7 DEF Conversation, Quiet, Waits
<1>9. PICK granted \in BOOLEAN :
        OneAnswer(q, p, granted) /\ Stands(sends, prop[r][p], r, p, granted)
  BY <1>8 DEF Answered
<1>10. Head(q).granted = granted /\ NoAnswer(Tail(q), p)
  BY <1>1, <1>3, <1>9, TakenAnswer
<1> QED BY <1>4, <1>5, <1>7, <1>8, <1>9, <1>10 DEF Answered, q

LEMMA TakeAnswer ==
  ASSUME OwnerInv, NEW r \in Requestor, TakeReply(r), NEW p, p = Head(replies[r]).prop,
         <<r, p>> \notin abandoned
  PROVE  OwnerInv'
<1>0. p = Head(replies[r]).prop
  OBVIOUS
<1> DEFINE granted == Head(replies[r]).granted
           v == prop[r][p]
           f == IF ~granted THEN "idle" ELSE IF v.val = <<Incr>> THEN "receiving" ELSE "done"
           g == IF granted /\ v.val # <<Incr>> THEN v.val ELSE << >>
           w == IF granted THEN Absent ELSE v
           t == IF granted THEN Deletes(r, {p}) ELSE << >>
<1>1. Types /\ Talks /\ replies[r] # << >>
  BY DEF OwnerInv, TakeReply
<1>2. /\ r \in alive /\ p \in Prop /\ phase[r][p] = "asked" /\ got[r][p] = << >>
      /\ Sound(sends, retired, r, p) /\ Clean(v) /\ NoAsk(wire, r, p)
      /\ NoAnswer(Tail(replies[r]), p) /\ granted \in BOOLEAN
      /\ Stands(sends, v, r, p, granted)
  BY <1>0, <1>1, AnswerStands
<1>3. granted => v.set /\ \E c \in Text : v.val = <<Incr>> \/ v.val = Whole(c)
  BY <1>2 DEF Stands
<1>4. v.val \in Seq(Piece) /\ v \in Property
  BY <1>1, <1>2 DEF Types, Property
<1>5. /\ UNCHANGED <<watch, alive, owned, sends, retired, abandoned>>
      /\ replies' = [replies EXCEPT ![r] = Tail(@)]
      /\ IF granted THEN prop' = Deleted(r, {p}) /\ wire' = wire \o Deletes(r, {p})
         ELSE UNCHANGED <<prop, wire>>
      /\ phase' = [phase EXCEPT ![r][p] = f]
      /\ got' = [got EXCEPT ![r][p] = g]
  <2> DEFINE taken == phase[r][p] = "asked" /\ granted /\ v.set
             refused == phase[r][p] = "asked" /\ ~taken
  <2>1. taken = granted /\ refused = ~granted
    BY <1>2, <1>3
  <2>2. /\ UNCHANGED <<watch, alive, owned, sends, retired, abandoned>>
        /\ replies' = [replies EXCEPT ![r] = Tail(@)]
        /\ IF taken THEN prop' = Deleted(r, {p}) /\ wire' = wire \o Deletes(r, {p})
           ELSE UNCHANGED <<prop, wire>>
        /\ phase' = [phase EXCEPT ![r][p] =
                       CASE taken -> IF v.val = <<Incr>> THEN "receiving" ELSE "done"
                         [] refused -> "idle"
                         [] OTHER -> @]
        /\ got' = [got EXCEPT ![r][p] = IF taken /\ v.val # <<Incr>> THEN v.val ELSE @]
    BY <1>0 DEF TakeReply, ToWire
  <2> HIDE DEF taken, refused
  <2>3. phase' = [phase EXCEPT ![r][p] = f]
    BY <1>2, <2>1, <2>2
  <2>4. got' = [got EXCEPT ![r][p] = g]
    BY <1>2, <2>1, <2>2
  <2> QED BY <2>1, <2>2, <2>3, <2>4
<1> HIDE DEF granted, v
<1>6. /\ phase' \in [Requestor -> [Prop -> Phase]]
      /\ \A x \in Requestor, y \in Prop :
           phase'[x][y] = IF x = r /\ y = p THEN f ELSE phase[x][y]
  <2>1. f \in Phase
    BY DEF Phase
  <2> HIDE DEF f
  <2>2. phase \in [Requestor -> [Prop -> Phase]]
    BY <1>1 DEF Types, Phase
  <2> QED BY <1>2, <1>5, <2>1, <2>2
<1>7. /\ got' \in [Requestor -> [Prop -> Seq(Piece)]]
      /\ \A x \in Requestor, y \in Prop : got'[x][y] = IF x = r /\ y = p THEN g ELSE got[x][y]
  <2>1. g \in Seq(Piece)
    BY <1>4
  <2> HIDE DEF g
  <2> QED BY <1>1, <1>2, <1>5, <2>1 DEF Types
<1>8. /\ prop' \in [Requestor -> [Prop -> Property]]
      /\ \A x \in Requestor, y \in Prop : prop'[x][y] = IF x = r /\ y = p THEN w ELSE prop[x][y]
  <2>1. CASE granted
    <3> DEFINE P == Deleted(r, {p})
    <3>1. {p} \in SUBSET Prop
      BY <1>2
    <3> HIDE DEF P
    <3>2. /\ P \in [Requestor -> [Prop -> Property]]
          /\ \A x \in Requestor, y \in Prop :
               P[x][y] = IF x = r /\ y \in {p} THEN Absent ELSE prop[x][y]
      BY <1>1, <3>1, DeletedIs DEF P
    <3>3. prop' = P /\ w = Absent
      BY <1>5, <2>1 DEF P
    <3> HIDE DEF w
    <3> QED BY <3>2, <3>3
  <2>2. CASE ~granted
    BY <1>1, <1>5, <2>2 DEF Types, v
  <2> QED BY <2>1, <2>2
<1>9. /\ wire' \in Seq(Event)
      /\ \A x, y : ~(x = r /\ y = p) => WireKept(wire, wire', x, y)
      /\ \A x, y : NoAsk(wire, x, y) => NoAsk(wire', x, y)
  <2>1. CASE granted
    <3> DEFINE u == Deletes(r, {p})
    <3>1. {p} \in SUBSET Prop
      BY <1>2
    <3> HIDE DEF u
    <3>2. /\ wire \o u \in Seq(Event)
          /\ \A x, y : ~(x = r /\ y \in {p}) => WireKept(wire, wire \o u, x, y)
          /\ \A x, y : NoAsk(wire, x, y) => NoAsk(wire \o u, x, y)
      BY <1>1, <3>1, DeletesOnWire DEF u
    <3> QED BY <1>5, <2>1, <3>2 DEF u
  <2>2. CASE ~granted
    BY <1>1, <1>5, <2>2, WireSame DEF Types
  <2> QED BY <2>1, <2>2
<1>10. /\ replies' \in [Requestor -> Seq(Reply)]
       /\ \A x \in Requestor : replies'[x] = IF x = r THEN Tail(replies[r]) ELSE replies[x]
  <2>1. replies[r] \in Seq(Reply) /\ replies \in [Requestor -> Seq(Reply)]
    BY <1>1 DEF Types
  <2>2. Tail(replies[r]) \in Seq(Reply)
    BY <1>1, <2>1, TailIs
  <2> QED BY <1>5, <2>1, <2>2
<1>11. Types'
  BY <1>1, <1>5, <1>6, <1>7, <1>8, <1>9, <1>10 DEF Types, Phase
<1>12. Talk(r, p)'
  <2>1. /\ NoAsk(wire', r, p) /\ NoAnswer(replies'[r], p) /\ Sound(sends', retired', r, p)
        /\ Stands(sends', v, r, p, granted)
    BY <1>2, <1>5, <1>9, <1>10
  <2>2. Clean(w)
    BY <1>2 DEF Clean, Absent
  <2>3. Conversation(sends', w, wire', replies'[r], f, g, r, p)
    <3>1. CASE ~granted
      <4>1. NoSlot(sends', r, p)
        BY <2>1, <3>1 DEF Stands, NoSlot
      <4> QED BY <2>1, <3>1, <4>1 DEF Conversation, Quiet
    <3>2. CASE granted /\ v.val # <<Incr>>
      <4>1. NoSlot(sends', r, p)
        BY <2>1, <3>2 DEF Stands, NoSlot
      <4>2. \E c \in Text : g = Whole(c)
        BY <1>3, <3>2
      <4>3. f = "done"
        BY <3>2
      <4> HIDE DEF f, g, w
      <4> QED BY <2>1, <4>1, <4>2, <4>3 DEF Conversation, Quiet
    <3>3. CASE granted /\ v.val = <<Incr>>
      <4>1. f = "receiving" /\ g = << >> /\ w = Absent
        BY <3>3
      <4> HIDE DEF f, g, w
      <4>2. Receives(sends', w, g, r, p)
        <5>1. w.val = << >> /\ ~w.set /\ << >> # <<Incr>>
          BY <4>1 DEF Absent
        <5>2. << >> \o << >> = << >> /\ << >> \in Seq(Piece)
          BY ConcatEmptySeq
        <5>3. \A c \in Text : 0 \in Nat /\ 0 <= Pieces[c] /\ SubSeq(Whole(c), 1, 0) = << >>
          BY WholeIs, PartOfWhole
        <5>4. PICK c \in Text : TRUE
          BY <1>3, <3>3
        <5>5. ASSUME NEW i \in 1..Slots, Sending(sends'[i], r, p)
              PROVE  sends'[i].sent = 0 /\ sends'[i].text \in Text
          <6>1. sends'[i] \in Slot /\ sends'[i].active
            BY <1>11, <5>5 DEF Types, Sending
          <6>2. sends'[i].text \in Large
            BY <6>1, SlotIs
          <6> QED BY <2>1, <5>5, <6>2, OwnerAssumption DEF Stands
        <5>6. g \o w.val = << >>
          BY <4>1, <5>1, <5>2
        <5> QED BY <5>1, <5>3, <5>4, <5>5, <5>6 DEF Receives
      <4> QED BY <2>1, <4>1, <4>2 DEF Conversation
    <3> QED BY <1>2, <3>1, <3>2, <3>3
  <2> HIDE DEF w, f, g
  <2>4. prop'[r][p] = w /\ phase'[r][p] = f /\ got'[r][p] = g /\ r \in alive'
    BY <1>2, <1>5, <1>6, <1>7, <1>8
  <2> QED BY <1>2, <2>1, <2>2, <2>3, <2>4, Touched
<1>13. ASSUME NEW x \in Requestor, NEW y \in Prop PROVE Talk(x, y)'
  <2>1. CASE ~(x = r /\ y = p)
    <3>1. /\ prop'[x][y] = prop[x][y] /\ phase'[x][y] = phase[x][y] /\ got'[x][y] = got[x][y]
          /\ WireKept(wire, wire', x, y)
      BY <1>6, <1>7, <1>8, <1>9, <2>1
    <3>2. AnswersKept(replies[x], replies'[x], y) /\ (x \notin alive => replies'[x] = replies[x])
      <4>1. CASE x = r
        <5>1. replies[r] \in Seq(Reply) /\ Head(replies[r]).prop # y
          BY <1>0, <1>1, <2>1, <4>1 DEF Types
        <5> QED BY <1>1, <1>2, <1>10, <4>1, <5>1, TakenOther
      <4>2. CASE x # r
        BY <1>10, <4>2, AnswersSame
      <4> QED BY <4>1, <4>2
    <3> QED BY <1>1, <1>5, <3>1, <3>2, SlotsSame, Untouched
  <2> QED BY <1>12, <2>1
<1>14. ASSUME ~Concurrent PROVE OneByOne'
  <2>1. \A x \in alive', y \in Prop : phase'[x][y] \notin Resting => phase[x][y] \notin Resting
    BY <1>1, <1>2, <1>5, <1>6 DEF Resting, Types
  <2>2. OneTalk'
    BY <1>5, <1>14, <2>1, OneTalkKept DEF OwnerInv, OneByOne
  <2> QED BY <1>5, <1>14, <2>2, SteadyKept DEF OwnerInv, OneByOne
<1> QED BY <1>11, <1>13, <1>14 DEF OwnerInv, Talks

\* An answer to a question that was given up, or to the one asked after it.
LEMMA TakeStale ==
  ASSUME OwnerInv, NEW r \in Requestor, TakeReply(r), NEW p, p = Head(replies[r]).prop,
         <<r, p>> \in abandoned
  PROVE  OwnerInv'
<1> DEFINE v == prop[r][p]
           taken == phase[r][p] = "asked" /\ Head(replies[r]).granted /\ v.set
           refused == phase[r][p] = "asked" /\ ~taken
           f == CASE taken -> IF v.val = <<Incr>> THEN "receiving" ELSE "done"
                  [] refused -> "idle"
                  [] OTHER -> phase[r][p]
           g == IF taken /\ v.val # <<Incr>> THEN v.val ELSE got[r][p]
           w == IF taken THEN Absent ELSE v
<1>1. Types /\ Talks /\ replies[r] # << >>
  BY DEF OwnerInv, TakeReply
<1>2. /\ replies[r] \in Seq(Reply) /\ Tail(replies[r]) \in Seq(Reply)
      /\ Head(replies[r]) \in Reply
  BY <1>1, TailIs DEF Types
<1>3. p \in Prop /\ {p} \in SUBSET Prop
  BY <1>2 DEF Reply
<1>4. r \in alive
  BY <1>1, <1>3 DEF Talks, Talk
<1>5. v \in Property /\ v.val \in Seq(Piece) /\ Clean(v) /\ phase[r][p] \in Phase
      /\ got[r][p] \in Seq(Piece)
  BY <1>1, <1>3 DEF Types, Property, Talks, Talk, Phase
<1>6. /\ UNCHANGED <<watch, alive, owned, sends, retired, abandoned>>
      /\ replies' = [replies EXCEPT ![r] = Tail(@)]
      /\ IF taken THEN prop' = Deleted(r, {p}) /\ wire' = wire \o Deletes(r, {p})
         ELSE UNCHANGED <<prop, wire>>
      /\ phase' = [phase EXCEPT ![r][p] = f]
      /\ got' = [got EXCEPT ![r][p] = g]
  <2>1. /\ UNCHANGED <<watch, alive, owned, sends, retired, abandoned>>
        /\ replies' = [replies EXCEPT ![r] = Tail(@)]
        /\ IF taken THEN prop' = Deleted(r, {p}) /\ wire' = wire \o Deletes(r, {p})
           ELSE UNCHANGED <<prop, wire>>
        /\ phase' = [phase EXCEPT ![r][p] =
                       CASE taken -> IF v.val = <<Incr>> THEN "receiving" ELSE "done"
                         [] refused -> "idle"
                         [] OTHER -> @]
        /\ got' = [got EXCEPT ![r][p] = IF taken /\ v.val # <<Incr>> THEN v.val ELSE @]
    BY DEF TakeReply, ToWire
  <2> HIDE DEF taken, refused, v
  <2>2. phase' = [phase EXCEPT ![r][p] = f]
    BY <2>1
  <2>3. got' = [got EXCEPT ![r][p] = g]
    BY <2>1
  <2> QED BY <2>1, <2>2, <2>3
<1>7. f \in Phase /\ (f \notin Resting => phase[r][p] \notin Resting) /\ g \in Seq(Piece)
  <2>1. CASE taken
    BY <1>5, <2>1 DEF Phase, Resting
  <2>2. CASE ~taken /\ refused
    BY <1>5, <2>2 DEF Phase, Resting
  <2>3. CASE ~taken /\ ~refused
    BY <1>5, <2>3 DEF Phase, Resting
  <2> QED BY <2>1, <2>2, <2>3
<1>8. Clean(w)
  BY <1>5 DEF Clean, Absent
<1> HIDE DEF f, g
<1>9. /\ phase' \in [Requestor -> [Prop -> Phase]]
      /\ \A x \in Requestor, y \in Prop :
           phase'[x][y] = IF x = r /\ y = p THEN f ELSE phase[x][y]
  <2>1. phase \in [Requestor -> [Prop -> Phase]]
    BY <1>1 DEF Types, Phase
  <2> QED BY <1>3, <1>6, <1>7, <2>1
<1>10. /\ got' \in [Requestor -> [Prop -> Seq(Piece)]]
       /\ \A x \in Requestor, y \in Prop : got'[x][y] = IF x = r /\ y = p THEN g ELSE got[x][y]
  BY <1>1, <1>3, <1>6, <1>7 DEF Types
<1> HIDE DEF taken
<1>11. /\ prop' \in [Requestor -> [Prop -> Property]]
       /\ \A x \in Requestor, y \in Prop : prop'[x][y] = IF x = r /\ y = p THEN w ELSE prop[x][y]
  <2>1. CASE taken
    <3> DEFINE P == Deleted(r, {p})
    <3> HIDE DEF P
    <3>1. /\ P \in [Requestor -> [Prop -> Property]]
          /\ \A x \in Requestor, y \in Prop :
               P[x][y] = IF x = r /\ y \in {p} THEN Absent ELSE prop[x][y]
      BY <1>1, <1>3, DeletedIs DEF P
    <3>2. prop' = P /\ w = Absent
      BY <1>6, <2>1 DEF P
    <3> HIDE DEF w
    <3> QED BY <3>1, <3>2
  <2>2. CASE ~taken
    BY <1>1, <1>6, <2>2 DEF Types
  <2> QED BY <2>1, <2>2
<1> HIDE DEF w, v
<1>12. /\ wire' \in Seq(Event)
       /\ \A x, y : ~(x = r /\ y = p) => WireKept(wire, wire', x, y)
  <2>1. CASE taken
    <3> DEFINE u == Deletes(r, {p})
    <3> HIDE DEF u
    <3>1. /\ wire \o u \in Seq(Event)
          /\ \A x, y : ~(x = r /\ y \in {p}) => WireKept(wire, wire \o u, x, y)
      BY <1>1, <1>3, DeletesOnWire DEF u
    <3> QED BY <1>6, <2>1, <3>1 DEF u
  <2>2. CASE ~taken
    BY <1>1, <1>6, <2>2, WireSame DEF Types
  <2> QED BY <2>1, <2>2
<1>13. /\ replies' \in [Requestor -> Seq(Reply)]
       /\ \A x \in Requestor : replies'[x] = IF x = r THEN Tail(replies[r]) ELSE replies[x]
  <2>1. replies \in [Requestor -> Seq(Reply)]
    BY <1>1 DEF Types
  <2> QED BY <1>2, <1>6, <2>1
<1>14. Types'
  BY <1>1, <1>6, <1>9, <1>10, <1>11, <1>12, <1>13 DEF Types, Phase
<1>15. ASSUME NEW x \in Requestor, NEW y \in Prop PROVE Talk(x, y)'
  <2>1. CASE x = r /\ y = p
    <3>1. prop'[r][p] = w
      BY <1>3, <1>11
    <3> QED BY <1>3, <1>4, <1>6, <1>8, <2>1, <3>1, Adrift
  <2>2. CASE ~(x = r /\ y = p)
    <3>1. /\ prop'[x][y] = prop[x][y] /\ phase'[x][y] = phase[x][y] /\ got'[x][y] = got[x][y]
          /\ WireKept(wire, wire', x, y)
      BY <1>9, <1>10, <1>11, <1>12, <2>2
    <3>2. AnswersKept(replies[x], replies'[x], y) /\ (x \notin alive => replies'[x] = replies[x])
      <4>1. CASE x = r
        <5>1. Head(replies[r]).prop # y
          BY <2>2, <4>1
        <5> QED BY <1>1, <1>2, <1>4, <1>13, <4>1, <5>1, TakenOther
      <4>2. CASE x # r
        BY <1>13, <4>2, AnswersSame
      <4> QED BY <4>1, <4>2
    <3> QED BY <1>1, <1>6, <3>1, <3>2, SlotsSame, Untouched
  <2> QED BY <2>1, <2>2
<1>16. ASSUME ~Concurrent PROVE OneByOne'
  <2>1. \A x \in alive', y \in Prop : phase'[x][y] \notin Resting => phase[x][y] \notin Resting
    BY <1>1, <1>3, <1>6, <1>7, <1>9 DEF Types
  <2>2. OneTalk'
    BY <1>6, <1>16, <2>1, OneTalkKept DEF OwnerInv, OneByOne
  <2> QED BY <1>6, <1>16, <2>2, SteadyKept DEF OwnerInv, OneByOne
<1> QED BY <1>14, <1>15, <1>16 DEF OwnerInv, Talks

LEMMA TakeReplyOwner ==
  ASSUME OwnerInv, NEW r \in Requestor, TakeReply(r)
  PROVE  OwnerInv'
<1>1. PICK p : p = Head(replies[r]).prop
  OBVIOUS
<1>2. CASE <<r, p>> \in abandoned
  BY <1>1, <1>2, TakeStale
<1>3. CASE <<r, p>> \notin abandoned
  BY <1>1, <1>3, TakeAnswer
<1> QED BY <1>2, <1>3

LEMMA AskOwner ==
  ASSUME OwnerInv, NEW r \in Requestor, NEW ps \in SUBSET Prop, Ask(r, ps)
  PROVE  OwnerInv'
<1> DEFINE d == Deletes(r, ps)
           q == SetToSeq(ps)
           e == WireEvent("REQUEST", r, q)
           t == Append(d, e)
<1>1. Types /\ Talks
  BY DEF OwnerInv
<1>2. /\ r \in alive /\ \A p \in ps : phase[r][p] \in Resting
      /\ ~Concurrent => Cardinality(ps) = 1 /\ \A p \in Prop : phase[r][p] \in Resting
      /\ prop' = Deleted(r, ps) /\ wire' = wire \o t
      /\ abandoned' = abandoned \ {<<r, p>> : p \in {y \in ps : Over(r, y)}}
      /\ UNCHANGED <<watch, alive, owned, sends, replies, retired>>
  BY DEF Ask, ToWire
<1>3. IsFiniteSet(ps)
  BY OwnerAssumption, FS_Subset
<1>4. /\ q \in Seq(Prop) /\ IsInjective(q)
      /\ \A k \in 1..Len(q) : q[k] \in ps
      /\ \A p \in ps : \E k \in 1..Len(q) : q[k] = p
  <2> DEFINE n == Cardinality(ps)
             u == q
  <2>1. /\ n \in Nat /\ u \in [1..n -> ps] /\ IsInjective(u)
        /\ \A x \in ps : \E k \in 1..n : u[k] = x
    BY <1>3, SetToSeqIs
  <2> HIDE DEF n, u
  <2>2. u \in Seq(Prop) /\ Len(u) = n
    BY <2>1
  <2>3. /\ u \in Seq(Prop) /\ IsInjective(u)
        /\ \A k \in 1..Len(u) : u[k] \in ps
        /\ \A p \in ps : \E k \in 1..Len(u) : u[k] = p
    BY <2>1, <2>2
  <2> QED BY <2>3 DEF u
<1>5. /\ d \in Seq(Event) /\ \A k \in 1..Len(d) : \E p \in ps : d[k] = DeletionOf(r, p)
  BY DeletesAre
<1> HIDE DEF q
<1>6. e \in Event /\ e.type = "REQUEST" /\ e.win = r /\ e.props = q
  BY <1>4 DEF WireEvent, Event, Request
<1> HIDE DEF d, e
<1>7. /\ t \in Seq(Event) /\ Len(d) \in Nat /\ Len(t) = Len(d) + 1
      /\ t[Len(d) + 1] = e /\ \A k \in 1..Len(d) : t[k] = d[k]
  BY <1>5, <1>6
<1> HIDE DEF t
<1>8. \A x, y : AsksFor(e, x, y) <=> x = r /\ y \in ps
  BY <1>4, <1>6 DEF AsksFor
<1>9. \A x, y : e # DeletionOf(x, y)
  BY <1>6 DEF DeletionOf, WireEvent
<1>10. \A k \in 1..Len(d) : \A x, y : ~AsksFor(t[k], x, y)
  BY <1>5, <1>7, DeletionIs
<1>11. wire \in Seq(Event) /\ wire' \in Seq(Event)
  BY <1>1, <1>2, <1>7, ConcatIs DEF Types
<1>12. /\ phase' \in [Requestor -> [Prop -> Phase]]
       /\ \A x \in Requestor, y \in Prop :
            phase'[x][y] = IF x = r /\ y \in ps THEN "asked" ELSE phase[x][y]
  BY <1>1 DEF Types, Phase, Ask
<1>13. /\ got' \in [Requestor -> [Prop -> Seq(Piece)]]
       /\ \A x \in Requestor, y \in Prop :
            got'[x][y] = IF x = r /\ y \in ps THEN << >> ELSE got[x][y]
  <2>1. << >> \in Seq(Piece)
    OBVIOUS
  <2> QED BY <1>1, <2>1 DEF Types, Ask
<1>14. /\ prop' \in [Requestor -> [Prop -> Property]]
       /\ \A x \in Requestor, y \in Prop :
            prop'[x][y] = IF x = r /\ y \in ps THEN Absent ELSE prop[x][y]
  BY <1>1, <1>2, DeletedIs
<1>15. Types'
  <2>1. abandoned' \subseteq Requestor \X Prop
    BY <1>1, <1>2 DEF Types
  <2> QED BY <1>1, <1>2, <1>11, <1>12, <1>13, <1>14, <2>1 DEF Types, Phase
<1>18. /\ \A x, y : <<x, y>> \notin abandoned' => <<x, y>> \notin abandoned
                                                  \/ (x = r /\ y \in ps /\ Over(r, y))
       /\ \A x, y : <<x, y>> \in abandoned' => <<x, y>> \in abandoned
  BY <1>2
\* What is not abandoned any more, or was not and rests, is quiet.
<1>19. ASSUME NEW y \in Prop, <<r, y>> \notin abandoned', phase[r][y] \in Resting
       PROVE  Quiet(sends, wire, replies[r], r, y) /\ Sound(sends, retired, r, y)
  <2>1. CASE <<r, y>> \notin abandoned
    <3>1. /\ Sound(sends, retired, r, y)
          /\ Conversation(sends, prop[r][y], wire, replies[r], phase[r][y], got[r][y], r, y)
      BY <1>1, <1>2, <2>1, TalkIs
    <3> QED BY <1>19, <3>1 DEF Conversation, Resting
  <2>2. CASE Over(r, y)
    <3>1. Quiet(sends, wire, replies[r], r, y)
      BY <1>1, <2>2, OverIs
    <3> QED BY <3>1 DEF Quiet, Sound, OneSlot, NoSlot
  <2> QED BY <1>18, <1>19, <2>1, <2>2
<1>16. ASSUME NEW x \in Requestor, NEW y \in Prop PROVE Talk(x, y)'
  <2>1. CASE x = r /\ y \in ps
    <3>1. /\ Clean(Absent) /\ prop'[r][y] = Absent /\ phase'[r][y] = "asked" /\ got'[r][y] = << >>
      BY <1>12, <1>13, <1>14, <2>1 DEF Clean, Absent
    <3>6. CASE <<r, y>> \in abandoned'
      BY <1>2, <2>1, <3>1, <3>6, Adrift
    <3>7. CASE <<r, y>> \notin abandoned'
      <4>3. Quiet(sends, wire, replies[r], r, y) /\ Sound(sends, retired, r, y)
        BY <1>2, <1>19, <2>1, <3>7
      <4>4. Pending(wire \o t, r, y)
        <5>1. AsksFor(t[Len(t)], r, y) /\ Len(t) > 0
          BY <1>7, <1>8, <2>1
        <5>2. \A k \in 1..(Len(t) - 1) : ~AsksFor(t[k], r, y)
          BY <1>7, <1>10
        <5> QED BY <1>7, <1>11, <4>3, <5>1, <5>2, SentRequest DEF Quiet
      <4>5. Conversation(sends', Absent, wire', replies'[r], "asked", << >>, r, y)
        BY <1>2, <4>3, <4>4 DEF Conversation, Waits, Quiet
      <4> QED BY <1>2, <2>1, <3>1, <4>3, <4>5, Touched
    <3> QED BY <3>6, <3>7
  <2>2. CASE ~(x = r /\ y \in ps)
    <3>1. prop'[x][y] = prop[x][y] /\ phase'[x][y] = phase[x][y] /\ got'[x][y] = got[x][y]
      BY <1>12, <1>13, <1>14, <2>2
    <3>2. \A k \in 1..Len(t) : k \in 1..Len(d) \/ k = Len(d) + 1
      BY <1>7
    <3>3. \A k \in 1..Len(d) : t[k] # DeletionOf(x, y)
      BY <1>5, <1>7, <2>2, DeletionIs
    <3>4. \A k \in 1..Len(t) : ~AsksFor(t[k], x, y) /\ t[k] # DeletionOf(x, y)
      BY <1>7, <1>8, <1>9, <1>10, <2>2, <3>2, <3>3
    <3>5. WireKept(wire, wire \o t, x, y)
      BY <1>7, <1>11, <3>4, SentOther
    <3>6. <<x, y>> \in abandoned' <=> <<x, y>> \in abandoned
      BY <1>18, <2>2
    <3> QED BY <1>1, <1>2, <3>1, <3>5, <3>6, SlotsSame, AnswersSame, Untouched
  <2> QED BY <2>1, <2>2
<1>17. ASSUME ~Concurrent PROVE OneByOne'
  <2>1. PICK a : ps = {a}
    BY <1>2, <1>3, <1>17, FS_Singleton
  <2>2. ASSUME NEW x \in alive, NEW y \in Prop, NEW z \in Prop,
               phase'[x][y] \notin Resting, phase'[x][z] \notin Resting
        PROVE  y = z
    <3>1. x \in Requestor
      BY <1>1 DEF Types
    <3>2. CASE x = r
      BY <1>2, <1>12, <1>17, <2>1, <2>2, <3>1, <3>2
    <3>3. CASE x # r
      BY <1>12, <1>17, <2>2, <3>1, <3>3 DEF OwnerInv, OneByOne, OneTalk
    <3> QED BY <3>2, <3>3
  <2>3. OneTalk'
    BY <1>2, <2>2 DEF OneTalk, Resting
  <2>4. ASSUME NEW i \in 1..Slots, sends[i].active, sends[i].requestor \in Steady'
        PROVE  sends[i].requestor \in Steady
    <3>1. CASE sends[i].requestor = r
      <4> DEFINE y == sends[i].property
      <4>1. y \in Prop /\ Sending(sends[i], r, y)
        BY <1>1, <2>4, <3>1, SlotIs DEF Types, Sending
      <4>2. <<r, y>> \notin abandoned' /\ phase[r][y] \in Resting
        BY <1>2, <1>17, <2>4, <3>1, <4>1 DEF Steady
      <4> HIDE DEF y
      <4>3. NoSlot(sends, r, y)
        BY <1>19, <4>1, <4>2 DEF Quiet
      <4> QED BY <4>1, <4>3 DEF NoSlot
    <3>2. CASE sends[i].requestor # r
      BY <1>2, <1>18, <2>4, <3>2 DEF Steady
    <3> QED BY <3>1, <3>2
  <2>5. Apart(sends, Steady) /\ Watches(sends, watch, Steady)
    BY <1>17 DEF OwnerInv, OneByOne
  <2>6. Apart(sends, Steady') /\ Watches(sends, watch, Steady')
    BY <2>4, <2>5 DEF Apart, Watches
  <2> QED BY <1>2, <2>3, <2>6 DEF OneByOne
<1> QED BY <1>15, <1>16, <1>17 DEF OwnerInv, Talks

LEMMA ClearOwner ==
  ASSUME OwnerInv, wire # << >>, wire' = Tail(wire), Head(wire).type = "CLEAR",
         HandleSelectionClear, UNCHANGED <<alive, phase, got, abandoned>>
  PROVE  OwnerInv'
<1>1. Types /\ Talks
  BY DEF OwnerInv
<1>2. /\ owned' = NoText
      /\ UNCHANGED <<prop, sends, watch, retired, replies, alive, phase, got, abandoned>>
  BY DEF HandleSelectionClear
<1>3. wire \in Seq(Event) /\ wire' \in Seq(Event)
  BY <1>1, TailIs DEF Types
<1>4. Types'
  BY <1>1, <1>2, <1>3 DEF Types
<1>5. ASSUME NEW r \in Requestor, NEW p \in Prop PROVE Talk(r, p)'
  <2>1. ~AsksFor(Head(wire), r, p)
    BY DEF AsksFor
  <2>2. WireKept(wire, wire', r, p)
    BY <1>3, <2>1, ReadOther
  <2> QED BY <1>1, <1>2, <2>2, SlotsSame, AnswersSame, Untouched
<1>6. ~Concurrent => OneByOne'
  BY <1>2, SteadyKept DEF OwnerInv, OneByOne, OneTalk
<1> QED BY <1>4, <1>5, <1>6 DEF OwnerInv, Talks

LEMMA RequestOwner ==
  ASSUME OwnerInv, wire # << >>, wire' = Tail(wire), NEW e, e = Head(wire), e.type = "REQUEST",
         HandleSelectionRequest(e), UNCHANGED <<alive, phase, got, abandoned>>
  PROVE  OwnerInv'
<1>1. Types /\ Talks
  BY DEF OwnerInv
<1>2. /\ wire \in Seq(Event) /\ wire' \in Seq(Event) /\ e \in Event
      /\ Len(wire) \in Nat /\ Len(wire) > 0 /\ e = wire[1]
  BY <1>1, TailIs DEF Types
<1>3. PICK after \in Writing :
    /\ sends' = after.sends /\ prop' = after.prop /\ watch' = after.watch
    /\ retired' = after.retired /\ owned' = owned
    /\ replies' = IF e.win \in alive THEN [replies EXCEPT ![e.win] = @ \o after.grants] ELSE replies
    /\ \A x \in Requestor, y \in Prop : Clean(prop[x][y]) => Clean(after.prop[x][y])
    /\ \A x \in Requestor, y \in Prop : ~AsksFor(e, x, y) =>
         /\ after.prop[x][y] = prop[x][y]
         /\ SlotsKept(sends, after.sends, x, y)
         /\ Sound(sends, retired, x, y) => Sound(after.sends, after.retired, x, y)
         /\ x = e.win => NoAnswer(after.grants, y)
    /\ \A x \in Requestor, y \in Prop :
         AsksFor(e, x, y) /\ x \in alive /\ NoSlot(sends, x, y) /\ Sound(sends, retired, x, y) =>
           /\ x = e.win /\ Sound(after.sends, after.retired, x, y)
           /\ \E granted \in BOOLEAN :
                OneAnswer(after.grants, y, granted)
                /\ Stands(after.sends, after.prop[x][y], x, y, granted)
    /\ /\ Alone(sends, watch)
       /\ e.win \in Steady /\ e.props # << >> => Len(e.props) = 1 /\ Slotless(sends, e.win)
       => Alone(after.sends, after.watch)
  BY <1>1, <1>2, RequestServed
<1>4. /\ after.sends \in [1..Slots -> Slot] /\ after.prop \in [Requestor -> [Prop -> Property]]
      /\ after.watch \subseteq Requestor /\ after.retired \subseteq Requestor \X Prop
      /\ after.grants \in Seq(Reply)
  BY DEF Writing
<1>5. e.win \in Requestor /\ e.props \in Seq(Prop) /\ IsInjective(e.props)
  BY <1>2, EventIs
<1>6. /\ replies \in [Requestor -> Seq(Reply)] /\ replies' \in [Requestor -> Seq(Reply)]
      /\ \A x \in Requestor : replies'[x] = IF x = e.win /\ x \in alive
                                            THEN replies[x] \o after.grants ELSE replies[x]
  <2>1. replies \in [Requestor -> Seq(Reply)]
    BY <1>1 DEF Types
  <2>2. \A x \in Requestor : replies[x] \o after.grants \in Seq(Reply)
    BY <1>4, <2>1, ConcatIs
  <2> QED BY <1>3, <1>5, <2>1, <2>2
<1>7. Types'
  BY <1>1, <1>2, <1>3, <1>4, <1>6 DEF Types
<1>8. ASSUME NEW x \in Requestor, NEW y \in Prop, AsksFor(e, x, y), x \in alive,
             <<x, y>> \notin abandoned
      PROVE  /\ x = e.win /\ phase[x][y] = "asked" /\ got[x][y] = << >>
             /\ Waits(sends, wire, replies[x], x, y)
             /\ Clean(prop[x][y]) /\ Sound(sends, retired, x, y)
  <2>1. ~NoAsk(wire, x, y)
    BY <1>2, <1>8 DEF NoAsk
  <2> QED BY <1>1, <1>8, <2>1, TalkIs DEF Conversation, Quiet, Answered, AsksFor
<1>9. ASSUME NEW x \in Requestor, NEW y \in Prop PROVE Talk(x, y)'
  <2>1. CASE AsksFor(e, x, y) /\ x \in alive /\ <<x, y>> \notin abandoned
    <3>1. /\ x = e.win /\ phase[x][y] = "asked" /\ got[x][y] = << >>
          /\ Pending(wire, x, y) /\ NoAnswer(replies[x], y) /\ NoSlot(sends, x, y)
          /\ Clean(prop[x][y]) /\ Sound(sends, retired, x, y)
      BY <1>8, <2>1 DEF Waits
    <3>2. NoAsk(wire', x, y) /\ NoDelete(wire', x, y)
      BY <1>2, <2>1, <3>1, ReadRequest
    <3>3. PICK granted \in BOOLEAN :
            /\ Sound(sends', retired', x, y)
            /\ OneAnswer(after.grants, y, granted)
            /\ Stands(sends', prop'[x][y], x, y, granted)
      BY <1>3, <2>1, <3>1
    <3>4. OneAnswer(replies[x] \o after.grants, y, granted)
      BY <1>4, <1>6, <3>1, <3>3, AnsweredThis
    <3>5. replies'[x] = replies[x] \o after.grants
      BY <1>6, <2>1, <3>1
    <3>6. Answered(sends', prop'[x][y], wire', replies'[x], x, y)
      BY <3>2, <3>3, <3>4, <3>5 DEF Answered
    <3>7. Conversation(sends', prop'[x][y], wire', replies'[x], "asked", << >>, x, y)
      BY <3>6 DEF Conversation
    <3>8. Clean(prop'[x][y])
      BY <1>3, <3>1
    <3>9. phase'[x][y] = "asked" /\ got'[x][y] = << >> /\ x \in alive'
      BY <2>1, <3>1
    <3> QED BY <3>3, <3>7, <3>8, <3>9, Touched
  <2>2. CASE x \notin alive
    <3>1. Clean(prop[x][y]) /\ phase[x][y] = "idle" /\ replies[x] = << >>
      BY <1>1, <2>2 DEF Talks, Talk
    <3>2. Clean(prop'[x][y]) /\ phase'[x][y] = "idle" /\ replies'[x] = << >> /\ x \notin alive'
      BY <1>3, <1>6, <2>2, <3>1
    <3> QED BY <3>2 DEF Talk
  <2>3. CASE ~AsksFor(e, x, y) /\ x \in alive
    <3>1. WireKept(wire, wire', x, y)
      BY <1>2, <2>3, ReadOther
    <3>2. AnswersKept(replies[x], replies'[x], y)
      <4>1. CASE x = e.win
        <5>1. NoAnswer(after.grants, y)
          BY <1>3, <2>3, <4>1
        <5>2. AnswersKept(replies[x], replies[x] \o after.grants, y)
          BY <1>4, <1>6, <5>1, AnsweredOther
        <5> QED BY <1>6, <2>3, <4>1, <5>2
      <4>2. CASE x # e.win
        BY <1>6, <4>2, AnswersSame
      <4> QED BY <4>1, <4>2
    <3>3. /\ prop'[x][y] = prop[x][y] /\ SlotsKept(sends, sends', x, y)
          /\ Sound(sends, retired, x, y) => Sound(sends', retired', x, y)
      BY <1>3, <2>3
    <3> QED BY <1>1, <2>3, <3>1, <3>2, <3>3, Untouched
  <2>4. CASE x \in alive /\ <<x, y>> \in abandoned
    <3>1. Clean(prop'[x][y])
      BY <1>1, <1>3 DEF Talks, Talk
    <3> QED BY <2>4, <3>1, Adrift
  <2> QED BY <2>1, <2>2, <2>3, <2>4
<1>10. ASSUME ~Concurrent PROVE OneByOne'
  <2>1. OneTalk /\ Alone(sends, watch)
    BY <1>10 DEF OwnerInv, OneByOne, Alone
  <2>2. ASSUME e.win \in Steady, e.props # << >>
        PROVE  Len(e.props) = 1 /\ Slotless(sends, e.win)
    <3> DEFINE ps == e.props
               r == e.win
               n == Len(ps)
    <3>1. /\ n \in Nat /\ n # 0 /\ r \in Requestor /\ r \in alive /\ ps \in Seq(Prop)
          /\ \A y \in Prop : <<r, y>> \notin abandoned
      BY <1>5, <2>2 DEF Steady
    <3>2. \A k \in 1..n : AsksFor(e, r, ps[k]) /\ ps[k] \in Prop
      BY <1>5 DEF AsksFor
    <3>3. \A k \in 1..n : phase[r][ps[k]] = "asked" /\ NoSlot(sends, r, ps[k])
      BY <1>8, <3>1, <3>2 DEF Waits
    <3>4. \A k \in 1..n : ps[k] = ps[1]
      BY <2>1, <3>1, <3>2, <3>3 DEF OneTalk, Resting
    <3>5. \A j, k \in 1..n : ps[j] = ps[k] => j = k
      BY <1>5, <3>1 DEF IsInjective
    <3> HIDE DEF ps, r, n
    <3>6. n = 1
      <4>1. 1 \in 1..n /\ n \in 1..n
        BY <3>1
      <4> QED BY <3>4, <3>5, <4>1
    <3>7. ASSUME NEW i \in 1..Slots, sends[i].active, sends[i].requestor = r PROVE FALSE
      <4> DEFINE y == sends[i].property
      <4>1. y \in Prop /\ Sending(sends[i], r, y)
        BY <1>1, <3>7, SlotIs DEF Types, Sending
      <4> HIDE DEF y
      <4>2. ~NoSlot(sends, r, y)
        BY <4>1 DEF NoSlot
      <4>3. Conversation(sends, prop[r][y], wire, replies[r], phase[r][y], got[r][y], r, y)
        BY <1>1, <3>1, <4>1, TalkIs
      <4>4. phase[r][y] \notin Resting
        BY <4>2, <4>3 DEF Conversation, Quiet, Resting
      <4>5. 1 \in 1..n
        BY <3>6
      <4>6. y = ps[1]
        BY <2>1, <3>1, <3>2, <3>3, <4>1, <4>4, <4>5 DEF OneTalk, Resting
      <4> QED BY <3>3, <4>2, <4>5, <4>6
    <3>8. Slotless(sends, r)
      BY <3>7 DEF Slotless
    <3> QED BY <3>6, <3>8 DEF n, r, ps
  <2>3. Alone(after.sends, after.watch)
    BY <1>3, <2>1, <2>2
  <2>4. OneTalk'
    BY <1>10 DEF OneTalk, OwnerInv, OneByOne
  <2>5. Apart(sends', Steady') /\ Watches(sends', watch', Steady')
    BY <1>3, <2>3, SteadyKept DEF Alone
  <2> QED BY <2>4, <2>5 DEF OneByOne
<1> QED BY <1>7, <1>9, <1>10 DEF OwnerInv, Talks

\* The next piece of a text is more than the property held, and no INCR.
LEMMA NextValueIs ==
  ASSUME NEW t \in Text, NEW n \in Nat, NEW v \in Seq(Piece)
  PROVE  /\ v \o <<<<t, n + 1>>>> \in Seq(Piece)
         /\ v \o <<<<t, n + 1>>>> # << >> /\ v \o <<<<t, n + 1>>>> # <<Incr>>
<1> DEFINE e == <<t, n + 1>>
           c == <<e>>
           u == v \o c
<1>1. e \in Piece /\ e[2] = n + 1 /\ Incr[2] = 0
  BY DEF Piece, Incr
<1> HIDE DEF e
<1>2. c \in Seq(Piece) /\ Len(c) = 1 /\ c[1] = e
  BY <1>1
<1> HIDE DEF c
<1> HIDE DEF u
<1>3. /\ u \in Seq(Piece) /\ Len(u) = Len(v) + Len(c) /\ Len(v) \in Nat /\ Len(c) \in Nat
      /\ \A i \in 1..Len(v) : i \in 1..Len(u) /\ u[i] = v[i]
      /\ \A i \in 1..Len(c) : Len(v) + i \in 1..Len(u) /\ u[Len(v) + i] = c[i]
      /\ \A i \in 1..Len(u) : i \notin 1..Len(v) => i - Len(v) \in 1..Len(c) /\ u[i] = c[i - Len(v)]
  <2>1. /\ v \o c \in Seq(Piece) /\ Len(v \o c) = Len(v) + Len(c) /\ Len(v) \in Nat /\ Len(c) \in Nat
        /\ \A i \in 1..Len(v) : i \in 1..Len(v \o c) /\ (v \o c)[i] = v[i]
        /\ \A i \in 1..Len(c) : Len(v) + i \in 1..Len(v \o c) /\ (v \o c)[Len(v) + i] = c[i]
        /\ \A i \in 1..Len(v \o c) : i \notin 1..Len(v) =>
              i - Len(v) \in 1..Len(c) /\ (v \o c)[i] = c[i - Len(v)]
    <3>1. c \in Seq(Piece) /\ v \in Seq(Piece)
      BY <1>2
    <3> QED BY ONLY <3>1, ConcatIs
  <2> QED BY <2>1 DEF u
<1>4. Len(u) = Len(v) + 1 /\ u[Len(v) + 1] = e
  BY <1>2, <1>3
<1>5. u # << >>
  BY <1>3, <1>4
<1>6. ASSUME u = <<Incr>> PROVE FALSE
  <2>1. Len(u) = 1 /\ u[1] = Incr
    BY <1>6
  <2>2. Len(v) + 1 = 1
    BY <1>3, <1>4, <2>1
  <2>3. e = Incr
    BY <1>4, <2>1, <2>2
  <2> QED BY <1>1, <2>3
<1> QED BY <1>3, <1>5, <1>6 DEF u, c, e

LEMMA BusyAfter ==
  ASSUME NEW s \in Busy, s.sent < Pieces[s.text],
         NEW a, a = [s EXCEPT !.sent = s.sent + 1, !.late = FALSE]
  PROVE  /\ a \in Busy /\ a.sent = s.sent + 1 /\ a.text = s.text
         /\ a.requestor = s.requestor /\ a.property = s.property
<1>1. s \in [active : {TRUE}, requestor : Requestor, property : Prop, text : Large,
             sent : Nat, late : BOOLEAN]
  BY DEF Busy
<1> DEFINE m == s.sent + 1
<1>2. Pieces[s.text] \in Nat
  BY <1>1, OwnerAssumption
<1>3. m \in Nat /\ m <= Pieces[s.text]
  BY <1>1, <1>2
<1>4. a = [s EXCEPT !.sent = m, !.late = FALSE]
  OBVIOUS
<1> HIDE DEF m
<1>5. /\ a \in [active : {TRUE}, requestor : Requestor, property : Prop, text : Large,
                sent : Nat, late : BOOLEAN]
      /\ a.sent = m /\ a.text = s.text /\ a.requestor = s.requestor /\ a.property = s.property
  BY <1>1, <1>3, <1>4
<1>6. a \in Busy
  BY <1>3, <1>5 DEF Busy
<1> QED BY <1>5, <1>6 DEF m

\* A delete that a slot answers.
LEMMA ServedDelete ==
  ASSUME OwnerInv, wire # << >>, wire' = Tail(wire), NEW r \in Requestor, NEW p \in Prop,
         Head(wire) = DeletionOf(r, p),
         UNCHANGED <<alive, phase, got, abandoned, owned, retired, replies>>,
         NEW i \in 1..Slots, Sending(sends[i], r, p), NEW s, s = sends[i],
         prop' = AppendProp(r, p, NextChunk(s)),
         sends' = IF EndsTransfer(s) THEN [j \in 1..Slots |-> IF j = i THEN FreeSlot ELSE sends[j]]
                  ELSE [sends EXCEPT ![i].sent = @ + 1, ![i].late = FALSE],
         watch' = IF EndsTransfer(s) THEN watch \ {s.requestor} ELSE watch
  PROVE  OwnerInv'
<1> DEFINE w == s.text
           n == s.sent
           new == sends'[i]
           v == prop[r][p].val
           g == got[r][p]
           next == v \o NextChunk(s)
<1>1. Types /\ Talks
  BY DEF OwnerInv
<1>2. /\ sends \in [1..Slots -> Slot] /\ s \in Slot /\ s.active
  BY <1>1 DEF Types, Sending
<1>3. /\ s \in Busy /\ s.requestor = r /\ s.property = p /\ w \in Text /\ w \in Large
      /\ n \in Nat /\ n <= Pieces[w] /\ Pieces[w] \in Nat
  <2>1. s \in Busy
    BY <1>2, FreeIs DEF Slot
  <2>2. w \in Large /\ n \in Nat /\ n <= Pieces[w] /\ s.requestor = r /\ s.property = p
    BY <1>2, SlotIs DEF Sending
  <2> QED BY <2>1, <2>2, OwnerAssumption
<1>4. /\ \A j \in 1..Slots : j # i => sends'[j] = sends[j]
      /\ EndsTransfer(s) => new = FreeSlot
      /\ ~EndsTransfer(s) => new = [s EXCEPT !.sent = n + 1, !.late = FALSE]
      /\ DOMAIN sends' = 1..Slots /\ sends' = [j \in DOMAIN sends' |-> sends'[j]]
  BY <1>2
<1> HIDE DEF new
<1>5. ~EndsTransfer(s) => /\ n < Pieces[w] /\ new \in Busy /\ new.sent = n + 1 /\ new.text = w
                          /\ new.requestor = r /\ new.property = p
  <2> SUFFICES ASSUME ~EndsTransfer(s)
               PROVE  /\ n < Pieces[w] /\ new \in Busy /\ new.sent = n + 1 /\ new.text = w
                      /\ new.requestor = r /\ new.property = p
    OBVIOUS
  <2>1. n # Pieces[w]
    BY DEF EndsTransfer
  <2>2. n < Pieces[w] /\ n + 1 \in Nat /\ n + 1 <= Pieces[w]
    <3> HIDE DEF n, w
    <3> QED BY <1>3, <2>1
  <2>3. new = [s EXCEPT !.sent = s.sent + 1, !.late = FALSE]
    BY <1>4
  <2>4. s.sent < Pieces[s.text]
    BY <2>2
  <2>5. /\ new \in Busy /\ new.sent = s.sent + 1 /\ new.text = s.text
        /\ new.requestor = s.requestor /\ new.property = s.property
    BY <1>3, <2>3, <2>4, BusyAfter
  <2> QED BY <1>3, <2>2, <2>5
<1>6. /\ new \in Slot /\ \A x, y : Sending(new, x, y) => x = r /\ y = p /\ ~EndsTransfer(s)
      /\ new.active => ~EndsTransfer(s) /\ new.requestor = r
  <2>1. CASE EndsTransfer(s)
    BY <1>4, <2>1, FreeIs DEF Slot
  <2>2. CASE ~EndsTransfer(s)
    BY <1>5, <2>2 DEF Slot, Sending
  <2> QED BY <2>1, <2>2
<1>7. sends' \in [1..Slots -> Slot]
  <2>1. \A j \in 1..Slots : sends'[j] \in Slot
    BY <1>2, <1>4, <1>6 DEF new
  <2> QED BY <1>4, <2>1
<1>8. v \in Seq(Piece) /\ g \in Seq(Piece) /\ prop \in [Requestor -> [Prop -> Property]]
  BY <1>1 DEF Types, Property
<1>9. /\ next \in Seq(Piece)
      /\ EndsTransfer(s) => next = v /\ n = Pieces[w]
      /\ ~EndsTransfer(s) => next = v \o <<<<w, n + 1>>>> /\ next # << >> /\ next # <<Incr>>
  <2>1. CASE EndsTransfer(s)
    <3>1. NextChunk(s) = << >> /\ n = Pieces[w]
      BY <2>1 DEF EndsTransfer, NextChunk
    <3> QED BY <1>8, <2>1, <3>1, ConcatEmptySeq
  <2>2. CASE ~EndsTransfer(s)
    <3>1. NextChunk(s) = <<<<w, n + 1>>>>
      BY <2>2 DEF EndsTransfer, NextChunk
    <3>2. next = v \o <<<<w, n + 1>>>>
      BY <3>1
    <3> HIDE DEF next, v, w, n
    <3> QED BY <1>3, <1>8, <2>2, <3>2, NextValueIs
  <2> QED BY <2>1, <2>2
<1> HIDE DEF next
<1>10. /\ prop' \in [Requestor -> [Prop -> Property]]
       /\ \A x \in Requestor, y \in Prop : prop'[x][y] =
            IF x = r /\ y = p /\ r \in alive /\ v # <<Incr>> THEN Value(next) ELSE prop[x][y]
  <2>1. CASE r \notin alive \/ v = <<Incr>>
    BY <1>8, <2>1 DEF AppendProp
  <2>2. CASE r \in alive /\ v # <<Incr>>
    <3>1. prop' = [prop EXCEPT ![r][p] = Value(next)]
      BY <2>2 DEF AppendProp, next
    <3>2. Value(next) \in Property
      BY <1>9 DEF Value, Property
    <3> QED BY <1>8, <2>2, <3>1, <3>2
  <2> QED BY <2>1, <2>2
<1>11. /\ wire \in Seq(Event) /\ wire' \in Seq(Event)
       /\ Len(wire) \in Nat /\ Len(wire) > 0 /\ wire[1] = DeletionOf(r, p)
       /\ \A x, y : ~AsksFor(Head(wire), x, y)
  BY <1>1, TailIs, DeletionIs DEF Types
<1>12. watch' \subseteq Requestor
  BY <1>1 DEF Types
<1>13. Types'
  BY <1>1, <1>7, <1>10, <1>11, <1>12 DEF Types
<1>14. \A x \in Requestor, y \in Prop : WireKept(wire, wire', x, y)
  BY <1>11, ReadOther
<1>15. ASSUME NEW j \in 1..Slots, NEW x \in Requestor, NEW y \in Prop, Sending(sends'[j], x, y)
       PROVE  Sending(sends[j], x, y) /\ (j = i => x = r /\ y = p /\ ~EndsTransfer(s))
  <2>1. CASE j = i
    <3>1. Sending(new, x, y)
      BY <1>15, <2>1 DEF new
    <3> QED BY <1>6, <2>1, <3>1
  <2>2. CASE j # i
    BY <1>4, <1>15, <2>2
  <2> QED BY <2>1, <2>2
<1>16. ASSUME r \in alive, <<r, p>> \notin abandoned PROVE Talk(r, p)'
  <2>1. /\ Sound(sends, retired, r, p)
        /\ Conversation(sends, prop[r][p], wire, replies[r], phase[r][p], g, r, p)
    BY <1>1, <1>16, TalkIs
  <2>2. ~NoSlot(sends, r, p)
    BY DEF NoSlot
  <2>3. ~NoDelete(wire, r, p)
    BY <1>11 DEF NoDelete
  <2>4. /\ phase[r][p] = "receiving" /\ NoAsk(wire, r, p) /\ NoAnswer(replies[r], p)
        /\ Receives(sends, prop[r][p], g, r, p)
    BY <2>1, <2>2, <2>3 DEF Conversation, Quiet, Waits, Answered
  <2>5. v # <<Incr>> /\ g \o v = SubSeq(Whole(w), 1, n)
    BY <2>4 DEF Receives
  <2>6. \A j \in 1..Slots : Sending(sends'[j], r, p) => j = i /\ ~EndsTransfer(s)
    BY <1>15, <2>1 DEF Sound, OneSlot
  <2>7. Sound(sends', retired', r, p)
    BY <1>15, <2>1, <2>6 DEF Sound, OneSlot, NoSlot
  <2>8. prop'[r][p] = Value(next) /\ Clean(Value(next))
        /\ Value(next).val = next /\ Value(next).set
    BY <1>10, <1>16, <2>5 DEF Value, Clean
  <2>9. NoAsk(wire', r, p)
    BY <1>14, <2>4 DEF WireKept
  <2>10. Receives(sends', Value(next), g, r, p)
    <3>1. CASE EndsTransfer(s)
      <4>1. next = v /\ n = Pieces[w]
        BY <1>9, <3>1
      <4> QED BY <1>3, <2>5, <2>6, <2>8, <3>1, <4>1 DEF Receives
    <3>2. CASE ~EndsTransfer(s)
      <4>1. n < Pieces[w] /\ next = v \o <<<<w, n + 1>>>> /\ next # << >> /\ next # <<Incr>>
        BY <1>5, <1>9, <3>2
      <4> HIDE DEF v, g, w, n
      <4>2. g \o next = SubSeq(Whole(w), 1, n + 1)
        <5>1. g \o (v \o <<<<w, n + 1>>>>) = SubSeq(Whole(w), 1, n + 1)
          BY <1>3, <1>8, <2>5, <4>1, NextPart
        <5> QED BY <4>1, <5>1
      <4>3. n + 1 \in Nat /\ n + 1 <= Pieces[w]
        BY <1>3, <4>1
      <4>4. \A j \in 1..Slots : Sending(sends'[j], r, p) =>
              sends'[j].text = w /\ sends'[j].sent = n + 1
        BY <1>5, <2>6, <3>2 DEF new
      <4> QED BY <1>3, <2>8, <4>1, <4>2, <4>3, <4>4 DEF Receives
    <3> QED BY <3>1, <3>2
  <2>11. Conversation(sends', Value(next), wire', replies'[r], "receiving", g, r, p)
    BY <2>4, <2>9, <2>10 DEF Conversation
  <2>12. phase'[r][p] = "receiving" /\ got'[r][p] = g /\ r \in alive'
    BY <1>16, <2>4
  <2> HIDE DEF g
  <2> QED BY <2>7, <2>8, <2>11, <2>12, Touched
<1>17. ASSUME NEW x \in Requestor, NEW y \in Prop PROVE Talk(x, y)'
  <2>1. CASE x = r /\ y = p /\ r \in alive /\ <<r, p>> \notin abandoned
    BY <1>16, <2>1
  <2>3. CASE x = r /\ y = p /\ r \in alive /\ <<r, p>> \in abandoned
    <3>1. Clean(prop[r][p]) /\ Clean(Value(next))
      BY <1>1 DEF Talks, Talk, Value, Clean
    <3>2. Clean(prop'[r][p])
      BY <1>10, <3>1
    <3> QED BY <2>3, <3>2, Adrift
  <2>2. CASE ~(x = r /\ y = p /\ r \in alive)
    <3>1. prop'[x][y] = prop[x][y]
      BY <1>10, <2>2
    <3>2. ASSUME x \in alive
          PROVE  /\ SlotsKept(sends, sends', x, y)
                 /\ Sound(sends, retired, x, y) => Sound(sends', retired', x, y)
      <4>1. \A j \in 1..Slots : Sending(sends'[j], x, y) => Sending(sends[j], x, y) /\ j # i
        <5>1. ~(x = r /\ y = p)
          BY <2>2, <3>2
        <5> QED BY <1>15, <5>1
      <4>2. SlotsKept(sends, sends', x, y)
        BY <1>4, <4>1 DEF SlotsKept
      <4>3. ASSUME Sound(sends, retired, x, y) PROVE Sound(sends', retired', x, y)
        <5>1. <<x, y>> \in retired' => <<x, y>> \in retired \/ NoSlot(sends', x, y)
          OBVIOUS
        <5> QED BY <4>2, <4>3, <5>1, SoundKept
      <4> QED BY <4>2, <4>3
    <3> QED BY <1>1, <1>14, <3>1, <3>2, AnswersSame, Untouched
  <2> QED BY <2>1, <2>2, <2>3
<1>18. ASSUME ~Concurrent PROVE OneByOne'
  <2>1. OneTalk /\ Apart(sends, Steady) /\ Watches(sends, watch, Steady)
    BY <1>18 DEF OwnerInv, OneByOne
  <2>2. \A j \in 1..Slots : sends'[j].active =>
          sends[j].active /\ sends'[j].requestor = sends[j].requestor
          /\ (j = i => ~EndsTransfer(s))
    BY <1>2, <1>3, <1>4, <1>6 DEF new
  <2>3. Apart(sends', Steady)
    BY <2>1, <2>2 DEF Apart
  <2>4. Watches(sends', watch', Steady)
    <3>1. ASSUME NEW j \in 1..Slots, sends'[j].active, sends'[j].requestor \in Steady
          PROVE  sends'[j].requestor \in watch'
      <4>1. sends[j].active /\ sends'[j].requestor = sends[j].requestor
            /\ sends[j].requestor \in watch
        BY <2>1, <2>2, <3>1 DEF Watches
      <4>2. EndsTransfer(s) => sends[j].requestor # r
        BY <1>2, <1>3, <2>1, <2>2, <3>1, <4>1 DEF Apart
      <4> QED BY <1>3, <4>1, <4>2
    <3> QED BY <3>1 DEF Watches
  <2>5. Steady' = Steady /\ OneTalk'
    BY <2>1, SteadyKept DEF OneTalk
  <2> QED BY <2>3, <2>4, <2>5 DEF OneByOne
<1> QED BY <1>13, <1>17, <1>18 DEF OwnerInv, Talks

LEMMA DeleteOwner ==
  ASSUME OwnerInv, wire # << >>, wire' = Tail(wire), NEW e, e = Head(wire), e.type = "DELETE",
         HandlePropertyNotify(e), UNCHANGED <<alive, phase, got, abandoned>>
  PROVE  OwnerInv'
<1>1. Types /\ Talks
  BY DEF OwnerInv
<1>2. wire \in Seq(Event) /\ wire' \in Seq(Event) /\ e \in Event
  BY <1>1, TailIs DEF Types
<1>3. PICK p \in Prop : e.win \in Requestor /\ e = DeletionOf(e.win, p) /\ e.props[1] = p
  BY <1>2, EventIs
<1>4. PICK r \in Requestor : r = e.win
  BY <1>3
<1> DEFINE slots == {i \in 1..Slots : Sending(sends[i], r, p)}
<1>5. UNCHANGED <<owned, retired, replies>>
  BY DEF HandlePropertyNotify
<1>6. CASE slots = {}
  <2>1. UNCHANGED <<prop, sends, watch>>
    BY <1>3, <1>4, <1>6 DEF HandlePropertyNotify
  <2>2. Types'
    BY <1>1, <1>2, <1>5, <2>1 DEF Types
  <2>3. ASSUME NEW x \in Requestor, NEW y \in Prop PROVE Talk(x, y)'
    <3>1. ~AsksFor(Head(wire), x, y)
      BY DEF AsksFor
    <3>2. WireKept(wire, wire', x, y)
      BY <1>2, <3>1, ReadOther
    <3> QED BY <1>1, <1>5, <2>1, <3>2, SlotsSame, AnswersSame, Untouched
  <2>4. ~Concurrent => OneByOne'
    BY <2>1, SteadyKept DEF OwnerInv, OneByOne, OneTalk
  <2> QED BY <2>2, <2>3, <2>4 DEF OwnerInv, Talks
<1>7. CASE slots # {}
  <2> DEFINE least == CHOOSE j \in slots : \A k \in slots : j <= k
  <2>1. least \in slots
    <3> DEFINE T == slots
    <3>1. T \in SUBSET (1..Slots) /\ T # {}
      BY <1>7
    <3> HIDE DEF T
    <3>2. \E i \in T : \A j \in T : i <= j
      BY <3>1, LeastSlot
    <3> QED BY <3>2 DEF T
  <2>2. PICK i \in 1..Slots : i = least /\ Sending(sends[i], r, p)
    BY <2>1
  <2> DEFINE ended == IncrEnd([sends |-> sends, watch |-> watch], {i})
  <2>3. /\ prop' = AppendProp(r, p, NextChunk(sends[i]))
        /\ sends' = IF EndsTransfer(sends[i]) THEN ended.sends
                    ELSE [sends EXCEPT ![i].sent = @ + 1, ![i].late = FALSE]
        /\ watch' = IF EndsTransfer(sends[i]) THEN ended.watch ELSE watch
    BY <1>3, <1>4, <1>7, <2>2 DEF HandlePropertyNotify
  <2>4. /\ ended.sends = [j \in 1..Slots |-> IF j = i THEN FreeSlot ELSE sends[j]]
        /\ ended.watch = watch \ {sends[i].requestor}
    BY <1>1 DEF IncrEnd, Types
  <2> HIDE DEF ended
  <2>5. PICK s : s = sends[i]
    OBVIOUS
  <2>6. Head(wire) = DeletionOf(r, p)
    BY <1>3, <1>4
  <2>7. /\ Sending(sends[i], r, p)
        /\ prop' = AppendProp(r, p, NextChunk(s))
        /\ sends' = IF EndsTransfer(s) THEN [j \in 1..Slots |-> IF j = i THEN FreeSlot ELSE sends[j]]
                    ELSE [sends EXCEPT ![i].sent = @ + 1, ![i].late = FALSE]
        /\ watch' = IF EndsTransfer(s) THEN watch \ {s.requestor} ELSE watch
    BY <2>2, <2>3, <2>4, <2>5
  <2> QED BY <1>5, <2>5, <2>6, <2>7, ServedDelete
<1> QED BY <1>6, <1>7

LEMMA DispatchOwner ==
  ASSUME OwnerInv, Dispatch
  PROVE  OwnerInv'
<1>1. PICK e : e = Head(wire)
  OBVIOUS
<1>2. wire # << >> /\ wire' = Tail(wire) /\ UNCHANGED <<alive, phase, got, abandoned>>
  BY DEF Dispatch
<1>3. e \in Event
  BY <1>1, <1>2, TailIs DEF OwnerInv, Types
<1>4. CASE e.type = "REQUEST"
  <2>1. HandleSelectionRequest(e)
    BY <1>1, <1>4, Zenon DEF Dispatch
  <2> QED BY <1>1, <1>2, <1>4, <2>1, RequestOwner
<1>5. CASE e.type = "DELETE"
  <2>1. HandlePropertyNotify(e)
    <3>1. "DELETE" # "REQUEST"
      OBVIOUS
    <3> QED BY <1>1, <1>5, <3>1, Zenon DEF Dispatch
  <2> QED BY <1>1, <1>2, <1>5, <2>1, DeleteOwner
<1>6. CASE e.type = "CLEAR"
  <2>1. HandleSelectionClear
    <3>1. "CLEAR" # "REQUEST" /\ "CLEAR" # "DELETE"
      OBVIOUS
    <3> QED BY <1>1, <1>6, <3>1, Zenon DEF Dispatch
  <2> QED BY <1>1, <1>2, <1>6, <2>1, ClearOwner
<1> QED BY <1>3, <1>4, <1>5, <1>6, EventIs

LEMMA NextOwner ==
  ASSUME OwnerInv, [Next]_vars
  PROVE  OwnerInv'
<1>1. CASE Dispatch
  BY <1>1, DispatchOwner
<1>2. ASSUME NEW t \in Text, OwnSelection(t) PROVE OwnerInv'
  BY <1>2, StutterOwner DEF OwnSelection
<1>3. ASSUME NEW i \in 1..Slots, DeadlinePasses(i) PROVE OwnerInv'
  BY <1>3, DeadlineOwner
<1>4. CASE OtherOwns
  BY <1>4, OtherOwnsOwner
<1>5. ASSUME NEW r \in Requestor, NEW ps \in SUBSET Prop \ {{}}, Ask(r, ps) PROVE OwnerInv'
  BY <1>5, AskOwner
<1>6. ASSUME NEW r \in Requestor, TakeReply(r) PROVE OwnerInv'
  BY <1>6, TakeReplyOwner
<1>7. ASSUME NEW r \in Requestor, NEW p \in Prop, Receive(r, p) PROVE OwnerInv'
  BY <1>7, ReceiveOwner
<1>8. ASSUME NEW r \in Requestor, NEW p \in Prop, GiveUp(r, p) PROVE OwnerInv'
  BY <1>8, GiveUpOwner
<1>9. ASSUME NEW r \in Requestor, Exit(r) PROVE OwnerInv'
  BY <1>9, ExitOwner
<1>10. CASE UNCHANGED vars
  <2>1. owned' \in Text \cup {NoText}
    BY <1>10 DEF OwnerInv, Types, vars
  <2> QED BY <1>10, <2>1, StutterOwner DEF vars
<1> QED BY <1>1, <1>2, <1>3, <1>4, <1>5, <1>6, <1>7, <1>8, <1>9, <1>10 DEF Next, Requestors

-----------------------------------------------------------------------------
(* The theorems *)

\* A conversation that its requestor did not give up with libnack still at it is
\* in one place, in a request on the wire, in an answer, in the property or in a
\* slot, and that place agrees with what the requestor has read
\* (nack__xcb_write_target, nack__xcb_handle_property_notify,
\* nack__xcb_incr_slot).  One that was given up is so again from the next
\* question put after libnack is through with it.
THEOREM OwnerInvariant == Spec => []OwnerInv
<1>1. Init => OwnerInv
  BY InitOwner
<1>2. OwnerInv /\ [Next]_vars => OwnerInv'
  BY NextOwner
<1> QED BY <1>1, <1>2, PTL DEF Spec

\* On a property it has not abandoned a requestor never reads parts of two
\* texts, and when a transfer has ended it has the whole of one, whatever was
\* copied, answered, refused or retired meanwhile, whatever it gave up on other
\* properties, and whether or not it asks for several at once.
THEOREM TextsAreWhole == Spec => []NoSplice
<1>1. OwnerInv => NoSplice
  <2> SUFFICES ASSUME OwnerInv, NEW r \in Requestor, NEW p \in Prop,
                      <<r, p>> \notin abandoned, phase[r][p] \in {"receiving", "done"}
               PROVE  \E t \in Text : /\ IsPrefix(got[r][p], Whole(t))
                                      /\ phase[r][p] = "done" => got[r][p] = Whole(t)
    BY DEF NoSplice, ArrivesWhole
  <2> DEFINE g == got[r][p]
             v == prop[r][p].val
  <2>1. g \in Seq(Piece) /\ v \in Seq(Piece)
    BY DEF OwnerInv, Types, Property
  <2>2. r \in alive
    BY DEF OwnerInv, Talks, Talk
  <2>3. Conversation(sends, prop[r][p], wire, replies[r], phase[r][p], g, r, p)
    BY <2>2, TalkIs DEF OwnerInv
  <2> HIDE DEF g, v
  <2>4. CASE phase[r][p] = "done"
    <3>1. PICK t \in Text : g = Whole(t)
      BY <2>3, <2>4 DEF Conversation
    <3>2. IsPrefix(g, Whole(t))
      <4>1. Len(g) = Pieces[t] /\ Whole(t) = SubSeq(Whole(t), 1, Pieces[t])
        BY <3>1, WholeIs, PartOfWhole
      <4> QED BY <3>1, <4>1, WholeIs DEF IsPrefix
    <3> QED BY <2>4, <3>1, <3>2 DEF g
  <2>5. CASE phase[r][p] = "receiving"
    <3>1. PICK t \in Text, n \in Nat : n <= Pieces[t] /\ g \o v = SubSeq(Whole(t), 1, n)
      BY <2>3, <2>5 DEF Conversation, Receives, v
    <3>2. IsPrefix(g, Whole(t))
      <4> DEFINE u == SubSeq(Whole(t), 1, n)
                 w == Whole(t)
      <4>1. /\ u \in Seq(Piece) /\ Len(u) = n /\ \A k \in 1..n : u[k] = <<t, k>>
            /\ w \in Seq(Piece) /\ Len(w) = Pieces[t] /\ Pieces[t] \in Nat
            /\ \A k \in 1..Pieces[t] : w[k] = <<t, k>>
        BY <3>1, PartOfWhole, WholeIs
      <4> HIDE DEF u, w
      <4>2. /\ Len(u) = Len(g) + Len(v) /\ Len(g) \in Nat /\ Len(v) \in Nat
            /\ \A i \in 1..Len(g) : i \in 1..Len(u) /\ u[i] = g[i]
        BY <2>1, <3>1, ConcatIs DEF u
      <4>3. \A i \in 1..Len(g) : i \in 1..Pieces[t] /\ g[i] = w[i]
        <5> TAKE i \in 1..Len(g)
        <5>1. i \in 1..n /\ u[i] = g[i]
          BY <4>1, <4>2
        <5>2. i \in 1..Pieces[t]
          BY <3>1, <4>1, <5>1
        <5> QED BY <4>1, <5>1, <5>2
      <4>4. Len(g) <= Len(w)
        BY <3>1, <4>1, <4>2
      <4> QED BY <2>1, <4>1, <4>3, <4>4, SMT DEF IsPrefix, w
    <3> QED BY <2>5, <3>2 DEF g
  <2> QED BY <2>4, <2>5
<1> QED BY <1>1, OwnerInvariant, PTL

\* For a requestor that has one conversation at a time and has abandoned none,
\* no piece is lost or repeated between a slot and the reader, and libnack still
\* watches the window: ending a transfer does not blind it to the next
\* (nack__xcb_incr_end).
THEOREM TransitLosesNothing ==
  ASSUME ~Concurrent
  PROVE  Spec => []NothingLostInTransit
<1>1. OwnerInv => NothingLostInTransit
  <2> SUFFICES ASSUME OwnerInv, NEW i \in 1..Slots, NEW r \in alive, NEW p \in Prop,
                      Sending(sends[i], r, p), \A q \in Prop : <<r, q>> \notin abandoned
               PROVE  /\ r \in watch
                      /\ phase[r][p] = "receiving" =>
                           got[r][p] \o prop[r][p].val
                             = SubSeq(Whole(sends[i].text), 1, sends[i].sent)
    BY DEF NothingLostInTransit
  <2>1. r \in Requestor
    BY DEF OwnerInv, Types
  <2>2. r \in watch
    BY DEF OwnerInv, OneByOne, Watches, Steady, Sending
  <2>3. Conversation(sends, prop[r][p], wire, replies[r], phase[r][p], got[r][p], r, p)
    BY <2>1, TalkIs DEF OwnerInv
  <2>4. ASSUME phase[r][p] = "receiving"
        PROVE  got[r][p] \o prop[r][p].val = SubSeq(Whole(sends[i].text), 1, sends[i].sent)
    <3>1. Receives(sends, prop[r][p], got[r][p], r, p)
      BY <2>3, <2>4 DEF Conversation
    <3> QED BY <3>1 DEF Receives
  <2> QED BY <2>2, <2>4
<1> QED BY <1>1, OwnerInvariant, PTL
=============================================================================
