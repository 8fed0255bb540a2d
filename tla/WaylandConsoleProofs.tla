-------------------------- MODULE WaylandConsoleProofs --------------------------
(***************************************************************************)
(* The theorems of WaylandSurface and WaylandConsole: the size the window  *)
(* and the compositor agree on, the scale, the grid and the mouse, for any *)
(* outputs, scales, limits and fonts, and any number of messages and       *)
(* events in flight.                                                       *)
(***************************************************************************)
EXTENDS WaylandConsole, FiniteSetTheorems, TLAPS

-----------------------------------------------------------------------------
(* Numbers *)

LEMMA WholeTimes ==
  \A n \in Nat \ {0}, k \in Nat \ {0} :
    /\ n * k \in Nat \ {0} /\ n * k >= n /\ (n * k) % n = 0 /\ (n * k) \div n = k
OBVIOUS

LEMMA WholePart == \A n \in Nat \ {0}, k \in Nat : n * (k \div n) <= k
OBVIOUS

LEMMA SomePart == \A n \in Nat \ {0}, k \in Nat : k >= n => k \div n >= 1
OBVIOUS

LEMMA QuotientType == \A n \in Nat \ {0}, k \in Int : k \div n \in Int
OBVIOUS

LEMMA AtLeastOneIs ==
  \A n \in Int : /\ AtLeastOne(n) \in Nat \ {0} /\ AtLeastOne(n) >= n
                 /\ n >= 1 => AtLeastOne(n) = n
                 /\ n < 1 => AtLeastOne(n) = 1
BY DEF AtLeastOne

\* A finite set of naturals that is not empty has a greatest element: of its
\* subsets without one, a smallest would lose its last element.
LEMMA MaxOfFinite ==
  ASSUME NEW S \in SUBSET Nat, S # {}, IsFiniteSet(S)
  PROVE  Max(S) \in S /\ \A y \in S : y <= Max(S)
<1> DEFINE HasMax(X) == \E m \in X : \A y \in X : m >= y
           R == StrictSubsetOrdering(S)
           T == {X \in SUBSET S : X # {} /\ ~HasMax(X)}
<1>1. IsWellFoundedOn(R, SUBSET S)
  <2>1. FiniteSubsetsOf(S) = SUBSET S
    BY FS_FiniteSubsetsOfFinite
  <2>2. IsWellFoundedOn(R, FiniteSubsetsOf(S))
    BY FS_StrictSubsetOrderingWellFounded
  <2> QED BY <2>1, <2>2
<1>2. HasMax(S)
  <2> SUFFICES ASSUME ~HasMax(S) PROVE FALSE
    OBVIOUS
  <2>1. T \subseteq SUBSET S /\ S \in T
    OBVIOUS
  <2> HIDE DEF R
  <2>2. PICK X \in T : \A Y \in T : <<Y, X>> \notin R
    <3> HIDE DEF T
    <3> QED BY <1>1, <2>1, WFMin
  <2>3. PICK x \in X : TRUE
    BY <2>2
  <2> DEFINE Y == X \ {x}
  <2>4. <<Y, X>> \in R
    BY <2>2, <2>3 DEF R, StrictSubsetOrdering
  <2>5. Y = {} \/ HasMax(Y)
    BY <2>2, <2>3, <2>4
  <2> QED BY <2>2, <2>3, <2>5
<1> QED BY <1>2 DEF Max

-----------------------------------------------------------------------------
(* Types *)

LEMMA SetupIs ==
  ASSUME setup \in Setups
  PROVE  /\ setup.fractional \in BOOLEAN
         /\ setup.limits.min \in Nat /\ setup.limits.max \in Nat /\ setup.limits.inc \in Nat
         /\ setup.limits.max > 0 => setup.limits.min <= setup.limits.max
BY SurfaceAssumption DEF Setup

LEMMA MessageIs ==
  ASSUME NEW m \in Message
  PROVE  /\ m.kind \in {"enter", "leave", "global_remove", "global", "output_scale"}
              => m.out \in Output
         /\ m.kind \in {"global", "output_scale"} => m.scale \in Scales
         /\ m.kind = "preferred_scale" => m.scale \in Fractions
         /\ m.kind = "toplevel_configure" => m.pending \in Pending
         /\ m.kind \in {"enter", "leave", "global_remove", "global", "output_scale",
                        "preferred_scale", "toplevel_configure", "surface_configure"}
BY DEF Message

LEMMA ScaleMapIs ==
  ASSUME NEW f \in ScaleMap
  PROVE  DOMAIN f \subseteq Output /\ \A o \in DOMAIN f : f[o] \in Scales
BY DEF ScaleMap

LEMMA IsScaleMap ==
  ASSUME NEW D \in SUBSET Output, NEW f \in [D -> Scales]
  PROVE  f \in ScaleMap
BY DEF ScaleMap

Win == [width : Nat \ {0}, fb : Nat \ {0}, scale : Nat \ {0},
        maximized : BOOLEAN, fullscreen : BOOLEAN]
Surf == [outputs : SUBSET Output, bufferScale : Scales, decorScale : Nat \ {0},
         pending : Pending, configured : BOOLEAN]
Event == [width : Nat \ {0}, fb : Nat \ {0}]

\* The entered outputs are counted, so they are finitely many.
Counted == IsFiniteSet(surf.outputs)

LEMMA SizeForIs ==
  ASSUME setup \in Setups, NEW p \in Nat \ {0}
  PROVE  /\ SizeFor(p) \in Nat \ {0}
         /\ SizeFor(p) - setup.limits.min >= 0
         /\ setup.limits.inc > 1 =>
              /\ SizeFor(p) - setup.limits.min >= setup.limits.inc
              /\ (SizeFor(p) - setup.limits.min) % setup.limits.inc = 0
         /\ setup.limits.max > 0 /\ setup.limits.max >= setup.limits.min + setup.limits.inc
              => SizeFor(p) <= setup.limits.max
<1> DEFINE lim == setup.limits
           above == IF p < lim.min THEN lim.min ELSE p
           bounded == IF lim.max > 0 /\ above > lim.max THEN lim.max ELSE above
           steps == (bounded - lim.min) \div lim.inc
           k == AtLeastOne(steps)
<1>1. /\ lim.min \in Nat /\ lim.max \in Nat /\ lim.inc \in Nat
      /\ lim.max > 0 => lim.min <= lim.max
  BY SetupIs
<1>2. SizeFor(p) = IF lim.inc <= 1 THEN bounded ELSE lim.min + lim.inc * k
  BY DEF SizeFor
<1> HIDE DEF lim
<1>3. /\ bounded \in Nat \ {0} /\ bounded >= lim.min
      /\ lim.max > 0 => bounded <= lim.max
  BY <1>1
<1> HIDE DEF bounded
<1>4. CASE lim.inc <= 1
  <2>1. SizeFor(p) = bounded
    BY <1>2, <1>4
  <2> QED BY <1>1, <1>3, <1>4, <2>1 DEF lim
<1>5. CASE lim.inc > 1
  <2>0. lim.inc \in Nat \ {0} /\ bounded - lim.min \in Nat
    BY <1>1, <1>3, <1>5
  <2>1. steps \in Int
    BY <2>0
  <2>2. k \in Nat \ {0} /\ k >= steps /\ (steps >= 1 => k = steps)
    BY <2>1, AtLeastOneIs
  <2>3. lim.inc * steps <= bounded - lim.min
    BY <2>0, WholePart
  <2>4. bounded - lim.min >= lim.inc => steps >= 1
    BY <2>0, SomePart
  <2> HIDE DEF steps, k
  <2>5. lim.inc * k \in Nat \ {0} /\ lim.inc * k >= lim.inc /\ (lim.inc * k) % lim.inc = 0
    BY <2>0, <2>2, WholeTimes
  <2>6. SizeFor(p) = lim.min + lim.inc * k
    BY <1>1, <1>2, <1>5
  <2>7. SizeFor(p) - lim.min = lim.inc * k
    BY <1>1, <2>5, <2>6
  <2>8. lim.max > 0 /\ lim.max >= lim.min + lim.inc => SizeFor(p) <= lim.max
    <3> SUFFICES ASSUME lim.max > 0, lim.max >= lim.min + lim.inc
                 PROVE  SizeFor(p) <= lim.max
      OBVIOUS
    <3>1. CASE k = steps
      <4> DEFINE whole == lim.inc * k
      <4>1. whole <= bounded - lim.min
        BY <2>3, <3>1
      <4>2. whole \in Nat /\ SizeFor(p) = lim.min + whole
        BY <2>5, <2>6
      <4> HIDE DEF whole
      <4> QED BY <1>1, <1>3, <4>1, <4>2
    <3>2. CASE k # steps
      <4>1. k = 1
        BY <2>1, <2>2, <3>2, AtLeastOneIs DEF k
      <4> QED BY <1>1, <2>0, <2>6, <4>1
    <3> QED BY <3>1, <3>2
  <2> QED BY <1>1, <2>5, <2>6, <2>7, <2>8 DEF lim
<1> QED BY <1>1, <1>4, <1>5

LEMMA ResizeEglType ==
  ASSUME NEW w \in Win, NEW width \in Nat \ {0}, NEW scale \in Nat \ {0}
  PROVE  LET sized == ResizeEgl([w EXCEPT !.width = width], scale)
         IN  /\ sized \in Win /\ sized.width = width /\ sized.fb = width * scale
             /\ sized.scale = w.scale /\ sized.maximized = w.maximized
             /\ sized.fullscreen = w.fullscreen
<1>1. width * scale \in Nat \ {0}
  BY WholeTimes
<1>2. AtLeastOne(width * scale) = width * scale
  BY <1>1, AtLeastOneIs
<1> QED BY <1>1, <1>2 DEF ResizeEgl, Win
-----------------------------------------------------------------------------
(* The invariant *)

Enters(m, o)  == m.kind = "enter" /\ m.out = o
Leaves(m, o)  == m.kind = "leave" /\ m.out = o

\* With the first n messages of s dispatched, libnack may hold output o to be
\* entered: it held it, or was told so, and was not told otherwise since.
Inside(s, entered, o, n) ==
  \E i \in 0 .. n :
    /\ IF i = 0 THEN o \in entered ELSE Enters(s[i], o)
    /\ \A j \in (i + 1) .. n : ~Leaves(s[j], o)

\* An output is announced only when the surface has left what had its name.
AnnouncedOutside(s, entered) ==
  \A i \in DOMAIN s : s[i].kind = "global" => ~Inside(s, entered, s[i].out, i - 1)

OutputsMeet ==
  /\ AnnouncedOutside(wire, surf.outputs)
  /\ \A o \in Output : Inside(wire, surf.outputs, o, Len(wire)) => o \in on

\* The two messages of a configure are next to each other, except that the
\* first may have been dispatched.
Pairs(s) ==
  \A i \in DOMAIN s :
    /\ s[i].kind = "toplevel_configure" =>
         i < Len(s) /\ s[i + 1].kind = "surface_configure"
    /\ s[i].kind = "surface_configure" /\ i > 1 => s[i - 1].kind = "toplevel_configure"

\* The proposal the surface_configure at i applies.
Applied(s, held, i) == IF i = 1 THEN held ELSE s[i - 1].pending

NoConfigure(s, from) == \A j \in from .. Len(s) : s[j].kind # "surface_configure"

\* What the compositor wants is what the last configure in flight says, or,
\* when there is none, what the window is and the application was told.
Arrives(s, held, wish) ==
  \A i \in DOMAIN s :
    s[i].kind = "surface_configure" /\ NoConfigure(s, i + 1) =>
      /\ Applied(s, held, i).maximized = wish.maximized
      /\ Applied(s, held, i).fullscreen = wish.fullscreen

Arrived(w, t, wish) ==
  /\ w.maximized = wish.maximized /\ t.maximized = wish.maximized
  /\ w.fullscreen = wish.fullscreen

ConfigureInv ==
  /\ Pairs(wire) /\ Arrives(wire, surf.pending, wants)
  /\ NoConfigure(wire, 1) => Arrived(win, told, wants)
  /\ told.width = win.width

\* Only with the fractional protocol is a scale preferred.
FractionsExpected ==
  setup.fractional \/ \A i \in DOMAIN wire : wire[i].kind # "preferred_scale"

\* The last RESIZE in the queue says the width of the window, and once it is
\* read the console has it.
LastSays ==
  /\ events # << >> => events[Len(events)].width = win.width
  /\ events = << >> => con.dpi = <<con.fb, win.width>>

ConsoleInv ==
  /\ TypeOK /\ Counted /\ ConfigureInv /\ LimitsHold
  /\ OutputsMeet /\ FractionsExpected /\ ScaleIsSharp /\ LastSays

-----------------------------------------------------------------------------
(* Types are kept *)

Size == [width : Nat \ {0}, maximized : BOOLEAN]

LEMMA Typed ==
  TypeOK /\ Counted <=>
    /\ wire \in Seq(Message) /\ Len(wire) <= MaxWire
    /\ globals \in ScaleMap /\ on \subseteq DOMAIN globals /\ wants \in State
    /\ setup \in Setups /\ outputs \in ScaleMap
    /\ win \in Win /\ surf \in Surf /\ Cardinality(surf.outputs) <= MaxOutputs
    /\ events \in Seq(Event) /\ told \in Size /\ proposed \in Nat
    /\ ConsoleTypeOK /\ Counted
BY DEF TypeOK, SurfaceTypeOK, Win, Surf, Event, Size

Sharp(w, s, bound) ==
  /\ w.fb = w.width * s.bufferScale
  /\ w.scale = 120 * s.bufferScale /\ s.decorScale = s.bufferScale
  /\ \A o \in s.outputs \cap DOMAIN bound : bound[o] <= s.bufferScale

LEMMA SharpIs == ScaleIsSharp <=> (~setup.fractional => Sharp(win, surf, outputs))
BY DEF ScaleIsSharp, Sharp

\* nack__wl_window_update_scale, whatever it finds: outputs entered and their
\* scales.  The window keeps its size, and nothing is queued.
LEMMA UpdateScaleIs ==
  ASSUME win \in Win, surf \in Surf, events \in Seq(Event), setup \in Setups,
         NEW entered \in SUBSET Output, IsFiniteSet(entered), NEW bound \in ScaleMap,
         UpdateScale(entered, bound)
  PROVE  /\ win' \in Win /\ surf' \in Surf /\ events' = events
         /\ win'.width = win.width /\ win'.maximized = win.maximized
         /\ win'.fullscreen = win.fullscreen
         /\ surf'.outputs = entered /\ surf'.pending = surf.pending
         /\ surf'.configured = surf.configured
         /\ ~setup.fractional /\ (\E b : Sharp(win, surf, b)) => Sharp(win', surf', bound)
<1> DEFINE known == entered \cap DOMAIN bound
           scales == {bound[o] : o \in known}
           scale == Max({1} \cup scales)
           sized == ResizeEgl(win, scale)
<1>1. /\ 1 \in Scales /\ Scales \subseteq Nat \ {0}
      /\ known \in SUBSET entered
      /\ \A o \in known : bound[o] \in Scales
  BY SurfaceAssumption, ScaleMapIs
<1>2. IsFiniteSet({1} \cup scales)
  <2>1. IsFiniteSet(known)
    BY <1>1, FS_Subset
  <2>2. [o \in known |-> bound[o]] \in Surjection(known, scales)
    BY DEF Surjection
  <2>3. IsFiniteSet(scales)
    BY <2>1, <2>2, FS_Surjection
  <2> QED BY <2>3, FS_AddElement
<1>3. {1} \cup scales \subseteq Scales
  BY <1>1
<1>4. /\ scale \in Scales
      /\ \A o \in known : bound[o] <= scale
  <2>1. {1} \cup scales \in SUBSET Nat /\ {1} \cup scales # {}
    BY <1>1, <1>3
  <2>2. scale \in {1} \cup scales /\ \A y \in {1} \cup scales : y <= scale
    BY <1>2, <2>1, MaxOfFinite
  <2> HIDE DEF scale
  <2> QED BY <1>3, <2>2
<1>5. UpdateScale(entered, bound) <=>
        IF setup.fractional \/ scale = surf.bufferScale
        THEN /\ surf' = [surf EXCEPT !.outputs = entered]
             /\ UNCHANGED <<win, events>>
        ELSE /\ surf' = [surf EXCEPT !.outputs = entered, !.bufferScale = scale,
                                     !.decorScale = scale]
             /\ win' = [sized EXCEPT !.scale = 120 * scale]
             /\ events' = events \o EmitResize(sized, sized.width, sized.fb)
  BY DEF UpdateScale
<1> HIDE DEF scale
<1>6. scale \in Nat \ {0} /\ 120 * scale \in Nat \ {0}
  BY <1>1, <1>4
<1>7. /\ sized \in Win /\ sized.width = win.width /\ sized.fb = win.width * scale
      /\ sized.maximized = win.maximized /\ sized.fullscreen = win.fullscreen
  <2>1. win.width \in Nat \ {0} /\ win = [win EXCEPT !.width = win.width]
    BY DEF Win
  <2> QED BY <1>6, <2>1, ResizeEglType, SMTT(30)
<1>8. EmitResize(sized, sized.width, sized.fb) = << >>
  BY DEF EmitResize
<1> HIDE DEF sized
<1>9. CASE setup.fractional \/ scale = surf.bufferScale
  <2>1. surf' = [surf EXCEPT !.outputs = entered] /\ win' = win /\ events' = events
    BY <1>5, <1>9
  <2>2. surf' \in Surf /\ surf'.outputs = entered /\ surf'.bufferScale = surf.bufferScale
        /\ surf'.decorScale = surf.decorScale
        /\ surf'.pending = surf.pending /\ surf'.configured = surf.configured
    BY <2>1 DEF Surf
  <2>3. ~setup.fractional /\ (\E b : Sharp(win, surf, b)) => Sharp(win', surf', bound)
    BY <1>4, <1>9, <2>1, <2>2 DEF Sharp
  <2> QED BY <2>1, <2>2, <2>3
<1>10. CASE ~(setup.fractional \/ scale = surf.bufferScale)
  <2>1. /\ surf' = [surf EXCEPT !.outputs = entered, !.bufferScale = scale,
                                !.decorScale = scale]
        /\ win' = [sized EXCEPT !.scale = 120 * scale]
        /\ events' = events
    BY <1>5, <1>8, <1>10
  <2>2. surf' \in Surf /\ surf'.outputs = entered /\ surf'.bufferScale = scale
        /\ surf'.decorScale = scale
        /\ surf'.pending = surf.pending /\ surf'.configured = surf.configured
    BY <1>4, <1>6, <2>1 DEF Surf
  <2>3. /\ win' \in Win /\ win'.width = win.width /\ win'.fb = win.width * scale
        /\ win'.scale = 120 * scale /\ win'.maximized = win.maximized
        /\ win'.fullscreen = win.fullscreen
    BY <1>6, <1>7, <2>1 DEF Win
  <2>4. Sharp(win', surf', bound)
    BY <1>4, <2>2, <2>3 DEF Sharp
  <2> QED BY <2>1, <2>2, <2>3, <2>4
<1> QED BY <1>9, <1>10

LEMMA Sending ==
  ASSUME wire \in Seq(Message), NEW messages \in Seq(Message), Send(messages)
  PROVE  /\ wire' = wire \o messages /\ wire' \in Seq(Message) /\ Len(wire') <= MaxWire
         /\ UNCHANGED <<setup, outputs, win, surf, events, told, proposed>>
BY DEF Send

\* What a step of the compositor does: messages on the wire, its own state.
LEMMA CompositorTypes ==
  ASSUME TypeOK, Counted, Compositor, UNCHANGED con
  PROVE  TypeOK' /\ Counted'
<1>0. /\ wire \in Seq(Message) /\ globals \in ScaleMap /\ on \subseteq DOMAIN globals
      /\ wants \in State /\ DOMAIN globals \subseteq Output
      /\ \A o \in DOMAIN globals : globals[o] \in Scales
  BY Typed, ScaleMapIs
<1> SUFFICES /\ wire' \in Seq(Message) /\ Len(wire') <= MaxWire
             /\ UNCHANGED <<setup, outputs, win, surf, events, told, proposed>>
             /\ globals' \in ScaleMap /\ on' \subseteq DOMAIN globals' /\ wants' \in State
  BY Typed DEF TypeOK, SurfaceTypeOK, ConsoleTypeOK, Counted
<1>1. ASSUME NEW o \in Output, MovesOnto(o) \/ MovesOff(o) \/ Unplugged(o)
      PROVE  /\ wire' \in Seq(Message) /\ Len(wire') <= MaxWire
             /\ UNCHANGED <<setup, outputs, win, surf, events, told, proposed>>
             /\ globals' \in ScaleMap /\ on' \subseteq DOMAIN globals' /\ wants' \in State
  <2>1. \A kind \in {"enter", "leave", "global_remove"} :
          <<OutputSays(kind, o)>> \in Seq(Message)
    BY DEF OutputSays, Message
  <2>2. PICK kind \in {"enter", "leave", "global_remove"} : Send(<<OutputSays(kind, o)>>)
    BY <1>1 DEF MovesOnto, MovesOff, Unplugged
  <2>3. /\ wire' \in Seq(Message) /\ Len(wire') <= MaxWire
        /\ UNCHANGED <<setup, outputs, win, surf, events, told, proposed>>
    BY <1>0, <2>1, <2>2, Sending
  <2>4. CASE MovesOnto(o) \/ MovesOff(o)
    BY <1>0, <2>3, <2>4 DEF MovesOnto, MovesOff
  <2>5. CASE Unplugged(o)
    <3>1. /\ globals' = [p \in DOMAIN globals \ {o} |-> globals[p]] /\ wants' = wants
          /\ on' = on /\ o \notin on
      BY <2>5 DEF Unplugged
    <3>2. globals' \in ScaleMap
      BY <1>0, <3>1, IsScaleMap
    <3> QED BY <1>0, <2>3, <3>1, <3>2
  <2> QED BY <1>1, <2>4, <2>5
<1>2. ASSUME NEW o \in Output, NEW s \in Scales, Rescales(o, s) \/ Plugged(o, s)
      PROVE  /\ wire' \in Seq(Message) /\ Len(wire') <= MaxWire
             /\ UNCHANGED <<setup, outputs, win, surf, events, told, proposed>>
             /\ globals' \in ScaleMap /\ on' \subseteq DOMAIN globals' /\ wants' \in State
  <2>1. \A kind \in {"global", "output_scale"} : <<ScaleSays(kind, o, s)>> \in Seq(Message)
    BY DEF ScaleSays, Message
  <2>2. PICK kind \in {"global", "output_scale"} : Send(<<ScaleSays(kind, o, s)>>)
    BY <1>2 DEF Rescales, Plugged
  <2>3. /\ wire' \in Seq(Message) /\ Len(wire') <= MaxWire
        /\ UNCHANGED <<setup, outputs, win, surf, events, told, proposed>>
    BY <1>0, <2>1, <2>2, Sending
  <2>4. on' = on /\ wants' = wants
    BY <1>2 DEF Rescales, Plugged
  <2>5. DOMAIN globals' = DOMAIN globals \cup {o} /\ globals' \in [DOMAIN globals \cup {o} -> Scales]
    BY <1>0, <1>2 DEF Rescales, Plugged
  <2>6. globals' \in ScaleMap
    BY <1>0, <2>5, IsScaleMap
  <2> QED BY <1>0, <2>3, <2>4, <2>5, <2>6
<1>3. ASSUME NEW s \in Fractions, Prefers(s)
      PROVE  /\ wire' \in Seq(Message) /\ Len(wire') <= MaxWire
             /\ UNCHANGED <<setup, outputs, win, surf, events, told, proposed>>
             /\ globals' \in ScaleMap /\ on' \subseteq DOMAIN globals' /\ wants' \in State
  <2>1. <<[kind |-> "preferred_scale", scale |-> s]>> \in Seq(Message)
    BY DEF Message
  <2> QED BY <1>0, <1>3, <2>1, Sending DEF Prefers
<1>4. ASSUME NEW p \in Proposals, Proposes(p)
      PROVE  /\ wire' \in Seq(Message) /\ Len(wire') <= MaxWire
             /\ UNCHANGED <<setup, outputs, win, surf, events, told, proposed>>
             /\ globals' \in ScaleMap /\ on' \subseteq DOMAIN globals' /\ wants' \in State
  <2>1. p \in Pending
    BY SurfaceAssumption DEF Pending
  <2>2. <<[kind |-> "toplevel_configure", pending |-> p],
          [kind |-> "surface_configure"]>> \in Seq(Message)
    <3>1. [kind |-> "toplevel_configure", pending |-> p] \in Message
          /\ [kind |-> "surface_configure"] \in Message
      BY <2>1 DEF Message
    <3> QED BY <3>1
  <2>3. /\ wire' \in Seq(Message) /\ Len(wire') <= MaxWire
        /\ UNCHANGED <<setup, outputs, win, surf, events, told, proposed>>
    BY <1>0, <1>4, <2>2, Sending DEF Proposes
  <2>4. wants' \in State /\ on' = on /\ globals' = globals
    BY <1>4, <2>1 DEF Proposes, State, Pending
  <2> QED BY <1>0, <2>3, <2>4
<1> QED BY <1>1, <1>2, <1>3, <1>4 DEF Compositor

\* What a RESIZE queued for a window says of it.
LEMMA EmitResizeIs ==
  ASSUME NEW w \in Win, NEW width \in Nat \ {0}, NEW fb \in Nat \ {0}
  PROVE  /\ EmitResize(w, width, fb) \in Seq(Event)
         /\ \/ EmitResize(w, width, fb) = << >>
            \/ EmitResize(w, width, fb) = <<[width |-> width, fb |-> fb]>>
<1>1. [width |-> width, fb |-> fb] \in Event
  BY DEF Event
<1>2. << >> \in Seq(Event) /\ <<[width |-> width, fb |-> fb]>> \in Seq(Event)
  BY <1>1
<1> QED BY <1>2 DEF EmitResize, Resize

\* A preferred scale: the window keeps its size, and a new framebuffer is told.
LEMMA PreferredIs ==
  ASSUME TypeOK, Counted, NEW s \in Fractions, FractionalScalePreferred(s)
  PROVE  /\ win' \in Win /\ win'.width = win.width /\ win'.maximized = win.maximized
         /\ win'.fullscreen = win.fullscreen
         /\ surf' \in Surf /\ surf'.outputs = surf.outputs /\ surf'.pending = surf.pending
         /\ UNCHANGED <<outputs, told, proposed>>
         /\ events' \in Seq(Event)
         /\ \/ events' = events
            \/ \E fb \in Nat \ {0} : events' = Append(events, [width |-> win.width, fb |-> fb])
<1> DEFINE fb == AtLeastOne((win.width * s + 60) \div 120)
<1>0. /\ win \in Win /\ surf \in Surf /\ events \in Seq(Event) /\ s \in Nat \ {0}
      /\ win.width \in Nat \ {0}
  BY Typed, SurfaceAssumption DEF Win
<1>1. fb \in Nat \ {0}
  <2>1. win.width * s \in Nat \ {0}
    BY <1>0, WholeTimes
  <2> DEFINE n == win.width * s
  <2> HIDE DEF n
  <2>2. (n + 60) \div 120 \in Int
    BY <2>1 DEF n
  <2> QED BY <2>2, AtLeastOneIs DEF n
<1>2. (s + 119) \div 120 \in Nat \ {0}
  BY <1>0
<1>3. /\ win' = [win EXCEPT !.fb = fb, !.scale = s]
      /\ surf' = [surf EXCEPT !.decorScale = (s + 119) \div 120]
      /\ events' = events \o EmitResize(win, win.width, fb)
      /\ UNCHANGED <<outputs, told, proposed>>
  BY DEF FractionalScalePreferred
<1> HIDE DEF fb
<1>4. /\ win' \in Win /\ win'.width = win.width /\ win'.maximized = win.maximized
      /\ win'.fullscreen = win.fullscreen
  BY <1>0, <1>1, <1>3 DEF Win
<1>5. surf' \in Surf /\ surf'.outputs = surf.outputs /\ surf'.pending = surf.pending
  BY <1>0, <1>2, <1>3 DEF Surf
<1>6. /\ events' \in Seq(Event)
      /\ \/ events' = events
         \/ events' = Append(events, [width |-> win.width, fb |-> fb])
  <2>1. CASE EmitResize(win, win.width, fb) = << >>
    BY <1>0, <1>3, <2>1
  <2>2. CASE EmitResize(win, win.width, fb) = <<[width |-> win.width, fb |-> fb]>>
    <3>1. [width |-> win.width, fb |-> fb] \in Event
      BY <1>0, <1>1 DEF Event
    <3> QED BY <1>0, <1>3, <2>2, <3>1
  <2> QED BY <1>0, <1>1, <2>1, <2>2, EmitResizeIs
<1> QED BY <1>1, <1>3, <1>4, <1>5, <1>6

\* A configure: the width is within the limits or what it was.
LEMMA ConfigureIs ==
  ASSUME TypeOK, Counted, SurfaceConfigure
  PROVE  \E width \in Nat \ {0} :
           /\ win' \in Win /\ win'.width = width /\ win'.fb = width * surf.bufferScale
           /\ win'.scale = win.scale
           /\ win'.maximized = surf.pending.maximized
           /\ win'.fullscreen = surf.pending.fullscreen
           /\ surf' \in Surf /\ surf'.outputs = surf.outputs /\ surf'.pending = surf.pending
           /\ surf'.bufferScale = surf.bufferScale /\ surf'.decorScale = surf.decorScale
           /\ UNCHANGED outputs
           /\ told' \in Size /\ told'.maximized = surf.pending.maximized
           /\ \/ width = win.width /\ events' = events /\ told'.width = told.width
              \/ told'.width = width
                 /\ events' = Append(events, [width |-> width, fb |-> width * surf.bufferScale])
           /\ events' \in Seq(Event)
           /\ \/ width = SizeFor(surf.pending.width) /\ surf.pending.width \in Nat \ {0}
                 /\ proposed' = surf.pending.width
              \/ width = win.width /\ proposed' = proposed
<1> DEFINE pending == surf.pending
           width == IF pending.width > 0 THEN SizeFor(pending.width) ELSE win.width
           sized == ResizeEgl([win EXCEPT !.width = width], surf.bufferScale)
<1>0. /\ win \in Win /\ surf \in Surf /\ events \in Seq(Event) /\ told \in Size
      /\ win.width \in Nat \ {0} /\ setup \in Setups
      /\ pending.width \in Nat /\ pending.maximized \in BOOLEAN /\ pending.fullscreen \in BOOLEAN
      /\ surf.bufferScale \in Nat \ {0}
  BY Typed, SurfaceAssumption DEF Win, Surf, Pending
<1>1. width \in Nat \ {0}
  BY <1>0, SizeForIs
<1>2. /\ win' = [sized EXCEPT !.maximized = pending.maximized,
                              !.fullscreen = pending.fullscreen]
      /\ surf' = [surf EXCEPT !.configured = TRUE]
      /\ IF width = win.width /\ surf.configured
         THEN events' = events /\ told' = [told EXCEPT !.maximized = pending.maximized]
         ELSE /\ events' = Append(events, Resize(width, sized.fb))
              /\ told' = [width |-> width, maximized |-> pending.maximized]
      /\ proposed' = IF pending.width > 0 THEN pending.width ELSE proposed
      /\ UNCHANGED outputs
  BY DEF SurfaceConfigure
<1>3. \/ width = SizeFor(pending.width) /\ pending.width \in Nat \ {0}
         /\ proposed' = pending.width
      \/ width = win.width /\ proposed' = proposed
  BY <1>0, <1>2
<1> HIDE DEF width
<1>4. /\ sized \in Win /\ sized.width = width /\ sized.fb = width * surf.bufferScale
      /\ sized.scale = win.scale
  BY <1>0, <1>1, ResizeEglType
<1> HIDE DEF sized
<1>5. /\ win' \in Win /\ win'.width = width /\ win'.fb = width * surf.bufferScale
      /\ win'.scale = win.scale
      /\ win'.maximized = pending.maximized /\ win'.fullscreen = pending.fullscreen
  BY <1>0, <1>2, <1>4 DEF Win
<1>6. /\ surf' \in Surf /\ surf'.outputs = surf.outputs /\ surf'.pending = surf.pending
      /\ surf'.bufferScale = surf.bufferScale /\ surf'.decorScale = surf.decorScale
  BY <1>0, <1>2 DEF Surf
<1>7. CASE width = win.width /\ surf.configured
  <2>1. told' \in Size /\ told'.maximized = pending.maximized /\ told'.width = told.width
    BY <1>0, <1>2, <1>7 DEF Size
  <2> QED BY <1>0, <1>1, <1>2, <1>3, <1>5, <1>6, <1>7, <2>1
<1>8. CASE ~(width = win.width /\ surf.configured)
  <2>1. told' \in Size /\ told'.maximized = pending.maximized /\ told'.width = width
    BY <1>0, <1>1, <1>2, <1>8 DEF Size
  <2>2. events' = Append(events, [width |-> width, fb |-> width * surf.bufferScale])
    BY <1>2, <1>4, <1>8 DEF Resize
  <2>3. [width |-> width, fb |-> width * surf.bufferScale] \in Event
    BY <1>1, <1>4 DEF Win, Event
  <2>4. events' \in Seq(Event)
    BY <1>0, <2>2, <2>3
  <2> QED BY <1>0, <1>1, <1>2, <1>3, <1>5, <1>6, <2>1, <2>2, <2>4
<1> QED BY <1>7, <1>8

\* What a handler finds, and what it is for.
LEMMA DispatchIs ==
  ASSUME TypeOK, Counted, Dispatch
  PROVE  /\ wire # << >> /\ wire' = Tail(wire) /\ Head(wire) \in Message
         /\ wire' \in Seq(Message) /\ Len(wire') = Len(wire) - 1 /\ Len(wire') <= MaxWire
         /\ UNCHANGED <<on, globals, wants, setup>>
<1>1. wire \in Seq(Message) /\ Len(wire) <= MaxWire /\ wire # << >> /\ wire' = Tail(wire)
      /\ UNCHANGED <<on, globals, wants, setup>> /\ MaxWire \in Nat
  BY Typed, SurfaceAssumption DEF Dispatch
<1> QED BY <1>1

\* An output is entered or left, or one of them changes its scale.
LEMMA EnterIs ==
  ASSUME TypeOK, Counted, NEW o \in Output, SurfaceEnter(o)
  PROVE  \E entered \in SUBSET Output :
           /\ entered \subseteq surf.outputs \cup {o} /\ IsFiniteSet(entered)
           /\ Cardinality(entered) <= MaxOutputs
           /\ UpdateScale(entered, outputs) /\ UNCHANGED <<outputs, told, proposed>>
<1>0. /\ surf.outputs \in SUBSET Output /\ Cardinality(surf.outputs) <= MaxOutputs
      /\ IsFiniteSet(surf.outputs) /\ MaxOutputs \in Nat
  BY Typed, SurfaceAssumption DEF Surf, Counted
<1>1. /\ IsFiniteSet(surf.outputs \cup {o}) /\ Cardinality(surf.outputs) \in Nat
      /\ Cardinality(surf.outputs \cup {o}) <= Cardinality(surf.outputs) + 1
  <2>1. Cardinality(surf.outputs) \in Nat
    BY <1>0, FS_CardinalityType
  <2>2. /\ IsFiniteSet(surf.outputs \cup {o})
        /\ Cardinality(surf.outputs \cup {o}) =
             IF o \in surf.outputs THEN Cardinality(surf.outputs)
             ELSE Cardinality(surf.outputs) + 1
    BY <1>0, FS_AddElement
  <2> QED BY <2>1, <2>2
<1>2. CASE Cardinality(surf.outputs) < MaxOutputs
  <2>1. UpdateScale(surf.outputs \cup {o}, outputs) /\ UNCHANGED <<outputs, told, proposed>>
    BY <1>2 DEF SurfaceEnter
  <2>2. Cardinality(surf.outputs \cup {o}) \in Nat
    BY <1>1, FS_CardinalityType
  <2>3. Cardinality(surf.outputs \cup {o}) <= MaxOutputs
    BY <1>0, <1>1, <1>2, <2>2
  <2>4. surf.outputs \cup {o} \in SUBSET Output
    BY <1>0
  <2> QED BY <1>1, <2>1, <2>3, <2>4
<1>3. CASE ~(Cardinality(surf.outputs) < MaxOutputs)
  <2>1. UpdateScale(surf.outputs, outputs) /\ UNCHANGED <<outputs, told, proposed>>
    BY <1>3 DEF SurfaceEnter
  <2> QED BY <1>0, <2>1
<1> QED BY <1>2, <1>3

LEMMA LeaveIs ==
  ASSUME TypeOK, Counted, NEW o \in Output, SurfaceLeave(o)
  PROVE  LET entered == surf.outputs \ {o} IN
         /\ entered \in SUBSET Output /\ IsFiniteSet(entered)
         /\ Cardinality(entered) <= MaxOutputs
         /\ UpdateScale(entered, outputs) /\ UNCHANGED <<outputs, told, proposed>>
<1>0. /\ surf.outputs \in SUBSET Output /\ Cardinality(surf.outputs) <= MaxOutputs
      /\ IsFiniteSet(surf.outputs) /\ MaxOutputs \in Nat
  BY Typed, SurfaceAssumption DEF Surf, Counted
<1>1. /\ IsFiniteSet(surf.outputs \ {o}) /\ Cardinality(surf.outputs) \in Nat
      /\ Cardinality(surf.outputs \ {o}) <= Cardinality(surf.outputs)
      /\ Cardinality(surf.outputs \ {o}) \in Nat
  <2>1. Cardinality(surf.outputs) \in Nat
    BY <1>0, FS_CardinalityType
  <2>2. /\ IsFiniteSet(surf.outputs \ {o})
        /\ Cardinality(surf.outputs \ {o}) =
             IF o \in surf.outputs THEN Cardinality(surf.outputs) - 1
             ELSE Cardinality(surf.outputs)
    BY <1>0, FS_RemoveElement
  <2>3. Cardinality(surf.outputs \ {o}) \in Nat
    BY <2>2, FS_CardinalityType
  <2> QED BY <2>1, <2>2, <2>3
<1> QED BY <1>0, <1>1 DEF SurfaceLeave

LEMMA OutputScaleIs ==
  ASSUME TypeOK, Counted, NEW o \in Output, NEW s \in Scales, OutputScale(o, s)
  PROVE  /\ outputs' \in ScaleMap /\ surf.outputs \in SUBSET Output
         /\ UpdateScale(surf.outputs, outputs') /\ UNCHANGED <<told, proposed>>
<1>0. surf.outputs \in SUBSET Output /\ outputs \in ScaleMap /\ DOMAIN outputs \in SUBSET Output
      /\ \A p \in DOMAIN outputs : outputs[p] \in Scales
  BY Typed, ScaleMapIs DEF Surf
<1>1. outputs' \in [DOMAIN outputs -> Scales]
  BY <1>0 DEF OutputScale
<1>2. outputs' \in ScaleMap
  BY <1>0, <1>1, IsScaleMap
<1> QED BY <1>0, <1>2 DEF OutputScale

\* An output comes or goes: no surface is told.
LEMMA RegistryIs ==
  ASSUME TypeOK, Counted, NEW o \in Output, NEW s \in Scales,
         RegistryGlobal(o, s) \/ RegistryGlobalRemove(o)
  PROVE  /\ outputs' \in ScaleMap /\ UNCHANGED <<win, surf, events, told, proposed>>
         /\ \A p \in DOMAIN outputs' \ {o} : p \in DOMAIN outputs /\ outputs'[p] = outputs[p]
         /\ o \in DOMAIN outputs' /\ RegistryGlobalRemove(o) => o \in DOMAIN outputs /\ outputs'[o] = outputs[o]
<1>0. outputs \in ScaleMap /\ DOMAIN outputs \in SUBSET Output
      /\ \A p \in DOMAIN outputs : outputs[p] \in Scales
  BY Typed, ScaleMapIs
<1>1. CASE outputs' = [p \in DOMAIN outputs \cup {o} |-> IF p = o THEN s ELSE outputs[p]]
           /\ UNCHANGED <<win, surf, events, told, proposed>> /\ RegistryGlobal(o, s)
  <2>1. outputs' \in [DOMAIN outputs \cup {o} -> Scales] /\ DOMAIN outputs \cup {o} \in SUBSET Output
    BY <1>0, <1>1
  <2>2. outputs' \in ScaleMap
    BY <2>1, IsScaleMap
  <2>3. RegistryGlobalRemove(o) => o \notin DOMAIN outputs'
    BY DEF RegistryGlobalRemove
  <2> QED BY <1>1, <2>2, <2>3
<1>2. CASE outputs' = outputs /\ UNCHANGED <<win, surf, events, told, proposed>>
  BY <1>0, <1>2
<1>3. CASE RegistryGlobalRemove(o)
  <2>1. outputs' = [p \in DOMAIN outputs \ {o} |-> outputs[p]]
        /\ UNCHANGED <<win, surf, events, told, proposed>>
    BY <1>3 DEF RegistryGlobalRemove
  <2>2. outputs' \in [DOMAIN outputs \ {o} -> Scales] /\ DOMAIN outputs \ {o} \in SUBSET Output
    BY <1>0, <2>1
  <2>3. outputs' \in ScaleMap
    BY <2>2, IsScaleMap
  <2> QED BY <2>1, <2>3
<1> QED BY <1>1, <1>2, <1>3 DEF RegistryGlobal

LEMMA DispatchCases ==
  ASSUME TypeOK, Counted, Dispatch
  PROVE  LET m == Head(wire) IN
         \/ m.kind = "enter" /\ m.out \in Output /\ SurfaceEnter(m.out)
         \/ m.kind = "leave" /\ m.out \in Output /\ SurfaceLeave(m.out)
         \/ m.kind = "output_scale" /\ m.out \in Output /\ m.scale \in Scales
            /\ OutputScale(m.out, m.scale)
         \/ m.kind = "global" /\ m.out \in Output /\ m.scale \in Scales
            /\ RegistryGlobal(m.out, m.scale)
         \/ m.kind = "global_remove" /\ m.out \in Output /\ RegistryGlobalRemove(m.out)
         \/ m.kind = "preferred_scale" /\ m.scale \in Fractions
            /\ FractionalScalePreferred(m.scale)
         \/ m.kind = "toplevel_configure" /\ m.pending \in Pending
            /\ ToplevelConfigure(m.pending)
         \/ m.kind = "surface_configure" /\ SurfaceConfigure
<1> DEFINE m == Head(wire)
<1>1. m \in Message
  BY DispatchIs
<1>2. /\ m.kind \in {"enter", "leave", "global_remove", "global", "output_scale"}
           => m.out \in Output
      /\ m.kind \in {"global", "output_scale"} => m.scale \in Scales
      /\ m.kind = "preferred_scale" => m.scale \in Fractions
      /\ m.kind = "toplevel_configure" => m.pending \in Pending
  BY <1>1, MessageIs
<1>3. \/ m.kind = "enter" /\ SurfaceEnter(m.out)
      \/ m.kind = "leave" /\ SurfaceLeave(m.out)
      \/ m.kind = "output_scale" /\ OutputScale(m.out, m.scale)
      \/ m.kind = "global" /\ RegistryGlobal(m.out, m.scale)
      \/ m.kind = "global_remove" /\ RegistryGlobalRemove(m.out)
      \/ m.kind = "preferred_scale" /\ FractionalScalePreferred(m.scale)
      \/ m.kind = "toplevel_configure" /\ ToplevelConfigure(m.pending)
      \/ m.kind = "surface_configure" /\ SurfaceConfigure
  BY DEF Dispatch
<1> QED BY <1>2, <1>3

\* The part of the state the handlers type, in the next state.
LibraryTypesNext ==
  /\ outputs' \in ScaleMap /\ win' \in Win /\ surf' \in Surf
  /\ IsFiniteSet(surf'.outputs) /\ Cardinality(surf'.outputs) <= MaxOutputs
  /\ events' \in Seq(Event) /\ told' \in Size /\ proposed' \in Nat

LEMMA DispatchTypes ==
  ASSUME TypeOK, Counted, Dispatch, UNCHANGED con
  PROVE  TypeOK' /\ Counted'
<1> DEFINE m == Head(wire)
<1>0. /\ outputs \in ScaleMap /\ win \in Win /\ surf \in Surf /\ setup \in Setups
      /\ IsFiniteSet(surf.outputs) /\ Cardinality(surf.outputs) <= MaxOutputs
      /\ events \in Seq(Event) /\ told \in Size /\ proposed \in Nat
  BY Typed DEF Counted
<1>1. LibraryTypesNext
  <2>1. CASE \E o \in Output : SurfaceEnter(o)
    BY <1>0, <2>1, EnterIs, UpdateScaleIs DEF LibraryTypesNext
  <2>2. CASE \E o \in Output : SurfaceLeave(o)
    <3>1. PICK o \in Output : SurfaceLeave(o)
      BY <2>2
    <3> DEFINE entered == surf.outputs \ {o}
    <3>2. /\ entered \in SUBSET Output /\ IsFiniteSet(entered)
          /\ Cardinality(entered) <= MaxOutputs
          /\ UpdateScale(entered, outputs) /\ UNCHANGED <<outputs, told, proposed>>
      BY <3>1, LeaveIs
    <3> HIDE DEF entered
    <3> QED BY <1>0, <3>2, UpdateScaleIs DEF LibraryTypesNext
  <2>3. CASE \E o \in Output, s \in Scales : OutputScale(o, s)
    <3>1. /\ outputs' \in ScaleMap /\ surf.outputs \in SUBSET Output
          /\ UpdateScale(surf.outputs, outputs') /\ UNCHANGED <<told, proposed>>
      BY <2>3, OutputScaleIs
    <3> QED BY <1>0, <3>1, UpdateScaleIs DEF LibraryTypesNext
  <2>4. CASE \E o \in Output, s \in Scales : RegistryGlobal(o, s) \/ RegistryGlobalRemove(o)
    <3>1. outputs' \in ScaleMap /\ UNCHANGED <<win, surf, events, told, proposed>>
      BY <2>4, RegistryIs
    <3> QED BY <1>0, <3>1 DEF LibraryTypesNext
  <2>5. CASE \E s \in Fractions : FractionalScalePreferred(s)
    BY <1>0, <2>5, PreferredIs DEF LibraryTypesNext
  <2>6. CASE \E p \in Pending : ToplevelConfigure(p)
    BY <1>0, <2>6 DEF ToplevelConfigure, LibraryTypesNext, Surf
  <2>7. CASE SurfaceConfigure
    BY <1>0, <2>7, ConfigureIs DEF LibraryTypesNext
  <2>8. 1 \in Scales
    BY SurfaceAssumption
  <2> QED BY <2>1, <2>2, <2>3, <2>4, <2>5, <2>6, <2>7, <2>8, DispatchCases
<1> QED BY <1>1, DispatchIs, Typed
        DEF TypeOK, SurfaceTypeOK, ConsoleTypeOK, Counted, LibraryTypesNext, Win, Surf,
            Event, Size

-----------------------------------------------------------------------------
(* The console *)

Con == [fb : Nat \ {0}, dpi : (Nat \ {0}) \X (Nat \ {0}), columns : Nat \ {0},
        tile : Tiles, scaling : {"integer", "stretch"}, auto : BOOLEAN,
        view : [x : Int, w : Nat \ {0}]]

\* nack__render_update_viewport: never empty.
LEMMA ViewportIs ==
  ASSUME NEW c, c.columns \in Nat \ {0}, c.tile \in Nat \ {0}, c.fb \in Nat \ {0}
  PROVE  Viewport(c) \in [x : Int, w : Nat \ {0}]
<1> DEFINE console == c.columns * c.tile
           times == AtLeastOne(c.fb \div console)
           width == console * times
<1>1. console \in Nat \ {0}
  BY WholeTimes
<1>2. times \in Nat \ {0}
  <2>1. c.fb \div console \in Int
    BY <1>1, QuotientType
  <2> QED BY <2>1, AtLeastOneIs
<1>3. width \in Nat \ {0}
  BY <1>1, <1>2, WholeTimes
<1>4. Viewport(c) = IF c.scaling = "stretch" THEN [x |-> 0, w |-> c.fb]
                    ELSE [x |-> Half(c.fb - width), w |-> width]
  BY DEF Viewport
<1> HIDE DEF width
<1>5. Half(c.fb - width) \in Int
  <2>1. \A n \in Int : Half(n) \in Int
    BY DEF Half
  <2> QED BY <1>3, <2>1
<1> HIDE DEF console
<1>6. CASE c.scaling = "stretch"
  BY <1>4, <1>6
<1>7. CASE c.scaling # "stretch"
  <2>1. Viewport(c) = [x |-> Half(c.fb - width), w |-> width]
    BY <1>4, <1>7
  <2> QED BY <1>3, <1>5, <2>1
<1> QED BY <1>6, <1>7

\* nack__translate of a RESIZE.
LEMMA TranslateIs ==
  ASSUME con \in Con, NEW e \in Event, Translate(e)
  PROVE  /\ con' \in Con /\ con'.fb = e.fb /\ con'.dpi = <<e.fb, e.width>>
<1> DEFINE read == [con EXCEPT !.fb = e.fb, !.dpi = <<e.fb, e.width>>]
           columns == AtLeastOne(e.fb \div con.tile)
           grown == IF con.auto THEN [read EXCEPT !.columns = columns] ELSE read
<1>0. /\ e.fb \in Nat \ {0} /\ e.width \in Nat \ {0} /\ con.tile \in Nat \ {0}
      /\ con.columns \in Nat \ {0}
  BY ConsoleAssumption DEF Event, Con
<1>1. columns \in Nat \ {0}
  <2>1. e.fb \div con.tile \in Int
    BY <1>0, QuotientType
  <2> QED BY <2>1, AtLeastOneIs
<1>2. con' = [grown EXCEPT !.view = Viewport(grown)]
  BY DEF Translate
<1>3. grown \in Con /\ grown.fb = e.fb /\ grown.dpi = <<e.fb, e.width>>
  <2>1. read \in Con /\ read.fb = e.fb /\ read.dpi = <<e.fb, e.width>>
    BY <1>0 DEF Con
  <2>2. CASE con.auto
    <3>1. grown = [read EXCEPT !.columns = columns]
      BY <2>2
    <3> HIDE DEF columns, read, grown
    <3> QED BY <1>1, <2>1, <3>1 DEF Con
  <2>3. CASE ~con.auto
    BY <2>1, <2>3
  <2> QED BY <2>2, <2>3
<1> HIDE DEF grown, columns
<1>5. grown.columns \in Nat \ {0} /\ grown.tile \in Nat \ {0} /\ grown.fb \in Nat \ {0}
  BY <1>0, <1>3, ConsoleAssumption DEF Con
<1>6. Viewport(grown) \in [x : Int, w : Nat \ {0}]
  BY <1>5, ViewportIs
<1>7. con' \in Con /\ con'.fb = grown.fb /\ con'.dpi = grown.dpi
  BY <1>2, <1>3, <1>6 DEF Con
<1> QED BY <1>3, <1>7

LEMMA ApplicationTypes ==
  ASSUME TypeOK, Counted, Hide \/ (\E width \in Asked : SetSize(width)), UNCHANGED con
  PROVE  TypeOK' /\ Counted'
<1>0. /\ outputs \in ScaleMap /\ win \in Win /\ surf \in Surf
      /\ IsFiniteSet(surf.outputs) /\ Cardinality(surf.outputs) <= MaxOutputs
      /\ events \in Seq(Event) /\ told \in Size /\ proposed \in Nat
      /\ surf.bufferScale \in Nat \ {0}
  BY Typed, SurfaceAssumption DEF Counted, Surf
<1>1. LibraryTypesNext /\ UNCHANGED <<compositor, setup>>
  <2>1. CASE Hide
    BY <1>0, <2>1 DEF Hide, LibraryTypesNext, Surf
  <2>2. CASE \E width \in Asked : SetSize(width)
    <3>1. PICK width \in Nat \ {0} : SetSize(width)
      BY <2>2, SurfaceAssumption
    <3>2. win' \in Win /\ win'.width = width
      BY <1>0, <3>1, ResizeEglType DEF SetSize
    <3>3. Resize(width, win'.fb) \in Event
      BY <3>2 DEF Resize, Win, Event
    <3>4. told' \in Size /\ proposed' \in Nat /\ events' \in Seq(Event)
          /\ UNCHANGED <<compositor, setup, outputs, surf>>
      BY <1>0, <3>1, <3>3 DEF SetSize, Size
    <3> QED BY <1>0, <3>2, <3>4 DEF LibraryTypesNext
  <2> QED BY <2>1, <2>2
<1> QED BY <1>1, Typed
        DEF TypeOK, SurfaceTypeOK, ConsoleTypeOK, Counted, LibraryTypesNext, Win, Surf,
            Event, Size, compositor

LEMMA ConsoleTypes ==
  ASSUME TypeOK, Counted, Console
  PROVE  TypeOK' /\ Counted'
<1>0. con \in Con /\ events \in Seq(Event)
  BY Typed DEF ConsoleTypeOK, Con
<1>1. CASE PollEvent
  <2>1. /\ events # << >> /\ events' = Tail(events) /\ Translate(Head(events))
        /\ UNCHANGED <<compositor, setup, outputs, win, surf, told, proposed>>
    BY <1>1 DEF PollEvent
  <2>2. Head(events) \in Event /\ events' \in Seq(Event)
    BY <1>0, <2>1
  <2>3. con' \in Con
    BY <1>0, <2>1, <2>2, TranslateIs
  <2> QED BY <2>1, <2>2, <2>3
          DEF TypeOK, SurfaceTypeOK, ConsoleTypeOK, Counted, Con, Event, compositor
<1>2. CASE (\E n \in Columns : RootResize(n)) \/ (\E t \in Tiles : SetFont(t))
  <2>1. con' \in Con /\ UNCHANGED surface
    BY <1>0, <1>2, ConsoleAssumption, ZenonT(60) DEF RootResize, SetFont, Con
  <2> QED BY <2>1 DEF TypeOK, SurfaceTypeOK, ConsoleTypeOK, Counted, Con, surface, compositor
<1> QED BY <1>1, <1>2 DEF Console

LEMMA TypeStep ==
  ASSUME TypeOK, Counted, [Next]_vars
  PROVE  TypeOK' /\ Counted'
<1>1. CASE UNCHANGED vars
  BY <1>1 DEF vars, surface, compositor, TypeOK, SurfaceTypeOK, ConsoleTypeOK, Counted
<1> QED BY <1>1, CompositorTypes, DispatchTypes, ApplicationTypes, ConsoleTypes
        DEF Next, Surface

-----------------------------------------------------------------------------
(* The state agreed on *)

LEMMA TailIs ==
  ASSUME NEW s \in Seq(Message), s # << >>
  PROVE  /\ Tail(s) \in Seq(Message) /\ Len(Tail(s)) = Len(s) - 1 /\ Head(s) = s[1]
         /\ Len(s) \in Nat /\ Len(s) >= 1
         /\ DOMAIN s = 1 .. Len(s) /\ DOMAIN Tail(s) = 1 .. Len(s) - 1
         /\ \A i \in 1 .. Len(s) - 1 : i + 1 \in 1 .. Len(s) /\ Tail(s)[i] = s[i + 1]
OBVIOUS

LEMMA AppendIs ==
  ASSUME NEW s \in Seq(Message), NEW m \in Message
  PROVE  /\ Append(s, m) \in Seq(Message) /\ Len(Append(s, m)) = Len(s) + 1
         /\ Len(s) \in Nat
         /\ DOMAIN s = 1 .. Len(s) /\ DOMAIN Append(s, m) = 1 .. Len(s) + 1
         /\ \A i \in 1 .. Len(s) : Append(s, m)[i] = s[i]
         /\ Append(s, m)[Len(s) + 1] = m
OBVIOUS

LEMMA NoConfigureTail ==
  ASSUME NEW s \in Seq(Message), s # << >>, NEW i \in Nat \ {0}
  PROVE  NoConfigure(Tail(s), i) <=> NoConfigure(s, i + 1)
<1> DEFINE t == Tail(s)
<1>1. /\ Len(t) = Len(s) - 1 /\ Len(s) \in Nat
      /\ \A j \in 1 .. Len(s) - 1 : t[j] = s[j + 1]
  BY TailIs
<1> HIDE DEF t
<1>2. ASSUME NoConfigure(t, i), NEW j \in (i + 1) .. Len(s)
      PROVE  s[j].kind # "surface_configure"
  <2>1. j - 1 \in i .. Len(t) /\ j - 1 \in 1 .. Len(s) - 1 /\ (j - 1) + 1 = j
    BY <1>1
  <2> QED BY <1>1, <1>2, <2>1 DEF NoConfigure
<1>3. ASSUME NoConfigure(s, i + 1), NEW j \in i .. Len(t)
      PROVE  t[j].kind # "surface_configure"
  <2>1. j + 1 \in (i + 1) .. Len(s) /\ j \in 1 .. Len(s) - 1
    BY <1>1
  <2> QED BY <1>1, <1>3, <2>1 DEF NoConfigure
<1> QED BY <1>2, <1>3 DEF NoConfigure, t

\* Dispatching the head of the wire: what is left is paired, and the proposal
\* held is the one the next surface_configure applies.
LEMMA ConfigureTail ==
  ASSUME NEW s \in Seq(Message), s # << >>, Pairs(s), NEW held, NEW next, NEW wish,
         Arrives(s, held, wish),
         IF Head(s).kind = "toplevel_configure" THEN next = Head(s).pending ELSE next = held
  PROVE  /\ Pairs(Tail(s)) /\ Arrives(Tail(s), next, wish)
         /\ NoConfigure(Tail(s), 1) /\ Head(s).kind = "surface_configure" =>
              held.maximized = wish.maximized /\ held.fullscreen = wish.fullscreen
         /\ NoConfigure(Tail(s), 1) /\ Head(s).kind # "surface_configure" =>
              NoConfigure(s, 1)
<1> DEFINE t == Tail(s)
<1>0. /\ t \in Seq(Message) /\ Len(t) = Len(s) - 1 /\ Head(s) = s[1]
      /\ Len(s) \in Nat /\ Len(s) >= 1
      /\ DOMAIN s = 1 .. Len(s) /\ DOMAIN t = 1 .. Len(s) - 1
      /\ \A i \in 1 .. Len(s) - 1 : i + 1 \in 1 .. Len(s) /\ t[i] = s[i + 1]
  BY TailIs
<1>1. \A i \in Nat \ {0} : NoConfigure(t, i) <=> NoConfigure(s, i + 1)
  BY NoConfigureTail
<1> HIDE DEF t
<1>2. Pairs(t)
  <2>1. ASSUME NEW i \in DOMAIN t, t[i].kind = "toplevel_configure"
        PROVE  i < Len(t) /\ t[i + 1].kind = "surface_configure"
    <3>1. i + 1 \in DOMAIN s /\ s[i + 1].kind = "toplevel_configure"
      BY <1>0, <2>1
    <3>2. i + 1 < Len(s) /\ s[i + 1 + 1].kind = "surface_configure"
      BY <3>1 DEF Pairs
    <3>3. i \in Nat /\ i + 1 \in 1 .. Len(s) - 1
      BY <1>0, <2>1, <3>2
    <3> QED BY <1>0, <3>2, <3>3
  <2>2. ASSUME NEW i \in DOMAIN t, t[i].kind = "surface_configure", i > 1
        PROVE  t[i - 1].kind = "toplevel_configure"
    <3>1. i + 1 \in DOMAIN s /\ s[i + 1].kind = "surface_configure" /\ i + 1 > 1
          /\ i - 1 \in 1 .. Len(s) - 1 /\ (i + 1) - 1 = i /\ (i - 1) + 1 = i
      BY <1>0, <2>2
    <3>2. s[(i + 1) - 1].kind = "toplevel_configure"
      BY <3>1 DEF Pairs
    <3> QED BY <1>0, <3>1, <3>2
  <2> QED BY <2>1, <2>2 DEF Pairs
<1>3. Arrives(t, next, wish)
  <2> SUFFICES ASSUME NEW i \in DOMAIN t, t[i].kind = "surface_configure",
                      NoConfigure(t, i + 1)
               PROVE  /\ Applied(t, next, i).maximized = wish.maximized
                      /\ Applied(t, next, i).fullscreen = wish.fullscreen
    BY DEF Arrives
  <2>1. /\ i + 1 \in DOMAIN s /\ s[i + 1].kind = "surface_configure"
        /\ i \in Nat \ {0} /\ i + 1 > 1 /\ i + 1 \in Nat \ {0}
    BY <1>0
  <2>2. NoConfigure(s, (i + 1) + 1)
    BY <1>1, <2>1
  <2>3. /\ Applied(s, held, i + 1).maximized = wish.maximized
        /\ Applied(s, held, i + 1).fullscreen = wish.fullscreen
    BY <2>1, <2>2 DEF Arrives
  <2>4. s[(i + 1) - 1].kind = "toplevel_configure" /\ (i + 1) - 1 = i
    BY <2>1 DEF Pairs
  <2>5. Applied(s, held, i + 1) = s[i].pending
    BY <2>1, <2>4 DEF Applied
  <2>6. CASE i = 1
    <3>1. next = s[1].pending
      BY <1>0, <2>4, <2>6
    <3> QED BY <2>3, <2>5, <2>6, <3>1 DEF Applied
  <2>7. CASE i # 1
    <3>1. i - 1 \in 1 .. Len(s) - 1 /\ (i - 1) + 1 = i
      BY <1>0, <2>7
    <3>2. t[i - 1] = s[i]
      BY <1>0, <3>1
    <3> QED BY <2>3, <2>5, <2>7, <3>2 DEF Applied
  <2> QED BY <2>6, <2>7
<1>4. ASSUME NoConfigure(t, 1), Head(s).kind = "surface_configure"
      PROVE  held.maximized = wish.maximized /\ held.fullscreen = wish.fullscreen
  <2>1. NoConfigure(s, 1 + 1)
    BY <1>1, <1>4
  <2>2. 1 \in DOMAIN s
    BY <1>0
  <2>3. s[1].kind = "surface_configure"
    BY <1>0, <1>4
  <2> QED BY <2>1, <2>2, <2>3 DEF Arrives, Applied
<1>5. ASSUME NoConfigure(t, 1), Head(s).kind # "surface_configure"
      PROVE  NoConfigure(s, 1)
  <2>0. NoConfigure(s, 1 + 1)
    BY <1>1, <1>5
  <2>1. NoConfigure(s, 1 + 1) /\ s[1].kind # "surface_configure"
    BY <1>0, <1>5, <2>0
  <2> SUFFICES ASSUME NEW j \in 1 .. Len(s) PROVE s[j].kind # "surface_configure"
    BY DEF NoConfigure
  <2>2. j = 1 \/ j \in (1 + 1) .. Len(s)
    BY <1>0
  <2> QED BY <2>1, <2>2 DEF NoConfigure
<1> QED BY <1>2, <1>3, <1>4, <1>5 DEF t

\* A message that is no part of a configure changes nothing.
LEMMA ConfigureAside ==
  ASSUME NEW s \in Seq(Message), NEW m \in Message,
         m.kind \notin {"toplevel_configure", "surface_configure"},
         Pairs(s), NEW held, NEW wish, Arrives(s, held, wish)
  PROVE  /\ Pairs(Append(s, m)) /\ Arrives(Append(s, m), held, wish)
         /\ NoConfigure(Append(s, m), 1) => NoConfigure(s, 1)
<1> DEFINE t == Append(s, m)
<1>0. /\ Len(t) = Len(s) + 1 /\ Len(s) \in Nat
      /\ DOMAIN s = 1 .. Len(s) /\ DOMAIN t = 1 .. Len(s) + 1
      /\ \A i \in 1 .. Len(s) : t[i] = s[i]
      /\ t[Len(s) + 1] = m
  BY AppendIs
<1> HIDE DEF t
<1>1. \A i \in 1 .. Len(s) + 1 : t[i].kind \in {"toplevel_configure", "surface_configure"}
        => i \in 1 .. Len(s) /\ t[i] = s[i]
  BY <1>0
<1>2. ASSUME NEW i \in DOMAIN t, t[i].kind = "toplevel_configure"
      PROVE  i < Len(t) /\ t[i + 1].kind = "surface_configure"
  <2>1. i \in DOMAIN s /\ s[i].kind = "toplevel_configure"
    BY <1>0, <1>1, <1>2
  <2>2. i < Len(s) /\ s[i + 1].kind = "surface_configure"
    BY <2>1 DEF Pairs
  <2>3. i + 1 \in 1 .. Len(s) /\ i < Len(t)
    BY <1>0, <2>1, <2>2
  <2> QED BY <1>0, <2>2, <2>3
<1>3. ASSUME NEW i \in DOMAIN t, t[i].kind = "surface_configure"
      PROVE  /\ i \in DOMAIN s /\ s[i].kind = "surface_configure"
             /\ i > 1 => t[i - 1].kind = "toplevel_configure" /\ t[i - 1] = s[i - 1]
  <2>1. i \in DOMAIN s /\ s[i].kind = "surface_configure"
    BY <1>0, <1>1, <1>3
  <2>2. i > 1 => s[i - 1].kind = "toplevel_configure"
    BY <2>1 DEF Pairs
  <2>3. i > 1 => i - 1 \in 1 .. Len(s)
    BY <1>0, <2>1
  <2> QED BY <1>0, <2>1, <2>2, <2>3
<1>4. Pairs(t)
  BY <1>2, <1>3 DEF Pairs
<1>5. \A i \in Nat \ {0} : NoConfigure(t, i) => NoConfigure(s, i)
  <2> SUFFICES ASSUME NEW i \in Nat \ {0}, NoConfigure(t, i), NEW j \in i .. Len(s)
               PROVE  s[j].kind # "surface_configure"
    BY DEF NoConfigure
  <2>1. j \in i .. Len(t) /\ j \in 1 .. Len(s)
    BY <1>0
  <2> QED BY <1>0, <2>1 DEF NoConfigure
<1>6. Arrives(t, held, wish)
  <2> SUFFICES ASSUME NEW i \in DOMAIN t, t[i].kind = "surface_configure",
                      NoConfigure(t, i + 1)
               PROVE  /\ Applied(t, held, i).maximized = wish.maximized
                      /\ Applied(t, held, i).fullscreen = wish.fullscreen
    BY DEF Arrives
  <2>1. i \in DOMAIN s /\ s[i].kind = "surface_configure" /\ i \in Nat \ {0}
        /\ (i > 1 => t[i - 1] = s[i - 1]) /\ i + 1 \in Nat \ {0}
    BY <1>0, <1>3
  <2>2. NoConfigure(s, i + 1)
    BY <1>5, <2>1
  <2>3. Applied(t, held, i) = Applied(s, held, i)
    BY <2>1 DEF Applied
  <2> QED BY <2>1, <2>2, <2>3 DEF Arrives
<1> QED BY <1>4, <1>5, <1>6 DEF t

\* A configure is the last one in flight.
LEMMA ConfigureSent ==
  ASSUME NEW s \in Seq(Message), Pairs(s), NEW held, NEW wish, NEW p \in Pending,
         p.maximized = wish.maximized, p.fullscreen = wish.fullscreen
  PROVE  LET t == s \o <<[kind |-> "toplevel_configure", pending |-> p],
                         [kind |-> "surface_configure"]>>
         IN  Pairs(t) /\ Arrives(t, held, wish) /\ ~NoConfigure(t, 1)
<1> DEFINE first == [kind |-> "toplevel_configure", pending |-> p]
           second == [kind |-> "surface_configure"]
           t == s \o <<first, second>>
<1>0. /\ Len(t) = Len(s) + 2 /\ Len(s) \in Nat
      /\ DOMAIN s = 1 .. Len(s) /\ DOMAIN t = 1 .. Len(s) + 2
      /\ \A i \in 1 .. Len(s) : t[i] = s[i]
      /\ t[Len(s) + 1] = first /\ t[Len(s) + 2] = second
  OBVIOUS
<1>1. first.kind = "toplevel_configure" /\ first.pending = p
      /\ second.kind = "surface_configure"
  OBVIOUS
<1> HIDE DEF t, first, second
<1>2. ASSUME NEW i \in DOMAIN t
      PROVE  (i \in DOMAIN s /\ t[i] = s[i]) \/ i = Len(s) + 1 \/ i = Len(s) + 2
  BY <1>0
<1>3. ASSUME NEW i \in DOMAIN t, t[i].kind = "toplevel_configure"
      PROVE  i < Len(t) /\ t[i + 1].kind = "surface_configure"
  <2>1. CASE i \in DOMAIN s /\ t[i] = s[i]
    <3>1. i < Len(s) /\ s[i + 1].kind = "surface_configure"
      BY <1>3, <2>1 DEF Pairs
    <3>2. i + 1 \in 1 .. Len(s) /\ i < Len(t)
      BY <1>0, <2>1, <3>1
    <3> QED BY <1>0, <3>1, <3>2
  <2>2. CASE i = Len(s) + 1
    BY <1>0, <1>1, <2>2
  <2>3. i # Len(s) + 2
    BY <1>0, <1>1, <1>3
  <2> QED BY <1>2, <2>1, <2>2, <2>3
<1>4. ASSUME NEW i \in DOMAIN t, t[i].kind = "surface_configure", i > 1
      PROVE  t[i - 1].kind = "toplevel_configure"
  <2>1. CASE i \in DOMAIN s /\ t[i] = s[i]
    <3>1. s[i - 1].kind = "toplevel_configure" /\ i - 1 \in 1 .. Len(s)
      BY <1>0, <1>4, <2>1 DEF Pairs
    <3> QED BY <1>0, <3>1
  <2>2. i # Len(s) + 1
    BY <1>0, <1>1, <1>4
  <2>3. CASE i = Len(s) + 2
    <3>1. i - 1 = Len(s) + 1
      BY <1>0, <2>3
    <3> QED BY <1>0, <1>1, <3>1
  <2> QED BY <1>2, <2>1, <2>2, <2>3
<1>5. Pairs(t)
  BY <1>3, <1>4 DEF Pairs
<1>6. Arrives(t, held, wish)
  <2> SUFFICES ASSUME NEW i \in DOMAIN t, t[i].kind = "surface_configure",
                      NoConfigure(t, i + 1)
               PROVE  /\ Applied(t, held, i).maximized = wish.maximized
                      /\ Applied(t, held, i).fullscreen = wish.fullscreen
    BY DEF Arrives
  <2>1. i = Len(s) + 2
    <3>1. CASE i < Len(s) + 2
      <4>1. Len(s) + 2 \in (i + 1) .. Len(t)
        BY <1>0, <3>1
      <4> QED BY <1>0, <1>1, <4>1 DEF NoConfigure
    <3> QED BY <1>0, <3>1
  <2>2. i # 1 /\ i - 1 = Len(s) + 1
    BY <1>0, <2>1
  <2>3. Applied(t, held, i) = p
    BY <1>0, <1>1, <2>2 DEF Applied
  <2> QED BY <2>3
<1>7. ~NoConfigure(t, 1)
  <2>1. Len(s) + 2 \in 1 .. Len(t)
    BY <1>0
  <2> QED BY <1>0, <1>1, <2>1 DEF NoConfigure
<1> QED BY <1>5, <1>6, <1>7 DEF t, first, second

\* Any other message but a configure leaves what is agreed on alone.
Settled == Pairs(wire) /\ Arrives(wire, surf.pending, wants)
           /\ (NoConfigure(wire, 1) => Arrived(win, told, wants))

LEMMA CompositorAgrees ==
  ASSUME TypeOK, Counted, Settled, Compositor
  PROVE  Settled' /\ UNCHANGED <<setup, outputs, win, surf, events, told, proposed>>
<1>0. wire \in Seq(Message)
  BY Typed
<1>1. ASSUME NEW m \in Message, m.kind \notin {"toplevel_configure", "surface_configure"},
             Send(<<m>>), wants' = wants
      PROVE  Settled' /\ UNCHANGED <<setup, outputs, win, surf, events, told, proposed>>
  <2>1. wire' = Append(wire, m) /\ UNCHANGED <<setup, outputs, win, surf, events, told, proposed>>
    BY <1>0, <1>1 DEF Send
  <2>2. Pairs(wire') /\ Arrives(wire', surf.pending, wants)
        /\ (NoConfigure(wire', 1) => NoConfigure(wire, 1))
    BY <1>0, <1>1, <2>1, ConfigureAside DEF Settled
  <2>3. NoConfigure(wire', 1) => Arrived(win, told, wants)
    BY <2>2 DEF Settled
  <2> QED BY <1>1, <2>1, <2>2, <2>3 DEF Settled
<1>2. ASSUME NEW o \in Output, MovesOnto(o) \/ MovesOff(o) \/ Unplugged(o)
      PROVE  Settled' /\ UNCHANGED <<setup, outputs, win, surf, events, told, proposed>>
  <2>1. \A kind \in {"enter", "leave", "global_remove"} :
          OutputSays(kind, o) \in Message /\ OutputSays(kind, o).kind = kind
    BY DEF OutputSays, Message
  <2>2. PICK kind \in {"enter", "leave", "global_remove"} :
          Send(<<OutputSays(kind, o)>>) /\ wants' = wants
    BY <1>2 DEF MovesOnto, MovesOff, Unplugged
  <2> QED BY <1>1, <2>1, <2>2
<1>3. ASSUME NEW o \in Output, NEW s \in Scales, Rescales(o, s) \/ Plugged(o, s)
      PROVE  Settled' /\ UNCHANGED <<setup, outputs, win, surf, events, told, proposed>>
  <2>1. \A kind \in {"global", "output_scale"} :
          ScaleSays(kind, o, s) \in Message /\ ScaleSays(kind, o, s).kind = kind
    BY DEF ScaleSays, Message
  <2>2. PICK kind \in {"global", "output_scale"} :
          Send(<<ScaleSays(kind, o, s)>>) /\ wants' = wants
    BY <1>3 DEF Rescales, Plugged
  <2> QED BY <1>1, <2>1, <2>2
<1>4. ASSUME NEW s \in Fractions, Prefers(s)
      PROVE  Settled' /\ UNCHANGED <<setup, outputs, win, surf, events, told, proposed>>
  <2> DEFINE m == [kind |-> "preferred_scale", scale |-> s]
  <2>1. m \in Message /\ m.kind = "preferred_scale"
    BY DEF Message
  <2>2. Send(<<m>>) /\ wants' = wants
    BY <1>4 DEF Prefers
  <2> HIDE DEF m
  <2> QED BY <1>1, <2>1, <2>2
<1>5. ASSUME NEW p \in Proposals, Proposes(p)
      PROVE  Settled' /\ UNCHANGED <<setup, outputs, win, surf, events, told, proposed>>
  <2>1. p \in Pending
    BY SurfaceAssumption DEF Pending
  <2>2. /\ wants'.maximized = p.maximized /\ wants'.fullscreen = p.fullscreen
        /\ wire' = wire \o <<[kind |-> "toplevel_configure", pending |-> p],
                             [kind |-> "surface_configure"]>>
        /\ UNCHANGED <<setup, outputs, win, surf, events, told, proposed>>
    BY <1>5 DEF Proposes, Send
  <2>3. Pairs(wire') /\ Arrives(wire', surf.pending, wants') /\ ~NoConfigure(wire', 1)
    BY <1>0, <2>1, <2>2, ConfigureSent DEF Settled
  <2> QED BY <2>2, <2>3 DEF Settled
<1> QED BY <1>2, <1>3, <1>4, <1>5 DEF Compositor

LEMMA DispatchAgrees ==
  ASSUME TypeOK, Counted, ConfigureInv, Dispatch
  PROVE  ConfigureInv'
<1> DEFINE m == Head(wire)
<1>0. /\ wire \in Seq(Message) /\ wire # << >> /\ wire' = Tail(wire) /\ wants' = wants
      /\ win \in Win /\ surf \in Surf /\ setup \in Setups /\ events \in Seq(Event)
      /\ told \in Size /\ outputs \in ScaleMap
  BY DispatchIs, Typed
\* All but a surface_configure keep the state, and only a toplevel_configure
\* changes the proposal held.
<1>1. CASE m.kind # "surface_configure"
  <2>1. /\ IF m.kind = "toplevel_configure" THEN surf'.pending = m.pending
           ELSE surf'.pending = surf.pending
        /\ win'.width = win.width /\ win'.maximized = win.maximized
        /\ win'.fullscreen = win.fullscreen /\ told' = told
    <3>1. CASE \E o \in Output : m.kind = "enter" /\ SurfaceEnter(o)
      BY <1>0, <3>1, EnterIs, UpdateScaleIs
    <3>2. CASE \E o \in Output : m.kind = "leave" /\ SurfaceLeave(o)
      <4>1. PICK o \in Output : m.kind = "leave" /\ SurfaceLeave(o)
        BY <3>2
      <4> DEFINE entered == surf.outputs \ {o}
      <4>2. /\ entered \in SUBSET Output /\ IsFiniteSet(entered)
            /\ UpdateScale(entered, outputs) /\ UNCHANGED <<outputs, told, proposed>>
        BY <4>1, LeaveIs
      <4> HIDE DEF entered
      <4> QED BY <1>0, <4>1, <4>2, UpdateScaleIs
    <3>3. CASE \E o \in Output, s \in Scales : m.kind = "output_scale" /\ OutputScale(o, s)
      <4>1. /\ outputs' \in ScaleMap /\ surf.outputs \in SUBSET Output
            /\ UpdateScale(surf.outputs, outputs') /\ told' = told
            /\ IsFiniteSet(surf.outputs)
        BY <3>3, OutputScaleIs DEF Counted
      <4> QED BY <1>0, <3>3, <4>1, UpdateScaleIs
    <3>4. CASE \E o \in Output, s \in Scales :
                 m.kind \in {"global", "global_remove"}
                 /\ (RegistryGlobal(o, s) \/ RegistryGlobalRemove(o))
      BY <3>4, RegistryIs
    <3>5. CASE \E s \in Fractions : m.kind = "preferred_scale" /\ FractionalScalePreferred(s)
      BY <3>5, PreferredIs
    <3>6. CASE m.kind = "toplevel_configure" /\ ToplevelConfigure(m.pending)
      BY <1>0, <3>6 DEF ToplevelConfigure, Surf
    <3>7. 1 \in Scales
      BY SurfaceAssumption
    <3> QED BY <1>1, <3>1, <3>2, <3>3, <3>4, <3>5, <3>6, <3>7, DispatchCases
  <2> DEFINE next == surf'.pending
  <2>2. /\ Pairs(wire') /\ Arrives(wire', next, wants)
        /\ NoConfigure(wire', 1) => NoConfigure(wire, 1)
    <3>1. IF Head(wire).kind = "toplevel_configure" THEN next = Head(wire).pending
          ELSE next = surf.pending
      BY <2>1
    <3> HIDE DEF next
    <3> QED BY <1>0, <1>1, <3>1, ConfigureTail DEF ConfigureInv
  <2>3. NoConfigure(wire', 1) => Arrived(win', told', wants)
    BY <2>1, <2>2 DEF ConfigureInv, Arrived
  <2> QED BY <1>0, <2>1, <2>2, <2>3 DEF ConfigureInv
<1>2. CASE m.kind = "surface_configure"
  <2>1. SurfaceConfigure
    BY <1>2, DispatchCases
  <2>2. /\ win'.maximized = surf.pending.maximized
        /\ win'.fullscreen = surf.pending.fullscreen
        /\ surf'.pending = surf.pending
        /\ told'.maximized = surf.pending.maximized
        /\ told'.width = win'.width
    BY <2>1, ConfigureIs DEF ConfigureInv
  <2>3. /\ Pairs(wire') /\ Arrives(wire', surf.pending, wants)
        /\ NoConfigure(wire', 1) =>
             surf.pending.maximized = wants.maximized
             /\ surf.pending.fullscreen = wants.fullscreen
    BY <1>0, <1>2, ConfigureTail DEF ConfigureInv
  <2>4. NoConfigure(wire', 1) => Arrived(win', told', wants)
    BY <2>2, <2>3 DEF Arrived
  <2> QED BY <1>0, <2>2, <2>3, <2>4 DEF ConfigureInv
<1> QED BY <1>1, <1>2

LEMMA ConfigureStep ==
  ASSUME TypeOK, Counted, ConfigureInv, [Next]_vars
  PROVE  ConfigureInv'
<1>1. CASE Compositor
  BY <1>1, CompositorAgrees DEF Settled, ConfigureInv
<1>2. CASE Dispatch
  BY <1>2, DispatchAgrees
<1>3. CASE Hide
  <2>1. surf'.pending = surf.pending /\ UNCHANGED <<wire, wants, win, told>>
    BY <1>3, Typed DEF Hide, Surf, compositor
  <2> QED BY <2>1 DEF ConfigureInv
<1>4. CASE \E width \in Asked : SetSize(width)
  <2>1. PICK width \in Nat \ {0} : SetSize(width)
    BY <1>4, SurfaceAssumption
  <2>2. win \in Win /\ told \in Size /\ surf \in Surf /\ surf.bufferScale \in Nat \ {0}
    BY Typed, SurfaceAssumption DEF Surf
  <2>3. /\ win'.width = width /\ win'.maximized = win.maximized
        /\ win'.fullscreen = win.fullscreen
    BY <2>1, <2>2, ResizeEglType DEF SetSize
  <2>4. told'.width = width /\ told'.maximized = told.maximized
        /\ UNCHANGED <<wire, wants, surf>>
    BY <2>1, <2>2 DEF SetSize, Size, compositor
  <2> QED BY <2>3, <2>4 DEF ConfigureInv, Arrived
<1>5. CASE Console \/ UNCHANGED vars
  BY <1>5 DEF Console, PollEvent, RootResize, SetFont, vars, surface, compositor, ConfigureInv
<1> QED BY <1>1, <1>2, <1>3, <1>4, <1>5 DEF Next, Surface

-----------------------------------------------------------------------------
(* The size *)

\* A handler that only makes the surface sharper or coarser, as those of the
\* outputs do.
Rescaled(entered) ==
  /\ win' \in Win /\ win'.width = win.width
  /\ surf'.outputs = entered
  /\ UNCHANGED <<events, told, proposed, setup>>
  /\ ~setup.fractional /\ Sharp(win, surf, outputs) => Sharp(win', surf', outputs')

LEMMA RescaledIs ==
  ASSUME TypeOK, Counted, setup' = setup
  PROVE  /\ \A o \in Output : SurfaceEnter(o) =>
              \E entered : entered \subseteq surf.outputs \cup {o} /\ Rescaled(entered)
         /\ \A o \in Output : SurfaceLeave(o) => Rescaled(surf.outputs \ {o})
         /\ \A o \in Output, s \in Scales : OutputScale(o, s) => Rescaled(surf.outputs)
<1>0. /\ win \in Win /\ surf \in Surf /\ setup \in Setups /\ events \in Seq(Event)
      /\ outputs \in ScaleMap /\ IsFiniteSet(surf.outputs)
  BY Typed DEF Counted
<1>1. ASSUME NEW entered \in SUBSET Output, IsFiniteSet(entered), outputs' \in ScaleMap,
             UpdateScale(entered, outputs'), UNCHANGED <<told, proposed>>
      PROVE  Rescaled(entered)
  <2>1. PICK bound \in ScaleMap : bound = outputs'
    BY <1>1
  <2>2. UpdateScale(entered, bound)
    BY <1>1, <2>1
  <2> QED BY <1>0, <1>1, <2>1, <2>2, UpdateScaleIs DEF Rescaled
<1>2. ASSUME NEW o \in Output, SurfaceEnter(o)
      PROVE  \E entered : entered \subseteq surf.outputs \cup {o} /\ Rescaled(entered)
  BY <1>0, <1>1, <1>2, EnterIs
<1>3. ASSUME NEW o \in Output, SurfaceLeave(o)
      PROVE  Rescaled(surf.outputs \ {o})
  <2> DEFINE entered == surf.outputs \ {o}
  <2>1. /\ entered \in SUBSET Output /\ IsFiniteSet(entered)
        /\ UpdateScale(entered, outputs) /\ UNCHANGED <<outputs, told, proposed>>
    BY <1>3, LeaveIs
  <2> HIDE DEF entered
  <2>2. Rescaled(entered)
    BY <1>0, <1>1, <2>1
  <2> QED BY <2>2 DEF entered
<1>4. ASSUME NEW o \in Output, NEW s \in Scales, OutputScale(o, s)
      PROVE  Rescaled(surf.outputs)
  BY <1>0, <1>1, <1>4, OutputScaleIs
<1> QED BY <1>2, <1>3, <1>4

\* The handlers in three groups: the outputs' and the registry's, which leave
\* the size alone; the preferred scale's; the configure's.
LEMMA DispatchKinds ==
  ASSUME TypeOK, Counted, Dispatch
  PROVE  LET m == Head(wire) IN
         \/ /\ m.kind \in {"enter", "leave", "output_scale"} /\ m.out \in Output
            /\ \E entered :
                 /\ m.kind = "enter" => entered \subseteq surf.outputs \cup {m.out}
                 /\ m.kind = "leave" => entered = surf.outputs \ {m.out}
                 /\ m.kind = "output_scale" => entered = surf.outputs
                 /\ Rescaled(entered)
         \/ /\ m.kind \in {"global", "global_remove"} /\ m.out \in Output
            /\ UNCHANGED <<win, surf, events, told, proposed>>
            /\ \A p \in DOMAIN outputs' :
                 p # m.out \/ m.kind = "global_remove" =>
                   p \in DOMAIN outputs /\ outputs'[p] = outputs[p]
         \/ /\ m.kind = "toplevel_configure"
            /\ surf' = [surf EXCEPT !.pending = m.pending]
            /\ UNCHANGED <<outputs, win, events, told, proposed>>
         \/ /\ m.kind = "preferred_scale"
            /\ \E s \in Fractions : FractionalScalePreferred(s)
         \/ m.kind = "surface_configure" /\ SurfaceConfigure
<1> DEFINE m == Head(wire)
<1>0. setup' = setup
  BY DispatchIs
<1>1. CASE m.kind \in {"enter", "leave", "output_scale"}
  <2>1. CASE m.kind = "enter"
    BY <1>0, <2>1, DispatchCases, RescaledIs
  <2>2. CASE m.kind = "leave"
    BY <1>0, <2>2, DispatchCases, RescaledIs
  <2>3. CASE m.kind = "output_scale"
    BY <1>0, <2>3, DispatchCases, RescaledIs
  <2> QED BY <1>1, <2>1, <2>2, <2>3
<1>2. CASE m.kind \in {"global", "global_remove"}
  <2>1. m.out \in Output /\ \E s \in Scales :
          \/ m.kind = "global" /\ RegistryGlobal(m.out, s)
          \/ m.kind = "global_remove" /\ RegistryGlobalRemove(m.out)
    BY <1>2, DispatchCases, SurfaceAssumption
  <2> QED BY <1>2, <2>1, RegistryIs
<1>3. CASE m.kind = "toplevel_configure"
  BY <1>3, DispatchCases DEF ToplevelConfigure
<1>4. CASE m.kind = "preferred_scale"
  BY <1>4, DispatchCases
<1>5. CASE m.kind = "surface_configure"
  BY <1>5, DispatchCases
<1> QED BY <1>1, <1>2, <1>3, <1>4, <1>5, DispatchCases

Within(width, s, from) ==
  LET over == width - s.limits.min IN
  from > 0 =>
    /\ over >= 0
    /\ s.limits.inc > 1 => over >= s.limits.inc /\ over % s.limits.inc = 0
    /\ s.limits.max > 0 /\ s.limits.max >= s.limits.min + s.limits.inc => width <= s.limits.max

LEMMA LimitsStep ==
  ASSUME TypeOK, Counted, LimitsHold, [Next]_vars
  PROVE  LimitsHold'
<1>0. /\ LimitsHold <=> Within(win.width, setup, proposed)
      /\ LimitsHold' <=> Within(win'.width, setup', proposed')
  BY DEF LimitsHold, Within
<1>1. CASE win'.width = win.width /\ UNCHANGED <<setup, proposed>>
  BY <1>0, <1>1
<1>2. CASE Compositor
  BY <1>1, <1>2 DEF Compositor, MovesOnto, MovesOff, Unplugged, Rescales, Plugged, Prefers,
                   Proposes, Send
<1>3. CASE Dispatch
  <2>0. setup' = setup
    BY <1>3, DispatchIs
  <2>1. CASE SurfaceConfigure
    <3>1. PICK width \in Nat \ {0} :
            /\ win'.width = width
            /\ \/ width = SizeFor(surf.pending.width) /\ surf.pending.width \in Nat \ {0}
                  /\ proposed' = surf.pending.width
               \/ width = win.width /\ proposed' = proposed
      BY <2>1, ConfigureIs
    <3>2. CASE width = SizeFor(surf.pending.width) /\ surf.pending.width \in Nat \ {0}
      <4> DEFINE q == surf.pending.width
      <4>1. setup \in Setups /\ q \in Nat \ {0}
        BY <3>2, Typed
      <4> HIDE DEF q
      <4>2. Within(SizeFor(q), setup, proposed')
        BY <4>1, SizeForIs DEF Within
      <4> QED BY <1>0, <2>0, <3>1, <3>2, <4>2 DEF q
    <3> QED BY <1>1, <2>0, <3>1, <3>2
  <2>2. CASE ~SurfaceConfigure
    BY <1>1, <1>3, <2>0, <2>2, DispatchKinds, PreferredIs DEF Rescaled
  <2> QED BY <2>1, <2>2
<1>4. CASE \E width \in Asked : SetSize(width)
  BY <1>0, <1>4 DEF SetSize, Within
<1>5. CASE Hide \/ Console \/ UNCHANGED vars
  BY <1>1, <1>5 DEF Hide, Console, PollEvent, RootResize, SetFont, vars, surface
<1> QED BY <1>2, <1>3, <1>4, <1>5 DEF Next, Surface

LEMMA FractionsStep ==
  ASSUME TypeOK, Counted, FractionsExpected, [Next]_vars
  PROVE  FractionsExpected'
<1>0. wire \in Seq(Message)
  BY Typed
<1> SUFFICES ASSUME ~setup.fractional
             PROVE  FractionsExpected'
  <2>1. setup' = setup
    BY DispatchIs DEF Next, Surface, Compositor, MovesOnto, MovesOff, Unplugged, Rescales,
      Plugged, Prefers, Proposes, Send, Hide, SetSize, Console, PollEvent, RootResize,
      SetFont, vars, surface
  <2> QED BY <2>1 DEF FractionsExpected
<1>1. ASSUME NEW m \in Message, m.kind # "preferred_scale", Send(<<m>>)
      PROVE  FractionsExpected'
  <2>1. wire' = Append(wire, m)
    BY <1>0, <1>1 DEF Send
  <2> QED BY <1>0, <1>1, <2>1, AppendIs DEF FractionsExpected
<1>2. CASE Compositor
  <2>1. ASSUME NEW o \in Output, MovesOnto(o) \/ MovesOff(o) \/ Unplugged(o)
        PROVE  FractionsExpected'
    <3>1. \A kind \in {"enter", "leave", "global_remove"} :
            OutputSays(kind, o) \in Message /\ OutputSays(kind, o).kind = kind
      BY DEF OutputSays, Message
    <3> QED BY <1>1, <2>1, <3>1 DEF MovesOnto, MovesOff, Unplugged
  <2>2. ASSUME NEW o \in Output, NEW s \in Scales, Rescales(o, s) \/ Plugged(o, s)
        PROVE  FractionsExpected'
    <3>1. \A kind \in {"global", "output_scale"} :
            ScaleSays(kind, o, s) \in Message /\ ScaleSays(kind, o, s).kind = kind
      BY DEF ScaleSays, Message
    <3> QED BY <1>1, <2>2, <3>1 DEF Rescales, Plugged
  <2>3. ASSUME NEW p \in Proposals, Proposes(p)
        PROVE  FractionsExpected'
    <3> DEFINE first == [kind |-> "toplevel_configure", pending |-> p]
               second == [kind |-> "surface_configure"]
    <3>1. wire' = wire \o <<first, second>>
      BY <2>3 DEF Proposes, Send
    <3>2. first.kind # "preferred_scale" /\ second.kind # "preferred_scale"
      OBVIOUS
    <3> HIDE DEF first, second
    <3>3. \A i \in DOMAIN wire' :
            (i \in DOMAIN wire /\ wire'[i] = wire[i]) \/ wire'[i] \in {first, second}
      BY <1>0, <3>1
    <3> QED BY <3>2, <3>3 DEF FractionsExpected
  <2> QED BY <1>2, <2>1, <2>2, <2>3 DEF Compositor, Prefers
<1>3. CASE Dispatch
  <2>1. wire # << >> /\ wire' = Tail(wire)
    BY <1>3, DispatchIs
  <2> QED BY <1>0, <2>1, TailIs DEF FractionsExpected
<1>4. CASE wire' = wire
  BY <1>4 DEF FractionsExpected
<1>5. CASE Hide \/ (\E width \in Asked : SetSize(width)) \/ Console \/ UNCHANGED vars
  BY <1>4, <1>5 DEF Hide, SetSize, Console, PollEvent, RootResize, SetFont, vars, surface,
                   compositor
<1> QED BY <1>2, <1>3, <1>5 DEF Next, Surface

-----------------------------------------------------------------------------
(* The scale *)

\* Nothing dispatched: what libnack holds to be entered.
LEMMA InsideNow ==
  ASSUME NEW s, NEW entered, NEW o
  PROVE  Inside(s, entered, o, 0) <=> o \in entered
<1>1. 0 .. 0 = {0} /\ (0 + 1) .. 0 = {}
  OBVIOUS
<1> QED BY <1>1 DEF Inside

LEMMA InsideTail ==
  ASSUME NEW s \in Seq(Message), s # << >>, NEW entered, NEW next, NEW o \in Output,
         next \subseteq entered \cup {p \in Output : Enters(Head(s), p)},
         Leaves(Head(s), o) => o \notin next,
         NEW n \in 0 .. Len(s) - 1, Inside(Tail(s), next, o, n)
  PROVE  Inside(s, entered, o, n + 1)
<1>0. /\ Head(s) = s[1] /\ Len(s) \in Nat /\ Len(s) >= 1
      /\ \A i \in 1 .. Len(s) - 1 : i + 1 \in 1 .. Len(s) /\ Tail(s)[i] = s[i + 1]
  BY TailIs
<1> DEFINE t == Tail(s)
<1> HIDE DEF t
<1>1. PICK i \in 0 .. n :
        /\ IF i = 0 THEN o \in next ELSE Enters(t[i], o)
        /\ \A j \in (i + 1) .. n : ~Leaves(t[j], o)
  BY DEF Inside, t
<1>2. ASSUME NEW j \in (i + 2) .. (n + 1)
      PROVE  ~Leaves(s[j], o)
  <2>1. j - 1 \in (i + 1) .. n /\ j - 1 \in 1 .. Len(s) - 1 /\ (j - 1) + 1 = j
    BY <1>0
  <2> QED BY <1>0, <1>1, <2>1 DEF t
<1>3. CASE i # 0
  <2>1. i + 1 \in 0 .. (n + 1) /\ i + 1 # 0 /\ i \in 1 .. Len(s) - 1
    BY <1>0, <1>3
  <2>2. Enters(s[i + 1], o)
    BY <1>0, <1>1, <1>3, <2>1 DEF t
  <2>3. \A j \in ((i + 1) + 1) .. (n + 1) : ~Leaves(s[j], o)
    BY <1>2
  <2> QED BY <2>1, <2>2, <2>3 DEF Inside
<1>4. CASE i = 0 /\ Enters(s[1], o)
  <2>1. 1 \in 0 .. (n + 1) /\ \A j \in (1 + 1) .. (n + 1) : ~Leaves(s[j], o)
    BY <1>2, <1>4
  <2> QED BY <1>4, <2>1 DEF Inside
<1>5. CASE i = 0 /\ ~Enters(s[1], o)
  <2>1. o \in next /\ o \in entered /\ ~Leaves(s[1], o)
    BY <1>0, <1>1, <1>5
  <2>2. \A j \in (0 + 1) .. (n + 1) : ~Leaves(s[j], o)
    <3> SUFFICES ASSUME NEW j \in 1 .. (n + 1) PROVE ~Leaves(s[j], o)
      OBVIOUS
    <3>1. j = 1 \/ j \in (i + 2) .. (n + 1)
      BY <1>5
    <3> QED BY <1>2, <2>1, <3>1
  <2>3. 0 \in 0 .. (n + 1)
    OBVIOUS
  <2> QED BY <2>1, <2>2, <2>3 DEF Inside
<1> QED BY <1>3, <1>4, <1>5

LEMMA InsideAppend ==
  ASSUME NEW s \in Seq(Message), NEW m \in Message, NEW entered, NEW o
  PROVE  /\ \A n \in 0 .. Len(s) :
              Inside(Append(s, m), entered, o, n) <=> Inside(s, entered, o, n)
         /\ Inside(Append(s, m), entered, o, Len(s) + 1) =>
              \/ Enters(m, o)
              \/ Inside(s, entered, o, Len(s)) /\ ~Leaves(m, o)
<1> DEFINE t == Append(s, m)
<1>0. /\ Len(s) \in Nat /\ t[Len(s) + 1] = m
      /\ \A i \in 1 .. Len(s) : t[i] = s[i]
  BY AppendIs
<1> HIDE DEF t
<1>1. ASSUME NEW n \in 0 .. Len(s)
      PROVE  Inside(t, entered, o, n) <=> Inside(s, entered, o, n)
  <2>1. \A i \in 0 .. n : i # 0 => t[i] = s[i]
    BY <1>0
  <2>2. \A i \in 0 .. n : \A j \in (i + 1) .. n : t[j] = s[j]
    BY <1>0
  <2> QED BY <2>1, <2>2 DEF Inside
<1>2. ASSUME Inside(t, entered, o, Len(s) + 1), ~Enters(m, o)
      PROVE  Inside(t, entered, o, Len(s)) /\ ~Leaves(m, o)
  <2>1. PICK i \in 0 .. (Len(s) + 1) :
          /\ IF i = 0 THEN o \in entered ELSE Enters(t[i], o)
          /\ \A j \in (i + 1) .. (Len(s) + 1) : ~Leaves(t[j], o)
    BY <1>2 DEF Inside
  <2>2. i # Len(s) + 1
    BY <1>0, <1>2, <2>1
  <2>3. i \in 0 .. Len(s) /\ Len(s) + 1 \in (i + 1) .. (Len(s) + 1)
        /\ \A j \in (i + 1) .. Len(s) : j \in (i + 1) .. (Len(s) + 1)
    BY <1>0, <2>2
  <2> QED BY <1>0, <2>1, <2>3 DEF Inside
<1>3. Len(s) \in 0 .. Len(s)
  BY <1>0
<1> QED BY <1>1, <1>2, <1>3 DEF t

\* Messages sent: an output announced is one the surface is not on, and what
\* it enters it is on.
LEMMA OutputsSent ==
  ASSUME wire \in Seq(Message), OutputsMeet, NEW m \in Message, wire' = Append(wire, m),
         surf' = surf,
         m.kind = "global" => m.out \in Output \ on,
         \A o \in Output : Enters(m, o) => o \in on',
         \A o \in on : ~Leaves(m, o) => o \in on'
  PROVE  OutputsMeet'
<1> DEFINE entered == surf.outputs
<1>0. /\ Len(wire') = Len(wire) + 1 /\ Len(wire) \in Nat /\ wire'[Len(wire) + 1] = m
      /\ DOMAIN wire = 1 .. Len(wire) /\ DOMAIN wire' = 1 .. Len(wire) + 1
      /\ \A i \in 1 .. Len(wire) : wire'[i] = wire[i]
  BY AppendIs
<1>1. ASSUME NEW o
      PROVE  /\ \A n \in 0 .. Len(wire) :
                  Inside(wire', entered, o, n) <=> Inside(wire, entered, o, n)
             /\ Inside(wire', entered, o, Len(wire) + 1) =>
                  \/ Enters(m, o)
                  \/ Inside(wire, entered, o, Len(wire)) /\ ~Leaves(m, o)
  BY InsideAppend
<1>2. AnnouncedOutside(wire', entered)
  <2> SUFFICES ASSUME NEW i \in DOMAIN wire', wire'[i].kind = "global",
                      Inside(wire', entered, wire'[i].out, i - 1)
               PROVE  FALSE
    BY DEF AnnouncedOutside
  <2>1. i \in 1 .. Len(wire) \/ i = Len(wire) + 1
    BY <1>0
  <2>2. CASE i \in 1 .. Len(wire)
    <3>1. wire[i].kind = "global" /\ i - 1 \in 0 .. Len(wire) /\ i \in DOMAIN wire
          /\ wire'[i] = wire[i]
      BY <1>0, <2>2
    <3>2. Inside(wire, entered, wire[i].out, i - 1)
      BY <1>1, <3>1
    <3> QED BY <3>1, <3>2 DEF OutputsMeet, AnnouncedOutside
  <2>3. CASE i = Len(wire) + 1
    <3>1. wire'[i] = m /\ i - 1 = Len(wire) /\ Len(wire) \in 0 .. Len(wire)
      BY <1>0, <2>3
    <3>2. Inside(wire, entered, m.out, Len(wire)) /\ m.kind = "global"
      BY <1>1, <3>1
    <3> QED BY <3>2 DEF OutputsMeet
  <2> QED BY <2>1, <2>2, <2>3
<1>3. ASSUME NEW o \in Output, Inside(wire', entered, o, Len(wire'))
      PROVE  o \in on'
  BY <1>0, <1>1, <1>3 DEF OutputsMeet
<1> QED BY <1>2, <1>3 DEF OutputsMeet

LEMMA OutputsTaken ==
  ASSUME wire \in Seq(Message), wire # << >>, wire' = Tail(wire), on' = on, OutputsMeet,
         surf'.outputs \in SUBSET Output,
         surf'.outputs \subseteq surf.outputs \cup {p \in Output : Enters(Head(wire), p)},
         \A o \in Output : Leaves(Head(wire), o) => o \notin surf'.outputs,
         \A m \in Message : m.kind = "global" => m.out \in Output
  PROVE  OutputsMeet'
<1>0. /\ wire' \in Seq(Message) /\ Len(wire') = Len(wire) - 1 /\ Len(wire) \in Nat
      /\ Len(wire) >= 1 /\ DOMAIN wire = 1 .. Len(wire) /\ DOMAIN wire' = 1 .. Len(wire) - 1
      /\ \A i \in 1 .. Len(wire) - 1 : i + 1 \in 1 .. Len(wire) /\ wire'[i] = wire[i + 1]
  BY TailIs
<1>1. PICK next : next = surf'.outputs
  OBVIOUS
<1>2. ASSUME NEW o \in Output, NEW n \in 0 .. Len(wire) - 1, Inside(wire', next, o, n)
      PROVE  Inside(wire, surf.outputs, o, n + 1)
  <2>1. Inside(Tail(wire), next, o, n)
    BY <1>2
  <2> QED BY <1>1, <2>1, InsideTail
<1>3. AnnouncedOutside(wire', next)
  <2> SUFFICES ASSUME NEW i \in DOMAIN wire', wire'[i].kind = "global",
                      Inside(wire', next, wire'[i].out, i - 1)
               PROVE  FALSE
    BY DEF AnnouncedOutside
  <2>1. /\ i + 1 \in DOMAIN wire /\ wire[i + 1] = wire'[i] /\ i - 1 \in 0 .. Len(wire) - 1
        /\ (i - 1) + 1 = (i + 1) - 1 /\ wire'[i] \in Message
    BY <1>0
  <2>2. wire'[i].out \in Output
    BY <2>1
  <2>3. Inside(wire, surf.outputs, wire'[i].out, (i - 1) + 1)
    BY <1>2, <2>1, <2>2
  <2>4. Inside(wire, surf.outputs, wire[i + 1].out, (i + 1) - 1)
    BY <2>1, <2>3
  <2> QED BY <2>1, <2>4 DEF OutputsMeet, AnnouncedOutside
<1>4. ASSUME NEW o \in Output, Inside(wire', next, o, Len(wire'))
      PROVE  o \in on'
  <2>1. Len(wire') \in 0 .. Len(wire) - 1 /\ Len(wire') + 1 = Len(wire)
    BY <1>0
  <2>2. Inside(wire, surf.outputs, o, Len(wire') + 1)
    BY <1>2, <1>4, <2>1
  <2> QED BY <2>1, <2>2 DEF OutputsMeet
<1> QED BY <1>1, <1>3, <1>4 DEF OutputsMeet

LEMMA OutputsStep ==
  ASSUME TypeOK, Counted, OutputsMeet, [Next]_vars
  PROVE  OutputsMeet'
<1>0. wire \in Seq(Message) /\ surf \in Surf /\ on \subseteq DOMAIN globals
      /\ surf.outputs \in SUBSET Output
  BY Typed DEF Surf
<1>1. CASE Compositor
  <2>1. ASSUME NEW o \in Output, MovesOnto(o) \/ MovesOff(o) \/ Unplugged(o)
        PROVE  OutputsMeet'
    <3>1. PICK kind \in {"enter", "leave", "global_remove"} :
            /\ Send(<<OutputSays(kind, o)>>)
            /\ kind = "enter" => on' = on \cup {o}
            /\ kind = "leave" => on' = on \ {o}
            /\ kind = "global_remove" => on' = on
      BY <2>1 DEF MovesOnto, MovesOff, Unplugged
    <3> DEFINE m == OutputSays(kind, o)
    <3>2. m \in Message /\ m.kind = kind /\ m.out = o
      BY DEF OutputSays, Message
    <3>3. wire' = Append(wire, m) /\ surf' = surf
      BY <1>0, <3>1 DEF Send
    <3> HIDE DEF m
    <3>4. \A p \in Output : Enters(m, p) => p \in on'
      BY <3>1, <3>2 DEF Enters
    <3>5. \A p \in on : ~Leaves(m, p) => p \in on'
      BY <3>1, <3>2 DEF Leaves
    <3> QED BY <1>0, <3>2, <3>3, <3>4, <3>5, OutputsSent
  <2>2. ASSUME NEW o \in Output, NEW s \in Scales, Rescales(o, s) \/ Plugged(o, s)
        PROVE  OutputsMeet'
    <3>1. PICK kind \in {"global", "output_scale"} :
            /\ Send(<<ScaleSays(kind, o, s)>>) /\ on' = on
            /\ kind = "global" => o \notin on
      BY <1>0, <2>2 DEF Rescales, Plugged
    <3> DEFINE m == ScaleSays(kind, o, s)
    <3>2. m \in Message /\ m.kind = kind /\ m.out = o
      BY DEF ScaleSays, Message
    <3>3. wire' = Append(wire, m) /\ surf' = surf
      BY <1>0, <3>1 DEF Send
    <3> HIDE DEF m
    <3>4. \A p \in Output : ~Enters(m, p)
      BY <3>2 DEF Enters
    <3> QED BY <1>0, <3>1, <3>2, <3>3, <3>4, OutputsSent
  <2>3. ASSUME NEW s \in Fractions, Prefers(s)
        PROVE  OutputsMeet'
    <3> DEFINE m == [kind |-> "preferred_scale", scale |-> s]
    <3>1. m \in Message /\ m.kind = "preferred_scale"
      BY DEF Message
    <3>2. wire' = Append(wire, m) /\ surf' = surf /\ on' = on
      BY <1>0, <2>3 DEF Prefers, Send
    <3> HIDE DEF m
    <3> QED BY <1>0, <3>1, <3>2, OutputsSent DEF Enters
  <2>4. ASSUME NEW p \in Proposals, Proposes(p)
        PROVE  OutputsMeet'
    <3> DEFINE first == [kind |-> "toplevel_configure", pending |-> p]
               second == [kind |-> "surface_configure"]
               w == Append(wire, first)
    <3>1. first \in Message /\ second \in Message /\ first.kind = "toplevel_configure"
          /\ second.kind = "surface_configure"
      BY SurfaceAssumption DEF Message, Pending
    <3>2. wire' = wire \o <<first, second>> /\ surf' = surf /\ on' = on
      BY <2>4 DEF Proposes, Send
    <3> HIDE DEF first, second
    <3>3. wire' = Append(w, second) /\ w \in Seq(Message)
      BY <1>0, <3>1, <3>2
    <3>4. ASSUME NEW o
          PROVE  ~Enters(first, o) /\ ~Enters(second, o)
      BY <3>1 DEF Enters
    <3> DEFINE entered == surf.outputs
    <3>5. /\ Len(w) = Len(wire) + 1 /\ Len(wire') = Len(w) + 1 /\ Len(wire) \in Nat
          /\ w[Len(wire) + 1] = first /\ wire'[Len(w) + 1] = second
          /\ \A i \in 1 .. Len(wire) : w[i] = wire[i]
          /\ \A i \in 1 .. Len(w) : wire'[i] = w[i]
          /\ DOMAIN wire = 1 .. Len(wire) /\ DOMAIN wire' = 1 .. Len(w) + 1
      BY <1>0, <3>1, <3>3, AppendIs
    <3>6. ASSUME NEW o
          PROVE  /\ \A n \in 0 .. Len(wire) :
                      Inside(w, entered, o, n) <=> Inside(wire, entered, o, n)
                 /\ Inside(w, entered, o, Len(w)) => Inside(wire, entered, o, Len(wire))
      BY <1>0, <3>1, <3>4, <3>5, InsideAppend
    <3>7. ASSUME NEW o
          PROVE  /\ \A n \in 0 .. Len(w) :
                      Inside(wire', entered, o, n) <=> Inside(w, entered, o, n)
                 /\ Inside(wire', entered, o, Len(w) + 1) => Inside(w, entered, o, Len(w))
      BY <3>1, <3>3, <3>4, InsideAppend
    <3> HIDE DEF w
    <3>8. AnnouncedOutside(wire', entered)
      <4> SUFFICES ASSUME NEW i \in DOMAIN wire', wire'[i].kind = "global",
                          Inside(wire', entered, wire'[i].out, i - 1)
                   PROVE  FALSE
        BY DEF AnnouncedOutside
      <4>1. i \in 1 .. Len(wire) /\ wire'[i] = wire[i]
        BY <3>1, <3>5
      <4>2. i - 1 \in 0 .. Len(wire) /\ i - 1 \in 0 .. Len(w)
        BY <3>5, <4>1
      <4>3. Inside(wire, entered, wire[i].out, i - 1)
        BY <3>6, <3>7, <4>1, <4>2
      <4> QED BY <3>5, <4>1, <4>3 DEF OutputsMeet, AnnouncedOutside
    <3>9. \A o \in Output : Inside(wire', entered, o, Len(wire')) => o \in on
      BY <3>5, <3>6, <3>7 DEF OutputsMeet
    <3> QED BY <3>2, <3>8, <3>9 DEF OutputsMeet
  <2> QED BY <1>1, <2>1, <2>2, <2>3, <2>4 DEF Compositor
<1>2. CASE Dispatch
  <2> DEFINE m == Head(wire)
  <2>1. /\ wire # << >> /\ wire' = Tail(wire) /\ on' = on
        /\ \A x \in Message : x.kind = "global" => x.out \in Output
    BY <1>2, DispatchIs, MessageIs
  <2>2. /\ surf'.outputs \subseteq surf.outputs \cup {p \in Output : Enters(m, p)}
        /\ \A o \in Output : Leaves(m, o) => o \notin surf'.outputs
    <3>1. CASE m.kind \in {"enter", "leave", "output_scale"}
      BY <1>2, <3>1, DispatchKinds DEF Rescaled, Enters, Leaves
    <3>2. CASE m.kind \notin {"enter", "leave", "output_scale"}
      <4>1. surf'.outputs = surf.outputs
        BY <1>0, <1>2, <3>2, DispatchKinds, PreferredIs, ConfigureIs DEF Surf
      <4> QED BY <3>2, <4>1 DEF Leaves
    <3> QED BY <3>1, <3>2
  <2>3. surf'.outputs \in SUBSET Output
    BY <1>0, <2>2
  <2> QED BY <1>0, <2>1, <2>2, <2>3, OutputsTaken
<1>3. CASE Hide \/ (\E width \in Asked : SetSize(width)) \/ Console \/ UNCHANGED vars
  <2>1. surf'.outputs = surf.outputs /\ UNCHANGED <<wire, on>>
    BY <1>0, <1>3 DEF Hide, SetSize, Console, PollEvent, RootResize, SetFont, vars, surface,
                      compositor, Surf
  <2> QED BY <2>1 DEF OutputsMeet
<1> QED BY <1>1, <1>2, <1>3 DEF Next, Surface

LEMMA ScaleStep ==
  ASSUME TypeOK, Counted, OutputsMeet, FractionsExpected, ScaleIsSharp, [Next]_vars
  PROVE  ScaleIsSharp'
<1>0. /\ win \in Win /\ surf \in Surf /\ surf.bufferScale \in Nat \ {0}
      /\ wire \in Seq(Message)
  BY Typed, SurfaceAssumption DEF Surf
<1>1. ScaleIsSharp' <=> (~setup'.fractional => Sharp(win', surf', outputs'))
  BY DEF ScaleIsSharp, Sharp
<1>2. CASE UNCHANGED <<setup, outputs, win>> /\ surf'.outputs = surf.outputs
           /\ surf'.bufferScale = surf.bufferScale /\ surf'.decorScale = surf.decorScale
  BY <1>1, <1>2, SharpIs DEF Sharp
<1>3. CASE Dispatch
  <2> DEFINE m == Head(wire)
  <2>1. /\ setup' = setup /\ wire # << >>
    BY <1>3, DispatchIs
  <2>2. 1 \in DOMAIN wire /\ m = wire[1]
    BY <1>0, <2>1, TailIs
  <2> SUFFICES ASSUME ~setup.fractional, Sharp(win, surf, outputs)
               PROVE  Sharp(win', surf', outputs')
    BY <1>1, <2>1, SharpIs
  <2>3. CASE m.kind \in {"enter", "leave", "output_scale"}
    BY <1>3, <2>3, DispatchKinds DEF Rescaled
  <2>4. CASE m.kind \in {"global", "global_remove"}
    <3>1. /\ UNCHANGED <<win, surf>> /\ m.out \in Output
          /\ \A p \in DOMAIN outputs' :
               p # m.out \/ m.kind = "global_remove" =>
                 p \in DOMAIN outputs /\ outputs'[p] = outputs[p]
      BY <1>3, <2>4, DispatchKinds
    <3>2. m.kind = "global" => m.out \notin surf.outputs
      <4> SUFFICES ASSUME m.kind = "global" PROVE m.out \notin surf.outputs
        OBVIOUS
      <4>1. ~Inside(wire, surf.outputs, wire[1].out, 1 - 1)
        BY <2>2 DEF OutputsMeet, AnnouncedOutside
      <4>2. ~Inside(wire, surf.outputs, m.out, 0)
        BY <2>2, <4>1
      <4> QED BY <4>2, InsideNow
    <3>3. \A o \in surf'.outputs \cap DOMAIN outputs' : outputs'[o] <= surf'.bufferScale
      BY <2>4, <3>1, <3>2 DEF Sharp
    <3> QED BY <3>1, <3>3 DEF Sharp
  <2>5. CASE m.kind = "toplevel_configure"
    <3>1. /\ UNCHANGED <<outputs, win>> /\ surf'.outputs = surf.outputs
          /\ surf'.bufferScale = surf.bufferScale /\ surf'.decorScale = surf.decorScale
      BY <1>0, <1>3, <2>5, DispatchKinds DEF Surf
    <3> QED BY <3>1 DEF Sharp
  <2>6. m.kind # "preferred_scale"
    BY <2>2 DEF FractionsExpected
  <2>7. CASE m.kind = "surface_configure"
    <3>1. SurfaceConfigure
      BY <1>3, <2>7, DispatchKinds
    <3> QED BY <3>1, ConfigureIs DEF Sharp
  <2> QED BY <1>3, <2>3, <2>4, <2>5, <2>6, <2>7, DispatchKinds
<1>4. CASE \E width \in Asked : SetSize(width)
  <2>1. PICK width \in Nat \ {0} : SetSize(width)
    BY <1>4, SurfaceAssumption
  <2>2. /\ win'.width = width /\ win'.fb = width * surf.bufferScale
        /\ win'.scale = win.scale /\ UNCHANGED <<setup, outputs, surf>>
    BY <1>0, <2>1, ResizeEglType DEF SetSize
  <2> QED BY <1>1, <2>2, SharpIs DEF Sharp
<1>5. CASE Compositor
  BY <1>2, <1>5 DEF Compositor, MovesOnto, MovesOff, Unplugged, Rescales, Plugged, Prefers,
                   Proposes, Send
<1>6. CASE Hide
  BY <1>0, <1>2, <1>6 DEF Hide, Surf
<1>7. CASE Console \/ UNCHANGED vars
  BY <1>2, <1>7 DEF Console, PollEvent, RootResize, SetFont, vars, surface
<1> QED BY <1>3, <1>4, <1>5, <1>6, <1>7 DEF Next, Surface

-----------------------------------------------------------------------------
(* The queue and the grid *)

LEMMA EmptyTail == \A s \in Seq(Event) : s # << >> /\ Tail(s) = << >> => Len(s) = 1
<1> SUFFICES ASSUME NEW s \in Seq(Event), s # << >>, Tail(s) = << >> PROVE Len(s) = 1
  OBVIOUS
<1>1. Len(Tail(s)) = Len(s) - 1 /\ Len(s) \in Nat
  OBVIOUS
<1>2. PICK t : t = Tail(s)
  OBVIOUS
<1>3. t = << >> /\ Len(t) = Len(s) - 1
  BY <1>1, <1>2
<1>4. Len(t) = 0
  BY <1>3
<1> QED BY <1>1, <1>3, <1>4

LEMMA LastStep ==
  ASSUME TypeOK, Counted, LastSays, [Next]_vars
  PROVE  LastSays'
<1>0. events \in Seq(Event) /\ win \in Win /\ surf \in Surf /\ con \in Con
      /\ surf.bufferScale \in Nat \ {0}
  BY Typed, SurfaceAssumption DEF ConsoleTypeOK, Con, Surf
<1>1. CASE UNCHANGED <<events, con>> /\ win'.width = win.width
  BY <1>1 DEF LastSays
<1>2. ASSUME NEW fb, events' = Append(events, [width |-> win'.width, fb |-> fb])
      PROVE  LastSays'
  <2>1. events' # << >> /\ events'[Len(events')] = [width |-> win'.width, fb |-> fb]
    BY <1>0, <1>2
  <2> QED BY <2>1 DEF LastSays
<1>3. CASE Dispatch /\ UNCHANGED con
  <2>1. CASE SurfaceConfigure
    BY <1>1, <1>2, <1>3, <2>1, ConfigureIs
  <2>2. CASE \E s \in Fractions : FractionalScalePreferred(s)
    BY <1>1, <1>2, <1>3, <2>2, PreferredIs
  <2> QED BY <1>1, <1>3, <2>1, <2>2, DispatchKinds DEF Rescaled
<1>4. CASE \E width \in Asked : SetSize(width)
  <2>1. PICK width \in Nat \ {0} : SetSize(width)
    BY <1>4, SurfaceAssumption
  <2>2. win'.width = width /\ events' = Append(events, Resize(width, win'.fb))
    BY <1>0, <2>1, ResizeEglType DEF SetSize
  <2> QED BY <1>2, <2>2 DEF Resize
<1>5. CASE PollEvent
  <2>1. /\ events # << >> /\ events' = Tail(events) /\ Translate(Head(events))
        /\ win' = win
    BY <1>5 DEF PollEvent
  <2>2. Head(events) \in Event
    BY <1>0, <2>1
  <2>3. con'.dpi = <<con'.fb, Head(events).width>>
    BY <1>0, <2>1, <2>2, TranslateIs
  <2>4. CASE events' = << >>
    <3>1. Len(events) = 1
      BY <1>0, <2>1, <2>4, EmptyTail
    <3>2. Head(events) = events[Len(events)]
      BY <1>0, <3>1
    <3> QED BY <2>1, <2>3, <2>4, <3>2 DEF LastSays
  <2>5. CASE events' # << >>
    <3>1. events'[Len(events')] = events[Len(events)]
      BY <1>0, <2>1, <2>5
    <3> QED BY <2>1, <2>5, <3>1 DEF LastSays
  <2> QED BY <2>4, <2>5
<1>6. CASE (\E n \in Columns : RootResize(n)) \/ (\E t \in Tiles : SetFont(t))
  <2>1. con'.dpi = con.dpi /\ con'.fb = con.fb /\ UNCHANGED <<events, win>>
    BY <1>0, <1>6 DEF RootResize, SetFont, surface, Con
  <2> QED BY <2>1 DEF LastSays
<1>7. CASE Compositor /\ UNCHANGED con
  BY <1>1, <1>7 DEF Compositor, MovesOnto, MovesOff, Unplugged, Rescales, Plugged, Prefers,
                   Proposes, Send
<1>8. CASE (Hide /\ UNCHANGED con) \/ UNCHANGED vars
  BY <1>1, <1>8 DEF Hide, vars, surface
<1> QED BY <1>3, <1>4, <1>5, <1>6, <1>7, <1>8 DEF Next, Surface, Console

-----------------------------------------------------------------------------
(* The theorems *)

LEMMA ConsoleInit == Init => ConsoleInv
<1> SUFFICES ASSUME Init PROVE ConsoleInv
  OBVIOUS
<1>1. PICK columns \in Columns, first \in Tiles, tile \in Tiles, config \in Configs :
        LET width == columns * tile
            fresh == [fb |-> width, dpi |-> <<1, 1>>, columns |-> columns, tile |-> tile,
                      scaling |-> config.scaling, auto |-> config.auto,
                      view |-> [x |-> 0, w |-> width]]
        IN /\ SurfaceInit(config.setup, width)
           /\ events = <<Resize(columns * first, columns * first), Resize(width, width)>>
           /\ con = [fresh EXCEPT !.view = Viewport(fresh)]
  BY DEF Init
<1> DEFINE width == columns * tile
           early == columns * first
           fresh == [fb |-> width, dpi |-> <<1, 1>>, columns |-> columns, tile |-> tile,
                     scaling |-> config.scaling, auto |-> config.auto,
                     view |-> [x |-> 0, w |-> width]]
<1>2. /\ SurfaceInit(config.setup, width)
      /\ events = <<Resize(early, early), Resize(width, width)>>
      /\ con = [fresh EXCEPT !.view = Viewport(fresh)]
  BY <1>1
<1>3. columns \in Nat \ {0} /\ first \in Nat \ {0} /\ tile \in Nat \ {0}
      /\ config.setup \in Setups /\ config.auto \in BOOLEAN
      /\ config.scaling \in {"integer", "stretch"}
  BY ConsoleAssumption
<1>4. /\ width \in Nat \ {0} /\ early \in Nat \ {0}
      /\ width \div tile = columns
  <2>1. width = tile * columns
    BY <1>3
  <2> QED BY <1>3, <2>1, WholeTimes
<1> HIDE DEF width, early
<1>5. /\ fresh \in Con /\ fresh.columns = columns /\ fresh.tile = tile /\ fresh.fb = width
      /\ fresh.scaling = config.scaling
  BY <1>3, <1>4 DEF Con
<1> HIDE DEF fresh
<1>6. Viewport(fresh) \in [x : Int, w : Nat \ {0}]
  BY <1>3, <1>4, <1>5, ViewportIs
<1>7. /\ con \in Con /\ con.columns = columns /\ con.tile = tile /\ con.fb = width
      /\ con.scaling = config.scaling /\ con.view = Viewport(fresh)
  BY <1>2, <1>5, <1>6 DEF Con
<1>8. /\ wire = << >> /\ on = {} /\ globals \in [Output -> {1}] /\ outputs = globals
      /\ wants = [maximized |-> FALSE, fullscreen |-> FALSE]
      /\ setup = config.setup
      /\ win = [width |-> width, fb |-> width, scale |-> 120,
                maximized |-> FALSE, fullscreen |-> FALSE]
      /\ surf = [outputs |-> {}, bufferScale |-> 1, decorScale |-> 1,
                 pending |-> [width |-> 0, maximized |-> FALSE, fullscreen |-> FALSE],
                 configured |-> TRUE]
      /\ told = [width |-> width, maximized |-> FALSE] /\ proposed = 0
  BY <1>2 DEF SurfaceInit
<1>9. 1 \in Scales /\ MaxWire \in Nat /\ MaxOutputs \in Nat
  BY SurfaceAssumption
<1>10. globals \in [Output -> Scales] /\ globals \in ScaleMap
  <2>1. globals \in [Output -> Scales]
    BY <1>8, <1>9
  <2> QED BY <2>1, IsScaleMap
<1>11. events \in Seq(Event) /\ events # << >> /\ events[Len(events)].width = width
  <2>1. Resize(early, early) \in Event /\ Resize(width, width) \in Event
        /\ Resize(width, width).width = width
    BY <1>4 DEF Resize, Event
  <2> QED BY <1>2, <2>1
<1>12. TypeOK /\ Counted
  <2>1. IsFiniteSet(surf.outputs) /\ Cardinality(surf.outputs) <= MaxOutputs
    BY <1>8, <1>9, FS_EmptySet
  <2>2. win \in Win /\ told \in Size /\ wants \in State
    BY <1>4, <1>8 DEF Win, Size, State
  <2>3. surf \in Surf
    BY <1>8, <1>9 DEF Surf, Pending
  <2>4. ConsoleTypeOK
    BY <1>2, <1>3, <1>7 DEF ConsoleTypeOK, Con
  <2>5. wire \in Seq(Message) /\ Len(wire) <= MaxWire
    BY <1>8, <1>9
  <2> QED BY <1>3, <1>8, <1>10, <1>11, <2>1, <2>2, <2>3, <2>4, <2>5, Typed DEF Counted
<1>13. DOMAIN wire = {} /\ Len(wire) = 0
  BY <1>8
<1>14. ConfigureInv
  BY <1>8, <1>13 DEF ConfigureInv, Pairs, Arrives, Arrived
<1>15. LimitsHold
  BY <1>8 DEF LimitsHold
<1>16. OutputsMeet
  <2>1. \A o \in Output : ~Inside(wire, surf.outputs, o, Len(wire))
    BY <1>8, <1>13, InsideNow
  <2> QED BY <1>13, <2>1 DEF OutputsMeet, AnnouncedOutside
<1>17. FractionsExpected
  BY <1>13 DEF FractionsExpected
<1>18. ScaleIsSharp
  <2>1. width * 1 = width
    BY <1>4
  <2> QED BY <1>8, <2>1 DEF ScaleIsSharp
<1>19. LastSays
  BY <1>8, <1>11 DEF LastSays
<1> QED BY <1>12, <1>14, <1>15, <1>16, <1>17, <1>18, <1>19 DEF ConsoleInv

LEMMA ConsoleStep == ConsoleInv /\ [Next]_vars => ConsoleInv'
<1> SUFFICES ASSUME ConsoleInv, [Next]_vars PROVE ConsoleInv'
  OBVIOUS
<1> QED BY TypeStep, ConfigureStep, LimitsStep, OutputsStep, FractionsStep, ScaleStep,
           LastStep
        DEF ConsoleInv

\* The types, and all that the properties below follow from.
THEOREM ConsoleInvariant == Spec => []ConsoleInv
<1> QED BY ConsoleInit, ConsoleStep, PTL DEF Spec

\* The size of the window is within its limits when the compositor proposed it,
\* the application was told it, and the state of the window is what the
\* compositor wants once every configure arrived (nack_wayland.cpp:283, :331).
THEOREM SizeAgreed == Spec => []SizeIsAgreed
<1>1. ConsoleInv => SizeIsAgreed
  <2> SUFFICES ASSUME ConsoleInv,
                      \A i \in DOMAIN wire : wire[i].kind # "surface_configure"
               PROVE  Arrived(win, told, wants)
    BY DEF ConsoleInv, SizeIsAgreed, WindowIsAsTold, ConfigureInv, Arrived
  <2>1. DOMAIN wire = 1 .. Len(wire)
    BY Typed DEF ConsoleInv
  <2> QED BY <2>1 DEF ConsoleInv, ConfigureInv, NoConfigure
<1> QED BY <1>1, ConsoleInvariant, PTL

\* Without the fractional protocol framebuffer, announced scale and frame
\* agree, and no output the surface entered is sharper (nack_wayland.cpp:118).
THEOREM ScaleSharp == Spec => []ScaleIsSharp
<1>1. ConsoleInv => ScaleIsSharp
  BY DEF ConsoleInv
<1> QED BY <1>1, ConsoleInvariant, PTL

LEMMA TwoOf ==
  \A a \in Int, b \in Int :
    /\ Min({a, b}) = IF a <= b THEN a ELSE b
    /\ Max({a, b}) = IF a <= b THEN b ELSE a
<1> SUFFICES ASSUME NEW a \in Int, NEW b \in Int
             PROVE  /\ Min({a, b}) = IF a <= b THEN a ELSE b
                    /\ Max({a, b}) = IF a <= b THEN b ELSE a
  OBVIOUS
<1>1. \A x \in {a, b} : (\A y \in {a, b} : x <= y) => x = IF a <= b THEN a ELSE b
  OBVIOUS
<1>2. \A x \in {a, b} : (\A y \in {a, b} : x >= y) => x = IF a <= b THEN b ELSE a
  OBVIOUS
<1>3. \E x \in {a, b} : \A y \in {a, b} : x <= y
  OBVIOUS
<1>4. \E x \in {a, b} : \A y \in {a, b} : x >= y
  OBVIOUS
<1> QED BY <1>1, <1>2, <1>3, <1>4 DEF Min, Max

\* A console that read every event reports a mouse position in the cell drawn
\* there, or in the nearest one, for every window, framebuffer, font and
\* letterbox.
THEOREM MouseCells == Spec => []MouseInCells
<1>1. ConsoleInv => MouseInCells
  <2> SUFFICES ASSUME ConsoleInv, events = << >>, con.fb = win.fb,
                      NEW x \in 0 .. win.width - 1
               PROVE  PixelToCell(con, x) = IF DrawnAt(x) < 0 THEN 0
                                            ELSE IF DrawnAt(x) < con.columns THEN DrawnAt(x)
                                            ELSE con.columns - 1
    BY DEF MouseInCells
  <2>1. /\ con \in Con /\ win \in Win /\ con.dpi = <<win.fb, win.width>>
        /\ con.view.w \in Nat \ {0} /\ con.view.x \in Int /\ con.columns \in Nat \ {0}
        /\ win.width \in Nat \ {0} /\ win.fb \in Nat \ {0} /\ x \in Int
    BY Typed DEF ConsoleInv, ConsoleTypeOK, Con, Win, LastSays
  <2> DEFINE cell == DrawnAt(x)
             last == con.columns - 1
  <2>2. PixelToCell(con, x) = Max({0, Min({cell, last})})
    BY <2>1 DEF PixelToCell, DrawnAt
  <2>3. cell \in Int /\ last \in Int /\ 0 <= last
    <3>1. con.view.w * win.width \in Nat \ {0}
      BY <2>1, WholeTimes
    <3>2. (x * win.fb - con.view.x * win.width) * con.columns \in Int
      BY <2>1
    <3> HIDE DEF cell
    <3>3. last \in Int /\ 0 <= last
      BY <2>1
    <3> QED BY <3>1, <3>2, <3>3, QuotientType DEF cell, DrawnAt
  <2>5. con.columns \in Int /\ last = con.columns - 1
    BY <2>1
  <2> HIDE DEF cell, last
  <2> DEFINE least == Min({cell, last})
  <2>4. least = IF cell <= last THEN cell ELSE last
    BY <2>3, TwoOf
  <2>6. Max({0, least}) = IF 0 <= least THEN least ELSE 0
    <3>1. 0 \in Int /\ least \in Int
      BY <2>3, <2>4
    <3> HIDE DEF least
    <3> QED BY <3>1, TwoOf
  <2> HIDE DEF least
  <2>7. Max({0, least}) = IF cell < 0 THEN 0 ELSE IF cell < con.columns THEN cell ELSE last
    BY <2>3, <2>4, <2>5, <2>6
  <2> QED BY <2>2, <2>5, <2>7 DEF cell, least
<1> QED BY <1>1, ConsoleInvariant, PTL
=============================================================================
