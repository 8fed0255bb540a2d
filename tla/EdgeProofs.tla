------------------------------ MODULE EdgeProofs ------------------------------
(***************************************************************************)
(* Proofs about components at the edges of libnack that know nothing of    *)
(* one another.                                                            *)
(*                                                                         *)
(* EntryPoints: whatever names collide and however often the driver is     *)
(* changed, the cache answers what the driver there says.                  *)
(*                                                                         *)
(* WaylandFrame: whatever the sizes, the screen, the scales and the parts  *)
(* without memory, the parts of the frame tile the geometry the compositor *)
(* was told, and a press does what was shown under the pointer.  Both      *)
(* follow from one inductive invariant, FrameInv: what is placed and what  *)
(* is shown are functions of the size of the window and of the pointer,    *)
(* however they came about.                                                *)
(*                                                                         *)
(* Clipboards: whoever copies and pastes, and however their messages       *)
(* cross, a paste answers with text that was on the clipboard, or of this  *)
(* desktop if libnack has heard all there is to hear; what others are      *)
(* given of libnack's is what it last copied; and the desktop keeps the    *)
(* promise of a clipboard.  BoardsInv joins an invariant of each board:    *)
(* XInv follows the conversation of a read with the owner of the           *)
(* selection, WInv says what libnack knows once it has heard the wire.     *)
(***************************************************************************)
EXTENDS Clipboards, WaylandFrame, EntryPoints, WellFoundedInduction,
        SequenceTheorems, TLAPS

-----------------------------------------------------------------------------
(* EntryPoints *)

-----------------------------------------------------------------------------
(* Probing *)

LEMMA MinOfNaturals ==
  ASSUME NEW S \in SUBSET Nat, S # {}
  PROVE  Min(S) \in S /\ \A y \in S : Min(S) <= y
<1> DEFINE R == OpToRel(<, Nat)
<1>1. IsWellFoundedOn(R, Nat)
  BY NatLessThanWellFounded
<1>2. PICK m \in S : \A y \in S : ~(<<y, m>> \in R)
  <2> HIDE DEF R
  <2> QED BY <1>1, WFMin
<1>3. \A y \in S : ~(y < m)
  BY <1>2 DEF OpToRel
<1>4. \A y \in S : m <= y
  BY <1>3
<1> QED BY <1>4 DEF Min

\* A search that ends, ends in the table: at a slot that is free or has the name.
LEMMA SearchEnds ==
  ASSUME NEW n \in Name \ LongName, hash \in [Name \ LongName -> 0 .. Size - 1], Probes(n) # {}
  PROVE  /\ (hash[n] + Min(Probes(n))) % Size \in 0 .. Size - 1
         /\ LET at == (hash[n] + Min(Probes(n))) % Size
            IN slots[at].used => slots[at].name = n
<1>1. Probes(n) \in SUBSET Nat
  BY EntryPointsAssumption DEF Probes
<1>2. Min(Probes(n)) \in Probes(n)
  BY <1>1, MinOfNaturals
<1> DEFINE p == Min(Probes(n))
<1>3. p \in 0 .. Size - 1 /\ (~slots[(hash[n] + p) % Size].used \/ slots[(hash[n] + p) % Size].name = n)
  <2> HIDE DEF p
  <2>1. p \in Probes(n)
    BY <1>2 DEF p
  <2> QED BY <2>1 DEF Probes
<1>4. (hash[n] + p) % Size \in 0 .. Size - 1
  <2>1. hash[n] + p \in Nat
    BY <1>3, EntryPointsAssumption
  <2> HIDE DEF p
  <2> QED BY <2>1, EntryPointsAssumption DEF p
<1> QED BY <1>3, <1>4

-----------------------------------------------------------------------------
(* What the cache knows *)

Proc == Nat \X (Name \cup {Unnamed})
Slot == [used : BOOLEAN, name : Name \cup {Unnamed}, proc : Proc]

CacheTypes ==
  /\ hash \in [Name \ LongName -> 0 .. Size - 1]
  /\ slots \in [0 .. Size - 1 -> Slot]
  /\ layer \in [up : BOOLEAN, session : Nat, context : BOOLEAN]
  /\ said \in [Name -> SUBSET (Proc)]
  /\ answer \in [name : Name \cup {Unnamed}, proc : Proc]

\* proc is what the driver of this session says, or has said, of n.
Vouched(n, proc) ==
  n \in Name /\ proc \in said[n] /\ (n \notin Contextual => proc = Resolve(n))

CacheInv ==
  /\ CacheTypes
  /\ \A i \in 0 .. Size - 1 : slots[i].used => layer.up /\ Vouched(slots[i].name, slots[i].proc)
  /\ layer.up /\ answer # NoAnswer => Vouched(answer.name, answer.proc)

LEMMA NothingIs == Null \in Proc /\ Empty \in Slot /\ ~Empty.used
BY DEF Null, Proc, Empty, Slot

LEMMA ResolveType ==
  ASSUME CacheTypes, NEW n \in Name
  PROVE  Resolve(n) \in Proc
BY DEF CacheTypes, Resolve, Null, Proc

LEMMA CacheInitInv == CacheInit => CacheInv
<1> USE NothingIs
<1> SUFFICES ASSUME CacheInit PROVE CacheInv
  OBVIOUS
<1>1. /\ slots = Emptied /\ layer = [up |-> FALSE, session |-> 0, context |-> FALSE]
      /\ said = Silent /\ answer = NoAnswer /\ hash \in [Name \ LongName -> 0 .. Size - 1]
  BY DEF CacheInit
<1> QED BY <1>1 DEF CacheInv, CacheTypes, Emptied, Silent, NoAnswer

\* Asking the driver keeps what it has said before.
LEMMA DriverAsked ==
  ASSUME CacheInv, NEW n \in Name, layer.up,
         said' = [said EXCEPT ![n] = @ \cup {Resolve(n)}], UNCHANGED <<hash, layer>>
  PROVE  /\ said' \in [Name -> SUBSET (Proc)]
         /\ \A m, proc : Vouched(m, proc) => Vouched(m, proc)'
         /\ Resolve(n) \in said'[n] /\ Resolve(n)' = Resolve(n)
<1>1. \A m \in Name : Resolve(m)' = Resolve(m)
  BY DEF Resolve
<1>2. Resolve(n) \in Proc
  BY ResolveType DEF CacheInv
<1>3. said' \in [Name -> SUBSET (Proc)]
  BY <1>2 DEF CacheInv, CacheTypes
<1>4. /\ \A m, proc : Vouched(m, proc) => Vouched(m, proc)'
      /\ Resolve(n) \in said'[n]
  BY <1>1 DEF CacheInv, CacheTypes, Vouched
<1> QED BY <1>1, <1>3, <1>4

LEMMA GetKeeps ==
  ASSUME CacheInv, NEW n \in Name, GetProcAddress(n)
  PROVE  CacheInv'
<1> USE EntryPointsAssumption
<1>1. CASE ~layer.up
  <2>1. /\ answer' = [name |-> n, proc |-> Null] /\ UNCHANGED <<slots, said, hash, layer>>
    BY <1>1 DEF GetProcAddress
  <2>2. \A m, proc : Vouched(m, proc)' <=> Vouched(m, proc)
    BY <2>1 DEF Vouched, Resolve
  <2>3. CacheTypes'
    BY <2>1, NothingIs DEF CacheInv, CacheTypes
  <2> QED BY <1>1, <2>1, <2>2, <2>3 DEF CacheInv
<1>2. CASE layer.up
  <2>1. CacheGet(n) /\ said' = [said EXCEPT ![n] = @ \cup {Resolve(n)}] /\ UNCHANGED <<hash, layer>>
    BY <1>2 DEF GetProcAddress
  <2>2. /\ said' \in [Name -> SUBSET (Proc)]
        /\ \A m, proc : Vouched(m, proc) => Vouched(m, proc)'
        /\ Resolve(n) \in said'[n] /\ Resolve(n)' = Resolve(n)
    BY <1>2, <2>1, DriverAsked
  <2>3. Resolve(n) \in Proc
    BY ResolveType DEF CacheInv
  <2> DEFINE at == (hash[n] + Min(Probes(n))) % Size
             told == [used |-> TRUE, name |-> n, proc |-> Resolve(n)]
  <2>4. CASE answer' = [name |-> n, proc |-> Resolve(n)] /\ UNCHANGED slots
    <3>1. CacheTypes'
      BY <2>1, <2>2, <2>3, <2>4 DEF CacheInv, CacheTypes
    <3>2. Vouched(answer.name, answer.proc)'
      BY <2>2, <2>4 DEF Vouched
    <3>3. \A i \in 0 .. Size - 1 :
             (slots[i].used => layer.up /\ Vouched(slots[i].name, slots[i].proc))'
      BY <2>1, <2>2, <2>4 DEF CacheInv
    <3> QED BY <3>1, <3>2, <3>3 DEF CacheInv
  <2>5. CASE n \notin LongName /\ Probes(n) # {} /\ slots[at].used
             /\ answer' = [name |-> n, proc |-> slots[at].proc] /\ UNCHANGED slots
    <3>1. at \in 0 .. Size - 1 /\ slots[at].name = n
      BY <2>5, SearchEnds DEF CacheInv, CacheTypes
    <3> HIDE DEF at
    <3>2. Vouched(n, slots[at].proc)
      BY <2>5, <3>1 DEF CacheInv
    <3>3. CacheTypes'
      BY <2>1, <2>2, <2>5, <3>1 DEF CacheInv, CacheTypes, Slot
    <3> QED BY <1>2, <2>1, <2>2, <2>5, <3>2, <3>3 DEF CacheInv
  <2>6. CASE /\ n \notin LongName /\ Probes(n) # {} /\ ~slots[at].used /\ answer' = [name |-> n, proc |-> Resolve(n)]
             /\ slots' = [slots EXCEPT ![at] = told]
    <3>1. at \in 0 .. Size - 1
      BY <2>6, SearchEnds DEF CacheInv, CacheTypes
    <3> HIDE DEF at
    <3>2. CacheTypes'
      <4>1. told \in Slot
        BY <2>3 DEF Slot
      <4> HIDE DEF told
      <4>2. slots' \in [0 .. Size - 1 -> Slot]
        BY <2>6, <4>1 DEF CacheInv, CacheTypes
      <4> QED BY <2>1, <2>2, <2>3, <2>6, <4>2 DEF CacheInv, CacheTypes
    <3>3. \A i \in 0 .. Size - 1 : slots'[i] = IF i = at THEN told ELSE slots[i]
      BY <2>6, <3>1 DEF CacheInv, CacheTypes
    <3>4. ASSUME NEW i \in 0 .. Size - 1
          PROVE  (slots[i].used => layer.up /\ Vouched(slots[i].name, slots[i].proc))'
      <4>1. CASE i = at
        <5>1. slots'[i].name = n /\ slots'[i].proc = Resolve(n)
          BY <3>3, <4>1
        <5>2. Vouched(slots[i].name, slots[i].proc)'
          BY <2>2, <5>1 DEF Vouched
        <5> QED BY <1>2, <2>1, <5>2
      <4>2. CASE i # at
        BY <2>1, <2>2, <3>3, <4>2 DEF CacheInv
      <4> QED BY <4>1, <4>2
    <3>5. Vouched(answer.name, answer.proc)'
      BY <2>2, <2>6 DEF Vouched
    <3> QED BY <3>2, <3>4, <3>5 DEF CacheInv
  <2>7. QED
    BY <2>1, <2>4, <2>5, <2>6 DEF CacheGet
<1> QED BY <1>1, <1>2

LEMMA CacheStep == CacheInv /\ [CacheNext]_cacheVars => CacheInv'
<1> SUFFICES ASSUME CacheInv, [CacheNext]_cacheVars PROVE CacheInv'
  OBVIOUS
<1> USE EntryPointsAssumption
<1>1. CASE UNCHANGED cacheVars
  BY <1>1 DEF CacheInv, CacheTypes, Vouched, Resolve, cacheVars
<1>2. CASE WinInit
  <2>1. \A i \in 0 .. Size - 1 : ~slots[i].used
    BY <1>2 DEF WinInit, CacheInv
  <2>2. CacheTypes'
    BY <1>2, NothingIs DEF WinInit, CacheInv, CacheTypes, Silent, NoAnswer
  <2> QED BY <1>2, <2>1, <2>2 DEF WinInit, CacheInv
<1>3. CASE WinShutdown
  <2>1. CacheTypes'
    BY <1>3, NothingIs DEF WinShutdown, CacheClear, CacheInv, CacheTypes, Emptied, NoAnswer
  <2> QED BY <1>3, <2>1, NothingIs DEF WinShutdown, CacheClear, CacheInv, CacheTypes, Emptied
<1>4. CASE MakeCurrent
  <2>1. CacheTypes'
    BY <1>4 DEF MakeCurrent, CacheInv, CacheTypes
  <2>2. \A n, proc : Vouched(n, proc) => Vouched(n, proc)'
    BY <1>4 DEF MakeCurrent, Vouched, Resolve, CacheInv, CacheTypes
  <2> QED BY <1>4, <2>1, <2>2 DEF MakeCurrent, CacheInv, CacheTypes
<1>5. CASE \E n \in Name : GetProcAddress(n)
  BY <1>5, GetKeeps
<1> QED BY <1>1, <1>2, <1>3, <1>4, <1>5
      DEF CacheNext

\* However names collide and the table fills, what the cache holds and answers
\* is what the driver of this session said of that very name
\* (nack_proc_cache.cpp, nack.cpp:521).
THEOREM AnswersInvariant == CacheSpec => []CacheInv
<1> QED BY CacheInitInv, CacheStep, PTL DEF CacheSpec

\* So every lookup answers what its driver said, and says still of a name whose
\* answer does not depend on the current context (nack.cpp:521).
THEOREM AnswersTheDrivers == CacheSpec => []AnswersAreTheDrivers
<1>1. CacheInv => AnswersAreTheDrivers
  BY DEF CacheInv, AnswersAreTheDrivers, Vouched
<1> QED BY AnswersInvariant, <1>1, PTL

-----------------------------------------------------------------------------
(* WaylandFrame *)

Positive == Nat \ {0}
Place == [x : Int, y : Int, w : Int, h : Int]
Sheet == [w : Int, h : Int, scale : Int]
Named == {"minimize", "maximize", "close", "none"}
Cursors == {"arrow", "v", "h", "nwse", "nesw"}

-----------------------------------------------------------------------------
(* The invariant *)

\* What the variables hold, as far as the argument needs it.
FrameTypes ==
  /\ win \in [w : Positive, h : Positive, maximized : BOOLEAN, focused : BOOLEAN]
  /\ decor \in [on : BOOLEAN, scale : Positive, hover : Named]
  /\ placed \in [Parts -> Place]
  /\ buffer \in [Parts -> Sheet]
  /\ geometry \in [x : Int, y : Int, w : Nat, h : Nat]
  /\ painted.hover \in Named
  /\ pointer \in [over : BOOLEAN, part : Parts, x : Nat, y : Nat, cursor : Cursors]
  /\ fresh \in BOOLEAN

\* A part that has a buffer is where the layout for the size of the window puts
\* it; the title bar has its width even without one, as
\* nack__wl_decor_resize sets the size before it asks for memory.
LaidOut ==
  IF decor.on
  THEN /\ geometry = Framed(win.w, win.h)
       /\ placed["top"].w = win.w + 2 * Border
       /\ \A p \in Parts : buffer[p] # NoBuffer => placed[p] = Layout(p, win.w, win.h)
  ELSE \A p \in Parts : buffer[p] = NoBuffer

\* The title bar shows the button that nack__wl_window.decor_hover names, and was
\* drawn for the width the bar has.
ShowsBar ==
  decor.on /\ buffer["top"] # NoBuffer =>
    painted.hover = decor.hover /\ painted.w = placed["top"].w

\* While the window keeps its size, that button and the cursor are those of the
\* place where the pointer is.
PointsTruly ==
  pointer.over =>
    /\ decor.on
    /\ fresh => /\ decor.hover = ButtonAt(pointer.part, pointer.x, pointer.y)
                /\ pointer.cursor = CursorFor(ResizeEdge(pointer.part, pointer.x, pointer.y))

Presses == PressIsDrawn /\ PressIsForeseen

FrameInv == FrameTypes /\ LaidOut /\ ShowsBar /\ PointsTruly /\ Presses

-----------------------------------------------------------------------------
(* The operators of the model *)

\* nack__wl_button_at names one of the three buttons or none, and for the same
\* width of the title bar the same.
LEMMA ButtonNames ==
  ASSUME NEW width, NEW part, NEW x, NEW y
  PROVE  ButtonOf(width, part, x, y) \in Named
<1> USE DEF Named
<1> DEFINE hit == {i \in DOMAIN Buttons : ButtonX(width, i) <= x /\ x < ButtonX(width, i) + Button}
<1>1. DOMAIN Buttons = {1, 2, 3}
  BY DEF Buttons
<1>2. \A i \in {1, 2, 3} : Buttons[i] \in {"minimize", "maximize", "close"}
  BY DEF Buttons
<1>3. ButtonOf(width, part, x, y) = IF part = "top" /\ y \in 0..(Titlebar - 1) /\ hit # {}
                                    THEN Buttons[CHOOSE i \in hit : TRUE] ELSE "none"
  BY Zenon DEF ButtonOf
<1>4. CASE hit # {}
  <2>1. (CHOOSE i \in hit : TRUE) \in hit
    BY <1>4, Zenon
  <2>2. (CHOOSE i \in hit : TRUE) \in {1, 2, 3}
    BY <2>1, <1>1, Zenon
  <2>3. Buttons[CHOOSE i \in hit : TRUE] \in {"minimize", "maximize", "close"}
    BY <2>2, <1>2, Zenon
  <2> HIDE DEF hit
  <2> QED BY <2>3, <1>3
<1>5. CASE hit = {}
  BY <1>3, <1>5
<1> QED BY <1>4, <1>5, Zenon

LEMMA SameButton ==
  ASSUME NEW part, NEW x, NEW y, placed'["top"].w = placed["top"].w
  PROVE  ButtonAt(part, x, y)' = ButtonAt(part, x, y)
<1>1. ButtonAt(part, x, y) = ButtonOf(placed["top"].w, part, x, y)
  BY Zenon DEF ButtonAt
<1>2. ButtonAt(part, x, y)' = ButtonOf(placed'["top"].w, part, x, y)
  BY Zenon DEF ButtonAt
<1> QED BY <1>1, <1>2, Zenon

\* nack__wl_decor_resize_edge depends on the width of the title bar and the
\* height of the content.
LEMMA SameEdge ==
  ASSUME NEW part, NEW x, NEW y, placed'["top"].w = placed["top"].w, win'.h = win.h
  PROVE  ResizeEdge(part, x, y)' = ResizeEdge(part, x, y)
<1> DEFINE across(width) == IF x < Corner THEN {"left"} ELSE IF x >= width - Corner THEN {"right"} ELSE {}
           along(high)   == IF y < Corner THEN {"top"} ELSE IF y >= high - Corner THEN {"bottom"} ELSE {}
           edge(width, high) ==
             IF ~Resizable THEN {}
             ELSE CASE part = "top"    -> IF y >= Border THEN {} ELSE {"top"} \cup across(width)
                    [] part = "bottom" -> {"bottom"} \cup across(width)
                    [] part \in {"left", "right"} -> {part} \cup along(high)
<1>1. ResizeEdge(part, x, y) = edge(placed["top"].w, win.h)
  BY Zenon DEF ResizeEdge
<1>2. ResizeEdge(part, x, y)' = edge(placed'["top"].w, win'.h)
  BY Zenon DEF ResizeEdge
<1> HIDE DEF edge
<1> QED BY <1>1, <1>2, Zenon

LEMMA CursorNames ==
  ASSUME NEW edge
  PROVE  CursorFor(edge) \in Cursors
<1> USE DEF Cursors
<1>1. CASE edge = {}
  BY <1>1 DEF CursorFor
<1>2. CASE edge # {} /\ edge \in {{"top"}, {"bottom"}}
  BY <1>2 DEF CursorFor
<1>3. CASE edge # {} /\ edge \notin {{"top"}, {"bottom"}} /\ edge \in {{"left"}, {"right"}}
  BY <1>3 DEF CursorFor
<1>4. CASE /\ edge # {} /\ edge \notin {{"top"}, {"bottom"}} /\ edge \notin {{"left"}, {"right"}}
           /\ edge \in {{"top", "left"}, {"bottom", "right"}}
  BY <1>4 DEF CursorFor
<1>5. CASE /\ edge # {} /\ edge \notin {{"top"}, {"bottom"}} /\ edge \notin {{"left"}, {"right"}}
           /\ edge \notin {{"top", "left"}, {"bottom", "right"}}
  BY <1>5 DEF CursorFor
<1> QED BY <1>1, <1>2, <1>3, <1>4, <1>5, Zenon

\* The points of a part have natural coordinates.
LEMMA PointsAreThere ==
  ASSUME NEW p \in Parts, NEW at \in Points(p)
  PROVE  at.x \in Nat /\ at.y \in Nat
<1> DEFINE ends(n) == {0, Corner - 1, Corner, n - Corner - 1, n - Corner, n - 1} \cap 0..(n - 1)
           wide == placed[p].w
           high == placed[p].h
           near == UNION {{ButtonX(wide, i) - 1, ButtonX(wide, i)} \cap Nat : i \in DOMAIN Buttons}
<1>1. \A n : ends(n) \subseteq Nat
  BY SMT
<1>2. near \subseteq Nat
  BY Zenon
<1>3. CASE p = "top"
  <2>1. at \in [x : ends(wide) \cup near, y : {Border - 1, Border}]
    BY <1>3, Zenon DEF Points
  <2>2. at.x \in ends(wide) \cup near /\ at.y \in {Border - 1, Border}
    BY <2>1, Zenon
  <2>3. at.x \in Nat
    BY <2>2, <1>1, <1>2, Zenon
  <2>4. at.y \in Nat
    <3> HIDE DEF ends, near, wide
    <3> QED BY <2>2 DEF Border
  <2> QED BY <2>3, <2>4
<1>4. CASE p = "bottom"
  <2>1. at \in [x : ends(wide), y : {0}]
    <3>1. p # "top"
      BY <1>4
    <3> QED BY <3>1, <1>4, Zenon DEF Points
  <2>2. at.x \in ends(wide) /\ at.y = 0
    BY <2>1, Zenon
  <2>3. at.x \in Nat
    BY <2>2, <1>1, Zenon
  <2> QED BY <2>2, <2>3
<1>5. CASE p \in {"left", "right"}
  <2>1. at \in [x : {0}, y : ends(high)]
    <3>1. p # "top" /\ p # "bottom"
      BY <1>5
    <3> QED BY <3>1, <1>5, Zenon DEF Points
  <2>2. at.x = 0 /\ at.y \in ends(high)
    BY <2>1, Zenon
  <2>3. at.y \in Nat
    BY <2>2, <1>1, Zenon
  <2> QED BY <2>2, <2>3
<1> QED BY <1>3, <1>4, <1>5 DEF Parts

\* Where the layout puts a part.
LEMMA LayoutOf ==
  ASSUME NEW w, NEW h
  PROVE  /\ Layout("top", w, h) = [x |-> -Border, y |-> -Titlebar, w |-> w + 2 * Border, h |-> Titlebar]
         /\ Layout("bottom", w, h) = [x |-> -Border, y |-> h, w |-> w + 2 * Border, h |-> Border]
         /\ Layout("left", w, h) = [x |-> -Border, y |-> 0, w |-> Border, h |-> h]
         /\ Layout("right", w, h) = [x |-> w, y |-> 0, w |-> Border, h |-> h]
<1> HIDE DEF Border, Titlebar
<1> QED BY DEF Layout

LEMMA LayoutType ==
  ASSUME NEW w \in Positive, NEW h \in Positive, NEW p \in Parts
  PROVE  Layout(p, w, h) \in Place
<1>1. -Border \in Int /\ -Titlebar \in Int /\ w + 2 * Border \in Int /\ Border \in Int /\ Titlebar \in Int
  BY DEF Border, Titlebar, Positive
<1>2. w \in Int /\ h \in Int /\ 0 \in Int
  BY DEF Positive
<1> HIDE DEF Border, Titlebar, Positive
<1>3. CASE p = "top"
  BY <1>1, <1>2, <1>3, LayoutOf DEF Place
<1>4. CASE p = "bottom"
  BY <1>1, <1>2, <1>4, LayoutOf DEF Place
<1>5. CASE p = "left"
  BY <1>1, <1>2, <1>5, LayoutOf DEF Place
<1>6. CASE p = "right"
  BY <1>1, <1>2, <1>6, LayoutOf DEF Place
<1> QED BY <1>3, <1>4, <1>5, <1>6 DEF Parts

-----------------------------------------------------------------------------
(* The parts tile the frame *)

\* Two parts that the layout places do not overlap, nor does one the content,
\* and all lie in the geometry.
LEMMA LayoutTiles ==
  ASSUME NEW w \in Positive, NEW h \in Positive, NEW p \in Parts
  PROVE  /\ Inside(Layout(p, w, h), Framed(w, h))
         /\ Apart(Layout(p, w, h), [x |-> 0, y |-> 0, w |-> w, h |-> h])
         /\ \A q \in Parts : p # q => Apart(Layout(p, w, h), Layout(q, w, h))
<1>1. w \in Nat /\ h \in Nat
  BY DEF Positive
<1>2. Inside(Layout(p, w, h), Framed(w, h))
  BY <1>1, LayoutOf DEF Inside, Framed, Border, Titlebar, Parts
<1>3. Apart(Layout(p, w, h), [x |-> 0, y |-> 0, w |-> w, h |-> h])
  BY <1>1, LayoutOf DEF Apart, Border, Titlebar, Parts
<1>4. ASSUME NEW q \in Parts, p # q
      PROVE  Apart(Layout(p, w, h), Layout(q, w, h))
  BY <1>1, <1>4, LayoutOf DEF Apart, Border, Titlebar, Parts
<1> QED BY <1>2, <1>3, <1>4

\* Their areas and that of the content make up the area of the geometry.
LEMMA LayoutFills ==
  ASSUME NEW w \in Nat, NEW h \in Nat
  PROVE  (w + 10) * 30 + (w + 10) * 5 + 5 * h + 5 * h + w * h = (w + 10) * (h + 30 + 5)
BY SMT

LEMMA TilesByInvariant == FrameTypes /\ LaidOut => PartsTile
<1> SUFFICES ASSUME FrameTypes, LaidOut, decor.on
             PROVE  LET there == {p \in Parts : buffer[p] # NoBuffer}
                        content == [x |-> 0, y |-> 0, w |-> win.w, h |-> win.h]
                        frame == geometry
                        area(p) == placed[p].w * placed[p].h
                    IN /\ frame = Framed(win.w, win.h)
                       /\ \A p \in there : Inside(placed[p], frame) /\ Apart(placed[p], content)
                       /\ \A p, q \in there : p # q => Apart(placed[p], placed[q])
                       /\ there = Parts =>
                            area("top") + area("bottom") + area("left") + area("right") + win.w * win.h
                              = frame.w * frame.h
  BY Zenon DEF PartsTile
<1> DEFINE there == {p \in Parts : buffer[p] # NoBuffer}
           content == [x |-> 0, y |-> 0, w |-> win.w, h |-> win.h]
           area(p) == placed[p].w * placed[p].h
<1>1. PICK w \in Positive, h \in Positive : win.w = w /\ win.h = h
  BY DEF FrameTypes
<1>2. geometry = Framed(w, h) /\ \A p \in there : placed[p] = Layout(p, w, h)
  BY <1>1, Zenon DEF LaidOut
<1>3. ASSUME NEW p \in there
      PROVE  Inside(placed[p], geometry) /\ Apart(placed[p], content)
  <2>1. p \in Parts /\ placed[p] = Layout(p, w, h)
    BY <1>2, Zenon
  <2> QED BY <2>1, <1>1, <1>2, LayoutTiles, Zenon
<1>4. ASSUME NEW p \in there, NEW q \in there, p # q
      PROVE  Apart(placed[p], placed[q])
  <2>1. p \in Parts /\ placed[p] = Layout(p, w, h) /\ q \in Parts /\ placed[q] = Layout(q, w, h)
    BY <1>2, Zenon
  <2> QED BY <2>1, <1>4, LayoutTiles, Zenon
<1>5. ASSUME there = Parts
      PROVE  area("top") + area("bottom") + area("left") + area("right") + win.w * win.h
               = geometry.w * geometry.h
  <2>1. \A p \in Parts : placed[p] = Layout(p, w, h)
    BY <1>2, <1>5, Zenon
  <2>2. /\ placed["top"] = Layout("top", w, h) /\ placed["bottom"] = Layout("bottom", w, h)
        /\ placed["left"] = Layout("left", w, h) /\ placed["right"] = Layout("right", w, h)
    BY <2>1, Zenon DEF Parts
  <2>3. /\ placed["top"].w = w + 10 /\ placed["top"].h = 30
        /\ placed["bottom"].w = w + 10 /\ placed["bottom"].h = 5
    BY <2>2, LayoutOf DEF Border, Titlebar
  <2>4. /\ placed["left"].w = 5 /\ placed["left"].h = h
        /\ placed["right"].w = 5 /\ placed["right"].h = h
    BY <2>2, LayoutOf DEF Border, Titlebar
  <2>5. geometry.w = w + 10 /\ geometry.h = h + 30 + 5
    BY <1>2 DEF Framed, Border, Titlebar
  <2>6. w \in Nat /\ h \in Nat
    BY DEF Positive
  <2>7. (w + 10) * 30 + (w + 10) * 5 + 5 * h + 5 * h + w * h = (w + 10) * (h + 30 + 5)
    BY <2>6, LayoutFills
  <2> QED BY <2>3, <2>4, <2>5, <2>7, <1>1, Zenon
<1>6. geometry = Framed(win.w, win.h)
  BY <1>1, <1>2, Zenon
<1> QED BY <1>3, <1>4, <1>5, <1>6, Zenon

-----------------------------------------------------------------------------
(* Painting and placing *)

\* nack__wl_decor_redraw leaves what it is given to show, and nothing else.
LEMMA RedrawShows ==
  ASSUME NEW w, NEW d, NEW width, NEW has, d.hover \in Named, Redraw(w, d, width, has)
  PROVE  painted'.hover \in Named /\ (d.on /\ has => painted'.hover = d.hover /\ painted'.w = width)
<1>1. CASE d.on /\ has
  <2>1. painted' = Look(w, d, width)
    BY <1>1, Zenon DEF Redraw
  <2>2. painted'.hover = d.hover /\ painted'.w = width
    BY <2>1, Zenon DEF Look
  <2> QED BY <2>2, Zenon
<1>2. CASE ~(d.on /\ has)
  <2>1. painted' = Unpainted
    BY <1>2, Zenon DEF Redraw
  <2>2. painted'.hover = "none"
    BY <2>1 DEF Unpainted
  <2>3. "none" \in Named
    BY DEF Named
  <2> QED BY <1>2, <2>2, <2>3, Zenon
<1> QED BY <1>1, <1>2, Zenon

\* A buffer that is there after nack__wl_shm_buffer_alloc has the size asked for.
LEMMA AllocType ==
  ASSUME FrameTypes, NEW p \in Parts, NEW without, NEW size \in Place, NEW d, d.scale \in Positive
  PROVE  Alloc(p, without, size, d) \in Sheet
<1>1. buffer[p] \in Sheet
  BY Zenon DEF FrameTypes
<1>2. size.w \in Int /\ size.h \in Int /\ d.scale \in Int
  BY DEF Place, Positive
<1>3. [w |-> size.w, h |-> size.h, scale |-> d.scale] \in Sheet
  BY <1>2, Zenon DEF Sheet
<1>4. NoBuffer \in Sheet
  BY DEF NoBuffer, Sheet
<1> QED BY <1>1, <1>3, <1>4, Zenon DEF Alloc

\* What nack__wl_decor_resize leaves: the layout for the size it is given, the
\* title bar as wide as that says, and its look.
LEMMA ResizeLays ==
  ASSUME FrameTypes, LaidOut, NEW w, NEW d, Resize(w, d),
         w.w \in Positive, w.h \in Positive, d.on \in BOOLEAN, d.scale \in Positive, d.hover \in Named, d.on
  PROVE  /\ placed' \in [Parts -> Place] /\ buffer' \in [Parts -> Sheet]
         /\ geometry' = Framed(w.w, w.h)
         /\ placed'["top"].w = w.w + 2 * Border
         /\ \A p \in Parts : buffer'[p] # NoBuffer => placed'[p] = Layout(p, w.w, w.h)
         /\ painted'.hover \in Named
         /\ buffer'["top"] # NoBuffer => painted'.hover = d.hover /\ painted'.w = placed'["top"].w
         /\ fresh' = (fresh /\ w.w = win.w /\ w.h = win.h)
<1>1. PICK without \in SUBSET Failing :
         /\ buffer' = [p \in Parts |-> Alloc(p, without, Layout(p, w.w, w.h), d)]
         /\ placed' = [p \in Parts |-> LET at == Layout(p, w.w, w.h) IN
                         IF buffer'[p] # NoBuffer THEN at
                         ELSE [placed[p] EXCEPT !.w = at.w, !.h = at.h]]
         /\ geometry' = Framed(w.w, w.h)
         /\ Redraw(w, d, placed'["top"].w, buffer'["top"] # NoBuffer)
         /\ fresh' = (fresh /\ w.w = win.w /\ w.h = win.h)
  BY Zenon DEF Resize
<1>2. \A p \in Parts : Layout(p, w.w, w.h) \in Place
  BY LayoutType, Zenon
<1>3. ASSUME NEW p \in Parts
      PROVE  Alloc(p, without, Layout(p, w.w, w.h), d) \in Sheet
  BY <1>2, AllocType, Zenon
<1>4. buffer' \in [Parts -> Sheet]
  BY <1>1, <1>3, Zenon
<1>5. ASSUME NEW p \in Parts
      PROVE  /\ placed'[p] \in Place
             /\ placed'[p].w = Layout(p, w.w, w.h).w
             /\ buffer'[p] # NoBuffer => placed'[p] = Layout(p, w.w, w.h)
  <2>1. PICK at \in Place : at = Layout(p, w.w, w.h)
    BY <1>2, Zenon
  <2>2. at.w \in Int /\ at.h \in Int
    BY Zenon DEF Place
  <2>2a. PICK was \in Place : was = placed[p]
    BY Zenon DEF FrameTypes
  <2>2b. /\ [was EXCEPT !.w = at.w, !.h = at.h] \in Place
         /\ [was EXCEPT !.w = at.w, !.h = at.h].w = at.w
    BY <2>2 DEF Place
  <2>3. /\ [placed[p] EXCEPT !.w = at.w, !.h = at.h] \in Place
        /\ [placed[p] EXCEPT !.w = at.w, !.h = at.h].w = at.w
    BY <2>2a, <2>2b, Zenon
  <2>4. placed'[p] = IF buffer'[p] # NoBuffer THEN at
                     ELSE [placed[p] EXCEPT !.w = at.w, !.h = at.h]
    BY <1>1, <2>1, Zenon
  <2> QED BY <2>1, <2>3, <2>4, Zenon
<1>6. placed' \in [Parts -> Place]
  <2>1. placed' = [p \in Parts |-> placed'[p]]
    BY <1>1, Zenon
  <2> QED BY <2>1, <1>5, Zenon
<1>7. placed'["top"].w = w.w + 2 * Border
  <2>1. "top" \in Parts
    BY DEF Parts
  <2>2. Layout("top", w.w, w.h).w = w.w + 2 * Border
    <3> HIDE DEF Border, Titlebar
    <3>1. Layout("top", w.w, w.h) = [x |-> -Border, y |-> -Titlebar, w |-> w.w + 2 * Border, h |-> Titlebar]
      BY LayoutOf, Zenon
    <3> QED BY <3>1
  <2> QED BY <1>5, <2>1, <2>2, Zenon
<1>8. /\ painted'.hover \in Named
      /\ buffer'["top"] # NoBuffer => painted'.hover = d.hover /\ painted'.w = placed'["top"].w
  BY <1>1, RedrawShows, Zenon
<1> QED BY <1>1, <1>4, <1>5, <1>6, <1>7, <1>8, Zenon

\* So every handler that ends in it keeps the invariant, when it leaves the
\* pointer and the hovered button alone and takes no frame away.
LEMMA ResizeKeeps ==
  ASSUME FrameInv, NEW w, Resize(w, decor'), w.w = win'.w, w.h = win'.h,
         win' \in [w : Positive, h : Positive, maximized : BOOLEAN, focused : BOOLEAN],
         decor' \in [on : BOOLEAN, scale : Positive, hover : Named],
         decor.on => decor'.on /\ decor'.hover = decor.hover,
         pointer' = pointer, did' = NoPress
  PROVE  FrameInv'
<1> USE DEF FrameInv
<1>0. FrameTypes /\ LaidOut /\ ShowsBar /\ PointsTruly
  BY Zenon
<1>1. Presses'
  BY DEF Presses, PressIsDrawn, PressIsForeseen, NoPress
<1>2. /\ win'.w \in Positive /\ win'.h \in Positive
      /\ decor'.on \in BOOLEAN /\ decor'.scale \in Positive /\ decor'.hover \in Named
  BY Zenon
<1>3. CASE ~decor'.on
  <2>1. ~decor.on
    BY <1>3, Zenon
  <2>2. UNCHANGED <<placed, buffer, painted, geometry, fresh>>
    BY <1>3, Zenon DEF Resize
  <2>2a. /\ placed' = placed /\ buffer' = buffer /\ painted' = painted
         /\ geometry' = geometry /\ fresh' = fresh
    BY <2>2, Zenon
  <2>3. FrameTypes'
    BY <1>0, <2>2a, Zenon DEF FrameTypes
  <2>4. LaidOut'
    BY <1>0, <1>3, <2>1, <2>2a, Zenon DEF LaidOut
  <2>5. ShowsBar'
    BY <1>3, Zenon DEF ShowsBar
  <2>6. PointsTruly'
    BY <1>0, <2>1, Zenon DEF PointsTruly
  <2> QED BY <1>1, <2>3, <2>4, <2>5, <2>6, Zenon
<1>4. CASE decor'.on
  <2> DEFINE W == win'
             D == decor'
  <2>1. /\ placed' \in [Parts -> Place] /\ buffer' \in [Parts -> Sheet]
        /\ geometry' = Framed(w.w, w.h)
        /\ placed'["top"].w = w.w + 2 * Border
        /\ \A p \in Parts : buffer'[p] # NoBuffer => placed'[p] = Layout(p, w.w, w.h)
        /\ painted'.hover \in Named
        /\ buffer'["top"] # NoBuffer => painted'.hover = D.hover /\ painted'.w = placed'["top"].w
        /\ fresh' = (fresh /\ w.w = win.w /\ w.h = win.h)
    <3> HIDE DEF FrameInv
    <3>1. w.w \in Positive /\ w.h \in Positive
      BY <1>2, Zenon
    <3>2. Resize(w, D)
      BY Zenon
    <3>3. D.on \in BOOLEAN /\ D.scale \in Positive /\ D.hover \in Named /\ D.on
      BY <1>2, <1>4, Zenon
    <3> HIDE DEF D
    <3> QED BY <3>1, <3>2, <3>3, <1>0, ResizeLays, Zenon
  <2>2. FrameTypes'
    <3>1. geometry' \in [x : Int, y : Int, w : Nat, h : Nat]
      <4>1. PICK a \in Positive, b \in Positive : a = w.w /\ b = w.h
        BY <1>2, Zenon
      <4>2. Framed(a, b) \in [x : Int, y : Int, w : Nat, h : Nat]
        <5>1. -Border \in Int /\ -Titlebar \in Int /\ a + 2 * Border \in Nat /\ b + Titlebar + Border \in Nat
          BY DEF Border, Titlebar, Positive
        <5> HIDE DEF Border, Titlebar
        <5> QED BY <5>1, Zenon DEF Framed
      <4> QED BY <4>1, <4>2, <2>1, Zenon
    <3>2. fresh' \in BOOLEAN
      BY <2>1, Zenon
    <3>3. pointer' \in [over : BOOLEAN, part : Parts, x : Nat, y : Nat, cursor : Cursors]
      BY <1>0, Zenon DEF FrameTypes
    <3> QED BY <3>1, <3>2, <3>3, <2>1, Zenon DEF FrameTypes
  <2>3. LaidOut'
    BY <1>4, <2>1, Zenon DEF LaidOut
  <2>4. ShowsBar'
    BY <2>1, Zenon DEF ShowsBar
  <2>5. PointsTruly'
    <3> SUFFICES ASSUME pointer.over
                 PROVE  /\ decor'.on
                        /\ fresh' => /\ decor'.hover = ButtonAt(pointer.part, pointer.x, pointer.y)'
                                     /\ pointer'.cursor = CursorFor(ResizeEdge(pointer.part, pointer.x, pointer.y)')
      BY Zenon DEF PointsTruly, CursorFor
    <3> SUFFICES ASSUME fresh'
                 PROVE  /\ decor'.hover = ButtonAt(pointer.part, pointer.x, pointer.y)'
                        /\ pointer'.cursor = CursorFor(ResizeEdge(pointer.part, pointer.x, pointer.y)')
      BY <1>4, Zenon
    <3>1. decor.on /\ fresh /\ w.w = win.w /\ w.h = win.h
      BY <1>0, <2>1, Zenon DEF PointsTruly
    <3>2. placed'["top"].w = placed["top"].w /\ win'.h = win.h
      BY <1>0, <2>1, <3>1, Zenon DEF LaidOut
    <3>3. PICK a, b, c : a = pointer.part /\ b = pointer.x /\ c = pointer.y
      BY Zenon
    <3>4. ButtonAt(a, b, c)' = ButtonAt(a, b, c) /\ ResizeEdge(a, b, c)' = ResizeEdge(a, b, c)
      BY <3>2, SameButton, SameEdge, Zenon
    <3>5. pointer'.part = a /\ pointer'.x = b /\ pointer'.y = c
      BY <3>3, Zenon
    <3>6. /\ ButtonAt(pointer.part, pointer.x, pointer.y)' = ButtonAt(a, b, c)'
          /\ ResizeEdge(pointer.part, pointer.x, pointer.y)' = ResizeEdge(a, b, c)'
      BY <3>5, Zenon
    <3>7. /\ decor.hover = ButtonAt(a, b, c)
          /\ pointer.cursor = CursorFor(ResizeEdge(a, b, c))
      BY <1>0, <3>1, <3>3, Zenon DEF PointsTruly
    <3>8. decor'.hover = decor.hover /\ pointer'.cursor = pointer.cursor
      BY <3>1, Zenon
    <3> QED BY <3>4, <3>6, <3>7, <3>8, Zenon
  <2> QED BY <1>1, <2>2, <2>3, <2>4, <2>5, Zenon
<1> QED BY <1>3, <1>4, Zenon

-----------------------------------------------------------------------------
(* One lemma for each kind of step *)

LEMMA ConfigureKeeps ==
  ASSUME FrameInv, NEW size, size.w \in Nat, size.h \in Nat, NEW maximized \in BOOLEAN,
         Configure(size, maximized)
  PROVE  FrameInv'
<1> DEFINE ww == IF size.w > 0 THEN size.w ELSE win.w
           hh == IF size.h > 0 THEN size.h ELSE win.h
           wd == [win EXCEPT !.w = IF size.w > 0 THEN size.w ELSE @,
                             !.h = IF size.h > 0 THEN size.h ELSE @]
<1>1. /\ Resize(wd, decor) /\ win' = [wd EXCEPT !.maximized = maximized]
      /\ did' = NoPress /\ decor' = decor /\ pointer' = pointer
  BY Zenon DEF Configure
<1>2. win \in [w : Positive, h : Positive, maximized : BOOLEAN, focused : BOOLEAN]
  BY Zenon DEF FrameInv, FrameTypes
<1>3. wd = [win EXCEPT !.w = ww, !.h = hh]
  BY Zenon
<1>4. ww \in Positive /\ hh \in Positive
  BY <1>2 DEF Positive
<1> HIDE DEF ww, hh, wd
<1>5. /\ wd \in [w : Positive, h : Positive, maximized : BOOLEAN, focused : BOOLEAN]
      /\ wd.w = ww /\ wd.h = hh
  BY <1>2, <1>3, <1>4
<1>6. /\ win' \in [w : Positive, h : Positive, maximized : BOOLEAN, focused : BOOLEAN]
      /\ wd.w = win'.w /\ wd.h = win'.h
  BY <1>1, <1>5
<1>7. /\ decor' \in [on : BOOLEAN, scale : Positive, hover : Named]
      /\ (decor.on => decor'.on /\ decor'.hover = decor.hover)
  BY <1>1, Zenon DEF FrameInv, FrameTypes
<1>8. Resize(wd, decor')
  BY <1>1, Zenon
<1> QED BY <1>1, <1>6, <1>7, <1>8, ResizeKeeps, Zenon

LEMMA SetSizeKeeps ==
  ASSUME FrameInv, NEW size \in Extent, SetSize(size)
  PROVE  FrameInv'
<1>1. /\ win' = [win EXCEPT !.w = size.w, !.h = size.h] /\ Resize(win', decor)
      /\ did' = NoPress /\ decor' = decor /\ pointer' = pointer
  BY Zenon DEF SetSize
<1>2. win \in [w : Positive, h : Positive, maximized : BOOLEAN, focused : BOOLEAN]
  BY Zenon DEF FrameInv, FrameTypes
<1>3. size.w \in Positive /\ size.h \in Positive
  BY DEF Extent, Positive
<1>4. win' \in [w : Positive, h : Positive, maximized : BOOLEAN, focused : BOOLEAN]
  BY <1>1, <1>2, <1>3
<1>5. /\ decor' \in [on : BOOLEAN, scale : Positive, hover : Named]
      /\ (decor.on => decor'.on /\ decor'.hover = decor.hover)
  BY <1>1, Zenon DEF FrameInv, FrameTypes
<1>6. Resize(win', decor')
  BY <1>1, Zenon
<1>7. PICK w : w = win'
  BY Zenon
<1>8. Resize(w, decor') /\ w.w = win'.w /\ w.h = win'.h
  BY <1>6, <1>7, Zenon
<1> QED BY <1>1, <1>4, <1>5, <1>8, ResizeKeeps, Zenon

LEMMA EnableKeeps ==
  ASSUME FrameInv, Enable
  PROVE  FrameInv'
<1>1. /\ ~decor.on /\ decor' = [decor EXCEPT !.on = TRUE, !.hover = "none"]
      /\ Resize(win, decor') /\ did' = NoPress /\ win' = win /\ pointer' = pointer
  BY Zenon DEF Enable
<1>2. /\ win \in [w : Positive, h : Positive, maximized : BOOLEAN, focused : BOOLEAN]
      /\ decor \in [on : BOOLEAN, scale : Positive, hover : Named]
  BY Zenon DEF FrameInv, FrameTypes
<1>3. decor' \in [on : BOOLEAN, scale : Positive, hover : Named]
  BY <1>1, <1>2 DEF Named
<1>4. win' \in [w : Positive, h : Positive, maximized : BOOLEAN, focused : BOOLEAN]
  BY <1>1, <1>2, Zenon
<1>5. PICK w : w = win
  BY Zenon
<1>6. Resize(w, decor') /\ w.w = win'.w /\ w.h = win'.h
  BY <1>1, <1>5, Zenon
<1> QED BY <1>1, <1>3, <1>4, <1>6, ResizeKeeps, Zenon

LEMMA UpdateScaleKeeps ==
  ASSUME FrameInv, NEW s \in Positive, UpdateScale(s)
  PROVE  FrameInv'
<1>1. /\ decor' = [decor EXCEPT !.scale = s]
      /\ Resize(win, decor') /\ did' = NoPress /\ win' = win /\ pointer' = pointer
  BY Zenon DEF UpdateScale
<1>2. /\ win \in [w : Positive, h : Positive, maximized : BOOLEAN, focused : BOOLEAN]
      /\ decor \in [on : BOOLEAN, scale : Positive, hover : Named]
  BY Zenon DEF FrameInv, FrameTypes
<1>3. /\ decor' \in [on : BOOLEAN, scale : Positive, hover : Named]
      /\ decor'.on = decor.on /\ decor'.hover = decor.hover
  BY <1>1, <1>2
<1>4. win' \in [w : Positive, h : Positive, maximized : BOOLEAN, focused : BOOLEAN]
  BY <1>1, <1>2, Zenon
<1>5. PICK w : w = win
  BY Zenon
<1>6. Resize(w, decor') /\ w.w = win'.w /\ w.h = win'.h
  BY <1>1, <1>5, Zenon
<1> QED BY <1>1, <1>3, <1>4, <1>6, ResizeKeeps, Zenon

LEMMA DisableKeeps ==
  ASSUME FrameInv, Disable
  PROVE  FrameInv'
<1>1. /\ decor' = [decor EXCEPT !.on = FALSE]
      /\ buffer' = [p \in Parts |-> NoBuffer] /\ placed' = [p \in Parts |-> NoPlace]
      /\ painted' = Unpainted /\ pointer' = NoPointer /\ did' = NoPress
      /\ win' = win /\ geometry' = geometry /\ fresh' = fresh
  BY Zenon DEF Disable
<1>2. FrameTypes
  BY Zenon DEF FrameInv
<1>3. decor' \in [on : BOOLEAN, scale : Positive, hover : Named] /\ ~decor'.on
  BY <1>1, <1>2 DEF FrameTypes
<1>4. NoBuffer \in Sheet /\ NoPlace \in Place
  BY DEF NoBuffer, NoPlace, Sheet, Place
<1>5. buffer' \in [Parts -> Sheet] /\ placed' \in [Parts -> Place]
  BY <1>1, <1>4, Zenon
<1>6. painted'.hover \in Named
  BY <1>1 DEF Unpainted, Named
<1>7. /\ pointer' \in [over : BOOLEAN, part : Parts, x : Nat, y : Nat, cursor : Cursors]
      /\ ~pointer'.over
  BY <1>1 DEF NoPointer, Cursors, Parts
<1>8. FrameTypes'
  BY <1>1, <1>2, <1>3, <1>5, <1>6, <1>7, Zenon DEF FrameTypes
<1>9. LaidOut'
  BY <1>1, <1>3, Zenon DEF LaidOut
<1>10. ShowsBar' /\ PointsTruly'
  BY <1>3, <1>7, Zenon DEF ShowsBar, PointsTruly
<1>11. Presses'
  BY <1>1 DEF Presses, PressIsDrawn, PressIsForeseen, NoPress
<1> QED BY <1>8, <1>9, <1>10, <1>11, Zenon DEF FrameInv

LEMMA FocusKeeps ==
  ASSUME FrameInv, Focus
  PROVE  FrameInv'
<1>1. /\ win' = [win EXCEPT !.focused = ~@]
      /\ Redraw(win', decor, placed["top"].w, buffer["top"] # NoBuffer)
      /\ did' = NoPress /\ decor' = decor /\ placed' = placed /\ buffer' = buffer
      /\ pointer' = pointer /\ geometry' = geometry /\ fresh' = fresh
  BY Zenon DEF Focus
<1>2. FrameTypes /\ LaidOut /\ PointsTruly
  BY Zenon DEF FrameInv
<1>3. /\ win' \in [w : Positive, h : Positive, maximized : BOOLEAN, focused : BOOLEAN]
      /\ win'.w = win.w /\ win'.h = win.h
  <2>1. win \in [w : Positive, h : Positive, maximized : BOOLEAN, focused : BOOLEAN]
    BY <1>2, Zenon DEF FrameTypes
  <2>2. win' = [win EXCEPT !.focused = ~win.focused]
    BY <1>1, Zenon
  <2>3. PICK f \in BOOLEAN : f = ~win.focused
    BY Zenon
  <2>4. win' = [win EXCEPT !.focused = f]
    BY <2>2, <2>3, Zenon
  <2> QED BY <2>1, <2>4
<1>4. /\ painted'.hover \in Named
      /\ decor.on /\ buffer["top"] # NoBuffer =>
           painted'.hover = decor.hover /\ painted'.w = placed["top"].w
  <2>1. decor.hover \in Named
    BY <1>2, Zenon DEF FrameTypes
  <2>2. PICK w, has : w = win' /\ has = (buffer["top"] # NoBuffer)
    BY Zenon
  <2>3. Redraw(w, decor, placed["top"].w, has)
    BY <1>1, <2>2, Zenon
  <2>4. /\ painted'.hover \in Named
        /\ decor.on /\ has => painted'.hover = decor.hover /\ painted'.w = placed["top"].w
    BY <2>1, <2>3, RedrawShows, Zenon
  <2> QED BY <2>2, <2>4, Zenon
<1>5. FrameTypes'
  BY <1>1, <1>2, <1>3, <1>4, Zenon DEF FrameTypes
<1>6. LaidOut'
  BY <1>1, <1>2, <1>3, Zenon DEF LaidOut
<1>7. ShowsBar'
  BY <1>1, <1>4, Zenon DEF ShowsBar
<1>8. PointsTruly'
  <2>1. PICK a, b, c : a = pointer.part /\ b = pointer.x /\ c = pointer.y
    BY Zenon
  <2>2. ButtonAt(a, b, c)' = ButtonAt(a, b, c) /\ ResizeEdge(a, b, c)' = ResizeEdge(a, b, c)
    BY <1>1, <1>3, SameButton, SameEdge, Zenon
  <2>3. pointer'.part = a /\ pointer'.x = b /\ pointer'.y = c
    BY <1>1, <2>1, Zenon
  <2>4. /\ ButtonAt(pointer.part, pointer.x, pointer.y)' = ButtonAt(a, b, c)'
        /\ ResizeEdge(pointer.part, pointer.x, pointer.y)' = ResizeEdge(a, b, c)'
    BY <2>3, Zenon
  <2>5. pointer.over =>
          /\ decor.on
          /\ fresh => decor.hover = ButtonAt(a, b, c) /\ pointer.cursor = CursorFor(ResizeEdge(a, b, c))
    BY <1>2, <2>1, Zenon DEF PointsTruly
  <2>6. pointer'.over =>
          /\ decor'.on
          /\ fresh' => /\ decor'.hover = ButtonAt(pointer.part, pointer.x, pointer.y)'
                       /\ pointer'.cursor = CursorFor(ResizeEdge(pointer.part, pointer.x, pointer.y)')
    BY <1>1, <2>2, <2>4, <2>5, Zenon
  <2> QED BY <2>6, Zenon DEF PointsTruly, CursorFor
<1>9. Presses'
  BY <1>1 DEF Presses, PressIsDrawn, PressIsForeseen, NoPress
<1> QED BY <1>5, <1>6, <1>7, <1>8, <1>9, Zenon DEF FrameInv

\* nack__wl_decor_pointer_motion, wherever it comes from: the hovered button and
\* the cursor are those of the new place.
LEMMA MotionKeeps ==
  ASSUME FrameInv, decor.on, NEW part \in Parts, NEW at \in Points(part), Motion(part, at)
  PROVE  FrameInv'
<1>1. /\ pointer' = [over |-> TRUE, part |-> part, x |-> at.x, y |-> at.y,
                     cursor |-> CursorFor(ResizeEdge(part, at.x, at.y))]
      /\ decor' = [decor EXCEPT !.hover = ButtonAt(part, at.x, at.y)]
      /\ IF decor' = decor THEN painted' = painted
         ELSE Redraw(win, decor', placed["top"].w, buffer["top"] # NoBuffer)
      /\ fresh' = TRUE
      /\ did' = NoPress /\ win' = win /\ placed' = placed /\ buffer' = buffer /\ geometry' = geometry
  BY Zenon DEF Motion
<1>2. FrameTypes /\ LaidOut /\ ShowsBar
  BY Zenon DEF FrameInv
<1>3. PICK a, b, c, e, n : /\ a = part /\ b = at.x /\ c = at.y
                           /\ e = CursorFor(ResizeEdge(part, at.x, at.y))
                           /\ n = ButtonAt(part, at.x, at.y)
  BY Zenon
<1>4. a \in Parts /\ b \in Nat /\ c \in Nat /\ e \in Cursors /\ n \in Named
  <2>1. n = ButtonOf(placed["top"].w, part, at.x, at.y)
    BY <1>3, Zenon DEF ButtonAt
  <2> QED BY <1>3, <2>1, PointsAreThere, CursorNames, ButtonNames, Zenon
<1>5. /\ decor' \in [on : BOOLEAN, scale : Positive, hover : Named]
      /\ decor'.on /\ decor'.hover = n
  <2>1. decor' = [decor EXCEPT !.hover = n]
    BY <1>1, <1>3, Zenon
  <2>2. decor \in [on : BOOLEAN, scale : Positive, hover : Named]
    BY <1>2, Zenon DEF FrameTypes
  <2> QED BY <2>1, <2>2, <1>4
<1>6. /\ pointer' \in [over : BOOLEAN, part : Parts, x : Nat, y : Nat, cursor : Cursors]
      /\ pointer'.part = a /\ pointer'.x = b /\ pointer'.y = c /\ pointer'.cursor = e
  <2>1. pointer' = [over |-> TRUE, part |-> a, x |-> b, y |-> c, cursor |-> e]
    BY <1>1, <1>3, Zenon
  <2> QED BY <2>1, <1>4
<1>7. /\ painted'.hover \in Named
      /\ buffer["top"] # NoBuffer => painted'.hover = decor'.hover /\ painted'.w = placed["top"].w
  <2>1. CASE decor' = decor
    BY <2>1, <1>1, <1>2, Zenon DEF FrameTypes, ShowsBar
  <2>2. CASE decor' # decor
    <3>1. PICK d, has : d = decor' /\ has = (buffer["top"] # NoBuffer)
      BY Zenon
    <3>2. Redraw(win, d, placed["top"].w, has) /\ d.hover \in Named /\ d.on
      BY <1>1, <1>4, <1>5, <2>2, <3>1, Zenon
    <3>3. /\ painted'.hover \in Named
          /\ d.on /\ has => painted'.hover = d.hover /\ painted'.w = placed["top"].w
      BY <3>2, RedrawShows, Zenon
    <3> QED BY <3>1, <3>2, <3>3, Zenon
  <2> QED BY <2>1, <2>2, Zenon
<1>8. FrameTypes'
  <2>1. fresh' \in BOOLEAN
    BY <1>1, Zenon
  <2> QED BY <1>1, <1>2, <1>5, <1>6, <1>7, <2>1, Zenon DEF FrameTypes
<1>9. LaidOut'
  BY <1>1, <1>2, <1>5, Zenon DEF LaidOut
<1>10. ShowsBar'
  BY <1>1, <1>7, Zenon DEF ShowsBar
<1>11. PointsTruly'
  <2>1. ButtonAt(a, b, c)' = ButtonAt(a, b, c) /\ ResizeEdge(a, b, c)' = ResizeEdge(a, b, c)
    BY <1>1, SameButton, SameEdge, Zenon
  <2>2. /\ ButtonAt(pointer.part, pointer.x, pointer.y)' = ButtonAt(a, b, c)'
        /\ ResizeEdge(pointer.part, pointer.x, pointer.y)' = ResizeEdge(a, b, c)'
    BY <1>6, Zenon
  <2>3. n = ButtonAt(a, b, c) /\ e = CursorFor(ResizeEdge(a, b, c))
    BY <1>3, Zenon
  <2>4. /\ decor'.on
        /\ decor'.hover = ButtonAt(pointer.part, pointer.x, pointer.y)'
        /\ pointer'.cursor = CursorFor(ResizeEdge(pointer.part, pointer.x, pointer.y)')
    BY <1>5, <1>6, <2>1, <2>2, <2>3, Zenon
  <2> QED BY <2>4, Zenon DEF PointsTruly, CursorFor
<1>12. Presses'
  BY <1>1 DEF Presses, PressIsDrawn, PressIsForeseen, NoPress
<1> QED BY <1>8, <1>9, <1>10, <1>11, <1>12, Zenon DEF FrameInv

LEMMA PointerLeaveKeeps ==
  ASSUME FrameInv, PointerLeave
  PROVE  FrameInv'
<1>1. /\ pointer.over /\ pointer' = NoPointer
      /\ decor' = [decor EXCEPT !.hover = "none"]
      /\ IF decor.hover = "none" THEN painted' = painted
         ELSE Redraw(win, decor', placed["top"].w, buffer["top"] # NoBuffer)
      /\ did' = NoPress /\ win' = win /\ placed' = placed /\ buffer' = buffer
      /\ geometry' = geometry /\ fresh' = fresh
  BY Zenon DEF PointerLeave
<1>2. FrameTypes /\ LaidOut /\ ShowsBar
  BY Zenon DEF FrameInv
<1>3. "none" \in Named
  BY DEF Named
<1>4. /\ decor' \in [on : BOOLEAN, scale : Positive, hover : Named]
      /\ decor'.on = decor.on /\ decor'.hover = "none"
  <2>1. decor \in [on : BOOLEAN, scale : Positive, hover : Named]
    BY <1>2, Zenon DEF FrameTypes
  <2> QED BY <1>1, <1>3, <2>1
<1>5. /\ pointer' \in [over : BOOLEAN, part : Parts, x : Nat, y : Nat, cursor : Cursors]
      /\ ~pointer'.over
  BY <1>1 DEF NoPointer, Cursors, Parts
<1>6. /\ painted'.hover \in Named
      /\ decor'.on /\ buffer["top"] # NoBuffer =>
           painted'.hover = decor'.hover /\ painted'.w = placed["top"].w
  <2>1. CASE decor.hover = "none"
    BY <2>1, <1>1, <1>2, <1>4, Zenon DEF FrameTypes, ShowsBar
  <2>2. CASE decor.hover # "none"
    <3>1. PICK d, has : d = decor' /\ has = (buffer["top"] # NoBuffer)
      BY Zenon
    <3>2. Redraw(win, d, placed["top"].w, has) /\ d.hover \in Named
      BY <1>1, <1>3, <1>4, <2>2, <3>1, Zenon
    <3>3. /\ painted'.hover \in Named
          /\ d.on /\ has => painted'.hover = d.hover /\ painted'.w = placed["top"].w
      BY <3>2, RedrawShows, Zenon
    <3> QED BY <3>1, <3>2, <3>3, Zenon
  <2> QED BY <2>1, <2>2, Zenon
<1>7. FrameTypes'
  BY <1>1, <1>2, <1>4, <1>5, <1>6, Zenon DEF FrameTypes
<1>8. LaidOut'
  BY <1>1, <1>2, <1>4, Zenon DEF LaidOut
<1>9. ShowsBar' /\ PointsTruly'
  BY <1>1, <1>5, <1>6, Zenon DEF ShowsBar, PointsTruly
<1>10. Presses'
  BY <1>1 DEF Presses, PressIsDrawn, PressIsForeseen, NoPress
<1> QED BY <1>7, <1>8, <1>9, <1>10, Zenon DEF FrameInv

-----------------------------------------------------------------------------
(* What a press does *)

\* nack__wl_decor_pointer_button takes the button under the pointer first, then
\* the edge, then the bar.
LEMMA LeftPressCases ==
  ASSUME NEW clicks, NEW pressed, NEW edge,
         pressed = ButtonAt(pointer.part, pointer.x, pointer.y),
         edge = ResizeEdge(pointer.part, pointer.x, pointer.y)
  PROVE  /\ pressed # "none" => /\ LeftPress(clicks).by = pressed
                                /\ LeftPress(clicks).what \notin {"resize", "move"}
         /\ pressed = "none" /\ edge # {} => /\ LeftPress(clicks).by = CursorFor(edge)
                                             /\ LeftPress(clicks).what = "resize"
         /\ pressed = "none" /\ edge = {} => /\ LeftPress(clicks).by \in {"bar", "nothing"}
                                             /\ LeftPress(clicks).what # "resize"
<1>1. pressed \in Named
  BY ButtonNames, Zenon DEF ButtonAt
<1>2. ToggleMaximized \in {"unmaximize", "maximize"}
  BY Zenon DEF ToggleMaximized
<1>3. LeftPress(clicks) =
        IF pressed # "none"
        THEN [by |-> pressed, what |-> IF pressed = "maximize" THEN ToggleMaximized ELSE pressed]
        ELSE IF edge # {} THEN [by |-> CursorFor(edge), what |-> "resize"]
        ELSE IF pointer.part = "top"
        THEN [by |-> "bar", what |-> IF clicks >= 2 THEN ToggleMaximized ELSE "move"]
        ELSE [by |-> "nothing", what |-> "nothing"]
  BY Zenon DEF LeftPress
<1>4. CASE pressed # "none"
  BY <1>1, <1>2, <1>3, <1>4 DEF Named
<1>5. CASE pressed = "none" /\ edge # {}
  BY <1>3, <1>5
<1>6. CASE pressed = "none" /\ edge = {}
  BY <1>2, <1>3, <1>6
<1> QED BY <1>4, <1>5, <1>6, Zenon

\* A step that changes none of this keeps it: a press, or no step.
LEMMA NothingMoves ==
  ASSUME FrameInv, win' = win, decor' = decor, placed' = placed, buffer' = buffer,
         painted' = painted, pointer' = pointer, geometry' = geometry, fresh' = fresh
  PROVE  FrameTypes' /\ LaidOut' /\ ShowsBar' /\ PointsTruly'
<1>1. FrameTypes /\ LaidOut /\ ShowsBar /\ PointsTruly
  BY Zenon DEF FrameInv
<1>2. FrameTypes'
  BY <1>1, Zenon DEF FrameTypes
<1>3. LaidOut' /\ ShowsBar'
  BY <1>1, Zenon DEF LaidOut, ShowsBar
<1>4. PointsTruly'
  <2>1. PICK a, b, c : a = pointer.part /\ b = pointer.x /\ c = pointer.y
    BY Zenon
  <2>2. ButtonAt(a, b, c)' = ButtonAt(a, b, c) /\ ResizeEdge(a, b, c)' = ResizeEdge(a, b, c)
    BY SameButton, SameEdge, Zenon
  <2>3. pointer'.part = a /\ pointer'.x = b /\ pointer'.y = c
    BY <2>1, Zenon
  <2>4. /\ ButtonAt(pointer.part, pointer.x, pointer.y)' = ButtonAt(a, b, c)'
        /\ ResizeEdge(pointer.part, pointer.x, pointer.y)' = ResizeEdge(a, b, c)'
    BY <2>3, Zenon
  <2>5. pointer.over =>
          /\ decor.on
          /\ fresh => decor.hover = ButtonAt(a, b, c) /\ pointer.cursor = CursorFor(ResizeEdge(a, b, c))
    BY <1>1, <2>1, Zenon DEF PointsTruly
  <2>6. pointer'.over =>
          /\ decor'.on
          /\ fresh' => /\ decor'.hover = ButtonAt(pointer.part, pointer.x, pointer.y)'
                       /\ pointer'.cursor = CursorFor(ResizeEdge(pointer.part, pointer.x, pointer.y)')
    BY <2>2, <2>4, <2>5, Zenon
  <2> QED BY <2>6, Zenon DEF PointsTruly, CursorFor
<1> QED BY <1>2, <1>3, <1>4, Zenon

LEMMA PressKeeps ==
  ASSUME FrameInv, NEW button \in {"left", "right", "other"}, NEW clicks \in 1..2,
         Press(button, clicks)
  PROVE  FrameInv'
<1>1. /\ pointer.over
      /\ win' = win /\ decor' = decor /\ placed' = placed /\ buffer' = buffer /\ painted' = painted
      /\ pointer' = pointer /\ geometry' = geometry /\ fresh' = fresh
  BY Zenon DEF Press
<1>2. FrameTypes' /\ LaidOut' /\ ShowsBar' /\ PointsTruly'
  BY <1>1, NothingMoves, Zenon
<1>3. PICK act : /\ did' = [by |-> act.by, what |-> act.what, left |-> button = "left",
                            hover |-> painted.hover, cursor |-> pointer.cursor,
                            drawn |-> ButtonOf(painted.w, pointer.part, pointer.x, pointer.y),
                            known |-> buffer["top"] # NoBuffer, still |-> fresh]
                 /\ button = "left" => act = LeftPress(clicks)
  BY Zenon DEF Press
<1>4. /\ did'.by = act.by /\ did'.what = act.what /\ did'.hover = painted.hover
      /\ did'.cursor = pointer.cursor
      /\ did'.drawn = ButtonOf(painted.w, pointer.part, pointer.x, pointer.y)
      /\ did'.left = (button = "left") /\ did'.known = (buffer["top"] # NoBuffer) /\ did'.still = fresh
  BY <1>3, Zenon
<1>5. PICK pressed, edge : /\ pressed = ButtonAt(pointer.part, pointer.x, pointer.y)
                           /\ edge = ResizeEdge(pointer.part, pointer.x, pointer.y)
  BY Zenon
<1>6. button = "left" =>
        /\ pressed # "none" => act.by = pressed /\ act.what \notin {"resize", "move"}
        /\ pressed = "none" /\ edge # {} => act.by = CursorFor(edge) /\ act.what = "resize"
        /\ pressed = "none" /\ edge = {} => act.by \in {"bar", "nothing"} /\ act.what # "resize"
  <2> SUFFICES ASSUME button = "left"
               PROVE  /\ pressed # "none" => act.by = pressed /\ act.what \notin {"resize", "move"}
                      /\ pressed = "none" /\ edge # {} => act.by = CursorFor(edge) /\ act.what = "resize"
                      /\ pressed = "none" /\ edge = {} => act.by \in {"bar", "nothing"} /\ act.what # "resize"
    OBVIOUS
  <2>1. act = LeftPress(clicks)
    BY <1>3, Zenon
  <2> QED BY <2>1, <1>5, LeftPressCases, Zenon
<1>7. PICK c \in Cursors : c = CursorFor(edge)
  BY CursorNames, Zenon
<1>8. decor.on
  BY <1>1, Zenon DEF FrameInv, PointsTruly
<1>9. PressIsDrawn'
  <2> SUFFICES ASSUME button = "left", buffer["top"] # NoBuffer
               PROVE  IF pressed # "none" THEN act.by = pressed
                      ELSE act.by \notin {"minimize", "maximize", "close"}
    <3>1. buffer["top"] # NoBuffer => did'.drawn = pressed
      BY <1>4, <1>5, <1>8, Zenon DEF FrameInv, ShowsBar, ButtonAt
    <3> QED BY <1>4, <3>1, Zenon DEF PressIsDrawn
  <2> QED BY <1>6, <1>7 DEF Cursors
<1>10. PressIsForeseen'
  <2> SUFFICES ASSUME fresh, buffer["top"] # NoBuffer, button = "left"
               PROVE  /\ painted.hover # "none" => act.by = painted.hover
                      /\ act.by \in {"minimize", "maximize", "close"} => painted.hover = act.by
                      /\ act.what = "resize" => pointer.cursor = act.by
                      /\ act.what = "move" => pointer.cursor = "arrow"
    BY <1>4, Zenon DEF PressIsForeseen
  <2>1. painted.hover = pressed /\ pointer.cursor = CursorFor(edge)
    BY <1>1, <1>5, <1>8, Zenon DEF FrameInv, ShowsBar, PointsTruly
  <2>2. edge = {} => c = "arrow"
    BY <1>7 DEF CursorFor
  <2> QED BY <2>1, <2>2, <1>6, <1>7 DEF Cursors
<1> QED BY <1>2, <1>9, <1>10, Zenon DEF FrameInv, Presses

-----------------------------------------------------------------------------
(* The theorems *)

LEMMA InitFrames == FrameInit => FrameInv
<1> SUFFICES ASSUME FrameInit PROVE FrameInv
  OBVIOUS
<1>1. PICK size \in Sizes : win = [w |-> size.w, h |-> size.h, maximized |-> FALSE, focused |-> FALSE]
  BY Zenon DEF FrameInit
<1>2. /\ decor = [on |-> FALSE, scale |-> 1, hover |-> "none"]
      /\ placed = [p \in Parts |-> NoPlace] /\ buffer = [p \in Parts |-> NoBuffer]
      /\ painted = Unpainted /\ pointer = NoPointer /\ geometry = NoPlace
      /\ fresh = FALSE /\ did = NoPress
  BY Zenon DEF FrameInit
<1>3. size \in Extent
  BY FrameAssumption, Zenon DEF FrameAssumption
<1>4. size.w \in Positive /\ size.h \in Positive
  BY <1>3 DEF Extent, Positive
<1>5. win \in [w : Positive, h : Positive, maximized : BOOLEAN, focused : BOOLEAN]
  BY <1>1, <1>4
<1>6. decor \in [on : BOOLEAN, scale : Positive, hover : Named] /\ ~decor.on
  BY <1>2 DEF Named, Positive
<1>7. NoBuffer \in Sheet /\ NoPlace \in Place
  BY DEF NoBuffer, NoPlace, Sheet, Place
<1>8. buffer \in [Parts -> Sheet] /\ placed \in [Parts -> Place]
  BY <1>2, <1>7, Zenon
<1>9. /\ pointer \in [over : BOOLEAN, part : Parts, x : Nat, y : Nat, cursor : Cursors]
      /\ ~pointer.over
  BY <1>2 DEF NoPointer, Cursors, Parts
<1>10. geometry \in [x : Int, y : Int, w : Nat, h : Nat] /\ painted.hover \in Named
  BY <1>2 DEF NoPlace, Unpainted, Named
<1>11. fresh \in BOOLEAN
  BY <1>2, Zenon
<1>12. FrameTypes
  BY <1>5, <1>6, <1>8, <1>9, <1>10, <1>11, Zenon DEF FrameTypes
<1>13. LaidOut /\ ShowsBar /\ PointsTruly
  BY <1>2, <1>6, <1>9, Zenon DEF LaidOut, ShowsBar, PointsTruly
<1>14. Presses
  BY <1>2 DEF Presses, PressIsDrawn, PressIsForeseen, NoPress
<1> QED BY <1>12, <1>13, <1>14, Zenon DEF FrameInv

LEMMA NextKeeps == FrameInv /\ [FrameNext]_frameVars => FrameInv'
<1> SUFFICES ASSUME FrameInv, [FrameNext]_frameVars PROVE FrameInv'
  OBVIOUS
<1>0. FrameTypes /\ PointsTruly
  BY Zenon DEF FrameInv
<1>1. ASSUME NEW p \in Proposals, Configure(p[1], p[2]) PROVE FrameInv'
  <2>1. PICK size, m : p = <<size, m>> /\ size.w \in Nat /\ size.h \in Nat /\ m \in BOOLEAN
    <3>1. CASE p = <<NoExtent, FALSE>>
      BY <3>1 DEF NoExtent
    <3>2. CASE p = <<[w |-> geometry.w, h |-> geometry.h], win.maximized>>
      <4>1. geometry.w \in Nat /\ geometry.h \in Nat /\ win.maximized \in BOOLEAN
        BY <1>0, Zenon DEF FrameTypes
      <4>2. PICK size : size = [w |-> geometry.w, h |-> geometry.h]
        BY Zenon
      <4>3. size.w = geometry.w /\ size.h = geometry.h
        BY <4>2, Zenon
      <4> QED BY <3>2, <4>1, <4>2, <4>3, Zenon
    <3>3. CASE p = <<Screen, TRUE>>
      <4>1. Screen \in Extent
        BY FrameAssumption, Zenon DEF FrameAssumption
      <4>2. Screen.w \in Nat /\ Screen.h \in Nat
        BY <4>1 DEF Extent
      <4> QED BY <3>3, <4>2, Zenon
    <3>4. CASE \E s \in Sizes : p = <<s, FALSE>>
      <4>1. PICK s \in Sizes : p = <<s, FALSE>>
        BY <3>4, Zenon
      <4>2. s \in Extent
        BY FrameAssumption, Zenon DEF FrameAssumption
      <4>3. s.w \in Nat /\ s.h \in Nat
        BY <4>2 DEF Extent
      <4> QED BY <4>1, <4>3, Zenon
    <3> QED BY <3>1, <3>2, <3>3, <3>4, Zenon DEF Proposals
  <2>2. Configure(size, m)
    <3>1. p[1] = size /\ p[2] = m
      BY <2>1
    <3> QED BY <1>1, <3>1, Zenon
  <2> QED BY <2>1, <2>2, ConfigureKeeps, Zenon
<1>2. CASE Enable
  BY <1>2, EnableKeeps, Zenon
<1>3. CASE Disable
  BY <1>3, DisableKeeps, Zenon
<1>4. CASE Focus
  BY <1>4, FocusKeeps, Zenon
<1>5. ASSUME NEW s \in Scales, UpdateScale(s) PROVE FrameInv'
  <2>1. s \in Positive
    BY FrameAssumption, Zenon DEF FrameAssumption, Positive
  <2> QED BY <2>1, <1>5, UpdateScaleKeeps, Zenon
<1>6. CASE PointerEnter
  <2>1. decor.on /\ \E p \in Parts : \E at \in Points(p) : Motion(p, at)
    BY <1>6, Zenon DEF PointerEnter
  <2> QED BY <2>1, MotionKeeps, Zenon
<1>7. CASE PointerMotion
  <2>1. pointer.over /\ \E at \in Points(pointer.part) : Motion(pointer.part, at)
    BY <1>7, Zenon DEF PointerMotion
  <2>2. decor.on /\ pointer.part \in Parts
    BY <2>1, <1>0, Zenon DEF PointsTruly, FrameTypes
  <2>3. PICK p \in Parts : p = pointer.part
    BY <2>2, Zenon
  <2>4. \E at \in Points(p) : Motion(p, at)
    BY <2>1, <2>3, Zenon
  <2> QED BY <2>2, <2>4, MotionKeeps, Zenon
<1>8. CASE PointerLeave
  BY <1>8, PointerLeaveKeeps, Zenon
<1>9. ASSUME NEW b \in {"left", "right", "other"}, NEW clicks \in 1..2, Press(b, clicks) PROVE FrameInv'
  BY <1>9, PressKeeps, Zenon
<1>10. ASSUME NEW s \in Sizes, SetSize(s) PROVE FrameInv'
  <2>1. s \in Extent
    BY FrameAssumption, Zenon DEF FrameAssumption
  <2> QED BY <2>1, <1>10, SetSizeKeeps, Zenon
<1>11. CASE UNCHANGED frameVars
  <2>1. /\ win' = win /\ decor' = decor /\ placed' = placed /\ buffer' = buffer /\ painted' = painted
        /\ pointer' = pointer /\ geometry' = geometry /\ fresh' = fresh /\ did' = did
    BY <1>11, Zenon DEF frameVars
  <2>2. FrameTypes' /\ LaidOut' /\ ShowsBar' /\ PointsTruly'
    BY <2>1, NothingMoves, Zenon
  <2>3. Presses'
    BY <2>1, Zenon DEF FrameInv, Presses, PressIsDrawn, PressIsForeseen
  <2> QED BY <2>2, <2>3, Zenon DEF FrameInv
<1> QED BY <1>1, <1>2, <1>3, <1>4, <1>5, <1>6, <1>7, <1>8, <1>9, <1>10, <1>11, Zenon DEF FrameNext

\* The invariant holds of every frame.
THEOREM FrameInvariant == FrameSpec => []FrameInv
<1>1. FrameInit => FrameInv
  BY InitFrames
<1>2. FrameInv /\ [FrameNext]_frameVars => FrameInv'
  BY NextKeeps
<1> QED BY <1>1, <1>2, PTL DEF FrameSpec

\* The parts of the frame lie round the content without overlap, inside the
\* geometry the compositor was told, and fill it when memory did not run out:
\* nack__wl_decor_resize places by the size of the window alone.
THEOREM PartsAlwaysTile == FrameSpec => []PartsTile
<1>1. FrameInv => PartsTile
  BY TilesByInvariant, Zenon DEF FrameInv
<1> QED BY <1>1, FrameInvariant, PTL

\* A left press acts as a button just where the title bar shows one, whatever was
\* resized, rescaled or not allocated since the pointer moved: the bar is drawn
\* with the width that nack__wl_button_at looks it up in.
THEOREM PressesAreDrawn == FrameSpec => []PressIsDrawn
<1>1. FrameInv => PressIsDrawn
  BY Zenon DEF FrameInv, Presses
<1> QED BY <1>1, FrameInvariant, PTL

\* While the window keeps its size, a left press does what
\* nack__wl_decor_pointer_motion highlighted and what its cursor says, whatever
\* else has changed.
THEOREM PressesAreForeseen == FrameSpec => []PressIsForeseen
<1>1. FrameInv => PressIsForeseen
  BY Zenon DEF FrameInv, Presses
<1> QED BY <1>1, FrameInvariant, PTL

-----------------------------------------------------------------------------
(* Clipboards: what the variables hold *)

Part  == Text \X {1, 2}
Texts == Text \cup {Nothing}
Board == [owner : {"us", "peer", "none"}, text : Texts]
Last  == [answer : Seq(Part) \cup {Nothing}, late : BOOLEAN, dragged : BOOLEAN, owed : BOOLEAN]

\* X11
XMessage == [type : {"clear", "new", "other"}] \cup [type : {"notify"}, found : BOOLEAN]
XLib == [slot : Texts, pc : {"idle", "notify", "chunk"}, target : {1, 2}, buffer : Seq(Part),
         late : BOOLEAN, dragged : BOOLEAN, refused : BOOLEAN, overtaken : BOOLEAN]
XProperty == [type : {"none", "text", "incr"}, data : Seq(Part)]
XTransfer == [text : Text, next : 1 .. 3]
XPeer == [text : Texts, requests : Nat, sending : Seq(XTransfer), deletes : Nat]
XShape == [board : Board, lib : XLib, server : XProperty, peer : XPeer,
           wire : Seq(XMessage), seen : SUBSET Texts, last : Last]

\* The first k - 1 pieces of a text.
Upto(t, k) == IF k = 1 THEN << >> ELSE IF k = 2 THEN <<Piece(t, 1)>> ELSE Whole(t)

-----------------------------------------------------------------------------
(* Clipboards: the conversation of an X11 read with the owner *)

\* What a read steps over.
Aside == {"clear", "other"}

Clears(w) == \A i \in 1 .. Len(w) : w[i].type \in Aside

\* One answer to the request, behind the event of its property if there is one.
Replied(w, found) ==
  \E i \in 1 .. Len(w) :
    /\ w[i] = [type |-> "notify", found |-> found]
    /\ \A j \in 1 .. Len(w) : j # i => w[j].type \in Aside \/ (found /\ j < i /\ w[j].type = "new")

\* One event of the property.
Newed(w) ==
  \E i \in 1 .. Len(w) :
    w[i].type = "new" /\ \A j \in 1 .. Len(w) : j # i => w[j].type \in Aside

Promised(t) == <<[text |-> t, next |-> 1]>>
Sent(t, k)  == <<[text |-> t, next |-> k]>>
InProperty(type, data) == [type |-> type, data |-> data]

\* The request waits at its owner, or its answer is under way: a refusal, the
\* text, or the promise of pieces.
Answering(n) ==
  \/ n.peer.requests = 1 /\ Clears(n.wire) /\ n.server = NoProperty /\ n.peer.sending = << >>
  \/ /\ n.peer.requests = 0 /\ n.server = NoProperty /\ n.peer.sending = << >>
     /\ Replied(n.wire, FALSE)
  \/ /\ n.peer.requests = 0 /\ n.peer.sending = << >> /\ Replied(n.wire, TRUE)
     /\ \E t \in Text \cap n.seen : n.server = InProperty("text", Whole(t))
  \/ /\ n.peer.requests = 0 /\ n.peer.deletes = 0 /\ Replied(n.wire, TRUE)
     /\ n.server = InProperty("incr", << >>)
     /\ \E t \in Text \cap n.seen : n.peer.sending = Promised(t)

\* A piece is asked for, or lies in the property, the empty one behind the last
\* too; those before it have been read.
Receiving(n, t) ==
  \/ /\ Clears(n.wire) /\ n.server = NoProperty /\ n.peer.deletes = 1
     /\ \E k \in 1 .. 3 : n.peer.sending = Sent(t, k) /\ n.lib.buffer = Upto(t, k)
  \/ /\ Newed(n.wire) /\ n.peer.deletes = 0
     /\ \E k \in 1 .. 2 : /\ n.peer.sending = Sent(t, k + 1) /\ n.lib.buffer = Upto(t, k)
                          /\ n.server = InProperty("text", <<Piece(t, k)>>)
  \/ /\ Newed(n.wire) /\ n.peer.sending = << >>
     /\ n.lib.buffer = Whole(t) /\ n.server = InProperty("text", << >>)

XTalk(n) ==
  /\ n.lib.pc = "notify" => Answering(n)
  /\ n.lib.pc = "chunk" => n.peer.requests = 0 /\ \E t \in Text \cap n.seen : Receiving(n, t)

-----------------------------------------------------------------------------
(* Clipboards: the invariant on X11 *)

\* What libnack keeps of its own text, once that is on the clipboard, goes only
\* with a message from before the claim.
XOwner(n) ==
  /\ n.board.owner = "none" => n.board.text = Nothing
  /\ n.board.owner = "peer" => n.peer.text = n.board.text
  /\ n.board.owner = "us" =>
       /\ n.lib.slot \in {n.board.text, Nothing}
       /\ n.lib.slot = Nothing \/ (\E i \in 1 .. Len(n.wire) : n.wire[i].type = "clear")
            => n.lib.overtaken

\* An answer in time is a whole text, and there is one when one was owed.
Answers(l) ==
  /\ l.late \/ l.answer = Nothing \/ \E t \in Text : l.answer = Whole(t)
  /\ l.owed /\ ~l.dragged => l.answer # Nothing

\* Whether libnack reads or not.
XBase(n) ==
  /\ n \in XShape
  /\ n.board.text \in n.seen
  /\ XOwner(n)
  /\ n.peer.sending = << >> => n.peer.deletes = 0
  /\ Answers(n.last)

XReading(n) ==
  n.lib.pc # "idle" =>
    /\ n.board.owner # "us" /\ n.peer.text \in n.seen
    /\ ~n.lib.late => XTalk(n)

XInv(n) == XBase(n) /\ XReading(n)

-----------------------------------------------------------------------------
(* Clipboards: what a step does to the promise *)

Ended(n) ==
  n.last.late \/ n.last.answer = Nothing \/ \E t \in Text \cap n.seen : n.last.answer = Whole(t)

\* libnack looks at the clipboard, or hears, or answers.
Looks(n, m) ==
  /\ m.board.text = n.board.text /\ m.seen \in {n.seen, {n.board.text}}
  /\ m.last = n.last \/ Ended(m)

\* The text there is another one.
Puts(n, m) == m.seen = n.seen \cup {m.board.text} /\ m.last = n.last

-----------------------------------------------------------------------------
(* Clipboards: the invariant on Wayland *)

Offer    == [source : Int, text : Texts]
WMessage == [type : {"offer"}, text : BOOLEAN, drag : BOOLEAN]
              \cup [type : {"selection"}, offer : Offer]
              \cup [type : {"send", "cancelled"}, source : Int]
WLib == [source : Nat, offered : Texts, offer : Offer, hasText : BOOLEAN,
         pc : {"idle", "pipe"}, buffer : Seq(Part), late : BOOLEAN, dragged : BOOLEAN]
WServer == [requests : Seq([source : Nat, destroyed : Nat]), current : Int, ids : Nat,
            texts : Seq(Text)]
WPeer == [focused : BOOLEAN, pipe : Offer, next : 1 .. 3, asked : Int, got : Offer]
WShape == [board : Board, lib : WLib, server : WServer, peer : WPeer,
           wire : Seq(WMessage), seen : SUBSET Texts, last : Last]

\* The source has a text, and o has it.
Ours(o, texts) == o.source \in 1 .. Len(texts) /\ o.text = texts[o.source]

\* Requests are made in order, each to replace an earlier source.
WRequests(n) ==
  \A i \in 1 .. Len(n.server.requests) :
    LET r == n.server.requests[i]
    IN r.source \in 1 .. Len(n.server.texts) /\ r.destroyed < r.source

\* What has been on the clipboard since libnack last heard, and will be.
WSeen(n) == n.board.text \in n.seen /\ Asked(n) \subseteq n.seen

Selected(n) == [source |-> n.server.current, text |-> n.board.text]

WOwner(n) ==
  /\ n.board.owner = "none" => n.board.text = Nothing
  /\ n.board.owner = "us" => Ours(Selected(n), n.server.texts)
  /\ n.board.owner = "peer" => n.server.current < 0 /\ -n.server.ids <= n.server.current

\* An offer was ours, or is of a source of another program, which has not
\* changed its text.
Sound(o, n) ==
  \/ o = NoOffer
  \/ Ours(o, n.server.texts)
  \/ /\ o.source < 0 /\ -n.server.ids <= o.source
     /\ o.source = n.server.current => o.text = n.board.text

WOffers(n) ==
  /\ Sound(n.lib.offer, n)
  /\ \A i \in 1 .. Len(n.wire) :
       n.wire[i].type = "selection" => Sound(n.wire[i].offer, n)

\* libnack's source is the last one made, and has the text it was made with.
WSource(n) ==
  IF n.lib.source = NoSource THEN n.lib.offered = Nothing
  ELSE /\ n.lib.source = Len(n.server.texts)
       /\ n.lib.offered = n.server.texts[n.lib.source]

\* It is asked for, or the selection, or libnack is about to hear that it is not.
WWanted(n) ==
  n.lib.source # NoSource =>
    /\ n.lib.offered \in n.seen
    /\ \/ \E i \in 1 .. Len(n.server.requests) : n.server.requests[i].source = n.lib.source
       \/ n.board.owner = "us" /\ n.server.current = n.lib.source
       \/ \E i \in 1 .. Len(n.wire) : n.wire[i] = [type |-> "cancelled", source |-> n.lib.source]

\* Others have of us what the source they asked has.
WServed(n) == n.peer.got # NoOffer => Ours(n.peer.got, n.server.texts)

\* What is read is the text of an offer that was the selection.
WReading(n) ==
  n.lib.pc = "pipe" =>
    /\ ~n.lib.late
    /\ n.peer.pipe # NoOffer => n.peer.pipe.text \in n.seen
    /\ n.peer.pipe.text = Nothing => n.peer.next = 1
    /\ n.lib.buffer = Upto(n.peer.pipe.text, n.peer.next)

\* Whether libnack reads, waits or not; but for its own source and for what it
\* knows of the selection.
WCore(n) ==
  /\ n \in WShape
  /\ WRequests(n) /\ WSeen(n) /\ WOwner(n) /\ WOffers(n)
  /\ WSource(n) /\ WServed(n) /\ WReading(n)
  /\ Answers(n.last)

\* What libnack knows of the selection, and what a message tells it.
Known(l) == [offer |-> l.offer, hasText |-> l.hasText, dragged |-> l.dragged]

Learns(k, m) ==
  IF m.type = "offer"
  THEN [offer |-> k.offer, hasText |-> m.text, dragged |-> m.drag]
  ELSE IF m.type = "selection"
  THEN [offer |-> m.offer, hasText |-> (m.offer # NoOffer /\ k.hasText), dragged |-> k.dragged]
  ELSE k

\* What it knows when it has heard the messages w.
Learnt(k, w) ==
  LET after[i \in 0 .. Len(w)] == IF i = 0 THEN k ELSE Learns(after[i - 1], w[i])
  IN after[Len(w)]

\* With the keyboard, libnack knows of the selection once it has heard all there
\* is to hear; but for whether it has a text, when something is dragged.
Knows(k, n) ==
  IF n.board.owner = "none" THEN k.offer = NoOffer
  ELSE /\ k.offer = Selected(n)
       /\ k.dragged \/ (k.hasText <=> n.board.text # Nothing)

WKnows(n) == n.peer.focused => Knows(Learnt(Known(n.lib), n.wire), n)

WInv(n) == WCore(n) /\ WWanted(n) /\ WKnows(n)

-----------------------------------------------------------------------------
(* Clipboards: the invariant on Win32 and Cocoa, and on all *)

DLib == [pc : {"idle"}, late : {FALSE}, buffer : {<< >>}, dragged : {FALSE}]
DShape == [board : Board, lib : DLib, server : {NoProperty}, peer : XPeer,
           wire : {<< >>}, seen : SUBSET Texts, last : Last]

DInv(n) == n \in DShape /\ n.board.text \in n.seen /\ Answers(n.last) /\ ~n.last.late

BoardsInv ==
  /\ backend = "x11" => XInv(Now)
  /\ OnWayland => WInv(Now)
  /\ Desktop => DInv(Now)
  /\ backend \in Backends

-----------------------------------------------------------------------------
(* Clipboards: numbers and sequences *)

\* Induction, over a set.
LEMMA Counting ==
  ASSUME NEW k \in Nat, NEW S \in SUBSET (0 .. k), 0 \in S,
         \A i \in 0 .. k : i \in S /\ i < k => i + 1 \in S
  PROVE  S = 0 .. k
<1>1. SUFFICES ASSUME (0 .. k) \ S # {} PROVE FALSE
  OBVIOUS
<1> DEFINE T == (0 .. k) \ S
<1> DEFINE R == OpToRel(<, Nat)
<1>2. IsWellFoundedOn(R, Nat)
  BY NatLessThanWellFounded
<1>3. T \in SUBSET Nat /\ T # {}
  BY <1>1
<1>4. PICK m \in T : \A y \in T : ~(<<y, m>> \in R)
  <2> HIDE DEF R, T
  <2> QED BY <1>2, <1>3, WFMin
<1>5. ASSUME NEW y \in T PROVE ~(y < m)
  <2>1. y \in Nat /\ m \in Nat
    OBVIOUS
  <2>2. ~(<<y, m>> \in R)
    BY <1>4
  <2> QED BY <2>1, <2>2 DEF OpToRel
<1>6. m - 1 \in 0 .. k /\ m \in 0 .. k /\ m \notin S
  OBVIOUS
<1>7. m - 1 \in S
  BY <1>5, <1>6
<1> QED BY <1>6, <1>7

LEMMA TailOf ==
  ASSUME NEW S, NEW w \in Seq(S), w # << >>
  PROVE  /\ Tail(w) \in Seq(S) /\ Len(Tail(w)) = Len(w) - 1 /\ Len(w) \in Nat \ {0}
         /\ \A i \in 1 .. Len(w) - 1 : Tail(w)[i] = w[i + 1]
         /\ Head(w) = w[1] /\ Head(w) \in S
BY HeadTailProperties, LenProperties, EmptySeq, ElementOfSeq

LEMMA AppendOf ==
  ASSUME NEW S, NEW w \in Seq(S), NEW m \in S
  PROVE  /\ Append(w, m) \in Seq(S) /\ Len(Append(w, m)) = Len(w) + 1 /\ Len(w) \in Nat
         /\ \A i \in 1 .. Len(w) : Append(w, m)[i] = w[i]
         /\ Append(w, m)[Len(w) + 1] = m
         /\ Append(w, m) # << >>
BY AppendProperties, LenProperties, EmptySeq

LEMMA ElementOf ==
  ASSUME NEW S, NEW w \in Seq(S)
  PROVE  Len(w) \in Nat /\ \A i \in 1 .. Len(w) : w[i] \in S
BY LenProperties, ElementOfSeq

-----------------------------------------------------------------------------
(* Clipboards: the operators of all backends, field by field, on X11 *)

LEMMA TextsDiffer ==
  /\ Nothing \in Texts /\ Nothing \notin Text
  /\ \A t \in Text : t # Nothing /\ Whole(t) # Nothing /\ Whole(t) \in Seq(Part) /\ t \in Texts
BY ClipboardAssumption DEF Texts, Whole, Piece, Part

LEMMA XFields ==
  ASSUME NEW n \in XShape
  PROVE  /\ n.board \in Board /\ n.board.owner \in {"us", "peer", "none"} /\ n.board.text \in Texts
         /\ n.lib \in XLib /\ n.lib.slot \in Texts /\ n.lib.pc \in {"idle", "notify", "chunk"}
         /\ n.lib.target \in {1, 2} /\ n.lib.buffer \in Seq(Part) /\ n.lib.late \in BOOLEAN
         /\ n.lib.dragged \in BOOLEAN /\ n.lib.refused \in BOOLEAN /\ n.lib.overtaken \in BOOLEAN
         /\ n.server \in XProperty /\ n.server.type \in {"none", "text", "incr"} /\ n.server.data \in Seq(Part)
         /\ n.peer \in XPeer /\ n.peer.text \in Texts /\ n.peer.requests \in Nat
         /\ n.peer.sending \in Seq(XTransfer) /\ n.peer.deletes \in Nat
         /\ n.wire \in Seq(XMessage) /\ n.seen \in SUBSET Texts /\ n.last \in Last
BY DEF XShape, Board, XLib, XProperty, XPeer

LEMMA XEnds ==
  ASSUME NEW n \in XShape, NEW v \in Seq(Part), NEW e \in BOOLEAN
  PROVE  /\ Ends(n, v, e) \in XShape
         /\ Ends(n, v, e).board = n.board /\ Ends(n, v, e).server = n.server
         /\ Ends(n, v, e).peer = n.peer /\ Ends(n, v, e).wire = n.wire /\ Ends(n, v, e).seen = n.seen
         /\ Ends(n, v, e).lib = [n.lib EXCEPT !.pc = "idle", !.buffer = << >>]
         /\ Ends(n, v, e).last = [answer |-> IF v = << >> THEN Nothing ELSE v,
                      late |-> n.lib.late, dragged |-> n.lib.dragged,
                      owed |-> ~e /\ ~n.lib.late /\ Nothing \notin n.seen]
<1>1. [n.lib EXCEPT !.pc = "idle", !.buffer = << >>] \in XLib
  <2>1. << >> \in Seq(Part) /\ n.lib \in XLib
    BY XFields
  <2> HIDE DEF Part
  <2> QED BY <2>1 DEF XLib
<1> DEFINE l == [answer |-> IF v = << >> THEN Nothing ELSE v,
                 late |-> n.lib.late, dragged |-> n.lib.dragged,
                 owed |-> ~e /\ ~n.lib.late /\ Nothing \notin n.seen]
<1>2. l \in Last
  <2>1. (IF v = << >> THEN Nothing ELSE v) \in Seq(Part) \cup {Nothing}
    OBVIOUS
  <2> HIDE DEF Part
  <2> QED BY <2>1, XFields DEF Last
<1>3. Ends(n, v, e) = [n EXCEPT !.lib = [n.lib EXCEPT !.pc = "idle", !.buffer = << >>], !.last = l]
  BY DEF Ends, XShape
<1> HIDE DEF l
<1>4. Ends(n, v, e) \in XShape
  BY <1>1, <1>2, <1>3, XFields DEF XShape
<1> QED BY <1>3, <1>4, XFields DEF XShape, l

LEMMA XDeletes ==
  ASSUME NEW n \in XShape
  PROVE  /\ XDelete(n) \in XShape
         /\ XDelete(n).board = n.board /\ XDelete(n).server = NoProperty
         /\ XDelete(n).lib = n.lib /\ XDelete(n).wire = n.wire /\ XDelete(n).seen = n.seen
         /\ XDelete(n).last = n.last
         /\ XDelete(n).peer = [n.peer EXCEPT !.deletes =
              IF n.server # NoProperty /\ n.peer.sending # << >> THEN @ + 1 ELSE @]
<1>1. NoProperty \in XProperty
  BY DEF NoProperty, XProperty
<1> DEFINE p == [n.peer EXCEPT !.deletes =
              IF n.server # NoProperty /\ n.peer.sending # << >> THEN @ + 1 ELSE @]
<1>2. p \in XPeer
  BY XFields DEF XPeer
<1>3. XDelete(n) = [n EXCEPT !.server = NoProperty, !.peer = p]
  BY DEF XDelete, XShape
<1> HIDE DEF p
<1>4. XDelete(n) \in XShape
  BY <1>1, <1>2, <1>3, XFields DEF XShape
<1> QED BY <1>3, <1>4, XFields DEF XShape, p

LEMMA XTells ==
  ASSUME NEW n \in XShape, NEW m \in XMessage
  PROVE  /\ Tell(n, m) \in XShape
         /\ Tell(n, m).board = n.board /\ Tell(n, m).server = n.server
         /\ Tell(n, m).lib = n.lib /\ Tell(n, m).peer = n.peer /\ Tell(n, m).seen = n.seen
         /\ Tell(n, m).last = n.last
         /\ Tell(n, m).wire = Append(n.wire, m)
BY XFields, AppendOf DEF Tell, XShape

-----------------------------------------------------------------------------
(* Clipboards: libnack on X11 *)

LEMMA XEndsKeeps ==
  ASSUME NEW n \in XShape, NEW v \in Seq(Part), NEW e \in BOOLEAN, XBase(n),
         v = << >> \/ n.lib.late \/ (\E t \in Text \cap n.seen : v = Whole(t)),
         e \/ n.lib.late \/ v # << >> \/ Nothing \in n.seen
  PROVE  /\ XInv(Ends(n, v, e)) /\ Ends(n, v, e).board = n.board
         /\ Ends(n, v, e).seen = n.seen /\ Ended(Ends(n, v, e))
<1> DEFINE m == Ends(n, v, e)
<1>1. /\ m \in XShape
      /\ m.board = n.board /\ m.server = n.server
      /\ m.peer = n.peer /\ m.wire = n.wire /\ m.seen = n.seen
      /\ m.lib = [n.lib EXCEPT !.pc = "idle", !.buffer = << >>]
      /\ m.last = [answer |-> IF v = << >> THEN Nothing ELSE v,
                      late |-> n.lib.late, dragged |-> n.lib.dragged,
                      owed |-> ~e /\ ~n.lib.late /\ Nothing \notin n.seen]
  BY XEnds
<1>2. m.last.answer = (IF v = << >> THEN Nothing ELSE v) /\ m.last.late = n.lib.late
      /\ m.last.owed = (~e /\ ~n.lib.late /\ Nothing \notin n.seen)
  BY <1>1
<1>3. n.lib \in XLib /\ m.lib.pc = "idle" /\ m.lib.slot = n.lib.slot /\ m.lib.overtaken = n.lib.overtaken
  BY <1>1, XFields DEF XLib
<1> HIDE DEF m
<1>4. m.last.late \/ m.last.answer = Nothing \/ \E t \in Text \cap n.seen : m.last.answer = Whole(t)
  BY <1>2
<1>5. Answers(m.last)
  BY <1>2, <1>4, TextsDiffer DEF Answers
<1>6. XOwner(m)
  BY <1>1, <1>3 DEF XBase, XOwner
<1>7. XBase(m)
  BY <1>1, <1>5, <1>6 DEF XBase
<1>8. XReading(m)
  BY <1>3 DEF XReading
<1>9. Ended(m)
  BY <1>1, <1>4 DEF Ended
<1> QED BY <1>1, <1>7, <1>8, <1>9 DEF XInv, m

LEMMA XDeleteKeeps ==
  ASSUME NEW n \in XShape, XBase(n)
  PROVE  /\ XBase(XDelete(n)) /\ XDelete(n) \in XShape
         /\ XDelete(n).peer.requests = n.peer.requests /\ XDelete(n).peer.text = n.peer.text
         /\ XDelete(n).peer.sending = n.peer.sending
         /\ XDelete(n).peer.deletes = IF n.server # NoProperty /\ n.peer.sending # << >>
                                      THEN n.peer.deletes + 1 ELSE n.peer.deletes
<1> DEFINE m == XDelete(n)
<1>1. /\ m \in XShape
      /\ m.board = n.board /\ m.server = NoProperty
      /\ m.lib = n.lib /\ m.wire = n.wire /\ m.seen = n.seen
      /\ m.last = n.last
      /\ m.peer = [n.peer EXCEPT !.deletes =
              IF n.server # NoProperty /\ n.peer.sending # << >> THEN @ + 1 ELSE @]
  BY XDeletes
<1> HIDE DEF m
<1>2. /\ m.peer.requests = n.peer.requests /\ m.peer.text = n.peer.text
      /\ m.peer.sending = n.peer.sending
      /\ m.peer.deletes = IF n.server # NoProperty /\ n.peer.sending # << >>
                          THEN n.peer.deletes + 1 ELSE n.peer.deletes
  BY <1>1, XFields DEF XPeer
<1>3. XOwner(m)
  BY <1>1, <1>2 DEF XBase, XOwner
<1>4. XBase(m)
  BY <1>1, <1>2, <1>3 DEF XBase
<1> QED BY <1>1, <1>2, <1>4 DEF m

LEMMA XTellKeeps ==
  ASSUME NEW n \in XShape, XBase(n), NEW m \in XMessage, m.type # "clear"
  PROVE  XBase(Tell(n, m))
<1> DEFINE k == Tell(n, m)
<1>1. /\ k \in XShape
      /\ k.board = n.board /\ k.server = n.server /\ k.lib = n.lib /\ k.peer = n.peer
      /\ k.seen = n.seen /\ k.last = n.last /\ k.wire = Append(n.wire, m)
  BY XTells
<1> HIDE DEF k
<1>2. \A i \in 1 .. Len(k.wire) : k.wire[i].type = "clear" =>
        \E j \in 1 .. Len(n.wire) : n.wire[j].type = "clear"
  <2>1. /\ Len(k.wire) = Len(n.wire) + 1 /\ Len(n.wire) \in Nat
        /\ \A i \in 1 .. Len(n.wire) : k.wire[i] = n.wire[i]
        /\ k.wire[Len(n.wire) + 1] = m
    BY <1>1, XFields, AppendOf
  <2>2. ASSUME NEW i \in 1 .. Len(k.wire), k.wire[i].type = "clear"
        PROVE  i \in 1 .. Len(n.wire)
    <3>1. i # Len(n.wire) + 1
      BY <2>1, <2>2
    <3> QED BY <2>1, <2>2, <3>1
  <2> QED BY <2>1, <2>2
<1>3. XOwner(k)
  BY <1>1, <1>2 DEF XBase, XOwner
<1> QED BY <1>1, <1>3 DEF XBase, k

\* The lists that Clears, Replied and Newed speak of, when a message is added.
LEMMA ClearsGrows ==
  ASSUME NEW w \in Seq(XMessage), Clears(w)
  PROVE  /\ Clears(Append(w, [type |-> "clear"])) /\ Clears(Append(w, [type |-> "other"]))
         /\ Replied(Append(w, [type |-> "notify", found |-> FALSE]), FALSE)
         /\ Newed(Append(w, [type |-> "new"]))
         /\ Replied(Append(Append(w, [type |-> "new"]), [type |-> "notify", found |-> TRUE]), TRUE)
<1> DEFINE F(b) == [type |-> "notify", found |-> b]
<1>0. /\ [type |-> "clear"] \in XMessage /\ [type |-> "other"] \in XMessage /\ [type |-> "new"] \in XMessage
      /\ F(TRUE) \in XMessage /\ F(FALSE) \in XMessage
  BY DEF XMessage
<1>1. Len(w) \in Nat /\ \A i \in 1 .. Len(w) : w[i].type \in Aside
  BY ElementOf DEF Clears
<1>2. ASSUME NEW m \in XMessage
      PROVE  /\ Append(w, m) \in Seq(XMessage) /\ Len(Append(w, m)) = Len(w) + 1
             /\ \A i \in 1 .. Len(w) : Append(w, m)[i] = w[i]
             /\ Append(w, m)[Len(w) + 1] = m
  BY AppendOf
<1> DEFINE v == Append(w, [type |-> "new"])
<1>3. /\ v \in Seq(XMessage) /\ Len(v) = Len(w) + 1
      /\ \A i \in 1 .. Len(w) : v[i] = w[i]
      /\ v[Len(w) + 1] = [type |-> "new"]
  BY <1>0, <1>2
<1>4. Clears(Append(w, [type |-> "clear"])) /\ Clears(Append(w, [type |-> "other"]))
  <2>1. ASSUME NEW m \in XMessage, m.type \in Aside PROVE Clears(Append(w, m))
    BY <1>1, <1>2, <2>1 DEF Clears
  <2> QED BY <1>0, <2>1 DEF Aside
<1>5. Newed(v)
  <2> HIDE DEF v
  <2>1. Len(w) + 1 \in 1 .. Len(v) /\ v[Len(w) + 1].type = "new"
    BY <1>1, <1>3
  <2>2. \A j \in 1 .. Len(v) : j # Len(w) + 1 => v[j].type \in Aside
    BY <1>1, <1>3
  <2> QED BY <2>1, <2>2 DEF Newed
<1>6. Replied(Append(w, F(FALSE)), FALSE)
  <2> DEFINE u == Append(w, F(FALSE))
  <2>1. /\ Len(u) = Len(w) + 1 /\ \A i \in 1 .. Len(w) : u[i] = w[i]
        /\ u[Len(w) + 1] = F(FALSE)
    BY <1>0, <1>2
  <2> HIDE DEF u
  <2>2. Len(w) + 1 \in 1 .. Len(u)
    BY <1>1, <2>1
  <2>3. \A j \in 1 .. Len(u) : j # Len(w) + 1 => u[j].type \in Aside
    BY <1>1, <2>1
  <2>4. Replied(u, FALSE)
    BY <2>1, <2>2, <2>3 DEF Replied
  <2> QED BY <2>4 DEF u
<1>7. Replied(Append(v, F(TRUE)), TRUE)
  <2> DEFINE u == Append(v, F(TRUE))
  <2>1. /\ Len(u) = Len(v) + 1 /\ \A i \in 1 .. Len(v) : u[i] = v[i]
        /\ u[Len(v) + 1] = F(TRUE)
    BY <1>0, <1>3, AppendOf
  <2> HIDE DEF u, v
  <2>2. Len(v) + 1 \in 1 .. Len(u)
    BY <1>1, <1>3, <2>1
  <2>3. \A j \in 1 .. Len(u) : j # Len(v) + 1 =>
          u[j].type \in Aside \/ (j < Len(v) + 1 /\ u[j].type = "new")
    BY <1>1, <1>3, <2>1
  <2>4. Replied(u, TRUE)
    BY <2>1, <2>2, <2>3 DEF Replied
  <2> QED BY <2>4 DEF u
<1> QED BY <1>4, <1>5, <1>6, <1>7

LEMMA NewedGrows ==
  ASSUME NEW w \in Seq(XMessage), Newed(w), NEW m \in XMessage, m.type \in Aside
  PROVE  Newed(Append(w, m))
<1> DEFINE u == Append(w, m)
<1>1. /\ Len(u) = Len(w) + 1 /\ Len(w) \in Nat
      /\ \A i \in 1 .. Len(w) : u[i] = w[i]
      /\ u[Len(w) + 1] = m
  BY AppendOf
<1> HIDE DEF u
<1>2. PICK i \in 1 .. Len(w) : w[i].type = "new" /\ \A j \in 1 .. Len(w) : j # i => w[j].type \in Aside
  BY DEF Newed
<1>3. i \in 1 .. Len(u) /\ u[i].type = "new"
  BY <1>1, <1>2
<1>4. \A j \in 1 .. Len(u) : j # i => u[j].type \in Aside
  BY <1>1, <1>2
<1>5. Newed(u)
  BY <1>3, <1>4 DEF Newed
<1> QED BY <1>5 DEF u

\* And when the first is taken.
LEMMA ClearsShrinks ==
  ASSUME NEW w \in Seq(XMessage), w # << >>
  PROVE  /\ Clears(w) => Head(w).type \in Aside /\ Clears(Tail(w))
         /\ Newed(w) => IF Head(w).type = "new" THEN Clears(Tail(w))
                        ELSE Head(w).type \in Aside /\ Newed(Tail(w))
         /\ \A b \in BOOLEAN : Replied(w, b) =>
              IF Head(w).type = "notify" THEN Head(w).found = b /\ Clears(Tail(w))
              ELSE Replied(Tail(w), b)
<1>1. /\ Tail(w) \in Seq(XMessage) /\ Len(Tail(w)) = Len(w) - 1 /\ Len(w) \in Nat \ {0}
      /\ \A i \in 1 .. Len(w) - 1 : Tail(w)[i] = w[i + 1]
      /\ Head(w) = w[1]
  BY TailOf
<1> DEFINE v == Tail(w)
<1>2. /\ Len(v) = Len(w) - 1 /\ Len(w) \in Nat \ {0}
      /\ \A i \in 1 .. Len(w) - 1 : v[i] = w[i + 1]
  BY <1>1
<1> HIDE DEF v
<1>3. Clears(w) => Head(w).type \in Aside /\ Clears(v)
  BY <1>1, <1>2 DEF Clears
<1>4. ASSUME Newed(w) PROVE IF Head(w).type = "new" THEN Clears(v)
                        ELSE Head(w).type \in Aside /\ Newed(v)
  <2>1. PICK i \in 1 .. Len(w) : w[i].type = "new" /\ \A j \in 1 .. Len(w) : j # i => w[j].type \in Aside
    BY <1>4 DEF Newed
  <2>2. CASE i = 1
    <3>1. Head(w).type = "new" /\ Clears(v)
      BY <2>1, <2>2, <1>1, <1>2 DEF Clears
    <3> QED BY <3>1
  <2>3. CASE i # 1
    <3>1. Head(w).type \in Aside /\ Head(w).type # "new"
      BY <2>1, <2>3, <1>1 DEF Aside
    <3>2. i - 1 \in 1 .. Len(v) /\ v[i - 1].type = "new"
      BY <2>1, <2>3, <1>2
    <3>3. \A j \in 1 .. Len(v) : j # i - 1 => v[j].type \in Aside
      BY <2>1, <2>3, <1>2
    <3>4. Newed(v)
      BY <3>2, <3>3 DEF Newed
    <3> QED BY <3>1, <3>4
  <2> QED BY <2>2, <2>3
<1>5. ASSUME NEW b \in BOOLEAN, Replied(w, b)
      PROVE  IF Head(w).type = "notify" THEN Head(w).found = b /\ Clears(v)
              ELSE Replied(v, b)
  <2>1. PICK i \in 1 .. Len(w) :
          /\ w[i] = [type |-> "notify", found |-> b]
          /\ \A j \in 1 .. Len(w) : j # i => w[j].type \in Aside \/ (b /\ j < i /\ w[j].type = "new")
    BY <1>5 DEF Replied
  <2>2. CASE i = 1
    <3>1. Head(w) = [type |-> "notify", found |-> b] /\ Clears(v)
      BY <2>1, <2>2, <1>1, <1>2 DEF Clears
    <3> QED BY <3>1
  <2>3. CASE i # 1
    <3>1. Head(w).type # "notify"
      BY <2>1, <2>3, <1>1 DEF Aside
    <3>2. i - 1 \in 1 .. Len(v) /\ v[i - 1] = [type |-> "notify", found |-> b]
      BY <2>1, <2>3, <1>2
    <3>3. \A j \in 1 .. Len(v) : j # i - 1 => v[j].type \in Aside \/ (b /\ j < i - 1 /\ v[j].type = "new")
      BY <2>1, <2>3, <1>2
    <3>4. Replied(v, b)
      BY <3>2, <3>3 DEF Replied
    <3> QED BY <3>1, <3>4
  <2> QED BY <2>2, <2>3
<1> QED BY <1>3, <1>4, <1>5 DEF v

LEMMA XConvertKeeps ==
  ASSUME NEW n \in XShape, NEW target \in {1, 2}, XBase(n),
         n.board.owner # "us", n.peer.text \in n.seen,
         n.lib.late \/ (n.peer.requests = 0 /\ n.peer.sending = << >> /\ Clears(n.wire))
  PROVE  /\ XInv(XConvert(n, target)) /\ XConvert(n, target).board = n.board
         /\ XConvert(n, target).seen = n.seen /\ XConvert(n, target).last = n.last
<1> DEFINE d == XDelete(n)
<1> DEFINE m == [d EXCEPT !.lib.pc = "notify", !.lib.target = target]
<1> DEFINE c == XConvert(n, target)
<1>1. /\ d \in XShape /\ d.board = n.board /\ d.server = NoProperty
      /\ d.lib = n.lib /\ d.wire = n.wire /\ d.seen = n.seen /\ d.last = n.last
  BY XDeletes
<1>2. /\ XBase(d) /\ d.peer.requests = n.peer.requests /\ d.peer.text = n.peer.text
      /\ d.peer.sending = n.peer.sending
      /\ d.peer.deletes = IF n.server # NoProperty /\ n.peer.sending # << >>
                          THEN n.peer.deletes + 1 ELSE n.peer.deletes
  BY XDeleteKeeps
<1> HIDE DEF d
<1>3. [d.lib EXCEPT !.pc = "notify", !.target = target] \in XLib
  BY <1>1, XFields DEF XLib
<1>4. /\ m \in XShape /\ m.board = n.board /\ m.server = NoProperty
      /\ m.wire = n.wire /\ m.seen = n.seen /\ m.last = n.last /\ m.peer = d.peer
      /\ m.lib = [d.lib EXCEPT !.pc = "notify", !.target = target]
  BY <1>1, <1>3, XFields DEF XShape
<1>5. m.lib.pc = "notify" /\ m.lib.late = n.lib.late /\ m.lib.slot = n.lib.slot
      /\ m.lib.overtaken = n.lib.overtaken
  <2>1. d.lib = n.lib /\ n.lib \in XLib /\ m.lib = [d.lib EXCEPT !.pc = "notify", !.target = target]
    BY <1>1, <1>4, XFields
  <2> HIDE DEF m
  <2> QED BY <2>1 DEF XLib
<1>6. c = IF n.board.owner = "peer" THEN [m EXCEPT !.peer.requests = @ + 1]
          ELSE Tell(m, [type |-> "notify", found |-> FALSE])
  BY DEF XConvert, d
<1> HIDE DEF m, c
<1>7. XBase(m)
  BY <1>1, <1>2, <1>4, <1>5 DEF XBase, XOwner
<1>8. CASE n.board.owner = "peer"
  <2>1. c = [m EXCEPT !.peer.requests = @ + 1]
    BY <1>6, <1>8
  <2>2. [m.peer EXCEPT !.requests = @ + 1] \in XPeer
    <3>1. m.peer \in XPeer
      BY <1>4, XFields
    <3> QED BY <3>1 DEF XPeer
  <2>3. /\ c \in XShape /\ c.board = n.board /\ c.server = NoProperty /\ c.lib = m.lib
        /\ c.wire = n.wire /\ c.seen = n.seen /\ c.last = n.last
        /\ c.peer = [m.peer EXCEPT !.requests = @ + 1]
    BY <1>4, <2>1, <2>2, XFields DEF XShape
  <2>4. /\ c.peer.requests = n.peer.requests + 1 /\ c.peer.text = n.peer.text
        /\ c.peer.sending = n.peer.sending /\ c.peer.deletes = d.peer.deletes
    BY <1>2, <1>4, <2>3, XFields DEF XPeer
  <2>5. XBase(c)
    BY <1>7, <1>4, <1>2, <2>3, <2>4 DEF XBase, XOwner
  <2>6. ASSUME ~c.lib.late PROVE Answering(c)
    <3>1. n.peer.requests = 0 /\ n.peer.sending = << >> /\ Clears(n.wire)
      BY <2>6, <2>3, <1>5
    <3>2. c.peer.requests = 1 /\ Clears(c.wire) /\ c.server = NoProperty /\ c.peer.sending = << >>
      BY <3>1, <2>3, <2>4
    <3> QED BY <3>2 DEF Answering
  <2>7. XReading(c)
    BY <1>5, <1>8, <2>3, <2>4, <2>6 DEF XReading, XTalk
  <2> QED BY <2>3, <2>5, <2>7 DEF XInv, c
<1>9. CASE n.board.owner = "none"
  <2> DEFINE r == [type |-> "notify", found |-> FALSE]
  <2>0. r \in XMessage /\ r.type # "clear"
    BY DEF XMessage
  <2>1. c = Tell(m, r)
    BY <1>6, <1>9
  <2>2. XBase(c)
    BY <1>4, <1>7, <2>0, <2>1, XTellKeeps
  <2>3. /\ c \in XShape /\ c.board = n.board /\ c.server = NoProperty /\ c.lib = m.lib
        /\ c.wire = Append(n.wire, r) /\ c.seen = n.seen /\ c.last = n.last
        /\ c.peer = m.peer
    BY <1>4, <2>0, <2>1, XTells
  <2>4. n.wire \in Seq(XMessage)
    BY XFields
  <2>5. ASSUME ~c.lib.late PROVE Answering(c)
    <3>1. Clears(n.wire) /\ n.peer.requests = 0 /\ n.peer.sending = << >>
      BY <2>5, <2>3, <1>5
    <3>2. Replied(c.wire, FALSE)
      BY <3>1, <2>3, <2>4, ClearsGrows
    <3> QED BY <3>1, <3>2, <1>2, <1>4, <2>3 DEF Answering
  <2>6. XReading(c)
    BY <1>2, <1>4, <1>5, <1>9, <2>3, <2>5 DEF XReading, XTalk
  <2> QED BY <2>2, <2>3, <2>6 DEF XInv, c
<1> QED BY <1>8, <1>9, XFields

LEMMA XNextKeeps ==
  ASSUME NEW n \in XShape, XBase(n), n.board.owner # "us", n.peer.text \in n.seen,
         n.lib.late \/ (/\ n.peer.requests = 0 /\ n.peer.sending = << >> /\ Clears(n.wire)
                        /\ n.lib.refused)
  PROVE  XInv(XNextTarget(n)) /\ Looks(n, XNextTarget(n))
<1>1. CASE n.lib.target = 1
  <2>1. XNextTarget(n) = XConvert(n, 2)
    BY <1>1 DEF XNextTarget
  <2>2. /\ XInv(XConvert(n, 2)) /\ XConvert(n, 2).board = n.board
        /\ XConvert(n, 2).seen = n.seen /\ XConvert(n, 2).last = n.last
    BY XConvertKeeps
  <2> QED BY <2>1, <2>2 DEF Looks
<1>2. CASE n.lib.target # 1
  <2> DEFINE e == n.lib.refused \/ n.lib.overtaken
  <2>1. XNextTarget(n) = Ends(n, << >>, e)
    BY <1>2 DEF XNextTarget
  <2>2. e \in BOOLEAN /\ << >> \in Seq(Part)
    BY XFields
  <2>3. e \/ n.lib.late
    OBVIOUS
  <2> HIDE DEF e
  <2>4. /\ XInv(Ends(n, << >>, e)) /\ Ends(n, << >>, e).board = n.board
        /\ Ends(n, << >>, e).seen = n.seen /\ Ended(Ends(n, << >>, e))
    BY <2>2, <2>3, XEndsKeeps
  <2> QED BY <2>1, <2>4 DEF Looks
<1> QED BY <1>1, <1>2

LEMMA XLibKeeps ==
  ASSUME NEW n \in XShape, XBase(n), NEW l \in XLib, l.slot = n.lib.slot, l.overtaken = n.lib.overtaken
  PROVE  /\ [n EXCEPT !.lib = l] \in XShape /\ XBase([n EXCEPT !.lib = l])
         /\ [n EXCEPT !.lib = l].lib = l /\ [n EXCEPT !.lib = l].board = n.board
         /\ [n EXCEPT !.lib = l].server = n.server /\ [n EXCEPT !.lib = l].peer = n.peer
         /\ [n EXCEPT !.lib = l].wire = n.wire /\ [n EXCEPT !.lib = l].seen = n.seen
         /\ [n EXCEPT !.lib = l].last = n.last
<1> DEFINE m == [n EXCEPT !.lib = l]
<1>1. /\ m \in XShape /\ m.lib = l /\ m.board = n.board /\ m.server = n.server /\ m.peer = n.peer
      /\ m.wire = n.wire /\ m.seen = n.seen /\ m.last = n.last
  BY XFields DEF XShape
<1> HIDE DEF m
<1>2. XBase(m)
  BY <1>1 DEF XBase, XOwner
<1> QED BY <1>1, <1>2 DEF m

\* The changes of a read to what libnack keeps.
LEMMA XLibSteps ==
  ASSUME NEW l \in XLib
  PROVE  /\ [l EXCEPT !.refused = TRUE] \in XLib /\ [l EXCEPT !.refused = TRUE].slot = l.slot
         /\ [l EXCEPT !.refused = TRUE].overtaken = l.overtaken
         /\ [l EXCEPT !.refused = TRUE].late = l.late /\ [l EXCEPT !.refused = TRUE].refused = TRUE
         /\ [l EXCEPT !.late = TRUE] \in XLib /\ [l EXCEPT !.late = TRUE].slot = l.slot
         /\ [l EXCEPT !.late = TRUE].overtaken = l.overtaken
         /\ [l EXCEPT !.late = TRUE].late = TRUE
<1> HIDE DEF Part
<1> QED BY DEF XLib

LEMMA XLibBuffers ==
  ASSUME NEW l \in XLib, NEW b \in Seq(Part), NEW k, k = [l EXCEPT !.buffer = b]
  PROVE  k \in XLib /\ k.slot = l.slot /\ k.overtaken = l.overtaken
         /\ k.late = l.late /\ k.pc = l.pc /\ k.buffer = b
<1> HIDE DEF Part
<1> QED BY DEF XLib

\* A read that goes on in pieces.
Chunked(l, b) == [l EXCEPT !.pc = "chunk", !.buffer = b]

LEMMA XLibChunks ==
  ASSUME NEW l \in XLib, NEW b \in Seq(Part)
  PROVE  /\ Chunked(l, b) \in XLib /\ Chunked(l, b).slot = l.slot
         /\ Chunked(l, b).overtaken = l.overtaken /\ Chunked(l, b).late = l.late
         /\ Chunked(l, b).pc = "chunk" /\ Chunked(l, b).buffer = b
<1> HIDE DEF Part
<1> QED BY DEF XLib, Chunked

LEMMA XTaken ==
  ASSUME NEW n \in XShape, XBase(n), n.wire # << >>
  PROVE  /\ [n EXCEPT !.wire = Tail(@)] \in XShape /\ XBase([n EXCEPT !.wire = Tail(@)])
         /\ [n EXCEPT !.wire = Tail(@)].lib = n.lib /\ [n EXCEPT !.wire = Tail(@)].board = n.board
         /\ [n EXCEPT !.wire = Tail(@)].server = n.server /\ [n EXCEPT !.wire = Tail(@)].peer = n.peer
         /\ [n EXCEPT !.wire = Tail(@)].wire = Tail(n.wire) /\ [n EXCEPT !.wire = Tail(@)].seen = n.seen
         /\ [n EXCEPT !.wire = Tail(@)].last = n.last
<1> DEFINE m == [n EXCEPT !.wire = Tail(@)]
<1>0. /\ Tail(n.wire) \in Seq(XMessage) /\ Len(Tail(n.wire)) = Len(n.wire) - 1 /\ Len(n.wire) \in Nat \ {0}
      /\ \A i \in 1 .. Len(n.wire) - 1 : Tail(n.wire)[i] = n.wire[i + 1]
  BY XFields, TailOf
<1>1. /\ m \in XShape /\ m.lib = n.lib /\ m.board = n.board /\ m.server = n.server /\ m.peer = n.peer
      /\ m.wire = Tail(n.wire) /\ m.seen = n.seen /\ m.last = n.last
  BY <1>0, XFields DEF XShape
<1> HIDE DEF m
<1>2. (\E i \in 1 .. Len(m.wire) : m.wire[i].type = "clear")
        => \E i \in 1 .. Len(n.wire) : n.wire[i].type = "clear"
  BY <1>0, <1>1
<1>3. XOwner(m)
  BY <1>1, <1>2 DEF XBase, XOwner
<1>4. XBase(m)
  BY <1>1, <1>3 DEF XBase
<1> QED BY <1>1, <1>4 DEF m

\* What a notification finds.
LEMMA NotifiedOf ==
  ASSUME NEW n \in XShape, n.wire # << >>, Head(n.wire).type = "notify", Answering(n)
  PROVE  /\ Clears(Tail(n.wire)) /\ n.peer.requests = 0
         /\ \/ ~Head(n.wire).found /\ n.peer.sending = << >>
            \/ /\ Head(n.wire).found /\ n.peer.sending = << >>
               /\ \E t \in Text \cap n.seen : n.server = InProperty("text", Whole(t))
            \/ /\ Head(n.wire).found /\ n.peer.deletes = 0 /\ n.server = InProperty("incr", << >>)
               /\ \E t \in Text \cap n.seen : n.peer.sending = Promised(t)
<1>1. /\ Clears(n.wire) => Head(n.wire).type \in Aside
      /\ \A b \in BOOLEAN : Replied(n.wire, b) => Head(n.wire).found = b /\ Clears(Tail(n.wire))
  BY XFields, ClearsShrinks
<1> QED BY <1>1 DEF Answering, Aside

LEMMA TextProperty ==
  ASSUME NEW t \in Text
  PROVE  /\ InProperty("text", Whole(t)).data = Whole(t) /\ InProperty("text", Whole(t)).type = "text"
         /\ InProperty("text", Whole(t)) # NoProperty /\ Whole(t) # << >>
         /\ InProperty("incr", << >>).data = << >> /\ InProperty("incr", << >>).type = "incr"
         /\ InProperty("incr", << >>) # NoProperty /\ Promised(t) # << >>
         /\ Promised(t) = Sent(t, 1) /\ Upto(t, 1) = << >>
         /\ NoProperty.data = << >> /\ NoProperty.type = "none"
         /\ InProperty("text", << >>) # NoProperty /\ InProperty("text", << >>).data = << >>
<1>1. Whole(t) # << >>
  BY DEF Whole
<1>2. InProperty("text", Whole(t)) # NoProperty /\ InProperty("incr", << >>) # NoProperty
      /\ InProperty("text", << >>) # NoProperty
  BY DEF InProperty, NoProperty
<1>3. Promised(t) # << >> /\ Promised(t) = Sent(t, 1) /\ Upto(t, 1) = << >>
  BY DEF Promised, Sent, Upto
<1> QED BY <1>1, <1>2, <1>3 DEF InProperty, NoProperty

LEMMA XNotifiedKeeps ==
  ASSUME NEW n0 \in XShape, XInv(n0), n0.lib.pc = "notify", n0.wire # << >>,
         Head(n0.wire).type = "notify"
  PROVE  /\ XInv(XNotified([n0 EXCEPT !.wire = Tail(@)], Head(n0.wire)))
         /\ Looks(n0, XNotified([n0 EXCEPT !.wire = Tail(@)], Head(n0.wire)))
<1> DEFINE n == [n0 EXCEPT !.wire = Tail(@)]
<1> DEFINE h == Head(n0.wire)
<1> DEFINE c == XNotified(n, h)
<1>0. XBase(n0) /\ n0.board.owner # "us" /\ n0.peer.text \in n0.seen
      /\ (n0.lib.late \/ Answering(n0))
  BY DEF XInv, XReading, XTalk
<1>1. /\ n \in XShape /\ XBase(n) /\ n.lib = n0.lib /\ n.board = n0.board /\ n.server = n0.server
      /\ n.peer = n0.peer /\ n.wire = Tail(n0.wire) /\ n.seen = n0.seen /\ n.last = n0.last
  BY <1>0, XTaken
<1>2. n.lib.late \/ (/\ Clears(n.wire) /\ n.peer.requests = 0
         /\ \/ ~h.found /\ n.peer.sending = << >>
            \/ /\ h.found /\ n.peer.sending = << >>
               /\ \E t \in Text \cap n.seen : n.server = InProperty("text", Whole(t))
            \/ /\ h.found /\ n.peer.deletes = 0 /\ n.server = InProperty("incr", << >>)
               /\ \E t \in Text \cap n.seen : n.peer.sending = Promised(t))
  BY <1>0, <1>1, NotifiedOf
<1>3. h \in XMessage /\ h.found \in BOOLEAN
  <2>1. h \in XMessage /\ h.type = "notify"
    BY XFields, TailOf
  <2> QED BY <2>1 DEF XMessage
<1>4. c = IF ~h.found THEN XNextTarget([n EXCEPT !.lib.refused = TRUE])
          ELSE IF n.server.type = "incr"
          THEN [XDelete(n) EXCEPT !.lib.pc = "chunk", !.lib.buffer = << >>]
          ELSE IF n.server.data # << >> THEN Ends(XDelete(n), n.server.data, FALSE)
          ELSE XNextTarget(XDelete(n))
  BY DEF XNotified
<1> HIDE DEF n, h, c
<1>5. n.board.owner # "us" /\ n.peer.text \in n.seen
  BY <1>0, <1>1
<1>6. SUFFICES XInv(c) /\ Looks(n, c)
  BY <1>1 DEF Looks, n, h, c
<1>7. CASE ~h.found
  <2> DEFINE l == [n.lib EXCEPT !.refused = TRUE]
  <2> DEFINE r == [n EXCEPT !.lib = l]
  <2>1. l \in XLib /\ l.slot = n.lib.slot /\ l.overtaken = n.lib.overtaken
        /\ l.late = n.lib.late /\ l.refused = TRUE
    <3>1. n.lib \in XLib /\ << >> \in Seq(Part)
      BY <1>1, XFields
    <3> QED BY <3>1, XLibSteps
  <2>2. c = XNextTarget(r)
    <3>1. r = [n EXCEPT !.lib.refused = TRUE]
      BY <1>1 DEF XShape
    <3> QED BY <3>1, <1>4, <1>7
  <2> HIDE DEF l
  <2>3. /\ r \in XShape /\ XBase(r) /\ r.lib = l /\ r.board = n.board /\ r.peer = n.peer
        /\ r.wire = n.wire /\ r.seen = n.seen /\ r.last = n.last
    BY <1>1, <2>1, XLibKeeps
  <2> HIDE DEF r
  <2>4. r.lib.late \/ (/\ r.peer.requests = 0 /\ r.peer.sending = << >> /\ Clears(r.wire)
                       /\ r.lib.refused)
    BY <1>2, <1>7, <2>1, <2>3
  <2>5. XInv(XNextTarget(r)) /\ Looks(r, XNextTarget(r))
    BY <1>5, <2>3, <2>4, XNextKeeps
  <2> QED BY <2>2, <2>3, <2>5 DEF Looks
<1> DEFINE d == XDelete(n)
<1>8. /\ d \in XShape /\ d.board = n.board /\ d.server = NoProperty
      /\ d.lib = n.lib /\ d.wire = n.wire /\ d.seen = n.seen /\ d.last = n.last
  BY <1>1, XDeletes
<1>9. /\ XBase(d) /\ d.peer.requests = n.peer.requests /\ d.peer.text = n.peer.text
      /\ d.peer.sending = n.peer.sending
      /\ d.peer.deletes = IF n.server # NoProperty /\ n.peer.sending # << >>
                          THEN n.peer.deletes + 1 ELSE n.peer.deletes
  BY <1>1, XDeleteKeeps
<1>10. CASE h.found /\ n.server.type = "incr"
  <2> DEFINE l == [d.lib EXCEPT !.pc = "chunk", !.buffer = << >>]
  <2> DEFINE r == [d EXCEPT !.lib = l]
  <2>1. l \in XLib /\ l.slot = d.lib.slot /\ l.overtaken = d.lib.overtaken
        /\ l.late = d.lib.late /\ l.pc = "chunk" /\ l.buffer = << >>
    <3>1. d.lib \in XLib /\ << >> \in Seq(Part)
      BY <1>8, XFields
    <3> HIDE DEF d
    <3>2. PICK y \in Seq(Part) : y = << >>
      BY <3>1
    <3>3. l = Chunked(d.lib, y)
      BY ONLY <3>2 DEF Chunked
    <3> HIDE DEF l
    <3>4. l \in XLib /\ l.slot = d.lib.slot /\ l.overtaken = d.lib.overtaken
          /\ l.late = d.lib.late /\ l.pc = "chunk" /\ l.buffer = y
      BY ONLY <3>1, <3>2, <3>3, XLibChunks
    <3> QED BY ONLY <3>2, <3>4
  <2>2. c = r
    <3>1. c = [d EXCEPT !.lib.pc = "chunk", !.lib.buffer = << >>]
      BY <1>4, <1>10
    <3> HIDE DEF d
    <3> QED BY <3>1, <1>8 DEF XShape
  <2> HIDE DEF l
  <2>3. /\ r \in XShape /\ XBase(r) /\ r.lib = l /\ r.board = d.board /\ r.server = d.server
        /\ r.peer = d.peer /\ r.wire = d.wire /\ r.seen = d.seen /\ r.last = d.last
    BY <1>8, <1>9, <2>1, XLibKeeps
  <2> HIDE DEF r, d
  <2>4. ASSUME ~r.lib.late
        PROVE  r.peer.requests = 0 /\ \E t \in Text \cap r.seen : Receiving(r, t)
    <3>1. PICK t \in Text \cap n.seen : n.server = InProperty("incr", << >>) /\ n.peer.deletes = 0
             /\ n.peer.sending = Promised(t) /\ Clears(n.wire) /\ n.peer.requests = 0
      <4>1. \A t \in Text : n.server # InProperty("text", Whole(t))
        BY <1>10, TextProperty
      <4> QED BY <1>2, <1>8, <1>10, <2>1, <2>3, <2>4, <4>1
    <3>2. r.peer.deletes = 1 /\ r.peer.sending = Sent(t, 1) /\ r.lib.buffer = Upto(t, 1)
      BY <3>1, <1>9, <2>1, <2>3, TextProperty
    <3>3. Receiving(r, t)
      BY <3>1, <3>2, <1>8, <2>3 DEF Receiving
    <3> QED BY <3>1, <3>3, <1>8, <1>9, <2>3
  <2>5. XReading(r)
    BY <1>5, <1>8, <1>9, <2>1, <2>3, <2>4 DEF XReading, XTalk
  <2> QED BY <2>2, <2>3, <2>5, <1>8 DEF XInv, Looks
<1>11. CASE h.found /\ n.server.type # "incr" /\ n.server.data # << >>
  <2>1. c = Ends(d, n.server.data, FALSE)
    BY <1>4, <1>11
  <2>2. n.server.data \in Seq(Part)
    BY <1>1, XFields
  <2>3. d.lib.late \/ (\E t \in Text \cap d.seen : n.server.data = Whole(t))
    <3>1. n.lib.late \/ \E t \in Text \cap n.seen : n.server = InProperty("text", Whole(t))
      BY <1>2, <1>11, TextProperty
    <3> QED BY <3>1, <1>8, TextProperty
  <2> HIDE DEF d
  <2>4. /\ XInv(Ends(d, n.server.data, FALSE)) /\ Ends(d, n.server.data, FALSE).board = d.board
        /\ Ends(d, n.server.data, FALSE).seen = d.seen /\ Ended(Ends(d, n.server.data, FALSE))
    BY <1>8, <1>9, <1>11, <2>2, <2>3, XEndsKeeps
  <2> QED BY <2>1, <2>4, <1>8 DEF Looks
<1>12. CASE h.found /\ n.server.type # "incr" /\ n.server.data = << >>
  <2>1. c = XNextTarget(d)
    BY <1>4, <1>12
  <2>2. d.lib.late
    BY <1>2, <1>8, <1>12, TextProperty
  <2> HIDE DEF d
  <2>3. XInv(XNextTarget(d)) /\ Looks(d, XNextTarget(d))
    BY <1>5, <1>8, <1>9, <2>2, XNextKeeps
  <2> QED BY <2>1, <2>3, <1>8 DEF Looks
<1> QED BY <1>3, <1>7, <1>10, <1>11, <1>12

LEMMA PiecesAdd ==
  ASSUME NEW t \in Text, NEW k \in 1 .. 2
  PROVE  /\ Upto(t, k) \o <<Piece(t, k)>> = Upto(t, k + 1) /\ Upto(t, k) \in Seq(Part)
         /\ <<Piece(t, k)>> # << >> /\ Upto(t, 3) = Whole(t)
         /\ InProperty("text", <<Piece(t, k)>>).data = <<Piece(t, k)>>
         /\ InProperty("text", <<Piece(t, k)>>) # NoProperty
         /\ Sent(t, k + 1) # << >> /\ Sent(t, k) # << >>
<1>1. Piece(t, 1) \in Part /\ Piece(t, 2) \in Part
  BY DEF Piece, Part
<1>2. /\ Upto(t, 1) = << >> /\ Upto(t, 2) = <<Piece(t, 1)>>
      /\ Upto(t, 3) = <<Piece(t, 1), Piece(t, 2)>>
  BY DEF Upto, Whole
<1>3. ASSUME NEW a \in Part PROVE << >> \o <<a>> = <<a>>
  BY ConcatEmptySeq
<1>4. ASSUME NEW a \in Part, NEW b \in Part PROVE <<a>> \o <<b>> = <<a, b>>
  <2> HIDE DEF Part
  <2> DEFINE x == <<a>> \o <<b>>
  <2>1. <<a>> \in Seq(Part) /\ <<b>> \in Seq(Part) /\ <<a, b>> \in Seq(Part)
        /\ Len(<<a>>) = 1 /\ Len(<<b>>) = 1 /\ Len(<<a, b>>) = 2
        /\ <<a>>[1] = a /\ <<b>>[1] = b /\ <<a, b>>[1] = a /\ <<a, b>>[2] = b
    OBVIOUS
  <2>2. x \in Seq(Part) /\ Len(x) = 2
        /\ \A i \in 1 .. 2 : x[i] = IF i <= 1 THEN <<a>>[i] ELSE <<b>>[i - 1]
    <3> HIDE DEF x
    <3> QED BY <2>1, ConcatProperties DEF x
  <2>3. x[1] = a /\ x[2] = b
    <3> HIDE DEF x
    <3> QED BY <2>1, <2>2
  <2> HIDE DEF x
  <2>4. \A i \in 1 .. Len(x) : x[i] = <<a, b>>[i]
    BY <2>1, <2>2, <2>3
  <2>5. x = <<a, b>>
    BY <2>1, <2>2, <2>4, SeqEqual
  <2> QED BY <2>5 DEF x
<1>5. Upto(t, k) \o <<Piece(t, k)>> = Upto(t, k + 1)
  <2> DEFINE a == Piece(t, 1)
             b == Piece(t, 2)
  <2>1. << >> \o <<a>> = <<a>> /\ <<a>> \o <<b>> = <<a, b>>
    BY <1>1, <1>3, <1>4, Zenon
  <2>2. CASE k = 1
    <3>1. Upto(t, 1) \o <<Piece(t, 1)>> = Upto(t, 2)
      BY <2>1, <1>2, Zenon
    <3>2. k = 1 /\ k + 1 = 2
      BY <2>2
    <3> QED BY <3>1, <3>2, Zenon
  <2>3. CASE k = 2
    <3>1. Upto(t, 2) \o <<Piece(t, 2)>> = Upto(t, 3)
      BY <2>1, <1>2, Zenon
    <3>2. k = 2 /\ k + 1 = 3
      BY <2>3
    <3> QED BY <3>1, <3>2, Zenon
  <2> QED BY <2>2, <2>3
<1>6. Upto(t, k) \in Seq(Part) /\ Upto(t, 3) = Whole(t)
  <2> HIDE DEF Part
  <2>1. Upto(t, 3) = Whole(t)
    BY DEF Upto
  <2>2. k = 1 \/ k = 2
    OBVIOUS
  <2>3. << >> \in Seq(Part) /\ <<Piece(t, 1)>> \in Seq(Part)
    <3> DEFINE a == Piece(t, 1)
    <3>1. a \in Part
      BY <1>1
    <3> HIDE DEF a
    <3>2. << >> \in Seq(Part) /\ <<a>> \in Seq(Part)
      BY <3>1
    <3> QED BY <3>2 DEF a
  <2>4. Upto(t, 1) \in Seq(Part) /\ Upto(t, 2) \in Seq(Part)
    BY <1>2, <2>3, Zenon
  <2> QED BY <2>1, <2>2, <2>4
<1>7. InProperty("text", <<Piece(t, k)>>) # NoProperty
      /\ InProperty("text", <<Piece(t, k)>>).data = <<Piece(t, k)>>
  BY DEF InProperty, NoProperty
<1>8. Sent(t, k + 1) # << >> /\ Sent(t, k) # << >>
  BY DEF Sent
<1> QED BY <1>5, <1>6, <1>7, <1>8

\* What an event of the property finds.
LEMMA ReceivedOf ==
  ASSUME NEW n \in XShape, NEW t \in Text, n.wire # << >>, Head(n.wire).type = "new", Receiving(n, t)
  PROVE  /\ Clears(Tail(n.wire))
         /\ \/ /\ n.peer.deletes = 0
               /\ \E k \in 1 .. 2 : /\ n.peer.sending = Sent(t, k + 1) /\ n.lib.buffer = Upto(t, k)
                                    /\ n.server = InProperty("text", <<Piece(t, k)>>)
            \/ /\ n.peer.sending = << >>
               /\ n.lib.buffer = Whole(t) /\ n.server = InProperty("text", << >>)
<1>1. /\ Clears(n.wire) => Head(n.wire).type \in Aside
      /\ Newed(n.wire) => Clears(Tail(n.wire))
  BY XFields, ClearsShrinks
<1> QED BY <1>1 DEF Receiving, Aside

LEMMA XChunkKeeps ==
  ASSUME NEW n0 \in XShape, XInv(n0), n0.lib.pc = "chunk", n0.wire # << >>,
         Head(n0.wire).type = "new"
  PROVE  /\ XInv(XChunk([n0 EXCEPT !.wire = Tail(@)]))
         /\ Looks(n0, XChunk([n0 EXCEPT !.wire = Tail(@)]))
<1> DEFINE n == [n0 EXCEPT !.wire = Tail(@)]
<1> DEFINE c == XChunk(n)
<1>0. XBase(n0) /\ n0.board.owner # "us" /\ n0.peer.text \in n0.seen
      /\ (n0.lib.late \/ (n0.peer.requests = 0 /\ \E t \in Text \cap n0.seen : Receiving(n0, t)))
  BY DEF XInv, XReading, XTalk
<1>1. /\ n \in XShape /\ XBase(n) /\ n.lib = n0.lib /\ n.board = n0.board /\ n.server = n0.server
      /\ n.peer = n0.peer /\ n.wire = Tail(n0.wire) /\ n.seen = n0.seen /\ n.last = n0.last
  BY <1>0, XTaken
<1>2. n.lib.late \/ (/\ Clears(n.wire) /\ n.peer.requests = 0
                     /\ \E t \in Text \cap n.seen :
                          \/ /\ n.peer.deletes = 0
                             /\ \E k \in 1 .. 2 :
                                  /\ n.peer.sending = Sent(t, k + 1) /\ n.lib.buffer = Upto(t, k)
                                  /\ n.server = InProperty("text", <<Piece(t, k)>>)
                          \/ /\ n.peer.sending = << >>
                             /\ n.lib.buffer = Whole(t) /\ n.server = InProperty("text", << >>))
  <2>1. CASE n0.lib.late
    BY <2>1, <1>1
  <2>2. CASE ~n0.lib.late
    <3>1. PICK t \in Text \cap n0.seen : Receiving(n0, t)
      BY <1>0, <2>2
    <3>2. /\ Clears(Tail(n0.wire))
          /\ \/ /\ n0.peer.deletes = 0
                /\ \E k \in 1 .. 2 : /\ n0.peer.sending = Sent(t, k + 1) /\ n0.lib.buffer = Upto(t, k)
                                     /\ n0.server = InProperty("text", <<Piece(t, k)>>)
             \/ /\ n0.peer.sending = << >>
                /\ n0.lib.buffer = Whole(t) /\ n0.server = InProperty("text", << >>)
      BY <3>1, ReceivedOf
    <3>3. n0.peer.requests = 0
      BY <1>0, <2>2
    <3> HIDE DEF n
    <3> QED BY <3>2, <3>3, <1>1
  <2> QED BY <2>1, <2>2
<1> DEFINE d == XDelete(n)
<1>4. c = IF n.server.data = << >> THEN Ends(d, n.lib.buffer, FALSE)
          ELSE [d EXCEPT !.lib.buffer = @ \o n.server.data]
  BY DEF XChunk
<1> HIDE DEF n, c
<1>5. n.board.owner # "us" /\ n.peer.text \in n.seen
  BY <1>0, <1>1
<1>6. SUFFICES XInv(c) /\ Looks(n, c)
  BY <1>1 DEF Looks, n, c
<1>8. /\ d \in XShape /\ d.board = n.board /\ d.server = NoProperty
      /\ d.lib = n.lib /\ d.wire = n.wire /\ d.seen = n.seen /\ d.last = n.last
  BY <1>1, XDeletes
<1>9. /\ XBase(d) /\ d.peer.requests = n.peer.requests /\ d.peer.text = n.peer.text
      /\ d.peer.sending = n.peer.sending
      /\ d.peer.deletes = IF n.server # NoProperty /\ n.peer.sending # << >>
                          THEN n.peer.deletes + 1 ELSE n.peer.deletes
  BY <1>1, XDeleteKeeps
<1> HIDE DEF d
<1>10. n.server.data \in Seq(Part) /\ n.lib.buffer \in Seq(Part) /\ d.lib \in XLib
  BY <1>1, <1>8, XFields
<1>11. CASE n.server.data = << >>
  <2>1. c = Ends(d, n.lib.buffer, FALSE)
    BY <1>4, <1>11
  <2>2. d.lib.late \/ (\E t \in Text \cap d.seen : n.lib.buffer = Whole(t))
    <3>1. \A t \in Text, k \in 1 .. 2 : n.server # InProperty("text", <<Piece(t, k)>>)
      BY <1>11, PiecesAdd
    <3> QED BY <3>1, <1>2, <1>8
  <2>3. d.lib.late \/ n.lib.buffer # << >>
    BY <2>2, TextProperty
  <2>4. /\ XInv(Ends(d, n.lib.buffer, FALSE)) /\ Ends(d, n.lib.buffer, FALSE).board = d.board
        /\ Ends(d, n.lib.buffer, FALSE).seen = d.seen /\ Ended(Ends(d, n.lib.buffer, FALSE))
    BY <1>8, <1>9, <1>10, <2>2, <2>3, XEndsKeeps
  <2>5. XInv(c) /\ c.board = d.board /\ c.seen = d.seen /\ Ended(c)
    BY ONLY <2>1, <2>4
  <2>6. d.board = n.board /\ d.seen = n.seen
    BY ONLY <1>8
  <2> QED BY ONLY <2>5, <2>6 DEF Looks
<1>12. CASE n.server.data # << >>
  <2> DEFINE b == d.lib.buffer \o n.server.data
  <2> DEFINE l == [d.lib EXCEPT !.buffer = b]
  <2> DEFINE r == [d EXCEPT !.lib = l]
  <2>0. b \in Seq(Part)
    <3> HIDE DEF Part
    <3>1. d.lib.buffer \in Seq(Part)
      BY <1>8, <1>10
    <3> QED BY <3>1, <1>10, ConcatProperties
  <2> HIDE DEF b
  <2>1. l \in XLib /\ l.slot = d.lib.slot /\ l.overtaken = d.lib.overtaken
        /\ l.late = d.lib.late /\ l.pc = d.lib.pc /\ l.buffer = b
    <3>1. l = [d.lib EXCEPT !.buffer = b]
      OBVIOUS
    <3> HIDE DEF l
    <3> QED BY ONLY <1>10, <2>0, <3>1, XLibBuffers
  <2>2. c = r
    <3>1. c = [d EXCEPT !.lib.buffer = @ \o n.server.data]
      BY <1>4, <1>12
    <3> QED BY <3>1, <1>8 DEF XShape, b
  <2> HIDE DEF l
  <2>3. /\ r \in XShape /\ XBase(r) /\ r.lib = l /\ r.board = d.board /\ r.server = d.server
        /\ r.peer = d.peer /\ r.wire = d.wire /\ r.seen = d.seen /\ r.last = d.last
    BY <1>8, <1>9, <2>1, XLibKeeps
  <2> HIDE DEF r
  <2>4. ASSUME ~r.lib.late
        PROVE  r.peer.requests = 0 /\ \E t \in Text \cap r.seen : Receiving(r, t)
    <3>1. PICK t \in Text \cap n.seen, k \in 1 .. 2 :
             /\ Clears(n.wire) /\ n.peer.requests = 0 /\ n.peer.deletes = 0
             /\ n.peer.sending = Sent(t, k + 1) /\ n.lib.buffer = Upto(t, k)
             /\ n.server = InProperty("text", <<Piece(t, k)>>)
      <4>1. n.server # InProperty("text", << >>)
        BY <1>12 DEF InProperty
      <4>2. ~n.lib.late
        BY <2>4, <1>8, <2>1, <2>3
      <4> QED BY <1>2, <4>1, <4>2
    <3>2. /\ Upto(t, k) \o <<Piece(t, k)>> = Upto(t, k + 1)
          /\ n.server # NoProperty /\ n.server.data = <<Piece(t, k)>> /\ Sent(t, k + 1) # << >>
      BY <3>1, PiecesAdd
    <3>3. r.peer.deletes = 1 /\ r.peer.sending = Sent(t, k + 1) /\ r.server = NoProperty
          /\ Clears(r.wire)
      BY <3>1, <3>2, <1>8, <1>9, <2>3
    <3>4. r.lib.buffer = Upto(t, k + 1) /\ k + 1 \in 1 .. 3
      <4>1. r.lib.buffer = b /\ d.lib.buffer = Upto(t, k)
        BY <3>1, <1>8, <2>1, <2>3
      <4>2. b = Upto(t, k) \o <<Piece(t, k)>>
        BY <3>2, <4>1, Zenon DEF b
      <4> QED BY <3>2, <4>1, <4>2
    <3>5. Receiving(r, t)
      BY <3>3, <3>4 DEF Receiving
    <3> QED BY <3>1, <3>5, <1>8, <1>9, <2>3
  <2>5. XReading(r)
    <3>1. r.lib.pc = "chunk"
      BY <1>1, <1>8, <2>1, <2>3
    <3> QED BY <3>1, <1>5, <1>8, <1>9, <2>3, <2>4 DEF XReading, XTalk
  <2> QED BY <2>2, <2>3, <2>5, <1>8 DEF XInv, Looks
<1> QED BY <1>11, <1>12

LEMMA XDispatchKeeps ==
  ASSUME NEW n0 \in XShape, XInv(n0), n0.wire # << >>,
         Head(n0.wire).type # Wanted[n0.lib.pc]
  PROVE  /\ XInv(XDispatch([n0 EXCEPT !.wire = Tail(@)], Head(n0.wire)))
         /\ Looks(n0, XDispatch([n0 EXCEPT !.wire = Tail(@)], Head(n0.wire)))
<1> DEFINE n == [n0 EXCEPT !.wire = Tail(@)]
<1> DEFINE h == Head(n0.wire)
<1> DEFINE c == XDispatch(n, h)
<1>0. XBase(n0)
  BY DEF XInv
<1>1. /\ n \in XShape /\ XBase(n) /\ n.lib = n0.lib /\ n.board = n0.board /\ n.server = n0.server
      /\ n.peer = n0.peer /\ n.wire = Tail(n0.wire) /\ n.seen = n0.seen /\ n.last = n0.last
  BY <1>0, XTaken
<1>2. /\ Clears(n0.wire) => h.type \in Aside /\ Clears(n.wire)
      /\ Newed(n0.wire) => IF h.type = "new" THEN Clears(n.wire)
                           ELSE h.type \in Aside /\ Newed(n.wire)
      /\ \A b \in BOOLEAN : Replied(n0.wire, b) =>
           IF h.type = "notify" THEN h.found = b /\ Clears(n.wire)
           ELSE Replied(n.wire, b)
  BY <1>1, XFields, ClearsShrinks
<1>3. c = IF h.type = "clear" THEN [n EXCEPT !.lib.slot = Nothing] ELSE n
  BY DEF XDispatch
<1>4. h.type = "clear" => \E i \in 1 .. Len(n0.wire) : n0.wire[i].type = "clear"
  <2>1. Len(n0.wire) \in Nat \ {0} /\ h = n0.wire[1]
    BY XFields, TailOf
  <2> QED BY <2>1
<1>5. n0.lib.pc \in {"idle", "notify", "chunk"} /\ Wanted["notify"] = "notify" /\ Wanted["chunk"] = "new"
  BY XFields DEF Wanted
<1> HIDE DEF n, h, c
\* What is under way for the read stays under way.
<1>6. ASSUME n.lib.pc # "idle", ~n.lib.late PROVE XTalk(n)
  <2>0. XTalk(n0)
    BY <1>1, <1>6 DEF XInv, XReading
  <2>1. CASE n.lib.pc = "notify"
    <3>1. Answering(n0) /\ h.type # "notify"
      BY <1>1, <1>5, <2>0, <2>1 DEF XTalk, h
    <3>2. /\ Clears(n0.wire) => Clears(n.wire)
          /\ \A b \in BOOLEAN : Replied(n0.wire, b) => Replied(n.wire, b)
      BY <1>2, <3>1
    <3>3. Answering(n)
      BY <1>1, <3>1, <3>2 DEF Answering
    <3> QED BY <2>1, <3>3 DEF XTalk
  <2>2. CASE n.lib.pc = "chunk"
    <3>1. n0.peer.requests = 0 /\ h.type # "new"
      BY <1>1, <1>5, <2>0, <2>2 DEF XTalk, h
    <3>2. PICK t \in Text \cap n0.seen : Receiving(n0, t)
      BY <1>1, <2>0, <2>2 DEF XTalk
    <3>3. /\ Clears(n0.wire) => Clears(n.wire)
          /\ Newed(n0.wire) => Newed(n.wire)
      BY <1>2, <3>1
    <3>4. Receiving(n, t)
      BY <1>1, <3>2, <3>3 DEF Receiving
    <3> QED BY <1>1, <2>2, <3>1, <3>2, <3>4 DEF XTalk
  <2> QED BY <1>1, <1>5, <1>6, <2>1, <2>2
<1>7. XReading(n)
  BY <1>1, <1>6 DEF XReading, XInv
<1>8. SUFFICES XInv(c) /\ Looks(n, c)
  BY <1>1 DEF Looks, n, h, c
<1>9. CASE h.type # "clear"
  BY <1>1, <1>3, <1>7, <1>9 DEF XInv, Looks
<1>10. CASE h.type = "clear"
  <2> DEFINE l == [n.lib EXCEPT !.slot = Nothing]
  <2>1. n.lib \in XLib
    BY <1>1, XFields
  <2>2. l \in XLib /\ l.slot = Nothing /\ l.overtaken = n.lib.overtaken /\ l.pc = n.lib.pc
        /\ l.late = n.lib.late /\ l.buffer = n.lib.buffer
    <3> HIDE DEF Part
    <3>1. Nothing \in Texts
      BY TextsDiffer
    <3> QED BY <2>1, <3>1 DEF XLib
  <2>3. c = [n EXCEPT !.lib = l]
    BY <1>1, <1>3, <1>10 DEF XShape
  <2> HIDE DEF l
  <2>4. /\ c \in XShape /\ c.lib = l /\ c.board = n.board /\ c.server = n.server /\ c.peer = n.peer
        /\ c.wire = n.wire /\ c.seen = n.seen /\ c.last = n.last
    BY <1>1, <2>2, <2>3, XFields DEF XShape
  <2>5. n.board.owner = "us" => n.lib.overtaken
    BY <1>0, <1>1, <1>4, <1>10 DEF XBase, XOwner
  <2>6. XOwner(c)
    BY <1>1, <2>2, <2>4, <2>5 DEF XBase, XOwner
  <2>7. XBase(c)
    BY <1>1, <2>4, <2>6 DEF XBase
  <2>8. XTalk(n) => XTalk(c)
    BY <2>2, <2>4 DEF XTalk, Answering, Receiving
  <2>9. XReading(c)
    BY <1>7, <2>2, <2>4, <2>8 DEF XReading
  <2> QED BY <2>4, <2>7, <2>9 DEF XInv, Looks
<1> QED BY <1>9, <1>10

LEMMA XTakeKeeps ==
  ASSUME NEW n0 \in XShape, XInv(n0), n0.wire # << >>,
         NEW c, c = LET m == Head(n0.wire)
                        n == [n0 EXCEPT !.wire = Tail(@)]
                    IN IF m.type # Wanted[n0.lib.pc] THEN XDispatch(n, m)
                       ELSE IF m.type = "notify" THEN XNotified(n, m) ELSE XChunk(n)
  PROVE  XInv(c) /\ Looks(n0, c)
<1> DEFINE h == Head(n0.wire)
<1> DEFINE n == [n0 EXCEPT !.wire = Tail(@)]
<1>1. c = IF h.type # Wanted[n0.lib.pc] THEN XDispatch(n, h)
          ELSE IF h.type = "notify" THEN XNotified(n, h) ELSE XChunk(n)
  OBVIOUS
<1>2. n0.lib.pc \in {"idle", "notify", "chunk"} /\ Wanted["notify"] = "notify" /\ Wanted["chunk"] = "new"
      /\ Wanted["idle"] = ""
  BY XFields DEF Wanted
<1>3. h \in XMessage
  BY XFields, TailOf
<1>4. h.type \in {"clear", "new", "notify", "other"}
  BY <1>3 DEF XMessage
<1> HIDE DEF h, n
<1>5. CASE h.type # Wanted[n0.lib.pc]
  <2>1. c = XDispatch(n, h)
    BY <1>1, <1>5
  <2> QED BY <2>1, <1>5, XDispatchKeeps DEF n, h
<1>6. CASE h.type = Wanted[n0.lib.pc] /\ h.type = "notify"
  <2>1. c = XNotified(n, h) /\ n0.lib.pc = "notify"
    BY <1>1, <1>2, <1>6
  <2> QED BY <2>1, <1>6, XNotifiedKeeps DEF n, h
<1>7. CASE h.type = Wanted[n0.lib.pc] /\ h.type # "notify"
  <2>1. c = XChunk(n) /\ n0.lib.pc = "chunk" /\ h.type = "new"
    BY <1>1, <1>2, <1>4, <1>7
  <2> QED BY <2>1, XChunkKeeps DEF n, h
<1> QED BY <1>5, <1>6, <1>7

LEMMA XTimeoutKeeps ==
  ASSUME NEW n \in XShape, XInv(n), n.lib.pc # "idle"
  PROVE  /\ XInv(XNextTarget([n EXCEPT !.lib.late = TRUE]))
         /\ Looks(n, XNextTarget([n EXCEPT !.lib.late = TRUE]))
<1> DEFINE l == [n.lib EXCEPT !.late = TRUE]
<1> DEFINE r == [n EXCEPT !.lib = l]
<1>1. l \in XLib /\ l.slot = n.lib.slot /\ l.overtaken = n.lib.overtaken /\ l.late = TRUE
  <2>1. n.lib \in XLib /\ << >> \in Seq(Part)
    BY XFields
  <2> QED BY <2>1, XLibSteps
<1>2. r = [n EXCEPT !.lib.late = TRUE]
  BY DEF XShape
<1> HIDE DEF l
<1>3. /\ r \in XShape /\ XBase(r) /\ r.lib = l /\ r.board = n.board /\ r.peer = n.peer
      /\ r.wire = n.wire /\ r.seen = n.seen /\ r.last = n.last
  BY <1>1, XLibKeeps DEF XInv
<1> HIDE DEF r
<1>4. r.board.owner # "us" /\ r.peer.text \in r.seen /\ r.lib.late
  BY <1>1, <1>3 DEF XInv, XReading
<1>5. XInv(XNextTarget(r)) /\ Looks(r, XNextTarget(r))
  BY <1>3, <1>4, XNextKeeps
<1> QED BY <1>2, <1>3, <1>5 DEF Looks

LEMMA XReadKeeps ==
  ASSUME NEW n \in XShape, XInv(n)
  PROVE  XInv(XRead(n)) /\ Looks(n, XRead(n))
<1> DEFINE l == [n.lib EXCEPT !.late = ~XSettled(n), !.refused = FALSE]
<1> DEFINE m == [n EXCEPT !.seen = {n.board.text}, !.lib = l]
<1> DEFINE c == XRead(n)
<1>1. c = CASE n.board.owner = "us" ->
                 Ends(m, IF n.lib.slot = Nothing THEN << >> ELSE Whole(n.lib.slot), n.lib.overtaken)
            [] n.board.owner = "none" -> Ends(m, << >>, FALSE)
            [] OTHER -> XConvert(m, 1)
  <2>1. m = [Heard(n) EXCEPT !.lib.late = ~XSettled(n), !.lib.refused = FALSE]
    BY DEF Heard, XShape
  <2> HIDE DEF m
  <2> QED BY <2>1, Zenon DEF XRead
<1>2. n.lib \in XLib /\ n.board.text \in Texts /\ n.board.owner \in {"us", "none", "peer"}
  BY XFields
<1>3. l \in XLib /\ l.slot = n.lib.slot /\ l.overtaken = n.lib.overtaken /\ l.late = ~XSettled(n)
  <2> DEFINE late == ~XSettled(n)
  <2>1. late \in BOOLEAN
    BY DEF XSettled
  <2> HIDE DEF late, Part
  <2>2. [n.lib EXCEPT !.late = late, !.refused = FALSE] \in XLib
    BY <1>2, <2>1 DEF XLib
  <2>3. /\ [n.lib EXCEPT !.late = late, !.refused = FALSE].slot = n.lib.slot
        /\ [n.lib EXCEPT !.late = late, !.refused = FALSE].overtaken = n.lib.overtaken
        /\ [n.lib EXCEPT !.late = late, !.refused = FALSE].late = late
    BY <1>2, <2>1 DEF XLib
  <2> QED BY <2>2, <2>3 DEF late
<1> HIDE DEF l
<1>4. /\ m \in XShape /\ m.lib = l /\ m.board = n.board /\ m.server = n.server /\ m.peer = n.peer
      /\ m.wire = n.wire /\ m.seen = {n.board.text} /\ m.last = n.last
  BY <1>2, <1>3, XFields DEF XShape
<1> HIDE DEF m, c
<1>5. XBase(n)
  BY DEF XInv
<1>6. XBase(m)
  <2>1. XOwner(m)
    BY <1>3, <1>4, <1>5 DEF XBase, XOwner
  <2> QED BY <1>4, <1>5, <2>1 DEF XBase
<1>7. CASE n.board.owner = "us"
  <2> DEFINE v == IF n.lib.slot = Nothing THEN << >> ELSE Whole(n.lib.slot)
  <2>1. c = Ends(m, v, n.lib.overtaken)
    BY <1>1, <1>7
  <2>2. n.lib.slot \in {n.board.text, Nothing} /\ (n.lib.slot = Nothing => n.lib.overtaken)
    BY <1>5, <1>7 DEF XBase, XOwner
  <2>3. n.lib.slot # Nothing => n.lib.slot \in Text \cap m.seen
    BY <1>2, <1>4, <2>2 DEF Texts
  <2>4. v \in Seq(Part) /\ (v = << >> \/ \E t \in Text \cap m.seen : v = Whole(t))
        /\ (n.lib.overtaken \/ v # << >>)
    <3>1. CASE n.lib.slot = Nothing
      <4> HIDE DEF Part
      <4> QED BY <2>2, <3>1
    <3>2. CASE n.lib.slot # Nothing
      <4> HIDE DEF Part
      <4>1. v = Whole(n.lib.slot)
        BY <3>2
      <4> QED BY <2>3, <3>2, <4>1, TextsDiffer, TextProperty
    <3> QED BY <3>1, <3>2
  <2>5. n.lib.overtaken \in BOOLEAN
    BY XFields
  <2> HIDE DEF v
  <2>6. /\ XInv(Ends(m, v, n.lib.overtaken)) /\ Ends(m, v, n.lib.overtaken).board = m.board
        /\ Ends(m, v, n.lib.overtaken).seen = m.seen /\ Ended(Ends(m, v, n.lib.overtaken))
    BY <1>4, <1>6, <2>4, <2>5, XEndsKeeps
  <2> QED BY <1>4, <2>1, <2>6 DEF Looks, c
<1>8. CASE n.board.owner = "none"
  <2>1. c = Ends(m, << >>, FALSE)
    BY <1>1, <1>8
  <2>2. Nothing \in m.seen
    BY <1>4, <1>5, <1>8 DEF XBase, XOwner
  <2>3. << >> \in Seq(Part)
    OBVIOUS
  <2>4. /\ XInv(Ends(m, << >>, FALSE)) /\ Ends(m, << >>, FALSE).board = m.board
        /\ Ends(m, << >>, FALSE).seen = m.seen /\ Ended(Ends(m, << >>, FALSE))
    BY <1>4, <1>6, <2>2, <2>3, XEndsKeeps
  <2> QED BY <1>4, <2>1, <2>4 DEF Looks, c
<1>9. CASE n.board.owner = "peer"
  <2>1. c = XConvert(m, 1)
    BY <1>1, <1>9
  <2>2. m.board.owner # "us" /\ m.peer.text \in m.seen
    BY <1>4, <1>5, <1>9 DEF XBase, XOwner
  <2>3. m.lib.late \/ (m.peer.requests = 0 /\ m.peer.sending = << >> /\ Clears(m.wire))
    BY <1>3, <1>4 DEF XSettled, Clears, Aside
  <2>4. /\ XInv(XConvert(m, 1)) /\ XConvert(m, 1).board = m.board
        /\ XConvert(m, 1).seen = m.seen /\ XConvert(m, 1).last = m.last
    BY <1>4, <1>6, <2>2, <2>3, XConvertKeeps
  <2> QED BY <1>4, <2>1, <2>4 DEF Looks, c
<1> QED BY <1>2, <1>7, <1>8, <1>9

LEMMA XOwnKeeps ==
  ASSUME NEW n \in XShape, NEW t \in Text, XInv(n), n.lib.pc = "idle"
  PROVE  XInv(XOwn(n, t)) /\ Puts(n, XOwn(n, t))
<1> DEFINE o == \E i \in 1 .. Len(n.wire) : n.wire[i].type = "clear"
<1> DEFINE l == [n.lib EXCEPT !.slot = t, !.overtaken = o]
<1> DEFINE b == [owner |-> "us", text |-> t]
<1> DEFINE c == XOwn(n, t)
<1>1. n.lib \in XLib /\ o \in BOOLEAN /\ t \in Texts /\ t # Nothing
  BY XFields, TextsDiffer
<1>2. c = [n EXCEPT !.lib = l, !.board = b, !.seen = n.seen \cup {t}]
  BY DEF XOwn, OnBoard, XShape
<1>3. l \in XLib /\ l.slot = t /\ l.overtaken = o /\ l.pc = n.lib.pc /\ l.late = n.lib.late
  <2> HIDE DEF o, Part
  <2> QED BY <1>1 DEF XLib
<1>4. b \in Board /\ b.owner = "us" /\ b.text = t
  BY <1>1 DEF Board
<1> HIDE DEF l, b
<1>5. /\ c \in XShape /\ c.lib = l /\ c.board = b /\ c.server = n.server /\ c.peer = n.peer
      /\ c.wire = n.wire /\ c.seen = n.seen \cup {t} /\ c.last = n.last
  <2> HIDE DEF c
  <2> QED BY <1>1, <1>2, <1>3, <1>4, XFields DEF XShape
<1> HIDE DEF c
<1>6. XOwner(c)
  BY <1>1, <1>3, <1>4, <1>5 DEF XOwner
<1>7. XBase(c) /\ XReading(c)
  BY <1>3, <1>4, <1>5, <1>6 DEF XInv, XBase, XReading
<1> QED BY <1>4, <1>5, <1>7 DEF XInv, Puts, c

-----------------------------------------------------------------------------
(* Clipboards: the other programs on X11 *)

LEMMA XPutsKeeps ==
  ASSUME NEW n \in XShape, NEW t \in Texts, XInv(n),
         NEW c, c = LET m == OnBoard([n EXCEPT !.peer.text = t],
                                     IF t = Nothing THEN "none" ELSE "peer", t)
                    IN IF n.board.owner = "us" THEN Tell(m, [type |-> "clear"]) ELSE m
  PROVE  XInv(c) /\ Puts(n, c)
<1> DEFINE p == [n.peer EXCEPT !.text = t]
<1> DEFINE b == [owner |-> IF t = Nothing THEN "none" ELSE "peer", text |-> t]
<1> DEFINE m == [n EXCEPT !.peer = p, !.board = b, !.seen = n.seen \cup {t}]
<1> DEFINE clear == [type |-> "clear"]
<1>1. n.peer \in XPeer
  BY XFields
<1>2. p \in XPeer /\ p.text = t /\ p.requests = n.peer.requests /\ p.sending = n.peer.sending
      /\ p.deletes = n.peer.deletes
  BY <1>1 DEF XPeer
<1>3. b \in Board /\ b.text = t /\ b.owner # "us" /\ (b.owner = "none" => t = Nothing)
  BY DEF Board
<1>4. c = IF n.board.owner = "us" THEN Tell(m, clear) ELSE m
  <2>1. OnBoard([n EXCEPT !.peer.text = t], IF t = Nothing THEN "none" ELSE "peer", t) = m
    BY DEF OnBoard, XShape
  <2> HIDE DEF m
  <2> QED BY <2>1, Zenon
<1> HIDE DEF p, b
<1>5. /\ m \in XShape /\ m.lib = n.lib /\ m.board = b /\ m.server = n.server /\ m.peer = p
      /\ m.wire = n.wire /\ m.seen = n.seen \cup {t} /\ m.last = n.last
  BY <1>2, <1>3, XFields DEF XShape
<1> HIDE DEF m
<1>6. XOwner(m)
  BY <1>2, <1>3, <1>5 DEF XOwner
<1>7. XBase(m)
  BY <1>2, <1>3, <1>5, <1>6 DEF XInv, XBase
<1>8. CASE n.board.owner = "us"
  <2>0. clear \in XMessage
    BY DEF XMessage
  <2>1. c = Tell(m, clear)
    BY <1>4, <1>8
  <2> HIDE DEF clear
  <2>2. /\ c \in XShape /\ c.board = m.board /\ c.server = m.server
        /\ c.lib = m.lib /\ c.peer = m.peer /\ c.seen = m.seen /\ c.last = m.last
        /\ c.wire = Append(m.wire, clear)
    <3>1. m \in XShape
      BY <1>5
    <3> QED BY ONLY <3>1, <2>0, <2>1, XTells
  <2>3. XOwner(c)
    BY <1>2, <1>3, <1>5, <2>2 DEF XOwner
  <2>4. XBase(c)
    BY <1>7, <2>2, <2>3 DEF XBase
  <2>5. n.lib.pc = "idle"
    BY <1>8 DEF XInv, XReading
  <2>6. XReading(c)
    BY <1>5, <2>2, <2>5 DEF XReading
  <2> QED BY <1>3, <1>5, <2>2, <2>4, <2>6 DEF XInv, Puts
<1>9. CASE n.board.owner # "us"
  <2>1. c = m
    BY <1>4, <1>9
  <2>2. XTalk(n) => XTalk(m)
    <3>1. Answering(n) => Answering(m)
      BY <1>2, <1>5 DEF Answering
    <3>2. \A u \in Text : Receiving(n, u) => Receiving(m, u)
      BY <1>2, <1>5 DEF Receiving
    <3> QED BY <1>2, <1>5, <3>1, <3>2 DEF XTalk
  <2>3. XReading(m)
    BY <1>2, <1>3, <1>5, <2>2 DEF XReading, XInv
  <2> QED BY <1>3, <1>5, <1>7, <2>1, <2>3 DEF XInv, Puts
<1> QED BY <1>8, <1>9

\* The event of another property.
LEMMA XOtherKeeps ==
  ASSUME NEW n \in XShape, XInv(n), n.lib.pc = "chunk",
         NEW m, m = [type |-> "other"], NEW c, c = Tell(n, m)
  PROVE  XInv(c) /\ Looks(n, c)
<1>0. m \in XMessage /\ m.type \in Aside /\ m.type # "clear"
  BY DEF XMessage, Aside
<1>1. /\ c \in XShape /\ c.board = n.board /\ c.server = n.server /\ c.lib = n.lib
      /\ c.peer = n.peer /\ c.seen = n.seen /\ c.last = n.last /\ c.wire = Append(n.wire, m)
  BY <1>0, XTells
<1>2. XBase(c)
  BY <1>0, XTellKeeps DEF XInv
<1>3. ASSUME XTalk(n) PROVE XTalk(c)
  <2>1. n.wire \in Seq(XMessage)
    BY XFields
  <2>2. /\ Clears(n.wire) => Clears(c.wire)
        /\ Newed(n.wire) => Newed(c.wire)
    BY <1>0, <1>1, <2>1, ClearsGrows, NewedGrows
  <2>3. \A t \in Text : Receiving(n, t) => Receiving(c, t)
    BY <1>1, <2>2 DEF Receiving
  <2> QED BY <1>1, <1>3, <2>3 DEF XTalk
<1>4. XReading(c)
  BY <1>1, <1>3 DEF XInv, XReading
<1> QED BY <1>1, <1>2, <1>4 DEF XInv, Looks

\* Another program writes the property of a read, and says so.
LEMMA XWrites ==
  ASSUME NEW n \in XShape, XBase(n), NEW type \in {"text", "incr"}, NEW data \in Seq(Part)
  PROVE  /\ XWrite(n, type, data) \in XShape /\ XBase(XWrite(n, type, data))
         /\ XWrite(n, type, data).board = n.board /\ XWrite(n, type, data).lib = n.lib
         /\ XWrite(n, type, data).peer = n.peer
         /\ XWrite(n, type, data).server = InProperty(type, data)
         /\ XWrite(n, type, data).wire = Append(n.wire, [type |-> "new"])
         /\ XWrite(n, type, data).seen = n.seen /\ XWrite(n, type, data).last = n.last
<1> DEFINE s == InProperty(type, data)
<1> DEFINE m == [n EXCEPT !.server = s]
<1> DEFINE new == [type |-> "new"]
<1>1. s \in XProperty
  <2> HIDE DEF Part
  <2> QED BY DEF InProperty, XProperty
<1>2. new \in XMessage /\ new.type # "clear"
  BY DEF XMessage
<1>3. XWrite(n, type, data) = Tell(m, new)
  BY DEF XWrite, InProperty
<1> HIDE DEF s
<1>4. /\ m \in XShape /\ m.lib = n.lib /\ m.board = n.board /\ m.server = s /\ m.peer = n.peer
      /\ m.wire = n.wire /\ m.seen = n.seen /\ m.last = n.last
  BY <1>1, XFields DEF XShape
<1> HIDE DEF m
<1>5. XBase(m)
  BY <1>4 DEF XBase, XOwner
<1> HIDE DEF new
<1>6. XBase(Tell(m, new))
  BY <1>2, <1>4, <1>5, XTellKeeps
<1>7. /\ Tell(m, new) \in XShape
      /\ Tell(m, new).board = m.board /\ Tell(m, new).server = m.server
      /\ Tell(m, new).lib = m.lib /\ Tell(m, new).peer = m.peer /\ Tell(m, new).seen = m.seen
      /\ Tell(m, new).last = m.last
      /\ Tell(m, new).wire = Append(m.wire, new)
  BY <1>2, <1>4, XTells
<1> QED BY <1>3, <1>4, <1>6, <1>7 DEF s, new

\* The conversation of another program with a read.
LEMMA XPeerChanges ==
  ASSUME NEW n \in XShape, XBase(n), NEW p \in XPeer, p.text = n.peer.text,
         p.sending = << >> => p.deletes = 0
  PROVE  /\ [n EXCEPT !.peer = p] \in XShape /\ XBase([n EXCEPT !.peer = p])
         /\ [n EXCEPT !.peer = p].lib = n.lib /\ [n EXCEPT !.peer = p].board = n.board
         /\ [n EXCEPT !.peer = p].server = n.server /\ [n EXCEPT !.peer = p].peer = p
         /\ [n EXCEPT !.peer = p].wire = n.wire /\ [n EXCEPT !.peer = p].seen = n.seen
         /\ [n EXCEPT !.peer = p].last = n.last
<1> DEFINE m == [n EXCEPT !.peer = p]
<1>1. /\ m \in XShape /\ m.lib = n.lib /\ m.board = n.board /\ m.server = n.server /\ m.peer = p
      /\ m.wire = n.wire /\ m.seen = n.seen /\ m.last = n.last
  BY XFields DEF XShape
<1> HIDE DEF m
<1>2. XBase(m)
  BY <1>1 DEF XBase, XOwner
<1> QED BY <1>1, <1>2 DEF m

LEMMA XAnswersKeeps ==
  ASSUME NEW n0 \in XShape, XInv(n0), n0.peer.requests > 0,
         NEW n, n = [n0 EXCEPT !.peer.requests = @ - 1],
         NEW t, t = n0.peer.text,
         NEW c,
         \/ c = Tell(n, [type |-> "notify", found |-> FALSE])
         \/ /\ t # Nothing
            /\ c = Tell(XWrite(n, "text", Whole(t)), [type |-> "notify", found |-> TRUE])
         \/ /\ t # Nothing
            /\ c = Tell([XWrite(n, "incr", << >>)
                           EXCEPT !.peer.sending = Append(@, [text |-> t, next |-> 1])],
                        [type |-> "notify", found |-> TRUE])
  PROVE  XInv(c) /\ Looks(n0, c)
<1> DEFINE p == [n0.peer EXCEPT !.requests = @ - 1]
           no == [type |-> "notify", found |-> FALSE]
           yes == [type |-> "notify", found |-> TRUE]
           new == [type |-> "new"]
<1>0. no \in XMessage /\ yes \in XMessage /\ no.type # "clear" /\ yes.type # "clear"
  BY DEF XMessage
<1>1. n0.peer \in XPeer /\ n0.peer.requests \in Nat
  BY XFields
<1>2. p \in XPeer /\ p.text = n0.peer.text /\ p.requests = n0.peer.requests - 1
      /\ p.sending = n0.peer.sending /\ p.deletes = n0.peer.deletes
  BY <1>1 DEF XPeer
<1>3. n = [n0 EXCEPT !.peer = p]
  BY DEF XShape
<1> HIDE DEF p
<1>4. XBase(n0)
  BY DEF XInv
<1>5. p.sending = << >> => p.deletes = 0
  BY <1>2, <1>4 DEF XBase
<1>6. /\ n \in XShape /\ XBase(n) /\ n.lib = n0.lib /\ n.board = n0.board /\ n.server = n0.server
      /\ n.peer = p /\ n.wire = n0.wire /\ n.seen = n0.seen /\ n.last = n0.last
  <2>1. /\ [n0 EXCEPT !.peer = p] \in XShape /\ XBase([n0 EXCEPT !.peer = p])
        /\ [n0 EXCEPT !.peer = p].lib = n0.lib /\ [n0 EXCEPT !.peer = p].board = n0.board
        /\ [n0 EXCEPT !.peer = p].server = n0.server /\ [n0 EXCEPT !.peer = p].peer = p
        /\ [n0 EXCEPT !.peer = p].wire = n0.wire /\ [n0 EXCEPT !.peer = p].seen = n0.seen
        /\ [n0 EXCEPT !.peer = p].last = n0.last
    <3>1. n0 \in XShape
      OBVIOUS
    <3>2. p \in XPeer /\ p.text = n0.peer.text
      BY <1>2
    <3> QED BY ONLY <3>1, <3>2, <1>4, <1>5, XPeerChanges
  <2> QED BY ONLY <2>1, <1>3
<1>7. ASSUME n.lib.pc # "idle", ~n.lib.late
      PROVE  /\ n.lib.pc = "notify" /\ n.peer.requests = 0 /\ Clears(n.wire)
             /\ n.server = NoProperty /\ n.peer.sending = << >> /\ n.peer.deletes = 0
             /\ n.peer.text \in n.seen
  <2>1. XTalk(n0) /\ n0.peer.text \in n0.seen /\ n0.lib.pc \in {"notify", "chunk"}
    BY <1>6, <1>7, XFields DEF XInv, XReading
  <2>2. n0.lib.pc = "notify" /\ Answering(n0)
    BY <1>1, <2>1 DEF XTalk
  <2>3. n0.peer.requests = 1 /\ Clears(n0.wire) /\ n0.server = NoProperty /\ n0.peer.sending = << >>
    <3>1. n0.peer.requests # 0
      BY <1>1
    <3>2. Answering(n0)
      BY <2>2
    <3> QED BY ONLY <3>1, <3>2 DEF Answering
  <2> QED BY <1>1, <1>2, <1>5, <1>6, <2>1, <2>2, <2>3
<1>8. n.lib.pc # "idle" => n.board.owner # "us" /\ n.peer.text \in n.seen
  BY <1>2, <1>6 DEF XInv, XReading
<1>9. t \in Texts /\ t = n.peer.text /\ n.wire \in Seq(XMessage) /\ n.peer \in XPeer
  BY <1>2, <1>6, XFields
<1> DEFINE w1 == XWrite(n, "text", Whole(t))
           w2 == XWrite(n, "incr", << >>)
           s  == Append(w2.peer.sending, [text |-> t, next |-> 1])
<1>10. \/ c = Tell(n, no)
       \/ t # Nothing /\ c = Tell(w1, yes)
       \/ t # Nothing /\ c = Tell([w2 EXCEPT !.peer.sending = s], yes)
  <2>1. [w2 EXCEPT !.peer.sending = Append(@, [text |-> t, next |-> 1])] = [w2 EXCEPT !.peer.sending = s]
    OBVIOUS
  <2> HIDE DEF w2
  <2> QED BY <2>1, Zenon DEF w2
<1> HIDE DEF w1, w2, s, no, yes
<1>11. ASSUME NEW m \in XShape, XBase(m), NEW b \in {no, yes}, c = Tell(m, b),
              m.board = n.board, m.seen = n.seen, m.last = n.last, m.lib = n.lib,
              m.peer.text = n.peer.text,
              \/ n.lib.pc = "idle" \/ n.lib.late
              \/ Answering([m EXCEPT !.wire = Append(m.wire, b)])
       PROVE  XInv(c) /\ Looks(n0, c)
  <2>1. b \in XMessage /\ b.type # "clear"
    BY <1>0, <1>11
  <2>2. XBase(c)
    BY <1>11, <2>1, XTellKeeps
  <2>3. c = [m EXCEPT !.wire = Append(m.wire, b)]
    BY <1>11 DEF Tell
  <2>4. /\ c \in XShape
        /\ c.board = m.board /\ c.server = m.server /\ c.lib = m.lib /\ c.peer = m.peer
        /\ c.seen = m.seen /\ c.last = m.last /\ c.wire = Append(m.wire, b)
    BY <1>11, <2>1, XTells
  <2>5. c.lib.pc # "idle" /\ ~c.lib.late => c.lib.pc = "notify" /\ Answering(c)
    BY <1>7, <1>11, <2>3, <2>4
  <2>6. XReading(c)
    BY <1>8, <1>11, <2>4, <2>5 DEF XReading, XTalk
  <2> QED BY <1>6, <1>11, <2>2, <2>4, <2>6 DEF XInv, Looks
<1>12. ASSUME NEW m \in XShape, NEW b, NEW v, v = Append(m.wire, b)
       PROVE  /\ [m EXCEPT !.wire = v].wire = v /\ [m EXCEPT !.wire = v].server = m.server
              /\ [m EXCEPT !.wire = v].peer = m.peer /\ [m EXCEPT !.wire = v].seen = m.seen
  BY DEF XShape
<1>13. CASE c = Tell(n, no)
  <2>1. ASSUME n.lib.pc # "idle", ~n.lib.late PROVE Answering([n EXCEPT !.wire = Append(n.wire, no)])
    <3>1. Replied(Append(n.wire, no), FALSE)
      BY <1>7, <1>9, <2>1, ClearsGrows DEF no
    <3> DEFINE a == [n EXCEPT !.wire = Append(n.wire, no)]
    <3>2. a.wire = Append(n.wire, no) /\ a.server = n.server /\ a.peer = n.peer
      BY <1>6, <1>12
    <3> HIDE DEF a
    <3> QED BY <1>7, <2>1, <3>1, <3>2 DEF Answering, a
  <2> QED BY <1>6, <1>11, <1>13, <2>1
<1>14. CASE t # Nothing
  <2>0. t \in Text /\ Whole(t) \in Seq(Part) /\ << >> \in Seq(Part)
    BY <1>9, <1>14, TextsDiffer DEF Texts
  <2>1. CASE c = Tell(w1, yes)
    <3>1. /\ w1 \in XShape /\ XBase(w1) /\ w1.board = n.board /\ w1.lib = n.lib /\ w1.peer = n.peer
          /\ w1.server = InProperty("text", Whole(t)) /\ w1.wire = Append(n.wire, new)
          /\ w1.seen = n.seen /\ w1.last = n.last
      <4>1. PICK y \in {"text", "incr"} : y = "text"
        OBVIOUS
      <4>2. w1 = XWrite(n, y, Whole(t))
        BY <4>1 DEF w1
      <4> QED BY ONLY <1>6, <2>0, <4>1, <4>2, XWrites
    <3>2. ASSUME n.lib.pc # "idle", ~n.lib.late PROVE Answering([w1 EXCEPT !.wire = Append(w1.wire, yes)])
      <4>1. Replied(Append(w1.wire, yes), TRUE)
        BY <1>7, <1>9, <3>1, <3>2, ClearsGrows DEF yes
      <4> DEFINE a == [w1 EXCEPT !.wire = Append(w1.wire, yes)]
      <4>2. a.wire = Append(w1.wire, yes) /\ a.server = w1.server /\ a.peer = w1.peer /\ a.seen = w1.seen
        BY <3>1, <1>12
      <4> HIDE DEF a
      <4>3. t \in Text \cap a.seen /\ a.server = InProperty("text", Whole(t))
        BY <1>7, <1>9, <2>0, <3>1, <3>2, <4>2
      <4>4. Answering(a)
        BY <1>7, <3>1, <3>2, <4>1, <4>2, <4>3 DEF Answering
      <4> QED BY <4>4 DEF a
    <3> QED BY <1>11, <2>1, <3>1, <3>2
  <2>2. CASE c = Tell([w2 EXCEPT !.peer.sending = s], yes)
    <3>1. /\ w2 \in XShape /\ XBase(w2) /\ w2.board = n.board /\ w2.lib = n.lib /\ w2.peer = n.peer
          /\ w2.server = InProperty("incr", << >>) /\ w2.wire = Append(n.wire, new)
          /\ w2.seen = n.seen /\ w2.last = n.last
      <4>1. PICK y \in {"text", "incr"} : y = "incr"
        OBVIOUS
      <4>2. w2 = XWrite(n, y, << >>)
        BY <4>1 DEF w2
      <4> QED BY ONLY <1>6, <2>0, <4>1, <4>2, XWrites
    <3> DEFINE x == [text |-> t, next |-> 1]
               q == [n.peer EXCEPT !.sending = s]
               z == [w2 EXCEPT !.peer = q]
    <3>2. s \in Seq(XTransfer) /\ s # << >> /\ (n.peer.sending = << >> => s = Promised(t))
      <4>1. n.peer.sending \in Seq(XTransfer)
        BY <1>6, XFields
      <4>2. x \in XTransfer
        BY <2>0 DEF XTransfer
      <4>3. s = Append(n.peer.sending, x)
        BY <3>1 DEF s
      <4> HIDE DEF x
      <4>4. s \in Seq(XTransfer) /\ s # << >>
        BY ONLY <4>1, <4>2, <4>3, AppendOf
      <4>5. Append(<< >>, x) = <<x>>
        OBVIOUS
      <4> QED BY <4>3, <4>4, <4>5 DEF Promised, x
    <3>3. q \in XPeer /\ q.sending = s /\ q.text = n.peer.text /\ q.requests = n.peer.requests
          /\ q.deletes = n.peer.deletes
      BY <1>9, <3>2 DEF XPeer
    <3>4. z = [w2 EXCEPT !.peer.sending = s]
      BY <3>1 DEF XShape
    <3> HIDE DEF q
    <3>5. /\ z \in XShape /\ XBase(z) /\ z.lib = w2.lib /\ z.board = w2.board
          /\ z.server = w2.server /\ z.peer = q
          /\ z.wire = w2.wire /\ z.seen = w2.seen /\ z.last = w2.last
      BY <3>1, <3>2, <3>3, XPeerChanges
    <3> HIDE DEF z
    <3>6. ASSUME n.lib.pc # "idle", ~n.lib.late PROVE Answering([z EXCEPT !.wire = Append(z.wire, yes)])
      <4>1. Replied(Append(z.wire, yes), TRUE)
        BY <1>7, <1>9, <3>1, <3>5, <3>6, ClearsGrows DEF yes
      <4> DEFINE a == [z EXCEPT !.wire = Append(z.wire, yes)]
      <4>2. a.wire = Append(z.wire, yes) /\ a.server = z.server /\ a.peer = z.peer /\ a.seen = z.seen
        BY <3>5, <1>12
      <4> HIDE DEF a
      <4>3. t \in Text \cap a.seen /\ a.peer.sending = Promised(t)
        BY <1>7, <1>9, <2>0, <3>1, <3>2, <3>3, <3>5, <3>6, <4>2
      <4>4. Answering(a)
        BY <1>7, <3>1, <3>3, <3>5, <3>6, <4>1, <4>2, <4>3 DEF Answering
      <4> QED BY <4>4 DEF a
    <3>7. c = Tell(z, yes)
      BY <2>2, <3>4
    <3> QED BY <1>11, <3>1, <3>3, <3>5, <3>6, <3>7
  <2>3. c = Tell(w1, yes) \/ c = Tell([w2 EXCEPT !.peer.sending = s], yes) \/ c = Tell(n, no)
    BY <1>10
  <2> QED BY <1>13, <2>1, <2>2, <2>3
<1> QED BY <1>10, <1>13, <1>14

LEMMA TransferOf ==
  ASSUME NEW q \in Seq(XTransfer), NEW i \in 1 .. Len(q), NEW v \in XTransfer
  PROVE  /\ [q EXCEPT ![i] = v] \in Seq(XTransfer) /\ [q EXCEPT ![i] = v] # << >>
         /\ Len(q) = 1 => [q EXCEPT ![i] = v] = <<v>>
         /\ SubSeq(q, 1, i - 1) \o SubSeq(q, i + 1, Len(q)) \in Seq(XTransfer)
         /\ Len(q) = 1 => SubSeq(q, 1, i - 1) \o SubSeq(q, i + 1, Len(q)) = << >>
         /\ q[i] \in XTransfer /\ q # << >>
<1>1. Len(q) \in Nat /\ q[i] \in XTransfer
  BY LenProperties, ElementOfSeq
<1> DEFINE z == [q EXCEPT ![i] = v]
<1>2. z \in Seq(XTransfer) /\ Len(z) = Len(q) /\ z[i] = v
  BY ExceptSeq
<1> DEFINE a == SubSeq(q, 1, i - 1)
           b == SubSeq(q, i + 1, Len(q))
<1>3. a \in Seq(XTransfer) /\ Len(a) = i - 1
  <2>1. 1 \in Int /\ i - 1 \in Int /\ \A j \in 1 .. i - 1 : q[j] \in XTransfer
    BY <1>1, ElementOfSeq
  <2>2. a \in Seq(XTransfer) /\ Len(a) = IF 1 <= i - 1 THEN i - 1 - 1 + 1 ELSE 0
    <3> DEFINE n == i - 1
    <3> HIDE DEF n
    <3>1. SubSeq(q, 1, n) \in Seq(XTransfer) /\ Len(SubSeq(q, 1, n)) = IF 1 <= n THEN n - 1 + 1 ELSE 0
      BY <2>1, SubSeqProperties DEF n
    <3> QED BY <3>1 DEF n
  <2> HIDE DEF a
  <2> QED BY <1>1, <2>2
<1>4. b \in Seq(XTransfer) /\ Len(b) = Len(q) - i
  <2>1. i + 1 \in Int /\ Len(q) \in Int /\ \A j \in i + 1 .. Len(q) : q[j] \in XTransfer
    BY <1>1, ElementOfSeq
  <2>2. b \in Seq(XTransfer) /\ Len(b) = IF i + 1 <= Len(q) THEN Len(q) - (i + 1) + 1 ELSE 0
    <3> DEFINE m == i + 1
               n == Len(q)
    <3> HIDE DEF m, n
    <3>1. SubSeq(q, m, n) \in Seq(XTransfer) /\ Len(SubSeq(q, m, n)) = IF m <= n THEN n - m + 1 ELSE 0
      BY <2>1, SubSeqProperties DEF m, n
    <3> QED BY <3>1 DEF m, n
  <2> HIDE DEF b
  <2> QED BY <1>1, <2>2
<1> HIDE DEF z, a, b
<1>5. a \o b \in Seq(XTransfer) /\ Len(a \o b) = Len(a) + Len(b)
  BY <1>3, <1>4, ConcatProperties
<1>6. z # << >>
  BY <1>1, <1>2, EmptySeq
<1>7. ASSUME Len(q) = 1 PROVE z = <<v>> /\ a \o b = << >>
  <2>1. i = 1
    BY <1>7
  <2>2. <<v>> \in Seq(XTransfer) /\ Len(<<v>>) = 1 /\ <<v>>[1] = v
    OBVIOUS
  <2>3. Len(z) = Len(<<v>>) /\ \A j \in 1 .. Len(z) : z[j] = <<v>>[j]
    BY <1>2, <1>7, <2>1, <2>2
  <2>4. z = <<v>>
    BY <1>2, <2>2, <2>3, SeqEqual
  <2>5. Len(a \o b) = 0
    BY <1>3, <1>4, <1>5, <1>7, <2>1
  <2> QED BY <1>5, <2>4, <2>5, EmptySeq
<1>8. q # << >>
  BY <1>1, EmptySeq
<1> QED BY <1>1, <1>2, <1>5, <1>6, <1>7, <1>8 DEF z, a, b

\* What a read is sent in answer to a deletion.
SendsOf(n, i) ==
  LET s    == n.peer.sending[i]
      rest == SubSeq(n.peer.sending, 1, i - 1)
                 \o SubSeq(n.peer.sending, i + 1, Len(n.peer.sending))
  IN IF s.next <= 2
     THEN [XWrite(n, "text", <<Piece(s.text, s.next)>>)
             EXCEPT !.peer.sending[i].next = @ + 1, !.peer.deletes = @ - 1]
     ELSE [XWrite(n, "text", << >>)
             EXCEPT !.peer.sending = rest,
                    !.peer.deletes = IF rest = << >> THEN 0 ELSE @ - 1]

LEMMA XSendsKeeps ==
  ASSUME NEW n \in XShape, XInv(n), n.peer.deletes > 0, NEW i \in 1 .. Len(n.peer.sending)
  PROVE  XInv(SendsOf(n, i)) /\ Looks(n, SendsOf(n, i))
<1> DEFINE q == n.peer.sending
           s == q[i]
           rest == SubSeq(q, 1, i - 1) \o SubSeq(q, i + 1, Len(q))
           c == SendsOf(n, i)
           new == [type |-> "new"]
<1>a. c = IF s.next <= 2
          THEN [XWrite(n, "text", <<Piece(s.text, s.next)>>)
                  EXCEPT !.peer.sending[i].next = @ + 1, !.peer.deletes = @ - 1]
          ELSE [XWrite(n, "text", << >>)
                  EXCEPT !.peer.sending = rest,
                         !.peer.deletes = IF rest = << >> THEN 0 ELSE @ - 1]
  BY DEF SendsOf
<1> HIDE DEF c
<1>c. SUFFICES XInv(c) /\ Looks(n, c)
  BY DEF c
<1>b. s = q[i] /\ rest = SubSeq(q, 1, i - 1) \o SubSeq(q, i + 1, Len(q)) /\ i \in 1 .. Len(q)
      /\ q = n.peer.sending
  OBVIOUS
<1> HIDE DEF s, rest, q
<1>1. /\ n.peer \in XPeer /\ q \in Seq(XTransfer) /\ n.peer.deletes \in Nat /\ n.wire \in Seq(XMessage)
      /\ n.lib.pc \in {"idle", "notify", "chunk"}
  BY <1>b, XFields
<1>2. /\ s \in XTransfer /\ rest \in Seq(XTransfer) /\ q # << >>
      /\ \A v \in XTransfer : [q EXCEPT ![i] = v] \in Seq(XTransfer) /\ [q EXCEPT ![i] = v] # << >>
      /\ Len(q) = 1 => rest = << >> /\ \A v \in XTransfer : [q EXCEPT ![i] = v] = <<v>>
  <2>2. s \in XTransfer
    BY ONLY <1>1, <1>b, ElementOfSeq
  <2>3. ASSUME NEW v \in XTransfer
        PROVE  /\ [q EXCEPT ![i] = v] \in Seq(XTransfer) /\ [q EXCEPT ![i] = v] # << >>
               /\ Len(q) = 1 => [q EXCEPT ![i] = v] = <<v>>
    BY ONLY <1>1, <1>b, <2>3, TransferOf
  <2>4. rest \in Seq(XTransfer) /\ q # << >> /\ (Len(q) = 1 => rest = << >>)
    BY ONLY <1>1, <1>b, <2>2, TransferOf
  <2> QED BY ONLY <2>2, <2>3, <2>4
<1>3. s.text \in Text /\ s.next \in 1 .. 3
  BY <1>2 DEF XTransfer
<1>4. XBase(n)
  BY DEF XInv
\* A read that was not late is at the piece that is sent now.
<1>5. ASSUME n.lib.pc # "idle", ~n.lib.late
      PROVE  /\ n.lib.pc = "chunk" /\ n.peer.requests = 0 /\ Clears(n.wire) /\ n.peer.deletes = 1
             /\ s.text \in Text \cap n.seen /\ n.lib.buffer = Upto(s.text, s.next) /\ Len(q) = 1
  <2>0. XTalk(n)
    BY <1>5 DEF XInv, XReading
  <2>1. n.lib.pc # "notify"
    <3>1. Answering(n) => n.peer.sending = << >> \/ n.peer.deletes = 0
      BY ONLY TRUE DEF Answering
    <3> QED BY <1>1, <1>2, <1>b, <1>4, <2>0, <3>1 DEF XTalk, XBase
  <2>2. n.lib.pc = "chunk"
    BY <1>1, <1>5, <2>1
  <2>3. PICK t \in Text \cap n.seen : n.peer.requests = 0 /\ Receiving(n, t)
    BY <2>0, <2>2 DEF XTalk
  <2>4. PICK k \in 1 .. 3 : n.peer.sending = Sent(t, k) /\ n.lib.buffer = Upto(t, k)
                             /\ Clears(n.wire) /\ n.peer.deletes = 1
    <3>1. n.peer.deletes # 0 /\ n.peer.sending # << >> /\ Receiving(n, t)
      BY <1>1, <1>2, <1>b, <2>3
    <3> QED BY ONLY <3>1 DEF Receiving
  <2>5. Len(q) = 1 /\ q[1] = [text |-> t, next |-> k]
    BY ONLY <2>4, <1>b DEF Sent
  <2>6. s = [text |-> t, next |-> k]
    <3>1. i = 1 /\ s = q[i]
      BY <2>5, <1>b
    <3> QED BY <2>5, <3>1
  <2> QED BY <2>2, <2>3, <2>4, <2>5, <2>6
<1>6. n.lib.pc # "idle" => n.board.owner # "us" /\ n.peer.text \in n.seen
  BY DEF XInv, XReading
<1> HIDE DEF new
<1> DEFINE Goes(p, data) ==
             n.lib.pc # "idle" /\ ~n.lib.late =>
               /\ p.requests = 0
               /\ \/ /\ p.deletes = 0
                     /\ \E k \in 1 .. 2 : /\ p.sending = Sent(s.text, k + 1)
                                          /\ n.lib.buffer = Upto(s.text, k)
                                          /\ data = <<Piece(s.text, k)>>
                  \/ /\ p.sending = << >> /\ data = << >> /\ n.lib.buffer = Whole(s.text)
           W(p, data) == [XWrite(n, "text", data) EXCEPT !.peer = p]
<1>7. ASSUME NEW data \in Seq(Part), NEW p \in XPeer, p.text = n.peer.text,
             p.sending = << >> => p.deletes = 0,
             c = W(p, data), Goes(p, data)
       PROVE  XInv(c) /\ Looks(n, c)
  <2> DEFINE w == XWrite(n, "text", data)
  <2>1. /\ w \in XShape /\ XBase(w) /\ w.board = n.board /\ w.lib = n.lib /\ w.peer = n.peer
        /\ w.server = InProperty("text", data) /\ w.wire = Append(n.wire, new)
        /\ w.seen = n.seen /\ w.last = n.last
    BY <1>4, <1>7, XWrites DEF new
  <2>2. c = [w EXCEPT !.peer = p]
    BY <1>7
  <2> HIDE DEF w
  <2>3. /\ [w EXCEPT !.peer = p] \in XShape /\ XBase([w EXCEPT !.peer = p])
        /\ [w EXCEPT !.peer = p].lib = w.lib /\ [w EXCEPT !.peer = p].board = w.board
        /\ [w EXCEPT !.peer = p].server = w.server /\ [w EXCEPT !.peer = p].peer = p
        /\ [w EXCEPT !.peer = p].wire = w.wire /\ [w EXCEPT !.peer = p].seen = w.seen
        /\ [w EXCEPT !.peer = p].last = w.last
    <3>1. p.text = w.peer.text
      BY <1>7, <2>1
    <3> QED BY <2>1, <3>1, <1>7, XPeerChanges
  <2>4. /\ c \in XShape /\ XBase(c) /\ c.lib = n.lib /\ c.board = n.board
        /\ c.server = InProperty("text", data) /\ c.peer = p
        /\ c.wire = Append(n.wire, new) /\ c.seen = n.seen /\ c.last = n.last
    BY ONLY <2>1, <2>2, <2>3
  <2>5. ASSUME n.lib.pc # "idle", ~n.lib.late PROVE XTalk(c)
    <3>1. Newed(c.wire)
      BY <1>1, <1>5, <2>4, <2>5, ClearsGrows DEF new
    <3>2. Receiving(c, s.text)
      <4>1. /\ p.requests = 0
            /\ \/ /\ p.deletes = 0
                  /\ \E k \in 1 .. 2 : /\ p.sending = Sent(s.text, k + 1)
                                       /\ n.lib.buffer = Upto(s.text, k)
                                       /\ data = <<Piece(s.text, k)>>
               \/ /\ p.sending = << >> /\ data = << >> /\ n.lib.buffer = Whole(s.text)
        BY <1>7, <2>5
      <4> QED BY ONLY <2>4, <3>1, <4>1 DEF Receiving
    <3>3. c.lib.pc = "chunk" /\ c.peer.requests = 0 /\ s.text \in Text \cap c.seen
      BY <1>5, <1>7, <2>4, <2>5
    <3> QED BY ONLY <3>2, <3>3 DEF XTalk
  <2>6. XReading(c)
    BY <1>6, <1>7, <2>4, <2>5 DEF XReading
  <2> QED BY ONLY <2>4, <2>6 DEF XInv, Looks
<1> HIDE DEF Goes, W
<1>8. CASE s.next <= 2
  <2> DEFINE data == <<Piece(s.text, s.next)>>
             w == XWrite(n, "text", data)
             v == [s EXCEPT !.next = @ + 1]
             z == [q EXCEPT ![i] = v]
             p == [n.peer EXCEPT !.sending = z, !.deletes = @ - 1]
  <2>1. data \in Seq(Part)
    <3> DEFINE e == Piece(s.text, s.next)
    <3>1. e \in Part
      BY <1>3, <1>8 DEF Piece, Part
    <3> HIDE DEF e, Part
    <3>2. <<e>> \in Seq(Part)
      BY <3>1
    <3> QED BY <3>2 DEF e
  <2>2. v \in XTransfer /\ v = [text |-> s.text, next |-> s.next + 1]
    BY <1>2, <1>3, <1>8 DEF XTransfer
  <2>3. z \in Seq(XTransfer) /\ z # << >> /\ (Len(q) = 1 => z = <<v>>)
    BY ONLY <1>2, <2>2
  <2>4. c = [w EXCEPT !.peer = p]
    <3>1. c = [w EXCEPT !.peer.sending[i].next = @ + 1, !.peer.deletes = @ - 1]
      BY <1>a, <1>8
    <3>2. w \in XShape /\ w.peer = n.peer
      BY <1>4, <2>1, XWrites
    <3>3. n.peer.sending[i] = s /\ q = n.peer.sending
      BY <1>b
    <3> HIDE DEF w
    <3> QED BY ONLY <3>1, <3>2, <3>3 DEF XShape, p, z, v
  <2>5. n.peer.deletes - 1 \in Nat
    BY <1>1
  <2>6. p \in XPeer /\ p.text = n.peer.text /\ p.requests = n.peer.requests
        /\ p.sending = z /\ p.deletes = n.peer.deletes - 1
    <3> HIDE DEF z
    <3> QED BY <1>1, <2>3, <2>5 DEF XPeer
  <2>7. ASSUME n.lib.pc # "idle", ~n.lib.late
        PROVE  /\ p.requests = 0 /\ p.deletes = 0
               /\ \E k \in 1 .. 2 : /\ p.sending = Sent(s.text, k + 1)
                                    /\ n.lib.buffer = Upto(s.text, k)
                                    /\ data = <<Piece(s.text, k)>>
    <3>1. p.requests = 0 /\ p.deletes = 0
      BY <1>5, <2>6, <2>7
    <3>2. s.next \in 1 .. 2
      BY <1>3, <1>8
    <3>3. p.sending = Sent(s.text, s.next + 1)
      BY <1>5, <2>2, <2>3, <2>6, <2>7 DEF Sent
    <3>4. n.lib.buffer = Upto(s.text, s.next)
      BY <1>5, <2>7
    <3> HIDE DEF p
    <3> QED BY <3>1, <3>2, <3>3, <3>4
  <2> HIDE DEF data, w, p
  <2>8. c = W(p, data)
    BY <2>4 DEF w, W
  <2>9. p.sending = << >> => p.deletes = 0
    BY <2>3, <2>6
  <2>10. Goes(p, data)
    BY <2>7 DEF Goes
  <2>11. p.text = n.peer.text /\ p \in XPeer
    BY <2>6
  <2> QED BY <1>7, <2>1, <2>8, <2>9, <2>10, <2>11
<1>9. CASE ~(s.next <= 2)
  <2> DEFINE data == << >>
             w == XWrite(n, "text", data)
             p == [n.peer EXCEPT !.sending = rest, !.deletes = IF rest = << >> THEN 0 ELSE @ - 1]
  <2>1. data \in Seq(Part)
    OBVIOUS
  <2>4. c = [w EXCEPT !.peer = p]
    <3>1. c = [w EXCEPT !.peer.sending = rest, !.peer.deletes = IF rest = << >> THEN 0 ELSE @ - 1]
      BY <1>a, <1>9
    <3>2. w \in XShape /\ w.peer = n.peer
      BY <1>4, <2>1, XWrites
    <3> HIDE DEF w
    <3> QED BY ONLY <3>1, <3>2 DEF XShape, p
  <2>5. n.peer.deletes - 1 \in Nat
    BY <1>1
  <2>6. p \in XPeer /\ p.text = n.peer.text /\ p.requests = n.peer.requests
        /\ p.sending = rest /\ p.deletes = IF rest = << >> THEN 0 ELSE n.peer.deletes - 1
    BY ONLY <1>1, <1>2, <2>5 DEF XPeer, p
  <2>7. ASSUME n.lib.pc # "idle", ~n.lib.late
        PROVE  p.requests = 0 /\ p.sending = << >> /\ n.lib.buffer = Whole(s.text)
    <3>1. s.next = 3
      BY <1>3, <1>9
    <3>2. Upto(s.text, 3) = Whole(s.text)
      BY DEF Upto
    <3> QED BY <1>2, <1>5, <2>6, <2>7, <3>1, <3>2
  <2> HIDE DEF w, p
  <2>8. c = W(p, data)
    BY <2>4 DEF w, W
  <2>9. p.sending = << >> => p.deletes = 0
    BY <2>6
  <2>10. Goes(p, data)
    BY <2>7 DEF Goes
  <2>11. p.text = n.peer.text /\ p \in XPeer
    BY <2>6
  <2> HIDE DEF data
  <2> QED BY <1>7, <2>1, <2>8, <2>9, <2>10, <2>11
<1> QED BY <1>8, <1>9

-----------------------------------------------------------------------------
(* Clipboards: Win32 and Cocoa *)

LEMMA DFields ==
  ASSUME NEW n \in DShape
  PROVE  /\ n.board \in Board /\ n.board.text \in Texts /\ n.lib \in DLib /\ n.lib.late = FALSE
         /\ n.lib.dragged = FALSE /\ n.lib.pc = "idle" /\ n.lib.buffer = << >>
         /\ n.server \in {NoProperty} /\ n.peer \in XPeer /\ n.wire \in {<< >>}
         /\ n.seen \in SUBSET Texts /\ n.last \in Last
BY DEF DShape, Board, DLib

LEMMA DPutsKeeps ==
  ASSUME NEW n \in DShape, DInv(n), NEW owner \in {"us", "peer", "none"}, NEW t \in Texts
  PROVE  DInv(OnBoard(n, owner, t)) /\ Puts(n, OnBoard(n, owner, t))
<1> DEFINE b == [owner |-> owner, text |-> t]
<1> DEFINE c == OnBoard(n, owner, t)
<1>1. c = [n EXCEPT !.board = b, !.seen = n.seen \cup {t}]
  BY DEF OnBoard, DShape
<1>2. b \in Board /\ b.text = t
  BY DEF Board
<1> HIDE DEF b, c
<1>3. c \in DShape /\ c.board = b /\ c.seen = n.seen \cup {t} /\ c.last = n.last
  BY <1>1, <1>2, DFields DEF DShape
<1>4. DInv(c) /\ Puts(n, c)
  BY <1>2, <1>3 DEF DInv, Puts
<1> QED BY <1>4 DEF c

LEMMA DEndsKeeps ==
  ASSUME NEW n \in DShape, DInv(n), NEW e \in BOOLEAN,
         NEW v, v = << >> \/ (n.board.text # Nothing /\ v = Whole(n.board.text)),
         e \/ v # << >> \/ n.board.text = Nothing
  PROVE  DInv(Ends(Heard(n), v, e)) /\ Looks(n, Ends(Heard(n), v, e))
<1> DEFINE l == [answer |-> IF v = << >> THEN Nothing ELSE v,
                 late |-> n.lib.late, dragged |-> n.lib.dragged,
                 owed |-> ~e /\ ~n.lib.late /\ Nothing \notin {n.board.text}]
           k == [n.lib EXCEPT !.pc = "idle", !.buffer = << >>]
           c == Ends(Heard(n), v, e)
<1>1. c = [n EXCEPT !.lib = k, !.seen = {n.board.text}, !.last = l]
  BY DEF Ends, Heard, DShape
<1>2. k \in DLib
  BY DFields DEF DLib
<1>3. n.board.text # Nothing => n.board.text \in Text /\ Whole(n.board.text) \in Seq(Part)
                                /\ Whole(n.board.text) # << >>
  BY DFields, TextsDiffer, TextProperty DEF Texts
<1>4. l.answer = (IF v = << >> THEN Nothing ELSE v) /\ l.late = FALSE /\ l.dragged = FALSE
      /\ l.owed = (~e /\ n.board.text # Nothing)
  BY DFields
<1>5. l.answer = Nothing \/ l.answer \in Seq(Part)
  <2> HIDE DEF l, Part
  <2> QED BY <1>3, <1>4
<1>6. l \in Last
  <2>1. l = [answer |-> l.answer, late |-> l.late, dragged |-> l.dragged, owed |-> l.owed]
    OBVIOUS
  <2> HIDE DEF l
  <2>2. l.late \in BOOLEAN /\ l.dragged \in BOOLEAN /\ l.owed \in BOOLEAN
    BY <1>4
  <2> HIDE DEF Part
  <2> QED BY <1>5, <2>1, <2>2 DEF Last
<1> HIDE DEF l, k, c
<1>7. c \in DShape /\ c.board = n.board /\ c.seen = {n.board.text} /\ c.last = l
  BY <1>1, <1>2, <1>6, DFields DEF DShape
<1>8. Answers(l)
  BY <1>3, <1>4, TextsDiffer DEF Answers
<1>9. Ended(c)
  BY <1>3, <1>4, <1>7 DEF Ended
<1>10. DInv(c) /\ Looks(n, c)
  BY <1>4, <1>7, <1>8, <1>9 DEF DInv, Looks
<1> QED BY <1>10 DEF c

LEMMA DSetKeeps ==
  ASSUME NEW n \in DShape, DInv(n), NEW t \in Text, NEW at \in {"open", "set", "done"}
  PROVE  DInv(DSet(n, t, at)) /\ (DSet(n, t, at) = n \/ Puts(n, DSet(n, t, at)))
<1>1. DSet(n, t, at) \in {n, OnBoard(n, "none", Nothing), OnBoard(n, "us", t)}
  <2>1. CASE at = "open"
    BY <2>1 DEF DSet, Win32Set, CocoaSet
  <2>2. CASE at = "set"
    BY <2>2 DEF DSet, Win32Set, CocoaSet
  <2>3. CASE at = "done"
    BY <2>3 DEF DSet, Win32Set, CocoaSet
  <2> QED BY <2>1, <2>2, <2>3
<1>2. t \in Texts /\ Nothing \in Texts
  BY TextsDiffer
<1>3. /\ DInv(OnBoard(n, "none", Nothing)) /\ Puts(n, OnBoard(n, "none", Nothing))
      /\ DInv(OnBoard(n, "us", t)) /\ Puts(n, OnBoard(n, "us", t))
  BY <1>2, DPutsKeeps
<1> QED BY <1>1, <1>3

LEMMA DGetKeeps ==
  ASSUME NEW n \in DShape, DInv(n), NEW opened \in BOOLEAN
  PROVE  /\ DInv(Win32Get(n, opened)) /\ Looks(n, Win32Get(n, opened))
         /\ DInv(CocoaGet(n)) /\ Looks(n, CocoaGet(n))
<1>1. ASSUME NEW o \in BOOLEAN
      PROVE  /\ DInv(Ends(Heard(n), IF ~o \/ n.board.text = Nothing THEN << >> ELSE Whole(n.board.text), ~o))
             /\ Looks(n, Ends(Heard(n), IF ~o \/ n.board.text = Nothing THEN << >> ELSE Whole(n.board.text), ~o))
  <2> DEFINE v == IF ~o \/ n.board.text = Nothing THEN << >> ELSE Whole(n.board.text)
             e == ~o
  <2>1. v = << >> \/ (n.board.text # Nothing /\ v = Whole(n.board.text))
    OBVIOUS
  <2>2. e \/ v # << >> \/ n.board.text = Nothing
    BY DFields, TextProperty DEF Texts
  <2>3. e \in BOOLEAN
    OBVIOUS
  <2> HIDE DEF v, e
  <2>4. DInv(Ends(Heard(n), v, e)) /\ Looks(n, Ends(Heard(n), v, e))
    BY <2>1, <2>2, <2>3, DEndsKeeps
  <2> QED BY <2>4 DEF v, e
<1>2. DInv(Win32Get(n, opened)) /\ Looks(n, Win32Get(n, opened))
  BY <1>1, Zenon DEF Win32Get
<1>3. CocoaGet(n) = Ends(Heard(n), IF ~TRUE \/ n.board.text = Nothing THEN << >> ELSE Whole(n.board.text), ~TRUE)
  BY DEF CocoaGet
<1>4. DInv(CocoaGet(n)) /\ Looks(n, CocoaGet(n))
  BY <1>1, <1>3, Zenon
<1> QED BY <1>2, <1>4

-----------------------------------------------------------------------------
(* Clipboards: what a Wayland window learns *)

LEMMA LearntIs ==
  ASSUME NEW k, NEW w, Len(w) \in Nat
  PROVE  \E f : /\ f[0] = k /\ \A i \in 1 .. Len(w) : f[i] = Learns(f[i - 1], w[i])
                /\ Learnt(k, w) = f[Len(w)]
<1> DEFINE L == Len(w)
           Run(f, j) == f = [i \in 0 .. j |-> IF i = 0 THEN k ELSE Learns(f[i - 1], w[i])]
           S == {j \in 0 .. L : \E f : Run(f, j)}
<1>1. 0 \in S
  <2> DEFINE g == [i \in 0 .. 0 |-> k]
  <2>1. g = [i \in 0 .. 0 |-> IF i = 0 THEN k ELSE Learns(g[i - 1], w[i])]
    OBVIOUS
  <2> HIDE DEF g
  <2>2. Run(g, 0)
    BY <2>1
  <2> HIDE DEF Run
  <2> QED BY <2>2
<1>2. ASSUME NEW j \in 0 .. L, j \in S, j < L PROVE j + 1 \in S
  <2>1. PICK f : Run(f, j)
    BY <1>2
  <2> DEFINE g == [i \in 0 .. j + 1 |-> IF i <= j THEN f[i] ELSE Learns(f[j], w[j + 1])]
  <2>2. \A i \in 0 .. j : f[i] = IF i = 0 THEN k ELSE Learns(f[i - 1], w[i])
    BY <2>1
  <2>3. \A i \in 0 .. j + 1 : g[i] = IF i = 0 THEN k ELSE Learns(g[i - 1], w[i])
    <3>1. ASSUME NEW i \in 0 .. j + 1 PROVE g[i] = IF i = 0 THEN k ELSE Learns(g[i - 1], w[i])
      <4>1. CASE i = 0
        BY <2>2, <4>1
      <4>2. CASE i \in 1 .. j
        <5>1. g[i] = f[i] /\ g[i - 1] = f[i - 1]
          BY <4>2
        <5> QED BY <2>2, <4>2, <5>1
      <4>3. CASE i = j + 1
        <5>1. g[i] = Learns(f[j], w[j + 1]) /\ g[i - 1] = f[j] /\ i # 0
          BY <4>3
        <5> HIDE DEF g
        <5> QED BY <4>3, <5>1
      <4> QED BY <4>1, <4>2, <4>3
    <3> HIDE DEF g
    <3> QED BY <3>1
  <2>4. g = [i \in 0 .. j + 1 |-> g[i]]
    OBVIOUS
  <2> HIDE DEF g
  <2>5. g = [i \in 0 .. j + 1 |-> IF i = 0 THEN k ELSE Learns(g[i - 1], w[i])]
    BY <2>3, <2>4
  <2>6. Run(g, j + 1) /\ j + 1 \in 0 .. L
    BY <1>2, <2>5
  <2> HIDE DEF Run
  <2> QED BY <2>6
<1>3. S = 0 .. L
  <2>1. S \in SUBSET (0 .. L)
    OBVIOUS
  <2> HIDE DEF S, L
  <2>2. L \in Nat
    BY DEF L
  <2> QED BY <1>1, <1>2, <2>1, <2>2, Counting
<1>4. \E f : Run(f, L)
  <2>1. L \in 0 .. L
    OBVIOUS
  <2> HIDE DEF Run, L
  <2> QED BY <1>3, <2>1
<1> DEFINE h == CHOOSE f : Run(f, L)
<1>5. Run(h, L)
  <2> HIDE DEF Run
  <2> QED BY <1>4
<1>6. Learnt(k, w) = h[L]
  BY Zenon DEF Learnt
<1> HIDE DEF h
<1>7. h[0] = k /\ \A i \in 1 .. L : h[i] = Learns(h[i - 1], w[i])
  <2>1. h = [i \in 0 .. L |-> IF i = 0 THEN k ELSE Learns(h[i - 1], w[i])]
    BY <1>5
  <2>2. \A i \in 0 .. L : h[i] = IF i = 0 THEN k ELSE Learns(h[i - 1], w[i])
    BY <2>1
  <2> QED BY <2>2
<1> QED BY <1>6, <1>7

LEMMA LearntNothing ==
  ASSUME NEW k PROVE Learnt(k, << >>) = k
<1>1. Len(<< >>) \in Nat /\ Len(<< >>) = 0
  OBVIOUS
<1> QED BY <1>1, LearntIs

LEMMA LearntMore ==
  ASSUME NEW k, NEW w \in Seq(WMessage), NEW m \in WMessage
  PROVE  Learnt(k, Append(w, m)) = Learns(Learnt(k, w), m)
<1> DEFINE v == Append(w, m)
<1>1. /\ Len(v) = Len(w) + 1 /\ Len(w) \in Nat /\ v[Len(w) + 1] = m
      /\ \A i \in 1 .. Len(w) : v[i] = w[i]
  BY AppendOf
<1> HIDE DEF v
<1>2. PICK f : /\ f[0] = k /\ \A i \in 1 .. Len(w) : f[i] = Learns(f[i - 1], w[i])
               /\ Learnt(k, w) = f[Len(w)]
  BY <1>1, LearntIs
<1>3. PICK g : /\ g[0] = k /\ \A i \in 1 .. Len(v) : g[i] = Learns(g[i - 1], v[i])
               /\ Learnt(k, v) = g[Len(v)]
  BY <1>1, LearntIs
<1> DEFINE S == {j \in 0 .. Len(w) : f[j] = g[j]}
<1>4. 0 \in S
  BY <1>1, <1>2, <1>3
<1>5. ASSUME NEW j \in 0 .. Len(w), j \in S, j < Len(w) PROVE j + 1 \in S
  <2>1. f[j] = g[j] /\ j + 1 \in 1 .. Len(w) /\ j + 1 \in 1 .. Len(v) /\ (j + 1) - 1 = j
    BY <1>1, <1>5
  <2>2. f[j + 1] = Learns(f[j], w[j + 1]) /\ g[j + 1] = Learns(g[j], v[j + 1])
    BY <1>2, <1>3, <2>1
  <2> QED BY <1>1, <2>1, <2>2
<1>6. S = 0 .. Len(w)
  <2>1. S \in SUBSET (0 .. Len(w))
    OBVIOUS
  <2> HIDE DEF S
  <2> QED BY <1>1, <1>4, <1>5, <2>1, Counting
<1>7. f[Len(w)] = g[Len(w)]
  BY <1>1, <1>6
<1>8. Len(v) \in 1 .. Len(v) /\ Len(v) - 1 = Len(w)
  BY <1>1
<1>9. g[Len(v)] = Learns(g[Len(w)], m)
  BY <1>1, <1>3, <1>8
<1>10. Learnt(k, v) = Learns(Learnt(k, w), m)
  BY <1>2, <1>3, <1>7, <1>9
<1> QED BY <1>10 DEF v

-----------------------------------------------------------------------------
(* Clipboards: the listeners *)

LEMMA WFields ==
  ASSUME NEW n \in WShape
  PROVE  /\ n.board \in Board /\ n.board.owner \in {"us", "peer", "none"} /\ n.board.text \in Texts
         /\ n.lib \in WLib /\ n.lib.source \in Nat /\ n.lib.offered \in Texts /\ n.lib.offer \in Offer
         /\ n.lib.hasText \in BOOLEAN /\ n.lib.pc \in {"idle", "pipe"} /\ n.lib.buffer \in Seq(Part)
         /\ n.lib.late \in BOOLEAN /\ n.lib.dragged \in BOOLEAN
         /\ n.server \in WServer /\ n.server.current \in Int /\ n.server.ids \in Nat
         /\ n.server.texts \in Seq(Text)
         /\ n.server.requests \in Seq([source : Nat, destroyed : Nat])
         /\ n.peer \in WPeer /\ n.peer.focused \in BOOLEAN /\ n.peer.pipe \in Offer
         /\ n.peer.next \in 1 .. 3 /\ n.peer.asked \in Int /\ n.peer.got \in Offer
         /\ n.wire \in Seq(WMessage) /\ n.seen \in SUBSET Texts /\ n.last \in Last
BY DEF WShape, Board, WLib, WServer, WPeer

LEMMA WMessageIs ==
  ASSUME NEW m \in WMessage
  PROVE  /\ m.type \in {"offer", "selection", "send", "cancelled"}
         /\ m.type = "offer" => m.text \in BOOLEAN /\ m.drag \in BOOLEAN
         /\ m.type = "selection" => m.offer \in Offer
         /\ m.type = "send" => m.source \in Int
         /\ m.type = "cancelled" => m.source \in Int /\ m = [type |-> "cancelled", source |-> m.source]
<1> HIDE DEF Offer
<1> QED BY DEF WMessage

LEMMA NoOfferIs == NoOffer \in Offer /\ NoOffer.source = 0 /\ NoOffer.text = Nothing
BY TextsDiffer DEF NoOffer, Offer, NoSource

LEMMA WTells ==
  ASSUME NEW n \in WShape, NEW m \in WMessage
  PROVE  /\ Tell(n, m) \in WShape
         /\ Tell(n, m).board = n.board /\ Tell(n, m).server = n.server
         /\ Tell(n, m).lib = n.lib /\ Tell(n, m).peer = n.peer /\ Tell(n, m).seen = n.seen
         /\ Tell(n, m).last = n.last
         /\ Tell(n, m).wire = Append(n.wire, m)
BY WFields, AppendOf DEF Tell, WShape

\* What messages to libnack leave of a state, and keep.
After(n, s) ==
  /\ s \in WShape /\ s.board = n.board /\ s.server = n.server /\ s.wire = n.wire
  /\ s.seen = n.seen /\ s.last = n.last
  /\ s.lib.pc = n.lib.pc /\ s.lib.buffer = n.lib.buffer /\ s.lib.late = n.lib.late
  /\ s.peer.focused = n.peer.focused /\ s.peer.pipe = n.peer.pipe /\ s.peer.next = n.peer.next
  /\ WSource(s) /\ WServed(s) /\ Sound(s.lib.offer, n)

LEMMA OfferHandled ==
  ASSUME NEW n \in WShape, NEW s \in WShape, After(n, s), NEW m \in WMessage, m.type = "offer"
  PROVE  After(n, WDataOffer(s, m)) /\ Known(WDataOffer(s, m).lib) = Learns(Known(s.lib), m)
         /\ WDataOffer(s, m).lib.source = s.lib.source
<1> DEFINE l == [s.lib EXCEPT !.hasText = m.text, !.dragged = m.drag]
           c == WDataOffer(s, m)
<1>1. s.lib \in WLib /\ m.text \in BOOLEAN /\ m.drag \in BOOLEAN
  BY WFields, WMessageIs
<1>2. c = [s EXCEPT !.lib = l]
  BY DEF WDataOffer, WShape
<1>3. /\ l \in WLib /\ l.hasText = m.text /\ l.dragged = m.drag /\ l.offer = s.lib.offer
      /\ l.source = s.lib.source /\ l.offered = s.lib.offered /\ l.pc = s.lib.pc
      /\ l.buffer = s.lib.buffer /\ l.late = s.lib.late
  <2> HIDE DEF Part, Offer
  <2> QED BY <1>1 DEF WLib
<1> HIDE DEF l, c
<1>4. /\ c \in WShape /\ c.lib = l /\ c.board = s.board /\ c.server = s.server /\ c.peer = s.peer
      /\ c.wire = s.wire /\ c.seen = s.seen /\ c.last = s.last
  BY <1>2, <1>3, WFields DEF WShape
<1>5. After(n, c)
  BY <1>3, <1>4 DEF After, WSource, WServed
<1>6. Known(c.lib) = Learns(Known(s.lib), m)
  BY <1>3, <1>4 DEF Known, Learns
<1> QED BY <1>3, <1>4, <1>5, <1>6 DEF c

LEMMA SelectionHandled ==
  ASSUME NEW n \in WShape, NEW s \in WShape, After(n, s), NEW m \in WMessage, m.type = "selection",
         Sound(m.offer, n)
  PROVE  After(n, WSelection(s, m)) /\ Known(WSelection(s, m).lib) = Learns(Known(s.lib), m)
         /\ WSelection(s, m).lib.source = s.lib.source
<1> DEFINE has == IF m.offer = NoOffer THEN FALSE ELSE s.lib.hasText
           l == [s.lib EXCEPT !.offer = m.offer, !.hasText = has]
           c == WSelection(s, m)
<1>1. s.lib \in WLib /\ m.offer \in Offer /\ has \in BOOLEAN
  BY WFields, WMessageIs
<1>2. c = [s EXCEPT !.lib = l]
  BY DEF WSelection, WShape
<1>a. has = (m.offer # NoOffer /\ s.lib.hasText)
  BY WFields
<1> HIDE DEF has
<1>3. /\ l \in WLib /\ l.hasText = has /\ l.dragged = s.lib.dragged /\ l.offer = m.offer
      /\ l.source = s.lib.source /\ l.offered = s.lib.offered /\ l.pc = s.lib.pc
      /\ l.buffer = s.lib.buffer /\ l.late = s.lib.late
  <2> HIDE DEF Part, Offer
  <2> QED BY <1>1 DEF WLib
<1> HIDE DEF l, c
<1>4. /\ c \in WShape /\ c.lib = l /\ c.board = s.board /\ c.server = s.server /\ c.peer = s.peer
      /\ c.wire = s.wire /\ c.seen = s.seen /\ c.last = s.last
  BY <1>2, <1>3, WFields DEF WShape
<1>5. After(n, c)
  BY <1>3, <1>4 DEF After, WSource, WServed
<1>6. Known(c.lib) = Learns(Known(s.lib), m)
  <2>1. Known(c.lib) = [offer |-> m.offer, hasText |-> has, dragged |-> s.lib.dragged]
    BY <1>3, <1>4 DEF Known
  <2>2. Known(s.lib).hasText = s.lib.hasText /\ Known(s.lib).dragged = s.lib.dragged
    BY DEF Known
  <2>3. Learns(Known(s.lib), m) = [offer |-> m.offer, hasText |-> (m.offer # NoOffer /\ Known(s.lib).hasText),
                                   dragged |-> Known(s.lib).dragged]
    BY DEF Learns
  <2> QED BY <1>a, <2>1, <2>2, <2>3
<1> QED BY <1>3, <1>4, <1>5, <1>6 DEF c

LEMMA SendHandled ==
  ASSUME NEW n \in WShape, NEW s \in WShape, After(n, s), NEW m \in WMessage, m.type = "send"
  PROVE  After(n, WSend(s, m)) /\ Known(WSend(s, m).lib) = Learns(Known(s.lib), m)
         /\ WSend(s, m).lib.source = s.lib.source
<1> DEFINE g == [source |-> m.source, text |-> s.lib.offered]
           p == IF s.lib.source # m.source THEN [s.peer EXCEPT !.asked = NoSource]
                ELSE [s.peer EXCEPT !.got = g, !.asked = NoSource]
           c == WSend(s, m)
<1>1. s.peer \in WPeer /\ m.source \in Int /\ s.lib.offered \in Texts
  BY WFields, WMessageIs
<1>2. c = [s EXCEPT !.peer = p]
  BY DEF WSend, WShape
<1>3. g \in Offer /\ NoSource \in Int
  BY <1>1 DEF Offer, NoSource
<1>4. g = NoOffer \/ Ours(g, s.server.texts) \/ s.lib.source # m.source
  <2>1. CASE s.lib.source = NoSource /\ s.lib.source = m.source
    BY <2>1 DEF After, WSource, NoOffer
  <2>2. CASE s.lib.source # NoSource /\ s.lib.source = m.source
    <3>1. s.lib.source = Len(s.server.texts) /\ s.lib.offered = s.server.texts[s.lib.source]
      BY <2>2 DEF After, WSource
    <3>2. s.lib.source \in Nat
      BY WFields
    <3> QED BY <2>2, <3>1, <3>2 DEF Ours, NoSource
  <2> QED BY <2>1, <2>2
<1> HIDE DEF g
<1>5. /\ p \in WPeer /\ p.focused = s.peer.focused /\ p.pipe = s.peer.pipe /\ p.next = s.peer.next
      /\ (p.got = s.peer.got \/ p.got = NoOffer \/ Ours(p.got, s.server.texts))
  <2> HIDE DEF Offer, NoOffer, Ours
  <2>1. CASE s.lib.source # m.source
    BY <1>1, <1>3, <2>1 DEF WPeer
  <2>2. CASE s.lib.source = m.source
    <3>1. p = [s.peer EXCEPT !.got = g, !.asked = NoSource]
      BY <2>2
    <3>2. p \in WPeer /\ p.focused = s.peer.focused /\ p.pipe = s.peer.pipe /\ p.next = s.peer.next
          /\ p.got = g
      <4> HIDE DEF p
      <4> QED BY <1>1, <1>3, <3>1 DEF WPeer
    <3> QED BY <1>4, <2>2, <3>2
  <2> QED BY <2>1, <2>2
<1> HIDE DEF p, c
<1>6. /\ c \in WShape /\ c.lib = s.lib /\ c.board = s.board /\ c.server = s.server /\ c.peer = p
      /\ c.wire = s.wire /\ c.seen = s.seen /\ c.last = s.last
  BY <1>2, <1>5, WFields DEF WShape
<1>7. WServed(c)
  BY <1>5, <1>6 DEF WServed, After
<1>8. After(n, c)
  BY <1>5, <1>6, <1>7 DEF After, WSource
<1>9. Known(c.lib) = Learns(Known(s.lib), m)
  BY <1>6 DEF Learns
<1> QED BY <1>6, <1>8, <1>9 DEF c

LEMMA CancelledHandled ==
  ASSUME NEW n \in WShape, NEW s \in WShape, After(n, s), NEW m \in WMessage, m.type = "cancelled"
  PROVE  After(n, WCancelled(s, m)) /\ Known(WCancelled(s, m).lib) = Learns(Known(s.lib), m)
         /\ \/ WCancelled(s, m).lib.source = NoSource
            \/ WCancelled(s, m).lib.source = s.lib.source /\ m # [type |-> "cancelled", source |-> s.lib.source]
<1> DEFINE c == WCancelled(s, m)
<1>1. CASE s.lib.source # m.source
  <2>1. c = s
    BY <1>1 DEF WCancelled
  <2>2. Known(c.lib) = Learns(Known(s.lib), m)
    BY <2>1 DEF Learns
  <2>3. m # [type |-> "cancelled", source |-> s.lib.source]
    BY <1>1
  <2> QED BY <2>1, <2>2, <2>3
<1>2. CASE s.lib.source = m.source
  <2> DEFINE l == [s.lib EXCEPT !.source = NoSource, !.offered = Nothing]
  <2>1. s.lib \in WLib /\ NoSource \in Nat /\ Nothing \in Texts
    BY WFields, TextsDiffer DEF NoSource
  <2>2. c = [s EXCEPT !.lib = l]
    BY <1>2 DEF WCancelled, WShape
  <2>3. /\ l \in WLib /\ l.hasText = s.lib.hasText /\ l.dragged = s.lib.dragged /\ l.offer = s.lib.offer
        /\ l.source = NoSource /\ l.offered = Nothing /\ l.pc = s.lib.pc
        /\ l.buffer = s.lib.buffer /\ l.late = s.lib.late
    <3> HIDE DEF Part, Offer, NoSource
    <3> QED BY <2>1 DEF WLib
  <2> HIDE DEF l, c
  <2>4. /\ c \in WShape /\ c.lib = l /\ c.board = s.board /\ c.server = s.server /\ c.peer = s.peer
        /\ c.wire = s.wire /\ c.seen = s.seen /\ c.last = s.last
    BY <2>2, <2>3, WFields DEF WShape
  <2>5. After(n, c)
    BY <2>3, <2>4 DEF After, WSource, WServed
  <2>6. Known(c.lib) = Learns(Known(s.lib), m)
    BY <2>3, <2>4 DEF Known, Learns
  <2> QED BY <2>3, <2>4, <2>5, <2>6 DEF c
<1> QED BY <1>1, <1>2

LEMMA HandledIs ==
  ASSUME NEW s, NEW m \in WMessage
  PROVE  WHandle(s, m) = CASE m.type = "offer"     -> WDataOffer(s, m)
                           [] m.type = "selection" -> WSelection(s, m)
                           [] m.type = "send"      -> WSend(s, m)
                           [] m.type = "cancelled" -> WCancelled(s, m)
<1>0. m.type \in {"offer", "selection", "send", "cancelled"}
  BY WMessageIs
<1>1. CASE m.type = "offer"
  BY <1>1 DEF WHandle, DataHandle, PrimaryOffered
<1>2. CASE m.type = "selection"
  BY <1>2 DEF WHandle, DataHandle, PrimaryOffered
<1>3. CASE m.type = "send"
  BY <1>3 DEF WHandle, DataHandle, PrimarySource
<1>4. CASE m.type = "cancelled"
  BY <1>4 DEF WHandle, DataHandle, PrimarySource
<1> QED BY <1>0, <1>1, <1>2, <1>3, <1>4

LEMMA HandleKeeps ==
  ASSUME NEW n \in WShape, NEW s \in WShape, After(n, s), NEW m \in WMessage,
         m.type = "selection" => Sound(m.offer, n)
  PROVE  /\ After(n, WHandle(s, m)) /\ Known(WHandle(s, m).lib) = Learns(Known(s.lib), m)
         /\ \/ WHandle(s, m).lib.source = NoSource
            \/ WHandle(s, m).lib.source = s.lib.source /\ m # [type |-> "cancelled", source |-> s.lib.source]
<1>0. m.type \in {"offer", "selection", "send", "cancelled"}
  BY WMessageIs
<1>1. m.type # "cancelled" => m # [type |-> "cancelled", source |-> s.lib.source]
  OBVIOUS
<1>2. CASE m.type = "offer"
  <2>1. WHandle(s, m) = WDataOffer(s, m)
    BY <1>2, HandledIs
  <2> QED BY <1>1, <1>2, <2>1, OfferHandled
<1>3. CASE m.type = "selection"
  <2>1. WHandle(s, m) = WSelection(s, m)
    BY <1>3, HandledIs
  <2> QED BY <1>1, <1>3, <2>1, SelectionHandled
<1>4. CASE m.type = "send"
  <2>1. WHandle(s, m) = WSend(s, m)
    BY <1>4, HandledIs
  <2> QED BY <1>1, <1>4, <2>1, SendHandled
<1>5. CASE m.type = "cancelled"
  <2>1. WHandle(s, m) = WCancelled(s, m)
    BY <1>5, HandledIs
  <2> QED BY <1>5, <2>1, CancelledHandled
<1> QED BY <1>0, <1>2, <1>3, <1>4, <1>5

-----------------------------------------------------------------------------
(* Clipboards: all messages there are *)

LEMMA DispatchedIs ==
  ASSUME NEW n, Len(n.wire) \in Nat
  PROVE  \E f : /\ f[0] = n /\ \A i \in 1 .. Len(n.wire) : f[i] = WHandle(f[i - 1], n.wire[i])
                /\ WDispatched(n) = [f[Len(n.wire)] EXCEPT !.wire = << >>]
<1> DEFINE L == Len(n.wire)
           Run(f, j) == f = [i \in 0 .. j |-> IF i = 0 THEN n ELSE WHandle(f[i - 1], n.wire[i])]
           S == {j \in 0 .. L : \E f : Run(f, j)}
<1>1. 0 \in S
  <2> DEFINE g == [i \in 0 .. 0 |-> n]
  <2>1. g = [i \in 0 .. 0 |-> IF i = 0 THEN n ELSE WHandle(g[i - 1], n.wire[i])]
    OBVIOUS
  <2> HIDE DEF g
  <2>2. Run(g, 0)
    BY <2>1
  <2> HIDE DEF Run
  <2> QED BY <2>2
<1>2. ASSUME NEW j \in 0 .. L, j \in S, j < L PROVE j + 1 \in S
  <2>1. PICK f : Run(f, j)
    BY <1>2
  <2> DEFINE g == [i \in 0 .. j + 1 |-> IF i <= j THEN f[i] ELSE WHandle(f[j], n.wire[j + 1])]
  <2>2. \A i \in 0 .. j : f[i] = IF i = 0 THEN n ELSE WHandle(f[i - 1], n.wire[i])
    BY <2>1
  <2>3. \A i \in 0 .. j + 1 : g[i] = IF i = 0 THEN n ELSE WHandle(g[i - 1], n.wire[i])
    <3>1. ASSUME NEW i \in 0 .. j + 1 PROVE g[i] = IF i = 0 THEN n ELSE WHandle(g[i - 1], n.wire[i])
      <4>1. CASE i = 0
        BY <2>2, <4>1
      <4>2. CASE i \in 1 .. j
        <5>1. g[i] = f[i] /\ g[i - 1] = f[i - 1]
          BY <4>2
        <5> QED BY <2>2, <4>2, <5>1
      <4>3. CASE i = j + 1
        <5>1. g[i] = WHandle(f[j], n.wire[j + 1]) /\ g[i - 1] = f[j] /\ i # 0
          BY <4>3
        <5> HIDE DEF g
        <5> QED BY <4>3, <5>1
      <4> QED BY <4>1, <4>2, <4>3
    <3> HIDE DEF g
    <3> QED BY <3>1
  <2>4. g = [i \in 0 .. j + 1 |-> g[i]]
    OBVIOUS
  <2> HIDE DEF g
  <2>5. g = [i \in 0 .. j + 1 |-> IF i = 0 THEN n ELSE WHandle(g[i - 1], n.wire[i])]
    BY <2>3, <2>4
  <2>6. Run(g, j + 1) /\ j + 1 \in 0 .. L
    BY <1>2, <2>5
  <2> HIDE DEF Run
  <2> QED BY <2>6
<1>3. S = 0 .. L
  <2>1. S \in SUBSET (0 .. L)
    OBVIOUS
  <2> HIDE DEF S, L
  <2>2. L \in Nat
    BY DEF L
  <2> QED BY <1>1, <1>2, <2>1, <2>2, Counting
<1>4. \E f : Run(f, L)
  <2>1. L \in 0 .. L
    OBVIOUS
  <2> HIDE DEF Run, L
  <2> QED BY <1>3, <2>1
<1> DEFINE h == CHOOSE f : Run(f, L)
<1>5. Run(h, L)
  <2> HIDE DEF Run
  <2> QED BY <1>4
<1>6. WDispatched(n) = [h[L] EXCEPT !.wire = << >>]
  BY Zenon DEF WDispatched
<1> HIDE DEF h
<1>7. h[0] = n /\ \A i \in 1 .. L : h[i] = WHandle(h[i - 1], n.wire[i])
  <2>1. h = [i \in 0 .. L |-> IF i = 0 THEN n ELSE WHandle(h[i - 1], n.wire[i])]
    BY <1>5
  <2>2. \A i \in 0 .. L : h[i] = IF i = 0 THEN n ELSE WHandle(h[i - 1], n.wire[i])
    BY <2>1
  <2> QED BY <2>2
<1> QED BY <1>6, <1>7

\* What is left when libnack has heard all messages.
Hears(n, d) ==
  /\ d \in WShape /\ d.board = n.board /\ d.server = n.server /\ d.wire = << >>
  /\ d.seen = n.seen /\ d.last = n.last
  /\ d.lib.pc = n.lib.pc /\ d.lib.buffer = n.lib.buffer /\ d.lib.late = n.lib.late
  /\ d.peer.focused = n.peer.focused /\ d.peer.pipe = n.peer.pipe /\ d.peer.next = n.peer.next
  /\ WSource(d) /\ WServed(d) /\ Sound(d.lib.offer, n)
  /\ Known(d.lib) = Learnt(Known(n.lib), n.wire)
  /\ \/ d.lib.source = NoSource
     \/ /\ d.lib.source = n.lib.source
        /\ \A i \in 1 .. Len(n.wire) :
             n.wire[i] # [type |-> "cancelled", source |-> n.lib.source]

LEMMA WDispatchKeeps ==
  ASSUME NEW n \in WShape, WSource(n), WServed(n), WOffers(n),
         NEW d, d = WDispatched(n)
  PROVE  Hears(n, d)
<1> DEFINE w == n.wire
           L == Len(w)
<1>1. L \in Nat /\ \A i \in 1 .. L : w[i] \in WMessage
  BY WFields, ElementOf
<1>2. PICK f : /\ f[0] = n /\ \A i \in 1 .. L : f[i] = WHandle(f[i - 1], w[i])
               /\ WDispatched(n) = [f[L] EXCEPT !.wire = << >>]
  BY <1>1, DispatchedIs
<1>3. PICK g : /\ g[0] = Known(n.lib) /\ \A i \in 1 .. L : g[i] = Learns(g[i - 1], w[i])
               /\ Learnt(Known(n.lib), w) = g[L]
  BY <1>1, LearntIs, SMTT(60)
<1> DEFINE Holds(i) == /\ After(n, f[i]) /\ Known(f[i].lib) = g[i]
                       /\ \/ f[i].lib.source = NoSource
                          \/ /\ f[i].lib.source = n.lib.source
                             /\ \A j \in 1 .. i : w[j] # [type |-> "cancelled", source |-> n.lib.source]
           S == {i \in 0 .. L : Holds(i)}
<1>4. Holds(0)
  <2>1. After(n, n)
    BY DEF After, WOffers
  <2> QED BY <1>2, <1>3, <2>1
<1>5. ASSUME NEW i \in 0 .. L, Holds(i), i < L PROVE Holds(i + 1)
  <2> DEFINE s == f[i]
             m == w[i + 1]
  <2>1. i + 1 \in 1 .. L /\ (i + 1) - 1 = i
    BY <1>1, <1>5
  <2>2. f[i + 1] = WHandle(s, m) /\ g[i + 1] = Learns(g[i], m) /\ m \in WMessage
    BY <1>1, <1>2, <1>3, <2>1
  <2>3. m.type = "selection" => Sound(m.offer, n)
    BY <2>1 DEF WOffers
  <2>4. s \in WShape /\ After(n, s) /\ Known(s.lib) = g[i]
    BY <1>5 DEF After
  <2>5. \/ s.lib.source = NoSource
        \/ /\ s.lib.source = n.lib.source
           /\ \A j \in 1 .. i : w[j] # [type |-> "cancelled", source |-> n.lib.source]
    BY <1>5
  <2> HIDE DEF s, m, Holds
  <2>6. /\ After(n, WHandle(s, m)) /\ Known(WHandle(s, m).lib) = Learns(Known(s.lib), m)
        /\ \/ WHandle(s, m).lib.source = NoSource
           \/ WHandle(s, m).lib.source = s.lib.source /\ m # [type |-> "cancelled", source |-> s.lib.source]
    BY <2>2, <2>3, <2>4, HandleKeeps
  <2>7. \/ f[i + 1].lib.source = NoSource
        \/ /\ f[i + 1].lib.source = n.lib.source
           /\ \A j \in 1 .. i + 1 : w[j] # [type |-> "cancelled", source |-> n.lib.source]
    <3>1. CASE f[i + 1].lib.source = NoSource
      BY <3>1
    <3>2. CASE f[i + 1].lib.source # NoSource
      <4>1. f[i + 1].lib.source = s.lib.source /\ m # [type |-> "cancelled", source |-> s.lib.source]
        BY <2>2, <2>6, <3>2
      <4>2. s.lib.source = n.lib.source
            /\ \A j \in 1 .. i : w[j] # [type |-> "cancelled", source |-> n.lib.source]
        BY <2>5, <3>2, <4>1
      <4>3. \A j \in 1 .. i + 1 : j \in 1 .. i \/ j = i + 1
        BY <1>5
      <4> QED BY <4>1, <4>2, <4>3 DEF m
    <3> QED BY <3>1, <3>2
  <2> QED BY <2>2, <2>4, <2>6, <2>7 DEF Holds
<1>6. S = 0 .. L
  <2>1. S \in SUBSET (0 .. L)
    OBVIOUS
  <2>2. 0 \in S
    BY <1>1, <1>4
  <2>3. ASSUME NEW i \in 0 .. L, i \in S, i < L PROVE i + 1 \in S
    <3>1. Holds(i)
      BY <2>3
    <3> HIDE DEF Holds
    <3>2. Holds(i + 1) /\ i + 1 \in 0 .. L
      BY <1>1, <1>5, <2>3, <3>1
    <3> QED BY <3>2
  <2> HIDE DEF S, L, Holds
  <2> QED BY <1>1, <2>1, <2>2, <2>3, Counting
<1>7. Holds(L)
  <2>1. L \in 0 .. L
    BY <1>1
  <2> HIDE DEF Holds
  <2> QED BY <1>6, <2>1
<1> DEFINE s == f[L]
<1>8. d = [s EXCEPT !.wire = << >>]
  BY <1>2
<1>9. /\ After(n, s) /\ s \in WShape /\ Known(s.lib) = Learnt(Known(n.lib), n.wire)
      /\ \/ s.lib.source = NoSource
         \/ /\ s.lib.source = n.lib.source
            /\ \A j \in 1 .. Len(n.wire) : n.wire[j] # [type |-> "cancelled", source |-> n.lib.source]
  <2>1. After(n, s) /\ Known(s.lib) = g[L]
    BY <1>7
  <2>2. s \in WShape
    BY <2>1 DEF After
  <2>3. \/ s.lib.source = NoSource
        \/ /\ s.lib.source = n.lib.source
           /\ \A j \in 1 .. L : w[j] # [type |-> "cancelled", source |-> n.lib.source]
    BY <1>7
  <2> QED BY <1>3, <2>1, <2>2, <2>3
<1> HIDE DEF s
<1>10. << >> \in Seq(WMessage)
  BY EmptySeq
<1>11. /\ d \in WShape /\ d.lib = s.lib /\ d.board = s.board /\ d.server = s.server /\ d.peer = s.peer
       /\ d.wire = << >> /\ d.seen = s.seen /\ d.last = s.last
  BY <1>8, <1>9, <1>10, WFields DEF WShape
<1> QED BY <1>9, <1>11 DEF Hears, After, WSource, WServed

-----------------------------------------------------------------------------
(* Clipboards: the Wayland compositor *)

\* The invariant, of the parts it speaks of.
LEMMA WTellKeeps ==
  ASSUME NEW n \in WShape, WCore(n), NEW m \in WMessage, m.type = "selection" => Sound(m.offer, n)
  PROVE  /\ WCore(Tell(n, m)) /\ (WWanted(n) => WWanted(Tell(n, m)))
         /\ m = [type |-> "cancelled", source |-> n.lib.source] /\ n.lib.offered \in n.seen
              => WWanted(Tell(n, m))
         /\ Learnt(Known(Tell(n, m).lib), Tell(n, m).wire) = Learns(Learnt(Known(n.lib), n.wire), m)
         /\ Asked(Tell(n, m)) = Asked(n)
<1> DEFINE c == Tell(n, m)
<1>1. /\ c \in WShape
      /\ c.board = n.board /\ c.server = n.server
      /\ c.lib = n.lib /\ c.peer = n.peer /\ c.seen = n.seen
      /\ c.last = n.last
      /\ c.wire = Append(n.wire, m)
  BY WTells
<1> HIDE DEF c
<1>2. /\ Len(c.wire) = Len(n.wire) + 1 /\ Len(n.wire) \in Nat
      /\ \A i \in 1 .. Len(n.wire) : c.wire[i] = n.wire[i]
      /\ c.wire[Len(n.wire) + 1] = m
  BY <1>1, WFields, AppendOf
<1>3. \A o : Sound(o, n) => Sound(o, c)
  BY <1>1 DEF Sound
<1>4. WOffers(c)
  <2>1. ASSUME NEW i \in 1 .. Len(c.wire), c.wire[i].type = "selection" PROVE Sound(c.wire[i].offer, c)
    <3>1. CASE i \in 1 .. Len(n.wire)
      BY <1>2, <1>3, <2>1, <3>1 DEF WCore, WOffers
    <3>2. CASE i = Len(n.wire) + 1
      BY <1>2, <1>3, <2>1, <3>2
    <3> QED BY <1>2, <3>1, <3>2
  <2> QED BY <1>1, <1>3, <2>1 DEF WCore, WOffers
<1>5. WCore(c)
  <2>1. WRequests(c) /\ WSeen(c) /\ WSource(c) /\ WServed(c) /\ WReading(c)
    BY <1>1 DEF WCore, WRequests, WSeen, Asked, WSource, WServed, WReading
  <2>2. WOwner(c)
    BY <1>1 DEF WCore, WOwner, Selected
  <2> QED BY <1>1, <1>4, <2>1, <2>2 DEF WCore
<1>6. WWanted(n) => WWanted(c)
  <2>1. \A x : (\E i \in 1 .. Len(n.wire) : n.wire[i] = x) => \E i \in 1 .. Len(c.wire) : c.wire[i] = x
    BY <1>2
  <2> QED BY <1>1, <2>1 DEF WWanted
<1>7. m = [type |-> "cancelled", source |-> n.lib.source] /\ n.lib.offered \in n.seen => WWanted(c)
  <2>1. \E i \in 1 .. Len(c.wire) : c.wire[i] = m
    BY <1>2
  <2> QED BY <1>1, <2>1 DEF WWanted
<1>8. Learnt(Known(c.lib), c.wire) = Learns(Learnt(Known(n.lib), n.wire), m)
  BY <1>1, WFields, LearntMore
<1>9. Asked(c) = Asked(n)
  BY <1>1 DEF Asked
<1> QED BY <1>5, <1>6, <1>7, <1>8, <1>9 DEF c

LEMMA WAnnounceKeeps ==
  ASSUME NEW n \in WShape, WCore(n)
  PROVE  /\ WCore(WAnnounce(n)) /\ WKnows(WAnnounce(n)) /\ (WWanted(n) => WWanted(WAnnounce(n)))
         /\ WAnnounce(n) \in WShape
         /\ WAnnounce(n).board = n.board /\ WAnnounce(n).server = n.server
         /\ WAnnounce(n).lib = n.lib /\ WAnnounce(n).peer = n.peer /\ WAnnounce(n).seen = n.seen
         /\ WAnnounce(n).last = n.last /\ Asked(WAnnounce(n)) = Asked(n)
<1> DEFINE c == WAnnounce(n)
<1>1. CASE ~n.peer.focused
  <2>1. c = n
    BY <1>1 DEF WAnnounce
  <2>2. WKnows(n)
    BY <1>1 DEF WKnows
  <2> QED BY <2>1, <2>2
<1>2. CASE n.peer.focused /\ n.board.owner = "none"
  <2> DEFINE m == [type |-> "selection", offer |-> NoOffer]
  <2>1. c = Tell(n, m)
    BY <1>2 DEF WAnnounce
  <2>2. m \in WMessage /\ m.type = "selection" /\ m.offer = NoOffer
    <3> HIDE DEF Offer, NoOffer
    <3> QED BY NoOfferIs DEF WMessage
  <2>3. Sound(m.offer, n)
    BY <2>2 DEF Sound
  <2> HIDE DEF m, c
  <2>4. /\ WCore(Tell(n, m)) /\ (WWanted(n) => WWanted(Tell(n, m)))
        /\ Learnt(Known(Tell(n, m).lib), Tell(n, m).wire) = Learns(Learnt(Known(n.lib), n.wire), m)
        /\ Asked(Tell(n, m)) = Asked(n)
    BY <2>2, <2>3, WTellKeeps
  <2>5. /\ c \in WShape
        /\ c.board = n.board /\ c.server = n.server
        /\ c.lib = n.lib /\ c.peer = n.peer /\ c.seen = n.seen
        /\ c.last = n.last /\ c.wire = Append(n.wire, m)
    BY <2>1, <2>2, WTells
  <2>6. Learns(Learnt(Known(n.lib), n.wire), m).offer = NoOffer
    BY <2>2 DEF Learns
  <2>7. WKnows(c)
    BY <1>2, <2>1, <2>4, <2>5, <2>6 DEF WKnows, Knows
  <2> QED BY <2>1, <2>4, <2>5, <2>7 DEF c
<1>3. CASE n.peer.focused /\ n.board.owner # "none"
  <2> DEFINE o == Selected(n)
             m1 == [type |-> "offer", text |-> o.text # Nothing, drag |-> FALSE]
             m2 == [type |-> "selection", offer |-> o]
             a == Tell(n, m1)
  <2>1. c = Tell(a, m2)
    BY <1>3 DEF WAnnounce, Selected
  <2>2. o \in Offer /\ o.source = n.server.current /\ o.text = n.board.text
    BY WFields DEF Selected, Offer
  <2>3. Sound(o, n) /\ o # NoOffer
    <3>1. n.board.owner \in {"us", "peer"}
      BY <1>3, WFields
    <3>2. WOwner(n)
      BY DEF WCore
    <3>3. CASE n.board.owner = "us"
      <4>1. Ours(o, n.server.texts)
        BY <3>2, <3>3 DEF WOwner
      <4>2. o.source # 0
        BY <4>1 DEF Ours
      <4> QED BY <4>1, <4>2, NoOfferIs DEF Sound
    <3>4. CASE n.board.owner = "peer"
      <4>1. o.source < 0 /\ -n.server.ids <= o.source
        BY <2>2, <3>2, <3>4 DEF WOwner
      <4> QED BY <2>2, <4>1, NoOfferIs DEF Sound
    <3> QED BY <3>1, <3>3, <3>4
  <2>4. o = Selected(n)
    OBVIOUS
  <2> HIDE DEF o
  <2>5. m1 \in WMessage /\ m1.type = "offer" /\ m1.text = (o.text # Nothing) /\ m1.drag = FALSE
    BY DEF WMessage
  <2>6. m2 \in WMessage /\ m2.type = "selection" /\ m2.offer = o
    <3> HIDE DEF Offer
    <3> QED BY <2>2 DEF WMessage
  <2> HIDE DEF m1, m2, a, c
  <2>7. /\ WCore(a) /\ (WWanted(n) => WWanted(a))
        /\ Learnt(Known(a.lib), a.wire) = Learns(Learnt(Known(n.lib), n.wire), m1)
        /\ Asked(a) = Asked(n)
    <3>1. /\ WCore(Tell(n, m1)) /\ (WWanted(n) => WWanted(Tell(n, m1)))
          /\ Learnt(Known(Tell(n, m1).lib), Tell(n, m1).wire) = Learns(Learnt(Known(n.lib), n.wire), m1)
          /\ Asked(Tell(n, m1)) = Asked(n)
      BY <2>5, WTellKeeps
    <3> QED BY <3>1 DEF a
  <2>8. /\ a \in WShape
        /\ a.board = n.board /\ a.server = n.server
        /\ a.lib = n.lib /\ a.peer = n.peer /\ a.seen = n.seen
        /\ a.last = n.last /\ a.wire = Append(n.wire, m1)
    BY <2>5, WTells DEF a
  <2>9. Sound(m2.offer, a)
    BY <2>3, <2>6, <2>8 DEF Sound
  <2>10. /\ WCore(c) /\ (WWanted(a) => WWanted(c))
         /\ Learnt(Known(c.lib), c.wire) = Learns(Learnt(Known(a.lib), a.wire), m2)
         /\ Asked(c) = Asked(a)
    <3>1. /\ WCore(Tell(a, m2)) /\ (WWanted(a) => WWanted(Tell(a, m2)))
          /\ Learnt(Known(Tell(a, m2).lib), Tell(a, m2).wire) = Learns(Learnt(Known(a.lib), a.wire), m2)
          /\ Asked(Tell(a, m2)) = Asked(a)
      BY <2>6, <2>7, <2>8, <2>9, WTellKeeps
    <3> QED BY <3>1, <2>1
  <2>11. /\ c \in WShape
         /\ c.board = a.board /\ c.server = a.server
         /\ c.lib = a.lib /\ c.peer = a.peer /\ c.seen = a.seen
         /\ c.last = a.last /\ c.wire = Append(a.wire, m2)
    BY <2>1, <2>6, <2>8, WTells
  <2> DEFINE k == Learns(Learns(Learnt(Known(n.lib), n.wire), m1), m2)
  <2>12. k.offer = o /\ k.hasText = (o.text # Nothing)
    BY <2>3, <2>5, <2>6 DEF Learns
  <2> HIDE DEF k
  <2>13. Learnt(Known(c.lib), c.wire) = k
    BY <2>7, <2>10 DEF k
  <2>14. Selected(c) = o /\ c.board.owner # "none" /\ c.board.text = o.text
    BY <1>3, <2>2, <2>4, <2>8, <2>11 DEF Selected
  <2>15. Knows(k, c)
    BY <2>12, <2>14 DEF Knows
  <2>16. WKnows(c)
    BY <2>13, <2>15 DEF WKnows
  <2> QED BY <2>7, <2>8, <2>10, <2>11, <2>16 DEF c
<1> QED BY <1>1, <1>2, <1>3

\* The clipboard gets another owner, and the requests may become fewer.
Within(q, p) == \A i \in 1 .. Len(q) : \E j \in 1 .. Len(p) : q[i] = p[j]

Boarded(n, b, s) == [n EXCEPT !.board = b, !.server = s, !.seen = n.seen \cup {b.text}]

LEMMA WBoards ==
  ASSUME NEW n \in WShape, WCore(n), NEW b \in Board, NEW s \in WServer,
         s.texts = n.server.texts, n.server.ids <= s.ids,
         Within(s.requests, n.server.requests),
         b.owner = "none" => b.text = Nothing,
         b.owner = "us" => Ours([source |-> s.current, text |-> b.text], s.texts),
         b.owner = "peer" => s.current < 0 /\ -s.ids <= s.current,
         s.current >= 0 \/ s.current < -n.server.ids
           \/ (s.current = n.server.current /\ b.text = n.board.text),
         NEW c, c = Boarded(n, b, s)
  PROVE  /\ WCore(c) /\ c \in WShape /\ c.board = b /\ c.server = s /\ c.lib = n.lib /\ c.peer = n.peer
         /\ c.wire = n.wire /\ c.seen = n.seen \cup {b.text} /\ c.last = n.last
         /\ Asked(c) \subseteq Asked(n)
<1>1. b.text \in Texts
  BY DEF Board
<1>2. /\ c \in WShape /\ c.board = b /\ c.server = s /\ c.lib = n.lib /\ c.peer = n.peer
      /\ c.wire = n.wire /\ c.seen = n.seen \cup {b.text} /\ c.last = n.last
  BY <1>1, WFields DEF WShape, Boarded
<1>3. Asked(c) \subseteq Asked(n)
  <2>1. ASSUME NEW i \in 1 .. Len(s.requests)
        PROVE  \E j \in 1 .. Len(n.server.requests) :
                 s.texts[s.requests[i].source] = n.server.texts[n.server.requests[j].source]
    BY <2>1 DEF Within
  <2>2. c.server = s
    BY <1>2
  <2>3. Asked(c) = {s.texts[s.requests[i].source] : i \in 1 .. Len(s.requests)}
    BY <2>2 DEF Asked
  <2>4. ASSUME NEW x \in Asked(c) PROVE x \in Asked(n)
    <3>1. PICK i \in 1 .. Len(s.requests) : x = s.texts[s.requests[i].source]
      BY <2>3, <2>4
    <3>2. PICK j \in 1 .. Len(n.server.requests) :
            s.texts[s.requests[i].source] = n.server.texts[n.server.requests[j].source]
      BY <2>1
    <3> QED BY <3>1, <3>2 DEF Asked
  <2> QED BY <2>4
<1>4. WRequests(c)
  <2>1. \A i \in 1 .. Len(n.server.requests) :
          /\ n.server.requests[i].source \in 1 .. Len(n.server.texts)
          /\ n.server.requests[i].destroyed < n.server.requests[i].source
    BY DEF WCore, WRequests
  <2>2. ASSUME NEW i \in 1 .. Len(s.requests)
        PROVE  s.requests[i].source \in 1 .. Len(s.texts) /\ s.requests[i].destroyed < s.requests[i].source
    BY <2>1, <2>2 DEF Within
  <2>3. c.server = s
    BY <1>2
  <2> QED BY <2>2, <2>3 DEF WRequests
<1>5. WSeen(c)
  BY <1>2, <1>3 DEF WCore, WSeen
<1>6. WOwner(c)
  BY <1>2 DEF WOwner, Selected
<1>7. ASSUME NEW o, Sound(o, n), o # NoOffer => o.source \in Int PROVE Sound(o, c)
  <2>1. CASE o.source < 0 /\ -n.server.ids <= o.source /\ (o.source = n.server.current => o.text = n.board.text)
                /\ o # NoOffer
    <3>1. n.server.ids \in Nat /\ s.ids \in Nat /\ s.current \in Int /\ o.source \in Int
      BY <1>7, <2>1, WFields DEF WServer
    <3>2. -s.ids <= o.source
      BY <2>1, <3>1
    <3>3. o.source = s.current => o.text = b.text
      BY <2>1, <3>1
    <3> QED BY <1>2, <2>1, <3>2, <3>3 DEF Sound
  <2>2. CASE o = NoOffer \/ Ours(o, n.server.texts)
    BY <1>2, <2>2 DEF Sound
  <2> QED BY <1>7, <2>1, <2>2 DEF Sound
<1>8. WOffers(c)
  <2>1. n.lib.offer.source \in Int
    BY WFields DEF Offer
  <2>2. ASSUME NEW i \in 1 .. Len(n.wire), n.wire[i].type = "selection" PROVE n.wire[i].offer.source \in Int
    <3>1. n.wire[i] \in WMessage
      BY WFields, ElementOf
    <3>2. n.wire[i].offer \in Offer
      BY <2>2, <3>1, WMessageIs
    <3> QED BY <3>2 DEF Offer
  <2> QED BY <1>2, <1>7, <2>1, <2>2 DEF WCore, WOffers
<1>9. WSource(c) /\ WServed(c)
  BY <1>2 DEF WCore, WSource, WServed
<1>10. WReading(c)
  BY <1>2 DEF WCore, WReading
<1> QED BY <1>2, <1>3, <1>4, <1>5, <1>6, <1>8, <1>9, <1>10 DEF WCore

\* libnack's source stays wanted when the selection becomes another.
StaysWanted(n, s, owner, source) ==
  n.lib.source # NoSource =>
    /\ n.lib.offered \in n.seen
    /\ \/ \E i \in 1 .. Len(s.requests) : s.requests[i].source = n.lib.source
       \/ n.board.owner = "us" /\ n.server.current = n.lib.source
       \/ \E i \in 1 .. Len(n.wire) : n.wire[i] = [type |-> "cancelled", source |-> n.lib.source]
       \/ owner = "us" /\ source = n.lib.source

\* What waits at the server is something else.
WithServer(n, s) == [n EXCEPT !.server = s]

LEMMA WSelectKeeps ==
  ASSUME NEW n \in WShape, WCore(n), NEW s \in WServer,
         s.texts = n.server.texts, n.server.ids <= s.ids, s.current = n.server.current,
         Within(s.requests, n.server.requests),
         NEW owner \in {"us", "peer"}, NEW t \in Texts, NEW source \in Int,
         owner = "us" => Ours([source |-> source, text |-> t], s.texts),
         owner = "peer" => source < -n.server.ids /\ -s.ids <= source,
         NEW c, c = WSelect(WithServer(n, s), owner, t, source)
  PROVE  /\ WCore(c) /\ WKnows(c) /\ c \in WShape /\ c.board.text = t
         /\ c.seen = n.seen \cup {t} /\ c.last = n.last
         /\ Asked(c) \subseteq Asked(n)
         /\ c.server.requests = s.requests /\ c.server.texts = s.texts
         /\ StaysWanted(n, s, owner, source) => WWanted(c)
<1> DEFINE b == [owner |-> owner, text |-> t]
           v == [s EXCEPT !.current = source]
           k == [n EXCEPT !.board = b, !.server = v, !.seen = n.seen \cup {t}]
           m == [type |-> "cancelled", source |-> n.server.current]
           a == IF n.board.owner = "us" THEN Tell(k, m) ELSE k
<1>1. c = WAnnounce(a)
  <2>1. [OnBoard(WithServer(n, s), owner, t) EXCEPT !.server.current = source] = k
    BY DEF OnBoard, WShape, WithServer
  <2>2. WithServer(n, s).board = n.board /\ WithServer(n, s).server = s
    BY DEF WShape, WithServer
  <2> HIDE DEF k
  <2> QED BY <2>1, <2>2 DEF WSelect
<1>2. b \in Board /\ b.owner = owner /\ b.text = t
  BY DEF Board
<1>3. v \in WServer /\ v.current = source /\ v.texts = s.texts /\ v.ids = s.ids /\ v.requests = s.requests
  BY DEF WServer
<1>4. owner = "us" => source > 0
  BY DEF Ours
<1> HIDE DEF b, v, k, m, a
<1>5. [source |-> v.current, text |-> b.text] = [source |-> source, text |-> t]
  BY <1>2, <1>3
<1>6. /\ WCore(k) /\ k \in WShape /\ k.board = b /\ k.server = v /\ k.lib = n.lib /\ k.peer = n.peer
      /\ k.wire = n.wire /\ k.seen = n.seen \cup {b.text} /\ k.last = n.last
      /\ Asked(k) \subseteq Asked(n)
  <2>1. k = Boarded(n, b, v)
    BY <1>2 DEF k, Boarded
  <2>2. v.texts = n.server.texts /\ n.server.ids <= v.ids
    BY <1>3
  <2>3. Within(v.requests, n.server.requests)
    BY <1>3
  <2>4. /\ b.owner = "none" => b.text = Nothing
        /\ b.owner = "us" => Ours([source |-> v.current, text |-> b.text], v.texts)
        /\ b.owner = "peer" => v.current < 0 /\ -v.ids <= v.current
    <3>1. n.server.ids \in Nat
      BY WFields
    <3> QED BY <1>2, <1>3, <1>5, <3>1
  <2>5. v.current >= 0 \/ v.current < -n.server.ids
          \/ (v.current = n.server.current /\ b.text = n.board.text)
    BY <1>3, <1>4
  <2>6. b \in Board /\ v \in WServer
    BY <1>2, <1>3
  <2> QED BY ONLY n \in WShape, WCore(n), <2>1, <2>2, <2>3, <2>4, <2>5, <2>6, WBoards
<1>7. m \in WMessage /\ m.type = "cancelled"
  BY WFields DEF m, WMessage
<1>8. /\ WCore(a) /\ a \in WShape /\ a.board = b /\ a.seen = k.seen /\ a.last = n.last
      /\ a.server = v
      /\ Asked(a) \subseteq Asked(n) /\ (StaysWanted(n, s, owner, source) => WWanted(a))
  <2>1. CASE n.board.owner # "us"
    <3>1. a = k
      BY <2>1 DEF a
    <3>2. StaysWanted(n, s, owner, source) => WWanted(k)
      BY <1>2, <1>3, <1>6, <2>1 DEF StaysWanted, WWanted
    <3> QED BY <1>6, <3>1, <3>2
  <2>2. CASE n.board.owner = "us"
    <3>1. a = Tell(k, m)
      BY <2>2 DEF a
    <3>2. /\ a \in WShape /\ a.board = k.board /\ a.seen = k.seen /\ a.last = k.last
          /\ a.server = k.server
      BY <1>6, <1>7, <3>1, WTells
    <3>3. /\ WCore(Tell(k, m)) /\ (WWanted(k) => WWanted(Tell(k, m)))
          /\ m = [type |-> "cancelled", source |-> k.lib.source] /\ k.lib.offered \in k.seen
              => WWanted(Tell(k, m))
          /\ Asked(Tell(k, m)) = Asked(k)
      BY <1>6, <1>7, WTellKeeps
    <3>4. ASSUME StaysWanted(n, s, owner, source) PROVE WWanted(a)
      <4>1. CASE n.lib.source = NoSource
        BY <1>6, <3>1, <3>3, <4>1 DEF WWanted
      <4>2. CASE n.lib.source # NoSource /\ n.server.current = n.lib.source
        <5>1. k.lib.offered \in k.seen
          BY <1>6, <3>4, <4>2 DEF StaysWanted
        <5>2. m = [type |-> "cancelled", source |-> k.lib.source]
          BY <1>6, <4>2 DEF m
        <5> QED BY <3>1, <3>3, <5>1, <5>2
      <4>3. CASE n.lib.source # NoSource /\ n.server.current # n.lib.source
        <5>1. WWanted(k)
          BY <1>2, <1>3, <1>6, <3>4, <4>3 DEF StaysWanted, WWanted
        <5> QED BY <3>1, <3>3, <5>1
      <4> QED BY <4>1, <4>2, <4>3
    <3> QED BY <1>6, <3>1, <3>2, <3>3, <3>4
  <2> QED BY <2>1, <2>2
<1>9. /\ WCore(c) /\ WKnows(c) /\ (WWanted(a) => WWanted(c))
      /\ c \in WShape /\ c.board = a.board /\ c.seen = a.seen /\ c.last = a.last /\ Asked(c) = Asked(a)
      /\ c.server = a.server
  BY <1>1, <1>8, WAnnounceKeeps
<1> QED BY <1>2, <1>3, <1>6, <1>8, <1>9

\* The server when the request at its head is taken.
Taken(s) == [s EXCEPT !.requests = Tail(@)]

\* A source is asked for.
Held(q, x) == \E i \in 1 .. Len(q) : q[i].source = x

\* What a request is that is first in the queue, and what stays.
First(n, r, s) ==
  /\ s \in WServer /\ s.texts = n.server.texts /\ n.server.ids <= s.ids
  /\ s.current = n.server.current /\ s.ids = n.server.ids
  /\ Within(s.requests, n.server.requests)
  /\ r.source \in 1 .. Len(n.server.texts) /\ r.destroyed < r.source
  /\ r.source \in Nat /\ r.destroyed \in Nat
  /\ n.server.texts[r.source] \in Text /\ n.server.texts[r.source] \in Asked(n)
  /\ \A x : Held(n.server.requests, x) => r.source = x \/ Held(s.requests, x)

LEMMA WRequestTaken ==
  ASSUME NEW n \in WShape, WCore(n), n.server.requests # << >>,
         NEW r, r = Head(n.server.requests),
         NEW s, s = Taken(n.server)
  PROVE  First(n, r, s)
<1> DEFINE q == n.server.requests
           R == [source : Nat, destroyed : Nat]
<1>1. n.server \in WServer /\ q \in Seq(R) /\ n.server.texts \in Seq(Text) /\ n.server.ids \in Nat
  BY WFields
<1> HIDE DEF R
<1>2. /\ Tail(q) \in Seq(R) /\ Len(Tail(q)) = Len(q) - 1 /\ Len(q) \in Nat \ {0}
      /\ \A i \in 1 .. Len(q) - 1 : Tail(q)[i] = q[i + 1]
      /\ Head(q) = q[1] /\ Head(q) \in R
  BY <1>1, TailOf
<1>3. s \in WServer /\ s.texts = n.server.texts /\ s.current = n.server.current
      /\ s.ids = n.server.ids /\ s.requests = Tail(q)
  <2>1. Tail(q) \in Seq([source : Nat, destroyed : Nat])
    BY <1>2 DEF R
  <2> HIDE DEF q
  <2>2. s = [n.server EXCEPT !.requests = Tail(q)]
    BY DEF q, Taken
  <2> QED BY <1>1, <2>1, <2>2 DEF WServer
<1>4. ASSUME NEW i \in 1 .. Len(s.requests) PROVE i + 1 \in 1 .. Len(q) /\ s.requests[i] = q[i + 1]
  BY <1>2, <1>3
<1>5. Within(s.requests, q)
  BY <1>4 DEF Within
<1>6. 1 \in 1 .. Len(q) /\ r = q[1] /\ r \in R
  BY <1>2
<1>7. /\ r.source \in 1 .. Len(n.server.texts) /\ r.destroyed < r.source
      /\ r.source \in Nat /\ r.destroyed \in Nat
  BY <1>6 DEF WCore, WRequests, R
<1>8. n.server.texts[r.source] \in Text
  BY <1>1, <1>7, ElementOf
<1>9. n.server.texts[r.source] \in Asked(n)
  BY <1>6 DEF Asked
<1>10. ASSUME NEW x, NEW i \in 1 .. Len(q), q[i].source = x, r.source # x
       PROVE  \E j \in 1 .. Len(s.requests) : s.requests[j].source = x
  <2>1. i # 1 /\ i - 1 \in 1 .. Len(s.requests) /\ (i - 1) + 1 = i
    BY <1>2, <1>3, <1>6, <1>10
  <2> QED BY <1>4, <1>10, <2>1
<1>11. \A x : Held(q, x) => r.source = x \/ Held(s.requests, x)
  <2> HIDE DEF q
  <2> QED BY <1>10 DEF Held
<1>12. n.server.ids <= s.ids
  BY <1>1, <1>3
<1> QED BY ONLY <1>3, <1>5, <1>7, <1>8, <1>9, <1>11, <1>12 DEF First

\* The compositor deals with a request.
Deals(n, m) ==
  /\ Asked(m) \subseteq Asked(n)
  /\ m.board.text \in {n.board.text, Nothing} \cup Asked(n)
  /\ m.seen = n.seen \cup {m.board.text} /\ m.last = n.last

LEMMA WAcceptKeeps ==
  ASSUME NEW n \in WShape, WInv(n), n.server.requests # << >>
  PROVE  WInv(WServe(n, TRUE)) /\ Deals(n, WServe(n, TRUE))
<1> DEFINE r == Head(n.server.requests)
           s == Taken(n.server)
           t == n.server.texts[r.source]
           c == WServe(n, TRUE)
<1>0. WCore(n) /\ WWanted(n)
  BY DEF WInv
<1>1. /\ s \in WServer /\ s.texts = n.server.texts /\ n.server.ids <= s.ids
      /\ s.current = n.server.current /\ s.ids = n.server.ids
      /\ Within(s.requests, n.server.requests)
      /\ r.source \in 1 .. Len(n.server.texts) /\ r.destroyed < r.source
      /\ r.source \in Nat /\ r.destroyed \in Nat
      /\ n.server.texts[r.source] \in Text /\ n.server.texts[r.source] \in Asked(n)
      /\ \A x : Held(n.server.requests, x) => r.source = x \/ Held(s.requests, x)
  <2>1. r = Head(n.server.requests) /\ s = Taken(n.server)
    OBVIOUS
  <2> HIDE DEF r, s
  <2>2. First(n, r, s)
    BY ONLY n \in WShape, n.server.requests # << >>, <1>0, <2>1, WRequestTaken
  <2> QED BY ONLY <2>2 DEF First
<1>a. PICK o : o = "us"
  OBVIOUS
<1>2. c = WSelect(WithServer(n, s), o, t, r.source)
  <2>1. [n EXCEPT !.server.requests = Tail(@)] = WithServer(n, s)
    BY DEF WShape, Taken, WithServer
  <2> QED BY <1>a, <2>1 DEF WServe
<1> HIDE DEF r, s, c
<1>3. Ours([source |-> r.source, text |-> t], s.texts) /\ r.source \in Int /\ t \in Text
  BY <1>1 DEF Ours
<1> HIDE DEF t
<1>4. t \in Texts
  BY <1>3, TextsDiffer
<1>5. StaysWanted(n, s, o, r.source)
  BY <1>0, <1>1, <1>a DEF WWanted, StaysWanted, Held
<1>6. /\ WCore(c) /\ WKnows(c) /\ c \in WShape /\ c.board.text = t
      /\ c.seen = n.seen \cup {t} /\ c.last = n.last
      /\ Asked(c) \subseteq Asked(n)
      /\ c.server.requests = s.requests /\ c.server.texts = s.texts
      /\ StaysWanted(n, s, o, r.source) => WWanted(c)
  <2>1. o = "us" => Ours([source |-> r.source, text |-> t], s.texts)
    BY <1>3
  <2>2. o = "peer" => r.source < -n.server.ids /\ -s.ids <= r.source
    BY <1>a
  <2>3. Within(s.requests, n.server.requests)
    BY <1>1
  <2>4. s \in WServer /\ s.texts = n.server.texts /\ n.server.ids <= s.ids /\ s.current = n.server.current
    BY <1>1
  <2>5. o \in {"us", "peer"} /\ r.source \in Int
    BY <1>3, <1>a
  <2> QED BY ONLY n \in WShape, <1>0, <1>2, <1>4, <2>1, <2>2, <2>3, <2>4, <2>5, WSelectKeeps
<1>7. t \in Asked(n)
  BY <1>1 DEF t
<1>8. WInv(c) /\ Deals(n, c)
  BY <1>5, <1>6, <1>7 DEF WInv, Deals
<1> QED BY <1>8 DEF c

LEMMA WCancelKeeps ==
  ASSUME NEW n \in WShape, WCore(n), WKnows(n), NEW source \in Int,
         WWanted(n) \/ (source = n.lib.source /\ n.lib.offered \in n.seen),
         NEW c, c = Tell(n, [type |-> "cancelled", source |-> source])
  PROVE  WInv(c) /\ Asked(c) = Asked(n) /\ c.board = n.board /\ c.seen = n.seen /\ c.last = n.last
<1> DEFINE m == [type |-> "cancelled", source |-> source]
<1>1. m \in WMessage /\ m.type = "cancelled"
  BY DEF WMessage
<1>2. source = n.lib.source => m = [type |-> "cancelled", source |-> n.lib.source]
  OBVIOUS
<1>3. c = Tell(n, m)
  OBVIOUS
<1> HIDE DEF m
<1>4. /\ WCore(Tell(n, m)) /\ (WWanted(n) => WWanted(Tell(n, m)))
      /\ m = [type |-> "cancelled", source |-> n.lib.source] /\ n.lib.offered \in n.seen
           => WWanted(Tell(n, m))
      /\ Learnt(Known(Tell(n, m).lib), Tell(n, m).wire) = Learns(Learnt(Known(n.lib), n.wire), m)
      /\ Asked(Tell(n, m)) = Asked(n)
  BY <1>1, WTellKeeps
<1>5. /\ c.board = n.board /\ c.server = n.server /\ c.peer = n.peer /\ c.seen = n.seen
      /\ c.last = n.last
  BY <1>1, <1>3, WTells
<1>6. Learns(Learnt(Known(n.lib), n.wire), m) = Learnt(Known(n.lib), n.wire)
  BY <1>1 DEF Learns
<1>7. WKnows(c)
  BY <1>3, <1>4, <1>5, <1>6 DEF WKnows, Knows, Selected
<1> QED BY <1>2, <1>3, <1>4, <1>5, <1>7 DEF WInv

LEMMA WRejectKeeps ==
  ASSUME NEW n \in WShape, WInv(n), n.server.requests # << >>
  PROVE  WInv(WServe(n, FALSE)) /\ Deals(n, WServe(n, FALSE))
<1> DEFINE r == Head(n.server.requests)
           s == Taken(n.server)
           m == WithServer(n, s)
           gone == m.board.owner = "us" /\ m.server.current = r.destroyed
           k == [OnBoard(m, "none", Nothing) EXCEPT !.server.current = NoSource]
           d == IF gone THEN WAnnounce(k) ELSE m
           c == WServe(n, FALSE)
<1>0. WCore(n) /\ WWanted(n) /\ WKnows(n)
  BY DEF WInv
<1>1. /\ s \in WServer /\ s.texts = n.server.texts /\ n.server.ids <= s.ids
      /\ s.current = n.server.current /\ s.ids = n.server.ids
      /\ Within(s.requests, n.server.requests)
      /\ r.source \in 1 .. Len(n.server.texts) /\ r.destroyed < r.source
      /\ r.source \in Nat /\ r.destroyed \in Nat
      /\ n.server.texts[r.source] \in Text /\ n.server.texts[r.source] \in Asked(n)
      /\ \A x : Held(n.server.requests, x) => r.source = x \/ Held(s.requests, x)
  <2>1. r = Head(n.server.requests) /\ s = Taken(n.server)
    OBVIOUS
  <2> HIDE DEF r, s
  <2>2. First(n, r, s)
    BY ONLY n \in WShape, n.server.requests # << >>, <1>0, <2>1, WRequestTaken
  <2> QED BY ONLY <2>2 DEF First
<1>2. c = Tell(d, [type |-> "cancelled", source |-> r.source])
  <2>1. [n EXCEPT !.server.requests = Tail(@)] = m
    BY DEF WShape, Taken, WithServer
  <2> HIDE DEF m
  <2> QED BY <2>1 DEF WServe
<1> HIDE DEF r, s, c
<1>3. m = Boarded(n, n.board, s)
  <2>1. n.seen = n.seen \cup {n.board.text}
    BY <1>0 DEF WCore, WSeen
  <2> QED BY <2>1 DEF Boarded, WithServer, WShape
<1>4. n.board \in Board /\ n.board.text \in n.seen
  BY <1>0, WFields DEF WCore, WSeen
<1> HIDE DEF m
<1>5. /\ WCore(m) /\ m \in WShape /\ m.board = n.board /\ m.server = s /\ m.lib = n.lib /\ m.peer = n.peer
      /\ m.wire = n.wire /\ m.seen = n.seen \cup {n.board.text} /\ m.last = n.last
      /\ Asked(m) \subseteq Asked(n)
  <2>1. /\ n.board.owner = "none" => n.board.text = Nothing
        /\ n.board.owner = "us" => Ours([source |-> s.current, text |-> n.board.text], s.texts)
        /\ n.board.owner = "peer" => s.current < 0 /\ -s.ids <= s.current
    BY <1>0, <1>1 DEF WCore, WOwner, Selected
  <2>2. s.current >= 0 \/ s.current < -n.server.ids
          \/ (s.current = n.server.current /\ n.board.text = n.board.text)
    BY <1>1
  <2>3. /\ s \in WServer /\ s.texts = n.server.texts /\ n.server.ids <= s.ids
        /\ Within(s.requests, n.server.requests)
    BY <1>1
  <2> QED BY ONLY n \in WShape, <1>0, <1>3, <1>4, <2>1, <2>2, <2>3, WBoards
<1>6. WKnows(m)
  BY <1>0, <1>1, <1>5 DEF WKnows, Knows, Selected
<1>7. WWanted(m) \/ (r.source = m.lib.source /\ m.lib.offered \in m.seen)
  <2>1. n.lib.source = NoSource \/ r.source = n.lib.source \/ Held(s.requests, n.lib.source)
          \/ (n.board.owner = "us" /\ n.server.current = n.lib.source)
          \/ \E i \in 1 .. Len(n.wire) : n.wire[i] = [type |-> "cancelled", source |-> n.lib.source]
    BY <1>0, <1>1 DEF WWanted, Held
  <2>2. n.lib.source # NoSource => n.lib.offered \in m.seen
    BY <1>0, <1>5 DEF WWanted
  <2>3. CASE r.source = n.lib.source /\ n.lib.source # NoSource
    BY <1>5, <2>2, <2>3
  <2>4. CASE r.source # n.lib.source \/ n.lib.source = NoSource
    <3>1. WWanted(m)
      BY <1>1, <1>5, <2>1, <2>2, <2>4 DEF WWanted, Held
    <3> QED BY <3>1
  <2> QED BY <2>3, <2>4
<1>8. /\ WCore(d) /\ d \in WShape /\ WKnows(d) /\ d.lib = n.lib
      /\ (WWanted(d) \/ (r.source = d.lib.source /\ d.lib.offered \in d.seen))
      /\ Asked(d) \subseteq Asked(n) /\ d.board.text \in {n.board.text, Nothing}
      /\ d.seen = n.seen \cup {d.board.text} /\ d.last = n.last
  <2>1. CASE ~gone
    <3>1. d = m
      BY <2>1
    <3> HIDE DEF d, gone
    <3> QED BY <1>4, <1>5, <1>6, <1>7, <3>1
  <2>2. CASE gone
    <3> DEFINE b == [owner |-> "none", text |-> Nothing]
               v == [s EXCEPT !.current = 0]
    <3>1. d = WAnnounce(k)
      BY <2>2
    <3>2. k = Boarded(n, b, v)
      <4>1. m = [n EXCEPT !.server = s]
        BY DEF m, WithServer
      <4>2. OnBoard(m, "none", Nothing) = [n EXCEPT !.server = s, !.board = b, !.seen = n.seen \cup {Nothing}]
        BY <4>1 DEF OnBoard, WShape
      <4>3. b.text = Nothing
        OBVIOUS
      <4> HIDE DEF b
      <4>4. k = [n EXCEPT !.board = b, !.server = v, !.seen = n.seen \cup {Nothing}]
        BY <4>2, <1>1 DEF WShape, NoSource
      <4> QED BY <4>3, <4>4 DEF Boarded
    <3>3. b \in Board /\ b.owner = "none" /\ b.text = Nothing
      BY TextsDiffer DEF Board
    <3>4. v \in WServer /\ v.texts = s.texts /\ v.ids = s.ids /\ v.requests = s.requests /\ v.current = 0
      <4>1. s \in WServer
        BY <1>1
      <4>2. v \in WServer
        BY ONLY <4>1 DEF WServer
      <4>3. v.texts = s.texts /\ v.ids = s.ids /\ v.requests = s.requests /\ v.current = 0
        BY ONLY <4>1 DEF WServer
      <4> QED BY ONLY <4>2, <4>3
    <3>5. m.board.owner = "us" /\ m.server.current = r.destroyed
      BY <2>2
    <3> HIDE DEF b, v, k, d, gone
    <3>6. /\ WCore(k) /\ k \in WShape /\ k.board = b /\ k.server = v /\ k.lib = n.lib /\ k.peer = n.peer
          /\ k.wire = n.wire /\ k.seen = n.seen \cup {b.text} /\ k.last = n.last
          /\ Asked(k) \subseteq Asked(n)
      <4>1. /\ b.owner = "none" => b.text = Nothing
            /\ b.owner = "us" => Ours([source |-> v.current, text |-> b.text], v.texts)
            /\ b.owner = "peer" => v.current < 0 /\ -v.ids <= v.current
        BY <3>3
      <4>2. v.current >= 0 \/ v.current < -n.server.ids
              \/ (v.current = n.server.current /\ b.text = n.board.text)
        BY <3>4
      <4>3. /\ v \in WServer /\ v.texts = n.server.texts /\ n.server.ids <= v.ids
            /\ Within(v.requests, n.server.requests)
        BY <1>1, <3>4
      <4>4. b \in Board
        BY <3>3
      <4> QED BY ONLY n \in WShape, <1>0, <3>2, <4>1, <4>2, <4>3, <4>4, WBoards
    <3>7. WWanted(k) \/ (r.source = k.lib.source /\ k.lib.offered \in k.seen)
      <4>1. n.lib.source # NoSource => n.server.current # n.lib.source
        <5>1. n.lib.source # NoSource => n.lib.source = Len(n.server.texts)
          BY <1>0 DEF WCore, WSource
        <5>2. Len(n.server.texts) \in Nat
          BY WFields, ElementOf
        <5> QED BY <1>1, <1>5, <3>5, <5>1, <5>2
      <4>2. n.lib.source = NoSource \/ r.source = n.lib.source \/ Held(s.requests, n.lib.source)
              \/ \E i \in 1 .. Len(n.wire) : n.wire[i] = [type |-> "cancelled", source |-> n.lib.source]
        BY <1>0, <1>1, <4>1 DEF WWanted, Held
      <4>3. n.lib.source # NoSource => n.lib.offered \in k.seen
        BY <1>0, <3>6 DEF WWanted
      <4>4. CASE r.source = n.lib.source /\ n.lib.source # NoSource
        BY <3>6, <4>3, <4>4
      <4>5. CASE r.source # n.lib.source \/ n.lib.source = NoSource
        <5>1. WWanted(k)
          BY <3>4, <3>6, <4>2, <4>3, <4>5 DEF WWanted, Held
        <5> QED BY <5>1
      <4> QED BY <4>4, <4>5
    <3>8. /\ WCore(d) /\ WKnows(d) /\ (WWanted(k) => WWanted(d))
          /\ d \in WShape
          /\ d.board = k.board
          /\ d.lib = k.lib /\ d.seen = k.seen
          /\ d.last = k.last /\ Asked(d) = Asked(k)
      BY <3>1, <3>6, WAnnounceKeeps
    <3> QED BY <3>3, <3>6, <3>7, <3>8
  <2> QED BY <2>1, <2>2
<1> HIDE DEF d
<1>9. WInv(c) /\ Asked(c) = Asked(d) /\ c.board = d.board /\ c.seen = d.seen /\ c.last = d.last
  <2>1. r.source \in Int
    BY <1>1
  <2> QED BY <1>2, <1>8, <2>1, WCancelKeeps
<1>10. WInv(c) /\ Deals(n, c)
  BY <1>8, <1>9 DEF Deals
<1> QED BY <1>10 DEF c

-----------------------------------------------------------------------------
(* Clipboards: a Wayland read *)

\* A read ends with a whole text, or with what had come by its deadline.
CutShort(n) ==
  \/ n.last.answer = Nothing
  \/ \E t \in Text \cap n.seen :
       n.last.answer = Whole(t) \/ (n.last.late /\ n.last.answer = Upto(t, 2))

WLooks(n, m) ==
  /\ m.board.text = n.board.text /\ Asked(m) = Asked(n)
  /\ m.seen \in {n.seen, {n.board.text} \cup Asked(n)}
  /\ m.last = n.last \/ CutShort(m)

LEMMA WLateEndsKeeps ==
  ASSUME NEW n \in WShape, WInv(n), NEW v \in Seq(Part), NEW e \in BOOLEAN, NEW late \in BOOLEAN,
         v = << >> \/ \E t \in Text \cap n.seen : v = Whole(t) \/ (late /\ v = Upto(t, 2)),
         ~e /\ ~late /\ v = << >> => Nothing \in n.seen \/ n.lib.dragged,
         NEW c, c = Ends([n EXCEPT !.lib.late = late], v, e)
  PROVE  WInv(c) /\ WLooks(n, c)
<1> DEFINE l == [answer |-> IF v = << >> THEN Nothing ELSE v,
                 late |-> late, dragged |-> n.lib.dragged,
                 owed |-> ~e /\ ~late /\ Nothing \notin n.seen]
           k == [n.lib EXCEPT !.late = late, !.pc = "idle", !.buffer = << >>]
<1>0. WCore(n) /\ WWanted(n) /\ WKnows(n)
  BY DEF WInv
<1>1. c = [n EXCEPT !.lib = k, !.last = l]
  BY ZenonT(60) DEF Ends, WShape, WLib
<1>2. k \in WLib /\ k.pc = "idle" /\ k.source = n.lib.source /\ k.offered = n.lib.offered
      /\ k.offer = n.lib.offer /\ k.hasText = n.lib.hasText /\ k.dragged = n.lib.dragged
  <2>1. << >> \in Seq(Part) /\ n.lib \in WLib
    BY WFields
  <2> HIDE DEF Part, Offer
  <2> QED BY <2>1 DEF WLib
<1>3. l.answer = (IF v = << >> THEN Nothing ELSE v) /\ l.late = late /\ l.dragged = n.lib.dragged
      /\ l.owed = (~e /\ ~late /\ Nothing \notin n.seen)
  BY WFields
<1>4. l \in Last
  <2>1. l = [answer |-> l.answer, late |-> l.late, dragged |-> l.dragged, owed |-> l.owed]
    OBVIOUS
  <2> HIDE DEF l
  <2>2. l.late \in BOOLEAN /\ l.dragged \in BOOLEAN /\ l.owed \in BOOLEAN
    BY <1>3, WFields
  <2>3. l.answer \in Seq(Part) \cup {Nothing}
    <3> HIDE DEF Part
    <3> QED BY <1>3
  <2> HIDE DEF Part
  <2> QED BY <2>1, <2>2, <2>3 DEF Last
<1> HIDE DEF l, k
<1>5. /\ c \in WShape /\ c.lib = k /\ c.board = n.board /\ c.server = n.server /\ c.peer = n.peer
      /\ c.wire = n.wire /\ c.seen = n.seen /\ c.last = l
  BY <1>1, <1>2, <1>4, WFields DEF WShape
<1>6. Answers(l)
  <2>1. CASE v = << >>
    BY <1>3, <2>1 DEF Answers
  <2>2. CASE v # << >> /\ late
    BY <1>3, <2>2 DEF Answers
  <2>3. CASE v # << >> /\ ~late
    <3>1. PICK t \in Text : v = Whole(t)
      BY <2>3
    <3>2. v # Nothing
      BY <3>1, TextsDiffer
    <3> QED BY <1>3, <2>3, <3>1, <3>2 DEF Answers
  <2> QED BY <2>1, <2>2, <2>3
<1>7. WRequests(c) /\ WSeen(c) /\ WSource(c) /\ WServed(c) /\ WReading(c) /\ Asked(c) = Asked(n)
  BY ONLY <1>0, <1>2, <1>5 DEF WCore, WRequests, WSeen, Asked, WSource, WServed, WReading
<1>8. WOwner(c)
  BY <1>0, <1>5 DEF WCore, WOwner, Selected
<1>9. WOffers(c)
  BY <1>0, <1>2, <1>5 DEF WCore, WOffers, Sound
<1>10. WCore(c)
  BY <1>5, <1>6, <1>7, <1>8, <1>9 DEF WCore
<1>11. WWanted(c)
  BY <1>0, <1>2, <1>5 DEF WWanted
<1>12. WKnows(c)
  <2>1. Known(c.lib) = Known(n.lib)
    BY <1>2, <1>5 DEF Known
  <2> QED BY <1>0, <1>5, <2>1 DEF WKnows, Knows, Selected
<1>13. CutShort(c)
  BY <1>3, <1>5 DEF CutShort
<1>14. WInv(c) /\ WLooks(n, c)
  BY <1>5, <1>7, <1>10, <1>11, <1>12, <1>13 DEF WInv, WLooks
<1> QED BY <1>14

LEMMA WEndsKeeps ==
  ASSUME NEW n \in WShape, WInv(n), NEW v \in Seq(Part), NEW e \in BOOLEAN,
         v = << >> \/ \E t \in Text \cap n.seen : v = Whole(t),
         ~e /\ ~n.lib.late /\ v = << >> => Nothing \in n.seen \/ n.lib.dragged
  PROVE  WInv(Ends(n, v, e)) /\ WLooks(n, Ends(n, v, e))
<1>1. PICK y \in BOOLEAN : y = n.lib.late
  BY WFields
<1>2. n = [n EXCEPT !.lib.late = y]
  BY <1>1 DEF WShape, WLib
<1>3. PICK c : c = Ends(n, v, e)
  OBVIOUS
<1>4. c = Ends([n EXCEPT !.lib.late = y], v, e)
  BY <1>2, <1>3
<1>5. v = << >> \/ \E t \in Text \cap n.seen : v = Whole(t) \/ (y /\ v = Upto(t, 2))
  OBVIOUS
<1>6. ~e /\ ~y /\ v = << >> => Nothing \in n.seen \/ n.lib.dragged
  BY <1>1
<1>7. WInv(c) /\ WLooks(n, c)
  BY <1>4, <1>5, <1>6, WLateEndsKeeps
<1> QED BY <1>3, <1>7

LEMMA UptoIs ==
  ASSUME NEW t \in Text
  PROVE  /\ Upto(t, 1) = << >> /\ Upto(t, 3) = Whole(t)
         /\ Append(Upto(t, 1), Piece(t, 1)) = Upto(t, 2)
         /\ Append(Upto(t, 2), Piece(t, 2)) = Upto(t, 3)
<1> DEFINE a == Piece(t, 1)
           b == Piece(t, 2)
<1>1. a \in Part /\ b \in Part
  BY DEF Piece, Part
<1>2. Upto(t, 1) = << >> /\ Upto(t, 2) = <<a>> /\ Upto(t, 3) = <<a, b>> /\ Upto(t, 3) = Whole(t)
  BY DEF Upto, Whole
<1> HIDE DEF Part, a, b
<1>3. << >> \in Seq(Part) /\ <<a>> \in Seq(Part) /\ <<a, b>> \in Seq(Part)
      /\ Len(<< >>) = 0 /\ Len(<<a>>) = 1 /\ Len(<<a, b>>) = 2
      /\ <<a>>[1] = a /\ <<a, b>>[1] = a /\ <<a, b>>[2] = b
  BY <1>1
<1>4. Append(<< >>, a) = <<a>>
  <2> DEFINE x == Append(<< >>, a)
             e == << >>
  <2>1. x \in Seq(Part) /\ Len(x) = Len(e) + 1 /\ x[Len(e) + 1] = a
    BY <1>1, <1>3, AppendOf
  <2>2. Len(x) = 1 /\ x[1] = a
    BY <1>3, <2>1
  <2> HIDE DEF x
  <2> QED BY <1>3, <2>1, <2>2, SeqEqual DEF x
<1>5. Append(<<a>>, b) = <<a, b>>
  <2> DEFINE x == Append(<<a>>, b)
             e == <<a>>
  <2>1. x \in Seq(Part) /\ Len(x) = Len(e) + 1 /\ x[Len(e) + 1] = b /\ \A i \in 1 .. Len(e) : x[i] = e[i]
    BY <1>1, <1>3, AppendOf
  <2>2. Len(x) = 2 /\ x[1] = a /\ x[2] = b
    BY <1>3, <2>1
  <2> HIDE DEF x
  <2>3. \A i \in 1 .. Len(x) : x[i] = <<a, b>>[i]
    BY <1>3, <2>2
  <2> QED BY <1>3, <2>1, <2>2, <2>3, SeqEqual DEF x
<1> QED BY <1>2, <1>4, <1>5, Zenon DEF a, b

\* The next piece.
Grown(n) == [n EXCEPT !.lib.buffer = Append(@, Piece(n.peer.pipe.text, n.peer.next)),
                      !.peer.next = @ + 1]

LEMMA WPieceKeeps ==
  ASSUME NEW n \in WShape, WInv(n), n.lib.pc = "pipe",
         n.peer.pipe.text # Nothing, n.peer.next <= 2
  PROVE  WInv(Grown(n)) /\ WLooks(n, Grown(n))
<1> DEFINE t == n.peer.pipe.text
           i == n.peer.next
           b == Append(n.lib.buffer, Piece(t, i))
           k == [n.lib EXCEPT !.buffer = b]
           p == [n.peer EXCEPT !.next = i + 1]
           c == Grown(n)
<1>0. WCore(n) /\ WWanted(n) /\ WKnows(n)
  BY DEF WInv
<1>1. t \in Text /\ i \in {1, 2}
  <2>1. t \in Texts /\ i \in 1 .. 3
    BY WFields DEF Offer
  <2> QED BY <2>1 DEF Texts
<1>2. Piece(t, i) \in Part
  BY <1>1 DEF Piece, Part
<1>3. n.lib.buffer = Upto(t, i)
  BY <1>0 DEF WCore, WReading
<1>4. b \in Seq(Part) /\ b = Upto(t, i + 1)
  <2>1. n.lib.buffer \in Seq(Part)
    BY WFields
  <2>2. b \in Seq(Part)
    BY <1>2, <2>1, AppendOf
  <2> QED BY <1>1, <1>3, <2>2, UptoIs
<1>5. c = [n EXCEPT !.lib = k, !.peer = p]
  BY DEF Grown, WShape
<1> HIDE DEF b
<1>6. k \in WLib /\ k.pc = "pipe" /\ k.source = n.lib.source /\ k.offered = n.lib.offered
      /\ k.offer = n.lib.offer /\ k.hasText = n.lib.hasText /\ k.dragged = n.lib.dragged
      /\ k.late = n.lib.late /\ k.buffer = b
  <2>1. b \in Seq(Part) /\ n.lib \in WLib
    BY <1>4, WFields
  <2> HIDE DEF Part, Offer
  <2> QED BY <2>1 DEF WLib
<1>7. p \in WPeer /\ p.focused = n.peer.focused /\ p.pipe = n.peer.pipe /\ p.got = n.peer.got
      /\ p.next = i + 1
  <2>1. n.peer \in WPeer /\ i + 1 \in 1 .. 3
    BY <1>1, WFields
  <2> HIDE DEF Offer, i
  <2> QED BY <2>1 DEF WPeer
<1> HIDE DEF k, p, c
<1>8. /\ c \in WShape /\ c.lib = k /\ c.board = n.board /\ c.server = n.server /\ c.peer = p
      /\ c.wire = n.wire /\ c.seen = n.seen /\ c.last = n.last
  BY <1>5, <1>6, <1>7, WFields DEF WShape
<1>9. WRequests(c) /\ WSeen(c) /\ WSource(c) /\ WServed(c) /\ Asked(c) = Asked(n)
  BY <1>0, <1>6, <1>7, <1>8 DEF WCore, WRequests, WSeen, Asked, WSource, WServed
<1>10. WReading(c)
  BY <1>0, <1>4, <1>6, <1>7, <1>8 DEF WCore, WReading
<1>11. WOwner(c)
  BY <1>0, <1>8 DEF WCore, WOwner, Selected
<1>12. WOffers(c)
  BY <1>0, <1>6, <1>8 DEF WCore, WOffers, Sound
<1>13. WCore(c)
  BY <1>0, <1>8, <1>9, <1>10, <1>11, <1>12 DEF WCore
<1>14. WWanted(c)
  BY <1>0, <1>6, <1>8 DEF WWanted
<1>15. WKnows(c)
  <2>1. Known(c.lib) = Known(n.lib)
    BY <1>6, <1>8 DEF Known
  <2> QED BY <1>0, <1>7, <1>8, <2>1 DEF WKnows, Knows, Selected
<1>16. WInv(c) /\ WLooks(n, c)
  BY <1>8, <1>9, <1>13, <1>14, <1>15 DEF WInv, WLooks
<1> QED BY <1>16 DEF c

LEMMA WEndKeeps ==
  ASSUME NEW n \in WShape, WInv(n), n.lib.pc = "pipe",
         ~(n.peer.pipe.text # Nothing /\ n.peer.next <= 2)
  PROVE  /\ WInv(Ends(n, n.lib.buffer, n.peer.pipe = NoOffer))
         /\ WLooks(n, Ends(n, n.lib.buffer, n.peer.pipe = NoOffer))
<1> DEFINE t == n.peer.pipe.text
           e == n.peer.pipe = NoOffer
           v == n.lib.buffer
<1>1. /\ ~n.lib.late
      /\ n.peer.pipe # NoOffer => t \in n.seen
      /\ t = Nothing => n.peer.next = 1
      /\ v = Upto(t, n.peer.next)
  BY DEF WInv, WCore, WReading
<1>2. t \in Texts /\ n.peer.next \in 1 .. 3 /\ v \in Seq(Part)
  BY WFields DEF Offer
<1>3. t # Nothing => t \in Text /\ n.peer.next = 3 /\ n.peer.pipe # NoOffer
  BY <1>2, NoOfferIs DEF Texts
<1>4. v = << >> \/ \E x \in Text \cap n.seen : v = Whole(x)
  <2>1. CASE t = Nothing
    BY <1>1, <2>1 DEF Upto
  <2>2. CASE t # Nothing
    <3>1. v = Whole(t) /\ t \in Text \cap n.seen
      BY <1>1, <1>3, <2>2, UptoIs
    <3> QED BY <3>1
  <2> QED BY <2>1, <2>2
<1>5. ~e /\ v = << >> => Nothing \in n.seen
  <2>1. CASE t = Nothing
    BY <1>1, <2>1
  <2>2. CASE t # Nothing
    BY <1>1, <1>3, <2>2, UptoIs, TextProperty
  <2> QED BY <2>1, <2>2
<1>6. e \in BOOLEAN
  OBVIOUS
<1> HIDE DEF e, v
<1>7. WInv(Ends(n, v, e)) /\ WLooks(n, Ends(n, v, e))
  BY <1>1, <1>2, <1>4, <1>5, <1>6, WEndsKeeps
<1> QED BY <1>7 DEF v, e

\* libnack does not read.
Idle(n, late) == [n EXCEPT !.lib.late = late, !.lib.buffer = << >>]

LEMMA WIdleKeeps ==
  ASSUME NEW n \in WShape, WInv(n), n.lib.pc = "idle", NEW late \in BOOLEAN,
         NEW c, c = Idle(n, late)
  PROVE  /\ WInv(c) /\ c \in WShape /\ c.board = n.board /\ c.server = n.server
         /\ c.peer = n.peer /\ c.wire = n.wire /\ c.seen = n.seen /\ c.last = n.last
         /\ c.lib.pc = "idle" /\ c.lib.late = late /\ c.lib.buffer = << >>
         /\ c.lib.source = n.lib.source
         /\ c.lib.offered = n.lib.offered /\ c.lib.offer = n.lib.offer
         /\ c.lib.hasText = n.lib.hasText /\ c.lib.dragged = n.lib.dragged
         /\ Asked(c) = Asked(n)
<1> DEFINE k == [n.lib EXCEPT !.late = late, !.buffer = << >>]
<1>0. WCore(n) /\ WWanted(n) /\ WKnows(n)
  BY DEF WInv
<1>1. c = [n EXCEPT !.lib = k]
  BY DEF Idle, WShape
<1>2. k \in WLib /\ k.pc = n.lib.pc /\ k.source = n.lib.source /\ k.offered = n.lib.offered
      /\ k.offer = n.lib.offer /\ k.hasText = n.lib.hasText /\ k.dragged = n.lib.dragged
      /\ k.late = late /\ k.buffer = << >>
  <2>1. << >> \in Seq(Part) /\ n.lib \in WLib
    BY WFields
  <2> HIDE DEF Part, Offer
  <2> QED BY <2>1 DEF WLib
<1> HIDE DEF k
<1>5. /\ c \in WShape /\ c.lib = k /\ c.board = n.board /\ c.server = n.server /\ c.peer = n.peer
      /\ c.wire = n.wire /\ c.seen = n.seen /\ c.last = n.last
  BY <1>1, <1>2, WFields DEF WShape
<1>7. WRequests(c) /\ WSeen(c) /\ WSource(c) /\ WServed(c) /\ WReading(c) /\ Asked(c) = Asked(n)
  BY <1>0, <1>2, <1>5 DEF WCore, WRequests, WSeen, Asked, WSource, WServed, WReading
<1>8. WOwner(c)
  BY <1>0, <1>5 DEF WCore, WOwner, Selected
<1>9. WOffers(c)
  BY <1>0, <1>2, <1>5 DEF WCore, WOffers, Sound
<1>10. WCore(c)
  BY <1>0, <1>5, <1>7, <1>8, <1>9 DEF WCore
<1>11. WWanted(c)
  BY <1>0, <1>2, <1>5 DEF WWanted
<1>12. WKnows(c)
  <2>1. Known(c.lib) = Known(n.lib)
    BY <1>2, <1>5 DEF Known
  <2> QED BY <1>0, <1>5, <2>1 DEF WKnows, Knows, Selected
<1> QED BY <1>2, <1>5, <1>7, <1>10, <1>11, <1>12 DEF WInv

\* A read that is cut short.
CutOff(n) == Ends([n EXCEPT !.lib.late = TRUE], n.lib.buffer, TRUE)

LEMMA WCutKeeps ==
  ASSUME NEW n \in WShape, WInv(n), n.lib.pc = "pipe", NEW c, c = CutOff(n)
  PROVE  WInv(c) /\ WLooks(n, c)
<1> DEFINE t == n.peer.pipe.text
           v == n.lib.buffer
<1>1. /\ n.peer.pipe # NoOffer => t \in n.seen
      /\ t = Nothing => n.peer.next = 1
      /\ v = Upto(t, n.peer.next)
  BY DEF WInv, WCore, WReading
<1>2. t \in Texts /\ n.peer.next \in 1 .. 3 /\ v \in Seq(Part)
  BY WFields DEF Offer
<1>3. v = << >> \/ \E x \in Text \cap n.seen : v = Whole(x) \/ v = Upto(x, 2)
  <2>1. CASE n.peer.next = 1
    BY <1>1, <2>1 DEF Upto
  <2>2. CASE n.peer.next # 1
    <3>1. t \in Text \cap n.seen
      BY <1>1, <1>2, <2>2, NoOfferIs DEF Texts
    <3>2. v = Whole(t) \/ v = Upto(t, 2)
      BY <1>1, <1>2, <2>2, <3>1, UptoIs
    <3> QED BY <3>1, <3>2
  <2> QED BY <2>1, <2>2
<1> HIDE DEF v
<1>4. PICK y \in BOOLEAN : y = TRUE
  OBVIOUS
<1>5. c = Ends([n EXCEPT !.lib.late = y], v, y)
  BY <1>4 DEF CutOff, v
<1>6. v = << >> \/ \E x \in Text \cap n.seen : v = Whole(x) \/ (y /\ v = Upto(x, 2))
  BY <1>3, <1>4
<1>7. ~y /\ ~y /\ v = << >> => Nothing \in n.seen \/ n.lib.dragged
  BY <1>4
<1> QED BY <1>2, <1>5, <1>6, <1>7, WLateEndsKeeps

\* libnack has heard all messages, and looks no further than at what it knows.
LEMMA WHeardKeeps ==
  ASSUME NEW n \in WShape, WInv(n), NEW d, d = WDispatched(n),
         NEW c \in WShape, c.board = n.board, c.server = n.server, c.wire = << >>,
         c.lib.source = d.lib.source, c.lib.offered = d.lib.offered,
         Known(c.lib) = Known(d.lib), c.lib.offer = d.lib.offer,
         c.peer.focused = n.peer.focused, c.peer.got = d.peer.got, c.last = n.last,
         c.seen \in {n.seen, {n.board.text} \cup Asked(n)}, WReading(c)
  PROVE  WInv(c) /\ WLooks(n, c)
<1>0. WCore(n) /\ WWanted(n) /\ WKnows(n)
  BY DEF WInv
<1>1. /\ d \in WShape /\ d.board = n.board /\ d.server = n.server /\ d.wire = << >>
      /\ d.seen = n.seen /\ d.last = n.last
      /\ d.lib.pc = n.lib.pc /\ d.lib.buffer = n.lib.buffer /\ d.lib.late = n.lib.late
      /\ d.peer.focused = n.peer.focused /\ d.peer.pipe = n.peer.pipe /\ d.peer.next = n.peer.next
      /\ WSource(d) /\ WServed(d) /\ Sound(d.lib.offer, n)
      /\ Known(d.lib) = Learnt(Known(n.lib), n.wire)
      /\ \/ d.lib.source = NoSource
         \/ /\ d.lib.source = n.lib.source
            /\ \A i \in 1 .. Len(n.wire) :
                 n.wire[i] # [type |-> "cancelled", source |-> n.lib.source]
  <2>1. WSource(n) /\ WServed(n) /\ WOffers(n)
    BY <1>0 DEF WCore
  <2>2. Hears(n, d)
    BY <2>1, WDispatchKeeps
  <2> QED BY <2>2 DEF Hears
<1>2. Asked(c) = Asked(n)
  BY DEF Asked
<1>3. WRequests(c) /\ WSeen(c)
  BY <1>0, <1>2 DEF WCore, WRequests, WSeen
<1>4. WOwner(c)
  BY <1>0 DEF WCore, WOwner, Selected
<1>5. WOffers(c)
  <2>1. Len(c.wire) = 0
    OBVIOUS
  <2>2. Sound(c.lib.offer, c)
    BY <1>1 DEF Sound
  <2> QED BY <2>1, <2>2 DEF WOffers
<1>6. WSource(c) /\ WServed(c)
  BY <1>1 DEF WSource, WServed
<1>7. WCore(c)
  BY <1>0, <1>3, <1>4, <1>5, <1>6 DEF WCore
<1>8. WWanted(c)
  <2>1. CASE c.lib.source = NoSource
    BY <2>1 DEF WWanted
  <2>2. CASE c.lib.source # NoSource
    <3>1. c.lib.source = n.lib.source /\ n.lib.source # NoSource
      BY <1>1, <2>2
    <3>2. \/ Held(n.server.requests, n.lib.source)
          \/ n.board.owner = "us" /\ n.server.current = n.lib.source
      BY <1>0, <1>1, <2>2, <3>1 DEF WWanted, Held
    <3>3. c.lib.offered = n.server.texts[n.lib.source]
      BY <1>6, <2>2, <3>1 DEF WSource
    <3>4. c.lib.offered \in {n.board.text} \cup Asked(n)
      <4>1. CASE Held(n.server.requests, n.lib.source)
        <5>1. PICK i \in 1 .. Len(n.server.requests) : n.server.requests[i].source = n.lib.source
          BY ONLY <4>1 DEF Held
        <5>2. n.server.texts[n.lib.source] \in Asked(n)
          BY ONLY <5>1 DEF Asked
        <5> QED BY ONLY <3>3, <5>2
      <4>2. CASE n.board.owner = "us" /\ n.server.current = n.lib.source
        <5>1. Ours(Selected(n), n.server.texts)
          BY <1>0, <4>2 DEF WCore, WOwner
        <5> QED BY <3>3, <4>2, <5>1 DEF Ours, Selected
      <4> QED BY <3>2, <4>1, <4>2
    <3>5. c.lib.offered \in c.seen
      BY <1>0, <3>4 DEF WCore, WSeen
    <3> QED BY <3>1, <3>2, <3>5 DEF WWanted, Held
  <2> QED BY <2>1, <2>2
<1>9. WKnows(c)
  <2>1. Learnt(Known(c.lib), c.wire) = Learnt(Known(n.lib), n.wire)
    BY <1>1, LearntNothing
  <2> QED BY <1>0, <2>1 DEF WKnows, Knows, Selected
<1> QED BY <1>2, <1>7, <1>8, <1>9 DEF WInv, WLooks

LEMMA WPumpKeeps ==
  ASSUME NEW n \in WShape, WInv(n), n.lib.pc = "idle",
         NEW c, c = [WDispatched(n) EXCEPT !.seen = {n.board.text} \cup Asked(n)]
  PROVE  WInv(c) /\ WLooks(n, c)
<1> DEFINE d == WDispatched(n)
           seen1 == {n.board.text} \cup Asked(n)
<1>1. /\ d \in WShape /\ d.board = n.board /\ d.server = n.server /\ d.wire = << >>
      /\ d.seen = n.seen /\ d.last = n.last /\ d.lib.pc = n.lib.pc
      /\ d.peer.focused = n.peer.focused
  <2>1. WSource(n) /\ WServed(n) /\ WOffers(n)
    BY DEF WInv, WCore
  <2>2. Hears(n, d)
    BY <2>1, WDispatchKeeps
  <2> QED BY <2>2 DEF Hears
<1>2. seen1 \in SUBSET Texts
  <2>1. seen1 \subseteq n.seen
    BY DEF WInv, WCore, WSeen
  <2> HIDE DEF seen1
  <2> QED BY <2>1, WFields
<1>3. c = [d EXCEPT !.seen = seen1]
  OBVIOUS
<1>a. d = WDispatched(n) /\ seen1 \in {n.seen, {n.board.text} \cup Asked(n)}
  OBVIOUS
<1> HIDE DEF d, seen1
<1>4. /\ c \in WShape /\ c.board = n.board /\ c.server = n.server /\ c.wire = << >>
      /\ c.lib = d.lib /\ c.peer = d.peer /\ c.last = n.last /\ c.seen = seen1
  BY <1>1, <1>2, <1>3, WFields DEF WShape
<1>5. WReading(c)
  BY <1>1, <1>4 DEF WReading
<1>6. /\ c.lib.source = d.lib.source /\ c.lib.offered = d.lib.offered
      /\ Known(c.lib) = Known(d.lib) /\ c.lib.offer = d.lib.offer
      /\ c.peer.focused = n.peer.focused /\ c.peer.got = d.peer.got
      /\ c.seen \in {n.seen, {n.board.text} \cup Asked(n)}
  BY <1>1, <1>4, <1>a
<1> QED BY ONLY n \in WShape, WInv(n), <1>a, <1>4, <1>5, <1>6, WHeardKeeps

\* libnack asks for a text.
Asks(n, m) ==
  /\ \E t \in Text : Asked(m) = Asked(n) \cup {t} /\ m.seen = n.seen \cup {t}
  /\ m.board.text = n.board.text /\ m.last = n.last

LEMMA WSetKeeps ==
  ASSUME NEW n \in WShape, WInv(n), n.lib.pc = "idle", NEW t \in Text,
         NEW c, c = WSet(n, t)
  PROVE  WInv(c) /\ Asks(n, c)
<1> DEFINE xs == n.server.texts
           rs == n.server.requests
           id == Len(xs) + 1
           req == [source |-> id, destroyed |-> n.lib.source]
           k == [n.lib EXCEPT !.source = id, !.offered = t]
           s == [n.server EXCEPT !.texts = Append(xs, t), !.requests = Append(rs, req)]
<1>0. WCore(n) /\ WWanted(n) /\ WKnows(n)
  BY DEF WInv
<1>1. xs \in Seq(Text) /\ rs \in Seq([source : Nat, destroyed : Nat]) /\ n.lib.source \in Nat
  BY WFields
<1>2. /\ Append(xs, t) \in Seq(Text) /\ Len(Append(xs, t)) = Len(xs) + 1 /\ Len(xs) \in Nat
      /\ \A i \in 1 .. Len(xs) : Append(xs, t)[i] = xs[i]
      /\ Append(xs, t)[Len(xs) + 1] = t
  BY <1>1, AppendOf
<1>3. id \in Nat /\ req \in [source : Nat, destroyed : Nat] /\ req.source = id
      /\ req.destroyed = n.lib.source
  BY <1>1, <1>2
<1>4. c = [n EXCEPT !.lib = k, !.server = s, !.seen = n.seen \cup {t}]
  BY DEF WSet, WShape
<1> HIDE DEF req
<1>5. /\ Append(rs, req) \in Seq([source : Nat, destroyed : Nat])
      /\ Len(Append(rs, req)) = Len(rs) + 1 /\ Len(rs) \in Nat
      /\ \A i \in 1 .. Len(rs) : Append(rs, req)[i] = rs[i]
      /\ Append(rs, req)[Len(rs) + 1] = req
  BY <1>1, <1>3, AppendOf
<1>6. t \in Texts
  BY TextsDiffer
<1>7. k \in WLib /\ k.pc = n.lib.pc /\ k.source = id /\ k.offered = t
      /\ k.offer = n.lib.offer /\ k.hasText = n.lib.hasText /\ k.dragged = n.lib.dragged
      /\ k.late = n.lib.late /\ k.buffer = n.lib.buffer
  <2>1. n.lib \in WLib /\ id \in Nat
    BY <1>3, WFields
  <2> HIDE DEF Part, Offer, id
  <2> QED BY <1>6, <2>1 DEF WLib
<1>8. s \in WServer /\ s.texts = Append(xs, t) /\ s.requests = Append(rs, req)
      /\ s.current = n.server.current /\ s.ids = n.server.ids
  <2> DEFINE u == Append(xs, t)
             v == Append(rs, req)
  <2>1. n.server \in WServer
    BY WFields
  <2>2. u \in Seq(Text) /\ v \in Seq([source : Nat, destroyed : Nat])
    BY <1>2, <1>5
  <2>3. s = [n.server EXCEPT !.texts = u, !.requests = v]
    OBVIOUS
  <2> HIDE DEF u, v, s, xs, rs
  <2>4. s \in WServer /\ s.texts = u /\ s.requests = v
      /\ s.current = n.server.current /\ s.ids = n.server.ids
    BY ONLY <2>1, <2>2, <2>3 DEF WServer
  <2> QED BY <2>4 DEF u, v
<1> HIDE DEF k, s
<1>9. /\ c \in WShape /\ c.lib = k /\ c.board = n.board /\ c.server = s /\ c.peer = n.peer
      /\ c.wire = n.wire /\ c.seen = n.seen \cup {t} /\ c.last = n.last
  <2>1. n.seen \cup {t} \in SUBSET Texts
    BY <1>6, WFields
  <2>2. k \in WLib /\ s \in WServer
    BY <1>7, <1>8
  <2> QED BY ONLY n \in WShape, <1>4, <2>1, <2>2 DEF WShape
<1> HIDE DEF xs, rs
<1>10. n.lib.source < id
  <2>1. n.lib.source = 0 \/ n.lib.source = Len(xs)
    BY <1>0 DEF WCore, WSource, NoSource, xs
  <2> QED BY <1>2, <2>1
<1>11. ASSUME NEW i \in 1 .. Len(rs)
       PROVE  s.requests[i] = rs[i] /\ rs[i].source \in 1 .. Len(xs) /\ rs[i].destroyed < rs[i].source
              /\ s.texts[rs[i].source] = xs[rs[i].source]
  <2>1. rs[i].source \in 1 .. Len(xs) /\ rs[i].destroyed < rs[i].source
    BY <1>0 DEF WCore, WRequests, xs, rs
  <2> QED BY <1>2, <1>5, <1>8, <2>1
<1>12. Len(s.requests) = Len(rs) + 1 /\ Len(s.texts) = Len(xs) + 1 /\ s.requests[Len(rs) + 1] = req
       /\ s.texts[id] = t
  BY <1>2, <1>5, <1>8
<1>13. WRequests(c)
  <2>1. ASSUME NEW i \in 1 .. Len(s.requests)
        PROVE  s.requests[i].source \in 1 .. Len(s.texts) /\ s.requests[i].destroyed < s.requests[i].source
    <3>1. CASE i \in 1 .. Len(rs)
      BY <1>2, <1>11, <1>12, <3>1
    <3>2. CASE i = Len(rs) + 1
      BY <1>2, <1>3, <1>10, <1>12, <3>2
    <3> QED BY <1>5, <1>12, <3>1, <3>2
  <2> QED BY <1>9, <2>1 DEF WRequests
<1>14. Asked(c) = Asked(n) \cup {t}
  <2>1. Asked(c) = {s.texts[s.requests[i].source] : i \in 1 .. Len(s.requests)}
    BY <1>9 DEF Asked
  <2>2. Asked(n) = {xs[rs[i].source] : i \in 1 .. Len(rs)}
    BY DEF Asked, xs, rs
  <2>3. ASSUME NEW x \in Asked(c) PROVE x \in Asked(n) \cup {t}
    <3>1. PICK i \in 1 .. Len(s.requests) : x = s.texts[s.requests[i].source]
      BY <2>1, <2>3
    <3>2. CASE i \in 1 .. Len(rs)
      BY <1>11, <2>2, <3>1, <3>2
    <3>3. CASE i = Len(rs) + 1
      BY <1>3, <1>12, <3>1, <3>3
    <3> QED BY <1>5, <1>12, <3>2, <3>3
  <2>4. ASSUME NEW x \in Asked(n) PROVE x \in Asked(c)
    <3>1. PICK i \in 1 .. Len(rs) : x = xs[rs[i].source]
      BY <2>2, <2>4
    <3>2. i \in 1 .. Len(s.requests) /\ x = s.texts[s.requests[i].source]
      <4>1. i \in 1 .. Len(s.requests)
        BY <1>5, <1>12
      <4>2. s.requests[i] = rs[i] /\ s.texts[rs[i].source] = xs[rs[i].source]
        BY <1>11
      <4> QED BY <3>1, <4>1, <4>2
    <3> QED BY <2>1, <3>2
  <2>5. t \in Asked(c)
    <3>1. Len(rs) + 1 \in 1 .. Len(s.requests) /\ s.texts[s.requests[Len(rs) + 1].source] = t
      BY <1>3, <1>5, <1>12
    <3> QED BY <2>1, <3>1
  <2> QED BY <2>3, <2>4, <2>5
<1>15. WSeen(c)
  BY <1>0, <1>9, <1>14 DEF WCore, WSeen
<1>16. ASSUME NEW o, Ours(o, xs) PROVE Ours(o, s.texts)
  BY <1>2, <1>8, <1>12, <1>16 DEF Ours
<1>17. WOwner(c)
  BY <1>0, <1>8, <1>9, <1>16 DEF WCore, WOwner, Selected, xs
<1>18. ASSUME NEW o, Sound(o, n) PROVE Sound(o, c)
  BY <1>8, <1>9, <1>16, <1>18 DEF Sound, xs
<1>19. WOffers(c)
  BY <1>0, <1>7, <1>9, <1>18 DEF WCore, WOffers
<1>20. WSource(c)
  BY <1>3, <1>7, <1>9, <1>12 DEF WSource, NoSource
<1>21. WServed(c)
  BY <1>0, <1>9, <1>16 DEF WCore, WServed, xs
<1>22. WReading(c)
  BY <1>7, <1>9 DEF WReading
<1>23. WCore(c)
  BY <1>0, <1>9, <1>13, <1>15, <1>17, <1>19, <1>20, <1>21, <1>22 DEF WCore
<1>24. WWanted(c)
  <2>1. Len(rs) + 1 \in 1 .. Len(s.requests) /\ s.requests[Len(rs) + 1].source = id
    BY <1>3, <1>5, <1>12
  <2> HIDE DEF id
  <2> QED BY <1>7, <1>9, <2>1 DEF WWanted
<1>25. WKnows(c)
  <2>1. Known(c.lib) = Known(n.lib)
    BY <1>7, <1>9 DEF Known
  <2> QED BY <1>0, <1>8, <1>9, <2>1 DEF WKnows, Knows, Selected
<1>26. Asks(n, c)
  BY <1>9, <1>14 DEF Asks
<1> QED BY <1>23, <1>24, <1>25, <1>26 DEF WInv

\* A pipe for the selection, when that is still what was offered.
Piped(n, o) == [WDispatched(n) EXCEPT !.lib.pc = "pipe", !.peer.pipe = o, !.peer.next = 1]

LEMMA WPipeKeeps ==
  ASSUME NEW n \in WShape, WInv(n), n.lib.late = FALSE, n.lib.buffer = << >>,
         NEW o, o = NoOffer \/ (n.board.owner = "peer" /\ n.lib.offer.source = n.server.current /\ o = n.lib.offer),
         NEW c, c = Piped(n, o)
  PROVE  WInv(c) /\ WLooks(n, c)
<1> DEFINE d == WDispatched(n)
           k == [d.lib EXCEPT !.pc = "pipe"]
           p == [d.peer EXCEPT !.pipe = o, !.next = 1]
<1>0. WCore(n)
  BY DEF WInv
<1>1. /\ d \in WShape /\ d.board = n.board /\ d.server = n.server /\ d.wire = << >>
      /\ d.seen = n.seen /\ d.last = n.last
      /\ d.lib.late = FALSE /\ d.lib.buffer = << >>
      /\ d.peer.focused = n.peer.focused
  <2>1. WSource(n) /\ WServed(n) /\ WOffers(n)
    BY <1>0 DEF WCore
  <2>2. Hears(n, d)
    BY <2>1, WDispatchKeeps
  <2> QED BY <2>2 DEF Hears
<1>2. c = [d EXCEPT !.lib = k, !.peer = p]
  BY <1>1 DEF Piped, WShape
<1>3. o \in Offer
  BY NoOfferIs, WFields
<1>4. o # NoOffer => o.text = n.board.text
  <2>1. ASSUME o # NoOffer PROVE o.text = n.board.text
    <3>1. n.board.owner = "peer" /\ o.source = n.server.current /\ Sound(o, n)
      BY <1>0, <2>1 DEF WCore, WOffers
    <3>2. o.source < 0
      BY <1>0, <3>1 DEF WCore, WOwner
    <3>3. ~Ours(o, n.server.texts)
      BY <3>2 DEF Ours
    <3> QED BY <2>1, <3>1, <3>3 DEF Sound
  <2> QED BY <2>1
<1>5. d = WDispatched(n)
  OBVIOUS
<1> HIDE DEF d
<1>6. k \in WLib /\ k.source = d.lib.source /\ k.offered = d.lib.offered
      /\ k.offer = d.lib.offer /\ k.hasText = d.lib.hasText /\ k.dragged = d.lib.dragged
      /\ k.late = d.lib.late /\ k.buffer = d.lib.buffer /\ k.pc = "pipe"
  <2>1. d.lib \in WLib
    BY <1>1, WFields
  <2> HIDE DEF Part, Offer
  <2> QED BY <2>1 DEF WLib
<1>7. p \in WPeer /\ p.focused = d.peer.focused /\ p.pipe = o /\ p.got = d.peer.got /\ p.next = 1
  <2>1. d.peer \in WPeer
    BY <1>1, WFields
  <2> HIDE DEF Offer
  <2> DEFINE q == d.peer
  <2>2. q \in WPeer /\ p = [q EXCEPT !.pipe = o, !.next = 1] /\ 1 \in 1 .. 3
    BY <2>1
  <2> HIDE DEF p, q
  <2>3. p \in WPeer /\ p.focused = q.focused /\ p.pipe = o /\ p.got = q.got /\ p.next = 1
    BY ONLY <1>3, <2>2 DEF WPeer
  <2> QED BY <2>3 DEF q
<1> HIDE DEF k, p
<1>8. /\ c \in WShape /\ c.lib = k /\ c.board = n.board /\ c.server = n.server /\ c.peer = p
      /\ c.wire = << >> /\ c.seen = n.seen /\ c.last = n.last
  BY <1>1, <1>2, <1>6, <1>7, WFields DEF WShape
<1>9. WReading(c)
  <2>1. n.board.text \in n.seen
    BY <1>0 DEF WCore, WSeen
  <2> QED BY <1>1, <1>4, <1>6, <1>7, <1>8, <2>1 DEF WReading, Upto
<1>10. /\ c.lib.source = d.lib.source /\ c.lib.offered = d.lib.offered
       /\ Known(c.lib) = Known(d.lib) /\ c.lib.offer = d.lib.offer
       /\ c.peer.focused = n.peer.focused /\ c.peer.got = d.peer.got
       /\ c.seen \in {n.seen, {n.board.text} \cup Asked(n)}
  BY <1>1, <1>6, <1>7, <1>8 DEF Known
<1> QED BY ONLY n \in WShape, WInv(n), <1>5, <1>8, <1>9, <1>10, WHeardKeeps

LEMMA WGetKeeps ==
  ASSUME NEW n \in WShape, WInv(n), n.lib.pc = "idle",
         NEW c, c = WGet(n)
  PROVE  WInv(c) /\ WLooks(n, c)
<1> DEFINE m == Idle(n, FALSE)
           own == n.lib.source # NoSource /\ n.lib.offered # Nothing
           nothing == n.lib.offer = NoOffer \/ ~n.lib.hasText
           alive == n.board.owner = "peer" /\ n.lib.offer.source = n.server.current
           o == IF alive THEN n.lib.offer ELSE NoOffer
<1>0. WCore(n) /\ WWanted(n) /\ WKnows(n)
  BY DEF WInv
<1>1. /\ WInv(m) /\ m \in WShape /\ m.board = n.board /\ m.server = n.server
      /\ m.peer = n.peer /\ m.wire = n.wire /\ m.seen = n.seen /\ m.last = n.last
      /\ m.lib.pc = "idle" /\ m.lib.late = FALSE /\ m.lib.buffer = << >>
      /\ m.lib.source = n.lib.source
      /\ m.lib.offered = n.lib.offered /\ m.lib.offer = n.lib.offer
      /\ m.lib.hasText = n.lib.hasText /\ m.lib.dragged = n.lib.dragged
      /\ Asked(m) = Asked(n)
  <2>1. PICK y \in BOOLEAN : y = FALSE
    OBVIOUS
  <2>2. m = Idle(n, y)
    BY <2>1
  <2> HIDE DEF m
  <2>3. /\ WInv(m) /\ m \in WShape /\ m.board = n.board /\ m.server = n.server
        /\ m.peer = n.peer /\ m.wire = n.wire /\ m.seen = n.seen /\ m.last = n.last
        /\ m.lib.pc = "idle" /\ m.lib.late = y /\ m.lib.buffer = << >>
        /\ m.lib.source = n.lib.source
        /\ m.lib.offered = n.lib.offered /\ m.lib.offer = n.lib.offer
        /\ m.lib.hasText = n.lib.hasText /\ m.lib.dragged = n.lib.dragged
        /\ Asked(m) = Asked(n)
    BY ONLY n \in WShape, WInv(n), n.lib.pc = "idle", y \in BOOLEAN, <2>2, WIdleKeeps
  <2> QED BY <2>1, <2>3
<1>2. c = IF own THEN Ends(m, Whole(n.lib.offered), FALSE)
          ELSE IF nothing THEN Ends(m, << >>, ~n.peer.focused \/ n.wire # << >>)
          ELSE Piped(m, o)
  BY Zenon DEF WGet, Idle, Piped
<1> HIDE DEF m
<1>3. << >> \in Seq(Part) /\ FALSE \in BOOLEAN
  BY EmptySeq
<1>4. ASSUME WInv(c), WLooks(m, c) PROVE WInv(c) /\ WLooks(n, c)
  BY <1>1, <1>4 DEF WLooks
<1>5. CASE own
  <2> DEFINE v == Whole(n.lib.offered)
  <2>1. c = Ends(m, v, FALSE)
    BY <1>2, <1>5
  <2>2. n.lib.offered \in Text \cap n.seen
    <3>1. n.lib.offered \in Texts /\ n.lib.offered \in n.seen
      BY <1>0, <1>5, WFields DEF WWanted
    <3> QED BY <1>5, <3>1 DEF Texts
  <2>3. v \in Seq(Part) /\ v # << >>
    BY <2>2, TextsDiffer, TextProperty
  <2>4. v = << >> \/ \E t \in Text \cap m.seen : v = Whole(t)
    BY <1>1, <2>2
  <2> HIDE DEF v
  <2>5. PICK e \in BOOLEAN : e = FALSE
    OBVIOUS
  <2>6. ~e /\ ~m.lib.late /\ v = << >> => Nothing \in m.seen \/ m.lib.dragged
    BY <2>3
  <2>7. c = Ends(m, v, e)
    BY <2>1, <2>5
  <2>8. WInv(Ends(m, v, e)) /\ WLooks(m, Ends(m, v, e))
    BY <1>1, <2>3, <2>4, <2>6, WEndsKeeps
  <2> QED BY <1>4, <2>7, <2>8
<1>6. CASE ~own /\ nothing
  <2> DEFINE e == ~n.peer.focused \/ n.wire # << >>
             v == << >>
  <2>1. c = Ends(m, v, e)
    BY <1>2, <1>6
  <2>2. ~e => Nothing \in n.seen \/ n.lib.dragged
    <3>1. SUFFICES ASSUME n.peer.focused, n.wire = << >> PROVE Nothing \in n.seen \/ n.lib.dragged
      BY WFields
    <3>2. Knows(Known(n.lib), n)
      BY <1>0, <3>1, LearntNothing DEF WKnows
    <3>3. n.board.text \in n.seen
      BY <1>0 DEF WCore, WSeen
    <3>4. CASE n.board.owner = "none"
      BY <1>0, <3>3, <3>4 DEF WCore, WOwner
    <3>5. CASE n.board.owner # "none"
      <4>1. n.lib.offer = Selected(n) /\ (n.lib.dragged \/ (n.lib.hasText <=> n.board.text # Nothing))
        BY <3>2, <3>5 DEF Knows, Known
      <4>2. n.server.current # 0
        BY <1>0, <3>5, WFields DEF WCore, WOwner, Ours, Selected
      <4>3. Selected(n) # NoOffer
        BY <4>2 DEF Selected, NoOffer, NoSource
      <4> QED BY <1>6, <3>3, <4>1, <4>3
    <3> QED BY <3>4, <3>5
  <2>3. e \in BOOLEAN /\ v = << >> /\ v \in Seq(Part)
    BY <1>3, WFields
  <2> HIDE DEF e, v
  <2>4. v = << >> \/ \E t \in Text \cap m.seen : v = Whole(t)
    BY <2>3
  <2>5. ~e /\ ~m.lib.late /\ v = << >> => Nothing \in m.seen \/ m.lib.dragged
    BY <1>1, <2>2
  <2>6. WInv(Ends(m, v, e)) /\ WLooks(m, Ends(m, v, e))
    BY <1>1, <2>3, <2>4, <2>5, WEndsKeeps
  <2> QED BY <1>4, <2>1, <2>6
<1>7. CASE ~own /\ ~nothing
  <2>1. c = Piped(m, o)
    BY <1>2, <1>7
  <2>2. o = NoOffer \/ (m.board.owner = "peer" /\ m.lib.offer.source = m.server.current /\ o = m.lib.offer)
    BY <1>1
  <2> HIDE DEF o
  <2>3. WInv(c) /\ WLooks(m, c)
    BY <1>1, <2>1, <2>2, WPipeKeeps
  <2> QED BY <1>4, <2>3
<1> QED BY <1>5, <1>6, <1>7

-----------------------------------------------------------------------------
(* Clipboards: the others on Wayland *)

\* Another program puts a text on the clipboard.
WOtherPuts(n, t) ==
  LET m == [n EXCEPT !.server.ids = @ + 1] IN WSelect(m, "peer", t, -m.server.ids)

LEMMA WOtherPutsKeeps ==
  ASSUME NEW n \in WShape, WInv(n), NEW t \in Texts,
         NEW c, c = WOtherPuts(n, t)
  PROVE  WInv(c) /\ Puts(n, c) /\ Asked(c) = Asked(n)
<1> DEFINE i == n.server.ids + 1
           s == [n.server EXCEPT !.ids = i]
<1>0. WCore(n) /\ WWanted(n) /\ WKnows(n)
  BY DEF WInv
<1>1. n.server \in WServer /\ n.server.ids \in Nat
  BY WFields
<1>2. s \in WServer /\ s.ids = i /\ s.texts = n.server.texts /\ s.current = n.server.current
      /\ s.requests = n.server.requests
  <2>1. i \in Nat
    BY <1>1
  <2> HIDE DEF i
  <2> QED BY ONLY <1>1, <2>1 DEF WServer
<1>3. PICK o : o = "peer"
  OBVIOUS
<1>4. PICK x \in Int : x = -i
  BY <1>1
<1>5. c = WSelect(WithServer(n, s), o, t, x)
  <2>1. [n EXCEPT !.server.ids = @ + 1] = WithServer(n, s)
    BY DEF WShape, WithServer
  <2>2. WithServer(n, s).server.ids = i
    BY <1>2 DEF WShape, WithServer
  <2> HIDE DEF i, s
  <2> QED BY <1>3, <1>4, <2>1, <2>2 DEF WOtherPuts
<1>6. Within(s.requests, n.server.requests)
  BY <1>2 DEF Within
<1>7. n.server.ids <= s.ids
  BY <1>1, <1>2
<1>8. /\ o = "us" => Ours([source |-> x, text |-> t], s.texts)
      /\ o = "peer" => x < -n.server.ids /\ -s.ids <= x
  BY <1>1, <1>2, <1>3, <1>4
<1>9. StaysWanted(n, s, o, x)
  BY <1>0, <1>2 DEF WWanted, StaysWanted
<1>10. o \in {"us", "peer"}
  BY <1>3
<1> HIDE DEF s
<1>11. /\ WCore(c) /\ WKnows(c) /\ c \in WShape /\ c.board.text = t
       /\ c.seen = n.seen \cup {t} /\ c.last = n.last
       /\ Asked(c) \subseteq Asked(n)
       /\ c.server.requests = s.requests /\ c.server.texts = s.texts
       /\ StaysWanted(n, s, o, x) => WWanted(c)
  BY ONLY n \in WShape, t \in Texts, x \in Int, <1>0, <1>2, <1>5, <1>6, <1>7, <1>8, <1>10, WSelectKeeps
<1>12. Asked(c) = Asked(n)
  BY <1>2, <1>11 DEF Asked
<1> QED BY <1>9, <1>11, <1>12 DEF WInv, Puts

\* The rest of what others do leaves the clipboard as it is.
LEMMA WFocusKeeps ==
  ASSUME NEW n \in WShape, WInv(n), NEW m, m = [n EXCEPT !.peer.focused = TRUE],
         NEW c, c = WAnnounce(m)
  PROVE  WInv(c) /\ WLooks(n, c)
<1> DEFINE p == [n.peer EXCEPT !.focused = TRUE]
<1>0. WCore(n) /\ WWanted(n) /\ WKnows(n)
  BY DEF WInv
<1>1. n.peer \in WPeer
  BY WFields
<1>2. p \in WPeer /\ p.pipe = n.peer.pipe /\ p.next = n.peer.next /\ p.got = n.peer.got
  <2> HIDE DEF Offer
  <2> QED BY ONLY <1>1 DEF WPeer
<1>3. m = [n EXCEPT !.peer = p]
  BY DEF WShape
<1> HIDE DEF p
<1>4. /\ m \in WShape /\ m.lib = n.lib /\ m.board = n.board /\ m.server = n.server /\ m.peer = p
      /\ m.wire = n.wire /\ m.seen = n.seen /\ m.last = n.last
  BY <1>2, <1>3, WFields DEF WShape
<1>5. WRequests(m) /\ WSeen(m) /\ WSource(m) /\ WServed(m) /\ WReading(m) /\ Asked(m) = Asked(n)
  <2>1. Asked(m) = Asked(n)
    BY ONLY <1>4 DEF Asked
  <2>2. WRequests(m) /\ WSeen(m)
    BY ONLY <1>0, <1>4, <2>1 DEF WCore, WRequests, WSeen
  <2>3. WSource(m) /\ WServed(m) /\ WReading(m)
    BY ONLY <1>0, <1>2, <1>4 DEF WCore, WSource, WServed, WReading
  <2> QED BY <2>1, <2>2, <2>3
<1>6. WOwner(m) /\ WOffers(m)
  BY <1>0, <1>4 DEF WCore, WOwner, Selected, WOffers, Sound
<1>7. WCore(m) /\ WWanted(m)
  BY <1>0, <1>4, <1>5, <1>6 DEF WCore, WWanted
<1> HIDE DEF WCore
<1>8. /\ WCore(c) /\ WKnows(c) /\ (WWanted(m) => WWanted(c))
      /\ c \in WShape
      /\ c.board = m.board /\ c.server = m.server
      /\ c.lib = m.lib /\ c.peer = m.peer /\ c.seen = m.seen
      /\ c.last = m.last /\ Asked(c) = Asked(m)
  BY ONLY <1>4, <1>7, c = WAnnounce(m), WAnnounceKeeps
<1> QED BY <1>4, <1>5, <1>7, <1>8 DEF WInv, WLooks

LEMMA WUnfocusKeeps ==
  ASSUME NEW n \in WShape, WInv(n), NEW m, m = [n EXCEPT !.peer.focused = FALSE]
  PROVE  WInv(m) /\ WLooks(n, m)
<1> DEFINE p == [n.peer EXCEPT !.focused = FALSE]
<1>0. WCore(n) /\ WWanted(n) /\ WKnows(n)
  BY DEF WInv
<1>1. n.peer \in WPeer
  BY WFields
<1>2. p \in WPeer /\ p.pipe = n.peer.pipe /\ p.next = n.peer.next /\ p.got = n.peer.got
      /\ p.focused = FALSE
  <2> HIDE DEF Offer
  <2> QED BY ONLY <1>1 DEF WPeer
<1>3. m = [n EXCEPT !.peer = p]
  BY DEF WShape
<1> HIDE DEF p
<1>4. /\ m \in WShape /\ m.lib = n.lib /\ m.board = n.board /\ m.server = n.server /\ m.peer = p
      /\ m.wire = n.wire /\ m.seen = n.seen /\ m.last = n.last
  BY <1>2, <1>3, WFields DEF WShape
<1>5. WRequests(m) /\ WSeen(m) /\ WSource(m) /\ WServed(m) /\ WReading(m) /\ Asked(m) = Asked(n)
  <2>1. Asked(m) = Asked(n)
    BY ONLY <1>4 DEF Asked
  <2>2. WRequests(m) /\ WSeen(m)
    BY ONLY <1>0, <1>4, <2>1 DEF WCore, WRequests, WSeen
  <2>3. WSource(m) /\ WServed(m) /\ WReading(m)
    BY ONLY <1>0, <1>2, <1>4 DEF WCore, WSource, WServed, WReading
  <2> QED BY <2>1, <2>2, <2>3
<1>6. WOwner(m) /\ WOffers(m)
  BY <1>0, <1>4 DEF WCore, WOwner, Selected, WOffers, Sound
<1>7. WCore(m) /\ WWanted(m)
  BY <1>0, <1>4, <1>5, <1>6 DEF WCore, WWanted
<1>8. WKnows(m)
  BY <1>2, <1>4 DEF WKnows
<1> QED BY <1>4, <1>5, <1>7, <1>8 DEF WInv, WLooks

LEMMA WDragKeeps ==
  ASSUME NEW n \in WShape, WInv(n), NEW text \in BOOLEAN,
         NEW c, c = Tell(n, [type |-> "offer", text |-> text, drag |-> TRUE])
  PROVE  WInv(c) /\ WLooks(n, c)
<1> DEFINE m == [type |-> "offer", text |-> text, drag |-> TRUE]
<1>0. WCore(n) /\ WWanted(n) /\ WKnows(n)
  BY DEF WInv
<1>1. m \in WMessage /\ m.type = "offer" /\ m.drag
  BY DEF WMessage
<1>2. c = Tell(n, m)
  OBVIOUS
<1> HIDE DEF m
<1>3. /\ WCore(Tell(n, m)) /\ (WWanted(n) => WWanted(Tell(n, m)))
      /\ Learnt(Known(Tell(n, m).lib), Tell(n, m).wire) = Learns(Learnt(Known(n.lib), n.wire), m)
      /\ Asked(Tell(n, m)) = Asked(n)
  BY <1>0, <1>1, WTellKeeps
<1>4. /\ c.board = n.board /\ c.server = n.server /\ c.peer = n.peer /\ c.seen = n.seen
      /\ c.last = n.last
  BY <1>1, <1>2, WTells
<1> DEFINE k == Learnt(Known(n.lib), n.wire)
<1>5. Learns(k, m).offer = k.offer /\ Learns(k, m).dragged
  <2> HIDE DEF k
  <2> QED BY <1>1 DEF Learns
<1>6. WKnows(c)
  BY <1>0, <1>2, <1>3, <1>4, <1>5 DEF WKnows, Knows, Selected
<1> QED BY <1>0, <1>2, <1>3, <1>4, <1>6 DEF WInv, WLooks

\* Another program asks for the text of our source.
Pasted(n) == [n EXCEPT !.peer.asked = n.server.current, !.peer.got = NoOffer]

LEMMA WPasteKeeps ==
  ASSUME NEW n \in WShape, WInv(n),
         NEW c, c = Tell(Pasted(n), [type |-> "send", source |-> n.server.current])
  PROVE  WInv(c) /\ WLooks(n, c)
<1> DEFINE p == [n.peer EXCEPT !.asked = n.server.current, !.got = NoOffer]
           a == Pasted(n)
           m == [type |-> "send", source |-> n.server.current]
<1>0. WCore(n) /\ WWanted(n) /\ WKnows(n)
  BY DEF WInv
<1>1. n.peer \in WPeer /\ n.server.current \in Int /\ NoOffer \in Offer
  BY WFields, NoOfferIs
<1>2. p \in WPeer /\ p.pipe = n.peer.pipe /\ p.next = n.peer.next /\ p.got = NoOffer
      /\ p.focused = n.peer.focused
  <2> DEFINE x == n.server.current
             y == NoOffer
  <2>1. x \in Int /\ y \in Offer
    BY <1>1
  <2> HIDE DEF Offer, x, y
  <2>2. p = [n.peer EXCEPT !.asked = x, !.got = y]
    BY DEF x, y
  <2> HIDE DEF p
  <2>3. p \in WPeer /\ p.pipe = n.peer.pipe /\ p.next = n.peer.next /\ p.got = y
        /\ p.focused = n.peer.focused
    BY ONLY <1>1, <2>1, <2>2 DEF WPeer
  <2> QED BY <2>3 DEF y
<1>3. a = [n EXCEPT !.peer = p]
  BY DEF WShape, Pasted
<1>a. m \in WMessage /\ m.type = "send"
  BY <1>1 DEF WMessage
<1>b. c = Tell(a, m)
  OBVIOUS
<1> HIDE DEF p, a, m
<1>4. /\ a \in WShape /\ a.lib = n.lib /\ a.board = n.board /\ a.server = n.server /\ a.peer = p
      /\ a.wire = n.wire /\ a.seen = n.seen /\ a.last = n.last
  BY <1>2, <1>3, WFields DEF WShape
<1>5. WRequests(a) /\ WSeen(a) /\ WSource(a) /\ WServed(a) /\ WReading(a) /\ Asked(a) = Asked(n)
  BY <1>0, <1>2, <1>4 DEF WCore, WRequests, WSeen, Asked, WSource, WServed, WReading
<1>6. WOwner(a) /\ WOffers(a)
  BY <1>0, <1>4 DEF WCore, WOwner, Selected, WOffers, Sound
<1>7. WCore(a) /\ WWanted(a)
  BY <1>0, <1>4, <1>5, <1>6 DEF WCore, WWanted
<1>8. WKnows(a)
  BY <1>0, <1>2, <1>4 DEF WKnows, Knows, Selected
<1>9. /\ WCore(Tell(a, m)) /\ (WWanted(a) => WWanted(Tell(a, m)))
      /\ Learnt(Known(Tell(a, m).lib), Tell(a, m).wire) = Learns(Learnt(Known(a.lib), a.wire), m)
      /\ Asked(Tell(a, m)) = Asked(a)
  BY <1>4, <1>7, <1>a, WTellKeeps
<1>10. /\ c.board = n.board /\ c.server = n.server /\ c.peer = a.peer /\ c.seen = n.seen
       /\ c.last = n.last
  BY <1>4, <1>a, <1>b, WTells
<1>11. Learns(Learnt(Known(a.lib), a.wire), m) = Learnt(Known(a.lib), a.wire)
  BY <1>a DEF Learns
<1>12. WKnows(c)
  BY <1>4, <1>8, <1>9, <1>10, <1>11, <1>b DEF WKnows, Knows, Selected
<1> QED BY <1>5, <1>7, <1>9, <1>10, <1>12, <1>b DEF WInv, WLooks

-----------------------------------------------------------------------------
(* Clipboards: the steps *)

LEMMA NowIs ==
  /\ Now.board = board /\ Now.lib = lib /\ Now.server = server /\ Now.peer = peer
  /\ Now.wire = wire /\ Now.seen = seen /\ Now.last = last
BY DEF Now

LEMMA BecomesIs ==
  ASSUME NEW n, n \in XShape \/ n \in WShape \/ n \in DShape, Becomes(n)
  PROVE  Now' = n
<1>1. n = [board |-> n.board, lib |-> n.lib, server |-> n.server, peer |-> n.peer,
           wire |-> n.wire, seen |-> n.seen, last |-> n.last]
  BY DEF XShape, WShape, DShape
<1> QED BY <1>1 DEF Becomes, Now

LEMMA XStepKeeps ==
  ASSUME XInv(Now), XNext
  PROVE  XInv(Now') /\ backend' = backend /\ (Looks(Now, Now') \/ Puts(Now, Now'))
<1>0. Now \in XShape
  BY DEF XInv, XBase
<1>1. ASSUME NEW c, XInv(c), Becomes(c) PROVE Now' = c
  <2>1. c \in XShape
    BY <1>1 DEF XInv, XBase
  <2> QED BY <1>1, <2>1, BecomesIs
<1>2. backend' = backend
  BY DEF XNext, XCall, XTake, XTimeout, XPeerPuts, XPeerAnswers, XPeerSends, XOtherProperty, Move, Step
<1>3. CASE XCall
  <2>1. lib.pc = "idle"
    BY <1>3 DEF XCall
  <2>2. CASE Becomes(XRead(Now))
    <3>1. XInv(XRead(Now)) /\ Looks(Now, XRead(Now))
      BY <1>0, XReadKeeps
    <3>2. Now' = XRead(Now)
      BY <1>1, <2>2, <3>1
    <3> QED BY <1>2, <3>1, <3>2
  <2>3. ASSUME NEW t \in Text, Becomes(XOwn(Now, t))
        PROVE  XInv(Now') /\ Puts(Now, Now')
    <3>1. XInv(XOwn(Now, t)) /\ Puts(Now, XOwn(Now, t))
      BY <1>0, <2>1, XOwnKeeps, NowIs
    <3>2. Now' = XOwn(Now, t)
      BY <1>1, <2>3, <3>1
    <3> QED BY <3>1, <3>2
  <2> QED BY <1>2, <1>3, <2>2, <2>3 DEF XCall
<1>4. CASE XTake
  <2> DEFINE c == LET m == Head(Now.wire)
                      n == [Now EXCEPT !.wire = Tail(@)]
                  IN IF m.type # Wanted[Now.lib.pc] THEN XDispatch(n, m)
                     ELSE IF m.type = "notify" THEN XNotified(n, m) ELSE XChunk(n)
  <2>1. Now.wire # << >> /\ Becomes(c)
    BY <1>4, NowIs DEF XTake
  <2>2. PICK v : v = c
    OBVIOUS
  <2>3. XInv(v) /\ Looks(Now, v)
    BY <1>0, <2>1, <2>2, XTakeKeeps
  <2>4. Becomes(v)
    BY <2>1, <2>2
  <2> HIDE DEF c
  <2> QED BY <1>1, <1>2, <2>3, <2>4
<1>5. CASE XTimeout
  <2> DEFINE c == XNextTarget([Now EXCEPT !.lib.late = TRUE])
  <2>1. lib.pc # "idle" /\ Becomes(c)
    BY <1>5 DEF XTimeout
  <2>2. XInv(c) /\ Looks(Now, c)
    BY <1>0, <2>1, NowIs, XTimeoutKeeps
  <2> HIDE DEF c
  <2> QED BY <1>1, <1>2, <2>1, <2>2
<1>6. CASE XPeerPuts
  <2>1. PICK t \in Texts :
          Becomes(LET m == OnBoard([Now EXCEPT !.peer.text = t],
                                   IF t = Nothing THEN "none" ELSE "peer", t)
                  IN IF board.owner = "us" THEN Tell(m, [type |-> "clear"]) ELSE m)
    BY <1>6, Zenon DEF XPeerPuts, Texts
  <2> DEFINE c == LET m == OnBoard([Now EXCEPT !.peer.text = t],
                                   IF t = Nothing THEN "none" ELSE "peer", t)
                  IN IF Now.board.owner = "us" THEN Tell(m, [type |-> "clear"]) ELSE m
  <2>2. Becomes(c)
    BY <2>1, NowIs, Zenon
  <2>3. PICK v : v = c
    OBVIOUS
  <2>4. XInv(v) /\ Puts(Now, v)
    BY <1>0, <2>3, XPutsKeeps
  <2>5. Becomes(v)
    BY <2>2, <2>3
  <2> HIDE DEF c
  <2> QED BY <1>1, <1>2, <2>4, <2>5
<1>7. CASE XPeerAnswers
  <2> DEFINE n == [Now EXCEPT !.peer.requests = @ - 1]
             t == Now.peer.text
  <2>1. Now.peer.requests > 0
    BY <1>7, NowIs DEF XPeerAnswers
  <2>2. \E c : /\ Becomes(c)
               /\ \/ c = Tell(n, [type |-> "notify", found |-> FALSE])
                  \/ /\ t # Nothing
                     /\ c = Tell(XWrite(n, "text", Whole(t)), [type |-> "notify", found |-> TRUE])
                  \/ /\ t # Nothing
                     /\ c = Tell([XWrite(n, "incr", << >>)
                                    EXCEPT !.peer.sending = Append(@, [text |-> t, next |-> 1])],
                                 [type |-> "notify", found |-> TRUE])
    <3>1. t = peer.text
      BY NowIs
    <3> HIDE DEF t
    <3> QED BY <1>7, <3>1, Zenon DEF XPeerAnswers
  <2>3. PICK c : /\ Becomes(c)
               /\ \/ c = Tell(n, [type |-> "notify", found |-> FALSE])
                  \/ /\ t # Nothing
                     /\ c = Tell(XWrite(n, "text", Whole(t)), [type |-> "notify", found |-> TRUE])
                  \/ /\ t # Nothing
                     /\ c = Tell([XWrite(n, "incr", << >>)
                                    EXCEPT !.peer.sending = Append(@, [text |-> t, next |-> 1])],
                                 [type |-> "notify", found |-> TRUE])
    BY <2>2, Zenon
  <2>4. XInv(c) /\ Looks(Now, c)
    BY <1>0, <2>1, <2>3, XAnswersKeeps
  <2> QED BY <1>1, <1>2, <2>3, <2>4
<1>8. CASE XPeerSends
  <2>1. Now.peer.deletes > 0
    BY <1>8, NowIs DEF XPeerSends
  <2>2. PICK i \in 1 .. Len(Now.peer.sending) : Becomes(SendsOf(Now, i))
    BY <1>8, NowIs, Zenon DEF XPeerSends, SendsOf
  <2>3. XInv(SendsOf(Now, i)) /\ Looks(Now, SendsOf(Now, i))
    BY <1>0, <2>1, XSendsKeeps
  <2> QED BY <1>1, <1>2, <2>2, <2>3
<1>9. CASE XOtherProperty
  <2> DEFINE m == [type |-> "other"]
  <2>1. Now.lib.pc = "chunk" /\ Becomes(Tell(Now, m))
    BY <1>9, NowIs DEF XOtherProperty
  <2>2. PICK v : v = Tell(Now, m)
    OBVIOUS
  <2>3. XInv(v) /\ Looks(Now, v)
    BY <1>0, <2>1, <2>2, XOtherKeeps
  <2>4. Becomes(v)
    BY <2>1, <2>2
  <2> QED BY <1>1, <1>2, <2>3, <2>4
<1> QED BY <1>3, <1>4, <1>5, <1>6, <1>7, <1>8, <1>9 DEF XNext

LEMMA WStepKeeps ==
  ASSUME WInv(Now), WNext
  PROVE  /\ WInv(Now') /\ backend' = backend
         /\ \/ WLooks(Now, Now') \/ Deals(Now, Now') \/ Asks(Now, Now')
            \/ Puts(Now, Now') /\ Asked(Now') = Asked(Now)
<1>0. Now \in WShape
  BY DEF WInv, WCore
<1>1. ASSUME NEW c, WInv(c), Becomes(c) PROVE Now' = c
  <2>1. c \in WShape
    BY <1>1 DEF WInv, WCore
  <2> QED BY <1>1, <2>1, BecomesIs
<1>2. backend' = backend
  BY DEF WNext, WServerTakes, WPump, WCall, WReadPipe, WCut, WOthers, Move, Step
<1>3. ASSUME NEW c, Becomes(c), WInv(c) /\ WLooks(Now, c)
      PROVE  WInv(Now') /\ WLooks(Now, Now')
  BY <1>1, <1>3
<1>4. CASE WServerTakes
  <2>1. Now.server.requests # << >>
    BY <1>4, NowIs DEF WServerTakes
  <2>2. Becomes(WServe(Now, TRUE)) \/ Becomes(WServe(Now, FALSE))
    <3>1. PICK accepted \in BOOLEAN : Becomes(WServe(Now, accepted))
      BY <1>4 DEF WServerTakes
    <3> QED BY <3>1
  <2>3. /\ WInv(WServe(Now, TRUE)) /\ Deals(Now, WServe(Now, TRUE))
        /\ WInv(WServe(Now, FALSE)) /\ Deals(Now, WServe(Now, FALSE))
    BY <1>0, <2>1, WAcceptKeeps, WRejectKeeps
  <2> QED BY <1>1, <1>2, <2>2, <2>3
<1>5. CASE WPump
  <2> DEFINE c == [WDispatched(Now) EXCEPT !.seen = {Now.board.text} \cup Asked(Now)]
  <2>1. Becomes(c) /\ Now.lib.pc = "idle"
    BY <1>5, NowIs DEF WPump
  <2>2. PICK v : v = c
    OBVIOUS
  <2>3. WInv(v) /\ WLooks(Now, v)
    BY <1>0, <2>1, <2>2, WPumpKeeps
  <2>4. Becomes(v)
    BY <2>1, <2>2
  <2> HIDE DEF c
  <2> QED BY <1>2, <1>3, <2>3, <2>4
<1>6. CASE WCall
  <2>1. Now.lib.pc = "idle"
    BY <1>6, NowIs DEF WCall
  <2>2. CASE Becomes(WGet(Now))
    <3>1. WInv(WGet(Now)) /\ WLooks(Now, WGet(Now))
      BY <1>0, <2>1, WGetKeeps
    <3> QED BY <1>2, <1>3, <2>2, <3>1
  <2>3. ASSUME NEW t \in Text, Becomes(WSet(Now, t))
        PROVE  WInv(Now') /\ Asks(Now, Now')
    <3>1. WInv(WSet(Now, t)) /\ Asks(Now, WSet(Now, t))
      BY <1>0, <2>1, WSetKeeps
    <3> QED BY <1>1, <2>3, <3>1
  <2>4. \/ Becomes(WGet(Now))
        \/ \E t \in Text : Becomes(WSet(Now, t))
    BY <1>6, Zenon DEF WCall, PrimarySet, PrimaryGet
  <2> QED BY <1>2, <2>2, <2>3, <2>4
<1>7. CASE WReadPipe
  <2>1. Now.lib.pc = "pipe"
    BY <1>7, NowIs DEF WReadPipe
  <2>2. CASE Now.peer.pipe.text # Nothing /\ Now.peer.next <= 2
    <3>1. Becomes(Grown(Now))
      BY <1>7, <2>2, NowIs DEF WReadPipe, Grown
    <3>2. WInv(Grown(Now)) /\ WLooks(Now, Grown(Now))
      BY <1>0, <2>1, <2>2, WPieceKeeps
    <3> QED BY <1>2, <1>3, <3>1, <3>2
  <2>3. CASE ~(Now.peer.pipe.text # Nothing /\ Now.peer.next <= 2)
    <3> DEFINE c == Ends(Now, Now.lib.buffer, Now.peer.pipe = NoOffer)
    <3>1. Becomes(c)
      BY <1>7, <2>3, NowIs DEF WReadPipe
    <3>2. WInv(c) /\ WLooks(Now, c)
      BY <1>0, <2>1, <2>3, WEndKeeps
    <3> HIDE DEF c
    <3> QED BY <1>2, <1>3, <3>1, <3>2
  <2> QED BY <2>2, <2>3
<1>8. CASE WCut
  <2>1. Now.lib.pc = "pipe" /\ Becomes(CutOff(Now))
    BY <1>8, NowIs DEF WCut, CutOff
  <2>2. PICK v : v = CutOff(Now)
    OBVIOUS
  <2>3. WInv(v) /\ WLooks(Now, v)
    BY <1>0, <2>1, <2>2, WCutKeeps
  <2>4. Becomes(v)
    BY <2>1, <2>2
  <2> QED BY <1>2, <1>3, <2>3, <2>4
<1>9. CASE WOthers
  <2>1. ASSUME NEW t \in Text \cup {Nothing}, Becomes(WOtherPuts(Now, t))
        PROVE  WInv(Now') /\ Puts(Now, Now') /\ Asked(Now') = Asked(Now)
    <3>1. t \in Texts
      BY DEF Texts
    <3>2. WInv(WOtherPuts(Now, t)) /\ Puts(Now, WOtherPuts(Now, t)) /\ Asked(WOtherPuts(Now, t)) = Asked(Now)
      BY <1>0, <3>1, WOtherPutsKeeps
    <3> QED BY <1>1, <2>1, <3>2
  <2>2. ASSUME NEW m, m = [Now EXCEPT !.peer.focused = TRUE], Becomes(WAnnounce(m))
        PROVE  WInv(Now') /\ WLooks(Now, Now')
    <3>1. WInv(WAnnounce(m)) /\ WLooks(Now, WAnnounce(m))
      BY <1>0, <2>2, WFocusKeeps
    <3> QED BY <1>3, <2>2, <3>1
  <2>3. ASSUME NEW m, m = [Now EXCEPT !.peer.focused = FALSE], Becomes(m)
        PROVE  WInv(Now') /\ WLooks(Now, Now')
    <3>1. WInv(m) /\ WLooks(Now, m)
      BY <1>0, <2>3, WUnfocusKeeps
    <3> QED BY <1>3, <2>3, <3>1
  <2>4. ASSUME NEW text \in BOOLEAN, NEW c, c = Tell(Now, [type |-> "offer", text |-> text, drag |-> TRUE]),
               Becomes(c)
        PROVE  WInv(Now') /\ WLooks(Now, Now')
    <3>1. WInv(c) /\ WLooks(Now, c)
      BY <1>0, <2>4, WDragKeeps
    <3> QED BY <1>3, <2>4, <3>1
  <2>5. ASSUME NEW c, c = Tell(Pasted(Now), [type |-> "send", source |-> Now.server.current]), Becomes(c)
        PROVE  WInv(Now') /\ WLooks(Now, Now')
    <3>1. WInv(c) /\ WLooks(Now, c)
      BY <1>0, <2>5, WPasteKeeps
    <3> QED BY <1>3, <2>5, <3>1
  <2>6. \/ \E t \in Text \cup {Nothing} : Becomes(WOtherPuts(Now, t))
        \/ Becomes(WAnnounce([Now EXCEPT !.peer.focused = TRUE]))
        \/ Becomes([Now EXCEPT !.peer.focused = FALSE])
        \/ \E text \in BOOLEAN : Becomes(Tell(Now, [type |-> "offer", text |-> text, drag |-> TRUE]))
        \/ Becomes(Tell(Pasted(Now), [type |-> "send", source |-> Now.server.current]))
    <3>1. [Now EXCEPT !.peer.asked = server.current, !.peer.got = NoOffer] = Pasted(Now)
          /\ Now.server.current = server.current
      BY NowIs DEF Pasted
    <3> QED BY <1>9, <3>1, Zenon DEF WOthers, WOtherPuts
  <2> QED BY <1>2, <2>1, <2>2, <2>3, <2>4, <2>5, <2>6
<1> QED BY <1>4, <1>5, <1>6, <1>7, <1>8, <1>9 DEF WNext

LEMMA DStepKeeps ==
  ASSUME DInv(Now), DCall \/ DOthers
  PROVE  DInv(Now') /\ backend' = backend /\ (Now' = Now \/ Looks(Now, Now') \/ Puts(Now, Now'))
<1>0. Now \in DShape
  BY DEF DInv
<1>1. ASSUME NEW c, DInv(c), Becomes(c) PROVE Now' = c
  <2>1. c \in DShape
    BY <1>1 DEF DInv
  <2> QED BY <1>1, <2>1, BecomesIs
<1>2. backend' = backend
  BY DEF DCall, DOthers, Move
<1>3. ASSUME NEW t \in Text, NEW at \in {"open", "set", "done"}, Becomes(DSet(Now, t, at))
      PROVE  DInv(Now') /\ (Now' = Now \/ Puts(Now, Now'))
  <2>1. DInv(DSet(Now, t, at)) /\ (DSet(Now, t, at) = Now \/ Puts(Now, DSet(Now, t, at)))
    BY <1>0, DSetKeeps
  <2>2. Now' = DSet(Now, t, at)
    BY <1>1, <1>3, <2>1
  <2> QED BY <2>1, <2>2
<1>4. ASSUME NEW opened \in BOOLEAN,
             Becomes(IF backend = "win32" THEN Win32Get(Now, opened) ELSE CocoaGet(Now))
      PROVE  DInv(Now') /\ Looks(Now, Now')
  <2>1. /\ DInv(Win32Get(Now, opened)) /\ Looks(Now, Win32Get(Now, opened))
        /\ DInv(CocoaGet(Now)) /\ Looks(Now, CocoaGet(Now))
    BY <1>0, DGetKeeps
  <2>2. Now' = (IF backend = "win32" THEN Win32Get(Now, opened) ELSE CocoaGet(Now))
    BY <1>1, <1>4, <2>1
  <2> QED BY <2>1, <2>2
<1>5. ASSUME NEW t \in Text \cup {Nothing}, Becomes(OnBoard(Now, "peer", t))
      PROVE  DInv(Now') /\ Puts(Now, Now')
  <2>1. t \in Texts /\ "peer" \in {"us", "peer", "none"}
    BY DEF Texts
  <2>2. PICK o \in {"us", "peer", "none"} : o = "peer"
    OBVIOUS
  <2>3. DInv(OnBoard(Now, o, t)) /\ Puts(Now, OnBoard(Now, o, t))
    BY <1>0, <2>1, DPutsKeeps
  <2>4. Now' = OnBoard(Now, o, t)
    BY <1>1, <1>5, <2>2, <2>3
  <2> QED BY <2>3, <2>4
<1>6. CASE DCall
  BY <1>2, <1>3, <1>4, <1>6 DEF DCall
<1>7. CASE DOthers
  BY <1>2, <1>5, <1>7 DEF DOthers
<1> QED BY <1>6, <1>7

-----------------------------------------------------------------------------
(* Clipboards: the start *)

LEMMA BoardOf ==
  ASSUME NEW t \in Texts, NEW b, b = [owner |-> IF t = Nothing THEN "none" ELSE "peer", text |-> t]
  PROVE  /\ b \in Board /\ b.text = t /\ b.owner # "us"
         /\ b.owner = "none" => t = Nothing
         /\ b.owner = "peer" \/ b.owner = "none"
BY DEF Board

LEMMA NoReadIs ==
  NoRead \in Last /\ Answers(NoRead) /\ ~NoRead.late
<1>1. NoRead \in Last
  <2> HIDE DEF Part
  <2> QED BY DEF NoRead, Last
<1> QED BY <1>1 DEF NoRead, Answers

LEMMA XStarts ==
  ASSUME NEW t \in Texts, NEW n, n = XFresh(t)
  PROVE  XInv(n)
<1> DEFINE b == [owner |-> IF t = Nothing THEN "none" ELSE "peer", text |-> t]
           l == [slot |-> Nothing, pc |-> "idle", target |-> 1, buffer |-> << >>,
                 late |-> FALSE, dragged |-> FALSE, refused |-> FALSE, overtaken |-> FALSE]
           p == [text |-> t, requests |-> 0, sending |-> << >>, deletes |-> 0]
<1>1. /\ b \in Board /\ b.text = t /\ b.owner # "us" /\ (b.owner = "none" => t = Nothing)
  BY BoardOf
<1>2. << >> \in Seq(Part) /\ << >> \in Seq(XTransfer) /\ << >> \in Seq(XMessage)
  BY EmptySeq
<1>3. l \in XLib /\ l.pc = "idle"
  <2> HIDE DEF Part
  <2> QED BY <1>2, TextsDiffer DEF XLib
<1>4. p \in XPeer /\ p.text = t /\ p.deletes = 0
  <2> HIDE DEF XTransfer
  <2> QED BY <1>2 DEF XPeer
<1>5. NoProperty \in XProperty
  <2> HIDE DEF Part
  <2> QED BY <1>2 DEF NoProperty, XProperty
<1>6. /\ n = [board |-> b, lib |-> l, server |-> NoProperty, peer |-> p,
              wire |-> << >>, seen |-> {t}, last |-> NoRead]
  BY DEF XFresh
<1> HIDE DEF b, l, p
<1>7. n \in XShape /\ n.board = b /\ n.lib = l /\ n.peer = p /\ n.seen = {t} /\ n.last = NoRead
  <2>1. {t} \in SUBSET Texts
    OBVIOUS
  <2> HIDE DEF XMessage
  <2> QED BY ONLY <1>1, <1>2, <1>3, <1>4, <1>5, <1>6, <2>1, NoReadIs DEF XShape
<1>8. XBase(n)
  BY <1>1, <1>4, <1>7, NoReadIs DEF XBase, XOwner
<1> QED BY <1>3, <1>7, <1>8 DEF XInv, XReading

LEMMA DStarts ==
  ASSUME NEW t \in Texts, NEW n, n = DFresh(t)
  PROVE  DInv(n)
<1> DEFINE l == [pc |-> "idle", late |-> FALSE, buffer |-> << >>, dragged |-> FALSE]
           x == XFresh(t)
<1>1. x \in XShape /\ x.board.text \in x.seen /\ Answers(x.last)
  BY XStarts DEF XInv, XBase
<1>2. x.server = NoProperty /\ x.wire = << >>
  BY DEF XFresh
<1>3. n = [x EXCEPT !.lib = l]
  BY DEF DFresh
<1>4. l \in DLib
  BY DEF DLib
<1> HIDE DEF x, l
<1>5. n \in DShape /\ n.board = x.board /\ n.seen = x.seen /\ n.last = x.last
  BY <1>1, <1>2, <1>3, <1>4 DEF XShape, DShape
<1>6. n.last = NoRead
  BY <1>5 DEF x, XFresh
<1> QED BY <1>1, <1>5, <1>6, NoReadIs DEF DInv

LEMMA WStarts ==
  ASSUME NEW t \in Texts, NEW n, n = WFresh(t)
  PROVE  WInv(n) /\ Asked(n) = {}
<1> DEFINE b == [owner |-> IF t = Nothing THEN "none" ELSE "peer", text |-> t]
           l == [source |-> NoSource, offered |-> Nothing, offer |-> NoOffer,
                 hasText |-> FALSE, pc |-> "idle", buffer |-> << >>, late |-> FALSE,
                 dragged |-> FALSE]
           s == [requests |-> << >>, current |-> -1, ids |-> 1, texts |-> << >>]
           p == [focused |-> FALSE, pipe |-> NoOffer, next |-> 1,
                 asked |-> NoSource, got |-> NoOffer]
<1>1. /\ b \in Board /\ b.text = t /\ b.owner # "us" /\ (b.owner = "none" => t = Nothing)
  BY BoardOf
<1>2. << >> \in Seq(Part) /\ << >> \in Seq([source : Nat, destroyed : Nat])
      /\ << >> \in Seq(WMessage) /\ << >> \in Seq(Text)
  BY EmptySeq
<1>3. NoOffer \in Offer /\ NoSource \in Nat /\ NoSource \in Int
  BY NoOfferIs DEF NoSource
<1>4. l \in WLib /\ l.pc = "idle" /\ l.source = NoSource /\ l.offered = Nothing /\ l.offer = NoOffer
  <2> HIDE DEF Part, Offer, NoOffer, NoSource
  <2> QED BY <1>2, <1>3, TextsDiffer DEF WLib
<1>5. s \in WServer /\ s.requests = << >> /\ s.current = -1 /\ s.ids = 1
  <2>1. -1 \in Int /\ 1 \in Nat
    OBVIOUS
  <2> QED BY ONLY <1>2, <2>1 DEF WServer
<1>6. p \in WPeer /\ p.focused = FALSE /\ p.got = NoOffer
  <2>1. 1 \in 1 .. 3
    OBVIOUS
  <2> HIDE DEF Offer, NoOffer, NoSource
  <2> QED BY <1>3, <2>1 DEF WPeer
<1>7. /\ n = [board |-> b, lib |-> l, server |-> s, peer |-> p,
              wire |-> << >>, seen |-> {t}, last |-> NoRead]
  BY DEF WFresh
<1> HIDE DEF b, l, s, p
<1>8. /\ n \in WShape /\ n.board = b /\ n.lib = l /\ n.server = s /\ n.peer = p
      /\ n.wire = << >> /\ n.seen = {t} /\ n.last = NoRead
  <2>1. {t} \in SUBSET Texts
    OBVIOUS
  <2> HIDE DEF WMessage
  <2> QED BY ONLY <1>1, <1>2, <1>4, <1>5, <1>6, <1>7, <2>1, NoReadIs DEF WShape
<1>9. Len(n.server.requests) = 0 /\ Len(n.wire) = 0
  BY <1>5, <1>8
<1>10. Asked(n) = {}
  BY <1>9 DEF Asked
<1>11. WRequests(n) /\ WSeen(n)
  BY <1>1, <1>8, <1>9, <1>10 DEF WRequests, WSeen
<1>12. WOwner(n)
  BY <1>1, <1>5, <1>8 DEF WOwner
<1>13. WOffers(n)
  BY <1>4, <1>8, <1>9 DEF WOffers, Sound
<1>14. WSource(n) /\ WServed(n) /\ WReading(n)
  BY <1>4, <1>6, <1>8 DEF WSource, WServed, WReading
<1>15. WCore(n)
  BY <1>8, <1>11, <1>12, <1>13, <1>14, NoReadIs DEF WCore
<1>16. WWanted(n) /\ WKnows(n)
  BY <1>4, <1>6, <1>8 DEF WWanted, WKnows
<1> QED BY <1>10, <1>15, <1>16 DEF WInv

LEMMA BoardsStart ==
  ASSUME Init
  PROVE  BoardsInv /\ (OnWayland => Asked(Now) = {}) /\ last = NoRead /\ seen = {board.text}
<1>1. backend \in Backends
  BY DEF Init
<1>2. PICK t \in Texts :
        LET n == CASE backend = "x11" -> XFresh(t)
                   [] OnWayland -> WFresh(t)
                   [] OTHER -> DFresh(t)
        IN /\ board = n.board /\ lib = n.lib /\ server = n.server /\ peer = n.peer
           /\ wire = n.wire /\ seen = n.seen /\ last = n.last
  BY Zenon DEF Init, Texts
<1>3. ASSUME NEW n, n \in XShape \/ n \in WShape \/ n \in DShape,
             /\ board = n.board /\ lib = n.lib /\ server = n.server /\ peer = n.peer
             /\ wire = n.wire /\ seen = n.seen /\ last = n.last
      PROVE  Now = n
  <2>1. n = [board |-> n.board, lib |-> n.lib, server |-> n.server, peer |-> n.peer,
             wire |-> n.wire, seen |-> n.seen, last |-> n.last]
    BY <1>3 DEF XShape, WShape, DShape
  <2> QED BY <1>3, <2>1 DEF Now
<1>4. CASE backend = "x11"
  <2> DEFINE n == XFresh(t)
  <2>1. /\ board = n.board /\ lib = n.lib /\ server = n.server /\ peer = n.peer
        /\ wire = n.wire /\ seen = n.seen /\ last = n.last
    BY <1>2, <1>4 DEF OnWayland
  <2>2. n.last = NoRead /\ n.seen = {t} /\ n.board.text = t
    BY DEF XFresh
  <2>3. XInv(n)
    BY XStarts
  <2>4. n \in XShape
    BY <2>3 DEF XInv, XBase
  <2> HIDE DEF n
  <2>5. Now = n
    BY <1>3, <2>1, <2>4
  <2> QED BY <1>1, <1>4, <2>1, <2>2, <2>3, <2>5 DEF BoardsInv, OnWayland, Desktop
<1>5. CASE OnWayland
  <2> DEFINE n == WFresh(t)
  <2>1. /\ board = n.board /\ lib = n.lib /\ server = n.server /\ peer = n.peer
        /\ wire = n.wire /\ seen = n.seen /\ last = n.last
    BY <1>2, <1>5 DEF OnWayland
  <2>2. n.last = NoRead /\ n.seen = {t} /\ n.board.text = t
    BY DEF WFresh
  <2>3. WInv(n) /\ Asked(n) = {}
    BY WStarts
  <2>4. n \in WShape
    BY <2>3 DEF WInv, WCore
  <2> HIDE DEF n
  <2>5. Now = n
    BY <1>3, <2>1, <2>4
  <2> QED BY <1>1, <1>5, <2>1, <2>2, <2>3, <2>5 DEF BoardsInv, OnWayland, Desktop
<1>6. CASE ~OnWayland /\ backend # "x11"
  <2> DEFINE n == DFresh(t)
  <2>1. /\ board = n.board /\ lib = n.lib /\ server = n.server /\ peer = n.peer
        /\ wire = n.wire /\ seen = n.seen /\ last = n.last
    BY <1>2, <1>6
  <2>2. n.last = NoRead /\ n.seen = {t} /\ n.board.text = t
    BY DEF XFresh, DFresh
  <2>3. DInv(n)
    BY DStarts
  <2>4. n \in DShape
    BY <2>3 DEF DInv
  <2> HIDE DEF n
  <2>5. Now = n
    BY <1>3, <2>1, <2>4
  <2> QED BY <1>1, <1>6, <2>1, <2>2, <2>3, <2>5 DEF BoardsInv
<1> QED BY <1>4, <1>5, <1>6

LEMMA BoardsStep ==
  ASSUME BoardsInv, [Next]_vars
  PROVE  BoardsInv'
<1>1. CASE UNCHANGED vars
  BY <1>1 DEF vars, BoardsInv, Now, OnWayland, Desktop
<1>2. CASE XNext
  <2>1. backend = "x11"
    BY <1>2 DEF XNext, XCall, XTake, XTimeout, XPeerPuts, XPeerAnswers, XPeerSends, XOtherProperty, Move, Step
  <2>2. XInv(Now') /\ backend' = backend
    BY <1>2, <2>1, XStepKeeps DEF BoardsInv
  <2>3. XInv(Now)' = XInv(Now')
    BY DEF XInv
  <2> QED BY <2>1, <2>2 DEF BoardsInv, OnWayland, Desktop
<1>3. CASE WNext
  <2>1. OnWayland
    BY <1>3 DEF WNext, WServerTakes, WPump, WCall, WReadPipe, WCut, WOthers
  <2>2. WInv(Now') /\ backend' = backend
    BY <1>3, <2>1, WStepKeeps DEF BoardsInv
  <2> QED BY <2>1, <2>2 DEF BoardsInv, OnWayland, Desktop
<1>4. CASE DCall \/ DOthers
  <2>1. Desktop
    BY <1>4 DEF DCall, DOthers
  <2>2. DInv(Now') /\ backend' = backend
    BY <1>4, <2>1, DStepKeeps DEF BoardsInv
  <2> QED BY <2>1, <2>2 DEF BoardsInv, OnWayland, Desktop
<1> QED BY <1>1, <1>2, <1>3, <1>4 DEF Next

\* Each backend keeps its invariant: on X11 the conversation with the owner is in
\* one of the states nack__xcb_read_selection waits for
\* (nack_xcb_clipboard.cpp:299); on Wayland libnack knows what is offered once it
\* has heard all there is, and its source is wanted
\* (nack_wayland_clipboard.cpp:172).
THEOREM BoardsInvariant == Spec => []BoardsInv
<1>1. Init => BoardsInv
  BY BoardsStart
<1>2. BoardsInv /\ [Next]_vars => BoardsInv'
  BY BoardsStep
<1> QED BY <1>1, <1>2, PTL DEF Spec

LEMMA BoardsKnown ==
  ASSUME BoardsInv
  PROVE  /\ backend = "x11" \/ OnWayland \/ Desktop
         /\ backend = "x11" => XInv(Now) /\ ~OnWayland /\ ~Desktop
         /\ OnWayland => WInv(Now) /\ ~Desktop
         /\ Desktop => DInv(Now)
         /\ Answers(last) /\ board.text \in Texts
<1>1. backend = "x11" \/ OnWayland \/ Desktop
  BY BackendsAssumption DEF BoardsInv, OnWayland, Desktop
<1>2. CASE backend = "x11"
  <2>1. Now \in XShape /\ Answers(Now.last)
    BY <1>2 DEF BoardsInv, XInv, XBase
  <2> QED BY <1>2, <2>1, XFields, NowIs DEF BoardsInv, OnWayland, Desktop
<1>3. CASE OnWayland
  <2>1. Now \in WShape /\ Answers(Now.last)
    BY <1>3 DEF BoardsInv, WInv, WCore
  <2> QED BY <1>3, <2>1, WFields, NowIs DEF BoardsInv, OnWayland, Desktop
<1>4. CASE Desktop
  <2>1. Now \in DShape /\ Answers(Now.last)
    BY <1>4 DEF BoardsInv, DInv
  <2> QED BY <1>4, <2>1, DFields, NowIs DEF BoardsInv, OnWayland, Desktop
<1> QED BY <1>1, <1>2, <1>3, <1>4

\* A read says nothing only when there was nothing all the while, or the owner,
\* the window's focus or a drag excuses it (nack.hpp:563).
THEOREM PastesFindText == Spec => []PasteFindsText
<1>1. BoardsInv => PasteFindsText
  BY BoardsKnown DEF PasteFindsText, Answers
<1> QED BY <1>1, BoardsInvariant, PTL

\* Whoever asks a source of ours is served the text that source was made with
\* (nack_wayland_clipboard.cpp:172, :370).
THEOREM SourcesServe == Spec => []ServesItsSource
<1>1. BoardsInv => ServesItsSource
  <2>1. ASSUME BoardsInv, OnWayland, peer.got # NoOffer
        PROVE  peer.got.text = server.texts[peer.got.source]
    <3>1. WServed(Now)
      BY <2>1 DEF BoardsInv, WInv, WCore
    <3> QED BY <2>1, <3>1, NowIs DEF WServed, Ours
  <2> QED BY <2>1 DEF ServesItsSource
<1> QED BY <1>1, BoardsInvariant, PTL

-----------------------------------------------------------------------------
(* Clipboards: the promise *)

\* The part of the promise: what the system has not dealt with.
AskedOf == IF OnWayland THEN Asked(Now) ELSE {}

\* And what a read that ends may answer.
MayAnswer ==
  (last.late => backend # "x11") =>
    \/ last.answer = Nothing
    \/ \E t \in Text \cap seen :
         last.answer = Whole(t) \/ (last.late /\ last.answer = Upto(t, 2))

LEMMA LatenessSame ==
  ASSUME last' = last, backend' = backend
  PROVE  Lateness' = Lateness
BY DEF Lateness

LEMMA TextsAre ==
  ASSUME NEW t \in Text
  PROVE  Whole(t) = Promise!All(t) /\ Upto(t, 2) = Promise!Start(t)
BY DEF Whole, Piece, Upto, Promise!All, Promise!Start

LEMMA PromiseStarts ==
  ASSUME Init
  PROVE  Promise!Init
<1>1. BoardsInv /\ (OnWayland => Asked(Now) = {}) /\ last = NoRead /\ seen = {board.text}
  BY BoardsStart
<1>2. board.text \in Texts
  BY <1>1, BoardsKnown
<1>3. last.answer = Nothing /\ Lateness = "no"
  BY <1>1 DEF NoRead, Lateness
<1> QED BY <1>1, <1>2, <1>3 DEF Promise!Init, Promise!Content, Texts

LEMMA PromiseStep ==
  ASSUME BoardsInv, BoardsInv', [Next]_vars
  PROVE  [Promise!Next]_(Promise!vars)
<1>1. board.text' = board'.text /\ board'.text \in Texts
  <2>1. (board.text \in Texts)'
    BY BoardsKnown, PTL
  <2> QED BY <2>1
<1>2. CASE UNCHANGED vars
  BY <1>2 DEF vars, Promise!vars, Lateness, Asked, Now, OnWayland
<1>3. ASSUME backend' = backend, Puts(Now, Now'), AskedOf' = AskedOf PROVE Promise!Next
  <2>1. seen' = seen \cup {board'.text} /\ last' = last
    BY <1>3 DEF Puts, Now
  <2>2. last'.answer = last.answer /\ Lateness' = Lateness
    BY <1>3, <2>1, LatenessSame
  <2>3. Promise!Put
    BY <1>1, <1>3, <2>1, <2>2 DEF Promise!Put, Promise!Content, Texts, AskedOf
  <2> QED BY <2>3 DEF Promise!Next
<1>4. ASSUME AskedOf' = AskedOf, board'.text = board.text, backend' = backend,
             seen' \in {seen, {board.text} \cup AskedOf},
             last' = last \/ MayAnswer'
      PROVE  [Promise!Next]_(Promise!vars)
  <2>1. CASE last' = last
    <3>1. last'.answer = last.answer /\ Lateness' = Lateness
      BY <1>4, <2>1, LatenessSame
    <3>2. CASE seen' = seen
      BY <1>4, <3>1, <3>2 DEF Promise!vars, AskedOf
    <3>3. CASE seen' = {board.text} \cup AskedOf
      <4>1. Promise!Hear
        BY <1>4, <3>1, <3>3 DEF Promise!Hear, AskedOf
      <4> QED BY <4>1 DEF Promise!Next
    <3> QED BY <1>4, <3>2, <3>3
  <2>2. CASE MayAnswer'
    <3>1. Lateness' \in {"no", "cut", "open"}
          /\ (Lateness' = "open" <=> last'.late /\ backend' = "x11")
          /\ (Lateness' = "cut" <=> last'.late /\ backend' # "x11")
      BY DEF Lateness
    <3>2. ASSUME Lateness' # "open"
          PROVE  \/ last'.answer = Nothing
                 \/ \E t \in Text \cap seen' :
                      \/ last'.answer = Promise!All(t)
                      \/ Lateness' = "cut" /\ last'.answer = Promise!Start(t)
      <4>1. last'.answer = Nothing
            \/ \E t \in Text \cap seen' :
                 last'.answer = Whole(t) \/ (last'.late /\ last'.answer = Upto(t, 2))
        BY <2>2, <3>1, <3>2 DEF MayAnswer
      <4>2. CASE last'.answer = Nothing
        BY <4>2
      <4>3. ASSUME NEW t \in Text \cap seen',
                   last'.answer = Whole(t) \/ (last'.late /\ last'.answer = Upto(t, 2))
            PROVE  \/ last'.answer = Promise!All(t)
                   \/ Lateness' = "cut" /\ last'.answer = Promise!Start(t)
        <5>1. Whole(t) = Promise!All(t) /\ Upto(t, 2) = Promise!Start(t)
          BY <4>3, TextsAre
        <5> QED BY <3>1, <3>2, <4>3, <5>1
      <4> QED BY <4>1, <4>2, <4>3
    <3>3. Promise!Answer
      BY <1>4, <3>1, <3>2 DEF Promise!Answer, AskedOf
    <3> QED BY <3>3 DEF Promise!Next
  <2> QED BY <1>4, <2>1, <2>2
<1>5. CASE backend = "x11" /\ XNext
  <2>1. backend' = backend /\ (Looks(Now, Now') \/ Puts(Now, Now'))
    BY <1>5, XStepKeeps DEF BoardsInv
  <2>2. AskedOf = {} /\ AskedOf' = {}
    BY <1>5, <2>1 DEF AskedOf, OnWayland
  <2>3. ASSUME Looks(Now, Now') PROVE [Promise!Next]_(Promise!vars)
    <3>1. /\ board'.text = board.text /\ seen' \in {seen, {board.text}}
          /\ (last' = last \/ Ended(Now'))
      BY <2>3 DEF Looks, Now
    <3>2. Ended(Now') => MayAnswer'
      BY <1>5, <2>1 DEF Ended, MayAnswer, Now
    <3> QED BY <1>4, <2>1, <2>2, <3>1, <3>2
  <2> QED BY <1>3, <2>1, <2>2, <2>3
<1>6. CASE OnWayland /\ WNext
  <2>1. /\ backend' = backend
        /\ \/ WLooks(Now, Now') \/ Deals(Now, Now') \/ Asks(Now, Now')
           \/ Puts(Now, Now') /\ Asked(Now') = Asked(Now)
    BY <1>6, WStepKeeps DEF BoardsInv
  <2>2. AskedOf = Asked(Now) /\ AskedOf' = Asked(Now')
    <3>1. OnWayland'
      BY <1>6, <2>1 DEF OnWayland
    <3> QED BY <1>6, <3>1 DEF AskedOf, Asked
  <2>3. ASSUME WLooks(Now, Now') PROVE [Promise!Next]_(Promise!vars)
    <3>1. /\ board'.text = board.text /\ Asked(Now') = Asked(Now)
          /\ seen' \in {seen, {board.text} \cup Asked(Now)}
          /\ (last' = last \/ CutShort(Now'))
      <4> HIDE DEF Asked
      <4> QED BY <2>3 DEF WLooks, Now
    <3>2. CutShort(Now') => MayAnswer'
      BY DEF CutShort, MayAnswer, Now
    <3> QED BY <1>4, <2>1, <2>2, <3>1, <3>2
  <2>4. ASSUME Deals(Now, Now') PROVE Promise!Next
    <3>1. /\ Asked(Now') \subseteq Asked(Now)
          /\ board'.text \in {board.text, Nothing} \cup Asked(Now)
          /\ seen' = seen \cup {board'.text} /\ last' = last
      BY <2>4 DEF Deals, Now
    <3>2. last'.answer = last.answer /\ Lateness' = Lateness
      BY <2>1, <3>1, LatenessSame
    <3>3. Promise!Deal
      BY <2>2, <3>1, <3>2 DEF Promise!Deal, AskedOf
    <3> QED BY <3>3 DEF Promise!Next
  <2>5. ASSUME Asks(Now, Now') PROVE Promise!Next
    <3>1. /\ \E t \in Text : Asked(Now') = Asked(Now) \cup {t} /\ seen' = seen \cup {t}
          /\ board'.text = board.text /\ last' = last
      BY <2>5 DEF Asks, Now
    <3>2. last'.answer = last.answer /\ Lateness' = Lateness
      BY <2>1, <3>1, LatenessSame
    <3>3. Promise!Ask
      BY <2>2, <3>1, <3>2 DEF Promise!Ask, AskedOf
    <3> QED BY <3>3 DEF Promise!Next
  <2> QED BY <1>3, <2>1, <2>2, <2>3, <2>4, <2>5
<1>7. CASE Desktop /\ (DCall \/ DOthers)
  <2>0. DInv(Now')
    BY <1>7, DStepKeeps DEF BoardsInv
  <2>1. backend' = backend /\ (Now' = Now \/ Looks(Now, Now') \/ Puts(Now, Now'))
    BY <1>7, DStepKeeps DEF BoardsInv
  <2>2. AskedOf = {} /\ AskedOf' = {}
    BY <1>7, <2>1 DEF AskedOf, OnWayland, Desktop
  <2>3. ASSUME Looks(Now, Now') PROVE [Promise!Next]_(Promise!vars)
    <3>1. /\ board'.text = board.text /\ seen' \in {seen, {board.text}}
          /\ (last' = last \/ Ended(Now'))
      BY <2>3 DEF Looks, Now
    <3>2. Ended(Now') => MayAnswer'
      <4>1. ~last'.late
        BY <2>0 DEF DInv, Now
      <4> QED BY <4>1 DEF Ended, MayAnswer, Now
    <3> QED BY <1>4, <2>1, <2>2, <3>1, <3>2
  <2>4. ASSUME Now' = Now PROVE [Promise!Next]_(Promise!vars)
    <3>1. board' = board /\ seen' = seen /\ last' = last
      BY <2>4 DEF Now
    <3> QED BY <1>4, <2>1, <2>2, <3>1
  <2> QED BY <1>3, <2>1, <2>2, <2>3, <2>4
<1>8. /\ XNext => backend = "x11"
      /\ WNext => OnWayland
      /\ DCall \/ DOthers => Desktop
  BY DEF XNext, XCall, XTake, XTimeout, XPeerPuts, XPeerAnswers, XPeerSends, XOtherProperty, Move, Step,
         WNext, WServerTakes, WPump, WCall, WReadPipe, WCut, WOthers, DCall, DOthers
<1> QED BY <1>2, <1>5, <1>6, <1>7, <1>8 DEF Next

\* All backends keep what the clipboard promises: in time no text is spliced and
\* none is pasted that is long gone; a deadline on Wayland leaves the beginning of
\* one text; only what X11 answers while a conversation is still open is anything
\* (nack_xcb_clipboard.cpp:299, :387, nack_wayland_clipboard.cpp:61, :400).
THEOREM ClipboardsKeepPromise == Spec => KeepsClipboardPromise
<1>1. Init => Promise!Init
  BY PromiseStarts
<1>2. BoardsInv /\ BoardsInv' /\ [Next]_vars => [Promise!Next]_(Promise!vars)
  BY PromiseStep
<1> QED BY <1>1, <1>2, BoardsInvariant, PTL DEF Spec, KeepsClipboardPromise, Promise!Spec
=============================================================================
