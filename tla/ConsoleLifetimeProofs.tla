-------------------------- MODULE ConsoleLifetimeProofs --------------------------
(***************************************************************************)
(* What holds of every life of the console, for any addresses, handles,    *)
(* tiles and numbers of starts and calls: nothing is left behind           *)
(* (CleanSlate), nothing is outlived by what it needs (NestedLifetimes),   *)
(* every fallback is tried (FallsBack), and no frame reads what has been   *)
(* freed (FramesAreSound).                                                 *)
(*                                                                         *)
(* The invariant speaks of the calls still to be made: everything there is *)
(* will be given back by one of them, and each comes when what it cannot   *)
(* bear has gone.                                                          *)
(***************************************************************************)
EXTENDS ConsoleLifetime, SequenceTheorems, TLAPS

Drivers == {"x11", "wayland", "win32", "cocoa"}
Working == {"opengl", "metal"}
Tried   == {"opengl", "metal", "test-fail"}

-----------------------------------------------------------------------------
(* What there is, and what a call to come does to it *)

Elements(s) == {s[i] : i \in 1 .. Len(s)}

\* What a backend, a window and a renderer can hold of the system.
SystemNames(b) ==
  IF b = "x11" THEN {"egl", "helper", "pipe", "xlib", "display"}
  ELSE IF b = "wayland" THEN {"egl", "globals", "pipe", "display"}
  ELSE IF b = "win32" THEN {"opengl32", "class", "libraries"}
  ELSE {"framework", "delegate"}
WindowNames == {"surface", "egl_window", "window"}

SystemRes(b) == Of(b, SystemNames(b))
WindowRes(b) == Of(b, WindowNames)
RendererRes(r, b) ==
  IF r = "opengl" THEN {<<"opengl", "vertices">>, <<"opengl", "program">>, <<b, "context">>}
  ELSE IF r = "metal" THEN {<<"metal", "pipeline">>, <<"metal", "device">>, <<"metal", "layer">>}
  ELSE {}

Owner == Drivers \cup Working
Name  == (UNION {SystemNames(b) : b \in Drivers}) \cup WindowNames
           \cup {"vertices", "program", "context", "pipeline", "device", "layer"}
Resource == Owner \X Name

\* Besides what is held of the system: a tileset, the renderer, the window
\* layer, its window, the rest of nack_console_state.
TilesetAt(t) == <<"tileset", t>>
TheRenderer  == <<"the", "renderer">>
TheLayer     == <<"the", "layer">>
TheWindow    == <<"the", "window">>
TheConsole   == <<"the", "console">>

Things ==
  held \cup {TilesetAt(t) : t \in {a \in Address : tiles[a] # 0}}
    \cup {x \in {TheRenderer} : gfx # "none"}
    \cup {x \in {TheLayer} : layer.vt # "none" \/ layer.cache # "none"}
    \cup {x \in {TheWindow} : console.window}
    \cup {x \in {TheConsole} : [console EXCEPT !.error = "none", !.window = FALSE] # NoConsole}

\* Call c gives s back, where b is the built-in font.
Gives(c, s, b) ==
  \/ c[1] = "release" /\ s = c[2]
  \/ c[1] = "destroy" /\ c[2] # b /\ s \in {TilesetAt(c[2]), Texture(c[2])}
  \/ c[1] = "destroy_builtin" /\ s \in {TilesetAt(c[2]), Texture(c[2])}
  \/ c[1] = "no_gfx" /\ s = TheRenderer
  \/ c[1] = "win_reset" /\ s = TheLayer
  \/ c[1] = "windowless" /\ s = TheWindow
  \/ c[1] = "reset" /\ s \in {TheWindow, TheConsole}

\* Call c may be made while s is there, on backend vt and with renderer r.
Bears(c, s, vt, r) ==
  /\ c[1] \notin {"backend", "failed", "report"}
  /\ c[1] = "window"    => s \in {TheLayer} \cup SystemRes(vt)
  /\ c[1] = "renderer"  => s \in {TheLayer, TheWindow} \cup SystemRes(vt) \cup WindowRes(vt)
  /\ c[1] = "release"   => s[1] \in {"the", "tileset"} \/ c[2] \notin NeededBy(s, vt, r)
  /\ c[1] = "no_gfx"    => s[1] \notin {"texture", "tileset"}
  /\ c[1] = "win_reset" => s \in {TheLayer, TheWindow, TheConsole}
  /\ c[1] = "reset"     => s \in {TheWindow, TheConsole}

\* One of the first n calls gives s back.
Given(s, list, n, b) == \E j \in 1 .. n : Gives(list[j], s, b)

\* Each call is made when what it cannot bear has been given back.
Orderly(S, list, vt, r, b) ==
  \A i \in 1 .. Len(list) : \A s \in S : Bears(list[i], s, vt, r) \/ Given(s, list, i - 1, b)

-----------------------------------------------------------------------------
(* The invariant *)

Lists(S) == Seq(S) \ {<< >>}

StartCall == {"backend", "window", "renderer", "builtin", "tileset", "root"}
GiveCall  == {"release", "destroy", "destroy_builtin", "no_gfx", "windowless", "win_reset", "reset"}

AnyCall ==
  ({"backend"} \X Lists(Drivers)) \cup ({"renderer"} \X Lists(Tried))
    \cup ({"release"} \X Resource) \cup ({"destroy", "destroy_builtin"} \X Address)
    \cup ({"window", "builtin", "tileset", "root", "started", "failed", "report",
           "no_gfx", "windowless", "win_reset", "reset"} \X {""})

LayerType == [vt : Drivers \cup {"none"}, cache : Drivers \cup {"none"},
              error : {"none", "backend", "window"}]

ConsoleType ==
  [initialized : BOOLEAN, window : BOOLEAN, root : BOOLEAN,
   font : Address \cup {NoTileset}, builtin : Address \cup {NoTileset}, tilesets : Seq(Address),
   error : {"none", "backend", "blank", "renderer", "tileset", "memory"}]

AppType ==
  [active : Nat, tilesets : [Handle -> Address \cup {NoTileset}],
   cell : [tileset : Address \cup {NoTileset}, glyph : 0 .. MaxTiles]]

LifeTypes ==
  /\ platform \in Platforms
  /\ todo \in Seq(AnyCall)
  /\ layer \in LayerType
  /\ console \in ConsoleType
  /\ gfx \in Tried \cup {"none"}
  /\ tiles \in [Address -> 0 .. MaxTiles]
  /\ app \in AppType
  /\ held \subseteq Resource \cup {Texture(t) : t \in Address}

\* A start is in one order, and ends with the root; how it ended, or the report,
\* comes last.
Ordered(list) ==
  /\ list # << >> => list[Len(list)][1] \in {"root", "started", "failed", "report", "reset"}
  /\ \A i \in 1 .. Len(list) :
       /\ list[i][1] = "backend"  => i < Len(list) /\ list[i + 1][1] = "window"
       /\ list[i][1] = "window"   => i < Len(list) /\ list[i + 1][1] = "renderer"
       /\ list[i][1] = "renderer" => i < Len(list) /\ list[i + 1][1] = "builtin"
       /\ list[i][1] = "builtin"  => i < Len(list) /\ list[i + 1][1] \in {"tileset", "root"}
       /\ list[i][1] = "tileset"  => i < Len(list) /\ list[i + 1][1] = "root"
       /\ list[i][1] \in {"root", "failed", "report"} => i = Len(list)
       /\ list[i][1] = "started" => Len(list) = 1

InOrder == Ordered(todo)

\* There is a console, or a start that has not failed yet.
Alive(list, on) == IF list = << >> THEN on ELSE list[Len(list)][1] \in {"root", "started"}

Without(list, what) == \A i \in 1 .. Len(list) : list[i][1] # what

Up == Alive(todo, console.initialized)
Past(what) == Up /\ Without(todo, what)

\* While a start goes on, only a renderer that failed gives anything back.
Starts(list) == \A i \in 1 .. Len(list) : list[i][1] \in StartCall \cup {"started"}
Retries(list) ==
  \A i \in 1 .. Len(list) :
    /\ list[i][1] \in {"release", "no_gfx", "started"} \cup StartCall
    /\ list[i][1] = "release" => list[i][2][1] \in Working \/ list[i][2][2] = "context"

\* What the window needs of the backend, and a texture of the renderer.
Base(b) ==
  IF b \in {"x11", "wayland"} THEN <<b, "display">>
  ELSE IF b = "win32" THEN <<b, "class">> ELSE <<b, "delegate">>
Maker(r, b) == IF r = "metal" THEN <<"metal", "device">> ELSE <<b, "context">>

\* How far a start has come.
Stages ==
  /\ Up => Retries(todo)
  /\ Past("backend") => layer.vt \in Drivers /\ Base(layer.vt) \in held
  /\ Past("window") => console.window /\ <<layer.vt, "window">> \in held
  /\ Past("renderer") =>
       /\ Starts(todo)
       /\ gfx \in Working /\ Maker(gfx, layer.vt) \in held
       /\ held \subseteq SystemRes(layer.vt) \cup WindowRes(layer.vt)
                           \cup RendererRes(gfx, layer.vt) \cup {Texture(t) : t \in Address}
  /\ Past("builtin") => console.initialized

Once(s) == \A i, j \in 1 .. Len(s) : s[i] = s[j] => i = j
Has(s, x) == \E i \in 1 .. Len(s) : s[i] = x

\* A tileset is tracked, once, from the moment it has its texture until it is
\* freed; nothing else holds a texture.
Tilesets ==
  /\ Once(console.tilesets)
  /\ \A t \in Address :
       /\ tiles[t] # 0 <=> Has(console.tilesets, t)
       /\ tiles[t] # 0 <=> Texture(t) \in held
       /\ tiles[t] # 0 => gfx # "none"

\* The calls to come give everything back, each when it can.
GivesBack ==
  /\ Orderly(Things, todo, layer.vt, gfx, console.builtin)
  /\ ~Up => \A s \in Things : Given(s, todo, Len(todo), console.builtin)

Nested == \A r \in held : NeededBy(r, layer.vt, gfx) \subseteq held

\* What has been tried, with what is to come, is all there is.
Tries(list, error, done) ==
  /\ \A i \in 1 .. Len(list) :
       /\ list[i][1] \in {"backend", "window"} => error = "none"
       /\ list[i][1] = "backend" =>
            \A bs \in BackendOrders : Elements(bs) \subseteq done \cup Elements(list[i][2])
       /\ list[i][1] = "renderer" => Renderers \subseteq done \cup Elements(list[i][2])
  /\ error = "backend" => \A bs \in BackendOrders : Elements(bs) \subseteq done
  /\ error = "renderer" =>
       Renderers \subseteq done \/ \E i \in 1 .. Len(list) : list[i][1] = "renderer"

TriesAll == Tries(todo, console.error, tried)

LifeInv ==
  LifeTypes /\ InOrder /\ Stages /\ Tilesets /\ GivesBack /\ Nested /\ TriesAll /\ FramesAreSound

-----------------------------------------------------------------------------
(* Lists of calls *)

LEMMA TailIs ==
  ASSUME NEW S, NEW list \in Seq(S), list # << >>
  PROVE  /\ Tail(list) \in Seq(S) /\ Len(Tail(list)) = Len(list) - 1 /\ Len(list) \in Nat \ {0}
         /\ \A i \in 1 .. Len(list) - 1 : Tail(list)[i] = list[i + 1]
         /\ Head(list) = list[1] /\ Head(list) \in S
BY HeadTailProperties, LenProperties, EmptySeq, ElementOfSeq

LEMMA CatIs ==
  ASSUME NEW S, NEW a \in Seq(S), NEW b \in Seq(S)
  PROVE  /\ a \o b \in Seq(S) /\ Len(a \o b) = Len(a) + Len(b)
         /\ Len(a) \in Nat /\ Len(b) \in Nat
         /\ \A i \in 1 .. Len(a) : (a \o b)[i] = a[i]
<1>1. /\ a \o b \in Seq(S) /\ Len(a \o b) = Len(a) + Len(b)
      /\ \A i \in 1 .. Len(a) + Len(b) : (a \o b)[i] = IF i <= Len(a) THEN a[i] ELSE b[i - Len(a)]
  BY ConcatProperties
<1>2. Len(a) \in Nat /\ Len(b) \in Nat
  BY LenProperties
<1>3. ASSUME NEW i \in 1 .. Len(a) PROVE (a \o b)[i] = a[i]
  BY <1>1, <1>2
<1> QED BY <1>1, <1>2, <1>3

LEMMA CatGoesOn ==
  ASSUME NEW S, NEW a \in Seq(S), NEW b \in Seq(S), NEW i \in 1 .. Len(b)
  PROVE  (a \o b)[Len(a) + i] = b[i]
<1>1. \A k \in 1 .. Len(a) + Len(b) : (a \o b)[k] = IF k <= Len(a) THEN a[k] ELSE b[k - Len(a)]
  BY ConcatProperties
<1>2. Len(a) \in Nat /\ Len(b) \in Nat
  BY LenProperties
<1> QED BY <1>1, <1>2

LEMMA OneIs ==
  ASSUME NEW S, NEW c \in S
  PROVE  << c >> \in Seq(S) /\ Len(<< c >>) = 1 /\ << c >>[1] = c /\ << c >> # << >>
OBVIOUS

LEMMA NoneIs ==
  ASSUME NEW S
  PROVE  << >> \in Seq(S) /\ Len(<< >>) = 0
OBVIOUS

\* Each place of a list put together is in one of its parts.
LEMMA Places ==
  ASSUME NEW m \in Nat, NEW n \in Nat, NEW i \in 1 .. m + n
  PROVE  i \in 1 .. m \/ \E k \in 1 .. n : i = m + k
<1>1. CASE i <= m
  BY <1>1
<1>2. CASE i > m
  <2>1. i - m \in 1 .. n /\ i = m + (i - m)
    BY <1>2
  <2> QED BY <2>1
<1> QED BY <1>1, <1>2

-----------------------------------------------------------------------------
(* What is given, and in which order *)

\* After the first call, the list without it gives what it did not.
LEMMA GivenAfter ==
  ASSUME NEW list \in Seq(AnyCall), list # << >>, NEW n \in 0 .. Len(list) - 1, NEW s, NEW b, NEW d,
         Given(s, list, n + 1, b), ~Gives(Head(list), s, b),
         \A c \in AnyCall : Gives(c, s, b) => Gives(c, s, d)
  PROVE  Given(s, Tail(list), n, d)
<1>1. PICK j \in 1 .. n + 1 : Gives(list[j], s, b)
  BY Zenon DEF Given
<1>2. /\ Len(list) \in Nat \ {0} /\ Head(list) = list[1]
      /\ \A i \in 1 .. Len(list) - 1 : Tail(list)[i] = list[i + 1]
  BY TailIs
<1>3. j # 1
  BY <1>1, <1>2, Zenon
<1>4. j - 1 \in 1 .. n /\ j - 1 \in 1 .. Len(list) - 1 /\ (j - 1) + 1 = j /\ j \in 1 .. Len(list)
  BY <1>2, <1>3
<1>5. Tail(list)[j - 1] = list[j]
  BY <1>2, <1>4, Zenon
<1>6. list[j] \in AnyCall
  BY <1>4, ElementOfSeq, Zenon
<1>7. Gives(Tail(list)[j - 1], s, d)
  BY <1>1, <1>5, <1>6, Zenon
<1> QED BY <1>4, <1>7, Zenon DEF Given

LEMMA OrderlyAfter ==
  ASSUME NEW list \in Seq(AnyCall), list # << >>, NEW S, NEW T, NEW vt, NEW r, NEW b,
         NEW vt2, NEW r2, NEW b2, Orderly(S, list, vt, r, b),
         \A s \in T : s \in S /\ ~Gives(Head(list), s, b),
         \A s \in T : \A c \in AnyCall : Gives(c, s, b) => Gives(c, s, b2),
         \A s \in T : \A i \in 2 .. Len(list) : Bears(list[i], s, vt, r) => Bears(list[i], s, vt2, r2)
  PROVE  Orderly(T, Tail(list), vt2, r2, b2)
<1>1. /\ Len(list) \in Nat \ {0} /\ Len(Tail(list)) = Len(list) - 1
      /\ \A i \in 1 .. Len(list) - 1 : Tail(list)[i] = list[i + 1]
  BY TailIs
<1>2. ASSUME NEW i \in 1 .. Len(Tail(list)), NEW s \in T
      PROVE  Bears(Tail(list)[i], s, vt2, r2) \/ Given(s, Tail(list), i - 1, b2)
  <2>1. /\ i \in 1 .. Len(list) - 1 /\ i + 1 \in 1 .. Len(list) /\ i + 1 \in 2 .. Len(list)
        /\ (i + 1) - 1 = (i - 1) + 1 /\ i - 1 \in 0 .. Len(list) - 1
    BY <1>1
  <2>2. Bears(list[i + 1], s, vt, r) \/ Given(s, list, (i - 1) + 1, b)
    BY <2>1, Zenon DEF Orderly
  <2>3. Tail(list)[i] = list[i + 1]
    BY <1>1, <2>1, Zenon
  <2>4. CASE Bears(list[i + 1], s, vt, r)
    BY <2>1, <2>3, <2>4, Zenon
  <2>5. CASE Given(s, list, (i - 1) + 1, b)
    BY <2>1, <2>5, GivenAfter, Zenon
  <2> QED BY <2>2, <2>4, <2>5, Zenon
<1> QED BY <1>2, Zenon DEF Orderly

\* Such a list takes what is there from S to T.
Sheds(S, list, T, vt, r, b) ==
  /\ list \in Seq(AnyCall)
  /\ Orderly(S, list, vt, r, b)
  /\ \A s \in S : s \in T \/ Given(s, list, Len(list), b)

LEMMA GivenWithin ==
  ASSUME NEW s, NEW x \in Seq(AnyCall), NEW y \in Seq(AnyCall), NEW b,
         NEW n \in 0 .. Len(x), Given(s, x, n, b), NEW m \in Nat, n <= m
  PROVE  Given(s, x \o y, m, b)
<1>1. PICK j \in 1 .. n : Gives(x[j], s, b)
  BY Zenon DEF Given
<1>2. Len(x) \in Nat /\ \A i \in 1 .. Len(x) : (x \o y)[i] = x[i]
  BY CatIs, Zenon
<1>3. j \in 1 .. Len(x) /\ j \in 1 .. m
  BY <1>2
<1>4. Gives((x \o y)[j], s, b)
  BY <1>1, <1>2, <1>3, Zenon
<1> QED BY <1>3, <1>4, Zenon DEF Given

LEMMA GivenBeyond ==
  ASSUME NEW s, NEW x \in Seq(AnyCall), NEW y \in Seq(AnyCall), NEW b,
         NEW n \in 0 .. Len(y), Given(s, y, n, b)
  PROVE  Given(s, x \o y, Len(x) + n, b)
<1>1. PICK j \in 1 .. n : Gives(y[j], s, b)
  BY Zenon DEF Given
<1>2. Len(x) \in Nat /\ Len(y) \in Nat
  BY LenProperties
<1>3. j \in 1 .. Len(y) /\ Len(x) + j \in 1 .. Len(x) + n
  BY <1>2
<1>4. Gives((x \o y)[Len(x) + j], s, b)
  BY <1>1, <1>3, CatGoesOn, Zenon
<1> QED BY <1>3, <1>4, Zenon DEF Given

LEMMA ShedsThen ==
  ASSUME NEW S, NEW T, NEW U, NEW x, NEW y, NEW vt, NEW r, NEW b,
         Sheds(S, x, T, vt, r, b), Sheds(T, y, U, vt, r, b)
  PROVE  Sheds(S, x \o y, U, vt, r, b)
<1>1. x \in Seq(AnyCall) /\ y \in Seq(AnyCall)
  BY Zenon DEF Sheds
<1>2. /\ x \o y \in Seq(AnyCall) /\ Len(x \o y) = Len(x) + Len(y)
      /\ Len(x) \in Nat /\ Len(y) \in Nat
      /\ \A i \in 1 .. Len(x) : (x \o y)[i] = x[i]
  BY <1>1, CatIs, Zenon
<1>3. \A s \in S : s \in T \/ \A m \in Nat : Len(x) <= m => Given(s, x \o y, m, b)
  <2> SUFFICES ASSUME NEW s \in S, s \notin T, NEW m \in Nat, Len(x) <= m
               PROVE  Given(s, x \o y, m, b)
    BY Zenon
  <2>1. Given(s, x, Len(x), b)
    BY Zenon DEF Sheds
  <2>2. Len(x) \in 0 .. Len(x)
    BY <1>2
  <2> QED BY <1>1, <2>1, <2>2, GivenWithin, Zenon
<1>4. ASSUME NEW s \in S PROVE s \in U \/ Given(s, x \o y, Len(x \o y), b)
  <2>1. CASE s \in T
    <3>1. s \in U \/ Given(s, y, Len(y), b)
      BY <2>1, Zenon DEF Sheds
    <3>2. Len(y) \in 0 .. Len(y)
      BY <1>2
    <3> QED BY <1>1, <1>2, <3>1, <3>2, GivenBeyond, Zenon
  <2>2. CASE s \notin T
    <3>1. Len(x \o y) \in Nat /\ Len(x) <= Len(x \o y)
      BY <1>2
    <3> QED BY <1>3, <2>2, <3>1, Zenon
  <2> QED BY <2>1, <2>2, Zenon
<1>5. ASSUME NEW i \in 1 .. Len(x \o y), NEW s \in S
      PROVE  Bears((x \o y)[i], s, vt, r) \/ Given(s, x \o y, i - 1, b)
  <2>1. CASE i \in 1 .. Len(x)
    <3>1. Bears(x[i], s, vt, r) \/ Given(s, x, i - 1, b)
      BY <2>1, Zenon DEF Sheds, Orderly
    <3>2. i - 1 \in 0 .. Len(x) /\ i - 1 \in Nat /\ i - 1 <= i - 1
      BY <1>2, <2>1
    <3> QED BY <1>1, <1>2, <2>1, <3>1, <3>2, GivenWithin, Zenon
  <2>2. CASE \E k \in 1 .. Len(y) : i = Len(x) + k
    <3>1. PICK k \in 1 .. Len(y) : i = Len(x) + k
      BY <2>2, Zenon
    <3>2. /\ k - 1 \in 0 .. Len(y) /\ i - 1 = Len(x) + (k - 1) /\ i - 1 \in Nat /\ Len(x) <= i - 1
      BY <1>2, <3>1
    <3>3. CASE s \in T
      <4>1. Bears(y[k], s, vt, r) \/ Given(s, y, k - 1, b)
        BY <3>3, Zenon DEF Sheds, Orderly
      <4>2. (x \o y)[i] = y[k]
        BY <1>1, <3>1, CatGoesOn, Zenon
      <4>3. CASE Bears(y[k], s, vt, r)
        BY <4>2, <4>3, Zenon
      <4>4. CASE Given(s, y, k - 1, b)
        BY <1>1, <3>2, <4>4, GivenBeyond, Zenon
      <4> QED BY <4>1, <4>3, <4>4, Zenon
    <3>4. CASE s \notin T
      BY <1>3, <3>2, <3>4, Zenon
    <3> QED BY <3>3, <3>4, Zenon
  <2>3. i \in 1 .. Len(x) + Len(y)
    BY <1>2, Zenon
  <2> QED BY <1>2, <2>1, <2>2, <2>3, Places, Zenon
<1> QED BY <1>2, <1>4, <1>5, Zenon DEF Sheds, Orderly

\* A single call that bears what is there.
LEMMA ShedsOne ==
  ASSUME NEW S, NEW T, NEW c \in AnyCall, NEW vt, NEW r, NEW b,
         \A s \in S : Bears(c, s, vt, r), \A s \in S : s \in T \/ Gives(c, s, b)
  PROVE  Sheds(S, << c >>, T, vt, r, b)
<1>1. << c >> \in Seq(AnyCall) /\ Len(<< c >>) = 1 /\ << c >>[1] = c
  BY OneIs, Zenon
<1>2. \A i \in 1 .. Len(<< c >>) : i = 1
  BY <1>1
<1>3. 1 \in 1 .. Len(<< c >>)
  BY <1>1
<1>4. \A s \in S : s \in T \/ Given(s, << c >>, Len(<< c >>), b)
  BY <1>1, <1>3, Zenon DEF Given
<1> QED BY <1>1, <1>2, <1>4, Zenon DEF Sheds, Orderly

-----------------------------------------------------------------------------
(* What each start takes, and what needs it *)

LEMMA Chars ==
  /\ Drivers \cap (Working \cup {"the", "tileset", "texture", "none"}) = {}
  /\ Working \cap {"the", "tileset", "texture", "none"} = {}
BY DEF Drivers, Working

\* What the system holds needs its base at most, and what the window holds the
\* base, the window and EGL.
LEMMA SystemNeeds ==
  ASSUME NEW b \in Drivers, NEW x \in SystemRes(b), NEW r
  PROVE  NeededBy(x, b, r) \subseteq {y \in {Base(b)} : x[2] \in {"egl", "globals", "helper"}}
<1>1. PICK n \in SystemNames(b) : x = <<b, n>>
  BY Zenon DEF SystemRes, Of
<1>2. x[1] # "texture" /\ x[1] = b /\ x[2] = n
  BY <1>1 DEF Drivers
<1>3. b \in {"x11", "wayland", "win32", "cocoa"}
  BY Zenon DEF Drivers
<1>a. CASE b = "x11"
  <2>1. n \in {"egl", "helper", "pipe", "xlib", "display"}
    BY <1>1, <1>a DEF SystemNames
  <2>2. Base(b) = <<b, "display">>
    BY <1>a DEF Base
  <2> QED BY <1>2, <1>a, <2>1, <2>2 DEF NeededBy, Of
<1>b. CASE b = "wayland"
  <2>1. n \in {"egl", "globals", "pipe", "display"}
    BY <1>1, <1>b DEF SystemNames
  <2>2. Base(b) = <<b, "display">>
    BY <1>b DEF Base
  <2> QED BY <1>2, <1>b, <2>1, <2>2 DEF NeededBy, Of
<1>c. CASE b = "win32"
  <2>1. n \in {"opengl32", "class", "libraries"}
    BY <1>1, <1>c DEF SystemNames
  <2> QED BY <1>2, <1>c, <2>1 DEF NeededBy, Of
<1>d. CASE b = "cocoa"
  <2>1. n \in {"framework", "delegate"}
    BY <1>1, <1>d DEF SystemNames
  <2> QED BY <1>2, <1>d, <2>1 DEF NeededBy, Of
<1> QED BY <1>3, <1>a, <1>b, <1>c, <1>d

LEMMA WindowNeeds ==
  ASSUME NEW b \in Drivers, NEW r
  PROVE  /\ NeededBy(<<b, "window">>, b, r) = {Base(b)}
         /\ NeededBy(<<b, "egl_window">>, b, r) = {Base(b)}
         /\ NeededBy(<<b, "surface">>, b, r) = {<<b, "window">>, <<b, "egl">>}
<1>0. b \in {"x11", "wayland", "win32", "cocoa"}
  BY Zenon DEF Drivers
<1>1. <<b, "window">>[1] # "texture" /\ <<b, "window">>[2] = "window"
      /\ <<b, "egl_window">>[1] # "texture" /\ <<b, "egl_window">>[2] = "egl_window"
      /\ <<b, "surface">>[1] # "texture" /\ <<b, "surface">>[2] = "surface"
  BY <1>0
<1>2. Base(b) = <<b, CASE b \in {"x11", "wayland"} -> "display" [] b = "win32" -> "class"
                       [] b = "cocoa" -> "delegate" [] OTHER -> "none">>
  <2>a. CASE b = "x11"
    BY <2>a DEF Base
  <2>b. CASE b = "wayland"
    BY <2>b DEF Base
  <2>c. CASE b = "win32"
    BY <2>c DEF Base
  <2>d. CASE b = "cocoa"
    BY <2>d DEF Base
  <2> QED BY <1>0, <2>a, <2>b, <2>c, <2>d
<1>3. \A x : Of(b, {x}) = {<<b, x>>}
  BY DEF Of
<1>4. Of(b, {"window", "egl"}) = {<<b, "window">>, <<b, "egl">>}
  BY DEF Of
<1>5. NeededBy(<<b, "window">>, b, r) = {Base(b)}
  BY <1>1, <1>2, <1>3 DEF NeededBy
<1>6. NeededBy(<<b, "egl_window">>, b, r) = {Base(b)}
  BY <1>1, <1>2, <1>3 DEF NeededBy
<1>7. NeededBy(<<b, "surface">>, b, r) = {<<b, "window">>, <<b, "egl">>}
  BY <1>1, <1>4 DEF NeededBy
<1> QED BY <1>5, <1>6, <1>7

\* What a renderer holds.
LEMMA RendererNeeds ==
  ASSUME NEW b \in Drivers, NEW r
  PROVE  /\ NeededBy(<<"opengl", "vertices">>, b, r) = {<<b, "context">>}
         /\ NeededBy(<<"opengl", "program">>, b, r) = {<<b, "context">>}
         /\ NeededBy(<<b, "context">>, b, r) \subseteq
              {<<b, "window">>} \cup
              (IF b \in {"x11", "wayland"} THEN {<<b, "egl">>, <<b, "surface">>}
               ELSE IF b = "win32" THEN {<<b, "opengl32">>} ELSE {})
         /\ NeededBy(<<"metal", "layer">>, b, r) = {<<b, "window">>}
         /\ NeededBy(<<"metal", "device">>, b, r) = {}
         /\ NeededBy(<<"metal", "pipeline">>, b, r) = {}
<1>0. b \in {"x11", "wayland", "win32", "cocoa"}
  BY Zenon DEF Drivers
<1>1. /\ <<"opengl", "vertices">>[1] # "texture" /\ <<"opengl", "vertices">>[2] = "vertices"
      /\ <<"opengl", "program">>[1] # "texture" /\ <<"opengl", "program">>[2] = "program"
      /\ <<b, "context">>[1] # "texture" /\ <<b, "context">>[2] = "context"
      /\ <<"metal", "layer">>[1] # "texture" /\ <<"metal", "layer">>[2] = "layer"
      /\ <<"metal", "device">>[1] # "texture" /\ <<"metal", "device">>[2] = "device"
      /\ <<"metal", "pipeline">>[1] # "texture" /\ <<"metal", "pipeline">>[2] = "pipeline"
  BY <1>0
<1>2. \A x : Of(b, {x}) = {<<b, x>>}
  BY DEF Of
<1>3. /\ NeededBy(<<"opengl", "vertices">>, b, r) = {<<b, "context">>}
      /\ NeededBy(<<"opengl", "program">>, b, r) = {<<b, "context">>}
  BY <1>1, <1>2 DEF NeededBy
<1>4. NeededBy(<<"metal", "layer">>, b, r) = {<<b, "window">>}
  BY <1>1, <1>2 DEF NeededBy
<1>5. NeededBy(<<"metal", "device">>, b, r) = {} /\ NeededBy(<<"metal", "pipeline">>, b, r) = {}
  BY <1>1 DEF NeededBy
<1>6. NeededBy(<<b, "context">>, b, r) \subseteq
        {<<b, "window">>} \cup
        (IF b \in {"x11", "wayland"} THEN {<<b, "egl">>, <<b, "surface">>}
         ELSE IF b = "win32" THEN {<<b, "opengl32">>} ELSE {})
  <2>a. CASE b \in {"x11", "wayland"}
    <3>1. NeededBy(<<b, "context">>, b, r) = Of(b, {"window", "egl", "surface"})
      BY <1>1, <2>a DEF NeededBy
    <3> QED BY <2>a, <3>1 DEF Of
  <2>b. CASE b = "win32"
    <3>1. NeededBy(<<b, "context">>, b, r) = Of(b, {"window", "opengl32"})
      BY <1>1, <2>b DEF NeededBy
    <3> QED BY <2>b, <3>1 DEF Of
  <2>c. CASE b = "cocoa"
    <3>1. NeededBy(<<b, "context">>, b, r) = Of(b, {"window"})
      BY <1>1, <2>c DEF NeededBy
    <3> QED BY <2>c, <3>1 DEF Of
  <2> QED BY <1>0, <2>a, <2>b, <2>c
<1> QED BY <1>3, <1>4, <1>5, <1>6

\* A texture needs its renderer's device, or the context.
LEMMA TextureNeeds ==
  ASSUME NEW b, NEW r, NEW t
  PROVE  NeededBy(Texture(t), b, r) = {Maker(r, b)}
<1>1. Texture(t)[1] = "texture"
  BY DEF Texture
<1>2. CASE r = "metal"
  <2>1. NeededBy(Texture(t), b, r) = Of("metal", {"device"})
    BY <1>1, <1>2 DEF NeededBy
  <2> QED BY <1>2, <2>1 DEF Of, Maker
<1>3. CASE r # "metal"
  <2>1. NeededBy(Texture(t), b, r) = Of(b, {"context"})
    BY <1>1, <1>3 DEF NeededBy
  <2> QED BY <1>3, <2>1 DEF Of, Maker
<1> QED BY <1>2, <1>3

\* Which renderer there is matters to textures only.
LEMMA OnlyTextures ==
  ASSUME NEW b, NEW x, x[1] # "texture", NEW r, NEW q
  PROVE  NeededBy(x, b, r) = NeededBy(x, b, q)
BY Zenon DEF NeededBy

\* No texture is needed by anything.
LEMMA NothingNeedsTextures ==
  ASSUME NEW b \in Drivers \cup {"none"}, NEW x, NEW r, NEW t
  PROVE  Texture(t) \notin NeededBy(x, b, r)
<1>1. Texture(t)[1] = "texture" /\ b # "texture"
  BY DEF Texture, Drivers
<1>2. CASE x[1] = "texture"
  <2>1. NeededBy(x, b, r) = IF r = "metal" THEN Of("metal", {"device"}) ELSE Of(b, {"context"})
    BY <1>2, Zenon DEF NeededBy
  <2> QED BY <1>1, <2>1 DEF Of
<1>3. CASE x[1] # "texture"
  <2>1. \E names : NeededBy(x, b, r) = Of(b, names)
    <3>1. CASE x[2] \in {"egl", "globals", "helper", "window", "egl_window"}
      BY <1>3, <3>1, Zenon DEF NeededBy
    <3>2. CASE x[2] = "surface"
      BY <1>3, <3>2 DEF NeededBy
    <3>3. CASE x[2] = "context"
      BY <1>3, <3>3 DEF NeededBy
    <3>4. CASE x[2] \in {"program", "vertices"}
      BY <1>3, <3>4 DEF NeededBy
    <3>5. CASE x[2] = "layer"
      BY <1>3, <3>5 DEF NeededBy
    <3>6. CASE x[2] \notin {"egl", "globals", "helper", "window", "egl_window", "surface",
                            "context", "program", "vertices", "layer"}
      <4>1. NeededBy(x, b, r) = {}
        BY <1>3, <3>6 DEF NeededBy
      <4>2. {} = Of(b, {})
        BY DEF Of
      <4> QED BY <4>1, <4>2
    <3> QED BY <3>1, <3>2, <3>3, <3>4, <3>5, <3>6
  <2> QED BY <1>1, <2>1 DEF Of
<1> QED BY <1>2, <1>3

LEMMA Outcomes ==
  ASSUME NEW has
  PROVE  /\ Done(has).ok = TRUE /\ Done(has).has = has
         /\ Failed(has).ok = FALSE /\ Failed(has).has = has
BY DEF Done, Failed

LEMMA PerhapsMore ==
  ASSUME NEW has, NEW x, NEW o \in Perhaps({Done(has)}, x)
  PROVE  o = Done(has) \/ o = Done(has \cup {x})
<1>1. CASE o \in {Done(has)}
  BY <1>1
<1>2. CASE o \notin {Done(has)}
  <2>1. PICK q \in {p \in {Done(has)} : p.ok} : o = Done(q.has \cup {x})
    BY <1>2, Zenon DEF Perhaps
  <2>2. q = Done(has)
    BY Zenon
  <2>3. q.has = has
    BY <2>2, Outcomes
  <2> QED BY <2>1, <2>3
<1> QED BY <1>1, <1>2

\* A backend that starts holds its base, and resources of its own.
LEMMA BackendStarts ==
  ASSUME NEW b \in Drivers, NEW o \in BackendInit(b), o.ok
  PROVE  Base(b) \in o.has /\ o.has \subseteq SystemRes(b)
<1>0. b \in {"x11", "wayland", "win32", "cocoa"}
  BY Zenon DEF Drivers
<1>2. \A has : /\ Done(has).ok = TRUE /\ Done(has).has = has
               /\ Failed(has).ok = FALSE /\ Failed(has).has = has
  BY Outcomes
<1>a. CASE b = "x11"
  <2>1. PICK xlib \in {{}, Of("x11", {"xlib"})} :
          o \in {Failed(xlib)} \cup EglInit("x11", {Done(xlib \cup Of("x11", {"display", "pipe", "helper"}))})
    <3>1. o \in X11Init
      BY <1>a, Zenon DEF BackendInit
    <3>2. o # Failed({})
      BY <1>2, Zenon
    <3> QED BY <3>1, <3>2, Zenon DEF X11Init
  <2>2. o # Failed(xlib)
    BY <1>2, Zenon
  <2>3. o \in EglInit("x11", {Done(xlib \cup Of("x11", {"display", "pipe", "helper"}))})
    BY <2>1, <2>2, Zenon
  <2>4. \/ o = Done(xlib \cup Of("x11", {"display", "pipe", "helper"}))
        \/ o = Done((xlib \cup Of("x11", {"display", "pipe", "helper"})) \cup {<<"x11", "egl">>})
    BY PerhapsMore, <2>3, Zenon DEF EglInit
  <2>5. o.has \subseteq (xlib \cup Of("x11", {"display", "pipe", "helper"})) \cup {<<"x11", "egl">>}
        /\ Of("x11", {"display", "pipe", "helper"}) \subseteq o.has
    BY <1>2, <2>4
  <2>6. Of("x11", {"display", "pipe", "helper"}) \subseteq SystemRes("x11") /\ xlib \subseteq SystemRes("x11")
        /\ <<"x11", "egl">> \in SystemRes("x11") /\ <<"x11", "display">> \in Of("x11", {"display", "pipe", "helper"})
    BY DEF Of, SystemRes, SystemNames
  <2>7. Base("x11") = <<"x11", "display">>
    BY DEF Base
  <2> QED BY <1>a, <2>5, <2>6, <2>7
<1>b. CASE b = "wayland"
  <2>1. o \in EglInit("wayland", {Done(Of("wayland", {"display", "pipe", "globals"}))})
    <3>1. o \in WaylandInit
      BY <1>b, Zenon DEF BackendInit
    <3>2. o # Failed({}) /\ o # Failed(Of("wayland", {"pipe"}))
      BY <1>2, Zenon
    <3> QED BY <3>1, <3>2, Zenon DEF WaylandInit
  <2>2. \/ o = Done(Of("wayland", {"display", "pipe", "globals"}))
        \/ o = Done(Of("wayland", {"display", "pipe", "globals"}) \cup {<<"wayland", "egl">>})
    BY PerhapsMore, <2>1, Zenon DEF EglInit
  <2>3. o.has \subseteq Of("wayland", {"display", "pipe", "globals"}) \cup {<<"wayland", "egl">>}
        /\ Of("wayland", {"display", "pipe", "globals"}) \subseteq o.has
    BY <1>2, <2>2
  <2>4. Of("wayland", {"display", "pipe", "globals"}) \subseteq SystemRes("wayland")
        /\ <<"wayland", "egl">> \in SystemRes("wayland")
        /\ <<"wayland", "display">> \in Of("wayland", {"display", "pipe", "globals"})
    BY DEF Of, SystemRes, SystemNames
  <2>5. Base("wayland") = <<"wayland", "display">>
    BY DEF Base
  <2> QED BY <1>b, <2>3, <2>4, <2>5
<1>c. CASE b = "win32"
  <2>1. o \in WglInit({Done(Of("win32", {"libraries", "class"}))})
    <3>1. o \in Win32Init
      BY <1>c, Zenon DEF BackendInit
    <3>2. o # Failed(Of("win32", {"libraries"}))
      BY <1>2, Zenon
    <3> QED BY <3>1, <3>2, Zenon DEF Win32Init
  <2>2. \/ o = Done(Of("win32", {"libraries", "class"}))
        \/ o = Done(Of("win32", {"libraries", "class"}) \cup {<<"win32", "opengl32">>})
    BY PerhapsMore, <2>1, Zenon DEF WglInit
  <2>3. o.has \subseteq Of("win32", {"libraries", "class"}) \cup {<<"win32", "opengl32">>}
        /\ Of("win32", {"libraries", "class"}) \subseteq o.has
    BY <1>2, <2>2
  <2>4. Of("win32", {"libraries", "class"}) \subseteq SystemRes("win32")
        /\ <<"win32", "opengl32">> \in SystemRes("win32")
        /\ <<"win32", "class">> \in Of("win32", {"libraries", "class"})
    BY DEF Of, SystemRes, SystemNames
  <2>5. Base("win32") = <<"win32", "class">>
    BY DEF Base
  <2> QED BY <1>c, <2>3, <2>4, <2>5
<1>d. CASE b = "cocoa"
  <2>1. o.has = Of("cocoa", {"delegate"})
    BY <1>2, <1>d DEF BackendInit, CocoaInit
  <2>2. Of("cocoa", {"delegate"}) \subseteq SystemRes("cocoa")
        /\ <<"cocoa", "delegate">> \in Of("cocoa", {"delegate"})
    BY DEF Of, SystemRes, SystemNames
  <2>3. Base("cocoa") = <<"cocoa", "delegate">>
    BY DEF Base
  <2> QED BY <1>d, <2>1, <2>2, <2>3
<1> QED BY <1>0, <1>a, <1>b, <1>c, <1>d

\* A window that opens, maybe with the buffers for EGL.
LEMMA WindowStarts ==
  ASSUME NEW b \in Drivers, NEW o \in WindowCreate(b), o.ok
  PROVE  <<b, "window">> \in o.has /\ o.has \subseteq {<<b, "window">>, <<b, "egl_window">>}
<1>1. \A outcomes, x : \A p \in Perhaps(outcomes, x) :
        p \in outcomes \/ \E q \in outcomes : q.ok /\ p = Done(q.has \cup {x})
  BY Zenon DEF Perhaps
<1>2. \A has : /\ Done(has).ok = TRUE /\ Done(has).has = has
               /\ Failed(has).ok = FALSE /\ Failed(has).has = has
  BY Outcomes
<1>3. \A p \in PlainWindowCreate(b) : p.ok => p.has = {<<b, "window">>}
  <2>1. Of(b, {"window"}) = {<<b, "window">>}
    BY DEF Of
  <2> QED BY <1>2, <2>1, Zenon DEF PlainWindowCreate
<1>4. CASE b = "wayland"
  <2>1. o \in Perhaps(PlainWindowCreate(b), <<b, "egl_window">>)
    BY <1>4, Zenon DEF WindowCreate, WaylandWindowCreate
  <2>2. \/ o \in PlainWindowCreate(b)
        \/ \E q \in PlainWindowCreate(b) : q.ok /\ o = Done(q.has \cup {<<b, "egl_window">>})
    BY <1>1, <2>1, Zenon
  <2>3. o.has = {<<b, "window">>} \/ o.has = {<<b, "window">>} \cup {<<b, "egl_window">>}
    BY <1>2, <1>3, <2>2, Zenon
  <2> QED BY <2>3
<1>5. CASE b # "wayland"
  <2>1. o \in PlainWindowCreate(b)
    BY <1>5, Zenon DEF WindowCreate
  <2> QED BY <1>3, <2>1
<1> QED BY <1>4, <1>5

\* A context, made on a window, holds what it is made with.
LEMMA ContextStarts ==
  ASSUME NEW b \in Drivers, NEW h, NEW c \in ContextCreate(b, h)
  PROVE  /\ c.has \subseteq {<<b, "context">>} \cup {x \in {<<b, "surface">>} : b \in {"x11", "wayland"}}
         /\ b \in {"x11", "wayland"} /\ c.has # {} => <<b, "egl">> \in h /\ <<b, "surface">> \in c.has
         /\ b = "win32" /\ c.has # {} => <<b, "opengl32">> \in h
         /\ c.ok => <<b, "context">> \in c.has
<1>0. b \in {"x11", "wayland", "win32", "cocoa"}
  BY Zenon DEF Drivers
<1>1. Failed({}).has = {} /\ Failed({}).ok = FALSE
  BY Outcomes
<1>a. CASE b \in {"x11", "wayland"}
  <2>1. c \in EglContext(b, h)
    BY <1>a, Zenon DEF ContextCreate
  <2>2. c = Failed({}) \/ (<<b, "egl">> \in h /\ c \in {Failed(Of(b, {"surface"})), Done(Of(b, {"surface", "context"}))})
    BY <2>1, Zenon DEF EglContext
  <2>3. /\ Failed(Of(b, {"surface"})).has = Of(b, {"surface"}) /\ Failed(Of(b, {"surface"})).ok = FALSE
        /\ Done(Of(b, {"surface", "context"})).has = Of(b, {"surface", "context"})
    BY Outcomes
  <2>4. Of(b, {"surface"}) = {<<b, "surface">>} /\ Of(b, {"surface", "context"}) = {<<b, "surface">>, <<b, "context">>}
    BY DEF Of
  <2>5. CASE c = Failed({})
    BY <1>1, <1>a, <2>5
  <2>6. CASE <<b, "egl">> \in h /\ c = Failed(Of(b, {"surface"}))
    BY <1>a, <2>3, <2>4, <2>6
  <2>7. CASE <<b, "egl">> \in h /\ c = Done(Of(b, {"surface", "context"}))
    BY <1>a, <2>3, <2>4, <2>7
  <2> QED BY <2>2, <2>5, <2>6, <2>7
<1>b. CASE b = "win32"
  <2>1. c \in WglContext(h)
    BY <1>b DEF ContextCreate
  <2>2. c = Failed({}) \/ (<<"win32", "opengl32">> \in h /\ c = Done(Of("win32", {"context"})))
    BY <2>1, Zenon DEF WglContext
  <2>3. Done(Of("win32", {"context"})).has = Of("win32", {"context"})
    BY Outcomes
  <2>4. Of("win32", {"context"}) = {<<"win32", "context">>}
    BY DEF Of
  <2> QED BY <1>1, <1>b, <2>2, <2>3, <2>4
<1>c. CASE b = "cocoa"
  <2>1. c = Failed({}) \/ c = Done(Of("cocoa", {"context"}))
    BY <1>c DEF ContextCreate, NsglContext
  <2>2. Done(Of("cocoa", {"context"})).has = Of("cocoa", {"context"})
    BY Outcomes
  <2>3. Of("cocoa", {"context"}) = {<<"cocoa", "context">>}
    BY DEF Of
  <2> QED BY <1>1, <1>c, <2>1, <2>2, <2>3
<1> QED BY <1>0, <1>a, <1>b, <1>c

\* What drawing on the window takes besides the renderer's own.
Drawing(b) ==
  {x \in {<<b, "surface">>} : b \in {"x11", "wayland"}} \cup {x \in {<<b, "framework">>} : b = "cocoa"}

LEMMA GlStarts ==
  ASSUME NEW b \in Drivers, NEW h, <<b, "window">> \in h, NEW o \in GlInit(b, h)
  PROVE  /\ o.has \subseteq RendererRes("opengl", b) \cup Drawing(b)
         /\ \A x \in o.has : \A q : NeededBy(x, b, q) \subseteq h \cup o.has
         /\ o.ok => <<b, "context">> \in o.has
<1> DEFINE framework == IF b = "cocoa" THEN {<<"cocoa", "framework">>} ELSE {}
           most(c) == c.has \cup framework
           all(c) == c.has \cup framework \cup Of("opengl", {"program", "vertices"})
<1>1. PICK c \in ContextCreate(b, h) :
        \/ ~c.ok /\ o = c
        \/ c.ok /\ (o = Failed(most(c)) \/ o = Done(all(c)))
  BY Zenon DEF GlInit
<1>2. /\ c.has \subseteq {<<b, "context">>} \cup {x \in {<<b, "surface">>} : b \in {"x11", "wayland"}}
      /\ b \in {"x11", "wayland"} /\ c.has # {} => <<b, "egl">> \in h /\ <<b, "surface">> \in c.has
      /\ b = "win32" /\ c.has # {} => <<b, "opengl32">> \in h
      /\ c.ok => <<b, "context">> \in c.has
  BY ContextStarts
<1>3. /\ o.has \subseteq c.has \cup framework \cup {<<"opengl", "program">>, <<"opengl", "vertices">>}
      /\ c.has \subseteq o.has
      /\ o.has # c.has \/ o.ok => c.ok
  <2>1. Of("opengl", {"program", "vertices"}) = {<<"opengl", "program">>, <<"opengl", "vertices">>}
    BY DEF Of
  <2>2. Failed(most(c)).has = most(c)
    BY Outcomes
  <2>3. Done(all(c)).has = all(c)
    BY Outcomes
  <2>4. (o.has = c.has /\ ~c.ok /\ ~o.ok) \/ (c.ok /\ (o.has = most(c) \/ o.has = all(c)))
    <3>1. CASE ~c.ok /\ o = c
      BY <3>1, Zenon
    <3>2. CASE c.ok /\ o = Failed(most(c))
      BY <2>2, <3>2
    <3>3. CASE c.ok /\ o = Done(all(c))
      BY <2>3, <3>3
    <3> QED BY <1>1, <3>1, <3>2, <3>3, Zenon
  <2> QED BY <2>1, <2>4
<1>4. o.has \subseteq RendererRes("opengl", b) \cup Drawing(b)
  <2>1. RendererRes("opengl", b) = {<<"opengl", "vertices">>, <<"opengl", "program">>, <<b, "context">>}
    BY DEF RendererRes
  <2> QED BY <1>2, <1>3, <2>1 DEF Drawing
<1>5. ASSUME NEW x \in o.has, NEW q PROVE NeededBy(x, b, q) \subseteq h \cup o.has
  <2>0. b \in {"x11", "wayland", "win32", "cocoa"}
    BY Zenon DEF Drivers
  <2>1. x \in c.has \/ (x \in framework /\ b = "cocoa")
        \/ (x \in {<<"opengl", "program">>, <<"opengl", "vertices">>} /\ c.ok)
    BY <1>3
  <2>a. CASE x = <<b, "context">> /\ x \in c.has
    <3>1. NeededBy(<<b, "context">>, b, q) \subseteq
              {<<b, "window">>} \cup
              (IF b \in {"x11", "wayland"} THEN {<<b, "egl">>, <<b, "surface">>}
               ELSE IF b = "win32" THEN {<<b, "opengl32">>} ELSE {})
      BY RendererNeeds
    <3> QED BY <1>2, <1>3, <2>0, <2>a, <3>1
  <2>b. CASE x = <<b, "surface">> /\ x \in c.has /\ b \in {"x11", "wayland"}
    <3>1. NeededBy(<<b, "surface">>, b, q) = {<<b, "window">>, <<b, "egl">>}
      BY WindowNeeds
    <3> QED BY <1>2, <2>b, <3>1
  <2>c. CASE x = <<"cocoa", "framework">> /\ b = "cocoa"
    <3>1. x \in SystemRes(b) /\ x[2] = "framework"
      BY <2>c DEF SystemRes, SystemNames, Of
    <3>2. NeededBy(x, b, q) \subseteq {y \in {Base(b)} : x[2] \in {"egl", "globals", "helper"}}
      BY <3>1, SystemNeeds
    <3> QED BY <3>1, <3>2
  <2>d. CASE x \in {<<"opengl", "program">>, <<"opengl", "vertices">>} /\ c.ok
    <3>1. NeededBy(x, b, q) = {<<b, "context">>}
      BY <2>d, RendererNeeds
    <3> QED BY <1>2, <1>3, <2>d, <3>1
  <2> QED BY <1>2, <2>1, <2>a, <2>b, <2>c, <2>d
<1>6. o.ok => <<b, "context">> \in o.has
  BY <1>2, <1>3
<1> QED BY <1>4, <1>5, <1>6

LEMMA RendererStarts ==
  ASSUME NEW b \in Drivers, NEW r \in Tried, NEW h, <<b, "window">> \in h, NEW o \in RendererInit(r, b, h)
  PROVE  /\ o.has \subseteq RendererRes(r, b) \cup Drawing(b)
         /\ \A x \in o.has : \A q : NeededBy(x, b, q) \subseteq h \cup o.has
         /\ o.ok => r \in Working /\ Maker(r, b) \in o.has
<1>0. r \in {"opengl", "metal", "test-fail"}
  BY Zenon DEF Tried
<1>a. CASE r = "opengl"
  <2>1. o \in GlInit(b, h)
    BY <1>a DEF RendererInit
  <2>2. /\ o.has \subseteq RendererRes("opengl", b) \cup Drawing(b)
        /\ \A x \in o.has : \A q : NeededBy(x, b, q) \subseteq h \cup o.has
        /\ o.ok => <<b, "context">> \in o.has
    BY <2>1, GlStarts, Zenon
  <2>3. r \in Working /\ Maker(r, b) = <<b, "context">>
    BY <1>a DEF Working, Maker
  <2> QED BY <1>a, <2>2, <2>3, Zenon
<1>b. CASE r = "metal"
  <2>1. o \in MetalInit
    BY <1>b DEF RendererInit
  <2>2. /\ Failed({}).has = {} /\ Failed({}).ok = FALSE
        /\ Failed(Of("metal", {"device"})).has = Of("metal", {"device"})
        /\ Failed(Of("metal", {"device", "layer"})).has = Of("metal", {"device", "layer"})
        /\ Failed(Of("metal", {"device"})).ok = FALSE
        /\ Failed(Of("metal", {"device", "layer"})).ok = FALSE
        /\ Done(Of("metal", {"device", "layer", "pipeline"})).has = Of("metal", {"device", "layer", "pipeline"})
    BY Outcomes
  <2>3. \/ o.has = {} /\ ~o.ok
        \/ o.has = Of("metal", {"device"}) /\ ~o.ok
        \/ o.has = Of("metal", {"device", "layer"}) /\ ~o.ok
        \/ o.has = Of("metal", {"device", "layer", "pipeline"})
    BY <2>1, <2>2, Zenon DEF MetalInit
  <2>4. o.has \subseteq RendererRes(r, b) /\ (o.ok => <<"metal", "device">> \in o.has)
    BY <1>b, <2>3 DEF Of, RendererRes
  <2>5. r \in Working /\ Maker(r, b) = <<"metal", "device">>
    BY <1>b DEF Working, Maker
  <2>6. ASSUME NEW x \in o.has, NEW q PROVE NeededBy(x, b, q) \subseteq h \cup o.has
    <3>1. x = <<"metal", "device">> \/ x = <<"metal", "layer">> \/ x = <<"metal", "pipeline">>
      BY <1>b, <2>4 DEF RendererRes
    <3>2. /\ NeededBy(<<"metal", "layer">>, b, q) = {<<b, "window">>}
          /\ NeededBy(<<"metal", "device">>, b, q) = {}
          /\ NeededBy(<<"metal", "pipeline">>, b, q) = {}
      BY RendererNeeds
    <3> QED BY <3>1, <3>2
  <2> QED BY <2>4, <2>5, <2>6
<1>c. CASE r = "test-fail"
  <2>1. o = Failed({})
    BY <1>c DEF RendererInit
  <2>2. o.has = {} /\ ~o.ok
    BY <2>1, Outcomes
  <2> QED BY <2>2
<1> QED BY <1>0, <1>a, <1>b, <1>c

-----------------------------------------------------------------------------
(* The order of the calls *)

LEMMA KindOf ==
  ASSUME NEW c \in AnyCall
  PROVE  /\ c[1] \in StartCall \cup GiveCall \cup {"started", "failed", "report"}
         /\ c[1] = "backend" => c[2] \in Lists(Drivers)
         /\ c[1] = "renderer" => c[2] \in Lists(Tried)
         /\ c[1] = "release" => c[2] \in Resource
         /\ c[1] \in {"destroy", "destroy_builtin"} => c[2] \in Address
BY DEF AnyCall, StartCall, GiveCall

LEMMA OrderedTail ==
  ASSUME NEW list \in Seq(AnyCall), list # << >>, Ordered(list)
  PROVE  Ordered(Tail(list))
<1>1. /\ Len(Tail(list)) = Len(list) - 1 /\ Len(list) \in Nat \ {0}
      /\ \A i \in 1 .. Len(list) - 1 : Tail(list)[i] = list[i + 1]
      /\ Tail(list) \in Seq(AnyCall)
  BY TailIs
<1>2. Tail(list) # << >> =>
        Tail(list)[Len(Tail(list))][1] \in {"root", "started", "failed", "report", "reset"}
  <2> SUFFICES ASSUME Tail(list) # << >>
               PROVE  Tail(list)[Len(Tail(list))][1] \in {"root", "started", "failed", "report", "reset"}
    OBVIOUS
  <2>1. Len(Tail(list)) \in 1 .. Len(list) - 1 /\ Len(Tail(list)) + 1 = Len(list)
    BY <1>1, LenProperties
  <2>2. Tail(list)[Len(Tail(list))] = list[Len(list)]
    BY <1>1, <2>1
  <2>3. list[Len(list)][1] \in {"root", "started", "failed", "report", "reset"}
    BY Zenon DEF Ordered
  <2> QED BY <2>2, <2>3
<1>3. ASSUME NEW i \in 1 .. Len(Tail(list))
      PROVE  /\ Tail(list)[i][1] = "backend"  => i < Len(Tail(list)) /\ Tail(list)[i + 1][1] = "window"
             /\ Tail(list)[i][1] = "window"   => i < Len(Tail(list)) /\ Tail(list)[i + 1][1] = "renderer"
             /\ Tail(list)[i][1] = "renderer" => i < Len(Tail(list)) /\ Tail(list)[i + 1][1] = "builtin"
             /\ Tail(list)[i][1] = "builtin"  => i < Len(Tail(list)) /\ Tail(list)[i + 1][1] \in {"tileset", "root"}
             /\ Tail(list)[i][1] = "tileset"  => i < Len(Tail(list)) /\ Tail(list)[i + 1][1] = "root"
             /\ Tail(list)[i][1] \in {"root", "failed", "report"} => i = Len(Tail(list))
             /\ Tail(list)[i][1] = "started" => Len(Tail(list)) = 1
  <2>1. i \in 1 .. Len(list) - 1 /\ i + 1 \in 1 .. Len(list)
    BY <1>1
  <2>2. Tail(list)[i] = list[i + 1]
    BY <1>1, <2>1
  <2>6. \A m, n \in Nat : m = n - 1 /\ i \in 1 .. n - 1 =>
          /\ i + 1 < n => i + 1 \in 1 .. n - 1 /\ i < m
          /\ i + 1 = n => i = m
          /\ n # 1
    OBVIOUS
  <2>7. Len(list) \in Nat /\ Len(Tail(list)) \in Nat
    BY <1>1, LenProperties
  <2>3. /\ i + 1 < Len(list) => i + 1 \in 1 .. Len(list) - 1 /\ i < Len(Tail(list))
        /\ i + 1 = Len(list) => i = Len(Tail(list))
        /\ Len(list) # 1
    BY <1>1, <2>1, <2>6, <2>7, Zenon
  <2>4. i + 1 < Len(list) => Tail(list)[i + 1] = list[(i + 1) + 1]
    BY <1>1, <2>3, Zenon
  <2>5. /\ list[i + 1][1] = "backend"  => i + 1 < Len(list) /\ list[(i + 1) + 1][1] = "window"
        /\ list[i + 1][1] = "window"   => i + 1 < Len(list) /\ list[(i + 1) + 1][1] = "renderer"
        /\ list[i + 1][1] = "renderer" => i + 1 < Len(list) /\ list[(i + 1) + 1][1] = "builtin"
        /\ list[i + 1][1] = "builtin"  => i + 1 < Len(list) /\ list[(i + 1) + 1][1] \in {"tileset", "root"}
        /\ list[i + 1][1] = "tileset"  => i + 1 < Len(list) /\ list[(i + 1) + 1][1] = "root"
        /\ list[i + 1][1] \in {"root", "failed", "report"} => i + 1 = Len(list)
        /\ list[i + 1][1] = "started" => Len(list) = 1
    BY <2>1, Zenon DEF Ordered
  <2> QED BY <2>2, <2>3, <2>4, <2>5, Zenon
<1> QED BY <1>2, <1>3, Zenon DEF Ordered

LEMMA OrderedBehind ==
  ASSUME NEW x \in Seq(AnyCall), NEW y \in Seq(AnyCall), y # << >>, Ordered(y), Without(y, "started"),
         \A i \in 1 .. Len(x) : x[i][1] \in GiveCall
  PROVE  Ordered(x \o y) /\ x \o y # << >>
<1>1. /\ x \o y \in Seq(AnyCall) /\ Len(x \o y) = Len(x) + Len(y)
      /\ Len(x) \in Nat /\ Len(y) \in Nat
      /\ \A i \in 1 .. Len(x) : (x \o y)[i] = x[i]
  BY CatIs
<1>2. Len(y) # 0 /\ Len(y) \in 1 .. Len(y)
  BY <1>1, EmptySeq
<1>3. x \o y # << >>
  <2>1. Len(x \o y) # 0
    BY <1>1, <1>2
  <2> QED BY <2>1
<1>4. (x \o y)[Len(x \o y)][1] \in {"root", "started", "failed", "report", "reset"}
  <2>1. (x \o y)[Len(x) + Len(y)] = y[Len(y)]
    BY <1>2, CatGoesOn
  <2>2. y[Len(y)][1] \in {"root", "started", "failed", "report", "reset"}
    BY Zenon DEF Ordered
  <2> QED BY <1>1, <2>1, <2>2
<1>5. ASSUME NEW i \in 1 .. Len(x \o y)
      PROVE  /\ (x \o y)[i][1] = "backend"  => i < Len(x \o y) /\ (x \o y)[i + 1][1] = "window"
             /\ (x \o y)[i][1] = "window"   => i < Len(x \o y) /\ (x \o y)[i + 1][1] = "renderer"
             /\ (x \o y)[i][1] = "renderer" => i < Len(x \o y) /\ (x \o y)[i + 1][1] = "builtin"
             /\ (x \o y)[i][1] = "builtin"  => i < Len(x \o y) /\ (x \o y)[i + 1][1] \in {"tileset", "root"}
             /\ (x \o y)[i][1] = "tileset"  => i < Len(x \o y) /\ (x \o y)[i + 1][1] = "root"
             /\ (x \o y)[i][1] \in {"root", "failed", "report"} => i = Len(x \o y)
             /\ (x \o y)[i][1] = "started" => Len(x \o y) = 1
  <2>1. CASE i \in 1 .. Len(x)
    <3>1. (x \o y)[i][1] \in GiveCall
      BY <1>1, <2>1
    <3> QED BY <3>1 DEF GiveCall
  <2>2. CASE \E k \in 1 .. Len(y) : i = Len(x) + k
    <3>1. PICK k \in 1 .. Len(y) : i = Len(x) + k
      BY <2>2
    <3>2. (x \o y)[i] = y[k]
      BY <3>1, CatGoesOn
    <3>3. (k < Len(y) => k + 1 \in 1 .. Len(y) /\ i + 1 = Len(x) + (k + 1) /\ i < Len(x \o y))
          /\ (k = Len(y) => i = Len(x \o y))
      BY <1>1, <3>1
    <3>4. k < Len(y) => (x \o y)[i + 1] = y[k + 1]
      BY <3>3, CatGoesOn
    <3>5. /\ y[k][1] = "backend"  => k < Len(y) /\ y[k + 1][1] = "window"
          /\ y[k][1] = "window"   => k < Len(y) /\ y[k + 1][1] = "renderer"
          /\ y[k][1] = "renderer" => k < Len(y) /\ y[k + 1][1] = "builtin"
          /\ y[k][1] = "builtin"  => k < Len(y) /\ y[k + 1][1] \in {"tileset", "root"}
          /\ y[k][1] = "tileset"  => k < Len(y) /\ y[k + 1][1] = "root"
          /\ y[k][1] \in {"root", "failed", "report"} => k = Len(y)
          /\ y[k][1] # "started"
      BY <3>1, Zenon DEF Ordered, Without
    <3> QED BY <3>2, <3>3, <3>4, <3>5, Zenon
  <2> QED BY <1>1, <2>1, <2>2, Places
<1> QED BY <1>3, <1>4, <1>5, Zenon DEF Ordered

\* Whether a start goes on is for the end of the list to say.
LEMMA AliveTail ==
  ASSUME NEW list \in Seq(AnyCall), list # << >>, Tail(list) # << >>, NEW a, NEW b
  PROVE  Alive(Tail(list), a) <=> Alive(list, b)
<1>1. /\ Len(Tail(list)) = Len(list) - 1 /\ Len(list) \in Nat \ {0}
      /\ \A i \in 1 .. Len(list) - 1 : Tail(list)[i] = list[i + 1]
      /\ Tail(list) \in Seq(AnyCall)
  BY TailIs
<1>2. Len(Tail(list)) \in 1 .. Len(list) - 1 /\ Len(Tail(list)) + 1 = Len(list)
  BY <1>1, LenProperties
<1>3. Tail(list)[Len(Tail(list))] = list[Len(list)]
  BY <1>1, <1>2
<1> QED BY <1>3 DEF Alive

LEMMA AliveBehind ==
  ASSUME NEW x \in Seq(AnyCall), NEW y \in Seq(AnyCall), y # << >>, NEW a, NEW b
  PROVE  Alive(x \o y, a) <=> Alive(y, b)
<1>1. /\ x \o y \in Seq(AnyCall) /\ Len(x \o y) = Len(x) + Len(y)
      /\ Len(x) \in Nat /\ Len(y) \in Nat
      /\ \A i \in 1 .. Len(x) : (x \o y)[i] = x[i]
  BY CatIs
<1>2. Len(y) # 0 /\ Len(y) \in 1 .. Len(y)
  BY <1>1, EmptySeq
<1>3. x \o y # << >>
  <2>1. Len(x \o y) # 0
    BY <1>1, <1>2
  <2> QED BY <2>1
<1>4. (x \o y)[Len(x) + Len(y)] = y[Len(y)]
  BY <1>2, CatGoesOn
<1> QED BY <1>1, <1>3, <1>4 DEF Alive

\* What follows call i is of these kinds, and ends with the root.
Followed(list, i, kinds) ==
  (\A k \in i + 1 .. Len(list) : list[k][1] \in kinds) /\ list[Len(list)][1] = "root"

LEMMA FollowedBy ==
  ASSUME NEW list, Len(list) \in Nat, NEW kinds, NEW i \in 1 .. Len(list), i < Len(list),
         list[i + 1][1] \in kinds, Followed(list, i + 1, kinds)
  PROVE  Followed(list, i, kinds)
<1>1. ASSUME NEW k \in i + 1 .. Len(list) PROVE list[k][1] \in kinds
  <2>1. k = i + 1 \/ k \in (i + 1) + 1 .. Len(list)
    OBVIOUS
  <2> QED BY <2>1 DEF Followed
<1> QED BY <1>1, Zenon DEF Followed

LEMMA FollowedMore ==
  ASSUME NEW list, NEW k1, NEW k2, k1 \subseteq k2, NEW i, Followed(list, i, k1)
  PROVE  Followed(list, i, k2)
BY Zenon DEF Followed

\* A start that has come to some call makes only the later ones.
LEMMA RestOfStart ==
  ASSUME NEW list \in Seq(AnyCall), Ordered(list), NEW i \in 1 .. Len(list)
  PROVE  /\ list[i][1] = "root" => Followed(list, i, {})
         /\ list[i][1] = "tileset" => Followed(list, i, {"root"})
         /\ list[i][1] = "builtin" => Followed(list, i, {"tileset", "root"})
         /\ list[i][1] = "renderer" => Followed(list, i, {"builtin", "tileset", "root"})
         /\ list[i][1] = "window" => Followed(list, i, {"renderer", "builtin", "tileset", "root"})
         /\ list[i][1] = "backend" => Followed(list, i, {"window", "renderer", "builtin", "tileset", "root"})
<1>0. Len(list) \in Nat
  BY LenProperties
<1>x. \A j \in 1 .. Len(list) : j < Len(list) => j + 1 \in 1 .. Len(list)
  BY <1>0
<1>1. ASSUME NEW j \in 1 .. Len(list), list[j][1] = "root" PROVE Followed(list, j, {})
  <2>1. j = Len(list)
    BY <1>1, Zenon DEF Ordered
  <2>2. ~ \E k \in j + 1 .. Len(list) : TRUE
    BY <1>0, <2>1
  <2> QED BY <1>1, <2>1, <2>2, Zenon DEF Followed
<1>2. ASSUME NEW j \in 1 .. Len(list), list[j][1] = "tileset" PROVE Followed(list, j, {"root"})
  <2>1. j < Len(list) /\ list[j + 1][1] = "root"
    BY <1>2, Zenon DEF Ordered
  <2>2. Followed(list, j + 1, {"root"})
    BY <1>1, <1>x, <2>1, FollowedMore, Zenon
  <2> QED BY <1>0, <2>1, <2>2, FollowedBy, Zenon
<1>3. ASSUME NEW j \in 1 .. Len(list), list[j][1] = "builtin" PROVE Followed(list, j, {"tileset", "root"})
  <2>1. j < Len(list) /\ list[j + 1][1] \in {"tileset", "root"}
    BY <1>3, Zenon DEF Ordered
  <2>2. Followed(list, j + 1, {"tileset", "root"})
    BY <1>1, <1>2, <1>x, <2>1, FollowedMore, Zenon
  <2> QED BY <1>0, <2>1, <2>2, FollowedBy, Zenon
<1>4. ASSUME NEW j \in 1 .. Len(list), list[j][1] = "renderer"
      PROVE  Followed(list, j, {"builtin", "tileset", "root"})
  <2>1. j < Len(list) /\ list[j + 1][1] = "builtin"
    BY <1>4, Zenon DEF Ordered
  <2>2. Followed(list, j + 1, {"builtin", "tileset", "root"})
    BY <1>3, <1>x, <2>1, FollowedMore, Zenon
  <2> QED BY <1>0, <2>1, <2>2, FollowedBy, Zenon
<1>5. ASSUME NEW j \in 1 .. Len(list), list[j][1] = "window"
      PROVE  Followed(list, j, {"renderer", "builtin", "tileset", "root"})
  <2>1. j < Len(list) /\ list[j + 1][1] = "renderer"
    BY <1>5, Zenon DEF Ordered
  <2>2. Followed(list, j + 1, {"renderer", "builtin", "tileset", "root"})
    BY <1>4, <1>x, <2>1, FollowedMore, Zenon
  <2> QED BY <1>0, <2>1, <2>2, FollowedBy, Zenon
<1>6. ASSUME NEW j \in 1 .. Len(list), list[j][1] = "backend"
      PROVE  Followed(list, j, {"window", "renderer", "builtin", "tileset", "root"})
  <2>1. j < Len(list) /\ list[j + 1][1] = "window"
    BY <1>6, Zenon DEF Ordered
  <2>2. Followed(list, j + 1, {"window", "renderer", "builtin", "tileset", "root"})
    BY <1>5, <1>x, <2>1, FollowedMore, Zenon
  <2> QED BY <1>0, <2>1, <2>2, FollowedBy, Zenon
<1> QED BY <1>1, <1>2, <1>3, <1>4, <1>5, <1>6, Zenon

\* Without its first call, a start's list holds the later ones only.
LEMMA RestTail ==
  ASSUME NEW list \in Seq(AnyCall), list # << >>, NEW kinds, Followed(list, 1, kinds)
  PROVE  /\ \A i \in 1 .. Len(Tail(list)) : Tail(list)[i][1] \in kinds
         /\ \A a : Alive(list, a)
         /\ Tail(list) # << >> => \A a : Alive(Tail(list), a)
<1>1. /\ Len(Tail(list)) = Len(list) - 1 /\ Len(list) \in Nat \ {0}
      /\ \A i \in 1 .. Len(list) - 1 : Tail(list)[i] = list[i + 1]
      /\ Tail(list) \in Seq(AnyCall)
  BY TailIs
<1>2. ASSUME NEW i \in 1 .. Len(Tail(list)) PROVE Tail(list)[i][1] \in kinds
  <2>1. i + 1 \in 1 + 1 .. Len(list) /\ i \in 1 .. Len(list) - 1
    BY <1>1
  <2> QED BY <1>1, <2>1, Zenon DEF Followed
<1>3. ASSUME NEW a PROVE Alive(list, a)
  BY Zenon DEF Followed, Alive
<1>4. ASSUME NEW a, Tail(list) # << >> PROVE Alive(Tail(list), a)
  BY <1>3, <1>4, AliveTail, Zenon
<1> QED BY <1>2, <1>3, <1>4, Zenon

-----------------------------------------------------------------------------
(* What has been tried *)

LEMMA Firsts ==
  ASSUME NEW S, NEW s \in Lists(S)
  PROVE  /\ Head(s) \in S /\ Tail(s) \in Seq(S)
         /\ Elements(s) \subseteq {Head(s)} \cup Elements(Tail(s))
         /\ Tail(s) = << >> => Elements(s) \subseteq {Head(s)}
<1>1. s \in Seq(S) /\ s # << >>
  BY DEF Lists
<1>2. /\ Tail(s) \in Seq(S) /\ Len(Tail(s)) = Len(s) - 1 /\ Len(s) \in Nat \ {0}
      /\ \A i \in 1 .. Len(s) - 1 : Tail(s)[i] = s[i + 1]
      /\ Head(s) = s[1] /\ Head(s) \in S
  BY <1>1, TailIs
<1>3. ASSUME NEW i \in 1 .. Len(s) PROVE s[i] \in {Head(s)} \cup Elements(Tail(s))
  <2>1. CASE i = 1
    BY <1>2, <2>1
  <2>2. CASE i # 1
    <3>1. i - 1 \in 1 .. Len(s) - 1 /\ (i - 1) + 1 = i /\ i - 1 \in 1 .. Len(Tail(s))
      BY <1>2, <2>2
    <3>2. Tail(s)[i - 1] = s[i]
      BY <1>2, <3>1
    <3> QED BY <3>1, <3>2, Zenon DEF Elements
  <2> QED BY <2>1, <2>2
<1>4. Elements(s) \subseteq {Head(s)} \cup Elements(Tail(s))
  BY <1>3, Zenon DEF Elements
<1>5. Tail(s) = << >> => Elements(Tail(s)) = {}
  <2>1. 1 .. Len(<< >>) = {}
    OBVIOUS
  <2> QED BY <2>1, Zenon DEF Elements
<1> QED BY <1>2, <1>4, <1>5

LEMMA TriesTail ==
  ASSUME NEW list \in Seq(AnyCall), list # << >>, NEW e, NEW e2 \in {e, "none"}, NEW d, NEW d2, d \subseteq d2,
         Tries(list, e, d), e2 # "renderer" \/ Head(list)[1] # "renderer"
  PROVE  Tries(Tail(list), e2, d2)
<1>1. /\ Len(Tail(list)) = Len(list) - 1 /\ Len(list) \in Nat \ {0}
      /\ \A i \in 1 .. Len(list) - 1 : Tail(list)[i] = list[i + 1]
      /\ Tail(list) \in Seq(AnyCall) /\ Head(list) = list[1]
  BY TailIs
<1>2. ASSUME NEW i \in 1 .. Len(Tail(list))
      PROVE  /\ Tail(list)[i][1] \in {"backend", "window"} => e2 = "none"
             /\ Tail(list)[i][1] = "backend" =>
                  \A bs \in BackendOrders : Elements(bs) \subseteq d2 \cup Elements(Tail(list)[i][2])
             /\ Tail(list)[i][1] = "renderer" => Renderers \subseteq d2 \cup Elements(Tail(list)[i][2])
  <2>1. i + 1 \in 1 .. Len(list) /\ i \in 1 .. Len(list) - 1
    BY <1>1
  <2>2. Tail(list)[i] = list[i + 1]
    BY <1>1, <2>1
  <2>3. /\ list[i + 1][1] \in {"backend", "window"} => e = "none"
        /\ list[i + 1][1] = "backend" =>
             \A bs \in BackendOrders : Elements(bs) \subseteq d \cup Elements(list[i + 1][2])
        /\ list[i + 1][1] = "renderer" => Renderers \subseteq d \cup Elements(list[i + 1][2])
    BY <2>1, Zenon DEF Tries
  <2> QED BY <2>2, <2>3
<1>3. ASSUME e2 = "backend" PROVE \A bs \in BackendOrders : Elements(bs) \subseteq d2
  BY <1>3 DEF Tries
<1>4. ASSUME e2 = "renderer"
      PROVE  Renderers \subseteq d2 \/ \E i \in 1 .. Len(Tail(list)) : Tail(list)[i][1] = "renderer"
  <2>1. Renderers \subseteq d \/ \E i \in 1 .. Len(list) : list[i][1] = "renderer"
    BY <1>4 DEF Tries
  <2>2. CASE \E i \in 1 .. Len(list) : list[i][1] = "renderer"
    <3>1. PICK i \in 1 .. Len(list) : list[i][1] = "renderer"
      BY <2>2
    <3>2. i # 1
      BY <1>1, <1>4, <3>1
    <3>3. i - 1 \in 1 .. Len(list) - 1 /\ (i - 1) + 1 = i /\ i - 1 \in 1 .. Len(Tail(list))
      BY <1>1, <3>2
    <3>4. Tail(list)[i - 1] = list[i]
      BY <1>1, <3>3
    <3> QED BY <3>1, <3>3, <3>4
  <2> QED BY <2>1, <2>2
<1> QED BY <1>2, <1>3, <1>4, Zenon DEF Tries

LEMMA TriesBehind ==
  ASSUME NEW x \in Seq(AnyCall), NEW y \in Seq(AnyCall), NEW e, NEW d, Tries(y, e, d),
         \A i \in 1 .. Len(x) : x[i][1] \in GiveCall
  PROVE  Tries(x \o y, e, d)
<1>1. /\ x \o y \in Seq(AnyCall) /\ Len(x \o y) = Len(x) + Len(y)
      /\ Len(x) \in Nat /\ Len(y) \in Nat
      /\ \A i \in 1 .. Len(x) : (x \o y)[i] = x[i]
  BY CatIs
<1>2. ASSUME NEW i \in 1 .. Len(x \o y)
      PROVE  /\ (x \o y)[i][1] \in {"backend", "window"} => e = "none"
             /\ (x \o y)[i][1] = "backend" =>
                  \A bs \in BackendOrders : Elements(bs) \subseteq d \cup Elements((x \o y)[i][2])
             /\ (x \o y)[i][1] = "renderer" => Renderers \subseteq d \cup Elements((x \o y)[i][2])
  <2>1. CASE i \in 1 .. Len(x)
    <3>1. (x \o y)[i][1] \in GiveCall
      BY <1>1, <2>1
    <3> QED BY <3>1 DEF GiveCall
  <2>2. CASE \E k \in 1 .. Len(y) : i = Len(x) + k
    <3>1. PICK k \in 1 .. Len(y) : i = Len(x) + k
      BY <2>2
    <3>2. (x \o y)[i] = y[k]
      BY <3>1, CatGoesOn
    <3> QED BY <3>2, Zenon DEF Tries
  <2> QED BY <1>1, <2>1, <2>2, Places
<1>3. ASSUME e = "renderer"
      PROVE  Renderers \subseteq d \/ \E i \in 1 .. Len(x \o y) : (x \o y)[i][1] = "renderer"
  <2>1. Renderers \subseteq d \/ \E i \in 1 .. Len(y) : y[i][1] = "renderer"
    BY <1>3 DEF Tries
  <2>2. CASE \E i \in 1 .. Len(y) : y[i][1] = "renderer"
    <3>1. PICK i \in 1 .. Len(y) : y[i][1] = "renderer"
      BY <2>2
    <3>2. (x \o y)[Len(x) + i] = y[i] /\ Len(x) + i \in 1 .. Len(x \o y)
      BY <1>1, CatGoesOn
    <3> QED BY <3>1, <3>2
  <2> QED BY <2>1, <2>2
<1>4. e = "backend" => \A bs \in BackendOrders : Elements(bs) \subseteq d
  BY Zenon DEF Tries
<1> QED BY <1>2, <1>3, <1>4, Zenon DEF Tries

-----------------------------------------------------------------------------
(* What the shutdowns give back *)

LEMMA CallsAre ==
  ASSUME NEW what, NEW A, NEW args \in Seq(A), \A a \in A : <<what, a>> \in AnyCall
  PROVE  /\ Calls(what, args) \in Seq(AnyCall) /\ Len(Calls(what, args)) = Len(args) /\ Len(args) \in Nat
         /\ \A i \in 1 .. Len(args) : Calls(what, args)[i] = <<what, args[i]>> /\ args[i] \in A
<1>1. Len(args) \in Nat /\ DOMAIN args = 1 .. Len(args) /\ \A i \in 1 .. Len(args) : args[i] \in A
  BY LenProperties, ElementOfSeq
<1>2. Calls(what, args) = [i \in 1 .. Len(args) |-> <<what, args[i]>>]
  BY <1>1 DEF Calls, Call
<1>3. Calls(what, args) \in [1 .. Len(args) -> AnyCall]
  BY <1>1, <1>2
<1>4. Calls(what, args) \in Seq(AnyCall)
  BY <1>1, <1>3, SeqDef
<1>5. DOMAIN Calls(what, args) = 1 .. Len(args)
  BY <1>2
<1>6. Len(Calls(what, args)) = Len(args)
  BY <1>1, <1>4, <1>5, LenProperties
<1> QED BY <1>1, <1>2, <1>4, <1>6

LEMMA ReleasesAre ==
  ASSUME NEW args \in Seq(Resource)
  PROVE  /\ Calls("release", args) \in Seq(AnyCall) /\ Len(Calls("release", args)) = Len(args)
         /\ Len(args) \in Nat
         /\ \A i \in 1 .. Len(args) :
              Calls("release", args)[i] = <<"release", args[i]>> /\ args[i] \in Resource
<1>1. \A a \in Resource : <<"release", a>> \in AnyCall
  BY DEF AnyCall
<1> QED BY <1>1, CallsAre

LEMMA ShedsReleases ==
  ASSUME NEW args \in Seq(Resource), NEW S, NEW T, NEW vt, NEW r, NEW b,
         \A s \in S : s \in T \/ \E j \in 1 .. Len(args) : args[j] = s,
         \A s \in S : \A i \in 1 .. Len(args) :
           s[1] \in {"the", "tileset"} \/ args[i] \notin NeededBy(s, vt, r) \/ \E j \in 1 .. i - 1 : args[j] = s
  PROVE  Sheds(S, Calls("release", args), T, vt, r, b)
<1> DEFINE list == Calls("release", args)
<1>1. /\ list \in Seq(AnyCall) /\ Len(list) = Len(args) /\ Len(args) \in Nat
      /\ \A i \in 1 .. Len(args) : list[i] = <<"release", args[i]>>
  BY ReleasesAre
<1>2. \A a, s : Gives(<<"release", a>>, s, b) <=> s = a
  BY DEF Gives
<1>3. \A a, s : s[1] \in {"the", "tileset"} \/ a \notin NeededBy(s, vt, r) => Bears(<<"release", a>>, s, vt, r)
  BY DEF Bears
<1>4. \A i \in 1 .. Len(args) : i - 1 \in Nat /\ \A j \in 1 .. i - 1 : j \in 1 .. Len(args)
  BY <1>1
<1> HIDE DEF list
<1>5. ASSUME NEW i \in 1 .. Len(list), NEW s \in S
      PROVE  Bears(list[i], s, vt, r) \/ Given(s, list, i - 1, b)
  <2>1. i \in 1 .. Len(args)
    BY <1>1
  <2>2. CASE s[1] \in {"the", "tileset"} \/ args[i] \notin NeededBy(s, vt, r)
    BY <1>1, <1>3, <2>1, <2>2, ZenonT(60)
  <2>3. CASE \E j \in 1 .. i - 1 : args[j] = s
    <3>1. PICK j \in 1 .. i - 1 : args[j] = s
      BY <2>3, Zenon
    <3>2. list[j] = <<"release", s>>
      BY <1>1, <1>4, <2>1, <3>1, Zenon
    <3>3. Gives(list[j], s, b)
      BY <1>2, <3>2, Zenon
    <3> QED BY <3>1, <3>3, Zenon DEF Given
  <2> QED BY <2>1, <2>2, <2>3, Zenon
<1>6. ASSUME NEW s \in S PROVE s \in T \/ Given(s, list, Len(list), b)
  <2>1. CASE \E j \in 1 .. Len(args) : args[j] = s
    <3>1. PICK j \in 1 .. Len(args) : args[j] = s
      BY <2>1, Zenon
    <3>2. list[j] = <<"release", s>>
      BY <1>1, <3>1, Zenon
    <3>3. Gives(list[j], s, b)
      BY <1>2, <3>2, Zenon
    <3> QED BY <1>1, <3>1, <3>3, Zenon DEF Given
  <2> QED BY <2>1, Zenon
<1>7. Sheds(S, list, T, vt, r, b)
  BY <1>1, <1>5, <1>6, Zenon DEF Sheds, Orderly
<1> QED BY <1>7 DEF list

\* A function on 1 .. n is a list.
LEMMA ListIs ==
  ASSUME NEW A, NEW n \in Nat, NEW f \in [1 .. n -> A]
  PROVE  f \in Seq(A) /\ Len(f) = n
<1>1. f \in Seq(A)
  BY SeqDef
<1>2. DOMAIN f = 1 .. n
  OBVIOUS
<1> QED BY <1>1, <1>2, LenProperties

LEMMA Resources ==
  ASSUME NEW b \in Drivers
  PROVE  /\ SystemRes(b) \subseteq Resource /\ WindowRes(b) \subseteq Resource
         /\ \A r : RendererRes(r, b) \subseteq Resource
         /\ Drawing(b) \subseteq SystemRes(b) \cup WindowRes(b)
<1>1. Drivers \subseteq Owner /\ "opengl" \in Owner /\ "metal" \in Owner
  BY DEF Owner, Working
<1>2. SystemNames(b) \subseteq Name /\ WindowNames \subseteq Name
  BY Zenon DEF Name
<1>3. {"vertices", "program", "context", "pipeline", "device", "layer"} \subseteq Name
  BY Zenon DEF Name
<1>4. SystemRes(b) \subseteq Resource
  BY <1>1, <1>2 DEF SystemRes, Of, Resource
<1>5. WindowRes(b) \subseteq Resource
  BY <1>1, <1>2 DEF WindowRes, Of, Resource
<1>6. ASSUME NEW r PROVE RendererRes(r, b) \subseteq Resource
  BY <1>1, <1>3 DEF RendererRes, Resource
<1>7. Drawing(b) \subseteq SystemRes(b) \cup WindowRes(b)
  <2>1. b = "cocoa" => <<b, "framework">> \in SystemRes(b)
    BY DEF SystemRes, SystemNames, Of
  <2>2. <<b, "surface">> \in WindowRes(b)
    BY DEF WindowRes, WindowNames, Of
  <2> QED BY <2>1, <2>2 DEF Drawing
<1> QED BY <1>4, <1>5, <1>6, <1>7

\* All of it, and the base after what needs it.
GivesSystem(args, b) ==
  /\ args \in Seq(Resource)
  /\ \A s \in SystemRes(b) : \E j \in 1 .. Len(args) : args[j] = s
  /\ \A s \in SystemRes(b) : \A i \in 1 .. Len(args) :
       args[i] = Base(b) /\ s[2] \in {"egl", "globals", "helper"} => \E j \in 1 .. i - 1 : args[j] = s

LEMMA SystemReleases ==
  ASSUME NEW b \in Drivers, NEW args, args = [i \in DOMAIN BackendShutdown(b) |-> <<b, BackendShutdown(b)[i]>>]
  PROVE  GivesSystem(args, b)
<1>0. b \in {"x11", "wayland", "win32", "cocoa"}
  BY Zenon DEF Drivers
<1>1. SystemRes(b) \subseteq Resource
  BY Resources
<1>a. CASE b = "x11"
  <2>1. BackendShutdown(b) = << "egl", "helper", "pipe", "xlib", "display" >>
    BY <1>a DEF BackendShutdown, X11Shutdown
  <2>2. SystemRes(b) = {<<b, "egl">>, <<b, "helper">>, <<b, "pipe">>, <<b, "xlib">>, <<b, "display">>}
    BY <1>a DEF SystemRes, SystemNames, Of
  <2>3. /\ args = [i \in 1 .. 5 |-> args[i]]
        /\ args[1] = <<b, "egl">> /\ args[2] = <<b, "helper">> /\ args[3] = <<b, "pipe">>
        /\ args[4] = <<b, "xlib">> /\ args[5] = <<b, "display">>
    BY <2>1
  <2>4. args \in [1 .. 5 -> Resource]
    BY <1>1, <2>2, <2>3
  <2>5. args \in Seq(Resource) /\ Len(args) = 5
    BY <2>4, ListIs
  <2>6. \A s \in SystemRes(b) : \E j \in 1 .. 5 : args[j] = s
    BY <2>2, <2>3
  <2>7. ASSUME NEW s \in SystemRes(b), NEW i \in 1 .. 5, args[i] = Base(b), s[2] \in {"egl", "globals", "helper"}
        PROVE  \E j \in 1 .. i - 1 : args[j] = s
    <3>1. i = 5
      BY <2>3, <2>7, <1>a DEF Base
    <3>2. s = args[1] \/ s = args[2]
      BY <2>2, <2>3, <2>7
    <3> QED BY <3>1, <3>2
  <2> QED BY <2>5, <2>6, <2>7 DEF GivesSystem
<1>b. CASE b = "wayland"
  <2>1. BackendShutdown(b) = << "egl", "globals", "pipe", "display" >>
    BY <1>b DEF BackendShutdown, WaylandShutdown
  <2>2. SystemRes(b) = {<<b, "egl">>, <<b, "globals">>, <<b, "pipe">>, <<b, "display">>}
    BY <1>b DEF SystemRes, SystemNames, Of
  <2>3. /\ args = [i \in 1 .. 4 |-> args[i]]
        /\ args[1] = <<b, "egl">> /\ args[2] = <<b, "globals">> /\ args[3] = <<b, "pipe">>
        /\ args[4] = <<b, "display">>
    BY <2>1
  <2>4. args \in [1 .. 4 -> Resource]
    BY <1>1, <2>2, <2>3
  <2>5. args \in Seq(Resource) /\ Len(args) = 4
    BY <2>4, ListIs
  <2>6. \A s \in SystemRes(b) : \E j \in 1 .. 4 : args[j] = s
    BY <2>2, <2>3
  <2>7. ASSUME NEW s \in SystemRes(b), NEW i \in 1 .. 4, args[i] = Base(b), s[2] \in {"egl", "globals", "helper"}
        PROVE  \E j \in 1 .. i - 1 : args[j] = s
    <3>1. i = 4
      BY <2>3, <2>7, <1>b DEF Base
    <3>2. s = args[1] \/ s = args[2]
      BY <2>2, <2>3, <2>7
    <3> QED BY <3>1, <3>2
  <2> QED BY <2>5, <2>6, <2>7 DEF GivesSystem
<1>c. CASE b = "win32"
  <2>1. BackendShutdown(b) = << "opengl32", "class", "libraries" >>
    BY <1>c DEF BackendShutdown, Win32Shutdown
  <2>2. SystemRes(b) = {<<b, "opengl32">>, <<b, "class">>, <<b, "libraries">>}
    BY <1>c DEF SystemRes, SystemNames, Of
  <2>3. /\ args = [i \in 1 .. 3 |-> args[i]]
        /\ args[1] = <<b, "opengl32">> /\ args[2] = <<b, "class">> /\ args[3] = <<b, "libraries">>
    BY <2>1
  <2>4. args \in [1 .. 3 -> Resource]
    BY <1>1, <2>2, <2>3
  <2>5. args \in Seq(Resource) /\ Len(args) = 3
    BY <2>4, ListIs
  <2>6. \A s \in SystemRes(b) : \E j \in 1 .. 3 : args[j] = s
    BY <2>2, <2>3
  <2>7. \A s \in SystemRes(b) : s[2] \notin {"egl", "globals", "helper"}
    BY <2>2
  <2> QED BY <2>5, <2>6, <2>7 DEF GivesSystem
<1>d. CASE b = "cocoa"
  <2>1. BackendShutdown(b) = << "framework", "delegate" >>
    BY <1>d DEF BackendShutdown, CocoaShutdown
  <2>2. SystemRes(b) = {<<b, "framework">>, <<b, "delegate">>}
    BY <1>d DEF SystemRes, SystemNames, Of
  <2>3. /\ args = [i \in 1 .. 2 |-> args[i]]
        /\ args[1] = <<b, "framework">> /\ args[2] = <<b, "delegate">>
    BY <2>1
  <2>4. args \in [1 .. 2 -> Resource]
    BY <1>1, <2>2, <2>3
  <2>5. args \in Seq(Resource) /\ Len(args) = 2
    BY <2>4, ListIs
  <2>6. \A s \in SystemRes(b) : \E j \in 1 .. 2 : args[j] = s
    BY <2>2, <2>3
  <2>7. \A s \in SystemRes(b) : s[2] \notin {"egl", "globals", "helper"}
    BY <2>2
  <2> QED BY <2>5, <2>6, <2>7 DEF GivesSystem
<1> QED BY <1>0, <1>a, <1>b, <1>c, <1>d

LEMMA WindowReleases ==
  ASSUME NEW b \in Drivers, NEW args, args = [i \in DOMAIN WindowDestroy |-> <<b, WindowDestroy[i]>>]
  PROVE  /\ args \in Seq(Resource) /\ Len(args) = 3
         /\ args[1] = <<b, "surface">> /\ args[2] = <<b, "egl_window">> /\ args[3] = <<b, "window">>
         /\ WindowRes(b) = {<<b, "surface">>, <<b, "egl_window">>, <<b, "window">>}
<1>1. WindowDestroy = << "surface", "egl_window", "window" >>
  BY DEF WindowDestroy
<1>2. WindowRes(b) = {<<b, "surface">>, <<b, "egl_window">>, <<b, "window">>}
  BY DEF WindowRes, WindowNames, Of
<1>3. /\ args = [i \in 1 .. 3 |-> args[i]]
      /\ args[1] = <<b, "surface">> /\ args[2] = <<b, "egl_window">> /\ args[3] = <<b, "window">>
  BY <1>1
<1>4. WindowRes(b) \subseteq Resource
  BY Resources
<1>5. args \in [1 .. 3 -> Resource]
  BY <1>2, <1>3, <1>4
<1>6. args \in Seq(Resource) /\ Len(args) = 3
  BY <1>5, ListIs
<1> QED BY <1>2, <1>3, <1>6

\* Of what the system holds, the window's parts are needed by the window's own.
LEMMA SystemNeedsNoWindow ==
  ASSUME NEW b \in Drivers, NEW s \in SystemRes(b), NEW r, NEW x \in NeededBy(s, b, r)
  PROVE  x = Base(b) /\ x \notin WindowRes(b) /\ s[2] \in {"egl", "globals", "helper"}
<1>1. NeededBy(s, b, r) \subseteq {y \in {Base(b)} : s[2] \in {"egl", "globals", "helper"}}
  BY SystemNeeds
<1>2. Base(b)[2] \in {"display", "class", "delegate"}
  BY DEF Base
<1>3. \A y \in WindowRes(b) : y[2] \in {"surface", "egl_window", "window"}
  BY DEF WindowRes, WindowNames, Of
<1> QED BY <1>1, <1>2, <1>3

LEMMA ShedsWindow ==
  ASSUME layer.vt \in Drivers, NEW S, NEW T, NEW r, NEW b,
         \A s \in S : s[1] \in {"the", "tileset"} \/ s \in SystemRes(layer.vt) \cup WindowRes(layer.vt),
         \A s \in S : s \in T \/ s \in WindowRes(layer.vt)
  PROVE  Sheds(S, WindowGone, T, layer.vt, r, b)
<1>1. PICK vt \in Drivers : vt = layer.vt
  BY Zenon
<1>2. PICK args : args = [i \in DOMAIN WindowDestroy |-> <<vt, WindowDestroy[i]>>]
  OBVIOUS
<1>3. WindowGone = Calls("release", args)
  BY <1>1, <1>2, Zenon DEF WindowGone
<1>4. /\ args \in Seq(Resource) /\ Len(args) = 3
      /\ args[1] = <<vt, "surface">> /\ args[2] = <<vt, "egl_window">> /\ args[3] = <<vt, "window">>
      /\ WindowRes(vt) = {<<vt, "surface">>, <<vt, "egl_window">>, <<vt, "window">>}
  BY <1>2, WindowReleases
<1>5. ASSUME NEW s \in S PROVE s \in T \/ \E j \in 1 .. Len(args) : args[j] = s
  <2>1. s \in T \/ s \in {<<vt, "surface">>, <<vt, "egl_window">>, <<vt, "window">>}
    BY <1>1, <1>4, Zenon
  <2>2. {<<vt, "surface">>, <<vt, "egl_window">>, <<vt, "window">>} = {args[1], args[2], args[3]}
    BY <1>4, Zenon
  <2> QED BY <1>4, <2>1, <2>2
<1>6. ASSUME NEW s \in S, NEW i \in 1 .. Len(args)
      PROVE  s[1] \in {"the", "tileset"} \/ args[i] \notin NeededBy(s, vt, r) \/ \E j \in 1 .. i - 1 : args[j] = s
  <2>a. i = 1 \/ i = 2 \/ i = 3
    <3>1. i \in 1 .. 3
      BY <1>4, Zenon
    <3> QED BY <3>1
  <2>0. args[i] \in {<<vt, "surface">>, <<vt, "egl_window">>, <<vt, "window">>}
        /\ (args[i] = <<vt, "window">> => i = 3)
    <3>1. args[1] # <<vt, "window">> /\ args[2] # <<vt, "window">>
      BY <1>4
    <3> QED BY <1>4, <2>a, <3>1, Zenon
  <2>1. CASE s \in SystemRes(vt)
    BY <1>4, <2>0, <2>1, SystemNeedsNoWindow
  <2>2. CASE s \in WindowRes(vt)
    <3>1. /\ NeededBy(<<vt, "window">>, vt, r) = {Base(vt)}
          /\ NeededBy(<<vt, "egl_window">>, vt, r) = {Base(vt)}
          /\ NeededBy(<<vt, "surface">>, vt, r) = {<<vt, "window">>, <<vt, "egl">>}
      BY WindowNeeds
    <3>2. Base(vt)[2] \in {"display", "class", "delegate"}
      BY DEF Base
    <3>3. CASE s = <<vt, "surface">>
      <4>1. i = 3 \/ args[i] \notin NeededBy(s, vt, r)
        <5>1. <<vt, "egl">> \notin {<<vt, "surface">>, <<vt, "egl_window">>, <<vt, "window">>}
          OBVIOUS
        <5>2. NeededBy(s, vt, r) = {<<vt, "window">>, <<vt, "egl">>}
          BY <3>1, <3>3, Zenon
        <5> QED BY <2>0, <5>1, <5>2
      <4>2. i = 3 => \E j \in 1 .. i - 1 : args[j] = s
        BY <1>4, <3>3
      <4> QED BY <4>1, <4>2
    <3>4. CASE s # <<vt, "surface">>
      <4>1. NeededBy(s, vt, r) = {Base(vt)}
        BY <1>4, <2>2, <3>1, <3>4
      <4>2. args[i] # Base(vt)
        BY <1>4, <2>0, <3>2
      <4> QED BY <4>1, <4>2
    <3> QED BY <3>3, <3>4
  <2> QED BY <1>1, <2>1, <2>2, Zenon
<1>7. Sheds(S, Calls("release", args), T, vt, r, b)
  BY <1>4, <1>5, <1>6, ShedsReleases, Zenon
<1> QED BY <1>1, <1>3, <1>7, Zenon

LEMMA TheThings ==
  /\ TheLayer[1] = "the" /\ TheWindow[1] = "the" /\ TheConsole[1] = "the" /\ TheRenderer[1] = "the"
  /\ TheLayer[2] = "layer" /\ TheWindow[2] = "window" /\ TheConsole[2] = "console" /\ TheRenderer[2] = "renderer"
  /\ \A t : TilesetAt(t)[1] = "tileset" /\ Texture(t)[1] = "texture"
  /\ \A x \in Resource : x[1] \in Owner
  /\ Owner \cap {"the", "tileset", "texture", "none"} = {}
BY DEF TheLayer, TheWindow, TheConsole, TheRenderer, TilesetAt, Texture, Resource, Owner, Drivers, Working

LEMMA ShedsLayer ==
  ASSUME layer.vt \in Drivers, NEW S, NEW T, NEW r, NEW b,
         \A s \in S : s \in {TheLayer, TheWindow, TheConsole} \cup SystemRes(layer.vt),
         \A s \in S : s \in T \/ s \in {TheLayer} \cup SystemRes(layer.vt)
  PROVE  Sheds(S, WinShutdown, T, layer.vt, r, b)
<1>1. PICK vt \in Drivers : vt = layer.vt
  BY Zenon
<1>2. PICK args : args = [i \in DOMAIN BackendShutdown(vt) |-> <<vt, BackendShutdown(vt)[i]>>]
  OBVIOUS
<1>3. WinShutdown = Calls("release", args) \o << Call("win_reset", "") >>
  BY <1>1, <1>2, Zenon DEF WinShutdown
<1>0. GivesSystem(args, vt)
  BY <1>2, SystemReleases
<1>4. /\ args \in Seq(Resource)
      /\ \A s \in SystemRes(vt) : \E j \in 1 .. Len(args) : args[j] = s
      /\ \A s \in SystemRes(vt) : \A i \in 1 .. Len(args) :
           args[i] = Base(vt) /\ s[2] \in {"egl", "globals", "helper"} => \E j \in 1 .. i - 1 : args[j] = s
  BY <1>0, Zenon DEF GivesSystem
<1>5. ASSUME NEW s \in S
      PROVE  s \in {x \in S : x \in {TheLayer, TheWindow, TheConsole}} \/ \E j \in 1 .. Len(args) : args[j] = s
  BY <1>1, <1>4, Zenon
<1>6. ASSUME NEW s \in S, NEW i \in 1 .. Len(args)
      PROVE  s[1] \in {"the", "tileset"} \/ args[i] \notin NeededBy(s, vt, r) \/ \E j \in 1 .. i - 1 : args[j] = s
  <2>1. CASE s \in SystemRes(vt)
    <3>1. CASE args[i] \in NeededBy(s, vt, r)
      <4>1. args[i] = Base(vt) /\ s[2] \in {"egl", "globals", "helper"}
        BY <2>1, <3>1, SystemNeedsNoWindow, Zenon
      <4> QED BY <1>4, <2>1, <4>1, Zenon
    <3> QED BY <3>1, Zenon
  <2>2. CASE s \in {TheLayer, TheWindow, TheConsole}
    BY <2>2, TheThings
  <2> QED BY <1>1, <2>1, <2>2, Zenon
<1>7. Sheds(S, Calls("release", args), {x \in S : x \in {TheLayer, TheWindow, TheConsole}}, vt, r, b)
  BY <1>4, <1>5, <1>6, ShedsReleases, Zenon
<1>8. Sheds({x \in S : x \in {TheLayer, TheWindow, TheConsole}}, << Call("win_reset", "") >>, T, vt, r, b)
  <2>1. PICK c : c = Call("win_reset", "")
    OBVIOUS
  <2>2. c \in AnyCall /\ c[1] = "win_reset"
    BY <2>1 DEF Call, AnyCall
  <2>3. \A s \in {TheLayer, TheWindow, TheConsole} : Bears(c, s, vt, r)
    BY <2>2, Zenon DEF Bears
  <2>4. Gives(c, TheLayer, b)
    BY <2>2, Zenon DEF Gives
  <2>5. \A s \in SystemRes(vt) : s \notin {TheLayer, TheWindow, TheConsole}
    BY Resources, TheThings
  <2>6. \A s \in {x \in S : x \in {TheLayer, TheWindow, TheConsole}} : s \in T \/ Gives(c, s, b)
    BY <1>1, <2>4, <2>5, Zenon
  <2>7. Sheds({x \in S : x \in {TheLayer, TheWindow, TheConsole}}, << c >>, T, vt, r, b)
    BY <2>2, <2>3, <2>6, ShedsOne, Zenon
  <2> QED BY <2>1, <2>7, Zenon
<1>9. Sheds(S, WinShutdown, T, vt, r, b)
  BY <1>3, <1>7, <1>8, ShedsThen, Zenon
<1> QED BY <1>1, <1>9, Zenon

\* All these calls give something back.
Giving(list) == list \in Seq(AnyCall) /\ \A i \in 1 .. Len(list) : list[i][1] \in GiveCall

LEMMA GivingCat ==
  ASSUME NEW x, NEW y, Giving(x), Giving(y)
  PROVE  Giving(x \o y)
<1>0. x \in Seq(AnyCall) /\ y \in Seq(AnyCall)
  BY DEF Giving
<1>1. /\ x \o y \in Seq(AnyCall) /\ Len(x \o y) = Len(x) + Len(y)
      /\ Len(x) \in Nat /\ Len(y) \in Nat
      /\ \A i \in 1 .. Len(x) : (x \o y)[i] = x[i]
  BY <1>0, CatIs
<1>2. ASSUME NEW i \in 1 .. Len(x \o y) PROVE (x \o y)[i][1] \in GiveCall
  <2>1. CASE i \in 1 .. Len(x)
    BY <1>1, <2>1, Zenon DEF Giving
  <2>2. CASE \E k \in 1 .. Len(y) : i = Len(x) + k
    <3>1. PICK k \in 1 .. Len(y) : i = Len(x) + k
      BY <2>2
    <3>2. (x \o y)[i] = y[k]
      BY <1>0, <3>1, CatGoesOn
    <3> QED BY <3>2, Zenon DEF Giving
  <2> QED BY <1>1, <2>1, <2>2, Places
<1> QED BY <1>1, <1>2, Zenon DEF Giving

LEMMA GivingNone == Giving(<< >>)
<1>1. << >> \in Seq(AnyCall) /\ Len(<< >>) = 0
  BY NoneIs
<1> QED BY <1>1 DEF Giving

LEMMA GivingOne ==
  ASSUME NEW c \in AnyCall, c[1] \in GiveCall
  PROVE  Giving(<< c >>)
<1>1. << c >> \in Seq(AnyCall) /\ Len(<< c >>) = 1 /\ << c >>[1] = c
  BY OneIs
<1> QED BY <1>1 DEF Giving

LEMMA GivingCalls ==
  ASSUME NEW what \in GiveCall, NEW A, NEW args \in Seq(A), \A a \in A : <<what, a>> \in AnyCall
  PROVE  Giving(Calls(what, args))
<1>1. /\ Calls(what, args) \in Seq(AnyCall) /\ Len(Calls(what, args)) = Len(args) /\ Len(args) \in Nat
      /\ \A i \in 1 .. Len(args) : Calls(what, args)[i] = <<what, args[i]>> /\ args[i] \in A
  BY CallsAre
<1> QED BY <1>1 DEF Giving

LEMMA GivingReleases ==
  ASSUME NEW args \in Seq(Resource)
  PROVE  Giving(Calls("release", args))
<1>1. \A a \in Resource : <<"release", a>> \in AnyCall
  BY DEF AnyCall
<1>2. "release" \in GiveCall
  BY DEF GiveCall
<1> QED BY <1>1, <1>2, GivingCalls

LEMMA GivingPlain ==
  ASSUME NEW what \in {"no_gfx", "windowless", "win_reset", "reset"}
  PROVE  /\ Call(what, "") \in AnyCall /\ Call(what, "")[1] = what
         /\ << Call(what, "") >> \in Seq(AnyCall) /\ Giving(<< Call(what, "") >>)
<1>1. Call(what, "") \in AnyCall /\ Call(what, "")[1] = what
  BY DEF Call, AnyCall
<1>2. what \in GiveCall
  BY DEF GiveCall
<1>3. << Call(what, "") >> \in Seq(AnyCall)
  BY <1>1, OneIs
<1> QED BY <1>1, <1>2, <1>3, GivingOne

LEMMA GivingWindow ==
  ASSUME layer.vt \in Drivers
  PROVE  Giving(WindowGone) /\ Giving(WinShutdown)
<1>1. PICK vt \in Drivers : vt = layer.vt
  BY Zenon
<1>2. PICK args : args = [i \in DOMAIN WindowDestroy |-> <<vt, WindowDestroy[i]>>]
  OBVIOUS
<1>3. PICK all : all = [i \in DOMAIN BackendShutdown(vt) |-> <<vt, BackendShutdown(vt)[i]>>]
  OBVIOUS
<1>4. args \in Seq(Resource)
  BY <1>2, WindowReleases
<1>5. GivesSystem(all, vt)
  BY <1>3, SystemReleases
<1>6. all \in Seq(Resource)
  BY <1>5, Zenon DEF GivesSystem
<1>7. WindowGone = Calls("release", args)
  BY <1>1, <1>2, Zenon DEF WindowGone
<1>8. WinShutdown = Calls("release", all) \o << Call("win_reset", "") >>
  BY <1>1, <1>3, Zenon DEF WinShutdown
<1>9. Giving(Calls("release", all)) /\ Giving(Calls("release", args))
  BY <1>4, <1>6, GivingReleases
<1>10. Giving(<< Call("win_reset", "") >>)
  BY GivingPlain
<1> QED BY <1>7, <1>8, <1>9, <1>10, GivingCat, Zenon

LEMMA RendererReleases ==
  ASSUME NEW b \in Drivers, NEW r \in Tried
  PROVE  /\ RendererShutdown(r, b) \in Seq(Resource)
         /\ \A s \in RendererRes(r, b) : \E j \in 1 .. Len(RendererShutdown(r, b)) : RendererShutdown(r, b)[j] = s
         /\ \A i \in 1 .. Len(RendererShutdown(r, b)) : RendererShutdown(r, b)[i] \in RendererRes(r, b)
         /\ r = "opengl" => RendererShutdown(r, b) = << <<"opengl", "vertices">>, <<"opengl", "program">>, <<b, "context">> >>
<1>0. r \in {"opengl", "metal", "test-fail"}
  BY Zenon DEF Tried
<1>1. RendererRes(r, b) \subseteq Resource
  BY Resources
<1>a. CASE r = "opengl"
  <2>1. RendererShutdown(r, b) = << <<"opengl", "vertices">>, <<"opengl", "program">>, <<b, "context">> >>
    BY <1>a DEF RendererShutdown, GlShutdown
  <2>2. RendererRes(r, b) = {<<"opengl", "vertices">>, <<"opengl", "program">>, <<b, "context">>}
    BY <1>a DEF RendererRes
  <2> QED BY <1>1, <2>1, <2>2
<1>b. CASE r = "metal"
  <2>1. RendererShutdown(r, b) = << <<"metal", "pipeline">>, <<"metal", "device">>, <<"metal", "layer">> >>
    BY <1>b DEF RendererShutdown, MetalShutdown
  <2>2. RendererRes(r, b) = {<<"metal", "pipeline">>, <<"metal", "device">>, <<"metal", "layer">>}
    BY <1>b DEF RendererRes
  <2>3. r # "opengl"
    BY <1>b
  <2>4. RendererShutdown(r, b) \in Seq(Resource)
    BY <1>1, <2>1, <2>2
  <2> QED BY <2>1, <2>2, <2>3, <2>4
<1>c. CASE r = "test-fail"
  <2>1. RendererShutdown(r, b) = << >>
    BY <1>c DEF RendererShutdown
  <2>2. RendererRes(r, b) = {}
    BY <1>c DEF RendererRes
  <2>3. r # "opengl"
    BY <1>c
  <2>4. RendererShutdown(r, b) \in Seq(Resource) /\ Len(RendererShutdown(r, b)) = 0
    BY <2>1, NoneIs
  <2> QED BY <2>2, <2>3, <2>4
<1> QED BY <1>0, <1>a, <1>b, <1>c

LEMMA GivingRenderer ==
  ASSUME NEW r, r = "none" \/ (r \in Tried /\ layer.vt \in Drivers)
  PROVE  Giving(GfxShutdown(r))
<1>1. Giving(<< Call("no_gfx", "") >>)
  BY GivingPlain
<1>2. Giving(Calls("release", RendererShutdown(r, layer.vt)))
  <2>1. CASE r = "none"
    <3>1. RendererShutdown(r, layer.vt) = << >>
      BY <2>1 DEF RendererShutdown
    <3>2. RendererShutdown(r, layer.vt) \in Seq(Resource)
      BY <3>1
    <3> QED BY <3>2, GivingReleases
  <2>2. CASE r \in Tried /\ layer.vt \in Drivers
    <3>1. RendererShutdown(r, layer.vt) \in Seq(Resource)
      BY <2>2, RendererReleases
    <3> QED BY <3>1, GivingReleases
  <2> QED BY <2>1, <2>2
<1> QED BY <1>1, <1>2, GivingCat, Zenon DEF GfxShutdown

\* What the renderer holds is needed by nothing but its own, and given back in
\* an order that its own can bear.
LEMMA NeedsOfRenderer ==
  ASSUME NEW b \in Drivers, NEW q \in Tried, NEW r, NEW x \in RendererRes(q, b),
         NEW s \in SystemRes(b) \cup WindowRes(b) \cup RendererRes(q, b), x \in NeededBy(s, b, r)
  PROVE  /\ q = "opengl" /\ x = <<b, "context">>
         /\ s \in {<<"opengl", "vertices">>, <<"opengl", "program">>}
<1>0. b \notin {"opengl", "metal"}
  BY DEF Drivers
<1>1. x[2] \in {"vertices", "program", "context", "pipeline", "device", "layer"}
  BY DEF RendererRes
<1>2. CASE s \in SystemRes(b)
  <2>1. x = Base(b)
    BY <1>2, SystemNeedsNoWindow
  <2>2. Base(b)[2] \in {"display", "class", "delegate"}
    BY DEF Base
  <2> QED BY <1>1, <2>1, <2>2
<1>3. CASE s \in WindowRes(b)
  <2>1. s = <<b, "surface">> \/ s = <<b, "egl_window">> \/ s = <<b, "window">>
    BY <1>3 DEF WindowRes, WindowNames, Of
  <2>2. /\ NeededBy(<<b, "window">>, b, r) = {Base(b)}
        /\ NeededBy(<<b, "egl_window">>, b, r) = {Base(b)}
        /\ NeededBy(<<b, "surface">>, b, r) = {<<b, "window">>, <<b, "egl">>}
    BY WindowNeeds
  <2>3. Base(b)[2] \in {"display", "class", "delegate"}
    BY DEF Base
  <2>4. x[2] \in {"display", "class", "delegate", "window", "egl"}
    BY <2>1, <2>2, <2>3
  <2> QED BY <1>1, <2>4
<1>4. CASE s \in RendererRes(q, b)
  <2>1. /\ NeededBy(<<"opengl", "vertices">>, b, r) = {<<b, "context">>}
        /\ NeededBy(<<"opengl", "program">>, b, r) = {<<b, "context">>}
        /\ NeededBy(<<b, "context">>, b, r) \subseteq
              {<<b, "window">>} \cup
              (IF b \in {"x11", "wayland"} THEN {<<b, "egl">>, <<b, "surface">>}
               ELSE IF b = "win32" THEN {<<b, "opengl32">>} ELSE {})
        /\ NeededBy(<<"metal", "layer">>, b, r) = {<<b, "window">>}
        /\ NeededBy(<<"metal", "device">>, b, r) = {}
        /\ NeededBy(<<"metal", "pipeline">>, b, r) = {}
    BY RendererNeeds
  <2>2. CASE q = "opengl" /\ s \in {<<"opengl", "vertices">>, <<"opengl", "program">>}
    BY <2>1, <2>2
  <2>3. CASE s = <<b, "context">>
    <3>1. x[2] \in {"window", "egl", "surface", "opengl32"}
      BY <2>1, <2>3
    <3> QED BY <1>1, <3>1
  <2>4. CASE s = <<"metal", "layer">>
    <3>1. x[2] = "window"
      BY <2>1, <2>4
    <3> QED BY <1>1, <3>1
  <2>5. CASE s = <<"metal", "device">> \/ s = <<"metal", "pipeline">>
    BY <2>1, <2>5
  <2> QED BY <1>4, <2>2, <2>3, <2>4, <2>5 DEF RendererRes
<1> QED BY <1>2, <1>3, <1>4

LEMMA ShedsRenderer ==
  ASSUME layer.vt \in Drivers, NEW q \in Tried, NEW S, NEW T, NEW r, NEW b,
         \A s \in S : \/ s \in {TheLayer, TheWindow, TheConsole, TheRenderer}
                      \/ s \in SystemRes(layer.vt) \cup WindowRes(layer.vt) \cup RendererRes(q, layer.vt),
         \A s \in S : s \in T \/ s = TheRenderer \/ s \in RendererRes(q, layer.vt)
  PROVE  Sheds(S, GfxShutdown(q), T, layer.vt, r, b)
<1>1. PICK vt \in Drivers : vt = layer.vt
  BY Zenon
<1>2. PICK args : args = RendererShutdown(q, vt)
  OBVIOUS
<1>3. GfxShutdown(q) = Calls("release", args) \o << Call("no_gfx", "") >>
  BY <1>1, <1>2, Zenon DEF GfxShutdown
<1>4. /\ RendererShutdown(q, vt) \in Seq(Resource)
      /\ \A s \in RendererRes(q, vt) : \E j \in 1 .. Len(RendererShutdown(q, vt)) : RendererShutdown(q, vt)[j] = s
      /\ \A i \in 1 .. Len(RendererShutdown(q, vt)) : RendererShutdown(q, vt)[i] \in RendererRes(q, vt)
      /\ q = "opengl" => RendererShutdown(q, vt) = << <<"opengl", "vertices">>, <<"opengl", "program">>, <<vt, "context">> >>
  BY RendererReleases
<1> DEFINE U == {x \in S : x \notin RendererRes(q, vt)}
<1>5. ASSUME NEW s \in S PROVE s \in U \/ \E j \in 1 .. Len(args) : args[j] = s
  BY <1>2, <1>4, Zenon
<1>6. ASSUME NEW s \in S, NEW i \in 1 .. Len(args)
      PROVE  s[1] \in {"the", "tileset"} \/ args[i] \notin NeededBy(s, vt, r) \/ \E j \in 1 .. i - 1 : args[j] = s
  <2>1. CASE s \in {TheLayer, TheWindow, TheConsole, TheRenderer}
    BY <2>1, TheThings
  <2>2. CASE s \in SystemRes(vt) \cup WindowRes(vt) \cup RendererRes(q, vt) /\ args[i] \in NeededBy(s, vt, r)
    <3>1. args[i] \in RendererRes(q, vt)
      BY <1>2, <1>4, Zenon
    <3>2. q = "opengl" /\ args[i] = <<vt, "context">> /\ s \in {<<"opengl", "vertices">>, <<"opengl", "program">>}
      BY <2>2, <3>1, NeedsOfRenderer, Zenon
    <3>3. args = << <<"opengl", "vertices">>, <<"opengl", "program">>, <<vt, "context">> >>
      BY <1>2, <1>4, <3>2, Zenon
    <3>4. vt # "opengl"
      BY DEF Drivers
    <3>5. i = 3
      BY <3>2, <3>3, <3>4
    <3>6. s = args[1] \/ s = args[2]
      BY <3>2, <3>3
    <3> QED BY <3>5, <3>6
  <2> QED BY <1>1, <2>1, <2>2, Zenon
<1>10. args \in Seq(Resource)
  BY <1>2, <1>4, Zenon
<1>7. Sheds(S, Calls("release", args), U, vt, r, b)
  BY <1>5, <1>6, <1>10, ShedsReleases, Zenon
<1>8. Sheds(U, << Call("no_gfx", "") >>, T, vt, r, b)
  <2>1. PICK c : c = Call("no_gfx", "")
    OBVIOUS
  <2>2. c \in AnyCall /\ c[1] = "no_gfx"
    BY <2>1, GivingPlain
  <2>3. \A s \in U : s[1] \notin {"texture", "tileset"}
    <3>1. \A s \in SystemRes(vt) \cup WindowRes(vt) \cup RendererRes(q, vt) : s[1] \notin {"texture", "tileset"}
      BY Resources, TheThings
    <3>2. \A s \in {TheLayer, TheWindow, TheConsole, TheRenderer} : s[1] \notin {"texture", "tileset"}
      BY TheThings
    <3> QED BY <1>1, <3>1, <3>2, Zenon
  <2>4. \A s \in U : Bears(c, s, vt, r)
    BY <2>2, <2>3, Zenon DEF Bears
  <2>5. Gives(c, TheRenderer, b)
    BY <2>2, Zenon DEF Gives
  <2>6. \A s \in U : s \in T \/ Gives(c, s, b)
    BY <1>1, <2>5, Zenon
  <2>7. Sheds(U, << c >>, T, vt, r, b)
    BY <2>2, <2>4, <2>6, ShedsOne, Zenon
  <2> QED BY <2>1, <2>7, Zenon
<1>9. Sheds(S, GfxShutdown(q), T, vt, r, b)
  BY <1>3, <1>7, <1>8, ShedsThen, Zenon
<1> QED BY <1>1, <1>9, Zenon

LEMMA Backwards ==
  ASSUME NEW A, NEW s \in Seq(A)
  PROVE  /\ Reverse(s) \in Seq(A) /\ Len(Reverse(s)) = Len(s) /\ Len(s) \in Nat
         /\ \A i \in 1 .. Len(s) : \E j \in 1 .. Len(s) : Reverse(s)[j] = s[i]
<1>1. Len(s) \in Nat /\ \A i \in 1 .. Len(s) : s[i] \in A
  BY LenProperties, ElementOfSeq
<1>2. Reverse(s) = [i \in 1 .. Len(s) |-> s[(Len(s) - i) + 1]]
  BY DEF Reverse
<1>3. \A i \in 1 .. Len(s) : (Len(s) - i) + 1 \in 1 .. Len(s) /\ (Len(s) - ((Len(s) - i) + 1)) + 1 = i
  BY <1>1
<1>4. Reverse(s) \in [1 .. Len(s) -> A]
  BY <1>1, <1>2, <1>3
<1>5. Reverse(s) \in Seq(A) /\ Len(Reverse(s)) = Len(s)
  BY <1>1, <1>4, ListIs
<1>6. ASSUME NEW i \in 1 .. Len(s) PROVE \E j \in 1 .. Len(s) : Reverse(s)[j] = s[i]
  <2>1. (Len(s) - i) + 1 \in 1 .. Len(s)
    BY <1>3
  <2>2. Reverse(s)[(Len(s) - i) + 1] = s[(Len(s) - ((Len(s) - i) + 1)) + 1]
    BY <1>2, <2>1
  <2>3. Reverse(s)[(Len(s) - i) + 1] = s[i]
    BY <1>3, <2>2
  <2> QED BY <2>1, <2>3
<1> QED BY <1>1, <1>5, <1>6

LEMMA Destroys ==
  ASSUME NEW s \in Seq(Address)
  PROVE  /\ Calls("destroy", Reverse(s)) \in Seq(AnyCall) /\ Len(Calls("destroy", Reverse(s))) = Len(s)
         /\ Len(s) \in Nat /\ Giving(Calls("destroy", Reverse(s)))
         /\ \A i \in 1 .. Len(s) : Calls("destroy", Reverse(s))[i] = <<"destroy", Reverse(s)[i]>>
<1>1. /\ Reverse(s) \in Seq(Address) /\ Len(Reverse(s)) = Len(s) /\ Len(s) \in Nat
      /\ \A i \in 1 .. Len(s) : \E j \in 1 .. Len(s) : Reverse(s)[j] = s[i]
  BY Backwards
<1>2. \A a \in Address : <<"destroy", a>> \in AnyCall
  BY DEF AnyCall
<1>3. /\ Calls("destroy", Reverse(s)) \in Seq(AnyCall)
      /\ Len(Calls("destroy", Reverse(s))) = Len(Reverse(s)) /\ Len(Reverse(s)) \in Nat
      /\ \A i \in 1 .. Len(Reverse(s)) :
           Calls("destroy", Reverse(s))[i] = <<"destroy", Reverse(s)[i]>> /\ Reverse(s)[i] \in Address
  BY <1>1, <1>2, CallsAre
<1>4. "destroy" \in GiveCall
  BY DEF GiveCall
<1>5. Giving(Calls("destroy", Reverse(s)))
  BY <1>1, <1>2, <1>4, GivingCalls
<1> QED BY <1>1, <1>3, <1>5

LEMMA ShedsTilesets ==
  ASSUME NEW ts \in Seq(Address), NEW S, NEW T, NEW vt, NEW r, NEW b,
         \A s \in S : s \in T \/ \E i \in 1 .. Len(ts) : ts[i] # b /\ s \in {TilesetAt(ts[i]), Texture(ts[i])}
  PROVE  Sheds(S, Calls("destroy", Reverse(ts)), T, vt, r, b)
<1>1. PICK list : list = Calls("destroy", Reverse(ts))
  OBVIOUS
<1>2. /\ Calls("destroy", Reverse(ts)) \in Seq(AnyCall) /\ Len(Calls("destroy", Reverse(ts))) = Len(ts)
      /\ Len(ts) \in Nat /\ Giving(Calls("destroy", Reverse(ts)))
      /\ \A i \in 1 .. Len(ts) : Calls("destroy", Reverse(ts))[i] = <<"destroy", Reverse(ts)[i]>>
  BY Destroys
<1>3. /\ list \in Seq(AnyCall) /\ Len(list) = Len(ts)
      /\ \A i \in 1 .. Len(ts) : list[i] = <<"destroy", Reverse(ts)[i]>>
  BY <1>1, <1>2, Zenon
<1>4. \A i \in 1 .. Len(ts) : \E j \in 1 .. Len(ts) : Reverse(ts)[j] = ts[i]
  BY Backwards
<1>5. ASSUME NEW i \in 1 .. Len(list), NEW s \in S PROVE Bears(list[i], s, vt, r)
  <2>1. list[i][1] = "destroy"
    BY <1>3
  <2> QED BY <2>1, Zenon DEF Bears
<1>6. ASSUME NEW s \in S PROVE s \in T \/ Given(s, list, Len(list), b)
  <2>1. CASE \E i \in 1 .. Len(ts) : ts[i] # b /\ s \in {TilesetAt(ts[i]), Texture(ts[i])}
    <3>1. PICK i \in 1 .. Len(ts) : ts[i] # b /\ s \in {TilesetAt(ts[i]), Texture(ts[i])}
      BY <2>1, Zenon
    <3>2. PICK j \in 1 .. Len(ts) : Reverse(ts)[j] = ts[i]
      BY <1>4, Zenon
    <3>3. list[j] = <<"destroy", ts[i]>>
      BY <1>3, <3>2, Zenon
    <3>4. list[j][1] = "destroy" /\ list[j][2] = ts[i]
      BY <3>3
    <3>5. Gives(list[j], s, b)
      BY <3>1, <3>4, Zenon DEF Gives
    <3> QED BY <1>3, <3>5, Zenon DEF Given
  <2> QED BY <2>1, Zenon
<1>7. Sheds(S, list, T, vt, r, b)
  BY <1>3, <1>5, <1>6, Zenon DEF Sheds, Orderly
<1> QED BY <1>1, <1>7, Zenon

\* The parts of a shutdown.
Builtins == IF console.builtin # NoTileset THEN << Call("destroy_builtin", console.builtin) >> ELSE << >>
Layers == IF console.window THEN WindowGone \o WinShutdown ELSE << >>

LEMMA ShutdownIs ==
  Shutdown = (((Calls("destroy", Reverse(console.tilesets)) \o Builtins) \o GfxShutdown(gfx)) \o Layers)
               \o << Call("reset", "") >>
BY Zenon DEF Shutdown, Builtins, Layers

LEMMA GivingShutdown ==
  ASSUME console.tilesets \in Seq(Address), console.builtin \in Address \cup {NoTileset},
         gfx = "none" \/ (gfx \in Tried /\ layer.vt \in Drivers),
         console.window => layer.vt \in Drivers
  PROVE  \E x : Giving(x) /\ Shutdown = x \o << Call("reset", "") >>
<1>1. Giving(Calls("destroy", Reverse(console.tilesets)))
  BY Destroys
<1>2. Giving(Builtins)
  <2>1. CASE console.builtin = NoTileset
    BY <2>1, GivingNone, Zenon DEF Builtins
  <2>2. CASE console.builtin # NoTileset
    <3>1. PICK c : c = Call("destroy_builtin", console.builtin)
      OBVIOUS
    <3>2. c \in AnyCall /\ c[1] = "destroy_builtin"
      BY <2>2, <3>1 DEF Call, AnyCall
    <3>3. Giving(<< c >>)
      BY <3>2, GivingOne DEF GiveCall
    <3> QED BY <2>2, <3>1, <3>3, Zenon DEF Builtins
  <2> QED BY <2>1, <2>2
<1>3. Giving(GfxShutdown(gfx))
  BY GivingRenderer
<1>4. Giving(Layers)
  <2>1. CASE ~console.window
    BY <2>1, GivingNone, Zenon DEF Layers
  <2>2. CASE console.window
    BY <2>2, GivingWindow, GivingCat, Zenon DEF Layers
  <2> QED BY <2>1, <2>2
<1>5. Giving(((Calls("destroy", Reverse(console.tilesets)) \o Builtins) \o GfxShutdown(gfx)) \o Layers)
  BY <1>1, <1>2, <1>3, <1>4, GivingCat, Zenon
<1> QED BY <1>5, ShutdownIs, Zenon

LEMMA ThingIs ==
  ASSUME NEW s \in Things
  PROVE  \/ s \in held
         \/ \E t \in Address : tiles[t] # 0 /\ s = TilesetAt(t)
         \/ s = TheRenderer /\ gfx # "none"
         \/ s = TheLayer /\ (layer.vt # "none" \/ layer.cache # "none")
         \/ s = TheWindow /\ console.window
         \/ s = TheConsole /\ [console EXCEPT !.error = "none", !.window = FALSE] # NoConsole
BY Zenon DEF Things

\* The shutdown of a console that has its renderer.
LEMMA ShedsShutdown ==
  ASSUME console.tilesets \in Seq(Address), console.builtin \in Address \cup {NoTileset}, Tilesets,
         layer.vt \in Drivers, gfx \in Tried, console.window,
         held \subseteq SystemRes(layer.vt) \cup WindowRes(layer.vt)
                           \cup RendererRes(gfx, layer.vt) \cup {Texture(t) : t \in Address}
  PROVE  Sheds(Things \cup {TheConsole}, Shutdown, {}, layer.vt, gfx, console.builtin)
<1>1. PICK vt \in Drivers, q \in Tried, b \in Address \cup {NoTileset} :
        vt = layer.vt /\ q = gfx /\ b = console.builtin
  BY Zenon
<1> DEFINE Rest == {TheLayer, TheWindow, TheConsole, TheRenderer}
                     \cup (SystemRes(vt) \cup WindowRes(vt) \cup RendererRes(q, vt))
           Font == {s \in {TilesetAt(b), Texture(b)} : b # NoTileset}
           Layer == {TheLayer, TheWindow, TheConsole} \cup (SystemRes(vt) \cup WindowRes(vt))
           System == {TheLayer, TheWindow, TheConsole} \cup SystemRes(vt)
<1>a. Sheds(Things \cup {TheConsole}, Calls("destroy", Reverse(console.tilesets)), Rest \cup Font, vt, q, b)
  <2>1. ASSUME NEW t \in Address, tiles[t] # 0, NEW s \in {TilesetAt(t), Texture(t)}
        PROVE  \/ s \in Rest \cup Font
               \/ \E i \in 1 .. Len(console.tilesets) :
                    console.tilesets[i] # b /\ s \in {TilesetAt(console.tilesets[i]), Texture(console.tilesets[i])}
    <3>1. PICK i \in 1 .. Len(console.tilesets) : console.tilesets[i] = t
      BY <2>1, Zenon DEF Tilesets, Has
    <3>2. CASE t = b
      BY <3>2, LifetimeAssumption
    <3>3. CASE t # b
      BY <3>1, <3>3, Zenon
    <3> QED BY <3>2, <3>3
  <2>2. ASSUME NEW s \in Things \cup {TheConsole}
        PROVE  \/ s \in Rest \cup Font
               \/ \E i \in 1 .. Len(console.tilesets) :
                    console.tilesets[i] # b /\ s \in {TilesetAt(console.tilesets[i]), Texture(console.tilesets[i])}
    <3>1. CASE s \in Rest
      BY <3>1
    <3>2. CASE \E t \in Address : s = Texture(t) /\ s \in held
      <4>1. PICK t \in Address : s = Texture(t) /\ s \in held
        BY <3>2, Zenon
      <4>2. tiles[t] # 0
        BY <4>1, Zenon DEF Tilesets
      <4> QED BY <2>1, <4>1, <4>2, Zenon
    <3>3. CASE \E t \in Address : tiles[t] # 0 /\ s = TilesetAt(t)
      BY <2>1, <3>3, Zenon
    <3>4. s \in held => s \in SystemRes(vt) \cup WindowRes(vt) \cup RendererRes(q, vt) \cup {Texture(t) : t \in Address}
      BY <1>1, Zenon
    <3>5. s \in held => s \in Rest \/ \E t \in Address : s = Texture(t) /\ s \in held
      BY <3>4, Zenon
    <3>6. s = TheConsole \/ s \in Things
      BY Zenon
    <3>7. s \in Rest \/ (\E t \in Address : s = Texture(t) /\ s \in held) \/ \E t \in Address : tiles[t] # 0 /\ s = TilesetAt(t)
      BY <3>5, <3>6, ThingIs, Zenon
    <3> QED BY <3>1, <3>2, <3>3, <3>7, Zenon
  <2> QED BY <2>2, ShedsTilesets, Zenon
<1>b. Sheds(Rest \cup Font, Builtins, Rest, vt, q, b)
  <2>1. CASE b = NoTileset
    <3>1. Builtins = << >>
      BY <1>1, <2>1, Zenon DEF Builtins
    <3>2. << >> \in Seq(AnyCall) /\ Len(<< >>) = 0
      BY NoneIs
    <3>3. Font = {}
      BY <2>1
    <3>4. ~ \E i \in 1 .. 0 : TRUE
      OBVIOUS
    <3>5. Orderly(Rest \cup Font, << >>, vt, q, b)
      BY <3>2, <3>4, Zenon DEF Orderly
    <3>6. \A s \in Rest \cup Font : s \in Rest
      BY <3>3, Zenon
    <3> QED BY <3>1, <3>2, <3>5, <3>6, Zenon DEF Sheds
  <2>2. CASE b # NoTileset
    <3>1. PICK c : c = Call("destroy_builtin", b)
      OBVIOUS
    <3>2. c \in AnyCall /\ c[1] = "destroy_builtin" /\ c[2] = b
      BY <2>2, <3>1 DEF Call, AnyCall
    <3>3. \A s : Bears(c, s, vt, q)
      BY <3>2, Zenon DEF Bears
    <3>4. \A s \in {TilesetAt(b), Texture(b)} : Gives(c, s, b)
      BY <3>2, Zenon DEF Gives
    <3>5. \A s \in Rest \cup Font : s \in Rest \/ Gives(c, s, b)
      BY <3>4, Zenon
    <3>6. Sheds(Rest \cup Font, << c >>, Rest, vt, q, b)
      BY <3>2, <3>3, <3>5, ShedsOne, Zenon
    <3> QED BY <1>1, <2>2, <3>1, <3>6, Zenon DEF Builtins
  <2> QED BY <2>1, <2>2, Zenon
<1>c. Sheds(Rest, GfxShutdown(gfx), Layer, vt, q, b)
  <2>1. \A s \in Rest : s \in Layer \/ s = TheRenderer \/ s \in RendererRes(q, layer.vt)
    BY <1>1, Zenon
  <2>2. \A s \in Rest : \/ s \in {TheLayer, TheWindow, TheConsole, TheRenderer}
                        \/ s \in SystemRes(layer.vt) \cup WindowRes(layer.vt) \cup RendererRes(q, layer.vt)
    BY <1>1, Zenon
  <2>3. Sheds(Rest, GfxShutdown(q), Layer, layer.vt, q, b)
    BY <2>1, <2>2, ShedsRenderer, Zenon
  <2> QED BY <1>1, <2>3, Zenon
<1>d. Sheds(Layer, WindowGone, System, vt, q, b)
  <2>1. \A s \in Layer : s[1] \in {"the", "tileset"} \/ s \in SystemRes(layer.vt) \cup WindowRes(layer.vt)
    BY <1>1, TheThings
  <2>2. \A s \in Layer : s \in System \/ s \in WindowRes(layer.vt)
    BY <1>1, Zenon
  <2>3. Sheds(Layer, WindowGone, System, layer.vt, q, b)
    BY <2>1, <2>2, ShedsWindow, Zenon
  <2> QED BY <1>1, <2>3, Zenon
<1>e. Sheds(System, WinShutdown, {TheWindow, TheConsole}, vt, q, b)
  <2>1. \A s \in System : s \in {TheLayer, TheWindow, TheConsole} \cup SystemRes(layer.vt)
    BY <1>1, Zenon
  <2>2. \A s \in System : s \in {TheWindow, TheConsole} \/ s \in {TheLayer} \cup SystemRes(layer.vt)
    BY <1>1, Zenon
  <2>3. Sheds(System, WinShutdown, {TheWindow, TheConsole}, layer.vt, q, b)
    BY <2>1, <2>2, ShedsLayer, Zenon
  <2> QED BY <1>1, <2>3, Zenon
<1>f. Sheds({TheWindow, TheConsole}, << Call("reset", "") >>, {}, vt, q, b)
  <2>1. PICK c : c = Call("reset", "")
    OBVIOUS
  <2>2. c \in AnyCall /\ c[1] = "reset"
    BY <2>1, GivingPlain
  <2>3. \A s \in {TheWindow, TheConsole} : Bears(c, s, vt, q)
    BY <2>2, Zenon DEF Bears
  <2>4. \A s \in {TheWindow, TheConsole} : s \in {} \/ Gives(c, s, b)
    BY <2>2, Zenon DEF Gives
  <2>5. Sheds({TheWindow, TheConsole}, << c >>, {}, vt, q, b)
    BY <2>2, <2>3, <2>4, ShedsOne, Zenon
  <2> QED BY <2>1, <2>5, Zenon
<1> HIDE DEF Rest, Font, Layer, System
<1>2. Sheds(Things \cup {TheConsole}, Calls("destroy", Reverse(console.tilesets)) \o Builtins, Rest, vt, q, b)
  BY <1>a, <1>b, ShedsThen, Zenon
<1>3. Sheds(Things \cup {TheConsole}, (Calls("destroy", Reverse(console.tilesets)) \o Builtins) \o GfxShutdown(gfx),
            Layer, vt, q, b)
  BY <1>2, <1>c, ShedsThen, Zenon
<1>4. Sheds(Layer, WindowGone \o WinShutdown, {TheWindow, TheConsole}, vt, q, b)
  BY <1>d, <1>e, ShedsThen, Zenon
<1>5. Layers = WindowGone \o WinShutdown
  BY Zenon DEF Layers
<1>6. Sheds(Layer, Layers, {TheWindow, TheConsole}, vt, q, b)
  BY <1>4, <1>5, Zenon
<1>7. Sheds(Things \cup {TheConsole},
            ((Calls("destroy", Reverse(console.tilesets)) \o Builtins) \o GfxShutdown(gfx)) \o Layers,
            {TheWindow, TheConsole}, vt, q, b)
  BY <1>3, <1>6, ShedsThen, Zenon
<1>8. Sheds(Things \cup {TheConsole}, Shutdown, {}, vt, q, b)
  BY <1>7, <1>f, ShedsThen, ShutdownIs, Zenon
<1> QED BY <1>1, <1>8, Zenon

LEMMA RemoveAtIs ==
  ASSUME NEW A, NEW s \in Seq(A), NEW n \in 1 .. Len(s)
  PROVE  /\ RemoveAt(s, n) \in Seq(A) /\ Len(RemoveAt(s, n)) = Len(s) - 1 /\ Len(s) \in Nat
         /\ \A i \in 1 .. Len(s) - 1 : RemoveAt(s, n)[i] = IF i < n THEN s[i] ELSE s[i + 1]
<1> DEFINE x == SubSeq(s, 1, n - 1)
           y == SubSeq(s, n + 1, Len(s))
<1>0. Len(s) \in Nat /\ (\A i \in 1 .. Len(s) : s[i] \in A) /\ n \in Nat \ {0} /\ n <= Len(s)
  BY LenProperties, ElementOfSeq
<1>1. /\ x \in Seq(A) /\ Len(x) = IF 1 <= n - 1 THEN (n - 1) - 1 + 1 ELSE 0
      /\ \A i \in 1 .. (n - 1) - 1 + 1 : x[i] = s[1 + i - 1]
  <2>1. \A i \in 1 .. n - 1 : s[i] \in A
    BY <1>0
  <2> QED BY <1>0, <2>1, SubSeqProperties
<1>2. /\ y \in Seq(A) /\ Len(y) = IF n + 1 <= Len(s) THEN Len(s) - (n + 1) + 1 ELSE 0
      /\ \A i \in 1 .. Len(s) - (n + 1) + 1 : y[i] = s[(n + 1) + i - 1]
  <2>1. \A i \in n + 1 .. Len(s) : s[i] \in A
    BY <1>0
  <2> QED BY <1>0, <2>1, SubSeqProperties
<1>3. RemoveAt(s, n) = x \o y
  BY DEF RemoveAt
<1> HIDE DEF x, y
<1>4. /\ x \o y \in Seq(A) /\ Len(x \o y) = Len(x) + Len(y)
      /\ Len(x) \in Nat /\ Len(y) \in Nat
      /\ \A i \in 1 .. Len(x) : (x \o y)[i] = x[i]
  BY <1>1, <1>2, CatIs
<1>5. Len(x) = n - 1 /\ Len(y) = Len(s) - n /\ Len(x \o y) = Len(s) - 1
  <2>1. \A m, j, k \in Nat : j \in Nat \ {0} /\ j <= m =>
          /\ (IF 1 <= j - 1 THEN (j - 1) - 1 + 1 ELSE 0) = j - 1
          /\ (IF j + 1 <= m THEN m - (j + 1) + 1 ELSE 0) = m - j
          /\ (j - 1) + (m - j) = m - 1
    OBVIOUS
  <2>2. Len(x) = n - 1 /\ Len(y) = Len(s) - n
    BY <1>0, <1>1, <1>2, <2>1, Zenon
  <2> QED BY <1>0, <1>4, <2>1, <2>2, Zenon
<1>6. ASSUME NEW i \in 1 .. Len(s) - 1, i < n PROVE (x \o y)[i] = s[i]
  <2>1. i \in 1 .. Len(x) /\ i \in 1 .. (n - 1) - 1 + 1 /\ 1 + i - 1 = i
    BY <1>0, <1>5, <1>6
  <2> QED BY <1>1, <1>4, <2>1
<1>7. ASSUME NEW i \in 1 .. Len(s) - 1, ~ (i < n) PROVE (x \o y)[i] = s[i + 1]
  <2>1. PICK k \in Nat : k = i - Len(x)
    BY <1>0, <1>5, <1>7
  <2>2. /\ k \in 1 .. Len(y) /\ Len(x) + k = i /\ k \in 1 .. Len(s) - (n + 1) + 1
        /\ (n + 1) + k - 1 = i + 1
    BY <1>0, <1>5, <1>7, <2>1
  <2>3. (x \o y)[Len(x) + k] = y[k]
    BY <1>1, <1>2, <2>2, CatGoesOn
  <2>4. y[k] = s[(n + 1) + k - 1]
    BY <1>2, <2>2
  <2> QED BY <2>2, <2>3, <2>4
<1>8. ASSUME NEW i \in 1 .. Len(s) - 1 PROVE (x \o y)[i] = IF i < n THEN s[i] ELSE s[i + 1]
  BY <1>6, <1>7
<1> QED BY <1>0, <1>3, <1>4, <1>5, <1>8

\* Taking the first t out of a list that has it once at most.
LEMMA RemovedIs ==
  ASSUME NEW A, NEW s \in Seq(A), NEW t, Once(s)
  PROVE  /\ RemoveFirst(s, t) \in Seq(A) /\ Once(RemoveFirst(s, t))
         /\ \A x : Has(RemoveFirst(s, t), x) <=> x # t /\ Has(s, x)
<1> DEFINE u == RemoveFirst(s, t)
<1>0. Len(s) \in Nat /\ \A i \in 1 .. Len(s) : s[i] \in A
  BY LenProperties, ElementOfSeq
<1>1. CASE ~ Has(s, t)
  <2>1. u = s
    BY <1>1, Zenon DEF RemoveFirst, Has
  <2> QED BY <1>1, <2>1 DEF Has
<1>2. CASE Has(s, t)
  <2>1. PICK n \in 1 .. Len(s) : s[n] = t
    BY <1>2 DEF Has
  <2>2. {i \in 1 .. Len(s) : s[i] = t} = {n}
    BY <2>1 DEF Once
  <2>3. Min({n}) = n
    <3>1. \E x \in {n} : \A y \in {n} : x <= y
      BY <1>0
    <3> QED BY <3>1, Zenon DEF Min
  <2>4. SelectInSeq(s, LAMBDA v : v = t) = n
    BY <2>2, <2>3, Zenon DEF SelectInSeq
  <2>5. u = RemoveAt(s, n)
    BY <1>2, <2>4, Zenon DEF RemoveFirst, Has
  <2>6. /\ RemoveAt(s, n) \in Seq(A) /\ Len(RemoveAt(s, n)) = Len(s) - 1 /\ Len(s) \in Nat
        /\ \A i \in 1 .. Len(s) - 1 : RemoveAt(s, n)[i] = IF i < n THEN s[i] ELSE s[i + 1]
    BY RemoveAtIs
  <2> HIDE DEF u
  <2>7. /\ u \in Seq(A) /\ Len(u) = Len(s) - 1
        /\ \A i \in 1 .. Len(s) - 1 : u[i] = IF i < n THEN s[i] ELSE s[i + 1]
    BY <2>5, <2>6, Zenon
  <2>8. Once(u)
    BY <1>0, <2>7 DEF Once
  <2>9. ASSUME NEW i \in 1 .. Len(u) PROVE u[i] # t /\ Has(s, u[i])
    BY <1>0, <2>1, <2>7 DEF Once, Has
  <2>10. ASSUME NEW i \in 1 .. Len(s), s[i] # t PROVE Has(u, s[i])
    <3>1. i # n
      BY <2>1, <2>10
    <3>2. CASE i < n
      BY <1>0, <2>7, <3>2 DEF Has
    <3>3. CASE i > n
      <4>1. i - 1 \in 1 .. Len(s) - 1 /\ ~ (i - 1 < n) /\ (i - 1) + 1 = i
        BY <1>0, <3>3
      <4>2. u[i - 1] = s[i]
        BY <2>7, <4>1
      <4> QED BY <2>7, <4>1, <4>2, Zenon DEF Has
    <3> QED BY <1>0, <3>1, <3>2, <3>3
  <2>11. \A x : Has(u, x) <=> x # t /\ Has(s, x)
    BY <2>9, <2>10, Zenon DEF Has
  <2> QED BY <2>7, <2>8, <2>11 DEF u
<1> QED BY <1>1, <1>2

-----------------------------------------------------------------------------
(* A call that is made and gone *)

LEMMA WithoutTail ==
  ASSUME NEW list \in Seq(AnyCall), list # << >>, NEW what, Without(Tail(list), what), Head(list)[1] # what
  PROVE  Without(list, what)
<1>1. /\ Len(Tail(list)) = Len(list) - 1 /\ Len(list) \in Nat \ {0}
      /\ \A i \in 1 .. Len(list) - 1 : Tail(list)[i] = list[i + 1]
      /\ Tail(list) \in Seq(AnyCall) /\ Head(list) = list[1]
  BY TailIs
<1>2. ASSUME NEW i \in 1 .. Len(list) PROVE list[i][1] # what
  <2>1. CASE i = 1
    BY <1>1, <2>1
  <2>2. CASE i # 1
    <3>1. i - 1 \in 1 .. Len(list) - 1 /\ (i - 1) + 1 = i /\ i - 1 \in 1 .. Len(Tail(list))
      BY <1>1, <2>2
    <3>2. Tail(list)[i - 1] = list[i]
      BY <1>1, <3>1
    <3> QED BY <3>1, <3>2, Zenon DEF Without
  <2> QED BY <2>1, <2>2
<1> QED BY <1>2, Zenon DEF Without

LEMMA StartsTail ==
  ASSUME NEW list \in Seq(AnyCall), list # << >>
  PROVE  /\ Starts(list) => Starts(Tail(list)) /\ Head(list)[1] \in StartCall \cup {"started"}
         /\ Retries(list) => /\ Retries(Tail(list))
                             /\ Head(list)[1] \in {"release", "no_gfx", "started"} \cup StartCall
                             /\ Head(list)[1] = "release" =>
                                  Head(list)[2][1] \in Working \/ Head(list)[2][2] = "context"
<1>1. /\ Len(Tail(list)) = Len(list) - 1 /\ Len(list) \in Nat \ {0}
      /\ \A i \in 1 .. Len(list) - 1 : Tail(list)[i] = list[i + 1]
      /\ Tail(list) \in Seq(AnyCall) /\ Head(list) = list[1]
  BY TailIs
<1>2. \A i \in 1 .. Len(Tail(list)) : i + 1 \in 1 .. Len(list) /\ Tail(list)[i] = list[i + 1]
  BY <1>1
<1>3. 1 \in 1 .. Len(list)
  BY <1>1
<1> QED BY <1>1, <1>2, <1>3, Zenon DEF Starts, Retries

\* A call that does not end the list leaves the start as far as it was, or takes
\* it past its own kind.
LEMMA PopUp ==
  ASSUME LifeTypes, InOrder, todo # << >>, todo' = Tail(todo),
         Head(todo)[1] \notin {"root", "started", "failed", "report", "reset"}
  PROVE  /\ todo' # << >>
         /\ Up' <=> Up
         /\ \A what : Past(what)' => Past(what) \/ Head(todo)[1] = what
<1>1. PICK list \in Seq(AnyCall) : list = todo
  BY Zenon DEF LifeTypes
<1>2. /\ Len(Tail(list)) = Len(list) - 1 /\ Len(list) \in Nat \ {0}
      /\ Tail(list) \in Seq(AnyCall) /\ Head(list) = list[1]
  BY <1>1, TailIs
<1>3. Tail(list) # << >>
  <2> SUFFICES ASSUME Tail(list) = << >> PROVE FALSE
    OBVIOUS
  <2>0. Len(Tail(list)) = 0
    BY NoneIs, Zenon
  <2>1. Len(list) = 1
    BY <1>2, <2>0
  <2>2. list[Len(list)][1] \in {"root", "started", "failed", "report", "reset"}
    BY <1>1, Zenon DEF InOrder, Ordered
  <2> QED BY <1>1, <1>2, <2>1, <2>2, Zenon
<1>4. \A a, b : Alive(Tail(list), a) <=> Alive(list, b)
  BY <1>1, <1>3, AliveTail, Zenon
<1>5. Up' <=> Up
  BY <1>1, <1>4, Zenon DEF Up
<1>6. ASSUME NEW what, Past(what)', Head(todo)[1] # what PROVE Past(what)
  <2>1. Without(todo', what) /\ Up'
    BY <1>6, Zenon DEF Past
  <2>2. Without(Tail(list), what)
    BY <1>1, <2>1, Zenon
  <2>3. Without(list, what)
    BY <1>1, <1>6, <2>2, WithoutTail, Zenon
  <2> QED BY <1>1, <1>5, <2>1, <2>3, Zenon DEF Past
<1> QED BY <1>1, <1>3, <1>5, <1>6, Zenon

LEMMA PopOrder ==
  ASSUME LifeTypes, InOrder, TriesAll, todo # << >>, todo' = Tail(todo), platform' = platform,
         tried \subseteq tried', console'.error \in {console.error, "none"},
         console'.error # "renderer" \/ Head(todo)[1] # "renderer"
  PROVE  InOrder' /\ TriesAll' /\ todo' \in Seq(AnyCall)
<1>1. PICK list \in Seq(AnyCall) : list = todo
  BY Zenon DEF LifeTypes
<1>2. Ordered(Tail(list)) /\ Tail(list) \in Seq(AnyCall)
  BY <1>1, OrderedTail, TailIs, Zenon DEF InOrder
<1>3. InOrder'
  BY <1>1, <1>2, Zenon DEF InOrder
<1>4. Tries(Tail(list), console'.error, tried')
  <2>1. PICK e, e2, d, d2 : e = console.error /\ e2 = console'.error /\ d = tried /\ d2 = tried'
    BY Zenon
  <2>2. Tries(list, e, d)
    BY <1>1, <2>1, Zenon DEF TriesAll
  <2>3. Tries(Tail(list), e2, d2)
    BY <1>1, <2>1, <2>2, TriesTail, Zenon
  <2> QED BY <2>1, <2>3, Zenon
<1>5. BackendOrders' = BackendOrders /\ Renderers' = Renderers
  BY Zenon DEF BackendOrders, Renderers
<1>6. Tries(todo', console'.error, tried')
  BY <1>1, <1>4, Zenon
<1>7. TriesAll'
  BY <1>5, <1>6, Zenon DEF TriesAll, Tries
<1> QED BY <1>1, <1>2, <1>3, <1>7, Zenon

LEMMA HeadBears ==
  ASSUME LifeTypes, GivesBack, todo # << >>
  PROVE  /\ \A s \in Things : Bears(Head(todo), s, layer.vt, gfx)
         /\ Head(todo) \in AnyCall
<1>1. PICK list \in Seq(AnyCall) : list = todo
  BY Zenon DEF LifeTypes
<1>2. /\ Len(list) \in Nat \ {0} /\ Head(list) = list[1] /\ Head(list) \in AnyCall
  BY <1>1, TailIs
<1>3. 1 \in 1 .. Len(list) /\ ~ \E j \in 1 .. 1 - 1 : TRUE
  BY <1>2
<1>4. \A s \in Things : Bears(list[1], s, layer.vt, gfx) \/ Given(s, list, 1 - 1, console.builtin)
  BY <1>1, <1>3, Zenon DEF GivesBack, Orderly
<1>5. \A s : ~ Given(s, list, 1 - 1, console.builtin)
  BY <1>3, Zenon DEF Given
<1> QED BY <1>1, <1>2, <1>4, <1>5, Zenon

LEMMA PopGives ==
  ASSUME LifeTypes, GivesBack, todo # << >>, todo' = Tail(todo), Up' \/ ~Up,
         \A s \in Things' : s \in Things /\ ~Gives(Head(todo), s, console.builtin),
         \A s \in Things' : \A c \in AnyCall : Gives(c, s, console.builtin) => Gives(c, s, console'.builtin),
         \A s \in Things' : \A c \in AnyCall : Bears(c, s, layer.vt, gfx) => Bears(c, s, layer'.vt, gfx')
  PROVE  GivesBack'
<1>1. PICK list \in Seq(AnyCall) : list = todo
  BY Zenon DEF LifeTypes
<1>2. PICK S, T, vt, vt2, r, r2, b, b2 :
        /\ S = Things /\ T = Things' /\ vt = layer.vt /\ vt2 = layer'.vt /\ r = gfx /\ r2 = gfx'
        /\ b = console.builtin /\ b2 = console'.builtin
  BY Zenon
<1>3. /\ Len(Tail(list)) = Len(list) - 1 /\ Len(list) \in Nat \ {0}
      /\ \A i \in 1 .. Len(list) : list[i] \in AnyCall
  BY <1>1, TailIs, ElementOfSeq
<1>4. Orderly(S, list, vt, r, b)
  BY <1>1, <1>2, Zenon DEF GivesBack
<1>5. /\ \A s \in T : s \in S /\ ~Gives(Head(list), s, b)
      /\ \A s \in T : \A c \in AnyCall : Gives(c, s, b) => Gives(c, s, b2)
  BY <1>1, <1>2, Zenon
<1>6. \A s \in T : \A i \in 2 .. Len(list) : Bears(list[i], s, vt, r) => Bears(list[i], s, vt2, r2)
  <2>1. \A i \in 2 .. Len(list) : list[i] \in AnyCall
    BY <1>3
  <2> QED BY <1>2, <2>1, Zenon
<1>7. Orderly(T, Tail(list), vt2, r2, b2)
  BY <1>1, <1>4, <1>5, <1>6, OrderlyAfter, Zenon
<1>8. ASSUME ~Up', NEW s \in T PROVE Given(s, Tail(list), Len(Tail(list)), b2)
  <2>1. Given(s, list, Len(list), b)
    BY <1>1, <1>2, <1>5, <1>8, Zenon DEF GivesBack
  <2>2. Len(list) - 1 \in 0 .. Len(list) - 1 /\ (Len(list) - 1) + 1 = Len(list)
    BY <1>3
  <2>3. Given(s, list, (Len(list) - 1) + 1, b)
    BY <2>1, <2>2, Zenon
  <2>4. Given(s, Tail(list), Len(list) - 1, b2)
    BY <1>1, <1>5, <2>2, <2>3, GivenAfter, Zenon
  <2> QED BY <1>3, <2>4, Zenon
<1>9. Orderly(Things', todo', layer'.vt, gfx', console'.builtin)
  BY <1>1, <1>2, <1>7, Zenon
<1>10. ~Up' => \A s \in Things' : Given(s, todo', Len(todo'), console'.builtin)
  BY <1>1, <1>2, <1>8, Zenon
<1> QED BY <1>9, <1>10, Zenon DEF GivesBack

-----------------------------------------------------------------------------
(* Giving back *)

LEMMA ReleaseKeeps ==
  ASSUME LifeInv, Release
  PROVE  LifeInv'
<1>1. /\ LifeTypes /\ InOrder /\ Stages /\ Tilesets /\ GivesBack /\ Nested /\ TriesAll /\ FramesAreSound
  BY Zenon DEF LifeInv
<1>2. /\ todo # << >> /\ todo' = Tail(todo) /\ Head(todo)[1] = "release"
      /\ held' = held \ {Head(todo)[2]}
      /\ UNCHANGED <<platform, app, layer, console, gfx, tiles, lost, tried, last, frame, corrupted>>
  BY DEF Release, Arg, Is
<1>3. PICK x \in Resource : x = Head(todo)[2]
  BY <1>1, <1>2, HeadBears, KindOf
<1>4. PICK b : b = console.builtin
  OBVIOUS
<1>5. ASSUME NEW s \in Things' PROVE s \in Things /\ s # x
  <2>1. \A t : Texture(t) # x /\ TilesetAt(t) # x
    BY TheThings
  <2>2. x \notin {TheRenderer, TheLayer, TheWindow, TheConsole}
    BY TheThings
  <2>3. \/ s \in held'
        \/ \E t \in Address : tiles[t] # 0 /\ s = TilesetAt(t)
        \/ s = TheRenderer /\ gfx # "none"
        \/ s = TheLayer /\ (layer.vt # "none" \/ layer.cache # "none")
        \/ s = TheWindow /\ console.window
        \/ s = TheConsole /\ [console EXCEPT !.error = "none", !.window = FALSE] # NoConsole
    BY <1>2, Zenon DEF Things
  <2> QED BY <1>2, <1>3, <2>1, <2>2, <2>3, Zenon DEF Things
<1>6. ASSUME NEW s \in Things' PROVE s \in Things /\ ~Gives(Head(todo), s, console.builtin)
  BY <1>2, <1>3, <1>5, Zenon DEF Gives
<1>7. LifeTypes'
  BY <1>1, <1>2, PopOrder DEF LifeTypes
<1>8. InOrder' /\ TriesAll'
  BY <1>1, <1>2, PopOrder
<1>9. /\ Up' <=> Up
      /\ \A what : Past(what)' => Past(what) \/ "release" = what
  BY <1>1, <1>2, PopUp
<1>10. GivesBack'
  BY <1>1, <1>2, <1>6, <1>9, PopGives
<1>11. \A s \in Things : Bears(Head(todo), s, layer.vt, gfx)
  BY <1>1, <1>2, HeadBears
<1>12. Nested'
  <2> SUFFICES ASSUME NEW r \in held', NEW y \in NeededBy(r, layer.vt, gfx) PROVE y \in held'
    BY <1>2, Zenon DEF Nested
  <2>1. r \in held /\ r \in Things
    BY <1>2, Zenon DEF Things
  <2>2. r[1] \notin {"the", "tileset"}
    BY <1>1, <2>1, TheThings DEF LifeTypes
  <2>3. x \notin NeededBy(r, layer.vt, gfx)
    BY <1>2, <1>3, <1>11, <2>1, <2>2, Zenon DEF Bears
  <2>4. y \in held
    BY <1>1, <2>1, Zenon DEF Nested
  <2> QED BY <1>2, <1>3, <2>3, <2>4
<1>13. Stages'
  <2>1. Up => Retries(todo) /\ Retries(Tail(todo)) /\ (x[1] \in Working \/ x[2] = "context")
    <3>1. todo \in Seq(AnyCall)
      BY <1>1, Zenon DEF LifeTypes
    <3>2. Up => Retries(todo)
      BY <1>1, Zenon DEF Stages
    <3> QED BY <1>2, <1>3, <3>1, <3>2, StartsTail, Zenon
  <2>2. ~Past("renderer")
    <3>1. Past("renderer") => Starts(todo)
      BY <1>1, Zenon DEF Stages
    <3>2. todo \in Seq(AnyCall)
      BY <1>1, Zenon DEF LifeTypes
    <3>3. Starts(todo) => "release" \in StartCall \cup {"started"}
      BY <1>2, <3>2, StartsTail, Zenon
    <3>4. "release" \notin StartCall \cup {"started"}
      BY DEF StartCall
    <3> QED BY <3>1, <3>3, <3>4, Zenon
  <2>3. Past("backend")' => layer.vt \in Drivers /\ Base(layer.vt) \in held'
    <3> SUFFICES ASSUME Past("backend")' PROVE layer.vt \in Drivers /\ Base(layer.vt) \in held'
      OBVIOUS
    <3>1. Past("backend") /\ Up
      BY <1>9, Zenon DEF Past
    <3>2. layer.vt \in Drivers /\ Base(layer.vt) \in held
      BY <1>1, <3>1, Zenon DEF Stages
    <3>3. Base(layer.vt)[1] = layer.vt /\ Base(layer.vt)[2] # "context" /\ layer.vt \notin Working
      BY <3>2 DEF Base, Drivers, Working
    <3> QED BY <1>2, <1>3, <2>1, <3>1, <3>2, <3>3
  <2>4. Past("window")' => console.window /\ <<layer.vt, "window">> \in held'
    <3> SUFFICES ASSUME Past("window")' PROVE console.window /\ <<layer.vt, "window">> \in held'
      OBVIOUS
    <3>1. Past("window") /\ Up
      BY <1>9, Zenon DEF Past
    <3>2. console.window /\ <<layer.vt, "window">> \in held
      BY <1>1, <3>1, Zenon DEF Stages
    <3>3. layer.vt \notin Working
      BY <1>1 DEF LifeTypes, LayerType, Drivers, Working
    <3> QED BY <1>2, <1>3, <2>1, <3>1, <3>2, <3>3
  <2>5. ~Past("renderer")'
    BY <1>9, <2>2, Zenon
  <2>6. Past("builtin")' => console.initialized
    BY <1>1, <1>9, Zenon DEF Stages
  <2> QED BY <1>2, <1>9, <2>1, <2>3, <2>4, <2>5, <2>6, Zenon DEF Stages
<1>14. Tilesets'
  <2>1. \A t : Texture(t) # x
    BY TheThings
  <2> QED BY <1>1, <1>2, <1>3, <2>1 DEF Tilesets
<1>15. FramesAreSound'
  BY <1>1, <1>2, Zenon DEF FramesAreSound
<1> QED BY <1>7, <1>8, <1>10, <1>12, <1>13, <1>14, <1>15, Zenon DEF LifeInv

LEMMA DownStages ==
  ASSUME ~Up
  PROVE  Stages
BY Zenon DEF Stages, Past

\* While a start goes on nothing but a renderer is given back.
LEMMA OnlyRetries ==
  ASSUME LifeTypes, Stages, todo # << >>,
         Head(todo)[1] \notin {"release", "no_gfx", "started"} \cup StartCall
  PROVE  ~Up
<1>1. todo \in Seq(AnyCall)
  BY Zenon DEF LifeTypes
<1>2. Up => Retries(todo)
  BY Zenon DEF Stages
<1>3. Retries(todo) => Head(todo)[1] \in {"release", "no_gfx", "started"} \cup StartCall
  BY <1>1, StartsTail, Zenon
<1> QED BY <1>2, <1>3, Zenon

LEMMA NoGfxKeeps ==
  ASSUME LifeInv, NoGfx
  PROVE  LifeInv'
<1>1. /\ LifeTypes /\ InOrder /\ Stages /\ Tilesets /\ GivesBack /\ Nested /\ TriesAll /\ FramesAreSound
  BY Zenon DEF LifeInv
<1>2. /\ todo # << >> /\ todo' = Tail(todo) /\ Head(todo)[1] = "no_gfx" /\ gfx' = "none"
      /\ UNCHANGED <<platform, app, layer, console, tiles, held, lost, tried, last, frame, corrupted>>
  BY DEF NoGfx, Is
<1>3. \A s \in Things : Bears(Head(todo), s, layer.vt, gfx)
  BY <1>1, <1>2, HeadBears
<1>4. \A s \in Things : s[1] \notin {"texture", "tileset"}
  BY <1>2, <1>3, Zenon DEF Bears
<1>5. \A t \in Address : tiles[t] = 0 /\ Texture(t) \notin held
  <2>1. \A t \in Address : tiles[t] # 0 => TilesetAt(t) \in Things
    BY Zenon DEF Things
  <2>2. \A t \in Address : tiles[t] # 0 <=> Texture(t) \in held
    BY <1>1, Zenon DEF Tilesets
  <2> QED BY <1>4, <2>1, <2>2, TheThings
<1>6. ASSUME NEW s \in Things' PROVE s \in Things /\ s # TheRenderer
  <2>1. \/ s \in held
        \/ \E t \in Address : tiles[t] # 0 /\ s = TilesetAt(t)
        \/ s = TheLayer /\ (layer.vt # "none" \/ layer.cache # "none")
        \/ s = TheWindow /\ console.window
        \/ s = TheConsole /\ [console EXCEPT !.error = "none", !.window = FALSE] # NoConsole
    BY <1>2, Zenon DEF Things
  <2>2. TheRenderer \notin held
    BY <1>1, TheThings DEF LifeTypes
  <2>3. TheRenderer # TheLayer /\ TheRenderer # TheWindow /\ TheRenderer # TheConsole
        /\ \A t : TheRenderer # TilesetAt(t)
    BY TheThings
  <2> QED BY <2>1, <2>2, <2>3, Zenon DEF Things
<1>7. ASSUME NEW s \in Things' PROVE s \in Things /\ ~Gives(Head(todo), s, console.builtin)
  BY <1>2, <1>6, Zenon DEF Gives
<1>8. ASSUME NEW s \in Things', NEW c \in AnyCall, Bears(c, s, layer.vt, gfx)
      PROVE  Bears(c, s, layer'.vt, gfx')
  <2>1. s[1] # "texture"
    BY <1>4, <1>6
  <2>2. NeededBy(s, layer.vt, gfx) = NeededBy(s, layer.vt, gfx')
    BY <2>1, OnlyTextures
  <2> QED BY <1>2, <1>8, <2>2, Zenon DEF Bears
<1>9. InOrder' /\ TriesAll' /\ todo' \in Seq(AnyCall)
  BY <1>1, <1>2, PopOrder
<1>10. LifeTypes'
  BY <1>1, <1>2, <1>9 DEF LifeTypes
<1>11. /\ Up' <=> Up
       /\ \A what : Past(what)' => Past(what) \/ "no_gfx" = what
  BY <1>1, <1>2, PopUp
<1>12. GivesBack'
  BY <1>1, <1>2, <1>7, <1>8, <1>11, PopGives
<1>13. Nested'
  <2> SUFFICES ASSUME NEW r \in held, NEW y \in NeededBy(r, layer.vt, gfx') PROVE y \in held
    BY <1>2, Zenon DEF Nested
  <2>1. r[1] # "texture"
    BY <1>4, Zenon DEF Things
  <2>2. NeededBy(r, layer.vt, gfx) = NeededBy(r, layer.vt, gfx')
    BY <2>1, OnlyTextures
  <2> QED BY <1>1, <2>2, Zenon DEF Nested
<1>14. Stages'
  <2>0. todo \in Seq(AnyCall)
    BY <1>1, Zenon DEF LifeTypes
  <2>1. Up => Retries(todo) /\ Retries(Tail(todo))
    BY <1>1, <1>2, <2>0, StartsTail, Zenon DEF Stages
  <2>2. ~Past("renderer")
    <3>1. Past("renderer") => Starts(todo)
      BY <1>1, Zenon DEF Stages
    <3>3. Starts(todo) => "no_gfx" \in StartCall \cup {"started"}
      BY <1>2, <2>0, StartsTail, Zenon
    <3>4. "no_gfx" \notin StartCall \cup {"started"}
      BY DEF StartCall
    <3> QED BY <3>1, <3>3, <3>4, Zenon
  <2>3. /\ Past("backend")' => Past("backend")
        /\ Past("window")' => Past("window")
        /\ Past("renderer")' => Past("renderer")
        /\ Past("builtin")' => Past("builtin")
    BY <1>11
  <2>4. /\ Past("backend") => layer.vt \in Drivers /\ Base(layer.vt) \in held
        /\ Past("window") => console.window /\ <<layer.vt, "window">> \in held
        /\ Past("builtin") => console.initialized
    BY <1>1, Zenon DEF Stages
  <2> QED BY <1>2, <1>11, <2>1, <2>2, <2>3, <2>4, Zenon DEF Stages
<1>15. Tilesets'
  BY <1>1, <1>2, <1>5 DEF Tilesets
<1>16. FramesAreSound'
  BY <1>1, <1>2, Zenon DEF FramesAreSound
<1> QED BY <1>9, <1>10, <1>12, <1>13, <1>14, <1>15, <1>16, Zenon DEF LifeInv

LEMMA WindowlessKeeps ==
  ASSUME LifeInv, Windowless
  PROVE  LifeInv'
<1>1. /\ LifeTypes /\ InOrder /\ Stages /\ Tilesets /\ GivesBack /\ Nested /\ TriesAll /\ FramesAreSound
  BY Zenon DEF LifeInv
<1>2. /\ todo # << >> /\ todo' = Tail(todo) /\ Head(todo)[1] = "windowless"
      /\ console' = [console EXCEPT !.window = FALSE]
      /\ UNCHANGED <<platform, app, layer, gfx, tiles, held, lost, tried, last, frame, corrupted>>
  BY DEF Windowless, Is
<1>3. console \in ConsoleType
  BY <1>1, Zenon DEF LifeTypes
<1>4. /\ console' \in ConsoleType /\ ~console'.window /\ console'.error = console.error
      /\ console'.builtin = console.builtin /\ console'.tilesets = console.tilesets
      /\ console'.initialized = console.initialized
      /\ [console' EXCEPT !.error = "none", !.window = FALSE] = [console EXCEPT !.error = "none", !.window = FALSE]
  BY <1>2, <1>3 DEF ConsoleType
<1>5. ASSUME NEW s \in Things' PROVE s \in Things /\ s # TheWindow
  <2>1. \/ s \in held
        \/ \E t \in Address : tiles[t] # 0 /\ s = TilesetAt(t)
        \/ s = TheRenderer /\ gfx # "none"
        \/ s = TheLayer /\ (layer.vt # "none" \/ layer.cache # "none")
        \/ s = TheConsole /\ [console EXCEPT !.error = "none", !.window = FALSE] # NoConsole
    BY <1>2, <1>4, Zenon DEF Things
  <2>2. TheWindow \notin held
    BY <1>1, TheThings DEF LifeTypes
  <2>3. TheWindow # TheLayer /\ TheRenderer # TheWindow /\ TheWindow # TheConsole
        /\ \A t : TheWindow # TilesetAt(t)
    BY TheThings
  <2> QED BY <2>1, <2>2, <2>3, Zenon DEF Things
<1>6. ASSUME NEW s \in Things' PROVE s \in Things /\ ~Gives(Head(todo), s, console.builtin)
  BY <1>2, <1>5, Zenon DEF Gives
<1>9. InOrder' /\ TriesAll' /\ todo' \in Seq(AnyCall)
  BY <1>1, <1>2, <1>4, PopOrder
<1>10. LifeTypes'
  BY <1>1, <1>2, <1>4, <1>9 DEF LifeTypes
<1>11. ~Up /\ (Up' <=> Up)
  BY <1>1, <1>2, PopUp, OnlyRetries DEF StartCall
<1>12. GivesBack'
  BY <1>1, <1>2, <1>4, <1>6, <1>11, PopGives
<1>13. Nested'
  BY <1>1, <1>2, Zenon DEF Nested
<1>14. Stages'
  BY <1>11, Zenon DEF Stages, Past
<1>15. Tilesets'
  BY <1>1, <1>2, <1>4, Zenon DEF Tilesets
<1>16. FramesAreSound'
  BY <1>1, <1>2, Zenon DEF FramesAreSound
<1> QED BY <1>9, <1>10, <1>12, <1>13, <1>14, <1>15, <1>16, Zenon DEF LifeInv

LEMMA WinResetKeeps ==
  ASSUME LifeInv, WinReset
  PROVE  LifeInv'
<1>1. /\ LifeTypes /\ InOrder /\ Stages /\ Tilesets /\ GivesBack /\ Nested /\ TriesAll /\ FramesAreSound
  BY Zenon DEF LifeInv
<1>2. /\ todo # << >> /\ todo' = Tail(todo) /\ Head(todo)[1] = "win_reset" /\ layer' = NoLayer
      /\ UNCHANGED <<platform, app, console, gfx, tiles, held, lost, tried, last, frame, corrupted>>
  BY DEF WinReset, Is
<1>3. \A s \in Things : s \in {TheLayer, TheWindow, TheConsole}
  BY <1>1, <1>2, HeadBears, Zenon DEF Bears
<1>4. layer'.vt = "none" /\ layer'.cache = "none" /\ layer' \in LayerType
  BY <1>2 DEF NoLayer, LayerType
<1>5. held = {} /\ gfx = "none" /\ \A t \in Address : tiles[t] = 0
  <2>1. \A s \in held : s \in Things
    BY Zenon DEF Things
  <2>2. \A s \in held : s[1] # "the"
    BY <1>1, TheThings DEF LifeTypes
  <2>3. held = {}
    BY <1>3, <2>1, <2>2, TheThings
  <2>4. gfx # "none" => TheRenderer \in Things
    BY Zenon DEF Things
  <2>5. \A t \in Address : tiles[t] # 0 => TilesetAt(t) \in Things
    BY Zenon DEF Things
  <2> QED BY <1>3, <2>3, <2>4, <2>5, TheThings
<1>6. ASSUME NEW s \in Things' PROVE s \in Things /\ s \in {TheWindow, TheConsole} /\ s # TheLayer
  <2>1. \/ s \in held
        \/ \E t \in Address : tiles[t] # 0 /\ s = TilesetAt(t)
        \/ s = TheRenderer /\ gfx # "none"
        \/ s = TheWindow /\ console.window
        \/ s = TheConsole /\ [console EXCEPT !.error = "none", !.window = FALSE] # NoConsole
    BY <1>2, <1>4, Zenon DEF Things
  <2>2. TheWindow # TheLayer /\ TheLayer # TheConsole
    BY TheThings
  <2> QED BY <1>5, <2>1, <2>2, Zenon DEF Things
<1>7. ASSUME NEW s \in Things' PROVE s \in Things /\ ~Gives(Head(todo), s, console.builtin)
  BY <1>2, <1>6, Zenon DEF Gives
<1>8. ASSUME NEW s \in Things', NEW c \in AnyCall, Bears(c, s, layer.vt, gfx)
      PROVE  Bears(c, s, layer'.vt, gfx')
  <2>1. s[1] = "the" /\ s \in {TheWindow, TheConsole}
    BY <1>6, TheThings
  <2>2. layer.vt \in Drivers => s \notin SystemRes(layer.vt) /\ s \notin WindowRes(layer.vt)
    BY <2>1, Resources, TheThings
  <2>3. SystemRes("none") \subseteq {"none"} \X {"framework", "delegate"}
    BY DEF SystemRes, SystemNames, Of
  <2>4. s \in SystemRes(layer.vt) \cup WindowRes(layer.vt) => s[1] = layer.vt
    BY DEF SystemRes, WindowRes, Of
  <2>5. layer.vt # "the"
    BY <1>1 DEF LifeTypes, LayerType, Drivers
  <2>6. s \notin SystemRes(layer.vt) \cup WindowRes(layer.vt)
    BY <2>1, <2>4, <2>5
  <2> QED BY <1>8, <2>1, <2>6, Zenon DEF Bears
<1>9. InOrder' /\ TriesAll' /\ todo' \in Seq(AnyCall)
  BY <1>1, <1>2, PopOrder
<1>10. LifeTypes'
  BY <1>1, <1>2, <1>4, <1>9 DEF LifeTypes
<1>11. ~Up /\ (Up' <=> Up)
  BY <1>1, <1>2, PopUp, OnlyRetries DEF StartCall
<1>12. GivesBack'
  BY <1>1, <1>2, <1>7, <1>8, <1>11, PopGives
<1>13. Nested'
  BY <1>2, <1>5, Zenon DEF Nested
<1>14. Stages'
  BY <1>11, Zenon DEF Stages, Past
<1>15. Tilesets'
  BY <1>1, <1>2, Zenon DEF Tilesets
<1>16. FramesAreSound'
  BY <1>1, <1>2, Zenon DEF FramesAreSound
<1> QED BY <1>9, <1>10, <1>12, <1>13, <1>14, <1>15, <1>16, Zenon DEF LifeInv

LEMMA ResetKeeps ==
  ASSUME LifeInv, Reset
  PROVE  LifeInv'
<1>1. /\ LifeTypes /\ InOrder /\ Stages /\ Tilesets /\ GivesBack /\ Nested /\ TriesAll /\ FramesAreSound
  BY Zenon DEF LifeInv
<1>2. /\ todo # << >> /\ todo' = Tail(todo) /\ Head(todo)[1] = "reset" /\ console' = NoConsole
      /\ UNCHANGED <<platform, app, layer, gfx, tiles, held, lost, tried, last, frame, corrupted>>
  BY DEF Reset, Is
<1>3. \A s \in Things : s \in {TheWindow, TheConsole}
  BY <1>1, <1>2, HeadBears, Zenon DEF Bears
<1>4. /\ console' \in ConsoleType /\ ~console'.window /\ console'.error = "none"
      /\ console'.builtin = NoTileset /\ console'.tilesets = << >> /\ console'.initialized = FALSE
      /\ [console' EXCEPT !.error = "none", !.window = FALSE] = NoConsole
  <2>1. NoConsole \in ConsoleType
    <3>1. << >> \in Seq(Address)
      BY NoneIs
    <3> QED BY <3>1 DEF ConsoleType, NoConsole
  <2>2. NoConsole = [NoConsole EXCEPT !.error = "none", !.window = FALSE]
    <3>1. \A r \in ConsoleType : r.error = "none" /\ r.window = FALSE =>
            r = [r EXCEPT !.error = "none", !.window = FALSE]
      BY DEF ConsoleType
    <3>2. NoConsole.error = "none" /\ NoConsole.window = FALSE
      BY DEF NoConsole
    <3> QED BY <2>1, <3>1, <3>2, Zenon
  <2>3. /\ ~NoConsole.window /\ NoConsole.error = "none" /\ NoConsole.builtin = NoTileset
        /\ NoConsole.tilesets = << >> /\ NoConsole.initialized = FALSE
    BY DEF NoConsole
  <2> QED BY <1>2, <2>1, <2>2, <2>3, Zenon
<1>5. /\ held = {} /\ gfx = "none" /\ layer.vt = "none" /\ layer.cache = "none"
      /\ \A t \in Address : tiles[t] = 0
  <2>1. \A s \in held : s \in Things
    BY Zenon DEF Things
  <2>2. \A s \in held : s[1] # "the"
    BY <1>1, TheThings DEF LifeTypes
  <2>3. held = {}
    BY <1>3, <2>1, <2>2, TheThings
  <2>4. gfx # "none" => TheRenderer \in Things
    BY Zenon DEF Things
  <2>5. \A t \in Address : tiles[t] # 0 => TilesetAt(t) \in Things
    BY Zenon DEF Things
  <2>6. layer.vt # "none" \/ layer.cache # "none" => TheLayer \in Things
    BY Zenon DEF Things
  <2> QED BY <1>3, <2>3, <2>4, <2>5, <2>6, TheThings
<1>6. Things' = {}
  BY <1>2, <1>4, <1>5, Zenon DEF Things
<1>9. InOrder' /\ TriesAll' /\ todo' \in Seq(AnyCall)
  BY <1>1, <1>2, <1>4, PopOrder
<1>10. LifeTypes'
  BY <1>1, <1>2, <1>4, <1>9 DEF LifeTypes
<1>11. ~Up'
  <2>0. todo \in Seq(AnyCall)
    BY <1>1, Zenon DEF LifeTypes
  <2>1. ~Up
    BY <1>1, <1>2, OnlyRetries DEF StartCall
  <2>2. CASE Tail(todo) = << >>
    BY <1>2, <1>4, <2>2, Zenon DEF Up, Alive
  <2>3. CASE Tail(todo) # << >>
    <3>1. Alive(Tail(todo), console'.initialized) <=> Alive(todo, console.initialized)
      BY <1>2, <2>0, <2>3, AliveTail, Zenon
    <3> QED BY <1>2, <2>1, <3>1, Zenon DEF Up
  <2> QED BY <2>2, <2>3
<1>12. GivesBack'
  <2>1. \A i, s : s \in Things' => Bears(todo'[i], s, layer'.vt, gfx') \/ Given(s, todo', i - 1, console'.builtin)
    BY <1>6, Zenon
  <2>2. \A s \in Things' : Given(s, todo', Len(todo'), console'.builtin)
    BY <1>6, Zenon
  <2> QED BY <2>1, <2>2, Zenon DEF GivesBack, Orderly
<1>13. Nested'
  BY <1>2, <1>5, Zenon DEF Nested
<1>14. Stages'
  BY <1>11, Zenon DEF Stages, Past
<1>15. Tilesets'
  <2>1. Once(<< >>) /\ \A t : ~Has(<< >>, t)
    BY DEF Once, Has
  <2> QED BY <1>1, <1>2, <1>4, <1>5, <2>1 DEF Tilesets
<1>16. FramesAreSound'
  BY <1>1, <1>2, Zenon DEF FramesAreSound
<1> QED BY <1>9, <1>10, <1>12, <1>13, <1>14, <1>15, <1>16, Zenon DEF LifeInv

\* A tileset is freed, with its texture, and tracked no more.
LEMMA DestroyTilesetKeeps ==
  ASSUME LifeInv, DestroyTileset
  PROVE  LifeInv'
<1>1. /\ LifeTypes /\ InOrder /\ Stages /\ Tilesets /\ GivesBack /\ Nested /\ TriesAll /\ FramesAreSound
  BY Zenon DEF LifeInv
<1>2. /\ todo # << >> /\ todo' = Tail(todo) /\ Head(todo)[1] \in {"destroy", "destroy_builtin"}
      /\ IF Head(todo) = Call("destroy", console.builtin) THEN UNCHANGED <<tiles, held, console>>
         ELSE /\ Destroyed(Arg)
              /\ console' = [console EXCEPT !.tilesets = Untracked(Arg),
                                            !.builtin = IF Arg = @ THEN NoTileset ELSE @]
      /\ UNCHANGED <<platform, app, layer, gfx, lost, tried, last, frame, corrupted>>
  BY DEF DestroyTileset, Is
<1>3. PICK t \in Address, b \in Address \cup {NoTileset} : t = Arg /\ t = Head(todo)[2] /\ b = console.builtin
  <2>1. Head(todo)[2] \in Address
    BY <1>1, <1>2, HeadBears, KindOf
  <2>2. console.builtin \in Address \cup {NoTileset}
    BY <1>1 DEF LifeTypes, ConsoleType
  <2> QED BY <2>1, <2>2 DEF Arg
<1>4. console \in ConsoleType /\ Once(console.tilesets) /\ console.tilesets \in Seq(Address)
  BY <1>1 DEF LifeTypes, ConsoleType, Tilesets
<1>5. NoTileset \notin Address
  BY LifetimeAssumption
<1>h. PICK c \in AnyCall : c = Head(todo) /\ c[1] \in {"destroy", "destroy_builtin"} /\ c[2] = t
  BY <1>1, <1>2, <1>3, HeadBears, Zenon
<1>9. console'.error \in {console.error, "none"} => InOrder' /\ TriesAll' /\ todo' \in Seq(AnyCall)
  BY <1>1, <1>2, PopOrder
<1>11. ~Up /\ (Up' <=> Up)
  BY <1>1, <1>2, PopUp, OnlyRetries DEF StartCall
<1>14. Stages'
  BY <1>11, Zenon DEF Stages, Past
<1>16. FramesAreSound'
  BY <1>1, <1>2, Zenon DEF FramesAreSound
<1>a. CASE Head(todo) = Call("destroy", console.builtin)
  <2>1. UNCHANGED <<tiles, held, console>> /\ c = <<"destroy", b>> /\ c[1] = "destroy" /\ c[2] = b
    BY <1>2, <1>3, <1>a, <1>h DEF Call
  <2>2. Things' = Things
    BY <1>2, <2>1, Zenon DEF Things
  <2>3. \A s \in Things' : s \in Things /\ ~Gives(Head(todo), s, console.builtin)
    BY <1>3, <1>h, <2>1, <2>2, Zenon DEF Gives
  <2>4. InOrder' /\ TriesAll' /\ todo' \in Seq(AnyCall)
    BY <1>9, <2>1, Zenon
  <2>5. LifeTypes'
    BY <1>1, <1>2, <2>1, <2>4 DEF LifeTypes
  <2>6. GivesBack'
    BY <1>1, <1>2, <1>11, <2>1, <2>3, PopGives
  <2>7. Nested' /\ Tilesets'
    BY <1>1, <1>2, <2>1, Zenon DEF Nested, Tilesets
  <2> QED BY <1>14, <1>16, <2>4, <2>5, <2>6, <2>7, Zenon DEF LifeInv
<1>b. CASE Head(todo) # Call("destroy", console.builtin)
  <2>1. /\ Destroyed(t)
        /\ console' = [console EXCEPT !.tilesets = RemoveFirst(console.tilesets, t),
                                      !.builtin = IF t = @ THEN NoTileset ELSE @]
    BY <1>2, <1>3, <1>b, Zenon DEF Untracked
  <2>2. /\ RemoveFirst(console.tilesets, t) \in Seq(Address) /\ Once(RemoveFirst(console.tilesets, t))
        /\ \A x : Has(RemoveFirst(console.tilesets, t), x) <=> x # t /\ Has(console.tilesets, x)
    BY <1>4, RemovedIs
  <2>3. PICK u \in Seq(Address) : u = RemoveFirst(console.tilesets, t)
    BY <2>2, Zenon
  <2>4. /\ console' \in ConsoleType /\ console'.tilesets = u /\ console'.error = console.error
        /\ console'.builtin = IF t = b THEN NoTileset ELSE b
        /\ console'.window = console.window
        /\ console' = [console EXCEPT !.tilesets = u, !.builtin = IF t = b THEN NoTileset ELSE b]
    BY <1>3, <1>4, <2>1, <2>3 DEF ConsoleType
  <2>5. /\ tiles' = [tiles EXCEPT ![t] = 0] /\ held' = held \ {Texture(t)}
    <3>1. gfx = "none" => Texture(t) \notin held
      BY <1>1, Zenon DEF Tilesets
    <3> QED BY <2>1, <3>1 DEF Destroyed
  <2>6. \A x \in Address : tiles'[x] # 0 <=> x # t /\ tiles[x] # 0
    BY <1>1, <2>5 DEF LifeTypes
  <2>7. [console EXCEPT !.error = "none", !.window = FALSE] = NoConsole =>
          [console' EXCEPT !.error = "none", !.window = FALSE] = NoConsole
    <3> SUFFICES ASSUME [console EXCEPT !.error = "none", !.window = FALSE] = NoConsole
                 PROVE  console' = console
      BY Zenon
    <3>1. console.tilesets = NoConsole.tilesets /\ console.builtin = NoConsole.builtin
      BY <1>4 DEF ConsoleType
    <3>2. console.tilesets = << >> /\ b = NoTileset
      BY <1>3, <3>1 DEF NoConsole
    <3>3. ~ \E i \in 1 .. Len(<< >>) : TRUE
      OBVIOUS
    <3>4. u = console.tilesets
      BY <2>3, <3>2, <3>3, Zenon DEF RemoveFirst
    <3>5. t # b
      BY <1>5, <3>2
    <3>6. console' = [console EXCEPT !.tilesets = console.tilesets, !.builtin = console.builtin]
      BY <1>3, <2>4, <3>4, <3>5
    <3> QED BY <1>4, <3>6 DEF ConsoleType
  <2>8. ASSUME NEW s \in Things' PROVE s \in Things /\ s \notin {TilesetAt(t), Texture(t)}
    <3>1. \/ s \in held'
          \/ \E x \in Address : tiles'[x] # 0 /\ s = TilesetAt(x)
          \/ s = TheRenderer /\ gfx # "none"
          \/ s = TheLayer /\ (layer.vt # "none" \/ layer.cache # "none")
          \/ s = TheWindow /\ console.window
          \/ s = TheConsole /\ [console EXCEPT !.error = "none", !.window = FALSE] # NoConsole
      BY <1>2, <2>4, <2>7, Zenon DEF Things
    <3>2. \A x : (TilesetAt(x) = TilesetAt(t) => x = t) /\ TilesetAt(x) # Texture(t)
      BY DEF TilesetAt, Texture
    <3>3. TilesetAt(t) \notin held
      BY <1>1, TheThings DEF LifeTypes
    <3>4. {TheRenderer, TheLayer, TheWindow, TheConsole} \cap {TilesetAt(t), Texture(t)} = {}
      BY TheThings
    <3> QED BY <2>5, <2>6, <3>1, <3>2, <3>3, <3>4, Zenon DEF Things
  <2>9. \A s : Gives(c, s, b) => s \in {TilesetAt(t), Texture(t)}
    BY <1>h, Zenon DEF Gives
  <2>10. \A s \in Things' : s \in Things /\ ~Gives(Head(todo), s, console.builtin)
    BY <1>3, <1>h, <2>8, <2>9, Zenon
  <2>11. ASSUME NEW s, NEW d \in AnyCall, Gives(d, s, console.builtin)
         PROVE  Gives(d, s, console'.builtin)
    <3>1. d[1] = "destroy" => d[2] # NoTileset
      BY <1>5, KindOf
    <3>2. console'.builtin = console.builtin \/ console'.builtin = NoTileset
      BY <1>3, <2>4
    <3> QED BY <2>11, <3>1, <3>2, Zenon DEF Gives
  <2>12. InOrder' /\ TriesAll' /\ todo' \in Seq(AnyCall)
    BY <1>9, <2>4, Zenon
  <2>13. LifeTypes'
    BY <1>1, <1>2, <2>4, <2>5, <2>12, LifetimeAssumption DEF LifeTypes
  <2>14. GivesBack'
    BY <1>1, <1>2, <1>11, <2>10, <2>11, PopGives
  <2>15. Nested'
    <3> SUFFICES ASSUME NEW r \in held', NEW y \in NeededBy(r, layer.vt, gfx) PROVE y \in held'
      BY <1>2, Zenon DEF Nested
    <3>1. y \in held
      BY <1>1, <2>5, Zenon DEF Nested
    <3>2. layer.vt \in Drivers \cup {"none"}
      BY <1>1 DEF LifeTypes, LayerType
    <3>3. y # Texture(t)
      BY <3>2, NothingNeedsTextures
    <3> QED BY <2>5, <3>1, <3>3
  <2>16. Tilesets'
    <3>1. \A x \in Address : Texture(x) \in held' <=> x # t /\ Texture(x) \in held
      BY <2>5 DEF Texture
    <3>2. Once(u) /\ \A x : Has(u, x) <=> x # t /\ Has(console.tilesets, x)
      BY <2>2, <2>3, Zenon
    <3> QED BY <1>1, <1>2, <2>4, <2>6, <3>1, <3>2, Zenon DEF Tilesets
  <2> QED BY <1>14, <1>16, <2>12, <2>13, <2>14, <2>15, <2>16, Zenon DEF LifeInv
<1> QED BY <1>a, <1>b

-----------------------------------------------------------------------------
(* Starting *)

LEMMA FirstBackend ==
  ASSUME LifeInv, todo # << >>, Head(todo)[1] = "backend"
  PROVE  /\ Things = {} /\ Up /\ console.error = "none"
         /\ \A i \in 1 .. Len(Tail(todo)) :
              Tail(todo)[i][1] \in {"window", "renderer", "builtin", "tileset", "root"}
         /\ Head(todo)[2] \in Lists(Drivers)
         /\ \A bs \in BackendOrders : Elements(bs) \subseteq tried \cup Elements(Head(todo)[2])
         /\ todo \in Seq(AnyCall)
<1>1. /\ LifeTypes /\ InOrder /\ Stages /\ Tilesets /\ GivesBack /\ Nested /\ TriesAll /\ FramesAreSound
  BY Zenon DEF LifeInv
<1>2. PICK list \in Seq(AnyCall) : list = todo
  BY <1>1, Zenon DEF LifeTypes
<1>3. /\ Len(list) \in Nat \ {0} /\ Head(list) = list[1] /\ Head(list) \in AnyCall
  BY <1>2, TailIs
<1>4. 1 \in 1 .. Len(list) /\ list[1][1] = "backend"
  BY <1>2, <1>3
<1>5. Followed(list, 1, {"window", "renderer", "builtin", "tileset", "root"})
  BY <1>1, <1>2, <1>4, RestOfStart, Zenon DEF InOrder
<1>6. /\ \A i \in 1 .. Len(Tail(list)) : Tail(list)[i][1] \in {"window", "renderer", "builtin", "tileset", "root"}
      /\ \A a : Alive(list, a)
  BY <1>2, <1>5, RestTail, Zenon
<1>7. Things = {}
  BY <1>1, HeadBears, Zenon DEF Bears
<1>8. Head(todo)[2] \in Lists(Drivers)
  BY <1>2, <1>3, KindOf
<1>9. /\ console.error = "none"
      /\ \A bs \in BackendOrders : Elements(bs) \subseteq tried \cup Elements(list[1][2])
  BY <1>1, <1>2, <1>4, Zenon DEF TriesAll, Tries
<1> QED BY <1>2, <1>3, <1>6, <1>7, <1>8, <1>9, Zenon DEF Up

\* What such calls bear: all that has been taken when they come.
LEMMA LaterBears ==
  ASSUME NEW c, NEW s, NEW vt, NEW r
  PROVE  /\ c[1] \in {"builtin", "tileset", "root", "started", "windowless", "destroy", "destroy_builtin"} =>
              Bears(c, s, vt, r)
         /\ c[1] = "renderer" /\ s \in {TheLayer, TheWindow} \cup SystemRes(vt) \cup WindowRes(vt) =>
              Bears(c, s, vt, r)
         /\ c[1] = "window" /\ s \in {TheLayer} \cup SystemRes(vt) => Bears(c, s, vt, r)
<1>1. c[1] \in {"builtin", "tileset", "root", "started", "windowless", "destroy", "destroy_builtin"} =>
              Bears(c, s, vt, r)
  BY DEF Bears
<1>2. c[1] = "renderer" /\ s \in {TheLayer, TheWindow} \cup SystemRes(vt) \cup WindowRes(vt) =>
              Bears(c, s, vt, r)
  BY DEF Bears
<1>3. c[1] = "window" /\ s \in {TheLayer} \cup SystemRes(vt) => Bears(c, s, vt, r)
  BY DEF Bears
<1> QED BY <1>1, <1>2, <1>3

\* With nothing there to give back, any list will do.
LEMMA NothingToGive ==
  ASSUME NEW list, NEW vt, NEW r, NEW b
  PROVE  Orderly({}, list, vt, r, b)
BY Zenon DEF Orderly

LEMMA NoThings ==
  ASSUME LifeTypes, Things = {}
  PROVE  /\ held = {} /\ gfx = "none" /\ layer.vt = "none" /\ layer.cache = "none" /\ ~console.window
         /\ [console EXCEPT !.error = "none", !.window = FALSE] = NoConsole
         /\ \A t \in Address : tiles[t] = 0
         /\ ~console.initialized /\ ~console.root
         /\ console.builtin = NoTileset /\ console.tilesets = << >> /\ console.font = NoTileset
<1>1. /\ \A s \in held : s \in Things
      /\ \A t \in Address : tiles[t] # 0 => TilesetAt(t) \in Things
      /\ gfx # "none" => TheRenderer \in Things
      /\ layer.vt # "none" \/ layer.cache # "none" => TheLayer \in Things
      /\ console.window => TheWindow \in Things
      /\ [console EXCEPT !.error = "none", !.window = FALSE] # NoConsole => TheConsole \in Things
  BY Zenon DEF Things
<1>2. /\ held = {} /\ gfx = "none" /\ layer.vt = "none" /\ layer.cache = "none"
      /\ \A t \in Address : tiles[t] = 0
  BY <1>1
<1>3. ~console.window /\ [console EXCEPT !.error = "none", !.window = FALSE] = NoConsole
  BY <1>1, Zenon
<1>4. PICK c \in ConsoleType : c = console
  BY Zenon DEF LifeTypes
<1>5. [c EXCEPT !.error = "none", !.window = FALSE] = NoConsole
  BY <1>3, <1>4, Zenon
<1>6. /\ c.initialized = FALSE /\ c.root = FALSE /\ c.builtin = NoTileset /\ c.tilesets = << >>
      /\ c.font = NoTileset
  BY <1>5 DEF ConsoleType, NoConsole
<1> QED BY <1>2, <1>3, <1>4, <1>6, Zenon

\* The whole of LifeInv but for what a step changes.
LEMMA BackendStartsKeeps ==
  ASSUME LifeInv, TryBackend, NEW o \in BackendInit(First), o.ok,
         layer' = [layer EXCEPT !.vt = First], held' = held \cup o.has, todo' = Tail(todo),
         UNCHANGED <<console, lost>>
  PROVE  LifeInv'
<1>1. /\ LifeTypes /\ InOrder /\ Stages /\ Tilesets /\ GivesBack /\ Nested /\ TriesAll /\ FramesAreSound
  BY Zenon DEF LifeInv
<1>2. /\ todo # << >> /\ Head(todo)[1] = "backend" /\ tried' = tried \cup {First}
      /\ UNCHANGED <<platform, app, gfx, tiles, last, frame, corrupted>>
  BY DEF TryBackend, Is
<1>3. /\ Things = {} /\ Up /\ console.error = "none"
      /\ \A i \in 1 .. Len(Tail(todo)) :
           Tail(todo)[i][1] \in {"window", "renderer", "builtin", "tileset", "root"}
      /\ Head(todo)[2] \in Lists(Drivers)
      /\ \A bs \in BackendOrders : Elements(bs) \subseteq tried \cup Elements(Head(todo)[2])
      /\ todo \in Seq(AnyCall)
  BY <1>2, FirstBackend
<1>4. PICK b \in Drivers : b = First
  BY <1>3, Firsts DEF First, Arg
<1>5. Base(b) \in o.has /\ o.has \subseteq SystemRes(b)
  BY <1>4, BackendStarts
<1>6. /\ held = {} /\ gfx = "none" /\ layer.vt = "none" /\ layer.cache = "none" /\ ~console.window
      /\ [console EXCEPT !.error = "none", !.window = FALSE] = NoConsole
      /\ \A t \in Address : tiles[t] = 0
      /\ ~console.initialized
  BY <1>1, <1>3, NoThings
<1>7. layer' \in LayerType /\ layer'.vt = b /\ layer'.cache = "none"
  BY <1>1, <1>4, <1>6 DEF LifeTypes, LayerType
<1>8. held' = o.has /\ SystemRes(b) \subseteq Resource
  BY <1>6, Resources
<1>9. Things' \subseteq {TheLayer} \cup SystemRes(b)
  <2> SUFFICES ASSUME NEW s \in Things' PROVE s \in {TheLayer} \cup SystemRes(b)
    OBVIOUS
  <2>1. \/ s \in held'
        \/ \E t \in Address : tiles[t] # 0 /\ s = TilesetAt(t)
        \/ s = TheRenderer /\ gfx # "none"
        \/ s = TheLayer
        \/ s = TheWindow /\ console.window
        \/ s = TheConsole /\ [console EXCEPT !.error = "none", !.window = FALSE] # NoConsole
    BY <1>2, Zenon DEF Things
  <2> QED BY <1>5, <1>6, <1>8, <2>1, Zenon
<1>10. InOrder' /\ TriesAll' /\ todo' \in Seq(AnyCall)
  BY <1>1, <1>2, <1>3, PopOrder
<1>11. LifeTypes'
  BY <1>1, <1>2, <1>5, <1>7, <1>8, <1>10 DEF LifeTypes
<1>12. /\ Up' <=> Up
       /\ \A what : Past(what)' => Past(what) \/ "backend" = what
  BY <1>1, <1>2, PopUp
<1>13. GivesBack'
  <2>1. ASSUME NEW i \in 1 .. Len(todo'), NEW s \in Things'
        PROVE  Bears(todo'[i], s, layer'.vt, gfx')
    <3>1. todo'[i][1] \in {"window", "renderer", "builtin", "tileset", "root"}
      BY <1>3
    <3>2. s \in {TheLayer} \cup SystemRes(layer'.vt)
      BY <1>7, <1>9
    <3> QED BY <3>1, <3>2, LaterBears
  <2>2. Orderly(Things', todo', layer'.vt, gfx', console'.builtin)
    BY <2>1, Zenon DEF Orderly
  <2> QED BY <1>3, <1>12, <2>2, Zenon DEF GivesBack
<1>14. Nested'
  <2> SUFFICES ASSUME NEW x \in held' PROVE NeededBy(x, b, gfx) \subseteq held'
    BY <1>2, <1>7, Zenon DEF Nested
  <2>1. NeededBy(x, b, gfx) \subseteq {y \in {Base(b)} : x[2] \in {"egl", "globals", "helper"}}
    BY <1>5, <1>8, SystemNeeds
  <2> QED BY <1>5, <1>8, <2>1
<1>15. Stages'
  <2>1. ~Past("window") /\ ~Past("renderer") /\ ~Past("builtin")
    <3>1. /\ Past("window") => console.window
          /\ Past("renderer") => gfx \in Working
          /\ Past("builtin") => console.initialized
      BY <1>1, Zenon DEF Stages
    <3> QED BY <1>6, <3>1, Chars
  <2>2. Retries(todo')
    BY <1>3 DEF Retries, StartCall
  <2> QED BY <1>5, <1>7, <1>8, <1>12, <2>1, <2>2, Zenon DEF Stages
<1>16. Tilesets'
  <2>1. \A t \in Address : Texture(t) \notin held'
    BY <1>5, <1>8, TheThings
  <2> QED BY <1>1, <1>2, <1>6, <2>1 DEF Tilesets
<1>17. FramesAreSound'
  BY <1>1, <1>2, Zenon DEF FramesAreSound
<1> QED BY <1>10, <1>11, <1>13, <1>14, <1>15, <1>16, <1>17, Zenon DEF LifeInv

-----------------------------------------------------------------------------
(* The next candidate, and the end of a start that fails *)

LEMMA NextIs ==
  ASSUME NEW list \in Seq(AnyCall), list # << >>, NEW c \in AnyCall
  PROVE  /\ << c >> \o Tail(list) \in Seq(AnyCall) /\ Len(<< c >> \o Tail(list)) = Len(list)
         /\ Len(list) \in Nat \ {0} /\ 1 \in 1 .. Len(list) /\ (<< c >> \o Tail(list))[1] = c
         /\ \A i \in 2 .. Len(list) : (<< c >> \o Tail(list))[i] = list[i]
         /\ Head(list) = list[1]
<1>1. /\ Tail(list) \in Seq(AnyCall) /\ Len(Tail(list)) = Len(list) - 1 /\ Len(list) \in Nat \ {0}
      /\ \A i \in 1 .. Len(list) - 1 : Tail(list)[i] = list[i + 1]
      /\ Head(list) = list[1]
  BY TailIs
<1>2. PICK rest \in Seq(AnyCall) : rest = Tail(list)
  BY <1>1
<1>3. PICK one \in Seq(AnyCall) : one = << c >> /\ Len(one) = 1 /\ one[1] = c
  BY OneIs, Zenon
<1>4. /\ one \o rest \in Seq(AnyCall) /\ Len(one \o rest) = Len(one) + Len(rest)
      /\ Len(one) \in Nat /\ Len(rest) \in Nat
      /\ \A i \in 1 .. Len(one) : (one \o rest)[i] = one[i]
  BY CatIs
<1>5. \A i \in 1 .. Len(rest) : (one \o rest)[Len(one) + i] = rest[i]
  BY CatGoesOn
<1>6. Len(one \o rest) = Len(list) /\ (one \o rest)[1] = c /\ 1 \in 1 .. Len(list)
  BY <1>1, <1>2, <1>3, <1>4
<1>7. ASSUME NEW i \in 2 .. Len(list) PROVE (one \o rest)[i] = list[i]
  <2>1. i - 1 \in 1 .. Len(rest) /\ i - 1 \in 1 .. Len(list) - 1 /\ Len(one) + (i - 1) = i /\ (i - 1) + 1 = i
    BY <1>1, <1>2, <1>3
  <2>2. (one \o rest)[Len(one) + (i - 1)] = rest[i - 1]
    BY <1>5, <2>1
  <2>3. rest[i - 1] = list[(i - 1) + 1]
    BY <1>1, <1>2, <2>1
  <2> QED BY <2>1, <2>2, <2>3
<1> QED BY <1>1, <1>2, <1>3, <1>4, <1>6, <1>7, Zenon

LEMMA NextKinds ==
  ASSUME NEW list \in Seq(AnyCall), list # << >>, NEW c \in AnyCall, c[1] = Head(list)[1],
         NEW more, more = << c >> \o Tail(list)
  PROVE  /\ Len(list) \in Nat \ {0} /\ Len(more) = Len(list) /\ more # << >>
         /\ \A i \in 1 .. Len(list) : more[i][1] = list[i][1]
<1>1. /\ << c >> \o Tail(list) \in Seq(AnyCall) /\ Len(<< c >> \o Tail(list)) = Len(list)
      /\ Len(list) \in Nat \ {0} /\ 1 \in 1 .. Len(list) /\ (<< c >> \o Tail(list))[1] = c
      /\ \A i \in 2 .. Len(list) : (<< c >> \o Tail(list))[i] = list[i]
      /\ Head(list) = list[1]
  BY NextIs
<1>2. \A i \in 1 .. Len(list) : i = 1 \/ i \in 2 .. Len(list)
  BY <1>1
<1>3. \A i \in 1 .. Len(list) : more[i][1] = list[i][1]
  BY <1>1, <1>2, Zenon
<1>4. more # << >>
  <2>1. Len(<< >>) = 0 /\ Len(more) = Len(list)
    BY <1>1, NoneIs, Zenon
  <2> QED BY <1>1, <2>1
<1> QED BY <1>1, <1>3, <1>4, Zenon

\* It is the same start.
LEMMA NextKeeps ==
  ASSUME NEW list \in Seq(AnyCall), list # << >>, NEW c \in AnyCall, c[1] = Head(list)[1],
         NEW more, more = << c >> \o Tail(list)
  PROVE  /\ Ordered(list) => Ordered(more)
         /\ \A a, b : Alive(more, a) <=> Alive(list, b)
         /\ \A what : Without(more, what) => Without(list, what)
         /\ Head(list)[1] # "release" /\ Retries(list) => Retries(more)
<1>1. /\ Len(list) \in Nat \ {0} /\ Len(more) = Len(list) /\ more # << >>
      /\ \A i \in 1 .. Len(list) : more[i][1] = list[i][1]
  BY NextKinds
<1>2. Len(list) \in 1 .. Len(list) /\ \A i \in 1 .. Len(list) : i < Len(list) => i + 1 \in 1 .. Len(list)
  BY <1>1
<1>3. ASSUME Ordered(list) PROVE Ordered(more)
  <2>1. more[Len(more)][1] = list[Len(list)][1] /\ list # << >>
    BY <1>1, <1>2, Zenon
  <2>2. ASSUME NEW i \in 1 .. Len(more)
        PROVE  /\ more[i][1] = "backend"  => i < Len(more) /\ more[i + 1][1] = "window"
               /\ more[i][1] = "window"   => i < Len(more) /\ more[i + 1][1] = "renderer"
               /\ more[i][1] = "renderer" => i < Len(more) /\ more[i + 1][1] = "builtin"
               /\ more[i][1] = "builtin"  => i < Len(more) /\ more[i + 1][1] \in {"tileset", "root"}
               /\ more[i][1] = "tileset"  => i < Len(more) /\ more[i + 1][1] = "root"
               /\ more[i][1] \in {"root", "failed", "report"} => i = Len(more)
               /\ more[i][1] = "started" => Len(more) = 1
    <3>1. /\ list[i][1] = "backend"  => i < Len(list) /\ list[i + 1][1] = "window"
          /\ list[i][1] = "window"   => i < Len(list) /\ list[i + 1][1] = "renderer"
          /\ list[i][1] = "renderer" => i < Len(list) /\ list[i + 1][1] = "builtin"
          /\ list[i][1] = "builtin"  => i < Len(list) /\ list[i + 1][1] \in {"tileset", "root"}
          /\ list[i][1] = "tileset"  => i < Len(list) /\ list[i + 1][1] = "root"
          /\ list[i][1] \in {"root", "failed", "report"} => i = Len(list)
          /\ list[i][1] = "started" => Len(list) = 1
      BY <1>1, <1>3, Zenon DEF Ordered
    <3>2. i \in 1 .. Len(list) /\ (i < Len(list) => more[i + 1][1] = list[i + 1][1])
      BY <1>1, <1>2
    <3>3. more[i][1] = list[i][1] /\ Len(more) = Len(list)
      BY <1>1
    <3> QED BY <3>1, <3>2, <3>3, Zenon
  <2>3. list[Len(list)][1] \in {"root", "started", "failed", "report", "reset"}
    BY <1>3, <2>1, Zenon DEF Ordered
  <2> QED BY <2>1, <2>2, <2>3, Zenon DEF Ordered
<1>4. \A a, b : Alive(more, a) <=> Alive(list, b)
  BY <1>1, <1>2, Zenon DEF Alive
<1>5. \A what : Without(more, what) => Without(list, what)
  BY <1>1, Zenon DEF Without
<1>6. ASSUME Head(list)[1] # "release", Retries(list) PROVE Retries(more)
  <2>1. /\ Len(list) \in Nat \ {0} /\ 1 \in 1 .. Len(list) /\ (<< c >> \o Tail(list))[1] = c
        /\ \A i \in 2 .. Len(list) : (<< c >> \o Tail(list))[i] = list[i]
        /\ Head(list) = list[1]
    BY NextIs, Zenon
  <2>2. \A i \in 1 .. Len(list) : i = 1 \/ i \in 2 .. Len(list)
    BY <2>1
  <2>3. \A i \in 1 .. Len(list) : list[i][1] = "release" => more[i] = list[i]
    BY <1>6, <2>1, <2>2, Zenon
  <2> QED BY <1>1, <1>6, <2>3, Zenon DEF Retries
<1> QED BY <1>3, <1>4, <1>5, <1>6, Zenon

LEMMA NextTries ==
  ASSUME NEW list \in Seq(AnyCall), NEW c \in AnyCall, NEW more, NEW e, NEW d, NEW d2, NEW e2,
         list # << >>, c[1] = Head(list)[1], more = << c >> \o Tail(list), Tries(list, e, d), d \subseteq d2,
         e2 # "backend", e2 = "renderer" => c[1] = "renderer",
         e2 = "none" \/ \A i \in 1 .. Len(list) : list[i][1] \notin {"backend", "window"},
         c[1] = "backend" => \A bs \in BackendOrders : Elements(bs) \subseteq d2 \cup Elements(c[2]),
         c[1] = "renderer" => Renderers \subseteq d2 \cup Elements(c[2])
  PROVE  Tries(more, e2, d2)
<1>1. /\ Len(list) \in Nat \ {0} /\ Len(more) = Len(list) /\ more # << >>
      /\ \A i \in 1 .. Len(list) : more[i][1] = list[i][1]
  BY NextKinds
<1>2. /\ 1 \in 1 .. Len(list) /\ more[1] = c
      /\ \A i \in 2 .. Len(list) : more[i] = list[i]
  <2>1. /\ << c >> \o Tail(list) \in Seq(AnyCall) /\ Len(<< c >> \o Tail(list)) = Len(list)
        /\ Len(list) \in Nat \ {0} /\ 1 \in 1 .. Len(list) /\ (<< c >> \o Tail(list))[1] = c
        /\ \A i \in 2 .. Len(list) : (<< c >> \o Tail(list))[i] = list[i]
        /\ Head(list) = list[1]
    BY NextIs
  <2> QED BY <2>1, Zenon
<1>3. \A i \in 1 .. Len(list) : i = 1 \/ i \in 2 .. Len(list)
  BY <1>1
<1>4. ASSUME NEW i \in 1 .. Len(list)
      PROVE  /\ more[i][1] \in {"backend", "window"} => e2 = "none"
             /\ more[i][1] = "backend" =>
                  \A bs \in BackendOrders : Elements(bs) \subseteq d2 \cup Elements(more[i][2])
             /\ more[i][1] = "renderer" => Renderers \subseteq d2 \cup Elements(more[i][2])
  <2>1. CASE i = 1
    BY <1>1, <1>2, <2>1
  <2>2. CASE i # 1
    <3>1. more[i] = list[i]
      BY <1>2, <1>3, <2>2
    <3>2. /\ list[i][1] = "backend" =>
               \A bs \in BackendOrders : Elements(bs) \subseteq d \cup Elements(list[i][2])
          /\ list[i][1] = "renderer" => Renderers \subseteq d \cup Elements(list[i][2])
      BY Zenon DEF Tries
    <3> QED BY <1>1, <3>1, <3>2
  <2> QED BY <2>1, <2>2
<1>5. e2 = "renderer" => \E i \in 1 .. Len(more) : more[i][1] = "renderer"
  BY <1>1, <1>2, Zenon
<1> QED BY <1>1, <1>4, <1>5, Zenon DEF Tries

\* The call a start that fails ends with.
LEMMA LastCall ==
  ASSUME NEW what \in {"failed", "report", "reset"}
  PROVE  /\ << Call(what, "") >> \in Seq(AnyCall) /\ << Call(what, "") >> # << >>
         /\ Ordered(<< Call(what, "") >>) /\ Without(<< Call(what, "") >>, "started")
         /\ Len(<< Call(what, "") >>) = 1 /\ << Call(what, "") >>[1][1] = what
         /\ \A a : ~Alive(<< Call(what, "") >>, a)
<1>1. PICK c \in AnyCall : c = Call(what, "") /\ c[1] = what
  <2>1. <<what, "">> \in AnyCall
    BY DEF AnyCall
  <2> QED BY <2>1 DEF Call
<1>2. /\ << c >> \in Seq(AnyCall) /\ Len(<< c >>) = 1 /\ << c >>[1] = c /\ << c >> # << >>
  BY OneIs, Zenon
<1>3. PICK one \in Seq(AnyCall) : one = << c >> /\ Len(one) = 1 /\ one[1] = c /\ one # << >>
  BY <1>2, Zenon
<1>4. \A i \in 1 .. Len(one) : i = Len(one) /\ one[i][1] = what
  <2>1. \A i \in 1 .. Len(one) : i = 1
    BY <1>3
  <2> QED BY <1>1, <1>3, <2>1, Zenon
<1>5. one[Len(one)][1] = what
  BY <1>1, <1>3
<1>6. Ordered(one)
  BY <1>3, <1>4, <1>5 DEF Ordered
<1>7. Without(one, "started")
  BY <1>4 DEF Without
<1>8. \A a : ~Alive(one, a)
  BY <1>3, <1>5 DEF Alive
<1> QED BY <1>1, <1>3, <1>6, <1>7, <1>8, Zenon

LEMMA LastTries ==
  ASSUME NEW what \in {"failed", "report", "reset"}, NEW e, NEW d,
         e = "backend" => \A bs \in BackendOrders : Elements(bs) \subseteq d,
         e = "renderer" => Renderers \subseteq d
  PROVE  Tries(<< Call(what, "") >>, e, d)
<1>1. Len(<< Call(what, "") >>) = 1 /\ << Call(what, "") >>[1][1] = what
  BY LastCall
<1>2. PICK one : one = << Call(what, "") >> /\ Len(one) = 1 /\ one[1][1] = what
  BY <1>1, Zenon
<1>3. \A i \in 1 .. 1 : i = 1
  OBVIOUS
<1>4. \A i \in 1 .. Len(one) : one[i][1] = what
  BY <1>2, <1>3, Zenon
<1>5. what \notin {"backend", "window", "renderer"}
  OBVIOUS
<1>6. Tries(one, e, d)
  BY <1>4, <1>5, Zenon DEF Tries
<1> QED BY <1>2, <1>6, Zenon

LEMMA NextBackendTries ==
  ASSUME NEW list \in Seq(AnyCall), list # << >>, NEW c \in AnyCall, c[1] = Head(list)[1], c[1] = "backend",
         NEW more, more = << c >> \o Tail(list), NEW e, NEW d, NEW d2, Tries(list, e, d), d \subseteq d2,
         NEW e2, e2 = "none", \A bs \in BackendOrders : Elements(bs) \subseteq d2 \cup Elements(c[2])
  PROVE  Tries(more, e2, d2)
<1>1. e2 # "backend" /\ e2 # "renderer" /\ c[1] # "renderer"
  OBVIOUS
<1>2. /\ e2 = "renderer" => c[1] = "renderer"
      /\ e2 = "none" \/ \A i \in 1 .. Len(list) : list[i][1] \notin {"backend", "window"}
      /\ c[1] = "backend" => \A bs \in BackendOrders : Elements(bs) \subseteq d2 \cup Elements(c[2])
      /\ c[1] = "renderer" => Renderers \subseteq d2 \cup Elements(c[2])
  BY <1>1, Zenon
<1> QED BY <1>1, <1>2, NextTries, ZenonT(60)

\* The one before has failed; what it took is in `lost`.
LEMMA BackendFailsKeeps ==
  ASSUME LifeInv, TryBackend, layer' = [layer EXCEPT !.error = "backend"], held' = held,
         IF Others("backend") # << >>
         THEN todo' = Others("backend") /\ UNCHANGED console
         ELSE /\ todo' = << Call("failed", "") >>
              /\ console' = [console EXCEPT !.error = "backend"]
  PROVE  LifeInv'
<1>1. /\ LifeTypes /\ InOrder /\ Stages /\ Tilesets /\ GivesBack /\ Nested /\ TriesAll /\ FramesAreSound
  BY Zenon DEF LifeInv
<1>2. /\ todo # << >> /\ Head(todo)[1] = "backend" /\ tried' = tried \cup {First}
      /\ UNCHANGED <<platform, app, gfx, tiles, last, frame, corrupted>>
  BY DEF TryBackend, Is
<1>3. /\ Things = {} /\ Up /\ console.error = "none"
      /\ \A i \in 1 .. Len(Tail(todo)) :
           Tail(todo)[i][1] \in {"window", "renderer", "builtin", "tileset", "root"}
      /\ Head(todo)[2] \in Lists(Drivers)
      /\ \A bs \in BackendOrders : Elements(bs) \subseteq tried \cup Elements(Head(todo)[2])
      /\ todo \in Seq(AnyCall)
  BY <1>2, FirstBackend
<1>4. PICK a \in Lists(Drivers), list \in Seq(AnyCall), rest \in Seq(AnyCall) :
        a = Head(todo)[2] /\ list = todo /\ rest = Tail(list)
  BY <1>2, <1>3, TailIs, Zenon
<1>5. /\ Head(a) \in Drivers /\ Tail(a) \in Seq(Drivers)
      /\ Elements(a) \subseteq {Head(a)} \cup Elements(Tail(a))
      /\ Tail(a) = << >> => Elements(a) \subseteq {Head(a)}
  BY Firsts
<1>6. /\ held = {} /\ gfx = "none" /\ layer.vt = "none" /\ layer.cache = "none" /\ ~console.window
      /\ [console EXCEPT !.error = "none", !.window = FALSE] = NoConsole
      /\ \A t \in Address : tiles[t] = 0
      /\ ~console.initialized
      /\ console.builtin = NoTileset /\ console.tilesets = << >>
  BY <1>1, <1>3, NoThings
<1>7. layer' \in LayerType /\ layer'.vt = "none" /\ layer'.cache = "none"
  BY <1>1, <1>6 DEF LifeTypes, LayerType
<1>8. First = Head(a) /\ tried' = tried \cup {Head(a)}
  BY <1>2, <1>4 DEF First, Arg
<1>9. /\ console' \in ConsoleType /\ ~console'.window /\ console'.initialized = console.initialized
      /\ console'.tilesets = console.tilesets
      /\ [console' EXCEPT !.error = "none", !.window = FALSE] = NoConsole
      /\ console'.error = console.error \/ console'.error = "backend"
  <2>1. PICK c \in ConsoleType : c = console
    BY <1>1, Zenon DEF LifeTypes
  <2>2. console' = c \/ console' = [c EXCEPT !.error = "backend"]
    BY <2>1, Zenon
  <2>3. c.window = FALSE /\ [c EXCEPT !.error = "none", !.window = FALSE] = NoConsole
    BY <1>6, <2>1 DEF ConsoleType
  <2>4. \A d \in {c, [c EXCEPT !.error = "backend"]} :
          /\ d \in ConsoleType /\ d.window = FALSE /\ d.initialized = c.initialized
          /\ d.tilesets = c.tilesets
          /\ [d EXCEPT !.error = "none", !.window = FALSE] = [c EXCEPT !.error = "none", !.window = FALSE]
          /\ d.error = c.error \/ d.error = "backend"
    BY <2>3 DEF ConsoleType
  <2> QED BY <2>1, <2>2, <2>3, <2>4, Zenon
<1>10. Things' = {}
  BY <1>2, <1>6, <1>7, <1>9, Zenon DEF Things
<1>11. Nested'
  BY <1>6, Zenon DEF Nested
<1>12. Tilesets'
  BY <1>1, <1>2, <1>9, Zenon DEF Tilesets
<1>13. FramesAreSound'
  BY <1>1, <1>2, Zenon DEF FramesAreSound
<1>14. GivesBack'
  <2>1. Orderly({}, todo', layer'.vt, gfx', console'.builtin)
    BY NothingToGive
  <2>2. \A s \in {} : Given(s, todo', Len(todo'), console'.builtin)
    OBVIOUS
  <2> QED BY <1>10, <2>1, <2>2, Zenon DEF GivesBack
<1>15. todo' \in Seq(AnyCall) => LifeTypes'
  BY <1>1, <1>2, <1>7, <1>9 DEF LifeTypes
<1>16. BackendOrders' = BackendOrders /\ Renderers' = Renderers
  BY <1>2, Zenon DEF BackendOrders, Renderers
<1>a. CASE Tail(a) = << >>
  <2>1. todo' = << Call("failed", "") >> /\ console' = [console EXCEPT !.error = "backend"]
    BY <1>4, <1>a, Zenon DEF Others, Arg
  <2>2. /\ << Call("failed", "") >> \in Seq(AnyCall) /\ << Call("failed", "") >> # << >>
        /\ Ordered(<< Call("failed", "") >>) /\ Without(<< Call("failed", "") >>, "started")
        /\ Len(<< Call("failed", "") >>) = 1 /\ << Call("failed", "") >>[1][1] = "failed"
        /\ \A x : ~Alive(<< Call("failed", "") >>, x)
    BY LastCall
  <2>3. InOrder' /\ ~Up'
    BY <2>1, <2>2, Zenon DEF InOrder, Up
  <2>4. Stages'
    BY <2>3, Zenon DEF Stages, Past
  <2>5. console'.error = "backend"
    BY <1>1, <2>1 DEF LifeTypes, ConsoleType
  <2>6. PICK d : d = tried' /\ \A bs \in BackendOrders : Elements(bs) \subseteq d
    <3>1. PICK d0, d : d0 = tried /\ d = tried' /\ d = d0 \cup {Head(a)}
      BY <1>8, Zenon
    <3>2. \A bs \in BackendOrders : Elements(bs) \subseteq d0 \cup Elements(a)
      BY <1>3, <1>4, <3>1, Zenon
    <3>3. \A bs \in BackendOrders : Elements(bs) \subseteq d
      BY <1>5, <1>a, <3>1, <3>2
    <3> QED BY <3>1, <3>3, Zenon
  <2>7. Tries(<< Call("failed", "") >>, "backend", d)
    BY <2>6, LastTries
  <2>8. TriesAll'
    BY <1>16, <2>1, <2>5, <2>6, <2>7, Zenon DEF TriesAll, Tries
  <2>9. LifeTypes'
    BY <1>15, <2>1, <2>2, Zenon
  <2> QED BY <1>11, <1>12, <1>13, <1>14, <2>3, <2>4, <2>8, <2>9, Zenon DEF LifeInv
<1>b. CASE Tail(a) # << >>
  <2>1. PICK c \in AnyCall : c = <<"backend", Tail(a)>> /\ c[1] = "backend" /\ c[2] = Tail(a)
    <3>1. Tail(a) \in Lists(Drivers)
      BY <1>5, <1>b, Zenon DEF Lists
    <3>2. <<"backend", Tail(a)>> \in AnyCall
      BY <3>1, Zenon DEF AnyCall
    <3> QED BY <3>2
  <2>2. Others("backend") = << c >> \o Tail(list) /\ list # << >>
    BY <1>2, <1>4, <1>b, <2>1, Zenon DEF Others, Arg, Call
  <2>3. PICK more \in Seq(AnyCall) : more = << c >> \o Tail(list)
    BY <2>2, NextIs, Zenon
  <2>4. c[1] = Head(list)[1] /\ c[1] = "backend"
    BY <1>2, <1>4, <2>1, Zenon
  <2>5. /\ Ordered(list) => Ordered(more)
        /\ \A x, y : Alive(more, x) <=> Alive(list, y)
        /\ \A what : Without(more, what) => Without(list, what)
        /\ Head(list)[1] # "release" /\ Retries(list) => Retries(more)
    BY <2>2, <2>3, <2>4, NextKeeps
  <2>6. more # << >> /\ 1 \in 1 .. Len(more) /\ more[1] = c
    <3>1. /\ << c >> \o Tail(list) \in Seq(AnyCall) /\ Len(<< c >> \o Tail(list)) = Len(list)
          /\ Len(list) \in Nat \ {0} /\ 1 \in 1 .. Len(list) /\ (<< c >> \o Tail(list))[1] = c
          /\ \A i \in 2 .. Len(list) : (<< c >> \o Tail(list))[i] = list[i]
          /\ Head(list) = list[1]
      BY <2>2, NextIs
    <3>2. Len(list) \in Nat \ {0} /\ Len(more) = Len(list) /\ more # << >>
      BY <2>2, <2>3, <2>4, NextKinds, Zenon
    <3> QED BY <2>3, <3>1, <3>2, Zenon
  <2>7. todo' = more /\ UNCHANGED console
    BY <2>2, <2>3, <2>6, Zenon
  <2>8. InOrder' /\ (Up' <=> Up)
    BY <1>1, <1>4, <2>2, <2>5, <2>6, <2>7, Zenon DEF InOrder, Up
  <2>9. \A what : Past(what)' => Past(what) /\ what # "backend"
    <3>1. ~Without(more, "backend")
      BY <2>1, <2>6, Zenon DEF Without
    <3> QED BY <1>4, <2>5, <2>7, <2>8, <3>1, Zenon DEF Past
  <2>10. Stages'
    <3>1. /\ Past("window") => console.window
          /\ Past("renderer") => gfx \in Working
          /\ Past("builtin") => console.initialized
          /\ Retries(list)
      BY <1>1, <1>3, <1>4, Zenon DEF Stages
    <3>2. ~Past("window")' /\ ~Past("renderer")' /\ ~Past("builtin")' /\ ~Past("backend")'
      BY <1>6, <2>9, <3>1, Chars
    <3>3. Retries(more)
      BY <2>4, <2>5, <3>1, Zenon
    <3> QED BY <2>7, <3>2, <3>3, Zenon DEF Stages
  <2>11. PICK d, d2 : d = tried /\ d2 = tried' /\ d \subseteq d2
    <3>1. PICK d, d2 : d = tried /\ d2 = tried' /\ d2 = d \cup {Head(a)}
      BY <1>8, Zenon
    <3>2. d \subseteq d2
      BY <3>1
    <3> QED BY <3>1, <3>2, Zenon
  <2>12. Tries(list, "none", d)
    BY <1>1, <1>3, <1>4, <2>11, Zenon DEF TriesAll
  <2>13. \A bs \in BackendOrders : Elements(bs) \subseteq d2 \cup Elements(c[2])
    <3>1. \A bs \in BackendOrders : Elements(bs) \subseteq d \cup Elements(a)
      BY <1>3, <1>4, <2>11, Zenon
    <3>2. d2 = d \cup {Head(a)} /\ c[2] = Tail(a)
      BY <1>8, <2>1, <2>11, Zenon
    <3> QED BY <1>5, <3>1, <3>2
  <2>14. Tries(more, "none", d2)
    <3>0. "none" # "backend" /\ "none" # "renderer"
      OBVIOUS
    <3>1. PICK e : e = "none" /\ e # "backend" /\ e # "renderer"
      BY <3>0, Zenon
    <3>3. Tries(list, e, d)
      BY <2>12, <3>1, Zenon
    <3>5. Tries(more, e, d2)
      BY <2>2, <2>3, <2>4, <2>11, <2>13, <3>1, <3>3, NextBackendTries, ZenonT(60)
    <3> QED BY <3>1, <3>5, Zenon
  <2>15. TriesAll'
    BY <1>3, <1>16, <2>7, <2>11, <2>14, Zenon DEF TriesAll, Tries
  <2>16. LifeTypes'
    BY <1>15, <2>7, Zenon
  <2> QED BY <1>11, <1>12, <1>13, <1>14, <2>8, <2>10, <2>15, <2>16, Zenon DEF LifeInv
<1> QED BY <1>a, <1>b

LEMMA TryBackendKeeps ==
  ASSUME LifeInv, TryBackend
  PROVE  LifeInv'
<1>1. PICK o \in BackendInit(First) :
        IF o.ok
        THEN /\ layer' = [layer EXCEPT !.vt = First]
             /\ held' = held \cup o.has
             /\ todo' = Tail(todo)
             /\ UNCHANGED <<console, lost>>
        ELSE /\ lost' = lost \cup o.has
             /\ layer' = [layer EXCEPT !.error = "backend"]
             /\ IF Others("backend") # << >>
                THEN todo' = Others("backend") /\ UNCHANGED console
                ELSE /\ todo' = << Call("failed", "") >>
                     /\ console' = [console EXCEPT !.error = "backend"]
             /\ UNCHANGED held
  BY Zenon DEF TryBackend
<1>2. CASE o.ok
  BY <1>1, <1>2, BackendStartsKeeps, Zenon
<1>3. CASE ~o.ok
  BY <1>1, <1>3, BackendFailsKeeps, Zenon
<1> QED BY <1>2, <1>3

-----------------------------------------------------------------------------
(* Where a start is *)

LEMMA WhatFollows ==
  ASSUME LifeTypes, InOrder, todo # << >>, NEW kinds, Followed(todo, 1, kinds)
  PROVE  /\ Up
         /\ \A i \in 1 .. Len(Tail(todo)) : Tail(todo)[i][1] \in kinds
         /\ \A what : what \notin kinds /\ what # Head(todo)[1] => Past(what)
<1>1. PICK list \in Seq(AnyCall) : list = todo
  BY Zenon DEF LifeTypes
<1>2. /\ \A i \in 1 .. Len(Tail(list)) : Tail(list)[i][1] \in kinds
      /\ \A a : Alive(list, a)
  BY <1>1, RestTail, Zenon
<1>3. Up
  BY <1>1, <1>2, Zenon DEF Up
<1>4. ASSUME NEW what, what \notin kinds, what # Head(todo)[1] PROVE Past(what)
  <2>1. Without(Tail(list), what)
    BY <1>2, <1>4, Zenon DEF Without
  <2>2. Without(list, what)
    BY <1>1, <1>4, <2>1, WithoutTail, Zenon
  <2> QED BY <1>1, <1>3, <2>2, Zenon DEF Past
<1> QED BY <1>1, <1>2, <1>3, <1>4, Zenon

LEMMA StartGoesOn ==
  ASSUME LifeTypes, InOrder, todo # << >>
  PROVE  /\ Head(todo)[1] = "root" => Followed(todo, 1, {})
         /\ Head(todo)[1] = "tileset" => Followed(todo, 1, {"root"})
         /\ Head(todo)[1] = "builtin" => Followed(todo, 1, {"tileset", "root"})
         /\ Head(todo)[1] = "renderer" => Followed(todo, 1, {"builtin", "tileset", "root"})
         /\ Head(todo)[1] = "window" => Followed(todo, 1, {"renderer", "builtin", "tileset", "root"})
<1>1. PICK list \in Seq(AnyCall) : list = todo
  BY Zenon DEF LifeTypes
<1>2. Len(list) \in Nat \ {0} /\ Head(list) = list[1]
  BY <1>1, TailIs
<1>3. 1 \in 1 .. Len(list)
  BY <1>2
<1>4. Ordered(list)
  BY <1>1, Zenon DEF InOrder
<1>5. /\ list[1][1] = "root" => Followed(list, 1, {})
      /\ list[1][1] = "tileset" => Followed(list, 1, {"root"})
      /\ list[1][1] = "builtin" => Followed(list, 1, {"tileset", "root"})
      /\ list[1][1] = "renderer" => Followed(list, 1, {"builtin", "tileset", "root"})
      /\ list[1][1] = "window" => Followed(list, 1, {"renderer", "builtin", "tileset", "root"})
  BY <1>3, <1>4, RestOfStart, Zenon
<1> QED BY <1>1, <1>2, <1>5, Zenon

LEMMA NothingOnTheConsole ==
  ASSUME LifeTypes, TheConsole \notin Things
  PROVE  /\ [console EXCEPT !.error = "none", !.window = FALSE] = NoConsole
         /\ ~console.initialized /\ ~console.root
         /\ console.builtin = NoTileset /\ console.tilesets = << >> /\ console.font = NoTileset
<1>1. [console EXCEPT !.error = "none", !.window = FALSE] # NoConsole => TheConsole \in Things
  BY Zenon DEF Things
<1>4. PICK c \in ConsoleType : c = console
  BY Zenon DEF LifeTypes
<1>5. [c EXCEPT !.error = "none", !.window = FALSE] = NoConsole
  BY <1>1, <1>4, Zenon
<1>6. /\ c.initialized = FALSE /\ c.root = FALSE /\ c.builtin = NoTileset /\ c.tilesets = << >>
      /\ c.font = NoTileset
  BY <1>5 DEF ConsoleType, NoConsole
<1> QED BY <1>4, <1>5, <1>6, Zenon

LEMMA AtWindow ==
  ASSUME LifeInv, todo # << >>, Head(todo)[1] = "window"
  PROVE  /\ Up /\ console.error = "none" /\ layer.vt \in Drivers /\ Base(layer.vt) \in held
         /\ Things \subseteq {TheLayer} \cup SystemRes(layer.vt) /\ held \subseteq SystemRes(layer.vt)
         /\ gfx = "none" /\ ~console.window /\ ~console.initialized
         /\ console.builtin = NoTileset /\ console.tilesets = << >>
         /\ [console EXCEPT !.error = "none", !.window = FALSE] = NoConsole
         /\ \A t \in Address : tiles[t] = 0
         /\ \A i \in 1 .. Len(Tail(todo)) : Tail(todo)[i][1] \in {"renderer", "builtin", "tileset", "root"}
         /\ todo \in Seq(AnyCall)
<1>1. /\ LifeTypes /\ InOrder /\ Stages /\ Tilesets /\ GivesBack /\ Nested /\ TriesAll /\ FramesAreSound
  BY Zenon DEF LifeInv
<1>2. PICK list \in Seq(AnyCall) : list = todo
  BY <1>1, Zenon DEF LifeTypes
<1>3. Followed(todo, 1, {"renderer", "builtin", "tileset", "root"})
  BY <1>1, StartGoesOn, Zenon
<1>4. /\ Up
      /\ \A i \in 1 .. Len(Tail(todo)) : Tail(todo)[i][1] \in {"renderer", "builtin", "tileset", "root"}
      /\ \A what : what \notin {"renderer", "builtin", "tileset", "root"} /\ what # Head(todo)[1] => Past(what)
  BY <1>1, <1>3, WhatFollows
<1>5. Past("backend")
  BY <1>4
<1>6. layer.vt \in Drivers /\ Base(layer.vt) \in held
  BY <1>1, <1>5, Zenon DEF Stages
<1>7. \A s \in Things : s \in {TheLayer} \cup SystemRes(layer.vt)
  BY <1>1, HeadBears, Zenon DEF Bears
<1>8. \A s \in SystemRes(layer.vt) : s[1] \in Owner
  BY <1>6, Resources, TheThings
<1>9. /\ TheRenderer \notin Things /\ TheWindow \notin Things /\ TheConsole \notin Things
      /\ \A t : TilesetAt(t) \notin Things
  BY <1>7, <1>8, TheThings
<1>10. /\ gfx # "none" => TheRenderer \in Things
       /\ console.window => TheWindow \in Things
       /\ \A t \in Address : tiles[t] # 0 => TilesetAt(t) \in Things
       /\ \A s \in held : s \in Things
  BY Zenon DEF Things
<1>11. held \subseteq SystemRes(layer.vt)
  <2>1. TheLayer \notin held
    BY <1>1, TheThings DEF LifeTypes
  <2> QED BY <1>7, <1>10, <2>1
<1>12. /\ [console EXCEPT !.error = "none", !.window = FALSE] = NoConsole
       /\ ~console.initialized /\ ~console.root
       /\ console.builtin = NoTileset /\ console.tilesets = << >> /\ console.font = NoTileset
  BY <1>1, <1>9, NothingOnTheConsole
<1>13. console.error = "none"
  <2>1. Len(list) \in Nat \ {0} /\ Head(list) = list[1]
    BY <1>2, TailIs
  <2>2. 1 \in 1 .. Len(list)
    BY <2>1
  <2> QED BY <1>1, <1>2, <2>1, <2>2, Zenon DEF TriesAll, Tries
<1>14. Things \subseteq {TheLayer} \cup SystemRes(layer.vt)
  BY <1>7
<1> QED BY <1>2, <1>4, <1>6, <1>9, <1>10, <1>11, <1>12, <1>13, <1>14, Zenon

\* The fields of nack_console_state that calls change.
LEMMA ConsoleFields ==
  ASSUME NEW c \in ConsoleType
  PROVE  /\ \A e \in {"none", "backend", "blank", "renderer", "tileset", "memory"} :
              /\ [c EXCEPT !.error = e] \in ConsoleType /\ [c EXCEPT !.error = e].error = e
              /\ [c EXCEPT !.error = e].window = c.window
              /\ [c EXCEPT !.error = e].initialized = c.initialized
              /\ [c EXCEPT !.error = e].builtin = c.builtin
              /\ [c EXCEPT !.error = e].tilesets = c.tilesets
              /\ [[c EXCEPT !.error = e] EXCEPT !.error = "none", !.window = FALSE] =
                   [c EXCEPT !.error = "none", !.window = FALSE]
         /\ \A w \in BOOLEAN :
              /\ [c EXCEPT !.window = w] \in ConsoleType /\ [c EXCEPT !.window = w].error = c.error
              /\ [c EXCEPT !.window = w].window = w
              /\ [c EXCEPT !.window = w].initialized = c.initialized
              /\ [c EXCEPT !.window = w].builtin = c.builtin
              /\ [c EXCEPT !.window = w].tilesets = c.tilesets
              /\ [[c EXCEPT !.window = w] EXCEPT !.error = "none", !.window = FALSE] =
                   [c EXCEPT !.error = "none", !.window = FALSE]
<1>1. ASSUME NEW e \in {"none", "backend", "blank", "renderer", "tileset", "memory"}
      PROVE   /\ [c EXCEPT !.error = e] \in ConsoleType /\ [c EXCEPT !.error = e].error = e
              /\ [c EXCEPT !.error = e].window = c.window
              /\ [c EXCEPT !.error = e].initialized = c.initialized
              /\ [c EXCEPT !.error = e].builtin = c.builtin
              /\ [c EXCEPT !.error = e].tilesets = c.tilesets
              /\ [[c EXCEPT !.error = e] EXCEPT !.error = "none", !.window = FALSE] =
                   [c EXCEPT !.error = "none", !.window = FALSE]
  BY DEF ConsoleType
<1>2. ASSUME NEW w \in BOOLEAN
      PROVE   /\ [c EXCEPT !.window = w] \in ConsoleType /\ [c EXCEPT !.window = w].error = c.error
              /\ [c EXCEPT !.window = w].window = w
              /\ [c EXCEPT !.window = w].initialized = c.initialized
              /\ [c EXCEPT !.window = w].builtin = c.builtin
              /\ [c EXCEPT !.window = w].tilesets = c.tilesets
              /\ [[c EXCEPT !.window = w] EXCEPT !.error = "none", !.window = FALSE] =
                   [c EXCEPT !.error = "none", !.window = FALSE]
  BY DEF ConsoleType
<1> QED BY <1>1, <1>2, Zenon

-----------------------------------------------------------------------------
(* The window *)

\* A start that fails, and a shutdown: what there is, is given back; then comes
\* the last call.
LEMMA EndsWith ==
  ASSUME NEW x, Giving(x), NEW what \in {"failed", "report", "reset"},
         NEW list, list = x \o << Call(what, "") >>
  PROVE  /\ list \in Seq(AnyCall) /\ list # << >> /\ Ordered(list)
         /\ \A a : ~Alive(list, a)
         /\ \A e, d : /\ e = "backend" => \A bs \in BackendOrders : Elements(bs) \subseteq d
                      /\ e = "renderer" => Renderers \subseteq d
                      => Tries(list, e, d)
<1>1. x \in Seq(AnyCall) /\ \A i \in 1 .. Len(x) : x[i][1] \in GiveCall
  BY Zenon DEF Giving
<1>2. /\ << Call(what, "") >> \in Seq(AnyCall) /\ << Call(what, "") >> # << >>
      /\ Ordered(<< Call(what, "") >>) /\ Without(<< Call(what, "") >>, "started")
      /\ Len(<< Call(what, "") >>) = 1 /\ << Call(what, "") >>[1][1] = what
      /\ \A a : ~Alive(<< Call(what, "") >>, a)
  BY LastCall
<1>3. PICK y \in Seq(AnyCall) :
        /\ y = << Call(what, "") >> /\ y # << >> /\ Ordered(y) /\ Without(y, "started")
        /\ \A a : ~Alive(y, a)
  BY <1>2, Zenon
<1>4. x \o y \in Seq(AnyCall)
  BY <1>1, CatIs
<1>5. Ordered(x \o y) /\ x \o y # << >>
  BY <1>1, <1>3, OrderedBehind
<1>6. \A a : ~Alive(x \o y, a)
  BY <1>1, <1>3, AliveBehind, Zenon
<1>7. ASSUME NEW e, NEW d, e = "backend" => \A bs \in BackendOrders : Elements(bs) \subseteq d,
             e = "renderer" => Renderers \subseteq d
      PROVE  Tries(x \o y, e, d)
  <2>1. Tries(<< Call(what, "") >>, e, d)
    BY <1>7, LastTries, Zenon
  <2>2. Tries(y, e, d)
    BY <1>3, <2>1, Zenon
  <2> QED BY <1>1, <2>2, TriesBehind, Zenon
<1>8. list = x \o y
  BY <1>3, Zenon
<1> QED BY <1>4, <1>5, <1>6, <1>7, <1>8, Zenon

LEMMA ShedsEnd ==
  ASSUME NEW S, NEW x, NEW vt, NEW r, NEW b, Sheds(S, x, {}, vt, r, b), NEW what \in {"failed", "report"}
  PROVE  Sheds(S, x \o << Call(what, "") >>, {}, vt, r, b)
<1>1. << Call(what, "") >> \in Seq(AnyCall)
  BY LastCall
<1>2. Orderly({}, << Call(what, "") >>, vt, r, b)
  BY NothingToGive
<1>3. Sheds({}, << Call(what, "") >>, {}, vt, r, b)
  BY <1>1, <1>2, Zenon DEF Sheds
<1> QED BY <1>3, ShedsThen, Zenon

\* A list that gives everything back in order is what the invariant asks for.
LEMMA ShedsGives ==
  ASSUME Sheds(Things, todo, {}, layer.vt, gfx, console.builtin)
  PROVE  GivesBack
<1>1. \A s \in Things : Given(s, todo, Len(todo), console.builtin)
  BY Zenon DEF Sheds
<1>2. Orderly(Things, todo, layer.vt, gfx, console.builtin)
  BY Zenon DEF Sheds
<1> QED BY <1>1, <1>2, Zenon DEF GivesBack

LEMMA WindowStartsKeeps ==
  ASSUME LifeInv, CreateWindow, NEW o \in WindowCreate(layer.vt), o.ok,
         held' = held \cup o.has, console' = [console EXCEPT !.window = TRUE],
         todo' = Tail(todo), UNCHANGED layer
  PROVE  LifeInv'
<1>1. /\ LifeTypes /\ InOrder /\ Stages /\ Tilesets /\ GivesBack /\ Nested /\ TriesAll /\ FramesAreSound
  BY Zenon DEF LifeInv
<1>2. /\ todo # << >> /\ Head(todo)[1] = "window"
      /\ UNCHANGED <<platform, app, gfx, tiles, tried, last, frame, corrupted>>
  BY DEF CreateWindow, Is
<1>3. /\ Up /\ console.error = "none" /\ layer.vt \in Drivers /\ Base(layer.vt) \in held
      /\ Things \subseteq {TheLayer} \cup SystemRes(layer.vt) /\ held \subseteq SystemRes(layer.vt)
      /\ gfx = "none" /\ ~console.window /\ ~console.initialized
      /\ console.builtin = NoTileset /\ console.tilesets = << >>
      /\ [console EXCEPT !.error = "none", !.window = FALSE] = NoConsole
      /\ \A t \in Address : tiles[t] = 0
      /\ \A i \in 1 .. Len(Tail(todo)) : Tail(todo)[i][1] \in {"renderer", "builtin", "tileset", "root"}
      /\ todo \in Seq(AnyCall)
  BY <1>2, AtWindow
<1>4. PICK vt \in Drivers, c \in ConsoleType : vt = layer.vt /\ c = console
  BY <1>1, <1>3, Zenon DEF LifeTypes
<1>5. <<vt, "window">> \in o.has /\ o.has \subseteq {<<vt, "window">>, <<vt, "egl_window">>}
  BY <1>4, WindowStarts, Zenon
<1>6. o.has \subseteq WindowRes(vt) /\ WindowRes(vt) \subseteq Resource
  <2>1. {<<vt, "window">>, <<vt, "egl_window">>} \subseteq WindowRes(vt)
    BY DEF WindowRes, Of, WindowNames
  <2> QED BY <1>5, <2>1, Resources
<1>7. /\ console' \in ConsoleType /\ console'.error = "none" /\ console'.window = TRUE
      /\ console'.initialized = console.initialized /\ console'.builtin = console.builtin
      /\ console'.tilesets = console.tilesets
      /\ [console' EXCEPT !.error = "none", !.window = FALSE] = NoConsole
  <2>1. console' = [c EXCEPT !.window = TRUE] /\ c.error = "none"
        /\ [c EXCEPT !.error = "none", !.window = FALSE] = NoConsole
    BY <1>3, <1>4, Zenon
  <2>2. /\ [c EXCEPT !.window = TRUE] \in ConsoleType /\ [c EXCEPT !.window = TRUE].error = c.error
        /\ [c EXCEPT !.window = TRUE].window = TRUE
        /\ [c EXCEPT !.window = TRUE].initialized = c.initialized
        /\ [c EXCEPT !.window = TRUE].builtin = c.builtin
        /\ [c EXCEPT !.window = TRUE].tilesets = c.tilesets
        /\ [[c EXCEPT !.window = TRUE] EXCEPT !.error = "none", !.window = FALSE] =
             [c EXCEPT !.error = "none", !.window = FALSE]
    BY ConsoleFields
  <2> QED BY <1>4, <2>1, <2>2, Zenon
<1>8. ASSUME NEW s \in Things' PROVE s \in {TheLayer, TheWindow} \cup SystemRes(vt) \cup WindowRes(vt)
  <2>1. \/ s \in held'
        \/ \E t \in Address : tiles[t] # 0 /\ s = TilesetAt(t)
        \/ s = TheRenderer /\ gfx # "none"
        \/ s = TheLayer
        \/ s = TheWindow
        \/ s = TheConsole /\ [console' EXCEPT !.error = "none", !.window = FALSE] # NoConsole
    BY <1>2, Zenon DEF Things
  <2>2. held' \subseteq SystemRes(vt) \cup WindowRes(vt)
    BY <1>3, <1>4, <1>6
  <2>3. \/ s \in held' \/ s = TheLayer \/ s = TheWindow
    BY <1>3, <1>7, <2>1, Zenon
  <2> QED BY <2>2, <2>3
<1>9. InOrder' /\ TriesAll' /\ todo' \in Seq(AnyCall)
  BY <1>1, <1>2, <1>3, <1>7, PopOrder
<1>10. LifeTypes'
  <2>1. held' \subseteq Resource \cup {Texture(t) : t \in Address}
    BY <1>1, <1>6 DEF LifeTypes
  <2> QED BY <1>1, <1>2, <1>7, <1>9, <2>1 DEF LifeTypes
<1>11. /\ Up' <=> Up
       /\ \A what : Past(what)' => Past(what) \/ "window" = what
  BY <1>1, <1>2, PopUp
<1>12. GivesBack'
  <2>1. ASSUME NEW i \in 1 .. Len(todo'), NEW s \in Things'
        PROVE  Bears(todo'[i], s, layer'.vt, gfx')
    <3>1. todo'[i][1] \in {"renderer", "builtin", "tileset", "root"}
      BY <1>3
    <3>2. s \in {TheLayer, TheWindow} \cup SystemRes(layer'.vt) \cup WindowRes(layer'.vt)
      BY <1>4, <1>8
    <3> QED BY <3>1, <3>2, LaterBears
  <2>2. Orderly(Things', todo', layer'.vt, gfx', console'.builtin)
    BY <2>1, Zenon DEF Orderly
  <2> QED BY <1>3, <1>11, <2>2, Zenon DEF GivesBack
<1>13. Nested'
  <2> SUFFICES ASSUME NEW x \in held' PROVE NeededBy(x, vt, gfx) \subseteq held'
    BY <1>2, <1>4, Zenon DEF Nested
  <2>1. CASE x \in held
    BY <1>1, <1>4, <2>1 DEF Nested
  <2>2. CASE x \notin held
    <3>1. x = <<vt, "window">> \/ x = <<vt, "egl_window">>
      BY <1>5, <2>2
    <3>2. NeededBy(x, vt, gfx) = {Base(vt)}
      BY <3>1, WindowNeeds, Zenon
    <3> QED BY <1>3, <1>4, <3>2
  <2> QED BY <2>1, <2>2
<1>14. Stages'
  <2>1. ~Past("renderer") /\ ~Past("builtin")
    <3>1. /\ Past("renderer") => gfx \in Working
          /\ Past("builtin") => console.initialized
      BY <1>1, Zenon DEF Stages
    <3> QED BY <1>3, <3>1, Chars
  <2>2. Retries(todo')
    <3>1. \A i \in 1 .. Len(todo') : todo'[i][1] \in {"renderer", "builtin", "tileset", "root"}
      BY <1>3, Zenon
    <3> QED BY <3>1 DEF Retries, StartCall
  <2>3. layer'.vt \in Drivers /\ Base(layer'.vt) \in held' /\ <<layer'.vt, "window">> \in held'
    BY <1>3, <1>4, <1>5
  <2>4. "renderer" # "window" /\ "builtin" # "window"
    OBVIOUS
  <2>5. ~Past("renderer")' /\ ~Past("builtin")'
    BY <1>11, <2>1, <2>4, Zenon
  <2> QED BY <1>7, <2>2, <2>3, <2>5, Zenon DEF Stages
<1>15. Tilesets'
  <2>1. \A t \in Address : Texture(t) \notin held'
    <3>1. \A y \in held' : y \in Resource
      <4>1. SystemRes(vt) \subseteq Resource
        BY Resources
      <4> QED BY <1>3, <1>4, <1>6, <4>1
    <3> QED BY <3>1, TheThings
  <2> QED BY <1>1, <1>2, <1>3, <1>7, <2>1 DEF Tilesets
<1>16. FramesAreSound'
  BY <1>1, <1>2, Zenon DEF FramesAreSound
<1> QED BY <1>9, <1>10, <1>12, <1>13, <1>14, <1>15, <1>16, Zenon DEF LifeInv

\* Nothing but the window layer has to be given back.
LEMMA WindowFailsKeeps ==
  ASSUME LifeInv, CreateWindow, layer' = [layer EXCEPT !.error = "window"],
         todo' = WinShutdown \o << Call("report", "") >>, UNCHANGED <<held, console>>
  PROVE  LifeInv'
<1>1. /\ LifeTypes /\ InOrder /\ Stages /\ Tilesets /\ GivesBack /\ Nested /\ TriesAll /\ FramesAreSound
  BY Zenon DEF LifeInv
<1>2. /\ todo # << >> /\ Head(todo)[1] = "window"
      /\ UNCHANGED <<platform, app, gfx, tiles, tried, last, frame, corrupted>>
  BY DEF CreateWindow, Is
<1>3. /\ Up /\ console.error = "none" /\ layer.vt \in Drivers /\ Base(layer.vt) \in held
      /\ Things \subseteq {TheLayer} \cup SystemRes(layer.vt) /\ held \subseteq SystemRes(layer.vt)
      /\ gfx = "none" /\ ~console.window /\ ~console.initialized
      /\ console.builtin = NoTileset /\ console.tilesets = << >>
      /\ [console EXCEPT !.error = "none", !.window = FALSE] = NoConsole
      /\ \A t \in Address : tiles[t] = 0
      /\ \A i \in 1 .. Len(Tail(todo)) : Tail(todo)[i][1] \in {"renderer", "builtin", "tileset", "root"}
      /\ todo \in Seq(AnyCall)
  BY <1>2, AtWindow
<1>4. layer' \in LayerType /\ layer'.vt = layer.vt /\ layer'.cache = layer.cache
  BY <1>1 DEF LifeTypes, LayerType
<1>5. Things' = Things
  BY <1>2, <1>4, Zenon DEF Things
<1>6. PICK S, vt, r, b, x, last2 :
        /\ S = Things /\ vt = layer.vt /\ r = gfx /\ b = console.builtin
        /\ x = WinShutdown /\ last2 = x \o << Call("report", "") >>
  BY Zenon
<1>7. Giving(x)
  BY <1>3, <1>6, GivingWindow, Zenon
<1>8. Sheds(S, x, {}, vt, r, b)
  <2>1. \A s \in S : /\ s \in {TheLayer, TheWindow, TheConsole} \cup SystemRes(layer.vt)
                     /\ s \in {} \/ s \in {TheLayer} \cup SystemRes(layer.vt)
    BY <1>3, <1>6
  <2>2. Sheds(S, WinShutdown, {}, layer.vt, r, b)
    BY <1>3, <2>1, ShedsLayer
  <2> QED BY <1>6, <2>2, Zenon
<1>9. Sheds(S, last2, {}, vt, r, b)
  BY <1>6, <1>8, ShedsEnd, Zenon
<1>10. GivesBack'
  <2>1. Sheds(Things', todo', {}, layer'.vt, gfx', console'.builtin)
    BY <1>2, <1>4, <1>5, <1>6, <1>9, Zenon
  <2>2. \A s \in Things' : Given(s, todo', Len(todo'), console'.builtin)
    BY <2>1, Zenon DEF Sheds
  <2>3. Orderly(Things', todo', layer'.vt, gfx', console'.builtin)
    BY <2>1, Zenon DEF Sheds
  <2> QED BY <2>2, <2>3, Zenon DEF GivesBack
<1>11. /\ last2 \in Seq(AnyCall) /\ last2 # << >> /\ Ordered(last2)
       /\ \A a : ~Alive(last2, a)
       /\ \A e, d : /\ e = "backend" => \A bs \in BackendOrders : Elements(bs) \subseteq d
                    /\ e = "renderer" => Renderers \subseteq d
                    => Tries(last2, e, d)
  BY <1>6, <1>7, EndsWith
<1>12. InOrder' /\ ~Up' /\ todo' \in Seq(AnyCall)
  BY <1>6, <1>11, Zenon DEF InOrder, Up
<1>13. TriesAll'
  <2>1. BackendOrders' = BackendOrders /\ Renderers' = Renderers
    BY <1>2, Zenon DEF BackendOrders, Renderers
  <2>2. "none" # "backend" /\ "none" # "renderer"
    OBVIOUS
  <2>3. Tries(todo', console'.error, tried')
    BY <1>2, <1>3, <1>6, <1>11, <2>2, Zenon
  <2> QED BY <2>1, <2>3, Zenon DEF TriesAll, Tries
<1>14. LifeTypes'
  BY <1>1, <1>2, <1>4, <1>12 DEF LifeTypes
<1>15. Stages'
  BY <1>12, Zenon DEF Stages, Past
<1>16. Nested' /\ Tilesets' /\ FramesAreSound'
  BY <1>1, <1>2, <1>4, Zenon DEF Nested, Tilesets, FramesAreSound
<1> QED BY <1>10, <1>12, <1>13, <1>14, <1>15, <1>16, Zenon DEF LifeInv

LEMMA CreateWindowKeeps ==
  ASSUME LifeInv, CreateWindow
  PROVE  LifeInv'
<1>1. PICK o \in WindowCreate(layer.vt) :
        IF o.ok
        THEN /\ held' = held \cup o.has
             /\ console' = [console EXCEPT !.window = TRUE]
             /\ todo' = Tail(todo)
             /\ UNCHANGED layer
        ELSE /\ layer' = [layer EXCEPT !.error = "window"]
             /\ todo' = WinShutdown \o << Call("report", "") >>
             /\ UNCHANGED <<held, console>>
  BY Zenon DEF CreateWindow
<1>2. CASE o.ok
  BY <1>1, <1>2, WindowStartsKeeps, Zenon
<1>3. CASE ~o.ok
  BY <1>1, <1>3, WindowFailsKeeps, Zenon
<1> QED BY <1>2, <1>3

-----------------------------------------------------------------------------
(* The message, and the renderer *)

LEMMA ReportKeeps ==
  ASSUME LifeInv, Report
  PROVE  LifeInv'
<1>1. /\ LifeTypes /\ InOrder /\ Stages /\ Tilesets /\ GivesBack /\ Nested /\ TriesAll /\ FramesAreSound
  BY Zenon DEF LifeInv
<1>2. /\ todo # << >> /\ Head(todo)[1] = "report" /\ todo' = << Call("failed", "") >>
      /\ console' = [console EXCEPT !.error = "blank"]
      /\ UNCHANGED <<platform, app, layer, gfx, tiles, held, lost, tried, last, frame, corrupted>>
  BY DEF Report, Is
<1>3. Things = {}
  BY <1>1, <1>2, HeadBears, Zenon DEF Bears
<1>4. PICK c \in ConsoleType : c = console
  BY <1>1, Zenon DEF LifeTypes
<1>5. /\ console' \in ConsoleType /\ console'.error = "blank" /\ console'.window = console.window
      /\ console'.tilesets = console.tilesets
      /\ [console' EXCEPT !.error = "none", !.window = FALSE] =
           [console EXCEPT !.error = "none", !.window = FALSE]
  <2>1. /\ [c EXCEPT !.error = "blank"] \in ConsoleType /\ [c EXCEPT !.error = "blank"].error = "blank"
        /\ [c EXCEPT !.error = "blank"].window = c.window
        /\ [c EXCEPT !.error = "blank"].tilesets = c.tilesets
        /\ [[c EXCEPT !.error = "blank"] EXCEPT !.error = "none", !.window = FALSE] =
             [c EXCEPT !.error = "none", !.window = FALSE]
    BY ConsoleFields
  <2> QED BY <1>2, <1>4, <2>1, Zenon
<1>6. Things' = {}
  BY <1>2, <1>3, <1>5, Zenon DEF Things
<1>7. /\ << Call("failed", "") >> \in Seq(AnyCall) /\ << Call("failed", "") >> # << >>
      /\ Ordered(<< Call("failed", "") >>) /\ Without(<< Call("failed", "") >>, "started")
      /\ Len(<< Call("failed", "") >>) = 1 /\ << Call("failed", "") >>[1][1] = "failed"
      /\ \A x : ~Alive(<< Call("failed", "") >>, x)
  BY LastCall
<1>8. InOrder' /\ ~Up'
  BY <1>2, <1>7, Zenon DEF InOrder, Up
<1>9. Stages'
  BY <1>8, Zenon DEF Stages, Past
<1>10. TriesAll'
  <2>1. BackendOrders' = BackendOrders /\ Renderers' = Renderers
    BY <1>2, Zenon DEF BackendOrders, Renderers
  <2>2. PICK e, d : e = console'.error /\ d = tried' /\ e # "backend" /\ e # "renderer"
    BY <1>5
  <2>3. Tries(<< Call("failed", "") >>, e, d)
    BY <2>2, LastTries
  <2> QED BY <1>2, <2>1, <2>2, <2>3, Zenon DEF TriesAll, Tries
<1>11. LifeTypes'
  <2>1. todo' \in Seq(AnyCall)
    BY <1>2, <1>7, Zenon
  <2> QED BY <1>1, <1>2, <1>5, <2>1 DEF LifeTypes
<1>12. GivesBack'
  <2>1. Orderly({}, todo', layer'.vt, gfx', console'.builtin)
    BY NothingToGive
  <2>2. \A s \in {} : Given(s, todo', Len(todo'), console'.builtin)
    OBVIOUS
  <2> QED BY <1>6, <2>1, <2>2, Zenon DEF GivesBack
<1>13. Nested' /\ Tilesets' /\ FramesAreSound'
  BY <1>1, <1>2, <1>5, Zenon DEF Nested, Tilesets, FramesAreSound
<1> QED BY <1>8, <1>9, <1>10, <1>11, <1>12, <1>13, Zenon DEF LifeInv

Reasons == {"none", "backend", "blank", "renderer", "tileset", "memory"}

LEMMA ErrorField ==
  ASSUME NEW c \in ConsoleType, NEW e \in Reasons
  PROVE  /\ [c EXCEPT !.error = e] \in ConsoleType /\ [c EXCEPT !.error = e].error = e
         /\ [c EXCEPT !.error = e].window = c.window
         /\ [c EXCEPT !.error = e].initialized = c.initialized
         /\ [c EXCEPT !.error = e].builtin = c.builtin
         /\ [c EXCEPT !.error = e].tilesets = c.tilesets
         /\ [[c EXCEPT !.error = e] EXCEPT !.error = "none", !.window = FALSE] =
              [c EXCEPT !.error = "none", !.window = FALSE]
BY DEF ConsoleType, Reasons

LEMMA AtRenderer ==
  ASSUME LifeInv, todo # << >>, Head(todo)[1] = "renderer"
  PROVE  /\ Up /\ layer.vt \in Drivers /\ Base(layer.vt) \in held /\ <<layer.vt, "window">> \in held
         /\ Things \subseteq {TheLayer, TheWindow} \cup SystemRes(layer.vt) \cup WindowRes(layer.vt)
         /\ held \subseteq SystemRes(layer.vt) \cup WindowRes(layer.vt)
         /\ gfx = "none" /\ console.window /\ ~console.initialized
         /\ console.builtin = NoTileset /\ console.tilesets = << >>
         /\ [console EXCEPT !.error = "none", !.window = FALSE] = NoConsole
         /\ \A t \in Address : tiles[t] = 0
         /\ \A i \in 1 .. Len(Tail(todo)) : Tail(todo)[i][1] \in {"builtin", "tileset", "root"}
         /\ Head(todo)[2] \in Lists(Tried) /\ Renderers \subseteq tried \cup Elements(Head(todo)[2])
         /\ todo \in Seq(AnyCall)
<1>1. /\ LifeTypes /\ InOrder /\ Stages /\ Tilesets /\ GivesBack /\ Nested /\ TriesAll /\ FramesAreSound
  BY Zenon DEF LifeInv
<1>2. PICK list \in Seq(AnyCall) : list = todo
  BY <1>1, Zenon DEF LifeTypes
<1>3. Followed(todo, 1, {"builtin", "tileset", "root"})
  BY <1>1, StartGoesOn, Zenon
<1>4. /\ Up
      /\ \A i \in 1 .. Len(Tail(todo)) : Tail(todo)[i][1] \in {"builtin", "tileset", "root"}
      /\ \A what : what \notin {"builtin", "tileset", "root"} /\ what # Head(todo)[1] => Past(what)
  BY <1>1, <1>3, WhatFollows
<1>5. Past("backend") /\ Past("window")
  BY <1>4
<1>6. /\ layer.vt \in Drivers /\ Base(layer.vt) \in held
      /\ console.window /\ <<layer.vt, "window">> \in held
  BY <1>1, <1>5, Zenon DEF Stages
<1>7. \A s \in Things : s \in {TheLayer, TheWindow} \cup SystemRes(layer.vt) \cup WindowRes(layer.vt)
  BY <1>1, HeadBears, Zenon DEF Bears
<1>8. \A s \in SystemRes(layer.vt) \cup WindowRes(layer.vt) : s[1] \in Owner
  <2>1. SystemRes(layer.vt) \subseteq Resource /\ WindowRes(layer.vt) \subseteq Resource
    BY <1>6, Resources
  <2> QED BY <2>1, TheThings
<1>9. /\ TheRenderer \notin Things /\ TheConsole \notin Things
      /\ \A t : TilesetAt(t) \notin Things
  BY <1>7, <1>8, TheThings
<1>10. /\ gfx # "none" => TheRenderer \in Things
       /\ \A t \in Address : tiles[t] # 0 => TilesetAt(t) \in Things
       /\ \A s \in held : s \in Things
  BY Zenon DEF Things
<1>11. held \subseteq SystemRes(layer.vt) \cup WindowRes(layer.vt)
  <2>1. TheLayer \notin held /\ TheWindow \notin held
    BY <1>1, TheThings DEF LifeTypes
  <2> QED BY <1>7, <1>10, <2>1
<1>12. /\ [console EXCEPT !.error = "none", !.window = FALSE] = NoConsole
       /\ ~console.initialized /\ ~console.root
       /\ console.builtin = NoTileset /\ console.tilesets = << >> /\ console.font = NoTileset
  BY <1>1, <1>9, NothingOnTheConsole
<1>13. Head(todo)[2] \in Lists(Tried) /\ Renderers \subseteq tried \cup Elements(Head(todo)[2])
  <2>1. Len(list) \in Nat \ {0} /\ Head(list) = list[1] /\ Head(list) \in AnyCall
    BY <1>2, TailIs
  <2>2. 1 \in 1 .. Len(list)
    BY <2>1
  <2>3. Head(list)[2] \in Lists(Tried)
    BY <1>2, <2>1, KindOf
  <2> QED BY <1>1, <1>2, <2>1, <2>2, <2>3, Zenon DEF TriesAll, Tries
<1>14. Things \subseteq {TheLayer, TheWindow} \cup SystemRes(layer.vt) \cup WindowRes(layer.vt)
  BY <1>7
<1> QED BY <1>2, <1>4, <1>6, <1>9, <1>10, <1>11, <1>12, <1>13, <1>14, Zenon

\* A renderer that is given back while a start goes on.
LEMMA RetriesBehind ==
  ASSUME NEW b \in Drivers, NEW r \in Tried, b = layer.vt, NEW y \in Seq(AnyCall), Retries(y)
  PROVE  Retries(GfxShutdown(r) \o y) /\ \A what : Without(GfxShutdown(r) \o y, what) => Without(y, what)
<1>1. PICK x \in Seq(AnyCall) : x = GfxShutdown(r)
  BY GivingRenderer, Zenon DEF Giving
<1>2. /\ x \o y \in Seq(AnyCall) /\ Len(x \o y) = Len(x) + Len(y)
      /\ Len(x) \in Nat /\ Len(y) \in Nat
      /\ \A i \in 1 .. Len(x) : (x \o y)[i] = x[i]
  BY CatIs
<1>3. \A i \in 1 .. Len(y) : (x \o y)[Len(x) + i] = y[i]
  BY CatGoesOn
<1>4. \A i \in 1 .. Len(x) : /\ x[i][1] \in {"release", "no_gfx"}
                             /\ x[i][1] = "release" => x[i][2][1] \in Working \/ x[i][2][2] = "context"
  <2>1. PICK args \in Seq(Resource) : args = RendererShutdown(r, b) /\ \A i \in 1 .. Len(args) : args[i] \in RendererRes(r, b)
    BY RendererReleases
  <2>2. /\ Calls("release", args) \in Seq(AnyCall) /\ Len(Calls("release", args)) = Len(args)
        /\ Len(args) \in Nat
        /\ \A i \in 1 .. Len(args) :
             Calls("release", args)[i] = <<"release", args[i]>> /\ args[i] \in Resource
    BY ReleasesAre
  <2>3. /\ << Call("no_gfx", "") >> \in Seq(AnyCall) /\ Call("no_gfx", "") \in AnyCall
        /\ Call("no_gfx", "")[1] = "no_gfx"
    BY GivingPlain
  <2>4. Len(<< Call("no_gfx", "") >>) = 1 /\ << Call("no_gfx", "") >>[1] = Call("no_gfx", "")
    BY <2>3, OneIs, Zenon
  <2>5. PICK c \in Seq(AnyCall), z \in Seq(AnyCall) :
          /\ c = Calls("release", args) /\ z = << Call("no_gfx", "") >> /\ x = c \o z
          /\ Len(c) = Len(args) /\ Len(z) = 1 /\ z[1][1] = "no_gfx"
          /\ \A i \in 1 .. Len(args) : c[i] = <<"release", args[i]>>
    BY <1>1, <2>1, <2>2, <2>3, <2>4, Zenon DEF GfxShutdown
  <2>6. /\ c \o z \in Seq(AnyCall) /\ Len(c \o z) = Len(c) + Len(z)
        /\ Len(c) \in Nat /\ Len(z) \in Nat
        /\ \A i \in 1 .. Len(c) : (c \o z)[i] = c[i]
    BY CatIs
  <2>7. \A i \in 1 .. Len(z) : (c \o z)[Len(c) + i] = z[i]
    BY CatGoesOn
  <2>8. \A s \in RendererRes(r, b) : s[1] \in Working \/ s[2] = "context"
    BY DEF RendererRes, Working
  <2>9. ASSUME NEW i \in 1 .. Len(x) PROVE i \in 1 .. Len(args) \/ i = Len(c) + 1
    <3>1. Len(x) = Len(args) + 1 /\ Len(c) = Len(args) /\ Len(args) \in Nat
      BY <2>2, <2>5, <2>6, Zenon
    <3>2. \A n \in Nat : \A k \in 1 .. n + 1 : k \in 1 .. n \/ k = n + 1
      OBVIOUS
    <3> QED BY <3>1, <3>2, Zenon
  <2>10. x[Len(c) + 1][1] = "no_gfx"
    <3>1. 1 \in 1 .. 1
      OBVIOUS
    <3> QED BY <2>5, <2>7, <3>1, Zenon
  <2>11. ASSUME NEW i \in 1 .. Len(args)
         PROVE x[i][1] = "release" /\ (x[i][2][1] \in Working \/ x[i][2][2] = "context")
    <3>1. x[i] = <<"release", args[i]>> /\ args[i] \in RendererRes(r, b)
      BY <2>1, <2>5, <2>6
    <3> QED BY <2>8, <3>1
  <2>12. "no_gfx" # "release"
    OBVIOUS
  <2> QED BY <2>9, <2>10, <2>11, <2>12, Zenon
<1>5. ASSUME NEW i \in 1 .. Len(x \o y)
      PROVE  i \in 1 .. Len(x) \/ \E k \in 1 .. Len(y) : i = Len(x) + k
  <2>1. PICK m \in Nat, n \in Nat : m = Len(x) /\ n = Len(y) /\ i \in 1 .. m + n
    BY <1>2, Zenon
  <2>2. i \in 1 .. m \/ \E k \in 1 .. n : i = m + k
    BY <2>1, Places, ZenonT(60)
  <2> QED BY <2>1, <2>2, Zenon
<1>6. Retries(x \o y)
  <2> SUFFICES ASSUME NEW i \in 1 .. Len(x \o y)
               PROVE  /\ (x \o y)[i][1] \in {"release", "no_gfx", "started"} \cup StartCall
                      /\ (x \o y)[i][1] = "release" =>
                           (x \o y)[i][2][1] \in Working \/ (x \o y)[i][2][2] = "context"
    BY Zenon DEF Retries
  <2>1. CASE i \in 1 .. Len(x)
    BY <1>2, <1>4, <2>1
  <2>2. ASSUME NEW k \in 1 .. Len(y), i = Len(x) + k
        PROVE  /\ (x \o y)[i][1] \in {"release", "no_gfx", "started"} \cup StartCall
               /\ (x \o y)[i][1] = "release" =>
                    (x \o y)[i][2][1] \in Working \/ (x \o y)[i][2][2] = "context"
    BY <1>3, <2>2, Zenon DEF Retries
  <2> QED BY <1>5, <2>1, <2>2, Zenon
<1>7. ASSUME NEW what, Without(x \o y, what) PROVE Without(y, what)
  <2>1. \A k \in 1 .. Len(y) : Len(x) + k \in 1 .. Len(x \o y)
    BY <1>2
  <2> QED BY <1>3, <1>7, <2>1, Zenon DEF Without
<1> QED BY <1>1, <1>6, <1>7, Zenon

\* What there is when a renderer has begun, or failed.
LEMMA RendererThings ==
  ASSUME LifeInv, todo # << >>, Head(todo)[1] = "renderer", NEW b \in Drivers, b = layer.vt,
         NEW r \in Tried, NEW o \in RendererInit(r, b, held),
         held' = held \cup o.has, gfx' = r, tiles' = tiles,
         layer' = IF <<b, "context">> \in o.has THEN [layer EXCEPT !.cache = b] ELSE layer,
         NEW e \in {"none", "renderer"}, console' = [console EXCEPT !.error = e]
  PROVE  /\ layer' \in LayerType /\ layer'.vt = b
         /\ console' \in ConsoleType /\ console'.error = e /\ console'.window
         /\ ~console'.initialized /\ console'.builtin = NoTileset
         /\ held' \subseteq SystemRes(b) \cup WindowRes(b) \cup RendererRes(r, b)
         /\ Things' \subseteq {TheLayer, TheWindow, TheRenderer} \cup SystemRes(b) \cup WindowRes(b) \cup RendererRes(r, b)
         /\ Nested' /\ Tilesets'
         /\ Base(b) \in held' /\ <<b, "window">> \in held'
<1>1. /\ LifeTypes /\ InOrder /\ Stages /\ Tilesets /\ GivesBack /\ Nested /\ TriesAll /\ FramesAreSound
  BY Zenon DEF LifeInv
<1>3. /\ Up /\ layer.vt \in Drivers /\ Base(layer.vt) \in held /\ <<layer.vt, "window">> \in held
      /\ Things \subseteq {TheLayer, TheWindow} \cup SystemRes(layer.vt) \cup WindowRes(layer.vt)
      /\ held \subseteq SystemRes(layer.vt) \cup WindowRes(layer.vt)
      /\ gfx = "none" /\ console.window /\ ~console.initialized
      /\ console.builtin = NoTileset /\ console.tilesets = << >>
      /\ [console EXCEPT !.error = "none", !.window = FALSE] = NoConsole
      /\ \A t \in Address : tiles[t] = 0
      /\ \A i \in 1 .. Len(Tail(todo)) : Tail(todo)[i][1] \in {"builtin", "tileset", "root"}
      /\ Head(todo)[2] \in Lists(Tried) /\ Renderers \subseteq tried \cup Elements(Head(todo)[2])
      /\ todo \in Seq(AnyCall)
  BY AtRenderer
<1>4. PICK c \in ConsoleType : c = console
  BY <1>1, Zenon DEF LifeTypes
<1>5. /\ console' \in ConsoleType /\ console'.error = e /\ console'.window
      /\ ~console'.initialized /\ console'.builtin = NoTileset /\ console'.tilesets = << >>
      /\ [console' EXCEPT !.error = "none", !.window = FALSE] = NoConsole
  <2>1. /\ [c EXCEPT !.error = e] \in ConsoleType /\ [c EXCEPT !.error = e].error = e
        /\ [c EXCEPT !.error = e].window = c.window
        /\ [c EXCEPT !.error = e].initialized = c.initialized
        /\ [c EXCEPT !.error = e].builtin = c.builtin
        /\ [c EXCEPT !.error = e].tilesets = c.tilesets
        /\ [[c EXCEPT !.error = e] EXCEPT !.error = "none", !.window = FALSE] =
             [c EXCEPT !.error = "none", !.window = FALSE]
    <3>1. e \in Reasons
      BY DEF Reasons
    <3> QED BY <3>1, ErrorField, Zenon
  <2> QED BY <1>3, <1>4, <2>1, Zenon
<1>6. layer' \in LayerType /\ layer'.vt = b
  <2>1. layer \in LayerType
    BY <1>1, Zenon DEF LifeTypes
  <2>2. PICK l \in LayerType : l = layer
    BY <2>1
  <2>3. [l EXCEPT !.cache = b] \in LayerType /\ [l EXCEPT !.cache = b].vt = l.vt
    BY DEF LayerType
  <2> QED BY <2>2, <2>3, Zenon
<1>7. /\ o.has \subseteq RendererRes(r, b) \cup Drawing(b)
      /\ \A x \in o.has : \A q : NeededBy(x, b, q) \subseteq held \cup o.has
  <2>1. PICK h : h = held /\ <<b, "window">> \in h /\ o \in RendererInit(r, b, h)
    BY <1>3, Zenon
  <2>2. /\ o.has \subseteq RendererRes(r, b) \cup Drawing(b)
        /\ \A x \in o.has : \A q : NeededBy(x, b, q) \subseteq h \cup o.has
        /\ o.ok => r \in Working /\ Maker(r, b) \in o.has
    BY <2>1, RendererStarts
  <2> QED BY <2>1, <2>2, Zenon
<1>8. held' \subseteq SystemRes(b) \cup WindowRes(b) \cup RendererRes(r, b)
  <2>1. Drawing(b) \subseteq SystemRes(b) \cup WindowRes(b)
    BY Resources
  <2> QED BY <1>3, <1>7, <2>1
<1>9. Things' \subseteq {TheLayer, TheWindow, TheRenderer} \cup SystemRes(b) \cup WindowRes(b) \cup RendererRes(r, b)
  <2> SUFFICES ASSUME NEW s \in Things'
               PROVE  s \in {TheLayer, TheWindow, TheRenderer} \cup SystemRes(b) \cup WindowRes(b) \cup RendererRes(r, b)
    OBVIOUS
  <2>1. \/ s \in held'
        \/ \E t \in Address : tiles[t] # 0 /\ s = TilesetAt(t)
        \/ s = TheRenderer
        \/ s = TheLayer
        \/ s = TheWindow
        \/ s = TheConsole /\ [console' EXCEPT !.error = "none", !.window = FALSE] # NoConsole
    BY Zenon DEF Things
  <2>2. s \in held' \/ s = TheRenderer \/ s = TheLayer \/ s = TheWindow
    BY <1>3, <1>5, <2>1, Zenon
  <2> QED BY <1>8, <2>2
<1>10. \A x \in held' : x[1] # "texture"
  <2>1. /\ SystemRes(b) \subseteq Resource /\ WindowRes(b) \subseteq Resource
        /\ RendererRes(r, b) \subseteq Resource
    BY Resources
  <2> QED BY <1>8, <2>1, TheThings
<1>11. Nested'
  <2> SUFFICES ASSUME NEW x \in held' PROVE NeededBy(x, b, r) \subseteq held'
    BY <1>6, Zenon DEF Nested
  <2>1. CASE x \in held
    <3>1. NeededBy(x, b, "none") = NeededBy(x, b, r)
      BY <1>10, OnlyTextures
    <3>2. NeededBy(x, b, "none") \subseteq held
      BY <1>1, <1>3, <2>1, Zenon DEF Nested
    <3> QED BY <3>1, <3>2
  <2>2. CASE x \notin held
    BY <1>7, <2>2
  <2> QED BY <2>1, <2>2
<1>12. Tilesets'
  <2>1. \A t \in Address : Texture(t) \notin held'
    BY <1>10, TheThings
  <2>2. tiles' = tiles /\ console'.tilesets = console.tilesets
    BY <1>3, <1>5, Zenon
  <2>3. /\ Once(console.tilesets)
        /\ \A t \in Address :
             /\ tiles[t] # 0 <=> Has(console.tilesets, t)
             /\ tiles[t] = 0
    BY <1>1, <1>3, Zenon DEF Tilesets
  <2> QED BY <2>1, <2>2, <2>3 DEF Tilesets
<1>13. Base(b) \in held' /\ <<b, "window">> \in held'
  BY <1>3
<1> QED BY <1>5, <1>6, <1>8, <1>9, <1>11, <1>12, <1>13, Zenon

LEMMA NextRendererTries ==
  ASSUME NEW list \in Seq(AnyCall), list # << >>, NEW c \in AnyCall, c[1] = Head(list)[1], c[1] = "renderer",
         NEW more, more = << c >> \o Tail(list), NEW e, NEW d, NEW d2, Tries(list, e, d), d \subseteq d2,
         NEW e2, e2 = "renderer", \A i \in 1 .. Len(list) : list[i][1] \notin {"backend", "window"},
         Renderers \subseteq d2 \cup Elements(c[2])
  PROVE  Tries(more, e2, d2)
<1>1. e2 # "backend" /\ c[1] # "backend"
  OBVIOUS
<1>2. /\ e2 = "renderer" => c[1] = "renderer"
      /\ e2 = "none" \/ \A i \in 1 .. Len(list) : list[i][1] \notin {"backend", "window"}
      /\ c[1] = "backend" => \A bs \in BackendOrders : Elements(bs) \subseteq d2 \cup Elements(c[2])
      /\ c[1] = "renderer" => Renderers \subseteq d2 \cup Elements(c[2])
  BY <1>1, Zenon
<1> QED BY <1>1, <1>2, NextTries, Zenon

LEMMA RendererStartsKeeps ==
  ASSUME LifeInv, TryRenderer, NEW o \in RendererInit(First, layer.vt, held), o.ok,
         held' = held \cup o.has, gfx' = First, console' = [console EXCEPT !.error = "none"],
         layer' = IF <<layer.vt, "context">> \in o.has
                  THEN [layer EXCEPT !.cache = layer.vt] ELSE layer,
         todo' = Tail(todo)
  PROVE  LifeInv'
<1>1. /\ LifeTypes /\ InOrder /\ Stages /\ Tilesets /\ GivesBack /\ Nested /\ TriesAll /\ FramesAreSound
  BY Zenon DEF LifeInv
<1>2. /\ todo # << >> /\ Head(todo)[1] = "renderer" /\ tried' = tried \cup {First}
      /\ UNCHANGED <<platform, app, tiles, last, frame, corrupted>>
  BY DEF TryRenderer, Is
<1>3. /\ Up /\ layer.vt \in Drivers /\ Base(layer.vt) \in held /\ <<layer.vt, "window">> \in held
      /\ Things \subseteq {TheLayer, TheWindow} \cup SystemRes(layer.vt) \cup WindowRes(layer.vt)
      /\ held \subseteq SystemRes(layer.vt) \cup WindowRes(layer.vt)
      /\ gfx = "none" /\ console.window /\ ~console.initialized
      /\ console.builtin = NoTileset /\ console.tilesets = << >>
      /\ [console EXCEPT !.error = "none", !.window = FALSE] = NoConsole
      /\ \A t \in Address : tiles[t] = 0
      /\ \A i \in 1 .. Len(Tail(todo)) : Tail(todo)[i][1] \in {"builtin", "tileset", "root"}
      /\ Head(todo)[2] \in Lists(Tried) /\ Renderers \subseteq tried \cup Elements(Head(todo)[2])
      /\ todo \in Seq(AnyCall)
  BY <1>2, AtRenderer
<1>4. PICK b \in Drivers, r \in Tried, h \in {held} : b = layer.vt /\ r = First /\ h = held
  <2>1. Head(Head(todo)[2]) \in Tried
    BY <1>3, Firsts
  <2> QED BY <1>3, <2>1 DEF First, Arg
<1>5. PICK e \in {"none", "renderer"} : e = "none"
  OBVIOUS
<1>6. /\ layer' \in LayerType /\ layer'.vt = b
      /\ console' \in ConsoleType /\ console'.error = e /\ console'.window
      /\ ~console'.initialized /\ console'.builtin = NoTileset
      /\ held' \subseteq SystemRes(b) \cup WindowRes(b) \cup RendererRes(r, b)
      /\ Things' \subseteq {TheLayer, TheWindow, TheRenderer} \cup SystemRes(b) \cup WindowRes(b) \cup RendererRes(r, b)
      /\ Nested' /\ Tilesets'
      /\ Base(b) \in held' /\ <<b, "window">> \in held'
  <2>1. /\ o \in RendererInit(r, b, held) /\ gfx' = r /\ tiles' = tiles
        /\ layer' = IF <<b, "context">> \in o.has THEN [layer EXCEPT !.cache = b] ELSE layer
        /\ console' = [console EXCEPT !.error = e]
    BY <1>2, <1>4, <1>5, Zenon
  <2> QED BY <1>2, <1>4, <2>1, RendererThings
<1>7. r \in Working /\ Maker(r, b) \in held'
  <2>1. /\ o \in RendererInit(r, b, h) /\ <<b, "window">> \in h
    BY <1>3, <1>4, Zenon
  <2>2. /\ o.has \subseteq RendererRes(r, b) \cup Drawing(b)
        /\ \A x \in o.has : \A q : NeededBy(x, b, q) \subseteq h \cup o.has
        /\ o.ok => r \in Working /\ Maker(r, b) \in o.has
    BY <2>1, RendererStarts
  <2> QED BY <2>2
<1>8. InOrder' /\ TriesAll' /\ todo' \in Seq(AnyCall)
  <2>1. tried \subseteq tried' /\ console'.error \in {console.error, "none"} /\ console'.error # "renderer"
    BY <1>2, <1>5, <1>6
  <2> QED BY <1>1, <1>2, <2>1, PopOrder
<1>9. LifeTypes'
  <2>1. held' \subseteq Resource \cup {Texture(t) : t \in Address}
    <3>1. /\ SystemRes(b) \subseteq Resource /\ WindowRes(b) \subseteq Resource
          /\ RendererRes(r, b) \subseteq Resource
      BY Resources
    <3> QED BY <1>6, <3>1
  <2> QED BY <1>1, <1>2, <1>4, <1>6, <1>8, <2>1 DEF LifeTypes
<1>10. /\ Up' <=> Up
       /\ \A what : Past(what)' => Past(what) \/ "renderer" = what
  BY <1>1, <1>2, PopUp
<1>11. GivesBack'
  <2>1. ASSUME NEW i \in 1 .. Len(todo'), NEW s \in Things'
        PROVE  Bears(todo'[i], s, layer'.vt, gfx')
    <3>1. todo'[i][1] \in {"builtin", "tileset", "root"}
      BY <1>3
    <3> QED BY <3>1, LaterBears
  <2>2. Orderly(Things', todo', layer'.vt, gfx', console'.builtin)
    BY <2>1, Zenon DEF Orderly
  <2> QED BY <1>3, <1>10, <2>2, Zenon DEF GivesBack
<1>12. Stages'
  <2>1. \A i \in 1 .. Len(todo') : todo'[i][1] \in {"builtin", "tileset", "root"}
    BY <1>3, Zenon
  <2>2. Retries(todo') /\ Starts(todo')
    BY <2>1 DEF Retries, Starts, StartCall
  <2>3. ~Past("builtin")'
    <3>1. Past("builtin") => console.initialized
      BY <1>1, Zenon DEF Stages
    <3>2. "builtin" # "renderer"
      OBVIOUS
    <3> QED BY <1>3, <1>10, <3>1, <3>2, Zenon
  <2>4. /\ layer'.vt \in Drivers /\ Base(layer'.vt) \in held' /\ <<layer'.vt, "window">> \in held'
        /\ gfx' \in Working /\ Maker(gfx', layer'.vt) \in held'
    BY <1>4, <1>6, <1>7, Zenon
  <2>5. held' \subseteq SystemRes(layer'.vt) \cup WindowRes(layer'.vt)
                           \cup RendererRes(gfx', layer'.vt) \cup {Texture(t) : t \in Address}
    BY <1>4, <1>6
  <2> QED BY <1>6, <2>2, <2>3, <2>4, <2>5, Zenon DEF Stages
<1>13. FramesAreSound'
  BY <1>1, <1>2, Zenon DEF FramesAreSound
<1> QED BY <1>6, <1>8, <1>9, <1>11, <1>12, <1>13, Zenon DEF LifeInv

\* What a renderer that failed has left is given back, and the next one is tried.
LEMMA RendererRetriedKeeps ==
  ASSUME LifeInv, TryRenderer, NEW o \in RendererInit(First, layer.vt, held), Tail(Arg) # << >>,
         held' = held \cup o.has, gfx' = First, console' = [console EXCEPT !.error = "renderer"],
         layer' = IF <<layer.vt, "context">> \in o.has
                  THEN [layer EXCEPT !.cache = layer.vt] ELSE layer,
         todo' = GfxShutdown(First) \o (<< Call("renderer", Tail(Arg)) >> \o Tail(todo))
  PROVE  LifeInv'
<1>1. /\ LifeTypes /\ InOrder /\ Stages /\ Tilesets /\ GivesBack /\ Nested /\ TriesAll /\ FramesAreSound
  BY Zenon DEF LifeInv
<1>2. /\ todo # << >> /\ Head(todo)[1] = "renderer" /\ tried' = tried \cup {First}
      /\ UNCHANGED <<platform, app, tiles, last, frame, corrupted>>
  BY DEF TryRenderer, Is
<1>3. /\ Up /\ layer.vt \in Drivers /\ Base(layer.vt) \in held /\ <<layer.vt, "window">> \in held
      /\ Things \subseteq {TheLayer, TheWindow} \cup SystemRes(layer.vt) \cup WindowRes(layer.vt)
      /\ held \subseteq SystemRes(layer.vt) \cup WindowRes(layer.vt)
      /\ gfx = "none" /\ console.window /\ ~console.initialized
      /\ console.builtin = NoTileset /\ console.tilesets = << >>
      /\ [console EXCEPT !.error = "none", !.window = FALSE] = NoConsole
      /\ \A t \in Address : tiles[t] = 0
      /\ \A i \in 1 .. Len(Tail(todo)) : Tail(todo)[i][1] \in {"builtin", "tileset", "root"}
      /\ Head(todo)[2] \in Lists(Tried) /\ Renderers \subseteq tried \cup Elements(Head(todo)[2])
      /\ todo \in Seq(AnyCall)
  BY <1>2, AtRenderer
<1>4. PICK a \in Lists(Tried), list \in Seq(AnyCall) : a = Head(todo)[2] /\ list = todo /\ a = Arg
  BY <1>3 DEF Arg
<1>5. /\ Head(a) \in Tried /\ Tail(a) \in Seq(Tried)
      /\ Elements(a) \subseteq {Head(a)} \cup Elements(Tail(a))
      /\ Tail(a) = << >> => Elements(a) \subseteq {Head(a)}
  BY Firsts
<1>6. PICK b \in Drivers, r \in Tried, e \in {"none", "renderer"} :
        b = layer.vt /\ r = First /\ r = Head(a) /\ e = "renderer"
  BY <1>3, <1>4, <1>5 DEF First
<1>7. /\ layer' \in LayerType /\ layer'.vt = b
      /\ console' \in ConsoleType /\ console'.error = e /\ console'.window
      /\ ~console'.initialized /\ console'.builtin = NoTileset
      /\ held' \subseteq SystemRes(b) \cup WindowRes(b) \cup RendererRes(r, b)
      /\ Things' \subseteq {TheLayer, TheWindow, TheRenderer} \cup SystemRes(b) \cup WindowRes(b) \cup RendererRes(r, b)
      /\ Nested' /\ Tilesets'
      /\ Base(b) \in held' /\ <<b, "window">> \in held'
  <2>1. /\ o \in RendererInit(r, b, held) /\ gfx' = r /\ tiles' = tiles
        /\ layer' = IF <<b, "context">> \in o.has THEN [layer EXCEPT !.cache = b] ELSE layer
        /\ console' = [console EXCEPT !.error = e]
    BY <1>2, <1>6, Zenon
  <2> QED BY <1>2, <1>6, <2>1, RendererThings
<1>8. PICK c \in AnyCall : c = <<"renderer", Tail(a)>> /\ c[1] = "renderer" /\ c[2] = Tail(a)
  <2>1. Tail(a) \in Lists(Tried)
    BY <1>4, <1>5, Zenon DEF Lists
  <2>2. <<"renderer", Tail(a)>> \in AnyCall
    BY <2>1, Zenon DEF AnyCall
  <2> QED BY <2>2
<1>9. PICK more \in Seq(AnyCall) : more = << c >> \o Tail(list)
  BY <1>2, <1>4, NextIs, Zenon
<1>10. list # << >> /\ c[1] = Head(list)[1] /\ c[1] = "renderer"
  BY <1>2, <1>4, <1>8, Zenon
<1>11. /\ Ordered(list) => Ordered(more)
       /\ \A x, y : Alive(more, x) <=> Alive(list, y)
       /\ \A what : Without(more, what) => Without(list, what)
       /\ Head(list)[1] # "release" /\ Retries(list) => Retries(more)
  BY <1>9, <1>10, NextKeeps
<1>12. /\ more # << >> /\ Len(list) \in Nat \ {0} /\ Len(more) = Len(list)
       /\ more[1] = c /\ 1 \in 1 .. Len(list)
       /\ \A i \in 1 .. Len(list) : more[i][1] = list[i][1]
  <2>1. /\ << c >> \o Tail(list) \in Seq(AnyCall) /\ Len(<< c >> \o Tail(list)) = Len(list)
        /\ Len(list) \in Nat \ {0} /\ 1 \in 1 .. Len(list) /\ (<< c >> \o Tail(list))[1] = c
        /\ \A i \in 2 .. Len(list) : (<< c >> \o Tail(list))[i] = list[i]
        /\ Head(list) = list[1]
    BY <1>10, NextIs
  <2>2. /\ Len(list) \in Nat \ {0} /\ Len(more) = Len(list) /\ more # << >>
        /\ \A i \in 1 .. Len(list) : more[i][1] = list[i][1]
    BY <1>9, <1>10, NextKinds
  <2> QED BY <1>9, <2>1, <2>2, Zenon
<1>13. \A i \in 1 .. Len(more) : more[i][1] \in {"renderer", "builtin", "tileset", "root"}
  <2>1. /\ Len(Tail(list)) = Len(list) - 1
        /\ \A i \in 1 .. Len(list) - 1 : Tail(list)[i] = list[i + 1]
    BY <1>10, TailIs
  <2>2. \A i \in 1 .. Len(list) - 1 : list[i + 1][1] \in {"builtin", "tileset", "root"}
    BY <1>3, <1>4, <2>1, ZenonT(60)
  <2>3. ASSUME NEW i \in 1 .. Len(list), i # 1 PROVE i - 1 \in 1 .. Len(list) - 1 /\ (i - 1) + 1 = i
    BY <1>12, <2>3
  <2>4. \A i \in 1 .. Len(list) : i # 1 => list[i][1] \in {"builtin", "tileset", "root"}
    BY <2>2, <2>3, Zenon
  <2> QED BY <1>10, <1>12, <2>4, Zenon
<1>14. Without(more, "started")
  BY <1>13 DEF Without
<1>15. PICK x \in Seq(AnyCall) : x = GfxShutdown(r) /\ Giving(x) /\ \A i \in 1 .. Len(x) : x[i][1] \in GiveCall
  BY <1>3, GivingRenderer, Zenon DEF Giving
<1>16. todo' = x \o more
  BY <1>4, <1>6, <1>8, <1>9, <1>15, Zenon DEF Call
<1>17. Ordered(list)
  BY <1>1, <1>4, Zenon DEF InOrder
<1>18. Ordered(x \o more) /\ x \o more # << >> /\ x \o more \in Seq(AnyCall)
  BY <1>11, <1>12, <1>14, <1>15, <1>17, OrderedBehind, CatIs
<1>19. InOrder' /\ todo' \in Seq(AnyCall) /\ Up'
  <2>1. Alive(x \o more, console'.initialized) <=> Alive(more, console.initialized)
    BY <1>12, AliveBehind, Zenon
  <2>2. Alive(list, console.initialized)
    BY <1>3, <1>4, Zenon DEF Up
  <2> QED BY <1>11, <1>16, <1>18, <2>1, <2>2, Zenon DEF InOrder, Up
<1>20. Retries(more)
  BY <1>13 DEF Retries, StartCall
<1>21. Retries(x \o more) /\ \A what : Without(x \o more, what) => Without(more, what)
  BY <1>6, <1>15, <1>20, RetriesBehind, Zenon
<1>22. \A what : Past(what)' => Past(what) /\ what # "renderer"
  <2>1. ~Without(more, "renderer")
    BY <1>10, <1>12, Zenon DEF Without
  <2> QED BY <1>3, <1>4, <1>11, <1>16, <1>21, <2>1, Zenon DEF Past
<1>23. Stages'
  <2>1. ~Past("builtin")' /\ ~Past("renderer")'
    <3>1. Past("builtin") => console.initialized
      BY <1>1, Zenon DEF Stages
    <3> QED BY <1>3, <1>22, <3>1, Zenon
  <2>2. layer'.vt \in Drivers /\ Base(layer'.vt) \in held' /\ <<layer'.vt, "window">> \in held'
    BY <1>6, <1>7, Zenon
  <2>3. Retries(todo')
    BY <1>16, <1>21, Zenon
  <2> QED BY <1>7, <2>1, <2>2, <2>3, Zenon DEF Stages
<1>24. LifeTypes'
  <2>1. held' \subseteq Resource \cup {Texture(t) : t \in Address}
    <3>1. /\ SystemRes(b) \subseteq Resource /\ WindowRes(b) \subseteq Resource
          /\ RendererRes(r, b) \subseteq Resource
      BY Resources
    <3> QED BY <1>7, <3>1
  <2> QED BY <1>1, <1>2, <1>6, <1>7, <1>19, <2>1 DEF LifeTypes
<1>25. GivesBack'
  <2>1. PICK S, T : /\ S = Things' /\ T = {TheLayer, TheWindow} \cup SystemRes(b) \cup WindowRes(b)
    OBVIOUS
  <2>2. PICK d : d = console'.builtin
    OBVIOUS
  <2>3. Sheds(S, x, T, b, r, d)
    <3>1. \A s \in S : \/ s \in {TheLayer, TheWindow, TheConsole, TheRenderer}
                       \/ s \in SystemRes(layer.vt) \cup WindowRes(layer.vt) \cup RendererRes(r, layer.vt)
      BY <1>6, <1>7, <2>1
    <3>2. \A s \in S : s \in T \/ s = TheRenderer \/ s \in RendererRes(r, layer.vt)
      BY <1>6, <1>7, <2>1
    <3>3. Sheds(S, GfxShutdown(r), T, layer.vt, r, d)
      BY <1>3, <3>1, <3>2, ShedsRenderer
    <3> QED BY <1>6, <1>15, <3>3, Zenon
  <2>4. Sheds(T, more, T, b, r, d)
    <3>1. ASSUME NEW i \in 1 .. Len(more), NEW s \in T PROVE Bears(more[i], s, b, r)
      <4>1. more[i][1] \in {"renderer", "builtin", "tileset", "root"}
        BY <1>13
      <4>2. s \in {TheLayer, TheWindow} \cup SystemRes(b) \cup WindowRes(b)
        BY <2>1
      <4> QED BY <4>1, <4>2, LaterBears
    <3> QED BY <3>1, Zenon DEF Sheds, Orderly
  <2>5. Sheds(S, x \o more, T, b, r, d)
    BY <2>3, <2>4, ShedsThen, Zenon
  <2>6. Orderly(S, x \o more, b, r, d)
    BY <2>5, Zenon DEF Sheds
  <2>7. gfx' = r /\ layer'.vt = b
    BY <1>6, <1>7, Zenon
  <2>8. Orderly(Things', todo', layer'.vt, gfx', console'.builtin)
    BY <1>16, <2>1, <2>2, <2>6, <2>7, Zenon
  <2> QED BY <1>19, <2>8, Zenon DEF GivesBack
<1>26. TriesAll'
  <2>0. PICK d, d2 : d = tried /\ d2 = tried' /\ d2 = d \cup {Head(a)}
    BY <1>2, <1>6, Zenon
  <2>1. d \subseteq d2
    BY <2>0
  <2>2. Tries(list, console.error, d)
    BY <1>1, <1>4, <2>0, Zenon DEF TriesAll
  <2>3. Renderers \subseteq d2 \cup Elements(c[2])
    <3>1. Renderers \subseteq d \cup Elements(a) /\ c[2] = Tail(a)
      BY <1>3, <1>4, <1>8, <2>0, Zenon
    <3> QED BY <1>5, <2>0, <3>1
  <2>4. \A i \in 1 .. Len(list) : list[i][1] \notin {"backend", "window"}
    BY <1>12, <1>13
  <2>5. e # "backend" /\ c[1] # "backend"
    BY <1>6, <1>8
  <2>6. PICK e0 : e0 = console.error
    OBVIOUS
  <2>7. Tries(list, e0, d)
    BY <2>2, <2>6, Zenon
  <2>8. Tries(more, e, d2)
    <3>1. e = "renderer"
      BY <1>6
    <3>2. \A i \in 1 .. Len(list) : list[i][1] \notin {"backend", "window"}
      BY <2>4, Zenon
    <3> QED BY <1>9, <1>10, <2>1, <2>3, <2>7, <3>1, <3>2, NextRendererTries, Zenon
  <2>9. Tries(x \o more, e, d2)
    BY <1>15, <2>8, TriesBehind, Zenon
  <2>10. BackendOrders' = BackendOrders /\ Renderers' = Renderers
    BY <1>2, Zenon DEF BackendOrders, Renderers
  <2>11. Tries(todo', console'.error, tried')
    BY <1>7, <1>16, <2>0, <2>9, Zenon
  <2> QED BY <2>10, <2>11, Zenon DEF TriesAll, Tries
<1>27. FramesAreSound'
  BY <1>1, <1>2, Zenon DEF FramesAreSound
<1> QED BY <1>7, <1>19, <1>23, <1>24, <1>25, <1>26, <1>27, Zenon DEF LifeInv

LEMMA Regrouped ==
  ASSUME NEW g, NEW w, Giving(g), Giving(w), NEW what \in {"failed", "report", "reset"}
  PROVE  (g \o w) \o << Call(what, "") >> = g \o (w \o << Call(what, "") >>)
<1>1. << Call(what, "") >> \in Seq(AnyCall) /\ g \in Seq(AnyCall) /\ w \in Seq(AnyCall)
  BY LastCall, Zenon DEF Giving
<1>2. PICK A \in {AnyCall}, f \in Seq(AnyCall) : A = AnyCall /\ f = << Call(what, "") >>
  BY <1>1, Zenon
<1>3. g \in Seq(A) /\ w \in Seq(A)
  BY <1>1, <1>2, Zenon
<1>4. (g \o w) \o f = g \o (w \o f)
  BY <1>3, ConcatAssociative
<1> QED BY <1>2, <1>4, Zenon

\* There is none left: what the last one left, the window and the window layer go.
LEMMA RendererFailsKeeps ==
  ASSUME LifeInv, TryRenderer, NEW o \in RendererInit(First, layer.vt, held), Tail(Arg) = << >>,
         held' = held \cup o.has, gfx' = First, console' = [console EXCEPT !.error = "renderer"],
         layer' = IF <<layer.vt, "context">> \in o.has
                  THEN [layer EXCEPT !.cache = layer.vt] ELSE layer,
         todo' = GfxShutdown(First) \o (((WindowGone \o << Call("windowless", "") >>) \o WinShutdown)
                                          \o << Call("failed", "") >>)
  PROVE  LifeInv'
<1>1. /\ LifeTypes /\ InOrder /\ Stages /\ Tilesets /\ GivesBack /\ Nested /\ TriesAll /\ FramesAreSound
  BY Zenon DEF LifeInv
<1>2. /\ todo # << >> /\ Head(todo)[1] = "renderer" /\ tried' = tried \cup {First}
      /\ UNCHANGED <<platform, app, tiles, last, frame, corrupted>>
  BY DEF TryRenderer, Is
<1>3. /\ Up /\ layer.vt \in Drivers /\ Base(layer.vt) \in held /\ <<layer.vt, "window">> \in held
      /\ Things \subseteq {TheLayer, TheWindow} \cup SystemRes(layer.vt) \cup WindowRes(layer.vt)
      /\ held \subseteq SystemRes(layer.vt) \cup WindowRes(layer.vt)
      /\ gfx = "none" /\ console.window /\ ~console.initialized
      /\ console.builtin = NoTileset /\ console.tilesets = << >>
      /\ [console EXCEPT !.error = "none", !.window = FALSE] = NoConsole
      /\ \A t \in Address : tiles[t] = 0
      /\ \A i \in 1 .. Len(Tail(todo)) : Tail(todo)[i][1] \in {"builtin", "tileset", "root"}
      /\ Head(todo)[2] \in Lists(Tried) /\ Renderers \subseteq tried \cup Elements(Head(todo)[2])
      /\ todo \in Seq(AnyCall)
  BY <1>2, AtRenderer
<1>4. PICK a \in Lists(Tried) : a = Head(todo)[2] /\ a = Arg
  BY <1>3 DEF Arg
<1>5. /\ Head(a) \in Tried /\ Tail(a) \in Seq(Tried)
      /\ Elements(a) \subseteq {Head(a)} \cup Elements(Tail(a))
      /\ Tail(a) = << >> => Elements(a) \subseteq {Head(a)}
  BY Firsts
<1>6. PICK b \in Drivers, r \in Tried, e \in {"none", "renderer"} :
        b = layer.vt /\ r = First /\ r = Head(a) /\ e = "renderer"
  BY <1>3, <1>4, <1>5 DEF First
<1>7. /\ layer' \in LayerType /\ layer'.vt = b
      /\ console' \in ConsoleType /\ console'.error = e /\ console'.window
      /\ ~console'.initialized /\ console'.builtin = NoTileset
      /\ held' \subseteq SystemRes(b) \cup WindowRes(b) \cup RendererRes(r, b)
      /\ Things' \subseteq {TheLayer, TheWindow, TheRenderer} \cup SystemRes(b) \cup WindowRes(b) \cup RendererRes(r, b)
      /\ Nested' /\ Tilesets'
      /\ Base(b) \in held' /\ <<b, "window">> \in held'
  <2>1. /\ o \in RendererInit(r, b, held) /\ gfx' = r /\ tiles' = tiles
        /\ layer' = IF <<b, "context">> \in o.has THEN [layer EXCEPT !.cache = b] ELSE layer
        /\ console' = [console EXCEPT !.error = e]
    BY <1>2, <1>6, Zenon
  <2> QED BY <1>2, <1>6, <2>1, RendererThings
<1>8. PICK g, w1, w2, w3 :
        /\ g = GfxShutdown(r) /\ w1 = WindowGone /\ w2 = << Call("windowless", "") >> /\ w3 = WinShutdown
        /\ Giving(g) /\ Giving(w1) /\ Giving(w2) /\ Giving(w3)
  <2>1. Giving(GfxShutdown(r))
    BY <1>3, GivingRenderer, Zenon
  <2>2. Giving(WindowGone) /\ Giving(WinShutdown)
    BY <1>3, GivingWindow
  <2>3. Giving(<< Call("windowless", "") >>)
    BY GivingPlain
  <2> QED BY <2>1, <2>2, <2>3, Zenon
<1>9. PICK w : w = (w1 \o w2) \o w3 /\ Giving(w) /\ Giving(g \o w)
  BY <1>8, GivingCat, Zenon
<1>10. PICK list : list = (g \o w) \o << Call("failed", "") >>
  OBVIOUS
<1>11. todo' = list
  <2>1. (g \o w) \o << Call("failed", "") >> = g \o (w \o << Call("failed", "") >>)
    <3>1. "failed" \in {"failed", "report", "reset"} /\ Giving(g) /\ Giving(w)
      BY <1>8, <1>9
    <3> QED BY <3>1, Regrouped, Zenon
  <2> QED BY <1>6, <1>8, <1>9, <1>10, <2>1, Zenon
<1>12. /\ list \in Seq(AnyCall) /\ list # << >> /\ Ordered(list)
       /\ \A x : ~Alive(list, x)
       /\ \A x, d : /\ x = "backend" => \A bs \in BackendOrders : Elements(bs) \subseteq d
                    /\ x = "renderer" => Renderers \subseteq d
                    => Tries(list, x, d)
  BY <1>9, <1>10, EndsWith
<1>13. InOrder' /\ ~Up' /\ todo' \in Seq(AnyCall)
  BY <1>11, <1>12, Zenon DEF InOrder, Up
<1>14. Stages'
  BY <1>13, Zenon DEF Stages, Past
<1>15. LifeTypes'
  <2>1. held' \subseteq Resource \cup {Texture(t) : t \in Address}
    <3>1. /\ SystemRes(b) \subseteq Resource /\ WindowRes(b) \subseteq Resource
          /\ RendererRes(r, b) \subseteq Resource
      BY Resources
    <3> QED BY <1>7, <3>1
  <2> QED BY <1>1, <1>2, <1>6, <1>7, <1>13, <2>1 DEF LifeTypes
<1>16. TriesAll'
  <2>0. PICK d, d2 : d = tried /\ d2 = tried' /\ d2 = d \cup {Head(a)}
    BY <1>2, <1>6, Zenon
  <2>1. Renderers \subseteq d2
    <3>1. Renderers \subseteq d \cup Elements(a) /\ Elements(a) \subseteq {Head(a)}
      BY <1>3, <1>4, <1>5, <2>0, Zenon
    <3> QED BY <2>0, <3>1
  <2>2. e # "backend"
    BY <1>6
  <2>3. Tries(list, e, d2)
    BY <1>12, <2>1, <2>2, Zenon
  <2>4. BackendOrders' = BackendOrders /\ Renderers' = Renderers
    BY <1>2, Zenon DEF BackendOrders, Renderers
  <2>5. Tries(todo', console'.error, tried')
    BY <1>7, <1>11, <2>0, <2>3, Zenon
  <2> QED BY <2>4, <2>5, Zenon DEF TriesAll, Tries
<1>17. GivesBack'
  <2>1. PICK S, T1, T2, T3, d :
          /\ S = Things' /\ d = console'.builtin
          /\ T1 = {TheLayer, TheWindow} \cup SystemRes(b) \cup WindowRes(b)
          /\ T2 = {TheLayer, TheWindow} \cup SystemRes(b)
          /\ T3 = {TheLayer} \cup SystemRes(b)
    OBVIOUS
  <2>2. Sheds(S, g, T1, b, r, d)
    <3>1. \A s \in S : \/ s \in {TheLayer, TheWindow, TheConsole, TheRenderer}
                       \/ s \in SystemRes(layer.vt) \cup WindowRes(layer.vt) \cup RendererRes(r, layer.vt)
      BY <1>6, <1>7, <2>1
    <3>2. \A s \in S : s \in T1 \/ s = TheRenderer \/ s \in RendererRes(r, layer.vt)
      BY <1>6, <1>7, <2>1
    <3>3. Sheds(S, GfxShutdown(r), T1, layer.vt, r, d)
      BY <1>3, <3>1, <3>2, ShedsRenderer
    <3> QED BY <1>6, <1>8, <3>3, Zenon
  <2>3. Sheds(T1, w1, T2, b, r, d)
    <3>1. \A s \in T1 : s[1] \in {"the", "tileset"} \/ s \in SystemRes(layer.vt) \cup WindowRes(layer.vt)
      BY <1>6, <2>1, TheThings
    <3>2. \A s \in T1 : s \in T2 \/ s \in WindowRes(layer.vt)
      BY <1>6, <2>1
    <3>3. Sheds(T1, WindowGone, T2, layer.vt, r, d)
      BY <1>3, <3>1, <3>2, ShedsWindow
    <3> QED BY <1>6, <1>8, <3>3, Zenon
  <2>4. Sheds(T2, w2, T3, b, r, d)
    <3>1. PICK c \in AnyCall : c = Call("windowless", "") /\ c[1] = "windowless"
      BY GivingPlain
    <3>2. \A s \in T2 : Bears(c, s, b, r)
      BY <3>1, LaterBears
    <3>3. \A s \in T2 : s \in T3 \/ s = TheWindow
      BY <2>1
    <3>4. \A s \in T2 : s \in T3 \/ Gives(c, s, d)
      BY <3>1, <3>3, Zenon DEF Gives
    <3>5. Sheds(T2, << c >>, T3, b, r, d)
      BY <3>2, <3>4, ShedsOne
    <3> QED BY <1>8, <3>1, <3>5, Zenon
  <2>5. Sheds(T3, w3, {}, b, r, d)
    <3>1. \A s \in T3 : /\ s \in {TheLayer, TheWindow, TheConsole} \cup SystemRes(layer.vt)
                        /\ s \in {} \/ s \in {TheLayer} \cup SystemRes(layer.vt)
      BY <1>6, <2>1
    <3>2. Sheds(T3, WinShutdown, {}, layer.vt, r, d)
      BY <1>3, <3>1, ShedsLayer
    <3> QED BY <1>6, <1>8, <3>2, Zenon
  <2>6. Sheds(T1, w1 \o w2, T3, b, r, d)
    BY <2>3, <2>4, ShedsThen, Zenon
  <2>7. Sheds(T1, w, {}, b, r, d)
    BY <1>9, <2>5, <2>6, ShedsThen, Zenon
  <2>8. Sheds(S, g \o w, {}, b, r, d)
    BY <2>2, <2>7, ShedsThen, Zenon
  <2>9. Sheds(S, list, {}, b, r, d)
    BY <1>10, <2>8, ShedsEnd, Zenon
  <2>10. gfx' = r /\ layer'.vt = b
    BY <1>6, <1>7, Zenon
  <2>11. Sheds(Things', todo', {}, layer'.vt, gfx', console'.builtin)
    BY <1>11, <2>1, <2>9, <2>10, Zenon
  <2>12. /\ \A s \in Things' : Given(s, todo', Len(todo'), console'.builtin)
         /\ Orderly(Things', todo', layer'.vt, gfx', console'.builtin)
    BY <2>11, Zenon DEF Sheds
  <2> QED BY <2>12, Zenon DEF GivesBack
<1>18. FramesAreSound'
  BY <1>1, <1>2, Zenon DEF FramesAreSound
<1> QED BY <1>7, <1>13, <1>14, <1>15, <1>16, <1>17, <1>18, Zenon DEF LifeInv

LEMMA TryRendererKeeps ==
  ASSUME LifeInv, TryRenderer
  PROVE  LifeInv'
<1>1. PICK o \in RendererInit(First, layer.vt, held) :
       /\ held' = held \cup o.has
       /\ layer' = IF <<layer.vt, "context">> \in o.has
                   THEN [layer EXCEPT !.cache = layer.vt] ELSE layer
       /\ IF o.ok
          THEN /\ gfx' = First
               /\ console' = [console EXCEPT !.error = "none"]
               /\ todo' = Tail(todo)
          ELSE /\ gfx' = First
               /\ console' = [console EXCEPT !.error = "renderer"]
               /\ todo' = GfxShutdown(First) \o
                          (IF Others("renderer") # << >> THEN Others("renderer")
                           ELSE WindowGone \o << Call("windowless", "") >>
                                \o WinShutdown \o << Call("failed", "") >>)
  BY Zenon DEF TryRenderer
<1>2. CASE o.ok
  BY <1>1, <1>2, RendererStartsKeeps, Zenon
<1>3. CASE ~o.ok /\ Tail(Arg) # << >>
  <2>1. PICK more : more = << Call("renderer", Tail(Arg)) >> \o Tail(todo) /\ more = Others("renderer")
    BY <1>3, Zenon DEF Others
  <2>2. more # << >>
    <3>1. todo # << >> /\ Head(todo)[1] = "renderer"
      BY DEF TryRenderer, Is
    <3>2. PICK list \in Seq(AnyCall) : list = todo
      BY Zenon DEF LifeInv, LifeTypes
    <3>3. Head(todo)[2] \in Lists(Tried)
      BY <3>1, AtRenderer, Zenon
    <3>4. Tail(Arg) \in Lists(Tried)
      BY <1>3, <3>3, Firsts DEF Arg, Lists
    <3>5. PICK c \in AnyCall : c = Call("renderer", Tail(Arg)) /\ c[1] = "renderer"
      <4>1. <<"renderer", Tail(Arg)>> \in AnyCall
        BY <3>4, Zenon DEF AnyCall
      <4> QED BY <4>1 DEF Call
    <3> QED BY <2>1, <3>1, <3>2, <3>5, NextKinds, Zenon
  <2>3. todo' = GfxShutdown(First) \o (<< Call("renderer", Tail(Arg)) >> \o Tail(todo))
    BY <1>1, <1>3, <2>1, <2>2, Zenon
  <2> QED BY <1>1, <1>3, <2>3, RendererRetriedKeeps, Zenon
<1>4. CASE ~o.ok /\ Tail(Arg) = << >>
  <2>1. Others("renderer") = << >>
    BY <1>4, Zenon DEF Others
  <2>2. todo' = GfxShutdown(First) \o (((WindowGone \o << Call("windowless", "") >>) \o WinShutdown)
                                          \o << Call("failed", "") >>)
    BY <1>1, <1>4, <2>1, Zenon
  <2> QED BY <1>1, <1>4, <2>2, RendererFailsKeeps, Zenon
<1> QED BY <1>2, <1>3, <1>4

-----------------------------------------------------------------------------
(* The tilesets, and the root console *)

LEMMA AddedIs ==
  ASSUME NEW A, NEW s \in Seq(A), NEW t \in A, Once(s), ~Has(s, t)
  PROVE  /\ Append(s, t) \in Seq(A) /\ Once(Append(s, t))
         /\ \A x : Has(Append(s, t), x) <=> x = t \/ Has(s, x)
<1>1. PICK u \in Seq(A), n \in Nat :
        /\ u = Append(s, t) /\ n = Len(s) /\ Len(u) = n + 1 /\ u[n + 1] = t
        /\ \A i \in 1 .. n : u[i] = s[i]
  <2>1. /\ Append(s, t) \in Seq(A) /\ Len(s) \in Nat /\ Len(Append(s, t)) = Len(s) + 1
        /\ \A i \in 1 .. Len(s) : Append(s, t)[i] = s[i]
        /\ Append(s, t)[Len(s) + 1] = t
    BY AppendProperties, LenProperties
  <2> QED BY <2>1, Zenon
<1>2. \A i \in 1 .. Len(u) : i \in 1 .. n \/ i = n + 1
  BY <1>1
<1>3. \A i \in 1 .. n : s[i] # t
  BY <1>1, Zenon DEF Has
<1>4. Once(u)
  <2> SUFFICES ASSUME NEW i \in 1 .. Len(u), NEW j \in 1 .. Len(u), u[i] = u[j] PROVE i = j
    BY Zenon DEF Once
  <2>1. CASE i \in 1 .. n /\ j \in 1 .. n
    BY <1>1, <2>1, Zenon DEF Once
  <2>2. CASE i = n + 1 /\ j \in 1 .. n
    BY <1>1, <1>3, <2>2, Zenon
  <2>3. CASE i \in 1 .. n /\ j = n + 1
    BY <1>1, <1>3, <2>3, Zenon
  <2> QED BY <1>2, <2>1, <2>2, <2>3, Zenon
<1>5. ASSUME NEW x PROVE Has(u, x) <=> x = t \/ Has(s, x)
  <2>1. n + 1 \in 1 .. Len(u) /\ \A i \in 1 .. n : i \in 1 .. Len(u)
    BY <1>1
  <2>2. Has(u, x) => x = t \/ Has(s, x)
    BY <1>1, <1>2, Zenon DEF Has
  <2>3. x = t => Has(u, x)
    BY <1>1, <2>1, Zenon DEF Has
  <2>4. Has(s, x) => Has(u, x)
    BY <1>1, <2>1, Zenon DEF Has
  <2> QED BY <2>2, <2>3, <2>4
<1> QED BY <1>1, <1>4, <1>5, Zenon

\* A tileset has its texture before it is tracked, and both are there to be freed.
LEMMA TilesetMade ==
  ASSUME LifeTypes, Tilesets, Nested, NEW t \in Address, NEW n \in 1 .. MaxTiles, MakesTileset(t, n),
         gfx \in Working, layer.vt \in Drivers, Maker(gfx, layer.vt) \in held, UNCHANGED <<gfx, layer>>,
         console'.tilesets = Append(console.tilesets, t), console'.window = console.window
  PROVE  /\ Tilesets' /\ Nested' /\ console'.tilesets \in Seq(Address)
         /\ tiles' \in [Address -> 0 .. MaxTiles] /\ held' = held \cup {Texture(t)}
         /\ held' \subseteq Resource \cup {Texture(a) : a \in Address}
         /\ tiles[t] = 0 /\ tiles'[t] = n /\ \A a \in Address : a # t => tiles'[a] = tiles[a]
<1>1. /\ tiles[t] = 0 /\ tiles' = [tiles EXCEPT ![t] = n] /\ held' = held \cup {Texture(t)}
  BY DEF MakesTileset
<1>2. n \in 0 .. MaxTiles /\ n # 0
  BY LifetimeAssumption
<1>3. /\ tiles' \in [Address -> 0 .. MaxTiles] /\ tiles'[t] = n
      /\ \A a \in Address : a # t => tiles'[a] = tiles[a]
  BY <1>1, <1>2 DEF LifeTypes
<1>4. held' \subseteq Resource \cup {Texture(a) : a \in Address}
  BY <1>1 DEF LifeTypes
<1>5. console.tilesets \in Seq(Address)
  BY DEF LifeTypes, ConsoleType
<1>6. Once(console.tilesets) /\ ~Has(console.tilesets, t)
  BY <1>1, Zenon DEF Tilesets
<1>7. PICK s \in Seq(Address) : s = console.tilesets /\ Once(s) /\ ~Has(s, t)
  BY <1>5, <1>6, Zenon
<1>8. PICK u \in Seq(Address) :
        /\ u = Append(s, t) /\ Once(u)
        /\ \A x : Has(u, x) <=> x = t \/ Has(s, x)
  <2>1. /\ Append(s, t) \in Seq(Address) /\ Once(Append(s, t))
        /\ \A x : Has(Append(s, t), x) <=> x = t \/ Has(s, x)
    BY <1>7, AddedIs
  <2> QED BY <2>1, Zenon
<1>9. console'.tilesets = u
  BY <1>7, <1>8, Zenon
<1>10. Tilesets'
  <2> SUFFICES ASSUME NEW a \in Address
               PROVE  /\ tiles'[a] # 0 <=> Has(u, a)
                      /\ tiles'[a] # 0 <=> Texture(a) \in held'
                      /\ tiles'[a] # 0 => gfx' # "none"
    BY <1>8, <1>9, Zenon DEF Tilesets
  <2>1. gfx' # "none"
    BY Chars
  <2>2. CASE a = t
    BY <1>1, <1>2, <1>3, <1>8, <2>1, <2>2
  <2>3. CASE a # t
    <3>1. Texture(a) # Texture(t)
      BY <2>3 DEF Texture
    <3>2. /\ tiles[a] # 0 <=> Has(s, a)
          /\ tiles[a] # 0 <=> Texture(a) \in held
      BY <1>7, Zenon DEF Tilesets
    <3> QED BY <1>1, <1>3, <1>8, <2>1, <2>3, <3>1, <3>2
  <2> QED BY <2>2, <2>3
<1>11. Nested'
  <2> SUFFICES ASSUME NEW x \in held' PROVE NeededBy(x, layer.vt, gfx) \subseteq held'
    BY Zenon DEF Nested
  <2>1. CASE x \in held
    BY <1>1, <2>1 DEF Nested
  <2>2. CASE x \notin held
    <3>1. x = Texture(t)
      BY <1>1, <2>2
    <3>2. NeededBy(x, layer.vt, gfx) = {Maker(gfx, layer.vt)}
      BY <3>1, TextureNeeds, Zenon
    <3> QED BY <1>1, <3>2
  <2> QED BY <2>1, <2>2
<1> QED BY <1>1, <1>3, <1>4, <1>8, <1>9, <1>10, <1>11, Zenon

LEMMA ConsoleRuns ==
  ASSUME LifeTypes, Stages, Past("backend"), Past("window"), Past("renderer")
  PROVE  /\ layer.vt \in Drivers /\ Base(layer.vt) \in held
         /\ console.window /\ <<layer.vt, "window">> \in held
         /\ Starts(todo) /\ gfx \in Working /\ gfx \in Tried /\ Maker(gfx, layer.vt) \in held
         /\ held \subseteq SystemRes(layer.vt) \cup WindowRes(layer.vt)
                             \cup RendererRes(gfx, layer.vt) \cup {Texture(t) : t \in Address}
<1>1. /\ layer.vt \in Drivers /\ Base(layer.vt) \in held
      /\ console.window /\ <<layer.vt, "window">> \in held
      /\ Starts(todo) /\ gfx \in Working /\ Maker(gfx, layer.vt) \in held
      /\ held \subseteq SystemRes(layer.vt) \cup WindowRes(layer.vt)
                          \cup RendererRes(gfx, layer.vt) \cup {Texture(t) : t \in Address}
  BY Zenon DEF Stages
<1>2. gfx \in Tried
  BY <1>1 DEF Working, Tried
<1> QED BY <1>1, <1>2, Zenon

LEMMA AtEnd ==
  ASSUME LifeInv, todo # << >>, Head(todo)[1] \in {"builtin", "tileset", "root"}
  PROVE  /\ Up /\ Past("backend") /\ Past("window") /\ Past("renderer")
         /\ Head(todo)[1] # "builtin" => Past("builtin")
         /\ \A i \in 1 .. Len(Tail(todo)) : Tail(todo)[i][1] \in {"tileset", "root"}
         /\ todo \in Seq(AnyCall)
<1>1. /\ LifeTypes /\ InOrder
  BY Zenon DEF LifeInv
<1>2. todo \in Seq(AnyCall)
  BY <1>1, Zenon DEF LifeTypes
<1>3. Followed(todo, 1, {"tileset", "root"}) /\ (Head(todo)[1] # "builtin" => Followed(todo, 1, {"root"}))
  <2>1. /\ Head(todo)[1] = "root" => Followed(todo, 1, {})
        /\ Head(todo)[1] = "tileset" => Followed(todo, 1, {"root"})
        /\ Head(todo)[1] = "builtin" => Followed(todo, 1, {"tileset", "root"})
    BY <1>1, StartGoesOn, Zenon
  <2>2. PICK l, k : l = todo /\ k = Head(todo)[1] /\ k \in {"builtin", "tileset", "root"}
    OBVIOUS
  <2>3. {} \subseteq {"root"} /\ {"root"} \subseteq {"tileset", "root"}
    OBVIOUS
  <2>4. Followed(l, 1, {}) => Followed(l, 1, {"root"})
    BY <2>3, FollowedMore, Zenon
  <2>5. Followed(l, 1, {"root"}) => Followed(l, 1, {"tileset", "root"})
    BY <2>3, FollowedMore, Zenon
  <2> QED BY <2>1, <2>2, <2>4, <2>5, Zenon
<1>4. /\ Up
      /\ \A i \in 1 .. Len(Tail(todo)) : Tail(todo)[i][1] \in {"tileset", "root"}
      /\ \A what : what \notin {"tileset", "root"} /\ what # Head(todo)[1] => Past(what)
  BY <1>1, <1>3, WhatFollows
<1>5. Past("backend") /\ Past("window") /\ Past("renderer")
  BY <1>4
<1>6. Head(todo)[1] # "builtin" => Past("builtin")
  BY <1>4
<1> QED BY <1>2, <1>4, <1>5, <1>6, Zenon

LEMMA ShedsFewer ==
  ASSUME NEW S, NEW R, R \subseteq S, NEW x, NEW T, NEW vt, NEW r, NEW b, Sheds(S, x, T, vt, r, b)
  PROVE  Sheds(R, x, T, vt, r, b)
<1>1. \A s \in R : s \in S
  OBVIOUS
<1> QED BY <1>1, Zenon DEF Sheds, Orderly

\* A start that fails with a window, and a renderer, is undone by shutdown().
LEMMA StartUndone ==
  ASSUME LifeInv, todo # << >>, Head(todo)[1] \in {"builtin", "tileset", "root"},
         todo' = Shutdown \o << Call("failed", "") >>,
         UNCHANGED <<platform, app, layer, gfx, tiles, held, tried, frame, corrupted>>,
         console' \in ConsoleType, console'.error \in {"tileset", "memory"},
         console'.window = console.window, console'.builtin = console.builtin,
         console'.tilesets = console.tilesets
  PROVE  LifeInv'
<1>1. /\ LifeTypes /\ InOrder /\ Stages /\ Tilesets /\ GivesBack /\ Nested /\ TriesAll /\ FramesAreSound
  BY Zenon DEF LifeInv
<1>2. Past("backend") /\ Past("window") /\ Past("renderer")
  BY AtEnd
<1>3. /\ layer.vt \in Drivers /\ Base(layer.vt) \in held
      /\ console.window /\ <<layer.vt, "window">> \in held
      /\ Starts(todo) /\ gfx \in Working /\ gfx \in Tried /\ Maker(gfx, layer.vt) \in held
      /\ held \subseteq SystemRes(layer.vt) \cup WindowRes(layer.vt)
                          \cup RendererRes(gfx, layer.vt) \cup {Texture(t) : t \in Address}
  BY <1>1, <1>2, ConsoleRuns
<1>4. console.tilesets \in Seq(Address) /\ console.builtin \in Address \cup {NoTileset}
  BY <1>1 DEF LifeTypes, ConsoleType
<1>5. Sheds(Things \cup {TheConsole}, Shutdown, {}, layer.vt, gfx, console.builtin)
  BY <1>1, <1>3, <1>4, ShedsShutdown
<1>6. Things' \subseteq Things \cup {TheConsole}
  <2> SUFFICES ASSUME NEW s \in Things' PROVE s \in Things \/ s = TheConsole
    BY Zenon
  <2>1. \/ s \in held
        \/ \E t \in Address : tiles[t] # 0 /\ s = TilesetAt(t)
        \/ s = TheRenderer /\ gfx # "none"
        \/ s = TheLayer /\ (layer.vt # "none" \/ layer.cache # "none")
        \/ s = TheWindow /\ console.window
        \/ s = TheConsole
    BY Zenon DEF Things
  <2> QED BY <2>1, Zenon DEF Things
<1>7. PICK S, x, vt, r, b, list :
        /\ S = Things' /\ x = Shutdown /\ vt = layer.vt /\ r = gfx /\ b = console.builtin
        /\ list = x \o << Call("failed", "") >>
  OBVIOUS
<1>8. Sheds(S, list, {}, vt, r, b)
  <2>1. Sheds(S, x, {}, vt, r, b)
    BY <1>5, <1>6, <1>7, ShedsFewer, Zenon
  <2> QED BY <1>7, <2>1, ShedsEnd, Zenon
<1>9. Giving(x)
  <2>1. \E y : Giving(y) /\ Shutdown = y \o << Call("reset", "") >>
    BY <1>3, <1>4, GivingShutdown, Zenon
  <2>2. Giving(<< Call("reset", "") >>)
    BY GivingPlain
  <2> QED BY <1>7, <2>1, <2>2, GivingCat, Zenon
<1>10. /\ list \in Seq(AnyCall) /\ list # << >> /\ Ordered(list)
       /\ \A a : ~Alive(list, a)
       /\ \A e, d : /\ e = "backend" => \A bs \in BackendOrders : Elements(bs) \subseteq d
                    /\ e = "renderer" => Renderers \subseteq d
                    => Tries(list, e, d)
  BY <1>7, <1>9, EndsWith
<1>11. todo' = list
  BY <1>7, Zenon
<1>12. InOrder' /\ ~Up' /\ todo' \in Seq(AnyCall)
  BY <1>10, <1>11, Zenon DEF InOrder, Up
<1>13. Stages'
  BY <1>12, Zenon DEF Stages, Past
<1>14. LifeTypes'
  BY <1>1, <1>12 DEF LifeTypes
<1>15. TriesAll'
  <2>1. BackendOrders' = BackendOrders /\ Renderers' = Renderers
    BY Zenon DEF BackendOrders, Renderers
  <2>2. console'.error # "backend" /\ console'.error # "renderer"
    OBVIOUS
  <2>3. Tries(todo', console'.error, tried')
    BY <1>10, <1>11, <2>2, Zenon
  <2> QED BY <2>1, <2>3, Zenon DEF TriesAll, Tries
<1>16. GivesBack'
  <2>1. Sheds(Things', todo', {}, layer'.vt, gfx', console'.builtin)
    BY <1>7, <1>8, <1>11, Zenon
  <2>2. /\ \A s \in Things' : Given(s, todo', Len(todo'), console'.builtin)
        /\ Orderly(Things', todo', layer'.vt, gfx', console'.builtin)
    BY <2>1, Zenon DEF Sheds
  <2> QED BY <2>2, Zenon DEF GivesBack
<1>17. Nested' /\ Tilesets' /\ FramesAreSound'
  BY <1>1, Zenon DEF Nested, Tilesets, FramesAreSound
<1> QED BY <1>12, <1>13, <1>14, <1>15, <1>16, <1>17, Zenon DEF LifeInv

\* The sheet a start loads is there, and is the font.
LEMMA SheetLoaded ==
  ASSUME LifeInv, todo # << >>, Head(todo)[1] \in {"builtin", "tileset"}, todo' = Tail(todo),
         NEW t \in Address, NEW n \in 1 .. MaxTiles, MakesTileset(t, n),
         UNCHANGED <<platform, app, layer, gfx, tried, frame, corrupted>>,
         console'.initialized,
         console'.window = console.window, console'.error = console.error,
         console'.tilesets = Append(console.tilesets, t),
         console'.tilesets \in Seq(Address) => console' \in ConsoleType
  PROVE  LifeInv'
<1>1. /\ LifeTypes /\ InOrder /\ Stages /\ Tilesets /\ GivesBack /\ Nested /\ TriesAll /\ FramesAreSound
  BY Zenon DEF LifeInv
<1>2. /\ Up /\ Past("backend") /\ Past("window") /\ Past("renderer")
      /\ Head(todo)[1] # "builtin" => Past("builtin")
      /\ \A i \in 1 .. Len(Tail(todo)) : Tail(todo)[i][1] \in {"tileset", "root"}
      /\ todo \in Seq(AnyCall)
  BY AtEnd
<1>3. /\ layer.vt \in Drivers /\ Base(layer.vt) \in held
      /\ console.window /\ <<layer.vt, "window">> \in held
      /\ Starts(todo) /\ gfx \in Working /\ gfx \in Tried /\ Maker(gfx, layer.vt) \in held
      /\ held \subseteq SystemRes(layer.vt) \cup WindowRes(layer.vt)
                          \cup RendererRes(gfx, layer.vt) \cup {Texture(a) : a \in Address}
  BY <1>1, <1>2, ConsoleRuns
<1>4. /\ Tilesets' /\ Nested' /\ console'.tilesets \in Seq(Address)
      /\ tiles' \in [Address -> 0 .. MaxTiles] /\ held' = held \cup {Texture(t)}
      /\ held' \subseteq Resource \cup {Texture(a) : a \in Address}
      /\ tiles[t] = 0 /\ tiles'[t] = n /\ \A a \in Address : a # t => tiles'[a] = tiles[a]
  BY <1>1, <1>3, TilesetMade
<1>5. InOrder' /\ TriesAll' /\ todo' \in Seq(AnyCall)
  <2>1. tried \subseteq tried' /\ console'.error \in {console.error, "none"} /\ Head(todo)[1] # "renderer"
    OBVIOUS
  <2> QED BY <1>1, <2>1, PopOrder
<1>6. LifeTypes'
  BY <1>1, <1>4, <1>5 DEF LifeTypes
<1>7. /\ Up' <=> Up
      /\ \A what : Past(what)' => Past(what) \/ Head(todo)[1] = what
  BY <1>1, PopUp
<1>8. Stages'
  <2>1. \A i \in 1 .. Len(todo') : todo'[i][1] \in {"tileset", "root"}
    BY <1>2, Zenon
  <2>2. Retries(todo') /\ Starts(todo')
    BY <2>1 DEF Retries, Starts, StartCall
  <2>3. held' \subseteq SystemRes(layer'.vt) \cup WindowRes(layer'.vt)
                           \cup RendererRes(gfx', layer'.vt) \cup {Texture(a) : a \in Address}
    BY <1>3, <1>4
  <2>4. /\ layer'.vt \in Drivers /\ Base(layer'.vt) \in held'
        /\ console'.window /\ <<layer'.vt, "window">> \in held'
        /\ gfx' \in Working /\ Maker(gfx', layer'.vt) \in held'
    BY <1>3, <1>4
  <2> QED BY <2>2, <2>3, <2>4, Zenon DEF Stages
<1>9. GivesBack'
  <2>1. ASSUME NEW i \in 1 .. Len(todo'), NEW s \in Things'
        PROVE  Bears(todo'[i], s, layer'.vt, gfx')
    <3>1. todo'[i][1] \in {"tileset", "root"}
      BY <1>2
    <3> QED BY <3>1, LaterBears
  <2>2. Orderly(Things', todo', layer'.vt, gfx', console'.builtin)
    BY <2>1, Zenon DEF Orderly
  <2> QED BY <1>2, <1>7, <2>2, Zenon DEF GivesBack
<1>10. FramesAreSound'
  BY <1>1, Zenon DEF FramesAreSound
<1> QED BY <1>4, <1>5, <1>6, <1>8, <1>9, <1>10, Zenon DEF LifeInv

LEMMA LoadBuiltinKeeps ==
  ASSUME LifeInv, LoadBuiltin
  PROVE  LifeInv'
<1>1. /\ todo # << >> /\ Head(todo)[1] = "builtin"
      /\ UNCHANGED <<platform, app, layer, gfx, lost, tried, last, frame, corrupted>>
  BY DEF LoadBuiltin, Is
<1>2. PICK c \in ConsoleType : c = console
  BY Zenon DEF LifeInv, LifeTypes
<1>3. \/ \E t \in Address, n \in 1..MaxTiles :
          /\ MakesTileset(t, n)
          /\ console' = [console EXCEPT !.initialized = TRUE, !.builtin = t, !.font = t,
                                        !.tilesets = Append(@, t)]
          /\ todo' = Tail(todo)
      \/ /\ console' = [console EXCEPT !.initialized = TRUE, !.error = "tileset"]
         /\ todo' = Shutdown \o << Call("failed", "") >>
         /\ UNCHANGED <<tiles, held>>
  BY Zenon DEF LoadBuiltin
<1>4. ASSUME NEW t \in Address, NEW n \in 1..MaxTiles, MakesTileset(t, n),
             console' = [console EXCEPT !.initialized = TRUE, !.builtin = t, !.font = t,
                                        !.tilesets = Append(@, t)],
             todo' = Tail(todo)
      PROVE  LifeInv'
  <2>1. PICK u : u = Append(c.tilesets, t)
    OBVIOUS
  <2>2. PICK d : d = [c EXCEPT !.initialized = TRUE, !.builtin = t, !.font = t, !.tilesets = u]
    OBVIOUS
  <2>3. /\ d.initialized = TRUE /\ d.window = c.window /\ d.error = c.error /\ d.tilesets = u
        /\ u \in Seq(Address) => d \in ConsoleType
    BY <2>2 DEF ConsoleType
  <2>4. console' = d
    BY <1>2, <1>4, <2>1, <2>2, Zenon
  <2>5. /\ console'.initialized /\ console'.window = console.window /\ console'.error = console.error
        /\ console'.tilesets = Append(console.tilesets, t)
        /\ console'.tilesets \in Seq(Address) => console' \in ConsoleType
    BY <1>2, <2>1, <2>3, <2>4, Zenon
  <2>6. Head(todo)[1] \in {"builtin", "tileset"}
    BY <1>1
  <2> QED BY <1>1, <1>4, <2>5, <2>6, SheetLoaded
<1>5. ASSUME console' = [console EXCEPT !.initialized = TRUE, !.error = "tileset"],
             todo' = Shutdown \o << Call("failed", "") >>, UNCHANGED <<tiles, held>>
      PROVE  LifeInv'
  <2>1. PICK d : d = [c EXCEPT !.initialized = TRUE, !.error = "tileset"]
    OBVIOUS
  <2>2. /\ d \in ConsoleType /\ d.error = "tileset" /\ d.window = c.window /\ d.builtin = c.builtin
        /\ d.tilesets = c.tilesets
    BY <2>1 DEF ConsoleType
  <2>3. console' = d
    BY <1>2, <1>5, <2>1, Zenon
  <2>4. /\ console' \in ConsoleType /\ console'.error = "tileset" /\ console'.window = console.window
        /\ console'.builtin = console.builtin /\ console'.tilesets = console.tilesets
    BY <1>2, <2>2, <2>3, Zenon
  <2>5. Head(todo)[1] \in {"builtin", "tileset", "root"} /\ console'.error \in {"tileset", "memory"}
    BY <1>1, <2>4
  <2> QED BY <1>1, <1>5, <2>4, <2>5, StartUndone
<1> QED BY <1>3, <1>4, <1>5, Zenon

LEMMA LoadConfiguredKeeps ==
  ASSUME LifeInv, LoadConfigured
  PROVE  LifeInv'
<1>1. /\ todo # << >> /\ Head(todo)[1] = "tileset"
      /\ UNCHANGED <<platform, app, layer, gfx, lost, tried, last, frame, corrupted>>
  BY DEF LoadConfigured, Is
<1>2. PICK c \in ConsoleType : c = console /\ c.initialized
  <2>1. Past("builtin")
    BY <1>1, AtEnd
  <2> QED BY <2>1, Zenon DEF LifeInv, LifeTypes, Stages
<1>3. \/ \E t \in Address, n \in 1..MaxTiles :
          /\ MakesTileset(t, n)
          /\ console' = [console EXCEPT !.font = t, !.tilesets = Append(@, t)]
          /\ todo' = Tail(todo)
      \/ /\ console' = [console EXCEPT !.error = "tileset"]
         /\ todo' = Shutdown \o << Call("failed", "") >>
         /\ UNCHANGED <<tiles, held>>
  BY Zenon DEF LoadConfigured
<1>4. ASSUME NEW t \in Address, NEW n \in 1..MaxTiles, MakesTileset(t, n),
             console' = [console EXCEPT !.font = t, !.tilesets = Append(@, t)],
             todo' = Tail(todo)
      PROVE  LifeInv'
  <2>1. PICK u : u = Append(c.tilesets, t)
    OBVIOUS
  <2>2. PICK d : d = [c EXCEPT !.font = t, !.tilesets = u]
    OBVIOUS
  <2>3. /\ d.initialized = c.initialized /\ d.window = c.window /\ d.error = c.error /\ d.tilesets = u
        /\ u \in Seq(Address) => d \in ConsoleType
    BY <2>2 DEF ConsoleType
  <2>4. console' = d
    BY <1>2, <1>4, <2>1, <2>2, Zenon
  <2>5. /\ console'.initialized /\ console'.window = console.window /\ console'.error = console.error
        /\ console'.tilesets = Append(console.tilesets, t)
        /\ console'.tilesets \in Seq(Address) => console' \in ConsoleType
    BY <1>2, <2>1, <2>3, <2>4, Zenon
  <2>6. Head(todo)[1] \in {"builtin", "tileset"}
    BY <1>1
  <2> QED BY <1>1, <1>4, <2>5, <2>6, SheetLoaded
<1>5. ASSUME console' = [console EXCEPT !.error = "tileset"],
             todo' = Shutdown \o << Call("failed", "") >>, UNCHANGED <<tiles, held>>
      PROVE  LifeInv'
  <2>1. PICK d : d = [c EXCEPT !.error = "tileset"]
    OBVIOUS
  <2>2. /\ d \in ConsoleType /\ d.error = "tileset" /\ d.window = c.window /\ d.builtin = c.builtin
        /\ d.tilesets = c.tilesets
    BY <2>1 DEF ConsoleType
  <2>3. console' = d
    BY <1>2, <1>5, <2>1, Zenon
  <2>4. /\ console' \in ConsoleType /\ console'.error = "tileset" /\ console'.window = console.window
        /\ console'.builtin = console.builtin /\ console'.tilesets = console.tilesets
    BY <1>2, <2>2, <2>3, Zenon
  <2>5. Head(todo)[1] \in {"builtin", "tileset", "root"} /\ console'.error \in {"tileset", "memory"}
    BY <1>1, <2>4
  <2> QED BY <1>1, <1>5, <2>4, <2>5, StartUndone
<1> QED BY <1>3, <1>4, <1>5, Zenon

LEMMA StartedCall ==
  /\ << Call("started", "") >> \in Seq(AnyCall) /\ << Call("started", "") >> # << >>
  /\ Ordered(<< Call("started", "") >>)
  /\ Starts(<< Call("started", "") >>) /\ Retries(<< Call("started", "") >>)
  /\ \A a : Alive(<< Call("started", "") >>, a)
  /\ Len(<< Call("started", "") >>) = 1 /\ << Call("started", "") >>[1][1] = "started"
<1>1. PICK c \in AnyCall : c = Call("started", "") /\ c[1] = "started"
  <2>1. <<"started", "">> \in AnyCall
    BY DEF AnyCall
  <2> QED BY <2>1 DEF Call
<1>2. /\ << c >> \in Seq(AnyCall) /\ Len(<< c >>) = 1 /\ << c >>[1] = c /\ << c >> # << >>
  BY OneIs, Zenon
<1>3. PICK one \in Seq(AnyCall) : one = << c >> /\ Len(one) = 1 /\ one[1] = c /\ one # << >>
  BY <1>2, Zenon
<1>4. \A i \in 1 .. Len(one) : one[i][1] = "started"
  <2>1. \A i \in 1 .. 1 : i = 1
    OBVIOUS
  <2> QED BY <1>1, <1>3, <2>1, Zenon
<1>5. one[Len(one)][1] = "started"
  BY <1>1, <1>3
<1>6. Ordered(one) /\ Starts(one) /\ Retries(one)
  BY <1>3, <1>4, <1>5 DEF Ordered, Starts, Retries
<1>7. \A a : Alive(one, a)
  BY <1>3, <1>5 DEF Alive
<1> QED BY <1>1, <1>3, <1>4, <1>5, <1>6, <1>7, Zenon

LEMMA StartedTries ==
  ASSUME NEW e, NEW d,
         e = "backend" => \A bs \in BackendOrders : Elements(bs) \subseteq d,
         e = "renderer" => Renderers \subseteq d
  PROVE  Tries(<< Call("started", "") >>, e, d)
<1>1. PICK one : one = << Call("started", "") >> /\ Len(one) = 1 /\ one[1][1] = "started"
  BY StartedCall, Zenon
<1>2. \A i \in 1 .. 1 : i = 1
  OBVIOUS
<1>3. \A i \in 1 .. Len(one) : one[i][1] = "started"
  BY <1>1, <1>2, Zenon
<1>4. "started" \notin {"backend", "window", "renderer"}
  OBVIOUS
<1>5. Tries(one, e, d)
  BY <1>3, <1>4, Zenon DEF Tries
<1> QED BY <1>1, <1>5, Zenon

LEMMA CreateRootKeeps ==
  ASSUME LifeInv, CreateRoot
  PROVE  LifeInv'
<1>1. /\ todo # << >> /\ Head(todo)[1] = "root"
      /\ UNCHANGED <<platform, app, layer, gfx, tiles, held, lost, tried, last, frame, corrupted>>
  BY DEF CreateRoot, Is
<1>0. /\ LifeTypes /\ InOrder /\ Stages /\ Tilesets /\ GivesBack /\ Nested /\ TriesAll /\ FramesAreSound
  BY Zenon DEF LifeInv
<1>2. PICK c \in ConsoleType : c = console
  BY Zenon DEF LifeInv, LifeTypes
<1>3. \/ /\ console' = [console EXCEPT !.root = TRUE, !.error = "none"]
         /\ todo' = << Call("started", "") >>
      \/ /\ console' = [console EXCEPT !.error = "memory"]
         /\ todo' = Shutdown \o << Call("failed", "") >>
  BY Zenon DEF CreateRoot
<1>4. ASSUME console' = [console EXCEPT !.root = TRUE, !.error = "none"], todo' = << Call("started", "") >>
      PROVE  LifeInv'
  <2>1. PICK d : d = [c EXCEPT !.root = TRUE, !.error = "none"]
    OBVIOUS
  <2>2. /\ d \in ConsoleType /\ d.error = "none" /\ d.window = c.window /\ d.initialized = c.initialized
        /\ d.tilesets = c.tilesets
    BY <2>1 DEF ConsoleType
  <2>3. console' = d
    BY <1>2, <1>4, <2>1, Zenon
  <2>4. /\ console' \in ConsoleType /\ console'.error = "none" /\ console'.window = console.window
        /\ console'.initialized = console.initialized /\ console'.tilesets = console.tilesets
    BY <1>2, <2>2, <2>3, Zenon
  <2>5. Past("backend") /\ Past("window") /\ Past("renderer") /\ Past("builtin") /\ Up
    BY <1>1, AtEnd
  <2>6. /\ layer.vt \in Drivers /\ Base(layer.vt) \in held
        /\ console.window /\ <<layer.vt, "window">> \in held
        /\ Starts(todo) /\ gfx \in Working /\ gfx \in Tried /\ Maker(gfx, layer.vt) \in held
        /\ held \subseteq SystemRes(layer.vt) \cup WindowRes(layer.vt)
                            \cup RendererRes(gfx, layer.vt) \cup {Texture(t) : t \in Address}
    BY <1>0, <2>5, ConsoleRuns
  <2>7. console.initialized
    BY <1>0, <2>5, Zenon DEF Stages
  <2>8. /\ << Call("started", "") >> \in Seq(AnyCall) /\ << Call("started", "") >> # << >>
        /\ Ordered(<< Call("started", "") >>)
        /\ Starts(<< Call("started", "") >>) /\ Retries(<< Call("started", "") >>)
        /\ \A a : Alive(<< Call("started", "") >>, a)
        /\ Len(<< Call("started", "") >>) = 1 /\ << Call("started", "") >>[1][1] = "started"
    BY StartedCall
  <2>9. InOrder' /\ Up' /\ todo' \in Seq(AnyCall) /\ Starts(todo') /\ Retries(todo')
    BY <1>4, <2>8, Zenon DEF InOrder, Up
  <2>10. Stages'
    <3>1. held' \subseteq SystemRes(layer'.vt) \cup WindowRes(layer'.vt)
                             \cup RendererRes(gfx', layer'.vt) \cup {Texture(t) : t \in Address}
      BY <1>1, <2>6
    <3>2. /\ layer'.vt \in Drivers /\ Base(layer'.vt) \in held'
          /\ console'.window /\ <<layer'.vt, "window">> \in held'
          /\ gfx' \in Working /\ Maker(gfx', layer'.vt) \in held'
      BY <1>1, <2>4, <2>6
    <3> QED BY <2>4, <2>7, <2>9, <3>1, <3>2, Zenon DEF Stages
  <2>11. GivesBack'
    <3>1. \A i \in 1 .. Len(todo') : todo'[i][1] = "started"
      <4>1. \A i \in 1 .. 1 : i = 1
        OBVIOUS
      <4> QED BY <1>4, <2>8, <4>1, Zenon
    <3>2. ASSUME NEW i \in 1 .. Len(todo'), NEW s \in Things' PROVE Bears(todo'[i], s, layer'.vt, gfx')
      BY <3>1, LaterBears
    <3>3. Orderly(Things', todo', layer'.vt, gfx', console'.builtin)
      BY <3>2, Zenon DEF Orderly
    <3> QED BY <2>9, <3>3, Zenon DEF GivesBack
  <2>12. TriesAll'
    <3>1. BackendOrders' = BackendOrders /\ Renderers' = Renderers
      BY <1>1, Zenon DEF BackendOrders, Renderers
    <3>2. PICK e, f : e = console'.error /\ f = tried' /\ e # "backend" /\ e # "renderer"
      BY <2>4
    <3>3. Tries(<< Call("started", "") >>, e, f)
      BY <3>2, StartedTries
    <3> QED BY <1>4, <3>1, <3>2, <3>3, Zenon DEF TriesAll, Tries
  <2>13. LifeTypes'
    BY <1>0, <1>1, <2>4, <2>9 DEF LifeTypes
  <2>14. Nested' /\ Tilesets' /\ FramesAreSound'
    BY <1>0, <1>1, <2>4, Zenon DEF Nested, Tilesets, FramesAreSound
  <2> QED BY <2>9, <2>10, <2>11, <2>12, <2>13, <2>14, Zenon DEF LifeInv
<1>5. ASSUME console' = [console EXCEPT !.error = "memory"], todo' = Shutdown \o << Call("failed", "") >>
      PROVE  LifeInv'
  <2>1. PICK d : d = [c EXCEPT !.error = "memory"]
    OBVIOUS
  <2>2. /\ d \in ConsoleType /\ d.error = "memory" /\ d.window = c.window /\ d.builtin = c.builtin
        /\ d.tilesets = c.tilesets
    BY <2>1 DEF ConsoleType
  <2>3. console' = d
    BY <1>2, <1>5, <2>1, Zenon
  <2>4. /\ console' \in ConsoleType /\ console'.error = "memory" /\ console'.window = console.window
        /\ console'.builtin = console.builtin /\ console'.tilesets = console.tilesets
    BY <1>2, <2>2, <2>3, Zenon
  <2>5. Head(todo)[1] \in {"builtin", "tileset", "root"} /\ console'.error \in {"tileset", "memory"}
    BY <1>1, <2>4
  <2> QED BY <1>1, <1>5, <2>4, <2>5, StartUndone
<1> QED BY <1>3, <1>4, <1>5, Zenon

-----------------------------------------------------------------------------
(* Between calls: nothing is left to do *)

LEMMA NothingToDo ==
  /\ Len(<< >>) = 0 /\ << >> \in Seq(AnyCall)
  /\ Ordered(<< >>) /\ Starts(<< >>) /\ Retries(<< >>)
  /\ \A what : Without(<< >>, what)
  /\ \A S, vt, r, b : Orderly(S, << >>, vt, r, b)
  /\ \A s, b : ~Given(s, << >>, 0, b)
<1>1. PICK list, n : list = << >> /\ n = Len(list) /\ n = 0 /\ list \in Seq(AnyCall)
  BY NoneIs, Zenon
<1>2. \A i : i \notin 1 .. 0
  OBVIOUS
<1>3. \A i : i \notin 1 .. Len(list)
  BY <1>1, <1>2, Zenon
<1>4. Ordered(list)
  BY <1>1, <1>3, Zenon DEF Ordered
<1>5. Starts(list) /\ Retries(list) /\ \A what : Without(list, what)
  BY <1>3, Zenon DEF Starts, Retries, Without
<1>7. \A S, vt, r, b : Orderly(S, list, vt, r, b)
  BY <1>3, Zenon DEF Orderly
<1>8. \A s, b : ~Given(s, list, 0, b)
  BY <1>2, Zenon DEF Given
<1> QED BY <1>1, <1>4, <1>5, <1>7, <1>8, Zenon

LEMMA NothingTried ==
  ASSUME NEW e, NEW d
  PROVE  Tries(<< >>, e, d) <=>
           /\ e = "backend" => \A bs \in BackendOrders : Elements(bs) \subseteq d
           /\ e = "renderer" => Renderers \subseteq d
<1>1. PICK list : list = << >> /\ Len(list) = 0
  BY NothingToDo, Zenon
<1>2. \A i : i \notin 1 .. 0
  OBVIOUS
<1>3. \A i : i \notin 1 .. Len(list)
  BY <1>1, <1>2, Zenon
<1>4. Tries(list, e, d) <=>
           /\ e = "backend" => \A bs \in BackendOrders : Elements(bs) \subseteq d
           /\ e = "renderer" => Renderers \subseteq d
  BY <1>3, Zenon DEF Tries
<1> QED BY <1>1, <1>4, Zenon

\* There is a console that runs, or there is nothing at all.
LEMMA AtRest ==
  ASSUME LifeInv, todo = << >>
  PROVE  /\ Up <=> console.initialized
         /\ console.initialized =>
              /\ layer.vt \in Drivers /\ Base(layer.vt) \in held
              /\ console.window /\ <<layer.vt, "window">> \in held
              /\ gfx \in Working /\ gfx \in Tried /\ Maker(gfx, layer.vt) \in held
              /\ held \subseteq SystemRes(layer.vt) \cup WindowRes(layer.vt)
                                  \cup RendererRes(gfx, layer.vt) \cup {Texture(t) : t \in Address}
         /\ ~console.initialized => Things = {}
         /\ console.error = "backend" => \A bs \in BackendOrders : Elements(bs) \subseteq tried
         /\ console.error = "renderer" => Renderers \subseteq tried
<1>1. /\ LifeTypes /\ InOrder /\ Stages /\ Tilesets /\ GivesBack /\ Nested /\ TriesAll /\ FramesAreSound
  BY Zenon DEF LifeInv
<1>2. Up <=> console.initialized
  BY Zenon DEF Up, Alive
<1>3. \A what : Past(what) <=> console.initialized
  BY <1>2, NothingToDo, Zenon DEF Past
<1>4. ASSUME console.initialized
      PROVE  /\ layer.vt \in Drivers /\ Base(layer.vt) \in held
             /\ console.window /\ <<layer.vt, "window">> \in held
             /\ Starts(todo) /\ gfx \in Working /\ gfx \in Tried /\ Maker(gfx, layer.vt) \in held
             /\ held \subseteq SystemRes(layer.vt) \cup WindowRes(layer.vt)
                                 \cup RendererRes(gfx, layer.vt) \cup {Texture(t) : t \in Address}
  <2>1. Past("backend") /\ Past("window") /\ Past("renderer")
    BY <1>3, <1>4, Zenon
  <2> QED BY <1>1, <2>1, ConsoleRuns
<1>5. ASSUME ~console.initialized PROVE Things = {}
  <2>1. \A s \in Things : Given(s, todo, Len(todo), console.builtin)
    BY <1>1, <1>2, <1>5, Zenon DEF GivesBack
  <2>2. Len(todo) = 0
    BY NothingToDo, Zenon
  <2>3. \A s \in Things : Given(s, << >>, 0, console.builtin)
    BY <2>1, <2>2, Zenon
  <2>4. \A s : s \notin Things
    BY <2>3, NothingToDo, Zenon
  <2> QED BY <2>4, Zenon
<1>6. /\ console.error = "backend" => \A bs \in BackendOrders : Elements(bs) \subseteq tried
      /\ console.error = "renderer" => Renderers \subseteq tried
  BY <1>1, NothingTried, Zenon DEF TriesAll
<1> QED BY <1>2, <1>4, <1>5, <1>6, Zenon

\* What a console that runs needs is all but the textures.
LEMMA Lasting ==
  ASSUME NEW b \in Drivers, NEW r \in Working, NEW t
  PROVE  Texture(t) \notin {Base(b), <<b, "window">>, Maker(r, b)}
<1>1. b # "texture" /\ r # "texture"
  BY DEF Drivers, Working
<1> QED BY <1>1 DEF Texture, Base, Maker

\* What a program does with a console leaves all of it in place, textures aside.
LEMMA RestKeeps ==
  ASSUME LifeInv, todo = << >>, UNCHANGED <<platform, todo, layer, gfx, tried>>,
         LifeTypes', Tilesets', Nested', FramesAreSound',
         console'.initialized = console.initialized, console'.window = console.window,
         console'.error \in {console.error, "tileset", "none"},
         held' \subseteq held \cup {Texture(t) : t \in Address},
         \A s \in held : s \in held' \/ \E t \in Address : s = Texture(t),
         ~console.initialized => Things' = {}
  PROVE  LifeInv'
<1>1. /\ LifeTypes /\ InOrder /\ Stages /\ Tilesets /\ GivesBack /\ Nested /\ TriesAll /\ FramesAreSound
  BY Zenon DEF LifeInv
<1>2. /\ Up <=> console.initialized
      /\ console.initialized =>
              /\ layer.vt \in Drivers /\ Base(layer.vt) \in held
              /\ console.window /\ <<layer.vt, "window">> \in held
              /\ gfx \in Working /\ gfx \in Tried /\ Maker(gfx, layer.vt) \in held
              /\ held \subseteq SystemRes(layer.vt) \cup WindowRes(layer.vt)
                                  \cup RendererRes(gfx, layer.vt) \cup {Texture(t) : t \in Address}
      /\ ~console.initialized => Things = {}
      /\ console.error = "backend" => \A bs \in BackendOrders : Elements(bs) \subseteq tried
      /\ console.error = "renderer" => Renderers \subseteq tried
  BY AtRest
<1>3. /\ todo' = << >> /\ InOrder' /\ Starts(todo') /\ Retries(todo')
      /\ Up' <=> console.initialized
  BY NothingToDo, Zenon DEF InOrder, Up, Alive
<1>4. Stages'
  <2>1. CASE ~console.initialized
    BY <1>3, <2>1, Zenon DEF Stages, Past
  <2>2. CASE console.initialized
    <3>1. Base(layer.vt) \in held' /\ <<layer.vt, "window">> \in held' /\ Maker(gfx, layer.vt) \in held'
      BY <1>2, <2>2, Lasting
    <3>2. held' \subseteq SystemRes(layer'.vt) \cup WindowRes(layer'.vt)
                             \cup RendererRes(gfx', layer'.vt) \cup {Texture(t) : t \in Address}
      BY <1>2, <2>2
    <3>3. /\ layer'.vt \in Drivers /\ Base(layer'.vt) \in held'
          /\ console'.window /\ <<layer'.vt, "window">> \in held'
          /\ gfx' \in Working /\ Maker(gfx', layer'.vt) \in held' /\ console'.initialized
      BY <1>2, <2>2, <3>1
    <3> QED BY <1>3, <3>2, <3>3, Zenon DEF Stages
  <2> QED BY <2>1, <2>2
<1>5. GivesBack'
  <2>1. Orderly(Things', todo', layer'.vt, gfx', console'.builtin)
    BY <1>3, NothingToDo, Zenon
  <2>2. ~Up' => \A s \in Things' : Given(s, todo', Len(todo'), console'.builtin)
    <3>1. ~Up' => Things' = {}
      BY <1>3
    <3> QED BY <3>1, Zenon
  <2> QED BY <2>1, <2>2, Zenon DEF GivesBack
<1>6. TriesAll'
  <2>1. BackendOrders' = BackendOrders /\ Renderers' = Renderers
    BY Zenon DEF BackendOrders, Renderers
  <2>2. PICK e, f : e = console'.error /\ f = tried' /\ f = tried
                    /\ (e = "backend" => console.error = "backend") /\ (e = "renderer" => console.error = "renderer")
    <3>1. /\ console'.error = "backend" => console.error = "backend"
          /\ console'.error = "renderer" => console.error = "renderer"
      OBVIOUS
    <3> QED BY <3>1, Zenon
  <2>3. Tries(<< >>, e, f)
    BY <1>2, <2>2, NothingTried, Zenon
  <2> QED BY <1>3, <2>1, <2>2, <2>3, Zenon DEF TriesAll, Tries
<1> QED BY <1>3, <1>4, <1>5, <1>6, Zenon DEF LifeInv

LEMMA OneOnly == \A i \in 1 .. 1 : i = 1
OBVIOUS

-----------------------------------------------------------------------------
(* What the program does with a console *)

\* A step of the program that leaves all of the console but its font alone.
LEMMA LooksOnly ==
  ASSUME LifeInv, todo = << >>, UNCHANGED <<platform, todo, layer, gfx, tiles, held, tried>>,
         console' \in ConsoleType, app' \in AppType, FramesAreSound',
         console'.initialized = console.initialized, console'.window = console.window,
         console'.tilesets = console.tilesets, console'.error = console.error,
         console' = console \/ console.initialized
  PROVE  LifeInv'
<1>1. /\ LifeTypes /\ InOrder /\ Stages /\ Tilesets /\ GivesBack /\ Nested /\ TriesAll /\ FramesAreSound
  BY Zenon DEF LifeInv
<1>2. LifeTypes'
  BY <1>1 DEF LifeTypes
<1>3. Tilesets' /\ Nested'
  BY <1>1, Zenon DEF Tilesets, Nested
<1>4. ~console.initialized => Things' = {}
  <2> SUFFICES ASSUME ~console.initialized PROVE Things' = Things
    BY AtRest
  <2> QED BY Zenon DEF Things
<1>5. /\ held' \subseteq held \cup {Texture(t) : t \in Address}
      /\ \A s \in held : s \in held' \/ \E t \in Address : s = Texture(t)
      /\ console'.error \in {console.error, "tileset", "none"}
  BY Zenon
<1> QED BY <1>2, <1>3, <1>4, <1>5, RestKeeps

LEMMA AppFields ==
  ASSUME NEW a \in AppType
  PROVE  /\ \A c \in [tileset : Address \cup {NoTileset}, glyph : 0 .. MaxTiles] : [a EXCEPT !.cell = c] \in AppType
         /\ \A n \in Nat : [a EXCEPT !.active = n] \in AppType
         /\ \A n \in Nat, c \in [tileset : Address \cup {NoTileset}, glyph : 0 .. MaxTiles] :
              [a EXCEPT !.active = n, !.cell = c] \in AppType
         /\ \A h \in Handle, t \in Address \cup {NoTileset} : [a EXCEPT !.tilesets[h] = t] \in AppType
         /\ \A h \in Handle : a.tilesets[h] \in Address \cup {NoTileset}
         /\ a.cell.tileset \in Address \cup {NoTileset} /\ a.cell.glyph \in 0 .. MaxTiles /\ a.active \in Nat
BY DEF AppType

LEMMA SetFontKeeps ==
  ASSUME LifeInv, SetFont
  PROVE  LifeInv'
<1>1. /\ todo = << >> /\ console.initialized
      /\ UNCHANGED <<platform, todo, layer, gfx, tiles, held, lost, tried, last, app, frame, corrupted>>
  BY DEF SetFont, Uses, Idle
<1>2. PICK h \in Handle : console' = [console EXCEPT !.font = app.tilesets[h]]
  BY Zenon DEF SetFont
<1>3. PICK c \in ConsoleType, a \in AppType : c = console /\ a = app
  BY Zenon DEF LifeInv, LifeTypes
<1>4. PICK t \in Address \cup {NoTileset} : t = app.tilesets[h]
  BY <1>3, AppFields
<1>5. PICK d : d = [c EXCEPT !.font = t]
  OBVIOUS
<1>6. /\ d \in ConsoleType /\ d.error = c.error /\ d.window = c.window /\ d.initialized = c.initialized
      /\ d.tilesets = c.tilesets
  BY <1>5 DEF ConsoleType
<1>7. console' = d
  BY <1>2, <1>3, <1>4, <1>5, Zenon
<1>8. /\ console' \in ConsoleType /\ console'.error = console.error /\ console'.window = console.window
      /\ console'.initialized = console.initialized /\ console'.tilesets = console.tilesets
  BY <1>3, <1>6, <1>7, Zenon
<1>9. app' \in AppType
  BY <1>1, <1>3
<1>10. FramesAreSound'
  BY <1>1, Zenon DEF LifeInv, FramesAreSound
<1> QED BY <1>1, <1>8, <1>9, <1>10, LooksOnly

LEMMA DrawKeeps ==
  ASSUME LifeInv, Draw
  PROVE  LifeInv'
<1>1. /\ todo = << >>
      /\ UNCHANGED <<platform, todo, layer, console, gfx, tiles, held, lost, tried, last, frame, corrupted>>
  BY DEF Draw, Uses, Idle, start
<1>2. PICK c \in ConsoleType, a \in AppType : c = console /\ a = app
  BY Zenon DEF LifeInv, LifeTypes
<1>3. \/ \E h \in Handle, i \in 1..MaxTiles :
           LET t == app.tilesets[h]
           IN t # NoTileset /\ i <= tiles[t] /\ app' = [app EXCEPT !.cell = [tileset |-> t, glyph |-> i]]
      \/ app' = [app EXCEPT !.cell = [tileset |-> NoTileset, glyph |-> 1]]
  BY Zenon DEF Draw
<1>4. app' \in AppType
  <2>1. \E t \in Address \cup {NoTileset}, i \in 1 .. MaxTiles :
          app' = [app EXCEPT !.cell = [tileset |-> t, glyph |-> i]]
    <3>1. 1 \in 1 .. MaxTiles
      BY LifetimeAssumption
    <3>2. \A h \in Handle : app.tilesets[h] \in Address \cup {NoTileset}
      BY <1>2, AppFields
    <3> QED BY <1>3, <3>1, <3>2, Zenon
  <2>2. PICK t \in Address \cup {NoTileset}, i \in 1 .. MaxTiles :
          app' = [app EXCEPT !.cell = [tileset |-> t, glyph |-> i]]
    BY <2>1
  <2>3. PICK e \in [tileset : Address \cup {NoTileset}, glyph : 0 .. MaxTiles] : e = [tileset |-> t, glyph |-> i]
    <3>1. i \in 0 .. MaxTiles
      BY LifetimeAssumption
    <3>2. [tileset |-> t, glyph |-> i] \in [tileset : Address \cup {NoTileset}, glyph : 0 .. MaxTiles]
      BY <3>1
    <3> QED BY <3>2, Zenon
  <2> QED BY <1>2, <2>2, <2>3, AppFields, Zenon
<1>5. FramesAreSound'
  BY <1>1, Zenon DEF LifeInv, FramesAreSound
<1>6. /\ console' \in ConsoleType /\ (console' = console \/ console.initialized)
      /\ console'.initialized = console.initialized /\ console'.window = console.window
      /\ console'.tilesets = console.tilesets /\ console'.error = console.error
  BY <1>1, <1>2, Zenon
<1> QED BY <1>1, <1>4, <1>5, <1>6, LooksOnly

\* Every tileset a frame goes through is there, with its texture.
LEMMA DrawnIsSound ==
  ASSUME LifeTypes, NEW t \in Address, tiles[t] # 0, NEW d \in Drawn(t)
  PROVE  d.tile \in 1 .. d.of
<1>1. tiles[t] \in Nat \ {0}
  BY LifetimeAssumption DEF LifeTypes
<1>2. \/ d \in {[tile |-> 1, of |-> tiles[t]]}
      \/ d \in {[tile |-> i, of |-> tiles[t]] : i \in {app.cell.glyph} \cap 1 .. tiles[t]}
  BY Zenon DEF Drawn
<1>3. CASE d \in {[tile |-> 1, of |-> tiles[t]]}
  BY <1>1, <1>3
<1>4. CASE d \in {[tile |-> i, of |-> tiles[t]] : i \in {app.cell.glyph} \cap 1 .. tiles[t]}
  <2>1. PICK i \in 1 .. tiles[t] : d = [tile |-> i, of |-> tiles[t]]
    BY <1>4
  <2> QED BY <2>1
<1> QED BY <1>2, <1>3, <1>4

LEMMA PresentKeeps ==
  ASSUME LifeInv, Present
  PROVE  LifeInv'
<1>1. /\ todo = << >>
      /\ UNCHANGED <<platform, todo, layer, console, gfx, tiles, held, lost, tried, last, app>>
  BY DEF Present, Uses, Idle
<1>2. /\ LifeTypes /\ InOrder /\ Stages /\ Tilesets /\ GivesBack /\ Nested /\ TriesAll /\ FramesAreSound
  BY Zenon DEF LifeInv
<1>3. PICK atlases : atlases = {console.tilesets[i] : i \in DOMAIN console.tilesets}
  OBVIOUS
<1>4. IF \E t \in atlases : tiles[t] = 0 \/ Texture(t) \notin held
      THEN corrupted' = "present" /\ UNCHANGED frame
      ELSE /\ frame' = UNION {Drawn(t) : t \in atlases}
           /\ UNCHANGED corrupted
  BY <1>3, Zenon DEF Present
<1>5. \A t \in atlases : t \in Address /\ tiles[t] # 0 /\ Texture(t) \in held
  <2> SUFFICES ASSUME NEW t \in atlases PROVE t \in Address /\ tiles[t] # 0 /\ Texture(t) \in held
    OBVIOUS
  <2>1. PICK s \in Seq(Address) : s = console.tilesets
    BY <1>2 DEF LifeTypes, ConsoleType
  <2>2. DOMAIN s = 1 .. Len(s) /\ \A i \in 1 .. Len(s) : s[i] \in Address
    BY <2>1, LenProperties, ElementOfSeq
  <2>3. PICK i \in 1 .. Len(s) : t = s[i]
    BY <1>3, <2>1, <2>2, Zenon
  <2>4. t \in Address /\ Has(console.tilesets, t)
    BY <2>1, <2>2, <2>3, Zenon DEF Has
  <2> QED BY <1>2, <2>4, Zenon DEF Tilesets
<1>6. frame' = UNION {Drawn(t) : t \in atlases} /\ corrupted' = corrupted
  BY <1>4, <1>5, Zenon
<1>7. FramesAreSound'
  <2>1. ASSUME NEW d \in frame' PROVE d.tile \in 1 .. d.of
    <3>1. PICK t \in atlases : d \in Drawn(t)
      BY <1>6, Zenon
    <3> QED BY <1>2, <1>5, <3>1, DrawnIsSound
  <2> QED BY <1>2, <1>6, <2>1, Zenon DEF FramesAreSound
<1>8. /\ console' \in ConsoleType /\ app' \in AppType /\ (console' = console \/ console.initialized)
      /\ console'.initialized = console.initialized /\ console'.window = console.window
      /\ console'.tilesets = console.tilesets /\ console'.error = console.error
  BY <1>1, <1>2, Zenon DEF LifeTypes
<1> QED BY <1>1, <1>7, <1>8, LooksOnly

LEMMA ResizeKeeps ==
  ASSUME LifeInv, Resize
  PROVE  LifeInv'
<1>1. /\ todo = << >> /\ corrupted' \in {"font", corrupted}
      /\ UNCHANGED <<platform, todo, layer, console, gfx, tiles, held, lost, tried, last, app, frame>>
  BY DEF Resize, Uses, Idle
<1>2. LifeTypes /\ FramesAreSound
  BY Zenon DEF LifeInv
<1>3. FramesAreSound'
  BY <1>1, <1>2 DEF FramesAreSound
<1>8. /\ console' \in ConsoleType /\ app' \in AppType /\ (console' = console \/ console.initialized)
      /\ console'.initialized = console.initialized /\ console'.window = console.window
      /\ console'.tilesets = console.tilesets /\ console'.error = console.error
  BY <1>1, <1>2, Zenon DEF LifeTypes
<1> QED BY <1>1, <1>3, <1>8, LooksOnly

LEMMA LoadTilesetKeeps ==
  ASSUME LifeInv, LoadTileset
  PROVE  LifeInv'
<1>1. /\ todo = << >> /\ console.initialized
      /\ UNCHANGED <<platform, todo, layer, gfx, lost, tried, last, frame, corrupted>>
  BY DEF LoadTileset, Uses, Idle
<1>2. /\ LifeTypes /\ InOrder /\ Stages /\ Tilesets /\ GivesBack /\ Nested /\ TriesAll /\ FramesAreSound
  BY Zenon DEF LifeInv
<1>3. PICK h \in Handle :
        \/ \E t \in Address, n \in 1..MaxTiles :
             /\ MakesTileset(t, n)
             /\ console' = [console EXCEPT !.tilesets = Append(@, t)]
             /\ app' = [app EXCEPT !.tilesets[h] = t]
        \/ /\ console' = [console EXCEPT !.error = "tileset"]
           /\ UNCHANGED <<tiles, held, app>>
  BY Zenon DEF LoadTileset
<1>4. PICK c \in ConsoleType, a \in AppType : c = console /\ a = app
  BY <1>2, Zenon DEF LifeTypes
<1>5. /\ layer.vt \in Drivers /\ Base(layer.vt) \in held
      /\ console.window /\ <<layer.vt, "window">> \in held
      /\ gfx \in Working /\ gfx \in Tried /\ Maker(gfx, layer.vt) \in held
      /\ held \subseteq SystemRes(layer.vt) \cup WindowRes(layer.vt)
                          \cup RendererRes(gfx, layer.vt) \cup {Texture(t) : t \in Address}
  BY <1>1, AtRest
<1>6. FramesAreSound'
  BY <1>1, <1>2, Zenon DEF FramesAreSound
<1>a. ASSUME NEW t \in Address, NEW n \in 1..MaxTiles, MakesTileset(t, n),
             console' = [console EXCEPT !.tilesets = Append(@, t)],
             app' = [app EXCEPT !.tilesets[h] = t]
      PROVE  LifeInv'
  <2>1. PICK u : u = Append(c.tilesets, t)
    OBVIOUS
  <2>2. PICK d : d = [c EXCEPT !.tilesets = u]
    OBVIOUS
  <2>3. /\ d.initialized = c.initialized /\ d.window = c.window /\ d.error = c.error /\ d.tilesets = u
        /\ u \in Seq(Address) => d \in ConsoleType
    BY <2>2 DEF ConsoleType
  <2>4. console' = d
    BY <1>4, <1>a, <2>1, <2>2, Zenon
  <2>5. /\ console'.initialized = console.initialized /\ console'.window = console.window
        /\ console'.error = console.error
        /\ console'.tilesets = Append(console.tilesets, t)
        /\ console'.tilesets \in Seq(Address) => console' \in ConsoleType
    BY <1>4, <2>1, <2>3, <2>4, Zenon
  <2>6. /\ Tilesets' /\ Nested' /\ console'.tilesets \in Seq(Address)
        /\ tiles' \in [Address -> 0 .. MaxTiles] /\ held' = held \cup {Texture(t)}
        /\ held' \subseteq Resource \cup {Texture(x) : x \in Address}
        /\ tiles[t] = 0 /\ tiles'[t] = n /\ \A x \in Address : x # t => tiles'[x] = tiles[x]
    BY <1>1, <1>2, <1>5, <1>a, <2>5, TilesetMade
  <2>7. app' \in AppType
    BY <1>4, <1>a, AppFields, Zenon
  <2>8. LifeTypes'
    BY <1>1, <1>2, <2>5, <2>6, <2>7 DEF LifeTypes
  <2>9. /\ held' \subseteq held \cup {Texture(x) : x \in Address}
        /\ \A s \in held : s \in held' \/ \E x \in Address : s = Texture(x)
        /\ console'.error \in {console.error, "tileset", "none"}
    BY <2>5, <2>6
  <2> QED BY <1>1, <1>6, <2>5, <2>6, <2>8, <2>9, RestKeeps
<1>b. ASSUME console' = [console EXCEPT !.error = "tileset"], UNCHANGED <<tiles, held, app>>
      PROVE  LifeInv'
  <2>1. PICK d : d = [c EXCEPT !.error = "tileset"]
    OBVIOUS
  <2>2. /\ d \in ConsoleType /\ d.error = "tileset" /\ d.window = c.window /\ d.initialized = c.initialized
        /\ d.tilesets = c.tilesets
    BY <2>1 DEF ConsoleType
  <2>3. console' = d
    BY <1>4, <1>b, <2>1, Zenon
  <2>4. /\ console' \in ConsoleType /\ console'.error = "tileset" /\ console'.window = console.window
        /\ console'.initialized = console.initialized /\ console'.tilesets = console.tilesets
    BY <1>4, <2>2, <2>3, Zenon
  <2>5. LifeTypes' /\ Tilesets' /\ Nested'
    BY <1>1, <1>2, <1>b, <2>4, Zenon DEF LifeTypes, Tilesets, Nested
  <2>6. /\ held' \subseteq held \cup {Texture(x) : x \in Address}
        /\ \A s \in held : s \in held' \/ \E x \in Address : s = Texture(x)
        /\ console'.error \in {console.error, "tileset", "none"}
    BY <1>b, <2>4, Zenon
  <2> QED BY <1>1, <1>6, <2>4, <2>5, <2>6, RestKeeps
<1> QED BY <1>3, <1>a, <1>b, Zenon

\* A tileset that is freed takes its texture with it, and nothing needs either.
LEMMA TilesetFreed ==
  ASSUME LifeTypes, Tilesets, Nested, NEW t \in Address, Destroyed(t), UNCHANGED <<gfx, layer>>,
         console'.tilesets = Untracked(t)
  PROVE  /\ Tilesets' /\ Nested' /\ console'.tilesets \in Seq(Address)
         /\ tiles' \in [Address -> 0 .. MaxTiles] /\ held' = held \ {Texture(t)}
<1>1. Once(console.tilesets) /\ console.tilesets \in Seq(Address)
  BY DEF LifeTypes, ConsoleType, Tilesets
<1>2. /\ RemoveFirst(console.tilesets, t) \in Seq(Address) /\ Once(RemoveFirst(console.tilesets, t))
      /\ \A x : Has(RemoveFirst(console.tilesets, t), x) <=> x # t /\ Has(console.tilesets, x)
  BY <1>1, RemovedIs
<1>3. PICK u \in Seq(Address) :
        /\ u = RemoveFirst(console.tilesets, t) /\ Once(u)
        /\ \A x : Has(u, x) <=> x # t /\ Has(console.tilesets, x)
  BY <1>2, Zenon
<1>4. console'.tilesets = u
  BY <1>3, Zenon DEF Untracked
<1>5. /\ tiles' = [tiles EXCEPT ![t] = 0] /\ held' = held \ {Texture(t)}
  <2>1. gfx = "none" => Texture(t) \notin held
    BY Zenon DEF Tilesets
  <2> QED BY <2>1 DEF Destroyed
<1>6. /\ tiles' \in [Address -> 0 .. MaxTiles]
      /\ \A x \in Address : tiles'[x] # 0 <=> x # t /\ tiles[x] # 0
  BY <1>5, LifetimeAssumption DEF LifeTypes
<1>7. Nested'
  <2> SUFFICES ASSUME NEW r \in held', NEW y \in NeededBy(r, layer.vt, gfx) PROVE y \in held'
    BY Zenon DEF Nested
  <2>1. y \in held
    BY <1>5, Zenon DEF Nested
  <2>2. layer.vt \in Drivers \cup {"none"}
    BY DEF LifeTypes, LayerType
  <2>3. y # Texture(t)
    BY <2>2, NothingNeedsTextures
  <2> QED BY <1>5, <2>1, <2>3
<1>8. Tilesets'
  <2>1. \A x \in Address : Texture(x) \in held' <=> x # t /\ Texture(x) \in held
    BY <1>5 DEF Texture
  <2> QED BY <1>3, <1>4, <1>6, <2>1, Zenon DEF Tilesets
<1> QED BY <1>4, <1>5, <1>6, <1>7, <1>8, Zenon

LEMMA DropTilesetKeeps ==
  ASSUME LifeInv, DropTileset
  PROVE  LifeInv'
<1>1. /\ todo = << >>
      /\ UNCHANGED <<platform, todo, layer, gfx, lost, tried, last, frame>>
  BY DEF DropTileset, Uses, Idle
<1>2. /\ LifeTypes /\ InOrder /\ Stages /\ Tilesets /\ GivesBack /\ Nested /\ TriesAll /\ FramesAreSound
  BY Zenon DEF LifeInv
<1>4. PICK c \in ConsoleType, a \in AppType : c = console /\ a = app
  BY <1>2, Zenon DEF LifeTypes
<1>h. PICK h \in Handle :
        LET t == app.tilesets[h]
        IN /\ t # NoTileset
           /\ app' = [app EXCEPT !.tilesets[h] = NoTileset]
           /\ IF t = console.builtin THEN UNCHANGED <<tiles, held, console, corrupted>>
              ELSE IF tiles[t] = 0
              THEN corrupted' = "handle" /\ UNCHANGED <<tiles, held, console>>
              ELSE /\ Destroyed(t)
                   /\ console' = [console EXCEPT !.tilesets = Untracked(t)]
                   /\ UNCHANGED corrupted
  BY Zenon DEF DropTileset
<1>3. PICK t \in {app.tilesets[h]} :
        /\ t # NoTileset
        /\ app' = [app EXCEPT !.tilesets[h] = NoTileset]
        /\ IF t = console.builtin THEN UNCHANGED <<tiles, held, console, corrupted>>
           ELSE IF tiles[t] = 0
           THEN corrupted' = "handle" /\ UNCHANGED <<tiles, held, console>>
           ELSE /\ Destroyed(t)
                /\ console' = [console EXCEPT !.tilesets = Untracked(t)]
                /\ UNCHANGED corrupted
  BY <1>h, Zenon
<1>5. app' \in AppType /\ t \in Address
  BY <1>3, <1>4, AppFields
<1>6. FramesAreSound'
  BY <1>1, <1>2, <1>3 DEF FramesAreSound
<1>a. CASE UNCHANGED <<tiles, held, console>>
  <2>1. /\ console' \in ConsoleType /\ (console' = console \/ console.initialized)
        /\ console'.initialized = console.initialized /\ console'.window = console.window
        /\ console'.tilesets = console.tilesets /\ console'.error = console.error
    BY <1>4, <1>a, Zenon
  <2> QED BY <1>1, <1>5, <1>6, <1>a, <2>1, LooksOnly
<1>b. CASE tiles[t] # 0 /\ Destroyed(t) /\ console' = [console EXCEPT !.tilesets = Untracked(t)]
  <2>1. PICK u : u = Untracked(t)
    OBVIOUS
  <2>2. PICK d : d = [c EXCEPT !.tilesets = u]
    OBVIOUS
  <2>3. /\ d.initialized = c.initialized /\ d.window = c.window /\ d.error = c.error /\ d.tilesets = u
        /\ u \in Seq(Address) => d \in ConsoleType
    BY <2>2 DEF ConsoleType
  <2>4. console' = d
    BY <1>4, <1>b, <2>1, <2>2, Zenon
  <2>5. /\ console'.initialized = console.initialized /\ console'.window = console.window
        /\ console'.error = console.error /\ console'.tilesets = Untracked(t)
        /\ console'.tilesets \in Seq(Address) => console' \in ConsoleType
    BY <1>4, <2>1, <2>3, <2>4, Zenon
  <2>6. /\ Tilesets' /\ Nested' /\ console'.tilesets \in Seq(Address)
        /\ tiles' \in [Address -> 0 .. MaxTiles] /\ held' = held \ {Texture(t)}
    BY <1>1, <1>2, <1>5, <1>b, <2>5, TilesetFreed
  <2>7. LifeTypes'
    BY <1>1, <1>2, <1>5, <2>5, <2>6 DEF LifeTypes
  <2>8. /\ held' \subseteq held \cup {Texture(x) : x \in Address}
        /\ \A s \in held : s \in held' \/ \E x \in Address : s = Texture(x)
        /\ console'.error \in {console.error, "tileset", "none"}
    BY <1>5, <2>5, <2>6
  <2>9. console.initialized
    <3>1. Things = {} => tiles[t] = 0
      BY <1>2, <1>5, NoThings
    <3>2. ~console.initialized => Things = {}
      BY <1>1, AtRest
    <3> QED BY <1>b, <3>1, <3>2
  <2> QED BY <1>1, <1>6, <2>5, <2>6, <2>7, <2>8, <2>9, RestKeeps
<1> QED BY <1>3, <1>a, <1>b, Zenon

-----------------------------------------------------------------------------
(* The constructor and the destructor of an app *)

\* A start or a shutdown is over: there is a console, or nothing.
LEMMA OverKeeps ==
  ASSUME LifeInv, todo # << >>, todo' = << >>, Without(todo, "renderer"),
         UNCHANGED <<platform, layer, console, gfx, tiles, held, tried, frame, corrupted>>,
         app' \in AppType,
         \/ Past("backend") /\ Past("window") /\ Past("renderer") /\ Past("builtin")
         \/ Things = {}
  PROVE  LifeInv'
<1>1. /\ LifeTypes /\ InOrder /\ Stages /\ Tilesets /\ GivesBack /\ Nested /\ TriesAll /\ FramesAreSound
  BY Zenon DEF LifeInv
<1>2. /\ InOrder' /\ Starts(todo') /\ Retries(todo') /\ todo' \in Seq(AnyCall)
      /\ (Up' <=> console.initialized)
  BY NothingToDo, Zenon DEF InOrder, Up, Alive
<1>3. LifeTypes'
  BY <1>1, <1>2 DEF LifeTypes
<1>4. Tilesets' /\ Nested' /\ FramesAreSound'
  BY <1>1, Zenon DEF Tilesets, Nested, FramesAreSound
<1>5. TriesAll'
  <2>1. BackendOrders' = BackendOrders /\ Renderers' = Renderers
    BY Zenon DEF BackendOrders, Renderers
  <2>2. PICK e, f : e = console.error /\ f = tried
    OBVIOUS
  <2>3. /\ e = "backend" => \A bs \in BackendOrders : Elements(bs) \subseteq f
        /\ e = "renderer" => Renderers \subseteq f
    BY <1>1, <2>2, Zenon DEF TriesAll, Tries, Without
  <2>4. Tries(<< >>, e, f)
    BY <2>3, NothingTried, Zenon
  <2> QED BY <2>1, <2>2, <2>4, Zenon DEF TriesAll, Tries
<1>6. Orderly(Things', todo', layer'.vt, gfx', console'.builtin)
  BY NothingToDo, Zenon
<1>7. Things' = Things
  BY Zenon DEF Things
<1>8. Stages' /\ GivesBack'
  <2>1. CASE Things = {}
    <3>1. ~console.initialized
      BY <1>1, <2>1, NoThings
    <3>2. \A s \in Things' : Given(s, todo', Len(todo'), console'.builtin)
      BY <1>7, <2>1, Zenon
    <3> QED BY <1>2, <1>6, <3>1, <3>2, Zenon DEF Stages, Past, GivesBack
  <2>2. CASE Past("backend") /\ Past("window") /\ Past("renderer") /\ Past("builtin")
    <3>1. /\ layer.vt \in Drivers /\ Base(layer.vt) \in held
          /\ console.window /\ <<layer.vt, "window">> \in held
          /\ Starts(todo) /\ gfx \in Working /\ gfx \in Tried /\ Maker(gfx, layer.vt) \in held
          /\ held \subseteq SystemRes(layer.vt) \cup WindowRes(layer.vt)
                              \cup RendererRes(gfx, layer.vt) \cup {Texture(t) : t \in Address}
      BY <1>1, <2>2, ConsoleRuns
    <3>2. console.initialized
      BY <1>1, <2>2, Zenon DEF Stages
    <3>3. held' \subseteq SystemRes(layer'.vt) \cup WindowRes(layer'.vt)
                             \cup RendererRes(gfx', layer'.vt) \cup {Texture(t) : t \in Address}
      BY <3>1
    <3>4. /\ layer'.vt \in Drivers /\ Base(layer'.vt) \in held'
          /\ console'.window /\ <<layer'.vt, "window">> \in held'
          /\ gfx' \in Working /\ Maker(gfx', layer'.vt) \in held' /\ console'.initialized
      BY <3>1, <3>2
    <3>5. Stages'
      BY <1>2, <3>3, <3>4, Zenon DEF Stages
    <3>6. GivesBack'
      BY <1>2, <1>6, <3>2, Zenon DEF GivesBack
    <3> QED BY <3>5, <3>6
  <2> QED BY <2>1, <2>2
<1> QED BY <1>2, <1>3, <1>4, <1>5, <1>8, Zenon DEF LifeInv

LEMMA OnlyCall ==
  ASSUME NEW what \in {"started", "failed"}
  PROVE  /\ << Call(what, "") >> # << >> /\ Head(<< Call(what, "") >>)[1] = what
         /\ \A x : x # what => Without(<< Call(what, "") >>, x)
<1>1. PICK c \in AnyCall : c = Call(what, "") /\ c[1] = what
  <2>1. <<what, "">> \in AnyCall
    BY DEF AnyCall
  <2> QED BY <2>1 DEF Call
<1>2. /\ << c >> \in Seq(AnyCall) /\ Len(<< c >>) = 1 /\ << c >>[1] = c /\ << c >> # << >>
  BY OneIs, Zenon
<1>3. PICK one \in Seq(AnyCall) : one = << c >> /\ Len(one) = 1 /\ one[1] = c /\ one # << >>
  BY <1>2, Zenon
<1>4. \A i \in 1 .. 1 : i = 1
  OBVIOUS
<1>5. \A i \in 1 .. Len(one) : one[i][1] = what
  BY <1>1, <1>3, <1>4, Zenon
<1>6. \A x : x # what => Without(one, x)
  BY <1>5, Zenon DEF Without
<1>7. Head(one) = one[1]
  BY <1>3, TailIs, Zenon
<1>8. Head(one)[1] = what
  BY <1>1, <1>3, <1>7, Zenon
<1> QED BY <1>1, <1>3, <1>6, <1>8, Zenon

LEMMA EndsKeeps ==
  ASSUME LifeInv, NEW how \in {"started", "failed"}, Ends(how)
  PROVE  LifeInv'
<1>1. /\ todo = << Call(how, "") >> /\ todo' = << >>
      /\ app' = [app EXCEPT !.active = IF how = "started" THEN @ + 1 ELSE @]
      /\ UNCHANGED <<platform, layer, console, gfx, tiles, held, lost, tried, frame, corrupted>>
  BY DEF Ends
<1>2. /\ LifeTypes /\ InOrder /\ Stages /\ Tilesets /\ GivesBack /\ Nested /\ TriesAll /\ FramesAreSound
  BY Zenon DEF LifeInv
<1>3. /\ << Call(how, "") >> # << >> /\ Head(<< Call(how, "") >>)[1] = how
      /\ \A x : x # how => Without(<< Call(how, "") >>, x)
  BY OnlyCall
<1>4. /\ todo # << >> /\ Head(todo)[1] = how /\ \A x : x # how => Without(todo, x)
  BY <1>1, <1>3, Zenon
<1>5. Without(todo, "renderer")
  <2>1. how # "renderer"
    OBVIOUS
  <2> QED BY <1>4, <2>1, Zenon
<1>6. app' \in AppType
  <2>1. PICK a \in AppType : a = app
    BY <1>2, Zenon DEF LifeTypes
  <2>2. PICK n \in Nat : n = IF how = "started" THEN a.active + 1 ELSE a.active
    <3>1. a.active \in Nat
      BY AppFields
    <3>2. a.active + 1 \in Nat
      BY <3>1
    <3> QED BY <3>1, <3>2
  <2>3. app' = [a EXCEPT !.active = n]
    BY <1>1, <2>1, <2>2, Zenon
  <2> QED BY <2>3, AppFields, Zenon
<1>a. CASE how = "started"
  <2>1. Up
    BY <1>1, <1>a, StartedCall, Zenon DEF Up
  <2>2. \A x \in {"backend", "window", "renderer", "builtin"} : x # "started"
    OBVIOUS
  <2>3. \A x \in {"backend", "window", "renderer", "builtin"} : Past(x)
    BY <1>4, <1>a, <2>1, <2>2, Zenon DEF Past
  <2>4. Past("backend") /\ Past("window") /\ Past("renderer") /\ Past("builtin")
    BY <2>3
  <2> QED BY <1>1, <1>4, <1>5, <1>6, <2>4, OverKeeps
<1>b. CASE how = "failed"
  <2>1. \A s \in Things : Bears(Head(todo), s, layer.vt, gfx)
    BY <1>2, <1>4, HeadBears, Zenon
  <2>2. Head(todo)[1] \in {"backend", "failed", "report"}
    BY <1>4, <1>b
  <2>3. Things = {}
    <3>1. \A s : s \notin Things
      BY <2>1, <2>2, Zenon DEF Bears
    <3> QED BY <3>1, Zenon
  <2> QED BY <1>1, <1>4, <1>5, <1>6, <2>3, OverKeeps
<1> QED BY <1>a, <1>b

LEMMA EndAppKeeps ==
  ASSUME LifeInv, EndApp
  PROVE  LifeInv'
<1>1. /\ todo = << >> /\ todo' = Shutdown /\ app.active > 0
      /\ app' = [app EXCEPT !.active = @ - 1, !.cell = Blank]
      /\ UNCHANGED <<platform, layer, console, gfx, tiles, held, lost, tried, last, frame, corrupted>>
  BY DEF EndApp, Idle
<1>2. /\ LifeTypes /\ InOrder /\ Stages /\ Tilesets /\ GivesBack /\ Nested /\ TriesAll /\ FramesAreSound
  BY Zenon DEF LifeInv
<1>3. app' \in AppType
  <2>1. PICK a \in AppType : a = app
    BY <1>2, Zenon DEF LifeTypes
  <2>2. PICK n \in Nat : n = a.active - 1
    <3>1. a.active \in Nat /\ a.active > 0
      BY <1>1, <2>1, AppFields
    <3> QED BY <3>1
  <2>3. Blank \in [tileset : Address \cup {NoTileset}, glyph : 0 .. MaxTiles]
    BY LifetimeAssumption DEF Blank
  <2>4. app' = [a EXCEPT !.active = n, !.cell = Blank]
    BY <1>1, <2>1, <2>2, Zenon
  <2> QED BY <2>3, <2>4, AppFields, Zenon
<1>4. console.tilesets \in Seq(Address) /\ console.builtin \in Address \cup {NoTileset}
  BY <1>2 DEF LifeTypes, ConsoleType
<1>5. /\ Up <=> console.initialized
      /\ console.initialized =>
           /\ layer.vt \in Drivers /\ Base(layer.vt) \in held
           /\ console.window /\ <<layer.vt, "window">> \in held
           /\ gfx \in Working /\ gfx \in Tried /\ Maker(gfx, layer.vt) \in held
           /\ held \subseteq SystemRes(layer.vt) \cup WindowRes(layer.vt)
                               \cup RendererRes(gfx, layer.vt) \cup {Texture(t) : t \in Address}
      /\ ~console.initialized => Things = {}
      /\ console.error = "backend" => \A bs \in BackendOrders : Elements(bs) \subseteq tried
      /\ console.error = "renderer" => Renderers \subseteq tried
  BY <1>1, AtRest
<1>6. \E x : Giving(x) /\ Shutdown = x \o << Call("reset", "") >>
  <2>1. CASE console.initialized
    BY <1>4, <1>5, <2>1, GivingShutdown, Zenon
  <2>2. CASE ~console.initialized
    <3>1. gfx = "none" /\ ~console.window
      BY <1>2, <1>5, <2>2, NoThings
    <3> QED BY <1>4, <3>1, GivingShutdown, Zenon
  <2> QED BY <2>1, <2>2
<1>7. PICK list, x : /\ list = Shutdown /\ Giving(x) /\ list = x \o << Call("reset", "") >>
  BY <1>6, Zenon
<1>8. "reset" \in {"failed", "report", "reset"}
  OBVIOUS
<1>9. /\ list \in Seq(AnyCall) /\ list # << >> /\ Ordered(list)
      /\ \A a : ~Alive(list, a)
      /\ \A e, d : /\ e = "backend" => \A bs \in BackendOrders : Elements(bs) \subseteq d
                   /\ e = "renderer" => Renderers \subseteq d
                   => Tries(list, e, d)
  BY <1>7, <1>8, EndsWith
<1>10. todo' = list
  BY <1>1, <1>7, Zenon
<1>11. InOrder' /\ ~Up' /\ todo' \in Seq(AnyCall)
  BY <1>9, <1>10, Zenon DEF InOrder, Up
<1>12. LifeTypes'
  BY <1>1, <1>2, <1>3, <1>11 DEF LifeTypes
<1>13. Stages'
  BY <1>11, Zenon DEF Stages, Past
<1>14. TriesAll'
  <2>1. BackendOrders' = BackendOrders /\ Renderers' = Renderers
    BY <1>1, Zenon DEF BackendOrders, Renderers
  <2>2. PICK e, f : e = console.error /\ f = tried
    OBVIOUS
  <2>3. Tries(list, e, f)
    BY <1>5, <1>9, <2>2, Zenon
  <2> QED BY <1>1, <1>10, <2>1, <2>2, <2>3, Zenon DEF TriesAll, Tries
<1>15. Things' = Things
  BY <1>1, Zenon DEF Things
<1>16. GivesBack'
  <2>1. CASE ~console.initialized
    <3>1. /\ \A s \in Things' : Given(s, todo', Len(todo'), console'.builtin)
          /\ Orderly(Things', todo', layer'.vt, gfx', console'.builtin)
      BY <1>5, <1>15, <2>1, NothingToGive, Zenon
    <3> QED BY <3>1, Zenon DEF GivesBack
  <2>2. CASE console.initialized
    <3>1. Sheds(Things \cup {TheConsole}, Shutdown, {}, layer.vt, gfx, console.builtin)
      BY <1>2, <1>4, <1>5, <2>2, ShedsShutdown
    <3>2. PICK S, vt, r, b : S = Things /\ vt = layer.vt /\ r = gfx /\ b = console.builtin
      OBVIOUS
    <3>3. S \subseteq Things \cup {TheConsole}
      BY <3>2
    <3>0. PICK B : B = Things \cup {TheConsole}
      OBVIOUS
    <3>7. Sheds(B, list, {}, vt, r, b) /\ S \subseteq B
      BY <1>7, <3>0, <3>1, <3>2, <3>3, Zenon
    <3>4. Sheds(S, list, {}, vt, r, b)
      BY <3>7, ShedsFewer
    <3>5. Sheds(Things', todo', {}, layer'.vt, gfx', console'.builtin)
      BY <1>1, <1>10, <1>15, <3>2, <3>4, Zenon
    <3>6. /\ \A s \in Things' : Given(s, todo', Len(todo'), console'.builtin)
          /\ Orderly(Things', todo', layer'.vt, gfx', console'.builtin)
      BY <3>5, Zenon DEF Sheds
    <3> QED BY <3>6, Zenon DEF GivesBack
  <2> QED BY <2>1, <2>2
<1>17. Nested' /\ Tilesets' /\ FramesAreSound'
  BY <1>1, <1>2, Zenon DEF Nested, Tilesets, FramesAreSound
<1> QED BY <1>11, <1>12, <1>13, <1>14, <1>16, <1>17, Zenon DEF LifeInv

LEMMA OneOrder ==
  ASSUME NEW S, NEW x \in S
  PROVE  << x >> \in Lists(S) /\ Elements(<< x >>) = {x}
<1>1. << x >> \in Seq(S) /\ Len(<< x >>) = 1 /\ << x >>[1] = x /\ << x >> # << >>
  BY OneIs
<1>2. PICK s : s = << x >> /\ s \in Seq(S) /\ Len(s) = 1 /\ s[1] = x /\ s # << >>
  BY <1>1, Zenon
<1>3. Elements(s) = {x}
  <2>1. 1 .. Len(s) = {1}
    BY <1>2
  <2> QED BY <1>2, <2>1 DEF Elements
<1> QED BY <1>2, <1>3, Zenon DEF Lists

LEMMA OneBefore ==
  ASSUME NEW S, NEW x \in S, NEW s \in Lists(S)
  PROVE  << x >> \o s \in Lists(S) /\ Elements(<< x >> \o s) = {x} \cup Elements(s)
<1>1. << x >> \in Seq(S) /\ Len(<< x >>) = 1 /\ << x >>[1] = x /\ << x >> # << >>
  BY OneIs
<1>2. s \in Seq(S)
  BY DEF Lists
<1>3. PICK one : one = << x >> /\ one \in Seq(S) /\ Len(one) = 1 /\ one[1] = x
  BY <1>1, Zenon
<1>4. /\ one \o s \in Seq(S) /\ Len(one \o s) = Len(one) + Len(s) /\ Len(s) \in Nat
      /\ \A i \in 1 .. Len(one) : (one \o s)[i] = one[i]
  BY <1>2, <1>3, CatIs, Zenon
<1>5. \A i \in 1 .. Len(s) : (one \o s)[1 + i] = s[i]
  <2>1. \A i \in 1 .. Len(s) : (one \o s)[Len(one) + i] = s[i]
    BY <1>2, <1>3, CatGoesOn
  <2> QED BY <1>3, <2>1, Zenon
<1>6. PICK u \in Seq(S), n \in Nat : /\ u = one \o s /\ u \in Seq(S) /\ n = Len(s) /\ Len(u) = 1 + n
                          /\ u[1] = x /\ \A i \in 1 .. n : u[1 + i] = s[i]
  <2>1. 1 \in 1 .. Len(one)
    BY <1>3
  <2>2. (one \o s)[1] = x
    BY <1>3, <1>4, <2>1, Zenon
  <2>3. Len(one \o s) = 1 + Len(s)
    BY <1>3, <1>4, Zenon
  <2> QED BY <1>4, <1>5, <2>2, <2>3, Zenon
<1>7. u # << >>
  <2>1. Len(u) # 0
    BY <1>6
  <2> QED BY <2>1, NothingToDo, Zenon
<1>8. Elements(u) = {x} \cup Elements(s)
  <2>1. \A i \in 1 .. 1 + n : i = 1 \/ \E k \in 1 .. n : i = 1 + k
    <3> SUFFICES ASSUME NEW i \in 1 .. 1 + n, i # 1 PROVE \E k \in 1 .. n : i = 1 + k
      OBVIOUS
    <3>1. i - 1 \in 1 .. n /\ i = 1 + (i - 1)
      BY <1>6
    <3> QED BY <3>1
  <2>2. 1 \in 1 .. 1 + n /\ \A k \in 1 .. n : 1 + k \in 1 .. 1 + n
    BY <1>6
  <2>3. \A y : y \in Elements(u) => y = x \/ y \in Elements(s)
    <3> SUFFICES ASSUME NEW i \in 1 .. Len(u), u[i] # x PROVE u[i] \in Elements(s)
      BY Zenon DEF Elements
    <3>1. i \in 1 .. 1 + n
      BY <1>6, Zenon
    <3>2. PICK k \in 1 .. n : i = 1 + k
      BY <1>6, <2>1, <3>1, Zenon
    <3> QED BY <1>6, <3>2, Zenon DEF Elements
  <2>4. \A y : y = x \/ y \in Elements(s) => y \in Elements(u)
    BY <1>6, <2>2, Zenon DEF Elements
  <2> QED BY <2>3, <2>4
<1> QED BY <1>3, <1>6, <1>7, <1>8, Zenon DEF Lists

LEMMA TwoIs ==
  ASSUME NEW S, NEW x \in S, NEW y \in S
  PROVE  <<x, y>> \in Seq(S) /\ Len(<<x, y>>) = 2 /\ <<x, y>>[1] = x /\ <<x, y>>[2] = y /\ <<x, y>> # << >>
OBVIOUS

LEMMA FourIs ==
  ASSUME NEW S, NEW a \in S, NEW b \in S, NEW c \in S, NEW d \in S
  PROVE  /\ <<a, b, c, d>> \in Seq(S) /\ Len(<<a, b, c, d>>) = 4 /\ <<a, b, c, d>>[1] = a
         /\ <<a, b, c, d>>[2] = b /\ <<a, b, c, d>>[3] = c /\ <<a, b, c, d>>[4] = d
OBVIOUS

LEMMA TwoOrder ==
  ASSUME NEW S, NEW x \in S, NEW y \in S
  PROVE  <<x, y>> \in Lists(S) /\ Elements(<<x, y>>) = {x, y}
<1>1. <<x, y>> \in Seq(S) /\ Len(<<x, y>>) = 2 /\ <<x, y>>[1] = x /\ <<x, y>>[2] = y /\ <<x, y>> # << >>
  BY TwoIs
<1>2. PICK s : s = <<x, y>> /\ s \in Seq(S) /\ Len(s) = 2 /\ s[1] = x /\ s[2] = y /\ s # << >>
  BY <1>1, Zenon
<1>3. Elements(s) = {x, y}
  <2>1. 1 .. Len(s) = {1, 2}
    BY <1>2
  <2> QED BY <1>2, <2>1 DEF Elements
<1> QED BY <1>2, <1>3, Zenon DEF Lists

\* The orders a start may try backends in: each holds every one there is.
LEMMA BackendOrdersAre ==
  ASSUME platform \in Platforms, NEW bs \in BackendOrders
  PROVE  bs \in Lists(Drivers) /\ \A os \in BackendOrders : Elements(os) \subseteq Elements(bs)
<1>1. platform \in {"unix", "windows", "macos"}
  BY LifetimeAssumption
<1>2. {"wayland", "x11", "win32", "cocoa"} \subseteq Drivers
  BY DEF Drivers
<1>a. CASE platform = "unix"
  <2>1. BackendOrders = {<<"wayland", "x11">>, <<"x11", "wayland">>}
    BY <1>a DEF BackendOrders
  <2>2. PICK x \in Drivers, y \in Drivers : x = "wayland" /\ y = "x11"
    BY <1>2
  <2>3. /\ <<x, y>> \in Lists(Drivers) /\ Elements(<<x, y>>) = {x, y}
        /\ <<y, x>> \in Lists(Drivers) /\ Elements(<<y, x>>) = {y, x}
    BY TwoOrder
  <2>4. \A os \in BackendOrders : os \in Lists(Drivers) /\ Elements(os) = {x, y}
    BY <2>1, <2>2, <2>3
  <2> QED BY <2>4
<1>b. CASE platform = "windows"
  <2>1. BackendOrders = {<<"win32">>}
    BY <1>b DEF BackendOrders
  <2>2. <<"win32">> \in Lists(Drivers)
    BY <1>2, OneOrder
  <2> QED BY <2>1, <2>2
<1>c. CASE platform = "macos"
  <2>1. BackendOrders = {<<"cocoa">>}
    BY <1>c DEF BackendOrders
  <2>2. <<"cocoa">> \in Lists(Drivers)
    BY <1>2, OneOrder
  <2> QED BY <2>1, <2>2
<1> QED BY <1>1, <1>a, <1>b, <1>c

\* The same of the renderers, with one named by the environment in front.
LEMMA RendererOrdersAre ==
  ASSUME NEW rs \in RendererOrders
  PROVE  rs \in Lists(Tried) /\ Renderers \subseteq Elements(rs)
<1>1. PICK all : all = IF platform = "macos" THEN <<"metal", "opengl">> ELSE <<"opengl">>
  OBVIOUS
<1>2. rs \in {all, <<"test-fail">> \o all} \cup {<<all[i]>> \o RemoveAt(all, i) : i \in DOMAIN all}
  BY <1>1, Zenon DEF RendererOrders
<1>3. "opengl" \in Tried /\ "metal" \in Tried /\ "test-fail" \in Tried
  BY DEF Tried
<1>4. <<"opengl">> \in Lists(Tried) /\ Elements(<<"opengl">>) = {"opengl"}
  BY <1>3, OneOrder
<1>5. <<"metal", "opengl">> \in Lists(Tried) /\ Elements(<<"metal", "opengl">>) = {"metal", "opengl"}
  BY <1>3, TwoOrder
<1>7. PICK few : few = Renderers
  OBVIOUS
<1>8. few = IF platform = "macos" THEN {"metal", "opengl"} ELSE {"opengl"}
  BY <1>7, Zenon DEF Renderers
<1>9. all \in Lists(Tried) /\ Elements(all) = few
  <2>1. CASE platform = "macos"
    BY <1>1, <1>5, <1>8, <2>1
  <2>2. CASE platform # "macos"
    BY <1>1, <1>4, <1>8, <2>2
  <2> QED BY <2>1, <2>2
<1>10. all \in Seq(Tried)
  BY <1>9, Zenon DEF Lists
<1>a. CASE rs = all
  BY <1>7, <1>9, <1>a
<1>b. CASE rs = <<"test-fail">> \o all
  <2>1. /\ <<"test-fail">> \o all \in Lists(Tried)
        /\ Elements(<<"test-fail">> \o all) = {"test-fail"} \cup Elements(all)
    BY <1>3, <1>9, OneBefore
  <2> QED BY <1>7, <1>9, <1>b, <2>1
<1>c. CASE \E i \in DOMAIN all : rs = <<all[i]>> \o RemoveAt(all, i)
  <2>1. DOMAIN all = 1 .. Len(all) /\ \A i \in 1 .. Len(all) : all[i] \in Tried
    BY <1>10, LenProperties, ElementOfSeq
  <2>2. PICK n \in 1 .. Len(all) : rs = <<all[n]>> \o RemoveAt(all, n)
    BY <1>c, <2>1
  <2>3. /\ RemoveAt(all, n) \in Seq(Tried) /\ Len(RemoveAt(all, n)) = Len(all) - 1 /\ Len(all) \in Nat
        /\ \A i \in 1 .. Len(all) - 1 : RemoveAt(all, n)[i] = IF i < n THEN all[i] ELSE all[i + 1]
    BY <1>10, RemoveAtIs
  <2>4. PICK r \in Seq(Tried), x \in Tried, m \in Nat :
          /\ r = RemoveAt(all, n) /\ x = all[n] /\ m = Len(all) /\ Len(r) = m - 1 /\ rs = <<x>> \o r
          /\ \A i \in 1 .. m - 1 : r[i] = IF i < n THEN all[i] ELSE all[i + 1]
    BY <2>1, <2>2, <2>3, Zenon
  <2>5. CASE r = << >>
    <3>1. m = 1 /\ n = 1
      <4>1. Len(r) = 0
        BY <2>5, NothingToDo, Zenon
      <4>2. m - 1 = 0 /\ n \in 1 .. m
        BY <2>4, <4>1
      <4> QED BY <4>2
    <3>2. rs = <<x>>
      BY <2>4, <2>5
    <3>3. rs \in Lists(Tried) /\ Elements(rs) = {x}
      BY <3>2, OneOrder
    <3>4. \A i \in 1 .. m : i = n
      BY <3>1
    <3>5. Elements(all) \subseteq {x}
      BY <2>4, <3>4, Zenon DEF Elements
    <3> QED BY <1>7, <1>9, <3>3, <3>5
  <2>6. CASE r # << >>
    <3>1. r \in Lists(Tried)
      BY <2>6, Zenon DEF Lists
    <3>2. rs \in Lists(Tried) /\ Elements(rs) = {x} \cup Elements(r)
      BY <2>4, <3>1, OneBefore
    <3>3. ASSUME NEW i \in 1 .. Len(all) PROVE all[i] = x \/ all[i] \in Elements(r)
      <4>1. CASE i < n
        <5>1. i \in 1 .. m - 1
          BY <2>4, <4>1
        <5>2. r[i] = all[i] /\ i \in 1 .. Len(r)
          BY <2>4, <4>1, <5>1
        <5> QED BY <5>2, Zenon DEF Elements
      <4>2. CASE i = n
        BY <2>4, <4>2
      <4>3. CASE i > n
        <5>1. PICK j \in 1 .. m - 1 : j = i - 1 /\ ~(j < n) /\ j + 1 = i
          BY <2>4, <4>3
        <5>2. r[j] = all[i] /\ j \in 1 .. Len(r)
          BY <2>4, <5>1
        <5> QED BY <5>2, Zenon DEF Elements
      <4> QED BY <2>4, <4>1, <4>2, <4>3
    <3>4. Elements(all) \subseteq Elements(rs)
      BY <3>2, <3>3 DEF Elements
    <3> QED BY <1>7, <1>9, <3>2, <3>4
  <2> QED BY <2>5, <2>6
<1> QED BY <1>2, <1>a, <1>b, <1>c

StartsAs(u, a, b, c, d, e, f) ==
  /\ Len(u) \in {5, 6} /\ u # << >>
  /\ u[1] = a /\ u[2] = b /\ u[3] = c /\ u[4] = d
  /\ (Len(u) = 6 => u[5] = e) /\ u[Len(u)] = f

LEMMA SheetBetween ==
  ASSUME NEW S, NEW a \in S, NEW b \in S, NEW c \in S, NEW d \in S, NEW e \in S, NEW f \in S,
         NEW sheet, sheet = << >> \/ sheet = << e >>
  PROVE  /\ (<< a, b, c, d >> \o sheet) \o << f >> \in Seq(S)
         /\ StartsAs((<< a, b, c, d >> \o sheet) \o << f >>, a, b, c, d, e, f)
<1>3. PICK x \in Seq(S), y \in Seq(S), z \in Seq(S), n \in Nat :
        /\ x = << a, b, c, d >> /\ Len(x) = 4 /\ x[1] = a /\ x[2] = b /\ x[3] = c /\ x[4] = d
        /\ y = << f >> /\ Len(y) = 1 /\ y[1] = f
        /\ z = sheet /\ n = Len(z) /\ n \in {0, 1} /\ (n = 1 => z[1] = e)
  <2>1. /\ << a, b, c, d >> \in Seq(S) /\ Len(<< a, b, c, d >>) = 4 /\ << a, b, c, d >>[1] = a
        /\ << a, b, c, d >>[2] = b /\ << a, b, c, d >>[3] = c /\ << a, b, c, d >>[4] = d
    BY FourIs
  <2>2. << f >> \in Seq(S) /\ Len(<< f >>) = 1 /\ << f >>[1] = f /\ << f >> # << >>
    BY OneIs
  <2>3. << e >> \in Seq(S) /\ Len(<< e >>) = 1 /\ << e >>[1] = e /\ << e >> # << >>
    BY OneIs
  <2>4. << >> \in Seq(S) /\ Len(<< >>) = 0
    BY NoneIs
  <2>5. /\ sheet \in Seq(S) /\ Len(sheet) \in {0, 1} /\ (Len(sheet) = 1 => sheet[1] = e)
    <3>1. CASE sheet = << >>
      <4>1. 0 # 1
        OBVIOUS
      <4>2. Len(sheet) = 0
        BY <2>4, <3>1, Zenon
      <4> QED BY <2>4, <3>1, <4>1, <4>2
    <3>2. CASE sheet = << e >>
      BY <2>3, <3>2
    <3> QED BY <3>1, <3>2
  <2>6. Len(sheet) \in Nat
    BY <2>5, LenProperties
  <2> QED BY <2>1, <2>2, <2>5, <2>6, Zenon
<1>4. PICK w \in Seq(S) :
        /\ w = x \o z /\ Len(w) = 4 + n /\ w[1] = a /\ w[2] = b /\ w[3] = c /\ w[4] = d
        /\ n = 1 => w[5] = e
  <2>1. /\ x \o z \in Seq(S) /\ Len(x \o z) = Len(x) + Len(z)
        /\ Len(x) \in Nat /\ Len(z) \in Nat
        /\ \A i \in 1 .. Len(x) : (x \o z)[i] = x[i]
    BY CatIs
  <2>2. \A i \in 1 .. Len(z) : (x \o z)[Len(x) + i] = z[i]
    BY CatGoesOn
  <2>3. PICK v \in Seq(S) :
          /\ v = x \o z /\ Len(v) = Len(x) + Len(z) /\ \A i \in 1 .. Len(x) : v[i] = x[i]
          /\ \A i \in 1 .. Len(z) : v[Len(x) + i] = z[i]
    BY <2>1, <2>2, Zenon
  <2>4. Len(v) = 4 + n /\ v[1] = a /\ v[2] = b /\ v[3] = c /\ v[4] = d /\ (n = 1 => v[5] = e)
    BY <1>3, <2>3
  <2> QED BY <2>3, <2>4
<1>5. PICK u \in Seq(S) :
        /\ u = w \o y /\ Len(u) = 5 + n /\ u[1] = a /\ u[2] = b /\ u[3] = c /\ u[4] = d
        /\ (n = 1 => u[5] = e) /\ u[5 + n] = f
  <2>1. /\ w \o y \in Seq(S) /\ Len(w \o y) = Len(w) + Len(y)
        /\ Len(w) \in Nat /\ Len(y) \in Nat
        /\ \A i \in 1 .. Len(w) : (w \o y)[i] = w[i]
    BY CatIs
  <2>2. \A i \in 1 .. Len(y) : (w \o y)[Len(w) + i] = y[i]
    BY CatGoesOn
  <2>3. PICK v \in Seq(S) :
          /\ v = w \o y /\ Len(v) = Len(w) + Len(y) /\ \A i \in 1 .. Len(w) : v[i] = w[i]
          /\ \A i \in 1 .. Len(y) : v[Len(w) + i] = y[i]
    BY <2>1, <2>2, Zenon
  <2>4. /\ Len(v) = 5 + n /\ v[1] = a /\ v[2] = b /\ v[3] = c /\ v[4] = d /\ (n = 1 => v[5] = e)
        /\ v[5 + n] = f
    BY <1>3, <1>4, <2>3
  <2> QED BY <2>3, <2>4
<1>6. Len(u) \in {5, 6} /\ (Len(u) = 6 => u[5] = e) /\ u[Len(u)] = f /\ Len(u) # 0
  <2>1. \A m \in {0, 1} : 5 + m \in {5, 6} /\ (5 + m = 6 => m = 1) /\ 5 + m # 0
    OBVIOUS
  <2> QED BY <1>3, <1>5, <2>1, Zenon
<1>7. u # << >>
  BY <1>6, NothingToDo, Zenon
<1> QED BY <1>3, <1>4, <1>5, <1>6, <1>7, Zenon DEF StartsAs

\* The calls of a start, with a sheet to load or without.
StartCalls(list, bs, rs) ==
  /\ list \in Seq(AnyCall) /\ Len(list) \in {5, 6} /\ list # << >>
  /\ list[1][1] = "backend" /\ list[1][2] = bs /\ list[2][1] = "window"
  /\ list[3][1] = "renderer" /\ list[3][2] = rs /\ list[4][1] = "builtin"
  /\ list[Len(list)][1] = "root" /\ (Len(list) = 6 => list[5][1] = "tileset")

LEMMA StartList ==
  ASSUME NEW bs \in Lists(Drivers), NEW rs \in Lists(Tried),
         NEW sheet \in {<< >>, <<Call("tileset", "")>>},
         NEW list, list = << Call("backend", bs), Call("window", ""), Call("renderer", rs),
                             Call("builtin", "") >> \o sheet \o << Call("root", "") >>
  PROVE  StartCalls(list, bs, rs)
<1>1. PICK a \in AnyCall, b \in AnyCall, c \in AnyCall, d \in AnyCall, e \in AnyCall, f \in AnyCall :
        /\ a = <<"backend", bs>> /\ b = <<"window", "">> /\ c = <<"renderer", rs>>
        /\ d = <<"builtin", "">> /\ e = <<"tileset", "">> /\ f = <<"root", "">>
  <2>1. /\ <<"backend", bs>> \in AnyCall /\ <<"window", "">> \in AnyCall /\ <<"renderer", rs>> \in AnyCall
        /\ <<"builtin", "">> \in AnyCall /\ <<"tileset", "">> \in AnyCall /\ <<"root", "">> \in AnyCall
    BY DEF AnyCall
  <2> QED BY <2>1, Zenon
<1>2. list = (<< a, b, c, d >> \o sheet) \o << f >> /\ (sheet = << >> \/ sheet = << e >>)
  BY <1>1, Zenon DEF Call
<1>3. /\ (<< a, b, c, d >> \o sheet) \o << f >> \in Seq(AnyCall)
      /\ StartsAs((<< a, b, c, d >> \o sheet) \o << f >>, a, b, c, d, e, f)
  BY <1>2, SheetBetween, Zenon
<1>4. list \in Seq(AnyCall) /\ StartsAs(list, a, b, c, d, e, f)
  BY <1>2, <1>3, Zenon
<1>5. /\ a[1] = "backend" /\ a[2] = bs /\ b[1] = "window" /\ c[1] = "renderer" /\ c[2] = rs
      /\ d[1] = "builtin" /\ e[1] = "tileset" /\ f[1] = "root"
  BY <1>1
<1> QED BY <1>4, <1>5, Zenon DEF StartsAs, StartCalls

LEMMA NoConsoleIs ==
  /\ NoConsole \in ConsoleType /\ ~NoConsole.window /\ NoConsole.error = "none"
  /\ NoConsole.tilesets = << >> /\ [NoConsole EXCEPT !.error = "none", !.window = FALSE] = NoConsole
  /\ ~NoConsole.initialized
<1>1. NoConsole \in ConsoleType
  <2>1. << >> \in Seq(Address)
    BY NoneIs
  <2> QED BY <2>1 DEF ConsoleType, NoConsole
<1>2. \A r \in ConsoleType : r.error = "none" /\ r.window = FALSE =>
        [r EXCEPT !.error = "none", !.window = FALSE] = r
  BY DEF ConsoleType
<1>3. /\ NoConsole.window = FALSE /\ NoConsole.error = "none" /\ NoConsole.tilesets = << >>
      /\ ~NoConsole.window /\ ~NoConsole.initialized
  BY DEF NoConsole
<1> QED BY <1>1, <1>2, <1>3, Zenon

LEMMA NoLayerIs ==
  NoLayer \in LayerType /\ NoLayer.vt = "none" /\ NoLayer.cache = "none"
BY DEF NoLayer, LayerType

LEMMA NoneTracked == Once(<< >>) /\ \A t : ~Has(<< >>, t)
BY DEF Once, Has

StartGoes(list, bs, rs) ==
  /\ Ordered(list) /\ Retries(list) /\ \A a : Alive(list, a)
  /\ \A what \in {"backend", "window", "renderer", "builtin"} : ~Without(list, what)
  /\ \A i \in 1 .. Len(list) : /\ list[i][1] = "backend" => list[i][2] = bs
                               /\ list[i][1] = "renderer" => list[i][2] = rs

LEMMA StartKinds ==
  ASSUME NEW bs, NEW rs, NEW list, StartCalls(list, bs, rs)
  PROVE  StartGoes(list, bs, rs)
<1>1. PICK n \in {5, 6} : n = Len(list)
  BY Zenon DEF StartCalls
<1>2. /\ list[1][1] = "backend" /\ list[2][1] = "window" /\ list[3][1] = "renderer"
      /\ list[4][1] = "builtin" /\ list[n][1] = "root" /\ (n = 6 => list[5][1] = "tileset")
      /\ list[1][2] = bs /\ list[3][2] = rs /\ list # << >> /\ list \in Seq(AnyCall)
  BY <1>1, Zenon DEF StartCalls
<1>3. \A i \in 1 .. n : i = 1 \/ i = 2 \/ i = 3 \/ i = 4 \/ i = n \/ (n = 6 /\ i = 5)
  OBVIOUS
<1>4. 1 \in 1 .. n /\ 2 \in 1 .. n /\ 3 \in 1 .. n /\ 4 \in 1 .. n
  OBVIOUS
<1>5. Retries(list)
  <2> SUFFICES ASSUME NEW i \in 1 .. n PROVE list[i][1] \in StartCall
    BY <1>1 DEF Retries, StartCall
  <2> QED BY <1>2, <1>3 DEF StartCall
<1>6. \A a : Alive(list, a)
  BY <1>1, <1>2 DEF Alive
<1>7. \A what \in {"backend", "window", "renderer", "builtin"} : ~Without(list, what)
  BY <1>1, <1>2, <1>4 DEF Without
<1>8. \A i \in 1 .. n : /\ list[i][1] = "backend" => list[i][2] = bs
                        /\ list[i][1] = "renderer" => list[i][2] = rs
  BY <1>2, <1>3
<1>9. Ordered(list)
  <2>1. list[n][1] \in {"root", "started", "failed", "report", "reset"}
    BY <1>2
  <2>2. ASSUME NEW i \in 1 .. n
        PROVE  /\ list[i][1] = "backend"  => i < n /\ list[i + 1][1] = "window"
               /\ list[i][1] = "window"   => i < n /\ list[i + 1][1] = "renderer"
               /\ list[i][1] = "renderer" => i < n /\ list[i + 1][1] = "builtin"
               /\ list[i][1] = "builtin"  => i < n /\ list[i + 1][1] \in {"tileset", "root"}
               /\ list[i][1] = "tileset"  => i < n /\ list[i + 1][1] = "root"
               /\ list[i][1] \in {"root", "failed", "report"} => i = n
               /\ list[i][1] = "started" => n = 1
    <3>1. CASE i \in {1, 2, 3}
      BY <1>2, <3>1
    <3>2. CASE i = 4
      BY <1>2, <3>2
    <3>3. CASE i = n
      BY <1>2, <3>3
    <3>4. CASE n = 6 /\ i = 5
      BY <1>2, <3>4
    <3> QED BY <1>3, <3>1, <3>2, <3>3, <3>4
  <2> QED BY <1>1, <2>1, <2>2, Zenon DEF Ordered
<1> QED BY <1>1, <1>5, <1>6, <1>7, <1>8, <1>9, Zenon DEF StartGoes

\* A start from nothing.
LEMMA StartsKeeps ==
  ASSUME LifeInv, todo = << >>, ~console.initialized,
         console' = NoConsole, layer' = NoLayer, tried' = {},
         NEW bs \in BackendOrders, NEW rs \in RendererOrders,
         NEW sheet \in {<< >>, <<Call("tileset", "")>>},
         todo' = << Call("backend", bs), Call("window", ""), Call("renderer", rs),
                    Call("builtin", "") >> \o sheet \o << Call("root", "") >>,
         UNCHANGED <<platform, gfx, tiles, held, app, frame, corrupted>>
  PROVE  LifeInv'
<1>1. /\ LifeTypes /\ InOrder /\ Stages /\ Tilesets /\ GivesBack /\ Nested /\ TriesAll /\ FramesAreSound
  BY Zenon DEF LifeInv
<1>2. bs \in Lists(Drivers) /\ \A os \in BackendOrders : Elements(os) \subseteq Elements(bs)
  BY <1>1, BackendOrdersAre, Zenon DEF LifeTypes
<1>3. rs \in Lists(Tried) /\ Renderers \subseteq Elements(rs)
  BY RendererOrdersAre, Zenon
<1>4. PICK list : list = << Call("backend", bs), Call("window", ""), Call("renderer", rs),
                            Call("builtin", "") >> \o sheet \o << Call("root", "") >>
  BY Zenon
<1>5. StartCalls(list, bs, rs) /\ list \in Seq(AnyCall) /\ list # << >>
  <2>1. StartCalls(list, bs, rs)
    BY <1>2, <1>3, <1>4, StartList, Zenon
  <2> QED BY <2>1, Zenon DEF StartCalls
<1>6. /\ Ordered(list) /\ Retries(list) /\ \A a : Alive(list, a)
      /\ \A what \in {"backend", "window", "renderer", "builtin"} : ~Without(list, what)
      /\ \A i \in 1 .. Len(list) : /\ list[i][1] = "backend" => list[i][2] = bs
                                   /\ list[i][1] = "renderer" => list[i][2] = rs
  <2>1. StartCalls(list, bs, rs)
    BY <1>5
  <2>2. StartGoes(list, bs, rs)
    BY <2>1, StartKinds, Zenon
  <2> QED BY <2>2, Zenon DEF StartGoes
<1>7. todo' = list
  BY <1>4, Zenon
<1>8. InOrder' /\ todo' \in Seq(AnyCall) /\ Up' /\ Retries(todo')
  BY <1>5, <1>6, <1>7, Zenon DEF InOrder, Up
<1>9. ~Without(todo', "backend") /\ ~Without(todo', "window") /\ ~Without(todo', "renderer")
      /\ ~Without(todo', "builtin")
  <2>1. \A what \in {"backend", "window", "renderer", "builtin"} : what = what
    BY Zenon
  <2>2. /\ "backend" \in {"backend", "window", "renderer", "builtin"}
        /\ "window" \in {"backend", "window", "renderer", "builtin"}
        /\ "renderer" \in {"backend", "window", "renderer", "builtin"}
        /\ "builtin" \in {"backend", "window", "renderer", "builtin"}
    BY Zenon
  <2> QED BY <1>6, <1>7, <2>2, Zenon
<1>10. Stages'
  BY <1>8, <1>9, Zenon DEF Stages, Past
<1>11. Things = {}
  BY AtRest, Zenon
<1>12. /\ held = {} /\ gfx = "none" /\ \A t \in Address : tiles[t] = 0
  BY <1>1, <1>11, NoThings, Zenon
<1>13. /\ NoConsole \in ConsoleType /\ ~NoConsole.window /\ NoConsole.error = "none"
       /\ NoConsole.tilesets = << >> /\ [NoConsole EXCEPT !.error = "none", !.window = FALSE] = NoConsole
  BY NoConsoleIs, Zenon
<1>14. NoLayer \in LayerType /\ NoLayer.vt = "none" /\ NoLayer.cache = "none"
  BY NoLayerIs, Zenon
<1>15. Things' = {}
  BY <1>12, <1>13, <1>14, Zenon DEF Things
<1>16. GivesBack'
  <2>1. Orderly(Things', todo', layer'.vt, gfx', console'.builtin)
    BY <1>15, NothingToGive, Zenon
  <2> QED BY <1>8, <2>1, Zenon DEF GivesBack
<1>17. LifeTypes'
  BY <1>1, <1>8, <1>13, <1>14, Zenon DEF LifeTypes
<1>18. Tilesets'
  <2>1. Once(<< >>) /\ \A t : ~Has(<< >>, t)
    BY NoneTracked
  <2> QED BY <1>1, <1>12, <1>13, <2>1, Zenon DEF Tilesets
<1>19. Nested' /\ FramesAreSound'
  BY <1>1, <1>12, Zenon DEF Nested, FramesAreSound
<1>20. TriesAll'
  <2>1. BackendOrders' = BackendOrders /\ Renderers' = Renderers
    BY Zenon DEF BackendOrders, Renderers
  <2>2. \A i \in 1 .. Len(list) :
          /\ list[i][1] = "backend" =>
               \A os \in BackendOrders : Elements(os) \subseteq {} \cup Elements(list[i][2])
          /\ list[i][1] = "renderer" => Renderers \subseteq {} \cup Elements(list[i][2])
    <3>1. \A os \in BackendOrders : Elements(os) \subseteq {} \cup Elements(bs)
      BY <1>2, Zenon
    <3>2. Renderers \subseteq {} \cup Elements(rs)
      BY <1>3, Zenon
    <3> QED BY <1>6, <3>1, <3>2, Zenon
  <2>3. "none" # "backend" /\ "none" # "renderer"
    BY Zenon
  <2>4. Tries(list, "none", {})
    BY <2>2, <2>3, Zenon DEF Tries
  <2> QED BY <1>7, <1>13, <2>1, <2>4, Zenon DEF TriesAll, Tries
<1> QED BY <1>8, <1>10, <1>16, <1>17, <1>18, <1>19, <1>20, Zenon DEF LifeInv

\* A console that runs already is taken as it is.
LEMMA StartsAgainKeeps ==
  ASSUME LifeInv, todo = << >>, console.initialized, todo' = << Call("started", "") >>,
         UNCHANGED <<platform, console, layer, tried, gfx, tiles, held, app, frame, corrupted>>
  PROVE  LifeInv'
<1>1. /\ LifeTypes /\ InOrder /\ Stages /\ Tilesets /\ GivesBack /\ Nested /\ TriesAll /\ FramesAreSound
  BY Zenon DEF LifeInv
<1>2. /\ console.initialized =>
           /\ layer.vt \in Drivers /\ Base(layer.vt) \in held
           /\ console.window /\ <<layer.vt, "window">> \in held
           /\ gfx \in Working /\ gfx \in Tried /\ Maker(gfx, layer.vt) \in held
           /\ held \subseteq SystemRes(layer.vt) \cup WindowRes(layer.vt)
                               \cup RendererRes(gfx, layer.vt) \cup {Texture(t) : t \in Address}
      /\ console.error = "backend" => \A bs \in BackendOrders : Elements(bs) \subseteq tried
      /\ console.error = "renderer" => Renderers \subseteq tried
  BY AtRest, Zenon
<1>3. /\ << Call("started", "") >> \in Seq(AnyCall) /\ << Call("started", "") >> # << >>
      /\ Ordered(<< Call("started", "") >>)
      /\ Starts(<< Call("started", "") >>) /\ Retries(<< Call("started", "") >>)
      /\ \A a : Alive(<< Call("started", "") >>, a)
      /\ Len(<< Call("started", "") >>) = 1 /\ << Call("started", "") >>[1][1] = "started"
  BY StartedCall, Zenon
<1>4. InOrder' /\ Up' /\ todo' \in Seq(AnyCall) /\ Starts(todo') /\ Retries(todo')
  BY <1>3, Zenon DEF InOrder, Up
<1>5. Stages'
  BY <1>2, <1>4, Zenon DEF Stages
<1>6. GivesBack'
  <2>1. \A i \in 1 .. Len(todo') : todo'[i][1] = "started"
    <3>1. \A i \in 1 .. 1 : i = 1
      BY OneOnly
    <3> QED BY <1>3, <3>1, Zenon
  <2>2. "started" \in {"builtin", "tileset", "root", "started", "windowless", "destroy", "destroy_builtin"}
    BY Zenon
  <2>3. ASSUME NEW i \in 1 .. Len(todo'), NEW s \in Things' PROVE Bears(todo'[i], s, layer'.vt, gfx')
    BY <2>1, <2>2, LaterBears, Zenon
  <2>4. Orderly(Things', todo', layer'.vt, gfx', console'.builtin)
    BY <2>3, Zenon DEF Orderly
  <2> QED BY <1>4, <2>4, Zenon DEF GivesBack
<1>7. TriesAll'
  <2>1. BackendOrders' = BackendOrders /\ Renderers' = Renderers
    BY Zenon DEF BackendOrders, Renderers
  <2>2. PICK e, f : e = console.error /\ f = tried
    BY Zenon
  <2>3. Tries(<< Call("started", "") >>, e, f)
    BY <1>2, <2>2, StartedTries, Zenon
  <2> QED BY <2>1, <2>2, <2>3, Zenon DEF TriesAll, Tries
<1>8. LifeTypes'
  BY <1>1, <1>4, Zenon DEF LifeTypes
<1>9. Nested' /\ Tilesets' /\ FramesAreSound'
  BY <1>1, Zenon DEF Nested, Tilesets, FramesAreSound
<1> QED BY <1>4, <1>5, <1>6, <1>7, <1>8, <1>9, Zenon DEF LifeInv

LEMMA StartAppKeeps ==
  ASSUME LifeInv, StartApp
  PROVE  LifeInv'
<1>1. /\ todo = << >>
      /\ UNCHANGED <<platform, gfx, tiles, held, lost, last, app, frame, corrupted, calls>>
  BY Zenon DEF StartApp, Idle
<1>2. CASE console.initialized
  <2>1. todo' = << Call("started", "") >> /\ UNCHANGED <<console, layer, tried>>
    BY <1>2, Zenon DEF StartApp
  <2> QED BY <1>1, <1>2, <2>1, StartsAgainKeeps, Zenon
<1>3. CASE ~console.initialized
  <2>1. /\ console' = NoConsole /\ layer' = NoLayer /\ tried' = {}
        /\ \E bs \in BackendOrders, rs \in RendererOrders, sheet \in {<< >>, <<Call("tileset", "")>>} :
             todo' = << Call("backend", bs), Call("window", ""), Call("renderer", rs),
                        Call("builtin", "") >> \o sheet \o << Call("root", "") >>
    BY <1>3, Zenon DEF StartApp
  <2>2. PICK bs \in BackendOrders, rs \in RendererOrders, sheet \in {<< >>, <<Call("tileset", "")>>} :
             todo' = << Call("backend", bs), Call("window", ""), Call("renderer", rs),
                        Call("builtin", "") >> \o sheet \o << Call("root", "") >>
    BY <2>1, Zenon
  <2> QED BY <1>1, <1>3, <2>1, <2>2, StartsKeeps, Zenon
<1> QED BY <1>2, <1>3, Zenon

-----------------------------------------------------------------------------
(* The theorems *)

LEMMA InitLife == Init => LifeInv
<1> SUFFICES ASSUME Init PROVE LifeInv
  OBVIOUS
<1>1. /\ platform \in Platforms /\ todo = << >> /\ layer = NoLayer /\ console = NoConsole /\ gfx = "none"
      /\ tiles = [t \in Address |-> 0] /\ held = {} /\ tried = {}
      /\ app = [active |-> 0, tilesets |-> [h \in Handle |-> NoTileset], cell |-> Blank]
      /\ frame = {} /\ corrupted = "no"
  BY DEF Init
<1>2. /\ NoConsole \in ConsoleType /\ ~NoConsole.window /\ NoConsole.error = "none"
      /\ NoConsole.tilesets = << >> /\ [NoConsole EXCEPT !.error = "none", !.window = FALSE] = NoConsole
      /\ ~NoConsole.initialized
  BY NoConsoleIs
<1>3. NoLayer \in LayerType /\ NoLayer.vt = "none" /\ NoLayer.cache = "none"
  BY NoLayerIs
<1>4. tiles \in [Address -> 0 .. MaxTiles] /\ \A t \in Address : tiles[t] = 0
  BY <1>1, LifetimeAssumption
<1>5. app \in AppType
  BY <1>1, LifetimeAssumption DEF AppType, Blank
<1>6. LifeTypes
  <2>1. todo \in Seq(AnyCall)
    BY <1>1, NothingToDo, Zenon
  <2> QED BY <1>1, <1>2, <1>3, <1>4, <1>5, <2>1 DEF LifeTypes
<1>7. InOrder /\ (Up <=> FALSE)
  BY <1>1, <1>2, NothingToDo, Zenon DEF InOrder, Up, Alive
<1>8. Stages
  BY <1>7, Zenon DEF Stages, Past
<1>9. Things = {}
  BY <1>1, <1>2, <1>3, <1>4, Zenon DEF Things
<1>10. GivesBack
  BY <1>9, NothingToGive, Zenon DEF GivesBack
<1>11. Tilesets
  <2>1. Once(<< >>) /\ \A t : ~Has(<< >>, t)
    BY NoneTracked
  <2> QED BY <1>1, <1>2, <1>4, <2>1, Zenon DEF Tilesets
<1>12. Nested
  BY <1>1, Zenon DEF Nested
<1>13. TriesAll
  <2>1. PICK e, f : e = console.error /\ f = tried /\ e # "backend" /\ e # "renderer"
    BY <1>1, <1>2
  <2>2. Tries(<< >>, e, f)
    BY <2>1, NothingTried, Zenon
  <2> QED BY <1>1, <2>1, <2>2, Zenon DEF TriesAll
<1>14. FramesAreSound
  BY <1>1 DEF FramesAreSound
<1> QED BY <1>6, <1>7, <1>8, <1>10, <1>11, <1>12, <1>13, <1>14, Zenon DEF LifeInv

LEMMA NextLife == LifeInv /\ [Next]_vars => LifeInv'
<1> SUFFICES ASSUME LifeInv, [Next]_vars PROVE LifeInv'
  OBVIOUS
<1>1. CASE Library
  <2>1. CASE TryBackend
    BY <2>1, TryBackendKeeps
  <2>2. CASE CreateWindow
    BY <2>2, CreateWindowKeeps
  <2>3. CASE Report
    BY <2>3, ReportKeeps
  <2>4. CASE TryRenderer
    BY <2>4, TryRendererKeeps
  <2>5. CASE Windowless
    BY <2>5, WindowlessKeeps
  <2>6. CASE LoadBuiltin
    BY <2>6, LoadBuiltinKeeps
  <2>7. CASE LoadConfigured
    BY <2>7, LoadConfiguredKeeps
  <2>8. CASE CreateRoot
    BY <2>8, CreateRootKeeps
  <2>9. CASE Ends("started")
    BY <2>9, EndsKeeps
  <2>10. CASE Ends("failed")
    BY <2>10, EndsKeeps
  <2>11. CASE Release
    BY <2>11, ReleaseKeeps
  <2>12. CASE NoGfx
    BY <2>12, NoGfxKeeps
  <2>13. CASE WinReset
    BY <2>13, WinResetKeeps
  <2>14. CASE DestroyTileset
    BY <2>14, DestroyTilesetKeeps
  <2>15. CASE Reset
    BY <2>15, ResetKeeps
  <2> QED BY <1>1, <2>1, <2>2, <2>3, <2>4, <2>5, <2>6, <2>7, <2>8, <2>9, <2>10, <2>11, <2>12,
             <2>13, <2>14, <2>15, Zenon DEF Library
<1>2. CASE Program
  <2>1. CASE StartApp
    BY <2>1, StartAppKeeps
  <2>2. CASE EndApp
    BY <2>2, EndAppKeeps
  <2>3. CASE LoadTileset
    BY <2>3, LoadTilesetKeeps
  <2>4. CASE DropTileset
    BY <2>4, DropTilesetKeeps
  <2>5. CASE SetFont
    BY <2>5, SetFontKeeps
  <2>6. CASE Draw
    BY <2>6, DrawKeeps
  <2>7. CASE Present
    BY <2>7, PresentKeeps
  <2>8. CASE Resize
    BY <2>8, ResizeKeeps
  <2> QED BY <1>2, <2>1, <2>2, <2>3, <2>4, <2>5, <2>6, <2>7, <2>8, Zenon DEF Program
<1>3. CASE UNCHANGED vars
  <2>1. UNCHANGED <<platform, todo, layer, console, gfx, tiles, held, tried, frame, corrupted, app>>
    BY <1>3, Zenon DEF vars, start
  <2>2. BackendOrders' = BackendOrders /\ Renderers' = Renderers
    BY <2>1, Zenon DEF BackendOrders, Renderers
  <2>3. Things' = Things /\ Up' = Up
    BY <2>1, Zenon DEF Things, Up, Alive
  <2>4. \A what : Past(what)' <=> Past(what)
    BY <2>1, <2>3, Zenon DEF Past
  <2>5. LifeTypes' /\ InOrder' /\ Tilesets' /\ Nested' /\ FramesAreSound'
    BY <2>1, Zenon DEF LifeInv, LifeTypes, InOrder, Tilesets, Nested, FramesAreSound
  <2>6. GivesBack'
    BY <2>1, <2>3, Zenon DEF LifeInv, GivesBack
  <2>7. TriesAll'
    BY <2>1, <2>2, Zenon DEF LifeInv, TriesAll, Tries
  <2>8. Stages'
    BY <2>1, <2>3, <2>4, Zenon DEF LifeInv, Stages
  <2> QED BY <2>5, <2>6, <2>7, <2>8, Zenon DEF LifeInv
<1> QED BY <1>1, <1>2, <1>3, Zenon DEF Next

\* LifeInv holds of every reachable state of nack_console_state, the window
\* layer, the renderer and the tilesets: what is there will be given back, in an
\* order it can bear.
THEOREM LifeInvariant == Spec => []LifeInv
<1>1. Init => LifeInv
  BY InitLife
<1>2. LifeInv /\ [Next]_vars => LifeInv'
  BY NextLife
<1> QED BY <1>1, <1>2, PTL DEF Spec

\* Between a start that failed, or a shutdown(), and the next start nothing is
\* left of window, renderer, tilesets or entry points (nack_api.cpp:206), but for
\* what the starts of backends that failed did not give back, which is in `lost`.
THEOREM NothingIsLeft == Spec => []CleanSlate
<1>1. LifeInv => CleanSlate
  <2> SUFFICES ASSUME LifeInv, todo = << >>, ~console.initialized
               PROVE  /\ held = {} /\ gfx = "none"
                      /\ layer.vt = "none" /\ layer.cache = "none"
                      /\ [console EXCEPT !.error = "none"] = NoConsole
                      /\ \A t \in Address : tiles[t] = 0
    BY Zenon DEF CleanSlate, Idle
  <2>1. LifeTypes
    BY Zenon DEF LifeInv
  <2>2. Things = {}
    BY AtRest
  <2>3. /\ held = {} /\ gfx = "none" /\ layer.vt = "none" /\ layer.cache = "none" /\ ~console.window
        /\ [console EXCEPT !.error = "none", !.window = FALSE] = NoConsole
        /\ \A t \in Address : tiles[t] = 0
        /\ ~console.initialized /\ ~console.root
        /\ console.builtin = NoTileset /\ console.tilesets = << >> /\ console.font = NoTileset
    BY <2>1, <2>2, NoThings
  <2>4. \A c \in ConsoleType : ~c.window =>
          [c EXCEPT !.error = "none", !.window = FALSE] = [c EXCEPT !.error = "none"]
    BY DEF ConsoleType
  <2>5. console \in ConsoleType
    BY <2>1, Zenon DEF LifeTypes
  <2> QED BY <2>3, <2>4, <2>5, Zenon
<1> QED BY <1>1, LifeInvariant, PTL

\* No resource of the system outlives what it needs, on every way out of a start
\* or a shutdown() (nack_api.cpp:206, nack_gfx.cpp:117).
THEOREM LifetimesNest == Spec => []NestedLifetimes
<1>1. LifeInv => NestedLifetimes
  BY Zenon DEF LifeInv, Nested, NestedLifetimes
<1> QED BY <1>1, LifeInvariant, PTL

\* A start gives up only when every backend, or every renderer, there is has been
\* tried (nack.cpp:463, nack_gfx.cpp:88).
THEOREM EveryFallbackIsTried == Spec => []FallsBack
<1>1. LifeInv => FallsBack
  <2> SUFFICES ASSUME LifeInv, todo = << >>
               PROVE  /\ console.error = "backend" => \A bs \in BackendOrders : ToSet(bs) \subseteq tried
                      /\ console.error = "renderer" => Renderers \subseteq tried
    BY Zenon DEF FallsBack, Idle
  <2>1. /\ console.error = "backend" => \A bs \in BackendOrders : Elements(bs) \subseteq tried
        /\ console.error = "renderer" => Renderers \subseteq tried
    BY AtRest
  <2>2. \A bs \in BackendOrders : ToSet(bs) = Elements(bs)
    <3> SUFFICES ASSUME NEW bs \in BackendOrders PROVE ToSet(bs) = Elements(bs)
      OBVIOUS
    <3>1. bs \in Seq(Drivers)
      BY BackendOrdersAre, Zenon DEF LifeInv, LifeTypes, Lists
    <3>2. DOMAIN bs = 1 .. Len(bs)
      BY <3>1, LenProperties
    <3> QED BY <3>2, Zenon DEF ToSet, Elements
  <2> QED BY <2>1, <2>2, Zenon
<1> QED BY <1>1, LifeInvariant, PTL

\* No frame reads a tileset that has been freed, or a tile its sheet does not
\* have (nack_render.cpp:154).
THEOREM FramesStaySound == Spec => []FramesAreSound
<1>1. LifeInv => FramesAreSound
  BY Zenon DEF LifeInv
<1> QED BY <1>1, LifeInvariant, PTL
=============================================================================
