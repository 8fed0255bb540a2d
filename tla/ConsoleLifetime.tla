----------------------------- MODULE ConsoleLifetime -----------------------------
(***************************************************************************)
(* The life of the console: nack_console_state::init and shutdown          *)
(* (console/nack_api.cpp), the window layer they start and stop (nack.cpp),*)
(* the choice of a renderer (console/nack_gfx.cpp), the tilesets           *)
(* (console/nack_tileset.cpp) and the handles of the public API that own   *)
(* all of it (nack_hpp_impl.cpp).                                          *)
(*                                                                         *)
(* `todo` holds the calls init() or shutdown() have still to make, so the  *)
(* order they are made in can be seen; no call of the program comes        *)
(* between.  A tileset is its address, which the allocator may give out    *)
(* again once it is freed.                                                 *)
(***************************************************************************)
EXTENDS Backends, Naturals, SequencesExt

CONSTANTS
  Platforms,   \* "unix", "windows", "macos"
  Address,     \* addresses a tileset can have
  NoTileset,   \* the null pointer
  Handle,      \* objects of class nack::tileset
  MaxTiles,    \* tiles of a sheet, at most
  MaxStarts,   \* bound: constructions of an app
  MaxCalls     \* bound: other calls

ASSUME LifetimeAssumption ==
  /\ Platforms \subseteq {"unix", "windows", "macos"}
  /\ NoTileset \notin Address
  /\ MaxTiles \in Nat \ {0} /\ MaxStarts \in Nat /\ MaxCalls \in Nat

VARIABLES
  platform,
  todo,      \* the calls init() or shutdown() have still to make
  layer,     \* nack_state: the backend, whose entry points are cached, the error
  console,   \* nack_console_state
  gfx,       \* nack__gfx, the renderer
  tiles,     \* Address -> how many tiles the tileset there has, 0 for none
  held,      \* resources held
  lost,      \* history: resources failed starts of a backend left behind
  tried,     \* history: what has been tried since the start began
  last,      \* history: how the last start ended
  app,       \* the program: active apps, its tileset handles, what a cell shows
  frame,     \* what the last frame drew
  corrupted, \* what touched freed memory, if anything did
  starts, calls

start == <<todo, layer, console, gfx, tiles, held, lost, tried, last, frame, corrupted>>
vars == <<platform, start, app, starts, calls>>

NoLayer == [vt |-> "none", cache |-> "none", error |-> "none"]

NoConsole == [initialized |-> FALSE, window |-> FALSE, root |-> FALSE, font |-> NoTileset,
              builtin |-> NoTileset, tilesets |-> << >>, error |-> "none"]

Blank == [tileset |-> NoTileset, glyph |-> 0]

-----------------------------------------------------------------------------
(* Lists of calls *)

Call(what, arg) == << what, arg >>
Calls(what, args) == [i \in DOMAIN args |-> Call(what, args[i])]

\* nack__select_backend: the environment picks the first of the two on Unix.
BackendOrders ==
  CASE platform = "unix"    -> {<<"wayland", "x11">>, <<"x11", "wayland">>}
    [] platform = "windows" -> {<<"win32">>}
    [] platform = "macos"   -> {<<"cocoa">>}

Renderers == IF platform = "macos" THEN {"metal", "opengl"} ELSE {"opengl"}

\* Mutant: the named renderer takes the first place, and nothing moves down.
RendererOrdersOverwritten ==
  LET all == IF platform = "macos" THEN <<"metal", "opengl">> ELSE <<"opengl">>
  IN {all, <<"test-fail">> \o all} \cup {[all EXCEPT ![1] = all[i]] : i \in DOMAIN all}

\* nack__gfx_init: a renderer named in the environment goes first, the others
\* move down behind it.
RendererOrders ==
  LET all == IF platform = "macos" THEN <<"metal", "opengl">> ELSE <<"opengl">>
  IN {all, <<"test-fail">> \o all} \cup {<<all[i]>> \o RemoveAt(all, i) : i \in DOMAIN all}

\* nack__win_shutdown
WinShutdown ==
  Calls("release", [i \in DOMAIN BackendShutdown(layer.vt) |->
                      <<layer.vt, BackendShutdown(layer.vt)[i]>>])
  \o << Call("win_reset", "") >>

WindowGone == Calls("release", [i \in DOMAIN WindowDestroy |-> <<layer.vt, WindowDestroy[i]>>])

\* nack__gfx_shutdown
GfxShutdown(r) == Calls("release", RendererShutdown(r, layer.vt)) \o << Call("no_gfx", "") >>

\* Mutants: the renderer, or the window, goes before what is made with it.
ShutdownRendererFirst ==
  GfxShutdown(gfx)
  \o Calls("destroy", Reverse(console.tilesets))
  \o (IF console.builtin # NoTileset THEN << Call("destroy_builtin", console.builtin) >> ELSE << >>)
  \o (IF console.window THEN WindowGone \o WinShutdown ELSE << >>)
  \o << Call("reset", "") >>

ShutdownWindowFirst ==
  Calls("destroy", Reverse(console.tilesets))
  \o (IF console.builtin # NoTileset THEN << Call("destroy_builtin", console.builtin) >> ELSE << >>)
  \o (IF console.window THEN WindowGone ELSE << >>)
  \o GfxShutdown(gfx)
  \o (IF console.window THEN WinShutdown ELSE << >>)
  \o << Call("reset", "") >>

\* nack_console_state::shutdown
Shutdown ==
  Calls("destroy", Reverse(console.tilesets))
  \o (IF console.builtin # NoTileset THEN << Call("destroy_builtin", console.builtin) >> ELSE << >>)
  \o GfxShutdown(gfx)
  \o (IF console.window THEN WindowGone \o WinShutdown ELSE << >>)
  \o << Call("reset", "") >>

Is(what) ==
  /\ corrupted = "no" /\ todo # << >> /\ Head(todo)[1] = what
  /\ UNCHANGED <<platform, app, starts, calls>>
Arg == Head(todo)[2]
Idle == todo = << >> /\ corrupted = "no"

\* A call that goes through a list of candidates is there until one of them
\* works or there is none left.
First == Head(Arg)
Others(what) ==
  IF Tail(Arg) = << >> THEN << >> ELSE << Call(what, Tail(Arg)) >> \o Tail(todo)
-----------------------------------------------------------------------------
(* Starting *)

\* nack__try_init_backends and nack__win_init: the first backend that starts.
TryBackend ==
  /\ Is("backend")
  /\ tried' = tried \cup {First}
  /\ \E o \in BackendInit(First) :
       IF o.ok
       THEN /\ layer' = [layer EXCEPT !.vt = First]
            /\ held' = held \cup o.has
            /\ todo' = Tail(todo)
            /\ UNCHANGED <<console, lost>>
       ELSE /\ lost' = lost \cup o.has
            /\ layer' = [layer EXCEPT !.error = "backend"]
            /\ IF Others("backend") # << >>
               THEN todo' = Others("backend") /\ UNCHANGED console
               ELSE /\ todo' = << Call("failed", "") >>
                    /\ console' = [console EXCEPT !.error = "backend"]
            /\ UNCHANGED held
  /\ UNCHANGED <<gfx, tiles, last, frame, corrupted>>

\* nack_window_create.  When it fails, init() keeps a pointer to the message,
\* shuts the window layer down and then reads it.
CreateWindow ==
  /\ Is("window")
  /\ \E o \in WindowCreate(layer.vt) :
       IF o.ok
       THEN /\ held' = held \cup o.has
            /\ console' = [console EXCEPT !.window = TRUE]
            /\ todo' = Tail(todo)
            /\ UNCHANGED layer
       ELSE /\ layer' = [layer EXCEPT !.error = "window"]
            /\ todo' = WinShutdown \o << Call("report", "") >>
            /\ UNCHANGED <<held, console>>
  /\ UNCHANGED <<gfx, tiles, lost, tried, last, frame, corrupted>>

\* The message of the window layer, through the pointer: its string has been
\* emptied, or freed.
Report ==
  /\ Is("report")
  /\ console' = [console EXCEPT !.error = "blank"]
  /\ todo' = << Call("failed", "") >>
  /\ UNCHANGED <<layer, gfx, tiles, held, lost, tried, last, frame, corrupted>>

\* nack__gfx_init: a renderer that fails gives back what it took, and the next
\* one is tried.  OpenGL looks its entry points up through the cache.
TryRenderer ==
  /\ Is("renderer")
  /\ tried' = tried \cup {First}
  /\ \E o \in RendererInit(First, layer.vt, held) :
       /\ held' = held \cup o.has
       /\ layer' = IF <<layer.vt, "context">> \in o.has
                   THEN [layer EXCEPT !.cache = layer.vt] ELSE layer
       /\ IF o.ok
          THEN /\ gfx' = First
               /\ console' = [console EXCEPT !.error = "none"]
               /\ todo' = Tail(todo)
          ELSE /\ gfx' = First
               /\ console' = [console EXCEPT !.error = "renderer"]
               /\ todo' = GfxShutdown(First) \o
                          (IF Others("renderer") # << >> THEN Others("renderer")
                           ELSE WindowGone \o << Call("windowless", "") >>
                                \o WinShutdown \o << Call("failed", "") >>)
  /\ UNCHANGED <<tiles, lost, last, frame, corrupted>>

\* init() drops the window of a console that has no renderer.
Windowless ==
  /\ Is("windowless")
  /\ console' = [console EXCEPT !.window = FALSE]
  /\ todo' = Tail(todo)
  /\ UNCHANGED <<layer, gfx, tiles, held, lost, tried, last, frame, corrupted>>

\* nack_tileset::from_rgba: the tileset is tracked once it has its texture.
Texture(t) == << "texture", t >>
MakesTileset(t, count) ==
  /\ tiles[t] = 0
  /\ tiles' = [tiles EXCEPT ![t] = count]
  /\ held' = held \cup {Texture(t)}

\* nack_tileset::builtin; a texture that cannot be made ends the start.
LoadBuiltin ==
  /\ Is("builtin")
  /\ \/ \E t \in Address, n \in 1..MaxTiles :
          /\ MakesTileset(t, n)
          /\ console' = [console EXCEPT !.initialized = TRUE, !.builtin = t, !.font = t,
                                        !.tilesets = Append(@, t)]
          /\ todo' = Tail(todo)
     \/ /\ console' = [console EXCEPT !.initialized = TRUE, !.error = "tileset"]
        /\ todo' = Shutdown \o << Call("failed", "") >>
        /\ UNCHANGED <<tiles, held>>
  /\ UNCHANGED <<layer, gfx, lost, tried, last, frame, corrupted>>

\* nack_tileset::load, of the sheet the configuration names: the file may be
\* missing, no image, not divide into tiles, or no texture can be made.
LoadConfigured ==
  /\ Is("tileset")
  /\ \/ \E t \in Address, n \in 1..MaxTiles :
          /\ MakesTileset(t, n)
          /\ console' = [console EXCEPT !.font = t, !.tilesets = Append(@, t)]
          /\ todo' = Tail(todo)
     \/ /\ console' = [console EXCEPT !.error = "tileset"]
        /\ todo' = Shutdown \o << Call("failed", "") >>
        /\ UNCHANGED <<tiles, held>>
  /\ UNCHANGED <<layer, gfx, lost, tried, last, frame, corrupted>>

\* The root console; then the window is shown and init() has succeeded.
CreateRoot ==
  /\ Is("root")
  /\ \/ /\ console' = [console EXCEPT !.root = TRUE, !.error = "none"]
        /\ todo' = << Call("started", "") >>
     \/ /\ console' = [console EXCEPT !.error = "memory"]
        /\ todo' = Shutdown \o << Call("failed", "") >>
  /\ UNCHANGED <<layer, gfx, tiles, held, lost, tried, last, frame, corrupted>>

\* The constructor of the app: it is active, or there is none.
Ends(how) ==
  /\ corrupted = "no" /\ todo = << Call(how, "") >>
  /\ todo' = << >> /\ last' = how
  /\ app' = [app EXCEPT !.active = IF how = "started" THEN @ + 1 ELSE @]
  /\ UNCHANGED <<platform, layer, console, gfx, tiles, held, lost, tried, frame, corrupted, starts, calls>>
-----------------------------------------------------------------------------
(* Stopping *)

Release ==
  /\ Is("release")
  /\ held' = held \ {Arg}
  /\ todo' = Tail(todo)
  /\ UNCHANGED <<layer, console, gfx, tiles, lost, tried, last, frame, corrupted>>

NoGfx ==
  /\ Is("no_gfx")
  /\ gfx' = "none"
  /\ todo' = Tail(todo)
  /\ UNCHANGED <<layer, console, tiles, held, lost, tried, last, frame, corrupted>>

\* nack__win_shutdown, its end: the cached entry points go with the driver.
WinReset ==
  /\ Is("win_reset")
  /\ layer' = NoLayer
  /\ todo' = Tail(todo)
  /\ UNCHANGED <<console, gfx, tiles, held, lost, tried, last, frame, corrupted>>

\* Mutant: the list keeps what is freed.
UntrackedNot(t) == console.tilesets

\* nack_tileset::untrack
Untracked(t) == RemoveFirst(console.tilesets, t)

\* nack_tileset::destroy: untracked, its texture handed to the renderer (which
\* has to be there still), and freed.
Destroyed(t) ==
  /\ tiles' = [tiles EXCEPT ![t] = 0]
  /\ held' = IF gfx = "none" THEN held ELSE held \ {Texture(t)}

\* The loop of shutdown() over the tilesets leaves the built-in font to the end.
DestroyTileset ==
  /\ Is("destroy") \/ Is("destroy_builtin")
  /\ IF Head(todo) = Call("destroy", console.builtin) THEN UNCHANGED <<tiles, held, console>>
     ELSE /\ Destroyed(Arg)
          /\ console' = [console EXCEPT !.tilesets = Untracked(Arg),
                                        !.builtin = IF Arg = @ THEN NoTileset ELSE @]
  /\ todo' = Tail(todo)
  /\ UNCHANGED <<layer, gfx, lost, tried, last, frame, corrupted>>

\* shutdown() ends by starting from scratch, and with it goes the root.
Reset ==
  /\ Is("reset")
  /\ console' = NoConsole
  /\ todo' = Tail(todo)
  /\ UNCHANGED <<layer, gfx, tiles, held, lost, tried, last, frame, corrupted>>

Library ==
  \/ TryBackend \/ CreateWindow \/ Report \/ TryRenderer \/ Windowless
  \/ LoadBuiltin \/ LoadConfigured \/ CreateRoot \/ Ends("started") \/ Ends("failed")
  \/ Release \/ NoGfx \/ WinReset \/ DestroyTileset \/ Reset
-----------------------------------------------------------------------------
(* The program *)

\* app::app, app::try_create: a console that runs already is taken as it is.
StartApp ==
  /\ Idle /\ starts < MaxStarts /\ starts' = starts + 1
  /\ IF console.initialized
     THEN todo' = << Call("started", "") >> /\ UNCHANGED <<console, layer, tried>>
     ELSE /\ console' = NoConsole
          /\ layer' = NoLayer
          /\ tried' = {}
          /\ \E bs \in BackendOrders, rs \in RendererOrders, sheet \in {<< >>, <<Call("tileset", "")>>} :
               todo' = << Call("backend", bs), Call("window", ""), Call("renderer", rs),
                          Call("builtin", "") >> \o sheet \o << Call("root", "") >>
  /\ UNCHANGED <<platform, gfx, tiles, held, lost, last, app, frame, corrupted, calls>>

\* app::~app, and app::operator=, which ends one app and keeps the other.
EndApp ==
  /\ Idle /\ app.active > 0
  /\ app' = [app EXCEPT !.active = @ - 1, !.cell = Blank]
  /\ todo' = Shutdown
  /\ UNCHANGED <<platform, layer, console, gfx, tiles, held, lost, tried, last, frame, corrupted, starts, calls>>

Uses == Idle /\ calls < MaxCalls /\ calls' = calls + 1 /\ UNCHANGED <<platform, starts>>

\* tileset::tileset; a sheet that does not load is an error of the handle.
LoadTileset ==
  /\ Uses /\ console.initialized
  /\ \E h \in Handle :
       /\ app.tilesets[h] = NoTileset
       /\ \/ \E t \in Address, n \in 1..MaxTiles :
               /\ MakesTileset(t, n)
               /\ console' = [console EXCEPT !.tilesets = Append(@, t)]
               /\ app' = [app EXCEPT !.tilesets[h] = t]
          \/ /\ console' = [console EXCEPT !.error = "tileset"]
             /\ UNCHANGED <<tiles, held, app>>
  /\ UNCHANGED <<todo, layer, gfx, lost, tried, last, frame, corrupted>>

\* tileset::~tileset, and tileset::operator= for what it overwrites.  The
\* shutdown of the app may have freed it already.
DropTileset ==
  /\ Uses
  /\ \E h \in Handle :
       LET t == app.tilesets[h]
       IN /\ t # NoTileset
          /\ app' = [app EXCEPT !.tilesets[h] = NoTileset]
          /\ IF t = console.builtin THEN UNCHANGED <<tiles, held, console, corrupted>>
             ELSE IF tiles[t] = 0
             THEN corrupted' = "handle" /\ UNCHANGED <<tiles, held, console>>
             ELSE /\ Destroyed(t)
                  /\ console' = [console EXCEPT !.tilesets = Untracked(t)]
                  /\ UNCHANGED corrupted
  /\ UNCHANGED <<todo, layer, gfx, lost, tried, last, frame>>

\* app::set_font
SetFont ==
  /\ Uses /\ console.initialized
  /\ \E h \in Handle :
       /\ app.tilesets[h] # NoTileset
       /\ console' = [console EXCEPT !.font = app.tilesets[h]]
  /\ UNCHANGED <<todo, layer, gfx, tiles, held, lost, tried, last, app, frame, corrupted>>

\* put_tile takes an index the tileset has, put any glyph.
Draw ==
  /\ Uses /\ console.root
  /\ \/ \E h \in Handle, i \in 1..MaxTiles :
          LET t == app.tilesets[h]
          IN t # NoTileset /\ i <= tiles[t] /\ app' = [app EXCEPT !.cell = [tileset |-> t, glyph |-> i]]
     \/ app' = [app EXCEPT !.cell = [tileset |-> NoTileset, glyph |-> 1]]
  /\ UNCHANGED <<start>>

\* nack__render_console: one pass over each tracked tileset draws the cells that
\* point at it, or at nothing when it is the font; an index it does not have is
\* left out.
Drawn(t) ==
  LET source == IF app.cell.tileset # NoTileset THEN app.cell.tileset ELSE console.font
  IN IF source # t THEN {}
     ELSE IF app.cell.tileset = NoTileset
     THEN IF app.cell.glyph = 0 THEN {} ELSE {[tile |-> 1, of |-> tiles[t]]}
     ELSE {[tile |-> i, of |-> tiles[t]] : i \in {app.cell.glyph} \cap 1..tiles[t]}

Present ==
  /\ Uses /\ console.initialized
  /\ LET atlases == {console.tilesets[i] : i \in DOMAIN console.tilesets}
     IN IF \E t \in atlases : tiles[t] = 0 \/ Texture(t) \notin held
        THEN corrupted' = "present" /\ UNCHANGED frame
        ELSE /\ frame' = UNION {Drawn(t) : t \in atlases}
             /\ UNCHANGED corrupted
  /\ UNCHANGED <<todo, layer, console, gfx, tiles, held, lost, tried, last, app>>

\* A RESIZE fits the console to the window again: nack__render_update_viewport
\* reads the size of the font.
Resize ==
  /\ Uses /\ console.root
  /\ corrupted' = IF tiles[console.font] = 0 THEN "font" ELSE corrupted
  /\ UNCHANGED <<todo, layer, console, gfx, tiles, held, lost, tried, last, app, frame>>

Program ==
  \/ StartApp \/ EndApp \/ LoadTileset \/ DropTileset \/ SetFont \/ Draw \/ Present \/ Resize
-----------------------------------------------------------------------------
Init ==
  /\ platform \in Platforms
  /\ todo = << >> /\ layer = NoLayer /\ console = NoConsole /\ gfx = "none"
  /\ tiles = [t \in Address |-> 0]
  /\ held = {} /\ lost = {} /\ tried = {} /\ last = "none"
  /\ app = [active |-> 0, tilesets |-> [h \in Handle |-> NoTileset], cell |-> Blank]
  /\ frame = {} /\ corrupted = "no"
  /\ starts = 0 /\ calls = 0

Next == Library \/ Program

Spec == Init /\ [][Next]_vars
-----------------------------------------------------------------------------
(* Properties *)

\* Between a start that failed, or a shutdown, and the next start nothing is
\* left: no window, texture or library, no cached entry point of a driver that
\* has gone, no tileset (nack_api.cpp:206, nack.cpp:521).  What the start of a
\* backend itself leaves behind when it fails is in `lost`.
CleanSlate ==
  Idle /\ ~console.initialized =>
    /\ held = {} /\ gfx = "none"
    /\ layer.vt = "none" /\ layer.cache = "none"
    /\ [console EXCEPT !.error = "none"] = NoConsole
    /\ \A t \in Address : tiles[t] = 0

\* Nothing is outlived by what it needs: a texture or a shader goes before its
\* context, the context before the surface, the window and EGL, those before
\* the connection, on every way out of a start that fails half-way
\* (nack_api.cpp:206, nack_gfx.cpp:117).
NestedLifetimes ==
  corrupted = "no" => \A r \in held : NeededBy(r, layer.vt, gfx) \subseteq held

\* A start gives up for want of a backend, or of a renderer, only when it has
\* tried every one there is (nack.cpp:463, nack_gfx.cpp:88).
FallsBack ==
  Idle /\ last = "failed" =>
    /\ console.error = "backend" => \A bs \in BackendOrders : ToSet(bs) \subseteq tried
    /\ console.error = "renderer" => Renderers \subseteq tried

\* Presenting touches no tileset that has been freed, though a cell, or the
\* font, points at one (nack_render.cpp:154), and draws only tiles the sheet
\* has, though another one may have come to be at the same address.
FramesAreSound == corrupted # "present" /\ \A d \in frame : d.tile \in 1..d.of
=============================================================================
