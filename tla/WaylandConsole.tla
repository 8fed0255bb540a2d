---------------------------- MODULE WaylandConsole ----------------------------
(***************************************************************************)
(* The console (console/nack_api.cpp, nack_render.cpp) over a window on    *)
(* Wayland: the framebuffer size and scale it learns from RESIZE events,   *)
(* the viewport it letterboxes itself into, the grid that follows the      *)
(* window under auto_resize, and the cell a mouse position is reported in. *)
(*                                                                         *)
(* One dimension, as in WaylandSurface: the integer scale is the one of    *)
(* that dimension, and "fit", which then fills the window, is "stretch".   *)
(***************************************************************************)
EXTENDS WaylandSurface

CONSTANTS
  Columns,     \* config::columns, and the sizes the program gives root()
  Tiles,       \* tile widths of the fonts
  Configs      \* [setup, auto, scaling]: windows, and config's auto_resize and scaling

ASSUME ConsoleAssumption ==
  /\ Columns \subseteq Nat \ {0} /\ Columns # {}
  /\ Tiles \subseteq Nat \ {0} /\ Tiles # {}
  /\ Configs \subseteq [setup : Setups, auto : BOOLEAN, scaling : {"integer", "stretch"}]

VARIABLE con    \* nack__c: [fb, dpi, columns, tile, scaling, auto, view]

vars == <<surface, con>>

-----------------------------------------------------------------------------
(* The viewport *)

\* C division by two: towards zero.
Half(n) == IF n >= 0 THEN n \div 2 ELSE -((-n) \div 2)

\* nack__render_update_viewport
Viewport(c) ==
  LET console == c.columns * c.tile
      width == console * AtLeastOne(c.fb \div console)
  IN IF c.scaling = "stretch" THEN [x |-> 0, w |-> c.fb]
     ELSE [x |-> Half(c.fb - width), w |-> width]

\* Mutant: the letterbox is taken off before the position is scaled.
PixelToCellUnscaled(c, x) ==
  LET cell == ((x - c.view.x) * c.dpi[1] * c.columns) \div (c.view.w * c.dpi[2])
  IN Max({0, Min({cell, c.columns - 1})})

\* nack__pixel_to_cell for a position x in window coordinates.  dpi is the
\* pair whose quotient is dpi_scale; until the first RESIZE the scale is 1.
PixelToCell(c, x) ==
  LET cell == ((x * c.dpi[1] - c.view.x * c.dpi[2]) * c.columns)
                \div (c.view.w * c.dpi[2])
  IN Max({0, Min({cell, c.columns - 1})})

-----------------------------------------------------------------------------
(* Lifetime and events *)

ConsoleTypeOK ==
  /\ con \in [fb : Nat \ {0}, dpi : (Nat \ {0}) \X (Nat \ {0}), columns : Nat \ {0},
              tile : Tiles, scaling : {"integer", "stretch"}, auto : BOOLEAN,
              view : [x : Int, w : Nat \ {0}]]

\* nack_console_state::init has returned: the window was created for tiles of
\* one width, resized for the tiles of the font that was loaded, and the
\* framebuffer size read.  The RESIZE of both is still in the queue.
Init ==
  \E columns \in Columns, first \in Tiles, tile \in Tiles, config \in Configs :
    LET width == columns * tile
        fresh == [fb |-> width, dpi |-> <<1, 1>>, columns |-> columns, tile |-> tile,
                  scaling |-> config.scaling, auto |-> config.auto, view |-> [x |-> 0, w |-> width]]
    IN /\ SurfaceInit(config.setup, width)
       /\ events = <<Resize(columns * first, columns * first), Resize(width, width)>>
       /\ con = [fresh EXCEPT !.view = Viewport(fresh)]

\* nack__translate of a RESIZE; the program gets a resize_event if the grid
\* changed with it.
Translate(e) ==
  LET read == [con EXCEPT !.fb = e.fb, !.dpi = <<e.fb, e.width>>]
      columns == AtLeastOne(e.fb \div con.tile)
      grown == IF con.auto THEN [read EXCEPT !.columns = columns] ELSE read
  IN con' = [grown EXCEPT !.view = Viewport(grown)]

\* poll_event and wait_event, up to and including the next RESIZE.
PollEvent ==
  /\ events # << >>
  /\ events' = Tail(events)
  /\ Translate(Head(events))
  /\ UNCHANGED <<compositor, setup, outputs, win, surf, told, proposed>>

\* root().resize(): the viewport stays as it is.
RootResize(columns) ==
  /\ columns # con.columns
  /\ con' = [con EXCEPT !.columns = columns]
  /\ UNCHANGED surface

\* set_font(): the viewport stays as it is.
SetFont(tile) ==
  /\ tile # con.tile
  /\ con' = [con EXCEPT !.tile = tile]
  /\ UNCHANGED surface

Console == PollEvent \/ (\E n \in Columns : RootResize(n)) \/ (\E t \in Tiles : SetFont(t))

Next == \/ Surface /\ UNCHANGED con
        \/ Console

Spec == Init /\ [][Next]_vars

-----------------------------------------------------------------------------
(* Properties *)

TypeOK == SurfaceTypeOK /\ ConsoleTypeOK

\* The cell drawn at a window position: the viewport lies in the framebuffer,
\* which the compositor scales to the window.
DrawnAt(x) ==
  ((x * win.fb - con.view.x * win.width) * con.columns) \div (con.view.w * win.width)

\* When the program has read every event, a mouse position inside the console
\* is reported in the cell drawn there, whatever the grid and the font became
\* meanwhile, and one outside it in the nearest cell, however small the window
\* is (README: "The mouse arrives in cells", "already through the letterbox and
\* scale transform"), unless the framebuffer changed behind the console, as it
\* does with the scale (nack_wayland.cpp:139, :280).
MouseInCells ==
  events = << >> /\ con.fb = win.fb =>
    \A x \in 0 .. win.width - 1 :
      PixelToCell(con, x) = IF DrawnAt(x) < 0 THEN 0
                            ELSE IF DrawnAt(x) < con.columns THEN DrawnAt(x)
                            ELSE con.columns - 1
=============================================================================
