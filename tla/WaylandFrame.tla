----------------------------- MODULE WaylandFrame -----------------------------
(***************************************************************************)
(* The frame libnack draws round a window on Wayland when the compositor   *)
(* does not (wayland/nack_wayland_decor.cpp): its four parts and where they*)
(* are, what is painted on them, what the pointer finds there and what a   *)
(* press does, and the window geometry the compositor is told.             *)
(*                                                                         *)
(* Limits and scale of the content are WaylandSurface's; here a window has *)
(* none, and the whole configure is one message.                           *)
(***************************************************************************)
EXTENDS Integers, FiniteSets

CONSTANTS
  Sizes,     \* [w, h] the application asks for or the compositor proposes
  Screen,    \* [w, h] of a maximized window
  Scales,    \* scales of the frame
  Failing,   \* parts for which there may be no shared memory
  Resizable, \* BOOLEAN: nack_window.resizable
  Largest    \* bound: [w, h] of the content

Titlebar == 30
Border   == 5
Button   == 28
Corner   == 16

Parts   == {"top", "bottom", "left", "right"}
Buttons == <<"minimize", "maximize", "close">>

Extent == [w : Nat \ {0}, h : Nat \ {0}]

ASSUME FrameAssumption ==
  /\ Sizes \subseteq Extent /\ Screen \in Extent /\ Largest \in Extent
  /\ Scales \subseteq Nat \ {0} /\ Failing \subseteq Parts /\ Resizable \in BOOLEAN

VARIABLES
  win,      \* nack_window: [w, h, maximized, focused]
  decor,    \* nack_wl_window: [on, scale, hover], the hovered button
  placed,   \* Parts -> [x, y, w, h] of the subsurface
  buffer,   \* Parts -> [w, h, scale] of the buffer, NoBuffer for none
  painted,  \* what the title bar shows, Unpainted at first
  pointer,  \* nack__wl: [over, part, x, y, cursor], over: decor_focus
  geometry, \* xdg_surface.set_window_geometry, from the next commit on
  fresh,    \* history: the window has kept its size since the pointer last moved
  did       \* history: what the press just made did, and what was shown then

frameVars == <<win, decor, placed, buffer, painted, pointer, geometry, fresh, did>>

NoExtent  == [w |-> 0, h |-> 0]
NoBuffer  == [w |-> 0, h |-> 0, scale |-> 0]
NoPlace   == [x |-> 0, y |-> 0, w |-> 0, h |-> 0]
Unpainted == [w |-> 0, scale |-> 0, hover |-> "none", focused |-> FALSE, maximized |-> FALSE]
NoPointer == [over |-> FALSE, part |-> "top", x |-> 0, y |-> 0, cursor |-> "arrow"]
NoPress   == [by |-> "nothing", what |-> "nothing", left |-> FALSE, hover |-> "none",
              cursor |-> "arrow", drawn |-> "none", known |-> FALSE, still |-> FALSE]

-----------------------------------------------------------------------------
(* Geometry *)

\* Mutant: the side borders begin at the top of the title bar, and cover it.
LayoutFullHeight(p, w, h) ==
  CASE p = "top"    -> [x |-> -Border, y |-> -Titlebar, w |-> w + 2 * Border, h |-> Titlebar]
    [] p = "bottom" -> [x |-> -Border, y |-> h, w |-> w + 2 * Border, h |-> Border]
    [] p = "left"   -> [x |-> -Border, y |-> -Titlebar, w |-> Border, h |-> h + Titlebar]
    [] p = "right"  -> [x |-> w, y |-> -Titlebar, w |-> Border, h |-> h + Titlebar]

\* Where a part goes, from the origin of the content.
Layout(p, w, h) ==
  CASE p = "top"    -> [x |-> -Border, y |-> -Titlebar, w |-> w + 2 * Border, h |-> Titlebar]
    [] p = "bottom" -> [x |-> -Border, y |-> h, w |-> w + 2 * Border, h |-> Border]
    [] p = "left"   -> [x |-> -Border, y |-> 0, w |-> Border, h |-> h]
    [] p = "right"  -> [x |-> w, y |-> 0, w |-> Border, h |-> h]

Framed(w, h) == [x |-> -Border, y |-> -Titlebar, w |-> w + 2 * Border, h |-> h + Titlebar + Border]

\* nack__wl_button_x: minimize, maximize and close, right aligned in a bar.
ButtonX(width, i) == width - (Cardinality(DOMAIN Buttons) + 1 - i) * Button

\* The button of a title bar so wide that has a point.
ButtonOf(width, part, x, y) ==
  LET hit == {i \in DOMAIN Buttons : ButtonX(width, i) <= x /\ x < ButtonX(width, i) + Button}
  IN IF part = "top" /\ y \in 0..(Titlebar - 1) /\ hit # {}
     THEN Buttons[CHOOSE i \in hit : TRUE] ELSE "none"

\* nack__wl_button_at
ButtonAt(part, x, y) == ButtonOf(placed["top"].w, part, x, y)

\* nack__wl_decor_resize_edge: the sides a drag from here moves, none for a
\* drag of the whole window.
ResizeEdge(part, x, y) ==
  LET width == placed["top"].w
      across == IF x < Corner THEN {"left"} ELSE IF x >= width - Corner THEN {"right"} ELSE {}
      along  == IF y < Corner THEN {"top"} ELSE IF y >= win.h - Corner THEN {"bottom"} ELSE {}
  IN IF ~Resizable THEN {}
     ELSE CASE part = "top"    -> IF y >= Border THEN {} ELSE {"top"} \cup across
            [] part = "bottom" -> {"bottom"} \cup across
            [] part \in {"left", "right"} -> {part} \cup along

\* nack__wl_cursor_for_edge
CursorFor(edge) ==
  CASE edge = {} -> "arrow"
    [] edge \in {{"top"}, {"bottom"}} -> "v"
    [] edge \in {{"left"}, {"right"}} -> "h"
    [] edge \in {{"top", "left"}, {"bottom", "right"}} -> "nwse"
    [] OTHER -> "nesw"

-----------------------------------------------------------------------------
(* Painting and placing *)

\* What nack__wl_decor_redraw paints on the title bar.
Look(w, d, width) == [w |-> width, scale |-> d.scale, hover |-> d.hover, focused |-> w.focused,
                      maximized |-> w.maximized]

\* nack__wl_decor_redraw; what a part without a buffer shows is anyone's guess.
Redraw(w, d, width, has) ==
  painted' = IF d.on /\ has THEN Look(w, d, width) ELSE Unpainted

\* nack__wl_shm_buffer_alloc: one of the same size is kept, otherwise it goes
\* before the new one is there.
Alloc(p, without, size, d) ==
  IF buffer[p] = [w |-> size.w, h |-> size.h, scale |-> d.scale] THEN buffer[p]
  ELSE IF p \in without THEN NoBuffer
  ELSE [w |-> size.w, h |-> size.h, scale |-> d.scale]

\* Mutant: a title bar that has its look and its memory is not drawn again.
ResizeUndrawn(w, d) ==
  IF ~d.on THEN UNCHANGED <<placed, buffer, painted, geometry, fresh>>
  ELSE \E without \in SUBSET Failing :
         /\ buffer' = [p \in Parts |-> Alloc(p, without, Layout(p, w.w, w.h), d)]
         /\ placed' = [p \in Parts |-> LET at == Layout(p, w.w, w.h) IN
                         IF buffer'[p] # NoBuffer THEN at
                         ELSE [placed[p] EXCEPT !.w = at.w, !.h = at.h]]
         /\ geometry' = Framed(w.w, w.h)
         /\ IF {buffer["top"], buffer'["top"]} \cap {NoBuffer} = {} /\ painted.hover = d.hover
            THEN UNCHANGED painted
            ELSE Redraw(w, d, placed'["top"].w, buffer'["top"] # NoBuffer)
         /\ fresh' = (fresh /\ w.w = win.w /\ w.h = win.h)

\* nack__wl_decor_resize.  A part whose buffer cannot be made keeps its place,
\* though not its size.
Resize(w, d) ==
  IF ~d.on THEN UNCHANGED <<placed, buffer, painted, geometry, fresh>>
  ELSE \E without \in SUBSET Failing :
         /\ buffer' = [p \in Parts |-> Alloc(p, without, Layout(p, w.w, w.h), d)]
         /\ placed' = [p \in Parts |-> LET at == Layout(p, w.w, w.h) IN
                         IF buffer'[p] # NoBuffer THEN at
                         ELSE [placed[p] EXCEPT !.w = at.w, !.h = at.h]]
         /\ geometry' = Framed(w.w, w.h)
         /\ Redraw(w, d, placed'["top"].w, buffer'["top"] # NoBuffer)
         /\ fresh' = (fresh /\ w.w = win.w /\ w.h = win.h)

-----------------------------------------------------------------------------
(* The compositor: configures, and who draws the frame *)

\* xdg_surface_configure: a proposal is taken for the content, and the frame is
\* drawn before the window is called maximized.
Configure(size, maximized) ==
  LET w == [win EXCEPT !.w = IF size.w > 0 THEN size.w ELSE @,
                       !.h = IF size.h > 0 THEN size.h ELSE @]
  IN /\ w.w <= Largest.w /\ w.h <= Largest.h
     /\ Resize(w, decor)
     /\ win' = [w EXCEPT !.maximized = maximized]
     /\ did' = NoPress /\ UNCHANGED <<decor, pointer>>

\* What it may propose: nothing, the size of the window as it was told, for a
\* change of another state, a size the user drags it to, the screen.
Proposals ==
  {<<NoExtent, FALSE>>, <<[w |-> geometry.w, h |-> geometry.h], win.maximized>>,
   <<Screen, TRUE>>} \cup {<<s, FALSE>> : s \in Sizes}

\* nack__wl_decor_enable, when the compositor cannot or will not.
Enable ==
  /\ ~decor.on
  /\ decor' = [decor EXCEPT !.on = TRUE, !.hover = "none"]
  /\ Resize(win, decor')
  /\ did' = NoPress /\ UNCHANGED <<win, pointer>>

\* nack__wl_decor_destroy, when it will after all.
Disable ==
  /\ decor' = [decor EXCEPT !.on = FALSE]
  /\ buffer' = [p \in Parts |-> NoBuffer]
  /\ placed' = [p \in Parts |-> NoPlace]
  /\ painted' = Unpainted
  /\ pointer' = NoPointer
  /\ did' = NoPress /\ UNCHANGED <<win, geometry, fresh>>

\* nack__wl_decor_update_scale
UpdateScale(scale) ==
  /\ scale # decor.scale
  /\ decor' = [decor EXCEPT !.scale = scale]
  /\ Resize(win, decor')
  /\ did' = NoPress /\ UNCHANGED <<win, pointer>>

\* keyboard_enter, keyboard_leave
Focus ==
  /\ win' = [win EXCEPT !.focused = ~@]
  /\ Redraw(win', decor, placed["top"].w, buffer["top"] # NoBuffer)
  /\ did' = NoPress /\ UNCHANGED <<decor, placed, buffer, pointer, geometry, fresh>>

-----------------------------------------------------------------------------
(* The pointer *)

\* Points of a part on either side of every line the code draws there.
Points(p) ==
  LET ends(n) == {0, Corner - 1, Corner, n - Corner - 1, n - Corner, n - 1} \cap 0..(n - 1)
      wide == placed[p].w
      high == placed[p].h
  IN CASE p = "top" -> [x : ends(wide) \cup UNION {{ButtonX(wide, i) - 1, ButtonX(wide, i)} \cap Nat : i \in DOMAIN Buttons},
                        y : {Border - 1, Border}]
       [] p = "bottom" -> [x : ends(wide), y : {0}]
       [] p \in {"left", "right"} -> [x : {0}, y : ends(high)]

\* nack__wl_decor_pointer_motion
Motion(part, at) ==
  /\ pointer' = [over |-> TRUE, part |-> part, x |-> at.x, y |-> at.y,
                 cursor |-> CursorFor(ResizeEdge(part, at.x, at.y))]
  /\ decor' = [decor EXCEPT !.hover = ButtonAt(part, at.x, at.y)]
  /\ IF decor' = decor THEN UNCHANGED painted
     ELSE Redraw(win, decor', placed["top"].w, buffer["top"] # NoBuffer)
  /\ fresh' = TRUE
  /\ did' = NoPress /\ UNCHANGED <<win, placed, buffer, geometry>>

\* pointer_enter, which nack__wl_decor_find leads to a part.
PointerEnter ==
  /\ decor.on /\ ~pointer.over
  /\ \E p \in Parts : buffer[p] # NoBuffer /\ \E at \in Points(p) : Motion(p, at)

PointerMotion ==
  /\ pointer.over
  /\ \E at \in Points(pointer.part) : Motion(pointer.part, at)

\* pointer_leave, nack__wl_decor_pointer_leave
PointerLeave ==
  /\ pointer.over
  /\ pointer' = NoPointer
  /\ decor' = [decor EXCEPT !.hover = "none"]
  /\ IF decor.hover = "none" THEN UNCHANGED painted
     ELSE Redraw(win, decor', placed["top"].w, buffer["top"] # NoBuffer)
  /\ did' = NoPress /\ UNCHANGED <<win, placed, buffer, geometry, fresh>>

ToggleMaximized == IF win.maximized THEN "unmaximize" ELSE "maximize"

\* Mutant: the edges come first.
LeftPressEdgeFirst(clicks) ==
  LET pressed == ButtonAt(pointer.part, pointer.x, pointer.y)
      edge    == ResizeEdge(pointer.part, pointer.x, pointer.y)
  IN IF edge # {} THEN [by |-> CursorFor(edge), what |-> "resize"]
     ELSE IF pressed # "none"
     THEN [by |-> pressed, what |-> IF pressed = "maximize" THEN ToggleMaximized ELSE pressed]
     ELSE IF pointer.part = "top"
     THEN [by |-> "bar", what |-> IF clicks >= 2 THEN ToggleMaximized ELSE "move"]
     ELSE [by |-> "nothing", what |-> "nothing"]

\* What nack__wl_decor_pointer_button does with a left press: a button first,
\* then an edge, then the bar itself.
LeftPress(clicks) ==
  LET pressed == ButtonAt(pointer.part, pointer.x, pointer.y)
      edge    == ResizeEdge(pointer.part, pointer.x, pointer.y)
  IN IF pressed # "none"
     THEN [by |-> pressed, what |-> IF pressed = "maximize" THEN ToggleMaximized ELSE pressed]
     ELSE IF edge # {} THEN [by |-> CursorFor(edge), what |-> "resize"]
     ELSE IF pointer.part = "top"
     THEN [by |-> "bar", what |-> IF clicks >= 2 THEN ToggleMaximized ELSE "move"]
     ELSE [by |-> "nothing", what |-> "nothing"]

\* nack__wl_decor_pointer_button: the right button opens the menu of the window.
Press(button, clicks) ==
  /\ pointer.over
  /\ LET act == CASE button = "left"  -> LeftPress(clicks)
                  [] button = "right" -> [by |-> "menu", what |-> "menu"]
                  [] OTHER            -> [by |-> "nothing", what |-> "nothing"]
     IN did' = [by |-> act.by, what |-> act.what, left |-> button = "left",
                hover |-> painted.hover, cursor |-> pointer.cursor,
                drawn |-> ButtonOf(painted.w, pointer.part, pointer.x, pointer.y),
                known |-> buffer["top"] # NoBuffer, still |-> fresh]
  /\ UNCHANGED <<win, decor, placed, buffer, painted, pointer, geometry, fresh>>

-----------------------------------------------------------------------------
(* The application *)

\* nack__wl_window_set_size, which commits.
SetSize(size) ==
  /\ win' = [win EXCEPT !.w = size.w, !.h = size.h]
  /\ Resize(win', decor)
  /\ did' = NoPress /\ UNCHANGED <<decor, pointer>>

-----------------------------------------------------------------------------
FrameInit ==
  /\ \E size \in Sizes :
       win = [w |-> size.w, h |-> size.h, maximized |-> FALSE, focused |-> FALSE]
  /\ decor = [on |-> FALSE, scale |-> 1, hover |-> "none"]
  /\ placed = [p \in Parts |-> NoPlace]
  /\ buffer = [p \in Parts |-> NoBuffer]
  /\ painted = Unpainted
  /\ pointer = NoPointer
  /\ geometry = NoPlace
  /\ fresh = FALSE /\ did = NoPress

FrameNext ==
  \/ \E p \in Proposals : Configure(p[1], p[2])
  \/ Enable \/ Disable \/ Focus
  \/ \E s \in Scales : UpdateScale(s)
  \/ PointerEnter \/ PointerMotion \/ PointerLeave
  \/ \E b \in {"left", "right", "other"}, clicks \in 1..2 : Press(b, clicks)
  \/ \E s \in Sizes : SetSize(s)

FrameSpec == FrameInit /\ [][FrameNext]_frameVars

-----------------------------------------------------------------------------
(* Properties *)

Apart(a, b) ==
  \/ a.x + a.w <= b.x \/ b.x + b.w <= a.x \/ a.y + a.h <= b.y \/ b.y + b.h <= a.y
Inside(a, b) ==
  /\ b.x <= a.x /\ a.x + a.w <= b.x + b.w /\ b.y <= a.y /\ a.y + a.h <= b.y + b.h

\* Whatever sizes, scales and modes have come and gone, the parts of the frame
\* lie round the content without overlap and inside the geometry the compositor
\* was told; when memory did not run out they leave no gap in it
\* (nack_wayland_decor.cpp:447 and :489).
PartsTile ==
  LET there == {p \in Parts : buffer[p] # NoBuffer}
      content == [x |-> 0, y |-> 0, w |-> win.w, h |-> win.h]
      frame == geometry
      area(p) == placed[p].w * placed[p].h
  IN decor.on =>
       /\ frame = Framed(win.w, win.h)
       /\ \A p \in there : Inside(placed[p], frame) /\ Apart(placed[p], content)
       /\ \A p, q \in there : p # q => Apart(placed[p], placed[q])
       /\ there = Parts =>
            area("top") + area("bottom") + area("left") + area("right") + win.w * win.h
              = frame.w * frame.h

\* Whatever sizes, scales and failed allocations have come and gone since the
\* pointer last moved, a left press acts as a button exactly where the title bar
\* now shows that button (nack_wayland_decor.cpp:754 looks it up in the width of
\* the part, :343 drew it from the width at the time).
PressIsDrawn ==
  did.left /\ did.known =>
    IF did.drawn # "none" THEN did.by = did.drawn
    ELSE did.by \notin {"minimize", "maximize", "close"}

\* While the window has kept its size since the pointer last moved, whatever else
\* has changed, a left press does what the frame said it would: the button that
\* is highlighted, else the resize the cursor stands for, else it moves the
\* window (nack_wayland_decor.cpp:714 and :754).
PressIsForeseen ==
  did.left /\ did.known /\ did.still =>
    /\ did.hover # "none" => did.by = did.hover
    /\ did.by \in {"minimize", "maximize", "close"} => did.hover = did.by
    /\ did.what = "resize" => did.cursor = did.by
    /\ did.what = "move" => did.cursor = "arrow"

\* "so snapping and maximised sizing account for the frame we drew"
\* (nack_wayland_decor.cpp:486): a window maximized to the screen is on it with
\* its frame.
MaximizedFits ==
  decor.on /\ win.maximized /\ <<win.w, win.h>> = <<Screen.w, Screen.h>> =>
    geometry.w <= Screen.w /\ geometry.h <= Screen.h
=============================================================================
