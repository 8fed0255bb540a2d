---------------------------- MODULE WaylandSurface ----------------------------
(***************************************************************************)
(* A window on Wayland (wayland/nack_wayland.cpp): the size negotiated     *)
(* with the compositor, the outputs the surface is on, the scale they ask  *)
(* for and the framebuffer that follows from both, and the RESIZE events   *)
(* that tell the application.                                              *)
(*                                                                         *)
(* One dimension stands for both: width and height are treated alike, line *)
(* by line.  A configure is the pair of messages the compositor sends back *)
(* to back, xdg_toplevel.configure with the proposal and                   *)
(* xdg_surface.configure that applies it; a read of the socket may end     *)
(* between the two.  Scales are in 1/120, the unit of the fractional scale *)
(* protocol.  The window has an EGL window, so fb_width is its size.       *)
(***************************************************************************)
EXTENDS Integers, Sequences, SequencesExt, FiniteSetsExt

\* Whether the compositor drives the scale (ww->fractional_scale), and
\* min_width, max_width and inc_width, 0 for none.
Setup == [fractional : BOOLEAN, limits : [min : Nat, max : Nat, inc : Nat]]

CONSTANTS
  Output,       \* outputs the compositor may have, each with one wl_output
  Scales,       \* integer scales of outputs
  Fractions,    \* fractional scales, in 1/120
  Proposals,    \* [width, maximized, fullscreen] the compositor may configure;
                \* width 0 is "you choose"
  Asked,        \* widths the application asks for
  Setups,       \* [fractional, limits] of a window
  MaxOutputs,   \* NACK_WL_MAX_OUTPUTS
  MaxWire,      \* bound: messages in flight from the compositor
  MaxEvents     \* bound: RESIZE events not read

ASSUME SurfaceAssumption ==
  /\ 1 \in Scales /\ Scales \subseteq Nat \ {0} /\ Fractions \subseteq Nat \ {0}
  /\ Proposals \subseteq [width : Nat, maximized : BOOLEAN, fullscreen : BOOLEAN]
  /\ Asked \subseteq Nat \ {0}
  \* A maximum below the minimum is an error that ends the connection.
  /\ Setups \subseteq {s \in Setup : s.limits.max > 0 => s.limits.min <= s.limits.max}
  /\ {MaxOutputs, MaxWire, MaxEvents} \subseteq Nat

VARIABLES
  \* compositor
  wire,        \* messages sent and not dispatched, oldest first
  on,          \* outputs the surface overlaps
  globals,     \* outputs announced, with their scale
  wants,       \* the [maximized, fullscreen] state last sent
  \* libnack
  setup,       \* what window creation found and was asked for, see Setup
  outputs,     \* nack__wl.outputs: the scale of each one bound
  win,         \* nack_window: [width, fb, scale, maximized, fullscreen]
  surf,        \* nack_wl_window: [outputs, bufferScale, decorScale, pending,
               \* configured]
  events,      \* RESIZE events queued and not read, oldest first
  \* history
  told,        \* [width, maximized]: what the events queued so far say
  proposed     \* the proposal win.width comes from, 0 if the application set it

compositor == <<wire, on, globals, wants>>
surface    == <<compositor, setup, outputs, win, surf, events, told, proposed>>

-----------------------------------------------------------------------------
(* Types *)

State   == [maximized : BOOLEAN, fullscreen : BOOLEAN]
Pending == [width : Nat, maximized : BOOLEAN, fullscreen : BOOLEAN]
Resize(width, fb) == [width |-> width, fb |-> fb]

Message ==
  [kind : {"enter", "leave", "global_remove"}, out : Output] \cup
  [kind : {"global", "output_scale"}, out : Output, scale : Scales] \cup
  [kind : {"preferred_scale"}, scale : Fractions] \cup
  [kind : {"toplevel_configure"}, pending : Pending] \cup
  [kind : {"surface_configure"}]

ScaleMap == UNION {[bound -> Scales] : bound \in SUBSET Output}

SurfaceTypeOK ==
  /\ wire \in Seq(Message) /\ Len(wire) <= MaxWire
  /\ globals \in ScaleMap /\ on \subseteq DOMAIN globals /\ wants \in State
  /\ setup \in Setups /\ outputs \in ScaleMap
  /\ win \in [width : Nat \ {0}, fb : Nat \ {0}, scale : Nat \ {0},
              maximized : BOOLEAN, fullscreen : BOOLEAN]
  /\ surf \in [outputs : SUBSET Output, bufferScale : Scales, decorScale : Nat \ {0},
               pending : Pending, configured : BOOLEAN]
  /\ Cardinality(surf.outputs) <= MaxOutputs
  /\ events \in Seq([width : Nat \ {0}, fb : Nat \ {0}])
  /\ told \in [width : Nat \ {0}, maximized : BOOLEAN] /\ proposed \in Nat

\* nack__wl_window_create has run, the first configure with it.
SurfaceInit(s, width) ==
  /\ wire = << >> /\ on = {} /\ globals \in [Output -> {1}]
  /\ wants = [maximized |-> FALSE, fullscreen |-> FALSE]
  /\ setup = s /\ outputs = globals
  /\ win = [width |-> width, fb |-> width, scale |-> 120,
            maximized |-> FALSE, fullscreen |-> FALSE]
  /\ surf = [outputs |-> {}, bufferScale |-> 1, decorScale |-> 1,
             pending |-> [width |-> 0, maximized |-> FALSE, fullscreen |-> FALSE],
             configured |-> TRUE]
  /\ told = [width |-> width, maximized |-> FALSE]
  /\ proposed = 0

-----------------------------------------------------------------------------
(* The compositor.  The surface leaves an output before the output goes.   *)

Send(messages) ==
  /\ Len(wire) + Len(messages) <= MaxWire
  /\ wire' = wire \o messages
  /\ UNCHANGED <<setup, outputs, win, surf, events, told, proposed>>

OutputSays(kind, o) == [kind |-> kind, out |-> o]
ScaleSays(kind, o, s) == [kind |-> kind, out |-> o, scale |-> s]

MovesOnto(o) ==
  /\ o \in DOMAIN globals \ on
  /\ on' = on \cup {o} /\ Send(<<OutputSays("enter", o)>>)
  /\ UNCHANGED <<globals, wants>>

MovesOff(o) ==
  /\ o \in on
  /\ on' = on \ {o} /\ Send(<<OutputSays("leave", o)>>)
  /\ UNCHANGED <<globals, wants>>

Rescales(o, s) ==
  /\ o \in DOMAIN globals /\ s # globals[o]
  /\ globals' = [globals EXCEPT ![o] = s] /\ Send(<<ScaleSays("output_scale", o, s)>>)
  /\ UNCHANGED <<on, wants>>

Plugged(o, s) ==
  /\ o \notin DOMAIN globals
  /\ globals' = [p \in DOMAIN globals \cup {o} |-> IF p = o THEN s ELSE globals[p]]
  /\ Send(<<ScaleSays("global", o, s)>>)
  /\ UNCHANGED <<on, wants>>

Unplugged(o) ==
  /\ o \in DOMAIN globals \ on
  /\ globals' = [p \in DOMAIN globals \ {o} |-> globals[p]]
  /\ Send(<<OutputSays("global_remove", o)>>)
  /\ UNCHANGED <<on, wants>>

Prefers(s) ==
  /\ setup.fractional
  /\ Send(<<[kind |-> "preferred_scale", scale |-> s]>>)
  /\ UNCHANGED <<on, globals, wants>>

Proposes(p) ==
  /\ wants' = [maximized |-> p.maximized, fullscreen |-> p.fullscreen]
  /\ Send(<<[kind |-> "toplevel_configure", pending |-> p],
            [kind |-> "surface_configure"]>>)
  /\ UNCHANGED <<on, globals>>

Compositor ==
  \/ \E o \in Output : MovesOnto(o) \/ MovesOff(o) \/ Unplugged(o)
  \/ \E o \in Output, s \in Scales : Rescales(o, s) \/ Plugged(o, s)
  \/ \E s \in Fractions : Prefers(s)
  \/ \E p \in Proposals : Proposes(p)

-----------------------------------------------------------------------------
(* Size and framebuffer *)

AtLeastOne(n) == IF n < 1 THEN 1 ELSE n

\* nack__wl_resize_egl
ResizeEgl(w, scale) == [w EXCEPT !.fb = AtLeastOne(w.width * scale)]

\* The event nack__emit_resize queues, if any, for a window w.
EmitResize(w, width, fb) ==
  IF w.width = width /\ w.fb = fb THEN << >> ELSE <<Resize(width, fb)>>

\* The size xdg_surface_configure makes of a proposal: clamped to the limits,
\* then snapped down to whole increments, of which there is at least one.
SizeFor(p) ==
  LET above == IF p < setup.limits.min THEN setup.limits.min ELSE p
      bounded == IF setup.limits.max > 0 /\ above > setup.limits.max THEN setup.limits.max ELSE above
      steps == (bounded - setup.limits.min) \div setup.limits.inc
  IN IF setup.limits.inc <= 1 THEN bounded
     ELSE setup.limits.min + setup.limits.inc * AtLeastOne(steps)

-----------------------------------------------------------------------------
(* Scale *)

\* nack__wl_window_update_scale, with the outputs entered and their scales.
\* nack__emit_resize compares with what nack__wl_resize_egl has just stored.
UpdateScale(entered, bound) ==
  LET scale == Max({1} \cup {bound[o] : o \in entered \cap DOMAIN bound})
      sized == ResizeEgl(win, scale)
  IN IF setup.fractional \/ scale = surf.bufferScale
     THEN /\ surf' = [surf EXCEPT !.outputs = entered]
          /\ UNCHANGED <<win, events>>
     ELSE /\ surf' = [surf EXCEPT !.outputs = entered, !.bufferScale = scale,
                                  !.decorScale = scale]
          /\ win' = [sized EXCEPT !.scale = 120 * scale]
          /\ events' = events \o EmitResize(sized, sized.width, sized.fb)

SurfaceEnter(o) ==
  /\ UpdateScale(IF Cardinality(surf.outputs) < MaxOutputs
                 THEN surf.outputs \cup {o} ELSE surf.outputs, outputs)
  /\ UNCHANGED <<outputs, told, proposed>>

SurfaceLeave(o) ==
  /\ UpdateScale(surf.outputs \ {o}, outputs)
  /\ UNCHANGED <<outputs, told, proposed>>

\* Mutant: the windows on the output are not told.
OutputScaleQuietly(o, s) ==
  /\ outputs' = [p \in DOMAIN outputs |-> IF p = o THEN s ELSE outputs[p]]
  /\ UNCHANGED <<win, surf, events, told, proposed>>

OutputScale(o, s) ==
  /\ outputs' = [p \in DOMAIN outputs |-> IF p = o THEN s ELSE outputs[p]]
  /\ UpdateScale(surf.outputs, outputs')
  /\ UNCHANGED <<told, proposed>>

\* registry_global binds the output with scale 1, and the compositor answers
\* the bind with the scale, which no surface can be waiting for yet.
RegistryGlobal(o, s) ==
  /\ outputs' = IF Cardinality(DOMAIN outputs) < MaxOutputs
                THEN [p \in DOMAIN outputs \cup {o} |-> IF p = o THEN s ELSE outputs[p]]
                ELSE outputs
  /\ UNCHANGED <<win, surf, events, told, proposed>>

\* registry_global_remove, which leaves every surface alone.
RegistryGlobalRemove(o) ==
  /\ outputs' = [p \in DOMAIN outputs \ {o} |-> outputs[p]]
  /\ UNCHANGED <<win, surf, events, told, proposed>>

\* fractional_scale_preferred: nearest width, frame scale rounded up.
FractionalScalePreferred(s) ==
  LET fb == AtLeastOne((win.width * s + 60) \div 120)
  IN /\ win' = [win EXCEPT !.fb = fb, !.scale = s]
     /\ surf' = [surf EXCEPT !.decorScale = (s + 119) \div 120]
     /\ events' = events \o EmitResize(win, win.width, fb)
     /\ UNCHANGED <<outputs, told, proposed>>

-----------------------------------------------------------------------------
(* xdg-shell *)

ToplevelConfigure(p) ==
  /\ surf' = [surf EXCEPT !.pending = p]
  /\ UNCHANGED <<outputs, win, events, told, proposed>>

\* Mutant: whether the size changed is asked after it was stored.
SurfaceConfigureLate ==
  LET pending == surf.pending
      width == IF pending.width > 0 THEN SizeFor(pending.width) ELSE win.width
      sized == ResizeEgl([win EXCEPT !.width = width], surf.bufferScale)
  IN /\ win' = [sized EXCEPT !.maximized = pending.maximized,
                             !.fullscreen = pending.fullscreen]
     /\ surf' = [surf EXCEPT !.configured = TRUE]
     /\ IF surf.configured
        THEN events' = events /\ told' = [told EXCEPT !.maximized = pending.maximized]
        ELSE /\ events' = Append(events, Resize(width, sized.fb))
             /\ told' = [width |-> width, maximized |-> pending.maximized]
     /\ proposed' = IF pending.width > 0 THEN pending.width ELSE proposed
     /\ UNCHANGED outputs

\* xdg_surface_configure
SurfaceConfigure ==
  LET pending == surf.pending
      width == IF pending.width > 0 THEN SizeFor(pending.width) ELSE win.width
      sized == ResizeEgl([win EXCEPT !.width = width], surf.bufferScale)
  IN /\ win' = [sized EXCEPT !.maximized = pending.maximized,
                             !.fullscreen = pending.fullscreen]
     /\ surf' = [surf EXCEPT !.configured = TRUE]
     /\ IF width = win.width /\ surf.configured
        THEN events' = events /\ told' = [told EXCEPT !.maximized = pending.maximized]
        ELSE /\ events' = Append(events, Resize(width, sized.fb))
             /\ told' = [width |-> width, maximized |-> pending.maximized]
     /\ proposed' = IF pending.width > 0 THEN pending.width ELSE proposed
     /\ UNCHANGED outputs

Dispatch ==
  /\ wire # << >> /\ Len(events) < MaxEvents
  /\ wire' = Tail(wire)
  /\ LET m == Head(wire) IN
     \/ m.kind = "enter" /\ SurfaceEnter(m.out)
     \/ m.kind = "leave" /\ SurfaceLeave(m.out)
     \/ m.kind = "output_scale" /\ OutputScale(m.out, m.scale)
     \/ m.kind = "global" /\ RegistryGlobal(m.out, m.scale)
     \/ m.kind = "global_remove" /\ RegistryGlobalRemove(m.out)
     \/ m.kind = "preferred_scale" /\ FractionalScalePreferred(m.scale)
     \/ m.kind = "toplevel_configure" /\ ToplevelConfigure(m.pending)
     \/ m.kind = "surface_configure" /\ SurfaceConfigure
  /\ UNCHANGED <<on, globals, wants, setup>>

-----------------------------------------------------------------------------
(* The application *)

\* nack_window_set_size
SetSize(width) ==
  /\ Len(events) < MaxEvents
  /\ win' = ResizeEgl([win EXCEPT !.width = width], surf.bufferScale)
  /\ events' = Append(events, Resize(width, win'.fb))
  /\ told' = [told EXCEPT !.width = width]
  /\ proposed' = 0
  /\ UNCHANGED <<compositor, setup, outputs, surf>>

\* nack_window_hide: the next configure is a first one again.
Hide ==
  /\ surf.configured
  /\ surf' = [surf EXCEPT !.configured = FALSE]
  /\ UNCHANGED <<compositor, setup, outputs, win, events, told, proposed>>

Surface == Compositor \/ Dispatch \/ Hide \/ \E width \in Asked : SetSize(width)

-----------------------------------------------------------------------------
(* Properties *)

\* However sizes are negotiated and asked for, the width an application
\* knows once it has read every RESIZE queued is the width of its window, and
\* once every configure has arrived the window is maximized and fullscreen
\* exactly when the compositor says so, and the application was told
\* (nack_wayland.cpp:283, :331).
WindowIsAsTold ==
  /\ told.width = win.width
  /\ (\A i \in DOMAIN wire : wire[i].kind # "surface_configure") =>
       /\ win.maximized = wants.maximized /\ told.maximized = wants.maximized
       /\ win.fullscreen = wants.fullscreen

\* Without the fractional protocol the framebuffer is the window at the scale
\* announced to the compositor, and no output the surface has entered is
\* sharper than that; the frame libnack draws is at the same scale.
ScaleIsSharp ==
  ~setup.fractional =>
    /\ win.fb = win.width * surf.bufferScale
    /\ win.scale = 120 * surf.bufferScale /\ surf.decorScale = surf.bufferScale
    /\ \A o \in surf.outputs \cap DOMAIN outputs : outputs[o] <= surf.bufferScale

\* A width the compositor proposed is taken within the limits of the window:
\* a whole number of increments, at least one, over the minimum, and not over
\* the maximum when that leaves room for one.
LimitsHold ==
  LET over == win.width - setup.limits.min IN
  proposed > 0 =>
    /\ over >= 0
    /\ setup.limits.inc > 1 => over >= setup.limits.inc /\ over % setup.limits.inc = 0
    /\ setup.limits.max > 0 /\ setup.limits.max >= setup.limits.min + setup.limits.inc => win.width <= setup.limits.max

\* The size and the state of the window are what both sides agreed on: within
\* its limits, and known to the application.
SizeIsAgreed == WindowIsAsTold /\ LimitsHold
=============================================================================
