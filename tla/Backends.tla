-------------------------------- MODULE Backends --------------------------------
(***************************************************************************)
(* What each window backend takes from the system when it starts, what is  *)
(* left when its start fails at any of its points, and the order in which  *)
(* its shutdown gives things back.  The same for its window and for an     *)
(* OpenGL context on it, and for the two renderers.                        *)
(*                                                                         *)
(* A resource is a pair <<owner, name>>.  A start is the set of its        *)
(* possible outcomes.                                                      *)
(***************************************************************************)
EXTENDS Sequences

Of(b, names) == {<<b, r>> : r \in names}
Done(has) == [ok |-> TRUE, has |-> has]
Failed(has) == [ok |-> FALSE, has |-> has]

\* A step that may fail without the start failing.
Perhaps(outcomes, r) ==
  outcomes \cup {Done(o.has \cup {r}) : o \in {p \in outcomes : p.ok}}

-----------------------------------------------------------------------------
(* The libraries OpenGL comes from *)

\* nack__egl_init: without it windows still work.
EglInit(b, outcomes) == Perhaps(outcomes, <<b, "egl">>)

\* nack__wgl_init: gives the library back if a function or the legacy context
\* of the bootstrap window is missing.
WglInit(outcomes) == Perhaps(outcomes, <<"win32", "opengl32">>)

-----------------------------------------------------------------------------
(* Starting and stopping a backend *)

\* nack__xcb_init: no connection; no screen or no pipe, after which the
\* connection is closed but not the Display of Xlib it was borrowed from.
X11Init ==
  {Failed({})} \cup
  UNION {{Failed(xlib)} \cup
         EglInit("x11", {Done(xlib \cup Of("x11", {"display", "pipe", "helper"}))})
         : xlib \in {{}, Of("x11", {"xlib"})}}

\* nack__wl_init: no connection or no pipe; no wl_compositor or xdg_wm_base,
\* after which the connection is closed but not the pipe.
WaylandInit ==
  {Failed({}), Failed(Of("wayland", {"pipe"}))} \cup
  EglInit("wayland", {Done(Of("wayland", {"display", "pipe", "globals"}))})

\* nack__win32_init: the class cannot be registered.
Win32Init ==
  {Failed(Of("win32", {"libraries"}))} \cup
  WglInit({Done(Of("win32", {"libraries", "class"}))})

\* nack__cocoa_init
CocoaInit == {Done(Of("cocoa", {"delegate"}))}

BackendInit(b) ==
  CASE b = "x11"     -> X11Init
    [] b = "wayland" -> WaylandInit
    [] b = "win32"   -> Win32Init
    [] b = "cocoa"   -> CocoaInit

X11Shutdown == << "egl", "helper", "pipe", "xlib", "display" >>
WaylandShutdown == << "egl", "globals", "pipe", "display" >>
Win32Shutdown == << "opengl32", "class", "libraries" >>
CocoaShutdown == << "framework", "delegate" >>

BackendShutdown(b) ==
  CASE b = "x11"     -> X11Shutdown
    [] b = "wayland" -> WaylandShutdown
    [] b = "win32"   -> Win32Shutdown
    [] b = "cocoa"   -> CocoaShutdown

-----------------------------------------------------------------------------
(* Its window *)

\* nack__xcb_window_create, nack__win32_window_create,
\* nack__cocoa_window_create: a window or nothing.
PlainWindowCreate(b) == {Failed({}), Done(Of(b, {"window"}))}

\* nack__wl_window_create: the buffers for EGL are optional.
WaylandWindowCreate == Perhaps(PlainWindowCreate("wayland"), <<"wayland", "egl_window">>)

WindowCreate(b) == IF b = "wayland" THEN WaylandWindowCreate ELSE PlainWindowCreate(b)

\* The surface EGL draws on is the window's.
WindowDestroy == << "surface", "egl_window", "window" >>

-----------------------------------------------------------------------------
(* An OpenGL context on it *)

\* nack__xcb_gl_create, nack__wl_gl_create and nack__egl_create_context: EGL
\* has to be there, the surface is made first and stays with the window, and
\* the context may be refused, or the window have no usable configuration.
EglContext(b, held) ==
  {Failed({})} \cup
  (IF <<b, "egl">> \notin held \/ (b = "wayland" /\ <<b, "egl_window">> \notin held) THEN {}
   ELSE {Failed(Of(b, {"surface"})), Done(Of(b, {"surface", "context"}))})

\* nack__wgl_create_context
WglContext(held) ==
  {Failed({})} \cup
  (IF <<"win32", "opengl32">> \in held THEN {Done(Of("win32", {"context"}))} ELSE {})

\* nack__nsgl_create_context
NsglContext == {Failed({}), Done(Of("cocoa", {"context"}))}

ContextCreate(b, held) ==
  CASE b \in {"x11", "wayland"} -> EglContext(b, held)
    [] b = "win32" -> WglContext(held)
    [] b = "cocoa" -> NsglContext

-----------------------------------------------------------------------------
(* The renderers *)

\* nack__glr_init: without a context, an entry point or a shader that builds,
\* it fails with what it has so far.  On macOS looking up an entry point loads
\* the framework (nack__nsgl_get_proc_address).
GlInit(b, held) ==
  LET framework == IF b = "cocoa" THEN {<<"cocoa", "framework">>} ELSE {}
  IN UNION {IF ~c.ok THEN {c}
            ELSE {Failed(c.has \cup framework),
                  Done(c.has \cup framework \cup Of("opengl", {"program", "vertices"}))}
            : c \in ContextCreate(b, held)}

\* nack__mtl_init: no view or device, then no queue, then the layer on the view
\* but no pipeline.
MetalInit ==
  {Failed({}), Failed(Of("metal", {"device"})), Failed(Of("metal", {"device", "layer"})),
   Done(Of("metal", {"device", "layer", "pipeline"}))}

RendererInit(r, b, held) ==
  CASE r = "opengl"    -> GlInit(b, held)
    [] r = "metal"     -> MetalInit
    [] r = "test-fail" -> {Failed({})}

\* nack__glr_shutdown, nack__mtl_shutdown: both cope with half of it.
GlShutdown(b) == << <<"opengl", "vertices">>, <<"opengl", "program">>, <<b, "context">> >>
MetalShutdown == << <<"metal", "pipeline">>, <<"metal", "device">>, <<"metal", "layer">> >>

RendererShutdown(r, b) ==
  CASE r = "opengl" -> GlShutdown(b)
    [] r = "metal"  -> MetalShutdown
    [] OTHER        -> << >>

-----------------------------------------------------------------------------
(* What cannot outlive what *)

NeededBy(r, b, gfx) ==
  LET base == CASE b \in {"x11", "wayland"} -> "display"
                [] b = "win32" -> "class"
                [] b = "cocoa" -> "delegate"
                [] OTHER -> "none"
      gl   == CASE b \in {"x11", "wayland"} -> Of(b, {"window", "egl", "surface"})
                [] b = "win32" -> Of(b, {"window", "opengl32"})
                [] OTHER -> Of(b, {"window"})
  IN IF r[1] = "texture"
     THEN IF gfx = "metal" THEN Of("metal", {"device"}) ELSE Of(b, {"context"})
     ELSE CASE r[2] \in {"egl", "globals", "helper", "window", "egl_window"} -> Of(b, {base})
            [] r[2] = "surface" -> Of(b, {"window", "egl"})
            [] r[2] = "context" -> gl
            [] r[2] \in {"program", "vertices"} -> Of(b, {"context"})
            [] r[2] = "layer" -> Of(b, {"window"})
            [] OTHER -> {}
=============================================================================
