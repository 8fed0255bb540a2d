# libnack in TLA+

libnack is a C++ library that gives a program a window holding a grid of
character cells, keyboard and mouse input, and a clipboard, on X11, Wayland,
Win32 and Cocoa. This directory holds TLA+ modules that model the parts of it
where order, timing and failure matter, TLC configurations that check them on
small instances, and TLAPS proofs of the properties that hold for instances of
any size. Paths below are relative to the repository root.

Contents: [the system](#the-system) · [hard behaviours](#what-is-hard) ·
[the modules](#the-modules) · [the runs](#the-runs) ·
[disagreements found](#where-code-and-documentation-disagree) ·
[the proofs](#the-proofs) · [what is not modelled](#what-is-not-modelled) ·
[the plan](#the-plan) · [how to run everything](#running)

## The system

Three layers. A program uses the C++ API (`include/nack/nack.hpp`), thin
handles over the **console layer** (`src/console/`), which owns one window of
the **window layer** (`src/nack.cpp`), which forwards to one **backend**
(`src/xcb/`, `src/wayland/`, `src/win32/`, `src/cocoa/`) through a table of
functions chosen at start. Calls go down; events come up: a backend *pump*
reads the system's messages, calls the *emitters* of `nack.cpp`, those update
the window layer's input state and push onto one event queue, and the console
layer pops, translates or swallows each event.

| Component | State it keeps | Operations | Correct when |
| --- | --- | --- | --- |
| Window core, `src/nack.cpp` | window registry, event queue, `keys`, `mouse_buttons`, per-window `focused`, size and scale, current GL window and context | init, shutdown, create, destroy, the emitters, poll, wait, GL calls | no event names a dead window; flags and latches follow the system; nothing stays latched when the focus goes |
| Waiting and waking, `nack.cpp:867-918`, `nack_api.cpp:458-506`, four pumps | where a call is, the wakeup pipe or message, the deadline | poll, wait, timed wait, `wake()` from any thread | waits end when they should, and not before; wakes are neither lost nor invented |
| X11 backend, `src/xcb/nack_xcb.cpp` | connection, atoms, per-window X state | dispatch of X events, window operations, the pump | the window core's view follows the server's |
| X11 selections, `src/xcb/nack_xcb_clipboard.cpp` | the text owned, four slots for incremental transfers; a read in progress | own, serve, continue, expire; read, read incrementally | a reader receives one whole text; every request gets an answer |
| Wayland surfaces, `src/wayland/nack_wayland.cpp` | outputs and scales, buffer scale, pending and applied configure, EGL window size | registry, configure, scale, set_size, show and hide, pump | size, framebuffer and scale agree with each other and with what the program was told |
| Wayland input, `nack_wayland_input.cpp` | keyboard and pointer focus, key repeat, captured pointer, cursor | seat, keyboard, pointer, repeat | as the window core, plus a repeat ends with its key |
| Wayland frames, `nack_wayland_decor.cpp` | shm buffers, subsurfaces, hover | draw, hit-test, title-bar buttons | pointer state passes cleanly between frame and content |
| Wayland clipboard, `nack_wayland_clipboard.cpp` | offers, sources | offer, read, serve through pipes | an offer's text is the newest; serving does not block |
| Console, `src/console/nack_api.cpp`, `nack_console.cpp`, `nack_render.cpp`, `nack_tileset.cpp`, `nack_gfx*.cpp` | root console, font, tilesets, framebuffer size, viewport, renderer, last error | init, shutdown, translate, present, resize, cell drawing, tilesets, renderer fallback | viewport, mouse cells and grid follow the window; a failed init leaves nothing behind but its reason |
| C++ API, `src/nack_hpp_impl.cpp` | ownership of handles | construct, move, destroy | each resource is released once, and not used after |
| Win32 and Cocoa backends | as the other backends, with the system's message queue | | as the other backends |
| Tables and thin wrappers: key tables, EGL, GL entry-point cache, image decoding | constants, a cache | lookups | pure functions |

`PROJECT.json` lists the same components with their status, and under
`hazards` the places in the code where the properties below earn their keep.

The tree is in the middle of a rename: some of the window core is written with
`state` and some with `nack__g`. The modules read both as the one
`nack_state`, which is what the code around them means.

## What is hard

* **Several writers of one state.** The X server or the compositor moves focus,
  sends keys, takes grabs, plugs devices; the program destroys windows and
  drains its queue when it likes; messages already sent refer to windows that
  are gone. No test orders these.
* **Threads.** `wake()` writes a pipe or posts a message between any two steps
  of the pump.
* **Conversations.** A clipboard transfer is a dialogue with another process
  that may be slow, ask twice, or exit half way.
* **Derived state.** Framebuffer size, scale, viewport and mouse cells are
  computed at different moments from parts of one another.
* **Time.** Deadlines, key repeats and slots that expire, each read from the
  clock at a moment of its own.

## The modules

| Module | Models | Composition |
| --- | --- | --- |
| `WindowCore` | `nack.cpp` on X11: registry, queue, emitters, focus, keys, GL context | the X server is its environment |
| `WindowCoreProofs`, `EventLoopProofs`, `WaylandSeatProofs`, `WaylandConsoleProofs`, `NativeWindowsProofs`, `X11SelectionOwnerProofs`, `ConsoleLifetimeProofs` | proofs about the modules of those names | extend them |
| `EdgeProofs` | proofs about `Clipboards`, `WaylandFrame` and `EntryPoints` | extends the three, which share no variable |
| `EventLoop` | all calls that wait, over the pumps of all four backends | spans `nack_api.cpp`, `nack.cpp` and the backends |
| `KeyboardPromise` | abstract: what the window layer promises of focus and keys | implemented by `WindowCore`, `WaylandSeat` and `NativeWindows` |
| `WaylandSeat` | keyboard, repeat, pointer, buttons, frames | the compositor is its environment |
| `WaylandSurface` | size, outputs, scale, configure | the compositor is its environment |
| `WaylandConsole` | the console's view of its window: viewport, grid, mouse cells | extends `WaylandSurface`, joined by the queue of RESIZE events |
| `WaylandFrame` | the frame libnack draws: layout, buffers, hit testing, presses | the compositor and the user are its environment |
| `NativeWindow` | what the X11, Win32 and Cocoa windows share: `struct nack_window`, latches, emitters | extended by the next three |
| `X11Window`, `Win32Window`, `CocoaWindow` | size, states, keys, buttons of a window on each system | the server, its window manager, Windows, AppKit and the user are the environment |
| `NativeWindows` | one of the three, chosen at start | extends them; implements `KeyboardPromise` |
| `X11SelectionOwner` | serving a selection | composed with other clients as readers |
| `ClipboardPromise` | abstract: what a read of the clipboard may answer | implemented by `Clipboards` |
| `Clipboard` | what the clipboards share: texts, reads, history | extended by the next two |
| `X11SelectionReader`, `WaylandClipboard` | reading and claiming the clipboard on X11; offers, sources and pipes on Wayland, for clipboard and primary selection | other programs and the server are the environment |
| `Clipboards` | all five clipboards, Win32's and Cocoa's included | extends them; implements `ClipboardPromise` |
| `Backends` | what each backend, its window and its GL context take when they start, keep when they fail, and give back | operators for `ConsoleLifetime` |
| `ConsoleLifetime` | init, shutdown, renderers, tilesets, the handles of the C++ API | extends `Backends` |
| `Text`, `Tileset` | encodings and wrapping; which tile shows a codepoint | operators and actions for `ConsoleTables` |
| `EntryPoints` | the cache of OpenGL entry points | part of `ConsoleTables` |
| `ConsoleTables` | typing, printing, wrapping, lookups | extends the three |
| `MC*` | values for TLC: texts, window setups, symmetry | extend the module they check |

Conventions. Variables carry the code's names and the comment beside each says
which field it is. An action is one handler or one call, with everything it
does. Definitions whose comment begins with `Mutant` are plausible bugs; no
specification uses them, and `PROJECT.json` pairs each with the property it
must break. History variables are listed apart; no guard of the library's
actions reads them.

### `WindowCore`

*State.* `wire` is the X connection, `srvFocus`, `held` and `grabbed` the
server; `windows`, `focused`, `keys`, `queue`, `curWindow`, `curContext` are the
fields of `nack_state`. The deque is a set of stamped events: `nack__emit_focus`
pushes one KEY_UP per latched key in the order of key codes, which nothing
depends on, so those share a stamp.

*Actions.* `Dispatch` is `nack__xcb_dispatch` for focus and keys. `EmitFocus`
and `EmitKey` are the emitters, whole: losing the focus releases each latched
key, clears the latch, then queues BLUR. `Destroy` clears the current context,
purges the queue, unregisters and lets the backend destroy the window, one
call from the program's side. `Shutdown` resets everything. Dispatch may run
whatever the queue holds because a clipboard read dispatches from inside
itself (`nack_xcb_clipboard.cpp:310`). `EmitKey` accepts an unknown key,
reports it and does not latch it.

*Environment.* The server sends FocusOut before FocusIn, delivers keys to the
focus unless another client's grab takes them, and auto-repeats by sending
presses. A grab sends focus events with mode Grab and Ungrab.

*History.* `seen` folds the KEY events a program popped into what it believes
is down. `excused` lists the keys libnack cannot know about: those latched
when the focused window was destroyed (no BLUR is sent then) and those
released under a grab. A key stays in it until the library lets go of its latch
at a FocusOut with no press of that key left on the wire (`StillToLatch`): a
press sent before the grab and read after an older FocusOut latches it again.

### `EventLoop`

`pc` is where the one application thread is between `poll_event`,
`wait_event`, `wait_event_timeout` and the bottom of a pump; a step ends
wherever another thread, the server or the clock can get in: before and after
`poll(2)`, between reading the pipe and pushing the event, between the two
looks the Wayland pump takes at the clock (`Arm`, `Woken`). `backend` is chosen
in `Init`; the four differ as the sources do: X11 and Wayland read a pipe, and
only when they were about to sleep; Wayland reads its socket only then, pumps a
key repeat of its own, and returns early with events pending; Win32 and Cocoa
post wakeups as messages.

Messages are only what the loop can tell apart: an event the console shows, one
it hides, none at all, a press that starts a repeat and a release that stops
it. Repeats that fell behind are delivered in one step rather than up to
several at once.

### `X11SelectionOwner`

The server is properties plus one ordered stream of events. `OwnSelection`,
`HandleSelectionRequest` (with slot search, expiry and refusal),
`HandleSelectionClear` and the continuation of a transfer on PropertyDelete
(`NextChunk`) are the library; `Ask`, `TakeReply`, `Receive`, `GiveUp`, `Exit`
are a reader behaving as `tests/x11_selection_peer.c` and ICCCM do. A text is
a sequence of chunks and a chunk is named by its text and its place in it,
which is all `NoSplice` needs. `Concurrent` permits a reader several
conversations at once, which is what ICCCM's MULTIPLE amounts to.

A reader may give up at any time and ask again on the same property, as libnack's
own reader does: it waits two seconds for each chunk
(`nack_xcb_clipboard.cpp:338`) and goes on to the next target on the property it
used before (`:403`), while a slot lives ten seconds (`:43`) and is retired only by
the next search for one (`:107`). `abandoned` holds the conversations that were
given up with something of theirs still at libnack, until that is gone; on those
two texts may mix, which is the run `selection_retry`. What the passing run
promises it promises of the others.

### `WaylandSeat` and `KeyboardPromise`

Messages of the compositor travel on one ordered wire; one that names a window
destroyed meanwhile arrives with a NULL surface. `FocusMoves`, `KeyMoves`,
`KeyboardUnplugged`, `PointerMoves`, `PointerTaken` and so on are the compositor;
`KeyboardEnter`, `KeyboardLeave`, `KeyboardKey`, `PumpKeyRepeat`, `PointerEnter`,
`PointerLeave`, `PointerButton`, `DecorationConfigure` and `SeatCapabilities` the
listeners; `Create` and `Destroy` the program. Pointer focus is kept by the code
in two variables, one for content and one for frames, and so here.

`KeyboardPromise` states in five actions what a program may rely on: focus
moves from window to window through a moment of none, keys change only under
focus, losing focus lets go of all keys, and only a destroyed window takes the
focus away with keys down. `WaylandSeat` implements it under the mapping
`live <- windows`, `focus <-` the one window in `focused`, `down <- keys`; the
run checks `KeepsKeyboardPromise` as a property, every step of the seat being a
step of the promise or a stutter.

The modelled compositor sends `leave` before it takes a device away, and keeps
the pointer where it is while a button is down, unless it takes the pointer
for a move or a menu (`PointerTaken`). `taken` lists the buttons whose release
the library is not told of; a frame that is taken away under the pointer
(`FrameGone`) adds those held over it.

### `WaylandSurface` and `WaylandConsole`

One dimension stands for two: the code treats width and height alike, line by
line. Consequently the integer scale of the console is that of the one
dimension, and `fit` coincides with `stretch`. Scales are integers in 1/120,
the unit of the fractional scale protocol, so that no rounding is assumed:
`fractional_scale_preferred` computes the nearest whole width, as the code's
`+ 0.5f` does.

A configure is two messages sent back to back; a read of the socket may end
between the two, so the program's calls may fall there. `SurfaceConfigure`
clamps and snaps a proposal (`SizeFor`), stores size and framebuffer
(`ResizeEgl`), queues a RESIZE if the size changed or the surface was not
configured, and adopts the states. `UpdateScale` is
`nack__wl_window_update_scale`, the early return under the fractional protocol
and the comparison inside `nack__emit_resize` included. `EmitResize` appears
there with arguments that can never differ, because that is what the code does;
see the disagreements below.

`WaylandConsole` starts where `nack_console_state::init` returns, two RESIZE
events still queued: the window was created for one tile size and resized for
the font that was loaded. `PollEvent` reads the next RESIZE; `Translate`
updates framebuffer size, scale, grid and viewport. `RootResize` and `SetFont`
change the grid and, as in the code, not the viewport.

### `WaylandFrame`

Both dimensions, in pixels, with the code's constants: a frame is geometry.
`Layout` and `Resize` are `nack__wl_decor_resize`; `buffer` is what memory each
part has, which may be none, `painted` what the top was last drawn for,
`geometry` what the compositor was told. `decor.on` follows the server's
decoration mode, which may change its mind. `Points` are the places where the
answer of `nack__wl_button_at` or `nack__wl_decor_resize_edge` changes. `did`
remembers the last press and what was shown before it: which button the title bar
had painted there, what was lit, which cursor, and whether the window had kept its
size since the pointer moved.

### `NativeWindows`

A handler is an operator from one record `n` to the next and calls others by
composition, as the code does, because on Win32 and Cocoa the system calls the
window procedure or the delegate from *inside* a call. `w` is the window as
libnack has it, `sys` as the system does, `requests` and `wire` the two
directions between; `told` is what the console read. On X11 a request passes to
a window manager that may refuse it. On Win32 input waits in the thread's
queue, and who receives a message is settled when it is taken out. On Cocoa
full screen and the Dock take an animation whose end the delegate hears of.
`strayed` lists the buttons whose release goes elsewhere, `crossed` the keys
that were on their way to the window when it went out of sight (`Underway`). On
Cocoa Caps Lock is down while it is locked, each press being one message
(`nack_cocoa.mm:479`), and the other modifiers have no direction in theirs, so
that libnack toggles; AppKit keeps the release of a letter from the window while
Command is down (`CWithheld`; `:931` only forwards what it is given), and the
menu may take a press. Such a letter is in `crossed` until the focus goes.

### `Clipboards` and `ClipboardPromise`

A text is two pieces, since what can be torn is what comes in more than one.
`XTake` is `wait_for` with everything it dispatches, `XTimeout` its deadline;
`WReadPipe` and `WCut` are `read_pipe` and its deadline, which answers what it has
read so far (`nack_wayland_clipboard.cpp:61`). On X11 a deadline leaves the
conversation open, and the next read takes what comes as its own
(`nack_xcb_clipboard.cpp:412`); `XOtherProperty` is a PropertyNotify of another
window or property, after which the wait starts again with a fresh deadline
(`:338`, `:346`), which other programs can put off for as long as they go on, and
here for as often as `MaxMoves` lets them. Programs that answer
late, refuse, change the text during a transfer, drag something over the window
or lose the clipboard meanwhile are the environment. `seen` is the set of texts
that were on the clipboard, or asked for, since the program last heard from
the window system; the promise is that a read in time answers with one of them,
whole, or with nothing, that one cut short on Wayland answers with the beginning
of one, and that on X11 nothing is promised of a read while an earlier
conversation is open.

### `ConsoleLifetime` and `Backends`

`todo` is the list of calls `init` or `shutdown` have still to make, so that
each is a step that can fail; one that goes through a list of backends or of
renderers keeps the candidates it has left. `Backends` lists for each of the four backends
what its start, its window and its GL context may hold afterwards, failed at any
of their points, and in which order they give it back. A resource is a pair of
backend and name. Addresses of tilesets are reused, as an allocator does.
`corrupted` records a use of freed memory; what happens after one is not
looked at, and `FramesAreSound` counts only those of presenting.

### `ConsoleTables`

Numbers are the code's: UTF-16 units, codepoints, bytes, 32 bytes of an event.
`TypeUnits` goes the way of WM_CHAR, `TypeComposed` that of a Wayland
input method, through the event's buffer, `to_event`, `print`, the codepoint
map and the lookup of `nack__render_console` in turn. What a text spells is
written beside it in `MCConsoleTables`, and what a byte string spells is defined
by sums (`Spelled`), so that neither is computed by the operators it is the
measure of. The cache of entry points
is filled under any hash function.

## The runs

All are TLC runs with two workers. Distinct states in brackets. Five modules also
state the types of their variables (`TypeOK`). Those hold on the instances below,
were checked apart from the runs, and are proved for `WindowCore`.

### Passing

**`window_core`** (`MCWindowCore.cfg`; two windows, two keys, one context, two
events in flight, four stamps) [2.7 million]. Two windows are what focus changes,
destruction in flight and purging need; two keys show that a loss of focus
releases all of them; two in flight fit a whole focus change. Windows and keys
are symmetric.

* `NoDanglingEvent`: no event that can be popped names a destroyed window.
* `CurrentIsLive`: current window and context are both live or both NULL,
  whichever is destroyed first.
* `NoStuckKeyInApplication`: a program that drained its queue believes a key is
  down only in a focused window and only while libnack has it latched.
* `SettledInput`: when the connection is quiet, the focus flags are the
  server's and a latched key is held, but for `excused` ones.
* `FocusIsTracked`: the events in flight tell one story, from the window whose
  flag is set to the window the server thinks of. This is the invariant the
  proofs rest on.
* `RepeatMeansHeld`: a KEY_DOWN flagged as a repeat is of a key the program
  knows to be down.

**`event_loop`** (`MCEventLoop.cfg`; all four backends, a pipe of one byte, two
messages, two wakes) [390,715]. One byte is the smallest pipe that can be full;
two wakes can coalesce, and one can come in every gap of the other's delivery.

* `WakesAreKept`: an undelivered wake is somewhere, and each WAKEUP has a wake
  of its own.
* `NothingIsHonest`: a call that returns nothing may.
* `TimedWaitReturns`: a timed wait returns, unless it is caught in the one sleep
  without a timeout that a due repeat causes on Wayland.
* `WaiterIsWoken`: a wake ends a wait, on every backend, and a program that
  waits again and again gets the event, once no key repeats for good. The
  condition is needed: a pump that finds a repeat queued returns before it reads
  the pipe, so an endless repeat starves wakes.

Deadlock is not checked here: a wait with no deadline and nothing to come
sleeps, rightly, for ever.

*Fairness.* Weak fairness of the steps inside a call: the thread is scheduled.
Weak fairness of entering calls: a program that stopped calling is promised
nothing. Weak fairness of `Expire` and `RepeatFallsDue`: time passes. The
server, other threads and signals owe nothing.

**`selection_owner`** (`MCX11SelectionOwner.cfg`; two readers, two slots, a large
text and a small one, three requests and two changes of the selection, four of
the two together, two events in flight) [226,071]. The code's four slots are two
here, so that two readers, or one that asks twice, exhaust them; a large text has
two chunks and the closing empty one.

* `NoSplice`: on a property it has not abandoned a reader receives a prefix of one
  text that was on the clipboard, and all of it by the end, though the text changes
  meanwhile.
* `NothingLostInTransit`: what a reader that has abandoned nothing has read plus
  what lies in the property is what the slot has sent, and libnack watches for the
  deletes of every live reader it is sending to.
* `WaitsEnd`, liveness: a reader that waits for an answer, or for the next chunk of
  a transfer neither side has given up, does not wait for ever. Fairness: the
  library goes on dispatching, and a live reader goes on with its conversation;
  nobody is obliged to ask, to give up, to exit or to be slow. No symmetry, which
  would be unsound for liveness.

It stops when the bounds on requests and claims are used up, so deadlock is not
checked.

**`wayland_seat`** (`MCWaylandSeat.cfg`; two windows, two keys of which one
repeats, one button, two messages in flight) [2.3 million].

* `KeysFollowFocus`: a repeating key is latched in the focused window, and a
  program never keeps a key for a window that lost the focus.
* `SettledKeyboard`, `SettledPointer`: once the wire is quiet, focus, keys,
  pointer and buttons are the compositor's, for frames that come and go and
  windows destroyed in flight. Buttons last pressed on a frame are excepted: the
  frame swallows their release.
* `KeepsKeyboardPromise`: the seat implements `KeyboardPromise`.

**`wayland_console`** (`MCWaylandConsole.cfg`; two outputs at scale 1 or 2, a
fractional scale of 1.5, two tile widths, two messages in flight) [1.8 million].
The three windows are one without limits, one with a minimum, a maximum and an
increment under `auto_resize`, and one scaled by the fractional protocol.

* `SizeIsAgreed`: the last RESIZE queued gives the window's logical size; a
  proposed size is taken within minimum and maximum, on a whole increment; when
  no configure is in flight, maximized and fullscreen are the compositor's.
* `ScaleIsSharp`: without the fractional protocol the framebuffer is the size
  times the announced scale, and no output the surface entered is sharper.
* `MouseInCells`: when the program has read its events, a mouse position over the
  console is reported in the cell drawn there, and one beside it in the nearest
  cell, however small the window and whatever grid and font became since the last
  RESIZE.

The last excepts a framebuffer that changed behind the console, see below.

**`wayland_frame`** (`MCWaylandFrame.cfg`; a content wider than the buttons and
corners, one narrower, a screen; scales 1 and 2; memory for the top part may run
out) [123,788]. Narrow and wide are the two cases of every comparison in the hit
test.

* `PartsTile`: however the window was resized, rescaled, maximized and passed
  between the two kinds of frame, the parts lie round the content with no overlap
  and inside the geometry the compositor was told, and fill it when there was
  memory.
* `PressIsDrawn`: a left press acts as a title button just where the title bar, as
  it was last painted, shows one, however the window was resized since the pointer
  moved.
* `PressIsForeseen`: while the window keeps the size it had when the pointer last
  moved, a left press does what the highlight or the cursor showed. After a resize
  under a pointer at rest it need not: highlight and cursor are still those of the
  old width, and `button_at` uses the new one (`nack_wayland_decor.cpp:754`).

**`native_windows`** (`MCNativeWindows.cfg`; three backends, two sizes and a
larger screen, two scales, both shifts, Caps Lock, Command and a letter, the left
button and an extra one, three messages in flight, five acts of the program and
the user on X11 and six on the others) [3.7 million]. Six acts are enough for the longest story the
comments of the code tell: focus, two shifts down, one up, focus lost, regained.
Invariants named `Settled` are about states with nothing in flight.

* `SettledGeometry`: size, framebuffer and the ratio the mouse is scaled by are
  those of the window, although each backend stores sizes without an event. The
  program may not have been told a size that equals the framebuffer's, nor any on
  Cocoa at the start (see below).
* `SettledStates`: minimized is the system's; fullscreen too, except where a window
  manager refused; maximized on X11 and Win32, Cocoa never noting a zoom; visible
  on X11.
* `SettledInput`, `SettledButtons`: nothing is latched that is up, and a focused
  window knows each key pressed since it got the focus. Excused are what each
  backend cannot follow, `Untracked` and `strayed`.
* `KeepsKeyboardPromise`: as for Wayland.

**`clipboards`** (`MCClipboards.cfg`; five clipboards, two texts, three messages
in flight, one transfer in pieces, four acts of the program and the others, five
on Wayland and three on X11) [536,387].

* `KeepsClipboardPromise`: a read in time answers one whole text that was there
  since libnack last heard, or nothing; one that Wayland's deadline cuts short the
  beginning of one. On X11 nothing is promised of a read that gave up or that finds
  an earlier conversation open.
* `PasteFindsText`: a read finds the text that was there all along. Excused are
  a refusing or slow owner, a window without the keyboard, an offer overtaken by
  another, a SelectionClear older than the last claim, and a drag.
* `ServesItsSource`: a program that pastes from libnack gets the text of the
  source it asked.
* `ReadsEnd`: a read comes back. Fairness: libnack's own wait goes on and its
  deadline comes; the others owe nothing.

**`console_lifetime`** (`MCConsoleLifetime.cfg`; three platforms, three tileset
addresses, two handles, two constructions of an application, five other calls)
[1.4 million]. Three addresses hold the built-in font, the configured one and one
of the program's; the second construction is the restart.

* `CleanSlate`: after a shutdown, or a start that failed anywhere, nothing is
  held; what a backend's own failed start leaves is in `lost`.
* `NestedLifetimes`: nothing is outlived by what it needs, on every way out.
* `FallsBack`: a start gives up only when every backend and renderer was tried.
* `FramesAreSound`: presenting reads no freed tileset and draws only tiles the
  sheet has.

**`console_tables`** (`MCConsoleTables.cfg`; codepoints on both sides of each border
of UTF-8, of UTF-16, of the dense table and of what counts as text, surrogates in
pairs and alone, all byte strings of up to four of seven telling bytes, all texts
of up to six letters, blanks and newlines at widths 1 to 4, two sheets, a cache that
keeps three of four names under every hash, and a name too long for it, two
sessions) [453,015].

* `TextSurvives`: what is typed is drawn, each character in one cell with the tile
  last mapped to it; each step of the decoder takes one spelling whole as the
  number it spells, or U+FFFD and one byte where none starts, and `print` shows
  just that.
* `WrapsWell`: wrapping keeps the text in order and in the width, ends lines only
  where it must, breaks no word that fits a line, draws each character where it
  says, and measures the rows that takes, no fewer and no more.
* `AnswersAreTheDrivers`: a lookup answers what the driver of this session says
  of that very name.

`native_windows`, `clipboards`, `console_lifetime` and `console_tables` stop when
their bounds on calls are used up, so deadlock is not checked.

## Where code and documentation disagree

Two runs TLC must find violated.

**`selection_retry`**, `ChunksAreOfOneText`. A reader that gave up and asks again on
the same property finds its old transfer still in a slot, and the delete it sends
is answered from the first slot that matches: two texts are spliced, against "every
time it deletes the property we append the next chunk"
(`nack_xcb_clipboard.cpp:62`, `:131`). Libnack's own reader is such a one.

**`wayland_frame_maximized`**, `MaximizedFits`.
The window geometry libnack sends includes its frame, "so snapping and maximised
sizing account for the frame we drew" (`nack_wayland_decor.cpp:486`), but a
configure, which speaks of that geometry, is taken for the content
(`nack_wayland.cpp:262`): a maximized window is 10 by 35 larger than the screen,
and grows by as much with each configure that repeats the size.

Others were met while modelling. The passing runs state them as exceptions of
their properties, or the modules leave the state behind them out of scope.

*Input and windows.*

* X11 and Wayland: a program that only polls never gets a wakeup (`nack.hpp:547`);
  only a pump that may sleep reads the pipe (`nack_xcb.cpp:865`).
* Wayland: a repeat due between two looks at the clock makes the timeout of
  `poll(2)` infinite (`nack_wayland_input.cpp:123`, `nack_window.h:299`).
* Wayland: a press on a frame libnack draws is latched, and its release never
  reported (`nack_wayland_input.cpp:590`, `nack_window.h:304`).
* Wayland: an integer scale change stores the framebuffer before `emit_resize`
  compares with it, so no RESIZE is queued (`nack_wayland.cpp:139`); a fractional
  scale is undone by the next configure (`:280`). The configure that maximizes lays
  the frame out (`:281`) before it stores that the window is maximized (`:296`).
* Console: `root().resize()` and `set_font()` leave the viewport as it was until the
  next RESIZE (`nack_api.cpp:442`), so the console is not drawn at a whole multiple
  of its size meanwhile; the mouse follows what is drawn.
* All backends: `wait()` with no window sleeps until a message or a wake comes, and
  only then finds that there is nothing to wait for (`nack.cpp:895`).
* Cocoa: a modifier held across a focus gain is inverted from then on
  (`nack_cocoa.mm:468`); on a Retina display no RESIZE is emitted at start, so the
  console's scale stays 1 and mouse cells are halved (`README.md:67`).
* Win32: an extra button released outside after capture was given up stays
  latched (`nack_win32.cpp:713`); `set_fullscreen` on a minimised window saves the
  rectangle of the icon.
* X11: fullscreen is believed though the window manager refused
  (`nack_xcb.cpp:1145`), and asked for before the window is mapped at start;
  `restore_x` is written and never read.
* Frames: the comment at `nack_wayland_decor.cpp:450` puts the side borders
  beside the title bar, and the layout starts them below it; the cursor promises a
  resize over the top five pixels of a title button whose press the button takes;
  the restore glyph is painted before `maximized` is updated; the geometry stays
  set when the compositor takes over.

*Clipboard.*

* X11: when the first of two transfers to one client ends, libnack stops watching
  it and the second stalls (`nack_xcb_clipboard.cpp:93`, `:99`).
* X11: a SelectionClear dispatched after a newer claim wipes the new text (`:261`);
  answers that come after a timeout are taken for those to the next read (`:413`);
  each PropertyNotify of another window or property gives a read two more seconds
  (`:338`, `:346`).
* Wayland: a drag offer resets whether the clipboard's offer has text
  (`nack_wayland_clipboard.cpp:108`) and is never destroyed; text read when the
  deadline comes is returned cut short; a program always asks for
  `text/plain;charset=utf-8` whatever was offered.
* Win32 and Cocoa: a set that fails after the clipboard was emptied leaves it so.

*Lifetime.*

* The reason of a failed `init` is lost (`nack.hpp:502`): `shutdown()` resets it
  before it is read (`nack_api.cpp:138`).
* A Wayland start that fails leaks the wakeup pipe; an X11 start that fails after
  opening the Xlib display leaves that open; a Win32 start whose window class
  fails leaks its libraries.
* A second application is accepted, and the destructor of either shuts the engine
  under the other; a tileset handle that outlives the application frees a tileset
  twice (`README.md:45`); dropping the tileset that is the font leaves a pointer
  to it.
* WGL: a name looked up before a context is current is cached as missing until
  shutdown.

*Text.* `print_wrapped` drops spaces that start a line; measuring "" gives one row;
`draw_box` prints a title beyond the box though it computes a `length`;
`map_range` leaves a prefix mapped when it fails. "Invalid bytes yield U+FFFD and
consume one byte" (`nack_console.cpp:14`) holds of bytes that spell nothing; longer
spellings than a number needs, surrogates and numbers above U+10FFFF, which UTF-8
calls invalid too, are decoded as they are (`:25`), which is what `TextSurvives`
says. The branch for another layout inside the CP437 one is never taken.

## The proofs

TLAPS proves the following for every value of the constants that the named
assumptions of the modules allow: any sets, finite or not unless an assumption
says so, and any bounds. The name of a module is that of its proofs without
`Proofs`, but for the three of `EdgeProofs`.

| Proofs of | Theorem | States |
| --- | --- | --- |
| `WindowCore` | `TypeCorrect` | `[]TypeOK` |
| | `NoDangling` | `[]NoDanglingEvent` |
| | `CurrentLive` | `[]CurrentIsLive` |
| | `InputInvariant` | `[]InputInv`, inductive |
| | `FocusTracked` | `[]FocusIsTracked` |
| | `NoStuckKey` | `[]NoStuckKeyInApplication` |
| | `LatchInvariant` | `[]LatchInv`, inductive |
| | `InputSettles` | `[]SettledInput` |
| | `RepeatsAreKnown` | `RepeatMeansHeld`, an action property |
| | `CoreKeepsKeyboardPromise` | refinement: implements `KeyboardPromise` |
| `EventLoop` | `LoopInvariant` | `[]LoopInv`, inductive |
| | `WakesKept` | `[]WakesAreKept` |
| | `HonestNothing` | `NothingIsHonest`, an action property |
| `WaylandSeat` | `SeatInvariant` | `[]SeatInv`, inductive |
| | `KeysInFocus` | `[]KeysFollowFocus` |
| | `KeyboardSettles`, `PointerSettles` | `[]SettledKeyboard`, `[]SettledPointer` |
| | `SeatKeepsKeyboardPromise` | refinement: `KeepsKeyboardPromise` |
| `WaylandConsole` | `ConsoleInvariant` | `[]ConsoleInv`, inductive |
| | `SizeAgreed`, `ScaleSharp` | `[]SizeIsAgreed`, `[]ScaleIsSharp` |
| | `MouseCells` | `[]MouseInCells` |
| `WaylandFrame` (in `EdgeProofs`) | `FrameInvariant` | `[]FrameInv`, inductive |
| | `PartsAlwaysTile` | `[]PartsTile` |
| | `PressesAreDrawn`, `PressesAreForeseen` | `[]PressIsDrawn`, `[]PressIsForeseen` |
| `EntryPoints` (in `EdgeProofs`) | `AnswersInvariant` | `[]CacheInv`, inductive |
| | `AnswersTheDrivers` | `[]AnswersAreTheDrivers` |
| `Clipboards` (in `EdgeProofs`) | `BoardsInvariant` | `[]BoardsInv`, inductive |
| | `PastesFindText`, `SourcesServe` | `[]PasteFindsText`, `[]ServesItsSource` |
| | `ClipboardsKeepPromise` | refinement: `KeepsClipboardPromise` |
| `NativeWindows` | `NativeInvariant` | `[]NativeInv`, inductive |
| | `GeometrySettles`, `StatesSettle` | `[]SettledGeometry`, `[]SettledStates` |
| | `NativeInputSettles`, `ButtonsSettle` | `[]SettledInput`, `[]SettledButtons` |
| | `NativeKeepsKeyboardPromise` | refinement: `KeepsKeyboardPromise` |
| `X11SelectionOwner` | `OwnerInvariant` | `[]OwnerInv`, inductive |
| | `TextsAreWhole`, `TransitLosesNothing` | `[]NoSplice`, `[]NothingLostInTransit` |
| `ConsoleLifetime` | `LifeInvariant` | `[]LifeInv`, inductive |
| | `NothingIsLeft`, `LifetimesNest` | `[]CleanSlate`, `[]NestedLifetimes` |
| | `EveryFallbackIsTried`, `FramesStaySound` | `[]FallsBack`, `[]FramesAreSound` |

*Assumptions.* Those named in the modules, which TLC evaluates on every run: NULL
values are not members of the sets they stand beside, bounds are naturals, sizes
and scales are positive, modifiers are keys, and shifts, Caps Lock and Command
modifiers, a pipe holds
at least one byte, a window's maximum size is not below its minimum, a reader of
the selection has finitely many properties, the table of entry points has a slot.
Two came out of the proofs. Without the order of the limits (`SurfaceAssumption`)
the compositor ends the connection with a protocol error; `Prop` is finite
(`OwnerAssumption`) because the properties of one request come in a list.

One theme runs through all the arguments: libnack is behind the window system by
the messages in flight, so an invariant has to say what those messages will make
of the state they find.

### `WindowCore`

*Types, dangling events, the current context.* Type correctness is inductive by
itself. No dangling events needs the types and that a dispatched event for an
unregistered window is dropped. Current is live needs the types only: each call
that removes a window or a context also clears the pair.

*Focus stories.* `NoStuckKeyInApplication` is not inductive: a FocusOut
in flight may clear a latch only if no other window is focused, and that is a
fact about messages not yet dispatched. `InputInv` adds it:
`TypeOK /\ NoDanglingEvent /\ Bookkeeping /\ FocusIsTracked`. Here
`FocusIsTracked` says that there is a function `f` along the wire, `FocusStory`,
where `f[0]` is the window whose flag is set, `f[i]` the live window with the
focus once `i` events are dispatched, and `f[Len(wire)]` the server's focus, such
that a FocusIn for a live window finds no window focused, and a FocusOut or a key
for one finds that window focused. `Bookkeeping` says that only created windows
are heard of, that stamps bound the queue and that nothing is remembered of dead
windows. The proof has one lemma per thing that happens to a story: dispatching
its head drops `f[0]`; the server appending events extends it at the end;
creating a window leaves it, because nothing in flight names a window that was
never created; destroying a window replaces it by NULL throughout. The key
property is then preserved step by step from `InputInv`: keys arrive only for
the focused window, and a BLUR leaves nothing believed.

*Latched keys.* `LatchInv` adds what `SettledInput` and `RepeatMeansHeld` need: a
latched key, and one whose press is in flight, is `Owed` its release, by a later
event on the wire or because the key is down in the server's focus
(`LatchIsAnswered`); and the program knows of each latched key or will once it
has drained its queue (`LatchIsKnown`, which rests on no two queued events being
of one moment and key). Both hold but for the excused keys. With an empty wire
the first says `SettledInput`.

*The promise.* `WindowCore` implements `KeyboardPromise` with
`focus <-` the one window in `focused`, `down <- keys`: that the flag is set for
one window at a time is `FocusIsTracked`, and each action is a step of the
promise or a stutter.

### `EventLoop`

`WakesAreKept` counts wakes: those returned, queued, posted, in the pipe and
about to be pushed are never more than were made, and one not yet returned is
somewhere among them. Neither half is inductive without the other conjuncts of
`LoopInv`. `Stamped`: a stamp is newer than every one in the queue, so that what
is pushed is new. `ServersOnly`: a backend with a pipe has no WAKEUP among its
messages. `PipeSeen`: the pipe is read only when it holds something. `Caught`:
what a poll leaves unread when it has pumped came after the poll began. From the
last follows `NothingIsHonest`.

### `WaylandSeat`

The story again, with both devices in it: one scene before the first message and
one after each, where a scene says who has the keyboard, which keys are down,
where the pointer is and which buttons are pressed. It begins with what the
library holds true (`Begins`), each message takes a scene to the next (`Turn`)
and it ends with what is true at the compositor (`Ends`). A window destroyed or a
frame taken away is taken out of every scene. With an empty wire the story is one
scene, which is both settled properties.

### `WaylandSurface` and `WaylandConsole`

`ConsoleInv` has a conjunct per part of the state. `ConfigureInv`: a toplevel
configure and the surface configure come in pairs, and the last in flight
carries the state the compositor wants. `OutputsMeet`: an `enter` is sent only
while the surface is off the output, and a surface that will be on an output
once all is read is on it at the compositor. `LastSays`: the last RESIZE queued,
or the console if none is, has the width of the window. The scale is a maximum
over a set of outputs: `MaxOfFinite` shows that a finite set has one, from a
smallest subset that would not, since strict inclusion is well-founded. The mouse
is then arithmetic about `\div`: a position beside the console falls short of its
first cell or beyond its last.

### `WaylandFrame`

`FrameInv` says that what is placed and what is shown are functions of two things
only, however they came about. `LaidOut`: each part that has memory is where the
layout for the present size puts it, also after a resize that found memory for
some. `ShowsBar`: the title bar shows the button `decor_hover` names, and was drawn
for the width it has. `PointsTruly`: while the size is kept, that button and the
cursor are those of the place of the pointer. `PartsTile` is then geometry (`Layout`
against `Framed`), and a press looks its place up with the width the bar was drawn
for, and while the size is kept finds what was lit.

### `EntryPoints`

`CacheInv` says of every slot in use, and of the last answer, that the driver of
this session has said it of that very name, and says it still unless the name is
contextual; and that a slot is in use only while the layer is up. A search that
ends stops at a free slot or at one with the name (`SearchEnds`), whatever the
hash, since the first probe at which it can end is one of those. The theorems are
about `CacheSpec`, the cache alone; the other subjects of `ConsoleTables` leave it
as it is.

### `NativeWindows`

The handlers nest, so a step is a composition of operators on a record and the
lemmas are about the operators. `NativeInv` says, per backend and per kind of
message: the last of the kind in flight says what is so; with none in flight
libnack has it, or (X11) a request for it is on its way. For keys on Win32 and
Cocoa that is said of the messages after the last change of focus, because the
change lets go of all earlier ones (`KeysExpire`). Two parts are particular to a
backend: Windows reports the shifts together (`ShiftsTogether`), and a Cocoa
modifier has no direction in its message, so that libnack toggles; the messages
must *take turns* from what libnack believes to what is so (`TakeTurns`), which
holds of every modifier but Caps Lock that was up when the focus came; a message of
Caps Lock says how it stands. With nothing in flight
all this is the four properties.

### `X11SelectionOwner`

A conversation is a reader's window and one of its properties. `OwnerInv` says for
each phase the reader can be in where the conversation is: nowhere (`Quiet`), in
one request on the wire, with the deletes before it old (`Waits`), in one answer,
with what it says in the property (`Answered`), or in the property and a slot
(`Receives`), where what was read and what lies there begin one text, and are what
the slot has sent. Without that the sameness of the text cannot be kept: a delete
read late continues whichever slot has the window and property. All that is said of conversations that are not
`abandoned`; one that is becomes an ordinary one when libnack has nothing of it left
(`Over`) and the reader asks anew. A MULTIPLE is
served property by property: the numbers of them after which the invariant holds
include 0 and with each the next, hence are all (`Numbers`, since the naturals are
well-founded). `OneByOne` is what `NothingLostInTransit` needs besides, of readers
that keep to one conversation: one slot each, whose window is watched.

### `ConsoleLifetime` and `Backends`

The invariant is about the future. `GivesBack`: of everything there is (a resource
of the system, a tileset, the renderer, the window, the layer, the console) and
every call still to be made, the call can bear it or an earlier one gives it back
(`Bears`, `Gives`); and when no start is going on that can still succeed, each
thing is given back by some call. So a list of calls left is judged by what is
there now, and the same judgment serves `shutdown`, the failure of a renderer that
leaves the next to be tried, and every way out of a start: each lemma shows one
list orderly, and a call that works keeps the rest so. `Stages` says how far a start
has come, from the calls still in front of it, and what it has by then; `Tilesets`
that a tileset is tracked, once, as long as it has its texture; `TriesAll` that what
was tried and what is still to be tried are all there is. With no call left and no
console up, nothing is there: `CleanSlate`.

### `Clipboards` and `ClipboardPromise`

`BoardsInv` is one invariant per kind of clipboard, on the record a step passes
from operator to operator.

`XInv`, of the X11 reader. A read that has not given up is at one point of a
conversation with the owner (`XTalk`), and there are few: its answer is on the
way or is the next thing the owner owes; the property holds the whole text; or a
transfer is under way, where the pieces read, the piece in the property and the
transfer's place are the beginning of one text, and each deletion announced has
its piece still to come. A SelectionClear in front of all that is stepped over.
Each message `XTake` dispatches moves the read to the next point or ends it with
what `Answers` allows: a whole text that was on the clipboard, or nothing, with an
excuse. After a deadline the conversation is not followed, which is why the
promise lets go of reads until it is over.

`WInv`, of the Wayland clipboards. `WWanted`: the source libnack believes in is
requested, is the selection, or is about to hear that it is cancelled. `WKnows`:
once a focused libnack has heard the messages on the wire, what it knows is what
the selection is; each message is a step of `Learns`, so that this is a fold
along the wire. It is why a read that finds nothing had nothing to find.
A deadline that cuts a pipe short finds in it a beginning of the text the owner is
sending. `WServed`: what a program got of libnack's is the text its source was made with,
the later sources having numbers of their own.

*The promise.* Every action is one of five steps (`Looks`, `Puts`, `Deals`,
`Asks`, or nothing) and each of these is a step of `ClipboardPromise` or a
stutter. The texts a Wayland client asked for count from the moment they are
asked; the promise takes them in when the compositor deals with the request.

### What the attempts corrected

A proof that would not go through has shown each of these: `excused` of
`WindowCore` was cleared too early for a press still on the wire; in
`WaylandSeat` a frame taken away under the pointer takes the release of a button
with it, as a window does; `SurfaceAssumption` lacked the order of the limits;
`NativeWindow` ignored keys in flight when a window is hidden or minimised and
gets the focus again before they are read (`crossed`), and `Win32Window` the
button whose press finds the capture refused (`strayed`). In `ConsoleLifetime` the
walk through the candidates and over the tilesets was written with filters on lists
where the code takes the next one, or leaves one out as it comes to it; it now does
as the code does. In `WaylandClipboard` the sources of other programs were numbered
apart from libnack's only as far as the bounds of the run went; they are now
negative. `X11SelectionReader` chose what to do with a property in a CASE whose
guards did not exclude one another, where the code has an order; and `Clipboard` did
not say that no text, in its pieces, is Nothing.

### Only model-checked

`MaximizedFits` of `WaylandFrame`, which the code does not keep
(`MCWaylandFrame_Maximized.cfg`). Out of the prover's reach: `TextSurvives` and
`WrapsWell` of `ConsoleTables`, which are about what the recursive functions of
`Text` compute for every input, and liveness under fairness (`TimedWaitReturns`,
`WaiterIsWoken`, `WaitsEnd`, `ReadsEnd`).

## What is not modelled

* **Drawing into cells beyond text**: blits, boxes, fills, the mixing of colours,
  tiles assigned to a cell. Loops over rectangles with nothing around them.
* **What forwards**: titles, icons, cursors, interactive moves, and the getters
  and setters of the header; scroll; compose tables; pointer capture, which no
  public call asks for.
* **Wayland's placeholder buffer** and the binding of the globals not named in a
  module.
* **`nack_console_state::init` beyond its order and its failures**: the options'
  values.
* **What lies in other libraries and systems.** `xcb_flush` reads events while it
  writes, so one may land in xcb's queue between the drain and the sleep; the
  Win32 queue refuses posts beyond 10,000; the modal loop of a Win32 move or
  resize drops thread messages. None of it is in this repository.
* **Misbehaving peers**: a compositor that removes a device or an output without
  sending `leave` first, and selection timestamps.
* **Drivers, shaders, pixels, logging, image decoding and key tables.** No state
  of theirs feeds back.

## The plan

All parts that carry the program's logic are modelled. What remains, most useful
first:

1. Blits and clipping against a reference definition, with `WrapsWell` over longer
   texts.
2. Text and scroll in `WindowCore`, and the console above `NativeWindows` as it is
   above `WaylandSurface`.
3. Two libnack programs joined by one clipboard.

## Running

In this directory, with the TLA+ tools and TLAPS on the path:

    tlc -workers 2 -config MCWindowCore.cfg MCWindowCore     # a run
    tlapm WindowCoreProofs.tla                               # the proofs

`PROJECT.json` pairs each run with its module and configuration; the longest
takes a few minutes. `NativeWindowsProofs`, `ConsoleLifetimeProofs` and
`EdgeProofs` take some ten minutes each, the others a few at most.
